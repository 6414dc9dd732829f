--------------------------- MODULE ApprovalsProofs ---------------------------
(***************************************************************************)
(* Theorems about Approvals and the Broker below it, for any number of     *)
(* connections, tool calls and answers.                                    *)
(*                                                                         *)
(* The broker's invariant is its type invariant with NoPanic.  That of     *)
(* Approvals says where the one request of a call is: in the maps, with an *)
(* answer that has taken it out, or used up by the answer that was         *)
(* confirmed.  Everything else follows from there being one place.         *)
(***************************************************************************)
EXTENDS Approvals, FiniteSetTheorems, TLAPS

-----------------------------------------------------------------------------
(* The broker.                                                             *)

(* A channel is closed only after its handler has subscribed.              *)
BrokerInv ==
    /\ BrokerTypeOK /\ NoPanic
    /\ \A c \in Conn : stream[c] = "unused" => closes[c] = 0

LEMMA BrokerStep ==
    ASSUME BrokerInv, BrokerNext \/ Publish \/ UNCHANGED brokerVars
    PROVE  BrokerInv'
<1> USE BrokerAssumption DEF BrokerInv, BrokerTypeOK
<1>1. CASE UNCHANGED brokerVars
  BY <1>1 DEF brokerVars, NoPanic
<1>2. CASE Publish
  <2>1. buffer' \in [Conn -> 0 .. BufferSize]
    BY <1>2 DEF Publish
  <2> QED
    BY <1>2, <2>1 DEF Publish, NoPanic
<1>3. ASSUME NEW c \in Conn, Subscribe(c) PROVE BrokerInv'
  BY <1>3 DEF Subscribe, NoPanic
<1>4. ASSUME NEW c \in Conn, Deliver(c) PROVE BrokerInv'
  BY <1>4 DEF Deliver, NoPanic
<1>5. ASSUME NEW c \in Conn, Leave(c) PROVE BrokerInv'
  BY <1>5 DEF Leave, NoPanic
<1>6. ASSUME NEW c \in Conn, Unsubscribe(c) PROVE BrokerInv'
  BY <1>6 DEF Unsubscribe, NoPanic
<1>7. CASE CloseDone
  BY <1>7 DEF CloseDone, NoPanic
<1>8. CASE CloseClients
  BY <1>8 DEF CloseClients, NoPanic
<1>9. CASE BrokerNext
  BY <1>9, <1>2, <1>3, <1>4, <1>5, <1>6, <1>7, <1>8
     DEF BrokerNext, Disconnect, StopStreaming, Broadcast
<1> QED
  BY <1>1, <1>2, <1>9

LEMMA BrokerInvariant == ApprovalsSpec => []BrokerInv
<1>1. ApprovalsInit => BrokerInv
  BY BrokerAssumption DEF ApprovalsInit, BrokerInit, BrokerInv, BrokerTypeOK, NoPanic
<1>2. BrokerInv /\ [ApprovalsNext]_approvalVars => BrokerInv'
  <2>1. [ApprovalsNext]_approvalVars => BrokerNext \/ Publish \/ UNCHANGED brokerVars
    BY DEF ApprovalsNext, approvalVars, brokerVars, AuthorizeToolCall, AskClients,
           PushRequest, Select, Forget, Abort, Expire, ResolveTake, ResolveMismatch,
           ResolveAnswer, GetPending
  <2> QED
    BY <2>1, BrokerStep
<1> QED
  BY <1>1, <1>2, PTL DEF ApprovalsSpec

(* The channels of the broker are closed at most once and never written to *)
(* after that: Broker.Close, Unsubscribe and Publish, in whatever order.   *)
THEOREM NeverPanics == ApprovalsSpec => []NoPanic
<1>1. BrokerInv => NoPanic
  BY DEF BrokerInv
<1> QED
  BY <1>1, BrokerInvariant, PTL

-----------------------------------------------------------------------------
(* Approvals.                                                              *)

(* The answer of q is on its way to the call c, or was confirmed.          *)
Holds(q, c) == answer[q].call = c /\ (resolver[q] = "taken" \/ told[q] = "ok")

(* What an answer of Resolve may be, also before it is given.              *)
Answer == [call : Call \cup {Blank}, decision : Decision \cup {Blank}, match : BOOLEAN]

(* The types that ApprovalsTypeOK leaves out, and what is known of an      *)
(* answer in each of its steps.                                            *)
AnswerTypeOK ==
    /\ ApprovalsTypeOK
    /\ answer \in [Resolver -> Answer]
    /\ took \in [Resolver -> SUBSET {"request", "waiter"}]
    /\ \A q \in Resolver :
         /\ resolver[q] # "done" => told[q] = Blank
         /\ resolver[q] = "taken" => "waiter" \in took[q]
         /\ resolver[q] = "taken" \/ told[q] = "ok" =>
              answer[q].call \in Call /\ answer[q].decision \in Decision
         /\ told[q] = "ok" => answer[q].match

(* A call has a result exactly when it has stopped waiting.                *)
ResultKnown ==
    \A c \in Call : result[c] = Blank <=> caller[c] \in {"unused", "ask", "push", "wait"}

(* The request of a call is in one place: in the maps or with one answer.  *)
OnePlace ==
    \A c \in Call :
        /\ c \in pending => \A q \in Resolver : ~Holds(q, c)
        /\ \A q1, q2 \in Resolver : Holds(q1, c) /\ Holds(q2, c) => q1 = q2

(* Only a call that asked has a request.                                   *)
Asked(c) == caller[c] \notin {"unused", "ask"}
            /\ result[c] \notin {"auto", "blocked", "undeliverable"}

OnlyAsked ==
    \A c \in Call :
        /\ c \in pending => Asked(c)
        /\ \A q \in Resolver : Holds(q, c) => Asked(c)

Says(q, c, d) == Ok(q, c) /\ answer[q].decision = d

(* What is in a channel, or was returned from it, somebody was told.       *)
ChannelTrue ==
    \A c \in Call : channel[c] # Blank => \E q \in Resolver : Says(q, c, channel[c])

ResultTrue ==
    \A c \in Call :
        /\ result[c] = "allowed" => \E q \in Resolver : Says(q, c, "approve")
        /\ result[c] = "denied" => \E q \in Resolver : Says(q, c, "deny")

ApprovalsInv ==
    /\ AnswerTypeOK /\ ResultKnown /\ OnePlace /\ OnlyAsked
    /\ ChannelTrue /\ ResultTrue /\ AnswerReaches /\ StaysAnswerable

LEMMA InitHolds == ApprovalsInit => ApprovalsInv
<1> SUFFICES ASSUME ApprovalsInit PROVE ApprovalsInv
  OBVIOUS
<1> USE DEF ApprovalsInit, Blank
<1>1. AnswerTypeOK
  BY DEF AnswerTypeOK, ApprovalsTypeOK, Answer, NoAnswer, Decision
<1>2. ResultKnown /\ OnePlace /\ OnlyAsked /\ ChannelTrue /\ ResultTrue
  BY DEF ResultKnown, OnePlace, OnlyAsked, ChannelTrue, ResultTrue, Holds
<1>3. AnswerReaches /\ StaysAnswerable
  BY DEF AnswerReaches, StaysAnswerable, Ok
<1> QED
  BY <1>1, <1>2, <1>3 DEF ApprovalsInv

LEMMA TakeStep ==
    ASSUME ApprovalsInv, NEW p \in Resolver, NEW x \in Call, ResolveTake(p, x)
    PROVE  ApprovalsInv'
<1> USE DEF ApprovalsInv, Blank
<1>d. PICK d \in Decision, m \in BOOLEAN :
         answer' = [answer EXCEPT ![p] = [call |-> x, decision |-> d, match |-> m]]
  BY DEF ResolveTake
<1>a. answer \in [Resolver -> Answer]
      /\ resolver \in [Resolver -> {"unused", "taken", "done"}]
      /\ told \in [Resolver -> {Blank, "ok", "mismatch", "not found"}]
      /\ took \in [Resolver -> SUBSET {"request", "waiter"}]
      /\ pending \in SUBSET Call /\ waiters = pending
  BY DEF AnswerTypeOK, ApprovalsTypeOK
<1>n. answer'[p].call = x /\ answer'[p].decision \in Decision
      /\ (\A q \in Resolver \ {p} : answer'[q] = answer[q])
      /\ answer' \in [Resolver -> Answer]
  <2>1. answer'[p] = [call |-> x, decision |-> d, match |-> m]
    BY <1>d, <1>a
  <2>2. answer'[p].call = x /\ answer'[p].decision = d
    BY <2>1
  <2>3. /\ \A q \in Resolver \ {p} : answer'[q] = answer[q]
        /\ answer' \in [Resolver -> Answer]
    BY <1>d, <1>a DEF Answer
  <2> QED
    BY <2>2, <2>3
<1>u. resolver[p] = "unused" /\ told[p] = Blank /\ caller[x] \notin {"unused", "ask"}
  BY DEF ResolveTake, AnswerTypeOK
<1>k. /\ took' \in [Resolver -> SUBSET {"request", "waiter"}]
      /\ \A q \in Resolver \ {p} : took'[q] = took[q]
      /\ x \in pending => "waiter" \in took'[p]
  BY <1>a DEF ResolveTake
<1>r. \/ /\ x \in pending /\ told' = told
         /\ resolver' = [resolver EXCEPT ![p] = "taken"]
      \/ /\ x \notin pending /\ told' = [told EXCEPT ![p] = "not found"]
         /\ resolver' = [resolver EXCEPT ![p] = "done"]
  BY DEF ResolveTake
<1>v. /\ pending' = pending \ {x} /\ waiters' = waiters \ {x}
      /\ caller' = caller /\ result' = result /\ channel' = channel
      /\ overdue' = overdue /\ aborted' = aborted
  BY DEF ResolveTake, TakeOut, environment
<1>1. AnswerTypeOK'
  <2>1. ApprovalsTypeOK'
    BY <1>a, <1>r, <1>v, ZenonT(60) DEF AnswerTypeOK, ApprovalsTypeOK
  <2>2. ASSUME NEW q \in Resolver
        PROVE  /\ resolver'[q] # "done" => told'[q] = Blank
               /\ resolver'[q] = "taken" => "waiter" \in took'[q]
               /\ resolver'[q] = "taken" \/ told'[q] = "ok" =>
                    answer'[q].call \in Call /\ answer'[q].decision \in Decision
               /\ told'[q] = "ok" => answer'[q].match
    <3>1. CASE q = p
      <4>1. /\ told'[p] # "ok" /\ (resolver'[p] # "done" => told'[p] = Blank)
            /\ resolver'[p] = "taken" => "waiter" \in took'[p]
            /\ answer'[p].call \in Call /\ answer'[p].decision \in Decision
        BY <1>a, <1>n, <1>u, <1>k, <1>r
      <4> QED
        BY <3>1, <4>1
    <3>2. CASE q # p
      <4>1. resolver'[q] = resolver[q] /\ told'[q] = told[q]
            /\ answer'[q] = answer[q] /\ took'[q] = took[q]
        BY <3>2, <1>a, <1>n, <1>k, <1>r
      <4> QED
        BY <4>1 DEF AnswerTypeOK
    <3> QED
      BY <3>1, <3>2
  <2> QED
    BY <2>1, <2>2, <1>n, <1>k DEF AnswerTypeOK
<1>2. ResultKnown'
  BY <1>v DEF ResultKnown
<1>h. \A c \in Call, q \in Resolver :
         Holds(q, c)' => Holds(q, c) \/ (q = p /\ c = x /\ x \in pending)
  BY <1>n, <1>u, <1>a, <1>r DEF Holds
<1>o. ASSUME NEW c \in Call, NEW q \in Resolver
      PROVE  Ok(q, c)' <=> Ok(q, c) /\ q # p
  <2>1. told'[p] # "ok"
    BY <1>u, <1>a, <1>r
  <2>2. q # p => told'[q] = told[q] /\ answer'[q] = answer[q]
    BY <1>a, <1>n, <1>r
  <2> QED
    BY <2>1, <2>2 DEF Ok
<1>p. \A c \in Call : ~Ok(p, c)
  BY <1>u DEF Ok
<1>4. OnePlace'
  BY <1>h, <1>v DEF OnePlace
<1>5. OnlyAsked'
  BY <1>h, <1>v, <1>a DEF OnlyAsked, Asked
<1>s. \A c \in Call, q \in Resolver : Ok(q, c) => Ok(q, c)' /\ answer'[q] = answer[q]
  BY <1>o, <1>p, <1>n
<1>6. ChannelTrue' /\ ResultTrue'
  <2>1. \A c \in Call, q \in Resolver, w \in Decision : Says(q, c, w) => Says(q, c, w)'
    BY <1>s DEF Says
  <2>2. channel \in [Call -> Decision \cup {Blank}]
    BY DEF AnswerTypeOK, ApprovalsTypeOK
  <2> QED
    BY <2>1, <2>2, <1>v DEF ChannelTrue, ResultTrue, Decision
<1>7. AnswerReaches'
  BY <1>o, <1>n, <1>v DEF AnswerReaches
<1>8. StaysAnswerable'
  <2> SUFFICES ASSUME NEW c \in Call, caller[c] \in {"push", "wait"}, c \notin overdue,
                      channel[c] = Blank, ~(c \in pending' /\ c \in waiters')
               PROVE  \E q \in Resolver : resolver'[q] = "taken" /\ answer'[q].call = c
    BY <1>v DEF StaysAnswerable
  <2>1. CASE c = x /\ x \in pending
    BY <2>1, <1>r, <1>n, <1>a
  <2>2. CASE ~(c = x /\ x \in pending)
    <3>1. PICK q \in Resolver : resolver[q] = "taken" /\ answer[q].call = c
      BY <2>2, <1>v, <1>a DEF StaysAnswerable
    <3> QED
      BY <3>1, <1>u, <1>n, <1>r, <1>a
  <2> QED
    BY <2>1, <2>2
<1> QED
  BY <1>1, <1>2, <1>4, <1>5, <1>6, <1>7, <1>8

LEMMA AuthorizeStep ==
    ASSUME ApprovalsInv, NEW x \in Call, AuthorizeToolCall(x)
    PROVE  ApprovalsInv'
<1> USE DEF ApprovalsInv, Blank
<1>a. /\ caller \in [Call -> {"unused", "ask", "push", "wait", "forget", "done"}]
      /\ result \in [Call -> {Blank, "auto", "blocked", "undeliverable", "allowed",
                              "denied", "timeout", "cancelled"}]
      /\ pending \in SUBSET Call /\ waiters = pending
      /\ channel \in [Call -> Decision \cup {Blank}]
  BY DEF AnswerTypeOK, ApprovalsTypeOK
<1>v. /\ resolver' = resolver /\ answer' = answer /\ took' = took /\ told' = told
      /\ pending' = pending /\ waiters' = waiters /\ channel' = channel
      /\ overdue' = overdue /\ aborted' = aborted /\ caller[x] = "unused"
      /\ \/ \E res \in {"auto", "blocked", "cancelled"} :
               /\ caller' = [caller EXCEPT ![x] = "done"]
               /\ result' = [result EXCEPT ![x] = res]
         \/ caller' = [caller EXCEPT ![x] = "ask"] /\ result' = result
  BY DEF AuthorizeToolCall, GotoCaller, Return, maps, environment, resolvers
<1>h. /\ \A c \in Call, q \in Resolver : Holds(q, c)' <=> Holds(q, c)
      /\ \A c \in Call, q \in Resolver : Ok(q, c)' <=> Ok(q, c)
      /\ \A c \in Call, q \in Resolver, d \in Decision : Says(q, c, d)' <=> Says(q, c, d)
  BY <1>v DEF Holds, Ok, Says
<1>k. \A q \in Resolver : ~Holds(q, x) /\ ~Ok(q, x)
  BY <1>v DEF OnlyAsked, Asked, Holds, Ok
<1>1. AnswerTypeOK'
  <2>1. /\ caller' \in [Call -> {"unused", "ask", "push", "wait", "forget", "done"}]
        /\ result' \in [Call -> {Blank, "auto", "blocked", "undeliverable", "allowed",
                                 "denied", "timeout", "cancelled"}]
    BY <1>v, <1>a
  <2> QED
    BY <2>1, <1>v, <1>a DEF AnswerTypeOK, ApprovalsTypeOK
<1>2. ResultKnown'
  BY <1>v, <1>a DEF ResultKnown
<1>3. OnePlace'
  BY <1>k, <1>h, <1>v, <1>a DEF OnePlace
<1>4. OnlyAsked'
  BY <1>k, <1>h, <1>v, <1>a DEF OnlyAsked, Asked
<1>5. ChannelTrue'
  BY <1>h, <1>v, <1>a DEF ChannelTrue
<1>6. ResultTrue'
  BY <1>h, <1>v, <1>a DEF ResultTrue, Decision
<1>7. AnswerReaches'
  BY <1>k, <1>h, <1>v, <1>a DEF AnswerReaches
<1>8. StaysAnswerable'
  BY <1>h, <1>v, <1>a DEF StaysAnswerable
<1> QED
  BY <1>1, <1>2, <1>3, <1>4, <1>5, <1>6, <1>7, <1>8

LEMMA AskStep ==
    ASSUME ApprovalsInv, NEW x \in Call, AskClients(x)
    PROVE  ApprovalsInv'
<1> USE DEF ApprovalsInv, Blank
<1>a. /\ caller \in [Call -> {"unused", "ask", "push", "wait", "forget", "done"}]
      /\ result \in [Call -> {Blank, "auto", "blocked", "undeliverable", "allowed",
                              "denied", "timeout", "cancelled"}]
      /\ pending \in SUBSET Call /\ waiters = pending
      /\ channel \in [Call -> Decision \cup {Blank}]
  BY DEF AnswerTypeOK, ApprovalsTypeOK
<1>v. /\ resolver' = resolver /\ answer' = answer /\ took' = took /\ told' = told
      /\ channel' = channel /\ overdue' = overdue /\ aborted' = aborted
      /\ caller[x] = "ask"
      /\ \/ /\ caller' = [caller EXCEPT ![x] = "done"]
            /\ result' = [result EXCEPT ![x] = "undeliverable"]
            /\ pending' = pending /\ waiters' = waiters
         \/ /\ caller' = [caller EXCEPT ![x] = "push"] /\ result' = result
            /\ pending' = pending \cup {x} /\ waiters' = waiters \cup {x}
  BY DEF AskClients, GotoCaller, Return, maps, environment, resolvers
<1>h. /\ \A c \in Call, q \in Resolver : Holds(q, c)' <=> Holds(q, c)
      /\ \A c \in Call, q \in Resolver : Ok(q, c)' <=> Ok(q, c)
      /\ \A c \in Call, q \in Resolver, d \in Decision : Says(q, c, d)' <=> Says(q, c, d)
  BY <1>v DEF Holds, Ok, Says
<1>k. \A q \in Resolver : ~Holds(q, x) /\ ~Ok(q, x)
  BY <1>v DEF OnlyAsked, Asked, Holds, Ok
<1>1. AnswerTypeOK'
  BY <1>v, <1>a, ZenonT(60) DEF AnswerTypeOK, ApprovalsTypeOK
<1>2. ResultKnown'
  BY <1>v, <1>a DEF ResultKnown
<1>3. OnePlace'
  BY <1>k, <1>h, <1>v, <1>a DEF OnePlace
<1>4. OnlyAsked'
  BY <1>k, <1>h, <1>v, <1>a DEF OnlyAsked, Asked, ResultKnown
<1>5. ChannelTrue'
  BY <1>h, <1>v, <1>a DEF ChannelTrue
<1>6. ResultTrue'
  BY <1>h, <1>v, <1>a DEF ResultTrue, Decision
<1>7. AnswerReaches'
  BY <1>k, <1>h, <1>v, <1>a DEF AnswerReaches
<1>8. StaysAnswerable'
  BY <1>h, <1>v, <1>a DEF StaysAnswerable
<1> QED
  BY <1>1, <1>2, <1>3, <1>4, <1>5, <1>6, <1>7, <1>8

LEMMA PushStep ==
    ASSUME ApprovalsInv, NEW x \in Call, PushRequest(x)
    PROVE  ApprovalsInv'
<1> USE DEF ApprovalsInv, Blank
<1>a. /\ caller \in [Call -> {"unused", "ask", "push", "wait", "forget", "done"}]
      /\ result \in [Call -> {Blank, "auto", "blocked", "undeliverable", "allowed",
                              "denied", "timeout", "cancelled"}]
      /\ pending \in SUBSET Call /\ waiters = pending
      /\ channel \in [Call -> Decision \cup {Blank}]
  BY DEF AnswerTypeOK, ApprovalsTypeOK
<1>v. /\ resolver' = resolver /\ answer' = answer /\ took' = took /\ told' = told
      /\ pending' = pending /\ waiters' = waiters /\ channel' = channel
      /\ overdue' = overdue /\ aborted' = aborted /\ caller[x] = "push"
      /\ caller' = [caller EXCEPT ![x] = "wait"] /\ result' = result
  BY DEF PushRequest, GotoCaller, maps, environment, resolvers
<1>h. /\ \A c \in Call, q \in Resolver : Holds(q, c)' <=> Holds(q, c)
      /\ \A c \in Call, q \in Resolver : Ok(q, c)' <=> Ok(q, c)
      /\ \A c \in Call, q \in Resolver, d \in Decision : Says(q, c, d)' <=> Says(q, c, d)
  BY <1>v DEF Holds, Ok, Says
<1>1. AnswerTypeOK'
  BY <1>v, <1>a DEF AnswerTypeOK, ApprovalsTypeOK
<1>2. ResultKnown'
  BY <1>v, <1>a DEF ResultKnown
<1>3. OnePlace'
  BY <1>h, <1>v, <1>a DEF OnePlace
<1>4. OnlyAsked'
  BY <1>h, <1>v, <1>a DEF OnlyAsked, Asked
<1>5. ChannelTrue'
  BY <1>h, <1>v, <1>a DEF ChannelTrue
<1>6. ResultTrue'
  BY <1>h, <1>v, <1>a DEF ResultTrue, Decision
<1>7. AnswerReaches'
  BY <1>h, <1>v, <1>a DEF AnswerReaches
<1>8. StaysAnswerable'
  BY <1>h, <1>v, <1>a DEF StaysAnswerable
<1> QED
  BY <1>1, <1>2, <1>3, <1>4, <1>5, <1>6, <1>7, <1>8

LEMMA SelectStep ==
    ASSUME ApprovalsInv, NEW x \in Call, Select(x)
    PROVE  ApprovalsInv'
<1> USE DEF ApprovalsInv, Blank
<1>a. /\ caller \in [Call -> {"unused", "ask", "push", "wait", "forget", "done"}]
      /\ result \in [Call -> {Blank, "auto", "blocked", "undeliverable", "allowed",
                              "denied", "timeout", "cancelled"}]
      /\ pending \in SUBSET Call /\ waiters = pending
      /\ channel \in [Call -> Decision \cup {Blank}]
  BY DEF AnswerTypeOK, ApprovalsTypeOK
<1>v. /\ resolver' = resolver /\ answer' = answer /\ took' = took /\ told' = told
      /\ pending' = pending /\ waiters' = waiters /\ channel' = channel
      /\ overdue' = overdue /\ aborted' = aborted /\ caller[x] = "wait"
      /\ caller' = [caller EXCEPT ![x] = "forget"]
      /\ \/ channel[x] = "approve" /\ result' = [result EXCEPT ![x] = "allowed"]
         \/ channel[x] = "deny" /\ result' = [result EXCEPT ![x] = "denied"]
         \/ result' = [result EXCEPT ![x] = "timeout"]
         \/ result' = [result EXCEPT ![x] = "cancelled"]
  BY DEF Select, GotoCaller, Return, maps, environment, resolvers
<1>h. /\ \A c \in Call, q \in Resolver : Holds(q, c)' <=> Holds(q, c)
      /\ \A c \in Call, q \in Resolver : Ok(q, c)' <=> Ok(q, c)
      /\ \A c \in Call, q \in Resolver, d \in Decision : Says(q, c, d)' <=> Says(q, c, d)
  BY <1>v DEF Holds, Ok, Says
<1>1. AnswerTypeOK'
  BY <1>v, <1>a DEF AnswerTypeOK, ApprovalsTypeOK
<1>2. ResultKnown'
  BY <1>v, <1>a DEF ResultKnown
<1>3. OnePlace'
  BY <1>h, <1>v, <1>a DEF OnePlace
<1>4. OnlyAsked'
  BY <1>h, <1>v, <1>a DEF OnlyAsked, Asked
<1>5. ChannelTrue'
  BY <1>h, <1>v, <1>a DEF ChannelTrue
<1>6. ResultTrue'
  BY <1>h, <1>v, <1>a DEF ResultTrue, ChannelTrue, Decision
<1>7. AnswerReaches'
  BY <1>h, <1>v, <1>a DEF AnswerReaches
<1>8. StaysAnswerable'
  BY <1>h, <1>v, <1>a DEF StaysAnswerable
<1> QED
  BY <1>1, <1>2, <1>3, <1>4, <1>5, <1>6, <1>7, <1>8

LEMMA ForgetStep ==
    ASSUME ApprovalsInv, NEW x \in Call, Forget(x)
    PROVE  ApprovalsInv'
<1> USE DEF ApprovalsInv, Blank
<1>a. /\ caller \in [Call -> {"unused", "ask", "push", "wait", "forget", "done"}]
      /\ result \in [Call -> {Blank, "auto", "blocked", "undeliverable", "allowed",
                              "denied", "timeout", "cancelled"}]
      /\ pending \in SUBSET Call /\ waiters = pending
      /\ channel \in [Call -> Decision \cup {Blank}]
  BY DEF AnswerTypeOK, ApprovalsTypeOK
<1>v. /\ resolver' = resolver /\ answer' = answer /\ took' = took /\ told' = told
      /\ pending' = pending \ {x} /\ waiters' = waiters \ {x} /\ channel' = channel
      /\ overdue' = overdue /\ aborted' = aborted /\ caller[x] = "forget"
      /\ caller' = [caller EXCEPT ![x] = "done"] /\ result' = result
  BY DEF Forget, GotoCaller, environment, resolvers
<1>h. /\ \A c \in Call, q \in Resolver : Holds(q, c)' <=> Holds(q, c)
      /\ \A c \in Call, q \in Resolver : Ok(q, c)' <=> Ok(q, c)
      /\ \A c \in Call, q \in Resolver, d \in Decision : Says(q, c, d)' <=> Says(q, c, d)
  BY <1>v DEF Holds, Ok, Says
<1>1. AnswerTypeOK'
  BY <1>v, <1>a DEF AnswerTypeOK, ApprovalsTypeOK
<1>2. ResultKnown'
  BY <1>v, <1>a DEF ResultKnown
<1>3. OnePlace'
  BY <1>h, <1>v, <1>a DEF OnePlace
<1>4. OnlyAsked'
  BY <1>h, <1>v, <1>a DEF OnlyAsked, Asked
<1>5. ChannelTrue'
  BY <1>h, <1>v, <1>a DEF ChannelTrue
<1>6. ResultTrue'
  BY <1>h, <1>v, <1>a DEF ResultTrue, Decision
<1>7. AnswerReaches'
  BY <1>h, <1>v, <1>a DEF AnswerReaches
<1>8. StaysAnswerable'
  BY <1>h, <1>v, <1>a DEF StaysAnswerable
<1> QED
  BY <1>1, <1>2, <1>3, <1>4, <1>5, <1>6, <1>7, <1>8

LEMMA ExpireStep ==
    ASSUME ApprovalsInv, NEW x \in Call, Expire(x)
    PROVE  ApprovalsInv'
<1> USE DEF ApprovalsInv, Blank
<1>a. /\ caller \in [Call -> {"unused", "ask", "push", "wait", "forget", "done"}]
      /\ result \in [Call -> {Blank, "auto", "blocked", "undeliverable", "allowed",
                              "denied", "timeout", "cancelled"}]
      /\ pending \in SUBSET Call /\ waiters = pending
      /\ channel \in [Call -> Decision \cup {Blank}]
  BY DEF AnswerTypeOK, ApprovalsTypeOK
<1>v. /\ resolver' = resolver /\ answer' = answer /\ took' = took /\ told' = told
      /\ pending' = pending /\ waiters' = waiters /\ channel' = channel
      /\ overdue' = overdue \cup {x} /\ aborted' = aborted
      /\ caller' = caller /\ result' = result
  BY DEF Expire, maps, resolvers
<1>h. /\ \A c \in Call, q \in Resolver : Holds(q, c)' <=> Holds(q, c)
      /\ \A c \in Call, q \in Resolver : Ok(q, c)' <=> Ok(q, c)
      /\ \A c \in Call, q \in Resolver, d \in Decision : Says(q, c, d)' <=> Says(q, c, d)
  BY <1>v DEF Holds, Ok, Says
<1>1. AnswerTypeOK'
  BY <1>v, <1>a DEF AnswerTypeOK, ApprovalsTypeOK
<1>2. ResultKnown'
  BY <1>v, <1>a DEF ResultKnown
<1>3. OnePlace'
  BY <1>h, <1>v, <1>a DEF OnePlace
<1>4. OnlyAsked'
  BY <1>h, <1>v, <1>a DEF OnlyAsked, Asked
<1>5. ChannelTrue'
  BY <1>h, <1>v, <1>a DEF ChannelTrue
<1>6. ResultTrue'
  BY <1>h, <1>v, <1>a DEF ResultTrue, Decision
<1>7. AnswerReaches'
  BY <1>h, <1>v, <1>a DEF AnswerReaches
<1>8. StaysAnswerable'
  BY <1>h, <1>v, <1>a DEF StaysAnswerable
<1> QED
  BY <1>1, <1>2, <1>3, <1>4, <1>5, <1>6, <1>7, <1>8

LEMMA GetPendingStep ==
    ASSUME ApprovalsInv, GetPending
    PROVE  ApprovalsInv'
<1> USE DEF ApprovalsInv, Blank
<1>v. /\ resolver' = resolver /\ answer' = answer /\ took' = took /\ told' = told
      /\ caller' = caller /\ result' = result /\ channel' = channel
      /\ overdue' = overdue /\ aborted' = aborted
      /\ pending' = pending \ overdue /\ waiters' = waiters \ (pending \cap overdue)
      /\ pending \in SUBSET Call /\ waiters = pending
  BY DEF GetPending, environment, resolvers, AnswerTypeOK, ApprovalsTypeOK
<1>h. /\ \A c \in Call, q \in Resolver : Holds(q, c)' <=> Holds(q, c)
      /\ \A c \in Call, q \in Resolver : Ok(q, c)' <=> Ok(q, c)
      /\ \A c \in Call, q \in Resolver, d \in Decision : Says(q, c, d)' <=> Says(q, c, d)
  BY <1>v DEF Holds, Ok, Says
<1>1. AnswerTypeOK'
  BY <1>v DEF AnswerTypeOK, ApprovalsTypeOK
<1>2. ResultKnown' /\ ResultTrue' /\ AnswerReaches'
  BY <1>h, <1>v DEF ResultKnown, ResultTrue, AnswerReaches, Decision
<1>3. OnePlace' /\ OnlyAsked'
  BY <1>h, <1>v DEF OnePlace, OnlyAsked, Asked
<1>4. ChannelTrue'
  BY <1>h, <1>v DEF ChannelTrue, AnswerTypeOK, ApprovalsTypeOK
<1>5. StaysAnswerable'
  BY <1>v DEF StaysAnswerable
<1> QED
  BY <1>1, <1>2, <1>3, <1>4, <1>5

(* A step that leaves the maps and the answers alone.                      *)
LEMMA QuietStep ==
    ASSUME ApprovalsInv,
           UNCHANGED <<caller, result, pending, waiters, channel, overdue,
                       resolver, answer, took, told>>,
           aborted' \in SUBSET Call
    PROVE  ApprovalsInv'
<1>h. /\ \A c \in Call, q \in Resolver : Holds(q, c)' <=> Holds(q, c)
      /\ \A c \in Call, q \in Resolver : Ok(q, c)' <=> Ok(q, c)
      /\ \A c \in Call, q \in Resolver, d \in Decision \cup {Blank} :
            Says(q, c, d)' <=> Says(q, c, d)
  BY DEF Holds, Ok, Says
<1> USE DEF ApprovalsInv
<1>1. AnswerTypeOK'
  BY DEF AnswerTypeOK, ApprovalsTypeOK
<1>2. ResultKnown' /\ ResultTrue' /\ AnswerReaches'
  BY <1>h DEF ResultKnown, ResultTrue, AnswerReaches, Decision
<1>3. OnePlace' /\ OnlyAsked'
  BY <1>h DEF OnePlace, OnlyAsked, Asked
<1>4. ChannelTrue'
  BY <1>h DEF ChannelTrue, AnswerTypeOK, ApprovalsTypeOK
<1>5. StaysAnswerable'
  BY DEF StaysAnswerable
<1> QED
  BY <1>1, <1>2, <1>3, <1>4, <1>5

LEMMA MismatchStep ==
    ASSUME ApprovalsInv, NEW p \in Resolver, ResolveMismatch(p)
    PROVE  ApprovalsInv'
<1> USE DEF ApprovalsInv, Blank
<1> DEFINE x == answer[p].call
<1>a. /\ answer \in [Resolver -> Answer]
      /\ resolver \in [Resolver -> {"unused", "taken", "done"}]
      /\ told \in [Resolver -> {Blank, "ok", "mismatch", "not found"}]
      /\ pending \in SUBSET Call /\ waiters = pending
      /\ x \in Call /\ told[p] = Blank
  BY DEF AnswerTypeOK, ApprovalsTypeOK, ResolveMismatch
<1>v. /\ caller' = caller /\ result' = result /\ channel' = channel
      /\ overdue' = overdue /\ aborted' = aborted /\ answer' = answer /\ took' = took
      /\ pending' = pending \cup {x} /\ waiters' = waiters \cup {x}
      /\ resolver[p] = "taken"
      /\ resolver' = [resolver EXCEPT ![p] = "done"]
      /\ told' = [told EXCEPT ![p] = "mismatch"]
  BY DEF ResolveMismatch, PutBack, environment, AnswerTypeOK
<1>k. Holds(p, x)
  BY <1>v DEF Holds
<1>h. /\ \A c \in Call, q \in Resolver : Holds(q, c)' <=> Holds(q, c) /\ q # p
      /\ \A c \in Call, q \in Resolver : Ok(q, c)' <=> Ok(q, c)
      /\ \A c \in Call, q \in Resolver, d \in Decision : Says(q, c, d)' <=> Says(q, c, d)
  BY <1>v, <1>a DEF Holds, Ok, Says
<1>1. AnswerTypeOK'
  <2>1. ApprovalsTypeOK'
    BY <1>a, <1>v DEF AnswerTypeOK, ApprovalsTypeOK
  <2>2. /\ resolver'[p] = "done" /\ told'[p] = "mismatch"
        /\ \A q \in Resolver \ {p} : resolver'[q] = resolver[q] /\ told'[q] = told[q]
    BY <1>a, <1>v
  <2>3. ASSUME NEW q \in Resolver
        PROVE  /\ resolver'[q] # "done" => told'[q] = Blank
               /\ resolver'[q] = "taken" => "waiter" \in took'[q]
               /\ resolver'[q] = "taken" \/ told'[q] = "ok" =>
                    answer'[q].call \in Call /\ answer'[q].decision \in Decision
               /\ told'[q] = "ok" => answer'[q].match
    BY <2>2, <1>v DEF AnswerTypeOK
  <2> QED
    BY <2>1, <2>3, <1>v DEF AnswerTypeOK
<1>2. ResultKnown' /\ ResultTrue' /\ AnswerReaches'
  BY <1>h, <1>v DEF ResultKnown, ResultTrue, AnswerReaches, Decision
<1>3. OnePlace'
  BY <1>h, <1>k, <1>v, <1>a, ZenonT(60) DEF OnePlace
<1>4. OnlyAsked'
  BY <1>h, <1>k, <1>v, <1>a DEF OnlyAsked, Asked
<1>5. ChannelTrue'
  BY <1>h, <1>v DEF ChannelTrue, AnswerTypeOK, ApprovalsTypeOK
<1>6. StaysAnswerable'
  BY <1>v, <1>a, ZenonT(60) DEF StaysAnswerable
<1> QED
  BY <1>1, <1>2, <1>3, <1>4, <1>5, <1>6

LEMMA AnswerStep ==
    ASSUME ApprovalsInv, NEW p \in Resolver, ResolveAnswer(p)
    PROVE  ApprovalsInv'
<1> USE DEF ApprovalsInv, Blank
<1> DEFINE x == answer[p].call
           d == answer[p].decision
<1>a. /\ answer \in [Resolver -> Answer]
      /\ resolver \in [Resolver -> {"unused", "taken", "done"}]
      /\ told \in [Resolver -> {Blank, "ok", "mismatch", "not found"}]
      /\ channel \in [Call -> Decision \cup {Blank}]
      /\ pending \in SUBSET Call /\ waiters = pending
      /\ x \in Call /\ d \in Decision /\ told[p] = Blank
  BY DEF AnswerTypeOK, ApprovalsTypeOK, ResolveAnswer
<1>v. /\ caller' = caller /\ result' = result /\ pending' = pending /\ waiters' = waiters
      /\ overdue' = overdue /\ aborted' = aborted /\ answer' = answer /\ took' = took
      /\ resolver[p] = "taken" /\ answer[p].match
      /\ resolver' = [resolver EXCEPT ![p] = "done"]
      /\ told' = [told EXCEPT ![p] = "ok"]
  BY DEF ResolveAnswer, maps, environment
<1>k. Holds(p, x)
  BY <1>v DEF Holds
(* Nobody was confirmed before, so the channel is empty.                   *)
<1>e. \A q \in Resolver : ~Ok(q, x)
  <2> SUFFICES ASSUME NEW q \in Resolver, Ok(q, x) PROVE FALSE
    OBVIOUS
  <2>1. Holds(q, x)
    BY DEF Holds, Ok
  <2>2. q = p
    BY <2>1, <1>k, <1>a DEF OnePlace
  <2> QED
    BY <2>2, <1>a DEF Ok
<1>c. channel[x] = Blank /\ channel' = [channel EXCEPT ![x] = d]
  BY <1>e, <1>a, <1>v DEF ChannelTrue, Says, ResolveAnswer, Sent, AnswerTypeOK
<1>h. \A c \in Call, q \in Resolver : Holds(q, c)' <=> Holds(q, c)
  BY <1>v, <1>a DEF Holds
<1>o. /\ \A c \in Call, q \in Resolver : Ok(q, c)' <=> Ok(q, c) \/ (q = p /\ c = x)
      /\ \A c \in Call, q \in Resolver, w \in Decision : Says(q, c, w) => Says(q, c, w)'
      /\ Says(p, x, d)'
  BY <1>v, <1>a DEF Ok, Says
<1>1. AnswerTypeOK'
  <2>1. ApprovalsTypeOK'
    BY <1>a, <1>v, <1>c DEF AnswerTypeOK, ApprovalsTypeOK
  <2>2. /\ resolver'[p] = "done" /\ told'[p] = "ok"
        /\ \A q \in Resolver \ {p} : resolver'[q] = resolver[q] /\ told'[q] = told[q]
    BY <1>a, <1>v
  <2>3. ASSUME NEW q \in Resolver
        PROVE  /\ resolver'[q] # "done" => told'[q] = Blank
               /\ resolver'[q] = "taken" => "waiter" \in took'[q]
               /\ resolver'[q] = "taken" \/ told'[q] = "ok" =>
                    answer'[q].call \in Call /\ answer'[q].decision \in Decision
    BY <2>2, <1>a, <1>v DEF AnswerTypeOK
  <2>4. ASSUME NEW q \in Resolver, told'[q] = "ok" PROVE answer'[q].match
    <3>1. CASE q = p
      BY <3>1, <1>v
    <3>2. CASE q # p
      BY <3>2, <2>2, <2>4, <1>v DEF AnswerTypeOK
    <3> QED
      BY <3>1, <3>2
  <2> QED
    BY <2>1, <2>3, <2>4, <1>v DEF AnswerTypeOK
<1>2. ResultKnown'
  BY <1>v DEF ResultKnown
<1>3. OnePlace' /\ OnlyAsked'
  BY <1>h, <1>v DEF OnePlace, OnlyAsked, Asked
<1>4. ChannelTrue'
  <2> SUFFICES ASSUME NEW c \in Call, channel'[c] # Blank
               PROVE  \E q \in Resolver : Ok(q, c)' /\ answer[q].decision = channel'[c]
    BY <1>v DEF ChannelTrue, Says
  <2>1. CASE c = x
    BY <2>1, <1>o, <1>c, <1>a
  <2>2. CASE c # x
    <3>1. channel'[c] = channel[c]
      BY <2>2, <1>c, <1>a
    <3> QED
      BY <3>1, <1>o DEF ChannelTrue, Says
  <2> QED
    BY <2>1, <2>2
<1>5. ResultTrue'
  BY <1>o, <1>v DEF ResultTrue, Decision
<1>6. AnswerReaches'
  <2> SUFFICES ASSUME NEW c \in Call, NEW q \in Resolver, Ok(q, c)'
               PROVE  IF caller[c] \in {"push", "wait"}
                      THEN channel'[c] = answer[q].decision
                      ELSE result[c] \in {IF answer[q].decision = "approve"
                                          THEN "allowed" ELSE "denied",
                                          "timeout", "cancelled"}
    BY <1>v DEF AnswerReaches
  <2>1. CASE q = p /\ c = x
    <3>1. Asked(x)
      BY <1>k, <1>a DEF OnlyAsked
    <3>2. result[x] \notin {"allowed", "denied"}
      BY <1>e, <1>a DEF ResultTrue, Says
    <3>3. result[x] \in {Blank, "auto", "blocked", "undeliverable", "allowed",
                         "denied", "timeout", "cancelled"}
          /\ caller[x] \in {"unused", "ask", "push", "wait", "forget", "done"}
      BY <1>a DEF AnswerTypeOK, ApprovalsTypeOK
    <3> QED
      BY <2>1, <3>1, <3>2, <3>3, <1>c, <1>a DEF Asked, ResultKnown
  <2>2. CASE ~(q = p /\ c = x)
    <3>1. Ok(q, c) /\ c # x
      BY <2>2, <1>o, <1>e
    <3> QED
      BY <3>1, <1>c, <1>a DEF AnswerReaches
  <2> QED
    BY <2>1, <2>2
<1>7. StaysAnswerable'
  <2> SUFFICES ASSUME NEW c \in Call, caller[c] \in {"push", "wait"}, c \notin overdue
               PROVE  \/ c \in pending /\ c \in waiters
                      \/ channel'[c] # Blank
                      \/ \E q \in Resolver : resolver'[q] = "taken" /\ answer[q].call = c
    BY <1>v DEF StaysAnswerable
  <2>1. CASE c = x
    BY <2>1, <1>c, <1>a DEF Decision
  <2>2. CASE c # x
    <3>1. channel'[c] = channel[c]
      BY <2>2, <1>c, <1>a
    <3>2. \A q \in Resolver \ {p} : resolver'[q] = resolver[q]
      BY <1>v, <1>a
    <3> QED
      BY <2>2, <3>1, <3>2 DEF StaysAnswerable
  <2> QED
    BY <2>1, <2>2
<1> QED
  BY <1>1, <1>2, <1>3, <1>4, <1>5, <1>6, <1>7

LEMMA ApprovalsStep == ApprovalsInv /\ [ApprovalsNext]_approvalVars => ApprovalsInv'
<1> SUFFICES ASSUME ApprovalsInv, [ApprovalsNext]_approvalVars PROVE ApprovalsInv'
  OBVIOUS
<1>t. aborted \in SUBSET Call
  BY DEF ApprovalsInv, AnswerTypeOK, ApprovalsTypeOK
<1>1. CASE UNCHANGED approvalVars
  BY <1>1, <1>t, QuietStep DEF approvalVars
<1>2. CASE BrokerNext /\ UNCHANGED approvalOnly
  BY <1>2, <1>t, QuietStep DEF approvalOnly
<1>3. ASSUME NEW c \in Call, Abort(c) PROVE ApprovalsInv'
  BY <1>3, <1>t, QuietStep DEF Abort, maps, resolvers
<1>4. CASE GetPending
  BY <1>4, GetPendingStep
<1>5. ASSUME NEW c \in Call,
             \/ AuthorizeToolCall(c) \/ AskClients(c) \/ PushRequest(c)
             \/ Select(c) \/ Forget(c) \/ Expire(c)
      PROVE  ApprovalsInv'
  BY <1>5, AuthorizeStep, AskStep, PushStep, SelectStep, ForgetStep, ExpireStep
<1>6. ASSUME NEW q \in Resolver,
             \/ \E c \in Call : ResolveTake(q, c)
             \/ ResolveMismatch(q) \/ ResolveAnswer(q)
      PROVE  ApprovalsInv'
  BY <1>6, TakeStep, MismatchStep, AnswerStep
<1> QED
  BY <1>1, <1>2, <1>3, <1>4, <1>5, <1>6 DEF ApprovalsNext

LEMMA ApprovalsInvariant == ApprovalsSpec => []ApprovalsInv
  BY InitHolds, ApprovalsStep, PTL DEF ApprovalsSpec

(* A tool call runs only on an approval of this very call: the hash of     *)
(* Resolve was compared before waitForApproval could see the answer.       *)
THEOREM ApprovedOnly == ApprovalsSpec => []AllowedMeansApproved
<1>1. ApprovalsInv => AllowedMeansApproved
  <2> SUFFICES ASSUME ApprovalsInv, NEW c \in Call, result[c] = "allowed"
               PROVE  \E q \in Resolver : Ok(q, c) /\ answer[q].match
                                          /\ answer[q].decision = "approve"
    BY DEF AllowedMeansApproved
  <2>1. PICK q \in Resolver : Says(q, c, "approve")
    BY DEF ApprovalsInv, ResultTrue
  <2>2. answer[q].match
    BY <2>1 DEF ApprovalsInv, AnswerTypeOK, Says, Ok
  <2> QED
    BY <2>1, <2>2 DEF Says
<1> QED
  BY <1>1, ApprovalsInvariant, PTL

(* Resolve confirms one answer to a request at most: whoever takes the     *)
(* request out of the maps has it alone.                                   *)
THEOREM ConfirmedOnce == ApprovalsSpec => []OneAnswer
<1>1. ASSUME ApprovalsInv, NEW c \in Call
      PROVE  Cardinality({q \in Resolver : Ok(q, c)}) <= 1
  <2> DEFINE S == {q \in Resolver : Ok(q, c)}
  <2>1. CASE S = {}
    BY <2>1, FS_EmptySet
  <2>2. CASE S # {}
    <3>1. PICK p \in Resolver : Ok(p, c)
      BY <2>2
    <3>2. \A q \in Resolver : Ok(q, c) => q = p
      BY <1>1, <3>1 DEF ApprovalsInv, OnePlace, Holds, Ok
    <3>3. S = {p}
      BY <3>1, <3>2
    <3> QED
      BY <3>3, FS_Singleton
  <2> QED
    BY <2>1, <2>2
<1>2. ApprovalsInv => OneAnswer
  BY <1>1 DEF OneAnswer
<1> QED
  BY <1>2, ApprovalsInvariant, PTL

(* A confirmed answer is in the channel before the call waits for it, or   *)
(* is what the call returned, unless its timer or its context was faster.  *)
THEOREM AnswersCount == ApprovalsSpec => []AnswerReaches
<1>1. ApprovalsInv => AnswerReaches
  BY DEF ApprovalsInv
<1> QED
  BY <1>1, ApprovalsInvariant, PTL

(* A wrong answer gives the request back with its channel: while a call    *)
(* waits, its request can be answered or an answer to it is on its way.    *)
THEOREM RequestsStayAnswerable == ApprovalsSpec => []StaysAnswerable
<1>1. ApprovalsInv => StaysAnswerable
  BY DEF ApprovalsInv
<1> QED
  BY <1>1, ApprovalsInvariant, PTL

(* The handler's two maps never disagree about a request; everything keeps *)
(* its type.                                                               *)
THEOREM MapsAgree == ApprovalsSpec => []ApprovalsTypeOK
<1>1. ApprovalsInv => ApprovalsTypeOK
  BY DEF ApprovalsInv, AnswerTypeOK
<1> QED
  BY <1>1, ApprovalsInvariant, PTL

(* The broker's list has the subscriptions whose handlers still need it,   *)
(* and the channels of those that are left are open.                       *)
THEOREM BrokerListFits == ApprovalsSpec => []BrokerTypeOK
<1>1. BrokerInv => BrokerTypeOK
  BY DEF BrokerInv
<1> QED
  BY <1>1, BrokerInvariant, PTL
=============================================================================
