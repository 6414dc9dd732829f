----------------------------- MODULE Approvals -----------------------------
(***************************************************************************)
(* Approval of tool calls by the user (api.ApprovalHandler).  A tool call  *)
(* whose policy is "ask" registers a request and a channel, pushes an      *)
(* event to the user's connections (Broker) and waits for an answer, its   *)
(* timer or its context.  Answers come in as API requests, which take the  *)
(* request out of the maps before they look at it and put it back when the *)
(* binding hash is wrong.  Listing the requests drops the overdue ones.    *)
(*                                                                         *)
(* A request is named by its tool call.  Its policy is left open: risk     *)
(* scores and overrides may turn any policy into another.                  *)
(***************************************************************************)
EXTENDS Broker

CONSTANTS
    Call,       \* tool calls
    Resolver    \* answers of users, each given at most once

ASSUME ApprovalsAssumption == IsFiniteSet(Call) /\ IsFiniteSet(Resolver)

Decision == {"approve", "deny"}
Blank    == "none"
NoAnswer == [call |-> Blank, decision |-> Blank, match |-> FALSE]

VARIABLES
    caller,     \* where each tool call is
    result,     \* what its AuthorizeToolCall returns
    pending,    \* ApprovalHandler.pending
    waiters,    \* ApprovalHandler.waiters
    channel,    \* the answer in the channel of each call
    overdue,    \* calls whose ExpiresAt has passed
    aborted,    \* calls whose context is done
    resolver,   \* where each Resolve is
    answer,     \* what it says
    took,       \* what it took out of the maps: request, waiter
    told        \* what its user was told

maps         == <<pending, waiters>>
environment  == <<overdue, aborted>>
resolvers    == <<resolver, answer, took, told>>
approvalVars == <<clients, stream, buffer, closes, shutdown, caller, result,
                  pending, waiters, channel, overdue, aborted, resolver,
                  answer, took, told>>

GotoCaller(c, l) == caller' = [caller EXCEPT ![c] = l]
Return(c, res)   == result' = [result EXCEPT ![c] = res]

-----------------------------------------------------------------------------
(* AuthorizeToolCall and waitForApproval.                                  *)

AuthorizeToolCall(c) ==
    /\ caller[c] = "unused"
    /\ \/ GotoCaller(c, "done") /\ Return(c, "auto")
       \/ GotoCaller(c, "done") /\ Return(c, "blocked")
       \/ c \in aborted /\ GotoCaller(c, "done") /\ Return(c, "cancelled")
       \/ c \notin aborted /\ GotoCaller(c, "ask") /\ UNCHANGED result
    /\ UNCHANGED <<brokerVars, maps, channel, environment, resolvers>>

(* The clients are counted here and get the event later.                   *)
AskClients(c) ==
    /\ caller[c] = "ask"
    /\ IF clients = {}
       THEN GotoCaller(c, "done") /\ Return(c, "undeliverable") /\ UNCHANGED maps
       ELSE /\ GotoCaller(c, "push") /\ UNCHANGED result
            /\ pending' = pending \cup {c} /\ waiters' = waiters \cup {c}
    /\ UNCHANGED <<brokerVars, channel, environment, resolvers>>

PushRequest(c) ==
    /\ caller[c] = "push"
    /\ GotoCaller(c, "wait") /\ Publish
    /\ UNCHANGED <<result, maps, channel, environment, resolvers>>

(* MUTANT: no timer, as for a question that must be answered.              *)
(* Definitions marked MUTANT are plausible bugs of the definition that     *)
(* follows them; no specification uses them.                               *)
SelectUntimed(c) ==
    /\ caller[c] = "wait"
    /\ \/ channel[c] = "approve" /\ Return(c, "allowed")
       \/ channel[c] = "deny"    /\ Return(c, "denied")
       \/ c \in aborted          /\ Return(c, "cancelled")
    /\ GotoCaller(c, "forget")
    /\ UNCHANGED <<brokerVars, maps, channel, environment, resolvers>>

(* Any case of the select that is ready; only "approve" and its synonyms   *)
(* allow the call.                                                         *)
Select(c) ==
    /\ caller[c] = "wait"
    /\ \/ channel[c] = "approve" /\ Return(c, "allowed")
       \/ channel[c] = "deny"    /\ Return(c, "denied")
       \/ c \in overdue          /\ Return(c, "timeout")
       \/ c \in aborted          /\ Return(c, "cancelled")
    /\ GotoCaller(c, "forget")
    /\ UNCHANGED <<brokerVars, maps, channel, environment, resolvers>>

Forget(c) ==
    /\ caller[c] = "forget"
    /\ pending' = pending \ {c} /\ waiters' = waiters \ {c}
    /\ GotoCaller(c, "done")
    /\ UNCHANGED <<brokerVars, result, channel, environment, resolvers>>

Abort(c) ==
    /\ c \notin aborted /\ aborted' = aborted \cup {c}
    /\ UNCHANGED <<brokerVars, caller, result, maps, channel, overdue, resolvers>>

Expire(c) ==
    /\ caller[c] \notin {"unused", "ask"} /\ c \notin overdue
    /\ overdue' = overdue \cup {c}
    /\ UNCHANGED <<brokerVars, caller, result, maps, channel, aborted, resolvers>>

(* MUTANT: the channel of a request that is dropped stays.                 *)
GetPendingHalf ==
    /\ pending \cap overdue # {}
    /\ pending' = pending \ overdue
    /\ UNCHANGED <<brokerVars, caller, result, waiters, channel, environment,
                   resolvers>>

(* GetPending and GetPendingBySession.                                     *)
GetPending ==
    /\ pending \cap overdue # {}
    /\ pending' = pending \ overdue /\ waiters' = waiters \ (pending \cap overdue)
    /\ UNCHANGED <<brokerVars, caller, result, channel, environment, resolvers>>

-----------------------------------------------------------------------------
(* Resolve.                                                                *)

(* MUTANT: the request is looked up and stays in the map.                  *)
TakeOutNot(c) == UNCHANGED maps

TakeOut(c) == pending' = pending \ {c} /\ waiters' = waiters \ {c}

ResolveTake(q, c) ==
    /\ resolver[q] = "unused" /\ caller[c] \notin {"unused", "ask"}
    /\ \E d \in Decision, m \in BOOLEAN :
          answer' = [answer EXCEPT ![q] = [call |-> c, decision |-> d, match |-> m]]
    /\ took' = [took EXCEPT ![q] = {"request" : x \in pending \cap {c}}
                                   \cup {"waiter" : x \in waiters \cap {c}}]
    /\ TakeOut(c)
    /\ IF c \in pending
       THEN resolver' = [resolver EXCEPT ![q] = "taken"] /\ UNCHANGED told
       ELSE /\ resolver' = [resolver EXCEPT ![q] = "done"]
            /\ told' = [told EXCEPT ![q] = "not found"]
    /\ UNCHANGED <<brokerVars, caller, result, channel, environment>>

(* MUTANT: the request is put back without the channel.                    *)
PutBackRequest(c, taken) ==
    pending' = pending \cup {c} /\ UNCHANGED waiters

PutBack(c, taken) ==
    /\ pending' = pending \cup {c}
    /\ waiters' = IF "waiter" \in taken THEN waiters \cup {c} ELSE waiters

ResolveMismatch(q) ==
    /\ resolver[q] = "taken" /\ ~answer[q].match
    /\ PutBack(answer[q].call, took[q])
    /\ resolver' = [resolver EXCEPT ![q] = "done"]
    /\ told' = [told EXCEPT ![q] = "mismatch"]
    /\ UNCHANGED <<brokerVars, caller, result, channel, environment, answer, took>>

(* MUTANT: a channel without buffer, whose receiver may not be there yet.  *)
SentUnbuffered(c, d, taken) ==
    IF "waiter" \in taken /\ channel[c] = Blank /\ caller[c] = "wait"
    THEN [channel EXCEPT ![c] = d] ELSE channel

(* The send does not block.  With it go the event for the other clients    *)
(* and the reply; they are one step here.                                  *)
Sent(c, d, taken) ==
    IF "waiter" \in taken /\ channel[c] = Blank
    THEN [channel EXCEPT ![c] = d] ELSE channel

(* MUTANT: the binding hash is not compared.                               *)
ResolveAnswerAnyway(q) ==
    /\ resolver[q] = "taken"
    /\ channel' = Sent(answer[q].call, answer[q].decision, took[q])
    /\ resolver' = [resolver EXCEPT ![q] = "done"]
    /\ told' = [told EXCEPT ![q] = "ok"]
    /\ Publish
    /\ UNCHANGED <<caller, result, maps, environment, answer, took>>

ResolveAnswer(q) ==
    /\ resolver[q] = "taken" /\ answer[q].match
    /\ channel' = Sent(answer[q].call, answer[q].decision, took[q])
    /\ resolver' = [resolver EXCEPT ![q] = "done"]
    /\ told' = [told EXCEPT ![q] = "ok"]
    /\ Publish
    /\ UNCHANGED <<caller, result, maps, environment, answer, took>>

-----------------------------------------------------------------------------
ApprovalsInit ==
    /\ BrokerInit
    /\ caller = [c \in Call |-> "unused"] /\ result = [c \in Call |-> Blank]
    /\ pending = {} /\ waiters = {}
    /\ channel = [c \in Call |-> Blank]
    /\ overdue = {} /\ aborted = {}
    /\ resolver = [q \in Resolver |-> "unused"]
    /\ answer = [q \in Resolver |-> NoAnswer]
    /\ took = [q \in Resolver |-> {}] /\ told = [q \in Resolver |-> Blank]

approvalOnly == <<caller, result, pending, waiters, channel, overdue, aborted,
                  resolver, answer, took, told>>

ApprovalsNext ==
    \/ \E c \in Call : \/ AuthorizeToolCall(c) \/ AskClients(c) \/ PushRequest(c)
                       \/ Select(c) \/ Forget(c) \/ Abort(c) \/ Expire(c)
                       \/ \E q \in Resolver : ResolveTake(q, c)
    \/ \E q \in Resolver : ResolveMismatch(q) \/ ResolveAnswer(q)
    \/ GetPending
    \/ BrokerNext /\ UNCHANGED approvalOnly

(* Resolve handlers go on, tool calls go on once their timer has fired, as *)
(* it does.                                                                *)
ApprovalsFairness ==
    /\ BrokerFairness
    /\ \A c \in Call : /\ WF_approvalVars(AskClients(c) \/ PushRequest(c))
                       /\ WF_approvalVars(Select(c) \/ Forget(c))
                       /\ WF_approvalVars(caller[c] = "wait" /\ Expire(c))

ApprovalsSpec ==
    ApprovalsInit /\ [][ApprovalsNext]_approvalVars /\ ApprovalsFairness

-----------------------------------------------------------------------------
(* The types; and the two maps never disagree about a request.             *)
ApprovalsTypeOK ==
    /\ caller \in [Call -> {"unused", "ask", "push", "wait", "forget", "done"}]
    /\ result \in [Call -> {Blank, "auto", "blocked", "undeliverable", "allowed",
                            "denied", "timeout", "cancelled"}]
    /\ pending \in SUBSET Call /\ waiters \in SUBSET Call
    /\ channel \in [Call -> Decision \cup {Blank}]
    /\ overdue \in SUBSET Call /\ aborted \in SUBSET Call
    /\ resolver \in [Resolver -> {"unused", "taken", "done"}]
    /\ told \in [Resolver -> {Blank, "ok", "mismatch", "not found"}]
    /\ waiters = pending

Ok(q, c) == told[q] = "ok" /\ answer[q].call = c

(* A tool call that had to ask runs only if the user approved this call,   *)
(* with the hash that binds the approval to its arguments.                 *)
AllowedMeansApproved ==
    \A c \in Call : result[c] = "allowed" =>
        \E q \in Resolver : Ok(q, c) /\ answer[q].match /\ answer[q].decision = "approve"

(* Two answers to one request: at most one of them is confirmed.           *)
OneAnswer == \A c \in Call : Cardinality({q \in Resolver : Ok(q, c)}) <= 1

(* A confirmed answer is what the tool call acts on, also when it comes    *)
(* before the call begins to wait; only the call's own timeout or          *)
(* cancellation may be faster.                                             *)
AnswerReaches ==
    \A q \in Resolver, c \in Call : Ok(q, c) =>
        LET d == answer[q].decision IN
        IF caller[c] \in {"push", "wait"}
        THEN channel[c] = d
        ELSE result[c] \in {IF d = "approve" THEN "allowed" ELSE "denied",
                            "timeout", "cancelled"}

(* While a call waits and its time has not run out, its request can be     *)
(* answered, or is being: a wrong answer does not use it up.               *)
StaysAnswerable ==
    \A c \in Call : caller[c] \in {"push", "wait"} /\ c \notin overdue =>
        \/ c \in pending /\ c \in waiters
        \/ channel[c] # Blank
        \/ \E q \in Resolver : resolver[q] = "taken" /\ answer[q].call = c

(* Every tool call gets an answer, whatever happens to its request.        *)
EveryCallReturns == \A c \in Call : caller[c] # "unused" ~> caller[c] = "done"
=============================================================================
