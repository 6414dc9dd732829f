------------------------- MODULE ProviderRouterProofs -------------------------
(***************************************************************************)
(* Theorems about ProviderRouter for any number of providers, callers,     *)
(* keys, errors and changes of the registry.  The type invariant needs to  *)
(* know what is empty between two passes of a request; that no refusal is  *)
(* stale needs to know what the pass over the registry's list has not lost *)
(* of the providers that have been open all the time.                      *)
(***************************************************************************)
EXTENDS ProviderRouter, FiniteSetTheorems, TLAPS

AttemptTypeOK ==
    /\ rpc \in [Caller -> {"idle", "route", "try", "race", "won", "gone", "lost", "again"}]
    /\ at \in [Caller -> SUBSET Provider] /\ todo \in [Caller -> SUBSET Provider]
    /\ keys \in [Caller -> 0 .. MaxKeys]
    /\ exclude \in [Caller -> SUBSET Provider]
    /\ last \in [Caller -> {"none", "answered", "failed", "refused"}]
    /\ \A r \in Caller :
         /\ at[r] # {} <=> rpc[r] \in {"try", "race", "won", "gone"}
         /\ (at[r] \cup todo[r]) \cap exclude[r] = {}

(* Only a request that tries one provider after the other has a rest; it   *)
(* waits for one.  A request that begins has excluded nobody.              *)
BetweenPasses ==
    \A r \in Caller :
        /\ rpc[r] # "try" => todo[r] = {}
        /\ rpc[r] = "try" => \A p, q \in at[r] : p = q
        /\ rpc[r] \in {"idle", "again"} => exclude[r] = {}

(* A failure is recorded while the request waits for the one who failed.   *)
VerdictOK ==
    /\ verdict \in [Caller -> SUBSET (Provider \X Verdict)]
    /\ \A r \in Caller : verdict[r] # {} =>
          \E p \in at[r], k \in Verdict : verdict[r] = {<<p, k>>}

(* Route finds nobody who is excluded, and nobody is when it is for a race.*)
RouteOK ==
    /\ route \in [Caller -> RouteCall]
    /\ \A r \in Caller : rpc[r] = "route" =>
          /\ route[r].found \cap exclude[r] = {}
          /\ \A o \in route[r].left : Id(o) \notin exclude[r]
          /\ route[r].racing => exclude[r] = {}

RegistryTypeOK ==
    /\ registered \in SUBSET Object /\ on \in SUBSET Object
    /\ snapshot \in SUBSET Object
    /\ changes \in 0 .. MaxChanges
    /\ due \in SUBSET Change /\ listing \in [Change -> SUBSET SUBSET Object]

RequestOK == AttemptTypeOK /\ BetweenPasses
RouterInv ==
    /\ RequestOK /\ VerdictOK /\ RouteOK /\ RegistryTypeOK
    /\ cooldown \in [Provider -> Entry] /\ errors \in 0 .. MaxErrors

LEMMA RouterInitInv == RouterInit => RouterInv
<1> SUFFICES ASSUME RouterInit PROVE RouterInv
  OBVIOUS
<1> USE RouterAssumption DEF RouterInit
<1>1. RequestOK
  BY DEF RequestOK, AttemptTypeOK, BetweenPasses
<1>2. VerdictOK /\ RouteOK
  BY DEF VerdictOK, RouteOK, RouteCall, NoRoute
<1>3. RegistryTypeOK
  BY DEF RegistryTypeOK, ListEnabled, Object
<1>4. cooldown \in [Provider -> Entry] /\ errors \in 0 .. MaxErrors
  BY DEF NoEntry, Entry
<1> QED
  BY <1>1, <1>2, <1>3, <1>4 DEF RouterInv

LEMMA FailedType == \A e \in Entry, kind \in Failure : Failed(e, kind) \in Entry
  BY RouterAssumption DEF Failed, Entry, Upto

LEMMA FailureType ==
    ASSUME cooldown \in [Provider -> Entry], NEW p \in Provider, NEW kind \in Verdict,
           RecordFailure(p, kind)
    PROVE  cooldown' \in [Provider -> Entry]
  BY FailedType DEF RecordFailure, Verdict

LEMMA SuccessType ==
    ASSUME cooldown \in [Provider -> Entry], NEW p \in Provider, RecordSuccess(p)
    PROVE  cooldown' \in [Provider -> Entry]
  BY RouterAssumption DEF RecordSuccess, NoEntry, Entry

(* The registry and the goroutines that rebuild the snapshot.              *)
RegistryMoves ==
    \/ \E p \in Provider :
         Register(p) \/ Unregister(p) \/ Enable(p) \/ Disable(p) \/ RegistryUpdate(p)
    \/ \E c \in Change : RebuildCandidates(c)

LEMMA ChangedType ==
    ASSUME RegistryTypeOK, NEW R \in SUBSET Object, NEW S \in SUBSET Object,
           NEW told \in BOOLEAN, Changed(R, S, told)
    PROVE  RegistryTypeOK' /\ UNCHANGED <<cooldown, requests, errors>>
  BY RouterAssumption DEF Changed, RegistryTypeOK, Change

LEMMA RegistryStep ==
    ASSUME RegistryTypeOK, RegistryMoves
    PROVE  RegistryTypeOK' /\ UNCHANGED <<cooldown, requests, errors>>
<1>1. ASSUME NEW p \in Provider,
             Register(p) \/ Unregister(p) \/ Enable(p) \/ Disable(p) \/ RegistryUpdate(p)
      PROVE  \E R, S \in SUBSET Object, told \in BOOLEAN : Changed(R, S, told)
  <2>1. changes < MaxChanges => New(p) \in Object
    BY RouterAssumption DEF New, Object, RegistryTypeOK
  <2>2. changes < MaxChanges
    BY <1>1 DEF Register, Unregister, Enable, Disable, RegistryUpdate, Changed
  <2>3. registered \in SUBSET Object /\ on \in SUBSET Object
    BY DEF RegistryTypeOK
  <2>4. CASE Register(p)
    BY <2>1, <2>2, <2>3, <2>4 DEF Register
  <2>5. CASE Unregister(p)
    BY <2>3, <2>5 DEF Unregister
  <2>6. CASE Enable(p) \/ Disable(p)
    BY <2>3, <2>6 DEF Enable, Disable
  <2>7. CASE RegistryUpdate(p)
    BY <2>1, <2>2, <2>3, <2>7 DEF RegistryUpdate
  <2> QED
    BY <1>1, <2>4, <2>5, <2>6, <2>7
<1>2. ASSUME NEW c \in Change, RebuildCandidates(c)
      PROVE  RegistryTypeOK' /\ UNCHANGED <<cooldown, requests, errors>>
  <2>1. CASE RebuildList(c)
    BY <2>1 DEF RebuildList, RegistryTypeOK, ListEnabled
  <2>2. CASE RebuildStore(c)
    BY <2>2 DEF RebuildStore, RegistryTypeOK
  <2> QED
    BY <1>2, <2>1, <2>2 DEF RebuildCandidates
<1> QED
  BY <1>1, <1>2, ChangedType DEF RegistryMoves

(* Each way on of a request keeps what is known of requests.               *)
LEMMA FinishKeeps ==
    ASSUME RequestOK, NEW r \in Caller,
           NEW how \in {"answered", "failed", "refused"}, Finish(r, how)
    PROVE  RequestOK'
  BY RouterAssumption DEF RequestOK, AttemptTypeOK, BetweenPasses, Finish

LEMMA EndPassKeeps ==
    ASSUME RequestOK, NEW r \in Caller,
           NEW how \in {"answered", "failed", "refused"}, EndPass(r, how)
    PROVE  RequestOK'
<1>1. CASE exclude[r] = {}
  BY <1>1, FinishKeeps DEF EndPass
<1>2. CASE exclude[r] # {}
  BY <1>2, RouterAssumption DEF EndPass, RequestOK, AttemptTypeOK, BetweenPasses
<1> QED
  BY <1>1, <1>2

LEMMA TryNextKeeps ==
    ASSUME RequestOK, NEW r \in Caller, NEW S \in SUBSET Provider, NEW p \in S,
           S \cap exclude[r] = {}, TryNext(r, p, S)
    PROVE  RequestOK'
  BY RouterAssumption DEF RequestOK, AttemptTypeOK, BetweenPasses, TryNext

LEMMA RaceResultKeeps ==
    ASSUME RequestOK, NEW r \in Caller, NEW p \in at[r],
           NEW state \in {"race", "won", "gone"}, state = "won" \/ rpc[r] = state,
           RaceResult(r, p, state)
    PROVE  RequestOK'
<1>1. CASE at[r] = {p} /\ state # "race"
  BY <1>1, FinishKeeps DEF RaceResult
<1>2. CASE ~ (at[r] = {p} /\ state # "race")
  <2>1. rpc[r] # "try"
    BY <1>2 DEF RequestOK, AttemptTypeOK, BetweenPasses
  <2> QED
    BY <1>2, <2>1 DEF RequestOK, AttemptTypeOK, BetweenPasses, RaceResult
<1> QED
  BY <1>1, <1>2

(* The steps of Route change the call and nothing else, except at its ends.*)
LEMMA RouteKeeps ==
    ASSUME RouterInv, NEW r \in Caller,
           RouteStarts(r) \/ ReadPenalty(r) \/ findCandidates(r) \/ \E o \in route[r].left : Look(r, o)
    PROVE  RequestOK' /\ VerdictOK' /\ RouteOK'
<1> USE DEF RouterInv
<1>l. ListEnabled \in SUBSET Object /\ snapshot \in SUBSET Object
  BY DEF RegistryTypeOK, ListEnabled
<1>i. \A o \in Object : Id(o) \in Provider
  BY DEF Object, Id
<1>1. RequestOK' /\ VerdictOK'
  <2>1. UNCHANGED attempt /\ verdict' = verdict
    BY DEF RouteStarts, ReadPenalty, findCandidates, Look
  <2>2. CASE rpc' = rpc
    BY <2>1, <2>2 DEF attempt, RequestOK, AttemptTypeOK, BetweenPasses, VerdictOK
  <2>3. CASE RouteStarts(r)
    <3>1. rpc' = [rpc EXCEPT ![r] = "route"] /\ rpc[r] \in {"idle", "lost", "again"}
      BY <2>3 DEF RouteStarts
    <3>2. RequestOK'
      BY <2>1, <3>1, SMTT(30) DEF attempt, RequestOK, AttemptTypeOK, BetweenPasses
    <3> QED
      BY <2>1, <3>2 DEF attempt, VerdictOK
  <2> QED
    BY <2>2, <2>3 DEF ReadPenalty, findCandidates, Look
<1>2. exclude' = exclude
  BY DEF RouteStarts, ReadPenalty, findCandidates, Look, attempt
<1>o. ASSUME NEW call \in RouteCall, route' = [route EXCEPT ![r] = call],
             \A q \in Caller \ {r} : rpc'[q] = rpc[q],
             call.found \cap exclude[r] = {}, \A o \in call.left : Id(o) \notin exclude[r],
             call.racing => exclude[r] = {}
      PROVE  RouteOK'
  BY <1>2, <1>o DEF RouteOK
<1>3. CASE RouteStarts(r)
  <2>1. PICK race \in IF rpc[r] = "idle" THEN BOOLEAN ELSE {FALSE} :
           route' = [route EXCEPT ![r] = [NoRoute EXCEPT !.racing = race,
                                            !.left = Without(snapshot, exclude[r])]]
    BY <1>3 DEF RouteStarts
  <2> DEFINE call == [NoRoute EXCEPT !.racing = race, !.left = Without(snapshot, exclude[r])]
  <2>2. /\ call \in RouteCall /\ call.found = {} /\ call.racing = race
        /\ call.left = Without(snapshot, exclude[r])
    BY <1>l, <2>1 DEF RouteCall, NoRoute, Without
  <2>4. race => exclude[r] = {}
    BY <2>1 DEF RequestOK, BetweenPasses
  <2>3. \A q \in Caller \ {r} : rpc'[q] = rpc[q]
    BY <1>3 DEF RouteStarts, RequestOK, AttemptTypeOK
  <2> QED
    BY <1>1, <1>o, <2>1, <2>2, <2>3, <2>4 DEF Without
<1>k. CASE rpc' = rpc /\ rpc[r] = "route" /\ route[r] \in RouteCall
  <2>4. CASE ReadPenalty(r)
    <3> DEFINE call == [route[r] EXCEPT !.penalty =
                          IF shouldBypassPenalty THEN "bypassed" ELSE "counts"]
    <3>1. /\ call \in RouteCall /\ call.found = route[r].found
          /\ call.left = route[r].left /\ call.racing = route[r].racing
      BY <1>k DEF RouteCall
    <3>2. route' = [route EXCEPT ![r] = call]
      BY <2>4 DEF ReadPenalty
    <3> QED
      BY <1>1, <1>k, <1>o, <3>1, <3>2 DEF RouteOK
  <2>5. CASE findCandidates(r)
    <3> DEFINE call == [route[r] EXCEPT !.source = "registry", !.penalty = "unread",
                                        !.left = Without(ListEnabled, exclude[r])]
    <3>1. /\ call \in RouteCall /\ call.found = route[r].found
          /\ call.left = Without(ListEnabled, exclude[r]) /\ call.racing = route[r].racing
      BY <1>k, <1>l DEF RouteCall, Without
    <3>2. route' = [route EXCEPT ![r] = call]
      BY <2>5 DEF findCandidates
    <3> QED
      BY <1>1, <1>k, <1>o, <3>1, <3>2 DEF RouteOK, Without
  <2>6. ASSUME NEW o \in route[r].left, Look(r, o) PROVE RouteOK'
    <3>1. o \in Object /\ Id(o) \in Provider /\ Id(o) \notin exclude[r]
      BY <1>i, <1>k, <2>6 DEF RouteOK, RouteCall
    <3> DEFINE fit == /\ route[r].source = "snapshot" => o \in on
                      /\ route[r].penalty = "bypassed" \/ ~IsInCooldown(Id(o))
               F == IF fit THEN route[r].found \cup {Id(o)} ELSE route[r].found
               call == [route[r] EXCEPT !.left = @ \ {o}, !.found = F]
    <3>2. route' = [route EXCEPT ![r] = call]
      BY <2>6 DEF Look
    <3>3. F \in SUBSET Provider /\ F \cap exclude[r] = {}
      BY <1>k, <3>1 DEF RouteOK, RouteCall
    <3> HIDE DEF F
    <3>4. /\ call \in RouteCall /\ call.found = F /\ call.racing = route[r].racing
          /\ call.left = route[r].left \ {o}
      BY <1>k, <3>3 DEF RouteCall
    <3> QED
      BY <1>1, <1>k, <1>o, <3>2, <3>3, <3>4 DEF RouteOK
  <2> QED
    BY <1>1, <1>3, <2>4, <2>5, <2>6
<1> QED
  <2>1. RouteStarts(r) \/ (rpc' = rpc /\ rpc[r] = "route" /\ route[r] \in RouteCall)
    BY DEF ReadPenalty, findCandidates, Look, LookedAtAll, RouteOK
  <2> QED
    BY <1>1, <1>3, <1>k, <2>1

(* What a request that goes on after Route starts with.                    *)
LEMMA RouteEndKeeps ==
    ASSUME RouterInv, NEW r \in Caller, Routed(r) \/ Race(r) \/ NoRace(r)
    PROVE  RequestOK' /\ VerdictOK' /\ RouteOK'
<1> USE DEF RouterInv
<1>f. /\ rpc[r] = "route" /\ route[r].found \in SUBSET Provider
      /\ route[r].found \cap exclude[r] = {}
      /\ route[r].racing => exclude[r] = {}
      /\ route' = [route EXCEPT ![r] = NoRoute] /\ verdict' = verdict
  BY DEF Routed, Race, NoRace, RouteEnds, LookedAtAll, RouteOK, RouteCall
<1>v. verdict[r] = {} /\ at[r] = {}
  BY <1>f DEF VerdictOK, RequestOK, AttemptTypeOK
<1>1. RequestOK'
  <2>1. CASE Routed(r)
    BY <1>f, <2>1, EndPassKeeps, TryNextKeeps DEF Routed
  <2>2. CASE Race(r)
    <3>1. PICK S \in SUBSET route[r].found :
             Cardinality(S) >= MinProviders /\ at' = [at EXCEPT ![r] = S]
      BY <2>2 DEF Race
    <3>2. S # {}
      <4>1. Cardinality({}) = 0 /\ ~ (0 >= MinProviders)
        BY RouterAssumption, FS_EmptySet
      <4> QED
        BY <3>1, <4>1
    <3> QED
      BY <1>f, <2>2, <3>1, <3>2 DEF Race, RequestOK, AttemptTypeOK, BetweenPasses
  <2>3. CASE NoRace(r)
    BY <1>f, <2>3 DEF NoRace, attempt, RequestOK, AttemptTypeOK, BetweenPasses
  <2> QED
    BY <2>1, <2>2, <2>3
<1>2. /\ rpc'[r] # "route"
      /\ \A q \in Caller \ {r} : rpc'[q] = rpc[q] /\ at'[q] = at[q] /\ exclude'[q] = exclude[q]
  <2> USE DEF RequestOK, AttemptTypeOK
  <2>1. CASE Routed(r)
    BY <2>1 DEF Routed, EndPass, Finish, TryNext
  <2>2. CASE Race(r)
    BY <2>2 DEF Race
  <2>3. CASE NoRace(r)
    BY <2>3 DEF NoRace, attempt
  <2> QED
    BY <2>1, <2>2, <2>3
<1>3. VerdictOK'
  BY <1>f, <1>v, <1>2 DEF VerdictOK
<1>4. RouteOK'
  <2>1. NoRoute \in RouteCall
    BY DEF NoRoute, RouteCall
  <2> QED
    BY <1>f, <1>2, <2>1 DEF RouteOK
<1> QED
  BY <1>1, <1>3, <1>4

(* The ways on of an attempt touch no call of Route and no other request.  *)
LEMMA OthersKeep ==
    ASSUME RouterInv, NEW r \in Caller, rpc[r] # "route", rpc'[r] # "route",
           route' = route, verdict'[r] = {}, verdict' = [verdict EXCEPT ![r] = {}],
           \A q \in Caller \ {r} : rpc'[q] = rpc[q] /\ at'[q] = at[q] /\ exclude'[q] = exclude[q]
    PROVE  VerdictOK' /\ RouteOK'
  BY DEF RouterInv, VerdictOK, RouteOK

LEMMA OnlyOne ==
    ASSUME RequestOK, NEW r \in Caller, rpc[r] # "route",
           \/ \E how \in {"answered", "failed"} : Finish(r, how) \/ EndPass(r, how)
           \/ \E S \in SUBSET Provider : \E p \in S : TryNext(r, p, S)
           \/ \E p \in Provider, state \in {"race", "won", "gone"} : RaceResult(r, p, state)
    PROVE  /\ rpc'[r] # "route"
           /\ \A q \in Caller \ {r} : /\ rpc'[q] = rpc[q] /\ at'[q] = at[q]
                                       /\ exclude'[q] = exclude[q]
  BY DEF RequestOK, AttemptTypeOK, Finish, EndPass, TryNext, RaceResult

LEMMA AttemptKeeps ==
    ASSUME RouterInv, NEW r \in Caller,
           \/ \E p \in at[r] : \/ Answered(r, p) \/ Cancelled(r, p)
                               \/ \E kind \in Failure : AttemptFails(r, p, kind)
           \/ Recorded(r) \/ HangUp(r)
    PROVE  /\ RequestOK' /\ VerdictOK' /\ RouteOK'
           /\ cooldown' \in [Provider -> Entry] /\ errors' \in 0 .. MaxErrors
<1> USE RouterAssumption DEF RouterInv
<1>a. at[r] \in SUBSET Provider /\ todo[r] \in SUBSET Provider /\ todo[r] \cap exclude[r] = {}
  BY DEF RequestOK, AttemptTypeOK
<1>v. verdict[r] = {} => verdict = [verdict EXCEPT ![r] = {}]
  BY DEF VerdictOK
<1>1. ASSUME NEW p \in at[r], Answered(r, p)
      PROVE  /\ RequestOK' /\ VerdictOK' /\ RouteOK'
             /\ cooldown' \in [Provider -> Entry] /\ errors' \in 0 .. MaxErrors
  <2>1. RaceResult(r, p, "won") /\ RecordSuccess(p) /\ route' = route /\ errors' = errors
    BY <1>1 DEF Answered
  <2>2. rpc[r] # "route" /\ p \in Provider
    BY <1>a, <1>1 DEF RequestOK, AttemptTypeOK
  <2>3. verdict' = [verdict EXCEPT ![r] = {}] /\ verdict'[r] = {}
    BY <1>1, <1>v DEF Answered
  <2>4. RequestOK'
    BY <2>1, RaceResultKeeps
  <2> QED
    BY <2>1, <2>2, <2>3, <2>4, OnlyOne, OthersKeep, SuccessType
<1>2. ASSUME NEW p \in at[r], NEW kind \in Failure, Cancelled(r, p) \/ AttemptFails(r, p, kind)
      PROVE  /\ RequestOK' /\ VerdictOK' /\ RouteOK'
             /\ cooldown' \in [Provider -> Entry] /\ errors' \in 0 .. MaxErrors
  <2>1. /\ UNCHANGED <<cooldown, rpc, route, attempt>>
        /\ \E k \in Failure : Judge(r, p, k)
        /\ errors' = errors \/ (errors < MaxErrors /\ errors' = errors + 1)
    BY <1>2 DEF Cancelled, AttemptFails, Failure
  <2>2. PICK k \in Verdict : verdict' = [verdict EXCEPT ![r] = {<<p, k>>}]
    BY <2>1 DEF Judge, Verdict
  <2>3. RequestOK' /\ RouteOK'
    BY <2>1 DEF attempt, RequestOK, AttemptTypeOK, BetweenPasses, RouteOK
  <2>4. VerdictOK'
    BY <1>a, <2>1, <2>2 DEF VerdictOK, attempt
  <2> QED
    BY <2>1, <2>3, <2>4
<1>3. CASE Recorded(r)
  <2>1. PICK p \in at[r], k \in Verdict : verdict[r] = {<<p, k>>}
    BY <1>3 DEF Recorded, VerdictOK
  <2>2. /\ RecordFailure(p, k) /\ route' = route /\ errors' = errors
        /\ verdict' = [verdict EXCEPT ![r] = {}] /\ verdict'[r] = {}
        /\ IF rpc[r] = "try" THEN NextAttempt(r, k) ELSE RaceResult(r, p, rpc[r])
    BY <1>3, <2>1 DEF Recorded, VerdictOK
  <2>3. rpc[r] \in {"try", "race", "won", "gone"} /\ p \in Provider
    BY <1>a, <2>1 DEF RequestOK, AttemptTypeOK
  <2>4. cooldown' \in [Provider -> Entry]
    BY <2>2, <2>3, FailureType
  <2>5. CASE rpc[r] # "try"
    <3>1. RaceResult(r, p, rpc[r])
      BY <2>2, <2>5
    <3>2. RequestOK'
      BY <2>3, <2>5, <3>1, RaceResultKeeps
    <3> QED
      BY <2>2, <2>3, <2>4, <2>5, <3>1, <3>2, OnlyOne, OthersKeep
  <2>6. CASE rpc[r] = "try" /\ keys[r] > 1 /\ keys' = [keys EXCEPT ![r] = @ - 1]
             /\ UNCHANGED <<rpc, at, todo, exclude, last>>
    <3>1. RequestOK'
      BY <2>6 DEF RequestOK, AttemptTypeOK, BetweenPasses
    <3> QED
      BY <2>2, <2>3, <2>4, <2>6, <3>1, OthersKeep
  <2>7. CASE rpc[r] = "try" /\ IF todo[r] = {} THEN EndPass(r, "failed")
                               ELSE \E q \in todo[r] : TryNext(r, q, todo[r])
    <3>1. RequestOK'
      BY <1>a, <2>7, EndPassKeeps, TryNextKeeps
    <3>2. /\ rpc'[r] # "route"
          /\ \A q \in Caller \ {r} : /\ rpc'[q] = rpc[q] /\ at'[q] = at[q]
                                      /\ exclude'[q] = exclude[q]
      BY <1>a, <2>7, OnlyOne
    <3> QED
      BY <2>2, <2>3, <2>4, <2>7, <3>1, <3>2, OthersKeep
  <2> QED
    BY <2>2, <2>5, <2>6, <2>7 DEF NextAttempt
<1>4. CASE HangUp(r)
  <2>1. /\ rpc[r] \in {"try", "race"} /\ verdict' = verdict /\ route' = route
        /\ cooldown' = cooldown /\ errors' \in 0 .. MaxErrors
    BY <1>4 DEF HangUp
  <2>2. CASE verdict[r] = {} /\ Finish(r, "failed")
    <3>1. RequestOK'
      BY <2>2, FinishKeeps
    <3> QED
      BY <1>v, <2>1, <2>2, <3>1, OnlyOne, OthersKeep
  <2>3. CASE /\ rpc' = [rpc EXCEPT ![r] = "gone"]
             /\ todo' = [todo EXCEPT ![r] = {}] /\ keys' = [keys EXCEPT ![r] = 0]
             /\ UNCHANGED <<at, exclude, last>>
    <3>1. RequestOK'
      BY <2>1, <2>3 DEF RequestOK, AttemptTypeOK, BetweenPasses
    <3>2. VerdictOK'
      BY <2>1, <2>3 DEF VerdictOK
    <3>3. RouteOK'
      BY <2>1, <2>3 DEF RouteOK, RequestOK, AttemptTypeOK
    <3> QED
      BY <2>1, <3>1, <3>2, <3>3
  <2> QED
    BY <1>4, <2>2, <2>3 DEF HangUp
<1> QED
  BY <1>1, <1>2, <1>3, <1>4 DEF Failure

LEMMA RouterStep == RouterInv /\ [RouterNext]_routerVars => RouterInv'
<1> SUFFICES ASSUME RouterInv, [RouterNext]_routerVars PROVE RouterInv'
  OBVIOUS
<1> USE DEF RouterInv
<1>1. UNCHANGED <<requests, cooldown, errors>> => RequestOK' /\ VerdictOK' /\ RouteOK'
  BY DEF requests, attempt, RequestOK, AttemptTypeOK, BetweenPasses, VerdictOK, RouteOK
<1>2. UNCHANGED registry => RegistryTypeOK'
  BY DEF registry, RegistryTypeOK
<1>3. CASE UNCHANGED routerVars
  BY <1>1, <1>2, <1>3 DEF routerVars
<1>4. CASE RegistryMoves
  BY <1>1, <1>4, RegistryStep
<1>5. ASSUME NEW p \in Provider, CooldownEnds(p) PROVE RouterInv'
  <2>1. cooldown' \in [Provider -> Entry]
    BY <1>5 DEF CooldownEnds, Entry
  <2>2. UNCHANGED <<requests, registry, errors>>
    BY <1>5 DEF CooldownEnds
  <2>3. RequestOK' /\ VerdictOK' /\ RouteOK'
    BY <2>2 DEF requests, attempt, RequestOK, AttemptTypeOK, BetweenPasses, VerdictOK, RouteOK
  <2> QED
    BY <1>2, <2>1, <2>2, <2>3
<1>6. ASSUME NEW r \in Caller, RouteStarts(r) \/ Proceed(r) \/ HangUp(r) PROVE RouterInv'
  <2>1. CASE \/ RouteStarts(r) \/ ReadPenalty(r) \/ findCandidates(r)
             \/ \E o \in route[r].left : Look(r, o)
    <3>1. UNCHANGED <<registry, cooldown, errors>>
      BY <2>1 DEF RouteStarts, ReadPenalty, findCandidates, Look
    <3> QED
      BY <1>2, <2>1, <3>1, RouteKeeps
  <2>2. CASE Routed(r) \/ Race(r) \/ NoRace(r)
    <3>1. UNCHANGED <<registry, cooldown, errors>>
      BY <2>2 DEF Routed, Race, NoRace, RouteEnds
    <3> QED
      BY <1>2, <2>2, <3>1, RouteEndKeeps
  <2>3. CASE \/ \E p \in at[r] : \/ Answered(r, p) \/ Cancelled(r, p)
                                 \/ \E kind \in Failure : AttemptFails(r, p, kind)
             \/ Recorded(r) \/ HangUp(r)
    <3>1. UNCHANGED registry
      BY <2>3 DEF Answered, Cancelled, AttemptFails, Recorded, HangUp
    <3> QED
      BY <1>2, <2>3, <3>1, AttemptKeeps
  <2> QED
    BY <1>6, <2>1, <2>2, <2>3 DEF Proceed
<1> QED
  BY <1>3, <1>4, <1>5, <1>6 DEF RouterNext, RegistryMoves

LEMMA RouterInvariant == RouterSpec => []RouterInv
  BY RouterInitInv, RouterStep, PTL DEF RouterSpec

(* The types; and a request waits for somebody exactly while it is under   *)
(* way, records a failure only of whom it waits for, and tries nobody who  *)
(* has lost the race it recovers from.                                     *)
THEOREM RequestsAreTyped == RouterSpec => []RouterTypeOK
<1>1. RouterInv => RouterTypeOK
  BY DEF RouterInv, RequestOK, AttemptTypeOK, VerdictOK, RouteOK, RegistryTypeOK, RouterTypeOK
<1> QED
  BY <1>1, RouterInvariant, PTL

-----------------------------------------------------------------------------
OneObject == \A x, y \in registered : Id(x) = Id(y) => x = y

(* What a pass over the registry's list knows of whom it has to find: he   *)
(* is found, still to be looked at, or excluded; and he is not judged by   *)
(* his cooldown when he is the only one.                                   *)
Kept(r) ==
    \A s \in steady[r] :
        /\ s[1] \in exclude[r] \cup route[r].found \cup {Id(o) : o \in route[r].left}
        /\ route[r].penalty = "counts" => s[2] = "free"

RefusalInv ==
    /\ OneObject
    /\ \A r \in Caller : rpc[r] = "route" /\ route[r].source = "registry" => Kept(r)

LEMMA OneObjectStep ==
    ASSUME RouterInv, OneObject, RouterNext
    PROVE  OneObject'
<1>1. ASSUME NEW p \in Provider, Register(p) \/ RegistryUpdate(p) PROVE OneObject'
  BY <1>1 DEF Register, RegistryUpdate, Changed, OneObject, Registered, New, Id
<1>2. ASSUME NEW p \in Provider, Unregister(p) \/ Enable(p) \/ Disable(p) \/ CooldownEnds(p)
      PROVE  OneObject'
  BY <1>2 DEF Unregister, Enable, Disable, Changed, CooldownEnds, registry, OneObject
<1>3. ASSUME NEW c \in Change, RebuildCandidates(c) PROVE OneObject'
  BY <1>3 DEF RebuildCandidates, RebuildList, RebuildStore, OneObject
<1>4. ASSUME NEW r \in Caller, RouteStarts(r) \/ Proceed(r) \/ HangUp(r) PROVE OneObject'
  BY <1>4 DEF Proceed, RouteStarts, ReadPenalty, findCandidates, Look, Routed, Race, NoRace,
         RouteEnds, Answered, Cancelled, AttemptFails, Recorded, HangUp, registry, OneObject
<1> QED
  BY <1>1, <1>2, <1>3, <1>4 DEF RouterNext

(* A step is one of r, or leaves r's call of Route alone.                  *)
LEMMA WhoMoves ==
    ASSUME RouterInv, RouterNext, NEW r \in Caller
    PROVE  \/ RouteStarts(r) \/ Proceed(r) \/ HangUp(r)
           \/ rpc'[r] = rpc[r] /\ route'[r] = route[r] /\ exclude'[r] = exclude[r]
<1> DEFINE Apart == rpc'[r] = rpc[r] /\ route'[r] = route[r] /\ exclude'[r] = exclude[r]
<1> USE DEF RouterInv, RequestOK, AttemptTypeOK, RouteOK
<1>1. UNCHANGED requests => Apart
  BY DEF requests, attempt
<1>2. ASSUME \/ RegistryMoves \/ \E p \in Provider : CooldownEnds(p) PROVE Apart
  BY <1>1, <1>2, RegistryStep DEF CooldownEnds
<1>3. ASSUME NEW q \in Caller, q # r, RouteStarts(q) \/ Proceed(q) \/ HangUp(q) PROVE Apart
  <2> USE <1>3
  <2>0. CASE RouteStarts(q)
    <3>1. PICK call : route' = [route EXCEPT ![q] = call]
      BY <2>0 DEF RouteStarts
    <3> QED
      BY <2>0, <3>1 DEF RouteStarts, attempt
  <2>1. CASE ReadPenalty(q) \/ findCandidates(q) \/ \E o \in route[q].left : Look(q, o)
    <3>1. CASE ReadPenalty(q)
      BY <3>1 DEF ReadPenalty, attempt
    <3>2. CASE findCandidates(q)
      BY <3>2 DEF findCandidates, attempt
    <3>3. ASSUME NEW o \in route[q].left, Look(q, o) PROVE Apart
      BY <3>3 DEF Look, attempt
    <3> QED
      BY <2>1, <3>1, <3>2, <3>3
  <2>2. CASE Routed(q) \/ Race(q) \/ NoRace(q)
    BY <2>2 DEF Routed, Race, NoRace, RouteEnds, EndPass, Finish, TryNext, attempt
  <2>3. CASE HangUp(q)
    BY <2>3 DEF HangUp, Finish
  <2>4. CASE \E p \in at[q] : \/ Answered(q, p) \/ Cancelled(q, p)
                              \/ \E kind \in Failure : AttemptFails(q, p, kind)
    BY <2>4 DEF Answered, Cancelled, AttemptFails, attempt, RaceResult, Finish
  <2>5. CASE Recorded(q)
    BY <2>5 DEF Recorded, NextAttempt, RaceResult, EndPass, Finish, TryNext
  <2> QED
    BY <2>0, <2>1, <2>2, <2>3, <2>4, <2>5 DEF Proceed
<1> QED
  BY <1>2, <1>3 DEF RouterNext, RegistryMoves

LEMMA WhatRouteDoes ==
    ASSUME RouterInv, NEW r \in Caller, rpc[r] = "route",
           RouteStarts(r) \/ Proceed(r) \/ HangUp(r)
    PROVE  \/ ReadPenalty(r) \/ findCandidates(r) \/ Routed(r) \/ Race(r) \/ NoRace(r)
           \/ \E o \in route[r].left : Look(r, o)
<1>1. at[r] = {} /\ verdict[r] = {}
  BY DEF RouterInv, RequestOK, AttemptTypeOK, VerdictOK
<1> QED
  BY <1>1 DEF Proceed, RouteStarts, Recorded, HangUp

(* The only one enabled is spared.                                         *)
LEMMA OnlyIsSpared ==
    ASSUME OneObject, NEW p, <<p, "only">> \in Open
    PROVE  shouldBypassPenalty
<1>1. {Id(o) : o \in ListEnabled} = {p}
  BY DEF Open
<1>2. PICK x \in ListEnabled : Id(x) = p
  BY <1>1
<1>3. ListEnabled = {x}
  BY <1>1, <1>2 DEF OneObject, ListEnabled
<1> QED
  BY <1>3, FS_Singleton DEF shouldBypassPenalty

LEMMA OpenIs ==
    ASSUME NEW s \in Open
    PROVE  /\ s[2] \in {"free", "only"} /\ s = <<s[1], s[2]>>
           /\ \E o \in ListEnabled : Id(o) = s[1]
           /\ s[2] = "free" => ~IsInCooldown(s[1])
  BY DEF Open

LEMMA RefusalStep == RouterInv /\ RefusalInv /\ [RouterNext]_routerVars => RefusalInv'
<1> SUFFICES ASSUME RouterInv, RefusalInv, [RouterNext]_routerVars PROVE RefusalInv'
  OBVIOUS
<1>1. CASE UNCHANGED routerVars
  BY <1>1 DEF routerVars, registry, requests, attempt, RefusalInv, OneObject, Kept
<1>2. CASE RouterNext
  <2>o. OneObject'
    BY <1>2, OneObjectStep DEF RefusalInv
  <2> SUFFICES ASSUME NEW r \in Caller, rpc'[r] = "route", route'[r].source = "registry"
               PROVE  Kept(r)'
    BY <2>o DEF RefusalInv
  <2>1. /\ rpc[r] = "route" => steady'[r] = steady[r] \cap Open'
        /\ steady'[r] \subseteq Open'
    BY <1>2 DEF RouterNext, Watch
  <2>r. route \in [Caller -> RouteCall]
    BY DEF RouterInv, RouteOK
  <2>2. CASE rpc'[r] = rpc[r] /\ route'[r] = route[r] /\ exclude'[r] = exclude[r]
    BY <2>1, <2>2 DEF RefusalInv, Kept
  <2>3. CASE RouteStarts(r)
    BY <2>3, <2>r DEF RouteStarts, NoRoute
  <2>4. ASSUME UNCHANGED <<registry, cooldown, rpc, attempt>>, rpc[r] = "route"
        PROVE  Open' = Open /\ exclude' = exclude /\ steady'[r] \subseteq Open
    BY <2>1, <2>4 DEF registry, attempt, Open, ListEnabled, IsInCooldown
  <2>5. CASE ReadPenalty(r)
    <3>1. /\ rpc[r] = "route" /\ UNCHANGED <<registry, cooldown, rpc, attempt>>
          /\ route' = [route EXCEPT ![r].penalty =
                         IF shouldBypassPenalty THEN "bypassed" ELSE "counts"]
      BY <2>5 DEF ReadPenalty
    <3>2. /\ route'[r].source = route[r].source /\ route'[r].found = route[r].found
          /\ route'[r].left = route[r].left
          /\ route'[r].penalty = "counts" => ~shouldBypassPenalty
      BY <2>r, <3>1 DEF RouteCall
    <3>3. Kept(r)
      BY <3>1, <3>2 DEF RefusalInv
    <3>4. ASSUME NEW s \in steady'[r], route'[r].penalty = "counts" PROVE s[2] = "free"
      <4>1. s \in Open
        BY <2>4, <3>1, <3>4
      <4> QED
        BY <3>2, <3>4, <4>1, OpenIs, OnlyIsSpared DEF RefusalInv
    <3> QED
      BY <2>1, <2>4, <3>1, <3>2, <3>3, <3>4 DEF Kept
  <2>6. CASE findCandidates(r)
    <3>1. /\ rpc[r] = "route" /\ UNCHANGED <<registry, cooldown, rpc, attempt>>
          /\ route' = [route EXCEPT ![r].source = "registry", ![r].penalty = "unread",
                                    ![r].left = Without(ListEnabled, exclude[r])]
      BY <2>6 DEF findCandidates
    <3> DEFINE call == [route[r] EXCEPT !.source = "registry", !.penalty = "unread",
                                        !.left = Without(ListEnabled, exclude[r])]
    <3>a. route[r] \in RouteCall /\ route' = [route EXCEPT ![r] = call]
      BY <2>r, <3>1
    <3>b. call.left = Without(ListEnabled, exclude[r]) /\ call.penalty = "unread"
      BY <3>a DEF RouteCall
    <3>2. route'[r].left = Without(ListEnabled, exclude[r]) /\ route'[r].penalty = "unread"
      BY <2>r, <3>a, <3>b
    <3>3. \A s \in steady'[r] : s[1] \in exclude[r] \cup {Id(o) : o \in route'[r].left}
      <4> SUFFICES ASSUME NEW s \in steady'[r], s[1] \notin exclude[r]
                   PROVE  s[1] \in {Id(o) : o \in route'[r].left}
        OBVIOUS
      <4>1. PICK o \in ListEnabled : Id(o) = s[1]
        BY <2>4, <3>1, OpenIs
      <4>2. o \in route'[r].left
        BY <3>2, <4>1 DEF Without
      <4> QED
        BY <4>1, <4>2
    <3> QED
      BY <2>4, <3>1, <3>2, <3>3 DEF Kept
  <2>7. ASSUME NEW o \in route[r].left, Look(r, o) PROVE Kept(r)'
    <3>1. /\ rpc[r] = "route" /\ UNCHANGED <<registry, cooldown, rpc, attempt>>
          /\ route[r].penalty # "unread"
      BY <2>7 DEF Look
    <3>r. route[r] \in RouteCall
      BY <2>r
    <3>a. PICK S : /\ S \in {route[r].found, route[r].found \cup {Id(o)}}
                   /\ route' = [route EXCEPT ![r] = [route[r] EXCEPT !.left = @ \ {o},
                                                                  !.found = S]]
      BY <2>7 DEF Look
    <3> DEFINE call == [route[r] EXCEPT !.left = @ \ {o}, !.found = S]
    <3>b. /\ call.source = route[r].source /\ call.penalty = route[r].penalty
          /\ call.left = route[r].left \ {o} /\ call.found = S
      BY <3>r DEF RouteCall
    <3>c. route'[r] = call
      BY <2>r, <3>a
    <3>2. /\ route'[r].source = route[r].source /\ route'[r].penalty = route[r].penalty
          /\ route'[r].left = route[r].left \ {o} /\ route[r].found \subseteq route'[r].found
      BY <3>a, <3>b, <3>c
    <3>3. Kept(r) /\ route[r].source = "registry"
      BY <3>1, <3>2 DEF RefusalInv
    <3>4. ASSUME NEW s \in steady'[r], s[1] = Id(o) PROVE s[1] \in route'[r].found
      <4>1. s \in Open /\ s \in steady[r]
        BY <2>1, <2>4, <3>1, <3>4
      <4>2. route[r].penalty = "bypassed" \/ ~IsInCooldown(Id(o))
        <5>1. route[r].penalty \in {"counts", "bypassed"}
          BY <2>r, <3>1 DEF RouteCall
        <5> QED
          BY <3>3, <3>4, <4>1, <5>1, OpenIs DEF Kept
      <4>3. route'[r].found = route[r].found \cup {Id(o)}
        BY <2>r, <2>7, <3>3, <4>2 DEF Look, RouteCall
      <4> QED
        BY <3>4, <4>3
    <3> QED
      BY <2>1, <2>4, <3>1, <3>2, <3>3, <3>4 DEF Kept
  <2>8. CASE Routed(r) \/ Race(r) \/ NoRace(r)
    <3>1. rpc'[r] # "route"
      BY <2>8 DEF Routed, Race, NoRace, EndPass, Finish, TryNext, RouterInv, RequestOK,
             AttemptTypeOK
    <3> QED
      BY <3>1
  <2>9. rpc[r] # "route" => RouteStarts(r) \/ rpc'[r] = rpc[r]
    <3> SUFFICES ASSUME rpc[r] # "route", ~RouteStarts(r), rpc'[r] # rpc[r] PROVE FALSE
      OBVIOUS
    <3> USE DEF RouterInv
    <3>1. Proceed(r) \/ HangUp(r)
      BY <1>2, WhoMoves
    <3>2. RequestOK /\ at[r] \in SUBSET Provider /\ todo[r] \in SUBSET Provider
      BY DEF RequestOK, AttemptTypeOK
    <3>3. ~ (ReadPenalty(r) \/ findCandidates(r) \/ Routed(r) \/ Race(r) \/ NoRace(r))
      BY DEF ReadPenalty, findCandidates, Routed, Race, NoRace, RouteEnds, LookedAtAll
    <3>4. ASSUME NEW p \in at[r], NEW kind,
                 Answered(r, p) \/ Cancelled(r, p) \/ AttemptFails(r, p, kind)
          PROVE  FALSE
      BY <3>2, <3>4, OnlyOne DEF Answered, Cancelled, AttemptFails
    <3>5. CASE Recorded(r)
      <4>1. PICK p \in Provider, k \in Verdict :
               IF rpc[r] = "try" THEN NextAttempt(r, k) ELSE RaceResult(r, p, rpc[r])
        BY <3>5 DEF Recorded, VerdictOK
      <4>2. rpc[r] \in {"try", "race", "won", "gone"}
        BY <3>5 DEF Recorded, VerdictOK, RequestOK, AttemptTypeOK
      <4> QED
        BY <3>2, <4>1, <4>2, OnlyOne DEF NextAttempt
    <3>6. CASE HangUp(r)
      BY <3>2, <3>6, OnlyOne DEF HangUp, RequestOK, AttemptTypeOK
    <3>7. ~ \E o \in route[r].left : Look(r, o)
      BY DEF Look
    <3> QED
      BY <3>1, <3>3, <3>4, <3>5, <3>6, <3>7 DEF Proceed
  <2> QED
    BY <1>2, <2>2, <2>3, <2>5, <2>6, <2>7, <2>8, <2>9, WhoMoves, WhatRouteDoes
<1> QED
  BY <1>1, <1>2

(* A request that gives up has gone through all that was listed.           *)
LEMMA RefusalSees ==
    ASSUME RouterInv, RefusalInv, RouterNext, NEW r \in Caller,
           rpc[r] = "route", rpc'[r] = "idle"
    PROVE  steady[r] = {}
<1>1. RouteStarts(r) \/ Proceed(r) \/ HangUp(r)
  BY WhoMoves
<1>2. Routed(r)
  BY <1>1, WhatRouteDoes DEF ReadPenalty, findCandidates, Look, Race, NoRace, RouterInv,
         RequestOK, AttemptTypeOK
<1>3. route[r].found = {} /\ exclude[r] = {}
  BY <1>2 DEF Routed, TryNext, EndPass, RouterInv, RequestOK, AttemptTypeOK
<1>4. route[r].left = {} /\ route[r].source = "registry"
  BY <1>2, <1>3 DEF Routed, RouteEnds, LookedAtAll
<1> QED
  BY <1>3, <1>4 DEF RefusalInv, Kept

(* A request is refused only when nobody has been enabled and free, or the *)
(* only one enabled, during the whole call of Route that refuses it: no    *)
(* change between two of its reads, no stale snapshot and no cooldown hides*)
(* one who was, for any number of callers, providers and changes.          *)
THEOREM RefusalsAreFresh == RouterSpec => NoStaleRefusal
<1> DEFINE Fresh == \A r \in Caller : rpc[r] = "route" /\ rpc'[r] = "idle" => steady[r] = {}
<1>1. RouterInit => RefusalInv
  BY DEF RouterInit, RefusalInv, OneObject, Id
<1>2. RouterInv /\ RefusalInv /\ [RouterNext]_routerVars => [Fresh]_routerVars
  BY RefusalSees
<1> QED
  BY <1>1, <1>2, RouterInvariant, RefusalStep, PTL DEF RouterSpec, NoStaleRefusal
=============================================================================
