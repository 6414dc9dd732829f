--------------------------- MODULE ProviderRouter ---------------------------
(***************************************************************************)
(* The routing of model requests over the provider pool: the registry that *)
(* an administrator changes, the candidate snapshot that a goroutine of    *)
(* its own rebuilds after a change, the cooldowns, and requests that go    *)
(* from one provider to the next (RouteWithFallback) or send the same call *)
(* to several providers at once (executeWithProviderRace).                 *)
(*                                                                         *)
(* Route takes no lock over its reads: the snapshot, the number of enabled *)
(* providers, the state of each candidate and the registry's list are read *)
(* in steps of their own; only the two tests of one candidate are one      *)
(* step.  Of an attempt only the end matters.  Durations are abstracted to *)
(* how a cooldown came about; a count matters up to its threshold, beyond  *)
(* that it only makes the next cooldown longer, so counts stop there.      *)
(* Which candidate comes first is left open: the strategies sort, they     *)
(* drop nobody.  Every provider serves the model, has credentials and is   *)
(* not marked as unhealthy.                                                *)
(***************************************************************************)
EXTENDS Integers, FiniteSets

CONSTANTS
    Provider,
    Caller,                     \* clients, each with one request at a time
    FailureThreshold,           \* CooldownConfig
    TransientFailureThreshold,
    MaxKeys,                    \* API keys of a provider
    MinProviders,               \* a race needs that many
    MaxErrors,                  \* bound: attempts that fail
    MaxChanges                  \* bound: changes of the registry

ASSUME RouterAssumption ==
    /\ IsFiniteSet(Provider)
    /\ FailureThreshold \in Nat \ {0} /\ TransientFailureThreshold \in Nat \ {0}
    /\ MaxKeys \in Nat \ {0} /\ MinProviders \in Nat \ {0, 1}
    /\ MaxErrors \in Nat /\ MaxChanges \in Nat

Change == 1 .. MaxChanges   \* a change, and the goroutine that it starts

(* A *Provider: the provider, and the change that made the object.         *)
Object == Provider \X (0 .. MaxChanges)
Id(o) == o[1]

(* auth: a bad credential.  transient: 502 to 504, 429 and the like.       *)
(* empty: a stream without content, which is not the provider's fault.     *)
(* RecordFailure spares whoever is the only one enabled.                   *)
Failure == {"auth", "transient", "other", "empty"}
Verdict == Failure \cup {"spared"}

Entry == [failures : 0 .. FailureThreshold,
          transient : 0 .. TransientFailureThreshold,
          cooling : BOOLEAN]
NoEntry == [failures |-> 0, transient |-> 0, cooling |-> FALSE]

(* A call of Route: whose candidates it goes through, whether penalties    *)
(* count, whom it has not looked at and whom it has found, and whether it  *)
(* is made for a race.                                                     *)
RouteCall == [source : {"snapshot", "registry"},
              penalty : {"unread", "counts", "bypassed"},
              left : SUBSET Object, found : SUBSET Provider, racing : BOOLEAN]
NoRoute == [source |-> "snapshot", penalty |-> "unread",
            left |-> {}, found |-> {}, racing |-> FALSE]

VARIABLES
    registered, \* objects in the registry, one for a provider
    on,         \* objects with Enabled; the snapshot has the same objects
    snapshot,   \* objects in the candidate snapshot
    due,        \* rebuilds that have not listed the providers
    listing,    \* the list of a rebuild that has not stored its snapshot
    cooldown,   \* Router.cooldowns
    rpc,        \* where each request is
    route,      \* its call of Route
    at,         \* the providers it is waiting for
    verdict,    \* the failure it is about to record
    todo,       \* candidates it has not tried
    keys,       \* API keys left for the provider it is trying
    exclude,    \* providers that a lost race has tried
    last,       \* how the caller's latest request ended
    changes, errors,
    steady      \* history: what was open all the time since Route began

registry   == <<registered, on, snapshot, due, listing, changes>>
attempt    == <<at, todo, keys, exclude, last>>
requests   == <<rpc, route, verdict, attempt>>
routerVars == <<registry, cooldown, requests, errors, steady>>

ListEnabled == registered \cap on

-----------------------------------------------------------------------------
(* Cooldowns.                                                              *)

Upto(n, max) == IF n < max THEN n ELSE max

(* MUTANT: penalties also count for the only provider.                     *)
(* Definitions marked MUTANT are plausible bugs of the definition that     *)
(* follows them; no specification uses them.                               *)
shouldBypassNoPenalty == FALSE

shouldBypassPenalty == Cardinality(ListEnabled) <= 1

(* What RecordFailure makes of an entry.                                   *)
Failed(e, kind) ==
    LET f == Upto(e.failures + 1, FailureThreshold)
        t == IF kind = "transient"
             THEN Upto(e.transient + 1, TransientFailureThreshold) ELSE e.transient
        many == IF kind = "transient" THEN t = TransientFailureThreshold
                                      ELSE f = FailureThreshold
    IN  [failures |-> f, transient |-> t,
         cooling |-> kind = "auth" \/ many \/ e.cooling]

(* RecordFailure begins: it looks whether to spare p before it locks.      *)
Judge(r, p, kind) ==
    verdict' = [verdict EXCEPT ![r] =
        {<<p, IF kind # "empty" /\ shouldBypassPenalty THEN "spared" ELSE kind>>}]

RecordFailure(p, kind) ==
    cooldown' = IF kind \in {"empty", "spared"} THEN cooldown
                ELSE [cooldown EXCEPT ![p] = Failed(@, kind)]

RecordSuccess(p) == cooldown' = [cooldown EXCEPT ![p] = NoEntry]

IsInCooldown(p) == cooldown[p].cooling

CooldownEnds(p) ==
    /\ IsInCooldown(p)
    /\ cooldown' = [cooldown EXCEPT ![p].cooling = FALSE]
    /\ UNCHANGED <<registry, requests, errors>>

-----------------------------------------------------------------------------
(* The registry.  A change starts RebuildCandidates in a goroutine, which  *)
(* lists the providers and later stores the snapshot it built from them.   *)

Changed(newRegistered, newOn, told) ==
    /\ changes < MaxChanges
    /\ registered' = newRegistered /\ on' = newOn
    /\ changes' = changes + 1
    /\ due' = IF told THEN due \cup {changes + 1} ELSE due
    /\ UNCHANGED <<snapshot, listing, cooldown, requests, errors>>

Registered(p) == \E o \in registered : Id(o) = p
New(p) == <<p, changes + 1>>

Register(p) ==
    /\ ~Registered(p)
    /\ \E S \in {{}, {New(p)}} : Changed(registered \cup {New(p)}, on \cup S, TRUE)

Unregister(p) ==
    /\ Registered(p)
    /\ Changed({o \in registered : Id(o) # p}, on, TRUE)

(* Enabled is set before the provider is saved: nobody is told when that   *)
(* fails, nor when UpdateProvider writes over the object before it calls   *)
(* Update, which is then told of an object that is as it should be.        *)
Enable(p) ==
    \E o \in registered, told \in BOOLEAN :
        Id(o) = p /\ (o \notin on \/ told) /\ Changed(registered, on \cup {o}, told)

Disable(p) ==
    \E o \in registered, told \in BOOLEAN :
        Id(o) = p /\ (o \in on \/ told) /\ Changed(registered, on \ {o}, told)

(* Update with another object: the snapshot keeps the old one, as it is.   *)
RegistryUpdate(p) ==
    /\ Registered(p)
    /\ \E S \in {{}, {New(p)}} :
          Changed({o \in registered : Id(o) # p} \cup {New(p)}, on \cup S, TRUE)

RebuildList(c) ==
    /\ c \in due /\ due' = due \ {c}
    /\ listing' = [listing EXCEPT ![c] = {ListEnabled}]
    /\ UNCHANGED <<registered, on, snapshot, changes, cooldown, requests, errors>>

RebuildStore(c) ==
    /\ \E S \in listing[c] : snapshot' = S
    /\ listing' = [listing EXCEPT ![c] = {}]
    /\ UNCHANGED <<registered, on, due, changes, cooldown, requests, errors>>

RebuildCandidates(c) == RebuildList(c) \/ RebuildStore(c)

-----------------------------------------------------------------------------
(* The ends of a pass over the candidates, and the next attempt.           *)

Finish(r, how) ==
    /\ rpc' = [rpc EXCEPT ![r] = "idle"] /\ last' = [last EXCEPT ![r] = how]
    /\ at' = [at EXCEPT ![r] = {}] /\ todo' = [todo EXCEPT ![r] = {}]
    /\ keys' = [keys EXCEPT ![r] = 0] /\ exclude' = [exclude EXCEPT ![r] = {}]

(* After a lost race comes a pass over the providers that were not in it,  *)
(* and when that fails ServeHTTP starts over with nobody excluded.         *)
EndPass(r, how) ==
    IF exclude[r] = {} THEN Finish(r, how)
    ELSE /\ rpc' = [rpc EXCEPT ![r] = "again"]
         /\ at' = [at EXCEPT ![r] = {}] /\ todo' = [todo EXCEPT ![r] = {}]
         /\ keys' = [keys EXCEPT ![r] = 0] /\ exclude' = [exclude EXCEPT ![r] = {}]
         /\ UNCHANGED last

TryNext(r, p, S) ==
    /\ rpc' = [rpc EXCEPT ![r] = "try"]
    /\ at' = [at EXCEPT ![r] = {p}] /\ todo' = [todo EXCEPT ![r] = S \ {p}]
    /\ \E k \in 1 .. MaxKeys : keys' = [keys EXCEPT ![r] = k]
    /\ UNCHANGED <<exclude, last>>

-----------------------------------------------------------------------------
(* Route.  It goes through the snapshot; when that yields nobody, it asks  *)
(* the registry and goes through its list (findCandidates).                *)

(* MUTANT: the providers that a lost race has tried are not excluded.      *)
WithoutNobody(S, X) == S

Without(S, X) == {o \in S : Id(o) \notin X}

(* ServeHTTP asks for a race first, when races are configured.             *)
RouteStarts(r) ==
    /\ rpc[r] \in {"idle", "lost", "again"}
    /\ rpc' = [rpc EXCEPT ![r] = "route"]
    /\ \E race \in IF rpc[r] = "idle" THEN BOOLEAN ELSE {FALSE} :
          route' = [route EXCEPT ![r] = [NoRoute EXCEPT !.racing = race,
                                           !.left = Without(snapshot, exclude[r])]]
    /\ UNCHANGED <<registry, cooldown, verdict, attempt, errors>>

ReadPenalty(r) ==
    /\ rpc[r] = "route" /\ route[r].penalty = "unread"
    /\ route' = [route EXCEPT ![r].penalty =
                   IF shouldBypassPenalty THEN "bypassed" ELSE "counts"]
    /\ UNCHANGED <<registry, cooldown, rpc, verdict, attempt, errors>>

(* Only the pass over the snapshot tests Enabled: the list was of those.   *)
Look(r, o) ==
    /\ rpc[r] = "route" /\ route[r].penalty # "unread" /\ o \in route[r].left
    /\ LET fit == /\ route[r].source = "snapshot" => o \in on
                  /\ route[r].penalty = "bypassed" \/ ~IsInCooldown(Id(o))
       IN  route' = [route EXCEPT ![r].left = @ \ {o},
                                  ![r].found = IF fit THEN @ \cup {Id(o)} ELSE @]
    /\ UNCHANGED <<registry, cooldown, rpc, verdict, attempt, errors>>

LookedAtAll(r) == rpc[r] = "route" /\ route[r].penalty # "unread" /\ route[r].left = {}

(* MUTANT: the second look is at the snapshot again.                       *)
findCandidatesInSnapshot(r) ==
    /\ LookedAtAll(r) /\ route[r].source = "snapshot" /\ route[r].found = {}
    /\ route' = [route EXCEPT ![r].source = "registry", ![r].penalty = "unread",
                              ![r].left = Without(snapshot, exclude[r])]
    /\ UNCHANGED <<registry, cooldown, rpc, verdict, attempt, errors>>

findCandidates(r) ==
    /\ LookedAtAll(r) /\ route[r].source = "snapshot" /\ route[r].found = {}
    /\ route' = [route EXCEPT ![r].source = "registry", ![r].penalty = "unread",
                              ![r].left = Without(ListEnabled, exclude[r])]
    /\ UNCHANGED <<registry, cooldown, rpc, verdict, attempt, errors>>

RouteEnds(r) ==
    /\ LookedAtAll(r) /\ (route[r].found # {} \/ route[r].source = "registry")
    /\ route' = [route EXCEPT ![r] = NoRoute]
    /\ UNCHANGED <<registry, cooldown, verdict, errors>>

(* RouteWithFallback takes the first candidate, or gives up.               *)
Routed(r) ==
    /\ RouteEnds(r) /\ ~route[r].racing
    /\ LET S == route[r].found IN
       IF S = {} THEN EndPass(r, "refused") ELSE \E p \in S : TryNext(r, p, S)

(* Which candidates take part depends on statistics of the handler and is  *)
(* left open.                                                              *)
Race(r) ==
    /\ RouteEnds(r) /\ route[r].racing
    /\ \E S \in SUBSET route[r].found :
          /\ Cardinality(S) >= MinProviders
          /\ at' = [at EXCEPT ![r] = S]
    /\ rpc' = [rpc EXCEPT ![r] = "race"]
    /\ UNCHANGED <<todo, keys, exclude, last>>

(* Without enough candidates ServeHTTP goes on as if it had not asked.     *)
NoRace(r) ==
    /\ RouteEnds(r) /\ route[r].racing
    /\ rpc' = [rpc EXCEPT ![r] = "again"]
    /\ UNCHANGED attempt

-----------------------------------------------------------------------------
(* Attempts, one after the other ("try") or of a race.  The results of a   *)
(* race are taken from its channel one by one.                             *)

(* The result of p is dealt with; the request ends when all have come in,  *)
(* or goes on after a race without an answer.                              *)
RaceResult(r, p, state) ==
    IF at[r] = {p} /\ state # "race"
    THEN Finish(r, IF state = "won" THEN "answered" ELSE "failed")
    ELSE /\ rpc' = [rpc EXCEPT ![r] = IF at[r] = {p} THEN "lost" ELSE state]
         /\ at' = [at EXCEPT ![r] = @ \ {p}]
         /\ exclude' = [exclude EXCEPT ![r] = @ \cup {p}]
         /\ UNCHANGED <<todo, keys, last>>

(* The first answer wins the race, and cancels the others.                 *)
Answered(r, p) ==
    /\ p \in at[r] /\ verdict[r] = {}
    /\ RecordSuccess(p)
    /\ RaceResult(r, p, "won")
    /\ UNCHANGED <<registry, route, verdict, errors>>

AttemptFails(r, p, kind) ==
    /\ p \in at[r] /\ verdict[r] = {} /\ errors < MaxErrors
    /\ errors' = errors + 1
    /\ Judge(r, p, kind)
    /\ UNCHANGED <<registry, cooldown, rpc, route, attempt>>

(* "context canceled" counts like any failure.                             *)
Cancelled(r, p) ==
    /\ rpc[r] \in {"won", "gone"} /\ p \in at[r] /\ verdict[r] = {}
    /\ Judge(r, p, "other")
    /\ UNCHANGED <<registry, cooldown, rpc, route, attempt, errors>>

(* The next key of the same provider for an error that a key may explain,  *)
(* or the next candidate.                                                  *)
NextAttempt(r, kind) ==
    \/ /\ keys[r] > 1 /\ kind # "empty"
       /\ keys' = [keys EXCEPT ![r] = @ - 1]
       /\ UNCHANGED <<rpc, at, todo, exclude, last>>
    \/ IF todo[r] = {} THEN EndPass(r, "failed")
       ELSE \E p \in todo[r] : TryNext(r, p, todo[r])

Recorded(r) ==
    /\ \E v \in verdict[r] :
          /\ RecordFailure(v[1], v[2])
          /\ IF rpc[r] = "try" THEN NextAttempt(r, v[2])
                               ELSE RaceResult(r, v[1], rpc[r])
    /\ verdict' = [verdict EXCEPT ![r] = {}]
    /\ UNCHANGED <<registry, route, errors>>

(* The client hangs up: between two attempts the request ends, otherwise   *)
(* those under way are cancelled and it ends with them.                    *)
HangUp(r) ==
    /\ rpc[r] \in {"try", "race"} /\ errors < MaxErrors
    /\ errors' = errors + 1
    /\ \/ rpc[r] = "try" /\ verdict[r] = {} /\ Finish(r, "failed")
       \/ /\ rpc' = [rpc EXCEPT ![r] = "gone"]
          /\ todo' = [todo EXCEPT ![r] = {}] /\ keys' = [keys EXCEPT ![r] = 0]
          /\ UNCHANGED <<at, exclude, last>>
    /\ UNCHANGED <<registry, cooldown, route, verdict>>

-----------------------------------------------------------------------------
(* Why Route must find p: it may be used, or it is the only one.           *)
Open ==
    LET enabled == {Id(o) : o \in ListEnabled} IN
    {<<p, "free">> : p \in {q \in enabled : ~IsInCooldown(q)}}
      \cup {<<p, "only">> : p \in {q \in enabled : enabled = {q}}}

Watch ==
    steady' = [r \in Caller |-> IF rpc'[r] # "route" THEN {}
                                ELSE IF rpc[r] # "route" THEN Open'
                                ELSE steady[r] \cap Open']

(* Any registry; NewRouter builds the first snapshot from it.              *)
RouterInit ==
    /\ registered \in SUBSET (Provider \X {0}) /\ on \in SUBSET registered
    /\ snapshot = ListEnabled
    /\ due = {} /\ listing = [c \in Change |-> {}]
    /\ cooldown = [p \in Provider |-> NoEntry]
    /\ rpc = [r \in Caller |-> "idle"] /\ last = [r \in Caller |-> "none"]
    /\ route = [r \in Caller |-> NoRoute] /\ verdict = [r \in Caller |-> {}]
    /\ at = [r \in Caller |-> {}] /\ todo = [r \in Caller |-> {}]
    /\ keys = [r \in Caller |-> 0] /\ exclude = [r \in Caller |-> {}]
    /\ changes = 0 /\ errors = 0
    /\ steady = [r \in Caller |-> {}]

(* A request that has begun goes on.                                       *)
Proceed(r) ==
    \/ rpc[r] # "idle" /\ RouteStarts(r)
    \/ ReadPenalty(r) \/ findCandidates(r) \/ Routed(r) \/ Race(r) \/ NoRace(r)
    \/ \E o \in route[r].left : Look(r, o)
    \/ \E p \in at[r] : \/ Answered(r, p) \/ Cancelled(r, p)
                        \/ \E kind \in Failure : AttemptFails(r, p, kind)
    \/ Recorded(r)

RouterNext ==
    /\ \/ \E p \in Provider :
            \/ Register(p) \/ Unregister(p) \/ Enable(p) \/ Disable(p) \/ RegistryUpdate(p)
            \/ CooldownEnds(p)
       \/ \E c \in Change : RebuildCandidates(c)
       \/ \E r \in Caller : RouteStarts(r) \/ Proceed(r) \/ HangUp(r)
    /\ Watch

(* Cooldowns run out, goroutines and requests go on.  That a caller keeps  *)
(* asking, once it has asked, is an assumption about clients: without it   *)
(* no outcome is the last one for want of trying.                          *)
RouterFairness ==
    /\ \A p \in Provider : WF_routerVars(CooldownEnds(p) /\ Watch)
    /\ \A c \in Change : WF_routerVars(RebuildCandidates(c) /\ Watch)
    /\ \A r \in Caller : /\ WF_routerVars(Proceed(r) /\ Watch)
                         /\ WF_routerVars(last[r] # "none" /\ RouteStarts(r) /\ Watch)

RouterSpec == RouterInit /\ [][RouterNext]_routerVars /\ RouterFairness

-----------------------------------------------------------------------------
(* The types; a request waits for someone exactly while it is under way,   *)
(* records a failure only of whom it waits for, and never waits for a      *)
(* provider that has lost the race it is recovering from.                  *)
RouterTypeOK ==
    /\ registered \in SUBSET Object /\ on \in SUBSET Object
    /\ snapshot \in SUBSET Object
    /\ due \in SUBSET Change /\ listing \in [Change -> SUBSET SUBSET Object]
    /\ cooldown \in [Provider -> Entry]
    /\ rpc \in [Caller -> {"idle", "route", "try", "race", "won", "gone", "lost", "again"}]
    /\ route \in [Caller -> RouteCall]
    /\ at \in [Caller -> SUBSET Provider] /\ todo \in [Caller -> SUBSET Provider]
    /\ verdict \in [Caller -> SUBSET (Provider \X Verdict)]
    /\ keys \in [Caller -> 0 .. MaxKeys]
    /\ exclude \in [Caller -> SUBSET Provider]
    /\ last \in [Caller -> {"none", "answered", "failed", "refused"}]
    /\ \A r \in Caller :
         /\ at[r] # {} <=> rpc[r] \in {"try", "race", "won", "gone"}
         /\ \A v \in verdict[r] : v[1] \in at[r]
         /\ (at[r] \cup todo[r]) \cap exclude[r] = {}
    /\ changes \in 0 .. MaxChanges /\ errors \in 0 .. MaxErrors

(* Nobody is told that there is no provider while there is one that Route  *)
(* had to find: a provider that has been enabled and free of a cooldown,   *)
(* or the only one enabled, from when Route loaded its snapshot until it   *)
(* gave up.  Neither a snapshot that is out of date, nor a cooldown from   *)
(* the days when there were others, nor changes between the reads of Route *)
(* hide it.                                                                *)
NoStaleRefusal ==
    [][\A r \in Caller : rpc[r] = "route" /\ rpc'[r] = "idle" => steady[r] = {}]_routerVars

(* When the providers have stopped failing, a caller that keeps asking is  *)
(* served in the end and from then on, as long as a provider is enabled,   *)
(* unless races that others win go on putting their cancelled losers into  *)
(* cooldowns: those can keep a caller away for ever, all others cannot.    *)
EventuallyServed ==
    \A r \in Caller :
        \/ <>[](ListEnabled = {})
        \/ []<>(\E q \in Caller : rpc[q] = "won" /\ \E v \in verdict[q] : v[2] = "other")
        \/ <>[](last[r] \notin {"failed", "refused"})
=============================================================================
