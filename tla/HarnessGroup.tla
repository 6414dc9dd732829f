---------------------------- MODULE HarnessGroup ----------------------------
(***************************************************************************)
(* One harness run group: its items, the dispatcher that leases them, one  *)
(* goroutine per leased attempt, and the API requests that cancel, retry   *)
(* or report on the group while all of that is running.                    *)
(*                                                                         *)
(* The store (SQLite) executes one call at a time; everything between two  *)
(* calls interleaves.  UpdateGroupItem and UpdateGroup overwrite the whole *)
(* row with the caller's copy, so every read-modify-write below is a read  *)
(* step, which fills a local copy, and a later write step, which uses it.  *)
(*                                                                         *)
(* Times are abstracted to whether a lease is absent, still valid or       *)
(* expired: every write of a row puts a fresh lease in it or none, so a    *)
(* stale copy never brings an old expiry time back.                        *)
(***************************************************************************)
EXTENDS Integers, FiniteSets

CONSTANTS
    NItems,          \* items of the group, in index order
    MaxAttempts,     \* SchedulerConfig.MaxAttempts
    MaxConcurrency,  \* SchedulerConfig.MaxConcurrency
    Dispatcher,      \* the process-wide GroupDispatcher
    Cancels,         \* CancelGroup requests, each issued at most once
    Retries,         \* RetryFailedGroup requests
    Reports,         \* GetGroupReport requests
    MaxRequests,     \* bound: API requests that are issued
    MaxLapses,       \* bound: leases that run out under a live goroutine
    MaxRuns,         \* bound: attempts started in a behaviour
    MaxCrashes,      \* bound: process crashes
    MaxFaults        \* bound: failing store calls

ASSUME ConfigAssumption ==
    /\ NItems \in Nat \ {0}
    /\ MaxAttempts \in Nat \ {0}
    /\ MaxConcurrency \in Nat \ {0}
    /\ MaxRuns \in Nat /\ MaxCrashes \in Nat
    /\ MaxFaults \in Nat /\ MaxLapses \in Nat /\ MaxRequests \in Nat

Item    == 1 .. NItems
Attempt == 1 .. MaxRuns     \* a claimed attempt's goroutine, and its run
Request == Cancels \cup Retries \cup Reports
Lister  == {Dispatcher} \cup Request
Proc    == Attempt \cup Lister

(* The three kinds of request are different, and none is an attempt.       *)
ASSUME ProcAssumption ==
    /\ Cancels \cap Retries = {} /\ Cancels \cap Reports = {}
    /\ Retries \cap Reports = {}
    /\ Dispatcher \notin Request \cup Attempt
    /\ Request \cap Attempt = {}

NoRun  == 0                 \* LatestRunID = ""
Nobody == 0                 \* LeaseOwner = ""

ItemStatus  == {"queued", "running", "scoring", "passed", "failed", "cancelled"}
ActiveItem  == {"running", "scoring"}
EndedItem   == {"passed", "failed", "cancelled"}
Lease       == {"none", "valid", "expired"}
GroupStatus == {"queued", "running", "scoring",
                "completed", "partial", "failed", "cancelled"}
Listed      == {"queued", "running", "scoring"}
RunStatus   == {"none", "running", "cancelling", "completed", "failed", "cancelled"}
RunEnded    == {"completed", "failed", "cancelled"}
Verdict     == {"pass", "fail", "reject"}   \* reject: a failure marked not retryable
CardVerdict == Verdict \cup {"none", "error"}
Outcome     == {"none"} \cup RunEnded \cup Verdict

Row  == [status : ItemStatus, run : {NoRun} \cup Attempt, attempts : Nat,
         owner : Nat, lease : Lease]
Card == [run : {NoRun} \cup Attempt, verdict : CardVerdict]

BlankRow == [status |-> "queued", run |-> NoRun, attempts |-> 0,
             owner |-> Nobody, lease |-> "none"]
NoCard   == [run |-> NoRun, verdict |-> "none"]
NoRows   == [i \in {} |-> BlankRow]

VARIABLES
    row,       \* harness_run_group_items
    group,     \* status in harness_run_groups
    card,      \* the latest row of harness_scorecards for each item
    run,       \* what Controller.Get reports of each attempt's run
    pc,        \* where each process is
    itemOf,    \* the item an attempt was claimed for (0 before that)
    copy,      \* an attempt's copy of its item's row
    outcome,   \* an attempt's terminal run, then the verdict just given
    view,      \* the group status a refresh has read, then derived
    worklist,  \* listed rows a loop has still to write
    slots,     \* items the dispatcher may still claim in this tick
    recovered, \* history: leases of each item taken back by recoverExpiredItems
    crashes, faults, lapses

store    == <<row, group, card>>
locals   == <<itemOf, copy, outcome, view, worklist, slots>>
counters == <<recovered, crashes, faults, lapses>>
vars     == <<row, group, card, run, pc, itemOf, copy, outcome, view, worklist,
              slots, recovered, crashes, faults, lapses>>

workerID == crashes + 1     \* a fresh uuid each time the process starts

(* Where the goroutine of an attempt still means to write its item's row.  *)
LivePC == {"submit", "recordRead", "recordWrite", "wait", "poll",
           "renewWrite", "scoreRead", "scoreWrite", "score", "finalRead",
           "finalWrite", "failRead", "failWrite", "refuseRead", "refuseWrite"}
PC     == LivePC \cup {"unused", "refGet", "refList", "refWrite", "done",
           "idle", "list", "recover", "count", "claim", "start",
           "cancelRun", "cancelRow", "cancelGroup", "retryRow", "retryGroup",
           "reportCard", "reportRow"}

Live(t) == pc[t] \in LivePC
Goto(p, l) == pc' = [pc EXCEPT ![p] = l]
First(S, i) == i \in S /\ \A j \in S : i <= j      \* ORDER BY item_index ASC
UpdateGroupItem(i, r) == row' = [row EXCEPT ![i] = r]

-----------------------------------------------------------------------------
(* The rows that the writers of an item produce from the copy they hold.   *)

(* MUTANT ClaimedRowStillQueued: the claim takes the lease but leaves the  *)
(* status.  Definitions marked MUTANT are plausible bugs of the definition *)
(* that follows them; no specification uses them.                          *)
ClaimedRowStillQueued(r) ==
    [r EXCEPT !.owner = workerID, !.lease = "valid"]

ClaimedRow(r) ==
    [r EXCEPT !.status = "running", !.owner = workerID, !.lease = "valid"]

RecordedRow(r, t) ==
    [r EXCEPT !.status = "running", !.owner = workerID, !.lease = "valid",
              !.run = t, !.attempts = @ + 1]

RenewedRow(r) == [r EXCEPT !.lease = "valid"]

ScoringRow(r) ==
    [r EXCEPT !.status = "scoring", !.owner = workerID, !.lease = "valid"]

(* MUTANT: a requeued row keeps its owner.                                 *)
RequeuedRowOwned(r, lease) ==
    [r EXCEPT !.status = "queued", !.lease = lease]

RequeuedRow(r, lease) ==
    [r EXCEPT !.status = "queued", !.owner = Nobody, !.lease = lease]

EndedRow(r, status) ==
    [r EXCEPT !.status = status, !.owner = Nobody, !.lease = "none"]

(* MUTANT: off by one.                                                     *)
shouldRetryOnceMore(r) == r.attempts <= MaxAttempts

shouldRetryAttempt(r) == r.attempts < MaxAttempts

FailedRow(r, submissionFailed) ==
    LET c == IF submissionFailed THEN [r EXCEPT !.attempts = @ + 1] ELSE r IN
    IF shouldRetryAttempt(c) THEN RequeuedRow(c, "valid")
                             ELSE EndedRow(c, "failed")

(* MUTANT: the verdict itself as a status.                                 *)
verdictAsItemStatus(v) == IF v = "pass" THEN "passed" ELSE v

verdictToItemStatus(v) == IF v = "pass" THEN "passed" ELSE "failed"

(* MUTANT: a cancelled attempt leaves its row to whoever cancelled it.     *)
FinalRowLeftToCancel(r, out) ==
    IF out = "cancelled" THEN r
    ELSE IF out = "fail" /\ shouldRetryAttempt(r) THEN RequeuedRow(r, "valid")
    ELSE EndedRow(r, verdictToItemStatus(out))

FinalRow(r, out) ==
    IF out = "cancelled" THEN EndedRow(r, "cancelled")
    ELSE IF out = "fail" /\ shouldRetryAttempt(r) THEN RequeuedRow(r, "valid")
    ELSE EndedRow(r, verdictToItemStatus(out))

-----------------------------------------------------------------------------
(* refreshGroupSummary: read the group, list its items, write the group.   *)

Some(rows, status) == \E i \in Item : rows[i].status = status
All(rows, status)  == \A i \in Item : rows[i].status = status

ClosedStatus(rows) ==
    IF All(rows, "passed") THEN "completed"
    ELSE IF All(rows, "cancelled") THEN "cancelled"
    ELSE IF All(rows, "failed") THEN "failed"
    ELSE "partial"

(* MUTANT: items in scoring are not counted.                               *)
deriveGroupStatusBeforeScoring(current, rows) ==
    IF current = "cancelled" THEN "cancelled"
    ELSE IF Some(rows, "running") THEN "running"
    ELSE IF Some(rows, "queued") THEN "queued"
    ELSE ClosedStatus(rows)

deriveGroupStatus(current, rows) ==
    IF current = "cancelled" THEN "cancelled"
    ELSE IF Some(rows, "running") THEN "running"
    ELSE IF Some(rows, "scoring") THEN "scoring"
    ELSE IF Some(rows, "queued") THEN "queued"
    ELSE ClosedStatus(rows)

(* Where a caller of refreshGroupSummary that got status s goes on.        *)
AfterRefresh(p, s) ==
    IF p # Dispatcher THEN "done" ELSE IF s \in Listed THEN "count" ELSE "idle"

RefreshGet(p) ==
    /\ pc[p] = "refGet"
    /\ view' = [view EXCEPT ![p] = group]
    /\ Goto(p, "refList")
    /\ UNCHANGED <<store, run, itemOf, copy, outcome, worklist, slots, counters>>

(* The write is skipped when neither the status nor the summary changed;   *)
(* the summary is abstracted, so an unchanged status may go either way.    *)
RefreshList(p) ==
    /\ pc[p] = "refList"
    /\ LET next == deriveGroupStatus(view[p], row) IN
         \/ /\ view' = [view EXCEPT ![p] = next]
            /\ Goto(p, "refWrite")
         \/ /\ next = view[p]
            /\ view' = [view EXCEPT ![p] = "queued"]
            /\ Goto(p, AfterRefresh(p, next))
    /\ UNCHANGED <<store, run, itemOf, copy, outcome, worklist, slots, counters>>

RefreshWrite(p) ==
    /\ pc[p] = "refWrite"
    /\ group' = view[p]
    /\ view' = [view EXCEPT ![p] = "queued"]
    /\ Goto(p, AfterRefresh(p, view[p]))
    /\ UNCHANGED <<row, card, run, itemOf, copy, outcome, worklist, slots, counters>>

refreshGroupSummary(p) == RefreshGet(p) \/ RefreshList(p) \/ RefreshWrite(p)

-----------------------------------------------------------------------------
(* The dispatcher: DispatchOnce on this group.                             *)

D == Dispatcher

(* ListGroups returns the group only while its stored status is listed.    *)
Tick ==
    /\ pc[D] = "idle"
    /\ group \in Listed
    /\ Goto(D, "list")
    /\ UNCHANGED <<store, run, locals, counters>>

(* MUTANTS: recovery ignores the lease, or forgets the items in scoring.   *)
ExpiredOrNot   == {i \in Item : row[i].status \in ActiveItem}
ExpiredRunning == {i \in Item : row[i].status = "running" /\ row[i].lease = "expired"}

Expired == {i \in Item : row[i].status \in ActiveItem /\ row[i].lease = "expired"}

(* recoverExpiredItems lists the rows once and then writes them back.      *)
RecoverList ==
    /\ pc[D] = "list"
    /\ worklist' = [worklist EXCEPT ![D] = [i \in Expired |-> row[i]]]
    /\ Goto(D, IF Expired = {} THEN "refGet" ELSE "recover")
    /\ UNCHANGED <<store, run, itemOf, copy, outcome, view, slots, counters>>

(* The rest of a worklist once item i of it is written.                    *)
Without(f, i) == [j \in DOMAIN f \ {i} |-> f[j]]
Last(p, i)    == DOMAIN worklist[p] = {i}

RecoverItem ==
    /\ pc[D] = "recover"
    /\ \E i \in Item :
        /\ First(DOMAIN worklist[D], i)
        /\ UpdateGroupItem(i, RequeuedRow(worklist[D][i], "none"))
        /\ recovered' = [recovered EXCEPT ![i] = @ + 1]
        /\ worklist' = [worklist EXCEPT ![D] = Without(@, i)]
        /\ Goto(D, IF Last(D, i) THEN "refGet" ELSE "recover")
    /\ UNCHANGED <<group, card, run, itemOf, copy, outcome, view, slots,
                   crashes, faults, lapses>>

Active == {i \in Item : row[i].status \in ActiveItem}

(* MUTANT: the items already active are not counted.                       *)
AllSlots(active)  == MaxConcurrency

FreeSlots(active) == IF active < MaxConcurrency THEN MaxConcurrency - active ELSE 0

Count ==
    /\ pc[D] = "count"
    /\ slots' = FreeSlots(Cardinality(Active))
    /\ Goto(D, "claim")
    /\ UNCHANGED <<store, run, itemOf, copy, outcome, view, worklist, counters>>

Claimable == {i \in Item : row[i].status = "queued" /\ row[i].lease # "valid"}
Unused    == {t \in Attempt : pc[t] = "unused"}

(* ClaimNextGroupItem is one transaction; the claim starts a goroutine.    *)
Claim ==
    /\ pc[D] = "claim"
    /\ slots > 0
    /\ \E i \in Item, t \in Attempt :
        /\ First(Claimable, i)
        /\ First(Unused, t)
        /\ UpdateGroupItem(i, ClaimedRow(row[i]))
        /\ itemOf' = [itemOf EXCEPT ![t] = i]
        /\ Goto(t, "submit")
    /\ slots' = slots - 1
    /\ UNCHANGED <<group, card, run, copy, outcome, view, worklist, counters>>

ClaimDone ==
    /\ pc[D] = "claim"
    /\ slots = 0 \/ Claimable = {} \/ Unused = {}
    /\ slots' = 0
    /\ Goto(D, "idle")
    /\ UNCHANGED <<store, run, itemOf, copy, outcome, view, worklist, counters>>

Dispatch == Tick \/ RecoverList \/ RecoverItem \/ Count \/ Claim \/ ClaimDone

-----------------------------------------------------------------------------
(* An attempt: processClaimedItem, one step per call to the store or to    *)
(* the run controller.  Every write clears the local copy it used.         *)

Read(t, l) ==
    /\ copy' = [copy EXCEPT ![t] = row[itemOf[t]]]
    /\ Goto(t, l)
    /\ UNCHANGED <<store, run, itemOf, outcome, view, worklist, slots, counters>>

Write(t, r, l) ==
    /\ UpdateGroupItem(itemOf[t], r)
    /\ copy' = [copy EXCEPT ![t] = BlankRow]
    /\ Goto(t, l)
    /\ UNCHANGED <<group, card, run, itemOf, view, worklist, slots, counters>>

(* buildGroupItemRunSpec and Submit: the run is started, or the submission *)
(* is refused.                                                             *)
Submit(t) ==
    /\ pc[t] = "submit"
    /\ \/ /\ run' = [run EXCEPT ![t] = "running"]
          /\ Goto(t, "recordRead")
       \/ /\ Goto(t, "refuseRead")
          /\ UNCHANGED run
    /\ UNCHANGED <<store, locals, counters>>

RecordRead(t) == pc[t] = "recordRead" /\ Read(t, "recordWrite")

RecordWrite(t) ==
    /\ pc[t] = "recordWrite"
    /\ Write(t, RecordedRow(copy[t], t), "wait")
    /\ UNCHANGED outcome

(* What Controller.Get may return for a run: a run whose cancellation is   *)
(* stored but whose task still runs is seen either way.                    *)
Reported(s) == IF s = "cancelling" THEN {"cancelling", "cancelled"} ELSE {s}

(* waitForRun, one turn of its loop: ask for the run, then read the item.  *)
(* When half the lease has gone by, renewItemLease reads it once more and  *)
(* refuses a row that another owner holds: its read is the one below.      *)
WaitRun(t) ==
    /\ pc[t] = "wait"
    /\ \E s \in Reported(run[t]) :
        IF s \in RunEnded
        THEN /\ outcome' = [outcome EXCEPT ![t] = s]
             /\ Goto(t, "scoreRead")
        ELSE /\ Goto(t, "poll")
             /\ UNCHANGED outcome
    /\ UNCHANGED <<store, run, itemOf, copy, view, worklist, slots, counters>>

WaitItem(t) ==
    /\ pc[t] = "poll"
    /\ LET r == row[itemOf[t]] IN
        \/ /\ \/ r.status = "cancelled" /\ Goto(t, "scoreRead")
              \/ r.status # "cancelled" /\ r.owner # workerID /\ Goto(t, "failRead")
              \/ r.status # "cancelled" /\ r.owner = workerID /\ Goto(t, "wait")
           /\ UNCHANGED <<store, run, locals, counters>>
        \/ r.owner = workerID /\ Read(t, "renewWrite")

RenewWrite(t) ==
    /\ pc[t] = "renewWrite"
    /\ Write(t, RenewedRow(copy[t]), "wait")
    /\ UNCHANGED outcome

ScoreRead(t) ==
    /\ pc[t] = "scoreRead"
    /\ IF row[itemOf[t]].status = "cancelled"
       THEN Goto(t, "refGet") /\ UNCHANGED <<store, run, locals, counters>>
       ELSE Read(t, "scoreWrite")

ScoreWrite(t) ==
    /\ pc[t] = "scoreWrite"
    /\ Write(t, ScoringRow(copy[t]), "score")
    /\ UNCHANGED outcome

(* verifyGroupRun and scoreGroupRun: only a completed run can pass.        *)
(* MUTANT: the run's status is not looked at.                              *)
AnyVerdict(s) == Verdict

Verdicts(s) == IF s = "completed" THEN Verdict ELSE Verdict \ {"pass"}

(* The scorecard is stored; a cancelled run keeps its outcome, because     *)
(* finalizeAttempt looks at the run before it looks at the scorecard.      *)
Score(t) ==
    /\ pc[t] = "score"
    /\ \E v \in Verdicts(outcome[t]) :
        /\ card' = [card EXCEPT ![itemOf[t]] = [run |-> t, verdict |-> v]]
        /\ outcome' = [outcome EXCEPT
                          ![t] = IF @ = "cancelled" THEN @ ELSE v]
    /\ Goto(t, "finalRead")
    /\ UNCHANGED <<row, group, run, itemOf, copy, view, worklist, slots, counters>>

FinalRead(t) == pc[t] = "finalRead" /\ Read(t, "finalWrite")

FinalWrite(t) ==
    /\ pc[t] = "finalWrite"
    /\ Write(t, FinalRow(copy[t], outcome[t]), "refGet")
    /\ outcome' = [outcome EXCEPT ![t] = "none"]

(* failAttempt: read the row, attach an error scorecard, write the row.    *)
FailCard(t, r) ==
    /\ copy' = [copy EXCEPT ![t] = row[itemOf[t]]]
    /\ card' = [card EXCEPT ![itemOf[t]] = [run |-> r, verdict |-> "error"]]
    /\ UNCHANGED <<row, group, run, itemOf, outcome, view, worklist, slots, counters>>

FailRead(t) == pc[t] = "failRead" /\ FailCard(t, t) /\ Goto(t, "failWrite")

FailWrite(t) ==
    /\ pc[t] = "failWrite"
    /\ Write(t, FailedRow(copy[t], FALSE), "refGet")
    /\ outcome' = [outcome EXCEPT ![t] = "none"]

RefuseRead(t) == pc[t] = "refuseRead" /\ FailCard(t, NoRun) /\ Goto(t, "refuseWrite")

RefuseWrite(t) ==
    /\ pc[t] = "refuseWrite"
    /\ Write(t, FailedRow(copy[t], TRUE), "refGet")
    /\ UNCHANGED outcome

processClaimedItem(t) ==
    \/ Submit(t)     \/ RecordRead(t) \/ RecordWrite(t)
    \/ WaitRun(t)    \/ WaitItem(t)   \/ RenewWrite(t)
    \/ ScoreRead(t)  \/ ScoreWrite(t) \/ Score(t)
    \/ FinalRead(t)  \/ FinalWrite(t)
    \/ FailRead(t)   \/ FailWrite(t)  \/ RefuseRead(t) \/ RefuseWrite(t)

-----------------------------------------------------------------------------
(* API requests.  Each lists the items once and then acts on that listing. *)

Issued == {q \in Request : pc[q] # "start"}

List(q, S, l) ==
    /\ Cardinality(Issued) < MaxRequests
    /\ worklist' = [worklist EXCEPT ![q] = [i \in S |-> row[i]]]
    /\ Goto(q, l)
    /\ UNCHANGED <<store, run, itemOf, copy, outcome, view, slots, counters>>

(* CancelGroup.                                                            *)
Cancellable == {i \in Item : row[i].status \in ActiveItem \cup {"queued"}}

CancelList(q) ==
    /\ pc[q] = "start"
    /\ List(q, Cancellable, IF Cancellable = {} THEN "cancelGroup" ELSE "cancelRun")

(* Controller.Cancel on the run the listed row names, if it still runs.    *)
CancelRun(q) ==
    /\ pc[q] = "cancelRun"
    /\ \E i \in Item :
        /\ First(DOMAIN worklist[q], i)
        /\ LET t == worklist[q][i].run IN
            IF t # NoRun /\ run[t] = "running"
            THEN run' = [run EXCEPT ![t] = "cancelling"]
            ELSE UNCHANGED run
    /\ Goto(q, "cancelRow")
    /\ UNCHANGED <<store, locals, counters>>

(* The write may fail: its error is discarded and the loop goes on.  There *)
(* are as many such failures as rows, so they need no bound of their own.  *)
CancelRow(q) ==
    /\ pc[q] = "cancelRow"
    /\ \E i \in Item :
        /\ First(DOMAIN worklist[q], i)
        /\ \/ UpdateGroupItem(i, EndedRow(worklist[q][i], "cancelled"))
           \/ UNCHANGED row
        /\ worklist' = [worklist EXCEPT ![q] = Without(@, i)]
        /\ Goto(q, IF Last(q, i) THEN "cancelGroup" ELSE "cancelRun")
    /\ UNCHANGED <<group, card, run, itemOf, copy, outcome, view, slots, counters>>

CancelGroup(q) ==
    /\ pc[q] = "cancelGroup"
    /\ group' = "cancelled"
    /\ Goto(q, "refGet")
    /\ UNCHANGED <<row, card, run, locals, counters>>

(* RetryFailedGroup.                                                       *)
(* MUTANT: the status is not looked at.                                    *)
RetriableAnyStatus == {i \in Item : shouldRetryAttempt(row[i])}

Retriable == {i \in Item : row[i].status = "failed" /\ shouldRetryAttempt(row[i])}

RetryList(q) ==
    /\ pc[q] = "start"
    /\ List(q, Retriable, IF Retriable = {} THEN "done" ELSE "retryRow")

RetryRow(q) ==
    /\ pc[q] = "retryRow"
    /\ \E i \in Item :
        /\ First(DOMAIN worklist[q], i)
        /\ UpdateGroupItem(i, RequeuedRow(worklist[q][i], "valid"))
        /\ worklist' = [worklist EXCEPT ![q] = Without(@, i)]
        /\ Goto(q, IF Last(q, i) THEN "retryGroup" ELSE "retryRow")
    /\ UNCHANGED <<group, card, run, itemOf, copy, outcome, view, slots, counters>>

RetryGroup(q) ==
    /\ pc[q] = "retryGroup"
    /\ group' = "queued"
    /\ Goto(q, "refGet")
    /\ UNCHANGED <<row, card, run, locals, counters>>

(* GetGroupReport rescores items whose row and scorecard disagree.         *)
Leased(r) == r.status \in ActiveItem /\ r.owner # Nobody /\ r.lease = "valid"

Rescorable == {i \in Item : /\ ~Leased(row[i])
                            /\ row[i].run # NoRun
                            /\ run[row[i].run] = "completed"}

(* A row and a card that disagree are redone, and a card that does not     *)
(* pass is when the run was updated after it or its output looks verified. *)
NeedsRescore == {i \in Rescorable :
                   \/ card[i].verdict # "pass"
                   \/ card[i].run # row[i].run
                   \/ row[i].status # verdictToItemStatus(card[i].verdict)}

(* The runs are taken as they are stored, and a row of harness_runs is     *)
(* behind until somebody asks for its run: which items the report finds    *)
(* completed is left open.                                                 *)
ReportList(q) ==
    /\ pc[q] = "start"
    /\ \E todo \in SUBSET NeedsRescore :
        List(q, todo, IF todo = {} THEN "done" ELSE "reportCard")

ReportCard(q) ==
    /\ pc[q] = "reportCard"
    /\ \E i \in Item, v \in Verdict :
        /\ First(DOMAIN worklist[q], i)
        /\ card' = [card EXCEPT ![i] = [run |-> worklist[q][i].run, verdict |-> v]]
        /\ outcome' = [outcome EXCEPT ![q] = v]
    /\ Goto(q, "reportRow")
    /\ UNCHANGED <<row, group, run, itemOf, copy, view, worklist, slots, counters>>

ReportRow(q) ==
    /\ pc[q] = "reportRow"
    /\ \E i \in Item :
        /\ First(DOMAIN worklist[q], i)
        /\ LET r    == worklist[q][i]
               next == EndedRow(r, verdictToItemStatus(outcome[q]))
           IN  IF r # next THEN UpdateGroupItem(i, next) ELSE UNCHANGED row
        /\ worklist' = [worklist EXCEPT ![q] = Without(@, i)]
        /\ outcome' = [outcome EXCEPT ![q] = "none"]
        /\ Goto(q, IF Last(q, i) THEN "refGet" ELSE "reportCard")
    /\ UNCHANGED <<group, card, run, itemOf, copy, view, slots, counters>>

Serve ==
    \/ \E q \in Cancels : CancelList(q) \/ CancelRun(q) \/ CancelRow(q) \/ CancelGroup(q)
    \/ \E q \in Retries : RetryList(q) \/ RetryRow(q) \/ RetryGroup(q)
    \/ \E q \in Reports : ReportList(q) \/ ReportCard(q) \/ ReportRow(q)

-----------------------------------------------------------------------------
(* The world around the group.                                             *)

(* The driver's task ends: it answers, fails, times out or obeys a cancel. *)
RunEnds(t) ==
    /\ run[t] \in {"running", "cancelling"}
    /\ \E s \in RunEnded : run' = [run EXCEPT ![t] = s]
    /\ UNCHANGED <<store, pc, locals, counters>>

LiveOn(i) == {t \in Attempt : itemOf[t] = i /\ Live(t)}

(* A lease, or a retry backoff, runs out.  A goroutine in its wait loop    *)
(* renews in time, but Submit, which waits for a free task slot, and       *)
(* scoring may outlast the lease: it then lapses under a live goroutine.   *)
LeaseExpires(i) ==
    /\ row[i].lease = "valid"
    /\ IF LiveOn(i) = {} THEN UNCHANGED lapses
                         ELSE lapses < MaxLapses /\ lapses' = lapses + 1
    /\ UpdateGroupItem(i, [row[i] EXCEPT !.lease = "expired"])
    /\ UNCHANGED <<group, card, run, pc, locals, recovered, crashes, faults>>

(* The store call that process p is about to make returns an error.        *)
FaultLeadsTo(p) ==
    CASE pc[p] \in {"finalWrite", "failWrite", "refuseWrite"} -> "refGet"
      [] pc[p] = "score"                          -> "failRead"
      [] pc[p] = "renewWrite"                     -> "wait"
      [] p = D                                    -> "idle"
      [] OTHER                                    -> "done"

Fault(p) ==
    /\ faults < MaxFaults
    /\ faults' = faults + 1
    /\ pc[p] \notin {"unused", "done", "idle", "wait", "poll", "finalRead",
                     "failRead", "refuseRead", "start", "cancelRun", "cancelRow"}
    /\ Goto(p, FaultLeadsTo(p))
    /\ copy' = [t \in Attempt |-> IF t = p THEN BlankRow ELSE copy[t]]
    /\ view' = [view EXCEPT ![p] = "queued"]
    /\ worklist' = [q \in Lister |-> IF q = p THEN NoRows ELSE worklist[q]]
    /\ outcome' = IF FaultLeadsTo(p) \in {"refGet", "done"} /\ p # D
                  THEN [outcome EXCEPT ![p] = "none"] ELSE outcome
    /\ slots' = IF p = D THEN 0 ELSE slots
    /\ UNCHANGED <<store, run, itemOf, recovered, crashes, lapses>>

(* The process dies and starts again: every goroutine is gone, the store   *)
(* stays, and the tasks that were running are marked failed.               *)
Crash ==
    /\ crashes < MaxCrashes
    /\ crashes' = crashes + 1
    /\ pc' = [p \in Proc |-> IF p = D THEN "idle"
                             ELSE IF pc[p] \in {"unused", "start"} THEN pc[p] ELSE "done"]
    /\ run' = [t \in Attempt |-> IF run[t] \in {"running", "cancelling"}
                                 THEN "failed" ELSE run[t]]
    /\ copy' = [t \in Attempt |-> BlankRow]
    /\ outcome' = [p \in Proc |-> "none"]
    /\ view' = [p \in Proc |-> "queued"]
    /\ worklist' = [q \in Lister |-> NoRows]
    /\ slots' = 0
    /\ UNCHANGED <<store, itemOf, recovered, faults, lapses>>

-----------------------------------------------------------------------------
(* SubmitGroup has stored the group and its items.                         *)
Init ==
    /\ row = [i \in Item |-> BlankRow]
    /\ group = "queued"
    /\ card = [i \in Item |-> NoCard]
    /\ run = [t \in Attempt |-> "none"]
    /\ pc = [p \in Proc |-> IF p = D THEN "idle"
                            ELSE IF p \in Request THEN "start" ELSE "unused"]
    /\ itemOf = [t \in Attempt |-> 0]
    /\ copy = [t \in Attempt |-> BlankRow]
    /\ outcome = [p \in Proc |-> "none"]
    /\ view = [p \in Proc |-> "queued"]
    /\ worklist = [q \in Lister |-> NoRows]
    /\ slots = 0
    /\ recovered = [i \in Item |-> 0]
    /\ crashes = 0 /\ faults = 0 /\ lapses = 0

Next ==
    \/ Dispatch
    \/ \E t \in Attempt : processClaimedItem(t) \/ RunEnds(t)
    \/ Serve
    \/ \E p \in Proc : refreshGroupSummary(p) \/ Fault(p)
    \/ \E i \in Item : LeaseExpires(i)
    \/ Crash

Spec == Init /\ [][Next]_vars

(* The ticker, the goroutines, the bounded task and the clock all go on.   *)
Fairness ==
    /\ WF_vars(Dispatch)
    /\ \A p \in Proc : WF_vars(refreshGroupSummary(p))
    /\ \A t \in Attempt : WF_vars(processClaimedItem(t)) /\ WF_vars(RunEnds(t))
    /\ \A i \in Item : WF_vars(LeaseExpires(i))

FairSpec == Spec /\ Fairness

-----------------------------------------------------------------------------
(* Properties.                                                             *)

RowList(f) == DOMAIN f \subseteq Item /\ f \in [DOMAIN f -> Row]

(* Every variable has its type; in particular a loop's worklist maps the   *)
(* items it has still to write to the rows it listed.                      *)
TypeOK ==
    /\ row \in [Item -> Row]
    /\ group \in GroupStatus
    /\ card \in [Item -> Card]
    /\ run \in [Attempt -> RunStatus]
    /\ pc \in [Proc -> PC]
    /\ itemOf \in [Attempt -> {0} \cup Item]
    /\ copy \in [Attempt -> Row]
    /\ outcome \in [Proc -> Outcome]
    /\ view \in [Proc -> GroupStatus]
    /\ worklist = [q \in Lister |-> worklist[q]]
    /\ \A q \in Lister : RowList(worklist[q])
    /\ slots \in Nat
    /\ recovered \in [Item -> Nat]
    /\ crashes \in Nat /\ faults \in Nat /\ lapses \in Nat

(* recoverExpiredItems can take back any item whose goroutine is gone:     *)
(* an active row names an owner and carries a lease, no other row names an *)
(* owner, and an ended one carries no lease at all.                        *)
Recoverable ==
    \A i \in Item :
        /\ row[i].status \in ActiveItem <=> row[i].owner # Nobody
        /\ row[i].status \in ActiveItem => row[i].lease # "none"
        /\ row[i].status \in EndedItem => row[i].lease = "none"

(* The lease does its work: no two goroutines work on one item at a time.  *)
OneAttemptPerItem ==
    \A t, u \in Attempt :
        Live(t) /\ Live(u) /\ itemOf[t] = itemOf[u] => t = u

(* What the queue offers is free: until a lease lapses under a goroutine,  *)
(* no item is queued while a goroutine still works on it, so no later      *)
(* claim can make a second one.                                            *)
QueuedItemsAreFree ==
    lapses = 0 => \A t \in Attempt : Live(t) => row[itemOf[t]].status # "queued"

(* dispatchGroup never lets more goroutines run than MaxConcurrency.       *)
ConcurrencyBound == Cardinality({t \in Attempt : Live(t)}) <= MaxConcurrency

(* An item is attempted MaxAttempts times; only recovery, which does not   *)
(* look at the count, adds to that, one attempt for each lease taken back. *)
(* It holds while no lease lapses: a slow goroutine's copy could bring a   *)
(* lower count back, and another slow copy the higher one again.           *)
AttemptsBounded ==
    \A i \in Item : row[i].attempts <= MaxAttempts + recovered[i]

(* When goroutines outlast leases, every further goroutine on an item is   *)
(* paid for by a recovery of that item.                                    *)
DuplicatesArePaidFor ==
    \A i \in Item :
        Cardinality(LiveOn(i)) + (IF row[i].status = "queued" THEN 1 ELSE 0)
            <= 1 + recovered[i]

(* A passed item is backed by evidence: its latest scorecard passes the    *)
(* very run the row names, and that run completed.                         *)
EvidenceMatches ==
    \A i \in Item : row[i].status = "passed" =>
        /\ card[i] = [run |-> row[i].run, verdict |-> "pass"]
        /\ run[row[i].run] = "completed"

(* The group is closed only once all of its items have ended.              *)
GroupNeverEndsEarly ==
    group \notin Listed => \A i \in Item : row[i].status \in EndedItem

(* No lost wakeup: an item waits in the queue of a closed group only while *)
(* some request or goroutine is on its way to reopen or refresh the group. *)
NoStrandedItem ==
    \/ group \in Listed
    \/ \A i \in Item : row[i].status # "queued"
    \/ \E p \in Proc \ {D} : pc[p] \notin {"unused", "start", "done"}

(* A report repairs stale state and leaves alone an item that the          *)
(* dispatcher works on under a valid lease.                                *)
ReportSparesLeasedItems ==
    [][\A q \in Reports : pc[q] = "reportRow" /\ pc'[q] # "reportRow" =>
        \A i \in Item : Leased(row[i]) => row'[i] = row[i]]_vars

(* While goroutines, runs and clock go on, the group reaches a verdict.    *)
EventuallySettled ==
    <>[](/\ group \notin Listed
         /\ \A i \in Item : row[i].status \in EndedItem)

(* Whatever a cancel is interleaved with, no item looks busy for ever:     *)
(* an attempt that writes its item active after CancelGroup has ended it   *)
(* goes on to end it again, although nobody dispatches the group any more. *)
EventuallyQuiet ==
    <>[](\A i \in Item : row[i].status \notin ActiveItem)

(* Without API requests the group keeps the promise of GroupContract: an   *)
(* item is handed to at most MaxConcurrency goroutines' rows at a time, a  *)
(* settled item is final, and the group closes only over settled items.    *)
PhaseOf(s) == IF s = "queued" THEN "waiting"
              ELSE IF s \in ActiveItem THEN "working" ELSE "settled"

Contract == INSTANCE GroupContract
                WITH Work  <- Item,
                     Width <- MaxConcurrency,
                     phase <- [i \in Item |-> PhaseOf(row[i].status)],
                     open  <- group \in Listed

KeepsContract == Contract!Spec

=============================================================================
