--------------------------------- MODULE Cron ---------------------------------
(***************************************************************************)
(* Scheduled jobs (cron.Service): the job table, the entries that the      *)
(* scheduler library keeps for it, and the executions that share the       *)
(* MaxConcurrentJobs slots.  The table is in memory only.  The service is  *)
(* a reclaimable resource (module Managed): when nobody has called it for  *)
(* a while it is stopped, and the next call makes a new, empty one; a call *)
(* holds a lease, an execution holds none.                                 *)
(*                                                                         *)
(* A call runs under the mutex and is one step, as are the two locked      *)
(* parts of an execution.  A schedule is abstracted to whether an entry    *)
(* for it is in the scheduler; an entry may fire at any time.              *)
(***************************************************************************)
EXTENDS Integers, FiniteSets

CONSTANTS
    Job,                \* job ids, which are never used twice
    Execution,          \* bound: goroutines that run executeJob
    MaxConcurrentJobs,
    MaxServices,        \* bound: services that are made
    MaxEdits            \* bound: calls of Update, Enable and Disable

ASSUME CronAssumption ==
    /\ IsFiniteSet(Job) /\ Job # {} /\ IsFiniteSet(Execution)
    /\ MaxConcurrentJobs \in Nat \ {0} /\ MaxServices \in Nat \ {0} /\ MaxEdits \in Nat

VARIABLES
    service,    \* number of the service in use
    home,       \* the service whose table holds the job, or 0
    known,      \* "new", "live" or "deleted"
    enabled, status,
    entry,      \* whether job.entryID is in the scheduler
    orphans,    \* entries of the job that job.entryID does not name
    exec,       \* where each execution is
    of, in,     \* its job and its service
    triggered,  \* the executions that Trigger has started
    panicked,   \* history: jobs whose handler has panicked
    repaused,   \* history: jobs that were rescheduled while paused
    edits

executions == <<exec, of, in, triggered, panicked>>
cronVars   == <<service, home, known, enabled, status, entry, orphans, exec, of, in,
                triggered, panicked, repaused, edits>>

Here(j) == known[j] = "live" /\ home[j] = service

-----------------------------------------------------------------------------
(* Calls.                                                                  *)

Create(j) ==
    /\ known[j] = "new"
    /\ known' = [known EXCEPT ![j] = "live"]
    /\ home' = [home EXCEPT ![j] = service]
    /\ enabled' = [enabled EXCEPT ![j] = TRUE]
    /\ status' = [status EXCEPT ![j] = "active"]
    /\ entry' = [entry EXCEPT ![j] = TRUE]
    /\ UNCHANGED <<service, orphans, executions, repaused, edits>>

Edit(j) == Here(j) /\ edits < MaxEdits /\ edits' = edits + 1
           /\ UNCHANGED <<service, home, known, executions>>

(* Update with a new schedule: the old entry goes, a new one is added,     *)
(* also for a job that is paused.                                          *)
Update(j) ==
    /\ Edit(j)
    /\ entry' = [entry EXCEPT ![j] = TRUE]
    /\ repaused' = IF enabled[j] THEN repaused ELSE repaused \cup {j}
    /\ UNCHANGED <<enabled, status, orphans>>

(* MUTANT: an enabled job is not left alone.                               *)
(* Definitions marked MUTANT are plausible bugs of the definition that     *)
(* follows them; no specification uses them.                               *)
EnableJobAgain(j) ==
    /\ Edit(j)
    /\ enabled' = [enabled EXCEPT ![j] = TRUE]
    /\ status' = [status EXCEPT ![j] = "active"]
    /\ orphans' = IF entry[j] THEN [orphans EXCEPT ![j] = @ + 1] ELSE orphans
    /\ entry' = [entry EXCEPT ![j] = TRUE]
    /\ UNCHANGED repaused

(* The entry that job.entryID names, if there is one, stays behind.        *)
EnableJob(j) ==
    /\ Edit(j) /\ ~enabled[j]
    /\ enabled' = [enabled EXCEPT ![j] = TRUE]
    /\ status' = [status EXCEPT ![j] = "active"]
    /\ orphans' = IF entry[j] THEN [orphans EXCEPT ![j] = @ + 1] ELSE orphans
    /\ entry' = [entry EXCEPT ![j] = TRUE]
    /\ UNCHANGED repaused

DisableJob(j) ==
    /\ Edit(j) /\ enabled[j]
    /\ enabled' = [enabled EXCEPT ![j] = FALSE]
    /\ status' = [status EXCEPT ![j] = "paused"]
    /\ entry' = [entry EXCEPT ![j] = FALSE]
    /\ UNCHANGED <<orphans, repaused>>

Delete(j) ==
    /\ Here(j)
    /\ known' = [known EXCEPT ![j] = "deleted"]
    /\ entry' = [entry EXCEPT ![j] = FALSE]
    /\ UNCHANGED <<service, home, enabled, status, orphans, executions, repaused, edits>>

(* reclaim.Managed stops the service, and with it the scheduler; the next  *)
(* call makes another.  The executions of the old one go on in its table.  *)
Reclaim ==
    /\ service < MaxServices /\ service' = service + 1
    /\ entry' = [j \in Job |-> FALSE]
    /\ orphans' = [j \in Job |-> 0]
    /\ UNCHANGED <<home, known, enabled, status, executions, repaused, edits>>

-----------------------------------------------------------------------------
(* Executions: a goroutine of the scheduler, or of Trigger.                *)

Start(e, j) ==
    /\ exec[e] = "unused"
    /\ exec' = [exec EXCEPT ![e] = "waiting"]
    /\ of' = [of EXCEPT ![e] = j]
    /\ in' = [in EXCEPT ![e] = service]
    /\ UNCHANGED <<service, home, known, enabled, status, entry, orphans, panicked,
                   repaused, edits>>

Fire(e, j) == (entry[j] \/ orphans[j] > 0) /\ Start(e, j) /\ UNCHANGED triggered

Trigger(e, j) == Here(j) /\ Start(e, j) /\ triggered' = triggered \cup {e}

(* MUTANT: only an execution that returns gives its slot back.             *)
SlotsOfPanicsToo(s) ==
    {e \in Execution : exec[e] \in {"running", "panicked"} /\ in[e] = s}

(* The executions that hold a slot of the semaphore.                       *)
Slots(s) == {e \in Execution : exec[e] = "running" /\ in[e] = s}

(* MUTANT: off by one.                                                     *)
SlotFreeOneMore(s) == Cardinality(Slots(s)) <= MaxConcurrentJobs

SlotFree(s) == Cardinality(Slots(s)) < MaxConcurrentJobs

(* executeJob up to the handler.  The context of a service that was        *)
(* stopped is done, and select may take that or a free slot.               *)
Begin(e) ==
    LET j == of[e] IN
    /\ exec[e] = "waiting"
    /\ \/ /\ SlotFree(in[e])
          /\ IF known[j] = "live" /\ enabled[j]
             THEN /\ exec' = [exec EXCEPT ![e] = "running"]
                  /\ status' = [status EXCEPT ![j] = "running"]
             ELSE exec' = [exec EXCEPT ![e] = "ended"] /\ UNCHANGED status
       \/ /\ in[e] # service
          /\ exec' = [exec EXCEPT ![e] = "ended"] /\ UNCHANGED status
    /\ UNCHANGED <<service, home, known, enabled, entry, orphans, of, in, triggered,
                   panicked, repaused, edits>>

(* MUTANT: an execution that fails leaves the status alone.                *)
EndIfWell(e) ==
    /\ exec[e] = "running"
    /\ exec' = [exec EXCEPT ![e] = "ended"]
    /\ \E well \in BOOLEAN :
        status' = IF well THEN [status EXCEPT ![of[e]] = "active"] ELSE status
    /\ UNCHANGED <<service, home, known, enabled, entry, orphans, of, in, triggered,
                   panicked, repaused, edits>>

(* The handler returns, with an error or without.  The status is "active"  *)
(* then, also that of a job that was paused in the meantime.               *)
End(e) ==
    /\ exec[e] = "running"
    /\ exec' = [exec EXCEPT ![e] = "ended"]
    /\ status' = [status EXCEPT ![of[e]] = "active"]
    /\ UNCHANGED <<service, home, known, enabled, entry, orphans, of, in, triggered,
                   panicked, repaused, edits>>

(* The handler panics.  The scheduler recovers, and the deferred calls     *)
(* give the slot back; nothing else of the end happens.  Nobody recovers a *)
(* panic under Trigger: the process dies of it, and that is not modelled.  *)
Panic(e) ==
    /\ exec[e] = "running" /\ e \notin triggered
    /\ exec' = [exec EXCEPT ![e] = "panicked"]
    /\ panicked' = panicked \cup {of[e]}
    /\ UNCHANGED <<service, home, known, enabled, status, entry, orphans, of, in,
                   triggered, repaused, edits>>

-----------------------------------------------------------------------------
CronInit ==
    /\ service = 1 /\ edits = 0
    /\ home = [j \in Job |-> 0] /\ known = [j \in Job |-> "new"]
    /\ enabled = [j \in Job |-> FALSE] /\ status = [j \in Job |-> "active"]
    /\ entry = [j \in Job |-> FALSE] /\ orphans = [j \in Job |-> 0]
    /\ exec = [e \in Execution |-> "unused"]
    /\ of = [e \in Execution |-> CHOOSE j \in Job : TRUE]
    /\ in = [e \in Execution |-> 0]
    /\ triggered = {} /\ panicked = {} /\ repaused = {}

CronNext ==
    \/ \E j \in Job :
        \/ Create(j) \/ Update(j) \/ EnableJob(j) \/ DisableJob(j) \/ Delete(j)
        \/ \E e \in Execution : Fire(e, j) \/ Trigger(e, j)
    \/ Reclaim
    \/ \E e \in Execution : Begin(e) \/ End(e) \/ Panic(e)

(* Some execution that can get on does, and handlers end: their context    *)
(* has a deadline.  Which of several takes a free slot is left open.       *)
CronFairness ==
    /\ WF_cronVars(\E e \in Execution : Begin(e))
    /\ WF_cronVars(\E e \in Execution : End(e) \/ Panic(e))

CronSpec == CronInit /\ [][CronNext]_cronVars /\ CronFairness

-----------------------------------------------------------------------------
(* The types; and the executions of a service never exceed its slots.      *)
CronTypeOK ==
    /\ service \in 1 .. MaxServices /\ edits \in 0 .. MaxEdits
    /\ home \in [Job -> 0 .. MaxServices]
    /\ known \in [Job -> {"new", "live", "deleted"}]
    /\ enabled \in [Job -> BOOLEAN] /\ status \in [Job -> {"active", "paused", "running"}]
    /\ entry \in [Job -> BOOLEAN] /\ orphans \in [Job -> Nat]
    /\ exec \in [Execution -> {"unused", "waiting", "running", "ended", "panicked"}]
    /\ of \in [Execution -> Job] /\ in \in [Execution -> 0 .. MaxServices]
    /\ triggered \subseteq Execution /\ panicked \subseteq Job /\ repaused \subseteq Job
    /\ \A s \in 1 .. MaxServices :
        Cardinality({e \in Execution : exec[e] = "running" /\ in[e] = s})
            <= MaxConcurrentJobs

(* A job fires once a tick while it is enabled and never otherwise, in     *)
(* whatever order it is enabled, disabled, rescheduled and deleted: unless *)
(* it has been rescheduled while it was paused.                            *)
OneEntryPerJob ==
    \A j \in Job \ repaused :
        orphans[j] = 0 /\ entry[j] = (Here(j) /\ enabled[j])

(* A job that is shown as running has an execution that runs, also with    *)
(* several executions that overlap: unless a handler of it has panicked.   *)
RunningIsTrue ==
    \A j \in Job \ panicked :
        status[j] = "running" => \E e \in Execution : exec[e] = "running" /\ of[e] = j

(* Every execution comes to an end, however many wait for a slot and even  *)
(* if handlers panic or the service is reclaimed.                          *)
EveryExecutionEnds == <>[](\A e \in Execution : exec[e] \notin {"waiting", "running"})

(* A job that was created and neither paused nor deleted is scheduled.     *)
ActiveJobsAreScheduled == \A j \in Job : known[j] = "live" /\ enabled[j] => entry[j]
=============================================================================
