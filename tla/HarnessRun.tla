----------------------------- MODULE HarnessRun -----------------------------
(***************************************************************************)
(* The life of a harness run that the agent runner executes: a row in      *)
(* harness_runs (Controller), a row in agent_tasks (agent.Store) and a     *)
(* goroutine with a context (agent.Runner).  The run's status is a copy of *)
(* the task's, made by whoever asks: every event of the task and every Get *)
(* of the run reads the task row and stores what it read over the run.     *)
(*                                                                         *)
(* Top-level runs are submitted through the API.  A child is spawned by a  *)
(* tool call of its parent's goroutine, which may wait for it.  Cancel     *)
(* requests, readers, the task timeout, the recovery that startup runs in  *)
(* the background and a crash of the process interleave with all of that.  *)
(*                                                                         *)
(* Of a snapshot only the status is kept: the other fields, and the        *)
(* compare-and-set that stamps a missing start time (syncRun), never       *)
(* change it.                                                              *)
(***************************************************************************)
EXTENDS Integers, FiniteSets

CONSTANTS
    Top,            \* runs submitted through the API
    Child,          \* runs spawned by a tool call
    Parent,         \* the top-level run that spawns each child
    Cancels,        \* cancel requests for a run, each issued at most once
    Target,         \* the run each of them is for
    MaxConcurrent,  \* RunnerConfig.MaxConcurrent
    MaxCrashes,     \* bound: process crashes
    MaxFaults       \* bound: writes of a new run or its task that fail

ASSUME RunAssumption ==
    /\ Top \cap Child = {} /\ Parent \in [Child -> Top]
    /\ Target \in [Cancels -> Top \cup Child]
    /\ MaxConcurrent \in Nat \ {0}
    /\ MaxCrashes \in Nat /\ MaxFaults \in Nat

Run == Top \cup Child

LiveTask  == {"pending", "executing"}
EndedTask == {"completed", "failed", "cancelled"}
Status    == LiveTask \cup EndedTask \cup {"none"}

(* Whoever stores a task's status over its run: the call that starts the   *)
(* run, the task's goroutine through its events, and the readers.          *)
Syncer == {"call", "go", "read"}

VARIABLES
    run,      \* status in harness_runs ("none": no row)
    task,     \* status in agent_tasks
    running,  \* Runner.running: tasks whose cancel function is known
    stop,     \* the task context: live, cancelled or past its deadline
    call,     \* where the Submit or SpawnChild of each run is
    go,       \* where the goroutine of each task is
    waits,    \* children that their parent waits for, or will
    snap,     \* the status each syncer has read and not stored yet
    cancel,   \* where each cancel request is
    todo,     \* runs a cancel request still has to stop
    recovery, \* whether RecoverStaleTasks is still to come
    lost,     \* history: runs whose last write was dropped or never made
    misjudged,\* history: live tasks that recovery took for interrupted ones
    crashes, faults

vars == <<run, task, running, stop, call, go, waits, snap, cancel, todo,
          recovery, lost, misjudged, crashes, faults>>
request == <<cancel, todo>>
history == <<recovery, lost, misjudged, crashes, faults>>

CallPC   == {"unused", "spawn", "slot", "create", "refuse", "launch",
             "returned"}
GoPC     == {"none", "intake", "work", "spawn", "await", "cancelChild",
             "finish", "over", "exit", "done"}
CancelPC == {"unused", "stop", "write", "done"}
Nothing  == "nothing"

Idle(k, r)     == snap[k][r] = Nothing
GotoCall(r, l) == call' = [call EXCEPT ![r] = l]
GotoGo(r, l)   == go' = [go EXCEPT ![r] = l]

-----------------------------------------------------------------------------
(* Store.Update with the task's own context, which fails, unnoticed, when  *)
(* the context is done.                                                    *)
CtxWrite(r, s) == [task EXCEPT ![r] = IF stop[r] = "no" THEN s ELSE @]

(* MUTANT: cancelTask stores with the context that was just cancelled.     *)
(* Definitions marked MUTANT are plausible bugs of the definition that     *)
(* follows them; no specification uses them.                               *)
CancelledTaskCtx(r) == CtxWrite(r, "cancelled")

(* cancelTask and failTask store with a context of their own.              *)
CancelledTask(r) == [task EXCEPT ![r] = "cancelled"]
FailedTask(r)    == [task EXCEPT ![r] = "failed"]

(* MUTANT: SyncSnapshot does not touch a run that has ended.               *)
SyncedRunUnlessEnded(r, s) ==
    [run EXCEPT ![r] = IF @ \in EndedTask THEN @ ELSE s]

(* What SyncSnapshot stores for a snapshot with this status.               *)
SyncedRun(r, s) == [run EXCEPT ![r] = s]

(* MUTANT: RecoverStaleTasks without its status condition.                 *)
RecoveredTasksAll ==
    [r \in Run |-> IF task[r] # "none" THEN "failed" ELSE task[r]]

RecoveredTasks ==
    [r \in Run |-> IF task[r] \in LiveTask THEN "failed" ELSE task[r]]

(* MUTANT: the cancel function is not called.                              *)
StoppedNot(r) == stop

(* Runner.Cancel calls the cancel function of the task's context.          *)
Stopped(r) == [stop EXCEPT ![r] = IF @ = "no" THEN "cancelled" ELSE @]

-----------------------------------------------------------------------------
(* Driver.Sync: the task row is read, and what was read is later stored    *)
(* over the run.  A syncer does not go on before it has stored.  An event  *)
(* reads the row right after the write it reports: only recovery writes in *)
(* between, and what a reader then stores is what the event would store.   *)
Publish(k, r) == snap' = [snap EXCEPT ![k][r] = task'[r]]

(* Get and List of the API, and the polls of whoever waits for the run.    *)
Get(r) ==
    /\ run[r] # "none" /\ task[r] # "none"
    /\ \A q \in Run : Idle("read", q)
    /\ snap' = [snap EXCEPT !["read"][r] = task[r]]
    /\ UNCHANGED <<run, task, running, stop, call, go, waits, request, history>>

SyncWrite(k, r) ==
    /\ ~Idle(k, r)
    /\ snap' = [snap EXCEPT ![k][r] = Nothing]
    /\ run' = SyncedRun(r, snap[k][r])
    /\ UNCHANGED <<task, running, stop, call, go, waits, request, history>>

-----------------------------------------------------------------------------
(* Submit and SpawnChild.                                                  *)

Submit(r) ==
    /\ r \in Top /\ call[r] = "unused"
    /\ run' = [run EXCEPT ![r] = "pending"] /\ GotoCall(r, "slot")
    /\ UNCHANGED <<task, running, stop, go, waits, snap, request, history>>

(* A tool call of the parent's goroutine, refused once its context is      *)
(* done.  The parent may want to wait for the child.  The budget test,     *)
(* which the calls of one goroutine cannot race, is left out.              *)
ToolCall(c) ==
    LET p == Parent[c] IN
    /\ call[c] = "unused"
    /\ go[p] = "work" /\ Idle("go", p) /\ stop[p] = "no"
    /\ GotoCall(c, "spawn") /\ GotoGo(p, "spawn")
    /\ \E w \in {waits, waits \cup {c}} : waits' = w
    /\ UNCHANGED <<run, task, running, stop, snap, request, history>>

SpawnChild(c) ==
    /\ call[c] = "spawn"
    /\ run' = [run EXCEPT ![c] = "pending"] /\ GotoCall(c, "slot")
    /\ UNCHANGED <<task, running, stop, go, waits, snap, request, history>>

(* Between the row and the driver: a directory of the run cannot be made,  *)
(* and the row is deleted again.                                           *)
PrepareFails(r) ==
    /\ call[r] = "slot" /\ faults < MaxFaults
    /\ run' = [run EXCEPT ![r] = "none"] /\ GotoCall(r, "returned")
    /\ IF r \in Child THEN GotoGo(Parent[r], "work") ELSE UNCHANGED go
    /\ waits' = waits \ {r} /\ faults' = faults + 1
    /\ UNCHANGED <<task, running, stop, snap, request,
                   recovery, lost, misjudged, crashes>>

(* Or the event run_created cannot be stored: Submit returns an error and  *)
(* leaves the row as it is.  SpawnChild goes on without its events.        *)
EventFails(r) ==
    /\ r \in Top /\ call[r] = "slot" /\ faults < MaxFaults
    /\ lost' = lost \cup {r} /\ GotoCall(r, "returned")
    /\ faults' = faults + 1
    /\ UNCHANGED <<run, task, running, stop, go, waits, snap, request,
                   recovery, misjudged, crashes>>

SubmitFails(r) == PrepareFails(r) \/ EventFails(r)

(* waitForAvailableSlot: the rows that have not ended are counted here,    *)
(* and the row of this task is inserted later.                             *)
waitForAvailableSlot(r) ==
    /\ call[r] = "slot"
    /\ Cardinality({q \in Run : task[q] \in LiveTask}) < MaxConcurrent
    /\ GotoCall(r, "create")
    /\ UNCHANGED <<run, task, running, stop, go, waits, snap, request, history>>

(* The API request is gone: Submit stores "failed" with the request's own  *)
(* context, so nothing is stored.  A child's context is never cancelled.   *)
GiveUp(r) ==
    /\ r \in Top /\ call[r] \in {"slot", "create"}
    /\ lost' = lost \cup {r} /\ GotoCall(r, "returned")
    /\ UNCHANGED <<run, task, running, stop, go, waits, snap, request,
                   recovery, misjudged, crashes, faults>>

CreateFails(r) ==
    /\ call[r] = "create" /\ faults < MaxFaults
    /\ faults' = faults + 1 /\ GotoCall(r, "refuse")
    /\ UNCHANGED <<run, task, running, stop, go, waits, snap, request,
                   recovery, lost, misjudged, crashes>>

Refuse(r) ==
    /\ call[r] = "refuse"
    /\ run' = [run EXCEPT ![r] = "failed"] /\ GotoCall(r, "returned")
    /\ IF r \in Child THEN GotoGo(Parent[r], "work") ELSE UNCHANGED go
    /\ waits' = waits \ {r}
    /\ UNCHANGED <<task, running, stop, snap, request, history>>

CreateTask(r) ==
    /\ call[r] = "create"
    /\ task' = [task EXCEPT ![r] = "pending"]
    /\ GotoCall(r, "launch") /\ Publish("call", r)      \* event task_created
    /\ UNCHANGED <<run, running, stop, go, waits, request, history>>

(* From here a Cancel finds the task.  The Get that ends the call is one   *)
(* of the reads of the run.                                                *)
Launch(r) ==
    /\ call[r] = "launch" /\ Idle("call", r)
    /\ running' = running \cup {r}
    /\ go' = [q \in Run |-> IF q = r THEN "intake"
                ELSE IF r \notin Child THEN go[q]
                ELSE IF q # Parent[r] THEN go[q]
                ELSE IF r \in waits THEN "await" ELSE "work"]
    /\ GotoCall(r, "returned")
    /\ UNCHANGED <<run, task, stop, waits, snap, request, history>>

Start(r) ==
    \/ r \in Child /\ SpawnChild(r)
    \/ waitForAvailableSlot(r) \/ CreateTask(r) \/ CreateFails(r)
    \/ Refuse(r) \/ Launch(r)
    \/ SyncWrite("call", r)

-----------------------------------------------------------------------------
(* Runner.execute.                                                         *)

(* The transitions up to the execution of the plan, taken as one; the      *)
(* task's copy moves on whether or not it is stored.                       *)
Intake(r) ==
    /\ go[r] = "intake"
    /\ task' = CtxWrite(r, "executing")
    /\ GotoGo(r, "work") /\ Publish("go", r)
    /\ UNCHANGED <<run, running, stop, call, waits, request, history>>

(* Each step of the plan stores the task again.  That changes its status   *)
(* only after a recovery that took it for an interrupted one.              *)
Progress(r) ==
    /\ go[r] = "work" /\ Idle("go", r)
    /\ stop[r] = "no" /\ task[r] # "executing"
    /\ task' = CtxWrite(r, "executing") /\ Publish("go", r)
    /\ UNCHANGED <<run, running, stop, call, go, waits, request, history>>

End(r, newTask) ==
    /\ task' = newTask /\ GotoGo(r, "over") /\ Publish("go", r)
    /\ UNCHANGED <<run, running, stop, call, waits, request, history>>

(* One of the tests of ctx.Err between the phases.                         *)
cancelTask(r) ==
    /\ go[r] = "work" /\ Idle("go", r) /\ stop[r] # "no"
    /\ End(r, CancelledTask(r))

failTask(r) ==
    /\ go[r] = "work" /\ Idle("go", r) /\ stop[r] # "cancelled"
    /\ End(r, FailedTask(r))

(* The deferred recover stores the failure and publishes nothing.          *)
Panic(r) ==
    /\ go[r] = "work" /\ Idle("go", r)
    /\ task' = FailedTask(r) /\ GotoGo(r, "exit")
    /\ UNCHANGED <<run, running, stop, call, waits, snap, request, history>>

(* The last test of ctx.Err.                                               *)
LastCheck(r) ==
    /\ go[r] = "work" /\ Idle("go", r) /\ stop[r] = "no"
    /\ GotoGo(r, "finish")
    /\ UNCHANGED <<run, task, running, stop, call, waits, snap, request, history>>

Finish(r) ==
    /\ go[r] = "finish"
    /\ task' = CtxWrite(r, "completed")
    /\ lost' = IF stop[r] = "no" THEN lost ELSE lost \cup {r}
    /\ GotoGo(r, "over") /\ Publish("go", r)
    /\ UNCHANGED <<run, running, stop, call, waits, request,
                   recovery, misjudged, crashes, faults>>

(* MUTANT: the cancel function stays in Runner.running.                    *)
ExitStillKnown(r) ==
    /\ \/ go[r] = "over" /\ Idle("go", r)
       \/ go[r] = "exit"
    /\ GotoGo(r, "done")
    /\ UNCHANGED <<run, task, running, stop, call, waits, snap, request, history>>

Exit(r) ==
    /\ \/ go[r] = "over" /\ Idle("go", r)
       \/ go[r] = "exit"
    /\ running' = running \ {r} /\ GotoGo(r, "done")
    /\ UNCHANGED <<run, task, stop, call, waits, snap, request, history>>

(* waitForTerminal.                                                        *)
ChildEnded(c) ==
    /\ go[Parent[c]] = "await" /\ c \in waits /\ run[c] \in EndedTask
    /\ GotoGo(Parent[c], "work") /\ waits' = waits \ {c}
    /\ UNCHANGED <<run, task, running, stop, call, snap, request, history>>

(* The parent's context is done: the child is cancelled, if it still runs. *)
StopChild(c) ==
    /\ go[Parent[c]] = "await" /\ c \in waits /\ stop[Parent[c]] # "no"
    /\ IF c \in running
       THEN stop' = Stopped(c) /\ GotoGo(Parent[c], "cancelChild")
            /\ UNCHANGED waits
       ELSE GotoGo(Parent[c], "work") /\ waits' = waits \ {c} /\ UNCHANGED stop
    /\ UNCHANGED <<run, task, running, call, snap, request, history>>

StoreChild(c) ==
    /\ go[Parent[c]] = "cancelChild" /\ c \in waits
    /\ run' = [run EXCEPT ![c] = "cancelled"]
    /\ GotoGo(Parent[c], "work") /\ waits' = waits \ {c}
    /\ UNCHANGED <<task, running, stop, call, snap, request, history>>

Leave(r) == cancelTask(r) \/ failTask(r) \/ Panic(r) \/ LastCheck(r)

Execute(r) ==
    \/ Intake(r) \/ Progress(r) \/ Leave(r) \/ Finish(r) \/ Exit(r)
    \/ \E c \in Child : Parent[c] = r /\ (ChildEnded(c) \/ StopChild(c) \/ StoreChild(c))
    \/ SyncWrite("go", r)

-----------------------------------------------------------------------------
(* Controller.Cancel: the children first, their errors ignored, then the   *)
(* run.  A run whose task is not running is left as it is.                 *)
ListChildren(q) ==
    /\ cancel[q] = "unused" /\ run[Target[q]] # "none"
    /\ cancel' = [cancel EXCEPT ![q] = "stop"]
    /\ todo' = [todo EXCEPT ![q] = {Target[q]} \cup
                  {c \in Child : Parent[c] = Target[q] /\ run[c] # "none"}]
    /\ UNCHANGED <<run, task, running, stop, call, go, waits, snap, history>>

(* The run whose turn it is: the children in the order in which they are   *)
(* listed, the target last.                                                *)
Turn(q) == IF todo[q] = {Target[q]} THEN Target[q]
           ELSE CHOOSE r \in todo[q] : r # Target[q]

TurnOver(q) ==
    /\ todo' = [todo EXCEPT ![q] = @ \ {Turn(q)}]
    /\ cancel' = [cancel EXCEPT ![q] = IF Turn(q) = Target[q] THEN "done" ELSE "stop"]

CancelTask(q) ==
    /\ cancel[q] = "stop"
    /\ IF Turn(q) \in running
       THEN /\ stop' = Stopped(Turn(q))
            /\ cancel' = [cancel EXCEPT ![q] = "write"]
            /\ UNCHANGED todo
       ELSE TurnOver(q) /\ UNCHANGED stop
    /\ UNCHANGED <<run, task, running, call, go, waits, snap, history>>

StoreCancelled(q) ==
    /\ cancel[q] = "write"
    /\ run' = [run EXCEPT ![Turn(q)] = "cancelled"]
    /\ TurnOver(q)
    /\ UNCHANGED <<task, running, stop, call, go, waits, snap, history>>

Cancel(q) == ListChildren(q) \/ CancelTask(q) \/ StoreCancelled(q)

-----------------------------------------------------------------------------
(* The environment.                                                        *)

TaskTimeout(r) ==
    /\ r \in running /\ stop[r] = "no"
    /\ stop' = [stop EXCEPT ![r] = "expired"]
    /\ UNCHANGED <<run, task, running, call, go, waits, snap, request, history>>

(* Started in the background by every start of the process.                *)
RecoverStaleTasks ==
    /\ recovery = "due"
    /\ recovery' = "done" /\ task' = RecoveredTasks
    /\ misjudged' = misjudged \cup
         {r \in Run : task[r] \in LiveTask /\ (r \in running \/ call[r] = "launch")}
    /\ UNCHANGED <<run, running, stop, call, go, waits, snap, request,
                   lost, crashes, faults>>

Crash ==
    /\ crashes < MaxCrashes
    /\ crashes' = crashes + 1 /\ recovery' = "due"
    /\ lost' = lost \cup {r \in Run : run[r] # "none" /\ task[r] = "none"
                                      /\ call[r] # "returned"}
    /\ running' = {} /\ waits' = {}
    /\ call' = [r \in Run |-> IF call[r] = "unused" THEN "unused" ELSE "returned"]
    /\ go' = [r \in Run |-> IF go[r] = "none" THEN "none" ELSE "done"]
    /\ snap' = [k \in Syncer |-> [r \in Run |-> Nothing]]
    /\ cancel' = [q \in Cancels |-> IF cancel[q] = "unused" THEN "unused" ELSE "done"]
    /\ todo' = [q \in Cancels |-> {}]
    /\ UNCHANGED <<run, task, stop, misjudged, faults>>

-----------------------------------------------------------------------------
Init ==
    /\ run = [r \in Run |-> "none"] /\ task = [r \in Run |-> "none"]
    /\ running = {} /\ waits = {}
    /\ stop = [r \in Run |-> "no"]
    /\ call = [r \in Run |-> "unused"] /\ go = [r \in Run |-> "none"]
    /\ snap = [k \in Syncer |-> [r \in Run |-> Nothing]]
    /\ cancel = [q \in Cancels |-> "unused"] /\ todo = [q \in Cancels |-> {}]
    /\ recovery = "due" /\ lost = {} /\ misjudged = {}
    /\ crashes = 0 /\ faults = 0

Next ==
    \/ \E r \in Run :
         \/ Submit(r) \/ SubmitFails(r) \/ Start(r) \/ GiveUp(r)
         \/ Execute(r) \/ TaskTimeout(r)
         \/ Get(r) \/ SyncWrite("read", r)
    \/ \E c \in Child : ToolCall(c)
    \/ \E q \in Cancels : Cancel(q)
    \/ RecoverStaleTasks \/ Crash

Spec == Init /\ [][Next]_vars

(* Goroutines, readers and the task timer go on, and so does recovery; the *)
(* requests and tool calls come or do not come.                            *)
Fairness ==
    /\ \A r \in Run :
         /\ WF_vars(Start(r)) /\ WF_vars(Execute(r)) /\ WF_vars(TaskTimeout(r))
         /\ SF_vars(Get(r)) /\ WF_vars(SyncWrite("read", r))
    /\ \A q \in Cancels : WF_vars(CancelTask(q) \/ StoreCancelled(q))
    /\ WF_vars(RecoverStaleTasks)

FairSpec == Spec /\ Fairness

-----------------------------------------------------------------------------
(* The types; and a cancel function is known exactly while the goroutine   *)
(* that it stops lives.                                                    *)
TypeOK ==
    /\ run \in [Run -> Status] /\ task \in [Run -> Status]
    /\ running = {r \in Run : go[r] \notin {"none", "done"}}
    /\ waits \in SUBSET Child
    /\ stop \in [Run -> {"no", "cancelled", "expired"}]
    /\ call \in [Run -> CallPC] /\ go \in [Run -> GoPC]
    /\ snap \in [Syncer -> [Run -> Status \cup {Nothing}]]
    /\ cancel \in [Cancels -> CancelPC] /\ todo \in [Cancels -> SUBSET Run]
    /\ recovery \in {"due", "done"}
    /\ lost \in SUBSET Run /\ misjudged \in SUBSET Run
    /\ crashes \in 0 .. MaxCrashes /\ faults \in 0 .. MaxFaults

(* Nobody is told that a run completed unless its task did, whatever stale *)
(* snapshot, cancellation or recovery came before or comes after.          *)
CompletedIsTrue ==
    \A r \in Run : run[r] = "completed" => task[r] = "completed"

(* A parent that waits for its child does not go on while the child runs   *)
(* undisturbed: the child has ended, or was told to stop.  Only a recovery *)
(* that comes late makes a live child look ended.                          *)
NoWorkerLeftBehind ==
    [][\A c \in Child : c \in waits /\ c \notin waits' =>
         \/ task'[c] \in EndedTask \cup {"none"} \/ stop'[c] # "no"
         \/ c \in misjudged \/ crashes' # crashes]_vars

(* Readers end up with the truth: once the task has ended, the run gets    *)
(* and keeps its status, also when a cancellation overwrote it.            *)
RunsTellTheTruth ==
    <>[](\A r \in Run : task[r] \in EndedTask => run[r] = task[r])

(* Every run ends, unless its last write was dropped: the request that     *)
(* submitted it is gone, its first event could not be stored, the process  *)
(* crashed before the task existed, or the task was stopped between its    *)
(* last check and its last write.  Then the task is live for ever and      *)
(* keeps its slot.                                                         *)
OnlyLostWritesStrand ==
    <>[](\A r \in Run : run[r] \in LiveTask => r \in lost)

(* A tool call whose caller is cancelled comes back, also when it waits    *)
(* for the slot of the child that it spawns.                               *)
CancelledCallerReturns ==
    \A c \in Child : call[c] = "slot" /\ stop[Parent[c]] = "cancelled" ~> call[c] # "slot"
=============================================================================
