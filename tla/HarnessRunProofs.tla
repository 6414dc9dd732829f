--------------------------- MODULE HarnessRunProofs ---------------------------
(***************************************************************************)
(* Theorems about HarnessRun for any number of runs, children, cancel      *)
(* requests, slots, crashes and faults.                                    *)
(*                                                                         *)
(* CompletedIsTrue holds because a completed task stays completed: nobody  *)
(* writes it any more but its goroutine, which is over.  For the action    *)
(* property NoWorkerLeftBehind the invariant says who is at rest (AtRest): *)
(* a run that anybody was told had ended, and a child whose goroutine has  *)
(* made its last write while its parent waits.                             *)
(***************************************************************************)
EXTENDS HarnessRun, TLAPS

(* The call has begun and the goroutine is not started yet.                *)
Active == {"spawn", "slot", "create", "refuse", "launch"}

(* The parent of a child in that state waits for the call, and only for it.*)
OneToolCall ==
    \A c \in Child : call[c] \in Active =>
        /\ go[Parent[c]] = "spawn"
        /\ \A d \in Child : call[d] \in Active /\ Parent[d] = Parent[c] => d = c

(* There is no goroutine before Launch and no task before CreateTask.      *)
Fresh ==
    \A r \in Run :
        /\ call[r] # "returned" => go[r] = "none"
        /\ call[r] \notin {"launch", "returned"} => task[r] = "none"
        /\ call[r] = "launch" \/ go[r] # "none" => task[r] # "none"

(* A task that has completed has no goroutine that still writes it.        *)
CompletedIsOver ==
    \A r \in Run : task[r] = "completed" => go[r] \in {"over", "done"}

(* Every copy of "completed" is true.                                      *)
CompletedTold ==
    \A r \in Run : \A k \in Syncer : snap[k][r] = "completed" => task[r] = "completed"

(* Only recovery ends a task whose goroutine has not ended it.             *)
Undisturbed ==
    \A r \in Run :
        task[r] \in EndedTask /\ (call[r] = "launch" \/ go[r] \notin {"none", "over", "exit", "done"})
            => r \in misjudged

(* The run's task has ended, will never exist, or was told to stop.        *)
AtRest(r) ==
    \/ task[r] \in EndedTask
    \/ task[r] = "none" /\ call[r] = "returned"
    \/ stop[r] # "no"
    \/ r \in misjudged

(* Whoever is told that a run has ended is told of one at rest.            *)
EndTold ==
    \A r \in Run :
        /\ run[r] \in EndedTask => AtRest(r)
        /\ \A k \in Syncer : snap[k][r] \in EndedTask => AtRest(r)

(* A parent waits for one child at a time, and for one that was launched.  *)
Waiting ==
    \A c \in waits :
        /\ go[Parent[c]] \in {"spawn", "await", "cancelChild"}
        /\ go[Parent[c]] = "spawn" => call[c] \in Active
        /\ go[Parent[c]] # "spawn" => call[c] = "returned" /\ go[c] # "none"
        /\ go[Parent[c]] = "cancelChild" => stop[c] # "no"
        /\ go[c] \in {"over", "exit", "done"} => AtRest(c)
        /\ \A d \in waits : Parent[d] = Parent[c] => d = c

(* A cancel request ends with its target, and writes only over what it     *)
(* has stopped.                                                            *)
Cancelling ==
    \A q \in Cancels :
        /\ cancel[q] \in {"stop", "write"} => Target[q] \in todo[q]
        /\ cancel[q] = "write" => stop[Turn(q)] # "no"

TaskInv == TypeOK /\ OneToolCall /\ Fresh /\ CompletedIsOver
RunInv ==
    /\ TaskInv /\ CompletedTold /\ CompletedIsTrue
    /\ Undisturbed /\ EndTold /\ Waiting /\ Cancelling

-----------------------------------------------------------------------------
LEMMA RunInitInv == Init => RunInv
<1> SUFFICES ASSUME Init PROVE RunInv
  OBVIOUS
<1> USE DEF Init, Status, LiveTask, EndedTask, Nothing
<1>1. TypeOK
  BY RunAssumption DEF TypeOK, CallPC, GoPC, CancelPC
<1>2. OneToolCall /\ Fresh /\ CompletedIsOver
  BY DEF OneToolCall, Fresh, CompletedIsOver, Active, Run
<1>3. CompletedTold /\ CompletedIsTrue /\ Undisturbed /\ EndTold /\ Waiting
  BY DEF CompletedTold, CompletedIsTrue, Undisturbed, EndTold, Waiting
<1>4. Cancelling
  BY DEF Cancelling
<1> QED
  BY <1>1, <1>2, <1>3, <1>4 DEF RunInv, TaskInv

(* The runs and the parents.                                               *)
LEMMA Runs ==
    /\ \A r \in Top : r \in Run /\ r \notin Child
    /\ \A c \in Child : c \in Run /\ Parent[c] \in Run /\ Parent[c] \notin Child
    /\ \A q \in Cancels : Target[q] \in Run
  BY RunAssumption DEF Run

-----------------------------------------------------------------------------
(* The types.                                                              *)

LEMMA CallTypes ==
    ASSUME TaskInv, NEW r \in Run,
           Submit(r) \/ Start(r) \/ GiveUp(r) \/ SubmitFails(r) \/ TaskTimeout(r)
           \/ Get(r) \/ SyncWrite("read", r)
    PROVE  TypeOK'
<1> USE RunAssumption, Runs DEF TaskInv, TypeOK, CallPC, GoPC, Status, LiveTask, EndedTask,
        request, history, GotoCall, GotoGo, Publish
<1>1. CASE Submit(r) \/ waitForAvailableSlot(r) \/ SpawnChild(r)
  BY <1>1, SMTT(30) DEF Submit, waitForAvailableSlot, SpawnChild
<1>2. CASE GiveUp(r) \/ EventFails(r) \/ CreateFails(r)
  BY <1>2, SMTT(30) DEF GiveUp, EventFails, CreateFails
<1>3. CASE CreateTask(r)
  BY <1>3 DEF CreateTask, Syncer
<1>4. CASE Refuse(r)
  BY <1>4 DEF Refuse, OneToolCall, Active
<1>5. CASE Launch(r)
  BY <1>5 DEF Launch, OneToolCall, Active
<1>6. CASE TaskTimeout(r)
  BY <1>6 DEF TaskTimeout
<1>7. CASE Get(r)
  BY <1>7 DEF Get
<1>8. ASSUME NEW k \in Syncer, SyncWrite(k, r) PROVE TypeOK'
  BY <1>8 DEF SyncWrite, SyncedRun, Idle
<1>9. CASE PrepareFails(r)
  <2>1. /\ r \in Child => /\ go[Parent[r]] = "spawn" /\ go' = [go EXCEPT ![Parent[r]] = "work"]
        /\ r \notin Child => go' = go
        /\ run' = [run EXCEPT ![r] = "none"] /\ call' = [call EXCEPT ![r] = "returned"]
        /\ waits' = waits \ {r} /\ faults < MaxFaults /\ faults' = faults + 1
        /\ UNCHANGED <<task, running, stop, snap, request, recovery, lost, misjudged,
                       crashes>>
    BY <1>9 DEF PrepareFails, OneToolCall, Active
  <2>2. {q \in Run : go'[q] \notin {"none", "done"}}
          = {q \in Run : go[q] \notin {"none", "done"}}
    BY <2>1
  <2> QED
    BY <2>1, <2>2, SMTT(30)
<1> QED
  BY <1>1, <1>2, <1>3, <1>4, <1>5, <1>6, <1>7, <1>8, <1>9 DEF Start, SubmitFails, Syncer

LEMMA GoTypes ==
    ASSUME TaskInv, NEW r \in Run, Execute(r)
    PROVE  TypeOK'
<1> USE RunAssumption, Runs DEF TaskInv, TypeOK, CallPC, GoPC, Status, LiveTask, EndedTask,
        request, history, GotoCall, GotoGo, Publish, CtxWrite, CancelledTask, FailedTask
<1>1. CASE Intake(r) \/ Progress(r)
  <2>1. task' \in [Run -> Status]
    BY <1>1 DEF Intake, Progress
  <2>2. snap' \in [Syncer -> [Run -> Status \cup {Nothing}]]
    BY <1>1, <2>1, SMTT(30) DEF Intake, Progress
  <2> QED
    BY <1>1, <2>1, <2>2, SMTT(30) DEF Intake, Progress
<1>2. CASE cancelTask(r) \/ failTask(r)
  <2>1. task' \in [Run -> Status]
    BY <1>2 DEF cancelTask, failTask, End
  <2>2. snap' \in [Syncer -> [Run -> Status \cup {Nothing}]]
    BY <1>2, <2>1 DEF cancelTask, failTask, End
  <2> QED
    BY <1>2, <2>1, <2>2, SMTT(30) DEF cancelTask, failTask, End
<1>3. CASE Panic(r) \/ LastCheck(r)
  BY <1>3, SMTT(30) DEF Panic, LastCheck
<1>4. CASE Finish(r)
  BY <1>4, ZenonT(60) DEF Finish
<1>5. CASE Exit(r)
  BY <1>5 DEF Exit
<1>6. ASSUME NEW c \in Child, ChildEnded(c) \/ StopChild(c) \/ StoreChild(c) PROVE TypeOK'
  <2>1. /\ \/ go' = [go EXCEPT ![Parent[c]] = "work"]
           \/ go' = [go EXCEPT ![Parent[c]] = "cancelChild"]
        /\ go[Parent[c]] \in {"await", "cancelChild"} /\ running' = running
    BY <1>6 DEF ChildEnded, StopChild, StoreChild
  <2>2. running' = {q \in Run : go'[q] \notin {"none", "done"}} /\ go' \in [Run -> GoPC]
    BY <2>1
  <2>3. CASE ChildEnded(c)
    BY <2>2, <2>3 DEF ChildEnded
  <2>4. CASE StopChild(c)
    <3>1. stop' \in [Run -> {"no", "cancelled", "expired"}] /\ waits' \in SUBSET Child
      BY <2>4 DEF StopChild, Stopped
    <3> QED
      BY <2>2, <2>4, <3>1 DEF StopChild
  <2>5. CASE StoreChild(c)
    BY <2>2, <2>5 DEF StoreChild
  <2> QED
    BY <1>6, <2>3, <2>4, <2>5
<1>7. CASE SyncWrite("go", r)
  <2>1. "go" \in Syncer
    BY DEF Syncer
  <2> QED
    BY <1>7, <2>1 DEF SyncWrite, SyncedRun, Idle
<1> QED
  BY <1>1, <1>2, <1>3, <1>4, <1>5, <1>6, <1>7 DEF Execute, Leave

LEMMA TurnIsRun ==
    ASSUME TypeOK, Cancelling, NEW q \in Cancels, cancel[q] \in {"stop", "write"}
    PROVE  Turn(q) \in todo[q] /\ Turn(q) \in Run
  BY DEF TypeOK, Cancelling, Turn

LEMMA RequestTypes ==
    ASSUME TaskInv, Cancelling,
           \/ \E c \in Child : ToolCall(c)
           \/ \E q \in Cancels : Cancel(q)
           \/ RecoverStaleTasks \/ Crash
    PROVE  TypeOK'
<1> USE RunAssumption, Runs DEF TaskInv, TypeOK, CallPC, GoPC, CancelPC, Status, LiveTask,
        EndedTask, request, history, GotoCall, GotoGo
<1>1. ASSUME NEW c \in Child, ToolCall(c) PROVE TypeOK'
  BY <1>1 DEF ToolCall
<1>2. ASSUME NEW q \in Cancels, ListChildren(q) PROVE TypeOK'
  BY <1>2 DEF ListChildren
<1>3. ASSUME NEW q \in Cancels, CancelTask(q) PROVE TypeOK'
  BY <1>3, TurnIsRun, SMTT(30) DEF CancelTask, TurnOver, Stopped
<1>4. ASSUME NEW q \in Cancels, StoreCancelled(q) PROVE TypeOK'
  BY <1>4, TurnIsRun DEF StoreCancelled, TurnOver
<1>5. CASE RecoverStaleTasks
  BY <1>5 DEF RecoverStaleTasks, RecoveredTasks
<1>6. CASE Crash
  BY <1>6 DEF Crash, Syncer
<1> QED
  BY <1>1, <1>2, <1>3, <1>4, <1>5, <1>6 DEF Cancel

LEMMA Types == TaskInv /\ Cancelling /\ [Next]_vars => TypeOK'
<1>1. ASSUME TaskInv, UNCHANGED vars PROVE TypeOK'
  BY <1>1 DEF TaskInv, TypeOK, vars
<1> QED
  BY <1>1, CallTypes, GoTypes, RequestTypes DEF Next

-----------------------------------------------------------------------------
(* The calls, the goroutines and the tasks.                                *)

(* What starts a run.                                                      *)
LEMMA CallOrder ==
    ASSUME TaskInv, TypeOK', NEW r \in Run,
           Submit(r) \/ Start(r) \/ GiveUp(r) \/ SubmitFails(r) \/ (r \in Child /\ ToolCall(r))
    PROVE  (OneToolCall /\ Fresh /\ CompletedIsOver)'
<1> USE RunAssumption, Runs DEF TaskInv, TypeOK, OneToolCall, Fresh, CompletedIsOver,
        GotoCall, GotoGo, Active
<1>1. CASE Submit(r) \/ waitForAvailableSlot(r) \/ GiveUp(r) \/ EventFails(r) \/ CreateFails(r)
  BY <1>1 DEF Submit, waitForAvailableSlot, GiveUp, EventFails, CreateFails
<1>2. CASE r \in Child /\ SpawnChild(r)
  BY <1>2 DEF SpawnChild
<1>3. CASE r \in Child /\ ToolCall(r)
  BY <1>3 DEF ToolCall
<1>4. CASE CreateTask(r)
  BY <1>4 DEF CreateTask
<1>5. CASE Refuse(r) \/ PrepareFails(r)
  BY <1>5, SMTT(30) DEF Refuse, PrepareFails
<1>6. CASE Launch(r)
  BY <1>6 DEF Launch
<1>7. ASSUME SyncWrite("call", r) PROVE (OneToolCall /\ Fresh /\ CompletedIsOver)'
  BY <1>7 DEF SyncWrite
<1> QED
  BY <1>1, <1>2, <1>3, <1>4, <1>5, <1>6, <1>7 DEF Start, SubmitFails

(* What a goroutine does.                                                  *)
LEMMA GoOrder ==
    ASSUME TaskInv, TypeOK', NEW r \in Run, Execute(r)
    PROVE  (OneToolCall /\ Fresh /\ CompletedIsOver)'
<1> USE RunAssumption, Runs DEF TaskInv, TypeOK, OneToolCall, Fresh, CompletedIsOver,
        GotoGo, Active, CtxWrite, CancelledTask, FailedTask
<1>1. CASE Intake(r)
  BY <1>1 DEF Intake
<1>2. CASE Progress(r)
  BY <1>2 DEF Progress
<1>3. CASE cancelTask(r) \/ failTask(r)
  <2>1. /\ go' = [go EXCEPT ![r] = "over"] /\ go[r] = "work" /\ call' = call
        /\ \A q \in Run : task'[q] = task[q] \/ (q = r /\ task'[q] \in {"cancelled", "failed"})
    BY <1>3 DEF cancelTask, failTask, End
  <2>2. go'[r] = "over" /\ \A q \in Run \ {r} : go'[q] = go[q] /\ task'[q] = task[q]
    BY <2>1, SMTT(30)
  <2>3. OneToolCall'
    BY <2>1, <2>2, SMTT(30)
  <2>4. Fresh'
    BY <2>1, <2>2, SMTT(30)
  <2>5. CompletedIsOver'
    BY <2>1, <2>2
  <2> QED
    BY <2>3, <2>4, <2>5
<1>4. CASE Panic(r)
  BY <1>4 DEF Panic
<1>5. CASE LastCheck(r) \/ Exit(r)
  BY <1>5 DEF LastCheck, Exit
<1>6. CASE Finish(r)
  <2>1. /\ go' = [go EXCEPT ![r] = "over"] /\ go[r] = "finish" /\ call' = call
        /\ \A q \in Run : task'[q] = task[q] \/ (q = r /\ task'[q] = "completed")
    BY <1>6 DEF Finish
  <2> QED
    BY <2>1
<1>7. ASSUME NEW c \in Child, ChildEnded(c) \/ StopChild(c) \/ StoreChild(c)
      PROVE  (OneToolCall /\ Fresh /\ CompletedIsOver)'
  BY <1>7 DEF ChildEnded, StopChild, StoreChild
<1>8. ASSUME SyncWrite("go", r) PROVE (OneToolCall /\ Fresh /\ CompletedIsOver)'
  BY <1>8 DEF SyncWrite
<1> QED
  BY <1>1, <1>2, <1>3, <1>4, <1>5, <1>6, <1>7, <1>8 DEF Execute, Leave

LEMMA TaskStep == TaskInv /\ Cancelling /\ [Next]_vars => TaskInv'
<1> SUFFICES ASSUME TaskInv, Cancelling, [Next]_vars
             PROVE  (OneToolCall /\ Fresh /\ CompletedIsOver)'
  BY Types DEF TaskInv
<1> DEFINE Ordered == OneToolCall /\ Fresh /\ CompletedIsOver
<1>0. TypeOK'
  BY Types
<1>1. ASSUME UNCHANGED <<call, go, task>> PROVE Ordered'
  BY <1>1 DEF TaskInv, TypeOK, OneToolCall, Fresh, CompletedIsOver, Active
<1>2. ASSUME RecoverStaleTasks PROVE Ordered'
  BY <1>2 DEF RecoverStaleTasks, RecoveredTasks, LiveTask, TaskInv, TypeOK, OneToolCall,
         Fresh, CompletedIsOver, Active
<1>3. ASSUME Crash PROVE Ordered'
  <2>1. \A r \in Run :
           /\ call'[r] = IF call[r] = "unused" THEN "unused" ELSE "returned"
           /\ go'[r] = IF go[r] = "none" THEN "none" ELSE "done"
           /\ task'[r] = task[r]
    BY <1>3 DEF Crash
  <2> QED
    BY <2>1, Runs DEF TaskInv, OneToolCall, Fresh, CompletedIsOver, Active
<1>4. ASSUME NEW r \in Run, TaskTimeout(r) \/ Get(r) \/ SyncWrite("read", r)
      PROVE  Ordered'
  BY <1>1, <1>4 DEF TaskTimeout, Get, SyncWrite
<1>5. ASSUME NEW q \in Cancels, Cancel(q) PROVE Ordered'
  BY <1>1, <1>5 DEF Cancel, ListChildren, CancelTask, StoreCancelled
<1>6. ASSUME NEW r \in Run,
             Submit(r) \/ Start(r) \/ GiveUp(r) \/ SubmitFails(r) \/ Execute(r)
             \/ (r \in Child /\ ToolCall(r))
      PROVE  Ordered'
  BY <1>0, <1>6, CallOrder, GoOrder
<1>7. ASSUME UNCHANGED vars PROVE Ordered'
  BY <1>1, <1>7 DEF vars
<1>8. ASSUME Next PROVE Ordered'
  <2> HIDE DEF Ordered
  <2>1. \A c \in Child : c \in Run
    BY Runs
  <2> QED
    BY <1>2, <1>3, <1>4, <1>5, <1>6, <1>8, <2>1 DEF Next
<1> QED
  BY <1>7, <1>8

-----------------------------------------------------------------------------
(* Who writes the task, the run and the copies.                            *)

(* What one step may do to the task of r.                                  *)
TaskWritten(r) ==
    \/ task'[r] = task[r]
    \/ call[r] = "create" /\ task'[r] = "pending"
    \/ go[r] \in {"intake", "work"} /\ stop[r] = "no" /\ task'[r] = "executing"
    \/ go[r] = "work" /\ task'[r] \in {"cancelled", "failed"} /\ go'[r] \in {"over", "exit"}
    \/ go[r] = "finish" /\ stop[r] = "no" /\ task'[r] = "completed" /\ go'[r] = "over"
    \/ task[r] \in LiveTask /\ task'[r] = "failed"
       /\ (go[r] \notin {"none", "done"} \/ call[r] = "launch" => r \in misjudged')

LEMMA TaskWrites == TaskInv /\ [Next]_vars => \A r \in Run : TaskWritten(r)
<1> SUFFICES ASSUME TaskInv, [Next]_vars, NEW r \in Run PROVE TaskWritten(r)
  OBVIOUS
<1> USE DEF TaskInv, TypeOK
<1>1. ASSUME UNCHANGED task PROVE TaskWritten(r)
  BY <1>1 DEF TaskWritten
<1>2. ASSUME NEW q \in Run, CreateTask(q) PROVE TaskWritten(r)
  BY <1>2 DEF CreateTask, TaskWritten
<1>3. ASSUME NEW q \in Run, Intake(q) \/ Progress(q) PROVE TaskWritten(r)
  BY <1>3 DEF Intake, Progress, CtxWrite, TaskWritten
<1>4. ASSUME NEW q \in Run, cancelTask(q) \/ failTask(q) \/ Panic(q) PROVE TaskWritten(r)
  BY <1>4 DEF cancelTask, failTask, Panic, End, GotoGo, CancelledTask, FailedTask, TaskWritten
<1>5. ASSUME NEW q \in Run, Finish(q) PROVE TaskWritten(r)
  BY <1>5 DEF Finish, GotoGo, CtxWrite, TaskWritten
<1>6. ASSUME RecoverStaleTasks PROVE TaskWritten(r)
  BY <1>6 DEF RecoverStaleTasks, RecoveredTasks, TaskWritten
<1>7. ASSUME NEW q \in Run,
             \/ Submit(q) \/ GiveUp(q) \/ EventFails(q) \/ TaskTimeout(q) \/ Get(q)
             \/ \E k \in Syncer : SyncWrite(k, q)
             \/ SpawnChild(q) \/ waitForAvailableSlot(q) \/ CreateFails(q)
             \/ Refuse(q) \/ PrepareFails(q) \/ Launch(q) \/ LastCheck(q) \/ Exit(q)
      PROVE  UNCHANGED task
  BY <1>7 DEF Submit, GiveUp, EventFails, TaskTimeout, Get, SyncWrite, SpawnChild,
         waitForAvailableSlot, CreateFails, Refuse, PrepareFails, Launch, LastCheck,
         Exit
<1>8. ASSUME NEW c \in Child, ToolCall(c) \/ ChildEnded(c) \/ StopChild(c) \/ StoreChild(c)
      PROVE  UNCHANGED task
  BY <1>8 DEF ToolCall, ChildEnded, StopChild, StoreChild
<1>9. ASSUME Crash \/ (\E q \in Cancels : Cancel(q)) \/ UNCHANGED vars PROVE UNCHANGED task
  BY <1>9 DEF Crash, Cancel, ListChildren, CancelTask, StoreCancelled, vars
<1> HIDE DEF TaskInv, TypeOK
<1>10. ASSUME NEW q \in Run, Start(q) PROVE TaskWritten(r)
  BY <1>1, <1>2, <1>7, <1>10 DEF Start, Syncer
<1>11. ASSUME NEW q \in Run, Execute(q) PROVE TaskWritten(r)
  BY <1>1, <1>3, <1>4, <1>5, <1>7, <1>8, <1>11 DEF Execute, Leave, Syncer
<1> QED
  BY <1>1, <1>6, <1>7, <1>8, <1>9, <1>10, <1>11 DEF Next, SubmitFails, Syncer

(* A context once done stays done, a call that has returned is over, and   *)
(* what recovery has misjudged stays known.                                *)
Onward(r) ==
    /\ stop[r] # "no" => stop'[r] # "no"
    /\ call[r] = "returned" => call'[r] = "returned"
    /\ r \in misjudged => r \in misjudged'

LEMMA AllOnward == TaskInv /\ [Next]_vars => \A r \in Run : Onward(r)
<1> SUFFICES ASSUME TaskInv, [Next]_vars, NEW r \in Run PROVE Onward(r)
  OBVIOUS
<1> USE DEF TaskInv, TypeOK
<1>1. ASSUME UNCHANGED <<stop, call, misjudged>> PROVE Onward(r)
  BY <1>1 DEF Onward
<1>2. ASSUME NEW q \in Run,
             \/ Submit(q) \/ GiveUp(q) \/ EventFails(q) \/ SpawnChild(q)
             \/ waitForAvailableSlot(q)
             \/ CreateFails(q) \/ Refuse(q) \/ PrepareFails(q) \/ CreateTask(q) \/ Launch(q)
      PROVE  Onward(r)
  <2>1. UNCHANGED <<stop, misjudged>> /\ call[q] # "returned"
        /\ \E l \in CallPC : GotoCall(q, l)
    BY <1>2 DEF Submit, GiveUp, EventFails, SpawnChild, waitForAvailableSlot,
           CreateFails, Refuse, PrepareFails, CreateTask, Launch, history, CallPC
  <2> QED
    BY <2>1 DEF GotoCall, Onward
<1>3. ASSUME NEW c \in Child, ToolCall(c) PROVE Onward(r)
  BY <1>3 DEF ToolCall, GotoCall, history, Onward
<1>4. ASSUME NEW c \in Child, StopChild(c) PROVE Onward(r)
  BY <1>4 DEF StopChild, Stopped, history, Onward
<1>5. ASSUME NEW q \in Cancels, CancelTask(q) PROVE Onward(r)
  BY <1>5 DEF CancelTask, Stopped, history, Onward
<1>6. ASSUME NEW q \in Run, TaskTimeout(q) PROVE Onward(r)
  BY <1>6 DEF TaskTimeout, history, Onward
<1>7. ASSUME RecoverStaleTasks \/ Crash PROVE Onward(r)
  BY <1>7 DEF RecoverStaleTasks, Crash, Onward
<1>8. ASSUME NEW q \in Run,
             \/ Get(q) \/ \E k \in Syncer : SyncWrite(k, q)
             \/ Intake(q) \/ Progress(q) \/ Leave(q) \/ Finish(q) \/ Exit(q)
      PROVE  UNCHANGED <<stop, call, misjudged>>
  BY <1>8 DEF Get, SyncWrite, Intake, Progress, Leave, cancelTask, failTask, End, Panic,
         LastCheck, Finish, Exit, history
<1>9. ASSUME NEW c \in Child, ChildEnded(c) \/ StoreChild(c)
      PROVE  UNCHANGED <<stop, call, misjudged>>
  BY <1>9 DEF ChildEnded, StoreChild, history
<1>10. ASSUME (\E q \in Cancels : ListChildren(q) \/ StoreCancelled(q)) \/ UNCHANGED vars
       PROVE  UNCHANGED <<stop, call, misjudged>>
  BY <1>10 DEF ListChildren, StoreCancelled, history, vars
<1> HIDE DEF TaskInv, TypeOK
<1>11. ASSUME NEW q \in Run, Start(q) \/ Execute(q) PROVE Onward(r)
  BY <1>1, <1>2, <1>4, <1>8, <1>9, <1>11 DEF Start, Execute, Syncer
<1> QED
  BY <1>1, <1>2, <1>3, <1>5, <1>6, <1>7, <1>8, <1>10, <1>11 DEF Next, SubmitFails,
         Cancel, Syncer

(* A task that has completed stays so, and a run at rest stays at rest.    *)
LEMMA CompletedStays ==
    ASSUME RunInv, [Next]_vars, NEW r \in Run, task[r] = "completed"
    PROVE  task'[r] = "completed"
  BY TaskWrites DEF RunInv, TaskInv, CompletedIsOver, Fresh, TaskWritten, LiveTask

LEMMA RestStays ==
    ASSUME RunInv, [Next]_vars, NEW r \in Run, AtRest(r)
    PROVE  AtRest(r)'
<1>1. TaskWritten(r) /\ Onward(r)
  BY TaskWrites, AllOnward DEF RunInv
<1> USE DEF RunInv, TaskInv, EndedTask, LiveTask, AtRest, Onward
<1>2. CASE stop[r] # "no" \/ r \in misjudged
  BY <1>1, <1>2
<1>3. CASE task[r] \in EndedTask /\ r \notin misjudged
  BY <1>1, <1>3 DEF TaskWritten, Undisturbed, Fresh
<1>4. CASE task[r] = "none" /\ call[r] = "returned"
  BY <1>1, <1>4 DEF TaskWritten, Fresh
<1> QED
  BY <1>2, <1>3, <1>4

-----------------------------------------------------------------------------
(* What is told of a run.                                                  *)

(* What one step may store over a run.                                     *)
RunWritten(r) ==
    \/ run'[r] \in {run[r], "pending", "none"}
    \/ \E k \in Syncer : run'[r] = snap[k][r]
    \/ run'[r] = "failed" /\ call[r] = "refuse" /\ call'[r] = "returned"
    \/ run'[r] = "cancelled" /\ stop[r] # "no"

LEMMA RunWrites == RunInv /\ [Next]_vars => \A r \in Run : RunWritten(r)
<1> SUFFICES ASSUME RunInv, [Next]_vars, NEW r \in Run PROVE RunWritten(r)
  OBVIOUS
<1>t. TypeOK /\ Cancelling
  BY DEF RunInv, TaskInv
<1> USE DEF TypeOK
<1>1. ASSUME UNCHANGED run PROVE RunWritten(r)
  BY <1>1 DEF RunWritten
<1>2. ASSUME NEW q \in Run, Submit(q) \/ SpawnChild(q) PROVE RunWritten(r)
  BY <1>t, <1>2 DEF Submit, SpawnChild, RunWritten
<1>3. ASSUME NEW q \in Run, NEW k \in Syncer, SyncWrite(k, q) PROVE RunWritten(r)
  BY <1>t, <1>3 DEF SyncWrite, SyncedRun, RunWritten
<1>4. ASSUME NEW q \in Run, Refuse(q) \/ PrepareFails(q) PROVE RunWritten(r)
  BY <1>t, <1>4 DEF Refuse, PrepareFails, GotoCall, RunWritten
<1>5. ASSUME NEW c \in Child, StoreChild(c) PROVE RunWritten(r)
  BY <1>t, <1>5, Runs DEF StoreChild, RunWritten, RunInv, Waiting
<1>6. ASSUME NEW q \in Cancels, StoreCancelled(q) PROVE RunWritten(r)
  BY <1>t, <1>6, TurnIsRun DEF StoreCancelled, RunWritten, Cancelling
<1>7. ASSUME NEW q \in Run,
             \/ GiveUp(q) \/ EventFails(q) \/ TaskTimeout(q) \/ Get(q)
             \/ waitForAvailableSlot(q)
             \/ CreateTask(q) \/ CreateFails(q) \/ Launch(q)
             \/ Intake(q) \/ Progress(q) \/ Leave(q) \/ Finish(q) \/ Exit(q)
      PROVE  UNCHANGED run
  BY <1>7 DEF GiveUp, EventFails, TaskTimeout, Get, waitForAvailableSlot, CreateTask,
         CreateFails, Launch, Intake, Progress, Leave, cancelTask, failTask, End, Panic,
         LastCheck, Finish, Exit
<1>8. ASSUME NEW c \in Child, ToolCall(c) \/ ChildEnded(c) \/ StopChild(c)
      PROVE  UNCHANGED run
  BY <1>8 DEF ToolCall, ChildEnded, StopChild
<1>9. ASSUME \/ RecoverStaleTasks \/ Crash \/ UNCHANGED vars
             \/ \E q \in Cancels : ListChildren(q) \/ CancelTask(q)
      PROVE  UNCHANGED run
  BY <1>9 DEF RecoverStaleTasks, Crash, ListChildren, CancelTask, vars
<1>10. ASSUME NEW q \in Run, Start(q) \/ Execute(q) PROVE RunWritten(r)
  BY <1>1, <1>2, <1>3, <1>4, <1>5, <1>7, <1>8, <1>10 DEF Start, Execute, Syncer
<1> QED
  BY <1>1, <1>2, <1>3, <1>4, <1>6, <1>7, <1>8, <1>9, <1>10
     DEF Next, SubmitFails, Cancel, Syncer

(* What one step may leave in the hands of a syncer.                       *)
LEMMA SnapWrites ==
    RunInv /\ [Next]_vars =>
        \A r \in Run : \A k \in Syncer : snap'[k][r] \in {snap[k][r], Nothing, task'[r]}
<1> SUFFICES ASSUME RunInv, [Next]_vars, NEW r \in Run, NEW k \in Syncer
             PROVE  snap'[k][r] \in {snap[k][r], Nothing, task'[r]}
  OBVIOUS
<1> DEFINE Kept == snap'[k][r] \in {snap[k][r], Nothing, task'[r]}
<1>t. snap \in [Syncer -> [Run -> Status \cup {Nothing}]]
  BY DEF RunInv, TaskInv, TypeOK
<1>1. ASSUME UNCHANGED snap PROVE Kept
  BY <1>1
<1>2. ASSUME NEW l \in Syncer, NEW q \in Run, Publish(l, q) PROVE Kept
  BY <1>t, <1>2 DEF Publish
<1>3. ASSUME NEW q \in Run, Get(q) PROVE Kept
  BY <1>t, <1>3 DEF Get
<1>4. ASSUME NEW l \in Syncer, NEW q \in Run, SyncWrite(l, q) PROVE Kept
  BY <1>t, <1>4 DEF SyncWrite
<1>5. ASSUME Crash PROVE Kept
  BY <1>5 DEF Crash
<1>6. ASSUME NEW q \in Run,
             \/ CreateTask(q) \/ Intake(q) \/ Progress(q) \/ cancelTask(q) \/ failTask(q)
             \/ Finish(q)
      PROVE  \E l \in Syncer : Publish(l, q)
  BY <1>6 DEF CreateTask, Intake, Progress, cancelTask, failTask, Finish, End, Syncer
<1>7. ASSUME NEW q \in Run,
             \/ Submit(q) \/ SpawnChild(q) \/ GiveUp(q) \/ EventFails(q)
             \/ TaskTimeout(q) \/ Launch(q)
             \/ waitForAvailableSlot(q) \/ CreateFails(q) \/ Refuse(q) \/ PrepareFails(q)
             \/ Panic(q) \/ LastCheck(q) \/ Exit(q)
      PROVE  UNCHANGED snap
  BY <1>7 DEF Submit, SpawnChild, GiveUp, EventFails, TaskTimeout, Launch,
         waitForAvailableSlot, CreateFails, Refuse, PrepareFails, Panic, LastCheck,
         Exit
<1>8. ASSUME NEW c \in Child, ToolCall(c) \/ ChildEnded(c) \/ StopChild(c) \/ StoreChild(c)
      PROVE  UNCHANGED snap
  BY <1>8 DEF ToolCall, ChildEnded, StopChild, StoreChild
<1>9. ASSUME RecoverStaleTasks \/ (\E q \in Cancels : Cancel(q)) \/ UNCHANGED vars
      PROVE  UNCHANGED snap
  BY <1>9 DEF RecoverStaleTasks, Cancel, ListChildren, CancelTask, StoreCancelled, vars
<1> HIDE DEF Kept
<1>10. ASSUME NEW q \in Run, Start(q) \/ Execute(q) PROVE Kept
  BY <1>1, <1>2, <1>4, <1>6, <1>7, <1>8, <1>10 DEF Start, Execute, Leave, Syncer
<1>11. Kept
  BY <1>1, <1>3, <1>4, <1>5, <1>7, <1>8, <1>9, <1>10 DEF Next, SubmitFails, Syncer
<1> QED
  BY <1>11 DEF Kept

LEMMA CompletedStep ==
    RunInv /\ [Next]_vars => (CompletedTold /\ CompletedIsTrue)'
<1> SUFFICES ASSUME RunInv, [Next]_vars, NEW r \in Run
             PROVE  /\ \A k \in Syncer : snap'[k][r] = "completed" => task'[r] = "completed"
                    /\ run'[r] = "completed" => task'[r] = "completed"
  BY DEF CompletedTold, CompletedIsTrue
<1>1. \A k \in Syncer : snap[k][r] = "completed" => task'[r] = "completed"
  BY CompletedStays DEF RunInv, CompletedTold
<1>2. run[r] = "completed" => task'[r] = "completed"
  BY CompletedStays DEF RunInv, CompletedIsTrue
<1>3. \A k \in Syncer : snap'[k][r] \in {snap[k][r], Nothing, task'[r]}
  BY SnapWrites
<1>4. RunWritten(r)
  BY RunWrites
<1> QED
  BY <1>1, <1>2, <1>3, <1>4 DEF RunWritten, Nothing

LEMMA EndToldStep == RunInv /\ [Next]_vars => EndTold'
<1> SUFFICES ASSUME RunInv, [Next]_vars, NEW r \in Run
             PROVE  /\ run'[r] \in EndedTask => AtRest(r)'
                    /\ \A k \in Syncer : snap'[k][r] \in EndedTask => AtRest(r)'
  BY DEF EndTold
<1>1. \A k \in Syncer : snap[k][r] \in EndedTask => AtRest(r)'
  BY RestStays DEF RunInv, EndTold
<1>2. run[r] \in EndedTask => AtRest(r)'
  BY RestStays DEF RunInv, EndTold
<1>3. \A k \in Syncer : snap'[k][r] \in EndedTask => AtRest(r)'
  <2>1. Nothing \notin EndedTask /\ (task'[r] \in EndedTask => AtRest(r)')
    BY DEF Nothing, EndedTask, AtRest
  <2> QED
    BY <1>1, <2>1, SnapWrites
<1>4. stop[r] # "no" => AtRest(r)'
  BY RestStays DEF AtRest
<1>5. call[r] = "refuse" /\ call'[r] = "returned" => AtRest(r)'
  <2>1. call[r] = "refuse" => task[r] = "none" /\ go[r] = "none"
    BY DEF RunInv, TaskInv, Fresh
  <2>2. TaskWritten(r)
    BY TaskWrites DEF RunInv
  <2> QED
    BY <2>1, <2>2 DEF TaskWritten, AtRest, LiveTask
<1>6. RunWritten(r)
  BY RunWrites
<1> QED
  BY <1>1, <1>2, <1>3, <1>4, <1>5, <1>6 DEF RunWritten, EndedTask

-----------------------------------------------------------------------------
(* How far a call and a goroutine can get in one step.                     *)
AtWork == GoPC \ {"none", "over", "exit", "done"}

Moved(r) ==
    /\ call'[r] = "launch" => call[r] \in {"launch", "create"}
    /\ go'[r] \in AtWork => go[r] \in AtWork \/ call[r] = "launch"
    /\ go'[r] \in {"over", "exit", "done"} =>
         go[r] \in {"over", "exit", "done"} \/ AtRest(r)' \/ waits' = {}

LEMMA Moves == RunInv /\ [Next]_vars => \A r \in Run : Moved(r)
<1> SUFFICES ASSUME RunInv, [Next]_vars, NEW r \in Run PROVE Moved(r)
  OBVIOUS
<1>t. TypeOK /\ TypeOK' /\ OneToolCall
  BY Types DEF RunInv, TaskInv
<1> USE DEF TypeOK, AtWork, GoPC, GotoCall, GotoGo
<1>1. ASSUME UNCHANGED <<call, go>> PROVE Moved(r)
  BY <1>1 DEF Moved
<1>2. ASSUME NEW q \in Run,
             \/ Submit(q) \/ GiveUp(q) \/ EventFails(q) \/ SpawnChild(q)
             \/ waitForAvailableSlot(q)
             \/ CreateFails(q) \/ CreateTask(q)
      PROVE  Moved(r)
  BY <1>t, <1>2 DEF Submit, GiveUp, EventFails, SpawnChild, waitForAvailableSlot,
         CreateFails, CreateTask, Moved
<1>3. ASSUME NEW q \in Run, Refuse(q) \/ PrepareFails(q) \/ Launch(q) PROVE Moved(r)
  BY <1>t, <1>3, Runs DEF Refuse, PrepareFails, Launch, Moved, OneToolCall, Active
<1>4. ASSUME NEW q \in Run, Intake(q) \/ LastCheck(q) \/ Exit(q) PROVE Moved(r)
  BY <1>t, <1>4 DEF Intake, LastCheck, Exit, Moved
<1>5. ASSUME NEW q \in Run, cancelTask(q) \/ failTask(q) \/ Panic(q) PROVE Moved(r)
  <2>1. /\ UNCHANGED call /\ task'[q] \in EndedTask
        /\ go' = [go EXCEPT ![q] = "over"] \/ go' = [go EXCEPT ![q] = "exit"]
    BY <1>t, <1>5 DEF cancelTask, failTask, Panic, End, CancelledTask, FailedTask, EndedTask
  <2> QED
    BY <1>t, <2>1 DEF Moved, AtRest
<1>6. ASSUME NEW q \in Run, Finish(q) PROVE Moved(r)
  <2>1. /\ UNCHANGED call /\ go' = [go EXCEPT ![q] = "over"]
        /\ task'[q] \in EndedTask \/ stop'[q] # "no"
    BY <1>t, <1>6 DEF Finish, CtxWrite, EndedTask
  <2> QED
    BY <1>t, <2>1 DEF Moved, AtRest
<1>7. ASSUME NEW c \in Child, ToolCall(c) \/ ChildEnded(c) \/ StopChild(c) \/ StoreChild(c)
      PROVE  Moved(r)
  BY <1>t, <1>7, Runs DEF ToolCall, ChildEnded, StopChild, StoreChild, Moved
<1>8. ASSUME Crash PROVE Moved(r)
  BY <1>8 DEF Crash, Moved
<1>9. ASSUME NEW q \in Run,
             \/ TaskTimeout(q) \/ Get(q) \/ Progress(q) \/ \E k \in Syncer : SyncWrite(k, q)
      PROVE  UNCHANGED <<call, go>>
  BY <1>9 DEF TaskTimeout, Get, Progress, SyncWrite
<1>10. ASSUME RecoverStaleTasks \/ (\E q \in Cancels : Cancel(q)) \/ UNCHANGED vars
       PROVE  UNCHANGED <<call, go>>
  BY <1>10 DEF RecoverStaleTasks, Cancel, ListChildren, CancelTask, StoreCancelled, vars
<1> HIDE DEF TypeOK, AtWork, GoPC
<1>11. ASSUME NEW q \in Run, Start(q) \/ Execute(q) PROVE Moved(r)
  BY <1>1, <1>2, <1>3, <1>4, <1>5, <1>6, <1>7, <1>9, <1>11 DEF Start, Execute, Leave, Syncer
<1> QED
  BY <1>1, <1>2, <1>3, <1>7, <1>8, <1>9, <1>10, <1>11 DEF Next, SubmitFails, Syncer

LEMMA UndisturbedStep == RunInv /\ [Next]_vars => Undisturbed'
<1> SUFFICES ASSUME RunInv, [Next]_vars PROVE Undisturbed'
  OBVIOUS
<1>0. TypeOK'
  BY Types DEF RunInv
<1> SUFFICES ASSUME NEW r \in Run, task'[r] \in EndedTask,
                    call'[r] = "launch" \/ go'[r] \in AtWork
             PROVE  r \in misjudged'
  BY <1>0 DEF Undisturbed, TypeOK, AtWork
<1>1. TaskInv' /\ TaskWritten(r) /\ Onward(r) /\ Moved(r)
  BY TaskStep, TaskWrites, AllOnward, Moves DEF RunInv
<1>2. /\ call[r] \in {"launch", "create"} \/ go[r] \in AtWork
      /\ call[r] = "create" => task[r] = "none" /\ go[r] = "none"
  BY <1>1 DEF Moved, RunInv, TaskInv, Fresh
<1>3. ~(go'[r] \in {"over", "exit"})
  BY <1>1 DEF TaskInv, Fresh, AtWork
<1>4. task[r] \in EndedTask /\ task'[r] = task[r] => r \in misjudged
  BY <1>2 DEF RunInv, Undisturbed, EndedTask, AtWork
<1>5. task[r] \in LiveTask /\ task'[r] = "failed" => call[r] = "launch" \/ go[r] \in AtWork
  BY <1>2 DEF LiveTask
<1>6. AtWork \cap {"none", "done"} = {}
  BY DEF AtWork
<1>7. \/ task'[r] = task[r]
      \/ task[r] \in LiveTask /\ task'[r] = "failed" /\ r \in misjudged'
  BY <1>1, <1>3, <1>5, <1>6 DEF TaskWritten, EndedTask
<1> QED
  BY <1>1, <1>4, <1>7 DEF Onward

LEMMA CancellingStep == RunInv /\ [Next]_vars => Cancelling'
<1> SUFFICES ASSUME RunInv, [Next]_vars PROVE Cancelling'
  OBVIOUS
<1>t. TypeOK /\ TypeOK' /\ Cancelling
  BY Types DEF RunInv, TaskInv
<1>1. ASSUME UNCHANGED <<cancel, todo>> PROVE Cancelling'
  <2> SUFFICES ASSUME NEW q \in Cancels, cancel[q] = "write" PROVE stop'[Turn(q)] # "no"
    BY <1>1, <1>t DEF Cancelling, Turn
  <2> QED
    BY <1>t, TurnIsRun, AllOnward DEF RunInv, Onward, Cancelling
<1>2. ASSUME NEW q \in Cancels, ListChildren(q) PROVE Cancelling'
  BY <1>2, <1>t DEF ListChildren, Cancelling, TypeOK, Turn
<1>3. ASSUME NEW q \in Cancels, TurnOver(q), UNCHANGED stop, cancel[q] \in {"stop", "write"}
      PROVE  Cancelling'
  BY <1>3, <1>t, SMTT(30) DEF TurnOver, Cancelling, TypeOK, Turn
<1>4. ASSUME NEW q \in Cancels, CancelTask(q) PROVE Cancelling'
  <2>1. CASE Turn(q) \in running
    <3>1. /\ todo' = todo /\ stop' = Stopped(Turn(q)) /\ cancel' = [cancel EXCEPT ![q] = "write"]
          /\ cancel[q] = "stop"
      BY <1>4, <2>1 DEF CancelTask
    <3>2. stop'[Turn(q)] # "no" /\ \A r \in Run : stop[r] # "no" => stop'[r] # "no"
      BY <1>t, <3>1, TurnIsRun DEF Stopped, TypeOK
    <3>3. \A p \in Cancels : Turn(p)' = Turn(p)
      BY <3>1 DEF Turn
    <3>4. \A p \in Cancels : cancel[p] = "write" => stop'[Turn(p)] # "no"
      BY <1>t, <3>2, TurnIsRun DEF Cancelling
    <3> QED
      BY <1>t, <3>1, <3>2, <3>3, <3>4 DEF Cancelling, TypeOK
  <2>2. CASE Turn(q) \notin running
    BY <1>3, <1>4, <2>2 DEF CancelTask
  <2> QED
    BY <2>1, <2>2
<1>5. ASSUME NEW q \in Cancels, StoreCancelled(q) PROVE Cancelling'
  BY <1>3, <1>5 DEF StoreCancelled
<1>6. ASSUME Crash PROVE Cancelling'
  BY <1>6 DEF Crash, Cancelling
<1>7. ASSUME NEW r \in Run,
             \/ Submit(r) \/ Start(r) \/ GiveUp(r) \/ SubmitFails(r) \/ Execute(r)
             \/ TaskTimeout(r)
             \/ Get(r) \/ SyncWrite("read", r)
      PROVE  UNCHANGED <<cancel, todo>>
  BY <1>7 DEF Submit, SubmitFails, Start, SpawnChild, waitForAvailableSlot, CreateTask,
         CreateFails, Refuse, PrepareFails, Launch, SyncWrite, GiveUp, EventFails,
         Execute, Intake, Progress, Leave, cancelTask, failTask, End, Panic, LastCheck,
         Finish, Exit, ChildEnded, StopChild, StoreChild, TaskTimeout, Get, request
<1>8. ASSUME RecoverStaleTasks \/ (\E c \in Child : ToolCall(c)) \/ UNCHANGED vars
      PROVE  UNCHANGED <<cancel, todo>>
  BY <1>8 DEF RecoverStaleTasks, ToolCall, request, vars
<1> QED
  BY <1>1, <1>2, <1>4, <1>5, <1>6, <1>7, <1>8 DEF Next, Cancel

(* What a parent waits for.                                                *)
LEMMA WaitingStep == RunInv /\ [Next]_vars => Waiting'
<1> SUFFICES ASSUME RunInv, [Next]_vars PROVE Waiting'
  OBVIOUS
<1> DEFINE Awaits(c) ==
      /\ go[Parent[c]] \in {"spawn", "await", "cancelChild"}
      /\ go[Parent[c]] = "spawn" => call[c] \in Active
      /\ go[Parent[c]] # "spawn" => call[c] = "returned" /\ go[c] # "none"
      /\ go[Parent[c]] = "cancelChild" => stop[c] # "no"
    Awaiting == \A c \in waits : Awaits(c) /\ \A d \in waits : Parent[d] = Parent[c] => d = c
    Stays == Awaiting' /\ \A c \in waits' : c \in waits \/ go'[Parent[c]] = "spawn"
<1>t. /\ TypeOK /\ TypeOK' /\ OneToolCall /\ OneToolCall' /\ Fresh /\ Fresh' /\ Awaiting
      /\ \A r \in Run : Onward(r)
  BY TaskStep, AllOnward DEF RunInv, TaskInv, Waiting
<1> USE Runs DEF TypeOK, GotoCall, GotoGo, Active, Onward
<1>1. ASSUME waits' = waits, call' = call, go' = go PROVE Stays
  BY <1>1, <1>t
<1>2. ASSUME NEW r \in Run,
             \/ Submit(r) \/ GiveUp(r) \/ EventFails(r) \/ (r \in Child /\ SpawnChild(r))
             \/ waitForAvailableSlot(r) \/ CreateFails(r) \/ CreateTask(r)
      PROVE  Stays
  <2>1. /\ waits' = waits /\ go' = go
        /\ \E l \in CallPC : call' = [call EXCEPT ![r] = l] /\
              (r \in Top \/ (call[r] \in Active /\ l \in Active))
    BY <1>2 DEF Submit, GiveUp, EventFails, SpawnChild, waitForAvailableSlot,
           CreateFails, CreateTask, CallPC, Run
  <2> QED
    BY <2>1, <1>t
<1>3. ASSUME NEW c \in Child, ToolCall(c) PROVE Stays
  BY <1>3, <1>t DEF ToolCall
<1>4. ASSUME NEW r \in Run, Refuse(r) \/ PrepareFails(r) PROVE Stays
  BY <1>4, <1>t DEF Refuse, PrepareFails, OneToolCall
<1>5. ASSUME NEW r \in Run, Launch(r) PROVE Stays
  <2>1. /\ call[r] \in Active /\ call' = [call EXCEPT ![r] = "returned"] /\ waits' = waits
        /\ go[r] = "none" /\ go'[r] = "intake"
    BY <1>5, <1>t DEF Launch, Fresh
  <2>2. CASE r \in Top
    <3>1. \A q \in Run : q # r => go'[q] = go[q]
      BY <1>5, <2>2 DEF Launch
    <3> QED
      BY <1>t, <2>1, <2>2, <3>1
  <2>3. CASE r \in Child
    <3>1. /\ go'[Parent[r]] = IF r \in waits THEN "await" ELSE "work"
          /\ \A q \in Run \ {r, Parent[r]} : go'[q] = go[q]
          /\ go[Parent[r]] = "spawn"
      BY <1>5, <1>t, <2>1, <2>3 DEF Launch, OneToolCall
    <3>2. \A c \in waits : Parent[c] = Parent[r] => c = r
      BY <1>t, <2>1, <2>3, <3>1 DEF OneToolCall
    <3> QED
      BY <1>t, <2>1, <2>3, <3>1, <3>2
  <2> QED
    BY <2>2, <2>3 DEF Run
<1>6. ASSUME NEW r \in Run, Intake(r) \/ Leave(r) \/ Finish(r) \/ Exit(r) PROVE Stays
  <2>1. /\ waits' = waits /\ call' = call
        /\ \E l \in {"work", "finish", "over", "exit", "done"} : go' = [go EXCEPT ![r] = l]
        /\ go[r] \in {"intake", "work", "finish", "over", "exit"}
    BY <1>6 DEF Intake, Leave, cancelTask, failTask, End, Panic, LastCheck, Finish, Exit
  <2> QED
    BY <2>1, <1>t
<1>7. ASSUME NEW c \in Child, ChildEnded(c) \/ StoreChild(c) PROVE Stays
  BY <1>7, <1>t DEF ChildEnded, StoreChild
<1>8. ASSUME NEW c \in Child, StopChild(c) PROVE Stays
  BY <1>8, <1>t DEF StopChild, Stopped
<1>9. ASSUME Crash PROVE Stays
  BY <1>9 DEF Crash
<1>10. ASSUME NEW r \in Run,
              \/ TaskTimeout(r) \/ Get(r) \/ Progress(r) \/ \E k \in Syncer : SyncWrite(k, r)
       PROVE  Stays
  BY <1>1, <1>10 DEF TaskTimeout, Get, Progress, SyncWrite
<1>11. ASSUME RecoverStaleTasks \/ (\E q \in Cancels : Cancel(q)) \/ UNCHANGED vars
       PROVE  Stays
  BY <1>1, <1>11 DEF RecoverStaleTasks, Cancel, ListChildren, CancelTask, StoreCancelled, vars
<1>12. Stays
  <2> HIDE DEF Stays
  <2>1. ASSUME NEW r \in Run, Start(r) \/ Execute(r) PROVE Stays
    BY <1>2, <1>4, <1>5, <1>6, <1>7, <1>8, <1>10, <2>1 DEF Start, Execute, Syncer
  <2> QED
    BY <1>2, <1>3, <1>4, <1>9, <1>10, <1>11, <2>1 DEF Next, SubmitFails, Syncer
<1>13. ASSUME NEW c \in waits', go'[c] \in {"over", "exit", "done"} PROVE AtRest(c)'
  <2>1. CASE c \in waits
    <3>1. c \in Run /\ Moved(c)
      BY <1>t, <2>1, Moves
    <3> QED
      BY <1>13, <2>1, <3>1, RestStays DEF Moved, RunInv, Waiting
  <2>2. CASE c \notin waits
    <3>1. c \in Run /\ call'[c] \in Active
      BY <1>t, <1>12, <2>2
    <3> QED
      BY <1>13, <1>t, <3>1 DEF Fresh
  <2> QED
    BY <2>1, <2>2
<1> QED
  BY <1>12, <1>13 DEF Waiting

-----------------------------------------------------------------------------
LEMMA RunStep == RunInv /\ [Next]_vars => RunInv'
<1> SUFFICES ASSUME RunInv, [Next]_vars PROVE RunInv'
  OBVIOUS
<1>1. TaskInv /\ Cancelling
  BY DEF RunInv
<1>2. TaskInv'
  BY <1>1, TaskStep
<1> QED
  BY <1>2, CompletedStep, UndisturbedStep, EndToldStep, WaitingStep, CancellingStep DEF RunInv

LEMMA RunInvariant == Spec => []RunInv
  BY RunInitInv, RunStep, PTL DEF Spec

(* The types, and that Launch, execute's clean-up and the crash keep the   *)
(* cancel functions in Runner.running those of the goroutines that live.   *)
THEOREM RunsAreTyped == Spec => []TypeOK
<1>1. RunInv => TypeOK
  BY DEF RunInv, TaskInv
<1> QED
  BY <1>1, RunInvariant, PTL

(* A run is reported completed only if its task completed, whatever        *)
(* SyncSnapshot, Cancel and RecoverStaleTasks store in whatever order.     *)
THEOREM NoFalseCompletion == Spec => []CompletedIsTrue
<1>1. RunInv => CompletedIsTrue
  BY DEF RunInv
<1> QED
  BY <1>1, RunInvariant, PTL

(* Only the end of its call or of the wait takes a child out of waits.     *)
LEMMA WaitsShrink ==
    ASSUME RunInv, Next, ~Crash, NEW c \in Child, c \in waits, c \notin waits'
    PROVE  Refuse(c) \/ PrepareFails(c) \/ ChildEnded(c) \/ StopChild(c) \/ StoreChild(c)
<1>1. ASSUME NEW r \in Run, Refuse(r) \/ PrepareFails(r) PROVE Refuse(c) \/ PrepareFails(c)
  <2>1. r = c
    BY <1>1 DEF Refuse, PrepareFails
  <2> QED
    BY <1>1, <2>1
<1>2. ASSUME NEW d \in Child, ChildEnded(d) \/ StopChild(d) \/ StoreChild(d)
      PROVE  ChildEnded(c) \/ StopChild(c) \/ StoreChild(c)
  <2>1. d = c
    BY <1>2 DEF ChildEnded, StopChild, StoreChild
  <2> QED
    BY <1>2, <2>1
<1>3. ASSUME NEW r \in Run,
             \/ Submit(r) \/ GiveUp(r) \/ EventFails(r) \/ SpawnChild(r)
             \/ waitForAvailableSlot(r)
             \/ CreateTask(r) \/ CreateFails(r) \/ Launch(r)
             \/ TaskTimeout(r) \/ Get(r) \/ (\E k \in Syncer : SyncWrite(k, r))
             \/ Intake(r) \/ Progress(r) \/ Leave(r) \/ Finish(r) \/ Exit(r)
      PROVE  FALSE
  BY <1>3 DEF Submit, GiveUp, EventFails, SpawnChild, waitForAvailableSlot, CreateTask,
         CreateFails, Launch, TaskTimeout, Get, SyncWrite, Intake, Progress, Leave,
         cancelTask, failTask, End, Panic, LastCheck, Finish, Exit
<1>4. ASSUME \/ \E d \in Child : ToolCall(d)
             \/ \E q \in Cancels : Cancel(q)
             \/ RecoverStaleTasks
      PROVE  FALSE
  BY <1>4 DEF ToolCall, Cancel, ListChildren, CancelTask, StoreCancelled, RecoverStaleTasks
<1> QED
  BY <1>1, <1>2, <1>3, <1>4 DEF Next, SubmitFails, Start, Execute, Syncer

(* waitForTerminal lets a parent go on only when its child is at rest,     *)
(* children that a late RecoverStaleTasks took for dead excepted.          *)
THEOREM ParentsWait == Spec => NoWorkerLeftBehind
<1> DEFINE Left == \A c \in Child : c \in waits /\ c \notin waits' =>
                     \/ task'[c] \in EndedTask \cup {"none"} \/ stop'[c] # "no"
                     \/ c \in misjudged \/ crashes' # crashes
<1>1. ASSUME RunInv, Next PROVE Left
  <2> SUFFICES ASSUME NEW c \in Child, c \in waits, c \notin waits', crashes' = crashes
               PROVE  \/ task'[c] \in EndedTask \cup {"none"} \/ stop'[c] # "no"
                      \/ c \in misjudged
    OBVIOUS
  <2>t. TypeOK /\ Waiting /\ EndTold /\ Fresh /\ c \in Run
    BY <1>1, Runs DEF RunInv, TaskInv
  <2>1. ~Crash
    BY <2>t DEF Crash, TypeOK
  <2>2. Refuse(c) \/ PrepareFails(c) \/ ChildEnded(c) \/ StopChild(c) \/ StoreChild(c)
    BY <1>1, <2>1, WaitsShrink
  <2>3. AtRest(c) \/ ((Refuse(c) \/ PrepareFails(c)) /\ task[c] = "none")
    <3>1. CASE Refuse(c) \/ PrepareFails(c)
      BY <2>t, <3>1 DEF Refuse, PrepareFails, Fresh
    <3>2. CASE ChildEnded(c)
      BY <2>t, <3>2 DEF ChildEnded, EndTold
    <3>3. CASE StopChild(c)
      <4>1. c \notin running /\ go[Parent[c]] = "await"
        BY <2>t, <3>3 DEF StopChild
      <4>2. go[c] = "done"
        BY <2>t, <4>1 DEF TypeOK, Waiting
      <4> QED
        BY <2>t, <4>2 DEF Waiting
    <3>4. CASE StoreChild(c)
      BY <2>t, <3>4 DEF StoreChild, Waiting, AtRest
    <3> QED
      BY <2>2, <3>1, <3>2, <3>3, <3>4
  <2>4. task' = task /\ (stop[c] # "no" => stop'[c] # "no")
    <3>1. Onward(c)
      BY <1>1, <2>t, AllOnward DEF RunInv
    <3> QED
      BY <2>2, <3>1 DEF Onward, Refuse, PrepareFails, ChildEnded, StopChild, StoreChild
  <2> QED
    BY <2>3, <2>4 DEF AtRest
<1>2. RunInv /\ [Next]_vars => [Left]_vars
  BY <1>1
<1> QED
  BY <1>2, RunInvariant, PTL DEF Spec, NoWorkerLeftBehind
=============================================================================
