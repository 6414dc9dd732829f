------------------------------ MODULE CronProofs ------------------------------
(***************************************************************************)
(* Theorems about Cron for any number of jobs, executions, slots, edits    *)
(* and services.  The invariant adds to the properties that a job's table  *)
(* is never that of a later service; this is why a new service's table is  *)
(* empty, as its scheduler is.                                             *)
(***************************************************************************)
EXTENDS Cron, FiniteSetTheorems, TLAPS

(* The executions of a service whose handler runs.                         *)
Running(s) == {e \in Execution : exec[e] = "running" /\ in[e] = s}

(* CronTypeOK without the slots.                                           *)
JobTypeOK ==
    /\ service \in 1 .. MaxServices /\ edits \in 0 .. MaxEdits
    /\ home \in [Job -> 0 .. MaxServices]
    /\ known \in [Job -> {"new", "live", "deleted"}]
    /\ enabled \in [Job -> BOOLEAN] /\ status \in [Job -> {"active", "paused", "running"}]
    /\ entry \in [Job -> BOOLEAN] /\ orphans \in [Job -> Nat]
    /\ repaused \subseteq Job

(* The types of the executions.                                            *)
ExecTypeOK ==
    /\ exec \in [Execution -> {"unused", "waiting", "running", "ended", "panicked"}]
    /\ of \in [Execution -> Job] /\ in \in [Execution -> 0 .. MaxServices]
    /\ triggered \subseteq Execution /\ panicked \subseteq Job

(* No service has more of them than its semaphore has slots.               *)
WithinSlots == \A s \in 1 .. MaxServices : Cardinality(Running(s)) <= MaxConcurrentJobs

(* No table is from a service to come, so a new one is empty.              *)
HomesArePast == \A j \in Job : home[j] <= service

CronInv ==
    /\ JobTypeOK /\ ExecTypeOK /\ HomesArePast
    /\ WithinSlots /\ OneEntryPerJob /\ RunningIsTrue

LEMMA CronInitInv == CronInit => CronInv
<1> SUFFICES ASSUME CronInit PROVE CronInv
  OBVIOUS
<1> USE CronAssumption DEF CronInit
<1>1. JobTypeOK /\ ExecTypeOK /\ HomesArePast
  BY DEF JobTypeOK, ExecTypeOK, HomesArePast
<1>2. WithinSlots
  <2>1. \A s \in 1 .. MaxServices : Running(s) = {}
    BY DEF Running
  <2> QED
    BY <2>1, FS_EmptySet DEF WithinSlots
<1>3. OneEntryPerJob /\ RunningIsTrue
  BY DEF OneEntryPerJob, RunningIsTrue, Here
<1> QED
  BY <1>1, <1>2, <1>3 DEF CronInv

LEMMA FewerRun ==
    ASSUME WithinSlots, \A s \in 1 .. MaxServices : Running(s)' \subseteq Running(s)
    PROVE  WithinSlots'
<1> SUFFICES ASSUME NEW s \in 1 .. MaxServices
             PROVE  Cardinality(Running(s)') <= MaxConcurrentJobs
  BY DEF WithinSlots
<1>1. IsFiniteSet(Running(s))
  BY CronAssumption, FS_Subset DEF Running
<1>2. Cardinality(Running(s)') <= Cardinality(Running(s)) /\ IsFiniteSet(Running(s)')
  BY <1>1, FS_Subset
<1> QED
  BY <1>1, <1>2, FS_CardinalityType, CronAssumption DEF WithinSlots

(* The calls touch no execution.                                           *)
LEMMA CallStep ==
    ASSUME CronInv, UNCHANGED executions, status' \in [Job -> {"active", "paused", "running"}],
           \A j \in Job : status'[j] = "running" => status[j] = "running"
    PROVE  ExecTypeOK' /\ WithinSlots' /\ RunningIsTrue'
<1> USE DEF CronInv, executions
<1>1. ExecTypeOK'
  BY DEF ExecTypeOK
<1>2. WithinSlots'
  BY DEF WithinSlots, Running
<1>3. RunningIsTrue'
  BY DEF RunningIsTrue
<1> QED
  BY <1>1, <1>2, <1>3

LEMMA JobStep ==
    ASSUME CronInv, NEW x \in Job,
           Create(x) \/ Update(x) \/ EnableJob(x) \/ DisableJob(x) \/ Delete(x)
    PROVE  CronInv'
<1> USE CronAssumption DEF CronInv
<1>1. /\ UNCHANGED executions /\ status' \in [Job -> {"active", "paused", "running"}]
      /\ \A j \in Job : status'[j] = "running" => status[j] = "running"
  BY DEF JobTypeOK, Create, Update, EnableJob, DisableJob, Delete, Edit
<1>c. ExecTypeOK' /\ WithinSlots' /\ RunningIsTrue'
  BY <1>1, CallStep
<1>j. /\ known \in [Job -> {"new", "live", "deleted"}] /\ home \in [Job -> 0 .. MaxServices]
      /\ enabled \in [Job -> BOOLEAN] /\ entry \in [Job -> BOOLEAN]
      /\ orphans \in [Job -> Nat] /\ service \in 1 .. MaxServices
  BY DEF JobTypeOK
<1>2. CASE Create(x)
  <2>1. JobTypeOK'
    BY <1>2 DEF Create, JobTypeOK
  <2>2. HomesArePast'
    BY <1>2, <1>j DEF Create, HomesArePast
  <2>3. OneEntryPerJob'
    BY <1>2, <1>j DEF Create, OneEntryPerJob, Here
  <2> QED
    BY <1>c, <2>1, <2>2, <2>3
<1>3. CASE Update(x)
  <2>1. JobTypeOK'
    BY <1>3 DEF Update, Edit, JobTypeOK
  <2>2. HomesArePast'
    BY <1>3, <1>j DEF Update, Edit, HomesArePast
  <2>3. OneEntryPerJob'
    BY <1>3, <1>j DEF Update, Edit, OneEntryPerJob, Here
  <2> QED
    BY <1>c, <2>1, <2>2, <2>3
<1>4. CASE EnableJob(x)
  <2>1. JobTypeOK'
    BY <1>4 DEF EnableJob, Edit, JobTypeOK
  <2>2. HomesArePast'
    BY <1>4, <1>j DEF EnableJob, Edit, HomesArePast
  <2>3. OneEntryPerJob'
    BY <1>4, <1>j DEF EnableJob, Edit, OneEntryPerJob, Here
  <2> QED
    BY <1>c, <2>1, <2>2, <2>3
<1>5. CASE DisableJob(x)
  <2>1. JobTypeOK'
    BY <1>5 DEF DisableJob, Edit, JobTypeOK
  <2>2. HomesArePast'
    BY <1>5, <1>j DEF DisableJob, Edit, HomesArePast
  <2>3. OneEntryPerJob'
    BY <1>5, <1>j DEF DisableJob, Edit, OneEntryPerJob, Here
  <2> QED
    BY <1>c, <2>1, <2>2, <2>3
<1>6. CASE Delete(x)
  <2>1. JobTypeOK'
    BY <1>6 DEF Delete, JobTypeOK
  <2>2. HomesArePast'
    BY <1>6, <1>j DEF Delete, HomesArePast
  <2>3. OneEntryPerJob'
    BY <1>6, <1>j DEF Delete, OneEntryPerJob, Here
  <2> QED
    BY <1>c, <2>1, <2>2, <2>3
<1> QED
  BY <1>2, <1>3, <1>4, <1>5, <1>6

LEMMA ReclaimStep ==
    ASSUME CronInv, Reclaim
    PROVE  CronInv'
<1> USE CronAssumption DEF CronInv
<1>1. ExecTypeOK' /\ WithinSlots' /\ RunningIsTrue'
  BY CallStep DEF Reclaim, JobTypeOK
<1>2. JobTypeOK' /\ HomesArePast'
  BY DEF Reclaim, JobTypeOK, HomesArePast
<1>3. OneEntryPerJob'
  <2>1. \A j \in Job : entry'[j] = FALSE /\ orphans'[j] = 0
    BY DEF Reclaim
  <2>2. \A j \in Job : home'[j] # service'
    BY DEF Reclaim, JobTypeOK, HomesArePast
  <2> QED
    BY <2>1, <2>2 DEF OneEntryPerJob, Here
<1> QED
  BY <1>1, <1>2, <1>3

LEMMA ExecutionStep ==
    ASSUME CronInv, NEW x \in Execution,
           \/ \E j \in Job : Fire(x, j) \/ Trigger(x, j)
           \/ Begin(x) \/ End(x) \/ Panic(x)
    PROVE  CronInv'
<1> USE CronAssumption DEF CronInv
<1>1. JobTypeOK' /\ HomesArePast' /\ OneEntryPerJob'
  <2>1. /\ UNCHANGED <<service, home, known, enabled, entry, orphans, repaused, edits>>
        /\ status' \in [Job -> {"active", "paused", "running"}]
    BY DEF Fire, Trigger, Start, Begin, End, Panic, JobTypeOK, ExecTypeOK
  <2> QED
    BY <2>1 DEF JobTypeOK, HomesArePast, OneEntryPerJob, Here
<1>2. CASE \E j \in Job : Fire(x, j) \/ Trigger(x, j)
  <2>1. PICK j \in Job : Start(x, j) /\ triggered' \subseteq Execution
    BY <1>2 DEF Fire, Trigger, ExecTypeOK
  <2>2. ExecTypeOK'
    BY <2>1 DEF Start, ExecTypeOK, JobTypeOK
  <2>3. \A s \in 1 .. MaxServices : Running(s)' \subseteq Running(s)
    BY <2>1 DEF Start, Running, ExecTypeOK
  <2>4. RunningIsTrue'
    BY <2>1 DEF Start, RunningIsTrue, ExecTypeOK
  <2> QED
    BY <1>1, <2>2, <2>3, <2>4, FewerRun
<1>3. CASE Begin(x)
  <2>1. ExecTypeOK'
    BY <1>3 DEF Begin, ExecTypeOK
  <2>2. RunningIsTrue'
    BY <1>3 DEF Begin, RunningIsTrue, ExecTypeOK, JobTypeOK
  <2>3. WithinSlots'
    <3>1. CASE exec'[x] # "running"
      <4>1. \A s \in 1 .. MaxServices : Running(s)' \subseteq Running(s)
        BY <1>3, <3>1 DEF Begin, Running, ExecTypeOK
      <4> QED
        BY <4>1, FewerRun
    <3>2. CASE exec'[x] = "running"
      <4> SUFFICES ASSUME NEW s \in 1 .. MaxServices
                   PROVE  Cardinality(Running(s)') <= MaxConcurrentJobs
        BY DEF WithinSlots
      <4>f. IsFiniteSet(Running(s))
        BY FS_Subset DEF Running
      <4>1. SlotFree(in[x]) /\ Running(in[x]) = Slots(in[x])
        BY <1>3, <3>2 DEF Begin, ExecTypeOK, Running, Slots
      <4>2. CASE s = in[x]
        <5>1. Running(s)' = Running(s) \cup {x} /\ x \notin Running(s)
          BY <1>3, <3>2, <4>2 DEF Begin, Running, ExecTypeOK
        <5>2. Cardinality(Running(s)') = Cardinality(Running(s)) + 1
          BY <5>1, <4>f, FS_AddElement
        <5> QED
          BY <5>2, <4>1, <4>2, <4>f, FS_CardinalityType DEF SlotFree
      <4>3. CASE s # in[x]
        <5>1. Running(s)' = Running(s)
          BY <1>3, <4>3 DEF Begin, Running, ExecTypeOK
        <5> QED
          BY <5>1 DEF WithinSlots
      <4> QED
        BY <4>2, <4>3
    <3> QED
      BY <3>1, <3>2
  <2> QED
    BY <1>1, <2>1, <2>2, <2>3
<1>4. CASE End(x) \/ Panic(x)
  <2>1. ExecTypeOK'
    BY <1>4 DEF End, Panic, ExecTypeOK
  <2>2. RunningIsTrue'
    BY <1>4 DEF End, Panic, RunningIsTrue, ExecTypeOK, JobTypeOK
  <2>3. \A s \in 1 .. MaxServices : Running(s)' \subseteq Running(s)
    BY <1>4 DEF End, Panic, Running, ExecTypeOK
  <2> QED
    BY <1>1, <2>1, <2>2, <2>3, FewerRun
<1> QED
  BY <1>2, <1>3, <1>4

LEMMA CronStep == CronInv /\ [CronNext]_cronVars => CronInv'
<1> SUFFICES ASSUME CronInv, [CronNext]_cronVars PROVE CronInv'
  OBVIOUS
<1>1. CASE UNCHANGED cronVars
  BY <1>1 DEF cronVars, CronInv, JobTypeOK, ExecTypeOK, HomesArePast, WithinSlots,
              Running, OneEntryPerJob, Here, RunningIsTrue
<1>2. CASE CronNext
  BY <1>2, JobStep, ReclaimStep, ExecutionStep DEF CronNext
<1> QED
  BY <1>1, <1>2

LEMMA CronInvariant == CronSpec => []CronInv
  BY CronInitInv, CronStep, PTL DEF CronSpec

(* The types, and that executeJob never lets more than MaxConcurrentJobs   *)
(* handlers of a service run, whichever panic and whenever it is reclaimed.*)
THEOREM KeepsToTheSlots == CronSpec => []CronTypeOK
<1>1. CronInv => CronTypeOK
  BY DEF CronInv, JobTypeOK, ExecTypeOK, WithinSlots, Running, CronTypeOK
<1> QED
  BY <1>1, CronInvariant, PTL

(* Create, Update, Enable, Disable, Delete and the reclaim, in any order,  *)
(* leave one entry for a job that is enabled and none for another; jobs    *)
(* that Update rescheduled while they were paused excepted.                *)
THEOREM ScheduledOnce == CronSpec => []OneEntryPerJob
<1>1. CronInv => OneEntryPerJob
  BY DEF CronInv
<1> QED
  BY <1>1, CronInvariant, PTL

(* executeJob sets the status back at each of its ends: a job shown as     *)
(* running has a handler that runs, jobs with a panic excepted.            *)
THEOREM ShownRunningRuns == CronSpec => []RunningIsTrue
<1>1. CronInv => RunningIsTrue
  BY DEF CronInv
<1> QED
  BY <1>1, CronInvariant, PTL
=============================================================================
