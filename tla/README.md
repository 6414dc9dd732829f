# ZimaOS-Blue: formal models, checks and proofs

ZimaOS-Blue is a self-hosted AI assistant server (Go, `server/internal/...`) with a web
application and a desktop shell. These TLA+ modules model the parts of it whose
correctness depends on the order in which concurrent steps, crashes and failures happen.
TLC checks them on small instances and TLAPS proves what matters most about them for every
value of the constants.

    tlc -config HarnessGroup_leases.cfg HarnessGroup      # and the other HarnessGroup_*.cfg
    tlc -config HarnessGroup_requests.cfg MCHarnessGroup
    tlc -config HarnessRun_runs.cfg MCHarnessRun          # and HarnessRun_slot.cfg
    tlc -config Services_services.cfg MCServices
    tlc -config Workflow_flows.cfg MCWorkflow             # and Workflow_triggers.cfg
    tlc -config Cron_reclaimed.cfg Cron
    tlapm HarnessGroupProofs.tla                          # and the other *Proofs.tla

Paths below are relative to `server/internal/`.

## 1. Inventory

### The system

ARCHITECTURE.md names the layers: runtime assembly, frontend and shell, identity and
security, chat and agent runtime, tool and execution plane, inference routing, memory and
knowledge, integrations, persistence and operations, worker and scheduler, plugins and
skills, and the harness control plane. Most of the code prepares, parses or routes text.
The parts that keep shared state under concurrency are these.

| Component | State | Operations | Talks to | What is hard |
|---|---|---|---|---|
| Harness run groups (`harness/group_dispatcher.go`, `group_manager.go`) | groups, items with leases, scorecards, in SQLite; one goroutine per leased attempt | SubmitGroup, DispatchOnce, processClaimedItem, waitForRun, recoverExpiredItems, failAttempt, finalizeAttempt, CancelGroup, RetryFailedGroup, GetGroupReport, refreshGroupSummary | harness store, run controller | every write is a read-modify-write of a whole row, done by attempts, recovery and API requests without a common lock; crashes between two writes; leases outlasted by slow calls |
| Harness run controller and subagents (`harness/manager.go`, `subagent_executor.go`, `drivers/agent.go`) | runs, a copy of the status of their tasks | Submit, SpawnChild, Get, SyncSnapshot, Cancel, waiting for a child | agent runner, API, tool calls | snapshots stored later than they were taken; cancellation against completion; a parent that waits for its child |
| Agent runner and task store (`agent/runner.go`, `agent/store.go`) | tasks in SQLite, cancel functions, contexts | submission with a slot wait, execution, Cancel, RecoverStaleTasks | LLM, tools, harness | slots counted in rows; last writes with a dead context; recovery in the background of a start |
| Provider pool and request routing (`providerpool/`, `proxy/handler.go`) | registry, candidate snapshot, cooldowns | Register, Unregister, Enable, Disable, RebuildCandidates, Route, RouteWithFallback, provider race | model providers, clients | snapshots rebuilt by racing goroutines; cooldowns against the last provider left; losers of a race punished |
| Reclaimable resources (`reclaim/managed.go`) | value, use count, idle timer | Get, Acquire, release, SetIdleAfter, reclaimIdle, Close | cron, workflows, browsers | a timer that fired before it was stopped; a release after Close |
| SSE broker (`sse/broker.go`, `sse/handler.go`) | bounded client buffers | Subscribe, Publish, Unsubscribe, Close | web clients | closing a channel against handlers and publishers; drops for slow clients |
| Tool approvals (`api/approval.go`) | pending requests and waiters | AuthorizeToolCall, Resolve, GetPending, timer, abort | SSE broker, tool loop | a decision racing the timeout; an answer that is taken out and put back |
| Cron (`cron/cron.go`, `cron/handler.go`) | job table, scheduler entries, slots | Create, Update, Enable, Disable, Delete, Trigger, executeJob | reclaim, any handler | overlapping executions; entries that the table forgets; panics; reclaim of the service |
| Workflow engine (`workflow/engine.go`) | executions, their node queues, checkpoints | Execute, runExecution, ResumeExecution, CancelExecution, Close | HTTP requests, harness, actions | completion guessed from a set of nodes, not from the queue; decisions racing cancellations; slots held by paused executions; the request's context |
| Question manager, sessions | questions, conversations | sequential steps | agent runner | candidates for later work |

Leaf packages that hold no protocol of their own (formats, ranking, pruning, adapters of
external services, the user interface) are listed as not modelled in `PROJECT.json`, each
with its reason. So are the packages that only their tests call: the circuit breaker and
its failover client, the worker pools and the scheduler package. The server routes its requests
through the provider pool and runs its jobs with cron.

### What makes each part correct

- **Run groups**: an item has one goroutine at a time; at most MaxConcurrency of them run;
  an item is attempted a bounded number of times; an abandoned item is always taken back;
  an item passes only on evidence of the run it names; the group closes only over ended
  items, and does close; what a cancel ends does not stay half open.
- **Runs and tasks**: a run is reported completed only if its task is; readers end up with the
  truth; every run ends; a parent leaves no child at work behind; a cancelled caller returns.
- **Provider pool**: nobody is refused who had a usable provider all the time that the router looked for
  one; a caller that keeps asking is served once providers have stopped failing, unless others' races keep
  cancelling their losers.
- **Managed**: a resource in use is never reclaimed, and an idle one is in the end.
- **Broker**: no panic, whatever closes first; a shutdown ends every handler.
- **Approvals**: a call runs only if this call was approved; at most one answer is
  confirmed, and it is the one the call acts on; a wrong answer does not use the request up;
  every call returns.
- **Cron**: an enabled job fires once a tick, another one never; a job shown as running does;
  every execution ends, and gives its slot back.
- **Workflows**: a node runs once, after all its sources; a decision counts at the checkpoint it
  was given at; the loop never idles with nothing left to run; whoever waits for a slot gets
  one or gives up, every execution ends, and so does Close.

`PROJECT.json` lists the hazards behind these properties, each at its line.

## 2. Modules

| Module | Contents |
|---|---|
| `HarnessGroup` | one run group: rows, leases, dispatcher, attempts, API requests, clock, crash, failing store calls; its properties |
| `GroupContract` | the abstract promise: items wait, are worked on (at most Width at a time) and settle; the group closes over settled items only |
| `MCHarnessGroup` | `HarnessGroup` for TLC where a lapse or a request, but not both, disturbs it |
| `HarnessGroupProofs` | the theorems about `HarnessGroup` and their proofs: types, recovery, exclusion, slots, closing, the contract |
| `HarnessAttemptProofs` | the theorems about the attempts of an item: duplicates, evidence, how many there are |
| `HarnessRun` | runs, children, tasks, contexts and slots: controller, subagents, runner, task store |
| `MCHarnessRun` | scenarios of `HarnessRun` for TLC |
| `HarnessRunProofs` | its theorems |
| `ProviderRouter` | registry, snapshot, cooldowns, requests that fall back or race |
| `Managed` | a reclaimable resource |
| `Broker` | connections, their channels, and the shutdown |
| `Approvals` | tool approvals, composed with `Broker` (EXTENDS): it publishes through it and counts its clients |
| `Cron` | jobs, entries, executions, and the reclaim of the service |
| `MCServices` | the last five for TLC, one at a time |
| `ProviderRouterProofs`, `ManagedProofs`, `ApprovalsProofs` (with `Broker`), `CronProofs`, `WorkflowProofs` | their theorems |
| `WorkflowEngine` | executions of a workflow over any graph |
| `MCWorkflow` | graphs for TLC |

`HarnessGroup` and `HarnessRun` meet at `Controller.Submit`, `Get` and `Cancel`:
`HarnessGroup` keeps of a run what these report (it runs, is being cancelled, or has ended in one
of three ways, and it ends in bounded time), and `HarnessRun` checks that this is what they
report (`CompletedIsTrue`, `RunsTellTheTruth`, `OnlyLostWritesStrand`). They are not one state space,
which would be beyond TLC.

### How `HarnessGroup` corresponds to the code

State: `row` is the table `harness_run_group_items` (status, latest run, attempt count, lease
owner, lease), `group` the stored status of the group, `card` the latest scorecard of each
item, `run` what `Controller.Get` reports of each attempt's run. `pc` says where each process
is, `copy` holds the row an attempt has read and not written yet, `view` the group status a
refresh has read, `worklist` the rows a loop has listed and not written yet, `slots` the
claims left in a tick. `recovered`, `crashes`, `faults` and `lapses` count.

Processes: the dispatcher (one, under its mutex), one goroutine per claimed attempt
(numbered in order of claiming; its run has the same number), and the API requests in
`Cancels`, `Retries`, `Reports`. SQLite executes one store call at a time, so **one store call
is one step** and everything between two calls interleaves. `UpdateGroupItem` and
`UpdateGroup` overwrite whole rows with the caller's copy; this is why each read-modify-write
is two actions with a local copy between them.

| Actions | Code |
|---|---|
| `Tick`, `RecoverList`, `RecoverItem`, `RefreshGet/List/Write`, `Count`, `Claim`, `ClaimDone` | `DispatchOnce`, `recoverExpiredItems`, `refreshGroupSummary`, `dispatchGroup`, `ClaimNextGroupItem` (one transaction) |
| `Submit`, `RecordRead/Write`, `WaitRun`, `WaitItem`, `RenewWrite`, `ScoreRead/Write`, `Score`, `FinalRead/Write` | `processClaimedItem`, `waitForRun`, `renewItemLease`, `finalizeAttempt` |
| `FailRead/Write`, `RefuseRead/Write` | `failAttempt`, after a run was submitted and when the submission was refused |
| `CancelList`, `CancelRun`, `CancelRow`, `CancelGroup` | `Controller.CancelGroup` with `Controller.Cancel`; an item may be claimed between the listing and its turn |
| `RetryList`, `RetryRow`, `RetryGroup` | `RetryFailedGroup` |
| `ReportList`, `ReportCard`, `ReportRow` | `loadGroupReportContext`, `reconcileGroupReportState`; it takes the run rows as they are stored, which may lag behind what `Get` would say, so it may overlook any of the items that `NeedsRescore` |
| `RunEnds`, `LeaseExpires`, `Fault`, `Crash` | the task, the clock, an error returned by a store call, the death and restart of the process |

Abstractions, all of them data the properties do not tell apart:

- Item status `error` is merged with `failed`, `pending` with `queued`; run statuses to the
  three ways to end, running, and *cancelling* (the cancellation is stored but the task still
  runs, so a Get may report either).
- A lease is absent, valid or expired. Every write of a row puts a fresh lease in it or
  none, so no copy brings an old expiry time back.
- Verdicts are `pass`, `fail` and `reject` (a failure marked not retryable); which one a
  completed run gets is any of them, and only a completed run can pass.
- The group's summary is left out: a refresh that derives an unchanged status may or may
  not write. The derived status and the write are exact.
- The three listings of a report are one step, and so are `failAttempt`'s read and its
  scorecard; `renewItemLease`'s own read is merged with the read of the poll just before it.
- `Submit` is atomic: a run left behind by a submission that returns an error is not
  modelled. Checkpoint artifacts and workspaces are left out.
- `RecoverStaleTasks` is applied at the crash; `HarnessRun` has it come late.
- Reads see the writes committed before them.
- `Init` is the state in which `SubmitGroup` has returned; a crash inside it is not modelled.
- `Fault` makes any store call of the dispatcher, an attempt or a request return an error,
  except where the code then reuses a stale in-memory row (`failAttempt` and
  `finalizeAttempt` after a failed read), retries in a loop (`waitForRun`), or has done
  nothing yet (a request's first read). The write error that `CancelGroup` discards is a
  disjunct of `CancelRow`; the error of `Controller.Cancel` it discards changes nothing else.

Bounds: `MaxRuns` attempts, `MaxCrashes` crashes, `MaxFaults` failing calls, `MaxLapses`
leases that lapse under a live goroutine, and `MaxRequests` of the requests in `Cancels`, `Retries` and
`Reports`, each issued at most once, at any time. Deadlock is not checked because a settled
group, once its bounds are used up, really has nothing left to do; that goes for the other
modules too (all requests served, all jobs done).

### How `HarnessRun` corresponds to the code

`run` is the status in `harness_runs`, `task` the one in `agent_tasks`, `running` the cancel functions
that `Runner.running` knows, `stop` the context of the task. `call` is where the Submit or
SpawnChild of a run is, `go` where the goroutine of its task is, `snap` what each syncer (the
call that starts the run, the task's events, the readers) has read of the task and not yet
stored over the run, `waits` the children that a parent waits for, `cancel` and `todo` the cancel
requests. `lost` and `misjudged` are history, for the exceptions of the properties.

| Actions | Code |
|---|---|
| `Submit`, `ToolCall`, `SpawnChild`, `waitForAvailableSlot`, `CreateTask`, `CreateFails`, `Refuse`, `GiveUp`, `Launch` | `Controller.Submit`, `startIsolatedExecution`, `SpawnChild`, `AgentDriver.Start`, `Runner.SubmitTask`; GiveUp is a request whose context is gone: the "failed" of `Submit` is then not stored |
| `PrepareFails`, `EventFails` | the errors of `Submit` between its row and the driver: the directories (the row is deleted, by `SpawnChild` too) and the `run_created` event (the row stays) |
| `Intake`, `Progress`, `cancelTask`, `failTask`, `Panic`, `LastCheck`, `Finish`, `Exit` | `Runner.execute` between two writes of the task that can change its status |
| `ChildEnded`, `StopChild`, `StoreChild` | `waitForTerminal`, with the cancellation of the child when the parent's context is done |
| `ListChildren`, `CancelTask`, `StoreCancelled` | `Controller.Cancel`, children first |
| `Get`, `SyncWrite` | `Driver.Sync` and `SyncSnapshot`: the read of the task and the write over the run |
| `TaskTimeout`, `RecoverStaleTasks`, `Crash` | the deadline of the task's context, the recovery of a start, the death and restart of the process |

Abstractions: of a snapshot only the status is kept; what the plan-act loop does between two
writes is one state, `work`; only the parent's own goroutine spawns children, one call after the
other, so the child budget cannot be raced and is left out; questions to the user and
resumption do not occur, as harness tasks are not interactive.

### How `ProviderRouter` corresponds to the code

`registered` are the objects in the registry (a provider, and the change that made the object), `on` those with
Enabled set, `snapshot` the objects in the candidate snapshot: the snapshot shares its objects with the registry, so
it sees `Enable` and `Disable` at once, until `Update` puts another object in the registry. `due` and `listing` are
the `go router.RebuildCandidates()` that have not listed the providers, or listed and not stored; `cooldown` the
entries of `Router.cooldowns`. A request (`rpc`) is in a call of Route (`route`: what it goes through, whether
penalties count, whom it has still to look at and whom it has found), at `try` with one provider, in a `race` with
several, or in between; `todo` are the candidates it has left, `exclude` those that a lost race has tried, `verdict`
the failure that it is about to record. `steady` is history: who was there for Route to find, and why, since it began.

| Actions | Code |
|---|---|
| `Register`, `Unregister`, `Enable`, `Disable`, `RegistryUpdate` (`Registry.Update`), `RebuildList`, `RebuildStore` | the registry and `providerpool/handler.go`, which starts a rebuild after each change; a change that cannot be saved has set Enabled and starts none |
| `RouteStarts`, `ReadPenalty`, `Look` | `getCandidatesFromSnapshot`: it loads the snapshot, counts the enabled providers (`shouldBypassPenalty`) and looks at one candidate after the other, with no lock over these reads |
| `findCandidates`, then `ReadPenalty`, `Look` again | the second pass of `Route` when the first finds nobody, over the registry's list, with a bypass of its own |
| `Routed`, `Race`, `NoRace` | what the caller of Route makes of it: `RouteWithFallback`, `executeWithProviderRace`, or no race after all |
| `TryNext`, `EndPass` | the loop of `RouteWithFallback`, the second pass of `ServeHTTP` |
| `Answered`, `AttemptFails`, `Cancelled`, `HangUp` | the ends of an attempt: an answer, an error of the provider, "context canceled" because the race is won or the client gone |
| `Judge` (in the last ones), then `Recorded` | `RecordFailure`: the test for the only provider comes before the lock, the entry under it; then the next API key or the next provider, which the error decides and the model leaves open, or the next result of a race |
| `CooldownEnds` | the clock |

Abstractions: of a cooldown only whether it runs is kept; counts stop at their threshold; the strategies
only order candidates, so which one comes first is left open; credentials, modes and health,
which can drop a candidate for reasons of its own, are left out. A failure is one of four
kinds, the ones that `RecordFailure` treats differently. The two tests of one candidate (Enabled, then the cooldown) are one step.

### How the small services correspond to the code

- `Managed`. A call of `Managed[T]` runs under its mutex and is one action of the same name. The
  timer is not under it: `TimerFires` starts a callback, which waits (`fired`) and later runs as
  `reclaimIdle`; `reclaimIdle` clears `m.timer` also when it points to a younger timer, which is
  then armed and known to nobody (`strays`). The reclaimer and `onCreate`, which run after the
  lock is released, change nothing that is modelled.
- `Broker`. `clients` is the list of the user, `stream` where `Handler.Stream` of each connection is,
  `closes` how often each channel was closed (twice would panic). `CloseDone` and `CloseClients`
  are the two halves of `Close`: handlers see `done` before the channels are closed.
- `Approvals`. `AuthorizeToolCall`, `AskClients`, `PushRequest`, `Select` and `Forget` are the tool
  call's steps, `ResolveTake`, `ResolveMismatch` and `ResolveAnswer` the answer's; between them both
  maps may change. Which policy a call falls under is left open. `Expire` is the timer and the
  time in `ExpiresAt`, which the code computes together.
- `Cron`. `entry` says whether the entry that `job.entryID` names is in the scheduler, `orphans` counts
  entries of the job that nobody names any more. `Fire` and `Trigger` start an execution;
  `Begin` and `End` are the two locked parts of `executeJob`; `Panic` ends it otherwise. `Reclaim` is
  `reclaim.Managed` dropping the service; the next call makes an empty one, while executions of
  the old one go on. A schedule is only that an entry may fire at any time.

### How `WorkflowEngine` corresponds to the code

The graph is a constant: `Edge` are the connections, with the port that a connection with a condition
asks for, `CheckpointNode` the nodes whose configuration has a checkpoint. Of an execution, `flow` is its
status, `queue` and `completed` its node queue and completed nodes, `checkpoint` and `resumeCh` its
checkpoint and the decision in its channel, each by the node it belongs to, and `ctx` its context.
`worker` says where the call of Execute is, and then its goroutine. `skipped` is history.

| Actions | Code |
|---|---|
| `Execute`, `SlotFound`, `WaitCancelled`, `Launch` | `Engine.Execute`: the slots are counted in one step and the execution is stored in another |
| `BeginLoop`, `Dequeue`, `NodeSucceeds`, `NodeFails`, `PassOn`, `ContextDone` | `runExecution` with `executeNode`, `queueNextNodes`, `isExecutionComplete`, `completeExecution`; the loop's select may take a node although the context is done |
| `Pause`, `TakeDecision`, `Resumed` | `pauseForCheckpoint`, in the order in which it stores and receives |
| `ResumeExecution`, `CancelExecution`, `CancelContext` | the calls of the same names; a cancellation stores the status first |
| `RequestEnds`, `Expires`, `CloseEngine`, `CloseReturns` | the request's context, from which `Execute` derives its own; its timeout; `Engine.Close` |

Abstractions: a node succeeds with some port or fails, and takes as long as it likes (its handler may look
at its context or not); the order of connections and of triggers is any order, which stands for every order
in the definition of a workflow; a workflow without a trigger, which fails at once, and one
without a limit are left out. The rows that `WorkflowService` stores are not modelled.


## 3. Runs

| Run | Instance | Shows |
|---|---|---|
| `leases` | 2 items, 1 slot, 1 attempt each, 3 runs, 1 crash | `TypeOK`, `Recoverable`, `OneAttemptPerItem`, `ConcurrencyBound`, `GroupNeverEndsEarly`, and the refinement `KeepsContract` |
| `cancel` | 1 item, 2 runs, a cancel, fairness | `EventuallyQuiet`: attempts resurrect cancelled rows, and end them again |
| `requests` | 1 item, 2 attempts, 2 runs; a retry, a report or a lapse | `QueuedItemsAreFree`, and after a lapse `DuplicatesArePaidFor` |
| `live` | 1 item, 1 attempt, 3 runs, 1 crash, 1 failing call, fairness | `EventuallySettled`, `AttemptsBounded`, `EvidenceMatches` |
| `runs` | a run and a child, a cancel, 1 crash, 1 fault, 2 slots, in the scenarios of `MCHarnessRun`, fairness | `TypeOK`, `CompletedIsTrue`, `NoWorkerLeftBehind`, `RunsTellTheTruth`, `OnlyLostWritesStrand` |
| `services` | the small services one at a time, fairness | the type invariants and `NoStaleRefusal`, `EventuallyServed` (router); `HeldIsLive`, `IdleIsReclaimed` (managed); `NoPanic`, `ShutdownDrains` (broker); `AllowedMeansApproved`, `OneAnswer`, `AnswerReaches`, `StaysAnswerable`, `EveryCallReturns` (approvals); `OneEntryPerJob`, `RunningIsTrue`, `EveryExecutionEnds` (cron) |
| `workflow` | 2 executions, 1 slot; a trigger, a branch, a disabled node, a node that waits for two, 2 checkpoints; fairness | `WorkflowTypeOK`, `DecisionFitsCheckpoint`, `IdlesOnlyAfterSkips`, `EveryFlowEnds` |
| `retry_refresh`, `report_race`, `slot`, `cron_reclaimed`, `workflow_triggers` | see below | expected violations |

### Why the bounds are enough

- *Groups.* Two items are what slots, ordering and derived statuses need; one item suffices
  where the race is between writers of one row. Three runs are an attempt, one that recovery
  adds, and one more. One crash, fault or lapse each reaches every step, because
  it may come at any of them; a second adds a second repetition of the same recovery. In `live` a
  retry by attempt count is left out (1 attempt): a crash, a failing call and the attempt itself
  make three runs, and `requests` has the second attempt. In
  `requests` the retry and the report do not meet each other (`MaxRequests` = 1): both race the
  same writers; in `requests` no run is cancelled by itself, and a behaviour with a lapse has no request and
  only runs that complete (the verdicts decide), because `live` and `cancel` have the others.
  The proofs in section 4 remove the bounds for most of these properties.
- *Runs.* One parent and one child are a whole cascade: grandchildren are children of a
  child, and siblings share nothing but slots. Everything at once is too much for a liveness
  check, so `MCHarnessRun` has three scenarios: *worker* (child, timeouts, late recovery),
  *cascade* (child and a cancel request, tasks end before they time out) and *alone* (everything but
  the child). In `slot` there is one slot, the smallest number that a parent can exhaust;
  `ZIMA_AGENT_MAX_CONCURRENT_TASKS` is 32 a user by default, and 32 parents exhaust it likewise.
- *Router.* Two providers are the only one and another; all decisions look at one or more than
  one. A threshold of 2 failures, or of 1 transient one, with two errors reaches every entry that the
  defaults of 3 and 5 have: below, at, and after a reset. Two changes have two rebuilds
  that may store in either order. Everything at once is beyond TLC, so `MCServices` has three scenarios: *registry* (one
  caller, and changes of one provider between any two reads of Route, while the other stays as it began), *caller*
  (one caller that races and meets errors of every kind, and a hang-up) and *callers* (one that races, one that does not, and one error or
  hang-up: a caller sees of another only cooldowns). For `NoStaleRefusal` the proof removes these bounds.
- *Managed.* Two holders, four instances and six calls let a timer of each instance fire late
  under the next; three settings are two changes of the idle time around a Close.
- *Broker and approvals.* Two connections and a buffer of one event: a slow client loses the
  second. One tool call with two answers, as calls share only the maps, by key; the approvals run with
  one connection, which may leave after it was counted.
- *Cron.* One job with two executions and one slot overlap and wait; two services are one
  reclaim; three edits are Disable, Update, Enable in every order. Jobs share only the slots.

- *Workflows.* Two executions are one that has the slot and one that waits for it. The graph has each
  kind of node and connection that `runExecution` tells apart, and a failed node is passed over
  (`ContinueOnError`; without it the execution just ends). Of two checkpoints in a row, a decision for the
  first could meet the second.

### Where the code disagrees with what it says

Five runs expect a violation, each of something a test or a comment of the repository says.

- `retry_refresh` (`NoStrandedItem`): the refresh of an attempt that ends while
  `RetryFailedGroup` runs writes "failed" over the "queued" the retry stored. The item waits in
  a group that `ListGroups` does not return any more, and nothing claims it.
- `report_race` (`ReportSparesLeasedItems`): the report tests the lease of a row it listed, scores,
  and overwrites the row as it is then. A row that waited for its retry when it was listed
  may be running under a valid lease by that time, which the comment at
  `harness/group_manager.go:248` excludes.
- `slot` (`CancelledCallerReturns`): a tool call spawns its child with a context without
  cancellation (`harness/subagent_executor.go:224`), and the submission of the child waits for a
  free slot as long as that context lives. When the slots are all held by parents that wait
  like this, nobody's end frees one: the calls do not return, also when their runs are cancelled or time out.
- `cron_reclaimed` (`ActiveJobsAreScheduled`): a scheduled job does not count as use of the cron
  service. It is reclaimed 15 minutes (by default) after the last API call, and its jobs, which are in
  memory only, are gone; the comment at `cron/cron.go:49` calls an active job scheduled.
- `workflow_triggers` (`NothingLeftToRun`): `isExecutionComplete` asks for nodes whose sources are all
  completed. Of two triggers that lead to one action, the second has no source and the action has an
  incomplete one: after the first trigger the execution is completed, with the second still in
  the queue. The comment at `workflow/engine.go:839` says that all reachable nodes are completed then. A
  disabled node does the same with one trigger: `isExecutionComplete` does not ask for it, so when it waits in the queue
  behind the last other node the execution is completed, and what follows the disabled node never runs. `CompletedRunsAll`
  proves the comment for workflows with one trigger and no disabled node.

### Known limits of the properties

They are stated with the conditions under which the code keeps them:

- `EvidenceMatches` fails with a cancel (an item cancelled during scoring is
  finalized as passed on a row that may name no run), with a report, and after a lapse.
- `AttemptsBounded` fails with several lapses or cancels: a slow copy brings a lower count back, the attempt
  under it fails and is retried, and another slow copy brings the higher count back. TLC finds it
  with two cancels, one item, one attempt and two runs, without a crash, a fault or a lapse: the first cancel lists the
  row before the attempt is counted and writes that count back, the goroutine finalizes on it and requeues the
  item, the next claim begins, the second cancel writes the count that it has listed in between, and
  `recordRun` counts beyond the bound. `AttemptsStayBounded` therefore allows one cancel or report; `live` has none.
- `IdlesOnlyAfterSkips` is not a property of every graph: the queue of an execution has room for as many
  entries as the workflow has nodes and drops the rest (`workflow/engine.go:813`). TLC finds the smallest kind of
  counterexample in a trigger that leads to three nodes by two connections each, one of them conditional: of the six
  entries two are dropped, and a node that is never queued again may be among them. `ValidateWorkflow` accepts
  such connections. `LoopEndsWithItsNodes` has the condition under which it cannot happen (`Plain`).
- `NoStaleRefusal` is about providers that Route had to find: enabled and free, or the only one enabled, from the
  moment it loads the snapshot until it gives up. A provider enabled in between may be missed: with A alone in the
  list (`providerpool/router.go:355`) and in a cooldown from other days, B enabled before the bypass is read (`:362`) ends
  the bypass, A is skipped (`:376`), and the request is refused while B is enabled and free. The next request finds B.
- `EventuallyServed` has one exception, and needs it: races that others go on winning record the "context canceled" of
  their losers as failures (`proxy/handler.go:1771`). When two callers race p and q again and again, one's race won by p
  while the other's is won by q, the cancelled losers bring both providers to their thresholds, a third caller is
  refused, the cooldowns end, and so on, with no provider at fault and everybody going on. It takes three callers for a
  threshold of 2, four for the default of 3. With the exception left out TLC finds a variant with two callers in the scenario
  *callers*: a call of Route that lasts while the other's races put now one provider, now the other into a cooldown
  may look at each just then, and be refused again and again.
- A crash inside `SubmitGroup`, between the group and its items, leaves a queued group without items
  (`harness/group_manager.go:119`); the models begin after it.
- `ConcurrencyBound` fails with a cancel (a cancelled item frees its slot while its goroutine
  still runs) and after a lapse (`dispatchGroup` counts rows, not goroutines).
- `OneAttemptPerItem` fails after a lapse, by design of leases, and with two retries of one
  group: the second writes the row it listed over one that has been claimed. With requests
  the run checks `QueuedItemsAreFree` instead, which a race breaks one
  claim earlier and therefore in smaller instances; it is stated up to the first lapse, and
  `DuplicatesArePaidFor` says what remains true after it. With cancels `LeaseExcludes` proves it.
- `EventuallyQuiet` is about cancels without crashes and faults: after either of them an item whose
  stale write made it active again in the cancelled group stays so, as nobody recovers
  items of a group that is not listed. An item that such a write requeues stays queued there.
- A refresh that read the group before `CancelGroup` stored "cancelled" may open it again
  (`harness/group_manager.go:651`); `GroupContract` allows a late refresh to reopen a group
  (`Reopen`), because the next tick looks at it once more.
- `OnlyLostWritesStrand` excepts runs whose last write was dropped (`lost`): `Submit` stores "failed" with
  the context of a request that is gone, `Submit` returns when the event `run_created` cannot be stored and leaves
  its row pending (`harness/manager.go:152`), `execute` stores "completed" with the context of a task
  that may have been cancelled since its last test, and a crash before the task's insert leaves
  the run without one. Such a run is pending or executing for ever, and its task keeps a slot until the next start.
- `NoWorkerLeftBehind` excepts children that a late `RecoverStaleTasks` took for interrupted
  (`misjudged`): their parents see "failed" and go on while they work.
- `HeldIsLive` excepts resources closed under a lease (`torn`): `Close` sets the count to zero, and the
  release of an old lease then counts for a new one.
- `OneEntryPerJob` excepts jobs rescheduled while paused (`repaused`): `Update` adds an entry for a
  paused job, `Enable` adds another one and forgets the first.
- `RunningIsTrue` excepts jobs whose handler has panicked (`panicked`): they are shown as running.
- `IdlesOnlyAfterSkips` excepts two states. A branch not taken leaves its target with its sources completed and never queued
  (`skipped`), and the loop waits for it until the timeout, so the execution fails though all that should run has run. And
  where only disabled nodes have run, `isExecutionComplete` was never asked. A disabled node beside others is no exception:
  it is passed over as completed, and whatever is left behind it is in the queue.
- Of workflows no property says that they keep to `MaxConcurrent` (callers that poll together exceed it), that an execution outlives
  the request that started it (`RequestEnds`: it is cancelled with it, `workflow/handler.go:502`), or that one shown as cancelled
  stays so (`Pause` and the last node overwrite the status).
- `DecisionFitsCheckpoint` is about the engine: a user who looked at one checkpoint decides at
  whichever the execution is paused at when the call arrives.

### Fairness

There is none for crashes, faults, requests of users or changes of the registry. What there is:

- `HarnessGroup`: the dispatcher (the ticker of `GroupDispatcher.Start` runs as long as the
  process does), each goroutine and each refresh (Go schedules them), the end of each run (the
  driver bounds a task's duration) and the clock (a lease ends). `live` has `MaxRuns` large
  enough for every attempt that one crash and one failing call can cause, so the bound never
  stands in for progress.
- `HarnessRun`: goroutines and calls that have begun, the deadline of a task's context, the recovery that
  each start launches. `Get` is strongly fair: the web client and the waits for a run poll, and
  other reads cannot keep them from it. A cancel request, once begun, goes on. In the scenario
  *cascade* the deadline never comes, so there fairness says that tasks end before it.
- `ProviderRouter`: cooldowns run out, rebuild goroutines and requests that have begun go on. That a caller
  asks again once it has been answered or refused is an assumption about clients, and
  `EventuallyServed` is about such callers.
- `Managed`: timers fire and their callbacks get the lock. Holders need not release.
- `Broker`, `Approvals`: handlers see a closed channel, tool calls go on, their timer fires.
- `WorkflowEngine`: goroutines go on, which of a node means that its handler ends (action handlers have timeouts or the
  execution's context); callers of Execute poll, so a slot that stays free is found; contexts expire;
  a cancellation that has begun cancels the context. Nobody need decide at a checkpoint.
- `Cron`: a semaphore slot goes to somebody who waits, and handlers end (their context has a deadline).

## 4. Proofs

`HarnessGroupProofs` and `HarnessAttemptProofs` prove, for every number of items, attempts, requests, crashes, faults
and (where not excluded) lapses, from the named assumptions `ConfigAssumption` (counts are
naturals, positive where the code defaults them) and `ProcAssumption` (process names differ):

| Theorem | States | Condition |
|---|---|---|
| `TypeCorrect` | `Spec => [](TypeOK /\ HasItem)` | none |
| `AlwaysRecoverable` | `Spec => []Recoverable` | none |
| `DuplicatesNeedRecoveries` | `Spec => []DuplicatesArePaidFor` | `SoleRetry` |
| `QueueIsFree` | `Spec => []QueuedItemsAreFree` | `SoleRetry` |
| `LeaseExcludes` | `Spec => []OneAttemptPerItem` | `Calm` |
| `AttemptsStayBounded` | `Spec => []AttemptsBounded` | `SoleCut` |
| `KeepsToItsSlots` | `Spec => []ConcurrencyBound` | `Uncut` |
| `PassesOnEvidence` | `Spec => []EvidenceMatches` | `Uncut` |
| `ClosesOnlyWhenEnded` | `Spec => []GroupNeverEndsEarly` | `Alone` |
| `ImplementsContract` | `Spec => KeepsContract` | `Alone` |

`SoleRetry`: nobody retries, or one request does and nobody asks for a report. `Calm` adds that no lease
lapses under a live goroutine, `SoleCut` to that one cancel or report at most, `Uncut` none of them, and
`Alone` no request at all. Each condition is where the property stops being true, not where the proof does
(*Known limits* in section 3 has the behaviours): a lapse is what `Calm` excludes, two retries
write rows that they listed over rows that have been claimed, two cancels bring counts back, one cancel frees the
slot of a goroutine that still runs, and a refresh that races a retry closes the group over a queued item.

The argument, layer by layer:

1. *Types.* `HasItem`: a goroutine in use was claimed for an item. With it every read and
   write of a row is well typed.
2. *Recoverability.* `Recoverable` alone is not inductive: a row is overwritten by copies.
   `Consistent` is its property of a single row, and `RecInv` says it of the table, of
   every copy and of every worklist, as each may be written back. Each writer (`ClaimedRow`,
   `FinalRow`, ...) keeps a row consistent, and that is one lemma.
3. *Exclusion.* `OneInv` says what a row owes to a goroutine: `HoldsLease`, that before each
   step that would make a second claim possible the row is leased or ended;
   `Untouched`, that a row listed by a recovery that is still under way has not moved
   since, because its goroutine is dead; and the same for a retry's worklist (`RetryInv`).
   A claim needs a queued row without a valid lease, which no live goroutine leaves. `OneInv` is kept up to the
   first lapse (`OneUntilLapse`), which is all `QueuedItemsAreFree` asks; under `Calm` there is none (`LapsesCount`).
4. *Slots and closing.* The active rows and the slots left never exceed MaxConcurrency (`SlotsInv`): a row
   becomes active only by a claim, which takes a slot (`RowSteps`); and by `OneInv` live goroutines hold
   different active rows. For closing, `AloneInv` adds that a refresh about to write a
   closed status has seen only ended rows, which then stay ended.
5. *Refinement.* `RowSteps` and `ViewSteps` say how one step may change a row's phase or a
   refresh's view; `ContractStep` turns each into a step of `GroupContract` or a stutter.

6. *Duplicates.* After a lapse `OneInv` is gone, and what remains is a balance. `PaidInv` counts with the
   goroutines of an item those that are due, one for a queued row and one for a row that a retry may yet queue,
   and bounds the sum by one more than the recoveries. Every step moves a goroutine or a due one, or adds a recovery (`Balance`).
7. *Evidence.* `EvidenceInv` follows a card from the run that completed through scoring and the copy that
   `finalizeAttempt` writes. It needs `OneInv`: the row that names the run must still be the goroutine's.
8. *Counting.* `AttemptsBounded` alone is not inductive, as copies bring old counts back. `CountInv` bounds the count
   of the row, and of every copy under way in a goroutine, a recovery, a retry or a cancel; a queued row is strictly below the bound,
   and so is a copy that has still to be counted; and of what the one cancel or report has listed, that nothing under way is older.

The other proof modules hold for any number of runs, callers, providers, holders, connections, calls, answers, jobs
and executions, and any workflow, from the assumption that the module declares (finite sets where something is counted, positive limits;
that a child's parent is no child itself):

| Module, assumption | Theorems | Invariant and argument |
|---|---|---|
| `HarnessRunProofs`, `RunAssumption` | `RunsAreTyped`, `NoFalseCompletion`, `ParentsWait` | `RunInv`: a completed task has no goroutine that writes it and stays completed (`CompletedIsOver`), so every copy of "completed" is true (`CompletedTold`); whoever is told that a run has ended is told of one at rest (`EndTold`, `AtRest`), which it stays; a parent waits for one child, which was launched (`Waiting`) |
| `ProviderRouterProofs`, `RouterAssumption` | `RequestsAreTyped`, `RefusalsAreFresh` | `RouterInv`: only a request that tries one provider after the other has a rest (`BetweenPasses`), so only Route refuses. `RefusalInv`: the registry has one object of each provider (`OneObject`), and in the second pass of Route a provider that has been open since Route began is found, or still to be looked at with a bypass that lets it through (`Kept`); the pass over the snapshot needs no invariant, as it refuses nobody |
| `ManagedProofs`, `ManagedAssumption` | `InUseIsNotReclaimed`, `CountIsOfLeases` | `ManagedInv`: the count is the number of leases until a Close under a lease, and a timer reclaims only at zero |
| `ApprovalsProofs`, `ApprovalsAssumption`, `BrokerAssumption` | `NeverPanics`, `ApprovedOnly`, `ConfirmedOnce`, `AnswersCount`, `RequestsStayAnswerable`, `MapsAgree`, `BrokerListFits` | `BrokerInv`; `ApprovalsInv`: a request is in one place only, the maps, the hands of one resolver or nowhere (`OnePlace`), so one resolver answers it, and what is in a channel or returned was said by one (`ChannelTrue`, `ResultTrue`) |
| `CronProofs`, `CronAssumption` | `KeepsToTheSlots`, `ScheduledOnce`, `ShownRunningRuns` | `CronInv`: a job's table is of the service in use or an earlier one (`HomesArePast`), and no service runs more handlers than slots (`WithinSlots`) |
| `WorkflowProofs`, `WorkflowAssumption` (finitely many nodes and connections) | `WorkflowTypesHold`, `DecisionsFit`, `LoopEndsWithItsNodes`, `CompletedRunsAll` | `WorkflowInv`: whatever is queued or runs has its sources behind it (`QueueOK`), and stays so because completed nodes only become more; an execution is shown as paused only while its goroutine waits with an empty channel (`PausedIsWaiting`), and a decision that was sent finds it still waiting or ended (`Pending`) |

Two theorems about workflows have a condition on the graph. `LoopEndsWithItsNodes` assumes `Plain`: no connection leads to a trigger, and
no result of a node leads twice to the same node. The running node and the queue are then a line in which nothing stands twice
and nothing stands that has run (`LineInv`); a sequence of different nodes is no longer than the workflow has nodes (`NoTwice`), so nothing is
dropped, and every node that is due and to which all connections were followed stands in it. When the loop goes on, a node is due
or only disabled ones have run (`GoesOn`), so an empty line leaves only what was left out. `LinePasses` is the one step of that
argument: completing the head of the line. `CompletedRunsAll` assumes one trigger and no disabled node: then whatever is
still queued when `isExecutionComplete` is asked either has run or would have made it say no (`WholeOf`).

Model-checked only: the liveness properties
(`EventuallySettled`, `EventuallyQuiet`, `RunsTellTheTruth`, `OnlyLostWritesStrand`, `EventuallyServed`,
`IdleIsReclaimed`, `ShutdownDrains`, `EveryCallReturns`, `EveryExecutionEnds`, `EveryFlowEnds`), which are out of the
prover's reach (they need fairness or `ENABLED`); the workflow graphs outside `Plain`; and
`AttemptsBounded`, `EvidenceMatches` and `OneAttemptPerItem` where the runs have
requests that the conditions above leave out (the run `requests` names a retry and a report, begins one of them, and
either alone is within `SoleRetry`): in those instances TLC finds them true, or a limit above says why not. Every
safety property that a passing run checks is stated by a theorem.

## 5. Not modelled, and the plan

Most of the repository (formats, adapters, text and vector work, user interface, vendored code) has no
protocol of its own, and `PROJECT.json` names the reason for each part. Of what is modelled, the
following is left out, in the order in which it is worth adding:

1. `SubmitGroup` with a crash inside, two retries at once, faults under a retry.
2. The question manager, which is `Approvals` without a timer for questions that require an answer, and the exec
   approvals that `Resolve` falls back to.
3. The executions that `WorkflowService` stores beside the engine's, and the workflow driver of the harness, which copies them into runs.
4. `DeleteRun` and the run actions; drivers other than the agent's, resumption of interactive tasks.

Proofs, next: the contract of the group with cancels; and for `HarnessRun` what `OnlyLostWritesStrand` says of a state without liveness.
