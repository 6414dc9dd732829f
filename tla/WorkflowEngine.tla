--------------------------- MODULE WorkflowEngine ---------------------------
(***************************************************************************)
(* Executions of a workflow (workflow.Engine).  A workflow is a graph of   *)
(* nodes.  Each execution has a goroutine that takes nodes from a queue,   *)
(* runs them one after the other, and queues the nodes that follow, until  *)
(* isExecutionComplete finds nothing left.  A node may be a checkpoint,    *)
(* at which the execution pauses until somebody sends it a decision.       *)
(* Around it callers wait for one of the slots of the workflow, cancel,    *)
(* resume, hang up, and close the engine.                                  *)
(*                                                                         *)
(* The parts that run under a mutex are steps.  Of a node only its result  *)
(* matters: it fails, or its output names one of the ports.  The time that *)
(* a context has left is abstracted to when it expires.                    *)
(***************************************************************************)
EXTENDS Integers, Sequences, FiniteSets, SequencesExt

CONSTANTS
    Node, TriggerNode, DisabledNode,
    CheckpointNode,      \* the nodes whose configuration has a checkpoint
    Edge,                \* connections: [from, to, port]
    Port,                \* the ports that an output may name
    ContinueOnError,
    Flow,                \* executions
    MaxConcurrentFlows,
    NoNode

AnyPort == "any"         \* the port of a connection without a condition

ASSUME WorkflowAssumption ==
    /\ IsFiniteSet(Node) /\ IsFiniteSet(Flow) /\ Port # {} /\ NoNode \notin Node
    /\ TriggerNode # {} /\ TriggerNode \subseteq Node /\ DisabledNode \subseteq Node
    /\ CheckpointNode \subseteq Node
    /\ Edge \subseteq [from : Node, to : Node, port : Port \cup {AnyPort}]
    /\ IsFiniteSet(Edge) /\ ContinueOnError \in BOOLEAN
    /\ MaxConcurrentFlows \in Nat \ {0}

VARIABLES
    worker,      \* where the call of Execute, and later its goroutine, is
    flow,        \* execution.Status
    ctx,         \* the context of the execution, or of the caller before that
    cancelling,  \* CancelExecution has set the status and not the context
    node,        \* the node that the goroutine runs
    queue, completed,
    checkpoint,  \* execution.Checkpoint, by its node
    resumeCh,    \* the decision in the channel, by the checkpoint it was given at
    taken,       \* the decision that the goroutine has taken from it
    skipped,     \* history: nodes to which a connection was not followed
    engine       \* "open", "closing" or "closed"

graph        == <<node, queue, completed, skipped>>
decisions    == <<checkpoint, resumeCh, taken>>
workflowVars == <<worker, flow, ctx, cancelling, graph, decisions, engine>>

Alive(x) == worker[x] \in {"start", "loop", "node", "paused", "resumed"}

(* MUTANT: the slot of an execution stays taken.                           *)
EverySlotKept(x) == flow[x] # "none"

executionConsumesConcurrencySlot(x) == flow[x] \in {"pending", "running", "paused"}

-----------------------------------------------------------------------------
(* Execute.                                                                *)

Execute(x) ==
    /\ worker[x] = "unused"
    /\ worker' = [worker EXCEPT ![x] = "wait"]
    /\ UNCHANGED <<flow, ctx, cancelling, graph, decisions, engine>>

(* The slots are counted here, and the execution is stored later.          *)
SlotFound(x) ==
    /\ worker[x] = "wait"
    /\ Cardinality({y \in Flow : executionConsumesConcurrencySlot(y)}) < MaxConcurrentFlows
    /\ worker' = [worker EXCEPT ![x] = "admitted"]
    /\ UNCHANGED <<flow, ctx, cancelling, graph, decisions, engine>>

WaitCancelled(x) ==
    /\ worker[x] = "wait" /\ ctx[x] # "live"
    /\ worker' = [worker EXCEPT ![x] = "refused"]
    /\ UNCHANGED <<flow, ctx, cancelling, graph, decisions, engine>>

Launch(x) ==
    /\ worker[x] = "admitted"
    /\ worker' = [worker EXCEPT ![x] = "start"]
    /\ flow' = [flow EXCEPT ![x] = "pending"]
    /\ UNCHANGED <<ctx, cancelling, graph, decisions, engine>>

-----------------------------------------------------------------------------
(* The graph.                                                              *)

Sources(n) == {e.from : e \in {e \in Edge : e.to = n}}

areDependenciesMet(n, done) == Sources(n) \subseteq done

(* A disabled node has no result, so none of its connections is left out.  *)
Follows(e, result) == result = "disabled" \/ e.port \in {AnyPort, result}

(* MUTANT: a target is queued by the first of its sources.                 *)
NextEdgesUnchecked(n, result, done) == {e \in Edge : e.from = n /\ Follows(e, result)}

(* queueNextNodes: the targets whose sources have all been completed, in   *)
(* the order of their connections.  A full queue drops what it has no room *)
(* for.                                                                    *)
NextEdges(n, result, done) ==
    {e \in Edge : e.from = n /\ Follows(e, result) /\ areDependenciesMet(e.to, done)}

Queued(q, s) == SubSeq(q \o s, 1, IF Len(q \o s) < Cardinality(Node)
                                  THEN Len(q \o s) ELSE Cardinality(Node))

(* MUTANT: nodes that have run are not passed over.                        *)
isExecutionCompleteOfAll(done) ==
    \A n \in Node \ DisabledNode : Sources(n) # {} => ~ areDependenciesMet(n, done)

isExecutionComplete(done) ==
    \A n \in Node \ (done \cup DisabledNode) :
        Sources(n) # {} => ~ areDependenciesMet(n, done)

(* The node n is completed with this result: what follows it is queued.    *)
queueNextNodes(x, q, n, result) ==
    /\ completed' = [completed EXCEPT ![x] = @ \cup {n}]
    /\ \E s \in SetToSeqs(NextEdges(n, result, completed'[x])) :
          queue' = [queue EXCEPT ![x] = Queued(q, [i \in DOMAIN s |-> s[i].to])]
    /\ skipped' = [skipped EXCEPT ![x] =
          @ \cup {e.to : e \in {e \in Edge : e.from = n /\ ~ Follows(e, result)}}]

-----------------------------------------------------------------------------
(* runExecution.  In the loop the context and the queue compete.           *)

BeginLoop(x) ==
    /\ worker[x] = "start"
    /\ worker' = [worker EXCEPT ![x] = "loop"]
    /\ flow' = [flow EXCEPT ![x] = "running"]
    /\ \E s \in SetToSeqs(TriggerNode) : queue' = [queue EXCEPT ![x] = s]
    /\ UNCHANGED <<ctx, cancelling, node, completed, skipped, decisions, engine>>

Ended(x, status) ==
    /\ worker' = [worker EXCEPT ![x] = "done"]
    /\ flow' = [flow EXCEPT ![x] = status]

ByContext(x) == IF ctx[x] = "expired" THEN "failed" ELSE "cancelled"

ContextDone(x) ==
    /\ worker[x] \in {"loop", "paused"} /\ ctx[x] # "live"
    /\ Ended(x, ByContext(x))
    /\ UNCHANGED <<ctx, cancelling, graph, decisions, engine>>

(* A node that has been completed before is dropped, a disabled one passed *)
(* over, and neither is followed by a look at whether anything is left.    *)
Dequeue(x) ==
    /\ worker[x] = "loop" /\ queue[x] # <<>>
    /\ LET n == Head(queue[x]) IN
       \/ /\ n \in completed[x]
          /\ queue' = [queue EXCEPT ![x] = Tail(@)]
          /\ UNCHANGED <<worker, node, completed, skipped>>
       \/ /\ n \in DisabledNode \ completed[x]
          /\ queueNextNodes(x, Tail(queue[x]), n, "disabled")
          /\ UNCHANGED <<worker, node>>
       \/ /\ n \notin DisabledNode \cup completed[x]
          /\ queue' = [queue EXCEPT ![x] = Tail(@)]
          /\ node' = [node EXCEPT ![x] = n]
          /\ worker' = [worker EXCEPT ![x] = "node"]
          /\ UNCHANGED <<completed, skipped>>
    /\ UNCHANGED <<flow, ctx, cancelling, decisions, engine>>

(* The execution goes on behind its node, or is complete.                  *)
PassOn(x, result) ==
    /\ queueNextNodes(x, queue[x], node[x], result)
    /\ IF isExecutionComplete(completed'[x])
       THEN Ended(x, "completed")
       ELSE /\ worker' = [worker EXCEPT ![x] = "loop"]
            /\ flow' = [flow EXCEPT ![x] = IF worker[x] = "resumed" THEN "running" ELSE @]
    /\ node' = [node EXCEPT ![x] = NoNode]

NodeSucceeds(x) ==
    /\ worker[x] = "node" /\ node[x] \notin CheckpointNode
    /\ \E p \in Port : PassOn(x, p)
    /\ UNCHANGED <<ctx, cancelling, decisions, engine>>

(* A failed node names no port.                                            *)
NodeFails(x) ==
    /\ worker[x] = "node" /\ node[x] \notin TriggerNode
    /\ IF ctx[x] = "live" /\ ContinueOnError
       THEN PassOn(x, "failed")
       ELSE /\ Ended(x, IF ctx[x] = "live" THEN "failed" ELSE ByContext(x))
            /\ completed' = [completed EXCEPT ![x] = @ \cup {node[x]}]
            /\ UNCHANGED <<node, queue, skipped>>
    /\ UNCHANGED <<ctx, cancelling, decisions, engine>>

(* pauseForCheckpoint, whatever has become of the status meanwhile.        *)
Pause(x) ==
    /\ worker[x] = "node" /\ node[x] \in CheckpointNode
    /\ worker' = [worker EXCEPT ![x] = "paused"]
    /\ flow' = [flow EXCEPT ![x] = "paused"]
    /\ checkpoint' = [checkpoint EXCEPT ![x] = node[x]]
    /\ completed' = [completed EXCEPT ![x] = @ \cup {node[x]}]
    /\ UNCHANGED <<ctx, cancelling, node, queue, skipped, resumeCh, taken, engine>>

TakeDecision(x) ==
    /\ worker[x] = "paused" /\ resumeCh[x] # NoNode
    /\ worker' = [worker EXCEPT ![x] = "resumed"]
    /\ taken' = [taken EXCEPT ![x] = resumeCh[x]]
    /\ resumeCh' = [resumeCh EXCEPT ![x] = NoNode]
    /\ UNCHANGED <<flow, ctx, cancelling, graph, checkpoint, engine>>

Resumed(x) ==
    /\ worker[x] = "resumed"
    /\ \E p \in Port : PassOn(x, p)
    /\ UNCHANGED <<ctx, cancelling, decisions, engine>>

-----------------------------------------------------------------------------
(* Other calls.                                                            *)

(* MUTANT: the execution is shown as paused until its goroutine goes on.   *)
ResumeKeepsPaused(x) ==
    /\ flow[x] = "paused" /\ resumeCh[x] = NoNode
    /\ resumeCh' = [resumeCh EXCEPT ![x] = checkpoint[x]]
    /\ UNCHANGED <<worker, flow, ctx, cancelling, graph, checkpoint, taken, engine>>

ResumeExecution(x) ==
    /\ flow[x] = "paused" /\ resumeCh[x] = NoNode
    /\ resumeCh' = [resumeCh EXCEPT ![x] = checkpoint[x]]
    /\ flow' = [flow EXCEPT ![x] = "running"]
    /\ UNCHANGED <<worker, ctx, cancelling, graph, checkpoint, taken, engine>>

Cancelled(x) == [ctx EXCEPT ![x] = IF @ = "live" THEN "cancelled" ELSE @]

CancelExecution(x) ==
    /\ flow[x] \in {"running", "paused"}
    /\ flow' = [flow EXCEPT ![x] = "cancelled"]
    /\ cancelling' = [cancelling EXCEPT ![x] = TRUE]
    /\ UNCHANGED <<worker, ctx, graph, decisions, engine>>

CancelContext(x) ==
    /\ cancelling[x]
    /\ cancelling' = [cancelling EXCEPT ![x] = FALSE]
    /\ ctx' = Cancelled(x)
    /\ UNCHANGED <<worker, flow, graph, decisions, engine>>

(* The request that called Execute is over, or its client has gone: its    *)
(* context is the parent of the execution's.                               *)
RequestEnds(x) ==
    /\ worker[x] \in {"wait", "admitted"} \/ Alive(x)
    /\ ctx[x] = "live"
    /\ ctx' = Cancelled(x)
    /\ UNCHANGED <<worker, flow, cancelling, graph, decisions, engine>>

Expires(x) ==
    /\ Alive(x) /\ ctx[x] = "live"
    /\ ctx' = [ctx EXCEPT ![x] = "expired"]
    /\ UNCHANGED <<worker, flow, cancelling, graph, decisions, engine>>

(* Close cancels the executions that are stored by now, and waits for all. *)
CloseEngine ==
    /\ engine = "open"
    /\ engine' = "closing"
    /\ ctx' = [x \in Flow |-> IF Alive(x) THEN Cancelled(x)[x] ELSE ctx[x]]
    /\ UNCHANGED <<worker, flow, cancelling, graph, decisions>>

CloseReturns ==
    /\ engine = "closing" /\ \A x \in Flow : ~ Alive(x)
    /\ engine' = "closed"
    /\ UNCHANGED <<worker, flow, ctx, cancelling, graph, decisions>>

-----------------------------------------------------------------------------
WorkflowInit ==
    /\ worker = [x \in Flow |-> "unused"] /\ flow = [x \in Flow |-> "none"]
    /\ ctx = [x \in Flow |-> "live"] /\ cancelling = [x \in Flow |-> FALSE]
    /\ node = [x \in Flow |-> NoNode] /\ queue = [x \in Flow |-> <<>>]
    /\ completed = [x \in Flow |-> {}] /\ skipped = [x \in Flow |-> {}]
    /\ checkpoint = [x \in Flow |-> NoNode] /\ resumeCh = [x \in Flow |-> NoNode]
    /\ taken = [x \in Flow |-> NoNode] /\ engine = "open"

RunExecution(x) ==
    \/ BeginLoop(x) \/ ContextDone(x) \/ Dequeue(x) \/ NodeSucceeds(x) \/ NodeFails(x)
    \/ Pause(x) \/ TakeDecision(x) \/ Resumed(x)

Entering(x) == SlotFound(x) \/ WaitCancelled(x) \/ Launch(x)

WorkflowNext ==
    \/ \E x \in Flow :
          \/ Execute(x) \/ Entering(x) \/ RunExecution(x)
          \/ ResumeExecution(x) \/ CancelExecution(x) \/ CancelContext(x)
          \/ RequestEnds(x) \/ Expires(x)
    \/ CloseEngine \/ CloseReturns

WorkflowFairness ==
    /\ \A x \in Flow : /\ WF_workflowVars(Entering(x)) /\ WF_workflowVars(RunExecution(x))
                       /\ WF_workflowVars(CancelContext(x)) /\ WF_workflowVars(Expires(x))
    /\ WF_workflowVars(CloseReturns)

WorkflowSpec == WorkflowInit /\ [][WorkflowNext]_workflowVars /\ WorkflowFairness

-----------------------------------------------------------------------------
(* The types; and whatever is queued or runs is a trigger or has all its   *)
(* sources behind it, and nothing runs twice.                              *)
WorkflowTypeOK ==
    /\ worker \in [Flow -> {"unused", "wait", "refused", "admitted", "start", "loop",
                            "node", "paused", "resumed", "done"}]
    /\ flow \in [Flow -> {"none", "pending", "running", "paused", "completed",
                          "failed", "cancelled"}]
    /\ ctx \in [Flow -> {"live", "cancelled", "expired"}]
    /\ cancelling \in [Flow -> BOOLEAN] /\ engine \in {"open", "closing", "closed"}
    /\ \A f \in {node, checkpoint, resumeCh, taken} : f \in [Flow -> Node \cup {NoNode}]
    /\ completed \in [Flow -> SUBSET Node] /\ skipped \in [Flow -> SUBSET Node]
    /\ \A x \in Flow :
          LET ToRun == {queue[x][i] : i \in DOMAIN queue[x]} \cup
                       (IF worker[x] = "node" THEN {node[x]} ELSE {})
          IN  /\ queue[x] \in Seq(Node) /\ Len(queue[x]) <= Cardinality(Node)
              /\ \A n \in ToRun \ TriggerNode : areDependenciesMet(n, completed[x])
              /\ worker[x] = "node" => node[x] \notin completed[x]

(* However callers of ResumeExecution race each other, the goroutine and a *)
(* cancellation, a decision that was accepted at one checkpoint is not     *)
(* kept for the next one.                                                  *)
DecisionFitsCheckpoint ==
    \A x \in Flow : /\ resumeCh[x] \in {NoNode, checkpoint[x]}
                    /\ worker[x] = "resumed" => taken[x] = checkpoint[x]

(* runExecution waits with an empty queue, which is until the context ends *)
(* it, only for a node that is due and that a connection which was not     *)
(* followed has kept out of the queue; when the last node has run it stops *)
(* at once.  Where only disabled nodes have run nobody has looked whether  *)
(* anything is left.                                                       *)
IdlesOnlyAfterSkips ==
    \A x \in Flow : worker[x] = "loop" /\ queue[x] = <<>> =>
        \/ completed[x] \subseteq DisabledNode
        \/ \E n \in skipped[x] \ (completed[x] \cup DisabledNode) :
              Sources(n) # {} /\ areDependenciesMet(n, completed[x])

(* Everybody who waits for a slot gets one or gives up, whatever the       *)
(* others do with theirs; every execution ends, and so does Close.         *)
EveryFlowEnds ==
    /\ \A x \in Flow : worker[x] = "wait" ~> worker[x] \in {"refused", "done"}
    /\ engine = "closing" ~> engine = "closed"

(* The comment at isExecutionComplete says that it checks if all reachable *)
(* nodes are completed: no completed execution has a node left that was    *)
(* queued to run.                                                          *)
NothingLeftToRun ==
    \A x \in Flow : flow[x] = "completed" =>
        \A i \in DOMAIN queue[x] : queue[x][i] \in completed[x]

=============================================================================
