--------------------------- MODULE WorkflowProofs ---------------------------
(***************************************************************************)
(* Theorems about WorkflowEngine for any workflow and any number of        *)
(* executions and slots.                                                   *)
(*                                                                         *)
(* What is queued stays runnable because the set of completed nodes only   *)
(* grows.  A decision fits because one is accepted only while the          *)
(* goroutine waits with an empty channel (PausedIsWaiting), and one that   *)
(* was accepted is taken before the goroutine goes on or never (Pending).  *)
(* The loop does not wait for nothing because the node that runs and those *)
(* in the queue are a line (LineInv) in which nothing stands twice, so     *)
(* that the queue has room for all of it, and from which nothing is        *)
(* missing but what a branch left out; this needs a workflow without       *)
(* doubled connections (Plain).                                            *)
(***************************************************************************)
EXTENDS WorkflowEngine, FiniteSetTheorems, SequenceTheorems, TLAPS

(* The types without the queue.                                            *)
FlowTypeOK ==
    /\ worker \in [Flow -> {"unused", "wait", "refused", "admitted", "start", "loop",
                            "node", "paused", "resumed", "done"}]
    /\ flow \in [Flow -> {"none", "pending", "running", "paused", "completed",
                          "failed", "cancelled"}]
    /\ ctx \in [Flow -> {"live", "cancelled", "expired"}]
    /\ cancelling \in [Flow -> BOOLEAN] /\ engine \in {"open", "closing", "closed"}
    /\ checkpoint \in [Flow -> Node \cup {NoNode}]
    /\ resumeCh \in [Flow -> Node \cup {NoNode}]
    /\ taken \in [Flow -> Node \cup {NoNode}]

GraphTypeOK ==
    /\ node \in [Flow -> Node \cup {NoNode}]
    /\ queue \in [Flow -> Seq(Node)]
    /\ completed \in [Flow -> SUBSET Node] /\ skipped \in [Flow -> SUBSET Node]

(* A goroutine that runs a node, or pauses behind it, has one.             *)
AtNode == \A x \in Flow : worker[x] \in {"node", "paused", "resumed"} => node[x] \in Node

(* What may be queued: a trigger, or what all its sources lead to.         *)
Runnable(n, done) ==
    \/ n \in TriggerNode
    \/ Sources(n) # {} /\ areDependenciesMet(n, done)

QueueOK ==
    \A x \in Flow :
        /\ Len(queue[x]) <= Cardinality(Node)
        /\ \A i \in 1 .. Len(queue[x]) : Runnable(queue[x][i], completed[x])
        /\ worker[x] = "node" => /\ Runnable(node[x], completed[x])
                                 /\ node[x] \notin completed[x]

GraphInv == GraphTypeOK /\ AtNode /\ QueueOK

(* An execution is shown as paused only while its goroutine waits and no   *)
(* decision is on its way.                                                 *)
PausedIsWaiting ==
    \A x \in Flow : flow[x] = "paused" => worker[x] = "paused" /\ resumeCh[x] = NoNode

(* A decision on its way is for a goroutine that waits, or has ended.      *)
Pending == \A x \in Flow : resumeCh[x] # NoNode => worker[x] \in {"paused", "done"}

WorkflowInv ==
    FlowTypeOK /\ GraphInv /\ PausedIsWaiting /\ Pending /\ DecisionFitsCheckpoint

-----------------------------------------------------------------------------
(* Sequences.                                                              *)

LEMMA Order ==
    ASSUME NEW S, IsFiniteSet(S), NEW s \in SetToSeqs(S)
    PROVE  s \in Seq(S) /\ Len(s) = Cardinality(S) /\ DOMAIN s = 1 .. Len(s)
<1>1. Cardinality(S) \in Nat
  BY FS_CardinalityType
<1>2. s \in [1 .. Cardinality(S) -> S]
  BY DEF SetToSeqs
<1> QED
  BY <1>1, <1>2

LEMMA NodesCount == Cardinality(Node) \in Nat
  BY WorkflowAssumption, FS_CardinalityType

(* What is left in the queue was in it or is new.                          *)
LEMMA QueuedFrom ==
    ASSUME NEW q \in Seq(Node), NEW s \in Seq(Node)
    PROVE  /\ Queued(q, s) \in Seq(Node) /\ Len(Queued(q, s)) <= Cardinality(Node)
           /\ \A i \in 1 .. Len(Queued(q, s)) :
                 \/ \E k \in 1 .. Len(q) : Queued(q, s)[i] = q[k]
                 \/ \E k \in 1 .. Len(s) : Queued(q, s)[i] = s[k]
<1> DEFINE qs == q \o s
           m == IF Len(qs) < Cardinality(Node) THEN Len(qs) ELSE Cardinality(Node)
<1>1. qs \in Seq(Node) /\ Len(qs) = Len(q) + Len(s)
  OBVIOUS
<1>2. m \in Nat /\ m <= Len(qs) /\ m <= Cardinality(Node)
  BY <1>1, NodesCount
<1>3. Queued(q, s) = SubSeq(qs, 1, m)
  BY DEF Queued
<1> HIDE DEF m
<1>4. /\ Queued(q, s) \in Seq(Node) /\ Len(Queued(q, s)) = m
      /\ \A i \in 1 .. m : Queued(q, s)[i] = qs[i]
  <2> HIDE DEF qs
  <2> QED
    BY <1>1, <1>2, <1>3
<1>5. ASSUME NEW i \in 1 .. m
      PROVE  \/ \E k \in 1 .. Len(q) : qs[i] = q[k]
             \/ \E k \in 1 .. Len(s) : qs[i] = s[k]
  <2>1. CASE i <= Len(q)
    BY <2>1, <1>1
  <2>2. CASE ~ (i <= Len(q))
    <3>1. i \in Nat /\ i <= Len(q) + Len(s)
      BY <1>1, <1>2
    <3>2. i - Len(q) \in 1 .. Len(s)
      <4>1. Len(q) \in Nat /\ Len(s) \in Nat
        OBVIOUS
      <4> QED
        BY <2>2, <3>1, <4>1
    <3>3. i \in 1 .. Len(q) + Len(s)
      BY <3>1
    <3>4. \A j \in 1 .. Len(q) + Len(s) :
             (q \o s)[j] = IF j <= Len(q) THEN q[j] ELSE s[j - Len(q)]
      BY ConcatProperties, Zenon
    <3>5. qs[i] = s[i - Len(q)]
      BY <2>2, <3>3, <3>4, Zenon
    <3> QED
      BY <3>2, <3>5, Zenon
  <2> QED
    BY <2>1, <2>2
<1> QED
  BY <1>2, <1>4, <1>5

(* Completing a node keeps everything queued runnable, and what it queues  *)
(* is runnable.                                                            *)
LEMMA QueueNext ==
    ASSUME GraphTypeOK, NEW x \in Flow, NEW n \in Node, NEW result, NEW q \in Seq(Node),
           \A i \in 1 .. Len(q) : Runnable(q[i], completed[x]),
           queueNextNodes(x, q, n, result)
    PROVE  /\ queue' = [queue EXCEPT ![x] = queue'[x]]
           /\ completed' = [completed EXCEPT ![x] = completed'[x]]
           /\ skipped' \in [Flow -> SUBSET Node]
           /\ queue'[x] \in Seq(Node) /\ Len(queue'[x]) <= Cardinality(Node)
           /\ completed'[x] = completed[x] \cup {n}
           /\ \A i \in 1 .. Len(queue'[x]) : Runnable(queue'[x][i], completed'[x])
<1> USE WorkflowAssumption
<1>1. /\ completed' = [completed EXCEPT ![x] = @ \cup {n}]
      /\ completed'[x] = completed[x] \cup {n}
  BY DEF queueNextNodes, GraphTypeOK
<1> DEFINE E == NextEdges(n, result, completed'[x])
<1>2. E \subseteq Edge /\ \A e \in E : e.to \in Node /\ Runnable(e.to, completed'[x])
  BY DEF NextEdges, Runnable, Sources
<1>3. IsFiniteSet(E)
  <2>1. IsFiniteSet(E)
    BY <1>2, FS_Subset
  <2> QED BY <2>1
<1>4. PICK s \in SetToSeqs(E) :
         queue' = [queue EXCEPT ![x] = Queued(q, [i \in DOMAIN s |-> s[i].to])]
  BY DEF queueNextNodes
<1>5. s \in Seq(E) /\ DOMAIN s = 1 .. Len(s)
  BY <1>3, Order
<1> DEFINE t == [i \in DOMAIN s |-> s[i].to]
<1>6. /\ t \in Seq(Node) /\ Len(t) = Len(s)
      /\ \A i \in 1 .. Len(t) : Runnable(t[i], completed'[x])
  <2>1. Len(s) \in Nat /\ \A i \in 1 .. Len(s) : s[i] \in E
    BY <1>5
  <2> HIDE DEF E
  <2>2. t \in [1 .. Len(s) -> Node]
    BY <2>1, <1>2, <1>5
  <2> QED
    BY <2>1, <2>2, <1>2, <1>5
<1>7. \A i \in 1 .. Len(q) : Runnable(q[i], completed'[x])
  BY <1>1 DEF Runnable, areDependenciesMet
<1>8. queue'[x] = Queued(q, t) /\ queue' = [queue EXCEPT ![x] = queue'[x]]
  BY <1>4 DEF GraphTypeOK
<1> HIDE DEF t, E
<1>9. /\ Queued(q, t) \in Seq(Node) /\ Len(Queued(q, t)) <= Cardinality(Node)
      /\ \A i \in 1 .. Len(Queued(q, t)) :
            \/ \E k \in 1 .. Len(q) : Queued(q, t)[i] = q[k]
            \/ \E k \in 1 .. Len(t) : Queued(q, t)[i] = t[k]
  BY <1>6, QueuedFrom
<1>10. \A i \in 1 .. Len(Queued(q, t)) : Runnable(Queued(q, t)[i], completed'[x])
  BY <1>6, <1>7, <1>9
<1>11. skipped' \in [Flow -> SUBSET Node]
  BY DEF queueNextNodes, GraphTypeOK
<1> QED
  BY <1>1, <1>8, <1>9, <1>10, <1>11

-----------------------------------------------------------------------------
(* The initial state and what every step keeps.                            *)

LEMMA InitWorkflowInv == WorkflowInit => WorkflowInv
<1> SUFFICES ASSUME WorkflowInit PROVE WorkflowInv
  OBVIOUS
<1>1. FlowTypeOK /\ GraphTypeOK
  BY WorkflowAssumption DEF WorkflowInit, FlowTypeOK, GraphTypeOK
<1>2. AtNode /\ PausedIsWaiting /\ Pending /\ DecisionFitsCheckpoint
  BY DEF WorkflowInit, AtNode, PausedIsWaiting, Pending, DecisionFitsCheckpoint
<1>3. QueueOK
  BY NodesCount DEF WorkflowInit, QueueOK
<1> QED
  BY <1>1, <1>2, <1>3 DEF WorkflowInv, GraphInv

(* A step that leaves the graph alone and starts no node.                  *)
LEMMA GraphKept ==
    ASSUME GraphInv, UNCHANGED graph,
           \A x \in Flow : worker'[x] \in {"node", "paused", "resumed"} =>
               worker[x] = worker'[x] \/ worker[x] \in {"node", "paused", "resumed"},
           \A x \in Flow : worker'[x] = "node" => worker[x] = "node"
    PROVE  GraphInv'
<1>1. GraphTypeOK' /\ AtNode'
  BY DEF GraphInv, GraphTypeOK, AtNode, graph
<1>2. QueueOK'
  BY DEF GraphInv, QueueOK, Runnable, areDependenciesMet, graph
<1> QED
  BY <1>1, <1>2 DEF GraphInv

(* A step of x alone.                                                      *)
LEMMA GraphOfOne ==
    ASSUME GraphTypeOK, NEW x \in Flow, NEW q \in Seq(Node), NEW d \in SUBSET Node,
           NEW n \in Node \cup {NoNode}, node' = [node EXCEPT ![x] = n],
           queue' = [queue EXCEPT ![x] = q], completed' = [completed EXCEPT ![x] = d],
           skipped' \in [Flow -> SUBSET Node]
    PROVE  /\ GraphTypeOK' /\ queue'[x] = q /\ completed'[x] = d /\ node'[x] = n
           /\ \A y \in Flow \ {x} : UNCHANGED <<node[y], queue[y], completed[y]>>
  BY DEF GraphTypeOK

(* A step of x that leaves x outside its nodes, with a fitting queue.      *)
LEMMA GraphMoved ==
    ASSUME GraphInv, NEW x \in Flow, NEW pc, FlowTypeOK,
           pc \notin {"node", "paused", "resumed"},
           worker' = [worker EXCEPT ![x] = pc], GraphTypeOK',
           \A y \in Flow \ {x} : UNCHANGED <<node[y], queue[y], completed[y]>>,
           Len(queue'[x]) <= Cardinality(Node),
           \A i \in 1 .. Len(queue'[x]) : Runnable(queue'[x][i], completed'[x])
    PROVE  GraphInv'
<1>1. worker'[x] = pc /\ \A y \in Flow \ {x} : worker'[y] = worker[y]
  BY DEF FlowTypeOK
<1>2. AtNode'
  BY <1>1 DEF GraphInv, AtNode
<1>3. QueueOK'
  <2> SUFFICES ASSUME NEW y \in Flow
      PROVE  /\ Len(queue'[y]) <= Cardinality(Node)
             /\ \A i \in 1 .. Len(queue'[y]) : Runnable(queue'[y][i], completed'[y])
             /\ worker'[y] = "node" => /\ Runnable(node'[y], completed'[y])
                                      /\ node'[y] \notin completed'[y]
    BY DEF QueueOK, Runnable, areDependenciesMet
  <2>1. CASE y = x
    BY <2>1, <1>1
  <2>2. CASE y # x
    BY <2>2, <1>1 DEF GraphInv, QueueOK
  <2> QED
    BY <2>1, <2>2
<1> QED
  BY <1>2, <1>3 DEF GraphInv

(* Completing the node of x, in which every branch of PassOn agrees.       *)
LEMMA PassedOn ==
    ASSUME FlowTypeOK, GraphInv, NEW x \in Flow, NEW result, PassOn(x, result),
           worker[x] \in {"node", "resumed"}
    PROVE  /\ GraphInv'
           /\ \E pc \in {"loop", "done"} : worker' = [worker EXCEPT ![x] = pc]
           /\ \E status \in {"completed", "running", flow[x]} :
                 flow' = [flow EXCEPT ![x] = status]
           /\ flow[x] # "paused" => flow'[x] # "paused"
<1>1. PICK pc \in {"loop", "done"} : worker' = [worker EXCEPT ![x] = pc]
  BY DEF PassOn, Ended
<1>2. /\ \E status \in {"completed", "running", flow[x]} :
            flow' = [flow EXCEPT ![x] = status]
      /\ flow[x] # "paused" => flow'[x] # "paused"
  BY DEF PassOn, Ended, FlowTypeOK
<1>3. node[x] \in Node /\ GraphTypeOK
  BY DEF GraphInv, AtNode
<1>4. \A i \in 1 .. Len(queue[x]) : Runnable(queue[x][i], completed[x])
  BY DEF GraphInv, QueueOK
<1>5. queue[x] \in Seq(Node) /\ queueNextNodes(x, queue[x], node[x], result)
  BY DEF GraphInv, GraphTypeOK, PassOn
<1>6. /\ queue' = [queue EXCEPT ![x] = queue'[x]]
      /\ completed' = [completed EXCEPT ![x] = completed'[x]]
      /\ skipped' \in [Flow -> SUBSET Node]
      /\ queue'[x] \in Seq(Node) /\ Len(queue'[x]) <= Cardinality(Node)
      /\ completed'[x] = completed[x] \cup {node[x]}
      /\ \A i \in 1 .. Len(queue'[x]) : Runnable(queue'[x][i], completed'[x])
  BY <1>3, <1>4, <1>5, QueueNext
<1>7. node' = [node EXCEPT ![x] = NoNode]
  BY DEF PassOn
<1>8. completed'[x] \in SUBSET Node
  BY <1>3, <1>6 DEF GraphTypeOK
<1>9. GraphTypeOK' /\ \A y \in Flow \ {x} : UNCHANGED <<node[y], queue[y], completed[y]>>
  BY <1>3, <1>6, <1>7, <1>8, GraphOfOne, ZenonT(60)
<1>10. GraphInv'
  BY <1>1, <1>6, <1>9, GraphMoved
<1> QED
  BY <1>1, <1>2, <1>10

-----------------------------------------------------------------------------
LEMMA GraphStep == FlowTypeOK /\ GraphInv /\ [WorkflowNext]_workflowVars => GraphInv'
<1> SUFFICES ASSUME FlowTypeOK, GraphInv, [WorkflowNext]_workflowVars PROVE GraphInv'
  OBVIOUS
<1>g. GraphTypeOK /\ AtNode /\ QueueOK
  BY DEF GraphInv
<1>1. CASE \E x \in Flow : Execute(x) \/ Entering(x)
  <2>1. UNCHANGED graph
    BY <1>1 DEF Execute, Entering, SlotFound, WaitCancelled, Launch
  <2>2. PICK x \in Flow, pc \in {"wait", "admitted", "refused", "start"} :
            worker' = [worker EXCEPT ![x] = pc]
    BY <1>1 DEF Execute, Entering, SlotFound, WaitCancelled, Launch
  <2> QED
    BY <2>1, <2>2, GraphKept DEF FlowTypeOK
<1>2. CASE \E x \in Flow : BeginLoop(x)
  <2>1. PICK x \in Flow : BeginLoop(x)
    BY <1>2
  <2>2. PICK s \in SetToSeqs(TriggerNode) : queue' = [queue EXCEPT ![x] = s]
    BY <2>1 DEF BeginLoop
  <2>3. IsFiniteSet(TriggerNode) /\ Cardinality(TriggerNode) <= Cardinality(Node)
    BY WorkflowAssumption, FS_Subset
  <2>4. /\ s \in Seq(TriggerNode) /\ Len(s) = Cardinality(TriggerNode)
        /\ DOMAIN s = 1 .. Len(s)
    BY <2>3, Order
  <2>5. s \in Seq(Node) /\ \A i \in 1 .. Len(s) : s[i] \in TriggerNode
    BY <2>4, WorkflowAssumption
  <2>6. queue'[x] = s /\ UNCHANGED <<node, completed, skipped>>
    BY <2>1, <2>2, <1>g DEF BeginLoop, GraphTypeOK
  <2>7. GraphTypeOK'
    BY <2>2, <2>5, <2>6, <1>g DEF GraphTypeOK
  <2>8. worker' = [worker EXCEPT ![x] = "loop"]
    BY <2>1 DEF BeginLoop
  <2>9. \A y \in Flow \ {x} : UNCHANGED <<node[y], queue[y], completed[y]>>
    BY <2>2, <2>6, <1>g DEF GraphTypeOK
  <2>10. \A i \in 1 .. Len(queue'[x]) : Runnable(queue'[x][i], completed'[x])
    BY <2>5, <2>6 DEF Runnable
  <2> QED
    BY <2>3, <2>4, <2>6, <2>7, <2>8, <2>9, <2>10, GraphMoved
<1>3. CASE \E x \in Flow : Dequeue(x)
  <2>1. PICK x \in Flow : Dequeue(x)
    BY <1>3
  <2> DEFINE q == queue[x]
             n == Head(q)
             t == Tail(q)
  <2>2. /\ q \in Seq(Node) /\ q # <<>> /\ worker[x] = "loop"
        /\ Len(q) <= Cardinality(Node)
        /\ \A i \in 1 .. Len(q) : Runnable(q[i], completed[x])
    BY <2>1, <1>g DEF Dequeue, GraphTypeOK, QueueOK
  <2>3. /\ n \in Node /\ Runnable(n, completed[x])
        /\ t \in Seq(Node) /\ Len(t) <= Cardinality(Node)
        /\ \A i \in 1 .. Len(t) : Runnable(t[i], completed[x])
    <3> HIDE DEF q
    <3>1. /\ n \in Node /\ n = q[1] /\ Len(q) >= 1 /\ t \in Seq(Node)
          /\ Len(t) = Len(q) - 1 /\ \A i \in 1 .. Len(t) : t[i] = q[i + 1]
      BY <2>2
    <3>2. \A i \in 1 .. Len(t) : i + 1 \in 1 .. Len(q)
      BY <3>1, <2>2
    <3> QED
      BY <3>1, <3>2, <2>2, NodesCount
  <2>4. CASE worker' = worker
    <3>1. worker' = [worker EXCEPT ![x] = "loop"]
      BY <2>2, <2>4 DEF FlowTypeOK
    <3>2. CASE n \in completed[x] /\ UNCHANGED <<node, completed, skipped>>
               /\ queue' = [queue EXCEPT ![x] = t]
      <4>1. queue'[x] = t /\ GraphTypeOK'
        BY <3>2, <2>3, <1>g DEF GraphTypeOK
      <4>2. \A y \in Flow \ {x} : UNCHANGED <<node[y], queue[y], completed[y]>>
        BY <3>2, <1>g DEF GraphTypeOK
      <4> HIDE DEF t
      <4> QED
        BY <3>1, <3>2, <4>1, <4>2, <2>3, GraphMoved
    <3>3. CASE queueNextNodes(x, t, n, "disabled") /\ UNCHANGED node
      <4> HIDE DEF t, n
      <4>1. /\ queue' = [queue EXCEPT ![x] = queue'[x]]
            /\ completed' = [completed EXCEPT ![x] = completed'[x]]
            /\ skipped' \in [Flow -> SUBSET Node]
            /\ queue'[x] \in Seq(Node) /\ Len(queue'[x]) <= Cardinality(Node)
            /\ completed'[x] = completed[x] \cup {n}
            /\ \A i \in 1 .. Len(queue'[x]) : Runnable(queue'[x][i], completed'[x])
        BY <3>3, <2>3, <1>g, QueueNext
      <4>2. completed'[x] \in SUBSET Node /\ node[x] \in Node \cup {NoNode}
            /\ node' = [node EXCEPT ![x] = node[x]]
        BY <3>3, <4>1, <2>3, <1>g DEF GraphTypeOK
      <4>3. /\ GraphTypeOK'
            /\ \A y \in Flow \ {x} : UNCHANGED <<node[y], queue[y], completed[y]>>
        BY <4>1, <4>2, <1>g, GraphOfOne
      <4> QED
        BY <3>1, <4>1, <4>3, GraphMoved
    <3> QED
      BY <2>1, <2>2, <2>4, <3>2, <3>3 DEF Dequeue, FlowTypeOK
  <2>5. CASE worker' # worker
    <3>1. /\ n \notin completed[x] /\ UNCHANGED <<completed, skipped>>
          /\ queue' = [queue EXCEPT ![x] = t] /\ node' = [node EXCEPT ![x] = n]
          /\ worker' = [worker EXCEPT ![x] = "node"]
      BY <2>1, <2>5 DEF Dequeue
    <3> HIDE DEF t, n
    <3>2. queue'[x] = t /\ node'[x] = n /\ GraphTypeOK'
      BY <3>1, <2>3, <1>g DEF GraphTypeOK
    <3>3. \A y \in Flow \ {x} :
              UNCHANGED <<node[y], queue[y], completed[y], worker[y]>>
      BY <3>1, <1>g DEF GraphTypeOK, FlowTypeOK
    <3>4. AtNode'
      BY <3>2, <3>3, <2>3, <1>g DEF AtNode
    <3>5. \A y \in Flow :
             /\ Len(queue'[y]) <= Cardinality(Node)
             /\ \A i \in 1 .. Len(queue'[y]) : Runnable(queue'[y][i], completed'[y])
             /\ worker'[y] = "node" => /\ Runnable(node'[y], completed'[y])
                                      /\ node'[y] \notin completed'[y]
      <4> TAKE y \in Flow
      <4>1. CASE y = x
        BY <4>1, <3>1, <3>2, <2>3
      <4>2. CASE y # x
        BY <4>2, <3>3, <1>g DEF QueueOK
      <4> QED
        BY <4>1, <4>2
    <3> QED
      BY <3>2, <3>4, <3>5 DEF GraphInv, QueueOK, Runnable, areDependenciesMet
  <2> QED
    BY <2>4, <2>5
<1>4. CASE \E x \in Flow : NodeSucceeds(x) \/ Resumed(x)
  BY <1>4, PassedOn DEF NodeSucceeds, Resumed
<1>5. CASE \E x \in Flow : NodeFails(x)
  <2>1. PICK x \in Flow : NodeFails(x)
    BY <1>5
  <2>2. CASE PassOn(x, "failed")
    BY <2>1, <2>2, PassedOn DEF NodeFails
  <2>3. CASE ~ PassOn(x, "failed")
    <3>1. /\ worker' = [worker EXCEPT ![x] = "done"]
          /\ completed' = [completed EXCEPT ![x] = @ \cup {node[x]}]
          /\ UNCHANGED <<node, queue, skipped>> /\ node[x] \in Node
      BY <2>1, <2>3, <1>g DEF NodeFails, Ended, AtNode
    <3>2. GraphTypeOK' /\ completed[x] \subseteq completed'[x]
      BY <3>1, <1>g DEF GraphTypeOK
    <3>3. \A y \in Flow \ {x} : UNCHANGED <<node[y], queue[y], completed[y]>>
      BY <3>1, <1>g DEF GraphTypeOK
    <3>4. /\ Len(queue'[x]) <= Cardinality(Node)
          /\ \A i \in 1 .. Len(queue'[x]) : Runnable(queue'[x][i], completed'[x])
      BY <3>1, <3>2, <1>g DEF QueueOK, Runnable, areDependenciesMet
    <3> QED
      BY <3>1, <3>2, <3>3, <3>4, GraphMoved
  <2> QED
    BY <2>2, <2>3
<1>6. CASE \E x \in Flow : Pause(x)
  <2>1. PICK x \in Flow : Pause(x)
    BY <1>6
  <2>2. /\ worker' = [worker EXCEPT ![x] = "paused"] /\ worker[x] = "node"
        /\ completed' = [completed EXCEPT ![x] = @ \cup {node[x]}]
        /\ UNCHANGED <<node, queue, skipped>> /\ node[x] \in Node
    BY <2>1, <1>g DEF Pause, AtNode
  <2>3. GraphTypeOK' /\ completed[x] \subseteq completed'[x]
    BY <2>2, <1>g DEF GraphTypeOK
  <2>4. /\ worker'[x] = "paused"
        /\ \A y \in Flow \ {x} : UNCHANGED <<worker[y], completed[y]>>
    BY <2>2, <1>g DEF GraphTypeOK, FlowTypeOK
  <2>5. AtNode'
    BY <2>2, <2>4, <1>g DEF AtNode
  <2>6. QueueOK'
    BY <2>2, <2>3, <2>4, <1>g DEF QueueOK, Runnable, areDependenciesMet
  <2> QED
    BY <2>3, <2>5, <2>6 DEF GraphInv
<1>7. CASE \E x \in Flow : ContextDone(x) \/ TakeDecision(x)
  <2>1. UNCHANGED graph
    BY <1>7 DEF ContextDone, TakeDecision
  <2>2. PICK x \in Flow, pc \in {"done", "resumed"} :
            /\ worker' = [worker EXCEPT ![x] = pc]
            /\ pc = "resumed" => worker[x] = "paused"
    BY <1>7 DEF ContextDone, TakeDecision, Ended
  <2> QED
    BY <2>1, <2>2, GraphKept DEF FlowTypeOK
<1>8. CASE UNCHANGED <<graph, worker>>
  BY <1>8, GraphKept
<1>9. CASE \E x \in Flow :
          ResumeExecution(x) \/ CancelExecution(x) \/ CancelContext(x) \/ RequestEnds(x)
          \/ Expires(x)
  BY <1>8, <1>9
     DEF ResumeExecution, CancelExecution, CancelContext, RequestEnds, Expires, graph
<1>10. CASE CloseEngine \/ CloseReturns
  BY <1>8, <1>10 DEF CloseEngine, CloseReturns, graph
<1>11. CASE UNCHANGED workflowVars
  BY <1>8, <1>11 DEF workflowVars
<1> QED
  BY <1>1, <1>2, <1>3, <1>4, <1>5, <1>6, <1>7, <1>9, <1>10, <1>11
     DEF WorkflowNext, RunExecution

-----------------------------------------------------------------------------
LEMMA FlowStep ==
    FlowTypeOK /\ GraphInv /\ [WorkflowNext]_workflowVars => FlowTypeOK'
<1> SUFFICES ASSUME FlowTypeOK, GraphInv, [WorkflowNext]_workflowVars PROVE FlowTypeOK'
  OBVIOUS
<1>1. CASE \E x \in Flow : Execute(x) \/ Entering(x) \/ BeginLoop(x)
  BY <1>1 DEF Execute, Entering, SlotFound, WaitCancelled, Launch, BeginLoop, FlowTypeOK,
              decisions
<1>2. CASE \E x \in Flow : Dequeue(x)
  BY <1>2 DEF Dequeue, FlowTypeOK, decisions
<1>3. CASE \E x \in Flow : NodeSucceeds(x) \/ Resumed(x) \/ NodeFails(x)
  <2>1. PICK x \in Flow : NodeSucceeds(x) \/ Resumed(x) \/ NodeFails(x)
    BY <1>3
  <2>2. UNCHANGED <<ctx, cancelling, decisions, engine>>
    BY <2>1 DEF NodeSucceeds, Resumed, NodeFails
  <2>3. \/ \E result : PassOn(x, result) /\ worker[x] \in {"node", "resumed"}
        \/ Ended(x, "failed") \/ Ended(x, ByContext(x))
    BY <2>1 DEF NodeSucceeds, Resumed, NodeFails
  <2>4. PICK pc \in {"loop", "done"},
             status \in {"completed", "running", "failed", "cancelled", flow[x]} :
             worker' = [worker EXCEPT ![x] = pc] /\ flow' = [flow EXCEPT ![x] = status]
    BY <2>3, PassedOn DEF Ended, ByContext
  <2> QED
    BY <2>2, <2>4 DEF FlowTypeOK, decisions
<1>4. CASE \E x \in Flow : Pause(x) \/ TakeDecision(x) \/ ContextDone(x)
  BY <1>4 DEF Pause, TakeDecision, ContextDone, Ended, ByContext, GraphInv, AtNode,
              FlowTypeOK, decisions
<1>5. CASE \E x \in Flow : ResumeExecution(x) \/ CancelExecution(x)
  BY <1>5, ZenonT(60) DEF ResumeExecution, CancelExecution, FlowTypeOK, decisions
<1>6. CASE \E x \in Flow : CancelContext(x) \/ RequestEnds(x) \/ Expires(x)
  BY <1>6, ZenonT(60)
     DEF CancelContext, RequestEnds, Expires, Cancelled, FlowTypeOK, decisions
<1>7. CASE CloseEngine \/ CloseReturns
  BY <1>7 DEF CloseEngine, CloseReturns, Cancelled, FlowTypeOK, decisions
<1>8. CASE UNCHANGED workflowVars
  BY <1>8 DEF workflowVars, FlowTypeOK, decisions
<1> QED
  BY <1>1, <1>2, <1>3, <1>4, <1>5, <1>6, <1>7, <1>8 DEF WorkflowNext, RunExecution

-----------------------------------------------------------------------------
DecisionInv == PausedIsWaiting /\ Pending /\ DecisionFitsCheckpoint

(* A step that leaves the decisions and lets nobody enter or leave a pause *)
(* but by ending there.                                                    *)
LEMMA DecisionsKept ==
    ASSUME DecisionInv, UNCHANGED decisions,
           \A x \in Flow :
               /\ flow'[x] = "paused" => flow[x] = "paused" /\ worker'[x] = worker[x]
               /\ worker'[x] # worker[x] =>
                     /\ worker'[x] \notin {"paused", "resumed"}
                     /\ worker[x] = "done" => worker'[x] = "done"
                     /\ worker[x] = "paused" => worker'[x] = "done"
    PROVE  DecisionInv'
  BY DEF DecisionInv, PausedIsWaiting, Pending, DecisionFitsCheckpoint, decisions

LEMMA DecisionStep ==
    FlowTypeOK /\ GraphInv /\ DecisionInv /\ [WorkflowNext]_workflowVars => DecisionInv'
<1> SUFFICES ASSUME FlowTypeOK, GraphInv, DecisionInv, [WorkflowNext]_workflowVars
             PROVE  DecisionInv'
  OBVIOUS
<1>w. \A x \in Flow : flow[x] = "paused" => worker[x] = "paused"
  BY DEF DecisionInv, PausedIsWaiting
<1>1. CASE \E x \in Flow : Execute(x) \/ Entering(x) \/ BeginLoop(x)
  <2>1. PICK x \in Flow : Execute(x) \/ Entering(x) \/ BeginLoop(x)
    BY <1>1
  <2>2. UNCHANGED decisions /\ worker[x] \in {"unused", "wait", "admitted", "start"}
    BY <2>1 DEF Execute, Entering, SlotFound, WaitCancelled, Launch, BeginLoop
  <2>3. PICK pc \in {"wait", "admitted", "refused", "start", "loop"},
             status \in {flow[x], "pending", "running"} :
             worker' = [worker EXCEPT ![x] = pc] /\ flow' = [flow EXCEPT ![x] = status]
    BY <2>1 DEF Execute, Entering, SlotFound, WaitCancelled, Launch, BeginLoop, FlowTypeOK
  <2> QED
    BY <2>2, <2>3, <1>w, DecisionsKept DEF FlowTypeOK
<1>2. CASE \E x \in Flow : Dequeue(x)
  <2>1. PICK x \in Flow : Dequeue(x)
    BY <1>2
  <2>2. /\ UNCHANGED <<flow, decisions>> /\ worker[x] = "loop"
        /\ worker' = worker \/ worker' = [worker EXCEPT ![x] = "node"]
    BY <2>1 DEF Dequeue
  <2> QED
    BY <2>2, <1>w, DecisionsKept DEF FlowTypeOK
<1>3. CASE \E x \in Flow : NodeSucceeds(x) \/ Resumed(x) \/ NodeFails(x)
  <2>1. PICK x \in Flow : NodeSucceeds(x) \/ Resumed(x) \/ NodeFails(x)
    BY <1>3
  <2>2. UNCHANGED decisions /\ worker[x] \in {"node", "resumed"}
    BY <2>1 DEF NodeSucceeds, Resumed, NodeFails
  <2>3. \/ \E result : PassOn(x, result)
        \/ Ended(x, "failed") \/ Ended(x, ByContext(x))
    BY <2>1 DEF NodeSucceeds, Resumed, NodeFails
  <2>4. PICK pc \in {"loop", "done"},
             status \in {"completed", "running", "failed", "cancelled", flow[x]} :
             worker' = [worker EXCEPT ![x] = pc] /\ flow' = [flow EXCEPT ![x] = status]
    BY <2>2, <2>3, PassedOn DEF Ended, ByContext
  <2> QED
    BY <2>2, <2>4, <1>w, DecisionsKept DEF FlowTypeOK
<1>4. CASE \E x \in Flow : Pause(x)
  BY <1>4 DEF Pause, DecisionInv, PausedIsWaiting, Pending, DecisionFitsCheckpoint,
              FlowTypeOK
<1>5. CASE \E x \in Flow : TakeDecision(x)
  BY <1>5, WorkflowAssumption
     DEF TakeDecision, DecisionInv, PausedIsWaiting, Pending, DecisionFitsCheckpoint,
         FlowTypeOK
<1>6. CASE \E x \in Flow : ContextDone(x)
  <2>1. PICK x \in Flow, status \in {"failed", "cancelled"} :
             /\ worker' = [worker EXCEPT ![x] = "done"] /\ worker[x] \in {"loop", "paused"}
             /\ flow' = [flow EXCEPT ![x] = status] /\ UNCHANGED decisions
    BY <1>6 DEF ContextDone, Ended, ByContext
  <2> QED
    BY <2>1, DecisionsKept DEF FlowTypeOK
<1>7. CASE \E x \in Flow : ResumeExecution(x)
  BY <1>7 DEF ResumeExecution, DecisionInv, PausedIsWaiting, Pending,
              DecisionFitsCheckpoint, FlowTypeOK
<1>8. CASE \E x \in Flow : CancelExecution(x)
  BY <1>8, DecisionsKept DEF CancelExecution, FlowTypeOK
<1>9. CASE UNCHANGED <<worker, flow, decisions>>
  BY <1>9, DecisionsKept
<1>10. CASE \E x \in Flow : CancelContext(x) \/ RequestEnds(x) \/ Expires(x)
  BY <1>9, <1>10 DEF CancelContext, RequestEnds, Expires
<1>11. CASE CloseEngine \/ CloseReturns
  BY <1>9, <1>11 DEF CloseEngine, CloseReturns
<1>12. CASE UNCHANGED workflowVars
  BY <1>9, <1>12 DEF workflowVars
<1> QED
  BY <1>1, <1>2, <1>3, <1>4, <1>5, <1>6, <1>7, <1>8, <1>10, <1>11, <1>12
     DEF WorkflowNext, RunExecution

LEMMA InductiveWorkflowInv == WorkflowInv /\ [WorkflowNext]_workflowVars => WorkflowInv'
  BY GraphStep, FlowStep, DecisionStep DEF WorkflowInv, DecisionInv

-----------------------------------------------------------------------------
(* However the calls, the contexts and the goroutines interleave, a node   *)
(* that is queued or runs has all its sources behind it, and none runs     *)
(* twice.                                                                  *)
THEOREM WorkflowTypesHold == WorkflowSpec => []WorkflowTypeOK
<1>1. ASSUME WorkflowInv PROVE WorkflowTypeOK
  <2>1. FlowTypeOK /\ GraphTypeOK /\ QueueOK
    BY <1>1 DEF WorkflowInv, GraphInv
  <2>2. \A x \in Flow : \A n \in {queue[x][i] : i \in DOMAIN queue[x]} :
            Runnable(n, completed[x])
    <3> SUFFICES ASSUME NEW x \in Flow, NEW i \in DOMAIN queue[x]
                 PROVE  Runnable(queue[x][i], completed[x])
      OBVIOUS
    <3>1. i \in 1 .. Len(queue[x])
      BY <2>1 DEF GraphTypeOK
    <3> QED
      BY <2>1, <3>1 DEF QueueOK
  <2>3. \A f \in {node, checkpoint, resumeCh, taken} : f \in [Flow -> Node \cup {NoNode}]
    BY <2>1 DEF FlowTypeOK, GraphTypeOK
  <2>4. \A x \in Flow :
          LET ToRun == {queue[x][i] : i \in DOMAIN queue[x]} \cup
                       (IF worker[x] = "node" THEN {node[x]} ELSE {})
          IN  /\ queue[x] \in Seq(Node) /\ Len(queue[x]) <= Cardinality(Node)
              /\ \A n \in ToRun \ TriggerNode : areDependenciesMet(n, completed[x])
              /\ worker[x] = "node" => node[x] \notin completed[x]
    BY <2>1, <2>2 DEF QueueOK, GraphTypeOK, Runnable
  <2> QED
    BY <2>1, <2>3, <2>4 DEF WorkflowTypeOK, FlowTypeOK, GraphTypeOK
<1> QED
  BY <1>1, InitWorkflowInv, InductiveWorkflowInv, PTL DEF WorkflowSpec

(* A decision that was accepted at one checkpoint is never kept for the    *)
(* next one, however many callers resume and cancel the execution.         *)
THEOREM DecisionsFit == WorkflowSpec => []DecisionFitsCheckpoint
<1>1. WorkflowInv => DecisionFitsCheckpoint
  BY DEF WorkflowInv
<1> QED
  BY <1>1, InitWorkflowInv, InductiveWorkflowInv, PTL DEF WorkflowSpec

-----------------------------------------------------------------------------
(* The end of the queue.  A workflow may connect a node to another twice,  *)
(* and connect nodes to triggers: then the queue, which has room for each  *)
(* node once, may have no room for a node that is due.  In the others no   *)
(* result leads twice to the same node, and none to a trigger.             *)
Results(n) == IF n \in DisabledNode THEN {"disabled"} ELSE Port \cup {"failed"}

Plain ==
    /\ \A e \in Edge : e.to \notin TriggerNode
    /\ \A e, f \in Edge, r \in Port \cup {"failed", "disabled"} :
          /\ e.from = f.from /\ e.to = f.to /\ r \in Results(e.from)
          /\ Follows(e, r) /\ Follows(f, r)
          => e = f

(* The nodes to run, the one that runs first, and those behind it.         *)
Line(x) == IF worker[x] = "loop" THEN queue[x] ELSE <<node[x]>> \o queue[x]
Behind(x) == IF worker[x] = "loop" THEN completed[x] ELSE completed[x] \ {node[x]}

(* What isExecutionComplete looks for.                                     *)
Due(n, done) == Sources(n) # {} /\ areDependenciesMet(n, done)

(* Nothing is in the line twice or has run, and everything is in it that   *)
(* is due and to which no connection was left out.                         *)
InOrder(l, done, left) ==
    /\ \A i \in 1 .. Len(l) : Runnable(l[i], done) /\ l[i] \notin done
    /\ \A i, j \in 1 .. Len(l) : l[i] = l[j] => i = j
    /\ \A n \in done : Runnable(n, done)
    /\ \A n \in Node \ (done \cup left) : Due(n, done) => \E i \in 1 .. Len(l) : l[i] = n

Early == {"unused", "wait", "admitted", "start"}
Busy == {"node", "paused", "resumed"}

(* The loop goes on for a node that is due, if it has looked.              *)
GoesOn(done) ==
    \/ done \subseteq DisabledNode
    \/ \E n \in Node \ (done \cup DisabledNode) : Due(n, done)

LineOf(x) ==
    /\ worker[x] \in Early => completed[x] = {} /\ queue[x] = <<>> /\ skipped[x] = {}
    /\ worker[x] \in Busy \cup {"loop"} => InOrder(Line(x), Behind(x), skipped[x])
    /\ worker[x] \in Busy => node[x] \notin DisabledNode
    /\ worker[x] = "loop" => GoesOn(completed[x])

LineInv == \A x \in Flow : LineOf(x)

LEMMA UpTo ==
    ASSUME NEW n \in Nat
    PROVE  Cardinality(1 .. n) = n
<1>1. n \in Int /\ 1 \in Int
  OBVIOUS
<1>2. Cardinality(1 .. n) = IF 1 > n THEN 0 ELSE n - 1 + 1
  BY <1>1, FS_Interval, Zenon
<1> QED
  BY <1>2

LEMMA NoTwice ==
    ASSUME NEW l \in Seq(Node), \A i, j \in 1 .. Len(l) : l[i] = l[j] => i = j
    PROVE  Len(l) <= Cardinality(Node)
<1>1. Len(l) \in Nat /\ l \in [1 .. Len(l) -> Node]
  OBVIOUS
<1>2. l \in Injection(1 .. Len(l), Node)
  BY <1>1 DEF Injection, IsInjective
<1>3. Cardinality(1 .. Len(l)) <= Cardinality(Node)
  <2>1. IsFiniteSet(Node)
    BY WorkflowAssumption
  <2> QED
    BY <1>2, <2>1, FS_Injection, Zenon
<1>4. Cardinality(1 .. Len(l)) = Len(l)
  BY <1>1, UpTo
<1> QED
  BY <1>3, <1>4

Targets(s) == [i \in DOMAIN s |-> s[i].to]
LeftOut(n, result) == {e.to : e \in {e \in Edge : e.from = n /\ ~ Follows(e, result)}}

(* Completing the node at the head of the line.                            *)
LEMMA LinePasses ==
    ASSUME Plain, GraphTypeOK, NEW x \in Flow, NEW l \in Seq(Node), l # <<>>,
           NEW done \in SUBSET Node, InOrder(l, done, skipped[x]),
           completed[x] \cup {Head(l)} = done \cup {Head(l)},
           NEW result \in Results(Head(l)),
           queueNextNodes(x, Tail(l), Head(l), result)
    PROVE  /\ InOrder(queue'[x], completed'[x], skipped'[x])
           /\ completed'[x] = completed[x] \cup {Head(l)}
           /\ \A y \in Flow \ {x} : UNCHANGED <<queue[y], completed[y], skipped[y]>>
<1> DEFINE n == Head(l)
           q == Tail(l)
           d == completed'[x]
           E == NextEdges(n, result, d)
<1>a. d = done \cup {n} /\ d = completed[x] \cup {n}
  BY DEF queueNextNodes, GraphTypeOK
<1>b. skipped'[x] = skipped[x] \cup LeftOut(n, result)
  BY DEF queueNextNodes, GraphTypeOK, LeftOut
<1>s. PICK s \in SetToSeqs(E) : queue' = [queue EXCEPT ![x] = Queued(q, Targets(s))]
  BY DEF queueNextNodes, Targets
<1> DEFINE t == Targets(s)
           c == q \o t
<1>c. queue'[x] = Queued(q, t)
  BY <1>s DEF GraphTypeOK
<1> HIDE DEF d
<1>1. /\ n \in Node /\ n = l[1] /\ Len(l) \in Nat /\ Len(l) >= 1
      /\ q \in Seq(Node) /\ Len(q) = Len(l) - 1
      /\ \A i \in 1 .. Len(q) : q[i] = l[i + 1]
  OBVIOUS
<1>2. Runnable(n, done) /\ n \notin done /\ \A m \in done : Runnable(m, done)
  <2>1. 1 \in 1 .. Len(l)
    BY <1>1
  <2> QED
    BY <2>1, <1>1 DEF InOrder
<1>3. \A m \in Node : Runnable(m, done) => Runnable(m, d)
  BY <1>a DEF Runnable, areDependenciesMet
<1>4. /\ \A i \in 1 .. Len(q) : Runnable(q[i], done) /\ q[i] \notin d
      /\ \A i, j \in 1 .. Len(q) : q[i] = q[j] => i = j
  <2> HIDE DEF q
  <2>1. \A i \in 1 .. Len(q) : i + 1 \in 1 .. Len(l) /\ i + 1 # 1
    BY <1>1
  <2>2. ASSUME NEW i \in 1 .. Len(q) PROVE Runnable(q[i], done) /\ q[i] \notin d
    <3>1. q[i] = l[i + 1] /\ i + 1 \in 1 .. Len(l) /\ 1 \in 1 .. Len(l) /\ i + 1 # 1
      BY <2>1, <1>1
    <3> QED
      BY <3>1, <1>1, <1>a DEF InOrder
  <2>3. ASSUME NEW i \in 1 .. Len(q), NEW j \in 1 .. Len(q), q[i] = q[j] PROVE i = j
    <3>1. l[i + 1] = l[j + 1] /\ i + 1 \in 1 .. Len(l) /\ j + 1 \in 1 .. Len(l)
      BY <2>1, <2>3, <1>1
    <3>2. i + 1 = j + 1
      BY <3>1 DEF InOrder
    <3> QED
      BY <3>2
  <2> QED
    BY <2>2, <2>3
<1>5. /\ s \in Seq(E) /\ DOMAIN s = 1 .. Len(s) /\ Len(s) \in Nat
      /\ \A i \in 1 .. Len(s) : s[i] \in E
      /\ \A i, j \in 1 .. Len(s) : s[i] = s[j] => i = j
      /\ \A e \in E : \E i \in 1 .. Len(s) : s[i] = e
  <2>1. E \subseteq Edge /\ IsFiniteSet(E)
    <3>1. E \subseteq Edge
      BY DEF NextEdges
    <3> HIDE DEF E
    <3> QED
      BY <3>1, WorkflowAssumption, FS_Subset
  <2>e. s \in SetToSeqs(E)
    OBVIOUS
  <2> HIDE DEF E
  <2>2. s \in Seq(E) /\ Len(s) = Cardinality(E) /\ DOMAIN s = 1 .. Len(s)
    BY <2>1, <2>e, Order
  <2>3. Cardinality(E) \in Nat
    BY <2>1, FS_CardinalityType
  <2>4. \A i, j \in 1 .. Len(s) : s[i] = s[j] => i = j
    BY <2>2, <2>e DEF SetToSeqs
  <2>5. s \in Injection(1 .. Len(s), E)
    BY <2>2, <2>4 DEF Injection, IsInjective
  <2>6. Cardinality(1 .. Len(s)) = Cardinality(E)
    BY <2>2, <2>3, UpTo
  <2>7. s \in Surjection(1 .. Len(s), E)
    BY <2>1, <2>5, <2>6, FS_Injection
  <2> QED
    BY <2>2, <2>3, <2>4, <2>7 DEF Surjection
<1>6. \A e \in E : /\ e \in Edge /\ e.from = n /\ e.to \in Node /\ Follows(e, result)
                  /\ e.to \notin TriggerNode /\ n \in Sources(e.to)
                  /\ areDependenciesMet(e.to, d)
  BY WorkflowAssumption DEF NextEdges, Plain, Sources
<1>7. \A e, f \in E : e.to = f.to => e = f
  <2>1. result \in Port \cup {"failed", "disabled"}
    BY DEF Results
  <2> HIDE DEF E
  <2> QED
    BY <2>1, <1>6 DEF Plain
<1>8. \A e \in E : ~ Runnable(e.to, done) /\ e.to \notin d
  <2> SUFFICES ASSUME NEW e \in E PROVE ~ Runnable(e.to, done) /\ e.to \notin d
    OBVIOUS
  <2> HIDE DEF E
  <2>1. n \in Sources(e.to) /\ e.to \notin TriggerNode
    BY <1>6
  <2>2. ~ Runnable(e.to, done)
    BY <2>1, <1>2 DEF Runnable, areDependenciesMet
  <2> QED
    BY <2>2, <1>2, <1>a
<1>9. /\ t \in Seq(Node) /\ Len(t) = Len(s)
      /\ \A i \in 1 .. Len(t) : s[i] \in E /\ t[i] = s[i].to
  <2> HIDE DEF E
  <2>1. t \in [1 .. Len(s) -> Node]
    BY <1>5, <1>6 DEF Targets
  <2> QED
    BY <2>1, <1>5 DEF Targets
<1> HIDE DEF t
<1>10. \A i, j \in 1 .. Len(t) : t[i] = t[j] => i = j
  <2> HIDE DEF E
  <2> QED
    BY <1>5, <1>7, <1>9
<1>11. \A i \in 1 .. Len(t) :
           /\ Sources(t[i]) # {} /\ areDependenciesMet(t[i], d)
           /\ t[i] \notin d /\ ~ Runnable(t[i], done)
  BY <1>6, <1>8, <1>9
<1> HIDE DEF q, E
<1>12. /\ c \in Seq(Node) /\ Len(c) = Len(q) + Len(t)
       /\ \A i \in 1 .. Len(q) + Len(t) : c[i] = IF i <= Len(q) THEN q[i] ELSE t[i - Len(q)]
  <2>1. q \in Seq(Node) /\ t \in Seq(Node)
    BY <1>1, <1>9
  <2> QED
    BY <2>1, ConcatProperties, Zenon
<1>13. \A i \in 1 .. Len(c) :
           \/ i \in 1 .. Len(q) /\ c[i] = q[i]
           \/ i - Len(q) \in 1 .. Len(t) /\ c[i] = t[i - Len(q)] /\ i \notin 1 .. Len(q)
  <2>1. Len(q) \in Nat /\ Len(t) \in Nat
    BY <1>1, <1>9
  <2> HIDE DEF c
  <2> QED
    BY <2>1, <1>12
<1>14. /\ \A i \in 1 .. Len(q) : \E k \in 1 .. Len(c) : c[k] = q[i]
       /\ \A i \in 1 .. Len(t) : \E k \in 1 .. Len(c) : c[k] = t[i]
  <2>1. Len(q) \in Nat /\ Len(t) \in Nat
    BY <1>1, <1>9
  <2> HIDE DEF c
  <2>2. ASSUME NEW i \in 1 .. Len(t) PROVE \E k \in 1 .. Len(c) : c[k] = t[i]
    <3>1. /\ Len(q) + i \in 1 .. Len(c) /\ ~ (Len(q) + i <= Len(q))
          /\ (Len(q) + i) - Len(q) = i
      BY <2>1, <1>12
    <3> QED
      BY <3>1, <1>12
  <2>3. ASSUME NEW i \in 1 .. Len(q) PROVE \E k \in 1 .. Len(c) : c[k] = q[i]
    <3>1. i \in 1 .. Len(c) /\ i <= Len(q)
      BY <2>1, <1>12
    <3> QED
      BY <3>1, <1>12
  <2> QED
    BY <2>2, <2>3
<1> HIDE DEF c
<1>15. ASSUME NEW i \in 1 .. Len(c) PROVE Runnable(c[i], d) /\ c[i] \notin d
  <2>1. CASE i \in 1 .. Len(q) /\ c[i] = q[i]
    BY <2>1, <1>1, <1>3, <1>4
  <2>2. CASE i - Len(q) \in 1 .. Len(t) /\ c[i] = t[i - Len(q)]
    BY <2>2, <1>11 DEF Runnable
  <2> QED
    BY <2>1, <2>2, <1>13
<1>16. \A i, j \in 1 .. Len(c) : c[i] = c[j] => i = j
  <2> SUFFICES ASSUME NEW i \in 1 .. Len(c), NEW j \in 1 .. Len(c), c[i] = c[j]
               PROVE  i = j
    OBVIOUS
  <2>1. CASE i \in 1 .. Len(q) /\ j \in 1 .. Len(q)
    BY <2>1, <1>4, <1>13
  <2>2. CASE i \notin 1 .. Len(q) /\ j \notin 1 .. Len(q)
    <3>1. i - Len(q) = j - Len(q)
      BY <2>2, <1>10, <1>13
    <3> QED
      BY <3>1, <1>1, <1>12
  <2>3. CASE \/ i \in 1 .. Len(q) /\ j \notin 1 .. Len(q)
             \/ i \notin 1 .. Len(q) /\ j \in 1 .. Len(q)
    BY <2>3, <1>4, <1>11, <1>13
  <2> QED
    BY <2>1, <2>2, <2>3
<1>17. Queued(q, t) = c
  <2>1. Len(c) <= Cardinality(Node) /\ Len(c) \in Nat
    BY <1>12, <1>16, NoTwice
  <2>2. SubSeq(c, 1, Len(c)) = c
    BY <1>12, SubSeqFull
  <2>3. Len(c) < Cardinality(Node) \/ Len(c) = Cardinality(Node)
    BY <2>1, NodesCount
  <2>4. Queued(q, t) = SubSeq(c, 1, IF Len(c) < Cardinality(Node) THEN Len(c)
                                                                 ELSE Cardinality(Node))
    BY DEF Queued, c
  <2> QED
    BY <2>2, <2>3, <2>4
<1>18. \A m \in d : Runnable(m, d)
  <2>1. d \subseteq Node /\ \A m \in d : Runnable(m, done)
    BY <1>1, <1>2, <1>a
  <2> QED
    BY <2>1, <1>3
<1>19. ASSUME NEW m \in Node \ (d \cup skipped'[x]), Sources(m) # {},
              areDependenciesMet(m, d)
       PROVE  \E i \in 1 .. Len(c) : c[i] = m
  <2>1. CASE n \notin Sources(m)
    <3>1. areDependenciesMet(m, done) /\ m \notin done \cup skipped[x] /\ m # n
      BY <2>1, <1>19, <1>a, <1>b DEF areDependenciesMet
    <3>2. PICK i \in 1 .. Len(l) : l[i] = m
      BY <3>1, <1>19 DEF InOrder, Due
    <3>3. i # 1
      BY <3>1, <3>2, <1>1
    <3>4. i - 1 \in 1 .. Len(q) /\ (i - 1) + 1 = i
      BY <3>3, <1>1
    <3>5. q[i - 1] = m
      BY <3>2, <3>4, <1>1
    <3> QED
      BY <3>4, <3>5, <1>14
  <2>2. CASE n \in Sources(m)
    <3>1. PICK e \in Edge : e.from = n /\ e.to = m
      BY <2>2 DEF Sources
    <3>2. Follows(e, result)
      <4>1. m \notin LeftOut(n, result)
        BY <1>19, <1>b
      <4> QED
        BY <3>1, <4>1 DEF LeftOut
    <3>3. e \in E
      BY <3>1, <3>2, <1>19 DEF E, NextEdges
    <3>4. PICK i \in 1 .. Len(s) : s[i] = e
      BY <3>3, <1>5
    <3>5. i \in 1 .. Len(t) /\ t[i] = m
      BY <3>1, <3>4, <1>9
    <3> QED
      BY <3>5, <1>14
  <2> QED
    BY <2>1, <2>2
<1>20. InOrder(c, d, skipped'[x])
  BY <1>15, <1>16, <1>18, <1>19 DEF InOrder, Due
<1>21. \A y \in Flow \ {x} : UNCHANGED <<queue[y], completed[y], skipped[y]>>
  BY DEF queueNextNodes, GraphTypeOK
<1> QED
  BY <1>a, <1>c, <1>17, <1>20, <1>21 DEF d

(* A step that moves x at most to where its line is the same, or no matter.*)
LEMMA LineKept ==
    ASSUME NEW x \in Flow, LineOf(x),
           UNCHANGED <<node[x], queue[x], completed[x], skipped[x]>>,
           \/ worker'[x] = worker[x]
           \/ worker[x] \in Early /\ worker'[x] \in Early
           \/ worker'[x] \in {"done", "refused"}
           \/ worker[x] = "paused" /\ worker'[x] = "resumed"
    PROVE  LineOf(x)'
<1>1. CASE worker'[x] = worker[x]
  <2>1. Line(x)' = Line(x) /\ Behind(x)' = Behind(x)
    BY <1>1 DEF Line, Behind
  <2> QED
    BY <1>1, <2>1 DEF LineOf
<1>2. CASE worker[x] \in Early /\ worker'[x] \in Early
  BY <1>2 DEF LineOf, Early, Busy
<1>3. CASE worker'[x] \in {"done", "refused"}
  BY <1>3 DEF LineOf, Early, Busy
<1>4. CASE worker[x] = "paused" /\ worker'[x] = "resumed"
  <2>1. Line(x)' = Line(x) /\ Behind(x)' = Behind(x)
    BY <1>4 DEF Line, Behind
  <2> QED
    BY <1>4, <2>1 DEF LineOf, Early, Busy
<1> QED
  BY <1>1, <1>2, <1>3, <1>4

(* The execution x has completed its node.                                 *)
LEMMA LinePassedOn ==
    ASSUME Plain, FlowTypeOK, GraphInv, NEW x \in Flow, LineOf(x),
           NEW result \in Port \cup {"failed"}, PassOn(x, result),
           worker[x] \in {"node", "resumed"}
    PROVE  /\ LineOf(x)'
           /\ \A y \in Flow \ {x} : UNCHANGED <<node[y], queue[y], completed[y], skipped[y]>>
<1> DEFINE n == node[x]
           l == <<n>> \o queue[x]
           done == completed[x] \ {n}
<1>1. n \in Node /\ n \notin DisabledNode /\ queue[x] \in Seq(Node) /\ done \in SUBSET Node
  BY DEF LineOf, Busy, GraphInv, AtNode, GraphTypeOK
<1>2. l \in Seq(Node) /\ l # <<>> /\ Head(l) = n /\ Tail(l) = queue[x]
  BY <1>1
<1>3. InOrder(l, done, skipped[x]) /\ completed[x] \cup {n} = done \cup {n}
  BY DEF LineOf, Busy, Line, Behind
<1>4. queueNextNodes(x, queue[x], n, result) /\ result \in Results(n)
  BY <1>1 DEF PassOn, Results
<1> HIDE DEF l, n, done
<1>5. /\ InOrder(queue'[x], completed'[x], skipped'[x])
      /\ \A y \in Flow \ {x} : UNCHANGED <<queue[y], completed[y], skipped[y]>>
  BY <1>1, <1>2, <1>3, <1>4, LinePasses DEF GraphInv
<1>6. \A y \in Flow \ {x} : UNCHANGED node[y]
  BY DEF PassOn, GraphInv, GraphTypeOK
<1>7. GraphTypeOK'
  BY PassedOn DEF GraphInv
<1>8. CASE isExecutionComplete(completed'[x])
  <2>1. worker'[x] = "done"
    BY <1>8 DEF PassOn, Ended, FlowTypeOK
  <2> QED
    BY <2>1, <1>5, <1>6 DEF LineOf, Early, Busy
<1>9. CASE ~ isExecutionComplete(completed'[x])
  <2>1. worker'[x] = "loop"
    BY <1>9 DEF PassOn, FlowTypeOK
  <2>2. GoesOn(completed'[x])
    BY <1>9 DEF isExecutionComplete, GoesOn, Due
  <2> QED
    BY <2>1, <2>2, <1>5, <1>6 DEF LineOf, Early, Busy, Line, Behind
<1> QED
  BY <1>8, <1>9

LEMMA LineStep ==
    ASSUME Plain, FlowTypeOK, GraphInv, LineInv, [WorkflowNext]_workflowVars
    PROVE  LineInv'
<1>g. GraphTypeOK /\ AtNode
  BY DEF GraphInv
<1> DEFINE Others(x) ==
        \A y \in Flow \ {x} :
            UNCHANGED <<worker[y], node[y], queue[y], completed[y], skipped[y]>>
<1>o. ASSUME NEW x \in Flow, LineOf(x)', Others(x)
      PROVE  LineInv'
  <2> SUFFICES ASSUME NEW y \in Flow PROVE LineOf(y)'
    BY DEF LineInv
  <2>1. CASE y = x
    BY <2>1, <1>o
  <2>2. CASE y # x
    BY <2>2, <1>o, LineKept DEF LineInv
  <2> QED
    BY <2>1, <2>2
<1> HIDE DEF Others
<1>1. CASE \E x \in Flow : Execute(x) \/ Entering(x) \/ ContextDone(x) \/ TakeDecision(x)
  <2>1. PICK x \in Flow, pc \in {"wait", "admitted", "refused", "start", "done", "resumed"} :
            /\ worker' = [worker EXCEPT ![x] = pc] /\ UNCHANGED graph
            /\ \/ worker[x] \in Early /\ pc \in Early
               \/ pc \in {"done", "refused"}
               \/ worker[x] = "paused" /\ pc = "resumed"
    BY <1>1 DEF Execute, Entering, SlotFound, WaitCancelled, Launch, ContextDone,
                TakeDecision, Ended, Early
  <2> QED
    BY <2>1, LineKept DEF LineInv, FlowTypeOK, graph
<1>2. CASE \E x \in Flow : BeginLoop(x)
  <2>1. PICK x \in Flow : BeginLoop(x)
    BY <1>2
  <2>2. PICK s \in SetToSeqs(TriggerNode) : queue' = [queue EXCEPT ![x] = s]
    BY <2>1 DEF BeginLoop
  <2>3. IsFiniteSet(TriggerNode) /\ Cardinality(TriggerNode) # 0
    BY WorkflowAssumption, FS_Subset, FS_EmptySet
  <2>4. /\ s \in Seq(TriggerNode) /\ Len(s) = Cardinality(TriggerNode)
        /\ DOMAIN s = 1 .. Len(s)
    BY <2>3, Order
  <2>5. /\ s # <<>> /\ \A i \in 1 .. Len(s) : s[i] \in TriggerNode
        /\ \A i, j \in 1 .. Len(s) : s[i] = s[j] => i = j
    BY <2>3, <2>4 DEF SetToSeqs
  <2>6. /\ queue'[x] = s /\ worker'[x] = "loop" /\ completed'[x] = {}
        /\ UNCHANGED <<node, completed, skipped>>
    BY <2>1, <2>2, <1>g DEF BeginLoop, GraphTypeOK, FlowTypeOK, LineInv, LineOf, Early
  <2>7. InOrder(s, {}, skipped'[x]) /\ GoesOn({})
    BY <2>5 DEF InOrder, GoesOn, Due, Runnable, areDependenciesMet
  <2>8. LineOf(x)'
    BY <2>5, <2>6, <2>7 DEF LineOf, Early, Busy, Line, Behind
  <2>9. Others(x)
    BY <2>1, <2>2, <2>6, <1>g DEF Others, BeginLoop, GraphTypeOK, FlowTypeOK
  <2> QED
    BY <2>8, <2>9, <1>o
<1>3. CASE \E x \in Flow : Dequeue(x)
  <2>1. PICK x \in Flow : Dequeue(x)
    BY <1>3
  <2> DEFINE l == queue[x]
             n == Head(l)
  <2>2. /\ l \in Seq(Node) /\ l # <<>> /\ worker[x] = "loop" /\ completed[x] \in SUBSET Node
        /\ InOrder(l, completed[x], skipped[x])
    BY <2>1, <1>g DEF Dequeue, GraphTypeOK, LineInv, LineOf, Line, Behind
  <2>3. n \in Node /\ n \notin completed[x] /\ l = <<n>> \o Tail(l) /\ Tail(l) \in Seq(Node)
    <3> HIDE DEF l
    <3>1. n \in Node /\ n = l[1] /\ 1 \in 1 .. Len(l) /\ Tail(l) \in Seq(Node)
      BY <2>2
    <3>2. n \notin completed[x]
      BY <3>1, <2>2 DEF InOrder
    <3> QED
      BY <3>1, <3>2, <2>2, HeadTailProperties
  <2>4. CASE n \in DisabledNode /\ queueNextNodes(x, Tail(l), n, "disabled")
             /\ UNCHANGED <<worker, node>>
    <3>1. "disabled" \in Results(n) /\ completed[x] \cup {n} = completed[x] \cup {n}
      BY <2>4 DEF Results
    <3>2. /\ InOrder(queue'[x], completed'[x], skipped'[x])
          /\ completed'[x] = completed[x] \cup {n}
          /\ \A y \in Flow \ {x} : UNCHANGED <<queue[y], completed[y], skipped[y]>>
      <4> HIDE DEF l
      <4> QED
        BY <2>2, <2>4, <3>1, <1>g, LinePasses
    <3>3. GoesOn(completed'[x])
      <4>1. GoesOn(completed[x])
        BY <2>2 DEF LineInv, LineOf
      <4> HIDE DEF l, n
      <4> QED
        BY <2>4, <3>2, <4>1 DEF GoesOn, Due, areDependenciesMet
    <3>4. LineOf(x)'
      BY <2>2, <2>4, <3>2, <3>3 DEF LineOf, Early, Busy, Line, Behind
    <3>5. Others(x)
      BY <2>4, <3>2 DEF Others
    <3> QED
      BY <3>4, <3>5, <1>o
  <2>5. CASE /\ n \notin DisabledNode
             /\ queue' = [queue EXCEPT ![x] = Tail(@)] /\ node' = [node EXCEPT ![x] = n]
             /\ worker' = [worker EXCEPT ![x] = "node"] /\ UNCHANGED <<completed, skipped>>
    <3>1. /\ queue'[x] = Tail(l) /\ node'[x] = n /\ worker'[x] = "node"
          /\ UNCHANGED <<completed[x], skipped[x]>>
      BY <2>5, <1>g DEF GraphTypeOK, FlowTypeOK
    <3>2. Line(x)' = l /\ Behind(x)' = completed[x]
      BY <2>3, <3>1 DEF Line, Behind
    <3>3. InOrder(Line(x)', Behind(x)', skipped'[x])
      BY <2>2, <3>1, <3>2
    <3>4. LineOf(x)'
      BY <2>5, <3>1, <3>3 DEF LineOf, Early, Busy
    <3>5. Others(x)
      BY <2>5, <1>g DEF Others, GraphTypeOK, FlowTypeOK
    <3> QED
      BY <3>4, <3>5, <1>o
  <2> QED
    BY <2>1, <2>3, <2>4, <2>5 DEF Dequeue
<1>4. ASSUME NEW x \in Flow, NEW result \in Port \cup {"failed"}, PassOn(x, result),
             worker[x] \in {"node", "resumed"}
      PROVE  LineInv'
  <2>1. /\ LineOf(x)'
        /\ \A y \in Flow \ {x} : UNCHANGED <<node[y], queue[y], completed[y], skipped[y]>>
    BY <1>4, LinePassedOn DEF LineInv
  <2>2. \A y \in Flow \ {x} : UNCHANGED worker[y]
    BY <1>4 DEF PassOn, Ended, FlowTypeOK
  <2> QED
    BY <2>1, <2>2, <1>o DEF Others
<1>5. CASE \E x \in Flow : NodeSucceeds(x) \/ Resumed(x)
  BY <1>4, <1>5 DEF NodeSucceeds, Resumed
<1>6. CASE \E x \in Flow : NodeFails(x)
  <2>1. PICK x \in Flow : NodeFails(x)
    BY <1>6
  <2>2. CASE PassOn(x, "failed")
    BY <2>1, <2>2, <1>4 DEF NodeFails
  <2>3. CASE ~ PassOn(x, "failed")
    <3>1. /\ worker' = [worker EXCEPT ![x] = "done"]
          /\ completed' = [completed EXCEPT ![x] = @ \cup {node[x]}]
          /\ UNCHANGED <<node, queue, skipped>>
      BY <2>1, <2>3 DEF NodeFails, Ended
    <3>2. LineOf(x)'
      BY <3>1 DEF LineOf, Early, Busy, FlowTypeOK
    <3>3. Others(x)
      BY <3>1, <1>g DEF Others, GraphTypeOK, FlowTypeOK
    <3> QED
      BY <3>2, <3>3, <1>o
  <2> QED
    BY <2>2, <2>3
<1>7. CASE \E x \in Flow : Pause(x)
  <2>1. PICK x \in Flow : Pause(x)
    BY <1>7
  <2>2. /\ worker' = [worker EXCEPT ![x] = "paused"] /\ worker[x] = "node"
        /\ completed' = [completed EXCEPT ![x] = @ \cup {node[x]}]
        /\ UNCHANGED <<node, queue, skipped>>
    BY <2>1 DEF Pause
  <2>3. worker'[x] = "paused" /\ completed'[x] = completed[x] \cup {node[x]}
    BY <2>2, <1>g DEF GraphTypeOK, FlowTypeOK
  <2>4. Line(x)' = Line(x) /\ Behind(x)' = Behind(x)
    BY <2>2, <2>3 DEF Line, Behind
  <2>5. InOrder(Line(x), Behind(x), skipped[x]) /\ node[x] \notin DisabledNode
    BY <2>2 DEF LineInv, LineOf, Busy
  <2>6. LineOf(x)'
    BY <2>2, <2>3, <2>4, <2>5 DEF LineOf, Early, Busy
  <2>7. Others(x)
    BY <2>2, <1>g DEF Others, GraphTypeOK, FlowTypeOK
  <2> QED
    BY <2>6, <2>7, <1>o
<1>8. CASE UNCHANGED <<graph, worker>>
  BY <1>8, LineKept DEF LineInv, graph
<1>9. CASE \E x \in Flow :
          ResumeExecution(x) \/ CancelExecution(x) \/ CancelContext(x) \/ RequestEnds(x)
          \/ Expires(x)
  BY <1>8, <1>9
     DEF ResumeExecution, CancelExecution, CancelContext, RequestEnds, Expires, graph
<1>10. CASE CloseEngine \/ CloseReturns
  BY <1>8, <1>10 DEF CloseEngine, CloseReturns, graph
<1>11. CASE UNCHANGED workflowVars
  BY <1>8, <1>11 DEF workflowVars
<1> QED
  BY <1>1, <1>2, <1>3, <1>5, <1>6, <1>7, <1>9, <1>10, <1>11 DEF WorkflowNext, RunExecution

(* In a workflow in which no result leads twice to a node and nothing      *)
(* leads to a trigger, the queue of runExecution never drops a node: its   *)
(* loop waits with an empty queue only for a node that is due and to which *)
(* a connection was not followed, or where only disabled nodes have run,   *)
(* and otherwise ends with the last node.                                  *)
THEOREM LoopEndsWithItsNodes ==
    ASSUME Plain
    PROVE  WorkflowSpec => []IdlesOnlyAfterSkips
<1>1. WorkflowInit => LineInv
  BY DEF WorkflowInit, LineInv, LineOf, Early, Busy
<1>2. FlowTypeOK /\ GraphInv /\ LineInv /\ [WorkflowNext]_workflowVars => LineInv'
  BY LineStep
<1>3. LineInv => IdlesOnlyAfterSkips
  <2> SUFFICES ASSUME NEW x \in Flow, LineOf(x), worker[x] = "loop", queue[x] = <<>>,
                      ~ (completed[x] \subseteq DisabledNode)
               PROVE  \E n \in skipped[x] \ (completed[x] \cup DisabledNode) :
                          Sources(n) # {} /\ areDependenciesMet(n, completed[x])
    BY DEF LineInv, IdlesOnlyAfterSkips
  <2>1. PICK n \in Node \ (completed[x] \cup DisabledNode) : Due(n, completed[x])
    BY DEF LineOf, GoesOn
  <2>2. InOrder(<<>>, completed[x], skipped[x])
    BY DEF LineOf, Line, Behind
  <2> QED
    BY <2>1, <2>2 DEF InOrder, Due
<1>4. WorkflowInv => FlowTypeOK /\ GraphInv
  BY DEF WorkflowInv
<1> QED
  BY <1>1, <1>2, <1>3, <1>4, InitWorkflowInv, InductiveWorkflowInv, PTL DEF WorkflowSpec

-----------------------------------------------------------------------------
(* The end of an execution.  With one trigger and no disabled node a       *)
(* completed execution has nothing left in its queue; of two triggers the  *)
(* second may be left there, and of a disabled node what follows it.       *)
WholeOf(x, t) ==
    /\ worker[x] = "loop" => t \in completed[x] \/ queue[x] = <<t>>
    /\ worker[x] \in Busy => t \in completed[x] \cup {node[x]}
    /\ flow[x] = "completed" => /\ worker[x] = "done"
                               /\ \A i \in 1 .. Len(queue[x]) : queue[x][i] \in completed[x]

LEMMA WholeStep ==
    ASSUME NEW t \in Node, TriggerNode = {t}, DisabledNode = {}, FlowTypeOK, GraphInv,
           \A x \in Flow : WholeOf(x, t), [WorkflowNext]_workflowVars
    PROVE  \A x \in Flow : WholeOf(x, t)'
<1>g. GraphTypeOK /\ AtNode
  BY DEF GraphInv
<1> DEFINE Others(x) ==
        \A y \in Flow \ {x} :
            UNCHANGED <<worker[y], flow[y], node[y], queue[y], completed[y]>>
<1>k. ASSUME NEW x \in Flow, UNCHANGED <<node[x], queue[x], completed[x]>>,
             \/ worker'[x] = worker[x] /\ worker[x] # "done"
             \/ worker[x] \in Early /\ worker'[x] \in Early
             \/ worker'[x] \in {"done", "refused"} /\ worker[x] # "done"
             \/ worker[x] = "paused" /\ worker'[x] = "resumed",
             flow'[x] = flow[x] \/ flow'[x] # "completed"
      PROVE  WholeOf(x, t)'
  BY <1>k DEF WholeOf, Early, Busy
<1>u. ASSUME NEW x \in Flow,
             UNCHANGED <<worker[x], flow[x], node[x], queue[x], completed[x]>>
      PROVE  WholeOf(x, t)'
  BY <1>u DEF WholeOf, Busy
<1>o. ASSUME NEW x \in Flow, WholeOf(x, t)', Others(x)
      PROVE  \A y \in Flow : WholeOf(y, t)'
  <2> SUFFICES ASSUME NEW y \in Flow PROVE WholeOf(y, t)'
    OBVIOUS
  <2>1. CASE y = x
    BY <2>1, <1>o
  <2>2. CASE y # x
    BY <2>2, <1>o, <1>u
  <2> QED
    BY <2>1, <2>2
<1> HIDE DEF Others
<1>1. CASE \E x \in Flow : Execute(x) \/ Entering(x) \/ ContextDone(x) \/ TakeDecision(x)
  <2>a. PICK x \in Flow : Execute(x) \/ Entering(x) \/ ContextDone(x) \/ TakeDecision(x)
    BY <1>1
  <2>1. PICK pc \in {"wait", "admitted", "refused", "start", "done", "resumed"},
             status \in {flow[x], "pending", "failed", "cancelled"} :
            /\ worker' = [worker EXCEPT ![x] = pc] /\ UNCHANGED graph
            /\ flow' = [flow EXCEPT ![x] = status]
            /\ \/ worker[x] \in Early /\ pc \in Early
               \/ pc \in {"done", "refused"} /\ worker[x] # "done"
               \/ worker[x] = "paused" /\ pc = "resumed"
    BY <2>a DEF Execute, Entering, SlotFound, WaitCancelled, Launch, ContextDone,
                TakeDecision, Ended, ByContext, Early, FlowTypeOK
  <2>2. /\ worker'[x] = pc /\ flow'[x] = status
        /\ \A y \in Flow \ {x} : UNCHANGED <<worker[y], flow[y]>>
    BY <2>1 DEF FlowTypeOK
  <2>3. UNCHANGED <<node, queue, completed>>
    BY <2>1 DEF graph
  <2>4. WholeOf(x, t)'
    BY <2>1, <2>2, <2>3, <1>k
  <2> QED
    BY <2>2, <2>3, <2>4, <1>o DEF Others
<1>2. CASE \E x \in Flow : BeginLoop(x)
  <2>1. PICK x \in Flow : BeginLoop(x)
    BY <1>2
  <2>2. PICK s \in SetToSeqs(TriggerNode) : queue' = [queue EXCEPT ![x] = s]
    BY <2>1 DEF BeginLoop
  <2>3. IsFiniteSet(TriggerNode) /\ Cardinality(TriggerNode) = 1
    BY FS_Singleton
  <2>4. s \in Seq(TriggerNode) /\ Len(s) = 1 /\ DOMAIN s = 1 .. 1
    BY <2>3, Order
  <2>5. s = <<t>>
    BY <2>4
  <2>6. /\ worker' = [worker EXCEPT ![x] = "loop"] /\ flow' = [flow EXCEPT ![x] = "running"]
        /\ UNCHANGED <<node, completed>>
    BY <2>1 DEF BeginLoop
  <2>7. WholeOf(x, t)' /\ Others(x)
    BY <2>2, <2>5, <2>6, <1>g DEF Others, WholeOf, Busy, GraphTypeOK, FlowTypeOK
  <2> QED
    BY <2>7, <1>o
<1>3. CASE \E x \in Flow : Dequeue(x)
  <2>1. PICK x \in Flow : Dequeue(x)
    BY <1>3
  <2> DEFINE n == Head(queue[x])
  <2>2. worker[x] = "loop" /\ UNCHANGED flow /\ t \in completed[x] \cup {n}
    BY <2>1 DEF Dequeue, WholeOf
  <2>3. CASE /\ n \in completed[x] /\ queue' = [queue EXCEPT ![x] = Tail(@)]
             /\ UNCHANGED <<worker, node, completed>>
    <3>1. t \in completed'[x] /\ worker'[x] = "loop" /\ flow'[x] # "completed"
      BY <2>2, <2>3 DEF WholeOf
    <3>2. WholeOf(x, t)' /\ Others(x)
      BY <2>2, <2>3, <3>1, <1>g DEF Others, WholeOf, Busy, GraphTypeOK
    <3> QED
      BY <3>2, <1>o
  <2>4. CASE /\ queue' = [queue EXCEPT ![x] = Tail(@)] /\ node' = [node EXCEPT ![x] = n]
             /\ worker' = [worker EXCEPT ![x] = "node"] /\ UNCHANGED completed
    <3>1. worker'[x] = "node" /\ node'[x] = n /\ flow'[x] # "completed"
      BY <2>2, <2>4, <1>g DEF WholeOf, GraphTypeOK, FlowTypeOK
    <3>2. WholeOf(x, t)' /\ Others(x)
      BY <2>2, <2>4, <3>1, <1>g DEF Others, WholeOf, Busy, GraphTypeOK, FlowTypeOK
    <3> QED
      BY <3>2, <1>o
  <2> QED
    BY <2>1, <2>3, <2>4 DEF Dequeue
<1>4. ASSUME NEW x \in Flow, NEW result, PassOn(x, result), worker[x] \in {"node", "resumed"}
      PROVE  \A y \in Flow : WholeOf(y, t)'
  <2>1. /\ node[x] \in Node /\ queue[x] \in Seq(Node)
        /\ \A i \in 1 .. Len(queue[x]) : Runnable(queue[x][i], completed[x])
        /\ queueNextNodes(x, queue[x], node[x], result)
    BY <1>4, <1>g DEF PassOn, GraphInv, GraphTypeOK, AtNode, QueueOK
  <2>2. /\ queue' = [queue EXCEPT ![x] = queue'[x]]
        /\ completed' = [completed EXCEPT ![x] = completed'[x]]
        /\ queue'[x] \in Seq(Node) /\ completed'[x] = completed[x] \cup {node[x]}
        /\ \A i \in 1 .. Len(queue'[x]) : Runnable(queue'[x][i], completed'[x])
    BY <2>1, <1>g, QueueNext
  <2>3. t \in completed'[x] /\ flow[x] # "completed"
    BY <2>2, <1>4 DEF WholeOf, Busy
  <2>4. /\ \A y \in Flow \ {x} : UNCHANGED <<worker[y], flow[y]>>
        /\ node' = [node EXCEPT ![x] = NoNode]
    BY <1>4 DEF PassOn, Ended, FlowTypeOK
  <2>5. Others(x)
    BY <2>2, <2>4, <1>g DEF Others, GraphTypeOK
  <2>6. CASE isExecutionComplete(completed'[x])
    <3>1. worker'[x] = "done"
      BY <2>6, <1>4 DEF PassOn, Ended, FlowTypeOK
    <3>2. ASSUME NEW i \in 1 .. Len(queue'[x]) PROVE queue'[x][i] \in completed'[x]
      <4>1. queue'[x][i] \in Node /\ Runnable(queue'[x][i], completed'[x])
        <5>1. queue'[x] \in Seq(Node)
          BY <2>2
        <5>2. queue'[x][i] \in Node
          BY <5>1
        <5>3. Runnable(queue'[x][i], completed'[x])
          BY <2>2, Zenon
        <5> QED
          BY <5>2, <5>3
      <4>2. \/ queue'[x][i] = t
            \/ /\ Sources(queue'[x][i]) # {}
               /\ areDependenciesMet(queue'[x][i], completed'[x])
        BY <4>1 DEF Runnable
      <4> QED
        BY <4>1, <4>2, <2>3, <2>6 DEF isExecutionComplete
    <3> QED
      BY <3>1, <3>2, <2>5, <1>o DEF WholeOf, Busy
  <2>7. CASE ~ isExecutionComplete(completed'[x])
    <3>1. worker'[x] = "loop" /\ flow'[x] # "completed"
      BY <2>3, <2>7, <1>4 DEF PassOn, FlowTypeOK
    <3> QED
      BY <3>1, <2>3, <2>5, <1>o DEF WholeOf, Busy
  <2> QED
    BY <2>6, <2>7
<1>5. CASE \E x \in Flow : NodeSucceeds(x) \/ Resumed(x)
  BY <1>4, <1>5 DEF NodeSucceeds, Resumed
<1>6. CASE \E x \in Flow : NodeFails(x)
  <2>1. PICK x \in Flow : NodeFails(x)
    BY <1>6
  <2>2. CASE PassOn(x, "failed")
    BY <2>1, <2>2, <1>4 DEF NodeFails
  <2>3. CASE ~ PassOn(x, "failed")
    <3>1. PICK status \in {"failed", "cancelled"} :
            /\ worker' = [worker EXCEPT ![x] = "done"] /\ flow' = [flow EXCEPT ![x] = status]
            /\ completed' = [completed EXCEPT ![x] = @ \cup {node[x]}]
            /\ UNCHANGED <<node, queue>>
      BY <2>1, <2>3 DEF NodeFails, Ended, ByContext
    <3>2. WholeOf(x, t)' /\ Others(x)
      BY <3>1, <1>g DEF Others, WholeOf, Busy, GraphTypeOK, FlowTypeOK
    <3> QED
      BY <3>2, <1>o
  <2> QED
    BY <2>2, <2>3
<1>7. CASE \E x \in Flow : Pause(x)
  <2>1. PICK x \in Flow : Pause(x)
    BY <1>7
  <2>2. /\ worker' = [worker EXCEPT ![x] = "paused"] /\ worker[x] = "node"
        /\ flow' = [flow EXCEPT ![x] = "paused"]
        /\ completed' = [completed EXCEPT ![x] = @ \cup {node[x]}]
        /\ UNCHANGED <<node, queue>>
    BY <2>1 DEF Pause
  <2>3. WholeOf(x, t)' /\ Others(x)
    BY <2>2, <1>g DEF Others, WholeOf, Busy, GraphTypeOK, FlowTypeOK
  <2> QED
    BY <2>3, <1>o
<1>8. CASE UNCHANGED <<graph, worker, flow>>
  BY <1>8, <1>u DEF graph
<1>9. CASE \E x \in Flow : ResumeExecution(x) \/ CancelExecution(x)
  <2>1. PICK x \in Flow, status \in {"running", "cancelled"} :
            /\ flow' = [flow EXCEPT ![x] = status] /\ flow[x] # "completed"
            /\ UNCHANGED <<graph, worker>>
    BY <1>9 DEF ResumeExecution, CancelExecution
  <2>2. WholeOf(x, t)' /\ Others(x)
    BY <2>1, <1>g DEF Others, WholeOf, Busy, FlowTypeOK, graph
  <2> QED
    BY <2>2, <1>o
<1>10. CASE \E x \in Flow : CancelContext(x) \/ RequestEnds(x) \/ Expires(x)
  BY <1>8, <1>10 DEF CancelContext, RequestEnds, Expires
<1>11. CASE CloseEngine \/ CloseReturns
  BY <1>8, <1>11 DEF CloseEngine, CloseReturns
<1>12. CASE UNCHANGED workflowVars
  BY <1>8, <1>12 DEF workflowVars
<1> QED
  BY <1>1, <1>2, <1>3, <1>5, <1>6, <1>7, <1>9, <1>10, <1>11, <1>12
     DEF WorkflowNext, RunExecution

(* What the comment at isExecutionComplete says is true of a workflow that *)
(* has one trigger and no disabled node: a completed execution has no node *)
(* left that was queued to run.                                            *)
THEOREM CompletedRunsAll ==
    ASSUME NEW t \in Node, TriggerNode = {t}, DisabledNode = {}
    PROVE  WorkflowSpec => []NothingLeftToRun
<1> DEFINE Whole == \A x \in Flow : WholeOf(x, t)
<1>1. WorkflowInit => Whole
  BY DEF WorkflowInit, WholeOf, Busy
<1>2. FlowTypeOK /\ GraphInv /\ Whole /\ [WorkflowNext]_workflowVars => Whole'
  BY WholeStep
<1>3. FlowTypeOK /\ GraphInv /\ Whole => NothingLeftToRun
  <2> SUFFICES ASSUME GraphInv, Whole, NEW x \in Flow, flow[x] = "completed",
                      NEW i \in DOMAIN queue[x]
               PROVE  queue[x][i] \in completed[x]
    BY DEF NothingLeftToRun
  <2>1. i \in 1 .. Len(queue[x])
    BY DEF GraphInv, GraphTypeOK
  <2> QED
    BY <2>1 DEF WholeOf
<1>4. WorkflowInv => FlowTypeOK /\ GraphInv
  BY DEF WorkflowInv
<1> HIDE DEF Whole
<1> QED
  BY <1>1, <1>2, <1>3, <1>4, InitWorkflowInv, InductiveWorkflowInv, PTL DEF WorkflowSpec
=============================================================================
