\* Two executions of a workflow that share one slot.
SPECIFICATION WorkflowSpec
CONSTANTS
    Node = {"t", "c", "d", "a"}
    TriggerNode = {"t"}
    DisabledNode = {"d"}
    CheckpointNode = {"c", "a"}
    Edge <- Fork
    Port = {"yes", "no"}
    ContinueOnError = TRUE
    Flow = {x1, x2}
    MaxConcurrentFlows = 1
    NoNode = NoNode
CHECK_DEADLOCK FALSE
INVARIANTS
    WorkflowTypeOK
    DecisionFitsCheckpoint
    IdlesOnlyAfterSkips
PROPERTIES
    EveryFlowEnds
