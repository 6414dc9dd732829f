\* Two triggers of one action.
SPECIFICATION WorkflowSpec
CONSTANTS
    Node = {"t", "u", "a"}
    TriggerNode = {"t", "u"}
    DisabledNode = {}
    CheckpointNode = {}
    Edge <- TwoTriggers
    Port = {"yes"}
    ContinueOnError = FALSE
    Flow = {x}
    MaxConcurrentFlows = 1
    NoNode = NoNode
CHECK_DEADLOCK FALSE
INVARIANTS
    NothingLeftToRun
