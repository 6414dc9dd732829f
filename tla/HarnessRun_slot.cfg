\* A parent that is cancelled while its child waits for the only slot ends
\* (it does not).
SPECIFICATION MCSpec
CONSTANTS
    Top = {root}
    Child = {child}
    Parent <- ParentDef
    Cancels = {c1}
    Target <- TargetDef
    MaxConcurrent = 1
    MaxCrashes = 0
    MaxFaults = 0
CHECK_DEADLOCK FALSE
PROPERTIES
    CancelledCallerReturns
