\* A run and its child against timeouts, a cancel request, a late recovery,
\* a crash and a failing insert, in the scenarios of MCHarnessRun.
SPECIFICATION MCSpec
CONSTANTS
    Top = {root}
    Child = {child}
    Parent <- ParentDef
    Cancels = {c1}
    Target <- TargetDef
    MaxConcurrent = 2
    MaxCrashes = 1
    MaxFaults = 1
CHECK_DEADLOCK FALSE
INVARIANTS
    TypeOK
    CompletedIsTrue
PROPERTIES
    NoWorkerLeftBehind
    RunsTellTheTruth
    OnlyLostWritesStrand
