\* Two items share one slot; the process may crash once.
SPECIFICATION Spec
CONSTANTS
    NItems = 2
    MaxAttempts = 1
    MaxConcurrency = 1
    Dispatcher = dispatcher
    Cancels = {}
    Retries = {}
    Reports = {}
    MaxRequests = 1
    MaxLapses = 0
    MaxRuns = 3
    MaxCrashes = 1
    MaxFaults = 0
CHECK_DEADLOCK FALSE
INVARIANTS
    TypeOK
    Recoverable
    OneAttemptPerItem
    ConcurrencyBound
    GroupNeverEndsEarly
PROPERTIES
    KeepsContract
