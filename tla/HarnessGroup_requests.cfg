\* A retry or a report races the dispatcher and two attempts of one item, or
\* a lease lapses under a goroutine that still runs.
SPECIFICATION MCSpec
CONSTANTS
    NItems = 1
    MaxAttempts = 2
    MaxConcurrency = 1
    Dispatcher = dispatcher
    Cancels = {}
    Retries = {retry}
    Reports = {report}
    MaxRequests = 1
    MaxLapses = 1
    MaxRuns = 2
    MaxCrashes = 0
    MaxFaults = 0
CHECK_DEADLOCK FALSE
INVARIANTS
    QueuedItemsAreFree
    DuplicatesArePaidFor
