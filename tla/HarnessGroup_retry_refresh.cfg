\* A retried item is in an open group (it may not be).
SPECIFICATION Spec
CONSTANTS
    NItems = 1
    MaxAttempts = 2
    MaxConcurrency = 1
    Dispatcher = dispatcher
    Cancels = {}
    Retries = {retry}
    Reports = {}
    MaxRequests = 1
    MaxLapses = 0
    MaxRuns = 2
    MaxCrashes = 0
    MaxFaults = 0
CHECK_DEADLOCK FALSE
INVARIANTS
    NoStrandedItem
