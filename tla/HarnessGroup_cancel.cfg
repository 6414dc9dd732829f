\* CancelGroup races the dispatcher and two attempts of one item.
SPECIFICATION FairSpec
CONSTANTS
    NItems = 1
    MaxAttempts = 1
    MaxConcurrency = 1
    Dispatcher = dispatcher
    Cancels = {cancel}
    Retries = {}
    Reports = {}
    MaxRequests = 1
    MaxLapses = 0
    MaxRuns = 2
    MaxCrashes = 0
    MaxFaults = 0
CHECK_DEADLOCK FALSE
PROPERTIES
    EventuallyQuiet
