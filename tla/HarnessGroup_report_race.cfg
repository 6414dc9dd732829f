\* A report spares leased items (it does not).
SPECIFICATION Spec
CONSTANTS
    NItems = 1
    MaxAttempts = 2
    MaxConcurrency = 1
    Dispatcher = dispatcher
    Cancels = {}
    Retries = {}
    Reports = {report}
    MaxRequests = 1
    MaxLapses = 0
    MaxRuns = 2
    MaxCrashes = 0
    MaxFaults = 0
CHECK_DEADLOCK FALSE
PROPERTIES
    ReportSparesLeasedItems
