\* One item; the process may crash once and any store call may fail once.
SPECIFICATION FairSpec
CONSTANTS
    NItems = 1
    MaxAttempts = 1
    MaxConcurrency = 1
    Dispatcher = dispatcher
    Cancels = {}
    Retries = {}
    Reports = {}
    MaxRequests = 1
    MaxLapses = 0
    MaxRuns = 3
    MaxCrashes = 1
    MaxFaults = 1
CHECK_DEADLOCK FALSE
INVARIANTS
    EvidenceMatches
    AttemptsBounded
PROPERTIES
    EventuallySettled
