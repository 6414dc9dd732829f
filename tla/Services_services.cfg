\* Each of the small services, one at a time.
SPECIFICATION MCSpec
CONSTANTS
    Provider = {p1, p2}
    Caller = {a, b}
    FirstCaller = a
    FirstProvider = p1
    FailureThreshold = 2
    TransientFailureThreshold = 1
    MaxKeys = 2
    MinProviders = 2
    MaxErrors = 2
    MaxChanges = 2
    Holder = {h1, h2}
    MaxInstances = 4
    MaxTouches = 6
    MaxSettings = 3
    Conn = {c1, c2}
    FirstConn = c1
    BufferSize = 1
    Call = {t}
    Resolver = {u1, u2}
    Job = {j}
    Execution = {e1, e2}
    MaxConcurrentJobs = 1
    MaxServices = 2
    MaxEdits = 3
CHECK_DEADLOCK FALSE
INVARIANTS
    RouterTypeOK
    ManagedTypeOK
    HeldIsLive
    BrokerTypeOK
    NoPanic
    ApprovalsTypeOK
    AllowedMeansApproved
    OneAnswer
    AnswerReaches
    StaysAnswerable
    CronTypeOK
    OneEntryPerJob
    RunningIsTrue
PROPERTIES
    NoStaleRefusal
    EventuallyServed
    IdleIsReclaimed
    ShutdownDrains
    EveryCallReturns
    EveryExecutionEnds
