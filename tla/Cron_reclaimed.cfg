\* A job that is not paused stays scheduled (it does not).
SPECIFICATION CronSpec
CONSTANTS
    Job = {j}
    Execution = {e}
    MaxConcurrentJobs = 1
    MaxServices = 2
    MaxEdits = 0
CHECK_DEADLOCK FALSE
INVARIANTS
    ActiveJobsAreScheduled
