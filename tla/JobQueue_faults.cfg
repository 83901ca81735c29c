\* Crashes and errors at every await, while a recovery runs.
SPECIFICATION Spec
CONSTANTS
    Workers = {w1, w2}
    Scheduler = w1
    Seeds <- RecoverOnly
    Texts = {"plain"}
    Retries = 2
    StuckAge = 0
    Delay = 1
    Faults = {"error", "crash"}
    MaxJobs = 2
    MaxClock = 1
    MaxRescue = 1
    NULL = NULL
INVARIANTS
    NoJobLost
    BoundedRuns
    FailedHadTries
    OneCopy
    ChainAlive
