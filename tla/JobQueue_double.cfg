\* A test promises OneRecoverChain; the code does not keep it.
SPECIFICATION Spec
CONSTANTS
    Workers = {w1, w2}
    Scheduler = w1
    Seeds <- RecoverOnly
    Texts = {"plain"}
    Retries = 3
    StuckAge = 1
    Delay = 1
    Faults = {}
    MaxJobs = 4
    MaxClock = 3
    MaxRescue = 2
    NULL = NULL
INVARIANT
    OneRecoverChain
