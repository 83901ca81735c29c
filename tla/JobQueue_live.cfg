\* Every job ends, errors included; no process dies.
SPECIFICATION FairSpec
CONSTANTS
    Workers = {w1, w2}
    Scheduler = w1
    Seeds <- NoSeeds
    Texts = {"plain"}
    Retries = 3
    StuckAge = 0
    Delay = 1
    Faults = {"error"}
    MaxJobs = 3
    MaxClock = 0
    MaxRescue = 1
    NULL = NULL
INVARIANT
    IInv
PROPERTIES
    EveryJobEnds
