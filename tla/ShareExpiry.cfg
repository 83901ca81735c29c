\* Views, shares, updates and cleanups: calm and one by one, or overlapping and failing.
SPECIFICATION FairSpec
CONSTANTS
    Callers = {c1, c2, c3}
    MaxVersions = 2
    Owners = {c1, c2}
    MaxOwned = 2
    ShareTTLs = {2, 3}
    TTL = 3
    MaxDelay = 1
    NULL = NULL
INVARIANTS
    IInv
    ServedWithinGrace
    LinksTracked
    ExpiredPagesAwaited
PROPERTIES
    ExpiredPagesGo
