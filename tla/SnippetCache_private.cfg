\* The documentation promises CachedOnlyPublic; the code does not keep it.
SPECIFICATION Spec
CONSTANTS
    Callers = {c1, c2}
    Titles = {t1, t2}
    FirstTitle = t1
    MaxVersions = 2
    MaxWrites = 2
    TTL = 2
    NULL = NULL
INVARIANT
    CachedOnlyPublic
