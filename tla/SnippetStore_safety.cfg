\* Three overlapping calls of two users on two snippets.
SPECIFICATION Spec
CONSTANTS
    Requests = {r1, r2, r3}
    Users = {u1, u2}
    Snippets = {s1, s2}
    ShortIds = {i1, i2}
    Titles = {t1, t2}
    Contents = {c1}
    NULL = NULL
SYMMETRY Symmetry
INVARIANTS
    IInv
    VersionsMatchCounter
    ShortIdsUnique
    ReportedVersionHolds
    NoSharedVersion
    LocksAreLive
    JobsMatchRows
PROPERTIES
    OnlyAuthorWrites
    ImplementsVersionLog
