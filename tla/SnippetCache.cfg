\* Readers, updates, deletes and their jobs: one call at a time, or
\* overlapping and failing.
SPECIFICATION FairSpec
CONSTANTS
    Callers = {c1, c2}
    Titles = {t1, t2}
    FirstTitle = t1
    MaxVersions = 2
    MaxWrites = 2
    TTL = 2
    NULL = NULL
INVARIANTS
    IInv
    PagesAreCommitted
    NumberedArePublic
    SequentialReadsFresh
    DeleteCleans
PROPERTIES
    EventuallyCurrent
