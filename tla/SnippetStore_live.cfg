\* Liveness: three calls on one snippet, no symmetry.
SPECIFICATION FairSpec
CONSTANTS
    Requests = {r1, r2, r3}
    Users = {u1}
    Snippets = {s1}
    ShortIds = {i1}
    Titles = {t1}
    Contents = {c1}
    NULL = NULL
PROPERTIES
    EveryCallEnds
