\* Two overlapping calls of one user, routes with capacities 2 and 1.
SPECIFICATION Spec
CONSTANTS
    Callers = {c1, c2}
    Capacities = {1, 2}
    Rate = 1
    KeyTTL = 3
    MaxDelay = 1
    MaxClock = 5
    NULL = NULL
SYMMETRY Symmetry
INVARIANTS
    IInv
    NoDoubleRefill
    BurstBounded
PROPERTIES
    DeniedOnlyWhenSpent
