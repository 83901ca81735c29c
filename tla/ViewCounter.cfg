\* Two snippets, two workers whose runs may overlap, one run that fails.
SPECIFICATION FairSpec
CONSTANTS
    s1 = s1
    s2 = s2
    Snippets = {s1, s2}
    Flushers = {f1, f2}
    MaxViews <- TwoAndOne
    MaxFailures = 1
    NULL = NULL
INVARIANTS
    IInv
    CountedUnlessLate
    CountedOncePerTry
PROPERTIES
    BufferDrains
