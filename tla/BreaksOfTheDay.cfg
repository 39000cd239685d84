CONSTANTS
    ann = ann
    bob = bob
    main = main
    branch = branch
    w1 = w1
    w2 = w2
    Hour = 12
    Providers = {ann, bob}
    Offices = {main, branch}
    FirstProvider = ann
    NULL = NULL
    Deferred = Deferred
    Pairwise = FALSE
    Businesses <- MC_Breaks
    Workers = {w1, w2}
    LastDay = 1
    MaxBooked = 2
SPECIFICATION Spec
SYMMETRY MC_Symmetry
INVARIANT
    BreaksOfTheDayAreKept
