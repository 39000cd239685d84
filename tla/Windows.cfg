CONSTANTS
    e1 = e1
    e2 = e2
    Hour = 1
    Providers = {e1}
    Offices = {e1}
    FirstProvider = e1
    NULL = NULL
    Deferred = Deferred
    Pairwise = FALSE
    Entries = {e1, e2}
    Inputs <- MC_Inputs
SPECIFICATION Spec
CHECK_DEADLOCK FALSE
INVARIANTS
    TypeOK
    WindowsAreFree
    WindowsAreApart
    NoSlotIsDropped
