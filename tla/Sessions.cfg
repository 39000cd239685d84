CONSTANTS
    w1 = w1
    w2 = w2
    u1 = u1
    u2 = u2
    u3 = u3
    Workers = {w1, w2}
    Uuids = {u1, u2, u3}
    MaxRequests = 2
    Starts <- MC_Starts
SPECIFICATION Spec
CHECK_DEADLOCK FALSE
SYMMETRY MC_Symmetry
INVARIANTS
    TypeOK
    CustomerOnce
    OpenOnce
    UuidOnce
    MarksKept
    SelectionOnce
    NamedFirst
    RaisedByOverlap
    SomeoneGoesOn
