SPECIFICATION Spec
CONSTANTS
    Absent = Absent
    b = b
    k1 = k1
    k2 = k2
    i1 = i1
    i2 = i2
    Request = {r1, r2, r3}
    OldRow = {b}
    Code = {k1, k2}
    Info = {i1, i2}
    Kind <- Tables
    Call <- SomeCalls
    MaxInFlight = 2
SYMMETRY Symmetry
INVARIANTS
    TrailTellsRows
    LostUpdatesShow
PROPERTIES
    ImplementsAuditedStore
CHECK_DEADLOCK FALSE
