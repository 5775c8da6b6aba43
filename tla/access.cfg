SPECIFICATION Spec
CONSTANTS
    Absent = Absent
    s1 = s1
    s2 = s2
    u1 = u1
    a1 = a1
    a2 = a2
    p1 = p1
    Request = {r1, r2, r3}
    User = {s1, s2, u1}
    SuperAdmin = {s1, s2}
    Role = {a1, a2}
    Permission = {p1}
    Required = p1
    Call <- SomeCalls
    Assigned <- OneAssignment
    Grants <- OneGrant
    MaxInFlight = 2
SYMMETRY Symmetry
INVARIANTS
    StaleOnlyByRaceOrFailure
PROPERTIES
    UpsertGivesCheckedOrRole
    LastSuperAdminStays
CHECK_DEADLOCK FALSE
