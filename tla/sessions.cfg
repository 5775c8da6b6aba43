SPECIFICATION Spec
CONSTANTS
    Absent = Absent
    Request = {r1, r2}
    OldCode = {c1}
    OldSession = {s1}
    OldChallenge = {h1}
    OldToken = {t1}
    Operation = {"login", "forgot", "verify", "resolve", "logout", "reset"}
    MaxAttempts = 1
    MaxRecent = 1
    MaxInFlight = 2
INVARIANTS
    ResetClearsSessions
    SoleSession
    ServedOnce
PROPERTIES
    ImplementsLifecycle
CHECK_DEADLOCK FALSE
