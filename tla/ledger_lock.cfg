SPECIFICATION Spec
CONSTANTS
    Absent = Absent
    Blank = Blank
    Request = {r1, r2}
    Old = {o1}
    n1 = n1
    s1 = s1
    Number = {n1, s1}
    StatementNumber = {s1}
    p1 = p1
    p2 = p2
    Period = {p1, p2}
    StatementPeriod = p1
    Scale = 10
    Exercised <- LockCalls
    MaxInFlight = 2
SYMMETRY Symmetry
PROPERTIES
    NoPostingToLocked
