SPECIFICATION FairSpec
CONSTANTS
    Absent = Absent
    Request = {r1, r2}
    Old = {o1, o2}
    Base = 0
    Text = {x1}
    Chosen <- ChosenNumbers
INVARIANTS
    LostOnlyToNewer
PROPERTIES
    RequestsEnd
    NumbersGrow
CHECK_DEADLOCK FALSE
