SPECIFICATION Spec
CONSTANTS
    Absent = Absent
    Request = {r1, r2, r3}
    MaxBooks = 2
    MaxMonth = 1
    MaxInFlight = 1
    File <- SomeFiles
PROPERTIES
    GapsNotAllowed
CHECK_DEADLOCK FALSE
