SPECIFICATION Spec
CONSTANTS
    Absent = Absent
    Request = {r1, r2, r3}
    MaxBooks = 3
    MaxMonth = 2
    MaxInFlight = 3
    File <- SomeFiles
SYMMETRY Symmetry
INVARIANTS
    MonthsFormChain
    OneWorkbookPerMonth
    PostedBooksStand
    PostingsNeedExhibits
PROPERTIES
    RevivedByEarlierReader
CHECK_DEADLOCK FALSE
