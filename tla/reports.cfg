SPECIFICATION BooksSpec
CONSTANTS
    None = None
    assets = assets
    revenue = revenue
    cash = cash
    fees = fees
    r1 = r1
    r2 = r2
    Request = {r1, r2}
    OldAccount = {assets, revenue, cash, fees}
    OldRow <- SomeRows
    Call <- SomeCalls
    MaxCode = 41
    MaxInFlight = 2
    Posting <- SomePostings
    MaxEntries = 4
INVARIANTS
    NextNumberAhead
    SheetOffByMisfits
    IncomeAgrees
CHECK_DEADLOCK FALSE
