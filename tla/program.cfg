SPECIFICATION EitherSpec
CONSTANTS
    Absent = Absent
    Request = {r1, r2, r3}
    LastMonth = 2
    NumStates = 2
    MaxInFlight = 2
    Movement <- Amounts
    Heading <- Headings
    Filed <- SomeFiled
    Editable = {"movement", "ibnr"}
    FinalMonth = 2
    Sheets <- SomeSheets
    Baselines <- SomeBaselines
    SheetRates <- SomeSheetRates
    RateEdits <- SomeRateEdits
    Treaties <- SomeTreaties
    MaxEdits = 1
    None = None
    Null = Null
SYMMETRY Symmetry
INVARIANTS
    TotalsAddUp
    ChainSettles
    ReservesPosted
    CashAgrees
PROPERTIES
    
    RollingKeepsEntries
    StatementsBalance
    SettlementsPosted
    StatementsStand
CHECK_DEADLOCK FALSE
