--------------------------- MODULE FinancialReports ---------------------------
(***************************************************************************)
(* The reports over the journal, profit and loss of a period and the        *)
(* balance sheet up to a period, while the chart of accounts changes.  Each *)
(* is read by one statement (the sheet lists the periods before), so it is  *)
(* a function of the state.  JournalLedger has how entries come to be, and  *)
(* why those of a posting need not balance: rows generated or sent by a     *)
(* client are not checked, and amounts are rounded one by one.              *)
(***************************************************************************)
EXTENDS ChartOfAccounts, Summation

CONSTANTS
    Posting,     \* the sets of entries that may be posted together
    MaxEntries   \* bound on the number of entries posted

Month == 1 .. 2

\* How a batch spells its month: "June 2026", "06-2026", or another way the sheet reads
\* as well ("june 2026").
Spelling == {"name", "number", "other"}

\* Amounts in cents; a column left out or refused for its sign is 0.
EntryRow == [account : Id, debit : Nat, credit : Nat, month : Month, spelling : Spelling]

ASSUME PostingAssumption ==
    /\ \A p \in Posting : p \subseteq EntryRow /\ IsFiniteSet(p)
    /\ MaxEntries \in Nat

VARIABLE journal  \* the entries posted

booksVars == <<accountVars, journal>>

BooksInit == ChartInit /\ journal = {}

\* All entries in one transaction, whatever they add up to.
Post(p) ==
    /\ p \cap journal = {}
    /\ Cardinality(journal \cup p) <= MaxEntries
    /\ \A e \in p : Exists(e.account)
    /\ journal' = journal \cup p
    /\ UNCHANGED accountVars

BooksNext == (ChartNext /\ UNCHANGED journal) \/ \E p \in Posting : Post(p)

BooksSpec == BooksInit /\ [][BooksNext]_booksVars

----------------------------------------------------------------------------
\* Entries

Account(e) == accounts[e.account]

\* Debit less credit.
Movement(e) == e.debit - e.credit

\* An account without a normal balance is taken for one with a debit balance.
Balance(e) == IF Account(e).normal = "credit" THEN - Movement(e) ELSE Movement(e)

Total(entries) == SumOver([e \in entries |-> Balance(e)], entries)

\* The reports join an account with its parent: one without is in none of them.
Listed(e) == Account(e).parent # None

\* Of a class, by the key of the parent or the first digit of the code.
Falls(e, key, digits) ==
    accounts[Account(e).parent].key = key \/ Account(e).code \div 10 \in digits

----------------------------------------------------------------------------
\* Profit and loss

\* The batches of a period: spelled as asked, or with the number.
Of(month, spelling) ==
    {e \in journal : e.month = month /\ e.spelling \in {spelling, "number"}}

IncomeClass(e) ==
    CASE ~ Listed(e) -> "none"
      [] Listed(e) /\ Falls(e, "REVENUE", {4}) -> "revenue"
      [] Listed(e) /\ ~ Falls(e, "REVENUE", {4}) /\ Falls(e, "EXPANSE", {5, 6, 9}) -> "expense"
      [] OTHER -> "none"

\* Variant: only the batches spelled as asked.
NetIncomeAsSpelled(month, spelling) ==
    LET of == {e \in journal : e.month = month /\ e.spelling = spelling}
    IN  Total({e \in of : IncomeClass(e) = "revenue"})
        - Total({e \in of : IncomeClass(e) = "expense"})

NetIncome(month, spelling) ==
    LET of == Of(month, spelling)
    IN  Total({e \in of : IncomeClass(e) = "revenue"})
        - Total({e \in of : IncomeClass(e) = "expense"})

----------------------------------------------------------------------------
\* The balance sheet

UpTo(month) == {e \in journal : e.month <= month}

\* The first class that fits.
SheetClass(e) ==
    IF ~ Listed(e) THEN "none"
    ELSE IF Falls(e, "ASSETS", {1}) THEN "asset"
    ELSE IF Falls(e, "LIABILITY", {2}) THEN "liability"
    ELSE IF Falls(e, "CAPITAL_AND_EQUITY", {3}) THEN "equity"
    ELSE IncomeClass(e)

InClass(month, class) == {e \in UpTo(month) : SheetClass(e) = class}

RetainedEarnings(month) == Total(InClass(month, "revenue")) - Total(InClass(month, "expense"))

\* Variant: retained earnings are left out.
OffWithoutEarnings(month) ==
    Total(InClass(month, "asset")) - Total(InClass(month, "liability"))
        - Total(InClass(month, "equity"))

\* Assets less liabilities and equity, retained earnings included.
Off(month) ==
    Total(InClass(month, "asset")) - Total(InClass(month, "liability"))
        - Total(InClass(month, "equity")) - RetainedEarnings(month)

----------------------------------------------------------------------------
\* Properties

\* The side an account of a class is expected on.
Natural(class) == IF class \in {"asset", "expense"} THEN "debit" ELSE "credit"

Contrary(e) ==
    /\ SheetClass(e) # "none"
    /\ Natural(SheetClass(e)) # (IF Account(e).normal = "credit" THEN "credit" ELSE "debit")

Moved(entries) == SumOver([e \in entries |-> Movement(e)], entries)

\* The balance sheet is off by what the entries posted are apart, less what it leaves
\* out, accounts without parent or class, and by twice the movement of accounts whose
\* normal balance is not that of their class.
SheetOffByMisfits ==
    \A month \in Month :
        Off(month) = Moved(UpTo(month)) - Moved(InClass(month, "none"))
                         - 2 * Moved({e \in UpTo(month) : Contrary(e)})

\* The net incomes of the months, asked for by name, add up to the retained earnings of
\* the sheet, unless a batch spells its month another way or an account is income by
\* its code and not by its parent, or the other way round.
IncomeAgrees ==
    (\A e \in journal :
        /\ e.spelling # "other"
        /\ IncomeClass(e) # "none" => SheetClass(e) = IncomeClass(e)) =>
    \A month \in Month :
        SumOver([m \in Month |-> NetIncome(m, "name")], {m \in Month : m <= month})
            = RetainedEarnings(month)
=============================================================================
