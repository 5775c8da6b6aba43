------------------------- MODULE MCFinancialReports -------------------------
(***************************************************************************)
(* Instances of ChartOfAccounts and FinancialReports for TLC.              *)
(***************************************************************************)
EXTENDS FinancialReports

CONSTANTS r1, r2, assets, revenue, cash, fees

\* Two headings, whose next numbers are not set, and an account under each.
SomeRows ==
    [a \in {assets, revenue, cash, fees} |->
        CASE a = assets -> [code |-> 10, key |-> "ASSETS", parent |-> None, isParent |-> TRUE,
                            normal |-> "debit", next |-> None, deleted |-> FALSE]
          [] a = revenue -> [code |-> 40, key |-> "REVENUE", parent |-> None, isParent |-> TRUE,
                             normal |-> "credit", next |-> None, deleted |-> FALSE]
          [] a = cash -> [code |-> 11, key |-> None, parent |-> assets, isParent |-> FALSE,
                          normal |-> "debit", next |-> None, deleted |-> FALSE]
          [] OTHER -> [code |-> 41, key |-> None, parent |-> revenue, isParent |-> FALSE,
                       normal |-> None, next |-> None, deleted |-> FALSE]]

NotSent ==
    [code |-> None, key |-> None, parent |-> None, isParent |-> None, normal |-> None,
     next |-> None]

Child(code, parent) ==
    [op |-> "create", sent |-> [NotSent EXCEPT !.code = code, !.parent = parent,
                                               !.normal = "debit"]]

Update(id, sent) == [op |-> "update", id |-> id, sent |-> sent]

SomeCalls ==
    {Child(12, assets), Child(13, assets), Child(13, revenue), Child(14, r1),
     Update(fees, [NotSent EXCEPT !.normal = "credit"]),
     Update(cash, [NotSent EXCEPT !.parent = revenue]),
     Update(revenue, [NotSent EXCEPT !.parent = assets]),
     Update(assets, [NotSent EXCEPT !.next = 12, !.key = "EXPANSE"]),
     [op |-> "delete", id |-> assets], [op |-> "delete", id |-> cash]}

Entry(account, debit, credit, month, spelling) ==
    [account |-> account, debit |-> debit, credit |-> credit, month |-> month,
     spelling |-> spelling]

\* Balanced pairs, one apart by a cent, a single entry, one with both columns.
SomePostings ==
    {{Entry(cash, 1, 0, 1, "name"), Entry(fees, 0, 1, 1, "name")},
     {Entry(cash, 2, 0, 2, "number"), Entry(fees, 0, 3, 2, "number")},
     {Entry(r1, 1, 0, 2, "name"), Entry(fees, 0, 1, 2, "name")},
     {Entry(r2, 3, 0, 1, "name")},
     {Entry(assets, 2, 1, 2, "other"), Entry(revenue, 0, 1, 2, "other")}}
=============================================================================
