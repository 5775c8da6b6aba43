-------------------------- MODULE MCJournalLedger --------------------------
(***************************************************************************)
(* Instances of JournalLedger for TLC: one batch from the start, under a   *)
(* number of the client or of a statement, and those the requests create.  *)
(* Amounts are in tenths of a cent.                                        *)
(***************************************************************************)
EXTENDS JournalLedger, TLC

CONSTANTS n1, s1, p1, p2

Debit(x) == [debit |-> x, credit |-> 0]
Credit(x) == [debit |-> 0, credit |-> x]
Both(debit, credit) == [debit |-> debit, credit |-> credit]

\* Balanced, unbalanced, and in balance only until each amount is rounded, when they
\* are a cent a line apart.
Vouchers ==
    {<<Debit(100), Credit(100)>>, <<Debit(100), Credit(250)>>, <<Both(5, 4), Both(5, 4)>>}

\* Whole cents, and rows sent by a client: a sum that is rounded otherwise than its rows,
\* and a negative debit.
Statements == {<<Debit(300), Credit(300)>>, <<Debit(5), Debit(5), Debit(-20)>>}

Updates ==
    [op : {"update"}, batch : BatchId, period : {p2, Absent}, number : {n1, Absent}]

SomeCalls ==
    [op : {"create"}, period : {p1}]
    \cup Updates
    \cup [op : {"remove"}, batch : BatchId]
    \cup [op : {"post"}, batch : BatchId, je : {1, 2}, lines : Vouchers]
    \cup [op : {"statement"}, number : StatementNumber, lines : Statements]
    \cup [op : {"upload"}, batch : Old, lines : Statements]
    \cup [op : {"drop"}]

\* What it takes to get round a locked period.
LockCalls ==
    [op : {"update"}, batch : Old, period : {p2, Blank}, number : {s1, Absent}]
    \cup [op : {"post"}, batch : Old, je : {1}, lines : {<<Debit(100), Credit(100)>>}]

Symmetry == Permutations(Request)
=============================================================================
