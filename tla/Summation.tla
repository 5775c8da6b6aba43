------------------------------ MODULE Summation ------------------------------
(***************************************************************************)
(* Sums of amounts: of the lines of a batch, of the states of a workbook,   *)
(* of the rows of a posting, of the reserves of a statement.                *)
(***************************************************************************)
EXTENDS Integers, FiniteSetsExt

\* The sum of f over the elements of S.
SumOver(f, S) == MapThenSumSet(LAMBDA x : f[x], S)
=============================================================================
