------------------------- MODULE MCBatchNumbering -------------------------
(***************************************************************************)
(* Instances of BatchNumbering for TLC, with 0 for 10000.                  *)
(***************************************************************************)
EXTENDS BatchNumbering, TLC

ChosenNumbers == {1, 2} \cup Text

Symmetry == Permutations(Request)
=============================================================================
