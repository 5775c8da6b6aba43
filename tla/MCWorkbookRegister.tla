------------------------- MODULE MCWorkbookRegister -------------------------
(***************************************************************************)
(* Instances of WorkbookRegister for TLC.                                  *)
(***************************************************************************)
EXTENDS WorkbookRegister, TLC

SomeFiles ==
    [format : {"FUT"}, months : {<<m>> : m \in Month}, named : {FALSE}, sheets : {TRUE}]
    \cup {[format |-> "FUT", months |-> <<1>>, named |-> FALSE, sheets |-> FALSE],
          [format |-> "Starlight", months |-> <<0, 1>>, named |-> FALSE, sheets |-> TRUE]}

Symmetry == Permutations(Request)
=============================================================================
