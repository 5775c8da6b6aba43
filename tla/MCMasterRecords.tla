-------------------------- MODULE MCMasterRecords --------------------------
(***************************************************************************)
(* Instances of MasterRecords for TLC.                                     *)
(***************************************************************************)
EXTENDS MasterRecords, TLC

CONSTANTS b, k1, k2, i1, i2

SomeCalls ==
    [op : {"create"}, code : {k1, k2}, info : {i1}]
    \cup [op : {"update"}, id : {b},
          sent : {"code" :> k1, "code" :> k2, "info" :> i2, "code" :> k2 @@ "info" :> i1}]
    \cup [op : {"delete"}, id : Id]

Symmetry == Permutations(Request)
=============================================================================
