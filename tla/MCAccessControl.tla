--------------------------- MODULE MCAccessControl ---------------------------
(***************************************************************************)
(* Instances of AccessControl for TLC.                                     *)
(***************************************************************************)
EXTENDS AccessControl, TLC

CONSTANTS s1, s2, u1, a1, a2, p1

\* Superadmins on a plain user, on each other and on themselves, and a plain user
\* with the administrative permission.
SomeCalls ==
    [op : {"serve"}, by : {u1}]
    \cup [op : {"profile", "activate"}, by : {s1}, whom : {{u1}}]
    \cup [op : {"deactivate"}, by : {u1, s2}, whom : {{s2}}]
    \cup [op : {"remove"}, by : {s2}, whom : {{s1}}]
    \cup [op : {"bulk"}, by : {s1}, whom : {{s1, u1}}]
    \cup [op : {"assign"}, by : {s1}, whom : {{u1}}, role : {a2}]
    \cup [op : {"override"}, by : {s1}, whom : {{u1}}, checked : {{}}]
    \cup [op : {"grants"}, by : {u1}, role : {a1}, checked : {{}}]
    \cup [op : {"editRole"}, by : {s1}, role : {a2}, checked : {{p1}}]
    \cup [op : {"enable", "disable", "dropRole"}, by : {s1}, role : {a2}]

OneAssignment == {[u \in User |-> a1]}

OneGrant == {[a \in Role |-> IF a = a1 THEN {p1} ELSE {}]}

Symmetry == Permutations(Request)
=============================================================================
