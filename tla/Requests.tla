------------------------------ MODULE Requests ------------------------------
(***************************************************************************)
(* HTTP requests of one Node.js process: async handlers that interleave at  *)
(* each await, each served once, as long as not too many are.               *)
(***************************************************************************)
EXTENDS Naturals, FiniteSets

CONSTANTS
    Request,
    MaxInFlight  \* bound on requests served at the same time

VARIABLES
    pc,   \* where each request stands between two awaits
    call  \* what each request asked for

Active(r) == pc[r] \notin {"idle", "done", "failed"}

InFlight == {r \in Request : Active(r)}

Goto(r, label) == pc' = [pc EXCEPT ![r] = label]

\* What save() makes of a row: it SELECTs the row once more (seen), and its UPDATE sets the
\* columns in which the entity (copy) differs from that; the others stay as they are by then.
Merged(copy, seen, row) ==
    [k \in DOMAIN row |-> IF copy[k] # seen[k] THEN copy[k] ELSE row[k]]
=============================================================================
