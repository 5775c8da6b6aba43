------------------------------ MODULE Overlaps ------------------------------
(***************************************************************************)
(* Requests, and as history which of them were served at the same time.     *)
(***************************************************************************)
EXTENDS Requests

CONSTANT None

VARIABLE met  \* the requests in flight with a request at some time

\* met, once r has arrived.
Meeting(r) ==
    [q \in Request |-> CASE q = r -> InFlight
                         [] q \in InFlight -> met[q] \cup {r}
                         [] OTHER -> met[q]]
=============================================================================
