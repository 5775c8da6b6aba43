----------------------------- MODULE AuditedStore -----------------------------
(***************************************************************************)
(* What the audit trail promises of a table: every change of a row comes    *)
(* with an entry, in one step, and the entry tells the values changed.  The *)
(* entry of a creation tells no values; the one of a removal tells that the *)
(* row is removed.  Entries that tell nothing may be added at any time.     *)
(***************************************************************************)
EXTENDS Naturals, Sequences

CONSTANTS
    Id,
    Row,     \* functions from Column to values
    Column,  \* "deleted" among them
    Absent   \* no row, or no change of a column; not in Row

VARIABLES
    store,  \* the rows of the table
    log     \* its entries, in the order they are committed

vars == <<store, log>>

----------------------------------------------------------------------------

\* What an entry tells of its row.
Tells(e, c) == e.changes[c] # Absent \/ (c = "deleted" /\ e.action = "delete")

Told(e, c) == IF e.changes[c] # Absent THEN e.changes[c].new ELSE TRUE

Apply(e, row) == [c \in Column |-> IF Tells(e, c) THEN Told(e, c) ELSE row[c]]

Init ==
    /\ store \in [Id -> Row \cup {Absent}]
    /\ log = <<>>

Create(e) ==
    /\ store[e.id] = Absent
    /\ \A c \in Column : ~ Tells(e, c)
    /\ \E row \in Row : store' = [store EXCEPT ![e.id] = row]

Change(e) ==
    /\ store[e.id] # Absent
    /\ Apply(e, store[e.id]) \in Row
    /\ store' = [store EXCEPT ![e.id] = Apply(e, store[e.id])]

Add(e) ==
    /\ log' = Append(log, e)
    /\ e.id \in Id
    /\ Create(e) \/ Change(e)

Next == Len(log') = Len(log) + 1 /\ Add(log'[Len(log')])

Spec == Init /\ [][Next]_vars

----------------------------------------------------------------------------

\* Entry n is the last to tell column c of its row.
LastToTell(n, c) ==
    /\ Tells(log[n], c)
    /\ \A m \in DOMAIN log : m > n /\ log[m].id = log[n].id => ~ Tells(log[m], c)

\* The value last told of a column is the one stored.
TrailTellsRows ==
    \A n \in DOMAIN log : \A c \in Column :
        LastToTell(n, c) => /\ store[log[n].id] # Absent
                            /\ store[log[n].id][c] = Told(log[n], c)
=============================================================================
