--------------------------- MODULE BatchNumbering ---------------------------
(***************************************************************************)
(* How a journal batch gets its number: the transaction of createBatch that *)
(* locks all batch rows and takes the largest number plus one, batches made *)
(* or renumbered under a number the client chose, and removals.  The rows   *)
(* a locking SELECT returns are those committed when it started, each in    *)
(* the version current when its lock was granted (READ COMMITTED).          *)
(***************************************************************************)
EXTENDS Integers, FiniteSets

CONSTANTS
    Request,  \* requests to JournalEntriesService, each served once
    Old,      \* batches there from the start
    Base,     \* 10000: numbers start after it
    Chosen,   \* batch numbers a client may choose
    Text,     \* those of them that are no numbers (statements: RE-...)
    Absent

Id == Request \cup Old  \* a new batch is known by the request that makes it

Number == Nat \cup Text

Row == [number : Number, isDeleted : BOOLEAN]

\* A create without a number asks for the next one.
Calls ==
    [op : {"create"}, number : Chosen \cup {Absent}]
    \cup [op : {"renumber"}, batch : Id, number : Chosen]
    \cup [op : {"remove"}, batch : Id]

ASSUME ConstantAssumption ==
    /\ Request \cap Old = {}
    /\ Base \in Nat
    /\ Text \cap Nat = {}
    /\ Chosen \subseteq Number
    /\ Absent \notin Number
    /\ Absent \notin Row
    /\ Absent \notin Calls

VARIABLES
    rows,   \* the committed batches
    pc,
    call,
    local   \* copy read and amended, the row as its save() finds it, rows the scan
            \* found, rows locked, number to insert, and as history the batches
            \* there when the request arrived

vars == <<rows, pc, call, local>>

----------------------------------------------------------------------------

Forgotten ==
    [copy |-> Absent, base |-> Absent, seen |-> {}, held |-> {}, number |-> Absent,
     past |-> [b \in Id |-> Absent]]

Active(r) == pc[r] \notin {"idle", "done", "failed"}

Automatic(r) == call[r].op = "create" /\ call[r].number = Absent

Committed == {b \in Id : rows[b] # Absent}

Taken(n) == \E b \in Committed : rows[b].number = n

TakenByOther(n, b) == \E o \in Committed \ {b} : rows[o].number = n

\* Variant: the locks are given back once the number is computed.
HeldWhileLocking(r, b) ==
    \E q \in Request \ {r} : pc[q] = "locking" /\ b \in local[q].held

\* Row locks last to the end of the transaction.
HeldByOther(r, b) == \E q \in Request \ {r} : b \in local[q].held

\* The unique index makes an insert wait for an uncommitted one of its number.
Pending(r, n) == \E q \in Request \ {r} : pc[q] = "committing" /\ local[q].number = n

Goto(r, label) == pc' = [pc EXCEPT ![r] = label]

\* Variant: a failed transaction is not rolled back.
EndHolding(r, outcome) ==
    /\ Goto(r, outcome)
    /\ local' = IF outcome = "done" THEN [local EXCEPT ![r].held = {}] ELSE local

End(r, outcome) ==
    Goto(r, outcome) /\ local' = [local EXCEPT ![r].held = {}]

----------------------------------------------------------------------------

Init ==
    /\ rows \in [Id -> [number : Chosen, isDeleted : BOOLEAN] \cup {Absent}]
    /\ \A b \in Id : rows[b] = Absent <=> b \in Request
    /\ \A b \in Old : ~ TakenByOther(rows[b].number, b)
    /\ pc = [r \in Request |-> "idle"]
    /\ call = [r \in Request |-> Absent]
    /\ local = [r \in Request |-> Forgotten]

Arrive(r, c) ==
    /\ pc[r] = "idle"
    /\ call' = [call EXCEPT ![r] = c]
    /\ local' = [local EXCEPT ![r].past = rows]
    /\ Goto(r, CASE c.op # "create" -> "finding"
                 [] c.op = "create" /\ c.number = Absent -> "scanning"
                 [] OTHER -> "looking")
    /\ UNCHANGED rows

----------------------------------------------------------------------------
\* createBatch without a number.

\* SELECT ... FOR UPDATE of the whole table, removed batches included.
Scan(r) ==
    /\ pc[r] = "scanning"
    /\ local' = [local EXCEPT ![r].seen = Committed]
    /\ Goto(r, "locking")
    /\ UNCHANGED <<rows, call>>

LockRow(r, b) ==
    /\ pc[r] = "locking"
    /\ b \in local[r].seen \ local[r].held
    /\ ~ HeldByOther(r, b)
    /\ local' = [local EXCEPT ![r].held = @ \cup {b}]
    /\ UNCHANGED <<rows, pc, call>>

\* Variant: removed batches are passed over.
NumbersInUse(batches) ==
    {rows[b].number : b \in {b \in batches : ~ rows[b].isDeleted}} \cap Nat

Numbers(batches) == {rows[b].number : b \in batches} \cap Nat

TakeNext(r) ==
    /\ pc[r] = "locking"
    /\ local[r].held = local[r].seen
    /\ \E max \in {Base} \cup Numbers(local[r].held) :
          /\ \A m \in {Base} \cup Numbers(local[r].held) : m <= max
          /\ local' = [local EXCEPT ![r].number = max + 1]
    /\ Goto(r, "inserting")
    /\ UNCHANGED <<rows, call>>

\* createBatch with a number: the look-up takes no lock.
LookUp(r) ==
    /\ pc[r] = "looking"
    /\ IF Taken(call[r].number)
         THEN End(r, "failed")
         ELSE /\ local' = [local EXCEPT ![r].number = call[r].number]
              /\ Goto(r, "inserting")
    /\ UNCHANGED <<rows, call>>

Insert(r) ==
    /\ pc[r] = "inserting"
    /\ ~ Pending(r, local[r].number)
    /\ IF Taken(local[r].number) THEN End(r, "failed")
                                 ELSE Goto(r, "committing") /\ UNCHANGED local
    /\ UNCHANGED <<rows, call>>

Commit(r) ==
    /\ pc[r] = "committing"
    /\ rows' = [rows EXCEPT ![r] = [number |-> local[r].number, isDeleted |-> FALSE]]
    /\ End(r, "done")
    /\ UNCHANGED call

----------------------------------------------------------------------------
\* updateBatch with a number, and removeBatch: read a copy, amend it and save() it,
\* which SELECTs the row once more and UPDATEs the columns that differ from that.

Find(r) ==
    /\ pc[r] = "finding"
    /\ LET row == rows[call[r].batch] IN
       IF row = Absent \/ row.isDeleted
         THEN End(r, "failed")
         ELSE IF call[r].op = "remove"
           THEN /\ local' = [local EXCEPT ![r].copy = [row EXCEPT !.isDeleted = TRUE]]
                /\ Goto(r, "saving")
           ELSE /\ local' = [local EXCEPT ![r].copy = row]
                /\ Goto(r, "checking")
    /\ UNCHANGED <<rows, call>>

\* Only batches that are not removed count as duplicates here.
Check(r) ==
    /\ pc[r] = "checking"
    /\ IF /\ call[r].number # local[r].copy.number
          /\ \E b \in Committed : rows[b].number = call[r].number /\ ~ rows[b].isDeleted
         THEN End(r, "failed")
         ELSE /\ local' = [local EXCEPT ![r].copy =
                              [local[r].copy EXCEPT !.number = call[r].number]]
              /\ Goto(r, "saving")
    /\ UNCHANGED <<rows, call>>

Compare(r) ==
    /\ pc[r] = "saving"
    /\ local' = [local EXCEPT ![r].base = rows[call[r].batch]]
    /\ Goto(r, "writing")
    /\ UNCHANGED <<rows, call>>

Saved(r) ==
    LET copy == local[r].copy  base == local[r].base  row == rows[call[r].batch] IN
    [number |-> IF copy.number # base.number THEN copy.number ELSE row.number,
     isDeleted |-> IF copy.isDeleted # base.isDeleted THEN copy.isDeleted ELSE row.isDeleted]

Save(r) ==
    /\ pc[r] = "writing"
    /\ ~ HeldByOther(r, call[r].batch)
    /\ ~ Pending(r, Saved(r).number)
    /\ IF TakenByOther(Saved(r).number, call[r].batch)
         THEN UNCHANGED rows /\ End(r, "failed")
         ELSE rows' = [rows EXCEPT ![call[r].batch] = Saved(r)] /\ End(r, "done")
    /\ UNCHANGED call

----------------------------------------------------------------------------

\* Requests that wait for each other's row locks: the database ends one.
Deadlocked(r) ==
    \E circle \in SUBSET Request :
        /\ r \in circle
        /\ \A q \in circle :
              /\ pc[q] = "locking" /\ local[q].held # local[q].seen
              /\ \A b \in local[q].seen \ local[q].held :
                    \E p \in circle \ {q} : b \in local[p].held

BreakDeadlock(r) ==
    /\ Deadlocked(r)
    /\ End(r, "failed")
    /\ UNCHANGED <<rows, call>>

\* A failing statement, a locked period or a crash.
Abort(r) ==
    /\ Active(r)
    /\ End(r, "failed")
    /\ UNCHANGED <<rows, call>>

Step(r) ==
    \/ Scan(r) \/ \E b \in Id : LockRow(r, b)
    \/ TakeNext(r) \/ LookUp(r) \/ Insert(r) \/ Commit(r)
    \/ Find(r) \/ Check(r) \/ Compare(r) \/ Save(r)
    \/ BreakDeadlock(r)

Next ==
    \E r \in Request :
        \/ \E c \in Calls : Arrive(r, c)
        \/ Step(r)
        \/ Abort(r)

Spec == Init /\ [][Next]_vars

\* Statements end unless they wait, and the deadlock detector runs.
FairSpec == Spec /\ \A r \in Request : WF_vars(Step(r))

----------------------------------------------------------------------------
\* Properties

Labels ==
    {"idle", "scanning", "locking", "looking", "inserting", "committing",
     "finding", "checking", "saving", "writing", "done", "failed"}

Locals ==
    [copy : Row \cup {Absent}, base : Row \cup {Absent}, seen : SUBSET Id, held : SUBSET Id,
     number : Number \cup {Absent}, past : [Id -> Row \cup {Absent}]]

TypeOK ==
    /\ rows \in [Id -> Row \cup {Absent}]
    /\ pc \in [Request -> Labels]
    /\ call \in [Request -> Calls \cup {Absent}]
    /\ local \in [Request -> Locals]

\* A batch numbered by the service comes after every batch that was there when
\* the request arrived and has kept its number, removed batches included.
NumbersGrow ==
    [][\A r \in Request :
          pc[r] = "committing" /\ pc'[r] = "done" /\ Automatic(r) =>
              \A b \in Id :
                  /\ local[r].past[b] # Absent
                  /\ local[r].past[b].number \in Nat
                  /\ rows[b] # Absent
                  /\ rows[b].number = local[r].past[b].number
                  => rows'[r].number > rows[b].number]_vars

\* The comment at journal-entries.service.ts:47-49 says of the lock on all rows that it keeps
\* "two callers from computing the same max+1 batch number".  It does not: one that
\* waits for the lock of the other takes the maximum of the rows its own scan found, and
\* in an empty table there is nothing to lock.
Computed(r) ==
    /\ pc[r] # "idle"
    /\ Automatic(r)
    /\ \/ pc[r] \in {"inserting", "committing"}
       \/ pc[r] = "done" /\ rows[r] # Absent /\ rows[r].number = local[r].number

ComputedApart ==
    \A r, q \in Request :
        r # q /\ Computed(r) /\ Computed(q) => local[r].number # local[q].number

\* What is left of that promise: a create without a number is refused the number it has
\* computed only if a batch that was not there at its scan has taken it - another such
\* create among others, which ComputedApart is about - and never by those it locked.
LostOnlyToNewer ==
    \A r \in Request :
        (pc[r] = "inserting" /\ Automatic(r))
            => \A b \in Committed : rows[b].number = local[r].number => b \notin local[r].seen

\* Every request ends: a circle of waiting transactions is broken.
RequestsEnd == \A r \in Request : Active(r) ~> ~ Active(r)

=============================================================================
