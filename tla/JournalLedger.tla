--------------------------- MODULE JournalLedger ---------------------------
(***************************************************************************)
(* The journal ledger: batches, their entry lines, the month-end period    *)
(* locks and every request that writes them.  Requests are async handlers  *)
(* of one Node.js process; they interleave at each await, and each SQL     *)
(* statement sees what was committed when it started (READ COMMITTED).     *)
(* Amounts are whole numbers of a fraction of a cent on the wire and cents *)
(* in the numeric(15,2) columns.                                           *)
(***************************************************************************)
EXTENDS Requests, Integers, Sequences, Summation

CONSTANTS
    Old,              \* batches there from the start
    Number,           \* batch numbers
    StatementNumber,  \* those of the form RE-<workbook>-<state>, for one workbook
    Period,           \* accounting periods
    StatementPeriod,  \* the workbook's monthLabel
    Exercised,        \* the calls a run exercises
    Scale,            \* amounts are counted in 1/Scale cents
    Blank,            \* a period given as the empty string
    Absent            \* no such row, no value given

BatchId == Old \cup Request  \* a new batch is known by the request that makes it

Amounts == [debit : Int, credit : Int]

BatchRow ==
    [number : Number, period : Period, total : Int, count : Nat, isDeleted : BOOLEAN]

Fresh(n, p) ==
    [number |-> n, period |-> p, total |-> 0, count |-> 0, isDeleted |-> FALSE]

\* The request DTOs.  Lists of lines are not empty: those are refused at once.
Calls ==
    [op : {"create"}, period : Period]
    \cup [op : {"update"}, batch : BatchId, period : Period \cup {Blank, Absent},
          number : Number \cup {Absent}]
    \cup [op : {"remove"}, batch : BatchId]
    \cup [op : {"post"}, batch : BatchId, je : Int, lines : Seq(Amounts) \ {<<>>}]
    \cup [op : {"statement"}, number : StatementNumber, lines : Seq(Amounts) \ {<<>>}]
    \cup [op : {"upload"}, batch : BatchId, lines : Seq(Amounts) \ {<<>>}]
    \cup [op : {"drop"}]

ASSUME ConstantAssumption ==
    /\ Request \cap Old = {}
    /\ StatementNumber \subseteq Number
    /\ StatementPeriod \in Period
    /\ Exercised \subseteq Calls
    /\ Scale \in Nat \ {0}
    /\ MaxInFlight \in Nat \ {0}
    /\ Blank \notin Period
    /\ Absent \notin BatchRow \cup Calls \cup BatchId \cup Number \cup Period

VARIABLES
    rows,     \* the committed batch rows
    entries,  \* the committed entry lines
    locked,   \* the periods whose lock row has isLocked
    local     \* what each request holds in memory or in an open transaction

vars == <<rows, entries, locked, pc, call, local>>

----------------------------------------------------------------------------

\* numeric(15,2), and Math.round(x * 100) / 100.
Cents(x) == (2 * x + Scale) \div (2 * Scale)

Debits(lines) == SumOver([i \in DOMAIN lines |-> lines[i].debit], DOMAIN lines)
Credits(lines) == SumOver([i \in DOMAIN lines |-> lines[i].credit], DOMAIN lines)

Negative(line) == line.debit < 0 \/ line.credit < 0

\* Rounded totals must agree; the lines themselves are not rounded first.
Balanced(lines) == Cents(Debits(lines)) = Cents(Credits(lines))

JeOf(r) == IF call[r].op = "post" THEN call[r].je ELSE 1

\* An amount that is not positive is not stored.
Stored(x) == IF x > 0 THEN Cents(x) ELSE 0

Line(r, i, b) ==
    [post |-> r, no |-> i, batch |-> b, je |-> JeOf(r),
     debit |-> Stored(call[r].lines[i].debit),
     credit |-> Stored(call[r].lines[i].credit)]

LinesOf(r, b) == {Line(r, i, b) : i \in DOMAIN call[r].lines}

\* local[r]: the batch entity read and its id, the row as its save() finds it, the
\* lines its DELETE has selected, how many of its lines the open transaction has
\* inserted, the totals computed, and as history the periods seen unlocked since the
\* request arrived and whether it has been the only one at work since then.
Forgotten ==
    [target |-> Absent, copy |-> Absent, seen |-> Absent, doomed |-> {}, drafted |-> 0,
     tally |-> [total |-> 0, count |-> 0], open |-> {}, alone |-> FALSE]

Draft(r) == {Line(r, i, local[r].target) : i \in 1 .. local[r].drafted}

Present(b) == rows[b] # Absent

Live(b) == Present(b) /\ ~ rows[b].isDeleted

NumberUsed(n) == \E b \in BatchId : Present(b) /\ rows[b].number = n

\* The row this request has read or created still exists.
Kept(r) == Present(local[r].target)

EntriesOf(b, lines) == {e \in lines : e.batch = b}

\* Variant: every line counts as a journal.
TotalsPerLine(lines) ==
    [total |-> SumOver([e \in lines |-> e.debit], lines), count |-> Cardinality(lines)]

TotalsOf(lines) ==
    [total |-> SumOver([e \in lines |-> e.debit], lines),
     count |-> Cardinality({e.je : e \in lines})]

OfStatement(b) == Present(b) /\ rows[b].number \in StatementNumber

\* The lines a request's DELETE statement asks for.
Victims(r) ==
    {e \in entries :
        CASE call[r].op = "drop" -> OfStatement(e.batch)
          [] call[r].op = "post" -> e.batch = local[r].target /\ e.je = call[r].je
          [] OTHER -> e.batch = local[r].target}

\* Row locks on lines are held from the DELETE to the end of the transaction.
InTransaction(r) == pc[r] \in {"inserting", "comparing", "committing"}

RowsLockedFrom(r) ==
    UNION {local[q].doomed : q \in {q \in Request \ {r} : InTransaction(q)}}

\* A line inserted holds a key-share lock on its batch: the batch is not deleted, nor
\* its number changed, before the transaction ends.
PinnedByOther(r, b) ==
    \E q \in Request \ {r} :
        InTransaction(q) /\ local[q].drafted > 0 /\ local[q].target = b

\* The locals of a handler die with it.
End(r, outcome) == Goto(r, outcome) /\ local' = [local EXCEPT ![r] = Forgotten]

----------------------------------------------------------------------------

\* A database in use: some batches exist, still empty, some periods are locked.
Init ==
    /\ rows \in [BatchId -> {Absent} \cup {Fresh(n, p) : n \in Number, p \in Period}]
    /\ \A b \in BatchId : rows[b] = Absent <=> b \in Request
    /\ \A a, b \in Old : rows[a].number = rows[b].number => a = b
    /\ entries = {}
    /\ locked \in SUBSET Period
    /\ pc = [r \in Request |-> "idle"]
    /\ call = [r \in Request |-> Absent]
    /\ local = [r \in Request |-> Forgotten]

\* The first await of each handler.
FirstStep(op) ==
    CASE op \in {"create", "statement"} -> "checking"
      [] op = "drop" -> "selecting"
      [] OTHER -> "finding"

Arrive(r, c) ==
    /\ pc[r] = "idle"
    /\ Cardinality(InFlight) < MaxInFlight
    /\ call' = [call EXCEPT ![r] = c]
    /\ local' = [q \in Request |->
                    IF q = r THEN [local[q] EXCEPT !.open = Period \ locked,
                                                   !.alone = \A o \in Request : ~ Active(o)]
                             ELSE [local[q] EXCEPT !.alone = FALSE]]
    /\ Goto(r, FirstStep(c.op))
    /\ UNCHANGED <<rows, entries, locked>>

----------------------------------------------------------------------------
\* Period locks.

LockPeriod(p) ==
    /\ locked' = locked \cup {p}
    /\ UNCHANGED <<rows, entries, pc, call, local>>

UnlockPeriod(p) ==
    /\ p \in locked
    /\ locked' = locked \ {p}
    /\ local' = [r \in Request |->
                    IF Active(r) THEN [local[r] EXCEPT !.open = @ \cup {p}] ELSE local[r]]
    /\ UNCHANGED <<rows, entries, pc, call>>

----------------------------------------------------------------------------
\* Reads, and the checks on what was read.

ReadBatch(r, b, label) ==
    /\ local' = [local EXCEPT ![r].target = b, ![r].copy = rows[b]]
    /\ Goto(r, label)

\* findOneBatch hides removed batches; the look-ups of statement posting, by number,
\* and of batch upload do not.
FindBatch(r) ==
    /\ pc[r] = "finding"
    /\ \/ /\ call[r].op \in {"update", "remove", "post"}
          /\ IF Live(call[r].batch) THEN ReadBatch(r, call[r].batch, "checking")
                                    ELSE End(r, "failed")
       \/ /\ call[r].op = "upload"
          /\ IF Present(call[r].batch) THEN ReadBatch(r, call[r].batch, "selecting")
                                      ELSE End(r, "failed")
       \/ /\ call[r].op = "statement"
          /\ ~ NumberUsed(call[r].number)
          /\ Goto(r, "creating") /\ UNCHANGED local
       \/ \E b \in BatchId :
             /\ call[r].op = "statement"
             /\ Present(b) /\ rows[b].number = call[r].number
             /\ ReadBatch(r, b, "selecting")
    /\ UNCHANGED <<rows, entries, locked, call>>

\* Variant: an update is checked against the period it leaves.
CheckedPeriodBefore(r) ==
    CASE call[r].op = "create" -> call[r].period
      [] call[r].op = "statement" -> StatementPeriod
      [] OTHER -> local[r].copy.period

\* For an update the period asked for, be it a blank, which is never locked.
CheckedPeriod(r) ==
    CASE call[r].op = "create" -> call[r].period
      [] call[r].op = "statement" -> StatementPeriod
      [] call[r].op = "update" /\ call[r].period # Absent -> call[r].period
      [] OTHER -> local[r].copy.period

AfterCheck(op) ==
    CASE op = "create" -> "creating"
      [] op = "statement" -> "finding"
      [] op = "post" -> "validating"
      [] op = "update" -> "matching"
      [] OTHER -> "saving"

CheckPeriod(r) ==
    /\ pc[r] = "checking"
    /\ IF CheckedPeriod(r) \in locked
         THEN End(r, "failed")
         ELSE Goto(r, AfterCheck(call[r].op)) /\ UNCHANGED local
    /\ UNCHANGED <<rows, entries, locked, call>>

\* A new number must not be that of a batch that is not removed.
MatchNumber(r) ==
    /\ pc[r] = "matching"
    /\ IF /\ call[r].number \notin {Absent, local[r].copy.number}
          /\ \E b \in BatchId : Live(b) /\ rows[b].number = call[r].number
         THEN End(r, "failed")
         ELSE Goto(r, "saving") /\ UNCHANGED local
    /\ UNCHANGED <<rows, entries, locked, call>>

\* The accounts of the lines may be missing or parents: then the post fails too.
ValidateLines(r) ==
    /\ pc[r] = "validating"
    /\ \/ /\ \A i \in DOMAIN call[r].lines : ~ Negative(call[r].lines[i])
          /\ Balanced(call[r].lines)
          /\ Goto(r, "selecting") /\ UNCHANGED local
       \/ End(r, "failed")
    /\ UNCHANGED <<rows, entries, locked, call>>

----------------------------------------------------------------------------
\* save() of an entity read before: it SELECTs the row once more (Compare), then it
\* UPDATEs the columns that differ from that, or INSERTs the entity if there was none.
\* A total that was computed always differs: it is a number, the one SELECTed a string.

AfterCompare ==
    [saving |-> "writing", resaving |-> "rewriting",
     comparing |-> "committing", finishing |-> "closing"]

Compare(r) ==
    /\ pc[r] \in DOMAIN AfterCompare
    /\ local' = [local EXCEPT ![r].seen = rows[local[r].target]]
    /\ Goto(r, AfterCompare[pc[r]])
    /\ UNCHANGED <<rows, entries, locked, call>>

Computes(r) == pc[r] \in {"committing", "closing"}

Renumbers(r, entity) == local[r].seen # Absent => entity.number # local[r].seen.number

TakenByOther(n, b) == \E o \in BatchId \ {b} : Present(o) /\ rows[o].number = n

\* Batch numbers are unique, and so are ids.
Refused(r, entity) ==
    IF local[r].seen = Absent
      THEN Kept(r) \/ TakenByOther(entity.number, local[r].target)
      ELSE Kept(r) /\ Renumbers(r, entity) /\ TakenByOther(entity.number, local[r].target)

Updated(r, entity) ==
    LET row == Merged(entity, local[r].seen, rows[local[r].target]) IN
    IF Computes(r) THEN [row EXCEPT !.total = entity.total] ELSE row

\* An UPDATE of a row that is gone does nothing.
Written(r, entity) ==
    IF local[r].seen = Absent THEN [rows EXCEPT ![local[r].target] = entity]
    ELSE IF Kept(r) THEN [rows EXCEPT ![local[r].target] = Updated(r, entity)]
    ELSE rows

SaveEntity(r, entity) ==
    /\ Renumbers(r, entity) => ~ PinnedByOther(r, local[r].target)
    /\ ~ Refused(r, entity)
    /\ rows' = Written(r, entity)

----------------------------------------------------------------------------
\* Batch rows.

\* The number may be chosen, and be taken: then the creation fails (see BatchNumbering).
CreateBatch(r) ==
    /\ pc[r] = "creating"
    /\ call[r].op = "create"
    /\ \/ \E n \in Number :
             /\ ~ NumberUsed(n)
             /\ rows' = [rows EXCEPT ![r] = Fresh(n, call[r].period)]
             /\ End(r, "done")
       \/ UNCHANGED rows /\ End(r, "failed")
    /\ UNCHANGED <<entries, locked, call>>

\* The number of a statement batch is unique: a second creator fails.
CreateStatement(r) ==
    /\ pc[r] = "creating"
    /\ call[r].op = "statement"
    /\ LET row == Fresh(call[r].number, StatementPeriod) IN
       IF NumberUsed(call[r].number)
         THEN UNCHANGED rows /\ End(r, "failed")
         ELSE /\ rows' = [rows EXCEPT ![r] = row]
              /\ local' = [local EXCEPT ![r].target = r, ![r].copy = row]
              /\ Goto(r, "charting")
    /\ UNCHANGED <<entries, locked, call>>

Chosen(value, set, old) == IF value \in set THEN value ELSE old

Amended(r) ==
    LET copy == local[r].copy IN
    IF call[r].op = "remove" THEN [copy EXCEPT !.isDeleted = TRUE]
    ELSE [copy EXCEPT !.period = Chosen(call[r].period, Period, copy.period),
                      !.number = Chosen(call[r].number, Number, copy.number)]

SaveBatch(r) ==
    /\ pc[r] = "writing"
    /\ \/ SaveEntity(r, Amended(r)) /\ End(r, "done")
       \/ Refused(r, Amended(r)) /\ UNCHANGED rows /\ End(r, "failed")
    /\ UNCHANGED <<entries, locked, call>>

----------------------------------------------------------------------------
\* DELETE of lines: the rows are chosen when the statement starts; it then
\* waits for the transactions that hold any of them and skips what is gone.

SelectLines(r) ==
    /\ pc[r] = "selecting"
    /\ local' = [local EXCEPT ![r].doomed = Victims(r)]
    /\ Goto(r, "deleting")
    /\ UNCHANGED <<rows, entries, locked, call>>

AfterDelete(op) ==
    CASE op = "statement" -> "resaving"
      [] op = "upload" -> "charting"
      [] OTHER -> "dropping"

DeleteLines(r) ==
    /\ pc[r] = "deleting"
    /\ local[r].doomed \cap RowsLockedFrom(r) = {}
    /\ IF call[r].op = "post"
         THEN /\ local' = [local EXCEPT ![r].doomed = @ \cap entries]
              /\ UNCHANGED entries
              /\ Goto(r, "inserting")
         ELSE /\ entries' = entries \ local[r].doomed
              /\ local' = [local EXCEPT ![r].doomed = {}]
              /\ Goto(r, AfterDelete(call[r].op))
    /\ UNCHANGED <<rows, locked, call>>

----------------------------------------------------------------------------
\* The posting transaction of postEntries.

\* The foreign key needs the batch row, and keeps it from being dropped.
InsertLine(r) ==
    /\ pc[r] = "inserting"
    /\ local[r].drafted < Len(call[r].lines)
    /\ IF Kept(r)
         THEN local' = [local EXCEPT ![r].drafted = @ + 1] /\ UNCHANGED pc
         ELSE End(r, "failed")
    /\ UNCHANGED <<rows, entries, locked, call>>

\* Variant: the transaction is closed before the last line is in.
TallyEarly(r) ==
    /\ pc[r] = "inserting"
    /\ local[r].drafted > 0
    /\ local' = [local EXCEPT ![r].tally =
          TotalsOf(EntriesOf(call[r].batch, (entries \ local[r].doomed) \cup Draft(r)))]
    /\ Goto(r, "comparing")
    /\ UNCHANGED <<rows, entries, locked, call>>

\* The SELECT sees the transaction's own work and what others have committed.
TallyBatch(r) ==
    /\ pc[r] = "inserting"
    /\ local[r].drafted = Len(call[r].lines)
    /\ local' = [local EXCEPT ![r].tally =
          TotalsOf(EntriesOf(call[r].batch, (entries \ local[r].doomed) \cup Draft(r)))]
    /\ Goto(r, "comparing")
    /\ UNCHANGED <<rows, entries, locked, call>>

Totalled(r) ==
    [local[r].copy EXCEPT !.total = local[r].tally.total, !.count = local[r].tally.count]

CommitPosting(r) ==
    /\ pc[r] = "committing"
    /\ \/ /\ SaveEntity(r, Totalled(r))
          /\ entries' = (entries \ local[r].doomed) \cup Draft(r)
          /\ End(r, "done")
       \/ Refused(r, Totalled(r)) /\ UNCHANGED <<rows, entries>> /\ End(r, "failed")
    /\ UNCHANGED <<locked, call>>

----------------------------------------------------------------------------
\* Statement posting and batch upload: one autocommitted statement after another.

ResaveStatement(r) ==
    /\ pc[r] = "rewriting"
    /\ \/ SaveEntity(r, local[r].copy) /\ Goto(r, "charting") /\ UNCHANGED local
       \/ Refused(r, local[r].copy) /\ UNCHANGED rows /\ End(r, "failed")
    /\ UNCHANGED <<entries, locked, call>>

\* Each row needs its account in the chart.
ChartAccounts(r) ==
    /\ pc[r] = "charting"
    /\ \/ Goto(r, "filling") /\ UNCHANGED local
       \/ End(r, "failed")
    /\ UNCHANGED <<rows, entries, locked, call>>

\* save(entries[]) is one transaction.  The sum is rounded, not the lines, and amounts
\* that were not stored count in it.
FillBatch(r) ==
    /\ pc[r] = "filling"
    /\ IF Kept(r)
         THEN /\ entries' = entries \cup LinesOf(r, local[r].target)
              /\ local' = [local EXCEPT ![r].tally =
                              [total |-> Cents(Debits(call[r].lines)), count |-> 1]]
              /\ Goto(r, "finishing")
         ELSE UNCHANGED entries /\ End(r, "failed")
    /\ UNCHANGED <<rows, locked, call>>

FinishBatch(r) ==
    /\ pc[r] = "closing"
    /\ \/ SaveEntity(r, Totalled(r)) /\ End(r, "done")
       \/ Refused(r, Totalled(r)) /\ UNCHANGED rows /\ End(r, "failed")
    /\ UNCHANGED <<entries, locked, call>>

\* The second statement of deleteAssociatedBatches; lines cascade.
DropStatements(r) ==
    /\ pc[r] = "dropping"
    /\ \A b \in BatchId : OfStatement(b) => ~ PinnedByOther(r, b)
    /\ rows' = [b \in BatchId |-> IF OfStatement(b) THEN Absent ELSE rows[b]]
    /\ entries' = {e \in entries : ~ OfStatement(e.batch)}
    /\ End(r, "done")
    /\ UNCHANGED <<locked, call>>

----------------------------------------------------------------------------

\* A failing statement or a crash: an open transaction is rolled back, what
\* was autocommitted stays.
Abort(r) ==
    /\ Active(r)
    /\ End(r, "failed")
    /\ UNCHANGED <<rows, entries, locked, call>>

Step(r) ==
    \/ FindBatch(r) \/ CheckPeriod(r) \/ MatchNumber(r) \/ ValidateLines(r)
    \/ CreateBatch(r) \/ CreateStatement(r) \/ Compare(r) \/ SaveBatch(r)
    \/ SelectLines(r) \/ DeleteLines(r)
    \/ InsertLine(r) \/ TallyBatch(r) \/ CommitPosting(r)
    \/ ResaveStatement(r) \/ ChartAccounts(r) \/ FillBatch(r) \/ FinishBatch(r)
    \/ DropStatements(r)

Next ==
    \/ \E r \in Request :
          \/ \E c \in Exercised : Arrive(r, c)
          \/ Step(r)
          \/ Abort(r)
    \/ \E p \in Period : LockPeriod(p) \/ UnlockPeriod(p)

Spec == Init /\ [][Next]_vars

----------------------------------------------------------------------------
\* Properties

Labels ==
    {"idle", "finding", "checking", "matching", "validating", "creating", "saving",
     "writing", "selecting", "deleting", "inserting", "comparing", "committing",
     "resaving", "rewriting", "charting", "filling", "finishing", "closing", "dropping",
     "done", "failed"}

Lines ==
    [post : Request, no : Nat \ {0}, batch : BatchId, je : Int,
     debit : Nat, credit : Nat]

Locals ==
    [target : BatchId \cup {Absent}, copy : BatchRow \cup {Absent}, seen : BatchRow \cup {Absent},
     doomed : SUBSET Lines, drafted : Nat, tally : [total : Int, count : Nat],
     open : SUBSET Period, alone : BOOLEAN]

TypeOK ==
    /\ rows \in [BatchId -> BatchRow \cup {Absent}]
    /\ entries \subseteq Lines /\ IsFiniteSet(entries)
    /\ locked \subseteq Period
    /\ pc \in [Request -> Labels]
    /\ call \in [Request -> Exercised \cup {Absent}]
    /\ local \in [Request -> Locals]

PostedBy(r) == {e \in entries : e.post = r}

\* A posting is in the ledger with all of its lines or with none of them, in one batch,
\* whatever fails and whoever overwrites it: the transaction of postEntries
\* (journal-entries.service.ts:185-187, "rolls back cleanly").
WholePostings ==
    \A r \in Request : PostedBy(r) # {} => \E b \in BatchId : PostedBy(r) = LinesOf(r, b)

\* An update with a blank period asks for the lock of "" and leaves the batch in the period
\* it has (journal-entries.service.ts:97 and 113): it is checked against no period at all.
Unchecked(r) == call[r].op = "update" /\ call[r].period = Blank

Manual(r) == pc[r] # "idle" /\ call[r].op \in {"create", "update", "remove", "post"}

Finishes(r) == pc[r] \in {"creating", "writing", "committing"} /\ pc'[r] = "done"

Changed(b) ==
    rows'[b] # rows[b] \/ EntriesOf(b, entries') # EntriesOf(b, entries)

\* Another request has given the batch another period since save() looked at it.
MovedMeanwhile(r, b) ==
    /\ b = local[r].target /\ Present(b) /\ local[r].seen # Absent
    /\ rows[b].period # local[r].seen.period
    /\ rows'[b].period = rows[b].period

\* A request of JournalEntriesService leaves the rows and lines it changes in a period
\* that was unlocked at some time while the request ran: a period closed before the
\* request arrived and never reopened takes nothing from it.  The one way round is a
\* batch that another request moves while save() compares and writes.
LockRespected ==
    [][\A r \in Request :
          Manual(r) /\ Finishes(r) /\ ~ Unchecked(r)
              => \A b \in BatchId : Changed(b) =>
                    rows'[b].period \in local[r].open \/ MovedMeanwhile(r, b)]_vars

\* postEntries refuses a batch of a locked period: "Accounting period ... is locked.
\* Cannot post entries to this batch." (journal-entries.service.ts:140).  One that an
\* update moves to another period before that is locked takes the lines all the same.
NoPostingToLocked ==
    [][\A r \in Request :
          pc[r] = "committing" /\ pc'[r] = "done"
              => rows'[call[r].batch].period \in local[r].open]_vars

Abs(n) == IF n < 0 THEN -n ELSE n

\* A posting succeeds that no other request has overlapped with.
Settles(r) ==
    /\ pc[r] \in {"committing", "closing"}
    /\ pc'[r] = "done"
    /\ local[r].alone

\* The debits of the rows that were not stored, being negative.
LeftOut(lines) ==
    SumOver([i \in DOMAIN lines |-> IF lines[i].debit < 0 THEN lines[i].debit ELSE 0],
            DOMAIN lines)

\* Whatever overlapping requests have left behind, a posting served alone leaves the
\* batch holding exactly its lines under its number ("Edit/Overwrite support").  An entry
\* is posted apart by no more than a cent a line, each of its amounts being rounded, and
\* the batch totals equal all its lines ("recalculate batch totals").  Where the sum is
\* rounded and not the lines (postToJournalEntries, uploadToBatch) the totals differ from
\* the lines by half a cent for each and for the sum, and by the negative debits, which
\* are in the sum alone.
PostingSettles ==
    [][\A r \in Request : Settles(r) =>
          LET b == local[r].target
              t == TotalsOf(EntriesOf(b, entries'))
              posted == {e \in entries' : e.batch = b /\ e.je = JeOf(r)}
              off == SumOver([e \in posted |-> e.debit - e.credit], posted)
              excess == t.total - rows'[b].total
          IN  /\ posted = LinesOf(r, b)
              /\ rows'[b].count = t.count
              /\ call[r].op = "post" => Abs(off) <= Cardinality(posted) /\ excess = 0
              /\ call[r].op # "post"
                    => 2 * Abs(Scale * excess + LeftOut(call[r].lines))
                         <= Scale * (Cardinality(posted) + 1)]_vars

=============================================================================
