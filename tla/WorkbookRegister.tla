--------------------------- MODULE WorkbookRegister ---------------------------
(***************************************************************************)
(* The workbooks of one program: uploads of FUT and Starlight files, manual *)
(* ITD baselines, edits, deletions, and the posting of a workbook's         *)
(* statement, which approves it and files a batch of journal entries under  *)
(* its id; and the two operations of the database seeder that replace the   *)
(* baseline or remove everything.  No request runs in a transaction: each   *)
(* saves and deletes row by row, interleaves with the others at every       *)
(* await, and may be cut off by a stop of the process.  What the exhibits   *)
(* hold is ReserveChain's matter, the lines of a batch JournalLedger's.     *)
(***************************************************************************)
EXTENDS Integers, FiniteSets, Sequences

CONSTANTS
    Request,      \* HTTP requests, each served once
    MaxBooks,     \* bound on workbook rows
    MaxMonth,     \* bound on months
    MaxInFlight,  \* bound on requests served at the same time
    File,         \* files a client may upload
    Absent

Id == 1 .. MaxBooks

\* 0 is December 2025, the month of the baseline.
Month == 0 .. MaxMonth

Source == {"FUT", "ITD", "Starlight"}

Row ==
    [month : Month, source : Source, deleted : BOOLEAN, status : {"Pending", "Approved"}]

\* A FUT file reports one month, a Starlight file a column for each of several.
\* named: the file's name says itd or seeder; sheets: it has sheets of states.
Files ==
    [format : {"FUT", "Starlight"}, months : Seq(Month) \ {<<>>},
     named : BOOLEAN, sheets : BOOLEAN]

Calls ==
    [op : {"upload"}, file : File, force : BOOLEAN]
    \cup [op : {"manual"}, month : Month]
    \cup [op : {"delete", "edit", "post"}, book : Id]
    \cup [op : {"seed", "clear"}]

ASSUME ConstantAssumption ==
    /\ MaxBooks \in Nat
    /\ MaxMonth \in Nat
    /\ MaxInFlight \in Nat \ {0}
    /\ File \subseteq Files
    /\ \A f \in File : f.format = "FUT" => Len(f.months) = 1
    /\ Absent \notin Row \cup Calls \cup Request

VARIABLES
    books,   \* rows of workbooks, never deleted for good
    filled,  \* workbooks whose exhibits are saved
    batch,   \* who filed the batch RE-<id>-<state>, where there is one
    pc,
    call,
    local,
    missed,  \* history: workbooks removed while the request was in flight
    overlap  \* history: two requests have been in flight at the same time

tables == <<books, filled, batch>>
vars == <<books, filled, batch, pc, call, local, missed, overlap>>

----------------------------------------------------------------------------

\* local[r]: months still to store and their source, the workbook at hand, the
\* copy read of it, the batch found, and the copies read of rows to be discarded.
Forgotten ==
    [todo |-> <<>>, source |-> "FUT", book |-> Absent, copy |-> Absent, batch |-> Absent,
     found |-> [b \in Id |-> Absent]]

InFlight(r) == pc[r] \notin {"idle", "done", "failed"}

Exists(b) == books[b] # Absent

Live(b) == Exists(b) /\ ~ books[b].deleted

Removed(b) == Exists(b) /\ books[b].deleted

Rows(m, s) == {b \in Id : Exists(b) /\ books[b].month = m /\ books[b].source = s}

\* Variant: the rows of the month itself count.
EarlierRowsOrSame(m) == {b \in Id : Exists(b) /\ books[b].month \in {m - 1, m}}

\* Any row of the month before will do: of any source, removed or not.
EarlierRows(m) == {b \in Id : Exists(b) /\ books[b].month = m - 1}

NeedsEarlier(m, s) == m # 0 /\ s # "ITD"

Goto(r, label) == pc' = [pc EXCEPT ![r] = label]

Keep(r, held) == local' = [local EXCEPT ![r] = held]

End(r, outcome) == Goto(r, outcome) /\ UNCHANGED local

Fail(r) == End(r, "failed") /\ UNCHANGED <<tables, missed>>

\* save() writes the whole copy, the flag isDeleted included.
Write(b, row) ==
    /\ books' = [books EXCEPT ![b] = row]
    /\ missed' = [q \in Request |->
                     IF row.deleted /\ InFlight(q) THEN missed[q] \cup {b} ELSE missed[q]]

----------------------------------------------------------------------------

Init ==
    /\ books = [b \in Id |-> Absent]
    /\ filled = {}
    /\ batch = [b \in Id |-> Absent]
    /\ pc = [r \in Request |-> "idle"]
    /\ call = [r \in Request |-> Absent]
    /\ local = [r \in Request |-> Forgotten]
    /\ missed = [r \in Request |-> {}]
    /\ overlap = FALSE

Arrive(r, c) ==
    /\ pc[r] = "idle"
    /\ Cardinality({q \in Request : InFlight(q)}) < MaxInFlight
    /\ call' = [call EXCEPT ![r] = c]
    /\ Goto(r, CASE c.op = "upload" -> "parsing"
                 [] c.op = "manual" -> "seeking"
                 [] c.op \in {"seed", "clear"} -> "gathering"
                 [] OTHER -> "opening")
    /\ overlap' = (overlap \/ \E q \in Request : InFlight(q))
    /\ UNCHANGED <<tables, local, missed>>

\* The process stops: what its requests have written stays.
Crash ==
    /\ \E r \in Request : InFlight(r)
    /\ pc' = [r \in Request |-> IF InFlight(r) THEN "failed" ELSE pc[r]]
    /\ UNCHANGED <<tables, call, local, missed, overlap>>

----------------------------------------------------------------------------
\* uploadWorkbook

\* What the parser makes of a file.  A forced Starlight file is turned into a
\* baseline first; where that fails it is parsed as it is.
Readings(f, force) ==
    CASE f.format = "FUT" ->
            {[todo |-> f.months,
              source |-> IF Head(f.months) = 0 \/ f.named \/ force THEN "ITD" ELSE "FUT"]}
      [] f.format = "Starlight" /\ force ->
            {[todo |-> <<0>>, source |-> "ITD"], [todo |-> f.months, source |-> "Starlight"]}
      [] OTHER -> {[todo |-> f.months, source |-> "Starlight"]}

\* A worker thread reads the file, and the program's rates are looked up.
Parse(r) ==
    /\ pc[r] = "parsing"
    /\ \E x \in Readings(call[r].file, call[r].force) :
          Keep(r, [local[r] EXCEPT !.todo = x.todo, !.source = x.source])
    /\ Goto(r, "validating")
    /\ UNCHANGED <<tables, call, missed, overlap>>

ValidateSequentialMonth(r) ==
    /\ pc[r] = "validating"
    /\ LET m == Head(local[r].todo) IN
       IF NeedsEarlier(m, local[r].source) /\ EarlierRows(m) = {}
         THEN Fail(r)
         ELSE Goto(r, "finding") /\ UNCHANGED <<tables, local, missed>>
    /\ UNCHANGED <<call, overlap>>

Find(r) ==
    /\ pc[r] = "finding"
    /\ LET found == {b \in Rows(Head(local[r].todo), local[r].source) : Live(b)} IN
       \/ /\ found = {}
          /\ Goto(r, "inserting")
          /\ UNCHANGED <<tables, local, missed>>
       \/ /\ found # {} /\ ~ call[r].force
          /\ Fail(r)
       \/ \E b \in found :
             /\ call[r].force
             /\ Keep(r, [local[r] EXCEPT !.book = b, !.copy = books[b]])
             /\ Goto(r, "clearing")
             /\ UNCHANGED <<tables, missed>>
    /\ UNCHANGED <<call, overlap>>

\* Variant: the entries are deleted, the batch row is left.
ClearLines(r) ==
    /\ pc[r] = "clearing"
    /\ Goto(r, IF call[r].op = "upload" THEN "retiring" ELSE "loading")
    /\ UNCHANGED <<tables, local, call, missed, overlap>>

\* deleteAssociatedBatches: two DELETE statements, the second ends the batch.
DeleteAssociatedBatches(r) ==
    /\ pc[r] = "clearing"
    /\ batch' = [batch EXCEPT ![local[r].book] = Absent]
    /\ Goto(r, IF call[r].op = "upload" THEN "retiring" ELSE "loading")
    /\ UNCHANGED <<books, filled, local, call, missed, overlap>>

\* Variant: the old workbook is kept beside the new one.
RetireNothing(r) ==
    /\ pc[r] = "retiring"
    /\ Write(local[r].book, local[r].copy)
    /\ Goto(r, IF call[r].op = "upload" THEN "inserting" ELSE "done")
    /\ UNCHANGED <<filled, batch, local, call, overlap>>

Retire(r) ==
    /\ pc[r] = "retiring"
    /\ Write(local[r].book, [local[r].copy EXCEPT !.deleted = TRUE])
    /\ Goto(r, IF call[r].op = "upload" THEN "inserting" ELSE "done")
    /\ UNCHANGED <<filled, batch, local, call, overlap>>

MonthOf(r) ==
    CASE call[r].op = "manual" -> call[r].month
      [] call[r].op = "seed" -> 0
      [] OTHER -> Head(local[r].todo)

SourceOf(r) == IF call[r].op = "upload" THEN local[r].source ELSE "ITD"

\* The row gets the next serial id.
Insert(r) ==
    /\ pc[r] = "inserting"
    /\ \E b \in Id :
          /\ ~ Exists(b)
          /\ \A c \in Id : c < b => Exists(c)
          /\ Write(b, [month |-> MonthOf(r), source |-> SourceOf(r),
                       deleted |-> FALSE, status |-> "Pending"])
          /\ Keep(r, [local[r] EXCEPT !.book = b])
    /\ Goto(r, "filling")
    /\ UNCHANGED <<filled, batch, call, overlap>>

\* Exhibits, TOTAL and cash settlement.  A FUT file without sheets of states has left
\* its workbook behind by now; a month of Starlight has its TOTAL at least.
Fill(r) ==
    /\ pc[r] = "filling"
    /\ IF call[r].op = "upload" /\ call[r].file.format = "FUT" /\ ~ call[r].file.sheets
         THEN Fail(r)
         ELSE /\ filled' = filled \cup {local[r].book}
              /\ IF call[r].op = "upload" /\ local[r].source # "FUT"
                   THEN LET rest == Tail(local[r].todo) IN
                        /\ Keep(r, [local[r] EXCEPT !.todo = rest])
                        /\ Goto(r, IF rest = <<>> THEN "done" ELSE "validating")
                   ELSE End(r, IF call[r].op = "seed" THEN "done" ELSE "reading")
              /\ UNCHANGED <<books, batch, missed>>
    /\ UNCHANGED <<call, overlap>>

\* The answer is the workbook read again.
Reread(r) ==
    /\ pc[r] = "reading"
    /\ End(r, IF Live(local[r].book) THEN "done" ELSE "failed")
    /\ UNCHANGED <<tables, call, missed, overlap>>

----------------------------------------------------------------------------
\* createManualITD

\* The row found may be a removed one.
Seek(r) ==
    /\ pc[r] = "seeking"
    /\ \/ /\ Rows(call[r].month, "ITD") = {}
          /\ Goto(r, "inserting")
          /\ UNCHANGED local
       \/ \E b \in Rows(call[r].month, "ITD") :
             /\ Keep(r, [local[r] EXCEPT !.book = b, !.copy = books[b]])
             /\ Goto(r, "saving")
    /\ UNCHANGED <<tables, call, missed, overlap>>

----------------------------------------------------------------------------
\* seedItdData, for one program, and clearAllData

\* All baselines or all workbooks, removed ones included.
Gather(r) ==
    /\ pc[r] = "gathering"
    /\ Keep(r, [local[r] EXCEPT !.found =
          [b \in Id |-> IF Exists(b) /\ (call[r].op = "seed" => books[b].source = "ITD")
                          THEN books[b] ELSE Absent]])
    /\ Goto(r, "discarding")
    /\ UNCHANGED <<tables, call, missed, overlap>>

Found(r) == {b \in Id : local[r].found[b] # Absent}

\* removeWorkbooks and deleteAllWorkbooks save the copies, marked, in one transaction;
\* the statements filed for them are left.
Discard(r) ==
    /\ pc[r] = "discarding"
    /\ books' = [b \in Id |-> IF b \in Found(r)
                               THEN [local[r].found[b] EXCEPT !.deleted = TRUE] ELSE books[b]]
    /\ missed' = [q \in Request |-> IF InFlight(q) THEN missed[q] \cup Found(r) ELSE missed[q]]
    /\ End(r, IF call[r].op = "seed" THEN "inserting" ELSE "done")
    /\ UNCHANGED <<filled, batch, call, overlap>>

----------------------------------------------------------------------------
\* findOne, delete, updateMappings, updateRates and postToJournalEntries

AfterOpening == [delete |-> "clearing", edit |-> "saving", post |-> "generating"]

Open(r) ==
    /\ pc[r] = "opening"
    /\ LET b == call[r].book IN
       IF Live(b)
         THEN /\ Keep(r, [local[r] EXCEPT !.book = b, !.copy = books[b]])
              /\ Goto(r, AfterOpening[call[r].op])
              /\ UNCHANGED <<tables, missed>>
         ELSE Fail(r)
    /\ UNCHANGED <<call, overlap>>

\* deleteWorkbook reads the row again, removed or not.
Load(r) ==
    /\ pc[r] = "loading"
    /\ Keep(r, [local[r] EXCEPT !.copy = books[local[r].book]])
    /\ Goto(r, "retiring")
    /\ UNCHANGED <<tables, call, missed, overlap>>

\* Variant: a workbook without exhibits yields an empty statement.
GenerateEmpty(r) ==
    /\ pc[r] = "generating"
    /\ \/ Live(local[r].book) /\ Goto(r, "approving") /\ UNCHANGED <<tables, local, missed>>
       \/ Fail(r)
    /\ UNCHANGED <<call, overlap>>

\* The period is locked, there is no exhibit of the state, or its rows are all
\* zero: no posting.
GetGLJournalEntries(r) ==
    /\ pc[r] = "generating"
    /\ \/ /\ Live(local[r].book) /\ local[r].book \in filled
          /\ Goto(r, "approving")
          /\ UNCHANGED <<tables, local, missed>>
       \/ Fail(r)
    /\ UNCHANGED <<call, overlap>>

\* updateStatus reads the workbook and saves the copy as approved.
Approve(r) ==
    /\ pc[r] = "approving"
    /\ IF Live(local[r].book)
         THEN /\ Keep(r, [local[r] EXCEPT
                             !.copy = [books[local[r].book] EXCEPT !.status = "Approved"]])
              /\ Goto(r, "saving")
              /\ UNCHANGED <<tables, missed>>
         ELSE Fail(r)
    /\ UNCHANGED <<call, overlap>>

AfterSaving == [edit |-> "done", manual |-> "filling", post |-> "looking"]

\* Variant: entering a baseline again brings a removed one back.
SaveRestored(r) ==
    /\ pc[r] = "saving"
    /\ Write(local[r].book, [local[r].copy EXCEPT !.deleted = FALSE])
    /\ Goto(r, AfterSaving[call[r].op])
    /\ UNCHANGED <<filled, batch, local, call, overlap>>

Save(r) ==
    /\ pc[r] = "saving"
    /\ Write(local[r].book, local[r].copy)
    /\ Goto(r, AfterSaving[call[r].op])
    /\ UNCHANGED <<filled, batch, local, call, overlap>>

FindBatch(r) ==
    /\ pc[r] = "looking"
    /\ Keep(r, [local[r] EXCEPT !.batch = batch[local[r].book]])
    /\ Goto(r, "filing")
    /\ UNCHANGED <<tables, call, missed, overlap>>

\* The batch row this request works on: the one it found, or its own.
BatchOf(r) == IF local[r].batch = Absent THEN r ELSE local[r].batch

\* save() inserts a row that is not there, unless another has its number.
Savable(r) == batch[local[r].book] \in {Absent, BatchOf(r)}

SaveBatch(r, label) ==
    IF Savable(r)
      THEN /\ batch' = [batch EXCEPT ![local[r].book] = BatchOf(r)]
           /\ Goto(r, label)
           /\ UNCHANGED <<books, filled, local, missed>>
      ELSE Fail(r)

FileBatch(r) == pc[r] = "filing" /\ SaveBatch(r, "listing") /\ UNCHANGED <<call, overlap>>

\* An account code may be missing, and entries need their batch.
SaveEntries(r) ==
    /\ pc[r] = "listing"
    /\ \/ /\ batch[local[r].book] = BatchOf(r)
          /\ Goto(r, "totalling")
          /\ UNCHANGED <<tables, local, missed>>
       \/ Fail(r)
    /\ UNCHANGED <<call, overlap>>

Total(r) == pc[r] = "totalling" /\ SaveBatch(r, "done") /\ UNCHANGED <<call, overlap>>

----------------------------------------------------------------------------

Step(r) ==
    \/ Parse(r) \/ ValidateSequentialMonth(r) \/ Find(r)
    \/ DeleteAssociatedBatches(r) \/ Retire(r) \/ Insert(r) \/ Fill(r) \/ Reread(r)
    \/ Seek(r) \/ Gather(r) \/ Discard(r) \/ Open(r) \/ Load(r)
    \/ GetGLJournalEntries(r) \/ Approve(r) \/ Save(r)
    \/ FindBatch(r) \/ FileBatch(r) \/ SaveEntries(r) \/ Total(r)

Next ==
    \/ \E r \in Request : Step(r) \/ \E c \in Calls : Arrive(r, c)
    \/ Crash

Spec == Init /\ [][Next]_vars

----------------------------------------------------------------------------
\* Properties

Labels ==
    {"idle", "parsing", "validating", "finding", "clearing", "retiring", "inserting",
     "filling", "reading", "seeking", "gathering", "discarding", "saving", "opening",
     "loading", "generating", "approving", "looking", "filing", "listing", "totalling",
     "done", "failed"}

Locals ==
    [todo : Seq(Month), source : Source, book : Id \cup {Absent},
     copy : Row \cup {Absent}, batch : Request \cup {Absent},
     found : [Id -> Row \cup {Absent}]]

TypeOK ==
    /\ books \in [Id -> Row \cup {Absent}]
    /\ filled \in SUBSET Id
    /\ batch \in [Id -> Request \cup {Absent}]
    /\ pc \in [Request -> Labels]
    /\ call \in [Request -> Calls \cup {Absent}]
    /\ local \in [Request -> Locals]
    /\ missed \in [Request -> SUBSET Id]
    /\ overlap \in BOOLEAN

\* Every monthly workbook comes after a workbook of the month before: however
\* requests overlap and wherever the process stops, the months of a program form
\* a chain back to the baseline, in the order in which they were stored.
MonthsFormChain ==
    \A b \in Id :
        Exists(b) /\ NeedsEarlier(books[b].month, books[b].source)
            => \E c \in Id : c < b /\ Exists(c) /\ books[c].month = books[b].month - 1

\* Requests served one after the other, some of them cut off, never leave two
\* workbooks of the same month and source.
OneWorkbookPerMonth ==
    ~ overlap =>
        \A b, c \in Id :
            Live(b) /\ Live(c) /\ books[b].month = books[c].month
                    /\ books[b].source = books[c].source => b = c

\* Requests served one after the other, some of them cut off, never leave a posted
\* statement whose workbook is removed or still pending, but for workbooks removed by
\* the seeder, which leaves their statements in the ledger.
PostedBooksStand ==
    ~ overlap =>
        \A b \in Id :
            batch[b] # Absent =>
                /\ books[b].status = "Approved"
                /\ Live(b) \/ \E r \in Request : b \in Found(r)

\* A statement is posted only from exhibits that are there.
PostingsNeedExhibits == \A b \in Id : batch[b] # Absent => b \in filled

\* A removed workbook comes back only through a request that was already in
\* flight when it was removed and saves the copy it had read before.
RevivedByEarlierReader ==
    [][\A b \in Id :
          Removed(b) /\ ~ Removed(b)' => \E r \in Request : pc'[r] # pc[r] /\ b \in missed[r]]_vars

\* "Gaps in reporting month sequence are not allowed."
GapsNotAllowed ==
    [][\A b \in Id :
          ~ Exists(b) /\ Exists(b)' /\ NeedsEarlier(books'[b].month, books'[b].source)
              => \E c \in Id : Live(c) /\ books[c].month = books'[b].month - 1]_vars

=============================================================================
