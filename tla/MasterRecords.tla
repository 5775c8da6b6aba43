---------------------------- MODULE MasterRecords ----------------------------
(***************************************************************************)
(* A table of master data (brokers, classes and lines of business, MGAs,    *)
(* products, reinsurers, risk companies, states, treaty types, document     *)
(* types, sequence counters, general ledger mappings, or the documents of   *)
(* an MGA, state, risk company or account) and its part of the audit trail. *)
(* The services are the same in kind: a code is looked up, then a row is    *)
(* saved.  save() writes a copy read earlier: it reads the row again, and   *)
(* in a transaction of its own updates the columns in which the two differ, *)
(* while AuditSubscriber adds an entry with those columns.  Some services   *)
(* then log the request once more.  Rows are marked as removed, never       *)
(* deleted.                                                                 *)
(***************************************************************************)
EXTENDS Integers, FiniteSets, Sequences

CONSTANTS
    Request,      \* HTTP requests, each served once
    OldRow,       \* rows there from the start
    Code, Info,   \* values of the unique column and of the others
    Kind,         \* kinds of tables, see Tables
    Call,         \* what clients may ask for
    MaxInFlight,  \* bound on requests served at the same time
    Absent

Id == Request \cup OldRow  \* a row is known by the request that makes it

\* coded: the service looks a unique code up before it writes; logged: it writes an
\* entry of its own afterwards; pinned: info is the key of a row of another table, which
\* is loaded with this one, and save() takes the key from the row loaded.
Kinds == [coded : BOOLEAN, logged : BOOLEAN, pinned : BOOLEAN]

Logged == [coded |-> TRUE, logged |-> TRUE, pinned |-> FALSE]
Unlogged == [coded |-> TRUE, logged |-> FALSE, pinned |-> FALSE]
Attached == [coded |-> FALSE, logged |-> FALSE, pinned |-> FALSE]

\* The tables, each as its service treats it.
Brokers == Logged
Mgas == Logged
Products == Logged
States == Logged
DocumentTypes == Logged
SequenceCounters == Logged
Cobs == Unlogged
Lobs == Unlogged
Reinsurers == Unlogged
RiskCompanies == Unlogged
TreatyTypes == Unlogged
GlMappings == [Unlogged EXCEPT !.pinned = TRUE]
MgaDocuments == Attached
StateDocuments == Attached
RiskCompanyDocuments == Attached
AccountDocuments == Attached

Tables ==
    {Brokers, Mgas, Products, States, DocumentTypes, SequenceCounters, Cobs, Lobs, Reinsurers,
     RiskCompanies, TreatyTypes, GlMappings, MgaDocuments, StateDocuments,
     RiskCompanyDocuments, AccountDocuments}

\* A code is unique or, in a table of documents, the file.  deletedAt: the request
\* that set it.
RowType ==
    [code : Code, info : Info, deleted : BOOLEAN, deletedAt : Request \cup {Absent}]

Columns == {"code", "info", "deleted", "deletedAt"}

Value == Code \cup Info \cup BOOLEAN \cup Request \cup {Absent}

\* What an entry tells of a column.
Change == [old : Value, new : Value]

\* The trail tells no deletedAt of a removal, so AuditedStore leaves it out.
Told == {"code", "info", "deleted"}

StoreRow == [code : Code, info : Info, deleted : BOOLEAN]

\* An update sends some of the columns.
Sent == UNION {[S -> Code \cup Info] : S \in SUBSET {"code", "info"}}

Calls ==
    [op : {"create"}, code : Code, info : Info]
    \cup [op : {"update"}, id : Id, sent : Sent]
    \cup [op : {"delete"}, id : Id]

ASSUME ConstantAssumption ==
    /\ Request \cap OldRow = {}
    /\ Kind \subseteq Kinds
    /\ Call \subseteq Calls
    /\ \A c \in Call : c.op = "update" =>
          /\ "code" \in DOMAIN c.sent => c.sent["code"] \in Code
          /\ "info" \in DOMAIN c.sent => c.sent["info"] \in Info
    /\ MaxInFlight \in Nat \ {0}
    /\ Absent \notin RowType \cup StoreRow \cup Calls \cup Change

VARIABLES
    kind,   \* of the table, chosen once
    rows,
    trail,  \* activity_logs for the table, in the order of the commits
    pc,
    call,
    local

vars == <<kind, rows, trail, pc, call, local>>

----------------------------------------------------------------------------

\* local[r]: the entity to save, what save() read of the row before it writes, and
\* as history the length of the trail when the entity was read.
Forgotten == [copy |-> Absent, base |-> Absent, seen |-> 0]

InFlight(r) == pc[r] \notin {"idle", "done", "failed"}

Exists(i) == rows[i] # Absent

\* A removed row keeps its code.
Taken(code, i) == \E j \in Id \ {i} : Exists(j) /\ rows[j].code = code

Goto(r, label) == pc' = [pc EXCEPT ![r] = label]

Keep(r, held) == local' = [local EXCEPT ![r] = held]

Fail(r) == Goto(r, "failed") /\ UNCHANGED <<rows, trail, local>>

----------------------------------------------------------------------------

Init ==
    /\ kind \in Kind
    /\ \E old \in [OldRow -> [code : Code, info : Info]] :
          /\ kind.coded => \A i, j \in OldRow : i # j => old[i].code # old[j].code
          /\ rows = [i \in Id |->
                IF i \in OldRow
                  THEN [code |-> old[i].code, info |-> old[i].info,
                        deleted |-> FALSE, deletedAt |-> Absent]
                  ELSE Absent]
    /\ trail = <<>>
    /\ pc = [r \in Request |-> "idle"]
    /\ call = [r \in Request |-> Absent]
    /\ local = [r \in Request |-> Forgotten]

Arrive(r, c) ==
    /\ pc[r] = "idle"
    /\ Cardinality({q \in Request : InFlight(q)}) < MaxInFlight
    /\ c.op = "update" => kind.coded
    /\ call' = [call EXCEPT ![r] = c]
    /\ Goto(r, IF c.op = "create" THEN "checking" ELSE "finding")
    /\ UNCHANGED <<kind, rows, trail, local>>

\* A failing statement or a stop of the process.
Abort(r) ==
    /\ InFlight(r)
    /\ Fail(r)
    /\ UNCHANGED <<kind, call>>

\* Variant: what is not sent is cleared.
AssignOrClear(c, row) ==
    IF c.op = "update"
      THEN [row EXCEPT !.code = IF "code" \in DOMAIN c.sent THEN c.sent["code"] ELSE @,
                       !.info = IF "info" \in DOMAIN c.sent THEN c.sent["info"]
                                ELSE CHOOSE i \in Info : TRUE]
      ELSE row

\* Object.assign: columns not sent stay as they were read.
Assign(c, row) ==
    IF c.op = "update"
      THEN [row EXCEPT !.code = IF "code" \in DOMAIN c.sent THEN c.sent["code"] ELSE @,
                       !.info = IF "info" \in DOMAIN c.sent /\ ~ kind.pinned
                                  THEN c.sent["info"] ELSE @]
      ELSE row

\* findById does not look at isDeleted.
Find(r) ==
    /\ pc[r] = "finding"
    /\ LET i == call[r].id
           row == rows[i] IN
       IF ~ Exists(i)
         THEN Fail(r)
         ELSE /\ Keep(r, [local[r] EXCEPT !.copy = Assign(call[r], row), !.seen = Len(trail)])
              /\ Goto(r, CASE call[r].op = "delete" -> "loading"
                           [] Assign(call[r], row).code # row.code -> "checking"
                           [] OTHER -> "rereading")
              /\ UNCHANGED <<rows, trail>>
    /\ UNCHANGED <<kind, call>>

\* The code looked up; for a document it is its owner, in another table, who may be
\* missing.
Check(r) ==
    /\ pc[r] = "checking"
    /\ LET new == call[r].op = "create"
           code == IF new THEN call[r].code ELSE local[r].copy.code
           refused == IF kind.coded THEN {Taken(code, Absent)} ELSE BOOLEAN
       IN  \E refuse \in refused :
              IF refuse THEN Fail(r)
              ELSE /\ Goto(r, IF new THEN "inserting" ELSE "rereading")
                   /\ UNCHANGED <<rows, trail, local>>
    /\ UNCHANGED <<kind, call>>

\* dao.delete reads the row once more and marks it.
Load(r) ==
    /\ pc[r] = "loading"
    /\ Keep(r, [local[r] EXCEPT !.copy = [rows[call[r].id] EXCEPT !.deleted = TRUE,
                                                                  !.deletedAt = r],
                                !.seen = Len(trail)])
    /\ Goto(r, "rereading")
    /\ UNCHANGED <<kind, rows, trail, call>>

----------------------------------------------------------------------------
\* save() and AuditSubscriber

Finished == IF kind.logged THEN "logging" ELSE "done"

Differing(row, copy) == {c \in Columns : row[c] # copy[c]}

\* save() compares the copy with the row as it is now; with no difference it is
\* over.
Reread(r) ==
    /\ pc[r] = "rereading"
    /\ LET base == rows[call[r].id] IN
       /\ Keep(r, [local[r] EXCEPT !.base = base])
       /\ Goto(r, IF Differing(base, local[r].copy) = {} THEN Finished ELSE "writing")
    /\ UNCHANGED <<kind, rows, trail, call>>

Action(base, copy) == IF ~ base.deleted /\ copy.deleted THEN "delete" ELSE "update"

\* Variant: what a removal sets is never told.
ChangesButRemoval(base, copy) ==
    [c \in Columns |-> IF c \in Differing(base, copy) \ {"deleted", "deletedAt"}
                         THEN [old |-> base[c], new |-> copy[c]] ELSE Absent]

Changes(base, copy) ==
    LET own == IF Action(base, copy) = "delete" THEN {"deleted", "deletedAt"} ELSE {}
        told == Differing(base, copy) \ own
    IN  [c \in Columns |-> IF c \in told THEN [old |-> base[c], new |-> copy[c]] ELSE Absent]

Nothing == [c \in Columns |-> Absent]

Entry(r, i, action, changes) == [by |-> r, id |-> i, action |-> action, changes |-> changes]

\* Variant: the whole copy is written, the difference told.
WriteWhole(r) ==
    /\ pc[r] = "writing"
    /\ LET i == call[r].id
           base == local[r].base
           copy == local[r].copy
           changed == Differing(base, copy) IN
       IF kind.coded /\ "code" \in changed /\ Taken(copy.code, i)
         THEN Fail(r)
         ELSE /\ rows' = [rows EXCEPT ![i] = copy]
              /\ trail' = Append(trail, Entry(r, i, Action(base, copy), Changes(base, copy)))
              /\ Goto(r, Finished)
              /\ UNCHANGED local
    /\ UNCHANGED <<kind, call>>

\* The columns found to differ are updated and told in one transaction.
Write(r) ==
    /\ pc[r] = "writing"
    /\ LET i == call[r].id
           base == local[r].base
           copy == local[r].copy
           changed == Differing(base, copy) IN
       IF kind.coded /\ "code" \in changed /\ Taken(copy.code, i)
         THEN Fail(r)
         ELSE /\ rows' = [rows EXCEPT ![i] =
                    [c \in Columns |-> IF c \in changed THEN copy[c] ELSE rows[i][c]]]
              /\ trail' = Append(trail, Entry(r, i, Action(base, copy), Changes(base, copy)))
              /\ Goto(r, Finished)
              /\ UNCHANGED local
    /\ UNCHANGED <<kind, call>>

Insert(r) ==
    /\ pc[r] = "inserting"
    /\ IF kind.coded /\ Taken(call[r].code, r)
         THEN Fail(r)
         ELSE /\ rows' = [rows EXCEPT ![r] =
                    [code |-> call[r].code, info |-> call[r].info,
                     deleted |-> FALSE, deletedAt |-> Absent]]
              /\ trail' = Append(trail, Entry(r, r, "create", Nothing))
              /\ Goto(r, Finished)
              /\ UNCHANGED local
    /\ UNCHANGED <<kind, call>>

\* activityLogsService.log
Log(r) ==
    /\ pc[r] = "logging"
    /\ trail' = Append(trail, Entry(r, IF call[r].op = "create" THEN r ELSE call[r].id,
                                    "log", Nothing))
    /\ Goto(r, "done")
    /\ UNCHANGED <<kind, rows, call, local>>

----------------------------------------------------------------------------

Step(r) ==
    \/ Find(r) \/ Check(r) \/ Load(r) \/ Reread(r) \/ Write(r) \/ Insert(r) \/ Log(r)

Next ==
    \E r \in Request :
        \/ \E c \in Call : Arrive(r, c)
        \/ Step(r)
        \/ Abort(r)

Spec == Init /\ [][Next]_vars

----------------------------------------------------------------------------
\* Properties

Labels ==
    {"idle", "finding", "checking", "loading", "rereading", "writing", "inserting",
     "logging", "done", "failed"}

Locals == [copy : RowType \cup {Absent}, base : RowType \cup {Absent}, seen : Nat]

Entries ==
    [by : Request, id : Id, action : {"create", "update", "delete", "log"},
     changes : [Columns -> Change \cup {Absent}]]

TypeOK ==
    /\ kind \in Kind
    /\ rows \in [Id -> RowType \cup {Absent}]
    /\ trail \in Seq(Entries)
    /\ pc \in [Request -> Labels]
    /\ call \in [Request -> Call \cup {Absent}]
    /\ local \in [Request -> Locals]

Stored ==
    [i \in Id |-> IF Exists(i) THEN [code |-> rows[i].code, info |-> rows[i].info,
                                     deleted |-> rows[i].deleted] ELSE Absent]

Store == INSTANCE AuditedStore WITH Row <- StoreRow, Column <- Told, store <- Stored, log <- trail

\* Rows and trail change together as AuditedStore says, however requests interleave
\* and wherever they stop.
ImplementsAuditedStore == Store!Spec

\* The values last told by the trail are those of the row.
TrailTellsRows == Store!TrailTellsRows

Asked(c) == IF c.op = "update" THEN DOMAIN c.sent ELSE {"deleted", "deletedAt"}

\* A request changes a column it was not asked to change only back: the trail shows,
\* since the request read the row, another's change of the column from that value,
\* or a removal.
LostUpdatesShow ==
    \A n \in DOMAIN trail :
        LET e == trail[n] IN
        \A c \in Columns \ Asked(call[e.by]) : e.changes[c] # Absent =>
            \E m \in local[e.by].seen + 1 .. n - 1 :
                /\ trail[m].id = e.id /\ trail[m].by # e.by
                /\ \/ trail[m].changes[c] # Absent
                   \/ trail[m].action = "delete" /\ c \in {"deleted", "deletedAt"}

=============================================================================
