------------------------- MODULE MasterRecordsProofs -------------------------
(***************************************************************************)
(* Proofs about MasterRecords: its types, that rows and trail implement     *)
(* AuditedStore, that the trail tells the rows, and that what a stale copy  *)
(* overwrites shows in the trail.                                           *)
(***************************************************************************)
EXTENDS MasterRecords, TLAPS

LEMMA AssignTyped ==
    ASSUME NEW c \in Call, NEW row \in RowType
    PROVE  Assign(c, row) \in RowType
<1>1. CASE c.op = "update"
    <2>1. c.sent \in Sent
        BY <1>1, ConstantAssumption DEF Calls
    <2>. QED
        BY <1>1, <2>1, ConstantAssumption DEF Assign, RowType
<1>. QED
    BY <1>1 DEF Assign

LEMMA MixTyped ==
    ASSUME NEW copy \in RowType, NEW row \in RowType, NEW S
    PROVE  [c \in Columns |-> IF c \in S THEN copy[c] ELSE row[c]] \in RowType
  BY DEF RowType, Columns

LEMMA ChangesTyped ==
    ASSUME NEW base \in RowType, NEW copy \in RowType
    PROVE  /\ Changes(base, copy) \in [Columns -> Change \cup {Absent}]
           /\ \A c \in Columns :
                 Changes(base, copy)[c] # Absent <=>
                    /\ base[c] # copy[c]
                    /\ ~ (Action(base, copy) = "delete" /\ c \in {"deleted", "deletedAt"})
           /\ \A c \in Columns :
                 Changes(base, copy)[c] # Absent => Changes(base, copy)[c].new = copy[c]
<1>1. \A row \in RowType : \A c \in Columns : row[c] \in Value
    BY DEF RowType, Columns, Value
<1>2. \A c \in Columns : [old |-> base[c], new |-> copy[c]] \in Change
    BY <1>1 DEF Change
<1>3. \A c \in Columns : [old |-> base[c], new |-> copy[c]] # Absent
    BY <1>2, ConstantAssumption
<1>. QED
    BY <1>2, <1>3 DEF Changes, Differing

----------------------------------------------------------------------------
\* The invariant

Target(r) == IF call[r].op = "create" THEN r ELSE call[r].id

\* Where a request that changes a row has a copy of it.
Copied == {"checking", "rereading", "writing"}

\* What a request at a label can rely on.
Relies(r) ==
    /\ pc[r] # "idle" => call[r] \in Call
    /\ pc[r] \in {"finding", "loading", "rereading", "writing"} => call[r].op # "create"
    /\ pc[r] = "loading" => call[r].op = "delete"
    /\ pc[r] = "inserting" => call[r].op = "create"
    /\ pc[r] = "idle" => rows[r] = Absent
    /\ pc[r] \in {"checking", "inserting"} /\ call[r].op = "create" => rows[r] = Absent
    /\ pc[r] = "loading" => Exists(call[r].id)
    /\ pc[r] \in Copied /\ call[r].op # "create" =>
          Exists(call[r].id) /\ local[r].copy \in RowType
    /\ pc[r] = "writing" => local[r].base \in RowType
    /\ pc[r] = "logging" => Exists(Target(r))

\* Another request's change of a column, told after r read the row.
Shown(m, r, c) ==
    /\ trail[m].id = call[r].id /\ trail[m].by # r
    /\ \/ trail[m].changes[c] # Absent
       \/ trail[m].action = "delete" /\ c \in {"deleted", "deletedAt"}

ShownSince(r, c, n) == \E m \in local[r].seen + 1 .. n : Shown(m, r, c)

\* Where a copy is stale in a column it was not to change, the trail shows why.
Stale(r) ==
    pc[r] \in Copied /\ call[r].op # "create" =>
        /\ local[r].seen <= Len(trail)
        /\ \A c \in Columns \ Asked(call[r]) :
              /\ rows[call[r].id][c] # local[r].copy[c] => ShownSince(r, c, Len(trail))
              /\ pc[r] = "writing" /\ local[r].base[c] # local[r].copy[c] =>
                    ShownSince(r, c, Len(trail))

\* A request that has told something is past its write.
Past == {"logging", "done", "failed"}

\* Strengthening: what requests rely on, and that stale copies are accounted for.
MInv ==
    /\ TypeOK
    /\ \A r \in Request : Relies(r) /\ Stale(r)
    /\ \A n \in DOMAIN trail : pc[trail[n].by] \in Past
    /\ LostUpdatesShow

LEMMA InitMInv == Init => MInv
<1>. SUFFICES ASSUME Init PROVE MInv
    OBVIOUS
<1>1. TypeOK
    <2>1. rows \in [Id -> RowType \cup {Absent}]
        BY DEF Init, RowType
    <2>2. trail \in Seq(Entries)
        BY DEF Init
    <2>3. local \in [Request -> Locals]
        BY DEF Init, Locals, Forgotten
    <2>. QED
        BY <2>1, <2>2, <2>3 DEF Init, TypeOK, Labels
<1>2. \A r \in Request : Relies(r) /\ Stale(r)
    BY ConstantAssumption DEF Init, Relies, Stale, Copied, Id
<1>3. DOMAIN trail = {}
    BY DEF Init
<1>. QED
    BY <1>1, <1>2, <1>3 DEF MInv, LostUpdatesShow

LEMMA TrailTyped ==
    ASSUME TypeOK
    PROVE  /\ trail \in Seq(Entries) /\ Len(trail) \in Nat /\ DOMAIN trail = 1 .. Len(trail)
           /\ \A n \in DOMAIN trail : trail[n] \in Entries /\ trail[n].by \in Request
<1>1. trail \in Seq(Entries)
    BY DEF TypeOK
<1>2. \A n \in DOMAIN trail : trail[n] \in Entries
    BY <1>1
<1>3. \A e \in Entries : e.by \in Request
    BY DEF Entries
<1>. QED
    BY <1>1, <1>2, <1>3

\* A step of r that leaves rows and trail alone keeps the rest when r's own part is
\* kept.
LEMMA QuietStep ==
    ASSUME MInv, NEW r \in Request, UNCHANGED <<rows, trail>>,
           \A q \in Request \ {r} : /\ pc'[q] = pc[q] /\ call'[q] = call[q]
                                    /\ local'[q] = local[q],
           TypeOK', Relies(r)', Stale(r)',
           pc[r] \in Past => /\ pc'[r] \in Past /\ call'[r] = call[r]
                             /\ local'[r] = local[r]
    PROVE  MInv'
<1>1. \A q \in Request : Relies(q)'
    BY DEF MInv, Relies, Exists, Target
<1>2. \A q \in Request : Stale(q)'
    BY DEF MInv, Stale, ShownSince, Shown
<1>3. \A n \in DOMAIN trail : trail[n].by \in Request
    BY TrailTyped DEF MInv
<1>4. (\A n \in DOMAIN trail : pc[trail[n].by] \in Past)'
    BY <1>3 DEF MInv
<1>5. \A n \in DOMAIN trail : /\ call'[trail[n].by] = call[trail[n].by]
                              /\ local'[trail[n].by] = local[trail[n].by]
    BY <1>3 DEF MInv
<1>6. LostUpdatesShow'
    BY <1>5 DEF MInv, LostUpdatesShow
<1>. QED
    BY <1>1, <1>2, <1>4, <1>6 DEF MInv

\* What is told of a row shows every change of it.
Shows(e, c) == e.changes[c] # Absent \/ (e.action = "delete" /\ c \in {"deleted", "deletedAt"})

\* A step of r that tells what it changed of its row, and changed no other column than
\* it was asked to but those another changed since, keeps the invariant.
LEMMA TellingStep ==
    ASSUME MInv, NEW r \in Request, NEW e \in Entries, NEW label \in {"logging", "done"},
           pc[r] \in {"writing", "inserting", "logging"},
           e.by = r, e.id = Target(r), trail' = Append(trail, e),
           pc' = [pc EXCEPT ![r] = label], UNCHANGED <<kind, call, local>>,
           rows' \in [Id -> RowType \cup {Absent}], rows'[e.id] # Absent,
           \A j \in Id \ {e.id} : rows'[j] = rows[j],
           rows[e.id] # Absent =>
               \A c \in Columns : rows'[e.id][c] # rows[e.id][c] => Shows(e, c),
           \A c \in Columns \ Asked(call[r]) :
               e.changes[c] # Absent =>
                   call[r].op # "create" /\ ShownSince(r, c, Len(trail))
    PROVE  MInv'
<1>1. TypeOK'
    BY DEF MInv, TypeOK, Labels
<1>2. trail \in Seq(Entries) /\ trail' \in Seq(Entries)
    BY DEF MInv, TypeOK
<1>3. /\ Len(trail') = Len(trail) + 1 /\ Len(trail) \in Nat
      /\ DOMAIN trail = 1 .. Len(trail) /\ DOMAIN trail' = 1 .. Len(trail) + 1
      /\ trail'[Len(trail) + 1] = e
      /\ \A n \in DOMAIN trail : trail'[n] = trail[n]
    BY <1>2
<1>4. \A q \in Request : Relies(q)'
    <2>. SUFFICES ASSUME NEW q \in Request PROVE Relies(q)'
        OBVIOUS
    <2>1. CASE q = r
        BY <2>1 DEF MInv, TypeOK, Relies, Exists, Target, Copied, Labels
    <2>2. CASE q # r
        <3>1. pc'[q] = pc[q] /\ call'[q] = call[q] /\ local'[q] = local[q]
            BY <2>2 DEF MInv, TypeOK
        <3>2. \A j \in Id : rows[j] # Absent => rows'[j] # Absent
            OBVIOUS
        <3>3. rows[q] = Absent => rows'[q] = Absent
            <4>1. rows[q] = Absent => e.id # q
                <5>1. CASE call[r].op = "create"
                    BY <2>2, <5>1 DEF Target
                <5>2. CASE call[r].op # "create"
                    BY <5>2 DEF MInv, Relies, Target, Exists, Copied
                <5>. QED
                    BY <5>1, <5>2
            <4>. QED
                BY <4>1 DEF Id
        <3>4. pc[q] \in {"finding", "checking", "loading", "rereading", "writing", "inserting"}
                => call[q] \in Calls
            BY ConstantAssumption DEF MInv, Relies
        <3>5. call[q] \in Calls /\ call[q].op # "create" => call[q].id \in Id
            BY DEF Calls
        <3>6. call[q] \in Call => Target(q) \in Id
            BY <3>5, ConstantAssumption DEF Target, Id
        <3>. QED
            BY <3>1, <3>2, <3>3, <3>4, <3>5, <3>6 DEF MInv, Relies, Exists, Target, Copied
    <2>. QED
        BY <2>1, <2>2
<1>5. \A q \in Request, c \in Columns, n \in 0 .. Len(trail) :
          ShownSince(q, c, n) => ShownSince(q, c, n)'
    <2>. SUFFICES ASSUME NEW q \in Request, NEW c \in Columns, NEW n \in 0 .. Len(trail),
                         ShownSince(q, c, n)
                  PROVE  ShownSince(q, c, n)'
        OBVIOUS
    <2>1. PICK m \in local[q].seen + 1 .. n : Shown(m, q, c)
        BY DEF ShownSince
    <2>2. local[q].seen \in Nat
        BY DEF MInv, TypeOK, Locals
    <2>3. m \in DOMAIN trail
        BY <2>1, <2>2, <1>3
    <2>4. Shown(m, q, c)'
        BY <2>1, <2>3, <1>3 DEF Shown
    <2>. QED
        BY <2>1, <2>4 DEF ShownSince
<1>6. \A q \in Request, c \in Columns :
          ShownSince(q, c, Len(trail)) => ShownSince(q, c, Len(trail))'
    <2>. SUFFICES ASSUME NEW q \in Request, NEW c \in Columns, ShownSince(q, c, Len(trail))
                  PROVE  ShownSince(q, c, Len(trail))'
        OBVIOUS
    <2>1. PICK n \in Nat : n = Len(trail)
        BY <1>3
    <2>2. ShownSince(q, c, n)'
        BY <2>1, <1>5
    <2>3. local'[q].seen \in Nat
        BY DEF MInv, TypeOK, Locals
    <2>. QED
        BY <2>1, <2>2, <2>3, <1>3 DEF ShownSince
<1>7. \A q \in Request : Stale(q)'
    <2>. SUFFICES ASSUME NEW q \in Request, pc'[q] \in Copied, call'[q].op # "create"
                  PROVE  Stale(q)'
        BY DEF Stale
    <2>1. q # r
        BY DEF MInv, TypeOK, Copied
    <2>2. pc'[q] = pc[q] /\ call'[q] = call[q] /\ local'[q] = local[q]
        BY <2>1 DEF MInv, TypeOK
    <2>3. Stale(q) /\ Relies(q)
        BY DEF MInv
    <2>4. local[q].seen \in Nat /\ local[q].seen <= Len(trail)
        BY <2>2, <2>3 DEF MInv, TypeOK, Locals, Stale
    <2>5. ASSUME NEW c \in Columns \ Asked(call[q])
          PROVE  rows'[call[q].id][c] # local[q].copy[c] => ShownSince(q, c, Len(trail))'
        <3>1. CASE rows[call[q].id][c] # local[q].copy[c]
            BY <3>1, <2>2, <2>3, <1>6 DEF Stale
        <3>2. CASE rows[call[q].id][c] = local[q].copy[c]
                   /\ rows'[call[q].id][c] # local[q].copy[c]
            <4>1. call[q].id \in Id
                BY <2>2, <2>3, ConstantAssumption DEF Relies, Calls, Copied
            <4>2. rows[call[q].id] # Absent
                BY <2>2, <2>3 DEF Relies, Exists
            <4>3. call[q].id = e.id
                BY <3>2, <4>1
            <4>4. Shows(e, c)
                BY <3>2, <4>2, <4>3
            <4>5. PICK m \in Nat : m = Len(trail) + 1
                BY <1>3
            <4>6. Shown(m, q, c)'
                BY <4>3, <4>4, <4>5, <2>1, <2>2, <1>3 DEF Shown, Shows
            <4>7. m \in local'[q].seen + 1 .. Len(trail')
                BY <4>5, <2>2, <2>4, <1>3
            <4>. QED
                BY <4>6, <4>7 DEF ShownSince
        <3>. QED
            BY <3>1, <3>2
    <2>6. ASSUME NEW c \in Columns \ Asked(call[q]), pc[q] = "writing",
                 local[q].base[c] # local[q].copy[c]
          PROVE  ShownSince(q, c, Len(trail))'
        BY <2>2, <2>3, <2>6, <1>6 DEF Stale
    <2>. QED
        BY <2>2, <2>4, <2>5, <2>6, <1>3 DEF Stale
<1>8. (\A n \in DOMAIN trail : pc[trail[n].by] \in Past)'
    <2>1. \A n \in DOMAIN trail : trail[n].by \in Request
        BY TrailTyped DEF MInv
    <2>2. pc'[r] \in Past
        BY DEF MInv, TypeOK, Past
    <2>3. \A n \in DOMAIN trail : pc'[trail[n].by] \in Past
        BY <2>1, <2>2 DEF MInv, TypeOK
    <2>. QED
        BY <2>2, <2>3, <1>3
<1>9. LostUpdatesShow'
    <2>. SUFFICES ASSUME NEW n \in DOMAIN trail',
                         NEW c \in Columns \ Asked(call'[trail'[n].by]),
                         trail'[n].changes[c] # Absent
                  PROVE  \E m \in local'[trail'[n].by].seen + 1 .. n - 1 :
                             /\ trail'[m].id = trail'[n].id /\ trail'[m].by # trail'[n].by
                             /\ \/ trail'[m].changes[c] # Absent
                                \/ trail'[m].action = "delete" /\ c \in {"deleted", "deletedAt"}
        BY DEF LostUpdatesShow
    <2>1. CASE n \in DOMAIN trail
        <3>1. trail'[n] = trail[n]
            BY <2>1, <1>3
        <3>2. PICK m \in local[trail[n].by].seen + 1 .. n - 1 :
                  /\ trail[m].id = trail[n].id /\ trail[m].by # trail[n].by
                  /\ \/ trail[m].changes[c] # Absent
                     \/ trail[m].action = "delete" /\ c \in {"deleted", "deletedAt"}
            BY <2>1, <3>1 DEF MInv, LostUpdatesShow
        <3>3. trail[n].by \in Request
            BY <2>1, TrailTyped DEF MInv
        <3>4. local[trail[n].by].seen \in Nat
            BY <3>3 DEF MInv, TypeOK, Locals
        <3>5. m \in DOMAIN trail
            BY <2>1, <3>2, <3>4, <1>3
        <3>. QED
            BY <3>1, <3>2, <3>5, <1>3
    <2>2. CASE n = Len(trail) + 1
        <3>1. trail'[n] = e
            BY <2>2, <1>3
        <3>2. PICK m \in local[r].seen + 1 .. Len(trail) : Shown(m, r, c)
            BY <3>1 DEF ShownSince
        <3>3. local[r].seen \in Nat
            BY DEF MInv, TypeOK, Locals
        <3>4. m \in DOMAIN trail
            BY <3>2, <3>3, <1>3
        <3>5. call[r].op # "create"
            BY <3>1
        <3>. QED
            BY <2>2, <3>1, <3>2, <3>3, <3>4, <3>5, <1>3 DEF Shown, Target
    <2>3. n \in DOMAIN trail \/ n = Len(trail) + 1
        BY <1>3
    <2>. QED
        BY <2>1, <2>2, <2>3
<1>. QED
    BY <1>1, <1>4, <1>7, <1>8, <1>9 DEF MInv

----------------------------------------------------------------------------
\* The steps

LEMMA ArriveKeeps ==
    ASSUME MInv, NEW r \in Request, NEW c \in Call, Arrive(r, c)
    PROVE  MInv'
<1>1. /\ pc' = [pc EXCEPT ![r] = IF c.op = "create" THEN "checking" ELSE "finding"]
      /\ call' = [call EXCEPT ![r] = c] /\ pc[r] = "idle"
      /\ UNCHANGED <<kind, rows, trail, local>>
    BY DEF Arrive, Goto
<1>2. /\ TypeOK'
      /\ pc'[r] = (IF c.op = "create" THEN "checking" ELSE "finding") /\ call'[r] = c
    BY <1>1 DEF MInv, TypeOK, Labels
<1>3. Relies(r)'
    BY <1>1, <1>2 DEF MInv, TypeOK, Relies, Copied
<1>4. Stale(r)'
    BY <1>2 DEF Stale, Copied
<1>5. \A q \in Request \ {r} : /\ pc'[q] = pc[q] /\ call'[q] = call[q] /\ local'[q] = local[q]
    BY <1>1 DEF MInv, TypeOK
<1>. QED
    BY <1>1, <1>2, <1>3, <1>4, <1>5, QuietStep DEF Past

LEMMA FailKeeps ==
    ASSUME MInv, NEW r \in Request, Fail(r), UNCHANGED <<kind, call>>, InFlight(r)
    PROVE  MInv'
<1>1. pc' = [pc EXCEPT ![r] = "failed"] /\ UNCHANGED <<kind, rows, trail, call, local>>
    BY DEF Fail, Goto
<1>2. TypeOK' /\ pc'[r] = "failed"
    BY <1>1 DEF MInv, TypeOK, Labels
<1>3. Relies(r)' /\ Stale(r)'
    BY <1>1, <1>2 DEF MInv, TypeOK, Relies, Stale, Copied, InFlight
<1>4. \A q \in Request \ {r} : /\ pc'[q] = pc[q] /\ call'[q] = call[q] /\ local'[q] = local[q]
    BY <1>1 DEF MInv, TypeOK
<1>. QED
    BY <1>1, <1>2, <1>3, <1>4, QuietStep DEF Past

LEMMA FindKeeps ==
    ASSUME MInv, NEW r \in Request, Find(r)
    PROVE  MInv'
<1>1. pc[r] = "finding" /\ UNCHANGED <<kind, call>> /\ InFlight(r)
    BY DEF Find, InFlight
<1>2. CASE Fail(r)
    BY <1>1, <1>2, FailKeeps
<1>3. CASE ~ Fail(r)
    <2>. DEFINE i == call[r].id
                copy == Assign(call[r], rows[i])
                label == CASE call[r].op = "delete" -> "loading"
                           [] copy.code # rows[i].code -> "checking"
                           [] OTHER -> "rereading"
                held == [local[r] EXCEPT !.copy = copy, !.seen = Len(trail)]
    <2>1. /\ Exists(i) /\ UNCHANGED <<rows, trail>>
          /\ pc' = [pc EXCEPT ![r] = label] /\ local' = [local EXCEPT ![r] = held]
        BY <1>3 DEF Find, Keep, Goto
    <2>2. call[r] \in Call /\ call[r].op # "create"
        BY <1>1 DEF MInv, Relies
    <2>3. i \in Id
        BY <2>2, ConstantAssumption DEF Calls
    <2>4. rows[i] \in RowType
        BY <2>1, <2>3 DEF MInv, TypeOK, Exists
    <2>5. copy \in RowType
        BY <2>2, <2>4, AssignTyped
    <2>6. Len(trail) \in Nat /\ local[r] \in Locals
        BY TrailTyped DEF MInv, TypeOK
    <2>7. held \in Locals /\ held.copy = copy /\ held.seen = Len(trail)
        BY <2>5, <2>6 DEF Locals
    <2>8. label \in {"loading", "checking", "rereading"}
          /\ (label = "loading" => call[r].op = "delete")
        OBVIOUS
    <2>9. TypeOK' /\ pc'[r] = label /\ local'[r] = held
        <3>. HIDE DEF label, held
        <3>. QED
            BY <1>1, <2>1, <2>7, <2>8 DEF MInv, TypeOK, Labels
    <2>10. Relies(r)'
        <3>. HIDE DEF label, held, copy
        <3>. QED
            BY <1>1, <2>1, <2>2, <2>5, <2>7, <2>8, <2>9 DEF Relies, Exists
    <2>11. \A c \in Columns \ Asked(call[r]) : rows[i][c] = copy[c]
        BY <2>2, <2>4, ConstantAssumption DEF Assign, Asked, Columns, RowType, Calls, Sent
    <2>12. Stale(r)'
        <3>. HIDE DEF label, held, copy
        <3>. QED
            BY <1>1, <2>1, <2>6, <2>7, <2>8, <2>9, <2>11 DEF Stale
    <2>13. \A q \in Request \ {r} : /\ pc'[q] = pc[q] /\ call'[q] = call[q]
                                     /\ local'[q] = local[q]
        <3>. HIDE DEF label, held
        <3>. QED
            BY <1>1, <2>1 DEF MInv, TypeOK
    <2>. QED
        BY <1>1, <2>1, <2>9, <2>10, <2>12, <2>13, QuietStep DEF Past
<1>. QED
    BY <1>2, <1>3

LEMMA CheckKeeps ==
    ASSUME MInv, NEW r \in Request, Check(r)
    PROVE  MInv'
<1>1. pc[r] = "checking" /\ UNCHANGED <<kind, call>> /\ InFlight(r)
    BY DEF Check, InFlight
<1>2. CASE Fail(r)
    BY <1>1, <1>2, FailKeeps
<1>3. CASE ~ Fail(r)
    <2>. DEFINE label == IF call[r].op = "create" THEN "inserting" ELSE "rereading"
    <2>1. pc' = [pc EXCEPT ![r] = label] /\ UNCHANGED <<rows, trail, local>>
        BY <1>3 DEF Check, Goto
    <2>2. TypeOK' /\ pc'[r] = label
        BY <1>1, <2>1 DEF MInv, TypeOK, Labels
    <2>3. Relies(r)'
        BY <1>1, <2>1, <2>2 DEF MInv, TypeOK, Relies, Exists, Copied
    <2>4. Stale(r)'
        BY <1>1, <2>1, <2>2 DEF MInv, Stale, ShownSince, Shown, Copied
    <2>5. \A q \in Request \ {r} : /\ pc'[q] = pc[q] /\ call'[q] = call[q]
                                    /\ local'[q] = local[q]
        BY <1>1, <2>1 DEF MInv, TypeOK
    <2>. QED
        BY <1>1, <2>1, <2>2, <2>3, <2>4, <2>5, QuietStep DEF Past
<1>. QED
    BY <1>2, <1>3

LEMMA LoadKeeps ==
    ASSUME MInv, NEW r \in Request, Load(r)
    PROVE  MInv'
<1>. DEFINE i == call[r].id
            copy == [rows[i] EXCEPT !.deleted = TRUE, !.deletedAt = r]
            held == [local[r] EXCEPT !.copy = copy, !.seen = Len(trail)]
<1>1. /\ pc[r] = "loading" /\ UNCHANGED <<kind, rows, trail, call>>
      /\ pc' = [pc EXCEPT ![r] = "rereading"] /\ local' = [local EXCEPT ![r] = held]
    BY DEF Load, Keep, Goto
<1>2. /\ call[r] \in Call /\ call[r].op = "delete" /\ Exists(i)
    BY <1>1 DEF MInv, Relies
<1>3. i \in Id
    BY <1>2, ConstantAssumption DEF Calls
<1>4. rows[i] \in RowType
    BY <1>2, <1>3 DEF MInv, TypeOK, Exists
<1>5. /\ copy \in RowType
      /\ \A c \in Columns \ {"deleted", "deletedAt"} : copy[c] = rows[i][c]
    BY <1>4 DEF RowType, Columns
<1>6. Len(trail) \in Nat /\ local[r] \in Locals
    BY TrailTyped DEF MInv, TypeOK
<1>7. held \in Locals /\ held.copy = copy /\ held.seen = Len(trail)
    BY <1>5, <1>6 DEF Locals
<1>. HIDE DEF held, copy
<1>8. TypeOK' /\ pc'[r] = "rereading" /\ local'[r] = held
    BY <1>1, <1>7 DEF MInv, TypeOK, Labels
<1>9. Relies(r)'
    BY <1>1, <1>2, <1>5, <1>7, <1>8 DEF Relies, Exists
<1>10. Stale(r)'
    BY <1>1, <1>2, <1>5, <1>6, <1>7, <1>8 DEF Stale, Asked
<1>11. \A q \in Request \ {r} : /\ pc'[q] = pc[q] /\ call'[q] = call[q]
                                 /\ local'[q] = local[q]
    BY <1>1 DEF MInv, TypeOK
<1>. QED
    BY <1>1, <1>8, <1>9, <1>10, <1>11, QuietStep DEF Past

LEMMA RereadKeeps ==
    ASSUME MInv, NEW r \in Request, Reread(r)
    PROVE  MInv'
<1>. DEFINE i == call[r].id
            label == IF Differing(rows[i], local[r].copy) = {} THEN Finished ELSE "writing"
            held == [local[r] EXCEPT !.base = rows[i]]
<1>1. /\ pc[r] = "rereading" /\ UNCHANGED <<kind, rows, trail, call>>
      /\ pc' = [pc EXCEPT ![r] = label] /\ local' = [local EXCEPT ![r] = held]
    BY DEF Reread, Keep, Goto
<1>2. /\ call[r] \in Call /\ call[r].op # "create" /\ Exists(i)
      /\ local[r].copy \in RowType
    BY <1>1 DEF MInv, Relies, Copied
<1>3. i \in Id
    BY <1>2, ConstantAssumption DEF Calls
<1>4. rows[i] \in RowType
    BY <1>2, <1>3 DEF MInv, TypeOK, Exists
<1>5. local[r] \in Locals
    BY DEF MInv, TypeOK
<1>6. /\ held \in Locals /\ held.base = rows[i]
      /\ held.copy = local[r].copy /\ held.seen = local[r].seen
    BY <1>4, <1>5 DEF Locals
<1>7. label \in {"logging", "done", "writing"}
    BY DEF Finished
<1>. HIDE DEF held, label
<1>8. TypeOK' /\ pc'[r] = label /\ local'[r] = held
    BY <1>1, <1>6, <1>7 DEF MInv, TypeOK, Labels
<1>9. Relies(r)'
    BY <1>1, <1>2, <1>4, <1>6, <1>7, <1>8 DEF Relies, Exists, Target
<1>10. Stale(r)'
    BY <1>1, <1>2, <1>6, <1>8 DEF MInv, Stale, Copied, ShownSince, Shown
<1>11. \A q \in Request \ {r} : /\ pc'[q] = pc[q] /\ call'[q] = call[q]
                                 /\ local'[q] = local[q]
    BY <1>1 DEF MInv, TypeOK
<1>. QED
    BY <1>1, <1>8, <1>9, <1>10, <1>11, QuietStep DEF Past

\* A write that succeeds: the row gets the columns found to differ, the entry tells
\* them, and nothing else happens.
LEMMA WriteEffect ==
    ASSUME MInv, NEW r \in Request, Write(r), ~ Fail(r),
           NEW i, i = call[r].id, NEW base, base = local[r].base,
           NEW copy, copy = local[r].copy, NEW e, NEW row,
           e = Entry(r, i, Action(base, copy), Changes(base, copy)),
           row = [c \in Columns |-> IF c \in Differing(base, copy) THEN copy[c]
                                    ELSE rows[i][c]]
    PROVE  /\ call[r] \in Call /\ call[r].op # "create" /\ i \in Id
           /\ base \in RowType /\ copy \in RowType /\ rows[i] \in RowType
           /\ e \in Entries /\ row \in RowType
           /\ rows' = [rows EXCEPT ![i] = row]
           /\ trail' = Append(trail, e)
           /\ pc' = [pc EXCEPT ![r] = Finished] /\ UNCHANGED <<kind, call, local>>
           /\ \A c \in Columns : row[c] # rows[i][c] => Shows(e, c)
           /\ \A c \in Columns : e.changes[c] # Absent => base[c] # copy[c]
<1>1. /\ pc[r] = "writing" /\ UNCHANGED <<kind, call, local>>
      /\ pc' = [pc EXCEPT ![r] = Finished]
      /\ rows' = [rows EXCEPT ![i] = row] /\ trail' = Append(trail, e)
    BY DEF Write, Goto
<1>2. /\ call[r] \in Call /\ call[r].op # "create" /\ Exists(i)
      /\ copy \in RowType /\ base \in RowType
    BY <1>1 DEF MInv, Relies, Copied
<1>3. i \in Id
    BY <1>2, ConstantAssumption DEF Calls
<1>4. rows[i] \in RowType
    BY <1>2, <1>3 DEF MInv, TypeOK, Exists
<1>5. row \in RowType
    BY <1>2, <1>4, MixTyped
<1>6. Action(base, copy) \in {"update", "delete"}
    BY DEF Action
<1>7. e \in Entries
    BY <1>2, <1>3, <1>6, ChangesTyped DEF Entries, Entry
<1>8. \A c \in Columns : row[c] # rows[i][c] => base[c] # copy[c]
    BY DEF Differing
<1>9. \A c \in Columns : row[c] # rows[i][c] => Shows(e, c)
    BY <1>2, <1>8, ChangesTyped DEF Shows, Entry
<1>10. \A c \in Columns : e.changes[c] # Absent => base[c] # copy[c]
    BY <1>2, ChangesTyped DEF Entry
<1>. QED
    BY <1>1, <1>2, <1>3, <1>4, <1>5, <1>7, <1>9, <1>10

LEMMA WriteKeeps ==
    ASSUME MInv, NEW r \in Request, Write(r)
    PROVE  MInv'
<1>1. pc[r] = "writing" /\ UNCHANGED <<kind, call>> /\ InFlight(r)
    BY DEF Write, InFlight
<1>2. CASE Fail(r)
    BY <1>1, <1>2, FailKeeps
<1>3. CASE ~ Fail(r)
    <2>. DEFINE i == call[r].id
                base == local[r].base
                copy == local[r].copy
                e == Entry(r, i, Action(base, copy), Changes(base, copy))
                row == [c \in Columns |-> IF c \in Differing(base, copy) THEN copy[c]
                                          ELSE rows[i][c]]
    <2>1. /\ call[r] \in Call /\ call[r].op # "create" /\ i \in Id
          /\ base \in RowType /\ copy \in RowType /\ rows[i] \in RowType
          /\ e \in Entries /\ row \in RowType
          /\ rows' = [rows EXCEPT ![i] = row]
          /\ trail' = Append(trail, e)
          /\ pc' = [pc EXCEPT ![r] = Finished] /\ UNCHANGED <<kind, call, local>>
          /\ \A c \in Columns : row[c] # rows[i][c] => Shows(e, c)
          /\ \A c \in Columns : e.changes[c] # Absent => base[c] # copy[c]
        <3>. HIDE DEF e, row, i, base, copy
        <3>1. /\ i = call[r].id /\ base = local[r].base /\ copy = local[r].copy
              /\ e = Entry(r, i, Action(base, copy), Changes(base, copy))
              /\ row = [c \in Columns |-> IF c \in Differing(base, copy) THEN copy[c]
                                          ELSE rows[i][c]]
            BY DEF e, row, i, base, copy
        <3>. QED
            BY <1>3, <3>1, WriteEffect
    <2>2. e.by = r /\ e.id = i /\ Target(r) = i
        BY <2>1 DEF Entry, Target
    <2>. HIDE DEF e, row
    <2>3. row # Absent
        BY <2>1, ConstantAssumption
    <2>4. /\ rows' \in [Id -> RowType \cup {Absent}] /\ rows'[e.id] = row
          /\ \A j \in Id \ {e.id} : rows'[j] = rows[j]
        BY <2>1, <2>2 DEF MInv, TypeOK
    <2>5. \A c \in Columns \ Asked(call[r]) :
             e.changes[c] # Absent => ShownSince(r, c, Len(trail))
        BY <1>1, <2>1 DEF MInv, Stale, Copied
    <2>6. Finished \in {"logging", "done"}
        BY DEF Finished
    <2>7. \A c \in Columns : rows'[e.id][c] # rows[e.id][c] => Shows(e, c)
        BY <2>1, <2>2, <2>4
    <2>. HIDE DEF i, base, copy
    <2>8. rows'[e.id] # Absent
        BY <2>3, <2>4
    <2>. QED
        BY <1>1, <2>1, <2>2, <2>4, <2>5, <2>6, <2>7, <2>8, TellingStep
<1>. QED
    BY <1>2, <1>3

LEMMA NothingTyped ==
    /\ Nothing \in [Columns -> Change \cup {Absent}]
    /\ \A c \in Columns : Nothing[c] = Absent
  BY DEF Nothing

LEMMA InsertKeeps ==
    ASSUME MInv, NEW r \in Request, Insert(r)
    PROVE  MInv'
<1>1. pc[r] = "inserting" /\ UNCHANGED <<kind, call>> /\ InFlight(r)
    BY DEF Insert, InFlight
<1>2. CASE Fail(r)
    BY <1>1, <1>2, FailKeeps
<1>3. CASE ~ Fail(r)
    <2>. DEFINE row == [code |-> call[r].code, info |-> call[r].info,
                        deleted |-> FALSE, deletedAt |-> Absent]
                e == Entry(r, r, "create", Nothing)
    <2>1. /\ rows' = [rows EXCEPT ![r] = row] /\ trail' = Append(trail, e)
          /\ pc' = [pc EXCEPT ![r] = Finished] /\ UNCHANGED local
        BY <1>3 DEF Insert, Goto
    <2>2. call[r] \in Call /\ call[r].op = "create" /\ rows[r] = Absent
        BY <1>1 DEF MInv, Relies
    <2>3. row \in RowType
        BY <2>2, ConstantAssumption DEF Calls, RowType
    <2>4. r \in Id /\ Target(r) = r /\ e.by = r /\ e.id = r
        BY <2>2 DEF Id, Target, Entry
    <2>5. e \in Entries
        BY <2>4, NothingTyped DEF Entries, Entry
    <2>6. \A c \in Columns : e.changes[c] = Absent
        BY NothingTyped DEF Entry
    <2>. HIDE DEF row, e
    <2>7. row # Absent
        BY <2>3, ConstantAssumption
    <2>8. /\ rows' \in [Id -> RowType \cup {Absent}] /\ rows'[e.id] = row
          /\ \A j \in Id \ {e.id} : rows'[j] = rows[j]
        BY <2>1, <2>3, <2>4 DEF MInv, TypeOK
    <2>9. Finished \in {"logging", "done"}
        BY DEF Finished
    <2>. QED
        BY <1>1, <2>1, <2>2, <2>4, <2>5, <2>6, <2>7, <2>8, <2>9, TellingStep
<1>. QED
    BY <1>2, <1>3

LEMMA LogKeeps ==
    ASSUME MInv, NEW r \in Request, Log(r)
    PROVE  MInv'
<1>. DEFINE e == Entry(r, Target(r), "log", Nothing)
<1>1. /\ pc[r] = "logging" /\ trail' = Append(trail, e)
      /\ pc' = [pc EXCEPT ![r] = "done"] /\ UNCHANGED <<kind, rows, call, local>>
    BY DEF Log, Goto, Target
<1>2. call[r] \in Call /\ Exists(Target(r))
    BY <1>1 DEF MInv, Relies
<1>3. Target(r) \in Id
    BY <1>2, ConstantAssumption DEF Target, Calls, Id
<1>4. e \in Entries
    BY <1>3, NothingTyped DEF Entries, Entry
<1>5. e.by = r /\ e.id = Target(r) /\ \A c \in Columns : e.changes[c] = Absent
    BY NothingTyped DEF Entry
<1>. HIDE DEF e
<1>6. /\ rows' \in [Id -> RowType \cup {Absent}] /\ rows'[e.id] # Absent
      /\ rows' = rows
    BY <1>1, <1>2, <1>5 DEF MInv, TypeOK, Exists
<1>. QED
    BY <1>1, <1>4, <1>5, <1>6, TellingStep

LEMMA NextMInv == MInv /\ [Next]_vars => MInv'
<1>. SUFFICES ASSUME MInv, [Next]_vars PROVE MInv'
    OBVIOUS
<1>1. ASSUME NEW r \in Request, NEW c \in Call, Arrive(r, c) PROVE MInv'
    BY <1>1, ArriveKeeps
<1>2. ASSUME NEW r \in Request, Step(r) PROVE MInv'
    BY <1>2, FindKeeps, CheckKeeps, LoadKeeps, RereadKeeps, WriteKeeps, InsertKeeps,
       LogKeeps DEF Step
<1>3. ASSUME NEW r \in Request, Abort(r) PROVE MInv'
    BY <1>3, FailKeeps DEF Abort
<1>4. CASE UNCHANGED vars
    BY <1>4 DEF vars, MInv, TypeOK, Relies, Stale, ShownSince, Shown, Exists, Target,
                LostUpdatesShow
<1>. QED
    BY <1>1, <1>2, <1>3, <1>4 DEF Next

LEMMA Invariance == Spec => []MInv
  BY InitMInv, NextMInv, PTL DEF Spec

\* The state of a master table, its trail and the requests at work stays well typed.
THEOREM TypeCorrect == Spec => []TypeOK
<1>1. MInv => TypeOK
    BY DEF MInv
<1>. QED
    BY <1>1, Invariance, PTL

\* A request changes a column it was not asked to change only where the trail shows
\* that another changed it after the request had read the row.
THEOREM LostUpdatesAreVisible == Spec => []LostUpdatesShow
<1>1. MInv => LostUpdatesShow
    BY DEF MInv
<1>. QED
    BY <1>1, Invariance, PTL

----------------------------------------------------------------------------
\* Rows and trail implement AuditedStore

LEMMA StoredTyped ==
    ASSUME TypeOK
    PROVE  /\ Stored \in [Id -> StoreRow \cup {Absent}]
           /\ \A i \in Id : Stored[i] = Absent <=> rows[i] = Absent
           /\ \A i \in Id : Exists(i) => \A c \in Told : Stored[i][c] = rows[i][c]
<1>1. ASSUME NEW i \in Id, Exists(i)
      PROVE  [code |-> rows[i].code, info |-> rows[i].info, deleted |-> rows[i].deleted]
                \in StoreRow
    BY <1>1 DEF TypeOK, Exists, RowType, StoreRow
<1>2. Stored \in [Id -> StoreRow \cup {Absent}]
    BY <1>1 DEF Stored
<1>3. \A i \in Id : Stored[i] = Absent <=> rows[i] = Absent
    BY <1>1, ConstantAssumption DEF Stored, Exists
<1>4. \A i \in Id : Exists(i) => \A c \in Told : Stored[i][c] = rows[i][c]
    BY DEF Stored, Told
<1>. QED
    BY <1>2, <1>3, <1>4

\* What an entry of a write tells is what it stores, and what it does not tell stays.
LEMMA WriteTells ==
    ASSUME NEW base \in RowType, NEW copy \in RowType, NEW row \in RowType, NEW r, NEW i
    PROVE  LET e == Entry(r, i, Action(base, copy), Changes(base, copy)) IN
           \A c \in Told :
               /\ Store!Tells(e, c) => c \in Differing(base, copy) /\ Store!Told(e, c) = copy[c]
               /\ ~ Store!Tells(e, c) => c \notin Differing(base, copy)
<1>. DEFINE e == Entry(r, i, Action(base, copy), Changes(base, copy))
<1>1. e.action = Action(base, copy) /\ e.changes = Changes(base, copy)
    BY DEF Entry
<1>2. Told \subseteq Columns
    BY DEF Told, Columns
<1>3. e.action = "delete" => base.deleted = FALSE /\ copy.deleted = TRUE
    BY <1>1 DEF Action, RowType
<1>. HIDE DEF e
<1>4. ASSUME NEW c \in Told
      PROVE  /\ Store!Tells(e, c) => c \in Differing(base, copy) /\ Store!Told(e, c) = copy[c]
             /\ ~ Store!Tells(e, c) => c \notin Differing(base, copy)
    <2>1. CASE e.changes[c] # Absent
        BY <1>1, <1>2, <2>1, ChangesTyped DEF Store!Tells, Store!Told, Differing
    <2>2. CASE e.changes[c] = Absent /\ e.action = "delete" /\ c = "deleted"
        BY <1>2, <1>3, <2>2 DEF Store!Tells, Store!Told, Differing
    <2>3. CASE e.changes[c] = Absent /\ ~ (e.action = "delete" /\ c = "deleted")
        <3>1. c # "deletedAt"
            BY DEF Told
        <3>2. base[c] = copy[c]
            BY <1>1, <1>2, <2>3, <3>1, ChangesTyped
        <3>. QED
            BY <2>3, <3>2 DEF Store!Tells, Differing
    <2>. QED
        BY <2>1, <2>2, <2>3
<1>. QED
    BY <1>4 DEF e

\* Appending an entry is a step of the store.
LEMMA AddIsNext ==
    ASSUME TypeOK, NEW e \in Entries, trail' = Append(trail, e),
           Store!Create(e) \/ Store!Change(e)
    PROVE  Store!Next
<1>1. /\ Len(trail') = Len(trail) + 1 /\ trail'[Len(trail')] = e
    BY TrailTyped
<1>2. e.id \in Id
    BY DEF Entries
<1>. QED
    BY <1>1, <1>2 DEF Store!Next, Store!Add

LEMMA WriteRefines ==
    ASSUME MInv, MInv', NEW r \in Request, Write(r), ~ Fail(r)
    PROVE  Store!Next
<1>. DEFINE i == call[r].id
            base == local[r].base
            copy == local[r].copy
            e == Entry(r, i, Action(base, copy), Changes(base, copy))
            row == [c \in Columns |-> IF c \in Differing(base, copy) THEN copy[c]
                                      ELSE rows[i][c]]
<1>1. /\ i \in Id
      /\ base \in RowType /\ copy \in RowType /\ rows[i] \in RowType
      /\ e \in Entries /\ row \in RowType
      /\ rows' = [rows EXCEPT ![i] = row] /\ trail' = Append(trail, e)
    <2>. HIDE DEF e, row, i, base, copy
    <2>1. /\ i = call[r].id /\ base = local[r].base /\ copy = local[r].copy
          /\ e = Entry(r, i, Action(base, copy), Changes(base, copy))
          /\ row = [c \in Columns |-> IF c \in Differing(base, copy) THEN copy[c]
                                      ELSE rows[i][c]]
        BY DEF e, row, i, base, copy
    <2>. QED
        BY <2>1, WriteEffect
<1>2. e.id = i
    BY DEF Entry
<1>3. \A c \in Told : row[c] = IF Store!Tells(e, c) THEN Store!Told(e, c) ELSE rows[i][c]
    <2>1. Told \subseteq Columns
        BY DEF Told, Columns
    <2>2. \A c \in Told :
              /\ Store!Tells(e, c) => c \in Differing(base, copy) /\ Store!Told(e, c) = copy[c]
              /\ ~ Store!Tells(e, c) => c \notin Differing(base, copy)
        BY <1>1, WriteTells
    <2>. QED
        BY <2>1, <2>2
<1>. HIDE DEF e, row, i
<1>4. Exists(i) /\ rows'[i] # Absent
    BY <1>1, ConstantAssumption DEF MInv, TypeOK, Exists
<1>5. Stored[i] # Absent /\ \A c \in Told : Stored[i][c] = rows[i][c]
    BY <1>1, <1>4, StoredTyped DEF MInv, Exists
<1>6. Stored' = [Stored EXCEPT ![i] = Store!Apply(e, Stored[i])]
    <2>1. rows'[i] = row /\ \A j \in Id \ {i} : rows'[j] = rows[j]
        BY <1>1 DEF MInv, TypeOK
    <2>2. Stored'[i] = Store!Apply(e, Stored[i])
        <3>1. Stored'[i] = [code |-> row.code, info |-> row.info, deleted |-> row.deleted]
            BY <1>1, <1>4, <2>1 DEF Stored, Exists
        <3>2. Store!Apply(e, Stored[i]) = [c \in Told |-> row[c]]
            BY <1>3, <1>5 DEF Store!Apply
        <3>3. [c \in Told |-> row[c]]
                = [code |-> row.code, info |-> row.info, deleted |-> row.deleted]
            BY DEF Told
        <3>. QED
            BY <3>1, <3>2, <3>3
    <2>3. \A j \in Id \ {i} : Stored'[j] = Stored[j]
        BY <2>1 DEF Stored, Exists
    <2>. QED
        BY <1>1, <2>2, <2>3 DEF Stored
<1>7. Store!Apply(e, Stored[i]) \in StoreRow
    <2>1. [c \in Told |-> row[c]] \in StoreRow
        BY <1>1 DEF RowType, StoreRow, Told
    <2>2. Store!Apply(e, Stored[i]) = [c \in Told |-> row[c]]
        BY <1>3, <1>5 DEF Store!Apply
    <2>. QED
        BY <2>1, <2>2
<1>8. Store!Change(e)
    BY <1>2, <1>5, <1>6, <1>7 DEF Store!Change
<1>. QED
    BY <1>1, <1>8, AddIsNext DEF MInv

LEMMA InsertRefines ==
    ASSUME MInv, MInv', NEW r \in Request, Insert(r), ~ Fail(r)
    PROVE  Store!Next
<1>. DEFINE row == [code |-> call[r].code, info |-> call[r].info,
                    deleted |-> FALSE, deletedAt |-> Absent]
            e == Entry(r, r, "create", Nothing)
<1>1. pc[r] = "inserting" /\ rows' = [rows EXCEPT ![r] = row] /\ trail' = Append(trail, e)
    BY DEF Insert, Goto
<1>2. call[r] \in Call /\ call[r].op = "create" /\ rows[r] = Absent /\ r \in Id
    BY <1>1 DEF MInv, Relies, Id
<1>3. row \in RowType
    BY <1>2, ConstantAssumption DEF Calls, RowType
<1>4. e \in Entries /\ e.id = r
    BY <1>2, NothingTyped DEF Entries, Entry
<1>5. \A c \in Told : ~ Store!Tells(e, c)
    BY NothingTyped DEF Store!Tells, Entry, Told, Columns
<1>. HIDE DEF row, e
<1>6. rows'[r] = row /\ Exists(r)'
    BY <1>1, <1>2, <1>3, ConstantAssumption DEF MInv, TypeOK, Exists
<1>7. Stored'[r] \in StoreRow /\ Stored[r] = Absent
    BY <1>2, <1>3, <1>6, ConstantAssumption, StoredTyped DEF Stored, StoreRow, RowType, MInv
<1>8. \A j \in Id \ {r} : Stored'[j] = Stored[j]
    BY <1>1 DEF MInv, TypeOK, Stored, Exists
<1>9. Stored' = [Stored EXCEPT ![r] = Stored'[r]]
    BY <1>2, <1>8 DEF Stored
<1>10. Store!Create(e)
    BY <1>4, <1>5, <1>7, <1>9 DEF Store!Create
<1>. QED
    BY <1>1, <1>4, <1>10, AddIsNext DEF MInv

LEMMA LogRefines ==
    ASSUME MInv, NEW r \in Request, Log(r)
    PROVE  Store!Next
<1>. DEFINE i == Target(r)
            e == Entry(r, i, "log", Nothing)
<1>1. pc[r] = "logging" /\ trail' = Append(trail, e) /\ rows' = rows
    BY DEF Log, Target
<1>2. call[r] \in Call /\ Exists(i)
    BY <1>1 DEF MInv, Relies
<1>3. i \in Id
    BY <1>2, ConstantAssumption DEF Target, Calls, Id
<1>4. e \in Entries /\ e.id = i
    BY <1>3, NothingTyped DEF Entries, Entry
<1>5. \A c \in Told : ~ Store!Tells(e, c)
    BY NothingTyped DEF Store!Tells, Entry, Told, Columns
<1>. HIDE DEF i, e
<1>6. Stored' = Stored /\ Stored \in [Id -> StoreRow \cup {Absent}] /\ Stored[i] # Absent
    BY <1>1, <1>2, <1>3, StoredTyped DEF MInv, Stored, Exists
<1>7. Store!Apply(e, Stored[i]) = Stored[i]
    <2>1. Stored[i] \in StoreRow
        BY <1>3, <1>6
    <2>2. Store!Apply(e, Stored[i]) = [c \in Told |-> Stored[i][c]]
        BY <1>5 DEF Store!Apply
    <2>3. \A row \in StoreRow : [c \in Told |-> row[c]] = row
        BY DEF StoreRow, Told
    <2>. QED
        BY <2>1, <2>2, <2>3
<1>8. Store!Change(e)
    BY <1>3, <1>4, <1>6, <1>7 DEF Store!Change
<1>. QED
    BY <1>1, <1>4, <1>8, AddIsNext DEF MInv

LEMMA NextRefines ==
    ASSUME MInv, MInv', [Next]_vars
    PROVE  [Store!Next]_(Store!vars)
<1>1. ASSUME NEW r \in Request, Write(r) \/ Insert(r), ~ Fail(r) PROVE Store!Next
    BY <1>1, WriteRefines, InsertRefines
<1>2. ASSUME NEW r \in Request, Log(r) PROVE Store!Next
    BY <1>2, LogRefines
<1>3. ASSUME UNCHANGED <<rows, trail>> PROVE UNCHANGED Store!vars
    BY <1>3 DEF Store!vars, Stored, Exists
<1>4. ASSUME NEW r \in Request, Fail(r) PROVE UNCHANGED Store!vars
    BY <1>3, <1>4 DEF Fail
<1>5. ASSUME NEW r \in Request, Find(r) \/ Check(r) \/ Load(r) \/ Reread(r) \/ Abort(r)
      PROVE  UNCHANGED Store!vars
    BY <1>3, <1>5 DEF Find, Check, Load, Reread, Abort, Fail
<1>6. ASSUME NEW r \in Request, NEW c \in Call, Arrive(r, c) PROVE UNCHANGED Store!vars
    BY <1>3, <1>6 DEF Arrive
<1>7. CASE UNCHANGED vars
    BY <1>3, <1>7 DEF vars
<1>. QED
    BY <1>1, <1>2, <1>4, <1>5, <1>6, <1>7 DEF Next, Step

\* However requests interleave, fail and stop, every change of a row comes with an
\* entry that tells it.
THEOREM AuditedStoreImplemented == Spec => ImplementsAuditedStore
<1>1. Init => Store!Init
    BY InitMInv, StoredTyped DEF Store!Init, MInv, Init
<1>2. MInv /\ MInv' /\ [Next]_vars => [Store!Next]_(Store!vars)
    BY NextRefines
<1>. QED
    BY <1>1, <1>2, Invariance, PTL DEF Spec, Store!Spec, ImplementsAuditedStore

----------------------------------------------------------------------------
\* The trail tells the rows

\* Whatever implements AuditedStore keeps the value last told of a column.
LEMMA NextKeepsTold ==
    ASSUME TypeOK, TypeOK', Store!TrailTellsRows, Store!Next
    PROVE  Store!TrailTellsRows'
<1>. DEFINE e == trail'[Len(trail')]
            k == Len(trail) + 1
<1>1. /\ trail' = Append(trail, e) /\ e.id \in Id
      /\ Store!Create(e) \/ Store!Change(e)
    BY DEF Store!Next, Store!Add
<1>2. /\ Len(trail) \in Nat /\ DOMAIN trail = 1 .. Len(trail) /\ DOMAIN trail' = 1 .. k
      /\ \A n \in DOMAIN trail : trail'[n] = trail[n] /\ trail[n] \in Entries
    BY <1>1, TrailTyped
<1>3. trail'[k] = e
    BY <1>1, <1>2, TrailTyped
<1>4. Stored \in [Id -> StoreRow \cup {Absent}] /\ Stored' \in [Id -> StoreRow \cup {Absent}]
    <2>1. \A row \in RowType :
              [code |-> row.code, info |-> row.info, deleted |-> row.deleted] \in StoreRow
        BY DEF RowType, StoreRow
    <2>. QED
        BY <2>1, StoredTyped DEF Stored, Exists, TypeOK
<1>. HIDE DEF e
<1>5. \A j \in Id : j # e.id => Stored'[j] = Stored[j]
    BY <1>1, <1>4 DEF Store!Create, Store!Change
<1>6. ASSUME NEW n \in DOMAIN trail', NEW c \in Told, Store!LastToTell(n, c)'
      PROVE  Stored'[trail'[n].id] # Absent
             /\ Stored'[trail'[n].id][c] = Store!Told(trail'[n], c)
    <2>1. /\ Store!Tells(trail'[n], c)
          /\ \A m \in DOMAIN trail' : m > n /\ trail'[m].id = trail'[n].id =>
                ~ Store!Tells(trail'[m], c)
        BY <1>6 DEF Store!LastToTell, Store!Tells
    <2>2. CASE n = k
        <3>1. Store!Change(e)
            BY <1>1, <1>3, <2>1, <2>2 DEF Store!Create
        <3>2. Stored[e.id] # Absent /\ Stored'[e.id] = Store!Apply(e, Stored[e.id])
            BY <1>1, <1>4, <3>1 DEF Store!Change
        <3>3. Stored'[e.id][c] = Store!Told(e, c)
            BY <1>3, <2>1, <2>2, <3>2 DEF Store!Apply
        <3>4. Stored'[e.id] # Absent
            BY <3>1, <3>2, ConstantAssumption DEF Store!Change
        <3>. QED
            BY <1>3, <2>2, <3>3, <3>4
    <2>3. CASE n \in DOMAIN trail
        <3>1. trail'[n] = trail[n] /\ trail[n].id \in Id
            BY <1>2, <2>3 DEF Entries
        <3>2. Store!LastToTell(n, c)
            BY <1>2, <2>1, <2>3 DEF Store!LastToTell
        <3>3. Stored[trail[n].id] # Absent /\ Stored[trail[n].id][c] = Store!Told(trail[n], c)
            BY <2>3, <3>2 DEF Store!TrailTellsRows
        <3>4. CASE e.id # trail[n].id
            BY <1>5, <3>1, <3>3, <3>4
        <3>5. CASE e.id = trail[n].id
            <4>1. ~ Store!Tells(e, c)
                BY <1>2, <1>3, <2>1, <2>3, <3>1, <3>5
            <4>2. Stored' = [Stored EXCEPT ![e.id] = Store!Apply(e, Stored[e.id])]
                BY <1>1, <3>3, <3>5 DEF Store!Create, Store!Change
            <4>3. Stored'[e.id] = Store!Apply(e, Stored[e.id])
                BY <1>1, <1>4, <4>2
            <4>4. Stored'[e.id][c] = Stored[e.id][c]
                BY <4>1, <4>3 DEF Store!Apply
            <4>5. Stored'[e.id] # Absent
                BY <1>1, <3>3, <3>5, <4>3, ConstantAssumption DEF Store!Create, Store!Change
            <4>. QED
                BY <3>1, <3>3, <3>5, <4>4, <4>5
        <3>. QED
            BY <3>4, <3>5
    <2>. QED
        BY <1>2, <2>2, <2>3
<1>. QED
    BY <1>6 DEF Store!TrailTellsRows, Store!Told

LEMMA NextTrailTellsRows ==
    ASSUME MInv, MInv', [Next]_vars, TrailTellsRows
    PROVE  TrailTellsRows'
<1>1. CASE Store!Next
    BY <1>1, NextKeepsTold DEF MInv, TrailTellsRows
<1>2. CASE UNCHANGED Store!vars
    BY <1>2 DEF Store!vars, TrailTellsRows, Store!TrailTellsRows, Store!LastToTell
<1>. QED
    BY <1>1, <1>2, NextRefines

\* The value the trail told last of a column is the one stored, whatever stale copies
\* are saved in between.
THEOREM TrailIsTrue == Spec => []TrailTellsRows
<1>1. Init => TrailTellsRows
    <2>1. Init => DOMAIN trail = {}
        BY DEF Init
    <2>. QED
        BY <2>1 DEF TrailTellsRows, Store!TrailTellsRows
<1>2. MInv /\ MInv' /\ TrailTellsRows /\ [Next]_vars => TrailTellsRows'
    BY NextTrailTellsRows
<1>. QED
    BY <1>1, <1>2, Invariance, PTL DEF Spec
=============================================================================
