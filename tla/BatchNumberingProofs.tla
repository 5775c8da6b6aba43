------------------------ MODULE BatchNumberingProofs ------------------------
(***************************************************************************)
(* For every set of requests, batches and numbers: the types of the state, *)
(* that numbers given by the service grow, and that a number it computes   *)
(* can only be lost to a batch newer than its scan.                        *)
(***************************************************************************)
EXTENDS BatchNumbering, TLAPS

\* A request that writes a row back has read one, one that inserts has a number.
InHand(r) ==
    /\ pc[r] \in {"inserting", "committing"} => local[r].number \in Number
    /\ pc[r] \in {"checking", "saving", "writing"} => local[r].copy \in Row
    /\ pc[r] = "writing" => local[r].base \in Row
    /\ pc[r] \in {"checking", "saving", "writing"} => rows[call[r].batch] # Absent
    /\ pc[r] = "checking" => call[r].op = "renumber"
    /\ pc[r] = "looking" => call[r].number \in Chosen
    /\ pc[r] \in {"finding", "checking", "saving", "writing"} =>
          /\ call[r].op \in {"renumber", "remove"}
          /\ call[r].batch \in Id
          /\ call[r].op = "renumber" => call[r].number \in Chosen
    /\ pc[r] # "idle" => call[r] \in Calls

TInv == TypeOK /\ \A r \in Request : InHand(r)

LEMMA CallFields ==
    ASSUME NEW c \in Calls
    PROVE  \/ c.op = "create" /\ c.number \in Chosen \cup {Absent}
           \/ c.op = "renumber" /\ c.batch \in Id /\ c.number \in Chosen
           \/ c.op = "remove" /\ c.batch \in Id
BY DEF Calls

LEMMA LocalEdits ==
    ASSUME NEW x \in Locals
    PROVE  /\ \A v \in Row : [x EXCEPT !.copy = v] \in Locals
           /\ \A v \in Row : [x EXCEPT !.base = v] \in Locals
           /\ \A v \in SUBSET Id : [x EXCEPT !.seen = v] \in Locals
           /\ \A v \in SUBSET Id : [x EXCEPT !.held = v] \in Locals
           /\ \A v \in Number : [x EXCEPT !.number = v] \in Locals
           /\ \A v \in [Id -> Row \cup {Absent}] : [x EXCEPT !.past = v] \in Locals
BY DEF Locals

LEMMA InitTypes == Init => TInv
<1> SUFFICES ASSUME Init PROVE TInv
  OBVIOUS
<1>1. rows \in [Id -> Row \cup {Absent}]
  BY ConstantAssumption DEF Init, Row
<1>2. Forgotten \in Locals
  BY DEF Forgotten, Locals
<1>3. TypeOK
  BY <1>1, <1>2 DEF Init, TypeOK, Labels
<1> QED
  BY <1>3 DEF Init, TInv, InHand

\* One request moves, writes its memory and perhaps its row.
LEMMA MoveKeepsTypes ==
    ASSUME TInv, NEW r \in Request, NEW label \in Labels, NEW mem \in Locals,
           pc' = [pc EXCEPT ![r] = label],
           local' = [local EXCEPT ![r] = mem],
           rows' \in [Id -> Row \cup {Absent}],
           \A b \in Id : rows[b] # Absent => rows'[b] # Absent,
           call' \in [Request -> Calls \cup {Absent}],
           \A q \in Request \ {r} : call'[q] = call[q],
           InHand(r)'
    PROVE  TInv'
<1>1. TypeOK'
  BY DEF TInv, TypeOK
<1>2. \A q \in Request \ {r} : InHand(q)'
  BY DEF TInv, TypeOK, InHand
<1> QED
  BY <1>1, <1>2 DEF TInv

\* In particular to its end.
LEMMA EndKeepsTypes ==
    ASSUME TInv, NEW r \in Request, NEW outcome \in {"done", "failed"},
           pc[r] # "idle", End(r, outcome), call' = call,
           rows' \in [Id -> Row \cup {Absent}],
           \A b \in Id : rows[b] # Absent => rows'[b] # Absent
    PROVE  TInv'
<1> DEFINE mem == [local[r] EXCEPT !.held = {}]
<1>1. mem \in Locals
  BY LocalEdits DEF TInv, TypeOK
<1>2. pc' = [pc EXCEPT ![r] = outcome] /\ local' = [local EXCEPT ![r] = mem]
  BY DEF End, Goto
<1>3. outcome \in Labels
  BY DEF Labels
<1>4. InHand(r)'
  BY <1>2 DEF TInv, TypeOK, InHand
<1>5. call \in [Request -> Calls \cup {Absent}]
  BY DEF TInv, TypeOK
<1> HIDE DEF mem
<1> QED
  BY <1>1, <1>2, <1>3, <1>4, <1>5, MoveKeepsTypes

LEMMA StepTypes ==
    ASSUME TInv, NEW r \in Request, Step(r) \/ Abort(r)
    PROVE  TInv'
<1>1. /\ rows \in [Id -> Row \cup {Absent}]
      /\ call \in [Request -> Calls \cup {Absent}]
      /\ pc[r] \in Labels /\ local[r] \in Locals /\ InHand(r)
      /\ local = [local EXCEPT ![r] = local[r]] /\ pc = [pc EXCEPT ![r] = pc[r]]
  BY DEF TInv, TypeOK
<1>2. CASE Scan(r)
  <2>1. [local[r] EXCEPT !.seen = Committed] \in Locals
    BY <1>1, LocalEdits DEF Committed
  <2>2. InHand(r)'
    BY <1>1, <1>2 DEF Scan, Goto, InHand, TInv, TypeOK
  <2> QED
    BY <1>1, <1>2, <2>1, <2>2, MoveKeepsTypes DEF Scan, Goto, Labels
<1>3. ASSUME NEW b \in Id, LockRow(r, b) PROVE TInv'
  <2> DEFINE mem == [local[r] EXCEPT !.held = local[r].held \cup {b}]
  <2>1. local[r].held \cup {b} \in SUBSET Id
    BY <1>1 DEF Locals
  <2>2. mem \in Locals
    BY <1>1, <2>1, LocalEdits
  <2>3. InHand(r)'
    BY <1>1, <1>3 DEF LockRow, InHand
  <2>4. local' = [local EXCEPT ![r] = mem]
    BY <1>3 DEF LockRow
  <2> HIDE DEF mem
  <2> QED
    BY <1>1, <1>3, <2>2, <2>3, <2>4, MoveKeepsTypes DEF LockRow
<1>4. CASE TakeNext(r)
  <2>1. PICK max \in Nat : local' = [local EXCEPT ![r].number = max + 1]
    BY <1>4, ConstantAssumption DEF TakeNext, Numbers
  <2>2. max + 1 \in Number
    BY DEF Number
  <2> DEFINE mem == [local[r] EXCEPT !.number = max + 1]
  <2>3. mem \in Locals /\ mem.number = max + 1
    BY <1>1, <2>2, LocalEdits DEF Locals
  <2>4. pc' = [pc EXCEPT ![r] = "inserting"] /\ local' = [local EXCEPT ![r] = mem]
        /\ call' = call /\ rows' = rows /\ pc[r] # "idle"
    BY <1>4, <2>1 DEF TakeNext, Goto
  <2> HIDE DEF mem
  <2>5. InHand(r)'
    BY <1>1, <2>2, <2>3, <2>4 DEF InHand, TInv, TypeOK
  <2> QED
    BY <1>1, <2>3, <2>4, <2>5, MoveKeepsTypes DEF Labels
<1>5. CASE LookUp(r)
  <2>1. call[r].number \in Number /\ pc[r] # "idle" /\ call' = call /\ rows' = rows
    BY <1>1, <1>5, ConstantAssumption DEF LookUp, InHand
  <2>2. CASE End(r, "failed")
    BY <1>1, <2>1, <2>2, EndKeepsTypes
  <2>3. CASE /\ local' = [local EXCEPT ![r].number = call[r].number]
             /\ Goto(r, "inserting")
    <3> DEFINE mem == [local[r] EXCEPT !.number = call[r].number]
    <3>1. mem \in Locals /\ mem.number = call[r].number
      BY <1>1, <2>1, LocalEdits DEF Locals
    <3>2. pc' = [pc EXCEPT ![r] = "inserting"] /\ local' = [local EXCEPT ![r] = mem]
      BY <2>3 DEF Goto
    <3> HIDE DEF mem
    <3>3. InHand(r)'
      BY <1>1, <2>1, <3>1, <3>2 DEF InHand, TInv, TypeOK
    <3> QED
      BY <1>1, <2>1, <3>1, <3>2, <3>3, MoveKeepsTypes DEF Labels
  <2> QED
    BY <1>5, <2>2, <2>3 DEF LookUp
<1>6. CASE Insert(r)
  <2>1. pc[r] = "inserting" /\ call' = call /\ rows' = rows
    BY <1>6 DEF Insert
  <2>2. CASE End(r, "failed")
    BY <1>1, <2>1, <2>2, EndKeepsTypes
  <2>3. CASE Goto(r, "committing") /\ UNCHANGED local
    <3>1. InHand(r)'
      BY <1>1, <2>1, <2>3 DEF Goto, InHand, TInv, TypeOK
    <3> QED
      BY <1>1, <2>1, <2>3, <3>1, MoveKeepsTypes DEF Goto, Labels
  <2> QED
    BY <1>6, <2>2, <2>3 DEF Insert
<1>7. CASE Commit(r)
  <2>1. [number |-> local[r].number, isDeleted |-> FALSE] \in Row
    BY <1>1, <1>7 DEF Commit, Row, InHand
  <2>2. /\ rows' \in [Id -> Row \cup {Absent}]
        /\ \A b \in Id : rows[b] # Absent => rows'[b] # Absent
    BY <1>1, <1>7, <2>1, ConstantAssumption DEF Commit
  <2> QED
    BY <1>7, <2>2, EndKeepsTypes DEF Commit
<1>8. CASE Find(r) \/ Check(r) \/ Compare(r)
  <2>1. /\ pc[r] \in {"finding", "checking", "saving"} /\ call' = call /\ rows' = rows
        /\ call[r].batch \in Id /\ call[r].op \in {"renumber", "remove"}
        /\ call[r].op = "renumber" => call[r].number \in Number
    BY <1>1, <1>8, ConstantAssumption DEF Find, Check, Compare, InHand
  <2>2. CASE End(r, "failed")
    BY <1>1, <2>1, <2>2, EndKeepsTypes
  <2>3. ASSUME NEW mem \in Locals, NEW label \in {"checking", "saving", "writing"},
               mem.copy \in Row, label = "writing" => mem.base \in Row,
               rows[call[r].batch] # Absent,
               label = "checking" => call[r].op = "renumber",
               local' = [local EXCEPT ![r] = mem], Goto(r, label)
        PROVE  TInv'
    <3>1. InHand(r)'
      BY <1>1, <2>1, <2>3 DEF Goto, InHand, TInv, TypeOK
    <3> QED
      BY <1>1, <2>1, <2>3, <3>1, MoveKeepsTypes DEF Goto, Labels
  <2>4. ASSUME NEW row \in Row, NEW label \in {"checking", "saving"},
               rows[call[r].batch] # Absent,
               label = "checking" => call[r].op = "renumber",
               local' = [local EXCEPT ![r].copy = row], Goto(r, label)
        PROVE  TInv'
    <3> DEFINE mem == [local[r] EXCEPT !.copy = row]
    <3>1. mem \in Locals /\ mem.copy = row /\ local' = [local EXCEPT ![r] = mem]
      BY <1>1, <2>4, LocalEdits DEF Locals
    <3> HIDE DEF mem
    <3> QED
      BY <2>3, <2>4, <3>1
  <2>5. CASE Find(r)
    <3>1. \/ End(r, "failed")
          \/ /\ rows[call[r].batch] # Absent
             /\ \/ /\ local' = [local EXCEPT ![r].copy =
                                   [rows[call[r].batch] EXCEPT !.isDeleted = TRUE]]
                   /\ Goto(r, "saving")
                \/ /\ local' = [local EXCEPT ![r].copy = rows[call[r].batch]]
                   /\ Goto(r, "checking") /\ call[r].op = "renumber"
      BY <2>1, <2>5 DEF Find
    <3>2. rows[call[r].batch] # Absent
            => /\ rows[call[r].batch] \in Row
               /\ [rows[call[r].batch] EXCEPT !.isDeleted = TRUE] \in Row
      BY <1>1, <2>1 DEF Row
    <3> QED
      BY <2>2, <2>4, <3>1, <3>2
  <2>6. CASE Check(r)
    <3>1. \/ End(r, "failed")
          \/ /\ local' = [local EXCEPT ![r].copy =
                             [local[r].copy EXCEPT !.number = call[r].number]]
             /\ Goto(r, "saving")
      BY <2>6 DEF Check
    <3>2. CASE /\ local' = [local EXCEPT ![r].copy =
                               [local[r].copy EXCEPT !.number = call[r].number]]
               /\ Goto(r, "saving")
      <4>1. /\ local[r].copy \in Row /\ call[r].number \in Number
            /\ rows[call[r].batch] # Absent
        BY <1>1, <2>1, <2>6 DEF Check, InHand
      <4>2. [local[r].copy EXCEPT !.number = call[r].number] \in Row
        BY <4>1 DEF Row
      <4> QED
        BY <2>4, <3>2, <4>1, <4>2
    <3> QED
      BY <2>2, <3>1, <3>2
  <2>7. CASE Compare(r)
    <3> DEFINE row == rows[call[r].batch]
               mem == [local[r] EXCEPT !.base = row]
    <3>1. local[r].copy \in Row /\ row \in Row /\ rows[call[r].batch] # Absent
      BY <1>1, <2>1, <2>7 DEF Compare, InHand
    <3>2. mem \in Locals /\ mem.copy = local[r].copy /\ mem.base = row
      BY <1>1, <3>1, LocalEdits DEF Locals
    <3>3. local' = [local EXCEPT ![r] = mem] /\ Goto(r, "writing")
      BY <2>7 DEF Compare
    <3> HIDE DEF mem, row
    <3> QED
      BY <2>3, <3>1, <3>2, <3>3
  <2> QED
    BY <1>8, <2>5, <2>6, <2>7
<1>9. CASE Save(r)
  <2>1. pc[r] = "writing" /\ local[r].copy \in Row /\ local[r].base \in Row
        /\ call[r].batch \in Id /\ rows[call[r].batch] \in Row
    BY <1>1, <1>9 DEF Save, InHand
  <2>2. Saved(r) \in Row /\ Saved(r) # Absent
    BY <2>1, ConstantAssumption DEF Saved, Row
  <2>3. /\ rows' \in [Id -> Row \cup {Absent}] /\ call' = call /\ pc[r] # "idle"
        /\ \A b \in Id : rows[b] # Absent => rows'[b] # Absent
    BY <1>1, <1>9, <2>2 DEF Save
  <2> QED
    BY <1>9, <2>3, EndKeepsTypes DEF Save
<1>10. CASE BreakDeadlock(r) \/ Abort(r)
  <2>1. pc[r] # "idle"
    BY <1>10 DEF BreakDeadlock, Deadlocked, Abort, Active
  <2> QED
    BY <1>1, <1>10, <2>1, EndKeepsTypes DEF BreakDeadlock, Abort
<1> QED
  BY <1>2, <1>3, <1>4, <1>5, <1>6, <1>7, <1>8, <1>9, <1>10 DEF Step

LEMMA ArriveTypes ==
    ASSUME TInv, NEW r \in Request, NEW c \in Calls, Arrive(r, c)
    PROVE  TInv'
<1> DEFINE mem == [local[r] EXCEPT !.past = rows]
           label == CASE c.op # "create" -> "finding"
                      [] c.op = "create" /\ c.number = Absent -> "scanning"
                      [] OTHER -> "looking"
<1>1. mem \in Locals
  BY LocalEdits DEF TInv, TypeOK
<1>2. label \in {"finding", "scanning", "looking"}
      /\ (label = "finding" => c.op # "create")
      /\ (label = "looking" => c.op = "create" /\ c.number # Absent)
  OBVIOUS
<1>3. /\ pc' = [pc EXCEPT ![r] = label] /\ local' = [local EXCEPT ![r] = mem]
      /\ call' = [call EXCEPT ![r] = c] /\ rows' = rows
  BY DEF Arrive, Goto
<1> HIDE DEF mem, label
<1>4. InHand(r)'
  BY <1>2, <1>3, CallFields DEF InHand, TInv, TypeOK
<1>5. call' \in [Request -> Calls \cup {Absent}] /\ \A q \in Request \ {r} : call'[q] = call[q]
  BY <1>3 DEF TInv, TypeOK
<1>6. rows \in [Id -> Row \cup {Absent}] /\ label \in Labels
  BY <1>2 DEF TInv, TypeOK, Labels
<1> QED
  BY <1>1, <1>3, <1>4, <1>5, <1>6, MoveKeepsTypes

LEMMA NextTypes == TInv /\ [Next]_vars => TInv'
<1>1. TInv /\ UNCHANGED vars => TInv'
  BY DEF vars, TInv, TypeOK, InHand
<1> QED
  BY <1>1, ArriveTypes, StepTypes DEF Next

LEMMA TInvAlways == Spec => []TInv
BY InitTypes, NextTypes, PTL DEF Spec

\* The state keeps its types; a stored number is a number or a text, never void.
THEOREM TypeCorrect == Spec => []TypeOK
<1>1. TInv => TypeOK
  BY DEF TInv
<1> QED
  BY <1>1, TInvAlways, PTL

----------------------------------------------------------------------------
(* What a numbering transaction knows.  Batches never vanish, a scan finds   *)
(* all of them, and those it has locked keep the numbers it computed with.   *)

Scanned(r) == pc[r] \in {"locking", "inserting", "committing"} /\ Automatic(r)

Numbered(r) == pc[r] \in {"inserting", "committing"} /\ Automatic(r)

Knows(r) ==
    /\ local[r].seen \subseteq Committed
    /\ local[r].held \subseteq local[r].seen
    /\ pc[r] # "idle" => \A b \in Id : local[r].past[b] # Absent => b \in Committed
    /\ Scanned(r) => \A b \in Id : local[r].past[b] # Absent => b \in local[r].seen
    /\ pc[r] \in {"scanning", "locking"} => Automatic(r)
    /\ Numbered(r) => /\ local[r].held = local[r].seen
                      /\ local[r].number \in Nat
                      /\ \A b \in local[r].held :
                            rows[b].number \in Nat => rows[b].number < local[r].number

\* Rows of requests still at work are not there yet.
NInv == \A r \in Request : Knows(r) /\ (rows[r] # Absent => pc[r] = "done")

\* What the others do to the rows: none vanishes, none that is held changes.
LEMMA HeldRowsStay ==
    ASSUME TInv, NInv, NEW q \in Request, Step(q) \/ Abort(q)
    PROVE  /\ Committed \subseteq Committed'
           /\ \A r \in Request : \A b \in local[r].held : r # q => rows'[b] = rows[b]
           /\ call' = call
           /\ \A r \in Request \ {q} : pc'[r] = pc[r] /\ local'[r] = local[r]
<1>1. CASE Commit(q)
  <2>1. rows[q] = Absent
    BY <1>1 DEF Commit, NInv
  <2> DEFINE row == [number |-> local[q].number, isDeleted |-> FALSE]
  <2>4. row \in Row
    BY <1>1 DEF Commit, TInv, InHand, Row
  <2>2. rows' = [rows EXCEPT ![q] = row] /\ rows'[q] # Absent
    BY <1>1, <2>4, ConstantAssumption DEF Commit, TInv, TypeOK, Id
  <2> HIDE DEF row
  <2>3. \A r \in Request : q \notin local[r].held
    BY <2>1 DEF NInv, Knows, Committed
  <2> QED
    BY <1>1, <2>2, <2>3 DEF Commit, End, Goto, Committed, NInv, Knows, TInv, TypeOK
<1>2. CASE Save(q)
  <2>1. Saved(q) \in Row /\ Saved(q) # Absent
    <3>1. /\ local[q].copy \in Row /\ local[q].base \in Row
          /\ rows[call[q].batch] \in Row
      BY <1>2 DEF Save, TInv, InHand, TypeOK
    <3> QED
      BY <3>1, ConstantAssumption DEF Saved, Row
  <2>2. rows' = rows \/ rows' = [rows EXCEPT ![call[q].batch] = Saved(q)]
    BY <1>2 DEF Save
  <2>3. \A r \in Request \ {q} : call[q].batch \notin local[r].held
    BY <1>2 DEF Save, HeldByOther
  <2>4. \A b \in Id : rows[b] # Absent => rows'[b] # Absent
    BY <2>1, <2>2 DEF TInv, TypeOK
  <2>5. \A r \in Request : local[r].held \subseteq Id
    BY DEF TInv, TypeOK, Locals
  <2>6. \A r \in Request : \A b \in local[r].held : r # q => rows'[b] = rows[b]
    BY <2>2, <2>3, <2>5 DEF TInv, TypeOK
  <2>7. call' = call /\ \A r \in Request \ {q} : pc'[r] = pc[r] /\ local'[r] = local[r]
    BY <1>2 DEF Save, End, Goto, TInv, TypeOK
  <2> QED
    BY <2>4, <2>6, <2>7 DEF Committed
<1>3. CASE Scan(q) \/ (\E b \in Id : LockRow(q, b)) \/ TakeNext(q) \/ LookUp(q) \/ Insert(q)
           \/ Find(q) \/ Check(q) \/ Compare(q) \/ BreakDeadlock(q) \/ Abort(q)
  <2>1. rows' = rows /\ call' = call
    BY <1>3 DEF Scan, LockRow, TakeNext, LookUp, Insert, Find, Check, Compare, BreakDeadlock, Abort
  <2>2. \A r \in Request \ {q} : pc'[r] = pc[r] /\ local'[r] = local[r]
    BY <1>3 DEF Scan, LockRow, TakeNext, LookUp, Insert, Find, Check, Compare, BreakDeadlock, Abort,
       End, Goto, TInv, TypeOK
  <2> QED
    BY <2>1, <2>2 DEF Committed
<1> QED
  BY <1>1, <1>2, <1>3 DEF Step

\* A request keeps its knowledge when others step ...
LEMMA OthersKeep ==
    ASSUME TInv, NInv, NEW q \in Request, Step(q) \/ Abort(q), NEW r \in Request \ {q}
    PROVE  Knows(r)' /\ (rows'[r] # Absent => pc'[r] = "done")
<1>1. pc'[r] = pc[r] /\ local'[r] = local[r] /\ call' = call /\ Committed \subseteq Committed'
      /\ \A b \in local[r].held : rows'[b] = rows[b]
  BY HeldRowsStay
<1>2. Knows(r)'
  BY <1>1 DEF NInv, Knows, Scanned, Numbered, Automatic
<1>3. rows'[r] # Absent => rows[r] # Absent
  <2>1. CASE Commit(q)
    BY <2>1 DEF Commit, TInv, TypeOK, Id
  <2>2. CASE Save(q)
    <3>1. rows[call[q].batch] # Absent
      BY <2>2 DEF Save, TInv, InHand
    <3>2. rows' = rows \/ rows' = [rows EXCEPT ![call[q].batch] = Saved(q)]
      BY <2>2 DEF Save
    <3> QED
      BY <3>1, <3>2 DEF TInv, TypeOK, Id
  <2>3. CASE ~ Commit(q) /\ ~ Save(q)
    BY <2>3 DEF Step, Abort, Scan, LockRow, TakeNext, LookUp, Insert, Find, Check, Compare, BreakDeadlock
  <2> QED
    BY <2>1, <2>2, <2>3
<1> QED
  BY <1>1, <1>2, <1>3 DEF NInv

\* ... and when it steps itself.
LEMMA SelfKeeps ==
    ASSUME TInv, NInv, NEW r \in Request, Step(r) \/ Abort(r)
    PROVE  Knows(r)' /\ (rows'[r] # Absent => pc'[r] = "done")
<1>1. Knows(r) /\ (rows[r] # Absent => pc[r] = "done") /\ local[r] \in Locals /\ InHand(r)
  BY DEF NInv, TInv, TypeOK
<1>2. Committed \subseteq Committed' /\ call' = call
  BY HeldRowsStay
<1>3. ASSUME NEW outcome \in {"done", "failed"}, End(r, outcome), pc[r] # "idle",
             rows'[r] # Absent => outcome = "done"
      PROVE  Knows(r)' /\ (rows'[r] # Absent => pc'[r] = "done")
  <2>1. /\ pc'[r] = outcome /\ local'[r].seen = local[r].seen /\ local'[r].held = {}
        /\ local'[r].past = local[r].past
    BY <1>1, <1>3 DEF End, Goto, TInv, TypeOK, Locals
  <2> QED
    BY <1>1, <1>2, <1>3, <2>1 DEF Knows, Scanned, Numbered
<1>4. CASE Scan(r)
  <2>1. /\ pc'[r] = "locking" /\ local'[r].seen = Committed /\ local'[r].held = local[r].held
        /\ local'[r].past = local[r].past /\ rows' = rows
    BY <1>1, <1>4 DEF Scan, Goto, TInv, TypeOK, Locals
  <2>2. pc[r] = "scanning"
    BY <1>4 DEF Scan
  <2>3. Committed' = Committed /\ Automatic(r)' = Automatic(r)
    BY <1>2, <2>1 DEF Committed, Automatic
  <2> QED
    BY <1>1, <2>1, <2>2, <2>3 DEF Knows, Scanned, Numbered
<1>5. ASSUME NEW b \in Id, LockRow(r, b)
      PROVE  Knows(r)' /\ (rows'[r] # Absent => pc'[r] = "done")
  <2>1. /\ pc'[r] = "locking" /\ pc[r] = "locking" /\ local'[r].seen = local[r].seen
        /\ local'[r].held = local[r].held \cup {b} /\ b \in local[r].seen
        /\ local'[r].past = local[r].past /\ rows' = rows
    BY <1>1, <1>5 DEF LockRow, TInv, TypeOK, Locals
  <2>2. Committed' = Committed /\ Automatic(r)' = Automatic(r)
    BY <1>2, <2>1 DEF Committed, Automatic
  <2> QED
    BY <1>1, <2>1, <2>2 DEF Knows, Scanned, Numbered
<1>6. CASE TakeNext(r)
  <2>1. PICK max \in {Base} \cup Numbers(local[r].held) :
          /\ \A m \in {Base} \cup Numbers(local[r].held) : m <= max
          /\ local' = [local EXCEPT ![r].number = max + 1]
    BY <1>6 DEF TakeNext
  <2>2. max \in Nat
    BY ConstantAssumption DEF Numbers
  <2>3. /\ pc'[r] = "inserting" /\ pc[r] = "locking" /\ local[r].held = local[r].seen
        /\ local'[r].seen = local[r].seen /\ local'[r].held = local[r].held
        /\ local'[r].past = local[r].past /\ local'[r].number = max + 1 /\ rows' = rows
    BY <1>1, <1>6, <2>1 DEF TakeNext, Goto, TInv, TypeOK, Locals
  <2>4. \A b \in local[r].held : rows[b].number \in Nat => rows[b].number <= max
    BY <2>1 DEF Numbers
  <2>5. \A b \in local[r].held : rows[b].number \in Nat => rows[b].number < max + 1
    BY <2>2, <2>4
  <2>6. Committed' = Committed /\ Automatic(r)' = Automatic(r)
    BY <1>2, <2>3 DEF Committed, Automatic
  <2> QED
    BY <1>1, <2>2, <2>3, <2>5, <2>6 DEF Knows, Scanned, Numbered
<1>7. CASE LookUp(r)
  <2>1. pc[r] = "looking" /\ rows' = rows
    BY <1>7 DEF LookUp
  <2>2. CASE End(r, "failed")
    BY <1>1, <1>3, <2>1, <2>2
  <2>3. CASE local' = [local EXCEPT ![r].number = call[r].number] /\ Goto(r, "inserting")
    <3>1. /\ pc'[r] = "inserting" /\ local'[r].seen = local[r].seen
          /\ local'[r].held = local[r].held /\ local'[r].past = local[r].past
      BY <1>1, <2>3 DEF Goto, TInv, TypeOK, Locals
    <3>2. ~ Automatic(r)'
      BY <1>1, <1>2, <2>1, ConstantAssumption DEF InHand, Automatic, Number
    <3>3. Committed' = Committed
      BY <2>1 DEF Committed
    <3> QED
      BY <1>1, <2>1, <3>1, <3>2, <3>3 DEF Knows, Scanned, Numbered
  <2> QED
    BY <1>7, <2>2, <2>3 DEF LookUp
<1>8. CASE Insert(r)
  <2>1. rows' = rows /\ pc[r] = "inserting"
    BY <1>8 DEF Insert
  <2>2. CASE End(r, "failed")
    BY <1>1, <1>3, <2>1, <2>2
  <2>3. CASE Goto(r, "committing") /\ UNCHANGED local
    <3>1. pc'[r] = "committing"
      BY <2>3 DEF Goto, TInv, TypeOK
    <3>2. Committed' = Committed /\ Automatic(r)' = Automatic(r)
      BY <1>2, <2>1 DEF Committed, Automatic
    <3> QED
      BY <1>1, <1>2, <2>1, <2>3, <3>1, <3>2 DEF Knows, Scanned, Numbered
  <2> QED
    BY <1>8, <2>2, <2>3 DEF Insert
<1>9. CASE Find(r) \/ Check(r) \/ Compare(r)
  <2>1. rows' = rows /\ pc[r] \in {"finding", "checking", "saving"}
    BY <1>9 DEF Find, Check, Compare
  <2>2. CASE End(r, "failed")
    BY <1>1, <1>3, <2>1, <2>2
  <2>3. CASE ~ End(r, "failed")
    <3>1. /\ pc'[r] \in {"checking", "saving", "writing"}
          /\ local'[r].seen = local[r].seen
          /\ local'[r].held = local[r].held /\ local'[r].past = local[r].past
      BY <1>1, <1>9, <2>3 DEF Find, Check, Compare, Goto, TInv, TypeOK, Locals
    <3>2. Committed' = Committed
      BY <2>1 DEF Committed
    <3> QED
      BY <1>1, <1>2, <2>1, <3>1, <3>2 DEF Knows, Scanned, Numbered
  <2> QED
    BY <2>2, <2>3
<1>10. CASE Commit(r)
  BY <1>3, <1>10 DEF Commit
<1>11. CASE Save(r)
  <2>1. rows[call[r].batch] # Absent /\ rows[r] = Absent /\ pc[r] = "writing"
    BY <1>1, <1>11 DEF Save, InHand
  <2>2. rows'[r] = Absent
    BY <1>11, <2>1 DEF Save, TInv, TypeOK, Id
  <2> QED
    BY <1>3, <1>11, <2>1, <2>2 DEF Save
<1>12. CASE BreakDeadlock(r) \/ Abort(r)
  <2>1. pc[r] # "done" /\ pc[r] # "idle" /\ rows' = rows /\ End(r, "failed")
    BY <1>12 DEF BreakDeadlock, Deadlocked, Abort, Active
  <2> QED
    BY <1>1, <1>3, <2>1
<1> QED
  BY <1>4, <1>5, <1>6, <1>7, <1>8, <1>9, <1>10, <1>11, <1>12 DEF Step

LEMMA ArriveKeeps ==
    ASSUME TInv, NInv, NEW q \in Request, NEW c \in Calls, Arrive(q, c)
    PROVE  NInv'
<1>1. rows' = rows /\ Committed' = Committed
  BY DEF Arrive, Committed
<1>2. ASSUME NEW r \in Request \ {q} PROVE Knows(r)' /\ (rows'[r] # Absent => pc'[r] = "done")
  <2>1. pc'[r] = pc[r] /\ local'[r] = local[r] /\ call'[r] = call[r]
    BY DEF Arrive, Goto, TInv, TypeOK
  <2> QED
    BY <1>1, <2>1 DEF NInv, Knows, Scanned, Numbered, Automatic
<1>3. Knows(q)' /\ (rows'[q] # Absent => pc'[q] = "done")
  <2>1. /\ local'[q].seen = local[q].seen /\ local'[q].held = local[q].held
        /\ local'[q].past = rows /\ call'[q] = c /\ pc[q] = "idle"
        /\ pc'[q] \in {"finding", "scanning", "looking"}
        /\ pc'[q] = "scanning" => c.op = "create" /\ c.number = Absent
    BY DEF Arrive, Goto, TInv, TypeOK, Locals
  <2> QED
    BY <1>1, <2>1 DEF NInv, Knows, Scanned, Numbered, Automatic, Committed
<1> QED
  BY <1>2, <1>3 DEF NInv

LEMMA NInvAlways == Spec => []NInv
<1>1. Init => NInv
  <2> SUFFICES ASSUME Init, NEW r \in Request
               PROVE  Knows(r) /\ (rows[r] # Absent => pc[r] = "done")
    BY DEF NInv
  <2>1. rows[r] = Absent
    BY DEF Init, Id
  <2> QED
    BY <2>1 DEF Init, Knows, Scanned, Numbered, Forgotten
<1>2. TInv /\ NInv /\ UNCHANGED vars => NInv'
  BY DEF vars, NInv, Knows, Scanned, Numbered, Automatic, Committed
<1>3. TInv /\ NInv /\ Next => NInv'
  BY ArriveKeeps, OthersKeep, SelfKeeps DEF Next, NInv
<1> QED
  BY <1>1, <1>2, <1>3, TInvAlways, PTL DEF Spec

\* For any number of concurrent requests, a number the service gives is greater
\* than that of every batch that was there at arrival and has kept its number.
THEOREM GivenNumbersGrow == Spec => NumbersGrow
<1> DEFINE Grows ==
      \A r \in Request :
          pc[r] = "committing" /\ pc'[r] = "done" /\ Automatic(r) =>
              \A b \in Id :
                  /\ local[r].past[b] # Absent
                  /\ local[r].past[b].number \in Nat
                  /\ rows[b] # Absent
                  /\ rows[b].number = local[r].past[b].number
                  => rows'[r].number > rows[b].number
<1>1. TInv /\ NInv /\ [Next]_vars => [Grows]_vars
  <2> SUFFICES ASSUME TInv, NInv, Next, NEW r \in Request,
                      pc[r] = "committing", pc'[r] = "done", Automatic(r), NEW b \in Id,
                      local[r].past[b] # Absent, rows[b].number \in Nat
               PROVE  rows'[r].number > rows[b].number
    OBVIOUS
  <2>1. rows[b].number < local[r].number /\ local[r].number \in Nat
    BY DEF NInv, Knows, Scanned, Numbered
  <2>2. Step(r) \/ Abort(r)
    BY HeldRowsStay DEF Next, Arrive, Goto, TInv, TypeOK
  <2>3. ~ Abort(r)
    BY DEF Abort, End, Goto, TInv, TypeOK
  <2>4. Commit(r)
    BY <2>2, <2>3
       DEF Step, Scan, LockRow, TakeNext, LookUp, Insert, Find, Check, Compare, Save,
       BreakDeadlock, Deadlocked
  <2>5. rows'[r].number = local[r].number
    BY <2>4 DEF Commit, TInv, TypeOK, Id
  <2> QED
    BY <2>1, <2>5
<1> QED
  BY <1>1, NInvAlways, TInvAlways, PTL DEF Spec, NumbersGrow

\* A computed number can be taken only by a batch the scan could not see.
THEOREM NumbersLostToNewerOnly == Spec => []LostOnlyToNewer
<1>1. TInv /\ NInv => LostOnlyToNewer
  BY DEF NInv, Knows, Numbered, LostOnlyToNewer
<1> QED
  BY <1>1, NInvAlways, TInvAlways, PTL

=============================================================================
