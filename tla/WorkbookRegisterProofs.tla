------------------------ MODULE WorkbookRegisterProofs ------------------------
(***************************************************************************)
(* Proofs about WorkbookRegister: its types, that the months of a program  *)
(* form a chain, that statements rest on exhibits, that a removed workbook *)
(* comes back only through a request that had read it before, and that     *)
(* requests served in turn leave one workbook per month and source and no  *)
(* posted statement without its workbook.                                  *)
(***************************************************************************)
EXTENDS WorkbookRegister, TLAPS

\* The labels a request passes through.
Path(op) ==
    CASE op = "upload" -> {"parsing", "validating", "finding", "clearing", "retiring",
                           "inserting", "filling", "reading", "done", "failed"}
      [] op = "manual" -> {"seeking", "saving", "inserting", "filling", "reading", "done",
                           "failed"}
      [] op = "delete" -> {"opening", "clearing", "loading", "retiring", "done", "failed"}
      [] op = "edit"   -> {"opening", "saving", "done", "failed"}
      [] op = "seed"   -> {"gathering", "discarding", "inserting", "filling", "done", "failed"}
      [] op = "clear"  -> {"gathering", "discarding", "done", "failed"}
      [] OTHER         -> {"opening", "generating", "approving", "saving", "looking",
                           "filing", "listing", "totalling", "done", "failed"}

\* Where a request has a workbook at hand, a statement its exhibits, an upload
\* months to store, and the month before found.
Holding == {"clearing", "retiring", "filling", "reading", "saving", "loading", "generating",
            "approving", "looking", "filing", "listing", "totalling"}

Stating == {"approving", "saving", "looking", "filing", "listing", "totalling"}

Checked == {"finding", "clearing", "retiring", "inserting"}

Storing == Checked \cup {"validating", "filling"}

\* A copy is of the month and the source of its workbook, whose row keeps both.
IsCopy(copy, b) ==
    copy \in Row /\ copy.month = books[b].month /\ copy.source = books[b].source

\* What a request holds at a label; gone: workbooks removed since it arrived.
Needs(op, label, mem, gone) ==
    /\ label \in Holding => mem.book \in Id /\ Exists(mem.book)
    /\ label \in {"saving", "retiring"} => IsCopy(mem.copy, mem.book)
    /\ op = "upload" /\ label = "clearing" => IsCopy(mem.copy, mem.book)
    /\ op = "upload" /\ label \in Storing => mem.todo # <<>>
    /\ op = "upload" /\ label \in Checked =>
          (NeedsEarlier(Head(mem.todo), mem.source) => EarlierRows(Head(mem.todo)) # {})
    /\ op = "post" /\ label \in Stating => mem.book \in filled
    /\ label = "discarding" =>
          \A b \in Id : mem.found[b] # Absent => Exists(b) /\ IsCopy(mem.found[b], b)
    /\ label = "saving" => (Removed(mem.book) /\ ~ mem.copy.deleted => mem.book \in gone)

Working(r) ==
    pc[r] # "idle" =>
        /\ call[r] \in Calls
        /\ pc[r] \in Path(call[r].op)
        /\ Needs(call[r].op, pc[r], local[r], missed[r])

\* Ids are given out in order.
Packed == \A b, c \in Id : Exists(b) /\ c < b => Exists(c)

\* Strengthening: what a request holds fits where it stands, and ids are packed.
RInv ==
    /\ TypeOK /\ \A r \in Request : Working(r)
    /\ Packed /\ MonthsFormChain /\ PostingsNeedExhibits

TablesOK ==
    /\ books \in [Id -> Row \cup {Absent}]
    /\ filled \in SUBSET Id
    /\ batch \in [Id -> Request \cup {Absent}]
    /\ missed \in [Request -> SUBSET Id]
    /\ Packed /\ MonthsFormChain /\ PostingsNeedExhibits

\* No statement deletes a workbook, moves it to another month or takes its
\* exhibits, and every request in flight misses those that are removed.
TablesGrow ==
    /\ \A b \in Id : Exists(b) => /\ Exists(b)'
                                  /\ books'[b].month = books[b].month
                                  /\ books'[b].source = books[b].source
    /\ filled \subseteq filled'
    /\ \A q \in Request : missed[q] \subseteq missed'[q]
    /\ \A q \in Request, b \in Id :
          InFlight(q) /\ ~ Removed(b) /\ Removed(b)' => b \in missed'[q]

----------------------------------------------------------------------------
(* Records *)

LEMMA CallFields ==
    ASSUME NEW c \in Calls
    PROVE  /\ c.op \in {"upload", "manual", "delete", "edit", "post", "seed", "clear"}
           /\ c.op = "upload" => c.file \in File /\ c.force \in BOOLEAN
           /\ c.op = "manual" => c.month \in Month
           /\ c.op \in {"delete", "edit", "post"} => c.book \in Id
           /\ c # Absent
BY ConstantAssumption DEF Calls

LEMMA RowFacts ==
    /\ Absent \notin Row /\ Absent \notin Request
    /\ \A row \in Row :
          /\ row.month \in Month /\ row.source \in Source /\ row.deleted \in BOOLEAN
          /\ [row EXCEPT !.deleted = TRUE] \in Row
          /\ [row EXCEPT !.status = "Approved"] \in Row
BY ConstantAssumption DEF Row

LEMMA LocalEdits ==
    ASSUME NEW x \in Locals
    PROVE  /\ \A b \in Id, c \in Row \cup {Absent} :
                 /\ [x EXCEPT !.book = b] \in Locals
                 /\ [x EXCEPT !.copy = c] \in Locals
                 /\ [x EXCEPT !.book = b, !.copy = c] \in Locals
           /\ \A t \in Seq(Month), s \in Source :
                 /\ [x EXCEPT !.todo = t] \in Locals
                 /\ [x EXCEPT !.todo = t, !.source = s] \in Locals
           /\ \A q \in Request \cup {Absent} : [x EXCEPT !.batch = q] \in Locals
           /\ \A f \in [Id -> Row \cup {Absent}] : [x EXCEPT !.found = f] \in Locals
<1> DEFINE Todos == Seq(Month)
           Copies == Row \cup {Absent}
           Books == Id \cup {Absent}
           Batches == Request \cup {Absent}
           Founds == [Id -> Row \cup {Absent}]
           Mems == [todo : Todos, source : Source, book : Books, copy : Copies,
                    batch : Batches, found : Founds]
<1>1. Locals = Mems
  BY DEF Locals
<1> HIDE DEF Todos, Copies, Books, Batches, Founds
<1>2. /\ \A b \in Books, c \in Copies : /\ [x EXCEPT !.book = b] \in Mems
                                         /\ [x EXCEPT !.copy = c] \in Mems
                                         /\ [x EXCEPT !.book = b, !.copy = c] \in Mems
      /\ \A t \in Todos, s \in Source : /\ [x EXCEPT !.todo = t] \in Mems
                                        /\ [x EXCEPT !.todo = t, !.source = s] \in Mems
      /\ \A q \in Batches : [x EXCEPT !.batch = q] \in Mems
      /\ \A f \in Founds : [x EXCEPT !.found = f] \in Mems
  BY <1>1
<1> HIDE DEF Mems
<1> QED
  BY <1>1, <1>2 DEF Todos, Copies, Books, Batches, Founds

LEMMA LocalFields ==
    ASSUME NEW x \in Locals
    PROVE  /\ x.todo \in Seq(Month) /\ x.source \in Source
           /\ x.book \in Id \cup {Absent} /\ x.copy \in Row \cup {Absent}
           /\ x.batch \in Request \cup {Absent}
           /\ x.found \in [Id -> Row \cup {Absent}]
BY DEF Locals

LEMMA Months ==
    /\ \A m \in Month : m \in Int /\ m >= 0
    /\ \A t \in Seq(Month) : t # <<>> => Head(t) \in Month /\ Tail(t) \in Seq(Month)
<1>1. \A m \in Month : m \in Int /\ m >= 0
  BY ConstantAssumption DEF Month
<1>2. \A S : \A t \in Seq(S) : t # <<>> => Head(t) \in S /\ Tail(t) \in Seq(S)
  OBVIOUS
<1> QED
  BY <1>1, <1>2

----------------------------------------------------------------------------
(* Writing *)

LEMMA NothingWritten ==
    ASSUME RInv, tables' = tables, missed' = missed
    PROVE  TablesOK' /\ TablesGrow
<1>1. books' = books /\ filled' = filled /\ batch' = batch
  BY DEF tables
<1> QED
  BY <1>1 DEF RInv, TypeOK, TablesOK, TablesGrow, Packed, MonthsFormChain,
     PostingsNeedExhibits, Exists, Removed

LEMMA RowSaved ==
    ASSUME RInv, NEW b \in Id, NEW row, Exists(b), IsCopy(row, b), Write(b, row),
           filled' = filled, batch' = batch
    PROVE  TablesOK' /\ TablesGrow
<1>1. /\ books' \in [Id -> Row \cup {Absent}]
      /\ \A c \in Id : books'[c] = IF c = b THEN row ELSE books[c]
      /\ row \in Row /\ row # Absent
  BY RowFacts DEF RInv, TypeOK, Write, IsCopy
<1>2. \A c \in Id : Exists(c)' <=> Exists(c)
  BY <1>1 DEF Exists
<1>3. \A c \in Id : Exists(c) => books'[c].month = books[c].month
                                /\ books'[c].source = books[c].source
  BY <1>1 DEF IsCopy
<1>4. /\ missed' \in [Request -> SUBSET Id]
      /\ \A q \in Request : missed[q] \subseteq missed'[q]
      /\ \A q \in Request : row.deleted /\ InFlight(q) => b \in missed'[q]
  BY DEF RInv, TypeOK, Write
<1>5. \A c \in Id : ~ Removed(c) /\ Removed(c)' => c = b /\ row.deleted
  BY <1>1 DEF Removed, Exists
<1>6. MonthsFormChain'
  BY <1>2, <1>3 DEF RInv, MonthsFormChain, NeedsEarlier
<1>7. Packed' /\ PostingsNeedExhibits'
  BY <1>2 DEF RInv, Packed, PostingsNeedExhibits
<1> QED
  BY <1>1, <1>2, <1>3, <1>4, <1>5, <1>6, <1>7 DEF RInv, TypeOK, TablesOK, TablesGrow

\* As when one row is saved, for all the copies at once.
LEMMA RowsDiscarded ==
    ASSUME RInv, NEW r \in Request, Discard(r),
           \A b \in Found(r) : Exists(b) /\ IsCopy(local[r].found[b], b)
    PROVE  TablesOK' /\ TablesGrow
<1> DEFINE row(b) == [local[r].found[b] EXCEPT !.deleted = TRUE]
<1>1. \A b \in Found(r) : b \in Id /\ IsCopy(row(b), b) /\ row(b) # Absent
  BY RowFacts DEF IsCopy, Row, Found
<1>2. /\ \A c \in Id : books'[c] = IF c \in Found(r) THEN row(c) ELSE books[c]
      /\ books' = [c \in Id |-> IF c \in Found(r) THEN row(c) ELSE books[c]]
      /\ filled' = filled /\ batch' = batch
  BY DEF Discard
<1> HIDE DEF row
<1>3. books' \in [Id -> Row \cup {Absent}]
  BY <1>1, <1>2 DEF IsCopy, RInv, TypeOK
<1>4. \A c \in Id : Exists(c)' <=> Exists(c)
  BY <1>1, <1>2 DEF Exists
<1>5. \A c \in Id : Exists(c) => books'[c].month = books[c].month
                                /\ books'[c].source = books[c].source
  BY <1>1, <1>2 DEF IsCopy
<1>6. /\ missed' \in [Request -> SUBSET Id]
      /\ \A q \in Request : missed[q] \subseteq missed'[q]
      /\ \A q \in Request : InFlight(q) => Found(r) \subseteq missed'[q]
  BY <1>1 DEF Discard, RInv, TypeOK
<1>7. \A c \in Id : ~ Removed(c) /\ Removed(c)' => c \in Found(r)
  BY <1>2 DEF Removed, Exists
<1>8. MonthsFormChain'
  BY <1>4, <1>5 DEF RInv, MonthsFormChain, NeedsEarlier
<1>9. Packed' /\ PostingsNeedExhibits'
  BY <1>2, <1>4 DEF RInv, Packed, PostingsNeedExhibits
<1> QED
  BY <1>2, <1>3, <1>4, <1>5, <1>6, <1>7, <1>8, <1>9 DEF RInv, TypeOK, TablesOK, TablesGrow

LEMMA RowInserted ==
    ASSUME RInv, NEW b \in Id, NEW row \in Row, ~ Exists(b), \A c \in Id : c < b => Exists(c),
           ~ row.deleted, NeedsEarlier(row.month, row.source) => EarlierRows(row.month) # {},
           Write(b, row), filled' = filled, batch' = batch
    PROVE  TablesOK' /\ TablesGrow /\ Exists(b)'
<1>1. /\ books' \in [Id -> Row \cup {Absent}]
      /\ \A c \in Id : books'[c] = IF c = b THEN row ELSE books[c]
      /\ row # Absent
  BY RowFacts DEF RInv, TypeOK, Write
<1>2. \A c \in Id : Exists(c)' <=> Exists(c) \/ c = b
  BY <1>1 DEF Exists
<1>3. missed' = missed
  BY DEF RInv, TypeOK, Write
<1>4. \A c \in Id : ~ Removed(c) => ~ Removed(c)'
  BY <1>1 DEF Removed, Exists
<1>5. \A c \in Id : Exists(c) => c < b
  BY ConstantAssumption DEF Id, RInv, Packed
<1>6. MonthsFormChain'
  <2> SUFFICES ASSUME NEW c \in Id, Exists(c)',
                      NeedsEarlier(books'[c].month, books'[c].source)
               PROVE  \E e \in Id : e < c /\ Exists(e)' /\ books'[e].month = books'[c].month - 1
    BY DEF MonthsFormChain, NeedsEarlier
  <2>1. CASE c = b
    <3>1. PICK e \in Id : Exists(e) /\ books[e].month = row.month - 1
      BY <1>1, <2>1 DEF EarlierRows
    <3> QED
      BY <1>1, <1>2, <1>5, <2>1, <3>1
  <2>2. CASE c # b
    <3>1. Exists(c) /\ books'[c] = books[c]
      BY <1>1, <1>2, <2>2
    <3>2. PICK e \in Id : e < c /\ Exists(e) /\ books[e].month = books[c].month - 1
      BY <3>1 DEF RInv, MonthsFormChain
    <3>3. e # b
      BY <3>2
    <3> QED
      BY <1>1, <1>2, <3>1, <3>2, <3>3
  <2> QED
    BY <2>1, <2>2
<1>7. Packed'
  BY <1>2, <1>5, ConstantAssumption DEF RInv, Packed, Id
<1>8. PostingsNeedExhibits'
  BY DEF RInv, PostingsNeedExhibits
<1> QED
  BY <1>1, <1>2, <1>3, <1>4, <1>6, <1>7, <1>8 DEF RInv, TypeOK, TablesOK, TablesGrow

LEMMA ExhibitsSaved ==
    ASSUME RInv, NEW b \in Id, filled' = filled \cup {b},
           books' = books, batch' = batch, missed' = missed
    PROVE  TablesOK' /\ TablesGrow
BY DEF RInv, TypeOK, TablesOK, TablesGrow, Packed, MonthsFormChain, PostingsNeedExhibits,
   Exists, Removed

LEMMA BatchSaved ==
    ASSUME RInv, NEW b \in Id, NEW x \in Request \cup {Absent}, x # Absent => b \in filled,
           batch' = [batch EXCEPT ![b] = x],
           books' = books, filled' = filled, missed' = missed
    PROVE  TablesOK' /\ TablesGrow
<1>1. PostingsNeedExhibits' /\ batch' \in [Id -> Request \cup {Absent}]
  BY DEF RInv, TypeOK, PostingsNeedExhibits
<1> QED
  BY <1>1 DEF RInv, TypeOK, TablesOK, TablesGrow, Packed, MonthsFormChain, Exists, Removed

----------------------------------------------------------------------------
(* Moving on *)

LEMMA AtWork ==
    ASSUME RInv, NEW r \in Request, pc[r] # "idle"
    PROVE  /\ call[r] \in Calls
           /\ pc[r] \in Path(call[r].op)
           /\ Needs(call[r].op, pc[r], local[r], missed[r])
           /\ local[r] \in Locals
           /\ missed[r] \in SUBSET Id
BY DEF RInv, TypeOK, Working

\* What a request holds stays good while others write.
LEMMA NeedsStay ==
    ASSUME RInv, TablesGrow, NEW q \in Request, NEW op, NEW label \in Labels, NEW mem \in Locals,
           label \in {"idle", "done", "failed"} \/ InFlight(q),
           Needs(op, label, mem, missed[q]), label # "idle"
    PROVE  Needs(op, label, mem, missed[q])'
<1>1. \A b \in Id : Exists(b) => Exists(b)'
  BY DEF TablesGrow
<1>2. \A copy : \A b \in Id : Exists(b) /\ IsCopy(copy, b) => IsCopy(copy, b)'
  BY DEF TablesGrow, IsCopy
<1>3. \A m : EarlierRows(m) # {} => EarlierRows(m)' # {}
  BY DEF TablesGrow, EarlierRows
<1>4. label \in {"saving", "retiring", "clearing"} => mem.book \in Id /\ Exists(mem.book)
  BY DEF Needs, Holding
<1>5. /\ label \in {"saving", "retiring"} => IsCopy(mem.copy, mem.book)'
      /\ op = "upload" /\ label = "clearing" => IsCopy(mem.copy, mem.book)'
  BY <1>2, <1>4 DEF Needs
<1>6. label = "saving" => (Removed(mem.book)' /\ ~ mem.copy.deleted => mem.book \in missed'[q])
  BY <1>4 DEF TablesGrow, Needs
<1>7. op = "post" /\ label \in Stating => mem.book \in filled'
  BY DEF TablesGrow, Needs
<1>8. op = "upload" /\ label \in Checked =>
         (NeedsEarlier(Head(mem.todo), mem.source) => EarlierRows(Head(mem.todo))' # {})
  BY <1>3 DEF Needs
<1>9. label \in Holding => mem.book \in Id /\ Exists(mem.book)'
  BY <1>1 DEF Needs
<1>10. op = "upload" /\ label \in Storing => mem.todo # <<>>
  BY DEF Needs
<1>11. label = "discarding" =>
          \A b \in Id : mem.found[b] # Absent => Exists(b)' /\ IsCopy(mem.found[b], b)'
  BY <1>1, <1>2 DEF Needs
<1> QED
  BY <1>5, <1>6, <1>7, <1>8, <1>9, <1>10, <1>11, Zenon DEF Needs, NeedsEarlier

\* A step of one request to a fitting label with fitting memory.
LEMMA MoveKeeps ==
    ASSUME RInv, NEW r \in Request, NEW label \in Labels, NEW mem \in Locals,
           pc[r] # "idle", label # "idle",
           pc' = [pc EXCEPT ![r] = label],
           local' = [local EXCEPT ![r] = mem],
           call' = call, overlap' = overlap,
           label \in Path(call[r].op), Needs(call[r].op, label, mem, missed[r])',
           TablesOK', TablesGrow
    PROVE  RInv'
<1>1. TypeOK'
  BY DEF RInv, TypeOK, TablesOK
<1>2. ASSUME NEW q \in Request PROVE Working(q)'
  <2>1. call'[q] = call[q] /\ (q # r => pc'[q] = pc[q] /\ local'[q] = local[q])
    BY DEF RInv, TypeOK
  <2>2. pc'[r] = label /\ local'[r] = mem
    BY DEF RInv, TypeOK
  <2>3. CASE q = r
    BY <2>1, <2>2, <2>3, AtWork DEF Working
  <2>4. CASE q # r
    <3>1. SUFFICES ASSUME pc[q] # "idle" PROVE Working(q)'
      BY <2>1, <2>4 DEF Working
    <3>2. pc[q] \in Labels /\ local[q] \in Locals
      BY DEF RInv, TypeOK
    <3>3. Needs(call[q].op, pc[q], local[q], missed[q])
      BY <3>1, AtWork
    <3>4. ASSUME NEW op, NEW lbl \in Labels, NEW m \in Locals, op = call[q].op, lbl = pc[q],
                 m = local[q]
          PROVE  Needs(op, lbl, m, missed[q])'
      BY <3>1, <3>3, <3>4, NeedsStay DEF InFlight
    <3> QED
      BY <2>1, <2>4, <3>1, <3>2, <3>4, AtWork DEF Working
  <2> QED
    BY <2>3, <2>4
<1> QED
  BY <1>1, <1>2 DEF RInv, TablesOK

\* What it holds was there before the step.
LEMMA StepKeeps ==
    ASSUME RInv, NEW r \in Request, NEW label \in Labels, NEW mem \in Locals,
           InFlight(r), label # "idle", Goto(r, label), local' = [local EXCEPT ![r] = mem],
           call' = call, overlap' = overlap,
           label \in Path(call[r].op), Needs(call[r].op, label, mem, missed[r]),
           TablesOK', TablesGrow
    PROVE  RInv'
<1>1. ASSUME NEW op, op = call[r].op PROVE Needs(op, label, mem, missed[r])'
  BY <1>1, NeedsStay
<1> QED
  BY <1>1, MoveKeeps DEF Goto, InFlight

LEMMA KeptLocal ==
    ASSUME RInv, NEW r \in Request, local' = local
    PROVE  local' = [local EXCEPT ![r] = local[r]]
BY DEF RInv, TypeOK

LEMMA Ended ==
    ASSUME NEW c \in Calls, NEW mem, NEW gone
    PROVE  /\ {"done", "failed"} \subseteq Path(c.op)
           /\ \A label \in {"done", "failed"} : Needs(c.op, label, mem, gone)
BY DEF Path, Needs, Holding, Storing, Checked, Stating

\* A request that ends needs nothing.
LEMMA EndKeeps ==
    ASSUME RInv, NEW r \in Request, NEW outcome \in {"done", "failed"}, pc[r] # "idle",
           End(r, outcome), call' = call, overlap' = overlap, TablesOK', TablesGrow
    PROVE  RInv'
<1>1. local' = [local EXCEPT ![r] = local[r]]
  BY KeptLocal DEF End
<1>2. outcome \in Path(call[r].op) /\ outcome \in Labels /\ local[r] \in Locals
  BY AtWork, Ended DEF Labels
<1>3. \A op, mem, gone : Needs(op, outcome, mem, gone)'
  BY DEF Needs, Holding, Storing, Checked, Stating
<1> QED
  BY <1>1, <1>2, <1>3, MoveKeeps DEF End, Goto

LEMMA FailKeeps ==
    ASSUME RInv, NEW r \in Request, pc[r] # "idle", Fail(r), call' = call, overlap' = overlap
    PROVE  RInv'
BY NothingWritten, EndKeeps DEF Fail

\* A step that writes no table.
LEMMA ReadKeeps ==
    ASSUME RInv, NEW r \in Request, NEW label \in Labels, NEW mem \in Locals,
           pc[r] # "idle", label # "idle", Goto(r, label), local' = [local EXCEPT ![r] = mem],
           tables' = tables, missed' = missed, call' = call, overlap' = overlap,
           label \in Path(call[r].op), Needs(call[r].op, label, mem, missed[r])
    PROVE  RInv'
<1>1. TablesOK' /\ TablesGrow
  BY NothingWritten
<1>2. Needs(call[r].op, label, mem, missed[r])'
  BY DEF Needs, IsCopy, Exists, Removed, EarlierRows, NeedsEarlier, tables
<1> QED
  BY <1>1, <1>2, MoveKeeps DEF Goto

----------------------------------------------------------------------------
(* The steps *)

LEMMA InitKeeps == Init => RInv
<1> SUFFICES ASSUME Init PROVE RInv
  OBVIOUS
<1>1. Forgotten \in Locals
  <2>1. <<>> \in Seq(Month)
    OBVIOUS
  <2> QED
    BY <2>1 DEF Forgotten, Locals, Source
<1>2. TypeOK
  BY <1>1 DEF Init, TypeOK, Labels
<1>3. \A r \in Request : Working(r)
  BY DEF Init, Working
<1>4. Packed /\ MonthsFormChain /\ PostingsNeedExhibits
  BY DEF Init, Packed, MonthsFormChain, PostingsNeedExhibits, Exists
<1> QED
  BY <1>2, <1>3, <1>4 DEF RInv

LEMMA ArriveKeeps ==
    ASSUME RInv, NEW r \in Request, NEW c \in Calls, Arrive(r, c)
    PROVE  RInv'
<1> DEFINE label == CASE c.op = "upload" -> "parsing"
                      [] c.op = "manual" -> "seeking"
                      [] c.op \in {"seed", "clear"} -> "gathering"
                      [] OTHER -> "opening"
<1>1. label \in Labels /\ label \in Path(c.op)
      /\ label \in {"parsing", "seeking", "gathering", "opening"}
  BY CallFields DEF Labels, Path
<1>2. pc' = [pc EXCEPT ![r] = label]
  BY DEF Arrive, Goto
<1> HIDE DEF label
<1>3. /\ books' = books /\ filled' = filled /\ batch' = batch /\ missed' = missed
      /\ local' = local /\ call' = [call EXCEPT ![r] = c] /\ overlap' \in BOOLEAN
  BY DEF Arrive, tables, RInv, TypeOK
<1>4. TypeOK'
  BY <1>1, <1>2, <1>3 DEF RInv, TypeOK
<1>5. \A op, mem, gone : Needs(op, label, mem, gone)'
  BY <1>1 DEF Needs, Holding, Storing, Checked, Stating
<1>6. ASSUME NEW q \in Request PROVE Working(q)'
  <2>1. CASE q = r
    BY <1>1, <1>2, <1>3, <1>5, <2>1 DEF Working, RInv, TypeOK
  <2>2. CASE q # r
    <3>1. pc'[q] = pc[q] /\ call'[q] = call[q] /\ local'[q] = local[q] /\ missed'[q] = missed[q]
      BY <1>2, <1>3, <2>2 DEF RInv, TypeOK
    <3>2. \A op, l, mem, gone : Needs(op, l, mem, gone) => Needs(op, l, mem, gone)'
      BY <1>3 DEF Needs, IsCopy, Exists, Removed, EarlierRows, NeedsEarlier
    <3> QED
      BY <3>1, <3>2 DEF RInv, Working
  <2> QED
    BY <2>1, <2>2
<1>7. TablesOK'
  BY <1>3, NothingWritten DEF tables, TablesOK
<1> QED
  BY <1>4, <1>6, <1>7 DEF RInv, TablesOK

LEMMA CrashKeeps ==
    ASSUME RInv, Crash
    PROVE  RInv'
<1>1. /\ books' = books /\ filled' = filled /\ batch' = batch /\ missed' = missed
      /\ local' = local /\ call' = call /\ overlap' = overlap
      /\ pc' \in [Request -> Labels]
      /\ \A r \in Request : pc'[r] \in {pc[r], "failed"}
      /\ \A r \in Request : pc[r] = "idle" => pc'[r] = "idle"
  BY DEF Crash, tables, RInv, TypeOK, InFlight, Labels
<1>2. \A op, l, mem, gone :
         /\ Needs(op, l, mem, gone) => Needs(op, l, mem, gone)'
         /\ Needs(op, "failed", mem, gone)'
  BY <1>1 DEF Needs, IsCopy, Exists, Removed, EarlierRows, NeedsEarlier, Holding, Storing,
     Checked, Stating
<1>3. ASSUME NEW q \in Request PROVE Working(q)'
  <2>1. CASE pc'[q] = pc[q]
    BY <1>1, <1>2, <2>1 DEF RInv, Working
  <2>2. CASE pc'[q] = "failed" /\ pc[q] # "idle"
    BY <1>1, <1>2, <2>2, AtWork, Ended DEF Working
  <2> QED
    BY <1>1, <2>1, <2>2
<1>4. TablesOK'
  BY <1>1, NothingWritten DEF tables
<1> QED
  BY <1>1, <1>3, <1>4 DEF RInv, TypeOK, TablesOK

LEMMA ParseKeeps ==
    ASSUME RInv, NEW r \in Request, Parse(r)
    PROVE  RInv'
<1>1. pc[r] = "parsing" /\ call[r].op = "upload"
  BY AtWork, CallFields DEF Parse, Path
<1>2. call[r].file \in Files
  BY <1>1, AtWork, CallFields, ConstantAssumption
<1>3. PICK x \in Readings(call[r].file, call[r].force) :
         local' = [local EXCEPT ![r] = [local[r] EXCEPT !.todo = x.todo, !.source = x.source]]
  BY DEF Parse, Keep
<1>4. x.todo \in Seq(Month) /\ x.todo # <<>> /\ x.source \in Source
  <2>1. call[r].file.months \in Seq(Month) /\ call[r].file.months # <<>>
    BY <1>2 DEF Files
  <2>2. 0 \in Month /\ <<0>> \in Seq(Month) /\ <<0>> # <<>>
    BY ConstantAssumption DEF Month
  <2>3. call[r].file.format \in {"FUT", "Starlight"}
    BY <1>2 DEF Files
  <2>4. CASE call[r].file.format = "FUT"
    BY <1>3, <2>1, <2>4 DEF Readings, Source
  <2>5. CASE call[r].file.format = "Starlight" /\ call[r].force
    <3>1. x = [todo |-> <<0>>, source |-> "ITD"]
          \/ x = [todo |-> call[r].file.months, source |-> "Starlight"]
      BY <1>3, <2>5 DEF Readings
    <3> DEFINE december == <<0>>
    <3>2. december \in Seq(Month) /\ december # <<>>
      BY <2>2
    <3>3. x = [todo |-> december, source |-> "ITD"]
          \/ x = [todo |-> call[r].file.months, source |-> "Starlight"]
      BY <3>1
    <3> HIDE DEF december
    <3> QED
      BY <2>1, <3>2, <3>3 DEF Source
  <2>6. CASE call[r].file.format = "Starlight" /\ ~ call[r].force
    BY <1>3, <2>1, <2>6 DEF Readings, Source
  <2> QED
    BY <2>3, <2>4, <2>5, <2>6
<1> DEFINE mem == [local[r] EXCEPT !.todo = x.todo, !.source = x.source]
<1>5. mem \in Locals /\ mem.todo = x.todo
  <2>1. local[r] \in Locals
    BY <1>1, AtWork
  <2>2. mem \in Locals
    BY <1>4, <2>1, LocalEdits
  <2> QED
    BY <2>1, <2>2 DEF Locals
<1>6. local' = [local EXCEPT ![r] = mem]
  BY <1>3
<1> HIDE DEF mem
<1>7. Needs(call[r].op, "validating", mem, missed[r])
  BY <1>1, <1>4, <1>5 DEF Needs, Holding, Checked, Storing, Stating
<1>8. "validating" \in Labels /\ "validating" \in Path(call[r].op)
  BY <1>1 DEF Labels, Path
<1> QED
  BY <1>1, <1>5, <1>6, <1>7, <1>8, ReadKeeps DEF Parse

LEMMA ValidateSequentialMonthKeeps ==
    ASSUME RInv, NEW r \in Request, ValidateSequentialMonth(r)
    PROVE  RInv'
<1>1. pc[r] = "validating" /\ call[r].op = "upload"
  BY AtWork, CallFields DEF ValidateSequentialMonth, Path
<1>2. CASE NeedsEarlier(Head(local[r].todo), local[r].source)
           /\ EarlierRows(Head(local[r].todo)) = {}
  BY <1>1, <1>2, FailKeeps DEF ValidateSequentialMonth
<1>3. CASE ~ (NeedsEarlier(Head(local[r].todo), local[r].source)
              /\ EarlierRows(Head(local[r].todo)) = {})
  <2>1. Needs(call[r].op, "finding", local[r], missed[r])
    BY <1>1, <1>3, AtWork DEF Needs, Holding, Checked, Storing, Stating
  <2>2. "finding" \in Labels /\ "finding" \in Path(call[r].op)
    BY <1>1 DEF Labels, Path
  <2> QED
    BY <1>1, <1>3, <2>1, <2>2, AtWork, KeptLocal, ReadKeeps DEF ValidateSequentialMonth
<1> QED
  BY <1>2, <1>3

LEMMA FindKeeps ==
    ASSUME RInv, NEW r \in Request, Find(r)
    PROVE  RInv'
<1>1. pc[r] = "finding" /\ call[r].op = "upload" /\ local[r] \in Locals
      /\ Needs("upload", "finding", local[r], missed[r])
  BY AtWork, CallFields DEF Find, Path
<1>2. CASE Fail(r)
  BY <1>1, <1>2, FailKeeps DEF Find
<1>3. CASE Goto(r, "inserting") /\ UNCHANGED <<tables, local, missed>>
  <2>1. Needs(call[r].op, "inserting", local[r], missed[r])
    BY <1>1 DEF Needs, Holding, Checked, Storing, Stating
  <2>2. "inserting" \in Labels /\ "inserting" \in Path(call[r].op)
    BY <1>1 DEF Labels, Path
  <2> QED
    BY <1>1, <1>3, <2>1, <2>2, KeptLocal, ReadKeeps DEF Find
<1>4. ASSUME NEW b \in Id, Live(b), Goto(r, "clearing"), UNCHANGED <<tables, missed>>,
             Keep(r, [local[r] EXCEPT !.book = b, !.copy = books[b]])
      PROVE  RInv'
  <2>1. books[b] \in Row /\ Exists(b)
    BY <1>4 DEF RInv, TypeOK, Live, Exists
  <2> DEFINE mem == [local[r] EXCEPT !.book = b, !.copy = books[b]]
  <2>2. mem \in Locals /\ mem.book = b /\ mem.copy = books[b]
        /\ mem.todo = local[r].todo /\ mem.source = local[r].source
    BY <1>1, <2>1, LocalEdits DEF Locals
  <2>3. local' = [local EXCEPT ![r] = mem]
    BY <1>4 DEF Keep
  <2> HIDE DEF mem
  <2>4. Needs(call[r].op, "clearing", mem, missed[r])
    BY <1>1, <2>1, <2>2 DEF Needs, Holding, Checked, Storing, Stating, IsCopy
  <2>5. "clearing" \in Labels /\ "clearing" \in Path(call[r].op)
    BY <1>1 DEF Labels, Path
  <2> QED
    BY <1>1, <1>4, <2>2, <2>3, <2>4, <2>5, ReadKeeps DEF Find
<1>5. \/ Goto(r, "inserting") /\ UNCHANGED <<tables, local, missed>>
      \/ Fail(r)
      \/ \E b \in Id : /\ Live(b) /\ Goto(r, "clearing") /\ UNCHANGED <<tables, missed>>
                       /\ Keep(r, [local[r] EXCEPT !.book = b, !.copy = books[b]])
  BY DEF Find, Rows
<1> QED
  BY <1>2, <1>3, <1>4, <1>5

LEMMA DeleteAssociatedBatchesKeeps ==
    ASSUME RInv, NEW r \in Request, DeleteAssociatedBatches(r)
    PROVE  RInv'
<1>1. pc[r] = "clearing" /\ call[r].op \in {"upload", "delete"} /\ local[r] \in Locals
      /\ Needs(call[r].op, "clearing", local[r], missed[r])
  BY AtWork, CallFields DEF DeleteAssociatedBatches, Path
<1>2. local[r].book \in Id
  BY <1>1 DEF Needs, Holding
<1>3. TablesOK' /\ TablesGrow
  BY <1>2, BatchSaved DEF DeleteAssociatedBatches
<1> DEFINE label == IF call[r].op = "upload" THEN "retiring" ELSE "loading"
<1>4. label \in Labels /\ label \in Path(call[r].op) /\ label # "idle"
  BY <1>1 DEF Labels, Path
<1>5. Needs(call[r].op, label, local[r], missed[r])
  BY <1>1 DEF Needs, Holding, Checked, Storing, Stating
<1>6. Goto(r, label) /\ call' = call /\ overlap' = overlap /\ local' = local
  BY DEF DeleteAssociatedBatches
<1> HIDE DEF label
<1> QED
  BY <1>1, <1>3, <1>4, <1>5, <1>6, KeptLocal, StepKeeps DEF InFlight

LEMMA RetireKeeps ==
    ASSUME RInv, NEW r \in Request, Retire(r)
    PROVE  RInv'
<1>1. pc[r] = "retiring" /\ call[r].op \in {"upload", "delete"} /\ local[r] \in Locals
      /\ Needs(call[r].op, "retiring", local[r], missed[r])
  BY AtWork, CallFields DEF Retire, Path
<1> DEFINE b == local[r].book
           row == [local[r].copy EXCEPT !.deleted = TRUE]
           label == IF call[r].op = "upload" THEN "inserting" ELSE "done"
<1>2. b \in Id /\ Exists(b) /\ IsCopy(local[r].copy, b)
  BY <1>1 DEF Needs, Holding
<1>3. IsCopy(row, b)
  BY <1>2, RowFacts DEF IsCopy, Row
<1>4. Write(b, row)
  BY DEF Retire
<1>5. label \in Labels /\ label \in Path(call[r].op) /\ label # "idle"
  BY <1>1 DEF Labels, Path
<1>6. Needs(call[r].op, label, local[r], missed[r])
  BY <1>1 DEF Needs, Holding, Checked, Storing, Stating
<1>7. /\ Goto(r, label) /\ call' = call /\ overlap' = overlap /\ local' = local
      /\ filled' = filled /\ batch' = batch
  BY DEF Retire
<1> HIDE DEF b, row, label
<1>8. TablesOK' /\ TablesGrow
  BY <1>2, <1>3, <1>4, <1>7, RowSaved
<1> QED
  BY <1>1, <1>5, <1>6, <1>7, <1>8, KeptLocal, StepKeeps DEF InFlight

LEMMA InsertKeeps ==
    ASSUME RInv, NEW r \in Request, Insert(r)
    PROVE  RInv'
<1>1. pc[r] = "inserting" /\ call[r].op \in {"upload", "manual", "seed"} /\ local[r] \in Locals
      /\ Needs(call[r].op, "inserting", local[r], missed[r])
  BY AtWork, CallFields DEF Insert, Path
<1> DEFINE row == [month |-> MonthOf(r), source |-> SourceOf(r),
                   deleted |-> FALSE, status |-> "Pending"]
<1>2. PICK b \in Id : /\ ~ Exists(b) /\ \A c \in Id : c < b => Exists(c)
                      /\ Write(b, row) /\ Keep(r, [local[r] EXCEPT !.book = b])
  BY DEF Insert
<1>3. MonthOf(r) \in Month /\ SourceOf(r) \in Source
  <2>1. CASE call[r].op \in {"manual", "seed"}
    <3>1. 0 \in Month
      BY ConstantAssumption DEF Month
    <3> QED
      BY <1>1, <2>1, <3>1, AtWork, CallFields DEF MonthOf, SourceOf, Source
  <2>2. CASE call[r].op = "upload"
    BY <1>1, <2>2, LocalFields, Months DEF MonthOf, SourceOf, Needs, Storing, Checked
  <2> QED
    BY <1>1, <2>1, <2>2
<1>4. NeedsEarlier(MonthOf(r), SourceOf(r)) => EarlierRows(MonthOf(r)) # {}
  BY <1>1 DEF MonthOf, SourceOf, Needs, Checked, NeedsEarlier
<1>5. row \in Row /\ ~ row.deleted /\ row.month = MonthOf(r) /\ row.source = SourceOf(r)
  BY <1>3 DEF Row
<1> HIDE DEF row
<1>6. ASSUME NEW mem \in Locals, mem = [local[r] EXCEPT !.book = b]
      PROVE  RInv'
  <2>1. /\ Goto(r, "filling") /\ call' = call /\ overlap' = overlap
        /\ filled' = filled /\ batch' = batch /\ local' = [local EXCEPT ![r] = mem]
    BY <1>2, <1>6 DEF Insert, Keep
  <2>2. TablesOK' /\ TablesGrow /\ books'[b] # Absent
    BY <1>2, <1>4, <1>5, <2>1, RowInserted DEF Exists
  <2>3. mem.book = b /\ mem.todo = local[r].todo
    BY <1>1, <1>6 DEF Locals
  <2>4. "filling" \in Labels /\ "filling" \in Path(call[r].op)
    BY <1>1 DEF Labels, Path
  <2>5. call'[r].op = "upload" => mem.todo # <<>>
    BY <1>1, <2>1, <2>3 DEF Needs, Storing, Checked
  <2>6. Needs(call[r].op, "filling", mem, missed[r])'
    BY <2>2, <2>3, <2>5 DEF Needs, Holding, Storing, Checked, Stating, Exists
  <2> QED
    BY <1>1, <2>1, <2>2, <2>4, <2>6, MoveKeeps DEF Goto
<1> QED
  BY <1>1, <1>6, LocalEdits

LEMMA FillKeeps ==
    ASSUME RInv, NEW r \in Request, Fill(r)
    PROVE  RInv'
<1>1. pc[r] = "filling" /\ call[r].op \in {"upload", "manual", "seed"} /\ local[r] \in Locals
      /\ Needs(call[r].op, "filling", local[r], missed[r])
  BY AtWork, CallFields DEF Fill, Path
<1>2. CASE Fail(r)
  BY <1>1, <1>2, FailKeeps DEF Fill
<1>3. CASE filled' = filled \cup {local[r].book} /\ UNCHANGED <<books, batch, missed>>
  <2>1. local[r].book \in Id /\ Exists(local[r].book)
    BY <1>1 DEF Needs, Holding
  <2>2. TablesOK' /\ TablesGrow
    BY <1>3, <2>1, ExhibitsSaved
  <2>3. CASE Goto(r, "reading") /\ UNCHANGED local /\ call[r].op # "seed"
    <3>1. Needs(call[r].op, "reading", local[r], missed[r])
      BY <1>1 DEF Needs, Holding, Checked, Storing, Stating
    <3>2. "reading" \in Labels /\ "reading" \in Path(call[r].op)
      BY <1>1, <2>3 DEF Labels, Path
    <3> QED
      BY <1>1, <2>2, <2>3, <3>1, <3>2, KeptLocal, StepKeeps DEF Fill, InFlight
  <2>4. CASE /\ call[r].op = "upload" /\ Keep(r, [local[r] EXCEPT !.todo = Tail(local[r].todo)])
             /\ Goto(r, IF Tail(local[r].todo) = <<>> THEN "done" ELSE "validating")
    <3> DEFINE mem == [local[r] EXCEPT !.todo = Tail(local[r].todo)]
               label == IF Tail(local[r].todo) = <<>> THEN "done" ELSE "validating"
    <3>1. local[r].todo # <<>>
      BY <1>1, <2>4 DEF Needs, Storing
    <3>2. Tail(local[r].todo) \in Seq(Month)
      BY <1>1, <3>1, LocalFields, Months
    <3>3. mem \in Locals /\ mem.todo = Tail(local[r].todo)
      BY <1>1, <3>2, LocalEdits DEF Locals
    <3>4. label \in Labels /\ label \in Path(call[r].op) /\ label # "idle"
      BY <2>4 DEF Labels, Path
    <3>5. label \in {"done", "validating"} /\ (label = "validating" => mem.todo # <<>>)
      BY <3>3
    <3>6. Goto(r, label) /\ local' = [local EXCEPT ![r] = mem]
      BY <2>4 DEF Keep
    <3> HIDE DEF mem, label
    <3>7. Needs(call[r].op, label, mem, missed[r])
      BY <3>5 DEF Needs, Holding, Checked, Storing, Stating
    <3> QED
      BY <1>1, <2>2, <3>3, <3>4, <3>6, <3>7, StepKeeps DEF Fill, InFlight
  <2>5. CASE End(r, "done")
    BY <1>1, <2>2, <2>5, EndKeeps DEF Fill
  <2>6. \/ Goto(r, "reading") /\ UNCHANGED local /\ call[r].op # "seed"
        \/ End(r, "done")
        \/ /\ call[r].op = "upload" /\ Keep(r, [local[r] EXCEPT !.todo = Tail(local[r].todo)])
           /\ Goto(r, IF Tail(local[r].todo) = <<>> THEN "done" ELSE "validating")
        \/ Fail(r)
    BY DEF Fill, End
  <2> QED
    BY <1>2, <2>3, <2>4, <2>5, <2>6
<1>4. Fail(r) \/ (filled' = filled \cup {local[r].book} /\ UNCHANGED <<books, batch, missed>>)
  BY DEF Fill
<1> QED
  BY <1>2, <1>3, <1>4

LEMMA RereadKeeps ==
    ASSUME RInv, NEW r \in Request, Reread(r)
    PROVE  RInv'
<1>1. pc[r] # "idle" /\ \E outcome \in {"done", "failed"} : End(r, outcome)
  BY DEF Reread
<1> QED
  BY <1>1, NothingWritten, EndKeeps DEF Reread

\* A request takes the copy of a workbook that is there.
LEMMA CopyKeeps ==
    ASSUME RInv, NEW r \in Request, NEW b \in Id, NEW label \in Labels, NEW copy,
           pc[r] # "idle", Exists(b), IsCopy(copy, b), copy.deleted = books[b].deleted,
           label \notin Checked \cup Storing \cup {"idle", "discarding"},
           call[r].op = "post" /\ label \in Stating => b \in filled,
           label \in Path(call[r].op), Goto(r, label),
           Keep(r, [local[r] EXCEPT !.book = b, !.copy = copy]),
           tables' = tables, missed' = missed, call' = call, overlap' = overlap
    PROVE  RInv'
<1> DEFINE mem == [local[r] EXCEPT !.book = b, !.copy = copy]
<1>1. local[r] \in Locals /\ copy \in Row
  BY AtWork DEF IsCopy
<1>2. mem \in Locals /\ mem.book = b /\ mem.copy = copy
  BY <1>1, LocalEdits DEF Locals
<1>3. local' = [local EXCEPT ![r] = mem]
  BY DEF Keep
<1> HIDE DEF mem
<1>4. Needs(call[r].op, label, mem, missed[r])
  BY <1>2 DEF Needs, Holding, Checked, Storing, Stating, Removed
<1> QED
  BY <1>2, <1>3, <1>4, ReadKeeps

LEMMA SeekKeeps ==
    ASSUME RInv, NEW r \in Request, Seek(r)
    PROVE  RInv'
<1>1. pc[r] = "seeking" /\ call[r].op = "manual" /\ local[r] \in Locals
  BY AtWork, CallFields DEF Seek, Path
<1>2. CASE Goto(r, "inserting") /\ UNCHANGED local
  <2>1. Needs(call[r].op, "inserting", local[r], missed[r])
    BY <1>1 DEF Needs, Holding, Checked, Storing, Stating
  <2>2. "inserting" \in Labels /\ "inserting" \in Path(call[r].op)
    BY <1>1 DEF Labels, Path
  <2> QED
    BY <1>1, <1>2, <2>1, <2>2, KeptLocal, ReadKeeps DEF Seek
<1>3. ASSUME NEW b \in Rows(call[r].month, "ITD"), Goto(r, "saving"),
             Keep(r, [local[r] EXCEPT !.book = b, !.copy = books[b]])
      PROVE  RInv'
  <2>1. b \in Id /\ Exists(b) /\ IsCopy(books[b], b)
    BY DEF Rows, RInv, TypeOK, Exists, IsCopy
  <2>2. "saving" \in Labels /\ "saving" \in Path(call[r].op)
        /\ "saving" \notin Checked \cup Storing \cup {"idle", "discarding"}
    BY <1>1 DEF Labels, Path, Checked, Storing
  <2> QED
    BY <1>1, <1>3, <2>1, <2>2, CopyKeeps DEF Seek
<1> QED
  BY <1>2, <1>3 DEF Seek

LEMMA GatherKeeps ==
    ASSUME RInv, NEW r \in Request, Gather(r)
    PROVE  RInv'
<1>1. pc[r] = "gathering" /\ call[r].op \in {"seed", "clear"} /\ local[r] \in Locals
  BY AtWork, CallFields DEF Gather, Path
<1> DEFINE found == [b \in Id |-> IF Exists(b) /\ (call[r].op = "seed" => books[b].source = "ITD")
                                  THEN books[b] ELSE Absent]
           mem == [local[r] EXCEPT !.found = found]
<1>2. found \in [Id -> Row \cup {Absent}]
  BY DEF RInv, TypeOK
<1>3. \A b \in Id : found[b] # Absent => Exists(b) /\ IsCopy(found[b], b)
  BY DEF RInv, TypeOK, Exists, IsCopy
<1>4. Goto(r, "discarding") /\ local' = [local EXCEPT ![r] = mem]
  BY DEF Gather, Keep
<1> HIDE DEF found
<1>5. mem \in Locals /\ mem.found = found
  BY <1>1, <1>2, LocalEdits DEF Locals
<1> HIDE DEF mem
<1>6. Needs(call[r].op, "discarding", mem, missed[r])
  BY <1>1, <1>3, <1>5 DEF Needs, Holding, Checked, Storing, Stating
<1>7. "discarding" \in Labels /\ "discarding" \in Path(call[r].op)
  BY <1>1 DEF Labels, Path
<1> QED
  BY <1>1, <1>4, <1>5, <1>6, <1>7, ReadKeeps DEF Gather

LEMMA DiscardKeeps ==
    ASSUME RInv, NEW r \in Request, Discard(r)
    PROVE  RInv'
<1>1. pc[r] = "discarding" /\ call[r].op \in {"seed", "clear"} /\ local[r] \in Locals
      /\ Needs(call[r].op, "discarding", local[r], missed[r])
  BY AtWork, CallFields DEF Discard, Path
<1>2. TablesOK' /\ TablesGrow
  BY <1>1, RowsDiscarded DEF Needs, Found
<1> DEFINE label == IF call[r].op = "seed" THEN "inserting" ELSE "done"
<1>3. label \in Labels /\ label \in Path(call[r].op) /\ label # "idle"
  BY <1>1 DEF Labels, Path
<1>4. Needs(call[r].op, label, local[r], missed[r])
  BY <1>1 DEF Needs, Holding, Checked, Storing, Stating
<1>5. Goto(r, label) /\ call' = call /\ overlap' = overlap /\ local' = local
  BY DEF Discard, End
<1> HIDE DEF label
<1> QED
  BY <1>1, <1>2, <1>3, <1>4, <1>5, KeptLocal, StepKeeps DEF InFlight

LEMMA OpenKeeps ==
    ASSUME RInv, NEW r \in Request, Open(r)
    PROVE  RInv'
<1>1. pc[r] = "opening" /\ call[r].op \in {"delete", "edit", "post"} /\ call[r].book \in Id
  BY AtWork, CallFields DEF Open, Path
<1>2. CASE Fail(r)
  BY <1>1, <1>2, FailKeeps DEF Open
<1>3. CASE Live(call[r].book)
  <2> DEFINE b == call[r].book
             label == AfterOpening[call[r].op]
  <2>1. b \in Id /\ Exists(b) /\ IsCopy(books[b], b)
    BY <1>1, <1>3 DEF Live, RInv, TypeOK, Exists, IsCopy
  <2>2. /\ label \in Labels /\ label \in Path(call[r].op)
        /\ label \in {"clearing", "saving", "generating"}
        /\ label = "clearing" => call[r].op = "delete"
        /\ label = "saving" => call[r].op = "edit"
    BY <1>1 DEF AfterOpening, Labels, Path
  <2>3. Goto(r, label) /\ Keep(r, [local[r] EXCEPT !.book = b, !.copy = books[b]])
        /\ UNCHANGED <<tables, missed, call, overlap>>
    BY <1>3 DEF Open
  <2> DEFINE mem == [local[r] EXCEPT !.book = b, !.copy = books[b]]
  <2>4. local[r] \in Locals /\ books[b] \in Row
    BY <1>1, <2>1, AtWork DEF IsCopy
  <2>5. mem \in Locals /\ mem.book = b /\ mem.copy = books[b]
    BY <2>1, <2>4, LocalEdits DEF Locals
  <2>6. local' = [local EXCEPT ![r] = mem]
    BY <2>3 DEF Keep
  <2> HIDE DEF mem, label, b
  <2>7. Needs(call[r].op, label, mem, missed[r])
    BY <1>1, <2>1, <2>2, <2>5 DEF Needs, Holding, Checked, Storing, Stating, Removed
  <2> QED
    BY <1>1, <2>2, <2>3, <2>5, <2>6, <2>7, ReadKeeps
<1> QED
  BY <1>2, <1>3 DEF Open

LEMMA LoadKeeps ==
    ASSUME RInv, NEW r \in Request, Load(r)
    PROVE  RInv'
<1>1. pc[r] = "loading" /\ call[r].op = "delete" /\ local[r] \in Locals
      /\ Needs(call[r].op, "loading", local[r], missed[r])
  BY AtWork, CallFields DEF Load, Path
<1> DEFINE b == local[r].book
           mem == [local[r] EXCEPT !.copy = books[b]]
<1>2. b \in Id /\ Exists(b)
  BY <1>1 DEF Needs, Holding
<1>3. books[b] \in Row /\ IsCopy(books[b], b)
  BY <1>2 DEF RInv, TypeOK, Exists, IsCopy
<1>4. mem \in Locals /\ mem.book = b /\ mem.copy = books[b]
  BY <1>1, <1>3, LocalEdits DEF Locals
<1>5. Goto(r, "retiring") /\ local' = [local EXCEPT ![r] = mem]
  BY DEF Load, Keep
<1> HIDE DEF mem, b
<1>6. Needs(call[r].op, "retiring", mem, missed[r])
  BY <1>1, <1>2, <1>3, <1>4 DEF Needs, Holding, Checked, Storing, Stating
<1>7. "retiring" \in Labels /\ "retiring" \in Path(call[r].op)
  BY <1>1 DEF Labels, Path
<1> QED
  BY <1>1, <1>4, <1>5, <1>6, <1>7, ReadKeeps DEF Load

LEMMA GetGLJournalEntriesKeeps ==
    ASSUME RInv, NEW r \in Request, GetGLJournalEntries(r)
    PROVE  RInv'
<1>1. pc[r] = "generating" /\ call[r].op = "post" /\ local[r] \in Locals
      /\ Needs(call[r].op, "generating", local[r], missed[r])
  BY AtWork, CallFields DEF GetGLJournalEntries, Path
<1>2. CASE Fail(r)
  BY <1>1, <1>2, FailKeeps DEF GetGLJournalEntries
<1>3. CASE /\ local[r].book \in filled /\ Goto(r, "approving")
           /\ UNCHANGED <<tables, local, missed>>
  <2>1. Needs(call[r].op, "approving", local[r], missed[r])
    BY <1>1, <1>3 DEF Needs, Holding, Checked, Storing, Stating
  <2>2. "approving" \in Labels /\ "approving" \in Path(call[r].op)
    BY <1>1 DEF Labels, Path
  <2> QED
    BY <1>1, <1>3, <2>1, <2>2, KeptLocal, ReadKeeps DEF GetGLJournalEntries
<1> QED
  BY <1>2, <1>3 DEF GetGLJournalEntries

LEMMA ApproveKeeps ==
    ASSUME RInv, NEW r \in Request, Approve(r)
    PROVE  RInv'
<1>1. pc[r] = "approving" /\ call[r].op = "post" /\ local[r] \in Locals
      /\ Needs(call[r].op, "approving", local[r], missed[r])
  BY AtWork, CallFields DEF Approve, Path
<1>2. CASE Fail(r)
  BY <1>1, <1>2, FailKeeps DEF Approve
<1>3. CASE Live(local[r].book)
  <2> DEFINE b == local[r].book
             copy == [books[b] EXCEPT !.status = "Approved"]
             mem == [local[r] EXCEPT !.copy = copy]
  <2>1. b \in Id /\ Exists(b) /\ books[b] \in Row /\ ~ books[b].deleted /\ b \in filled
    BY <1>1, <1>3 DEF Needs, Holding, Stating, RInv, TypeOK, Exists, Live
  <2>2. copy \in Row /\ IsCopy(copy, b)
    BY <2>1, RowFacts DEF IsCopy, Row
  <2>3. mem \in Locals /\ mem.book = b /\ mem.copy = copy
    BY <1>1, <2>2, LocalEdits DEF Locals
  <2>4. Goto(r, "saving") /\ local' = [local EXCEPT ![r] = mem]
        /\ UNCHANGED <<tables, missed, call, overlap>>
    BY <1>3 DEF Approve, Keep
  <2> HIDE DEF mem, copy, b
  <2>5. Needs(call[r].op, "saving", mem, missed[r])
    BY <1>1, <2>1, <2>2, <2>3 DEF Needs, Holding, Checked, Storing, Stating, Removed
  <2>6. "saving" \in Labels /\ "saving" \in Path(call[r].op)
    BY <1>1 DEF Labels, Path
  <2> QED
    BY <1>1, <2>3, <2>4, <2>5, <2>6, ReadKeeps
<1> QED
  BY <1>2, <1>3 DEF Approve

LEMMA SaveKeeps ==
    ASSUME RInv, NEW r \in Request, Save(r)
    PROVE  RInv'
<1>1. pc[r] = "saving" /\ call[r].op \in {"edit", "manual", "post"} /\ local[r] \in Locals
      /\ Needs(call[r].op, "saving", local[r], missed[r])
  BY AtWork, CallFields DEF Save, Path
<1> DEFINE b == local[r].book
           label == AfterSaving[call[r].op]
<1>2. b \in Id /\ Exists(b) /\ IsCopy(local[r].copy, b)
  BY <1>1 DEF Needs, Holding
<1>3. /\ Write(b, local[r].copy) /\ Goto(r, label) /\ local' = local
      /\ call' = call /\ overlap' = overlap /\ filled' = filled /\ batch' = batch
  BY DEF Save
<1>4. TablesOK' /\ TablesGrow
  BY <1>2, <1>3, RowSaved
<1>5. /\ label \in Labels /\ label \in Path(call[r].op) /\ label # "idle"
      /\ label \in {"done", "filling", "looking"}
      /\ label = "filling" => call[r].op = "manual"
  BY <1>1 DEF AfterSaving, Labels, Path
<1> HIDE DEF b, label
<1>6. Needs(call[r].op, label, local[r], missed[r])
  BY <1>1, <1>5 DEF Needs, Holding, Checked, Storing, Stating
<1> QED
  BY <1>1, <1>3, <1>4, <1>5, <1>6, KeptLocal, StepKeeps DEF InFlight

LEMMA FindBatchKeeps ==
    ASSUME RInv, NEW r \in Request, FindBatch(r)
    PROVE  RInv'
<1>1. pc[r] = "looking" /\ call[r].op = "post" /\ local[r] \in Locals
      /\ Needs(call[r].op, "looking", local[r], missed[r])
  BY AtWork, CallFields DEF FindBatch, Path
<1> DEFINE b == local[r].book
           mem == [local[r] EXCEPT !.batch = batch[b]]
<1>2. b \in Id /\ batch[b] \in Request \cup {Absent}
  BY <1>1 DEF Needs, Holding, RInv, TypeOK
<1>3. mem \in Locals /\ mem.book = b
  BY <1>1, <1>2, LocalEdits DEF Locals
<1>4. Goto(r, "filing") /\ local' = [local EXCEPT ![r] = mem]
  BY DEF FindBatch, Keep
<1>5. Needs(call[r].op, "filing", mem, missed[r])
  BY <1>1, <1>3 DEF Needs, Holding, Checked, Storing, Stating
<1>6. "filing" \in Labels /\ "filing" \in Path(call[r].op)
  BY <1>1 DEF Labels, Path
<1> HIDE DEF mem, b
<1> QED
  BY <1>1, <1>3, <1>4, <1>5, <1>6, ReadKeeps DEF FindBatch

\* The batch saved is one the request found or its own, of a workbook whose
\* exhibits are there.
LEMMA SaveBatchKeeps ==
    ASSUME RInv, NEW r \in Request, NEW label \in {"listing", "done"},
           pc[r] \in {"filing", "totalling"}, SaveBatch(r, label), UNCHANGED <<call, overlap>>
    PROVE  RInv'
<1>1. call[r].op = "post" /\ local[r] \in Locals
      /\ Needs(call[r].op, pc[r], local[r], missed[r])
  BY AtWork, CallFields DEF Path
<1>2. CASE Fail(r)
  BY <1>2, FailKeeps
<1>3. CASE /\ batch' = [batch EXCEPT ![local[r].book] = BatchOf(r)]
           /\ Goto(r, label) /\ UNCHANGED <<books, filled, local, missed>>
  <2>1. local[r].book \in Id /\ local[r].book \in filled
    BY <1>1 DEF Needs, Holding, Stating
  <2>2. BatchOf(r) \in Request \cup {Absent}
    BY <1>1, LocalFields DEF BatchOf
  <2>3. TablesOK' /\ TablesGrow
    BY <1>3, <2>1, <2>2, BatchSaved
  <2>4. Needs(call[r].op, label, local[r], missed[r])
    BY <1>1, <2>1 DEF Needs, Holding, Checked, Storing, Stating
  <2>5. label \in Labels /\ label \in Path(call[r].op)
    BY <1>1 DEF Labels, Path
  <2> QED
    BY <1>1, <1>3, <2>3, <2>4, <2>5, KeptLocal, StepKeeps DEF InFlight
<1> QED
  BY <1>2, <1>3 DEF SaveBatch

LEMMA SaveEntriesKeeps ==
    ASSUME RInv, NEW r \in Request, SaveEntries(r)
    PROVE  RInv'
<1>1. pc[r] = "listing" /\ call[r].op = "post" /\ local[r] \in Locals
      /\ Needs(call[r].op, "listing", local[r], missed[r])
  BY AtWork, CallFields DEF SaveEntries, Path
<1>2. CASE Fail(r)
  BY <1>1, <1>2, FailKeeps DEF SaveEntries
<1>3. CASE Goto(r, "totalling") /\ UNCHANGED <<tables, local, missed>>
  <2>1. Needs(call[r].op, "totalling", local[r], missed[r])
    BY <1>1 DEF Needs, Holding, Checked, Storing, Stating
  <2>2. "totalling" \in Labels /\ "totalling" \in Path(call[r].op)
    BY <1>1 DEF Labels, Path
  <2> QED
    BY <1>1, <1>3, <2>1, <2>2, KeptLocal, ReadKeeps DEF SaveEntries
<1> QED
  BY <1>2, <1>3 DEF SaveEntries

----------------------------------------------------------------------------
(* Requests served in turn *)

\* No usable workbook of the month and the source.
NoneOf(m, s) == \A b \in Id : Live(b) => ~ (books[b].month = m /\ books[b].source = s)

\* How far a request with nobody beside it has come.
Fits(c, label, mem) ==
    /\ label = "inserting" =>
          /\ c.op = "upload" => NoneOf(Head(mem.todo), mem.source)
          /\ c.op = "manual" => NoneOf(c.month, "ITD")
          /\ c.op = "seed" => NoneOf(0, "ITD")
    /\ c.op = "upload" /\ label \in {"clearing", "retiring"} =>
          /\ Live(mem.book)
          /\ books[mem.book].month = Head(mem.todo) /\ books[mem.book].source = mem.source
    /\ label \in {"loading", "retiring"} => batch[mem.book] = Absent
    /\ label = "saving" =>
          IF c.op = "post"
            THEN Live(mem.book) /\ mem.copy = [books[mem.book] EXCEPT !.status = "Approved"]
            ELSE mem.copy = books[mem.book]
    /\ label = "discarding" =>
          \A b \in Id :
             /\ mem.found[b] \in {Absent, books[b]}
             /\ Exists(b) /\ (c.op = "seed" => books[b].source = "ITD") => mem.found[b] # Absent
    /\ label \in {"looking", "filing", "listing", "totalling"} =>
          Live(mem.book) /\ books[mem.book].status = "Approved"

\* Workbooks that a request of the seeder has removed, or is about to.
Cleared == {b \in Id : \E r \in Request : pc[r] \notin {"idle", "gathering"} /\ b \in Found(r)}

Sole == \A b, c \in Id :
            Live(b) /\ Live(c) /\ books[b].month = books[c].month
                    /\ books[b].source = books[c].source => b = c

Stand == \A b \in Id : batch[b] # Absent =>
            Exists(b) /\ books[b].status = "Approved" /\ (Live(b) \/ b \in Cleared)

\* Strengthening of OneWorkbookPerMonth and PostedBooksStand.
InTurn ==
    /\ \A q, r \in Request : InFlight(q) /\ InFlight(r) => q = r
    /\ Sole /\ Stand
    /\ \A r \in Request : InFlight(r) => Fits(call[r], pc[r], local[r])

Serial == overlap \/ InTurn

LEMMA ClearedStays ==
    ASSUME RInv, NEW r \in Request, NEW label, NEW mem, InFlight(r), Goto(r, label),
           label \notin {"idle", "gathering"}, local' = [local EXCEPT ![r] = mem],
           pc[r] # "gathering" => mem.found = local[r].found
    PROVE  Cleared \subseteq Cleared'
<1>1. \A q \in Request : /\ q # r => pc'[q] = pc[q] /\ local'[q] = local[q]
                         /\ q = r => pc'[q] = label /\ local'[q] = mem
  BY DEF Goto, RInv, TypeOK
<1> SUFFICES ASSUME NEW b \in Cleared PROVE b \in Cleared'
  OBVIOUS
<1>2. PICK q \in Request : pc[q] \notin {"idle", "gathering"} /\ local[q].found[b] # Absent
  BY DEF Cleared, Found
<1>3. pc'[q] \notin {"idle", "gathering"} /\ local'[q].found[b] # Absent
  BY <1>1, <1>2
<1> QED
  BY <1>3 DEF Cleared, Found

\* Where one request is in flight only that one has to fit.
LEMMA InTurnMoves ==
    ASSUME RInv, InTurn, NEW r \in Request, NEW label, NEW mem, InFlight(r), Goto(r, label),
           local' = [local EXCEPT ![r] = mem], call' = call, Sole', Stand',
           label \in {"done", "failed"} \/ Fits(call[r], label, mem)'
    PROVE  InTurn'
<1>1. \A q \in Request : /\ q # r => pc'[q] = pc[q]
                         /\ q = r => pc'[q] = label /\ local'[q] = mem
  BY DEF Goto, RInv, TypeOK
<1>2. \A q \in Request : InFlight(q) => q = r
  BY DEF InTurn
<1>3. \A q \in Request : InFlight(q)' => q = r
  BY <1>1, <1>2 DEF InFlight
<1>4. InFlight(r)' => Fits(call[r], pc[r], local[r])'
  BY <1>1 DEF InFlight
<1> QED
  BY <1>3, <1>4 DEF InTurn

LEMMA SameBooks ==
    ASSUME books' = books, batch' = batch
    PROVE  /\ Sole => Sole'
           /\ Stand /\ Cleared \subseteq Cleared' => Stand'
           /\ \A c, label, mem : Fits(c, label, mem) => Fits(c, label, mem)'
<1>1. \A b : (Live(b) <=> Live(b)') /\ (Exists(b) <=> Exists(b)')
  BY DEF Live, Exists
<1>2. \A m, s : NoneOf(m, s) => NoneOf(m, s)'
  BY <1>1 DEF NoneOf
<1>3. \A c, label, mem : Fits(c, label, mem) => Fits(c, label, mem)'
  BY <1>1, <1>2 DEF Fits
<1> QED
  BY <1>1, <1>3 DEF Sole, Stand

\* A step that leaves workbooks and batches as they are.
LEMMA ReadInTurn ==
    ASSUME RInv, InTurn, NEW r \in Request, NEW label, NEW mem, InFlight(r), Goto(r, label),
           label \notin {"idle", "gathering"}, local' = [local EXCEPT ![r] = mem],
           call' = call, books' = books, batch' = batch,
           pc[r] # "gathering" => mem.found = local[r].found,
           label \in {"done", "failed"} \/ Fits(call[r], label, mem)
    PROVE  InTurn'
<1>1. Cleared \subseteq Cleared'
  BY ClearedStays
<1>2. Sole' /\ Stand'
  BY <1>1, SameBooks DEF InTurn
<1>3. label \in {"done", "failed"} \/ Fits(call[r], label, mem)'
  BY SameBooks
<1> QED
  BY <1>2, <1>3, InTurnMoves

\* The statement of a workbook is removed, or filed for one that stands.
LEMMA BatchInTurn ==
    ASSUME RInv, InTurn, NEW r \in Request, NEW label, NEW mem, NEW b \in Id, NEW x,
           InFlight(r), Goto(r, label), label \notin {"idle", "gathering"},
           local' = local, mem = local[r], call' = call,
           books' = books, batch' = [batch EXCEPT ![b] = x],
           x # Absent => Live(b) /\ books[b].status = "Approved",
           label \in {"done", "failed"} \/ Fits(call[r], label, mem)'
    PROVE  InTurn'
<1>1. local' = [local EXCEPT ![r] = mem]
  BY KeptLocal
<1>2. Cleared \subseteq Cleared'
  BY <1>1, ClearedStays
<1>3. \A d \in Id : (Live(d) <=> Live(d)') /\ (Exists(d) <=> Exists(d)') /\ (Live(d) => Exists(d))
  BY DEF Live, Exists
<1>4. \A d \in Id : batch'[d] = IF d = b THEN x ELSE batch[d]
  BY DEF RInv, TypeOK
<1>5. Sole' /\ Stand'
  BY <1>2, <1>3, <1>4 DEF InTurn, Sole, Stand
<1> QED
  BY <1>1, <1>5, InTurnMoves

\* One workbook is saved and leaves no statement without it.
LEMMA WriteInTurn ==
    ASSUME RInv, InTurn, NEW r \in Request, NEW label, NEW mem, NEW b \in Id, NEW row \in Row,
           InFlight(r), Goto(r, label), label \notin {"idle", "gathering"},
           local' = [local EXCEPT ![r] = mem], mem.found = local[r].found, call' = call,
           Write(b, row), batch' = batch,
           row.deleted \/ \A c \in Id \ {b} :
               Live(c) => ~ (books[c].month = row.month /\ books[c].source = row.source),
           batch[b] # Absent =>
               row.status = "Approved" /\ (~ row.deleted \/ (Exists(b) => ~ Live(b))),
           label \in {"done", "failed"} \/ Fits(call[r], label, mem)'
    PROVE  InTurn'
<1>1. \A c \in Id : books'[c] = IF c = b THEN row ELSE books[c]
  BY DEF Write, RInv, TypeOK
<1>2. row # Absent
  BY RowFacts
<1>3. \A c \in Id : /\ Live(c)' <=> IF c = b THEN ~ row.deleted ELSE Live(c)
                    /\ Exists(c)' <=> c = b \/ Exists(c)
  BY <1>1, <1>2 DEF Live, Exists
<1>4. Cleared \subseteq Cleared'
  BY ClearedStays
<1>5. Sole'
  BY <1>1, <1>3 DEF InTurn, Sole
<1>6. Stand'
  BY <1>1, <1>3, <1>4 DEF InTurn, Stand
<1> QED
  BY <1>5, <1>6, InTurnMoves

LEMMA ParseInTurn ==
    ASSUME RInv, InTurn, NEW r \in Request, Parse(r)
    PROVE  InTurn'
<1>1. PICK x \in Readings(call[r].file, call[r].force) :
         local' = [local EXCEPT ![r] = [local[r] EXCEPT !.todo = x.todo, !.source = x.source]]
  BY DEF Parse, Keep
<1>2. local[r] \in Locals /\ pc[r] = "parsing" /\ InFlight(r)
  BY AtWork DEF Parse, InFlight
<1> DEFINE mem == [local[r] EXCEPT !.todo = x.todo, !.source = x.source]
<1>3. mem.found = local[r].found
  BY <1>2 DEF Locals
<1>4. local' = [local EXCEPT ![r] = mem]
  BY <1>1
<1> HIDE DEF mem
<1>5. Fits(call[r], "validating", mem)
  BY DEF Fits
<1> QED
  BY <1>2, <1>3, <1>4, <1>5, ReadInTurn DEF Parse, tables

LEMMA ValidateInTurn ==
    ASSUME RInv, InTurn, NEW r \in Request, ValidateSequentialMonth(r)
    PROVE  InTurn'
<1>1. PICK label \in {"failed", "finding"} : Goto(r, label)
  BY DEF ValidateSequentialMonth, Fail, End
<1>2. local' = [local EXCEPT ![r] = local[r]] /\ InFlight(r)
  BY KeptLocal DEF ValidateSequentialMonth, Fail, End, InFlight
<1>3. Fits(call[r], "finding", local[r])
  BY DEF Fits
<1> QED
  BY <1>1, <1>2, <1>3, ReadInTurn DEF ValidateSequentialMonth, Fail, tables

LEMMA FindInTurn ==
    ASSUME RInv, InTurn, NEW r \in Request, Find(r)
    PROVE  InTurn'
<1>1. pc[r] = "finding" /\ books' = books /\ batch' = batch /\ call' = call
  BY DEF Find, Fail, tables
<1>2. call[r].op = "upload" /\ local[r] \in Locals /\ InFlight(r)
  BY <1>1, AtWork, CallFields DEF Path, InFlight
<1> DEFINE m == Head(local[r].todo)
           s == local[r].source
<1>3. CASE NoneOf(m, s) /\ Goto(r, "inserting") /\ UNCHANGED local
  <2>1. Fits(call[r], "inserting", local[r])
    BY <1>2, <1>3 DEF Fits
  <2> QED
    BY <1>1, <1>2, <1>3, <2>1, KeptLocal, ReadInTurn
<1>4. CASE Fail(r)
  BY <1>1, <1>2, <1>4, KeptLocal, ReadInTurn DEF Fail, End
<1>5. ASSUME NEW b \in Id, Live(b), books[b].month = m, books[b].source = s,
             Goto(r, "clearing"), Keep(r, [local[r] EXCEPT !.book = b, !.copy = books[b]])
      PROVE  InTurn'
  <2> DEFINE mem == [local[r] EXCEPT !.book = b, !.copy = books[b]]
  <2>1. /\ mem.book = b /\ mem.todo = local[r].todo /\ mem.source = s
        /\ mem.found = local[r].found
    BY <1>2 DEF Locals
  <2>2. local' = [local EXCEPT ![r] = mem]
    BY <1>5 DEF Keep
  <2> HIDE DEF mem
  <2>3. Fits(call[r], "clearing", mem)
    BY <1>5, <2>1 DEF Fits
  <2> QED
    BY <1>1, <1>2, <1>5, <2>1, <2>2, <2>3, ReadInTurn
<1>6. \/ NoneOf(m, s) /\ Goto(r, "inserting") /\ UNCHANGED local
      \/ Fail(r)
      \/ \E b \in Id : /\ Live(b) /\ books[b].month = m /\ books[b].source = s
                       /\ Goto(r, "clearing")
                       /\ Keep(r, [local[r] EXCEPT !.book = b, !.copy = books[b]])
  <2> DEFINE found == {b \in Rows(m, s) : Live(b)}
  <2>1. \A b \in found : b \in Id /\ Live(b) /\ books[b].month = m /\ books[b].source = s
    BY DEF Rows
  <2>2. found = {} => NoneOf(m, s)
    BY DEF NoneOf, Rows, Live
  <2>3. \/ found = {} /\ Goto(r, "inserting") /\ UNCHANGED local
        \/ Fail(r)
        \/ \E b \in found : /\ Goto(r, "clearing")
                            /\ Keep(r, [local[r] EXCEPT !.book = b, !.copy = books[b]])
    BY DEF Find
  <2> HIDE DEF found, m, s
  <2> QED
    BY <2>1, <2>2, <2>3
<1> HIDE DEF m, s
<1> QED
  BY <1>3, <1>4, <1>5, <1>6

LEMMA DeleteAssociatedBatchesInTurn ==
    ASSUME RInv, InTurn, NEW r \in Request, DeleteAssociatedBatches(r)
    PROVE  InTurn'
<1>1. pc[r] = "clearing" /\ call[r].op \in {"upload", "delete"} /\ InFlight(r)
      /\ Needs(call[r].op, "clearing", local[r], missed[r])
  BY AtWork, CallFields DEF DeleteAssociatedBatches, Path, InFlight
<1>2. PICK mem : mem = local[r]
  OBVIOUS
<1>3. PICK b \in Id : b = mem.book
  BY <1>1, <1>2 DEF Needs, Holding
<1>4. PICK label : label = IF call[r].op = "upload" THEN "retiring" ELSE "loading"
  OBVIOUS
<1>5. /\ Goto(r, label) /\ call' = call /\ local' = local /\ books' = books
      /\ batch' = [batch EXCEPT ![b] = Absent]
  BY <1>2, <1>3, <1>4 DEF DeleteAssociatedBatches
<1>6. Fits(call[r], "clearing", mem)
  BY <1>1, <1>2 DEF InTurn
<1>7. batch'[b] = Absent
  BY <1>5 DEF RInv, TypeOK
<1>8. Live(b) => Live(b)'
  BY <1>5 DEF Live, Exists
<1>9. Fits(call[r], label, mem)'
  BY <1>1, <1>3, <1>4, <1>5, <1>6, <1>7, <1>8 DEF Fits
<1> QED
  BY <1>1, <1>2, <1>4, <1>5, <1>9, BatchInTurn

LEMMA RetireInTurn ==
    ASSUME RInv, InTurn, NEW r \in Request, Retire(r)
    PROVE  InTurn'
<1>1. pc[r] = "retiring" /\ call[r].op \in {"upload", "delete"} /\ InFlight(r)
      /\ Needs(call[r].op, "retiring", local[r], missed[r]) /\ local[r] \in Locals
  BY AtWork, CallFields DEF Retire, Path, InFlight
<1>2. PICK mem : mem = local[r]
  OBVIOUS
<1>3. PICK b \in Id : b = mem.book /\ IsCopy(mem.copy, b)
  BY <1>1, <1>2 DEF Needs, Holding
<1>4. PICK row \in Row : row = [mem.copy EXCEPT !.deleted = TRUE] /\ row.deleted
  <2>1. mem.copy \in Row
    BY <1>3 DEF IsCopy
  <2>2. [mem.copy EXCEPT !.deleted = TRUE] \in Row /\ [mem.copy EXCEPT !.deleted = TRUE].deleted
    BY <2>1, RowFacts DEF Row
  <2> QED
    BY <2>2
<1>5. PICK label : label = IF call[r].op = "upload" THEN "inserting" ELSE "done"
  OBVIOUS
<1>6. /\ Write(b, row) /\ Goto(r, label) /\ call' = call /\ batch' = batch
      /\ local' = [local EXCEPT ![r] = mem]
  BY <1>2, <1>3, <1>4, <1>5, KeptLocal DEF Retire
<1>7. Fits(call[r], "retiring", mem)
  BY <1>1, <1>2 DEF InTurn
<1>8. batch[b] = Absent
  BY <1>3, <1>7 DEF Fits
<1>9. ASSUME call[r].op = "upload"
      PROVE  NoneOf(Head(mem.todo), mem.source)'
  <2>1. Live(b) /\ books[b].month = Head(mem.todo) /\ books[b].source = mem.source
    BY <1>3, <1>7, <1>9 DEF Fits
  <2>2. \A c \in Id : books'[c] = IF c = b THEN row ELSE books[c]
    BY <1>6 DEF Write, RInv, TypeOK
  <2>3. \A c \in Id : Live(c)' => Live(c) /\ books'[c] = books[c] /\ c # b
    BY <1>4, <2>2 DEF Live, Exists
  <2> QED
    BY <2>1, <2>3 DEF NoneOf, InTurn, Sole
<1>10. label = "inserting" => Fits(call[r], label, mem)'
  BY <1>1, <1>5, <1>6, <1>9 DEF Fits
<1>11. label \in {"inserting", "done"}
  BY <1>5
<1> QED
  BY <1>1, <1>2, <1>4, <1>6, <1>8, <1>10, <1>11, WriteInTurn

LEMMA InsertInTurn ==
    ASSUME RInv, InTurn, NEW r \in Request, Insert(r)
    PROVE  InTurn'
<1>1. pc[r] = "inserting" /\ call[r].op \in {"upload", "manual", "seed"} /\ InFlight(r)
      /\ local[r] \in Locals /\ Needs(call[r].op, "inserting", local[r], missed[r])
  BY AtWork, CallFields DEF Insert, Path, InFlight
<1> DEFINE row == [month |-> MonthOf(r), source |-> SourceOf(r),
                   deleted |-> FALSE, status |-> "Pending"]
<1>2. PICK b \in Id : ~ Exists(b) /\ Write(b, row) /\ Keep(r, [local[r] EXCEPT !.book = b])
  BY DEF Insert
<1>3. MonthOf(r) \in Month /\ SourceOf(r) \in Source
  <2>1. CASE call[r].op \in {"manual", "seed"}
    <3>1. 0 \in Month
      BY ConstantAssumption DEF Month
    <3> QED
      BY <1>1, <2>1, <3>1, AtWork, CallFields DEF MonthOf, SourceOf, Source
  <2>2. CASE call[r].op = "upload"
    BY <1>1, <2>2, LocalFields, Months DEF MonthOf, SourceOf, Needs, Storing, Checked
  <2> QED
    BY <1>1, <2>1, <2>2
<1>4. NoneOf(MonthOf(r), SourceOf(r))
  <2>1. Fits(call[r], pc[r], local[r])
    BY <1>1 DEF InTurn
  <2> QED
    BY <1>1, <2>1 DEF Fits, MonthOf, SourceOf
<1>5. row \in Row /\ row.month = MonthOf(r) /\ row.source = SourceOf(r)
  BY <1>3 DEF Row
<1> HIDE DEF row
<1>6. PICK mem : mem = [local[r] EXCEPT !.book = b]
  OBVIOUS
<1>7. mem.found = local[r].found
  BY <1>1, <1>6 DEF Locals
<1>8. /\ Goto(r, "filling") /\ call' = call /\ batch' = batch
      /\ local' = [local EXCEPT ![r] = mem]
  BY <1>2, <1>6 DEF Insert, Keep
<1>9. batch[b] = Absent
  BY <1>2 DEF InTurn, Stand
<1>10. Fits(call[r], "filling", mem)'
  BY DEF Fits
<1>11. \A c \in Id \ {b} : Live(c) => ~ (books[c].month = row.month /\ books[c].source = row.source)
  BY <1>4, <1>5 DEF NoneOf
<1> QED
  BY <1>1, <1>2, <1>5, <1>7, <1>8, <1>9, <1>10, <1>11, WriteInTurn

LEMMA FillInTurn ==
    ASSUME RInv, InTurn, NEW r \in Request, Fill(r)
    PROVE  InTurn'
<1>1. pc[r] = "filling" /\ InFlight(r) /\ local[r] \in Locals
  BY AtWork DEF Fill, InFlight
<1>2. books' = books /\ batch' = batch /\ call' = call
  BY DEF Fill, Fail, tables
<1>3. \A mem : \A label \in {"failed", "done", "reading", "validating"} :
         label \in {"done", "failed"} \/ Fits(call[r], label, mem)
  BY DEF Fits
<1>4. CASE local' = local
  <2>1. PICK label \in {"failed", "done", "reading", "validating"} : Goto(r, label)
    BY DEF Fill, Fail, End
  <2> QED
    BY <1>1, <1>2, <1>3, <1>4, <2>1, KeptLocal, ReadInTurn
<1>5. CASE Keep(r, [local[r] EXCEPT !.todo = Tail(local[r].todo)])
  <2> DEFINE mem == [local[r] EXCEPT !.todo = Tail(local[r].todo)]
  <2>1. PICK label \in {"failed", "done", "reading", "validating"} : Goto(r, label)
    BY DEF Fill, Fail, End
  <2>2. mem.found = local[r].found
    BY <1>1 DEF Locals
  <2>3. local' = [local EXCEPT ![r] = mem]
    BY <1>5 DEF Keep
  <2> HIDE DEF mem
  <2> QED
    BY <1>1, <1>2, <1>3, <2>1, <2>2, <2>3, ReadInTurn
<1> QED
  BY <1>4, <1>5 DEF Fill, Fail, End

LEMMA RereadInTurn ==
    ASSUME RInv, InTurn, NEW r \in Request, Reread(r)
    PROVE  InTurn'
<1>1. PICK label \in {"done", "failed"} : Goto(r, label)
  BY DEF Reread, End
<1> QED
  BY <1>1, KeptLocal, ReadInTurn DEF Reread, End, InFlight, tables

LEMMA SeekInTurn ==
    ASSUME RInv, InTurn, NEW r \in Request, Seek(r)
    PROVE  InTurn'
<1>1. pc[r] = "seeking" /\ call[r].op = "manual" /\ local[r] \in Locals /\ InFlight(r)
  BY AtWork, CallFields DEF Seek, Path, InFlight
<1>2. books' = books /\ batch' = batch /\ call' = call
  BY DEF Seek, tables
<1>3. CASE Rows(call[r].month, "ITD") = {} /\ Goto(r, "inserting") /\ UNCHANGED local
  <2>1. NoneOf(call[r].month, "ITD")
    BY <1>3 DEF NoneOf, Rows, Live
  <2>2. Fits(call[r], "inserting", local[r])
    BY <1>1, <2>1 DEF Fits
  <2> QED
    BY <1>1, <1>2, <1>3, <2>2, KeptLocal, ReadInTurn
<1>4. ASSUME NEW b \in Id, Goto(r, "saving"),
             Keep(r, [local[r] EXCEPT !.book = b, !.copy = books[b]])
      PROVE  InTurn'
  <2> DEFINE mem == [local[r] EXCEPT !.book = b, !.copy = books[b]]
  <2>1. mem.book = b /\ mem.copy = books[b] /\ mem.found = local[r].found
    BY <1>1 DEF Locals
  <2>2. local' = [local EXCEPT ![r] = mem]
    BY <1>4 DEF Keep
  <2> HIDE DEF mem
  <2>3. Fits(call[r], "saving", mem)
    BY <1>1, <2>1 DEF Fits
  <2> QED
    BY <1>1, <1>2, <1>4, <2>1, <2>2, <2>3, ReadInTurn
<1> QED
  BY <1>3, <1>4 DEF Seek, Rows

LEMMA GatherInTurn ==
    ASSUME RInv, InTurn, NEW r \in Request, Gather(r)
    PROVE  InTurn'
<1>1. pc[r] = "gathering" /\ books' = books /\ batch' = batch /\ call' = call
  BY DEF Gather, tables
<1>2. local[r] \in Locals /\ InFlight(r)
  BY <1>1, AtWork DEF InFlight
<1> DEFINE found == [b \in Id |-> IF Exists(b) /\ (call[r].op = "seed" => books[b].source = "ITD")
                                  THEN books[b] ELSE Absent]
           mem == [local[r] EXCEPT !.found = found]
<1>3. Goto(r, "discarding") /\ local' = [local EXCEPT ![r] = mem]
  BY DEF Gather, Keep
<1>4. \A b \in Id :
         /\ found[b] \in {Absent, books[b]}
         /\ Exists(b) /\ (call[r].op = "seed" => books[b].source = "ITD") => found[b] # Absent
  BY DEF Exists
<1> HIDE DEF found
<1>5. mem.found = found
  BY <1>2 DEF Locals
<1> HIDE DEF mem
<1>6. Fits(call[r], "discarding", mem)
  BY <1>4, <1>5 DEF Fits
<1> QED
  BY <1>1, <1>2, <1>3, <1>6, ReadInTurn

LEMMA DiscardInTurn ==
    ASSUME RInv, InTurn, NEW r \in Request, Discard(r)
    PROVE  InTurn'
<1>1. pc[r] = "discarding" /\ call[r].op \in {"seed", "clear"} /\ InFlight(r)
      /\ Needs(call[r].op, "discarding", local[r], missed[r])
  BY AtWork, CallFields DEF Discard, Path, InFlight
<1>2. PICK mem : mem = local[r]
  OBVIOUS
<1>3. PICK label : label = IF call[r].op = "seed" THEN "inserting" ELSE "done"
  OBVIOUS
<1>4. /\ Goto(r, label) /\ call' = call /\ batch' = batch
      /\ local' = [local EXCEPT ![r] = mem]
      /\ books' = [b \in Id |-> IF b \in Found(r) THEN [local[r].found[b] EXCEPT !.deleted = TRUE]
                                                  ELSE books[b]]
  BY <1>2, <1>3, KeptLocal DEF Discard, End
<1>5. Cleared \subseteq Cleared'
  BY <1>1, <1>2, <1>3, <1>4, ClearedStays
<1>6. Fits(call[r], "discarding", mem)
  BY <1>1, <1>2 DEF InTurn
<1>7. \A b \in Id : b \in Found(r) <=> mem.found[b] # Absent
  BY <1>2 DEF Found
<1>8. ASSUME NEW b \in Found(r)
      PROVE  /\ b \in Id /\ Exists(b) /\ Exists(b)' /\ ~ Live(b)' /\ b \in Cleared
             /\ books'[b].status = books[b].status
  <2>1. b \in Id /\ books[b] = mem.found[b] /\ books[b] \in Row /\ Exists(b)
    BY <1>1, <1>2, <1>6, <1>7 DEF Found, Fits, Needs, IsCopy
  <2>2. books'[b] = [books[b] EXCEPT !.deleted = TRUE]
    BY <1>2, <1>4, <2>1
  <2>3. books'[b] \in Row /\ books'[b].deleted /\ books'[b].status = books[b].status
    BY <2>1, <2>2 DEF Row
  <2>4. b \in Cleared
    BY <1>1, <2>1 DEF Cleared
  <2> QED
    BY <2>1, <2>3, <2>4, RowFacts DEF Exists, Live
<1>9. \A b \in Id \ Found(r) :
         books'[b] = books[b] /\ (Live(b)' <=> Live(b)) /\ (Exists(b)' <=> Exists(b))
  BY <1>4 DEF Live, Exists
<1>10. Sole'
  BY <1>8, <1>9 DEF InTurn, Sole
<1>11. Stand'
  BY <1>4, <1>5, <1>8, <1>9 DEF InTurn, Stand
<1>12. call[r].op = "seed" => NoneOf(0, "ITD")'
  BY <1>6, <1>7, <1>8, <1>9 DEF Fits, NoneOf, Live
<1>13. label \in {"done", "failed"} \/ Fits(call[r], label, mem)'
  BY <1>1, <1>3, <1>4, <1>12 DEF Fits
<1> QED
  BY <1>1, <1>4, <1>10, <1>11, <1>13, InTurnMoves

LEMMA OpenInTurn ==
    ASSUME RInv, InTurn, NEW r \in Request, Open(r)
    PROVE  InTurn'
<1>1. pc[r] = "opening" /\ books' = books /\ batch' = batch /\ call' = call
  BY DEF Open, Fail, tables
<1>2. call[r].op \in {"delete", "edit", "post"} /\ local[r] \in Locals /\ InFlight(r)
  BY <1>1, AtWork, CallFields DEF Path, InFlight
<1> DEFINE b == call[r].book
           mem == [local[r] EXCEPT !.book = b, !.copy = books[b]]
           label == AfterOpening[call[r].op]
<1>3. CASE Fail(r)
  BY <1>1, <1>2, <1>3, KeptLocal, ReadInTurn DEF Fail, End
<1>4. CASE Keep(r, mem) /\ Goto(r, label)
  <2>1. mem.book = b /\ mem.copy = books[b] /\ mem.found = local[r].found
    BY <1>2 DEF Locals
  <2>2. label \in {"clearing", "saving", "generating"} /\ (label = "saving" => call[r].op = "edit")
    BY <1>2 DEF AfterOpening
  <2>3. local' = [local EXCEPT ![r] = mem]
    BY <1>4 DEF Keep
  <2>4. Goto(r, label)
    BY <1>4
  <2> HIDE DEF mem, label, b
  <2>5. Fits(call[r], label, mem)
    <3>1. label = "clearing" => call[r].op # "upload"
      BY <1>2
    <3> QED
      BY <2>1, <2>2, <3>1 DEF Fits
  <2> QED
    BY <1>1, <1>2, <2>1, <2>2, <2>3, <2>4, <2>5, ReadInTurn
<1>5. Fail(r) \/ (Keep(r, mem) /\ Goto(r, label))
  BY DEF Open
<1> QED
  BY <1>3, <1>4, <1>5

LEMMA LoadInTurn ==
    ASSUME RInv, InTurn, NEW r \in Request, Load(r)
    PROVE  InTurn'
<1>1. pc[r] = "loading" /\ call[r].op = "delete" /\ local[r] \in Locals /\ InFlight(r)
  BY AtWork, CallFields DEF Load, Path, InFlight
<1> DEFINE mem == [local[r] EXCEPT !.copy = books[local[r].book]]
<1>2. mem.book = local[r].book /\ mem.found = local[r].found
  BY <1>1 DEF Locals
<1>3. Goto(r, "retiring") /\ local' = [local EXCEPT ![r] = mem]
  BY DEF Load, Keep
<1>4. Fits(call[r], "loading", local[r])
  BY <1>1 DEF InTurn
<1> HIDE DEF mem
<1>5. Fits(call[r], "retiring", mem)
  BY <1>1, <1>2, <1>4 DEF Fits
<1> QED
  BY <1>1, <1>2, <1>3, <1>5, ReadInTurn DEF Load, tables

LEMMA GetGLJournalEntriesInTurn ==
    ASSUME RInv, InTurn, NEW r \in Request, GetGLJournalEntries(r)
    PROVE  InTurn'
<1>1. PICK label \in {"approving", "failed"} : Goto(r, label)
  BY DEF GetGLJournalEntries, Fail, End
<1>2. Fits(call[r], "approving", local[r])
  BY DEF Fits
<1> QED
  BY <1>1, <1>2, KeptLocal, ReadInTurn DEF GetGLJournalEntries, Fail, End, InFlight, tables

LEMMA ApproveInTurn ==
    ASSUME RInv, InTurn, NEW r \in Request, Approve(r)
    PROVE  InTurn'
<1>1. pc[r] = "approving" /\ books' = books /\ batch' = batch /\ call' = call
  BY DEF Approve, Fail, tables
<1>2. call[r].op = "post" /\ local[r] \in Locals /\ InFlight(r)
  BY <1>1, AtWork, CallFields DEF Path, InFlight
<1> DEFINE copy == [books[local[r].book] EXCEPT !.status = "Approved"]
           mem == [local[r] EXCEPT !.copy = copy]
<1>3. CASE Fail(r)
  BY <1>1, <1>2, <1>3, KeptLocal, ReadInTurn DEF Fail, End
<1>4. CASE Live(local[r].book) /\ Keep(r, mem) /\ Goto(r, "saving")
  <2>1. mem.book = local[r].book /\ mem.copy = copy /\ mem.found = local[r].found
    BY <1>2 DEF Locals
  <2>2. local' = [local EXCEPT ![r] = mem]
    BY <1>4 DEF Keep
  <2> HIDE DEF mem
  <2>3. Fits(call[r], "saving", mem)
    BY <1>2, <1>4, <2>1 DEF Fits
  <2> QED
    BY <1>1, <1>2, <1>4, <2>1, <2>2, <2>3, ReadInTurn
<1>5. Fail(r) \/ (Live(local[r].book) /\ Keep(r, mem) /\ Goto(r, "saving"))
  BY DEF Approve
<1> QED
  BY <1>3, <1>4, <1>5

LEMMA SaveInTurn ==
    ASSUME RInv, InTurn, NEW r \in Request, Save(r)
    PROVE  InTurn'
<1>1. pc[r] = "saving" /\ call[r].op \in {"edit", "manual", "post"} /\ InFlight(r)
      /\ Needs(call[r].op, "saving", local[r], missed[r])
  BY AtWork, CallFields DEF Save, Path, InFlight
<1>2. PICK mem : mem = local[r]
  OBVIOUS
<1>3. PICK b \in Id : b = mem.book /\ Exists(b) /\ IsCopy(mem.copy, b)
  BY <1>1, <1>2 DEF Needs, Holding
<1>4. PICK row \in Row : row = mem.copy
  BY <1>3 DEF IsCopy
<1>5. PICK label : label = AfterSaving[call[r].op]
  OBVIOUS
<1>6. /\ Write(b, row) /\ Goto(r, label) /\ call' = call /\ batch' = batch
      /\ local' = [local EXCEPT ![r] = mem]
  BY <1>2, <1>3, <1>4, <1>5, KeptLocal DEF Save
<1>7. label \in {"done", "filling", "looking"} /\ (label = "looking" => call[r].op = "post")
  BY <1>1, <1>5 DEF AfterSaving
<1>8. Fits(call[r], "saving", mem)
  BY <1>1, <1>2 DEF InTurn
<1>9. books[b] \in Row
  BY <1>3 DEF Exists, RInv, TypeOK
<1>10. /\ row.deleted <=> ~ Live(b)
       /\ row.status = "Approved" \/ row.status = books[b].status
       /\ call[r].op = "post" => Live(b) /\ row.status = "Approved"
  BY <1>3, <1>4, <1>8, <1>9 DEF Fits, Live, Row
<1>11. row.deleted \/ \A c \in Id \ {b} :
          Live(c) => ~ (books[c].month = row.month /\ books[c].source = row.source)
  BY <1>3, <1>4, <1>10 DEF InTurn, Sole, IsCopy
<1>12. batch[b] # Absent =>
          row.status = "Approved" /\ (~ row.deleted \/ (Exists(b) => ~ Live(b)))
  BY <1>10 DEF InTurn, Stand
<1>13. books'[b] = row
  BY <1>6 DEF Write, RInv, TypeOK
<1>14. call[r].op = "post" => Live(b)' /\ books'[b].status = "Approved"
  BY <1>10, <1>13, RowFacts DEF Live, Exists
<1>15. label \in {"done", "failed"} \/ Fits(call[r], label, mem)'
  BY <1>3, <1>7, <1>14 DEF Fits
<1> QED
  BY <1>1, <1>2, <1>6, <1>7, <1>11, <1>12, <1>15, WriteInTurn

LEMMA FindBatchInTurn ==
    ASSUME RInv, InTurn, NEW r \in Request, FindBatch(r)
    PROVE  InTurn'
<1>1. pc[r] = "looking" /\ local[r] \in Locals /\ InFlight(r)
  BY AtWork DEF FindBatch, InFlight
<1> DEFINE mem == [local[r] EXCEPT !.batch = batch[local[r].book]]
<1>2. mem.book = local[r].book /\ mem.found = local[r].found
  BY <1>1 DEF Locals
<1>3. Goto(r, "filing") /\ local' = [local EXCEPT ![r] = mem]
  BY DEF FindBatch, Keep
<1>4. Fits(call[r], "looking", local[r])
  BY <1>1 DEF InTurn
<1> HIDE DEF mem
<1>5. Fits(call[r], "filing", mem)
  BY <1>2, <1>4 DEF Fits
<1> QED
  BY <1>1, <1>2, <1>3, <1>5, ReadInTurn DEF FindBatch, tables

LEMMA SaveBatchInTurn ==
    ASSUME RInv, InTurn, NEW r \in Request, NEW label \in {"listing", "done"},
           pc[r] \in {"filing", "totalling"}, SaveBatch(r, label), UNCHANGED <<call, overlap>>
    PROVE  InTurn'
<1>1. call[r].op = "post" /\ InFlight(r) /\ Needs(call[r].op, pc[r], local[r], missed[r])
  BY AtWork, CallFields DEF Path, InFlight
<1>2. PICK mem : mem = local[r]
  OBVIOUS
<1>3. PICK b \in Id : b = mem.book
  BY <1>1, <1>2 DEF Needs, Holding
<1>4. Fits(call[r], pc[r], mem)
  BY <1>1, <1>2 DEF InTurn
<1>5. Live(b) /\ books[b].status = "Approved"
  BY <1>3, <1>4 DEF Fits
<1>6. CASE Fail(r)
  BY <1>1, <1>6, KeptLocal, ReadInTurn DEF Fail, End, tables
<1>7. CASE ~ Fail(r)
  <2>1. PICK x : x = BatchOf(r)
    OBVIOUS
  <2>2. /\ batch' = [batch EXCEPT ![b] = x] /\ Goto(r, label)
        /\ books' = books /\ local' = local /\ call' = call
    BY <1>2, <1>3, <1>7, <2>1 DEF SaveBatch
  <2>3. Live(b)'
    BY <1>5, <2>2 DEF Live, Exists
  <2>4. Fits(call[r], label, mem)'
    BY <1>1, <1>3, <1>5, <2>2, <2>3 DEF Fits
  <2> QED
    BY <1>1, <1>2, <1>5, <2>2, <2>4, BatchInTurn
<1> QED
  BY <1>6, <1>7

LEMMA SaveEntriesInTurn ==
    ASSUME RInv, InTurn, NEW r \in Request, SaveEntries(r)
    PROVE  InTurn'
<1>1. pc[r] = "listing" /\ InFlight(r) /\ call' = call
  BY DEF SaveEntries, InFlight
<1>2. PICK label \in {"totalling", "failed"} : Goto(r, label)
  BY DEF SaveEntries, Fail, End
<1>3. books' = books /\ batch' = batch /\ local' = [local EXCEPT ![r] = local[r]]
  BY KeptLocal DEF SaveEntries, Fail, End, tables
<1>4. Fits(call[r], "listing", local[r])
  BY <1>1 DEF InTurn
<1>5. Fits(call[r], "totalling", local[r])
  BY <1>4 DEF Fits
<1> QED
  BY <1>1, <1>2, <1>3, <1>5, ReadInTurn

LEMMA SerialStart == Init => Serial
<1> SUFFICES ASSUME Init PROVE InTurn
  BY DEF Serial
<1> QED
  BY DEF Init, InTurn, Sole, Stand, InFlight, Live, Exists

\* Whoever arrives first has nothing to fit yet; a second one makes an overlap.
LEMMA ArriveSerial ==
    ASSUME RInv, Serial, NEW r \in Request, NEW c \in Calls, Arrive(r, c)
    PROVE  Serial'
<1>1. overlap' = (overlap \/ \E q \in Request : InFlight(q))
  BY DEF Arrive
<1> SUFFICES ASSUME InTurn, \A q \in Request : ~ InFlight(q) PROVE InTurn'
  BY <1>1 DEF Serial
<1>2. PICK label \in {"parsing", "seeking", "gathering", "opening"} : Goto(r, label)
  BY CallFields DEF Arrive
<1>3. /\ pc[r] = "idle" /\ books' = books /\ batch' = batch /\ local' = local
      /\ call' = [call EXCEPT ![r] = c]
  BY DEF Arrive, tables
<1>4. \A q \in Request : pc'[q] = IF q = r THEN label ELSE pc[q]
  BY <1>2 DEF Goto, RInv, TypeOK
<1>5. \A q \in Request : InFlight(q)' => q = r
  BY <1>4 DEF InFlight
<1>6. Cleared \subseteq Cleared'
  BY <1>3, <1>4 DEF Cleared, Found
<1>7. Sole' /\ Stand'
  BY <1>3, <1>6, SameBooks DEF InTurn
<1>8. ASSUME NEW d, NEW l \in {"parsing", "seeking", "gathering", "opening"}, NEW m
      PROVE  Fits(d, l, m)'
  BY DEF Fits
<1> QED
  BY <1>4, <1>5, <1>7, <1>8 DEF InTurn

LEMMA CrashSerial ==
    ASSUME RInv, Serial, Crash
    PROVE  Serial'
<1> SUFFICES ASSUME InTurn PROVE InTurn'
  BY DEF Serial, Crash
<1>1. books' = books /\ batch' = batch /\ local' = local
  BY DEF Crash, tables
<1>2. \A q \in Request : pc'[q] = IF InFlight(q) THEN "failed" ELSE pc[q]
  BY DEF Crash
<1>3. \A q \in Request : ~ InFlight(q)'
  BY <1>2 DEF InFlight
<1>4. Cleared \subseteq Cleared'
  BY <1>1, <1>2 DEF Cleared, Found
<1>5. Sole' /\ Stand'
  BY <1>1, <1>4, SameBooks DEF InTurn
<1> QED
  BY <1>3, <1>5 DEF InTurn

LEMMA SerialInductive == RInv /\ Serial /\ [Next]_vars => Serial'
<1> SUFFICES ASSUME RInv, Serial, [Next]_vars PROVE Serial'
  OBVIOUS
<1>1. ASSUME NEW r \in Request, Step(r) PROVE Serial'
  <2>1. overlap' = overlap
    BY <1>1 DEF Step, Parse, ValidateSequentialMonth, Find, DeleteAssociatedBatches, Retire,
       Insert, Fill, Reread, Seek, Gather, Discard, Open, Load, GetGLJournalEntries, Approve,
       Save, FindBatch, FileBatch, SaveEntries, Total
  <2> SUFFICES ASSUME InTurn PROVE InTurn'
    BY <2>1 DEF Serial
  <2>2. CASE Parse(r) \/ ValidateSequentialMonth(r) \/ Find(r) \/ DeleteAssociatedBatches(r)
             \/ Retire(r) \/ Insert(r) \/ Fill(r) \/ Reread(r)
    BY <2>2, ParseInTurn, ValidateInTurn, FindInTurn, DeleteAssociatedBatchesInTurn,
       RetireInTurn, InsertInTurn, FillInTurn, RereadInTurn
  <2>3. CASE Seek(r) \/ Gather(r) \/ Discard(r) \/ Open(r) \/ Load(r)
    BY <2>3, SeekInTurn, GatherInTurn, DiscardInTurn, OpenInTurn, LoadInTurn
  <2>4. CASE GetGLJournalEntries(r) \/ Approve(r) \/ Save(r) \/ FindBatch(r) \/ SaveEntries(r)
    BY <2>4, GetGLJournalEntriesInTurn, ApproveInTurn, SaveInTurn, FindBatchInTurn,
       SaveEntriesInTurn
  <2>5. CASE FileBatch(r) \/ Total(r)
    BY <2>5, SaveBatchInTurn DEF FileBatch, Total
  <2> QED
    BY <1>1, <2>2, <2>3, <2>4, <2>5 DEF Step
<1>2. ASSUME UNCHANGED vars PROVE Serial'
  <2> SUFFICES ASSUME InTurn PROVE InTurn'
    BY <1>2 DEF vars, Serial
  <2>1. books' = books /\ batch' = batch /\ pc' = pc /\ call' = call /\ local' = local
    BY <1>2 DEF vars, tables
  <2>2. Cleared \subseteq Cleared'
    BY <2>1 DEF Cleared, Found
  <2>3. Sole' /\ Stand' /\ \A c, label, mem : Fits(c, label, mem) => Fits(c, label, mem)'
    BY <2>1, <2>2, SameBooks DEF InTurn
  <2> QED
    BY <2>1, <2>3 DEF InTurn, InFlight
<1> QED
  BY <1>1, <1>2, ArriveSerial, CrashSerial DEF Next

----------------------------------------------------------------------------
(* The theorems *)

LEMMA NextKeeps == RInv /\ [Next]_vars => RInv'
<1> SUFFICES ASSUME RInv, [Next]_vars PROVE RInv'
  OBVIOUS
<1>1. ASSUME NEW r \in Request, Step(r) PROVE RInv'
  <2>1. CASE Parse(r) \/ ValidateSequentialMonth(r) \/ Find(r) \/ DeleteAssociatedBatches(r)
             \/ Retire(r) \/ Insert(r) \/ Fill(r) \/ Reread(r)
    BY <2>1, ParseKeeps, ValidateSequentialMonthKeeps, FindKeeps, DeleteAssociatedBatchesKeeps,
       RetireKeeps, InsertKeeps, FillKeeps, RereadKeeps
  <2>2. CASE Seek(r) \/ Gather(r) \/ Discard(r) \/ Open(r) \/ Load(r)
    BY <2>2, SeekKeeps, GatherKeeps, DiscardKeeps, OpenKeeps, LoadKeeps
  <2>3. CASE GetGLJournalEntries(r) \/ Approve(r) \/ Save(r) \/ FindBatch(r) \/ SaveEntries(r)
    BY <2>3, GetGLJournalEntriesKeeps, ApproveKeeps, SaveKeeps, FindBatchKeeps,
       SaveEntriesKeeps
  <2>4. CASE FileBatch(r) \/ Total(r)
    BY <2>4, SaveBatchKeeps DEF FileBatch, Total
  <2> QED
    BY <1>1, <2>1, <2>2, <2>3, <2>4 DEF Step
<1>2. ASSUME UNCHANGED vars PROVE RInv'
  <2>1. TablesOK'
    BY <1>2, NothingWritten DEF vars, tables
  <2>2. \A op, label, mem, gone : Needs(op, label, mem, gone) => Needs(op, label, mem, gone)'
    BY <1>2 DEF vars, Needs, IsCopy, Exists, Removed, EarlierRows, NeedsEarlier
  <2>3. \A r \in Request : Working(r)'
    BY <1>2, <2>2 DEF vars, RInv, Working
  <2>4. TypeOK'
    BY <1>2 DEF vars, RInv, TypeOK
  <2> QED
    BY <2>1, <2>3, <2>4 DEF RInv, TablesOK
<1> QED
  BY <1>1, <1>2, ArriveKeeps, CrashKeeps DEF Next

LEMMA RegisterInvariant == Spec => []RInv
BY InitKeeps, NextKeeps, PTL DEF Spec

\* Every row, copy and label of uploadWorkbook, createManualITD, deleteWorkbook and
\* postToJournalEntries is of its type, for any number of requests and files.
THEOREM TypeCorrect == Spec => []TypeOK
<1>1. RInv => TypeOK
  BY DEF RInv
<1> QED
  BY <1>1, RegisterInvariant, PTL

\* The months of a program form a chain back to the baseline, whatever overlaps
\* and wherever the process stops (validateSequentialMonth).
THEOREM MonthsChain == Spec => []MonthsFormChain
<1>1. RInv => MonthsFormChain
  BY DEF RInv
<1> QED
  BY <1>1, RegisterInvariant, PTL

\* A posted statement rests on saved exhibits (getGLJournalEntries before
\* postToJournalEntries).
THEOREM StatementsRest == Spec => []PostingsNeedExhibits
<1>1. RInv => PostingsNeedExhibits
  BY DEF RInv
<1> QED
  BY <1>1, RegisterInvariant, PTL

\* Only Insert, Retire, Discard and Save write workbooks, and of these only Save can bring a
\* removed one back, by a request that has held its copy since before.
THEOREM RemovedStay == Spec => RevivedByEarlierReader
<1> DEFINE Body == \A b \in Id :
              Removed(b) /\ ~ Removed(b)' => \E r \in Request : pc'[r] # pc[r] /\ b \in missed[r]
<1>1. RInv /\ [Next]_vars => [Body]_vars
  <2> SUFFICES ASSUME RInv, Next, NEW b \in Id, Removed(b), ~ Removed(b)'
               PROVE  \E r \in Request : pc'[r] # pc[r] /\ b \in missed[r]
    OBVIOUS
  <2>1. ASSUME books' = books PROVE FALSE
    BY <2>1 DEF Removed, Exists
  <2>2. ASSUME NEW r \in Request, Step(r)
        PROVE  pc'[r] # pc[r] /\ b \in missed[r]
    <3>1. books' = books \/ Retire(r) \/ Insert(r) \/ Save(r) \/ Discard(r)
      BY <2>2 DEF Step, Parse, ValidateSequentialMonth, Find, DeleteAssociatedBatches, Fill,
         Reread, Seek, Gather, Open, Load, GetGLJournalEntries, Approve, FindBatch, FileBatch,
         SaveEntries, Total, SaveBatch, Fail, tables
    <3>2. ASSUME NEW c \in Id, NEW row \in Row, Write(c, row) PROVE b = c /\ ~ row.deleted
      <4>1. \A d \in Id : books'[d] = IF d = c THEN row ELSE books[d]
        BY <3>2 DEF Write, RInv, TypeOK
      <4> QED
        BY <4>1, RowFacts DEF Removed, Exists
    <3>3. ASSUME Retire(r) PROVE FALSE
      <4>1. local[r].book \in Id /\ IsCopy(local[r].copy, local[r].book)
        BY <3>3, AtWork DEF Retire, Needs, Holding
      <4> DEFINE row == [local[r].copy EXCEPT !.deleted = TRUE]
      <4>2. row \in Row /\ row.deleted
        BY <4>1 DEF IsCopy, Row
      <4>3. Write(local[r].book, row)
        BY <3>3 DEF Retire
      <4> HIDE DEF row
      <4> QED
        BY <3>2, <4>1, <4>2, <4>3
    <3>4. ASSUME Insert(r) PROVE FALSE
      <4>1. PICK c \in Id : ~ Exists(c) /\ \E row : Write(c, row)
        BY <3>4 DEF Insert
      <4>2. books'[b] = books[b]
        BY <4>1 DEF Write, RInv, TypeOK, Removed
      <4> QED
        BY <4>2 DEF Removed, Exists
    <3>5. ASSUME Save(r) PROVE pc'[r] # pc[r] /\ b \in missed[r]
      <4>1. /\ call[r].op \in {"edit", "manual", "post"} /\ pc[r] = "saving"
            /\ Needs(call[r].op, "saving", local[r], missed[r])
        BY <3>5, AtWork, CallFields DEF Save, Path
      <4>2. local[r].book \in Id /\ local[r].copy \in Row
        BY <4>1 DEF Needs, Holding, IsCopy
      <4>3. b = local[r].book /\ ~ local[r].copy.deleted
        BY <3>2, <3>5, <4>2 DEF Save
      <4>4. pc'[r] = AfterSaving[call[r].op]
        BY <3>5 DEF Save, Goto, RInv, TypeOK
      <4> QED
        BY <4>1, <4>3, <4>4 DEF Needs, AfterSaving
    <3>6. ASSUME Discard(r) PROVE FALSE
      <4>1. b \in Found(r) => books'[b].deleted /\ books'[b] # Absent
        <5> SUFFICES ASSUME b \in Found(r) PROVE books'[b].deleted /\ books'[b] # Absent
          OBVIOUS
        <5> DEFINE copy == local[r].found[b]
        <5>1. copy \in Row
          BY <3>6, AtWork DEF Discard, Needs, IsCopy, Found
        <5>2. books'[b] = [copy EXCEPT !.deleted = TRUE]
          BY <3>6 DEF Discard
        <5> HIDE DEF copy
        <5>3. [copy EXCEPT !.deleted = TRUE].deleted
          BY <5>1 DEF Row
        <5> QED
          BY <5>1, <5>2, <5>3, RowFacts
      <4>2. b \notin Found(r) => books'[b] = books[b]
        BY <3>6 DEF Discard
      <4> QED
        BY <4>1, <4>2 DEF Removed, Exists
    <3> QED
      BY <2>1, <3>1, <3>3, <3>4, <3>5, <3>6
  <2> QED
    BY <2>1, <2>2 DEF Next, Arrive, Crash, tables
<1> QED
  BY <1>1, RegisterInvariant, PTL DEF Spec, RevivedByEarlierReader

LEMMA AlwaysSerial == Spec => [](RInv /\ Serial)
BY InitKeeps, NextKeeps, SerialStart, SerialInductive, PTL DEF Spec

\* For any months, files and requests served in turn, some of them cut off: no two
\* usable workbooks are of the same month and source (the search before the insert
\* in uploadWorkbook and createManualITD).
THEOREM OnePerMonth == Spec => []OneWorkbookPerMonth
<1>1. Serial => OneWorkbookPerMonth
  BY DEF Serial, InTurn, Sole, OneWorkbookPerMonth
<1> QED
  BY <1>1, AlwaysSerial, PTL

\* For any months, files and requests served in turn, some of them cut off: the workbook
\* of a posted statement is approved and there, unless the seeder has removed it
\* (postToJournalEntries approves before it files, deleteWorkbook takes the batch first).
THEOREM PostedStand == Spec => []PostedBooksStand
<1>1. Serial => PostedBooksStand
  <2> SUFFICES ASSUME InTurn, NEW b \in Id, batch[b] # Absent
               PROVE  /\ books[b].status = "Approved"
                      /\ Live(b) \/ \E r \in Request : b \in Found(r)
    BY DEF Serial, PostedBooksStand
  <2> QED
    BY DEF InTurn, Stand, Cleared
<1> QED
  BY <1>1, AlwaysSerial, PTL

=============================================================================
