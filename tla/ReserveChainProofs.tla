-------------------------- MODULE ReserveChainProofs --------------------------
(***************************************************************************)
(* Proofs about the reserves.  Of ReserveChain: the types, the totals and   *)
(* the links between the months that requests served in turn leave behind,  *)
(* and what the roll-forward and the edits of the workbook itself may       *)
(* overwrite.  Of CedingStatement, from "Figures are integers" on: what is  *)
(* posted balances, agrees with the statement and the cash settlement,      *)
(* stands, and adds up over the months to the reserves.  Sums are folds:    *)
(* that two of them agree is shown by a smallest counterexample, a set none *)
(* of whose proper subsets is one.                                          *)
(***************************************************************************)
EXTENDS ReserveChain, CedingStatement, TLAPS, WellFoundedInduction, FiniteSetTheorems

\* What is entered is the same in two sets of exhibits.
Same(b, e, f) == \A s \in State : \A k \in EnteredIn(b) : e[s][k] = f[s][k]

LEMMA EnteredSame ==
    ASSUME NEW b, NEW e, NEW f
    PROVE  EnteredOf(b, e) = EnteredOf(b, f) <=> Same(b, e, f)
<1>1. ASSUME EnteredOf(b, e) = EnteredOf(b, f), NEW s \in State,
             NEW k \in EnteredIn(b)
      PROVE  e[s][k] = f[s][k]
    <2>1. EnteredOf(b, e)[s] = EnteredOf(b, f)[s]
        BY <1>1
    <2>2. [j \in EnteredIn(b) |-> e[s][j]] = [j \in EnteredIn(b) |-> f[s][j]]
        BY <2>1 DEF EnteredOf
    <2>3. [j \in EnteredIn(b) |-> e[s][j]][k] = [j \in EnteredIn(b) |-> f[s][j]][k]
        BY <2>2
    <2>. QED
        BY <2>3
<1>2. ASSUME Same(b, e, f)
      PROVE  EnteredOf(b, e) = EnteredOf(b, f)
    <2>1. ASSUME NEW s \in State
          PROVE  [k \in EnteredIn(b) |-> e[s][k]] = [k \in EnteredIn(b) |-> f[s][k]]
        BY <1>2 DEF Same
    <2>. QED
        BY <2>1 DEF EnteredOf
<1>. QED
    BY <1>1, <1>2 DEF Same

\* Exhibits are rows by code, rows are amounts by field.
Exhibits(e) ==
    /\ e = [c \in Code |-> e[c]]
    /\ \A c \in Code : e[c] = [k \in Fields |-> e[c][k]]

LEMMA CallFields ==
    ASSUME NEW c \in Calls
    PROVE  c.book \in Book /\ c.op \in {"read", "mappings", "exhibit", "heading", "seeder"}
<1>1. \/ c \in [op : {"read", "mappings"}, book : Book]
      \/ c \in [op : {"exhibit"}, book : Book, state : State, field : Editable, amount : Movement]
      \/ c \in [op : {"heading"}, book : Book, field : Editable, amount : Heading]
      \/ c \in [op : {"seeder"}, book : {0}, state : State, field : Editable, amount : Movement]
    BY Zenon DEF Calls
<1>2. 0 \in Book
    BY ConstantAssumption DEF Book
<1>. QED
    BY <1>1, <1>2

LEMMA BlankIsExhibits == Exhibits(Blank)
  BY DEF Exhibits, Blank

LEMMA StatesAreCodes == State \subseteq Code /\ TOTAL \in Code /\ TOTAL \notin State
  BY DEF State, Code, TOTAL

\* A row replaced by a row.
LEMMA OneRow ==
    ASSUME NEW e, Exhibits(e), NEW c, NEW row,
           c \in Code => row = [k \in Fields |-> row[k]]
    PROVE  /\ Exhibits([e EXCEPT ![c] = row])
           /\ \A d \in Code : [e EXCEPT ![c] = row][d] = IF d = c THEN row ELSE e[d]
<1>. DEFINE f == [e EXCEPT ![c] = row]
<1>1. DOMAIN e = Code
    BY DEF Exhibits
<1>2. f = [d \in Code |-> IF d = c THEN row ELSE e[d]]
    BY <1>1
<1>3. \A d \in Code : f[d] = IF d = c THEN row ELSE e[d]
    BY <1>2
<1>. HIDE DEF f
<1>4. f = [d \in Code |-> f[d]]
    BY <1>2
<1>5. ASSUME NEW d \in Code PROVE f[d] = [k \in Fields |-> f[d][k]]
    <2>1. CASE d = c
        BY <1>3, <2>1
    <2>2. CASE d # c
        <3>1. f[d] = e[d]
            BY <1>3, <2>2
        <3>. QED
            BY <3>1 DEF Exhibits
    <2>. QED
        BY <2>1, <2>2
<1>. QED
    BY <1>3, <1>4, <1>5 DEF Exhibits, f

\* A field replaced in a row.
LEMMA OneField ==
    ASSUME NEW row, row = [k \in Fields |-> row[k]], NEW k, NEW v
    PROVE  [row EXCEPT ![k] = v] = [j \in Fields |-> [row EXCEPT ![k] = v][j]]
<1>1. DOMAIN row = Fields
    OBVIOUS
<1>. QED
    BY <1>1

\* A row that is rolled forward keeps what was entered.
LEMMA RollKeeps ==
    ASSUME NEW row, row = [k \in Fields |-> row[k]], NEW prev
    PROVE  /\ Roll(row, prev) = [k \in Fields |-> Roll(row, prev)[k]]
           /\ \A k \in Entered : Roll(row, prev)[k] = row[k]
<1>1. DOMAIN row = Fields
    OBVIOUS
<1>2. Roll(row, prev) = [k \in Fields |-> CASE k = "prior" -> Carried(prev)
                                            [] k = "ibnr" -> Carried(prev) + row["movement"]
                                            [] OTHER -> row[k]]
    BY <1>1 DEF Roll, Fields
<1>3. \A k \in Entered : k \in Fields /\ k # "prior" /\ k # "ibnr"
    BY DEF Entered, Fields
<1>. QED
    BY <1>2, <1>3

----------------------------------------------------------------------------
\* The invariant

\* The fields of what a request holds.
Holding(h) ==
    /\ h = [own |-> h.own, prev |-> h.prev, at |-> h.at, copy |-> h.copy, changed |-> h.changed]
    /\ Exhibits(h.own) /\ Exhibits(h.copy)

\* A request in flight is about a book, and rolls forward none but a FUT.
Path(r) ==
    /\ InFlight(r) => call[r] \in Calls
    /\ pc[r] \in {"loading", "seeding", "rolling"} => Source(BookOf(r)) = "FUT"

\* What it has read of the entered amounts is so unless they changed since.
Fresh(r) ==
    BookOf(r) \notin changed[r] =>
        /\ pc[r] \in {"seeding", "rolling"} => Same(BookOf(r), local[r].own, rows[BookOf(r)])
        /\ pc[r] = "mappings" => Same(BookOf(r), local[r].copy, rows[BookOf(r)])

Good(r) == Path(r) /\ Holding(local[r]) /\ Fresh(r)

Shape ==
    /\ rows = [b \in Book |-> rows[b]]
    /\ \A b \in Book : Exhibits(rows[b])
    /\ pc = [r \in Request |-> pc[r]]
    /\ call = [r \in Request |-> call[r]]
    /\ local = [r \in Request |-> local[r]]
    /\ changed \in [Request -> SUBSET Book]

\* Strengthening: a copy is of what is committed, unless the book is in changed[r].
KInv == Shape /\ \A r \in Request : Good(r)

LEMMA ForgottenHolds == Holding(Forgotten)
  BY BlankIsExhibits DEF Holding, Forgotten

\* What the files give are exhibits, whatever the reserves rolled come to.
LEMMA UploadedShape ==
    ASSUME NEW filed
    PROVE  /\ Uploaded(filed) = [b \in Book |-> Uploaded(filed)[b]]
           /\ \A b \in Book : Exhibits(Uploaded(filed)[b])
<1>1. \A b \in Book : Uploaded(filed)[b] = [c \in Code |-> [k \in Fields |->
          IF c = TOTAL THEN Sums(Rolled(filed)[b])[k] ELSE Rolled(filed)[b][c][k]]]
    BY DEF Uploaded
<1>2. Uploaded(filed) = [b \in Book |-> Uploaded(filed)[b]]
    BY DEF Uploaded
<1>3. \A b \in Book : Exhibits(Uploaded(filed)[b])
    BY <1>1 DEF Exhibits
<1>. QED
    BY <1>2, <1>3

LEMMA Initial == Init => KInv
<1>. SUFFICES ASSUME Init PROVE KInv
    OBVIOUS
<1>1. PICK filed \in Filed : rows = Uploaded(filed)
    BY DEF Init
<1>4. rows = [b \in Book |-> rows[b]]
    BY <1>1, UploadedShape
<1>5. \A b \in Book : Exhibits(rows[b])
    BY <1>1, UploadedShape
<1>6. Shape
    BY <1>4, <1>5 DEF Init, Shape
<1>7. ASSUME NEW r \in Request PROVE Good(r)
    <2>1. pc[r] = "idle" /\ local[r] = Forgotten
        BY DEF Init
    <2>. QED
        BY <2>1, ForgottenHolds DEF Good, Path, Fresh, InFlight
<1>. QED
    BY <1>6, <1>7 DEF KInv

----------------------------------------------------------------------------
\* A step of r: what it does to itself, and what its writing does to the others.

Moves(r, label, c, held) ==
    /\ pc' = [pc EXCEPT ![r] = label]
    /\ call' = [call EXCEPT ![r] = c]
    /\ local' = [local EXCEPT ![r] = held]

LEMMA MovesOnlyItself ==
    ASSUME Shape, NEW r \in Request, NEW label, NEW c, NEW held, Moves(r, label, c, held)
    PROVE  /\ pc'[r] = label /\ call'[r] = c /\ local'[r] = held
           /\ \A q \in Request \ {r} :
                 pc'[q] = pc[q] /\ call'[q] = call[q] /\ local'[q] = local[q]
           /\ pc' = [q \in Request |-> pc'[q]]
           /\ call' = [q \in Request |-> call'[q]]
           /\ local' = [q \in Request |-> local'[q]]
<1>1. DOMAIN pc = Request /\ DOMAIN call = Request /\ DOMAIN local = Request
    BY DEF Shape
<1>. QED
    BY <1>1 DEF Moves

\* Whoever is in flight while what was entered for a book changes has the book marked.
Marks ==
    \A q \in Request :
        /\ changed[q] \subseteq changed'[q]
        /\ InFlight(q) =>
              \A b \in Book : Same(b, rows[b], rows'[b]) \/ b \in changed'[q]

LEMMA OthersGood ==
    ASSUME KInv, Marks, NEW q \in Request,
           pc'[q] = pc[q], call'[q] = call[q], local'[q] = local[q]
    PROVE  Good(q)'
<1>1. Good(q)
    BY DEF KInv
<1>2. Path(q)' /\ Holding(local[q])'
    BY <1>1 DEF Good, Path, Holding, InFlight, BookOf
<1>3. Fresh(q)'
    <2>1. CASE pc[q] \notin {"seeding", "rolling", "mappings"}
        BY <2>1 DEF Fresh
    <2>2. CASE pc[q] \in {"seeding", "rolling", "mappings"}
        <3>1. InFlight(q) /\ BookOf(q) \in Book
            BY <1>1, <2>2, CallFields DEF Good, Path, InFlight, BookOf
        <3>2. PICK b \in Book : b = BookOf(q)
            BY <3>1
        <3>3. Same(b, rows[b], rows'[b]) \/ b \in changed'[q]
            BY <3>1 DEF Marks
        <3>4. b \notin changed'[q] => b \notin changed[q]
            BY DEF Marks
        <3>5. BookOf(q)' = b
            BY <3>2 DEF BookOf
        <3>6. b \notin changed'[q] =>
                  /\ pc[q] \in {"seeding", "rolling"} => Same(b, local[q].own, rows'[b])
                  /\ pc[q] = "mappings" => Same(b, local[q].copy, rows'[b])
            BY <1>1, <3>2, <3>3, <3>4 DEF Good, Fresh, Same
        <3>7. /\ Same(b, local[q].own, rows[b])' <=> Same(b, local[q].own, rows'[b])
              /\ Same(b, local[q].copy, rows[b])' <=> Same(b, local[q].copy, rows'[b])
            BY DEF Same
        <3>8. (BookOf(q) \notin changed[q])' <=> b \notin changed'[q]
            BY <3>5
        <3>. QED
            BY <3>5, <3>6 DEF Fresh, Same
    <2>. QED
        BY <2>1, <2>2
<1>. QED
    BY <1>2, <1>3 DEF Good

LEMMA WriteMarks ==
    ASSUME KInv, NEW r \in Request, InFlight(r), NEW e, Exhibits(e), Write(r, e)
    PROVE  /\ Marks /\ changed' \in [Request -> SUBSET Book]
           /\ rows' = [b \in Book |-> rows'[b]] /\ \A b \in Book : Exhibits(rows'[b])
           /\ rows'[BookOf(r)] = e
           /\ \A b \in Book \ {BookOf(r)} : rows'[b] = rows[b]
<1>1. BookOf(r) \in Book
    BY CallFields DEF KInv, Good, Path, BookOf
<1>2. PICK b \in Book : b = BookOf(r)
    BY <1>1
<1>3. DOMAIN rows = Book /\ rows' = [rows EXCEPT ![b] = e]
    BY <1>2 DEF KInv, Shape, Write
<1>4. rows'[b] = e /\ \A d \in Book \ {b} : rows'[d] = rows[d]
    BY <1>3
<1>5. rows' = [d \in Book |-> rows'[d]]
    BY <1>3
<1>6. \A d \in Book : Exhibits(rows'[d])
    BY <1>4 DEF KInv, Shape
<1>7. \A d \in Book \ {b} : Same(d, rows[d], rows'[d])
    BY <1>4 DEF Same
<1>8. CASE EnteredOf(b, e) = EnteredOf(b, rows[b])
    <2>1. changed' = changed
        BY <1>2, <1>8 DEF Write
    <2>2. Same(b, e, rows[b])
        BY <1>8, EnteredSame
    <2>3. Same(b, rows[b], rows'[b])
        BY <1>4, <2>2 DEF Same
    <2>4. Marks
        BY <1>7, <2>1, <2>3 DEF Marks
    <2>. QED
        BY <1>2, <1>4, <1>5, <1>6, <2>1, <2>4 DEF KInv, Shape
<1>9. CASE EnteredOf(b, e) # EnteredOf(b, rows[b])
    <2>1. changed' = [q \in Request |-> IF InFlight(q) THEN changed[q] \cup {b} ELSE changed[q]]
        BY <1>2, <1>9 DEF Write
    <2>2. changed \in [Request -> SUBSET Book]
        BY DEF KInv, Shape
    <2>3. changed' \in [Request -> SUBSET Book]
        BY <2>1, <2>2
    <2>4. Marks
        BY <1>7, <2>1 DEF Marks
    <2>. QED
        BY <1>2, <1>4, <1>5, <1>6, <2>3, <2>4
<1>. QED
    BY <1>8, <1>9

LEMMA NothingWritten ==
    ASSUME KInv, UNCHANGED <<rows, changed>>
    PROVE  /\ Marks /\ changed' \in [Request -> SUBSET Book]
           /\ rows' = [b \in Book |-> rows'[b]] /\ \A b \in Book : Exhibits(rows'[b])
  BY DEF KInv, Shape, Marks, Same

\* What is left to show of a step of r.
LEMMA StepKeeps ==
    ASSUME KInv, NEW r \in Request, NEW label, NEW c, NEW held, Moves(r, label, c, held),
           Marks, changed' \in [Request -> SUBSET Book],
           rows' = [b \in Book |-> rows'[b]], \A b \in Book : Exhibits(rows'[b]),
           Good(r)'
    PROVE  KInv'
<1>1. Shape
    BY DEF KInv
<1>2. /\ \A q \in Request \ {r} :
             pc'[q] = pc[q] /\ call'[q] = call[q] /\ local'[q] = local[q]
      /\ pc' = [q \in Request |-> pc'[q]]
      /\ call' = [q \in Request |-> call'[q]]
      /\ local' = [q \in Request |-> local'[q]]
    BY <1>1, MovesOnlyItself
<1>3. Shape'
    BY <1>2 DEF Shape
<1>4. \A q \in Request : Good(q)'
    BY <1>2, OthersGood
<1>. QED
    BY <1>3, <1>4 DEF KInv

\* What a request is good for after its step.
LEMMA GoodAfter ==
    ASSUME Shape, NEW r \in Request, NEW label, NEW c, NEW held, Moves(r, label, c, held),
           label \notin {"idle", "done", "stopped"} => c \in Calls,
           label \in {"loading", "seeding", "rolling"} => Source(c.book) = "FUT",
           Holding(held),
           c.book \notin changed'[r] =>
              /\ label \in {"seeding", "rolling"} => Same(c.book, held.own, rows'[c.book])
              /\ label = "mappings" => Same(c.book, held.copy, rows'[c.book])
    PROVE  Good(r)'
<1>1. pc'[r] = label /\ call'[r] = c /\ local'[r] = held
    BY MovesOnlyItself
<1>2. Path(r)'
    BY <1>1 DEF Path, InFlight, BookOf, Source
<1>3. Holding(local[r])'
    BY <1>1 DEF Holding, Exhibits
<1>4. Fresh(r)'
    BY <1>1 DEF Fresh, BookOf, Same
<1>. QED
    BY <1>2, <1>3, <1>4 DEF Good

\* A step after which nothing read is relied on.
LEMMA CarefreeStep ==
    ASSUME KInv, NEW r \in Request, NEW label, NEW c, NEW held, Moves(r, label, c, held),
           label \notin {"seeding", "rolling", "mappings"},
           label \notin {"idle", "done", "stopped"} => c \in Calls,
           label = "loading" => Source(c.book) = "FUT",
           Holding(held),
           Marks, changed' \in [Request -> SUBSET Book],
           rows' = [b \in Book |-> rows'[b]], \A b \in Book : Exhibits(rows'[b])
    PROVE  KInv'
<1>1. Good(r)'
    BY GoodAfter DEF KInv
<1>. QED
    BY <1>1, StepKeeps

LEMMA HoldOwn ==
    ASSUME NEW h, Holding(h), NEW e, Exhibits(e)
    PROVE  /\ Holding([h EXCEPT !.own = e, !.at = 1]) /\ [h EXCEPT !.own = e, !.at = 1].own = e
           /\ Holding([h EXCEPT !.own = e])
           /\ Holding([h EXCEPT !.copy = e]) /\ [h EXCEPT !.copy = e].copy = e
<1>1. h = [own |-> h.own, prev |-> h.prev, at |-> h.at, copy |-> h.copy, changed |-> h.changed]
    BY DEF Holding
<1>. DEFINE g == [h EXCEPT !.own = e]
<1>2. g = [own |-> e, prev |-> h.prev, at |-> h.at, copy |-> h.copy, changed |-> h.changed]
    BY <1>1
<1>3. [h EXCEPT !.own = e, !.at = 1]
         = [own |-> e, prev |-> h.prev, at |-> 1, copy |-> h.copy, changed |-> h.changed]
    <2>1. [h EXCEPT !.own = e, !.at = 1] = [g EXCEPT !.at = 1]
        OBVIOUS
    <2>. HIDE DEF g
    <2>2. [g EXCEPT !.at = 1]
             = [own |-> e, prev |-> h.prev, at |-> 1, copy |-> h.copy, changed |-> h.changed]
        BY <1>2
    <2>. QED
        BY <2>1, <2>2
<1>4. [h EXCEPT !.copy = e]
         = [own |-> h.own, prev |-> h.prev, at |-> h.at, copy |-> e, changed |-> h.changed]
    BY <1>1
<1>. QED
    BY <1>3, <1>4, <1>2 DEF Holding

LEMMA HoldOther ==
    ASSUME NEW h, Holding(h), NEW v
    PROVE  /\ Holding([h EXCEPT !.prev = v]) /\ [h EXCEPT !.prev = v].own = h.own
           /\ Holding([h EXCEPT !.at = v]) /\ [h EXCEPT !.at = v].own = h.own
           /\ Holding([h EXCEPT !.changed = v])
<1>1. h = [own |-> h.own, prev |-> h.prev, at |-> h.at, copy |-> h.copy, changed |-> h.changed]
    BY DEF Holding
<1>2. [h EXCEPT !.prev = v]
         = [own |-> h.own, prev |-> v, at |-> h.at, copy |-> h.copy, changed |-> h.changed]
    BY <1>1
<1>3. [h EXCEPT !.at = v]
         = [own |-> h.own, prev |-> h.prev, at |-> v, copy |-> h.copy, changed |-> h.changed]
    BY <1>1
<1>4. [h EXCEPT !.changed = v]
         = [own |-> h.own, prev |-> h.prev, at |-> h.at, copy |-> h.copy, changed |-> v]
    BY <1>1
<1>. QED
    BY <1>2, <1>3, <1>4 DEF Holding

LEMMA Unmoved ==
    ASSUME NEW f, f = [q \in Request |-> f[q]], NEW r \in Request
    PROVE  [f EXCEPT ![r] = f[r]] = f
<1>1. DOMAIN f = Request
    OBVIOUS
<1>2. [f EXCEPT ![r] = f[r]] = [q \in Request |-> IF q = r THEN f[r] ELSE f[q]]
    BY <1>1
<1>3. [q \in Request |-> IF q = r THEN f[r] ELSE f[q]] = [q \in Request |-> f[q]]
    OBVIOUS
<1>. QED
    BY <1>2, <1>3

LEMMA CallStays ==
    ASSUME Shape, NEW r \in Request
    PROVE  /\ [call EXCEPT ![r] = call[r]] = call
           /\ [local EXCEPT ![r] = local[r]] = local
  BY Unmoved DEF Shape

\* What is known of a request in flight and its book.
LEMMA Serving ==
    ASSUME KInv, NEW r \in Request, InFlight(r)
    PROVE  /\ Shape /\ Good(r) /\ call[r] \in Calls /\ BookOf(r) \in Book
           /\ Holding(local[r]) /\ Exhibits(rows[BookOf(r)])
<1>1. Shape /\ Good(r) /\ call[r] \in Calls
    BY DEF KInv, Good, Path
<1>2. BookOf(r) \in Book
    BY <1>1, CallFields DEF BookOf
<1>. QED
    BY <1>1, <1>2 DEF Good, Shape

----------------------------------------------------------------------------
\* The roll-forward

LEMMA LoadKeeps ==
    ASSUME KInv, NEW r \in Request, Load(r) \/ Seed(r)
    PROVE  KInv'
<1>. DEFINE b == BookOf(r)
<1>1. InFlight(r) /\ pc[r] \in {"loading", "seeding"}
    BY DEF Load, Seed, InFlight
<1>2. Shape /\ Good(r) /\ call[r] \in Calls /\ b \in Book /\ Holding(local[r]) /\ Exhibits(rows[b])
    BY <1>1, Serving
<1>3. Source(call[r].book) = "FUT"
    BY <1>1, <1>2 DEF Good, Path, BookOf
<1>4. Marks /\ changed' \in [Request -> SUBSET Book] /\ UNCHANGED <<rows, changed>>
      /\ rows' = [d \in Book |-> rows'[d]] /\ \A d \in Book : Exhibits(rows'[d])
    BY NothingWritten DEF Load, Seed
<1>5. CASE Load(r)
    <2>. DEFINE held == [local[r] EXCEPT !.own = rows[b], !.at = 1]
    <2>1. Moves(r, "seeding", call[r], held)
        BY <1>2, <1>5, CallStays DEF Load, Goto, Keep, Moves
    <2>2. Holding(held) /\ held.own = rows[b]
        BY <1>2, HoldOwn
    <2>. HIDE DEF held
    <2>3. Same(call[r].book, held.own, rows'[call[r].book])
        BY <1>4, <2>2 DEF Same, BookOf
    <2>4. Good(r)'
        BY <1>2, <1>3, <2>1, <2>2, <2>3, GoodAfter
    <2>. QED
        BY <1>4, <2>1, <2>4, StepKeeps
<1>6. CASE Seed(r)
    <2>. DEFINE held == [local[r] EXCEPT !.prev = rows[b - 1]]
    <2>1. Moves(r, "rolling", call[r], held)
        BY <1>2, <1>6, CallStays DEF Seed, Goto, Keep, Moves
    <2>2. Holding(held) /\ held.own = local[r].own
        BY <1>2, HoldOther
    <2>. HIDE DEF held
    <2>3. call[r].book \notin changed'[r] => Same(call[r].book, held.own, rows'[call[r].book])
        BY <1>2, <1>4, <1>6, <2>2 DEF Same, BookOf, Seed, Good, Fresh
    <2>4. Good(r)'
        BY <1>2, <1>3, <2>1, <2>2, <2>3, GoodAfter
    <2>. QED
        BY <1>4, <2>1, <2>4, StepKeeps
<1>. QED
    BY <1>5, <1>6

\* A rolled exhibit is stored over what was entered only if that has changed since.
LEMMA RollStores ==
    ASSUME KInv, NEW r \in Request, RollExhibit(r)
    PROVE  LET b == BookOf(r)
               e == [rows[b] EXCEPT ![local[r].at] =
                        Roll(local[r].own[local[r].at], local[r].prev[local[r].at])] IN
           /\ Exhibits(e) /\ Write(r, e)
           /\ b \notin changed[r] => Same(b, local[r].own, e) /\ Same(b, rows[b], e)
<1>. DEFINE b == BookOf(r)
            s == local[r].at
            row == Roll(local[r].own[s], local[r].prev[s])
            e == [rows[b] EXCEPT ![s] = row]
<1>1. InFlight(r) /\ pc[r] = "rolling" /\ Write(r, e)
    BY DEF RollExhibit, InFlight
<1>2. Good(r) /\ b \in Book /\ Exhibits(local[r].own) /\ Exhibits(rows[b])
    BY <1>1, Serving DEF Holding
<1>3. s \in Code => row = [k \in Fields |-> row[k]] /\ \A k \in Entered : row[k] = local[r].own[s][k]
    <2>1. s \in Code => local[r].own[s] = [k \in Fields |-> local[r].own[s][k]]
        BY <1>2 DEF Exhibits
    <2>. QED
        BY <2>1, RollKeeps
<1>. HIDE DEF row
<1>4. Exhibits(e) /\ \A d \in Code : e[d] = IF d = s THEN row ELSE rows[b][d]
    BY <1>2, <1>3, OneRow
<1>. HIDE DEF e
<1>5. ASSUME b \notin changed[r] PROVE Same(b, local[r].own, e) /\ Same(b, rows[b], e)
    <2>1. Same(b, local[r].own, rows[b])
        BY <1>1, <1>2, <1>5 DEF Good, Fresh
    <2>2. EnteredIn(b) = Entered
        BY <1>1, <1>2 DEF Good, Path, EnteredIn
    <2>. QED
        BY <1>3, <1>4, <2>1, <2>2, StatesAreCodes DEF Same
<1>. QED
    BY <1>1, <1>4, <1>5 DEF e, row

LEMMA RollExhibitKeeps ==
    ASSUME KInv, NEW r \in Request, RollExhibit(r)
    PROVE  KInv'
<1>. DEFINE b == BookOf(r)
            e == [rows[b] EXCEPT ![local[r].at] =
                     Roll(local[r].own[local[r].at], local[r].prev[local[r].at])]
            held == [local[r] EXCEPT !.at = local[r].at + 1]
            label == IF local[r].at = NumStates THEN "summing" ELSE "rolling"
<1>1. InFlight(r) /\ pc[r] = "rolling"
    BY DEF RollExhibit, InFlight
<1>2. Shape /\ Good(r) /\ call[r] \in Calls /\ b \in Book /\ Holding(local[r])
    BY <1>1, Serving
<1>3. /\ Exhibits(e) /\ Write(r, e)
      /\ b \notin changed[r] => Same(b, local[r].own, e)
    BY RollStores
<1>4. Moves(r, label, call[r], held)
    BY <1>2, CallStays DEF RollExhibit, Goto, Keep, Moves
<1>5. label \in {"summing", "rolling"}
    OBVIOUS
<1>. HIDE DEF e, label
<1>6. /\ Marks /\ changed' \in [Request -> SUBSET Book]
      /\ rows' = [d \in Book |-> rows'[d]] /\ \A d \in Book : Exhibits(rows'[d])
      /\ rows'[b] = e
    BY <1>1, <1>3, WriteMarks
<1>7. Holding(held) /\ held.own = local[r].own
    BY <1>2, HoldOther
<1>. HIDE DEF held
<1>8. b \notin changed'[r] => Same(b, held.own, rows'[b])
    BY <1>3, <1>6, <1>7 DEF Marks
<1>9. b = call[r].book /\ Source(b) = "FUT"
    BY <1>1, <1>2 DEF Good, Path, BookOf
<1>10. Good(r)'
    BY <1>2, <1>4, <1>5, <1>7, <1>8, <1>9, GoodAfter
<1>. QED
    BY <1>4, <1>6, <1>10, StepKeeps

LEMMA SumsAreRow ==
    ASSUME NEW e
    PROVE  Sums(e) = [k \in Fields |-> Sums(e)[k]]
  BY DEF Sums

LEMMA SumKeeps ==
    ASSUME KInv, NEW r \in Request, Sum(r)
    PROVE  KInv'
<1>. DEFINE b == BookOf(r)
            e == [rows[b] EXCEPT ![TOTAL] = Sums(rows[b])]
            held == [Forgotten EXCEPT !.own = e, !.changed = local[r].changed]
<1>1. InFlight(r)
    BY DEF Sum, InFlight
<1>2. Shape /\ call[r] \in Calls /\ Exhibits(rows[b])
    BY <1>1, Serving
<1>3. Exhibits(e)
    BY <1>2, SumsAreRow, OneRow
<1>4. Moves(r, "totalling", call[r], held)
    BY <1>2, CallStays DEF Sum, Goto, Keep, Moves
<1>. HIDE DEF e
<1>5. Holding(held)
    <2>. DEFINE g == [Forgotten EXCEPT !.own = e]
    <2>1. held = [g EXCEPT !.changed = local[r].changed]
        OBVIOUS
    <2>2. Holding(g)
        BY <1>3, ForgottenHolds, HoldOwn
    <2>. HIDE DEF g, held
    <2>. QED
        BY <2>1, <2>2, HoldOther
<1>6. /\ Marks /\ changed' \in [Request -> SUBSET Book]
      /\ rows' = [d \in Book |-> rows'[d]] /\ \A d \in Book : Exhibits(rows'[d])
    BY NothingWritten DEF Sum
<1>. HIDE DEF held
<1>. QED
    BY <1>2, <1>4, <1>5, <1>6, CarefreeStep

\* TOTAL alone is stored.
LEMMA TotalStores ==
    ASSUME KInv, NEW r \in Request, InFlight(r), NEW row, row = [k \in Fields |-> row[k]]
    PROVE  LET b == BookOf(r)
               e == [rows[b] EXCEPT ![TOTAL] = row] IN
           Exhibits(e) /\ Same(b, rows[b], e)
<1>. DEFINE b == BookOf(r)
            e == [rows[b] EXCEPT ![TOTAL] = row]
<1>1. Exhibits(rows[b])
    BY Serving
<1>2. Exhibits(e) /\ \A d \in Code : e[d] = IF d = TOTAL THEN row ELSE rows[b][d]
    BY <1>1, OneRow
<1>. HIDE DEF e
<1>3. Same(b, rows[b], e)
    BY <1>2, StatesAreCodes DEF Same
<1>. QED
    BY <1>2, <1>3 DEF e

LEMMA SaveTotalKeeps ==
    ASSUME KInv, NEW r \in Request, SaveTotal(r)
    PROVE  KInv'
<1>. DEFINE b == BookOf(r)
            e == [rows[b] EXCEPT ![TOTAL] = local[r].own[TOTAL]]
<1>1. InFlight(r) /\ Write(r, e)
    BY DEF SaveTotal, InFlight
<1>2. Shape /\ call[r] \in Calls /\ Holding(local[r])
    BY <1>1, Serving
<1>3. local[r].own[TOTAL] = [k \in Fields |-> local[r].own[TOTAL][k]]
    BY <1>2, StatesAreCodes DEF Holding, Exhibits
<1>4. Exhibits(e)
    BY <1>1, <1>3, TotalStores
<1>. HIDE DEF e
<1>5. /\ Marks /\ changed' \in [Request -> SUBSET Book]
      /\ rows' = [d \in Book |-> rows'[d]] /\ \A d \in Book : Exhibits(rows'[d])
    BY <1>1, <1>4, WriteMarks
<1>6. CASE local[r].changed
    <2>1. Moves(r, "done", Absent, Forgotten)
        BY <1>6 DEF SaveTotal, Answer, Goto, Keep, Moves
    <2>. QED
        BY <1>5, <2>1, ForgottenHolds, CarefreeStep
<1>7. CASE ~ local[r].changed
    <2>1. Moves(r, "reading", call[r], local[r])
        BY <1>2, <1>7, CallStays DEF SaveTotal, Goto, Moves
    <2>. QED
        BY <1>2, <1>5, <2>1, CarefreeStep
<1>. QED
    BY <1>6, <1>7

LEMMA ReadKeeps ==
    ASSUME KInv, NEW r \in Request, Read(r)
    PROVE  KInv'
<1>. DEFINE b == BookOf(r)
            held == [Forgotten EXCEPT !.copy = rows[b]]
<1>1. InFlight(r)
    BY DEF Read, InFlight
<1>2. Shape /\ call[r] \in Calls /\ b \in Book /\ Exhibits(rows[b])
    BY <1>1, Serving
<1>3. /\ Marks /\ changed' \in [Request -> SUBSET Book] /\ UNCHANGED rows
      /\ rows' = [d \in Book |-> rows'[d]] /\ \A d \in Book : Exhibits(rows'[d])
    BY NothingWritten DEF Read
<1>4. CASE call[r].op = "read"
    <2>1. Moves(r, "done", Absent, Forgotten)
        BY <1>4 DEF Read, Answer, Goto, Keep, Moves
    <2>. QED
        BY <1>3, <2>1, ForgottenHolds, CarefreeStep
<1>5. CASE call[r].op # "read"
    <2>1. Moves(r, call[r].op, call[r], held)
        BY <1>2, <1>5, CallStays DEF Read, Goto, Keep, Moves
    <2>2. Holding(held) /\ held.copy = rows[b]
        BY <1>2, ForgottenHolds, HoldOwn
    <2>. HIDE DEF held
    <2>3. call[r].op \in {"mappings", "exhibit", "heading", "seeder"}
        BY <1>2, <1>5, CallFields
    <2>4. Same(call[r].book, held.copy, rows'[call[r].book])
        BY <1>3, <2>2 DEF Same, BookOf
    <2>5. Good(r)'
        BY <1>2, <2>1, <2>2, <2>3, <2>4, GoodAfter
    <2>. QED
        BY <1>3, <2>1, <2>5, StepKeeps
<1>. QED
    BY <1>4, <1>5

----------------------------------------------------------------------------
\* Edits

\* After an edit the reserves are calculated again.
LEMMA EditKeeps ==
    ASSUME KInv, NEW r \in Request, InFlight(r), NEW e, Exhibits(e), Write(r, e),
           Recalculate(r), UNCHANGED call
    PROVE  KInv'
<1>. DEFINE held == [Forgotten EXCEPT !.changed = TRUE]
            label == IF Source(BookOf(r)) = "FUT" THEN "loading" ELSE "summing"
<1>1. Shape /\ call[r] \in Calls
    BY Serving
<1>2. Moves(r, label, call[r], held)
    BY <1>1, CallStays DEF Recalculate, Goto, Keep, Moves
<1>3. Holding(held)
    BY ForgottenHolds, HoldOther
<1>4. /\ Marks /\ changed' \in [Request -> SUBSET Book]
      /\ rows' = [d \in Book |-> rows'[d]] /\ \A d \in Book : Exhibits(rows'[d])
    BY WriteMarks
<1>5. label \in {"loading", "summing"} /\ (label = "loading" => Source(call[r].book) = "FUT")
    BY DEF BookOf
<1>. HIDE DEF held, label
<1>. QED
    BY <1>1, <1>2, <1>3, <1>4, <1>5, CarefreeStep

LEMMA EditExhibitKeeps ==
    ASSUME KInv, NEW r \in Request, EditExhibit(r) \/ EditSeederFile(r)
    PROVE  KInv'
<1>. DEFINE b == BookOf(r)
            s == call[r].state
<1>1. InFlight(r) /\ Recalculate(r) /\ UNCHANGED call
    BY DEF EditExhibit, EditSeederFile, InFlight
<1>2. Exhibits(rows[b]) /\ Exhibits(local[r].copy)
    BY <1>1, Serving DEF Holding
<1>3. CASE EditExhibit(r)
    <2>. DEFINE row == [local[r].copy[s] EXCEPT ![call[r].field] = call[r].amount]
    <2>1. Write(r, [rows[b] EXCEPT ![s] = row])
        BY <1>3 DEF EditExhibit
    <2>2. s \in Code => row = [k \in Fields |-> row[k]]
        <3>1. s \in Code => local[r].copy[s] = [k \in Fields |-> local[r].copy[s][k]]
            BY <1>2 DEF Exhibits
        <3>. QED
            BY <3>1, OneField
    <2>. HIDE DEF row
    <2>. DEFINE e == [rows[b] EXCEPT ![s] = row]
    <2>3. Exhibits(e) /\ Write(r, e)
        BY <1>2, <2>1, <2>2, OneRow
    <2>. HIDE DEF e
    <2>. QED
        BY <1>1, <2>3, EditKeeps
<1>4. CASE EditSeederFile(r)
    <2>. DEFINE row == [k \in Fields |-> IF k = call[r].field THEN call[r].amount ELSE 0]
    <2>1. Write(r, [rows[b] EXCEPT ![s] = row])
        BY <1>4 DEF EditSeederFile
    <2>2. row = [k \in Fields |-> row[k]]
        OBVIOUS
    <2>. HIDE DEF row
    <2>. DEFINE e == [rows[b] EXCEPT ![s] = row]
    <2>3. Exhibits(e) /\ Write(r, e)
        BY <1>2, <2>1, <2>2, OneRow
    <2>. HIDE DEF e
    <2>. QED
        BY <1>1, <2>3, EditKeeps
<1>. QED
    BY <1>3, <1>4

LEMMA EditTotalKeeps ==
    ASSUME KInv, NEW r \in Request, EditTotal(r)
    PROVE  KInv'
<1>. DEFINE b == BookOf(r)
            k == call[r].field
            share == Spread(call[r].amount, Weight([s \in State |-> local[r].copy[s][k]]))
            e == [c \in Code |-> IF c = TOTAL THEN rows[b][TOTAL]
                                 ELSE [local[r].copy[c] EXCEPT ![k] = share[c]]]
<1>1. InFlight(r) /\ Write(r, e)
    BY DEF EditTotal, InFlight
<1>2. /\ Shape /\ call[r] \in Calls /\ Holding(local[r])
      /\ Exhibits(rows[b]) /\ Exhibits(local[r].copy)
    BY <1>1, Serving DEF Holding
<1>. HIDE DEF share
<1>3. Exhibits(e)
    <2>1. \A c \in Code : e[c] = IF c = TOTAL THEN rows[b][TOTAL]
                                 ELSE [local[r].copy[c] EXCEPT ![k] = share[c]]
        OBVIOUS
    <2>2. e = [c \in Code |-> e[c]]
        OBVIOUS
    <2>. HIDE DEF e
    <2>3. ASSUME NEW c \in Code PROVE e[c] = [j \in Fields |-> e[c][j]]
        <3>1. CASE c = TOTAL
            BY <1>2, <2>1, <3>1 DEF Exhibits
        <3>2. CASE c # TOTAL
            <4>1. local[r].copy[c] = [j \in Fields |-> local[r].copy[c][j]]
                BY <1>2 DEF Exhibits
            <4>2. e[c] = [local[r].copy[c] EXCEPT ![k] = share[c]]
                BY <2>1, <3>2
            <4>. QED
                BY <4>1, <4>2, OneField
        <3>. QED
            BY <3>1, <3>2
    <2>. QED
        BY <2>2, <2>3 DEF Exhibits
<1>. HIDE DEF e
<1>4. Moves(r, "headed", call[r], local[r])
    BY <1>2, CallStays DEF EditTotal, Goto, Moves
<1>5. /\ Marks /\ changed' \in [Request -> SUBSET Book]
      /\ rows' = [d \in Book |-> rows'[d]] /\ \A d \in Book : Exhibits(rows'[d])
    BY <1>1, <1>3, WriteMarks
<1>. QED
    BY <1>2, <1>4, <1>5, CarefreeStep

LEMMA EditHeadingKeeps ==
    ASSUME KInv, NEW r \in Request, EditHeading(r)
    PROVE  KInv' /\ \A b \in Book : Same(b, rows[b], rows'[b])
<1>. DEFINE b == BookOf(r)
            row == [local[r].copy[TOTAL] EXCEPT ![call[r].field] = call[r].amount]
            e == [rows[b] EXCEPT ![TOTAL] = row]
<1>1. InFlight(r) /\ Write(r, e) /\ Recalculate(r) /\ UNCHANGED call
    BY DEF EditHeading, InFlight
<1>2. row = [k \in Fields |-> row[k]]
    <2>1. local[r].copy[TOTAL] = [k \in Fields |-> local[r].copy[TOTAL][k]]
        BY <1>1, Serving, StatesAreCodes DEF Holding, Exhibits
    <2>. QED
        BY <2>1, OneField
<1>. HIDE DEF row
<1>3. Exhibits(e) /\ Same(b, rows[b], e)
    BY <1>1, <1>2, TotalStores
<1>. HIDE DEF e
<1>4. KInv'
    BY <1>1, <1>3, EditKeeps
<1>5. rows'[b] = e /\ \A d \in Book \ {b} : rows'[d] = rows[d]
    BY <1>1, <1>3, WriteMarks
<1>. QED
    BY <1>3, <1>4, <1>5 DEF Same

LEMMA SaveWorkbookKeeps ==
    ASSUME KInv, NEW r \in Request, SaveWorkbook(r)
    PROVE  KInv'
<1>1. InFlight(r) /\ Write(r, local[r].copy)
    BY DEF SaveWorkbook, InFlight
<1>2. Exhibits(local[r].copy)
    BY <1>1, Serving DEF Holding
<1>3. /\ Marks /\ changed' \in [Request -> SUBSET Book]
      /\ rows' = [d \in Book |-> rows'[d]] /\ \A d \in Book : Exhibits(rows'[d])
    BY <1>1, <1>2, WriteMarks
<1>4. Moves(r, "done", Absent, Forgotten)
    BY DEF SaveWorkbook, Answer, Goto, Keep, Moves
<1>. QED
    BY <1>3, <1>4, ForgottenHolds, CarefreeStep

LEMMA ArriveKeeps ==
    ASSUME KInv, NEW r \in Request, NEW c \in Calls, Arrive(r, c)
    PROVE  KInv'
<1>. DEFINE label == IF Source(c.book) = "FUT" THEN "loading" ELSE "reading"
<1>1. Moves(r, label, c, local[r])
    BY CallStays DEF KInv, Arrive, Goto, Moves
<1>2. /\ Marks /\ changed' \in [Request -> SUBSET Book]
      /\ rows' = [d \in Book |-> rows'[d]] /\ \A d \in Book : Exhibits(rows'[d])
    BY NothingWritten DEF Arrive
<1>3. Holding(local[r])
    BY DEF KInv, Good
<1>4. label \in {"loading", "reading"} /\ (label = "loading" => Source(c.book) = "FUT")
    OBVIOUS
<1>. HIDE DEF label
<1>. QED
    BY <1>1, <1>2, <1>3, <1>4, CarefreeStep

LEMMA StopKeeps ==
    ASSUME KInv, NEW r \in Request, Stop(r)
    PROVE  KInv'
<1>1. Moves(r, "stopped", Absent, Forgotten)
    BY DEF Stop, Goto, Keep, Moves
<1>2. /\ Marks /\ changed' \in [Request -> SUBSET Book]
      /\ rows' = [d \in Book |-> rows'[d]] /\ \A d \in Book : Exhibits(rows'[d])
    BY NothingWritten DEF Stop
<1>. QED
    BY <1>1, <1>2, ForgottenHolds, CarefreeStep

LEMMA Inductive == KInv /\ [Next]_vars => KInv'
<1>. SUFFICES ASSUME KInv, [Next]_vars PROVE KInv'
    OBVIOUS
<1>1. CASE UNCHANGED vars
    <2>1. Shape'
        BY <1>1 DEF vars, KInv, Shape, Exhibits
    <2>2. Marks
        BY <1>1 DEF vars, Marks, Same
    <2>3. \A q \in Request : Good(q)'
        BY <1>1, <2>2, OthersGood DEF vars
    <2>. QED
        BY <2>1, <2>3 DEF KInv
<1>2. ASSUME NEW r \in Request, NEW c \in Calls, Arrive(r, c) PROVE KInv'
    BY <1>2, ArriveKeeps
<1>3. ASSUME NEW r \in Request, Step(r) PROVE KInv'
    BY <1>3, LoadKeeps, RollExhibitKeeps, SumKeeps, SaveTotalKeeps, ReadKeeps,
       EditExhibitKeeps, EditTotalKeeps, EditHeadingKeeps, SaveWorkbookKeeps DEF Step
<1>4. ASSUME NEW r \in Request, Stop(r) PROVE KInv'
    BY <1>4, StopKeeps
<1>. QED
    BY <1>1, <1>2, <1>3, <1>4 DEF Next

----------------------------------------------------------------------------
\* Theorem

\* The steps that are no edit of an amount.
LEMMA EntriesKept ==
    ASSUME KInv, NEW r \in Request, Step(r), pc[r] \notin {"exhibit", "heading", "seeder"},
           NEW b \in Book, b \notin changed[r]
    PROVE  Same(b, rows[b], rows'[b])
<1>1. CASE UNCHANGED rows
    BY <1>1 DEF Same
<1>2. CASE RollExhibit(r)
    <2>. DEFINE e == [rows[BookOf(r)] EXCEPT ![local[r].at] =
                         Roll(local[r].own[local[r].at], local[r].prev[local[r].at])]
    <2>1. InFlight(r) /\ Exhibits(e) /\ Write(r, e)
        BY <1>2, RollStores DEF RollExhibit, InFlight
    <2>2. BookOf(r) \notin changed[r] => Same(BookOf(r), rows[BookOf(r)], e)
        BY <1>2, RollStores
    <2>. HIDE DEF e
    <2>3. rows'[BookOf(r)] = e /\ \A d \in Book \ {BookOf(r)} : rows'[d] = rows[d]
        BY <2>1, WriteMarks
    <2>. QED
        BY <2>2, <2>3 DEF Same
<1>3. CASE SaveTotal(r)
    <2>. DEFINE row == local[r].own[TOTAL]
                e == [rows[BookOf(r)] EXCEPT ![TOTAL] = row]
    <2>1. InFlight(r) /\ Write(r, e)
        BY <1>3 DEF SaveTotal, InFlight
    <2>2. row = [k \in Fields |-> row[k]]
        BY <2>1, Serving, StatesAreCodes DEF Holding, Exhibits
    <2>. HIDE DEF row
    <2>3. Exhibits(e) /\ Same(BookOf(r), rows[BookOf(r)], e)
        BY <2>1, <2>2, TotalStores
    <2>. HIDE DEF e
    <2>4. rows'[BookOf(r)] = e /\ \A d \in Book \ {BookOf(r)} : rows'[d] = rows[d]
        BY <2>1, <2>3, WriteMarks
    <2>. QED
        BY <2>3, <2>4 DEF Same
<1>4. CASE EditHeading(r)
    BY <1>4, EditHeadingKeeps
<1>5. CASE SaveWorkbook(r)
    <2>1. InFlight(r) /\ pc[r] = "mappings" /\ Write(r, local[r].copy)
        BY <1>5 DEF SaveWorkbook, InFlight
    <2>2. Good(r) /\ Exhibits(local[r].copy)
        BY <2>1, Serving DEF Holding
    <2>3. /\ rows'[BookOf(r)] = local[r].copy
          /\ \A d \in Book \ {BookOf(r)} : rows'[d] = rows[d]
        BY <2>1, <2>2, WriteMarks
    <2>. QED
        BY <2>1, <2>2, <2>3 DEF Good, Fresh, Same
<1>. QED
    BY <1>1, <1>2, <1>3, <1>4, <1>5
       DEF Step, Load, Seed, Sum, Read, EditExhibit, EditTotal, EditSeederFile

\* For any months, states and amounts: reading a workbook, rolling its reserves forward
\* or saving its mappings alters no amount a client has entered, unless that amount was
\* changed while the request was in flight.
THEOREM EntriesSurviveRolling == Spec => RollingKeepsEntries
<1>1. ASSUME KInv, [Next]_vars, NEW r \in Request, NEW b \in Book,
             pc[r] \notin {"exhibit", "heading", "seeder"},
             <<pc[r], local[r]>>' # <<pc[r], local[r]>>,
             EnteredOf(b, rows'[b]) # EnteredOf(b, rows[b])
      PROVE  b \in changed[r]
    <2>1. rows' # rows
        BY <1>1
    <2>2. PICK q \in Request : Step(q)
        BY <1>1, <2>1 DEF Next, vars, Arrive, Stop
    <2>3. q = r
        BY <1>1, <2>2
           DEF Step, Load, Seed, RollExhibit, Sum, SaveTotal, Read, EditExhibit, EditTotal,
               EditHeading, EditSeederFile, SaveWorkbook, Recalculate, Answer, Goto, Keep,
               KInv, Shape
    <2>. QED
        BY <1>1, <2>2, <2>3, EntriesKept, EnteredSame DEF Same
<1>2. KInv /\ [Next]_vars =>
          [\A r \in Request, b \in Book :
              /\ pc[r] \notin {"exhibit", "heading", "seeder"}
              /\ <<pc[r], local[r]>>' # <<pc[r], local[r]>>
              /\ EnteredOf(b, rows'[b]) # EnteredOf(b, rows[b])
              => b \in changed[r]]_vars
    BY <1>1
<1>. QED
    BY Initial, Inductive, <1>2, PTL DEF Spec, RollingKeepsEntries

----------------------------------------------------------------------------
\* Sums, and induction as the choice of a smallest counterexample

LEMMA SmallestSubset ==
    ASSUME NEW S, IsFiniteSet(S), NEW Bad \in SUBSET (SUBSET S), Bad # {}
    PROVE  \E X \in Bad : \A Y \in SUBSET X : Y # X => Y \notin Bad
<1>1. IsWellFoundedOn(StrictSubsetOrdering(S), SUBSET S)
    BY FS_StrictSubsetOrderingWellFounded, FS_FiniteSubsetsOfFinite
<1>2. PICK X \in Bad : \A Y \in Bad : ~ (<<Y, X>> \in StrictSubsetOrdering(S))
    BY <1>1, WFMin
<1>3. ASSUME NEW Y \in SUBSET X, Y # X, Y \in Bad
      PROVE  FALSE
    <2>1. <<Y, X>> \in StrictSubsetOrdering(S)
        BY <1>3 DEF StrictSubsetOrdering
    <2>. QED
        BY <1>2, <1>3, <2>1
<1>. QED
    BY <1>2, <1>3

LEMMA SmallestNumber ==
    ASSUME NEW Bad \in SUBSET Nat, Bad # {}
    PROVE  \E n \in Bad : \A m \in Nat : m < n => m \notin Bad
<1>. DEFINE R == {ss \in Nat \X Nat : ss[1] < ss[2]}
<1>1. IsWellFoundedOn(R, Nat)
    BY NatLessThanWellFounded DEF OpToRel
<1>2. ASSUME NEW m \in Nat, NEW n \in Nat, m < n
      PROVE  <<m, n>> \in R
    BY <1>2
<1>. HIDE DEF R
<1>3. PICK n \in Bad : \A m \in Bad : ~ (<<m, n>> \in R)
    BY <1>1, WFMin
<1>. QED
    BY <1>2, <1>3

\* The element the fold takes out.
First(s) == CHOOSE x \in s : TRUE

LEMMA FirstIn == ASSUME NEW s, s # {} PROVE First(s) \in s
  BY DEF First

\* What the fold computes: the sums of all subsets.
Accumulates(sum, f, S) ==
    sum = [s \in SUBSET S |-> IF s = {} THEN 0 ELSE f[First(s)] + sum[s \ {First(s)}]]

Partial(f, S) == CHOOSE sum : Accumulates(sum, f, S)

LEMMA SumIsPartial == ASSUME NEW f, NEW S PROVE SumOver(f, S) = Partial(f, S)[S]
  BY Zenon DEF SumOver, MapThenSumSet, MapThenFoldSet, Partial, Accumulates, First

LEMMA AccumulatedAt ==
    ASSUME NEW sum, NEW f, NEW S, Accumulates(sum, f, S)
    PROVE  \A s \in SUBSET S : sum[s] = IF s = {} THEN 0 ELSE f[First(s)] + sum[s \ {First(s)}]
<1>1. sum = [t \in SUBSET S |-> IF t = {} THEN 0 ELSE f[First(t)] + sum[t \ {First(t)}]]
    BY Zenon DEF Accumulates
<1>. QED
    BY <1>1

Alike(f, g, s) == \A x \in s : f[x] = g[x]

\* Two accumulations agree where their summands do.
LEMMA SumsAgree ==
    ASSUME NEW f, NEW g, NEW S, NEW T, NEW s, IsFiniteSet(s), s \in SUBSET S, s \in SUBSET T,
           Alike(f, g, s),
           NEW sum, Accumulates(sum, f, S), NEW tum, Accumulates(tum, g, T)
    PROVE  sum[s] = tum[s]
<1>. DEFINE Bad == {t \in SUBSET s : sum[t] # tum[t]}
<1>. SUFFICES ASSUME Bad # {} PROVE FALSE
    OBVIOUS
<1>1. PICK X \in Bad : \A Y \in SUBSET X : Y # X => Y \notin Bad
    <2>1. Bad \in SUBSET (SUBSET s)
        OBVIOUS
    <2>. HIDE DEF Bad
    <2>. QED
        BY <2>1, SmallestSubset
<1>2. X \in SUBSET S /\ X \in SUBSET T /\ X \in SUBSET s /\ sum[X] # tum[X]
    OBVIOUS
<1>3. \A Y \in SUBSET X : Y # X => sum[Y] = tum[Y]
    BY <1>1, <1>2
<1>. HIDE DEF Bad
<1>4. sum[X] = IF X = {} THEN 0 ELSE f[First(X)] + sum[X \ {First(X)}]
    BY <1>2, AccumulatedAt
<1>5. tum[X] = IF X = {} THEN 0 ELSE g[First(X)] + tum[X \ {First(X)}]
    BY <1>2, AccumulatedAt
<1>6. X # {}
    BY <1>2, <1>4, <1>5
<1>7. First(X) \in X /\ f[First(X)] = g[First(X)]
    BY <1>2, <1>6, FirstIn DEF Alike
<1>8. sum[X \ {First(X)}] = tum[X \ {First(X)}]
    BY <1>3, <1>7
<1>. QED
    BY <1>2, <1>4, <1>5, <1>6, <1>7, <1>8

\* So do two accumulations of the same summands.
LEMMA PartsAgree ==
    ASSUME NEW f, NEW S, NEW T, IsFiniteSet(T), T \in SUBSET S,
           NEW sum, Accumulates(sum, f, S), NEW tum, Accumulates(tum, f, T)
    PROVE  sum[T] = tum[T]
<1>1. T \in SUBSET T /\ Alike(f, f, T)
    BY DEF Alike
<1>. QED
    BY <1>1, SumsAgree

LEMMA SumsExist ==
    ASSUME NEW f, NEW S, IsFiniteSet(S)
    PROVE  Accumulates(Partial(f, S), f, S)
<1>. DEFINE Bad == {t \in SUBSET S : ~ \E sum : Accumulates(sum, f, t)}
<1>. SUFFICES ASSUME Bad # {} PROVE FALSE
    BY DEF Partial
<1>1. PICK X \in Bad : \A Y \in SUBSET X : Y # X => Y \notin Bad
    <2>1. Bad \in SUBSET (SUBSET S)
        OBVIOUS
    <2>. HIDE DEF Bad
    <2>. QED
        BY <2>1, SmallestSubset
<1>2. IsFiniteSet(X)
    BY FS_Subset
<1>3. \A Y \in SUBSET X : Y # X => Accumulates(Partial(f, Y), f, Y)
    BY <1>1 DEF Partial
<1>. DEFINE rest(t) == t \ {First(t)}
            sum == [t \in SUBSET X |-> IF t = {} THEN 0
                                       ELSE f[First(t)] + Partial(f, rest(t))[rest(t)]]
<1>4. ASSUME NEW t \in SUBSET X, t # {}
      PROVE  sum[rest(t)] = Partial(f, rest(t))[rest(t)]
    <2>. DEFINE u == rest(t)
    <2>1. u \in SUBSET X /\ u # X
        BY <1>4, FirstIn
    <2>2. Accumulates(Partial(f, u), f, u)
        BY <1>3, <2>1
    <2>3. Partial(f, u)[u] = IF u = {} THEN 0 ELSE f[First(u)] + Partial(f, u)[rest(u)]
        <3>. HIDE DEF u
        <3>. QED
            BY <2>2, AccumulatedAt
    <2>4. sum[u] = IF u = {} THEN 0 ELSE f[First(u)] + Partial(f, rest(u))[rest(u)]
        BY <2>1
    <2>5. ASSUME u # {}
          PROVE  Partial(f, u)[rest(u)] = Partial(f, rest(u))[rest(u)]
        <3>. HIDE DEF u
        <3>1. First(u) \in u
            BY <2>5, FirstIn
        <3>2. Accumulates(Partial(f, rest(u)), f, rest(u))
            BY <1>3, <2>1, <3>1
        <3>3. IsFiniteSet(rest(u))
            BY <1>2, <2>1, FS_Subset
        <3>4. rest(u) \in SUBSET u
            OBVIOUS
        <3>. HIDE DEF rest
        <3>. QED
            BY <2>2, <3>2, <3>3, <3>4, PartsAgree
    <2>. HIDE DEF u, sum, rest
    <2>6. sum[u] = Partial(f, u)[u]
        BY <2>3, <2>4, <2>5
    <2>. QED
        BY <2>6 DEF u
<1>5. Accumulates(sum, f, X)
    <2>1. \A t \in SUBSET X : sum[t] = IF t = {} THEN 0 ELSE f[First(t)] + sum[rest(t)]
        BY <1>4
    <2>2. sum = [t \in SUBSET X |-> sum[t]]
        OBVIOUS
    <2>. HIDE DEF sum
    <2>. QED
        BY <2>1, <2>2 DEF Accumulates
<1>. HIDE DEF sum
<1>. QED
    BY <1>5

\* A sum depends on its summands alone.
LEMMA SameSum ==
    ASSUME NEW f, NEW g, NEW S, IsFiniteSet(S), \A x \in S : f[x] = g[x]
    PROVE  SumOver(f, S) = SumOver(g, S)
<1>1. Accumulates(Partial(f, S), f, S) /\ Accumulates(Partial(g, S), g, S)
    BY SumsExist
<1>2. S \in SUBSET S /\ Alike(f, g, S)
    BY DEF Alike
<1>3. Partial(f, S)[S] = Partial(g, S)[S]
    BY <1>1, <1>2, SumsAgree
<1>. QED
    BY <1>3, SumIsPartial

LEMMA SumAsFolded ==
    ASSUME NEW f, NEW S, IsFiniteSet(S)
    PROVE  SumOver(f, S) = IF S = {} THEN 0 ELSE f[First(S)] + SumOver(f, S \ {First(S)})
<1>. DEFINE R == S \ {First(S)}
<1>1. Accumulates(Partial(f, S), f, S)
    BY SumsExist
<1>2. IsFiniteSet(R) /\ R \in SUBSET S
    BY FS_Subset
<1>3. Partial(f, S)[S] = IF S = {} THEN 0 ELSE f[First(S)] + Partial(f, S)[R]
    BY <1>1, AccumulatedAt
<1>. HIDE DEF R
<1>4. Accumulates(Partial(f, R), f, R)
    BY <1>2, SumsExist
<1>5. Partial(f, S)[R] = Partial(f, R)[R]
    BY <1>1, <1>2, <1>4, PartsAgree
<1>6. SumOver(f, S) = Partial(f, S)[S] /\ SumOver(f, R) = Partial(f, R)[R]
    BY SumIsPartial
<1>. QED
    BY <1>3, <1>5, <1>6 DEF R

LEMMA SumIsInt ==
    ASSUME NEW f, NEW S, IsFiniteSet(S), \A x \in S : f[x] \in Int
    PROVE  SumOver(f, S) \in Int
<1>. DEFINE Bad == {t \in SUBSET S : SumOver(f, t) \notin Int}
<1>. SUFFICES ASSUME Bad # {} PROVE FALSE
    OBVIOUS
<1>1. PICK X \in Bad : \A Y \in SUBSET X : Y # X => Y \notin Bad
    <2>1. Bad \in SUBSET (SUBSET S)
        OBVIOUS
    <2>. HIDE DEF Bad
    <2>. QED
        BY <2>1, SmallestSubset
<1>2. IsFiniteSet(X)
    BY FS_Subset
<1>3. SumOver(f, X) = IF X = {} THEN 0 ELSE f[First(X)] + SumOver(f, X \ {First(X)})
    BY <1>2, SumAsFolded
<1>4. X # {} => First(X) \in X
    BY FirstIn
<1>5. X # {} => SumOver(f, X \ {First(X)}) \in Int
    BY <1>1, <1>4
<1>. QED
    BY <1>3, <1>4, <1>5

\* Any summand may be taken out, not only the one the fold takes out.
LEMMA SumWithout ==
    ASSUME NEW f, NEW S, IsFiniteSet(S), \A x \in S : f[x] \in Int, NEW z \in S
    PROVE  SumOver(f, S) = f[z] + SumOver(f, S \ {z})
<1>. DEFINE Out(t, y) == SumOver(f, t) = f[y] + SumOver(f, t \ {y})
            Bad == {t \in SUBSET S : \E y \in t : ~ Out(t, y)}
<1>. SUFFICES ASSUME Bad # {} PROVE FALSE
    OBVIOUS
<1>1. PICK X \in Bad : \A Y \in SUBSET X : Y # X => Y \notin Bad
    <2>1. Bad \in SUBSET (SUBSET S)
        OBVIOUS
    <2>. HIDE DEF Bad
    <2>. QED
        BY <2>1, SmallestSubset
<1>2. PICK y \in X : ~ Out(X, y)
    OBVIOUS
<1>. DEFINE p == First(X)
<1>3. p \in X
    BY FirstIn
<1>4. /\ IsFiniteSet(X) /\ IsFiniteSet(X \ {y}) /\ IsFiniteSet(X \ {p})
      /\ IsFiniteSet((X \ {p}) \ {y})
    BY FS_Subset
<1>5. SumOver(f, X) = f[p] + SumOver(f, X \ {p})
    BY <1>3, <1>4, SumAsFolded
<1>6. p # y
    BY <1>2, <1>5
<1>7. X \ {p} \notin Bad /\ X \ {y} \notin Bad
    BY <1>1, <1>2, <1>3
<1>8. Out(X \ {p}, y) /\ Out(X \ {y}, p)
    BY <1>2, <1>3, <1>6, <1>7
<1>9. (X \ {y}) \ {p} = (X \ {p}) \ {y}
    OBVIOUS
<1>10. f[p] \in Int /\ f[y] \in Int /\ SumOver(f, (X \ {p}) \ {y}) \in Int
    BY <1>3, <1>4, SumIsInt
<1>11. /\ SumOver(f, X) # f[y] + SumOver(f, X \ {y})
       /\ SumOver(f, X \ {p}) = f[y] + SumOver(f, (X \ {p}) \ {y})
       /\ SumOver(f, X \ {y}) = f[p] + SumOver(f, (X \ {p}) \ {y})
    BY <1>2, <1>8, <1>9
<1>. HIDE DEF p, Bad, Out
<1>. QED
    BY <1>5, <1>10, <1>11

\* One summand raised raises the sum by as much.
LEMMA SumRaised ==
    ASSUME NEW f, NEW S, IsFiniteSet(S), \A x \in S : f[x] \in Int, NEW z \in S, NEW d \in Int,
           NEW g, \A x \in S : g[x] = IF x = z THEN f[x] + d ELSE f[x]
    PROVE  SumOver(g, S) = SumOver(f, S) + d
<1>1. \A x \in S : g[x] \in Int
    OBVIOUS
<1>2. IsFiniteSet(S \ {z})
    BY FS_Subset
<1>3. SumOver(f, S \ {z}) = SumOver(g, S \ {z})
    BY <1>2, SameSum
<1>4. /\ SumOver(f, S) = f[z] + SumOver(f, S \ {z})
      /\ SumOver(g, S) = g[z] + SumOver(g, S \ {z})
    BY <1>1, SumWithout
<1>5. SumOver(f, S \ {z}) \in Int
    BY <1>2, SumIsInt
<1>. QED
    BY <1>3, <1>4, <1>5

LEMMA SumIsNat ==
    ASSUME NEW f, NEW S, IsFiniteSet(S), \A x \in S : f[x] \in Nat
    PROVE  SumOver(f, S) \in Nat
<1>. DEFINE Bad == {t \in SUBSET S : SumOver(f, t) \notin Nat}
<1>. SUFFICES ASSUME Bad # {} PROVE FALSE
    OBVIOUS
<1>1. PICK X \in Bad : \A Y \in SUBSET X : Y # X => Y \notin Bad
    <2>1. Bad \in SUBSET (SUBSET S)
        OBVIOUS
    <2>. HIDE DEF Bad
    <2>. QED
        BY <2>1, SmallestSubset
<1>2. IsFiniteSet(X)
    BY FS_Subset
<1>3. SumOver(f, X) = IF X = {} THEN 0 ELSE f[First(X)] + SumOver(f, X \ {First(X)})
    BY <1>2, SumAsFolded
<1>4. X # {} => First(X) \in X
    BY FirstIn
<1>5. X # {} => SumOver(f, X \ {First(X)}) \in Nat
    BY <1>1, <1>4
<1>. QED
    BY <1>3, <1>4, <1>5

LEMMA SumIsPositive ==
    ASSUME NEW f, NEW S, IsFiniteSet(S), \A x \in S : f[x] \in Nat, NEW z \in S, f[z] > 0
    PROVE  SumOver(f, S) \in Nat \ {0}
<1>1. IsFiniteSet(S \ {z})
    BY FS_Subset
<1>2. SumOver(f, S) = f[z] + SumOver(f, S \ {z})
    BY SumWithout
<1>3. SumOver(f, S \ {z}) \in Nat
    BY <1>1, SumIsNat
<1>. QED
    BY <1>2, <1>3

----------------------------------------------------------------------------
\* Types

EditOps == {"exhibit", "heading", "seeder"}

\* Where a request is goes with what it was asked and what it holds.
PlacedAs(label, c, held) ==
    /\ label \notin {"idle", "done", "stopped"} => c \in Calls
    /\ label \in {"loading", "seeding", "rolling"} => c.book # 0
    /\ label = "seeding" => held.at = 1
    /\ label = "rolling" => held.at \in State
    /\ label \in {"exhibit", "heading", "seeder", "mappings"} => c.op = label
    /\ label = "headed" => c.op = "heading"
    /\ held.changed =>
          /\ label \in {"loading", "seeding", "rolling", "summing", "totalling"}
          /\ c.op \in EditOps

Placed(r) == PlacedAs(pc[r], call[r], local[r])

\* Strengthening of TypeOK, but for unsummed.
Types ==
    /\ rows \in [Book -> [Code -> Row]]
    /\ pc \in [Request -> Labels]
    /\ call \in [Request -> Calls \cup {Absent}]
    /\ local \in [Request -> Locals]
    /\ changed \in [Request -> SUBSET Book]
    /\ overlap \in BOOLEAN
    /\ settled \in Book

Typed == Types /\ \A r \in Request : Placed(r)

LEMMA Constants ==
    /\ 0 \in Book /\ LastMonth \in Book /\ 1 \in State /\ NumStates \in State
    /\ Book \subseteq Nat /\ State \subseteq Nat \ {0}
    /\ \A b \in Book : b # 0 => b - 1 \in Book
  BY ConstantAssumption DEF Book, State

LEMMA StateIsFinite == IsFiniteSet(State)
  BY ConstantAssumption, FS_Interval DEF State

LEMMA CallTypes ==
    ASSUME NEW c \in Calls
    PROVE  /\ c.book \in Book
           /\ c.op \in {"read", "mappings", "exhibit", "heading", "seeder"}
           /\ c.op \in {"exhibit", "seeder"} => c.state \in State
           /\ c.op \in EditOps => c.amount \in Int /\ c.field \in Fields
           /\ c.op = "seeder" => c.book = 0
<1>1. \/ c \in [op : {"read", "mappings"}, book : Book]
      \/ c \in [op : {"exhibit"}, book : Book, state : State, field : Editable, amount : Movement]
      \/ c \in [op : {"heading"}, book : Book, field : Editable, amount : Heading]
      \/ c \in [op : {"seeder"}, book : {0}, state : State, field : Editable, amount : Movement]
    BY Zenon DEF Calls
<1>2. Movement \subseteq Int /\ Heading \subseteq Int /\ Editable \subseteq Fields /\ 0 \in Book
    BY ConstantAssumption, Constants
<1>3. CASE c \in [op : {"read", "mappings"}, book : Book]
    BY <1>3 DEF EditOps
<1>4. CASE c \in [op : {"exhibit"}, book : Book, state : State, field : Editable, amount : Movement]
    BY <1>2, <1>4 DEF EditOps
<1>5. CASE c \in [op : {"heading"}, book : Book, field : Editable, amount : Heading]
    BY <1>2, <1>5 DEF EditOps
<1>6. CASE c \in [op : {"seeder"}, book : {0}, state : State, field : Editable, amount : Movement]
    BY <1>2, <1>6 DEF EditOps
<1>. QED
    BY <1>1, <1>3, <1>4, <1>5, <1>6

LEMMA RollTyped ==
    ASSUME NEW row \in Row, NEW prev \in Row
    PROVE  /\ Roll(row, prev) \in Row
           /\ Roll(row, prev)["ibnr"] = Carried(prev) + row["movement"]
           /\ Roll(row, prev)["prior"] = Carried(prev)
           /\ Roll(row, prev)["movement"] = row["movement"]
           /\ Roll(row, prev)["unpaid"] = row["unpaid"]
<1>1. Carried(prev) \in Int
    BY DEF Carried, Row, Fields
<1>2. row["movement"] \in Int
    BY DEF Row, Fields
<1>. QED
    BY <1>1, <1>2 DEF Roll, Row, Fields

LEMMA SumsTyped ==
    ASSUME NEW e, \A s \in State : e[s] \in Row
    PROVE  Sums(e) \in Row
<1>1. ASSUME NEW k \in Fields
      PROVE  SumOver([s \in State |-> e[s][k]], State) \in Int
    <2>1. \A s \in State : [t \in State |-> e[t][k]][s] \in Int
        BY DEF Row
    <2>. QED
        BY <2>1, StateIsFinite, SumIsInt
<1>. QED
    BY <1>1 DEF Sums, Row

LEMMA BlankTyped == Blank \in [Code -> Row]
  BY DEF Blank, Row

LEMMA ForgottenTyped == Forgotten \in Locals /\ Forgotten.changed = FALSE
<1>1. 1 \in 1 .. NumStates + 1
    BY ConstantAssumption
<1>. QED
    BY <1>1, BlankTyped DEF Forgotten, Locals

LEMMA LocalFields ==
    ASSUME NEW h \in Locals
    PROVE  /\ h.own \in [Code -> Row] /\ h.prev \in [Code -> Row] /\ h.copy \in [Code -> Row]
           /\ h.at \in 1 .. NumStates + 1 /\ h.changed \in BOOLEAN
           /\ \A e \in [Code -> Row] :
                 /\ [h EXCEPT !.own = e] \in Locals /\ [h EXCEPT !.prev = e] \in Locals
                 /\ [h EXCEPT !.copy = e] \in Locals
           /\ \A n \in 1 .. NumStates + 1 : [h EXCEPT !.at = n] \in Locals
           /\ \A c \in BOOLEAN : [h EXCEPT !.changed = c] \in Locals
  BY DEF Locals

\* One row of a set of exhibits replaced.
LEMMA RowReplaced ==
    ASSUME NEW e \in [Code -> Row], NEW c \in Code, NEW row \in Row
    PROVE  /\ [e EXCEPT ![c] = row] \in [Code -> Row]
           /\ [e EXCEPT ![c] = row][c] = row
           /\ \A d \in Code \ {c} : [e EXCEPT ![c] = row][d] = e[d]
  OBVIOUS

LEMMA FieldReplaced ==
    ASSUME NEW row \in Row, NEW k \in Fields, NEW n \in Int
    PROVE  /\ [row EXCEPT ![k] = n] \in Row
           /\ [row EXCEPT ![k] = n][k] = n
           /\ \A j \in Fields \ {k} : [row EXCEPT ![k] = n][j] = row[j]
  BY DEF Row

----------------------------------------------------------------------------
\* What is entered for TOTAL is spread without loss.

LEMMA RoundIsInt ==
    ASSUME NEW n \in Int, NEW d \in Nat \ {0}
    PROVE  Round(n, d) \in Int
<1>1. 2 * n + d \in Int /\ 2 * d \in Int /\ 2 * d > 0
    OBVIOUS
<1>. DEFINE a == 2 * n + d
            m == 2 * d
<1>. HIDE DEF a, m
<1>2. a \div m \in Int
    BY <1>1 DEF a, m
<1>. QED
    BY <1>2 DEF Round, a, m

LEMMA WeightTyped ==
    ASSUME NEW held, \A s \in State : held[s] \in Int
    PROVE  /\ Weight(held) = [s \in State |-> Weight(held)[s]]
           /\ \A s \in State : Weight(held)[s] \in Nat
           /\ \E s \in State : Weight(held)[s] > 0
<1>1. CASE \E s \in State : held[s] # 0
    <2>1. Weight(held) = [s \in State |-> Abs(held[s])]
        BY <1>1 DEF Weight
    <2>2. \A s \in State : Weight(held)[s] = Abs(held[s])
        BY <2>1
    <2>3. \A s \in State : Abs(held[s]) \in Nat /\ (held[s] # 0 => Abs(held[s]) > 0)
        BY DEF Abs
    <2>. QED
        BY <1>1, <2>1, <2>2, <2>3
<1>2. CASE ~ \E s \in State : held[s] # 0
    <2>1. Weight(held) = [s \in State |-> 1]
        BY <1>2 DEF Weight
    <2>. QED
        BY <2>1, Constants
<1>. QED
    BY <1>1, <1>2

\* Some state of the largest weight comes first.
LEMMA HeaviestExists ==
    ASSUME NEW weight, \A s \in State : weight[s] \in Nat
    PROVE  Heaviest(weight) \in State
<1>. DEFINE Before(s, t) == weight[t] < weight[s] \/ (weight[t] = weight[s] /\ s <= t)
            Bad == {X \in SUBSET State : X # {} /\ ~ \E s \in X : \A t \in X : Before(s, t)}
<1>1. ASSUME Bad # {} PROVE FALSE
    <2>1. PICK X \in Bad : \A Y \in SUBSET X : Y # X => Y \notin Bad
        <3>1. Bad \in SUBSET (SUBSET State)
            OBVIOUS
        <3>. HIDE DEF Bad
        <3>. QED
            BY <1>1, <3>1, StateIsFinite, SmallestSubset
    <2>2. PICK z \in X : TRUE
        OBVIOUS
    <2>3. X \in SUBSET State /\ z \in State
        OBVIOUS
    <2>4. CASE X \ {z} = {}
        <3>1. \A t \in X : t = z
            BY <2>4
        <3>2. Before(z, z)
            BY <2>3, Constants
        <3>. QED
            BY <2>2, <3>1, <3>2
    <2>5. CASE X \ {z} # {}
        <3>1. X \ {z} \notin Bad
            BY <2>1, <2>2
        <3>2. PICK s \in X \ {z} : \A t \in X \ {z} : Before(s, t)
            BY <2>3, <2>5, <3>1
        <3>3. s \in State /\ weight[s] \in Nat /\ weight[z] \in Nat /\ s \in Nat /\ z \in Nat
            BY <2>3, <3>2, Constants
        <3>4. CASE Before(s, z)
            <4>1. \A t \in X : Before(s, t)
                BY <3>2, <3>4
            <4>. QED
                BY <3>2, <4>1
        <3>5. CASE ~ Before(s, z)
            <4>1. Before(z, s)
                BY <3>3, <3>5
            <4>2. ASSUME NEW t \in X PROVE Before(z, t)
                <5>1. t = z \/ Before(s, t)
                    BY <3>2
                <5>2. t \in State /\ weight[t] \in Nat /\ t \in Nat
                    BY <2>3, Constants
                <5>. QED
                    BY <3>3, <4>1, <5>1, <5>2
            <4>. QED
                BY <2>2, <4>2
        <3>. QED
            BY <3>4, <3>5
    <2>. QED
        BY <2>4, <2>5
<1>2. State \in SUBSET State /\ State # {}
    BY Constants
<1>3. \E s \in State : \A t \in State : Before(s, t)
    BY <1>1, <1>2
<1>. QED
    BY <1>3 DEF Heaviest

\* The shares are whole numbers and add up to what was entered.
LEMMA SpreadAddsUp ==
    ASSUME NEW amount \in Int, NEW held, \A s \in State : held[s] \in Int
    PROVE  LET share == Spread(amount, Weight(held)) IN
           /\ share = [s \in State |-> share[s]]
           /\ \A s \in State : share[s] \in Int
           /\ SumOver(share, State) = amount
<1>. DEFINE weight == Weight(held)
            total == SumOver(weight, State)
            rounded == [s \in State |-> Round(amount * weight[s], total)]
            rest == amount - SumOver(rounded, State)
            h == Heaviest(weight)
            share == Spread(amount, weight)
<1>1. /\ \A s \in State : weight[s] \in Nat
      /\ \E s \in State : weight[s] > 0
    BY WeightTyped
<1>2. total \in Nat \ {0}
    BY <1>1, StateIsFinite, SumIsPositive
<1>3. h \in State
    BY <1>1, HeaviestExists
<1>. HIDE DEF weight, total
<1>4. \A s \in State : rounded[s] \in Int
    <2>1. ASSUME NEW s \in State PROVE Round(amount * weight[s], total) \in Int
        <3>1. amount * weight[s] \in Int
            BY <1>1
        <3>. QED
            BY <1>2, <3>1, RoundIsInt
    <2>. QED
        BY <2>1
<1>5. share = [rounded EXCEPT ![h] = @ + amount - SumOver(rounded, State)]
    BY DEF Spread, total
<1>. HIDE DEF rounded, h, share
<1>6. SumOver(rounded, State) \in Int
    BY <1>4, StateIsFinite, SumIsInt
<1>7. rest \in Int
    BY <1>6
<1>8. rounded = [s \in State |-> rounded[s]]
    BY DEF rounded
<1>9. /\ share = [s \in State |-> share[s]]
      /\ \A s \in State : share[s] = IF s = h THEN rounded[s] + rest ELSE rounded[s]
    BY <1>3, <1>4, <1>5, <1>6, <1>8
<1>. HIDE DEF rest
<1>10. SumOver(share, State) = SumOver(rounded, State) + rest
    BY <1>3, <1>4, <1>7, <1>9, StateIsFinite, SumRaised
<1>11. SumOver(rounded, State) + rest = amount
    BY <1>6 DEF rest
<1>. QED
    BY <1>4, <1>7, <1>9, <1>10, <1>11 DEF share, weight

----------------------------------------------------------------------------
\* What is defined from month to month is defined.

Follows(f, V, start, step) ==
    /\ f \in [Book -> V]
    /\ \A b \in Book : f[b] = IF b = 0 THEN start ELSE step[<<b, f[b - 1]>>]

LEMMA Recursion ==
    ASSUME NEW V, NEW start \in V, NEW step \in [Book \X V -> V]
    PROVE  \E f : Follows(f, V, start, step)
<1>. DEFINE Upto(n, f) == \A b \in 0 .. n : f[b] = IF b = 0 THEN start ELSE step[<<b, f[b - 1]>>]
            Bad == {n \in Book : ~ \E f \in [0 .. n -> V] : Upto(n, f)}
<1>1. ASSUME Bad # {} PROVE FALSE
    <2>1. PICK n \in Bad : \A m \in Nat : m < n => m \notin Bad
        <3>1. Bad \in SUBSET Nat
            BY Constants
        <3>. HIDE DEF Bad
        <3>. QED
            BY <1>1, <3>1, SmallestNumber
    <2>2. n \in Book /\ n \in Nat /\ ~ \E f \in [0 .. n -> V] : Upto(n, f)
        BY Constants
    <2>3. n # 0
        <3>. DEFINE f == [b \in 0 .. 0 |-> start]
        <3>1. f \in [0 .. 0 -> V] /\ Upto(0, f)
            OBVIOUS
        <3>. QED
            BY <2>2, <3>1
    <2>4. n - 1 \in Book /\ n - 1 \in Nat /\ n - 1 < n
        BY <2>2, <2>3, Constants
    <2>5. n - 1 \notin Bad
        BY <2>1, <2>4
    <2>6. PICK f \in [0 .. n - 1 -> V] : Upto(n - 1, f)
        BY <2>4, <2>5
    <2>7. f[n - 1] \in V /\ <<n, f[n - 1]>> \in Book \X V
        BY <2>2, <2>4, <2>6
    <2>8. step[<<n, f[n - 1]>>] \in V
        BY <2>7
    <2>. DEFINE g == [b \in 0 .. n |-> IF b = n THEN step[<<n, f[n - 1]>>] ELSE f[b]]
    <2>9. g \in [0 .. n -> V]
        BY <2>2, <2>4, <2>6, <2>8
    <2>10. ASSUME NEW b \in 0 .. n
           PROVE  g[b] = IF b = 0 THEN start ELSE step[<<b, g[b - 1]>>]
        <3>1. CASE b = n
            <4>1. n - 1 \in 0 .. n /\ n - 1 # n
                BY <2>2, <2>3
            <4>2. g[n - 1] = f[n - 1]
                BY <4>1
            <4>. QED
                BY <2>3, <3>1, <4>2
        <3>2. CASE b # n
            <4>1. b \in 0 .. n - 1 /\ g[b] = f[b]
                BY <2>2, <3>2
            <4>2. b # 0 => g[b - 1] = f[b - 1]
                BY <2>2, <4>1
            <4>. QED
                BY <2>6, <4>1, <4>2
        <3>. QED
            BY <3>1, <3>2
    <2>. HIDE DEF g
    <2>11. Upto(n, g)
        BY <2>10
    <2>. QED
        BY <2>2, <2>9, <2>11
<1>2. LastMonth \notin Bad
    BY <1>1
<1>3. PICK f \in [0 .. LastMonth -> V] : Upto(LastMonth, f)
    BY <1>2, Constants
<1>. QED
    BY <1>3 DEF Book, Follows

\* The reserves of a month follow from those of the month before.
LEMMA EndsFollow ==
    ASSUME NEW entered \in [Book -> [Code -> Row]]
    PROVE  \A b \in Book, s \in State :
              EndsOf(entered)[b][s] =
                  IF b = 0 THEN entered[0][s]["ibnr"]
                  ELSE (IF EndsOf(entered)[b - 1][s] # 0 THEN EndsOf(entered)[b - 1][s]
                                                         ELSE entered[b - 1][s]["unpaid"])
                       + entered[b][s]["movement"]
<1>. DEFINE V == [State -> Int]
            start == [s \in State |-> entered[0][s]["ibnr"]]
            Next1(b, last) ==
                [s \in State |-> (IF last[s] # 0 THEN last[s] ELSE entered[b - 1][s]["unpaid"])
                                 + entered[b][s]["movement"]]
            step == [p \in Book \X V |-> IF p[1] = 0 THEN start ELSE Next1(p[1], p[2])]
            Of(ends) ==
                ends = [b \in Book |->
                           [s \in State |->
                               IF b = 0 THEN entered[0][s]["ibnr"]
                               ELSE (IF ends[b - 1][s] # 0 THEN ends[b - 1][s]
                                                           ELSE entered[b - 1][s]["unpaid"])
                                    + entered[b][s]["movement"]]]
<1>1. \A b \in Book, s \in State, k \in {"ibnr", "movement", "unpaid"} : entered[b][s][k] \in Int
    BY StatesAreCodes DEF Row, Fields
<1>2. start \in V
    BY <1>1, Constants
<1>3. ASSUME NEW b \in Book, NEW last \in V, b # 0
      PROVE  Next1(b, last) \in V
    BY <1>1, <1>3, Constants
<1>. HIDE DEF V
<1>4. step \in [Book \X V -> V]
    <2>1. ASSUME NEW p \in Book \X V
          PROVE  (IF p[1] = 0 THEN start ELSE Next1(p[1], p[2])) \in V
        BY <1>2, <1>3
    <2>. HIDE DEF start, Next1
    <2>. QED
        BY <2>1
<1>. HIDE DEF step
<1>5. PICK f \in [Book -> V] : \A b \in Book : f[b] = IF b = 0 THEN start ELSE step[<<b, f[b - 1]>>]
    <2>. HIDE DEF start, Next1, Of
    <2>1. \E f : Follows(f, V, start, step)
        BY <1>2, <1>4, Recursion
    <2>. QED
        BY <2>1 DEF Follows
<1>6. Of(f)
    <2>1. ASSUME NEW b \in Book
          PROVE  f[b] = [s \in State |->
                            IF b = 0 THEN entered[0][s]["ibnr"]
                            ELSE (IF f[b - 1][s] # 0 THEN f[b - 1][s]
                                                     ELSE entered[b - 1][s]["unpaid"])
                                 + entered[b][s]["movement"]]
        <3>1. CASE b = 0
            BY <1>5, <3>1
        <3>2. CASE b # 0
            <4>1. b - 1 \in Book /\ f[b - 1] \in V
                BY <1>5, <3>2, Constants
            <4>2. step[<<b, f[b - 1]>>] = Next1(b, f[b - 1])
                BY <3>2, <4>1 DEF step
            <4>. QED
                BY <1>5, <3>2, <4>2
        <3>. QED
            BY <3>1, <3>2
    <2>2. f = [b \in Book |-> f[b]]
        BY <1>5
    <2>. QED
        BY <2>1, <2>2
<1>. DEFINE ends == CHOOSE e : Of(e)
<1>7. Of(ends)
    <2>. HIDE DEF Of
    <2>. QED
        BY <1>6
<1>8. EndsOf(entered) = ends
    BY Zenon DEF EndsOf
<1>. HIDE DEF ends
<1>9. ASSUME NEW b \in Book, NEW s \in State
      PROVE  ends[b][s] = IF b = 0 THEN entered[0][s]["ibnr"]
                          ELSE (IF ends[b - 1][s] # 0 THEN ends[b - 1][s]
                                                      ELSE entered[b - 1][s]["unpaid"])
                               + entered[b][s]["movement"]
    <2>1. ends[b] = [t \in State |->
                        IF b = 0 THEN entered[0][t]["ibnr"]
                        ELSE (IF ends[b - 1][t] # 0 THEN ends[b - 1][t]
                                                    ELSE entered[b - 1][t]["unpaid"])
                             + entered[b][t]["movement"]]
        BY <1>7, Zenon
    <2>. QED
        BY <2>1
<1>. QED
    BY <1>8, <1>9

LEMMA SumsOfStates ==
    ASSUME NEW e, NEW f, \A s \in State : e[s] = f[s]
    PROVE  Sums(e) = Sums(f)
<1>1. ASSUME NEW k \in Fields
      PROVE  [s \in State |-> e[s][k]] = [s \in State |-> f[s][k]]
    OBVIOUS
<1>. QED
    BY <1>1 DEF Sums

\* What the files hold, and the roll-forward of it.
File(filed) ==
    [b \in Book |-> [s \in State |->
        [k \in Fields |-> IF k \in Entered THEN filed[b][s][k]
                          ELSE IF b = 0 /\ k = "ibnr" THEN filed[b][s]["movement"] ELSE 0]]]

LEMMA RolledFollows ==
    ASSUME NEW filed \in Filed
    PROVE  \A b \in Book :
              /\ Rolled(filed)[b] \in [State -> Row]
              /\ b # 0 => \A s \in State :
                     Rolled(filed)[b][s] = Roll(File(filed)[b][s], Rolled(filed)[b - 1][s])
<1>. DEFINE V == [State -> Row]
            file == File(filed)
            Next1(b, last) == [s \in State |-> Roll(file[b][s], last[s])]
            step == [p \in Book \X V |-> Next1(p[1], p[2])]
            Of(rolled) ==
                rolled = [b \in Book |->
                             IF b = 0 THEN file[0]
                             ELSE [s \in State |-> Roll(file[b][s], rolled[b - 1][s])]]
<1>1. \A b \in Book : file[b] \in V
    <2>1. filed \in [Book -> [State -> [Entered -> Int]]]
        BY ConstantAssumption
    <2>2. ASSUME NEW b \in Book, NEW s \in State, NEW k \in Fields
          PROVE  (IF k \in Entered THEN filed[b][s][k]
                  ELSE IF b = 0 /\ k = "ibnr" THEN filed[b][s]["movement"] ELSE 0) \in Int
        <3>1. filed[b][s] \in [Entered -> Int] /\ "movement" \in Entered
            BY <2>1 DEF Entered
        <3>. QED
            BY <3>1
    <2>. QED
        BY <2>2 DEF File, Row
<1>. HIDE DEF file
<1>2. ASSUME NEW b \in Book, NEW last \in V
      PROVE  Next1(b, last) \in V
    <2>1. \A s \in State : Roll(file[b][s], last[s]) \in Row
        BY <1>1, RollTyped
    <2>. QED
        BY <2>1
<1>3. step \in [Book \X V -> V]
    <2>1. \A p \in Book \X V : Next1(p[1], p[2]) \in V
        BY <1>2
    <2>. HIDE DEF Next1, V
    <2>. QED
        BY <2>1
<1>. HIDE DEF step
<1>4. PICK f \in [Book -> V] : \A b \in Book : f[b] = IF b = 0 THEN file[0] ELSE step[<<b, f[b - 1]>>]
    <2>. HIDE DEF Next1, Of, V
    <2>1. file[0] \in V
        BY <1>1, Constants
    <2>2. \E f : Follows(f, V, file[0], step)
        BY <1>3, <2>1, Recursion
    <2>. QED
        BY <2>2 DEF Follows
<1>5. Of(f)
    <2>1. ASSUME NEW b \in Book
          PROVE  f[b] = IF b = 0 THEN file[0]
                        ELSE [s \in State |-> Roll(file[b][s], f[b - 1][s])]
        <3>1. CASE b = 0
            BY <1>4, <3>1
        <3>2. CASE b # 0
            <4>1. b - 1 \in Book /\ f[b - 1] \in V
                BY <1>4, <3>2, Constants
            <4>2. step[<<b, f[b - 1]>>] = Next1(b, f[b - 1])
                BY <4>1 DEF step
            <4>. QED
                BY <1>4, <3>2, <4>2
        <3>. QED
            BY <3>1, <3>2
    <2>2. f = [b \in Book |-> f[b]]
        BY <1>4
    <2>. QED
        BY <2>1, <2>2
<1>. DEFINE rolled == CHOOSE g : Of(g)
<1>6. Of(rolled)
    <2>. HIDE DEF Of
    <2>. QED
        BY <1>5
<1>7. Rolled(filed) = rolled
    BY Zenon DEF Rolled, file, File
<1>. HIDE DEF rolled
<1>8. \A b \in Book : rolled[b] = IF b = 0 THEN file[0]
                                  ELSE [s \in State |-> Roll(file[b][s], rolled[b - 1][s])]
    BY <1>6, Zenon
<1>9. \A b \in Book : rolled[b] \in V
    <2>. DEFINE Bad == {b \in Book : rolled[b] \notin V}
    <2>. SUFFICES ASSUME Bad # {} PROVE FALSE
        OBVIOUS
    <2>1. PICK n \in Bad : \A m \in Nat : m < n => m \notin Bad
        <3>1. Bad \in SUBSET Nat
            BY Constants
        <3>. HIDE DEF Bad
        <3>. QED
            BY <3>1, SmallestNumber
    <2>2. n \in Book /\ n \in Nat /\ rolled[n] \notin V
        BY Constants
    <2>3. n # 0
        BY <1>1, <1>8, <2>2
    <2>4. n - 1 \in Book /\ n - 1 \in Nat /\ n - 1 < n
        BY <2>2, <2>3, Constants
    <2>5. rolled[n - 1] \in V
        BY <2>1, <2>4
    <2>6. rolled[n] = Next1(n, rolled[n - 1])
        BY <1>8, <2>2, <2>3
    <2>. QED
        BY <1>2, <2>2, <2>5, <2>6
<1>10. ASSUME NEW b \in Book, b # 0, NEW s \in State
       PROVE  rolled[b][s] = Roll(file[b][s], rolled[b - 1][s])
    <2>1. rolled[b] = [t \in State |-> Roll(file[b][t], rolled[b - 1][t])]
        BY <1>8, <1>10
    <2>. QED
        BY <2>1
<1>. QED
    BY <1>7, <1>9, <1>10 DEF file

\* What is uploaded is typed, adds up and is linked from month to month.
Totalled(e) == e[TOTAL] = Sums(e)

LinkedAt(s, e, prev) ==
    /\ e[s]["prior"] = Carried(prev[s])
    /\ e[s]["ibnr"] = Carried(prev[s]) + e[s]["movement"]

Linked(e, prev) == \A s \in State : LinkedAt(s, e, prev)

LEMMA UploadedSettled ==
    ASSUME NEW filed \in Filed
    PROVE  /\ Uploaded(filed) \in [Book -> [Code -> Row]]
           /\ \A b \in Book : Totalled(Uploaded(filed)[b])
           /\ \A b \in Book : b # 0 => Linked(Uploaded(filed)[b], Uploaded(filed)[b - 1])
<1>. DEFINE rolled == Rolled(filed)
            up == Uploaded(filed)
<1>1. \A b \in Book : rolled[b] \in [State -> Row] /\ Sums(rolled[b]) \in Row
    BY RolledFollows, SumsTyped
<1>2. up = [b \in Book |-> [c \in Code |-> [k \in Fields |->
               IF c = TOTAL THEN Sums(rolled[b])[k] ELSE rolled[b][c][k]]]]
    BY DEF Uploaded
<1>. HIDE DEF rolled, up
<1>3. ASSUME NEW b \in Book, NEW c \in Code
      PROVE  /\ up[b][c] = [k \in Fields |-> IF c = TOTAL THEN Sums(rolled[b])[k] ELSE rolled[b][c][k]]
             /\ up[b][c] \in Row
             /\ c \in State => up[b][c] = rolled[b][c]
             /\ c = TOTAL => up[b][c] = Sums(rolled[b])
    <2>1. up[b][c] = [k \in Fields |-> IF c = TOTAL THEN Sums(rolled[b])[k] ELSE rolled[b][c][k]]
        BY <1>2
    <2>2. c = TOTAL \/ c \in State
        BY DEF Code
    <2>3. CASE c = TOTAL
        <3>1. Sums(rolled[b]) = [k \in Fields |-> Sums(rolled[b])[k]]
            BY <1>1 DEF Row
        <3>. QED
            BY <1>1, <2>1, <2>3, <3>1, StatesAreCodes
    <2>4. CASE c \in State
        <3>1. rolled[b][c] \in Row /\ c # TOTAL
            BY <1>1, <2>4, StatesAreCodes
        <3>2. rolled[b][c] = [k \in Fields |-> rolled[b][c][k]]
            BY <3>1 DEF Row
        <3>. QED
            BY <2>1, <3>1, <3>2
    <2>. QED
        BY <2>1, <2>2, <2>3, <2>4
<1>4. up \in [Book -> [Code -> Row]]
    <2>1. up = [b \in Book |-> up[b]] /\ \A b \in Book : up[b] = [c \in Code |-> up[b][c]]
        BY <1>2
    <2>. QED
        BY <1>3, <2>1
<1>5. ASSUME NEW b \in Book PROVE Totalled(up[b])
    <2>1. \A s \in State : up[b][s] = rolled[b][s]
        BY <1>3, StatesAreCodes
    <2>2. Sums(up[b]) = Sums(rolled[b])
        BY <2>1, SumsOfStates
    <2>. QED
        BY <1>3, <2>2, StatesAreCodes DEF Totalled
<1>6. ASSUME NEW b \in Book, b # 0, NEW s \in State PROVE LinkedAt(s, up[b], up[b - 1])
    <2>1. b - 1 \in Book /\ s \in Code
        BY <1>6, Constants, StatesAreCodes
    <2>2. up[b][s] = rolled[b][s] /\ up[b - 1][s] = rolled[b - 1][s]
        BY <1>3, <2>1
    <2>3. rolled[b][s] = Roll(File(filed)[b][s], rolled[b - 1][s])
        BY <1>6, RolledFollows DEF rolled
    <2>4. File(filed)[b][s] \in Row
        <3>1. filed \in [Book -> [State -> [Entered -> Int]]] /\ "movement" \in Entered
            BY ConstantAssumption DEF Entered
        <3>2. \A k \in Entered : filed[b][s][k] \in Int
            BY <3>1
        <3>. QED
            BY <3>1, <3>2 DEF File, Row
    <2>5. rolled[b - 1][s] \in Row
        BY <1>1, <2>1
    <2>. QED
        BY <2>2, <2>3, <2>4, <2>5, RollTyped DEF LinkedAt
<1>. QED
    BY <1>4, <1>5, <1>6 DEF up, Linked

----------------------------------------------------------------------------
\* Type correctness

LEMMA TypedStart == Init => Typed
<1>. SUFFICES ASSUME Init PROVE Typed
    OBVIOUS
<1>1. rows \in [Book -> [Code -> Row]]
    BY UploadedSettled DEF Init
<1>2. Types
    BY <1>1, ForgottenTyped, Constants DEF Init, Types, Labels
<1>3. ASSUME NEW r \in Request PROVE Placed(r)
    BY ForgottenTyped DEF Init, Placed, PlacedAs
<1>. QED
    BY <1>2, <1>3 DEF Typed

\* What a step of r leaves of the invariant.
LEMMA TypedMove ==
    ASSUME Typed, NEW r \in Request, NEW label \in Labels, NEW c \in Calls \cup {Absent},
           NEW held \in Locals, Moves(r, label, c, held), PlacedAs(label, c, held),
           rows' \in [Book -> [Code -> Row]], changed' \in [Request -> SUBSET Book],
           overlap' \in BOOLEAN, settled' \in Book
    PROVE  Typed'
<1>1. /\ pc \in [Request -> Labels] /\ call \in [Request -> Calls \cup {Absent}]
      /\ local \in [Request -> Locals]
    BY DEF Typed, Types
<1>2. /\ pc' \in [Request -> Labels] /\ call' \in [Request -> Calls \cup {Absent}]
      /\ local' \in [Request -> Locals]
      /\ pc'[r] = label /\ call'[r] = c /\ local'[r] = held
      /\ \A q \in Request \ {r} : pc'[q] = pc[q] /\ call'[q] = call[q] /\ local'[q] = local[q]
    BY <1>1 DEF Moves
<1>3. Types'
    BY <1>2 DEF Types
<1>4. ASSUME NEW q \in Request PROVE Placed(q)'
    <2>1. PlacedAs(pc'[q], call'[q], local'[q])
        BY <1>2 DEF Typed, Placed
    <2>. QED
        BY <2>1 DEF Placed, PlacedAs
<1>. QED
    BY <1>3, <1>4 DEF Typed

\* What the types say of a request in flight.
LEMMA InFlightTyped ==
    ASSUME Typed, NEW r \in Request, InFlight(r)
    PROVE  /\ call[r] \in Calls /\ BookOf(r) \in Book /\ local[r] \in Locals
           /\ rows[BookOf(r)] \in [Code -> Row] /\ pc[r] \in Labels
           /\ PlacedAs(pc[r], call[r], local[r])
<1>1. PlacedAs(pc[r], call[r], local[r]) /\ InFlight(r)
    BY DEF Typed, Placed
<1>2. call[r] \in Calls
    BY <1>1 DEF PlacedAs, InFlight
<1>3. BookOf(r) \in Book
    BY <1>2, CallTypes DEF BookOf
<1>. QED
    BY <1>1, <1>2, <1>3 DEF Typed, Types

LEMMA WriteTyped ==
    ASSUME Typed, NEW r \in Request, InFlight(r), NEW e \in [Code -> Row], Write(r, e)
    PROVE  /\ rows' \in [Book -> [Code -> Row]] /\ changed' \in [Request -> SUBSET Book]
           /\ rows'[BookOf(r)] = e
           /\ \A b \in Book \ {BookOf(r)} : rows'[b] = rows[b]
<1>. DEFINE b == BookOf(r)
<1>1. b \in Book
    BY InFlightTyped
<1>2. rows \in [Book -> [Code -> Row]] /\ changed \in [Request -> SUBSET Book]
    BY DEF Typed, Types
<1>3. rows' = [rows EXCEPT ![b] = e]
    BY DEF Write
<1>4. changed' = changed
      \/ changed' = [q \in Request |-> IF InFlight(q) THEN changed[q] \cup {b} ELSE changed[q]]
    BY DEF Write
<1>. HIDE DEF b
<1>5. changed' \in [Request -> SUBSET Book]
    BY <1>1, <1>2, <1>4
<1>6. /\ rows' \in [Book -> [Code -> Row]] /\ rows'[b] = e
      /\ \A d \in Book \ {b} : rows'[d] = rows[d]
    BY <1>1, <1>2, <1>3
<1>. QED
    BY <1>5, <1>6 DEF b

LEMMA NowUnmoved ==
    ASSUME Typed, NEW r \in Request
    PROVE  /\ [call EXCEPT ![r] = call[r]] = call
           /\ [local EXCEPT ![r] = local[r]] = local
<1>1. call = [q \in Request |-> call[q]] /\ local = [q \in Request |-> local[q]]
    BY DEF Typed, Types
<1>. QED
    BY <1>1, Unmoved

LEMMA SettledTyped ==
    ASSUME Typed, NEW r \in Request, InFlight(r)
    PROVE  SettledBy(r) \in Book
<1>1. BookOf(r) \in Book /\ settled \in Book /\ overlap \in BOOLEAN
    BY InFlightTyped DEF Typed, Types
<1>. DEFINE b == BookOf(r)
            edit == call[r].op \in {"exhibit", "heading", "seeder"}
<1>2. SettledBy(r) = CASE overlap -> 0
                       [] ~ overlap /\ b > settled + 1 -> settled
                       [] ~ overlap /\ b <= settled + 1 -> IF b > settled \/ edit THEN b ELSE settled
    BY DEF SettledBy
<1>3. settled \in Nat /\ b \in Nat
    BY <1>1, Constants
<1>. HIDE DEF b, edit
<1>. QED
    BY <1>1, <1>2, <1>3, Constants DEF b

\* A request is answered.
LEMMA AnswerTyped ==
    ASSUME Typed, NEW r \in Request, InFlight(r), Answer(r), UNCHANGED overlap,
           rows' \in [Book -> [Code -> Row]], changed' \in [Request -> SUBSET Book]
    PROVE  Typed'
<1>1. Moves(r, "done", Absent, Forgotten) /\ settled' = SettledBy(r)
    BY DEF Answer, Goto, Keep, Moves
<1>2. settled' \in Book
    BY <1>1, SettledTyped
<1>3. PlacedAs("done", Absent, Forgotten)
    BY ForgottenTyped DEF PlacedAs
<1>4. overlap' \in BOOLEAN
    BY DEF Typed, Types
<1>. QED
    BY <1>1, <1>2, <1>3, <1>4, ForgottenTyped, TypedMove DEF Labels

\* A request goes on.
LEMMA GoesOn ==
    ASSUME Typed, NEW r \in Request, InFlight(r), NEW label \in Labels, NEW held \in Locals,
           Goto(r, label), Keep(r, held), UNCHANGED <<call, overlap, settled>>,
           PlacedAs(label, call[r], held),
           rows' \in [Book -> [Code -> Row]], changed' \in [Request -> SUBSET Book]
    PROVE  Typed' /\ Moves(r, label, call[r], held)
<1>1. Moves(r, label, call[r], held)
    BY NowUnmoved DEF Goto, Keep, Moves
<1>2. overlap' \in BOOLEAN /\ settled' \in Book /\ call[r] \in Calls \cup {Absent}
    BY DEF Typed, Types
<1>. QED
    BY <1>1, <1>2, TypedMove

\* What each step does to the request and to its workbook.
LEMMA LoadDoes ==
    ASSUME Typed, NEW r \in Request, Load(r)
    PROVE  /\ Typed' /\ UNCHANGED <<rows, overlap, settled>>
           /\ \E held \in Locals :
                 /\ Moves(r, "seeding", call[r], held)
                 /\ held.own = rows[BookOf(r)] /\ held.at = 1 /\ held.changed = local[r].changed
<1>. DEFINE e == rows[BookOf(r)]
            g == [local[r] EXCEPT !.own = e]
            held == [local[r] EXCEPT !.own = e, !.at = 1]
<1>1. InFlight(r) /\ pc[r] = "loading"
    BY DEF Load, InFlight
<1>2. /\ call[r] \in Calls /\ local[r] \in Locals /\ e \in [Code -> Row]
      /\ PlacedAs("loading", call[r], local[r])
    BY <1>1, InFlightTyped
<1>3. held = [g EXCEPT !.at = 1]
    OBVIOUS
<1>4. g \in Locals /\ g.own = e /\ g.changed = local[r].changed
    BY <1>2 DEF Locals
<1>5. 1 \in 1 .. NumStates + 1
    BY ConstantAssumption
<1>. HIDE DEF g, e
<1>6. held \in Locals /\ held.own = e /\ held.at = 1 /\ held.changed = local[r].changed
    <2>1. [g EXCEPT !.at = 1] \in Locals /\ [g EXCEPT !.at = 1].own = g.own
          /\ [g EXCEPT !.at = 1].at = 1 /\ [g EXCEPT !.at = 1].changed = g.changed
        BY <1>4, <1>5 DEF Locals
    <2>. QED
        BY <1>3, <1>4, <2>1
<1>7. Goto(r, "seeding") /\ Keep(r, held) /\ UNCHANGED <<rows, call, changed, overlap, settled>>
    BY DEF Load, e
<1>. HIDE DEF held
<1>8. PlacedAs("seeding", call[r], held)
    BY <1>2, <1>6 DEF PlacedAs
<1>9. rows' \in [Book -> [Code -> Row]] /\ changed' \in [Request -> SUBSET Book]
    BY <1>7 DEF Typed, Types
<1>10. Typed' /\ Moves(r, "seeding", call[r], held)
    BY <1>1, <1>6, <1>7, <1>8, <1>9, GoesOn DEF Labels
<1>. QED
    BY <1>6, <1>7, <1>10 DEF e

LEMMA SeedDoes ==
    ASSUME Typed, NEW r \in Request, Seed(r)
    PROVE  /\ Typed' /\ UNCHANGED <<rows, overlap, settled>> /\ BookOf(r) # 0
           /\ \E held \in Locals :
                 /\ Moves(r, "rolling", call[r], held)
                 /\ held.own = local[r].own /\ held.prev = rows[BookOf(r) - 1]
                 /\ held.at = 1 /\ held.changed = local[r].changed
<1>. DEFINE e == rows[BookOf(r) - 1]
            held == [local[r] EXCEPT !.prev = e]
<1>1. InFlight(r) /\ pc[r] = "seeding"
    BY DEF Seed, InFlight
<1>2. /\ call[r] \in Calls /\ local[r] \in Locals /\ BookOf(r) \in Book
      /\ PlacedAs("seeding", call[r], local[r])
    BY <1>1, InFlightTyped
<1>3. BookOf(r) # 0 /\ BookOf(r) - 1 \in Book
    BY <1>2, Constants DEF PlacedAs, BookOf
<1>4. e \in [Code -> Row]
    BY <1>3 DEF Typed, Types
<1>. HIDE DEF e
<1>5. /\ held \in Locals /\ held.own = local[r].own /\ held.prev = e
      /\ held.at = local[r].at /\ held.changed = local[r].changed
    BY <1>2, <1>4 DEF Locals
<1>6. Goto(r, "rolling") /\ Keep(r, held) /\ UNCHANGED <<rows, call, changed, overlap, settled>>
    BY DEF Seed, e
<1>. HIDE DEF held
<1>7. PlacedAs("rolling", call[r], held)
    BY <1>2, <1>5, Constants DEF PlacedAs
<1>8. rows' \in [Book -> [Code -> Row]] /\ changed' \in [Request -> SUBSET Book]
    BY <1>6 DEF Typed, Types
<1>9. Typed' /\ Moves(r, "rolling", call[r], held)
    BY <1>1, <1>5, <1>6, <1>7, <1>8, GoesOn DEF Labels
<1>. QED
    BY <1>2, <1>3, <1>5, <1>6, <1>9 DEF e, PlacedAs

LEMMA RollDoes ==
    ASSUME Typed, NEW r \in Request, RollExhibit(r)
    PROVE  LET b == BookOf(r)
               s == local[r].at
               e == [rows[b] EXCEPT ![s] = Roll(local[r].own[s], local[r].prev[s])] IN
           /\ Typed' /\ UNCHANGED <<overlap, settled>> /\ b # 0
           /\ rows'[b] = e /\ \A d \in Book \ {b} : rows'[d] = rows[d]
           /\ \E held \in Locals :
                 /\ Moves(r, IF s = NumStates THEN "summing" ELSE "rolling", call[r], held)
                 /\ held.own = local[r].own /\ held.prev = local[r].prev
                 /\ held.at = s + 1 /\ held.changed = local[r].changed
<1>. DEFINE b == BookOf(r)
            s == local[r].at
            row == Roll(local[r].own[s], local[r].prev[s])
            e == [rows[b] EXCEPT ![s] = row]
            held == [local[r] EXCEPT !.at = s + 1]
            label == IF s = NumStates THEN "summing" ELSE "rolling"
<1>1. InFlight(r) /\ pc[r] = "rolling" /\ Write(r, e)
    BY DEF RollExhibit, InFlight
<1>2. /\ call[r] \in Calls /\ local[r] \in Locals /\ b \in Book /\ rows[b] \in [Code -> Row]
      /\ PlacedAs("rolling", call[r], local[r])
    BY <1>1, InFlightTyped
<1>3. s \in State /\ s \in Code /\ b # 0
    BY <1>2, StatesAreCodes DEF PlacedAs, BookOf
<1>4. row \in Row
    <2>1. local[r].own[s] \in Row /\ local[r].prev[s] \in Row
        BY <1>2, <1>3, LocalFields
    <2>. QED
        BY <2>1, RollTyped
<1>5. s + 1 \in 1 .. NumStates + 1 /\ (s # NumStates => s + 1 \in State)
    BY <1>3, ConstantAssumption DEF State
<1>6. Goto(r, label) /\ Keep(r, held) /\ UNCHANGED <<call, overlap, settled>>
    BY DEF RollExhibit
<1>7. /\ held \in Locals /\ held.own = local[r].own /\ held.prev = local[r].prev
      /\ held.at = s + 1 /\ held.changed = local[r].changed
    BY <1>2, <1>5 DEF Locals
<1>. HIDE DEF row, held
<1>8. e \in [Code -> Row]
    BY <1>2, <1>3, <1>4, RowReplaced
<1>. HIDE DEF e
<1>9. /\ rows' \in [Book -> [Code -> Row]] /\ changed' \in [Request -> SUBSET Book]
      /\ rows'[b] = e /\ \A d \in Book \ {b} : rows'[d] = rows[d]
    BY <1>1, <1>8, WriteTyped
<1>10. label \in Labels /\ PlacedAs(label, call[r], held)
    BY <1>2, <1>5, <1>7 DEF PlacedAs, Labels
<1>. HIDE DEF label
<1>11. Typed' /\ Moves(r, label, call[r], held)
    BY <1>1, <1>6, <1>7, <1>9, <1>10, GoesOn
<1>. QED
    BY <1>3, <1>6, <1>7, <1>9, <1>11 DEF e, row, label

LEMMA SumDoes ==
    ASSUME Typed, NEW r \in Request, Sum(r)
    PROVE  /\ Typed' /\ UNCHANGED <<rows, overlap, settled>>
           /\ \E held \in Locals :
                 /\ Moves(r, "totalling", call[r], held)
                 /\ held.own[TOTAL] = Sums(rows[BookOf(r)]) /\ held.changed = local[r].changed
<1>. DEFINE b == BookOf(r)
            e == [rows[b] EXCEPT ![TOTAL] = Sums(rows[b])]
            g == [Forgotten EXCEPT !.own = e]
            held == [Forgotten EXCEPT !.own = e, !.changed = local[r].changed]
<1>1. InFlight(r) /\ pc[r] = "summing"
    BY DEF Sum, InFlight
<1>2. /\ call[r] \in Calls /\ local[r] \in Locals /\ rows[b] \in [Code -> Row]
      /\ PlacedAs("summing", call[r], local[r])
    BY <1>1, InFlightTyped
<1>3. Sums(rows[b]) \in Row
    BY <1>2, SumsTyped, StatesAreCodes
<1>4. e \in [Code -> Row] /\ e[TOTAL] = Sums(rows[b])
    BY <1>2, <1>3, StatesAreCodes, RowReplaced
<1>. HIDE DEF e
<1>5. held = [g EXCEPT !.changed = local[r].changed]
    OBVIOUS
<1>6. g \in Locals /\ g.own = e
    BY <1>4, ForgottenTyped DEF Locals
<1>. HIDE DEF g, held
<1>7. local[r].changed \in BOOLEAN
    BY <1>2, LocalFields
<1>8. held \in Locals /\ held.own = e /\ held.changed = local[r].changed
    BY <1>5, <1>6, <1>7 DEF Locals
<1>9. Goto(r, "totalling") /\ Keep(r, held) /\ UNCHANGED <<rows, call, changed, overlap, settled>>
    BY DEF Sum, e, held
<1>10. PlacedAs("totalling", call[r], held)
    BY <1>2, <1>8 DEF PlacedAs
<1>11. rows' \in [Book -> [Code -> Row]] /\ changed' \in [Request -> SUBSET Book]
    BY <1>9 DEF Typed, Types
<1>12. Typed' /\ Moves(r, "totalling", call[r], held)
    BY <1>1, <1>8, <1>9, <1>10, <1>11, GoesOn DEF Labels
<1>. QED
    BY <1>4, <1>8, <1>9, <1>12

LEMMA SaveTotalDoes ==
    ASSUME Typed, NEW r \in Request, SaveTotal(r)
    PROVE  LET b == BookOf(r)
               e == [rows[b] EXCEPT ![TOTAL] = local[r].own[TOTAL]] IN
           /\ Typed' /\ UNCHANGED overlap /\ e \in [Code -> Row]
           /\ rows'[b] = e /\ \A d \in Book \ {b} : rows'[d] = rows[d]
           /\ IF local[r].changed
                THEN Answer(r)
                ELSE Moves(r, "reading", call[r], local[r]) /\ UNCHANGED settled
<1>. DEFINE b == BookOf(r)
            e == [rows[b] EXCEPT ![TOTAL] = local[r].own[TOTAL]]
<1>1. InFlight(r) /\ pc[r] = "totalling" /\ Write(r, e)
    BY DEF SaveTotal, InFlight
<1>2. /\ call[r] \in Calls /\ local[r] \in Locals /\ rows[b] \in [Code -> Row]
      /\ PlacedAs("totalling", call[r], local[r])
    BY <1>1, InFlightTyped
<1>3. local[r].own[TOTAL] \in Row
    BY <1>2, LocalFields, StatesAreCodes
<1>4. e \in [Code -> Row]
    BY <1>2, <1>3, StatesAreCodes, RowReplaced
<1>. HIDE DEF e
<1>5. /\ rows' \in [Book -> [Code -> Row]] /\ changed' \in [Request -> SUBSET Book]
      /\ rows'[b] = e /\ \A d \in Book \ {b} : rows'[d] = rows[d]
    BY <1>1, <1>4, WriteTyped
<1>6. CASE local[r].changed
    <2>1. Answer(r) /\ UNCHANGED overlap
        BY <1>6 DEF SaveTotal
    <2>2. Typed'
        BY <1>1, <1>5, <2>1, AnswerTyped
    <2>. QED
        BY <1>4, <1>5, <1>6, <2>1, <2>2 DEF e
<1>7. CASE ~ local[r].changed
    <2>1. Goto(r, "reading") /\ UNCHANGED <<call, local, settled, overlap>>
        BY <1>7 DEF SaveTotal
    <2>2. Keep(r, local[r])
        BY <2>1, NowUnmoved DEF Keep
    <2>3. PlacedAs("reading", call[r], local[r])
        BY <1>2, <1>7 DEF PlacedAs
    <2>4. Typed' /\ Moves(r, "reading", call[r], local[r])
        BY <1>1, <1>2, <1>5, <2>1, <2>2, <2>3, GoesOn DEF Labels
    <2>. QED
        BY <1>4, <1>5, <1>7, <2>1, <2>4 DEF e
<1>. QED
    BY <1>6, <1>7

LEMMA ReadDoes ==
    ASSUME Typed, NEW r \in Request, Read(r)
    PROVE  /\ Typed' /\ UNCHANGED <<rows, overlap>>
           /\ call[r].op = "read" => Answer(r)
           /\ call[r].op # "read" =>
                 /\ UNCHANGED settled
                 /\ \E held \in Locals :
                       /\ Moves(r, call[r].op, call[r], held)
                       /\ held.copy = rows[BookOf(r)] /\ held.changed = FALSE
<1>. DEFINE e == rows[BookOf(r)]
            held == [Forgotten EXCEPT !.copy = e]
<1>1. InFlight(r) /\ pc[r] = "reading"
    BY DEF Read, InFlight
<1>2. call[r] \in Calls /\ local[r] \in Locals /\ e \in [Code -> Row]
    BY <1>1, InFlightTyped
<1>3. UNCHANGED <<rows, changed, overlap>>
    BY DEF Read
<1>4. rows' \in [Book -> [Code -> Row]] /\ changed' \in [Request -> SUBSET Book]
    BY <1>3 DEF Typed, Types
<1>5. CASE call[r].op = "read"
    <2>1. Answer(r)
        BY <1>5 DEF Read
    <2>2. Typed'
        BY <1>1, <1>3, <1>4, <2>1, AnswerTyped
    <2>. QED
        BY <1>3, <1>5, <2>1, <2>2
<1>6. CASE call[r].op # "read"
    <2>1. Goto(r, call[r].op) /\ Keep(r, held) /\ UNCHANGED <<call, settled>>
        BY <1>6 DEF Read
    <2>. HIDE DEF e
    <2>2. held \in Locals /\ held.copy = e /\ held.changed = FALSE
        BY <1>2, ForgottenTyped DEF Locals
    <2>. HIDE DEF held
    <2>3. call[r].op \in {"mappings", "exhibit", "heading", "seeder"}
        BY <1>2, <1>6, CallTypes
    <2>4. PlacedAs(call[r].op, call[r], held)
        BY <1>2, <2>2, <2>3 DEF PlacedAs
    <2>5. Typed' /\ Moves(r, call[r].op, call[r], held)
        BY <1>1, <1>3, <1>4, <2>1, <2>2, <2>3, <2>4, GoesOn DEF Labels
    <2>. QED
        BY <1>3, <1>6, <2>1, <2>2, <2>5 DEF e
<1>. QED
    BY <1>5, <1>6

\* After an edit has been written the reserves are calculated again.
LEMMA EditDoes ==
    ASSUME Typed, NEW r \in Request, InFlight(r), call[r].op \in EditOps,
           NEW e \in [Code -> Row], Write(r, e), Recalculate(r), UNCHANGED <<call, overlap, settled>>
    PROVE  /\ Typed' /\ rows'[BookOf(r)] = e
           /\ \A d \in Book \ {BookOf(r)} : rows'[d] = rows[d]
           /\ \E held \in Locals :
                 /\ Moves(r, IF BookOf(r) = 0 THEN "summing" ELSE "loading", call[r], held)
                 /\ held.changed = TRUE
<1>. DEFINE b == BookOf(r)
            held == [Forgotten EXCEPT !.changed = TRUE]
            label == IF b = 0 THEN "summing" ELSE "loading"
<1>1. call[r] \in Calls
    BY InFlightTyped
<1>2. held \in Locals /\ held.changed = TRUE
    BY ForgottenTyped DEF Locals
<1>3. /\ rows' \in [Book -> [Code -> Row]] /\ changed' \in [Request -> SUBSET Book]
      /\ rows'[b] = e /\ \A d \in Book \ {b} : rows'[d] = rows[d]
    BY WriteTyped
<1>4. Goto(r, label) /\ Keep(r, held)
    BY DEF Recalculate, Source
<1>. HIDE DEF held
<1>5. label \in Labels /\ PlacedAs(label, call[r], held)
    BY <1>1, <1>2 DEF PlacedAs, Labels, BookOf
<1>. HIDE DEF label
<1>6. Typed' /\ Moves(r, label, call[r], held)
    BY <1>2, <1>3, <1>4, <1>5, GoesOn
<1>. QED
    BY <1>2, <1>3, <1>6 DEF label

\* An exhibit is edited, or replaced by the seeder.
LEMMA EditExhibitDoes ==
    ASSUME Typed, NEW r \in Request, EditExhibit(r) \/ EditSeederFile(r)
    PROVE  /\ call[r].op \in {"exhibit", "seeder"} /\ UNCHANGED <<overlap, settled>>
           /\ \E e \in [Code -> Row] :
                 /\ Write(r, e) /\ Recalculate(r) /\ UNCHANGED call
                 /\ e[call[r].state][call[r].field] = call[r].amount
<1>. DEFINE b == BookOf(r)
            s == call[r].state
            k == call[r].field
            n == call[r].amount
<1>1. /\ InFlight(r) /\ Recalculate(r) /\ UNCHANGED <<call, overlap, settled>>
      /\ pc[r] \in {"exhibit", "seeder"}
    BY DEF EditExhibit, EditSeederFile, InFlight
<1>2. /\ call[r] \in Calls /\ local[r] \in Locals /\ b \in Book /\ rows[b] \in [Code -> Row]
      /\ call[r].op = pc[r]
    BY <1>1, InFlightTyped DEF PlacedAs
<1>3. s \in State /\ n \in Int /\ k \in Fields
    BY <1>1, <1>2, CallTypes DEF EditOps
<1>4. s \in Code /\ k \in Fields
    BY <1>2, <1>3, StatesAreCodes
<1>5. \E row \in Row : row[k] = n /\ Write(r, [rows[b] EXCEPT ![s] = row])
    <2>1. CASE EditExhibit(r)
        <3>. DEFINE row == [local[r].copy[s] EXCEPT ![k] = n]
        <3>1. Write(r, [rows[b] EXCEPT ![s] = row])
            BY <2>1 DEF EditExhibit
        <3>2. local[r].copy[s] \in Row
            BY <1>2, <1>4, LocalFields
        <3>3. row \in Row /\ row[k] = n
            BY <1>3, <1>4, <3>2, FieldReplaced
        <3>. QED
            BY <3>1, <3>3
    <2>2. CASE EditSeederFile(r)
        <3>. DEFINE row == [j \in Fields |-> IF j = k THEN n ELSE 0]
        <3>1. Write(r, [rows[b] EXCEPT ![s] = row])
            BY <2>2 DEF EditSeederFile
        <3>2. row \in Row /\ row[k] = n
            BY <1>3, <1>4 DEF Row
        <3>. QED
            BY <3>1, <3>2
    <2>. QED
        BY <2>1, <2>2
<1>6. PICK row \in Row : row[k] = n /\ Write(r, [rows[b] EXCEPT ![s] = row])
    BY <1>5
<1>7. [rows[b] EXCEPT ![s] = row] \in [Code -> Row] /\ [rows[b] EXCEPT ![s] = row][s] = row
    BY <1>2, <1>4, RowReplaced
<1>. QED
    BY <1>1, <1>2, <1>6, <1>7

\* The amount for TOTAL is spread over the states ...
LEMMA EditTotalDoes ==
    ASSUME Typed, NEW r \in Request, EditTotal(r)
    PROVE  /\ Typed' /\ UNCHANGED <<overlap, settled>> /\ call[r].op = "heading"
           /\ \A d \in Book \ {BookOf(r)} : rows'[d] = rows[d]
           /\ SumOver([s \in State |-> rows'[BookOf(r)][s][call[r].field]], State)
                 = call[r].amount
           /\ Moves(r, "headed", call[r], local[r])
<1>. DEFINE b == BookOf(r)
            k == call[r].field
            n == call[r].amount
            held == [s \in State |-> local[r].copy[s][k]]
            share == Spread(n, Weight(held))
            e == [c \in Code |-> IF c = TOTAL THEN rows[b][TOTAL]
                                 ELSE [local[r].copy[c] EXCEPT ![k] = share[c]]]
<1>1. InFlight(r) /\ pc[r] = "heading" /\ Write(r, e)
    BY DEF EditTotal, InFlight
<1>2. /\ call[r] \in Calls /\ local[r] \in Locals /\ b \in Book /\ rows[b] \in [Code -> Row]
      /\ PlacedAs("heading", call[r], local[r])
    BY <1>1, InFlightTyped
<1>3. call[r].op = "heading" /\ n \in Int /\ k \in Fields /\ local[r].copy \in [Code -> Row]
    BY <1>2, CallTypes, LocalFields DEF PlacedAs, EditOps
<1>4. \A s \in State : held[s] \in Int
    BY <1>3, StatesAreCodes DEF Row
<1>. HIDE DEF held
<1>5. /\ share = [s \in State |-> share[s]]
      /\ \A s \in State : share[s] \in Int
      /\ SumOver(share, State) = n
    BY <1>3, <1>4, SpreadAddsUp
<1>. HIDE DEF share
<1>6. ASSUME NEW c \in Code
      PROVE  /\ (IF c = TOTAL THEN rows[b][TOTAL]
                 ELSE [local[r].copy[c] EXCEPT ![k] = share[c]]) \in Row
             /\ c \in State => [local[r].copy[c] EXCEPT ![k] = share[c]][k] = share[c]
    <2>1. CASE c = TOTAL
        BY <1>2, <2>1, StatesAreCodes
    <2>2. CASE c # TOTAL
        <3>1. c \in State /\ share[c] \in Int /\ local[r].copy[c] \in Row
            BY <1>3, <1>5, <2>2 DEF Code
        <3>. QED
            BY <1>3, <2>2, <3>1, FieldReplaced
    <2>. QED
        BY <2>1, <2>2
<1>7. e \in [Code -> Row]
    BY <1>6
<1>8. \A s \in State : e[s][k] = share[s]
    BY <1>6, StatesAreCodes
<1>. HIDE DEF e
<1>9. /\ rows' \in [Book -> [Code -> Row]] /\ changed' \in [Request -> SUBSET Book]
      /\ rows'[b] = e /\ \A d \in Book \ {b} : rows'[d] = rows[d]
    BY <1>1, <1>7, WriteTyped
<1>10. [s \in State |-> e[s][k]] = share
    BY <1>5, <1>8
<1>11. Goto(r, "headed") /\ Keep(r, local[r]) /\ UNCHANGED <<call, overlap, settled>>
    BY NowUnmoved DEF EditTotal, Keep
<1>12. PlacedAs("headed", call[r], local[r])
    BY <1>2 DEF PlacedAs
<1>13. Typed' /\ Moves(r, "headed", call[r], local[r])
    BY <1>1, <1>2, <1>9, <1>11, <1>12, GoesOn DEF Labels
<1>. QED
    BY <1>3, <1>5, <1>9, <1>10, <1>11, <1>13

\* ... and then stored for TOTAL.
LEMMA EditHeadingDoes ==
    ASSUME Typed, NEW r \in Request, EditHeading(r)
    PROVE  /\ call[r].op = "heading" /\ UNCHANGED <<overlap, settled>>
           /\ \E e \in [Code -> Row] :
                 /\ Write(r, e) /\ Recalculate(r) /\ UNCHANGED call
                 /\ \A s \in State : e[s] = rows[BookOf(r)][s]
<1>. DEFINE b == BookOf(r)
            k == call[r].field
            row == [local[r].copy[TOTAL] EXCEPT ![k] = call[r].amount]
            e == [rows[b] EXCEPT ![TOTAL] = row]
<1>1. /\ InFlight(r) /\ Write(r, e) /\ Recalculate(r) /\ UNCHANGED <<call, overlap, settled>>
      /\ pc[r] = "headed"
    BY DEF EditHeading, InFlight
<1>2. /\ call[r] \in Calls /\ local[r] \in Locals /\ b \in Book /\ rows[b] \in [Code -> Row]
      /\ call[r].op = "heading"
    BY <1>1, InFlightTyped DEF PlacedAs
<1>3. call[r].amount \in Int /\ local[r].copy[TOTAL] \in Row /\ k \in Fields
    BY <1>2, CallTypes, LocalFields, StatesAreCodes DEF EditOps
<1>4. row \in Row
    BY <1>3, FieldReplaced
<1>. HIDE DEF row
<1>5. e \in [Code -> Row] /\ \A s \in State : e[s] = rows[b][s]
    BY <1>2, <1>4, StatesAreCodes, RowReplaced
<1>. QED
    BY <1>1, <1>2, <1>5

LEMMA SaveWorkbookDoes ==
    ASSUME Typed, NEW r \in Request, SaveWorkbook(r)
    PROVE  /\ Typed' /\ UNCHANGED overlap /\ Answer(r)
           /\ rows'[BookOf(r)] = local[r].copy
           /\ \A d \in Book \ {BookOf(r)} : rows'[d] = rows[d]
<1>1. InFlight(r) /\ Write(r, local[r].copy) /\ Answer(r) /\ UNCHANGED overlap
    BY DEF SaveWorkbook, InFlight
<1>2. local[r].copy \in [Code -> Row]
    BY <1>1, InFlightTyped, LocalFields
<1>3. /\ rows' \in [Book -> [Code -> Row]] /\ changed' \in [Request -> SUBSET Book]
      /\ rows'[BookOf(r)] = local[r].copy
      /\ \A d \in Book \ {BookOf(r)} : rows'[d] = rows[d]
    BY <1>1, <1>2, WriteTyped
<1>4. Typed'
    BY <1>1, <1>3, AnswerTyped
<1>. QED
    BY <1>1, <1>3, <1>4

LEMMA ArriveDoes ==
    ASSUME Typed, NEW r \in Request, NEW c \in Calls, Arrive(r, c)
    PROVE  /\ Typed' /\ UNCHANGED <<rows, settled>> /\ local[r].changed = FALSE
           /\ Moves(r, IF c.book = 0 THEN "reading" ELSE "loading", c, local[r])
           /\ overlap' = (overlap \/ \E q \in Request : InFlight(q))
<1>. DEFINE label == IF c.book = 0 THEN "reading" ELSE "loading"
<1>1. /\ pc[r] = "idle" /\ Goto(r, label) /\ call' = [call EXCEPT ![r] = c]
      /\ UNCHANGED <<rows, local, changed, settled>>
      /\ overlap' = (overlap \/ \E q \in Request : InFlight(q))
    BY DEF Arrive, Source
<1>2. local[r] \in Locals /\ local[r].changed \in BOOLEAN /\ PlacedAs("idle", call[r], local[r])
    BY <1>1, LocalFields DEF Typed, Types, Placed
<1>3. local[r].changed = FALSE
    BY <1>2 DEF PlacedAs
<1>4. Moves(r, label, c, local[r])
    BY <1>1, NowUnmoved DEF Goto, Moves
<1>5. label \in Labels /\ PlacedAs(label, c, local[r])
    BY <1>3 DEF PlacedAs, Labels
<1>6. /\ rows' \in [Book -> [Code -> Row]] /\ changed' \in [Request -> SUBSET Book]
      /\ settled' \in Book /\ overlap \in BOOLEAN
    BY <1>1 DEF Typed, Types
<1>7. overlap' \in BOOLEAN
    BY <1>1, <1>6
<1>. HIDE DEF label
<1>8. Typed'
    BY <1>2, <1>4, <1>5, <1>6, <1>7, TypedMove
<1>. QED
    BY <1>1, <1>3, <1>4, <1>8 DEF label

LEMMA StopDoes ==
    ASSUME Typed, NEW r \in Request, Stop(r)
    PROVE  /\ Typed' /\ InFlight(r) /\ Moves(r, "stopped", Absent, Forgotten)
           /\ UNCHANGED <<rows, overlap>>
           /\ settled' = IF Changing(r) /\ BookOf(r) <= settled
                           THEN (IF BookOf(r) = 0 THEN 0 ELSE BookOf(r) - 1) ELSE settled
<1>1. /\ InFlight(r) /\ Moves(r, "stopped", Absent, Forgotten)
      /\ UNCHANGED <<rows, changed, overlap>>
      /\ settled' = IF Changing(r) /\ BookOf(r) <= settled
                      THEN (IF BookOf(r) = 0 THEN 0 ELSE BookOf(r) - 1) ELSE settled
    BY DEF Stop, Goto, Keep, Moves
<1>2. BookOf(r) \in Book /\ settled \in Book
    BY <1>1, InFlightTyped DEF Typed, Types
<1>3. settled' \in Book
    BY <1>1, <1>2, Constants
<1>4. PlacedAs("stopped", Absent, Forgotten)
    BY ForgottenTyped DEF PlacedAs
<1>5. /\ rows' \in [Book -> [Code -> Row]] /\ changed' \in [Request -> SUBSET Book]
      /\ overlap' \in BOOLEAN
    BY <1>1 DEF Typed, Types
<1>6. Typed'
    BY <1>1, <1>3, <1>4, <1>5, ForgottenTyped, TypedMove DEF Labels
<1>. QED
    BY <1>1, <1>6

LEMMA TypedInductive == Typed /\ [Next]_vars => Typed'
<1>. SUFFICES ASSUME Typed, [Next]_vars PROVE Typed'
    OBVIOUS
<1>1. CASE UNCHANGED vars
    BY <1>1 DEF vars, Typed, Types, Placed
<1>2. ASSUME NEW r \in Request, NEW c \in Calls, Arrive(r, c) PROVE Typed'
    BY <1>2, ArriveDoes
<1>3. ASSUME NEW r \in Request, Step(r) PROVE Typed'
    <2>1. ASSUME EditExhibit(r) \/ EditSeederFile(r) \/ EditHeading(r) PROVE Typed'
        <3>1. InFlight(r)
            BY <2>1 DEF EditExhibit, EditSeederFile, EditHeading, InFlight
        <3>2. UNCHANGED <<overlap, settled>> /\ call[r].op \in EditOps
            BY <2>1, EditExhibitDoes, EditHeadingDoes DEF EditOps
        <3>3. PICK e \in [Code -> Row] : Write(r, e) /\ Recalculate(r) /\ UNCHANGED call
            BY <2>1, EditExhibitDoes, EditHeadingDoes
        <3>. QED
            BY <3>1, <3>2, <3>3, EditDoes
    <2>. QED
        BY <1>3, <2>1, LoadDoes, SeedDoes, RollDoes, SumDoes, SaveTotalDoes, ReadDoes,
           EditTotalDoes, SaveWorkbookDoes DEF Step
<1>4. ASSUME NEW r \in Request, Stop(r) PROVE Typed'
    BY <1>4, StopDoes
<1>. QED
    BY <1>1, <1>2, <1>3, <1>4 DEF Next

LEMMA UnsummedTyped ==
    Typed /\ unsummed \in SUBSET Book /\ [Next]_vars => (unsummed \in SUBSET Book)'
<1>. SUFFICES ASSUME Typed, unsummed \in SUBSET Book, [Next]_vars PROVE unsummed' \in SUBSET Book
    OBVIOUS
<1>1. ASSUME NEW r \in Request, Stop(r) PROVE unsummed' \in SUBSET Book
    <2>1. BookOf(r) \in Book
        BY <1>1, InFlightTyped DEF Stop
    <2>. QED
        BY <1>1, <2>1 DEF Stop
<1>2. ASSUME NEW r \in Request, SaveTotal(r) PROVE unsummed' \in SUBSET Book
    BY <1>2 DEF SaveTotal
<1>. QED
    BY <1>1, <1>2
       DEF Next, Arrive, Step, Load, Seed, RollExhibit, Sum, Read, EditExhibit, EditTotal,
           EditHeading, EditSeederFile, SaveWorkbook, vars

\* For any months, states and amounts, every amount a workbook holds is a whole number of
\* cents, and every request is where its call may be.
THEOREM TypeCorrect == Spec => []TypeOK
<1>1. Init => Typed /\ unsummed \in SUBSET Book
    BY TypedStart DEF Init
<1>2. Typed /\ unsummed \in SUBSET Book => TypeOK
    BY DEF Typed, Types, TypeOK
<1>. QED
    BY <1>1, <1>2, TypedInductive, UnsummedTyped, PTL DEF Spec

----------------------------------------------------------------------------
\* Requests served one after the other

\* The amount asked for is in the exhibits e, for TOTAL spread over the states.
Entry(c, e) ==
    LET k == c.field IN
    IF c.op = "heading" THEN SumOver([s \in State |-> e[s][k]], State) = c.amount
                        ELSE e[c.state][k] = c.amount

\* No roll-forward sets what is asked for.
Lasting(c) == c.field \in EnteredIn(c.book)

\* On these the total of the workbook may be that of other amounts.
Adding(label, h) == label \in {"rolling", "summing", "totalling", "headed"} \/ h.changed

\* How far a request with nobody beside it has come with its workbook's exhibits e,
\* prev being those of the month before.
Track(label, c, h, e, prev) ==
    /\ label = "seeding" => h.own = e
    /\ label = "rolling" =>
          /\ h.prev = prev
          /\ \A s \in State : IF s < h.at THEN LinkedAt(s, e, prev) ELSE h.own[s] = e[s]
    /\ (label \in {"summing", "totalling", "reading", "mappings"} /\ c.book # 0) => Linked(e, prev)
    /\ label = "totalling" => h.own[TOTAL] = Sums(e)
    /\ label = "mappings" => h.copy = e
    /\ ((h.changed \/ label = "headed") /\ Lasting(c)) => Entry(c, e)

PrevOf(b) == IF b = 0 THEN Blank ELSE rows[b - 1]

\* r is the one in flight.  An edit may break the links of its month and the next.
Alone(r) ==
    /\ \A q \in Request : InFlight(q) <=> q = r
    /\ \A d \in Book \ unsummed :
          \/ d = BookOf(r) /\ Adding(pc[r], local[r])
          \/ Totalled(rows[d])
    /\ \A d \in 1 .. settled :
          \/ Changing(r) /\ d \in {BookOf(r), BookOf(r) + 1}
          \/ Linked(rows[d], rows[d - 1])
    /\ Track(pc[r], call[r], local[r], rows[BookOf(r)], PrevOf(BookOf(r)))

Between ==
    /\ \A q \in Request : ~ InFlight(q)
    /\ \A b \in Book \ unsummed : Totalled(rows[b])
    /\ \A b \in 1 .. settled : Linked(rows[b], rows[b - 1])

\* Strengthening of TotalsAddUp and ChainSettles.
Serial == overlap \/ Between \/ \E r \in Request : Alone(r)

\* The same fields: what the links of the month and the roll-forward of the next depend on.
SameReserves(e, f) == \A s \in State : \A k \in Fields : e[s][k] = f[s][k]

LEMMA SameLinks ==
    ASSUME NEW e, NEW f, SameReserves(e, f), NEW d
    PROVE  /\ Linked(e, d) <=> Linked(f, d)
           /\ Linked(d, e) <=> Linked(d, f)
<1>1. ASSUME NEW s \in State
      PROVE  (LinkedAt(s, e, d) <=> LinkedAt(s, f, d)) /\ (LinkedAt(s, d, e) <=> LinkedAt(s, d, f))
    <2>1. e[s]["ibnr"] = f[s]["ibnr"] /\ e[s]["unpaid"] = f[s]["unpaid"]
          /\ e[s]["movement"] = f[s]["movement"] /\ e[s]["prior"] = f[s]["prior"]
        BY DEF SameReserves, Fields
    <2>2. Carried(e[s]) = Carried(f[s])
        BY <2>1 DEF Carried
    <2>. QED
        BY <2>1, <2>2 DEF LinkedAt
<1>. QED
    BY <1>1 DEF Linked

LEMMA OthersRest ==
    ASSUME Typed, NEW r \in Request, Alone(r), NEW label, NEW c, NEW held, Moves(r, label, c, held)
    PROVE  /\ pc'[r] = label /\ call'[r] = c /\ local'[r] = held
           /\ \A q \in Request : q # r => ~ InFlight(q)'
<1>1. /\ pc'[r] = label /\ call'[r] = c /\ local'[r] = held
      /\ \A q \in Request \ {r} : pc'[q] = pc[q]
    BY DEF Typed, Types, Moves
<1>. QED
    BY <1>1 DEF Alone, InFlight

LEMMA AloneBook ==
    ASSUME Typed, NEW r \in Request, Alone(r)
    PROVE  /\ InFlight(r) /\ call[r] \in Calls /\ BookOf(r) \in Book /\ BookOf(r) = call[r].book
           /\ rows[BookOf(r)] \in [Code -> Row] /\ settled \in Nat
           /\ 1 .. settled \subseteq Book \ {0}
<1>1. InFlight(r)
    BY DEF Alone
<1>2. settled \in Nat /\ 1 .. settled \subseteq Book \ {0}
    BY ConstantAssumption DEF Typed, Types, Book
<1>. QED
    BY <1>1, <1>2, InFlightTyped DEF BookOf

\* The request goes on beside nobody.
LEMMA AloneGoesOn ==
    ASSUME Typed, NEW r \in Request, Alone(r),
           NEW label, label \notin {"idle", "done", "stopped"}, NEW held, Moves(r, label, call[r], held),
           UNCHANGED settled, \A d \in Book \ {BookOf(r)} : rows'[d] = rows[d],
           Changing(r) => held.changed \/ label = "headed",
           \/ held.changed \/ label = "headed" \/ BookOf(r) > settled
           \/ SameReserves(rows'[BookOf(r)], rows[BookOf(r)]),
           unsummed \ {BookOf(r)} \subseteq unsummed',
           BookOf(r) \in unsummed' \/ Adding(label, held) \/ Totalled(rows'[BookOf(r)]),
           Track(label, call[r], held, rows'[BookOf(r)], PrevOf(BookOf(r)))
    PROVE  Alone(r)'
<1>1. PICK b \in Book : b = BookOf(r) /\ b = call[r].book
    BY AloneBook
<1>2. /\ pc'[r] = label /\ call'[r] = call[r] /\ local'[r] = held
      /\ \A q \in Request : q # r => ~ InFlight(q)'
    BY OthersRest
<1>3. BookOf(r)' = b
    BY <1>1, <1>2 DEF BookOf
<1>4. \A q \in Request : InFlight(q)' <=> q = r
    BY <1>2 DEF InFlight
<1>5. \A d \in Book \ unsummed' : (d = b /\ Adding(label, held)) \/ Totalled(rows'[d])
    BY <1>1 DEF Alone
<1>6. PrevOf(b)' = PrevOf(b)
    <2>1. b # 0 => b - 1 \in Book \ {b}
        BY <1>1, Constants
    <2>. QED
        BY <1>1, <2>1 DEF PrevOf
<1>7. ASSUME NEW d \in 1 .. settled, ~ ((held.changed \/ label = "headed") /\ d \in {b, b + 1})
      PROVE  Linked(rows'[d], rows'[d - 1])
    <2>1. d \in Book /\ d # 0 /\ d - 1 \in Book /\ d \in Nat /\ b \in Nat /\ settled \in Nat
        BY AloneBook, Constants
    <2>2. Linked(rows[d], rows[d - 1])
        BY <1>1, <1>7 DEF Alone
    <2>3. CASE d \notin {b, b + 1}
        <3>1. rows'[d] = rows[d] /\ rows'[d - 1] = rows[d - 1]
            BY <1>1, <2>1, <2>3
        <3>. QED
            BY <2>2, <3>1
    <2>4. CASE d \in {b, b + 1}
        <3>1. SameReserves(rows'[b], rows[b])
            BY <1>1, <1>7, <2>1, <2>4
        <3>2. CASE d = b
            <4>1. rows'[d - 1] = rows[d - 1]
                BY <1>1, <2>1, <3>2
            <4>. QED
                BY <2>2, <3>1, <3>2, <4>1, SameLinks
        <3>3. CASE d = b + 1
            <4>1. rows'[d] = rows[d] /\ d - 1 = b
                BY <1>1, <2>1, <3>3
            <4>. QED
                BY <2>2, <3>1, <4>1, SameLinks
        <3>. QED
            BY <2>4, <3>2, <3>3
    <2>. QED
        BY <2>3, <2>4
<1>8. Track(pc'[r], call'[r], local'[r], rows'[b], PrevOf(b))
    BY <1>1, <1>2
<1>9. /\ \A d \in Book \ unsummed' :
            (d = BookOf(r)' /\ Adding(pc'[r], local'[r])) \/ Totalled(rows'[d])
      /\ \A d \in 1 .. settled' :
            \/ Changing(r)' /\ d \in {BookOf(r)', BookOf(r)' + 1}
            \/ Linked(rows'[d], rows'[d - 1])
    BY <1>2, <1>3, <1>5, <1>7 DEF Changing
<1>10. Track(pc'[r], call'[r], local'[r], rows'[BookOf(r)'], PrevOf(BookOf(r))')
    <2>1. PrevOf(BookOf(r))' = PrevOf(b)'
        BY <1>3 DEF PrevOf
    <2>. QED
        BY <1>3, <1>6, <1>8, <2>1
<1>. QED
    BY <1>4, <1>9, <1>10 DEF Alone, Totalled, Linked, LinkedAt, Track, Entry, Lasting, Adding, Changing

\* A request that has made a change was asked for one.
LEMMA ChangesWereAsked ==
    ASSUME Typed, NEW r \in Request, InFlight(r), local[r].changed \/ pc[r] = "headed"
    PROVE  call[r].op \in EditOps /\ (call[r].op # "heading" => call[r].state \in State)
<1>1. call[r] \in Calls /\ PlacedAs(pc[r], call[r], local[r])
    BY InFlightTyped
<1>2. call[r].op \in EditOps
    BY <1>1 DEF PlacedAs, EditOps
<1>. QED
    BY <1>1, <1>2, CallTypes DEF EditOps

\* The request is answered, and nobody is in flight.
LEMMA AloneAnswers ==
    ASSUME Typed, NEW r \in Request, Alone(r), ~ overlap, Answer(r),
           \A d \in Book \ {BookOf(r)} : rows'[d] = rows[d],
           \/ call[r].op \in EditOps \/ BookOf(r) > settled
           \/ SameReserves(rows'[BookOf(r)], rows[BookOf(r)]),
           unsummed \ {BookOf(r)} \subseteq unsummed',
           BookOf(r) \in unsummed' \/ Totalled(rows'[BookOf(r)]),
           BookOf(r) # 0 => Linked(rows'[BookOf(r)], PrevOf(BookOf(r)))
    PROVE  Between'
<1>1. PICK b \in Book : b = BookOf(r) /\ b \in Nat /\ settled \in Nat
    BY AloneBook, Constants
<1>2. Moves(r, "done", Absent, Forgotten) /\ settled' = SettledBy(r)
    BY DEF Answer, Goto, Keep, Moves
<1>3. \A q \in Request : ~ InFlight(q)'
    BY <1>2, OthersRest DEF InFlight
<1>4. \A d \in Book \ unsummed' : Totalled(rows'[d])
    BY <1>1 DEF Alone
<1>5. settled' = IF b > settled + 1 THEN settled
                 ELSE IF b > settled \/ call[r].op \in EditOps THEN b ELSE settled
    BY <1>1, <1>2 DEF SettledBy, EditOps
<1>6. ASSUME NEW d \in 1 .. settled' PROVE Linked(rows'[d], rows'[d - 1])
    <2>1. settled' \in Nat /\ d \in Nat /\ d # 0 /\ (settled' = settled \/ settled' = b)
        BY <1>1, <1>5
    <2>2. d \in Book /\ d - 1 \in Book
        BY <1>1, <2>1, AloneBook, Constants, ConstantAssumption DEF Book
    <2>3. CASE d = b
        <3>1. rows'[d - 1] = rows[d - 1]
            BY <1>1, <2>1, <2>2, <2>3
        <3>. QED
            BY <1>1, <2>1, <2>3, <3>1 DEF PrevOf
    <2>4. CASE d # b
        <3>1. d <= settled
            BY <1>1, <1>5, <2>1, <2>4
        <3>2. ~ (call[r].op \in EditOps /\ d = b + 1)
            BY <1>1, <1>5, <2>1, <3>1
        <3>3. Linked(rows[d], rows[d - 1])
            <4>1. InFlight(r)
                BY DEF Alone
            <4>2. Changing(r) => call[r].op \in EditOps
                BY <4>1, ChangesWereAsked DEF Changing
            <4>. QED
                BY <1>1, <2>1, <2>4, <3>1, <3>2, <4>2 DEF Alone
        <3>4. rows'[d] = rows[d]
            BY <1>1, <2>2, <2>4
        <3>5. CASE d - 1 # b
            BY <1>1, <2>2, <3>3, <3>4, <3>5
        <3>6. CASE d - 1 = b
            <4>1. SameReserves(rows'[b], rows[b])
                BY <1>1, <2>1, <3>1, <3>2, <3>6
            <4>. QED
                BY <3>3, <3>4, <3>6, <4>1, SameLinks
        <3>. QED
            BY <3>5, <3>6
    <2>. QED
        BY <2>3, <2>4
<1>. QED
    BY <1>3, <1>4, <1>6 DEF Between, Totalled, Linked, LinkedAt

LEMMA StateOrder ==
    /\ \A s \in State : s \in Nat /\ 1 <= s /\ s <= NumStates
    /\ \A s \in State : s # NumStates => s + 1 \in State
  BY ConstantAssumption DEF State

LEMMA LoadAlone ==
    ASSUME Typed, NEW r \in Request, Alone(r), Load(r) \/ Seed(r)
    PROVE  Alone(r)'
<1>. DEFINE b == BookOf(r)
            e == rows[b]
<1>1. /\ UNCHANGED <<rows, settled, unsummed>> /\ pc[r] \in {"loading", "seeding"}
      /\ Track(pc[r], call[r], local[r], e, PrevOf(b))
    BY LoadDoes, SeedDoes DEF Load, Seed, Alone
<1>2. /\ SameReserves(rows'[b], rows[b]) /\ \A d \in Book \ {b} : rows'[d] = rows[d]
      /\ b \in unsummed' \/ local[r].changed \/ Totalled(rows'[b])
      /\ Changing(r) => local[r].changed
    BY <1>1, AloneBook DEF SameReserves, Alone, Adding, Changing
<1>3. CASE Load(r)
    <2>1. PICK held : /\ Moves(r, "seeding", call[r], held)
                      /\ held.own = e /\ held.changed = local[r].changed
        BY <1>3, LoadDoes
    <2>2. Track("seeding", call[r], held, rows'[b], PrevOf(b))
        BY <1>1, <2>1 DEF Track
    <2>. QED
        BY <1>1, <1>2, <2>1, <2>2, AloneGoesOn DEF Adding
<1>4. CASE Seed(r)
    <2>1. pc[r] = "seeding" /\ b # 0
        BY <1>4, SeedDoes DEF Seed
    <2>2. PICK held : /\ Moves(r, "rolling", call[r], held)
                      /\ held.own = local[r].own /\ held.prev = rows[b - 1]
                      /\ held.at = 1 /\ held.changed = local[r].changed
        BY <1>4, SeedDoes
    <2>3. held.own = e /\ held.prev = PrevOf(b)
        BY <1>1, <2>1, <2>2 DEF Track, PrevOf
    <2>4. \A s \in State : ~ (s < held.at)
        BY <2>2, StateOrder
    <2>5. Track("rolling", call[r], held, rows'[b], PrevOf(b))
        BY <1>1, <2>1, <2>2, <2>3, <2>4 DEF Track
    <2>. QED
        BY <1>1, <1>2, <2>2, <2>5, AloneGoesOn DEF Adding
<1>. QED
    BY <1>3, <1>4

\* What is asked for stays in the exhibits while only what is no entry changes.
LEMMA EntryStays ==
    ASSUME NEW c, NEW e, NEW f, Entry(c, e),
           c.op # "heading" => c.state \in State,
           \A s \in State : f[s][c.field] = e[s][c.field]
    PROVE  Entry(c, f)
<1>1. [s \in State |-> f[s][c.field]] = [s \in State |-> e[s][c.field]]
    OBVIOUS
<1>. QED
    BY <1>1 DEF Entry

LEMMA RollAlone ==
    ASSUME Typed, NEW r \in Request, Alone(r), RollExhibit(r)
    PROVE  Alone(r)'
<1>. DEFINE b == BookOf(r)
            s == local[r].at
            e == rows[b]
            prev == PrevOf(b)
            row == Roll(local[r].own[s], local[r].prev[s])
            f == [e EXCEPT ![s] = row]
            label == IF s = NumStates THEN "summing" ELSE "rolling"
<1>1. /\ InFlight(r) /\ pc[r] = "rolling" /\ call[r] \in Calls /\ b \in Book
      /\ b = call[r].book /\ b # 0 /\ e \in [Code -> Row]
      /\ local[r] \in Locals /\ Track("rolling", call[r], local[r], e, prev)
      /\ s \in State /\ s \in Code
    BY AloneBook, InFlightTyped, RollDoes, StatesAreCodes DEF RollExhibit, Alone, PlacedAs
<1>2. local[r].prev = prev /\ local[r].own[s] = e[s]
    <2>1. ~ (s < s)
        BY <1>1, StateOrder
    <2>. QED
        BY <1>1, <2>1 DEF Track
<1>3. /\ UNCHANGED <<settled, unsummed>> /\ rows'[b] = f /\ \A d \in Book \ {b} : rows'[d] = rows[d]
      /\ \E held \in Locals :
            /\ Moves(r, label, call[r], held)
            /\ held.own = local[r].own /\ held.prev = local[r].prev
            /\ held.at = s + 1 /\ held.changed = local[r].changed
    BY RollDoes DEF RollExhibit
<1>4. PICK held \in Locals :
            /\ Moves(r, label, call[r], held)
            /\ held.own = local[r].own /\ held.prev = local[r].prev
            /\ held.at = s + 1 /\ held.changed = local[r].changed
    BY <1>3
<1>5. local[r].own[s] \in Row /\ local[r].prev[s] \in Row
    BY <1>1, LocalFields
<1>6. /\ row \in Row /\ row["ibnr"] = Carried(prev[s]) + e[s]["movement"]
      /\ row["prior"] = Carried(prev[s])
      /\ row["movement"] = e[s]["movement"] /\ row["unpaid"] = e[s]["unpaid"]
    BY <1>2, <1>5, RollTyped
<1>. HIDE DEF row
<1>7. f[s] = row /\ \A t \in State : t # s => f[t] = e[t]
    BY <1>1, <1>6, StatesAreCodes, RowReplaced
<1>. HIDE DEF f, e, prev, label
<1>8. LinkedAt(s, f, prev) /\ \A t \in State : t # s => (LinkedAt(t, f, prev) <=> LinkedAt(t, e, prev))
    BY <1>6, <1>7 DEF LinkedAt
<1>9. local[r].changed \/ b > settled \/ SameReserves(f, e)
    <2>. SUFFICES ASSUME ~ local[r].changed, ~ (b > settled) PROVE SameReserves(f, e)
        OBVIOUS
    <2>1. b \in 1 .. settled
        <3>1. b \in Nat /\ settled \in Nat
            BY <1>1, AloneBook, Constants
        <3>. QED
            BY <1>1, <3>1
    <2>2. Linked(rows[b], rows[b - 1])
        BY <1>1, <2>1 DEF Alone, Changing
    <2>3. LinkedAt(s, e, prev)
        BY <1>1, <2>2 DEF Linked, e, prev, PrevOf
    <2>4. e[s]["ibnr"] = row["ibnr"] /\ e[s]["prior"] = row["prior"]
        BY <1>6, <2>3 DEF LinkedAt
    <2>5. \A k \in Fields : f[s][k] = e[s][k]
        BY <1>6, <1>7, <2>4 DEF Fields
    <2>. QED
        BY <1>7, <2>5 DEF SameReserves
<1>10. \A t \in State : \A k \in Entered : f[t][k] = e[t][k]
    BY <1>6, <1>7 DEF Entered
<1>11. held.changed /\ Lasting(call[r]) => Entry(call[r], f)
    <2>. SUFFICES ASSUME held.changed, Lasting(call[r]) PROVE Entry(call[r], f)
        OBVIOUS
    <2>1. Entry(call[r], e)
        BY <1>1, <1>4 DEF Track
    <2>2. call[r].op # "heading" => call[r].state \in State
        BY <1>1, <1>4, ChangesWereAsked
    <2>3. call[r].field \in Entered
        BY <1>1 DEF Lasting, EnteredIn, Source
    <2>. QED
        BY <1>10, <2>1, <2>2, <2>3, EntryStays
<1>12. \A t \in State : IF t < s + 1 THEN LinkedAt(t, f, prev) ELSE held.own[t] = f[t]
    <2>. TAKE t \in State
    <2>1. t \in Nat /\ s \in Nat
        BY <1>1, StateOrder
    <2>2. CASE t = s
        BY <1>8, <2>1, <2>2
    <2>3. CASE t < s
        <3>1. LinkedAt(t, e, prev)
            BY <1>1, <2>3 DEF Track
        <3>. QED
            BY <1>8, <2>1, <2>3, <3>1
    <2>4. CASE t > s
        <3>1. local[r].own[t] = e[t] /\ ~ (t < s) /\ ~ (t < s + 1)
            BY <1>1, <2>1, <2>4 DEF Track
        <3>. QED
            BY <1>4, <1>7, <2>1, <2>4, <3>1
    <2>. QED
        BY <2>1, <2>2, <2>3, <2>4
<1>13. Track(label, call[r], held, f, prev)
    <2>1. CASE s = NumStates
        <3>1. label = "summing"
            BY <2>1 DEF label
        <3>2. \A t \in State : t < s + 1
            BY <2>1, StateOrder, ConstantAssumption
        <3>3. Linked(f, prev)
            BY <1>12, <3>2 DEF Linked
        <3>. QED
            BY <1>11, <3>1, <3>3 DEF Track
    <2>2. CASE s # NumStates
        <3>1. label = "rolling"
            BY <2>2 DEF label
        <3>2. held.prev = prev /\ held.at = s + 1
            BY <1>2, <1>4
        <3>. QED
            BY <1>11, <1>12, <3>1, <3>2 DEF Track
    <2>. QED
        BY <2>1, <2>2
<1>14. rows'[b] = f
    BY <1>3 DEF f
<1>15. label \notin {"idle", "done", "stopped"} /\ Adding(label, held)
    BY DEF label, Adding
<1>16. Changing(r) => held.changed
    BY <1>1, <1>4 DEF Changing
<1>17. held.changed \/ b > settled \/ SameReserves(f, e)
    BY <1>4, <1>9
<1>. QED
    BY <1>3, <1>4, <1>13, <1>14, <1>15, <1>16, <1>17, AloneGoesOn DEF e, prev

LEMMA SumAlone ==
    ASSUME Typed, NEW r \in Request, Alone(r), Sum(r)
    PROVE  Alone(r)'
<1>. DEFINE b == BookOf(r)
<1>1. /\ UNCHANGED <<rows, settled, unsummed>> /\ pc[r] = "summing"
      /\ Track("summing", call[r], local[r], rows[b], PrevOf(b))
    BY SumDoes DEF Sum, Alone
<1>2. SameReserves(rows'[b], rows[b]) /\ \A d \in Book \ {b} : rows'[d] = rows[d]
    BY <1>1 DEF SameReserves
<1>3. PICK held : /\ Moves(r, "totalling", call[r], held)
                  /\ held.own[TOTAL] = Sums(rows[b]) /\ held.changed = local[r].changed
    BY SumDoes
<1>4. Track("totalling", call[r], held, rows'[b], PrevOf(b))
    BY <1>1, <1>3 DEF Track
<1>5. Adding("totalling", held) /\ (Changing(r) => held.changed)
    BY <1>1, <1>3 DEF Adding, Changing
<1>. QED
    BY <1>1, <1>2, <1>3, <1>4, <1>5, AloneGoesOn

\* The sums are stored; the rows of the states stay.
LEMMA SaveTotalAlone ==
    ASSUME Typed, NEW r \in Request, Alone(r), ~ overlap, SaveTotal(r)
    PROVE  /\ Alone(r)' \/ Between'
           /\ local[r].changed => Between' /\ Totalled(rows'[BookOf(r)])
           /\ ~ local[r].changed => pc'[r] = "reading"
           /\ BookOf(r) # 0 => Linked(rows'[BookOf(r)], PrevOf(BookOf(r)))
           /\ local[r].changed /\ Lasting(call[r]) => Entry(call[r], rows'[BookOf(r)])
<1>. DEFINE b == BookOf(r)
            e == rows[b]
            f == [e EXCEPT ![TOTAL] = local[r].own[TOTAL]]
            prev == PrevOf(b)
<1>1. /\ InFlight(r) /\ pc[r] = "totalling" /\ b = call[r].book /\ e \in [Code -> Row]
      /\ local[r] \in Locals /\ Track("totalling", call[r], local[r], e, prev)
    BY AloneBook, InFlightTyped DEF SaveTotal, Alone
<1>2. /\ rows'[b] = f /\ \A d \in Book \ {b} : rows'[d] = rows[d]
      /\ IF local[r].changed THEN Answer(r)
                             ELSE Moves(r, "reading", call[r], local[r]) /\ UNCHANGED settled
      /\ unsummed' = unsummed \ {b}
    BY SaveTotalDoes DEF SaveTotal
<1>3. local[r].own[TOTAL] \in Row /\ local[r].own[TOTAL] = Sums(e)
    BY <1>1, LocalFields, StatesAreCodes DEF Track
<1>4. f[TOTAL] = Sums(e) /\ \A s \in State : f[s] = e[s]
    BY <1>1, <1>3, StatesAreCodes, RowReplaced
<1>. HIDE DEF f, e, prev
<1>5. Totalled(f)
    BY <1>4, SumsOfStates DEF Totalled
<1>6. SameReserves(f, e)
    BY <1>4 DEF SameReserves
<1>7. b # 0 => Linked(f, prev)
    BY <1>1, <1>6, SameLinks DEF Track
<1>8. local[r].changed /\ Lasting(call[r]) => Entry(call[r], f)
    <2>. SUFFICES ASSUME local[r].changed, Lasting(call[r]) PROVE Entry(call[r], f)
        OBVIOUS
    <2>1. Entry(call[r], e)
        BY <1>1 DEF Track
    <2>2. call[r].op # "heading" => call[r].state \in State
        BY <1>1, ChangesWereAsked
    <2>. QED
        BY <1>4, <2>1, <2>2, EntryStays
<1>9. CASE local[r].changed
    <2>1. Between'
        BY <1>2, <1>5, <1>6, <1>7, <1>9, AloneAnswers DEF e, prev
    <2>. QED
        BY <1>2, <1>5, <1>7, <1>8, <1>9, <2>1 DEF prev
<1>10. CASE ~ local[r].changed
    <2>1. Moves(r, "reading", call[r], local[r]) /\ UNCHANGED settled
        BY <1>2, <1>10
    <2>2. Track("reading", call[r], local[r], f, prev)
        BY <1>1, <1>5, <1>7, <1>10 DEF Track
    <2>3. ~ Changing(r)
        BY <1>1, <1>10 DEF Changing
    <2>4. Alone(r)'
        BY <1>2, <1>5, <1>6, <2>1, <2>2, <2>3, AloneGoesOn DEF e, prev
    <2>. QED
        BY <1>2, <1>7, <1>10, <2>1, <2>4, OthersRest DEF prev
<1>. QED
    BY <1>9, <1>10

LEMMA ReadAlone ==
    ASSUME Typed, NEW r \in Request, Alone(r), ~ overlap, Read(r)
    PROVE  Alone(r)' \/ (Between' /\ call[r].op = "read")
<1>. DEFINE b == BookOf(r)
<1>1. /\ InFlight(r) /\ pc[r] = "reading" /\ b = call[r].book /\ call[r] \in Calls
      /\ Track("reading", call[r], local[r], rows[b], PrevOf(b)) /\ UNCHANGED <<rows, unsummed>>
      /\ b \in Book /\ ~ Changing(r)
    BY AloneBook, InFlightTyped DEF Read, Alone, PlacedAs, Changing
<1>2. SameReserves(rows'[b], rows[b]) /\ \A d \in Book \ {b} : rows'[d] = rows[d]
    BY <1>1 DEF SameReserves
<1>3. (b \in unsummed' \/ Totalled(rows'[b])) /\ (b # 0 => Linked(rows'[b], PrevOf(b)))
    BY <1>1 DEF Track, Alone, Adding, Changing
<1>4. CASE call[r].op = "read"
    <2>1. Answer(r)
        BY <1>4, ReadDoes
    <2>. QED
        BY <1>1, <1>2, <1>3, <1>4, <2>1, AloneAnswers
<1>5. CASE call[r].op # "read"
    <2>1. call[r].op \in {"mappings", "exhibit", "heading", "seeder"}
        BY <1>1, <1>5, CallTypes
    <2>2. PICK held : /\ Moves(r, call[r].op, call[r], held)
                      /\ held.copy = rows[b] /\ held.changed = FALSE
        BY <1>5, ReadDoes
    <2>3. UNCHANGED settled
        BY <1>5, ReadDoes
    <2>4. Track(call[r].op, call[r], held, rows'[b], PrevOf(b))
        BY <1>1, <1>3, <2>1, <2>2 DEF Track
    <2>. QED
        BY <1>1, <1>2, <1>3, <2>1, <2>2, <2>3, <2>4, AloneGoesOn
<1>. QED
    BY <1>4, <1>5

LEMMA EditAlone ==
    ASSUME Typed, NEW r \in Request, Alone(r), EditExhibit(r) \/ EditSeederFile(r) \/ EditHeading(r)
    PROVE  Alone(r)'
<1>. DEFINE b == BookOf(r)
            label == IF b = 0 THEN "summing" ELSE "loading"
<1>1. /\ InFlight(r) /\ b = call[r].book /\ call[r] \in Calls
      /\ Track(pc[r], call[r], local[r], rows[b], PrevOf(b))
    BY AloneBook DEF Alone
<1>2. call[r].op \in EditOps /\ UNCHANGED <<overlap, settled, unsummed>>
    BY EditExhibitDoes, EditHeadingDoes DEF EditOps, EditExhibit, EditSeederFile, EditHeading
<1>3. PICK e \in [Code -> Row] : /\ Write(r, e) /\ Recalculate(r) /\ UNCHANGED call
                                 /\ Lasting(call[r]) => Entry(call[r], e)
    <2>1. CASE EditExhibit(r) \/ EditSeederFile(r)
        BY <1>1, <2>1, EditExhibitDoes DEF Entry
    <2>2. CASE EditHeading(r)
        <3>1. pc[r] = "headed" /\ call[r].op = "heading"
            BY <2>2, EditHeadingDoes DEF EditHeading
        <3>2. Lasting(call[r]) => Entry(call[r], rows[b])
            BY <1>1, <3>1 DEF Track
        <3>3. PICK e \in [Code -> Row] : /\ Write(r, e) /\ Recalculate(r) /\ UNCHANGED call
                                         /\ \A s \in State : e[s] = rows[b][s]
            BY <2>2, EditHeadingDoes
        <3>4. Lasting(call[r]) => Entry(call[r], e)
            BY <3>1, <3>2, <3>3, EntryStays
        <3>. QED
            BY <3>3, <3>4
    <2>. QED
        BY <2>1, <2>2
<1>4. /\ rows'[b] = e /\ \A d \in Book \ {b} : rows'[d] = rows[d]
      /\ \E held : Moves(r, label, call[r], held) /\ held.changed = TRUE
    BY <1>1, <1>2, <1>3, EditDoes
<1>5. PICK held : Moves(r, label, call[r], held) /\ held.changed = TRUE
    BY <1>4
<1>6. Track(label, call[r], held, e, PrevOf(b)) /\ Adding(label, held)
    BY <1>1, <1>3, <1>5 DEF Track, Adding
<1>7. label \notin {"idle", "done", "stopped"}
    OBVIOUS
<1>. HIDE DEF label
<1>. QED
    BY <1>2, <1>4, <1>5, <1>6, <1>7, AloneGoesOn

LEMMA EditTotalAlone ==
    ASSUME Typed, NEW r \in Request, Alone(r), EditTotal(r)
    PROVE  Alone(r)'
<1>. DEFINE b == BookOf(r)
<1>1. b = call[r].book /\ Track(pc[r], call[r], local[r], rows[b], PrevOf(b)) /\ pc[r] = "heading"
    BY AloneBook DEF Alone, EditTotal
<1>2. /\ UNCHANGED settled /\ call[r].op = "heading" /\ Moves(r, "headed", call[r], local[r])
      /\ \A d \in Book \ {b} : rows'[d] = rows[d]
      /\ SumOver([s \in State |-> rows'[b][s][call[r].field]], State) = call[r].amount
    BY EditTotalDoes
<1>3. Entry(call[r], rows'[b])
    BY <1>1, <1>2 DEF Entry
<1>4. Track("headed", call[r], local[r], rows'[b], PrevOf(b))
    BY <1>3 DEF Track
<1>5. Adding("headed", local[r]) /\ UNCHANGED unsummed
    BY DEF Adding, EditTotal
<1>. QED
    BY <1>2, <1>4, <1>5, AloneGoesOn

LEMMA SaveWorkbookAlone ==
    ASSUME Typed, NEW r \in Request, Alone(r), ~ overlap, SaveWorkbook(r)
    PROVE  Between' /\ call[r].op = "mappings"
<1>. DEFINE b == BookOf(r)
<1>1. /\ InFlight(r) /\ pc[r] = "mappings" /\ b = call[r].book /\ call[r].op = "mappings"
      /\ Track("mappings", call[r], local[r], rows[b], PrevOf(b))
      /\ b \in Book /\ ~ local[r].changed /\ UNCHANGED unsummed
    BY AloneBook, InFlightTyped DEF SaveWorkbook, Alone, PlacedAs
<1>2. rows'[b] = local[r].copy /\ Answer(r) /\ \A d \in Book \ {b} : rows'[d] = rows[d]
    BY SaveWorkbookDoes
<1>3. rows'[b] = rows[b]
    BY <1>1, <1>2 DEF Track
<1>4. SameReserves(rows'[b], rows[b])
    BY <1>3 DEF SameReserves
<1>5. (b \in unsummed' \/ Totalled(rows'[b])) /\ (b # 0 => Linked(rows'[b], PrevOf(b)))
    BY <1>1, <1>3 DEF Track, Alone, Adding
<1>. QED
    BY <1>1, <1>2, <1>4, <1>5, AloneAnswers

LEMMA ArriveAlone ==
    ASSUME Typed, Between, NEW r \in Request, NEW c \in Calls, Arrive(r, c)
    PROVE  Alone(r)'
<1>. DEFINE label == IF c.book = 0 THEN "reading" ELSE "loading"
<1>1. /\ UNCHANGED <<rows, settled, unsummed>> /\ local[r].changed = FALSE
      /\ Moves(r, label, c, local[r])
    BY ArriveDoes DEF Arrive
<1>2. /\ pc'[r] = label /\ call'[r] = c /\ local'[r] = local[r]
      /\ \A q \in Request \ {r} : pc'[q] = pc[q]
    BY <1>1 DEF Typed, Types, Moves
<1>3. \A q \in Request : InFlight(q)' <=> q = r
    BY <1>2 DEF Between, InFlight
<1>4. BookOf(r)' = c.book /\ c.book \in Book
    BY <1>2, CallTypes DEF BookOf
<1>5. \A d \in 1 .. settled' : Linked(rows'[d], rows'[d - 1])
    BY <1>1 DEF Between
<1>6. \A d \in Book \ unsummed' : Totalled(rows'[d])
    BY <1>1 DEF Between
<1>7. Track(label, c, local[r], rows'[c.book], PrevOf(c.book)')
    BY <1>1, <1>4, <1>6 DEF Track
<1>8. Track(pc'[r], call'[r], local'[r], rows'[BookOf(r)'], PrevOf(BookOf(r))')
    <2>1. PrevOf(BookOf(r))' = PrevOf(c.book)'
        BY <1>4 DEF PrevOf
    <2>. QED
        BY <1>2, <1>4, <1>7, <2>1
<1>. QED
    BY <1>3, <1>5, <1>6, <1>8 DEF Alone, Totalled, Linked, LinkedAt, Track, Entry, Lasting, Adding, Changing

\* What a request that stops leaves: the months before the one it was changing linked, and
\* the TOTAL of that one perhaps behind its states.
LEMMA StopAlone ==
    ASSUME Typed, NEW r \in Request, Alone(r), Stop(r)
    PROVE  Between'
<1>1. PICK b \in Book : b = BookOf(r) /\ b \in Nat /\ settled \in Nat
    BY AloneBook, Constants
<1>2. /\ Moves(r, "stopped", Absent, Forgotten) /\ UNCHANGED rows
      /\ settled' = IF Changing(r) /\ b <= settled
                      THEN (IF b = 0 THEN 0 ELSE b - 1) ELSE settled
      /\ unsummed' = IF Changing(r) \/ pc[r] \in {"rolling", "summing", "totalling"}
                       THEN unsummed \cup {b} ELSE unsummed
    BY <1>1, StopDoes DEF Stop
<1>3. \A q \in Request : ~ InFlight(q)'
    BY <1>2, OthersRest DEF InFlight
<1>4. \A d \in Book \ unsummed' : Totalled(rows'[d])
    BY <1>1, <1>2 DEF Alone, Adding, Changing
<1>5. ASSUME NEW d \in 1 .. settled' PROVE Linked(rows'[d], rows'[d - 1])
    <2>1. d \in 1 .. settled /\ (Changing(r) => d \notin {b, b + 1})
        BY <1>1, <1>2
    <2>. QED
        BY <1>1, <1>2, <2>1 DEF Alone
<1>. QED
    BY <1>3, <1>4, <1>5 DEF Between, Totalled, Linked, LinkedAt

LEMMA StepIsInFlight ==
    ASSUME NEW r \in Request, Step(r)
    PROVE  InFlight(r) /\ UNCHANGED overlap
  BY DEF Step, Load, Seed, RollExhibit, Sum, SaveTotal, Read, EditExhibit, EditTotal, EditHeading,
         EditSeederFile, SaveWorkbook, InFlight

LEMMA SerialStart == Init => Serial
<1>. SUFFICES ASSUME Init PROVE Between
    BY DEF Serial
<1>1. \A q \in Request : ~ InFlight(q)
    BY DEF Init, InFlight
<1>2. PICK filed \in Filed : rows = Uploaded(filed)
    BY DEF Init
<1>3. \A d \in 1 .. settled : d \in Book /\ d # 0
    BY ConstantAssumption DEF Init, Book
<1>. QED
    BY <1>1, <1>2, <1>3, UploadedSettled DEF Between

LEMMA SerialInductive == Typed /\ Serial /\ [Next]_vars => Serial'
<1>. SUFFICES ASSUME Typed, Serial, [Next]_vars PROVE Serial'
    OBVIOUS
<1>1. CASE UNCHANGED vars
    <2>1. /\ rows' = rows /\ overlap' = overlap /\ settled' = settled /\ unsummed' = unsummed
          /\ pc' = pc /\ call' = call /\ local' = local
        BY <1>1 DEF vars
    <2>2. \A q \in Request : InFlight(q)' <=> InFlight(q)
        BY <2>1 DEF InFlight
    <2>3. Between => Between'
        BY <2>1, <2>2 DEF Between, Totalled, Linked, LinkedAt
    <2>4. ASSUME NEW r \in Request, Alone(r) PROVE Alone(r)'
        <3>1. BookOf(r)' = BookOf(r)
            BY <2>1 DEF BookOf
        <3>2. PrevOf(BookOf(r))' = PrevOf(BookOf(r))
            BY <2>1, <3>1 DEF PrevOf
        <3>3. Track(pc'[r], call'[r], local'[r], rows'[BookOf(r)'], PrevOf(BookOf(r))')
            BY <2>1, <2>4, <3>1, <3>2 DEF Alone
        <3>. QED
            BY <2>1, <2>2, <2>4, <3>1, <3>3 DEF Alone, Totalled, Linked, LinkedAt, Track, Entry, Lasting, Adding, Changing
    <2>. QED
        BY <2>1, <2>3, <2>4 DEF Serial
<1>2. ASSUME NEW r \in Request, NEW c \in Calls, Arrive(r, c) PROVE Serial'
    <2>1. overlap' = (overlap \/ \E q \in Request : InFlight(q))
        BY <1>2, ArriveDoes
    <2>2. CASE Between
        BY <1>2, <2>2, ArriveAlone DEF Serial
    <2>3. CASE overlap \/ \E q \in Request : Alone(q)
        BY <2>1, <2>3 DEF Alone, Serial
    <2>. QED
        BY <2>2, <2>3 DEF Serial
<1>3. ASSUME NEW r \in Request, Step(r) PROVE Serial'
    <2>1. InFlight(r) /\ UNCHANGED overlap
        BY <1>3, StepIsInFlight
    <2>2. CASE overlap
        BY <2>1, <2>2 DEF Serial
    <2>3. CASE ~ overlap
        <3>1. PICK q \in Request : Alone(q)
            BY <2>1, <2>3 DEF Serial, Between
        <3>2. q = r
            BY <2>1, <3>1 DEF Alone
        <3>3. Alone(r)' \/ Between'
            BY <1>3, <2>3, <3>1, <3>2, LoadAlone, RollAlone, SumAlone, SaveTotalAlone, ReadAlone,
               EditAlone, EditTotalAlone, SaveWorkbookAlone DEF Step
        <3>. QED
            BY <3>3 DEF Serial
    <2>. QED
        BY <2>2, <2>3
<1>4. ASSUME NEW r \in Request, Stop(r) PROVE Serial'
    <2>1. InFlight(r) /\ UNCHANGED overlap
        BY <1>4 DEF Stop
    <2>2. CASE overlap
        BY <2>1, <2>2 DEF Serial
    <2>3. CASE ~ overlap
        <3>1. PICK q \in Request : Alone(q)
            BY <2>1, <2>3 DEF Serial, Between
        <3>2. q = r
            BY <2>1, <3>1 DEF Alone
        <3>. QED
            BY <1>4, <3>1, <3>2, StopAlone DEF Serial
    <2>. QED
        BY <2>2, <2>3
<1>. QED
    BY <1>1, <1>2, <1>3, <1>4 DEF Next

LEMMA AlwaysSerial == Spec => [](Typed /\ Serial)
  BY TypedStart, TypedInductive, SerialStart, SerialInductive, PTL DEF Spec

\* For any months, states and amounts: between requests served one after the other, the
\* TOTAL of every workbook is the sum of its states, but of those where the last request
\* to change a state stopped before it saved TOTAL.
THEOREM TotalsAlwaysAddUp == Spec => []TotalsAddUp
<1>1. Serial => TotalsAddUp
    <2>. SUFFICES ASSUME Serial, Quiet, NEW b \in Book \ unsummed, NEW k \in Fields
                  PROVE  rows[b][TOTAL][k] = SumOver([s \in State |-> rows[b][s][k]], State)
        BY DEF TotalsAddUp
    <2>1. Between
        BY DEF Quiet, Serial, Alone
    <2>2. rows[b][TOTAL] = Sums(rows[b])
        BY <2>1 DEF Between, Totalled
    <2>. QED
        BY <2>2 DEF Sums
<1>. QED
    BY <1>1, AlwaysSerial, PTL

\* Links from month to month add up to the reserves that EndsOf takes from the baseline on.
LEMMA LinksAddUp ==
    ASSUME Typed, NEW m \in Book, \A d \in 1 .. m : Linked(rows[d], rows[d - 1]), NEW s \in State
    PROVE  rows[m][s]["ibnr"] = EndsOf(rows)[m][s]
<1>. DEFINE Bad == {b \in 0 .. m : rows[b][s]["ibnr"] # EndsOf(rows)[b][s]}
<1>. SUFFICES ASSUME Bad # {} PROVE FALSE
    BY Constants
<1>1. PICK n \in Bad : \A i \in Nat : i < n => i \notin Bad
    <2>1. Bad \in SUBSET Nat
        OBVIOUS
    <2>. HIDE DEF Bad
    <2>. QED
        BY <2>1, SmallestNumber
<1>2. /\ n \in 0 .. m /\ n \in Nat /\ m \in Nat /\ n \in Book
      /\ rows[n][s]["ibnr"] # EndsOf(rows)[n][s]
    BY ConstantAssumption DEF Book
<1>3. rows \in [Book -> [Code -> Row]]
    BY DEF Typed, Types
<1>. HIDE DEF Bad
<1>4. \A b \in Book :
         EndsOf(rows)[b][s] =
            IF b = 0 THEN rows[0][s]["ibnr"]
            ELSE (IF EndsOf(rows)[b - 1][s] # 0 THEN EndsOf(rows)[b - 1][s]
                                                ELSE rows[b - 1][s]["unpaid"])
                 + rows[b][s]["movement"]
    BY <1>3, EndsFollow
<1>5. n # 0
    BY <1>2, <1>4
<1>6. n - 1 \in Nat /\ n - 1 < n /\ n - 1 \in 0 .. m /\ n \in 1 .. m
    BY <1>2, <1>5
<1>7. rows[n - 1][s]["ibnr"] = EndsOf(rows)[n - 1][s]
    BY <1>1, <1>6 DEF Bad
<1>8. LinkedAt(s, rows[n], rows[n - 1])
    BY <1>6 DEF Linked
<1>. QED
    BY <1>2, <1>4, <1>5, <1>7, <1>8 DEF LinkedAt, Carried

\* For any months, states and amounts: between requests served one after the other, the
\* months read in order hold the reserves that the entered amounts add up to.
THEOREM ChainAlwaysSettles == Spec => []ChainSettles
<1>1. Typed /\ Serial => ChainSettles
    <2>. SUFFICES ASSUME Typed, Serial, Quiet, NEW b \in 0 .. settled, NEW s \in State
                  PROVE  rows[b][s]["ibnr"] = EndsOf(rows)[b][s]
        BY DEF ChainSettles
    <2>1. Between
        BY DEF Quiet, Serial, Alone
    <2>2. b \in Book /\ \A d \in 1 .. b : d \in 1 .. settled
        BY ConstantAssumption DEF Typed, Types, Book
    <2>3. \A d \in 1 .. b : Linked(rows[d], rows[d - 1])
        BY <2>1, <2>2 DEF Between
    <2>. QED
        BY <2>2, <2>3, LinksAddUp
<1>. QED
    BY <1>1, AlwaysSerial, PTL

\* An edit of requests served one after the other is answered with the amount entered, or
\* with the reserve rolled forward.
LEMMA EditStays ==
    ASSUME Typed, Serial, [Next]_vars, NEW r \in Request, pc'[r] = "done", pc[r] # "done",
           ~ overlap, call[r].op \in {"exhibit", "heading", "seeder"}
    PROVE  LET b == BookOf(r)
               k == call[r].field
           IN  IF k \in EnteredIn(b)
                 THEN rows'[b][IF call[r].op = "heading" THEN TOTAL ELSE call[r].state][k]
                          = call[r].amount
                 ELSE \A s \in State :
                          rows'[b][s][k] = Roll(rows'[b][s], rows'[b - 1][s])[k]
<1>. DEFINE b == BookOf(r)
            k == call[r].field
            e == rows'[b]
<1>1. PICK p \in Request : Step(p) \/ Stop(p) \/ \E c \in Calls : Arrive(p, c)
    BY DEF Next, vars
<1>2. p = r /\ Step(r)
    BY <1>1 DEF Step, Load, Seed, RollExhibit, Sum, SaveTotal, Read, EditExhibit, EditTotal,
                EditHeading, EditSeederFile, SaveWorkbook, Stop, Arrive, Recalculate, Answer, Goto,
                Typed, Types
<1>3. InFlight(r)
    BY <1>2, StepIsInFlight
<1>4. Alone(r)
    <2>1. PICK q \in Request : Alone(q)
        BY <1>3 DEF Serial, Between
    <2>. QED
        BY <1>3, <2>1 DEF Alone
<1>5. b \in Book /\ b = call[r].book /\ k \in Fields /\ call[r] \in Calls
    BY <1>4, AloneBook, CallTypes DEF EditOps
<1>6. CASE SaveTotal(r)
    <2>1. /\ Lasting(call[r]) => Entry(call[r], e)
          /\ Totalled(e) /\ (b # 0 => Linked(e, PrevOf(b)))
        <3>1. local[r].changed
            BY <1>4, <1>6, SaveTotalAlone
        <3>. QED
            BY <1>4, <1>6, <3>1, SaveTotalAlone
    <2>2. Typed' /\ \A d \in Book \ {b} : rows'[d] = rows[d]
        BY <1>6, SaveTotalDoes
    <2>3. e \in [Code -> Row]
        BY <1>5, <2>2 DEF Typed, Types
    <2>4. b # 0 => b - 1 \in Book /\ PrevOf(b) = rows'[b - 1] /\ rows'[b - 1] \in [Code -> Row]
        <3>1. PICK d \in Book : d = b
            BY <1>5
        <3>2. d # 0 => d - 1 \in Book \ {d}
            BY Constants
        <3>3. d # 0 => rows'[d - 1] = rows[d - 1] /\ rows'[d - 1] \in [Code -> Row]
            BY <2>2, <3>1, <3>2 DEF Typed, Types
        <3>. QED
            BY <3>1, <3>2, <3>3 DEF PrevOf
    <2>. HIDE DEF e
    <2>5. CASE k \in EnteredIn(b)
        <3>1. Entry(call[r], e)
            BY <1>5, <2>1, <2>5 DEF Lasting
        <3>2. e[TOTAL][k] = SumOver([s \in State |-> e[s][k]], State)
            BY <1>5, <2>1 DEF Totalled, Sums
        <3>. QED
            BY <2>5, <3>1, <3>2 DEF Entry, e
    <2>6. CASE k \notin EnteredIn(b)
        <3>1. b # 0 /\ k \in {"prior", "ibnr"}
            BY <1>5, <2>6 DEF EnteredIn, Entered, Fields, Source
        <3>2. ASSUME NEW s \in State PROVE e[s][k] = Roll(e[s], rows'[b - 1][s])[k]
            <4>1. e[s] \in Row /\ rows'[b - 1][s] \in Row
                BY <2>3, <2>4, <3>1, StatesAreCodes
            <4>2. LinkedAt(s, e, rows'[b - 1])
                BY <2>1, <2>4, <3>1 DEF Linked
            <4>. QED
                BY <3>1, <4>1, <4>2, RollTyped DEF LinkedAt
        <3>. QED
            BY <2>6, <3>2 DEF e
    <2>. QED
        BY <2>5, <2>6
<1>7. CASE Read(r) \/ SaveWorkbook(r)
    <2>1. call[r].op \in {"read", "mappings"}
        <3>1. CASE SaveWorkbook(r)
            BY <1>4, <3>1, SaveWorkbookAlone
        <3>2. CASE Read(r)
            <4>1. Alone(r)' => pc'[r] # "done"
                BY DEF Alone, InFlight
            <4>. QED
                BY <1>4, <3>2, <4>1, ReadAlone
        <3>. QED
            BY <1>7, <3>1, <3>2
    <2>. QED
        BY <2>1
<1>8. CASE ~ (SaveTotal(r) \/ Read(r) \/ SaveWorkbook(r))
    <2>1. Alone(r)'
        BY <1>2, <1>4, <1>8, LoadAlone, RollAlone, SumAlone, EditAlone, EditTotalAlone DEF Step
    <2>. QED
        BY <2>1 DEF Alone, InFlight
<1>. QED
    BY <1>6, <1>7, <1>8

\* For any months, states and amounts: of requests served one after the other, an edit of
\* an exhibit is answered with the amount entered in place, and an edit of TOTAL with TOTAL,
\* rounded shares and all, at the amount entered; of a field that the roll-forward sets,
\* with what is rolled forward from the month before.
THEOREM EditsAlwaysStick == Spec => EditsStick
<1>1. Typed /\ Serial /\ [Next]_vars =>
        [\A r \in Request :
          /\ pc'[r] = "done" /\ pc[r] # "done" /\ ~ overlap
          /\ call[r].op \in {"exhibit", "heading", "seeder"}
          => LET b == BookOf(r)
                 k == call[r].field
             IN  IF k \in EnteredIn(b)
                   THEN rows'[b][IF call[r].op = "heading" THEN TOTAL ELSE call[r].state][k]
                            = call[r].amount
                   ELSE \A s \in State :
                            rows'[b][s][k] = Roll(rows'[b][s], rows'[b - 1][s])[k]]_vars
    BY EditStays
<1>. QED
    BY <1>1, AlwaysSerial, PTL DEF Spec, EditsStick

----------------------------------------------------------------------------
\* Figures are integers

IntRates == [RateField -> Int]

Figures == {"premiumWritten", "changeUEP", "cedingCommission", "lossesPaid", "dccPaid", "aoePaid",
            "ulaePaid", "boardsCharge", "boardsUEP", "lossRatioCap", "lossRatioCapUEP",
            "frontingFee", "frontingFeeUEP"}

LEMMA ColumnFields ==
    ASSUME NEW c \in Column
    PROVE  \A f \in EnteredField \cup ReserveField : c[f] \in Int
  BY DEF Column

LEMMA ExceptTypes ==
    ASSUME NEW S, NEW T, NEW f \in [S -> T], NEW x \in S, NEW v \in T
    PROVE  [f EXCEPT ![x] = v] \in [S -> T]
  OBVIOUS

LEMMA RatesExcept ==
    ASSUME NEW f \in IntRates, NEW x \in RateField, NEW v \in Int
    PROVE  [f EXCEPT ![x] = v] \in IntRates
  BY ExceptTypes DEF IntRates

LEMMA Defaults ==
    /\ TreatyDefaults \in IntRates
    /\ StatementDefaults \in IntRates
    /\ CashDefaults \in IntRates
    /\ FileDefaults \in IntRates
    /\ [TreatyDefaults EXCEPT !.laeDcc = 0, !.laeAoe = 34] \in IntRates
<1>1. TreatyDefaults \in IntRates /\ StatementDefaults \in IntRates
    BY DEF IntRates, RateField, TreatyDefaults, StatementDefaults
<1>2. /\ "comm" \in RateField /\ "xol" \in RateField /\ "lossRatioCap" \in RateField
      /\ "laeDcc" \in RateField /\ "laeAoe" \in RateField
    BY DEF RateField
<1>3. FileDefaults \in IntRates
    BY <1>1, <1>2, RatesExcept DEF FileDefaults
<1>4. [StatementDefaults EXCEPT !.comm = 290] \in IntRates
    BY <1>1, <1>2, RatesExcept
<1>5. PICK a \in IntRates : a = [StatementDefaults EXCEPT !.comm = 290]
    BY <1>4
<1>6. [a EXCEPT !.xol = 20] \in IntRates
    BY <1>2, RatesExcept
<1>7. PICK b \in IntRates : b = [a EXCEPT !.xol = 20]
    BY <1>6
<1>8. [b EXCEPT !.lossRatioCap = 0] \in IntRates
    BY <1>2, RatesExcept
<1>9. CashDefaults \in IntRates
    BY <1>5, <1>7, <1>8 DEF CashDefaults
<1>10. [TreatyDefaults EXCEPT !.laeDcc = 0] \in IntRates
    BY <1>1, <1>2, RatesExcept
<1>11. PICK c \in IntRates : c = [TreatyDefaults EXCEPT !.laeDcc = 0]
    BY <1>10
<1>12. [c EXCEPT !.laeAoe = 34] \in IntRates
    BY <1>2, RatesExcept
<1>13. [TreatyDefaults EXCEPT !.laeDcc = 0, !.laeAoe = 34] \in IntRates
    BY <1>11, <1>12
<1>. QED
    BY <1>1, <1>3, <1>9, <1>13

LEMMA CoalesceTypes ==
    ASSUME NEW x \in Int \cup {Null}, NEW y
    PROVE  /\ y \in Int => Coalesce(x, y) \in Int
           /\ y \in Int \cup {Null} => Coalesce(x, y) \in Int \cup {Null}
  BY DEF Coalesce

LEMMA OverTypes ==
    ASSUME NEW own \in Rates, NEW defaults \in IntRates
    PROVE  /\ Over(own, defaults) \in IntRates
           /\ \A f \in RateField : Over(own, defaults)[f] = Coalesce(own[f], defaults[f])
  BY CoalesceTypes DEF Over, IntRates, Rates

LEMMA IntRatesAreRates == IntRates \subseteq Rates
  BY DEF IntRates, Rates

LEMMA RatesOfTypes == ASSUME NEW terms \in Terms \cup {None} PROVE RatesOf(terms) \in Rates
<1>1. CASE terms = None
    BY <1>1 DEF RatesOf, Rates
<1>2. CASE terms # None
    BY <1>2 DEF RatesOf, Terms
<1>. QED
    BY <1>1, <1>2

LEMMA FiledTypes ==
    ASSUME NEW sheet \in Rates, NEW terms \in Terms \cup {None}
    PROVE  FiledFUT(sheet, terms) \in Rates /\ FiledStarlight(sheet, terms) \in Rates
<1>1. RatesOf(terms) \in Rates /\ FileDefaults \in Rates /\ Over(sheet, FileDefaults) \in Rates
    BY RatesOfTypes, Defaults, OverTypes, IntRatesAreRates
<1>2. (IF terms = None THEN FileDefaults ELSE terms.rates) \in Rates
    BY <1>1 DEF Terms
<1>. DEFINE base == IF terms = None THEN FileDefaults ELSE terms.rates
<1>3. PICK b : b = base
    OBVIOUS
<1>4. PICK agreed : agreed = RatesOf(terms)
    OBVIOUS
<1>5. PICK read : read = Over(sheet, FileDefaults)
    OBVIOUS
<1>6. /\ \A f \in RateField : b[f] \in Int \cup {Null} /\ agreed[f] \in Int \cup {Null}
      /\ \A f \in RateField : read[f] \in Int \cup {Null} /\ sheet[f] \in Int \cup {Null}
      /\ \A f \in RateField : FileDefaults[f] \in Int \cup {Null}
      /\ agreed.ulae \in Int \cup {Null} /\ "xol" \in RateField
    BY <1>1, <1>2, <1>3, <1>4, <1>5 DEF Rates, RateField
<1>7. FiledFUT(sheet, terms) \in Rates
    <2>1. \A f \in RateField : FiledFUT(sheet, terms)[f] \in Int \cup {Null}
        BY <1>3, <1>4, <1>6, CoalesceTypes DEF FiledFUT
    <2>. QED
        BY <2>1 DEF FiledFUT, Rates
<1>8. FiledStarlight(sheet, terms) \in Rates
    <2>1. \A f \in RateField : FiledStarlight(sheet, terms)[f] \in Int \cup {Null}
        BY <1>4, <1>5, <1>6, CoalesceTypes DEF FiledStarlight
    <2>. QED
        BY <2>1 DEF FiledStarlight, Rates
<1>. QED
    BY <1>7, <1>8

LEMMA EnteredTypes ==
    ASSUME NEW terms \in Terms \cup {None}
    PROVE  EnteredITD(terms) \in Rates
  BY RatesOfTypes, Defaults, OverTypes, IntRatesAreRates DEF EnteredITD

\* What a read leaves: under a treaty every rate, and the same again on the next read.
LEMMA PopulatedTypes ==
    ASSUME NEW own \in Rates, NEW terms \in Terms \cup {None}
    PROVE  /\ Populated(own, terms) \in Rates
           /\ Populated(Populated(own, terms), terms) = Populated(own, terms)
<1>1. CASE terms = None
    BY <1>1 DEF Populated
<1>2. CASE terms # None
    <2>1. terms.rates \in Rates
        BY <1>2 DEF Terms
    <2>2. TreatyDefaults \in IntRates
        BY Defaults
    <2>. QED
        BY <1>2, <2>1, <2>2 DEF Populated, Coalesce, Rates, IntRates
<1>. QED
    BY <1>1, <1>2

LEMMA ShareTypes ==
    ASSUME NEW cents \in Int, NEW rate \in Int
    PROVE  Share(cents, rate) \in Int
  BY DEF Share, Unit

LEMMA WholeTypes == \A x \in Int : Whole(x) \in Int
  BY DEF Whole, Unit

LEMMA UnderTypes ==
    ASSUME NEW heading, NEW kind, NEW amount \in Int
    PROVE  Under(heading, kind, amount) \in Int
  BY DEF Under

LEMMA CentsTypes ==
    ASSUME NEW v \in Int
    PROVE  Cents(v) \in Int /\ Fixed(v) \in Int
  BY DEF Cents, Fixed, Unit

\* The state of the sheets: one exhibit or none for each workbook.
Shelf(books) ==
    /\ books = [b \in Workbook |-> books[b]]
    /\ \A b \in Workbook : books[b] # None => books[b] \in Exhibit

LEMMA Apart == None \notin Exhibit /\ None \notin Terms
  BY StatementAssumption

LEMMA WorkbookFacts == /\ 0 \in Workbook /\ Month \subseteq Workbook
                       /\ \A b \in Workbook : b \in Nat /\ (b # 0 => b - 1 \in Workbook /\ b \in Month)
  BY StatementAssumption DEF Workbook, Month

LEMMA PreviousTypes ==
    ASSUME NEW books, Shelf(books), NEW b \in Workbook
    PROVE  Previous(books, b) # None => Previous(books, b) \in Exhibit
  BY WorkbookFacts DEF Previous, Shelf

IntReserve == [Reserve -> Int]

LEMMA ReserveTypes ==
    ASSUME NEW a \in Int, NEW b \in Int, NEW c \in Int, NEW d \in Int, NEW e \in Int,
           NEW f \in Int, NEW g \in Int
    PROVE  [Loss |-> a, LossIBNR |-> b, DCC |-> c, DCCIBNR |-> d, AOE |-> e, AOEIBNR |-> f,
            ULAEIBNR |-> g] \in IntReserve
  BY DEF IntReserve, Reserve

LEMMA NothingBut ==
    ASSUME NEW a \in Int, NEW b \in Int, NEW c \in Int, NEW d \in Int
    PROVE  [Nothing EXCEPT !.LossIBNR = a, !.ULAEIBNR = b, !.DCCIBNR = c, !.AOEIBNR = d]
             \in IntReserve
<1>1. {"LossIBNR", "ULAEIBNR", "DCCIBNR", "AOEIBNR"} \subseteq Reserve
    BY DEF Reserve
<1>2. Nothing \in IntReserve
    BY DEF Nothing, IntReserve
<1>3. PICK x \in IntReserve : x = [Nothing EXCEPT !.LossIBNR = a]
    BY <1>1, <1>2, ExceptTypes DEF IntReserve
<1>4. PICK y \in IntReserve : y = [x EXCEPT !.ULAEIBNR = b]
    BY <1>1, ExceptTypes DEF IntReserve
<1>5. PICK z \in IntReserve : z = [y EXCEPT !.DCCIBNR = c]
    BY <1>1, ExceptTypes DEF IntReserve
<1>6. [z EXCEPT !.AOEIBNR = d] \in IntReserve
    BY <1>1, ExceptTypes DEF IntReserve
<1>. QED
    BY <1>3, <1>4, <1>5, <1>6

LEMMA StoredTypes ==
    ASSUME NEW column \in Column, NEW kind
    PROVE  Stored(column, kind) \in IntReserve /\ Unpaid(column, kind) \in IntReserve
<1>1. /\ column.lae_reserves_dcc \in Int /\ column.lae_reserves_aoe \in Int
      /\ column.lae_ibnr_dcc \in Int /\ column.lae_ibnr_aoe \in Int
      /\ column.loss_reserves \in Int /\ column.loss_ibnr \in Int /\ column.ulae_ibnr \in Int
      /\ column.lu \in Int /\ column.aeu \in Int /\ column.laeu \in Int
    BY DEF Column, EnteredField, ReserveField, IBNRField
<1>2. /\ Under("dcc", kind, column.lae_reserves_dcc + column.lae_reserves_aoe) \in Int
      /\ Under("dcc", kind, column.lae_ibnr_dcc + column.lae_ibnr_aoe) \in Int
      /\ Under("aoe", kind, column.lae_reserves_dcc + column.lae_reserves_aoe) \in Int
      /\ Under("aoe", kind, column.lae_ibnr_dcc + column.lae_ibnr_aoe) \in Int
      /\ Under("dcc", kind, column.laeu) \in Int /\ Under("aoe", kind, column.laeu) \in Int
    BY <1>1, UnderTypes
<1>. QED
    BY <1>1, <1>2, ReserveTypes, NothingBut DEF Stored, Unpaid

LEMMA OpeningTypes ==
    ASSUME NEW books, Shelf(books), NEW b \in Workbook, books[b] # None, NEW kind
    PROVE  Opening(books, b, kind) \in IntReserve
<1>1. books[b] \in Exhibit
    BY DEF Shelf
<1>2. Previous(books, b) # None => Previous(books, b).now \in Column
    BY PreviousTypes DEF Exhibit
<1>3. books[b].now \in Column
    BY <1>1 DEF Exhibit
<1>4. Nothing \in IntReserve
    BY DEF Nothing, IntReserve
<1>. QED
    BY <1>2, <1>3, <1>4, StoredTypes DEF Opening

LEMMA OpeningUEPTypes ==
    ASSUME NEW books, Shelf(books), NEW b \in Workbook, books[b] # None
    PROVE  OpeningUEP(books, b) \in Int
<1>1. Previous(books, b) # None => Previous(books, b).now \in Column
    BY PreviousTypes DEF Exhibit
<1>2. books[b].now \in Column
    BY DEF Shelf, Exhibit
<1>. QED
    BY <1>1, <1>2 DEF OpeningUEP, Column, EnteredField

LEMMA ULAEChangeTypes ==
    ASSUME NEW loss \in Int, NEW ibnr \in Int
    PROVE  ChangeInULAE(loss, ibnr) \in Int
  BY DEF ChangeInULAE

LEMMA FutChangeTypes ==
    ASSUME NEW column \in Column, NEW opening, opening.Loss \in Int, opening.DCC \in Int,
           opening.AOE \in Int, NEW earned \in Int, NEW rate \in IntRates, NEW kind
    PROVE  FutChange(column, opening, earned, rate, kind) \in IntReserve
<1>1. /\ column.lu \in Int /\ column.aeu \in Int /\ column.laeu \in Int /\ column.lp \in Int
      /\ column.laep \in Int
    BY DEF Column, EnteredField
<1>2. rate.lossPick \in Int /\ rate.laeDcc \in Int /\ rate.laeAoe \in Int
    BY DEF IntRates, RateField
<1>3. /\ Under("dcc", kind, column.laeu + column.aeu) \in Int
      /\ Under("aoe", kind, column.laeu + column.aeu) \in Int
      /\ Under("dcc", kind, column.laep) \in Int /\ Under("aoe", kind, column.laep) \in Int
    BY <1>1, UnderTypes
<1>4. /\ Share(earned, rate.lossPick) \in Int /\ Share(earned, rate.laeDcc) \in Int
      /\ Share(earned, rate.laeAoe) \in Int
    BY <1>2, ShareTypes
<1>5. \A x \in Int : Whole(x) \in Int
    BY DEF Whole, Unit
<1>6. PICK loss \in Int : loss = column.lu - opening.Loss
    BY <1>1
<1>7. PICK dcc \in Int : dcc = Under("dcc", kind, column.laeu + column.aeu) - opening.DCC
    BY <1>3
<1>8. PICK aoe \in Int : aoe = Under("aoe", kind, column.laeu + column.aeu) - opening.AOE
    BY <1>3
<1>9. PICK ibnr \in Int : ibnr = Share(earned, rate.lossPick) - Whole(column.lp + loss)
    BY <1>1, <1>4, <1>5
<1>10. ChangeInULAE(Whole(loss), ibnr) \in Int /\ Whole(loss) \in Int
    BY <1>5, ULAEChangeTypes
<1>11. /\ Whole(dcc) \in Int /\ Whole(aoe) \in Int
       /\ Share(earned, rate.laeDcc) - Whole(Under("dcc", kind, column.laep) + dcc) \in Int
       /\ Share(earned, rate.laeAoe) - Whole(Under("aoe", kind, column.laep) + aoe) \in Int
    BY <1>3, <1>4, <1>5
<1>12. [Loss |-> Whole(loss), LossIBNR |-> ibnr, DCC |-> Whole(dcc),
        DCCIBNR |-> Share(earned, rate.laeDcc) - Whole(Under("dcc", kind, column.laep) + dcc),
        AOE |-> Whole(aoe),
        AOEIBNR |-> Share(earned, rate.laeAoe) - Whole(Under("aoe", kind, column.laep) + aoe),
        ULAEIBNR |-> ChangeInULAE(Whole(loss), ibnr)] \in IntReserve
    BY <1>10, <1>11, ReserveTypes
<1>. QED
    BY <1>6, <1>7, <1>8, <1>9, <1>12 DEF FutChange

LEMMA PickChangeTypes ==
    ASSUME NEW earned \in Int, NEW rate \in IntRates, NEW kind
    PROVE  PickChange(earned, rate, kind) \in IntReserve
<1>1. rate.lossPick \in Int /\ rate.laeDcc \in Int /\ rate.laeAoe \in Int
    BY DEF IntRates, RateField
<1>2. /\ Share(earned, rate.lossPick) \in Int /\ Share(earned, rate.laeDcc) \in Int
      /\ Share(earned, rate.laeAoe) \in Int
    BY <1>1, ShareTypes
<1>3. /\ Under("dcc", kind, Share(earned, rate.laeDcc)) \in Int
      /\ Under("aoe", kind, Share(earned, rate.laeAoe)) \in Int
    BY <1>2, UnderTypes
<1>4. ChangeInULAE(0, Share(earned, rate.lossPick)) \in Int
    BY <1>2, ULAEChangeTypes
<1>. QED
    BY <1>2, <1>3, <1>4, NothingBut DEF PickChange

LEMMA ChangeTypes ==
    ASSUME NEW books, Shelf(books), NEW b \in Workbook, books[b] # None, NEW earned \in Int,
           NEW rate \in IntRates, NEW kind
    PROVE  Change(books, b, earned, rate, kind) \in IntReserve
<1>1. books[b].now \in Column
    BY DEF Shelf, Exhibit
<1>2. PICK opening \in IntReserve : opening = Opening(books, b, kind)
    BY OpeningTypes
<1>3. Stored(books[b].now, kind) \in IntReserve
    BY <1>1, StoredTypes
<1>4. opening.Loss \in Int /\ opening.DCC \in Int /\ opening.AOE \in Int
    BY DEF IntReserve, Reserve
<1>5. FutChange(books[b].now, opening, earned, rate, kind) \in IntReserve
    BY <1>1, <1>4, FutChangeTypes
<1>6. PickChange(earned, rate, kind) \in IntReserve
    BY PickChangeTypes
<1>7. [x \in Reserve |-> Whole(Stored(books[b].now, kind)[x] - opening[x])] \in IntReserve
    BY <1>3 DEF IntReserve, Whole, Unit
<1>. QED
    BY <1>2, <1>5, <1>6, <1>7 DEF Change

LEMMA ULAEPaidTypes ==
    ASSUME NEW books, Shelf(books), NEW b \in Workbook, books[b] # None, NEW earned \in Int,
           NEW rate \in IntRates, NEW terms \in Terms \cup {None}
    PROVE  ULAEPaid(books, b, earned, rate, terms) \in Int
<1>1. books[b].now.pw \in Int /\ books[b].now.uep \in Int
    BY DEF Shelf, Exhibit, Column, EnteredField
<1>2. rate.ulae \in Int
    BY DEF IntRates, RateField
<1>3. /\ Share(books[b].now.pw, rate.ulae) \in Int /\ Share(books[b].now.uep, rate.ulae) \in Int
      /\ Share(earned, rate.ulae) \in Int
    BY <1>1, <1>2, ShareTypes
<1>4. Flat(terms) => Whole(terms.flat) \in Int
    BY DEF Flat, Terms, Whole, Unit
<1>. QED
    BY <1>3, <1>4 DEF ULAEPaid

EarnedOf(books, b) == books[b].now.pw + (OpeningUEP(books, b) - books[b].now.uep)

LEMMA EarnedTypes ==
    ASSUME NEW books, Shelf(books), NEW b \in Workbook, books[b] # None
    PROVE  /\ OpeningUEP(books, b) - books[b].now.uep \in Int
           /\ EarnedOf(books, b) \in Int
<1>1. books[b].now.pw \in Int /\ books[b].now.uep \in Int
    BY DEF Shelf, Exhibit, Column, EnteredField
<1>. QED
    BY <1>1, OpeningUEPTypes DEF EarnedOf

\* The figures of a month.
LEMMA ValuesTypes ==
    ASSUME NEW books, Shelf(books), NEW b \in Workbook, books[b] # None, NEW own \in Rates,
           NEW terms \in Terms \cup {None}, NEW v, v = CedingValues(books, b, own, terms)
    PROVE  /\ v.premiumWritten \in Int /\ v.changeUEP \in Int /\ v.cedingCommission \in Int
           /\ v.lossesPaid \in Int /\ v.dccPaid \in Int /\ v.aoePaid \in Int /\ v.ulaePaid \in Int
           /\ v.boardsCharge \in Int /\ v.boardsUEP \in Int /\ v.lossRatioCap \in Int
           /\ v.lossRatioCapUEP \in Int /\ v.frontingFee \in Int /\ v.frontingFeeUEP \in Int
           /\ v.change \in IntReserve
<1>1. PICK column \in Column : column = books[b].now
    BY DEF Shelf, Exhibit
<1>2. PICK rate \in IntRates : rate = Over(own, StatementDefaults)
    BY OverTypes, Defaults
<1>3. PICK kind : kind = Kind(rate)
    OBVIOUS
<1>4. PICK moved \in Int : moved = OpeningUEP(books, b) - column.uep
    BY <1>1, EarnedTypes
<1>5. column.pw + moved \in Int
    BY DEF Column, EnteredField
<1>6. PICK lae \in Int : lae = column.laep + IF SourceOf(b) = "FUT" THEN 0 ELSE column.ae_paid
    BY DEF Column, EnteredField
<1>7. Change(books, b, column.pw + moved, rate, kind) \in IntReserve
    BY <1>5, ChangeTypes
<1>8. ULAEPaid(books, b, column.pw + moved, rate, terms) \in Int
    BY <1>5, ULAEPaidTypes
<1>9. /\ column.pw \in Int /\ column.lp \in Int
      /\ rate.comm \in Int /\ rate.boardsCharge \in Int /\ rate.lossRatioCap \in Int
    BY DEF Column, EnteredField, IntRates, RateField
<1>12. Whole(column.pw) \in Int /\ Whole(moved) \in Int /\ Whole(column.lp) \in Int
    BY <1>9, WholeTypes
<1>10. /\ Share(column.pw, rate.comm) \in Int
       /\ Share(column.pw, rate.boardsCharge) \in Int /\ Share(moved, rate.boardsCharge) \in Int
       /\ Share(column.pw, rate.lossRatioCap) \in Int /\ Share(moved, rate.lossRatioCap) \in Int
    BY <1>9, ShareTypes
<1>13. PICK fee \in Int : fee = 50
    OBVIOUS
<1>14. Share(column.pw, fee) \in Int /\ Share(moved, fee) \in Int
    BY <1>9, ShareTypes
<1>11. Whole(Under("dcc", kind, lae)) \in Int /\ Whole(Under("aoe", kind, lae)) \in Int
    BY UnderTypes, WholeTypes
<1>. QED
    BY <1>1, <1>2, <1>3, <1>4, <1>6, <1>7, <1>8, <1>10, <1>11, <1>12, <1>13, <1>14 DEF CedingValues

----------------------------------------------------------------------------
\* What the steps do to the sheets

LEMMA CarriedTypes ==
    ASSUME NEW prev, prev = None \/ prev \in Exhibit
    PROVE  /\ \A f \in EnteredField \cup ReserveField : CarriedAlone(prev, f) \in Int
           /\ \A f, u \in EnteredField \cup ReserveField : CarriedOver(prev, f, u) \in Int
  BY DEF CarriedAlone, CarriedOver, Exhibit, Column

LEMMA PriorTypes ==
    ASSUME NEW prev, prev = None \/ prev \in Exhibit
    PROVE  Prior(prev) \in [IBNRField -> Int]
<1>1. /\ CarriedOver(prev, "loss_ibnr", "lu") \in Int
      /\ CarriedOver(prev, "lae_ibnr_dcc", "laeu") \in Int
      /\ CarriedAlone(prev, "lae_ibnr_aoe") \in Int
      /\ CarriedOver(prev, "ulae_ibnr", "aeu") \in Int
    BY CarriedTypes DEF EnteredField, ReserveField, IBNRField
<1>2. \A a, b, c, d \in Int : [loss_ibnr |-> a, lae_ibnr_dcc |-> b, lae_ibnr_aoe |-> c,
                               ulae_ibnr |-> d] \in [IBNRField -> Int]
    BY DEF IBNRField
<1>. QED
    BY <1>1, <1>2 DEF Prior

\* The opening balances the roll-forward starts from.
Carries(prev) ==
    [Loss |-> CarriedAlone(prev, "loss_reserves"), DCC |-> CarriedAlone(prev, "lae_reserves_dcc"),
     AOE |-> CarriedAlone(prev, "lae_reserves_aoe")]

\* The premium it takes as earned.
EarnedIn(column, prev) == column.pw + CarriedAlone(prev, "uep") - column.uep

ChangeIn(column, prev, own) ==
    FutChange(column, Carries(prev), EarnedIn(column, prev), Over(own, StatementDefaults),
              Kind(Over(own, StatementDefaults)))

LEMMA ChangeInTypes ==
    ASSUME NEW column \in Column, NEW prev, prev = None \/ prev \in Exhibit, NEW own \in Rates
    PROVE  ChangeIn(column, prev, own) \in IntReserve
<1>1. /\ CarriedAlone(prev, "loss_reserves") \in Int /\ CarriedAlone(prev, "lae_reserves_dcc") \in Int
      /\ CarriedAlone(prev, "lae_reserves_aoe") \in Int /\ CarriedAlone(prev, "uep") \in Int
    BY CarriedTypes DEF EnteredField, ReserveField, IBNRField
<1>2. EarnedIn(column, prev) \in Int
    BY <1>1 DEF EarnedIn, Column, EnteredField
<1>3. PICK opening : opening = Carries(prev)
    OBVIOUS
<1>4. opening.Loss \in Int /\ opening.DCC \in Int /\ opening.AOE \in Int
    BY <1>1, <1>3 DEF Carries
<1>5. PICK rate \in IntRates : rate = Over(own, StatementDefaults)
    BY OverTypes, Defaults
<1>6. FutChange(column, opening, EarnedIn(column, prev), rate, Kind(rate)) \in IntReserve
    BY <1>2, <1>4, FutChangeTypes
<1>. QED
    BY <1>3, <1>5, <1>6 DEF ChangeIn

LEMMA ClosingIs ==
    ASSUME NEW column \in Column, NEW prev, prev = None \/ prev \in Exhibit, NEW own \in Rates,
           NEW kind, kind = Kind(Over(own, StatementDefaults)),
           NEW change, change = ChangeIn(column, prev, own),
           NEW c, c = Closing(column, prev, own)
    PROVE  /\ c.loss_reserves = column.lu
           /\ c.lae_reserves_dcc = Under("dcc", kind, column.laeu + column.aeu)
           /\ c.lae_reserves_aoe = Under("aoe", kind, column.laeu + column.aeu)
           /\ c.loss_ibnr = Fixed(Whole(Prior(prev).loss_ibnr) + change.LossIBNR)
           /\ c.lae_ibnr_dcc =
                  Under("dcc", kind, Fixed(Whole(Prior(prev).lae_ibnr_dcc) + change.DCCIBNR))
           /\ c.lae_ibnr_aoe =
                  Under("aoe", kind, Fixed(Whole(Prior(prev).lae_ibnr_aoe) + change.AOEIBNR))
           /\ c.ulae_ibnr = Fixed(Whole(Prior(prev).ulae_ibnr) + change.ULAEIBNR)
  BY DEF Closing, ChangeIn, Carries, EarnedIn

LEMMA ClosingTypes ==
    ASSUME NEW column \in Column, NEW prev, prev = None \/ prev \in Exhibit, NEW own \in Rates
    PROVE  \A f \in ReserveField : Closing(column, prev, own)[f] \in Int
<1>1. PICK kind : kind = Kind(Over(own, StatementDefaults))
    OBVIOUS
<1>2. PICK change \in IntReserve : change = ChangeIn(column, prev, own)
    BY ChangeInTypes
<1>3. PICK c : c = Closing(column, prev, own)
    OBVIOUS
<1>4. PICK p \in [IBNRField -> Int] : p = Prior(prev)
    BY PriorTypes
<1>5. /\ change.LossIBNR \in Int /\ change.DCCIBNR \in Int /\ change.AOEIBNR \in Int
      /\ change.ULAEIBNR \in Int
    BY DEF IntReserve, Reserve
<1>6. /\ p.loss_ibnr \in Int /\ p.lae_ibnr_dcc \in Int /\ p.lae_ibnr_aoe \in Int /\ p.ulae_ibnr \in Int
    BY DEF IBNRField
<1>7. /\ Fixed(Whole(p.loss_ibnr) + change.LossIBNR) \in Int
      /\ Fixed(Whole(p.lae_ibnr_dcc) + change.DCCIBNR) \in Int
      /\ Fixed(Whole(p.lae_ibnr_aoe) + change.AOEIBNR) \in Int
      /\ Fixed(Whole(p.ulae_ibnr) + change.ULAEIBNR) \in Int
    <2>1. \A x, y \in Int : Whole(x) + y \in Int
        BY DEF Whole, Unit
    <2>. QED
        BY <1>5, <1>6, <2>1, CentsTypes
<1>8. column.lu \in Int /\ column.laeu + column.aeu \in Int
    BY DEF Column, EnteredField
<1>9. /\ c.loss_reserves \in Int /\ c.lae_reserves_dcc \in Int /\ c.lae_reserves_aoe \in Int
      /\ c.loss_ibnr \in Int /\ c.lae_ibnr_dcc \in Int /\ c.lae_ibnr_aoe \in Int /\ c.ulae_ibnr \in Int
    <2>1. /\ c.loss_reserves = column.lu
          /\ c.lae_reserves_dcc = Under("dcc", kind, column.laeu + column.aeu)
          /\ c.lae_reserves_aoe = Under("aoe", kind, column.laeu + column.aeu)
          /\ c.loss_ibnr = Fixed(Whole(p.loss_ibnr) + change.LossIBNR)
          /\ c.lae_ibnr_dcc = Under("dcc", kind, Fixed(Whole(p.lae_ibnr_dcc) + change.DCCIBNR))
          /\ c.lae_ibnr_aoe = Under("aoe", kind, Fixed(Whole(p.lae_ibnr_aoe) + change.AOEIBNR))
          /\ c.ulae_ibnr = Fixed(Whole(p.ulae_ibnr) + change.ULAEIBNR)
        BY <1>1, <1>2, <1>3, <1>4, ClosingIs
    <2>. QED
        BY <1>7, <1>8, <2>1, UnderTypes
<1>. QED
    BY <1>3, <1>9 DEF ReserveField, IBNRField

LEMMA RolledTypes ==
    ASSUME NEW books, Shelf(books), NEW b \in Workbook, books[b] # None, NEW own \in Rates
    PROVE  RolledForward(books, b, own) \in Exhibit
<1>1. PICK column \in Column : column = books[b].now
    BY DEF Shelf, Exhibit
<1>2. PICK prev : prev = Previous(books, b)
    OBVIOUS
<1>3. prev = None \/ prev \in Exhibit
    BY <1>2, PreviousTypes
<1>4. DOMAIN column = EnteredField \cup ReserveField
    BY DEF Column
<1>5. [f \in DOMAIN column |-> IF f \in ReserveField THEN Closing(column, prev, own)[f]
                                                     ELSE column[f]] \in Column
    BY <1>3, <1>4, ClosingTypes DEF Column
<1>6. Prior(prev) \in [IBNRField -> Int]
    BY <1>3, PriorTypes
<1>. QED
    BY <1>1, <1>2, <1>5, <1>6 DEF RolledForward, Exhibit

LEMMA RefreshedTypes ==
    ASSUME NEW books, Shelf(books), NEW b \in Workbook, books[b] # None, NEW own \in Rates
    PROVE  /\ Shelf(Refreshed(books, b, own))
           /\ Refreshed(books, b, own)[b] # None
           /\ \A c \in Workbook : c # b => Refreshed(books, b, own)[c] = books[c]
           /\ Refreshed(books, b, own)[b] =
                  IF SourceOf(b) = "FUT" THEN RolledForward(books, b, own) ELSE books[b]
<1>1. RolledForward(books, b, own) \in Exhibit /\ RolledForward(books, b, own) # None
    BY RolledTypes, Apart
<1>. QED
    BY <1>1 DEF Refreshed, Shelf

----------------------------------------------------------------------------
\* The rows of the template

Accounts ==
    {"120100", "125100", "127100", "160400", "200100", "200300", "200400", "200600",
     "207100", "207300", "207400", "207600", "208100", "208300", "208400", "208600",
     "209400", "209600", "230100", "230300", "243100", "243200", "264400", "400100",
     "400300", "411100", "411300", "500100", "500110", "500300", "550100", "550300",
     "550400", "550600", "557100", "557300", "557400", "557600", "558100", "558300",
     "558400", "558600", "559400", "559600", "600100", "600300", "601100", "601300",
     "602100", "602300", "603100", "603300"}

TemplateRows == [account : Accounts, sign : {1, -1}, figure : Figures \cup Reserve]

LEMMA RowTypes ==
    ASSUME NEW account \in Accounts, NEW figure \in Figures \cup Reserve
    PROVE  Dr(account, figure) \in TemplateRows /\ Cr(account, figure) \in TemplateRows
  BY DEF Dr, Cr, TemplateRows

LEMMA FiguresAre ==
    /\ \A f \in {"premiumWritten", "changeUEP", "cedingCommission", "lossesPaid", "dccPaid",
                 "aoePaid", "ulaePaid", "boardsCharge", "boardsUEP", "lossRatioCap",
                 "lossRatioCapUEP", "frontingFee", "frontingFeeUEP"} : f \in Figures /\ f \notin Reserve
    /\ \A f \in {"Loss", "LossIBNR", "DCC", "DCCIBNR", "AOE", "AOEIBNR", "ULAEIBNR"} : f \in Reserve
  BY DEF Figures, Reserve

LEMMA Seq12 ==
    ASSUME NEW T, NEW a \in T, NEW b \in T, NEW c \in T, NEW d \in T, NEW e \in T, NEW f \in T,
           NEW g \in T, NEW h \in T, NEW i \in T, NEW j \in T, NEW k \in T, NEW l \in T
    PROVE  /\ <<a, b, c, d, e, f, g, h, i, j, k, l>> \in Seq(T)
           /\ Len(<<a, b, c, d, e, f, g, h, i, j, k, l>>) = 12
  OBVIOUS

LEMMA Seq8 ==
    ASSUME NEW T, NEW a \in T, NEW b \in T, NEW c \in T, NEW d \in T, NEW e \in T, NEW f \in T,
           NEW g \in T, NEW h \in T
    PROVE  /\ <<a, b, c, d, e, f, g, h>> \in Seq(T)
           /\ Len(<<a, b, c, d, e, f, g, h>>) = 8
  OBVIOUS

LEMMA SectionTypes ==
    /\ PremiumRows \in Seq(TemplateRows) /\ Len(PremiumRows) = 12
    /\ LossRows \in Seq(TemplateRows) /\ Len(LossRows) = 12
    /\ DCCRows \in Seq(TemplateRows) /\ Len(DCCRows) = 12
    /\ AOERows \in Seq(TemplateRows) /\ Len(AOERows) = 12
    /\ ULAERows \in Seq(TemplateRows) /\ Len(ULAERows) = 8
    /\ FeeRows \in Seq(TemplateRows) /\ Len(FeeRows) = 12
<1>1. PremiumRows \in Seq(TemplateRows) /\ Len(PremiumRows) = 12
    <2>1. /\ Dr("120100", "premiumWritten") \in TemplateRows
          /\ Cr("400100", "premiumWritten") \in TemplateRows
          /\ Cr("411100", "changeUEP") \in TemplateRows
          /\ Dr("230100", "changeUEP") \in TemplateRows
          /\ Dr("400300", "premiumWritten") \in TemplateRows
          /\ Cr("243100", "premiumWritten") \in TemplateRows
          /\ Cr("230300", "changeUEP") \in TemplateRows
          /\ Dr("411300", "changeUEP") \in TemplateRows
          /\ Dr("500100", "cedingCommission") \in TemplateRows
          /\ Cr("120100", "cedingCommission") \in TemplateRows
          /\ Dr("243100", "cedingCommission") \in TemplateRows
          /\ Cr("500300", "cedingCommission") \in TemplateRows
        BY FiguresAre, RowTypes DEF Accounts
    <2>. HIDE DEF TemplateRows
    <2>. QED
        BY <2>1, Seq12 DEF PremiumRows
<1>2. LossRows \in Seq(TemplateRows) /\ Len(LossRows) = 12
    <2>1. /\ Dr("600100", "lossesPaid") \in TemplateRows
          /\ Cr("264400", "lossesPaid") \in TemplateRows
          /\ Dr("125100", "lossesPaid") \in TemplateRows
          /\ Cr("600300", "lossesPaid") \in TemplateRows
          /\ Dr("550100", "Loss") \in TemplateRows
          /\ Cr("200100", "Loss") \in TemplateRows
          /\ Dr("200300", "Loss") \in TemplateRows
          /\ Cr("550300", "Loss") \in TemplateRows
          /\ Dr("550400", "LossIBNR") \in TemplateRows
          /\ Cr("200400", "LossIBNR") \in TemplateRows
          /\ Dr("200600", "LossIBNR") \in TemplateRows
          /\ Cr("550600", "LossIBNR") \in TemplateRows
        BY FiguresAre, RowTypes DEF Accounts
    <2>. HIDE DEF TemplateRows
    <2>. QED
        BY <2>1, Seq12 DEF LossRows
<1>3. DCCRows \in Seq(TemplateRows) /\ Len(DCCRows) = 12
    <2>1. /\ Dr("601100", "dccPaid") \in TemplateRows
          /\ Cr("264400", "dccPaid") \in TemplateRows
          /\ Dr("125100", "dccPaid") \in TemplateRows
          /\ Cr("601300", "dccPaid") \in TemplateRows
          /\ Dr("557100", "DCC") \in TemplateRows
          /\ Cr("207100", "DCC") \in TemplateRows
          /\ Dr("207300", "DCC") \in TemplateRows
          /\ Cr("557300", "DCC") \in TemplateRows
          /\ Dr("557400", "DCCIBNR") \in TemplateRows
          /\ Cr("207400", "DCCIBNR") \in TemplateRows
          /\ Dr("207600", "DCCIBNR") \in TemplateRows
          /\ Cr("557600", "DCCIBNR") \in TemplateRows
        BY FiguresAre, RowTypes DEF Accounts
    <2>. HIDE DEF TemplateRows
    <2>. QED
        BY <2>1, Seq12 DEF DCCRows
<1>4. AOERows \in Seq(TemplateRows) /\ Len(AOERows) = 12
    <2>1. /\ Dr("602100", "aoePaid") \in TemplateRows
          /\ Cr("264400", "aoePaid") \in TemplateRows
          /\ Dr("125100", "aoePaid") \in TemplateRows
          /\ Cr("602300", "aoePaid") \in TemplateRows
          /\ Dr("558100", "AOE") \in TemplateRows
          /\ Cr("208100", "AOE") \in TemplateRows
          /\ Dr("208300", "AOE") \in TemplateRows
          /\ Cr("558300", "AOE") \in TemplateRows
          /\ Dr("558400", "AOEIBNR") \in TemplateRows
          /\ Cr("208400", "AOEIBNR") \in TemplateRows
          /\ Dr("208600", "AOEIBNR") \in TemplateRows
          /\ Cr("558600", "AOEIBNR") \in TemplateRows
        BY FiguresAre, RowTypes DEF Accounts
    <2>. HIDE DEF TemplateRows
    <2>. QED
        BY <2>1, Seq12 DEF AOERows
<1>5. ULAERows \in Seq(TemplateRows) /\ Len(ULAERows) = 8
    <2>1. /\ Dr("603100", "ulaePaid") \in TemplateRows
          /\ Cr("264400", "ulaePaid") \in TemplateRows
          /\ Dr("125100", "ulaePaid") \in TemplateRows
          /\ Cr("603300", "ulaePaid") \in TemplateRows
          /\ Dr("559400", "ULAEIBNR") \in TemplateRows
          /\ Cr("209400", "ULAEIBNR") \in TemplateRows
          /\ Dr("209600", "ULAEIBNR") \in TemplateRows
          /\ Cr("559600", "ULAEIBNR") \in TemplateRows
        BY FiguresAre, RowTypes DEF Accounts
    <2>. HIDE DEF TemplateRows
    <2>. QED
        BY <2>1, Seq8 DEF ULAERows
<1>6. FeeRows \in Seq(TemplateRows) /\ Len(FeeRows) = 12
    <2>1. /\ Dr("127100", "boardsCharge") \in TemplateRows
          /\ Cr("500300", "boardsCharge") \in TemplateRows
          /\ Cr("500300", "boardsUEP") \in TemplateRows
          /\ Dr("243200", "boardsUEP") \in TemplateRows
          /\ Dr("243100", "lossRatioCap") \in TemplateRows
          /\ Cr("500300", "lossRatioCap") \in TemplateRows
          /\ Cr("500300", "lossRatioCapUEP") \in TemplateRows
          /\ Dr("243200", "lossRatioCapUEP") \in TemplateRows
          /\ Dr("160400", "frontingFee") \in TemplateRows
          /\ Cr("500110", "frontingFee") \in TemplateRows
          /\ Cr("500110", "frontingFeeUEP") \in TemplateRows
          /\ Dr("243200", "frontingFeeUEP") \in TemplateRows
        BY FiguresAre, RowTypes DEF Accounts
    <2>. HIDE DEF TemplateRows
    <2>. QED
        BY <2>1, Seq12 DEF FeeRows
<1>. QED
    BY <1>1, <1>2, <1>3, <1>4, <1>5, <1>6

LEMMA TemplateIs ==
    /\ TemplateRow = 1 .. 68
    /\ Template \in Seq(TemplateRows)
    /\ \A i \in 1 .. 12 : Template[i] = PremiumRows[i]
    /\ \A i \in 13 .. 24 : Template[i] = LossRows[i - 12]
    /\ \A i \in 25 .. 36 : Template[i] = DCCRows[i - 24]
    /\ \A i \in 37 .. 48 : Template[i] = AOERows[i - 36]
    /\ \A i \in 49 .. 56 : Template[i] = ULAERows[i - 48]
    /\ \A i \in 57 .. 68 : Template[i] = FeeRows[i - 56]
<1>1. PICK a : a = PremiumRows \o LossRows
    OBVIOUS
<1>2. /\ a \in Seq(TemplateRows) /\ Len(a) = 24
      /\ \A i \in 1 .. 12 : a[i] = PremiumRows[i]
      /\ \A i \in 13 .. 24 : a[i] = LossRows[i - 12]
    <2>1. PICK m \in Nat, n \in Nat : m = 12 /\ n = 12
        OBVIOUS
    <2>2. /\ PremiumRows \in Seq(TemplateRows) /\ LossRows \in Seq(TemplateRows)
          /\ Len(PremiumRows) = m /\ Len(LossRows) = n
        BY <2>1, SectionTypes
    <2>3. /\ PremiumRows \o LossRows \in Seq(TemplateRows) /\ Len(PremiumRows \o LossRows) = m + n
          /\ \A i \in 1 .. m : (PremiumRows \o LossRows)[i] = PremiumRows[i]
          /\ \A i \in m + 1 .. m + n : (PremiumRows \o LossRows)[i] = LossRows[i - m]
        BY <2>2
    <2>4. /\ a \in Seq(TemplateRows) /\ Len(a) = m + n
          /\ \A i \in 1 .. m : a[i] = PremiumRows[i]
          /\ \A i \in m + 1 .. m + n : a[i] = LossRows[i - m]
        BY <1>1, <2>3, Zenon
    <2>. QED
        BY <2>1, <2>4
<1>3. PICK b : b = a \o DCCRows
    OBVIOUS
<1>4. /\ b \in Seq(TemplateRows) /\ Len(b) = 36
      /\ \A i \in 1 .. 24 : b[i] = a[i]
      /\ \A i \in 25 .. 36 : b[i] = DCCRows[i - 24]
    <2>1. PICK m \in Nat, n \in Nat : m = 24 /\ n = 12
        OBVIOUS
    <2>2. /\ a \in Seq(TemplateRows) /\ DCCRows \in Seq(TemplateRows)
          /\ Len(a) = m /\ Len(DCCRows) = n
        BY <2>1, <1>2, SectionTypes
    <2>3. /\ a \o DCCRows \in Seq(TemplateRows) /\ Len(a \o DCCRows) = m + n
          /\ \A i \in 1 .. m : (a \o DCCRows)[i] = a[i]
          /\ \A i \in m + 1 .. m + n : (a \o DCCRows)[i] = DCCRows[i - m]
        BY <2>2
    <2>4. /\ b \in Seq(TemplateRows) /\ Len(b) = m + n
          /\ \A i \in 1 .. m : b[i] = a[i]
          /\ \A i \in m + 1 .. m + n : b[i] = DCCRows[i - m]
        BY <1>3, <2>3, Zenon
    <2>. QED
        BY <2>1, <2>4
<1>5. PICK c : c = b \o AOERows
    OBVIOUS
<1>6. /\ c \in Seq(TemplateRows) /\ Len(c) = 48
      /\ \A i \in 1 .. 36 : c[i] = b[i]
      /\ \A i \in 37 .. 48 : c[i] = AOERows[i - 36]
    <2>1. PICK m \in Nat, n \in Nat : m = 36 /\ n = 12
        OBVIOUS
    <2>2. /\ b \in Seq(TemplateRows) /\ AOERows \in Seq(TemplateRows)
          /\ Len(b) = m /\ Len(AOERows) = n
        BY <2>1, <1>4, SectionTypes
    <2>3. /\ b \o AOERows \in Seq(TemplateRows) /\ Len(b \o AOERows) = m + n
          /\ \A i \in 1 .. m : (b \o AOERows)[i] = b[i]
          /\ \A i \in m + 1 .. m + n : (b \o AOERows)[i] = AOERows[i - m]
        BY <2>2
    <2>4. /\ c \in Seq(TemplateRows) /\ Len(c) = m + n
          /\ \A i \in 1 .. m : c[i] = b[i]
          /\ \A i \in m + 1 .. m + n : c[i] = AOERows[i - m]
        BY <1>5, <2>3, Zenon
    <2>. QED
        BY <2>1, <2>4
<1>7. PICK d : d = c \o ULAERows
    OBVIOUS
<1>8. /\ d \in Seq(TemplateRows) /\ Len(d) = 56
      /\ \A i \in 1 .. 48 : d[i] = c[i]
      /\ \A i \in 49 .. 56 : d[i] = ULAERows[i - 48]
    <2>1. PICK m \in Nat, n \in Nat : m = 48 /\ n = 8
        OBVIOUS
    <2>2. /\ c \in Seq(TemplateRows) /\ ULAERows \in Seq(TemplateRows)
          /\ Len(c) = m /\ Len(ULAERows) = n
        BY <2>1, <1>6, SectionTypes
    <2>3. /\ c \o ULAERows \in Seq(TemplateRows) /\ Len(c \o ULAERows) = m + n
          /\ \A i \in 1 .. m : (c \o ULAERows)[i] = c[i]
          /\ \A i \in m + 1 .. m + n : (c \o ULAERows)[i] = ULAERows[i - m]
        BY <2>2
    <2>4. /\ d \in Seq(TemplateRows) /\ Len(d) = m + n
          /\ \A i \in 1 .. m : d[i] = c[i]
          /\ \A i \in m + 1 .. m + n : d[i] = ULAERows[i - m]
        BY <1>7, <2>3, Zenon
    <2>. QED
        BY <2>1, <2>4
<1>9. PICK e : e = d \o FeeRows
    OBVIOUS
<1>10. /\ e \in Seq(TemplateRows) /\ Len(e) = 68
       /\ \A i \in 1 .. 56 : e[i] = d[i]
       /\ \A i \in 57 .. 68 : e[i] = FeeRows[i - 56]
    <2>1. PICK m \in Nat, n \in Nat : m = 56 /\ n = 12
        OBVIOUS
    <2>2. /\ d \in Seq(TemplateRows) /\ FeeRows \in Seq(TemplateRows)
          /\ Len(d) = m /\ Len(FeeRows) = n
        BY <2>1, <1>8, SectionTypes
    <2>3. /\ d \o FeeRows \in Seq(TemplateRows) /\ Len(d \o FeeRows) = m + n
          /\ \A i \in 1 .. m : (d \o FeeRows)[i] = d[i]
          /\ \A i \in m + 1 .. m + n : (d \o FeeRows)[i] = FeeRows[i - m]
        BY <2>2
    <2>4. /\ e \in Seq(TemplateRows) /\ Len(e) = m + n
          /\ \A i \in 1 .. m : e[i] = d[i]
          /\ \A i \in m + 1 .. m + n : e[i] = FeeRows[i - m]
        BY <1>9, <2>3, Zenon
    <2>. QED
        BY <2>1, <2>4
<1>11. Template = e
    BY <1>1, <1>3, <1>5, <1>7, <1>9 DEF Template
<1>12. /\ TemplateRow = 1 .. 68 /\ Template \in Seq(TemplateRows)
       /\ \A i \in 57 .. 68 : Template[i] = FeeRows[i - 56]
    BY <1>10, <1>11 DEF TemplateRow
<1>13. \A i \in 1 .. 56 : Template[i] = d[i]
    BY <1>10, <1>11
<1>14. \A i \in 1 .. 48 : Template[i] = c[i]
    <2>1. \A i \in 1 .. 48 : i \in 1 .. 56
        OBVIOUS
    <2>. QED
        BY <2>1, <1>8, <1>13, Zenon
<1>15. \A i \in 1 .. 36 : Template[i] = b[i]
    <2>1. \A i \in 1 .. 36 : i \in 1 .. 48
        OBVIOUS
    <2>. QED
        BY <2>1, <1>6, <1>14, Zenon
<1>16. \A i \in 1 .. 24 : Template[i] = a[i]
    <2>1. \A i \in 1 .. 24 : i \in 1 .. 36
        OBVIOUS
    <2>. QED
        BY <2>1, <1>4, <1>15, Zenon
<1>17. \A i \in 49 .. 56 : Template[i] = ULAERows[i - 48]
    <2>1. \A i \in 49 .. 56 : i \in 1 .. 56
        OBVIOUS
    <2>. QED
        BY <2>1, <1>8, <1>13, Zenon
<1>18. \A i \in 37 .. 48 : Template[i] = AOERows[i - 36]
    <2>1. \A i \in 37 .. 48 : i \in 1 .. 48
        OBVIOUS
    <2>. QED
        BY <2>1, <1>6, <1>14, Zenon
<1>19. \A i \in 25 .. 36 : Template[i] = DCCRows[i - 24]
    <2>1. \A i \in 25 .. 36 : i \in 1 .. 36
        OBVIOUS
    <2>. QED
        BY <2>1, <1>4, <1>15, Zenon
<1>20. \A i \in 1 .. 12 : Template[i] = PremiumRows[i]
    <2>1. \A i \in 1 .. 12 : i \in 1 .. 24
        OBVIOUS
    <2>. QED
        BY <2>1, <1>2, <1>16, Zenon
<1>21. \A i \in 13 .. 24 : Template[i] = LossRows[i - 12]
    <2>1. \A i \in 13 .. 24 : i \in 1 .. 24
        OBVIOUS
    <2>. QED
        BY <2>1, <1>2, <1>16, Zenon
<1>. QED
    BY <1>12, <1>17, <1>18, <1>19, <1>20, <1>21

IntValues(v) ==
    /\ \A f \in Figures : v[f] \in Int
    /\ v.change \in IntReserve

LEMMA ValuesAreInt ==
    ASSUME NEW books, Shelf(books), NEW b \in Workbook, books[b] # None, NEW own \in Rates,
           NEW terms \in Terms \cup {None}
    PROVE  IntValues(CedingValues(books, b, own, terms))
<1>1. PICK v : v = CedingValues(books, b, own, terms)
    OBVIOUS
<1>2. /\ v.premiumWritten \in Int /\ v.changeUEP \in Int /\ v.cedingCommission \in Int
      /\ v.lossesPaid \in Int /\ v.dccPaid \in Int /\ v.aoePaid \in Int /\ v.ulaePaid \in Int
      /\ v.boardsCharge \in Int /\ v.boardsUEP \in Int /\ v.lossRatioCap \in Int
      /\ v.lossRatioCapUEP \in Int /\ v.frontingFee \in Int /\ v.frontingFeeUEP \in Int
      /\ v.change \in IntReserve
    BY <1>1, ValuesTypes
<1>3. IntValues(v)
    BY <1>2 DEF IntValues, Figures
<1>. QED
    BY <1>1, <1>3

LEMMA RowsTyped ==
    \A i \in TemplateRow : /\ Template[i].sign \in {1, -1}
                           /\ Template[i].figure \in Figures \cup Reserve
                           /\ Template[i].account \in Accounts
<1>1. Template \in Seq(TemplateRows) /\ TemplateRow = DOMAIN Template
    BY TemplateIs DEF TemplateRow
<1>2. \A i \in TemplateRow : Template[i] \in TemplateRows
    BY <1>1
<1>. QED
    BY <1>2 DEF TemplateRows

LEMMA FigureTypes ==
    ASSUME NEW v, IntValues(v), NEW i \in TemplateRow
    PROVE  Figure(v, i) \in Int
<1>1. PICK row : row = Template[i]
    OBVIOUS
<1>2. row.sign \in {1, -1} /\ row.figure \in Figures \cup Reserve
    BY <1>1, RowsTyped
<1>3. PICK x : x = IF row.figure \in Reserve THEN v.change[row.figure] ELSE v[row.figure]
    OBVIOUS
<1>4. x \in Int
    BY <1>2, <1>3 DEF IntValues, IntReserve
<1>5. Figure(v, i) = row.sign * x
    BY <1>1, <1>3 DEF Figure
<1>. QED
    BY <1>2, <1>4, <1>5

LEMMA EntriesTypes ==
    ASSUME NEW v, IntValues(v)
    PROVE  Entries(v) \in [TemplateRow -> Int]
  BY FigureTypes, CentsTypes DEF Entries

----------------------------------------------------------------------------
\* Type correctness

SInv ==
    /\ StatementTypeOK
    /\ Shelf(exhibits)

LEMMA FoundTypes ==
    ASSUME SInv, NEW b \in Workbook
    PROVE  /\ treaty \in Terms \cup {None}
           /\ rates[b] \in Rates
           /\ Found(b) \in Rates
           /\ Populated(Found(b), treaty) = Found(b)
<1>1. treaty \in Terms \cup {None} /\ rates[b] \in Rates
    BY DEF SInv, StatementTypeOK
<1>. QED
    BY <1>1, PopulatedTypes DEF Found

LEMMA AsFiledTypes == ASSUME NEW column \in Column PROVE AsFiled(column) \in Exhibit
  BY DEF AsFiled, Exhibit

LEMMA ShelfExcept ==
    ASSUME NEW books, Shelf(books), NEW b \in Workbook, NEW e \in Exhibit
    PROVE  Shelf([books EXCEPT ![b] = e]) /\ [books EXCEPT ![b] = e][b] = e
  BY DEF Shelf

LEMMA InitTypes == StatementInit => SInv
<1>. SUFFICES ASSUME StatementInit PROVE SInv
    OBVIOUS
<1>1. source \in {"FUT", "Starlight"} /\ treaty \in Terms \cup {None} /\ edits \in 0 .. MaxEdits
    BY StatementAssumption DEF StatementInit
<1>2. Shelf(exhibits)
    <2>1. PICK column \in Baselines \cup {None} :
              exhibits = [b \in Workbook |-> IF b = 0 /\ column # None THEN AsFiled(column)
                                                                       ELSE None]
        BY DEF StatementInit
    <2>2. column # None => AsFiled(column) \in Exhibit
        BY AsFiledTypes, StatementAssumption
    <2>. QED
        BY <2>1, <2>2 DEF Shelf
<1>3. rates \in [Workbook -> Rates]
    <2>1. PICK own \in {FiledFUT(sheet, treaty) : sheet \in SheetRates} \cup {EnteredITD(treaty)} :
              rates = [b \in Workbook |-> IF b = 0 /\ 0 \in OnFile THEN own ELSE RatesOf(None)]
        BY DEF StatementInit
    <2>2. \A sheet \in SheetRates : FiledFUT(sheet, treaty) \in Rates
        BY <1>1, FiledTypes, StatementAssumption
    <2>3. EnteredITD(treaty) \in Rates
        BY <1>1, EnteredTypes
    <2>4. RatesOf(None) \in Rates
        BY RatesOfTypes
    <2>. QED
        BY <2>1, <2>2, <2>3, <2>4
<1>4. posted \in [Workbook -> [TemplateRow -> Int] \cup {None}]
    BY DEF StatementInit
<1>. QED
    BY <1>1, <1>2, <1>3, <1>4 DEF SInv, StatementTypeOK, Shelf

LEMMA UploadTypes ==
    ASSUME SInv, NEW m \in Month, NEW column \in Sheets, NEW own \in Rates, Upload(m, column, own)
    PROVE  SInv'
<1>1. m \in Workbook /\ column \in Column
    BY WorkbookFacts, StatementAssumption
<1>2. PICK books : books = [exhibits EXCEPT ![m] = AsFiled(column)]
    OBVIOUS
<1>3. AsFiled(column) \in Exhibit
    BY <1>1, AsFiledTypes
<1>4. Shelf(books) /\ books[m] # None
    BY <1>1, <1>2, <1>3, ShelfExcept, Apart DEF SInv
<1>5. Populated(own, treaty) \in Rates
    BY <1>1, FoundTypes, PopulatedTypes
<1>6. exhibits' = Refreshed(books, m, Populated(own, treaty))
    BY <1>2 DEF Upload
<1>7. Shelf(exhibits')
    BY <1>1, <1>4, <1>5, <1>6, RefreshedTypes
<1>8. rates' \in [Workbook -> Rates]
    BY <1>1 DEF SInv, StatementTypeOK, Upload
<1>. QED
    BY <1>7, <1>8 DEF SInv, StatementTypeOK, Shelf, Upload

\* What a read makes of the sheets.
LEMMA ReadTypes ==
    ASSUME SInv, NEW b \in Workbook, b \in OnFile, NEW own \in Rates,
           NEW read, read = Refreshed(exhibits, b, own)
    PROVE  /\ Shelf(read) /\ read[b] # None
           /\ \A c \in Workbook : c # b => read[c] = exhibits[c]
<1>1. Shelf(exhibits) /\ exhibits[b] # None
    BY DEF SInv, OnFile
<1>. QED
    BY <1>1, RefreshedTypes

LEMMA ReadBookTypes == ASSUME SInv, NEW b \in Workbook, ReadBook(b) PROVE SInv'
<1>1. Shelf(exhibits')
    BY FoundTypes, ReadTypes DEF ReadBook
<1>. QED
    BY <1>1 DEF SInv, StatementTypeOK, Shelf, ReadBook

LEMMA SaveRowTypes == ASSUME SInv, NEW b \in Workbook, SaveRow(b) PROVE SInv'
<1>1. Shelf(exhibits')
    BY FoundTypes, ReadTypes DEF SaveRow
<1>2. rates' \in [Workbook -> Rates]
    BY FoundTypes DEF SInv, StatementTypeOK, SaveRow
<1>. QED
    BY <1>1, <1>2 DEF SInv, StatementTypeOK, Shelf, SaveRow

LEMMA EditTypes == ASSUME SInv, Edit PROVE edits' \in 0 .. MaxEdits
  BY StatementAssumption DEF SInv, StatementTypeOK, Edit

LEMMA UpdateExhibitTypes ==
    ASSUME SInv, NEW b \in Workbook, NEW column \in Sheets, UpdateExhibit(b, column)
    PROVE  SInv'
<1>1. PICK read : read = Refreshed(exhibits, b, Found(b))
    OBVIOUS
<1>2. Shelf(read) /\ read[b] # None
    BY <1>1, FoundTypes, ReadTypes DEF UpdateExhibit
<1>3. PICK books : books = [read EXCEPT ![b].now = column]
    OBVIOUS
<1>4. PICK e : e = [read[b] EXCEPT !.now = column]
    OBVIOUS
<1>5. e \in Exhibit
    BY <1>2, <1>4, StatementAssumption DEF Shelf, Exhibit
<1>6. books = [read EXCEPT ![b] = e]
    BY <1>3, <1>4
<1>7. Shelf(books) /\ books[b] # None
    BY <1>2, <1>5, <1>6, ShelfExcept, Apart
<1>8. exhibits' = Refreshed(books, b, Found(b))
    BY <1>1, <1>3 DEF UpdateExhibit
<1>9. Shelf(exhibits')
    BY <1>7, <1>8, FoundTypes, RefreshedTypes
<1>. QED
    BY <1>9, EditTypes DEF SInv, StatementTypeOK, Shelf, UpdateExhibit

LEMMA UpdateRatesTypes ==
    ASSUME SInv, NEW b \in Workbook, NEW sent \in RateEdits, UpdateRates(b, sent)
    PROVE  SInv'
<1>1. PICK saved : saved = [f \in RateField |-> Coalesce(sent[f], Found(b)[f])]
    OBVIOUS
<1>2. saved \in Rates
    <2>1. sent \in Rates /\ Found(b) \in Rates
        BY FoundTypes, StatementAssumption
    <2>. QED
        BY <1>1, <2>1, CoalesceTypes DEF Rates
<1>3. Populated(saved, treaty) \in Rates
    BY <1>2, FoundTypes, PopulatedTypes
<1>4. /\ b \in OnFile /\ exhibits' = Refreshed(exhibits, b, Populated(saved, treaty))
      /\ rates' = [rates EXCEPT ![b] = saved] /\ Edit
      /\ UNCHANGED <<source, treaty, posted>>
    BY <1>1 DEF UpdateRates
<1>5. Shelf(exhibits')
    BY <1>3, <1>4, ReadTypes
<1>6. rates' \in [Workbook -> Rates]
    BY <1>2, <1>4 DEF SInv, StatementTypeOK
<1>. QED
    BY <1>4, <1>5, <1>6, EditTypes DEF SInv, StatementTypeOK, Shelf

LEMMA SetTreatyTypes ==
    ASSUME SInv, NEW terms \in Terms \cup {None}, SetTreaty(terms)
    PROVE  SInv'
<1>1. UNCHANGED <<source, exhibits, rates, posted>> /\ treaty' = terms /\ Edit
    BY DEF SetTreaty
<1>. QED
    BY <1>1, EditTypes DEF SInv, StatementTypeOK, Shelf

LEMMA PostTypes ==
    ASSUME SInv, NEW b \in Workbook, Post(b)
    PROVE  SInv'
<1>1. PICK read : read = Refreshed(exhibits, b, Found(b))
    OBVIOUS
<1>2. b \in OnFile /\ exhibits' = read
    BY <1>1 DEF Post
<1>3. Shelf(read) /\ read[b] # None
    BY <1>1, <1>2, FoundTypes, ReadTypes
<1>4. PICK generated : generated = Entries(GLValues(read, b, Found(b)))
    OBVIOUS
<1>5. generated \in [TemplateRow -> Int]
    BY <1>3, <1>4, FoundTypes, ValuesAreInt, EntriesTypes DEF GLValues
<1>6. \/ posted' = [posted EXCEPT ![b] = generated] /\ rates' = [rates EXCEPT ![b] = Found(b)]
      \/ UNCHANGED <<posted, rates>>
    BY <1>1, <1>4 DEF Post
<1>7. posted' \in [Workbook -> [TemplateRow -> Int] \cup {None}]
    <2>1. posted \in [Workbook -> [TemplateRow -> Int] \cup {None}]
        BY DEF SInv, StatementTypeOK
    <2>. QED
        BY <1>5, <1>6, <2>1
<1>8. rates' \in [Workbook -> Rates]
    BY <1>6, FoundTypes DEF SInv, StatementTypeOK
<1>9. UNCHANGED <<source, treaty, edits>>
    BY DEF Post
<1>. QED
    BY <1>2, <1>3, <1>7, <1>8, <1>9 DEF SInv, StatementTypeOK, Shelf

LEMMA StepTypes == SInv /\ [StatementNext]_statementVars => SInv'
<1>. SUFFICES ASSUME SInv, [StatementNext]_statementVars PROVE SInv'
    OBVIOUS
<1>1. ASSUME NEW b \in Workbook, ReadBook(b) \/ SaveRow(b) \/ Post(b) PROVE SInv'
    BY <1>1, ReadBookTypes, SaveRowTypes, PostTypes
<1>2. ASSUME NEW m \in Month, NEW column \in Sheets, NEW sheet \in SheetRates,
             UploadFUT(m, column, sheet) \/ UploadStarlight(m, column, sheet)
      PROVE  SInv'
    <2>1. m \in Workbook /\ sheet \in Rates
        BY WorkbookFacts, StatementAssumption
    <2>2. FiledFUT(sheet, treaty) \in Rates /\ FiledStarlight(sheet, treaty) \in Rates
        BY <2>1, FoundTypes, FiledTypes
    <2>. QED
        BY <1>2, <2>2, UploadTypes DEF UploadFUT, UploadStarlight
<1>3. ASSUME NEW b \in Workbook, NEW column \in Sheets, UpdateExhibit(b, column) PROVE SInv'
    BY <1>3, UpdateExhibitTypes
<1>4. ASSUME NEW b \in Workbook, NEW sent \in RateEdits, UpdateRates(b, sent) PROVE SInv'
    BY <1>4, UpdateRatesTypes
<1>5. ASSUME NEW terms \in Treaties, CreateTreaty(terms) \/ AmendTreaty(terms) PROVE SInv'
    BY <1>5, SetTreatyTypes, StatementAssumption DEF CreateTreaty, AmendTreaty
<1>6. CASE DeleteTreaty
    BY <1>6, SetTreatyTypes DEF DeleteTreaty
<1>7. CASE UNCHANGED statementVars
    BY <1>7 DEF statementVars, SInv, StatementTypeOK, Shelf
<1>. QED
    BY <1>1, <1>2, <1>3, <1>4, <1>5, <1>6, <1>7 DEF StatementNext

\* Sheets, rates, terms and what is posted keep their types, whatever is uploaded, edited
\* or posted and however often it is rolled forward.
THEOREM StatementTypeCorrect == StatementSpec => []StatementTypeOK
<1>1. SInv => StatementTypeOK
    BY DEF SInv
<1>. QED
    BY <1>1, InitTypes, StepTypes, PTL DEF StatementSpec

----------------------------------------------------------------------------
\* The cash settlement

LEMMA ShareSplits ==
    ASSUME NEW a \in Int, NEW b \in Int, NEW rate \in Int
    PROVE  Share(a + b, rate) = Share(a, rate) + Share(b, rate)
<1>1. Unit \div 1000 = 200
    BY DEF Unit
<1>2. (a + b) * rate = a * rate + b * rate
    OBVIOUS
<1>3. PICK x \in Int, y \in Int : x = a * rate /\ y = b * rate
    OBVIOUS
<1>4. (x + y) * 200 = x * 200 + y * 200
    OBVIOUS
<1>. QED
    BY <1>1, <1>2, <1>3, <1>4 DEF Share

LEMMA WholeSplits ==
    \A a, b \in Int : /\ Whole(a + b) = Whole(a) + Whole(b)
                      /\ Whole(a - b) = Whole(a) - Whole(b)
  BY DEF Whole, Unit

\* Where the workbook has all its rates, defaults play no part.
LEMMA OwnRates ==
    ASSUME NEW own \in Rates, \A f \in RateField : own[f] # Null, NEW defaults \in IntRates
    PROVE  Over(own, defaults) = own /\ own \in IntRates
<1>1. \A f \in RateField : Over(own, defaults)[f] = own[f]
    BY OverTypes DEF Coalesce
<1>2. Over(own, defaults) \in IntRates
    BY OverTypes
<1>. QED
    BY <1>1, <1>2 DEF IntRates, Rates

LEMMA CollectedTypes ==
    ASSUME NEW column \in Column
    PROVE  Collected(column) \in Int
  BY DEF Collected, Column, EnteredField

LEMMA CashOfMonth == SInv => CashAgrees
<1>. SUFFICES ASSUME SInv, NEW b \in OnFile, KindOf(b) # "none",
                     \A f \in RateField : Found(b)[f] # Null
              PROVE  CashBalance(exhibits[b].now, Found(b)) =
                       NetSettlement(CedingValues(exhibits, b, Found(b), treaty))
                         + CedingValues(exhibits, b, Found(b), treaty).ulaePaid
                         - Share(exhibits[b].now.pw, Over(Found(b), CashDefaults).xol)
                         + Whole(Collected(exhibits[b].now) - exhibits[b].now.pw)
                         - Share(Collected(exhibits[b].now) - exhibits[b].now.pw,
                                 Over(Found(b), CashDefaults).comm)
                         - Whole(IF SourceOf(b) = "FUT" THEN exhibits[b].now.ae_paid ELSE 0)
    BY DEF CashAgrees
<1>1. b \in Workbook /\ Shelf(exhibits) /\ exhibits[b] # None
    BY DEF SInv, OnFile
<1>2. PICK own \in IntRates : own = Found(b)
    BY <1>1, FoundTypes, Defaults, OwnRates
<1>3. Over(Found(b), CashDefaults) = own /\ Over(Found(b), StatementDefaults) = own
    BY <1>1, <1>2, FoundTypes, Defaults, OwnRates
<1>4. PICK column \in Column : column = exhibits[b].now
    BY <1>1 DEF Shelf, Exhibit
<1>5. /\ own.comm \in Int /\ own.boardsCharge \in Int /\ own.xol \in Int /\ own.lossRatioCap \in Int
      /\ column.pw \in Int /\ column.lp \in Int /\ column.laep \in Int /\ column.ae_paid \in Int
    BY DEF IntRates, RateField, Column, EnteredField
<1>6. PICK got \in Int : got = Collected(column)
    BY CollectedTypes
<1>7. PICK v : v = CedingValues(exhibits, b, Found(b), treaty)
    OBVIOUS
<1>8. v.ulaePaid \in Int
    BY <1>1, <1>7, FoundTypes, ValuesTypes
<1>9. PICK expense \in Int : expense = IF SourceOf(b) = "FUT" THEN 0 ELSE column.ae_paid
    BY <1>5
<1>10. /\ v.premiumWritten = Whole(column.pw) /\ v.cedingCommission = Share(column.pw, own.comm)
       /\ v.lossesPaid = Whole(column.lp) /\ v.boardsCharge = Share(column.pw, own.boardsCharge)
       /\ v.lossRatioCap = Share(column.pw, own.lossRatioCap)
       /\ v.dccPaid = Whole(Under("dcc", Kind(own), column.laep + expense))
       /\ v.aoePaid = Whole(Under("aoe", Kind(own), column.laep + expense))
    BY <1>3, <1>4, <1>7, <1>9 DEF CedingValues
<1>11. Kind(own) \in {"dcc", "aoe"}
    BY <1>3 DEF KindOf, Kind
<1>12. v.dccPaid + v.aoePaid = Whole(column.laep + expense)
    BY <1>5, <1>10, <1>11 DEF Under, Whole, Unit
<1>13. PICK pw \in Int, lp \in Int, laep \in Int, ae \in Int, comm \in Int :
           /\ pw = column.pw /\ lp = column.lp /\ laep = column.laep /\ ae = column.ae_paid
           /\ comm = own.comm
    BY <1>5
<1>14. PICK more \in Int : more = got - pw
    OBVIOUS
<1>15. Share(got, comm) = Share(pw, comm) + Share(more, comm)
    <2>1. Share(pw + more, comm) = Share(pw, comm) + Share(more, comm)
        BY ShareSplits
    <2>. QED
        BY <1>14, <2>1
<1>16. PICK due \in Int, extra \in Int : due = Share(pw, comm) /\ extra = Share(more, comm)
    BY ShareTypes
<1>17. PICK charge \in Int, cap \in Int, fee \in Int :
           /\ charge = Share(pw, own.boardsCharge) /\ cap = Share(pw, own.lossRatioCap)
           /\ fee = Share(pw, own.xol)
    BY <1>5, ShareTypes
<1>18. PICK dcc \in Int, aoe \in Int, ulae \in Int :
           dcc = v.dccPaid /\ aoe = v.aoePaid /\ ulae = v.ulaePaid
    BY <1>1, <1>7, FoundTypes, ValuesTypes
<1>19. PICK left \in Int : left = IF SourceOf(b) = "FUT" THEN ae ELSE 0
    BY <1>5
<1>20. expense + left = ae
    BY <1>9, <1>13, <1>19
<1>21. CashBalance(column, Found(b)) =
           Whole(got) - (due + extra) - Whole(lp + laep + ae) - charge - fee - cap
    BY <1>3, <1>6, <1>13, <1>15, <1>16, <1>17 DEF CashBalance
<1>22. NetSettlement(v) = Whole(pw) - (due + Whole(lp) + dcc + aoe + ulae) - charge - cap
    BY <1>10, <1>13, <1>16, <1>17, <1>18 DEF NetSettlement, NetSettlementFuturistic, PaidOut
<1>23. dcc + aoe = Whole(laep + expense)
    BY <1>12, <1>13, <1>18
<1>24. Whole(got) - (due + extra) - Whole(lp + laep + ae) - charge - fee - cap
         = (Whole(pw) - (due + Whole(lp) + dcc + aoe + ulae) - charge - cap)
             + ulae - fee + Whole(more) - extra - Whole(left)
    BY <1>14, <1>20, <1>23 DEF Whole, Unit
<1>25. CashBalance(column, Found(b)) =
           NetSettlement(v) + ulae - fee + Whole(more) - extra - Whole(left)
    BY <1>21, <1>22, <1>24
<1>26. CashBalance(column, Found(b)) =
           NetSettlement(v) + v.ulaePaid - Share(column.pw, own.xol) + Whole(got - column.pw)
             - Share(got - column.pw, own.comm)
             - Whole(IF SourceOf(b) = "FUT" THEN column.ae_paid ELSE 0)
    BY <1>13, <1>14, <1>16, <1>17, <1>18, <1>19, <1>25
<1>. QED
    BY <1>3, <1>4, <1>6, <1>7, <1>26

\* The cash settlement and the statement of a month differ by what only one of them takes,
\* for any sheets, rates and treaty (getCashSettlementCalculations, calculateCedingValues).
THEOREM CashAgreesAlways == StatementSpec => []CashAgrees
  BY CashOfMonth, InitTypes, StepTypes, PTL DEF StatementSpec

----------------------------------------------------------------------------
\* The two rows of an entry

LEMMA PremiumPairs ==
    \A k \in 1 .. 6 : /\ PremiumRows[2 * k].figure = PremiumRows[2 * k - 1].figure
                      /\ PremiumRows[2 * k].sign = -PremiumRows[2 * k - 1].sign
<1>1. \A k \in 1 .. 6 : k = 1 \/ k = 2 \/ k = 3 \/ k = 4 \/ k = 5 \/ k = 6
    OBVIOUS
<1>2. PremiumRows[2].figure = PremiumRows[1].figure /\ PremiumRows[2].sign = -PremiumRows[1].sign
    BY DEF PremiumRows, Dr, Cr
<1>3. PremiumRows[4].figure = PremiumRows[3].figure /\ PremiumRows[4].sign = -PremiumRows[3].sign
    BY DEF PremiumRows, Dr, Cr
<1>4. PremiumRows[6].figure = PremiumRows[5].figure /\ PremiumRows[6].sign = -PremiumRows[5].sign
    BY DEF PremiumRows, Dr, Cr
<1>5. PremiumRows[8].figure = PremiumRows[7].figure /\ PremiumRows[8].sign = -PremiumRows[7].sign
    BY DEF PremiumRows, Dr, Cr
<1>6. PremiumRows[10].figure = PremiumRows[9].figure /\ PremiumRows[10].sign = -PremiumRows[9].sign
    BY DEF PremiumRows, Dr, Cr
<1>7. PremiumRows[12].figure = PremiumRows[11].figure /\ PremiumRows[12].sign = -PremiumRows[11].sign
    BY DEF PremiumRows, Dr, Cr
<1>. QED
    BY <1>1, <1>2, <1>3, <1>4, <1>5, <1>6, <1>7

LEMMA LossPairs ==
    \A k \in 1 .. 6 : /\ LossRows[2 * k].figure = LossRows[2 * k - 1].figure
                      /\ LossRows[2 * k].sign = -LossRows[2 * k - 1].sign
<1>1. \A k \in 1 .. 6 : k = 1 \/ k = 2 \/ k = 3 \/ k = 4 \/ k = 5 \/ k = 6
    OBVIOUS
<1>2. LossRows[2].figure = LossRows[1].figure /\ LossRows[2].sign = -LossRows[1].sign
    BY DEF LossRows, Dr, Cr
<1>3. LossRows[4].figure = LossRows[3].figure /\ LossRows[4].sign = -LossRows[3].sign
    BY DEF LossRows, Dr, Cr
<1>4. LossRows[6].figure = LossRows[5].figure /\ LossRows[6].sign = -LossRows[5].sign
    BY DEF LossRows, Dr, Cr
<1>5. LossRows[8].figure = LossRows[7].figure /\ LossRows[8].sign = -LossRows[7].sign
    BY DEF LossRows, Dr, Cr
<1>6. LossRows[10].figure = LossRows[9].figure /\ LossRows[10].sign = -LossRows[9].sign
    BY DEF LossRows, Dr, Cr
<1>7. LossRows[12].figure = LossRows[11].figure /\ LossRows[12].sign = -LossRows[11].sign
    BY DEF LossRows, Dr, Cr
<1>. QED
    BY <1>1, <1>2, <1>3, <1>4, <1>5, <1>6, <1>7

LEMMA DCCPairs ==
    \A k \in 1 .. 6 : /\ DCCRows[2 * k].figure = DCCRows[2 * k - 1].figure
                      /\ DCCRows[2 * k].sign = -DCCRows[2 * k - 1].sign
<1>1. \A k \in 1 .. 6 : k = 1 \/ k = 2 \/ k = 3 \/ k = 4 \/ k = 5 \/ k = 6
    OBVIOUS
<1>2. DCCRows[2].figure = DCCRows[1].figure /\ DCCRows[2].sign = -DCCRows[1].sign
    BY DEF DCCRows, Dr, Cr
<1>3. DCCRows[4].figure = DCCRows[3].figure /\ DCCRows[4].sign = -DCCRows[3].sign
    BY DEF DCCRows, Dr, Cr
<1>4. DCCRows[6].figure = DCCRows[5].figure /\ DCCRows[6].sign = -DCCRows[5].sign
    BY DEF DCCRows, Dr, Cr
<1>5. DCCRows[8].figure = DCCRows[7].figure /\ DCCRows[8].sign = -DCCRows[7].sign
    BY DEF DCCRows, Dr, Cr
<1>6. DCCRows[10].figure = DCCRows[9].figure /\ DCCRows[10].sign = -DCCRows[9].sign
    BY DEF DCCRows, Dr, Cr
<1>7. DCCRows[12].figure = DCCRows[11].figure /\ DCCRows[12].sign = -DCCRows[11].sign
    BY DEF DCCRows, Dr, Cr
<1>. QED
    BY <1>1, <1>2, <1>3, <1>4, <1>5, <1>6, <1>7

LEMMA AOEPairs ==
    \A k \in 1 .. 6 : /\ AOERows[2 * k].figure = AOERows[2 * k - 1].figure
                      /\ AOERows[2 * k].sign = -AOERows[2 * k - 1].sign
<1>1. \A k \in 1 .. 6 : k = 1 \/ k = 2 \/ k = 3 \/ k = 4 \/ k = 5 \/ k = 6
    OBVIOUS
<1>2. AOERows[2].figure = AOERows[1].figure /\ AOERows[2].sign = -AOERows[1].sign
    BY DEF AOERows, Dr, Cr
<1>3. AOERows[4].figure = AOERows[3].figure /\ AOERows[4].sign = -AOERows[3].sign
    BY DEF AOERows, Dr, Cr
<1>4. AOERows[6].figure = AOERows[5].figure /\ AOERows[6].sign = -AOERows[5].sign
    BY DEF AOERows, Dr, Cr
<1>5. AOERows[8].figure = AOERows[7].figure /\ AOERows[8].sign = -AOERows[7].sign
    BY DEF AOERows, Dr, Cr
<1>6. AOERows[10].figure = AOERows[9].figure /\ AOERows[10].sign = -AOERows[9].sign
    BY DEF AOERows, Dr, Cr
<1>7. AOERows[12].figure = AOERows[11].figure /\ AOERows[12].sign = -AOERows[11].sign
    BY DEF AOERows, Dr, Cr
<1>. QED
    BY <1>1, <1>2, <1>3, <1>4, <1>5, <1>6, <1>7

LEMMA ULAEPairs ==
    \A k \in 1 .. 4 : /\ ULAERows[2 * k].figure = ULAERows[2 * k - 1].figure
                      /\ ULAERows[2 * k].sign = -ULAERows[2 * k - 1].sign
<1>1. \A k \in 1 .. 4 : k = 1 \/ k = 2 \/ k = 3 \/ k = 4
    OBVIOUS
<1>2. ULAERows[2].figure = ULAERows[1].figure /\ ULAERows[2].sign = -ULAERows[1].sign
    BY DEF ULAERows, Dr, Cr
<1>3. ULAERows[4].figure = ULAERows[3].figure /\ ULAERows[4].sign = -ULAERows[3].sign
    BY DEF ULAERows, Dr, Cr
<1>4. ULAERows[6].figure = ULAERows[5].figure /\ ULAERows[6].sign = -ULAERows[5].sign
    BY DEF ULAERows, Dr, Cr
<1>5. ULAERows[8].figure = ULAERows[7].figure /\ ULAERows[8].sign = -ULAERows[7].sign
    BY DEF ULAERows, Dr, Cr
<1>. QED
    BY <1>1, <1>2, <1>3, <1>4, <1>5

LEMMA FeePairs ==
    \A k \in 1 .. 6 : /\ FeeRows[2 * k].figure = FeeRows[2 * k - 1].figure
                      /\ FeeRows[2 * k].sign = -FeeRows[2 * k - 1].sign
<1>1. \A k \in 1 .. 6 : k = 1 \/ k = 2 \/ k = 3 \/ k = 4 \/ k = 5 \/ k = 6
    OBVIOUS
<1>2. FeeRows[2].figure = FeeRows[1].figure /\ FeeRows[2].sign = -FeeRows[1].sign
    BY DEF FeeRows, Dr, Cr
<1>3. FeeRows[4].figure = FeeRows[3].figure /\ FeeRows[4].sign = -FeeRows[3].sign
    BY DEF FeeRows, Dr, Cr
<1>4. FeeRows[6].figure = FeeRows[5].figure /\ FeeRows[6].sign = -FeeRows[5].sign
    BY DEF FeeRows, Dr, Cr
<1>5. FeeRows[8].figure = FeeRows[7].figure /\ FeeRows[8].sign = -FeeRows[7].sign
    BY DEF FeeRows, Dr, Cr
<1>6. FeeRows[10].figure = FeeRows[9].figure /\ FeeRows[10].sign = -FeeRows[9].sign
    BY DEF FeeRows, Dr, Cr
<1>7. FeeRows[12].figure = FeeRows[11].figure /\ FeeRows[12].sign = -FeeRows[11].sign
    BY DEF FeeRows, Dr, Cr
<1>. QED
    BY <1>1, <1>2, <1>3, <1>4, <1>5, <1>6, <1>7

LEMMA RowNumbers == TemplateRow = 1 .. 68
  BY TemplateIs, Zenon

\* Rows 2 k - 1 and 2 k are the two sides of one figure.
LEMMA Paired ==
    ASSUME NEW k \in 1 .. 34
    PROVE  /\ 2 * k \in TemplateRow /\ 2 * k - 1 \in TemplateRow
           /\ Template[2 * k].figure = Template[2 * k - 1].figure
           /\ Template[2 * k].sign = -Template[2 * k - 1].sign
<1>1. 2 * k \in TemplateRow /\ 2 * k - 1 \in TemplateRow
    BY RowNumbers
<1>2. CASE k \in 1 .. 6
    <2>1. PICK l \in 1 .. 6 : l = k
        BY <1>2
    <2>2. 2 * k \in 1 .. 12 /\ 2 * k - 1 \in 1 .. 12
        BY <1>2
    <2>3. PICK p \in 1 .. 12, q \in 1 .. 12 : p = 2 * k /\ q = 2 * k - 1
        BY <2>2
    <2>4. p = 2 * l /\ q = 2 * l - 1
        BY <2>1, <2>3
    <2>5. Template[p] = PremiumRows[p] /\ Template[q] = PremiumRows[q]
        BY TemplateIs, Zenon
    <2>. QED
        BY <1>1, <2>3, <2>4, <2>5, PremiumPairs
<1>3. CASE k \in 7 .. 12
    <2>1. PICK l \in 1 .. 6 : l = k - 6
        BY <1>3
    <2>2. 2 * k \in 13 .. 24 /\ 2 * k - 1 \in 13 .. 24
        BY <1>3
    <2>3. PICK p \in 13 .. 24, q \in 13 .. 24 : p = 2 * k /\ q = 2 * k - 1
        BY <2>2
    <2>4. p - 12 = 2 * l /\ q - 12 = 2 * l - 1
        BY <2>1, <2>3
    <2>5. Template[p] = LossRows[p - 12] /\ Template[q] = LossRows[q - 12]
        BY TemplateIs, Zenon
    <2>. QED
        BY <1>1, <2>3, <2>4, <2>5, LossPairs
<1>4. CASE k \in 13 .. 18
    <2>1. PICK l \in 1 .. 6 : l = k - 12
        BY <1>4
    <2>2. 2 * k \in 25 .. 36 /\ 2 * k - 1 \in 25 .. 36
        BY <1>4
    <2>3. PICK p \in 25 .. 36, q \in 25 .. 36 : p = 2 * k /\ q = 2 * k - 1
        BY <2>2
    <2>4. p - 24 = 2 * l /\ q - 24 = 2 * l - 1
        BY <2>1, <2>3
    <2>5. Template[p] = DCCRows[p - 24] /\ Template[q] = DCCRows[q - 24]
        BY TemplateIs, Zenon
    <2>. QED
        BY <1>1, <2>3, <2>4, <2>5, DCCPairs
<1>5. CASE k \in 19 .. 24
    <2>1. PICK l \in 1 .. 6 : l = k - 18
        BY <1>5
    <2>2. 2 * k \in 37 .. 48 /\ 2 * k - 1 \in 37 .. 48
        BY <1>5
    <2>3. PICK p \in 37 .. 48, q \in 37 .. 48 : p = 2 * k /\ q = 2 * k - 1
        BY <2>2
    <2>4. p - 36 = 2 * l /\ q - 36 = 2 * l - 1
        BY <2>1, <2>3
    <2>5. Template[p] = AOERows[p - 36] /\ Template[q] = AOERows[q - 36]
        BY TemplateIs, Zenon
    <2>. QED
        BY <1>1, <2>3, <2>4, <2>5, AOEPairs
<1>6. CASE k \in 25 .. 28
    <2>1. PICK l \in 1 .. 4 : l = k - 24
        BY <1>6
    <2>2. 2 * k \in 49 .. 56 /\ 2 * k - 1 \in 49 .. 56
        BY <1>6
    <2>3. PICK p \in 49 .. 56, q \in 49 .. 56 : p = 2 * k /\ q = 2 * k - 1
        BY <2>2
    <2>4. p - 48 = 2 * l /\ q - 48 = 2 * l - 1
        BY <2>1, <2>3
    <2>5. Template[p] = ULAERows[p - 48] /\ Template[q] = ULAERows[q - 48]
        BY TemplateIs, Zenon
    <2>. QED
        BY <1>1, <2>3, <2>4, <2>5, ULAEPairs
<1>7. CASE k \in 29 .. 34
    <2>1. PICK l \in 1 .. 6 : l = k - 28
        BY <1>7
    <2>2. 2 * k \in 57 .. 68 /\ 2 * k - 1 \in 57 .. 68
        BY <1>7
    <2>3. PICK p \in 57 .. 68, q \in 57 .. 68 : p = 2 * k /\ q = 2 * k - 1
        BY <2>2
    <2>4. p - 56 = 2 * l /\ q - 56 = 2 * l - 1
        BY <2>1, <2>3
    <2>5. Template[p] = FeeRows[p - 56] /\ Template[q] = FeeRows[q - 56]
        BY TemplateIs, Zenon
    <2>. QED
        BY <1>1, <2>3, <2>4, <2>5, FeePairs
<1>. QED
    BY <1>2, <1>3, <1>4, <1>5, <1>6, <1>7

\* The rounding of a figure and of its opposite.
LEMMA Opposites ==
    ASSUME NEW x \in Int
    PROVE  \/ Cents(x) + Cents(-x) = 0
           \/ /\ Cents(x) + Cents(-x) = 1
              /\ 2 * (x % Unit) = Unit /\ 2 * ((-x) % Unit) = Unit
  BY DEF Cents, Unit

LEMMA SumPlus ==
    ASSUME NEW f, NEW S, IsFiniteSet(S), \A x \in S : f[x] \in Int, NEW z, z \notin S, f[z] \in Int
    PROVE  /\ IsFiniteSet(S \cup {z}) /\ \A x \in S \cup {z} : f[x] \in Int
           /\ SumOver(f, S \cup {z}) = SumOver(f, S) + f[z]
<1>1. IsFiniteSet(S \cup {z}) /\ \A x \in S \cup {z} : f[x] \in Int
    BY FS_AddElement
<1>2. (S \cup {z}) \ {z} = S
    OBVIOUS
<1>3. SumOver(f, S \cup {z}) = f[z] + SumOver(f, (S \cup {z}) \ {z})
    BY <1>1, SumWithout
<1>4. SumOver(f, S) \in Int
    BY SumIsInt
<1>5. f[z] + SumOver(f, S) = SumOver(f, S) + f[z]
    BY <1>4
<1>. QED
    BY <1>1, <1>2, <1>3, <1>5

LEMMA SumOfNone == ASSUME NEW f PROVE SumOver(f, {}) = 0
  BY SumAsFolded, FS_EmptySet

LEMMA TwoMore ==
    ASSUME NEW f, NEW n \in Nat, \A i \in 1 .. 2 * n + 2 : f[i] \in Int
    PROVE  /\ SumOver(f, 1 .. 2 * n) \in Int
           /\ SumOver(f, 1 .. 2 * n + 2) = SumOver(f, 1 .. 2 * n) + f[2 * n + 1] + f[2 * n + 2]
<1>1. PICK S : S = 1 .. 2 * n
    OBVIOUS
<1>2. PICK a \in Int, b \in Int : a = 2 * n + 1 /\ b = 2 * n + 2
    OBVIOUS
<1>3. S \cup {a} = 1 .. a /\ (S \cup {a}) \cup {b} = 1 .. b /\ a \notin S /\ b \notin S \cup {a}
    BY <1>1, <1>2
<1>4. \A x \in S : f[x] \in Int
    BY <1>1
<1>5. f[a] \in Int /\ f[b] \in Int
    BY <1>2
<1>6. IsFiniteSet(S)
    BY <1>1, FS_Interval
<1>7. /\ IsFiniteSet(S \cup {a}) /\ \A x \in S \cup {a} : f[x] \in Int
      /\ SumOver(f, S \cup {a}) = SumOver(f, S) + f[a]
    BY <1>3, <1>4, <1>5, <1>6, SumPlus
<1>8. SumOver(f, (S \cup {a}) \cup {b}) = SumOver(f, S \cup {a}) + f[b]
    BY <1>3, <1>5, <1>7, SumPlus
<1>9. SumOver(f, S) \in Int
    BY <1>4, <1>6, SumIsInt
<1>10. SumOver(f, 1 .. b) = SumOver(f, S) + f[a] + f[b]
    BY <1>3, <1>7, <1>8
<1>. QED
    BY <1>1, <1>2, <1>9, <1>10

LEMMA TwoMoreIn ==
    ASSUME NEW H, NEW n \in Nat
    PROVE  /\ Cardinality(H \cap (1 .. 2 * n)) \in Nat
           /\ Cardinality(H \cap (1 .. 2 * n + 2)) \in Nat
           /\ Cardinality(H \cap (1 .. 2 * n)) <= Cardinality(H \cap (1 .. 2 * n + 2))
           /\ 2 * n + 1 \in H /\ 2 * n + 2 \in H =>
                  Cardinality(H \cap (1 .. 2 * n + 2)) = Cardinality(H \cap (1 .. 2 * n)) + 2
<1>1. PICK S : S = H \cap (1 .. 2 * n)
    OBVIOUS
<1>2. PICK T : T = H \cap (1 .. 2 * n + 2)
    OBVIOUS
<1>3. IsFiniteSet(1 .. 2 * n) /\ IsFiniteSet(1 .. 2 * n + 2)
    BY FS_Interval
<1>4. IsFiniteSet(S) /\ IsFiniteSet(T)
    <2>1. S \subseteq 1 .. 2 * n /\ T \subseteq 1 .. 2 * n + 2
        BY <1>1, <1>2
    <2>. QED
        BY <1>3, <2>1, FS_Subset
<1>5. Cardinality(S) \in Nat /\ Cardinality(T) \in Nat
    BY <1>4, FS_CardinalityType
<1>6. S \subseteq T
    <2>1. 1 .. 2 * n \subseteq 1 .. 2 * n + 2
        OBVIOUS
    <2>. QED
        BY <1>1, <1>2, <2>1
<1>7. Cardinality(S) <= Cardinality(T)
    BY <1>4, <1>6, FS_Subset
<1>8. ASSUME 2 * n + 1 \in H, 2 * n + 2 \in H PROVE Cardinality(T) = Cardinality(S) + 2
    <2>1. PICK a \in Int, b \in Int : a = 2 * n + 1 /\ b = 2 * n + 2
        OBVIOUS
    <2>2. 1 .. 2 * n + 2 = (1 .. 2 * n) \cup {a, b} /\ a \notin 1 .. 2 * n /\ b \notin 1 .. 2 * n
          /\ a # b
        BY <2>1
    <2>3. T = (S \cup {a}) \cup {b} /\ a \notin S /\ b \notin S \cup {a}
        BY <1>1, <1>2, <1>8, <2>1, <2>2
    <2>4. IsFiniteSet(S \cup {a}) /\ Cardinality(S \cup {a}) = Cardinality(S) + 1
        BY <1>4, <2>3, FS_AddElement
    <2>5. Cardinality((S \cup {a}) \cup {b}) = Cardinality(S \cup {a}) + 1
        BY <2>3, <2>4, FS_AddElement
    <2>. QED
        BY <1>5, <2>3, <2>4, <2>5
<1>. QED
    BY <1>1, <1>2, <1>5, <1>7, <1>8

\* Half a cent a row is all that the two sides of a posting can be apart.
LEMMA EntriesBalance ==
    ASSUME NEW v, IntValues(v)
    PROVE  /\ SumOver(Entries(v), TemplateRow) \in Nat
           /\ 2 * SumOver(Entries(v), TemplateRow) <= Cardinality(Halves(v))
<1>. DEFINE f == Entries(v)
            H == Halves(v)
            Sound(n) == /\ SumOver(f, 1 .. 2 * n) \in Nat
                       /\ 2 * SumOver(f, 1 .. 2 * n) <= Cardinality(H \cap (1 .. 2 * n))
            Bad == {n \in 0 .. 34 : ~ Sound(n)}
<1>1. \A i \in TemplateRow : f[i] = Cents(Figure(v, i)) /\ f[i] \in Int /\ Figure(v, i) \in Int
    BY FigureTypes, EntriesTypes DEF Entries
<1>2. \A n \in Nat : Cardinality(H \cap (1 .. 2 * n)) \in Nat
    BY TwoMoreIn
<1>3. Sound(0)
    <2>1. 1 .. 2 * 0 = {} /\ H \cap {} = {}
        OBVIOUS
    <2>2. SumOver(f, {}) = 0 /\ Cardinality({}) = 0
        BY SumOfNone, FS_EmptySet
    <2>. QED
        BY <2>1, <2>2
<1>4. ASSUME NEW n \in 0 .. 33, Sound(n) PROVE Sound(n + 1)
    <2>1. PICK k \in 1 .. 34 : k = n + 1
        OBVIOUS
    <2>2. PICK i \in TemplateRow, j \in TemplateRow : i = 2 * k - 1 /\ j = 2 * k
        BY Paired
    <2>3. i = 2 * n + 1 /\ j = 2 * n + 2 /\ 2 * (n + 1) = 2 * n + 2 /\ n \in Nat
        BY <2>1, <2>2
    <2>4. \A x \in 1 .. 2 * n + 2 : f[x] \in Int
        <3>1. 1 .. 2 * n + 2 \subseteq TemplateRow
            BY RowNumbers
        <3>. QED
            BY <1>1, <3>1
    <2>5. SumOver(f, 1 .. 2 * n + 2) = SumOver(f, 1 .. 2 * n) + f[i] + f[j]
        BY <2>3, <2>4, TwoMore
    <2>6. PICK x \in Int : x = Figure(v, i)
        BY <1>1
    <2>7. Figure(v, j) = -x
        <3>1. Template[j].figure = Template[i].figure /\ Template[j].sign = -Template[i].sign
            BY <2>2, Paired
        <3>2. Template[i].sign \in {1, -1} /\ Template[i].figure \in Figures \cup Reserve
            BY RowsTyped
        <3>3. PICK y : y = IF Template[i].figure \in Reserve THEN v.change[Template[i].figure]
                                                             ELSE v[Template[i].figure]
            OBVIOUS
        <3>4. y \in Int
            BY <3>2, <3>3 DEF IntValues, IntReserve
        <3>5. Figure(v, i) = Template[i].sign * y /\ Figure(v, j) = Template[j].sign * y
            BY <3>1, <3>3 DEF Figure
        <3>6. PICK s \in {1, -1} : s = Template[i].sign
            BY <3>2
        <3>7. (-s) * y = -(s * y)
            BY <3>4
        <3>. QED
            BY <2>6, <3>1, <3>5, <3>6, <3>7
    <2>8. f[i] = Cents(x) /\ f[j] = Cents(-x)
        BY <1>1, <2>6, <2>7
    <2>9. /\ f[i] + f[j] \in {0, 1}
          /\ f[i] + f[j] = 1 => i \in H /\ j \in H
        <3>1. \/ Cents(x) + Cents(-x) = 0
              \/ /\ Cents(x) + Cents(-x) = 1
                 /\ 2 * (x % Unit) = Unit /\ 2 * ((-x) % Unit) = Unit
            BY Opposites
        <3>. QED
            BY <2>6, <2>7, <2>8, <3>1 DEF Halves
    <2>10. PICK both \in {0, 1} : both = f[i] + f[j]
        BY <2>9
    <2>11. SumOver(f, 1 .. 2 * n + 2) = SumOver(f, 1 .. 2 * n) + both
        BY <1>1, <1>4, <2>5, <2>10
    <2>12. /\ Cardinality(H \cap (1 .. 2 * n)) \in Nat
           /\ Cardinality(H \cap (1 .. 2 * n + 2)) \in Nat
           /\ Cardinality(H \cap (1 .. 2 * n)) <= Cardinality(H \cap (1 .. 2 * n + 2))
           /\ i \in H /\ j \in H =>
                  Cardinality(H \cap (1 .. 2 * n + 2)) = Cardinality(H \cap (1 .. 2 * n)) + 2
        BY <2>3, TwoMoreIn
    <2>13. PICK c \in Nat, d \in Nat : /\ c = Cardinality(H \cap (1 .. 2 * n))
                                       /\ d = Cardinality(H \cap (1 .. 2 * n + 2))
        BY <2>12
    <2>14. c <= d /\ (both = 1 => d = c + 2)
        BY <2>9, <2>10, <2>12, <2>13
    <2>15. PICK s \in Nat : s = SumOver(f, 1 .. 2 * n)
        BY <1>4
    <2>16. s + both \in Nat /\ 2 * (s + both) <= d
        BY <1>4, <2>10, <2>13, <2>14, <2>15
    <2>. QED
        BY <2>3, <2>11, <2>13, <2>15, <2>16
<1>5. Bad = {}
    <2>. HIDE DEF Sound
    <2>. SUFFICES ASSUME Bad # {} PROVE FALSE
        OBVIOUS
    <2>1. Bad \in SUBSET Nat
        OBVIOUS
    <2>2. PICK n \in Bad : \A m \in Nat : m < n => m \notin Bad
        BY <2>1, SmallestNumber
    <2>3. n # 0
        BY <1>3
    <2>4. n - 1 \in 0 .. 33 /\ n - 1 \notin Bad
        BY <2>2, <2>3
    <2>5. Sound(n - 1)
        BY <2>4
    <2>6. Sound((n - 1) + 1)
        BY <1>4, <2>4, <2>5
    <2>7. (n - 1) + 1 = n
        OBVIOUS
    <2>. QED
        BY <2>6, <2>7
<1>6. Sound(34)
    <2>. HIDE DEF Sound
    <2>. QED
        BY <1>5
<1>7. 1 .. 2 * 34 = TemplateRow /\ H \cap (1 .. 2 * 34) = H
    BY RowNumbers DEF Halves
<1>. QED
    BY <1>6, <1>7

----------------------------------------------------------------------------
\* What a posting does

LEMMA Posting ==
    ASSUME SInv, [StatementNext]_statementVars, NEW b \in Workbook, JustPosted(b)
    PROVE  /\ exhibits[b] # None
           /\ exhibits' = Refreshed(exhibits, b, Found(b))
           /\ Shelf(exhibits') /\ exhibits'[b] # None
           /\ posted'[b] = Entries(GLValues(exhibits', b, Found(b)))
           /\ rates'[b] = Found(b)
           /\ treaty' = treaty /\ Found(b)' = Found(b)
<1>1. posted \in [Workbook -> [TemplateRow -> Int] \cup {None}] /\ rates \in [Workbook -> Rates]
    BY DEF SInv, StatementTypeOK
<1>2. posted' # posted
    BY DEF JustPosted
<1>3. PICK c \in Workbook : Post(c)
    BY <1>2 DEF StatementNext, statementVars, ReadBook, SaveRow, UploadFUT, UploadStarlight, Upload,
                UpdateExhibit, UpdateRates, CreateTreaty, AmendTreaty, DeleteTreaty, SetTreaty
<1>4. PICK read : read = Refreshed(exhibits, c, Found(c))
    OBVIOUS
<1>5. PICK generated : generated = Entries(GLValues(read, c, Found(c)))
    OBVIOUS
<1>6. /\ c \in OnFile /\ exhibits' = read /\ treaty' = treaty
      /\ posted' = [posted EXCEPT ![c] = generated] /\ rates' = [rates EXCEPT ![c] = Found(c)]
    BY <1>2, <1>3, <1>4, <1>5 DEF Post
<1>7. b = c
    BY <1>1, <1>6 DEF JustPosted
<1>8. posted'[b] = generated /\ rates'[b] = Found(b)
    BY <1>1, <1>6, <1>7
<1>9. Shelf(exhibits') /\ exhibits'[b] # None
    BY <1>4, <1>6, <1>7, FoundTypes, ReadTypes
<1>10. Found(b)' = Found(b)
    <2>1. Found(b)' = Populated(Found(b), treaty)
        BY <1>6, <1>8 DEF Found
    <2>. QED
        BY <2>1, FoundTypes
<1>. QED
    BY <1>4, <1>5, <1>6, <1>7, <1>8, <1>9, <1>10 DEF OnFile

LEMMA StepBalances ==
    ASSUME SInv, [StatementNext]_statementVars, NEW b \in Workbook, JustPosted(b),
           NEW off, off = SumOver(posted'[b], TemplateRow)
    PROVE  \/ off = 0
           \/ /\ off > 0
              /\ 2 * off <= Cardinality(Halves(GLValues(exhibits', b, rates'[b])))
<1>1. PICK v : v = GLValues(exhibits', b, rates'[b])
    OBVIOUS
<1>2. posted'[b] = Entries(v)
    BY <1>1, Posting
<1>3. IntValues(v)
    BY <1>1, Posting, FoundTypes, ValuesAreInt DEF GLValues
<1>4. off \in Nat /\ 2 * off <= Cardinality(Halves(v))
    BY <1>2, <1>3, EntriesBalance
<1>. QED
    BY <1>1, <1>4

\* Every posting balances but for the half cents of its pairs of rows, for any template
\* figures (getGLJournalEntries).
THEOREM StatementsBalanceAlways == StatementSpec => StatementsBalance
<1>1. SInv /\ [StatementNext]_statementVars
        => [\A b \in Workbook : JustPosted(b) =>
              \A off \in {SumOver(posted'[b], TemplateRow)} :
                  \/ off = 0
                  \/ /\ off > 0
                     /\ \A values \in {GLValues(exhibits', b, rates'[b])} :
                            2 * off <= Cardinality(Halves(values))]_statementVars
    BY StepBalances
<1>. QED
    BY <1>1, InitTypes, StepTypes, PTL DEF StatementSpec, StatementsBalance

----------------------------------------------------------------------------
\* What stands once it is posted

\* Months are on file in order.
InOrder == \A m \in Month : m > 1 /\ exhibits[m] # None => exhibits[m - 1] # None

OInv == SInv /\ InOrder

\* A step files one month, or changes exhibits on file.
LEMMA FilesOrKeeps ==
    ASSUME SInv, [StatementNext]_statementVars
    PROVE  \/ \E m \in Month : /\ exhibits[m] = None /\ (m > 1 => exhibits[m - 1] # None)
                               /\ \A k \in Workbook : k # m => exhibits'[k] = exhibits[k]
           \/ \A k \in Workbook : (exhibits'[k] = None) <=> (exhibits[k] = None)
<1>1. ASSUME NEW b \in Workbook, ReadBook(b) \/ SaveRow(b) \/ Post(b)
      PROVE  \A k \in Workbook : (exhibits'[k] = None) <=> (exhibits[k] = None)
    <2>1. b \in OnFile /\ exhibits' = Refreshed(exhibits, b, Found(b))
        BY <1>1 DEF ReadBook, SaveRow, Post
    <2>2. exhibits'[b] # None /\ \A c \in Workbook : c # b => exhibits'[c] = exhibits[c]
        BY <2>1, FoundTypes, ReadTypes
    <2>. QED
        BY <2>1, <2>2 DEF OnFile
<1>2. ASSUME NEW m \in Month, NEW column \in Sheets, NEW own \in Rates, Upload(m, column, own)
      PROVE  /\ exhibits[m] = None /\ (m > 1 => exhibits[m - 1] # None)
             /\ \A k \in Workbook : k # m => exhibits'[k] = exhibits[k]
    <2>1. m \in Workbook /\ column \in Column
        BY WorkbookFacts, StatementAssumption
    <2>2. PICK books : books = [exhibits EXCEPT ![m] = AsFiled(column)]
        OBVIOUS
    <2>3. AsFiled(column) \in Exhibit
        BY <2>1, AsFiledTypes
    <2>4. Shelf(books) /\ books[m] # None
        BY <2>1, <2>2, <2>3, ShelfExcept, Apart DEF SInv
    <2>5. Populated(own, treaty) \in Rates
        BY <2>1, FoundTypes, PopulatedTypes
    <2>6. exhibits' = Refreshed(books, m, Populated(own, treaty))
        BY <1>2, <2>2 DEF Upload
    <2>7. \A k \in Workbook : k # m => exhibits'[k] = books[k]
        BY <2>1, <2>4, <2>5, <2>6, RefreshedTypes
    <2>8. \A k \in Workbook : k # m => books[k] = exhibits[k]
        BY <2>1, <2>2 DEF SInv, Shelf
    <2>9. m \notin OnFile /\ (m > 1 => m - 1 \in OnFile)
        BY <1>2 DEF Upload
    <2>. QED
        BY <2>1, <2>7, <2>8, <2>9 DEF OnFile
<1>3. ASSUME NEW m \in Month, NEW column \in Sheets, NEW sheet \in SheetRates,
             UploadFUT(m, column, sheet) \/ UploadStarlight(m, column, sheet)
      PROVE  /\ exhibits[m] = None /\ (m > 1 => exhibits[m - 1] # None)
             /\ \A k \in Workbook : k # m => exhibits'[k] = exhibits[k]
    <2>1. m \in Workbook /\ sheet \in Rates
        BY WorkbookFacts, StatementAssumption
    <2>2. FiledFUT(sheet, treaty) \in Rates /\ FiledStarlight(sheet, treaty) \in Rates
        BY <2>1, FoundTypes, FiledTypes
    <2>. QED
        BY <1>2, <1>3, <2>2 DEF UploadFUT, UploadStarlight
<1>4. ASSUME NEW b \in Workbook, NEW column \in Sheets, UpdateExhibit(b, column)
      PROVE  \A k \in Workbook : (exhibits'[k] = None) <=> (exhibits[k] = None)
    <2>1. PICK read : read = Refreshed(exhibits, b, Found(b))
        OBVIOUS
    <2>2. /\ Shelf(read) /\ read[b] # None /\ b \in OnFile
          /\ \A c \in Workbook : c # b => read[c] = exhibits[c]
        BY <1>4, <2>1, FoundTypes, ReadTypes DEF UpdateExhibit
    <2>3. PICK books : books = [read EXCEPT ![b].now = column]
        OBVIOUS
    <2>4. PICK e : e = [read[b] EXCEPT !.now = column]
        OBVIOUS
    <2>5. e \in Exhibit
        BY <2>2, <2>4, StatementAssumption DEF Shelf, Exhibit
    <2>6. books = [read EXCEPT ![b] = e]
        BY <2>3, <2>4
    <2>7. Shelf(books) /\ books[b] # None
        BY <2>2, <2>5, <2>6, ShelfExcept, Apart
    <2>8. \A c \in Workbook : c # b => books[c] = exhibits[c]
        BY <2>2, <2>6 DEF Shelf
    <2>9. exhibits' = Refreshed(books, b, Found(b))
        BY <1>4, <2>1, <2>3 DEF UpdateExhibit
    <2>10. exhibits'[b] # None /\ \A c \in Workbook : c # b => exhibits'[c] = books[c]
        BY <2>7, <2>9, FoundTypes, RefreshedTypes
    <2>. QED
        BY <2>2, <2>8, <2>10 DEF OnFile
<1>5. ASSUME NEW b \in Workbook, NEW sent \in RateEdits, UpdateRates(b, sent)
      PROVE  \A k \in Workbook : (exhibits'[k] = None) <=> (exhibits[k] = None)
    <2>1. PICK saved : saved = [f \in RateField |-> Coalesce(sent[f], Found(b)[f])]
        OBVIOUS
    <2>2. sent \in Rates /\ Found(b) \in Rates
        BY FoundTypes, StatementAssumption
    <2>3. saved \in Rates
        BY <2>1, <2>2, CoalesceTypes DEF Rates
    <2>4. Populated(saved, treaty) \in Rates
        BY <2>3, FoundTypes, PopulatedTypes
    <2>5. b \in OnFile /\ exhibits' = Refreshed(exhibits, b, Populated(saved, treaty))
        BY <1>5, <2>1 DEF UpdateRates
    <2>6. exhibits'[b] # None /\ \A c \in Workbook : c # b => exhibits'[c] = exhibits[c]
        BY <2>4, <2>5, ReadTypes
    <2>. QED
        BY <2>5, <2>6 DEF OnFile
<1>6. ASSUME exhibits' = exhibits
      PROVE  \A k \in Workbook : (exhibits'[k] = None) <=> (exhibits[k] = None)
    BY <1>6
<1>. QED
    BY <1>1, <1>3, <1>4, <1>5, <1>6 DEF StatementNext, CreateTreaty, AmendTreaty, DeleteTreaty,
                                        SetTreaty, statementVars

LEMMA InitInOrder == StatementInit => OInv
<1>. SUFFICES ASSUME StatementInit PROVE OInv
    OBVIOUS
<1>1. \A m \in Month : exhibits[m] = None
    <2>1. PICK column \in Baselines \cup {None} :
              exhibits = [b \in Workbook |-> IF b = 0 /\ column # None THEN AsFiled(column)
                                                                       ELSE None]
        BY DEF StatementInit
    <2>2. \A m \in Month : m \in Workbook /\ m # 0
        BY WorkbookFacts DEF Month
    <2>. QED
        BY <2>1, <2>2
<1>. QED
    BY <1>1, InitTypes DEF OInv, InOrder

LEMMA StepInOrder == OInv /\ [StatementNext]_statementVars => OInv'
<1>. SUFFICES ASSUME OInv, [StatementNext]_statementVars PROVE OInv'
    OBVIOUS
<1>1. SInv /\ InOrder
    BY DEF OInv
<1>2. ASSUME NEW n \in Month, n > 1, exhibits'[n] # None PROVE exhibits'[n - 1] # None
    <2>1. n \in Workbook /\ n - 1 \in Workbook /\ n - 1 # n
        BY WorkbookFacts DEF Month
    <2>2. CASE \A k \in Workbook : (exhibits'[k] = None) <=> (exhibits[k] = None)
        BY <1>1, <1>2, <2>1, <2>2 DEF InOrder
    <2>3. CASE \E m \in Month : /\ exhibits[m] = None /\ (m > 1 => exhibits[m - 1] # None)
                                /\ \A k \in Workbook : k # m => exhibits'[k] = exhibits[k]
        <3>1. PICK m \in Month : /\ exhibits[m] = None /\ (m > 1 => exhibits[m - 1] # None)
                                 /\ \A k \in Workbook : k # m => exhibits'[k] = exhibits[k]
            BY <2>3
        <3>2. exhibits[n - 1] # None
            BY <1>1, <1>2, <2>1, <3>1 DEF InOrder
        <3>. QED
            BY <2>1, <3>1, <3>2
    <2>. QED
        BY <1>1, <2>2, <2>3, FilesOrKeeps
<1>. QED
    BY <1>1, <1>2, StepTypes DEF OInv, InOrder

\* A month's figures are those of its exhibit and of the one before it.
LEMMA SameValues ==
    ASSUME NEW books, NEW other, NEW b, books[b] = other[b], Previous(books, b) = Previous(other, b),
           NEW own, NEW terms
    PROVE  CedingValues(books, b, own, terms) = CedingValues(other, b, own, terms)
<1>1. \A kind : Opening(books, b, kind) = Opening(other, b, kind)
    BY DEF Opening
<1>2. OpeningUEP(books, b) = OpeningUEP(other, b)
    BY DEF OpeningUEP
<1>3. Rests(books, b) <=> Rests(other, b)
    BY DEF Rests
<1>4. \A earned, rate, kind : Change(books, b, earned, rate, kind) = Change(other, b, earned, rate, kind)
    BY <1>1, <1>3 DEF Change
<1>5. \A earned, rate : ULAEPaid(books, b, earned, rate, terms) = ULAEPaid(other, b, earned, rate, terms)
    BY <1>3 DEF ULAEPaid
<1>. QED
    BY <1>2, <1>4, <1>5 DEF CedingValues

\* The roll-forward takes nothing of the month's but what is entered.
LEMMA SameRoll ==
    ASSUME NEW books, NEW other, NEW b, books[b].now \in Column, other[b].now \in Column,
           \A f \in EnteredField : books[b].now[f] = other[b].now[f],
           Previous(books, b) = Previous(other, b), NEW own
    PROVE  RolledForward(books, b, own) = RolledForward(other, b, own)
<1>1. PICK c \in Column, d \in Column : c = books[b].now /\ d = other[b].now
    OBVIOUS
<1>2. PICK prev : prev = Previous(books, b) /\ prev = Previous(other, b)
    OBVIOUS
<1>3. /\ c.lu = d.lu /\ c.laeu = d.laeu /\ c.aeu = d.aeu /\ c.pw = d.pw /\ c.uep = d.uep
      /\ c.lp = d.lp /\ c.laep = d.laep
    BY <1>1 DEF EnteredField
<1>4. \A opening, earned, rate, kind : FutChange(c, opening, earned, rate, kind)
                                         = FutChange(d, opening, earned, rate, kind)
    BY <1>3 DEF FutChange
<1>5. Closing(c, prev, own) = Closing(d, prev, own)
    BY <1>3, <1>4 DEF Closing
<1>6. \A f \in (EnteredField \cup ReserveField) \ ReserveField : c[f] = d[f]
    BY <1>1
<1>7. DOMAIN c = EnteredField \cup ReserveField /\ DOMAIN d = EnteredField \cup ReserveField
    BY DEF Column
<1>8. [f \in DOMAIN c |-> IF f \in ReserveField THEN Closing(c, prev, own)[f] ELSE c[f]]
        = [f \in DOMAIN d |-> IF f \in ReserveField THEN Closing(d, prev, own)[f] ELSE d[f]]
    BY <1>5, <1>6, <1>7
<1>. QED
    BY <1>1, <1>2, <1>8 DEF RolledForward

\* Where the workbook has all its rates, a read makes of them what the treaty's LAE
\* rates make of them.
LEMMA PopulatedByLAE ==
    ASSUME NEW own \in Rates, \A f \in RateField : own[f] # Null, NEW terms \in Terms \cup {None},
           NEW dcc, NEW aoe,
           <<dcc, aoe>> = IF terms = None THEN <<Null, Null>>
                                          ELSE <<terms.rates.laeDcc, terms.rates.laeAoe>>
    PROVE  Populated(own, terms) =
               [f \in RateField |-> IF f = "laeDcc" THEN Coalesce(dcc, own[f])
                                    ELSE IF f = "laeAoe" THEN Coalesce(aoe, own[f])
                                    ELSE own[f]]
<1>1. own = [f \in RateField |-> own[f]]
    BY DEF Rates
<1>2. CASE terms = None
    BY <1>1, <1>2 DEF Populated, Coalesce
<1>3. CASE terms # None
    <2>1. dcc = terms.rates.laeDcc /\ aoe = terms.rates.laeAoe
        BY <1>3
    <2>. QED
        BY <1>3, <2>1 DEF Populated, Coalesce, LAERates
<1>. QED
    BY <1>2, <1>3

LEMMA FoundStands ==
    ASSUME SInv, SInv', NEW k \in Workbook, rates'[k] = rates[k], LAETerms' = LAETerms,
           \A f \in RateField : rates[k][f] # Null
    PROVE  Found(k)' = Found(k)
<1>1. rates[k] \in Rates /\ treaty \in Terms \cup {None} /\ treaty' \in Terms \cup {None}
    BY FoundTypes DEF SInv, StatementTypeOK
<1>2. PICK dcc, aoe : LAETerms = <<dcc, aoe>>
    BY DEF LAETerms
<1>3. Populated(rates[k], treaty) = Populated(rates[k], treaty')
    <2>1. <<dcc, aoe>> = IF treaty = None THEN <<Null, Null>>
                                          ELSE <<treaty.rates.laeDcc, treaty.rates.laeAoe>>
        BY <1>2 DEF LAETerms
    <2>2. <<dcc, aoe>> = IF treaty' = None THEN <<Null, Null>>
                                           ELSE <<treaty'.rates.laeDcc, treaty'.rates.laeAoe>>
        BY <1>2 DEF LAETerms
    <2>3. PICK terms : terms = treaty'
        OBVIOUS
    <2>. QED
        BY <1>1, <2>1, <2>2, <2>3, PopulatedByLAE
<1>. QED
    BY <1>3 DEF Found

\* A step of one workbook leaves the exhibit of another, and its own if it is settled
\* and what was entered in it stays.
LEMMA ExhibitStands ==
    ASSUME SInv, [StatementNext]_statementVars, NEW k \in Workbook, k \in OnFile,
           rates'[k] = rates[k], EnteredFor(k)' = EnteredFor(k), Settled(k)
    PROVE  exhibits'[k] = exhibits[k]
<1>1. exhibits[k] # None /\ exhibits[k] = Refreshed(exhibits, k, Found(k))[k] /\ Found(k) \in Rates
    BY FoundTypes DEF OnFile, Settled
<1>2. rates \in [Workbook -> Rates] /\ Shelf(exhibits)
    BY DEF SInv, StatementTypeOK
<1>3. ASSUME NEW b \in Workbook, ReadBook(b) \/ SaveRow(b) \/ Post(b)
      PROVE  exhibits'[k] = exhibits[k]
    <2>1. b \in OnFile /\ exhibits' = Refreshed(exhibits, b, Found(b))
        BY <1>3 DEF ReadBook, SaveRow, Post
    <2>2. \A c \in Workbook : c # b => exhibits'[c] = exhibits[c]
        BY <2>1, FoundTypes, ReadTypes
    <2>. QED
        BY <1>1, <2>1, <2>2
<1>4. ASSUME NEW m \in Month, NEW column \in Sheets, NEW sheet \in SheetRates,
             UploadFUT(m, column, sheet) \/ UploadStarlight(m, column, sheet)
      PROVE  exhibits'[k] = exhibits[k]
    <2>1. PICK own : /\ own = FiledFUT(sheet, treaty) \/ own = FiledStarlight(sheet, treaty)
                     /\ Upload(m, column, own)
        BY <1>4 DEF UploadFUT, UploadStarlight
    <2>2. m \in Workbook /\ sheet \in Rates /\ column \in Column
        BY WorkbookFacts, StatementAssumption
    <2>3. own \in Rates
        BY <2>1, <2>2, FoundTypes, FiledTypes
    <2>4. PICK e \in Exhibit : e = AsFiled(column)
        BY <2>2, AsFiledTypes
    <2>5. PICK books : books = [exhibits EXCEPT ![m] = e]
        OBVIOUS
    <2>6. Shelf(books) /\ books[m] # None
      <3>1. Shelf([exhibits EXCEPT ![m] = e]) /\ [exhibits EXCEPT ![m] = e][m] = e
          BY <1>2, <2>2, ShelfExcept
      <3>. QED
          BY <2>5, <3>1, Apart
    <2>7. Populated(own, treaty) \in Rates
        BY <2>2, <2>3, FoundTypes, PopulatedTypes
    <2>8. exhibits' = Refreshed(books, m, Populated(own, treaty)) /\ k # m
        BY <2>1, <2>4, <2>5 DEF Upload
    <2>9. exhibits'[k] = books[k]
        BY <2>2, <2>6, <2>7, <2>8, RefreshedTypes
    <2>. QED
        BY <1>2, <2>2, <2>5, <2>8, <2>9 DEF Shelf
<1>5. ASSUME NEW b \in Workbook, NEW column \in Sheets, UpdateExhibit(b, column)
      PROVE  exhibits'[k] = exhibits[k]
    <2>1. PICK read : read = Refreshed(exhibits, b, Found(b))
        OBVIOUS
    <2>2. /\ Shelf(read) /\ read[b] # None /\ b \in OnFile
          /\ \A c \in Workbook : c # b => read[c] = exhibits[c]
        BY <1>5, <2>1, FoundTypes, ReadTypes DEF UpdateExhibit
    <2>3. PICK books : books = [read EXCEPT ![b].now = column]
        OBVIOUS
    <2>4. PICK e : e = [read[b] EXCEPT !.now = column]
        OBVIOUS
    <2>5. e \in Exhibit /\ e.now = column /\ column \in Column
        BY <2>2, <2>4, StatementAssumption DEF Shelf, Exhibit
    <2>6. books = [read EXCEPT ![b] = e]
        BY <2>3, <2>4
    <2>7. Shelf(books) /\ books[b] = e /\ books[b] # None
        BY <2>2, <2>5, <2>6, ShelfExcept, Apart
    <2>8. \A c \in Workbook : c # b => books[c] = exhibits[c]
        BY <2>2, <2>6 DEF Shelf
    <2>9. exhibits' = Refreshed(books, b, Found(b)) /\ source' = source
        BY <1>5, <2>1, <2>3 DEF UpdateExhibit
    <2>10. /\ \A c \in Workbook : c # b => exhibits'[c] = books[c]
           /\ exhibits'[b] = IF SourceOf(b) = "FUT" THEN RolledForward(books, b, Found(b))
                                                    ELSE books[b]
        BY <2>7, <2>9, FoundTypes, RefreshedTypes
    <2>11. CASE k # b
        BY <2>8, <2>10, <2>11
    <2>12. CASE k = b /\ SourceOf(k) # "FUT"
        <3>1. exhibits'[k] = EnteredFor(k)' /\ exhibits[k] = EnteredFor(k)
            BY <2>9, <2>12 DEF EnteredFor, SourceOf
        <3>. QED
            BY <3>1
    <2>13. CASE k = b /\ SourceOf(k) = "FUT"
        <3>1. exhibits'[k] = RolledForward(books, k, Found(k))
            BY <2>10, <2>13
        <3>2. exhibits[k] = RolledForward(exhibits, k, Found(k))
            BY <1>1, <1>2, <2>13, RefreshedTypes
        <3>3. exhibits[k] \in Exhibit /\ exhibits[k].now \in Column
            BY <1>1, <1>2 DEF Shelf, Exhibit
        <3>4. \A f \in EnteredField : column[f] = exhibits[k].now[f]
            <4>1. \A f \in EnteredField : exhibits'[k].now[f] = exhibits[k].now[f]
                <5>1. EnteredFor(k)' = [f \in EnteredField |-> exhibits'[k].now[f]]
                    BY <2>9, <2>13 DEF EnteredFor, SourceOf
                <5>2. EnteredFor(k) = [f \in EnteredField |-> exhibits[k].now[f]]
                    BY <2>13 DEF EnteredFor
                <5>. QED
                    BY <5>1, <5>2
            <4>2. exhibits'[k].now = [f \in DOMAIN column |->
                                         IF f \in ReserveField
                                           THEN Closing(column, Previous(books, k), Found(k))[f]
                                           ELSE column[f]]
                BY <2>5, <2>7, <2>13, <3>1 DEF RolledForward
            <4>3. \A f \in EnteredField : f \in DOMAIN column /\ f \notin ReserveField
                BY <2>5 DEF Column, EnteredField, ReserveField, IBNRField
            <4>. QED
                BY <4>1, <4>2, <4>3
        <3>5. Previous(books, k) = Previous(exhibits, k)
            <4>1. k # 0 => k - 1 \in Workbook /\ k - 1 # k
                BY WorkbookFacts
            <4>. QED
                BY <2>8, <2>13, <4>1 DEF Previous
        <3>6. books[k].now = column
            BY <2>5, <2>7, <2>13
        <3>7. RolledForward(books, k, Found(k)) = RolledForward(exhibits, k, Found(k))
            BY <2>5, <3>3, <3>4, <3>5, <3>6, SameRoll
        <3>. QED
            BY <3>1, <3>2, <3>7
    <2>. QED
        BY <2>11, <2>12, <2>13
<1>6. ASSUME NEW b \in Workbook, NEW sent \in RateEdits, UpdateRates(b, sent)
      PROVE  exhibits'[k] = exhibits[k]
    <2>1. PICK saved : saved = [f \in RateField |-> Coalesce(sent[f], Found(b)[f])]
        OBVIOUS
    <2>2. sent \in Rates /\ Found(b) \in Rates
        BY FoundTypes, StatementAssumption
    <2>3. saved \in Rates
        BY <2>1, <2>2, CoalesceTypes DEF Rates
    <2>4. Populated(saved, treaty) \in Rates
        BY <2>3, FoundTypes, PopulatedTypes
    <2>5. /\ b \in OnFile /\ exhibits' = Refreshed(exhibits, b, Populated(saved, treaty))
          /\ rates' = [rates EXCEPT ![b] = saved]
        BY <1>6, <2>1 DEF UpdateRates
    <2>6. \A c \in Workbook : c # b => exhibits'[c] = exhibits[c]
        BY <2>4, <2>5, ReadTypes
    <2>7. CASE k # b
        BY <2>6, <2>7
    <2>8. CASE k = b
        <3>1. saved = rates[k]
            BY <1>2, <2>5, <2>8
        <3>2. exhibits' = Refreshed(exhibits, k, Found(k))
            BY <2>5, <2>8, <3>1 DEF Found
        <3>. QED
            BY <1>1, <3>2
    <2>. QED
        BY <2>7, <2>8
<1>. QED
    BY <1>3, <1>4, <1>5, <1>6 DEF StatementNext, CreateTreaty, AmendTreaty, DeleteTreaty,
                                  SetTreaty, statementVars

LEMMA ChainStands ==
    ASSUME OInv, OInv', [StatementNext]_statementVars, NEW b \in Workbook, b \in OnFile,
           LAETerms' = LAETerms,
           \A k \in {c \in OnFile : c <= b} :
               rates'[k] = rates[k] /\ EnteredFor(k)' = EnteredFor(k),
           \A k \in {c \in OnFile : c <= b} :
               Settled(k) /\ \A f \in RateField : rates[k][f] # Null
    PROVE  GLValues(exhibits', b, Found(b)') = GLValues(exhibits, b, Found(b))
<1>1. SInv /\ SInv' /\ InOrder /\ b \in Nat
    BY WorkbookFacts DEF OInv
<1>2. \A k \in OnFile : k <= b => exhibits'[k] = exhibits[k]
    BY <1>1, ExhibitStands DEF OnFile
<1>3. b <= b
    BY <1>1
<1>4. Found(b)' = Found(b)
    BY <1>1, <1>3, FoundStands
<1>5. exhibits'[b] = exhibits[b]
    BY <1>2, <1>3
<1>6. Previous(exhibits', b) = Previous(exhibits, b)
    <2>1. CASE b = 0
        BY <2>1 DEF Previous
    <2>2. CASE b # 0 /\ exhibits[b - 1] # None
        <3>1. b - 1 \in OnFile /\ b - 1 <= b
            BY <1>1, <2>2, WorkbookFacts DEF OnFile
        <3>. QED
            BY <1>2, <2>2, <3>1 DEF Previous
    <2>3. CASE b # 0 /\ exhibits[b - 1] = None
        <3>1. b \in Month /\ exhibits[b] # None /\ b - 1 \in Workbook
            BY <2>3, WorkbookFacts DEF OnFile
        <3>2. b = 1
            BY <1>1, <2>3, <3>1 DEF InOrder, Month
        <3>3. exhibits'[0] = exhibits[0]
            <4>1. 0 \in Workbook /\ 0 \notin Month /\ exhibits[0] = None
                BY <2>3, <3>2, WorkbookFacts DEF Month
            <4>2. CASE \A k \in Workbook : (exhibits'[k] = None) <=> (exhibits[k] = None)
                BY <4>1, <4>2
            <4>3. CASE \E m \in Month : /\ exhibits[m] = None /\ (m > 1 => exhibits[m - 1] # None)
                                        /\ \A k \in Workbook : k # m => exhibits'[k] = exhibits[k]
                BY <4>1, <4>3
            <4>. QED
                BY <1>1, <4>2, <4>3, FilesOrKeeps
        <3>. QED
            BY <3>2, <3>3 DEF Previous
    <2>. QED
        BY <2>1, <2>2, <2>3
<1>. QED
    BY <1>4, <1>5, <1>6, SameValues DEF GLValues

\* What is posted for a settled chain stands, whatever is read, uploaded or amended later,
\* short of the LAE rates of the treaty (populateWorkbookRates, recalculateExhibit).
THEOREM StatementsStandAlways == StatementSpec => StatementsStand
<1>1. OInv /\ OInv' /\ [StatementNext]_statementVars
        => [\A b \in OnFile :
              LET chain == {k \in OnFile : k <= b}
              IN  (/\ posted[b] # None
                   /\ <<exhibits, Found(b)>>' # <<exhibits, Found(b)>>
                   /\ LAETerms' = LAETerms
                   /\ \A k \in chain : rates'[k] = rates[k] /\ EnteredFor(k)' = EnteredFor(k)
                   /\ \A k \in chain : Settled(k) /\ \A f \in RateField : rates[k][f] # Null) =>
                     GLValues(exhibits', b, Found(b)') = GLValues(exhibits, b, Found(b))]_statementVars
    <2>1. \A b \in OnFile : b \in Workbook
        BY DEF OnFile
    <2>. QED
        BY <2>1, ChainStands
<1>. QED
    BY <1>1, InitInOrder, StepInOrder, PTL DEF StatementSpec, StatementsStand

----------------------------------------------------------------------------
\* Rows and the sums over them

\* Rounding to the cent, in halves of a unit.
LEMMA RoundedBy ==
    ASSUME NEW x \in Int
    PROVE  /\ -Unit <= 2 * (Whole(Cents(x)) - x) /\ 2 * (Whole(Cents(x)) - x) <= Unit
           /\ x % Unit = 0 => Whole(Cents(x)) = x
  BY DEF Cents, Whole, Unit

FiguresOf(v) == [i \in TemplateRow |-> Figure(v, i)]

Slack(v, R) == Unit * Cardinality(Inexact(v, R))

Off(v, R) == 2 * (Whole(SumOver(Entries(v), R)) - SumOver(FiguresOf(v), R))

LEMMA RowsFinite == \A R \in SUBSET TemplateRow : IsFiniteSet(R)
<1>1. IsFiniteSet(1 .. 68)
    <2>1. PICK a \in Int, b \in Int : a = 1 /\ b = 68
        OBVIOUS
    <2>2. IsFiniteSet(a .. b)
        BY FS_Interval
    <2>. QED
        BY <2>1, <2>2
<1>. QED
    BY <1>1, RowNumbers, FS_Subset

LEMMA RowSums ==
    ASSUME NEW v, IntValues(v), NEW R \in SUBSET TemplateRow
    PROVE  /\ SumOver(Entries(v), R) \in Int /\ SumOver(FiguresOf(v), R) \in Int
           /\ Slack(v, R) \in Nat /\ Cardinality(Inexact(v, R)) \in Nat
<1>1. \A i \in R : Entries(v)[i] \in Int /\ FiguresOf(v)[i] \in Int
    BY FigureTypes, EntriesTypes DEF FiguresOf
<1>2. IsFiniteSet(R)
    BY RowsFinite
<1>3. SumOver(Entries(v), R) \in Int /\ SumOver(FiguresOf(v), R) \in Int
    BY <1>1, <1>2, SumIsInt
<1>4. Inexact(v, R) \in SUBSET TemplateRow
    BY DEF Inexact
<1>5. Cardinality(Inexact(v, R)) \in Nat
    BY <1>4, RowsFinite, FS_CardinalityType
<1>. QED
    BY <1>3, <1>5 DEF Slack, Unit

\* A sum of entries is that of the figures, half a cent aside for each inexact one.
LEMMA SumRounded ==
    ASSUME NEW v, IntValues(v), NEW R \in SUBSET TemplateRow
    PROVE  Off(v, R) \in -Slack(v, R) .. Slack(v, R)
<1>. DEFINE Sound(X) == Off(v, X) \in -Slack(v, X) .. Slack(v, X)
            Bad == {X \in SUBSET R : ~ Sound(X)}
<1>1. Sound({})
    <2>1. SumOver(Entries(v), {}) = 0 /\ SumOver(FiguresOf(v), {}) = 0
        BY SumOfNone
    <2>2. Inexact(v, {}) = {} /\ Cardinality({}) = 0
        BY FS_EmptySet DEF Inexact
    <2>. QED
        BY <2>1, <2>2 DEF Off, Slack, Whole, Unit
<1>2. ASSUME NEW X \in SUBSET TemplateRow, NEW z \in X, Sound(X \ {z}) PROVE Sound(X)
    <2>1. PICK Y : Y = X \ {z}
        OBVIOUS
    <2>2. Y \in SUBSET TemplateRow /\ IsFiniteSet(X) /\ IsFiniteSet(Y) /\ z \in TemplateRow
        BY <2>1, RowsFinite
    <2>3. \A i \in X : Entries(v)[i] \in Int /\ FiguresOf(v)[i] \in Int
        BY FigureTypes, EntriesTypes DEF FiguresOf
    <2>4. PICK x \in Int : x = Figure(v, z)
        BY <2>2, FigureTypes
    <2>5. Entries(v)[z] = Cents(x) /\ FiguresOf(v)[z] = x /\ Cents(x) \in Int
        BY <2>2, <2>4, CentsTypes DEF Entries, FiguresOf
    <2>6. SumOver(Entries(v), X) = Cents(x) + SumOver(Entries(v), Y)
        BY <2>1, <2>2, <2>3, <2>5, SumWithout
    <2>7. SumOver(FiguresOf(v), X) = x + SumOver(FiguresOf(v), Y)
        BY <2>1, <2>2, <2>3, <2>5, SumWithout
    <2>8. PICK e \in Int, f \in Int : e = SumOver(Entries(v), Y) /\ f = SumOver(FiguresOf(v), Y)
        BY <2>2, RowSums
    <2>9. PICK c \in Nat, d \in Nat : /\ c = Cardinality(Inexact(v, Y))
                                      /\ d = Cardinality(Inexact(v, X))
        BY <2>2, RowSums
    <2>10. IF x % Unit # 0 THEN d = c + 1 ELSE d = c
        <3>1. PICK I : I = Inexact(v, Y)
            OBVIOUS
        <3>2. IsFiniteSet(I) /\ z \notin I
            <4>1. I \in SUBSET TemplateRow /\ z \notin I
                BY <2>1, <2>2, <3>1 DEF Inexact
            <4>. QED
                BY <4>1, RowsFinite
        <3>3. Inexact(v, X) = IF x % Unit # 0 THEN I \cup {z} ELSE I
            BY <2>1, <2>4, <3>1 DEF Inexact
        <3>4. Cardinality(I \cup {z}) = Cardinality(I) + 1
            BY <3>2, FS_AddElement
        <3>. QED
            BY <2>9, <3>1, <3>3, <3>4
    <2>11. 2 * (Whole(e) - f) \in -(Unit * c) .. Unit * c
        BY <1>2, <2>1, <2>8, <2>9 DEF Off, Slack
    <2>12. /\ -Unit <= 2 * (Whole(Cents(x)) - x) /\ 2 * (Whole(Cents(x)) - x) <= Unit
           /\ x % Unit = 0 => Whole(Cents(x)) = x
        BY RoundedBy
    <2>13. PICK y \in Int : y = Cents(x)
        BY <2>5
    <2>14. PICK u \in Int, w \in Int, m \in Int, n \in Int :
               /\ u = 2 * (Whole(e) - f) /\ w = 2 * (Whole(y) - x) /\ m = Unit * c /\ n = Unit * d
        BY DEF Whole, Unit
    <2>15. -m <= u /\ u <= m
        <3>1. u \in -m .. m
            BY <2>11, <2>14, Zenon
        <3>. QED
            BY <3>1
    <2>16. -Unit <= w /\ w <= Unit /\ (x % Unit = 0 => w = 0)
        BY <2>12, <2>13, <2>14 DEF Whole, Unit
    <2>17. u + w \in -n .. n
        <3>1. IF x % Unit # 0 THEN n = m + 200000 ELSE n = m
            BY <2>10, <2>14 DEF Unit
        <3>2. -200000 <= w /\ w <= 200000
            BY <2>16 DEF Unit
        <3>. QED
            BY <2>15, <2>16, <3>1, <3>2
    <2>18. 2 * (Whole(y + e) - (x + f)) = u + w
        BY <2>14 DEF Whole, Unit
    <2>19. Off(v, X) = u + w
        BY <2>6, <2>7, <2>8, <2>13, <2>18 DEF Off
    <2>20. Slack(v, X) = n
        BY <2>9, <2>14 DEF Slack
    <2>. QED
        BY <2>17, <2>19, <2>20
<1>. SUFFICES ASSUME Bad # {} PROVE FALSE
    OBVIOUS
<1>3. PICK X \in Bad : \A Y \in SUBSET X : Y # X => Y \notin Bad
    <2>1. Bad \in SUBSET (SUBSET R) /\ IsFiniteSet(R)
        BY RowsFinite
    <2>2. PICK B \in SUBSET (SUBSET R) : B = Bad
        BY <2>1
    <2>3. B # {}
        BY <2>2
    <2>4. \E X \in B : \A Y \in SUBSET X : Y # X => Y \notin B
        BY <2>1, <2>3, SmallestSubset
    <2>. HIDE DEF Bad
    <2>. QED
        BY <2>2, <2>4
<1>4. PICK z \in X : TRUE
    <2>. HIDE DEF Sound
    <2>. QED
        BY <1>1, <1>3
<1>5. X \ {z} \in SUBSET X /\ X \ {z} # X /\ X \ {z} \in SUBSET R /\ X \in SUBSET TemplateRow
    BY <1>3, <1>4
<1>6. Sound(X \ {z})
    <2>. HIDE DEF Sound
    <2>. QED
        BY <1>3, <1>5
<1>7. Sound(X)
    <2>. HIDE DEF Sound
    <2>. QED
        BY <1>2, <1>4, <1>5, <1>6
<1>. QED
    BY <1>3, <1>7

LEMMA SumFour ==
    ASSUME NEW f, NEW S, IsFiniteSet(S), \A x \in S : f[x] \in Int,
           NEW a, NEW b, NEW c, NEW d,
           a \notin S, b \notin S, c \notin S, d \notin S,
           a # b, a # c, a # d, b # c, b # d, c # d,
           f[a] \in Int, f[b] \in Int, f[c] \in Int, f[d] \in Int
    PROVE  /\ IsFiniteSet(S \cup {a, b, c, d}) /\ \A x \in S \cup {a, b, c, d} : f[x] \in Int
           /\ SumOver(f, S \cup {a, b, c, d}) = SumOver(f, S) + (f[a] + f[b] + f[c] + f[d])
<1>1. /\ IsFiniteSet(S \cup {a}) /\ \A x \in S \cup {a} : f[x] \in Int
      /\ SumOver(f, S \cup {a}) = SumOver(f, S) + f[a]
    BY SumPlus
<1>2. PICK A : A = S \cup {a}
    OBVIOUS
<1>3. b \notin A
    BY <1>2
<1>4. /\ IsFiniteSet(A \cup {b}) /\ \A x \in A \cup {b} : f[x] \in Int
      /\ SumOver(f, A \cup {b}) = SumOver(f, A) + f[b]
    BY <1>1, <1>2, <1>3, SumPlus
<1>5. PICK B : B = A \cup {b}
    OBVIOUS
<1>6. c \notin B
    BY <1>2, <1>5
<1>7. /\ IsFiniteSet(B \cup {c}) /\ \A x \in B \cup {c} : f[x] \in Int
      /\ SumOver(f, B \cup {c}) = SumOver(f, B) + f[c]
    BY <1>4, <1>5, <1>6, SumPlus
<1>8. PICK C : C = B \cup {c}
    OBVIOUS
<1>9. d \notin C
    BY <1>2, <1>5, <1>8
<1>10. /\ IsFiniteSet(C \cup {d}) /\ \A x \in C \cup {d} : f[x] \in Int
       /\ SumOver(f, C \cup {d}) = SumOver(f, C) + f[d]
    BY <1>7, <1>8, <1>9, SumPlus
<1>11. C \cup {d} = S \cup {a, b, c, d}
    BY <1>2, <1>5, <1>8
<1>12. PICK s \in Int : s = SumOver(f, S)
    BY SumIsInt
<1>13. PICK i \in Int, j \in Int, k \in Int, l \in Int : i = f[a] /\ j = f[b] /\ k = f[c] /\ l = f[d]
    OBVIOUS
<1>14. SumOver(f, C \cup {d}) = s + i + j + k + l
    BY <1>1, <1>2, <1>4, <1>5, <1>7, <1>8, <1>10, <1>12, <1>13
<1>15. SumOver(f, C \cup {d}) = s + (i + j + k + l)
    BY <1>14
<1>. QED
    BY <1>10, <1>11, <1>12, <1>13, <1>15

LEMMA SumThree ==
    ASSUME NEW f, NEW S, IsFiniteSet(S), \A x \in S : f[x] \in Int,
           NEW a, NEW b, NEW c,
           a \notin S, b \notin S, c \notin S, a # b, a # c, b # c,
           f[a] \in Int, f[b] \in Int, f[c] \in Int
    PROVE  /\ IsFiniteSet(S \cup {a, b, c}) /\ \A x \in S \cup {a, b, c} : f[x] \in Int
           /\ SumOver(f, S \cup {a, b, c}) = SumOver(f, S) + (f[a] + f[b] + f[c])
<1>1. /\ IsFiniteSet(S \cup {a}) /\ \A x \in S \cup {a} : f[x] \in Int
      /\ SumOver(f, S \cup {a}) = SumOver(f, S) + f[a]
    BY SumPlus
<1>2. PICK A : A = S \cup {a}
    OBVIOUS
<1>3. b \notin A
    BY <1>2
<1>4. /\ IsFiniteSet(A \cup {b}) /\ \A x \in A \cup {b} : f[x] \in Int
      /\ SumOver(f, A \cup {b}) = SumOver(f, A) + f[b]
    BY <1>1, <1>2, <1>3, SumPlus
<1>5. PICK B : B = A \cup {b}
    OBVIOUS
<1>6. c \notin B
    BY <1>2, <1>5
<1>7. /\ IsFiniteSet(B \cup {c}) /\ \A x \in B \cup {c} : f[x] \in Int
      /\ SumOver(f, B \cup {c}) = SumOver(f, B) + f[c]
    BY <1>4, <1>5, <1>6, SumPlus
<1>8. B \cup {c} = S \cup {a, b, c}
    BY <1>2, <1>5
<1>9. PICK s \in Int : s = SumOver(f, S)
    BY SumIsInt
<1>10. PICK i \in Int, j \in Int, k \in Int : i = f[a] /\ j = f[b] /\ k = f[c]
    OBVIOUS
<1>11. SumOver(f, B \cup {c}) = s + i + j + k
    BY <1>1, <1>2, <1>4, <1>5, <1>7, <1>9, <1>10
<1>12. SumOver(f, B \cup {c}) = s + (i + j + k)
    BY <1>11
<1>. QED
    BY <1>7, <1>8, <1>9, <1>10, <1>12

LEMMA ReserveSum ==
    ASSUME NEW f \in IntReserve
    PROVE  /\ f.Loss \in Int /\ f.LossIBNR \in Int /\ f.DCC \in Int /\ f.DCCIBNR \in Int
           /\ f.AOE \in Int /\ f.AOEIBNR \in Int /\ f.ULAEIBNR \in Int
           /\ SumOver(f, Reserve) = f.Loss + f.LossIBNR + f.DCC + f.DCCIBNR + f.AOE + f.AOEIBNR
                                      + f.ULAEIBNR
<1>1. /\ f.Loss \in Int /\ f.LossIBNR \in Int /\ f.DCC \in Int /\ f.DCCIBNR \in Int
      /\ f.AOE \in Int /\ f.AOEIBNR \in Int /\ f.ULAEIBNR \in Int
    BY DEF IntReserve, Reserve
<1>2. PICK N, a, b, c, d :
          N = {} /\ a = "Loss" /\ b = "LossIBNR" /\ c = "DCC" /\ d = "DCCIBNR"
    OBVIOUS
<1>3. PICK S, e, g, h : S = N \cup {a, b, c, d} /\ e = "AOE" /\ g = "AOEIBNR" /\ h = "ULAEIBNR"
    OBVIOUS
<1>4. IsFiniteSet(N) /\ SumOver(f, N) = 0 /\ (\A x \in N : f[x] \in Int)
    BY <1>2, SumOfNone, FS_EmptySet
<1>5. /\ a \notin N /\ b \notin N /\ c \notin N /\ d \notin N
      /\ a # b /\ a # c /\ a # d /\ b # c /\ b # d /\ c # d
      /\ f[a] \in Int /\ f[b] \in Int /\ f[c] \in Int /\ f[d] \in Int
    BY <1>1, <1>2
<1>6. /\ IsFiniteSet(S) /\ \A x \in S : f[x] \in Int
      /\ SumOver(f, S) = SumOver(f, N) + (f[a] + f[b] + f[c] + f[d])
    <2>1. /\ IsFiniteSet(N \cup {a, b, c, d}) /\ \A x \in N \cup {a, b, c, d} : f[x] \in Int
          /\ SumOver(f, N \cup {a, b, c, d}) = SumOver(f, N) + (f[a] + f[b] + f[c] + f[d])
        BY <1>4, <1>5, SumFour
    <2>. QED
        BY <1>3, <2>1
<1>7. /\ e \notin S /\ g \notin S /\ h \notin S /\ e # g /\ e # h /\ g # h
      /\ f[e] \in Int /\ f[g] \in Int /\ f[h] \in Int
    BY <1>1, <1>2, <1>3
<1>8. SumOver(f, S \cup {e, g, h}) = SumOver(f, S) + (f[e] + f[g] + f[h])
    BY <1>6, <1>7, SumThree
<1>9. S \cup {e, g, h} = Reserve
    BY <1>2, <1>3 DEF Reserve
<1>10. SumOver(f, Reserve) = (0 + (f.Loss + f.LossIBNR + f.DCC + f.DCCIBNR))
                                + (f.AOE + f.AOEIBNR + f.ULAEIBNR)
    BY <1>2, <1>3, <1>4, <1>6, <1>8, <1>9
<1>11. PICK i \in Int, j \in Int, k \in Int, l \in Int, m \in Int, n \in Int, o \in Int :
           /\ i = f.Loss /\ j = f.LossIBNR /\ k = f.DCC /\ l = f.DCCIBNR /\ m = f.AOE
           /\ n = f.AOEIBNR /\ o = f.ULAEIBNR
    BY <1>1
<1>12. (0 + (i + j + k + l)) + (m + n + o) = i + j + k + l + m + n + o
    OBVIOUS
<1>. QED
    BY <1>1, <1>10, <1>11, <1>12

----------------------------------------------------------------------------
\* The template row by row

LEMMA DrFigure ==
    ASSUME NEW v, IntValues(v), NEW i, NEW account, NEW f, Template[i] = Dr(account, f)
    PROVE  /\ f \in Figures /\ f \notin Reserve => Figure(v, i) = v[f]
           /\ f \in Reserve => Figure(v, i) = v.change[f]
<1>1. Template[i].sign = 1 /\ Template[i].figure = f
    BY DEF Dr
<1>2. f \in Figures => v[f] \in Int
    BY DEF IntValues
<1>3. f \in Reserve => v.change[f] \in Int
    BY DEF IntValues, IntReserve
<1>. QED
    BY <1>1, <1>2, <1>3 DEF Figure

LEMMA CrFigure ==
    ASSUME NEW v, IntValues(v), NEW i, NEW account, NEW f, Template[i] = Cr(account, f)
    PROVE  /\ f \in Figures /\ f \notin Reserve => Figure(v, i) = -v[f]
           /\ f \in Reserve => Figure(v, i) = -v.change[f]
<1>1. Template[i].sign = -1 /\ Template[i].figure = f
    BY DEF Cr
<1>2. f \in Figures => v[f] \in Int
    BY DEF IntValues
<1>3. f \in Reserve => v.change[f] \in Int
    BY DEF IntValues, IntReserve
<1>. QED
    BY <1>1, <1>2, <1>3 DEF Figure

LEMMA PremiumAt ==
    /\ Template[1] = Dr("120100", "premiumWritten") /\ Template[2] = Cr("400100", "premiumWritten")
    /\ Template[3] = Cr("411100", "changeUEP") /\ Template[4] = Dr("230100", "changeUEP")
    /\ Template[5] = Dr("400300", "premiumWritten") /\ Template[6] = Cr("243100", "premiumWritten")
    /\ Template[7] = Cr("230300", "changeUEP") /\ Template[8] = Dr("411300", "changeUEP")
    /\ Template[9] = Dr("500100", "cedingCommission") /\ Template[10] = Cr("120100", "cedingCommission")
    /\ Template[11] = Dr("243100", "cedingCommission") /\ Template[12] = Cr("500300", "cedingCommission")
<1>1. /\ PremiumRows[1] = Dr("120100", "premiumWritten") /\ PremiumRows[2] = Cr("400100", "premiumWritten")
      /\ PremiumRows[3] = Cr("411100", "changeUEP") /\ PremiumRows[4] = Dr("230100", "changeUEP")
      /\ PremiumRows[5] = Dr("400300", "premiumWritten") /\ PremiumRows[6] = Cr("243100", "premiumWritten")
      /\ PremiumRows[7] = Cr("230300", "changeUEP") /\ PremiumRows[8] = Dr("411300", "changeUEP")
      /\ PremiumRows[9] = Dr("500100", "cedingCommission") /\ PremiumRows[10] = Cr("120100", "cedingCommission")
      /\ PremiumRows[11] = Dr("243100", "cedingCommission") /\ PremiumRows[12] = Cr("500300", "cedingCommission")
    BY DEF PremiumRows
<1>2. \A i \in 1 .. 12 : Template[i] = PremiumRows[i]
    BY TemplateIs, Zenon
<1>3. /\ Template[1] = PremiumRows[1] /\ Template[2] = PremiumRows[2] /\ Template[3] = PremiumRows[3]
      /\ Template[4] = PremiumRows[4] /\ Template[5] = PremiumRows[5] /\ Template[6] = PremiumRows[6]
      /\ Template[7] = PremiumRows[7] /\ Template[8] = PremiumRows[8] /\ Template[9] = PremiumRows[9]
      /\ Template[10] = PremiumRows[10] /\ Template[11] = PremiumRows[11] /\ Template[12] = PremiumRows[12]
    BY <1>2
<1>. QED
    BY <1>1, <1>3

LEMMA PremiumAccounts ==
    /\ Template[1].account = "120100" /\ Template[2].account = "400100"
    /\ Template[3].account = "411100" /\ Template[4].account = "230100"
    /\ Template[5].account = "400300" /\ Template[6].account = "243100"
    /\ Template[7].account = "230300" /\ Template[8].account = "411300"
    /\ Template[9].account = "500100" /\ Template[10].account = "120100"
    /\ Template[11].account = "243100" /\ Template[12].account = "500300"
  BY PremiumAt DEF Dr, Cr

LEMMA PremiumFigures ==
    ASSUME NEW v, IntValues(v)
    PROVE  /\ Figure(v, 1) = v.premiumWritten /\ Figure(v, 2) = -v.premiumWritten
           /\ Figure(v, 3) = -v.changeUEP /\ Figure(v, 4) = v.changeUEP
           /\ Figure(v, 5) = v.premiumWritten /\ Figure(v, 6) = -v.premiumWritten
           /\ Figure(v, 7) = -v.changeUEP /\ Figure(v, 8) = v.changeUEP
           /\ Figure(v, 9) = v.cedingCommission /\ Figure(v, 10) = -v.cedingCommission
           /\ Figure(v, 11) = v.cedingCommission /\ Figure(v, 12) = -v.cedingCommission
  BY PremiumAt, FiguresAre, DrFigure, CrFigure

LEMMA LossAt ==
    /\ Template[13] = Dr("600100", "lossesPaid") /\ Template[14] = Cr("264400", "lossesPaid")
    /\ Template[15] = Dr("125100", "lossesPaid") /\ Template[16] = Cr("600300", "lossesPaid")
    /\ Template[17] = Dr("550100", "Loss") /\ Template[18] = Cr("200100", "Loss")
    /\ Template[19] = Dr("200300", "Loss") /\ Template[20] = Cr("550300", "Loss")
    /\ Template[21] = Dr("550400", "LossIBNR") /\ Template[22] = Cr("200400", "LossIBNR")
    /\ Template[23] = Dr("200600", "LossIBNR") /\ Template[24] = Cr("550600", "LossIBNR")
<1>1. /\ LossRows[1] = Dr("600100", "lossesPaid") /\ LossRows[2] = Cr("264400", "lossesPaid")
      /\ LossRows[3] = Dr("125100", "lossesPaid") /\ LossRows[4] = Cr("600300", "lossesPaid")
      /\ LossRows[5] = Dr("550100", "Loss") /\ LossRows[6] = Cr("200100", "Loss")
      /\ LossRows[7] = Dr("200300", "Loss") /\ LossRows[8] = Cr("550300", "Loss")
      /\ LossRows[9] = Dr("550400", "LossIBNR") /\ LossRows[10] = Cr("200400", "LossIBNR")
      /\ LossRows[11] = Dr("200600", "LossIBNR") /\ LossRows[12] = Cr("550600", "LossIBNR")
    BY DEF LossRows
<1>2. \A i \in 13 .. 24 : Template[i] = LossRows[i - 12]
    BY TemplateIs, Zenon
<1>3. /\ Template[13] = LossRows[1] /\ Template[14] = LossRows[2] /\ Template[15] = LossRows[3]
      /\ Template[16] = LossRows[4] /\ Template[17] = LossRows[5] /\ Template[18] = LossRows[6]
      /\ Template[19] = LossRows[7] /\ Template[20] = LossRows[8] /\ Template[21] = LossRows[9]
      /\ Template[22] = LossRows[10] /\ Template[23] = LossRows[11] /\ Template[24] = LossRows[12]
    BY <1>2
<1>. QED
    BY <1>1, <1>3

LEMMA LossAccounts ==
    /\ Template[13].account = "600100" /\ Template[14].account = "264400"
    /\ Template[15].account = "125100" /\ Template[16].account = "600300"
    /\ Template[17].account = "550100" /\ Template[18].account = "200100"
    /\ Template[19].account = "200300" /\ Template[20].account = "550300"
    /\ Template[21].account = "550400" /\ Template[22].account = "200400"
    /\ Template[23].account = "200600" /\ Template[24].account = "550600"
  BY LossAt DEF Dr, Cr

LEMMA LossFigures ==
    ASSUME NEW v, IntValues(v)
    PROVE  /\ Figure(v, 13) = v.lossesPaid /\ Figure(v, 14) = -v.lossesPaid
           /\ Figure(v, 15) = v.lossesPaid /\ Figure(v, 16) = -v.lossesPaid
           /\ Figure(v, 17) = v.change.Loss /\ Figure(v, 18) = -v.change.Loss
           /\ Figure(v, 19) = v.change.Loss /\ Figure(v, 20) = -v.change.Loss
           /\ Figure(v, 21) = v.change.LossIBNR /\ Figure(v, 22) = -v.change.LossIBNR
           /\ Figure(v, 23) = v.change.LossIBNR /\ Figure(v, 24) = -v.change.LossIBNR
  BY LossAt, FiguresAre, DrFigure, CrFigure

LEMMA DCCAt ==
    /\ Template[25] = Dr("601100", "dccPaid") /\ Template[26] = Cr("264400", "dccPaid")
    /\ Template[27] = Dr("125100", "dccPaid") /\ Template[28] = Cr("601300", "dccPaid")
    /\ Template[29] = Dr("557100", "DCC") /\ Template[30] = Cr("207100", "DCC")
    /\ Template[31] = Dr("207300", "DCC") /\ Template[32] = Cr("557300", "DCC")
    /\ Template[33] = Dr("557400", "DCCIBNR") /\ Template[34] = Cr("207400", "DCCIBNR")
    /\ Template[35] = Dr("207600", "DCCIBNR") /\ Template[36] = Cr("557600", "DCCIBNR")
<1>1. /\ DCCRows[1] = Dr("601100", "dccPaid") /\ DCCRows[2] = Cr("264400", "dccPaid")
      /\ DCCRows[3] = Dr("125100", "dccPaid") /\ DCCRows[4] = Cr("601300", "dccPaid")
      /\ DCCRows[5] = Dr("557100", "DCC") /\ DCCRows[6] = Cr("207100", "DCC")
      /\ DCCRows[7] = Dr("207300", "DCC") /\ DCCRows[8] = Cr("557300", "DCC")
      /\ DCCRows[9] = Dr("557400", "DCCIBNR") /\ DCCRows[10] = Cr("207400", "DCCIBNR")
      /\ DCCRows[11] = Dr("207600", "DCCIBNR") /\ DCCRows[12] = Cr("557600", "DCCIBNR")
    BY DEF DCCRows
<1>2. \A i \in 25 .. 36 : Template[i] = DCCRows[i - 24]
    BY TemplateIs, Zenon
<1>3. /\ Template[25] = DCCRows[1] /\ Template[26] = DCCRows[2] /\ Template[27] = DCCRows[3]
      /\ Template[28] = DCCRows[4] /\ Template[29] = DCCRows[5] /\ Template[30] = DCCRows[6]
      /\ Template[31] = DCCRows[7] /\ Template[32] = DCCRows[8] /\ Template[33] = DCCRows[9]
      /\ Template[34] = DCCRows[10] /\ Template[35] = DCCRows[11] /\ Template[36] = DCCRows[12]
    BY <1>2
<1>. QED
    BY <1>1, <1>3

LEMMA DCCAccounts ==
    /\ Template[25].account = "601100" /\ Template[26].account = "264400"
    /\ Template[27].account = "125100" /\ Template[28].account = "601300"
    /\ Template[29].account = "557100" /\ Template[30].account = "207100"
    /\ Template[31].account = "207300" /\ Template[32].account = "557300"
    /\ Template[33].account = "557400" /\ Template[34].account = "207400"
    /\ Template[35].account = "207600" /\ Template[36].account = "557600"
  BY DCCAt DEF Dr, Cr

LEMMA DCCFigures ==
    ASSUME NEW v, IntValues(v)
    PROVE  /\ Figure(v, 25) = v.dccPaid /\ Figure(v, 26) = -v.dccPaid
           /\ Figure(v, 27) = v.dccPaid /\ Figure(v, 28) = -v.dccPaid
           /\ Figure(v, 29) = v.change.DCC /\ Figure(v, 30) = -v.change.DCC
           /\ Figure(v, 31) = v.change.DCC /\ Figure(v, 32) = -v.change.DCC
           /\ Figure(v, 33) = v.change.DCCIBNR /\ Figure(v, 34) = -v.change.DCCIBNR
           /\ Figure(v, 35) = v.change.DCCIBNR /\ Figure(v, 36) = -v.change.DCCIBNR
  BY DCCAt, FiguresAre, DrFigure, CrFigure

LEMMA AOEAt ==
    /\ Template[37] = Dr("602100", "aoePaid") /\ Template[38] = Cr("264400", "aoePaid")
    /\ Template[39] = Dr("125100", "aoePaid") /\ Template[40] = Cr("602300", "aoePaid")
    /\ Template[41] = Dr("558100", "AOE") /\ Template[42] = Cr("208100", "AOE")
    /\ Template[43] = Dr("208300", "AOE") /\ Template[44] = Cr("558300", "AOE")
    /\ Template[45] = Dr("558400", "AOEIBNR") /\ Template[46] = Cr("208400", "AOEIBNR")
    /\ Template[47] = Dr("208600", "AOEIBNR") /\ Template[48] = Cr("558600", "AOEIBNR")
<1>1. /\ AOERows[1] = Dr("602100", "aoePaid") /\ AOERows[2] = Cr("264400", "aoePaid")
      /\ AOERows[3] = Dr("125100", "aoePaid") /\ AOERows[4] = Cr("602300", "aoePaid")
      /\ AOERows[5] = Dr("558100", "AOE") /\ AOERows[6] = Cr("208100", "AOE")
      /\ AOERows[7] = Dr("208300", "AOE") /\ AOERows[8] = Cr("558300", "AOE")
      /\ AOERows[9] = Dr("558400", "AOEIBNR") /\ AOERows[10] = Cr("208400", "AOEIBNR")
      /\ AOERows[11] = Dr("208600", "AOEIBNR") /\ AOERows[12] = Cr("558600", "AOEIBNR")
    BY DEF AOERows
<1>2. \A i \in 37 .. 48 : Template[i] = AOERows[i - 36]
    BY TemplateIs, Zenon
<1>3. /\ Template[37] = AOERows[1] /\ Template[38] = AOERows[2] /\ Template[39] = AOERows[3]
      /\ Template[40] = AOERows[4] /\ Template[41] = AOERows[5] /\ Template[42] = AOERows[6]
      /\ Template[43] = AOERows[7] /\ Template[44] = AOERows[8] /\ Template[45] = AOERows[9]
      /\ Template[46] = AOERows[10] /\ Template[47] = AOERows[11] /\ Template[48] = AOERows[12]
    BY <1>2
<1>. QED
    BY <1>1, <1>3

LEMMA AOEAccounts ==
    /\ Template[37].account = "602100" /\ Template[38].account = "264400"
    /\ Template[39].account = "125100" /\ Template[40].account = "602300"
    /\ Template[41].account = "558100" /\ Template[42].account = "208100"
    /\ Template[43].account = "208300" /\ Template[44].account = "558300"
    /\ Template[45].account = "558400" /\ Template[46].account = "208400"
    /\ Template[47].account = "208600" /\ Template[48].account = "558600"
  BY AOEAt DEF Dr, Cr

LEMMA AOEFigures ==
    ASSUME NEW v, IntValues(v)
    PROVE  /\ Figure(v, 37) = v.aoePaid /\ Figure(v, 38) = -v.aoePaid
           /\ Figure(v, 39) = v.aoePaid /\ Figure(v, 40) = -v.aoePaid
           /\ Figure(v, 41) = v.change.AOE /\ Figure(v, 42) = -v.change.AOE
           /\ Figure(v, 43) = v.change.AOE /\ Figure(v, 44) = -v.change.AOE
           /\ Figure(v, 45) = v.change.AOEIBNR /\ Figure(v, 46) = -v.change.AOEIBNR
           /\ Figure(v, 47) = v.change.AOEIBNR /\ Figure(v, 48) = -v.change.AOEIBNR
  BY AOEAt, FiguresAre, DrFigure, CrFigure

LEMMA ULAEAt ==
    /\ Template[49] = Dr("603100", "ulaePaid") /\ Template[50] = Cr("264400", "ulaePaid")
    /\ Template[51] = Dr("125100", "ulaePaid") /\ Template[52] = Cr("603300", "ulaePaid")
    /\ Template[53] = Dr("559400", "ULAEIBNR") /\ Template[54] = Cr("209400", "ULAEIBNR")
    /\ Template[55] = Dr("209600", "ULAEIBNR") /\ Template[56] = Cr("559600", "ULAEIBNR")
<1>1. /\ ULAERows[1] = Dr("603100", "ulaePaid") /\ ULAERows[2] = Cr("264400", "ulaePaid")
      /\ ULAERows[3] = Dr("125100", "ulaePaid") /\ ULAERows[4] = Cr("603300", "ulaePaid")
      /\ ULAERows[5] = Dr("559400", "ULAEIBNR") /\ ULAERows[6] = Cr("209400", "ULAEIBNR")
      /\ ULAERows[7] = Dr("209600", "ULAEIBNR") /\ ULAERows[8] = Cr("559600", "ULAEIBNR")
    BY DEF ULAERows
<1>2. \A i \in 49 .. 56 : Template[i] = ULAERows[i - 48]
    BY TemplateIs, Zenon
<1>3. /\ Template[49] = ULAERows[1] /\ Template[50] = ULAERows[2] /\ Template[51] = ULAERows[3]
      /\ Template[52] = ULAERows[4] /\ Template[53] = ULAERows[5] /\ Template[54] = ULAERows[6]
      /\ Template[55] = ULAERows[7] /\ Template[56] = ULAERows[8]
    BY <1>2
<1>. QED
    BY <1>1, <1>3

LEMMA ULAEAccounts ==
    /\ Template[49].account = "603100" /\ Template[50].account = "264400"
    /\ Template[51].account = "125100" /\ Template[52].account = "603300"
    /\ Template[53].account = "559400" /\ Template[54].account = "209400"
    /\ Template[55].account = "209600" /\ Template[56].account = "559600"
  BY ULAEAt DEF Dr, Cr

LEMMA ULAEFigures ==
    ASSUME NEW v, IntValues(v)
    PROVE  /\ Figure(v, 49) = v.ulaePaid /\ Figure(v, 50) = -v.ulaePaid
           /\ Figure(v, 51) = v.ulaePaid /\ Figure(v, 52) = -v.ulaePaid
           /\ Figure(v, 53) = v.change.ULAEIBNR /\ Figure(v, 54) = -v.change.ULAEIBNR
           /\ Figure(v, 55) = v.change.ULAEIBNR /\ Figure(v, 56) = -v.change.ULAEIBNR
  BY ULAEAt, FiguresAre, DrFigure, CrFigure

LEMMA FeeAt ==
    /\ Template[57] = Dr("127100", "boardsCharge") /\ Template[58] = Cr("500300", "boardsCharge")
    /\ Template[59] = Cr("500300", "boardsUEP") /\ Template[60] = Dr("243200", "boardsUEP")
    /\ Template[61] = Dr("243100", "lossRatioCap") /\ Template[62] = Cr("500300", "lossRatioCap")
    /\ Template[63] = Cr("500300", "lossRatioCapUEP") /\ Template[64] = Dr("243200", "lossRatioCapUEP")
    /\ Template[65] = Dr("160400", "frontingFee") /\ Template[66] = Cr("500110", "frontingFee")
    /\ Template[67] = Cr("500110", "frontingFeeUEP") /\ Template[68] = Dr("243200", "frontingFeeUEP")
<1>1. /\ FeeRows[1] = Dr("127100", "boardsCharge") /\ FeeRows[2] = Cr("500300", "boardsCharge")
      /\ FeeRows[3] = Cr("500300", "boardsUEP") /\ FeeRows[4] = Dr("243200", "boardsUEP")
      /\ FeeRows[5] = Dr("243100", "lossRatioCap") /\ FeeRows[6] = Cr("500300", "lossRatioCap")
      /\ FeeRows[7] = Cr("500300", "lossRatioCapUEP") /\ FeeRows[8] = Dr("243200", "lossRatioCapUEP")
      /\ FeeRows[9] = Dr("160400", "frontingFee") /\ FeeRows[10] = Cr("500110", "frontingFee")
      /\ FeeRows[11] = Cr("500110", "frontingFeeUEP") /\ FeeRows[12] = Dr("243200", "frontingFeeUEP")
    BY DEF FeeRows
<1>2. \A i \in 57 .. 68 : Template[i] = FeeRows[i - 56]
    BY TemplateIs, Zenon
<1>3. /\ Template[57] = FeeRows[1] /\ Template[58] = FeeRows[2] /\ Template[59] = FeeRows[3]
      /\ Template[60] = FeeRows[4] /\ Template[61] = FeeRows[5] /\ Template[62] = FeeRows[6]
      /\ Template[63] = FeeRows[7] /\ Template[64] = FeeRows[8] /\ Template[65] = FeeRows[9]
      /\ Template[66] = FeeRows[10] /\ Template[67] = FeeRows[11] /\ Template[68] = FeeRows[12]
    BY <1>2
<1>. QED
    BY <1>1, <1>3

LEMMA FeeAccounts ==
    /\ Template[57].account = "127100" /\ Template[58].account = "500300"
    /\ Template[59].account = "500300" /\ Template[60].account = "243200"
    /\ Template[61].account = "243100" /\ Template[62].account = "500300"
    /\ Template[63].account = "500300" /\ Template[64].account = "243200"
    /\ Template[65].account = "160400" /\ Template[66].account = "500110"
    /\ Template[67].account = "500110" /\ Template[68].account = "243200"
  BY FeeAt DEF Dr, Cr

LEMMA FeeFigures ==
    ASSUME NEW v, IntValues(v)
    PROVE  /\ Figure(v, 57) = v.boardsCharge /\ Figure(v, 58) = -v.boardsCharge
           /\ Figure(v, 59) = -v.boardsUEP /\ Figure(v, 60) = v.boardsUEP
           /\ Figure(v, 61) = v.lossRatioCap /\ Figure(v, 62) = -v.lossRatioCap
           /\ Figure(v, 63) = -v.lossRatioCapUEP /\ Figure(v, 64) = v.lossRatioCapUEP
           /\ Figure(v, 65) = v.frontingFee /\ Figure(v, 66) = -v.frontingFee
           /\ Figure(v, 67) = -v.frontingFeeUEP /\ Figure(v, 68) = v.frontingFeeUEP
  BY FeeAt, FiguresAre, DrFigure, CrFigure

LEMMA ReinsurerRows == RowsOf({"243100", "125100", "127100"}) = {6, 11, 15, 27, 39, 51, 57, 61}
<1>1. \A i \in 1 .. 12 : Template[i].account \in {"243100", "125100", "127100"} <=> i \in {6, 11}
    <2>1. PICK A : A = {"243100", "125100", "127100"}
        OBVIOUS
    <2>2. /\ Template[1].account \notin A /\ Template[2].account \notin A
          /\ Template[3].account \notin A /\ Template[4].account \notin A
          /\ Template[5].account \notin A /\ Template[6].account \in A
          /\ Template[7].account \notin A /\ Template[8].account \notin A
          /\ Template[9].account \notin A /\ Template[10].account \notin A
          /\ Template[11].account \in A /\ Template[12].account \notin A
        BY <2>1, PremiumAccounts
    <2>3. \A i \in 1 .. 12 :
              i = 1 \/ i = 2 \/ i = 3 \/ i = 4 \/ i = 5 \/ i = 6 \/ i = 7 \/ i = 8 \/ i = 9 \/
              i = 10 \/ i = 11 \/ i = 12
        OBVIOUS
    <2>. QED
        BY <2>1, <2>2, <2>3
<1>2. \A i \in 13 .. 24 : Template[i].account \in {"243100", "125100", "127100"} <=> i \in {15}
    <2>1. PICK A : A = {"243100", "125100", "127100"}
        OBVIOUS
    <2>2. /\ Template[13].account \notin A /\ Template[14].account \notin A
          /\ Template[15].account \in A /\ Template[16].account \notin A
          /\ Template[17].account \notin A /\ Template[18].account \notin A
          /\ Template[19].account \notin A /\ Template[20].account \notin A
          /\ Template[21].account \notin A /\ Template[22].account \notin A
          /\ Template[23].account \notin A /\ Template[24].account \notin A
        BY <2>1, LossAccounts
    <2>3. \A i \in 13 .. 24 :
              i = 13 \/ i = 14 \/ i = 15 \/ i = 16 \/ i = 17 \/ i = 18 \/ i = 19 \/ i = 20 \/
              i = 21 \/ i = 22 \/ i = 23 \/ i = 24
        OBVIOUS
    <2>. QED
        BY <2>1, <2>2, <2>3
<1>3. \A i \in 25 .. 36 : Template[i].account \in {"243100", "125100", "127100"} <=> i \in {27}
    <2>1. PICK A : A = {"243100", "125100", "127100"}
        OBVIOUS
    <2>2. /\ Template[25].account \notin A /\ Template[26].account \notin A
          /\ Template[27].account \in A /\ Template[28].account \notin A
          /\ Template[29].account \notin A /\ Template[30].account \notin A
          /\ Template[31].account \notin A /\ Template[32].account \notin A
          /\ Template[33].account \notin A /\ Template[34].account \notin A
          /\ Template[35].account \notin A /\ Template[36].account \notin A
        BY <2>1, DCCAccounts
    <2>3. \A i \in 25 .. 36 :
              i = 25 \/ i = 26 \/ i = 27 \/ i = 28 \/ i = 29 \/ i = 30 \/ i = 31 \/ i = 32 \/
              i = 33 \/ i = 34 \/ i = 35 \/ i = 36
        OBVIOUS
    <2>. QED
        BY <2>1, <2>2, <2>3
<1>4. \A i \in 37 .. 48 : Template[i].account \in {"243100", "125100", "127100"} <=> i \in {39}
    <2>1. PICK A : A = {"243100", "125100", "127100"}
        OBVIOUS
    <2>2. /\ Template[37].account \notin A /\ Template[38].account \notin A
          /\ Template[39].account \in A /\ Template[40].account \notin A
          /\ Template[41].account \notin A /\ Template[42].account \notin A
          /\ Template[43].account \notin A /\ Template[44].account \notin A
          /\ Template[45].account \notin A /\ Template[46].account \notin A
          /\ Template[47].account \notin A /\ Template[48].account \notin A
        BY <2>1, AOEAccounts
    <2>3. \A i \in 37 .. 48 :
              i = 37 \/ i = 38 \/ i = 39 \/ i = 40 \/ i = 41 \/ i = 42 \/ i = 43 \/ i = 44 \/
              i = 45 \/ i = 46 \/ i = 47 \/ i = 48
        OBVIOUS
    <2>. QED
        BY <2>1, <2>2, <2>3
<1>5. \A i \in 49 .. 56 : Template[i].account \in {"243100", "125100", "127100"} <=> i \in {51}
    <2>1. PICK A : A = {"243100", "125100", "127100"}
        OBVIOUS
    <2>2. /\ Template[49].account \notin A /\ Template[50].account \notin A
          /\ Template[51].account \in A /\ Template[52].account \notin A
          /\ Template[53].account \notin A /\ Template[54].account \notin A
          /\ Template[55].account \notin A /\ Template[56].account \notin A
        BY <2>1, ULAEAccounts
    <2>3. \A i \in 49 .. 56 :
              i = 49 \/ i = 50 \/ i = 51 \/ i = 52 \/ i = 53 \/ i = 54 \/ i = 55 \/ i = 56
        OBVIOUS
    <2>. QED
        BY <2>1, <2>2, <2>3
<1>6. \A i \in 57 .. 68 : Template[i].account \in {"243100", "125100", "127100"} <=> i \in {57, 61}
    <2>1. PICK A : A = {"243100", "125100", "127100"}
        OBVIOUS
    <2>2. /\ Template[57].account \in A /\ Template[58].account \notin A
          /\ Template[59].account \notin A /\ Template[60].account \notin A
          /\ Template[61].account \in A /\ Template[62].account \notin A
          /\ Template[63].account \notin A /\ Template[64].account \notin A
          /\ Template[65].account \notin A /\ Template[66].account \notin A
          /\ Template[67].account \notin A /\ Template[68].account \notin A
        BY <2>1, FeeAccounts
    <2>3. \A i \in 57 .. 68 :
              i = 57 \/ i = 58 \/ i = 59 \/ i = 60 \/ i = 61 \/ i = 62 \/ i = 63 \/ i = 64 \/
              i = 65 \/ i = 66 \/ i = 67 \/ i = 68
        OBVIOUS
    <2>. QED
        BY <2>1, <2>2, <2>3
<1>7. {6, 11, 15, 27, 39, 51, 57, 61}
        \subseteq 1 .. 68
    OBVIOUS
<1>8. \A i \in 1 .. 68 : \/ i \in 1 .. 12 \/ i \in 13 .. 24 \/ i \in 25 .. 36
                        \/ i \in 37 .. 48 \/ i \in 49 .. 56 \/ i \in 57 .. 68
    OBVIOUS
<1>9. ASSUME NEW i \in 1 .. 68
      PROVE  Template[i].account \in {"243100", "125100", "127100"} <=>
                 i \in {6, 11, 15, 27, 39, 51, 57, 61}
    <2>1. CASE i \in 1 .. 12
        BY <1>1, <2>1
    <2>2. CASE i \in 13 .. 24
        BY <1>2, <2>2
    <2>3. CASE i \in 25 .. 36
        BY <1>3, <2>3
    <2>4. CASE i \in 37 .. 48
        BY <1>4, <2>4
    <2>5. CASE i \in 49 .. 56
        BY <1>5, <2>5
    <2>6. CASE i \in 57 .. 68
        BY <1>6, <2>6
    <2>. QED
        BY <1>8, <2>1, <2>2, <2>3, <2>4, <2>5, <2>6
<1>. QED
    BY <1>7, <1>9, RowNumbers DEF RowsOf

LEMMA ReinsurerSum ==
    ASSUME NEW v, IntValues(v)
    PROVE  SumOver(FiguresOf(v), RowsOf({"243100", "125100", "127100"})) = -NetSettlement(v)
<1>1. PICK f : f = FiguresOf(v)
    OBVIOUS
<1>2. \A i \in TemplateRow : f[i] = Figure(v, i) /\ f[i] \in Int
    BY <1>1, FigureTypes DEF FiguresOf
<1>3. \A i \in 1 .. 68 : f[i] = Figure(v, i) /\ f[i] \in Int
    BY <1>2, RowNumbers
<1>4. PICK N : N = {}
    OBVIOUS
<1>5. IsFiniteSet(N) /\ (\A x \in N : f[x] \in Int) /\ SumOver(f, N) = 0
    BY <1>4, SumOfNone, FS_EmptySet
<1>6. PICK S0, a0, b0, c0, d0 : S0 = N \cup {a0, b0, c0, d0} /\ a0 = 6 /\ b0 = 11 /\ c0 = 15 /\ d0 = 27
    <2>1. PICK A0, B0, C0, D0 : A0 = 6 /\ B0 = 11 /\ C0 = 15 /\ D0 = 27
        OBVIOUS
    <2>2. \E S : S = N \cup {A0, B0, C0, D0}
        OBVIOUS
    <2>. QED
        BY <2>1, <2>2
<1>7. /\ a0 \notin N /\ b0 \notin N /\ c0 \notin N /\ d0 \notin N
      /\ a0 # b0 /\ a0 # c0 /\ a0 # d0 /\ b0 # c0 /\ b0 # d0 /\ c0 # d0
      /\ f[a0] \in Int /\ f[b0] \in Int /\ f[c0] \in Int /\ f[d0] \in Int
    BY <1>3, <1>4, <1>6
<1>8. /\ IsFiniteSet(S0) /\ (\A x \in S0 : f[x] \in Int)
      /\ SumOver(f, S0) = SumOver(f, N) + (f[a0] + f[b0] + f[c0] + f[d0])
    <2>1. /\ IsFiniteSet(N \cup {a0, b0, c0, d0})
          /\ (\A x \in N \cup {a0, b0, c0, d0} : f[x] \in Int)
          /\ SumOver(f, N \cup {a0, b0, c0, d0}) = SumOver(f, N) + (f[a0] + f[b0] + f[c0] + f[d0])
        BY <1>5, <1>7, SumFour
    <2>. QED
        BY <1>6, <2>1
<1>9. PICK S1, a1, b1, c1, d1 : S1 = S0 \cup {a1, b1, c1, d1} /\ a1 = 39 /\ b1 = 51 /\ c1 = 57 /\ d1 = 61
    <2>1. PICK A1, B1, C1, D1 : A1 = 39 /\ B1 = 51 /\ C1 = 57 /\ D1 = 61
        OBVIOUS
    <2>2. \E S : S = S0 \cup {A1, B1, C1, D1}
        OBVIOUS
    <2>. QED
        BY <2>1, <2>2
<1>10. /\ a1 \notin S0 /\ b1 \notin S0 /\ c1 \notin S0 /\ d1 \notin S0
       /\ a1 # b1 /\ a1 # c1 /\ a1 # d1 /\ b1 # c1 /\ b1 # d1 /\ c1 # d1
       /\ f[a1] \in Int /\ f[b1] \in Int /\ f[c1] \in Int /\ f[d1] \in Int
    BY <1>3, <1>4, <1>6, <1>9
<1>11. /\ IsFiniteSet(S1) /\ (\A x \in S1 : f[x] \in Int)
       /\ SumOver(f, S1) = SumOver(f, S0) + (f[a1] + f[b1] + f[c1] + f[d1])
    <2>1. /\ IsFiniteSet(S0 \cup {a1, b1, c1, d1})
          /\ (\A x \in S0 \cup {a1, b1, c1, d1} : f[x] \in Int)
          /\ SumOver(f, S0 \cup {a1, b1, c1, d1}) = SumOver(f, S0) + (f[a1] + f[b1] + f[c1] + f[d1])
        BY <1>8, <1>10, SumFour
    <2>. QED
        BY <1>9, <2>1
<1>12. S1 = RowsOf({"243100", "125100", "127100"})
    <2>1. S1 = {6, 11, 15, 27, 39, 51, 57, 61}
        BY <1>4, <1>6, <1>9
    <2>. QED
        BY <2>1, ReinsurerRows
<1>13. /\ f[a0] = -v.premiumWritten /\ f[b0] = v.cedingCommission
       /\ f[c0] = v.lossesPaid /\ f[d0] = v.dccPaid
    BY <1>3, <1>6, DCCFigures, LossFigures, PremiumFigures
<1>14. /\ f[a1] = v.aoePaid /\ f[b1] = v.ulaePaid
       /\ f[c1] = v.boardsCharge /\ f[d1] = v.lossRatioCap
    BY <1>3, <1>9, AOEFigures, FeeFigures, ULAEFigures
<1>15. PICK x0 \in Int, x1 \in Int, x2 \in Int, x3 \in Int, x4 \in Int, x5 \in Int, x6 \in Int, x7 \in Int :
           /\ x0 = v.premiumWritten /\ x1 = v.cedingCommission /\ x2 = v.lossesPaid
           /\ x3 = v.dccPaid /\ x4 = v.aoePaid /\ x5 = v.ulaePaid
           /\ x6 = v.boardsCharge /\ x7 = v.lossRatioCap
    BY DEF IntValues, IntReserve, Figures, Reserve
<1>16. SumOver(f, S1) = (0 + ((-x0) + x1 + x2 + x3)) + (x4 + x5 + x6 + x7)
    BY <1>5, <1>8, <1>11, <1>13, <1>14, <1>15
<1>17. -NetSettlement(v) =
           -(x0 - (x1 + x2 + x3 + x4 + x5) - x6 - x7)
    BY <1>15 DEF NetSettlement, NetSettlementFuturistic, PaidOut
<1>18. (0 + ((-x0) + x1 + x2 + x3)) + (x4 + x5 + x6 + x7) =
           -(x0 - (x1 + x2 + x3 + x4 + x5) - x6 - x7)
    OBVIOUS
<1>. QED
    BY <1>1, <1>12, <1>16, <1>17, <1>18

LEMMA AgentRows == RowsOf({"120100", "264400"}) = {1, 10, 14, 26, 38, 50}
<1>1. \A i \in 1 .. 12 : Template[i].account \in {"120100", "264400"} <=> i \in {1, 10}
    <2>1. PICK A : A = {"120100", "264400"}
        OBVIOUS
    <2>2. /\ Template[1].account \in A /\ Template[2].account \notin A
          /\ Template[3].account \notin A /\ Template[4].account \notin A
          /\ Template[5].account \notin A /\ Template[6].account \notin A
          /\ Template[7].account \notin A /\ Template[8].account \notin A
          /\ Template[9].account \notin A /\ Template[10].account \in A
          /\ Template[11].account \notin A /\ Template[12].account \notin A
        BY <2>1, PremiumAccounts
    <2>3. \A i \in 1 .. 12 :
              i = 1 \/ i = 2 \/ i = 3 \/ i = 4 \/ i = 5 \/ i = 6 \/ i = 7 \/ i = 8 \/ i = 9 \/
              i = 10 \/ i = 11 \/ i = 12
        OBVIOUS
    <2>. QED
        BY <2>1, <2>2, <2>3
<1>2. \A i \in 13 .. 24 : Template[i].account \in {"120100", "264400"} <=> i \in {14}
    <2>1. PICK A : A = {"120100", "264400"}
        OBVIOUS
    <2>2. /\ Template[13].account \notin A /\ Template[14].account \in A
          /\ Template[15].account \notin A /\ Template[16].account \notin A
          /\ Template[17].account \notin A /\ Template[18].account \notin A
          /\ Template[19].account \notin A /\ Template[20].account \notin A
          /\ Template[21].account \notin A /\ Template[22].account \notin A
          /\ Template[23].account \notin A /\ Template[24].account \notin A
        BY <2>1, LossAccounts
    <2>3. \A i \in 13 .. 24 :
              i = 13 \/ i = 14 \/ i = 15 \/ i = 16 \/ i = 17 \/ i = 18 \/ i = 19 \/ i = 20 \/
              i = 21 \/ i = 22 \/ i = 23 \/ i = 24
        OBVIOUS
    <2>. QED
        BY <2>1, <2>2, <2>3
<1>3. \A i \in 25 .. 36 : Template[i].account \in {"120100", "264400"} <=> i \in {26}
    <2>1. PICK A : A = {"120100", "264400"}
        OBVIOUS
    <2>2. /\ Template[25].account \notin A /\ Template[26].account \in A
          /\ Template[27].account \notin A /\ Template[28].account \notin A
          /\ Template[29].account \notin A /\ Template[30].account \notin A
          /\ Template[31].account \notin A /\ Template[32].account \notin A
          /\ Template[33].account \notin A /\ Template[34].account \notin A
          /\ Template[35].account \notin A /\ Template[36].account \notin A
        BY <2>1, DCCAccounts
    <2>3. \A i \in 25 .. 36 :
              i = 25 \/ i = 26 \/ i = 27 \/ i = 28 \/ i = 29 \/ i = 30 \/ i = 31 \/ i = 32 \/
              i = 33 \/ i = 34 \/ i = 35 \/ i = 36
        OBVIOUS
    <2>. QED
        BY <2>1, <2>2, <2>3
<1>4. \A i \in 37 .. 48 : Template[i].account \in {"120100", "264400"} <=> i \in {38}
    <2>1. PICK A : A = {"120100", "264400"}
        OBVIOUS
    <2>2. /\ Template[37].account \notin A /\ Template[38].account \in A
          /\ Template[39].account \notin A /\ Template[40].account \notin A
          /\ Template[41].account \notin A /\ Template[42].account \notin A
          /\ Template[43].account \notin A /\ Template[44].account \notin A
          /\ Template[45].account \notin A /\ Template[46].account \notin A
          /\ Template[47].account \notin A /\ Template[48].account \notin A
        BY <2>1, AOEAccounts
    <2>3. \A i \in 37 .. 48 :
              i = 37 \/ i = 38 \/ i = 39 \/ i = 40 \/ i = 41 \/ i = 42 \/ i = 43 \/ i = 44 \/
              i = 45 \/ i = 46 \/ i = 47 \/ i = 48
        OBVIOUS
    <2>. QED
        BY <2>1, <2>2, <2>3
<1>5. \A i \in 49 .. 56 : Template[i].account \in {"120100", "264400"} <=> i \in {50}
    <2>1. PICK A : A = {"120100", "264400"}
        OBVIOUS
    <2>2. /\ Template[49].account \notin A /\ Template[50].account \in A
          /\ Template[51].account \notin A /\ Template[52].account \notin A
          /\ Template[53].account \notin A /\ Template[54].account \notin A
          /\ Template[55].account \notin A /\ Template[56].account \notin A
        BY <2>1, ULAEAccounts
    <2>3. \A i \in 49 .. 56 :
              i = 49 \/ i = 50 \/ i = 51 \/ i = 52 \/ i = 53 \/ i = 54 \/ i = 55 \/ i = 56
        OBVIOUS
    <2>. QED
        BY <2>1, <2>2, <2>3
<1>6. \A i \in 57 .. 68 : Template[i].account \in {"120100", "264400"} <=> i \in {}
    <2>1. PICK A : A = {"120100", "264400"}
        OBVIOUS
    <2>2. /\ Template[57].account \notin A /\ Template[58].account \notin A
          /\ Template[59].account \notin A /\ Template[60].account \notin A
          /\ Template[61].account \notin A /\ Template[62].account \notin A
          /\ Template[63].account \notin A /\ Template[64].account \notin A
          /\ Template[65].account \notin A /\ Template[66].account \notin A
          /\ Template[67].account \notin A /\ Template[68].account \notin A
        BY <2>1, FeeAccounts
    <2>3. \A i \in 57 .. 68 :
              i = 57 \/ i = 58 \/ i = 59 \/ i = 60 \/ i = 61 \/ i = 62 \/ i = 63 \/ i = 64 \/
              i = 65 \/ i = 66 \/ i = 67 \/ i = 68
        OBVIOUS
    <2>. QED
        BY <2>1, <2>2, <2>3
<1>7. {1, 10, 14, 26, 38, 50}
        \subseteq 1 .. 68
    OBVIOUS
<1>8. \A i \in 1 .. 68 : \/ i \in 1 .. 12 \/ i \in 13 .. 24 \/ i \in 25 .. 36
                        \/ i \in 37 .. 48 \/ i \in 49 .. 56 \/ i \in 57 .. 68
    OBVIOUS
<1>9. ASSUME NEW i \in 1 .. 68
      PROVE  Template[i].account \in {"120100", "264400"} <=>
                 i \in {1, 10, 14, 26, 38, 50}
    <2>1. CASE i \in 1 .. 12
        BY <1>1, <2>1
    <2>2. CASE i \in 13 .. 24
        BY <1>2, <2>2
    <2>3. CASE i \in 25 .. 36
        BY <1>3, <2>3
    <2>4. CASE i \in 37 .. 48
        BY <1>4, <2>4
    <2>5. CASE i \in 49 .. 56
        BY <1>5, <2>5
    <2>6. CASE i \in 57 .. 68
        BY <1>6, <2>6
    <2>. QED
        BY <1>8, <2>1, <2>2, <2>3, <2>4, <2>5, <2>6
<1>. QED
    BY <1>7, <1>9, RowNumbers DEF RowsOf

LEMMA AgentSum ==
    ASSUME NEW v, IntValues(v)
    PROVE  SumOver(FiguresOf(v), RowsOf({"120100", "264400"})) = NetSettlementFuturistic(v)
<1>1. PICK f : f = FiguresOf(v)
    OBVIOUS
<1>2. \A i \in TemplateRow : f[i] = Figure(v, i) /\ f[i] \in Int
    BY <1>1, FigureTypes DEF FiguresOf
<1>3. \A i \in 1 .. 68 : f[i] = Figure(v, i) /\ f[i] \in Int
    BY <1>2, RowNumbers
<1>4. PICK N : N = {}
    OBVIOUS
<1>5. IsFiniteSet(N) /\ (\A x \in N : f[x] \in Int) /\ SumOver(f, N) = 0
    BY <1>4, SumOfNone, FS_EmptySet
<1>6. PICK S0, a0, b0, c0, d0 : S0 = N \cup {a0, b0, c0, d0} /\ a0 = 1 /\ b0 = 10 /\ c0 = 14 /\ d0 = 26
    <2>1. PICK A0, B0, C0, D0 : A0 = 1 /\ B0 = 10 /\ C0 = 14 /\ D0 = 26
        OBVIOUS
    <2>2. \E S : S = N \cup {A0, B0, C0, D0}
        OBVIOUS
    <2>. QED
        BY <2>1, <2>2
<1>7. /\ a0 \notin N /\ b0 \notin N /\ c0 \notin N /\ d0 \notin N
      /\ a0 # b0 /\ a0 # c0 /\ a0 # d0 /\ b0 # c0 /\ b0 # d0 /\ c0 # d0
      /\ f[a0] \in Int /\ f[b0] \in Int /\ f[c0] \in Int /\ f[d0] \in Int
    BY <1>3, <1>4, <1>6
<1>8. /\ IsFiniteSet(S0) /\ (\A x \in S0 : f[x] \in Int)
      /\ SumOver(f, S0) = SumOver(f, N) + (f[a0] + f[b0] + f[c0] + f[d0])
    <2>1. /\ IsFiniteSet(N \cup {a0, b0, c0, d0})
          /\ (\A x \in N \cup {a0, b0, c0, d0} : f[x] \in Int)
          /\ SumOver(f, N \cup {a0, b0, c0, d0}) = SumOver(f, N) + (f[a0] + f[b0] + f[c0] + f[d0])
        BY <1>5, <1>7, SumFour
    <2>. QED
        BY <1>6, <2>1
<1>9. PICK S1, a1 : S1 = S0 \cup {a1} /\ a1 = 38
    <2>1. PICK A1 : A1 = 38
        OBVIOUS
    <2>2. \E S : S = S0 \cup {A1}
        OBVIOUS
    <2>. QED
        BY <2>1, <2>2
<1>10. /\ a1 \notin S0
       /\ f[a1] \in Int
    BY <1>3, <1>4, <1>6, <1>9
<1>11. /\ IsFiniteSet(S1) /\ (\A x \in S1 : f[x] \in Int)
       /\ SumOver(f, S1) = SumOver(f, S0) + f[a1]
    <2>1. /\ IsFiniteSet(S0 \cup {a1})
          /\ (\A x \in S0 \cup {a1} : f[x] \in Int)
          /\ SumOver(f, S0 \cup {a1}) = SumOver(f, S0) + f[a1]
        BY <1>8, <1>10, SumPlus
    <2>. QED
        BY <1>9, <2>1
<1>12. PICK S2, a2 : S2 = S1 \cup {a2} /\ a2 = 50
    <2>1. PICK A2 : A2 = 50
        OBVIOUS
    <2>2. \E S : S = S1 \cup {A2}
        OBVIOUS
    <2>. QED
        BY <2>1, <2>2
<1>13. /\ a2 \notin S1
       /\ f[a2] \in Int
    BY <1>3, <1>4, <1>6, <1>9, <1>12
<1>14. /\ IsFiniteSet(S2) /\ (\A x \in S2 : f[x] \in Int)
       /\ SumOver(f, S2) = SumOver(f, S1) + f[a2]
    <2>1. /\ IsFiniteSet(S1 \cup {a2})
          /\ (\A x \in S1 \cup {a2} : f[x] \in Int)
          /\ SumOver(f, S1 \cup {a2}) = SumOver(f, S1) + f[a2]
        BY <1>11, <1>13, SumPlus
    <2>. QED
        BY <1>12, <2>1
<1>15. S2 = RowsOf({"120100", "264400"})
    <2>1. S2 = {1, 10, 14, 26, 38, 50}
        BY <1>4, <1>6, <1>9, <1>12
    <2>. QED
        BY <2>1, AgentRows
<1>16. /\ f[a0] = v.premiumWritten /\ f[b0] = -v.cedingCommission
       /\ f[c0] = -v.lossesPaid /\ f[d0] = -v.dccPaid
    BY <1>3, <1>6, DCCFigures, LossFigures, PremiumFigures
<1>17. /\ f[a1] = -v.aoePaid
    BY <1>3, <1>9, AOEFigures
<1>18. /\ f[a2] = -v.ulaePaid
    BY <1>3, <1>12, ULAEFigures
<1>19. PICK x0 \in Int, x1 \in Int, x2 \in Int, x3 \in Int, x4 \in Int, x5 \in Int :
           /\ x0 = v.premiumWritten /\ x1 = v.cedingCommission /\ x2 = v.lossesPaid
           /\ x3 = v.dccPaid /\ x4 = v.aoePaid /\ x5 = v.ulaePaid
    BY DEF IntValues, IntReserve, Figures, Reserve
<1>20. SumOver(f, S2) = ((0 + (x0 + (-x1) + (-x2) + (-x3))) + ((-x4))) + ((-x5))
    BY <1>5, <1>8, <1>11, <1>14, <1>16, <1>17, <1>18, <1>19
<1>21. NetSettlementFuturistic(v) =
           x0 - (x1 + x2 + x3 + x4 + x5)
    BY <1>19 DEF NetSettlementFuturistic, PaidOut
<1>22. ((0 + (x0 + (-x1) + (-x2) + (-x3))) + ((-x4))) + ((-x5)) =
           x0 - (x1 + x2 + x3 + x4 + x5)
    OBVIOUS
<1>. QED
    BY <1>1, <1>15, <1>20, <1>21, <1>22

LEMMA CededRows == RowsOf(Ceded) = {5, 8, 12, 16, 20, 24, 28, 32, 36, 40, 44, 48, 52, 56, 58, 59, 62, 63}
<1>1. \A i \in 1 .. 12 : Template[i].account \in Ceded <=> i \in {5, 8, 12}
    <2>2. /\ Template[1].account \notin Ceded /\ Template[2].account \notin Ceded
          /\ Template[3].account \notin Ceded /\ Template[4].account \notin Ceded
          /\ Template[5].account \in Ceded /\ Template[6].account \notin Ceded
          /\ Template[7].account \notin Ceded /\ Template[8].account \in Ceded
          /\ Template[9].account \notin Ceded /\ Template[10].account \notin Ceded
          /\ Template[11].account \notin Ceded /\ Template[12].account \in Ceded
        BY PremiumAccounts DEF Ceded
    <2>3. \A i \in 1 .. 12 :
              i = 1 \/ i = 2 \/ i = 3 \/ i = 4 \/ i = 5 \/ i = 6 \/ i = 7 \/ i = 8 \/ i = 9 \/
              i = 10 \/ i = 11 \/ i = 12
        OBVIOUS
    <2>. QED
        BY <2>2, <2>3
<1>2. \A i \in 13 .. 24 : Template[i].account \in Ceded <=> i \in {16, 20, 24}
    <2>2. /\ Template[13].account \notin Ceded /\ Template[14].account \notin Ceded
          /\ Template[15].account \notin Ceded /\ Template[16].account \in Ceded
          /\ Template[17].account \notin Ceded /\ Template[18].account \notin Ceded
          /\ Template[19].account \notin Ceded /\ Template[20].account \in Ceded
          /\ Template[21].account \notin Ceded /\ Template[22].account \notin Ceded
          /\ Template[23].account \notin Ceded /\ Template[24].account \in Ceded
        BY LossAccounts DEF Ceded
    <2>3. \A i \in 13 .. 24 :
              i = 13 \/ i = 14 \/ i = 15 \/ i = 16 \/ i = 17 \/ i = 18 \/ i = 19 \/ i = 20 \/
              i = 21 \/ i = 22 \/ i = 23 \/ i = 24
        OBVIOUS
    <2>. QED
        BY <2>2, <2>3
<1>3. \A i \in 25 .. 36 : Template[i].account \in Ceded <=> i \in {28, 32, 36}
    <2>2. /\ Template[25].account \notin Ceded /\ Template[26].account \notin Ceded
          /\ Template[27].account \notin Ceded /\ Template[28].account \in Ceded
          /\ Template[29].account \notin Ceded /\ Template[30].account \notin Ceded
          /\ Template[31].account \notin Ceded /\ Template[32].account \in Ceded
          /\ Template[33].account \notin Ceded /\ Template[34].account \notin Ceded
          /\ Template[35].account \notin Ceded /\ Template[36].account \in Ceded
        BY DCCAccounts DEF Ceded
    <2>3. \A i \in 25 .. 36 :
              i = 25 \/ i = 26 \/ i = 27 \/ i = 28 \/ i = 29 \/ i = 30 \/ i = 31 \/ i = 32 \/
              i = 33 \/ i = 34 \/ i = 35 \/ i = 36
        OBVIOUS
    <2>. QED
        BY <2>2, <2>3
<1>4. \A i \in 37 .. 48 : Template[i].account \in Ceded <=> i \in {40, 44, 48}
    <2>2. /\ Template[37].account \notin Ceded /\ Template[38].account \notin Ceded
          /\ Template[39].account \notin Ceded /\ Template[40].account \in Ceded
          /\ Template[41].account \notin Ceded /\ Template[42].account \notin Ceded
          /\ Template[43].account \notin Ceded /\ Template[44].account \in Ceded
          /\ Template[45].account \notin Ceded /\ Template[46].account \notin Ceded
          /\ Template[47].account \notin Ceded /\ Template[48].account \in Ceded
        BY AOEAccounts DEF Ceded
    <2>3. \A i \in 37 .. 48 :
              i = 37 \/ i = 38 \/ i = 39 \/ i = 40 \/ i = 41 \/ i = 42 \/ i = 43 \/ i = 44 \/
              i = 45 \/ i = 46 \/ i = 47 \/ i = 48
        OBVIOUS
    <2>. QED
        BY <2>2, <2>3
<1>5. \A i \in 49 .. 56 : Template[i].account \in Ceded <=> i \in {52, 56}
    <2>2. /\ Template[49].account \notin Ceded /\ Template[50].account \notin Ceded
          /\ Template[51].account \notin Ceded /\ Template[52].account \in Ceded
          /\ Template[53].account \notin Ceded /\ Template[54].account \notin Ceded
          /\ Template[55].account \notin Ceded /\ Template[56].account \in Ceded
        BY ULAEAccounts DEF Ceded
    <2>3. \A i \in 49 .. 56 :
              i = 49 \/ i = 50 \/ i = 51 \/ i = 52 \/ i = 53 \/ i = 54 \/ i = 55 \/ i = 56
        OBVIOUS
    <2>. QED
        BY <2>2, <2>3
<1>6. \A i \in 57 .. 68 : Template[i].account \in Ceded <=> i \in {58, 59, 62, 63}
    <2>2. /\ Template[57].account \notin Ceded /\ Template[58].account \in Ceded
          /\ Template[59].account \in Ceded /\ Template[60].account \notin Ceded
          /\ Template[61].account \notin Ceded /\ Template[62].account \in Ceded
          /\ Template[63].account \in Ceded /\ Template[64].account \notin Ceded
          /\ Template[65].account \notin Ceded /\ Template[66].account \notin Ceded
          /\ Template[67].account \notin Ceded /\ Template[68].account \notin Ceded
        BY FeeAccounts DEF Ceded
    <2>3. \A i \in 57 .. 68 :
              i = 57 \/ i = 58 \/ i = 59 \/ i = 60 \/ i = 61 \/ i = 62 \/ i = 63 \/ i = 64 \/
              i = 65 \/ i = 66 \/ i = 67 \/ i = 68
        OBVIOUS
    <2>. QED
        BY <2>2, <2>3
<1>7. {5, 8, 12, 16, 20, 24, 28, 32, 36, 40, 44, 48, 52, 56, 58, 59, 62, 63}
        \subseteq 1 .. 68
    OBVIOUS
<1>8. \A i \in 1 .. 68 : \/ i \in 1 .. 12 \/ i \in 13 .. 24 \/ i \in 25 .. 36
                        \/ i \in 37 .. 48 \/ i \in 49 .. 56 \/ i \in 57 .. 68
    OBVIOUS
<1>9. ASSUME NEW i \in 1 .. 68
      PROVE  Template[i].account \in Ceded <=>
                 i \in {5, 8, 12, 16, 20, 24, 28, 32, 36, 40, 44, 48, 52, 56, 58, 59, 62, 63}
    <2>1. CASE i \in 1 .. 12
        BY <1>1, <2>1
    <2>2. CASE i \in 13 .. 24
        BY <1>2, <2>2
    <2>3. CASE i \in 25 .. 36
        BY <1>3, <2>3
    <2>4. CASE i \in 37 .. 48
        BY <1>4, <2>4
    <2>5. CASE i \in 49 .. 56
        BY <1>5, <2>5
    <2>6. CASE i \in 57 .. 68
        BY <1>6, <2>6
    <2>. QED
        BY <1>8, <2>1, <2>2, <2>3, <2>4, <2>5, <2>6
<1>. QED
    BY <1>7, <1>9, RowNumbers DEF RowsOf

LEMMA CededSum ==
    ASSUME NEW v, IntValues(v)
    PROVE  SumOver(FiguresOf(v), RowsOf(Ceded)) = TotalProfit(v)
<1>1. PICK f : f = FiguresOf(v)
    OBVIOUS
<1>2. \A i \in TemplateRow : f[i] = Figure(v, i) /\ f[i] \in Int
    BY <1>1, FigureTypes DEF FiguresOf
<1>3. \A i \in 1 .. 68 : f[i] = Figure(v, i) /\ f[i] \in Int
    BY <1>2, RowNumbers
<1>4. PICK N : N = {}
    OBVIOUS
<1>5. IsFiniteSet(N) /\ (\A x \in N : f[x] \in Int) /\ SumOver(f, N) = 0
    BY <1>4, SumOfNone, FS_EmptySet
<1>6. PICK S0, a0, b0, c0, d0 : S0 = N \cup {a0, b0, c0, d0} /\ a0 = 5 /\ b0 = 8 /\ c0 = 12 /\ d0 = 16
    <2>1. PICK A0, B0, C0, D0 : A0 = 5 /\ B0 = 8 /\ C0 = 12 /\ D0 = 16
        OBVIOUS
    <2>2. \E S : S = N \cup {A0, B0, C0, D0}
        OBVIOUS
    <2>. QED
        BY <2>1, <2>2
<1>7. /\ a0 \notin N /\ b0 \notin N /\ c0 \notin N /\ d0 \notin N
      /\ a0 # b0 /\ a0 # c0 /\ a0 # d0 /\ b0 # c0 /\ b0 # d0 /\ c0 # d0
      /\ f[a0] \in Int /\ f[b0] \in Int /\ f[c0] \in Int /\ f[d0] \in Int
    BY <1>3, <1>4, <1>6
<1>8. /\ IsFiniteSet(S0) /\ (\A x \in S0 : f[x] \in Int)
      /\ SumOver(f, S0) = SumOver(f, N) + (f[a0] + f[b0] + f[c0] + f[d0])
    <2>1. /\ IsFiniteSet(N \cup {a0, b0, c0, d0})
          /\ (\A x \in N \cup {a0, b0, c0, d0} : f[x] \in Int)
          /\ SumOver(f, N \cup {a0, b0, c0, d0}) = SumOver(f, N) + (f[a0] + f[b0] + f[c0] + f[d0])
        BY <1>5, <1>7, SumFour
    <2>. QED
        BY <1>6, <2>1
<1>9. PICK S1, a1, b1, c1, d1 : S1 = S0 \cup {a1, b1, c1, d1} /\ a1 = 20 /\ b1 = 24 /\ c1 = 28 /\ d1 = 32
    <2>1. PICK A1, B1, C1, D1 : A1 = 20 /\ B1 = 24 /\ C1 = 28 /\ D1 = 32
        OBVIOUS
    <2>2. \E S : S = S0 \cup {A1, B1, C1, D1}
        OBVIOUS
    <2>. QED
        BY <2>1, <2>2
<1>10. /\ a1 \notin S0 /\ b1 \notin S0 /\ c1 \notin S0 /\ d1 \notin S0
       /\ a1 # b1 /\ a1 # c1 /\ a1 # d1 /\ b1 # c1 /\ b1 # d1 /\ c1 # d1
       /\ f[a1] \in Int /\ f[b1] \in Int /\ f[c1] \in Int /\ f[d1] \in Int
    BY <1>3, <1>4, <1>6, <1>9
<1>11. /\ IsFiniteSet(S1) /\ (\A x \in S1 : f[x] \in Int)
       /\ SumOver(f, S1) = SumOver(f, S0) + (f[a1] + f[b1] + f[c1] + f[d1])
    <2>1. /\ IsFiniteSet(S0 \cup {a1, b1, c1, d1})
          /\ (\A x \in S0 \cup {a1, b1, c1, d1} : f[x] \in Int)
          /\ SumOver(f, S0 \cup {a1, b1, c1, d1}) = SumOver(f, S0) + (f[a1] + f[b1] + f[c1] + f[d1])
        BY <1>8, <1>10, SumFour
    <2>. QED
        BY <1>9, <2>1
<1>12. PICK S2, a2, b2, c2, d2 : S2 = S1 \cup {a2, b2, c2, d2} /\ a2 = 36 /\ b2 = 40 /\ c2 = 44 /\ d2 = 48
    <2>1. PICK A2, B2, C2, D2 : A2 = 36 /\ B2 = 40 /\ C2 = 44 /\ D2 = 48
        OBVIOUS
    <2>2. \E S : S = S1 \cup {A2, B2, C2, D2}
        OBVIOUS
    <2>. QED
        BY <2>1, <2>2
<1>13. /\ a2 \notin S1 /\ b2 \notin S1 /\ c2 \notin S1 /\ d2 \notin S1
       /\ a2 # b2 /\ a2 # c2 /\ a2 # d2 /\ b2 # c2 /\ b2 # d2 /\ c2 # d2
       /\ f[a2] \in Int /\ f[b2] \in Int /\ f[c2] \in Int /\ f[d2] \in Int
    BY <1>3, <1>4, <1>6, <1>9, <1>12
<1>14. /\ IsFiniteSet(S2) /\ (\A x \in S2 : f[x] \in Int)
       /\ SumOver(f, S2) = SumOver(f, S1) + (f[a2] + f[b2] + f[c2] + f[d2])
    <2>1. /\ IsFiniteSet(S1 \cup {a2, b2, c2, d2})
          /\ (\A x \in S1 \cup {a2, b2, c2, d2} : f[x] \in Int)
          /\ SumOver(f, S1 \cup {a2, b2, c2, d2}) = SumOver(f, S1) + (f[a2] + f[b2] + f[c2] + f[d2])
        BY <1>11, <1>13, SumFour
    <2>. QED
        BY <1>12, <2>1
<1>15. PICK S3, a3, b3, c3, d3 : S3 = S2 \cup {a3, b3, c3, d3} /\ a3 = 52 /\ b3 = 56 /\ c3 = 58 /\ d3 = 59
    <2>1. PICK A3, B3, C3, D3 : A3 = 52 /\ B3 = 56 /\ C3 = 58 /\ D3 = 59
        OBVIOUS
    <2>2. \E S : S = S2 \cup {A3, B3, C3, D3}
        OBVIOUS
    <2>. QED
        BY <2>1, <2>2
<1>16. /\ a3 \notin S2 /\ b3 \notin S2 /\ c3 \notin S2 /\ d3 \notin S2
       /\ a3 # b3 /\ a3 # c3 /\ a3 # d3 /\ b3 # c3 /\ b3 # d3 /\ c3 # d3
       /\ f[a3] \in Int /\ f[b3] \in Int /\ f[c3] \in Int /\ f[d3] \in Int
    BY <1>3, <1>4, <1>6, <1>9, <1>12, <1>15
<1>17. /\ IsFiniteSet(S3) /\ (\A x \in S3 : f[x] \in Int)
       /\ SumOver(f, S3) = SumOver(f, S2) + (f[a3] + f[b3] + f[c3] + f[d3])
    <2>1. /\ IsFiniteSet(S2 \cup {a3, b3, c3, d3})
          /\ (\A x \in S2 \cup {a3, b3, c3, d3} : f[x] \in Int)
          /\ SumOver(f, S2 \cup {a3, b3, c3, d3}) = SumOver(f, S2) + (f[a3] + f[b3] + f[c3] + f[d3])
        BY <1>14, <1>16, SumFour
    <2>. QED
        BY <1>15, <2>1
<1>18. PICK S4, a4 : S4 = S3 \cup {a4} /\ a4 = 62
    <2>1. PICK A4 : A4 = 62
        OBVIOUS
    <2>2. \E S : S = S3 \cup {A4}
        OBVIOUS
    <2>. QED
        BY <2>1, <2>2
<1>19. /\ a4 \notin S3
       /\ f[a4] \in Int
    BY <1>3, <1>4, <1>6, <1>9, <1>12, <1>15, <1>18
<1>20. /\ IsFiniteSet(S4) /\ (\A x \in S4 : f[x] \in Int)
       /\ SumOver(f, S4) = SumOver(f, S3) + f[a4]
    <2>1. /\ IsFiniteSet(S3 \cup {a4})
          /\ (\A x \in S3 \cup {a4} : f[x] \in Int)
          /\ SumOver(f, S3 \cup {a4}) = SumOver(f, S3) + f[a4]
        BY <1>17, <1>19, SumPlus
    <2>. QED
        BY <1>18, <2>1
<1>21. PICK S5, a5 : S5 = S4 \cup {a5} /\ a5 = 63
    <2>1. PICK A5 : A5 = 63
        OBVIOUS
    <2>2. \E S : S = S4 \cup {A5}
        OBVIOUS
    <2>. QED
        BY <2>1, <2>2
<1>22. /\ a5 \notin S4
       /\ f[a5] \in Int
    BY <1>3, <1>4, <1>6, <1>9, <1>12, <1>15, <1>18, <1>21
<1>23. /\ IsFiniteSet(S5) /\ (\A x \in S5 : f[x] \in Int)
       /\ SumOver(f, S5) = SumOver(f, S4) + f[a5]
    <2>1. /\ IsFiniteSet(S4 \cup {a5})
          /\ (\A x \in S4 \cup {a5} : f[x] \in Int)
          /\ SumOver(f, S4 \cup {a5}) = SumOver(f, S4) + f[a5]
        BY <1>20, <1>22, SumPlus
    <2>. QED
        BY <1>21, <2>1
<1>24. S5 = RowsOf(Ceded)
    <2>1. S5 = {5, 8, 12, 16, 20, 24, 28, 32, 36, 40, 44, 48, 52, 56, 58, 59, 62, 63}
        BY <1>4, <1>6, <1>9, <1>12, <1>15, <1>18, <1>21
    <2>. QED
        BY <2>1, CededRows
<1>25. /\ f[a0] = v.premiumWritten /\ f[b0] = v.changeUEP
       /\ f[c0] = -v.cedingCommission /\ f[d0] = -v.lossesPaid
    BY <1>3, <1>6, LossFigures, PremiumFigures
<1>26. /\ f[a1] = -v.change.Loss /\ f[b1] = -v.change.LossIBNR
       /\ f[c1] = -v.dccPaid /\ f[d1] = -v.change.DCC
    BY <1>3, <1>9, DCCFigures, LossFigures
<1>27. /\ f[a2] = -v.change.DCCIBNR /\ f[b2] = -v.aoePaid
       /\ f[c2] = -v.change.AOE /\ f[d2] = -v.change.AOEIBNR
    BY <1>3, <1>12, AOEFigures, DCCFigures
<1>28. /\ f[a3] = -v.ulaePaid /\ f[b3] = -v.change.ULAEIBNR
       /\ f[c3] = -v.boardsCharge /\ f[d3] = -v.boardsUEP
    BY <1>3, <1>15, FeeFigures, ULAEFigures
<1>29. /\ f[a4] = -v.lossRatioCap
    BY <1>3, <1>18, FeeFigures
<1>30. /\ f[a5] = -v.lossRatioCapUEP
    BY <1>3, <1>21, FeeFigures
<1>31. PICK x0 \in Int, x1 \in Int, x2 \in Int, x3 \in Int, x4 \in Int, x5 \in Int, x6 \in Int, x7 \in Int,
          x8 \in Int, x9 \in Int, x10 \in Int, x11 \in Int, x12 \in Int, x13 \in Int, x14 \in Int,
          x15 \in Int, x16 \in Int, x17 \in Int :
           /\ x0 = v.premiumWritten /\ x1 = v.changeUEP /\ x2 = v.cedingCommission
           /\ x3 = v.lossesPaid /\ x4 = v.change.Loss /\ x5 = v.change.LossIBNR
           /\ x6 = v.dccPaid /\ x7 = v.change.DCC /\ x8 = v.change.DCCIBNR
           /\ x9 = v.aoePaid /\ x10 = v.change.AOE /\ x11 = v.change.AOEIBNR
           /\ x12 = v.ulaePaid /\ x13 = v.change.ULAEIBNR /\ x14 = v.boardsCharge
           /\ x15 = v.boardsUEP /\ x16 = v.lossRatioCap /\ x17 = v.lossRatioCapUEP
    BY DEF IntValues, IntReserve, Figures, Reserve
<1>32. SumOver(f, S5) =
           (((((0 + (x0 + x1 + (-x2) + (-x3))) + ((-x4) + (-x5) + (-x6) + (-x7)))
                + ((-x8) + (-x9) + (-x10) + (-x11))) + ((-x12) + (-x13) + (-x14) + (-x15)))
              + ((-x16))) + ((-x17))
    BY <1>5, <1>8, <1>11, <1>14, <1>17, <1>20, <1>23, <1>25, <1>26, <1>27, <1>28, <1>29, <1>30, <1>31
<1>33. TotalProfit(v) =
           x0 + x1 - x2
             - (x4 + x5 + x7 + x8 + x10 + x11 + x13
                  + x3 + x6 + x9 + x12)
             - (x14 + x15 + x16 + x17)
    <2>1. SumOver(v.change, Reserve) = x4 + x5 + x7 + x8 + x10 + x11 + x13
      <3>1. PICK c \in IntReserve : c = v.change
          BY DEF IntValues
      <3>2. SumOver(c, Reserve) = c.Loss + c.LossIBNR + c.DCC + c.DCCIBNR + c.AOE + c.AOEIBNR
                                    + c.ULAEIBNR
          BY ReserveSum
      <3>. QED
          BY <1>31, <3>1, <3>2
    <2>. QED
        BY <1>31, <2>1 DEF TotalProfit, Incurred, OtherExpenses
<1>34.
           (((((0 + (x0 + x1 + (-x2) + (-x3))) + ((-x4) + (-x5) + (-x6) + (-x7)))
                + ((-x8) + (-x9) + (-x10) + (-x11))) + ((-x12) + (-x13) + (-x14) + (-x15)))
              + ((-x16))) + ((-x17)) =
           x0 + x1 - x2
             - (x4 + x5 + x7 + x8 + x10 + x11 + x13
                  + x3 + x6 + x9 + x12)
             - (x14 + x15 + x16 + x17)
    OBVIOUS
<1>. QED
    BY <1>1, <1>24, <1>32, <1>33, <1>34

LEMMA LiabilitiesRows == RowsOf(Liabilities) = {18, 22, 30, 34, 42, 46, 54}
<1>1. \A i \in 1 .. 12 : Template[i].account \in Liabilities <=> i \in {}
    <2>2. /\ Template[1].account \notin Liabilities /\ Template[2].account \notin Liabilities
          /\ Template[3].account \notin Liabilities /\ Template[4].account \notin Liabilities
          /\ Template[5].account \notin Liabilities /\ Template[6].account \notin Liabilities
          /\ Template[7].account \notin Liabilities /\ Template[8].account \notin Liabilities
          /\ Template[9].account \notin Liabilities /\ Template[10].account \notin Liabilities
          /\ Template[11].account \notin Liabilities /\ Template[12].account \notin Liabilities
        BY PremiumAccounts DEF Liabilities
    <2>3. \A i \in 1 .. 12 :
              i = 1 \/ i = 2 \/ i = 3 \/ i = 4 \/ i = 5 \/ i = 6 \/ i = 7 \/ i = 8 \/ i = 9 \/
              i = 10 \/ i = 11 \/ i = 12
        OBVIOUS
    <2>. QED
        BY <2>2, <2>3
<1>2. \A i \in 13 .. 24 : Template[i].account \in Liabilities <=> i \in {18, 22}
    <2>2. /\ Template[13].account \notin Liabilities /\ Template[14].account \notin Liabilities
          /\ Template[15].account \notin Liabilities /\ Template[16].account \notin Liabilities
          /\ Template[17].account \notin Liabilities /\ Template[18].account \in Liabilities
          /\ Template[19].account \notin Liabilities /\ Template[20].account \notin Liabilities
          /\ Template[21].account \notin Liabilities /\ Template[22].account \in Liabilities
          /\ Template[23].account \notin Liabilities /\ Template[24].account \notin Liabilities
        BY LossAccounts DEF Liabilities
    <2>3. \A i \in 13 .. 24 :
              i = 13 \/ i = 14 \/ i = 15 \/ i = 16 \/ i = 17 \/ i = 18 \/ i = 19 \/ i = 20 \/
              i = 21 \/ i = 22 \/ i = 23 \/ i = 24
        OBVIOUS
    <2>. QED
        BY <2>2, <2>3
<1>3. \A i \in 25 .. 36 : Template[i].account \in Liabilities <=> i \in {30, 34}
    <2>2. /\ Template[25].account \notin Liabilities /\ Template[26].account \notin Liabilities
          /\ Template[27].account \notin Liabilities /\ Template[28].account \notin Liabilities
          /\ Template[29].account \notin Liabilities /\ Template[30].account \in Liabilities
          /\ Template[31].account \notin Liabilities /\ Template[32].account \notin Liabilities
          /\ Template[33].account \notin Liabilities /\ Template[34].account \in Liabilities
          /\ Template[35].account \notin Liabilities /\ Template[36].account \notin Liabilities
        BY DCCAccounts DEF Liabilities
    <2>3. \A i \in 25 .. 36 :
              i = 25 \/ i = 26 \/ i = 27 \/ i = 28 \/ i = 29 \/ i = 30 \/ i = 31 \/ i = 32 \/
              i = 33 \/ i = 34 \/ i = 35 \/ i = 36
        OBVIOUS
    <2>. QED
        BY <2>2, <2>3
<1>4. \A i \in 37 .. 48 : Template[i].account \in Liabilities <=> i \in {42, 46}
    <2>2. /\ Template[37].account \notin Liabilities /\ Template[38].account \notin Liabilities
          /\ Template[39].account \notin Liabilities /\ Template[40].account \notin Liabilities
          /\ Template[41].account \notin Liabilities /\ Template[42].account \in Liabilities
          /\ Template[43].account \notin Liabilities /\ Template[44].account \notin Liabilities
          /\ Template[45].account \notin Liabilities /\ Template[46].account \in Liabilities
          /\ Template[47].account \notin Liabilities /\ Template[48].account \notin Liabilities
        BY AOEAccounts DEF Liabilities
    <2>3. \A i \in 37 .. 48 :
              i = 37 \/ i = 38 \/ i = 39 \/ i = 40 \/ i = 41 \/ i = 42 \/ i = 43 \/ i = 44 \/
              i = 45 \/ i = 46 \/ i = 47 \/ i = 48
        OBVIOUS
    <2>. QED
        BY <2>2, <2>3
<1>5. \A i \in 49 .. 56 : Template[i].account \in Liabilities <=> i \in {54}
    <2>2. /\ Template[49].account \notin Liabilities /\ Template[50].account \notin Liabilities
          /\ Template[51].account \notin Liabilities /\ Template[52].account \notin Liabilities
          /\ Template[53].account \notin Liabilities /\ Template[54].account \in Liabilities
          /\ Template[55].account \notin Liabilities /\ Template[56].account \notin Liabilities
        BY ULAEAccounts DEF Liabilities
    <2>3. \A i \in 49 .. 56 :
              i = 49 \/ i = 50 \/ i = 51 \/ i = 52 \/ i = 53 \/ i = 54 \/ i = 55 \/ i = 56
        OBVIOUS
    <2>. QED
        BY <2>2, <2>3
<1>6. \A i \in 57 .. 68 : Template[i].account \in Liabilities <=> i \in {}
    <2>2. /\ Template[57].account \notin Liabilities /\ Template[58].account \notin Liabilities
          /\ Template[59].account \notin Liabilities /\ Template[60].account \notin Liabilities
          /\ Template[61].account \notin Liabilities /\ Template[62].account \notin Liabilities
          /\ Template[63].account \notin Liabilities /\ Template[64].account \notin Liabilities
          /\ Template[65].account \notin Liabilities /\ Template[66].account \notin Liabilities
          /\ Template[67].account \notin Liabilities /\ Template[68].account \notin Liabilities
        BY FeeAccounts DEF Liabilities
    <2>3. \A i \in 57 .. 68 :
              i = 57 \/ i = 58 \/ i = 59 \/ i = 60 \/ i = 61 \/ i = 62 \/ i = 63 \/ i = 64 \/
              i = 65 \/ i = 66 \/ i = 67 \/ i = 68
        OBVIOUS
    <2>. QED
        BY <2>2, <2>3
<1>7. {18, 22, 30, 34, 42, 46, 54}
        \subseteq 1 .. 68
    OBVIOUS
<1>8. \A i \in 1 .. 68 : \/ i \in 1 .. 12 \/ i \in 13 .. 24 \/ i \in 25 .. 36
                        \/ i \in 37 .. 48 \/ i \in 49 .. 56 \/ i \in 57 .. 68
    OBVIOUS
<1>9. ASSUME NEW i \in 1 .. 68
      PROVE  Template[i].account \in Liabilities <=>
                 i \in {18, 22, 30, 34, 42, 46, 54}
    <2>1. CASE i \in 1 .. 12
        BY <1>1, <2>1
    <2>2. CASE i \in 13 .. 24
        BY <1>2, <2>2
    <2>3. CASE i \in 25 .. 36
        BY <1>3, <2>3
    <2>4. CASE i \in 37 .. 48
        BY <1>4, <2>4
    <2>5. CASE i \in 49 .. 56
        BY <1>5, <2>5
    <2>6. CASE i \in 57 .. 68
        BY <1>6, <2>6
    <2>. QED
        BY <1>8, <2>1, <2>2, <2>3, <2>4, <2>5, <2>6
<1>. QED
    BY <1>7, <1>9, RowNumbers DEF RowsOf

LEMMA LiabilitiesSum ==
    ASSUME NEW v, IntValues(v)
    PROVE  SumOver(FiguresOf(v), RowsOf(Liabilities)) = -SumOver(v.change, Reserve)
<1>1. PICK f : f = FiguresOf(v)
    OBVIOUS
<1>2. \A i \in TemplateRow : f[i] = Figure(v, i) /\ f[i] \in Int
    BY <1>1, FigureTypes DEF FiguresOf
<1>3. \A i \in 1 .. 68 : f[i] = Figure(v, i) /\ f[i] \in Int
    BY <1>2, RowNumbers
<1>4. PICK N : N = {}
    OBVIOUS
<1>5. IsFiniteSet(N) /\ (\A x \in N : f[x] \in Int) /\ SumOver(f, N) = 0
    BY <1>4, SumOfNone, FS_EmptySet
<1>6. PICK S0, a0, b0, c0, d0 : S0 = N \cup {a0, b0, c0, d0} /\ a0 = 18 /\ b0 = 22 /\ c0 = 30 /\ d0 = 34
    <2>1. PICK A0, B0, C0, D0 : A0 = 18 /\ B0 = 22 /\ C0 = 30 /\ D0 = 34
        OBVIOUS
    <2>2. \E S : S = N \cup {A0, B0, C0, D0}
        OBVIOUS
    <2>. QED
        BY <2>1, <2>2
<1>7. /\ a0 \notin N /\ b0 \notin N /\ c0 \notin N /\ d0 \notin N
      /\ a0 # b0 /\ a0 # c0 /\ a0 # d0 /\ b0 # c0 /\ b0 # d0 /\ c0 # d0
      /\ f[a0] \in Int /\ f[b0] \in Int /\ f[c0] \in Int /\ f[d0] \in Int
    BY <1>3, <1>4, <1>6
<1>8. /\ IsFiniteSet(S0) /\ (\A x \in S0 : f[x] \in Int)
      /\ SumOver(f, S0) = SumOver(f, N) + (f[a0] + f[b0] + f[c0] + f[d0])
    <2>1. /\ IsFiniteSet(N \cup {a0, b0, c0, d0})
          /\ (\A x \in N \cup {a0, b0, c0, d0} : f[x] \in Int)
          /\ SumOver(f, N \cup {a0, b0, c0, d0}) = SumOver(f, N) + (f[a0] + f[b0] + f[c0] + f[d0])
        BY <1>5, <1>7, SumFour
    <2>. QED
        BY <1>6, <2>1
<1>9. PICK S1, a1, b1, c1 : S1 = S0 \cup {a1, b1, c1} /\ a1 = 42 /\ b1 = 46 /\ c1 = 54
    <2>1. PICK A1, B1, C1 : A1 = 42 /\ B1 = 46 /\ C1 = 54
        OBVIOUS
    <2>2. \E S : S = S0 \cup {A1, B1, C1}
        OBVIOUS
    <2>. QED
        BY <2>1, <2>2
<1>10. /\ a1 \notin S0 /\ b1 \notin S0 /\ c1 \notin S0
       /\ a1 # b1 /\ a1 # c1 /\ b1 # c1
       /\ f[a1] \in Int /\ f[b1] \in Int /\ f[c1] \in Int
    BY <1>3, <1>4, <1>6, <1>9
<1>11. /\ IsFiniteSet(S1) /\ (\A x \in S1 : f[x] \in Int)
       /\ SumOver(f, S1) = SumOver(f, S0) + (f[a1] + f[b1] + f[c1])
    <2>1. /\ IsFiniteSet(S0 \cup {a1, b1, c1})
          /\ (\A x \in S0 \cup {a1, b1, c1} : f[x] \in Int)
          /\ SumOver(f, S0 \cup {a1, b1, c1}) = SumOver(f, S0) + (f[a1] + f[b1] + f[c1])
        BY <1>8, <1>10, SumThree
    <2>. QED
        BY <1>9, <2>1
<1>12. S1 = RowsOf(Liabilities)
    <2>1. S1 = {18, 22, 30, 34, 42, 46, 54}
        BY <1>4, <1>6, <1>9
    <2>. QED
        BY <2>1, LiabilitiesRows
<1>13. /\ f[a0] = -v.change.Loss /\ f[b0] = -v.change.LossIBNR
       /\ f[c0] = -v.change.DCC /\ f[d0] = -v.change.DCCIBNR
    BY <1>3, <1>6, DCCFigures, LossFigures
<1>14. /\ f[a1] = -v.change.AOE /\ f[b1] = -v.change.AOEIBNR
       /\ f[c1] = -v.change.ULAEIBNR
    BY <1>3, <1>9, AOEFigures, ULAEFigures
<1>15. PICK x0 \in Int, x1 \in Int, x2 \in Int, x3 \in Int, x4 \in Int, x5 \in Int, x6 \in Int :
           /\ x0 = v.change.Loss /\ x1 = v.change.LossIBNR /\ x2 = v.change.DCC
           /\ x3 = v.change.DCCIBNR /\ x4 = v.change.AOE /\ x5 = v.change.AOEIBNR
           /\ x6 = v.change.ULAEIBNR
    BY DEF IntValues, IntReserve, Figures, Reserve
<1>16. SumOver(f, S1) = (0 + ((-x0) + (-x1) + (-x2) + (-x3))) + ((-x4) + (-x5) + (-x6))
    BY <1>5, <1>8, <1>11, <1>13, <1>14, <1>15
<1>17. -SumOver(v.change, Reserve) =
           -(x0 + x1 + x2 + x3 + x4 + x5 + x6)
    <2>1. SumOver(v.change, Reserve) = x0 + x1 + x2 + x3 + x4 + x5 + x6
      <3>1. PICK c \in IntReserve : c = v.change
          BY DEF IntValues
      <3>2. SumOver(c, Reserve) = c.Loss + c.LossIBNR + c.DCC + c.DCCIBNR + c.AOE + c.AOEIBNR
                                    + c.ULAEIBNR
          BY ReserveSum
      <3>. QED
          BY <1>15, <3>1, <3>2
    <2>. QED
        BY <2>1
<1>18. (0 + ((-x0) + (-x1) + (-x2) + (-x3))) + ((-x4) + (-x5) + (-x6)) =
           -(x0 + x1 + x2 + x3 + x4 + x5 + x6)
    OBVIOUS
<1>. QED
    BY <1>1, <1>12, <1>16, <1>17, <1>18

LEMMA RecoverablesRows == RowsOf(Recoverables) = {19, 23, 31, 35, 43, 47, 55}
<1>1. \A i \in 1 .. 12 : Template[i].account \in Recoverables <=> i \in {}
    <2>2. /\ Template[1].account \notin Recoverables /\ Template[2].account \notin Recoverables
          /\ Template[3].account \notin Recoverables /\ Template[4].account \notin Recoverables
          /\ Template[5].account \notin Recoverables /\ Template[6].account \notin Recoverables
          /\ Template[7].account \notin Recoverables /\ Template[8].account \notin Recoverables
          /\ Template[9].account \notin Recoverables /\ Template[10].account \notin Recoverables
          /\ Template[11].account \notin Recoverables /\ Template[12].account \notin Recoverables
        BY PremiumAccounts DEF Recoverables
    <2>3. \A i \in 1 .. 12 :
              i = 1 \/ i = 2 \/ i = 3 \/ i = 4 \/ i = 5 \/ i = 6 \/ i = 7 \/ i = 8 \/ i = 9 \/
              i = 10 \/ i = 11 \/ i = 12
        OBVIOUS
    <2>. QED
        BY <2>2, <2>3
<1>2. \A i \in 13 .. 24 : Template[i].account \in Recoverables <=> i \in {19, 23}
    <2>2. /\ Template[13].account \notin Recoverables /\ Template[14].account \notin Recoverables
          /\ Template[15].account \notin Recoverables /\ Template[16].account \notin Recoverables
          /\ Template[17].account \notin Recoverables /\ Template[18].account \notin Recoverables
          /\ Template[19].account \in Recoverables /\ Template[20].account \notin Recoverables
          /\ Template[21].account \notin Recoverables /\ Template[22].account \notin Recoverables
          /\ Template[23].account \in Recoverables /\ Template[24].account \notin Recoverables
        BY LossAccounts DEF Recoverables
    <2>3. \A i \in 13 .. 24 :
              i = 13 \/ i = 14 \/ i = 15 \/ i = 16 \/ i = 17 \/ i = 18 \/ i = 19 \/ i = 20 \/
              i = 21 \/ i = 22 \/ i = 23 \/ i = 24
        OBVIOUS
    <2>. QED
        BY <2>2, <2>3
<1>3. \A i \in 25 .. 36 : Template[i].account \in Recoverables <=> i \in {31, 35}
    <2>2. /\ Template[25].account \notin Recoverables /\ Template[26].account \notin Recoverables
          /\ Template[27].account \notin Recoverables /\ Template[28].account \notin Recoverables
          /\ Template[29].account \notin Recoverables /\ Template[30].account \notin Recoverables
          /\ Template[31].account \in Recoverables /\ Template[32].account \notin Recoverables
          /\ Template[33].account \notin Recoverables /\ Template[34].account \notin Recoverables
          /\ Template[35].account \in Recoverables /\ Template[36].account \notin Recoverables
        BY DCCAccounts DEF Recoverables
    <2>3. \A i \in 25 .. 36 :
              i = 25 \/ i = 26 \/ i = 27 \/ i = 28 \/ i = 29 \/ i = 30 \/ i = 31 \/ i = 32 \/
              i = 33 \/ i = 34 \/ i = 35 \/ i = 36
        OBVIOUS
    <2>. QED
        BY <2>2, <2>3
<1>4. \A i \in 37 .. 48 : Template[i].account \in Recoverables <=> i \in {43, 47}
    <2>2. /\ Template[37].account \notin Recoverables /\ Template[38].account \notin Recoverables
          /\ Template[39].account \notin Recoverables /\ Template[40].account \notin Recoverables
          /\ Template[41].account \notin Recoverables /\ Template[42].account \notin Recoverables
          /\ Template[43].account \in Recoverables /\ Template[44].account \notin Recoverables
          /\ Template[45].account \notin Recoverables /\ Template[46].account \notin Recoverables
          /\ Template[47].account \in Recoverables /\ Template[48].account \notin Recoverables
        BY AOEAccounts DEF Recoverables
    <2>3. \A i \in 37 .. 48 :
              i = 37 \/ i = 38 \/ i = 39 \/ i = 40 \/ i = 41 \/ i = 42 \/ i = 43 \/ i = 44 \/
              i = 45 \/ i = 46 \/ i = 47 \/ i = 48
        OBVIOUS
    <2>. QED
        BY <2>2, <2>3
<1>5. \A i \in 49 .. 56 : Template[i].account \in Recoverables <=> i \in {55}
    <2>2. /\ Template[49].account \notin Recoverables /\ Template[50].account \notin Recoverables
          /\ Template[51].account \notin Recoverables /\ Template[52].account \notin Recoverables
          /\ Template[53].account \notin Recoverables /\ Template[54].account \notin Recoverables
          /\ Template[55].account \in Recoverables /\ Template[56].account \notin Recoverables
        BY ULAEAccounts DEF Recoverables
    <2>3. \A i \in 49 .. 56 :
              i = 49 \/ i = 50 \/ i = 51 \/ i = 52 \/ i = 53 \/ i = 54 \/ i = 55 \/ i = 56
        OBVIOUS
    <2>. QED
        BY <2>2, <2>3
<1>6. \A i \in 57 .. 68 : Template[i].account \in Recoverables <=> i \in {}
    <2>2. /\ Template[57].account \notin Recoverables /\ Template[58].account \notin Recoverables
          /\ Template[59].account \notin Recoverables /\ Template[60].account \notin Recoverables
          /\ Template[61].account \notin Recoverables /\ Template[62].account \notin Recoverables
          /\ Template[63].account \notin Recoverables /\ Template[64].account \notin Recoverables
          /\ Template[65].account \notin Recoverables /\ Template[66].account \notin Recoverables
          /\ Template[67].account \notin Recoverables /\ Template[68].account \notin Recoverables
        BY FeeAccounts DEF Recoverables
    <2>3. \A i \in 57 .. 68 :
              i = 57 \/ i = 58 \/ i = 59 \/ i = 60 \/ i = 61 \/ i = 62 \/ i = 63 \/ i = 64 \/
              i = 65 \/ i = 66 \/ i = 67 \/ i = 68
        OBVIOUS
    <2>. QED
        BY <2>2, <2>3
<1>7. {19, 23, 31, 35, 43, 47, 55}
        \subseteq 1 .. 68
    OBVIOUS
<1>8. \A i \in 1 .. 68 : \/ i \in 1 .. 12 \/ i \in 13 .. 24 \/ i \in 25 .. 36
                        \/ i \in 37 .. 48 \/ i \in 49 .. 56 \/ i \in 57 .. 68
    OBVIOUS
<1>9. ASSUME NEW i \in 1 .. 68
      PROVE  Template[i].account \in Recoverables <=>
                 i \in {19, 23, 31, 35, 43, 47, 55}
    <2>1. CASE i \in 1 .. 12
        BY <1>1, <2>1
    <2>2. CASE i \in 13 .. 24
        BY <1>2, <2>2
    <2>3. CASE i \in 25 .. 36
        BY <1>3, <2>3
    <2>4. CASE i \in 37 .. 48
        BY <1>4, <2>4
    <2>5. CASE i \in 49 .. 56
        BY <1>5, <2>5
    <2>6. CASE i \in 57 .. 68
        BY <1>6, <2>6
    <2>. QED
        BY <1>8, <2>1, <2>2, <2>3, <2>4, <2>5, <2>6
<1>. QED
    BY <1>7, <1>9, RowNumbers DEF RowsOf

LEMMA RecoverablesSum ==
    ASSUME NEW v, IntValues(v)
    PROVE  SumOver(FiguresOf(v), RowsOf(Recoverables)) = SumOver(v.change, Reserve)
<1>1. PICK f : f = FiguresOf(v)
    OBVIOUS
<1>2. \A i \in TemplateRow : f[i] = Figure(v, i) /\ f[i] \in Int
    BY <1>1, FigureTypes DEF FiguresOf
<1>3. \A i \in 1 .. 68 : f[i] = Figure(v, i) /\ f[i] \in Int
    BY <1>2, RowNumbers
<1>4. PICK N : N = {}
    OBVIOUS
<1>5. IsFiniteSet(N) /\ (\A x \in N : f[x] \in Int) /\ SumOver(f, N) = 0
    BY <1>4, SumOfNone, FS_EmptySet
<1>6. PICK S0, a0, b0, c0, d0 : S0 = N \cup {a0, b0, c0, d0} /\ a0 = 19 /\ b0 = 23 /\ c0 = 31 /\ d0 = 35
    <2>1. PICK A0, B0, C0, D0 : A0 = 19 /\ B0 = 23 /\ C0 = 31 /\ D0 = 35
        OBVIOUS
    <2>2. \E S : S = N \cup {A0, B0, C0, D0}
        OBVIOUS
    <2>. QED
        BY <2>1, <2>2
<1>7. /\ a0 \notin N /\ b0 \notin N /\ c0 \notin N /\ d0 \notin N
      /\ a0 # b0 /\ a0 # c0 /\ a0 # d0 /\ b0 # c0 /\ b0 # d0 /\ c0 # d0
      /\ f[a0] \in Int /\ f[b0] \in Int /\ f[c0] \in Int /\ f[d0] \in Int
    BY <1>3, <1>4, <1>6
<1>8. /\ IsFiniteSet(S0) /\ (\A x \in S0 : f[x] \in Int)
      /\ SumOver(f, S0) = SumOver(f, N) + (f[a0] + f[b0] + f[c0] + f[d0])
    <2>1. /\ IsFiniteSet(N \cup {a0, b0, c0, d0})
          /\ (\A x \in N \cup {a0, b0, c0, d0} : f[x] \in Int)
          /\ SumOver(f, N \cup {a0, b0, c0, d0}) = SumOver(f, N) + (f[a0] + f[b0] + f[c0] + f[d0])
        BY <1>5, <1>7, SumFour
    <2>. QED
        BY <1>6, <2>1
<1>9. PICK S1, a1, b1, c1 : S1 = S0 \cup {a1, b1, c1} /\ a1 = 43 /\ b1 = 47 /\ c1 = 55
    <2>1. PICK A1, B1, C1 : A1 = 43 /\ B1 = 47 /\ C1 = 55
        OBVIOUS
    <2>2. \E S : S = S0 \cup {A1, B1, C1}
        OBVIOUS
    <2>. QED
        BY <2>1, <2>2
<1>10. /\ a1 \notin S0 /\ b1 \notin S0 /\ c1 \notin S0
       /\ a1 # b1 /\ a1 # c1 /\ b1 # c1
       /\ f[a1] \in Int /\ f[b1] \in Int /\ f[c1] \in Int
    BY <1>3, <1>4, <1>6, <1>9
<1>11. /\ IsFiniteSet(S1) /\ (\A x \in S1 : f[x] \in Int)
       /\ SumOver(f, S1) = SumOver(f, S0) + (f[a1] + f[b1] + f[c1])
    <2>1. /\ IsFiniteSet(S0 \cup {a1, b1, c1})
          /\ (\A x \in S0 \cup {a1, b1, c1} : f[x] \in Int)
          /\ SumOver(f, S0 \cup {a1, b1, c1}) = SumOver(f, S0) + (f[a1] + f[b1] + f[c1])
        BY <1>8, <1>10, SumThree
    <2>. QED
        BY <1>9, <2>1
<1>12. S1 = RowsOf(Recoverables)
    <2>1. S1 = {19, 23, 31, 35, 43, 47, 55}
        BY <1>4, <1>6, <1>9
    <2>. QED
        BY <2>1, RecoverablesRows
<1>13. /\ f[a0] = v.change.Loss /\ f[b0] = v.change.LossIBNR
       /\ f[c0] = v.change.DCC /\ f[d0] = v.change.DCCIBNR
    BY <1>3, <1>6, DCCFigures, LossFigures
<1>14. /\ f[a1] = v.change.AOE /\ f[b1] = v.change.AOEIBNR
       /\ f[c1] = v.change.ULAEIBNR
    BY <1>3, <1>9, AOEFigures, ULAEFigures
<1>15. PICK x0 \in Int, x1 \in Int, x2 \in Int, x3 \in Int, x4 \in Int, x5 \in Int, x6 \in Int :
           /\ x0 = v.change.Loss /\ x1 = v.change.LossIBNR /\ x2 = v.change.DCC
           /\ x3 = v.change.DCCIBNR /\ x4 = v.change.AOE /\ x5 = v.change.AOEIBNR
           /\ x6 = v.change.ULAEIBNR
    BY DEF IntValues, IntReserve, Figures, Reserve
<1>16. SumOver(f, S1) = (0 + (x0 + x1 + x2 + x3)) + (x4 + x5 + x6)
    BY <1>5, <1>8, <1>11, <1>13, <1>14, <1>15
<1>17. SumOver(v.change, Reserve) =
           x0 + x1 + x2 + x3 + x4 + x5 + x6
    <2>1. SumOver(v.change, Reserve) = x0 + x1 + x2 + x3 + x4 + x5 + x6
      <3>1. PICK c \in IntReserve : c = v.change
          BY DEF IntValues
      <3>2. SumOver(c, Reserve) = c.Loss + c.LossIBNR + c.DCC + c.DCCIBNR + c.AOE + c.AOEIBNR
                                    + c.ULAEIBNR
          BY ReserveSum
      <3>. QED
          BY <1>15, <3>1, <3>2
    <2>. QED
        BY <2>1
<1>18. (0 + (x0 + x1 + x2 + x3)) + (x4 + x5 + x6) =
           x0 + x1 + x2 + x3 + x4 + x5 + x6
    OBVIOUS
<1>. QED
    BY <1>1, <1>12, <1>16, <1>17, <1>18

----------------------------------------------------------------------------
\* The posting and the statement

\* A ULAE rate that is not flat is the same to the statement and to the posting.
LEMMA NotFlat ==
    ASSUME NEW books, NEW b, NEW own, NEW terms, ~ Flat(terms)
    PROVE  CedingValues(books, b, own, terms) = CedingValues(books, b, own, None)
<1>1. ~ Flat(None)
    BY DEF Flat
<1>2. \A earned, rate : ULAEPaid(books, b, earned, rate, terms) = Share(books[b].now.pw, rate.ulae)
    BY DEF ULAEPaid
<1>3. \A earned, rate : ULAEPaid(books, b, earned, rate, None) = Share(books[b].now.pw, rate.ulae)
    BY <1>1 DEF ULAEPaid
<1>. QED
    BY <1>2, <1>3 DEF CedingValues

LEMMA Netted ==
    ASSUME NEW v, IntValues(v), NEW accounts, NEW figure,
           SumOver(FiguresOf(v), RowsOf(accounts)) = figure
    PROVE  NetsTo(Entries(v), accounts, figure, v)
<1>1. PICK R : R = RowsOf(accounts)
    OBVIOUS
<1>2. R \in SUBSET TemplateRow
    BY <1>1 DEF RowsOf
<1>3. Off(v, R) \in -Slack(v, R) .. Slack(v, R)
    BY <1>2, SumRounded
<1>4. Off(v, R) = 2 * (Whole(Net(Entries(v), accounts)) - figure)
    BY <1>1 DEF Off, Net
<1>5. Slack(v, R) = Unit * Cardinality(Inexact(v, RowsOf(accounts)))
    BY <1>1 DEF Slack
<1>. QED
    BY <1>3, <1>4, <1>5, Zenon DEF NetsTo

LEMMA StepSettles ==
    ASSUME SInv, [StatementNext]_statementVars, NEW b \in Workbook, JustPosted(b), ~ Flat(treaty'),
           NEW v, v = CedingValues(exhibits', b, Found(b)', treaty')
    PROVE  /\ NetsTo(posted'[b], {"243100", "125100", "127100"}, -NetSettlement(v), v)
           /\ NetsTo(posted'[b], {"120100", "264400"}, NetSettlementFuturistic(v), v)
           /\ NetsTo(posted'[b], Ceded, TotalProfit(v), v)
<1>1. v = GLValues(exhibits', b, Found(b))
    BY Posting, NotFlat DEF GLValues
<1>2. posted'[b] = Entries(v)
    BY <1>1, Posting
<1>3. IntValues(v)
    BY <1>1, Posting, FoundTypes, ValuesAreInt DEF GLValues
<1>4. NetsTo(Entries(v), {"243100", "125100", "127100"}, -NetSettlement(v), v)
    BY <1>3, ReinsurerSum, Netted
<1>5. NetsTo(Entries(v), {"120100", "264400"}, NetSettlementFuturistic(v), v)
    BY <1>3, AgentSum, Netted
<1>6. NetsTo(Entries(v), Ceded, TotalProfit(v), v)
    BY <1>3, CededSum, Netted
<1>. QED
    BY <1>2, <1>4, <1>5, <1>6

\* The balances a posting leaves on the accounts are those of the statement, half a cent
\* aside for every inexact row (getReinsuranceStatement, postToJournalEntries).
THEOREM SettlementsPostedAlways == StatementSpec => SettlementsPosted
<1>1. SInv /\ [StatementNext]_statementVars
        => [\A b \in Workbook : JustPosted(b) /\ ~ Flat(treaty') =>
              \A v \in {CedingValues(exhibits', b, Found(b)', treaty')} :
                  /\ NetsTo(posted'[b], {"243100", "125100", "127100"}, -NetSettlement(v), v)
                  /\ NetsTo(posted'[b], {"120100", "264400"}, NetSettlementFuturistic(v), v)
                  /\ NetsTo(posted'[b], Ceded, TotalProfit(v), v)]_statementVars
    BY StepSettles
<1>. QED
    BY <1>1, InitTypes, StepTypes, PTL DEF StatementSpec, SettlementsPosted

----------------------------------------------------------------------------
\* A month of reserves

RateOf(k) == Over(Found(k), StatementDefaults)

ChangeOf(k) == Change(exhibits, k, EarnedOf(exhibits, k), RateOf(k), KindOf(k))

OpeningOf(k) == Opening(exhibits, k, KindOf(k))

ClosingOf(k) == Stored(exhibits[k].now, KindOf(k))

LEMMA Kinds ==
    ASSUME NEW k
    PROVE  KindOf(k) \in {"dcc", "aoe", "none"}
  BY DEF KindOf, Kind

LEMMA MonthTypes ==
    ASSUME SInv, NEW k \in Workbook, exhibits[k] # None
    PROVE  /\ RateOf(k) \in IntRates
           /\ ChangeOf(k) \in IntReserve /\ OpeningOf(k) \in IntReserve
           /\ ClosingOf(k) \in IntReserve
           /\ exhibits[k].now \in Column
           /\ EarnedOf(exhibits, k) \in Int
           /\ GLValues(exhibits, k, Found(k)).change = ChangeOf(k)
<1>1. Shelf(exhibits) /\ exhibits[k].now \in Column
    BY DEF SInv, Shelf, Exhibit
<1>2. RateOf(k) \in IntRates
    BY FoundTypes, Defaults, OverTypes DEF RateOf
<1>3. EarnedOf(exhibits, k) \in Int
    BY <1>1, EarnedTypes
<1>4. ChangeOf(k) \in IntReserve
    BY <1>1, <1>2, <1>3, ChangeTypes DEF ChangeOf
<1>5. OpeningOf(k) \in IntReserve
    BY <1>1, OpeningTypes DEF OpeningOf
<1>6. ClosingOf(k) \in IntReserve
    BY <1>1, StoredTypes DEF ClosingOf
<1>7. GLValues(exhibits, k, Found(k)).change = ChangeOf(k)
    BY DEF GLValues, CedingValues, ChangeOf, EarnedOf, RateOf, KindOf
<1>. QED
    BY <1>1, <1>2, <1>3, <1>4, <1>5, <1>6, <1>7

LEMMA FutParts ==
    ASSUME NEW column, NEW opening, NEW earned, NEW rate, NEW kind,
           NEW c, c = FutChange(column, opening, earned, rate, kind)
    PROVE  /\ c.Loss = Whole(column.lu - opening.Loss)
           /\ c.LossIBNR = Share(earned, rate.lossPick)
                             - Whole(column.lp + (column.lu - opening.Loss))
           /\ c.DCC = Whole(Under("dcc", kind, column.laeu + column.aeu) - opening.DCC)
           /\ c.DCCIBNR = Share(earned, rate.laeDcc)
                            - Whole(Under("dcc", kind, column.laep)
                                      + (Under("dcc", kind, column.laeu + column.aeu) - opening.DCC))
           /\ c.AOE = Whole(Under("aoe", kind, column.laeu + column.aeu) - opening.AOE)
           /\ c.AOEIBNR = Share(earned, rate.laeAoe)
                            - Whole(Under("aoe", kind, column.laep)
                                      + (Under("aoe", kind, column.laeu + column.aeu) - opening.AOE))
           /\ c.ULAEIBNR = ChangeInULAE(c.Loss, c.LossIBNR)
  BY DEF FutChange

LEMMA StoredParts ==
    ASSUME NEW column, NEW kind, NEW s, s = Stored(column, kind)
    PROVE  /\ s.Loss = column.loss_reserves /\ s.LossIBNR = column.loss_ibnr
           /\ s.DCC = Under("dcc", kind, column.lae_reserves_dcc + column.lae_reserves_aoe)
           /\ s.DCCIBNR = Under("dcc", kind, column.lae_ibnr_dcc + column.lae_ibnr_aoe)
           /\ s.AOE = Under("aoe", kind, column.lae_reserves_dcc + column.lae_reserves_aoe)
           /\ s.AOEIBNR = Under("aoe", kind, column.lae_ibnr_dcc + column.lae_ibnr_aoe)
           /\ s.ULAEIBNR = column.ulae_ibnr
  BY DEF Stored

LEMMA UnpaidParts ==
    ASSUME NEW column, NEW kind, NEW s, s = Unpaid(column, kind)
    PROVE  /\ s.Loss = 0 /\ s.LossIBNR = column.lu
           /\ s.DCC = 0 /\ s.DCCIBNR = Under("dcc", kind, column.laeu)
           /\ s.AOE = 0 /\ s.AOEIBNR = Under("aoe", kind, column.laeu)
           /\ s.ULAEIBNR = column.aeu
  BY DEF Unpaid, Nothing, Reserve

LEMMA NothingParts ==
    /\ Nothing.Loss = 0 /\ Nothing.LossIBNR = 0 /\ Nothing.DCC = 0 /\ Nothing.DCCIBNR = 0
    /\ Nothing.AOE = 0 /\ Nothing.AOEIBNR = 0 /\ Nothing.ULAEIBNR = 0
  BY DEF Nothing, Reserve

\* What a settled FUT month holds: its own closing reserves.
LEMMA SettledFut ==
    ASSUME SInv, NEW k \in Workbook, exhibits[k] # None, SourceOf(k) = "FUT", Settled(k),
           NEW c, c = exhibits[k].now, NEW prev, prev = Previous(exhibits, k),
           NEW kind, kind = KindOf(k),
           NEW h, h = ChangeIn(c, prev, Found(k)), NEW p, p = Prior(prev)
    PROVE  /\ c.loss_reserves = c.lu
           /\ c.lae_reserves_dcc = Under("dcc", kind, c.laeu + c.aeu)
           /\ c.lae_reserves_aoe = Under("aoe", kind, c.laeu + c.aeu)
           /\ c.loss_ibnr = Fixed(Whole(p.loss_ibnr) + h.LossIBNR)
           /\ c.lae_ibnr_dcc = Under("dcc", kind, Fixed(Whole(p.lae_ibnr_dcc) + h.DCCIBNR))
           /\ c.lae_ibnr_aoe = Under("aoe", kind, Fixed(Whole(p.lae_ibnr_aoe) + h.AOEIBNR))
           /\ c.ulae_ibnr = Fixed(Whole(p.ulae_ibnr) + h.ULAEIBNR)
<1>1. Shelf(exhibits) /\ c \in Column /\ Found(k) \in Rates
    BY MonthTypes, FoundTypes DEF SInv
<1>2. exhibits[k] = RolledForward(exhibits, k, Found(k))
    BY <1>1, RefreshedTypes DEF Settled
<1>3. PICK d : d = Closing(c, prev, Found(k))
    OBVIOUS
<1>4. exhibits[k].now = [f \in DOMAIN c |-> IF f \in ReserveField THEN d[f] ELSE c[f]]
    BY <1>2, <1>3 DEF RolledForward
<1>5. DOMAIN c = EnteredField \cup ReserveField
    BY <1>1 DEF Column
<1>6. \A f \in ReserveField : c[f] = d[f]
    BY <1>4, <1>5
<1>7. /\ c.loss_reserves = d.loss_reserves /\ c.lae_reserves_dcc = d.lae_reserves_dcc
      /\ c.lae_reserves_aoe = d.lae_reserves_aoe /\ c.loss_ibnr = d.loss_ibnr
      /\ c.lae_ibnr_dcc = d.lae_ibnr_dcc /\ c.lae_ibnr_aoe = d.lae_ibnr_aoe
      /\ c.ulae_ibnr = d.ulae_ibnr
    BY <1>6 DEF ReserveField, IBNRField
<1>8. prev = None \/ prev \in Exhibit
    BY <1>1, PreviousTypes
<1>9. /\ d.loss_reserves = c.lu
      /\ d.lae_reserves_dcc = Under("dcc", kind, c.laeu + c.aeu)
      /\ d.lae_reserves_aoe = Under("aoe", kind, c.laeu + c.aeu)
      /\ d.loss_ibnr = Fixed(Whole(p.loss_ibnr) + h.LossIBNR)
      /\ d.lae_ibnr_dcc = Under("dcc", kind, Fixed(Whole(p.lae_ibnr_dcc) + h.DCCIBNR))
      /\ d.lae_ibnr_aoe = Under("aoe", kind, Fixed(Whole(p.lae_ibnr_aoe) + h.AOEIBNR))
      /\ d.ulae_ibnr = Fixed(Whole(p.ulae_ibnr) + h.ULAEIBNR)
    <2>1. kind = Kind(Over(Found(k), StatementDefaults))
        BY DEF KindOf
    <2>. QED
        BY <1>1, <1>3, <1>8, <2>1, ClosingIs
<1>. QED
    BY <1>7, <1>9

\* The month before, as the roll-forward and as the statement open from it.
LEMMA FutOpens ==
    ASSUME SInv, NEW k \in Month, exhibits[k] # None, SourceOf(k) = "FUT", CarriedInFull(k),
           k > 1 => exhibits[k - 1] # None /\ Settled(k - 1) /\ KindOf(k - 1) = KindOf(k),
           NEW prev, prev = Previous(exhibits, k), NEW kind, kind = KindOf(k),
           NEW o, o = OpeningOf(k), NEW p, p = Prior(prev), NEW q, q = Carries(prev)
    PROVE  /\ o.Loss = q.Loss /\ o.LossIBNR = p.loss_ibnr /\ o.ULAEIBNR = p.ulae_ibnr
           /\ o.DCC + o.DCCIBNR = Under("dcc", kind, q.DCC + p.lae_ibnr_dcc)
           /\ o.AOE + o.AOEIBNR = Under("aoe", kind, q.AOE + p.lae_ibnr_aoe)
           /\ kind # "dcc" => o.DCC = 0 /\ q.DCC = 0
           /\ kind # "aoe" => o.AOE = 0 /\ q.AOE = 0
           /\ prev # None =>
                  SumOver(o, Reserve) = SumOver(Stored(prev.now, kind), Reserve)
<1>1. k \in Workbook /\ k # 0 /\ k - 1 \in Workbook /\ Shelf(exhibits)
    BY WorkbookFacts DEF Month, SInv
<1>2. kind \in {"dcc", "aoe", "none"}
    BY Kinds
<1>3. /\ q.Loss = CarriedAlone(prev, "loss_reserves") /\ q.DCC = CarriedAlone(prev, "lae_reserves_dcc")
      /\ q.AOE = CarriedAlone(prev, "lae_reserves_aoe")
      /\ p.loss_ibnr = CarriedOver(prev, "loss_ibnr", "lu")
      /\ p.lae_ibnr_dcc = CarriedOver(prev, "lae_ibnr_dcc", "laeu")
      /\ p.lae_ibnr_aoe = CarriedAlone(prev, "lae_ibnr_aoe")
      /\ p.ulae_ibnr = CarriedOver(prev, "ulae_ibnr", "aeu")
    BY DEF Carries, Prior
<1>4. o \in IntReserve
    BY <1>1, MonthTypes
<1>5. CASE prev = None
    <2>1. o = Nothing
        BY <1>5 DEF OpeningOf, Opening
    <2>2. /\ q.Loss = 0 /\ q.DCC = 0 /\ q.AOE = 0 /\ p.loss_ibnr = 0 /\ p.lae_ibnr_dcc = 0
          /\ p.lae_ibnr_aoe = 0 /\ p.ulae_ibnr = 0
        BY <1>3, <1>5 DEF CarriedAlone, CarriedOver
    <2>. QED
        BY <1>5, <2>1, <2>2, NothingParts DEF Under
<1>6. CASE prev # None
    <2>1. PICK c \in Column : c = prev.now
        BY <1>1, <1>6, PreviousTypes DEF Exhibit
    <2>2. /\ kind # "dcc" => c.lae_reserves_dcc = 0 /\ c.lae_ibnr_dcc = 0
          /\ kind # "aoe" => c.lae_reserves_aoe = 0 /\ c.lae_ibnr_aoe = 0
          /\ c.loss_ibnr = 0 => c.lu = 0
          /\ c.lae_ibnr_dcc = 0 => c.laeu = 0 \/ kind # "dcc"
          /\ c.ulae_ibnr = 0 => c.aeu = 0
        BY <1>6, <2>1 DEF CarriedInFull
    <2>3. /\ q.Loss = c.loss_reserves /\ q.DCC = c.lae_reserves_dcc /\ q.AOE = c.lae_reserves_aoe
          /\ p.loss_ibnr = c.loss_ibnr /\ p.lae_ibnr_aoe = c.lae_ibnr_aoe
          /\ p.ulae_ibnr = c.ulae_ibnr /\ (kind = "dcc" => p.lae_ibnr_dcc = c.lae_ibnr_dcc)
        BY <1>3, <1>6, <2>1, <2>2 DEF CarriedAlone, CarriedOver
    <2>4. /\ c.lae_reserves_dcc \in Int /\ c.lae_reserves_aoe \in Int /\ c.lae_ibnr_dcc \in Int
          /\ c.lae_ibnr_aoe \in Int /\ c.loss_reserves \in Int /\ c.loss_ibnr \in Int
          /\ c.ulae_ibnr \in Int /\ c.lu \in Int /\ c.aeu \in Int /\ c.laeu \in Int
        BY DEF Column, EnteredField, ReserveField, IBNRField
    <2>5. PICK s \in IntReserve : s = Stored(c, kind)
        BY StoredTypes
    <2>6. /\ s.Loss = c.loss_reserves /\ s.LossIBNR = c.loss_ibnr
          /\ s.DCC = Under("dcc", kind, c.lae_reserves_dcc + c.lae_reserves_aoe)
          /\ s.DCCIBNR = Under("dcc", kind, c.lae_ibnr_dcc + c.lae_ibnr_aoe)
          /\ s.AOE = Under("aoe", kind, c.lae_reserves_dcc + c.lae_reserves_aoe)
          /\ s.AOEIBNR = Under("aoe", kind, c.lae_ibnr_dcc + c.lae_ibnr_aoe)
          /\ s.ULAEIBNR = c.ulae_ibnr
        BY <2>5, StoredParts
    <2>7. CASE ~ (SourceOf(k - 1) = "FUT" /\ ~ Detailed(prev))
        <3>1. o = s
            BY <1>6, <2>1, <2>5, <2>7 DEF OpeningOf, Opening
        <3>. QED
            BY <1>2, <2>1, <2>2, <2>3, <2>4, <2>5, <2>6, <3>1 DEF Under
    <2>8. CASE SourceOf(k - 1) = "FUT" /\ ~ Detailed(prev)
        <3>1. k > 1 /\ prev = exhibits[k - 1]
            BY <1>1, <2>8 DEF SourceOf, Previous, Month
        <3>2. o = Unpaid(c, kind)
            BY <1>6, <2>1, <2>8 DEF OpeningOf, Opening
        <3>3. /\ o.Loss = 0 /\ o.LossIBNR = c.lu
              /\ o.DCC = 0 /\ o.DCCIBNR = Under("dcc", kind, c.laeu)
              /\ o.AOE = 0 /\ o.AOEIBNR = Under("aoe", kind, c.laeu)
              /\ o.ULAEIBNR = c.aeu
            BY <3>2, UnpaidParts
        <3>4. /\ c.loss_ibnr = 0 /\ c.lae_ibnr_dcc = 0 /\ c.lae_ibnr_aoe = 0 /\ c.ulae_ibnr = 0
            BY <2>1, <2>8 DEF Detailed, IBNRField
        <3>5. /\ c.loss_reserves = c.lu
              /\ c.lae_reserves_dcc = Under("dcc", kind, c.laeu + c.aeu)
              /\ c.lae_reserves_aoe = Under("aoe", kind, c.laeu + c.aeu)
            BY <1>1, <2>1, <2>8, <3>1, SettledFut
        <3>6. /\ c.lu = 0 /\ c.aeu = 0 /\ (kind = "dcc" => c.laeu = 0)
            BY <2>2, <3>4
        <3>7. /\ o.Loss = q.Loss /\ o.LossIBNR = p.loss_ibnr /\ o.ULAEIBNR = p.ulae_ibnr
              /\ o.DCC + o.DCCIBNR = Under("dcc", kind, q.DCC + p.lae_ibnr_dcc)
              /\ o.AOE + o.AOEIBNR = Under("aoe", kind, q.AOE + p.lae_ibnr_aoe)
              /\ kind # "dcc" => o.DCC = 0 /\ q.DCC = 0
              /\ kind # "aoe" => o.AOE = 0 /\ q.AOE = 0
            BY <1>2, <2>3, <2>4, <3>3, <3>4, <3>5, <3>6 DEF Under
        <3>8. SumOver(o, Reserve) = o.Loss + o.LossIBNR + o.DCC + o.DCCIBNR + o.AOE + o.AOEIBNR
                                      + o.ULAEIBNR
            BY <1>4, ReserveSum
        <3>9. SumOver(s, Reserve) = s.Loss + s.LossIBNR + s.DCC + s.DCCIBNR + s.AOE + s.AOEIBNR
                                      + s.ULAEIBNR
            BY ReserveSum
        <3>10. SumOver(o, Reserve) = SumOver(s, Reserve)
            <4>1. /\ s.Loss = 0 /\ s.LossIBNR = 0 /\ s.ULAEIBNR = 0
                  /\ o.Loss = 0 /\ o.LossIBNR = 0 /\ o.ULAEIBNR = 0 /\ o.DCC = 0 /\ o.AOE = 0
                BY <2>6, <3>3, <3>4, <3>5, <3>6
            <4>2. c.lae_ibnr_dcc + c.lae_ibnr_aoe = 0
                BY <2>2, <2>4, <3>4
            <4>3. s.DCCIBNR = 0 /\ s.AOEIBNR = 0
                BY <2>6, <3>4, <4>2 DEF Under
            <4>4. s.DCC = o.DCCIBNR /\ s.AOE = o.AOEIBNR
                <5>1. CASE kind = "dcc"
                    <6>1. c.lae_reserves_dcc = 0 /\ c.lae_reserves_aoe = 0 /\ c.laeu = 0
                        BY <2>4, <3>5, <3>6, <5>1 DEF Under
                    <6>. QED
                        BY <2>6, <3>3, <5>1, <6>1 DEF Under
                <5>2. CASE kind = "aoe"
                    <6>1. c.lae_reserves_dcc = 0 /\ c.lae_reserves_aoe = c.laeu
                        BY <2>4, <3>5, <3>6, <5>2 DEF Under
                    <6>. QED
                        BY <2>4, <2>6, <3>3, <5>2, <6>1 DEF Under
                <5>3. CASE kind = "none"
                    BY <2>6, <3>3, <5>3 DEF Under
                <5>. QED
                    BY <1>2, <5>1, <5>2, <5>3
            <4>5. PICK x \in Int, y \in Int : x = o.DCCIBNR /\ y = o.AOEIBNR
                BY <1>4 DEF IntReserve, Reserve
            <4>6. /\ SumOver(o, Reserve) = 0 + 0 + 0 + x + 0 + y + 0
                  /\ SumOver(s, Reserve) = 0 + 0 + x + 0 + y + 0 + 0
                BY <3>8, <3>9, <4>1, <4>3, <4>4, <4>5
            <4>. QED
                BY <4>6
        <3>. QED
            BY <2>1, <2>5, <3>7, <3>10
    <2>. QED
        BY <2>7, <2>8
<1>. QED
    BY <1>5, <1>6

LEMMA FixedBy ==
    ASSUME NEW x \in Int
    PROVE  -Unit <= 2 * (Whole(Fixed(x)) - x) /\ 2 * (Whole(Fixed(x)) - x) <= Unit
<1>1. CASE x < 0
    <2>1. PICK y \in Int : y = -x
        OBVIOUS
    <2>2. PICK c \in Int : c = Cents(y)
        BY CentsTypes
    <2>3. -Unit <= 2 * (Whole(c) - y) /\ 2 * (Whole(c) - y) <= Unit
        BY <2>2, RoundedBy
    <2>4. Fixed(x) = -c
        BY <1>1, <2>1, <2>2 DEF Fixed
    <2>. QED
        BY <2>1, <2>3, <2>4 DEF Whole, Unit
<1>2. CASE ~ (x < 0)
    BY <1>2, RoundedBy DEF Fixed
<1>. QED
    BY <1>1, <1>2

\* One heading of LAE in a FUT month: paid and unpaid leave the ultimate.
LEMMA FutHeading ==
    ASSUME NEW lae \in Int, NEW paid \in Int, NEW due \in Int, NEW q \in Int, NEW p \in Int,
           NEW f \in Int,
           -Unit <= 2 * (Whole(f) - (Whole(p) + (due - Whole(paid + (lae - q))))),
           2 * (Whole(f) - (Whole(p) + (due - Whole(paid + (lae - q))))) <= Unit
    PROVE  LET e == 2 * (Whole(lae + f) - Whole(q + p) - (due - Whole(paid)))
           IN  -Unit <= e /\ e <= Unit
  BY DEF Whole, Unit

\* What a heading's reserves come to does not depend on what they open with.
LEMMA HeadingMoves ==
    ASSUME NEW lae \in Int, NEW paid \in Int, NEW due \in Int, NEW q \in Int
    PROVE  Whole(lae - q) + (due - Whole(paid + (lae - q))) = due - Whole(paid)
  BY DEF Whole, Unit

LEMMA ShareOfNone == \A x \in Int : Share(x, 0) = 0
  BY DEF Share, Unit

\* Over a FUT month the reserves stored move by what the statement says, but for the
\* rounding of three of them.
LEMMA FutMonth ==
    ASSUME SInv, NEW k \in Month, exhibits[k] # None, SourceOf(k) = "FUT", Settled(k),
           OneKind(k), CarriedInFull(k),
           k > 1 => exhibits[k - 1] # None /\ Settled(k - 1) /\ KindOf(k - 1) = KindOf(k)
    PROVE  \E e \in Int :
               /\ e = 2 * (Whole(SumOver(ClosingOf(k), Reserve))
                             - Whole(SumOver(OpeningOf(k), Reserve))
                             - SumOver(ChangeOf(k), Reserve))
               /\ -(3 * Unit) <= e /\ e <= 3 * Unit
<1>1. k \in Workbook /\ k # 0 /\ Shelf(exhibits)
    BY WorkbookFacts DEF Month, SInv
<1>2. PICK prev, c, kind, rate, E :
          /\ prev = Previous(exhibits, k) /\ c = exhibits[k].now /\ kind = KindOf(k)
          /\ rate = RateOf(k) /\ E = EarnedOf(exhibits, k)
    OBVIOUS
<1>3. PICK o \in IntReserve, s \in IntReserve, x \in IntReserve :
          o = OpeningOf(k) /\ s = ClosingOf(k) /\ x = ChangeOf(k)
    BY <1>1, MonthTypes
<1>4. PICK h, p, q :
          /\ h = ChangeIn(c, prev, Found(k)) /\ p = Prior(prev) /\ q = Carries(prev)
          /\ h \in IntReserve
          /\ q.Loss \in Int /\ q.DCC \in Int /\ q.AOE \in Int
          /\ p.loss_ibnr \in Int /\ p.lae_ibnr_dcc \in Int /\ p.lae_ibnr_aoe \in Int
          /\ p.ulae_ibnr \in Int
          /\ h.LossIBNR \in Int /\ h.ULAEIBNR \in Int
          /\ c.laep \in Int /\ c.lp \in Int /\ c.lu \in Int /\ c.laeu \in Int /\ c.aeu \in Int
    <2>1. c \in Column /\ Found(k) \in Rates /\ (prev = None \/ prev \in Exhibit)
        BY <1>1, <1>2, MonthTypes, FoundTypes, PreviousTypes
    <2>2. PICK h \in IntReserve : h = ChangeIn(c, prev, Found(k))
        BY <2>1, ChangeInTypes
    <2>3. PICK p, q : p = Prior(prev) /\ q = Carries(prev)
        OBVIOUS
    <2>4. q.Loss \in Int /\ q.DCC \in Int /\ q.AOE \in Int
        BY <2>1, <2>3, CarriedTypes DEF Carries, EnteredField, ReserveField, IBNRField
    <2>5. /\ p.loss_ibnr \in Int /\ p.lae_ibnr_dcc \in Int /\ p.lae_ibnr_aoe \in Int
          /\ p.ulae_ibnr \in Int
        BY <2>1, <2>3, PriorTypes DEF IBNRField
    <2>6. /\ c.laep \in Int /\ c.lp \in Int /\ c.lu \in Int /\ c.laeu \in Int /\ c.aeu \in Int
        BY <2>1 DEF Column, EnteredField
    <2>7. h.LossIBNR \in Int /\ h.ULAEIBNR \in Int
        BY <2>2 DEF IntReserve, Reserve
    <2>. QED
        BY <2>2, <2>3, <2>4, <2>5, <2>6, <2>7
<1>5. /\ E \in Int /\ Share(E, rate.laeDcc) \in Int /\ Share(E, rate.laeAoe) \in Int
      /\ Share(E, rate.lossPick) \in Int
    <2>1. E \in Int /\ rate \in IntRates
        BY <1>1, <1>2, MonthTypes
    <2>2. rate.laeDcc \in Int /\ rate.laeAoe \in Int /\ rate.lossPick \in Int
        BY <2>1 DEF IntRates, RateField
    <2>. QED
        BY <2>1, <2>2, ShareTypes
<1>6. rate = Over(Found(k), StatementDefaults) /\ kind = KindOf(k) /\ kind = Kind(rate)
    BY <1>2 DEF RateOf, KindOf
<1>7. PICK lae \in Int : lae = c.laeu + c.aeu
    BY <1>4
<1>8. o.Loss \in Int /\ q.Loss \in Int /\ x.LossIBNR \in Int /\ x.ULAEIBNR \in Int
      /\ q.DCC \in Int /\ q.AOE \in Int /\ p.loss_ibnr \in Int /\ p.lae_ibnr_dcc \in Int
      /\ p.lae_ibnr_aoe \in Int /\ p.ulae_ibnr \in Int
      /\ o.DCC \in Int /\ o.DCCIBNR \in Int /\ o.AOE \in Int /\ o.AOEIBNR \in Int
    BY <1>3, <1>4 DEF IntReserve, Reserve
<1>9. /\ x.Loss = Whole(c.lu - o.Loss)
      /\ x.LossIBNR = Share(E, rate.lossPick) - Whole(c.lp + (c.lu - o.Loss))
      /\ x.DCC = Whole(Under("dcc", kind, lae) - o.DCC)
      /\ x.DCCIBNR = Share(E, rate.laeDcc)
                        - Whole(Under("dcc", kind, c.laep) + (Under("dcc", kind, lae) - o.DCC))
      /\ x.AOE = Whole(Under("aoe", kind, lae) - o.AOE)
      /\ x.AOEIBNR = Share(E, rate.laeAoe)
                        - Whole(Under("aoe", kind, c.laep) + (Under("aoe", kind, lae) - o.AOE))
      /\ x.ULAEIBNR = ChangeInULAE(x.Loss, x.LossIBNR)
    <2>1. x = FutChange(c, o, E, rate, kind)
        BY <1>2, <1>3 DEF ChangeOf, Change, OpeningOf
    <2>. QED
        BY <1>7, <2>1, FutParts
<1>10. /\ h.Loss = Whole(c.lu - q.Loss)
       /\ h.LossIBNR = Share(E, rate.lossPick) - Whole(c.lp + (c.lu - q.Loss))
       /\ h.DCCIBNR = Share(E, rate.laeDcc)
                         - Whole(Under("dcc", kind, c.laep) + (Under("dcc", kind, lae) - q.DCC))
       /\ h.AOEIBNR = Share(E, rate.laeAoe)
                         - Whole(Under("aoe", kind, c.laep) + (Under("aoe", kind, lae) - q.AOE))
       /\ h.ULAEIBNR = ChangeInULAE(h.Loss, h.LossIBNR)
    <2>1. EarnedIn(c, prev) = E
        <3>1. PICK u \in Int : u = CarriedAlone(prev, "uep")
            BY <1>1, <1>2, PreviousTypes, CarriedTypes DEF EnteredField
        <3>2. OpeningUEP(exhibits, k) = u
            BY <1>2, <3>1 DEF OpeningUEP, CarriedAlone
        <3>3. PICK i \in Int, j \in Int : i = c.pw /\ j = c.uep
            BY <1>1, <1>2, MonthTypes DEF Column, EnteredField
        <3>4. EarnedIn(c, prev) = i + u - j /\ E = i + (u - j)
            BY <1>2, <3>1, <3>2, <3>3 DEF EarnedIn, EarnedOf
        <3>. QED
            BY <3>4
    <2>2. h = FutChange(c, q, E, rate, kind)
        BY <1>4, <1>6, <2>1 DEF ChangeIn
    <2>. QED
        BY <1>7, <2>2, FutParts
<1>11. /\ c.loss_reserves = c.lu
       /\ c.lae_reserves_dcc = Under("dcc", kind, lae)
       /\ c.lae_reserves_aoe = Under("aoe", kind, lae)
       /\ c.loss_ibnr = Fixed(Whole(p.loss_ibnr) + h.LossIBNR)
       /\ c.lae_ibnr_dcc = Under("dcc", kind, Fixed(Whole(p.lae_ibnr_dcc) + h.DCCIBNR))
       /\ c.lae_ibnr_aoe = Under("aoe", kind, Fixed(Whole(p.lae_ibnr_aoe) + h.AOEIBNR))
       /\ c.ulae_ibnr = Fixed(Whole(p.ulae_ibnr) + h.ULAEIBNR)
    BY <1>1, <1>2, <1>4, <1>7, SettledFut
<1>12. /\ s.Loss = c.loss_reserves /\ s.LossIBNR = c.loss_ibnr
       /\ s.DCC = Under("dcc", kind, c.lae_reserves_dcc + c.lae_reserves_aoe)
       /\ s.DCCIBNR = Under("dcc", kind, c.lae_ibnr_dcc + c.lae_ibnr_aoe)
       /\ s.AOE = Under("aoe", kind, c.lae_reserves_dcc + c.lae_reserves_aoe)
       /\ s.AOEIBNR = Under("aoe", kind, c.lae_ibnr_dcc + c.lae_ibnr_aoe)
       /\ s.ULAEIBNR = c.ulae_ibnr
    <2>1. s = Stored(c, kind)
        BY <1>2, <1>3 DEF ClosingOf
    <2>. QED
        BY <2>1, StoredParts
<1>13. /\ o.Loss = q.Loss /\ o.LossIBNR = p.loss_ibnr /\ o.ULAEIBNR = p.ulae_ibnr
       /\ o.DCC + o.DCCIBNR = Under("dcc", kind, q.DCC + p.lae_ibnr_dcc)
       /\ o.AOE + o.AOEIBNR = Under("aoe", kind, q.AOE + p.lae_ibnr_aoe)
       /\ kind # "dcc" => o.DCC = 0 /\ q.DCC = 0
       /\ kind # "aoe" => o.AOE = 0 /\ q.AOE = 0
    BY <1>2, <1>3, <1>4, FutOpens
<1>14. x.Loss = h.Loss /\ x.LossIBNR = h.LossIBNR /\ x.ULAEIBNR = h.ULAEIBNR
    BY <1>9, <1>10, <1>13
<1>15. PICK e15 \in Int :
          /\ e15 = 2 * (Whole(s.DCC + s.DCCIBNR) - Whole(o.DCC + o.DCCIBNR) - (x.DCC + x.DCCIBNR))
          /\ -Unit <= e15 /\ e15 <= Unit /\ (kind # "dcc" => e15 = 0)
    <2>1. CASE kind = "dcc"
        <3>1. PICK due \in Int : due = Share(E, rate.laeDcc)
            BY <1>5, <1>6
        <3>2. x.DCC + x.DCCIBNR = due - Whole(c.laep)
            <4>1. PICK a \in Int : a = o.DCC
                BY <1>8
            <4>2. x.DCC = Whole(lae - a) /\ x.DCCIBNR = due - Whole(c.laep + (lae - a))
                BY <1>9, <2>1, <3>1, <4>1 DEF Under
            <4>. QED
                BY <1>4, <1>7, <4>2, HeadingMoves
        <3>3. PICK g \in Int : g = Whole(p.lae_ibnr_dcc) + (due - Whole(c.laep + (lae - q.DCC)))
            BY <1>4, <1>7, <1>8, WholeTypes
        <3>4. h.DCCIBNR = due - Whole(c.laep + (lae - q.DCC))
            BY <1>10, <2>1, <3>1 DEF Under
        <3>5. PICK f \in Int : f = Fixed(g)
            BY CentsTypes
        <3>6. -Unit <= 2 * (Whole(f) - g) /\ 2 * (Whole(f) - g) <= Unit
            BY <3>5, FixedBy
        <3>7. s.DCC = lae /\ s.DCCIBNR = f
            <4>1. /\ c.lae_reserves_dcc = lae /\ c.lae_reserves_aoe = 0
                  /\ c.lae_ibnr_dcc = f /\ c.lae_ibnr_aoe = 0
                BY <1>7, <1>11, <2>1, <3>3, <3>4, <3>5 DEF Under
            <4>. QED
                BY <1>7, <1>12, <2>1, <3>5, <4>1 DEF Under
        <3>8. o.DCC + o.DCCIBNR = q.DCC + p.lae_ibnr_dcc
            BY <1>13, <2>1 DEF Under
        <3>9. PICK a \in Int, b \in Int, w \in Int : a = q.DCC /\ b = p.lae_ibnr_dcc /\ w = c.laep
            BY <1>4, <1>8
        <3>10. /\ -Unit <= 2 * (Whole(f) - (Whole(b) + (due - Whole(w + (lae - a)))))
               /\ 2 * (Whole(f) - (Whole(b) + (due - Whole(w + (lae - a))))) <= Unit
            BY <3>3, <3>6, <3>9
        <3>11. PICK e \in Int : e = 2 * (Whole(lae + f) - Whole(a + b) - (due - Whole(w)))
            BY <1>7 DEF Whole, Unit
        <3>12. -Unit <= e /\ e <= Unit
            BY <1>7, <3>10, <3>11 DEF Whole, Unit
        <3>. QED
            BY <2>1, <3>2, <3>7, <3>8, <3>9, <3>11, <3>12
    <2>2. CASE kind # "dcc"
        <3>1. o.DCC = 0 /\ o.DCCIBNR = 0
            BY <1>8, <1>13, <2>2 DEF Under
        <3>2. s.DCC = 0 /\ s.DCCIBNR = 0
            BY <1>12, <2>2 DEF Under
        <3>3. rate.laeDcc = 0
            BY <1>6, <2>2 DEF OneKind, RateOf
        <3>4. x.DCC = 0 /\ x.DCCIBNR = 0
            <4>1. Share(E, rate.laeDcc) = 0 /\ Whole(0) = 0
                BY <1>5, <3>3, ShareOfNone DEF Whole, Unit
            <4>. QED
                BY <1>9, <2>2, <3>1, <4>1 DEF Under
        <3>5. PICK e \in Int : e = 0
            OBVIOUS
        <3>6. e = 2 * (Whole(0 + 0) - Whole(0 + 0) - (0 + 0)) /\ -Unit <= e /\ e <= Unit
            BY <3>5 DEF Whole, Unit
        <3>. QED
            BY <2>2, <3>1, <3>2, <3>4, <3>5, <3>6
    <2>. QED
        BY <2>1, <2>2
<1>16. PICK e16 \in Int :
          /\ e16 = 2 * (Whole(s.AOE + s.AOEIBNR) - Whole(o.AOE + o.AOEIBNR) - (x.AOE + x.AOEIBNR))
          /\ -Unit <= e16 /\ e16 <= Unit /\ (kind # "aoe" => e16 = 0)
    <2>1. CASE kind = "aoe"
        <3>1. PICK due \in Int : due = Share(E, rate.laeAoe)
            BY <1>5, <1>6
        <3>2. x.AOE + x.AOEIBNR = due - Whole(c.laep)
            <4>1. PICK a \in Int : a = o.AOE
                BY <1>8
            <4>2. x.AOE = Whole(lae - a) /\ x.AOEIBNR = due - Whole(c.laep + (lae - a))
                BY <1>9, <2>1, <3>1, <4>1 DEF Under
            <4>. QED
                BY <1>4, <1>7, <4>2, HeadingMoves
        <3>3. PICK g \in Int : g = Whole(p.lae_ibnr_aoe) + (due - Whole(c.laep + (lae - q.AOE)))
            BY <1>4, <1>7, <1>8, WholeTypes
        <3>4. h.AOEIBNR = due - Whole(c.laep + (lae - q.AOE))
            BY <1>10, <2>1, <3>1 DEF Under
        <3>5. PICK f \in Int : f = Fixed(g)
            BY CentsTypes
        <3>6. -Unit <= 2 * (Whole(f) - g) /\ 2 * (Whole(f) - g) <= Unit
            BY <3>5, FixedBy
        <3>7. s.AOE = lae /\ s.AOEIBNR = f
            <4>1. /\ c.lae_reserves_aoe = lae /\ c.lae_reserves_dcc = 0
                  /\ c.lae_ibnr_aoe = f /\ c.lae_ibnr_dcc = 0
                BY <1>7, <1>11, <2>1, <3>3, <3>4, <3>5 DEF Under
            <4>. QED
                BY <1>7, <1>12, <2>1, <3>5, <4>1 DEF Under
        <3>8. o.AOE + o.AOEIBNR = q.AOE + p.lae_ibnr_aoe
            BY <1>13, <2>1 DEF Under
        <3>9. PICK a \in Int, b \in Int, w \in Int : a = q.AOE /\ b = p.lae_ibnr_aoe /\ w = c.laep
            BY <1>4, <1>8
        <3>10. /\ -Unit <= 2 * (Whole(f) - (Whole(b) + (due - Whole(w + (lae - a)))))
               /\ 2 * (Whole(f) - (Whole(b) + (due - Whole(w + (lae - a))))) <= Unit
            BY <3>3, <3>6, <3>9
        <3>11. PICK e \in Int : e = 2 * (Whole(lae + f) - Whole(a + b) - (due - Whole(w)))
            BY <1>7 DEF Whole, Unit
        <3>12. -Unit <= e /\ e <= Unit
            BY <1>7, <3>10, <3>11 DEF Whole, Unit
        <3>. QED
            BY <2>1, <3>2, <3>7, <3>8, <3>9, <3>11, <3>12
    <2>2. CASE kind # "aoe"
        <3>1. o.AOE = 0 /\ o.AOEIBNR = 0
            BY <1>8, <1>13, <2>2 DEF Under
        <3>2. s.AOE = 0 /\ s.AOEIBNR = 0
            BY <1>12, <2>2 DEF Under
        <3>3. rate.laeAoe = 0
            BY <1>6, <2>2 DEF OneKind, RateOf
        <3>4. x.AOE = 0 /\ x.AOEIBNR = 0
            <4>1. Share(E, rate.laeAoe) = 0 /\ Whole(0) = 0
                BY <1>5, <3>3, ShareOfNone DEF Whole, Unit
            <4>. QED
                BY <1>9, <2>2, <3>1, <4>1 DEF Under
        <3>5. PICK e \in Int : e = 0
            OBVIOUS
        <3>6. e = 2 * (Whole(0 + 0) - Whole(0 + 0) - (0 + 0)) /\ -Unit <= e /\ e <= Unit
            BY <3>5 DEF Whole, Unit
        <3>. QED
            BY <2>2, <3>1, <3>2, <3>4, <3>5, <3>6
    <2>. QED
        BY <2>1, <2>2
<1>17. PICK e17 \in Int :
          /\ e17 = 2 * (Whole(s.LossIBNR) - Whole(o.LossIBNR) - x.LossIBNR) /\ -Unit <= e17 /\ e17 <= Unit
    <2>1. PICK g \in Int : g = Whole(p.loss_ibnr) + h.LossIBNR
        BY <1>4, <1>8, WholeTypes
    <2>2. PICK y \in Int : y = Fixed(g)
        BY CentsTypes
    <2>3. -Unit <= 2 * (Whole(y) - g) /\ 2 * (Whole(y) - g) <= Unit
        BY <2>2, FixedBy
    <2>4. s.LossIBNR = y /\ o.LossIBNR = p.loss_ibnr /\ x.LossIBNR = h.LossIBNR
        BY <1>11, <1>12, <1>13, <1>14, <2>1, <2>2
    <2>5. PICK a \in Int, b \in Int : a = p.loss_ibnr /\ b = h.LossIBNR
        BY <1>4, <1>8
    <2>6. PICK e \in Int : e = 2 * (Whole(y) - Whole(a) - b)
        BY DEF Whole, Unit
    <2>7. -Unit <= e /\ e <= Unit
        BY <2>1, <2>3, <2>5, <2>6 DEF Whole, Unit
    <2>. QED
        BY <2>4, <2>5, <2>6, <2>7
<1>18. PICK e18 \in Int :
          /\ e18 = 2 * (Whole(s.ULAEIBNR) - Whole(o.ULAEIBNR) - x.ULAEIBNR) /\ -Unit <= e18 /\ e18 <= Unit
    <2>1. PICK g \in Int : g = Whole(p.ulae_ibnr) + h.ULAEIBNR
        BY <1>4, <1>8, WholeTypes
    <2>2. PICK y \in Int : y = Fixed(g)
        BY CentsTypes
    <2>3. -Unit <= 2 * (Whole(y) - g) /\ 2 * (Whole(y) - g) <= Unit
        BY <2>2, FixedBy
    <2>4. s.ULAEIBNR = y /\ o.ULAEIBNR = p.ulae_ibnr /\ x.ULAEIBNR = h.ULAEIBNR
        BY <1>11, <1>12, <1>13, <1>14, <2>1, <2>2
    <2>5. PICK a \in Int, b \in Int : a = p.ulae_ibnr /\ b = h.ULAEIBNR
        BY <1>4, <1>8
    <2>6. PICK e \in Int : e = 2 * (Whole(y) - Whole(a) - b)
        BY DEF Whole, Unit
    <2>7. -Unit <= e /\ e <= Unit
        BY <2>1, <2>3, <2>5, <2>6 DEF Whole, Unit
    <2>. QED
        BY <2>4, <2>5, <2>6, <2>7
<1>19. Whole(s.Loss) - Whole(o.Loss) - x.Loss = 0
    <2>1. PICK a \in Int, b \in Int : a = c.lu /\ b = o.Loss
        BY <1>4, <1>8
    <2>2. s.Loss = a /\ x.Loss = Whole(a - b)
        BY <1>9, <1>11, <1>12, <2>1
    <2>. QED
        BY <2>1, <2>2 DEF Whole, Unit
<1>20. PICK e \in Int : e = e15 + e16 + e17 + e18
    OBVIOUS
<1>21. -(3 * Unit) <= e /\ e <= 3 * Unit
    <2>1. e15 = 0 \/ e16 = 0
        BY <1>15, <1>16
    <2>2. CASE e15 = 0
        BY <1>16, <1>17, <1>18, <1>20, <2>2 DEF Unit
    <2>3. CASE e16 = 0
        BY <1>15, <1>17, <1>18, <1>20, <2>3 DEF Unit
    <2>. QED
        BY <2>1, <2>2, <2>3
<1>22. e = 2 * (Whole(SumOver(s, Reserve)) - Whole(SumOver(o, Reserve)) - SumOver(x, Reserve))
    <2>1. PICK a1 \in Int, a2 \in Int, a3 \in Int, a4 \in Int, a5 \in Int, a6 \in Int, a7 \in Int :
              /\ a1 = s.Loss /\ a2 = s.LossIBNR /\ a3 = s.DCC /\ a4 = s.DCCIBNR /\ a5 = s.AOE
              /\ a6 = s.AOEIBNR /\ a7 = s.ULAEIBNR
              /\ SumOver(s, Reserve) = a1 + a2 + a3 + a4 + a5 + a6 + a7
        <3>1. /\ s.Loss \in Int /\ s.LossIBNR \in Int /\ s.DCC \in Int /\ s.DCCIBNR \in Int
              /\ s.AOE \in Int /\ s.AOEIBNR \in Int /\ s.ULAEIBNR \in Int
              /\ SumOver(s, Reserve) = s.Loss + s.LossIBNR + s.DCC + s.DCCIBNR + s.AOE
                                          + s.AOEIBNR + s.ULAEIBNR
            BY <1>3, ReserveSum
        <3>. QED
            BY <3>1
    <2>2. PICK b1 \in Int, b2 \in Int, b3 \in Int, b4 \in Int, b5 \in Int, b6 \in Int, b7 \in Int :
              /\ b1 = o.Loss /\ b2 = o.LossIBNR /\ b3 = o.DCC /\ b4 = o.DCCIBNR /\ b5 = o.AOE
              /\ b6 = o.AOEIBNR /\ b7 = o.ULAEIBNR
              /\ SumOver(o, Reserve) = b1 + b2 + b3 + b4 + b5 + b6 + b7
        <3>1. /\ o.Loss \in Int /\ o.LossIBNR \in Int /\ o.DCC \in Int /\ o.DCCIBNR \in Int
              /\ o.AOE \in Int /\ o.AOEIBNR \in Int /\ o.ULAEIBNR \in Int
              /\ SumOver(o, Reserve) = o.Loss + o.LossIBNR + o.DCC + o.DCCIBNR + o.AOE
                                          + o.AOEIBNR + o.ULAEIBNR
            BY <1>3, ReserveSum
        <3>. QED
            BY <3>1
    <2>3. PICK x1 \in Int, x2 \in Int, x3 \in Int, x4 \in Int, x5 \in Int, x6 \in Int, x7 \in Int :
              /\ x1 = x.Loss /\ x2 = x.LossIBNR /\ x3 = x.DCC /\ x4 = x.DCCIBNR /\ x5 = x.AOE
              /\ x6 = x.AOEIBNR /\ x7 = x.ULAEIBNR
              /\ SumOver(x, Reserve) = x1 + x2 + x3 + x4 + x5 + x6 + x7
        <3>1. /\ x.Loss \in Int /\ x.LossIBNR \in Int /\ x.DCC \in Int /\ x.DCCIBNR \in Int
              /\ x.AOE \in Int /\ x.AOEIBNR \in Int /\ x.ULAEIBNR \in Int
              /\ SumOver(x, Reserve) = x.Loss + x.LossIBNR + x.DCC + x.DCCIBNR + x.AOE
                                          + x.AOEIBNR + x.ULAEIBNR
            BY <1>3, ReserveSum
        <3>. QED
            BY <3>1
    <2>4. /\ e15 = 2 * (Whole(a3 + a4) - Whole(b3 + b4) - (x3 + x4))
          /\ e16 = 2 * (Whole(a5 + a6) - Whole(b5 + b6) - (x5 + x6))
          /\ e17 = 2 * (Whole(a2) - Whole(b2) - x2) /\ e18 = 2 * (Whole(a7) - Whole(b7) - x7)
          /\ Whole(a1) - Whole(b1) - x1 = 0
        BY <1>15, <1>16, <1>17, <1>18, <1>19, <2>1, <2>2, <2>3
    <2>5. e = 2 * (Whole(a1 + a2 + a3 + a4 + a5 + a6 + a7) - Whole(b1 + b2 + b3 + b4 + b5 + b6 + b7)
                     - (x1 + x2 + x3 + x4 + x5 + x6 + x7))
        BY <1>20, <2>4 DEF Whole, Unit
    <2>. QED
        BY <2>1, <2>2, <2>3, <2>5
<1>. QED
    BY <1>3, <1>21, <1>22

\* A month of stored reserves moves them exactly.
LEMMA RestingMonth ==
    ASSUME SInv, NEW k \in Month, exhibits[k] # None, SourceOf(k) # "FUT", Rests(exhibits, k)
    PROVE  /\ \A x \in Reserve : ChangeOf(k)[x] = Whole(ClosingOf(k)[x] - OpeningOf(k)[x])
           /\ \E e \in Int :
                  /\ e = 2 * (Whole(SumOver(ClosingOf(k), Reserve))
                                - Whole(SumOver(OpeningOf(k), Reserve))
                                - SumOver(ChangeOf(k), Reserve))
                  /\ -(3 * Unit) <= e /\ e <= 3 * Unit
<1>1. k \in Workbook
    BY WorkbookFacts
<1>2. PICK o \in IntReserve, s \in IntReserve, x \in IntReserve :
          o = OpeningOf(k) /\ s = ClosingOf(k) /\ x = ChangeOf(k)
    BY <1>1, MonthTypes
<1>3. x = [y \in Reserve |-> Whole(s[y] - o[y])]
    BY <1>2 DEF ChangeOf, Change, ClosingOf, OpeningOf
<1>4. \A y \in Reserve : x[y] = Whole(s[y] - o[y])
    BY <1>3
<1>5. PICK a1 \in Int, a2 \in Int, a3 \in Int, a4 \in Int, a5 \in Int, a6 \in Int, a7 \in Int :
          /\ a1 = s.Loss /\ a2 = s.LossIBNR /\ a3 = s.DCC /\ a4 = s.DCCIBNR /\ a5 = s.AOE
          /\ a6 = s.AOEIBNR /\ a7 = s.ULAEIBNR
    BY <1>2 DEF IntReserve, Reserve
<1>6. PICK b1 \in Int, b2 \in Int, b3 \in Int, b4 \in Int, b5 \in Int, b6 \in Int, b7 \in Int :
          /\ b1 = o.Loss /\ b2 = o.LossIBNR /\ b3 = o.DCC /\ b4 = o.DCCIBNR /\ b5 = o.AOE
          /\ b6 = o.AOEIBNR /\ b7 = o.ULAEIBNR
    BY <1>2 DEF IntReserve, Reserve
<1>7. SumOver(s, Reserve) = a1 + a2 + a3 + a4 + a5 + a6 + a7
    BY <1>2, <1>5, ReserveSum
<1>8. SumOver(o, Reserve) = b1 + b2 + b3 + b4 + b5 + b6 + b7
    BY <1>2, <1>6, ReserveSum
<1>9. SumOver(x, Reserve) = Whole(a1 - b1) + Whole(a2 - b2) + Whole(a3 - b3) + Whole(a4 - b4)
                              + Whole(a5 - b5) + Whole(a6 - b6) + Whole(a7 - b7)
    <2>1. SumOver(x, Reserve) = x.Loss + x.LossIBNR + x.DCC + x.DCCIBNR + x.AOE + x.AOEIBNR
                                  + x.ULAEIBNR
        BY <1>2, ReserveSum
    <2>2. /\ x.Loss = Whole(a1 - b1) /\ x.LossIBNR = Whole(a2 - b2) /\ x.DCC = Whole(a3 - b3)
          /\ x.DCCIBNR = Whole(a4 - b4) /\ x.AOE = Whole(a5 - b5) /\ x.AOEIBNR = Whole(a6 - b6)
          /\ x.ULAEIBNR = Whole(a7 - b7)
        BY <1>4, <1>5, <1>6 DEF Reserve
    <2>. QED
        BY <2>1, <2>2
<1>10. 2 * (Whole(SumOver(s, Reserve)) - Whole(SumOver(o, Reserve)) - SumOver(x, Reserve)) = 0
    BY <1>7, <1>8, <1>9 DEF Whole, Unit
<1>11. PICK e \in Int : e = 0 /\ -(3 * Unit) <= e /\ e <= 3 * Unit
    BY DEF Unit
<1>. QED
    BY <1>2, <1>4, <1>10, <1>11

\* A chain of months up to m, each posted as it stands.
Chained(m) == \A k \in 1 .. m : k \in OnFile /\ PostedInChain(k)

LEMMA ChainFacts ==
    ASSUME SInv, NEW m \in Month, Chained(m), NEW k \in 1 .. m
    PROVE  /\ k \in Month /\ k \in Workbook /\ exhibits[k] # None /\ SourceOf(k) = source
           /\ posted[k] = Entries(GLValues(exhibits, k, Found(k))) /\ OneKind(k)
           /\ KindOf(k) = KindOf(1)
           /\ source = "FUT" => Settled(k) /\ CarriedInFull(k)
           /\ source # "FUT" => Rests(exhibits, k)
           /\ k > 1 => exhibits[k - 1] # None /\ KindOf(k - 1) = KindOf(k)
                         /\ (source = "FUT" => Settled(k - 1))
<1>1. FinalMonth \in Nat /\ m \in Nat /\ m <= FinalMonth
    BY StatementAssumption DEF Month
<1>2. k \in Month /\ k \in Workbook /\ k # 0
    BY <1>1 DEF Month, Workbook
<1>3. \A j \in 1 .. m : j # 0 /\ SourceOf(j) = source
    BY <1>1 DEF SourceOf
<1>4. k > 1 => k - 1 \in 1 .. m
    BY <1>1
<1>5. \A j \in 1 .. m : exhibits[j] # None /\ PostedInChain(j)
    BY DEF Chained, OnFile
<1>6. \A j \in 1 .. m :
          /\ posted[j] = Entries(GLValues(exhibits, j, Found(j))) /\ OneKind(j)
          /\ KindOf(j) = KindOf(1)
          /\ source = "FUT" => Settled(j) /\ CarriedInFull(j)
          /\ source # "FUT" => Rests(exhibits, j)
    BY <1>3, <1>5 DEF PostedInChain
<1>. QED
    BY <1>2, <1>3, <1>4, <1>5, <1>6

LEMMA MonthMoves ==
    ASSUME SInv, NEW m \in Month, Chained(m), NEW k \in 1 .. m
    PROVE  \E e \in Int :
               /\ e = 2 * (Whole(SumOver(ClosingOf(k), Reserve))
                             - Whole(SumOver(OpeningOf(k), Reserve))
                             - SumOver(ChangeOf(k), Reserve))
               /\ -(3 * Unit) <= e /\ e <= 3 * Unit
<1>1. CASE source = "FUT"
    BY <1>1, ChainFacts, FutMonth
<1>2. CASE source # "FUT"
    BY <1>2, ChainFacts, RestingMonth
<1>. QED
    BY <1>1, <1>2

\* A month opens with what the month before it closes with.
LEMMA MonthFollows ==
    ASSUME SInv, NEW m \in Month, Chained(m), NEW k \in 1 .. m, k > 1
    PROVE  SumOver(OpeningOf(k), Reserve) = SumOver(ClosingOf(k - 1), Reserve)
<1>1. PICK prev : prev = Previous(exhibits, k)
    OBVIOUS
<1>2. k \in Month /\ k \in Workbook /\ k - 1 \in 1 .. m
    BY ChainFacts DEF Month
<1>3. prev = exhibits[k - 1] /\ prev # None
    BY <1>1, <1>2, ChainFacts DEF Previous
<1>4. KindOf(k - 1) = KindOf(k)
    BY ChainFacts
<1>5. CASE source = "FUT"
    <2>1. SumOver(OpeningOf(k), Reserve) = SumOver(Stored(prev.now, KindOf(k)), Reserve)
        <3>1. PICK kind, o, p, q : /\ kind = KindOf(k) /\ o = OpeningOf(k) /\ p = Prior(prev)
                                   /\ q = Carries(prev)
            OBVIOUS
        <3>2. /\ exhibits[k] # None /\ SourceOf(k) = "FUT" /\ CarriedInFull(k)
              /\ exhibits[k - 1] # None /\ Settled(k - 1) /\ KindOf(k - 1) = KindOf(k)
            BY <1>5, ChainFacts
        <3>3. prev # None => SumOver(o, Reserve) = SumOver(Stored(prev.now, kind), Reserve)
            BY <1>1, <1>2, <3>1, <3>2, FutOpens
        <3>. QED
            BY <1>3, <3>1, <3>3
    <2>. QED
        BY <1>3, <1>4, <2>1 DEF ClosingOf
<1>6. CASE source # "FUT"
    <2>1. SourceOf(k - 1) = source
        BY <1>2, ChainFacts
    <2>2. OpeningOf(k) = Stored(prev.now, KindOf(k))
        BY <1>1, <1>3, <1>6, <2>1 DEF OpeningOf, Opening
    <2>. QED
        BY <1>3, <1>4, <2>2 DEF ClosingOf
<1>. QED
    BY <1>5, <1>6

LEMMA ThreeAtMost ==
    ASSUME NEW a, NEW b, NEW c, NEW T \in SUBSET {a, b, c}
    PROVE  IsFiniteSet(T) /\ Cardinality(T) \in Nat /\ Cardinality(T) <= 3
<1>1. IsFiniteSet({}) /\ Cardinality({}) = 0
    BY FS_EmptySet
<1>2. PICK A : A = {} \cup {a}
    OBVIOUS
<1>3. IsFiniteSet(A) /\ Cardinality(A) \in Nat /\ Cardinality(A) <= 1
    BY <1>1, <1>2, FS_AddElement
<1>4. PICK B : B = A \cup {b}
    OBVIOUS
<1>5. IsFiniteSet(B) /\ Cardinality(B) \in Nat /\ Cardinality(B) <= 2
    BY <1>3, <1>4, FS_AddElement
<1>6. PICK C : C = B \cup {c}
    OBVIOUS
<1>7. IsFiniteSet(C) /\ Cardinality(C) \in Nat /\ Cardinality(C) <= 3
    BY <1>5, <1>6, FS_AddElement
<1>8. T \subseteq C
    BY <1>2, <1>4, <1>6
<1>9. IsFiniteSet(T) /\ Cardinality(T) <= Cardinality(C)
    BY <1>7, <1>8, FS_Subset
<1>10. Cardinality(T) \in Nat
    BY <1>9, FS_CardinalityType
<1>. QED
    BY <1>7, <1>9, <1>10

LEMMA WholeIsExact == \A n \in Int : Whole(n) % Unit = 0 /\ (-Whole(n)) % Unit = 0
  BY DEF Whole, Unit

LEMMA ZeroIsExact == 0 % Unit = 0 /\ (-0) % Unit = 0
  BY DEF Unit

\* Case reserves move by whole cents, and those of the heading not in use by none.
LEMMA ExactChanges ==
    ASSUME SInv, NEW m \in Month, Chained(m), NEW k \in 1 .. m, NEW x, x = ChangeOf(k)
    PROVE  /\ x.Loss % Unit = 0 /\ (-x.Loss) % Unit = 0
           /\ x.DCC % Unit = 0 /\ (-x.DCC) % Unit = 0
           /\ x.AOE % Unit = 0 /\ (-x.AOE) % Unit = 0
           /\ KindOf(k) # "dcc" => x.DCCIBNR % Unit = 0 /\ (-x.DCCIBNR) % Unit = 0
           /\ KindOf(k) # "aoe" => x.AOEIBNR % Unit = 0 /\ (-x.AOEIBNR) % Unit = 0
<1>1. /\ k \in Workbook /\ exhibits[k] # None /\ SourceOf(k) = source /\ OneKind(k)
      /\ source # "FUT" => Rests(exhibits, k)
    BY ChainFacts
<1>2. PICK c, E, rate, kind, o, s :
          /\ c = exhibits[k].now /\ E = EarnedOf(exhibits, k) /\ rate = RateOf(k)
          /\ kind = KindOf(k) /\ o = OpeningOf(k) /\ s = ClosingOf(k)
          /\ c \in Column /\ E \in Int /\ rate \in IntRates /\ o \in IntReserve /\ s \in IntReserve
    <2>1. /\ exhibits[k].now \in Column /\ EarnedOf(exhibits, k) \in Int /\ RateOf(k) \in IntRates
          /\ OpeningOf(k) \in IntReserve /\ ClosingOf(k) \in IntReserve
        BY <1>1, MonthTypes
    <2>. QED
        BY <2>1, Zenon
<1>3. \A y \in Reserve : o[y] \in Int /\ s[y] \in Int
    BY <1>2 DEF IntReserve
<1>4. /\ c.lu \in Int /\ c.laeu \in Int /\ c.aeu \in Int /\ c.laep \in Int
      /\ o.Loss \in Int /\ o.DCC \in Int /\ o.AOE \in Int
    BY <1>2, <1>3 DEF Column, EnteredField, Reserve
<1>5. CASE source = "FUT"
    <2>1. x = FutChange(c, o, E, rate, kind)
        BY <1>1, <1>2, <1>5 DEF ChangeOf, Change, OpeningOf
    <2>2. PICK lae \in Int : lae = c.laeu + c.aeu
        BY <1>4
    <2>3. PICK a \in Int, b \in Int, d \in Int :
              /\ a = c.lu - o.Loss /\ b = Under("dcc", kind, lae) - o.DCC
              /\ d = Under("aoe", kind, lae) - o.AOE
        BY <1>4, <2>2, UnderTypes
    <2>4. /\ x.Loss = Whole(a) /\ x.DCC = Whole(b) /\ x.AOE = Whole(d)
          /\ x.DCCIBNR = Share(E, rate.laeDcc) - Whole(Under("dcc", kind, c.laep) + b)
          /\ x.AOEIBNR = Share(E, rate.laeAoe) - Whole(Under("aoe", kind, c.laep) + d)
        BY <2>1, <2>2, <2>3, FutParts
    <2>5. ASSUME KindOf(k) # "dcc" PROVE x.DCCIBNR % Unit = 0 /\ (-x.DCCIBNR) % Unit = 0
        <3>1. rate.laeDcc = 0
            BY <1>1, <1>2, <2>5 DEF OneKind, RateOf
        <3>2. Under("dcc", kind, c.laep) + b = b
            BY <1>2, <2>5 DEF Under
        <3>3. x.DCCIBNR = 0 - Whole(b)
            BY <1>2, <2>4, <3>1, <3>2, ShareOfNone
        <3>. QED
            BY <3>3 DEF Whole, Unit
    <2>6. ASSUME KindOf(k) # "aoe" PROVE x.AOEIBNR % Unit = 0 /\ (-x.AOEIBNR) % Unit = 0
        <3>1. rate.laeAoe = 0
            BY <1>1, <1>2, <2>6 DEF OneKind, RateOf
        <3>2. Under("aoe", kind, c.laep) + d = d
            BY <1>2, <2>6 DEF Under
        <3>3. x.AOEIBNR = 0 - Whole(d)
            BY <1>2, <2>4, <3>1, <3>2, ShareOfNone
        <3>. QED
            BY <3>3 DEF Whole, Unit
    <2>. QED
        BY <2>4, <2>5, <2>6, WholeIsExact
<1>6. CASE source # "FUT"
    <2>1. \A y \in Reserve : x[y] = Whole(s[y] - o[y])
        BY <1>1, <1>2, <1>6, ChainFacts, RestingMonth
    <2>2. \A y \in Reserve : s[y] - o[y] \in Int
        BY <1>3
    <2>3. \A y \in Reserve : x[y] % Unit = 0 /\ (-x[y]) % Unit = 0
        BY <2>1, <2>2, WholeIsExact
    <2>. QED
        BY <2>3 DEF Reserve
<1>. QED
    BY <1>5, <1>6

LEMMA OnLiabilities ==
    ASSUME SInv, NEW m \in Month, Chained(m), NEW k \in 1 .. m
    PROVE  \E e \in Int :
               /\ e = 2 * (Whole(Net(posted[k], Liabilities)) + SumOver(ChangeOf(k), Reserve))
               /\ -(3 * Unit) <= e /\ e <= 3 * Unit
<1>1. PICK v : v = GLValues(exhibits, k, Found(k))
    OBVIOUS
<1>2. /\ k \in Workbook /\ exhibits[k] # None /\ posted[k] = Entries(v) /\ Shelf(exhibits)
    BY <1>1, ChainFacts DEF SInv
<1>3. IntValues(v)
    BY <1>1, <1>2, FoundTypes, ValuesAreInt DEF GLValues
<1>4. PICK x \in IntReserve : x = ChangeOf(k)
    BY <1>2, MonthTypes
<1>5. v.change = x
    BY <1>1, <1>2, <1>4, MonthTypes
<1>6. PICK R : R = RowsOf(Liabilities)
    OBVIOUS
<1>7. R = {18, 22, 30, 34, 42, 46, 54}
    BY <1>6, LiabilitiesRows
<1>8. Inexact(v, R) \subseteq {22, 34, 54} \/ Inexact(v, R) \subseteq {22, 46, 54}
    <2>1. /\ Figure(v, 18) = -x.Loss /\ Figure(v, 30) = -x.DCC
          /\ Figure(v, 34) = -x.DCCIBNR /\ Figure(v, 42) = -x.AOE
          /\ Figure(v, 46) = -x.AOEIBNR
        BY <1>3, <1>5, LossFigures, DCCFigures, AOEFigures
    <2>2. KindOf(k) # "dcc" \/ KindOf(k) # "aoe"
        OBVIOUS
    <2>3. /\ Figure(v, 18) % Unit = 0 /\ Figure(v, 30) % Unit = 0 /\ Figure(v, 42) % Unit = 0
          /\ Figure(v, 34) % Unit = 0 \/ Figure(v, 46) % Unit = 0
        BY <1>4, <2>1, <2>2, ExactChanges
    <2>4. \A i \in Inexact(v, R) : i \in R /\ Figure(v, i) % Unit # 0
        BY DEF Inexact
    <2>5. PICK I : I = Inexact(v, R)
        OBVIOUS
    <2>6. 18 \notin I /\ 30 \notin I /\ 42 \notin I /\ (34 \notin I \/ 46 \notin I)
        BY <2>3, <2>4, <2>5
    <2>7. I \subseteq {18, 22, 30, 34, 42, 46, 54}
        BY <1>7, <2>4, <2>5
    <2>. QED
        BY <2>5, <2>6, <2>7
<1>9. Cardinality(Inexact(v, R)) \in Nat /\ Cardinality(Inexact(v, R)) <= 3
    <2>1. PICK I, a, b, c, d : I = Inexact(v, R) /\ a = 22 /\ b = 34 /\ c = 46 /\ d = 54
        OBVIOUS
    <2>2. I \in SUBSET {a, b, d} \/ I \in SUBSET {a, c, d}
        BY <1>8, <2>1
    <2>3. Cardinality(I) \in Nat /\ Cardinality(I) <= 3
        BY <2>2, ThreeAtMost
    <2>. QED
        BY <2>1, <2>3
<1>10. R \in SUBSET TemplateRow
    BY <1>6 DEF RowsOf
<1>11. PICK n \in Int, c \in Int : n = Net(posted[k], Liabilities) /\ c = SumOver(x, Reserve)
    <2>1. Net(posted[k], Liabilities) \in Int
        BY <1>2, <1>3, <1>6, <1>10, RowSums DEF Net
    <2>2. /\ x.Loss \in Int /\ x.LossIBNR \in Int /\ x.DCC \in Int /\ x.DCCIBNR \in Int
          /\ x.AOE \in Int /\ x.AOEIBNR \in Int /\ x.ULAEIBNR \in Int
          /\ SumOver(x, Reserve) = x.Loss + x.LossIBNR + x.DCC + x.DCCIBNR + x.AOE + x.AOEIBNR
                                      + x.ULAEIBNR
        BY ReserveSum
    <2>3. SumOver(x, Reserve) \in Int
        BY <2>2
    <2>. QED
        BY <2>1, <2>3
<1>12. SumOver(FiguresOf(v), R) = -c
    BY <1>3, <1>5, <1>6, <1>11, LiabilitiesSum
<1>13. PICK e \in Int : e = 2 * (Whole(n) + c)
    BY DEF Whole, Unit
<1>14. Off(v, R) = e
    <2>1. Off(v, R) = 2 * (Whole(n) - (-c))
        BY <1>2, <1>6, <1>11, <1>12 DEF Off, Net
    <2>. QED
        BY <1>13, <2>1 DEF Whole, Unit
<1>15. PICK w \in Int : w = Slack(v, R) /\ w <= 3 * Unit
    BY <1>9 DEF Slack, Unit
<1>16. e \in -w .. w
    BY <1>3, <1>10, <1>14, <1>15, SumRounded
<1>17. -w <= e /\ e <= w
    BY <1>16
<1>18. -(3 * Unit) <= e /\ e <= 3 * Unit
    BY <1>15, <1>17 DEF Unit
<1>. QED
    BY <1>4, <1>11, <1>13, <1>18

LEMMA OnRecoverables ==
    ASSUME SInv, NEW m \in Month, Chained(m), NEW k \in 1 .. m
    PROVE  \E e \in Int :
               /\ e = 2 * (Whole(Net(posted[k], Recoverables)) - SumOver(ChangeOf(k), Reserve))
               /\ -(3 * Unit) <= e /\ e <= 3 * Unit
<1>1. PICK v : v = GLValues(exhibits, k, Found(k))
    OBVIOUS
<1>2. /\ k \in Workbook /\ exhibits[k] # None /\ posted[k] = Entries(v) /\ Shelf(exhibits)
    BY <1>1, ChainFacts DEF SInv
<1>3. IntValues(v)
    BY <1>1, <1>2, FoundTypes, ValuesAreInt DEF GLValues
<1>4. PICK x \in IntReserve : x = ChangeOf(k)
    BY <1>2, MonthTypes
<1>5. v.change = x
    BY <1>1, <1>2, <1>4, MonthTypes
<1>6. PICK R : R = RowsOf(Recoverables)
    OBVIOUS
<1>7. R = {19, 23, 31, 35, 43, 47, 55}
    BY <1>6, RecoverablesRows
<1>8. Inexact(v, R) \subseteq {23, 35, 55} \/ Inexact(v, R) \subseteq {23, 47, 55}
    <2>1. /\ Figure(v, 19) = x.Loss /\ Figure(v, 31) = x.DCC
          /\ Figure(v, 35) = x.DCCIBNR /\ Figure(v, 43) = x.AOE
          /\ Figure(v, 47) = x.AOEIBNR
        BY <1>3, <1>5, LossFigures, DCCFigures, AOEFigures
    <2>2. KindOf(k) # "dcc" \/ KindOf(k) # "aoe"
        OBVIOUS
    <2>3. /\ Figure(v, 19) % Unit = 0 /\ Figure(v, 31) % Unit = 0 /\ Figure(v, 43) % Unit = 0
          /\ Figure(v, 35) % Unit = 0 \/ Figure(v, 47) % Unit = 0
        BY <1>4, <2>1, <2>2, ExactChanges
    <2>4. \A i \in Inexact(v, R) : i \in R /\ Figure(v, i) % Unit # 0
        BY DEF Inexact
    <2>5. PICK I : I = Inexact(v, R)
        OBVIOUS
    <2>6. 19 \notin I /\ 31 \notin I /\ 43 \notin I /\ (35 \notin I \/ 47 \notin I)
        BY <2>3, <2>4, <2>5
    <2>7. I \subseteq {19, 23, 31, 35, 43, 47, 55}
        BY <1>7, <2>4, <2>5
    <2>. QED
        BY <2>5, <2>6, <2>7
<1>9. Cardinality(Inexact(v, R)) \in Nat /\ Cardinality(Inexact(v, R)) <= 3
    <2>1. PICK I, a, b, c, d : I = Inexact(v, R) /\ a = 23 /\ b = 35 /\ c = 47 /\ d = 55
        OBVIOUS
    <2>2. I \in SUBSET {a, b, d} \/ I \in SUBSET {a, c, d}
        BY <1>8, <2>1
    <2>3. Cardinality(I) \in Nat /\ Cardinality(I) <= 3
        BY <2>2, ThreeAtMost
    <2>. QED
        BY <2>1, <2>3
<1>10. R \in SUBSET TemplateRow
    BY <1>6 DEF RowsOf
<1>11. PICK n \in Int, c \in Int : n = Net(posted[k], Recoverables) /\ c = SumOver(x, Reserve)
    <2>1. Net(posted[k], Recoverables) \in Int
        BY <1>2, <1>3, <1>6, <1>10, RowSums DEF Net
    <2>2. /\ x.Loss \in Int /\ x.LossIBNR \in Int /\ x.DCC \in Int /\ x.DCCIBNR \in Int
          /\ x.AOE \in Int /\ x.AOEIBNR \in Int /\ x.ULAEIBNR \in Int
          /\ SumOver(x, Reserve) = x.Loss + x.LossIBNR + x.DCC + x.DCCIBNR + x.AOE + x.AOEIBNR
                                      + x.ULAEIBNR
        BY ReserveSum
    <2>3. SumOver(x, Reserve) \in Int
        BY <2>2
    <2>. QED
        BY <2>1, <2>3
<1>12. SumOver(FiguresOf(v), R) = c
    BY <1>3, <1>5, <1>6, <1>11, RecoverablesSum
<1>13. PICK e \in Int : e = 2 * (Whole(n) - c)
    BY DEF Whole, Unit
<1>14. Off(v, R) = e
    <2>1. Off(v, R) = 2 * (Whole(n) - (c))
        BY <1>2, <1>6, <1>11, <1>12 DEF Off, Net
    <2>. QED
        BY <1>13, <2>1 DEF Whole, Unit
<1>15. PICK w \in Int : w = Slack(v, R) /\ w <= 3 * Unit
    BY <1>9 DEF Slack, Unit
<1>16. e \in -w .. w
    BY <1>3, <1>10, <1>14, <1>15, SumRounded
<1>17. -w <= e /\ e <= w
    BY <1>16
<1>18. -(3 * Unit) <= e /\ e <= 3 * Unit
    BY <1>15, <1>17 DEF Unit
<1>. QED
    BY <1>4, <1>11, <1>13, <1>18

\* Sums along a chain: what is posted each month follows the change c, each month opens
\* at o with what the month before closed at, all within three half units.
LEMMA AlongChain ==
    ASSUME NEW m \in Nat \ {0}, NEW w, NEW c, NEW o,
           \A k \in 1 .. m : w[k] \in Int /\ c[k] \in Int /\ o[k] \in Int,
           \A k \in 1 .. m : /\ -(3 * Unit) <= 2 * (w[k] - c[k])
                             /\ 2 * (w[k] - c[k]) <= 3 * Unit,
           \A k \in 1 .. m : k > 1 =>
               /\ -(3 * Unit) <= 2 * (o[k] - o[k - 1] - c[k - 1])
               /\ 2 * (o[k] - o[k - 1] - c[k - 1]) <= 3 * Unit
    PROVE  /\ SumOver(w, 1 .. m) \in Int
           /\ -((4 * m - 2) * Unit) <= SumOver(w, 1 .. m) - (o[m] + c[m] - o[1])
           /\ SumOver(w, 1 .. m) - (o[m] + c[m] - o[1]) <= (4 * m - 2) * Unit
<1>. DEFINE Sound(n) ==
                /\ SumOver(w, 1 .. n) \in Int
                /\ -(600000 * (2 * n - 1)) <= 2 * (SumOver(w, 1 .. n) - (o[n] + c[n] - o[1]))
                /\ 2 * (SumOver(w, 1 .. n) - (o[n] + c[n] - o[1])) <= 600000 * (2 * n - 1)
            Bad == {n \in 1 .. m : ~ Sound(n)}
<1>1. \A n \in Nat : n <= m => IsFiniteSet(1 .. n) /\ \A k \in 1 .. n : w[k] \in Int
    <2>1. \A n \in Nat : n <= m => \A k \in 1 .. n : w[k] \in Int
        OBVIOUS
    <2>2. PICK a \in Int : a = 1
        OBVIOUS
    <2>3. \A n \in Nat : IsFiniteSet(a .. n)
        BY FS_Interval
    <2>. QED
        BY <2>1, <2>2, <2>3
<1>2. Sound(1)
    <2>1. PICK N, z : N = {} /\ z = 1
        OBVIOUS
    <2>2. IsFiniteSet(N) /\ SumOver(w, N) = 0 /\ (\A k \in N : w[k] \in Int) /\ z \notin N /\ w[z] \in Int
        BY <2>1, SumOfNone, FS_EmptySet
    <2>3. SumOver(w, N \cup {z}) = SumOver(w, N) + w[z]
        BY <2>2, SumPlus
    <2>4. N \cup {z} = 1 .. 1
        BY <2>1
    <2>5. PICK a \in Int, b \in Int, d \in Int : a = w[1] /\ b = c[1] /\ d = o[1]
        OBVIOUS
    <2>6. SumOver(w, 1 .. 1) = a
        BY <2>1, <2>2, <2>3, <2>4, <2>5
    <2>7. -600000 <= 2 * (a - b) /\ 2 * (a - b) <= 600000
        BY <2>5 DEF Unit
    <2>8. -(600000 * (2 * 1 - 1)) <= 2 * (a - (d + b - d)) /\ 2 * (a - (d + b - d)) <= 600000 * (2 * 1 - 1)
        BY <2>7
    <2>. QED
        BY <2>5, <2>6, <2>8
<1>3. ASSUME NEW n \in 1 .. m, n > 1, Sound(n - 1) PROVE Sound(n)
    <2>1. PICK i \in Nat : i = n - 1 /\ i \in 1 .. m /\ n \in Nat
        BY <1>3
    <2>2. IsFiniteSet(1 .. i) /\ (\A k \in 1 .. i : w[k] \in Int) /\ n \notin 1 .. i /\ w[n] \in Int
        BY <1>1, <2>1
    <2>3. PICK I : I = 1 .. i
        OBVIOUS
    <2>4. SumOver(w, I \cup {n}) = SumOver(w, I) + w[n]
        BY <2>2, <2>3, SumPlus
    <2>5. I \cup {n} = 1 .. n
        BY <2>1, <2>3
    <2>6. PICK s \in Int : s = SumOver(w, 1 .. i)
        BY <1>3, <2>1
    <2>7. SumOver(w, 1 .. n) = s + w[n]
        BY <2>3, <2>4, <2>5, <2>6
    <2>8. PICK a \in Int, b \in Int, d \in Int, e \in Int, f \in Int, g \in Int :
              a = w[n] /\ b = c[n] /\ d = o[n] /\ e = c[i] /\ f = o[i] /\ g = o[1]
        <3>1. n \in 1 .. m /\ i \in 1 .. m /\ 1 \in 1 .. m
            BY <2>1
        <3>2. /\ w[n] \in Int /\ c[n] \in Int /\ o[n] \in Int /\ c[i] \in Int /\ o[i] \in Int
              /\ o[1] \in Int
            BY <3>1
        <3>. QED
            BY <3>2
    <2>9. -600000 <= 2 * (a - b) /\ 2 * (a - b) <= 600000
        BY <2>8 DEF Unit
    <2>10. -600000 <= 2 * (d - f - e) /\ 2 * (d - f - e) <= 600000
        BY <1>3, <2>1, <2>8 DEF Unit
    <2>11. /\ -(600000 * (2 * i - 1)) <= 2 * (s - (f + e - g))
           /\ 2 * (s - (f + e - g)) <= 600000 * (2 * i - 1)
        BY <1>3, <2>1, <2>6, <2>8
    <2>12. /\ -(600000 * (2 * n - 1)) <= 2 * ((s + a) - (d + b - g))
           /\ 2 * ((s + a) - (d + b - g)) <= 600000 * (2 * n - 1)
        BY <2>1, <2>9, <2>10, <2>11
    <2>. QED
        BY <2>7, <2>8, <2>12
<1>4. Sound(m)
    <2>. HIDE DEF Sound
    <2>. SUFFICES ASSUME ~ Sound(m) PROVE FALSE
        OBVIOUS
    <2>0. Bad # {} /\ Bad \in SUBSET Nat
        OBVIOUS
    <2>1. PICK n \in Bad : \A j \in Nat : j < n => j \notin Bad
        <3>1. PICK B \in SUBSET Nat : B = Bad
            BY <2>0
        <3>2. B # {}
            BY <2>0, <3>1
        <3>3. \E n \in B : \A j \in Nat : j < n => j \notin B
            BY <3>2, SmallestNumber
        <3>. HIDE DEF Bad
        <3>. QED
            BY <3>1, <3>3
    <2>2. n \in 1 .. m /\ ~ Sound(n)
        BY <2>1
    <2>3. n > 1
        BY <1>2, <2>2
    <2>4. n - 1 \in 1 .. m /\ n - 1 \in Nat /\ n - 1 < n
        BY <2>2, <2>3
    <2>5. Sound(n - 1)
        BY <2>1, <2>4
    <2>. QED
        BY <1>3, <2>2, <2>3, <2>5
<1>5. PICK s \in Int, t \in Int : s = SumOver(w, 1 .. m) /\ t = o[m] + c[m] - o[1]
    BY <1>4
<1>6. -(600000 * (2 * m - 1)) <= 2 * (s - t) /\ 2 * (s - t) <= 600000 * (2 * m - 1)
    BY <1>4, <1>5
<1>7. -((4 * m - 2) * Unit) <= s - t /\ s - t <= (4 * m - 2) * Unit
    BY <1>6 DEF Unit
<1>. QED
    BY <1>5, <1>7

LEMMA SumTypes ==
    ASSUME NEW f \in IntReserve
    PROVE  SumOver(f, Reserve) \in Int
<1>1. /\ f.Loss \in Int /\ f.LossIBNR \in Int /\ f.DCC \in Int /\ f.DCCIBNR \in Int
      /\ f.AOE \in Int /\ f.AOEIBNR \in Int /\ f.ULAEIBNR \in Int
      /\ SumOver(f, Reserve) = f.Loss + f.LossIBNR + f.DCC + f.DCCIBNR + f.AOE + f.AOEIBNR
                                  + f.ULAEIBNR
    BY ReserveSum
<1>. QED
    BY <1>1

LEMMA ChainTypes ==
    ASSUME SInv, NEW m \in Month, Chained(m), NEW k \in 1 .. m, NEW accounts
    PROVE  /\ SumOver(OpeningOf(k), Reserve) \in Int /\ SumOver(ClosingOf(k), Reserve) \in Int
           /\ SumOver(ChangeOf(k), Reserve) \in Int /\ Net(posted[k], accounts) \in Int
<1>1. k \in Workbook /\ exhibits[k] # None /\ Shelf(exhibits)
    BY ChainFacts DEF SInv
<1>2. OpeningOf(k) \in IntReserve /\ ClosingOf(k) \in IntReserve /\ ChangeOf(k) \in IntReserve
    BY <1>1, MonthTypes
<1>3. PICK v : v = GLValues(exhibits, k, Found(k))
    OBVIOUS
<1>4. IntValues(v)
    BY <1>1, <1>3, FoundTypes, ValuesAreInt DEF GLValues
<1>5. PICK R \in SUBSET TemplateRow : R = RowsOf(accounts)
    BY DEF RowsOf
<1>6. SumOver(Entries(v), R) \in Int
    BY <1>4, RowSums
<1>7. Net(posted[k], accounts) \in Int
    BY <1>3, <1>5, <1>6, ChainFacts DEF Net
<1>. QED
    BY <1>2, <1>7, SumTypes

\* From month to month the reserves follow what the statement adds.
LEMMA OpeningsFollow ==
    ASSUME SInv, NEW m \in Month, Chained(m), NEW k \in 1 .. m, k > 1
    PROVE  \E e \in Int :
               /\ e = 2 * (Whole(SumOver(OpeningOf(k), Reserve))
                             - Whole(SumOver(OpeningOf(k - 1), Reserve))
                             - SumOver(ChangeOf(k - 1), Reserve))
               /\ -(3 * Unit) <= e /\ e <= 3 * Unit
<1>1. PICK j : j = k - 1 /\ j \in 1 .. m
    BY DEF Month
<1>2. SumOver(OpeningOf(k), Reserve) = SumOver(ClosingOf(j), Reserve)
    BY <1>1, MonthFollows
<1>3. PICK e \in Int :
          /\ e = 2 * (Whole(SumOver(ClosingOf(j), Reserve)) - Whole(SumOver(OpeningOf(j), Reserve))
                        - SumOver(ChangeOf(j), Reserve))
          /\ -(3 * Unit) <= e /\ e <= 3 * Unit
    BY <1>1, MonthMoves
<1>. QED
    BY <1>1, <1>2, <1>3

LEMMA ReservesOfMonth ==
    ASSUME SInv, NEW m \in Month, Chained(m),
           NEW carriedIn, carriedIn = Whole(SumOver(Opening(exhibits, 1, KindOf(1)), Reserve)),
           NEW added, added = LossLAEReserves(exhibits, m, Found(m)) - carriedIn,
           NEW slack, slack = (4 * m - 2) * Unit,
           NEW l, l = SumOver([k \in 1 .. m |-> Whole(Net(posted[k], Liabilities))], 1 .. m),
           NEW r, r = SumOver([k \in 1 .. m |-> Whole(Net(posted[k], Recoverables))], 1 .. m)
    PROVE  -l - added \in -slack .. slack /\ r - added \in -slack .. slack
<1>1. m \in Nat \ {0} /\ m \in 1 .. m /\ 1 \in 1 .. m
    BY DEF Month
<1>2. PICK c, o, cn, on, wl, wr :
          /\ c = [k \in 1 .. m |-> SumOver(ChangeOf(k), Reserve)]
          /\ o = [k \in 1 .. m |-> Whole(SumOver(OpeningOf(k), Reserve))]
          /\ cn = [k \in 1 .. m |-> -SumOver(ChangeOf(k), Reserve)]
          /\ on = [k \in 1 .. m |-> -Whole(SumOver(OpeningOf(k), Reserve))]
          /\ wl = [k \in 1 .. m |-> Whole(Net(posted[k], Liabilities))]
          /\ wr = [k \in 1 .. m |-> Whole(Net(posted[k], Recoverables))]
    OBVIOUS
<1>3. \A k \in 1 .. m :
          /\ c[k] \in Int /\ o[k] \in Int /\ cn[k] \in Int /\ on[k] \in Int
          /\ wl[k] \in Int /\ wr[k] \in Int
          /\ c[k] = SumOver(ChangeOf(k), Reserve) /\ cn[k] = -c[k]
          /\ o[k] = Whole(SumOver(OpeningOf(k), Reserve)) /\ on[k] = -o[k]
          /\ wl[k] = Whole(Net(posted[k], Liabilities))
          /\ wr[k] = Whole(Net(posted[k], Recoverables))
    <2>1. \A k \in 1 .. m :
              /\ SumOver(OpeningOf(k), Reserve) \in Int /\ SumOver(ChangeOf(k), Reserve) \in Int
              /\ Net(posted[k], Liabilities) \in Int /\ Net(posted[k], Recoverables) \in Int
        BY ChainTypes
    <2>2. \A k \in 1 .. m :
              /\ Whole(SumOver(OpeningOf(k), Reserve)) \in Int
              /\ Whole(Net(posted[k], Liabilities)) \in Int
              /\ Whole(Net(posted[k], Recoverables)) \in Int
        BY <2>1, WholeTypes
    <2>3. \A k \in 1 .. m :
              /\ c[k] = SumOver(ChangeOf(k), Reserve) /\ cn[k] = -SumOver(ChangeOf(k), Reserve)
              /\ o[k] = Whole(SumOver(OpeningOf(k), Reserve))
              /\ on[k] = -Whole(SumOver(OpeningOf(k), Reserve))
              /\ wl[k] = Whole(Net(posted[k], Liabilities))
              /\ wr[k] = Whole(Net(posted[k], Recoverables))
        BY <1>2
    <2>. QED
        BY <2>1, <2>2, <2>3
<1>4. ASSUME NEW k \in 1 .. m
      PROVE  /\ -(3 * Unit) <= 2 * (wr[k] - c[k]) /\ 2 * (wr[k] - c[k]) <= 3 * Unit
             /\ -(3 * Unit) <= 2 * (wl[k] - cn[k]) /\ 2 * (wl[k] - cn[k]) <= 3 * Unit
    <2>1. PICK x \in Int, a \in Int, b \in Int : x = c[k] /\ a = wl[k] /\ b = wr[k] /\ cn[k] = -x
        BY <1>3
    <2>2. PICK e \in Int : e = 2 * (b - x) /\ -(3 * Unit) <= e /\ e <= 3 * Unit
        BY <1>3, <2>1, OnRecoverables
    <2>3. PICK d \in Int : d = 2 * (a + x) /\ -(3 * Unit) <= d /\ d <= 3 * Unit
        BY <1>3, <2>1, OnLiabilities
    <2>4. 2 * (a + x) = 2 * (a - (-x))
        OBVIOUS
    <2>. QED
        BY <2>1, <2>2, <2>3, <2>4
<1>5. ASSUME NEW k \in 1 .. m, k > 1
      PROVE  /\ -(3 * Unit) <= 2 * (o[k] - o[k - 1] - c[k - 1])
             /\ 2 * (o[k] - o[k - 1] - c[k - 1]) <= 3 * Unit
             /\ -(3 * Unit) <= 2 * (on[k] - on[k - 1] - cn[k - 1])
             /\ 2 * (on[k] - on[k - 1] - cn[k - 1]) <= 3 * Unit
    <2>1. PICK j : j = k - 1 /\ j \in 1 .. m
        BY <1>1, <1>5
    <2>2. PICK x \in Int, a \in Int, b \in Int :
              x = c[j] /\ a = o[k] /\ b = o[j] /\ cn[j] = -x /\ on[k] = -a /\ on[j] = -b
        BY <1>3, <2>1
    <2>3. PICK e \in Int : e = 2 * (a - b - x) /\ -(3 * Unit) <= e /\ e <= 3 * Unit
        <3>1. PICK e \in Int :
                  /\ e = 2 * (Whole(SumOver(OpeningOf(k), Reserve))
                                - Whole(SumOver(OpeningOf(j), Reserve))
                                - SumOver(ChangeOf(j), Reserve))
                  /\ -(3 * Unit) <= e /\ e <= 3 * Unit
            BY <1>5, <2>1, OpeningsFollow
        <3>. QED
            BY <1>3, <2>1, <2>2, <3>1
    <2>4. 2 * (-a - (-b) - (-x)) = -e
        BY <2>3
    <2>5. -(3 * Unit) <= -e /\ -e <= 3 * Unit
        BY <2>3 DEF Unit
    <2>. QED
        BY <2>1, <2>2, <2>3, <2>4, <2>5
<1>6. /\ SumOver(wr, 1 .. m) \in Int
      /\ -((4 * m - 2) * Unit) <= SumOver(wr, 1 .. m) - (o[m] + c[m] - o[1])
      /\ SumOver(wr, 1 .. m) - (o[m] + c[m] - o[1]) <= (4 * m - 2) * Unit
    BY <1>1, <1>3, <1>4, <1>5, AlongChain
<1>7. /\ SumOver(wl, 1 .. m) \in Int
      /\ -((4 * m - 2) * Unit) <= SumOver(wl, 1 .. m) - (on[m] + cn[m] - on[1])
      /\ SumOver(wl, 1 .. m) - (on[m] + cn[m] - on[1]) <= (4 * m - 2) * Unit
    BY <1>1, <1>3, <1>4, <1>5, AlongChain
<1>8. PICK x \in Int, a \in Int, b \in Int :
          x = c[m] /\ a = o[m] /\ b = o[1] /\ cn[m] = -x /\ on[m] = -a /\ on[1] = -b
    <2>1. /\ c[m] \in Int /\ o[m] \in Int /\ o[1] \in Int
          /\ cn[m] = -c[m] /\ on[m] = -o[m] /\ on[1] = -o[1]
        BY <1>1, <1>3
    <2>. QED
        BY <2>1
<1>9. added = a + x - b
    <2>1. carriedIn = b
        BY <1>1, <1>3, <1>8 DEF OpeningOf
    <2>2. LossLAEReserves(exhibits, m, Found(m)) = a + x
        <3>1. LossLAEReserves(exhibits, m, Found(m))
                  = Whole(SumOver(OpeningOf(m), Reserve)) + SumOver(ChangeOf(m), Reserve)
            <4>1. GLValues(exhibits, m, Found(m)).change = ChangeOf(m)
                BY <1>1, ChainFacts, MonthTypes
            <4>. QED
                BY <4>1 DEF LossLAEReserves, GLValues, OpeningOf, KindOf
        <3>. QED
            BY <1>1, <1>3, <1>8, <3>1
    <2>. QED
        BY <2>1, <2>2
<1>10. PICK s \in Int : s = slack
    BY <1>1 DEF Unit
<1>11. PICK p \in Int, q \in Int : p = l /\ q = r
    BY <1>2, <1>6, <1>7
<1>12. -s <= q - (a + x - b) /\ q - (a + x - b) <= s
    BY <1>2, <1>6, <1>8, <1>10, <1>11
<1>13. -s <= p - (-a + (-x) - (-b)) /\ p - (-a + (-x) - (-b)) <= s
    BY <1>2, <1>7, <1>8, <1>10, <1>11
<1>14. -p - (a + x - b) \in -s .. s /\ q - (a + x - b) \in -s .. s
    BY <1>12, <1>13
<1>. QED
    BY <1>9, <1>10, <1>11, <1>14

\* Once every month is posted as it stands, the reserve accounts hold what the statement
\* reserves, for months of either source and any rates.
THEOREM ReservesPostedAlways == StatementSpec => []ReservesPosted
<1>1. SInv => ReservesPosted
    BY ReservesOfMonth DEF ReservesPosted, Chained
<1>. QED
    BY <1>1, InitTypes, StepTypes, PTL DEF StatementSpec
=============================================================================
