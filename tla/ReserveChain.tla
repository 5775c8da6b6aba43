----------------------------- MODULE ReserveChain -----------------------------
(***************************************************************************)
(* The exhibits of one program's workbooks, month by month: every read of a *)
(* FUT workbook rolls its reserves forward from the month before and saves  *)
(* them, every edit does so before and after its own change, and every save *)
(* writes the whole copy of a row that was read some awaits earlier.  No    *)
(* transaction spans two saves: a request may stop between any of them.     *)
(*                                                                          *)
(* A row stands for the exhibit of a state.  Of its reserve fields, which   *)
(* all roll alike, it keeps the loss IBNR, prior and current; of the        *)
(* fields a client enters, the month's movement (premium earned at the loss *)
(* pick, less losses paid and the change in case reserves) and the unpaid   *)
(* losses.  Cents.                                                          *)
(***************************************************************************)
EXTENDS Integers, FiniteSets, Summation

CONSTANTS
    Request,      \* HTTP requests, each served once
    LastMonth,    \* bound on months after the baseline
    NumStates,    \* states with an exhibit
    Movement,     \* amounts entered for a state
    Heading,      \* amounts entered for TOTAL
    Editable,     \* fields that edits name
    Filed,        \* what the uploaded files may hold
    MaxInFlight,  \* bound on requests served at the same time
    Absent

\* Workbook 0 is the ITD baseline of December, workbook m the FUT of month m.
Book == 0 .. LastMonth

Source(b) == IF b = 0 THEN "ITD" ELSE "FUT"

State == 1 .. NumStates

TOTAL == 0

Code == State \cup {TOTAL}

Fields == {"movement", "unpaid", "prior", "ibnr"}

Row == [Fields -> Int]

\* What the roll-forward reads; the others it sets.
Entered == {"movement", "unpaid"}

\* An edit may name any field, those that the roll-forward sets among them.
Calls ==
    [op : {"read", "mappings"}, book : Book]
    \cup [op : {"exhibit"}, book : Book, state : State, field : Editable, amount : Movement]
    \cup [op : {"heading"}, book : Book, field : Editable, amount : Heading]
    \cup [op : {"seeder"}, book : {0}, state : State, field : Editable, amount : Movement]

ASSUME ConstantAssumption ==
    /\ LastMonth \in Nat
    /\ NumStates \in Nat \ {0}
    /\ Movement \subseteq Int
    /\ Heading \subseteq Int
    /\ Editable \subseteq Fields
    /\ Filed \subseteq [Book -> [State -> [Entered -> Int]]]
    /\ MaxInFlight \in Nat \ {0}
    /\ Absent \notin Calls

VARIABLES
    rows,     \* the committed exhibits
    pc,
    call,
    local,
    changed,  \* history: books whose entered amounts changed while in flight
    overlap,  \* history: two requests have been in flight at the same time
    settled,  \* history: the months up to this one have been read in order
              \* since anything before them was entered
    unsummed  \* history: workbooks whose TOTAL a request that stopped has not
              \* saved any more, and none since

vars == <<rows, pc, call, local, changed, overlap, settled, unsummed>>

----------------------------------------------------------------------------
\* The roll-forward

\* getPrevYTD(loss_ibnr) || getPrevYTD(lu)
Carried(prev) == IF prev["ibnr"] # 0 THEN prev["ibnr"] ELSE prev["unpaid"]

\* Variant: the unpaid losses are replaced by the reserve computed.
RollIntoUnpaid(row, prev) ==
    [row EXCEPT !["prior"] = Carried(prev), !["ibnr"] = Carried(prev) + row["movement"],
                !["unpaid"] = Carried(prev)]

\* recalculateExhibit
Roll(row, prev) ==
    [row EXCEPT !["prior"] = Carried(prev), !["ibnr"] = Carried(prev) + row["movement"]]

\* Variant: one state is left out.
SumsWithoutFirst(exhibits) ==
    [k \in Fields |-> SumOver([s \in State |-> exhibits[s][k]], State \ {1})]

\* recalculateTotalExhibit
Sums(exhibits) == [k \in Fields |-> SumOver([s \in State |-> exhibits[s][k]], State)]

----------------------------------------------------------------------------
\* An amount entered for TOTAL is spread over the states.

Abs(n) == IF n < 0 THEN -n ELSE n

\* Math.round of n/d: halves go up.
Round(n, d) == (2 * n + d) \div (2 * d)

\* In proportion to what the states hold, or evenly if they hold nothing (the code
\* then looks at premiums written first, here the same for all).
Weight(held) ==
    IF \E s \in State : held[s] # 0
      THEN [s \in State |-> Abs(held[s])]
      ELSE [s \in State |-> 1]

Heaviest(weight) ==
    CHOOSE s \in State :
        \A t \in State : weight[t] < weight[s] \/ (weight[t] = weight[s] /\ s <= t)

\* Variant: what rounding leaves over is lost.
SpreadRounded(amount, weight) ==
    [s \in State |-> Round(amount * weight[s], SumOver(weight, State))]

\* What rounding leaves over goes to the state of the largest weight.
Spread(amount, weight) ==
    LET share == [s \in State |-> Round(amount * weight[s], SumOver(weight, State))]
    IN  [share EXCEPT ![Heaviest(weight)] = @ + amount - SumOver(share, State)]

----------------------------------------------------------------------------

\* local[r]: the exhibits of the workbook and those of the month before, read
\* for the roll-forward, the state it has come to, the exhibits read for the
\* answer, and whether the change asked for is saved.
Blank == [c \in Code |-> [k \in Fields |-> 0]]

Forgotten ==
    [own |-> Blank, prev |-> Blank, at |-> 1, copy |-> Blank, changed |-> FALSE]

InFlight(r) == pc[r] \notin {"idle", "done", "stopped"}

BookOf(r) == call[r].book

Goto(r, label) == pc' = [pc EXCEPT ![r] = label]

Keep(r, held) == local' = [local EXCEPT ![r] = held]

\* No roll-forward sets a field of the baseline, which holds the reserve itself.
EnteredIn(b) == IF Source(b) = "ITD" THEN Fields ELSE Entered

EnteredOf(b, exhibits) == [s \in State |-> [k \in EnteredIn(b) |-> exhibits[s][k]]]

\* The exhibits of the request's workbook become these.
Write(r, exhibits) ==
    LET b == BookOf(r) IN
    /\ rows' = [rows EXCEPT ![b] = exhibits]
    /\ changed' = IF EnteredOf(b, exhibits) = EnteredOf(b, rows[b])
                    THEN changed
                    ELSE [q \in Request |-> IF InFlight(q) THEN changed[q] \cup {b}
                                                           ELSE changed[q]]

\* What an answered request says about how far the chain has been read; nothing
\* where requests overlap.
SettledBy(r) ==
    LET b == BookOf(r) IN
    CASE overlap -> 0
      [] ~ overlap /\ b > settled + 1 -> settled
      [] ~ overlap /\ b <= settled + 1 ->
            IF b > settled \/ call[r].op \in {"exhibit", "heading", "seeder"}
              THEN b ELSE settled

Answer(r) ==
    /\ Goto(r, "done")
    /\ settled' = SettledBy(r)
    /\ call' = [call EXCEPT ![r] = Absent]
    /\ Keep(r, Forgotten)

----------------------------------------------------------------------------

\* The reserves the entered amounts add up to when the months are taken in order.
EndsOf(entered) ==
    LET ends[b \in Book] ==
            [s \in State |->
                IF b = 0 THEN entered[0][s]["ibnr"]
                ELSE (IF ends[b - 1][s] # 0 THEN ends[b - 1][s]
                                            ELSE entered[b - 1][s]["unpaid"])
                     + entered[b][s]["movement"]]
    IN  ends

\* The months are rolled one after the other.  The baseline holds the reserve itself
\* where the others hold the movement.
Rolled(filed) ==
    LET file == [b \in Book |-> [s \in State |->
                    [k \in Fields |-> IF k \in Entered THEN filed[b][s][k]
                                      ELSE IF b = 0 /\ k = "ibnr"
                                        THEN filed[b][s]["movement"] ELSE 0]]]
        rolled[b \in Book] ==
            IF b = 0 THEN file[0]
            ELSE [s \in State |-> Roll(file[b][s], rolled[b - 1][s])]
    IN  rolled

\* The workbooks have been uploaded one month after the other.
Uploaded(filed) ==
    [b \in Book |-> [c \in Code |-> [k \in Fields |->
        IF c = TOTAL THEN Sums(Rolled(filed)[b])[k] ELSE Rolled(filed)[b][c][k]]]]

Init ==
    /\ \E filed \in Filed : rows = Uploaded(filed)
    /\ pc = [r \in Request |-> "idle"]
    /\ call = [r \in Request |-> Absent]
    /\ local = [r \in Request |-> Forgotten]
    /\ changed = [r \in Request |-> {}]
    /\ overlap = FALSE
    /\ settled = LastMonth
    /\ unsummed = {}

Arrive(r, c) ==
    /\ pc[r] = "idle"
    /\ Cardinality({q \in Request : InFlight(q)}) < MaxInFlight
    /\ call' = [call EXCEPT ![r] = c]
    /\ Goto(r, IF Source(c.book) = "FUT" THEN "loading" ELSE "reading")
    /\ overlap' = (overlap \/ \E q \in Request : InFlight(q))
    /\ UNCHANGED <<rows, local, changed, settled, unsummed>>

----------------------------------------------------------------------------
\* recalculateFUTReserves, within findOne or after an edit

Load(r) ==
    /\ pc[r] = "loading"
    /\ Keep(r, [local[r] EXCEPT !.own = rows[BookOf(r)], !.at = 1])
    /\ Goto(r, "seeding")
    /\ UNCHANGED <<rows, call, changed, overlap, settled, unsummed>>

\* Variant: the roll-forward starts from the baseline.
SeedFromBaseline(r) ==
    /\ pc[r] = "seeding"
    /\ Keep(r, [local[r] EXCEPT !.prev = rows[0]])
    /\ Goto(r, "rolling")
    /\ UNCHANGED <<rows, call, changed, overlap, settled, unsummed>>

\* findPreviousWorkbookFor
Seed(r) ==
    /\ pc[r] = "seeding"
    /\ Keep(r, [local[r] EXCEPT !.prev = rows[BookOf(r) - 1]])
    /\ Goto(r, "rolling")
    /\ UNCHANGED <<rows, call, changed, overlap, settled, unsummed>>

\* One exhibit after the other is saved, whole.
RollExhibit(r) ==
    /\ pc[r] = "rolling"
    /\ LET s == local[r].at IN
       /\ Write(r, [rows[BookOf(r)] EXCEPT ![s] = Roll(local[r].own[s], local[r].prev[s])])
       /\ Keep(r, [local[r] EXCEPT !.at = s + 1])
       /\ Goto(r, IF s = NumStates THEN "summing" ELSE "rolling")
    /\ UNCHANGED <<call, overlap, settled, unsummed>>

\* recalculateTotalExhibit reads the exhibits ...
Sum(r) ==
    /\ pc[r] = "summing"
    /\ Keep(r, [Forgotten EXCEPT
                   !.own = [rows[BookOf(r)] EXCEPT ![TOTAL] = Sums(rows[BookOf(r)])],
                   !.changed = local[r].changed])
    /\ Goto(r, "totalling")
    /\ UNCHANGED <<rows, call, changed, overlap, settled, unsummed>>

\* ... and saves TOTAL.  An edit is over then; findOne reads once more.
SaveTotal(r) ==
    /\ pc[r] = "totalling"
    /\ Write(r, [rows[BookOf(r)] EXCEPT ![TOTAL] = local[r].own[TOTAL]])
    /\ IF local[r].changed
         THEN Answer(r)
         ELSE Goto(r, "reading") /\ UNCHANGED <<call, local, settled>>
    /\ unsummed' = unsummed \ {BookOf(r)}
    /\ UNCHANGED overlap

\* findWorkbookById
Read(r) ==
    /\ pc[r] = "reading"
    /\ IF call[r].op = "read"
         THEN Answer(r)
         ELSE /\ Keep(r, [Forgotten EXCEPT !.copy = rows[BookOf(r)]])
              /\ Goto(r, call[r].op)
              /\ UNCHANGED <<call, settled>>
    /\ UNCHANGED <<rows, changed, overlap, unsummed>>

----------------------------------------------------------------------------
\* updateExhibit

\* The reserves of a FUT are rolled again, those of a baseline only summed.
Recalculate(r) ==
    /\ Keep(r, [Forgotten EXCEPT !.changed = TRUE])
    /\ Goto(r, IF Source(BookOf(r)) = "FUT" THEN "loading" ELSE "summing")

EditExhibit(r) ==
    /\ pc[r] = "exhibit"
    /\ LET s == call[r].state
           row == [local[r].copy[s] EXCEPT ![call[r].field] = call[r].amount] IN
       Write(r, [rows[BookOf(r)] EXCEPT ![s] = row])
    /\ Recalculate(r)
    /\ UNCHANGED <<call, overlap, settled, unsummed>>

\* The exhibits of the states are saved together ...
EditTotal(r) ==
    /\ pc[r] = "heading"
    /\ LET k == call[r].field
           held == [s \in State |-> local[r].copy[s][k]]
           share == Spread(call[r].amount, Weight(held)) IN
       Write(r, [c \in Code |->
                    IF c = TOTAL THEN rows[BookOf(r)][TOTAL]
                    ELSE [local[r].copy[c] EXCEPT ![k] = share[c]]])
    /\ Goto(r, "headed")
    /\ UNCHANGED <<call, local, overlap, settled, unsummed>>

\* ... and then TOTAL.
EditHeading(r) ==
    /\ pc[r] = "headed"
    /\ Write(r, [rows[BookOf(r)] EXCEPT
                    ![TOTAL] = [local[r].copy[TOTAL] EXCEPT
                                  ![call[r].field] = call[r].amount]])
    /\ Recalculate(r)
    /\ UNCHANGED <<call, overlap, settled, unsummed>>

\* updateSeederFile of the database seeder, for the baseline: the amounts sent replace all
\* of the exhibit, those not sent by zero, and TOTAL is summed.
EditSeederFile(r) ==
    /\ pc[r] = "seeder"
    /\ Write(r, [rows[BookOf(r)] EXCEPT
                    ![call[r].state] = [k \in Fields |-> IF k = call[r].field
                                                        THEN call[r].amount ELSE 0]])
    /\ Recalculate(r)
    /\ UNCHANGED <<call, overlap, settled, unsummed>>

----------------------------------------------------------------------------

\* updateMappings and updateStatus save the workbook they have read, and with it
\* all its exhibits (cascade).
SaveWorkbook(r) ==
    /\ pc[r] = "mappings"
    /\ Write(r, local[r].copy)
    /\ Answer(r)
    /\ UNCHANGED <<overlap, unsummed>>

----------------------------------------------------------------------------

\* The change asked for is saved, all of it or, of one for TOTAL, that of the states.
Changing(r) == local[r].changed \/ pc[r] = "headed"

\* A statement fails or the process ends: what is saved stays.
Stop(r) ==
    /\ InFlight(r)
    /\ LET b == BookOf(r) IN
       /\ unsummed' = IF Changing(r) \/ pc[r] \in {"rolling", "summing", "totalling"}
                        THEN unsummed \cup {b} ELSE unsummed
       /\ settled' = IF Changing(r) /\ b <= settled
                       THEN (IF b = 0 THEN 0 ELSE b - 1) ELSE settled
    /\ Goto(r, "stopped")
    /\ call' = [call EXCEPT ![r] = Absent]
    /\ Keep(r, Forgotten)
    /\ UNCHANGED <<rows, changed, overlap>>

Step(r) ==
    \/ Load(r) \/ Seed(r) \/ RollExhibit(r) \/ Sum(r) \/ SaveTotal(r) \/ Read(r)
    \/ EditExhibit(r) \/ EditTotal(r) \/ EditHeading(r) \/ EditSeederFile(r)
    \/ SaveWorkbook(r)

Next == \E r \in Request : Step(r) \/ Stop(r) \/ \E c \in Calls : Arrive(r, c)

Spec == Init /\ [][Next]_vars

----------------------------------------------------------------------------
\* Properties

Labels ==
    {"idle", "loading", "seeding", "rolling", "summing", "totalling", "reading",
     "exhibit", "heading", "headed", "seeder", "mappings", "done", "stopped"}

Locals ==
    [own : [Code -> Row], prev : [Code -> Row], at : 1 .. NumStates + 1,
     copy : [Code -> Row], changed : BOOLEAN]

TypeOK ==
    /\ rows \in [Book -> [Code -> Row]]
    /\ pc \in [Request -> Labels]
    /\ call \in [Request -> Calls \cup {Absent}]
    /\ local \in [Request -> Locals]
    /\ changed \in [Request -> SUBSET Book]
    /\ overlap \in BOOLEAN
    /\ settled \in Book
    /\ unsummed \subseteq Book

Quiet == ~ overlap /\ \A r \in Request : ~ InFlight(r)

\* Between requests served one after the other, TOTAL is the sum of the states, but
\* where a request stopped between a state and TOTAL: until TOTAL is next saved,
\* which any read of a FUT does.
TotalsAddUp ==
    Quiet =>
        \A b \in Book \ unsummed, k \in Fields :
            rows[b][TOTAL][k] = SumOver([s \in State |-> rows[b][s][k]], State)

\* Between requests served one after the other, the months read in order since
\* the last change before them hold the reserves that the entered amounts add up
\* to from the baseline on.  A change that stopped half way counts as one.
ChainSettles ==
    Quiet => \A b \in 0 .. settled, s \in State : rows[b][s]["ibnr"] = EndsOf(rows)[b][s]

\* An edit of requests served one after the other is answered with the amount
\* entered in place, for a state or, to the cent, for TOTAL.  A reserve entered for
\* a FUT is not kept: it is answered with the one rolled forward in its place.
EditsStick ==
    [][\A r \in Request :
          /\ pc'[r] = "done" /\ pc[r] # "done" /\ ~ overlap
          /\ call[r].op \in {"exhibit", "heading", "seeder"}
          => LET b == BookOf(r)
                 k == call[r].field
             IN  IF k \in EnteredIn(b)
                   THEN rows'[b][IF call[r].op = "heading" THEN TOTAL ELSE call[r].state][k]
                            = call[r].amount
                   ELSE \A s \in State :
                            rows'[b][s][k] = Roll(rows'[b][s], rows'[b - 1][s])[k]]_vars

\* A read, a mapping edit or the roll-forward after an edit alters what was
\* entered for a workbook only if that has changed while the request was in flight.
RollingKeepsEntries ==
    [][\A r \in Request, b \in Book :
          /\ pc[r] \notin {"exhibit", "heading", "seeder"}
          /\ <<pc[r], local[r]>>' # <<pc[r], local[r]>>
          /\ EnteredOf(b, rows'[b]) # EnteredOf(b, rows[b])
          => b \in changed[r]]_vars

=============================================================================
