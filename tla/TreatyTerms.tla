----------------------------- MODULE TreatyTerms -----------------------------
(***************************************************************************)
(* A treaty: a header and lists of carriers, reinsurers, MGAs, states and   *)
(* lines of business, whose first entries the header repeats.  A creation   *)
(* or an amendment writes both in one transaction, without reading the      *)
(* treaty in it.  The statements of a transaction see what is committed     *)
(* (READ COMMITTED).  Saving a header updates, and so locks, the row only   *)
(* when something in it differs; a DELETE takes the rows it has found and    *)
(* waits for another that has them; only some lists have a unique key.      *)
(***************************************************************************)
EXTENDS Overlaps, Sequences

CONSTANTS
    TreatyCall,   \* what clients may ask for
    User,
    Item,         \* what lists name: companies, MGAs, states, lines of business
    Reinsurer,    \* companies known as reinsurers from the start
    RiskCompany,  \* companies a reinsurer can be made of
    Terms,        \* the header's other columns
    Earlier       \* what may have created the treaty before, None: nothing

List == {"carriers", "reinsurers", "mgas", "states", "lobs"}

\* An amendment writes them in this order.
Place == [carriers |-> 1, reinsurers |-> 2, mgas |-> 3, states |-> 4, lobs |-> 5]

Foremost(lists) == CHOOSE k \in lists : \A l \in lists : Place[k] <= Place[l]

\* The header repeats the first entry; no two entries alike; a creation that gives
\* only the header's entry gets a list of it.
Headed == {"carriers", "reinsurers", "mgas"}
Distinct == {"mgas", "states", "lobs", "companies"}
Filled == {"carriers", "reinsurers"}

Column == Headed \cup {"terms", "by", "deleted"}

Values(k) ==
    CASE k \in Headed -> Item \cup {None}
      [] k = "terms" -> Terms
      [] k = "by" -> User
      [] k = "deleted" -> BOOLEAN

Header ==
    {h \in [Column -> UNION {Values(k) : k \in Column}] : \A k \in Column : h[k] \in Values(k)}

\* An entry of a list, or a reinsurer ("companies"), and the request that made it.
Row == [list : List \cup {"companies"}, item : Item, from : Request \cup {None}]

\* heads: header entries given alone; lists: lists given, each without repetitions.
IsTerms(c) ==
    /\ c.op \in {"create", "amend"} /\ c.user \in User
    /\ c.terms \in Terms \cup {None}
    /\ DOMAIN c.heads \subseteq Headed
    /\ \A k \in DOMAIN c.heads : c.heads[k] \in Item \cup {None}
    /\ DOMAIN c.lists \subseteq List
    /\ \A k \in DOMAIN c.lists : c.lists[k] \in Seq(Item)

ASSUME TreatyAssumption ==
    /\ Reinsurer \cup RiskCompany \subseteq Item
    /\ \A c \in TreatyCall :
          \/ IsTerms(c)
          \/ c.op = "join" /\ c.user \in User /\ c.mga \in Item
          \/ c.op = "delete"
    /\ \A c \in Earlier : c = None \/ (IsTerms(c) /\ c.op = "create" /\ c.terms # None)
    /\ \A c \in TreatyCall : c.op = "create" => c.terms # None
    /\ MaxInFlight \in Nat \ {0}
    /\ None \notin Item \cup User \cup Terms \cup Request \cup TreatyCall \cup Header

VARIABLES
    header,
    rows,   \* of the lists, and the reinsurers
    lock,   \* whose transaction holds the header's row, or its code when it is new
    local

treatyVars == <<header, rows, lock, pc, call, local, met>>

----------------------------------------------------------------------------

\* local[r]: the header to save, the columns save() has found different, the lists still
\* to write, what the DELETE has found, and what the transaction has deleted and inserted.
Nothing == [copy |-> None, cols |-> {}, todo |-> {}, sought |-> {}, dead |-> {}, fresh |-> {}]

Hold(r, held) == local' = [local EXCEPT ![r] = held]

\* Reading and comparing do not change what others see.
Private == UNCHANGED <<header, rows, lock, call, met>>

\* Whatever a transaction has done is undone.
Rollback(r) ==
    /\ Goto(r, "failed")
    /\ Hold(r, [local[r] EXCEPT !.sought = {}, !.dead = {}, !.fresh = {}])
    /\ lock' = IF lock = r THEN None ELSE lock
    /\ UNCHANGED <<header, rows, call, met>>

\* The lists a request writes: a creation fills some from the header's entry.
Given(c) ==
    [k \in DOMAIN c.lists \cup
           (IF c.op = "create" THEN {k \in Filled \cap DOMAIN c.heads : c.heads[k] # None} ELSE {})
     |-> IF k \in DOMAIN c.lists THEN c.lists[k] ELSE <<c.heads[k]>>]

\* Whether a request gives the header an entry and no list; beside an empty list it
\* still counts in a creation.
Alone(c, k) ==
    /\ k \in DOMAIN c.heads
    /\ k \in DOMAIN Given(c) => c.op = "create" /\ Given(c)[k] = <<>>

\* Variant: an entry that is not given is emptied.
AmendedOrEmptied(c, h) ==
    [k \in Column |->
        CASE k = "by" -> c.user
          [] k = "terms" -> IF c.terms = None THEN h[k] ELSE c.terms
          [] Alone(c, k) -> c.heads[k]
          [] k \in DOMAIN Given(c) /\ ~ Alone(c, k) ->
                IF Given(c)[k] = <<>> THEN None ELSE Given(c)[k][1]
          [] k = "deleted" -> h[k]
          [] OTHER -> None]

\* Variant: lists leave the header's entry alone.
AmendedAlone(c, h) ==
    [k \in Column |->
        CASE k = "by" -> c.user
          [] k = "terms" -> IF c.terms = None THEN h[k] ELSE c.terms
          [] k \in DOMAIN c.heads -> c.heads[k]
          [] OTHER -> h[k]]

\* The header with what a request gives; a list comes before an entry given alone.
Amended(c, h) ==
    [k \in Column |->
        CASE k = "by" -> c.user
          [] k = "terms" -> IF c.terms = None THEN h[k] ELSE c.terms
          [] Alone(c, k) -> c.heads[k]
          [] k \in DOMAIN Given(c) /\ ~ Alone(c, k) ->
                IF Given(c)[k] = <<>> THEN None ELSE Given(c)[k][1]
          [] OTHER -> h[k]]

Blank == [k \in Column |-> IF k = "deleted" THEN FALSE ELSE None]

Entries(c, k, r) == {[list |-> k, item |-> Given(c)[k][n], from |-> r] : n \in DOMAIN Given(c)[k]}

Written(r) ==
    [k \in Column |-> IF k \in local[r].cols THEN local[r].copy[k] ELSE header[k]]

----------------------------------------------------------------------------

TreatyInit ==
    /\ \E c \in Earlier :
          /\ header = IF c = None THEN None ELSE Amended(c, Blank)
          /\ rows = {[list |-> "companies", item |-> i, from |-> None] : i \in Reinsurer}
                    \cup (IF c = None THEN {}
                          ELSE UNION {Entries(c, k, None) : k \in DOMAIN Given(c)})
    /\ lock = None
    /\ pc = [r \in Request |-> "idle"]
    /\ call = [r \in Request |-> None]
    /\ local = [r \in Request |-> Nothing]
    /\ met = [r \in Request |-> {}]

TreatyArrive(r, c) ==
    /\ pc[r] = "idle"
    /\ Cardinality(InFlight) < MaxInFlight
    /\ call' = [call EXCEPT ![r] = c]
    /\ met' = Meeting(r)
    /\ Goto(r, "reading")
    /\ UNCHANGED <<header, rows, lock, local>>

\* A failing statement, or a stop of the process.
TreatyAbort(r) == r \in InFlight /\ Rollback(r)

----------------------------------------------------------------------------
\* Creating and amending, up to the header

\* findByCode and findById, before the transaction; removed treaties are found too.
Read(r) ==
    /\ pc[r] = "reading" /\ call[r].op \in {"create", "amend"}
    /\ IF (header = None) = (call[r].op = "create")
         THEN /\ Hold(r, [local[r] EXCEPT
                    !.copy = Amended(call[r], IF header = None THEN Blank ELSE header),
                    !.todo = DOMAIN Given(call[r])])
              /\ Goto(r, "ensuring")
              /\ Private
         ELSE Rollback(r)

Reinsurers == {x.item : x \in {y \in rows : y.list = "companies"}}

\* The reinsurers the header or the list would name and that do not exist.
Missing(r) ==
    (({local[r].copy["reinsurers"]} \ {None})
     \cup (IF "reinsurers" \in DOMAIN Given(call[r])
             THEN {x.item : x \in Entries(call[r], "reinsurers", r)} ELSE {}))
    \ Reinsurers

\* ensureReinsurerExists looks for them; one that is no risk company either fails
\* the foreign keys.
Ensure(r) ==
    /\ pc[r] = "ensuring"
    /\ IF Missing(r) \subseteq RiskCompany
         THEN /\ Hold(r, [local[r] EXCEPT !.sought =
                    {[list |-> "companies", item |-> i, from |-> r] : i \in Missing(r)}])
              /\ Goto(r, "making")
              /\ Private
         ELSE Rollback(r)

Alike(x, y) == x.list = y.list /\ x.item = y.item

\* An INSERT under a unique key waits while another transaction has it in hand, and
\* fails when it is taken.
Waits(r, new) ==
    \E q \in Request \ {r} : \E x \in local[q].fresh \cup local[q].dead, y \in new :
        x.list \in Distinct /\ Alike(x, y)

Taken(r, new) ==
    \E x \in rows \ local[r].dead, y \in new : x.list \in Distinct /\ Alike(x, y)

\* ensureReinsurerExists makes them.
Make(r) ==
    /\ pc[r] = "making"
    /\ ~ Waits(r, local[r].sought)
    /\ IF Taken(r, local[r].sought)
         THEN Rollback(r)
         ELSE /\ Hold(r, [local[r] EXCEPT !.fresh = local[r].sought, !.sought = {}])
              /\ Goto(r, IF call[r].op = "create" THEN "building" ELSE "comparing")
              /\ Private

\* The new header and its lists, invisible until the commit; its code is unique.
Build(r) ==
    /\ pc[r] = "building"
    /\ lock = None
    /\ IF header # None
         THEN Rollback(r)
         ELSE /\ lock' = r
              /\ Hold(r, [local[r] EXCEPT !.cols = Column, !.todo = {},
                    !.fresh = @ \cup UNION {Entries(call[r], k, r) : k \in DOMAIN Given(call[r])}])
              /\ Goto(r, "clearing")
              /\ UNCHANGED <<header, rows, call, met>>

\* save() reads the header again; with no difference there is no UPDATE.
Compare(r) ==
    /\ pc[r] = "comparing"
    /\ LET cols == {k \in Column : local[r].copy[k] # header[k]} IN
       /\ Hold(r, [local[r] EXCEPT !.cols = cols])
       /\ Goto(r, CASE cols # {} -> "updating"
                    [] cols = {} /\ call[r].op = "amend" -> "clearing"
                    [] OTHER -> "done")
       /\ Private

\* Variant: the header is saved through the repository, outside the transaction.
UpdateOutside(r) ==
    /\ pc[r] = "updating"
    /\ lock = None
    /\ header' = Written(r)
    /\ Goto(r, IF call[r].op = "amend" THEN "clearing" ELSE "done")
    /\ UNCHANGED <<rows, lock, call, local, met>>

\* An amendment keeps the lock until it ends.
Update(r) ==
    /\ pc[r] = "updating"
    /\ lock = None
    /\ IF call[r].op = "amend"
         THEN lock' = r /\ Goto(r, "clearing") /\ UNCHANGED header
         ELSE header' = Written(r) /\ Goto(r, "done") /\ UNCHANGED lock
    /\ UNCHANGED <<rows, call, local, met>>

----------------------------------------------------------------------------
\* The lists of an amendment, one after the other

\* The DELETE finds the rows committed when it starts.
Search(r) ==
    /\ pc[r] = "clearing" /\ local[r].todo # {}
    /\ Hold(r, [local[r] EXCEPT !.sought = {x \in rows : x.list = Foremost(local[r].todo)}])
    /\ Goto(r, "deleting")
    /\ Private

\* It waits for a transaction that has deleted any of them, and takes what is left.
Delete(r) ==
    /\ pc[r] = "deleting"
    /\ \A q \in Request \ {r} : local[q].dead \cap local[r].sought = {}
    /\ Hold(r, [local[r] EXCEPT !.dead = @ \cup (local[r].sought \cap rows), !.sought = {}])
    /\ Goto(r, "inserting")
    /\ Private

Insert(r) ==
    /\ pc[r] = "inserting"
    /\ LET list == Foremost(local[r].todo)
           new == Entries(call[r], list, r) IN
       /\ ~ Waits(r, new)
       /\ IF Taken(r, new)
            THEN Rollback(r)
            ELSE /\ Hold(r, [local[r] EXCEPT !.fresh = @ \cup new, !.todo = @ \ {list}])
                 /\ Goto(r, "clearing")
                 /\ Private

Commit(r) ==
    /\ pc[r] = "clearing" /\ local[r].todo = {}
    /\ rows' = (rows \ local[r].dead) \cup local[r].fresh
    /\ header' = IF lock = r THEN Written(r) ELSE header
    /\ lock' = IF lock = r THEN None ELSE lock
    /\ Hold(r, [local[r] EXCEPT !.dead = {}, !.fresh = {}])
    /\ Goto(r, "done")
    /\ UNCHANGED <<call, met>>

----------------------------------------------------------------------------
\* An MGA joins the treaty (addMgaToTreaties), without a transaction; the treaty is removed

Find(r) ==
    /\ pc[r] = "reading" /\ call[r].op \in {"join", "delete"}
    /\ IF header = None
         THEN Rollback(r)
         ELSE /\ Hold(r, [local[r] EXCEPT !.copy = header])
              /\ Goto(r, IF call[r].op = "join" THEN "linking" ELSE "marking")
              /\ Private

Link(r) == [list |-> "mgas", item |-> call[r].mga, from |-> r]

\* A link that exists is left.
Linked(r) ==
    /\ pc[r] = "linking"
    /\ Goto(r, IF \E x \in rows : Alike(x, Link(r)) THEN "naming" ELSE "joining")
    /\ UNCHANGED local
    /\ Private

Join(r) ==
    /\ pc[r] = "joining"
    /\ ~ Waits(r, {Link(r)})
    /\ IF Taken(r, {Link(r)})
         THEN Rollback(r)
         ELSE /\ rows' = rows \cup {Link(r)}
              /\ Goto(r, "naming")
              /\ UNCHANGED <<header, lock, call, local, met>>

\* The header names it unless it named another when it was read.
Name(r) ==
    /\ pc[r] = "naming"
    /\ IF local[r].copy["mgas"] # None
         THEN Goto(r, "done") /\ UNCHANGED local
         ELSE /\ Hold(r, [local[r] EXCEPT !.copy["mgas"] = call[r].mga, !.copy["by"] = call[r].user])
              /\ Goto(r, "comparing")
    /\ Private

\* dao.delete reads the treaty once more.
Mark(r) ==
    /\ pc[r] = "marking"
    /\ Hold(r, [local[r] EXCEPT !.copy = [header EXCEPT !["deleted"] = TRUE]])
    /\ Goto(r, "comparing")
    /\ Private

----------------------------------------------------------------------------

TreatyStep(r) ==
    \/ Read(r) \/ Ensure(r) \/ Make(r) \/ Build(r) \/ Compare(r) \/ Update(r)
    \/ Search(r) \/ Delete(r) \/ Insert(r) \/ Commit(r)
    \/ Find(r) \/ Linked(r) \/ Join(r) \/ Name(r) \/ Mark(r)

TreatyNext ==
    \E r \in Request :
        \/ \E c \in TreatyCall : TreatyArrive(r, c)
        \/ TreatyStep(r)
        \/ TreatyAbort(r)

TreatySpec == TreatyInit /\ [][TreatyNext]_treatyVars

----------------------------------------------------------------------------
\* Properties

Locals ==
    [copy : Header \cup {None}, cols : SUBSET Column, todo : SUBSET List,
     sought : SUBSET Row, dead : SUBSET Row, fresh : SUBSET Row]

TreatyTypeOK ==
    /\ header \in Header \cup {None}
    /\ rows \in SUBSET Row
    /\ lock \in Request \cup {None}
    /\ pc \in [Request -> {"idle", "reading", "ensuring", "making", "building", "comparing",
                           "updating", "clearing", "deleting", "inserting", "linking",
                           "joining", "naming", "marking", "done", "failed"}]
    /\ call \in [Request -> TreatyCall \cup {None}]
    /\ local \in [Request -> Locals]
    /\ met \in [Request -> SUBSET Request]

Listing(r) == r # None /\ call[r] # None /\ call[r].op \in {"create", "amend"}

\* A list holds the entries of one request, besides MGAs that joined, unless two amendments
\* overlapped and one found nothing to change in the header, so took no lock.
MixedOnlyWithoutLock ==
    \A x, y \in rows :
        /\ x.list = y.list /\ x.list # "companies" /\ x.from # y.from
        /\ Listing(x.from) /\ (y.from = None \/ Listing(y.from))
        =>
        /\ y.from \in met[x.from]
        /\ local[x.from].cols = {} \/ local[y.from].cols = {}

\* The columns of the header a request is about.
Asked(c) ==
    CASE c.op = "join" -> {"mgas", "by"}
      [] c.op = "delete" -> {"deleted"}
      [] c.op = "create" -> Column
      [] OTHER -> {"by"} \cup (IF c.terms = None THEN {} ELSE {"terms"})
                  \cup DOMAIN c.heads \cup (DOMAIN c.lists \cap Headed)

\* A column changes only at a request about it, or goes back to what a request read that
\* met one about it: a removed treaty comes back only in this way.
HeaderLostByOverlap ==
    [][header # None =>
        \A k \in Column :
            header'[k] # header[k] =>
                \E r \in Request :
                    /\ pc[r] # "done" /\ pc'[r] = "done"
                    /\ \/ k \in Asked(call[r])
                       \/ \E q \in met[r] : k \in local[q].cols]_treatyVars

Items(k) == {x.item : x \in {y \in rows : y.list = k}}

\* Requests that write a list.
Writing(r, k) ==
    \/ Listing(r) /\ k \in DOMAIN Given(call[r])
    \/ call[r] # None /\ call[r].op = "join" /\ k = "mgas"

\* The header names an entry of the list, unless a request gave the header alone (which a
\* creation also does beside an empty list), one that wrote the list overlapped one that wrote
\* the header, or an MGA has joined so far only the list.
HeaderInList ==
    header # None =>
        \A k \in Headed :
            Items(k) # {} /\ header[k] \notin Items(k) =>
                \/ \E r \in Request : Listing(r) /\ Alone(call[r], k)
                \/ \E c \in Earlier \ {None} : Alone(c, k)
                \/ \E r \in Request : Writing(r, k) /\ \E q \in met[r] : k \in local[q].cols
                \/ header[k] = None /\ \E x \in rows : x.list = k /\ x.from # None
                                                      /\ call[x.from].op = "join"
=============================================================================
