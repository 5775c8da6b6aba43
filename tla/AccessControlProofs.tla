------------------------- MODULE AccessControlProofs -------------------------
(***************************************************************************)
(* Proofs about AccessControl: its types, that a cached permission set is   *)
(* stale only by a race, that a replacement of overrides gives what was     *)
(* asked for, and that the last superadmin stays.                           *)
(***************************************************************************)
EXTENDS AccessControl, FiniteSetTheorems, TLAPS

UserOps == {"profile", "activate", "deactivate", "bulk", "remove", "assign", "override"}

RoleOps == {"grants", "editRole", "enable", "disable", "dropRole"}

\* Operations that put users out of service.
Retiring == {"deactivate", "bulk", "remove"}

LEMMA CallFields ==
    ASSUME NEW c \in Call
    PROVE  /\ c.by \in User /\ c # Absent
           /\ c.op \in UserOps \cup RoleOps \cup {"serve"}
           /\ c.op \in UserOps => c.whom \in SUBSET User /\ c.whom # {}
           /\ c.op \in RoleOps => c.role \in Role
           /\ c.op = "assign" => c.role \in Role
           /\ c.op \in {"override", "grants", "editRole"} => c.checked \in SUBSET Permission
<1>. DEFINE Whom == (SUBSET User) \ {{}}
            Checked == SUBSET Permission
<1>1. /\ c # Absent
      /\ \/ c \in [op : {"serve"}, by : User]
         \/ c \in [op : {"profile", "activate", "deactivate", "bulk", "remove"},
                  by : User, whom : Whom]
         \/ c \in [op : {"assign"}, by : User, whom : Whom, role : Role]
         \/ c \in [op : {"override"}, by : User, whom : Whom, checked : Checked]
         \/ c \in [op : {"grants", "editRole"}, by : User, role : Role, checked : Checked]
         \/ c \in [op : {"enable", "disable", "dropRole"}, by : User, role : Role]
    BY ConstantAssumption, Zenon DEF Calls
<1>. HIDE DEF Whom, Checked
<1>2. /\ c.by \in User /\ c.op \in UserOps \cup RoleOps \cup {"serve"}
      /\ c.op \in UserOps => c.whom \in Whom
      /\ c.op \in RoleOps \cup {"assign"} => c.role \in Role
      /\ c.op \in {"override", "grants", "editRole"} => c.checked \in Checked
    BY <1>1 DEF UserOps, RoleOps
<1>3. \A S \in Whom : S \in SUBSET User /\ S # {}
    BY DEF Whom
<1>4. c.op \in {"override", "grants", "editRole"} => c.checked \in SUBSET Permission
    BY <1>2 DEF Checked
<1>5. c.op \in UserOps => c.whom \in SUBSET User /\ c.whom # {}
    BY <1>2, <1>3
<1>6. (c.op \in RoleOps => c.role \in Role) /\ (c.op = "assign" => c.role \in Role)
    BY <1>2
<1>. QED
    BY <1>1, <1>2, <1>4, <1>5, <1>6, Zenon

LEMMA ResolutionsTyped ==
    ASSUME NEW base \in SUBSET Permission, NEW rows \in SUBSET Override
    PROVE  Resolutions(base, rows) \in SUBSET SUBSET Permission
  BY DEF Resolutions

\* Overrides computed against a base and resolved over it give what was checked.
LEMMA OverridesResolve ==
    ASSUME NEW checked \in SUBSET Permission, NEW base \in SUBSET Permission
    PROVE  /\ Overrides(checked, base) \in SUBSET Override
           /\ Resolutions(base, Overrides(checked, base)) = {checked}
<1>. DEFINE rows == Overrides(checked, base)
            given == {p \in Permission : <<p, "grant">> \in rows}
            taken == {p \in Permission : <<p, "revoke">> \in rows}
<1>1. rows \in SUBSET Override
    BY DEF Overrides, Override
<1>2. \A p \in Permission : <<p, "grant">> \in rows <=> p \in checked \ base
    BY DEF Overrides
<1>3. \A p \in Permission : <<p, "revoke">> \in rows <=> p \in base \ checked
    BY DEF Overrides
<1>4. given = checked \ base /\ taken = base \ checked
    BY <1>2, <1>3
<1>5. Resolutions(base, rows) = {((base \cup given) \ taken) \cup last : last \in SUBSET (given \cap taken)}
    BY DEF Resolutions
<1>. HIDE DEF given, taken, rows
<1>6. given \cap taken = {} /\ (base \cup given) \ taken = checked
    BY <1>4
<1>7. SUBSET (given \cap taken) = {{}}
    BY <1>6
<1>8. Resolutions(base, rows) = {((base \cup given) \ taken) \cup {}}
    BY <1>5, <1>7
<1>. QED
    BY <1>1, <1>6, <1>8 DEF rows

----------------------------------------------------------------------------
\* The invariant

\* Which operations reach a label.
Path(r) ==
    /\ pc[r] # "idle" => call[r] \in Call
    /\ pc[r] = "finding" => call[r].op \in UserOps
    /\ pc[r] \in {"counting", "loading", "saving"} => call[r].op \in UserOps \ {"override"}
    /\ pc[r] \in {"comparing", "clearing", "writing"} => call[r].op = "override"
    /\ pc[r] = "invalidating" => call[r].op \in {"assign", "deactivate", "bulk", "override"}
    /\ pc[r] \in {"findingRole", "countingUsers", "loadingRole", "savingRole"} =>
          call[r].op \in RoleOps
    /\ pc[r] \in {"clearingRole", "writingRole", "invalidatingAll"} =>
          call[r].op \in {"grants", "editRole"}

\* What a request has in hand at a label.
Holds(r) ==
    /\ pc[r] \in {"looking", "resolving"} => local[r].rows[call[r].by] \in UserRow
    /\ pc[r] = "overriding" => call[r].by \notin SuperAdmin
    /\ pc[r] \in {"counting", "comparing"} =>
          \A u \in call[r].whom : local[r].rows[u] \in UserRow
    /\ pc[r] = "saving" => \A u \in User \ call[r].whom : local[r].rows[u] = Absent
    /\ pc[r] = "savingRole" => local[r].role \in RoleRow

\* What a guard not overtaken has read of its user is what is there.
GuardFresh(r) ==
    call[r].by \notin overtaken[r] =>
        /\ pc[r] \in {"looking", "resolving"} => local[r].rows[call[r].by] = users[call[r].by]
        /\ pc[r] = "overriding" => local[r].granted = granted[users[call[r].by].role]
        /\ pc[r] = "filling" => local[r].granted \in Effective(call[r].by)

\* So are the rows a request has copies of ...
CopiesFresh(r) ==
    /\ pc[r] \in {"counting", "comparing"} =>
          \A u \in call[r].whom \ overtaken[r] : local[r].rows[u] = users[u]
    /\ pc[r] = "saving" =>
          \A u \in User \ overtaken[r] : local[r].rows[u] \in {Absent, users[u]}

\* ... and the role's permissions, while overrides are replaced.
Replaces(r) ==
    /\ pc[r] \in {"clearing", "writing"} /\ Target(r) \notin overtaken[r] =>
          local[r].granted = granted[users[Target(r)].role]
    /\ pc[r] = "writing" /\ Target(r) \notin overtaken[r] => override[Target(r)] = {}
    /\ pc[r] = "invalidating" /\ call[r].op = "override"
       /\ Target(r) \notin overtaken[r] \cup SuperAdmin =>
          Effective(Target(r)) = {call[r].checked}

\* A request past the count leaves a superadmin in service.
Spares(r) ==
    /\ pc[r] \in {"loading", "saving"}
    /\ call[r].op \in Retiring
    /\ overtaken[r] \cap SuperAdmin = {}
    /\ ActiveSuperAdmins # {}
    => ActiveSuperAdmins \ call[r].whom # {}

Good(r) ==
    Path(r) /\ Holds(r) /\ GuardFresh(r) /\ CopiesFresh(r) /\ Replaces(r) /\ Spares(r)

\* Strengthening: what a request not overtaken has read is still so.
CInv ==
    /\ TypeOK
    /\ \A r \in Request : Good(r)
    /\ StaleOnlyByRaceOrFailure

LEMMA Initial == Init => CInv
<1>. SUFFICES ASSUME Init PROVE CInv
    OBVIOUS
<1>1. TypeOK
    <2>1. users \in [User -> UserRow]
        BY ConstantAssumption DEF Init, UserRow
    <2>2. roles \in [Role -> RoleRow] /\ granted \in [Role -> SUBSET Permission]
        BY ConstantAssumption DEF Init, RoleRow
    <2>3. local \in [Request -> Locals]
        BY DEF Init, Locals, Forgotten
    <2>4. /\ override \in [User -> SUBSET Override] /\ cache \in [User -> SUBSET SUBSET Permission]
          /\ pc \in [Request -> Labels] /\ call \in [Request -> Call \cup {Absent}]
          /\ overtaken \in [Request -> SUBSET User] /\ suspect \in SUBSET User
        BY DEF Init, Labels
    <2>. QED
        BY <2>1, <2>2, <2>3, <2>4 DEF TypeOK
<1>2. ASSUME NEW r \in Request PROVE Good(r)
    BY DEF Init, Good, Path, Holds, GuardFresh, CopiesFresh, Replaces, Spares
<1>3. StaleOnlyByRaceOrFailure
    BY DEF Init, StaleOnlyByRaceOrFailure
<1>. QED
    BY <1>1, <1>2, <1>3 DEF CInv

\* What a step leaves of the rights of those it has not marked as overtaken.
LEMMA SameRights ==
    ASSUME TypeOK, NEW u \in User, Rights(u)' = Rights(u)
    PROVE  /\ users'[u] = users[u] /\ override'[u] = override[u]
           /\ granted'[users'[u].role] = granted[users[u].role]
           /\ Effective(u)' = Effective(u)
  BY DEF Rights, Effective

\* A request whose own state a step leaves alone keeps what it relies on, when the
\* step marks those whose rights it changes.
LEMMA Undisturbed ==
    ASSUME TypeOK, NEW q \in Request, Good(q),
           pc'[q] = pc[q], call'[q] = call[q], local'[q] = local[q],
           overtaken[q] \subseteq overtaken'[q],
           InFlight(q) => \A u \in User \ overtaken'[q] : Rights(u)' = Rights(u)
    PROVE  Good(q)'
<1>1. Path(q)' /\ Holds(q)'
    BY DEF Good, Path, Holds
<1>2. ASSUME InFlight(q) PROVE GuardFresh(q)'
    <2>1. pc[q] # "idle" /\ call[q].by \in User
        BY <1>2, CallFields DEF InFlight, Good, Path
    <2>2. CASE call[q].by \in overtaken'[q]
        BY <2>2 DEF GuardFresh
    <2>3. CASE call[q].by \notin overtaken'[q]
        <3>1. PICK u \in User : u = call[q].by
            BY <2>1
        <3>2. /\ users'[u] = users[u] /\ granted'[users'[u].role] = granted[users[u].role]
              /\ Effective(u)' = Effective(u)
            BY <1>2, <2>3, <3>1, SameRights
        <3>3. /\ pc[q] \in {"looking", "resolving"} => local[q].rows[u] = users[u]
              /\ pc[q] = "overriding" => local[q].granted = granted[users[u].role]
              /\ pc[q] = "filling" => local[q].granted \in Effective(u)
            BY <2>3, <3>1 DEF Good, GuardFresh
        <3>4. call'[q].by = u
            BY <3>1
        <3>5. Effective(call[q].by)' = Effective(u)'
            BY <3>4 DEF Effective
        <3>. QED
            BY <3>2, <3>3, <3>4, <3>5 DEF GuardFresh
    <2>. QED
        BY <2>2, <2>3
<1>3. ASSUME InFlight(q) PROVE CopiesFresh(q)'
    <2>1. pc[q] \in {"counting", "comparing"} => call[q].whom \in SUBSET User
        BY CallFields DEF Good, Path, UserOps
    <2>2. \A u \in User \ overtaken'[q] : users'[u] = users[u] /\ u \notin overtaken[q]
        BY <1>3, SameRights
    <2>. QED
        BY <2>1, <2>2 DEF Good, CopiesFresh
<1>4. ASSUME InFlight(q), pc[q] \in {"clearing", "writing", "invalidating"},
             call[q].op = "override"
      PROVE  Replaces(q)'
    <2>1. Target(q) \in User /\ Target(q)' = Target(q)
        BY <1>4, CallFields DEF Good, Path, Target, UserOps
    <2>2. CASE Target(q) \in overtaken'[q]
        BY <2>1, <2>2 DEF Replaces
    <2>3. CASE Target(q) \notin overtaken'[q]
        BY <1>4, <2>1, <2>3, SameRights DEF Good, Replaces
    <2>. QED
        BY <2>2, <2>3
<1>5. ASSUME InFlight(q) PROVE Spares(q)'
    <2>1. CASE overtaken'[q] \cap SuperAdmin # {}
        BY <2>1 DEF Spares
    <2>2. CASE overtaken'[q] \cap SuperAdmin = {}
        <3>1. \A u \in SuperAdmin : users'[u] = users[u]
            BY <1>5, <2>2, SameRights, ConstantAssumption
        <3>2. ActiveSuperAdmins' = ActiveSuperAdmins
            BY <3>1 DEF ActiveSuperAdmins
        <3>3. overtaken[q] \cap SuperAdmin = {}
            BY <2>2
        <3>. QED
            BY <3>2, <3>3 DEF Good, Spares
    <2>. QED
        BY <2>1, <2>2
<1>6. CASE ~ InFlight(q)
    BY <1>1, <1>6 DEF InFlight, Good, GuardFresh, CopiesFresh, Replaces, Spares
<1>7. CASE InFlight(q)
    <2>1. Replaces(q)'
        BY <1>4, <1>7 DEF Good, Path, Replaces
    <2>. QED
        BY <1>1, <1>2, <1>3, <1>5, <1>7, <2>1 DEF Good
<1>. QED
    BY <1>6, <1>7

LEMMA Ended ==
    ASSUME NEW q \in Request, pc[q] # "idle", Path(q), call'[q] = call[q],
           pc'[q] \in {"done", "failed"}
    PROVE  Good(q)'
  BY DEF Good, Path, Holds, GuardFresh, CopiesFresh, Replaces, Spares

\* The requests beside the one that steps.
LEMMA OthersGood ==
    ASSUME CInv, NEW r \in Request,
           \A q \in Request \ {r} : pc'[q] = pc[q] /\ call'[q] = call[q] /\ local'[q] = local[q],
           Overtake(r) \/ UNCHANGED <<users, granted, override, overtaken>>
    PROVE  \A q \in Request \ {r} : Good(q)'
<1>. SUFFICES ASSUME NEW q \in Request \ {r} PROVE Good(q)'
    OBVIOUS
<1>1. TypeOK /\ Good(q)
    BY DEF CInv
<1>2. CASE UNCHANGED <<users, granted, override, overtaken>>
    <2>1. \A u \in User : Rights(u)' = Rights(u)
        BY <1>2 DEF Rights
    <2>. QED
        BY <1>1, <1>2, <2>1, Undisturbed
<1>3. CASE Overtake(r)
    <2>1. InFlight(q) =>
              overtaken'[q] = overtaken[q] \cup {u \in User : Rights(u)' # Rights(u)}
        BY <1>3 DEF Overtake
    <2>2. ~ InFlight(q) => overtaken'[q] = overtaken[q]
        BY <1>3 DEF Overtake
    <2>3. InFlight(q) => \A u \in User \ overtaken'[q] : Rights(u)' = Rights(u)
        BY <2>1
    <2>4. overtaken[q] \subseteq overtaken'[q]
        BY <2>1, <2>2
    <2>. QED
        BY <1>1, <2>3, <2>4, Undisturbed
<1>. QED
    BY <1>2, <1>3

\* What a step marks are users.
LEMMA OvertakenTyped ==
    ASSUME TypeOK, NEW r \in Request, Overtake(r)
    PROVE  overtaken' \in [Request -> SUBSET User] /\ overtaken'[r] = overtaken[r]
  BY DEF TypeOK, Overtake

\* Nothing is made stale by a step that leaves tables, cache and marks alone.
LEMMA NothingStale ==
    ASSUME StaleOnlyByRaceOrFailure, UNCHANGED <<users, granted, override, cache, suspect>>,
           \A q \in Request : Awaiting(q) \subseteq Awaiting(q)'
    PROVE  StaleOnlyByRaceOrFailure'
<1>1. \A u \in User : Effective(u)' = Effective(u)
    BY DEF Effective
<1>. QED
    BY <1>1 DEF StaleOnlyByRaceOrFailure

\* A step of r that leaves rights and cache alone.
LEMMA QuietStep ==
    ASSUME CInv, NEW r \in Request, NEW label \in Labels,
           UNCHANGED <<users, granted, override, cache, call, overtaken, suspect>>,
           roles' \in [Role -> RoleRow],
           pc' = [pc EXCEPT ![r] = label],
           local' \in [Request -> Locals],
           \A q \in Request \ {r} : local'[q] = local[q],
           pc[r] \notin {"writing", "invalidating", "writingRole", "invalidatingAll"},
           Good(r)'
    PROVE  CInv'
<1>1. TypeOK'
    BY DEF CInv, TypeOK
<1>2. \A q \in Request \ {r} : pc'[q] = pc[q] /\ call'[q] = call[q] /\ local'[q] = local[q]
    BY DEF CInv, TypeOK
<1>3. \A q \in Request \ {r} : Good(q)'
    BY <1>2, OthersGood
<1>4. \A q \in Request : Awaiting(q) \subseteq Awaiting(q)'
    <2>1. Awaiting(r) = {}
        BY DEF Awaiting
    <2>2. \A q \in Request \ {r} : Awaiting(q)' = Awaiting(q)
        BY <1>2 DEF Awaiting
    <2>. QED
        BY <2>1, <2>2
<1>5. StaleOnlyByRaceOrFailure'
    BY <1>4, NothingStale DEF CInv
<1>. QED
    BY <1>1, <1>3, <1>5 DEF CInv

LEMMA EndStep ==
    ASSUME CInv, NEW r \in Request, NEW label \in {"done", "failed"},
           UNCHANGED <<tables, cache, call, overtaken, suspect>>,
           pc' = [pc EXCEPT ![r] = label],
           local' \in [Request -> Locals],
           \A q \in Request \ {r} : local'[q] = local[q],
           pc[r] \notin {"idle", "writing", "invalidating", "writingRole", "invalidatingAll"}
    PROVE  CInv'
<1>1. pc'[r] = label /\ label \in Labels
    BY DEF CInv, TypeOK, Labels
<1>2. Good(r)'
    BY <1>1, Ended DEF CInv, Good
<1>3. roles' \in [Role -> RoleRow]
    BY DEF CInv, TypeOK, tables
<1>. QED
    BY <1>1, <1>2, <1>3, QuietStep DEF tables

\* What Keep and Goto do to the memory and label of a request.
LEMMA Kept ==
    ASSUME TypeOK, NEW r \in Request, NEW mem \in Locals, Keep(r, mem)
    PROVE  /\ local' \in [Request -> Locals] /\ local'[r] = mem
           /\ \A q \in Request \ {r} : local'[q] = local[q]
  BY DEF TypeOK, Keep

LEMMA Gone ==
    ASSUME TypeOK, NEW r \in Request, NEW label, Goto(r, label)
    PROVE  pc'[r] = label /\ \A q \in Request \ {r} : pc'[q] = pc[q]
  BY DEF TypeOK, Goto

LEMMA MemoryTyped ==
    ASSUME TypeOK, NEW r \in Request
    PROVE  /\ local[r] \in Locals
           /\ local[r].rows \in [User -> UserRow \cup {Absent}]
           /\ \A u \in User, row \in UserRow : [local[r] EXCEPT !.rows[u] = row] \in Locals
           /\ \A rows \in [User -> UserRow \cup {Absent}] :
                 [local[r] EXCEPT !.rows = rows] \in Locals
           /\ \A P \in SUBSET Permission : [local[r] EXCEPT !.granted = P] \in Locals
           /\ \A row \in RoleRow : [local[r] EXCEPT !.role = row] \in Locals
           /\ Forgotten \in Locals
<1>1. local[r] \in Locals
    BY DEF TypeOK
<1>. QED
    BY <1>1 DEF Locals, Forgotten

LEMMA EntryFits ==
    ASSUME NEW op \in UserOps \cup RoleOps \cup {"serve"}
    PROVE  /\ Entry[op] \in {"done", "finding", "findingRole"}
           /\ Entry[op] = "finding" => op \in UserOps
           /\ Entry[op] = "findingRole" => op \in RoleOps
  BY DEF Entry, UserOps, RoleOps

\* The guard's decision.
LEMMA Passed ==
    ASSUME TypeOK, NEW r \in Request, NEW rights, Pass(r, rights), call' = call, call[r] \in Call
    PROVE  /\ Good(r)' /\ local' \in [Request -> Locals]
           /\ \A q \in Request \ {r} : local'[q] = local[q]
           /\ \E label \in Labels : pc' = [pc EXCEPT ![r] = label]
<1>1. PICK label : /\ pc' = [pc EXCEPT ![r] = label]
                   /\ label \in {"failed", Entry[call[r].op]}
    BY DEF Pass, Goto
<1>2. /\ label \in {"failed", "done", "finding", "findingRole"}
      /\ label = "finding" => call[r].op \in UserOps
      /\ label = "findingRole" => call[r].op \in RoleOps
    BY <1>1, EntryFits, CallFields
<1>3. pc'[r] = label
    BY <1>1 DEF TypeOK
<1>4. Good(r)'
    BY <1>2, <1>3 DEF Good, Path, Holds, GuardFresh, CopiesFresh, Replaces, Spares
<1>5. label \in Labels
    BY <1>2 DEF Labels
<1>. QED
    BY <1>1, <1>4, <1>5, MemoryTyped, Kept DEF Pass

----------------------------------------------------------------------------
\* The guards

LEMMA ArriveKeeps ==
    ASSUME CInv, NEW r \in Request, NEW c \in Call, Arrive(r, c)
    PROVE  CInv'
<1>1. /\ pc[r] = "idle" /\ call' = [call EXCEPT ![r] = c] /\ Goto(r, "admitting")
      /\ UNCHANGED <<tables, cache, local, overtaken, suspect>>
    BY DEF Arrive
<1>2. TypeOK'
    BY <1>1 DEF CInv, TypeOK, Goto, tables, Labels
<1>3. pc'[r] = "admitting" /\ call'[r] = c
    BY <1>1 DEF CInv, TypeOK, Goto
<1>4. \A q \in Request \ {r} : pc'[q] = pc[q] /\ call'[q] = call[q] /\ local'[q] = local[q]
    BY <1>1 DEF CInv, TypeOK, Goto
<1>5. Good(r)'
    BY <1>3 DEF Good, Path, Holds, GuardFresh, CopiesFresh, Replaces, Spares
<1>6. \A q \in Request \ {r} : Good(q)'
    BY <1>1, <1>4, OthersGood DEF tables
<1>7. \A q \in Request : Awaiting(q) \subseteq Awaiting(q)'
    <2>1. Awaiting(r) = {}
        BY <1>1 DEF Awaiting
    <2>2. \A q \in Request \ {r} : Awaiting(q)' = Awaiting(q)
        BY <1>4 DEF Awaiting
    <2>. QED
        BY <2>1, <2>2
<1>8. StaleOnlyByRaceOrFailure'
    BY <1>1, <1>7, NothingStale DEF CInv, tables
<1>. QED
    BY <1>2, <1>5, <1>6, <1>8 DEF CInv

LEMMA AdmitKeeps ==
    ASSUME CInv, NEW r \in Request, Admit(r)
    PROVE  CInv'
<1>1. pc[r] = "admitting" /\ UNCHANGED <<tables, cache, call, overtaken, suspect>>
    BY DEF Admit
<1>2. call[r] \in Call /\ call[r].by \in User
    BY <1>1, CallFields DEF CInv, Good, Path
<1>3. CASE Admissible(call[r].by)
    <2>. DEFINE u == call[r].by
                mem == [local[r] EXCEPT !.rows[u] = users[u]]
    <2>1. Keep(r, mem) /\ Goto(r, "looking")
        BY <1>3 DEF Admit
    <2>2. users[u] \in UserRow /\ mem \in Locals
        BY <1>2, MemoryTyped DEF CInv, TypeOK
    <2>3. mem.rows[u] = users[u]
        BY <1>2, MemoryTyped DEF CInv, Locals
    <2>. HIDE DEF mem
    <2>4. /\ local' \in [Request -> Locals] /\ local'[r] = mem
          /\ \A q \in Request \ {r} : local'[q] = local[q]
        BY <2>1, <2>2, Kept DEF CInv
    <2>5. pc'[r] = "looking" /\ pc' = [pc EXCEPT ![r] = "looking"]
        BY <2>1 DEF Goto, CInv, TypeOK
    <2>6. Good(r)'
        BY <1>1, <1>2, <2>2, <2>3, <2>4, <2>5
        DEF tables, Good, Path, Holds, GuardFresh, CopiesFresh, Replaces, Spares
    <2>7. "looking" \in Labels /\ roles' \in [Role -> RoleRow]
        BY <1>1 DEF Labels, tables, CInv, TypeOK
    <2>. QED
        BY <1>1, <2>4, <2>5, <2>6, <2>7, QuietStep DEF tables
<1>4. CASE ~ Admissible(call[r].by)
    <2>1. pc' = [pc EXCEPT ![r] = "failed"] /\ local' = local
        BY <1>4 DEF Admit, End, Goto
    <2>. QED
        BY <1>1, <2>1, EndStep DEF CInv, TypeOK
<1>. QED
    BY <1>3, <1>4

LEMMA LookKeeps ==
    ASSUME CInv, NEW r \in Request, Look(r)
    PROVE  CInv'
<1>1. pc[r] = "looking" /\ UNCHANGED <<tables, cache, call, overtaken, suspect>>
    BY DEF Look
<1>2. call[r] \in Call /\ call[r].by \in User /\ roles' \in [Role -> RoleRow]
    BY <1>1, CallFields DEF CInv, Good, Path, TypeOK, tables
<1>3. ASSUME NEW rights, Pass(r, rights)
      PROVE  CInv'
    BY <1>1, <1>2, <1>3, Passed, QuietStep DEF CInv, tables
<1>4. CASE Goto(r, "resolving") /\ local' = local
    <2>1. pc' = [pc EXCEPT ![r] = "resolving"] /\ pc'[r] = "resolving"
        BY <1>4 DEF Goto, CInv, TypeOK
    <2>2. Good(r) /\ "resolving" \in Labels /\ local' \in [Request -> Locals]
        BY <1>4 DEF CInv, Labels, TypeOK
    <2>3. Good(r)'
        BY <1>1, <1>2, <1>4, <2>1, <2>2
        DEF tables, Good, Path, Holds, GuardFresh, CopiesFresh, Replaces, Spares
    <2>. QED
        BY <1>1, <1>2, <1>4, <2>1, <2>2, <2>3, QuietStep DEF tables
<1>. QED
    BY <1>3, <1>4 DEF Look

LEMMA ReadRoleKeeps ==
    ASSUME CInv, NEW r \in Request, ReadRole(r)
    PROVE  CInv'
<1>. DEFINE u == call[r].by
            read == IF u \in SuperAdmin THEN Permission ELSE granted[local[r].rows[u].role]
            mem == [local[r] EXCEPT !.granted = read]
            label == IF u \in SuperAdmin THEN "filling" ELSE "overriding"
<1>1. /\ pc[r] = "resolving" /\ UNCHANGED <<tables, cache, call, overtaken, suspect>>
      /\ Keep(r, mem) /\ Goto(r, label)
    BY DEF ReadRole
<1>2. call[r] \in Call /\ u \in User /\ roles' \in [Role -> RoleRow]
    BY <1>1, CallFields DEF CInv, Good, Path, TypeOK, tables
<1>3. local[r].rows[u] \in UserRow /\ (u \notin overtaken[r] => local[r].rows[u] = users[u])
    BY <1>1 DEF CInv, Good, Holds, GuardFresh
<1>4. read \in SUBSET Permission
    BY <1>3 DEF CInv, TypeOK, UserRow
<1>5. mem \in Locals /\ mem.granted = read
    BY <1>4, MemoryTyped DEF CInv, Locals
<1>. HIDE DEF mem
<1>6. /\ local' \in [Request -> Locals] /\ local'[r] = mem
      /\ \A q \in Request \ {r} : local'[q] = local[q]
    BY <1>1, <1>5, Kept DEF CInv
<1>7. pc'[r] = label /\ pc' = [pc EXCEPT ![r] = label] /\ label \in Labels
    BY <1>1 DEF Goto, CInv, TypeOK, Labels
<1>8. u \in SuperAdmin => Effective(u)' = {Permission}
    BY <1>1 DEF Effective
<1>9. GuardFresh(r)'
    <2>1. call'[r].by = u /\ overtaken' = overtaken /\ users' = users /\ granted' = granted
        BY <1>1 DEF tables
    <2>2. Effective(call[r].by)' = Effective(u)'
        OBVIOUS
    <2>3. CASE u \in SuperAdmin
        BY <1>5, <1>6, <1>7, <1>8, <2>1, <2>3 DEF GuardFresh
    <2>4. CASE u \notin SuperAdmin
        BY <1>3, <1>5, <1>6, <1>7, <2>1, <2>4 DEF GuardFresh
    <2>. QED
        BY <2>3, <2>4
<1>10. Good(r)'
    BY <1>1, <1>2, <1>7, <1>9 DEF Good, Path, Holds, CopiesFresh, Replaces, Spares
<1>. QED
    BY <1>1, <1>2, <1>6, <1>7, <1>10, QuietStep DEF tables

LEMMA ReadOverridesKeeps ==
    ASSUME CInv, NEW r \in Request, ReadOverrides(r)
    PROVE  CInv'
<1>. DEFINE u == call[r].by
<1>1. /\ pc[r] = "overriding" /\ UNCHANGED <<tables, cache, call, overtaken, suspect>>
      /\ Goto(r, "filling")
    BY DEF ReadOverrides
<1>2. call[r] \in Call /\ u \in User /\ u \notin SuperAdmin /\ roles' \in [Role -> RoleRow]
    BY <1>1, CallFields DEF CInv, Good, Path, Holds, TypeOK, tables
<1>3. PICK rights \in Resolutions(local[r].granted, override[u]) :
          Keep(r, [local[r] EXCEPT !.granted = rights])
    BY DEF ReadOverrides
<1>4. local[r].granted \in SUBSET Permission /\ override[u] \in SUBSET Override
    BY <1>2 DEF CInv, TypeOK, Locals
<1>5. rights \in SUBSET Permission
    BY <1>3, <1>4, ResolutionsTyped
<1>. DEFINE mem == [local[r] EXCEPT !.granted = rights]
<1>6. mem \in Locals /\ mem.granted = rights
    BY <1>5, MemoryTyped DEF CInv, Locals
<1>7. Keep(r, mem)
    BY <1>3
<1>. HIDE DEF mem
<1>8. /\ local' \in [Request -> Locals] /\ local'[r] = mem
      /\ \A q \in Request \ {r} : local'[q] = local[q]
    BY <1>6, <1>7, Kept DEF CInv
<1>9. /\ pc'[r] = "filling" /\ pc' = [pc EXCEPT ![r] = "filling"] /\ "filling" \in Labels
    BY <1>1 DEF Goto, CInv, TypeOK, Labels
<1>10. u \notin overtaken[r] => rights \in Effective(u)
    BY <1>1, <1>2, <1>3 DEF CInv, Good, GuardFresh, Effective
<1>11. Effective(u)' = Effective(u)
    BY <1>1 DEF Effective, tables
<1>12. GuardFresh(r)'
    BY <1>1, <1>6, <1>8, <1>9, <1>10, <1>11 DEF GuardFresh
<1>13. Good(r)'
    BY <1>1, <1>2, <1>9, <1>12 DEF Good, Path, Holds, CopiesFresh, Replaces, Spares
<1>. QED
    BY <1>1, <1>2, <1>8, <1>9, <1>13, QuietStep DEF tables

LEMMA FillKeeps ==
    ASSUME CInv, NEW r \in Request, Fill(r)
    PROVE  CInv'
<1>. DEFINE u == call[r].by
<1>1. /\ pc[r] = "filling" /\ UNCHANGED <<tables, call, overtaken>>
      /\ cache' = [cache EXCEPT ![u] = {local[r].granted}]
      /\ suspect' = IF u \in overtaken[r] THEN suspect \cup {u} ELSE suspect \ {u}
      /\ Pass(r, local[r].granted)
    BY DEF Fill
<1>2. call[r] \in Call /\ u \in User /\ local[r].granted \in SUBSET Permission
    BY <1>1, CallFields DEF CInv, Good, Path, TypeOK, Locals
<1>3. /\ Good(r)' /\ local' \in [Request -> Locals]
      /\ \A q \in Request \ {r} : local'[q] = local[q]
      /\ \E label \in Labels : pc' = [pc EXCEPT ![r] = label]
    BY <1>1, <1>2, Passed DEF CInv
<1>4. TypeOK'
    <2>1. cache' \in [User -> SUBSET SUBSET Permission] /\ suspect' \in SUBSET User
        BY <1>1, <1>2 DEF CInv, TypeOK
    <2>. QED
        BY <1>1, <1>3, <2>1 DEF CInv, TypeOK, tables
<1>5. \A q \in Request \ {r} : pc'[q] = pc[q] /\ call'[q] = call[q] /\ local'[q] = local[q]
    BY <1>1, <1>3 DEF CInv, TypeOK
<1>6. \A q \in Request \ {r} : Good(q)'
    BY <1>1, <1>5, OthersGood DEF tables
<1>7. StaleOnlyByRaceOrFailure'
    <2>. SUFFICES ASSUME NEW v \in User, ~ cache'[v] \subseteq Effective(v)', v \notin suspect'
                  PROVE  \E q \in Request : v \in Awaiting(q)'
        BY DEF StaleOnlyByRaceOrFailure
    <2>1. Effective(v)' = Effective(v)
        BY <1>1 DEF Effective, tables
    <2>2. v # u
        BY <1>1, <1>2, <2>1 DEF CInv, TypeOK, Good, GuardFresh
    <2>3. cache'[v] = cache[v] /\ v \notin suspect
        BY <1>1, <2>2 DEF CInv, TypeOK
    <2>4. PICK q \in Request : v \in Awaiting(q)
        BY <2>1, <2>3 DEF CInv, StaleOnlyByRaceOrFailure
    <2>5. q # r
        BY <1>1, <2>4 DEF Awaiting
    <2>6. Awaiting(q)' = Awaiting(q)
        BY <1>5, <2>5 DEF Awaiting
    <2>. QED
        BY <2>4, <2>6
<1>. QED
    BY <1>3, <1>4, <1>6, <1>7 DEF CInv

----------------------------------------------------------------------------
\* Requests about users

LEMMA FindUsersKeeps ==
    ASSUME CInv, NEW r \in Request, FindUsers(r)
    PROVE  CInv'
<1>. DEFINE found == [u \in User |-> IF u \in call[r].whom THEN users[u] ELSE Absent]
            mem == [local[r] EXCEPT !.rows = found]
            label == CASE call[r].op = "override" -> "comparing"
                       [] Endangered(r) # {} -> "counting"
                       [] OTHER -> "loading"
<1>1. /\ pc[r] = "finding" /\ UNCHANGED <<tables, cache, call, overtaken, suspect>>
      /\ End(r, "failed") \/ (Keep(r, mem) /\ Goto(r, label))
    BY DEF FindUsers
<1>2. /\ call[r] \in Call /\ call[r].op \in UserOps /\ call[r].whom \in SUBSET User
      /\ roles' \in [Role -> RoleRow]
    BY <1>1, CallFields DEF CInv, Good, Path, TypeOK, tables
<1>3. CASE End(r, "failed")
    BY <1>1, <1>3, EndStep DEF End, Goto, CInv, TypeOK
<1>4. CASE Keep(r, mem) /\ Goto(r, label)
    <2>1. found \in [User -> UserRow \cup {Absent}]
        BY DEF CInv, TypeOK
    <2>2. mem \in Locals /\ mem.rows = found
        BY <2>1, MemoryTyped DEF CInv, Locals
    <2>3. \A u \in call[r].whom : mem.rows[u] = users[u] /\ users[u] \in UserRow
        BY <1>2, <2>2 DEF CInv, TypeOK
    <2>. HIDE DEF mem
    <2>4. /\ local' \in [Request -> Locals] /\ local'[r] = mem
          /\ \A q \in Request \ {r} : local'[q] = local[q]
        BY <1>4, <2>2, Kept DEF CInv
    <2>5. /\ label \in {"comparing", "counting", "loading"}
          /\ label = "comparing" <=> call[r].op = "override"
          /\ label = "loading" => Endangered(r) = {}
        <3>1. CASE call[r].op = "override"
            <4>1. Endangered(r) = {}
                BY <3>1 DEF Endangered
            <4>2. label = "comparing"
                BY <3>1, <4>1
            <4>. QED
                BY <3>1, <4>2
        <3>2. CASE call[r].op # "override" /\ Endangered(r) # {}
            <4>1. label = "counting"
                BY <3>2
            <4>. QED
                BY <3>2, <4>1
        <3>3. CASE call[r].op # "override" /\ Endangered(r) = {}
            <4>1. label = "loading"
                BY <3>3
            <4>. QED
                BY <3>3, <4>1
        <3>. QED
            BY <3>1, <3>2, <3>3, Zenon
    <2>. HIDE DEF label
    <2>6. pc'[r] = label /\ pc' = [pc EXCEPT ![r] = label] /\ label \in Labels
        BY <1>4, <2>5 DEF Goto, CInv, TypeOK, Labels
    <2>7. Path(r)' /\ Holds(r)' /\ GuardFresh(r)' /\ CopiesFresh(r)' /\ Replaces(r)'
        BY <1>1, <1>2, <2>3, <2>4, <2>5, <2>6
        DEF tables, Path, Holds, GuardFresh, CopiesFresh, Replaces
    <2>8. Spares(r)'
        <3>1. CASE label = "loading" /\ call[r].op \in Retiring
            <4>1. ActiveSuperAdmins \cap call[r].whom = {}
                BY <2>5, <3>1 DEF Endangered, ActiveSuperAdmins, Retiring
            <4>2. ActiveSuperAdmins' = ActiveSuperAdmins
                BY <1>1 DEF ActiveSuperAdmins, tables
            <4>. QED
                BY <1>1, <4>1, <4>2 DEF Spares
        <3>. QED
            BY <1>1, <2>5, <2>6, <3>1 DEF Spares
    <2>. QED
        BY <1>1, <1>2, <2>4, <2>6, <2>7, <2>8, QuietStep DEF Good, tables
<1>. QED
    BY <1>1, <1>3, <1>4

\* The count leaves a superadmin that is not among those to go.
LEMMA CountKeeps ==
    ASSUME CInv, NEW r \in Request, CountSuperAdmins(r)
    PROVE  CInv'
<1>. DEFINE targets == {u \in call[r].whom \cap SuperAdmin : ~ local[r].rows[u].deleted}
<1>1. pc[r] = "counting" /\ UNCHANGED <<tables, cache, call, overtaken, suspect>>
    BY DEF CountSuperAdmins
<1>2. /\ call[r] \in Call /\ call[r].op \in UserOps \ {"override"}
      /\ call[r].whom \in SUBSET User /\ roles' \in [Role -> RoleRow]
    BY <1>1, CallFields DEF CInv, Good, Path, TypeOK, tables
<1>3. CASE End(r, "failed")
    BY <1>1, <1>3, EndStep DEF End, Goto, CInv, TypeOK
<1>4. CASE /\ ~ Cardinality(ActiveSuperAdmins) <= Cardinality(targets)
           /\ Goto(r, "loading") /\ local' = local
    <2>1. IsFiniteSet(targets) /\ IsFiniteSet(ActiveSuperAdmins)
        <3>1. targets \subseteq User /\ ActiveSuperAdmins \subseteq User
            BY ConstantAssumption DEF ActiveSuperAdmins
        <3>. QED
            BY <3>1, FS_Subset, ConstantAssumption
    <2>2. ~ ActiveSuperAdmins \subseteq targets
        <3>1. ActiveSuperAdmins \subseteq targets =>
                  Cardinality(ActiveSuperAdmins) <= Cardinality(targets)
            BY <2>1, FS_Subset
        <3>. QED
            BY <1>4, <3>1
    <2>3. PICK a \in ActiveSuperAdmins : a \notin targets
        BY <2>2
    <2>4. ASSUME overtaken[r] \cap SuperAdmin = {} PROVE a \notin call[r].whom
        <3>1. a \in SuperAdmin /\ ~ users[a].deleted
            BY <2>3 DEF ActiveSuperAdmins
        <3>2. a \in call[r].whom => local[r].rows[a] = users[a]
            BY <1>1, <2>4, <3>1 DEF CInv, Good, CopiesFresh
        <3>. QED
            BY <2>3, <3>1, <3>2
    <2>5. ActiveSuperAdmins' = ActiveSuperAdmins
        BY <1>1 DEF ActiveSuperAdmins, tables
    <2>6. /\ pc'[r] = "loading" /\ pc' = [pc EXCEPT ![r] = "loading"] /\ "loading" \in Labels
          /\ local' \in [Request -> Locals]
        BY <1>4 DEF Goto, CInv, TypeOK, Labels
    <2>7. Spares(r)'
        BY <1>1, <2>3, <2>4, <2>5 DEF Spares
    <2>8. Good(r)'
        BY <1>1, <1>2, <2>6, <2>7 DEF Good, Path, Holds, GuardFresh, CopiesFresh, Replaces
    <2>. QED
        BY <1>1, <1>2, <1>4, <2>6, <2>8, QuietStep DEF tables
<1>. QED
    BY <1>3, <1>4 DEF CountSuperAdmins

LEMMA LoadUsersKeeps ==
    ASSUME CInv, NEW r \in Request, LoadUsers(r)
    PROVE  CInv'
<1>. DEFINE read == [u \in User |->
                        IF u \in call[r].whom /\ (call[r].op = "bulk" => ~ users[u].deleted)
                          THEN users[u] ELSE Absent]
            mem == [local[r] EXCEPT !.rows = read]
<1>1. /\ pc[r] = "loading" /\ UNCHANGED <<tables, cache, call, overtaken, suspect>>
      /\ Keep(r, mem) /\ Goto(r, "saving")
    BY DEF LoadUsers
<1>2. /\ call[r] \in Call /\ call[r].op \in UserOps \ {"override"} /\ roles' \in [Role -> RoleRow]
    BY <1>1 DEF CInv, Good, Path, TypeOK, tables
<1>3. read \in [User -> UserRow \cup {Absent}]
    BY DEF CInv, TypeOK
<1>4. mem \in Locals /\ mem.rows = read
    BY <1>3, MemoryTyped DEF CInv, Locals
<1>5. /\ \A u \in User \ call[r].whom : mem.rows[u] = Absent
      /\ \A u \in User : mem.rows[u] \in {Absent, users[u]}
    BY <1>4
<1>. HIDE DEF mem
<1>6. /\ local' \in [Request -> Locals] /\ local'[r] = mem
      /\ \A q \in Request \ {r} : local'[q] = local[q]
    BY <1>1, <1>4, Kept DEF CInv
<1>7. pc'[r] = "saving" /\ pc' = [pc EXCEPT ![r] = "saving"] /\ "saving" \in Labels
    BY <1>1 DEF Goto, CInv, TypeOK, Labels
<1>8. Spares(r)'
    <2>1. ActiveSuperAdmins' = ActiveSuperAdmins
        BY <1>1 DEF ActiveSuperAdmins, tables
    <2>. QED
        BY <1>1, <2>1 DEF CInv, Good, Spares
<1>9. Good(r)'
    BY <1>1, <1>2, <1>5, <1>6, <1>7, <1>8
    DEF tables, Good, Path, Holds, GuardFresh, CopiesFresh, Replaces
<1>. QED
    BY <1>1, <1>2, <1>6, <1>7, <1>9, QuietStep DEF tables

LEMMA CompareKeeps ==
    ASSUME CInv, NEW r \in Request, Compare(r)
    PROVE  CInv'
<1>. DEFINE base == granted[local[r].rows[Target(r)].role]
            mem == [local[r] EXCEPT !.granted = base]
<1>1. /\ pc[r] = "comparing" /\ UNCHANGED <<tables, cache, call, overtaken, suspect>>
      /\ Keep(r, mem) /\ Goto(r, "clearing")
    BY DEF Compare
<1>2. /\ call[r] \in Call /\ call[r].op = "override" /\ roles' \in [Role -> RoleRow]
      /\ Target(r) \in call[r].whom
    BY <1>1, CallFields DEF CInv, Good, Path, TypeOK, tables, Target, UserOps
<1>3. /\ local[r].rows[Target(r)] \in UserRow
      /\ Target(r) \notin overtaken[r] => local[r].rows[Target(r)] = users[Target(r)]
    BY <1>1, <1>2 DEF CInv, Good, Holds, CopiesFresh
<1>4. base \in SUBSET Permission
    BY <1>3 DEF CInv, TypeOK, UserRow
<1>5. mem \in Locals /\ mem.granted = base
    BY <1>4, MemoryTyped DEF CInv, Locals
<1>. HIDE DEF mem
<1>6. /\ local' \in [Request -> Locals] /\ local'[r] = mem
      /\ \A q \in Request \ {r} : local'[q] = local[q]
    BY <1>1, <1>5, Kept DEF CInv
<1>7. pc'[r] = "clearing" /\ pc' = [pc EXCEPT ![r] = "clearing"] /\ "clearing" \in Labels
    BY <1>1 DEF Goto, CInv, TypeOK, Labels
<1>8. Target(r)' = Target(r)
    BY <1>1 DEF Target
<1>9. Good(r)'
    BY <1>1, <1>2, <1>3, <1>5, <1>6, <1>7, <1>8
    DEF tables, Good, Path, Holds, GuardFresh, CopiesFresh, Replaces, Spares
<1>. QED
    BY <1>1, <1>2, <1>6, <1>7, <1>9, QuietStep DEF tables

LEMMA ChangedTyped ==
    ASSUME NEW c \in Call, c.op \in UserOps, NEW row \in UserRow
    PROVE  /\ Changed(c, row) \in UserRow
           /\ c.op # "assign" => Changed(c, row).role = row.role
  BY CallFields DEF Changed, UserRow

\* Whatever excuses a stale entry still does, but for the step of r.
LEMMA ExcusesStay ==
    ASSUME CInv, NEW r \in Request,
           \A q \in Request \ {r} : pc'[q] = pc[q] /\ call'[q] = call[q] /\ local'[q] = local[q],
           Awaiting(r) \subseteq Awaiting(r)' \cup {v \in User : cache'[v] = {}},
           suspect \subseteq suspect' \cup {v \in User : cache'[v] = {}},
           NEW u \in User, cache'[u] \in {cache[u], {}}, Effective(u)' = Effective(u)
    PROVE  \/ cache'[u] \subseteq Effective(u)'
           \/ u \in suspect'
           \/ \E q \in Request : u \in Awaiting(q)'
<1>1. \A q \in Request \ {r} : Awaiting(q)' = Awaiting(q)
    BY DEF Awaiting
<1>2. CASE cache'[u] = {}
    BY <1>2
<1>3. CASE cache'[u] = cache[u] /\ cache'[u] # {}
    <2>1. CASE cache[u] \subseteq Effective(u)
        BY <1>3, <2>1
    <2>2. CASE u \in suspect
        BY <1>3, <2>2
    <2>3. ASSUME NEW q \in Request, u \in Awaiting(q)
          PROVE  \E p \in Request : u \in Awaiting(p)'
        BY <1>1, <1>3, <2>3
    <2>. QED
        BY <2>1, <2>2, <2>3 DEF CInv, StaleOnlyByRaceOrFailure
<1>. QED
    BY <1>2, <1>3

LEMMA SaveUsersKeeps ==
    ASSUME CInv, NEW r \in Request, SaveUsers(r)
    PROVE  CInv'
<1>. DEFINE label == IF call[r].op \in {"assign", "deactivate", "bulk"}
                       THEN "invalidating" ELSE "done"
            copy(u) == local[r].rows[u]
<1>1. /\ pc[r] = "saving" /\ UNCHANGED <<roles, granted, override, cache, call, local>>
      /\ users' = [u \in User |-> IF copy(u) = Absent THEN users[u]
                                  ELSE Changed(call[r], copy(u))]
      /\ Overtake(r)
      /\ suspect' = suspect \cup {u \in overtaken[r] : copy(u) # Absent}
      /\ Goto(r, label)
    BY DEF SaveUsers
<1>2. /\ call[r] \in Call /\ call[r].op \in UserOps \ {"override"}
      /\ \A u \in User \ call[r].whom : copy(u) = Absent
      /\ \A u \in User \ overtaken[r] : copy(u) \in {Absent, users[u]}
    BY <1>1 DEF CInv, Good, Path, Holds, CopiesFresh
<1>3. \A u \in User : copy(u) \in UserRow \cup {Absent}
    BY MemoryTyped DEF CInv
<1>4. users' \in [User -> UserRow]
    BY <1>1, <1>2, <1>3, ChangedTyped DEF CInv, TypeOK
<1>5. /\ pc' = [pc EXCEPT ![r] = label] /\ pc'[r] = label /\ label \in Labels
      /\ \A q \in Request \ {r} : pc'[q] = pc[q] /\ call'[q] = call[q] /\ local'[q] = local[q]
    BY <1>1 DEF Goto, CInv, TypeOK, Labels
<1>6. TypeOK'
    <2>1. suspect' \in SUBSET User
        BY <1>1 DEF CInv, TypeOK
    <2>2. overtaken' \in [Request -> SUBSET User]
        BY <1>1, OvertakenTyped DEF CInv
    <2>. QED
        BY <1>1, <1>4, <1>5, <2>1, <2>2 DEF CInv, TypeOK
<1>7. Good(r)'
    BY <1>1, <1>2, <1>5 DEF Good, Path, Holds, GuardFresh, CopiesFresh, Replaces, Spares
<1>8. \A q \in Request \ {r} : Good(q)'
    BY <1>1, <1>5, OthersGood
<1>9. StaleOnlyByRaceOrFailure'
    <2>. SUFFICES ASSUME NEW u \in User, u \notin suspect',
                         \A q \in Request : u \notin Awaiting(q)'
                  PROVE  cache'[u] \subseteq Effective(u)'
        BY DEF StaleOnlyByRaceOrFailure
    <2>1. copy(u) # Absent => u \notin overtaken[r]
        BY <1>1
    <2>2. copy(u) # Absent => call[r].op # "assign"
        <3>1. copy(u) # Absent => u \in call[r].whom
            BY <1>2
        <3>2. call[r].op = "assign" => Awaiting(r)' = call[r].whom
            BY <1>1, <1>5 DEF Awaiting
        <3>. QED
            BY <3>1, <3>2
    <2>3. users'[u].role = users[u].role
        <3>1. CASE copy(u) = Absent
            BY <1>1, <3>1
        <3>2. CASE copy(u) # Absent
            <4>1. copy(u) = users[u] /\ users[u] \in UserRow
                BY <1>2, <2>1, <3>2 DEF CInv, TypeOK
            <4>2. users'[u] = Changed(call[r], users[u])
                BY <1>1, <3>2, <4>1
            <4>. QED
                BY <1>2, <2>2, <3>2, <4>1, <4>2, ChangedTyped
        <3>. QED
            BY <3>1, <3>2
    <2>4. Effective(u)' = Effective(u)
        BY <1>1, <2>3 DEF Effective
    <2>5. Awaiting(r) = {}
        BY <1>1 DEF Awaiting
    <2>. QED
        BY <1>1, <1>5, <2>4, <2>5, ExcusesStay
<1>. QED
    BY <1>6, <1>7, <1>8, <1>9 DEF CInv

LEMMA ClearOverridesKeeps ==
    ASSUME CInv, NEW r \in Request, ClearOverrides(r)
    PROVE  CInv'
<1>. DEFINE t == Target(r)
<1>1. /\ pc[r] = "clearing" /\ UNCHANGED <<users, roles, granted, cache, call, local, suspect>>
      /\ override' = [override EXCEPT ![t] = {}]
      /\ Overtake(r) /\ Goto(r, "writing")
    BY DEF ClearOverrides
<1>2. /\ call[r] \in Call /\ call[r].op = "override" /\ t \in call[r].whom /\ t \in User
    BY <1>1, CallFields DEF CInv, Good, Path, Target, UserOps
<1>3. /\ pc'[r] = "writing" /\ "writing" \in Labels /\ pc' \in [Request -> Labels]
      /\ \A q \in Request \ {r} : pc'[q] = pc[q] /\ call'[q] = call[q] /\ local'[q] = local[q]
    BY <1>1 DEF Goto, CInv, TypeOK, Labels
<1>4. overtaken' \in [Request -> SUBSET User] /\ overtaken'[r] = overtaken[r]
    BY <1>1, OvertakenTyped DEF CInv
<1>5. TypeOK'
    BY <1>1, <1>3, <1>4 DEF CInv, TypeOK
<1>6. Target(r)' = t
    BY <1>1 DEF Target
<1>7. override'[t] = {}
    BY <1>1, <1>2 DEF CInv, TypeOK
<1>8. Good(r)'
    BY <1>1, <1>2, <1>3, <1>4, <1>6, <1>7
    DEF CInv, Good, Path, Holds, GuardFresh, CopiesFresh, Replaces, Spares
<1>9. \A q \in Request \ {r} : Good(q)'
    BY <1>1, <1>3, OthersGood
<1>10. StaleOnlyByRaceOrFailure'
    <2>. SUFFICES ASSUME NEW u \in User
                  PROVE  \/ cache'[u] \subseteq Effective(u)'
                         \/ u \in suspect'
                         \/ \E q \in Request : u \in Awaiting(q)'
        BY DEF StaleOnlyByRaceOrFailure
    <2>1. CASE u = t
        BY <1>1, <1>2, <1>3, <2>1 DEF Awaiting
    <2>2. CASE u # t
        <3>1. Effective(u)' = Effective(u)
            BY <1>1, <2>2 DEF CInv, TypeOK, Effective
        <3>2. Awaiting(r) = {}
            BY <1>1 DEF Awaiting
        <3>. QED
            BY <1>1, <1>3, <3>1, <3>2, ExcusesStay
    <2>. QED
        BY <2>1, <2>2
<1>. QED
    BY <1>5, <1>8, <1>9, <1>10 DEF CInv

LEMMA WriteOverridesKeeps ==
    ASSUME CInv, NEW r \in Request, WriteOverrides(r)
    PROVE  CInv'
<1>. DEFINE t == Target(r)
            written == Overrides(call[r].checked, local[r].granted)
<1>1. /\ pc[r] = "writing" /\ UNCHANGED <<users, roles, granted, cache, call, local, suspect>>
      /\ override' = [override EXCEPT ![t] = @ \cup written]
      /\ Overtake(r) /\ Goto(r, "invalidating")
    BY DEF WriteOverrides
<1>2. /\ call[r] \in Call /\ call[r].op = "override" /\ t \in call[r].whom /\ t \in User
      /\ call[r].checked \in SUBSET Permission /\ local[r].granted \in SUBSET Permission
    BY <1>1, CallFields DEF CInv, Good, Path, Target, UserOps, TypeOK, Locals
<1>3. /\ pc'[r] = "invalidating" /\ pc' \in [Request -> Labels]
      /\ \A q \in Request \ {r} : pc'[q] = pc[q] /\ call'[q] = call[q] /\ local'[q] = local[q]
    BY <1>1 DEF Goto, CInv, TypeOK, Labels
<1>4. overtaken' \in [Request -> SUBSET User] /\ overtaken'[r] = overtaken[r]
    BY <1>1, OvertakenTyped DEF CInv
<1>5. /\ written \in SUBSET Override
      /\ Resolutions(local[r].granted, written) = {call[r].checked}
    BY <1>2, OverridesResolve
<1>. HIDE DEF written
<1>6. override'[t] = override[t] \cup written /\ override' \in [User -> SUBSET Override]
    BY <1>1, <1>2, <1>5 DEF CInv, TypeOK
<1>7. TypeOK'
    BY <1>1, <1>3, <1>4, <1>6 DEF CInv, TypeOK
<1>8. Target(r)' = t
    BY <1>1 DEF Target
<1>9. ASSUME t \notin overtaken[r] \cup SuperAdmin
      PROVE  Effective(Target(r))' = {call[r].checked}
    <2>1. local[r].granted = granted[users[t].role] /\ override[t] = {}
        BY <1>1, <1>9 DEF CInv, Good, Replaces
    <2>2. granted'[users'[t].role] = local[r].granted /\ override'[t] = written
        BY <1>1, <1>6, <2>1
    <2>. QED
        BY <1>5, <1>8, <1>9, <2>2 DEF Effective
<1>10. Replaces(r)'
    BY <1>1, <1>3, <1>4, <1>8, <1>9 DEF Replaces
<1>11. Good(r)'
    BY <1>1, <1>2, <1>3, <1>10 DEF Good, Path, Holds, GuardFresh, CopiesFresh, Spares
<1>12. \A q \in Request \ {r} : Good(q)'
    BY <1>1, <1>3, OthersGood
<1>13. StaleOnlyByRaceOrFailure'
    <2>. SUFFICES ASSUME NEW u \in User
                  PROVE  \/ cache'[u] \subseteq Effective(u)'
                         \/ u \in suspect'
                         \/ \E q \in Request : u \in Awaiting(q)'
        BY DEF StaleOnlyByRaceOrFailure
    <2>1. Awaiting(r)' = call[r].whom /\ Awaiting(r) = call[r].whom
        BY <1>1, <1>3 DEF Awaiting
    <2>2. CASE u = t
        BY <1>2, <2>1, <2>2
    <2>3. CASE u # t
        <3>1. Effective(u)' = Effective(u)
            BY <1>1, <2>3 DEF CInv, TypeOK, Effective
        <3>. QED
            BY <1>1, <1>3, <2>1, <3>1, ExcusesStay
    <2>. QED
        BY <2>2, <2>3
<1>. QED
    BY <1>7, <1>11, <1>12, <1>13 DEF CInv

LEMMA InvalidateKeeps ==
    ASSUME CInv, NEW r \in Request, Invalidate(r)
    PROVE  CInv'
<1>1. /\ pc[r] = "invalidating" /\ UNCHANGED <<tables, call, local, overtaken>>
      /\ cache' = [u \in User |-> IF u \in call[r].whom THEN {} ELSE cache[u]]
      /\ suspect' = suspect \ call[r].whom /\ Goto(r, "done")
    BY DEF Invalidate
<1>2. call[r] \in Call /\ call[r].whom \in SUBSET User
    BY <1>1, CallFields DEF CInv, Good, Path, UserOps
<1>3. /\ pc'[r] = "done" /\ pc' \in [Request -> Labels]
      /\ \A q \in Request \ {r} : pc'[q] = pc[q] /\ call'[q] = call[q] /\ local'[q] = local[q]
    BY <1>1 DEF Goto, CInv, TypeOK, Labels
<1>4. TypeOK'
    BY <1>1, <1>3 DEF CInv, TypeOK, tables
<1>5. Good(r)'
    BY <1>1, <1>3, Ended DEF CInv, Good
<1>6. \A q \in Request \ {r} : Good(q)'
    BY <1>1, <1>3, OthersGood DEF tables
<1>7. StaleOnlyByRaceOrFailure'
    <2>1. Awaiting(r) = call[r].whom
        BY <1>1 DEF Awaiting
    <2>2. \A v \in call[r].whom : v \in User /\ cache'[v] = {}
        BY <1>1, <1>2
    <2>3. \A u \in User : cache'[u] \in {cache[u], {}} /\ Effective(u)' = Effective(u)
        BY <1>1 DEF Effective, tables
    <2>. QED
        BY <1>1, <1>3, <2>1, <2>2, <2>3, ExcusesStay DEF StaleOnlyByRaceOrFailure
<1>. QED
    BY <1>4, <1>5, <1>6, <1>7 DEF CInv

----------------------------------------------------------------------------
\* Requests about roles

LEMMA FindRoleKeeps ==
    ASSUME CInv, NEW r \in Request, FindRole(r) \/ CountUsers(r)
    PROVE  CInv'
<1>1. /\ pc[r] \in {"findingRole", "countingUsers"} /\ local' = local
      /\ UNCHANGED <<tables, cache, call, overtaken, suspect>>
    BY DEF FindRole, CountUsers
<1>2. call[r] \in Call /\ call[r].op \in RoleOps /\ roles' \in [Role -> RoleRow]
    BY <1>1 DEF CInv, Good, Path, TypeOK, tables
<1>3. PICK label \in {"clearingRole", "countingUsers", "loadingRole", "failed"} :
          /\ Goto(r, label)
          /\ label = "clearingRole" => call[r].op = "grants"
    <2>1. CASE FindRole(r)
        <3>1. CASE call[r].op = "grants"
            BY <2>1, <3>1 DEF FindRole
        <3>2. CASE call[r].op = "dropRole"
            BY <2>1, <3>2 DEF FindRole
        <3>3. CASE call[r].op \notin {"grants", "dropRole"}
            BY <2>1, <3>3 DEF FindRole
        <3>. QED
            BY <3>1, <3>2, <3>3
    <2>2. CASE CountUsers(r)
        BY <2>2 DEF CountUsers
    <2>. QED
        BY <2>1, <2>2
<1>4. pc'[r] = label /\ pc' = [pc EXCEPT ![r] = label] /\ label \in Labels
    BY <1>3 DEF Goto, CInv, TypeOK, Labels
<1>5. Good(r)'
    BY <1>1, <1>2, <1>3, <1>4 DEF Good, Path, Holds, GuardFresh, CopiesFresh, Replaces, Spares
<1>. QED
    BY <1>1, <1>2, <1>4, <1>5, QuietStep DEF tables, CInv, TypeOK

LEMMA LoadRoleKeeps ==
    ASSUME CInv, NEW r \in Request, LoadRole(r)
    PROVE  CInv'
<1>. DEFINE mem == [local[r] EXCEPT !.role = roles[call[r].role]]
<1>1. /\ pc[r] = "loadingRole" /\ UNCHANGED <<tables, cache, call, overtaken, suspect>>
      /\ Keep(r, mem) /\ Goto(r, "savingRole")
    BY DEF LoadRole
<1>2. /\ call[r] \in Call /\ call[r].op \in RoleOps /\ call[r].role \in Role
      /\ roles' \in [Role -> RoleRow] /\ roles[call[r].role] \in RoleRow
    BY <1>1, CallFields DEF CInv, Good, Path, TypeOK, tables
<1>3. mem \in Locals /\ mem.role \in RoleRow
    BY <1>2, MemoryTyped DEF CInv, Locals
<1>. HIDE DEF mem
<1>4. /\ local' \in [Request -> Locals] /\ local'[r] = mem
      /\ \A q \in Request \ {r} : local'[q] = local[q]
    BY <1>1, <1>3, Kept DEF CInv
<1>5. pc'[r] = "savingRole" /\ pc' = [pc EXCEPT ![r] = "savingRole"] /\ "savingRole" \in Labels
    BY <1>1 DEF Goto, CInv, TypeOK, Labels
<1>6. Good(r)'
    BY <1>1, <1>2, <1>3, <1>4, <1>5
    DEF Good, Path, Holds, GuardFresh, CopiesFresh, Replaces, Spares
<1>. QED
    BY <1>1, <1>2, <1>4, <1>5, <1>6, QuietStep DEF tables

LEMMA SaveRoleKeeps ==
    ASSUME CInv, NEW r \in Request, SaveRole(r)
    PROVE  CInv'
<1>. DEFINE row == local[r].role
            saved == CASE call[r].op = "enable" -> [row EXCEPT !.active = TRUE]
                       [] call[r].op = "disable" -> [row EXCEPT !.active = FALSE]
                       [] call[r].op = "dropRole" -> [row EXCEPT !.deleted = TRUE]
                       [] OTHER -> row
            label == IF call[r].op = "editRole" THEN "clearingRole" ELSE "done"
<1>1. /\ pc[r] = "savingRole"
      /\ UNCHANGED <<users, granted, override, cache, call, local, overtaken, suspect>>
      /\ roles' = [roles EXCEPT ![call[r].role] = saved] /\ Goto(r, label)
    BY DEF SaveRole
<1>2. call[r] \in Call /\ call[r].op \in RoleOps /\ row \in RoleRow
    BY <1>1 DEF CInv, Good, Path, Holds
<1>3. saved \in RoleRow
    BY <1>2 DEF RoleRow
<1>. HIDE DEF saved
<1>4. roles' \in [Role -> RoleRow]
    BY <1>1, <1>3 DEF CInv, TypeOK
<1>5. pc'[r] = label /\ pc' = [pc EXCEPT ![r] = label] /\ label \in Labels
    BY <1>1 DEF Goto, CInv, TypeOK, Labels
<1>6. Good(r)'
    BY <1>1, <1>2, <1>5 DEF Good, Path, Holds, GuardFresh, CopiesFresh, Replaces, Spares
<1>. QED
    BY <1>1, <1>4, <1>5, <1>6, QuietStep DEF CInv, TypeOK

\* The permissions of a role are cleared and written; then every entry is invalid.
LEMMA GrantsKeep ==
    ASSUME CInv, NEW r \in Request, ClearGrants(r) \/ WriteGrants(r)
    PROVE  CInv'
<1>1. /\ pc[r] \in {"clearingRole", "writingRole"}
      /\ UNCHANGED <<users, roles, override, cache, call, local, suspect>> /\ Overtake(r)
    BY DEF ClearGrants, WriteGrants
<1>2. /\ call[r] \in Call /\ call[r].op \in {"grants", "editRole"}
      /\ call[r].checked \in SUBSET Permission
    BY <1>1, CallFields DEF CInv, Good, Path
<1>3. granted' \in [Role -> SUBSET Permission]
    BY <1>2 DEF ClearGrants, WriteGrants, CInv, TypeOK
<1>4. PICK label \in {"writingRole", "invalidatingAll"} : Goto(r, label)
    BY DEF ClearGrants, WriteGrants
<1>5. /\ pc'[r] = label /\ pc' \in [Request -> Labels]
      /\ \A q \in Request \ {r} : pc'[q] = pc[q] /\ call'[q] = call[q] /\ local'[q] = local[q]
    BY <1>1, <1>4 DEF Goto, CInv, TypeOK, Labels
<1>6. TypeOK'
    BY <1>1, <1>3, <1>5, OvertakenTyped DEF CInv, TypeOK
<1>7. Good(r)'
    BY <1>1, <1>2, <1>5 DEF Good, Path, Holds, GuardFresh, CopiesFresh, Replaces, Spares
<1>8. \A q \in Request \ {r} : Good(q)'
    BY <1>1, <1>5, OthersGood
<1>9. StaleOnlyByRaceOrFailure'
    <2>1. Awaiting(r)' = User
        BY <1>5 DEF Awaiting
    <2>. QED
        BY <2>1 DEF StaleOnlyByRaceOrFailure
<1>. QED
    BY <1>6, <1>7, <1>8, <1>9 DEF CInv

LEMMA InvalidateAllKeeps ==
    ASSUME CInv, NEW r \in Request, InvalidateAll(r)
    PROVE  CInv'
<1>1. /\ pc[r] = "invalidatingAll" /\ UNCHANGED <<tables, call, local, overtaken>>
      /\ cache' = [u \in User |-> {}] /\ suspect' = {} /\ Goto(r, "done")
    BY DEF InvalidateAll
<1>2. /\ pc'[r] = "done" /\ pc' \in [Request -> Labels]
      /\ \A q \in Request \ {r} : pc'[q] = pc[q] /\ call'[q] = call[q] /\ local'[q] = local[q]
    BY <1>1 DEF Goto, CInv, TypeOK, Labels
<1>3. TypeOK'
    BY <1>1, <1>2 DEF CInv, TypeOK, tables
<1>4. Good(r)'
    BY <1>1, <1>2, Ended DEF CInv, Good
<1>5. \A q \in Request \ {r} : Good(q)'
    BY <1>1, <1>2, OthersGood DEF tables
<1>6. StaleOnlyByRaceOrFailure'
    BY <1>1 DEF StaleOnlyByRaceOrFailure
<1>. QED
    BY <1>3, <1>4, <1>5, <1>6 DEF CInv

----------------------------------------------------------------------------
\* Time, crashes and the whole

LEMMA StillGood ==
    ASSUME CInv, UNCHANGED <<tables, pc, call, local, overtaken>>
    PROVE  \A q \in Request : Good(q)'
<1>. SUFFICES ASSUME NEW q \in Request PROVE Good(q)'
    OBVIOUS
<1>1. \A u \in User : Rights(u)' = Rights(u)
    BY DEF Rights, tables
<1>. QED
    BY <1>1, Undisturbed DEF CInv

LEMMA ExpireKeeps ==
    ASSUME CInv, NEW u \in User, Expire(u)
    PROVE  CInv'
<1>1. /\ cache' = [cache EXCEPT ![u] = {}] /\ suspect' = suspect \ {u}
      /\ UNCHANGED <<tables, pc, call, local, overtaken>>
    BY DEF Expire
<1>2. TypeOK'
    BY <1>1 DEF CInv, TypeOK, tables
<1>3. \A q \in Request : Good(q)'
    BY <1>1, StillGood
<1>4. StaleOnlyByRaceOrFailure'
    <2>1. \A q \in Request : Awaiting(q)' = Awaiting(q)
        BY <1>1 DEF Awaiting
    <2>2. \A v \in User : Effective(v)' = Effective(v)
        BY <1>1 DEF Effective, tables
    <2>3. cache'[u] = {} /\ \A v \in User \ {u} : cache'[v] = cache[v]
        BY <1>1 DEF CInv, TypeOK
    <2>. QED
        BY <1>1, <2>1, <2>2, <2>3 DEF CInv, StaleOnlyByRaceOrFailure
<1>. QED
    BY <1>2, <1>3, <1>4 DEF CInv

LEMMA CrashKeeps ==
    ASSUME CInv, Crash
    PROVE  CInv'
<1>1. /\ pc' = [r \in Request |-> IF InFlight(r) THEN "failed" ELSE pc[r]]
      /\ cache' = [u \in User |-> {}] /\ suspect' = {}
      /\ UNCHANGED <<tables, call, local, overtaken>>
    BY DEF Crash
<1>2. TypeOK'
    BY <1>1 DEF CInv, TypeOK, tables, Labels
<1>3. ASSUME NEW q \in Request PROVE Good(q)'
    <2>1. CASE InFlight(q)
        BY <1>1, <2>1, Ended DEF InFlight, CInv, Good
    <2>2. CASE ~ InFlight(q)
        <3>1. /\ pc'[q] = pc[q] /\ call'[q] = call[q] /\ local'[q] = local[q]
              /\ overtaken'[q] = overtaken[q]
            BY <1>1, <2>2
        <3>. QED
            BY <2>2, <3>1, Undisturbed DEF CInv
    <2>. QED
        BY <2>1, <2>2
<1>4. StaleOnlyByRaceOrFailure'
    BY <1>1 DEF StaleOnlyByRaceOrFailure
<1>. QED
    BY <1>2, <1>3, <1>4 DEF CInv

\* A failing request leaves the entries it was to invalidate suspect.
LEMMA FailKeeps ==
    ASSUME CInv, NEW r \in Request, Fail(r)
    PROVE  CInv'
<1>1. /\ pc' = [pc EXCEPT ![r] = "failed"] /\ suspect' = suspect \cup Awaiting(r)
      /\ UNCHANGED <<tables, cache, call, local, overtaken>> /\ pc[r] # "idle"
    BY DEF Fail, End, Goto, InFlight
<1>2. pc'[r] = "failed" /\ \A q \in Request \ {r} : pc'[q] = pc[q]
    BY <1>1 DEF CInv, TypeOK
<1>3. Awaiting(r) \in SUBSET User
    <2>1. pc[r] \in {"writing", "invalidating"} => call[r].whom \in SUBSET User
        BY CallFields DEF CInv, Good, Path, UserOps
    <2>. QED
        BY <2>1 DEF Awaiting
<1>4. TypeOK'
    BY <1>1, <1>3 DEF CInv, TypeOK, tables, Labels
<1>5. Good(r)'
    BY <1>1, <1>2, Ended DEF CInv, Good
<1>6. \A q \in Request \ {r} : Good(q)'
    BY <1>1, <1>2, OthersGood DEF tables
<1>7. StaleOnlyByRaceOrFailure'
    <2>1. \A q \in Request \ {r} : Awaiting(q)' = Awaiting(q)
        BY <1>1, <1>2 DEF Awaiting
    <2>2. \A u \in User : Effective(u)' = Effective(u)
        BY <1>1 DEF Effective, tables
    <2>. QED
        BY <1>1, <2>1, <2>2 DEF CInv, StaleOnlyByRaceOrFailure
<1>. QED
    BY <1>4, <1>5, <1>6, <1>7 DEF CInv

LEMMA Inductive == CInv /\ [Next]_vars => CInv'
<1>. SUFFICES ASSUME CInv, [Next]_vars PROVE CInv'
    OBVIOUS
<1>1. CASE UNCHANGED vars
    <2>1. TypeOK'
        BY <1>1 DEF CInv, TypeOK, vars, tables
    <2>2. \A q \in Request : Good(q)'
        BY <1>1, StillGood DEF vars, tables
    <2>3. \A q \in Request : Awaiting(q)' = Awaiting(q)
        BY <1>1 DEF Awaiting, vars
    <2>4. StaleOnlyByRaceOrFailure'
        BY <1>1, <2>3, NothingStale DEF CInv, vars
    <2>. QED
        BY <2>1, <2>2, <2>4 DEF CInv
<1>2. ASSUME NEW r \in Request, Step(r) PROVE CInv'
    <2>1. CASE Admit(r) \/ Look(r) \/ ReadRole(r) \/ ReadOverrides(r) \/ Fill(r)
        BY <2>1, AdmitKeeps, LookKeeps, ReadRoleKeeps, ReadOverridesKeeps, FillKeeps
    <2>2. CASE FindUsers(r) \/ CountSuperAdmins(r) \/ LoadUsers(r) \/ SaveUsers(r) \/ Compare(r)
        BY <2>2, FindUsersKeeps, CountKeeps, LoadUsersKeeps, SaveUsersKeeps, CompareKeeps
    <2>3. CASE ClearOverrides(r) \/ WriteOverrides(r) \/ Invalidate(r)
        BY <2>3, ClearOverridesKeeps, WriteOverridesKeeps, InvalidateKeeps
    <2>4. CASE FindRole(r) \/ CountUsers(r) \/ LoadRole(r) \/ SaveRole(r)
        BY <2>4, FindRoleKeeps, LoadRoleKeeps, SaveRoleKeeps
    <2>5. CASE ClearGrants(r) \/ WriteGrants(r) \/ InvalidateAll(r)
        BY <2>5, GrantsKeep, InvalidateAllKeeps
    <2>. QED
        BY <1>2, <2>1, <2>2, <2>3, <2>4, <2>5, Zenon DEF Step
<1>. QED
    BY <1>1, <1>2, ArriveKeeps, ExpireKeeps, CrashKeeps, FailKeeps, Zenon DEF Next

LEMMA Invariant == Spec => []CInv
<1>. QED
    BY Initial, Inductive, PTL DEF Spec

\* Every variable keeps its type.
THEOREM TypeCorrect == Spec => []TypeOK
<1>1. CInv => TypeOK
    BY DEF CInv
<1>. QED
    BY <1>1, Invariant, PTL

\* The cache holds what a user's permissions come to, but for a request on its way to
\* invalidate the entry, for one that failed on that way, and for fills and copies
\* another's change has overtaken.
THEOREM CacheTellsRights == Spec => []StaleOnlyByRaceOrFailure
<1>1. CInv => StaleOnlyByRaceOrFailure
    BY DEF CInv
<1>. QED
    BY <1>1, Invariant, PTL

LEMMA StepGives ==
    ASSUME CInv, NEW r \in Request, call[r] # Absent, call[r].op = "override",
           call[r].whom \cap (overtaken[r] \cup SuperAdmin) = {}
    PROVE  /\ pc[r] = "invalidating" => Effective(Target(r)) = {call[r].checked}
           /\ pc[r] = "writing" => Effective(Target(r)) = {granted[users[Target(r)].role]}
<1>1. Target(r) \in call[r].whom /\ Target(r) \in User
    <2>1. call[r] \in Call
        BY DEF CInv, TypeOK
    <2>. QED
        BY <2>1, CallFields DEF Target, UserOps
<1>2. Target(r) \notin overtaken[r] \cup SuperAdmin
    BY <1>1
<1>3. pc[r] = "invalidating" => Effective(Target(r)) = {call[r].checked}
    BY <1>2 DEF CInv, Good, Replaces
<1>4. ASSUME pc[r] = "writing" PROVE Effective(Target(r)) = {granted[users[Target(r)].role]}
    <2>1. override[Target(r)] = {}
        BY <1>2, <1>4 DEF CInv, Good, Replaces
    <2>2. Effective(Target(r)) = Resolutions(granted[users[Target(r)].role], {})
        BY <1>2, <2>1 DEF Effective
    <2>3. \A base : Resolutions(base, {}) = {base}
        BY DEF Resolutions
    <2>. QED
        BY <2>2, <2>3
<1>. QED
    BY <1>3, <1>4

\* A replacement of a user's permissions that nobody overtakes ends with exactly those
\* it was sent, or with those of the role where it fails before they are written.
THEOREM ReplacementsExact == Spec => UpsertGivesCheckedOrRole
<1>1. CInv /\ [Next]_vars =>
          [\A r \in Request :
              /\ call[r] # Absent /\ call[r].op = "override" /\ pc'[r] # pc[r]
              /\ call[r].whom \cap (overtaken[r] \cup SuperAdmin) = {}
              => /\ pc[r] = "invalidating" => Effective(Target(r)) = {call[r].checked}
                 /\ pc[r] = "writing" /\ pc'[r] = "failed" =>
                        Effective(Target(r)) = {granted[users[Target(r)].role]}]_vars
    BY StepGives
<1>. QED
    BY <1>1, Invariant, PTL DEF Spec, UpsertGivesCheckedOrRole

\* Who is in service stays so but for a save, and a save spares one.
LEMMA OneStays ==
    ASSUME CInv, [Next]_vars, ActiveSuperAdmins # {}, ActiveSuperAdmins' = {}
    PROVE  \E r \in Request : pc'[r] # pc[r] /\ overtaken[r] \cap SuperAdmin # {}
<1>1. users' # users
    BY DEF ActiveSuperAdmins
<1>2. PICK r \in Request : SaveUsers(r)
    <2>1. PICK r \in Request : Step(r)
        BY <1>1 DEF Next, vars, tables, Arrive, Expire, Crash, Fail
    <2>2. SaveUsers(r)
        BY <1>1, <2>1 DEF Step, tables, Admit, Look, ReadRole, ReadOverrides, Fill, FindUsers,
           CountSuperAdmins, LoadUsers, Compare, ClearOverrides, WriteOverrides, Invalidate,
           FindRole, CountUsers, LoadRole, SaveRole, ClearGrants, WriteGrants, InvalidateAll
    <2>. QED
        BY <2>2
<1>3. /\ pc[r] = "saving" /\ pc'[r] # pc[r]
      /\ users' = [u \in User |-> IF local[r].rows[u] = Absent THEN users[u]
                                  ELSE Changed(call[r], local[r].rows[u])]
    BY <1>2 DEF SaveUsers, Goto, CInv, TypeOK
<1>4. /\ call[r] \in Call /\ call[r].op \in UserOps \ {"override"}
      /\ \A u \in User \ call[r].whom : local[r].rows[u] = Absent
      /\ \A u \in User \ overtaken[r] : local[r].rows[u] \in {Absent, users[u]}
      /\ Spares(r)
    BY <1>3 DEF CInv, Good, Path, Holds, CopiesFresh
<1>5. ASSUME overtaken[r] \cap SuperAdmin = {} PROVE FALSE
    <2>1. PICK a \in ActiveSuperAdmins : call[r].op \in Retiring => a \notin call[r].whom
        BY <1>3, <1>4, <1>5 DEF Spares
    <2>2. /\ a \in SuperAdmin /\ a \in User /\ users[a] \in UserRow
          /\ users[a].active /\ ~ users[a].deleted
        BY <2>1, ConstantAssumption DEF ActiveSuperAdmins, CInv, TypeOK
    <2>3. local[r].rows[a] \in {Absent, users[a]}
        BY <1>4, <1>5, <2>2
    <2>4. users'[a].active /\ ~ users'[a].deleted
        <3>1. CASE local[r].rows[a] = Absent
            BY <1>3, <2>2, <3>1
        <3>2. CASE local[r].rows[a] # Absent
            <4>1. a \in call[r].whom /\ local[r].rows[a] = users[a]
                BY <1>4, <2>2, <2>3, <3>2
            <4>2. call[r].op \in {"profile", "activate", "assign"}
                BY <1>4, <2>1, <4>1 DEF Retiring, UserOps
            <4>3. users'[a] = Changed(call[r], users[a])
                BY <1>3, <2>2, <3>2, <4>1
            <4>. QED
                BY <2>2, <4>2, <4>3 DEF Changed, UserRow
        <3>. QED
            BY <3>1, <3>2
    <2>. QED
        BY <2>2, <2>4 DEF ActiveSuperAdmins
<1>. QED
    BY <1>3, <1>5

\* The last superadmin in service goes only by a request during which another has
\* changed a superadmin: the count is then of those before.
THEOREM OneSuperAdminStays == Spec => LastSuperAdminStays
<1>1. CInv /\ [Next]_vars =>
          [ActiveSuperAdmins # {} /\ ActiveSuperAdmins' = {}
           => \E r \in Request : pc'[r] # pc[r] /\ overtaken[r] \cap SuperAdmin # {}]_vars
    BY OneStays
<1>. QED
    BY <1>1, Invariant, PTL DEF Spec, LastSuperAdminStays
=============================================================================
