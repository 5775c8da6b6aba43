---------------------------- MODULE AccessControl ----------------------------
(***************************************************************************)
(* Who may do what: users with a role and with overrides of their own,      *)
(* roles with the permissions granted to them, and the in-process cache of  *)
(* what a user's permissions come to.  Every request passes AuthGuard,      *)
(* which reads the cache or fills it from three tables, and                 *)
(* PermissionsGuard; the requests that change users, roles and permissions  *)
(* then invalidate what they have made stale.  There are no transactions;   *)
(* requests interleave at every await.  Sessions are AuthSessions' matter.  *)
(***************************************************************************)
EXTENDS Integers, FiniteSets

CONSTANTS
    Request,      \* HTTP requests, each served once
    User,
    SuperAdmin,   \* users flagged isSuperAdmin
    Role,
    Permission,
    Required,     \* the permission the administrative requests ask for
    Call,         \* what clients may ask for
    Assigned,     \* the roles users may have to begin with
    Grants,       \* the permissions roles may have to begin with
    MaxInFlight,  \* bound on requests served at the same time
    Absent

UserRow == [role : Role, active : BOOLEAN, deleted : BOOLEAN]

RoleRow == [active : BOOLEAN, deleted : BOOLEAN]

Override == Permission \X {"grant", "revoke"}

\* Requests without an operation of this module are of the kind "serve".
Calls ==
    [op : {"serve"}, by : User]
    \cup [op : {"profile", "activate", "deactivate", "bulk", "remove"},
          by : User, whom : (SUBSET User) \ {{}}]
    \cup [op : {"assign"}, by : User, whom : (SUBSET User) \ {{}}, role : Role]
    \cup [op : {"override"}, by : User, whom : (SUBSET User) \ {{}}, checked : SUBSET Permission]
    \cup [op : {"grants", "editRole"}, by : User, role : Role, checked : SUBSET Permission]
    \cup [op : {"enable", "disable", "dropRole"}, by : User, role : Role]

ASSUME ConstantAssumption ==
    /\ SuperAdmin \in SUBSET User
    /\ IsFiniteSet(User)
    /\ Required \in Permission
    /\ Call \subseteq Calls
    /\ Assigned \subseteq [User -> Role]
    /\ Grants \subseteq [Role -> SUBSET Permission]
    /\ \A c \in Call : "whom" \in DOMAIN c /\ c.op # "bulk" => Cardinality(c.whom) = 1
    /\ MaxInFlight \in Nat \ {0}
    /\ Absent \notin Call /\ Absent \notin UserRow /\ Absent \notin RoleRow

VARIABLES
    users,
    roles,
    granted,    \* rows of role_permissions
    override,   \* rows of user_permissions
    cache,      \* by user: no entry, or one set of permissions
    pc,
    call,
    local,
    overtaken,  \* history: users whose row or rights others changed while in flight
    suspect     \* history: users whose cached rights an overtaken request may have spoilt,
                \* or one that failed before it had invalidated them

tables == <<users, roles, granted, override>>
vars == <<users, roles, granted, override, cache, pc, call, local, overtaken, suspect>>

----------------------------------------------------------------------------

\* local[r]: the rows of the users or of the role read, and the permissions
\* read of a role.
Forgotten == [rows |-> [u \in User |-> Absent], role |-> Absent, granted |-> {}]

InFlight(r) == pc[r] \notin {"idle", "done", "failed"}

Goto(r, label) == pc' = [pc EXCEPT ![r] = label]

Keep(r, held) == local' = [local EXCEPT ![r] = held]

End(r, outcome) == Goto(r, outcome) /\ UNCHANGED local

\* What the overrides make of the permissions of a role.  Where a user has both a
\* grant and a revocation the one read last counts.
Resolutions(base, rows) ==
    LET given == {p \in Permission : <<p, "grant">> \in rows}
        taken == {p \in Permission : <<p, "revoke">> \in rows}
    IN  {((base \cup given) \ taken) \cup last : last \in SUBSET (given \cap taken)}

Effective(u) ==
    IF u \in SuperAdmin THEN {Permission}
    ELSE Resolutions(granted[users[u].role], override[u])

\* All that a decision about a user is taken from.
Rights(u) == <<users[u], granted[users[u].role], override[u]>>

\* The step of r overtakes the other requests in flight.
Overtake(r) ==
    overtaken' = [q \in Request |->
        IF q # r /\ InFlight(q)
          THEN overtaken[q] \cup {u \in User : Rights(u)' # Rights(u)}
          ELSE overtaken[q]]

----------------------------------------------------------------------------

Init ==
    /\ \E assigned \in Assigned :
          users = [u \in User |-> [role |-> assigned[u], active |-> TRUE, deleted |-> FALSE]]
    /\ roles = [a \in Role |-> [active |-> TRUE, deleted |-> FALSE]]
    /\ granted \in Grants
    /\ override = [u \in User |-> {}]
    /\ cache = [u \in User |-> {}]
    /\ pc = [r \in Request |-> "idle"]
    /\ call = [r \in Request |-> Absent]
    /\ local = [r \in Request |-> Forgotten]
    /\ overtaken = [r \in Request |-> {}]
    /\ suspect = {}

Arrive(r, c) ==
    /\ pc[r] = "idle"
    /\ Cardinality({q \in Request : InFlight(q)}) < MaxInFlight
    /\ call' = [call EXCEPT ![r] = c]
    /\ Goto(r, "admitting")
    /\ UNCHANGED <<tables, cache, local, overtaken, suspect>>

\* An entry is older than its time to live.
Expire(u) ==
    /\ cache[u] # {}
    /\ cache' = [cache EXCEPT ![u] = {}]
    /\ suspect' = suspect \ {u}
    /\ UNCHANGED <<tables, pc, call, local, overtaken>>

\* The process stops; the cache goes with it, the tables stay as they are.
Crash ==
    /\ \E r \in Request : InFlight(r)
    /\ pc' = [r \in Request |-> IF InFlight(r) THEN "failed" ELSE pc[r]]
    /\ cache' = [u \in User |-> {}]
    /\ suspect' = {}
    /\ UNCHANGED <<tables, call, local, overtaken>>

----------------------------------------------------------------------------
\* AuthGuard and PermissionsGuard

Admissible(u) ==
    /\ ~ users[u].deleted /\ users[u].active
    /\ roles[users[u].role].active \/ u \in SuperAdmin

Admit(r) ==
    /\ pc[r] = "admitting"
    /\ LET u == call[r].by IN
       IF Admissible(u)
         THEN Keep(r, [local[r] EXCEPT !.rows[u] = users[u]]) /\ Goto(r, "looking")
         ELSE End(r, "failed")
    /\ UNCHANGED <<tables, cache, call, overtaken, suspect>>

Allowed(r, rights) ==
    call[r].op = "serve" \/ call[r].by \in SuperAdmin \/ Required \in rights

\* The first step of the handler.
Entry == [op \in {"serve", "profile", "assign", "activate", "deactivate", "bulk", "remove",
                  "override", "grants", "editRole", "enable", "disable", "dropRole"} |->
             CASE op = "serve" -> "done"
               [] op \in {"profile", "assign", "activate", "deactivate", "bulk", "remove",
                          "override"} -> "finding"
               [] OTHER -> "findingRole"]

\* AuthGuard has the rights; PermissionsGuard decides.
Pass(r, rights) ==
    /\ Goto(r, IF Allowed(r, rights) THEN Entry[call[r].op] ELSE "failed")
    /\ Keep(r, Forgotten)

Look(r) ==
    /\ pc[r] = "looking"
    /\ \/ \E rights \in cache[call[r].by] : Pass(r, rights)
       \/ cache[call[r].by] = {} /\ Goto(r, "resolving") /\ UNCHANGED local
    /\ UNCHANGED <<tables, cache, call, overtaken, suspect>>

\* resolveEffectivePermissions reads the permissions of the role the user had ...
ReadRole(r) ==
    /\ pc[r] = "resolving"
    /\ Keep(r, [local[r] EXCEPT !.granted =
                   IF call[r].by \in SuperAdmin THEN Permission
                   ELSE granted[local[r].rows[call[r].by].role]])
    /\ Goto(r, IF call[r].by \in SuperAdmin THEN "filling" ELSE "overriding")
    /\ UNCHANGED <<tables, cache, call, overtaken, suspect>>

\* ... then the overrides ...
ReadOverrides(r) ==
    /\ pc[r] = "overriding"
    /\ \E rights \in Resolutions(local[r].granted, override[call[r].by]) :
          Keep(r, [local[r] EXCEPT !.granted = rights])
    /\ Goto(r, "filling")
    /\ UNCHANGED <<tables, cache, call, overtaken, suspect>>

\* ... and the guard caches the outcome.
Fill(r) ==
    /\ pc[r] = "filling"
    /\ LET u == call[r].by IN
       /\ cache' = [cache EXCEPT ![u] = {local[r].granted}]
       /\ suspect' = IF u \in overtaken[r] THEN suspect \cup {u} ELSE suspect \ {u}
    /\ Pass(r, local[r].granted)
    /\ UNCHANGED <<tables, call, overtaken>>

----------------------------------------------------------------------------
\* UsersService

IsSuper(r) == call[r].by \in SuperAdmin

\* Nobody but a superadmin changes his own role, state or permissions, or the
\* state of a superadmin.
Refused(r) ==
    /\ ~ IsSuper(r)
    /\ \/ call[r].by \in call[r].whom
          /\ \/ call[r].op \notin {"profile", "assign"}
             \/ call[r].op = "assign" /\ call[r].role # users[call[r].by].role
       \/ /\ call[r].op \in {"activate", "deactivate", "bulk", "remove"}
          /\ \E u \in call[r].whom \cap SuperAdmin : ~ users[u].deleted

\* The superadmins the call is about to put out of service.
Endangered(r) ==
    IF call[r].op \in {"deactivate", "bulk", "remove"}
      THEN {u \in call[r].whom \cap SuperAdmin : ~ users[u].deleted} ELSE {}

\* findOne, or findByIdsWithRole, which leaves out those removed.
FindUsers(r) ==
    /\ pc[r] = "finding"
    /\ IF Refused(r) \/ (call[r].op # "bulk" /\ \E u \in call[r].whom : users[u].deleted)
         THEN End(r, "failed")
         ELSE /\ Keep(r, [local[r] EXCEPT !.rows =
                  [u \in User |-> IF u \in call[r].whom THEN users[u] ELSE Absent]])
              /\ Goto(r, CASE call[r].op = "override" -> "comparing"
                           [] Endangered(r) # {} -> "counting"
                           [] OTHER -> "loading")
    /\ UNCHANGED <<tables, cache, call, overtaken, suspect>>

ActiveSuperAdmins == {u \in SuperAdmin : users[u].active /\ ~ users[u].deleted}

\* Variant: the removed are counted.
CountRemovedToo(r) ==
    /\ pc[r] = "counting"
    /\ LET targets == {u \in call[r].whom \cap SuperAdmin : ~ local[r].rows[u].deleted} IN
       IF Cardinality({u \in SuperAdmin : users[u].active}) <= Cardinality(targets)
         THEN End(r, "failed")
         ELSE Goto(r, "loading") /\ UNCHANGED local
    /\ UNCHANGED <<tables, cache, call, overtaken, suspect>>

\* assertLastSuperAdminSafe
CountSuperAdmins(r) ==
    /\ pc[r] = "counting"
    /\ LET targets == {u \in call[r].whom \cap SuperAdmin : ~ local[r].rows[u].deleted} IN
       IF Cardinality(ActiveSuperAdmins) <= Cardinality(targets)
         THEN End(r, "failed")
         ELSE Goto(r, "loading") /\ UNCHANGED local
    /\ UNCHANGED <<tables, cache, call, overtaken, suspect>>

\* dao.update and softDelete read the row again, removed or not; deactivateBulk
\* only those not removed.
LoadUsers(r) ==
    /\ pc[r] = "loading"
    /\ Keep(r, [local[r] EXCEPT !.rows =
          [u \in User |->
              IF u \in call[r].whom /\ (call[r].op = "bulk" => ~ users[u].deleted)
                THEN users[u] ELSE Absent]])
    /\ Goto(r, "saving")
    /\ UNCHANGED <<tables, cache, call, overtaken, suspect>>

Changed(c, row) ==
    CASE c.op = "assign" -> [row EXCEPT !.role = c.role]
      [] c.op = "activate" -> [row EXCEPT !.active = TRUE]
      [] c.op \in {"deactivate", "bulk"} -> [row EXCEPT !.active = FALSE]
      [] c.op = "remove" -> [row EXCEPT !.deleted = TRUE]
      [] OTHER -> row

\* save() writes the whole copy.
SaveUsers(r) ==
    /\ pc[r] = "saving"
    /\ users' = [u \in User |-> IF local[r].rows[u] = Absent THEN users[u]
                                ELSE Changed(call[r], local[r].rows[u])]
    /\ UNCHANGED <<roles, granted, override>>
    /\ Overtake(r)
    /\ suspect' = suspect \cup {u \in overtaken[r] : local[r].rows[u] # Absent}
    /\ Goto(r, IF call[r].op \in {"assign", "deactivate", "bulk"} THEN "invalidating" ELSE "done")
    /\ UNCHANGED <<cache, call, local>>

\* Variant: only additions are stored.
OverridesGrantsOnly(checked, base) == {<<p, "grant">> : p \in checked \ base}

\* Permissions checked but not the role's are granted, those of the role that
\* are not checked revoked.
Overrides(checked, base) ==
    {<<p, "grant">> : p \in checked \ base} \cup {<<p, "revoke">> : p \in base \ checked}

Target(r) == CHOOSE u \in call[r].whom : TRUE

\* upsertPermissions reads the permissions of the role found.
Compare(r) ==
    /\ pc[r] = "comparing"
    /\ Keep(r, [local[r] EXCEPT !.granted = granted[local[r].rows[Target(r)].role]])
    /\ Goto(r, "clearing")
    /\ UNCHANGED <<tables, cache, call, overtaken, suspect>>

ClearOverrides(r) ==
    /\ pc[r] = "clearing"
    /\ override' = [override EXCEPT ![Target(r)] = {}]
    /\ UNCHANGED <<users, roles, granted>>
    /\ Overtake(r)
    /\ Goto(r, "writing")
    /\ UNCHANGED <<cache, call, local, suspect>>

WriteOverrides(r) ==
    /\ pc[r] = "writing"
    /\ override' = [override EXCEPT ![Target(r)] =
                       @ \cup Overrides(call[r].checked, local[r].granted)]
    /\ UNCHANGED <<users, roles, granted>>
    /\ Overtake(r)
    /\ Goto(r, "invalidating")
    /\ UNCHANGED <<cache, call, local, suspect>>

\* Variant: only a new role invalidates.
InvalidateAssigned(r) ==
    /\ pc[r] = "invalidating"
    /\ LET gone == IF call[r].op = "assign" THEN call[r].whom ELSE {} IN
       /\ cache' = [u \in User |-> IF u \in gone THEN {} ELSE cache[u]]
       /\ suspect' = suspect \ gone
    /\ Goto(r, "done")
    /\ UNCHANGED <<tables, call, local, overtaken>>

Invalidate(r) ==
    /\ pc[r] = "invalidating"
    /\ cache' = [u \in User |-> IF u \in call[r].whom THEN {} ELSE cache[u]]
    /\ suspect' = suspect \ call[r].whom
    /\ Goto(r, "done")
    /\ UNCHANGED <<tables, call, local, overtaken>>

----------------------------------------------------------------------------
\* RolesService

\* No role here is a system role.  A removed role is found as well.
FindRole(r) ==
    /\ pc[r] = "findingRole"
    /\ Goto(r, CASE call[r].op = "grants" -> "clearingRole"
                 [] call[r].op = "dropRole" -> "countingUsers"
                 [] OTHER -> "loadingRole")
    /\ UNCHANGED <<tables, cache, call, local, overtaken, suspect>>

\* A role in use is not removed.
CountUsers(r) ==
    /\ pc[r] = "countingUsers"
    /\ Goto(r, IF \E u \in User : users[u].role = call[r].role /\ ~ users[u].deleted
                 THEN "failed" ELSE "loadingRole")
    /\ UNCHANGED <<tables, cache, call, local, overtaken, suspect>>

LoadRole(r) ==
    /\ pc[r] = "loadingRole"
    /\ Keep(r, [local[r] EXCEPT !.role = roles[call[r].role]])
    /\ Goto(r, "savingRole")
    /\ UNCHANGED <<tables, cache, call, overtaken, suspect>>

SaveRole(r) ==
    /\ pc[r] = "savingRole"
    /\ LET row == local[r].role IN
       roles' = [roles EXCEPT ![call[r].role] =
           CASE call[r].op = "enable" -> [row EXCEPT !.active = TRUE]
             [] call[r].op = "disable" -> [row EXCEPT !.active = FALSE]
             [] call[r].op = "dropRole" -> [row EXCEPT !.deleted = TRUE]
             [] OTHER -> row]
    /\ Goto(r, IF call[r].op = "editRole" THEN "clearingRole" ELSE "done")
    /\ UNCHANGED <<users, granted, override, cache, call, local, overtaken, suspect>>

ClearGrants(r) ==
    /\ pc[r] = "clearingRole"
    /\ granted' = [granted EXCEPT ![call[r].role] = {}]
    /\ UNCHANGED <<users, roles, override>>
    /\ Overtake(r)
    /\ Goto(r, "writingRole")
    /\ UNCHANGED <<cache, call, local, suspect>>

WriteGrants(r) ==
    /\ pc[r] = "writingRole"
    /\ granted' = [granted EXCEPT ![call[r].role] = @ \cup call[r].checked]
    /\ UNCHANGED <<users, roles, override>>
    /\ Overtake(r)
    /\ Goto(r, "invalidatingAll")
    /\ UNCHANGED <<cache, call, local, suspect>>

InvalidateAll(r) ==
    /\ pc[r] = "invalidatingAll"
    /\ cache' = [u \in User |-> {}]
    /\ suspect' = {}
    /\ Goto(r, "done")
    /\ UNCHANGED <<tables, call, local, overtaken>>

----------------------------------------------------------------------------

\* Users whose entry the request has still to invalidate.
Awaiting(r) ==
    CASE pc[r] \in {"writing", "invalidating"} -> call[r].whom
      [] pc[r] \in {"writingRole", "invalidatingAll"} -> User
      [] OTHER -> {}

\* A statement of the request fails.  What was deleted stays so, and where the insert
\* after it fails the invalidation is skipped; the invalidation itself does not wait.
Fail(r) ==
    /\ InFlight(r)
    /\ pc[r] \notin {"invalidating", "invalidatingAll"}
    /\ End(r, "failed")
    /\ suspect' = suspect \cup Awaiting(r)
    /\ UNCHANGED <<tables, cache, call, overtaken>>

Step(r) ==
    \/ Admit(r) \/ Look(r) \/ ReadRole(r) \/ ReadOverrides(r) \/ Fill(r)
    \/ FindUsers(r) \/ CountSuperAdmins(r) \/ LoadUsers(r) \/ SaveUsers(r)
    \/ Compare(r) \/ ClearOverrides(r) \/ WriteOverrides(r) \/ Invalidate(r)
    \/ FindRole(r) \/ CountUsers(r) \/ LoadRole(r) \/ SaveRole(r)
    \/ ClearGrants(r) \/ WriteGrants(r) \/ InvalidateAll(r)

Next ==
    \/ \E r \in Request : Step(r) \/ Fail(r) \/ \E c \in Call : Arrive(r, c)
    \/ \E u \in User : Expire(u)
    \/ Crash

Spec == Init /\ [][Next]_vars

----------------------------------------------------------------------------
\* Properties

Labels ==
    {"idle", "admitting", "looking", "resolving", "overriding", "filling", "finding",
     "counting", "loading", "saving", "comparing", "clearing", "writing", "invalidating",
     "findingRole", "countingUsers", "loadingRole", "savingRole", "clearingRole",
     "writingRole", "invalidatingAll", "done", "failed"}

Locals ==
    [rows : [User -> UserRow \cup {Absent}], role : RoleRow \cup {Absent},
     granted : SUBSET Permission]

TypeOK ==
    /\ users \in [User -> UserRow]
    /\ roles \in [Role -> RoleRow]
    /\ granted \in [Role -> SUBSET Permission]
    /\ override \in [User -> SUBSET Override]
    /\ cache \in [User -> SUBSET SUBSET Permission]
    /\ pc \in [Request -> Labels]
    /\ call \in [Request -> Call \cup {Absent}]
    /\ local \in [Request -> Locals]
    /\ overtaken \in [Request -> SUBSET User]
    /\ suspect \in SUBSET User

\* The cache holds a user's effective permissions, until the request that has
\* changed them gets to invalidate the entry, unless that request fails in between, or
\* one overtaken by another's change has filled the entry or saved an old copy of the
\* user.
StaleOnlyByRaceOrFailure ==
    \A u \in User :
        \/ cache[u] \subseteq Effective(u)
        \/ u \in suspect
        \/ \E r \in Request : u \in Awaiting(r)

\* A request that replaces a user's permissions leaves the user with exactly those
\* it was sent or, where it ends between the two statements, with exactly those of the
\* role, so that what was revoked is granted again; unless another has changed what
\* concerns the user meanwhile.
UpsertGivesCheckedOrRole ==
    [][\A r \in Request :
          /\ call[r] # Absent /\ call[r].op = "override" /\ pc'[r] # pc[r]
          /\ call[r].whom \cap (overtaken[r] \cup SuperAdmin) = {}
          => /\ pc[r] = "invalidating" => Effective(Target(r)) = {call[r].checked}
             /\ pc[r] = "writing" /\ pc'[r] = "failed" =>
                    Effective(Target(r)) = {granted[users[Target(r)].role]}]_vars

\* The last superadmin in service goes only by a request during which another has
\* changed a superadmin.
LastSuperAdminStays ==
    [][ActiveSuperAdmins # {} /\ ActiveSuperAdmins' = {}
          => \E r \in Request : pc'[r] # pc[r] /\ overtaken[r] \cap SuperAdmin # {}]_vars

=============================================================================
