--------------------------- MODULE UserInvitations ---------------------------
(***************************************************************************)
(* How accounts come to be and go: an address is invited, whoever has the   *)
(* link accepts, an administrator revokes invitations, gives roles, removes  *)
(* or edits accounts, removes roles.  Each is a chain of statements without  *)
(* a transaction around it: rows are read and later saved, which undoes what *)
(* others have saved since.  Addresses are unique over all accounts, removed *)
(* ones included.  AccessControl has what roles and accounts then allow.     *)
(***************************************************************************)
EXTENDS Overlaps

CONSTANTS
    Call,         \* what clients may ask for
    Standing,     \* invitations made before
    Joined,       \* addresses of accounts made before
    Address,      \* e-mail addresses; an account is known by its address
    Role,
    SystemRole    \* roles that cannot be removed

\* An invitation is known by the request that makes it.
Invitation == Request \cup Standing

\* from: the invitation an account was made from.
AccountRow == [role : Role, deleted : BOOLEAN, from : Invitation \cup {None}]

InviteRow == [address : Address, role : Role, status : {"pending", "accepted", "revoked"}]

Calls ==
    [op : {"invite"}, address : Address, role : Role]
    \cup [op : {"accept", "revoke"}, invite : Invitation]
    \cup [op : {"assign"}, address : Address, role : Role]
    \cup [op : {"edit", "remove"}, address : Address]
    \cup [op : {"deactivate"}, addresses : SUBSET Address]
    \cup [op : {"removeRole"}, role : Role]

\* Operations that save accounts.  An edit is of the profile, or of the status, as the
\* deactivation of several at once: no property tells these columns apart.
OnAccounts == {"assign", "edit", "remove", "deactivate"}

\* An account read and amended, and the row save() compares it with.
Draft == [row : AccountRow, seen : AccountRow]

Drafts == UNION {[S -> Draft] : S \in SUBSET Address}

ASSUME InvitationAssumption ==
    /\ SystemRole \subseteq Role
    /\ Call \subseteq Calls
    /\ MaxInFlight \in Nat \ {0}
    /\ Standing \cap Request = {}
    /\ None \notin AccountRow \cup InviteRow \cup Calls \cup Invitation

VARIABLES
    users,
    invites,
    expired,  \* invitations older than seven days
    gone,     \* roles marked as removed
    copy,     \* the invitation a request has read and is to save
    drafts,   \* the accounts a request has read and is to save
    open,     \* history: acceptances that arrived while the invitation was open
    giver     \* history: who changed an account last, its role or whether it is removed

vars == <<users, invites, expired, gone, pc, call, copy, drafts, met, open, giver>>

\* What most steps leave alone.
served == <<call, met, open, drafts>>

----------------------------------------------------------------------------

Keep(r, row) == copy' = [copy EXCEPT ![r] = row]

Fail(r) == Goto(r, "failed") /\ UNCHANGED <<users, invites, expired, gone, copy, giver>>

\* findByEmail and findById see accounts that are not removed.
Live(a) == users[a] # None /\ ~ users[a].deleted

\* The accounts a request is to change.
Accounts(c) == IF c.op = "deactivate" THEN c.addresses ELSE {c.address}

\* Neither accepted nor revoked nor past its seven days.
Open(i) == invites[i].status = "pending" /\ i \notin expired

First(op) ==
    CASE op = "invite" -> "seeking"
      [] op = "revoke" -> "loading"
      [] OTHER -> "finding"

----------------------------------------------------------------------------

Init ==
    /\ users \in [Address -> {None} \cup [role : Role, deleted : {FALSE}, from : {None}]]
    /\ \A a \in Address : users[a] # None <=> a \in Joined
    /\ invites \in [Invitation -> {None} \cup [address : Address, role : Role, status : {"pending"}]]
    /\ \A i \in Invitation : invites[i] = None <=> i \in Request
    /\ expired = {} /\ gone = {}
    /\ pc = [r \in Request |-> "idle"]
    /\ call = [r \in Request |-> None]
    /\ copy = [r \in Request |-> None]
    /\ drafts = [r \in Request |-> [a \in {} |-> None]]
    /\ met = [r \in Request |-> {}]
    /\ open = {}
    /\ giver = [a \in Address |-> None]

\* Whoever accepts or revokes an invitation has its link or its id: it has been saved.
Arrive(r, c) ==
    /\ pc[r] = "idle"
    /\ Cardinality(InFlight) < MaxInFlight
    /\ c.op \in {"accept", "revoke"} => invites[c.invite] # None
    /\ call' = [call EXCEPT ![r] = c]
    /\ met' = Meeting(r)
    /\ open' = IF c.op = "accept" /\ Open(c.invite) THEN open \cup {r} ELSE open
    /\ Goto(r, First(c.op))
    /\ UNCHANGED <<users, invites, expired, gone, copy, drafts, giver>>

\* A failing statement or a stop of the process; what was saved stays.
Abort(r) ==
    /\ r \in InFlight
    /\ Fail(r)
    /\ UNCHANGED served

Expire(i) ==
    /\ invites[i] # None /\ i \notin expired
    /\ expired' = expired \cup {i}
    /\ UNCHANGED <<users, invites, gone, pc, call, copy, drafts, met, open, giver>>

----------------------------------------------------------------------------
\* Inviting and revoking

\* invite and acceptInvite: no account that is not removed has the address.
Seek(r) ==
    /\ pc[r] = "seeking"
    /\ LET inviting == call[r].op = "invite" IN
       IF Live(IF inviting THEN call[r].address ELSE copy[r].address)
         THEN Fail(r)
         ELSE /\ Goto(r, IF inviting THEN "inviting" ELSE "creating")
              /\ UNCHANGED <<users, invites, expired, gone, copy, giver>>
    /\ UNCHANGED served

\* An address may be invited several times.
SaveInvite(r) ==
    /\ pc[r] = "inviting"
    /\ invites' = [invites EXCEPT ![r] =
          [address |-> call[r].address, role |-> call[r].role, status |-> "pending"]]
    /\ Goto(r, "done")
    /\ UNCHANGED <<users, expired, gone, copy, giver, served>>

\* revokeInvite does not look at the status; it saves nothing but that.
LoadInvite(r) ==
    /\ pc[r] = "loading" /\ call[r].op = "revoke"
    /\ Keep(r, [invites[call[r].invite] EXCEPT !.status = "revoked"])
    /\ Goto(r, "closing")
    /\ UNCHANGED <<users, invites, expired, gone, giver, served>>

----------------------------------------------------------------------------
\* Accepting

\* Variant: a revoked invitation is taken for an open one.
FindInviteRevokedToo(r) ==
    /\ pc[r] = "finding" /\ call[r].op = "accept"
    /\ LET i == call[r].invite IN
       IF invites[i].status = "accepted" \/ i \in expired
         THEN Fail(r)
         ELSE /\ Keep(r, invites[i])
              /\ Goto(r, "seeking")
              /\ UNCHANGED <<users, invites, expired, gone, giver>>
    /\ UNCHANGED served

FindInvite(r) ==
    /\ pc[r] = "finding" /\ call[r].op = "accept"
    /\ IF ~ Open(call[r].invite)
         THEN Fail(r)
         ELSE /\ Keep(r, invites[call[r].invite])
              /\ Goto(r, "seeking")
              /\ UNCHANGED <<users, invites, expired, gone, giver>>
    /\ UNCHANGED served

\* Variant: addresses are unique among the accounts that are not removed.
CreateUserOverRemoved(r) ==
    /\ pc[r] = "creating"
    /\ LET a == copy[r].address IN
       IF Live(a)
         THEN Fail(r)
         ELSE /\ users' = [users EXCEPT ![a] =
                    [role |-> copy[r].role, deleted |-> FALSE, from |-> call[r].invite]]
              /\ giver' = [giver EXCEPT ![a] = r]
              /\ Keep(r, [copy[r] EXCEPT !.status = "accepted"])
              /\ Goto(r, "closing")
              /\ UNCHANGED <<invites, expired, gone>>
    /\ UNCHANGED served

\* Variant: an account found under the address is taken for the new one.
CreateUserOrKeep(r) ==
    /\ pc[r] = "creating"
    /\ LET a == copy[r].address
           row == [role |-> copy[r].role, deleted |-> FALSE, from |-> call[r].invite] IN
       /\ users' = [users EXCEPT ![a] = IF @ = None THEN row ELSE @]
       /\ giver' = [giver EXCEPT ![a] = r]
    /\ Keep(r, [copy[r] EXCEPT !.status = "accepted"])
    /\ Goto(r, "closing")
    /\ UNCHANGED <<invites, expired, gone, served>>

\* Nothing looks at the role: it may have been removed.
CreateUser(r) ==
    /\ pc[r] = "creating"
    /\ LET a == copy[r].address IN
       IF users[a] # None
         THEN Fail(r)
         ELSE /\ users' = [users EXCEPT ![a] =
                    [role |-> copy[r].role, deleted |-> FALSE, from |-> call[r].invite]]
              /\ giver' = [giver EXCEPT ![a] = r]
              /\ Keep(r, [copy[r] EXCEPT !.status = "accepted"])
              /\ Goto(r, "closing")
              /\ UNCHANGED <<invites, expired, gone>>
    /\ UNCHANGED served

\* save() reads the invitation again; with the same status there is nothing to write.
CompareInvite(r) ==
    /\ pc[r] = "closing"
    /\ Goto(r, IF invites[call[r].invite].status = copy[r].status THEN "done" ELSE "stamping")
    /\ UNCHANGED <<users, invites, expired, gone, copy, giver, served>>

CloseInvite(r) ==
    /\ pc[r] = "stamping"
    /\ invites' = [invites EXCEPT ![call[r].invite].status = copy[r].status]
    /\ Goto(r, "done")
    /\ UNCHANGED <<users, expired, gone, copy, giver, served>>

----------------------------------------------------------------------------
\* Accounts and roles

\* The account must not be removed (deactivateBulk takes those that are not); the role
\* given may be.
FindUser(r) ==
    /\ pc[r] = "finding" /\ call[r].op \in OnAccounts
    /\ IF call[r].op # "deactivate" /\ ~ Live(call[r].address)
         THEN Fail(r)
         ELSE /\ Goto(r, "loading")
              /\ UNCHANGED <<users, invites, expired, gone, copy, giver>>
    /\ UNCHANGED served

\* The row with what is asked.
Changed(c, row) ==
    CASE c.op = "assign" -> [row EXCEPT !.role = c.role]
      [] c.op = "remove" -> [row EXCEPT !.deleted = TRUE]
      [] OTHER -> row

\* dao.update and dao.softDelete read the row again, removed or not; deactivateBulk reads
\* those not removed.
LoadUsers(r) ==
    /\ pc[r] = "loading" /\ call[r].op \in OnAccounts
    /\ LET found == {a \in Accounts(call[r]) : call[r].op = "deactivate" => Live(a)} IN
       /\ drafts' = [drafts EXCEPT ![r] =
             [a \in found |-> [row |-> Changed(call[r], users[a]), seen |-> users[a]]]]
       /\ Goto(r, IF found = {} THEN "done" ELSE "matching")
    /\ UNCHANGED <<users, invites, expired, gone, copy, giver, call, met, open>>

\* save() reads them again.
CompareUsers(r) ==
    /\ pc[r] = "matching"
    /\ drafts' = [drafts EXCEPT ![r] = [a \in DOMAIN @ |-> [@[a] EXCEPT !.seen = users[a]]]]
    /\ Goto(r, "saving")
    /\ UNCHANGED <<users, invites, expired, gone, copy, giver, call, met, open>>

\* And writes what differs, of all of them in one transaction.
SaveUsers(r) ==
    /\ pc[r] = "saving" /\ call[r].op \in OnAccounts
    /\ users' = [a \in Address |->
          IF a \in DOMAIN drafts[r] THEN Merged(drafts[r][a].row, drafts[r][a].seen, users[a])
          ELSE users[a]]
    /\ giver' = [a \in Address |-> IF users'[a] = users[a] THEN giver[a] ELSE r]
    /\ Goto(r, "done")
    /\ UNCHANGED <<invites, expired, gone, copy, served>>

\* findById does not look at isDeleted.
FindRole(r) ==
    /\ pc[r] = "finding" /\ call[r].op = "removeRole"
    /\ IF call[r].role \in SystemRole
         THEN Fail(r)
         ELSE /\ Goto(r, "counting")
              /\ UNCHANGED <<users, invites, expired, gone, copy, giver>>
    /\ UNCHANGED served

\* Variant: removed accounts are counted instead of the others.
CountRemoved(r) ==
    /\ pc[r] = "counting"
    /\ IF \E a \in Address : users[a] # None /\ users[a].deleted /\ users[a].role = call[r].role
         THEN Fail(r)
         ELSE /\ Goto(r, "saving")
              /\ UNCHANGED <<users, invites, expired, gone, copy, giver>>
    /\ UNCHANGED served

CountUsers(r) ==
    /\ pc[r] = "counting"
    /\ IF \E a \in Address : Live(a) /\ users[a].role = call[r].role
         THEN Fail(r)
         ELSE /\ Goto(r, "saving")
              /\ UNCHANGED <<users, invites, expired, gone, copy, giver>>
    /\ UNCHANGED served

SaveRole(r) ==
    /\ pc[r] = "saving" /\ call[r].op = "removeRole"
    /\ gone' = gone \cup {call[r].role}
    /\ Goto(r, "done")
    /\ UNCHANGED <<users, invites, expired, copy, giver, served>>

----------------------------------------------------------------------------

Step(r) ==
    \/ Seek(r) \/ SaveInvite(r) \/ LoadInvite(r) \/ FindInvite(r) \/ CreateUser(r)
    \/ CompareInvite(r) \/ CloseInvite(r) \/ FindUser(r) \/ LoadUsers(r) \/ CompareUsers(r)
    \/ SaveUsers(r) \/ FindRole(r) \/ CountUsers(r) \/ SaveRole(r)

Next ==
    \/ \E r \in Request :
          \/ \E c \in Call : Arrive(r, c)
          \/ Step(r)
          \/ Abort(r)
    \/ \E i \in Invitation : Expire(i)

Spec == Init /\ [][Next]_vars

----------------------------------------------------------------------------
\* Properties

TypeOK ==
    /\ users \in [Address -> AccountRow \cup {None}]
    /\ invites \in [Invitation -> InviteRow \cup {None}]
    /\ expired \in SUBSET Invitation
    /\ gone \in SUBSET Role
    /\ pc \in [Request -> {"idle", "seeking", "inviting", "finding", "creating", "closing",
                           "stamping", "loading", "matching", "saving", "counting", "done",
                           "failed"}]
    /\ call \in [Request -> Call \cup {None}]
    /\ copy \in [Request -> InviteRow \cup {None}]
    /\ drafts \in [Request -> Drafts]
    /\ met \in [Request -> SUBSET Request]
    /\ open \in SUBSET Request
    /\ giver \in [Address -> Request \cup {None}]

\* Who accepted the invitation an account was made from.
Accepting(a) == {r \in Request : call[r] # None /\ call[r].op = "accept"
                                 /\ call[r].invite = users[a].from}

\* An account was made by an acceptance that arrived while its invitation was open: one
\* revoked or expired before gives no account, whatever was accepted at the same time.
AccountsFromOpenInvites ==
    \A a \in Address :
        users[a] # None /\ users[a].from # None =>
            /\ Accepting(a) \cap open # {}
            /\ invites[users[a].from] # None /\ invites[users[a].from].address = a

\* An accepted invitation has its account.  An account whose invitation is still
\* pending was left by an acceptance that is at work or was stopped in between.
InviteTellsAccount ==
    /\ \A i \in Invitation :
          invites[i] # None /\ invites[i].status = "accepted" =>
              users[invites[i].address] # None /\ users[invites[i].address].from = i
    /\ \A a \in Address :
          users[a] # None /\ users[a].from # None /\ invites[users[a].from].status = "pending" =>
              \E r \in Accepting(a) : pc[r] \in {"closing", "stamping", "failed"}

\* When a role is removed, whoever has it was given it, or brought back with it, while the
\* removal was served.
RoleRemovalSeesUsers ==
    [][\A r \in Request :
          call[r] # None /\ call[r].op = "removeRole" /\ pc'[r] = "done" /\ pc[r] # "done" =>
              \A a \in Address :
                  Live(a) /\ users[a].role = call[r].role => giver[a] \in met[r]]_vars

Changes(r, a) == call[r] # None /\ call[r].op \in OnAccounts /\ a \in Accounts(call[r])

\* A removed account comes back only by a save that is about something else: an assignment,
\* an edit or a deactivation that read the account before another request about it, served at
\* the same time, saved it as removed.  An acceptance never brings one back.
RemovedComesBackByOverlap ==
    [][\A a \in Address :
          users[a] # None /\ users[a].deleted /\ Live(a)' =>
              \E r, q \in Request :
                  /\ r \in met[q] /\ Changes(r, a)
                  /\ Changes(q, a) /\ call[q].op # "remove"
                  /\ pc[q] = "saving" /\ pc'[q] = "done"]_vars
=============================================================================
