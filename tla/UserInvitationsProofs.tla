------------------------ MODULE UserInvitationsProofs ------------------------
(***************************************************************************)
(* Proofs about UserInvitations: its types, what accounts come from, what   *)
(* invitations tell of them, who keeps a removed role and how a removed     *)
(* account comes back.  And about TreatyTerms, whose requests meet in the    *)
(* same way: its types, that lists mix only where requests overlap without  *)
(* the lock, what the header loses, and that it names entries of the lists. *)
(***************************************************************************)
EXTENDS UserInvitations, TreatyTerms, TLAPS

Ops == {"invite", "accept", "revoke", "assign", "edit", "remove", "deactivate", "removeRole"}

Labels == {"idle", "seeking", "inviting", "finding", "creating", "closing", "stamping",
           "loading", "matching", "saving", "counting", "done", "failed"}

LEMMA CallFields ==
    ASSUME NEW c \in Call
    PROVE  /\ c # None /\ c.op \in Ops
           /\ c.op \in {"invite", "assign", "edit", "remove"} => c.address \in Address
           /\ c.op \in OnAccounts => Accounts(c) \subseteq Address
           /\ c.op \in {"invite", "assign", "removeRole"} => c.role \in Role
           /\ c.op \in {"accept", "revoke"} => c.invite \in Invitation
<1>1. /\ c # None
      /\ \/ c \in [op : {"invite"}, address : Address, role : Role]
         \/ c \in [op : {"accept", "revoke"}, invite : Invitation]
         \/ c \in [op : {"assign"}, address : Address, role : Role]
         \/ c \in [op : {"edit", "remove"}, address : Address]
         \/ c \in [op : {"deactivate"}, addresses : SUBSET Address]
         \/ c \in [op : {"removeRole"}, role : Role]
    BY InvitationAssumption, Zenon DEF Calls
<1>. QED
    BY <1>1 DEF Ops, OnAccounts, Accounts

----------------------------------------------------------------------------
\* The invariant

\* Which operations reach a label.
Path(r) ==
    /\ pc[r] = "idle" => call[r] = None
    /\ pc[r] # "idle" => call[r] \in Call
    /\ pc[r] = "seeking" => call[r].op \in {"invite", "accept"}
    /\ pc[r] = "inviting" => call[r].op = "invite"
    /\ pc[r] = "finding" => call[r].op \in {"accept", "removeRole"} \cup OnAccounts
    /\ pc[r] = "creating" => call[r].op = "accept"
    /\ pc[r] \in {"closing", "stamping"} => call[r].op \in {"accept", "revoke"}
    /\ pc[r] = "loading" => call[r].op \in {"revoke"} \cup OnAccounts
    /\ pc[r] = "matching" => call[r].op \in OnAccounts
    /\ pc[r] = "saving" => call[r].op \in {"removeRole"} \cup OnAccounts
    /\ pc[r] = "counting" => call[r].op = "removeRole"

\* An invitation is not there before its request saves it.
Making(r) ==
    pc[r] = "idle" \/ (pc[r] \in {"seeking", "inviting"} /\ call[r].op = "invite") =>
        invites[r] = None

\* What a request relies on that accepts or revokes an invitation, ...
Accepts(r) ==
    LET i == call[r].invite IN
    /\ pc[r] # "idle" /\ call[r].op \in {"accept", "revoke"} => invites[i] # None
    /\ pc[r] = "finding" /\ call[r].op = "accept" /\ Open(i) => r \in open
    /\ pc[r] \in {"seeking", "creating"} /\ call[r].op = "accept" =>
          r \in open /\ copy[r] \in InviteRow /\ copy[r].address = invites[i].address
    /\ pc[r] \in {"closing", "stamping"} =>
          /\ copy[r] \in InviteRow /\ copy[r].address = invites[i].address
          /\ copy[r].status \in {"accepted", "revoked"}
          /\ copy[r].status = "accepted" =>
                users[copy[r].address] # None /\ users[copy[r].address].from = i

\* ... that saves accounts, ...
Editing(r, a) ==
    /\ users[a] # None
    /\ drafts[r][a].row.from = users[a].from /\ drafts[r][a].seen.from = users[a].from
    /\ call[r].op = "remove" => drafts[r][a].row.deleted
    /\ /\ users[a].deleted /\ ~ drafts[r][a].row.deleted
       /\ pc[r] = "saving" => drafts[r][a].seen.deleted
       => \E q \in met[r] : Changes(q, a)

Edits(r) ==
    call[r].op \in OnAccounts =>
        /\ pc[r] = "loading" /\ call[r].op # "deactivate" => users[call[r].address] # None
        /\ pc[r] \in {"matching", "saving"} =>
              /\ DOMAIN drafts[r] \subseteq Accounts(call[r])
              /\ \A a \in DOMAIN drafts[r] : Editing(r, a)

\* ... or removes a role.
Removes(r) ==
    pc[r] = "saving" /\ call[r].op = "removeRole" =>
        \A a \in Address : Live(a) /\ users[a].role = call[r].role => giver[a] \in met[r]

Good(r) == Path(r) /\ Making(r) /\ Accepts(r) /\ Edits(r) /\ Removes(r)

\* Requests in flight together have met.
Met == \A r, q \in InFlight : r # q => r \in met[q]

\* The properties, taken apart.
FromOpen(a) ==
    users[a] # None /\ users[a].from # None =>
        /\ Accepting(a) \cap open # {}
        /\ invites[users[a].from] # None /\ invites[users[a].from].address = a

Accepted(i) ==
    invites[i] # None /\ invites[i].status = "accepted" =>
        users[invites[i].address] # None /\ users[invites[i].address].from = i

Left(a) ==
    users[a] # None /\ users[a].from # None /\ invites[users[a].from].status = "pending" =>
        \E r \in Accepting(a) : pc[r] \in {"closing", "stamping", "failed"}

\* Strengthening: what each request relies on, and who has met whom.
IInv ==
    /\ TypeOK
    /\ \A r \in Request : Good(r)
    /\ Met
    /\ \A a \in Address : FromOpen(a) /\ Left(a)
    /\ \A i \in Invitation : Accepted(i)

LEMMA Initial == Init => IInv
<1>. SUFFICES ASSUME Init PROVE IInv
    OBVIOUS
<1>1. TypeOK
    <2>1. users \in [Address -> AccountRow \cup {None}]
        BY DEF Init, AccountRow
    <2>2. invites \in [Invitation -> InviteRow \cup {None}]
        BY DEF Init, InviteRow
    <2>3. drafts \in [Request -> Drafts]
        <3>1. [a \in {} |-> None] \in [{} -> Draft]
            OBVIOUS
        <3>2. [a \in {} |-> None] \in Drafts
            BY <3>1 DEF Drafts
        <3>. QED
            BY <3>2 DEF Init
    <2>. QED
        BY <2>1, <2>2, <2>3 DEF Init, TypeOK
<1>2. InFlight = {}
    BY DEF Init, InFlight, Active
<1>3. \A r \in Request : Good(r)
    <2>1. \A r \in Request : pc[r] = "idle" /\ call[r] = None /\ invites[r] = None
        BY DEF Init, Invitation
    <2>. QED
        BY <2>1 DEF Good, Path, Making, Accepts, Edits, Removes
<1>4. \A a \in Address : users[a] # None => users[a].from = None
    BY DEF Init
<1>5. \A i \in Invitation : invites[i] # None => invites[i].status = "pending"
    BY DEF Init
<1>. QED
    BY <1>1, <1>2, <1>3, <1>4, <1>5 DEF IInv, Met, FromOpen, Left, Accepted

----------------------------------------------------------------------------
\* What a step of s may do to what others rely on: invitations keep their address and
\* never open again, accounts stay and keep what they were made from, and who changes
\* an account that is there was asked to.

Grows(s) ==
    /\ \A i \in Invitation : invites[i] # None =>
          /\ invites'[i] # None /\ invites'[i].address = invites[i].address
          /\ invites'[i].status = "pending" => invites[i].status = "pending"
    /\ \A i \in Invitation \ {s} : invites[i] = None => invites'[i] = None
    /\ expired \subseteq expired' /\ open \subseteq open'
    /\ \A a \in Address : users[a] # None => users'[a] # None /\ users'[a].from = users[a].from
    /\ \A a \in Address :
          \/ users'[a] = users[a] /\ giver'[a] = giver[a]
          \/ s \in InFlight /\ giver'[a] = s /\ (users[a] = None \/ Changes(s, a))
    /\ \A q \in Request : call[q] # None => call'[q] = call[q]
    /\ \A q \in Request \ {s} :
          pc'[q] = pc[q] /\ call'[q] = call[q] /\ copy'[q] = copy[q] /\ drafts'[q] = drafts[q]
          /\ met[q] \subseteq met'[q]
    /\ pc[s] \in {"closing", "stamping", "failed"} =>
          pc'[s] \in {"stamping", "failed"} \/ invites'[call[s].invite].status # "pending"

\* A request beside the one that steps keeps what it relies on.
LEMMA OthersGood ==
    ASSUME IInv, NEW s \in Request, Grows(s), NEW q \in Request \ {s}
    PROVE  Good(q)'
<1>1. TypeOK /\ Good(q) /\ Met
    BY DEF IInv
<1>2. pc'[q] = pc[q] /\ call'[q] = call[q] /\ copy'[q] = copy[q] /\ drafts'[q] = drafts[q]
          /\ met[q] \subseteq met'[q]
    BY DEF Grows
<1>3. Path(q)'
    BY <1>1, <1>2 DEF Good, Path
<1>4. Making(q)'
    BY <1>1, <1>2 DEF Good, Making, Grows, Invitation
<1>5. Accepts(q)'
    <2>1. CASE pc[q] = "idle" \/ call[q].op \notin {"accept", "revoke"}
        BY <1>1, <1>2, <2>1 DEF Good, Path, Accepts
    <2>2. CASE pc[q] # "idle" /\ call[q].op \in {"accept", "revoke"}
        <3>1. call[q].invite \in Invitation /\ invites[call[q].invite] # None
            BY <1>1, <2>2, CallFields DEF Good, Path, Accepts
        <3>2. PICK i \in Invitation : i = call[q].invite
            BY <3>1
        <3>3. /\ invites'[i] # None /\ invites'[i].address = invites[i].address
              /\ invites'[i].status = "pending" => invites[i].status = "pending"
            BY <3>1, <3>2 DEF Grows
        <3>4. Open(i)' => Open(i)
            BY <3>3 DEF Open, Grows
        <3>5. open \subseteq open'
            BY DEF Grows
        <3>6. pc[q] \in {"closing", "stamping"} => copy[q].address \in Address
            BY <1>1 DEF Good, Accepts, InviteRow
        <3>7. \A a \in Address :
                  users[a] # None => users'[a] # None /\ users'[a].from = users[a].from
            BY DEF Grows
        <3>8. Open(call[q].invite)' <=> Open(i)'
            BY <1>2, <3>2 DEF Open
        <3>9. Accepts(q)
            BY <1>1 DEF Good
        <3>10. /\ pc'[q] = "finding" /\ call'[q].op = "accept" /\ Open(call[q].invite)' => q \in open'
               /\ pc'[q] \in {"seeking", "creating"} /\ call'[q].op = "accept" =>
                     /\ q \in open' /\ copy'[q] \in InviteRow
                     /\ copy'[q].address = invites'[call[q].invite].address
            BY <1>2, <3>2, <3>3, <3>4, <3>5, <3>8, <3>9 DEF Accepts
        <3>11. pc'[q] \in {"closing", "stamping"} =>
                  /\ copy'[q] \in InviteRow /\ copy'[q].address = invites'[call[q].invite].address
                  /\ copy'[q].status \in {"accepted", "revoked"}
                  /\ copy'[q].status = "accepted" =>
                        users'[copy'[q].address] # None /\ users'[copy'[q].address].from = call[q].invite
            BY <1>2, <3>2, <3>3, <3>6, <3>7, <3>9 DEF Accepts
        <3>. QED
            BY <1>2, <3>2, <3>3, <3>10, <3>11 DEF Accepts
    <2>. QED
        BY <2>1, <2>2
<1>6. Edits(q)'
    <2>1. CASE pc[q] \notin {"loading", "matching", "saving"} \/ call[q].op \notin OnAccounts
        BY <1>2, <2>1 DEF Edits
    <2>2. CASE pc[q] = "loading" /\ call[q].op \in OnAccounts
        <3>1. CASE call[q].op = "deactivate"
            BY <1>2, <2>2, <3>1 DEF Edits
        <3>2. CASE call[q].op # "deactivate"
            <4>1. call[q].address \in Address
                BY <1>1, <2>2, <3>2, CallFields DEF Good, Path, OnAccounts
            <4>2. users[call[q].address] # None
                BY <1>1, <2>2, <3>2 DEF Good, Edits
            <4>3. users'[call[q].address] # None
                BY <4>1, <4>2 DEF Grows
            <4>. QED
                BY <1>2, <2>2, <4>3 DEF Edits
        <3>. QED
            BY <3>1, <3>2
    <2>3. CASE pc[q] \in {"matching", "saving"} /\ call[q].op \in OnAccounts
        <3>1. /\ DOMAIN drafts[q] \subseteq Accounts(call[q])
              /\ \A a \in DOMAIN drafts[q] : Editing(q, a)
            BY <1>1, <2>3 DEF Good, Edits
        <3>2. Accounts(call[q]) \subseteq Address
            BY <1>1, <2>3, CallFields DEF Good, Path
        <3>3. ASSUME NEW a \in DOMAIN drafts[q] PROVE Editing(q, a)'
            <4>1. a \in Address /\ Editing(q, a)
                BY <3>1, <3>2
            <4>2. users'[a] # None /\ users'[a].from = users[a].from
                BY <4>1 DEF Grows, Editing
            <4>3. ASSUME users'[a].deleted, ~ drafts[q][a].row.deleted,
                         pc[q] = "saving" => drafts[q][a].seen.deleted
                  PROVE  \E p \in met'[q] : Changes(p, a)'
                <5>1. PICK p \in met[q] : Changes(p, a)
                    <6>1. CASE users'[a] = users[a]
                        BY <4>1, <4>3, <6>1 DEF Editing
                    <6>2. CASE users'[a] # users[a]
                        <7>1. s \in InFlight /\ Changes(s, a)
                            BY <4>1, <6>2 DEF Grows, Editing
                        <7>2. q \in InFlight
                            BY <2>3 DEF InFlight, Active
                        <7>. QED
                            BY <1>1, <7>1, <7>2 DEF Met
                    <6>. QED
                        BY <6>1, <6>2
                <5>2. p \in Request /\ call[p] # None
                    BY <1>1, <5>1 DEF TypeOK, Changes
                <5>3. call'[p] = call[p]
                    BY <5>2 DEF Grows
                <5>. QED
                    BY <1>2, <5>1, <5>3 DEF Changes
            <4>. QED
                BY <1>2, <4>1, <4>2, <4>3 DEF Editing
        <3>4. DOMAIN drafts'[q] = DOMAIN drafts[q] /\ Accounts(call[q])' = Accounts(call[q])
            BY <1>2 DEF Accounts
        <3>. QED
            BY <1>2, <2>3, <3>1, <3>3, <3>4 DEF Edits
    <2>. QED
        BY <2>1, <2>2, <2>3
<1>7. Removes(q)'
    <2>1. SUFFICES ASSUME pc[q] = "saving", call[q].op = "removeRole", NEW a \in Address,
                          Live(a)', users'[a].role = call[q].role
                   PROVE  giver'[a] \in met'[q]
        BY <1>2 DEF Removes
    <2>2. CASE users'[a] = users[a] /\ giver'[a] = giver[a]
        BY <1>1, <1>2, <2>1, <2>2 DEF Good, Removes, Live
    <2>3. CASE s \in InFlight /\ giver'[a] = s
        <3>1. q \in InFlight
            BY <2>1 DEF InFlight, Active
        <3>. QED
            BY <1>1, <1>2, <2>3, <3>1 DEF Met
    <2>. QED
        BY <2>2, <2>3 DEF Grows
<1>. QED
    BY <1>3, <1>4, <1>5, <1>6, <1>7 DEF Good

\* An account that is there keeps its acceptance and its invitation.
LEMMA AccountKept ==
    ASSUME IInv, NEW s \in Request, Grows(s), NEW a \in Address, users[a] # None
    PROVE  FromOpen(a)' /\ Left(a)'
<1>1. users'[a] # None /\ users'[a].from = users[a].from
    BY DEF Grows
<1>2. CASE users[a].from = None
    BY <1>1, <1>2 DEF FromOpen, Left
<1>3. CASE users[a].from # None
    <2>1. users[a].from \in Invitation
        BY <1>3 DEF IInv, TypeOK, AccountRow
    <2>2. PICK i \in Invitation : i = users[a].from
        BY <2>1
    <2>3. Accepting(a) \cap open # {} /\ invites[i] # None /\ invites[i].address = a
        BY <1>3, <2>2 DEF IInv, FromOpen
    <2>4. \A r \in Accepting(a) : r \in Request /\ r \in Accepting(a)'
        BY <1>1 DEF Accepting, Grows
    <2>5. FromOpen(a)'
        <3>1. /\ invites'[i] # None /\ invites'[i].address = a
              /\ users'[a].from = i /\ open \subseteq open'
            BY <1>1, <2>2, <2>3 DEF Grows
        <3>. QED
            BY <2>3, <2>4, <3>1 DEF FromOpen
    <2>6. Left(a)'
        <3>1. SUFFICES ASSUME invites'[i].status = "pending"
                       PROVE  \E r \in Accepting(a)' : pc'[r] \in {"closing", "stamping", "failed"}
            BY <1>1, <2>2 DEF Left
        <3>2. invites[i].status = "pending"
            BY <2>3, <3>1 DEF Grows
        <3>3. PICK r \in Accepting(a) : pc[r] \in {"closing", "stamping", "failed"}
            BY <1>3, <2>2, <3>2 DEF IInv, Left
        <3>4. call[r].invite = i /\ r \in Request
            BY <2>2 DEF Accepting
        <3>5. pc'[r] \in {"closing", "stamping", "failed"}
            BY <3>1, <3>3, <3>4 DEF Grows
        <3>. QED
            BY <2>4, <3>5
    <2>. QED
        BY <2>5, <2>6
<1>. QED
    BY <1>2, <1>3

\* An invitation whose status stays keeps its account.
LEMMA InviteKept ==
    ASSUME IInv, NEW s \in Request, Grows(s), NEW i \in Invitation,
           invites[i] # None, invites'[i].status = invites[i].status
    PROVE  Accepted(i)'
<1>1. invites[i] \in InviteRow /\ Accepted(i)
    BY DEF IInv, TypeOK
<1>2. invites[i].address \in Address /\ invites'[i].address = invites[i].address
    BY <1>1 DEF InviteRow, Grows
<1>. QED
    BY <1>1, <1>2 DEF Accepted, Grows

\* Whoever has met keeps having met while nobody arrives.
LEMMA MetKept ==
    ASSUME IInv, TypeOK', NEW r \in Request, r \in InFlight, met' = met,
           \A q \in Request \ {r} : pc'[q] = pc[q]
    PROVE  Met'
<1>1. InFlight' \subseteq InFlight
    BY DEF InFlight, Active
<1>. QED
    BY <1>1 DEF IInv, Met

\* A step of r that leaves accounts and invitations alone.
LEMMA QuietStep ==
    ASSUME IInv, NEW r \in Request, r \in InFlight, NEW label \in Labels,
           UNCHANGED <<users, invites, expired, giver, call, met, open>>,
           gone' \in SUBSET Role,
           pc' = [pc EXCEPT ![r] = label],
           copy' \in [Request -> InviteRow \cup {None}], drafts' \in [Request -> Drafts],
           \A q \in Request \ {r} : copy'[q] = copy[q] /\ drafts'[q] = drafts[q],
           pc[r] \in {"closing", "stamping"} =>
              label \in {"stamping", "failed"} \/ invites[call[r].invite].status # "pending",
           Good(r)'
    PROVE  IInv'
<1>1. TypeOK'
    BY DEF IInv, TypeOK, Labels
<1>2. Grows(r)
    <2>1. pc[r] # "failed" /\ pc'[r] = label /\ \A q \in Request \ {r} : pc'[q] = pc[q]
        BY DEF InFlight, Active, IInv, TypeOK
    <2>. QED
        BY <2>1 DEF Grows
<1>3. \A q \in Request : Good(q)'
    BY <1>2, OthersGood
<1>4. Met'
    <2>1. \A q \in Request \ {r} : pc'[q] = pc[q]
        BY <1>2 DEF Grows
    <2>. QED
        BY <1>1, <2>1, MetKept
<1>5. \A a \in Address : FromOpen(a)' /\ Left(a)'
    <2>1. SUFFICES ASSUME NEW a \in Address PROVE FromOpen(a)' /\ Left(a)'
        OBVIOUS
    <2>2. CASE users[a] # None
        BY <1>2, <2>2, AccountKept
    <2>3. CASE users[a] = None
        BY <2>3 DEF FromOpen, Left
    <2>. QED
        BY <2>2, <2>3
<1>6. \A i \in Invitation : Accepted(i)'
    BY DEF IInv, Accepted
<1>. QED
    BY <1>1, <1>3, <1>4, <1>5, <1>6 DEF IInv

\* A request that has ended relies on nothing but what it was asked.
LEMMA Ended ==
    ASSUME IInv, NEW r \in Request, r \in InFlight, call' = call,
           pc'[r] \in {"done", "failed"},
           \A i \in Invitation : invites[i] # None => invites'[i] # None
    PROVE  Good(r)'
<1>1. Good(r) /\ pc[r] # "idle" /\ call[r] \in Call
    BY DEF IInv, Good, Path, InFlight, Active
<1>2. call[r].op \in {"accept", "revoke"} => call[r].invite \in Invitation
    BY <1>1, CallFields
<1>3. Accepts(r)'
    BY <1>1, <1>2 DEF Good, Accepts
<1>. QED
    BY <1>1, <1>3 DEF Good, Path, Making, Edits, Removes

LEMMA FailStep ==
    ASSUME IInv, NEW r \in Request, r \in InFlight, Fail(r), UNCHANGED served
    PROVE  IInv'
<1>1. /\ pc' = [pc EXCEPT ![r] = "failed"]
      /\ UNCHANGED <<users, invites, expired, gone, copy, giver, call, met, open, drafts>>
    BY DEF Fail, Goto, served
<1>2. pc'[r] = "failed"
    BY <1>1 DEF IInv, TypeOK
<1>3. Good(r)'
    BY <1>1, <1>2, Ended
<1>4. gone' \in SUBSET Role /\ copy' \in [Request -> InviteRow \cup {None}] /\ drafts' \in [Request -> Drafts]
    BY <1>1 DEF IInv, TypeOK
<1>. QED
    BY <1>1, <1>3, <1>4, QuietStep DEF Labels

----------------------------------------------------------------------------
\* Steps that save nothing

LEMMA SeekKeeps ==
    ASSUME IInv, NEW r \in Request, Seek(r)
    PROVE  IInv'
<1>1. r \in InFlight /\ Good(r) /\ TypeOK
    BY DEF IInv, Seek, InFlight, Active
<1>2. CASE Fail(r)
    BY <1>1, <1>2, FailStep DEF Seek
<1>3. CASE ~ Fail(r)
    <2>1. PICK label \in {"inviting", "creating"} :
              /\ pc' = [pc EXCEPT ![r] = label]
              /\ label = "inviting" <=> call[r].op = "invite"
        BY <1>3 DEF Seek, Goto
    <2>2. UNCHANGED <<users, invites, expired, gone, copy, giver, call, met, open, drafts>>
        BY <1>3 DEF Seek, served
    <2>3. pc[r] = "seeking" /\ pc'[r] = label
        BY <1>1, <2>1 DEF Seek, TypeOK
    <2>4. Good(r)'
        <3>1. Path(r)' /\ Making(r)'
            BY <1>1, <2>1, <2>2, <2>3 DEF Good, Path, Making
        <3>2. Accepts(r)'
            BY <1>1, <2>1, <2>2, <2>3 DEF Good, Path, Accepts
        <3>3. Edits(r)' /\ Removes(r)'
            BY <2>1, <2>3 DEF Edits, Removes
        <3>. QED
            BY <3>1, <3>2, <3>3 DEF Good
    <2>5. gone' \in SUBSET Role /\ copy' \in [Request -> InviteRow \cup {None}] /\ drafts' \in [Request -> Drafts]
        BY <1>1, <2>2 DEF TypeOK
    <2>6. label \in Labels
        BY <2>1 DEF Labels
    <2>. QED
        BY <1>1, <2>1, <2>2, <2>3, <2>4, <2>5, <2>6, QuietStep
<1>. QED
    BY <1>2, <1>3

LEMMA LoadInviteKeeps ==
    ASSUME IInv, NEW r \in Request, LoadInvite(r)
    PROVE  IInv'
<1>. DEFINE row == [invites[call[r].invite] EXCEPT !.status = "revoked"]
<1>1. r \in InFlight /\ Good(r) /\ TypeOK
    BY DEF IInv, LoadInvite, InFlight, Active
<1>2. /\ UNCHANGED <<users, invites, expired, gone, giver, call, met, open, drafts>>
      /\ pc' = [pc EXCEPT ![r] = "closing"] /\ copy' = [copy EXCEPT ![r] = row]
      /\ pc[r] = "loading" /\ call[r].op = "revoke"
    BY DEF LoadInvite, Goto, Keep, served
<1>3. /\ row \in InviteRow /\ row.address = invites[call[r].invite].address
      /\ row.status = "revoked" /\ invites[call[r].invite] # None
    <2>1. call[r].invite \in Invitation
        BY <1>1, <1>2, CallFields DEF Good, Path
    <2>2. invites[call[r].invite] \in InviteRow /\ invites[call[r].invite] # None
        BY <1>1, <1>2, <2>1 DEF Good, Accepts, TypeOK
    <2>. QED
        BY <2>2 DEF InviteRow
<1>. HIDE DEF row
<1>4. copy' \in [Request -> InviteRow \cup {None}] /\ drafts' \in [Request -> Drafts]
    BY <1>1, <1>2, <1>3 DEF TypeOK
<1>5. /\ pc'[r] = "closing" /\ copy'[r] = row
      /\ \A q \in Request \ {r} : copy'[q] = copy[q]
    BY <1>1, <1>2 DEF TypeOK
<1>6. Good(r)'
    <2>1. Path(r)' /\ Making(r)' /\ Edits(r)' /\ Removes(r)'
        BY <1>1, <1>2, <1>5 DEF Good, Path, Making, Edits, Removes
    <2>2. Accepts(r)'
        BY <1>2, <1>3, <1>5 DEF Accepts
    <2>. QED
        BY <2>1, <2>2 DEF Good
<1>7. gone' \in SUBSET Role
    BY <1>1, <1>2 DEF TypeOK
<1>. QED
    BY <1>1, <1>2, <1>4, <1>5, <1>6, <1>7, QuietStep DEF Labels

LEMMA CompareInviteKeeps ==
    ASSUME IInv, NEW r \in Request, CompareInvite(r)
    PROVE  IInv'
<1>. DEFINE i == call[r].invite
<1>1. r \in InFlight /\ Good(r) /\ TypeOK
    BY DEF IInv, CompareInvite, InFlight, Active
<1>2. PICK label \in {"done", "stamping"} :
          /\ UNCHANGED <<users, invites, expired, gone, copy, giver, call, met, open, drafts>>
          /\ pc' = [pc EXCEPT ![r] = label] /\ pc[r] = "closing"
          /\ label = "done" => invites[i].status = copy[r].status
    BY DEF CompareInvite, Goto, served
<1>3. pc'[r] = label /\ call[r].op \in {"accept", "revoke"}
    BY <1>1, <1>2 DEF TypeOK, Good, Path
<1>4. Good(r)'
    BY <1>1, <1>2, <1>3 DEF Good, Path, Making, Accepts, Edits, Removes, OnAccounts
<1>5. /\ gone' \in SUBSET Role /\ label \in Labels
      /\ copy' \in [Request -> InviteRow \cup {None}] /\ drafts' \in [Request -> Drafts]
    BY <1>1, <1>2 DEF TypeOK, Labels
<1>6. label = "done" => invites[call[r].invite].status # "pending"
    BY <1>1, <1>2 DEF Good, Accepts
<1>. QED
    BY <1>1, <1>2, <1>4, <1>5, <1>6, QuietStep

LEMMA FindInviteKeeps ==
    ASSUME IInv, NEW r \in Request, FindInvite(r)
    PROVE  IInv'
<1>. DEFINE i == call[r].invite
<1>1. r \in InFlight /\ Good(r) /\ TypeOK
    BY DEF IInv, FindInvite, InFlight, Active
<1>2. CASE Fail(r)
    BY <1>1, <1>2, FailStep DEF FindInvite
<1>3. CASE ~ Fail(r)
    <2>1. /\ UNCHANGED <<users, invites, expired, gone, giver, call, met, open, drafts>>
          /\ pc' = [pc EXCEPT ![r] = "seeking"] /\ copy' = [copy EXCEPT ![r] = invites[i]]
          /\ pc[r] = "finding" /\ call[r].op = "accept" /\ Open(i)
        BY <1>3 DEF FindInvite, Goto, Keep, served
    <2>2. invites[i] \in InviteRow /\ invites[i] # None /\ r \in open
        <3>1. i \in Invitation
            BY <1>1, <2>1, CallFields DEF Good, Path
        <3>. QED
            BY <1>1, <2>1, <3>1 DEF Good, Accepts, TypeOK
    <2>3. copy' \in [Request -> InviteRow \cup {None}] /\ drafts' \in [Request -> Drafts]
        BY <1>1, <2>1, <2>2 DEF TypeOK
    <2>4. /\ pc'[r] = "seeking" /\ copy'[r] = invites[i]
          /\ \A q \in Request \ {r} : copy'[q] = copy[q]
        BY <1>1, <2>1 DEF TypeOK
    <2>5. Good(r)'
        <3>1. Path(r)' /\ Making(r)' /\ Edits(r)' /\ Removes(r)'
            BY <1>1, <2>1, <2>4 DEF Good, Path, Making, Edits, Removes
        <3>2. Accepts(r)'
            BY <2>1, <2>2, <2>4 DEF Accepts
        <3>. QED
            BY <3>1, <3>2 DEF Good
    <2>6. gone' \in SUBSET Role
        BY <1>1, <2>1 DEF TypeOK
    <2>. QED
        BY <1>1, <2>1, <2>3, <2>4, <2>5, <2>6, QuietStep DEF Labels
<1>. QED
    BY <1>2, <1>3

LEMMA FindUserKeeps ==
    ASSUME IInv, NEW r \in Request, FindUser(r)
    PROVE  IInv'
<1>1. r \in InFlight /\ Good(r) /\ TypeOK
    BY DEF IInv, FindUser, InFlight, Active
<1>2. CASE Fail(r)
    BY <1>1, <1>2, FailStep DEF FindUser
<1>3. CASE ~ Fail(r)
    <2>1. /\ UNCHANGED <<users, invites, expired, gone, copy, giver, call, met, open, drafts>>
          /\ pc' = [pc EXCEPT ![r] = "loading"]
          /\ pc[r] = "finding" /\ call[r].op \in OnAccounts
          /\ call[r].op # "deactivate" => Live(call[r].address)
        BY <1>3 DEF FindUser, Goto, served
    <2>2. pc'[r] = "loading"
        BY <1>1, <2>1 DEF TypeOK
    <2>3. Good(r)'
        <3>1. Path(r)' /\ Making(r)' /\ Removes(r)' /\ Accepts(r)'
            BY <1>1, <2>1, <2>2 DEF Good, Path, Making, Removes, Accepts
        <3>2. Edits(r)'
            BY <2>1, <2>2 DEF Edits, Live
        <3>. QED
            BY <3>1, <3>2 DEF Good
    <2>4. gone' \in SUBSET Role /\ copy' \in [Request -> InviteRow \cup {None}] /\ drafts' \in [Request -> Drafts]
        BY <1>1, <2>1 DEF TypeOK
    <2>. QED
        BY <1>1, <2>1, <2>3, <2>4, QuietStep DEF Labels
<1>. QED
    BY <1>2, <1>3

\* What LoadUsers drafts of an account it found.
LEMMA DraftType ==
    ASSUME NEW c \in Call, c.op \in OnAccounts, NEW row \in AccountRow
    PROVE  /\ Changed(c, row) \in AccountRow /\ Changed(c, row).from = row.from
           /\ c.op = "remove" => Changed(c, row).deleted
           /\ c.op # "remove" => Changed(c, row).deleted = row.deleted
<1>1. CASE c.op = "assign"
    <2>1. c.role \in Role /\ Changed(c, row) = [row EXCEPT !.role = c.role]
        BY <1>1, CallFields DEF Changed
    <2>. QED
        BY <1>1, <2>1 DEF AccountRow
<1>2. CASE c.op = "remove"
    <2>1. Changed(c, row) = [row EXCEPT !.deleted = TRUE]
        BY <1>2 DEF Changed
    <2>. QED
        BY <1>2, <2>1 DEF AccountRow
<1>3. CASE c.op \notin {"assign", "remove"}
    <2>1. Changed(c, row) = row
        BY <1>3 DEF Changed
    <2>. QED
        BY <1>3, <2>1
<1>. QED
    BY <1>1, <1>2, <1>3

LEMMA LoadUsersKeeps ==
    ASSUME IInv, NEW r \in Request, LoadUsers(r)
    PROVE  IInv'
<1>. DEFINE found == {a \in Accounts(call[r]) : call[r].op = "deactivate" => Live(a)}
            draft == [a \in found |-> [row |-> Changed(call[r], users[a]), seen |-> users[a]]]
            label == IF found = {} THEN "done" ELSE "matching"
<1>1. r \in InFlight /\ Good(r) /\ TypeOK
    BY DEF IInv, LoadUsers, InFlight, Active
<1>2. /\ UNCHANGED <<users, invites, expired, gone, copy, giver, call, met, open>>
      /\ pc' = [pc EXCEPT ![r] = label] /\ drafts' = [drafts EXCEPT ![r] = draft]
      /\ pc[r] = "loading" /\ call[r].op \in OnAccounts
    BY DEF LoadUsers, Goto
<1>3. call[r] \in Call /\ Accounts(call[r]) \subseteq Address
    BY <1>1, <1>2, CallFields DEF Good, Path
<1>4. ASSUME NEW a \in found
      PROVE  a \in Address /\ users[a] \in AccountRow /\ users[a] # None
    <2>1. CASE call[r].op = "deactivate"
        BY <1>1, <1>3, <2>1 DEF Live, TypeOK
    <2>2. CASE call[r].op # "deactivate"
        <3>1. a = call[r].address
            BY <2>2 DEF Accounts
        <3>2. users[a] # None
            BY <1>1, <1>2, <2>2, <3>1 DEF Good, Edits
        <3>. QED
            BY <1>1, <1>3, <3>2 DEF TypeOK
    <2>. QED
        BY <2>1, <2>2
<1>5. \A a \in found : draft[a].row = Changed(call[r], users[a]) /\ draft[a].seen = users[a]
    OBVIOUS
<1>6. \A a \in found : draft[a] \in Draft
    <2>1. SUFFICES ASSUME NEW a \in found PROVE draft[a] \in Draft
        OBVIOUS
    <2>2. Changed(call[r], users[a]) \in AccountRow /\ users[a] \in AccountRow
        BY <1>2, <1>3, <1>4, DraftType
    <2>. QED
        BY <2>2 DEF Draft
<1>7. draft \in Drafts
    <2>1. found \in SUBSET Address
        BY <1>3
    <2>2. draft \in [found -> Draft]
        BY <1>6
    <2>. QED
        BY <2>1, <2>2 DEF Drafts
<1>8. DOMAIN draft = found /\ found \subseteq Accounts(call[r])
    OBVIOUS
<1>. HIDE DEF draft
<1>9. drafts' \in [Request -> Drafts] /\ copy' \in [Request -> InviteRow \cup {None}]
    BY <1>1, <1>2, <1>7 DEF TypeOK
<1>10. /\ pc'[r] = label /\ drafts'[r] = draft
       /\ \A q \in Request \ {r} : copy'[q] = copy[q] /\ drafts'[q] = drafts[q]
    BY <1>1, <1>2 DEF TypeOK
<1>11. label \in {"done", "matching"}
    OBVIOUS
<1>12. ASSUME NEW a \in found PROVE Editing(r, a)'
    <2>1. /\ draft[a].row.from = users[a].from /\ draft[a].seen.from = users[a].from
          /\ call[r].op = "remove" => draft[a].row.deleted
          /\ users[a].deleted => draft[a].row.deleted
        BY <1>2, <1>3, <1>4, <1>5, DraftType
    <2>. QED
        BY <1>2, <1>4, <1>10, <2>1 DEF Editing
<1>. HIDE DEF label, found
<1>13. Good(r)'
    <2>1. Path(r)' /\ Making(r)' /\ Accepts(r)' /\ Removes(r)'
        BY <1>1, <1>2, <1>10, <1>11 DEF Good, Path, Making, Accepts, Removes
    <2>2. Edits(r)'
        BY <1>2, <1>8, <1>10, <1>11, <1>12 DEF Edits
    <2>. QED
        BY <2>1, <2>2 DEF Good
<1>14. gone' \in SUBSET Role
    BY <1>1, <1>2 DEF TypeOK
<1>. QED
    BY <1>1, <1>2, <1>9, <1>10, <1>11, <1>13, <1>14, QuietStep DEF Labels

LEMMA CompareUsersKeeps ==
    ASSUME IInv, NEW r \in Request, CompareUsers(r)
    PROVE  IInv'
<1>. DEFINE accounts == DOMAIN drafts[r]
            draft == [a \in accounts |-> [drafts[r][a] EXCEPT !.seen = users[a]]]
<1>1. r \in InFlight /\ Good(r) /\ TypeOK
    BY DEF IInv, CompareUsers, InFlight, Active
<1>2. /\ UNCHANGED <<users, invites, expired, gone, copy, giver, call, met, open>>
      /\ pc' = [pc EXCEPT ![r] = "saving"] /\ drafts' = [drafts EXCEPT ![r] = draft]
      /\ pc[r] = "matching"
    BY DEF CompareUsers, Goto, TypeOK, IInv
<1>3. call[r] \in Call /\ call[r].op \in OnAccounts /\ Accounts(call[r]) \subseteq Address
    BY <1>1, <1>2, CallFields DEF Good, Path
<1>4. accounts \subseteq Accounts(call[r]) /\ \A a \in accounts : Editing(r, a)
    BY <1>1, <1>2, <1>3 DEF Good, Edits
<1>5. \A a \in accounts : drafts[r][a] \in Draft
    <2>1. drafts[r] \in Drafts
        BY <1>1 DEF TypeOK
    <2>2. PICK S \in SUBSET Address : drafts[r] \in [S -> Draft]
        BY <2>1 DEF Drafts
    <2>. QED
        BY <2>2
<1>6. ASSUME NEW a \in accounts
      PROVE  /\ draft[a] \in Draft /\ draft[a].row = drafts[r][a].row
             /\ draft[a].seen = users[a]
    <2>1. users[a] \in AccountRow /\ drafts[r][a] \in Draft
        BY <1>1, <1>3, <1>4, <1>5 DEF Editing, TypeOK
    <2>. QED
        BY <2>1 DEF Draft
<1>7. draft \in Drafts
    <2>1. accounts \in SUBSET Address /\ draft \in [accounts -> Draft]
        BY <1>3, <1>4, <1>6
    <2>. QED
        BY <2>1 DEF Drafts
<1>8. DOMAIN draft = accounts
    OBVIOUS
<1>. HIDE DEF draft
<1>9. drafts' \in [Request -> Drafts] /\ copy' \in [Request -> InviteRow \cup {None}]
    BY <1>1, <1>2, <1>7 DEF TypeOK
<1>10. /\ pc'[r] = "saving" /\ drafts'[r] = draft
       /\ \A q \in Request \ {r} : copy'[q] = copy[q] /\ drafts'[q] = drafts[q]
    BY <1>1, <1>2 DEF TypeOK
<1>11. ASSUME NEW a \in accounts PROVE Editing(r, a)'
    <2>1. Editing(r, a) /\ (\E q \in met[r] : Changes(q, a)) = (\E q \in met'[r] : Changes(q, a)')
        BY <1>2, <1>4 DEF Changes
    <2>. QED
        BY <1>2, <1>6, <1>10, <2>1 DEF Editing
<1>12. Good(r)'
    <2>1. Path(r)' /\ Making(r)' /\ Accepts(r)' /\ Removes(r)'
        BY <1>1, <1>2, <1>3, <1>10 DEF Good, Path, Making, Accepts, Removes, OnAccounts
    <2>2. Edits(r)'
        BY <1>2, <1>4, <1>8, <1>10, <1>11 DEF Edits
    <2>. QED
        BY <2>1, <2>2 DEF Good
<1>13. gone' \in SUBSET Role
    BY <1>1, <1>2 DEF TypeOK
<1>. QED
    BY <1>1, <1>2, <1>9, <1>10, <1>12, <1>13, QuietStep DEF Labels

LEMMA FindRoleKeeps ==
    ASSUME IInv, NEW r \in Request, FindRole(r) \/ CountUsers(r) \/ SaveRole(r)
    PROVE  IInv'
<1>1. r \in InFlight /\ Good(r) /\ TypeOK
    BY DEF IInv, FindRole, CountUsers, SaveRole, InFlight, Active
<1>2. CASE Fail(r) /\ UNCHANGED served
    BY <1>1, <1>2, FailStep
<1>3. CASE ~ Fail(r)
    <2>1. PICK label \in {"counting", "saving", "done"} :
              /\ UNCHANGED <<users, invites, expired, copy, giver, call, met, open, drafts>>
              /\ pc' = [pc EXCEPT ![r] = label]
              /\ pc[r] \in {"finding", "counting", "saving"} /\ call[r].op = "removeRole"
              /\ gone' = gone \/ gone' = gone \cup {call[r].role}
              /\ label = "saving" =>
                    ~ \E a \in Address : Live(a) /\ users[a].role = call[r].role
        BY <1>1, <1>3 DEF FindRole, CountUsers, SaveRole, Goto, served, Good, Path
    <2>2. pc'[r] = label
        BY <1>1, <2>1 DEF TypeOK
    <2>3. Good(r)'
        <3>1. Path(r)' /\ Making(r)' /\ Accepts(r)' /\ Edits(r)'
            BY <1>1, <2>1, <2>2 DEF Good, Path, Making, Accepts, Edits, OnAccounts
        <3>2. Removes(r)'
            BY <2>1, <2>2 DEF Removes, Live
        <3>. QED
            BY <3>1, <3>2 DEF Good
    <2>4. gone' \in SUBSET Role
        <3>1. call[r].role \in Role
            BY <1>1, <2>1, CallFields DEF Good, Path
        <3>. QED
            BY <1>1, <2>1, <3>1 DEF TypeOK
    <2>5. copy' \in [Request -> InviteRow \cup {None}] /\ drafts' \in [Request -> Drafts] /\ label \in Labels
        BY <1>1, <2>1 DEF TypeOK, Labels
    <2>. QED
        BY <1>1, <2>1, <2>3, <2>4, <2>5, QuietStep
<1>. QED
    BY <1>2, <1>3 DEF FindRole, CountUsers, SaveRole

----------------------------------------------------------------------------
\* Steps that save

\* What is left to show of a step that saves.
LEMMA Saved ==
    ASSUME IInv, NEW r \in Request, r \in InFlight, Grows(r), TypeOK', UNCHANGED served,
           Good(r)',
           \A a \in Address : users[a] = None => FromOpen(a)' /\ Left(a)',
           \A i \in Invitation :
              (invites[i] # None /\ invites'[i].status = invites[i].status) \/ Accepted(i)'
    PROVE  IInv'
<1>1. \A q \in Request : Good(q)'
    BY OthersGood
<1>2. Met'
    BY MetKept DEF Grows, served
<1>3. \A a \in Address : FromOpen(a)' /\ Left(a)'
    BY AccountKept
<1>4. \A i \in Invitation : Accepted(i)'
    BY InviteKept
<1>. QED
    BY <1>1, <1>2, <1>3, <1>4 DEF IInv

LEMMA SaveInviteKeeps ==
    ASSUME IInv, NEW r \in Request, SaveInvite(r)
    PROVE  IInv'
<1>. DEFINE row == [address |-> call[r].address, role |-> call[r].role, status |-> "pending"]
<1>1. r \in InFlight /\ Good(r) /\ TypeOK
    BY DEF IInv, SaveInvite, InFlight, Active
<1>2. /\ invites' = [invites EXCEPT ![r] = row] /\ pc' = [pc EXCEPT ![r] = "done"]
      /\ UNCHANGED <<users, expired, gone, copy, giver, call, met, open, drafts>>
      /\ pc[r] = "inviting"
    BY DEF SaveInvite, Goto, served
<1>3. row \in InviteRow /\ row.status = "pending"
    BY <1>1, <1>2, CallFields DEF Good, Path, InviteRow
<1>4. invites[r] = None
    BY <1>1, <1>2 DEF Good, Path, Making
<1>. HIDE DEF row
<1>5. TypeOK'
    BY <1>1, <1>2, <1>3 DEF TypeOK
<1>6. r \in Invitation /\ pc'[r] = "done" /\ row # None
    BY <1>1, <1>2, <1>3, InvitationAssumption DEF TypeOK, Invitation
<1>7. /\ \A i \in Invitation \ {r} : invites'[i] = invites[i]
      /\ invites'[r] = row
      /\ \A q \in Request \ {r} : pc'[q] = pc[q]
    BY <1>1, <1>2, <1>6 DEF TypeOK
<1>8. Grows(r)
    BY <1>2, <1>4, <1>6, <1>7 DEF Grows
<1>9. Good(r)'
    BY <1>1, <1>2, <1>4, <1>6, <1>7, Ended
<1>10. \A a \in Address : users[a] = None => FromOpen(a)' /\ Left(a)'
    BY <1>2 DEF FromOpen, Left
<1>11. \A i \in Invitation :
          (invites[i] # None /\ invites'[i].status = invites[i].status) \/ Accepted(i)'
    <2>1. Accepted(r)'
        BY <1>3, <1>7 DEF Accepted
    <2>2. \A i \in Invitation \ {r} : invites[i] = None => Accepted(i)'
        BY <1>7 DEF Accepted
    <2>. QED
        BY <1>7, <2>1, <2>2
<1>. QED
    BY <1>1, <1>2, <1>5, <1>8, <1>9, <1>10, <1>11, Saved DEF served

LEMMA CreateUserKeeps ==
    ASSUME IInv, NEW r \in Request, CreateUser(r)
    PROVE  IInv'
<1>. DEFINE i == call[r].invite
            a == copy[r].address
            account == [role |-> copy[r].role, deleted |-> FALSE, from |-> i]
            row == [copy[r] EXCEPT !.status = "accepted"]
<1>1. r \in InFlight /\ Good(r) /\ TypeOK
    BY DEF IInv, CreateUser, InFlight, Active
<1>2. CASE Fail(r)
    BY <1>1, <1>2, FailStep DEF CreateUser
<1>3. CASE ~ Fail(r)
    <2>1. /\ users[a] = None
          /\ users' = [users EXCEPT ![a] = account] /\ giver' = [giver EXCEPT ![a] = r]
          /\ copy' = [copy EXCEPT ![r] = row] /\ pc' = [pc EXCEPT ![r] = "closing"]
          /\ UNCHANGED <<invites, expired, gone, call, met, open, drafts>>
          /\ pc[r] = "creating"
        BY <1>3 DEF CreateUser, Goto, Keep, served
    <2>2. /\ call[r] \in Call /\ call[r].op = "accept" /\ i \in Invitation
          /\ invites[i] # None /\ invites[i] \in InviteRow
        BY <1>1, <2>1, CallFields DEF Good, Path, Accepts, TypeOK
    <2>3. copy[r] \in InviteRow /\ a \in Address /\ a = invites[i].address /\ r \in open
        BY <1>1, <2>1, <2>2 DEF Good, Accepts, InviteRow
    <2>4. row \in InviteRow /\ row.address = a /\ row.status = "accepted"
        BY <2>3 DEF InviteRow
    <2>5. account \in AccountRow /\ account # None /\ account.from = i /\ i # None
        <3>1. account \in AccountRow
            BY <2>2, <2>3 DEF AccountRow, InviteRow
        <3>. QED
            BY <2>2, <3>1, InvitationAssumption
    <2>. HIDE DEF account, row
    <2>6. TypeOK'
        BY <1>1, <2>1, <2>3, <2>4, <2>5 DEF TypeOK
    <2>7. /\ pc'[r] = "closing" /\ copy'[r] = row
          /\ \A q \in Request \ {r} : pc'[q] = pc[q] /\ copy'[q] = copy[q]
          /\ users'[a] = account /\ giver'[a] = r
          /\ \A b \in Address \ {a} : users'[b] = users[b] /\ giver'[b] = giver[b]
        BY <1>1, <2>1, <2>3 DEF TypeOK
    <2>8. Grows(r)
        BY <1>1, <2>1, <2>7 DEF Grows
    <2>9. Good(r)'
        <3>1. Path(r)' /\ Making(r)' /\ Edits(r)' /\ Removes(r)'
            BY <1>1, <2>1, <2>2, <2>7 DEF Good, Path, Making, Edits, Removes
        <3>2. Accepts(r)'
            <4>1. copy'[r].address = a /\ users'[copy'[r].address] = account
                BY <2>4, <2>7
            <4>. QED
                BY <2>1, <2>2, <2>3, <2>4, <2>5, <2>7, <4>1 DEF Accepts
        <3>. QED
            BY <3>1, <3>2 DEF Good
    <2>10. \A b \in Address : users[b] = None => FromOpen(b)' /\ Left(b)'
        <3>1. SUFFICES ASSUME NEW b \in Address, users[b] = None PROVE FromOpen(b)' /\ Left(b)'
            OBVIOUS
        <3>2. CASE b = a
            <4>1. /\ users'[b].from = i /\ invites'[i] # None
                  /\ invites'[i].address = b /\ r \in open'
                BY <2>1, <2>2, <2>3, <2>5, <2>7, <3>2
            <4>2. r \in Accepting(b)'
                BY <2>1, <2>2, <4>1, CallFields DEF Accepting
            <4>. QED
                BY <2>7, <4>1, <4>2 DEF FromOpen, Left
        <3>3. CASE b # a
            BY <2>7, <3>1, <3>3 DEF FromOpen, Left
        <3>. QED
            BY <3>2, <3>3
    <2>11. \A j \in Invitation :
              (invites[j] # None /\ invites'[j].status = invites[j].status) \/ Accepted(j)'
        BY <2>1 DEF Accepted
    <2>. QED
        BY <1>1, <2>1, <2>6, <2>8, <2>9, <2>10, <2>11, Saved DEF served
<1>. QED
    BY <1>2, <1>3

LEMMA CloseInviteKeeps ==
    ASSUME IInv, NEW r \in Request, CloseInvite(r)
    PROVE  IInv'
<1>. DEFINE i == call[r].invite
            row == [invites[i] EXCEPT !.status = copy[r].status]
<1>1. r \in InFlight /\ Good(r) /\ TypeOK
    BY DEF IInv, CloseInvite, InFlight, Active
<1>2. /\ invites' = [invites EXCEPT ![i] = row] /\ pc' = [pc EXCEPT ![r] = "done"]
      /\ UNCHANGED <<users, expired, gone, copy, giver, call, met, open, drafts>>
      /\ pc[r] = "stamping"
    BY DEF CloseInvite, Goto, served
<1>3. i \in Invitation /\ invites[i] # None
    BY <1>1, <1>2, CallFields DEF Good, Path, Accepts
<1>4. /\ row \in InviteRow /\ row.address = invites[i].address
      /\ row.status \in {"accepted", "revoked"}
      /\ row.status = "accepted" => users[row.address] # None /\ users[row.address].from = i
      /\ row # None
    <2>1. invites[i] \in InviteRow
        BY <1>1, <1>3 DEF TypeOK
    <2>2. /\ copy[r] \in InviteRow /\ copy[r].address = invites[i].address
          /\ copy[r].status \in {"accepted", "revoked"}
          /\ copy[r].status = "accepted" =>
                users[copy[r].address] # None /\ users[copy[r].address].from = i
        BY <1>1, <1>2 DEF Good, Accepts
    <2>3. /\ row \in InviteRow /\ row.address = invites[i].address
          /\ row.status = copy[r].status
        BY <2>1, <2>2 DEF InviteRow
    <2>. QED
        BY <2>2, <2>3, InvitationAssumption
<1>. HIDE DEF row
<1>5. TypeOK'
    BY <1>1, <1>2, <1>4 DEF TypeOK
<1>6. /\ pc'[r] = "done" /\ invites'[i] = row
      /\ \A j \in Invitation \ {i} : invites'[j] = invites[j]
      /\ \A q \in Request \ {r} : pc'[q] = pc[q]
    BY <1>1, <1>2, <1>3 DEF TypeOK
<1>7. Grows(r)
    BY <1>2, <1>3, <1>4, <1>6 DEF Grows
<1>8. Good(r)'
    BY <1>1, <1>2, <1>3, <1>4, <1>6, Ended
<1>9. \A a \in Address : users[a] = None => FromOpen(a)' /\ Left(a)'
    BY <1>2 DEF FromOpen, Left
<1>10. \A j \in Invitation :
          (invites[j] # None /\ invites'[j].status = invites[j].status) \/ Accepted(j)'
    <2>1. SUFFICES ASSUME NEW j \in Invitation
                   PROVE  \/ invites[j] # None /\ invites'[j].status = invites[j].status
                          \/ Accepted(j)'
        OBVIOUS
    <2>2. CASE j = i
        BY <1>2, <1>4, <1>6, <2>2 DEF Accepted
    <2>3. CASE j # i
        BY <1>6, <2>3 DEF Accepted
    <2>. QED
        BY <2>2, <2>3
<1>. QED
    BY <1>1, <1>2, <1>5, <1>7, <1>8, <1>9, <1>10, Saved DEF served

\* What an UPDATE makes of an account.
LEMMA MergedAccount ==
    ASSUME NEW copied \in AccountRow, NEW seen \in AccountRow, NEW row \in AccountRow,
           copied.from = row.from, seen.from = row.from
    PROVE  /\ Merged(copied, seen, row) \in AccountRow
           /\ Merged(copied, seen, row).from = row.from
           /\ row.deleted /\ ~ Merged(copied, seen, row).deleted =>
                 ~ copied.deleted /\ seen.deleted
<1>. DEFINE new == Merged(copied, seen, row)
<1>1. DOMAIN row = {"role", "deleted", "from"}
    BY DEF AccountRow
<1>2. new = [k \in {"role", "deleted", "from"} |->
                IF copied[k] # seen[k] THEN copied[k] ELSE row[k]]
    BY <1>1 DEF Merged
<1>3. /\ copied["role"] \in Role /\ row["role"] \in Role
      /\ copied["deleted"] \in BOOLEAN /\ row["deleted"] \in BOOLEAN
      /\ seen["deleted"] \in BOOLEAN
      /\ row["from"] \in Invitation \cup {None}
      /\ copied["from"] = row["from"] /\ seen["from"] = row["from"]
    BY DEF AccountRow
<1>4. /\ new["role"] \in Role /\ new["deleted"] \in BOOLEAN /\ new["from"] = row["from"]
      /\ row["deleted"] /\ ~ new["deleted"] => ~ copied["deleted"] /\ seen["deleted"]
    BY <1>2, <1>3
<1>5. new = [role |-> new["role"], deleted |-> new["deleted"], from |-> new["from"]]
    BY <1>2
<1>. HIDE DEF new
<1>6. new \in AccountRow
    BY <1>3, <1>4, <1>5 DEF AccountRow
<1>. QED
    BY <1>4, <1>6 DEF new

LEMMA SaveUsersKeeps ==
    ASSUME IInv, NEW r \in Request, SaveUsers(r)
    PROVE  IInv'
<1>. DEFINE accounts == DOMAIN drafts[r]
<1>1. r \in InFlight /\ Good(r) /\ TypeOK
    BY DEF IInv, SaveUsers, InFlight, Active
<1>2. /\ users' = [a \in Address |->
            IF a \in accounts THEN Merged(drafts[r][a].row, drafts[r][a].seen, users[a])
            ELSE users[a]]
      /\ giver' = [a \in Address |-> IF users'[a] = users[a] THEN giver[a] ELSE r]
      /\ pc' = [pc EXCEPT ![r] = "done"]
      /\ UNCHANGED <<invites, expired, gone, copy, call, met, open, drafts>>
      /\ pc[r] = "saving" /\ call[r].op \in OnAccounts
    BY DEF SaveUsers, Goto, served
<1>3. /\ accounts \subseteq Accounts(call[r]) /\ \A a \in accounts : Editing(r, a)
      /\ call[r] # None /\ call[r] \in Call
    BY <1>1, <1>2, CallFields DEF Good, Edits, Path
<1>4. \A a \in accounts : drafts[r][a].row \in AccountRow /\ drafts[r][a].seen \in AccountRow
    <2>1. drafts[r] \in Drafts
        BY <1>1 DEF TypeOK
    <2>2. PICK S \in SUBSET Address : drafts[r] \in [S -> Draft]
        BY <2>1 DEF Drafts
    <2>. QED
        BY <2>2 DEF Draft
<1>5. ASSUME NEW a \in Address
      PROVE  \/ users'[a] = users[a] /\ giver'[a] = giver[a]
             \/ /\ giver'[a] = r /\ users[a] # None /\ Changes(r, a)
                /\ users'[a] \in AccountRow /\ users'[a].from = users[a].from
    <2>1. CASE a \notin accounts
        BY <1>2, <2>1
    <2>2. CASE a \in accounts
        <3>1. users[a] \in AccountRow /\ users[a] # None
            BY <1>1, <1>3, <2>2 DEF Editing, TypeOK
        <3>2. users'[a] = Merged(drafts[r][a].row, drafts[r][a].seen, users[a])
            BY <1>2, <2>2
        <3>3. users'[a] \in AccountRow /\ users'[a].from = users[a].from
            BY <1>3, <1>4, <2>2, <3>1, <3>2, MergedAccount DEF Editing
        <3>4. Changes(r, a)
            BY <1>2, <1>3, <2>2 DEF Changes
        <3>. QED
            BY <1>2, <3>1, <3>3, <3>4
    <2>. QED
        BY <2>1, <2>2
<1>6. TypeOK'
    <2>1. \A a \in Address : /\ users'[a] \in AccountRow \cup {None}
                            /\ giver'[a] \in Request \cup {None}
        BY <1>1, <1>5 DEF TypeOK
    <2>2. DOMAIN users' = Address /\ DOMAIN giver' = Address
        BY <1>2
    <2>3. users' = [a \in Address |-> users'[a]] /\ giver' = [a \in Address |-> giver'[a]]
        BY <1>2
    <2>4. users' \in [Address -> AccountRow \cup {None}] /\ giver' \in [Address -> Request \cup {None}]
        BY <2>1, <2>3
    <2>. QED
        BY <1>1, <1>2, <2>4 DEF TypeOK
<1>7. pc'[r] = "done" /\ \A q \in Request \ {r} : pc'[q] = pc[q]
    BY <1>1, <1>2 DEF TypeOK
<1>8. Grows(r)
    <2>1. \A a \in Address : users[a] # None => users'[a] # None /\ users'[a].from = users[a].from
        BY <1>5, InvitationAssumption
    <2>2. \A a \in Address :
              \/ users'[a] = users[a] /\ giver'[a] = giver[a]
              \/ r \in InFlight /\ giver'[a] = r /\ (users[a] = None \/ Changes(r, a))
        BY <1>1, <1>5
    <2>. QED
        BY <1>2, <1>7, <2>1, <2>2 DEF Grows
<1>9. Good(r)'
    BY <1>1, <1>2, <1>7, Ended
<1>10. \A b \in Address : users[b] = None => FromOpen(b)' /\ Left(b)'
    BY <1>5 DEF FromOpen, Left
<1>11. \A i \in Invitation :
          (invites[i] # None /\ invites'[i].status = invites[i].status) \/ Accepted(i)'
    BY <1>2 DEF Accepted
<1>. QED
    BY <1>1, <1>2, <1>6, <1>8, <1>9, <1>10, <1>11, Saved DEF served

----------------------------------------------------------------------------
\* Steps of no request in flight

LEMMA ArriveKeeps ==
    ASSUME IInv, NEW r \in Request, NEW c \in Call, Arrive(r, c)
    PROVE  IInv'
<1>. DEFINE meet == [q \in Request |-> CASE q = r -> InFlight
                                         [] q \in InFlight -> met[q] \cup {r}
                                         [] OTHER -> met[q]]
<1>1. Good(r) /\ TypeOK /\ Met /\ c.op \in Ops
    BY CallFields DEF IInv
<1>2. /\ pc[r] = "idle" /\ pc' = [pc EXCEPT ![r] = First(c.op)]
      /\ call' = [call EXCEPT ![r] = c] /\ met' = meet
      /\ c.op \in {"accept", "revoke"} => invites[c.invite] # None
      /\ open' = IF c.op = "accept" /\ Open(c.invite) THEN open \cup {r} ELSE open
      /\ UNCHANGED <<users, invites, expired, gone, copy, drafts, giver>>
    BY DEF Arrive, Meeting, Goto
<1>3. r \notin InFlight /\ InFlight \subseteq Request
    BY <1>2 DEF InFlight, Active
<1>4. /\ met' \in [Request -> SUBSET Request] /\ met'[r] = InFlight
      /\ \A q \in Request \ {r} : met'[q] = IF q \in InFlight THEN met[q] \cup {r} ELSE met[q]
    <2>1. \A q \in Request : meet[q] = IF q = r THEN InFlight
                                       ELSE IF q \in InFlight THEN met[q] \cup {r} ELSE met[q]
        BY <1>3
    <2>2. met' = [q \in Request |-> IF q = r THEN InFlight
                                    ELSE IF q \in InFlight THEN met[q] \cup {r} ELSE met[q]]
        BY <1>2, <2>1
    <2>. QED
        BY <1>1, <1>3, <2>2 DEF TypeOK
<1>. HIDE DEF meet
<1>5. First(c.op) \in {"seeking", "loading", "finding"}
    BY DEF First
<1>6. /\ c.op = "invite" => First(c.op) = "seeking"
      /\ c.op = "revoke" => First(c.op) = "loading"
      /\ c.op \notin {"invite", "revoke"} => First(c.op) = "finding"
    BY DEF First
<1>7. TypeOK'
    BY <1>1, <1>2, <1>4, <1>5 DEF TypeOK
<1>8. /\ pc'[r] = First(c.op) /\ call'[r] = c
      /\ \A q \in Request \ {r} : pc'[q] = pc[q] /\ call'[q] = call[q]
    BY <1>1, <1>2 DEF TypeOK
<1>9. call[r] = None
    BY <1>1, <1>2 DEF Good, Path
<1>10. Grows(r)
    <2>1. pc[r] \notin {"closing", "stamping", "failed"} /\ open \subseteq open'
        BY <1>2
    <2>2. \A q \in Request \ {r} : met[q] \subseteq met'[q]
        BY <1>4
    <2>. QED
        BY <1>2, <1>8, <1>9, <2>1, <2>2 DEF Grows
<1>11. Good(r)'
    <2>1. Path(r)'
        BY <1>1, <1>6, <1>8 DEF Path, Ops, OnAccounts
    <2>2. Making(r)'
        BY <1>1, <1>2, <1>6, <1>8 DEF Good, Making
    <2>3. Accepts(r)'
        BY <1>2, <1>5, <1>6, <1>8 DEF Accepts, Open, OnAccounts
    <2>4. Edits(r)' /\ Removes(r)'
        BY <1>5, <1>6, <1>8 DEF Edits, Removes, OnAccounts
    <2>. QED
        BY <2>1, <2>2, <2>3, <2>4 DEF Good
<1>12. \A q \in Request : Good(q)'
    BY <1>10, <1>11, OthersGood
<1>13. Met'
    <2>1. \A q \in InFlight' : q = r \/ q \in InFlight
        BY <1>8 DEF InFlight, Active
    <2>. QED
        BY <1>1, <1>3, <1>4, <2>1 DEF Met
<1>14. \A a \in Address : FromOpen(a)' /\ Left(a)'
    <2>1. \A a \in Address : users[a] = None => FromOpen(a)' /\ Left(a)'
        BY <1>2 DEF FromOpen, Left
    <2>. QED
        BY <1>10, <2>1, AccountKept
<1>15. \A i \in Invitation : Accepted(i)'
    BY <1>2 DEF IInv, Accepted
<1>. QED
    BY <1>7, <1>12, <1>13, <1>14, <1>15 DEF IInv

LEMMA ExpireKeeps ==
    ASSUME IInv, NEW i \in Invitation, Expire(i)
    PROVE  IInv'
<1>1. expired' = expired \cup {i}
      /\ UNCHANGED <<users, invites, gone, pc, call, copy, drafts, met, open, giver>>
    BY DEF Expire
<1>2. TypeOK'
    BY <1>1 DEF IInv, TypeOK
<1>3. ASSUME NEW r \in Request PROVE Good(r)'
    <2>1. Good(r)
        BY DEF IInv
    <2>2. Open(call[r].invite)' => Open(call[r].invite)
        BY <1>1 DEF Open
    <2>3. Accepts(r)'
        BY <1>1, <2>1, <2>2 DEF Good, Accepts
    <2>4. Path(r)' /\ Making(r)' /\ Edits(r)' /\ Removes(r)'
        BY <1>1, <2>1 DEF Good, Path, Making, Edits, Editing, Changes, Removes, Live
    <2>. QED
        BY <2>3, <2>4 DEF Good
<1>4. Met'
    BY <1>1 DEF IInv, Met, InFlight, Active
<1>5. \A a \in Address : FromOpen(a)' /\ Left(a)'
    BY <1>1 DEF IInv, FromOpen, Left, Accepting
<1>6. \A j \in Invitation : Accepted(j)'
    BY <1>1 DEF IInv, Accepted
<1>. QED
    BY <1>2, <1>3, <1>4, <1>5, <1>6 DEF IInv

LEMMA Inductive == IInv /\ [Next]_vars => IInv'
<1>. SUFFICES ASSUME IInv, [Next]_vars PROVE IInv'
    OBVIOUS
<1>1. CASE UNCHANGED vars
    BY <1>1 DEF vars, IInv, TypeOK, Good, Path, Making, Accepts, Open, Edits, Editing, Changes, Removes,
                Live, Met, InFlight, Active, FromOpen, Left, Accepting, Accepted
<1>2. ASSUME NEW r \in Request, NEW c \in Call, Arrive(r, c) PROVE IInv'
    BY <1>2, ArriveKeeps
<1>3. ASSUME NEW r \in Request, Step(r) PROVE IInv'
    BY <1>3, SeekKeeps, SaveInviteKeeps, LoadInviteKeeps, FindInviteKeeps, CreateUserKeeps,
       CompareInviteKeeps, CloseInviteKeeps, FindUserKeeps, LoadUsersKeeps,
       CompareUsersKeeps, SaveUsersKeeps, FindRoleKeeps DEF Step
<1>4. ASSUME NEW r \in Request, Abort(r) PROVE IInv'
    BY <1>4, FailStep DEF Abort
<1>5. ASSUME NEW i \in Invitation, Expire(i) PROVE IInv'
    BY <1>5, ExpireKeeps
<1>. QED
    BY <1>1, <1>2, <1>3, <1>4, <1>5 DEF Next

LEMMA Always == Spec => []IInv
  BY Initial, Inductive, PTL DEF Spec

----------------------------------------------------------------------------
\* Theorems

\* Accounts, invitations, roles and what requests hold keep their types.
THEOREM TypeCorrect == Spec => []TypeOK
<1>1. IInv => TypeOK
    BY DEF IInv
<1>. QED
    BY <1>1, Always, PTL

\* An account comes from an invitation to its address, accepted by a request that
\* arrived while it was open: acceptInvite looks at the invitation before all else.
THEOREM AccountsAreInvited == Spec => []AccountsFromOpenInvites
<1>1. IInv => AccountsFromOpenInvites
    BY DEF IInv, FromOpen, AccountsFromOpenInvites
<1>. QED
    BY <1>1, Always, PTL

\* An accepted invitation has its account, and an account whose invitation is pending
\* was left so by an acceptance between its two saves.
THEOREM InvitationsTell == Spec => []InviteTellsAccount
<1>1. IInv => InviteTellsAccount
    BY DEF IInv, Accepted, Left, InviteTellsAccount
<1>. QED
    BY <1>1, Always, PTL

\* Whoever has a role when it is removed was given it while the removal was served,
\* after its count or by a request that met it.
THEOREM RemovalsSeeUsers == Spec => RoleRemovalSeesUsers
<1>1. ASSUME IInv, [Next]_vars, NEW r \in Request,
             call[r] # None, call[r].op = "removeRole", pc'[r] = "done", pc[r] # "done",
             NEW a \in Address, Live(a), users[a].role = call[r].role
      PROVE  giver[a] \in met[r]
    <2>1. Good(r) /\ TypeOK
        BY <1>1 DEF IInv
    <2>2. pc[r] = "saving"
        <3>1. PICK q \in Request : Step(q) \/ Abort(q) \/ \E c \in Call : Arrive(q, c)
            BY <1>1 DEF Next, Expire, vars
        <3>2. CASE q # r
            BY <1>1, <2>1, <3>1, <3>2
               DEF Step, Seek, SaveInvite, LoadInvite, FindInvite, CreateUser, CompareInvite, CloseInvite,
                   FindUser, LoadUsers, CompareUsers, SaveUsers, FindRole, CountUsers, SaveRole, Abort, Arrive, Meeting,
                   Fail, Goto, TypeOK
        <3>3. CASE q = r
            <4>1. \A c : ~ Arrive(r, c)
                BY <1>1, <2>1 DEF Arrive, Meeting, Good, Path
            <4>2. ~ Abort(r)
                BY <1>1, <2>1 DEF Abort, Fail, Goto, TypeOK
            <4>3. /\ ~ Seek(r) /\ ~ SaveInvite(r) /\ ~ LoadInvite(r) /\ ~ FindInvite(r)
                  /\ ~ CreateUser(r) /\ ~ CompareInvite(r) /\ ~ CloseInvite(r) /\ ~ FindUser(r)
                  /\ ~ LoadUsers(r) /\ ~ CompareUsers(r) /\ ~ SaveUsers(r)
                BY <1>1, <2>1 DEF Seek, SaveInvite, LoadInvite, FindInvite, CreateUser,
                                  CompareInvite, CloseInvite, FindUser, LoadUsers, CompareUsers,
                                  SaveUsers, OnAccounts, Good, Path
            <4>4. ~ FindRole(r) /\ ~ CountUsers(r)
                BY <1>1, <2>1 DEF FindRole, CountUsers, Fail, Goto, TypeOK
            <4>. QED
                BY <3>1, <3>3, <4>1, <4>2, <4>3, <4>4 DEF Step, SaveRole
        <3>. QED
            BY <3>2, <3>3
    <2>. QED
        BY <1>1, <2>1, <2>2 DEF Good, Removes
<1>2. IInv /\ [Next]_vars =>
          [\A r \in Request :
              call[r] # None /\ call[r].op = "removeRole" /\ pc'[r] = "done" /\ pc[r] # "done" =>
                  \A a \in Address :
                      Live(a) /\ users[a].role = call[r].role => giver[a] \in met[r]]_vars
    BY <1>1
<1>. QED
    BY <1>2, Always, PTL DEF Spec, RoleRemovalSeesUsers

\* A removed account comes back only by a save that is about something else, one that had
\* read the row before an overlapping request saved it: findById refuses removed accounts,
\* dao.update does not.
THEOREM RemovedStayRemoved == Spec => RemovedComesBackByOverlap
<1>1. ASSUME IInv, [Next]_vars, NEW a \in Address,
             users[a] # None, users[a].deleted, Live(a)'
      PROVE  \E r, q \in Request :
                /\ r \in met[q] /\ Changes(r, a)
                /\ Changes(q, a) /\ call[q].op # "remove"
                /\ pc[q] = "saving" /\ pc'[q] = "done"
    <2>1. TypeOK
        BY <1>1 DEF IInv
    <2>2. users'[a] # users[a]
        BY <1>1 DEF Live
    <2>3. PICK q \in Request : SaveUsers(q)
        <3>1. \A r \in Request : CreateUser(r) => users'[a] = users[a]
            BY <1>1, <2>1 DEF CreateUser, Fail, TypeOK
        <3>. QED
            BY <2>2, <3>1, <1>1
               DEF Next, vars, Step, Seek, SaveInvite, LoadInvite, FindInvite, CompareInvite,
                   CloseInvite, FindUser, LoadUsers, CompareUsers, FindRole, CountUsers, SaveRole,
                   Abort, Arrive, Meeting, Expire, Fail
    <2>4. /\ pc[q] = "saving" /\ pc'[q] = "done" /\ call[q].op \in OnAccounts /\ Good(q)
          /\ users'[a] = IF a \in DOMAIN drafts[q]
                          THEN Merged(drafts[q][a].row, drafts[q][a].seen, users[a]) ELSE users[a]
        BY <1>1, <2>1, <2>3 DEF SaveUsers, Goto, TypeOK, IInv
    <2>5. /\ a \in DOMAIN drafts[q] /\ DOMAIN drafts[q] \subseteq Accounts(call[q])
          /\ Editing(q, a) /\ call[q] # None
        BY <2>2, <2>4, CallFields DEF Good, Edits, Path
    <2>6. /\ drafts[q][a].row \in AccountRow /\ drafts[q][a].seen \in AccountRow
          /\ users[a] \in AccountRow
        <3>1. drafts[q] \in Drafts
            BY <2>1 DEF TypeOK
        <3>2. PICK S \in SUBSET Address : drafts[q] \in [S -> Draft]
            BY <3>1 DEF Drafts
        <3>. QED
            BY <1>1, <2>1, <2>5, <3>2 DEF Draft, TypeOK
    <2>7. ~ drafts[q][a].row.deleted /\ drafts[q][a].seen.deleted
        BY <1>1, <2>4, <2>5, <2>6, MergedAccount DEF Live, Editing
    <2>8. PICK r \in met[q] : Changes(r, a)
        BY <1>1, <2>5, <2>7 DEF Editing
    <2>9. call[q].op # "remove" /\ r \in Request
        BY <2>1, <2>5, <2>7 DEF Editing, TypeOK
    <2>. QED
        BY <2>4, <2>5, <2>8, <2>9 DEF Changes
<1>2. IInv /\ [Next]_vars =>
          [\A a \in Address :
              users[a] # None /\ users[a].deleted /\ Live(a)' =>
                  \E r, q \in Request :
                      /\ r \in met[q] /\ Changes(r, a)
                      /\ Changes(q, a) /\ call[q].op # "remove"
                      /\ pc[q] = "saving" /\ pc'[q] = "done"]_vars
    BY <1>1
<1>. QED
    BY <1>2, Always, PTL DEF Spec, RemovedComesBackByOverlap

----------------------------------------------------------------------------
\* Treaties: what requests hold, where rows come from and what is left of the lists they replace

TreatyLabels == {"idle", "reading", "ensuring", "making", "building", "comparing",
                 "updating", "clearing", "deleting", "inserting", "linking",
                 "joining", "naming", "marking", "done", "failed"}

Writes == {"clearing", "deleting", "inserting"}

Drafting == {"building", "comparing", "updating"} \cup Writes

Holds == {"ensuring", "making", "linking", "joining", "naming", "marking"} \cup Drafting

\* Which operations reach a label, and what a request holds there.
TreatyPath(r) ==
    /\ pc[r] = "idle" => call[r] = None /\ met[r] = {}
    /\ pc[r] # "idle" => call[r] \in TreatyCall
    /\ pc[r] \in {"idle", "reading"} => local[r] = Nothing
    /\ pc[r] \in {"ensuring", "making", "clearing"} => call[r].op \in {"create", "amend"}
    /\ pc[r] = "building" => call[r].op = "create"
    /\ pc[r] \in {"deleting", "inserting"} => call[r].op = "amend" /\ local[r].todo # {}
    /\ pc[r] \in {"comparing", "updating"} => call[r].op # "create"
    /\ pc[r] \in {"linking", "joining", "naming"} => call[r].op = "join"
    /\ pc[r] = "marking" => call[r].op = "delete"
    /\ pc[r] \in Holds =>
          /\ local[r].copy \in Header
          /\ call[r].op # "create" => header # None
          /\ pc[r] \notin {"updating"} \cup Writes => local[r].cols = {}
          /\ pc[r] \notin Writes => local[r].dead = {}
          /\ Listing(r) /\ pc[r] \notin Writes => local[r].todo = DOMAIN Given(call[r])
    /\ pc[r] = "updating" => local[r].cols # {}
    /\ pc[r] \in Writes =>
          /\ local[r].todo \subseteq DOMAIN Given(call[r])
          /\ call[r].op = "create" =>
                header = None /\ local[r].todo = {} /\ local[r].cols = Column
    /\ lock = r <=> pc[r] \in Writes /\ local[r].cols # {}

TreatyMet ==
    /\ \A r, q \in InFlight : r # q => q \in met[r]
    /\ \A r, q \in Request : q \in met[r] => r \in met[q]

\* Where rows come from.
Sourced ==
    \A x \in rows : x.from # None =>
        /\ call[x.from] # None
        /\ IF Listing(x.from)
             THEN /\ pc[x.from] = "done"
                  /\ x.list = "companies" \/ x.list \in DOMAIN Given(call[x.from])
             ELSE call[x.from].op = "join" /\ x.list = "mgas"

Headless == header = None => \A x \in rows : x.list = "companies"

\* The lists a request has replaced or is replacing.
Swept(r) ==
    (DOMAIN Given(call[r]) \ local[r].todo)
    \cup (IF pc[r] \in {"deleting", "inserting"} THEN {Foremost(local[r].todo)} ELSE {})

Drafted(r) ==
    /\ pc[r] = "making" => \A x \in local[r].sought : x.list = "companies" /\ x.from = r
    /\ Listing(r) /\ pc[r] \in Drafting =>
          \A x \in local[r].fresh :
             /\ x.from = r
             /\ x.list # "companies" =>
                  x.list \in Swept(r) \cap DOMAIN Given(call[r]) /\ x \in Entries(call[r], x.list, r)
    /\ pc[r] \in Writes =>
          /\ \A k \in DOMAIN Given(call[r]) \ local[r].todo : Entries(call[r], k, r) \subseteq local[r].fresh
          /\ \A x \in local[r].dead : x.list \in Swept(r)
    /\ pc[r] = "deleting" => \A x \in local[r].sought : x.list = Foremost(local[r].todo)

\* What is left of the lists an amendment replaces is not older than it.
Cleared(r) ==
    pc[r] \in Writes /\ call[r].op = "amend" =>
        \A x \in rows :
            /\ x.list \in Swept(r) /\ x \notin local[r].dead
            /\ pc[r] = "deleting" => x \notin local[r].sought
            /\ x.from = None \/ Listing(x.from)
            =>
            /\ x.from \in met[r]
            /\ local[r].cols = {} \/ local[x.from].cols = {}

TreatyInv ==
    /\ TreatyTypeOK /\ TreatyMet /\ Sourced /\ Headless
    /\ \A r \in Request : TreatyPath(r) /\ Drafted(r) /\ Cleared(r)

\* Where a request differs from the header in what it was not asked for, it met one that
\* changed that.
Elsewhere(r) ==
    /\ pc[r] \in {"ensuring", "making", "comparing", "linking", "joining", "naming"}
          /\ call[r].op # "create" =>
          \A k \in Column \ Asked(call[r]) :
             local[r].copy[k] = header[k] \/ \E q \in met[r] : k \in local[q].cols
    /\ pc[r] \in {"updating"} \cup Writes /\ call[r].op # "create" =>
          \A k \in local[r].cols \ Asked(call[r]) : \E q \in met[r] : k \in local[q].cols

\* What HeaderInList makes an exception of.
Excused(k) ==
    \/ \E r \in Request : Listing(r) /\ Alone(call[r], k)
    \/ \E c \in Earlier \ {None} : Alone(c, k)
    \/ \E r \in Request : Writing(r, k) /\ \E q \in met[r] : k \in local[q].cols

\* A request that writes a list holds its first entry for the header; another holds what the
\* header says, unless one that writes the list came between; a joining MGA is in the list.
InHeader(r, k) ==
    /\ Listing(r) /\ pc[r] \in Holds /\ k \in DOMAIN Given(call[r]) =>
          local[r].copy[k] = IF Given(call[r])[k] = <<>> THEN None ELSE Given(call[r])[k][1]
    /\ call[r] # None /\ call[r].op = "create" /\ pc[r] \in Holds /\ k \notin DOMAIN Given(call[r]) =>
          local[r].copy[k] = None
    /\ pc[r] \in {"ensuring", "making", "comparing", "linking", "joining", "naming"}
          /\ call[r].op # "create" /\ ~ Writing(r, k) =>
          local[r].copy[k] = header[k] \/ \E q \in met[r] : Writing(q, k)
    /\ pc[r] \in {"updating"} \cup Writes /\ call[r].op # "create" /\ k \in local[r].cols => Writing(r, k)
    /\ pc[r] \in {"updating"} \cup Writes /\ call[r].op = "amend" /\ k \in DOMAIN Given(call[r]) \ local[r].cols =>
          header[k] = local[r].copy[k]
    /\ k = "mgas" /\ pc[r] \in {"naming", "comparing", "updating"} /\ call[r].op = "join" =>
          \/ call[r].mga \in Items("mgas")
          \/ \E q \in met[r] : Writing(q, "mgas")
    /\ k = "mgas" /\ pc[r] \in {"comparing", "updating"} /\ call[r].op = "join" =>
          local[r].copy["mgas"] = call[r].mga

\* The header's entry is in the list, and none where only MGAs that joined are.
HeaderFine(k) ==
    header # None =>
        /\ header[k] # None => header[k] \in Items(k)
        /\ header[k] = None =>
             \A x \in rows : x.list = k => x.from # None /\ call[x.from].op = "join"

HeaderInv ==
    \A k \in Headed : ~ Excused(k) => HeaderFine(k) /\ \A r \in Request : InHeader(r, k)

ElseInv == \A r \in Request : Elsewhere(r)

----------------------------------------------------------------------------
\* The operators of TreatyTerms

LEMMA ForemostIn ==
    ASSUME NEW lists \in SUBSET List, lists # {} PROVE Foremost(lists) \in lists
<1>1. \E k \in lists : \A l \in lists : Place[k] <= Place[l]
  <2>1. /\ Place["carriers"] = 1 /\ Place["reinsurers"] = 2 /\ Place["mgas"] = 3
        /\ Place["states"] = 4 /\ Place["lobs"] = 5
    BY DEF Place
  <2>2. \A l \in lists : l \in {"carriers", "reinsurers", "mgas", "states", "lobs"}
    BY DEF List
  <2> QED
    BY <2>1, <2>2
<1> QED
  BY <1>1 DEF Foremost

LEMMA SeqItems ==
    ASSUME NEW s \in Seq(Item)
    PROVE  /\ \A n \in DOMAIN s : s[n] \in Item
           /\ s # <<>> => 1 \in DOMAIN s
<1>1. \A n \in DOMAIN s : s[n] \in Item
  OBVIOUS
<1>2. s # <<>> => 1 \in DOMAIN s
  OBVIOUS
<1> QED
  BY <1>1, <1>2

LEMMA TermFields ==
    ASSUME NEW c, IsTerms(c)
    PROVE  /\ c.op \in {"create", "amend"} /\ c.user \in User /\ c.terms \in Terms \cup {None}
           /\ \A k \in DOMAIN c.heads : k \in Headed /\ c.heads[k] \in Item \cup {None}
           /\ DOMAIN c.lists \subseteq DOMAIN Given(c)
           /\ DOMAIN Given(c) \subseteq List
           /\ \A k \in DOMAIN Given(c) : Given(c)[k] \in Seq(Item)
           /\ c.op = "amend" => DOMAIN Given(c) = DOMAIN c.lists
<1>1. /\ c.op \in {"create", "amend"} /\ c.user \in User /\ c.terms \in Terms \cup {None}
      /\ \A k \in DOMAIN c.heads : k \in Headed /\ c.heads[k] \in Item \cup {None}
      /\ DOMAIN c.lists \subseteq List
      /\ \A k \in DOMAIN c.lists : c.lists[k] \in Seq(Item)
  BY DEF IsTerms
<1> DEFINE fill == IF c.op = "create"
                     THEN {k \in Filled \cap DOMAIN c.heads : c.heads[k] # None} ELSE {}
<1>2. /\ DOMAIN Given(c) = DOMAIN c.lists \cup fill
      /\ \A k \in DOMAIN Given(c) :
            Given(c)[k] = IF k \in DOMAIN c.lists THEN c.lists[k] ELSE <<c.heads[k]>>
  BY DEF Given
<1>3. fill \subseteq List
  BY DEF Filled, List
<1>4. ASSUME NEW k \in DOMAIN Given(c) PROVE Given(c)[k] \in Seq(Item)
  <2>1. CASE k \in DOMAIN c.lists
    BY <1>1, <1>2, <2>1
  <2>2. CASE k \notin DOMAIN c.lists
    <3>1. c.heads[k] \in Item
      BY <1>1, <1>2, <2>2
    <3>2. <<c.heads[k]>> \in Seq(Item)
      BY <3>1
    <3> QED
      BY <1>2, <2>2, <3>2
  <2> QED
    BY <2>1, <2>2
<1>5. c.op = "amend" => fill = {}
  OBVIOUS
<1> HIDE DEF fill
<1>6. DOMAIN Given(c) \subseteq List /\ DOMAIN c.lists \subseteq DOMAIN Given(c)
  BY <1>1, <1>2, <1>3
<1>7. c.op = "amend" => DOMAIN Given(c) = DOMAIN c.lists
  BY <1>2, <1>5
<1> QED
  BY <1>1, <1>4, <1>6, <1>7

LEMMA CallKinds ==
    ASSUME NEW c \in TreatyCall
    PROVE  /\ c # None /\ c.op \in {"create", "amend", "join", "delete"}
           /\ c.op \in {"create", "amend"} => IsTerms(c)
           /\ c.op = "create" => c.terms # None
           /\ c.op = "join" => c.user \in User /\ c.mga \in Item
<1>1. /\ c # None
      /\ \/ IsTerms(c)
         \/ c.op = "join" /\ c.user \in User /\ c.mga \in Item
         \/ c.op = "delete"
      /\ c.op = "create" => c.terms # None
  BY TreatyAssumption
<1> QED
  BY <1>1, TermFields

LEMMA Nones ==
    /\ None \notin Item /\ None \notin User /\ None \notin Terms /\ None \notin Request
    /\ None \notin TreatyCall /\ None \notin Header
BY TreatyAssumption

LEMMA HeaderAt ==
    ASSUME NEW h \in Header
    PROVE  /\ h = [k \in Column |-> h[k]]
           /\ \A k \in Headed : h[k] \in Item \cup {None}
           /\ h["terms"] \in Terms /\ h["by"] \in User /\ h["deleted"] \in BOOLEAN
<1>1. \A k \in Column : h[k] \in Values(k)
  BY DEF Header
<1>2. h = [k \in Column |-> h[k]]
  BY DEF Header
<1>3. ASSUME NEW k \in Headed PROVE h[k] \in Item \cup {None}
  BY <1>1 DEF Column, Values, Headed
<1>4. "terms" \in Column /\ "by" \in Column /\ "deleted" \in Column
  BY DEF Column
<1>5. "terms" \notin Headed /\ "by" \notin Headed /\ "deleted" \notin Headed
  BY DEF Headed
<1>6. Values("terms") = Terms /\ Values("by") = User /\ Values("deleted") = BOOLEAN
  BY <1>5 DEF Values
<1> QED
  BY <1>1, <1>2, <1>3, <1>4, <1>6

LEMMA IsHeader ==
    ASSUME NEW h, h = [k \in Column |-> h[k]],
           \A k \in Headed : h[k] \in Item \cup {None},
           h["terms"] \in Terms, h["by"] \in User, h["deleted"] \in BOOLEAN
    PROVE  h \in Header
<1>1. ASSUME NEW k \in Column PROVE h[k] \in Values(k)
  <2>1. k \in Headed \/ k = "terms" \/ k = "by" \/ k = "deleted"
    BY DEF Column
  <2>2. "terms" \notin Headed /\ "by" \notin Headed /\ "deleted" \notin Headed
    BY DEF Headed
  <2>3. /\ Values("terms") = Terms /\ Values("by") = User /\ Values("deleted") = BOOLEAN
        /\ k \in Headed => Values(k) = Item \cup {None}
    BY <2>2 DEF Values
  <2> QED
    BY <2>1, <2>3
<1>2. h \in [Column -> UNION {Values(k) : k \in Column}]
  BY <1>1
<1> QED
  BY <1>1, <1>2 DEF Header

LEMMA AmendedAt ==
    ASSUME NEW c, NEW h, IsTerms(c)
    PROVE  /\ Amended(c, h) = [k \in Column |-> Amended(c, h)[k]]
           /\ Amended(c, h)["by"] = c.user
           /\ Amended(c, h)["terms"] = IF c.terms = None THEN h["terms"] ELSE c.terms
           /\ Amended(c, h)["deleted"] = h["deleted"]
           /\ \A k \in Headed :
                 /\ k \in DOMAIN Given(c) /\ ~ Alone(c, k) =>
                       Amended(c, h)[k] = IF Given(c)[k] = <<>> THEN None ELSE Given(c)[k][1]
                 /\ Alone(c, k) => Amended(c, h)[k] = c.heads[k]
                 /\ k \notin DOMAIN Given(c) /\ ~ Alone(c, k) => Amended(c, h)[k] = h[k]
<1>1. /\ "by" \in Column /\ "terms" \in Column /\ "deleted" \in Column
      /\ \A k \in Headed : k \in Column
  BY DEF Column
<1>2. /\ "by" \notin List /\ "terms" \notin List /\ "deleted" \notin List
      /\ "by" \notin Headed /\ "terms" \notin Headed /\ "deleted" \notin Headed
  BY DEF List, Headed
<1>3. DOMAIN Given(c) \subseteq List /\ DOMAIN c.heads \subseteq Headed
  BY TermFields
<1>4. Amended(c, h)["by"] = c.user
  <2>1. "by" \notin DOMAIN Given(c) /\ "by" \notin DOMAIN c.heads /\ "by" # "terms"
    BY <1>2, <1>3
  <2> QED
    BY <1>1, <2>1 DEF Amended, Alone
<1>5. Amended(c, h)["terms"] = IF c.terms = None THEN h["terms"] ELSE c.terms
  <2>1. "terms" \notin DOMAIN Given(c) /\ "terms" \notin DOMAIN c.heads /\ "terms" # "by"
    BY <1>2, <1>3
  <2> QED
    BY <1>1, <2>1 DEF Amended, Alone
<1>6. Amended(c, h)["deleted"] = h["deleted"]
  <2>1. "deleted" \notin DOMAIN Given(c) /\ "deleted" \notin DOMAIN c.heads
    BY <1>2, <1>3
  <2>2. "deleted" # "by" /\ "deleted" # "terms"
    OBVIOUS
  <2> QED
    BY <1>1, <2>1, <2>2 DEF Amended, Alone
<1>7. ASSUME NEW k \in Headed
      PROVE  /\ k \in DOMAIN Given(c) /\ ~ Alone(c, k) =>
                   Amended(c, h)[k] = IF Given(c)[k] = <<>> THEN None ELSE Given(c)[k][1]
             /\ Alone(c, k) => Amended(c, h)[k] = c.heads[k]
             /\ k \notin DOMAIN Given(c) /\ ~ Alone(c, k) => Amended(c, h)[k] = h[k]
  <2>1. k \in Column /\ k # "by" /\ k # "terms"
    BY <1>1, <1>2
  <2>2. k \in DOMAIN Given(c) /\ ~ Alone(c, k) =>
           Amended(c, h)[k] = IF Given(c)[k] = <<>> THEN None ELSE Given(c)[k][1]
    BY <2>1 DEF Amended
  <2>3. Alone(c, k) => Amended(c, h)[k] = c.heads[k]
    BY <2>1 DEF Amended
  <2>4. ~ Alone(c, k) /\ k \notin DOMAIN Given(c) => Amended(c, h)[k] = h[k]
    BY <2>1 DEF Amended
  <2> QED
    BY <2>2, <2>3, <2>4
<1>8. Amended(c, h) = [k \in Column |-> Amended(c, h)[k]]
  BY DEF Amended
<1> QED
  BY <1>4, <1>5, <1>6, <1>7, <1>8

LEMMA BlankAt ==
    Blank["deleted"] = FALSE /\ \A k \in Headed : Blank[k] = None
BY DEF Blank, Column, Headed

LEMMA AmendedType ==
    ASSUME NEW c, NEW h, IsTerms(c), h \in Header \/ (h = Blank /\ c.terms # None)
    PROVE  Amended(c, h) \in Header
<1> DEFINE a == Amended(c, h)
<1>1. /\ c.user \in User /\ c.terms \in Terms \cup {None}
      /\ \A k \in DOMAIN c.heads : k \in Headed /\ c.heads[k] \in Item \cup {None}
      /\ \A k \in DOMAIN Given(c) : Given(c)[k] \in Seq(Item)
  BY TermFields
<1>2. /\ h["deleted"] \in BOOLEAN /\ \A k \in Headed : h[k] \in Item \cup {None}
      /\ c.terms # None \/ h["terms"] \in Terms
  BY HeaderAt, BlankAt
<1>3. a["by"] \in User /\ a["terms"] \in Terms /\ a["deleted"] \in BOOLEAN
  BY <1>1, <1>2, AmendedAt
<1>4. ASSUME NEW k \in Headed PROVE a[k] \in Item \cup {None}
  <2>1. CASE k \in DOMAIN Given(c) /\ ~ Alone(c, k)
    <3>1. Given(c)[k] # <<>> => Given(c)[k][1] \in Item
      BY <1>1, <2>1, SeqItems
    <3> QED
      BY <2>1, <3>1, AmendedAt
  <2>2. CASE Alone(c, k)
    <3>1. c.heads[k] \in Item \cup {None}
      BY <1>1, <2>2 DEF Alone
    <3> QED
      BY <2>2, <3>1, AmendedAt
  <2>3. CASE k \notin DOMAIN Given(c) /\ ~ Alone(c, k)
    BY <1>2, <2>3, AmendedAt
  <2> QED
    BY <2>1, <2>2, <2>3
<1>5. a = [k \in Column |-> a[k]]
  BY AmendedAt
<1> HIDE DEF a
<1>6. a \in Header
  BY <1>3, <1>4, <1>5, IsHeader
<1> QED
  BY <1>6 DEF a

LEMMA EntriesType ==
    ASSUME NEW c, IsTerms(c), NEW k \in DOMAIN Given(c), NEW r \in Request \cup {None}
    PROVE  /\ Entries(c, k, r) \subseteq Row
           /\ \A x \in Entries(c, k, r) : x.list = k /\ x.from = r /\ x.item \in Item
<1>1. Given(c)[k] \in Seq(Item) /\ k \in List
  BY TermFields
<1>2. \A n \in DOMAIN Given(c)[k] : Given(c)[k][n] \in Item
  BY <1>1, SeqItems
<1> QED
  BY <1>1, <1>2 DEF Entries, Row

LEMMA WrittenType ==
    ASSUME NEW r \in Request, local[r].copy \in Header,
           header \in Header \/ local[r].cols = Column
    PROVE  /\ Written(r) \in Header
           /\ \A k \in Column : Written(r)[k] = IF k \in local[r].cols THEN local[r].copy[k] ELSE header[k]
<1> DEFINE w == Written(r)
<1>1. /\ w = [k \in Column |-> w[k]]
      /\ \A k \in Column : w[k] = IF k \in local[r].cols THEN local[r].copy[k] ELSE header[k]
  BY DEF Written
<1>2. \A k \in Column : w[k] = local[r].copy[k] \/ (header \in Header /\ w[k] = header[k])
  BY <1>1
<1>3. Headed \subseteq Column /\ "terms" \in Column /\ "by" \in Column /\ "deleted" \in Column
  BY DEF Column
<1> HIDE DEF w
<1>4. /\ \A k \in Headed : w[k] \in Item \cup {None}
      /\ w["terms"] \in Terms /\ w["by"] \in User /\ w["deleted"] \in BOOLEAN
  BY <1>2, <1>3, HeaderAt
<1>5. w \in Header
  BY <1>1, <1>4, IsHeader
<1> QED
  BY <1>1, <1>5 DEF w

----------------------------------------------------------------------------
\* What each step does

\* What a step of r leaves to the others; what is left of a request rolled back.
TreatyFrame(r) ==
    /\ call' = call /\ met' = met
    /\ pc' = [q \in Request |-> pc'[q]] /\ local' = [q \in Request |-> local'[q]]
    /\ \A q \in Request \ {r} : pc'[q] = pc[q] /\ local'[q] = local[q]

Rolled(r) ==
    /\ TreatyFrame(r) /\ pc'[r] = "failed" /\ header' = header /\ rows' = rows
    /\ lock' = IF lock = r THEN None ELSE lock
    /\ local'[r] = [local[r] EXCEPT !.sought = {}, !.dead = {}, !.fresh = {}]

\* A step that leaves what others see.
Inward(r, label, held) ==
    /\ TreatyFrame(r) /\ header' = header /\ rows' = rows /\ lock' = lock
    /\ pc'[r] = label /\ local'[r] = held

LEMMA Goes ==
    ASSUME TreatyTypeOK, NEW r \in Request, NEW label, Goto(r, label)
    PROVE  /\ pc'[r] = label /\ \A q \in Request \ {r} : pc'[q] = pc[q]
           /\ pc' = [q \in Request |-> pc'[q]]
BY DEF TreatyTypeOK, Goto

LEMMA HoldsNow ==
    ASSUME TreatyTypeOK, NEW r \in Request, NEW held, Hold(r, held)
    PROVE  /\ local'[r] = held /\ \A q \in Request \ {r} : local'[q] = local[q]
           /\ local' = [q \in Request |-> local'[q]]
BY DEF TreatyTypeOK, Hold

LEMMA RollsBack ==
    ASSUME TreatyTypeOK, NEW r \in Request, Rollback(r) PROVE Rolled(r)
<1> DEFINE held == [local[r] EXCEPT !.sought = {}, !.dead = {}, !.fresh = {}]
<1>1. /\ Goto(r, "failed") /\ Hold(r, held) /\ UNCHANGED <<header, rows, call, met>>
      /\ lock' = IF lock = r THEN None ELSE lock
  BY DEF Rollback
<1>2. /\ local'[r] = held /\ \A q \in Request \ {r} : local'[q] = local[q]
      /\ local' = [q \in Request |-> local'[q]]
  BY <1>1, HoldsNow
<1> QED
  BY <1>1, <1>2, Goes DEF Rolled, TreatyFrame

LEMMA GoesInward ==
    ASSUME TreatyTypeOK, NEW r \in Request, NEW label, NEW held, Goto(r, label), Hold(r, held), Private
    PROVE  Inward(r, label, held)
BY Goes, HoldsNow DEF Private, Inward, TreatyFrame

LEMMA StaysInward ==
    ASSUME TreatyTypeOK, NEW r \in Request, NEW label, Goto(r, label), local' = local, Private
    PROVE  Inward(r, label, local[r])
<1>1. local = [q \in Request |-> local[q]]
  BY DEF TreatyTypeOK
<1> QED
  BY <1>1, Goes DEF Private, Inward, TreatyFrame

LEMMA ReadStep ==
    ASSUME TreatyTypeOK, NEW r \in Request, Read(r)
    PROVE  /\ pc[r] = "reading" /\ call[r].op \in {"create", "amend"}
           /\ \/ Rolled(r)
              \/ /\ header = None <=> call[r].op = "create"
                 /\ Inward(r, "ensuring", [local[r] EXCEPT
                       !.copy = Amended(call[r], IF header = None THEN Blank ELSE header),
                       !.todo = DOMAIN Given(call[r])])
<1>1. CASE (header = None) = (call[r].op = "create")
  BY <1>1, GoesInward DEF Read
<1>2. CASE ~ ((header = None) = (call[r].op = "create"))
  BY <1>2, RollsBack DEF Read
<1> QED
  BY <1>1, <1>2

LEMMA EnsureStep ==
    ASSUME TreatyTypeOK, NEW r \in Request, Ensure(r)
    PROVE  /\ pc[r] = "ensuring"
           /\ \/ Rolled(r)
              \/ Inward(r, "making", [local[r] EXCEPT
                    !.sought = {[list |-> "companies", item |-> i, from |-> r] : i \in Missing(r)}])
<1>1. CASE Missing(r) \subseteq RiskCompany
  BY <1>1, GoesInward DEF Ensure
<1>2. CASE ~ (Missing(r) \subseteq RiskCompany)
  BY <1>2, RollsBack DEF Ensure
<1> QED
  BY <1>1, <1>2 DEF Ensure

LEMMA MakeStep ==
    ASSUME TreatyTypeOK, NEW r \in Request, Make(r)
    PROVE  /\ pc[r] = "making"
           /\ \/ Rolled(r)
              \/ Inward(r, IF call[r].op = "create" THEN "building" ELSE "comparing",
                        [local[r] EXCEPT !.fresh = local[r].sought, !.sought = {}])
<1>1. CASE ~ Taken(r, local[r].sought)
  BY <1>1, GoesInward DEF Make
<1>2. CASE Taken(r, local[r].sought)
  BY <1>2, RollsBack DEF Make
<1> QED
  BY <1>1, <1>2 DEF Make

LEMMA BuildStep ==
    ASSUME TreatyTypeOK, NEW r \in Request, Build(r)
    PROVE  /\ pc[r] = "building" /\ lock = None
           /\ \/ Rolled(r)
              \/ /\ header = None /\ TreatyFrame(r) /\ header' = header /\ rows' = rows /\ lock' = r
                 /\ pc'[r] = "clearing"
                 /\ local'[r] = [local[r] EXCEPT !.cols = Column, !.todo = {}, !.fresh =
                       local[r].fresh \cup UNION {Entries(call[r], k, r) : k \in DOMAIN Given(call[r])}]
<1>1. CASE header = None
  <2>1. local[r] \in Locals
    BY DEF TreatyTypeOK
  <2> DEFINE held == [local[r] EXCEPT !.cols = Column, !.todo = {}, !.fresh =
                 local[r].fresh \cup UNION {Entries(call[r], k, r) : k \in DOMAIN Given(call[r])}]
  <2>2. Hold(r, held) /\ Goto(r, "clearing") /\ UNCHANGED <<header, rows, call, met>> /\ lock' = r
    BY <1>1, <2>1 DEF Build, Locals
  <2>3. /\ local'[r] = held /\ \A q \in Request \ {r} : local'[q] = local[q]
        /\ local' = [q \in Request |-> local'[q]]
    BY <2>2, HoldsNow
  <2>4. /\ pc'[r] = "clearing" /\ \A q \in Request \ {r} : pc'[q] = pc[q]
        /\ pc' = [q \in Request |-> pc'[q]]
    BY <2>2, Goes
  <2> QED
    BY <1>1, <2>2, <2>3, <2>4 DEF Build, TreatyFrame
<1>2. CASE header # None
  BY <1>2, RollsBack DEF Build
<1> QED
  BY <1>1, <1>2 DEF Build

LEMMA CompareStep ==
    ASSUME TreatyTypeOK, NEW r \in Request, Compare(r)
    PROVE  /\ pc[r] = "comparing"
           /\ \E cols \in SUBSET Column :
                 /\ cols = {k \in Column : local[r].copy[k] # header[k]}
                 /\ Inward(r, IF cols # {} THEN "updating"
                              ELSE IF call[r].op = "amend" THEN "clearing" ELSE "done",
                           [local[r] EXCEPT !.cols = cols])
<1> DEFINE differ == {k \in Column : local[r].copy[k] # header[k]}
<1>1. /\ pc[r] = "comparing"
      /\ Hold(r, [local[r] EXCEPT !.cols = differ])
      /\ Goto(r, CASE differ # {} -> "updating"
                   [] differ = {} /\ call[r].op = "amend" -> "clearing"
                   [] OTHER -> "done")
      /\ Private
  BY DEF Compare
<1> HIDE DEF differ
<1>2. (CASE differ # {} -> "updating"
         [] differ = {} /\ call[r].op = "amend" -> "clearing"
         [] OTHER -> "done")
      = IF differ # {} THEN "updating" ELSE IF call[r].op = "amend" THEN "clearing" ELSE "done"
  OBVIOUS
<1>3. Goto(r, IF differ # {} THEN "updating" ELSE IF call[r].op = "amend" THEN "clearing" ELSE "done")
  BY <1>1, <1>2, Zenon
<1>4. Inward(r, IF differ # {} THEN "updating" ELSE IF call[r].op = "amend" THEN "clearing" ELSE "done",
             [local[r] EXCEPT !.cols = differ])
  BY <1>1, <1>3, GoesInward
<1>5. differ = {k \in Column : local[r].copy[k] # header[k]}
  BY DEF differ
<1> QED
  BY <1>1, <1>4, <1>5

LEMMA UpdateStep ==
    ASSUME TreatyTypeOK, NEW r \in Request, Update(r)
    PROVE  /\ pc[r] = "updating" /\ lock = None /\ TreatyFrame(r) /\ rows' = rows
           /\ local'[r] = local[r]
           /\ IF call[r].op = "amend"
                THEN pc'[r] = "clearing" /\ lock' = r /\ header' = header
                ELSE pc'[r] = "done" /\ lock' = lock /\ header' = Written(r)
<1>0. local = [q \in Request |-> local[q]]
  BY DEF TreatyTypeOK
<1>1. CASE call[r].op = "amend"
  BY <1>0, <1>1, Goes DEF Update, TreatyFrame
<1>2. CASE call[r].op # "amend"
  BY <1>0, <1>2, Goes DEF Update, TreatyFrame
<1> QED
  BY <1>1, <1>2

LEMMA SearchStep ==
    ASSUME TreatyTypeOK, NEW r \in Request, Search(r)
    PROVE  /\ pc[r] = "clearing" /\ local[r].todo # {}
           /\ Inward(r, "deleting", [local[r] EXCEPT
                 !.sought = {x \in rows : x.list = Foremost(local[r].todo)}])
BY GoesInward DEF Search

LEMMA DeleteStep ==
    ASSUME TreatyTypeOK, NEW r \in Request, Delete(r)
    PROVE  /\ pc[r] = "deleting"
           /\ Inward(r, "inserting", [local[r] EXCEPT
                 !.dead = local[r].dead \cup (local[r].sought \cap rows), !.sought = {}])
<1>1. local[r] \in Locals
  BY DEF TreatyTypeOK
<1>2. Hold(r, [local[r] EXCEPT !.dead = local[r].dead \cup (local[r].sought \cap rows), !.sought = {}])
  BY <1>1 DEF Delete, Locals
<1> QED
  BY <1>2, GoesInward DEF Delete

LEMMA InsertStep ==
    ASSUME TreatyTypeOK, NEW r \in Request, Insert(r)
    PROVE  /\ pc[r] = "inserting"
           /\ \/ Rolled(r)
              \/ Inward(r, "clearing", [local[r] EXCEPT
                    !.fresh = local[r].fresh \cup Entries(call[r], Foremost(local[r].todo), r),
                    !.todo = local[r].todo \ {Foremost(local[r].todo)}])
<1> DEFINE list == Foremost(local[r].todo)
           new == Entries(call[r], list, r)
<1>1. CASE ~ Taken(r, new)
  <2>1. local[r] \in Locals
    BY DEF TreatyTypeOK
  <2>2. Hold(r, [local[r] EXCEPT !.fresh = local[r].fresh \cup new, !.todo = local[r].todo \ {list}])
    BY <1>1, <2>1 DEF Insert, Locals
  <2> QED
    BY <1>1, <2>2, GoesInward DEF Insert
<1>2. CASE Taken(r, new)
  BY <1>2, RollsBack DEF Insert
<1> QED
  BY <1>1, <1>2 DEF Insert

LEMMA CommitStep ==
    ASSUME TreatyTypeOK, NEW r \in Request, Commit(r)
    PROVE  /\ pc[r] = "clearing" /\ local[r].todo = {} /\ TreatyFrame(r) /\ pc'[r] = "done"
           /\ rows' = (rows \ local[r].dead) \cup local[r].fresh
           /\ header' = IF lock = r THEN Written(r) ELSE header
           /\ lock' = IF lock = r THEN None ELSE lock
           /\ local'[r] = [local[r] EXCEPT !.dead = {}, !.fresh = {}]
BY Goes, HoldsNow DEF Commit, TreatyFrame

LEMMA FindStep ==
    ASSUME TreatyTypeOK, NEW r \in Request, Find(r)
    PROVE  /\ pc[r] = "reading" /\ call[r].op \in {"join", "delete"}
           /\ \/ Rolled(r)
              \/ /\ header # None
                 /\ Inward(r, IF call[r].op = "join" THEN "linking" ELSE "marking",
                           [local[r] EXCEPT !.copy = header])
<1>1. CASE header # None
  BY <1>1, GoesInward DEF Find
<1>2. CASE header = None
  BY <1>2, RollsBack DEF Find
<1> QED
  BY <1>1, <1>2 DEF Find

LEMMA LinkedStep ==
    ASSUME TreatyTypeOK, NEW r \in Request, Linked(r)
    PROVE  /\ pc[r] = "linking"
           /\ \/ Inward(r, "naming", local[r]) /\ \E x \in rows : Alike(x, Link(r))
              \/ Inward(r, "joining", local[r])
<1>1. CASE \E x \in rows : Alike(x, Link(r))
  <2>1. Goto(r, "naming") /\ local' = local /\ Private
    BY <1>1 DEF Linked
  <2> QED
    BY <1>1, <2>1, StaysInward DEF Linked
<1>2. CASE ~ \E x \in rows : Alike(x, Link(r))
  <2>1. Goto(r, "joining") /\ local' = local /\ Private
    BY <1>2 DEF Linked
  <2> QED
    BY <2>1, StaysInward DEF Linked
<1> QED
  BY <1>1, <1>2

LEMMA JoinStep ==
    ASSUME TreatyTypeOK, NEW r \in Request, Join(r)
    PROVE  /\ pc[r] = "joining"
           /\ \/ Rolled(r)
              \/ /\ TreatyFrame(r) /\ header' = header /\ lock' = lock /\ local'[r] = local[r]
                 /\ pc'[r] = "naming" /\ rows' = rows \cup {Link(r)}
<1>0. local = [q \in Request |-> local[q]]
  BY DEF TreatyTypeOK
<1>1. CASE ~ Taken(r, {Link(r)})
  BY <1>0, <1>1, Goes DEF Join, TreatyFrame
<1>2. CASE Taken(r, {Link(r)})
  BY <1>2, RollsBack DEF Join
<1> QED
  BY <1>1, <1>2 DEF Join

LEMMA NameStep ==
    ASSUME TreatyTypeOK, NEW r \in Request, Name(r)
    PROVE  /\ pc[r] = "naming"
           /\ \/ Inward(r, "done", local[r])
              \/ /\ local[r].copy["mgas"] = None
                 /\ Inward(r, "comparing", [local[r] EXCEPT !.copy =
                       [local[r].copy EXCEPT !["mgas"] = call[r].mga, !["by"] = call[r].user]])
<1>1. CASE local[r].copy["mgas"] # None
  <2>1. Goto(r, "done") /\ local' = local /\ Private
    BY <1>1 DEF Name
  <2> QED
    BY <2>1, StaysInward DEF Name
<1>2. CASE local[r].copy["mgas"] = None
  <2>1. local[r] \in Locals
    BY DEF TreatyTypeOK
  <2>2. Hold(r, [local[r] EXCEPT !.copy["mgas"] = call[r].mga, !.copy["by"] = call[r].user])
        /\ Goto(r, "comparing") /\ Private /\ pc[r] = "naming"
    BY <1>2 DEF Name
  <2>3. [local[r] EXCEPT !.copy["mgas"] = call[r].mga, !.copy["by"] = call[r].user]
        = [local[r] EXCEPT !.copy =
              [local[r].copy EXCEPT !["mgas"] = call[r].mga, !["by"] = call[r].user]]
    BY <2>1 DEF Locals
  <2>4. Hold(r, [local[r] EXCEPT !.copy =
              [local[r].copy EXCEPT !["mgas"] = call[r].mga, !["by"] = call[r].user]])
    BY <2>2, <2>3, Zenon
  <2> QED
    BY <1>2, <2>2, <2>4, GoesInward
<1> QED
  BY <1>1, <1>2

LEMMA MarkStep ==
    ASSUME TreatyTypeOK, NEW r \in Request, Mark(r)
    PROVE  /\ pc[r] = "marking"
           /\ Inward(r, "comparing", [local[r] EXCEPT !.copy = [header EXCEPT !["deleted"] = TRUE]])
BY GoesInward DEF Mark

----------------------------------------------------------------------------
\* What a step leaves to the others

\* What a step of r may do to what the others rely on.
Meek(r) ==
    /\ TreatyFrame(r) /\ r \in InFlight /\ pc'[r] # "idle"
    /\ header # None => header' # None
    /\ \A q \in Request \ {r} : (lock' = q <=> lock = q) /\ (header' # header => lock # q)
    /\ \A x \in rows' \ rows :
          /\ x.from = r
          /\ Listing(r) => local'[r].cols = local[r].cols /\ (local[r].cols = {} \/ lock = r)

LEMMA InwardIsMeek ==
    ASSUME NEW r \in InFlight, NEW label, NEW held, Inward(r, label, held), label # "idle"
    PROVE  Meek(r)
BY DEF Inward, Meek

LEMMA RolledIsMeek ==
    ASSUME NEW r \in InFlight, Rolled(r) PROVE Meek(r)
<1>1. r # None
  BY Nones DEF InFlight
<1> QED
  BY <1>1, Nones DEF Rolled, Meek

LEMMA OthersPath ==
    ASSUME TreatyInv, NEW r \in Request, Meek(r), NEW q \in Request \ {r}
    PROVE  TreatyPath(q)'
<1>1. TreatyPath(q)
  BY DEF TreatyInv
<1>2. /\ call' = call /\ met' = met /\ pc'[q] = pc[q] /\ local'[q] = local[q]
      /\ header # None => header' # None
      /\ (lock' = q <=> lock = q) /\ (header' # header => lock # q)
  BY DEF Meek, TreatyFrame
<1>3. Column # {}
  BY DEF Column
<1>4. pc[q] \in Writes /\ call[q].op = "create" => header' = None
  BY <1>1, <1>2, <1>3 DEF TreatyPath
<1>5. Listing(q)' = Listing(q)
  BY <1>2 DEF Listing
<1> QED
  BY <1>1, <1>2, <1>4, <1>5 DEF TreatyPath

LEMMA OthersDrafts ==
    ASSUME TreatyInv, NEW r \in Request, Meek(r), NEW q \in Request \ {r}
    PROVE  Drafted(q)'
<1>1. Drafted(q)
  BY DEF TreatyInv
<1>2. /\ call' = call /\ met' = met /\ pc'[q] = pc[q] /\ local'[q] = local[q]
  BY DEF Meek, TreatyFrame
<1>3. Listing(q)' = Listing(q) /\ Swept(q)' = Swept(q)
  BY <1>2 DEF Listing, Swept
<1> QED
  BY <1>1, <1>2, <1>3 DEF Drafted

LEMMA OthersCleared ==
    ASSUME TreatyInv, NEW r \in Request, Meek(r), NEW q \in Request \ {r}
    PROVE  Cleared(q)'
<1>1. Cleared(q) /\ TreatyPath(q) /\ Sourced /\ TreatyMet
  BY DEF TreatyInv
<1>2. /\ call' = call /\ met' = met /\ pc'[q] = pc[q] /\ local'[q] = local[q]
      /\ \A p \in Request \ {r} : local'[p] = local[p]
  BY DEF Meek, TreatyFrame
<1>3. \A p : Listing(p)' = Listing(p)
  BY <1>2 DEF Listing
<1>4. Swept(q)' = Swept(q)
  BY <1>2 DEF Swept
<1> SUFFICES ASSUME pc[q] \in Writes, call[q].op = "amend", NEW x \in rows',
                    x.list \in Swept(q), x \notin local[q].dead,
                    pc[q] = "deleting" => x \notin local[q].sought,
                    x.from = None \/ Listing(x.from)
             PROVE  x.from \in met[q] /\ (local[q].cols = {} \/ local'[x.from].cols = {})
  BY <1>2, <1>3, <1>4 DEF Cleared
<1>5. CASE x \in rows
  <2>1. x.from \in met[q] /\ (local[q].cols = {} \/ local[x.from].cols = {})
    BY <1>1, <1>5 DEF Cleared
  <2>2. x.from \in Request
    BY <2>1 DEF TreatyInv, TreatyTypeOK
  <2>3. x.from # r
    <3>1. ASSUME x.from = r PROVE FALSE
      <4>1. x.from # None /\ Listing(x.from)
        BY <2>2, Nones
      <4>2. pc[r] = "done"
        BY <1>1, <1>5, <3>1, <4>1 DEF Sourced
      <4> QED
        BY <4>2 DEF Meek, InFlight, Active
    <3> QED
      BY <3>1
  <2> QED
    BY <1>2, <2>1, <2>2, <2>3
<1>6. CASE x \notin rows
  <2>1. /\ x.from = r /\ r # None
        /\ Listing(r) => local'[r].cols = local[r].cols /\ (local[r].cols = {} \/ lock = r)
    BY <1>6, Nones DEF Meek
  <2>2. Listing(r)
    BY <2>1
  <2>3. r \in InFlight /\ q \in InFlight
    BY DEF Meek, InFlight, Active, Writes
  <2>4. r \in met[q]
    BY <1>1, <2>3 DEF TreatyMet
  <2>5. lock = q \/ local[q].cols = {}
    BY <1>1 DEF TreatyPath
  <2> QED
    BY <2>1, <2>2, <2>4, <2>5
<1> QED
  BY <1>5, <1>6

LEMMA MetStays ==
    ASSUME TreatyInv, NEW r \in Request, Meek(r)
    PROVE  TreatyMet'
<1>1. met' = met /\ r \in InFlight /\ \A q \in Request \ {r} : pc'[q] = pc[q]
  BY DEF Meek, TreatyFrame
<1>2. InFlight' \subseteq InFlight
  BY <1>1 DEF InFlight, Active
<1> QED
  BY <1>1, <1>2 DEF TreatyInv, TreatyMet

\* A step of a request keeps the invariant when it keeps what is its own.
LEMMA StepKeeps ==
    ASSUME TreatyInv, NEW r \in Request, Meek(r),
           header' \in Header \cup {None}, rows' \in SUBSET Row, lock' \in Request \cup {None},
           pc'[r] \in TreatyLabels, local'[r] \in Locals,
           TreatyPath(r)', Drafted(r)', Cleared(r)', Sourced', Headless'
    PROVE  TreatyInv'
<1>1. TreatyTypeOK'
  <2>1. /\ call' = call /\ met' = met
        /\ pc' = [q \in Request |-> pc'[q]] /\ local' = [q \in Request |-> local'[q]]
        /\ \A q \in Request \ {r} : pc'[q] = pc[q] /\ local'[q] = local[q]
    BY DEF Meek, TreatyFrame
  <2>2. /\ pc \in [Request -> TreatyLabels] /\ local \in [Request -> Locals]
        /\ call \in [Request -> TreatyCall \cup {None}] /\ met \in [Request -> SUBSET Request]
    BY DEF TreatyInv, TreatyTypeOK, TreatyLabels
  <2>3. pc' \in [Request -> TreatyLabels]
    <3>1. \A q \in Request : pc'[q] \in TreatyLabels
      BY <2>1, <2>2
    <3> QED
      BY <2>1, <3>1
  <2>4. local' \in [Request -> Locals]
    <3>1. \A q \in Request : local'[q] \in Locals
      BY <2>1, <2>2
    <3> QED
      BY <2>1, <3>1
  <2> QED
    BY <2>1, <2>2, <2>3, <2>4 DEF TreatyTypeOK, TreatyLabels
<1>2. \A q \in Request : TreatyPath(q)' /\ Drafted(q)' /\ Cleared(q)'
  BY OthersPath, OthersDrafts, OthersCleared
<1>3. TreatyMet'
  BY MetStays
<1> QED
  BY <1>1, <1>2, <1>3 DEF TreatyInv

----------------------------------------------------------------------------
\* The inductive invariant, action by action

LEMMA LocalFacts ==
    ASSUME TreatyInv, NEW r \in Request
    PROVE  /\ local[r] \in Locals /\ local[r].copy \in Header \cup {None}
           /\ local[r].cols \in SUBSET Column /\ local[r].todo \in SUBSET List
           /\ local[r].sought \in SUBSET Row /\ local[r].dead \in SUBSET Row
           /\ local[r].fresh \in SUBSET Row
           /\ TreatyPath(r) /\ Drafted(r) /\ Cleared(r)
           /\ pc[r] \in TreatyLabels /\ lock \in Request \cup {None} /\ header \in Header \cup {None}
           /\ rows \in SUBSET Row /\ Sourced /\ Headless
           /\ r # None
<1>1. local[r] \in Locals
  BY DEF TreatyInv, TreatyTypeOK
<1>2. TreatyPath(r) /\ Drafted(r) /\ Cleared(r)
  BY DEF TreatyInv
<1>3. /\ local[r].copy \in Header \cup {None} /\ local[r].cols \in SUBSET Column
      /\ local[r].todo \in SUBSET List /\ local[r].sought \in SUBSET Row
      /\ local[r].dead \in SUBSET Row /\ local[r].fresh \in SUBSET Row
  BY <1>1 DEF Locals
<1> QED
  BY <1>1, <1>2, <1>3, Nones DEF TreatyInv, TreatyTypeOK, TreatyLabels

\* Where rows come from does not change while they stay.
LEMMA SourcedStays ==
    ASSUME TreatyInv, NEW r \in InFlight, TreatyFrame(r), rows' = rows,
           header' = None => header = None
    PROVE  Sourced' /\ Headless'
<1>1. /\ call' = call /\ \A q \in Request \ {r} : pc'[q] = pc[q]
  BY DEF TreatyFrame
<1>2. \A q : Listing(q)' = Listing(q)
  BY <1>1 DEF Listing
<1>3. Sourced /\ Headless /\ rows \in SUBSET Row
  BY DEF TreatyInv, TreatyTypeOK
<1>4. ASSUME NEW x \in rows, x.from # None, Listing(x.from) PROVE pc'[x.from] = "done"
  <2>1. pc[x.from] = "done"
    BY <1>3, <1>4 DEF Sourced
  <2>2. x.from # r
    BY <2>1 DEF InFlight, Active
  <2>3. x.from \in Request
    BY <1>3, <1>4 DEF Row
  <2> QED
    BY <1>1, <2>1, <2>2, <2>3
<1>5. Sourced'
  BY <1>1, <1>2, <1>3, <1>4 DEF Sourced
<1> QED
  BY <1>3, <1>5 DEF Headless

LEMMA InwardKeeps ==
    ASSUME TreatyInv, NEW r \in InFlight, NEW label \in TreatyLabels \ {"idle"}, NEW held \in Locals,
           Inward(r, label, held), TreatyPath(r)', Drafted(r)', Cleared(r)'
    PROVE  TreatyInv'
<1>1. r \in Request
  BY DEF InFlight
<1>2. Meek(r)
  BY InwardIsMeek
<1>3. Sourced' /\ Headless'
  BY SourcedStays DEF Inward
<1>4. /\ header' \in Header \cup {None} /\ rows' \in SUBSET Row /\ lock' \in Request \cup {None}
      /\ pc'[r] \in TreatyLabels /\ local'[r] \in Locals
  BY <1>1, LocalFacts DEF Inward
<1> QED
  BY <1>1, <1>2, <1>3, <1>4, StepKeeps

LEMMA RolledKeeps ==
    ASSUME TreatyInv, NEW r \in InFlight, Rolled(r)
    PROVE  TreatyInv'
<1>1. r \in Request
  BY DEF InFlight
<1>2. Meek(r)
  BY RolledIsMeek
<1>3. Sourced' /\ Headless'
  BY SourcedStays DEF Rolled
<1>4. /\ header' = header /\ rows' = rows /\ pc'[r] = "failed" /\ call' = call
      /\ lock' = IF lock = r THEN None ELSE lock
      /\ local'[r] = [local[r] EXCEPT !.sought = {}, !.dead = {}, !.fresh = {}]
  BY DEF Rolled, TreatyFrame
<1>5. local'[r] \in Locals
  BY <1>1, <1>4, LocalFacts DEF Locals
<1>6. /\ header' \in Header \cup {None} /\ rows' \in SUBSET Row /\ lock' \in Request \cup {None}
      /\ pc'[r] \in TreatyLabels
  BY <1>1, <1>4, LocalFacts DEF TreatyLabels
<1>7. call[r] \in TreatyCall
  BY <1>1, LocalFacts DEF TreatyPath, InFlight, Active
<1>8. lock' # r
  BY <1>1, <1>4, LocalFacts
<1>9. TreatyPath(r)'
  BY <1>4, <1>7, <1>8 DEF TreatyPath, Holds, Writes, Drafting
<1>10. Drafted(r)' /\ Cleared(r)'
  BY <1>4 DEF Drafted, Cleared, Writes, Drafting
<1> QED
  BY <1>1, <1>2, <1>3, <1>5, <1>6, <1>9, <1>10, StepKeeps

\* A step to where nothing is drafted.
LEMMA EarlyDrafts ==
    ASSUME NEW r, pc'[r] \notin Drafting \cup {"making"}
    PROVE  Drafted(r)' /\ Cleared(r)'
BY DEF Drafted, Cleared, Drafting, Writes

LEMMA ReadKeeps ==
    ASSUME TreatyInv, NEW r \in Request, Read(r) PROVE TreatyInv'
<1>0. TreatyTypeOK
  BY DEF TreatyInv
<1>1. pc[r] = "reading" /\ call[r].op \in {"create", "amend"}
  BY <1>0, ReadStep
<1>2. r \in InFlight
  BY <1>1 DEF InFlight, Active
<1>3. CASE Rolled(r)
  BY <1>2, <1>3, RolledKeeps
<1> DEFINE copied == Amended(call[r], IF header = None THEN Blank ELSE header)
           held == [local[r] EXCEPT !.copy = copied, !.todo = DOMAIN Given(call[r])]
<1>4. CASE (header = None <=> call[r].op = "create") /\ Inward(r, "ensuring", held)
  <2>1. local[r] = Nothing /\ call[r] \in TreatyCall /\ lock # r /\ local[r] \in Locals /\ TreatyPath(r)
    BY <1>1, LocalFacts DEF TreatyPath, Writes
  <2>2. IsTerms(call[r]) /\ (call[r].op = "create" => call[r].terms # None)
    BY <1>1, <2>1, CallKinds
  <2>3. copied \in Header
    <3>1. CASE header = None
      BY <1>4, <2>2, <3>1, AmendedType
    <3>2. CASE header # None
      <4>1. header \in Header
        BY <3>2, LocalFacts
      <4> QED
        BY <2>2, <3>2, <4>1, AmendedType
    <3> QED
      BY <3>1, <3>2
  <2> HIDE DEF copied
  <2>4. DOMAIN Given(call[r]) \subseteq List
    BY <2>2, TermFields
  <2>5. held \in Locals
    BY <2>1, <2>3, <2>4 DEF Locals
  <2>6. /\ held.copy = copied /\ held.cols = {} /\ held.dead = {}
        /\ held.todo = DOMAIN Given(call[r])
    BY <2>1 DEF Nothing
  <2>7. /\ pc'[r] = "ensuring" /\ local'[r] = held /\ call' = call /\ header' = header /\ lock' = lock
    BY <1>4 DEF Inward, TreatyFrame
  <2> HIDE DEF held
  <2>8. TreatyPath(r)'
    BY <1>1, <1>4, <2>1, <2>3, <2>6, <2>7 DEF TreatyPath, Holds, Writes, Drafting
  <2>9. Drafted(r)' /\ Cleared(r)'
    BY <2>7, EarlyDrafts DEF Drafting, Writes
  <2> QED
    BY <1>2, <1>4, <2>5, <2>8, <2>9, InwardKeeps DEF TreatyLabels, held
<1> QED
  BY <1>0, <1>3, <1>4, ReadStep

LEMMA MissingItems ==
    ASSUME TreatyInv, NEW r \in Request, pc[r] = "ensuring"
    PROVE  Missing(r) \subseteq Item
<1>1. local[r].copy \in Header /\ call[r] \in TreatyCall /\ call[r].op \in {"create", "amend"}
  BY LocalFacts DEF TreatyPath, Holds
<1>2. IsTerms(call[r])
  BY <1>1, CallKinds
<1>3. local[r].copy["reinsurers"] \in Item \cup {None}
  BY <1>1, HeaderAt DEF Headed
<1>4. "reinsurers" \in DOMAIN Given(call[r]) =>
         \A x \in Entries(call[r], "reinsurers", r) : x.item \in Item
  BY <1>2, EntriesType
<1> QED
  BY <1>3, <1>4 DEF Missing

LEMMA EnsureKeeps ==
    ASSUME TreatyInv, NEW r \in Request, Ensure(r) PROVE TreatyInv'
<1>0. TreatyTypeOK
  BY DEF TreatyInv
<1>1. pc[r] = "ensuring"
  BY <1>0, EnsureStep
<1>2. r \in InFlight
  BY <1>1 DEF InFlight, Active
<1>3. CASE Rolled(r)
  BY <1>2, <1>3, RolledKeeps
<1> DEFINE new == {[list |-> "companies", item |-> i, from |-> r] : i \in Missing(r)}
           held == [local[r] EXCEPT !.sought = new]
<1>4. CASE Inward(r, "making", held)
  <2>1. TreatyPath(r) /\ local[r] \in Locals
    BY LocalFacts
  <2>2. new \subseteq Row /\ \A x \in new : x.list = "companies" /\ x.from = r
    BY <1>1, MissingItems DEF Row
  <2> HIDE DEF new
  <2>3. /\ held \in Locals
        /\ held.copy = local[r].copy /\ held.cols = local[r].cols /\ held.dead = local[r].dead
        /\ held.todo = local[r].todo /\ held.sought = new
    BY <2>1, <2>2 DEF Locals
  <2>4. /\ pc'[r] = "making" /\ local'[r] = held /\ call' = call /\ header' = header /\ lock' = lock
    BY <1>4 DEF Inward, TreatyFrame
  <2> HIDE DEF held
  <2>5. TreatyPath(r)'
    BY <1>1, <2>1, <2>3, <2>4 DEF TreatyPath, Holds, Writes, Drafting, Listing
  <2>6. Drafted(r)' /\ Cleared(r)'
    BY <2>2, <2>3, <2>4 DEF Drafted, Cleared, Drafting, Writes
  <2> QED
    BY <1>2, <1>4, <2>3, <2>5, <2>6, InwardKeeps DEF TreatyLabels, held
<1> QED
  BY <1>0, <1>3, <1>4, EnsureStep

LEMMA MakeKeeps ==
    ASSUME TreatyInv, NEW r \in Request, Make(r) PROVE TreatyInv'
<1>0. TreatyTypeOK
  BY DEF TreatyInv
<1>1. pc[r] = "making"
  BY <1>0, MakeStep
<1>2. r \in InFlight
  BY <1>1 DEF InFlight, Active
<1>3. CASE Rolled(r)
  BY <1>2, <1>3, RolledKeeps
<1> DEFINE label == IF call[r].op = "create" THEN "building" ELSE "comparing"
           held == [local[r] EXCEPT !.fresh = local[r].sought, !.sought = {}]
<1>4. CASE Inward(r, label, held)
  <2>1. /\ TreatyPath(r) /\ Drafted(r) /\ local[r] \in Locals /\ local[r].sought \in SUBSET Row
    BY LocalFacts
  <2>2. \A x \in local[r].sought : x.list = "companies" /\ x.from = r
    BY <1>1, <2>1 DEF Drafted
  <2>3. /\ held \in Locals
        /\ held.copy = local[r].copy /\ held.cols = local[r].cols /\ held.dead = local[r].dead
        /\ held.todo = local[r].todo /\ held.fresh = local[r].sought
    BY <2>1 DEF Locals
  <2>4. /\ pc'[r] = label /\ local'[r] = held /\ call' = call /\ header' = header /\ lock' = lock
    BY <1>4 DEF Inward, TreatyFrame
  <2>5. call[r].op \in {"create", "amend"}
    BY <1>1, <2>1 DEF TreatyPath
  <2>6. label \in {"building", "comparing"}
    OBVIOUS
  <2> HIDE DEF held
  <2>7. TreatyPath(r)'
    BY <1>1, <2>1, <2>3, <2>4, <2>5, <2>6 DEF TreatyPath, Holds, Writes, Drafting, Listing, label
  <2> HIDE DEF label
  <2>8. Drafted(r)' /\ Cleared(r)'
    BY <2>2, <2>3, <2>4, <2>6 DEF Drafted, Cleared, Drafting, Writes
  <2>9. label \in TreatyLabels \ {"idle"}
    BY <2>6 DEF TreatyLabels
  <2>10. Inward(r, label, held)
    BY <1>4
  <2> QED
    BY <1>2, <2>3, <2>7, <2>8, <2>9, <2>10, InwardKeeps
<1> QED
  BY <1>0, <1>3, <1>4, MakeStep

LEMMA BuildKeeps ==
    ASSUME TreatyInv, NEW r \in Request, Build(r) PROVE TreatyInv'
<1>0. TreatyTypeOK
  BY DEF TreatyInv
<1>1. pc[r] = "building" /\ lock = None
  BY <1>0, BuildStep
<1>2. r \in InFlight
  BY <1>1 DEF InFlight, Active
<1>3. CASE Rolled(r)
  BY <1>2, <1>3, RolledKeeps
<1> DEFINE given == DOMAIN Given(call[r])
           new == UNION {Entries(call[r], k, r) : k \in given}
           held == [local[r] EXCEPT !.cols = Column, !.todo = {}, !.fresh = local[r].fresh \cup new]
<1>4. CASE /\ header = None /\ TreatyFrame(r) /\ header' = header /\ rows' = rows /\ lock' = r
           /\ pc'[r] = "clearing" /\ local'[r] = held
  <2>1. /\ TreatyPath(r) /\ Drafted(r) /\ local[r] \in Locals /\ local[r].fresh \in SUBSET Row /\ r # None
    BY LocalFacts
  <2>2. call[r] \in TreatyCall /\ call[r].op = "create" /\ call[r] # None
    BY <1>1, <2>1, CallKinds DEF TreatyPath
  <2>3. IsTerms(call[r])
    BY <2>2, CallKinds
  <2>4. \A k \in given : /\ Entries(call[r], k, r) \subseteq Row
                         /\ \A x \in Entries(call[r], k, r) : x.list = k /\ x.from = r
    BY <2>3, EntriesType
  <2>5. new \subseteq Row /\ \A x \in new : x.list \in given /\ x.from = r /\ x \in Entries(call[r], x.list, r)
    BY <2>4
  <2>6. \A k \in given : Entries(call[r], k, r) \subseteq new
    OBVIOUS
  <2> HIDE DEF given, new
  <2>7. /\ held \in Locals
        /\ held.copy = local[r].copy /\ held.cols = Column /\ held.dead = local[r].dead
        /\ held.todo = {} /\ held.fresh = local[r].fresh \cup new
    BY <2>1, <2>5 DEF Locals
  <2>8. /\ pc'[r] = "clearing" /\ local'[r] = held /\ call' = call /\ header' = None /\ lock' = r
    BY <1>4 DEF TreatyFrame
  <2> HIDE DEF held
  <2>9. local[r].copy \in Header /\ local[r].dead = {} /\ local[r].todo = given
    BY <1>1, <2>1, <2>2 DEF TreatyPath, Holds, Writes, Drafting, Listing, given
  <2>10. Column # {}
    BY DEF Column
  <2>11. TreatyPath(r)'
    BY <1>1, <1>4, <2>1, <2>2, <2>7, <2>8, <2>9, <2>10 DEF TreatyPath, Holds, Writes, Drafting, Listing
  <2>12. Swept(r)' = given
    BY <2>7, <2>8 DEF Swept, given
  <2>13. Listing(r) /\ pc[r] \in Drafting
    BY <1>1, <2>1, <2>2 DEF Listing, Drafting
  <2>14. Swept(r) = {}
    BY <1>1, <2>9 DEF Swept, given
  <2>15. \A x \in local[r].fresh : x.from = r /\ x.list = "companies"
    BY <2>1, <2>13, <2>14 DEF Drafted
  <2>16. Drafted(r)'
    BY <2>5, <2>6, <2>7, <2>8, <2>9, <2>12, <2>15 DEF Drafted, given, Writes
  <2>17. Cleared(r)'
    BY <2>2, <2>8 DEF Cleared
  <2>18. Meek(r)
    BY <1>1, <1>2, <1>4, <2>1, Nones DEF Meek
  <2>19. Sourced' /\ Headless'
    BY <1>2, <1>4, SourcedStays
  <2>20. /\ header' \in Header \cup {None} /\ rows' \in SUBSET Row /\ lock' \in Request \cup {None}
    BY <1>4, LocalFacts
  <2>21. pc'[r] \in TreatyLabels /\ local'[r] \in Locals
    BY <2>7, <2>8 DEF TreatyLabels
  <2> QED
    BY <2>11, <2>16, <2>17, <2>18, <2>19, <2>20, <2>21, StepKeeps
<1> QED
  BY <1>0, <1>3, <1>4, BuildStep

\* An amendment that goes on to its lists has done nothing to them yet.
LEMMA FirstOfLists ==
    ASSUME TreatyInv, NEW r \in Request, pc[r] \in {"comparing", "updating"}, call[r].op = "amend",
           call' = call, pc'[r] = "clearing", local'[r].todo = local[r].todo,
           local'[r].dead = local[r].dead, local'[r].fresh = local[r].fresh
    PROVE  Drafted(r)' /\ Cleared(r)'
<1>1. TreatyPath(r) /\ Drafted(r)
  BY LocalFacts
<1>2. call[r] \in TreatyCall /\ call[r] # None
  BY <1>1, CallKinds DEF TreatyPath
<1>3. Listing(r)
  BY <1>2, Nones DEF Listing
<1>4. local[r].todo = DOMAIN Given(call[r]) /\ local[r].dead = {}
  BY <1>1, <1>3 DEF TreatyPath, Holds, Writes, Drafting
<1>5. Swept(r) = {} /\ Swept(r)' = {}
  BY <1>4 DEF Swept
<1>6. \A x \in local[r].fresh : x.from = r /\ x.list = "companies"
  BY <1>1, <1>3, <1>5 DEF Drafted, Drafting
<1>7. Drafted(r)'
  BY <1>4, <1>6 DEF Drafted, Writes
<1>8. Cleared(r)'
  BY <1>5 DEF Cleared
<1> QED
  BY <1>7, <1>8

LEMMA CompareKeeps ==
    ASSUME TreatyInv, NEW r \in Request, Compare(r) PROVE TreatyInv'
<1>0. TreatyTypeOK
  BY DEF TreatyInv
<1>1. pc[r] = "comparing"
  BY <1>0, CompareStep
<1>2. r \in InFlight
  BY <1>1 DEF InFlight, Active
<1>3. PICK cols \in SUBSET Column :
         Inward(r, IF cols # {} THEN "updating" ELSE IF call[r].op = "amend" THEN "clearing" ELSE "done",
                [local[r] EXCEPT !.cols = cols])
  BY <1>0, CompareStep
<1> DEFINE label == IF cols # {} THEN "updating" ELSE IF call[r].op = "amend" THEN "clearing" ELSE "done"
           held == [local[r] EXCEPT !.cols = cols]
<1>4. /\ TreatyPath(r) /\ Drafted(r) /\ local[r] \in Locals
  BY LocalFacts
<1>5. /\ held \in Locals
      /\ held.copy = local[r].copy /\ held.cols = cols /\ held.dead = local[r].dead
      /\ held.todo = local[r].todo /\ held.fresh = local[r].fresh
  BY <1>4 DEF Locals
<1>6. /\ pc'[r] = label /\ local'[r] = held /\ call' = call /\ header' = header /\ lock' = lock
  BY <1>3 DEF Inward, TreatyFrame
<1>7. label \in {"updating", "clearing", "done"}
  OBVIOUS
<1>8. call[r].op # "create" /\ call[r] \in TreatyCall /\ lock # r
  BY <1>1, <1>4 DEF TreatyPath, Writes
<1>9. label = "updating" => cols # {}
  OBVIOUS
<1>10. label = "clearing" => cols = {} /\ call[r].op = "amend"
  OBVIOUS
<1> HIDE DEF held, label
<1>11. local[r].copy \in Header /\ header # None /\ local[r].dead = {}
       /\ (Listing(r) => local[r].todo = DOMAIN Given(call[r]))
  BY <1>1, <1>4, <1>8 DEF TreatyPath, Holds, Writes, Drafting
<1>12. label = "clearing" => Listing(r)
  BY <1>8, <1>10, CallKinds, LocalFacts DEF Listing
<1>13. TreatyPath(r)'
  BY <1>5, <1>6, <1>7, <1>8, <1>9, <1>10, <1>11, <1>12 DEF TreatyPath, Holds, Writes, Drafting, Listing
<1>14. Drafted(r)' /\ Cleared(r)'
  <2>1. CASE label = "clearing"
    BY <1>1, <1>5, <1>6, <1>10, <2>1, FirstOfLists
  <2>2. CASE label = "done"
    BY <1>6, <2>2, EarlyDrafts DEF Drafting, Writes
  <2>3. CASE label = "updating"
    <3>1. Swept(r)' = Swept(r)
      BY <1>1, <1>5, <1>6, <2>3 DEF Swept
    <3>2. Listing(r)' = Listing(r)
      BY <1>6 DEF Listing
    <3> QED
      BY <1>1, <1>4, <1>5, <1>6, <2>3, <3>1, <3>2 DEF Drafted, Cleared, Drafting, Writes
  <2> QED
    BY <1>7, <2>1, <2>2, <2>3
<1>15. label \in TreatyLabels \ {"idle"}
  BY <1>7 DEF TreatyLabels
<1>16. Inward(r, label, held)
  BY <1>3 DEF label, held
<1> QED
  BY <1>2, <1>5, <1>13, <1>14, <1>15, <1>16, InwardKeeps

LEMMA SearchKeeps ==
    ASSUME TreatyInv, NEW r \in Request, Search(r) PROVE TreatyInv'
<1>0. TreatyTypeOK
  BY DEF TreatyInv
<1> DEFINE list == Foremost(local[r].todo)
           found == {x \in rows : x.list = list}
           held == [local[r] EXCEPT !.sought = found]
<1>1. pc[r] = "clearing" /\ local[r].todo # {} /\ Inward(r, "deleting", held)
  BY <1>0, SearchStep
<1>2. r \in InFlight
  BY <1>1 DEF InFlight, Active
<1>3. /\ TreatyPath(r) /\ Drafted(r) /\ Cleared(r) /\ local[r] \in Locals /\ rows \in SUBSET Row
  BY LocalFacts
<1>4. /\ held \in Locals
      /\ held.copy = local[r].copy /\ held.cols = local[r].cols /\ held.dead = local[r].dead
      /\ held.todo = local[r].todo /\ held.fresh = local[r].fresh /\ held.sought = found
  BY <1>3 DEF Locals
<1>5. /\ pc'[r] = "deleting" /\ local'[r] = held /\ call' = call /\ header' = header /\ lock' = lock
      /\ rows' = rows /\ met' = met
  BY <1>1 DEF Inward, TreatyFrame
<1> HIDE DEF held
<1>6. Listing(r)' = Listing(r) /\ (\A q : Listing(q)' = Listing(q))
  BY <1>5 DEF Listing
<1>7. call[r].op = "amend"
  BY <1>1, <1>3 DEF TreatyPath, Writes
<1>8. TreatyPath(r)'
  BY <1>1, <1>3, <1>4, <1>5, <1>6, <1>7 DEF TreatyPath, Holds, Writes, Drafting
<1>9. Swept(r)' = Swept(r) \cup {list}
  BY <1>1, <1>4, <1>5 DEF Swept
<1>10. Drafted(r)'
  BY <1>1, <1>3, <1>4, <1>5, <1>6, <1>9 DEF Drafted, Drafting, Writes
<1>11. \A q \in Request : local'[q].cols = local[q].cols
  BY <1>1, <1>4, <1>5 DEF Inward, TreatyFrame
<1>12. Cleared(r)'
  <2> SUFFICES ASSUME NEW x \in rows, x.list \in Swept(r) \cup {list}, x \notin local[r].dead,
                      x \notin found, x.from = None \/ Listing(x.from)
               PROVE  x.from \in met[r] /\ (local[r].cols = {} \/ local'[x.from].cols = {})
    BY <1>4, <1>5, <1>6, <1>9 DEF Cleared
  <2>1. x.list \in Swept(r)
    OBVIOUS
  <2>2. x.from \in met[r] /\ (local[r].cols = {} \/ local[x.from].cols = {})
    BY <1>1, <1>3, <1>7, <2>1 DEF Cleared, Writes
  <2>3. x.from \in Request
    BY <1>0, <2>2 DEF TreatyTypeOK
  <2> QED
    BY <1>11, <2>2, <2>3
<1> QED
  BY <1>1, <1>2, <1>4, <1>8, <1>10, <1>12, InwardKeeps DEF TreatyLabels

LEMMA DeleteKeeps ==
    ASSUME TreatyInv, NEW r \in Request, Delete(r) PROVE TreatyInv'
<1>0. TreatyTypeOK
  BY DEF TreatyInv
<1> DEFINE taken == local[r].sought \cap rows
           held == [local[r] EXCEPT !.dead = local[r].dead \cup taken, !.sought = {}]
<1>1. pc[r] = "deleting" /\ Inward(r, "inserting", held)
  BY <1>0, DeleteStep
<1>2. r \in InFlight
  BY <1>1 DEF InFlight, Active
<1>3. /\ TreatyPath(r) /\ Drafted(r) /\ Cleared(r) /\ local[r] \in Locals /\ rows \in SUBSET Row
      /\ local[r].dead \in SUBSET Row
  BY LocalFacts
<1>4. /\ held \in Locals
      /\ held.copy = local[r].copy /\ held.cols = local[r].cols /\ held.dead = local[r].dead \cup taken
      /\ held.todo = local[r].todo /\ held.fresh = local[r].fresh
  BY <1>3 DEF Locals
<1>5. /\ pc'[r] = "inserting" /\ local'[r] = held /\ call' = call /\ header' = header /\ lock' = lock
      /\ rows' = rows /\ met' = met
  BY <1>1 DEF Inward, TreatyFrame
<1> HIDE DEF held
<1>6. Listing(r)' = Listing(r) /\ (\A q : Listing(q)' = Listing(q))
  BY <1>5 DEF Listing
<1>7. call[r].op = "amend"
  BY <1>1, <1>3 DEF TreatyPath, Writes
<1>8. TreatyPath(r)'
  BY <1>1, <1>3, <1>4, <1>5, <1>6, <1>7 DEF TreatyPath, Holds, Writes, Drafting
<1>9. Swept(r)' = Swept(r) /\ Foremost(local[r].todo) \in Swept(r)
  BY <1>1, <1>4, <1>5 DEF Swept
<1>10. \A x \in taken : x.list \in Swept(r)
  BY <1>1, <1>3, <1>9 DEF Drafted
<1>11. Drafted(r)'
  BY <1>1, <1>3, <1>4, <1>5, <1>6, <1>9, <1>10 DEF Drafted, Drafting, Writes
<1>12. \A q \in Request : local'[q].cols = local[q].cols
  BY <1>1, <1>4, <1>5 DEF Inward, TreatyFrame
<1>13. Cleared(r)'
  <2> SUFFICES ASSUME NEW x \in rows, x.list \in Swept(r), x \notin local[r].dead,
                      x \notin taken, x.from = None \/ Listing(x.from)
               PROVE  x.from \in met[r] /\ (local[r].cols = {} \/ local'[x.from].cols = {})
    BY <1>4, <1>5, <1>6, <1>9 DEF Cleared
  <2>1. x \notin local[r].sought
    OBVIOUS
  <2>2. x.from \in met[r] /\ (local[r].cols = {} \/ local[x.from].cols = {})
    BY <1>1, <1>3, <1>7, <2>1 DEF Cleared, Writes
  <2>3. x.from \in Request
    BY <1>0, <2>2 DEF TreatyTypeOK
  <2> QED
    BY <1>12, <2>2, <2>3
<1> QED
  BY <1>1, <1>2, <1>4, <1>8, <1>11, <1>13, InwardKeeps DEF TreatyLabels

LEMMA InsertKeeps ==
    ASSUME TreatyInv, NEW r \in Request, Insert(r) PROVE TreatyInv'
<1>0. TreatyTypeOK
  BY DEF TreatyInv
<1> DEFINE list == Foremost(local[r].todo)
           new == Entries(call[r], list, r)
           held == [local[r] EXCEPT !.fresh = local[r].fresh \cup new, !.todo = local[r].todo \ {list}]
<1>1. pc[r] = "inserting"
  BY <1>0, InsertStep
<1>2. r \in InFlight
  BY <1>1 DEF InFlight, Active
<1>3. CASE Rolled(r)
  BY <1>2, <1>3, RolledKeeps
<1>4. CASE Inward(r, "clearing", held)
  <2>1. /\ TreatyPath(r) /\ Drafted(r) /\ Cleared(r) /\ local[r] \in Locals /\ rows \in SUBSET Row
        /\ local[r].fresh \in SUBSET Row /\ local[r].todo \in SUBSET List
    BY LocalFacts
  <2>2. /\ call[r].op = "amend" /\ call[r] \in TreatyCall /\ local[r].todo # {}
        /\ local[r].todo \subseteq DOMAIN Given(call[r])
    BY <1>1, <2>1 DEF TreatyPath, Writes
  <2>3. list \in local[r].todo
    BY <2>1, <2>2, ForemostIn
  <2>4. IsTerms(call[r]) /\ list \in DOMAIN Given(call[r])
    BY <2>2, <2>3, CallKinds
  <2>5. new \subseteq Row /\ \A x \in new : x.list = list /\ x.from = r
    BY <2>4, EntriesType
  <2>6. /\ held \in Locals
        /\ held.copy = local[r].copy /\ held.cols = local[r].cols /\ held.dead = local[r].dead
        /\ held.todo = local[r].todo \ {list} /\ held.fresh = local[r].fresh \cup new
    BY <2>1, <2>5 DEF Locals
  <2>7. /\ pc'[r] = "clearing" /\ local'[r] = held /\ call' = call /\ header' = header /\ lock' = lock
        /\ rows' = rows /\ met' = met
    BY <1>4 DEF Inward, TreatyFrame
  <2> HIDE DEF held
  <2>8. Listing(r)' = Listing(r) /\ (\A q : Listing(q)' = Listing(q))
    BY <2>7 DEF Listing
  <2>9. TreatyPath(r)'
    BY <1>1, <2>1, <2>2, <2>6, <2>7, <2>8 DEF TreatyPath, Holds, Writes, Drafting
  <2>10. Swept(r)' = Swept(r) /\ list \in Swept(r)
    BY <1>1, <2>4, <2>6, <2>7 DEF Swept
  <2>11. \A x \in new : x \in Entries(call[r], x.list, r)
    BY <2>5
  <2>12. \A k \in DOMAIN Given(call[r]) \ (local[r].todo \ {list}) :
            Entries(call[r], k, r) \subseteq local[r].fresh \cup new
    BY <1>1, <2>1 DEF Drafted, Writes
  <2> HIDE DEF new
  <2>13. \A x \in local[r].fresh \cup new :
             /\ x.from = r
             /\ x.list # "companies" =>
                  x.list \in Swept(r) \cap DOMAIN Given(call[r]) /\ x \in Entries(call[r], x.list, r)
    <3>1. Listing(r)
      BY <2>2, CallKinds, LocalFacts DEF Listing
    <3>2. \A x \in local[r].fresh :
             /\ x.from = r
             /\ x.list # "companies" =>
                  x.list \in Swept(r) \cap DOMAIN Given(call[r]) /\ x \in Entries(call[r], x.list, r)
      BY <1>1, <2>1, <3>1 DEF Drafted, Drafting, Writes
    <3> QED
      BY <2>4, <2>5, <2>10, <2>11, <3>2
  <2>14. \A x \in local[r].dead : x.list \in Swept(r)
    BY <1>1, <2>1 DEF Drafted, Writes
  <2>15. Drafted(r)'
    BY <2>6, <2>7, <2>10, <2>12, <2>13, <2>14 DEF Drafted
  <2>16. \A q \in Request : local'[q].cols = local[q].cols
    BY <1>4, <2>6, <2>7 DEF Inward, TreatyFrame
  <2>17. Cleared(r)'
    <3> SUFFICES ASSUME NEW x \in rows, x.list \in Swept(r), x \notin local[r].dead,
                        x.from = None \/ Listing(x.from)
                 PROVE  x.from \in met[r] /\ (local[r].cols = {} \/ local'[x.from].cols = {})
      BY <2>6, <2>7, <2>8, <2>10 DEF Cleared
    <3>1. x.from \in met[r] /\ (local[r].cols = {} \/ local[x.from].cols = {})
      BY <1>1, <2>1, <2>2 DEF Cleared, Writes
    <3>2. x.from \in Request
      BY <1>0, <3>1 DEF TreatyTypeOK
    <3> QED
      BY <2>16, <3>1, <3>2
  <2>18. Inward(r, "clearing", held)
    BY <1>4 DEF held
  <2> QED
    BY <1>2, <2>6, <2>9, <2>15, <2>17, <2>18, InwardKeeps DEF TreatyLabels
<1> QED
  BY <1>0, <1>3, <1>4, InsertStep

LEMMA UpdateKeeps ==
    ASSUME TreatyInv, NEW r \in Request, Update(r) PROVE TreatyInv'
<1>0. TreatyTypeOK
  BY DEF TreatyInv
<1>1. /\ pc[r] = "updating" /\ lock = None /\ TreatyFrame(r) /\ rows' = rows /\ local'[r] = local[r]
      /\ IF call[r].op = "amend"
           THEN pc'[r] = "clearing" /\ lock' = r /\ header' = header
           ELSE pc'[r] = "done" /\ lock' = lock /\ header' = Written(r)
  BY <1>0, UpdateStep
<1>2. r \in InFlight
  BY <1>1 DEF InFlight, Active
<1>3. /\ TreatyPath(r) /\ local[r] \in Locals /\ rows \in SUBSET Row /\ r # None
      /\ header \in Header \cup {None}
  BY LocalFacts
<1>4. /\ call[r] \in TreatyCall /\ call[r].op # "create" /\ header # None /\ local[r].copy \in Header
      /\ local[r].cols # {} /\ call' = call
      /\ local[r].dead = {} /\ (Listing(r) => local[r].todo = DOMAIN Given(call[r]))
  BY <1>1, <1>3 DEF TreatyPath, Holds, Writes, Drafting, TreatyFrame
<1>5. header' \in Header
  BY <1>1, <1>3, <1>4, WrittenType
<1>6. header' # None
  BY <1>5, Nones
<1>7. Sourced' /\ Headless'
  BY <1>1, <1>2, <1>4, <1>6, SourcedStays
<1>8. Meek(r)
  BY <1>1, <1>2, <1>3, <1>6, Nones DEF Meek
<1>9. Drafted(r)' /\ Cleared(r)'
  <2>1. CASE call[r].op = "amend"
    BY <1>1, <1>4, <2>1, FirstOfLists
  <2>2. CASE call[r].op # "amend"
    BY <1>1, <2>2, EarlyDrafts DEF Drafting, Writes
  <2> QED
    BY <2>1, <2>2
<1>10. TreatyPath(r)'
  <2>1. CASE call[r].op = "amend"
    <3>1. Listing(r)
      BY <1>3, <1>4, <2>1, CallKinds DEF Listing
    <3> QED
      BY <1>1, <1>3, <1>4, <1>6, <2>1, <3>1 DEF TreatyPath, Holds, Writes, Drafting
  <2>2. CASE call[r].op # "amend"
    BY <1>1, <1>3, <1>4, <2>2 DEF TreatyPath, Holds, Writes, Drafting
  <2> QED
    BY <2>1, <2>2
<1>11. pc'[r] \in TreatyLabels /\ local'[r] \in Locals /\ rows' \in SUBSET Row /\ lock' \in Request \cup {None}
  BY <1>1, <1>3 DEF TreatyLabels
<1> QED
  BY <1>5, <1>7, <1>8, <1>9, <1>10, <1>11, StepKeeps

LEMMA CommitFacts ==
    ASSUME TreatyInv, NEW r \in Request, Commit(r)
    PROVE  /\ r \in InFlight /\ Listing(r) /\ call[r] \in TreatyCall /\ IsTerms(call[r])
           /\ \A x \in local[r].fresh :
                 /\ x.from = r /\ x \in Row
                 /\ x.list # "companies" =>
                      x.list \in DOMAIN Given(call[r]) /\ x \in Entries(call[r], x.list, r)
           /\ \A k \in DOMAIN Given(call[r]) : Entries(call[r], k, r) \subseteq local[r].fresh
           /\ \A x \in local[r].dead : x.list \in DOMAIN Given(call[r])
           /\ lock = r <=> local[r].cols # {}
           /\ local[r].copy \in Header
           /\ header' \in Header
           /\ call[r].op = "create" <=> header = None
           /\ call[r].op = "create" => local[r].cols = Column
           /\ Swept(r) = DOMAIN Given(call[r])
           /\ \A k \in Column : header'[k] = IF k \in local[r].cols THEN local[r].copy[k] ELSE header[k]
<1>0. TreatyTypeOK
  BY DEF TreatyInv
<1>1. /\ pc[r] = "clearing" /\ local[r].todo = {} /\ TreatyFrame(r) /\ pc'[r] = "done"
      /\ header' = IF lock = r THEN Written(r) ELSE header
  BY <1>0, CommitStep
<1>2. /\ TreatyPath(r) /\ Drafted(r) /\ r # None /\ local[r] \in Locals /\ local[r].fresh \in SUBSET Row
      /\ header \in Header \cup {None} /\ lock \in Request \cup {None}
  BY LocalFacts
<1>3. r \in InFlight
  BY <1>1 DEF InFlight, Active
<1>4. call[r] \in TreatyCall /\ call[r].op \in {"create", "amend"}
  BY <1>1, <1>2 DEF TreatyPath
<1>5. IsTerms(call[r]) /\ Listing(r)
  BY <1>2, <1>4, CallKinds DEF Listing
<1>6. Swept(r) = DOMAIN Given(call[r])
  BY <1>1 DEF Swept
<1>7. \A x \in local[r].fresh :
         /\ x.from = r /\ x \in Row
         /\ x.list # "companies" =>
              x.list \in DOMAIN Given(call[r]) /\ x \in Entries(call[r], x.list, r)
  BY <1>1, <1>2, <1>5, <1>6 DEF Drafted, Drafting, Writes
<1>8. /\ \A k \in DOMAIN Given(call[r]) : Entries(call[r], k, r) \subseteq local[r].fresh
      /\ \A x \in local[r].dead : x.list \in DOMAIN Given(call[r])
  BY <1>1, <1>2, <1>6 DEF Drafted, Writes
<1>9. /\ lock = r <=> local[r].cols # {}
      /\ local[r].copy \in Header
      /\ call[r].op = "create" <=> header = None
      /\ call[r].op = "create" => local[r].cols = Column
  BY <1>1, <1>2, <1>4 DEF TreatyPath, Writes, Holds, Drafting
<1>10. Column # {}
  BY DEF Column
<1>11. header' \in Header
  <2>1. CASE lock = r
    BY <1>1, <1>2, <1>9, <2>1, WrittenType
  <2>2. CASE lock # r
    BY <1>1, <1>2, <1>4, <1>9, <1>10, <2>2
  <2> QED
    BY <2>1, <2>2
<1>12. \A k \in Column : header'[k] = IF k \in local[r].cols THEN local[r].copy[k] ELSE header[k]
  <2>1. CASE lock = r
    BY <1>1, <1>2, <1>9, <2>1, WrittenType
  <2>2. CASE lock # r
    BY <1>1, <1>9, <2>2
  <2> QED
    BY <2>1, <2>2
<1> QED
  BY <1>3, <1>4, <1>5, <1>6, <1>7, <1>8, <1>9, <1>11, <1>12

LEMMA CommitKeeps ==
    ASSUME TreatyInv, NEW r \in Request, Commit(r) PROVE TreatyInv'
<1>0. TreatyTypeOK
  BY DEF TreatyInv
<1>1. /\ pc[r] = "clearing" /\ local[r].todo = {} /\ TreatyFrame(r) /\ pc'[r] = "done"
      /\ rows' = (rows \ local[r].dead) \cup local[r].fresh
      /\ header' = IF lock = r THEN Written(r) ELSE header
      /\ lock' = IF lock = r THEN None ELSE lock
      /\ local'[r] = [local[r] EXCEPT !.dead = {}, !.fresh = {}]
  BY <1>0, CommitStep
<1>2. /\ TreatyPath(r) /\ r # None /\ local[r] \in Locals /\ rows \in SUBSET Row /\ Sourced
      /\ lock \in Request \cup {None}
  BY LocalFacts
<1>3. /\ r \in InFlight /\ Listing(r) /\ call[r] \in TreatyCall
      /\ \A x \in local[r].fresh :
            /\ x.from = r /\ x \in Row
            /\ x.list # "companies" =>  x.list \in DOMAIN Given(call[r])
      /\ lock = r <=> local[r].cols # {}
      /\ header' \in Header
  BY CommitFacts
<1>4. local'[r] \in Locals /\ local'[r].cols = local[r].cols
  BY <1>1, <1>2 DEF Locals
<1>5. header' # None /\ call' = call
  BY <1>1, <1>3, Nones DEF TreatyFrame
<1>6. Meek(r)
  BY <1>1, <1>2, <1>3, <1>4, <1>5, Nones DEF Meek
<1>7. Drafted(r)' /\ Cleared(r)'
  BY <1>1, EarlyDrafts DEF Drafting, Writes
<1>8. TreatyPath(r)'
  BY <1>1, <1>2, <1>3, <1>5 DEF TreatyPath, Holds, Writes, Drafting
<1>9. \A q : Listing(q)' = Listing(q)
  BY <1>5 DEF Listing
<1>10. Sourced'
  <2> SUFFICES ASSUME NEW x \in rows', x.from # None
               PROVE  /\ call[x.from] # None
                      /\ IF Listing(x.from)
                           THEN /\ pc'[x.from] = "done"
                                /\ x.list = "companies" \/ x.list \in DOMAIN Given(call[x.from])
                           ELSE call[x.from].op = "join" /\ x.list = "mgas"
    BY <1>5, <1>9 DEF Sourced
  <2>1. CASE x \in rows
    <3>1. /\ call[x.from] # None
          /\ IF Listing(x.from)
               THEN /\ pc[x.from] = "done"
                    /\ x.list = "companies" \/ x.list \in DOMAIN Given(call[x.from])
               ELSE call[x.from].op = "join" /\ x.list = "mgas"
      BY <1>2, <2>1 DEF Sourced
    <3>2. x.from \in Request
      BY <1>2, <2>1 DEF Row
    <3>3. Listing(x.from) => pc'[x.from] = "done"
      BY <1>1, <3>1, <3>2 DEF TreatyFrame
    <3> QED
      BY <3>1, <3>3
  <2>2. CASE x \in local[r].fresh
    <3>1. call[r] # None
      BY <1>3, Nones
    <3> QED
      BY <1>1, <1>3, <2>2, <3>1
  <2> QED
    BY <1>1, <2>1, <2>2
<1>11. Headless'
  BY <1>5 DEF Headless
<1>12. /\ pc'[r] \in TreatyLabels /\ rows' \in SUBSET Row /\ lock' \in Request \cup {None}
  BY <1>1, <1>2, <1>3 DEF TreatyLabels
<1> QED
  BY <1>3, <1>4, <1>6, <1>7, <1>8, <1>10, <1>11, <1>12, StepKeeps

LEMMA JoinKeeps ==
    ASSUME TreatyInv, NEW r \in Request, Join(r) PROVE TreatyInv'
<1>0. TreatyTypeOK
  BY DEF TreatyInv
<1>1. pc[r] = "joining"
  BY <1>0, JoinStep
<1>2. r \in InFlight
  BY <1>1 DEF InFlight, Active
<1>3. CASE Rolled(r)
  BY <1>2, <1>3, RolledKeeps
<1>4. CASE /\ TreatyFrame(r) /\ header' = header /\ lock' = lock /\ local'[r] = local[r]
           /\ pc'[r] = "naming" /\ rows' = rows \cup {Link(r)}
  <2>1. /\ TreatyPath(r) /\ r # None /\ local[r] \in Locals /\ rows \in SUBSET Row /\ Sourced /\ Headless
        /\ lock \in Request \cup {None} /\ header \in Header \cup {None}
    BY LocalFacts
  <2>2. call[r] \in TreatyCall /\ call[r].op = "join" /\ header # None
    BY <1>1, <2>1 DEF TreatyPath, Holds
  <2>3. Link(r) \in Row /\ Link(r).from = r /\ Link(r).list = "mgas"
    BY <2>2, CallKinds DEF Link, Row, List
  <2>4. ~ Listing(r) /\ call[r] # None
    BY <2>2, CallKinds DEF Listing
  <2>5. Meek(r)
    BY <1>2, <1>4, <2>3, <2>4 DEF Meek
  <2>6. call' = call
    BY <1>4 DEF TreatyFrame
  <2>7. Drafted(r)' /\ Cleared(r)'
    BY <1>4, EarlyDrafts DEF Drafting, Writes
  <2>8. TreatyPath(r)'
    BY <1>1, <1>4, <2>1, <2>2, <2>6 DEF TreatyPath, Holds, Writes, Drafting, Listing
  <2>9. \A q : Listing(q)' = Listing(q)
    BY <2>6 DEF Listing
  <2>10. Sourced'
    <3> SUFFICES ASSUME NEW x \in rows', x.from # None
                 PROVE  /\ call[x.from] # None
                        /\ IF Listing(x.from)
                             THEN /\ pc'[x.from] = "done"
                                  /\ x.list = "companies" \/ x.list \in DOMAIN Given(call[x.from])
                             ELSE call[x.from].op = "join" /\ x.list = "mgas"
      BY <2>6, <2>9 DEF Sourced
    <3>1. CASE x \in rows
      <4>1. /\ call[x.from] # None
            /\ IF Listing(x.from)
                 THEN /\ pc[x.from] = "done"
                      /\ x.list = "companies" \/ x.list \in DOMAIN Given(call[x.from])
                 ELSE call[x.from].op = "join" /\ x.list = "mgas"
        BY <2>1, <3>1 DEF Sourced
      <4>2. x.from \in Request
        BY <2>1, <3>1 DEF Row
      <4>3. Listing(x.from) => pc'[x.from] = "done"
        BY <1>4, <2>4, <4>1, <4>2 DEF TreatyFrame
      <4> QED
        BY <4>1, <4>3
    <3>2. CASE x = Link(r)
      BY <2>2, <2>3, <2>4, <3>2
    <3> QED
      BY <1>4, <3>1, <3>2
  <2>11. Headless'
    BY <1>4, <2>2 DEF Headless
  <2>12. /\ pc'[r] \in TreatyLabels /\ rows' \in SUBSET Row /\ local'[r] \in Locals
    BY <1>4, <2>1, <2>3 DEF TreatyLabels
  <2> QED
    BY <1>4, <2>1, <2>5, <2>7, <2>8, <2>10, <2>11, <2>12, StepKeeps
<1> QED
  BY <1>0, <1>3, <1>4, JoinStep

\* The steps of requests that write no lists, but for the link.
LEMMA PlainDrafts ==
    ASSUME NEW r, ~ Listing(r)', pc'[r] \notin Writes \cup {"making"}
    PROVE  Drafted(r)' /\ Cleared(r)'
BY DEF Drafted, Cleared, Writes

LEMMA FindKeeps ==
    ASSUME TreatyInv, NEW r \in Request, Find(r) PROVE TreatyInv'
<1>0. TreatyTypeOK
  BY DEF TreatyInv
<1>1. pc[r] = "reading" /\ call[r].op \in {"join", "delete"}
  BY <1>0, FindStep
<1>2. r \in InFlight
  BY <1>1 DEF InFlight, Active
<1>3. CASE Rolled(r)
  BY <1>2, <1>3, RolledKeeps
<1> DEFINE label == IF call[r].op = "join" THEN "linking" ELSE "marking"
           held == [local[r] EXCEPT !.copy = header]
<1>4. CASE header # None /\ Inward(r, label, held)
  <2>1. /\ TreatyPath(r) /\ local[r] \in Locals /\ header \in Header \cup {None}
    BY LocalFacts
  <2>2. local[r] = Nothing /\ call[r] \in TreatyCall /\ lock # r
    BY <1>1, <2>1 DEF TreatyPath, Writes
  <2>3. /\ held \in Locals /\ held.copy = header /\ held.cols = {} /\ held.dead = {}
    BY <1>4, <2>1, <2>2 DEF Locals, Nothing
  <2>4. /\ pc'[r] = label /\ local'[r] = held /\ call' = call /\ header' = header /\ lock' = lock
    BY <1>4 DEF Inward, TreatyFrame
  <2>5. label \in {"linking", "marking"} /\ (label = "linking" => call[r].op = "join")
        /\ (label = "marking" => call[r].op = "delete")
    BY <1>1
  <2> HIDE DEF held, label
  <2>6. ~ Listing(r)'
    BY <1>1, <2>4 DEF Listing
  <2>7. TreatyPath(r)'
    BY <1>1, <1>4, <2>1, <2>2, <2>3, <2>4, <2>5, <2>6 DEF TreatyPath, Holds, Writes, Drafting
  <2>8. Drafted(r)' /\ Cleared(r)'
    BY <2>4, <2>5, <2>6, PlainDrafts DEF Writes
  <2>9. label \in TreatyLabels \ {"idle"}
    BY <2>5 DEF TreatyLabels
  <2>10. Inward(r, label, held)
    BY <1>4
  <2> QED
    BY <1>2, <2>3, <2>7, <2>8, <2>9, <2>10, InwardKeeps
<1> QED
  BY <1>0, <1>3, <1>4, FindStep

LEMMA LinkedKeeps ==
    ASSUME TreatyInv, NEW r \in Request, Linked(r) PROVE TreatyInv'
<1>0. TreatyTypeOK
  BY DEF TreatyInv
<1>1. pc[r] = "linking"
  BY <1>0, LinkedStep
<1>2. r \in InFlight
  BY <1>1 DEF InFlight, Active
<1>3. PICK label \in {"naming", "joining"} : Inward(r, label, local[r])
  BY <1>0, LinkedStep
<1>4. /\ TreatyPath(r) /\ local[r] \in Locals
  BY LocalFacts
<1>5. /\ pc'[r] = label /\ local'[r] = local[r] /\ call' = call /\ header' = header /\ lock' = lock
  BY <1>3 DEF Inward, TreatyFrame
<1>6. call[r].op = "join"
  BY <1>1, <1>4 DEF TreatyPath
<1>7. ~ Listing(r)'
  BY <1>5, <1>6 DEF Listing
<1>8. TreatyPath(r)'
  BY <1>1, <1>4, <1>5, <1>6, <1>7 DEF TreatyPath, Holds, Writes, Drafting
<1>9. Drafted(r)' /\ Cleared(r)'
  BY <1>5, <1>7, PlainDrafts DEF Writes
<1>10. label \in TreatyLabels \ {"idle"}
  BY DEF TreatyLabels
<1> QED
  BY <1>2, <1>3, <1>4, <1>8, <1>9, <1>10, InwardKeeps

LEMMA NameKeeps ==
    ASSUME TreatyInv, NEW r \in Request, Name(r) PROVE TreatyInv'
<1>0. TreatyTypeOK
  BY DEF TreatyInv
<1>1. pc[r] = "naming"
  BY <1>0, NameStep
<1>2. r \in InFlight
  BY <1>1 DEF InFlight, Active
<1>3. /\ TreatyPath(r) /\ local[r] \in Locals
  BY LocalFacts
<1>4. /\ call[r].op = "join" /\ call[r] \in TreatyCall /\ local[r].copy \in Header /\ header # None
      /\ local[r].cols = {} /\ local[r].dead = {} /\ lock # r
  BY <1>1, <1>3 DEF TreatyPath, Holds, Writes, Drafting
<1> DEFINE copied == [local[r].copy EXCEPT !["mgas"] = call[r].mga, !["by"] = call[r].user]
           held == [local[r] EXCEPT !.copy = copied]
<1>5. CASE Inward(r, "done", local[r])
  <2>1. /\ pc'[r] = "done" /\ local'[r] = local[r] /\ call' = call /\ header' = header /\ lock' = lock
    BY <1>5 DEF Inward, TreatyFrame
  <2>2. TreatyPath(r)'
    BY <1>1, <1>3, <1>4, <2>1 DEF TreatyPath, Holds, Writes, Drafting
  <2>3. Drafted(r)' /\ Cleared(r)'
    BY <2>1, EarlyDrafts DEF Drafting, Writes
  <2> QED
    BY <1>2, <1>3, <1>5, <2>2, <2>3, InwardKeeps DEF TreatyLabels
<1>6. CASE Inward(r, "comparing", held)
  <2>1. copied \in Header
    <3>1. call[r].mga \in Item /\ call[r].user \in User
      BY <1>4, CallKinds
    <3>2. /\ local[r].copy = [k \in Column |-> local[r].copy[k]]
          /\ \A k \in Headed : local[r].copy[k] \in Item \cup {None}
          /\ local[r].copy["terms"] \in Terms /\ local[r].copy["by"] \in User
          /\ local[r].copy["deleted"] \in BOOLEAN
      BY <1>4, HeaderAt
    <3>3. /\ "mgas" \in Column /\ "by" \in Column /\ "terms" \in Column /\ "deleted" \in Column
          /\ Headed \subseteq Column /\ "by" \notin Headed
      BY DEF Column, Headed
    <3>4. /\ copied = [k \in Column |-> copied[k]]
          /\ \A k \in Column : copied[k] = IF k = "by" THEN call[r].user
                                           ELSE IF k = "mgas" THEN call[r].mga ELSE local[r].copy[k]
      BY <3>2, <3>3
    <3> HIDE DEF copied
    <3>5. \A k \in Headed : copied[k] \in Item \cup {None}
      BY <3>1, <3>2, <3>3, <3>4
    <3>6. copied["terms"] \in Terms /\ copied["by"] \in User /\ copied["deleted"] \in BOOLEAN
      BY <3>1, <3>2, <3>3, <3>4
    <3> QED
      BY <3>4, <3>5, <3>6, IsHeader
  <2> HIDE DEF copied
  <2>2. held \in Locals /\ held.copy = copied /\ held.cols = {} /\ held.dead = {}
    BY <1>3, <1>4, <2>1 DEF Locals
  <2>3. /\ pc'[r] = "comparing" /\ local'[r] = held /\ call' = call /\ header' = header /\ lock' = lock
    BY <1>6 DEF Inward, TreatyFrame
  <2>4. Inward(r, "comparing", held)
    BY <1>6
  <2> HIDE DEF held
  <2>5. ~ Listing(r)'
    BY <1>4, <2>3 DEF Listing
  <2>6. TreatyPath(r)'
    BY <1>1, <1>3, <1>4, <2>1, <2>2, <2>3, <2>5 DEF TreatyPath, Holds, Writes, Drafting
  <2>7. Drafted(r)' /\ Cleared(r)'
    BY <2>3, <2>5, PlainDrafts DEF Writes
  <2> QED
    BY <1>2, <2>2, <2>4, <2>6, <2>7, InwardKeeps DEF TreatyLabels
<1> QED
  BY <1>0, <1>5, <1>6, NameStep

LEMMA MarkKeeps ==
    ASSUME TreatyInv, NEW r \in Request, Mark(r) PROVE TreatyInv'
<1>0. TreatyTypeOK
  BY DEF TreatyInv
<1> DEFINE copied == [header EXCEPT !["deleted"] = TRUE]
           held == [local[r] EXCEPT !.copy = copied]
<1>1. pc[r] = "marking" /\ Inward(r, "comparing", held)
  BY <1>0, MarkStep
<1>2. r \in InFlight
  BY <1>1 DEF InFlight, Active
<1>3. /\ TreatyPath(r) /\ local[r] \in Locals /\ header \in Header \cup {None}
  BY LocalFacts
<1>4. /\ call[r].op = "delete" /\ call[r] \in TreatyCall /\ header # None
      /\ local[r].cols = {} /\ local[r].dead = {} /\ lock # r
  BY <1>1, <1>3 DEF TreatyPath, Holds, Writes, Drafting
<1>5. copied \in Header
  <2>1. /\ header = [k \in Column |-> header[k]]
        /\ \A k \in Headed : header[k] \in Item \cup {None}
        /\ header["terms"] \in Terms /\ header["by"] \in User
    BY <1>3, <1>4, HeaderAt
  <2>2. /\ "by" \in Column /\ "terms" \in Column /\ "deleted" \in Column
        /\ Headed \subseteq Column /\ "deleted" \notin Headed
    BY DEF Column, Headed
  <2>3. /\ copied = [k \in Column |-> copied[k]]
        /\ \A k \in Column : copied[k] = IF k = "deleted" THEN TRUE ELSE header[k]
    BY <2>1, <2>2
  <2> HIDE DEF copied
  <2>4. \A k \in Headed : copied[k] \in Item \cup {None}
    BY <2>1, <2>2, <2>3
  <2>5. copied["terms"] \in Terms /\ copied["by"] \in User /\ copied["deleted"] \in BOOLEAN
    BY <2>1, <2>2, <2>3
  <2> QED
    BY <2>3, <2>4, <2>5, IsHeader
<1> HIDE DEF copied
<1>6. held \in Locals /\ held.copy = copied /\ held.cols = {} /\ held.dead = {}
  BY <1>3, <1>4, <1>5 DEF Locals
<1>7. /\ pc'[r] = "comparing" /\ local'[r] = held /\ call' = call /\ header' = header /\ lock' = lock
  BY <1>1 DEF Inward, TreatyFrame
<1> HIDE DEF held
<1>8. ~ Listing(r)'
  BY <1>4, <1>7 DEF Listing
<1>9. TreatyPath(r)'
  BY <1>1, <1>3, <1>4, <1>5, <1>6, <1>7, <1>8 DEF TreatyPath, Holds, Writes, Drafting
<1>10. Drafted(r)' /\ Cleared(r)'
  BY <1>7, <1>8, PlainDrafts DEF Writes
<1> QED
  BY <1>1, <1>2, <1>6, <1>9, <1>10, InwardKeeps DEF TreatyLabels

LEMMA ArriveStep ==
    ASSUME TreatyInv, NEW r \in Request, NEW c \in TreatyCall, TreatyArrive(r, c)
    PROVE  /\ pc[r] = "idle" /\ call[r] = None /\ local[r] = Nothing /\ r \notin InFlight
           /\ pc'[r] = "reading" /\ call'[r] = c /\ c # None
           /\ UNCHANGED <<header, rows, lock, local>>
           /\ \A q \in Request \ {r} : pc'[q] = pc[q] /\ call'[q] = call[q]
           /\ met'[r] = InFlight /\ InFlight' = InFlight \cup {r}
           /\ \A q \in Request \ {r} : met'[q] = IF q \in InFlight THEN met[q] \cup {r} ELSE met[q]
           /\ \A x \in rows : x.from # r
           /\ \A x \in rows : Listing(x.from)' = Listing(x.from)
<1>1. /\ pc \in [Request -> TreatyLabels] /\ call \in [Request -> TreatyCall \cup {None}]
      /\ TreatyPath(r) /\ Sourced /\ rows \in SUBSET Row /\ r # None
  BY LocalFacts DEF TreatyInv, TreatyTypeOK, TreatyLabels
<1>2. /\ pc[r] = "idle" /\ call' = [call EXCEPT ![r] = c] /\ met' = Meeting(r)
      /\ pc' = [pc EXCEPT ![r] = "reading"] /\ UNCHANGED <<header, rows, lock, local>>
  BY DEF TreatyArrive, Goto
<1>3. call[r] = None /\ local[r] = Nothing
  BY <1>1, <1>2 DEF TreatyPath
<1>4. r \notin InFlight /\ InFlight' = InFlight \cup {r}
  BY <1>1, <1>2 DEF InFlight, Active
<1>5. /\ met'[r] = InFlight
      /\ \A q \in Request \ {r} : met'[q] = IF q \in InFlight THEN met[q] \cup {r} ELSE met[q]
  BY <1>2, <1>4 DEF Meeting
<1>6. \A x \in rows : x.from # r
  BY <1>1, <1>3 DEF Sourced
<1>7. \A x \in rows : Listing(x.from)' = Listing(x.from)
  <2>1. \A x \in rows : x.from = None \/ x.from \in Request \ {r}
    BY <1>1, <1>6 DEF Row
  <2> QED
    BY <1>1, <1>2, <2>1 DEF Listing
<1>8. c # None
  BY CallKinds
<1> QED
  BY <1>1, <1>2, <1>3, <1>4, <1>5, <1>6, <1>7, <1>8

LEMMA ArriveKeepsTreaty ==
    ASSUME TreatyInv, NEW r \in Request, NEW c \in TreatyCall, TreatyArrive(r, c)
    PROVE  TreatyInv'
<1>1. /\ pc[r] = "idle" /\ call[r] = None /\ local[r] = Nothing /\ r \notin InFlight
      /\ pc'[r] = "reading" /\ call'[r] = c /\ c # None
      /\ header' = header /\ rows' = rows /\ lock' = lock /\ local' = local
      /\ \A q \in Request \ {r} : pc'[q] = pc[q] /\ call'[q] = call[q]
      /\ met'[r] = InFlight /\ InFlight' = InFlight \cup {r}
      /\ \A q \in Request \ {r} : met'[q] = IF q \in InFlight THEN met[q] \cup {r} ELSE met[q]
      /\ \A x \in rows : x.from # r
      /\ \A x \in rows : Listing(x.from)' = Listing(x.from)
  BY ArriveStep
<1>2. TreatyTypeOK /\ TreatyMet /\ Sourced /\ Headless
  BY DEF TreatyInv
<1>3. TreatyTypeOK'
  <2>1. /\ pc \in [Request -> TreatyLabels] /\ call \in [Request -> TreatyCall \cup {None}]
        /\ met \in [Request -> SUBSET Request]
    BY <1>2 DEF TreatyTypeOK, TreatyLabels
  <2>2. /\ pc' = [pc EXCEPT ![r] = "reading"] /\ call' = [call EXCEPT ![r] = c] /\ met' = Meeting(r)
    BY DEF TreatyArrive, Goto
  <2>3. met' \in [Request -> SUBSET Request]
    BY <2>1, <2>2 DEF Meeting, InFlight
  <2>4. pc' \in [Request -> TreatyLabels] /\ call' \in [Request -> TreatyCall \cup {None}]
    BY <2>1, <2>2 DEF TreatyLabels
  <2> QED
    BY <1>1, <1>2, <2>3, <2>4 DEF TreatyTypeOK, TreatyLabels
<1>4. TreatyMet'
  <2>0. InFlight \subseteq Request
    BY DEF InFlight
  <2>1. ASSUME NEW a \in InFlight', NEW b \in InFlight', a # b PROVE b \in met'[a]
    <3>1. CASE a = r
      BY <1>1, <2>1, <3>1
    <3>2. CASE a # r
      <4>1. a \in InFlight /\ met'[a] = met[a] \cup {r}
        BY <1>1, <2>0, <2>1, <3>2
      <4>2. CASE b = r
        BY <4>1, <4>2
      <4>3. CASE b # r
        <5>1. b \in InFlight
          BY <1>1, <2>1, <4>3
        <5> QED
          BY <1>2, <2>1, <4>1, <5>1 DEF TreatyMet
      <4> QED
        BY <4>2, <4>3
    <3> QED
      BY <3>1, <3>2
  <2>2. ASSUME NEW a \in Request, NEW b \in Request, b \in met'[a] PROVE a \in met'[b]
    <3>1. CASE a = r
      <4>1. b \in InFlight /\ b # r
        BY <1>1, <2>2, <3>1
      <4> QED
        BY <1>1, <3>1, <4>1
    <3>2. CASE a # r /\ b = r
      <4>1. a \notin InFlight => r \in met[a] /\ a \in met[r]
        BY <1>1, <1>2, <2>2, <3>2 DEF TreatyMet
      <4>2. met[r] = {}
        BY <1>1, LocalFacts DEF TreatyPath
      <4> QED
        BY <1>1, <3>2, <4>1, <4>2
    <3>3. CASE a # r /\ b # r
      <4>1. b \in met[a]
        BY <1>1, <2>2, <3>3
      <4>2. a \in met[b]
        BY <1>2, <4>1 DEF TreatyMet
      <4> QED
        BY <1>1, <3>3, <4>2
    <3> QED
      BY <3>1, <3>2, <3>3
  <2> QED
    BY <2>1, <2>2 DEF TreatyMet
<1>5. Sourced' /\ Headless'
  <2> SUFFICES ASSUME NEW x \in rows, x.from # None
               PROVE  /\ call'[x.from] # None
                      /\ IF Listing(x.from)'
                           THEN /\ pc'[x.from] = "done"
                                /\ x.list = "companies" \/ x.list \in DOMAIN Given(call'[x.from])
                           ELSE call'[x.from].op = "join" /\ x.list = "mgas"
    BY <1>1, <1>2 DEF Sourced, Headless
  <2>1. x.from \in Request \ {r}
    BY <1>1, <1>2 DEF TreatyTypeOK, Row
  <2> QED
    BY <1>1, <1>2, <2>1 DEF Sourced
<1>6. TreatyPath(r)' /\ Drafted(r)' /\ Cleared(r)'
  <2>1. TreatyPath(r)
    BY DEF TreatyInv
  <2>2. TreatyPath(r)'
    BY <1>1, <2>1 DEF TreatyPath, Holds, Writes, Drafting
  <2> QED
    BY <1>1, <2>2, EarlyDrafts DEF Drafting, Writes
<1>7. ASSUME NEW q \in Request \ {r} PROVE TreatyPath(q)' /\ Drafted(q)' /\ Cleared(q)'
  <2>1. /\ TreatyPath(q) /\ Drafted(q) /\ Cleared(q)
    BY DEF TreatyInv
  <2>2. Listing(q)' = Listing(q) /\ Swept(q)' = Swept(q)
    BY <1>1 DEF Listing, Swept
  <2>3. pc[q] = "idle" => met'[q] = met[q]
    BY <1>1 DEF InFlight, Active
  <2>4. TreatyPath(q)'
    BY <1>1, <2>1, <2>2, <2>3 DEF TreatyPath
  <2>5. Drafted(q)'
    BY <1>1, <2>1, <2>2 DEF Drafted
  <2>6. met[q] \subseteq met'[q]
    BY <1>1
  <2>7. Cleared(q)'
    BY <1>1, <2>1, <2>2, <2>6 DEF Cleared
  <2> QED
    BY <2>4, <2>5, <2>7
<1>8. \A q \in Request : TreatyPath(q)' /\ Drafted(q)' /\ Cleared(q)'
  BY <1>6, <1>7
<1> QED
  BY <1>3, <1>4, <1>5, <1>8 DEF TreatyInv

LEMMA EarlierTerms ==
    ASSUME NEW c \in Earlier, c # None
    PROVE  IsTerms(c) /\ c.op = "create" /\ c.terms # None /\ Amended(c, Blank) \in Header
<1>1. IsTerms(c) /\ c.op = "create" /\ c.terms # None
  BY TreatyAssumption
<1> QED
  BY <1>1, AmendedType

LEMMA TreatyFirst == TreatyInit => TreatyInv
<1> SUFFICES ASSUME TreatyInit PROVE TreatyInv
  OBVIOUS
<1>1. /\ lock = None
      /\ pc = [r \in Request |-> "idle"] /\ call = [r \in Request |-> None]
      /\ local = [r \in Request |-> Nothing] /\ met = [r \in Request |-> {}]
  BY DEF TreatyInit
<1>2. PICK c \in Earlier :
         /\ header = IF c = None THEN None ELSE Amended(c, Blank)
         /\ rows = {[list |-> "companies", item |-> i, from |-> None] : i \in Reinsurer}
                   \cup (IF c = None THEN {} ELSE UNION {Entries(c, k, None) : k \in DOMAIN Given(c)})
  BY DEF TreatyInit
<1>3. header \in Header \cup {None} /\ (header = None => c = None)
  BY <1>2, EarlierTerms, Nones
<1>4. {[list |-> "companies", item |-> i, from |-> None] : i \in Reinsurer} \subseteq Row
  BY TreatyAssumption DEF Row
<1>5. c # None =>
         \A k \in DOMAIN Given(c) : \A x \in Entries(c, k, None) : x \in Row /\ x.from = None
  BY EarlierTerms, EntriesType
<1>6. \A x \in rows : x \in Row /\ x.from = None
  BY <1>2, <1>4, <1>5
<1>7. Nothing \in Locals
  BY DEF Nothing, Locals
<1>8. TreatyTypeOK
  BY <1>1, <1>3, <1>6, <1>7 DEF TreatyTypeOK
<1>9. TreatyMet /\ Sourced
  BY <1>1, <1>6 DEF TreatyMet, Sourced, InFlight, Active
<1>10. Headless
  BY <1>2, <1>3 DEF Headless
<1>11. ASSUME NEW r \in Request PROVE TreatyPath(r) /\ Drafted(r) /\ Cleared(r)
  <2>1. /\ pc[r] = "idle" /\ call[r] = None /\ met[r] = {} /\ local[r] = Nothing /\ lock # r
    BY <1>1, Nones
  <2> QED
    BY <2>1 DEF TreatyPath, Drafted, Cleared, Holds, Writes, Drafting
<1> QED
  BY <1>8, <1>9, <1>10, <1>11 DEF TreatyInv

LEMMA AbortKeeps ==
    ASSUME TreatyInv, NEW r \in Request, TreatyAbort(r) PROVE TreatyInv'
<1>1. Rolled(r) /\ r \in InFlight
  BY RollsBack DEF TreatyAbort, TreatyInv
<1> QED
  BY <1>1, RolledKeeps

LEMMA TreatyKept == TreatyInv /\ [TreatyNext]_treatyVars => TreatyInv'
<1> SUFFICES ASSUME TreatyInv, [TreatyNext]_treatyVars PROVE TreatyInv'
  OBVIOUS
<1>1. CASE UNCHANGED treatyVars
  BY <1>1 DEF treatyVars, TreatyInv, TreatyTypeOK, TreatyMet, Sourced, Headless, TreatyPath, Drafted,
              Cleared, Swept, Listing, InFlight, Active
<1>2. ASSUME NEW r \in Request, TreatyStep(r) PROVE TreatyInv'
  BY <1>2, ReadKeeps, EnsureKeeps, MakeKeeps, BuildKeeps, CompareKeeps, UpdateKeeps, SearchKeeps,
     DeleteKeeps, InsertKeeps, CommitKeeps, FindKeeps, LinkedKeeps, JoinKeeps, NameKeeps, MarkKeeps
     DEF TreatyStep
<1> QED
  BY <1>1, <1>2, ArriveKeepsTreaty, AbortKeeps DEF TreatyNext

\* The header, the lists and what requests hold keep their types, whatever is asked.
THEOREM TreatyTypeCorrect == TreatySpec => []TreatyTypeOK
<1>1. TreatyInv => TreatyTypeOK
  BY DEF TreatyInv
<1> QED
  BY <1>1, TreatyFirst, TreatyKept, PTL DEF TreatySpec

----------------------------------------------------------------------------
\* What others see of a step

\* What a step shows the others: nothing, or a commit, an update or a new link.
LEMMA StepKinds ==
    ASSUME TreatyInv, NEW r \in Request, TreatyStep(r) \/ TreatyAbort(r)
    PROVE  /\ r \in InFlight /\ TreatyFrame(r) /\ local[r].cols \subseteq local'[r].cols
           /\ \/ header' = header /\ rows' = rows
              \/ Commit(r)
              \/ Update(r) /\ rows' = rows
              \/ /\ call[r].op = "join" /\ header' = header /\ rows' = rows \cup {Link(r)}
                 /\ local'[r] = local[r]
<1>0. TreatyTypeOK /\ TreatyPath(r) /\ local[r] \in Locals /\ local[r].cols \in SUBSET Column
  BY LocalFacts DEF TreatyInv
<1> DEFINE calm == /\ r \in InFlight /\ TreatyFrame(r) /\ local[r].cols \subseteq local'[r].cols
                   /\ header' = header /\ rows' = rows
<1>1. ASSUME NEW held, NEW label, pc[r] \notin {"idle", "done", "failed"},
             Inward(r, label, held), local[r].cols \subseteq held.cols
      PROVE  calm
  BY <1>1 DEF Inward, InFlight, Active
<1>2. ASSUME Rolled(r), pc[r] \notin {"idle", "done", "failed"} PROVE calm
  BY <1>0, <1>2 DEF Rolled, InFlight, Active, Locals
<1> DEFINE Same(held) == held.cols = local[r].cols
<1>3. /\ \A a : Same([local[r] EXCEPT !.copy = a])
      /\ \A a : Same([local[r] EXCEPT !.sought = a])
      /\ \A a, b : Same([local[r] EXCEPT !.copy = a, !.todo = b])
      /\ \A a, b : Same([local[r] EXCEPT !.fresh = a, !.sought = b])
      /\ \A a, b : Same([local[r] EXCEPT !.dead = a, !.sought = b])
      /\ \A a, b : Same([local[r] EXCEPT !.fresh = a, !.todo = b])
  BY <1>0 DEF Locals
<1>4. CASE TreatyAbort(r)
  <2>1. Rolled(r) /\ pc[r] \notin {"idle", "done", "failed"}
    BY <1>0, <1>4, RollsBack DEF TreatyAbort, InFlight, Active
  <2> QED
    BY <1>2, <2>1
<1>5. CASE Read(r)
  <2> DEFINE held == [local[r] EXCEPT !.copy = Amended(call[r], IF header = None THEN Blank ELSE header),
                                      !.todo = DOMAIN Given(call[r])]
  <2>1. pc[r] = "reading" /\ (Rolled(r) \/ Inward(r, "ensuring", held))
    BY <1>0, <1>5, ReadStep
  <2>2. Same(held)
    BY <1>3
  <2> HIDE DEF held
  <2> QED
    BY <1>1, <1>2, <2>1, <2>2
<1>6. CASE Ensure(r)
  BY <1>0, <1>1, <1>2, <1>3, <1>6, EnsureStep
<1>7. CASE Make(r)
  BY <1>0, <1>1, <1>2, <1>3, <1>7, MakeStep
<1>8. CASE Build(r)
  <2>1. CASE Rolled(r)
    BY <1>0, <1>2, <1>8, <2>1, BuildStep
  <2>2. CASE ~ Rolled(r)
    <3>1. /\ pc[r] = "building" /\ TreatyFrame(r) /\ header' = header /\ rows' = rows
          /\ local'[r] = [local[r] EXCEPT !.cols = Column, !.todo = {}, !.fresh =
                local[r].fresh \cup UNION {Entries(call[r], k, r) : k \in DOMAIN Given(call[r])}]
      BY <1>0, <1>8, <2>2, BuildStep
    <3>2. local'[r].cols = Column
      BY <1>0, <3>1 DEF Locals
    <3> QED
      BY <1>0, <3>1, <3>2 DEF InFlight, Active
  <2> QED
    BY <2>1, <2>2
<1>9. CASE Compare(r)
  <2>1. PICK cols \in SUBSET Column :
           Inward(r, IF cols # {} THEN "updating" ELSE IF call[r].op = "amend" THEN "clearing" ELSE "done",
                  [local[r] EXCEPT !.cols = cols])
    BY <1>0, <1>9, CompareStep
  <2>2. pc[r] = "comparing"
    BY <1>0, <1>9, CompareStep
  <2>3. local[r].cols = {}
    BY <1>0, <2>2 DEF TreatyPath, Holds, Writes, Drafting
  <2> QED
    BY <1>1, <2>1, <2>2, <2>3
<1>10. CASE Update(r)
  BY <1>0, <1>10, UpdateStep DEF InFlight, Active
<1>11. CASE Search(r)
  BY <1>0, <1>1, <1>3, <1>11, SearchStep
<1>12. CASE Delete(r)
  BY <1>0, <1>1, <1>3, <1>12, DeleteStep
<1>13. CASE Insert(r)
  BY <1>0, <1>1, <1>2, <1>3, <1>13, InsertStep
<1>14. CASE Commit(r)
  <2>1. /\ pc[r] = "clearing" /\ TreatyFrame(r) /\ local'[r] = [local[r] EXCEPT !.dead = {}, !.fresh = {}]
    BY <1>0, <1>14, CommitStep
  <2>2. local'[r].cols = local[r].cols
    BY <1>0, <2>1 DEF Locals
  <2> QED
    BY <1>14, <2>1, <2>2 DEF InFlight, Active
<1>15. CASE Find(r)
  BY <1>0, <1>1, <1>2, <1>3, <1>15, FindStep
<1>16. CASE Linked(r)
  BY <1>0, <1>1, <1>16, LinkedStep
<1>17. CASE Join(r)
  <2>1. pc[r] = "joining" /\ call[r].op = "join"
    BY <1>0, <1>17, JoinStep DEF TreatyPath
  <2>2. CASE Rolled(r)
    BY <1>2, <2>1, <2>2
  <2>3. CASE ~ Rolled(r)
    BY <1>0, <1>17, <2>1, <2>3, JoinStep DEF InFlight, Active
  <2> QED
    BY <2>2, <2>3
<1>18. CASE Name(r)
  BY <1>0, <1>1, <1>3, <1>18, NameStep
<1>19. CASE Mark(r)
  BY <1>0, <1>1, <1>3, <1>19, MarkStep
<1> HIDE DEF calm, Same
<1>20. TreatyAbort(r) \/ Read(r) \/ Ensure(r) \/ Make(r) \/ Build(r) \/ Compare(r) \/ Update(r)
       \/ Search(r) \/ Delete(r) \/ Insert(r) \/ Commit(r)
       \/ Find(r) \/ Linked(r) \/ Join(r) \/ Name(r) \/ Mark(r)
  BY DEF TreatyStep
<1> QED
  BY <1>4, <1>5, <1>6, <1>7, <1>8, <1>9, <1>10, <1>11, <1>12, <1>13, <1>14, <1>15, <1>16, <1>17, <1>18,
     <1>19, <1>20

----------------------------------------------------------------------------
\* Lists of one request

\* Rows that stay keep what is said of them: what made them has ended.
LEMMA OldRowsUnmixed ==
    ASSUME TreatyInv, MixedOnlyWithoutLock, NEW r \in InFlight, TreatyFrame(r),
           NEW x \in rows, NEW y \in rows, x.list = y.list, x.list # "companies", x.from # y.from,
           Listing(x.from), y.from = None \/ Listing(y.from)
    PROVE  y.from \in met'[x.from] /\ (local'[x.from].cols = {} \/ local'[y.from].cols = {})
<1>1. /\ y.from \in met[x.from]
      /\ local[x.from].cols = {} \/ local[y.from].cols = {}
  BY DEF MixedOnlyWithoutLock
<1>2. rows \in SUBSET Row /\ Sourced /\ met \in [Request -> SUBSET Request]
  BY DEF TreatyInv, TreatyTypeOK
<1>3. x.from \in Request
  BY <1>2 DEF Row, Listing
<1>4. y.from \in Request /\ y.from # None
  BY <1>1, <1>2, <1>3, Nones
<1>5. pc[x.from] = "done" /\ pc[y.from] = "done"
  BY <1>2, <1>4 DEF Sourced, Listing
<1>6. x.from # r /\ y.from # r
  BY <1>5 DEF InFlight, Active
<1> QED
  BY <1>1, <1>3, <1>4, <1>6 DEF TreatyFrame

\* A commit finds of the lists it writes only rows of requests it met.
LEMMA CommitUnmixed ==
    ASSUME TreatyInv, NEW r \in Request, Commit(r),
           NEW y \in rows \ local[r].dead, y.list \in DOMAIN Given(call[r]),
           y.from = None \/ Listing(y.from), y.list # "companies"
    PROVE  /\ y.from \in met[r] /\ r \in met[y.from]
           /\ local[r].cols = {} \/ local[y.from].cols = {}
<1>0. TreatyTypeOK /\ TreatyMet /\ met \in [Request -> SUBSET Request]
  BY DEF TreatyInv, TreatyTypeOK
<1>1. pc[r] = "clearing" /\ local[r].todo = {}
  BY <1>0, CommitStep
<1>2. /\ Cleared(r) /\ TreatyPath(r) /\ Headless
  BY LocalFacts
<1>3. header # None
  BY <1>2 DEF Headless
<1>4. call[r].op = "amend"
  BY <1>1, <1>2, <1>3 DEF TreatyPath, Writes
<1>5. y.list \in Swept(r)
  BY <1>1 DEF Swept
<1>6. y.from \in met[r] /\ (local[r].cols = {} \/ local[y.from].cols = {})
  BY <1>1, <1>2, <1>4, <1>5 DEF Cleared, Writes
<1> QED
  BY <1>0, <1>6 DEF TreatyMet

LEMMA UnmixedStays ==
    ASSUME TreatyInv, MixedOnlyWithoutLock, NEW r \in Request, TreatyStep(r) \/ TreatyAbort(r)
    PROVE  MixedOnlyWithoutLock'
<1>1. r \in InFlight /\ TreatyFrame(r)
  BY StepKinds
<1>2. call' = call /\ met' = met /\ \A q : Listing(q)' = Listing(q)
  BY <1>1 DEF TreatyFrame, Listing
<1> SUFFICES ASSUME NEW x \in rows', NEW y \in rows',
                    x.list = y.list, x.list # "companies", x.from # y.from,
                    Listing(x.from), y.from = None \/ Listing(y.from)
             PROVE  y.from \in met'[x.from] /\ (local'[x.from].cols = {} \/ local'[y.from].cols = {})
  BY <1>2 DEF MixedOnlyWithoutLock
<1>3. CASE x \in rows /\ y \in rows
  BY <1>1, <1>3, OldRowsUnmixed
<1>4. CASE Commit(r)
  <2>0. TreatyTypeOK /\ local[r] \in Locals /\ rows \in SUBSET Row
    BY LocalFacts DEF TreatyInv
  <2>1. /\ rows' = (rows \ local[r].dead) \cup local[r].fresh
        /\ local'[r] = [local[r] EXCEPT !.dead = {}, !.fresh = {}]
    BY <1>4, <2>0, CommitStep
  <2>2. local'[r].cols = local[r].cols
    BY <2>0, <2>1 DEF Locals
  <2>3. \A z \in local[r].fresh :
           z.from = r /\ (z.list # "companies" => z.list \in DOMAIN Given(call[r]))
    BY <1>4, CommitFacts
  <2>4. CASE x \in local[r].fresh
    <3>1. x.from = r /\ x.list \in DOMAIN Given(call[r])
      BY <2>3, <2>4
    <3>2. y \in rows \ local[r].dead
      BY <2>1, <2>3, <3>1
    <3>3. /\ y.from \in met[r]
          /\ local[r].cols = {} \/ local[y.from].cols = {}
      BY <1>4, <3>1, <3>2, CommitUnmixed
    <3>4. y.from \in Request /\ y.from # r
      BY <3>1, <3>3 DEF TreatyInv, TreatyTypeOK
    <3> QED
      BY <1>1, <1>2, <2>2, <3>1, <3>3, <3>4 DEF TreatyFrame
  <2>5. CASE y \in local[r].fresh /\ x \notin local[r].fresh
    <3>1. y.from = r /\ y.list \in DOMAIN Given(call[r])
      BY <2>3, <2>5
    <3>2. x \in rows \ local[r].dead
      BY <2>1, <2>5
    <3>3. /\ r \in met[x.from]
          /\ local[r].cols = {} \/ local[x.from].cols = {}
      BY <1>4, <3>1, <3>2, CommitUnmixed
    <3>4. x.from \in Request /\ x.from # r
      BY <2>0, <3>1, <3>2 DEF Row, Listing
    <3> QED
      BY <1>1, <1>2, <2>2, <3>1, <3>3, <3>4 DEF TreatyFrame
  <2> QED
    BY <1>3, <2>1, <2>4, <2>5
<1>5. CASE call[r].op = "join" /\ rows' = rows \cup {Link(r)}
  <2>1. ~ Listing(r) /\ Link(r).from = r
    BY <1>5 DEF Listing, Link
  <2>2. r # None
    BY Nones
  <2>3. x # Link(r) /\ y # Link(r)
    BY <2>1, <2>2
  <2> QED
    BY <1>3, <1>5, <2>3
<1> QED
  BY <1>3, <1>4, <1>5, StepKinds

LEMMA ArriveUnmixed ==
    ASSUME TreatyInv, MixedOnlyWithoutLock, NEW r \in Request, NEW c \in TreatyCall, TreatyArrive(r, c)
    PROVE  MixedOnlyWithoutLock'
<1>1. /\ rows' = rows /\ local' = local
      /\ \A q \in Request \ {r} : met'[q] = IF q \in InFlight THEN met[q] \cup {r} ELSE met[q]
      /\ \A x \in rows : x.from # r /\ Listing(x.from)' = Listing(x.from)
  BY ArriveStep
<1>2. rows \in SUBSET Row
  BY DEF TreatyInv, TreatyTypeOK
<1> SUFFICES ASSUME NEW x \in rows, NEW y \in rows,
                    x.list = y.list, x.list # "companies", x.from # y.from,
                    Listing(x.from), y.from = None \/ Listing(y.from)
             PROVE  y.from \in met'[x.from] /\ (local[x.from].cols = {} \/ local[y.from].cols = {})
  BY <1>1 DEF MixedOnlyWithoutLock
<1>3. /\ y.from \in met[x.from]
      /\ local[x.from].cols = {} \/ local[y.from].cols = {}
  BY DEF MixedOnlyWithoutLock
<1>4. x.from \in Request \ {r}
  BY <1>1, <1>2 DEF Row, Listing
<1> QED
  BY <1>1, <1>3, <1>4

\* A list keeps the entries of one request, however creations, amendments, joining MGAs and
\* removals interleave, unless two overlapped and one of them had nothing to save in the header.
THEOREM ListsUnmixed == TreatySpec => []MixedOnlyWithoutLock
<1>1. TreatyInit => MixedOnlyWithoutLock
  <2> SUFFICES ASSUME TreatyInit, NEW x \in rows, Listing(x.from) PROVE FALSE
    BY DEF MixedOnlyWithoutLock
  <2>1. rows \in SUBSET Row /\ call = [r \in Request |-> None]
    BY TreatyFirst DEF TreatyInit, TreatyInv, TreatyTypeOK
  <2> QED
    BY <2>1 DEF Row, Listing
<1>2. TreatyInv /\ MixedOnlyWithoutLock /\ [TreatyNext]_treatyVars => MixedOnlyWithoutLock'
  <2> SUFFICES ASSUME TreatyInv, MixedOnlyWithoutLock, [TreatyNext]_treatyVars
               PROVE  MixedOnlyWithoutLock'
    OBVIOUS
  <2>1. CASE UNCHANGED treatyVars
    BY <2>1 DEF treatyVars, MixedOnlyWithoutLock, Listing
  <2> QED
    BY <2>1, UnmixedStays, ArriveUnmixed DEF TreatyNext
<1> QED
  BY <1>1, <1>2, TreatyFirst, TreatyKept, PTL DEF TreatySpec

----------------------------------------------------------------------------
\* What the header loses

\* What a request that amends, joins or deletes may change in the header: Update and Commit alone.
LEMMA HeaderSteps ==
    ASSUME TreatyInv, NEW r \in Request, TreatyStep(r) \/ TreatyAbort(r), header # None,
           NEW k \in Column, header'[k] # header[k]
    PROVE  /\ k \in local[r].cols /\ call[r].op # "create" /\ pc[r] \in {"updating", "clearing"}
           /\ pc'[r] = "done" /\ header'[k] = local[r].copy[k]
           /\ Commit(r) \/ Update(r)
<1>0. TreatyTypeOK /\ TreatyPath(r) /\ header \in Header /\ local[r].cols \in SUBSET Column
  BY LocalFacts DEF TreatyInv
<1>1. Commit(r) \/ Update(r)
  BY StepKinds
<1>2. CASE Commit(r)
  <2>1. /\ header'[k] = IF k \in local[r].cols THEN local[r].copy[k] ELSE header[k]
        /\ call[r].op # "create"
    BY <1>2, CommitFacts
  <2> QED
    BY <1>0, <1>2, <2>1, CommitStep
<1>3. CASE Update(r)
  <2>1. /\ pc[r] = "updating" /\ call[r].op # "create" /\ local[r].copy \in Header
        /\ pc'[r] = "done" /\ header' = Written(r)
    BY <1>0, <1>3, UpdateStep DEF TreatyPath, Holds, Drafting
  <2>2. header'[k] = IF k \in local[r].cols THEN local[r].copy[k] ELSE header[k]
    BY <1>0, <2>1, WrittenType
  <2> QED
    BY <1>3, <2>1, <2>2
<1> QED
  BY <1>1, <1>2, <1>3

\* A request in flight has met whoever changes the header.
LEMMA OthersElsewhere ==
    ASSUME TreatyInv, NEW r \in Request, TreatyStep(r) \/ TreatyAbort(r),
           NEW q \in Request \ {r}, Elsewhere(q)
    PROVE  Elsewhere(q)'
<1>1. /\ r \in InFlight /\ TreatyFrame(r) /\ local[r].cols \subseteq local'[r].cols
  BY StepKinds
<1>2. /\ call' = call /\ met' = met /\ pc'[q] = pc[q] /\ local'[q] = local[q]
      /\ met[q] \in SUBSET Request
      /\ \A p \in Request : local[p].cols \subseteq local'[p].cols
  BY <1>1 DEF TreatyFrame, TreatyInv, TreatyTypeOK
<1>3. ASSUME pc[q] \in {"ensuring", "making", "comparing", "linking", "joining", "naming"},
             call[q].op # "create", NEW k \in Column \ Asked(call[q])
      PROVE  local[q].copy[k] = header'[k] \/ \E p \in met[q] : k \in local'[p].cols
  <2>1. local[q].copy[k] = header[k] \/ \E p \in met[q] : k \in local[p].cols
    BY <1>3 DEF Elsewhere
  <2>2. TreatyPath(q)
    BY LocalFacts
  <2>3. header # None
    BY <1>3, <2>2 DEF TreatyPath, Holds, Drafting
  <2>4. r \in met[q]
    <3>1. q \in InFlight
      BY <1>3 DEF InFlight, Active
    <3> QED
      BY <1>1, <3>1 DEF TreatyInv, TreatyMet
  <2>5. CASE header'[k] = header[k]
    BY <1>2, <2>1, <2>5
  <2>6. CASE header'[k] # header[k]
    <3>1. k \in local[r].cols
      BY <2>3, <2>6, HeaderSteps
    <3> QED
      BY <1>1, <2>4, <3>1
  <2> QED
    BY <2>5, <2>6
<1>4. ASSUME pc[q] \in {"updating"} \cup Writes, call[q].op # "create",
             NEW k \in local[q].cols \ Asked(call[q])
      PROVE  \E p \in met[q] : k \in local'[p].cols
  <2>1. \E p \in met[q] : k \in local[p].cols
    BY <1>4 DEF Elsewhere
  <2> QED
    BY <1>2, <2>1
<1> QED
  BY <1>2, <1>3, <1>4 DEF Elsewhere

\* What a request has copied, or found different, is still so.
LEMMA CopyElsewhere ==
    ASSUME TreatyInv, NEW r \in Request, TreatyFrame(r), header' = header, Elsewhere(r),
           local'[r].copy = local[r].copy, local'[r].cols = local[r].cols,
           \/ /\ pc[r] \in {"ensuring", "making", "comparing", "linking", "joining", "naming"}
              /\ pc'[r] \in {"ensuring", "making", "comparing", "linking", "joining", "naming"}
           \/ /\ pc[r] \in {"updating"} \cup Writes /\ pc'[r] \in {"updating"} \cup Writes
    PROVE  Elsewhere(r)'
<1>1. /\ call' = call /\ met' = met
      /\ \A q \in Request : local'[q].cols = local[q].cols
  BY DEF TreatyFrame
<1>2. met[r] \in SUBSET Request
  BY DEF TreatyInv, TreatyTypeOK
<1>3. \A k : (\E q \in met[r] : k \in local[q].cols) <=> (\E q \in met'[r] : k \in local'[q].cols)
  BY <1>1, <1>2
<1>4. CASE pc[r] \in {"ensuring", "making", "comparing", "linking", "joining", "naming"}
  <2>1. pc[r] \notin {"updating"} \cup Writes /\ pc'[r] \notin {"updating"} \cup Writes
    BY <1>4 DEF Writes
  <2> QED
    BY <1>1, <1>3, <1>4, <2>1 DEF Elsewhere
<1>5. CASE pc[r] \in {"updating"} \cup Writes
  <2>1. pc'[r] \notin {"ensuring", "making", "comparing", "linking", "joining", "naming"}
    BY <1>5 DEF Writes
  <2> QED
    BY <1>1, <1>3, <1>5, <2>1 DEF Elsewhere
<1> QED
  BY <1>4, <1>5

LEMMA NotElsewhere ==
    ASSUME NEW r,
           \/ pc'[r] \in {"idle", "reading", "building", "marking", "done", "failed"}
           \/ call'[r].op = "create"
    PROVE  Elsewhere(r)'
BY DEF Elsewhere, Writes

LEMMA OwnElsewhere ==
    ASSUME TreatyInv, NEW r \in Request, TreatyStep(r) \/ TreatyAbort(r), Elsewhere(r)
    PROVE  Elsewhere(r)'
<1>0. /\ TreatyTypeOK /\ TreatyPath(r) /\ local[r] \in Locals /\ header \in Header \cup {None}
      /\ local[r].cols \in SUBSET Column
  BY LocalFacts DEF TreatyInv
<1>1. CASE Rolled(r)
  BY <1>1, NotElsewhere DEF Rolled
<1>2. CASE TreatyAbort(r)
  BY <1>0, <1>1, <1>2, RollsBack DEF TreatyAbort
<1>3. CASE Read(r) /\ ~ Rolled(r) /\ call[r].op # "create"
  <2> DEFINE copied == Amended(call[r], header)
  <2>1. /\ pc[r] = "reading" /\ call[r].op = "amend" /\ header # None
        /\ Inward(r, "ensuring", [local[r] EXCEPT !.copy = copied, !.todo = DOMAIN Given(call[r])])
    BY <1>0, <1>3, ReadStep
  <2>2. call[r] \in TreatyCall
    BY <1>0, <2>1 DEF TreatyPath
  <2>3. IsTerms(call[r])
    BY <2>1, <2>2, CallKinds
  <2>4. ASSUME NEW k \in Column \ Asked(call[r]) PROVE copied[k] = header[k]
    <3>1. /\ k # "by" /\ (k = "terms" => call[r].terms = None) /\ k \notin DOMAIN call[r].heads
          /\ k \notin DOMAIN call[r].lists \cap Headed
      BY <2>1 DEF Asked
    <3>2. DOMAIN Given(call[r]) = DOMAIN call[r].lists
      BY <2>1, <2>3, TermFields
    <3>3. k \in Headed \/ k = "terms" \/ k = "deleted"
      BY <3>1 DEF Column
    <3> QED
      BY <2>3, <3>1, <3>2, <3>3, AmendedAt DEF Alone
  <2> HIDE DEF copied
  <2>5. local'[r].copy = copied /\ header' = header /\ pc'[r] = "ensuring" /\ call' = call
    BY <1>0, <2>1 DEF Inward, TreatyFrame, Locals
  <2> QED
    BY <2>4, <2>5 DEF Elsewhere, Writes
<1>4. CASE Ensure(r) /\ ~ Rolled(r)
  <2>1. /\ pc[r] = "ensuring"
        /\ Inward(r, "making", [local[r] EXCEPT
             !.sought = {[list |-> "companies", item |-> i, from |-> r] : i \in Missing(r)}])
    BY <1>0, <1>4, EnsureStep
  <2>2. /\ TreatyFrame(r) /\ header' = header /\ pc'[r] = "making"
        /\ local'[r].copy = local[r].copy /\ local'[r].cols = local[r].cols
    BY <1>0, <2>1 DEF Inward, Locals
  <2> QED
    BY <2>1, <2>2, CopyElsewhere
<1>5. CASE Make(r) /\ ~ Rolled(r) /\ call[r].op # "create"
  <2>1. /\ pc[r] = "making"
        /\ Inward(r, "comparing", [local[r] EXCEPT !.fresh = local[r].sought, !.sought = {}])
    BY <1>0, <1>5, MakeStep
  <2>2. /\ TreatyFrame(r) /\ header' = header /\ pc'[r] = "comparing"
        /\ local'[r].copy = local[r].copy /\ local'[r].cols = local[r].cols
    BY <1>0, <2>1 DEF Inward, Locals
  <2> QED
    BY <2>1, <2>2, CopyElsewhere
<1>6. CASE (Read(r) \/ Make(r) \/ Build(r)) /\ call[r].op = "create"
  <2>1. call' = call
    BY StepKinds DEF TreatyFrame
  <2> QED
    BY <1>6, <2>1, NotElsewhere
<1>7. CASE Build(r)
  <2>1. call[r].op = "create"
    BY <1>0, <1>7, BuildStep DEF TreatyPath
  <2> QED
    BY <1>6, <1>7, <2>1
<1>8. CASE Compare(r)
  <2>1. PICK cols \in SUBSET Column :
           /\ cols = {k \in Column : local[r].copy[k] # header[k]}
           /\ Inward(r, IF cols # {} THEN "updating" ELSE IF call[r].op = "amend" THEN "clearing" ELSE "done",
                     [local[r] EXCEPT !.cols = cols])
    BY <1>0, <1>8, CompareStep
  <2>2. pc[r] = "comparing" /\ call[r].op # "create" /\ local[r].cols = {}
    BY <1>0, <1>8, CompareStep DEF TreatyPath, Holds, Writes, Drafting
  <2>3. /\ pc'[r] \in {"updating", "clearing", "done"} /\ call' = call /\ met' = met
        /\ local'[r].cols = cols /\ \A q \in Request \ {r} : local'[q] = local[q]
    BY <1>0, <2>1 DEF Inward, TreatyFrame, Locals
  <2>4. ASSUME NEW k \in cols \ Asked(call[r]) PROVE \E q \in met[r] : k \in local'[q].cols
    <3>1. PICK q \in met[r] : k \in local[q].cols
      BY <2>1, <2>2, <2>4 DEF Elsewhere
    <3>2. q \in Request /\ q # r
      BY <2>2, <3>1 DEF TreatyInv, TreatyTypeOK
    <3> QED
      BY <2>3, <3>1, <3>2
  <2> QED
    BY <2>3, <2>4 DEF Elsewhere
<1>9. CASE Update(r) \/ Commit(r)
  <2>1. CASE pc'[r] = "done"
    BY <2>1, NotElsewhere
  <2>2. CASE pc'[r] # "done"
    <3>1. /\ pc[r] = "updating" /\ pc'[r] = "clearing" /\ TreatyFrame(r) /\ header' = header
          /\ local'[r] = local[r]
      BY <1>0, <1>9, <2>2, UpdateStep, CommitStep
    <3> QED
      BY <3>1, CopyElsewhere DEF Writes
  <2> QED
    BY <2>1, <2>2
<1>10. CASE Search(r)
  <2>1. /\ pc[r] = "clearing"
        /\ Inward(r, "deleting", [local[r] EXCEPT
              !.sought = {x \in rows : x.list = Foremost(local[r].todo)}])
    BY <1>0, <1>10, SearchStep
  <2>2. /\ TreatyFrame(r) /\ header' = header /\ pc'[r] = "deleting"
        /\ local'[r].copy = local[r].copy /\ local'[r].cols = local[r].cols
    BY <1>0, <2>1 DEF Inward, Locals
  <2> QED
    BY <2>1, <2>2, CopyElsewhere DEF Writes
<1>11. CASE Delete(r)
  <2>1. /\ pc[r] = "deleting"
        /\ Inward(r, "inserting", [local[r] EXCEPT
              !.dead = local[r].dead \cup (local[r].sought \cap rows), !.sought = {}])
    BY <1>0, <1>11, DeleteStep
  <2>2. /\ TreatyFrame(r) /\ header' = header /\ pc'[r] = "inserting"
        /\ local'[r].copy = local[r].copy /\ local'[r].cols = local[r].cols
    BY <1>0, <2>1 DEF Inward, Locals
  <2> QED
    BY <2>1, <2>2, CopyElsewhere DEF Writes
<1>12. CASE Insert(r) /\ ~ Rolled(r)
  <2>1. /\ pc[r] = "inserting"
        /\ Inward(r, "clearing", [local[r] EXCEPT
              !.fresh = local[r].fresh \cup Entries(call[r], Foremost(local[r].todo), r),
              !.todo = local[r].todo \ {Foremost(local[r].todo)}])
    BY <1>0, <1>12, InsertStep
  <2>2. /\ TreatyFrame(r) /\ header' = header /\ pc'[r] = "clearing"
        /\ local'[r].copy = local[r].copy /\ local'[r].cols = local[r].cols
    BY <1>0, <2>1 DEF Inward, Locals
  <2> QED
    BY <2>1, <2>2, CopyElsewhere DEF Writes
<1>13. CASE Find(r) /\ ~ Rolled(r)
  <2>1. Inward(r, IF call[r].op = "join" THEN "linking" ELSE "marking", [local[r] EXCEPT !.copy = header])
    BY <1>0, <1>13, FindStep
  <2>2. header' = header /\ pc'[r] \in {"linking", "marking"} /\ local'[r].copy = header
    BY <1>0, <2>1 DEF Inward, Locals
  <2> QED
    BY <2>2 DEF Elsewhere, Writes
<1>14. CASE Linked(r)
  <2>1. pc[r] = "linking" /\ (Inward(r, "naming", local[r]) \/ Inward(r, "joining", local[r]))
    BY <1>0, <1>14, LinkedStep
  <2>2. /\ TreatyFrame(r) /\ header' = header /\ pc'[r] \in {"naming", "joining"} /\ local'[r] = local[r]
    BY <2>1 DEF Inward
  <2> QED
    BY <2>1, <2>2, CopyElsewhere
<1>15. CASE Join(r) /\ ~ Rolled(r)
  <2>1. /\ pc[r] = "joining" /\ TreatyFrame(r) /\ header' = header /\ local'[r] = local[r]
        /\ pc'[r] = "naming"
    BY <1>0, <1>15, JoinStep
  <2> QED
    BY <2>1, CopyElsewhere
<1>16. CASE Name(r)
  <2> DEFINE named == [local[r].copy EXCEPT !["mgas"] = call[r].mga, !["by"] = call[r].user]
  <2>1. CASE Inward(r, "done", local[r])
    BY <2>1, NotElsewhere DEF Inward
  <2>2. CASE Inward(r, "comparing", [local[r] EXCEPT !.copy = named])
    <3>1. pc[r] = "naming" /\ call[r].op = "join" /\ local[r].copy \in Header
      BY <1>0, <1>16, NameStep DEF TreatyPath, Holds
    <3>2. Asked(call[r]) = {"mgas", "by"}
      BY <3>1 DEF Asked
    <3>3. \A k \in Column \ {"mgas", "by"} : named[k] = local[r].copy[k]
      BY <3>1 DEF Header
    <3> HIDE DEF named
    <3>4. /\ TreatyFrame(r) /\ header' = header /\ pc'[r] = "comparing" /\ call' = call /\ met' = met
          /\ local'[r].copy = named /\ local'[r].cols = local[r].cols
      BY <1>0, <2>2 DEF Inward, TreatyFrame, Locals
    <3>5. \A q \in Request : local'[q].cols = local[q].cols
      BY <3>4 DEF TreatyFrame
    <3>6. ASSUME NEW k \in Column \ Asked(call[r])
          PROVE  named[k] = header[k] \/ \E q \in met[r] : k \in local'[q].cols
      <4>1. local[r].copy[k] = header[k] \/ \E q \in met[r] : k \in local[q].cols
        BY <3>1 DEF Elsewhere
      <4>2. met[r] \subseteq Request
        BY DEF TreatyInv, TreatyTypeOK
      <4> QED
        BY <3>2, <3>3, <3>5, <4>1, <4>2
    <3> QED
      BY <3>4, <3>6 DEF Elsewhere, Writes
  <2> QED
    BY <1>0, <1>16, <2>1, <2>2, NameStep
<1>17. CASE Mark(r)
  <2> DEFINE marked == [header EXCEPT !["deleted"] = TRUE]
  <2>1. pc[r] = "marking" /\ Inward(r, "comparing", [local[r] EXCEPT !.copy = marked])
    BY <1>0, <1>17, MarkStep
  <2>2. call[r].op = "delete" /\ header \in Header
    BY <1>0, <2>1 DEF TreatyPath, Holds
  <2>3. Asked(call[r]) = {"deleted"}
    BY <2>2 DEF Asked
  <2>4. \A k \in Column \ {"deleted"} : marked[k] = header[k]
    BY <2>2 DEF Header
  <2> HIDE DEF marked
  <2>5. header' = header /\ pc'[r] = "comparing" /\ call' = call /\ local'[r].copy = marked
    BY <1>0, <2>1 DEF Inward, TreatyFrame, Locals
  <2> QED
    BY <2>3, <2>4, <2>5 DEF Elsewhere, Writes
<1>18. \/ TreatyAbort(r) \/ Read(r) \/ Ensure(r) \/ Make(r) \/ Build(r) \/ Compare(r) \/ Update(r)
       \/ Search(r) \/ Delete(r) \/ Insert(r) \/ Commit(r)
       \/ Find(r) \/ Linked(r) \/ Join(r) \/ Name(r) \/ Mark(r)
  BY DEF TreatyStep
<1> QED
  BY <1>1, <1>2, <1>3, <1>4, <1>5, <1>6, <1>7, <1>8, <1>9, <1>10, <1>11, <1>12, <1>13, <1>14, <1>15,
     <1>16, <1>17, <1>18

LEMMA ArriveElsewhere ==
    ASSUME TreatyInv, ElseInv, NEW r \in Request, NEW c \in TreatyCall, TreatyArrive(r, c)
    PROVE  ElseInv'
<1>0. /\ pc'[r] = "reading" /\ header' = header /\ local' = local
      /\ \A q \in Request \ {r} : pc'[q] = pc[q] /\ call'[q] = call[q]
      /\ \A q \in Request \ {r} : met'[q] = IF q \in InFlight THEN met[q] \cup {r} ELSE met[q]
  BY ArriveStep
<1>1. /\ pc'[r] = "reading" /\ header' = header /\ local' = local
      /\ \A q \in Request \ {r} : pc'[q] = pc[q] /\ call'[q] = call[q] /\ met[q] \subseteq met'[q]
  BY <1>0
<1>2. ASSUME NEW q \in Request \ {r} PROVE Elsewhere(q)'
  <2>1. Elsewhere(q)
    BY DEF ElseInv
  <2> QED
    BY <1>1, <2>1 DEF Elsewhere
<1>3. Elsewhere(r)'
  BY <1>1, NotElsewhere
<1> QED
  BY <1>2, <1>3 DEF ElseInv

LEMMA ElseKept == TreatyInv /\ ElseInv /\ [TreatyNext]_treatyVars => ElseInv'
<1> SUFFICES ASSUME TreatyInv, ElseInv, [TreatyNext]_treatyVars PROVE ElseInv'
  OBVIOUS
<1>1. CASE UNCHANGED treatyVars
  BY <1>1 DEF treatyVars, ElseInv, Elsewhere
<1>2. ASSUME NEW r \in Request, TreatyStep(r) \/ TreatyAbort(r) PROVE ElseInv'
  BY <1>2, OthersElsewhere, OwnElsewhere DEF ElseInv
<1> QED
  BY <1>1, <1>2, ArriveElsewhere DEF TreatyNext

\* What each request saves in the header is what it was asked for, or what it read before a
\* request it met changed it: so a removed treaty comes back only from such an overlap.
THEOREM HeadersLost == TreatySpec => HeaderLostByOverlap
<1>1. TreatyInit => ElseInv
  BY DEF TreatyInit, ElseInv, Elsewhere, Writes
<1>2. TreatyInv /\ ElseInv /\ [TreatyNext]_treatyVars =>
         [header # None =>
            \A k \in Column :
                header'[k] # header[k] =>
                    \E r \in Request :
                        /\ pc[r] # "done" /\ pc'[r] = "done"
                        /\ \/ k \in Asked(call[r])
                           \/ \E q \in met[r] : k \in local[q].cols]_treatyVars
  <2> SUFFICES ASSUME TreatyInv, ElseInv, TreatyNext, header # None,
                      NEW k \in Column, header'[k] # header[k]
               PROVE  \E r \in Request :
                         /\ pc[r] # "done" /\ pc'[r] = "done"
                         /\ \/ k \in Asked(call[r])
                            \/ \E q \in met[r] : k \in local[q].cols
    OBVIOUS
  <2>1. \A r \in Request, c \in TreatyCall : ~ TreatyArrive(r, c)
    BY ArriveStep
  <2>2. PICK r \in Request : TreatyStep(r) \/ TreatyAbort(r)
    BY <2>1 DEF TreatyNext
  <2>3. /\ k \in local[r].cols /\ call[r].op # "create" /\ pc[r] \in {"updating", "clearing"}
        /\ pc'[r] = "done"
    BY <2>2, HeaderSteps
  <2>4. k \in Asked(call[r]) \/ \E q \in met[r] : k \in local[q].cols
    BY <2>3 DEF ElseInv, Elsewhere, Writes
  <2> QED
    BY <2>3, <2>4
<1> QED
  BY <1>1, <1>2, ElseKept, TreatyFirst, TreatyKept, PTL DEF TreatySpec, HeaderLostByOverlap

----------------------------------------------------------------------------
\* The header and the lists

\* The first entry of a list given, which the header is to repeat.
Lead(c, k) == IF Given(c)[k] = <<>> THEN None ELSE Given(c)[k][1]

LEMMA LeadEntry ==
    ASSUME NEW c, IsTerms(c), NEW k \in DOMAIN Given(c), NEW r
    PROVE  /\ Lead(c, k) # None => \E x \in Entries(c, k, r) : x.list = k /\ x.item = Lead(c, k)
           /\ Lead(c, k) = None => Entries(c, k, r) = {}
<1>1. Given(c)[k] \in Seq(Item)
  BY TermFields
<1>2. CASE Given(c)[k] = <<>>
  <2>1. DOMAIN Given(c)[k] = {}
    BY <1>2
  <2>2. Entries(c, k, r) = {}
    BY <2>1 DEF Entries
  <2> QED
    BY <1>2, <2>2 DEF Lead
<1>3. CASE Given(c)[k] # <<>>
  <2>1. 1 \in DOMAIN Given(c)[k] /\ Given(c)[k][1] \in Item
    BY <1>1, <1>3, SeqItems
  <2>2. Lead(c, k) = Given(c)[k][1] /\ Lead(c, k) # None
    BY <1>3, <2>1, Nones DEF Lead
  <2>3. [list |-> k, item |-> Given(c)[k][1], from |-> r] \in Entries(c, k, r)
    BY <2>1 DEF Entries
  <2> QED
    BY <2>2, <2>3
<1> QED
  BY <1>2, <1>3

\* What excuses a header stays.
LEMMA ExcusedStays ==
    ASSUME TreatyInv, NEW r \in Request, TreatyStep(r) \/ TreatyAbort(r), NEW k, Excused(k)
    PROVE  Excused(k)'
<1>1. /\ TreatyFrame(r) /\ local[r].cols \subseteq local'[r].cols
  BY StepKinds
<1>2. /\ call' = call /\ met' = met /\ \A q \in Request : local[q].cols \subseteq local'[q].cols
      /\ met \in [Request -> SUBSET Request]
  BY <1>1 DEF TreatyFrame, TreatyInv, TreatyTypeOK
<1>3. \A q : Listing(q)' = Listing(q) /\ Writing(q, k)' = Writing(q, k)
  BY <1>2 DEF Listing, Writing
<1>4. CASE \E q \in Request : Listing(q) /\ Alone(call[q], k)
  BY <1>2, <1>3, <1>4 DEF Excused
<1>5. CASE \E c \in Earlier \ {None} : Alone(c, k)
  BY <1>5 DEF Excused
<1>6. CASE \E q \in Request : Writing(q, k) /\ \E p \in met[q] : k \in local[p].cols
  <2>1. PICK q \in Request : Writing(q, k) /\ \E p \in met[q] : k \in local[p].cols
    BY <1>6
  <2>2. PICK p \in met[q] : k \in local[p].cols
    BY <2>1
  <2>3. p \in met'[q] /\ k \in local'[p].cols
    BY <1>2, <2>2
  <2> QED
    BY <1>3, <2>1, <2>3 DEF Excused
<1> QED
  BY <1>4, <1>5, <1>6 DEF Excused

\* Two requests that met, of which one writes a list and the other the header's entry.
LEMMA Excuse ==
    ASSUME NEW k, NEW q \in Request, NEW p \in met[q], Writing(q, k), k \in local[p].cols
    PROVE  Excused(k)
BY DEF Excused

LEMMA KeyFacts ==
    ASSUME NEW k \in Headed
    PROVE  /\ k \in Column /\ k # "by" /\ k # "terms" /\ k # "deleted" /\ k # "companies"
BY DEF Headed, Column

\* Rows of a list that some request gave, and not an MGA that joined, came from one that writes it.
LEMMA RowWriter ==
    ASSUME TreatyInv, NEW x \in rows, NEW k \in Headed, x.list = k, x.from # None
    PROVE  /\ x.from \in Request /\ Writing(x.from, k)
           /\ ~ Listing(x.from) => call[x.from].op = "join"
<1>1. Sourced /\ rows \in SUBSET Row
  BY DEF TreatyInv, TreatyTypeOK
<1>2. x.from \in Request
  BY <1>1 DEF Row
<1>3. /\ call[x.from] # None
      /\ IF Listing(x.from)
           THEN x.list = "companies" \/ x.list \in DOMAIN Given(call[x.from])
           ELSE call[x.from].op = "join" /\ x.list = "mgas"
  BY <1>1 DEF Sourced
<1>4. k # "companies"
  BY KeyFacts
<1> QED
  BY <1>2, <1>3, <1>4 DEF Writing

\* A commit of a creation: the treaty has the lists given, whose first entries its header repeats.
LEMMA CreatedFine ==
    ASSUME TreatyInv, NEW r \in Request, Commit(r), call[r].op = "create",
           NEW k \in Headed, InHeader(r, k)
    PROVE  HeaderFine(k)'
<1>0. TreatyTypeOK /\ Headless
  BY DEF TreatyInv
<1>1. /\ pc[r] = "clearing" /\ rows' = (rows \ local[r].dead) \cup local[r].fresh
  BY <1>0, CommitStep
<1>2. /\ Listing(r) /\ IsTerms(call[r])
      /\ \A x \in local[r].fresh :
            x.list # "companies" =>
               x.list \in DOMAIN Given(call[r]) /\ x \in Entries(call[r], x.list, r)
      /\ \A j \in DOMAIN Given(call[r]) : Entries(call[r], j, r) \subseteq local[r].fresh
      /\ header = None /\ local[r].cols = Column
      /\ \A j \in Column : header'[j] = IF j \in local[r].cols THEN local[r].copy[j] ELSE header[j]
  BY CommitFacts
<1>3. header'[k] = local[r].copy[k] /\ k # "companies"
  BY <1>2, KeyFacts
<1>4. \A x \in rows : x.list = "companies"
  BY <1>0, <1>2 DEF Headless
<1>5. \A x \in rows' : x.list = k => k \in DOMAIN Given(call[r]) /\ x \in Entries(call[r], k, r)
  BY <1>1, <1>2, <1>3, <1>4
<1>6. CASE k \in DOMAIN Given(call[r])
  <2>1. local[r].copy[k] = Lead(call[r], k)
    BY <1>1, <1>2, <1>6 DEF InHeader, Holds, Drafting, Writes, Lead
  <2>2. /\ Lead(call[r], k) # None =>
              \E x \in Entries(call[r], k, r) : x.list = k /\ x.item = Lead(call[r], k)
        /\ Lead(call[r], k) = None => Entries(call[r], k, r) = {}
    BY <1>2, <1>6, LeadEntry
  <2>3. header'[k] # None => \E x \in rows' : x.list = k /\ x.item = header'[k]
    BY <1>1, <1>2, <1>3, <1>6, <2>1, <2>2
  <2>4. header'[k] = None => \A x \in rows' : x.list # k
    BY <1>3, <1>5, <2>1, <2>2
  <2> QED
    BY <2>3, <2>4 DEF HeaderFine, Items
<1>7. CASE k \notin DOMAIN Given(call[r])
  <2>1. call[r] # None
    BY <1>2 DEF Listing
  <2>2. local[r].copy[k] = None
    BY <1>1, <1>7, <2>1 DEF InHeader, Holds, Drafting, Writes
  <2>3. \A x \in rows' : x.list # k
    BY <1>5, <1>7
  <2> QED
    BY <1>3, <2>2, <2>3 DEF HeaderFine, Items
<1> QED
  BY <1>6, <1>7

\* A commit of an amendment.
LEMMA AmendedFine ==
    ASSUME TreatyInv, NEW r \in Request, Commit(r), call[r].op # "create",
           NEW k \in Headed, ~ Excused(k), HeaderFine(k), InHeader(r, k)
    PROVE  HeaderFine(k)'
<1>0. TreatyTypeOK /\ TreatyMet /\ Sourced /\ rows \in SUBSET Row
  BY DEF TreatyInv, TreatyTypeOK
<1>1. /\ pc[r] = "clearing" /\ local[r].todo = {} /\ rows' = (rows \ local[r].dead) \cup local[r].fresh
      /\ TreatyFrame(r)
  BY <1>0, CommitStep
<1>2. /\ Listing(r) /\ IsTerms(call[r])
      /\ \A x \in local[r].fresh :
            /\ x.from = r
            /\ x.list # "companies" =>
                  x.list \in DOMAIN Given(call[r]) /\ x \in Entries(call[r], x.list, r)
      /\ \A j \in DOMAIN Given(call[r]) : Entries(call[r], j, r) \subseteq local[r].fresh
      /\ \A x \in local[r].dead : x.list \in DOMAIN Given(call[r])
      /\ header # None
      /\ \A j \in Column : header'[j] = IF j \in local[r].cols THEN local[r].copy[j] ELSE header[j]
  BY CommitFacts
<1>3. /\ k \in Column /\ k # "companies"
      /\ header'[k] = IF k \in local[r].cols THEN local[r].copy[k] ELSE header[k]
  BY <1>2, KeyFacts
<1>4. /\ call' = call
      /\ header[k] # None => header[k] \in Items(k)
      /\ header[k] = None => \A x \in rows : x.list = k => x.from # None /\ call[x.from].op = "join"
  BY <1>1, <1>2 DEF HeaderFine, TreatyFrame
<1>5. call[r].op = "amend"
  BY <1>2 DEF Listing
<1>6. CASE k \notin DOMAIN Given(call[r])
  <2>1. k \notin local[r].cols
    <3>1. ~ Writing(r, k)
      BY <1>5, <1>6 DEF Writing
    <3> QED
      BY <1>1, <1>5, <3>1 DEF InHeader, Writes
  <2>2. \A x \in rows' : x.list = k => x \in rows
    BY <1>1, <1>2, <1>3, <1>6
  <2>3. \A x \in rows : x.list = k => x \in rows'
    BY <1>1, <1>2, <1>3, <1>6
  <2> QED
    BY <1>3, <1>4, <2>1, <2>2, <2>3 DEF HeaderFine, Items
<1>7. CASE k \in DOMAIN Given(call[r])
  <2>0. Writing(r, k)
    BY <1>2, <1>7 DEF Writing
  <2>1. local[r].copy[k] = Lead(call[r], k)
    BY <1>1, <1>2, <1>7 DEF InHeader, Holds, Drafting, Writes, Lead
  <2>2. header'[k] = Lead(call[r], k)
    <3>1. k \notin local[r].cols => header[k] = local[r].copy[k]
      BY <1>1, <1>5, <1>7 DEF InHeader, Writes
    <3> QED
      BY <1>3, <2>1, <3>1
  <2>3. /\ Lead(call[r], k) # None =>
              \E x \in Entries(call[r], k, r) : x.list = k /\ x.item = Lead(call[r], k)
        /\ Lead(call[r], k) = None => Entries(call[r], k, r) = {}
    BY <1>2, <1>7, LeadEntry
  <2>4. header'[k] # None => \E x \in rows' : x.list = k /\ x.item = header'[k]
    BY <1>1, <1>2, <1>7, <2>2, <2>3
  <2>5. ASSUME header'[k] = None, NEW x \in rows', x.list = k
        PROVE  x.from # None /\ call[x.from].op = "join"
    <3>1. x \notin local[r].fresh
      BY <1>2, <1>3, <2>2, <2>3, <2>5
    <3>2. x \in rows /\ x \notin local[r].dead
      BY <1>1, <2>5, <3>1
    <3>3. CASE k \notin local[r].cols
      BY <1>3, <1>4, <2>5, <3>2, <3>3
    <3>4. CASE k \in local[r].cols
      <4>1. ASSUME x.from = None \/ Listing(x.from) PROVE FALSE
        <5>1. x.from \in met[r] /\ r \in met[x.from]
          BY <1>3, <1>7, <2>5, <3>2, <4>1, CommitUnmixed
        <5>2. x.from \in Request /\ x.from # None
          BY <1>0, <5>1, Nones DEF TreatyTypeOK
        <5>3. Writing(x.from, k)
          BY <2>5, <3>2, <5>2, RowWriter
        <5> QED
          BY <3>4, <5>1, <5>2, <5>3, Excuse
      <4>2. x.from # None /\ ~ Listing(x.from)
        BY <4>1
      <4> QED
        BY <2>5, <3>2, <4>2, RowWriter
    <3> QED
      BY <3>3, <3>4
  <2> QED
    BY <1>4, <2>4, <2>5 DEF HeaderFine, Items
<1> QED
  BY <1>6, <1>7

\* A join or a removal saves the header.
LEMMA SavedFine ==
    ASSUME TreatyInv, NEW r \in Request, Update(r), NEW k \in Headed,
           ~ Excused(k), HeaderFine(k), InHeader(r, k)
    PROVE  HeaderFine(k)'
<1>0. TreatyTypeOK /\ TreatyPath(r) /\ TreatyMet /\ header \in Header \cup {None}
      /\ met \in [Request -> SUBSET Request] /\ r # None
  BY LocalFacts DEF TreatyInv, TreatyTypeOK
<1>1. /\ pc[r] = "updating" /\ rows' = rows /\ call' = call
      /\ IF call[r].op = "amend" THEN header' = header ELSE header' = Written(r)
  BY <1>0, UpdateStep DEF TreatyFrame
<1>2. call[r].op # "create" /\ local[r].copy \in Header /\ header # None /\ call[r] \in TreatyCall
  BY <1>0, <1>1 DEF TreatyPath, Holds, Drafting
<1>3. /\ header[k] # None => header[k] \in Items(k)
      /\ header[k] = None => \A x \in rows : x.list = k => x.from # None /\ call[x.from].op = "join"
  BY <1>2 DEF HeaderFine
<1>4. Items(k)' = Items(k)
  BY <1>1 DEF Items
<1>5. CASE header'[k] = header[k]
  BY <1>1, <1>3, <1>4, <1>5 DEF HeaderFine
<1>6. CASE header'[k] # header[k]
  <2>0. k \in Column
    BY KeyFacts
  <2>1. call[r].op # "amend" /\ header' = Written(r)
    BY <1>1, <1>6
  <2>2. header'[k] = IF k \in local[r].cols THEN local[r].copy[k] ELSE header[k]
    BY <1>0, <1>2, <2>0, <2>1, WrittenType
  <2>3. k \in local[r].cols /\ header'[k] = local[r].copy[k]
    BY <1>6, <2>2
  <2>4. Writing(r, k)
    BY <1>1, <1>2, <2>3 DEF InHeader
  <2>5. call[r].op = "join" /\ k = "mgas"
    BY <1>2, <2>1, <2>4 DEF Writing, Listing
  <2>6. local[r].copy[k] = call[r].mga
    BY <1>1, <2>5 DEF InHeader
  <2>7. call[r].mga \in Items(k)
    <3>1. call[r].mga \in Items("mgas") \/ \E q \in met[r] : Writing(q, "mgas")
      BY <1>1, <2>5 DEF InHeader
    <3>2. ASSUME NEW q \in met[r], Writing(q, k) PROVE FALSE
      <4>1. q \in Request /\ r \in met[q]
        BY <1>0 DEF TreatyMet
      <4> QED
        BY <2>3, <3>2, <4>1, Excuse
    <3> QED
      BY <2>5, <3>1, <3>2
  <2>8. call[r].mga # None
    BY <1>2, <2>5, CallKinds, Nones
  <2> QED
    BY <1>4, <2>3, <2>6, <2>7, <2>8 DEF HeaderFine
<1> QED
  BY <1>5, <1>6

LEMMA FineStays ==
    ASSUME TreatyInv, NEW r \in Request, TreatyStep(r) \/ TreatyAbort(r), NEW k \in Headed,
           ~ Excused(k), HeaderFine(k), InHeader(r, k)
    PROVE  HeaderFine(k)'
<1>0. TreatyFrame(r) /\ call' = call
  BY StepKinds DEF TreatyFrame
<1>1. CASE header' = header /\ rows' = rows
  <2>1. Items(k)' = Items(k)
    BY <1>1 DEF Items
  <2> QED
    BY <1>0, <1>1, <2>1 DEF HeaderFine
<1>2. CASE Commit(r)
  BY <1>2, CreatedFine, AmendedFine
<1>3. CASE Update(r)
  BY <1>3, SavedFine
<1>4. CASE call[r].op = "join" /\ header' = header /\ rows' = rows \cup {Link(r)}
  <2>1. Link(r).from = r /\ r # None
    BY Nones DEF Link
  <2>2. Items(k) \subseteq Items(k)'
    BY <1>4 DEF Items
  <2>3. header # None /\ header[k] # None => header'[k] \in Items(k)'
    BY <1>4, <2>2 DEF HeaderFine
  <2>4. ASSUME header # None, header[k] = None, NEW x \in rows', x.list = k
        PROVE  x.from # None /\ call'[x.from].op = "join"
    <3>1. CASE x \in rows
      BY <1>0, <2>4, <3>1 DEF HeaderFine
    <3>2. CASE x = Link(r)
      BY <1>0, <1>4, <2>1, <3>2
    <3> QED
      BY <1>4, <3>1, <3>2
  <2> QED
    BY <1>4, <2>3, <2>4 DEF HeaderFine
<1> QED
  BY <1>1, <1>2, <1>3, <1>4, StepKinds

Copied == {"ensuring", "making", "comparing", "linking", "joining", "naming"}
Compared == {"updating"} \cup Writes

\* What a request holds of a header's entry, after a step of another.
LEMMA OthersInHeader ==
    ASSUME TreatyInv, NEW r \in Request, TreatyStep(r) \/ TreatyAbort(r), NEW k \in Headed,
           ~ Excused(k), InHeader(r, k), NEW q \in Request \ {r}, InHeader(q, k)
    PROVE  InHeader(q, k)'
<1>1. /\ r \in InFlight /\ TreatyFrame(r) /\ rows \in SUBSET Row
      /\ TreatyMet /\ met \in [Request -> SUBSET Request] /\ TreatyPath(q) /\ k \in Column
  BY StepKinds, LocalFacts, KeyFacts DEF TreatyInv, TreatyTypeOK
<1>2. call' = call /\ met' = met /\ pc'[q] = pc[q] /\ local'[q] = local[q]
  BY <1>1 DEF TreatyFrame
<1>3. /\ \A p : Listing(p)' = Listing(p)
      /\ \A p : Writing(p, k)' = Writing(p, k)
      /\ \A p : Writing(p, "mgas")' = Writing(p, "mgas")
  BY <1>2 DEF Listing, Writing
<1>4. pc[q] \in Copied \cup Compared => q \in InFlight /\ r \in met[q] /\ q \in met[r]
  BY <1>1 DEF InFlight, Active, Copied, Compared, Writes, TreatyMet
<1>5. ASSUME header # None, header'[k] # header[k] PROVE Writing(r, k) /\ k \in local[r].cols
  <2>1. k \in local[r].cols /\ call[r].op # "create" /\ pc[r] \in {"updating", "clearing"}
    BY <1>1, <1>5, HeaderSteps
  <2> QED
    BY <2>1 DEF InHeader, Writes
<1>6. ASSUME pc[q] \in Copied, call[q].op # "create", ~ Writing(q, k)
      PROVE  local[q].copy[k] = header'[k] \/ \E p \in met[q] : Writing(p, k)
  <2>1. local[q].copy[k] = header[k] \/ \E p \in met[q] : Writing(p, k)
    BY <1>6 DEF InHeader, Copied
  <2>2. header # None
    BY <1>1, <1>6 DEF TreatyPath, Holds, Drafting, Copied
  <2> QED
    BY <1>4, <1>5, <1>6, <2>1, <2>2
<1>7. ASSUME pc[q] \in Compared, call[q].op = "amend", k \in DOMAIN Given(call[q]) \ local[q].cols
      PROVE  header'[k] = local[q].copy[k]
  <2>1. header[k] = local[q].copy[k]
    BY <1>7 DEF InHeader, Compared
  <2>2. header # None
    BY <1>1, <1>7 DEF TreatyPath, Holds, Drafting, Compared
  <2>3. call[q] # None /\ q # None
    BY <1>1, <1>7, Nones DEF TreatyPath, Compared, Writes
  <2>4. Writing(q, k)
    BY <1>7, <2>3 DEF Writing, Listing
  <2>5. r \in met[q]
    BY <1>4, <1>7
  <2>6. k \notin local[r].cols
    BY <2>4, <2>5, Excuse
  <2> QED
    BY <1>5, <2>1, <2>2, <2>6
<1>8. ASSUME k = "mgas", pc[q] \in {"naming", "comparing", "updating"}, call[q].op = "join"
      PROVE  call[q].mga \in Items("mgas")' \/ \E p \in met[q] : Writing(p, "mgas")
  <2>1. call[q].mga \in Items("mgas") \/ \E p \in met[q] : Writing(p, "mgas")
    BY <1>8 DEF InHeader
  <2>2. CASE rows \subseteq rows'
    BY <2>1, <2>2 DEF Items
  <2>3. CASE ~ (rows \subseteq rows')
    <3>1. Commit(r)
      BY <2>3, StepKinds
    <3>2. /\ rows' = (rows \ local[r].dead) \cup local[r].fresh
      BY <3>1, CommitStep DEF TreatyInv
    <3>3. Listing(r) /\ \A x \in local[r].dead : x.list \in DOMAIN Given(call[r])
      BY <3>1, CommitFacts
    <3>4. CASE "mgas" \in DOMAIN Given(call[r])
      <4>1. Writing(r, "mgas")
        BY <3>3, <3>4 DEF Writing
      <4>2. r \in met[q]
        BY <1>4, <1>8 DEF Copied, Compared
      <4> QED
        BY <4>1, <4>2
    <3>5. CASE "mgas" \notin DOMAIN Given(call[r])
      <4>1. Items("mgas") \subseteq Items("mgas")'
        BY <3>2, <3>3, <3>5 DEF Items
      <4> QED
        BY <2>1, <4>1
    <3> QED
      BY <3>4, <3>5
  <2> QED
    BY <2>2, <2>3
<1> QED
  BY <1>2, <1>3, <1>6, <1>7, <1>8 DEF InHeader, Copied, Compared

\* A request that goes on with the copy it holds.
LEMMA CarriesCopy ==
    ASSUME TreatyInv, NEW r \in Request, NEW k \in Headed, TreatyFrame(r), InHeader(r, k),
           header' = header, rows \subseteq rows',
           local'[r].copy = local[r].copy, local'[r].cols = local[r].cols,
           pc[r] \in Holds,
           call[r].op # "create" =>
              /\ pc'[r] \in Copied => pc[r] \in Copied
              /\ pc'[r] \in Compared => pc[r] \in Compared,
           call[r].op = "join" =>
              /\ pc'[r] \in {"naming", "comparing", "updating"} =>
                    pc[r] \in {"naming", "comparing", "updating"}
              /\ pc'[r] \in {"comparing", "updating"} => pc[r] \in {"comparing", "updating"}
    PROVE  InHeader(r, k)'
<1>1. /\ call' = call /\ met' = met
      /\ \A q : Listing(q)' = Listing(q) /\ Writing(q, k)' = Writing(q, k)
      /\ \A q : Writing(q, "mgas")' = Writing(q, "mgas")
      /\ Items("mgas") \subseteq Items("mgas")'
  BY DEF TreatyFrame, Listing, Writing, Items
<1>2. ASSUME pc'[r] \in Copied, call[r].op # "create", ~ Writing(r, k)
      PROVE  local[r].copy[k] = header[k] \/ \E q \in met[r] : Writing(q, k)
  BY <1>2 DEF InHeader, Copied
<1>3. ASSUME pc'[r] \in Compared, call[r].op # "create", k \in local[r].cols PROVE Writing(r, k)
  BY <1>3 DEF InHeader, Compared
<1>4. ASSUME pc'[r] \in Compared, call[r].op = "amend", k \in DOMAIN Given(call[r]) \ local[r].cols
      PROVE  header[k] = local[r].copy[k]
  BY <1>4 DEF InHeader, Compared
<1>5. ASSUME k = "mgas", pc'[r] \in {"naming", "comparing", "updating"}, call[r].op = "join"
      PROVE  call[r].mga \in Items("mgas")' \/ \E q \in met[r] : Writing(q, "mgas")
  BY <1>1, <1>5 DEF InHeader
<1>6. ASSUME k = "mgas", pc'[r] \in {"comparing", "updating"}, call[r].op = "join"
      PROVE  local[r].copy["mgas"] = call[r].mga
  BY <1>6 DEF InHeader
<1>7. /\ Listing(r) /\ k \in DOMAIN Given(call[r]) =>
            local[r].copy[k] = IF Given(call[r])[k] = <<>> THEN None ELSE Given(call[r])[k][1]
      /\ call[r] # None /\ call[r].op = "create" /\ k \notin DOMAIN Given(call[r]) =>
            local[r].copy[k] = None
  BY DEF InHeader
<1> QED
  BY <1>1, <1>2, <1>3, <1>4, <1>5, <1>6, <1>7 DEF InHeader, Copied, Compared

LEMMA NotHolding ==
    ASSUME NEW r, NEW k, pc'[r] \in {"idle", "reading", "done", "failed"}
    PROVE  InHeader(r, k)'
BY DEF InHeader, Holds, Drafting, Writes

LEMMA ReadInHeader ==
    ASSUME TreatyInv, NEW r \in Request, Read(r), NEW k \in Headed, ~ Excused(k)
    PROVE  InHeader(r, k)'
<1>0. TreatyTypeOK /\ TreatyPath(r) /\ local[r] \in Locals /\ r # None /\ k # "by"
  BY LocalFacts, KeyFacts DEF TreatyInv
<1>1. CASE Rolled(r)
  BY <1>1, NotHolding DEF Rolled
<1> DEFINE copied == Amended(call[r], IF header = None THEN Blank ELSE header)
<1>2. CASE ~ Rolled(r)
  <2>1. /\ pc[r] = "reading" /\ call[r].op \in {"create", "amend"}
        /\ header = None <=> call[r].op = "create"
        /\ Inward(r, "ensuring", [local[r] EXCEPT !.copy = copied, !.todo = DOMAIN Given(call[r])])
    BY <1>0, <1>2, ReadStep
  <2>2. call[r] \in TreatyCall
    BY <1>0, <2>1 DEF TreatyPath
  <2>3. IsTerms(call[r]) /\ call[r] # None
    BY <2>1, <2>2, CallKinds
  <2>4. Listing(r)
    BY <1>0, <2>1, <2>3 DEF Listing
  <2>5. ~ Alone(call[r], k)
    BY <2>4 DEF Excused
  <2>6. k \in DOMAIN Given(call[r]) =>
           copied[k] = IF Given(call[r])[k] = <<>> THEN None ELSE Given(call[r])[k][1]
    BY <2>3, <2>5, AmendedAt
  <2>7. k \notin DOMAIN Given(call[r]) => copied[k] = IF header = None THEN None ELSE header[k]
    BY <2>3, <2>5, AmendedAt, BlankAt
  <2> HIDE DEF copied
  <2>8. /\ pc'[r] = "ensuring" /\ header' = header /\ call' = call /\ local'[r].copy = copied
    BY <1>0, <2>1 DEF Inward, TreatyFrame, Locals
  <2>9. /\ Listing(r)' = Listing(r) /\ Writing(r, k)' = Writing(r, k)
    BY <2>8 DEF Listing, Writing
  <2>10. ~ Writing(r, k) => k \notin DOMAIN Given(call[r])
    BY <2>4 DEF Writing
  <2> QED
    BY <2>1, <2>6, <2>7, <2>8, <2>9, <2>10 DEF InHeader, Writes
<1> QED
  BY <1>1, <1>2

LEMMA CompareInHeader ==
    ASSUME TreatyInv, NEW r \in Request, Compare(r), NEW k \in Headed,
           ~ Excused(k)', InHeader(r, k)
    PROVE  InHeader(r, k)'
<1>0. /\ TreatyTypeOK /\ TreatyPath(r) /\ local[r] \in Locals /\ r # None /\ k \in Column
      /\ TreatyMet /\ met \in [Request -> SUBSET Request]
  BY LocalFacts, KeyFacts DEF TreatyInv, TreatyTypeOK
<1>1. PICK cols \in SUBSET Column :
         /\ cols = {j \in Column : local[r].copy[j] # header[j]}
         /\ Inward(r, IF cols # {} THEN "updating" ELSE IF call[r].op = "amend" THEN "clearing" ELSE "done",
                   [local[r] EXCEPT !.cols = cols])
  BY <1>0, CompareStep
<1>2. pc[r] = "comparing" /\ call[r].op # "create" /\ call[r] \in TreatyCall
  BY <1>0, CompareStep DEF TreatyPath
<1>3. /\ TreatyFrame(r) /\ header' = header /\ rows' = rows /\ call' = call /\ met' = met
      /\ pc'[r] \in {"updating", "clearing", "done"}
      /\ local'[r].copy = local[r].copy /\ local'[r].cols = cols
      /\ call[r].op # "amend" => pc'[r] \in {"updating", "done"}
  BY <1>0, <1>1 DEF Inward, TreatyFrame, Locals
<1>4. /\ \A q : Listing(q)' = Listing(q) /\ Writing(q, k)' = Writing(q, k)
      /\ \A q : Writing(q, "mgas")' = Writing(q, "mgas")
      /\ Items("mgas")' = Items("mgas")
  BY <1>3 DEF Listing, Writing, Items
<1>5. k \in cols => Writing(r, k)
  <2> SUFFICES ASSUME k \in cols, ~ Writing(r, k) PROVE FALSE
    OBVIOUS
  <2>1. local[r].copy[k] = header[k] \/ \E q \in met[r] : Writing(q, k)
    BY <1>2 DEF InHeader
  <2>2. PICK q \in met[r] : Writing(q, k)
    BY <1>1, <2>1
  <2>3. q \in Request /\ r \in met[q]
    BY <1>0 DEF TreatyMet
  <2>4. r \in met'[q] /\ Writing(q, k)' /\ k \in local'[r].cols
    BY <1>3, <1>4, <2>2, <2>3
  <2> QED
    BY <2>3, <2>4 DEF Excused
<1>6. k \notin cols => header[k] = local[r].copy[k]
  BY <1>0, <1>1
<1>7. Listing(r) /\ k \in DOMAIN Given(call[r]) =>
         local[r].copy[k] = IF Given(call[r])[k] = <<>> THEN None ELSE Given(call[r])[k][1]
  BY <1>2 DEF InHeader, Holds, Drafting
<1>8. k = "mgas" /\ call[r].op = "join" =>
         /\ call[r].mga \in Items("mgas") \/ \E q \in met[r] : Writing(q, "mgas")
         /\ local[r].copy["mgas"] = call[r].mga
  BY <1>2 DEF InHeader
<1> QED
  BY <1>2, <1>3, <1>4, <1>5, <1>6, <1>7, <1>8 DEF InHeader

LEMMA JoinInHeader ==
    ASSUME TreatyInv, NEW r \in Request, Find(r) \/ Linked(r) \/ Join(r) \/ Name(r) \/ Mark(r),
           NEW k \in Headed, InHeader(r, k)
    PROVE  InHeader(r, k)'
<1>0. /\ TreatyTypeOK /\ TreatyPath(r) /\ local[r] \in Locals /\ r # None
      /\ k # "by" /\ k # "deleted" /\ k \in Column
      /\ header \in Header \cup {None} /\ rows \in SUBSET Row
  BY LocalFacts, KeyFacts DEF TreatyInv
<1>1. CASE Rolled(r)
  BY <1>1, NotHolding DEF Rolled
<1>2. CASE Find(r) /\ ~ Rolled(r)
  <2>1. /\ call[r].op \in {"join", "delete"} /\ pc'[r] \in {"linking", "marking"}
        /\ Inward(r, IF call[r].op = "join" THEN "linking" ELSE "marking", [local[r] EXCEPT !.copy = header])
    BY <1>0, <1>2, FindStep DEF Inward
  <2>2. header' = header /\ local'[r].copy = header /\ call' = call
    BY <1>0, <2>1 DEF Inward, TreatyFrame, Locals
  <2>3. ~ Listing(r)'
    BY <2>1, <2>2 DEF Listing
  <2> QED
    BY <2>1, <2>2, <2>3 DEF InHeader, Writes
<1>3. CASE Linked(r)
  <2>1. pc[r] = "linking" /\ call[r].op = "join"
    BY <1>0, <1>3, LinkedStep DEF TreatyPath
  <2>2. CASE Inward(r, "joining", local[r])
    <3>1. TreatyFrame(r) /\ header' = header /\ rows' = rows /\ local'[r] = local[r] /\ pc'[r] = "joining"
      BY <2>2 DEF Inward
    <3> QED
      BY <2>1, <3>1, CarriesCopy DEF Holds, Copied, Compared, Writes
  <2>3. CASE Inward(r, "naming", local[r]) /\ \E x \in rows : Alike(x, Link(r))
    <3>1. header' = header /\ rows' = rows /\ local'[r] = local[r] /\ pc'[r] = "naming" /\ call' = call
          /\ met' = met
      BY <2>3 DEF Inward, TreatyFrame
    <3>2. call[r].mga \in Items("mgas")
      BY <2>3 DEF Alike, Link, Items
    <3>3. /\ Items("mgas")' = Items("mgas") /\ ~ Listing(r)'
          /\ \A q : Writing(q, k)' = Writing(q, k)
      BY <2>1, <3>1 DEF Items, Listing, Writing
    <3>4. ~ Writing(r, k) => local[r].copy[k] = header[k] \/ \E q \in met[r] : Writing(q, k)
      BY <2>1 DEF InHeader
    <3> QED
      BY <2>1, <3>1, <3>2, <3>3, <3>4 DEF InHeader, Writes
  <2> QED
    BY <1>0, <1>3, <2>2, <2>3, LinkedStep
<1>4. CASE Join(r) /\ ~ Rolled(r)
  <2>1. /\ pc[r] = "joining" /\ call[r].op = "join" /\ TreatyFrame(r) /\ header' = header
        /\ local'[r] = local[r] /\ pc'[r] = "naming" /\ rows' = rows \cup {Link(r)}
    BY <1>0, <1>4, JoinStep DEF TreatyPath
  <2>2. call[r].mga \in Items("mgas")'
    <3>1. Link(r) \in rows' /\ Link(r).list = "mgas" /\ Link(r).item = call[r].mga
      BY <2>1 DEF Link
    <3> QED
      BY <3>1 DEF Items
  <2>3. call' = call /\ met' = met /\ ~ Listing(r)' /\ \A q : Writing(q, k)' = Writing(q, k)
    BY <2>1 DEF TreatyFrame, Listing, Writing
  <2>4. ~ Writing(r, k) => local[r].copy[k] = header[k] \/ \E q \in met[r] : Writing(q, k)
    BY <2>1 DEF InHeader
  <2> QED
    BY <2>1, <2>2, <2>3, <2>4 DEF InHeader, Writes
<1>5. CASE Name(r)
  <2> DEFINE named == [local[r].copy EXCEPT !["mgas"] = call[r].mga, !["by"] = call[r].user]
  <2>1. pc[r] = "naming" /\ call[r].op = "join" /\ call[r] # None /\ local[r].copy \in Header
    BY <1>0, <1>5, NameStep, Nones DEF TreatyPath, Holds
  <2>2. CASE Inward(r, "done", local[r])
    BY <2>2, NotHolding DEF Inward
  <2>3. CASE Inward(r, "comparing", [local[r] EXCEPT !.copy = named])
    <3>1. /\ k # "mgas" => named[k] = local[r].copy[k]
          /\ named["mgas"] = call[r].mga
      <4>1. "mgas" \in Column /\ "mgas" # "by"
        BY DEF Column, Headed
      <4> QED
        BY <1>0, <2>1, <4>1 DEF Header
    <3> HIDE DEF named
    <3>2. /\ header' = header /\ rows' = rows /\ pc'[r] = "comparing" /\ call' = call /\ met' = met
          /\ local'[r].copy = named
      BY <1>0, <2>3 DEF Inward, TreatyFrame, Locals
    <3>3. /\ Items("mgas")' = Items("mgas") /\ ~ Listing(r)'
          /\ \A q : Writing(q, k)' = Writing(q, k)
      BY <2>1, <3>2 DEF Items, Listing, Writing
    <3>4. ~ Writing(r, k) => named[k] = header[k] \/ \E q \in met[r] : Writing(q, k)
      <4>1. ~ Writing(r, k) => k # "mgas"
        BY <2>1 DEF Writing
      <4> QED
        BY <2>1, <3>1, <4>1 DEF InHeader
    <3>5. k = "mgas" => call[r].mga \in Items("mgas") \/ \E q \in met[r] : Writing(q, "mgas")
      BY <2>1 DEF InHeader
    <3> QED
      BY <2>1, <3>1, <3>2, <3>3, <3>4, <3>5 DEF InHeader, Writes
  <2> QED
    BY <1>0, <1>5, <2>2, <2>3, NameStep
<1>6. CASE Mark(r)
  <2> DEFINE marked == [header EXCEPT !["deleted"] = TRUE]
  <2>1. pc[r] = "marking" /\ Inward(r, "comparing", [local[r] EXCEPT !.copy = marked])
    BY <1>0, <1>6, MarkStep
  <2>2. call[r].op = "delete" /\ header \in Header
    BY <1>0, <2>1 DEF TreatyPath, Holds
  <2>3. marked[k] = header[k]
    BY <1>0, <2>2 DEF Header
  <2> HIDE DEF marked
  <2>4. header' = header /\ pc'[r] = "comparing" /\ call' = call /\ local'[r].copy = marked
    BY <1>0, <2>1 DEF Inward, TreatyFrame, Locals
  <2>5. ~ Listing(r)'
    BY <2>2, <2>4 DEF Listing
  <2> QED
    BY <2>2, <2>3, <2>4, <2>5 DEF InHeader, Writes
<1> QED
  BY <1>1, <1>2, <1>3, <1>4, <1>5, <1>6

LEMMA OwnInHeader ==
    ASSUME TreatyInv, NEW r \in Request, TreatyStep(r) \/ TreatyAbort(r), NEW k \in Headed,
           ~ Excused(k), ~ Excused(k)', InHeader(r, k)
    PROVE  InHeader(r, k)'
<1>0. TreatyTypeOK /\ TreatyPath(r) /\ local[r] \in Locals
  BY LocalFacts DEF TreatyInv
<1>1. CASE Rolled(r)
  BY <1>1, NotHolding DEF Rolled
<1>2. CASE TreatyAbort(r)
  BY <1>0, <1>1, <1>2, RollsBack DEF TreatyAbort
<1>3. CASE Ensure(r) /\ ~ Rolled(r)
  <2>1. /\ pc[r] = "ensuring"
        /\ Inward(r, "making", [local[r] EXCEPT
             !.sought = {[list |-> "companies", item |-> i, from |-> r] : i \in Missing(r)}])
    BY <1>0, <1>3, EnsureStep
  <2>2. /\ TreatyFrame(r) /\ header' = header /\ rows' = rows /\ pc'[r] = "making"
        /\ local'[r].copy = local[r].copy /\ local'[r].cols = local[r].cols
    BY <1>0, <2>1 DEF Inward, Locals
  <2> QED
    BY <2>1, <2>2, CarriesCopy DEF Holds, Copied, Compared, Writes
<1>4. CASE Make(r) /\ ~ Rolled(r)
  <2>1. /\ pc[r] = "making" /\ call[r].op \in {"create", "amend"}
        /\ Inward(r, IF call[r].op = "create" THEN "building" ELSE "comparing",
                  [local[r] EXCEPT !.fresh = local[r].sought, !.sought = {}])
    BY <1>0, <1>4, MakeStep DEF TreatyPath
  <2>2. /\ TreatyFrame(r) /\ header' = header /\ rows' = rows /\ pc'[r] \in {"building", "comparing"}
        /\ local'[r].copy = local[r].copy /\ local'[r].cols = local[r].cols
    BY <1>0, <2>1 DEF Inward, Locals
  <2>3. pc[r] \in Holds /\ pc[r] \in Copied /\ pc'[r] \notin Compared
    BY <2>1, <2>2 DEF Holds, Copied, Compared, Writes
  <2> QED
    BY <2>1, <2>2, <2>3, CarriesCopy
<1>5. CASE Build(r) /\ ~ Rolled(r)
  <2>1. /\ pc[r] = "building" /\ call[r].op = "create" /\ TreatyFrame(r) /\ pc'[r] = "clearing"
        /\ local'[r] = [local[r] EXCEPT !.cols = Column, !.todo = {}, !.fresh =
              local[r].fresh \cup UNION {Entries(call[r], j, r) : j \in DOMAIN Given(call[r])}]
    BY <1>0, <1>5, BuildStep DEF TreatyPath
  <2>2. local'[r].copy = local[r].copy /\ call' = call /\ Listing(r)' = Listing(r)
    BY <1>0, <2>1 DEF TreatyFrame, Locals, Listing
  <2>3. /\ Listing(r) /\ k \in DOMAIN Given(call[r]) =>
              local[r].copy[k] = IF Given(call[r])[k] = <<>> THEN None ELSE Given(call[r])[k][1]
        /\ call[r] # None /\ k \notin DOMAIN Given(call[r]) => local[r].copy[k] = None
    BY <2>1 DEF InHeader, Holds, Drafting
  <2> QED
    BY <2>1, <2>2, <2>3 DEF InHeader
<1>6. CASE Update(r) \/ Commit(r)
  <2>1. CASE pc'[r] = "done"
    BY <2>1, NotHolding
  <2>2. CASE pc'[r] # "done"
    <3>1. /\ pc[r] = "updating" /\ pc'[r] = "clearing" /\ TreatyFrame(r) /\ header' = header
          /\ rows' = rows /\ local'[r] = local[r]
      BY <1>0, <1>6, <2>2, UpdateStep, CommitStep
    <3> QED
      BY <3>1, CarriesCopy DEF Holds, Drafting, Copied, Compared, Writes
  <2> QED
    BY <2>1, <2>2
<1>7. CASE Search(r)
  <2>1. /\ pc[r] = "clearing"
        /\ Inward(r, "deleting", [local[r] EXCEPT
              !.sought = {x \in rows : x.list = Foremost(local[r].todo)}])
    BY <1>0, <1>7, SearchStep
  <2>2. /\ TreatyFrame(r) /\ header' = header /\ rows' = rows /\ pc'[r] = "deleting"
        /\ local'[r].copy = local[r].copy /\ local'[r].cols = local[r].cols
    BY <1>0, <2>1 DEF Inward, Locals
  <2> QED
    BY <2>1, <2>2, CarriesCopy DEF Holds, Drafting, Copied, Compared, Writes
<1>8. CASE Delete(r)
  <2>1. /\ pc[r] = "deleting"
        /\ Inward(r, "inserting", [local[r] EXCEPT
              !.dead = local[r].dead \cup (local[r].sought \cap rows), !.sought = {}])
    BY <1>0, <1>8, DeleteStep
  <2>2. /\ TreatyFrame(r) /\ header' = header /\ rows' = rows /\ pc'[r] = "inserting"
        /\ local'[r].copy = local[r].copy /\ local'[r].cols = local[r].cols
    BY <1>0, <2>1 DEF Inward, Locals
  <2> QED
    BY <2>1, <2>2, CarriesCopy DEF Holds, Drafting, Copied, Compared, Writes
<1>9. CASE Insert(r) /\ ~ Rolled(r)
  <2>1. /\ pc[r] = "inserting"
        /\ Inward(r, "clearing", [local[r] EXCEPT
              !.fresh = local[r].fresh \cup Entries(call[r], Foremost(local[r].todo), r),
              !.todo = local[r].todo \ {Foremost(local[r].todo)}])
    BY <1>0, <1>9, InsertStep
  <2>2. /\ TreatyFrame(r) /\ header' = header /\ rows' = rows /\ pc'[r] = "clearing"
        /\ local'[r].copy = local[r].copy /\ local'[r].cols = local[r].cols
    BY <1>0, <2>1 DEF Inward, Locals
  <2> QED
    BY <2>1, <2>2, CarriesCopy DEF Holds, Drafting, Copied, Compared, Writes
<1>10. \/ TreatyAbort(r) \/ Read(r) \/ Ensure(r) \/ Make(r) \/ Build(r) \/ Compare(r) \/ Update(r)
       \/ Search(r) \/ Delete(r) \/ Insert(r) \/ Commit(r)
       \/ Find(r) \/ Linked(r) \/ Join(r) \/ Name(r) \/ Mark(r)
  BY DEF TreatyStep
<1> QED
  BY <1>1, <1>2, <1>3, <1>4, <1>5, <1>6, <1>7, <1>8, <1>9, <1>10,
     ReadInHeader, CompareInHeader, JoinInHeader

LEMMA ArriveHeader ==
    ASSUME TreatyInv, HeaderInv, NEW r \in Request, NEW c \in TreatyCall, TreatyArrive(r, c)
    PROVE  HeaderInv'
<1>1. /\ pc[r] = "idle" /\ call[r] = None /\ pc'[r] = "reading"
      /\ header' = header /\ rows' = rows /\ local' = local
      /\ \A q \in Request \ {r} : pc'[q] = pc[q] /\ call'[q] = call[q]
      /\ \A q \in Request \ {r} : met'[q] = IF q \in InFlight THEN met[q] \cup {r} ELSE met[q]
      /\ \A x \in rows : x.from # r
  BY ArriveStep
<1>2. rows \in SUBSET Row /\ met \in [Request -> SUBSET Request] /\ Sourced
  BY DEF TreatyInv, TreatyTypeOK
<1>3. \A q \in Request \ {r} : met[q] \subseteq met'[q]
  BY <1>1
<1>4. \A q \in Request \ {r} :
         /\ Listing(q)' = Listing(q)
         /\ \A j : Writing(q, j)' = Writing(q, j)
  BY <1>1 DEF Listing, Writing
<1>5. ~ Listing(r) /\ \A j : ~ Writing(r, j)
  BY <1>1 DEF Listing, Writing
<1>6. ASSUME NEW k \in Headed, Excused(k) PROVE Excused(k)'
  <2>1. CASE \E q \in Request : Listing(q) /\ Alone(call[q], k)
    <3>1. PICK q \in Request : Listing(q) /\ Alone(call[q], k)
      BY <2>1
    <3>2. q # r
      BY <1>5, <3>1
    <3> QED
      BY <1>1, <1>4, <3>1, <3>2 DEF Excused
  <2>2. CASE \E e \in Earlier \ {None} : Alone(e, k)
    BY <2>2 DEF Excused
  <2>3. CASE \E q \in Request : Writing(q, k) /\ \E p \in met[q] : k \in local[p].cols
    <3>1. PICK q \in Request : Writing(q, k) /\ \E p \in met[q] : k \in local[p].cols
      BY <2>3
    <3>2. q # r
      BY <1>5, <3>1
    <3>3. Writing(q, k)' /\ \E p \in met'[q] : k \in local'[p].cols
      BY <1>1, <1>3, <1>4, <3>1, <3>2
    <3> QED
      BY <3>3 DEF Excused
  <2> QED
    BY <1>6, <2>1, <2>2, <2>3 DEF Excused
<1> SUFFICES ASSUME NEW k \in Headed, ~ Excused(k)'
             PROVE  HeaderFine(k)' /\ \A q \in Request : InHeader(q, k)'
  BY DEF HeaderInv
<1>7. HeaderFine(k) /\ \A q \in Request : InHeader(q, k)
  BY <1>6 DEF HeaderInv
<1>8. Items(k)' = Items(k) /\ Items("mgas")' = Items("mgas")
  BY <1>1 DEF Items
<1>9. HeaderFine(k)'
  <2>1. \A x \in rows : x.from # None => call'[x.from] = call[x.from]
    BY <1>1, <1>2 DEF Row
  <2> QED
    BY <1>1, <1>7, <1>8, <2>1 DEF HeaderFine
<1>10. ASSUME NEW q \in Request \ {r} PROVE InHeader(q, k)'
  <2>1. \A j : (\E p \in met[q] : Writing(p, j)) => \E p \in met'[q] : Writing(p, j)'
    <3> SUFFICES ASSUME NEW j, NEW p \in met[q], Writing(p, j)
                 PROVE  p \in met'[q] /\ Writing(p, j)'
      OBVIOUS
    <3>1. p \in Request \ {r}
      BY <1>2, <1>5
    <3> QED
      BY <1>3, <1>4, <3>1
  <2>2. /\ pc'[q] = pc[q] /\ call'[q] = call[q] /\ local'[q] = local[q]
        /\ Listing(q)' = Listing(q) /\ Writing(q, k)' = Writing(q, k)
    BY <1>1, <1>4
  <2>3. InHeader(q, k)
    BY <1>7
  <2> QED
    BY <1>1, <1>8, <2>1, <2>2, <2>3 DEF InHeader
<1>11. InHeader(r, k)'
  BY <1>1, NotHolding
<1> QED
  BY <1>9, <1>10, <1>11

LEMMA HeaderKept == TreatyInv /\ HeaderInv /\ [TreatyNext]_treatyVars => HeaderInv'
<1> SUFFICES ASSUME TreatyInv, HeaderInv, [TreatyNext]_treatyVars PROVE HeaderInv'
  OBVIOUS
<1>1. CASE UNCHANGED treatyVars
  BY <1>1 DEF treatyVars, HeaderInv, Excused, HeaderFine, InHeader, Writing, Listing, Items
<1>2. ASSUME NEW r \in Request, TreatyStep(r) \/ TreatyAbort(r) PROVE HeaderInv'
  <2> SUFFICES ASSUME NEW k \in Headed, ~ Excused(k)'
               PROVE  HeaderFine(k)' /\ \A q \in Request : InHeader(q, k)'
    BY DEF HeaderInv
  <2>1. ~ Excused(k)
    BY <1>2, ExcusedStays
  <2>2. HeaderFine(k) /\ \A q \in Request : InHeader(q, k)
    BY <2>1 DEF HeaderInv
  <2>3. HeaderFine(k)'
    BY <1>2, <2>1, <2>2, FineStays
  <2>4. InHeader(r, k)'
    BY <1>2, <2>1, <2>2, OwnInHeader
  <2>5. \A q \in Request \ {r} : InHeader(q, k)'
    BY <1>2, <2>1, <2>2, OthersInHeader
  <2> QED
    BY <2>3, <2>4, <2>5
<1> QED
  BY <1>1, <1>2, ArriveHeader DEF TreatyNext

LEMMA HeaderFirst == TreatyInit => HeaderInv
<1> SUFFICES ASSUME TreatyInit, NEW k \in Headed, ~ Excused(k)
             PROVE  HeaderFine(k) /\ \A r \in Request : InHeader(r, k)
  BY DEF HeaderInv
<1>1. pc = [r \in Request |-> "idle"]
  BY DEF TreatyInit
<1>2. \A r \in Request : InHeader(r, k)
  BY <1>1 DEF InHeader, Holds, Drafting, Writes
<1>3. PICK c \in Earlier :
         /\ header = IF c = None THEN None ELSE Amended(c, Blank)
         /\ rows = {[list |-> "companies", item |-> i, from |-> None] : i \in Reinsurer}
                   \cup (IF c = None THEN {} ELSE UNION {Entries(c, j, None) : j \in DOMAIN Given(c)})
  BY DEF TreatyInit
<1>4. CASE c = None
  BY <1>2, <1>3, <1>4 DEF HeaderFine
<1>5. CASE c # None
  <2>1. IsTerms(c)
    BY <1>5, EarlierTerms
  <2>2. ~ Alone(c, k) /\ k # "companies"
    BY <1>5, KeyFacts DEF Excused
  <2>3. \A j \in DOMAIN Given(c) : \A x \in Entries(c, j, None) : x.list = j
    BY <2>1, EntriesType
  <2>4. \A x \in rows : x.list = k => k \in DOMAIN Given(c) /\ x \in Entries(c, k, None)
    BY <1>3, <2>2, <2>3
  <2>5. CASE k \in DOMAIN Given(c)
    <3>1. header[k] = Lead(c, k)
      BY <1>3, <1>5, <2>1, <2>2, <2>5, AmendedAt DEF Lead
    <3>2. /\ Lead(c, k) # None => \E x \in Entries(c, k, None) : x.list = k /\ x.item = Lead(c, k)
          /\ Lead(c, k) = None => Entries(c, k, None) = {}
      BY <2>1, <2>5, LeadEntry
    <3>3. Entries(c, k, None) \subseteq rows
      BY <1>3, <1>5, <2>5
    <3> QED
      BY <1>2, <2>4, <3>1, <3>2, <3>3 DEF HeaderFine, Items
  <2>6. CASE k \notin DOMAIN Given(c)
    <3>1. header[k] = None
      BY <1>3, <1>5, <2>1, <2>2, <2>6, AmendedAt, BlankAt
    <3> QED
      BY <1>2, <2>4, <2>6, <3>1 DEF HeaderFine
  <2> QED
    BY <2>5, <2>6
<1> QED
  BY <1>4, <1>5

\* The header names a carrier, reinsurer or MGA of the treaty's list, unless a request gave the
\* header alone or one that wrote the list overlapped one that saved the header's entry.
THEOREM HeadersListed == TreatySpec => []HeaderInList
<1>1. TreatyInv /\ HeaderInv => HeaderInList
  <2> SUFFICES ASSUME TreatyInv, HeaderInv, header # None, NEW k \in Headed,
                      Items(k) # {}, header[k] \notin Items(k), ~ Excused(k)
               PROVE  header[k] = None /\ \E x \in rows : x.list = k /\ x.from # None
                                                         /\ call[x.from].op = "join"
    BY DEF HeaderInList, Excused
  <2>1. HeaderFine(k)
    BY DEF HeaderInv
  <2>2. PICK x \in rows : x.list = k
    BY DEF Items
  <2> QED
    BY <2>1, <2>2 DEF HeaderFine
<1> QED
  BY <1>1, TreatyFirst, TreatyKept, HeaderFirst, HeaderKept, PTL DEF TreatySpec
=============================================================================
