----------------------------- MODULE MCMeetings -----------------------------
(***************************************************************************)
(* Instances of UserInvitations and TreatyTerms, whose requests meet in    *)
(* the same way, for TLC.  They share no tables: the requests of a         *)
(* behaviour are for the one or for the other, the other resting as it was *)
(* at first.                                                               *)
(***************************************************************************)
EXTENDS UserInvitations, TreatyTerms, TLC

CONSTANTS ann, bob

----------------------------------------------------------------------------
\* UserInvitations

CONSTANTS clerk, admin, standing

\* Bob has an account from the start, Ann has none; the role of administrators stays.
SomeCalls ==
    [op : {"invite"}, address : {ann, bob}, role : {clerk}]
    \cup [op : {"accept", "revoke"}, invite : Invitation]
    \cup [op : {"assign"}, address : {bob}, role : {clerk}]
    \cup [op : {"remove"}, address : {ann, bob}]
    \cup [op : {"edit"}, address : {bob}]
    \cup [op : {"deactivate"}, addresses : {{ann, bob}}]
    \cup [op : {"removeRole"}, role : {clerk}]

\* Bound: of the requests about accounts two are served at once.
TwoAccountsAtOnce == Cardinality(InFlight) <= 2

----------------------------------------------------------------------------
\* TreatyTerms

CONSTANTS north, south, agent, plain, fancy

NoLists == <<>>

Created(heads, lists) ==
    [op |-> "create", user |-> ann, terms |-> plain, heads |-> heads, lists |-> lists]

Amending(user, terms, heads, lists) ==
    [op |-> "amend", user |-> user, terms |-> terms, heads |-> heads, lists |-> lists]

\* No treaty, or one Ann made with a carrier or an MGA; with an empty list the header's
\* MGA is given alone as well.
SomeEarlier ==
    {None, Created([carriers |-> north], NoLists), Created([mgas |-> north], NoLists),
     Created([mgas |-> north], [mgas |-> <<>>])}

SomeTreatyCalls ==
    {Created([reinsurers |-> south], [mgas |-> <<agent>>]),
     Amending(ann, None, NoLists, [carriers |-> <<north, south>>]),
     Amending(bob, None, NoLists, [carriers |-> <<south>>]),
     Amending(ann, fancy, NoLists, [mgas |-> <<agent>>, reinsurers |-> <<south>>]),
     Amending(ann, None, [mgas |-> north], NoLists),
     [op |-> "join", user |-> bob, mga |-> agent],
     [op |-> "delete"]}

----------------------------------------------------------------------------

VARIABLE part  \* which of the two the requests are for

invitationVars == <<users, invites, expired, gone, copy, drafts, open, giver>>

termVars == <<header, rows, lock, local>>

EitherInit ==
    /\ part \in {"invitations", "treaties"}
    /\ Init /\ TreatyInit
    /\ \A i \in Standing : invites[i].role = clerk
    /\ part = "invitations" => header = None
    /\ part = "treaties" => users[bob].role = clerk /\ invites[standing].address = ann

EitherNext ==
    \/ part = "invitations" /\ Next /\ TwoAccountsAtOnce' /\ UNCHANGED <<part, termVars>>
    \/ part = "treaties" /\ TreatyNext /\ UNCHANGED <<part, invitationVars>>

EitherSpec == EitherInit /\ [][EitherNext]_<<part, vars, treatyVars>>

\* Requests differ by nothing but what they ask for.
Symmetry == Permutations(Request)
=============================================================================
