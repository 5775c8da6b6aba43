-------------------------- MODULE SessionLifecycle --------------------------
(***************************************************************************)
(* What AuthService promises of the sessions of one account: a session is  *)
(* opened once and revoked for good, a challenge is about a session that   *)
(* exists and is resolved for good, and a session opened through a         *)
(* challenge takes the place of a session already revoked.                 *)
(***************************************************************************)
CONSTANTS
    Id,      \* of sessions and challenges
    Absent

VARIABLES
    session,    \* "none", "active" or "revoked"
    challenge,  \* "none", "pending" or "resolved"
    about,      \* the session a challenge is about
    through     \* the challenge a session was opened through

vars == <<session, challenge, about, through>>

Init ==
    /\ session \in [Id -> {"none", "active", "revoked"}]
    /\ challenge \in [Id -> {"none", "pending", "resolved"}]
    /\ about \in [Id -> Id \cup {Absent}]
    /\ \A c \in Id : IF challenge[c] = "none" THEN about[c] = Absent
                                              ELSE session[about[c]] # "none"
    /\ through = [i \in Id |-> Absent]

Open(i) ==
    /\ session[i] = "none"
    /\ session' = [session EXCEPT ![i] = "active"]
    /\ UNCHANGED <<challenge, about, through>>

Confront(c, s) ==
    /\ challenge[c] = "none"
    /\ session[s] # "none"
    /\ challenge' = [challenge EXCEPT ![c] = "pending"]
    /\ about' = [about EXCEPT ![c] = s]
    /\ UNCHANGED <<session, through>>

Resolve(c) ==
    /\ challenge[c] = "pending"
    /\ challenge' = [challenge EXCEPT ![c] = "resolved"]
    /\ UNCHANGED <<session, about, through>>

Revoke(S) ==
    /\ \A s \in S : session[s] = "active"
    /\ session' = [i \in Id |-> IF i \in S THEN "revoked" ELSE session[i]]
    /\ UNCHANGED <<challenge, about, through>>

TakeOver(i, c) ==
    /\ session[i] = "none"
    /\ challenge[c] # "none"
    /\ session[about[c]] = "revoked"
    /\ session' = [session EXCEPT ![i] = "active"]
    /\ through' = [through EXCEPT ![i] = c]
    /\ UNCHANGED <<challenge, about>>

Next ==
    \/ \E i \in Id : Open(i) \/ Resolve(i)
    \/ \E c, s \in Id : Confront(c, s) \/ TakeOver(s, c)
    \/ \E S \in SUBSET Id : Revoke(S)

Spec == Init /\ [][Next]_vars

=============================================================================
