---------------------------- MODULE AuthSessions ----------------------------
(***************************************************************************)
(* AuthService for one account: login codes, sessions, the challenge raised *)
(* when a second device logs in, logout, and password resets, which revoke *)
(* the sessions.  Every request is an async handler; each step below runs  *)
(* from one await to the next, and nothing is done in a transaction.       *)
(***************************************************************************)
EXTENDS Integers, FiniteSets, Functions

CONSTANTS
    Request,                        \* HTTP requests, each served once
    OldCode, OldSession,            \* rows there from the start
    OldChallenge, OldToken,
    Operation,                      \* the operations a run exercises
    MaxAttempts,                    \* OTP_MAX_ATTEMPTS
    MaxRecent,                      \* 3: codes or links within 15 minutes
    MaxInFlight,                    \* bound on requests served at the same time
    Absent

Old == OldCode \cup OldSession \cup OldChallenge \cup OldToken

Id == Request \cup Old  \* a row is known by the request that makes it

Otp == [attemptCount : Nat, isUsed : BOOLEAN, at : Nat]
Session == [isActive : BOOLEAN, at : Nat]
Challenge == [existing : Id, status : {"pending", "expired", "rejected", "accepted"}]
Token == [isUsed : BOOLEAN]

Accounts == {"active", "inactive", "deleted"}

\* The request DTOs; the code Absent is one that was never sent.
Calls ==
    [op : {"login", "forgot", "initiate"}]
    \cup [op : {"verify"}, code : Id \cup {Absent}]
    \cup [op : {"resolve"}, challenge : Id, accept : BOOLEAN]
    \cup [op : {"logout"}, session : Id]
    \cup [op : {"reset"}, token : Id]

ASSUME ConstantAssumption ==
    /\ Request \cap Old = {}
    /\ OldCode \cap (OldSession \cup OldChallenge \cup OldToken) = {}
    /\ OldSession \cap (OldChallenge \cup OldToken) = {}
    /\ OldChallenge \cap OldToken = {}
    /\ IsFiniteSet(Id)
    /\ OldChallenge # {} => OldSession # {}
    /\ MaxAttempts \in Nat
    /\ MaxRecent \in Nat
    /\ MaxInFlight \in Nat \ {0}
    /\ Absent \notin Id
    /\ Absent \notin Otp \cup Session \cup Challenge \cup Token \cup Calls

VARIABLES
    otps,        \* login_otps
    sessions,    \* user_sessions
    challenges,  \* login_challenges
    tokens,      \* password_reset_tokens
    expired,     \* rows whose expiresAt has passed
    recent,      \* codes and tokens created within the last 15 minutes
    account,     \* the user row: deleted, else its status
    pc,
    call,
    local        \* row read and its copy, session found, and as history the sessions
                 \* there when one was looked for or the password was changed (past), and
                 \* who was about to mark the row when it was read (beside)

tables == <<otps, sessions, challenges, tokens>>
vars == <<tables, expired, recent, account, pc, call, local>>

----------------------------------------------------------------------------

Forgotten == [target |-> Absent, copy |-> Absent, session |-> Absent, past |-> {},
              beside |-> {}]

Active(r) == pc[r] \notin {"idle", "done", "refused", "failed"}

Rows(table) == {i \in Id : table[i] # Absent}

\* The latest createdAt.
IsNewest(i, S, table) == i \in S /\ \A j \in S : table[j].at <= table[i].at

Usable(i) == sessions[i] # Absent /\ sessions[i].isActive /\ i \notin expired

\* Variant: used codes stay open.
UnexpiredCodes == {o \in Rows(otps) : o \notin expired}

OpenCodes == {o \in Rows(otps) : ~ otps[o].isUsed /\ o \notin expired}

\* A client holds the code, link or token once its request has answered.
Handed(i) == i \in Request => pc[i] = "done"

\* Who has read the code or link i and has yet to mark it.
Holding(i) ==
    {q \in Request : local[q].target = i /\ pc[q] \in {"using", "missing", "changing", "spending"}}

Goto(r, label) == pc' = [pc EXCEPT ![r] = label]

Keep(r, mem) == local' = [local EXCEPT ![r] = mem]

\* History: the code verified and the sessions seen stay recorded.
End(r, outcome) ==
    /\ Goto(r, outcome)
    /\ Keep(r, [local[r] EXCEPT !.copy = Absent])

Fail(r) == End(r, "failed") /\ UNCHANGED tables

----------------------------------------------------------------------------

Ages(S) == {f \in [S -> 0 .. Cardinality(S) - 1] : IsInjective(f)}

Init ==
    /\ \E age \in Ages(OldCode) :
          otps = [i \in Id |-> IF i \in OldCode
                    THEN [attemptCount |-> 0, isUsed |-> FALSE, at |-> age[i]] ELSE Absent]
    /\ \E age \in Ages(OldSession) :
          sessions = [i \in Id |-> IF i \in OldSession
                        THEN [isActive |-> TRUE, at |-> age[i]] ELSE Absent]
    /\ \E about \in [OldChallenge -> OldSession] :
          challenges = [i \in Id |-> IF i \in OldChallenge
                          THEN [existing |-> about[i], status |-> "pending"] ELSE Absent]
    /\ tokens = [i \in Id |-> IF i \in OldToken THEN [isUsed |-> FALSE] ELSE Absent]
    /\ expired = {}
    /\ recent = {}
    /\ account = "active"
    /\ pc = [r \in Request |-> "idle"]
    /\ call = [r \in Request |-> Absent]
    /\ local = [r \in Request |-> Forgotten]

FirstStep(op) ==
    CASE op \in {"login", "forgot", "initiate"} -> "identifying"
      [] op = "verify"  -> "matching"
      [] op = "resolve" -> "fetching"
      [] op = "logout"  -> "authorizing"
      [] op = "reset"   -> "redeeming"

Presented(c) ==
    CASE c.op = "verify"  -> c.code = Absent \/ (c.code \in Rows(otps) /\ Handed(c.code))
      [] c.op = "resolve" -> c.challenge \in Rows(challenges) /\ Handed(c.challenge)
      [] c.op = "logout"  -> c.session \in Rows(sessions) /\ Handed(c.session)
      [] c.op = "reset"   -> c.token \in Rows(tokens) /\ Handed(c.token)
      [] OTHER -> TRUE

Arrive(r, c) ==
    /\ pc[r] = "idle"
    /\ Cardinality({q \in Request : Active(q)}) < MaxInFlight
    /\ c.op \in Operation
    /\ Presented(c)
    /\ call' = [call EXCEPT ![r] = c]
    /\ Goto(r, FirstStep(c.op))
    /\ UNCHANGED <<tables, expired, recent, account, local>>

----------------------------------------------------------------------------
\* Looking the user up, in login, forgotPassword and adminInitiatePasswordReset,
\* in verifyOtp and resolveChallenge, and in AuthGuard before logout.

Suffices(op) == IF op \in {"forgot", "resolve"} THEN {"active", "inactive"} ELSE {"active"}

AfterUser(op) ==
    CASE op = "verify"  -> "looking"
      [] op = "resolve" -> "opening"
      [] op = "logout"  -> "revoking"
      [] OTHER -> "counting"

Identify(r) ==
    /\ pc[r] = "identifying"
    /\ IF account \in Suffices(call[r].op)
         THEN Goto(r, AfterUser(call[r].op)) /\ UNCHANGED <<tables, local>>
         ELSE Fail(r)
    /\ UNCHANGED <<expired, recent, account, call>>

\* The cooldown: login counts codes, both kinds of reset count links.
Count(r) ==
    /\ pc[r] = "counting"
    /\ LET issued == IF call[r].op = "login" THEN Rows(otps) ELSE Rows(tokens) IN
       IF Cardinality(issued \cap recent) >= MaxRecent
         THEN Fail(r)
         ELSE Goto(r, "issuing") /\ UNCHANGED <<tables, local>>
    /\ UNCHANGED <<expired, recent, account, call>>

Issue(r) ==
    /\ pc[r] = "issuing"
    /\ IF call[r].op = "login"
         THEN /\ otps' = [otps EXCEPT ![r] = [attemptCount |-> 0, isUsed |-> FALSE,
                                              at |-> Cardinality(Rows(otps))]]
              /\ UNCHANGED tokens
         ELSE tokens' = [tokens EXCEPT ![r] = [isUsed |-> FALSE]] /\ UNCHANGED otps
    /\ recent' = recent \cup {r}
    /\ End(r, "done")
    /\ UNCHANGED <<sessions, challenges, expired, account, call>>

----------------------------------------------------------------------------
\* verifyOtp

\* The newest open code is the only one that can match.
Match(r) ==
    /\ pc[r] = "matching"
    /\ \/ OpenCodes = {} /\ Fail(r)
       \/ \E o \in OpenCodes :
             /\ IsNewest(o, OpenCodes, otps)
             /\ IF otps[o].attemptCount >= MaxAttempts
                  THEN Fail(r)
                  ELSE /\ Keep(r, [local[r] EXCEPT !.target = o, !.copy = otps[o],
                                                   !.beside = Holding(o)])
                       /\ Goto(r, IF call[r].code = o THEN "using" ELSE "missing")
                       /\ UNCHANGED tables
    /\ UNCHANGED <<expired, recent, account, call>>

\* save() writes the whole copy: what others wrote to the row since is undone.
Miss(r) ==
    /\ pc[r] = "missing"
    /\ otps' = [otps EXCEPT ![local[r].target] =
                   [local[r].copy EXCEPT !.attemptCount = @ + 1]]
    /\ End(r, "refused")
    /\ UNCHANGED <<sessions, challenges, tokens, expired, recent, account, call>>

Use(r) ==
    /\ pc[r] = "using"
    /\ otps' = [otps EXCEPT ![local[r].target] = [local[r].copy EXCEPT !.isUsed = TRUE]]
    /\ Goto(r, "identifying")
    /\ UNCHANGED <<sessions, challenges, tokens, expired, recent, account, call, local>>

LookForSession(r) ==
    /\ pc[r] = "looking"
    /\ LET usable == {s \in Id : Usable(s)} IN
       \/ /\ usable = {}
          /\ Keep(r, [local[r] EXCEPT !.past = Rows(sessions)])
          /\ Goto(r, "opening")
       \/ \E s \in usable :
             /\ IsNewest(s, usable, sessions)
             /\ Keep(r, [local[r] EXCEPT !.session = s])
             /\ Goto(r, "challenging")
    /\ UNCHANGED <<tables, expired, recent, account, call>>

SaveChallenge(r) ==
    /\ pc[r] = "challenging"
    /\ challenges' = [challenges EXCEPT ![r] =
                         [existing |-> local[r].session, status |-> "pending"]]
    /\ End(r, "done")
    /\ UNCHANGED <<otps, sessions, tokens, expired, recent, account, call>>

\* createSession; a challenge is settled only afterwards.
OpenSession(r) ==
    /\ pc[r] = "opening"
    /\ sessions' = [sessions EXCEPT ![r] =
                       [isActive |-> TRUE, at |-> Cardinality(Rows(sessions))]]
    /\ IF call[r].op = "resolve" THEN Goto(r, "accepting") /\ UNCHANGED local
                                 ELSE End(r, "done")
    /\ UNCHANGED <<otps, challenges, tokens, expired, recent, account, call>>

----------------------------------------------------------------------------
\* resolveChallenge

\* Variant: an accepted challenge goes straight to the new session.
FetchOnly(r) ==
    /\ pc[r] = "fetching"
    /\ LET c == call[r].challenge IN
       IF challenges[c].status # "pending"
         THEN Fail(r)
         ELSE /\ Keep(r, [local[r] EXCEPT !.copy = challenges[c]])
              /\ Goto(r, IF c \in expired \/ ~ call[r].accept THEN "rejecting" ELSE "identifying")
              /\ UNCHANGED tables
    /\ UNCHANGED <<expired, recent, account, call>>

Fetch(r) ==
    /\ pc[r] = "fetching"
    /\ LET c == call[r].challenge IN
       IF challenges[c].status # "pending"
         THEN Fail(r)
         ELSE /\ Keep(r, [local[r] EXCEPT !.copy = challenges[c],
                                          !.session = challenges[c].existing])
              /\ Goto(r, IF c \in expired THEN "expiring"
                         ELSE IF call[r].accept THEN "revoking" ELSE "rejecting")
              /\ UNCHANGED tables
    /\ UNCHANGED <<expired, recent, account, call>>

\* Variant: a session that is over is left as it is.
RevokeUsable(r) ==
    /\ pc[r] = "revoking"
    /\ LET s == local[r].session IN
       sessions' = IF Usable(s) THEN [sessions EXCEPT ![s].isActive = FALSE] ELSE sessions
    /\ IF call[r].op = "resolve" THEN Goto(r, "identifying") /\ UNCHANGED local
                                 ELSE End(r, "done")
    /\ UNCHANGED <<otps, challenges, tokens, expired, recent, account, call>>

\* revokeSession, for logout too.  The copy saved differs in nothing else.
Revoke(r) ==
    /\ pc[r] = "revoking"
    /\ sessions' = [sessions EXCEPT ![local[r].session].isActive = FALSE]
    /\ IF call[r].op = "resolve" THEN Goto(r, "identifying") /\ UNCHANGED local
                                 ELSE End(r, "done")
    /\ UNCHANGED <<otps, challenges, tokens, expired, recent, account, call>>

Resolution == [expiring |-> "expired", rejecting |-> "rejected", accepting |-> "accepted"]

Settle(r) ==
    /\ pc[r] \in DOMAIN Resolution
    /\ challenges' = [challenges EXCEPT ![call[r].challenge] =
                         [local[r].copy EXCEPT !.status = Resolution[pc[r]]]]
    /\ End(r, IF pc[r] = "expiring" THEN "failed" ELSE "done")
    /\ UNCHANGED <<otps, sessions, tokens, expired, recent, account, call>>

----------------------------------------------------------------------------
\* logout, behind AuthGuard

Authorize(r) ==
    /\ pc[r] = "authorizing"
    /\ IF Usable(call[r].session)
         THEN /\ Keep(r, [local[r] EXCEPT !.session = call[r].session])
              /\ Goto(r, "identifying")
              /\ UNCHANGED tables
         ELSE Fail(r)
    /\ UNCHANGED <<expired, recent, account, call>>

----------------------------------------------------------------------------
\* resetPassword

Redeem(r) ==
    /\ pc[r] = "redeeming"
    /\ LET t == call[r].token IN
       IF tokens[t].isUsed \/ t \in expired
         THEN Fail(r)
         ELSE /\ Keep(r, [local[r] EXCEPT !.target = t, !.copy = tokens[t],
                                          !.beside = Holding(t)])
              /\ Goto(r, "changing")
              /\ UNCHANGED tables
    /\ UNCHANGED <<expired, recent, account, call>>

ChangePassword(r) ==
    /\ pc[r] = "changing"
    /\ Keep(r, [local[r] EXCEPT !.past = Rows(sessions)])
    /\ Goto(r, "spending")
    /\ UNCHANGED <<tables, expired, recent, account, call>>

Spend(r) ==
    /\ pc[r] = "spending"
    /\ tokens' = [tokens EXCEPT ![local[r].target] = [local[r].copy EXCEPT !.isUsed = TRUE]]
    /\ Goto(r, "clearing")
    /\ UNCHANGED <<otps, sessions, challenges, expired, recent, account, call, local>>

\* Variant: only the newest session is revoked.
ClearNewest(r) ==
    /\ pc[r] = "clearing"
    /\ sessions' = [i \in Id |-> IF IsNewest(i, Rows(sessions), sessions)
                                   THEN [sessions[i] EXCEPT !.isActive = FALSE]
                                   ELSE sessions[i]]
    /\ End(r, "done")
    /\ UNCHANGED <<otps, challenges, tokens, expired, recent, account, call>>

Clear(r) ==
    /\ pc[r] = "clearing"
    /\ sessions' = [i \in Id |-> IF sessions[i] # Absent
                                   THEN [sessions[i] EXCEPT !.isActive = FALSE]
                                   ELSE Absent]
    /\ End(r, "done")
    /\ UNCHANGED <<otps, challenges, tokens, expired, recent, account, call>>

----------------------------------------------------------------------------

\* A failing statement or a crash: what was written stays.
Abort(r) ==
    /\ Active(r)
    /\ Fail(r)
    /\ UNCHANGED <<expired, recent, account, call>>

\* Rows of one kind have one lifetime, so codes expire in order.
Expire(i) ==
    /\ i \in UNION {Rows(otps), Rows(sessions), Rows(challenges), Rows(tokens)} \ expired
    /\ \A o \in Rows(otps) : i \in Rows(otps) /\ otps[o].at < otps[i].at => o \in expired
    /\ \A s \in Rows(sessions) :
          i \in Rows(sessions) /\ sessions[s].at < sessions[i].at => s \in expired
    /\ expired' = expired \cup {i}
    /\ UNCHANGED <<tables, recent, account, pc, call, local>>

Age(i) ==
    /\ i \in recent
    /\ recent' = recent \ {i}
    /\ UNCHANGED <<tables, expired, account, pc, call, local>>

\* UsersService sets the status or deletes the user.
ChangeAccount(status) ==
    /\ account # "deleted"
    /\ account' = status
    /\ UNCHANGED <<tables, expired, recent, pc, call, local>>

Step(r) ==
    \/ Identify(r) \/ Count(r) \/ Issue(r)
    \/ Match(r) \/ Miss(r) \/ Use(r) \/ LookForSession(r) \/ SaveChallenge(r)
    \/ OpenSession(r)
    \/ Fetch(r) \/ Revoke(r) \/ Settle(r)
    \/ Authorize(r)
    \/ Redeem(r) \/ ChangePassword(r) \/ Spend(r) \/ Clear(r)

Next ==
    \/ \E r \in Request :
          \/ \E c \in Calls : Arrive(r, c)
          \/ Step(r)
          \/ Abort(r)
    \/ \E i \in Id : Expire(i) \/ Age(i)
    \/ \E status \in Accounts : ChangeAccount(status)

Spec == Init /\ [][Next]_vars

----------------------------------------------------------------------------
\* Properties

Labels ==
    {"idle", "identifying", "counting", "issuing", "matching", "missing", "using",
     "looking", "challenging", "opening", "fetching", "expiring", "rejecting",
     "revoking", "accepting", "authorizing", "redeeming", "changing", "spending",
     "clearing", "done", "refused", "failed"}

Locals ==
    [target : Id \cup {Absent}, copy : Otp \cup Challenge \cup Token \cup {Absent},
     session : Id \cup {Absent}, past : SUBSET Id, beside : SUBSET Request]

TypeOK ==
    /\ otps \in [Id -> Otp \cup {Absent}]
    /\ sessions \in [Id -> Session \cup {Absent}]
    /\ challenges \in [Id -> Challenge \cup {Absent}]
    /\ tokens \in [Id -> Token \cup {Absent}]
    /\ expired \in SUBSET Id
    /\ recent \in SUBSET Id
    /\ account \in Accounts
    /\ pc \in [Request -> Labels]
    /\ call \in [Request -> Calls \cup {Absent}]
    /\ local \in [Request -> Locals]

SessionState ==
    [i \in Id |-> IF sessions[i] = Absent THEN "none"
                  ELSE IF sessions[i].isActive THEN "active" ELSE "revoked"]

ChallengeState ==
    [i \in Id |-> IF challenges[i] = Absent THEN "none"
                  ELSE IF challenges[i].status = "pending" THEN "pending" ELSE "resolved"]

About == [i \in Id |-> IF challenges[i] = Absent THEN Absent ELSE challenges[i].existing]

Through ==
    [i \in Id |-> IF i \in Request /\ sessions[i] # Absent /\ call[i].op = "resolve"
                    THEN call[i].challenge ELSE Absent]

Lifecycle == INSTANCE SessionLifecycle WITH
    session <- SessionState, challenge <- ChallengeState,
    about <- About, through <- Through

\* Whatever the interleaving, sessions and challenges live as SessionLifecycle
\* says: writing back stale copies revives none, and a session opened by
\* accepting a challenge finds the one it displaces revoked.
ImplementsLifecycle == Lifecycle!Spec

\* Once a password reset is done, no session that was there when the password
\* changed is active, whatever else ran meanwhile.
ResetClearsSessions ==
    \A r \in Request :
        pc[r] = "done" /\ call[r].op = "reset"
            => \A s \in local[r].past : ~ sessions[s].isActive

\* Of two usable sessions the later one was opened by a verification that looked before
\* the earlier was opened, or by accepting a challenge that was about a third: a session
\* that was found, or displaced, is not left next to a new one, whatever else ran.
SoleSession ==
    \A s, t \in Id :
        /\ Usable(s) /\ Usable(t) /\ sessions[s].at < sessions[t].at
        /\ t \in Request
        => \/ call[t].op = "verify" /\ s \notin local[t].past
           \/ call[t].op = "resolve" /\ challenges[call[t].challenge].existing # s

\* A login code or a reset link nobody read while another was about to mark it serves
\* once, and the code is missed at most MaxAttempts times, even after newer codes were
\* used or have expired: only requests that read the row side by side can use it again.
ServedOnce ==
    \A i \in Rows(otps) \cup Rows(tokens) :
        LET Tried == {r \in Request : local[r].target = i} IN
        (\A r \in Tried : local[r].beside = {}) =>
            /\ Cardinality({r \in Tried : pc[r] = "done"}) <= 1
            /\ Cardinality({r \in Tried : pc[r] = "refused"}) <= MaxAttempts

=============================================================================
