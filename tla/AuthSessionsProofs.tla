------------------------ MODULE AuthSessionsProofs ------------------------
(***************************************************************************)
(* Proofs about AuthSessions: its types, that two usable sessions come of  *)
(* a named race only, that a password reset clears the sessions it found,  *)
(* that codes and links serve once, and that SessionLifecycle is           *)
(* implemented.                                                            *)
(***************************************************************************)
EXTENDS AuthSessions, FiniteSetTheorems, TLAPS

\* The labels a request passes through.
Path(op) ==
    CASE op = "verify"  -> {"matching", "missing", "using", "identifying", "looking",
                            "challenging", "opening", "done", "refused", "failed"}
      [] op = "resolve" -> {"fetching", "expiring", "rejecting", "revoking", "identifying",
                            "opening", "accepting", "done", "failed"}
      [] op = "logout"  -> {"authorizing", "identifying", "revoking", "done", "failed"}
      [] op = "reset"   -> {"redeeming", "changing", "spending", "clearing", "done", "failed"}
      [] OTHER          -> {"identifying", "counting", "issuing", "done", "failed"}

\* From the moment it has read the challenge a resolve holds a copy of it.
Resolving == {"expiring", "rejecting", "revoking", "identifying", "opening", "accepting"}

\* What a request must hold at a label.
Needs(op, label, mem) ==
    /\ label \in {"missing", "using"} => mem.target \in Id /\ mem.copy \in Otp
    /\ label \in {"changing", "spending"} => mem.target \in Id /\ mem.copy \in Token
    /\ label = "challenging" => mem.session \in Rows(sessions)
    /\ op = "logout" /\ label \in {"identifying", "revoking"} => mem.session \in Rows(sessions)
    /\ op = "resolve" /\ label \in Resolving =>
          mem.session \in Rows(sessions) /\ mem.copy \in Challenge
          /\ mem.copy.existing = mem.session

\* The row a request names is there.
Aimed(c) ==
    /\ c.op = "resolve" => challenges[c.challenge] # Absent
    /\ c.op = "logout" => sessions[c.session] # Absent
    /\ c.op = "reset" => tokens[c.token] # Absent

Working(r) ==
    pc[r] # "idle" =>
        /\ call[r] \in Calls
        /\ pc[r] \in Path(call[r].op)
        /\ Needs(call[r].op, pc[r], local[r])
        /\ Aimed(call[r])

\* A challenge is about a session that exists.
ChallengesKnown == \A c \in Rows(challenges) : challenges[c].existing \in Rows(sessions)

\* Strengthening: a request's label, its memory and its call fit each other.
TInv == TypeOK /\ ChallengesKnown /\ \A r \in Request : Working(r)

TablesOK ==
    /\ otps \in [Id -> Otp \cup {Absent}]
    /\ sessions \in [Id -> Session \cup {Absent}]
    /\ challenges \in [Id -> Challenge \cup {Absent}]
    /\ tokens \in [Id -> Token \cup {Absent}]
    /\ ChallengesKnown

\* No statement deletes a row.
RowsStay ==
    \A i \in Id : /\ sessions[i] # Absent => sessions'[i] # Absent
                  /\ challenges[i] # Absent => challenges'[i] # Absent
                  /\ tokens[i] # Absent => tokens'[i] # Absent

----------------------------------------------------------------------------
(* Records *)

LEMMA CallFields ==
    ASSUME NEW c \in Calls
    PROVE  /\ c.op \in {"login", "forgot", "initiate", "verify", "resolve", "logout", "reset"}
           /\ c.op = "verify" => c.code \in Id \cup {Absent}
           /\ c.op = "resolve" => c.challenge \in Id /\ c.accept \in BOOLEAN
           /\ c.op = "logout" => c.session \in Id
           /\ c.op = "reset" => c.token \in Id
           /\ c # Absent
BY ConstantAssumption DEF Calls

LEMMA RowFacts ==
    /\ Absent \notin Otp /\ Absent \notin Session
    /\ Absent \notin Challenge /\ Absent \notin Token /\ Absent \notin Id
    /\ Request \subseteq Id
BY ConstantAssumption DEF Id

LEMMA LocalEdits ==
    ASSUME NEW x \in Locals
    PROVE  /\ \A t \in Id \cup {Absent} : [x EXCEPT !.target = t] \in Locals
           /\ \A c \in Otp \cup Challenge \cup Token \cup {Absent} :
                 [x EXCEPT !.copy = c] \in Locals
           /\ \A s \in Id \cup {Absent} : [x EXCEPT !.session = s] \in Locals
           /\ \A p \in SUBSET Id : [x EXCEPT !.past = p] \in Locals
           /\ \A b \in SUBSET Request : [x EXCEPT !.beside = b] \in Locals
<1> DEFINE Copies == Otp \cup Challenge \cup Token \cup {Absent}
<1> HIDE DEF Copies
<1> DEFINE Memories == [target : Id \cup {Absent}, copy : Copies, session : Id \cup {Absent},
                        past : SUBSET Id, beside : SUBSET Request]
<1>1. x \in Memories
  BY DEF Locals, Copies
<1>2. \A t \in Id \cup {Absent}, c \in Copies, p \in SUBSET Id, b \in SUBSET Request :
         /\ [x EXCEPT !.target = t] \in Memories
         /\ [x EXCEPT !.copy = c] \in Memories
         /\ [x EXCEPT !.session = t] \in Memories
         /\ [x EXCEPT !.past = p] \in Memories
         /\ [x EXCEPT !.beside = b] \in Memories
  BY <1>1
<1> QED
  BY <1>2 DEF Locals, Copies

LEMMA NothingWritten ==
    ASSUME TInv, tables' = tables
    PROVE  TablesOK' /\ RowsStay
<1>1. otps' = otps /\ sessions' = sessions /\ challenges' = challenges /\ tokens' = tokens
  BY DEF tables
<1>2. ChallengesKnown'
  BY <1>1 DEF TInv, ChallengesKnown, Rows
<1> QED
  BY <1>1, <1>2 DEF TInv, TypeOK, TablesOK, RowsStay

LEMMA OtpWritten ==
    ASSUME TInv, NEW o \in Id, NEW row \in Otp, otps' = [otps EXCEPT ![o] = row],
           sessions' = sessions, challenges' = challenges, tokens' = tokens
    PROVE  TablesOK' /\ RowsStay
<1>1. ChallengesKnown'
  BY DEF TInv, ChallengesKnown, Rows
<1> QED
  BY <1>1 DEF TInv, TypeOK, TablesOK, RowsStay

LEMMA SessionWritten ==
    ASSUME TInv, NEW s \in Id, NEW row \in Session, sessions' = [sessions EXCEPT ![s] = row],
           otps' = otps, challenges' = challenges, tokens' = tokens
    PROVE  TablesOK' /\ RowsStay
<1>1. sessions' \in [Id -> Session \cup {Absent}] /\ RowsStay
  BY RowFacts DEF TInv, TypeOK, RowsStay
<1>2. ChallengesKnown'
  BY <1>1 DEF TInv, ChallengesKnown, Rows, RowsStay
<1> QED
  BY <1>1, <1>2 DEF TInv, TypeOK, TablesOK

LEMMA ChallengeWritten ==
    ASSUME TInv, NEW c \in Id, NEW row \in Challenge, row.existing \in Rows(sessions),
           challenges' = [challenges EXCEPT ![c] = row],
           otps' = otps, sessions' = sessions, tokens' = tokens
    PROVE  TablesOK' /\ RowsStay
<1>1. challenges' \in [Id -> Challenge \cup {Absent}] /\ RowsStay
  BY RowFacts DEF TInv, TypeOK, RowsStay
<1>2. ChallengesKnown'
  BY DEF TInv, TypeOK, ChallengesKnown, Rows
<1> QED
  BY <1>1, <1>2 DEF TInv, TypeOK, TablesOK

LEMMA TokenWritten ==
    ASSUME TInv, NEW t \in Id, NEW row \in Token, tokens' = [tokens EXCEPT ![t] = row],
           otps' = otps, sessions' = sessions, challenges' = challenges
    PROVE  TablesOK' /\ RowsStay
<1>1. tokens' \in [Id -> Token \cup {Absent}] /\ RowsStay
  BY RowFacts DEF TInv, TypeOK, RowsStay
<1>2. ChallengesKnown'
  BY DEF TInv, ChallengesKnown, Rows
<1> QED
  BY <1>1, <1>2 DEF TInv, TypeOK, TablesOK

LEMMA AtWork ==
    ASSUME TInv, NEW r \in Request, pc[r] # "idle"
    PROVE  /\ call[r] \in Calls
           /\ pc[r] \in Path(call[r].op)
           /\ Needs(call[r].op, pc[r], local[r])
           /\ Aimed(call[r])
           /\ local[r] \in Locals
BY DEF TInv, TypeOK, Working

----------------------------------------------------------------------------
(* Type correctness *)

\* A step of one request to a fitting label with fitting memory.
LEMMA MoveKeepsTypes ==
    ASSUME TInv, NEW r \in Request, NEW label \in Labels, NEW mem \in Locals,
           pc[r] # "idle", label # "idle",
           pc' = [pc EXCEPT ![r] = label],
           local' = [local EXCEPT ![r] = mem],
           call' = call, account' = account,
           label \in Path(call[r].op), Needs(call[r].op, label, mem),
           TablesOK', RowsStay, expired' \in SUBSET Id, recent' \in SUBSET Id
    PROVE  TInv'
<1>1. TypeOK'
  BY DEF TInv, TypeOK, TablesOK
<1>2. ASSUME NEW q \in Request PROVE Working(q)'
  <2>1. call'[q] = call[q] /\ (q # r => pc'[q] = pc[q] /\ local'[q] = local[q])
    BY DEF TInv, TypeOK
  <2>2. pc'[r] = label /\ local'[r] = mem
    BY DEF TInv, TypeOK
  <2>3. Aimed(call[q]) /\ call[q] \in Calls => Aimed(call[q])'
    BY CallFields, <2>1 DEF Aimed, RowsStay
  <2>4. \A op, l, m : Needs(op, l, m) => Needs(op, l, m)'
    BY DEF Needs, Rows, RowsStay
  <2>5. CASE q = r
    BY <2>1, <2>2, <2>3, <2>4, <2>5, AtWork DEF Working
  <2>6. CASE q # r
    BY <2>1, <2>3, <2>4, <2>6 DEF TInv, Working
  <2> QED
    BY <2>5, <2>6
<1>3. ChallengesKnown'
  BY DEF TablesOK
<1> QED
  BY <1>1, <1>2, <1>3 DEF TInv

LEMMA EndKeepsTypes ==
    ASSUME TInv, NEW r \in Request, NEW outcome \in {"done", "refused", "failed"},
           pc[r] # "idle", End(r, outcome), call' = call, account' = account,
           outcome \in Path(call[r].op),
           TablesOK', RowsStay, expired' \in SUBSET Id, recent' \in SUBSET Id
    PROVE  TInv'
<1>1. [local[r] EXCEPT !.copy = Absent] \in Locals
  BY AtWork, LocalEdits
<1>2. Needs(call[r].op, outcome, [local[r] EXCEPT !.copy = Absent])
  BY DEF Needs, Resolving
<1> QED
  BY <1>1, <1>2, MoveKeepsTypes DEF End, Goto, Keep, Labels

LEMMA Ended ==
    ASSUME NEW c \in Calls PROVE {"done", "failed"} \subseteq Path(c.op)
BY CallFields DEF Path

LEMMA FailKeepsTypes ==
    ASSUME TInv, NEW r \in Request, pc[r] # "idle", Fail(r),
           call' = call, account' = account, expired' = expired, recent' = recent
    PROVE  TInv'
<1>1. TablesOK' /\ RowsStay
  BY NothingWritten DEF Fail
<1>2. "failed" \in Path(call[r].op)
  BY AtWork, Ended
<1> QED
  BY <1>1, <1>2, EndKeepsTypes DEF Fail, TInv, TypeOK

\* A step that writes no table.
LEMMA ReadKeepsTypes ==
    ASSUME TInv, NEW r \in Request, NEW label \in Labels, NEW mem \in Locals,
           pc[r] # "idle", label # "idle",
           Goto(r, label), Keep(r, mem), tables' = tables,
           <<expired, recent, account, call>>' = <<expired, recent, account, call>>,
           label \in Path(call[r].op), Needs(call[r].op, label, mem)
    PROVE  TInv'
<1>1. TablesOK' /\ RowsStay
  BY NothingWritten
<1> QED
  BY <1>1, MoveKeepsTypes DEF Goto, Keep, TInv, TypeOK

LEMMA KeptLocal ==
    ASSUME TInv, NEW r \in Request, local' = local PROVE Keep(r, local[r])
BY DEF TInv, TypeOK, Keep

LEMMA InitTypes == Init => TInv
<1> SUFFICES ASSUME Init PROVE TInv
  OBVIOUS
<1>1. Forgotten \in Locals
  BY DEF Forgotten, Locals
<1>2. otps \in [Id -> Otp \cup {Absent}]
  <2>1. PICK age \in Ages(OldCode) :
           otps = [i \in Id |-> IF i \in OldCode
                     THEN [attemptCount |-> 0, isUsed |-> FALSE, at |-> age[i]] ELSE Absent]
    BY DEF Init
  <2>2. \A i \in OldCode : age[i] \in Nat
    BY DEF Ages
  <2> QED
    BY <2>1, <2>2 DEF Otp
<1>3. sessions \in [Id -> Session \cup {Absent}]
  <2>1. PICK age \in Ages(OldSession) :
           sessions = [i \in Id |-> IF i \in OldSession
                         THEN [isActive |-> TRUE, at |-> age[i]] ELSE Absent]
    BY DEF Init
  <2>2. \A i \in OldSession : age[i] \in Nat
    BY DEF Ages
  <2> QED
    BY <2>1, <2>2 DEF Session
<1>4. challenges \in [Id -> Challenge \cup {Absent}]
  BY DEF Init, Challenge, Id, Old
<1>5. tokens \in [Id -> Token \cup {Absent}]
  BY DEF Init, Token
<1>6. \A r \in Request : pc[r] = "idle"
  BY DEF Init
<1>7. ChallengesKnown
  <2>1. \A i \in OldSession : i \in Rows(sessions)
    <3>1. PICK age \in Ages(OldSession) :
             sessions = [i \in Id |-> IF i \in OldSession
                           THEN [isActive |-> TRUE, at |-> age[i]] ELSE Absent]
      BY DEF Init
    <3>2. \A i \in OldSession :
             i \in Id /\ [isActive |-> TRUE, at |-> age[i]] \in Session
      BY DEF Ages, Session, Id, Old
    <3> QED
      BY <3>1, <3>2, RowFacts DEF Rows
  <2>2. \A i \in Rows(challenges) : challenges[i].existing \in OldSession
    BY DEF Init, Rows
  <2> QED
    BY <2>1, <2>2 DEF ChallengesKnown
<1> QED
  BY <1>1, <1>2, <1>3, <1>4, <1>5, <1>6, <1>7 DEF Init, TInv, TypeOK, Working, Labels, Accounts

LEMMA ArriveTypes ==
    ASSUME TInv, NEW r \in Request, NEW c \in Calls, Arrive(r, c)
    PROVE  TInv'
<1>1. FirstStep(c.op) \in Labels /\ FirstStep(c.op) \in Path(c.op)
  BY CallFields DEF FirstStep, Labels, Path
<1>2. TypeOK'
  BY <1>1 DEF Arrive, Goto, TInv, TypeOK, tables
<1>3. Needs(c.op, FirstStep(c.op), local[r])
  BY CallFields DEF Needs, Resolving, FirstStep
<1>4. Aimed(c)
  BY CallFields DEF Arrive, Presented, Aimed, Rows
<1>5. ASSUME NEW q \in Request PROVE Working(q)'
  <2>1. CASE q = r
    BY <1>1, <1>3, <1>4, <2>1 DEF Arrive, Goto, tables, TInv, TypeOK, Working, Aimed, Needs, Rows
  <2>2. CASE q # r
    BY <2>2 DEF Arrive, Goto, tables, TInv, TypeOK, Working, Aimed, Needs, Rows
  <2> QED
    BY <2>1, <2>2
<1>6. ChallengesKnown'
  BY NothingWritten DEF Arrive, TablesOK
<1> QED
  BY <1>2, <1>5, <1>6 DEF TInv

LEMMA IdentifyTypes ==
    ASSUME TInv, NEW r \in Request, Identify(r)
    PROVE  TInv'
<1>1. pc[r] # "idle"
  BY DEF Identify
<1>2. CASE account \in Suffices(call[r].op)
  <2>1. /\ AfterUser(call[r].op) \in Labels \ {"idle"}
        /\ AfterUser(call[r].op) \in Path(call[r].op)
    BY <1>1, AtWork, CallFields DEF AfterUser, Labels, Path, Identify
  <2>2. Needs(call[r].op, AfterUser(call[r].op), local[r])
    BY <1>1, AtWork, CallFields DEF AfterUser, Needs, Resolving, Identify
  <2> QED
    BY <1>1, <1>2, <2>1, <2>2, AtWork, KeptLocal, ReadKeepsTypes DEF Identify, tables
<1>3. CASE account \notin Suffices(call[r].op)
  BY <1>1, <1>3, FailKeepsTypes DEF Identify
<1> QED
  BY <1>2, <1>3

LEMMA CountTypes ==
    ASSUME TInv, NEW r \in Request, Count(r)
    PROVE  TInv'
<1>1. pc[r] # "idle" /\ pc[r] = "counting"
  BY DEF Count
<1>2. CASE Fail(r)
  BY <1>1, <1>2, FailKeepsTypes DEF Count
<1>3. CASE Goto(r, "issuing") /\ UNCHANGED <<tables, local>>
  <2>1. "issuing" \in Path(call[r].op) /\ "issuing" \in Labels
    BY <1>1, AtWork, CallFields DEF Path, Labels
  <2>2. Needs(call[r].op, "issuing", local[r])
    BY <1>1, AtWork, CallFields DEF Needs, Resolving
  <2> QED
    BY <1>1, <1>3, <2>1, <2>2, AtWork, KeptLocal, ReadKeepsTypes DEF Count
<1> QED
  BY <1>2, <1>3 DEF Count

LEMMA IssueTypes ==
    ASSUME TInv, NEW r \in Request, Issue(r)
    PROVE  TInv'
<1>1. pc[r] # "idle" /\ r \in Id
  BY RowFacts DEF Issue
<1>2. Cardinality(Rows(otps)) \in Nat
  BY ConstantAssumption, FS_Subset, FS_CardinalityType DEF Rows
<1> DEFINE code == [attemptCount |-> 0, isUsed |-> FALSE, at |-> Cardinality(Rows(otps))]
           token == [isUsed |-> FALSE]
<1>3. /\ code \in Otp /\ token \in Token
      /\ sessions' = sessions /\ challenges' = challenges
      /\ \/ otps' = [otps EXCEPT ![r] = code] /\ tokens' = tokens
         \/ otps' = otps /\ tokens' = [tokens EXCEPT ![r] = token]
  BY <1>2 DEF Issue, Otp, Token
<1> HIDE DEF code, token
<1>4. TablesOK' /\ RowsStay
  BY <1>1, <1>3, OtpWritten, TokenWritten
<1>5. "done" \in Path(call[r].op)
  BY <1>1, AtWork, Ended
<1> QED
  BY <1>1, <1>4, <1>5, EndKeepsTypes DEF Issue, TInv, TypeOK

LEMMA MatchTypes ==
    ASSUME TInv, NEW r \in Request, Match(r)
    PROVE  TInv'
<1>1. pc[r] # "idle" /\ pc[r] = "matching"
  BY DEF Match
<1>2. CASE Fail(r)
  BY <1>1, <1>2, FailKeepsTypes DEF Match
<1>3. ASSUME NEW o \in OpenCodes, NEW label \in {"using", "missing"},
             Keep(r, [local[r] EXCEPT !.target = o, !.copy = otps[o], !.beside = Holding(o)]),
             Goto(r, label), UNCHANGED tables
      PROVE  TInv'
  <2> DEFINE mem == [[[local[r] EXCEPT !.target = o] EXCEPT !.copy = otps[o]]
                       EXCEPT !.beside = Holding(o)]
  <2>1. o \in Id /\ otps[o] \in Otp
    BY DEF OpenCodes, Rows, TInv, TypeOK
  <2>2. mem \in Locals
    BY <1>1, <2>1, AtWork, LocalEdits DEF Holding
  <2>3. mem.target = o /\ mem.copy = otps[o]
    BY <1>1, AtWork DEF Locals
  <2>4. label \in Path(call[r].op) /\ label \in Labels \ {"idle"}
    BY <1>1, AtWork, CallFields DEF Path, Labels
  <2>5. Needs(call[r].op, label, mem)
    BY <2>1, <2>3 DEF Needs, Resolving
  <2>6. Keep(r, mem)
    BY <1>3
  <2> HIDE DEF mem
  <2> QED
    BY <1>1, <1>3, <2>2, <2>4, <2>5, <2>6, ReadKeepsTypes DEF Match
<1> QED
  BY <1>2, <1>3 DEF Match

LEMMA MissTypes ==
    ASSUME TInv, NEW r \in Request, Miss(r)
    PROVE  TInv'
<1>1. pc[r] # "idle" /\ pc[r] = "missing"
  BY DEF Miss
<1>2. local[r].target \in Id /\ local[r].copy \in Otp
  BY <1>1, AtWork DEF Needs
<1>3. [local[r].copy EXCEPT !.attemptCount = @ + 1] \in Otp
  BY <1>2 DEF Otp
<1>4. TablesOK' /\ RowsStay
  BY <1>2, <1>3, OtpWritten DEF Miss
<1>5. "refused" \in Path(call[r].op)
  BY <1>1, AtWork, CallFields DEF Path
<1> QED
  BY <1>1, <1>4, <1>5, EndKeepsTypes DEF Miss, TInv, TypeOK

LEMMA UseTypes ==
    ASSUME TInv, NEW r \in Request, Use(r)
    PROVE  TInv'
<1>1. pc[r] # "idle" /\ pc[r] = "using"
  BY DEF Use
<1>2. local[r].target \in Id /\ local[r].copy \in Otp
  BY <1>1, AtWork DEF Needs
<1>3. [local[r].copy EXCEPT !.isUsed = TRUE] \in Otp
  BY <1>2 DEF Otp
<1>4. TablesOK' /\ RowsStay
  BY <1>2, <1>3, OtpWritten DEF Use
<1>5. call[r].op = "verify" /\ "identifying" \in Path(call[r].op)
  BY <1>1, AtWork, CallFields DEF Path
<1>6. Needs(call[r].op, "identifying", local[r])
  BY <1>5 DEF Needs
<1> QED
  BY <1>1, <1>4, <1>5, <1>6, AtWork, KeptLocal, MoveKeepsTypes
     DEF Use, Goto, Keep, TInv, TypeOK, Labels

LEMMA LookForSessionTypes ==
    ASSUME TInv, NEW r \in Request, LookForSession(r)
    PROVE  TInv'
<1>1. pc[r] # "idle" /\ pc[r] = "looking"
  BY DEF LookForSession
<1>2. call[r].op = "verify" /\ {"opening", "challenging"} \subseteq Path(call[r].op)
  BY <1>1, AtWork, CallFields DEF Path
<1>3. CASE Goto(r, "opening") /\ Keep(r, [local[r] EXCEPT !.past = Rows(sessions)])
  <2> DEFINE mem == [local[r] EXCEPT !.past = Rows(sessions)]
  <2>1. mem \in Locals
    BY <1>1, AtWork, LocalEdits DEF Rows
  <2>2. Needs(call[r].op, "opening", mem)
    BY <1>2 DEF Needs
  <2>3. Keep(r, mem)
    BY <1>3 DEF mem
  <2> HIDE DEF mem
  <2> QED
    BY <1>1, <1>2, <1>3, <2>1, <2>2, <2>3, ReadKeepsTypes DEF LookForSession, Labels
<1>4. ASSUME NEW s \in Rows(sessions), Goto(r, "challenging"),
             Keep(r, [local[r] EXCEPT !.session = s])
      PROVE  TInv'
  <2> DEFINE mem == [local[r] EXCEPT !.session = s]
  <2>1. mem \in Locals /\ mem.session = s
    BY <1>1, AtWork, LocalEdits DEF Locals, Rows
  <2>2. Needs(call[r].op, "challenging", mem)
    BY <1>2, <2>1 DEF Needs
  <2> HIDE DEF mem
  <2>3. Keep(r, mem)
    BY <1>4 DEF mem
  <2> QED
    BY <1>1, <1>2, <1>4, <2>1, <2>2, <2>3, ReadKeepsTypes DEF LookForSession, Labels
<1> QED
  BY <1>3, <1>4 DEF LookForSession, Usable, Rows

LEMMA SaveChallengeTypes ==
    ASSUME TInv, NEW r \in Request, SaveChallenge(r)
    PROVE  TInv'
<1>1. pc[r] # "idle" /\ pc[r] = "challenging" /\ r \in Id
  BY RowFacts DEF SaveChallenge
<1>2. local[r].session \in Rows(sessions)
  BY <1>1, AtWork DEF Needs
<1>3. [existing |-> local[r].session, status |-> "pending"] \in Challenge
  BY <1>2 DEF Challenge, Rows
<1>4. TablesOK' /\ RowsStay
  BY <1>1, <1>2, <1>3, ChallengeWritten DEF SaveChallenge
<1>5. "done" \in Path(call[r].op)
  BY <1>1, AtWork, Ended
<1> QED
  BY <1>1, <1>4, <1>5, EndKeepsTypes DEF SaveChallenge, TInv, TypeOK

LEMMA OpenSessionTypes ==
    ASSUME TInv, NEW r \in Request, OpenSession(r)
    PROVE  TInv'
<1>1. pc[r] # "idle" /\ pc[r] = "opening" /\ r \in Id
  BY RowFacts DEF OpenSession
<1>2. Cardinality(Rows(sessions)) \in Nat
  BY ConstantAssumption, FS_Subset, FS_CardinalityType DEF Rows
<1> DEFINE row == [isActive |-> TRUE, at |-> Cardinality(Rows(sessions))]
<1>3. row \in Session /\ sessions' = [sessions EXCEPT ![r] = row]
  BY <1>2 DEF Session, OpenSession
<1> HIDE DEF row
<1>4. TablesOK' /\ RowsStay
  BY <1>1, <1>3, SessionWritten DEF OpenSession
<1>5. CASE call[r].op = "resolve"
  <2>1. "accepting" \in Path(call[r].op) /\ Needs(call[r].op, "accepting", local[r])
    BY <1>1, <1>5, AtWork DEF Path, Needs, Resolving
  <2> QED
    BY <1>1, <1>4, <1>5, <2>1, AtWork, KeptLocal, MoveKeepsTypes
       DEF OpenSession, Goto, Keep, TInv, TypeOK, Labels
<1>6. CASE call[r].op # "resolve"
  BY <1>1, <1>4, <1>6, AtWork, Ended, EndKeepsTypes DEF OpenSession, TInv, TypeOK
<1> QED
  BY <1>5, <1>6

LEMMA FetchTypes ==
    ASSUME TInv, NEW r \in Request, Fetch(r)
    PROVE  TInv'
<1>1. pc[r] # "idle" /\ pc[r] = "fetching"
  BY DEF Fetch
<1>2. /\ call[r].op = "resolve"
      /\ {"expiring", "rejecting", "revoking"} \subseteq Path(call[r].op)
      /\ call[r].challenge \in Id
      /\ challenges[call[r].challenge] \in Challenge
  BY <1>1, AtWork, CallFields DEF Path, Aimed, TInv, TypeOK
<1>3. CASE Fail(r)
  BY <1>1, <1>3, FailKeepsTypes DEF Fetch
<1> DEFINE c == call[r].challenge
           mem == [[local[r] EXCEPT !.copy = challenges[c]]
                      EXCEPT !.session = challenges[c].existing]
<1>4. ASSUME NEW label \in {"expiring", "rejecting", "revoking"},
             Goto(r, label), Keep(r, mem), UNCHANGED tables
      PROVE  TInv'
  <2>1. /\ mem \in Locals /\ mem.copy \in Challenge /\ mem.session \in Rows(sessions)
        /\ mem.copy.existing = mem.session
    <3>1. challenges[c].existing \in Id /\ challenges[c].existing \in Rows(sessions)
      BY <1>2, RowFacts DEF Challenge, TInv, ChallengesKnown, Rows
    <3>2. mem \in Locals
      BY <1>1, <1>2, <3>1, AtWork, LocalEdits
    <3>3. mem.copy = challenges[c] /\ mem.session = challenges[c].existing
      BY <1>1, AtWork DEF Locals
    <3> QED
      BY <1>2, <3>1, <3>2, <3>3
  <2>2. Needs(call[r].op, label, mem)
    BY <1>2, <2>1 DEF Needs
  <2>3. label \in Labels \ {"idle"} /\ label \in Path(call[r].op)
    BY <1>2 DEF Labels
  <2> HIDE DEF mem
  <2> QED
    BY <1>1, <1>4, <2>1, <2>2, <2>3, ReadKeepsTypes DEF Fetch
<1>5. CASE ~ Fail(r)
  <2>1. Keep(r, mem) /\ UNCHANGED tables
    BY <1>5 DEF Fetch
  <2>2. \/ Goto(r, "expiring") \/ Goto(r, "rejecting") \/ Goto(r, "revoking")
    BY <1>5 DEF Fetch
  <2> HIDE DEF mem
  <2> QED
    BY <1>4, <2>1, <2>2
<1> QED
  BY <1>3, <1>5

LEMMA RevokeTypes ==
    ASSUME TInv, NEW r \in Request, Revoke(r)
    PROVE  TInv'
<1>1. pc[r] # "idle" /\ pc[r] = "revoking"
  BY DEF Revoke
<1>2. call[r].op \in {"resolve", "logout"}
  BY <1>1, AtWork, CallFields DEF Path
<1>3. local[r].session \in Rows(sessions)
  BY <1>1, <1>2, AtWork DEF Needs, Resolving
<1> DEFINE s == local[r].session
           row == [sessions[s] EXCEPT !.isActive = FALSE]
<1>4. s \in Id /\ row \in Session /\ sessions' = [sessions EXCEPT ![s] = row]
  BY <1>3 DEF Revoke, Rows, Session, TInv, TypeOK
<1> HIDE DEF row
<1>5. TablesOK' /\ RowsStay
  BY <1>4, SessionWritten DEF Revoke
<1>6. CASE call[r].op = "resolve"
  <2>1. "identifying" \in Path(call[r].op) /\ Needs(call[r].op, "identifying", local[r])
    BY <1>1, <1>6, AtWork DEF Path, Needs, Resolving
  <2> QED
    BY <1>1, <1>5, <1>6, <2>1, AtWork, KeptLocal, MoveKeepsTypes
       DEF Revoke, Goto, Keep, TInv, TypeOK, Labels
<1>7. CASE call[r].op # "resolve"
  BY <1>1, <1>5, <1>7, AtWork, Ended, EndKeepsTypes DEF Revoke, TInv, TypeOK
<1> QED
  BY <1>6, <1>7

LEMMA SettleTypes ==
    ASSUME TInv, NEW r \in Request, Settle(r)
    PROVE  TInv'
<1>1. pc[r] # "idle" /\ pc[r] \in {"expiring", "rejecting", "accepting"}
  BY DEF Settle, Resolution
<1>2. call[r].op = "resolve" /\ call[r].challenge \in Id
  BY <1>1, AtWork, CallFields DEF Path
<1>3. /\ local[r].copy \in Challenge
      /\ local[r].copy.existing \in Rows(sessions)
  BY <1>1, <1>2, AtWork DEF Needs, Resolving
<1> DEFINE row == [local[r].copy EXCEPT !.status = Resolution[pc[r]]]
<1>4. /\ row \in Challenge /\ row.existing = local[r].copy.existing
      /\ challenges' = [challenges EXCEPT ![call[r].challenge] = row]
  BY <1>1, <1>3 DEF Settle, Challenge, Resolution
<1> HIDE DEF row
<1>5. TablesOK' /\ RowsStay
  BY <1>2, <1>3, <1>4, ChallengeWritten DEF Settle
<1> QED
  BY <1>1, <1>5, AtWork, Ended, EndKeepsTypes DEF Settle, TInv, TypeOK

LEMMA AuthorizeTypes ==
    ASSUME TInv, NEW r \in Request, Authorize(r)
    PROVE  TInv'
<1>1. pc[r] # "idle" /\ pc[r] = "authorizing"
  BY DEF Authorize
<1>2. call[r].op = "logout" /\ call[r].session \in Id
  BY <1>1, AtWork, CallFields DEF Path
<1>3. CASE ~ Usable(call[r].session)
  BY <1>1, <1>3, FailKeepsTypes DEF Authorize
<1>4. CASE Usable(call[r].session)
  <2> DEFINE mem == [local[r] EXCEPT !.session = call[r].session]
  <2>1. mem \in Locals /\ mem.session = call[r].session
    BY <1>1, <1>2, AtWork, LocalEdits DEF Locals
  <2>2. Needs(call[r].op, "identifying", mem) /\ "identifying" \in Path(call[r].op)
    BY <1>2, <1>4, <2>1 DEF Needs, Usable, Rows, Path
  <2>3. Keep(r, mem) /\ Goto(r, "identifying") /\ UNCHANGED tables
    BY <1>4 DEF Authorize
  <2> HIDE DEF mem
  <2> QED
    BY <1>1, <2>1, <2>2, <2>3, ReadKeepsTypes DEF Authorize, Labels
<1> QED
  BY <1>3, <1>4

LEMMA RedeemTypes ==
    ASSUME TInv, NEW r \in Request, Redeem(r)
    PROVE  TInv'
<1>1. pc[r] # "idle" /\ pc[r] = "redeeming"
  BY DEF Redeem
<1> DEFINE t == call[r].token
<1>2. call[r].op = "reset" /\ t \in Id /\ tokens[t] \in Token
  BY <1>1, AtWork, CallFields DEF Path, Aimed, TInv, TypeOK
<1>3. CASE Fail(r)
  BY <1>1, <1>3, FailKeepsTypes DEF Redeem
<1>4. CASE ~ Fail(r)
  <2> DEFINE mem == [[[local[r] EXCEPT !.target = t] EXCEPT !.copy = tokens[t]]
                       EXCEPT !.beside = Holding(t)]
  <2>1. mem \in Locals
    BY <1>1, <1>2, AtWork, LocalEdits DEF Holding
  <2>2. mem.target = t /\ mem.copy = tokens[t]
    BY <1>1, AtWork DEF Locals
  <2>3. Needs(call[r].op, "changing", mem) /\ "changing" \in Path(call[r].op)
    BY <1>2, <2>2 DEF Needs, Path
  <2>4. Keep(r, mem) /\ Goto(r, "changing") /\ UNCHANGED tables
    BY <1>4 DEF Redeem
  <2> HIDE DEF mem
  <2> QED
    BY <1>1, <2>1, <2>3, <2>4, ReadKeepsTypes DEF Redeem, Labels
<1> QED
  BY <1>3, <1>4

LEMMA ChangePasswordTypes ==
    ASSUME TInv, NEW r \in Request, ChangePassword(r)
    PROVE  TInv'
<1>1. pc[r] # "idle" /\ pc[r] = "changing"
  BY DEF ChangePassword
<1>2. call[r].op = "reset" /\ "spending" \in Path(call[r].op)
  BY <1>1, AtWork, CallFields DEF Path
<1> DEFINE mem == [local[r] EXCEPT !.past = Rows(sessions)]
<1>3. mem \in Locals
  BY <1>1, AtWork, LocalEdits DEF Rows
<1>4. mem.target = local[r].target /\ mem.copy = local[r].copy
  BY <1>1, AtWork DEF Locals
<1>5. Needs(call[r].op, "spending", mem)
  BY <1>1, <1>2, <1>4, AtWork DEF Needs
<1> QED
  BY <1>1, <1>2, <1>3, <1>5, ReadKeepsTypes DEF ChangePassword, Labels

LEMMA SpendTypes ==
    ASSUME TInv, NEW r \in Request, Spend(r)
    PROVE  TInv'
<1>1. pc[r] # "idle" /\ pc[r] = "spending"
  BY DEF Spend
<1>2. call[r].op = "reset" /\ "clearing" \in Path(call[r].op)
  BY <1>1, AtWork, CallFields DEF Path
<1>3. local[r].target \in Id /\ local[r].copy \in Token
  BY <1>1, AtWork DEF Needs
<1>4. [local[r].copy EXCEPT !.isUsed = TRUE] \in Token
  BY <1>3 DEF Token
<1>5. TablesOK' /\ RowsStay
  BY <1>3, <1>4, TokenWritten DEF Spend
<1>6. Needs(call[r].op, "clearing", local[r])
  BY <1>2 DEF Needs
<1> QED
  BY <1>1, <1>2, <1>5, <1>6, AtWork, KeptLocal, MoveKeepsTypes
     DEF Spend, Goto, Keep, TInv, TypeOK, Labels

LEMMA ClearTypes ==
    ASSUME TInv, NEW r \in Request, Clear(r)
    PROVE  TInv'
<1>1. pc[r] # "idle" /\ pc[r] = "clearing"
  BY DEF Clear
<1>2. \A x \in Session : [x EXCEPT !.isActive = FALSE] \in Session
  BY DEF Session
<1>3. /\ sessions' \in [Id -> Session \cup {Absent}]
      /\ \A i \in Id : sessions[i] # Absent => sessions'[i] # Absent
  BY <1>2, RowFacts DEF Clear, TInv, TypeOK
<1>4. RowsStay
  BY <1>3 DEF Clear, RowsStay
<1>5. TablesOK'
  BY <1>3 DEF Clear, TInv, TypeOK, TablesOK, ChallengesKnown, Rows
<1> QED
  BY <1>1, <1>4, <1>5, AtWork, Ended, EndKeepsTypes DEF Clear, TInv, TypeOK

LEMMA EnvironmentTypes ==
    ASSUME TInv,
           \/ \E i \in Id : Expire(i) \/ Age(i)
           \/ \E status \in Accounts : ChangeAccount(status)
           \/ UNCHANGED vars
    PROVE  TInv'
<1>1. /\ tables' = tables /\ pc' = pc /\ call' = call /\ local' = local
      /\ expired' \in SUBSET Id /\ recent' \in SUBSET Id /\ account' \in Accounts
  BY DEF TInv, TypeOK, Expire, Age, ChangeAccount, vars
<1>2. TablesOK'
  BY <1>1, NothingWritten
<1>3. TypeOK'
  BY <1>1, <1>2 DEF TInv, TypeOK, TablesOK
<1>4. \A r \in Request : Working(r)'
  BY <1>1 DEF TInv, tables, Working, Needs, Aimed, Rows
<1> QED
  BY <1>2, <1>3, <1>4 DEF TInv, TablesOK

LEMMA NextTypes == TInv /\ [Next]_vars => TInv'
<1> SUFFICES ASSUME TInv, [Next]_vars PROVE TInv'
  OBVIOUS
<1>1. ASSUME NEW r \in Request, Step(r) PROVE TInv'
  BY <1>1, IdentifyTypes, CountTypes, IssueTypes, MatchTypes, MissTypes, UseTypes,
     LookForSessionTypes, SaveChallengeTypes, OpenSessionTypes, FetchTypes, RevokeTypes,
     SettleTypes, AuthorizeTypes, RedeemTypes, ChangePasswordTypes, SpendTypes, ClearTypes
     DEF Step
<1>2. ASSUME NEW r \in Request, Abort(r) PROVE TInv'
  BY <1>2, FailKeepsTypes DEF Abort, Active
<1> QED
  BY <1>1, <1>2, ArriveTypes, EnvironmentTypes DEF Next

\* The tables, the labels and the memory of the requests keep their types: no
\* challenge is about nothing and every copy written back is a row.
THEOREM TypeCorrect == Spec => []TypeOK
<1>1. TInv => TypeOK
  BY DEF TInv
<1> QED
  BY <1>1, InitTypes, NextTypes, PTL DEF Spec

----------------------------------------------------------------------------
(* How the rows, and what the requests hold of them, hang together *)

Links(r) ==
    /\ pc[r] \notin {"accepting", "done", "failed"} => sessions[r] = Absent
    /\ pc[r] \notin {"done", "failed"} => challenges[r] = Absent
    /\ pc[r] \in Resolving /\ call[r].op = "resolve"
          => challenges[call[r].challenge].existing = local[r].session
    /\ pc[r] \in {"identifying", "opening", "accepting"} /\ call[r].op = "resolve"
          => ~ sessions[local[r].session].isActive
    /\ local[r].past \subseteq Rows(sessions)
    /\ pc[r] = "done" /\ call[r].op = "reset"
          => \A s \in local[r].past : ~ sessions[s].isActive

\* Strengthening: a request makes its own rows only, and a resolve that goes on to
\* open a session has revoked the one its challenge is about.
LInv == TInv /\ \A r \in Request : Links(r)

\* What no step undoes.
Aging ==
    \A i \in Id :
        /\ sessions[i] # Absent =>
              sessions'[i] # Absent /\ (~ sessions[i].isActive => ~ sessions'[i].isActive)
        /\ challenges[i] # Absent =>
              challenges'[i] # Absent /\ challenges'[i].existing = challenges[i].existing

\* The only row a request may add is its own.
AddsOwn(r) ==
    \A i \in Id \ {r} :
        /\ sessions[i] = Absent => sessions'[i] = Absent
        /\ challenges[i] = Absent => challenges'[i] = Absent

LEMMA MoveKeepsLinks ==
    ASSUME LInv, TInv', NEW r \in Request,
           \A q \in Request \ {r} : pc'[q] = pc[q] /\ local'[q] = local[q] /\ call'[q] = call[q],
           Aging, AddsOwn(r), Links(r)'
    PROVE  LInv'
<1>1. ASSUME NEW q \in Request, q # r PROVE Links(q)'
  <2>1. /\ pc'[q] = pc[q] /\ local'[q] = local[q] /\ call'[q] = call[q]
        /\ Links(q) /\ q \in Id
    BY <1>1, RowFacts DEF LInv
  <2>2. /\ pc[q] \notin {"accepting", "done", "failed"} => sessions'[q] = Absent
        /\ pc[q] \notin {"done", "failed"} => challenges'[q] = Absent
    <3>1. /\ sessions[q] = Absent => sessions'[q] = Absent
          /\ challenges[q] = Absent => challenges'[q] = Absent
      BY <1>1, <2>1 DEF AddsOwn
    <3> QED
      BY <2>1, <3>1 DEF Links
  <2>3. CASE pc[q] \in Resolving /\ call[q].op = "resolve"
    <3>1. pc[q] # "idle" /\ TInv
      BY <2>3 DEF Resolving, LInv
    <3>2. call[q] \in Calls /\ Needs(call[q].op, pc[q], local[q]) /\ Aimed(call[q])
      BY <3>1, AtWork
    <3>3. /\ call[q].challenge \in Id /\ challenges[call[q].challenge] # Absent
          /\ local[q].session \in Rows(sessions)
      BY <2>3, <3>2, CallFields DEF Aimed, Needs
    <3>4. /\ challenges'[call[q].challenge].existing = local[q].session
          /\ pc[q] \in {"identifying", "opening", "accepting"}
                => ~ sessions'[local[q].session].isActive
      BY <2>1, <2>3, <3>3 DEF Links, Aging, Rows
    <3>5. local[q].past \subseteq Rows(sessions')
      BY <2>1 DEF Links, Aging, Rows
    <3> QED
      BY <2>1, <2>2, <2>3, <3>4, <3>5 DEF Links, Resolving
  <2>4. CASE ~ (pc[q] \in Resolving /\ call[q].op = "resolve")
    <3>1. /\ local[q].past \subseteq Rows(sessions')
          /\ pc[q] = "done" /\ call[q].op = "reset"
                => \A s \in local[q].past : ~ sessions'[s].isActive
      BY <2>1 DEF Links, Aging, Rows
    <3> QED
      BY <2>1, <2>2, <2>4, <3>1 DEF Links, Resolving
  <2> QED
    BY <2>3, <2>4
<1> QED
  BY <1>1 DEF LInv

\* A step that writes neither sessions nor challenges.
LEMMA QuietLinks ==
    ASSUME LInv, TInv', NEW r \in Request, sessions' = sessions, challenges' = challenges,
           \A q \in Request \ {r} : pc'[q] = pc[q] /\ local'[q] = local[q] /\ call'[q] = call[q],
           Links(r)'
    PROVE  LInv'
BY MoveKeepsLinks DEF Aging, AddsOwn

LEMMA OthersKeep ==
    ASSUME TInv, NEW r \in Request, NEW label, NEW mem,
           pc' = [pc EXCEPT ![r] = label], local' = [local EXCEPT ![r] = mem], call' = call
    PROVE  /\ pc'[r] = label /\ local'[r] = mem /\ call'[r] = call[r]
           /\ \A q \in Request \ {r} : pc'[q] = pc[q] /\ local'[q] = local[q] /\ call'[q] = call[q]
BY DEF TInv, TypeOK

\* A request that reads, or ends, and holds no more of its challenge than before.
LEMMA StepKeepsLinks ==
    ASSUME LInv, TInv', NEW r \in Request, NEW label, NEW mem,
           pc' = [pc EXCEPT ![r] = label], local' = [local EXCEPT ![r] = mem], call' = call,
           sessions' = sessions, challenges' = challenges,
           pc[r] \notin {"done", "failed", "accepting"} \/ label = "failed",
           label # "accepting",
           mem.past \subseteq Rows(sessions), label = "done" => call[r].op # "reset",
           label \in Resolving /\ call[r].op = "resolve" =>
              challenges[call[r].challenge].existing = mem.session,
           label \in {"identifying", "opening"} /\ call[r].op = "resolve" =>
              ~ sessions[mem.session].isActive
    PROVE  LInv'
<1>1. TInv
  BY DEF LInv
<1>2. /\ pc'[r] = label /\ local'[r] = mem /\ call'[r] = call[r]
      /\ \A q \in Request \ {r} : pc'[q] = pc[q] /\ local'[q] = local[q] /\ call'[q] = call[q]
  BY <1>1, OthersKeep
<1>3. Links(r)'
  BY <1>2 DEF LInv, Links, Rows
<1> QED
  BY <1>2, <1>3, QuietLinks

LEMMA FailKeepsLinks ==
    ASSUME LInv, TInv', NEW r \in Request, Active(r), Fail(r), call' = call
    PROVE  LInv'
<1> DEFINE mem == [local[r] EXCEPT !.copy = Absent]
<1>1. mem.past = local[r].past
  BY DEF LInv, TInv, TypeOK, Locals
<1>2. mem.past \subseteq Rows(sessions)
  BY <1>1 DEF LInv, Links
<1>3. /\ pc' = [pc EXCEPT ![r] = "failed"] /\ local' = [local EXCEPT ![r] = mem]
      /\ sessions' = sessions /\ challenges' = challenges
  BY DEF Fail, End, Goto, Keep, tables
<1> HIDE DEF mem
<1> QED
  BY <1>2, <1>3, StepKeepsLinks DEF Resolving

\* Ending without a word to sessions or challenges.
LEMMA EndKeepsLinks ==
    ASSUME LInv, TInv', NEW r \in Request, NEW outcome \in {"done", "refused"},
           pc[r] \notin {"done", "failed", "accepting"},
           outcome = "done" => call[r].op # "reset",
           End(r, outcome), call' = call, sessions' = sessions, challenges' = challenges
    PROVE  LInv'
<1> DEFINE mem == [local[r] EXCEPT !.copy = Absent]
<1>1. mem.past = local[r].past
  BY DEF LInv, TInv, TypeOK, Locals
<1>2. mem.past \subseteq Rows(sessions)
  BY <1>1 DEF LInv, Links
<1>3. pc' = [pc EXCEPT ![r] = outcome] /\ local' = [local EXCEPT ![r] = mem]
  BY DEF End, Goto, Keep
<1> HIDE DEF mem
<1> QED
  BY <1>2, <1>3, StepKeepsLinks DEF Resolving

\* Moving on with the session and the past held before.
LEMMA GoKeepsLinks ==
    ASSUME LInv, TInv', NEW r \in Request, NEW label, NEW mem,
           pc[r] \notin {"done", "failed", "accepting"},
           label \notin {"accepting", "done"},
           Goto(r, label), Keep(r, mem), call' = call,
           sessions' = sessions, challenges' = challenges,
           mem.past = local[r].past,
           call[r].op = "resolve" => label = "opening" /\ pc[r] = "identifying" /\ mem = local[r]
    PROVE  LInv'
<1>1. mem.past \subseteq Rows(sessions)
  BY DEF LInv, Links
<1>2. label \in Resolving /\ call[r].op = "resolve" =>
         /\ challenges[call[r].challenge].existing = mem.session
         /\ ~ sessions[mem.session].isActive
  BY DEF LInv, Links, Resolving
<1> QED
  BY <1>1, <1>2, StepKeepsLinks DEF Goto, Keep, Resolving

LEMMA ArriveLinks ==
    ASSUME LInv, TInv', NEW r \in Request, NEW c \in Calls, Arrive(r, c)
    PROVE  LInv'
<1>1. /\ sessions' = sessions /\ challenges' = challenges /\ local' = local
      /\ pc[r] = "idle" /\ pc'[r] = FirstStep(c.op) /\ call'[r] = c
      /\ \A q \in Request \ {r} : pc'[q] = pc[q] /\ local'[q] = local[q] /\ call'[q] = call[q]
  BY DEF Arrive, Goto, LInv, TInv, TypeOK, tables
<1>2. /\ FirstStep(c.op) \notin {"accepting", "done", "failed"}
      /\ c.op = "resolve" => FirstStep(c.op) \notin Resolving
  BY CallFields DEF FirstStep, Resolving
<1>3. Links(r)'
  BY <1>1, <1>2 DEF LInv, Links, Rows, Resolving
<1> QED
  BY <1>1, <1>3, QuietLinks

LEMMA IdentifyLinks ==
    ASSUME LInv, TInv', NEW r \in Request, Identify(r)
    PROVE  LInv'
<1>1. TInv /\ pc[r] = "identifying" /\ pc[r] # "idle" /\ Active(r)
  BY DEF LInv, Identify, Active
<1>2. CASE Fail(r)
  BY <1>1, <1>2, FailKeepsLinks DEF Identify
<1>3. CASE ~ Fail(r)
  <2>1. Goto(r, AfterUser(call[r].op)) /\ UNCHANGED <<tables, local>> /\ call' = call
    BY <1>3 DEF Identify
  <2>2. /\ AfterUser(call[r].op) \notin {"accepting", "done"}
        /\ call[r].op = "resolve" => AfterUser(call[r].op) = "opening"
    BY <1>1, AtWork, CallFields DEF AfterUser
  <2>3. Keep(r, local[r]) /\ sessions' = sessions /\ challenges' = challenges
    BY <1>1, <2>1, KeptLocal DEF tables
  <2> QED
    BY <1>1, <2>1, <2>2, <2>3, GoKeepsLinks
<1> QED
  BY <1>2, <1>3

LEMMA CountLinks ==
    ASSUME LInv, TInv', NEW r \in Request, Count(r)
    PROVE  LInv'
<1>1. TInv /\ pc[r] = "counting" /\ pc[r] # "idle" /\ Active(r)
  BY DEF LInv, Count, Active
<1>2. call[r].op # "resolve"
  BY <1>1, AtWork, CallFields DEF Path
<1>3. CASE Fail(r)
  BY <1>1, <1>3, FailKeepsLinks DEF Count
<1>4. CASE ~ Fail(r)
  <2>1. Goto(r, "issuing") /\ UNCHANGED <<tables, local>> /\ call' = call
    BY <1>4 DEF Count
  <2>2. Keep(r, local[r]) /\ sessions' = sessions /\ challenges' = challenges
    BY <1>1, <2>1, KeptLocal DEF tables
  <2> QED
    BY <1>1, <1>2, <2>1, <2>2, GoKeepsLinks
<1> QED
  BY <1>3, <1>4

LEMMA IssueLinks ==
    ASSUME LInv, TInv', NEW r \in Request, Issue(r)
    PROVE  LInv'
<1>1. TInv /\ pc[r] = "issuing" /\ pc[r] # "idle"
  BY DEF LInv, Issue
<1>2. call[r].op # "reset"
  BY <1>1, AtWork, CallFields DEF Path
<1> QED
  BY <1>1, <1>2, EndKeepsLinks DEF Issue

LEMMA MatchLinks ==
    ASSUME LInv, TInv', NEW r \in Request, Match(r)
    PROVE  LInv'
<1>1. TInv /\ pc[r] = "matching" /\ pc[r] # "idle" /\ Active(r)
  BY DEF LInv, Match, Active
<1>2. call[r].op # "resolve"
  BY <1>1, AtWork, CallFields DEF Path
<1>3. CASE Fail(r)
  BY <1>1, <1>3, FailKeepsLinks DEF Match
<1>4. ASSUME NEW o \in OpenCodes, NEW label \in {"using", "missing"},
             Keep(r, [local[r] EXCEPT !.target = o, !.copy = otps[o], !.beside = Holding(o)]),
             Goto(r, label), UNCHANGED tables
      PROVE  LInv'
  <2> DEFINE mem == [local[r] EXCEPT !.target = o, !.copy = otps[o], !.beside = Holding(o)]
  <2>1. mem.past = local[r].past
    BY <1>1, AtWork DEF Locals
  <2> HIDE DEF mem
  <2>2. Keep(r, mem) /\ call' = call /\ sessions' = sessions /\ challenges' = challenges
    BY <1>4 DEF Match, mem, tables
  <2> QED
    BY <1>1, <1>2, <1>4, <2>1, <2>2, GoKeepsLinks
<1> QED
  BY <1>3, <1>4 DEF Match

LEMMA MissLinks ==
    ASSUME LInv, TInv', NEW r \in Request, Miss(r)
    PROVE  LInv'
BY EndKeepsLinks DEF Miss

LEMMA UseLinks ==
    ASSUME LInv, TInv', NEW r \in Request, Use(r)
    PROVE  LInv'
<1>1. TInv /\ pc[r] = "using" /\ pc[r] # "idle"
  BY DEF LInv, Use
<1>2. call[r].op # "resolve"
  BY <1>1, AtWork, CallFields DEF Path
<1>3. Keep(r, local[r])
  BY <1>1, KeptLocal DEF Use
<1> QED
  BY <1>1, <1>2, <1>3, GoKeepsLinks DEF Use

LEMMA LookForSessionLinks ==
    ASSUME LInv, TInv', NEW r \in Request, LookForSession(r)
    PROVE  LInv'
<1>1. /\ TInv /\ pc[r] = "looking" /\ pc[r] # "idle"
      /\ sessions' = sessions /\ challenges' = challenges /\ call' = call
  BY DEF LInv, LookForSession, tables
<1>2. call[r].op # "resolve"
  BY <1>1, AtWork, CallFields DEF Path
<1>3. CASE Goto(r, "opening") /\ Keep(r, [local[r] EXCEPT !.past = Rows(sessions)])
  <2> DEFINE mem == [local[r] EXCEPT !.past = Rows(sessions)]
  <2>1. mem.past = Rows(sessions)
    BY <1>1, AtWork DEF Locals
  <2>2. Keep(r, mem)
    BY <1>3
  <2> HIDE DEF mem
  <2> QED
    BY <1>1, <1>2, <1>3, <2>1, <2>2, StepKeepsLinks DEF Goto, Keep
<1>4. ASSUME NEW s, Goto(r, "challenging"), Keep(r, [local[r] EXCEPT !.session = s])
      PROVE  LInv'
  <2> DEFINE mem == [local[r] EXCEPT !.session = s]
  <2>1. mem.past = local[r].past
    BY <1>1, AtWork DEF Locals
  <2>2. Keep(r, mem)
    BY <1>4
  <2> HIDE DEF mem
  <2> QED
    BY <1>1, <1>2, <1>4, <2>1, <2>2, GoKeepsLinks
<1> QED
  BY <1>3, <1>4 DEF LookForSession

LEMMA FetchLinks ==
    ASSUME LInv, TInv', NEW r \in Request, Fetch(r)
    PROVE  LInv'
<1>1. TInv /\ pc[r] = "fetching" /\ pc[r] # "idle" /\ Active(r) /\ call' = call
  BY DEF LInv, Fetch, Active
<1>2. CASE Fail(r)
  BY <1>1, <1>2, FailKeepsLinks
<1>3. CASE ~ Fail(r)
  <2> DEFINE c == call[r].challenge
             mem == [local[r] EXCEPT !.copy = challenges[c], !.session = challenges[c].existing]
  <2>1. mem.past = local[r].past /\ mem.session = challenges[c].existing
    BY <1>1, AtWork DEF Locals
  <2>2. Keep(r, mem) /\ UNCHANGED tables
    BY <1>3 DEF Fetch
  <2>3. PICK label \in {"expiring", "rejecting", "revoking"} : Goto(r, label)
    BY <1>3 DEF Fetch
  <2>4. mem.past \subseteq Rows(sessions)
    BY <2>1 DEF LInv, Links
  <2> HIDE DEF mem
  <2> QED
    BY <1>1, <2>1, <2>2, <2>3, <2>4, StepKeepsLinks DEF Goto, Keep, tables
<1> QED
  BY <1>2, <1>3

LEMMA AuthorizeLinks ==
    ASSUME LInv, TInv', NEW r \in Request, Authorize(r)
    PROVE  LInv'
<1>1. TInv /\ pc[r] = "authorizing" /\ pc[r] # "idle" /\ Active(r) /\ call' = call
  BY DEF LInv, Authorize, Active
<1>2. call[r].op # "resolve"
  BY <1>1, AtWork, CallFields DEF Path
<1>3. CASE Fail(r)
  BY <1>1, <1>3, FailKeepsLinks
<1>4. CASE ~ Fail(r)
  <2> DEFINE mem == [local[r] EXCEPT !.session = call[r].session]
  <2>1. mem.past = local[r].past
    BY <1>1, AtWork DEF Locals
  <2>2. Keep(r, mem) /\ Goto(r, "identifying") /\ UNCHANGED tables
    BY <1>4 DEF Authorize
  <2> HIDE DEF mem
  <2> QED
    BY <1>1, <1>2, <2>1, <2>2, GoKeepsLinks DEF tables
<1> QED
  BY <1>3, <1>4

LEMMA RedeemLinks ==
    ASSUME LInv, TInv', NEW r \in Request, Redeem(r)
    PROVE  LInv'
<1>1. TInv /\ pc[r] = "redeeming" /\ pc[r] # "idle" /\ Active(r) /\ call' = call
  BY DEF LInv, Redeem, Active
<1>2. call[r].op # "resolve"
  BY <1>1, AtWork, CallFields DEF Path
<1>3. CASE Fail(r)
  BY <1>1, <1>3, FailKeepsLinks
<1>4. CASE ~ Fail(r)
  <2> DEFINE t == call[r].token
             mem == [local[r] EXCEPT !.target = t, !.copy = tokens[t], !.beside = Holding(t)]
  <2>1. mem.past = local[r].past
    BY <1>1, AtWork DEF Locals
  <2>2. Keep(r, mem) /\ Goto(r, "changing") /\ UNCHANGED tables
    BY <1>4 DEF Redeem
  <2> HIDE DEF mem
  <2> QED
    BY <1>1, <1>2, <2>1, <2>2, GoKeepsLinks DEF tables
<1> QED
  BY <1>3, <1>4

LEMMA ChangePasswordLinks ==
    ASSUME LInv, TInv', NEW r \in Request, ChangePassword(r)
    PROVE  LInv'
<1>1. TInv /\ pc[r] = "changing" /\ pc[r] # "idle"
  BY DEF LInv, ChangePassword
<1>2. call[r].op # "resolve"
  BY <1>1, AtWork, CallFields DEF Path
<1> DEFINE mem == [local[r] EXCEPT !.past = Rows(sessions)]
<1>3. mem.past = Rows(sessions)
  BY <1>1, AtWork DEF Locals
<1>4. Keep(r, mem) /\ Goto(r, "spending") /\ UNCHANGED tables /\ call' = call
  BY DEF ChangePassword
<1> HIDE DEF mem
<1> QED
  BY <1>1, <1>2, <1>3, <1>4, StepKeepsLinks DEF Goto, Keep, tables

LEMMA SpendLinks ==
    ASSUME LInv, TInv', NEW r \in Request, Spend(r)
    PROVE  LInv'
<1>1. TInv /\ pc[r] = "spending" /\ pc[r] # "idle"
  BY DEF LInv, Spend
<1>2. call[r].op # "resolve"
  BY <1>1, AtWork, CallFields DEF Path
<1>3. Keep(r, local[r])
  BY <1>1, KeptLocal DEF Spend
<1> QED
  BY <1>1, <1>2, <1>3, GoKeepsLinks DEF Spend

----------------------------------------------------------------------------
\* The steps that write sessions or challenges.

LEMMA Memory ==
    ASSUME TInv, NEW r \in Request, NEW outcome, End(r, outcome)
    PROVE  /\ pc'[r] = outcome
           /\ local'[r].past = local[r].past /\ local'[r].session = local[r].session
           /\ \A q \in Request \ {r} : pc'[q] = pc[q] /\ local'[q] = local[q]
<1>1. local[r] \in Locals
  BY DEF TInv, TypeOK
<1>2. local'[r] = [local[r] EXCEPT !.copy = Absent]
  BY DEF End, Keep, TInv, TypeOK
<1> QED
  BY <1>1, <1>2 DEF End, Goto, Keep, TInv, TypeOK, Locals

LEMMA SaveChallengeLinks ==
    ASSUME LInv, TInv', NEW r \in Request, SaveChallenge(r)
    PROVE  LInv'
<1>1. TInv /\ pc[r] = "challenging" /\ pc[r] # "idle" /\ r \in Id
  BY RowFacts DEF LInv, SaveChallenge
<1>2. call[r].op = "verify"
  BY <1>1, AtWork, CallFields DEF Path
<1>3. sessions' = sessions /\ call' = call /\ challenges[r] = Absent /\ sessions[r] = Absent
  BY <1>1 DEF SaveChallenge, LInv, Links
<1>4. \A i \in Id \ {r} : challenges'[i] = challenges[i]
  BY DEF SaveChallenge, LInv, TInv, TypeOK
<1>5. Aging /\ AddsOwn(r)
  BY <1>3, <1>4 DEF Aging, AddsOwn
<1>6. /\ pc'[r] = "done" /\ local'[r].past = local[r].past
      /\ \A q \in Request \ {r} : pc'[q] = pc[q] /\ local'[q] = local[q] /\ call'[q] = call[q]
  BY <1>1, <1>3, Memory DEF SaveChallenge
<1>7. Links(r)'
  BY <1>2, <1>3, <1>6 DEF LInv, Links, Resolving, Rows
<1> QED
  BY <1>5, <1>6, <1>7, MoveKeepsLinks

LEMMA OpenSessionLinks ==
    ASSUME LInv, TInv', NEW r \in Request, OpenSession(r)
    PROVE  LInv'
<1>1. TInv /\ pc[r] = "opening" /\ pc[r] # "idle" /\ r \in Id
  BY RowFacts DEF LInv, OpenSession
<1>2. call[r].op \in {"verify", "resolve"}
  BY <1>1, AtWork, CallFields DEF Path
<1>3. /\ challenges' = challenges /\ call' = call
      /\ challenges[r] = Absent /\ sessions[r] = Absent
  BY <1>1 DEF OpenSession, LInv, Links
<1>4. \A i \in Id \ {r} : sessions'[i] = sessions[i]
  BY DEF OpenSession, LInv, TInv, TypeOK
<1>5. Aging /\ AddsOwn(r)
  BY <1>3, <1>4 DEF Aging, AddsOwn
<1>6. /\ pc'[r] = IF call[r].op = "resolve" THEN "accepting" ELSE "done"
      /\ local'[r].past = local[r].past /\ local'[r].session = local[r].session
      /\ \A q \in Request \ {r} : pc'[q] = pc[q] /\ local'[q] = local[q] /\ call'[q] = call[q]
  <2>1. CASE call[r].op = "resolve"
    BY <1>1, <2>1 DEF OpenSession, Goto, TInv, TypeOK
  <2>2. CASE call[r].op # "resolve"
    BY <1>1, <1>3, <2>2, Memory DEF OpenSession
  <2> QED
    BY <2>1, <2>2
<1>7. local'[r].past \subseteq Rows(sessions')
  BY <1>3, <1>4, <1>6 DEF LInv, Links, Rows
<1>8. CASE call[r].op = "resolve"
  <2>1. local[r].session \in Rows(sessions)
    BY <1>1, <1>8, AtWork DEF Needs, Resolving
  <2>2. sessions'[local[r].session] = sessions[local[r].session]
    BY <1>3, <1>4, <2>1 DEF Rows
  <2>3. /\ challenges[call[r].challenge].existing = local[r].session
        /\ ~ sessions[local[r].session].isActive
    BY <1>1, <1>8 DEF LInv, Links, Resolving
  <2>4. Links(r)'
    BY <1>3, <1>6, <1>7, <1>8, <2>2, <2>3 DEF Links
  <2> QED
    BY <1>5, <1>6, <2>4, MoveKeepsLinks
<1>9. CASE call[r].op = "verify"
  <2>1. Links(r)'
    BY <1>3, <1>6, <1>7, <1>9 DEF Links, Resolving
  <2> QED
    BY <1>5, <1>6, <2>1, MoveKeepsLinks
<1> QED
  BY <1>2, <1>8, <1>9

LEMMA RevokeLinks ==
    ASSUME LInv, TInv', NEW r \in Request, Revoke(r)
    PROVE  LInv'
<1>1. TInv /\ pc[r] = "revoking" /\ pc[r] # "idle" /\ r \in Id
  BY RowFacts DEF LInv, Revoke
<1>2. call[r].op \in {"logout", "resolve"}
  BY <1>1, AtWork, CallFields DEF Path
<1> DEFINE s == local[r].session
<1>3. s \in Id /\ sessions[s] # Absent /\ sessions[s] \in Session
  BY <1>1, <1>2, AtWork DEF Needs, Resolving, Rows, TInv, TypeOK
<1>4. /\ challenges' = challenges /\ call' = call
      /\ challenges[r] = Absent /\ sessions[r] = Absent
  BY <1>1 DEF Revoke, LInv, Links
<1>5. /\ sessions'[s] = [sessions[s] EXCEPT !.isActive = FALSE]
      /\ \A i \in Id \ {s} : sessions'[i] = sessions[i]
  BY <1>3 DEF Revoke, LInv, TInv, TypeOK
<1>6. sessions'[s] \in Session /\ ~ sessions'[s].isActive
  BY <1>3, <1>5 DEF Session
<1>7. Aging /\ AddsOwn(r)
  BY <1>3, <1>4, <1>5, <1>6, RowFacts DEF Aging, AddsOwn
<1>8. /\ pc'[r] = IF call[r].op = "resolve" THEN "identifying" ELSE "done"
      /\ local'[r].past = local[r].past /\ local'[r].session = s
      /\ \A q \in Request \ {r} : pc'[q] = pc[q] /\ local'[q] = local[q] /\ call'[q] = call[q]
  <2>1. CASE call[r].op = "resolve"
    BY <1>1, <2>1 DEF Revoke, Goto, TInv, TypeOK
  <2>2. CASE call[r].op # "resolve"
    BY <1>1, <1>4, <2>2, Memory DEF Revoke
  <2> QED
    BY <2>1, <2>2
<1>9. local'[r].past \subseteq Rows(sessions')
  BY <1>7, <1>8 DEF LInv, Links, Rows, Aging
<1>10. sessions'[r] = Absent
  BY <1>1, <1>3, <1>4, <1>5
<1>11. call[r].op = "resolve" => challenges[call[r].challenge].existing = s
  BY <1>1 DEF LInv, Links, Resolving
<1>12. Links(r)'
  BY <1>2, <1>4, <1>6, <1>8, <1>9, <1>10, <1>11 DEF Links
<1> QED
  BY <1>7, <1>8, <1>12, MoveKeepsLinks

LEMMA SettleLinks ==
    ASSUME LInv, TInv', NEW r \in Request, Settle(r)
    PROVE  LInv'
<1>1. /\ TInv /\ pc[r] \in {"expiring", "rejecting", "accepting"} /\ pc[r] # "idle"
      /\ sessions' = sessions /\ call' = call
  BY DEF LInv, Settle, Resolution
<1>2. call[r].op = "resolve" /\ call[r].challenge \in Id /\ challenges[call[r].challenge] # Absent
  BY <1>1, AtWork, CallFields DEF Path, Aimed
<1> DEFINE c == call[r].challenge
<1>3. /\ local[r].copy \in Challenge
      /\ local[r].copy.existing = challenges[c].existing
  BY <1>1, <1>2, AtWork DEF Needs, Resolving, LInv, Links
<1>4. /\ challenges'[c] = [local[r].copy EXCEPT !.status = Resolution[pc[r]]]
      /\ \A i \in Id \ {c} : challenges'[i] = challenges[i]
  BY <1>2 DEF Settle, LInv, TInv, TypeOK
<1>5. challenges'[c] \in Challenge /\ challenges'[c].existing = challenges[c].existing
  BY <1>1, <1>3, <1>4 DEF Challenge, Resolution
<1>6. Aging /\ AddsOwn(r)
  BY <1>1, <1>2, <1>4, <1>5, RowFacts DEF Aging, AddsOwn
<1>7. /\ pc'[r] \in {"done", "failed"}
      /\ local'[r].past = local[r].past
      /\ \A q \in Request \ {r} : pc'[q] = pc[q] /\ local'[q] = local[q] /\ call'[q] = call[q]
  BY <1>1, Memory DEF Settle
<1>8. Links(r)'
  BY <1>1, <1>2, <1>7 DEF LInv, Links, Resolving, Rows
<1> QED
  BY <1>6, <1>7, <1>8, MoveKeepsLinks

LEMMA ClearLinks ==
    ASSUME LInv, TInv', NEW r \in Request, Clear(r)
    PROVE  LInv'
<1>1. TInv /\ pc[r] = "clearing" /\ pc[r] # "idle"
  BY DEF LInv, Clear
<1>2. call[r].op = "reset"
  BY <1>1, AtWork, CallFields DEF Path
<1>3. \A i \in Id : /\ sessions[i] = Absent => sessions'[i] = Absent
                    /\ sessions[i] # Absent =>
                          /\ sessions[i] \in Session
                          /\ sessions'[i] = [sessions[i] EXCEPT !.isActive = FALSE]
  BY DEF Clear, LInv, TInv, TypeOK
<1>4. \A i \in Id : sessions[i] # Absent => sessions'[i] \in Session /\ ~ sessions'[i].isActive
  BY <1>3 DEF Session
<1>5. challenges' = challenges /\ call' = call
  BY DEF Clear
<1>6. Aging /\ AddsOwn(r)
  BY <1>3, <1>4, <1>5, RowFacts DEF Aging, AddsOwn
<1>7. /\ pc'[r] = "done" /\ local'[r].past = local[r].past
      /\ \A q \in Request \ {r} : pc'[q] = pc[q] /\ local'[q] = local[q] /\ call'[q] = call[q]
  BY <1>1, <1>5, Memory DEF Clear
<1>8. local[r].past \subseteq Rows(sessions)
  BY DEF LInv, Links
<1>9. /\ local'[r].past \subseteq Rows(sessions')
      /\ \A s \in local'[r].past : ~ sessions'[s].isActive
  BY <1>4, <1>7, <1>8, RowFacts DEF Rows
<1>10. Links(r)'
  BY <1>2, <1>5, <1>7, <1>9 DEF Links, Resolving
<1> QED
  BY <1>6, <1>7, <1>10, MoveKeepsLinks

LEMMA InitLinks == Init => LInv
<1> SUFFICES ASSUME Init PROVE LInv
  OBVIOUS
<1>1. ASSUME NEW r \in Request
      PROVE  sessions[r] = Absent /\ challenges[r] = Absent
  <2>1. r \in Id /\ r \notin OldSession /\ r \notin OldChallenge
    BY ConstantAssumption DEF Id, Old
  <2> QED
    BY <2>1 DEF Init
<1>2. \A r \in Request : pc[r] = "idle" /\ local[r].past = {}
  BY DEF Init, Forgotten
<1> QED
  BY <1>1, <1>2, InitTypes DEF LInv, Links, Resolving

LEMMA NextLinks == LInv /\ [Next]_vars => LInv'
<1> SUFFICES ASSUME LInv, [Next]_vars PROVE LInv'
  OBVIOUS
<1>0. TInv'
  BY NextTypes DEF LInv
<1>1. ASSUME NEW r \in Request, Step(r) PROVE LInv'
  BY <1>0, <1>1, IdentifyLinks, CountLinks, IssueLinks, MatchLinks, MissLinks, UseLinks,
     LookForSessionLinks, SaveChallengeLinks, OpenSessionLinks, FetchLinks, RevokeLinks,
     SettleLinks, AuthorizeLinks, RedeemLinks, ChangePasswordLinks, SpendLinks, ClearLinks
     DEF Step
<1>2. ASSUME NEW r \in Request, Abort(r) PROVE LInv'
  BY <1>0, <1>2, FailKeepsLinks DEF Abort
<1>3. ASSUME \/ \E i \in Id : Expire(i) \/ Age(i)
             \/ \E status \in Accounts : ChangeAccount(status)
             \/ UNCHANGED vars
      PROVE  LInv'
  <2>1. sessions' = sessions /\ challenges' = challenges
        /\ pc' = pc /\ call' = call /\ local' = local
    BY <1>3 DEF Expire, Age, ChangeAccount, vars, tables
  <2> QED
    BY <1>0, <2>1 DEF LInv, Links, Rows
<1> QED
  BY <1>0, <1>1, <1>2, <1>3, ArriveLinks DEF Next

\* A password reset that has answered left none of the sessions that were there
\* when it changed the password active, for any number of requests of any kind.
THEOREM ResetsClear == Spec => []ResetClearsSessions
<1>1. LInv => ResetClearsSessions
  BY DEF LInv, Links, ResetClearsSessions
<1> QED
  BY <1>1, InitLinks, NextLinks, PTL DEF Spec

----------------------------------------------------------------------------
(* The refinement *)

LEMMA InitLifecycle == Init => Lifecycle!Init
<1> SUFFICES ASSUME Init PROVE Lifecycle!Init
  OBVIOUS
<1>1. TInv
  BY InitTypes
<1>2. SessionState \in [Id -> {"none", "active", "revoked"}]
  BY DEF SessionState
<1>3. ChallengeState \in [Id -> {"none", "pending", "resolved"}]
  BY DEF ChallengeState
<1>4. About \in [Id -> Id \cup {Absent}]
  BY <1>1 DEF About, TInv, TypeOK, Challenge
<1>5. \A c \in Id : IF ChallengeState[c] = "none" THEN About[c] = Absent
                                                  ELSE SessionState[About[c]] # "none"
  BY <1>1 DEF ChallengeState, About, SessionState, TInv, ChallengesKnown, Rows
<1>6. \A r \in Request : sessions[r] = Absent
  BY InitLinks DEF Init, LInv, Links
<1>7. Through = [i \in Id |-> Absent]
  BY <1>6 DEF Through
<1> QED
  BY <1>2, <1>3, <1>4, <1>5, <1>7 DEF Lifecycle!Init

\* Most steps write neither table.
LEMMA QuietStutters ==
    ASSUME sessions' = sessions, challenges' = challenges,
           \A r \in Request : sessions[r] # Absent => call'[r] = call[r]
    PROVE  UNCHANGED Lifecycle!vars
BY DEF Lifecycle!vars, SessionState, ChallengeState, About, Through

LEMMA SaveChallengeConfronts ==
    ASSUME LInv, NEW r \in Request, SaveChallenge(r)
    PROVE  Lifecycle!Confront(r, local[r].session)
<1> DEFINE s == local[r].session
<1>1. TInv /\ pc[r] = "challenging" /\ pc[r] # "idle" /\ r \in Id
  BY RowFacts DEF LInv, SaveChallenge
<1>2. s \in Rows(sessions) /\ challenges[r] = Absent
  BY <1>1, AtWork DEF Needs, LInv, Links
<1>3. /\ challenges'[r] = [existing |-> s, status |-> "pending"]
      /\ challenges'[r] # Absent
      /\ \A i \in Id \ {r} : challenges'[i] = challenges[i]
      /\ sessions' = sessions /\ call' = call
  <2>1. [existing |-> s, status |-> "pending"] \in Challenge
    BY <1>2 DEF Challenge, Rows
  <2> QED
    BY <1>1, <2>1, RowFacts DEF SaveChallenge, TInv, TypeOK
<1>4. ChallengeState[r] = "none" /\ SessionState[s] # "none"
  BY <1>1, <1>2 DEF ChallengeState, SessionState, Rows
<1>5. challenges'[r].status = "pending" /\ challenges'[r].existing = s
  BY <1>3
<1>6. ChallengeState' = [ChallengeState EXCEPT ![r] = "pending"]
  <2>1. ChallengeState' = [i \in Id |-> IF i = r THEN "pending" ELSE ChallengeState[i]]
    BY <1>3, <1>5 DEF ChallengeState
  <2> QED
    BY <2>1 DEF ChallengeState
<1>7. About' = [About EXCEPT ![r] = s]
  <2>1. About' = [i \in Id |-> IF i = r THEN s ELSE About[i]]
    BY <1>3, <1>5 DEF About
  <2> QED
    BY <2>1 DEF About
<1>8. SessionState' = SessionState /\ Through' = Through
  BY <1>3 DEF SessionState, Through
<1> QED
  BY <1>4, <1>6, <1>7, <1>8 DEF Lifecycle!Confront

LEMMA OpenSessionOpens ==
    ASSUME LInv, NEW r \in Request, OpenSession(r)
    PROVE  Lifecycle!Open(r) \/ \E c \in Id : Lifecycle!TakeOver(r, c)
<1>1. TInv /\ pc[r] = "opening" /\ pc[r] # "idle" /\ r \in Id
  BY RowFacts DEF LInv, OpenSession
<1>2. call[r].op \in {"verify", "resolve"}
  BY <1>1, AtWork, CallFields DEF Path
<1>3. sessions[r] = Absent
  BY <1>1 DEF LInv, Links
<1>4. /\ sessions'[r] # Absent /\ sessions'[r].isActive
      /\ \A i \in Id \ {r} : sessions'[i] = sessions[i]
      /\ challenges' = challenges /\ call' = call
  <2>1. Cardinality(Rows(sessions)) \in Nat
    BY ConstantAssumption, FS_Subset, FS_CardinalityType DEF Rows
  <2>2. [isActive |-> TRUE, at |-> Cardinality(Rows(sessions))] \in Session
    BY <2>1 DEF Session
  <2>3. sessions'[r] = [isActive |-> TRUE, at |-> Cardinality(Rows(sessions))]
    BY <1>1 DEF OpenSession, TInv, TypeOK
  <2>4. /\ \A i \in Id \ {r} : sessions'[i] = sessions[i]
        /\ challenges' = challenges /\ call' = call
    BY DEF OpenSession, TInv, TypeOK, LInv
  <2>5. sessions'[r] \in Session /\ sessions'[r].isActive
    BY <2>2, <2>3
  <2> QED
    BY <2>4, <2>5, RowFacts
<1>5. SessionState[r] = "none" /\ SessionState' = [SessionState EXCEPT ![r] = "active"]
  BY <1>1, <1>3, <1>4 DEF SessionState
<1>6. ChallengeState' = ChallengeState /\ About' = About
  BY <1>4 DEF ChallengeState, About
<1>7. CASE call[r].op = "verify"
  <2>1. Through' = Through
    BY <1>3, <1>4, <1>7 DEF Through
  <2> QED
    BY <1>5, <1>6, <2>1 DEF Lifecycle!Open
<1>8. CASE call[r].op = "resolve"
  <2> DEFINE c == call[r].challenge
             s == local[r].session
  <2>1. c \in Id /\ challenges[c] # Absent /\ s \in Rows(sessions)
    BY <1>1, <1>8, AtWork, CallFields DEF Aimed, Needs, Resolving
  <2>2. challenges[c].existing = s /\ ~ sessions[s].isActive
    BY <1>1, <1>8 DEF LInv, Links, Resolving
  <2>3. ChallengeState[c] # "none" /\ About[c] = s /\ SessionState[s] = "revoked"
    BY <2>1, <2>2 DEF ChallengeState, About, SessionState, Rows
  <2>4. Through' = [Through EXCEPT ![r] = c]
    BY <1>1, <1>3, <1>4, <1>8 DEF Through
  <2>5. Lifecycle!TakeOver(r, c)
    BY <1>5, <1>6, <2>3, <2>4 DEF Lifecycle!TakeOver
  <2> QED
    BY <2>1, <2>5
<1> QED
  BY <1>2, <1>7, <1>8

\* Revoke and Clear both make some active sessions revoked ones.
LEMMA ClearingRevokes ==
    ASSUME LInv, NEW S \in SUBSET Rows(sessions),
           \A i \in S : sessions'[i] # Absent /\ ~ sessions'[i].isActive,
           \A i \in Id \ S : sessions'[i] = sessions[i],
           challenges' = challenges, call' = call
    PROVE  \E A \in SUBSET Id : Lifecycle!Revoke(A)
<1> DEFINE A == {i \in S : sessions[i].isActive}
<1>1. A \in SUBSET Id
  BY DEF Rows
<1>2. \A i \in A : SessionState[i] = "active"
  BY DEF SessionState, Rows
<1>3. SessionState' = [i \in Id |-> IF i \in A THEN "revoked" ELSE SessionState[i]]
  <2>1. ASSUME NEW i \in Id
        PROVE  (IF sessions'[i] = Absent THEN "none"
                ELSE IF sessions'[i].isActive THEN "active" ELSE "revoked")
               = IF i \in A THEN "revoked" ELSE SessionState[i]
    BY DEF SessionState, Rows
  <2> QED
    BY <2>1 DEF SessionState
<1>4. ChallengeState' = ChallengeState /\ About' = About
  BY DEF ChallengeState, About
<1>5. Through' = Through
  <2>1. \A i \in Id : sessions'[i] = Absent <=> sessions[i] = Absent
    BY DEF Rows
  <2> QED
    BY <2>1, RowFacts DEF Through
<1> HIDE DEF A
<1> QED
  BY <1>1, <1>2, <1>3, <1>4, <1>5 DEF Lifecycle!Revoke

LEMMA RevokeRevokes ==
    ASSUME LInv, NEW r \in Request, Revoke(r)
    PROVE  \E A \in SUBSET Id : Lifecycle!Revoke(A)
<1>1. TInv /\ pc[r] = "revoking" /\ pc[r] # "idle"
  BY DEF LInv, Revoke
<1>2. call[r].op \in {"logout", "resolve"}
  BY <1>1, AtWork, CallFields DEF Path
<1> DEFINE s == local[r].session
<1>3. s \in Rows(sessions) /\ s \in Id /\ sessions[s] \in Session
  BY <1>1, <1>2, AtWork DEF Needs, Resolving, Rows, TInv, TypeOK
<1>4. /\ sessions'[s] = [sessions[s] EXCEPT !.isActive = FALSE]
      /\ \A i \in Id \ {s} : sessions'[i] = sessions[i]
      /\ challenges' = challenges /\ call' = call
  BY <1>3 DEF Revoke, LInv, TInv, TypeOK
<1>5. sessions'[s] \in Session /\ ~ sessions'[s].isActive
  BY <1>3, <1>4 DEF Session
<1>6. {s} \in SUBSET Rows(sessions)
  BY <1>3
<1>7. /\ \A i \in {s} : sessions'[i] # Absent /\ ~ sessions'[i].isActive
      /\ \A i \in Id \ {s} : sessions'[i] = sessions[i]
  BY <1>4, <1>5, RowFacts
<1> HIDE DEF s
<1> QED
  BY <1>4, <1>6, <1>7, ClearingRevokes

LEMMA ClearRevokes ==
    ASSUME LInv, NEW r \in Request, Clear(r)
    PROVE  \E A \in SUBSET Id : Lifecycle!Revoke(A)
<1>1. \A i \in Id : /\ sessions[i] = Absent => sessions'[i] = Absent
                    /\ sessions[i] # Absent =>
                          /\ sessions[i] \in Session
                          /\ sessions'[i] = [sessions[i] EXCEPT !.isActive = FALSE]
  BY DEF Clear, LInv, TInv, TypeOK
<1>2. \A i \in Rows(sessions) : sessions'[i] # Absent /\ ~ sessions'[i].isActive
  BY <1>1, RowFacts DEF Session, Rows
<1>3. \A i \in Id \ Rows(sessions) : sessions'[i] = sessions[i]
  BY <1>1 DEF Rows
<1>4. challenges' = challenges /\ call' = call
  BY DEF Clear
<1> QED
  BY <1>2, <1>3, <1>4, ClearingRevokes

LEMMA SettleResolves ==
    ASSUME LInv, NEW r \in Request, Settle(r)
    PROVE  Lifecycle!Resolve(call[r].challenge) \/ UNCHANGED Lifecycle!vars
<1>1. /\ TInv /\ pc[r] \in {"expiring", "rejecting", "accepting"} /\ pc[r] # "idle"
      /\ sessions' = sessions /\ call' = call
  BY DEF LInv, Settle, Resolution
<1>2. call[r].op = "resolve" /\ call[r].challenge \in Id /\ challenges[call[r].challenge] # Absent
  BY <1>1, AtWork, CallFields DEF Path, Aimed
<1> DEFINE c == call[r].challenge
<1>3. /\ local[r].copy \in Challenge
      /\ local[r].copy.existing = challenges[c].existing
  BY <1>1, <1>2, AtWork DEF Needs, Resolving, LInv, Links
<1>4. /\ challenges'[c] = [local[r].copy EXCEPT !.status = Resolution[pc[r]]]
      /\ \A i \in Id \ {c} : challenges'[i] = challenges[i]
  BY <1>2 DEF Settle, LInv, TInv, TypeOK
<1>5. /\ challenges'[c] \in Challenge /\ challenges'[c].existing = challenges[c].existing
      /\ challenges'[c].status # "pending"
  BY <1>1, <1>3, <1>4 DEF Challenge, Resolution
<1>6. challenges'[c] # Absent
  BY <1>5, RowFacts
<1>7. About' = About
  BY <1>2, <1>4, <1>5, <1>6 DEF About
<1>8. SessionState' = SessionState /\ Through' = Through
  BY <1>1 DEF SessionState, Through
<1>9. CASE challenges[c].status = "pending"
  <2>1. ChallengeState[c] = "pending"
    BY <1>2, <1>9 DEF ChallengeState
  <2>2. ChallengeState' = [ChallengeState EXCEPT ![c] = "resolved"]
    BY <1>2, <1>4, <1>5, <1>6 DEF ChallengeState
  <2> QED
    BY <1>7, <1>8, <2>1, <2>2 DEF Lifecycle!Resolve
<1>10. CASE challenges[c].status # "pending"
  <2>1. ChallengeState' = ChallengeState
    BY <1>2, <1>4, <1>5, <1>6, <1>10 DEF ChallengeState
  <2> QED
    BY <1>7, <1>8, <2>1 DEF Lifecycle!vars
<1> QED
  BY <1>9, <1>10

LEMMA StepsLifecycle ==
    ASSUME LInv, [Next]_vars PROVE [Lifecycle!Next]_(Lifecycle!vars)
<1>1. ASSUME NEW r \in Request, NEW c \in Calls, Arrive(r, c)
      PROVE  UNCHANGED Lifecycle!vars
  <2>1. sessions[r] = Absent
    BY <1>1 DEF Arrive, LInv, Links
  <2>2. sessions' = sessions /\ challenges' = challenges
        /\ \A q \in Request \ {r} : call'[q] = call[q]
    BY <1>1 DEF Arrive, tables, LInv, TInv, TypeOK
  <2> QED
    BY <2>1, <2>2, QuietStutters
<1>2. ASSUME NEW r \in Request, Step(r)
      PROVE  [Lifecycle!Next]_(Lifecycle!vars)
  <2>1. CASE SaveChallenge(r)
    <3>1. local[r].session \in Id /\ r \in Id
      BY <2>1, AtWork, RowFacts DEF SaveChallenge, LInv, Needs, Rows
    <3> QED
      BY <2>1, <3>1, SaveChallengeConfronts DEF Lifecycle!Next
  <2>2. CASE OpenSession(r)
    BY <2>2, OpenSessionOpens, RowFacts DEF Lifecycle!Next
  <2>3. CASE Revoke(r)
    BY <2>3, RevokeRevokes DEF Lifecycle!Next
  <2>4. CASE Clear(r)
    BY <2>4, ClearRevokes DEF Lifecycle!Next
  <2>5. CASE Settle(r)
    <3>1. call[r].challenge \in Id
      BY <2>5, AtWork, CallFields DEF Settle, Resolution, Path, LInv
    <3> QED
      BY <2>5, <3>1, SettleResolves DEF Lifecycle!Next
  <2>6. CASE \/ Identify(r) \/ Count(r) \/ Issue(r) \/ Match(r) \/ Miss(r) \/ Use(r)
             \/ LookForSession(r) \/ Fetch(r) \/ Authorize(r)
             \/ Redeem(r) \/ ChangePassword(r) \/ Spend(r)
    <3>1. sessions' = sessions /\ challenges' = challenges /\ call' = call
      BY <2>6 DEF Identify, Count, Issue, Match, Miss, Use, LookForSession, Fetch,
                  Authorize, Redeem, ChangePassword, Spend, Fail, tables
    <3> QED
      BY <3>1, QuietStutters
  <2> QED
    BY <1>2, <2>1, <2>2, <2>3, <2>4, <2>5, <2>6 DEF Step
<1>3. ASSUME \/ \E r \in Request : Abort(r)
             \/ \E i \in Id : Expire(i) \/ Age(i)
             \/ \E status \in Accounts : ChangeAccount(status)
             \/ UNCHANGED vars
      PROVE  UNCHANGED Lifecycle!vars
  <2>1. sessions' = sessions /\ challenges' = challenges /\ call' = call
    BY <1>3 DEF Abort, Fail, Expire, Age, ChangeAccount, vars, tables
  <2> QED
    BY <2>1, QuietStutters
<1> QED
  BY <1>1, <1>2, <1>3 DEF Next

\* AuthService does what SessionLifecycle promises, for any number of requests,
\* sessions and challenges and whatever order their steps come in.
THEOREM LifecycleImplemented == Spec => ImplementsLifecycle
<1>1. Init => Lifecycle!Init
  BY InitLifecycle
<1>2. LInv /\ [Next]_vars => [Lifecycle!Next]_(Lifecycle!vars)
  BY StepsLifecycle
<1> QED
  BY <1>1, <1>2, InitLinks, NextLinks, PTL DEF Spec, ImplementsLifecycle, Lifecycle!Spec

----------------------------------------------------------------------------
(* No session next to another *)

LEMMA NextAges ==
    ASSUME LInv, [Next]_vars PROVE Aging /\ expired \subseteq expired'
<1>1. [Lifecycle!Next]_(Lifecycle!vars)
  BY StepsLifecycle
<1>2. ASSUME NEW i \in Id
      PROVE  /\ SessionState[i] # "none" => SessionState'[i] # "none"
             /\ SessionState[i] = "revoked" => SessionState'[i] = "revoked"
             /\ ChallengeState[i] # "none" => ChallengeState'[i] # "none" /\ About'[i] = About[i]
  BY <1>1 DEF Lifecycle!Next, Lifecycle!vars, Lifecycle!Open, Lifecycle!Confront,
     Lifecycle!Resolve, Lifecycle!Revoke, Lifecycle!TakeOver, SessionState, ChallengeState, About
<1>3. Aging
  BY <1>2 DEF Aging, SessionState, ChallengeState, About
<1>4. expired \subseteq expired'
  BY DEF Next, Step, Arrive, Abort, Expire, Age, ChangeAccount, vars, Identify, Count, Issue,
     Match, Miss, Use, LookForSession, SaveChallenge, OpenSession, Fetch, Revoke, Settle,
     Authorize, Redeem, ChangePassword, Spend, Clear
<1> QED
  BY <1>3, <1>4

\* What was there and could not be used can never be used.
LEMMA UnusableStays ==
    ASSUME LInv, [Next]_vars, NEW s \in Rows(sessions), ~ Usable(s)
    PROVE  ~ Usable(s)'
BY NextAges DEF Aging, Usable, Rows

\* What the steps of a request leave alone.
LEMMA StepFacts ==
    ASSUME TInv, NEW r \in Request, Step(r)
    PROVE  /\ pc[r] # "idle" /\ pc'[r] # "idle" /\ call' = call
           /\ \A q \in Request \ {r} : pc'[q] = pc[q] /\ local'[q] = local[q]
           /\ local'[r].past = local[r].past \/ ChangePassword(r) \/ LookForSession(r)
<1>0. local[r] \in Locals /\ pc \in [Request -> Labels] /\ local \in [Request -> Locals]
  BY DEF TInv, TypeOK
<1> DEFINE Moves(label, mem) ==
             pc' = [pc EXCEPT ![r] = label] /\ local' = [local EXCEPT ![r] = mem]
<1>1. pc[r] # "idle"
  BY DEF Step, Identify, Count, Issue, Match, Miss, Use, LookForSession, SaveChallenge,
     OpenSession, Fetch, Revoke, Settle, Authorize, Redeem, ChangePassword, Spend, Clear,
     Resolution
<1>2. call' = call
  BY DEF Step, Identify, Count, Issue, Match, Miss, Use, LookForSession, SaveChallenge,
     OpenSession, Fetch, Revoke, Settle, Authorize, Redeem, ChangePassword, Spend, Clear
<1>3. local = [local EXCEPT ![r] = local[r]]
  BY <1>0
<1>4. \E label \in Labels \ {"idle"} : pc' = [pc EXCEPT ![r] = label]
  <2>1. AfterUser(call[r].op) \in Labels \ {"idle"}
    BY DEF AfterUser, Labels
  <2> QED
    BY <2>1 DEF Step, Identify, Count, Issue, Match, Miss, Use, LookForSession, SaveChallenge,
       OpenSession, Fetch, Revoke, Settle, Authorize, Redeem, ChangePassword, Spend, Clear,
       Goto, End, Fail, Labels
<1>5. \/ /\ local'[r].past = local[r].past
         /\ \A q \in Request \ {r} : local'[q] = local[q]
      \/ /\ ChangePassword(r) \/ LookForSession(r)
         /\ \A q \in Request \ {r} : local'[q] = local[q]
  <2>1. ASSUME NEW o, End(r, o)
        PROVE  /\ local'[r].past = local[r].past
               /\ \A q \in Request \ {r} : local'[q] = local[q]
    BY <2>1, <1>0, Memory
  <2>2. CASE local' = local
    BY <2>2
  <2>3. ASSUME NEW mem, Keep(r, mem), mem.past = local[r].past
        PROVE  /\ local'[r].past = local[r].past
               /\ \A q \in Request \ {r} : local'[q] = local[q]
    BY <1>0, <2>3 DEF Keep
  <2>6. CASE Match(r)
    <3>1. CASE Fail(r)
      BY <2>1, <3>1 DEF Fail
    <3>2. ASSUME NEW o \in OpenCodes,
                 Keep(r, [local[r] EXCEPT !.target = o, !.copy = otps[o], !.beside = Holding(o)])
          PROVE  /\ local'[r].past = local[r].past
                 /\ \A q \in Request \ {r} : local'[q] = local[q]
      <4> DEFINE mem == [local[r] EXCEPT !.target = o, !.copy = otps[o], !.beside = Holding(o)]
      <4>1. mem.past = local[r].past
        BY <1>0 DEF Locals
      <4> QED
        BY <2>3, <3>2, <4>1
    <3> QED
      BY <2>6, <3>1, <3>2 DEF Match
  <2>7. CASE Fetch(r)
    <3> DEFINE mem == [local[r] EXCEPT !.copy = challenges[call[r].challenge],
                                       !.session = challenges[call[r].challenge].existing]
    <3>1. mem.past = local[r].past
      BY <1>0 DEF Locals
    <3>2. Fail(r) \/ Keep(r, mem)
      BY <2>7 DEF Fetch
    <3> QED
      BY <2>1, <2>3, <3>1, <3>2 DEF Fail
  <2>8. CASE Authorize(r)
    <3> DEFINE mem == [local[r] EXCEPT !.session = call[r].session]
    <3>1. mem.past = local[r].past
      BY <1>0 DEF Locals
    <3>2. Fail(r) \/ Keep(r, mem)
      BY <2>8 DEF Authorize
    <3> QED
      BY <2>1, <2>3, <3>1, <3>2 DEF Fail
  <2>9. CASE Redeem(r)
    <3> DEFINE mem == [local[r] EXCEPT !.target = call[r].token, !.copy = tokens[call[r].token],
                                       !.beside = Holding(call[r].token)]
    <3>1. mem.past = local[r].past
      BY <1>0 DEF Locals
    <3>2. Fail(r) \/ Keep(r, mem)
      BY <2>9 DEF Redeem
    <3> QED
      BY <2>1, <2>3, <3>1, <3>2 DEF Fail
  <2>4. CASE LookForSession(r) \/ ChangePassword(r)
    BY <1>0, <2>4 DEF LookForSession, ChangePassword, Keep
  <2>5. CASE \/ Identify(r) \/ Count(r) \/ Issue(r) \/ Miss(r) \/ Use(r) \/ SaveChallenge(r)
             \/ OpenSession(r) \/ Revoke(r) \/ Settle(r) \/ Spend(r) \/ Clear(r)
    BY <2>1, <2>2, <2>5 DEF Identify, Count, Issue, Miss, Use, SaveChallenge, OpenSession,
       Revoke, Settle, Spend, Clear, Fail
  <2> QED
    BY <2>4, <2>5, <2>6, <2>7, <2>8, <2>9 DEF Step
<1> QED
  BY <1>0, <1>1, <1>2, <1>4, <1>5

\* A session comes into being by OpenSession.
LEMMA OpenedBySelf ==
    ASSUME LInv, [Next]_vars, NEW r \in Request, sessions[r] = Absent, sessions'[r] # Absent
    PROVE  OpenSession(r)
<1>0. r \in Id /\ TInv
  BY RowFacts DEF LInv
<1>1. sessions' # sessions
  OBVIOUS
<1>2. PICK q \in Request : OpenSession(q) \/ Revoke(q) \/ Clear(q)
  BY <1>1 DEF Next, Step, Arrive, Abort, Expire, Age, ChangeAccount, vars, tables, Identify,
     Count, Issue, Match, Miss, Use, LookForSession, SaveChallenge, Fetch, Settle,
     Authorize, Redeem, ChangePassword, Spend, Fail
<1>3. CASE OpenSession(q)
  BY <1>0, <1>3 DEF OpenSession, TInv, TypeOK
<1>4. CASE Revoke(q)
  <2>1. pc[q] = "revoking" /\ pc[q] # "idle"
    BY <1>4 DEF Revoke
  <2>2. call[q].op \in {"logout", "resolve"}
    BY <1>0, <2>1, AtWork, CallFields DEF Path
  <2>3. local[q].session \in Rows(sessions)
    BY <1>0, <2>1, <2>2, AtWork DEF Needs, Resolving
  <2> QED
    BY <1>0, <1>4, <2>3 DEF Revoke, Rows, TInv, TypeOK
<1>5. CASE Clear(q)
  BY <1>0, <1>5 DEF Clear
<1> QED
  BY <1>2, <1>3, <1>4, <1>5

\* Strengthening: a verification has seen no usable session among those it recorded, and
\* the session a challenge was about stays revoked next to the one opened through it.
Sole(r) ==
    /\ pc[r] = "idle" => local[r].past = {}
    /\ pc[r] # "idle" /\ call[r].op = "verify" => \A s \in local[r].past : ~ Usable(s)
    /\ sessions[r] # Absent =>
          /\ pc[r] # "idle" /\ call[r].op \in {"verify", "resolve"}
          /\ call[r].op = "resolve" =>
                ~ sessions[challenges[call[r].challenge].existing].isActive

SInv == LInv /\ \A r \in Request : Sole(r)

LEMMA InitSole == Init => SInv
<1> SUFFICES ASSUME Init PROVE SInv
  OBVIOUS
<1>1. LInv /\ \A r \in Request : pc[r] = "idle" /\ local[r].past = {}
  BY InitLinks DEF Init, Forgotten
<1> QED
  BY <1>1 DEF SInv, Sole, LInv, Links

LEMMA NextSole == SInv /\ [Next]_vars => SInv'
<1> SUFFICES ASSUME SInv, [Next]_vars PROVE SInv'
  OBVIOUS
<1>1. LInv /\ LInv' /\ TInv /\ TInv'
  BY NextLinks DEF SInv, LInv
<1> SUFFICES ASSUME NEW r \in Request PROVE Sole(r)'
  BY <1>1 DEF SInv
<1>2. Sole(r) /\ Links(r) /\ Links(r)' /\ r \in Id
  BY <1>1, RowFacts DEF SInv, LInv
<1> DEFINE Same == local'[r].past = local[r].past /\ (pc'[r] = "idle" => pc[r] = "idle")
           Seen == pc'[r] # "idle" /\ (ChangePassword(r) \/ LookForSession(r))
           Stays == pc[r] # "idle" => pc'[r] # "idle" /\ call'[r] = call[r]
<1>3. (Same \/ Seen) /\ Stays
  <2>1. ASSUME NEW q \in Request, NEW c \in Calls, Arrive(q, c)
        PROVE  Same /\ Stays
    <3>1. /\ pc' = [pc EXCEPT ![q] = FirstStep(c.op)] /\ call' = [call EXCEPT ![q] = c]
          /\ local' = local /\ pc[q] = "idle" /\ FirstStep(c.op) # "idle"
      BY <2>1, CallFields DEF Arrive, Goto, FirstStep, Calls
    <3> QED
      BY <1>1, <3>1 DEF TInv, TypeOK
  <2>2. ASSUME NEW q \in Request, Step(q)
        PROVE  (Same \/ Seen) /\ Stays
    <3>1. pc[q] # "idle" /\ pc'[q] # "idle" /\ call' = call
      BY <1>1, <2>2, StepFacts
    <3>2. CASE q = r
      BY <1>1, <2>2, <3>1, <3>2, StepFacts
    <3>3. CASE q # r
      <4>1. pc'[r] = pc[r] /\ local'[r] = local[r]
        BY <1>1, <2>2, <3>3, StepFacts
      <4> QED
        BY <3>1, <4>1
    <3> QED
      BY <3>2, <3>3
  <2>3. ASSUME NEW q \in Request, Abort(q)
        PROVE  Same /\ Stays
    <3>1. End(q, "failed") /\ call' = call /\ pc[q] # "idle"
      BY <2>3 DEF Abort, Fail, Active
    <3>2. CASE q = r
      BY <1>1, <3>1, <3>2, Memory
    <3>3. CASE q # r
      <4>1. pc'[r] = pc[r] /\ local'[r] = local[r]
        BY <1>1, <3>1, <3>3, Memory
      <4> QED
        BY <3>1, <4>1
    <3> QED
      BY <3>2, <3>3
  <2>4. ASSUME \/ \E i \in Id : Expire(i) \/ Age(i)
               \/ \E status \in Accounts : ChangeAccount(status)
               \/ UNCHANGED vars
        PROVE  Same /\ Stays
    <3>1. pc' = pc /\ call' = call /\ local' = local
      BY <2>4 DEF Expire, Age, ChangeAccount, vars
    <3> QED
      BY <3>1
  <2> QED
    BY <2>1, <2>2, <2>3, <2>4 DEF Next
<1>4. pc'[r] = "idle" => local'[r].past = {}
  BY <1>2, <1>3 DEF Sole
<1>5. ASSUME pc'[r] # "idle", call'[r].op = "verify", NEW s \in local'[r].past
      PROVE  ~ Usable(s)'
  <2>1. CASE LookForSession(r)
    <3>1. s \in Rows(sessions)
      <4>1. s \in Rows(sessions')
        BY <1>2, <1>5 DEF Links
      <4> QED
        BY <2>1, <4>1 DEF LookForSession, tables
    <3>2. CASE {i \in Id : Usable(i)} = {}
      BY <1>1, <3>1, <3>2, UnusableStays DEF Rows
    <3>3. CASE {i \in Id : Usable(i)} # {}
      <4>1. local'[r].past = local[r].past
        <5>1. PICK t \in Id : Keep(r, [local[r] EXCEPT !.session = t])
          BY <2>1, <3>3, Zenon DEF LookForSession
        <5>2. local \in [Request -> Locals]
          BY <1>1 DEF TInv, TypeOK
        <5>3. local[r] \in Locals /\ local'[r] = [local[r] EXCEPT !.session = t]
          BY <5>1, <5>2 DEF Keep
        <5> QED
          BY <5>3 DEF Locals
      <4>2. pc[r] # "idle" /\ call'[r] = call[r]
        BY <1>3, <2>1 DEF LookForSession
      <4> QED
        BY <1>1, <1>2, <1>5, <3>1, <4>1, <4>2, UnusableStays DEF Sole
    <3> QED
      BY <3>2, <3>3
  <2>2. CASE ChangePassword(r)
    <3>1. pc[r] = "changing" /\ pc[r] # "idle" /\ call'[r] = call[r]
      BY <1>3, <2>2 DEF ChangePassword
    <3>2. call[r].op = "reset"
      BY <1>1, <3>1, AtWork, CallFields DEF Path
    <3> QED
      BY <1>5, <3>1, <3>2
  <2>3. CASE local'[r].past = local[r].past
    <3>1. pc[r] # "idle" /\ call'[r] = call[r] /\ s \in Rows(sessions)
      BY <1>2, <1>3, <1>5, <2>3 DEF Sole, Links
    <3> QED
      BY <1>1, <1>2, <1>5, <2>3, <3>1, UnusableStays DEF Sole
  <2> QED
    BY <1>3, <2>1, <2>2, <2>3
<1>6. ASSUME sessions'[r] # Absent
      PROVE  /\ pc'[r] # "idle" /\ call'[r].op \in {"verify", "resolve"}
             /\ call'[r].op = "resolve" =>
                   ~ sessions'[challenges'[call'[r].challenge].existing].isActive
  <2>1. CASE sessions[r] # Absent
    <3>1. pc[r] # "idle" /\ call'[r] = call[r] /\ pc'[r] # "idle"
      BY <1>2, <1>3, <2>1 DEF Sole
    <3>2. CASE call[r].op = "verify"
      BY <3>1, <3>2
    <3>3. CASE call[r].op = "resolve"
      <4> DEFINE c == call[r].challenge
      <4>1. c \in Id /\ challenges[c] # Absent
        BY <1>1, <3>1, <3>3, AtWork, CallFields DEF Aimed
      <4>2. challenges[c].existing \in Rows(sessions)
        BY <1>1, <4>1 DEF TInv, ChallengesKnown, Rows
      <4>3. ~ sessions[challenges[c].existing].isActive
        BY <1>2, <2>1, <3>3 DEF Sole
      <4>4. /\ challenges'[c].existing = challenges[c].existing
            /\ ~ sessions'[challenges[c].existing].isActive
        BY <1>1, <4>1, <4>2, <4>3, NextAges DEF Aging, Rows
      <4> QED
        BY <3>1, <3>3, <4>4
    <3> QED
      BY <1>2, <2>1, <3>2, <3>3 DEF Sole
  <2>2. CASE sessions[r] = Absent
    <3>1. OpenSession(r) /\ pc[r] = "opening" /\ pc[r] # "idle"
      BY <1>1, <1>6, <2>2, OpenedBySelf DEF OpenSession
    <3>2. call[r].op \in {"verify", "resolve"} /\ call'[r] = call[r] /\ pc'[r] # "idle"
      BY <1>1, <1>3, <3>1, AtWork, CallFields DEF Path
    <3>3. CASE call[r].op = "resolve"
      <4> DEFINE s == local[r].session
      <4>1. s \in Rows(sessions) /\ r \notin Rows(sessions)
        BY <1>1, <2>2, <3>1, <3>3, AtWork DEF Needs, Resolving, Rows
      <4>2. challenges[call[r].challenge].existing = s /\ ~ sessions[s].isActive
        BY <1>2, <3>1, <3>3 DEF Links, Resolving
      <4>3. sessions'[s] = sessions[s] /\ challenges' = challenges
        BY <1>1, <1>2, <3>1, <4>1 DEF OpenSession, TInv, TypeOK, Rows
      <4> QED
        BY <3>2, <4>2, <4>3
    <3> QED
      BY <3>2, <3>3
  <2> QED
    BY <2>1, <2>2
<1> QED
  BY <1>4, <1>5, <1>6 DEF Sole

\* verifyOtp opens no session next to one it could have seen, and resolveChallenge none
\* next to the one it displaces, whatever else runs at the same time.
THEOREM NoneNextToAnother == Spec => []SoleSession
<1>1. SInv => SoleSession
  BY DEF SInv, Sole, SoleSession, Usable
<1> QED
  BY <1>1, InitSole, NextSole, PTL DEF Spec

----------------------------------------------------------------------------
(* Whom a code or a link serves *)

HoldLabels == {"using", "missing", "changing", "spending"}

\* Where a request has used its code or its link.
PassLabels == {"identifying", "looking", "challenging", "opening", "clearing", "done"}

\* The code or the link i.
RowOf(i) == IF otps[i] # Absent THEN otps[i] ELSE tokens[i]

Readers(i) == {r \in Request : local[r].target = i}

Passed(i) == {r \in Readers(i) : pc[r] \in PassLabels}

Missed(i) == {r \in Readers(i) : pc[r] = "refused"}

\* Nobody has read i while another was about to mark it.
Clean(i) == \A r \in Readers(i) : local[r].beside = {}

\* Whom a code or a link that is read in turn has served.
Served(i) ==
    /\ \A q, r \in Holding(i) : q = r
    /\ \A r \in Holding(i) :
          /\ local[r].copy = RowOf(i) /\ ~ RowOf(i).isUsed
          /\ pc[r] = "missing" => RowOf(i).attemptCount < MaxAttempts
    /\ \A r \in Passed(i) : RowOf(i).isUsed
    /\ \A q, r \in Passed(i) : q = r
    /\ IF otps[i] # Absent
         THEN Cardinality(Missed(i)) <= otps[i].attemptCount /\ otps[i].attemptCount <= MaxAttempts
         ELSE Missed(i) = {}

\* What a request has read, if anything, is a code or a link, by its operation.
Targets(op, label, target) ==
    /\ target # Absent => \/ op = "verify" /\ otps[target] # Absent
                          \/ op = "reset" /\ tokens[target] # Absent
    /\ op \notin {"verify", "reset"} \/ label \in {"matching", "redeeming"} => target = Absent

\* A request makes one row at most, in the end.
OwnRow(r) == pc[r] # "done" => otps[r] = Absent /\ tokens[r] = Absent

\* Strengthening of ServedOnce.
UInv ==
    /\ \A i \in Id : otps[i] = Absent \/ tokens[i] = Absent
    /\ \A r \in Request :
          /\ OwnRow(r)
          /\ IF pc[r] = "idle" THEN local[r].target = Absent
                               ELSE Targets(call[r].op, pc[r], local[r].target)
    /\ \A i \in Id : Clean(i) => Served(i)

\* The row of a code or a link is not taken away, and a new one is the request's own.
RowsHeld(r) ==
    /\ \A i \in Id : /\ otps[i] # Absent => otps'[i] # Absent
                     /\ tokens[i] # Absent => tokens'[i] # Absent
    /\ \A i \in Id \ {r} : /\ otps[i] = Absent => otps'[i] = Absent
                           /\ tokens[i] = Absent => tokens'[i] = Absent

LEMMA MoveKeepsServed ==
    ASSUME TInv, UInv, NEW r \in Request, NEW label, NEW mem \in Locals, label # "idle",
           pc' = [pc EXCEPT ![r] = label], local' = [local EXCEPT ![r] = mem], call' = call,
           RowsHeld(r), otps'[r] = Absent \/ tokens'[r] = Absent,
           label # "done" => otps'[r] = Absent /\ tokens'[r] = Absent,
           Targets(call[r].op, label, mem.target),
           \A i \in Id : Clean(i)' => Served(i)'
    PROVE  UInv'
<1>1. /\ pc'[r] = label /\ local'[r] = mem /\ r \in Id
      /\ \A q \in Request \ {r} : pc'[q] = pc[q] /\ local'[q] = local[q]
  BY RowFacts DEF TInv, TypeOK
<1>2. \A i \in Id : otps'[i] = Absent \/ tokens'[i] = Absent
  BY DEF UInv, RowsHeld
<1>3. \A q \in Request : OwnRow(q)'
  BY <1>1, RowFacts DEF UInv, OwnRow, RowsHeld
<1>4. \A op, l : \A t \in Id \cup {Absent} : Targets(op, l, t) => Targets(op, l, t)'
  BY DEF Targets, RowsHeld
<1>5. /\ mem.target \in Id \cup {Absent}
      /\ \A q \in Request : local[q].target \in Id \cup {Absent}
  BY DEF TInv, TypeOK, Locals
<1>6. ASSUME NEW q \in Request
      PROVE  (IF pc[q] = "idle" THEN local[q].target = Absent
                                ELSE Targets(call[q].op, pc[q], local[q].target))'
  <2>1. CASE q = r
    BY <1>1, <1>4, <1>5, <2>1
  <2>2. CASE q # r
    BY <1>1, <1>4, <1>5, <2>2 DEF UInv
  <2> QED
    BY <2>1, <2>2
<1> QED
  BY <1>2, <1>3, <1>6 DEF UInv

LEMMA OtherRow ==
    ASSUME TInv, NEW r \in Request, NEW label, NEW mem,
           pc' = [pc EXCEPT ![r] = label], local' = [local EXCEPT ![r] = mem],
           NEW i \in Id, local[r].target # i, mem.target # i,
           otps'[i] = otps[i], tokens'[i] = tokens[i], Clean(i) => Served(i)
    PROVE  Clean(i)' => Served(i)'
<1>1. /\ pc'[r] = label /\ local'[r] = mem
      /\ \A q \in Request \ {r} : pc'[q] = pc[q] /\ local'[q] = local[q]
  BY DEF TInv, TypeOK
<1>2. Readers(i)' = Readers(i)
  BY <1>1 DEF Readers
<1>3. r \notin Readers(i)
  BY DEF Readers
<1>4. Clean(i)' => Clean(i)
  BY <1>1, <1>2, <1>3 DEF Clean, Readers
<1>5. Holding(i)' = Holding(i) /\ r \notin Holding(i)
  BY <1>1 DEF Holding
<1>6. Passed(i)' = Passed(i) /\ Missed(i)' = Missed(i)
  BY <1>1, <1>2, <1>3 DEF Passed, Missed, Readers
<1>7. RowOf(i)' = RowOf(i)
  BY DEF RowOf
<1>8. \A q \in Holding(i) : pc'[q] = pc[q] /\ local'[q] = local[q]
  BY <1>1, <1>5 DEF Holding
<1> QED
  BY <1>4, <1>5, <1>6, <1>7, <1>8 DEF Served

\* A step that leaves codes and links alone.
LEMMA QuietServed ==
    ASSUME TInv, UInv, NEW r \in Request, NEW label, NEW mem \in Locals,
           pc[r] \notin {"idle", "done", "refused"},
           label \notin {"idle", "matching", "redeeming", "refused"},
           pc' = [pc EXCEPT ![r] = label], local' = [local EXCEPT ![r] = mem], call' = call,
           otps' = otps, tokens' = tokens,
           mem.target = local[r].target, mem.beside = local[r].beside,
           label \in HoldLabels =>
              /\ pc[r] \in HoldLabels /\ mem.copy = local[r].copy
              /\ label # "missing",
           label \in PassLabels => pc[r] \in PassLabels \/ call[r].op \notin {"verify", "reset"}
    PROVE  UInv'
<1>1. /\ pc'[r] = label /\ local'[r] = mem
      /\ \A q \in Request \ {r} : pc'[q] = pc[q] /\ local'[q] = local[q]
  BY DEF TInv, TypeOK
<1>2. Targets(call[r].op, pc[r], local[r].target) /\ OwnRow(r)
  BY DEF UInv
<1>3. Targets(call[r].op, label, mem.target)
  BY <1>2 DEF Targets
<1>4. ASSUME NEW i \in Id, Clean(i)' PROVE Served(i)'
  <2>1. Readers(i)' = Readers(i)
    BY <1>1 DEF Readers
  <2>2. Clean(i)
    BY <1>1, <1>4, <2>1 DEF Clean
  <2>3. Served(i)
    BY <2>2 DEF UInv
  <2>4. /\ Holding(i)' \subseteq Holding(i)
        /\ \A q \in Holding(i)' : /\ local'[q].copy = local[q].copy
                                  /\ pc'[q] = "missing" => pc[q] = "missing"
    BY <1>1 DEF Holding, HoldLabels
  <2>5. Passed(i)' \subseteq Passed(i)
    <3>1. local[r].target = i /\ label \in PassLabels => pc[r] \in PassLabels
      BY <1>2, RowFacts DEF Targets
    <3> QED
      BY <1>1, <3>1 DEF Passed, Readers
  <2>6. Missed(i)' = Missed(i)
    BY <1>1 DEF Missed, Readers
  <2>7. RowOf(i)' = RowOf(i)
    BY DEF RowOf
  <2> QED
    BY <2>3, <2>4, <2>5, <2>6, <2>7 DEF Served
<1>5. RowsHeld(r)
  BY DEF RowsHeld
<1>6. otps'[r] = Absent /\ tokens'[r] = Absent
  BY <1>2 DEF OwnRow
<1> QED
  BY <1>3, <1>4, <1>5, <1>6, MoveKeepsServed

\* A request reads the code or the link i, which nobody has used.
LEMMA ReadServed ==
    ASSUME TInv, UInv, NEW r \in Request, NEW label \in {"using", "missing", "changing"},
           NEW mem \in Locals, NEW i \in Id, pc[r] \in {"matching", "redeeming"},
           pc' = [pc EXCEPT ![r] = label], local' = [local EXCEPT ![r] = mem], call' = call,
           otps' = otps, tokens' = tokens,
           mem.target = i, mem.copy = RowOf(i), mem.beside = Holding(i), ~ RowOf(i).isUsed,
           label = "missing" => RowOf(i).attemptCount < MaxAttempts,
           Targets(call[r].op, label, i)
    PROVE  UInv'
<1>1. /\ pc'[r] = label /\ local'[r] = mem
      /\ \A q \in Request \ {r} : pc'[q] = pc[q] /\ local'[q] = local[q]
  BY DEF TInv, TypeOK
<1>2. local[r].target = Absent /\ OwnRow(r)
  BY DEF UInv, Targets
<1>3. Absent # i /\ \A j \in Id : Absent # j
  BY RowFacts
<1>4. ASSUME Clean(i)' PROVE Served(i)'
  <2>1. Readers(i)' = Readers(i) \cup {r}
    BY <1>1 DEF Readers
  <2>2. Clean(i) /\ Holding(i) = {}
    BY <1>1, <1>2, <1>3, <1>4, <2>1 DEF Clean, Readers
  <2>3. Served(i)
    BY <2>2 DEF UInv
  <2>4. Holding(i)' = {r}
    BY <1>1, <2>2 DEF Holding
  <2>5. Passed(i)' = Passed(i)
    BY <1>1, <1>2, <1>3 DEF Passed, Readers, PassLabels
  <2>6. Missed(i)' = Missed(i)
    BY <1>1, <1>2, <1>3 DEF Missed, Readers
  <2>7. RowOf(i)' = RowOf(i)
    BY DEF RowOf
  <2> QED
    BY <1>1, <2>3, <2>4, <2>5, <2>6, <2>7 DEF Served
<1>5. ASSUME NEW j \in Id, j # i PROVE Clean(j)' => Served(j)'
  BY <1>2, <1>3, <1>5, OtherRow DEF UInv
<1>6. RowsHeld(r) /\ otps'[r] = Absent /\ tokens'[r] = Absent
  BY <1>2 DEF RowsHeld, OwnRow
<1> QED
  BY <1>4, <1>5, <1>6, MoveKeepsServed

\* A request that holds the code or the link i writes its copy back.
LEMMA WriteServed ==
    ASSUME TInv, UInv, NEW r \in Request, NEW label \in {"refused", "identifying", "clearing"},
           NEW mem \in Locals, NEW i \in Id, pc[r] \in HoldLabels, local[r].target = i,
           pc' = [pc EXCEPT ![r] = label], local' = [local EXCEPT ![r] = mem], call' = call,
           RowsHeld(r), otps'[r] = Absent, tokens'[r] = Absent,
           \A j \in Id \ {i} : otps'[j] = otps[j] /\ tokens'[j] = tokens[j],
           mem.target = i, mem.beside = local[r].beside,
           label # "refused" =>
              /\ RowOf(i)'.isUsed
              /\ Clean(i) /\ otps[i] # Absent => otps'[i].attemptCount = otps[i].attemptCount,
           label = "refused" =>
              /\ pc[r] = "missing" /\ otps[i] # Absent
              /\ otps[i].attemptCount \in Nat
              /\ Clean(i) => otps'[i].attemptCount = otps[i].attemptCount + 1
    PROVE  UInv'
<1>1. /\ pc'[r] = label /\ local'[r] = mem
      /\ \A q \in Request \ {r} : pc'[q] = pc[q] /\ local'[q] = local[q]
  BY DEF TInv, TypeOK
<1>2. Targets(call[r].op, label, i)
  BY DEF UInv, Targets, HoldLabels
<1>3. otps'[i] # Absent <=> otps[i] # Absent
  <2>1. i # r \/ otps[r] = Absent
    BY DEF UInv, OwnRow, HoldLabels
  <2> QED
    BY <2>1 DEF RowsHeld
<1>4. ASSUME Clean(i)' PROVE Served(i)'
  <2>1. Readers(i)' = Readers(i)
    BY <1>1 DEF Readers
  <2>2. Clean(i)
    BY <1>1, <1>4, <2>1 DEF Clean
  <2>3. Served(i)
    BY <2>2 DEF UInv
  <2>4. r \in Holding(i)
    BY DEF Holding, HoldLabels
  <2>5. \A q \in Holding(i) : q = r
    BY <2>3, <2>4 DEF Served
  <2>6. Holding(i)' = {}
    BY <1>1, <2>5 DEF Holding
  <2>7. Passed(i) = {} /\ r \notin Missed(i)
    BY <2>3, <2>4 DEF Served, Missed, HoldLabels
  <2>8. CASE label = "refused"
    <3>1. Passed(i)' = {}
      BY <1>1, <2>7, <2>8 DEF Passed, Readers, PassLabels
    <3>2. Missed(i)' = Missed(i) \cup {r}
      BY <1>1, <2>8 DEF Missed, Readers
    <3>3. IsFiniteSet(Missed(i)) /\ Cardinality(Missed(i)) \in Nat
      <4>1. IsFiniteSet(Request)
        BY RowFacts, ConstantAssumption, FS_Subset
      <4> QED
        BY <4>1, FS_Subset, FS_CardinalityType DEF Missed, Readers
    <3>4. Cardinality(Missed(i) \cup {r}) = Cardinality(Missed(i)) + 1
      <4>1. ASSUME NEW S, IsFiniteSet(S), r \notin S
            PROVE  Cardinality(S \cup {r}) = Cardinality(S) + 1
        BY <4>1, FS_AddElement
      <4> QED
        BY <2>7, <3>3, <4>1
    <3>5. Cardinality(Missed(i)) <= otps[i].attemptCount /\ otps[i].attemptCount < MaxAttempts
      BY <2>3, <2>4, <2>8 DEF Served, RowOf
    <3>6. /\ Cardinality(Missed(i)') <= otps'[i].attemptCount
          /\ otps'[i].attemptCount <= MaxAttempts
      BY <2>2, <2>8, <3>2, <3>3, <3>4, <3>5, ConstantAssumption
    <3> QED
      BY <1>3, <2>6, <2>8, <3>1, <3>6 DEF Served
  <2>9. CASE label # "refused"
    <3>1. \A q \in Passed(i)' : q = r
      BY <1>1, <2>7 DEF Passed, Readers
    <3>2. Missed(i)' = Missed(i)
      BY <1>1, <2>7, <2>9 DEF Missed, Readers
    <3>3. IF otps'[i] # Absent
            THEN Cardinality(Missed(i)') <= otps'[i].attemptCount /\ otps'[i].attemptCount <= MaxAttempts
            ELSE Missed(i)' = {}
      BY <1>3, <2>2, <2>3, <2>9, <3>2 DEF Served
    <3> QED
      BY <2>6, <2>9, <3>1, <3>3 DEF Served
  <2> QED
    BY <2>8, <2>9
<1>5. ASSUME NEW j \in Id, j # i PROVE Clean(j)' => Served(j)'
  <2>1. /\ local[r].target # j /\ mem.target # j
        /\ otps'[j] = otps[j] /\ tokens'[j] = tokens[j] /\ (Clean(j) => Served(j))
    BY <1>5 DEF UInv
  <2> QED
    BY <2>1, OtherRow
<1> QED
  BY <1>2, <1>4, <1>5, MoveKeepsServed

\* A new code or link, which nobody has read.
LEMMA IssueServed ==
    ASSUME TInv, UInv, NEW r \in Request, Issue(r)
    PROVE  UInv'
<1>1. pc[r] = "issuing" /\ call[r].op \in {"login", "forgot", "initiate"} /\ local[r] \in Locals
  BY AtWork, CallFields DEF Issue, Path
<1> DEFINE mem == [local[r] EXCEPT !.copy = Absent]
<1>2. mem \in Locals /\ mem.target = local[r].target
  BY <1>1, LocalEdits DEF Locals
<1>3. pc' = [pc EXCEPT ![r] = "done"] /\ local' = [local EXCEPT ![r] = mem] /\ call' = call
  BY DEF Issue, End, Goto, Keep
<1> HIDE DEF mem
<1>4. /\ pc'[r] = "done" /\ local'[r] = mem /\ r \in Id
      /\ \A q \in Request \ {r} : pc'[q] = pc[q] /\ local'[q] = local[q]
  BY <1>3, RowFacts DEF TInv, TypeOK
<1>5. otps[r] = Absent /\ tokens[r] = Absent /\ local[r].target = Absent
  BY <1>1 DEF UInv, OwnRow, Targets
<1>6. \E n \in Nat :
         \/ /\ otps' = [otps EXCEPT ![r] = [attemptCount |-> 0, isUsed |-> FALSE, at |-> n]]
            /\ tokens' = tokens
         \/ /\ tokens' = [tokens EXCEPT ![r] = [isUsed |-> FALSE]]
            /\ otps' = otps
  <2>1. IsFiniteSet(Rows(otps))
    BY ConstantAssumption, FS_Subset DEF Rows
  <2>2. Cardinality(Rows(otps)) \in Nat
    BY <2>1, FS_CardinalityType
  <2> QED
    BY <2>2 DEF Issue
<1>7. /\ \A i \in Id \ {r} : otps'[i] = otps[i] /\ tokens'[i] = tokens[i]
      /\ otps'[r] = Absent \/ tokens'[r] = Absent
      /\ otps'[r] # Absent => otps'[r].attemptCount = 0
  BY <1>5, <1>6 DEF TInv, TypeOK
<1>8. RowsHeld(r)
  BY <1>5, <1>7 DEF RowsHeld
<1>9. Absent \notin Id
  BY RowFacts
<1>10. ASSUME NEW i \in Id, i # r PROVE Clean(i)' => Served(i)'
  BY <1>2, <1>3, <1>5, <1>7, <1>9, <1>10, OtherRow DEF UInv
<1>11. Served(r)'
  <2>1. \A q \in Request : local'[q].target # r
    <3>1. \A q \in Request : local[q].target # r
      BY <1>4, <1>5, <1>9 DEF UInv, Targets
    <3> QED
      BY <1>2, <1>4, <3>1
  <2>2. Holding(r)' = {} /\ Passed(r)' = {} /\ Missed(r)' = {}
    BY <2>1 DEF Holding, Passed, Missed, Readers
  <2>3. Cardinality({}) = 0
    BY FS_EmptySet
  <2> QED
    BY <1>7, <2>2, <2>3, ConstantAssumption DEF Served
<1>12. Targets(call[r].op, "done", mem.target)
  BY <1>2, <1>5 DEF Targets
<1> QED
  BY <1>2, <1>3, <1>7, <1>8, <1>10, <1>11, <1>12, MoveKeepsServed

LEMMA EndServed ==
    ASSUME TInv, UInv, NEW r \in Request, NEW outcome \in {"done", "failed"},
           pc[r] \notin {"idle", "done", "refused"}, End(r, outcome), call' = call,
           otps' = otps, tokens' = tokens,
           outcome = "done" => pc[r] \in PassLabels \/ call[r].op \notin {"verify", "reset"}
    PROVE  UInv'
<1> DEFINE mem == [local[r] EXCEPT !.copy = Absent]
<1>1. local[r] \in Locals
  BY DEF TInv, TypeOK
<1>2. mem \in Locals /\ mem.target = local[r].target /\ mem.beside = local[r].beside
  BY <1>1, LocalEdits DEF Locals
<1>3. pc' = [pc EXCEPT ![r] = outcome] /\ local' = [local EXCEPT ![r] = mem]
  BY DEF End, Goto, Keep
<1> HIDE DEF mem
<1> QED
  BY <1>2, <1>3, QuietServed DEF HoldLabels, PassLabels

LEMMA FailServed ==
    ASSUME TInv, UInv, NEW r \in Request, pc[r] \notin {"idle", "done", "refused"}, Fail(r),
           call' = call
    PROVE  UInv'
BY EndServed DEF Fail, tables

LEMMA GoServed ==
    ASSUME TInv, UInv, NEW r \in Request, NEW label,
           pc[r] \notin {"idle", "done", "refused"},
           label \notin {"idle", "matching", "redeeming", "refused"} \cup HoldLabels,
           Goto(r, label), local' = local, call' = call, otps' = otps, tokens' = tokens,
           label \in PassLabels => pc[r] \in PassLabels \/ call[r].op \notin {"verify", "reset"}
    PROVE  UInv'
<1>1. local[r] \in Locals /\ local' = [local EXCEPT ![r] = local[r]]
  BY DEF TInv, TypeOK
<1> QED
  BY <1>1, QuietServed DEF Goto

LEMMA IdentifyServed ==
    ASSUME TInv, UInv, NEW r \in Request, Identify(r)
    PROVE  UInv'
<1>1. pc[r] = "identifying" /\ call' = call
  BY DEF Identify
<1>2. CASE Fail(r)
  BY <1>1, <1>2, FailServed
<1>3. CASE Goto(r, AfterUser(call[r].op)) /\ UNCHANGED <<tables, local>>
  <2>1. PICK label : label = AfterUser(call[r].op)
    OBVIOUS
  <2>2. label \in {"looking", "opening", "revoking", "counting"}
    BY <2>1 DEF AfterUser
  <2> QED
    BY <1>1, <1>3, <2>1, <2>2, GoServed DEF PassLabels, HoldLabels, tables
<1> QED
  BY <1>2, <1>3 DEF Identify

LEMMA CountServed ==
    ASSUME TInv, UInv, NEW r \in Request, Count(r)
    PROVE  UInv'
<1>1. pc[r] = "counting" /\ call' = call
  BY DEF Count
<1>2. CASE Fail(r)
  BY <1>1, <1>2, FailServed
<1>3. CASE Goto(r, "issuing") /\ UNCHANGED <<tables, local>>
  BY <1>1, <1>3, GoServed DEF PassLabels, HoldLabels, tables
<1> QED
  BY <1>2, <1>3 DEF Count

LEMMA MatchServed ==
    ASSUME TInv, UInv, NEW r \in Request, Match(r)
    PROVE  UInv'
<1>1. pc[r] = "matching" /\ call' = call
  BY DEF Match
<1>2. call[r].op = "verify" /\ local[r] \in Locals
  BY <1>1, AtWork, CallFields DEF Path
<1>3. CASE Fail(r)
  BY <1>1, <1>3, FailServed
<1>4. ASSUME NEW o \in OpenCodes, NEW label \in {"using", "missing"},
             otps[o].attemptCount < MaxAttempts, Goto(r, label), UNCHANGED tables,
             Keep(r, [local[r] EXCEPT !.target = o, !.copy = otps[o], !.beside = Holding(o)])
      PROVE  UInv'
  <2>1. o \in Id /\ otps[o] \in Otp /\ otps[o] # Absent /\ ~ otps[o].isUsed
    BY DEF OpenCodes, Rows, TInv, TypeOK
  <2>2. PICK beside \in SUBSET Request : beside = Holding(o)
    BY DEF Holding
  <2> DEFINE mem == [[[local[r] EXCEPT !.target = o] EXCEPT !.copy = otps[o]]
                       EXCEPT !.beside = beside]
  <2>3. mem \in Locals
    BY <1>2, <2>1, LocalEdits
  <2>4. mem.target = o /\ mem.copy = otps[o] /\ mem.beside = beside
    BY <1>2, <2>2 DEF Locals
  <2>5. pc' = [pc EXCEPT ![r] = label] /\ local' = [local EXCEPT ![r] = mem]
        /\ otps' = otps /\ tokens' = tokens
    BY <1>4, <2>2 DEF Goto, Keep, tables
  <2> HIDE DEF mem
  <2>6. Targets(call[r].op, label, o)
    BY <1>2, <2>1 DEF Targets
  <2>7. RowOf(o) = otps[o]
    BY <2>1 DEF RowOf
  <2> QED
    BY <1>1, <1>4, <2>1, <2>2, <2>3, <2>4, <2>5, <2>6, <2>7, ReadServed
<1>5. CASE ~ Fail(r)
  <2>1. PICK o \in OpenCodes :
           /\ ~ (otps[o].attemptCount >= MaxAttempts) /\ UNCHANGED tables
           /\ Keep(r, [local[r] EXCEPT !.target = o, !.copy = otps[o], !.beside = Holding(o)])
           /\ Goto(r, IF call[r].code = o THEN "using" ELSE "missing")
    BY <1>5, Zenon DEF Match
  <2>2. otps[o].attemptCount \in Nat
    BY DEF OpenCodes, Rows, TInv, TypeOK, Otp
  <2>3. ~ (otps[o].attemptCount >= MaxAttempts)
    BY <2>1
  <2>4. otps[o].attemptCount < MaxAttempts
    BY <2>2, <2>3, ConstantAssumption
  <2>5. PICK label : label = IF call[r].code = o THEN "using" ELSE "missing"
    OBVIOUS
  <2>6. label \in {"using", "missing"}
    BY <2>5
  <2> QED
    BY <1>4, <2>1, <2>4, <2>5, <2>6, Zenon
<1> QED
  BY <1>3, <1>5

\* What holds the code o writes back.
LEMMA HeldCode ==
    ASSUME TInv, UInv, NEW r \in Request, pc[r] \in {"missing", "using"}
    PROVE  /\ local[r].target \in Id /\ local[r].copy \in Otp /\ call[r].op = "verify"
           /\ otps[local[r].target] \in Otp /\ otps[local[r].target] # Absent
           /\ Clean(local[r].target) => local[r].copy = otps[local[r].target]
           /\ otps[r] = Absent /\ tokens[r] = Absent /\ local[r].target # r
<1>1. /\ local[r].target \in Id /\ local[r].copy \in Otp /\ call[r].op = "verify"
      /\ Targets(call[r].op, pc[r], local[r].target)
  BY AtWork, CallFields, RowFacts DEF Needs, UInv, Path
<1>2. otps[local[r].target] # Absent
  BY <1>1, RowFacts DEF Targets
<1>3. otps[local[r].target] \in Otp
  BY <1>1, <1>2 DEF TInv, TypeOK
<1>4. Clean(local[r].target) => local[r].copy = otps[local[r].target]
  <2>1. r \in Holding(local[r].target)
    BY DEF Holding
  <2> QED
    BY <1>1, <1>2, <2>1 DEF UInv, Served, RowOf
<1>5. otps[r] = Absent /\ tokens[r] = Absent
  BY DEF UInv, OwnRow
<1> QED
  BY <1>1, <1>2, <1>3, <1>4, <1>5

LEMMA MissServed ==
    ASSUME TInv, UInv, NEW r \in Request, Miss(r)
    PROVE  UInv'
<1>1. pc[r] = "missing" /\ tokens' = tokens /\ call' = call /\ local[r] \in Locals
  BY AtWork DEF Miss
<1>2. PICK o \in Id : o = local[r].target
  BY <1>1, HeldCode
<1>3. /\ local[r].copy \in Otp /\ otps[o] \in Otp /\ otps[o] # Absent /\ o # r
      /\ Clean(o) => local[r].copy = otps[o]
      /\ otps[r] = Absent /\ tokens[r] = Absent
  BY <1>1, <1>2, HeldCode
<1> DEFINE row == [local[r].copy EXCEPT !.attemptCount = @ + 1]
           mem == [local[r] EXCEPT !.copy = Absent]
<1>4. row \in Otp /\ row.attemptCount = local[r].copy.attemptCount + 1
  BY <1>3 DEF Otp
<1>5. /\ otps' = [otps EXCEPT ![o] = row]
      /\ pc' = [pc EXCEPT ![r] = "refused"] /\ local' = [local EXCEPT ![r] = mem]
  BY <1>2 DEF Miss, End, Goto, Keep
<1>6. mem \in Locals /\ mem.target = o /\ mem.beside = local[r].beside
  BY <1>1, <1>2, LocalEdits DEF Locals
<1> HIDE DEF row, mem
<1>7. \A i \in Id : otps'[i] = IF i = o THEN row ELSE otps[i]
  BY <1>5 DEF TInv, TypeOK
<1>8. RowsHeld(r) /\ otps'[r] = Absent /\ tokens'[r] = Absent
  BY <1>1, <1>3, <1>4, <1>7, RowFacts DEF RowsHeld
<1>9. Clean(o) => otps'[o].attemptCount = otps[o].attemptCount + 1
  BY <1>3, <1>4, <1>7
<1>10. otps[o].attemptCount \in Nat /\ pc[r] \in HoldLabels /\ local[r].target = o
  BY <1>1, <1>2, <1>3 DEF Otp, HoldLabels
<1>11. \A j \in Id \ {o} : otps'[j] = otps[j] /\ tokens'[j] = tokens[j]
  BY <1>1, <1>7
<1>12. PICK label \in {"refused", "identifying", "clearing"} : label = "refused"
  OBVIOUS
<1>13. label # "refused" =>
         /\ RowOf(o)'.isUsed
         /\ Clean(o) /\ otps[o] # Absent => otps'[o].attemptCount = otps[o].attemptCount
  BY <1>12
<1> QED
  BY <1>1, <1>3, <1>5, <1>6, <1>8, <1>9, <1>10, <1>11, <1>12, <1>13, WriteServed

LEMMA UseServed ==
    ASSUME TInv, UInv, NEW r \in Request, Use(r)
    PROVE  UInv'
<1>1. pc[r] = "using" /\ tokens' = tokens /\ call' = call /\ local[r] \in Locals
  BY AtWork DEF Use
<1>2. PICK o \in Id : o = local[r].target
  BY <1>1, HeldCode
<1>3. /\ local[r].copy \in Otp /\ otps[o] \in Otp /\ otps[o] # Absent /\ o # r
      /\ Clean(o) => local[r].copy = otps[o]
      /\ otps[r] = Absent /\ tokens[r] = Absent
  BY <1>1, <1>2, HeldCode
<1> DEFINE row == [local[r].copy EXCEPT !.isUsed = TRUE]
<1>4. row \in Otp /\ row.isUsed /\ row.attemptCount = local[r].copy.attemptCount
  BY <1>3 DEF Otp
<1>5. /\ otps' = [otps EXCEPT ![o] = row]
      /\ pc' = [pc EXCEPT ![r] = "identifying"] /\ local' = [local EXCEPT ![r] = local[r]]
  BY <1>2, KeptLocal DEF Use, Goto, Keep
<1> HIDE DEF row
<1>7. \A i \in Id : otps'[i] = IF i = o THEN row ELSE otps[i]
  BY <1>5 DEF TInv, TypeOK
<1>8. RowsHeld(r) /\ otps'[r] = Absent /\ tokens'[r] = Absent
  BY <1>1, <1>3, <1>4, <1>7, RowFacts DEF RowsHeld
<1>9. Clean(o) => otps'[o].attemptCount = otps[o].attemptCount
  BY <1>3, <1>4, <1>7
<1>10. RowOf(o)'.isUsed
  BY <1>4, <1>7, RowFacts DEF RowOf
<1>11. pc[r] \in HoldLabels /\ local[r].target = o
  BY <1>1, <1>2 DEF HoldLabels
<1>12. \A j \in Id \ {o} : otps'[j] = otps[j] /\ tokens'[j] = tokens[j]
  BY <1>1, <1>7
<1>13. PICK mem \in Locals : mem = local[r]
  BY <1>1
<1>14. PICK label \in {"refused", "identifying", "clearing"} : label = "identifying"
  OBVIOUS
<1> QED
  BY <1>1, <1>5, <1>8, <1>9, <1>10, <1>11, <1>12, <1>13, <1>14, WriteServed

LEMMA LookForSessionServed ==
    ASSUME TInv, UInv, NEW r \in Request, LookForSession(r)
    PROVE  UInv'
<1>1. /\ pc[r] = "looking" /\ otps' = otps /\ tokens' = tokens /\ call' = call
      /\ local[r] \in Locals
  BY AtWork DEF LookForSession, tables
<1>2. PICK past \in SUBSET Id : past = Rows(sessions)
  BY DEF Rows
<1>3. \/ Keep(r, [local[r] EXCEPT !.past = past]) /\ Goto(r, "opening")
      \/ \E s \in Id : Keep(r, [local[r] EXCEPT !.session = s]) /\ Goto(r, "challenging")
  BY <1>2 DEF LookForSession
<1>4. CASE Keep(r, [local[r] EXCEPT !.past = past]) /\ Goto(r, "opening")
  <2> DEFINE mem == [local[r] EXCEPT !.past = past]
  <2>1. mem \in Locals /\ mem.target = local[r].target /\ mem.beside = local[r].beside
    BY <1>1, LocalEdits DEF Locals
  <2>2. pc' = [pc EXCEPT ![r] = "opening"] /\ local' = [local EXCEPT ![r] = mem]
    BY <1>4 DEF Keep, Goto
  <2> HIDE DEF mem
  <2> QED
    BY <1>1, <2>1, <2>2, QuietServed DEF HoldLabels, PassLabels
<1>5. ASSUME NEW s \in Id, Keep(r, [local[r] EXCEPT !.session = s]), Goto(r, "challenging")
      PROVE  UInv'
  <2> DEFINE mem == [local[r] EXCEPT !.session = s]
  <2>1. mem \in Locals /\ mem.target = local[r].target /\ mem.beside = local[r].beside
    BY <1>1, LocalEdits DEF Locals
  <2>2. pc' = [pc EXCEPT ![r] = "challenging"] /\ local' = [local EXCEPT ![r] = mem]
    BY <1>5 DEF Keep, Goto
  <2> HIDE DEF mem
  <2> QED
    BY <1>1, <2>1, <2>2, QuietServed DEF HoldLabels, PassLabels
<1> QED
  BY <1>3, <1>4, <1>5

LEMMA SessionStepsServed ==
    ASSUME TInv, UInv, NEW r \in Request,
           SaveChallenge(r) \/ OpenSession(r) \/ Revoke(r) \/ Settle(r) \/ Clear(r)
    PROVE  UInv'
<1>1. CASE SaveChallenge(r)
  BY <1>1, EndServed DEF SaveChallenge, PassLabels
<1>2. CASE OpenSession(r)
  <2>1. CASE End(r, "done")
    BY <1>2, <2>1, EndServed DEF OpenSession, PassLabels
  <2>2. CASE Goto(r, "accepting") /\ UNCHANGED local
    BY <1>2, <2>2, GoServed DEF OpenSession, PassLabels, HoldLabels
  <2> QED
    BY <1>2, <2>1, <2>2 DEF OpenSession
<1>3. CASE Revoke(r)
  <2>1. pc[r] = "revoking" /\ call[r].op \in {"resolve", "logout"}
    BY <1>3, AtWork, CallFields DEF Revoke, Path
  <2>2. CASE End(r, "done")
    BY <1>3, <2>1, <2>2, EndServed DEF Revoke
  <2>3. CASE Goto(r, "identifying") /\ UNCHANGED local
    BY <1>3, <2>1, <2>3, GoServed DEF Revoke, HoldLabels
  <2> QED
    BY <1>3, <2>2, <2>3 DEF Revoke
<1>4. CASE Settle(r)
  <2>1. pc[r] \in {"expiring", "rejecting", "accepting"}
    BY <1>4 DEF Settle, Resolution
  <2>2. call[r].op = "resolve"
    BY <2>1, AtWork, CallFields DEF Path
  <2>3. PICK outcome \in {"done", "failed"} : End(r, outcome)
    BY <1>4 DEF Settle
  <2> QED
    BY <1>4, <2>1, <2>2, <2>3, EndServed DEF Settle
<1>5. CASE Clear(r)
  BY <1>5, EndServed DEF Clear, PassLabels
<1> QED
  BY <1>1, <1>2, <1>3, <1>4, <1>5

LEMMA FetchServed ==
    ASSUME TInv, UInv, NEW r \in Request, Fetch(r)
    PROVE  UInv'
<1>1. pc[r] = "fetching" /\ call' = call
  BY DEF Fetch
<1>2. call[r].op = "resolve" /\ call[r].challenge \in Id /\ local[r] \in Locals
      /\ challenges[call[r].challenge] \in Challenge
  BY <1>1, AtWork, CallFields DEF Path, Aimed, TInv, TypeOK
<1>3. CASE Fail(r)
  BY <1>1, <1>3, FailServed
<1>4. CASE ~ Fail(r)
  <2>1. PICK row \in Challenge : row = challenges[call[r].challenge]
    BY <1>2
  <2>2. row.existing \in Id
    BY DEF Challenge
  <2> DEFINE mem == [[local[r] EXCEPT !.copy = row] EXCEPT !.session = row.existing]
  <2>3. mem \in Locals /\ mem.target = local[r].target /\ mem.beside = local[r].beside
    BY <1>2, <2>2, LocalEdits DEF Locals
  <2>4. PICK label \in {"expiring", "revoking", "rejecting"} : Goto(r, label)
    BY <1>4 DEF Fetch
  <2>5. local' = [local EXCEPT ![r] = mem] /\ otps' = otps /\ tokens' = tokens
    BY <1>4, <2>1 DEF Fetch, Keep, tables
  <2> HIDE DEF mem
  <2> QED
    BY <1>1, <2>3, <2>4, <2>5, QuietServed DEF Goto, HoldLabels, PassLabels
<1> QED
  BY <1>3, <1>4

LEMMA AuthorizeServed ==
    ASSUME TInv, UInv, NEW r \in Request, Authorize(r)
    PROVE  UInv'
<1>1. pc[r] = "authorizing" /\ call' = call
  BY DEF Authorize
<1>2. call[r].op = "logout" /\ call[r].session \in Id /\ local[r] \in Locals
  BY <1>1, AtWork, CallFields DEF Path
<1>3. CASE Fail(r)
  BY <1>1, <1>3, FailServed
<1>4. CASE ~ Fail(r)
  <2> DEFINE mem == [local[r] EXCEPT !.session = call[r].session]
  <2>1. mem \in Locals /\ mem.target = local[r].target /\ mem.beside = local[r].beside
    BY <1>2, LocalEdits DEF Locals
  <2>2. /\ pc' = [pc EXCEPT ![r] = "identifying"] /\ local' = [local EXCEPT ![r] = mem]
        /\ otps' = otps /\ tokens' = tokens
    BY <1>4 DEF Authorize, Goto, Keep, tables
  <2> HIDE DEF mem
  <2> QED
    BY <1>1, <1>2, <2>1, <2>2, QuietServed DEF HoldLabels
<1> QED
  BY <1>3, <1>4

LEMMA RedeemServed ==
    ASSUME TInv, UInv, NEW r \in Request, Redeem(r)
    PROVE  UInv'
<1>1. pc[r] = "redeeming" /\ call' = call
  BY DEF Redeem
<1>2. /\ call[r].op = "reset" /\ local[r] \in Locals /\ call[r].token \in Id
      /\ tokens[call[r].token] # Absent /\ tokens[call[r].token] \in Token
  BY <1>1, AtWork, CallFields DEF Path, Aimed, TInv, TypeOK
<1>3. CASE Fail(r)
  BY <1>1, <1>3, FailServed
<1>4. CASE ~ Fail(r)
  <2>1. PICK t \in Id : t = call[r].token
    BY <1>2
  <2>2. PICK beside \in SUBSET Request : beside = Holding(t)
    BY DEF Holding
  <2>3. otps[t] = Absent /\ RowOf(t) = tokens[t]
    BY <1>2, <2>1 DEF UInv, RowOf
  <2> DEFINE mem == [[[local[r] EXCEPT !.target = t] EXCEPT !.copy = tokens[t]]
                       EXCEPT !.beside = beside]
  <2>4. mem \in Locals
    BY <1>2, <2>1, LocalEdits
  <2>5. mem.target = t /\ mem.copy = tokens[t] /\ mem.beside = beside
    BY <1>2 DEF Locals
  <2>6. /\ pc' = [pc EXCEPT ![r] = "changing"] /\ local' = [local EXCEPT ![r] = mem]
        /\ otps' = otps /\ tokens' = tokens /\ ~ tokens[t].isUsed
    BY <1>4, <2>1, <2>2 DEF Redeem, Goto, Keep, tables
  <2> HIDE DEF mem
  <2>7. Targets(call[r].op, "changing", t)
    BY <1>2, <2>1 DEF Targets
  <2> QED
    BY <1>1, <2>2, <2>3, <2>4, <2>5, <2>6, <2>7, ReadServed
<1> QED
  BY <1>3, <1>4

LEMMA ChangePasswordServed ==
    ASSUME TInv, UInv, NEW r \in Request, ChangePassword(r)
    PROVE  UInv'
<1>1. pc[r] = "changing" /\ local[r] \in Locals
  BY AtWork DEF ChangePassword
<1>2. PICK past \in SUBSET Id : past = Rows(sessions)
  BY DEF Rows
<1> DEFINE mem == [local[r] EXCEPT !.past = past]
<1>3. /\ mem \in Locals /\ mem.target = local[r].target /\ mem.beside = local[r].beside
      /\ mem.copy = local[r].copy
  BY <1>1, LocalEdits DEF Locals
<1>4. /\ pc' = [pc EXCEPT ![r] = "spending"] /\ local' = [local EXCEPT ![r] = mem]
      /\ otps' = otps /\ tokens' = tokens /\ call' = call
  BY <1>2 DEF ChangePassword, Goto, Keep, tables
<1> HIDE DEF mem
<1> QED
  BY <1>1, <1>3, <1>4, QuietServed DEF HoldLabels, PassLabels

LEMMA SpendServed ==
    ASSUME TInv, UInv, NEW r \in Request, Spend(r)
    PROVE  UInv'
<1>1. pc[r] = "spending" /\ otps' = otps /\ call' = call /\ local[r] \in Locals
      /\ Needs(call[r].op, "spending", local[r])
  BY AtWork DEF Spend
<1>2. PICK t \in Id : t = local[r].target
  BY <1>1 DEF Needs
<1>3. call[r].op = "reset"
  BY <1>1, AtWork, CallFields DEF Path
<1>4. tokens[t] # Absent /\ otps[t] = Absent /\ otps[r] = Absent /\ tokens[r] = Absent /\ t # r
  BY <1>1, <1>2, <1>3, RowFacts DEF UInv, Targets, OwnRow
<1> DEFINE row == [local[r].copy EXCEPT !.isUsed = TRUE]
<1>5. row \in Token /\ row.isUsed
  BY <1>1 DEF Needs, Token
<1>6. /\ tokens' = [tokens EXCEPT ![t] = row]
      /\ pc' = [pc EXCEPT ![r] = "clearing"] /\ local' = [local EXCEPT ![r] = local[r]]
  BY <1>2, KeptLocal DEF Spend, Goto, Keep
<1> HIDE DEF row
<1>7. \A i \in Id : tokens'[i] = IF i = t THEN row ELSE tokens[i]
  BY <1>6 DEF TInv, TypeOK
<1>8. RowsHeld(r) /\ otps'[r] = Absent /\ tokens'[r] = Absent
  BY <1>1, <1>4, <1>5, <1>7, RowFacts DEF RowsHeld
<1>9. RowOf(t)'.isUsed
  BY <1>1, <1>4, <1>5, <1>7 DEF RowOf
<1>10. pc[r] \in HoldLabels /\ local[r].target = t
  BY <1>1, <1>2 DEF HoldLabels
<1>11. \A j \in Id \ {t} : otps'[j] = otps[j] /\ tokens'[j] = tokens[j]
  BY <1>1, <1>7
<1>12. PICK mem \in Locals : mem = local[r]
  BY <1>1
<1>13. PICK label \in {"refused", "identifying", "clearing"} : label = "clearing"
  OBVIOUS
<1> QED
  BY <1>1, <1>4, <1>6, <1>8, <1>9, <1>10, <1>11, <1>12, <1>13, WriteServed

LEMMA InitServed == Init => UInv
<1> SUFFICES ASSUME Init PROVE UInv
  OBVIOUS
<1>1. \A i \in Id : otps[i] = Absent \/ tokens[i] = Absent
  BY ConstantAssumption DEF Init
<1>2. \A r \in Request : pc[r] = "idle" /\ local[r].target = Absent
  BY DEF Init, Forgotten
<1>3. \A r \in Request : OwnRow(r)
  BY ConstantAssumption, RowFacts DEF Init, OwnRow, Old
<1>4. ASSUME NEW i \in Id PROVE Served(i)
  <2>1. Readers(i) = {}
    BY <1>2, RowFacts DEF Readers
  <2>2. Holding(i) = {} /\ Passed(i) = {} /\ Missed(i) = {}
    BY <1>2, <2>1, RowFacts DEF Holding, Passed, Missed
  <2>3. otps[i] # Absent => otps[i].attemptCount = 0
    BY DEF Init
  <2>4. Cardinality({}) = 0
    BY FS_EmptySet
  <2> QED
    BY <2>2, <2>3, <2>4, ConstantAssumption DEF Served
<1> QED
  BY <1>1, <1>2, <1>3, <1>4 DEF UInv

LEMMA ArriveServed ==
    ASSUME TInv, UInv, NEW r \in Request, NEW c \in Calls, Arrive(r, c)
    PROVE  UInv'
<1>1. PICK label : label = FirstStep(c.op)
  OBVIOUS
<1>2. label \in {"identifying", "matching", "fetching", "authorizing", "redeeming"}
  BY <1>1, CallFields DEF FirstStep
<1>3. /\ otps' = otps /\ tokens' = tokens /\ local' = local /\ pc[r] = "idle"
      /\ pc' = [pc EXCEPT ![r] = label] /\ call' = [call EXCEPT ![r] = c]
  BY <1>1 DEF Arrive, Goto, tables
<1>4. /\ pc'[r] = label /\ call'[r] = c
      /\ \A q \in Request \ {r} : pc'[q] = pc[q] /\ call'[q] = call[q]
  BY <1>3 DEF TInv, TypeOK
<1>5. local[r].target = Absent
  BY <1>3 DEF UInv
<1>6. \A op, l, t : Targets(op, l, t) => Targets(op, l, t)'
  BY <1>3 DEF Targets
<1>7. Targets(c.op, label, Absent)
  BY DEF Targets
<1>8. ASSUME NEW q \in Request
      PROVE  (IF pc[q] = "idle" THEN local[q].target = Absent
                                ELSE Targets(call[q].op, pc[q], local[q].target))'
  <2>1. CASE q = r
    BY <1>2, <1>3, <1>4, <1>5, <1>6, <1>7, <2>1
  <2>2. CASE q # r
    BY <1>3, <1>4, <1>6, <2>2 DEF UInv
  <2> QED
    BY <2>1, <2>2
<1>9. \A q \in Request : OwnRow(q)'
  BY <1>2, <1>3, <1>4 DEF UInv, OwnRow
<1>10. ASSUME NEW i \in Id PROVE Clean(i)' => Served(i)'
  <2>1. Readers(i)' = Readers(i) /\ r \notin Readers(i)
    BY <1>3, <1>5, RowFacts DEF Readers
  <2>2. Clean(i)' => Clean(i)
    BY <1>3, <2>1 DEF Clean
  <2>3. Holding(i)' = Holding(i) /\ \A q \in Holding(i) : pc'[q] = pc[q]
    BY <1>3, <1>4, <2>1 DEF Holding, Readers
  <2>4. Passed(i)' = Passed(i) /\ Missed(i)' = Missed(i)
    BY <1>4, <2>1 DEF Passed, Missed, Readers
  <2>5. RowOf(i)' = RowOf(i)
    BY <1>3 DEF RowOf
  <2> QED
    BY <1>3, <2>2, <2>3, <2>4, <2>5 DEF UInv, Served
<1> QED
  BY <1>3, <1>8, <1>9, <1>10 DEF UInv

\* Time, and changes of the account, leave the codes, the links and the requests alone.
LEMMA StillServed ==
    ASSUME UInv, otps' = otps, tokens' = tokens, pc' = pc, call' = call, local' = local
    PROVE  UInv'
<1>1. \A op, l, t : Targets(op, l, t) => Targets(op, l, t)'
  BY DEF Targets
<1>2. ASSUME NEW i \in Id PROVE Clean(i)' => Served(i)'
  <2>1. Readers(i)' = Readers(i)
    BY DEF Readers
  <2>2. Clean(i)' => Clean(i)
    BY <2>1 DEF Clean
  <2>3. Holding(i)' = Holding(i)
    BY DEF Holding
  <2>4. Passed(i)' = Passed(i) /\ Missed(i)' = Missed(i)
    BY <2>1 DEF Passed, Missed
  <2>5. RowOf(i)' = RowOf(i)
    BY DEF RowOf
  <2> QED
    BY <2>2, <2>3, <2>4, <2>5 DEF UInv, Served
<1>3. ASSUME NEW q \in Request
      PROVE  (IF pc[q] = "idle" THEN local[q].target = Absent
                                ELSE Targets(call[q].op, pc[q], local[q].target))'
  BY <1>1 DEF UInv
<1> QED
  BY <1>2, <1>3 DEF UInv, OwnRow

LEMMA NextServed == TInv /\ UInv /\ [Next]_vars => UInv'
<1> SUFFICES ASSUME TInv, UInv, [Next]_vars PROVE UInv'
  OBVIOUS
<1>1. ASSUME NEW r \in Request, Step(r) PROVE UInv'
  BY <1>1, IdentifyServed, CountServed, IssueServed, MatchServed, MissServed, UseServed,
     LookForSessionServed, SessionStepsServed, FetchServed, AuthorizeServed, RedeemServed,
     ChangePasswordServed, SpendServed DEF Step
<1>2. ASSUME NEW r \in Request, Abort(r) PROVE UInv'
  BY <1>2, FailServed DEF Abort, Active
<1>3. ASSUME NEW i \in Id, Expire(i) \/ Age(i) PROVE UInv'
  BY <1>3, StillServed DEF Expire, Age, tables
<1>4. ASSUME NEW status, ChangeAccount(status) PROVE UInv'
  BY <1>4, StillServed DEF ChangeAccount, tables
<1>5. CASE UNCHANGED vars
  BY <1>5, StillServed DEF vars, tables
<1> QED
  BY <1>1, <1>2, <1>3, <1>4, <1>5, ArriveServed DEF Next

\* For any number of requests: a login code or a reset link that is not read while another
\* is about to mark it is used once, and the code is missed at most MaxAttempts times
\* (verifyOtp and resetPassword).
THEOREM CodesServeOnce == Spec => []ServedOnce
<1>1. TInv /\ UInv => ServedOnce
  <2> SUFFICES ASSUME TInv, UInv, NEW i \in Id, Clean(i), i \in Rows(otps) \cup Rows(tokens)
               PROVE  /\ Cardinality({r \in Readers(i) : pc[r] = "done"}) <= 1
                      /\ Cardinality(Missed(i)) <= MaxAttempts
    BY DEF ServedOnce, Clean, Readers, Missed, Rows
  <2>1. Served(i)
    BY DEF UInv
  <2> DEFINE done == {r \in Readers(i) : pc[r] = "done"}
  <2>2. \A q, r \in done : q = r
    BY <2>1 DEF Served, Passed, PassLabels
  <2>3. Cardinality(done) <= 1
    <3>1. CASE done = {}
      BY <3>1, FS_EmptySet
    <3>2. ASSUME NEW r \in done PROVE Cardinality(done) = 1
      <4>1. done = {r}
        BY <2>2, <3>2
      <4> QED
        BY <4>1, FS_Singleton
    <3> QED
      BY <3>1, <3>2
  <2>4. Cardinality(Missed(i)) <= MaxAttempts
    <3>1. CASE otps[i] # Absent
      <4>1. IsFiniteSet(Request)
        BY RowFacts, ConstantAssumption, FS_Subset
      <4>2. IsFiniteSet(Missed(i))
        BY <4>1, FS_Subset DEF Missed, Readers
      <4>3. Cardinality(Missed(i)) \in Nat /\ otps[i].attemptCount \in Nat
        BY <3>1, <4>2, FS_CardinalityType DEF TInv, TypeOK, Otp
      <4> QED
        BY <2>1, <3>1, <4>3, ConstantAssumption DEF Served
    <3>2. CASE otps[i] = Absent
      <4>1. Missed(i) = {}
        BY <2>1, <3>2 DEF Served
      <4>2. Cardinality({}) = 0
        BY FS_EmptySet
      <4> QED
        BY <4>1, <4>2, ConstantAssumption
    <3> QED
      BY <3>1, <3>2
  <2> QED
    BY <2>3, <2>4
<1> QED
  BY <1>1, InitTypes, NextTypes, InitServed, NextServed, PTL DEF Spec
=============================================================================
