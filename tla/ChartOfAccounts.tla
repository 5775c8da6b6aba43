--------------------------- MODULE ChartOfAccounts ---------------------------
(***************************************************************************)
(* The chart of accounts: a tree in which a parent suggests the number of   *)
(* its next child.  Rows are read, checked, and later saved as they were     *)
(* read; the parent is saved after its new child, outside any transaction.   *)
(* Accounts are marked as removed, and nothing looks at the mark.  save()    *)
(* is one step here; MasterRecords has the two it consists of.               *)
(***************************************************************************)
EXTENDS Integers, Overlaps

CONSTANTS
    Call,        \* what clients may ask for
    OldAccount,  \* accounts there from the start
    OldRow,      \* their rows
    MaxCode      \* bound on account codes

Id == Request \cup OldAccount  \* an account is known by the request that makes it

\* The keys the reports know.
Key == {"ASSETS", "LIABILITY", "CAPITAL_AND_EQUITY", "REVENUE", "EXPANSE"}

Numbers == 1 .. MaxCode + 1

AccountRow ==
    [code : Numbers, key : Key \cup {None}, parent : Id \cup {None}, isParent : BOOLEAN,
     normal : {"debit", "credit", None}, next : Numbers \cup {None}, deleted : BOOLEAN]

\* The body of a request; None: not sent.
Sent ==
    [code : (1 .. MaxCode) \cup {None}, key : Key \cup {None}, parent : Id \cup {None},
     isParent : BOOLEAN \cup {None}, normal : {"debit", "credit", None},
     next : Numbers \cup {None}]

AccountCalls ==
    [op : {"create"}, sent : {s \in Sent : s.code # None}]
    \cup [op : {"update"}, id : Id, sent : Sent]
    \cup [op : {"delete"}, id : Id]

ASSUME AccountAssumption ==
    /\ MaxCode \in Nat \ {0}
    /\ MaxInFlight \in Nat \ {0}
    /\ Request \cap OldAccount = {}
    /\ Call \subseteq AccountCalls
    /\ OldRow \in [OldAccount -> AccountRow]
    /\ \A a, b \in OldAccount : a # b => OldRow[a].code # OldRow[b].code
    /\ None \notin AccountRow \cup AccountCalls \cup Id \cup Numbers \cup Key
                   \cup BOOLEAN \cup {"debit", "credit"}

VARIABLES
    accounts,
    copy  \* the row a request has read and is to save

accountVars == <<accounts, pc, call, copy, met>>

----------------------------------------------------------------------------

Exists(a) == accounts[a] # None

\* Removed accounts keep their codes and keys.
Taken(row, a) ==
    \E b \in Id \ {a} :
        /\ Exists(b)
        /\ \/ accounts[b].code = row.code
           \/ row.key # None /\ accounts[b].key = row.key

Fail(r) == Goto(r, "failed") /\ UNCHANGED <<accounts, copy>>

\* dto.x ?? row.x
Given(sent, kept) == IF sent = None THEN kept ELSE sent

----------------------------------------------------------------------------

ChartInit ==
    /\ accounts = [a \in Id |-> IF a \in OldAccount THEN OldRow[a] ELSE None]
    /\ pc = [r \in Request |-> "idle"]
    /\ call = [r \in Request |-> None]
    /\ copy = [r \in Request |-> None]
    /\ met = [r \in Request |-> {}]

ChartArrive(r, c) ==
    /\ pc[r] = "idle"
    /\ Cardinality(InFlight) < MaxInFlight
    /\ call' = [call EXCEPT ![r] = c]
    /\ met' = Meeting(r)
    /\ Goto(r, IF c.op = "create" THEN "checking" ELSE "finding")
    /\ UNCHANGED <<accounts, copy>>

\* A failing statement or a stop of the process; what was saved stays.
ChartAbort(r) ==
    /\ r \in InFlight
    /\ Fail(r)
    /\ UNCHANGED <<call, met>>

\* The new row of a creation.
NewRow(sent) ==
    [code |-> sent.code, key |-> sent.key, parent |-> sent.parent,
     isParent |-> Given(sent.isParent, FALSE), normal |-> sent.normal, next |-> sent.next,
     deleted |-> FALSE]

\* The row of an update.  The parent is loaded with the row, and save() takes the key
\* from the row loaded: an account that has a parent keeps it.
AmendedAccount(row, sent) ==
    [code |-> Given(sent.code, row.code), key |-> Given(sent.key, row.key),
     parent |-> Given(row.parent, sent.parent),
     isParent |-> Given(sent.isParent, row.isParent),
     normal |-> Given(sent.normal, row.normal), next |-> Given(sent.next, row.next),
     deleted |-> row.deleted]

\* findById does not look at isDeleted.
Find(r) ==
    /\ pc[r] = "finding"
    /\ IF ~ Exists(call[r].id)
         THEN Fail(r)
         ELSE /\ copy' = [copy EXCEPT ![r] = accounts[call[r].id]]
              /\ Goto(r, IF call[r].op = "delete" THEN "counting" ELSE "checking")
              /\ UNCHANGED accounts
    /\ UNCHANGED <<call, met>>

\* The code and the key, where they are new, are looked up.
Check(r) ==
    /\ pc[r] = "checking"
    /\ LET sent == call[r].sent
           new == call[r].op = "create"
           code == sent.code # None /\ (new \/ sent.code # copy[r].code)
           key == sent.key # None /\ (new \/ sent.key # copy[r].key) IN
       IF \E a \in Id : /\ Exists(a)
                        /\ \/ code /\ accounts[a].code = sent.code
                           \/ key /\ accounts[a].key = sent.key
         THEN Fail(r)
         ELSE /\ Goto(r, IF sent.parent = None THEN "saving" ELSE "parenting")
              /\ UNCHANGED <<accounts, copy>>
    /\ UNCHANGED <<call, met>>

\* The parent must be one; a removed account will do.
FindParent(r) ==
    /\ pc[r] = "parenting"
    /\ LET parent == call[r].sent.parent IN
       IF ~ Exists(parent) \/ ~ accounts[parent].isParent
         THEN Fail(r)
         ELSE /\ copy' = IF call[r].op = "create"
                           THEN [copy EXCEPT ![r] = accounts[parent]] ELSE copy
              /\ Goto(r, "saving")
              /\ UNCHANGED accounts
    /\ UNCHANGED <<call, met>>

\* parent.nextNumber ?? parent.accountCode
NextNumber(row) == Given(row.next, row.code)

\* A creation saves the new account, and goes on where its number reaches the one the
\* parent, as read, suggests.
Save(r) ==
    /\ pc[r] = "saving"
    /\ LET new == call[r].op = "create"
           account == IF new THEN r ELSE call[r].id
           row == CASE new -> NewRow(call[r].sent)
                    [] call[r].op = "update" -> AmendedAccount(copy[r], call[r].sent)
                    [] OTHER -> copy[r]
       IN  IF Taken(row, account)
             THEN Fail(r)
             ELSE /\ accounts' = [accounts EXCEPT ![account] = row]
                  /\ Goto(r, IF /\ new
                                /\ row.parent # None
                                /\ row.code >= NextNumber(copy[r])
                             THEN "raising" ELSE "done")
                  /\ UNCHANGED copy
    /\ UNCHANGED <<call, met>>

\* Variant: the number of the new account is suggested again.
RaiseToCode(r) ==
    /\ pc[r] = "raising"
    /\ LET sent == call[r].sent
           row == [copy[r] EXCEPT !.next = sent.code] IN
       IF Taken(row, sent.parent)
         THEN Fail(r)
         ELSE /\ accounts' = [accounts EXCEPT ![sent.parent] = row]
              /\ Goto(r, "done")
              /\ UNCHANGED copy
    /\ UNCHANGED <<call, met>>

\* The parent is saved as it was read, but for the number.
Raise(r) ==
    /\ pc[r] = "raising"
    /\ LET sent == call[r].sent
           row == [copy[r] EXCEPT !.next = sent.code + 1] IN
       IF Taken(row, sent.parent)
         THEN Fail(r)
         ELSE /\ accounts' = [accounts EXCEPT ![sent.parent] = row]
              /\ Goto(r, "done")
              /\ UNCHANGED copy
    /\ UNCHANGED <<call, met>>

\* Removed children count.
CountChildren(r) ==
    /\ pc[r] = "counting"
    /\ IF \E a \in Id : Exists(a) /\ accounts[a].parent = call[r].id
         THEN Fail(r)
         ELSE Goto(r, "loading") /\ UNCHANGED <<accounts, copy>>
    /\ UNCHANGED <<call, met>>

\* dao.delete reads the row once more and marks it.
Load(r) ==
    /\ pc[r] = "loading"
    /\ copy' = [copy EXCEPT ![r] = [accounts[call[r].id] EXCEPT !.deleted = TRUE]]
    /\ Goto(r, "saving")
    /\ UNCHANGED <<accounts, call, met>>

ChartStep(r) ==
    \/ Find(r) \/ Check(r) \/ FindParent(r) \/ Save(r) \/ Raise(r)
    \/ CountChildren(r) \/ Load(r)

ChartNext ==
    \E r \in Request :
        \/ \E c \in Call : ChartArrive(r, c)
        \/ ChartStep(r)
        \/ ChartAbort(r)

ChartSpec == ChartInit /\ [][ChartNext]_accountVars

----------------------------------------------------------------------------
\* Properties

ChartTypeOK ==
    /\ accounts \in [Id -> AccountRow \cup {None}]
    /\ pc \in [Request -> {"idle", "finding", "checking", "parenting", "saving", "raising",
                           "counting", "loading", "done", "failed"}]
    /\ call \in [Request -> Call \cup {None}]
    /\ copy \in [Request -> AccountRow \cup {None}]
    /\ met \in [Request -> SUBSET Request]

\* Requests that write an account or one of its children.
Touching(p) ==
    {r \in Request :
        /\ call[r] # None
        /\ IF call[r].op = "create"
             THEN call[r].sent.parent = p
             ELSE \/ call[r].id = p
                  \/ Exists(call[r].id) /\ accounts[call[r].id].parent = p}

\* A parent under which children were only ever added, one request after the other,
\* suggests a number beyond those of the children added.
NextNumberAhead ==
    \A p \in Id :
        (\A r \in Touching(p) : call[r].op = "create" /\ met[r] \cap Touching(p) = {}) =>
            \A r \in Touching(p) : pc[r] = "done" => accounts[r].code < NextNumber(accounts[p])
=============================================================================
