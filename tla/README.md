# A verification model of the Southlake service

The Southlake service is the REST back end of an insurance accounting system: NestJS and TypeORM in
one Node.js process over one PostgreSQL database. This directory holds TLA+ modules of its core
logic, the configurations that check them with TLC, and proofs checked by TLAPS. `PROJECT.json`
lists components, runs, mutants, the source lines each definition stands for, the findings, the
hazards and the theorems.

Contents: [how the system runs](#how-the-system-runs) · [inventory](#inventory) ·
[modules](#modules) · [runs](#runs) · [findings](#findings) · [proofs](#proofs) · [what is left
out](#what-is-left-out) · [plan](#plan) · [running it](#running-it)

## How the system runs

All handlers are `async` functions of one process. Two requests interleave wherever a handler
awaits, that is at every query; between two awaits nothing else runs. PostgreSQL executes each
statement at READ COMMITTED: a statement sees what was committed when it began, and an UPDATE,
DELETE or locking SELECT of a row that an open transaction holds waits for that transaction and then
looks at the new version of the row. There are three ways to write:

* `repo.save(entity)` reads the row again, compares it with the entity, read some awaits earlier,
  and updates the columns that differ: what another request changed since the entity was read is
  undone, what it changes between the two statements of the `save` is not; a row that has gone is
  inserted again;
* `repo.update(where, columns)` writes the named columns only;
* a `QueryRunner` transaction groups statements; few handlers use one (posting a journal entry,
  numbering a batch, creating and amending a treaty).

JournalLedger, BatchNumbering, MasterRecords, UserInvitations and TreatyTerms give the two
statements of a `save` two steps, with any request between them. AuthSessions, WorkbookRegister,
ReserveChain, ChartOfAccounts and AccessControl take a `save` as one step that writes the copy back:
of these, nothing is shown of what comes between its two statements.

A handler may stop anywhere: a query fails, the connection drops, the process ends. What was
committed stays. `timeout.interceptor.ts` answers a request after 30 seconds while its handler goes
on, so a client's retry may overlap with the first attempt.

## Inventory

Paths are below `src/src/modules` unless they start with `common`.

| component | state it keeps | operations | what is hard | modelled in |
|---|---|---|---|---|
| `journal-entries` | batches, entry lines | create, update, remove a batch; post an entry | batch numbers under concurrency; a posting replaces lines and totals; the period lock is read outside the transaction; whole-entity saves | JournalLedger, BatchNumbering |
| `reports/gl-journal-entries` | statement batches `RE-<workbook>-<state>` | generate rows, post them | a series of committed statements that can stop anywhere; figures rounded row by row | JournalLedger (ledger), WorkbookRegister (register), CedingStatement (rows) |
| `reports/batch-upload` | lines of a batch | replace the lines by those of a workbook | the same, and no lock check | JournalLedger |
| `auth` (sessions) | codes, sessions, challenges, reset tokens | login, verify, resolve, logout, forgot and reset password | every check reads first and writes later: attempts, single use, one session an account, cooldowns | AuthSessions, SessionLifecycle |
| `auth`, `users` (invitations) | invitations, accounts | invite, accept, revoke; remove an account or a role | an acceptance is two writes; an address is looked up, then inserted; removal checks first who has a role | UserInvitations |
| `users`, `roles`, `permissions` | users, overrides, roles, grants | edit, activate, deactivate, remove, assign, override, grant | the last superadmin; delete-then-insert of overrides; roles removed while assigned; accounts brought back by a stale save | AccessControl, UserInvitations |
| `common/guards`, `common/cache` | permission cache, 60 s | admit, resolve, check | a fill that began before an invalidation | AccessControl |
| `workbook` (upload, parsers, ITD, workbooks) | workbooks, exhibits | upload, enter a baseline, edit, delete, approve | month sequence; replacing a workbook and its batches without a transaction | WorkbookRegister |
| `workbook` (updates, lookups, reserves) | exhibits of states and TOTAL | edit an exhibit, a rate or a mapping; roll forward | reads that write; roll-forward of one month only; spreading a total | ReserveChain, CedingStatement |
| `reports/reinsurance-statement`, `reports/cash-settlement`, `reserves` | none | compute reports | the figures must agree with each other and with what is posted | CedingStatement |
| `masters/treaties` | treaty header and lists | create and amend in transactions; delete | terms read by every report; the header repeats the first row of each list; an amendment that changes nothing in the header takes no lock | TreatyTerms; CedingStatement (terms) |
| `masters/masters-config` | period locks, document types, sequence counters | lock, unlock; create, edit, remove | locks race with postings; a code is checked, then saved | JournalLedger (locks), MasterRecords (tables) |
| `chart-of-accounts` | account tree, next child numbers | create, edit, remove | the parent is saved back stale; keys and codes are checked before the write; removed accounts stay in the tree | ChartOfAccounts |
| `masters/*` (brokers, cobs, lobs, mgas, products, reinsurers, risk companies, states, treaty types), `gl-mappings`, documents | reference data | create, edit, remove | a code is checked, then saved; a stale copy undoes another's change | MasterRecords |
| `financial-reports` | none | profit and loss, balance sheet | two reports over one journal that choose periods and classes differently | FinancialReports |
| `test-balance` | none | figures that are constants in the source | nothing | – |
| `activity-logs`, `common/subscribers` | audit trail | record | an entry is made from a row read again at the save | MasterRecords, AuditedStore |
| `database-seeder` | workbooks, exhibits | seed the baselines, clear them, edit a baseline's file | it works on the register while requests are served, without their checks: statements stay behind, amounts not sent become zero | WorkbookRegister, ReserveChain |
| `mail`, `database`, `config`, `common/context` | none | send, migrate, configure, carry the request | – | – |

What makes each correct, in a sentence: a posting enters the ledger whole, balanced and under a
period that was open; totals are those of the lines; batch numbers are unique and grow; a code
serves one session and a bounded number of guesses, a link one reset, an account one session; a
permission withdrawn is refused once no copy of it is cached; a superadmin remains; an account comes
from an open invitation; the trail tells what is stored; the lists of a treaty are those of one
amendment, and its header names their first; a program's months have no gaps; TOTAL is the sum of
the states; reserves carry from month to month; what is posted is what the statement shows, and
stays so.

## Modules

The service is one program on one database. The modules split it by concern: each keeps the tables
its properties are about and lets the rest act as environment or as a nondeterministic outcome.
AuthSessions implements SessionLifecycle and MasterRecords AuditedStore by refinement;
FinancialReports extends ChartOfAccounts; the others meet at the posting of a statement, which
JournalLedger models for the ledger, WorkbookRegister for the register and CedingStatement for the
figures.

The modules with overlapping requests share one form. `Request` is a set of HTTP requests, each
served once; `call[r]` is what the client sent, `pc[r]` the awaited query `r` has come to,
`local[r]` what it holds in memory (rows read earlier, computed numbers). One action is one awaited
query with the code up to the next; queries that no other request can come between with an effect
are taken together. `Arrive` starts a request with any call. A failing query ends a request anywhere
and rolls an open transaction back: `Abort`, in AccessControl `Fail` and in ReserveChain `Stop`. The
stop of the whole process, `Crash`, ends all requests in WorkbookRegister (where one alone that
never goes on, among as many as are served at once, is one that failed) and in AccessControl, there
with the cache. The bound `MaxInFlight` limits how many are served at once; with 1 they are served
in turn. Variables called history in a module only record what the properties speak of. **Requests**
holds the form (`Request`, `pc`, `call`, `InFlight`, `Goto`) and **Overlaps** adds the history
`met`, who was served at the same time as whom; JournalLedger is built on the first,
UserInvitations, ChartOfAccounts and TreatyTerms on both. **Summation** is the one sum of those that
add amounts. Components proved about in one module share these, so their own names differ:
`ChartSpec` and `BooksSpec`, `TreatySpec`, `StatementSpec` and the like.

**JournalLedger**: `JournalEntriesService`, the ledger side of `postToJournalEntries`,
`BatchUploadService` and period locks. `rows` are the batches by number, `entries` the lines,
`locked` the periods. The transaction of `postEntries` is `DeleteLines`, `InsertLine` …,
`CommitPosting`, its lines drafted in `local[r].drafted` until the commit; statements and uploads
write without one. Every `save` of a batch is `Compare`, which reads the row again, and a write of
the columns that differ (`SaveEntity`); computed totals always differ, as they are numbers where the
row has text. An update may change the period, the number or both, and the number is checked first.
Amounts are of any sign and any fraction of a cent on the wire (`Scale` to a cent) and cents in the
columns; those not positive are not stored. A DELETE takes the row locks it needs at once, so that
two postings wait for each other but never in a circle; circles are BatchNumbering's matter. What
the client sends instead of generated rows is one of the line lists in `StatementRows`.

**BatchNumbering**: `createBatch` in its own transaction. `Scan` fixes the rows a locking SELECT
returns, `LockRow` takes them one by one in any order, `TakeNext` computes the number and `Insert`
waits on the unique index while another transaction has the number pending. `BreakDeadlock` is the
database's deadlock detector. Batches renumbered and removed by others come between, by a `save` of
two steps (`Compare`, `Save`).

**SessionLifecycle** says what a session and a challenge may do in their lives: a session is opened
once and revoked for good, a challenge is resolved once, and a session opened through a challenge
finds the one the challenge is about revoked. **AuthSessions** is `AuthService` for one account,
step by step: codes, sessions, challenges and reset links, with the age of a row by rank, expiry
(`Expire`), the 15 minutes of the cooldown passing (`Age`) and an administrator changing the
account. The history `past` is what was there when a request looked for sessions, `beside` who was
then about to write to the row it had read. It is shown to implement SessionLifecycle under the
mapping `SessionState`, `ChallengeState`, `About`, `Through`, where the write-back of a stale copy
maps to a stutter.

**WorkbookRegister**: the workbooks of one program: `books` the rows, `filled` which of them have
exhibits, `batch` the statement filed for each. Parsing is an outcome: a file yields months in
order, or is refused; refusal may also come at a column of a Starlight file, after the old workbook
was removed and the new one stored, as in the code, and so may the failure of a FUT file without
sheets of states (a month of Starlight has its TOTAL at least). There is one state, so one batch per
workbook; locked periods and missing accounts are refusals; exhibits, TOTAL and the first settlement
of a month are one step. The database seeder takes part: `Gather` finds the baselines of the program
(to clear: every workbook) and `Discard` marks them removed, after which a seeding goes on to store
and fill a new one (`seedItdData`) and a clearing ends (`clearAllData`). Neither looks at what was
posted, so the statements of a workbook it removes stay; `PostedBooksStand` excepts these.

**ReserveChain**: the exhibits of a FUT chain: every read rolls a month forward from the one before
and saves it state by state, then sums TOTAL; edits do so before and after. One reserve (loss IBNR,
prior and current) stands for the seven that roll alike, one movement for the fields that drive it,
beside the unpaid losses. An edit may name any of them (`Editable`), also the reserves that the
roll-forward then sets anew (`EnteredIn` has those it does not set). A request may stop between any
two saves (`Stop`); the history `unsummed` has the workbooks where one stopped after it had saved a
state and before TOTAL, until TOTAL is next saved. Rates are fixed; the fallback to premium weights
when a total is spread is left out. An edit of a baseline through the database seeder
(`EditSeederFile`) replaces an exhibit by the amounts sent, zero where none is, and sums TOTAL.

**CedingStatement**: what one program and one state are worth: `calculateCedingValues`,
`recalculateExhibit`, the GL template of 68 rows, the cash settlement, and who supplies a rate: the
file, the workbook, the treaty or a default that differs by service. `FiledFUT`, `FiledStarlight`
and `EnteredITD` are the rates an upload or a manual baseline saves, `Populated` what a read makes
of them, `Over` what a report falls back to; the treaty is created, amended and deleted meanwhile.
The Starlight parser files the treaty's ULAE rate under both LAE headings
(`starlight-parser.service.ts:110`), and so does the model. The program is one of the Excess
programs, whose defaults the files fall back to. Here requests come one after the other. Figures are
exact, in units of 1/200000 cent, where the code computes in binary floating point; a figure of
exactly half a cent may there go either way, and the properties leave room for it. Left out: the
statement of TOTAL, cessions below 100 %, policy fees, and rows a client sends.

**AccessControl**: guards, permission resolution and cache, users and roles. `cache[u]` is a fill
that has not expired; `ReadRole` and `ReadOverrides` are the two queries of a resolution,
`ClearOverrides` and `WriteOverrides` the delete and insert of `upsertUserPermissions`, and `Fail`
ends a request at any statement: one whose insert fails after the committed delete does not come to
the invalidation, which the history `suspect` remembers. One permission stands for those that admit
to administration, a fixed set of users for the superadmins; removed roles are still found, as in
the code.

**UserInvitations**: how accounts come and go. `users` are the accounts by address, removed ones
included since the address stays unique; `invites` the invitations, known by the request that made
them. `acceptInvite` is a read of the invitation, a look at the address, the insert of the account
and the mark on the invitation, and may stop after each. Removal and edits of accounts (profile,
status, deactivation of one or of several at once), assignment of roles and removal of roles run
beside it: they look the account up, read it (`LoadUsers`), read it again in `save()`
(`CompareUsers`) and write what differs (`SaveUsers`). `met[r]` records which requests `r` met.
Passwords, names and the mail are left out, and expiry is one step.

**AuditedStore** is what the audit trail promises of a table: a row changes in one step with an
entry that tells the values changed. **MasterRecords** is one table of master data and its trail,
statement by statement: look the code up, load, read again inside `save()`, update the columns that
differ and let `AuditSubscriber` add its entry, log once more. The services differ in kind only, and
`Tables` names the sixteen tables with theirs: whether a unique code is looked up first, whether the
service logs for itself, whether a loaded relation overrides the column sent. One column stands for
the unique ones, one for all others. The mapping to AuditedStore drops `deletedAt`, which an entry
of a removal does not tell.

**ChartOfAccounts**: accounts with code, key, parent, normal balance, the mark of a parent, the
suggested number of the next child and the mark of removal. A create finds the parent, looks for
code and key, saves the account and then saves the parent as it had read it; nothing looks at the
mark of removal. `save()` is one step here, its halves being in MasterRecords. The number stored is
the child's plus one, without regard to what stood there. **FinancialReports** adds the journal,
sets of entries, balanced or not, posted to any accounts there are, and the two reports as functions
of the state: `getProfitAndLoss` with the net income of a month, `getBalanceSheet` with assets,
liabilities, equity and retained earnings, each with its own way of finding the batches of a period
(as asked, or as number; the sheet lists every spelling its parser reads) and the class of an
account (key of the parent, or first digit of the code). Both are one SQL statement over committed
rows.

**TreatyTerms**: one treaty: `header`, the rows of its lists and of the reinsurers made on the way,
and `lock`, the transaction that holds the header's row. Creation and amendment are transactions
statement by statement: lists are deleted and inserted, the header is saved with the first entries
of the lists given, which updates, and so locks, the row only where something differs; a creation
takes the single id sent beside an empty list. A DELETE sees what is committed when it begins; an
INSERT waits on the unique key of the lists that have one. Removal and an MGA that joins run
outside. Left out: a change of the treaty's code and the locks that foreign keys take.

`MC<module>` gives each its instance for TLC, MCProgram those of ReserveChain and CedingStatement
and MCMeetings those of UserInvitations and TreatyTerms. `<module>Proofs` holds its theorems; those of
CedingStatement are in ReserveChainProofs, of ChartOfAccounts and FinancialReports in
JournalLedgerProofs, of TreatyTerms in UserInvitationsProofs.

## Runs

All passing runs are exhaustive for their constants. Requests, where TLC uses symmetry, are
interchangeable: nothing but their set is mentioned in `Next`.

| run | instance | shows |
|---|---|---|
| `ledger` | 2 overlapping requests of any kind, a manual or a statement batch before them, 2 periods, 2 entry numbers, tenths of a cent: a balanced, an unbalanced and a voucher of fractions with both sides on a line, statement rows with fractions and a negative one | postings are whole; locks bind the manual requests, but for a batch moved while it is saved; a posting served alone leaves its lines, a cent a line apart at most, with totals that match but for the rounding of a generated sum, whatever earlier overlaps have left |
| `ledger_lock` | the same, postings and updates of the batch there is | finding |
| `numbering` | 2 requests, 2 batches before them, numbers 1, 2 and a text | numbers grow, are lost to newer batches only, and every request ends |
| `numbering_lock` | the same | finding |
| `sessions` | 2 overlapping requests of any kind, one old row of each table | refinement of SessionLifecycle; a reset clears the sessions; two sessions, a code or a link served twice are named races |
| `workbooks` | 3 overlapping requests, 3 workbooks, baseline and 2 months | months chain; statements rest on exhibits; one workbook a month and, but for those the seeder removes, no orphaned statement when served in turn; what may revive a removed workbook |
| `workbooks_gap` | 3 requests in turn | finding |
| `program`, of reserves | 3 requests, two at once or all in turn, each of which may stop anywhere, baseline and 2 months, 2 states, edits of the movement, the reserve or both | totals add up, but where a request stopped before it saved TOTAL; settled reserves are those of a recomputation from the baseline; an edit, the seeder's among them, sticks to the cent, and one of a reserve of a FUT gives the reserve rolled forward; what the roll-forward may overwrite |
| `program`, of figures | one of 2 baselines or none, 2 months of either source, 2 sheets, 3 treaties, 1 edit of an exhibit, of rates or of the treaty | postings balance; statement, posting and cash settlement agree; reserves accumulate; posted figures stand |
| `access` | 3 requests, 2 at once, each of which may fail anywhere, 2 superadmins and a user, 2 roles | a stale cache entry comes from named races or from a failed change only; overrides replace, or are those of the role; the last superadmin |
| `masters` | 3 requests, 2 at once, a row before, 2 codes, 2 values, a table of each kind | refinement of AuditedStore; the trail tells the rows; an update lost to a stale copy shows in the trail |
| `reports` | 2 overlapping requests, 2 headings and an account under each there before, 5 postings, balanced or not, in 2 months and 3 spellings, 4 entries of them posted | by how much a sheet may be off and why; when net incomes add up to retained earnings; what a parent suggests |
| `meetings`, of accounts | 3 requests of any kind, 2 at once, a standing invitation of a clerk and an account, 2 roles | accounts come from open invitations; what an invitation tells of its account, wherever its acceptance stops; who keeps a removed role; what brings a removed account back |
| `meetings`, of a treaty | 3 overlapping requests, a treaty of one carrier or of one MGA before or none, lists of 1 or 2 entries | whose entries a list holds, when the header names one, what of the header an overlap may lose |

Two runs check two components each, which share no state and are proved about in one module. A
behaviour is of one of them, which `part` says, and the other rests, so that their states add up and
do not multiply. Of reserves a third request comes only where none have overlapped (`ThirdInTurn`),
and of accounts two requests are served at once (`TwoAccountsAtOnce`).

Why these bounds. A race in this code is between one request's read and its later write, and one
other request's write: two overlapping requests show it, a third (`workbooks`, `access`, `masters`,
`meetings`, and in turn `program`) shows what it leaves to the next. The months
chain pairwise, so a baseline and two months contain a first month, a middle one and a last. Two
states make a total with a residue; two superadmins are the least at which both can go. Two sheets,
one growing and one running off, give figures with whole, fractional and exactly half cents.
`MaxRecent` and `MaxAttempts` are 1 where the code has 3 and by default 5: the limits are reached by
the same comparisons.

Three kinds of property come with conditions. Those of requests "in turn" or "alone" (`overlap`,
`local[r].alone`, `met`) fail of requests that overlap: without locks or transactions the code gives
no more. Where a failure breaks them too they say what it leaves: `TotalsAddUp` the workbooks whose
TOTAL is not saved (`unsummed`), `UpsertGivesCheckedOrRole` the rights of the role. Others name the
requests that must have overlapped, or failed, for something to go wrong: `LockRespected`,
`SoleSession`, `ServedOnce`, `StaleOnlyByRaceOrFailure`, `LostUpdatesShow`,
`RemovedComesBackByOverlap`, `MixedOnlyWithoutLock`, `HeaderLostByOverlap` and `HeaderInList` say
which pair of requests it takes, and that nothing else suffices, so that whoever adds a lock or a
transaction knows where. Those of CedingStatement name the months or terms in which the figures
part, each for a reason in the code: `ReservesPosted` wants one LAE heading throughout (the other's
IBNR is stored as zero when it changes), no rate for the heading not in use, no zero IBNR carried
past unpaid losses (`||` in `recalculateExhibit` takes them instead), and for Starlight stored
reserves; `SettlementsPosted` leaves out flat ULAE, since `getGLJournalEntries` does not hand the
treaty over; `StatementsStand` leaves out amendments of the treaty's LAE rates, which override those
saved with the workbook; `CashAgrees` wants every rate set, the defaults of the two reports being
different. TLC has confirmed that each of these antecedents is met in the run.

Fairness and deadlock. Only `numbering` has a liveness property. `FairSpec` assumes that each
request's next step is taken if it stays possible: statements that are not blocked return, and the
deadlock detector runs. A blocked lock request is not enabled, so nothing is assumed of it.
`CHECK_DEADLOCK FALSE` stands where every request is served once and the system then stops; `ledger`
goes on for ever (periods are locked and unlocked) and keeps the check.

Every property of a passing run has a mutant in `PROJECT.json`: a variant of one operator or action,
defined next to it and marked "Variant", under which TLC finds the property violated.

## Findings

* `workbooks_gap`: after the workbook of a month has been deleted the next month is accepted, since
  the gap check looks at removed workbooks too, while the message of that check says that gaps are
  not allowed.
* `ledger_lock`: a posting may enter a period that was locked before it arrived. An update reads the
  batch while the new period is open and goes on when that is locked; the posting reads and checks
  the old period; its `save` reads the row, the update commits, and the posting writes lines and
  totals, not the period, which does not differ. The message of the check says that entries cannot
  be posted to such a batch. `LockRespected` is what holds: of the
  requests that ask for a lock, nothing else gets round it.
* `numbering_lock`: two creates at once may compute the same batch number, and the second fails on
  the unique index. The comment at the lock says that the lock prevents it; but a locking SELECT
  that has waited returns the rows there were when it began, and locks no row in an empty table.
  `LostOnlyToNewer` is what holds of the number refused.

Behaviour that surprises, and which the properties leave room for:

* an update with the period `""` asks for the lock of `""` and keeps the period the batch has, so
  that the number of a batch of a locked period is changed, with no other request about
  (`LockRespected` leaves these out, `Unchecked`);
* fractions of a cent pass the balance check, which rounds the totals, and are then rounded one by
  one by their column: lines of 0.004, 0.004 and 0.008 are stored as 0.00, 0.00 and 0.01, and 20
  debits of 0.005 beside 20 credits of 0.00499 are stored 20 cents apart. A cent a line is the most
  (`PostingSettles`);
* the rows a client sends for a statement may have fractions too: the batch total is their sum,
  rounded, which is then not the sum of the lines stored; negative amounts are not stored but count
  in the total (`PostingSettles`). Nor need these rows balance, and then the balance sheet is off
  (`SheetOffByMisfits`);
* a request that stops between the exhibits of the states and TOTAL leaves TOTAL unequal to their
  sum until TOTAL is next saved, and an edit that stops so leaves the month not rolled forward
  (`TotalsAddUp`, `ChainSettles`);
* an edit of a FUT takes the reserve fields, and the roll-forward that follows overwrites them at
  once (`EditsStick`);
* an insert of grants or overrides that fails after the delete before it ends the request before it
  invalidates the cache, which keeps the rights of before (`StaleOnlyByRaceOrFailure`);
* a removed account is brought back by an edit, a deactivation or an assignment that read it before
  (`RemovedComesBackByOverlap`);
* a treaty created with an empty list and a single id has that id in its header and in no list
  (`HeaderInList`);
* two uses of one reset link at once both change the password (`ServedOnce`);
* an acceptance that stops after its insert leaves an account with a pending invitation, which can
  then neither be accepted nor sent again (`InviteTellsAccount`); the address of a removed account
  is free for an invitation but not for its acceptance;
* the database seeder leaves the statements of the baselines it removes in the ledger
  (`PostedBooksStand` excepts them), and an edit through it sets amounts not sent to zero;
* two amendments of a treaty that change nothing in its header may mix their lists
  (`MixedOnlyWithoutLock`);
* the net income of a month misses batches that spell the month in a way only the balance sheet
  reads (`IncomeAgrees`).

## Proofs

TLAPS proves the following for every value of the constants that meets the module's assumption,
without bounds on requests, rows or months. `PROJECT.json` lists them.

* **JournalLedgerProofs**. `TypeCorrect` from `TInv`: `TypeOK`, and at each label the operation and
  the copy that belong there, and how many lines are drafted. `PostingsAreWhole` from `WInv`:
  `WholePostings` is not inductive, as a DELETE selects its lines before it deletes them; the ledger
  and every selection held consist of complete postings of requests that have written theirs, and
  all statements choose lines by batch and entry number, which a posting's lines share.
  `LocksAreRespected` from `LInv` and `RInv`: a request knows every period unlocked since it
  arrived, and the one it has checked is among them until it writes; every line has its batch row, a
  transaction that has inserted lines pins it, and a posting deletes lines of its own batch only.
  The period a `save` leaves is then the one checked, or the one the row has, which its `seen` had
  too, or another has moved the batch in between. `PostingsSettle` from `UInv`, that a request which
  has not got beyond its look-up has made no batch, and `PInv`: nothing past the check is unbalanced
  or negative, and a request alone since it arrived knows more: its copy is the row, the lines it is
  to delete are those of its number, the totals it holds those of the ledger it leaves. The
  distances come from `RoundedSum`, that amounts rounded one by one stay near their sum, whatever
  `Scale` is: two amounts a line, half a cent each, make the cent a line; where one sum alone is
  rounded it is half a cent a line and half a cent for the sum. Of the chart of accounts
  `ChartTypeCorrect` from `ChartInv` (label, operation and copy fit), and `NumbersAhead` from
  `NumberInv`: the children of a parent that nothing else was asked about (`Quiet`) keep it as
  parent, in the table and in every copy (`ParentKept`); one that has ended is behind the number
  suggested, and one that has not read the parent last and holds it as it is stored (`Suggests`).
  `SheetOff` and `IncomesAgree` hold of any chart and any journal: each sum over the journal splits
  into the parts that both reports, one or neither counts, and what the entries posted are apart is
  the sum over the parts: no posting is assumed to balance.
* **BatchNumberingProofs**. `TypeCorrect` from `TInv`. `GivenNumbersGrow` and
  `NumbersLostToNewerOnly` from `NInv`: batches never vanish, a scan has seen all that were there at
  arrival, the ones it has locked keep their numbers, and the computed number exceeds them. A `save`
  writes a number it was sent, or the number of the row as it is (`Saved`).
* **AuthSessionsProofs**. `TypeCorrect` from `TInv` (label, memory and call fit). `ResetsClear` and
  `LifecycleImplemented` from `LInv`: a request makes its own rows only, and a resolve that goes on
  to open a session has revoked the one its challenge is about. The refinement maps each action to a
  step of SessionLifecycle or a stutter. `NoneNextToAnother` rests on `SInv`: what a request saw of
  the sessions, and that only the one it displaces may still be usable when it opens its own.
  `CodesServeOnce` from `UInv`: of a code or link that nobody read while another was about to mark
  it, one request at most holds a copy, which is the row as stored; one at most has passed and left
  it used; and the requests refused are no more than the count stored with it.
* **WorkbookRegisterProofs**. `TypeCorrect`, `MonthsChain`, `StatementsRest` and `RemovedStay` from
  one invariant `RInv`: `TypeOK`; what each request holds at each label (`Needs`), such as a found
  predecessor while it stores a month or exhibits while it states; ids given out in order
  (`Packed`); and the two properties themselves. Workbooks are marked, never deleted, which is why a
  predecessor once found is still there when the next await returns. `OnePerMonth` and `PostedStand`
  from `InTurn`: while one request at a time is served, what it is to write fits what is stored
  (`Fits`): it inserts a month that no usable workbook has, saves the row as it is but for the
  status, and clears no more than it has found.

* **MasterRecordsProofs**. `TypeCorrect` and `LostUpdatesAreVisible` from an invariant that says of
  each label what the request relies on, and that wherever its copy has fallen behind the row the
  trail has an entry of another since it read. `AuditedStoreImplemented` maps each step to one of
  AuditedStore or a stutter; `TrailIsTrue` is proved of AuditedStore's steps and carried over.

* **AccessControlProofs**. `TypeCorrect`, `CacheTellsRights`, `ReplacementsExact` and
  `OneSuperAdminStays` from `CInv`. No property is inductive, as each rests on rows read awaits
  earlier: `CInv` says of each label that what a request has read of a user (row, grants of the
  role, copies to save) is what is stored, or the request has been overtaken there (`GuardFresh`,
  `CopiesFresh`, `Replaces`), and that past the count of superadmins one is left besides those it
  puts out of service (`Spares`). So a fill, or a save, that was not overtaken caches and stores
  what the tables say; a request that fails has its users in `suspect`, if it was still to
  invalidate them (`Awaiting`). Assumed: there are finitely many users.
* **UserInvitationsProofs**. `TypeCorrect`, `AccountsAreInvited`, `InvitationsTell`,
  `RemovalsSeeUsers` and `RemovedStayRemoved` from `IInv`: what a request relies on at each label
  (`Making`, `Accepts`, `Edits`, `Removes`), and that requests in flight together have met. Every
  step is shown to satisfy `Grows`: invitations keep their address and never open again, accounts
  keep what they were made from, and who changes an account that is there was asked to; under it the
  others keep what they rely on. A request about to bring a removed account back, whose draft is not
  marked where the account and the row it compared with are, has met another about that account
  (`Editing`). Of treaties `TreatyTypeCorrect` and `ListsUnmixed` from `TreatyInv`: what a
  transaction has deleted and inserted is of the lists it has come to (`Swept`, `Drafted`); rows
  come from requests that have ended and gave such a list (`Sourced`); before a treaty there are
  none (`Headless`); and what is left of a list an amendment has swept comes from requests it met,
  of which one of the two takes no lock (`Cleared`). `HeadersLost` from `ElseInv`: where a request's
  copy differs from the header in what it was not asked about, or its save would change that, it met
  one that saved it. `HeadersListed` from `HeaderInv`: unless one of the exceptions of
  `HeaderInList` holds, which then holds for good (`Excused`), the header's entry is in the list
  (`HeaderFine`), and each request holds for the header the first entry it gives, or what the header
  says, or has met one that writes the list (`InHeader`). Two things came out of these proofs.
  `HeaderInList` excused requests that gave an entry and its list, which keep to it, and not what
  made the treaty before with an entry alone, which need not (a creation gives one alone also beside
  an empty list, `Alone`). And two arms of a CASE in `Compare` overlapped, which TLC takes in order
  and a prover may not.
* **ReserveChainProofs**. `EntriesSurviveRolling` from `KInv`: the exhibits a request holds agree
  with the stored ones in every amount entered, unless the book is in `changed[r]`; a rolled row
  keeps what was entered. `TypeCorrect` from `Typed`. `TotalsAlwaysAddUp`, `ChainAlwaysSettles` and
  `EditsAlwaysStick` from `Serial`: between requests every TOTAL outside `unsummed` is the sum of
  its states and every settled month is linked to the one before, and a request served alone has
  come so far (`Track`) in restoring both for the month it works on; an amount in a field that no
  roll-forward sets (`Lasting`) is in place once changed. A request that stops has its workbook in
  `unsummed`, or the months from it on no longer settled, wherever its work had not been done
  (`StopAlone`). That links from month to month make the reserves those recomputed from the baseline
  is shown along the months (`LinksAddUp`). Of CedingStatement `StatementTypeCorrect` from `SInv`
  (exhibits, rates, terms and posted rows are of their types), and on it rest `CashAgreesAlways`;
  `StatementsBalanceAlways`, for which the 68 rows of the template are paired, debit with credit;
  `SettlementsPostedAlways`, for which the rows of each account are summed, each rounded by half a
  cent at most; and `ReservesPostedAlways`. There a month posted as it stands (`Chained`) adds what
  it closes with less what it opened with, three roundings aside for FUT (`FutMonth`) and none for
  Starlight (`RestingMonth`); each month opens with what the one before has stored (`MonthFollows`);
  and the sum along the months is off by no more than the bound stated, 4m-2 cents after m months
  (`AlongChain`). `StatementsStandAlways` needs also that no month is on file without the one before
  (`InOrder`). The proof of the reserves found a condition of the property too weak: a negative LAE
  rate of the heading not in use met it (`OneKind` asks for none now).

Sums, counts and the chain of months are computed by folds and recursive functions. The library's
induction theorems cannot be instantiated by the provers used here; the proofs take a smallest
counterexample instead, a finite set none of whose proper subsets is one or a least number, which
the library gives as facts about sets (`WFMin`). What they show of sums (`SumAsFolded`,
`SumWithout`, `SumMoved`, `SumIsNat`, …) stands in JournalLedgerProofs and in ReserveChainProofs,
which also hold the theorems about the reports and about the statements, as these rest on it.
Likewise the treaties stand with the invitations, whose requests meet in the same way.

`TypeOK` is proved of every component that keeps state; FinancialReports adds only the journal, a
finite set of postings (`Posted`). Every invariant, action property and refinement of a passing run
is a theorem but one, which is checked by TLC alone: the liveness of batch numbering
(`RequestsEnd`), which is outside TLAPS's reach. So is what a violation run refutes
(`GapsNotAllowed`, `NoPostingToLocked`, `ComputedApart`).

## What is left out

* **Reading cells and headings of uploaded files, the layout of generated ITD sheets**: text
  processing; a file is modelled by the months and sheets it turns out to hold.
* **Mail, seeding from the command line, migrations, configuration, HTTP wiring, request context**:
  they decide nothing about the state above, and are more than half of the lines under `src/src`
  (`database/seeds`, `seed-*.ts` and `migrations` are data and schema). Of the seeder that is called
  over HTTP, the treaty it creates for a program without one is left out; its files of amounts are
  not in the repository, and without them it throws before it writes. That a handler goes on after
  its timeout is part of every module with overlapping requests.
* **Test balance**: its figures are constants, the same for every month.
* **Batch upload asks no lock**: `BatchUploadService` has no such check, so JournalLedger has none.
* **Creation of roles** (a loop that retries names), system roles and the role name that makes a
  superadmin; a change of a treaty's code; the locks foreign keys take; the names, addresses and
  devices of audit entries, and all listings.
* More than one state in a posting, more than one program, more than one account in AuthSessions:
  the handlers key every query by them.

## Plan

Done in this order: the ledger and its proofs, batch numbers, sessions and their refinement, the
workbook register, the reserve chain, access control, the figures of a statement; then master data
and their trail with proofs, the chart of accounts and the reports over it, invitations, treaties.
What is left is to extend the model: CedingStatement to grow cessions below 100 % and the statement
of TOTAL; the creation of roles with its retries; the files of documents, which are unlinked before
their row is marked.

## Running it

    tlc -workers 2 -config ledger.cfg MCJournalLedger.tla     # a run: cfg and MC module
    tlapm JournalLedgerProofs.tla                             # the proofs of a module

Each run ends within five minutes with two workers.
