--------------------------- MODULE CedingStatement ---------------------------
(***************************************************************************)
(* The figures of one program and one state: the reinsurance statement, the *)
(* general-ledger entries generated from it and the cash settlement, as     *)
(* the sheets, the rates and the treaty they are computed from change.      *)
(* Requests come one after the other (ReserveChain and WorkbookRegister     *)
(* have them overlap), all accounts are charted and no period is locked.    *)
(*                                                                          *)
(* Amounts are cents, rates tenths of a per cent.  A computed figure is     *)
(* exact, in Units of a cent: binary floating point may put a half cent on  *)
(* either side, and the properties allow for both.                          *)
(***************************************************************************)
EXTENDS Integers, Sequences, FiniteSets, Summation

CONSTANTS
    FinalMonth,    \* bound on months after the baseline
    Sheets,       \* what an uploaded file or a client enters for a month
    Baselines,    \* what an ITD workbook holds
    SheetRates,   \* rates the sheets of an uploaded file give (zero, but for LAE, is none)
    RateEdits,    \* rates a client sends, field by field
    Treaties,     \* terms a treaty may have
    MaxEdits,     \* bound on edits of exhibits, rates and the treaty
    None,
    Null

\* Workbook 0 is the ITD baseline, workbook m that of month m, January first.
Workbook == 0 .. FinalMonth

Month == 1 .. FinalMonth

EnteredField == {"pw", "pc", "tax", "uep", "lp", "laep", "ae_paid", "lu", "laeu", "aeu"}

IBNRField == {"loss_ibnr", "lae_ibnr_dcc", "lae_ibnr_aoe", "ulae_ibnr"}

ReserveField == IBNRField \cup {"loss_reserves", "lae_reserves_dcc", "lae_reserves_aoe"}

\* The month's column of an exhibit.  The column to date repeats it where a report
\* reads it: unpaid amounts, reserves and unearned premium are balances.
Column == [EnteredField \cup ReserveField -> Int]

\* Of the column of prior values, only that of the IBNR reserves is ever read.
Exhibit == [now : Column, prior : [IBNRField -> Int]]

RateField ==
    {"comm", "ulae", "lossPick", "laeDcc", "laeAoe", "boardsCharge", "lossRatioCap", "xol"}

Rates == [RateField -> Int \cup {Null}]

\* ULAE is a share of written premium, or flat: an amount, or if none is named a
\* share of the treaty's basis.
Terms ==
    [rates : Rates, ulae : {"percentage", "earned_premium", "unearned_premium"}, flat : Nat]

ASSUME StatementAssumption ==
    /\ FinalMonth \in Nat \ {0}
    /\ MaxEdits \in Nat
    /\ Sheets \subseteq Column
    /\ Baselines \subseteq Column
    /\ SheetRates \subseteq Rates
    /\ RateEdits \subseteq Rates
    /\ Treaties \subseteq Terms
    /\ None \notin Exhibit \cup Terms \cup Seq(Int)
    /\ Null \notin Int

VARIABLES
    source,    \* of the months' workbooks
    exhibits,  \* the exhibit of each workbook, None before it is uploaded
    rates,     \* the rates saved with each workbook
    treaty,    \* the program's treaty, or None
    posted,    \* the amounts posted for each workbook, by row of the template
    edits

statementVars == <<source, exhibits, rates, treaty, posted, edits>>

----------------------------------------------------------------------------
\* Figures

Unit == 200000

Whole(cents) == cents * Unit

Share(cents, rate) == cents * rate * (Unit \div 1000)

\* Math.round to the cent: halves go up.
Cents(v) == (2 * v + Unit) \div (2 * Unit)

\* toFixed(2): halves go away from zero.
Fixed(v) == IF v < 0 THEN -Cents(-v) ELSE Cents(v)

----------------------------------------------------------------------------
\* Rates

\* What each service falls back to when neither workbook nor treaty has a rate.
TreatyDefaults ==
    [comm |-> 290, ulae |-> 70, lossPick |-> 50, laeDcc |-> 62, laeAoe |-> 0,
     boardsCharge |-> 4, lossRatioCap |-> 20, xol |-> 0]

StatementDefaults ==
    [comm |-> 320, ulae |-> 10, lossPick |-> 518, laeDcc |-> 62, laeAoe |-> 0,
     boardsCharge |-> 4, lossRatioCap |-> 20, xol |-> 0]

CashDefaults == [StatementDefaults EXCEPT !.comm = 290, !.xol = 20, !.lossRatioCap = 0]

\* first ?? second
Coalesce(first, second) == IF first # Null THEN first ELSE second

Over(own, defaults) == [f \in RateField |-> Coalesce(own[f], defaults[f])]

\* A treaty's rates; where there is no treaty, none.
RatesOf(terms) == IF terms = None THEN [f \in RateField |-> Null] ELSE terms.rates

LAERates == {"laeDcc", "laeAoe"}

\* getDefaultRates, for one of the Excess programs.
FileDefaults == [StatementDefaults EXCEPT !.xol = 20]

\* What parseFUTWorkbook saves: a treaty's rates cover the defaults even where it has
\* none; the sheets give what is then missing, the LAE rates and the excess of loss.
FiledFUT(sheet, terms) ==
    LET base == IF terms = None THEN FileDefaults ELSE terms.rates
        agreed == RatesOf(terms)
    IN  [f \in RateField |->
            CASE f \in LAERates -> Coalesce(sheet[f], FileDefaults[f])
              [] f = "xol" -> Coalesce(sheet[f], base[f])
              [] f \in {"comm", "ulae"} -> Coalesce(agreed[f], Coalesce(sheet[f], base[f]))
              [] f = "lossPick" /\ base[f] \in {Null, 0} -> Coalesce(sheet[f], base[f])
              [] OTHER -> base[f]]

\* What parseStarlightWorkbook saves: a treaty's ULAE rate stands for both LAE rates.
FiledStarlight(sheet, terms) ==
    LET agreed == RatesOf(terms)
        read == Over(sheet, FileDefaults)
    IN  [f \in RateField |->
            CASE f \in LAERates -> Coalesce(agreed.ulae, read[f])
              [] f = "xol" -> FileDefaults[f]
              [] f \in {"boardsCharge", "lossRatioCap"} -> Coalesce(agreed[f], FileDefaults[f])
              [] OTHER -> Coalesce(agreed[f], read[f])]

\* What createManualITD saves with a baseline entered by hand.
EnteredITD(terms) ==
    Over(RatesOf(terms), [TreatyDefaults EXCEPT !.laeDcc = 0, !.laeAoe = 34])

\* Variant: a treaty's rates always come first.
PopulatedByTreaty(own, terms) ==
    IF terms = None THEN own
    ELSE [f \in RateField |-> Coalesce(terms.rates[f], Coalesce(own[f], TreatyDefaults[f]))]

\* populateWorkbookRates: the workbook's own rates come first, except for LAE,
\* where the treaty's do.
Populated(own, terms) ==
    IF terms = None THEN own
    ELSE [f \in RateField |->
             IF f \in LAERates
               THEN Coalesce(terms.rates[f], Coalesce(own[f], TreatyDefaults[f]))
               ELSE Coalesce(own[f], Coalesce(terms.rates[f], TreatyDefaults[f]))]

\* The LAE reserves and payments go under one heading.
Kind(r) == IF r.laeDcc > 0 THEN "dcc" ELSE IF r.laeAoe > 0 THEN "aoe" ELSE "none"

Under(heading, kind, amount) == IF kind = heading THEN amount ELSE 0

----------------------------------------------------------------------------
\* The ceding values

SourceOf(b) == IF b = 0 THEN "ITD" ELSE source

\* findPreviousWorkbookFor: the baseline for January, else the month before.
Previous(books, b) == IF b = 0 THEN None ELSE books[b - 1]

\* Balances as a statement groups them.
Reserve == {"Loss", "LossIBNR", "DCC", "DCCIBNR", "AOE", "AOEIBNR", "ULAEIBNR"}

Nothing == [x \in Reserve |-> 0]

Stored(column, kind) ==
    LET reserves == column.lae_reserves_dcc + column.lae_reserves_aoe
        ibnr == column.lae_ibnr_dcc + column.lae_ibnr_aoe
    IN  [Loss |-> column.loss_reserves, LossIBNR |-> column.loss_ibnr,
         DCC |-> Under("dcc", kind, reserves), DCCIBNR |-> Under("dcc", kind, ibnr),
         AOE |-> Under("aoe", kind, reserves), AOEIBNR |-> Under("aoe", kind, ibnr),
         ULAEIBNR |-> column.ulae_ibnr]

\* A FUT month never rolled forward: what is unpaid stands for its reserves.
Unpaid(column, kind) ==
    [Nothing EXCEPT !.LossIBNR = column.lu, !.ULAEIBNR = column.aeu,
                    !.DCCIBNR = Under("dcc", kind, column.laeu),
                    !.AOEIBNR = Under("aoe", kind, column.laeu)]

Detailed(exhibit) ==
    \E f \in IBNRField : exhibit.now[f] # 0 \/ exhibit.prior[f] # 0

Opening(books, b, kind) ==
    LET prev == Previous(books, b)
    IN  IF prev # None
          THEN IF SourceOf(b - 1) = "FUT" /\ ~ Detailed(prev)
                 THEN Unpaid(prev.now, kind)
                 ELSE Stored(prev.now, kind)
          ELSE IF SourceOf(b) = "FUT" THEN Nothing ELSE Stored(books[b].now, kind)

OpeningUEP(books, b) ==
    IF Previous(books, b) # None THEN Previous(books, b).now.uep
    ELSE IF SourceOf(b) = "Starlight" THEN books[b].now.tax ELSE 0

HasReserves(exhibit) ==
    exhibit # None /\ \E f \in ReserveField : exhibit.now[f] # 0

\* (0.5 * change in loss reserves + change in loss IBNR) * 0.005
ChangeInULAE(loss, ibnr) == (loss + 2 * ibnr) \div 400

\* How a FUT month's reserves move: unpaid amounts are the case reserves, and IBNR
\* is what the ultimate leaves over.
FutChange(column, opening, earned, rate, kind) ==
    LET lae == column.laeu + column.aeu
        loss == column.lu - opening.Loss
        dcc == Under("dcc", kind, lae) - opening.DCC
        aoe == Under("aoe", kind, lae) - opening.AOE
        ibnr == Share(earned, rate.lossPick) - Whole(column.lp + loss)
    IN  [Loss |-> Whole(loss), LossIBNR |-> ibnr,
         DCC |-> Whole(dcc),
         DCCIBNR |-> Share(earned, rate.laeDcc) - Whole(Under("dcc", kind, column.laep) + dcc),
         AOE |-> Whole(aoe),
         AOEIBNR |-> Share(earned, rate.laeAoe) - Whole(Under("aoe", kind, column.laep) + aoe),
         ULAEIBNR |-> ChangeInULAE(Whole(loss), ibnr)]

\* The reserves module, for a month with no reserves of its own or before it.
PickChange(earned, rate, kind) ==
    LET ibnr == Share(earned, rate.lossPick)
    IN  [Nothing EXCEPT !.LossIBNR = ibnr, !.ULAEIBNR = ChangeInULAE(0, ibnr),
                        !.DCCIBNR = Under("dcc", kind, Share(earned, rate.laeDcc)),
                        !.AOEIBNR = Under("aoe", kind, Share(earned, rate.laeAoe))]

Rests(books, b) == HasReserves(books[b]) \/ HasReserves(Previous(books, b))

Change(books, b, earned, rate, kind) ==
    LET column == books[b].now
        opening == Opening(books, b, kind)
    IN  CASE SourceOf(b) = "FUT" -> FutChange(column, opening, earned, rate, kind)
          [] SourceOf(b) # "FUT" /\ Rests(books, b) ->
               [x \in Reserve |-> Whole(Stored(column, kind)[x] - opening[x])]
          [] OTHER -> PickChange(earned, rate, kind)

Flat(terms) == terms # None /\ terms.ulae # "percentage"

\* ULAE paid: a share of written premium, unless the treaty sets it flat.
ULAEPaid(books, b, earned, rate, terms) ==
    LET column == books[b].now
        byReserves == SourceOf(b) # "FUT" /\ ~ Rests(books, b)
        base == IF terms.ulae = "unearned_premium" THEN column.uep ELSE earned
    IN  CASE byReserves \/ ~ Flat(terms) -> Share(column.pw, rate.ulae)
          [] ~ byReserves /\ Flat(terms) ->
               IF terms.flat > 0 THEN Whole(terms.flat) ELSE Share(base, rate.ulae)

\* calculateCedingValues: own are the workbook's rates as a read leaves them, terms
\* the treaty handed over, or None.
CedingValues(books, b, own, terms) ==
    LET column == books[b].now
        rate == Over(own, StatementDefaults)
        kind == Kind(rate)
        changeUEP == OpeningUEP(books, b) - column.uep
        earned == column.pw + changeUEP
        lae == column.laep + IF SourceOf(b) = "FUT" THEN 0 ELSE column.ae_paid
    IN  [premiumWritten |-> Whole(column.pw),
         changeUEP |-> Whole(changeUEP),
         cedingCommission |-> Share(column.pw, rate.comm),
         lossesPaid |-> Whole(column.lp),
         dccPaid |-> Whole(Under("dcc", kind, lae)),
         aoePaid |-> Whole(Under("aoe", kind, lae)),
         ulaePaid |-> ULAEPaid(books, b, earned, rate, terms),
         change |-> Change(books, b, earned, rate, kind),
         boardsCharge |-> Share(column.pw, rate.boardsCharge),
         boardsUEP |-> Share(changeUEP, rate.boardsCharge),
         lossRatioCap |-> Share(column.pw, rate.lossRatioCap),
         lossRatioCapUEP |-> Share(changeUEP, rate.lossRatioCap),
         frontingFee |-> Share(column.pw, 50),
         frontingFeeUEP |-> Share(changeUEP, 50)]

\* Totals of the statement.
Incurred(v) == SumOver(v.change, Reserve) + v.lossesPaid + v.dccPaid + v.aoePaid + v.ulaePaid

PaidOut(v) == v.cedingCommission + v.lossesPaid + v.dccPaid + v.aoePaid + v.ulaePaid

NetSettlementFuturistic(v) == v.premiumWritten - PaidOut(v)

NetSettlement(v) == NetSettlementFuturistic(v) - v.boardsCharge - v.lossRatioCap

OtherExpenses(v) == v.boardsCharge + v.boardsUEP + v.lossRatioCap + v.lossRatioCapUEP

TotalProfit(v) ==
    v.premiumWritten + v.changeUEP - v.cedingCommission - Incurred(v) - OtherExpenses(v)

\* lossLAEReserves: what is carried in and what the month adds.
LossLAEReserves(books, b, own) ==
    LET kind == Kind(Over(own, StatementDefaults))
    IN  Whole(SumOver(Opening(books, b, kind), Reserve))
          + SumOver(CedingValues(books, b, own, None).change, Reserve)

\* Premiums collected, or written if none are entered.
Collected(column) == IF column.pc # 0 THEN column.pc ELSE column.pw

\* Variant: commission is due on premiums written.
CashBalanceOnWritten(column, own) ==
    LET rate == Over(own, CashDefaults)
        pc == Collected(column)
    IN  Whole(pc) - Share(column.pw, rate.comm)
          - Whole(column.lp + column.laep + column.ae_paid)
          - Share(column.pw, rate.boardsCharge) - Share(column.pw, rate.xol)
          - Share(column.pw, rate.lossRatioCap)

\* getCashSettlementCalculations: reins_total_balance_due, the whole being ceded and
\* no policy fees charged.
CashBalance(column, own) ==
    LET rate == Over(own, CashDefaults)
        pc == Collected(column)
    IN  Whole(pc) - Share(pc, rate.comm) - Whole(column.lp + column.laep + column.ae_paid)
          - Share(column.pw, rate.boardsCharge) - Share(column.pw, rate.xol)
          - Share(column.pw, rate.lossRatioCap)

----------------------------------------------------------------------------
\* The general-ledger entries

\* Variant: one row names another account.
DrMisplaced(account, figure) ==
    [account |-> IF figure = "boardsCharge" THEN "243200" ELSE account, sign |-> 1,
     figure |-> figure]

Dr(account, figure) == [account |-> account, sign |-> 1, figure |-> figure]

\* Variant: one row is on the wrong side.
CrSlipped(account, figure) ==
    [account |-> account, sign |-> IF figure = "boardsUEP" THEN 1 ELSE -1, figure |-> figure]

Cr(account, figure) == [account |-> account, sign |-> -1, figure |-> figure]

\* GL_MAPPING_SCHEMA_TEMPLATE, row by row.
PremiumRows ==
    <<Dr("120100", "premiumWritten"), Cr("400100", "premiumWritten"),
      Cr("411100", "changeUEP"), Dr("230100", "changeUEP"),
      Dr("400300", "premiumWritten"), Cr("243100", "premiumWritten"),
      Cr("230300", "changeUEP"), Dr("411300", "changeUEP"),
      Dr("500100", "cedingCommission"), Cr("120100", "cedingCommission"),
      Dr("243100", "cedingCommission"), Cr("500300", "cedingCommission")>>

LossRows ==
    <<Dr("600100", "lossesPaid"), Cr("264400", "lossesPaid"),
      Dr("125100", "lossesPaid"), Cr("600300", "lossesPaid"),
      Dr("550100", "Loss"), Cr("200100", "Loss"), Dr("200300", "Loss"), Cr("550300", "Loss"),
      Dr("550400", "LossIBNR"), Cr("200400", "LossIBNR"),
      Dr("200600", "LossIBNR"), Cr("550600", "LossIBNR")>>

DCCRows ==
    <<Dr("601100", "dccPaid"), Cr("264400", "dccPaid"),
      Dr("125100", "dccPaid"), Cr("601300", "dccPaid"),
      Dr("557100", "DCC"), Cr("207100", "DCC"), Dr("207300", "DCC"), Cr("557300", "DCC"),
      Dr("557400", "DCCIBNR"), Cr("207400", "DCCIBNR"),
      Dr("207600", "DCCIBNR"), Cr("557600", "DCCIBNR")>>

AOERows ==
    <<Dr("602100", "aoePaid"), Cr("264400", "aoePaid"),
      Dr("125100", "aoePaid"), Cr("602300", "aoePaid"),
      Dr("558100", "AOE"), Cr("208100", "AOE"), Dr("208300", "AOE"), Cr("558300", "AOE"),
      Dr("558400", "AOEIBNR"), Cr("208400", "AOEIBNR"),
      Dr("208600", "AOEIBNR"), Cr("558600", "AOEIBNR")>>

ULAERows ==
    <<Dr("603100", "ulaePaid"), Cr("264400", "ulaePaid"),
      Dr("125100", "ulaePaid"), Cr("603300", "ulaePaid"),
      Dr("559400", "ULAEIBNR"), Cr("209400", "ULAEIBNR"),
      Dr("209600", "ULAEIBNR"), Cr("559600", "ULAEIBNR")>>

FeeRows ==
    <<Dr("127100", "boardsCharge"), Cr("500300", "boardsCharge"),
      Cr("500300", "boardsUEP"), Dr("243200", "boardsUEP"),
      Dr("243100", "lossRatioCap"), Cr("500300", "lossRatioCap"),
      Cr("500300", "lossRatioCapUEP"), Dr("243200", "lossRatioCapUEP"),
      Dr("160400", "frontingFee"), Cr("500110", "frontingFee"),
      Cr("500110", "frontingFeeUEP"), Dr("243200", "frontingFeeUEP")>>

Template == PremiumRows \o LossRows \o DCCRows \o AOERows \o ULAERows \o FeeRows

TemplateRow == DOMAIN Template

Figure(values, i) ==
    LET row == Template[i]
    IN  row.sign * IF row.figure \in Reserve THEN values.change[row.figure]
                                             ELSE values[row.figure]

\* getGLJournalEntries: one amount a row, debits positive.  A row of nothing is left
\* out of the answer, here it is zero.
Entries(values) == [i \in TemplateRow |-> Cents(Figure(values, i))]

\* The figures generated are those of the workbook's rates alone: the treaty is not
\* handed over.
GLValues(books, b, own) == CedingValues(books, b, own, None)

----------------------------------------------------------------------------
\* The roll-forward

\* Variant: the two are asked in the other order.
CarriedUnpaid(prev, field, unpaid) ==
    IF prev = None THEN 0
    ELSE IF prev.now[unpaid] # 0 THEN prev.now[unpaid] ELSE prev.now[field]

\* getPrevYTD(ibnr) || getPrevYTD(unpaid)
CarriedOver(prev, field, unpaid) ==
    IF prev = None THEN 0
    ELSE IF prev.now[field] # 0 THEN prev.now[field] ELSE prev.now[unpaid]

CarriedAlone(prev, field) == IF prev = None THEN 0 ELSE prev.now[field]

\* Opening IBNR, in the column of prior values.
Prior(prev) ==
    [loss_ibnr |-> CarriedOver(prev, "loss_ibnr", "lu"),
     lae_ibnr_dcc |-> CarriedOver(prev, "lae_ibnr_dcc", "laeu"),
     lae_ibnr_aoe |-> CarriedAlone(prev, "lae_ibnr_aoe"),
     ulae_ibnr |-> CarriedOver(prev, "ulae_ibnr", "aeu")]

\* Closing reserves: those of the heading that is not in use are stored as zero.
Closing(column, prev, own) ==
    LET rate == Over(own, StatementDefaults)
        kind == Kind(rate)
        earned == column.pw + CarriedAlone(prev, "uep") - column.uep
        opening == [Loss |-> CarriedAlone(prev, "loss_reserves"),
                    DCC |-> CarriedAlone(prev, "lae_reserves_dcc"),
                    AOE |-> CarriedAlone(prev, "lae_reserves_aoe")]
        change == FutChange(column, opening, earned, rate, kind)
        After(field, moved) == Fixed(Whole(Prior(prev)[field]) + moved)
    IN  [loss_reserves |-> column.lu,
         lae_reserves_dcc |-> Under("dcc", kind, column.laeu + column.aeu),
         lae_reserves_aoe |-> Under("aoe", kind, column.laeu + column.aeu),
         loss_ibnr |-> After("loss_ibnr", change.LossIBNR),
         lae_ibnr_dcc |-> Under("dcc", kind, After("lae_ibnr_dcc", change.DCCIBNR)),
         lae_ibnr_aoe |-> Under("aoe", kind, After("lae_ibnr_aoe", change.AOEIBNR)),
         ulae_ibnr |-> After("ulae_ibnr", change.ULAEIBNR)]

\* recalculateExhibit, at the rates a read leaves in the workbook.
RolledForward(books, b, own) ==
    LET column == books[b].now
        prev == Previous(books, b)
        closing == Closing(column, prev, own)
    IN  [now |-> [f \in DOMAIN column |->
                     IF f \in ReserveField THEN closing[f] ELSE column[f]],
         prior |-> Prior(prev)]

\* findOne rolls a FUT month forward, and only that month.
Refreshed(books, b, own) ==
    IF SourceOf(b) = "FUT" THEN [books EXCEPT ![b] = RolledForward(books, b, own)] ELSE books

----------------------------------------------------------------------------
OnFile == {b \in Workbook : exhibits[b] # None}

AsFiled(column) == [now |-> column, prior |-> [f \in IBNRField |-> 0]]

\* The rates findOne leaves in a workbook it has read.
Found(b) == Populated(rates[b], treaty)

\* The baseline, if there is one, was uploaded or entered by hand.
StatementInit ==
    /\ source \in {"FUT", "Starlight"}
    /\ treaty \in Treaties \cup {None}
    /\ \E column \in Baselines \cup {None} :
           exhibits = [b \in Workbook |-> IF b = 0 /\ column # None THEN AsFiled(column)
                                                                  ELSE None]
    /\ \E own \in {FiledFUT(sheet, treaty) : sheet \in SheetRates} \cup {EnteredITD(treaty)} :
           rates = [b \in Workbook |-> IF b = 0 /\ 0 \in OnFile THEN own ELSE RatesOf(None)]
    /\ posted = [b \in Workbook |-> None]
    /\ edits = 0

Edit == edits < MaxEdits /\ edits' = edits + 1

\* Months are uploaded in order, and the answer reads the one uploaded.
Upload(m, column, own) ==
    /\ m > 1 => m - 1 \in OnFile
    /\ m \notin OnFile
    /\ rates' = [rates EXCEPT ![m] = own]
    /\ exhibits' = Refreshed([exhibits EXCEPT ![m] = AsFiled(column)], m, Populated(own, treaty))
    /\ UNCHANGED <<source, treaty, posted, edits>>

\* parseFUTWorkbook
UploadFUT(m, column, sheet) == source = "FUT" /\ Upload(m, column, FiledFUT(sheet, treaty))

\* parseStarlightWorkbook
UploadStarlight(m, column, sheet) ==
    source = "Starlight" /\ Upload(m, column, FiledStarlight(sheet, treaty))

\* getReinsuranceStatement, getGLJournalEntries, getCashSettlementCalculations
ReadBook(b) ==
    /\ b \in OnFile
    /\ exhibits' = Refreshed(exhibits, b, Found(b))
    /\ UNCHANGED <<source, rates, treaty, posted, edits>>

\* updateExhibit: what the client sends of the reserves of a FUT month is rolled over.
UpdateExhibit(b, column) ==
    /\ b \in OnFile
    /\ Edit
    /\ LET read == Refreshed(exhibits, b, Found(b))
       IN  exhibits' = Refreshed([read EXCEPT ![b].now = column], b, Found(b))
    /\ UNCHANGED <<source, rates, treaty, posted>>

\* updateRates: the rates read are saved with those sent, and the month rolled at
\* what a further read makes of them.
UpdateRates(b, sent) ==
    LET saved == [f \in RateField |-> Coalesce(sent[f], Found(b)[f])]
    IN  /\ b \in OnFile
        /\ Edit
        /\ rates' = [rates EXCEPT ![b] = saved]
        /\ exhibits' = Refreshed(exhibits, b, Populated(saved, treaty))
        /\ UNCHANGED <<source, treaty, posted>>

\* updateStatus, updateMappings: the whole row is saved as read, its rates too.
SaveRow(b) ==
    /\ b \in OnFile
    /\ rates' = [rates EXCEPT ![b] = Found(b)]
    /\ exhibits' = Refreshed(exhibits, b, Found(b))
    /\ UNCHANGED <<source, treaty, posted, edits>>

SetTreaty(terms) ==
    /\ Edit
    /\ treaty' = terms
    /\ UNCHANGED <<source, exhibits, rates, posted>>

CreateTreaty(terms) == treaty = None /\ SetTreaty(terms)

\* updateTreaty: what is not sent stays, so no rate is taken away.
AmendTreaty(terms) ==
    /\ treaty # None
    /\ \A f \in RateField : treaty.rates[f] # Null => terms.rates[f] # Null
    /\ SetTreaty(terms)

DeleteTreaty == treaty # None /\ SetTreaty(None)

\* postToJournalEntries without rows of the client's: refused if there are none.
\* The status is saved after the entries are generated.
Post(b) ==
    LET read == Refreshed(exhibits, b, Found(b))
        generated == Entries(GLValues(read, b, Found(b)))
    IN  /\ b \in OnFile
        /\ exhibits' = read
        /\ IF \E i \in TemplateRow : generated[i] # 0
             THEN /\ posted' = [posted EXCEPT ![b] = generated]
                  /\ rates' = [rates EXCEPT ![b] = Found(b)]
             ELSE UNCHANGED <<posted, rates>>
        /\ UNCHANGED <<source, treaty, edits>>

StatementNext ==
    \/ \E b \in Workbook : ReadBook(b) \/ SaveRow(b) \/ Post(b)
    \/ \E m \in Month, column \in Sheets, sheet \in SheetRates :
           UploadFUT(m, column, sheet) \/ UploadStarlight(m, column, sheet)
    \/ \E b \in Workbook, column \in Sheets : UpdateExhibit(b, column)
    \/ \E b \in Workbook, sent \in RateEdits : UpdateRates(b, sent)
    \/ \E terms \in Treaties : CreateTreaty(terms) \/ AmendTreaty(terms)
    \/ DeleteTreaty

StatementSpec == StatementInit /\ [][StatementNext]_statementVars

----------------------------------------------------------------------------

StatementTypeOK ==
    /\ source \in {"FUT", "Starlight"}
    /\ \A b \in Workbook : exhibits[b] # None => exhibits[b] \in Exhibit
    /\ rates \in [Workbook -> Rates]
    /\ treaty # None => treaty \in Terms
    /\ posted \in [Workbook -> [TemplateRow -> Int] \cup {None}]
    /\ edits \in 0 .. MaxEdits

RowsOf(accounts) == {i \in TemplateRow : Template[i].account \in accounts}

Net(entries, accounts) == SumOver(entries, RowsOf(accounts))

\* The rows of these accounts whose figure is not a whole number of cents.
Inexact(values, rows) == {i \in rows : Figure(values, i) % Unit # 0}

\* The accounts net to this figure, half a cent aside for each inexact row.
NetsTo(entries, accounts, figure, values) ==
    LET off == 2 * (Whole(Net(entries, accounts)) - figure)
        slack == Unit * Cardinality(Inexact(values, RowsOf(accounts)))
    IN  off \in -slack .. slack

JustPosted(b) == posted'[b] # posted[b]

\* The figures of exactly half a cent.
Halves(values) == {i \in TemplateRow : 2 * (Figure(values, i) % Unit) = Unit}

\* The entries generated for a posting balance, but for figures of exactly half a
\* cent, whose two sides Math.round sends the same way: they may leave the posting a
\* cent apart for each pair of rows, never more and never on the credit side
\* (getGLJournalEntries, no check before or after it is saved).
StatementsBalance ==
    [][\A b \in Workbook : JustPosted(b) =>
          \A off \in {SumOver(posted'[b], TemplateRow)} :
              \/ off = 0
              \/ /\ off > 0
                 /\ \A values \in {GLValues(exhibits', b, rates'[b])} :
                        2 * off <= Cardinality(Halves(values))]_statementVars

Ceded == {"400300", "411300", "500300", "550300", "550600", "557300", "557600", "558300",
          "558600", "559600", "600300", "601300", "602300", "603300"}

\* What a posting puts on the accounts is what the reinsurance statement of the
\* month shows: the balances with the reinsurer its net settlement, those with the
\* managing agent the settlement due from it, and the ceded income its total profit
\* - unless the treaty's ULAE is flat, which the statement sees and the posting does
\* not (getReinsuranceStatement, postToJournalEntries).
SettlementsPosted ==
    [][\A b \in Workbook : JustPosted(b) /\ ~ Flat(treaty') =>
          \A v \in {CedingValues(exhibits', b, Found(b)', treaty')} :
              /\ NetsTo(posted'[b], {"243100", "125100", "127100"}, -NetSettlement(v), v)
              /\ NetsTo(posted'[b], {"120100", "264400"}, NetSettlementFuturistic(v), v)
              /\ NetsTo(posted'[b], Ceded, TotalProfit(v), v)]_statementVars

KindOf(b) == Kind(Over(Found(b), StatementDefaults))

\* Only the heading in use has an LAE rate.
OneKind(b) ==
    LET rate == Over(Found(b), StatementDefaults)
    IN  /\ KindOf(b) # "dcc" => rate.laeDcc = 0
        /\ KindOf(b) # "aoe" => rate.laeAoe = 0

\* Rolling a month forward again changes nothing.
Settled(b) == exhibits[b] = Refreshed(exhibits, b, Found(b))[b]

\* What the roll-forward carries is what the statement does: no LAE reserve is held
\* under the other heading, and no IBNR is zero while losses are unpaid, which the
\* roll-forward would take for it.
CarriedInFull(b) ==
    LET prev == Previous(exhibits, b)
    IN  prev # None =>
            /\ KindOf(b) # "dcc" => prev.now.lae_reserves_dcc = 0 /\ prev.now.lae_ibnr_dcc = 0
            /\ KindOf(b) # "aoe" => prev.now.lae_reserves_aoe = 0 /\ prev.now.lae_ibnr_aoe = 0
            /\ prev.now.loss_ibnr = 0 => prev.now.lu = 0
            /\ prev.now.lae_ibnr_dcc = 0 => prev.now.laeu = 0 \/ KindOf(b) # "dcc"
            /\ prev.now.ulae_ibnr = 0 => prev.now.aeu = 0

\* The month is posted as it stands, and its reserves follow on from the month before.
PostedInChain(b) ==
    /\ posted[b] # None
    /\ posted[b] = Entries(GLValues(exhibits, b, Found(b)))
    /\ KindOf(b) = KindOf(1) /\ OneKind(b)
    /\ IF SourceOf(b) = "FUT" THEN Settled(b) /\ CarriedInFull(b) ELSE Rests(exhibits, b)

Liabilities == {"200100", "200400", "207100", "207400", "208100", "208400", "209400"}

Recoverables == {"200300", "200600", "207300", "207600", "208300", "208600", "209600"}

\* After every month up to this one is posted as it stands, the reserve accounts hold
\* what its statement says is reserved, on top of what the first month carried in,
\* and as much is recoverable from the reinsurer: stored reserves are rounded once a
\* month, and so is every row posted (recalculateFUTReserves rolls them forward,
\* calculateCedingValues works them out again from the month before).
ReservesPosted ==
    \A m \in Month : (\A k \in 1 .. m : k \in OnFile /\ PostedInChain(k)) =>
        LET carriedIn == Whole(SumOver(Opening(exhibits, 1, KindOf(1)), Reserve))
            added == LossLAEReserves(exhibits, m, Found(m)) - carriedIn
            slack == (4 * m - 2) * Unit
            On(accounts) == SumOver([k \in 1 .. m |-> Whole(Net(posted[k], accounts))], 1 .. m)
        IN  /\ -On(Liabilities) - added \in -slack .. slack
            /\ On(Recoverables) - added \in -slack .. slack

\* The cash settlement and the statement of a month, at the same rates, differ by
\* what only one of them takes: ULAE and the excess-of-loss fee, premiums collected
\* beyond those written, and the adjusting expense of a FUT month
\* (getCashSettlementCalculations, calculateCedingValues).
CashAgrees ==
    \A b \in OnFile :
        LET own == Found(b)
            column == exhibits[b].now
            v == CedingValues(exhibits, b, own, treaty)
            rate == Over(own, CashDefaults)
            beyond == Collected(column) - column.pw
            expense == IF SourceOf(b) = "FUT" THEN column.ae_paid ELSE 0
        IN  (KindOf(b) # "none" /\ \A f \in RateField : own[f] # Null) =>
                CashBalance(column, own) =
                    NetSettlement(v) + v.ulaePaid - Share(column.pw, rate.xol)
                      + Whole(beyond) - Share(beyond, rate.comm) - Whole(expense)

LAETerms == IF treaty = None THEN <<Null, Null>>
                               ELSE <<treaty.rates.laeDcc, treaty.rates.laeAoe>>

EnteredFor(b) == IF SourceOf(b) = "FUT"
                   THEN [f \in EnteredField |-> exhibits[b].now[f]]
                   ELSE exhibits[b]

\* Once the workbooks up to a month are settled and have all their rates, the figures
\* posted for it stand: no read, no later month and no amendment of the treaty moves
\* them, short of its LAE rates, which override the workbook's (populateWorkbookRates,
\* saved with the row by updateStatus).
StatementsStand ==
    [][\A b \in OnFile :
          LET chain == {k \in OnFile : k <= b}
          IN  (/\ posted[b] # None
               /\ <<exhibits, Found(b)>>' # <<exhibits, Found(b)>>
               /\ LAETerms' = LAETerms
               /\ \A k \in chain : rates'[k] = rates[k] /\ EnteredFor(k)' = EnteredFor(k)
               /\ \A k \in chain : Settled(k) /\ \A f \in RateField : rates[k][f] # Null) =>
                 GLValues(exhibits', b, Found(b)') = GLValues(exhibits, b, Found(b))]_statementVars
=============================================================================
