------------------------------ MODULE MCProgram ------------------------------
(***************************************************************************)
(* Instances of ReserveChain and CedingStatement, the months of a program, *)
(* for TLC.  The two share no state: a behaviour is of the one or of the   *)
(* other, the other resting as it was at first.                            *)
(***************************************************************************)
EXTENDS ReserveChain, CedingStatement, TLC

----------------------------------------------------------------------------
\* ReserveChain

\* The first state has unpaid losses and no movement, so no IBNR to begin with.
SomeFiled ==
    {[b \in Book |-> [s \in State |->
         [k \in Entered |-> CASE k = "unpaid" -> IF s = 1 THEN 1 ELSE 0
                              [] OTHER -> IF s = 1 THEN 0 ELSE b + 1]]]}

Amounts == {2}

\* Two equal weights leave a cent over.
Headings == {3}

\* Bound: two requests may overlap, a third comes only where none have.
ThirdInTurn == overlap => \E r \in Request : pc[r] = "idle"

Symmetry == Permutations(Request)

----------------------------------------------------------------------------
\* CedingStatement

NoAmounts == [f \in EnteredField \cup ReserveField |-> 0]

\* A month of a growing book: 0.4% of 125 cents is half a cent.
Growing ==
    [NoAmounts EXCEPT !.pw = 1125, !.uep = 400, !.lp = 60, !.laep = 9, !.ae_paid = 4,
                      !.lu = 130, !.laeu = 21, !.aeu = 8, !.tax = 30]

\* A month that runs off, collected ahead, with reserves entered.
RunOff ==
    [NoAmounts EXCEPT !.pw = 250, !.pc = 300, !.uep = 150, !.lp = 155, !.laep = 17,
                      !.lu = 75, !.laeu = 13, !.aeu = 5,
                      !.loss_reserves = 75, !.loss_ibnr = 210, !.lae_ibnr_dcc = 31,
                      !.lae_reserves_aoe = 11, !.ulae_ibnr = 3]

SomeSheets == {Growing, RunOff}

SomeBaselines ==
    {[NoAmounts EXCEPT !.uep = 200, !.lu = 90, !.loss_reserves = 90, !.loss_ibnr = 310,
                       !.lae_reserves_dcc = 20, !.lae_ibnr_dcc = 41, !.ulae_ibnr = 2],
     [NoAmounts EXCEPT !.uep = 200, !.lu = 90, !.loss_reserves = 90]}

FileRates ==
    [comm |-> 320, ulae |-> 10, lossPick |-> 518, laeDcc |-> 62, laeAoe |-> 0,
     boardsCharge |-> 4, lossRatioCap |-> 20, xol |-> 20]

NoRates == [f \in RateField |-> Null]

\* Under a treaty without a loss pick, none is filed.
SomeSheetRates == {[FileRates EXCEPT !.lossPick = Null]}

SomeRateEdits == {[NoRates EXCEPT !.lossPick = 566], [NoRates EXCEPT !.laeDcc = 0, !.laeAoe = 34]}

SomeTreaties ==
    {[rates |-> [NoRates EXCEPT !.comm = 290], ulae |-> "percentage", flat |-> 0],
     [rates |-> [FileRates EXCEPT !.laeDcc = Null, !.laeAoe = Null], ulae |-> "earned_premium",
      flat |-> 40],
     [rates |-> [FileRates EXCEPT !.laeDcc = 0, !.laeAoe = 34], ulae |-> "earned_premium",
      flat |-> 0]}

----------------------------------------------------------------------------

VARIABLE part  \* which of the two a behaviour is of

EitherInit ==
    /\ part \in {"chain", "statement"}
    /\ Init /\ StatementInit
    /\ part = "chain" => source = "FUT" /\ treaty = None /\ OnFile = {}

EitherNext ==
    \/ part = "chain" /\ Next /\ ThirdInTurn' /\ UNCHANGED <<part, statementVars>>
    \/ part = "statement" /\ StatementNext /\ UNCHANGED <<part, vars>>

EitherSpec == EitherInit /\ [][EitherNext]_<<part, vars, statementVars>>
=============================================================================
