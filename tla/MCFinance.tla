----------------------------- MODULE MCFinance -----------------------------
(***************************************************************************)
(* The settings and the page of the expenses in one run: a behaviour is    *)
(* one of the requests on the settings or one of the page, and leaves the  *)
(* other where it starts.                                                  *)
(***************************************************************************)
EXTENDS FinanceSettings, FinancesPage

CONSTANTS c1, c2, r1, r2

VARIABLE part

TwoCategories == {c1, c2}
OneCategory   == {c1}
TwoRequests   == {r1, r2}

\* The user types while nothing is under way.
Resting == {"idle"}

financeVars == <<part, vars, pageVars>>

FinanceInit ==
    /\ part \in {"settings", "page"}
    /\ Init
    /\ PageInit
    /\ part = "settings" => stored = << >>

FinanceNext ==
    \/ part = "settings" /\ Next /\ UNCHANGED <<part, pageVars>>
    \/ part = "page" /\ PageNext /\ UNCHANGED <<part, vars>>

FairFinance == FinanceInit /\ [][FinanceNext]_financeVars /\ Fairness
=============================================================================
