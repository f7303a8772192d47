--------------------------- MODULE MCFinancesPage ---------------------------
(***************************************************************************)
(* Constants of the TLC run of FinancesPage alone.                         *)
(***************************************************************************)
EXTENDS FinancesPage

CONSTANTS c1, c2

TwoCategories == {c1, c2}
=============================================================================
