---------------------------- MODULE SettingsStore ----------------------------
(***************************************************************************)
(* What the finance settings promise: one value, replaced as a whole.      *)
(*                                                                         *)
(* This is the abstract specification of SaveFinanceSettings, which writes *)
(* one row of finance_settings and several of finance_expense_limit_       *)
(* settings.  FinanceSettings is shown to implement it.                    *)
(***************************************************************************)
EXTENDS Integers, Functions

CONSTANTS
    Category,   \* the expense categories
    Whole,      \* a hundred percent
    MaxSaves    \* bound on the number of saves

VARIABLES
    income,     \* the salary and the bonus: the number of the save they are from
    limits      \* the limits, by category; categories without one are left out

vars == <<income, limits>>

\* Limits are given for some categories, are not zero and use up the salary,
\* unless there are none.
Limits ==
    {f \in UNION {[C -> 1 .. Whole] : C \in SUBSET Category} :
        FoldFunction(+, 0, f) \in {0, Whole}}

Init == income = 0 /\ limits = << >>

Save(n, f) ==
    /\ n > income
    /\ income' = n
    /\ limits' = f

Next == \E n \in 1 .. MaxSaves, f \in Limits : Save(n, f)

Spec == Init /\ [][Next]_vars

=============================================================================
