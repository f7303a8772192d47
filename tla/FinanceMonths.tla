--------------------------- MODULE FinanceMonths ---------------------------
(***************************************************************************)
(* The months of a year as the finance service stores and adds them up:    *)
(* expenses by category and income, from the decimal text of a request to  *)
(* the 64-bit amount in the row and back.                                  *)
(*                                                                         *)
(* Base is ten and Max63 2^63 - 1 in the code.  The arithmetic is written  *)
(* for any base and range, so that the sums reach the end of the range.    *)
(***************************************************************************)
EXTENDS Integers, Sequences, FiniteSets, FiniteSetsExt

CONSTANTS
    Base,
    Max63,          \* the largest amount
    MonthNumbers,   \* the months that are saved
    Categories,     \* of expenses
    Spending,       \* those that count as spending, not as savings
    ExpenseInputs,  \* requests: the text of each category that is sent
    IncomeInputs,   \* requests: the texts of salary, bonus and total
    Missing         \* no row

VARIABLES
    expenses,   \* finance_monthly_expense_actuals, by month
    income      \* finance_monthly_income_actuals, by month

monthVars == <<expenses, income>>

\* ----------------------------- amounts, texts -----------------------------

\* A text is signed or not and has digits before and after a dot; whole is
\* Missing when there is none before it.
Text(whole, fraction) == [signed |-> FALSE, whole |-> whole, fraction |-> fraction]
Hundred == Base * Base
NotAnAmount == -1

Texts == [signed : BOOLEAN, whole : Nat \cup {Missing}, fraction : Seq(0..Base - 1)]

ASSUME MonthsAssumption ==
    /\ Base \in Nat \ {0, 1}
    /\ Max63 \in Nat
    /\ IsFiniteSet(MonthNumbers) /\ IsFiniteSet(Categories)
    /\ Spending \subseteq Categories
    /\ \A texts \in ExpenseInputs :
         /\ DOMAIN texts \subseteq Categories
         /\ \A c \in DOMAIN texts : texts[c] \in Texts
    /\ \A texts \in IncomeInputs :
         /\ DOMAIN texts = {"salary", "bonus", "total"}
         /\ \A f \in DOMAIN texts : texts[f] \in Texts
    /\ Missing \notin Int /\ Missing \notin [Categories -> 0..Max63]
    /\ Missing \notin [salary : 0..Max63, bonus : 0..Max63, total : 0..Max63]

\* Variant: "1.5" is read as "1.05".
Unpadded(text) ==
    LET f == text.fraction
    IN  IF text.signed \/ text.whole = Missing \/ Len(f) > 2 THEN NotAnAmount
        ELSE text.whole * Hundred + (CASE Len(f) = 0 -> 0
                                       [] Len(f) = 1 -> f[1]
                                       [] OTHER      -> f[1] * Base + f[2])

\* ParseMoney and ParsePercent, which do the same.
ParseMoney(text) ==
    LET f == text.fraction
        fraction == CASE Len(f) = 0 -> 0
                      [] Len(f) = 1 -> f[1] * Base
                      [] OTHER      -> f[1] * Base + f[2]
        kopecks == text.whole * Hundred + fraction
    IN  IF text.signed \/ text.whole = Missing \/ Len(f) > 2 THEN NotAnAmount
        ELSE IF kopecks > Max63 THEN NotAnAmount
        ELSE kopecks

\* decimalInputToMinorUnits of the web page: no end of the range.
DecimalInputToMinorUnits(text) ==
    IF text.signed \/ text.whole = Missing \/ Len(text.fraction) > 2 THEN NotAnAmount
    ELSE LET padded == text.fraction \o [i \in 1..2 - Len(text.fraction) |-> 0]
         IN  text.whole * Hundred + padded[1] * Base + padded[2]

\* Variant: "1.05" is written as "1.5".
ShortDecimal(kopecks) ==
    LET cents == kopecks % Hundred
    IN  Text(kopecks \div Hundred, IF cents < Base THEN <<cents>> ELSE <<cents \div Base, cents % Base>>)

\* An amount with two digits after the dot.
Decimal(kopecks) == Text(kopecks \div Hundred, <<(kopecks % Hundred) \div Base, kopecks % Base>>)

\* Sums wrap around.
Modulus == 2 * (Max63 + 1)
Add(a, b) == ((a + b + Max63 + 1) % Modulus) - Max63 - 1
AddUp(amounts) == FoldFunction(Add, 0, amounts)

\* Variant: half a kopeck is dropped.
HalfDown(total, count) ==
    IF count <= 0 \/ total <= 0 THEN 0
    ELSE IF (total % count) * 2 > count THEN total \div count + 1 ELSE total \div count

\* Division of Go: towards zero.
AverageMoney(total, count) ==
    LET size == IF total < 0 THEN -total ELSE total
        quotient == IF total < 0 THEN -(size \div count) ELSE size \div count
        remainder == IF total < 0 THEN -(size % count) ELSE size % count
    IN  IF count <= 0 \/ total = 0 THEN 0
        ELSE IF remainder * 2 >= count THEN quotient + 1 ELSE quotient

\* -------------------------------- the months ------------------------------

NoExpenses == [c \in Categories |-> 0]
NoIncome   == [salary |-> 0, bonus |-> 0, total |-> 0]

NewMonthlyExpenseActual(amounts) ==
    [c \in Categories |-> IF c \in DOMAIN amounts THEN amounts[c] ELSE 0]

\* A month of expenses is zero when its total is.
ExpenseIsZero(actual) == AddUp(actual) = 0
IncomeIsZero(actual)  == actual = NoIncome

Refused(amounts) == \E f \in DOMAIN amounts : amounts[f] = NotAnAmount
Parsed(texts) == [f \in DOMAIN texts |-> ParseMoney(texts[f])]

UpsertExpense(month, actual) == expenses' = [expenses EXCEPT ![month] = actual]
DeleteExpense(month)         == expenses' = [expenses EXCEPT ![month] = Missing]
UpsertIncome(month, actual)  == income' = [income EXCEPT ![month] = actual]
DeleteIncome(month)          == income' = [income EXCEPT ![month] = Missing]

SaveExpense(month, texts) ==
    LET actual == NewMonthlyExpenseActual(Parsed(texts))
    IN  /\ ~ Refused(Parsed(texts))
        /\ IF ExpenseIsZero(actual) THEN DeleteExpense(month) ELSE UpsertExpense(month, actual)
        /\ UNCHANGED income

SaveIncome(month, texts) ==
    LET actual == Parsed(texts)
    IN  /\ ~ Refused(actual)
        /\ IF IncomeIsZero(actual) THEN DeleteIncome(month) ELSE UpsertIncome(month, actual)
        /\ UNCHANGED expenses

\* A text that is not an amount is answered with a validation error.
RefuseMonth(texts) == Refused(Parsed(texts)) /\ UNCHANGED monthVars

\* What the two lists show.
ExpenseOf(month) == IF expenses[month] = Missing THEN NoExpenses ELSE expenses[month]
IncomeOf(month)  == IF income[month] = Missing THEN NoIncome ELSE income[month]

ListExpenses ==
    LET of(m) == ExpenseOf(m)
        spent(m) == [c \in Spending |-> of(m)[c]]
    IN  [annual     |-> AddUp([m \in MonthNumbers |-> AddUp(of(m))]),
         spending   |-> AddUp([m \in MonthNumbers |-> AddUp(spent(m))]),
         byCategory |-> [c \in Categories |-> AddUp([m \in MonthNumbers |-> of(m)[c]])]]

ListIncome ==
    LET total == AddUp([m \in MonthNumbers |-> IncomeOf(m).total])
        filled == {m \in MonthNumbers : ~ IncomeIsZero(IncomeOf(m))}
    IN  [annual |-> total, average |-> AverageMoney(total, Cardinality(filled))]

MonthsInit == /\ expenses = [m \in MonthNumbers |-> Missing]
              /\ income = [m \in MonthNumbers |-> Missing]

MonthsNext ==
    \/ \E m \in MonthNumbers, texts \in ExpenseInputs : SaveExpense(m, texts)
    \/ \E m \in MonthNumbers, texts \in IncomeInputs : SaveIncome(m, texts)
    \/ \E texts \in ExpenseInputs \cup IncomeInputs : RefuseMonth(texts)

MonthsSpec == MonthsInit /\ [][MonthsNext]_monthVars

\* ------------------------------- properties -------------------------------

\* Every amount that is stored is in range.
MonthsTypeOK ==
    \A m \in MonthNumbers :
        /\ \A c \in Categories : ExpenseOf(m)[c] \in 0..Max63
        /\ \A f \in {"salary", "bonus", "total"} : IncomeOf(m)[f] \in 0..Max63

\* The server and the page read an amount that is shown as the one that was typed.
ReadsAs(amount, typed) ==
    /\ DecimalInputToMinorUnits(Decimal(amount)) = typed
    /\ ParseMoney(Decimal(amount)) = typed

\* The one month that is lost is one whose amounts add up to a multiple of the range,
\* which is taken for empty.
ExpenseStored(m) ==
    expenses' # expenses => \A texts \in ExpenseInputs : SaveExpense(m, texts) =>
        LET typed == [c \in DOMAIN texts |-> DecimalInputToMinorUnits(texts[c])]
            sum == FoldFunction(+, 0, typed)
        IN  IF sum > 0 /\ sum % Modulus = 0 THEN ExpenseOf(m)' = NoExpenses
            ELSE \A c \in Categories :
                    ReadsAs(ExpenseOf(m)'[c], IF c \in DOMAIN typed THEN typed[c] ELSE 0)

IncomeStored(m) ==
    income' # income => \A texts \in IncomeInputs : SaveIncome(m, texts) =>
        \A f \in DOMAIN texts :
            ReadsAs(IncomeOf(m)'[f], DecimalInputToMinorUnits(texts[f]))

\* A save stores what was typed, and the lists show it so that it can be sent back.
TypedIsStored ==
    [][\A m \in MonthNumbers : ExpenseStored(m) /\ IncomeStored(m)]_monthVars

Sum(f) == FoldFunction(+, 0, f)

\* The totals of a year agree with each other and, as long as the sum is in range,
\* with the amounts: the annual total is that of the months and of the categories,
\* and the average is rounded half up over the months that have any income.
TotalsAgree ==
    LET listed == ListExpenses
        earned == [m \in MonthNumbers |-> IncomeOf(m).total]
        filled == Cardinality({m \in MonthNumbers : income[m] # Missing})
        slip   == 2 * (ListIncome.average * filled - Sum(earned))
    IN  /\ listed.annual = AddUp(listed.byCategory)
        /\ listed.spending = AddUp([c \in Spending |-> listed.byCategory[c]])
        /\ Sum(earned) <= Max63 => /\ ListIncome.annual = Sum(earned)
                                   /\ -filled < slip \/ filled = 0
                                   /\ slip <= filled
=============================================================================
