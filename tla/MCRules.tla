------------------------------ MODULE MCRules ------------------------------
(***************************************************************************)
(* The modules of rules that act on a single row or list, in one run: a    *)
(* behaviour is one of the schedule of a task, of the list of tasks or of  *)
(* the months of a year, and leaves the other two where they start.        *)
(***************************************************************************)
EXTENDS TaskSchedule, TaskFilter, FinanceMonths, TLC

VARIABLE part

rulesVars == <<part, scheduleVars, filterVars, monthVars>>

RulesInit ==
    /\ part \in {"schedule", "filter", "months"}
    /\ ScheduleInit /\ (part # "schedule" => offset = 0)
    /\ FilterInit
    /\ MonthsInit

RulesNext ==
    \/ part = "schedule" /\ ScheduleNext /\ UNCHANGED <<part, filterVars, monthVars>>
    \/ part = "filter"   /\ FilterNext   /\ UNCHANGED <<part, scheduleVars, monthVars>>
    \/ part = "months"   /\ MonthsNext   /\ UNCHANGED <<part, scheduleVars, filterVars>>

RulesSpec == RulesInit /\ [][RulesNext]_rulesVars

\* The rows, the clock and the amounts are typed, and the row of the task satisfies
\* the constraints of its table.
RulesTypeOK == ScheduleTypeOK /\ FilterTypeOK /\ MonthsTypeOK

\* ------------------------- the schedule of a task -------------------------

\* 31 January and 29 February 2024: a day that the next month lacks, and one that
\* the next year lacks.
TwoDays == {30, 59}

\* West of Greenwich, at it, and east of it.
ThreeOffsets == {-5, 0, 3}

\* The second is wider than its column; 1 is what a request that names none gets.
SomeIntervals == {2, 4}

\* ---------------------------- the list of tasks ---------------------------

PlainTask ==
    [project |-> None, status |-> "todo", due |-> None, time |-> None, flagged |-> FALSE,
     priority |-> "none", created |-> 1, title |-> 1, text |-> "none"]

BaseTasks == {PlainTask, [PlainTask EXCEPT !.due = 1, !.time = 1],
              [PlainTask EXCEPT !.status = "done", !.project = "home"]}

\* Tasks that differ from one of those in one respect.
SomeTasks == BaseTasks \cup UNION {
    UNION {{[t EXCEPT !.project = p] : p \in {None, "home", "old"}},
           {[t EXCEPT !.status = s] : s \in {"todo", "in_progress", "done"}},
           {[t EXCEPT !.due = d, !.time = None] : d \in 0..2},
           {[t EXCEPT !.due = 1, !.time = m] : m \in 0..1},
           {[t EXCEPT !.priority = p] : p \in {"low", "medium", "high"}},
           {[t EXCEPT !.text = x] : x \in {"word", "wild", "resembles", "escaped", "unescaped"}},
           {[t EXCEPT !.flagged = TRUE], [t EXCEPT !.created = 2], [t EXCEPT !.title = 2]}}
    : t \in BaseTasks}

\* --------------------------- the months of a year -------------------------

\* Amounts of base two from 0 to 7: nothing, two kopecks, the largest.
ZeroText == Text(0, <<>>)
TwoText  == Text(0, <<1>>)
MostText == Text(1, <<1, 1>>)

\* No digit before the dot, out of range, too many digits, a sign.
BadTexts == {Text(Missing, <<1>>), Text(2, <<>>), Text(0, <<0, 0, 1>>),
             [ZeroText EXCEPT !.signed = TRUE]}

\* The third adds up to more than the largest amount, the fourth to twice its range.
SomeExpenses ==
    {[c \in {} |-> ZeroText],
     [food |-> TwoText],
     [food |-> MostText, fun |-> MostText],
     [food |-> MostText, fun |-> MostText, funds |-> TwoText]}
    \cup {[food |-> x] : x \in BadTexts}

\* A month of which only the salary is known counts for the average as well.
SomeIncome ==
    {[salary |-> ZeroText, bonus |-> ZeroText, total |-> ZeroText],
     [salary |-> Text(0, <<0, 1>>), bonus |-> ZeroText, total |-> ZeroText],
     [salary |-> ZeroText, bonus |-> TwoText, total |-> TwoText],
     [salary |-> ZeroText, bonus |-> ZeroText, total |-> MostText]}
    \cup {[salary |-> ZeroText, bonus |-> x, total |-> ZeroText] : x \in BadTexts}
=============================================================================
