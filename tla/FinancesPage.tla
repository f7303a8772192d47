---------------------------- MODULE FinancesPage ----------------------------
(***************************************************************************)
(* The table of monthly expenses on the page FinancesPage.tsx and its rows *)
(* in finance_monthly_expense_actuals: one year, one page that edits it.   *)
(*                                                                         *)
(* The page asks for the year when it is opened.  Its button for saving is *)
(* not disabled until the answer comes, and a page that has no answer yet  *)
(* takes every amount for zero.                                            *)
(*                                                                         *)
(* Saving is a loop over the months, one request after the other.  The     *)
(* page sends those categories of a month whose text differs from what was *)
(* loaded; the server stores the month as a whole, with zero for every     *)
(* category that was not sent, and keeps no row for a month of zeros.      *)
(***************************************************************************)
EXTENDS Integers

CONSTANTS
    Months,     \* the number of months
    Categories,   \* the expense categories
    MaxAmount,  \* bound on the amounts
    Typing,     \* the stages of the page in which the user types
    Touched,    \* the categories of the cells in which the user types
    Blank,      \* the text of an empty cell
    Bad         \* a text that the server refuses

\* No save under way, its loop, a request of it, the load that follows.
Stage == {"idle", "saving", "sent", "loading"}

ASSUME PageAssumption ==
    /\ Months \in Nat \ {0}
    /\ MaxAmount \in Nat
    /\ Typing \subseteq Stage
    /\ Touched \subseteq Categories
    /\ Blank \notin Int /\ Bad \notin Int

VARIABLES
    stored,     \* the rows of the table, by month
    page        \* the state of the page

pageVars == <<stored, page>>

Month  == 1 .. Months
Amount == 0 .. MaxAmount
Row    == [Categories -> Amount]
Zero   == [c \in Categories |-> 0]
Zeros  == [m \in Month |-> Zero]

\* An amount that is typed or shown stands for every way to write it.
Text == Amount \cup {Blank, Bad}

\* A save works on what the page held when the button was pressed: base and draft.
Page ==
    [pc      : Stage,
     loaded  : [Month -> Row],                     \* as the server has answered
     grid    : [Month -> [Categories -> Text]],    \* as it is shown and edited
     base    : [Month -> Row],                     \* of a save: what was loaded,
     draft   : [Month -> [Categories -> Text]],    \* the grid,
     before  : [Month -> Row],                     \* and, as history, the table
     month   : 0 .. Months,                        \* where its loop is
     error   : BOOLEAN,                            \* an error is shown
     opening : {"asked", "answered", "over"},      \* the load at the opening of the page
     answer  : [Month -> Row],                     \* what it will bring
     early   : BOOLEAN]                            \* Save was pressed during it, and
                                                   \* nothing has been loaded since

-----------------------------------------------------------------------------
(* The server *)

\* Variant: a month of zeros is stored as well.
AlwaysKept(row) == TRUE

\* SaveExpense keeps a row unless every amount is zero.
Kept(row) == row # Zero

\* ListExpenses: months without a row are months of zeros.
Year == [m \in Month |-> IF m \in DOMAIN stored THEN stored[m] ELSE Zero]

RefusedPayload(payload) == \E c \in DOMAIN payload : payload[c] = Bad

\* Variant: a category that is sent as zero keeps its amount.
ZeroIgnored(payload, old) ==
    [c \in Categories |-> IF c \in DOMAIN payload /\ payload[c] # 0 THEN payload[c] ELSE old[c]]

\* The row that replaces the old one: categories that were not sent are zero.
Replacement(payload, old) ==
    [c \in Categories |-> IF c \in DOMAIN payload THEN payload[c] ELSE 0]

SaveExpense(m, payload) ==
    LET row == Replacement(payload, Year[m])
    IN  stored' = [x \in (DOMAIN stored \ {m}) \cup (IF Kept(row) THEN {m} ELSE {}) |->
                     IF x = m THEN row ELSE stored[x]]

-----------------------------------------------------------------------------
(* The page *)

\* buildExpenseGrid: zero is shown as an empty cell.
Shown(amount) == IF amount = 0 THEN Blank ELSE amount
Grid(year) == [m \in Month |-> [c \in Categories |-> Shown(year[m][c])]]

\* The categories of month m that are sent: an empty cell differs from any amount.
Changed(m) == {c \in Categories : page.draft[m][c] # page.base[m][c]}

Sent(text) == IF text = Blank THEN 0 ELSE text
Payload(m) == [c \in Changed(m) |-> Sent(page.draft[m][c])]

NoDraft == [m \in Month |-> [c \in Categories |-> Blank]]

\* The page has just been opened and has asked for the year.  What it has not got yet
\* counts as zero, and is shown as nothing.
PageInit ==
    /\ \E kept \in SUBSET Month : stored \in [kept -> Row \ {Zero}]
    /\ page = [pc |-> "idle", loaded |-> Zeros, grid |-> Grid(Zeros), base |-> Zeros,
               draft |-> NoDraft, before |-> Zeros, month |-> 0, error |-> FALSE,
               opening |-> "asked", answer |-> Zeros, early |-> FALSE]

\* handleExpenseChange; nothing keeps the user from typing while the page loads or saves.
\* A save does not look at the grid any more once it has begun: what is typed
\* then is overwritten when the year is loaded, or as if typed after an error.
Edit(m, c, text) ==
    /\ page.pc \in Typing /\ c \in Touched
    /\ page.grid[m][c] # text
    /\ page' = [page EXCEPT !.grid[m][c] = text]
    /\ UNCHANGED stored

\* handleSaveExpenses; the button is disabled while a save is under way, and then only.
Save ==
    /\ page.pc = "idle"
    /\ page' = [page EXCEPT !.pc = "saving", !.month = 1, !.error = FALSE,
                            !.base = page.loaded, !.draft = page.grid, !.before = Year,
                            !.early = @ \/ page.opening # "over"]
    /\ UNCHANGED stored

\* Variant: the page goes on with what it has.
NoRefresh == "idle"

\* After the last month the page loads the year again.
AfterSaving == "loading"

\* The loop comes to the next month that has changed, or to its end.
NextMonth ==
    /\ page.pc = "saving"
    /\ \/ /\ page.month \in Month
          /\ Changed(page.month) = {}
          /\ page' = [page EXCEPT !.month = IF @ = Months THEN 0 ELSE @ + 1]
       \/ /\ page.month \in Month
          /\ Changed(page.month) # {}
          /\ page' = [page EXCEPT !.pc = "sent"]
       \/ /\ page.month = 0
          /\ page' = [page EXCEPT !.pc = AfterSaving, !.error = FALSE]
    /\ UNCHANGED stored

\* A save is over, and its closure with it.
Rested == [page EXCEPT !.pc = "idle", !.month = 0,
                       !.base = Zeros, !.draft = NoDraft, !.before = Zeros]

\* The loop stops at an error and leaves the rest unsaved.
Stopped == [Rested EXCEPT !.error = TRUE]

\* The server handles PUT /expenses/{year}/{month} and the answer arrives.
Serve ==
    LET m == page.month
    IN  /\ page.pc = "sent"
        /\ \/ /\ RefusedPayload(Payload(m))
              /\ page' = Stopped
              /\ UNCHANGED stored
           \/ /\ ~ RefusedPayload(Payload(m))
              /\ SaveExpense(m, Payload(m))
              /\ page' = [page EXCEPT !.pc = "saving", !.month = IF @ = Months THEN 0 ELSE @ + 1]

\* The request is lost, or its answer is.
Fail ==
    /\ page.pc = "sent"
    /\ \/ UNCHANGED stored
       \/ ~ RefusedPayload(Payload(page.month)) /\ SaveExpense(page.month, Payload(page.month))
    /\ page' = Stopped

\* The load that ends a save.  Nothing writes the table between the moment the server
\* reads it and that at which the answer arrives.
Refresh ==
    /\ page.pc = "loading"
    /\ page' = [Rested EXCEPT !.loaded = Year, !.grid = Grid(Year),
                              !.early = page.opening # "over"]
    /\ UNCHANGED stored

\* It fails: the page keeps what it shows.
FailRefresh ==
    /\ page.pc = "loading"
    /\ page' = Stopped
    /\ UNCHANGED stored

\* The load at the opening, beside everything else: the server reads the table ...
AnswerOpening ==
    /\ page.opening = "asked"
    /\ page' = [page EXCEPT !.opening = "answered", !.answer = Year]
    /\ UNCHANGED stored

\* ... and the page shows the answer, whatever it shows by then ...
Open ==
    /\ page.opening = "answered"
    /\ page' = [page EXCEPT !.opening = "over", !.answer = Zeros,
                            !.loaded = page.answer, !.grid = Grid(page.answer)]
    /\ UNCHANGED stored

\* ... or the load fails.
FailOpening ==
    /\ page.opening # "over"
    /\ page' = [page EXCEPT !.opening = "over", !.answer = Zeros, !.error = TRUE]
    /\ UNCHANGED stored

PageNext ==
    \/ \E m \in Month, c \in Categories, text \in Text : Edit(m, c, text)
    \/ Save
    \/ NextMonth
    \/ Serve
    \/ Fail
    \/ Refresh
    \/ FailRefresh
    \/ AnswerOpening
    \/ Open
    \/ FailOpening

PageSpec == PageInit /\ [][PageNext]_pageVars

-----------------------------------------------------------------------------
(* Properties *)

\* The cell shows another amount than the save compares it with.
Differs(m, c) == Sent(page.draft[m][c]) # page.base[m][c]

\* The variables are typed, and no row is kept for a month of zeros.
PageTypeOK ==
    /\ stored \in [DOMAIN stored -> Row \ {Zero}]
    /\ DOMAIN stored \subseteq Month
    /\ page \in Page

\* What a save makes of a cell.
Outcome(m, c) ==
    IF Differs(m, c) THEN Sent(page.draft[m][c])
    ELSE IF Changed(m) # {} THEN 0
    ELSE page.before[m][c]

\* When the loop has come to its end, after failures of any kind before it, the table
\* holds the amount of every cell that differed from what the page had loaded.  Of the
\* others those of a month that was sent are zero, and the rest are as they were when
\* Save was pressed: a cell that an attempt without an answer had stored, and that was
\* typed back since, keeps what that attempt stored.
EditsStored ==
    [][page.pc = "saving" /\ page'.pc # "saving" /\ page.month = 0 =>
         \A m \in Month, c \in Categories : Year[m][c] = Outcome(m, c)]_pageVars

\* When a page that has been loaded rests and shows no error, what it compares edits
\* with is what the server holds, unless Save was pressed before the page was loaded:
\* the answer to the opening may then show the year as it was before that save.
LoadedIsStored ==
    page.pc = "idle" /\ page.opening = "over" /\ ~ page.error /\ ~ page.early
       => page.loaded = Year

\* Saving leaves alone what the page has loaded as it is stored and the user has not
\* edited.
UneditedIsKept ==
    [][\A m \in Month, c \in Categories :
         Year[m][c] = page.base[m][c] /\ ~ Differs(m, c) => Year'[m][c] = Year[m][c]]_pageVars
=============================================================================
