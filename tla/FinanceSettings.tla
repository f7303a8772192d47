--------------------------- MODULE FinanceSettings ---------------------------
(***************************************************************************)
(* Reading and saving the finance settings: the statements of              *)
(* GetFinanceSettings and SaveFinanceSettings in                           *)
(* internal/finance/adapters/postgres/repository.go.                       *)
(*                                                                         *)
(* A save is a transaction: it upserts the only row of finance_settings,   *)
(* deletes every limit and inserts the new ones.  A read is two statements *)
(* without a transaction.  A statement sees what was committed when it     *)
(* began, and waits for a row that another transaction has changed.        *)
(*                                                                         *)
(* The salary and the bonus of a save stand behind the number of the save, *)
(* so that any two saves differ.                                           *)
(***************************************************************************)
EXTENDS Integers, Functions

CONSTANTS
    Category,   \* the expense categories
    Whole,      \* a hundred percent
    MaxSaves,   \* bound on the number of saves
    Requests    \* slots for requests in flight

ASSUME ConstantsAssumption ==
    /\ Whole \in Nat \ {0}
    /\ MaxSaves \in Nat

VARIABLES
    income,     \* finance_settings: the save it is from, 0 before the first
    rows,       \* finance_expense_limit_settings
    saves,      \* the number of saves that have begun to write
    req         \* the state of each request slot

vars == <<income, rows, saves, req>>

\* A row of the limits and, to tell it from one inserted later, its save.
LimitRow == [category : Category, percent : 1 .. Whole, save : 1 .. MaxSaves]

Reply == {"none", "ok", "validation_error", "internal_error"}

Request ==
    [pc       : {"idle", "upsert", "clear", "clearing", "insert", "commit", "income", "limits"},
     percents : [Category -> 0 .. Whole],   \* what was sent
     save     : 0 .. MaxSaves,              \* the number of this save
     found    : SUBSET LimitRow,            \* the rows the DELETE has found
     deleted  : SUBSET LimitRow,            \* rows deleted, not committed
     inserted : SUBSET LimitRow,            \* rows inserted, not committed
     income   : 0 .. MaxSaves,              \* what a read has seen ...
     limits   : SUBSET LimitRow,            \* ... and answers
     reply    : Reply]                      \* the answer to the last request

Nothing == [c \in Category |-> 0]

Idle(reply) ==
    [pc |-> "idle", percents |-> Nothing, save |-> 0, found |-> {}, deleted |-> {},
     inserted |-> {}, income |-> 0, limits |-> {}, reply |-> reply]

\* Variant: a failed transaction is left open.
LeftOpen(q, reply) ==
    IF reply \in {"ok", "validation_error"} THEN Idle(reply)
    ELSE [Idle(reply) EXCEPT !.save = q.save, !.deleted = q.deleted]

\* What remains of a request that is answered: its transaction is over.
Finished(q, reply) == Idle(reply)

Answer(r, reply) == req' = [req EXCEPT ![r] = Finished(req[r], reply)]

\* domain.NewFinanceSettings: a limit of zero is none, and the limits are all of the
\* salary or there are none.
Limited(percents) == [c \in {d \in Category : percents[d] > 0} |-> percents[c]]
Refused(percents) == FoldFunction(+, 0, Limited(percents)) \notin {0, Whole}

Percents(R) ==
    [c \in Category |-> IF \E x \in R : x.category = c
                        THEN (CHOOSE x \in R : x.category = c).percent ELSE 0]

Init ==
    /\ income = 0
    /\ rows = {}
    /\ saves = 0
    /\ req = [r \in Requests |-> Idle("none")]

-----------------------------------------------------------------------------
(* Saving *)

\* PUT /settings.
SaveSettings(r, percents) ==
    /\ req[r].pc = "idle"
    /\ \/ /\ Refused(percents)
          /\ Answer(r, "validation_error")
       \/ /\ ~ Refused(percents)
          /\ req' = [req EXCEPT ![r] = [Idle("none") EXCEPT !.pc = "upsert",
                                          !.percents = percents]]
    /\ UNCHANGED <<income, rows, saves>>

\* Variant: the transactions have no row in common.
NothingShared(r) == TRUE

\* No other transaction has written the row of finance_settings.
RowUnlocked(r) == \A s \in Requests \ {r} : req[s].save = 0

UpsertIncome(r) ==
    /\ req[r].pc = "upsert"
    /\ RowUnlocked(r)
    /\ saves < MaxSaves
    /\ saves' = saves + 1
    /\ req' = [req EXCEPT ![r].pc = "clear", ![r].save = saves + 1]
    /\ UNCHANGED <<income, rows>>

\* The DELETE begins: it finds the committed rows ...
FindLimits(r) ==
    /\ req[r].pc = "clear"
    /\ req' = [req EXCEPT ![r].pc = "clearing", ![r].found = rows]
    /\ UNCHANGED <<income, rows, saves>>

\* ... and deletes those that are still there when nobody else is deleting them.
ClearLimits(r) ==
    LET q == req[r]
    IN  /\ q.pc = "clearing"
        /\ \A s \in Requests \ {r} : req[s].deleted \cap q.found = {}
        /\ req' = [req EXCEPT ![r].pc = "insert", ![r].deleted = q.found \cap rows]
        /\ UNCHANGED <<income, rows, saves>>

\* The INSERTs, one per category with a limit.  The primary key is the category.
NewRows(q) ==
    {[category |-> c, percent |-> q.percents[c], save |-> q.save] :
        c \in DOMAIN Limited(q.percents)}

Keys(R) == {x.category : x \in R}

Inserted(q) ==
    IF Keys(NewRows(q)) \cap Keys(rows \ q.deleted) # {}
    THEN Finished(q, "internal_error")
    ELSE [q EXCEPT !.pc = "commit", !.inserted = NewRows(q)]

InsertLimits(r) ==
    /\ req[r].pc = "insert"
    /\ \A s \in Requests \ {r} :
          Keys(NewRows(req[r])) \cap Keys(req[s].deleted \cup req[s].inserted) = {}
    /\ req' = [req EXCEPT ![r] = Inserted(req[r])]
    /\ UNCHANGED <<income, rows, saves>>

\* Variant: the old limits stay beside the new ones.
KeptRows(q) == rows \cup q.inserted

\* The limits a commit leaves.
RowsAfter(q) == (rows \ q.deleted) \cup q.inserted

Commit(r) ==
    /\ req[r].pc = "commit"
    /\ income' = req[r].save
    /\ rows' = RowsAfter(req[r])
    /\ Answer(r, "ok")
    /\ UNCHANGED saves

-----------------------------------------------------------------------------
(* Reading *)

\* Variant: the limits are read first.
LimitsFirst == <<"limits", "income">>

\* The order of the two statements of GetFinanceSettings.
Statements == <<"income", "limits">>

\* GET /settings.
GetSettings(r) ==
    /\ req[r].pc = "idle"
    /\ req' = [req EXCEPT ![r] = [Idle("none") EXCEPT !.pc = Statements[1]]]
    /\ UNCHANGED <<income, rows, saves>>

\* Request q, having seen more, comes to the other statement or to its answer.
Seen(q) ==
    IF q.pc = Statements[1] THEN [q EXCEPT !.pc = Statements[2]]
    ELSE [Idle(IF Refused(Percents(q.limits)) THEN "validation_error" ELSE "ok")
            EXCEPT !.income = q.income, !.limits = q.limits]

ReadIncome(r) ==
    /\ req[r].pc = "income"
    /\ req' = [req EXCEPT ![r] = Seen([req[r] EXCEPT !.income = income])]
    /\ UNCHANGED <<income, rows, saves>>

ReadLimits(r) ==
    /\ req[r].pc = "limits"
    /\ req' = [req EXCEPT ![r] = Seen([req[r] EXCEPT !.limits = rows])]
    /\ UNCHANGED <<income, rows, saves>>

-----------------------------------------------------------------------------

\* A statement fails or the process stops; an open transaction is rolled back.
Abort(r) ==
    /\ req[r].pc # "idle"
    /\ Answer(r, "internal_error")
    /\ UNCHANGED <<income, rows, saves>>

\* The bound on the number of saves is reached.
OutOfSaves(r) == req[r].pc = "upsert" /\ saves = MaxSaves /\ Abort(r)

Start(r) ==
    \/ GetSettings(r)
    \/ \E percents \in [Category -> 0 .. Whole] : SaveSettings(r, percents)

Continue(r) ==
    \/ UpsertIncome(r)
    \/ FindLimits(r)
    \/ ClearLimits(r)
    \/ InsertLimits(r)
    \/ Commit(r)
    \/ ReadIncome(r)
    \/ ReadLimits(r)
    \/ OutOfSaves(r)

Next == \E r \in Requests : Start(r) \/ Continue(r) \/ Abort(r)

Spec == Init /\ [][Next]_vars

\* A started request goes on.  Strong fairness, because others may lock the row it
\* waits for again and again; PostgreSQL serves the waiters of a row in turn.
Fairness == \A r \in Requests : SF_vars(Continue(r))

-----------------------------------------------------------------------------
(* Properties *)

\* The variables are typed, and an answered request holds no transaction.
TypeOK ==
    /\ income \in 0 .. MaxSaves
    /\ rows \subseteq LimitRow
    /\ saves \in 0 .. MaxSaves
    /\ req \in [Requests -> Request]
    /\ \A r \in Requests : req[r].pc = "idle" =>
          req[r] = [Idle(req[r].reply) EXCEPT !.income = req[r].income,
                                              !.limits = req[r].limits]

\* The committed limits are those of the save the salary is from: the upsert of
\* the one row keeps savers apart, and nothing of an earlier save stays behind.
OneSave == \A x \in rows : x.save = income

\* An answer may put the salary of an earlier save beside the limits of a later
\* one, as it is read with two statements, but never the other way round.
LimitsNotOlder ==
    \A r \in Requests : req[r].pc = "idle" =>
        \A x \in req[r].limits : x.save >= req[r].income

\* No save is interrupted so that the settings cannot be read any more: a read
\* finds limits that add up, whatever is being saved.
ReadsAddUp ==
    [][\A r \in Requests : ReadLimits(r) => ~ Refused(Percents(req'[r].limits))]_vars

\* Every request is answered: no transaction keeps the row it has locked.
EveryRequestAnswered ==
    \A r \in Requests : req[r].pc # "idle" ~> req[r].pc = "idle"

\* Saving replaces the settings at once.
Store == INSTANCE SettingsStore
            WITH limits <- [c \in Keys(rows) |->
                              (CHOOSE x \in rows : x.category = c).percent]
ImplementsStore == Store!Spec

=============================================================================
