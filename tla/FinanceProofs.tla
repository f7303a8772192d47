--------------------------- MODULE FinanceProofs ---------------------------
(***************************************************************************)
(* Theorems about the saving of finance data: the settings in the          *)
(* database, for every set of categories, every number of saves and every  *)
(* number of requests, and the table of expenses of the page, for every    *)
(* number of months, categories and amounts, and whenever the user types.  *)
(***************************************************************************)
EXTENDS FinanceSettings, FinancesPage, TLAPS

-----------------------------------------------------------------------------
(* The settings of the forecast *)

Writing == {"clear", "clearing", "insert", "commit"}

\* What is true of request q when the salary is of save i, the limits are R and n
\* saves have begun: a request that writes is the last that began; it has found, and
\* later deleted, all of the limits, as nobody else can have changed them; and what
\* a read has seen of the salary is not newer than the limits are.
RequestInv(q, i, R, n) ==
    /\ q \in Request
    /\ q.pc \in Writing <=> q.save # 0
    /\ q.save # 0 => q.save = n /\ i < n
    /\ q.pc = "clearing" => q.found = R
    /\ q.pc \in {"insert", "commit"} => q.deleted = R
    /\ q.pc = "commit" => \A x \in q.inserted : x.save = q.save
    /\ q.pc = "limits" => q.income <= i
    /\ q.pc = "idle" => /\ q = [Idle(q.reply) EXCEPT !.income = q.income, !.limits = q.limits]
                        /\ \A x \in q.limits : x.save >= q.income

\* The tables are typed and consistent.
TablesInv ==
    /\ income \in 0 .. MaxSaves
    /\ rows \subseteq LimitRow
    /\ saves \in 0 .. MaxSaves
    /\ income <= saves
    /\ OneSave

\* The row of finance_settings admits one writer at a time.
OneWriter ==
    \A r, s \in Requests : req[r].save # 0 /\ req[s].save # 0 => r = s

RequestsInv ==
    /\ req \in [Requests -> Request]
    /\ \A r \in Requests : RequestInv(req[r], income, rows, saves)

\* The inductive invariant.
SettingsInv == TablesInv /\ OneWriter /\ RequestsInv

-----------------------------------------------------------------------------
(* Lemmas *)

\* A request that has been answered without a result is typed.
LEMMA IdleType ==
    ASSUME ConstantsAssumption, NEW reply \in Reply
    PROVE  Idle(reply) \in Request
<1>1. Nothing \in [Category -> 0 .. Whole]
    BY DEF Nothing, ConstantsAssumption
<1>2. 0 \in 0 .. MaxSaves
    BY DEF ConstantsAssumption
<1> QED
    BY <1>1, <1>2 DEF Idle, Request

\* Such a request satisfies its part of the invariant.
LEMMA IdleRequest ==
    ASSUME ConstantsAssumption, NEW reply \in Reply, NEW i \in Nat, NEW R, NEW n
    PROVE  RequestInv(Idle(reply), i, R, n) /\ Idle(reply).save = 0
<1> DEFINE q == Idle(reply)
<1>1. q \in Request
    BY IdleType
<1>2. q.pc = "idle" /\ q.save = 0 /\ q.limits = {}
    BY DEF Idle
<1>3. q = [Idle(q.reply) EXCEPT !.income = q.income, !.limits = q.limits]
    BY DEF Idle
<1> QED
    BY <1>1, <1>2, <1>3 DEF RequestInv, Writing

\* A request that does not write does not notice that others begin to write and
\* commit, as the salary only gets newer.
LEMMA Bystander ==
    ASSUME NEW q, NEW i \in Nat, NEW R, NEW n, RequestInv(q, i, R, n), q.save = 0,
           NEW j \in Nat, i <= j, NEW S, NEW m
    PROVE  RequestInv(q, j, S, m)
BY DEF RequestInv, Request, Writing

\* A step of one request preserves the invariant when it keeps the tables
\* consistent, leaves that request with its part of the invariant, and either
\* leaves the tables alone or is the step of the only writer.
LEMMA StepOfOne ==
    ASSUME SettingsInv, NEW r \in Requests, NEW q,
           req' = [req EXCEPT ![r] = q],
           TablesInv',
           RequestInv(q, income', rows', saves'),
           \A s \in Requests \ {r} : RequestInv(req[s], income', rows', saves'),
           q.save = 0 \/ \A s \in Requests \ {r} : req[s].save = 0
    PROVE  SettingsInv'
<1>1. /\ req' \in [Requests -> Request]
      /\ req'[r] = q
      /\ \A s \in Requests \ {r} : req'[s] = req[s]
    BY DEF SettingsInv, RequestsInv, RequestInv
<1>2. RequestsInv'
    BY <1>1 DEF RequestsInv
<1>3. OneWriter'
    BY <1>1 DEF SettingsInv, OneWriter
<1> QED
    BY <1>2, <1>3 DEF SettingsInv

\* The steps that leave the tables alone.
LEMMA QuietStep ==
    ASSUME SettingsInv, NEW r \in Requests, NEW q,
           req' = [req EXCEPT ![r] = q],
           UNCHANGED <<income, rows, saves>>,
           RequestInv(q, income, rows, saves),
           q.save = 0 \/ req[r].save # 0
    PROVE  SettingsInv'
<1>1. TablesInv'
    BY DEF SettingsInv, TablesInv, OneSave
<1>2. \A s \in Requests \ {r} : RequestInv(req[s], income', rows', saves')
    BY DEF SettingsInv, RequestsInv
<1>3. q.save = 0 \/ \A s \in Requests \ {r} : req[s].save = 0
    BY DEF SettingsInv, OneWriter
<1> QED
    BY <1>1, <1>2, <1>3, StepOfOne

\* An answer without a result, whatever the request was doing.
LEMMA AnswerStep ==
    ASSUME SettingsInv, ConstantsAssumption, NEW r \in Requests, NEW reply \in Reply,
           Answer(r, reply), UNCHANGED <<income, rows, saves>>
    PROVE  SettingsInv'
<1>1. req' = [req EXCEPT ![r] = Idle(reply)]
    BY DEF Answer, Finished
<1>2. income \in Nat
    BY DEF SettingsInv, TablesInv, ConstantsAssumption
<1>3. RequestInv(Idle(reply), income, rows, saves) /\ Idle(reply).save = 0
    BY <1>2, IdleRequest
<1> QED
    BY <1>1, <1>3, QuietStep

-----------------------------------------------------------------------------
(* The steps *)

LEMMA SettingsInit == ConstantsAssumption /\ Init => SettingsInv
<1> SUFFICES ASSUME ConstantsAssumption, Init PROVE SettingsInv
    OBVIOUS
<1>1. \A r \in Requests : req[r] = Idle("none") /\ RequestInv(req[r], income, rows, saves)
                          /\ req[r].save = 0
    BY IdleRequest DEF Init, Reply
<1>2. req \in [Requests -> Request]
    BY <1>1 DEF Init, RequestInv
<1> QED
    BY <1>1, <1>2 DEF Init, SettingsInv, TablesInv, OneSave, OneWriter, RequestsInv,
                      ConstantsAssumption

LEMMA SaveSettingsStep ==
    ASSUME SettingsInv, ConstantsAssumption, NEW r \in Requests,
           NEW percents \in [Category -> 0 .. Whole], SaveSettings(r, percents)
    PROVE  SettingsInv'
<1>1. CASE Answer(r, "validation_error")
    BY <1>1, AnswerStep DEF SaveSettings, Reply
<1>2. CASE ~ Answer(r, "validation_error")
    <2> DEFINE q == [Idle("none") EXCEPT !.pc = "upsert", !.percents = percents]
    <2>1. req' = [req EXCEPT ![r] = q] /\ UNCHANGED <<income, rows, saves>>
        BY <1>2 DEF SaveSettings
    <2>2. q \in Request
        BY IdleType DEF Idle, Request, Reply
    <2>3. q.pc = "upsert" /\ q.save = 0
        BY DEF Idle
    <2>4. RequestInv(q, income, rows, saves)
        BY <2>2, <2>3 DEF RequestInv, Writing
    <2> QED
        BY <2>1, <2>3, <2>4, QuietStep
<1> QED
    BY <1>1, <1>2

LEMMA UpsertIncomeStep ==
    ASSUME SettingsInv, ConstantsAssumption, NEW r \in Requests, UpsertIncome(r)
    PROVE  SettingsInv'
<1> DEFINE q == [req[r] EXCEPT !.pc = "clear", !.save = saves + 1]
<1>1. /\ req' = [req EXCEPT ![r] = q]
      /\ saves' = saves + 1 /\ saves < MaxSaves
      /\ UNCHANGED <<income, rows>>
      /\ \A s \in Requests \ {r} : req[s].save = 0
    BY DEF UpsertIncome, RowUnlocked, SettingsInv, RequestsInv
<1>2. income \in Nat /\ saves \in Nat /\ income <= saves
    BY DEF SettingsInv, TablesInv, ConstantsAssumption
<1>3. TablesInv'
    BY <1>1, <1>2 DEF SettingsInv, TablesInv, OneSave, ConstantsAssumption
<1>4. req[r] \in Request
    BY DEF SettingsInv, RequestsInv
<1>5. q \in Request /\ q.pc = "clear" /\ q.save = saves'
    <2>1. saves + 1 \in 0 .. MaxSaves
        BY <1>1, <1>2 DEF ConstantsAssumption
    <2> QED
        BY <1>1, <1>4, <2>1 DEF Request
<1>6. RequestInv(q, income', rows', saves')
    BY <1>1, <1>2, <1>5 DEF RequestInv, Writing
<1>7. \A s \in Requests \ {r} : RequestInv(req[s], income', rows', saves')
    BY <1>1, <1>2, Bystander DEF SettingsInv, RequestsInv
<1> QED
    BY <1>1, <1>3, <1>6, <1>7, StepOfOne

LEMMA FindLimitsStep ==
    ASSUME SettingsInv, NEW r \in Requests, FindLimits(r)
    PROVE  SettingsInv'
<1> DEFINE q == [req[r] EXCEPT !.pc = "clearing", !.found = rows]
<1>1. req' = [req EXCEPT ![r] = q] /\ req[r].pc = "clear"
    BY DEF FindLimits, SettingsInv, RequestsInv, Request
<1>2. req[r] \in Request /\ RequestInv(req[r], income, rows, saves) /\ rows \subseteq LimitRow
    BY DEF SettingsInv, RequestsInv, TablesInv
<1>3. RequestInv(q, income, rows, saves) /\ q.save = req[r].save
    BY <1>1, <1>2 DEF RequestInv, Request, Writing
<1> QED
    BY <1>1, <1>3, QuietStep DEF FindLimits

LEMMA ClearLimitsStep ==
    ASSUME SettingsInv, NEW r \in Requests, ClearLimits(r)
    PROVE  SettingsInv'
<1> DEFINE q == [req[r] EXCEPT !.pc = "insert", !.deleted = req[r].found \cap rows]
<1>1. req' = [req EXCEPT ![r] = q] /\ req[r].pc = "clearing"
    BY DEF ClearLimits
<1>2. req[r] \in Request /\ RequestInv(req[r], income, rows, saves) /\ rows \subseteq LimitRow
    BY DEF SettingsInv, RequestsInv, TablesInv
<1>3. req[r].found \cap rows = rows
    BY <1>1, <1>2 DEF RequestInv
<1>4. RequestInv(q, income, rows, saves) /\ q.save = req[r].save
    BY <1>1, <1>2, <1>3 DEF RequestInv, Request, Writing
<1> QED
    BY <1>1, <1>4, QuietStep DEF ClearLimits

\* The new rows of a request that writes are typed and of its save.
LEMMA NewRowsType ==
    ASSUME ConstantsAssumption, NEW q \in Request, q.save # 0
    PROVE  NewRows(q) \subseteq LimitRow /\ \A x \in NewRows(q) : x.save = q.save
<1>1. q.save \in 1 .. MaxSaves /\ \A c \in Category : q.percents[c] \in 0 .. Whole
    BY DEF Request, ConstantsAssumption
<1> QED
    BY <1>1 DEF NewRows, Limited, LimitRow, ConstantsAssumption

LEMMA InsertLimitsStep ==
    ASSUME SettingsInv, ConstantsAssumption, NEW r \in Requests, InsertLimits(r)
    PROVE  SettingsInv'
<1>1. CASE Inserted(req[r]) = Finished(req[r], "internal_error")
    BY <1>1, AnswerStep DEF InsertLimits, Answer, Reply
<1>2. CASE Inserted(req[r]) # Finished(req[r], "internal_error")
    <2> DEFINE q == [req[r] EXCEPT !.pc = "commit", !.inserted = NewRows(req[r])]
    <2>1. req' = [req EXCEPT ![r] = q] /\ req[r].pc = "insert"
        BY <1>2 DEF InsertLimits, Inserted
    <2>2. req[r] \in Request /\ RequestInv(req[r], income, rows, saves)
        BY DEF SettingsInv, RequestsInv
    <2>3. req[r].save # 0
        BY <2>1, <2>2 DEF RequestInv, Writing
    <2>4. NewRows(req[r]) \subseteq LimitRow /\ \A x \in NewRows(req[r]) : x.save = req[r].save
        BY <2>2, <2>3, NewRowsType
    <2>5. RequestInv(q, income, rows, saves) /\ q.save = req[r].save
        BY <2>1, <2>2, <2>4 DEF RequestInv, Request, Writing
    <2> QED
        BY <2>1, <2>5, QuietStep DEF InsertLimits
<1> QED
    BY <1>1, <1>2

LEMMA CommitStep ==
    ASSUME SettingsInv, ConstantsAssumption, NEW r \in Requests, Commit(r)
    PROVE  SettingsInv'
<1> DEFINE q == Idle("ok")
<1>1. /\ req[r].pc = "commit"
      /\ req' = [req EXCEPT ![r] = q]
      /\ income' = req[r].save
      /\ rows' = (rows \ req[r].deleted) \cup req[r].inserted
      /\ saves' = saves
    BY DEF Commit, Answer, Finished, RowsAfter
<1>2. /\ req[r] \in Request
      /\ RequestInv(req[r], income, rows, saves)
      /\ income \in Nat /\ saves \in 0 .. MaxSaves
    BY DEF SettingsInv, RequestsInv, TablesInv, ConstantsAssumption
<1>3. /\ req[r].save # 0 /\ req[r].save = saves /\ income < saves
      /\ req[r].deleted = rows
      /\ \A x \in req[r].inserted : x.save = req[r].save
    BY <1>1, <1>2 DEF RequestInv, Writing
<1>4. rows' = req[r].inserted /\ req[r].inserted \subseteq LimitRow
    BY <1>1, <1>2, <1>3 DEF Request
<1>5. TablesInv'
    BY <1>1, <1>2, <1>3, <1>4 DEF TablesInv, OneSave, ConstantsAssumption
<1>6. income' \in Nat /\ income <= income'
    BY <1>1, <1>2, <1>3 DEF ConstantsAssumption
<1>7. RequestInv(q, income', rows', saves') /\ q.save = 0
    BY <1>6, IdleRequest DEF Reply
<1>8. \A s \in Requests \ {r} : req[s].save = 0
    BY <1>3 DEF SettingsInv, OneWriter
<1>9. \A s \in Requests \ {r} : RequestInv(req[s], income', rows', saves')
    BY <1>2, <1>6, <1>8, Bystander DEF SettingsInv, RequestsInv
<1> QED
    BY <1>1, <1>5, <1>7, <1>9, StepOfOne

LEMMA GetSettingsStep ==
    ASSUME SettingsInv, ConstantsAssumption, NEW r \in Requests, GetSettings(r)
    PROVE  SettingsInv'
<1> DEFINE q == [Idle("none") EXCEPT !.pc = "income"]
<1>1. req' = [req EXCEPT ![r] = q]
    BY DEF GetSettings, Statements
<1>2. RequestInv(q, income, rows, saves) /\ q.save = 0
    BY DEF RequestInv, Idle, Nothing, Request, Reply, Writing, ConstantsAssumption
<1> QED
    BY <1>1, <1>2, QuietStep DEF GetSettings

LEMMA ReadIncomeStep ==
    ASSUME SettingsInv, NEW r \in Requests, ReadIncome(r)
    PROVE  SettingsInv'
<1> DEFINE q == [req[r] EXCEPT !.income = income, !.pc = "limits"]
<1>1. req[r] \in Request /\ RequestInv(req[r], income, rows, saves) /\ req[r].pc = "income"
      /\ income \in 0 .. MaxSaves
    BY DEF SettingsInv, RequestsInv, TablesInv, ReadIncome
<1>2. req' = [req EXCEPT ![r] = q]
    BY <1>1 DEF ReadIncome, Seen, Statements, Request
<1>3. q \in Request /\ q.pc = "limits" /\ q.save = req[r].save /\ q.income = income
    BY <1>1 DEF Request
<1>4. req[r].save = 0
    BY <1>1 DEF RequestInv, Writing
<1>5. RequestInv(q, income, rows, saves)
    BY <1>1, <1>3, <1>4 DEF RequestInv, Writing
<1> QED
    BY <1>2, <1>3, <1>4, <1>5, QuietStep DEF ReadIncome

LEMMA ReadLimitsStep ==
    ASSUME SettingsInv, ConstantsAssumption, NEW r \in Requests, ReadLimits(r)
    PROVE  SettingsInv'
<1> DEFINE reply == IF Refused(Percents(rows)) THEN "validation_error" ELSE "ok"
           q == [Idle(reply) EXCEPT !.income = req[r].income, !.limits = rows]
<1>1. /\ req[r] \in Request /\ RequestInv(req[r], income, rows, saves)
      /\ req[r].pc = "limits"
      /\ income \in 0 .. MaxSaves /\ rows \subseteq LimitRow /\ OneSave
    BY DEF SettingsInv, RequestsInv, TablesInv, ReadLimits
<1>2. req' = [req EXCEPT ![r] = q]
    BY <1>1 DEF ReadLimits, Seen, Statements, Request
<1>3. req[r].income \in Nat /\ req[r].income <= income
    BY <1>1 DEF RequestInv, Request
<1>4. \A x \in rows : x.save >= req[r].income
    BY <1>1, <1>3 DEF OneSave
<1>5. reply \in Reply
    BY DEF Reply
<1> HIDE DEF reply
<1>6. q \in Request
    BY <1>1, <1>5, IdleType DEF Request
<1>7. q.pc = "idle" /\ q.save = 0 /\ q.income = req[r].income /\ q.limits = rows
    BY DEF Idle
<1>8. q = [Idle(q.reply) EXCEPT !.income = q.income, !.limits = q.limits]
    BY DEF Idle
<1>9. RequestInv(q, income, rows, saves)
    BY <1>4, <1>6, <1>7, <1>8 DEF RequestInv, Writing
<1> QED
    BY <1>2, <1>7, <1>9, QuietStep DEF ReadLimits

LEMMA AbortStep ==
    ASSUME SettingsInv, ConstantsAssumption, NEW r \in Requests, Abort(r)
    PROVE  SettingsInv'
BY AnswerStep DEF Abort, Reply

LEMMA StutteringStep ==
    ASSUME SettingsInv, UNCHANGED vars
    PROVE  SettingsInv'
BY DEF vars, SettingsInv, TablesInv, OneSave, OneWriter, RequestsInv

LEMMA SettingsStep ==
    ASSUME SettingsInv, ConstantsAssumption, [Next]_vars
    PROVE  SettingsInv'
<1>1. ASSUME NEW r \in Requests, Start(r) PROVE SettingsInv'
    BY <1>1, GetSettingsStep, SaveSettingsStep DEF Start
<1>2. ASSUME NEW r \in Requests, Continue(r) PROVE SettingsInv'
    BY <1>2, UpsertIncomeStep, FindLimitsStep, ClearLimitsStep, InsertLimitsStep, CommitStep,
       ReadIncomeStep, ReadLimitsStep, AbortStep DEF Continue, OutOfSaves
<1>3. ASSUME NEW r \in Requests, Abort(r) PROVE SettingsInv'
    BY <1>3, AbortStep
<1> QED
    BY <1>1, <1>2, <1>3, StutteringStep DEF Next

-----------------------------------------------------------------------------
(* Theorems *)

\* The strengthened invariant holds of every reachable state.
THEOREM Invariance == Spec => []SettingsInv
<1>1. Init => SettingsInv
    BY SettingsInit, ConstantsAssumption
<1>2. SettingsInv /\ [Next]_vars => SettingsInv'
    BY SettingsStep, ConstantsAssumption
<1> QED
    BY <1>1, <1>2, PTL DEF Spec

\* The tables and the requests are typed, and an answered request holds no
\* transaction.
THEOREM TypeCorrect == Spec => []TypeOK
<1>1. SettingsInv => TypeOK
    BY DEF SettingsInv, TablesInv, RequestsInv, RequestInv, TypeOK
<1> QED
    BY <1>1, Invariance, PTL

\* The committed limits are always those of the save the salary is from, however
\* many requests save at the same time.
THEOREM LimitsOfOneSave == Spec => []OneSave
<1>1. SettingsInv => OneSave
    BY DEF SettingsInv, TablesInv
<1> QED
    BY <1>1, Invariance, PTL

\* No answer puts the salary of a save beside the limits of an earlier one.
THEOREM AnswersNotTornBackwards == Spec => []LimitsNotOlder
<1>1. SettingsInv => LimitsNotOlder
    BY DEF SettingsInv, RequestsInv, RequestInv, LimitsNotOlder
<1> QED
    BY <1>1, Invariance, PTL

-----------------------------------------------------------------------------
(* The limits add up *)

\* A fold over no categories at all.
Adds(f, iter) ==
    iter = [s \in SUBSET DOMAIN f |-> IF s = {} THEN 0
                                      ELSE LET x == CHOOSE x \in s : TRUE
                                           IN  f[x] + iter[s \ {x}]]

LEMMA SumOfNone ==
    ASSUME NEW f, DOMAIN f = {}
    PROVE  FoldFunction(+, 0, f) = 0
<1>1. FoldFunction(+, 0, f) = (CHOOSE iter : Adds(f, iter))[DOMAIN f]
    BY Zenon DEF Adds, FoldFunction, FoldFunctionOnSet, MapThenFoldSet
<1>2. Adds(f, [s \in {{}} |-> 0])
    BY DEF Adds
<1>3. PICK iter : iter = (CHOOSE i : Adds(f, i)) /\ Adds(f, iter)
    BY <1>2
<1>4. iter[{}] = 0
    BY <1>3 DEF Adds
<1> QED
    BY <1>1, <1>3, <1>4

\* One row per category.
Unique(R) == \A x, y \in R : x.category = y.category => x = y

\* What is sent and is not refused is what its rows are read as.
LEMMA RowsAreRead ==
    ASSUME ConstantsAssumption, NEW q \in Request
    PROVE  /\ Unique(NewRows(q))
           /\ Percents(NewRows(q)) = q.percents
           /\ [c \in Keys(NewRows(q)) |-> (CHOOSE x \in NewRows(q) : x.category = c).percent]
                 = Limited(q.percents)
<1> DEFINE row(c) == [category |-> c, percent |-> q.percents[c], save |-> q.save]
           given == DOMAIN Limited(q.percents)
<1>1. /\ q.percents \in [Category -> 0 .. Whole]
      /\ given = {c \in Category : q.percents[c] > 0}
    BY DEF Request, Limited
<1>2. NewRows(q) = {row(c) : c \in given}
    BY DEF NewRows
<1>3. \A c : row(c).category = c /\ row(c).percent = q.percents[c]
    OBVIOUS
<1> HIDE DEF row, given
<1>4. Unique(NewRows(q))
    BY <1>2, <1>3 DEF Unique
<1>5. Keys(NewRows(q)) = given
    BY <1>2, <1>3 DEF Keys
<1>6. \A c \in given : (CHOOSE x \in NewRows(q) : x.category = c) = row(c)
    BY <1>2, <1>3
<1>7. \A c : (\E x \in NewRows(q) : x.category = c) <=> c \in given
    BY <1>2, <1>3
<1>8. \A c \in Category \ given : q.percents[c] = 0
    BY <1>1
<1>9. Percents(NewRows(q)) = q.percents
    <2>1. \A c \in Category : Percents(NewRows(q))[c] = q.percents[c]
        BY <1>3, <1>6, <1>7, <1>8 DEF Percents
    <2>2. Percents(NewRows(q)) = [c \in Category |-> Percents(NewRows(q))[c]]
        BY DEF Percents
    <2>3. q.percents = [c \in Category |-> q.percents[c]]
        BY <1>1
    <2> QED
        BY <2>1, <2>2, <2>3
<1>10. Limited(q.percents) = [c \in given |-> q.percents[c]]
    BY <1>1 DEF Limited
<1> DEFINE first(c) == CHOOSE x \in NewRows(q) : x.category = c
<1>11. \A c \in given : first(c).percent = q.percents[c]
    BY <1>3, <1>6
<1> HIDE DEF first
<1>12. [c \in given |-> first(c).percent] = [c \in given |-> q.percents[c]]
    BY <1>11
<1> QED
    BY <1>4, <1>5, <1>9, <1>10, <1>12, Zenon DEF first

\* The committed limits are read without an error, and so will be what is being
\* saved: it was not refused, and its rows are those of what was sent.
LimitsInv ==
    /\ ~ Refused(Percents(rows))
    /\ \A r \in Requests :
          /\ req[r].pc \in Writing \cup {"upsert"} => ~ Refused(req[r].percents)
          /\ req[r].pc = "commit" => req[r].inserted = NewRows(req[r])

LEMMA LimitsInit == ConstantsAssumption /\ Init => LimitsInv
<1> SUFFICES ASSUME ConstantsAssumption, Init PROVE LimitsInv
    OBVIOUS
<1>1. Percents({}) = Nothing
    BY DEF Percents, Nothing
<1>2. DOMAIN Limited(Nothing) = {}
    BY DEF Limited, Nothing
<1>3. ~ Refused(Nothing)
    BY <1>2, SumOfNone DEF Refused
<1> QED
    BY <1>1, <1>3 DEF Init, LimitsInv, Idle, Writing

\* A step of one request that leaves the committed limits alone and that request
\* with its part of the invariant.
LEMMA LimitsStepOfOne ==
    ASSUME SettingsInv, LimitsInv, NEW r \in Requests, NEW q,
           req' = [req EXCEPT ![r] = q], rows' = rows,
           q.pc \in Writing \cup {"upsert"} => ~ Refused(q.percents),
           q.pc = "commit" => q.inserted = NewRows(q)
    PROVE  LimitsInv'
<1>1. req'[r] = q /\ \A s \in Requests \ {r} : req'[s] = req[s]
    BY DEF SettingsInv, RequestsInv
<1> QED
    BY <1>1 DEF LimitsInv

LEMMA LimitsAnswer ==
    ASSUME SettingsInv, LimitsInv, NEW r \in Requests, NEW reply,
           Answer(r, reply), rows' = rows
    PROVE  LimitsInv'
<1>1. req' = [req EXCEPT ![r] = Idle(reply)]
    BY DEF Answer, Finished
<1>2. Idle(reply).pc = "idle"
    BY DEF Idle
<1> QED
    BY <1>1, <1>2, LimitsStepOfOne DEF Writing

\* A commit replaces the limits by those that were sent.
LEMMA CommitReplaces ==
    ASSUME SettingsInv, LimitsInv, NEW r \in Requests, Commit(r)
    PROVE  /\ rows' = NewRows(req[r])
           /\ income' = req[r].save /\ req[r].save \in 1 .. MaxSaves /\ req[r].save > income
<1>1. /\ req[r].pc = "commit" /\ req[r] \in Request
      /\ RequestInv(req[r], income, rows, saves)
      /\ income' = req[r].save
      /\ rows' = (rows \ req[r].deleted) \cup req[r].inserted
    BY DEF Commit, RowsAfter, SettingsInv, RequestsInv
<1>2. req[r].save # 0 /\ req[r].save = saves /\ income < saves /\ req[r].deleted = rows
    BY <1>1 DEF RequestInv, Writing
<1>3. req[r].save \in 0 .. MaxSaves /\ income \in 0 .. MaxSaves
    BY <1>1 DEF Request, SettingsInv, TablesInv
<1>4. req[r].inserted = NewRows(req[r])
    BY <1>1 DEF LimitsInv
<1> QED
    BY <1>1, <1>2, <1>3, <1>4, ConstantsAssumption DEF ConstantsAssumption

\* A read that has seen the limits answers with them.
LEMMA ReadAnswers ==
    ASSUME SettingsInv, NEW r \in Requests, ReadLimits(r)
    PROVE  /\ rows' = rows
           /\ req'[r].pc = "idle" /\ req'[r].limits = rows
           /\ \A s \in Requests \ {r} : req'[s] = req[s]
<1> DEFINE reply == IF Refused(Percents(rows)) THEN "validation_error" ELSE "ok"
           q == [Idle(reply) EXCEPT !.income = req[r].income, !.limits = rows]
<1>1. req[r] \in Request /\ req[r].pc = "limits" /\ req \in [Requests -> Request]
    BY DEF SettingsInv, RequestsInv, ReadLimits
<1>2. req' = [req EXCEPT ![r] = q] /\ rows' = rows
    BY <1>1 DEF ReadLimits, Seen, Statements, Request
<1>3. q.pc = "idle" /\ q.limits = rows
    BY DEF Idle
<1> HIDE DEF q
<1> QED
    BY <1>1, <1>2, <1>3

LEMMA LimitsStep ==
    ASSUME SettingsInv, LimitsInv, ConstantsAssumption, [Next]_vars
    PROVE  LimitsInv'
<1>1. ASSUME NEW r \in Requests, NEW percents \in [Category -> 0 .. Whole],
             SaveSettings(r, percents)
      PROVE  LimitsInv'
    <2>1. CASE Answer(r, "validation_error")
        BY <1>1, <2>1, LimitsAnswer DEF SaveSettings
    <2>2. CASE ~ Answer(r, "validation_error")
        <3> DEFINE q == [Idle("none") EXCEPT !.pc = "upsert", !.percents = percents]
        <3>1. req' = [req EXCEPT ![r] = q] /\ rows' = rows /\ ~ Refused(percents)
            BY <1>1, <2>2 DEF SaveSettings
        <3>2. q.pc = "upsert" /\ q.percents = percents
            BY DEF Idle
        <3> HIDE DEF q
        <3> QED
            BY <3>1, <3>2, LimitsStepOfOne
    <2> QED
        BY <2>1, <2>2
<1>2. ASSUME NEW r \in Requests, UpsertIncome(r)
      PROVE  LimitsInv'
    <2> DEFINE q == [req[r] EXCEPT !.pc = "clear", !.save = saves + 1]
    <2>1. req' = [req EXCEPT ![r] = q] /\ rows' = rows /\ req[r].pc = "upsert"
        BY <1>2 DEF UpsertIncome
    <2>2. q.pc = "clear" /\ q.percents = req[r].percents
        BY DEF SettingsInv, RequestsInv, Request
    <2> HIDE DEF q
    <2> QED
        BY <2>1, <2>2, LimitsStepOfOne DEF LimitsInv
<1>3. ASSUME NEW r \in Requests, FindLimits(r)
      PROVE  LimitsInv'
    <2> DEFINE q == [req[r] EXCEPT !.pc = "clearing", !.found = rows]
    <2>1. req' = [req EXCEPT ![r] = q] /\ rows' = rows /\ req[r].pc \in Writing
        BY <1>3 DEF FindLimits, Writing
    <2>2. q.pc = "clearing" /\ q.percents = req[r].percents
        BY DEF SettingsInv, RequestsInv, Request
    <2> HIDE DEF q
    <2> QED
        BY <2>1, <2>2, LimitsStepOfOne DEF LimitsInv
<1>4. ASSUME NEW r \in Requests, ClearLimits(r)
      PROVE  LimitsInv'
    <2> DEFINE q == [req[r] EXCEPT !.pc = "insert", !.deleted = req[r].found \cap rows]
    <2>1. req' = [req EXCEPT ![r] = q] /\ rows' = rows /\ req[r].pc \in Writing
        BY <1>4 DEF ClearLimits, Writing
    <2>2. q.pc = "insert" /\ q.percents = req[r].percents
        BY DEF SettingsInv, RequestsInv, Request
    <2> HIDE DEF q
    <2> QED
        BY <2>1, <2>2, LimitsStepOfOne DEF LimitsInv
<1>5. ASSUME NEW r \in Requests, InsertLimits(r)
      PROVE  LimitsInv'
    <2>1. CASE Inserted(req[r]) = Finished(req[r], "internal_error")
        BY <1>5, <2>1, LimitsAnswer DEF InsertLimits, Answer
    <2>2. CASE Inserted(req[r]) # Finished(req[r], "internal_error")
        <3> DEFINE q == [req[r] EXCEPT !.pc = "commit", !.inserted = NewRows(req[r])]
        <3>1. req' = [req EXCEPT ![r] = q] /\ rows' = rows /\ req[r].pc \in Writing
            BY <1>5, <2>2 DEF InsertLimits, Inserted, Writing
        <3>2. /\ q.pc = "commit" /\ q.percents = req[r].percents
              /\ q.inserted = NewRows(req[r])
            BY DEF SettingsInv, RequestsInv, Request
        <3>3. q.save = req[r].save
            BY DEF SettingsInv, RequestsInv, Request
        <3>4. NewRows(q) = NewRows(req[r])
            BY <3>2, <3>3 DEF NewRows
        <3> HIDE DEF q
        <3> QED
            BY <3>1, <3>2, <3>4, LimitsStepOfOne DEF LimitsInv
    <2> QED
        BY <2>1, <2>2
<1>6. ASSUME NEW r \in Requests, Commit(r)
      PROVE  LimitsInv'
    <2>1. req[r] \in Request /\ req[r].pc = "commit"
        BY <1>6 DEF Commit, SettingsInv, RequestsInv
    <2>2. rows' = NewRows(req[r]) /\ ~ Refused(req[r].percents)
        BY <1>6, <2>1, CommitReplaces DEF LimitsInv, Writing
    <2>3. ~ Refused(Percents(rows'))
        BY <2>1, <2>2, RowsAreRead
    <2>4. /\ req'[r] = Idle("ok")
          /\ \A s \in Requests \ {r} : req'[s] = req[s]
        BY <1>6 DEF Commit, Answer, Finished, SettingsInv, RequestsInv
    <2>5. Idle("ok").pc = "idle"
        BY DEF Idle
    <2> QED
        BY <2>3, <2>4, <2>5 DEF LimitsInv, Writing
<1>7. ASSUME NEW r \in Requests, GetSettings(r)
      PROVE  LimitsInv'
    <2> DEFINE q == [Idle("none") EXCEPT !.pc = "income"]
    <2>1. req' = [req EXCEPT ![r] = q] /\ rows' = rows
        BY <1>7 DEF GetSettings, Statements
    <2>2. q.pc = "income"
        BY DEF Idle
    <2> HIDE DEF q
    <2> QED
        BY <2>1, <2>2, LimitsStepOfOne DEF Writing
<1>8. ASSUME NEW r \in Requests, ReadIncome(r)
      PROVE  LimitsInv'
    <2> DEFINE q == [req[r] EXCEPT !.income = income, !.pc = "limits"]
    <2>1. req' = [req EXCEPT ![r] = q] /\ rows' = rows
        BY <1>8 DEF ReadIncome, Seen, Statements, SettingsInv, RequestsInv, Request
    <2>2. q.pc = "limits"
        BY DEF SettingsInv, RequestsInv, Request
    <2> HIDE DEF q
    <2> QED
        BY <2>1, <2>2, LimitsStepOfOne DEF Writing
<1>9. ASSUME NEW r \in Requests, ReadLimits(r)
      PROVE  LimitsInv'
    <2>1. rows' = rows /\ req'[r].pc = "idle" /\ \A s \in Requests \ {r} : req'[s] = req[s]
        BY <1>9, ReadAnswers
    <2> QED
        BY <2>1 DEF LimitsInv, Writing
<1>10. ASSUME NEW r \in Requests, Abort(r)
       PROVE  LimitsInv'
    BY <1>10, LimitsAnswer DEF Abort
<1>11. CASE UNCHANGED vars
    BY <1>11 DEF vars, LimitsInv
<1> QED
    BY <1>1, <1>2, <1>3, <1>4, <1>5, <1>6, <1>7, <1>8, <1>9, <1>10, <1>11
       DEF Next, Start, Continue, OutOfSaves

\* So they are in every reachable state.
LEMMA LimitsInvariance == Spec => [](SettingsInv /\ LimitsInv)
<1>1. Init => LimitsInv
    BY LimitsInit, ConstantsAssumption
<1>2. SettingsInv /\ LimitsInv /\ [Next]_vars => LimitsInv'
    BY LimitsStep, ConstantsAssumption
<1> QED
    BY <1>1, <1>2, Invariance, PTL DEF Spec

\* Whatever is being saved, a read finds limits that add up.
THEOREM ReadsNeverTorn == Spec => ReadsAddUp
<1>1. SettingsInv /\ LimitsInv /\ [Next]_vars
         => [\A r \in Requests : ReadLimits(r) => ~ Refused(Percents(req'[r].limits))]_vars
    <2> SUFFICES ASSUME SettingsInv, LimitsInv, NEW r \in Requests, ReadLimits(r)
                 PROVE  ~ Refused(Percents(req'[r].limits))
        OBVIOUS
    <2>1. req'[r].limits = rows
        BY ReadAnswers
    <2> QED
        BY <2>1 DEF LimitsInv
<1> QED
    BY <1>1, LimitsInvariance, PTL DEF Spec, ReadsAddUp

\* To whoever reads the tables a save happens at once: the limits of a save replace
\* those of another as a whole, in the order in which the saves took the row.
THEOREM SettingsImplementStore == Spec => ImplementsStore
<1>1. Init => Store!Init
    <2> SUFFICES ASSUME Init PROVE Store!Init
        OBVIOUS
    <2>1. rows = {} /\ Keys(rows) = {}
        BY DEF Init, Keys
    <2>2. [c \in Keys(rows) |-> (CHOOSE x \in rows : x.category = c).percent] = << >>
        BY <2>1
    <2> QED
        BY <2>2 DEF Init, Store!Init
<1>2. SettingsInv /\ LimitsInv /\ [Next]_vars => [Store!Next]_(Store!vars)
    <2> DEFINE limits == [c \in Keys(rows) |-> (CHOOSE x \in rows : x.category = c).percent]
    <2>0. UNCHANGED <<income, rows>> => UNCHANGED Store!vars
        <3> SUFFICES ASSUME UNCHANGED <<income, rows>>
                     PROVE  income' = income /\ limits' = limits
            BY DEF Store!vars
        <3> QED
            BY DEF Keys
    <2> SUFFICES ASSUME SettingsInv, LimitsInv, [Next]_vars
                 PROVE  Store!Next \/ UNCHANGED <<income, rows>>
        BY <2>0, Zenon
    <2>1. ASSUME NEW r \in Requests, Commit(r)
          PROVE  Store!Next
        <3>1. req[r] \in Request /\ req[r].pc = "commit"
            BY <2>1 DEF Commit, SettingsInv, RequestsInv
        <3>2. rows' = NewRows(req[r]) /\ ~ Refused(req[r].percents)
            BY <2>1, <3>1, CommitReplaces DEF LimitsInv, Writing
        <3> DEFINE f == Limited(req[r].percents)
                   n == req[r].save
        <3>3. f = [c \in Keys(rows) |-> (CHOOSE x \in rows : x.category = c).percent]'
            BY <3>1, <3>2, RowsAreRead, ConstantsAssumption
        <3>4. f \in Store!Limits
            <4>1. req[r].percents \in [Category -> 0 .. Whole]
                BY <3>1 DEF Request
            <4>2. DOMAIN f \in SUBSET Category /\ f \in [DOMAIN f -> 1 .. Whole]
                BY <4>1, ConstantsAssumption DEF Limited, ConstantsAssumption
            <4>3. FoldFunction(+, 0, f) \in {0, Whole}
                BY <3>2, Zenon DEF Refused
            <4>4. Store!FoldFunction(+, 0, f) = FoldFunction(+, 0, f)
                BY Zenon DEF Store!FoldFunction, Store!FoldFunctionOnSet, Store!MapThenFoldSet,
                             FoldFunction, FoldFunctionOnSet, MapThenFoldSet
            <4> HIDE DEF f
            <4>5. f \in UNION {[C -> 1 .. Whole] : C \in SUBSET Category}
                BY <4>2, Zenon
            <4> QED
                BY <4>3, <4>4, <4>5, Zenon DEF Store!Limits
        <3>5. n \in 1 .. MaxSaves /\ n > income /\ income' = n
            BY <2>1, CommitReplaces
        <3> HIDE DEF f, n
        <3> QED
            BY <3>3, <3>4, <3>5 DEF Store!Next, Store!Save
    <2>2. ASSUME NEW r \in Requests, ~ Commit(r), Start(r) \/ Continue(r) \/ Abort(r)
          PROVE  UNCHANGED <<income, rows>>
        BY <2>2 DEF Start, Continue, Abort, OutOfSaves, SaveSettings, GetSettings, UpsertIncome,
                    FindLimits, ClearLimits, InsertLimits, ReadIncome, ReadLimits
    <2> QED
        BY <2>1, <2>2 DEF Next, vars
<1> QED
    BY <1>1, <1>2, LimitsInvariance, PTL DEF Spec, ImplementsStore, Store!Spec

-----------------------------------------------------------------------------
(* The page of expenses *)

\* The months that the loop has passed.
Passed == IF page.month = 0 THEN Month ELSE 1 .. page.month - 1

\* The save has made of month m what it makes of it.
MonthSaved(m) == \A c \in Categories : Year[m][c] = Outcome(m, c)

\* A request is of a month that has changed.  The months that the loop has passed are
\* saved, and the others are as they were.
LoopInv ==
    /\ page.pc = "sent" => page.month \in Month /\ Changed(page.month) # {}
    /\ page.pc \in {"saving", "sent"} =>
          \A m \in Month : IF m \in Passed THEN MonthSaved(m) ELSE Year[m] = page.before[m]

\* Until Save is pressed, nothing else happens while the page is opened, and the answer
\* that is on its way is what the table holds.
OpeningInv ==
    page.opening # "over" /\ ~ page.early =>
       /\ page.pc = "idle"
       /\ ~ page.error
       /\ page.opening = "answered" => page.answer = Year

PageInv == PageTypeOK /\ LoadedIsStored /\ OpeningInv /\ LoopInv

-----------------------------------------------------------------------------
(* The table *)

LEMMA ZerosType == Zero \in Row /\ Zeros \in [Month -> Row] /\ 0 \in 0 .. Months
<1>1. 0 \in Amount /\ 0 \in 0 .. Months
    BY PageAssumption DEF PageAssumption, Amount
<1> QED
    BY <1>1 DEF Zero, Zeros, Row

LEMMA YearType ==
    ASSUME PageTypeOK
    PROVE  Year \in [Month -> Row]
BY ZerosType DEF Year, PageTypeOK

\* What is sent of a cell is an amount, unless the server refuses it; a cell that
\* differs is sent; and one that does not and is sent is sent as zero.
LEMMA SentType ==
    ASSUME PageTypeOK, NEW m \in Month, ~ RefusedPayload(Payload(m))
    PROVE  /\ \A c \in Changed(m) : Sent(page.draft[m][c]) \in Amount
           /\ \A c \in Categories : Differs(m, c) => c \in Changed(m)
           /\ \A c \in Changed(m) : ~ Differs(m, c) => Sent(page.draft[m][c]) = 0
<1>1. /\ page.draft \in [Month -> [Categories -> Text]]
      /\ page.base \in [Month -> Row]
    BY DEF PageTypeOK, Page
<1>2. 0 \in Amount /\ Blank \notin Amount
    BY PageAssumption DEF PageAssumption, Amount
<1>3. ASSUME NEW c \in Changed(m)
      PROVE  Sent(page.draft[m][c]) \in Amount
    <2>1. Sent(page.draft[m][c]) # Bad
        BY DEF RefusedPayload, Payload
    <2>2. page.draft[m][c] \in Text
        BY <1>1 DEF Changed
    <2> QED
        BY <1>2, <2>1, <2>2 DEF Sent, Text
<1>4. ASSUME NEW c \in Categories, Differs(m, c)
      PROVE  c \in Changed(m)
    <2>1. page.base[m][c] \in Amount
        BY <1>1 DEF Row
    <2> QED
        BY <1>2, <1>4, <2>1 DEF Differs, Changed, Sent
<1>5. ASSUME NEW c \in Changed(m), ~ Differs(m, c)
      PROVE  Sent(page.draft[m][c]) = 0
    BY <1>5 DEF Differs, Changed, Sent
<1> QED
    BY <1>3, <1>4, <1>5

\* A month that is saved becomes what the save makes of it, and no other month changes.
LEMMA SaveStep ==
    ASSUME PageTypeOK, NEW m \in Month, Changed(m) # {},
           ~ RefusedPayload(Payload(m)), SaveExpense(m, Payload(m))
    PROVE  /\ stored' \in [DOMAIN stored' -> Row \ {Zero}]
           /\ DOMAIN stored' \subseteq Month
           /\ \A x \in Month \ {m} : Year'[x] = Year[x]
           /\ \A c \in Categories : Year'[m][c] = Outcome(m, c)
<1> DEFINE row == Replacement(Payload(m), Year[m])
           months == (DOMAIN stored \ {m}) \cup (IF Kept(row) THEN {m} ELSE {})
<1>1. row \in Row
    BY ZerosType, SentType DEF Replacement, Payload, Row, Zero
<1>2. \A c \in Categories : row[c] = Outcome(m, c)
    BY SentType DEF Replacement, Payload, Outcome
<1>3. stored' = [x \in months |-> IF x = m THEN row ELSE stored[x]]
    BY DEF SaveExpense
<1> HIDE DEF row
<1>4. Kept(row) => row \in Row \ {Zero}
    BY <1>1 DEF Kept
<1>5. stored' \in [DOMAIN stored' -> Row \ {Zero}] /\ DOMAIN stored' \subseteq Month
    BY <1>3, <1>4 DEF PageTypeOK
<1>6. \A x \in Month \ {m} : Year'[x] = Year[x]
    BY <1>3 DEF Year
<1>7. Year'[m] = row
    BY <1>3 DEF Year, Kept
<1> QED
    BY <1>2, <1>5, <1>6, <1>7

-----------------------------------------------------------------------------
(* The page *)

\* What is shown of a year.
LEMMA GridType ==
    /\ \A year \in [Month -> Row] : Grid(year) \in [Month -> [Categories -> Text]]
    /\ NoDraft \in [Month -> [Categories -> Text]]
<1>1. \A a \in Amount : Shown(a) \in Text
    BY DEF Shown, Text
<1> QED
    BY <1>1 DEF Grid, Row, NoDraft, Text

\* A page whose save is over, and one that has stopped at an error.
LEMMA RestedType ==
    ASSUME PageTypeOK
    PROVE  /\ Rested \in Page /\ Stopped \in Page
           /\ Rested.pc = "idle" /\ Rested.opening = page.opening
           /\ Stopped.pc = "idle" /\ Stopped.error
           /\ Stopped.opening = page.opening /\ Stopped.early = page.early
<1>1. /\ Zeros \in [Month -> Row]
      /\ NoDraft \in [Month -> [Categories -> Text]]
      /\ 0 \in 0 .. Months
    BY ZerosType, GridType
<1>2. /\ Rested \in Page /\ Rested.pc = "idle" /\ Rested.error = page.error
      /\ Rested.opening = page.opening /\ Rested.early = page.early
    BY <1>1 DEF Rested, PageTypeOK, Page, Stage
<1> QED
    BY <1>2 DEF Stopped, Page

LEMMA PageInvInit == PageInit => PageInv
<1> SUFFICES ASSUME PageInit
             PROVE  PageInv
    OBVIOUS
<1>1. PageTypeOK
    BY ZerosType, GridType DEF PageInit, PageTypeOK, Page, Stage
<1> QED
    BY <1>1 DEF PageInit, PageInv, LoadedIsStored, OpeningInv, LoopInv

\* The loop goes on after month m, of which the save has made what it makes of it.
LEMMA Onwards ==
    ASSUME PageTypeOK, LoopInv, OpeningInv, page.pc \in {"saving", "sent"},
           NEW m \in Month, page.month = m,
           page' = [page EXCEPT !.pc = "saving", !.month = IF @ = Months THEN 0 ELSE @ + 1],
           \A x \in Month \ {m} : Year'[x] = Year[x],
           \A c \in Categories : Year'[m][c] = Outcome(m, c)
    PROVE  page' \in Page /\ LoadedIsStored' /\ OpeningInv' /\ LoopInv'
<1> USE PageAssumption DEF PageAssumption, Month
<1>1. page' \in Page
    <2>1. \A n \in 0 .. Months : [page EXCEPT !.pc = "saving", !.month = n] \in Page
        BY DEF PageTypeOK, Page, Stage
    <2>2. (IF m = Months THEN 0 ELSE m + 1) \in 0 .. Months
        OBVIOUS
    <2>3. page' = [page EXCEPT !.pc = "saving", !.month = IF m = Months THEN 0 ELSE m + 1]
        BY DEF PageTypeOK, Page
    <2> QED
        BY <2>1, <2>2, <2>3, ZenonT(40)
<1>2. /\ page'.pc = "saving" /\ page'.draft = page.draft /\ page'.base = page.base
      /\ page'.before = page.before /\ page'.opening = page.opening /\ page'.early = page.early
      /\ page'.month = IF m = Months THEN 0 ELSE m + 1
    BY DEF PageTypeOK, Page
<1>3. \A x \in Month : x \in Passed' <=> x = m \/ x \in Passed
    BY <1>2 DEF Passed
<1>4. \A x \in Month, c \in Categories : Outcome(x, c)' = Outcome(x, c)
    BY <1>2 DEF Outcome, Differs, Changed
<1>5. ASSUME NEW x \in Month
      PROVE  (IF x \in Passed THEN MonthSaved(x) ELSE Year[x] = page.before[x])'
    <2>1. CASE x = m
        BY <1>3, <1>4, <2>1 DEF MonthSaved
    <2>2. CASE x # m
        BY <1>2, <1>3, <1>4, <2>2 DEF MonthSaved, LoopInv
    <2> QED
        BY <2>1, <2>2
<1> QED
    BY <1>1, <1>2, <1>5 DEF LoadedIsStored, OpeningInv, LoopInv

LEMMA PageInvStep == PageInv /\ [PageNext]_pageVars => PageInv'
<1> SUFFICES ASSUME PageInv, [PageNext]_pageVars
             PROVE  PageInv'
    OBVIOUS
<1>0. PageTypeOK /\ LoadedIsStored /\ OpeningInv /\ LoopInv
    BY DEF PageInv
<1>1. UNCHANGED stored => Year' = Year
    BY DEF Year
<1>2. ASSUME UNCHANGED stored, page' \in Page
      PROVE  PageTypeOK'
    BY <1>0, <1>2 DEF PageTypeOK
<1>3. ASSUME UNCHANGED stored, page'.pc = page.pc, page'.month = page.month,
             page'.base = page.base, page'.draft = page.draft, page'.before = page.before
      PROVE  LoopInv'
    BY <1>0, <1>1, <1>3 DEF LoopInv, Passed, MonthSaved, Outcome, Differs, Changed
<1>4. ASSUME NEW m \in Month, NEW c \in Categories, NEW text \in Text, Edit(m, c, text)
      PROVE  PageInv'
    <2>1. /\ page' \in Page /\ page'.pc = page.pc /\ page'.month = page.month
          /\ page'.base = page.base /\ page'.draft = page.draft /\ page'.before = page.before
        BY <1>0, <1>4 DEF Edit, PageTypeOK, Page
    <2>2. /\ page'.loaded = page.loaded /\ page'.error = page.error
          /\ page'.opening = page.opening /\ page'.answer = page.answer
          /\ page'.early = page.early
        BY <1>0, <1>4 DEF Edit, PageTypeOK, Page
    <2> QED
        BY <1>0, <1>1, <1>2, <1>3, <1>4, <2>1, <2>2
        DEF Edit, PageInv, LoadedIsStored, OpeningInv
<1>5. CASE Save
    <2>1. /\ page' \in Page /\ page'.pc = "saving" /\ page'.month = 1
          /\ page'.before = Year /\ page'.opening = page.opening
          /\ page'.early = (page.early \/ page.opening # "over")
        <3>1. 1 \in 0 .. Months
            BY PageAssumption DEF PageAssumption
        <3>2. page.grid \in [Month -> [Categories -> Text]] /\ page.loaded \in [Month -> Row]
            BY <1>0 DEF PageTypeOK, Page
        <3> QED
            BY <1>0, <1>5, <3>1, <3>2, YearType DEF Save, PageTypeOK, Page, Stage
    <2>2. Passed' = {} /\ Year' = Year
        BY <1>1, <1>5, <2>1 DEF Save, Passed
    <2> QED
        BY <1>2, <1>5, <2>1, <2>2 DEF Save, PageInv, LoadedIsStored, OpeningInv, LoopInv
<1>6. CASE NextMonth
    <2> DEFINE m == page.month
    <2>1. CASE m \in Month /\ Changed(m) = {}
                /\ page' = [page EXCEPT !.month = IF @ = Months THEN 0 ELSE @ + 1]
        <3>1. page' = [page EXCEPT !.pc = "saving", !.month = IF @ = Months THEN 0 ELSE @ + 1]
            BY <1>0, <1>6, <2>1 DEF NextMonth, PageTypeOK, Page
        <3>2. ~ RefusedPayload(Payload(m))
            BY <2>1 DEF RefusedPayload, Payload
        <3>3. m \notin Passed
            BY <2>1, PageAssumption DEF PageAssumption, Passed, Month
        <3>4. \A c \in Categories : Year'[m][c] = Outcome(m, c)
            BY <1>0, <1>1, <1>6, <2>1, <3>2, <3>3, SentType DEF NextMonth, LoopInv, Outcome
        <3> QED
            BY <1>0, <1>1, <1>2, <1>6, <2>1, <3>1, <3>4, Onwards DEF NextMonth, PageInv
    <2>2. CASE m \in Month /\ Changed(m) # {} /\ page' = [page EXCEPT !.pc = "sent"]
        <3>1. /\ page' \in Page /\ page'.pc = "sent" /\ page'.month = m
              /\ page'.base = page.base /\ page'.draft = page.draft
              /\ page'.before = page.before /\ page'.opening = page.opening
              /\ page'.early = page.early
            BY <1>0, <2>2 DEF PageTypeOK, Page, Stage
        <3>2. LoopInv'
            BY <1>0, <1>1, <1>6, <2>2, <3>1
            DEF NextMonth, LoopInv, Passed, MonthSaved, Outcome, Differs, Changed
        <3> QED
            BY <1>0, <1>1, <1>2, <1>6, <3>1, <3>2
            DEF NextMonth, PageInv, LoadedIsStored, OpeningInv
    <2>3. CASE page' = [page EXCEPT !.pc = AfterSaving, !.error = FALSE]
        <3>1. /\ page' \in Page /\ page'.pc = "loading"
              /\ page'.opening = page.opening /\ page'.early = page.early
            BY <1>0, <2>3 DEF PageTypeOK, Page, Stage, AfterSaving
        <3> QED
            BY <1>0, <1>2, <1>6, <3>1
            DEF NextMonth, PageInv, LoadedIsStored, OpeningInv, LoopInv
    <2> QED
        BY <1>6, <2>1, <2>2, <2>3 DEF NextMonth
<1>7. ASSUME page' = Stopped, page.pc # "idle"
      PROVE  page' \in Page /\ LoadedIsStored' /\ OpeningInv' /\ LoopInv'
    BY <1>0, <1>7, RestedType DEF LoadedIsStored, OpeningInv, LoopInv
<1>8. CASE Serve
    <2>1. CASE page' = Stopped /\ UNCHANGED stored
        BY <1>2, <1>7, <1>8, <2>1 DEF Serve, PageInv
    <2>2. CASE /\ ~ RefusedPayload(Payload(page.month))
               /\ SaveExpense(page.month, Payload(page.month))
               /\ page' = [page EXCEPT !.pc = "saving", !.month = IF @ = Months THEN 0 ELSE @ + 1]
        <3>1. page.pc = "sent" /\ page.month \in Month /\ Changed(page.month) # {}
            BY <1>0, <1>8 DEF Serve, LoopInv
        <3> QED
            BY <1>0, <2>2, <3>1, SaveStep, Onwards DEF PageInv, PageTypeOK
    <2> QED
        BY <1>8, <2>1, <2>2 DEF Serve
<1>9. CASE Fail
    <2>1. stored' \in [DOMAIN stored' -> Row \ {Zero}] /\ DOMAIN stored' \subseteq Month
        BY <1>0, <1>9, SaveStep DEF Fail, LoopInv, PageTypeOK
    <2> QED
        BY <1>7, <1>9, <2>1 DEF Fail, PageInv, PageTypeOK
<1>10. CASE Refresh
    <2>1. /\ Year \in [Month -> Row] /\ Grid(Year) \in [Month -> [Categories -> Text]]
          /\ Rested \in Page /\ Rested.pc = "idle" /\ Rested.opening = page.opening
        BY <1>0, YearType, GridType, RestedType
    <2>2. page' = [Rested EXCEPT !.loaded = Year, !.grid = Grid(Year),
                                 !.early = page.opening # "over"]
        BY <1>10 DEF Refresh
    <2>3. /\ page' \in Page /\ page'.pc = "idle" /\ page'.loaded = Year
          /\ page'.early = (page.opening # "over") /\ page'.opening = page.opening
        BY <2>1, <2>2 DEF Page
    <2> QED
        BY <1>1, <1>2, <1>10, <2>3 DEF Refresh, PageInv, LoadedIsStored, OpeningInv, LoopInv
<1>11. CASE FailRefresh
    BY <1>2, <1>7, <1>11 DEF FailRefresh, PageInv
<1>12. CASE AnswerOpening
    <2>1. /\ page' \in Page /\ page'.opening = "answered" /\ page'.answer = Year
          /\ page'.pc = page.pc /\ page'.error = page.error /\ page'.early = page.early
        BY <1>0, <1>12, YearType DEF AnswerOpening, PageTypeOK, Page
    <2>2. LoopInv'
        BY <1>0, <1>3, <1>12 DEF AnswerOpening, PageTypeOK, Page
    <2> QED
        BY <1>0, <1>1, <1>2, <1>12, <2>1, <2>2
        DEF AnswerOpening, PageInv, LoadedIsStored, OpeningInv
<1>13. CASE Open
    <2>1. /\ page' \in Page /\ page'.opening = "over" /\ page'.loaded = page.answer
          /\ page'.early = page.early
        <3>1. page.answer \in [Month -> Row]
            BY <1>0 DEF PageTypeOK, Page
        <3> QED
            BY <1>0, <1>13, <3>1, ZerosType, GridType DEF Open, PageTypeOK, Page
    <2>2. LoopInv'
        BY <1>0, <1>3, <1>13 DEF Open, PageTypeOK, Page
    <2> QED
        BY <1>0, <1>1, <1>2, <1>13, <2>1, <2>2 DEF Open, PageInv, LoadedIsStored, OpeningInv
<1>14. CASE FailOpening
    <2>1. /\ page' \in Page /\ page'.opening = "over" /\ page'.error
        BY <1>0, <1>14, ZerosType DEF FailOpening, PageTypeOK, Page
    <2>2. LoopInv'
        BY <1>0, <1>3, <1>14 DEF FailOpening, PageTypeOK, Page
    <2> QED
        BY <1>2, <1>14, <2>1, <2>2 DEF FailOpening, PageInv, LoadedIsStored, OpeningInv
<1>15. CASE UNCHANGED pageVars
    BY <1>0, <1>1, <1>2, <1>3, <1>15
    DEF pageVars, PageInv, PageTypeOK, LoadedIsStored, OpeningInv
<1> QED
    BY <1>4, <1>5, <1>6, <1>8, <1>9, <1>10, <1>11, <1>12, <1>13, <1>14, <1>15 DEF PageNext

LEMMA PageInvariance == PageSpec => []PageInv
BY PageInvInit, PageInvStep, PTL DEF PageSpec

-----------------------------------------------------------------------------
(* Theorems *)

\* The table holds amounts of months of the year and no row of zeros, and the page
\* is typed.
THEOREM PageTypeCorrect == PageSpec => []PageTypeOK
<1>1. PageInv => PageTypeOK
    BY DEF PageInv
<1> QED
    BY <1>1, PageInvariance, PTL

\* A page that has been loaded, at rest and without an error, compares edits with what
\* the server holds, however the saves and loads before have ended, unless Save was
\* pressed before the page was loaded.
THEOREM PageIsCurrent == PageSpec => []LoadedIsStored
<1>1. PageInv => LoadedIsStored
    BY DEF PageInv
<1> QED
    BY <1>1, PageInvariance, PTL

\* When the loop of handleSaveExpenses has come to its end, every cell of the table
\* holds what the save makes of it: of what is shown, of what the page had loaded, and,
\* for a month in which nothing is sent, of what was stored before.
THEOREM LoopSavesEdits == PageSpec => EditsStored
<1> DEFINE A == page.pc = "saving" /\ page'.pc # "saving" /\ page.month = 0 =>
                 \A m \in Month, c \in Categories : Year[m][c] = Outcome(m, c)
<1>1. PageInv /\ [PageNext]_pageVars => [A]_pageVars
    BY DEF PageInv, LoopInv, Passed, MonthSaved
<1>2. PageSpec => [][A]_pageVars
    BY <1>1, PageInvariance, PTL DEF PageSpec
<1> QED
    BY <1>2 DEF EditsStored
=============================================================================
