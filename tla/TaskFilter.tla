----------------------------- MODULE TaskFilter -----------------------------
(***************************************************************************)
(* The list of tasks: which tasks a filter selects and in which order.     *)
(* The service knows it twice: ApplyTaskFilter of application/filter.go is *)
(* what its tests list with, listTasksQuery and orderByClause of           *)
(* adapters/postgres/repository.go is what the database lists with.        *)
(*                                                                         *)
(* A title is its place among the titles in lower case, a time the minute  *)
(* of the day.  text says what a search finds in the title, the notes or   *)
(* the URL: "word", "wild" and "escaped" hold that query itself.  The      *)
(* database hands the query to LIKE as it is typed: "resembles" is found   *)
(* when the % or _ of "wild" stands for something else, and "unescaped" is *)
(* what LIKE looks for when it takes the backslash of "escaped" for its    *)
(* escape character.                                                       *)
(* Dates are days, as in the tests and in the database.                    *)
(***************************************************************************)
EXTENDS Integers

CONSTANTS
    TaskIds,
    TaskRows,   \* the tasks that may be stored
    Projects,
    Archived,   \* those that are archived
    LastDay,    \* bound on the clock
    LastMinute, \* of the day
    None        \* no project, no date, no time, any status, no search

Tasks == [project : Projects \cup {None}, status : {"todo", "in_progress", "done"},
          due : Nat \cup {None}, time : Nat \cup {None}, flagged : BOOLEAN,
          priority : {"none", "low", "medium", "high"}, created : Nat, title : Nat,
          text : {"none", "word", "wild", "resembles", "escaped", "unescaped"}]

\* The searches.
Queries == {"word", "wild", "escaped"}

ASSUME FilterAssumption ==
    /\ TaskIds \subseteq Nat
    /\ TaskRows \subseteq Tasks
    /\ Archived \subseteq Projects
    /\ LastDay \in Nat /\ LastMinute \in Nat
    /\ None \notin Nat \cup Queries

VARIABLES
    table,      \* the task of each id, or None
    now         \* the clock of the server

filterVars == <<table, now>>

Views == {"inbox", "today", "upcoming", "overdue", "scheduled", "flagged"}

\* What taskListFilter lets through; "" is a view of everything.
Filters == [view : Views \cup {""}, status : {"todo", "in_progress", "done", None},
            project : Projects \cup {None}, query : Queries \cup {None}]
Sorts == {"smart", "due", "created", "title", "priority"}
Directions == {"asc", "desc"}

Task(id) == table[id]
StoredIds == {id \in TaskIds : table[id] # None}
Open(t) == t.status # "done"

\* ------------------------------- selection --------------------------------

\* Variant: a task is overdue from the minute that it is due.
OverdueAtOnce(t) ==
    /\ t.due # None
    /\ \/ t.due < now.day
       \/ t.due = now.day /\ t.time # None /\ t.time <= now.minute

TaskOverdue(t) ==
    /\ t.due # None
    /\ \/ t.due < now.day
       \/ t.due = now.day /\ t.time # None /\ t.time < now.minute

InView(t, view) ==
    CASE view = "inbox"     -> Open(t) /\ t.project = None
      [] view = "today"     -> Open(t) /\ t.due # None /\ ~ (t.due > now.day)
      [] view = "upcoming"  -> Open(t) /\ t.due # None /\ t.due > now.day
      [] view = "overdue"   -> Open(t) /\ TaskOverdue(t)
      [] view = "scheduled" -> Open(t) /\ t.due # None
      [] view = "flagged"   -> Open(t) /\ t.flagged
      [] OTHER              -> TRUE

TaskMatchesFilter(t, f) ==
    /\ InView(t, f.view)
    /\ f.status = None \/ t.status = f.status
    /\ f.project = None \/ t.project = f.project
    /\ f.query = None \/ t.text = f.query

\* A comparison is negative, zero or positive.
Compare(a, b) == IF a < b THEN -1 ELSE IF a > b THEN 1 ELSE 0

\* A comparison with a missing value selects nothing.
DueBy(t, signs) == t.due # None /\ Compare(t.due, now.day) \in signs

\* Variant: today is the list of one day.
OnlyToday(t, view) ==
    CASE view = "today"     -> DueBy(t, {0}) /\ t.status # "done"
      [] view = "upcoming"  -> DueBy(t, {1}) /\ t.status # "done"
      [] view = "overdue"   -> DueBy(t, {-1}) /\ t.status # "done"
      [] view = "scheduled" -> DueBy(t, {-1, 0, 1}) /\ t.status # "done"
      [] OTHER              -> TRUE

ViewConditions(t, view) ==
    CASE view = "inbox"     -> t.project = None /\ t.status # "done"
      [] view = "today"     -> DueBy(t, {-1, 0}) /\ t.status # "done"
      [] view = "upcoming"  -> DueBy(t, {1}) /\ t.status # "done"
      [] view = "overdue"   -> /\ \/ DueBy(t, {-1})
                                  \/ /\ DueBy(t, {0})
                                     /\ t.time # None /\ t.time < now.minute
                               /\ t.status # "done"
      [] view = "scheduled" -> DueBy(t, {-1, 0, 1}) /\ t.status # "done"
      [] view = "flagged"   -> t.flagged /\ t.status # "done"
      [] OTHER              -> TRUE

\* The texts in which LIKE finds a query.
Like(query) ==
    CASE query = "wild"    -> {"wild", "resembles"}
      [] query = "escaped" -> {"unescaped"}
      [] OTHER             -> {query}

\* A list that does not name a project leaves out those of archived projects.
ListTasksQuery(t, f) ==
    /\ ViewConditions(t, f.view)
    /\ f.status # None => t.status = f.status
    /\ IF f.project # None THEN t.project = f.project ELSE t.project \notin Archived
    /\ f.query # None => t.text \in Like(f.query)

\* --------------------------------- order ----------------------------------
CompareNullable(a, b) ==
    CASE a = None /\ b = None -> 0
      [] a = None /\ b # None -> 1
      [] a # None /\ b = None -> -1
      [] OTHER                -> Compare(a, b)

\* What tells two tasks apart: another comparison when the first one ties.
FirstDifference(first, second) == IF first # 0 THEN first ELSE second

DoneRank(t) == IF t.status = "done" THEN 1 ELSE 0
FlagRank(t) == IF t.flagged THEN 1 ELSE 0
PriorityRank(t) ==
    CASE t.priority = "high" -> 3 [] t.priority = "medium" -> 2
      [] t.priority = "low"  -> 1 [] OTHER -> 0

CompareDue(l, r) ==
    FirstDifference(CompareNullable(l.due, r.due), CompareNullable(l.time, r.time))

CompareTasks(l, r, sort) ==
    CASE sort = "due"      -> CompareDue(l, r)
      [] sort = "created"  -> Compare(l.created, r.created)
      [] sort = "title"    -> Compare(l.title, r.title)
      [] sort = "priority" -> Compare(PriorityRank(l), PriorityRank(r))
      [] OTHER -> FirstDifference(Compare(DoneRank(l), DoneRank(r)),
                  FirstDifference(CompareDue(l, r),
                  FirstDifference(Compare(PriorityRank(r), PriorityRank(l)),
                  FirstDifference(Compare(FlagRank(r), FlagRank(l)),
                                  -Compare(l.created, r.created)))))

\* The comparison of sortTasks.
SortTasks(i, j, sort, direction) ==
    LET by == CompareTasks(Task(i), Task(j), sort)
    IN  FirstDifference(Compare(DoneRank(Task(i)), DoneRank(Task(j))),
        FirstDifference(IF direction = "desc" /\ sort # "smart" THEN -by ELSE by,
                        Compare(i, j)))

\* Variant: the order of the database when it is not told where NULL goes.
NullsLargest(a, b, descending) ==
    IF descending THEN CompareNullable(b, a) ELSE CompareNullable(a, b)

NullsLast(a, b, descending) ==
    IF a = None \/ b = None THEN CompareNullable(a, b)
    ELSE IF descending THEN Compare(b, a) ELSE Compare(a, b)

OrderByClause(i, j, sort, direction) ==
    LET l == Task(i)
        r == Task(j)
        descending == direction = "desc" /\ sort # "smart"
        By(a, b) == IF descending THEN Compare(b, a) ELSE Compare(a, b)
        due == FirstDifference(NullsLast(l.due, r.due, descending),
                               NullsLast(l.time, r.time, descending))
        keys == CASE sort = "due"      -> FirstDifference(due, By(i, j))
                  [] sort = "created"  -> FirstDifference(By(l.created, r.created), By(i, j))
                  [] sort = "title"    -> FirstDifference(By(l.title, r.title), By(i, j))
                  [] sort = "priority" ->
                        FirstDifference(By(PriorityRank(l), PriorityRank(r)), By(i, j))
                  [] OTHER -> FirstDifference(due,
                              FirstDifference(Compare(PriorityRank(r), PriorityRank(l)),
                              FirstDifference(Compare(FlagRank(r), FlagRank(l)),
                              FirstDifference(Compare(r.created, l.created), Compare(j, i)))))
    IN  FirstDifference(Compare(DoneRank(l), DoneRank(r)), keys)

\* -------------------------------- behaviour -------------------------------

\* The writes of other requests, and of midnight.
Store == \E id \in TaskIds, t \in TaskRows \cup {None} :
            /\ table' = [table EXCEPT ![id] = t]
            /\ UNCHANGED now

Tick ==
    /\ \/ now.minute < LastMinute /\ now' = [now EXCEPT !.minute = @ + 1]
       \/ now.day < LastDay /\ now' = [day |-> now.day + 1, minute |-> 0]
    /\ UNCHANGED table

FilterInit == /\ table = [id \in TaskIds |-> None]
              /\ now = [day |-> 0, minute |-> 0]

FilterNext == Store \/ Tick

FilterSpec == FilterInit /\ [][FilterNext]_filterVars

\* ------------------------------- properties -------------------------------

\* The table is typed and the clock is within the day.
FilterTypeOK ==
    /\ table \in [TaskIds -> Tasks \cup {None}]
    /\ now \in [day : 0..LastDay, minute : 0..LastMinute]

\* The database selects what the service's own filter selects, but for the tasks of
\* archived projects, for a search whose % or _ it reads as wildcards, and for one with
\* a backslash, which finds not itself but what it escapes.
SameSelection ==
    \A id \in StoredIds, f \in Filters :
        LET t == Task(id)
        IN  ListTasksQuery(t, f) <=>
               \/ /\ TaskMatchesFilter(t, f)
                  /\ f.project # None \/ t.project \notin Archived
                  /\ f.query # "escaped"
               \/ /\ \/ f.query = "wild" /\ t.text = "resembles"
                     \/ f.query = "escaped" /\ t.text = "unescaped"
                  /\ ListTasksQuery(t, [f EXCEPT !.query = None])

\* The comparison without what makes it strict.
Tied(i, j, sort) ==
    /\ DoneRank(Task(i)) = DoneRank(Task(j))
    /\ CompareTasks(Task(i), Task(j), sort) = 0

\* Both put two tasks in the same order, ascending or descending, unless they tie,
\* where only the database lets the direction turn the ids around and smart lists
\* show the newer first, or one of them has no date or no time in a descending
\* list: that one is last in the database and first in the service's own filter.
SameOrder ==
    \A i, j \in StoredIds, sort \in Sorts, direction \in Directions :
        LET undated == (Task(i).due = None) # (Task(j).due = None)
            untimed == Task(i).due = Task(j).due /\ (Task(i).time = None) # (Task(j).time = None)
            mine   == SortTasks(i, j, sort, direction)
            theirs == OrderByClause(i, j, sort, direction)
        IN  IF Tied(i, j, sort)
            THEN theirs = (IF sort = "smart" \/ direction = "desc" THEN -mine ELSE mine)
            ELSE IF /\ sort = "due" /\ direction = "desc" /\ (undated \/ untimed)
                    /\ DoneRank(Task(i)) = DoneRank(Task(j))
            THEN theirs = -mine
            ELSE theirs = mine

\* Whether a task is listed in a view of the database.
Listed(id, view) ==
    id \in StoredIds /\ ListTasksQuery(Task(id), [view |-> view, status |-> None,
                                               project |-> None, query |-> None])

\* As time passes a task moves one way, from upcoming to today to overdue, and is
\* scheduled all the while; no midnight loses it or lists it in both.
ViewsMoveForward ==
    [][now' # now => \A id \in TaskIds :
         /\ Listed(id, "scheduled") => (Listed(id, "today") # Listed(id, "upcoming"))
         /\ Listed(id, "overdue") => Listed(id, "today")
         /\ table'[id] = table[id] =>
              /\ Listed(id, "today") => Listed(id, "today")'
              /\ Listed(id, "overdue") => Listed(id, "overdue")'
              /\ Listed(id, "scheduled") = Listed(id, "scheduled")']_filterVars
=============================================================================
