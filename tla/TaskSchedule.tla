---------------------------- MODULE TaskSchedule ----------------------------
(***************************************************************************)
(* The schedule of one task: its status, due date and repetition, from the *)
(* request through internal/todo/domain/task.go to the row and its CHECK   *)
(* constraints.  What other requests do meanwhile, the project and the     *)
(* parent of the task are the business of TodoTasks; here a request is     *)
(* submitted and handled in one step.                                      *)
(*                                                                         *)
(* A date is a point in time for the code and a day for the row.  The      *)
(* handler parses dates in the zone of the server and the driver returns   *)
(* them in UTC, so that one update may compare dates of two zones.         *)
(***************************************************************************)
EXTENDS Calendar, Integers, FiniteSets

CONSTANTS
    Days,       \* the days that requests name
    Intervals,  \* the positive intervals that requests name
    MaxInt4,    \* the largest INTEGER of a column
    Offsets,    \* hours that the zone of the server is ahead of UTC
    MaxColumns, \* bound on the columns of one update
    Unset,      \* a column that an update does not name
    NULL        \* no date, no row, no request

VARIABLES
    offset,     \* the zone of the server
    row,        \* the row of the task, or NULL
    asked,      \* the request in flight, or NULL
    reply       \* the code of the last answer

scheduleVars == <<offset, row, asked, reply>>

Statuses    == {"todo", "in_progress", "done"}
Frequencies == {"none", "daily", "weekdays", "weekends", "weekly", "monthly", "yearly"}
Active(frequency) == frequency \notin {"", "none"}

\* ------------------------------- requests --------------------------------

\* "hourly" and "later" stand for the words that are not valid, texts for the
\* title, the URL, the time and the priority: TRUE when all of them are valid.
Creates ==
    [op : {"create"}, texts : BOOLEAN, status : Statuses \cup {"", "later"},
     due : Days \cup {NULL}, time : BOOLEAN, frequency : Frequencies \cup {"", "hourly"},
     interval : Intervals \cup {-1, 0}, until : Days \cup {NULL}]

Columns == {"texts", "status", "due", "time", "frequency", "interval", "until"}

Patches ==
    {p \in [op : {"update"}, texts : {FALSE, Unset},
            status : Statuses \cup {"later", Unset},
            due : Days \cup {NULL, Unset}, time : BOOLEAN \cup {Unset},
            frequency : Frequencies \cup {"", "hourly", Unset},
            interval : Intervals \cup {-1, Unset}, until : Days \cup {NULL, Unset}] :
        Cardinality({c \in Columns : p[c] # Unset}) \in 1..MaxColumns}

\* The columns of a row that make up its schedule.
Row == [status : Statuses, completed : BOOLEAN, due : Nat \cup {NULL}, time : BOOLEAN,
        frequency : Frequencies, interval : Nat \ {0}, until : Days \cup {NULL}]

ASSUME ScheduleAssumption ==
    /\ Days \subseteq Nat
    /\ Intervals \subseteq Nat \ {0}
    /\ MaxInt4 \in Nat \ {0}
    /\ Offsets \subseteq -23..23
    /\ NULL \notin Int /\ NULL \notin [day : Nat, ahead : Int]
    /\ NULL \notin Creates \cup Patches \cup Row
    /\ Unset \notin Int /\ Unset # NULL /\ Unset \notin BOOLEAN
    /\ Unset \notin Statuses \cup Frequencies \cup {"", "later", "hourly"}

\* ------------------------------ dates, zones ------------------------------

Local(day)  == IF day = NULL THEN NULL ELSE [day |-> day, ahead |-> offset]
Stored(day) == IF day = NULL THEN NULL ELSE [day |-> day, ahead |-> 0]
DayOf(date) == IF date = NULL THEN NULL ELSE date.day

Instant(date) == 24 * date.day - date.ahead
Before(d, e)  == Instant(d) < Instant(e)

\* --------------------------------- rules ----------------------------------

Rejected == [error |-> TRUE]

\* Variant: what ends the repetition leaves its last day.
KeepsUntil(task, frequency, interval, until) ==
    IF frequency \notin Frequencies \cup {""} \/ interval < 0 THEN Rejected
    ELSE [task EXCEPT !.frequency = IF frequency = "" THEN "none" ELSE frequency,
                      !.interval = IF interval = 0 THEN 1 ELSE interval, !.until = until]

SetRepeat(task, frequency, interval, until) ==
    IF frequency \notin Frequencies \cup {""} \/ interval < 0
    THEN Rejected
    ELSE IF Active(frequency)
    THEN [task EXCEPT !.frequency = frequency, !.until = until,
                      !.interval = IF interval = 0 THEN 1 ELSE interval]
    ELSE [task EXCEPT !.frequency = "none", !.interval = 1, !.until = NULL]

\* Variant: the repetition ends after the date, not on it.
EndsLater(task) ==
    /\ task.time => task.due # NULL
    /\ task.frequency \in Frequencies
    /\ task.interval > 0
    /\ Active(task.frequency) =>
         /\ task.due # NULL
         /\ task.until # NULL => Before(task.due, task.until)

ValidSchedule(task) ==
    /\ task.time => task.due # NULL
    /\ task.frequency \in Frequencies
    /\ task.interval > 0
    /\ Active(task.frequency) =>
         /\ task.due # NULL
         /\ task.until # NULL => ~ Before(task.until, task.due)

ApplyStatus(task, status) ==
    IF status \notin Statuses THEN Rejected
    ELSE [task EXCEPT !.status = status, !.completed = (status = "done")]

\* The candidate at which the loop counts down: the first match after a day.
NextMatch(day, weekend) ==
    CHOOSE candidate \in day + 1..day + 7 :
        /\ IsWeekend(candidate) = weekend
        /\ \A passed \in day + 1..candidate - 1 : IsWeekend(passed) # weekend

\* Variant: the date itself is the first candidate.
FromToday(start, interval, weekend) ==
    LET match[n \in 0..interval] ==
            IF n = 0 THEN start - 1 ELSE NextMatch(match[n - 1], weekend)
    IN  match[interval]

NextMatchingDay(start, interval, weekend) ==
    LET match[n \in 0..interval] ==
            IF n = 0 THEN start ELSE NextMatch(match[n - 1], weekend)
    IN  match[interval]

\* The day that the rule of a repetition moves a day to.
NextDay(day, frequency, n) ==
    CASE frequency = "daily"    -> AddDate(day, 0, 0, n)
      [] frequency = "weekdays" -> NextMatchingDay(day, n, FALSE)
      [] frequency = "weekends" -> NextMatchingDay(day, n, TRUE)
      [] frequency = "weekly"   -> AddDate(day, 0, 0, 7 * n)
      [] frequency = "monthly"  -> AddDate(day, 0, n, 0)
      [] frequency = "yearly"   -> AddDate(day, n, 0, 0)

\* The date keeps the zone of the due date.
NextRepeatDate(task) ==
    LET next == [task.due EXCEPT !.day = NextDay(@, task.frequency, task.interval)]
    IN  IF ~ Active(task.frequency) \/ task.due = NULL THEN NULL
        ELSE IF task.until # NULL /\ Before(task.until, next) THEN NULL
        ELSE next

CompleteOrAdvanceRepeat(task) ==
    LET next == NextRepeatDate(task)
    IN  IF next = NULL THEN ApplyStatus(task, "done")
        ELSE [task EXCEPT !.due = next, !.status = "todo", !.completed = FALSE]

\* ------------------------------ the two handlers --------------------------

\* The CHECK constraints of todo_tasks and the width of its interval.
Checks(r) ==
    /\ r.completed <=> r.status = "done"
    /\ r.interval \in 1..MaxInt4
    /\ r.time => r.due # NULL
    /\ r.frequency # "none" => r.due # NULL
    /\ r.frequency = "none" => r.until = NULL
    /\ r.until = NULL \/ r.due = NULL \/ r.until >= r.due

RowOf(task) == [task EXCEPT !.due = DayOf(@), !.until = DayOf(@)]
TaskOf(r)   == [r EXCEPT !.due = Stored(@), !.until = Stored(@)]

\* Variant: a table without constraints.
Unchecked(task) == reply' = "ok" /\ row' = RowOf(task)

\* One INSERT or UPDATE: a constraint that fails is an error like any other.
Write(task) ==
    IF Checks(RowOf(task)) THEN reply' = "ok" /\ row' = RowOf(task)
    ELSE reply' = "internal_error" /\ UNCHANGED row

\* NewTask does not look at the end of a repetition that does not repeat.
NewTask(input) ==
    LET task == [status |-> "todo", completed |-> FALSE, time |-> input.time,
                 due |-> Local(input.due), until |-> Local(input.until),
                 frequency |-> IF input.frequency = "" THEN "none" ELSE input.frequency,
                 interval |-> IF input.interval = 0 THEN 1 ELSE input.interval]
    IN  IF ~ input.texts \/ ~ ValidSchedule(task) THEN Rejected
        ELSE ApplyStatus(task, IF input.status = "" THEN "todo" ELSE input.status)

\* The columns of an update in the order in which the service applies them.
WithDates(task, patch) ==
    [task EXCEPT !.due = IF patch.due = Unset THEN @ ELSE Local(patch.due),
                 !.time = IF patch.time = Unset THEN @ ELSE patch.time]

WithRepeat(task, patch) ==
    IF \A c \in {"frequency", "interval", "until"} : patch[c] = Unset THEN task
    ELSE SetRepeat(task,
                   IF patch.frequency = Unset THEN task.frequency ELSE patch.frequency,
                   IF patch.interval = Unset THEN task.interval ELSE patch.interval,
                   IF patch.until = Unset THEN task.until ELSE Local(patch.until))

WithStatus(task, patch) ==
    CASE patch.status = Unset  -> task
      [] patch.status = "done" -> CompleteOrAdvanceRepeat(task)
      [] OTHER                 -> ApplyStatus(task, patch.status)

Edited(task, patch) ==
    LET edited == WithRepeat(WithDates(task, patch), patch)
    IN  IF \/ patch.texts = FALSE
           \/ patch.interval = -1
           \/ edited = Rejected
        THEN Rejected
        ELSE IF ~ ValidSchedule(edited) THEN Rejected
        ELSE WithStatus(edited, patch)

Settle(task) ==
    /\ IF task = Rejected THEN reply' = "validation_error" /\ UNCHANGED row ELSE Write(task)
    /\ asked' = NULL
    /\ UNCHANGED offset

CreateTask == /\ asked # NULL /\ asked.op = "create"
              /\ Settle(NewTask(asked))

UpdateTask == /\ asked # NULL /\ asked.op = "update"
              /\ Settle(Edited(TaskOf(row), asked))

\* The deletion of the task, which TodoTasks models.
DeleteTask == /\ asked = NULL /\ row # NULL
              /\ row' = NULL /\ reply' = "none"
              /\ UNCHANGED <<offset, asked>>

\* Bound: a task that has been moved to a day that no request names is only deleted.
Submit ==
    /\ asked = NULL
    /\ asked' \in IF row = NULL THEN Creates ELSE Patches
    /\ row # NULL => row.due \in Days \cup {NULL}
    /\ reply' = "none"
    /\ UNCHANGED <<offset, row>>

ScheduleInit ==
    /\ offset \in Offsets
    /\ row = NULL
    /\ asked = NULL
    /\ reply = "none"

ScheduleNext == Submit \/ CreateTask \/ UpdateTask \/ DeleteTask

ScheduleSpec == ScheduleInit /\ [][ScheduleNext]_scheduleVars

\* ------------------------------- properties -------------------------------

\* A row is one that a request can name, or one that a repetition moved on.
ScheduleTypeOK ==
    /\ offset \in Offsets
    /\ reply \in {"none", "ok", "validation_error", "internal_error"}
    /\ asked = NULL \/ asked \in Creates \cup Patches
    /\ row \in Row \cup {NULL}
    /\ row # NULL => Checks(row)

Handled(op) == asked # NULL /\ asked' = NULL /\ asked.op = op

\* The schedule that a patch asks for, by the calendar alone.
Wanted(patch) ==
    LET col(c) == IF patch[c] = Unset THEN row[c] ELSE patch[c]
    IN  [due |-> col("due"), time |-> col("time"), until |-> col("until"),
         frequency |-> col("frequency"), interval |-> col("interval")]

MixedZones(patch) ==
    (patch.due = Unset) # (patch.until = Unset) /\ offset # 0

\* The code and the CHECK constraints agree on what a schedule is: the database
\* refuses nothing that the code lets through but a number too large for its
\* column and, at a creation, the end of a repetition that does not repeat.
ConstraintsAgree ==
    [][reply' = "internal_error" =>
         \/ asked.interval \in Nat /\ asked.interval > MaxInt4
         \/ /\ asked.op = "create"
            /\ ~ Active(asked.frequency) /\ asked.until # NULL]_scheduleVars

\* The code refuses an update of the schedule for no other reason than a time or a
\* repetition without a date or an end before the date, where it is wrong only when
\* they are the same day and named in two zones.
RefusalsAreRight ==
    [][/\ Handled("update") /\ reply' = "validation_error"
       /\ asked.texts # FALSE /\ asked.status # "later"
       /\ asked.frequency # "hourly" /\ asked.interval # -1
       => LET w == Wanted(asked)
          IN  \/ w.due = NULL /\ (w.time \/ Active(w.frequency))
              \/ Active(w.frequency) /\ w.until < w.due
              \/ MixedZones(asked) /\ w.until = w.due]_scheduleVars

\* Where the k-th occurrence after a day is.
Occurrence(frequency, k, from, to) ==
    LET c == Civil(from)
        d == Civil(to)
        months == IF frequency = "yearly" THEN 12 * k ELSE k
        target == c.month + months      \* counted from the January before
        apart  == 12 * (d.year - c.year) + d.month
        length == DaysIn(c.year + (target - 1) \div 12, ((target - 1) % 12) + 1)
        weekends == Cardinality({i \in from + 1..to : IsWeekend(i)})
    IN  CASE frequency = "daily"    -> to = from + k
          [] frequency = "weekly"   -> to = from + 7 * k
          [] frequency = "weekends" -> IsWeekend(to) /\ weekends = k
          [] frequency = "weekdays" -> ~ IsWeekend(to) /\ to - from - weekends = k
          [] OTHER -> IF c.day <= length THEN apart = target /\ d.day = c.day
                      ELSE apart = target + 1 /\ d.day = c.day - length

\* Done moves a repeating task to the next occurrence of its rule, open again, and
\* never past the end of the repetition; the last occurrence, and what does not
\* repeat, stays done.  A day that the month lacks is carried into the next month.
AdvanceKeepsRule ==
    [][Handled("update") /\ reply' = "ok" /\ asked.status = "done" =>
         LET w == Wanted(asked)
         IN  \/ /\ row'.status = "todo" /\ Active(row'.frequency)
                /\ Occurrence(row'.frequency, row'.interval, w.due, row'.due)
                /\ row'.until = NULL \/ row'.due <= row'.until
             \/ /\ row'.status = "done" /\ row'.due = w.due
                /\ \/ ~ Active(row'.frequency)
                   \/ \E next \in w.due + 1..w.due + 366 * (row'.interval + 1) :
                        /\ Occurrence(row'.frequency, row'.interval, w.due, next)
                        /\ \/ row'.until < next
                           \/ MixedZones(asked) /\ row'.until = next]_scheduleVars
=============================================================================
