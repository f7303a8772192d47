# A verification development of anton415 Hub

TLA+ modules of the server and the web client of this repository, the TLC
configurations that check them on small instances, and theorems about them with
proofs for TLAPS. Paths are relative to the repository (`src/` here).

1. [The system](#the-system)
2. [Plan](#plan)
3. [The modules](#the-modules)
4. [The runs](#the-runs)
5. [The proofs](#the-proofs)
6. [What the runs have shown](#what-the-runs-have-shown)
7. [What is left out](#what-is-left-out)

## The system

A modular monolith in Go (`apps/api`, `internal/`) over one PostgreSQL database
(`migrations/`), and a React client (`apps/web`). Every module of the server has the
same layers: HTTP handlers (parse, call a use case, map errors to status codes),
an application service (rules that need the repository), a domain package (rules
over one value) and a repository (one method per SQL statement or transaction).

The server keeps no state between requests but the database and the rate
limiter's map. `net/http` runs every request in a goroutine of its own, with a pool
of five database connections. A use case calls several repository methods one after
the other and **holds neither a lock nor a transaction between them**; only
`DeleteProject` (todo) and `SaveFinanceSettings` open a transaction. So requests
interleave statement by statement, whatever a user does in two tabs, by a double
click or by a retry. That is what most of the models are about.

| component | state | operations | what is hard | what makes it correct |
|---|---|---|---|---|
| todo projects (`internal/todo`) | `todo_projects`: a row with a name, dates, an archived flag and a parent in the same table | create, update (also moves), archive, restore, delete | the walk over the ancestors and the write are separate statements; the whole row that was read is written back | a forest; no dangling parent; nothing is undone by a stale copy; what is deleted stays deleted |
| todo tasks (`internal/todo`) | `todo_tasks`: a project, a parent task, and columns of its own | create, patch, delete, list; deletion with the project | as above, and a transaction of two `DELETE`s with cascades and row locks | a forest; references exist; a project goes together with exactly its tasks; no lost locks |
| task status and recurrence (`todo/domain/task.go`) | one row | `ValidateSchedule`, `ApplyStatus`, `CompleteOrAdvanceRepeat`, `NextRepeatDate` | rules stated twice (Go, CHECK constraints); end-of-month arithmetic; done is not idempotent on a repeating task | every row the code writes satisfies the constraints; dates move forward |
| todo list filters (`todo/application/filter.go`, `listTasksQuery`) | none | the six views, status, priority and search | written in Go and again in SQL | both select and order alike |
| auth rate limiter (`internal/auth/adapters/http/rate_limit.go`) | a map of buckets under a mutex | `Allow`, `cleanup` | the time is taken before the mutex; memory | at most the limit per window; nobody refused without cause; a small map |
| auth sign-in (`internal/auth`) | `auth_oauth_states`, `auth_email_tokens`, `auth_sessions`, a cookie | start and complete OAuth, start and complete a mail link, session check, logout | tickets are spent before the session exists; failures in between; logout beside requests | a ticket is used once, in its life time, by the right provider; a revoked session stays out |
| finance (`internal/finance`) | `finance_monthly_expense_actuals`, `finance_monthly_income_actuals`, `finance_settings`, `finance_expense_limit_settings` | list a year, save a month, read and save settings | two reads outside a transaction; rows that are replaced as a whole | a month is what was saved last; settings are of one version |
| web pages (`apps/web/src/app/components`) | local copies of projects, tasks and months | load, edit, delete; a loop that saves twelve months | answers that come late; local rows that refer to deleted ones; a loop that stops in the middle | the page shows what the server holds |
| platform (`internal/platform`, `apps/api/main.go`) | the pool | connect, serve, shut down | requests in flight at shutdown | a request is done or undone |
| deployment (`deploy`, `infra`, `.github/workflows`) | files on a host | migrate, cut over, back up | a run that stops in the middle | a repeated run does no harm |
| `internal/investments`, `internal/fire` | none | none | empty packages | |

Interactions: the client calls the handlers over HTTP with a session cookie; the
auth middleware resolves the cookie before the todo and finance handlers run, and
the rate limiter stands before the handlers that start or complete a sign-in; the
modules share the database and nothing else. Inside todo, the two tables meet in
`DeleteProject`, in the foreign key `todo_tasks.project_id ON DELETE CASCADE` and in
`ensureProjectExists`.

`PROJECT.json` lists the components again with what is modelled of each, and under
"hazards" every place of this code where an order of events, a failure or a boundary
would hardly be met by a test, with the properties that watch it.

## Plan

In the order of what can go wrong most, and as far as it is carried out:

1. **Projects** - `Hierarchy`, `ProjectForest` (abstract), `TodoProjects`, proofs.
2. **Tasks and the deletion of a project** - `TaskBoard` (abstract), `TodoTasks`, proofs.
3. **The rate limiter** - `RateLimiter`, proofs.
4. **Sign-in** - `Gate` (abstract), `SignIn`, proofs.
5. **Finance** - `SettingsStore` (abstract), `FinanceSettings`, proofs; `FinancesPage`, the
   loop that saves the expenses, proofs; `FinanceMonths`, amounts and their totals, proofs.
6. **Schedules** - `Calendar`, `TaskSchedule`: the rules over one task against the
   constraints of the migrations and a reference definition of the next date; proofs.
7. **Filters** - `TaskFilter`: the Go filter against the SQL query; proofs.

Every property that a run finds to hold is proved as well, but for `EveryRequestAnswered`.

Not begun: the pages of the tasks (local rows after deletions, answers out of order), the
table of income on the finances page.

## The modules

| module | models | extends |
|---|---|---|
| `Hierarchy` | the parent relation of the two self-referencing tables: `UpClosed`, `IsAncestor`, `Acyclic`, as facts over sets, without recursion | |
| `HierarchyTheorems` | five lemmas on them: a forest stays one when rows go, when a leaf is added, when a row is moved to a place whose ancestors do not hold it; no row is above its own parent | `Hierarchy`, `TLAPS` |
| `ProjectForest` | what the project store promises: atomic operations on a forest | `Hierarchy` |
| `TodoProjects` | the handlers, use cases and statements on `todo_projects` | `Hierarchy` |
| `TodoProjectsProofs` | six theorems on it | `TodoProjects`, `HierarchyTheorems` |
| `TaskBoard` | what the task store promises: atomic operations on projects and tasks | `Hierarchy` |
| `TodoTasks` | the use cases and statements on `todo_tasks`, and the transaction of `DeleteProject`, with row locks | `Hierarchy` |
| `TodoTasksProofs` | five theorems on it | `TodoTasks`, `HierarchyTheorems` |
| `RateLimiter` | `rate_limit.go` | `Integers`, `FiniteSets`, `Functions` |
| `RateLimiterProofs` | six theorems on it | `RateLimiter`, `FiniteSetTheorems`, `TLAPS` |
| `SettingsStore` | what the finance settings promise: one value that is replaced as a whole | `Functions` |
| `FinanceSettings` | the statements and the transaction on the two tables of the settings | `Functions` |
| `FinancesPage` | the table of expenses of `FinancesPage.tsx`, and the handlers it calls | `Integers` |
| `FinanceProofs` | six theorems on the settings, three on the page | `FinanceSettings`, `FinancesPage`, `TLAPS` |
| `Gate` | what sign-in promises of one ticket: it opens the gate at most once, for an allowed address | |
| `SignIn` | tickets, sessions, the cookie and the statements of every request of `internal/auth` | `Naturals`, `FiniteSets` |
| `SignInProofs` | seven theorems on it, one that it implements `Gate` | `SignIn`, `TLAPS` |
| `Calendar` | the dates of Go's package time | `Naturals` |
| `TaskSchedule` | status, due date and repetition of one task, from the request to the CHECK constraints | `Calendar` |
| `TaskScheduleProofs` | four theorems on it, and the lemmas on the calendar | `TaskSchedule`, `FiniteSetTheorems`, `WellFoundedInduction`, `TLAPS` |
| `TaskFilter` | `application/filter.go` and `listTasksQuery`, side by side | `Integers` |
| `FinanceMonths` | `money.go`, `monthly.go` and the use cases of the months of a year | `FiniteSetsExt` |
| `MCTodoProjects`, `MCTodoTasks`, `MCRateLimiter`, `MCSignIn`, `MCFinancesPage` | constants and symmetries of the runs | |
| `MCFinance` | `FinanceSettings` and `FinancesPage` in one run, of which a behaviour takes one | both |
| `MCRules` | `TaskSchedule`, `TaskFilter` and `FinanceMonths` likewise | all three |
| `RulesProofs` | four theorems on `TaskFilter`, two on `FinanceMonths`, two on the three of `MCRules` | `MCRules`, `TaskScheduleProofs` |

An operator preceded by "Variant:" is a plausible mistake in the operator after it,
with the same parameters. No specification uses it; putting it in the place of the
correct one shows that a property can fail.

### Todo projects

State: `projects` is the table, a function from the existing ids to rows; `issued` the
ids the sequence has handed out; `req` one record per request slot, with the statement
the request comes to next (`pc`), the row it will write and the state of its walk.

| action | code |
|---|---|
| `CreateProject`, `UpdateProject`, `SetArchivedProject` | the handler and the use case up to and including the first statement (`service.go` 90-134): the read of the row that will be written back, or the early refusals |
| `WalkParent` | one iteration of the loop of `ensureProjectParent` (352-382) |
| `InsertProject`, `RewriteProject` | the validation of `domain.NewProject` / `UpdateProject` and the statement, with its foreign key and CHECK constraint |
| `DeleteProject` | the transaction of `repository.go` 108-138. On `todo_projects` alone it is one step; `TodoTasks` takes it apart |
| `Abort` | any failure of a statement, a cancelled context, a broken connection, the end of the process |

`name` stands for the name and the two dates: validation refuses them together, before
anything is written, and `NULL` as the input is the refused one. Parsing (of the JSON,
of ids that are not positive) happens before any effect and is left out, and so are
timestamps. A reply that is lost changes nothing on the server.

`Writers` are the slots that may run an update, an archive or a restore. With one
writer the code is correct; with two it is not, see below.

### Todo tasks

The state is as above with two tables. Of a row only `project_id` and `parent_task_id` are
kept, for only these relate rows to each other; a request that changes neither stands
for every edit of other columns, and `RefuseTask` for their validation. That comes after
the last read of `ensureProjectExists` and `ensureTaskParent` and before the statement that writes, so a request that
waits for a lock is not refused any more; a request that reads nothing between its
first statement and that one is refused with its first (`CreateTask`, `UpdateTask`).

The statements that write wait for row locks, and `DeleteProject` holds them over two
statements, so these are taken apart: `LockTask` / `RewriteTask` for the `UPDATE`;
`DeleteRow`, `FindChildren`, `DetachChild`, `EndDelete` for a `DELETE` with its
`ON DELETE SET NULL`; `DropProject` for the second statement. What a transaction has deleted
or updated and not committed is in its record (`deleting`, `updating`, `dropping`), which
is both its locks and the changes others do not see yet. `KeyShared` is the lock a
foreign key check takes on the row referred to, `Checked` the columns it is taken for
(PostgreSQL checks those that changed), `BreakDeadlock` the deadlock detector. These
are PostgreSQL's, at its default isolation level, modelled from how the statements use
it. The two checks of one row are made at once.

`Movers` are the writers that may send `parent_task_id`. Projects are not created here:
ids are not reused (`DeletedStaysDeleted` of `TodoProjects`), so a new project is a project nobody
has referred to yet.

### Rate limiter

`clock` is the time, `buckets` and `lastCleanup` the two fields of the limiter, `req` the requests
between taking the time (`Arrive`, line 59) and the mutex. `Admit` and `Refuse` are the
whole of the critical section: sweep, find the bucket, count, store it, answer.
`admitted` is a history variable, which no guard reads: the set of the requests that were
allowed, each with its key, the reset and the number it had in its bucket, and the clock
when it was served. `MaxStall` bounds how long a request waits for the mutex, and is
assumed shorter than a window; the code guarantees that in no way, but the section does
a few map operations and windows are of minutes.

`AtMostTwoWindows` says what a fixed window can promise: in any span of `Window - MaxStall` a key
is allowed at most twice the limit, the end of one bucket and the beginning of the
next. A whole window can hold more, which TLC shows: a bucket that is created by a
stalled request ends as much earlier as the request has waited, and a third one may begin
before the window is over.
A restart of the process empties the map: it is `Init` again, and every bound holds per
run of the process.

### Finance settings

State: `income` and `rows` are the two tables as committed, `saves` counts the saves that
have begun to write, `req` is one record per request slot.

| action | code |
|---|---|
| `SaveSettings` | the handler and `domain.NewFinanceSettings` up to the first statement |
| `UpsertIncome` | the upsert of the only row of `finance_settings` (`repository.go` 217-231), which waits while another transaction has written it |
| `FindLimits`, `ClearLimits` | the `DELETE` (233-235): it looks for rows when it begins and deletes them when nobody else is deleting them |
| `InsertLimits` | the loop of `INSERT`s (237-248) as one step: the transaction holds the row of `finance_settings`, and nobody sees them before the commit |
| `Commit`, `Abort` | the end of the transaction; a failure anywhere rolls it back (213-215) |
| `GetSettings`, `ReadIncome`, `ReadLimits` | `GetFinanceSettings`: two statements without a transaction, then `NewFinanceSettings` on what was found |

The salary and the bonus stand behind the number of the save they come from, and
every row of the limits carries that number too, so that two versions can be told apart
although the tables have no version. `SaveSettings` always sets `HasIncomeSettings`, so the
branch that deletes the row of `finance_settings` cannot be taken and is left out. `Whole` is the
hundred percent, in units large enough for the run's categories to share them.

### Finances page

State: `stored` are the rows of one year, `page` what the page holds: `loaded` as the server
answered, `grid` as it is edited, the load of its opening (`opening`, `answer`), and of a save
`base` and `draft`, which are `loaded` and `grid` as the closure of `handleSaveExpenses` has them, the
month its loop is at and, as history that no guard reads, the table when it was pressed (`before`).

| action | code (`FinancesPage.tsx`) |
|---|---|
| `PageInit`, `AnswerOpening`, `Open`, `FailOpening` | the `refresh` of the effect (138-141): asked for, answered by the server, shown, failed. Meanwhile the rest of the page goes on |
| `Edit` | `handleExpenseChange` |
| `Save` | `handleSaveExpenses` is called. The button is disabled while a save runs (341), and not while the page loads |
| `NextMonth` | the control of the loop (154-172); after it, `refresh` clears the error |
| `Serve`, `Fail` | a request that is answered (the whole of `SaveExpense` on the server is one statement); one that is lost, with or without its effect |
| `Refresh`, `FailRefresh` | the `refresh` at the end of the loop |

An amount stands for every text that normalises to it; `Blank` is the empty cell, `Bad` any
text that the server refuses. A page that has no answer yet compares with `"0.00"`
(`original?.category_amounts[code] ?? "0.00"`, 161), which is a loaded year of zeros: `Zeros`.

One page, one year and no other client: what the page does wrong it does alone. A lost
request takes effect before the page sees the error or not at all. Going to another year is
left out, with what a late answer of the year before does then.

`EditsStored` says what a save makes of every cell when its loop has come to the end, exactly,
and so also what it gets wrong: a cell of a month that was sent and does not differ
becomes zero, and a cell that was typed back after a failed attempt keeps what that attempt
stored. `LoadedIsStored` names the case in which a page without an error shows something else than
the server holds: Save was pressed during the opening (`early`).

### Sign-in

State: `tickets` are the rows of `auth_oauth_states` and `auth_email_tokens`, `sessions` those of
`auth_sessions`, `cookie` what the browser holds, `allowed` the list of the running process, `req` one
record per request slot: the stage it has come to, and the time it took before its
statement.

| action | code |
|---|---|
| `AuthCodeURL`, `StartEmailLogin` | `service.go` 181-218 and 265-296: the row of a ticket, which nobody else knows yet |
| `Complete` | the callback of a provider or the link of a mail arrives, and may arrive again |
| `ConsumeOAuthState`, `ConsumeEmailToken` | the `UPDATE ... WHERE used_at IS NULL AND expires_at > $2` and what follows it: the provider of the state, the list |
| `Identify` | the answer of the provider (`Identities`: what each kind may say) and the three refusals of `CompleteOAuth` |
| `CreateSession`, `SetCookie` | the `INSERT` of the session; the answer that carries its token |
| `Visit`, `FindSession`, `Serve` | the middleware, the `UPDATE` that finds a session and writes `last_seen_at`, the list again |
| `Logout`, `RevokeSession`, `ClearCookie` | `logout`, whose statement may fail without consequence for the answer |
| `Abort`, `Restart` | any request ends at any stage; a new process with any list, which forgets the requests and keeps the tables |

A time is taken when the request begins and used in its statement, so that the clock
may move in between. Left out: the development bypass (it makes no session), the
rate limiter before the handlers (its refusals only remove behaviours), where the
browser is sent, `/auth/me`. GitHub is in the module and not in the run: it answers
like a trusted provider that knows an address.

### Schedule of a task

State: `row` is the task, `asked` the request in flight, `reply` its answer, `offset` the zone of
the server. `CreateTask` and `UpdateTask` are the whole of a request on one row, since `TodoTasks`
has the interleavings. A date is `[day, ahead]`, a day in a zone, because `parseOptionalDate` uses
the zone of the server and the driver answers in UTC; `Instant` is what `time.Time` compares. `Checks`
are the constraints of migrations 000002 and 000004, and a violation is the 500 it is in
the code. A word that is not valid stands for every such word. A day is counted from
1 January 2024, a Monday, and `Calendar` has the days before each month in a table, as Go's
`time` has. `AdvanceKeepsRule` looks for the next occurrence among the days up to 366 per
year and interval, which bounds a quantifier and not the model.

### The list of tasks

`TaskMatchesFilter` and `SortTasks` are `application/filter.go`, `ListTasksQuery` and `OrderByClause` are
`repository.go` 302-397. `Store` is any write to the table, `Tick` the clock. Of a text only its
place in the order and what a search finds in it are kept; `Like` is what LIKE finds for a
search, which is handed to it as it was typed (343): `%` and `_` are wildcards to it, and a
backslash makes the next character an ordinary one and is not looked for itself. The Go filter is what the
service's tests list with; production lists with SQL, and the two are compared.

### Months of a year

`expenses` and `income` are the two tables. An amount is the number of its minor units; a text
is its digits, so that `ParseMoney`, `Decimal` and the page's `decimalInputToMinorUnits` are what they
do to digits, over any base and any largest amount. `Add` wraps around as Go's does. Each
request is one statement; what the page does with them is in `FinancesPage`.

## The runs

| run | constants | states | question and answer |
|---|---|---|---|
| `projects_one_writer` | 3 projects, 2 requests, 1 writer | 111k | beside any creates and deletes, do updates keep a forest and implement `ProjectForest`; and is an update that is served alone refused for its hierarchy only when it must be? Yes |
| `projects_concurrent` | 2 projects, 2 requests, 2 writers, `FairSpec` | 49k | with any two requests, does a deleted project stay deleted, and is every request answered, also on a cycle? Yes |
| `projects_cycle` | as above | | can two updates close a cycle? They can: finding |
| `projects_lost_archival` | as above | | can an update undo an archival? It can: finding |
| `tasks_three` | 1 project, 3 tasks, 2 requests, 1 writer | 644k | does the walk over several ancestors keep a forest, and do the requests implement `TaskBoard`? Yes |
| `tasks_two_writers` | 1 project, 2 tasks, 2 requests, 2 writers, 1 mover, `FairSpec` | 236k | are the locks given up, do references exist, do projects go with exactly their tasks, and is every request answered in spite of the locks, whatever two requests do? Yes |
| `tasks_rename_cycle` | 1 project, 2 tasks, 1 mover | | can an edit of other columns close a cycle? It can: finding |
| `rate_limiter` | 2 keys, 2 requests, limit 2, window 3, stall 1, time to 5 | 789k | at most twice the limit in a window less a stall, nobody refused without cause, a near Retry-After, a small map? Yes |
| `sign_in` | 1 address, 2 tickets, 2 sessions, 2 requests, VK and Yandex, tickets live 1 and sessions 2, time to 2, 1 restart | 1799k | does a ticket make one session, of its own kind and address, only for who is allowed; does a logout hold; do the requests implement `Gate`? Yes |
| `finance` | 2 categories, 2 requests, 3 saves, `Whole` 2, `Fairness`; 2 months, 2 categories, of which 1 is typed in, amounts 0 and 1, any rows stored, typing only at rest | 80k | are committed limits and salary of one save, does an answer never mix the wrong way round, do saves implement `SettingsStore`, is every request answered; what is each cell of the expenses when the loop ends, whatever failed before, and when does the page hold what is stored? As the properties say |
| `finances_page_unedited` | as above, typing at any time and in both categories | | does a save leave alone what was not edited? It does not: finding |
| `rules` | see below | 359k | do code and constraints agree on schedules, do dates follow their rule, do the two filters agree but for what is named, do amounts come back and totals agree? Yes, with the exceptions the properties name |

Why these bounds are enough to be of use. Three projects give walks of two steps, a
third project to delete under the walk, and every shape of a cycle that involves a
moved row, its new parent and a row between. The sequence issues every id once, so three
ids also bound the number of creations in a behaviour; deleted ids remain as stale
parents. Two requests give every pair of interleaved operations; slots are reused
without bound, so a request in the other slot may be followed by any number of others.
Two tasks, one below the other, give the deadlock of two deletions with rows in common, of
the project and of the task above. The limiter's clock runs to the end of the second window, so that a bucket
expires, is swept, and is made again by a request that comes late, and a third one begins. Two requests on
the settings give two savers, and a saver that commits any number of times between the
two statements of a reader; three saves, that a reader may be two versions behind. Two months give a
loop that stops between them, two categories a month with an edited and an unedited
one. `Typing` bounds when the user types: what is typed during a save is overwritten by
the load that follows it or, after an error, is as if typed then, so the run of the
passing properties confines it to the page at rest. `Touched` bounds where: the cells of one
category in every month, beside those of one that nobody edits; a cell does not look at another but for
whether its month is sent. Whatever is stored at the beginning is loaded, or is not loaded
when Save is pressed. In `sign_in` two requests are enough for a ticket that is presented twice at once, a visit
beside a logout, and a sign-in across the restart; a ticket expires before a session, which expires before
the clock ends; the one address is on the list of a process or not. `rules` takes two days that the next month
or year lacks (31 January, 29 February 2024), a positive interval in range and one wider than its column (`MaxInt4` 3),
servers west of, at and east of Greenwich, all frequencies and all pairs of columns in one update (`MaxColumns` 2); two tasks that
differ in any respect from three basic ones, over three days of two minutes; three months of three categories,
with base two and 7 as the largest amount, so that the sums reach the end of the range. A task that
a repetition has moved to a day no request names is only deleted, which bounds the dates; what every step does from
there is the same from the named days. `OutOfSaves` aborts a save beyond
the bound, so that a run of liveness does not wait for it.

Symmetry is used for ids only, which the code never compares but for equality, and
not in runs of liveness. `projects_one_writer`, `tasks_three` and `sign_in` check box
properties under symmetry, which is sound for them as they are symmetric themselves.

The type invariants of `TodoProjects`, `RateLimiter`, `FinanceSettings` and `SignIn`, and some others
that are proved, are not checked again by a run.

**Fairness.** `WF` of `Continue(r)` in `TodoProjects`: a goroutine that is not blocked
runs on, and a statement that waits for nothing returns. `Continue` covers the steps
of a started request and not `Start` (users need not act) nor `Abort` (nothing has to
fail). In `TodoTasks` it is `SF`, as a lock may be taken and released again and again
by others while a request waits; PostgreSQL puts the waiters of a row in a queue. The
deadlock detector is part of `Continue`, as it runs after `deadlock_timeout`. `FinanceSettings` assumes
`SF` for the same reason: savers wait for the one row of the settings.

## The proofs

Every theorem is of `Spec` and holds for all values of the constants that satisfy the
module's `ConstantsAssumption`: `NULL` is not an id and `Writers` are slots; for the
limiter, that limit and window are positive and a stall is shorter than a window; for
sign-in, that life times are positive and `email` is not the name of a provider.

For the projects:

| theorem | statement | needs |
|---|---|---|
| `TypeCorrect` | `[]TypeOK` | |
| `NoDanglingParent` | `[]ReferentialIntegrity` | any number of writers |
| `DeletedProjectsStayDeleted` | `DeletedStaysDeleted` | any number of writers |
| `ProjectsStayAForest` | `[]ProjectsAcyclic` | one writer |
| `RefusesOnlyCycles` | `RejectsOnlyCycles` | one writer |
| `ProjectsImplementForest` | `Spec => Forest!Spec` | one writer |

`ProjectsAcyclic` is not inductive: a request that is about to write knows what it has
read, and that has to be said. `RequestInv` says it: an update that moves a project below
`row.parent` has walked from there, every row it has visited and that still exists is a
root or has its parent among those visited or about to be, and the moved project is not
among them (`WalkInv`); the columns it carries over are still those of the row
(`CarriedOver`). With one writer this survives the steps of others, because creates add
rows that nobody names yet and deletes only cut the hierarchy. At the write the set of
visited rows is closed under parents, holds the new parent and not the moved row, and
`AcyclicAttach` of `HierarchyTheorems` says that the result is a forest again. The lemmas on
`Acyclic` are the reason that module avoids recursion. The refinement uses the same
invariant: the write of an update maps to `Update` of `ProjectForest`, whose guard asks that
the new parent is not below the project, which `WalkWitness` gives.

`RefusesOnlyCycles` is the converse, and needs to know where the walk really is. While all
other slots are unused, nothing moves under it, and `OnTheWay` says that the cursor is an
ancestor of the requested parent and of every row that was visited. So a walk that comes to
the project has found it above the requested parent; and it comes to no row twice, since
such a row would be above its own parent, which `ParentIsNotBelow` excludes in a forest: of
the rows that are both above the parent and below it, each would have its parent among
them.

For the tasks:

| theorem | statement | needs |
|---|---|---|
| `TypeCorrect` | `[]TypeOK` | |
| `ReferencesHold` | `[]ReferentialIntegrity` | any number of writers |
| `DeletionIsWhole` | `DeletedTogether` | any number of writers |
| `TasksStayAForest` | `[]TasksAcyclic` | `SingleWriter` |
| `TasksImplementBoard` | `ImplementsBoard` | `SingleWriter` |

What the first three rest on is `LockInv`: a row is locked by one transaction (`OneHolder`), and
a transaction can count on what it has locked until it commits (`HoldsItsRows`): no task gets a
parent that is being deleted, no task enters the project that is being dropped, and the
subtasks of the rows that are gone are those it has detached or is about to. A commit
therefore leaves nothing that refers to what it took away, although its two statements
and their cascades were spread over many steps. With one writer `WalkInv` and `CarriedOver` say
the same of a walk as for the projects; the lemmas on forests are shared. The refinement
maps the commit of a deletion to the one step of `TaskBoard`, and what a transaction has done before it to
stuttering, since nobody else sees it.

For the limiter:

| theorem | statement |
|---|---|
| `LimiterTypeCorrect` | `[]TypeOK` |
| `MapIsSwept` | `[]SweptClean` |
| `RetryAfterBounded` | `RetryAfterIsNear` |
| `MapStaysSmall` | `BucketsAreRecent` |
| `TwiceTheLimit` | `[]AtMostTwoWindows` |
| `RefusalHasCause` | `RefusedWhenUsedUp` |

`LimiterInv` adds to the types that a waiting request has taken its time at most `MaxStall` ago,
that the last sweep was not later than the clock, and that every bucket ends after the
last sweep and at most a window after the clock. The first four theorems follow from it. It
is at the late requests that the assumption on `MaxStall` is used.

The last two count admissions, and rest on `HistoryInv`: no two admissions have the same key,
reset and number; those that the bucket in the map counts are numbered from one to its
count (`CountsAdmitted`), and all others of its key are of buckets that ended before it was created
(`IsLast`, `BucketsFollow`), up to a stall. So the
admissions of a span shorter than a window less a stall come from at most two buckets
(`TwoBuckets`), and the pair of bucket and number is an injection into a set of twice the limit;
and a full bucket at a refusal gives as many admissions as the limit, all of them since a
window before the refused request.

For the finance settings:

| theorem | statement |
|---|---|
| `TypeCorrect` | `[]TypeOK` |
| `LimitsOfOneSave` | `[]OneSave` |
| `AnswersNotTornBackwards` | `[]LimitsNotOlder` |
| `ReadsNeverTorn` | `ReadsAddUp` |
| `SettingsImplementStore` | `ImplementsStore` |

`SettingsInv` says that at most one request has written the row of `finance_settings` (`OneWriter`), that
it is the last that began, and that what its `DELETE` has found, and later deleted, is all
of the committed limits: nobody else can have changed them in between, as everybody
writes that row first. A commit therefore leaves the new limits and nothing else. For
the reader it says that the salary it has seen is not newer than the committed one,
and the limits it sees next are of the committed one. `Bystander` carries this over the
commits of others. `LimitsInv` adds that what was sent and not refused is what its rows are
read as (`RowsAreRead`), so that the committed limits are never refused when they are read, and that a
commit is the one step of `SettingsStore` in which limits that add up replace the others. The
sum itself is never computed in these proofs, only that of no limits at all. Assumed is
that a whole is a positive number and the bound on saves a natural one.

For the finances page, from `PageAssumption` (there are months, and a blank cell is not a number),
whatever `Typing` is:

| theorem | statement |
|---|---|
| `PageTypeCorrect` | `[]PageTypeOK` |
| `PageIsCurrent` | `[]LoadedIsStored` |
| `LoopSavesEdits` | `EditsStored` |

`LoopInv` is what the loop keeps: the months it has passed are as the save makes them (`Outcome`), and
the others as they were when Save was pressed. A month in which nothing changed has no cell that
differs (`SentType`), a month that is served becomes its outcome and leaves the others alone
(`SaveStep`), and neither the draft nor its base changes while the loop runs, also when the
user types or the answer to the opening arrives. `OpeningInv` is for the load of the opening: as long as
Save has not been pressed nothing is under way beside it, so that the answer on its way is what
the table holds.

For sign-in:

| theorem | statement |
|---|---|
| `TypeCorrect` | `[]TypeOK` |
| `TicketsRedeemedOnce` | `[]OneSessionPerTicket` |
| `SessionsSound` | `[]SessionsAreSound` |
| `OnlyAllowedInside` | `[]InsideIsAllowed` |
| `OnlyAllowedSignIn` | `NewSessionsAllowed` |
| `LogoutHolds` | `LoggedOutStaysOut` |
| `SignInImplementsGate` | `ImplementsGate` |

That a ticket makes one session depends on where it is while it makes one: it is in the
table, or held by a request that has consumed it, or the session is there. `IInv` says so: a
ticket has at most one holder (`OneHolder`), a held ticket is used and has no session yet
(`SlotOK` of each request), and of the request that is about to make a session, that the address is allowed
by the running process and is the one the ticket was mailed to. A restart empties the slots, so what a slot knows of
the list never outlives it. `NoneFromTheFuture` (a request has taken its time before now) keeps `last_seen_at` in
the life of the session: the session a request looks up exists since before the request began.
The refinement reads the state of a ticket's gate off these facts (`PassFacts`) and shows for each action
which step of `Gate` it is for the one ticket it is about, and that it is none for the others. No
assumption on the number of requests, tickets or restarts is made.

For the schedule of a task, from `ScheduleAssumption`: days are natural numbers and intervals positive
ones, zones less than a day from Greenwich, and the values that stand for nothing are
none of the others.

| theorem | statement |
|---|---|
| `ScheduleTypeCorrect` | `[]ScheduleTypeOK` |
| `NothingElseRefused` | `ConstraintsAgree` |
| `RefusedForAReason` | `RefusalsAreRight` |
| `AdvancesByItsRule` | `AdvanceKeepsRule` |

`ScheduleInv` is only that an update is asked for when there is a row; the work is in the functions.
A task passes through the setters of the domain in the order of the code, and each lemma says
what one of them leaves: `NewTaskFacts`, `RepeatEdited`, `DoneFacts`, `EditedFacts`, and
`RowOfFacts`, that the row of a sound task meets every constraint but the width of its interval. `BeforeFacts`
is what remains of the order of dates when their zones differ: two dates that are out of order by the
clock may be the same day. For the dates, `CivilFacts` and `CivilUnique` say that every day is one
date, from the lengths of years and months; `LaterMonth` where the same day of a later month
comes to lie when that month lacks it; `NextMatchingDayFacts` counts the days of the weekend up to the n-th
match, by a least counterexample, as induction is not to be had; `NextIsOccurrence` puts them
together for every frequency.

For the list of tasks, from `FilterAssumption` (the archived projects are projects, and `None` is neither a number nor a search):

| theorem | statement |
|---|---|
| `FilterTypeCorrect` | `[]FilterTypeOK` |
| `FiltersAgree` | `[]SameSelection` |
| `OrdersAgree` | `[]SameOrder` |
| `ViewsOnlyMoveForward` | `ViewsMoveForward` |

Types are the invariant here. That the two selections agree is shown view by view (`SameView`), that
the two orders do by what a comparison and its opposite give, sort by sort, and within the due
dates by the first difference. The views of dates are, for a task with a date, intervals of
the clock (`ListedByDate`).

For the months of a year, from `MonthsAssumption` (a base of two or more, finitely many months and
categories, texts of digits, and `Missing` is no amount and no month):

| theorem | statement |
|---|---|
| `TypedStaysTyped` | `TypedIsStored` |
| `YearAddsUp` | `[]TotalsAgree` |

Totals are folds, for which the library has definitions and no theorems. `SumsExist` and `SumsAgree`
show that the function by which a fold is computed exists and is unique, by a smallest set on
which it would not be; `TotalSplit`, `TotalOfTwo` and `TotalOfTable` are the laws of finite sums that follow, the last
one that rows and columns of a table have the same total. `WrapFacts` is the arithmetic of
64 bits over any largest amount: a number has one remainder in the range, and sums of
remainders are the remainder of the sum (`AddUpIsWrap`), so that the totals agree even when they
have left the range. `ReadBack` says that an amount that is written with two digits is read as itself
by the server and by the page. Of months only `MonthsInv` is needed, the type of what is stored.

`RulesTypeCorrect` is `[]RulesTypeOK` of the three together, as the run has them, and `RulesKeepTheParts` that
a behaviour of the run is one of each part, which carries the ten theorems above over to it.

Only model-checked: liveness, which is the three `EveryRequestAnswered`. They need fairness and `ENABLED`. Not
claimed without `SingleWriter`: the theorems on forests, refusals and refinements of the two hierarchies. With two writers
they are false: cycles are closed, moves and archivals are undone, as the findings show. That archival is not undone
is not stated for one writer, where no copy of a row can be old.

## What the runs have shown

* **Two moves of projects close a cycle** (`projects_cycle`). `UpdateProject` walks the
  ancestors and writes in separate statements. A below B beside B below A: both walks end
  at the root, both writes succeed. The rows are then unreachable in the page's tree,
  and no later update of them by the same walk is possible until one is moved to the
  top.
* **A rename closes a cycle of tasks** (`tasks_rename_cycle`). `UpdateTask` writes back the
  parent it has read, and walks only when the request sends `parent_task_id`. A is
  renamed while it is moved to the top and B below it; the rename puts A below B again. So it
  undoes a move, whether or not that closes a cycle.
* **A rename undoes an archival** (`projects_lost_archival`). `UpdateProject` has no archived
  flag among its inputs and writes the one it has read. An archival that is answered with
  success between the read and the write is gone, and so is a restoration.
* **Saving the expenses wipes unedited months** (`finances_page_unedited`). The page
  compares the text of a cell with the loaded amount. An empty cell, which is how it shows
  zero, is the text `""` and differs from `"0.00"`, so each category without an amount counts as
  changed, and the others of that month are not sent. The server stores a month as a
  whole with zero for what is missing. One press of Save without any edit sets to zero every
  month that has both, and the page says the expenses were saved. The run takes a loaded
  page and one press of Save.

Observed beside the findings, and either named in a property, as a case of it, or outside the models:

* A search with a backslash: `a\` becomes the pattern `%a\%`, which finds what ends in `a%` and
  not what contains `a\` (`SameSelection` names it).
* Save before the year is loaded, or after the load has failed, sends zero for
  every empty cell, and so for every category of every month: the empty text differs from the
  `"0.00"` that stands for what is not there. The year is wiped, and the answer to the opening
  may show it as it was, without an error (`EditsStored`, `LoadedIsStored`).
* After an attempt that the server stored and whose answer was lost, a cell that is typed
  back to the loaded amount is not sent by the next attempt, and keeps what the first
  one stored, or becomes zero when another cell of its month is sent (`EditsStored`); the page loads the year afterwards, and says that the expenses were
  saved.
* What is typed while the page saves is lost when it loads again; an answer may show the
  old salary beside the new limits (`LimitsNotOlder` says that it is never the other way
  round); the loop over the income sends whole months from loaded values, which takes
  back what another tab has saved (not modelled); the total of a month of income is what
  the page sends, the server does not compute it.
* A logout whose statement fails clears the cookie and leaves the session alive until it
  expires. Signing in again does not revoke the session of the cookie it replaces. A mail
  link is used up by whoever opens it first, a link preview included, and an OAuth state by a
  callback under another provider's path.
* A creation with the end of a repetition and no repetition is answered with an internal
  error, since `NewTask` keeps what `SetRepeat` would clear and the table refuses it; so is an
  interval beyond the width of its column (`ConstraintsAgree` names both).
* An update that sends either the due date or the end of a repetition compares a date in the
  server's zone with one in UTC. When both are the same day, it is refused, or the last
  occurrence is taken for past, in zones on one side of Greenwich (`RefusalsAreRight`,
  `AdvanceKeepsRule`). The image sets no time zone, so the deployed
  server runs in UTC, where it does not happen, unless its host sets one.
* A monthly or yearly task on a day the next month lacks drifts: 31 January is followed by 2
  March, and then stays on the 2nd.
* The Go filter and the SQL query differ: SQL leaves out archived projects unless one is
  named, reads `%` and `_` of a search as wildcards and a backslash as an escape, turns ties around with the direction and
  keeps tasks without a date last in a descending list (`SameSelection`, `SameOrder`). Only tests use the Go filter.
* Amounts are 64-bit and sums are not checked: a month whose amounts add up to exactly the
  range of 64 bits is taken for empty and deleted (`TypedIsStored`). Reaching it takes amounts
  of some 10^17.

Two lesser observations on the projects hold by design of the code, and the properties allow them:
beside other requests an update may be refused for a cycle that was there for no
single moment (the walk is not a snapshot; `RejectsOnlyCycles` is checked for a request that is alone on the table),
and an archival answers "not found" if the project's parent, not the project, was
deleted after the row was read.

## What is left out

Of the modelled components: timestamps; the texts and dates of a project; parsing; the
listing of projects; failures of the sequence beyond its last value (answered with an internal
error). The database is correct and keeps what it has committed.

Not modelled: the pages but for the table of expenses. The state of `TasksPage.tsx` and
`CalendarPage.tsx` is React state of one tab, thrown away with it, and depends on the order of
effects; two hazards of it are listed without a property, and so is the loop over the
income. Configuration, logging, routing and presentation have no state. SMTP and the OAuth providers are
outside of the repository; what they may answer, and that they may fail, is in `SignIn`. Terraform and the shell
scripts of the deployment are run by an operator, one at a time. `internal/investments` and `internal/fire` are empty.
