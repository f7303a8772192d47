------------------------------ MODULE TodoTasks ------------------------------
(***************************************************************************)
(* The task operations of internal/todo, and the transaction that deletes  *)
(* a project together with its tasks: the use cases of                     *)
(* application/service.go and the statements of                            *)
(* adapters/postgres/repository.go on todo_tasks and todo_projects.        *)
(*                                                                         *)
(* As in TodoProjects a request is a goroutine that holds nothing between  *)
(* its statements; a step is one statement with the Go code up to the next *)
(* one.  Only the statements that write are taken apart further, because   *)
(* they wait for row locks: an UPDATE locks its row before its new         *)
(* references are checked, and a DELETE locks the rows it removes, then    *)
(* the rows whose parent it clears.  What a transaction has locked but not *)
(* committed is seen by nobody else.                                       *)
(*                                                                         *)
(* Of a task's columns only the two references are kept; a request that    *)
(* changes none of them stands for every other edit.                       *)
(***************************************************************************)
EXTENDS Hierarchy

CONSTANTS
    ProjectId,  \* the projects, which this module only deletes
    TaskId,     \* the values todo_tasks_id_seq may issue
    NULL,       \* SQL NULL
    Requests,   \* slots for requests in flight
    Writers,    \* the slots that may update tasks
    Movers      \* the writers that may set parent_task_id

ASSUME ConstantsAssumption ==
    /\ NULL \notin ProjectId \cup TaskId
    /\ Writers \subseteq Requests
    /\ Movers \subseteq Writers

VARIABLES
    projects,   \* the committed ids of todo_projects
    tasks,      \* the committed rows of todo_tasks, by id
    issued,     \* the ids the sequence has handed out
    req         \* the state of each request slot

vars == <<projects, tasks, issued, req>>

Row == [project : ProjectId \cup {NULL}, parent : TaskId \cup {NULL}]

live == DOMAIN tasks
up   == [x \in live |-> tasks[x].parent]

Column == {"project", "parent"}

Reply == {"none", "ok", "not_found", "invalid_hierarchy", "validation_error",
          "internal_error"}

Request ==
    [pc       : {"idle", "project", "walk", "lock", "write", "rows", "children", "drop"},
     op       : {"none", "create", "update", "delete_task", "delete_project"},
     target   : TaskId \cup ProjectId \cup {NULL},   \* the id of the path
     columns  : SUBSET Column,              \* the columns that were sent
     row      : Row,                        \* the row to be written
     cursor   : TaskId \cup {NULL},         \* the next ancestor to read
     visited  : SUBSET TaskId,              \* the ancestors read so far
     todo     : SUBSET TaskId,              \* the rows still to be locked
     deleting : SUBSET TaskId,              \* rows deleted, not committed
     updating : SUBSET TaskId,              \* rows updated, not committed
     dropping : BOOLEAN,                    \* project deleted, not committed
     reply    : Reply]                      \* the answer to the last request

NoRow == [project |-> NULL, parent |-> NULL]

Idle(reply) ==
    [pc |-> "idle", op |-> "none", target |-> NULL, columns |-> {}, row |-> NoRow,
     cursor |-> NULL, visited |-> {}, todo |-> {}, deleting |-> {}, updating |-> {},
     dropping |-> FALSE, reply |-> reply]

\* A request at its first statement.
Started(pc, op, target, columns, row, cursor, todo) ==
    [pc |-> pc, op |-> op, target |-> target, columns |-> columns, row |-> row,
     cursor |-> cursor, visited |-> {}, todo |-> todo, deleting |-> {}, updating |-> {},
     dropping |-> FALSE, reply |-> "none"]

\* Variant: a failed transaction is left open, and its locks with it.
LeftOpen(q, reply) ==
    IF reply = "ok" THEN Idle(reply)
    ELSE [Idle(reply) EXCEPT !.deleting = q.deleting, !.updating = q.updating,
                             !.dropping = q.dropping, !.target = q.target]

\* What remains of a request that is answered: its transaction is over.
Finished(q, reply) == Idle(reply)

\* Request r ends with this answer; its deferred Rollback ends the transaction.
Answer(r, reply) == req' = [req EXCEPT ![r] = Finished(req[r], reply)]

-----------------------------------------------------------------------------
(* Row locks *)

\* No other transaction has deleted or updated task x.
Unlocked(r, x) ==
    \A s \in Requests \ {r} : x \notin req[s].deleting \cup req[s].updating

\* No other transaction is deleting what the row refers to.
KeyShared(r, row, columns) ==
    \A s \in Requests \ {r} :
       /\ "parent" \in columns => row.parent \notin req[s].deleting
       /\ "project" \in columns => ~ (req[s].dropping /\ req[s].target = row.project)

\* The references the foreign keys check: all of a new row, the changed ones of
\* an old one.
Checked(q) ==
    IF q.op = "create" THEN Column
    ELSE {c \in Column : q.row[c] # tasks[q.target][c]}

\* The rows of the table request q still has to lock, and the request waits for s.
WaitsFor(r, s) ==
    LET q == req[r]
    IN  \/ /\ q.pc = "lock"
           /\ q.target \in req[s].deleting \cup req[s].updating
        \/ /\ q.pc \in {"rows", "children"}
           /\ q.todo \cap (req[s].deleting \cup req[s].updating) # {}
        \/ /\ q.pc = "drop"
           /\ req[s].dropping /\ req[s].target = q.target
        \/ /\ q.pc = "write"
           /\ \/ "parent" \in Checked(q) /\ q.row.parent \in req[s].deleting
              \/ /\ "project" \in Checked(q)
                 /\ req[s].dropping /\ req[s].target = q.row.project

Deadlocked(r) ==
    \E S \in SUBSET Requests :
       /\ r \in S
       /\ \A s \in S : \E t \in S \ {s} : WaitsFor(s, t)

-----------------------------------------------------------------------------
(* Statements that read *)

\* PATCH: the columns that were sent replace those of the row that was read.
Patched(old, columns, p, q) ==
    [project |-> IF "project" \in columns THEN p ELSE old.project,
     parent  |-> IF "parent" \in columns THEN q ELSE old.parent]

\* Variant: the task being moved is not looked for above its new parent.
MovedTaskUnseen(q, next) == next \in q.visited \cup {q.cursor}

\* The next ancestor is the task being moved, or was read before.
ClosesCycle(q, next) == next = q.target \/ next \in q.visited \cup {q.cursor}

\* The statement a request goes on to once its project is known to exist.
AfterProject(op, cursor) ==
    IF cursor # NULL THEN "walk" ELSE IF op = "create" THEN "write" ELSE "lock"

\* A request to write a row begins with the check of the project it names.
Begin(r, op, target, row, columns) ==
    LET cursor == IF "parent" \in columns THEN row.parent ELSE NULL
        checks == "project" \in columns /\ row.project # NULL
        first  == IF checks THEN "project" ELSE AfterProject(op, cursor)
    IN  req' = [req EXCEPT ![r] = Started(first, op, target, columns, row, cursor, {})]

\* POST /tasks.  Without a project and a parent to look for, another column may be
\* refused at once.
CreateTask(r, p, q) ==
    /\ req[r].pc = "idle"
    /\ \/ Begin(r, "create", NULL, [project |-> p, parent |-> q], Column)
       \/ /\ p = NULL /\ q = NULL
          /\ Answer(r, "validation_error")
    /\ UNCHANGED <<projects, tasks, issued>>

\* PATCH /tasks/{id}: read the task.  Another column may be refused at once here too.
UpdateTask(r, id, columns, p, q) ==
    /\ req[r].pc = "idle"
    /\ \/ /\ id \notin live
          /\ Answer(r, "not_found")
       \/ /\ id \in live
          /\ Begin(r, "update", id, Patched(tasks[id], columns, p, q), columns)
       \/ /\ id \in live
          /\ "project" \in columns => p = NULL
          /\ "parent" \in columns => q = NULL
          /\ Answer(r, "validation_error")
    /\ UNCHANGED <<projects, tasks, issued>>

\* ensureProjectExists.
ReadProject(r) ==
    LET q == req[r]
    IN  /\ q.pc = "project"
        /\ \/ /\ q.row.project \notin projects
              /\ Answer(r, "not_found")
           \/ /\ q.row.project \in projects
              /\ req' = [req EXCEPT ![r].pc = AfterProject(q.op, q.cursor)]
        /\ UNCHANGED <<projects, tasks, issued>>

\* A task is asked to be its own parent, which is refused without reading anything.
OwnParent(q) == q.visited = {} /\ q.cursor = q.target

\* One iteration of ensureTaskParent.
WalkParent(r) ==
    LET q    == req[r]
        c    == q.cursor
        next == tasks[c].parent
    IN  /\ q.pc = "walk"
        /\ \/ /\ OwnParent(q)
              /\ Answer(r, "invalid_hierarchy")
           \/ /\ ~ OwnParent(q)
              /\ c \notin live
              /\ Answer(r, "not_found")
           \/ /\ ~ OwnParent(q)
              /\ c \in live
              /\ next # NULL
              /\ ClosesCycle(q, next)
              /\ Answer(r, "invalid_hierarchy")
           \/ /\ ~ OwnParent(q)
              /\ c \in live
              /\ next = NULL \/ ~ ClosesCycle(q, next)
              /\ req' = [req EXCEPT ![r].visited = @ \cup {c}, ![r].cursor = next,
                           ![r].pc = AfterProject(q.op, next)]
        /\ UNCHANGED <<projects, tasks, issued>>

\* The last row a request has to look for is there, and another column is refused
\* then: title, url, schedule, repeat, status.  A request that has come to its
\* statement that writes has passed this.
RefuseTask(r) ==
    LET q == req[r]
    IN  /\ \/ /\ q.pc = "project"
              /\ q.row.project \in projects
              /\ q.cursor = NULL
           \/ /\ q.pc = "walk"
              /\ ~ OwnParent(q)
              /\ q.cursor \in live
              /\ tasks[q.cursor].parent = NULL
        /\ Answer(r, "validation_error")
        /\ UNCHANGED <<projects, tasks, issued>>

-----------------------------------------------------------------------------
(* Statements that write one row *)

\* UPDATE todo_tasks finds its row, waiting for whoever is changing it.
LockTask(r) ==
    LET q == req[r]
    IN  /\ q.pc = "lock"
        /\ Unlocked(r, q.target)
        /\ \/ /\ q.target \notin live
              /\ Answer(r, "not_found")
           \/ /\ q.target \in live
              /\ req' = [req EXCEPT ![r].pc = "write", ![r].updating = {q.target}]
        /\ UNCHANGED <<projects, tasks, issued>>

\* The references of the written row exist.
References(q) ==
    /\ "project" \in Checked(q) => q.row.project \in projects \cup {NULL}
    /\ "parent" \in Checked(q) => q.row.parent \in live \cup {NULL}

\* Its foreign keys are checked and it commits.
RewriteTask(r) ==
    LET q == req[r]
    IN  /\ q.pc = "write"
        /\ q.op = "update"
        /\ KeyShared(r, q.row, Checked(q))
        /\ \/ /\ References(q)
              /\ tasks' = [tasks EXCEPT ![q.target] = q.row]
              /\ Answer(r, "ok")
           \/ /\ ~ References(q)
              /\ UNCHANGED tasks
              /\ Answer(r, "not_found")
        /\ UNCHANGED <<projects, issued>>

\* The INSERT.  The sequence is advanced before the foreign keys are checked.
InsertTask(r) ==
    LET q == req[r]
    IN  /\ q.pc = "write"
        /\ q.op = "create"
        /\ KeyShared(r, q.row, Column)
        /\ \/ /\ TaskId \subseteq issued
              /\ Answer(r, "internal_error")
              /\ UNCHANGED <<tasks, issued>>
           \/ \E id \in TaskId \ issued :
                 /\ issued' = issued \cup {id}
                 /\ \/ /\ References(q)
                       /\ tasks' = [x \in live \cup {id} |->
                                      IF x = id THEN q.row ELSE tasks[x]]
                       /\ Answer(r, "ok")
                    \/ /\ ~ References(q)
                       /\ UNCHANGED tasks
                       /\ Answer(r, "not_found")
        /\ UNCHANGED projects

-----------------------------------------------------------------------------
(* Statements that delete *)

TasksOf(p) == {x \in live : tasks[x].project = p}

\* Row x is still one that the statement of q deletes.
Doomed(q, x) == q.op = "delete_task" \/ tasks[x].project = q.target

\* DELETE /tasks/{id}: a single statement.
DeleteTask(r, id) ==
    /\ req[r].pc = "idle"
    /\ req' = [req EXCEPT ![r] =
                 Started("rows", "delete_task", id, {}, NoRow, NULL, {id} \cap live)]
    /\ UNCHANGED <<projects, tasks, issued>>

\* DELETE /projects/{id}: BEGIN, and the statement that deletes its tasks.
DeleteProject(r, p) ==
    /\ req[r].pc = "idle"
    /\ req' = [req EXCEPT ![r] =
                 Started("rows", "delete_project", p, {}, NoRow, NULL, TasksOf(p))]
    /\ UNCHANGED <<projects, tasks, issued>>

\* The statement deletes the next row it found, if it is still one to delete.
DeleteRow(r, x) ==
    LET q == req[r]
    IN  /\ q.pc = "rows"
        /\ x \in q.todo
        /\ Unlocked(r, x)
        /\ req' = [req EXCEPT ![r].todo = @ \ {x},
                     ![r].deleting = IF x \in live /\ Doomed(q, x) THEN @ \cup {x} ELSE @]
        /\ UNCHANGED <<projects, tasks, issued>>

\* Variant: parent_task_id has no ON DELETE action.
NoOrphan(q) == {}

\* The subtasks that a transaction's deletions leave without a parent.
Orphans(q) == {x \in live \ q.deleting : tasks[x].parent \in q.deleting}

\* At its end ON DELETE SET NULL looks for the subtasks of the deleted rows ...
FindChildren(r) ==
    LET q == req[r]
    IN  /\ q.pc = "rows"
        /\ q.todo = {}
        /\ req' = [req EXCEPT ![r].pc = "children",
                     ![r].todo = Orphans(q) \ q.updating]
        /\ UNCHANGED <<projects, tasks, issued>>

\* ... and clears their parent.
DetachChild(r, x) ==
    LET q == req[r]
    IN  /\ q.pc = "children"
        /\ x \in q.todo
        /\ Unlocked(r, x)
        /\ req' = [req EXCEPT ![r].todo = @ \ {x},
                     ![r].updating = IF x \in live /\ tasks[x].parent \in q.deleting
                                     THEN @ \cup {x} ELSE @]
        /\ UNCHANGED <<projects, tasks, issued>>

\* Variant: there is no transaction, every statement commits on its own.
EveryStatement(q) == TRUE

\* The statement that has just ended is the last one of its transaction.
Complete(q) == q.op = "delete_task" \/ q.dropping

\* The other statement of DeleteProject: the project's row.
DropProject(r) ==
    LET q == req[r]
    IN  /\ q.pc = "drop"
        /\ \A s \in Requests \ {r} : ~ (req[s].dropping /\ req[s].target = q.target)
        /\ \/ /\ q.target \notin projects
              /\ Answer(r, "not_found")
           \/ /\ q.target \in projects
              /\ req' = [req EXCEPT ![r].pc = "rows", ![r].dropping = TRUE,
                           ![r].todo = TasksOf(q.target) \ q.deleting]
        /\ UNCHANGED <<projects, tasks, issued>>

\* A statement is over: the transaction commits or goes on to the project's row.
EndDelete(r) ==
    LET q == req[r]
    IN  /\ q.pc = "children"
        /\ q.todo = {}
        /\ \/ /\ ~ Complete(q)
              /\ req' = [req EXCEPT ![r].pc = "drop"]
              /\ UNCHANGED <<projects, tasks>>
           \/ /\ Complete(q)
              /\ projects' = IF q.dropping THEN projects \ {q.target} ELSE projects
              /\ tasks' = [x \in live \ q.deleting |->
                             IF x \in q.updating THEN [tasks[x] EXCEPT !.parent = NULL]
                             ELSE tasks[x]]
              /\ Answer(r, IF q.op = "delete_task" /\ q.deleting = {} THEN "not_found"
                           ELSE "ok")
        /\ UNCHANGED issued

-----------------------------------------------------------------------------
(* Failures *)

\* The request's context is cancelled, its connection breaks or the process
\* stops; an open transaction is rolled back.
Abort(r) ==
    /\ req[r].pc # "idle"
    /\ Answer(r, "internal_error")
    /\ UNCHANGED <<projects, tasks, issued>>

\* PostgreSQL ends one of the transactions that wait for each other.
BreakDeadlock(r) == Deadlocked(r) /\ Abort(r)

-----------------------------------------------------------------------------

\* Movers may send every column, the other writers all but parent_task_id.
MayChange(r) == IF r \in Movers THEN SUBSET Column ELSE SUBSET (Column \ {"parent"})

Start(r) ==
    \/ \E p \in ProjectId \cup {NULL}, q \in TaskId \cup {NULL} : CreateTask(r, p, q)
    \/ \E id \in TaskId : DeleteTask(r, id)
    \/ \E p \in ProjectId : DeleteProject(r, p)
    \/ /\ r \in Writers
       /\ \E id \in TaskId, columns \in MayChange(r),
             p \in ProjectId \cup {NULL}, q \in TaskId \cup {NULL} :
             UpdateTask(r, id, columns, p, q)

Continue(r) ==
    \/ ReadProject(r)
    \/ WalkParent(r)
    \/ RefuseTask(r)
    \/ LockTask(r)
    \/ RewriteTask(r)
    \/ InsertTask(r)
    \/ \E x \in TaskId : DeleteRow(r, x) \/ DetachChild(r, x)
    \/ FindChildren(r)
    \/ DropProject(r)
    \/ EndDelete(r)
    \/ BreakDeadlock(r)

Next == \E r \in Requests : Start(r) \/ Continue(r) \/ Abort(r)

\* The migrations seed no task.
Init ==
    /\ projects = ProjectId
    /\ tasks = << >>
    /\ issued = {}
    /\ req = [r \in Requests |-> Idle("none")]

Spec == Init /\ [][Next]_vars

\* A started request goes on.  Strong fairness, because a lock it waits for may be
\* taken again and again; PostgreSQL serves the waiters of a row in turn.
FairSpec == Spec /\ \A r \in Requests : SF_vars(Continue(r))

-----------------------------------------------------------------------------
(* Properties *)

\* The variables are typed, every existing id was issued, and a request that has
\* been answered keeps nothing but the answer: no transaction, no lock.
TypeOK ==
    /\ projects \subseteq ProjectId
    /\ tasks \in [live -> Row]
    /\ live \subseteq issued
    /\ issued \subseteq TaskId
    /\ req \in [Requests -> Request]
    /\ \A r \in Requests : req[r].pc = "idle" => req[r] = Idle(req[r].reply)

\* A task's project and parent are existing rows, whatever is deleted while tasks
\* are created, moved or edited from older copies of their rows.
ReferentialIntegrity ==
    \A x \in live : /\ tasks[x].project \in projects \cup {NULL}
                    /\ tasks[x].parent \in live \cup {NULL}

\* The rows a transaction has deleted or updated, and not committed.
Locked(q) == q.deleting \cup q.updating

\* A row, and a project's row, are locked by one transaction at a time.
OneHolder ==
    \A r, s \in Requests :
       r # s => /\ Locked(req[r]) \cap Locked(req[s]) = {}
                /\ req[r].dropping /\ req[s].dropping => req[r].target # req[s].target

\* What a transaction may rely on because of its locks: the rows it has locked
\* are there, and nobody gives a row that it deletes a new subtask or the project
\* that it deletes a new task.
HoldsItsRows(q) ==
    /\ Locked(q) \subseteq live
    /\ q.op \in {"none", "create", "update"} => q.deleting = {}
    /\ q.op = "update" /\ q.pc = "write" => q.updating = {q.target}
    /\ q.op = "delete_task" /\ q.pc = "rows" => q.todo \subseteq {q.target}
    /\ q.op = "delete_task" => q.deleting \subseteq {q.target}
    /\ q.op = "delete_project" => \A x \in q.deleting : tasks[x].project = q.target
    /\ q.op \in {"delete_task", "delete_project"} =>
          \A x \in q.updating : tasks[x].parent \in q.deleting
    /\ q.pc = "children" => Orphans(q) \subseteq q.updating \cup q.todo
    /\ q.dropping => /\ q.op = "delete_project"
                     /\ q.target \in projects
                     /\ q.pc = "rows" => TasksOf(q.target) \subseteq q.deleting \cup q.todo
                     /\ q.pc # "rows" => TasksOf(q.target) \subseteq q.deleting

\* The step a request is at fits its kind.
Fits(q) ==
    /\ q.pc = "idle" <=> q.op = "none"
    /\ q.pc \in {"rows", "children", "drop"} <=> q.op \in {"delete_task", "delete_project"}
    /\ q.pc = "drop" => q.op = "delete_project" /\ ~ q.dropping
    /\ q.pc = "lock" => q.op = "update"

LockInv == OneHolder /\ \A r \in Requests : HoldsItsRows(req[r]) /\ Fits(req[r])

\* Tasks form a forest: no task is its own ancestor (service.go promises it by
\* answering ErrInvalidHierarchy to an update that would close a cycle).
TasksAcyclic == Acyclic(up)

\* The tasks an update has walked over, or is about to: those above its new parent.
Walked(q) == q.visited \cup ({q.cursor} \ {NULL})

\* Each task that an update has read on its way up from the new parent, if it is
\* still there, is top-level or has its parent among those walked over, and the
\* task to be moved is none of them, unless it was asked to be its own parent.
WalkInv(q) ==
    /\ q.visited \subseteq issued
    /\ q.pc = "walk" => q.op \in {"create", "update"} /\ q.cursor # NULL
    /\ q.pc \in {"lock", "write"} => q.cursor = NULL
    /\ q.op = "update" /\ "parent" \in q.columns /\ q.row.parent # NULL =>
          /\ q.row.parent \in Walked(q)
          /\ q.target \in Walked(q) => OwnParent(q)
          /\ \A x \in q.visited \cap live : up[x] \in live => up[x] \in Walked(q)

\* A column that was not sent is still the one of the row, except that the parent
\* may have been deleted in between, and then the write fails.
CarriedOver(q) ==
    q.op = "update" =>
       /\ q.target \in issued
       /\ q.target \in live /\ "project" \notin q.columns =>
             q.row.project = tasks[q.target].project
       /\ q.target \in live /\ "parent" \notin q.columns =>
             q.row.parent \in {tasks[q.target].parent} \cup (issued \ live)

\* What every request has learnt stays true until it writes, if one request at a
\* time updates tasks.
RequestInv ==
    \A r \in Requests : /\ WalkInv(req[r])
                        /\ CarriedOver(req[r])
                        /\ req[r].op = "update" => r \in Writers

\* The inductive invariant of the proofs.
IInv == TypeOK /\ LockInv /\ ReferentialIntegrity /\ TasksAcyclic /\ RequestInv

\* Deleting a project removes it and all its tasks in one step, also those that
\* were added while the deletion was under way; no other task goes with it, and no
\* task goes without a request to delete it or its project.
DeletedTogether ==
    [][LET gone == projects \ projects'
       IN  /\ {x \in live : tasks[x].project \in gone} \cap live' = {}
           /\ \A x \in live \ live' :
                 \/ tasks[x].project \in gone
                 \/ \E r \in Requests : req[r].op = "delete_task" /\ req[r].target = x]_vars

\* Every request is answered: nobody waits for ever for a lock, neither of a
\* transaction that has ended nor of one that waits for it in turn.
EveryRequestAnswered ==
    \A r \in Requests : req[r].pc # "idle" ~> req[r].pc = "idle"

\* The requests implement the board, on which operations are atomic.
Board == INSTANCE TaskBoard
ImplementsBoard == Board!Spec

=============================================================================
