--------------------------- MODULE TodoTasksProofs ---------------------------
(***************************************************************************)
(* Theorems about the task operations and the deletion of projects, for    *)
(* every set of projects, tasks and requests.                              *)
(***************************************************************************)
EXTENDS TodoTasks, HierarchyTheorems

\* The one-line definitions the actions are made of are always expanded.
USE DEF live, Column, Finished, Patched, ClosesCycle, OwnParent, Checked,
        References, TasksOf, Doomed, Orphans, Complete

-----------------------------------------------------------------------------
(* Types *)

\* The part of the type invariant that is about the requests.
RequestsTyped ==
    /\ req \in [Requests -> Request]
    /\ \A r \in Requests : req[r].pc = "idle" => req[r] = Idle(req[r].reply)

LEMMA IdleType ==
    ASSUME NEW reply \in Reply
    PROVE  /\ Idle(reply) \in Request
           /\ Idle(reply).pc = "idle" /\ Idle(reply).reply = reply
BY DEF Idle, Request, NoRow, Row

\* A typed request takes the place of another one.
LEMMA SlotType ==
    ASSUME RequestsTyped, NEW r \in Requests, NEW q \in Request,
           q.pc = "idle" => q = Idle(q.reply),
           req' = [req EXCEPT ![r] = q]
    PROVE  RequestsTyped'
BY DEF RequestsTyped

\* Setting a field of a request to a value of its type.
LEMMA FieldType ==
    ASSUME NEW q \in Request,
           NEW pc \in {"write", "rows", "children", "drop"}, NEW s \in SUBSET TaskId
    PROVE  /\ [q EXCEPT !.pc = pc] \in Request /\ [q EXCEPT !.pc = pc].pc # "idle"
           /\ [q EXCEPT !.todo = s] \in Request /\ [q EXCEPT !.todo = s].pc = q.pc
           /\ [q EXCEPT !.deleting = s] \in Request /\ [q EXCEPT !.deleting = s].pc = q.pc
           /\ [q EXCEPT !.updating = s] \in Request /\ [q EXCEPT !.updating = s].pc = q.pc
           /\ [q EXCEPT !.dropping = TRUE] \in Request
           /\ [q EXCEPT !.dropping = TRUE].pc = q.pc
<1>1. [q EXCEPT !.pc = pc] \in Request /\ [q EXCEPT !.pc = pc].pc # "idle"
    BY DEF Request
<1>2. [q EXCEPT !.todo = s] \in Request /\ [q EXCEPT !.todo = s].pc = q.pc
    BY DEF Request
<1>3. [q EXCEPT !.deleting = s] \in Request /\ [q EXCEPT !.deleting = s].pc = q.pc
    BY DEF Request
<1>4. [q EXCEPT !.updating = s] \in Request /\ [q EXCEPT !.updating = s].pc = q.pc
    BY DEF Request
<1>5. /\ [q EXCEPT !.dropping = TRUE] \in Request
      /\ [q EXCEPT !.dropping = TRUE].pc = q.pc
    BY DEF Request
<1> QED
    BY <1>1, <1>2, <1>3, <1>4, <1>5

\* Setting the fields that a statement sets together.
LEMMA StepFieldsType ==
    ASSUME NEW q \in Request, NEW s \in SUBSET TaskId,
           NEW pc \in {"write", "rows", "children", "drop"}
    PROVE  /\ [q EXCEPT !.pc = pc, !.todo = s] \in Request
           /\ [q EXCEPT !.pc = pc, !.todo = s].pc # "idle"
           /\ [q EXCEPT !.pc = pc, !.updating = s] \in Request
           /\ [q EXCEPT !.pc = pc, !.updating = s].pc # "idle"
           /\ [q EXCEPT !.pc = pc, !.dropping = TRUE, !.todo = s] \in Request
           /\ [q EXCEPT !.pc = pc, !.dropping = TRUE, !.todo = s].pc # "idle"
<1> DEFINE p == [q EXCEPT !.pc = pc]
           d == [p EXCEPT !.dropping = TRUE]
<1>1. p \in Request /\ p.pc # "idle"
    BY FieldType, ZenonT(40)
<1>2. d \in Request /\ d.pc # "idle"
    <2> HIDE DEF p
    <2> QED
        BY <1>1, FieldType
<1> HIDE DEF p, d
<1>3. /\ [p EXCEPT !.todo = s] \in Request /\ [p EXCEPT !.todo = s].pc # "idle"
      /\ [p EXCEPT !.updating = s] \in Request /\ [p EXCEPT !.updating = s].pc # "idle"
    BY <1>1, FieldType
<1>4. [d EXCEPT !.todo = s] \in Request /\ [d EXCEPT !.todo = s].pc # "idle"
    BY <1>2, FieldType
<1> QED
    BY <1>3, <1>4 DEF p, d

LEMMA RowFieldsType ==
    ASSUME NEW q \in Request, NEW s \in SUBSET TaskId, NEW t \in SUBSET TaskId
    PROVE  /\ [q EXCEPT !.todo = s, !.deleting = t] \in Request
           /\ [q EXCEPT !.todo = s, !.deleting = t].pc = q.pc
           /\ [q EXCEPT !.todo = s, !.updating = t] \in Request
           /\ [q EXCEPT !.todo = s, !.updating = t].pc = q.pc
<1> DEFINE u == [q EXCEPT !.todo = s]
<1>1. u \in Request /\ u.pc = q.pc
    BY FieldType
<1> HIDE DEF u
<1>2. /\ [u EXCEPT !.deleting = t] \in Request /\ [u EXCEPT !.deleting = t].pc = q.pc
      /\ [u EXCEPT !.updating = t] \in Request /\ [u EXCEPT !.updating = t].pc = q.pc
    BY <1>1, FieldType, ZenonT(40)
<1> QED
    BY <1>2 DEF u

\* An answer puts a typed idle slot in the place of the request.
LEMMA AnswerType ==
    ASSUME RequestsTyped, NEW r \in Requests, NEW reply \in Reply, Answer(r, reply)
    PROVE  RequestsTyped'
BY IdleType, SlotType DEF Answer

LEMMA StartedType ==
    ASSUME NEW pc \in {"project", "walk", "lock", "write", "rows"},
           NEW op \in {"create", "update", "delete_task", "delete_project"},
           NEW target \in TaskId \cup ProjectId \cup {NULL}, NEW columns \in SUBSET Column,
           NEW row \in Row, NEW cursor \in TaskId \cup {NULL}, NEW todo \in SUBSET TaskId
    PROVE  /\ Started(pc, op, target, columns, row, cursor, todo) \in Request
           /\ Started(pc, op, target, columns, row, cursor, todo).pc # "idle"
BY DEF Started, Request, Reply

LEMMA BeginType ==
    ASSUME RequestsTyped, NEW r \in Requests, NEW op \in {"create", "update"},
           NEW target \in TaskId \cup {NULL}, NEW row \in Row, NEW columns \in SUBSET Column,
           Begin(r, op, target, row, columns)
    PROVE  RequestsTyped'
<1> DEFINE cursor == IF "parent" \in columns THEN row.parent ELSE NULL
           checks == "project" \in columns /\ row.project # NULL
           first  == IF checks THEN "project" ELSE AfterProject(op, cursor)
<1>1. req' = [req EXCEPT ![r] = Started(first, op, target, columns, row, cursor, {})]
    BY DEF Begin
<1>2. cursor \in TaskId \cup {NULL}
    BY DEF Row
<1>3. first \in {"project", "walk", "lock", "write", "rows"}
    BY DEF AfterProject
<1> HIDE DEF cursor, first
<1> DEFINE q == Started(first, op, target, columns, row, cursor, {})
<1>4. q \in Request /\ q.pc # "idle"
    BY <1>2, <1>3, StartedType
<1> HIDE DEF q
<1> QED
    BY <1>1, <1>4, SlotType DEF q

\* Every step keeps the types.
LEMMA TypeStep ==
    ASSUME TypeOK, [Next]_vars
    PROVE  TypeOK'
<1>0. /\ RequestsTyped
      /\ \A x \in live : tasks[x] \in Row
      /\ live \subseteq TaskId
    BY DEF TypeOK, RequestsTyped
<1> SUFFICES /\ RequestsTyped'
             /\ UNCHANGED <<projects, tasks, issued>> \/
                /\ projects' \subseteq ProjectId
                /\ tasks' \in [live' -> Row]
                /\ live' \subseteq issued'
                /\ issued' \subseteq TaskId
    BY DEF TypeOK, RequestsTyped
<1>1. ASSUME NEW r \in Requests, NEW p \in ProjectId \cup {NULL},
             NEW q \in TaskId \cup {NULL}, CreateTask(r, p, q)
      PROVE  RequestsTyped' /\ UNCHANGED <<projects, tasks, issued>>
    BY <1>0, <1>1, BeginType, AnswerType DEF CreateTask, Row, Reply
<1>2. ASSUME NEW r \in Requests, NEW id \in TaskId, NEW columns \in SUBSET Column,
             NEW p \in ProjectId \cup {NULL}, NEW q \in TaskId \cup {NULL},
             UpdateTask(r, id, columns, p, q)
      PROVE  RequestsTyped' /\ UNCHANGED <<projects, tasks, issued>>
    <2>1. id \in live => Patched(tasks[id], columns, p, q) \in Row
        BY <1>0 DEF Row
    <2> QED
        BY <1>0, <1>2, <2>1, BeginType, AnswerType DEF UpdateTask, Reply
<1>3. ASSUME NEW r \in Requests, NEW id \in TaskId, DeleteTask(r, id)
      PROVE  RequestsTyped' /\ UNCHANGED <<projects, tasks, issued>>
    <2> DEFINE q == Started("rows", "delete_task", id, {}, NoRow, NULL, {id} \cap live)
    <2>1. q \in Request /\ q.pc # "idle"
        <3>1. NoRow \in Row
            BY DEF NoRow, Row
        <3> QED
            BY <3>1, StartedType
    <2> HIDE DEF q
    <2> QED
        BY <1>0, <1>3, <2>1, SlotType DEF DeleteTask, q
<1>4. ASSUME NEW r \in Requests, NEW p \in ProjectId, DeleteProject(r, p)
      PROVE  RequestsTyped' /\ UNCHANGED <<projects, tasks, issued>>
    <2> DEFINE q == Started("rows", "delete_project", p, {}, NoRow, NULL, TasksOf(p))
    <2>1. q \in Request /\ q.pc # "idle"
        <3>1. NoRow \in Row /\ TasksOf(p) \in SUBSET TaskId
            BY <1>0 DEF NoRow, Row
        <3> QED
            BY <3>1, StartedType
    <2> HIDE DEF q
    <2> QED
        BY <1>0, <1>4, <2>1, SlotType DEF DeleteProject, q
<1>5. ASSUME NEW r \in Requests, ReadProject(r)
      PROVE  RequestsTyped' /\ UNCHANGED <<projects, tasks, issued>>
    <2>1. CASE Answer(r, "not_found")
        BY <1>0, <1>5, <2>1, AnswerType DEF ReadProject, Reply
    <2>2. CASE req' = [req EXCEPT ![r].pc = AfterProject(req[r].op, req[r].cursor)]
        BY <1>0, <1>5, <2>2 DEF ReadProject, RequestsTyped, Request, AfterProject
    <2> QED
        BY <1>5, <2>1, <2>2 DEF ReadProject
<1>6. ASSUME NEW r \in Requests, WalkParent(r)
      PROVE  RequestsTyped' /\ UNCHANGED <<projects, tasks, issued>>
    <2> DEFINE c    == req[r].cursor
               next == tasks[c].parent
    <2>1. CASE \E reply \in Reply : Answer(r, reply)
        BY <1>0, <1>6, <2>1, AnswerType DEF WalkParent
    <2>2. CASE /\ c \in live
               /\ req' = [req EXCEPT ![r].visited = @ \cup {c}, ![r].cursor = next,
                             ![r].pc = AfterProject(req[r].op, next)]
        <3>1. c \in TaskId /\ next \in TaskId \cup {NULL}
            BY <1>0, <2>2 DEF Row
        <3>2. AfterProject(req[r].op, next) \in {"walk", "lock", "write"}
            BY DEF AfterProject
        <3> DEFINE pc == AfterProject(req[r].op, next)
                   q  == [req[r] EXCEPT !.visited = @ \cup {c}, !.cursor = next, !.pc = pc]
        <3>3. req[r] \in Request
            BY <1>0 DEF RequestsTyped
        <3>4. req' = [req EXCEPT ![r] = q]
            BY <1>0, <2>2 DEF RequestsTyped
        <3>5. pc \in {"walk", "lock", "write"}
            BY <3>2
        <3> HIDE DEF c, next, pc
        <3>6. q \in Request /\ q.pc # "idle"
            BY <3>1, <3>3, <3>5 DEF Request
        <3> HIDE DEF q
        <3>7. RequestsTyped'
            BY <1>0, <3>4, <3>6, SlotType
        <3> QED
            BY <1>6, <3>7 DEF WalkParent
    <2> QED
        BY <1>6, <2>1, <2>2 DEF WalkParent, Reply
<1>7. ASSUME NEW r \in Requests, LockTask(r)
      PROVE  RequestsTyped' /\ UNCHANGED <<projects, tasks, issued>>
    <2>1. CASE Answer(r, "not_found")
        BY <1>0, <1>7, <2>1, AnswerType DEF LockTask, Reply
    <2>2. CASE /\ req[r].target \in live
               /\ req' = [req EXCEPT ![r].pc = "write", ![r].updating = {req[r].target}]
        <3> DEFINE q == [req[r] EXCEPT !.pc = "write", !.updating = {req[r].target}]
        <3>1. q \in Request /\ q.pc # "idle"
            BY <1>0, <2>2, StepFieldsType DEF RequestsTyped
        <3>2. req' = [req EXCEPT ![r] = q]
            BY <1>0, <2>2 DEF RequestsTyped
        <3> HIDE DEF q
        <3> QED
            BY <1>0, <1>7, <3>1, <3>2, SlotType DEF LockTask
    <2> QED
        BY <1>7, <2>1, <2>2 DEF LockTask
<1>8. ASSUME NEW r \in Requests, NEW reply \in Reply, Answer(r, reply),
             UNCHANGED <<projects, tasks, issued>>
      PROVE  RequestsTyped' /\ UNCHANGED <<projects, tasks, issued>>
    BY <1>0, <1>8, AnswerType
<1>9. ASSUME NEW r \in Requests, RewriteTask(r)
      PROVE  /\ RequestsTyped'
             /\ projects' \subseteq ProjectId
             /\ tasks' \in [live' -> Row]
             /\ live' \subseteq issued'
             /\ issued' \subseteq TaskId
    <2>1. req[r].row \in Row
        BY <1>0 DEF RequestsTyped, Request
    <2> QED
        BY <1>0, <1>9, <2>1, AnswerType DEF RewriteTask, Reply, TypeOK
<1>10. ASSUME NEW r \in Requests, InsertTask(r)
      PROVE  /\ RequestsTyped'
             /\ projects' \subseteq ProjectId
             /\ tasks' \in [live' -> Row]
             /\ live' \subseteq issued'
             /\ issued' \subseteq TaskId
    <2>1. req[r].row \in Row
        BY <1>0 DEF RequestsTyped, Request
    <2>2. RequestsTyped'
        BY <1>0, <1>10, AnswerType DEF InsertTask, Reply
    <2> QED
        BY <1>0, <1>10, <2>1, <2>2 DEF InsertTask, TypeOK
<1>11. ASSUME NEW r \in Requests, NEW x \in TaskId, DeleteRow(r, x) \/ DetachChild(r, x)
      PROVE  RequestsTyped' /\ UNCHANGED <<projects, tasks, issued>>
    <2>1. CASE DeleteRow(r, x)
        <3> DEFINE deleting == IF x \in live /\ Doomed(req[r], x)
                               THEN req[r].deleting \cup {x} ELSE req[r].deleting
                   todo == req[r].todo \ {x}
                   q == [req[r] EXCEPT !.todo = todo, !.deleting = deleting]
        <3>1. todo \in SUBSET TaskId /\ deleting \in SUBSET TaskId
            BY <1>0 DEF RequestsTyped, Request
        <3>2. req' = [req EXCEPT ![r] = q]
            BY <1>0, <2>1 DEF DeleteRow, RequestsTyped
        <3> HIDE DEF todo, deleting
        <3>3. q \in Request /\ q.pc # "idle"
            <4>1. req[r] \in Request /\ req[r].pc = "rows"
                BY <1>0, <2>1 DEF DeleteRow, RequestsTyped
            <4>2. q \in Request /\ q.pc = req[r].pc
                BY <3>1, <4>1, RowFieldsType, ZenonT(40)
            <4> QED
                BY <4>1, <4>2
        <3> HIDE DEF q
        <3> QED
            BY <1>0, <2>1, <3>2, <3>3, SlotType DEF DeleteRow
    <2>2. CASE DetachChild(r, x)
        <3> DEFINE updating == IF x \in live /\ tasks[x].parent \in req[r].deleting
                               THEN req[r].updating \cup {x} ELSE req[r].updating
                   todo == req[r].todo \ {x}
                   q == [req[r] EXCEPT !.todo = todo, !.updating = updating]
        <3>1. todo \in SUBSET TaskId /\ updating \in SUBSET TaskId
            BY <1>0 DEF RequestsTyped, Request
        <3>2. req' = [req EXCEPT ![r] = q]
            BY <1>0, <2>2 DEF DetachChild, RequestsTyped
        <3> HIDE DEF todo, updating
        <3>3. q \in Request /\ q.pc # "idle"
            <4>1. req[r] \in Request /\ req[r].pc = "children"
                BY <1>0, <2>2 DEF DetachChild, RequestsTyped
            <4>2. q \in Request /\ q.pc = req[r].pc
                BY <3>1, <4>1, RowFieldsType, ZenonT(40)
            <4> QED
                BY <4>1, <4>2
        <3> HIDE DEF q
        <3> QED
            BY <1>0, <2>2, <3>2, <3>3, SlotType DEF DetachChild
    <2> QED
        BY <1>11, <2>1, <2>2
<1>12. ASSUME NEW r \in Requests, FindChildren(r)
      PROVE  RequestsTyped' /\ UNCHANGED <<projects, tasks, issued>>
    <2> DEFINE todo == Orphans(req[r]) \ req[r].updating
               q == [req[r] EXCEPT !.pc = "children", !.todo = todo]
    <2>1. todo \in SUBSET TaskId
        BY <1>0 DEF RequestsTyped, Request
    <2>2. req' = [req EXCEPT ![r] = q]
        BY <1>0, <1>12 DEF FindChildren, RequestsTyped
    <2> HIDE DEF todo
    <2>3. q \in Request /\ q.pc # "idle"
        BY <1>0, <2>1, StepFieldsType DEF RequestsTyped
    <2> HIDE DEF q
    <2> QED
        BY <1>0, <1>12, <2>2, <2>3, SlotType DEF FindChildren
<1>13. ASSUME NEW r \in Requests, DropProject(r)
      PROVE  RequestsTyped' /\ UNCHANGED <<projects, tasks, issued>>
    <2>1. CASE Answer(r, "not_found")
        BY <1>0, <1>13, <2>1, AnswerType DEF DropProject, Reply
    <2>2. CASE req' = [req EXCEPT ![r].pc = "rows", ![r].dropping = TRUE,
                         ![r].todo = TasksOf(req[r].target) \ req[r].deleting]
        <3> DEFINE todo == TasksOf(req[r].target) \ req[r].deleting
                   q == [req[r] EXCEPT !.pc = "rows", !.dropping = TRUE, !.todo = todo]
        <3>1. todo \in SUBSET TaskId
            BY <1>0
        <3>2. req' = [req EXCEPT ![r] = q]
            BY <1>0, <2>2 DEF RequestsTyped
        <3> HIDE DEF todo
        <3>3. q \in Request /\ q.pc # "idle"
            BY <1>0, <3>1, StepFieldsType DEF RequestsTyped
        <3> HIDE DEF q
        <3> QED
            BY <1>0, <1>13, <3>2, <3>3, SlotType DEF DropProject
    <2> QED
        BY <1>13, <2>1, <2>2 DEF DropProject
<1>14. ASSUME NEW r \in Requests, EndDelete(r)
      PROVE  /\ RequestsTyped'
             /\ projects' \subseteq ProjectId
             /\ tasks' \in [live' -> Row]
             /\ live' \subseteq issued'
             /\ issued' \subseteq TaskId
    <2>1. RequestsTyped'
        <3>1. CASE req' = [req EXCEPT ![r].pc = "drop"]
            BY <1>0, <1>14, <3>1 DEF EndDelete, RequestsTyped, Request
        <3>2. CASE \E reply \in Reply : Answer(r, reply)
            BY <1>0, <3>2, AnswerType
        <3> QED
            BY <1>14, <3>1, <3>2 DEF EndDelete, Reply
    <2> QED
        BY <1>0, <1>14, <2>1 DEF EndDelete, TypeOK, Row
<1>15. CASE UNCHANGED vars
    BY <1>0, <1>15 DEF vars, RequestsTyped
<1> HIDE DEF live
<1> QED
    BY <1>1, <1>2, <1>3, <1>4, <1>5, <1>6, <1>7, <1>8, <1>9, <1>10, <1>11, <1>12,
       <1>13, <1>14, <1>15
    DEF Next, Start, Continue, MayChange, RefuseTask, BreakDeadlock, Abort, Reply

\* Initially there is no task and no request is in flight.
LEMMA TypeInit == Init => TypeOK
<1> SUFFICES ASSUME Init PROVE TypeOK
    OBVIOUS
<1>1. /\ projects \subseteq ProjectId
      /\ tasks \in [live -> Row]
      /\ live = {}
      /\ issued = {}
    BY DEF Init
<1>2. "none" \in Reply
    BY DEF Reply
<1>3. \A r \in Requests : req[r] = Idle("none")
    BY DEF Init
<1>4. req \in [Requests -> Request]
    BY <1>2, IdleType DEF Init
<1> QED
    BY <1>1, <1>2, <1>3, <1>4, IdleType DEF TypeOK

\* The variables of the task operations keep their types, and an answered request
\* keeps no lock.
THEOREM TypeCorrect == Spec => []TypeOK
BY TypeInit, TypeStep, PTL DEF Spec

-----------------------------------------------------------------------------
(* Row locks *)

\* The steps that write: all others leave the tables and the sequence alone.
LEMMA WritingSteps ==
    ASSUME [Next]_vars
    PROVE  \/ \E r \in Requests : RewriteTask(r) \/ InsertTask(r) \/ EndDelete(r)
           \/ UNCHANGED <<projects, tasks, issued>>
<1>1. ASSUME NEW r \in Requests, Start(r) PROVE UNCHANGED <<projects, tasks, issued>>
    BY <1>1 DEF Start, CreateTask, UpdateTask, DeleteTask, DeleteProject
<1>2. ASSUME NEW r \in Requests, Continue(r) \/ Abort(r)
      PROVE  \/ RewriteTask(r) \/ InsertTask(r) \/ EndDelete(r)
             \/ UNCHANGED <<projects, tasks, issued>>
    BY <1>2 DEF Continue, Abort, ReadProject, WalkParent, RefuseTask, LockTask, DeleteRow,
                DetachChild, FindChildren, DropProject, BreakDeadlock
<1> QED
    BY <1>1, <1>2 DEF Next, vars

\* An answered request has nothing locked, and the others are not touched.
LEMMA AnsweredHolds ==
    ASSUME TypeOK, NEW r \in Requests, NEW reply, Answer(r, reply)
    PROVE  /\ HoldsItsRows(req[r])' /\ Fits(req[r])'
           /\ req'[r] = Idle(reply)
           /\ \A s \in Requests \ {r} : req'[s] = req[s]
<1>1. req'[r] = Idle(reply) /\ \A s \in Requests \ {r} : req'[s] = req[s]
    BY DEF Answer, TypeOK
<1>2. /\ req'[r].pc = "idle" /\ req'[r].op = "none" /\ ~ req'[r].dropping
      /\ req'[r].deleting = {} /\ req'[r].updating = {}
    BY <1>1 DEF Idle
<1> QED
    BY <1>1, <1>2 DEF HoldsItsRows, Fits, Locked

\* A request that is not touched, over tables that are not touched.
LEMMA HoldsSame ==
    ASSUME NEW s \in Requests, HoldsItsRows(req[s]), Fits(req[s]),
           req'[s] = req[s], UNCHANGED <<projects, tasks>>
    PROVE  HoldsItsRows(req[s])' /\ Fits(req[s])'
BY DEF HoldsItsRows, Fits, Locked

\* A request that is not touched, while another one rewrites a task: that task is
\* not one of those it has locked, and does not come under those it deletes.
LEMMA HoldsRewrite ==
    ASSUME TypeOK, LockInv, NEW r \in Requests, NEW s \in Requests \ {r},
           RewriteTask(r), req'[s] = req[s]
    PROVE  HoldsItsRows(req[s])' /\ Fits(req[s])'
<1> DEFINE q == req[r]
           t == req[s]
           x == q.target
<1>0. HoldsItsRows(t) /\ Fits(t) /\ UNCHANGED projects
    BY DEF LockInv, RewriteTask
<1>1. CASE UNCHANGED tasks
    BY <1>0, <1>1, HoldsSame
<1>2. CASE tasks' = [tasks EXCEPT ![x] = q.row]
    <2>1. q.op = "update" /\ q.pc = "write" /\ KeyShared(r, q.row, Checked(q))
        BY DEF RewriteTask
    <2>2. x \in q.updating /\ x \in live /\ x \notin Locked(t)
        BY <2>1 DEF LockInv, OneHolder, HoldsItsRows, Locked
    <2>3. live' = live /\ tasks'[x] = q.row /\ \A y \in live \ {x} : tasks'[y] = tasks[y]
        BY <1>2, <2>2 DEF TypeOK
    <2>4. q.row.parent = tasks[x].parent \/ q.row.parent \notin t.deleting
        BY <2>1 DEF KeyShared
    <2>5. /\ \/ q.row.project = tasks[x].project
             \/ ~ (t.dropping /\ t.target = q.row.project)
        BY <2>1 DEF KeyShared
    <2>6. TasksOf(t.target)' = {y \in live : tasks'[y].project = t.target}
        BY <2>3, <1>0
    <2> HIDE DEF q, x
    <2>7. t.dropping => TasksOf(t.target)' \subseteq TasksOf(t.target)
        BY <2>3, <2>5
    <2>8. Orphans(t)' \subseteq Orphans(t)
        BY <2>3, <2>4
    <2>9. \A y \in Locked(t) : tasks'[y] = tasks[y]
        BY <1>0, <2>2, <2>3 DEF HoldsItsRows, Locked
    <2> QED
        BY <1>0, <2>3, <2>7, <2>8, <2>9 DEF HoldsItsRows, Fits, Locked
<1> QED
    BY <1>1, <1>2 DEF RewriteTask

\* A request that is not touched, while a task is inserted.
LEMMA HoldsInsert ==
    ASSUME TypeOK, LockInv, NEW r \in Requests, NEW s \in Requests \ {r},
           InsertTask(r), req'[s] = req[s]
    PROVE  HoldsItsRows(req[s])' /\ Fits(req[s])'
<1> DEFINE q == req[r]
           t == req[s]
<1>0. HoldsItsRows(t) /\ Fits(t) /\ UNCHANGED projects
    BY DEF LockInv, InsertTask
<1>1. CASE UNCHANGED tasks
    BY <1>0, <1>1, HoldsSame
<1>2. ASSUME NEW id \in TaskId \ issued,
             tasks' = [x \in live \cup {id} |-> IF x = id THEN q.row ELSE tasks[x]]
      PROVE  HoldsItsRows(t)' /\ Fits(t)'
    <2>1. /\ q.row.parent \notin t.deleting
          /\ ~ (t.dropping /\ t.target = q.row.project)
        BY DEF InsertTask, KeyShared
    <2>2. /\ id \notin live /\ live' = live \cup {id} /\ tasks'[id] = q.row
          /\ \A y \in live : tasks'[y] = tasks[y]
        BY <1>2 DEF TypeOK
    <2> HIDE DEF q
    <2>3. t.dropping => TasksOf(t.target)' \subseteq TasksOf(t.target)
        BY <2>1, <2>2
    <2>4. Orphans(t)' \subseteq Orphans(t)
        BY <2>1, <2>2
    <2>5. \A y \in Locked(t) : tasks'[y] = tasks[y]
        BY <1>0, <2>2 DEF HoldsItsRows, Locked
    <2> QED
        BY <1>0, <2>2, <2>3, <2>4, <2>5 DEF HoldsItsRows, Fits, Locked
<1> QED
    BY <1>1, <1>2 DEF InsertTask

\* A request that is not touched, while a deletion is committed.
LEMMA HoldsCommit ==
    ASSUME TypeOK, LockInv, NEW r \in Requests, NEW s \in Requests \ {r},
           EndDelete(r), req'[s] = req[s]
    PROVE  HoldsItsRows(req[s])' /\ Fits(req[s])'
<1> DEFINE q == req[r]
           t == req[s]
<1>0. HoldsItsRows(t) /\ Fits(t)
    BY DEF LockInv
<1>1. CASE UNCHANGED <<projects, tasks>>
    BY <1>0, <1>1, HoldsSame
<1>2. CASE /\ projects' = IF q.dropping THEN projects \ {q.target} ELSE projects
           /\ tasks' = [x \in live \ q.deleting |->
                          IF x \in q.updating THEN [tasks[x] EXCEPT !.parent = NULL]
                          ELSE tasks[x]]
    <2>1. /\ live' = live \ q.deleting
          /\ \A x \in live' : /\ tasks'[x].project = tasks[x].project
                              /\ \/ tasks'[x].parent = NULL
                                 \/ tasks'[x].parent = tasks[x].parent
          /\ \A x \in live' \ q.updating : tasks'[x] = tasks[x]
        BY <1>2 DEF TypeOK, Row
    <2>2. Locked(t) \cap Locked(q) = {} /\ (q.dropping /\ t.dropping => q.target # t.target)
        BY DEF LockInv, OneHolder
    <2>3. t.deleting \subseteq TaskId
        BY DEF TypeOK, Request
    <2>4. t.dropping => (t.target \in projects => t.target \in projects')
        BY <1>2, <2>2
    <2> HIDE DEF q
    <2>5. TasksOf(t.target)' \subseteq TasksOf(t.target)
        BY <2>1
    <2>6. Orphans(t)' \subseteq Orphans(t)
        BY <2>1, <2>3, ConstantsAssumption
    <2>7. Locked(t) \subseteq live' /\ \A y \in Locked(t) : tasks'[y] = tasks[y]
        BY <1>0, <2>1, <2>2 DEF HoldsItsRows, Locked
    <2> QED
        BY <1>0, <2>4, <2>5, <2>6, <2>7 DEF HoldsItsRows, Fits, Locked
<1> QED
    BY <1>1, <1>2 DEF EndDelete

\* A step of a request keeps what that request may rely on because of its locks.
LEMMA OwnHolds ==
    ASSUME TypeOK, LockInv, NEW r \in Requests, Start(r) \/ Continue(r) \/ Abort(r)
    PROVE  /\ HoldsItsRows(req[r])' /\ Fits(req[r])'
           /\ \A s \in Requests \ {r} : req'[s] = req[s]
<1> DEFINE q == req[r]
           Goal == /\ HoldsItsRows(req[r])' /\ Fits(req[r])'
                   /\ \A s \in Requests \ {r} : req'[s] = req[s]
<1>0. q \in Request /\ HoldsItsRows(q) /\ Fits(q) /\ req \in [Requests -> Request]
    BY DEF TypeOK, LockInv
<1>1. ASSUME NEW reply, Answer(r, reply) PROVE Goal
    BY <1>1, AnsweredHolds
<1>2. ASSUME NEW op \in {"create", "update"}, NEW target, NEW row, NEW columns,
             Begin(r, op, target, row, columns)
      PROVE  Goal
    <2> DEFINE cursor == IF "parent" \in columns THEN row.parent ELSE NULL
               checks == "project" \in columns /\ row.project # NULL
               first  == IF checks THEN "project" ELSE AfterProject(op, cursor)
    <2>1. req' = [req EXCEPT ![r] = Started(first, op, target, columns, row, cursor, {})]
        BY <1>2 DEF Begin
    <2>2. /\ first \in {"project", "walk", "lock", "write"}
          /\ first = "lock" => op = "update"
          /\ first = "write" => op = "create"
        BY DEF AfterProject
    <2> HIDE DEF first, cursor
    <2>3. /\ req'[r].pc = first /\ req'[r].op = op /\ ~ req'[r].dropping
          /\ req'[r].deleting = {} /\ req'[r].updating = {}
          /\ \A s \in Requests \ {r} : req'[s] = req[s]
        BY <1>0, <2>1 DEF Started
    <2> QED
        BY <2>2, <2>3 DEF HoldsItsRows, Fits, Locked
<1>3. ASSUME NEW id \in TaskId, DeleteTask(r, id) PROVE Goal
    <2>1. /\ req'[r].pc = "rows" /\ req'[r].op = "delete_task" /\ req'[r].target = id
          /\ ~ req'[r].dropping /\ req'[r].todo \subseteq {id}
          /\ req'[r].deleting = {} /\ req'[r].updating = {}
          /\ \A s \in Requests \ {r} : req'[s] = req[s]
        BY <1>0, <1>3 DEF DeleteTask, Started
    <2> QED
        BY <2>1 DEF HoldsItsRows, Fits, Locked
<1>4. ASSUME NEW p \in ProjectId, DeleteProject(r, p) PROVE Goal
    <2>1. /\ req'[r].pc = "rows" /\ req'[r].op = "delete_project"
          /\ ~ req'[r].dropping
          /\ req'[r].deleting = {} /\ req'[r].updating = {}
          /\ \A s \in Requests \ {r} : req'[s] = req[s]
        BY <1>0, <1>4 DEF DeleteProject, Started
    <2> QED
        BY <2>1 DEF HoldsItsRows, Fits, Locked
<1>5. ASSUME NEW pc \in {"walk", "lock", "write"}, q.pc \in {"project", "walk"},
             UNCHANGED <<projects, tasks>>,
             req'[r].pc = pc, req'[r].op = q.op, req'[r].deleting = q.deleting,
             req'[r].updating = q.updating, req'[r].dropping = q.dropping,
             pc = "lock" => q.op # "create", pc = "write" => q.op = "create",
             \A s \in Requests \ {r} : req'[s] = req[s]
      PROVE  Goal
    <2>1. q.op \in {"create", "update"} /\ q.deleting = {} /\ ~ q.dropping
        BY <1>0, <1>5 DEF Request, HoldsItsRows, Fits
    <2> HIDE DEF q
    <2> QED
        BY <1>0, <1>5, <2>1 DEF HoldsItsRows, Fits, Locked
<1>6. ASSUME ReadProject(r) PROVE Goal
    <2>1. CASE req' = [req EXCEPT ![r].pc = AfterProject(q.op, q.cursor)]
        <3> DEFINE pc == AfterProject(q.op, q.cursor)
        <3>1. /\ pc \in {"walk", "lock", "write"}
              /\ pc = "lock" => q.op # "create"
              /\ pc = "write" => q.op = "create"
            BY DEF AfterProject
        <3> HIDE DEF pc
        <3>2. /\ req'[r].pc = pc /\ req'[r].op = q.op /\ req'[r].deleting = q.deleting
              /\ req'[r].updating = q.updating /\ req'[r].dropping = q.dropping
              /\ \A s \in Requests \ {r} : req'[s] = req[s]
            BY <1>0, <2>1 DEF pc, Request
        <3> QED
            BY <1>5, <1>6, <3>1, <3>2 DEF ReadProject
    <2> QED
        BY <1>1, <1>6, <2>1 DEF ReadProject
<1>7. ASSUME WalkParent(r) PROVE Goal
    <2> DEFINE c    == q.cursor
               next == tasks[c].parent
               pc   == AfterProject(q.op, next)
    <2>1. CASE req' = [req EXCEPT ![r].visited = @ \cup {c}, ![r].cursor = next,
                         ![r].pc = AfterProject(q.op, next)]
        <3>1. /\ pc \in {"walk", "lock", "write"}
              /\ pc = "lock" => q.op # "create"
              /\ pc = "write" => q.op = "create"
            BY DEF AfterProject
        <3>0. req' = [req EXCEPT ![r].visited = @ \cup {c}, ![r].cursor = next, ![r].pc = pc]
            BY <2>1
        <3> HIDE DEF pc, next, c
        <3>2. /\ req'[r].pc = pc /\ req'[r].op = q.op /\ req'[r].deleting = q.deleting
              /\ req'[r].updating = q.updating /\ req'[r].dropping = q.dropping
              /\ \A s \in Requests \ {r} : req'[s] = req[s]
            BY <1>0, <3>0 DEF Request
        <3> QED
            BY <1>5, <1>7, <3>1, <3>2 DEF WalkParent
    <2> QED
        BY <1>1, <1>7, <2>1 DEF WalkParent
<1>8. ASSUME LockTask(r) PROVE Goal
    <2>1. CASE /\ q.target \in live
               /\ req' = [req EXCEPT ![r].pc = "write", ![r].updating = {q.target}]
        <3>1. /\ req'[r].pc = "write" /\ req'[r].op = q.op /\ req'[r].deleting = q.deleting
              /\ req'[r].updating = {q.target} /\ req'[r].dropping = q.dropping
              /\ req'[r].target = q.target
              /\ \A s \in Requests \ {r} : req'[s] = req[s]
            BY <1>0, <2>1 DEF Request
        <3>2. q.op = "update" /\ q.deleting = {} /\ ~ q.dropping
            BY <1>0, <1>8 DEF LockTask, HoldsItsRows, Fits
        <3> HIDE DEF q
        <3> QED
            BY <1>8, <2>1, <3>1, <3>2 DEF HoldsItsRows, Fits, Locked, LockTask
    <2> QED
        BY <1>1, <1>8, <2>1 DEF LockTask
<1>9. ASSUME NEW x \in TaskId, DeleteRow(r, x) PROVE Goal
    <2>1. /\ req'[r].pc = "rows" /\ req'[r].op = q.op /\ req'[r].target = q.target
          /\ req'[r].deleting = IF x \in live /\ Doomed(q, x) THEN q.deleting \cup {x}
                                ELSE q.deleting
          /\ req'[r].todo = q.todo \ {x}
          /\ req'[r].updating = q.updating /\ req'[r].dropping = q.dropping
          /\ \A s \in Requests \ {r} : req'[s] = req[s]
        BY <1>0, <1>9 DEF DeleteRow, Request
    <2>2. q.pc = "rows" /\ x \in q.todo /\ UNCHANGED <<projects, tasks>>
        BY <1>9 DEF DeleteRow
    <2> HIDE DEF q
    <2> QED
        BY <1>0, <2>1, <2>2 DEF HoldsItsRows, Fits, Locked
<1>10. ASSUME FindChildren(r) PROVE Goal
    <2>1. /\ req'[r].pc = "children" /\ req'[r].op = q.op /\ req'[r].target = q.target
          /\ req'[r].deleting = q.deleting
          /\ req'[r].todo = Orphans(q) \ q.updating
          /\ req'[r].updating = q.updating /\ req'[r].dropping = q.dropping
          /\ \A s \in Requests \ {r} : req'[s] = req[s]
        BY <1>0, <1>10 DEF FindChildren, Request
    <2>2. q.pc = "rows" /\ q.todo = {} /\ UNCHANGED <<projects, tasks>>
        BY <1>10 DEF FindChildren
    <2> HIDE DEF q
    <2> QED
        BY <1>0, <2>1, <2>2 DEF HoldsItsRows, Fits, Locked
<1>11. ASSUME NEW x \in TaskId, DetachChild(r, x) PROVE Goal
    <2>1. /\ req'[r].pc = "children" /\ req'[r].op = q.op /\ req'[r].target = q.target
          /\ req'[r].deleting = q.deleting
          /\ req'[r].todo = q.todo \ {x}
          /\ req'[r].updating = IF x \in live /\ tasks[x].parent \in q.deleting
                                THEN q.updating \cup {x} ELSE q.updating
          /\ req'[r].dropping = q.dropping
          /\ \A s \in Requests \ {r} : req'[s] = req[s]
        BY <1>0, <1>11 DEF DetachChild, Request
    <2>2. q.pc = "children" /\ UNCHANGED <<projects, tasks>>
        BY <1>11 DEF DetachChild
    <2> HIDE DEF q
    <2> QED
        BY <1>0, <2>1, <2>2 DEF HoldsItsRows, Fits, Locked
<1>12. ASSUME DropProject(r) PROVE Goal
    <2>1. CASE /\ q.target \in projects
               /\ req' = [req EXCEPT ![r].pc = "rows", ![r].dropping = TRUE,
                            ![r].todo = TasksOf(q.target) \ q.deleting]
        <3>1. /\ req'[r].pc = "rows" /\ req'[r].op = q.op /\ req'[r].target = q.target
              /\ req'[r].deleting = q.deleting
              /\ req'[r].todo = TasksOf(q.target) \ q.deleting
              /\ req'[r].updating = q.updating
              /\ req'[r].dropping = TRUE
              /\ \A s \in Requests \ {r} : req'[s] = req[s]
            BY <1>0, <2>1 DEF Request
        <3>2. q.pc = "drop" /\ UNCHANGED <<projects, tasks>>
            BY <1>12 DEF DropProject
        <3> HIDE DEF q
        <3> QED
            BY <1>0, <2>1, <3>1, <3>2 DEF HoldsItsRows, Fits, Locked
    <2> QED
        BY <1>1, <1>12, <2>1 DEF DropProject
<1>13. ASSUME EndDelete(r) PROVE Goal
    <2>1. CASE /\ ~ Complete(q)
               /\ req' = [req EXCEPT ![r].pc = "drop"]
               /\ UNCHANGED <<projects, tasks>>
        <3>1. /\ req'[r].pc = "drop" /\ req'[r].op = q.op /\ req'[r].target = q.target
              /\ req'[r].deleting = q.deleting
              /\ req'[r].todo = q.todo
              /\ req'[r].updating = q.updating
              /\ req'[r].dropping = q.dropping
              /\ \A s \in Requests \ {r} : req'[s] = req[s]
            BY <1>0, <2>1 DEF Request
        <3>2. q.pc = "children"
            BY <1>13 DEF EndDelete
        <3> HIDE DEF q
        <3> QED
            BY <1>0, <2>1, <3>1, <3>2 DEF HoldsItsRows, Fits, Locked
    <2> QED
        BY <1>1, <1>13, <2>1 DEF EndDelete
<1>14. CASE Start(r)
    BY <1>1, <1>2, <1>3, <1>4, <1>14 DEF Start, CreateTask, UpdateTask
<1>15. CASE Continue(r) \/ Abort(r)
    BY <1>1, <1>6, <1>7, <1>8, <1>9, <1>10, <1>11, <1>12, <1>13, <1>15
    DEF Continue, RefuseTask, RewriteTask, InsertTask, BreakDeadlock, Abort
<1> QED
    BY <1>14, <1>15

\* A step locks only rows that no other request has locked.
LEMMA OwnLocks ==
    ASSUME TypeOK, LockInv, NEW r \in Requests, Start(r) \/ Continue(r) \/ Abort(r)
    PROVE  /\ \A x \in Locked(req[r])' : x \in Locked(req[r]) \/ Unlocked(r, x)
           /\ req'[r].dropping =>
                 \A s \in Requests \ {r} :
                    req[s].dropping => req[s].target # req'[r].target
<1> DEFINE q == req[r]
           Goal == /\ \A x \in Locked(req[r])' : x \in Locked(req[r]) \/ Unlocked(r, x)
                   /\ req'[r].dropping =>
                         \A s \in Requests \ {r} :
                            req[s].dropping => req[s].target # req'[r].target
<1>0. q \in Request /\ OneHolder /\ req \in [Requests -> Request]
    BY DEF TypeOK, LockInv
<1>1. ASSUME req'[r].deleting = {}, req'[r].updating = {}, req'[r].dropping = FALSE
      PROVE  Goal
    BY <1>1 DEF Locked
<1>2. ASSUME NEW reply, Answer(r, reply) PROVE Goal
    BY <1>0, <1>1, <1>2 DEF Answer, Idle
<1>3. ASSUME NEW op, NEW target, NEW row, NEW columns, Begin(r, op, target, row, columns)
      PROVE  Goal
    BY <1>0, <1>1, <1>3 DEF Begin, Started
<1>4. ASSUME NEW id, DeleteTask(r, id) \/ DeleteProject(r, id) PROVE Goal
    <2>1. CASE DeleteTask(r, id)
        BY <1>0, <1>1, <2>1 DEF DeleteTask, Started
    <2>2. CASE DeleteProject(r, id)
        BY <1>0, <1>1, <2>2 DEF DeleteProject, Started
    <2> QED
        BY <1>4, <2>1, <2>2
<1>5. ASSUME req'[r].deleting = q.deleting, req'[r].updating = q.updating,
             req'[r].dropping = q.dropping, req'[r].target = q.target
      PROVE  Goal
    BY <1>0, <1>5 DEF Locked, OneHolder
<1>6. ASSUME ReadProject(r) PROVE Goal
    <2>1. CASE req' = [req EXCEPT ![r].pc = AfterProject(q.op, q.cursor)]
        BY <1>0, <1>5, <2>1 DEF Request
    <2> QED
        BY <1>2, <1>6, <2>1 DEF ReadProject
<1>7. ASSUME WalkParent(r) PROVE Goal
    <2> DEFINE c    == q.cursor
               next == tasks[c].parent
               pc   == AfterProject(q.op, next)
    <2>1. CASE req' = [req EXCEPT ![r].visited = @ \cup {c}, ![r].cursor = next,
                         ![r].pc = AfterProject(q.op, next)]
        <3>0. req' = [req EXCEPT ![r].visited = @ \cup {c}, ![r].cursor = next, ![r].pc = pc]
            BY <2>1
        <3> HIDE DEF pc, next, c
        <3> QED
            BY <1>0, <1>5, <3>0 DEF Request
    <2> QED
        BY <1>2, <1>7, <2>1 DEF WalkParent
<1>8. ASSUME LockTask(r) PROVE Goal
    <2>1. CASE req' = [req EXCEPT ![r].pc = "write", ![r].updating = {q.target}]
        <3>1. /\ req'[r].deleting = q.deleting /\ req'[r].updating = {q.target}
              /\ req'[r].dropping = q.dropping /\ req'[r].target = q.target
            BY <1>0, <2>1 DEF Request
        <3> QED
            BY <1>0, <1>8, <3>1 DEF Locked, OneHolder, LockTask
    <2> QED
        BY <1>2, <1>8, <2>1 DEF LockTask
<1>9. ASSUME NEW x \in TaskId, DeleteRow(r, x) PROVE Goal
    <2>1. /\ req'[r].target = q.target
          /\ req'[r].deleting = IF x \in live /\ Doomed(q, x) THEN q.deleting \cup {x}
                                ELSE q.deleting
          /\ req'[r].updating = q.updating /\ req'[r].dropping = q.dropping
        BY <1>0, <1>9 DEF DeleteRow, Request
    <2> QED
        BY <1>0, <1>9, <2>1 DEF Locked, OneHolder, DeleteRow
<1>10. ASSUME FindChildren(r) PROVE Goal
    BY <1>0, <1>5, <1>10 DEF FindChildren, Request
<1>11. ASSUME NEW x \in TaskId, DetachChild(r, x) PROVE Goal
    <2>1. /\ req'[r].target = q.target
          /\ req'[r].deleting = q.deleting
          /\ req'[r].updating = IF x \in live /\ tasks[x].parent \in q.deleting
                                THEN q.updating \cup {x} ELSE q.updating
          /\ req'[r].dropping = q.dropping
        BY <1>0, <1>11 DEF DetachChild, Request
    <2> QED
        BY <1>0, <1>11, <2>1 DEF Locked, OneHolder, DetachChild
<1>12. ASSUME DropProject(r) PROVE Goal
    <2>1. CASE req' = [req EXCEPT ![r].pc = "rows", ![r].dropping = TRUE,
                         ![r].todo = TasksOf(q.target) \ q.deleting]
        <3>1. /\ req'[r].deleting = q.deleting /\ req'[r].updating = q.updating
              /\ req'[r].dropping = TRUE /\ req'[r].target = q.target
            BY <1>0, <2>1 DEF Request
        <3> QED
            BY <1>0, <1>12, <3>1 DEF Locked, OneHolder, DropProject
    <2> QED
        BY <1>2, <1>12, <2>1 DEF DropProject
<1>13. ASSUME EndDelete(r) PROVE Goal
    <2>1. CASE req' = [req EXCEPT ![r].pc = "drop"]
        BY <1>0, <1>5, <2>1 DEF Request
    <2> QED
        BY <1>2, <1>13, <2>1 DEF EndDelete
<1>14. CASE Start(r)
    BY <1>2, <1>3, <1>4, <1>14 DEF Start, CreateTask, UpdateTask
<1>15. CASE Continue(r) \/ Abort(r)
    BY <1>2, <1>6, <1>7, <1>8, <1>9, <1>10, <1>11, <1>12, <1>13, <1>15
    DEF Continue, RefuseTask, RewriteTask, InsertTask, BreakDeadlock, Abort
<1> QED
    BY <1>14, <1>15

\* Every step keeps the locks of the requests apart, and what they stand for.
LEMMA LockStep ==
    ASSUME TypeOK, LockInv, [Next]_vars
    PROVE  LockInv'
<1>1. CASE UNCHANGED vars
    BY <1>1, HoldsSame DEF LockInv, OneHolder, Locked, vars
<1>2. ASSUME NEW r \in Requests, Start(r) \/ Continue(r) \/ Abort(r)
      PROVE  LockInv'
    <2>1. /\ HoldsItsRows(req[r])' /\ Fits(req[r])'
          /\ \A s \in Requests \ {r} : req'[s] = req[s]
        BY <1>2, OwnHolds
    <2>2. ASSUME NEW s \in Requests \ {r}
          PROVE  HoldsItsRows(req[s])' /\ Fits(req[s])'
        <3>1. CASE UNCHANGED <<projects, tasks>>
            BY <2>1, <3>1, HoldsSame DEF LockInv
        <3>2. CASE RewriteTask(r)
            BY <2>1, <3>2, HoldsRewrite
        <3>3. CASE InsertTask(r)
            BY <2>1, <3>3, HoldsInsert
        <3>4. CASE EndDelete(r)
            BY <2>1, <3>4, HoldsCommit
        <3> QED
            BY <1>2, <3>1, <3>2, <3>3, <3>4
            DEF Start, Continue, Abort, CreateTask, UpdateTask, DeleteTask, DeleteProject,
                ReadProject, WalkParent, RefuseTask, LockTask, DeleteRow, DetachChild,
                FindChildren, DropProject, BreakDeadlock
    <2>3. OneHolder'
        <3>1. /\ \A x \in Locked(req[r])' : x \in Locked(req[r]) \/ Unlocked(r, x)
              /\ req'[r].dropping =>
                    \A s \in Requests \ {r} :
                       req[s].dropping => req[s].target # req'[r].target
            BY <1>2, OwnLocks
        <3>2. \A s \in Requests \ {r} : Locked(req[r])' \cap Locked(req[s]) = {}
            BY <3>1 DEF LockInv, OneHolder, Unlocked, Locked
        <3> QED
            BY <2>1, <3>1, <3>2 DEF LockInv, OneHolder, Locked
    <2> QED
        BY <2>1, <2>2, <2>3 DEF LockInv
<1> QED
    BY <1>1, <1>2 DEF Next

LEMMA LockInit == Init => LockInv
<1> SUFFICES ASSUME Init PROVE LockInv
    OBVIOUS
<1>1. \A r \in Requests :
         /\ req[r].pc = "idle" /\ req[r].op = "none" /\ ~ req[r].dropping
         /\ req[r].deleting = {} /\ req[r].updating = {}
    BY DEF Init, Idle
<1> QED
    BY <1>1 DEF LockInv, OneHolder, HoldsItsRows, Fits, Locked

LEMMA Locks == Spec => [](TypeOK /\ LockInv)
BY TypeInit, TypeStep, LockInit, LockStep, PTL DEF Spec

-----------------------------------------------------------------------------
(* Properties that hold whatever requests run together *)

\* When a deletion commits, the tasks that stay do not refer to what goes.
LEMMA ReferentialStep ==
    ASSUME TypeOK, LockInv, ReferentialIntegrity, [Next]_vars
    PROVE  ReferentialIntegrity'
<1> USE ConstantsAssumption DEF ReferentialIntegrity
<1>1. ASSUME NEW r \in Requests, RewriteTask(r)
      PROVE  ReferentialIntegrity'
    <2> DEFINE q == req[r]
               x == q.target
    <2>1. CASE UNCHANGED tasks
        BY <1>1, <2>1 DEF RewriteTask
    <2>2. CASE References(q) /\ tasks' = [tasks EXCEPT ![x] = q.row]
        <3>1. q.op = "update" /\ q.pc = "write" /\ UNCHANGED projects
            BY <1>1 DEF RewriteTask
        <3>2. x \in live
            BY <3>1 DEF LockInv, HoldsItsRows, Locked
        <3>3. live' = live /\ tasks'[x] = q.row /\ \A y \in live \ {x} : tasks'[y] = tasks[y]
            BY <2>2, <3>2 DEF TypeOK
        <3>4. q.row.project \in projects \cup {NULL} /\ q.row.parent \in live \cup {NULL}
            BY <2>2, <3>1, <3>2
        <3> HIDE DEF q, x
        <3> QED
            BY <3>1, <3>3, <3>4
    <2> QED
        BY <1>1, <2>1, <2>2 DEF RewriteTask
<1>2. ASSUME NEW r \in Requests, InsertTask(r)
      PROVE  ReferentialIntegrity'
    <2>1. CASE UNCHANGED tasks
        BY <1>2, <2>1 DEF InsertTask
    <2>2. ASSUME NEW id \in TaskId \ issued, References(req[r]),
                 tasks' = [x \in live \cup {id} |->
                             IF x = id THEN req[r].row ELSE tasks[x]]
          PROVE  ReferentialIntegrity'
        BY <1>2, <2>2 DEF InsertTask
    <2> QED
        BY <1>2, <2>1, <2>2 DEF InsertTask
<1>3. ASSUME NEW r \in Requests, EndDelete(r)
      PROVE  ReferentialIntegrity'
    <2> DEFINE q == req[r]
    <2>1. CASE UNCHANGED <<projects, tasks>>
        BY <2>1
    <2>2. CASE /\ projects' = IF q.dropping THEN projects \ {q.target} ELSE projects
               /\ tasks' = [x \in live \ q.deleting |->
                              IF x \in q.updating THEN [tasks[x] EXCEPT !.parent = NULL]
                              ELSE tasks[x]]
        <3>1. q.pc = "children" /\ q.todo = {} /\ HoldsItsRows(q)
            BY <1>3 DEF EndDelete, LockInv
        <3>2. /\ live' = live \ q.deleting
              /\ \A x \in live' : /\ tasks'[x].project = tasks[x].project
                                  /\ x \in q.updating => tasks'[x].parent = NULL
                                  /\ x \notin q.updating => tasks'[x].parent = tasks[x].parent
            BY <2>2 DEF TypeOK, Row
        <3>3. Orphans(q) \subseteq q.updating
            BY <3>1 DEF HoldsItsRows
        <3>4. q.dropping => TasksOf(q.target) \subseteq q.deleting
            BY <3>1 DEF HoldsItsRows
        <3>5. \A x \in live' : tasks'[x].parent \in live' \cup {NULL}
            BY <3>2, <3>3
        <3>6. \A x \in live' : tasks'[x].project \in projects' \cup {NULL}
            BY <2>2, <3>2, <3>4
        <3> QED
            BY <3>5, <3>6
    <2> QED
        BY <1>3, <2>1, <2>2 DEF EndDelete
<1>4. CASE UNCHANGED <<projects, tasks>>
    BY <1>4
<1> QED
    BY <1>1, <1>2, <1>3, <1>4, WritingSteps

\* No request ever leaves a task with a project or a parent that does not exist.
THEOREM ReferencesHold == Spec => []ReferentialIntegrity
<1>1. Init => ReferentialIntegrity
    BY DEF Init, ReferentialIntegrity
<1> QED
    BY <1>1, Locks, ReferentialStep, PTL DEF Spec

\* A project goes with all its tasks, and nothing goes that was not to be deleted.
THEOREM DeletionIsWhole == Spec => DeletedTogether
<1> DEFINE gone == projects \ projects'
           Together ==
             /\ {x \in live : tasks[x].project \in gone} \cap live' = {}
             /\ \A x \in live \ live' :
                   \/ tasks[x].project \in gone
                   \/ \E r \in Requests : req[r].op = "delete_task" /\ req[r].target = x
<1>1. TypeOK /\ LockInv /\ [Next]_vars => [Together]_vars
    <2> SUFFICES ASSUME TypeOK, LockInv, [Next]_vars PROVE Together
        OBVIOUS
    <2>1. ASSUME projects' = projects, live \subseteq live' PROVE Together
        BY <2>1
    <2>2. ASSUME NEW r \in Requests, RewriteTask(r) PROVE Together
        BY <2>1, <2>2 DEF RewriteTask, TypeOK
    <2>3. ASSUME NEW r \in Requests, InsertTask(r) PROVE Together
        BY <2>1, <2>3 DEF InsertTask
    <2>4. ASSUME NEW r \in Requests, EndDelete(r) PROVE Together
        <3> DEFINE q == req[r]
        <3>1. CASE UNCHANGED <<projects, tasks>>
            BY <2>1, <3>1
        <3>2. CASE /\ Complete(q)
                   /\ projects' = IF q.dropping THEN projects \ {q.target} ELSE projects
                   /\ live' = live \ q.deleting
            <4>1. q.pc = "children" /\ HoldsItsRows(q) /\ Fits(q)
                BY <2>4 DEF EndDelete, LockInv
            <4>2. CASE q.dropping
                <5>1. gone = {q.target} /\ TasksOf(q.target) \subseteq q.deleting
                      /\ \A x \in q.deleting : tasks[x].project = q.target
                    BY <3>2, <4>1, <4>2 DEF HoldsItsRows
                <5> HIDE DEF gone, q
                <5> QED
                    BY <3>2, <5>1
            <4>3. CASE ~ q.dropping
                <5>1. gone = {} /\ q.op = "delete_task" /\ q.deleting \subseteq {q.target}
                    BY <3>2, <4>1, <4>3 DEF HoldsItsRows
                <5> HIDE DEF gone
                <5> QED
                    BY <3>2, <5>1
            <4> QED
                BY <4>2, <4>3
        <3> QED
            BY <2>4, <3>1, <3>2 DEF EndDelete
    <2>5. CASE UNCHANGED <<projects, tasks>>
        BY <2>1, <2>5
    <2> HIDE DEF Together
    <2> QED
        BY <2>2, <2>3, <2>4, <2>5, WritingSteps
<1> QED
    BY <1>1, Locks, PTL DEF Spec, DeletedTogether

-----------------------------------------------------------------------------
(* The refinement: what the writes do, seen from the abstract board *)

\* The walk of an update has shown that the task is not above its new parent.
LEMMA WalkedIsWitness ==
    ASSUME IInv, NEW r \in Requests,
           req[r].pc = "write", req[r].op = "update",
           "parent" \in req[r].columns, req[r].row.parent \in live
    PROVE  ~ IsAncestor(up, req[r].target, req[r].row.parent)
<1> DEFINE V == req[r].visited
           p == req[r].row.parent
           id == req[r].target
<1>1. p # NULL /\ id # NULL /\ req[r].cursor = NULL
    <2>1. id \in live /\ NULL \notin live
        BY ConstantsAssumption
        DEF IInv, TypeOK, LockInv, HoldsItsRows, Locked
    <2> QED
        BY <2>1 DEF IInv, RequestInv, WalkInv
<1>2. /\ p \in V /\ id \notin V
      /\ \A x \in V \cap live : up[x] \in live => up[x] \in V
    BY <1>1 DEF IInv, RequestInv, WalkInv, Walked
<1>3. DOMAIN up = live
    BY DEF up
<1> HIDE DEF V, p, id
<1>4. p \in V \cap DOMAIN up
    BY <1>2, <1>3 DEF p
<1> QED
    BY <1>2, <1>3, <1>4, WalkWitness DEF p, id

\* A rewritten row moves its task as the request asked for.
LEMMA RewriteIsMove ==
    ASSUME IInv, NEW r \in Requests, RewriteTask(r), References(req[r]),
           tasks' = [tasks EXCEPT ![req[r].target] = req[r].row]
    PROVE  Board!Next
<1> DEFINE q == req[r]
           x == q.target
<1> USE ConstantsAssumption DEF Board!live, Board!up
<1>1. q.op = "update" /\ q.pc = "write" /\ UNCHANGED <<projects, issued>>
    BY DEF RewriteTask
<1>2. x \in live /\ x \in TaskId
    BY <1>1 DEF IInv, TypeOK, LockInv, HoldsItsRows, Locked
<1>3. tasks[x] \in Row /\ q.row \in Row /\ live \subseteq issued /\ NULL \notin issued
    BY <1>2 DEF IInv, TypeOK, Request
<1>4. q.row.project \in projects \cup {NULL} /\ q.row.parent \in live \cup {NULL}
    BY <1>1, <1>2 DEF IInv, ReferentialIntegrity
<1>5. q.row.project \in ProjectId \cup {NULL} /\ q.row.parent \in TaskId \cup {NULL}
    BY <1>3 DEF Row
<1>6. CASE "parent" \in q.columns
    <2>1. q.row.parent = NULL \/ ~ IsAncestor(up, x, q.row.parent)
        BY <1>1, <1>4, <1>6, WalkedIsWitness
    <2>2. q.row = [project |-> q.row.project, parent |-> q.row.parent]
        BY <1>3 DEF Row
    <2>3. tasks' = [tasks EXCEPT ![x] = [project |-> q.row.project, parent |-> q.row.parent]]
        BY <2>2
    <2> HIDE DEF q, x
    <2>4. Board!MoveBelow(x, q.row.project, q.row.parent)
        BY <1>1, <1>2, <1>4, <2>1, <2>3
        DEF Board!MoveBelow, up, IsAncestor, UpClosed, Board!IsAncestor, Board!UpClosed
    <2> QED
        BY <1>2, <1>5, <2>4 DEF Board!Next
<1>7. CASE "parent" \notin q.columns
    <2>1. q.row.parent \in {tasks[x].parent} \cup (issued \ live)
        BY <1>1, <1>2, <1>7 DEF IInv, RequestInv, CarriedOver
    <2>2. q.row.parent = tasks[x].parent
        BY <1>3, <1>4, <2>1
    <2>3. q.row = [tasks[x] EXCEPT !.project = q.row.project]
        BY <1>3, <2>2 DEF Row
    <2>4. tasks' = [tasks EXCEPT ![x].project = q.row.project]
        BY <2>3
    <2> HIDE DEF q, x
    <2>5. Board!MoveToProject(x, q.row.project)
        BY <1>1, <1>2, <1>4, <2>4 DEF Board!MoveToProject
    <2> QED
        BY <1>2, <1>5, <2>5 DEF Board!Next
<1> QED
    BY <1>6, <1>7

\* What a deletion commits is the board without the deleted tasks.
LEMMA CommitIsDeletion ==
    ASSUME IInv, NEW r \in Requests, EndDelete(r), Complete(req[r]),
           projects' = IF req[r].dropping THEN projects \ {req[r].target} ELSE projects,
           tasks' = [x \in live \ req[r].deleting |->
                       IF x \in req[r].updating THEN [tasks[x] EXCEPT !.parent = NULL]
                       ELSE tasks[x]]
    PROVE  Board!Next \/ UNCHANGED <<projects, tasks, issued>>
<1> DEFINE q == req[r]
<1> USE DEF Board!live, Board!up
<1>1. q.pc = "children" /\ q.todo = {} /\ HoldsItsRows(q) /\ Fits(q) /\ issued' = issued
    BY DEF EndDelete, IInv, LockInv
<1>2. q.op \in {"delete_task", "delete_project"}
    BY <1>1 DEF Fits
<1>3. /\ \A x \in q.updating : tasks[x].parent \in q.deleting
      /\ \A x \in live \ q.deleting : tasks[x].parent \in q.deleting => x \in q.updating
    BY <1>1, <1>2 DEF HoldsItsRows
<1>4. tasks' = Board!Without(q.deleting)
    BY <1>3 DEF Board!Without
<1>5. CASE q.dropping
    <2>1. /\ q.target \in projects /\ q.target \in ProjectId
          /\ q.deleting = TasksOf(q.target)
        BY <1>1, <1>5 DEF HoldsItsRows, IInv, TypeOK, Locked
    <2>2. Board!DeleteProject(q.target)
        BY <1>1, <1>4, <1>5, <2>1 DEF Board!DeleteProject
    <2> QED
        BY <2>1, <2>2 DEF Board!Next
<1>6. CASE ~ q.dropping
    <2>1. q.deleting \subseteq {q.target} /\ q.deleting \subseteq live /\ projects' = projects
        BY <1>1, <1>6 DEF HoldsItsRows, Locked
    <2>2. CASE q.deleting = {}
        <3>1. q.updating = {}
            BY <1>3, <2>2
        <3>2. tasks' = tasks
            BY <2>2, <3>1 DEF IInv, TypeOK
        <3> QED
            BY <1>1, <2>1, <3>2
    <2>3. CASE q.deleting # {}
        <3>1. q.deleting = {q.target} /\ q.target \in live /\ q.target \in TaskId
            BY <2>1, <2>3 DEF IInv, TypeOK
        <3>2. Board!DeleteTask(q.target)
            BY <1>1, <1>4, <2>1, <3>1 DEF Board!DeleteTask
        <3> QED
            BY <3>1, <3>2 DEF Board!Next
    <2> QED
        BY <2>2, <2>3
<1> QED
    BY <1>5, <1>6

\* Every step of a request is a step of the board or changes nothing of it.
LEMMA BoardStep ==
    ASSUME IInv, [Next]_vars
    PROVE  [Board!Next]_(Board!vars)
<1> USE DEF Board!live, Board!up, Board!vars
<1>1. ASSUME NEW r \in Requests, RewriteTask(r) PROVE [Board!Next]_(Board!vars)
    <2>1. CASE UNCHANGED tasks
        BY <1>1, <2>1 DEF RewriteTask
    <2>2. CASE References(req[r]) /\ tasks' = [tasks EXCEPT ![req[r].target] = req[r].row]
        BY <1>1, <2>2, RewriteIsMove
    <2> QED
        BY <1>1, <2>1, <2>2 DEF RewriteTask
<1>2. ASSUME NEW r \in Requests, InsertTask(r) PROVE [Board!Next]_(Board!vars)
    <2> DEFINE row == req[r].row
    <2>1. row \in Row /\ req[r].op = "create"
        BY <1>2 DEF InsertTask, IInv, TypeOK, Request
    <2>2. CASE UNCHANGED <<projects, tasks, issued>>
        BY <2>2
    <2>3. ASSUME NEW id \in TaskId \ issued, issued' = issued \cup {id}, References(req[r]),
                 UNCHANGED projects,
                 tasks' = [x \in live \cup {id} |-> IF x = id THEN row ELSE tasks[x]]
          PROVE  [Board!Next]_(Board!vars)
        <3>1. row = [project |-> row.project, parent |-> row.parent]
            BY <2>1 DEF Row
        <3>2. /\ row.project \in ProjectId \cup {NULL} /\ row.parent \in TaskId \cup {NULL}
              /\ row.project \in projects \cup {NULL} /\ row.parent \in live \cup {NULL}
            BY <2>1, <2>3 DEF Row
        <3> HIDE DEF row
        <3>3. tasks' = [x \in live \cup {id} |->
                          IF x = id THEN [project |-> row.project, parent |-> row.parent]
                          ELSE tasks[x]]
            BY <2>3, <3>1
        <3>4. Board!Create(row.project, row.parent)
            BY <2>3, <3>2, <3>3 DEF Board!Create
        <3> QED
            BY <3>2, <3>4 DEF Board!Next
    <2>4. ASSUME NEW id \in TaskId \ issued, issued' = issued \cup {id},
                 UNCHANGED <<projects, tasks>>
          PROVE  [Board!Next]_(Board!vars)
        BY <2>4 DEF Board!Next, Board!Burn
    <2> QED
        BY <1>2, <2>2, <2>3, <2>4 DEF InsertTask
<1>3. ASSUME NEW r \in Requests, EndDelete(r) PROVE [Board!Next]_(Board!vars)
    <2>1. CASE UNCHANGED <<projects, tasks, issued>>
        BY <2>1
    <2>2. CASE /\ Complete(req[r])
               /\ projects' = IF req[r].dropping THEN projects \ {req[r].target} ELSE projects
               /\ tasks' = [x \in live \ req[r].deleting |->
                              IF x \in req[r].updating THEN [tasks[x] EXCEPT !.parent = NULL]
                              ELSE tasks[x]]
        BY <1>3, <2>2, CommitIsDeletion
    <2> QED
        BY <1>3, <2>1, <2>2 DEF EndDelete
<1> QED
    BY <1>1, <1>2, <1>3, WritingSteps

\* Every step of the board keeps the forest.
LEMMA BoardStaysAcyclic ==
    ASSUME TypeOK, ReferentialIntegrity, TasksAcyclic, [Board!Next]_(Board!vars)
    PROVE  TasksAcyclic'
<1> USE ConstantsAssumption DEF TasksAcyclic, Board!live, Board!up, up
<1>1. ASSUME NEW p \in ProjectId \cup {NULL}, NEW q \in TaskId \cup {NULL}, Board!Create(p, q)
      PROVE  TasksAcyclic'
    <2>1. PICK id \in TaskId \ issued :
              tasks' = [x \in live \cup {id} |->
                          IF x = id THEN [project |-> p, parent |-> q] ELSE tasks[x]]
        BY <1>1 DEF Board!Create
    <2>2. id \notin live /\ q # id /\ \A x \in live : tasks[x].parent # id
        BY <1>1, <2>1 DEF TypeOK, ReferentialIntegrity, Board!Create
    <2>3. /\ DOMAIN up' = DOMAIN up \cup {id}
          /\ up'[id] = q
          /\ \A x \in live : up'[x] = up[x] /\ up[x] # id
        BY <2>1, <2>2
    <2> QED
        BY <2>2, <2>3, AcyclicLeaf
<1>2. ASSUME NEW id \in TaskId, NEW p \in ProjectId \cup {NULL}, Board!MoveToProject(id, p)
      PROVE  TasksAcyclic'
    <2>1. up' = up
        BY <1>2 DEF Board!MoveToProject, TypeOK, Row
    <2> QED
        BY <2>1
<1>3. ASSUME NEW id \in TaskId, NEW p \in ProjectId \cup {NULL},
             NEW q \in TaskId \cup {NULL}, Board!MoveBelow(id, p, q)
      PROVE  TasksAcyclic'
    <2>1. /\ DOMAIN up' = DOMAIN up
          /\ id \in DOMAIN up
          /\ up'[id] = q
          /\ \A x \in DOMAIN up \ {id} : up'[x] = up[x]
        BY <1>3 DEF Board!MoveBelow, TypeOK, Row
    <2>2. CASE q = NULL
        <3>1. \A x \in DOMAIN up' : up'[x] = up[x] \/ up'[x] \notin DOMAIN up'
            BY <2>1, <2>2 DEF TypeOK
        <3> QED
            BY <2>1, <3>1, AcyclicShrink
    <2>3. CASE ~ IsAncestor(up, id, q)
        BY <2>1, <2>3, AcyclicAttach
    <2> QED
        BY <1>3, <2>2, <2>3
        DEF Board!MoveBelow, IsAncestor, UpClosed, Board!IsAncestor, Board!UpClosed
<1>4. ASSUME NEW D \in SUBSET TaskId, tasks' = Board!Without(D)
      PROVE  TasksAcyclic'
    <2>1. /\ DOMAIN up' \subseteq DOMAIN up
          /\ \A x \in DOMAIN up' : up'[x] = up[x] \/ up'[x] \notin DOMAIN up'
        BY <1>4 DEF Board!Without, TypeOK, Row
    <2> QED
        BY <2>1, AcyclicShrink
<1>5. ASSUME NEW id \in TaskId, Board!DeleteTask(id) PROVE TasksAcyclic'
    BY <1>4, <1>5 DEF Board!DeleteTask
<1>6. ASSUME NEW p \in ProjectId, Board!DeleteProject(p) PROVE TasksAcyclic'
    <2>1. {x \in live : tasks[x].project = p} \in SUBSET TaskId
        BY DEF TypeOK
    <2> QED
        BY <1>4, <1>6, <2>1 DEF Board!DeleteProject
<1>7. CASE UNCHANGED tasks
    BY <1>7
<1> QED
    BY <1>1, <1>2, <1>3, <1>5, <1>6, <1>7 DEF Board!Next, Board!Burn, Board!vars

-----------------------------------------------------------------------------
(* What the requests know stays true *)

\* One request updates tasks at a time.
SingleWriter == \A r, s \in Writers : r = s

\* What a request knows.
Knows(s) ==
    /\ WalkInv(req[s])
    /\ CarriedOver(req[s])
    /\ req[s].op = "update" => s \in Writers

\* A request that is not touched, over a table that is not touched.
LEMMA KnowsSame ==
    ASSUME NEW s \in Requests, Knows(s), req'[s] = req[s], UNCHANGED <<tasks, issued>>
    PROVE  Knows(s)'
BY DEF Knows, WalkInv, CarriedOver, Walked, up

\* A request that updates nothing knows only that ids stay issued.
LEMMA KnowsNothing ==
    ASSUME NEW s \in Requests,
           req'[s].op # "update", req'[s].visited \subseteq issued',
           req'[s].pc = "walk" => req'[s].op \in {"create", "update"} /\ req'[s].cursor # NULL,
           req'[s].pc \in {"lock", "write"} => req'[s].cursor = NULL
    PROVE  Knows(s)'
BY DEF Knows, WalkInv, CarriedOver

LEMMA KnowsAnswered ==
    ASSUME TypeOK, NEW r \in Requests, NEW reply, Answer(r, reply)
    PROVE  Knows(r)'
<1>1. req'[r] = Idle(reply)
    BY DEF Answer, TypeOK
<1>2. req'[r].op = "none" /\ req'[r].pc = "idle" /\ req'[r].visited = {}
    BY <1>1 DEF Idle
<1> QED
    BY <1>2, KnowsNothing

\* A request that is not touched, while a deletion is committed.
LEMMA KnowsCommit ==
    ASSUME IInv, NEW r \in Requests, NEW s \in Requests, EndDelete(r), req'[s] = req[s]
    PROVE  Knows(s)'
<1> DEFINE q == req[s]
           d == req[r].deleting
<1>0. Knows(s)
    BY DEF Knows, IInv, RequestInv
<1>1. CASE UNCHANGED <<tasks, issued>>
    BY <1>0, <1>1, KnowsSame
<1>2. CASE /\ issued' = issued
           /\ tasks' = [x \in live \ d |->
                          IF x \in req[r].updating THEN [tasks[x] EXCEPT !.parent = NULL]
                          ELSE tasks[x]]
    <2>1. /\ live' = live \ d /\ d \subseteq issued /\ live \subseteq issued
          /\ NULL \notin issued
        BY <1>2, ConstantsAssumption DEF IInv, TypeOK, LockInv, HoldsItsRows, Locked
    <2>2. \A x \in live' :
             /\ tasks'[x].project = tasks[x].project
             /\ \/ tasks'[x].parent = tasks[x].parent
                \/ /\ tasks'[x].parent = NULL
                   /\ tasks[x].parent \in issued \ live'
        <3>1. \A x \in req[r].updating : tasks[x].parent \in d
            <4>1. EndDelete(r) /\ req[r].pc = "children" /\ HoldsItsRows(req[r]) /\ Fits(req[r])
                BY DEF EndDelete, IInv, LockInv
            <4> QED
                BY <4>1 DEF HoldsItsRows, Fits
        <3>2. \A x \in live' : tasks[x] \in Row
            BY <2>1 DEF IInv, TypeOK
        <3>3. \A x \in live' \ req[r].updating : tasks'[x] = tasks[x]
            BY <1>2, <2>1
        <3>4. \A x \in live' \cap req[r].updating :
                 tasks'[x].project = tasks[x].project /\ tasks'[x].parent = NULL
            BY <1>2, <2>1, <3>2 DEF Row
        <3> HIDE DEF d
        <3> QED
            BY <2>1, <3>1, <3>3, <3>4
    <2>3. \A x \in live' : up'[x] \in live' => up'[x] = up[x] /\ up[x] \in live
        BY <2>1, <2>2 DEF up
    <2> HIDE DEF d
    <2>4. WalkInv(q)'
        BY <1>0, <1>2, <2>1, <2>3 DEF Knows, WalkInv, Walked
    <2>5. CarriedOver(q)'
        BY <1>0, <1>2, <2>1, <2>2 DEF Knows, CarriedOver
    <2> QED
        BY <1>0, <2>4, <2>5 DEF Knows
<1> QED
    BY <1>1, <1>2 DEF EndDelete

\* A request that is not touched, while a task is inserted under a new id.
LEMMA KnowsInsert ==
    ASSUME IInv, NEW r \in Requests, NEW s \in Requests, InsertTask(r), req'[s] = req[s]
    PROVE  Knows(s)'
<1> DEFINE q == req[s]
<1>0. Knows(s)
    BY DEF Knows, IInv, RequestInv
<1>1. CASE UNCHANGED <<tasks, issued>>
    BY <1>0, <1>1, KnowsSame
<1>2. ASSUME NEW id \in TaskId \ issued, issued' = issued \cup {id},
             \/ UNCHANGED tasks
             \/ tasks' = [x \in live \cup {id} |-> IF x = id THEN req[r].row ELSE tasks[x]]
      PROVE  Knows(s)'
    <2>1. /\ live \subseteq live' /\ live' \subseteq live \cup {id}
          /\ \A x \in live : tasks'[x] = tasks[x]
          /\ id \notin live /\ live \subseteq issued
        BY <1>2 DEF IInv, TypeOK
    <2>2. \A x \in live : up'[x] = up[x] /\ (up[x] \in live' => up[x] \in live)
        BY <1>2, <2>1, ConstantsAssumption DEF up, IInv, ReferentialIntegrity
    <2>3. WalkInv(q)'
        BY <1>0, <1>2, <2>1, <2>2 DEF Knows, WalkInv, Walked
    <2>4. CarriedOver(q)'
        BY <1>0, <1>2, <2>1 DEF Knows, CarriedOver
    <2> QED
        BY <1>0, <2>3, <2>4 DEF Knows
<1> QED
    BY <1>1, <1>2 DEF InsertTask

\* A request that is not touched, while another one rewrites a task.
LEMMA KnowsRewrite ==
    ASSUME SingleWriter, IInv, NEW r \in Requests, NEW s \in Requests \ {r},
           RewriteTask(r), req'[s] = req[s]
    PROVE  Knows(s)'
<1>1. r \in Writers /\ issued' = issued
    BY DEF RewriteTask, IInv, RequestInv
<1>2. req[s].op # "update"
    BY <1>1 DEF SingleWriter, IInv, RequestInv
<1> QED
    BY <1>1, <1>2, KnowsNothing DEF IInv, RequestInv, WalkInv

\* A request that begins to write a row knows the row it has read.
LEMMA KnowsBegin ==
    ASSUME IInv, NEW r \in Requests, UNCHANGED <<projects, tasks, issued>>,
           NEW op \in {"create", "update"}, NEW target, NEW row, NEW columns,
           Begin(r, op, target, row, columns),
           op = "update" =>
              /\ r \in Writers
              /\ target \in live
              /\ "project" \notin columns => row.project = tasks[target].project
              /\ "parent" \notin columns => row.parent = tasks[target].parent
    PROVE  Knows(r)'
<1> DEFINE cursor == IF "parent" \in columns THEN row.parent ELSE NULL
           checks == "project" \in columns /\ row.project # NULL
           first  == IF checks THEN "project" ELSE AfterProject(op, cursor)
<1>1. req' = [req EXCEPT ![r] = Started(first, op, target, columns, row, cursor, {})]
    BY DEF Begin
<1>2. /\ first \in {"project", "walk", "lock", "write"}
      /\ first = "walk" => cursor # NULL
      /\ first \in {"lock", "write"} => cursor = NULL
    BY DEF AfterProject
<1>3. "parent" \in columns => cursor = row.parent
    OBVIOUS
<1> HIDE DEF first, cursor
<1>4. /\ req'[r].pc = first /\ req'[r].op = op /\ req'[r].target = target
      /\ req'[r].columns = columns /\ req'[r].row = row
      /\ req'[r].cursor = cursor /\ req'[r].visited = {}
    BY <1>1 DEF IInv, TypeOK, Started
<1>5. WalkInv(req[r])'
    BY <1>2, <1>3, <1>4 DEF WalkInv, Walked
<1>6. CarriedOver(req[r])'
    BY <1>4 DEF CarriedOver, IInv, TypeOK
<1> QED
    BY <1>4, <1>5, <1>6 DEF Knows

\* Reading one more ancestor keeps what the walk has shown.
LEMMA KnowsWalk ==
    ASSUME IInv, NEW r \in Requests, WalkParent(r)
    PROVE  Knows(r)'
<1> DEFINE q    == req[r]
           c    == q.cursor
           next == tasks[c].parent
           pc   == AfterProject(q.op, next)
<1>1. CASE \E reply \in Reply : Answer(r, reply)
    BY <1>1, KnowsAnswered DEF IInv
<1>2. CASE /\ ~ OwnParent(q)
           /\ c \in live
           /\ next = NULL \/ ~ ClosesCycle(q, next)
           /\ req' = [req EXCEPT ![r].visited = @ \cup {c}, ![r].cursor = next,
                        ![r].pc = AfterProject(q.op, next)]
    <2>1. req' = [req EXCEPT ![r].visited = @ \cup {c}, ![r].cursor = next, ![r].pc = pc]
        BY <1>2
    <2>2. /\ pc \in {"walk", "lock", "write"}
          /\ pc = "walk" => next # NULL
          /\ pc \in {"lock", "write"} => next = NULL
        BY DEF AfterProject
    <2>3. /\ Knows(r) /\ q.pc = "walk" /\ UNCHANGED <<tasks, issued>>
          /\ c \in issued /\ up[c] = next /\ q \in Request
        BY <1>2 DEF WalkParent, IInv, RequestInv, Knows, TypeOK, up
    <2>4. next # NULL => next # q.target
        BY <1>2
    <2>5. c # NULL /\ q.op \in {"create", "update"}
        BY <2>3 DEF Knows, WalkInv
    <2>6. c \in live /\ ~ OwnParent(q)
        BY <1>2
    <2> HIDE DEF pc, next, c
    <2>7. /\ req'[r].pc = pc /\ req'[r].op = q.op /\ req'[r].target = q.target
          /\ req'[r].columns = q.columns /\ req'[r].row = q.row
          /\ req'[r].cursor = next /\ req'[r].visited = q.visited \cup {c}
        BY <2>1 DEF IInv, TypeOK, Request
    <2>8. Walked(q) = q.visited \cup {c}
        BY <2>5 DEF Walked, c
    <2>9. Walked(q)' = (q.visited \cup {c}) \cup ({next} \ {NULL})
        BY <2>7 DEF Walked
    <2>10. ASSUME q.op = "update", "parent" \in q.columns, q.row.parent # NULL
           PROVE  /\ q.row.parent \in Walked(q)'
                  /\ q.target \notin Walked(q)'
                  /\ \A x \in (q.visited \cup {c}) \cap live :
                        up[x] \in live => up[x] \in Walked(q)'
        <3>1. /\ q.row.parent \in Walked(q)
              /\ q.target \notin Walked(q)
              /\ \A x \in q.visited \cap live : up[x] \in live => up[x] \in Walked(q)
            BY <2>3, <2>6, <2>10 DEF Knows, WalkInv
        <3>2. NULL \notin live
            BY ConstantsAssumption DEF IInv, TypeOK
        <3> HIDE DEF q
        <3> QED
            BY <2>3, <2>4, <2>8, <2>9, <3>1, <3>2
    <2>11. up' = up /\ live' = live /\ issued' = issued
        BY <2>3 DEF up
    <2>12. WalkInv(q)'
        BY <2>2, <2>3, <2>5, <2>7, <2>10, <2>11 DEF Knows, WalkInv
    <2>13. CarriedOver(q)'
        BY <2>3, <2>7 DEF Knows, CarriedOver
    <2> QED
        BY <2>3, <2>7, <2>12, <2>13 DEF Knows
<1> QED
    BY <1>1, <1>2 DEF WalkParent, Reply

\* A step of a request keeps what that request knows.
LEMMA OwnKnows ==
    ASSUME IInv, NEW r \in Requests, Start(r) \/ Continue(r) \/ Abort(r)
    PROVE  Knows(r)'
<1> DEFINE q == req[r]
<1>0. /\ q \in Request /\ HoldsItsRows(q) /\ Fits(q) /\ req \in [Requests -> Request]
      /\ Knows(r) /\ TypeOK
    BY DEF IInv, TypeOK, LockInv, RequestInv, Knows
<1>1. ASSUME NEW reply, Answer(r, reply) PROVE Knows(r)'
    BY <1>0, <1>1, KnowsAnswered
<1>2. ASSUME NEW p \in ProjectId \cup {NULL}, NEW w \in TaskId \cup {NULL}, CreateTask(r, p, w)
      PROVE  Knows(r)'
    BY <1>1, <1>2, KnowsBegin DEF CreateTask
<1>3. ASSUME NEW id \in TaskId, NEW columns \in SUBSET Column, r \in Writers,
             NEW p \in ProjectId \cup {NULL}, NEW w \in TaskId \cup {NULL},
             UpdateTask(r, id, columns, p, w)
      PROVE  Knows(r)'
    <2>1. CASE id \in live /\ Begin(r, "update", id, Patched(tasks[id], columns, p, w), columns)
        <3> DEFINE row == Patched(tasks[id], columns, p, w)
        <3>1. /\ "project" \notin columns => row.project = tasks[id].project
              /\ "parent" \notin columns => row.parent = tasks[id].parent
            OBVIOUS
        <3>2. Begin(r, "update", id, row, columns)
            BY <2>1
        <3> HIDE DEF row
        <3> QED
            BY <1>3, <2>1, <3>1, <3>2, KnowsBegin DEF UpdateTask
    <2> QED
        BY <1>1, <1>3, <2>1 DEF UpdateTask
<1>4. ASSUME NEW id, DeleteTask(r, id) \/ DeleteProject(r, id) PROVE Knows(r)'
    <2>1. CASE DeleteTask(r, id)
        BY <1>0, <2>1, KnowsNothing DEF DeleteTask, Started
    <2>2. CASE DeleteProject(r, id)
        BY <1>0, <2>2, KnowsNothing DEF DeleteProject, Started
    <2> QED
        BY <1>4, <2>1, <2>2
<1>5. ASSUME UNCHANGED <<tasks, issued>>,
             req'[r].op = q.op, req'[r].target = q.target, req'[r].columns = q.columns,
             req'[r].row = q.row, req'[r].cursor = q.cursor, req'[r].visited = q.visited,
             req'[r].pc = "walk" => q.op \in {"create", "update"} /\ q.cursor # NULL,
             req'[r].pc \in {"lock", "write"} => q.cursor = NULL
      PROVE  Knows(r)'
    <2>1. Walked(q)' = Walked(q) /\ up' = up /\ OwnParent(q)' = OwnParent(q)
        BY <1>5 DEF Walked, up
    <2> HIDE DEF q
    <2> QED
        BY <1>0, <1>5, <2>1 DEF Knows, WalkInv, CarriedOver, q
<1>6. ASSUME ReadProject(r) PROVE Knows(r)'
    <2>1. CASE req' = [req EXCEPT ![r].pc = AfterProject(q.op, q.cursor)]
        <3> DEFINE pc == AfterProject(q.op, q.cursor)
        <3>1. /\ pc = "walk" => q.cursor # NULL
              /\ pc \in {"lock", "write"} => q.cursor = NULL
            BY DEF AfterProject
        <3>2. q.op \in {"create", "update"}
            BY <1>0, <1>6 DEF ReadProject, Fits, Request
        <3> HIDE DEF pc
        <3>3. /\ req'[r].pc = pc /\ req'[r].op = q.op /\ req'[r].target = q.target
              /\ req'[r].columns = q.columns /\ req'[r].row = q.row
              /\ req'[r].cursor = q.cursor /\ req'[r].visited = q.visited
            BY <1>0, <2>1 DEF pc, Request
        <3> QED
            BY <1>5, <1>6, <3>1, <3>2, <3>3 DEF ReadProject
    <2> QED
        BY <1>1, <1>6, <2>1 DEF ReadProject
<1>7. ASSUME LockTask(r) PROVE Knows(r)'
    <2>1. CASE req' = [req EXCEPT ![r].pc = "write", ![r].updating = {q.target}]
        <3>1. /\ req'[r].pc = "write" /\ req'[r].op = q.op /\ req'[r].target = q.target
              /\ req'[r].columns = q.columns /\ req'[r].row = q.row
              /\ req'[r].cursor = q.cursor /\ req'[r].visited = q.visited
            BY <1>0, <2>1 DEF Request
        <3>2. q.cursor = NULL /\ UNCHANGED <<tasks, issued>>
            BY <1>0, <1>7 DEF LockTask, Knows, WalkInv
        <3> QED
            BY <1>5, <3>1, <3>2
    <2> QED
        BY <1>1, <1>7, <2>1 DEF LockTask
<1>8. ASSUME q.op \in {"delete_task", "delete_project"}, issued' = issued,
             req'[r].op = q.op, req'[r].visited = q.visited,
             req'[r].pc \in {"rows", "children", "drop"}
      PROVE  Knows(r)'
    BY <1>0, <1>8, KnowsNothing DEF Knows, WalkInv
<1>9. ASSUME NEW x \in TaskId, DeleteRow(r, x) PROVE Knows(r)'
    <2>1. req'[r].op = q.op /\ req'[r].visited = q.visited /\ req'[r].pc = q.pc
        BY <1>0, <1>9 DEF DeleteRow, Request
    <2> QED
        BY <1>0, <1>8, <1>9, <2>1 DEF DeleteRow, Fits
<1>10. ASSUME NEW x \in TaskId, DetachChild(r, x) PROVE Knows(r)'
    <2>1. req'[r].op = q.op /\ req'[r].visited = q.visited /\ req'[r].pc = q.pc
        BY <1>0, <1>10 DEF DetachChild, Request
    <2> QED
        BY <1>0, <1>8, <1>10, <2>1 DEF DetachChild, Fits
<1>11. ASSUME FindChildren(r) PROVE Knows(r)'
    <2>1. req'[r].op = q.op /\ req'[r].visited = q.visited /\ req'[r].pc = "children"
        BY <1>0, <1>11 DEF FindChildren, Request
    <2> QED
        BY <1>0, <1>8, <1>11, <2>1 DEF FindChildren, Fits
<1>12. ASSUME DropProject(r) PROVE Knows(r)'
    <2>1. CASE req' = [req EXCEPT ![r].pc = "rows", ![r].dropping = TRUE,
                         ![r].todo = TasksOf(q.target) \ q.deleting]
        <3>1. req'[r].op = q.op /\ req'[r].visited = q.visited /\ req'[r].pc = "rows"
            BY <1>0, <2>1 DEF Request
        <3> QED
            BY <1>0, <1>8, <1>12, <3>1 DEF DropProject, Fits
    <2> QED
        BY <1>1, <1>12, <2>1 DEF DropProject
<1>13. ASSUME EndDelete(r) PROVE Knows(r)'
    <2>1. CASE req' = [req EXCEPT ![r].pc = "drop"]
        <3>1. req'[r].op = q.op /\ req'[r].visited = q.visited /\ req'[r].pc = "drop"
            BY <1>0, <2>1 DEF Request
        <3> QED
            BY <1>0, <1>8, <1>13, <3>1 DEF EndDelete, Fits
    <2> QED
        BY <1>1, <1>13, <2>1 DEF EndDelete
<1>14. CASE Start(r)
    BY <1>2, <1>3, <1>4, <1>14 DEF Start, MayChange
<1>15. CASE Continue(r) \/ Abort(r)
    BY <1>1, <1>6, <1>7, <1>9, <1>10, <1>11, <1>12, <1>13, <1>15, KnowsWalk
    DEF Continue, RefuseTask, RewriteTask, InsertTask, BreakDeadlock, Abort
<1> QED
    BY <1>14, <1>15

\* Every step keeps what the requests know, if one of them updates at a time.
LEMMA RequestStep ==
    ASSUME SingleWriter, IInv, [Next]_vars
    PROVE  RequestInv'
<1>0. \A s \in Requests : Knows(s)
    BY DEF Knows, IInv, RequestInv
<1> SUFFICES \A s \in Requests : Knows(s)'
    BY DEF Knows, RequestInv
<1>1. CASE UNCHANGED vars
    BY <1>0, <1>1, KnowsSame DEF vars
<1>2. ASSUME NEW r \in Requests, Start(r) \/ Continue(r) \/ Abort(r)
      PROVE  \A s \in Requests : Knows(s)'
    <2>1. Knows(r)'
        BY <1>2, OwnKnows
    <2>2. \A s \in Requests \ {r} : req'[s] = req[s]
        BY <1>2, OwnHolds DEF IInv
    <2>3. ASSUME NEW s \in Requests \ {r} PROVE Knows(s)'
        <3>1. CASE RewriteTask(r)
            BY <2>2, <3>1, KnowsRewrite
        <3>2. CASE InsertTask(r)
            BY <2>2, <3>2, KnowsInsert
        <3>3. CASE EndDelete(r)
            BY <2>2, <3>3, KnowsCommit
        <3>4. CASE UNCHANGED <<tasks, issued>>
            BY <1>0, <2>2, <3>4, KnowsSame
        <3> QED
            BY <1>2, <3>1, <3>2, <3>3, <3>4
            DEF Start, Continue, Abort, CreateTask, UpdateTask, DeleteTask, DeleteProject,
                ReadProject, WalkParent, RefuseTask, LockTask, DeleteRow, DetachChild,
                FindChildren, DropProject, BreakDeadlock
    <2> QED
        BY <2>1, <2>3
<1> QED
    BY <1>1, <1>2 DEF Next

-----------------------------------------------------------------------------
(* Theorems for one updating request at a time *)

\* The inductive invariant holds initially and is kept by every step.
LEMMA InvariantInit == Init => IInv
<1> SUFFICES ASSUME Init PROVE IInv
    OBVIOUS
<1>1. live = {}
    BY DEF Init
<1>2. TasksAcyclic
    BY <1>1 DEF TasksAcyclic, Acyclic, up
<1>3. RequestInv
    <2>1. \A r \in Requests : req[r] = Idle("none")
        BY DEF Init
    <2> QED
        BY <2>1 DEF RequestInv, WalkInv, CarriedOver, Idle
<1> QED
    BY <1>1, <1>2, <1>3, TypeInit, LockInit DEF IInv, ReferentialIntegrity

LEMMA InvariantStep ==
    ASSUME SingleWriter, IInv, [Next]_vars
    PROVE  IInv'
BY TypeStep, LockStep, ReferentialStep, BoardStep, BoardStaysAcyclic, RequestStep DEF IInv

LEMMA Invariant == ASSUME SingleWriter PROVE Spec => []IInv
<1>1. IInv /\ [Next]_vars => IInv'
    BY InvariantStep
<1> QED
    BY <1>1, InvariantInit, PTL DEF Spec

\* As long as one request at a time updates tasks, no task becomes its own
\* ancestor, whatever creates and deletes, also of whole projects, run beside it.
THEOREM TasksStayAForest ==
    ASSUME SingleWriter PROVE Spec => []TasksAcyclic
<1>1. IInv => TasksAcyclic
    BY DEF IInv
<1> QED
    BY <1>1, Invariant, PTL

\* Under the same condition the requests, with their statements and locks,
\* implement the board, on which operations are atomic.
THEOREM TasksImplementBoard ==
    ASSUME SingleWriter PROVE Spec => ImplementsBoard
<1>1. Init => Board!Init
    BY DEF Init, Board!Init
<1>2. IInv /\ [Next]_vars => [Board!Next]_(Board!vars)
    BY BoardStep
<1> QED
    BY <1>1, <1>2, Invariant, PTL DEF Spec, ImplementsBoard, Board!Spec

=============================================================================
