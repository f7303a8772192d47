------------------------------ MODULE TaskBoard ------------------------------
(***************************************************************************)
(* What the task store promises: a board of projects and tasks on which    *)
(* every operation takes effect at once.                                   *)
(*                                                                         *)
(* This is the abstract specification of internal/todo's task operations   *)
(* and of the deletion of a project with its tasks.  TodoTasks, with its   *)
(* requests, statements and row locks, is shown to implement it.           *)
(***************************************************************************)
EXTENDS Hierarchy

CONSTANTS
    ProjectId,  \* the projects
    TaskId,     \* the values todo_tasks_id_seq may issue
    NULL        \* SQL NULL

VARIABLES
    projects,   \* the existing projects
    tasks,      \* todo_tasks: DOMAIN tasks is the set of existing ids
    issued      \* the ids the sequence has handed out

vars == <<projects, tasks, issued>>

live == DOMAIN tasks
up   == [x \in live |-> tasks[x].parent]

Init ==
    /\ projects = ProjectId
    /\ tasks = << >>
    /\ issued = {}

\* What is left of the tasks when those of D are gone: subtasks become top-level.
Without(D) ==
    [x \in live \ D |->
       IF tasks[x].parent \in D THEN [tasks[x] EXCEPT !.parent = NULL] ELSE tasks[x]]

-----------------------------------------------------------------------------

Create(p, q) ==
    /\ p \in projects \cup {NULL}
    /\ q \in live \cup {NULL}
    /\ \E id \in TaskId \ issued :
          /\ tasks' = [x \in live \cup {id} |->
                         IF x = id THEN [project |-> p, parent |-> q] ELSE tasks[x]]
          /\ issued' = issued \cup {id}
    /\ UNCHANGED projects

\* A refused insert uses up an id.
Burn ==
    /\ \E id \in TaskId \ issued : issued' = issued \cup {id}
    /\ UNCHANGED <<projects, tasks>>

\* Move a task to project p; its subtasks stay where they are.
MoveToProject(id, p) ==
    /\ id \in live
    /\ p \in projects \cup {NULL}
    /\ tasks' = [tasks EXCEPT ![id].project = p]
    /\ UNCHANGED <<projects, issued>>

\* Move a task below q, and to project p, unless q is in its subtree.
MoveBelow(id, p, q) ==
    /\ id \in live
    /\ p \in projects \cup {NULL}
    /\ \/ q = NULL
       \/ q \in live /\ ~ IsAncestor(up, id, q)
    /\ tasks' = [tasks EXCEPT ![id] = [project |-> p, parent |-> q]]
    /\ UNCHANGED <<projects, issued>>

DeleteTask(id) ==
    /\ id \in live
    /\ tasks' = Without({id})
    /\ UNCHANGED <<projects, issued>>

\* A project goes together with its tasks, and nothing else does.
DeleteProject(p) ==
    /\ p \in projects
    /\ projects' = projects \ {p}
    /\ tasks' = Without({x \in live : tasks[x].project = p})
    /\ UNCHANGED issued

Next ==
    \/ \E p \in ProjectId \cup {NULL}, q \in TaskId \cup {NULL} : Create(p, q)
    \/ Burn
    \/ \E id \in TaskId, p \in ProjectId \cup {NULL} :
          \/ MoveToProject(id, p)
          \/ \E q \in TaskId \cup {NULL} : MoveBelow(id, p, q)
    \/ \E id \in TaskId : DeleteTask(id)
    \/ \E p \in ProjectId : DeleteProject(p)

Spec == Init /\ [][Next]_vars

=============================================================================
