---------------------------- MODULE TodoProjects ----------------------------
(***************************************************************************)
(* The project operations of internal/todo: the HTTP handlers, the use     *)
(* cases of application/service.go and the statements of                   *)
(* adapters/postgres/repository.go on the table todo_projects.             *)
(*                                                                         *)
(* A request is one goroutine of the HTTP server.  It holds no lock and no *)
(* transaction between its SQL statements, so a step of this module is one *)
(* statement together with the Go code up to the next one, and the steps   *)
(* of different requests interleave.                                       *)
(***************************************************************************)
EXTENDS Hierarchy

CONSTANTS
    ProjectId,  \* the values todo_projects_id_seq may issue
    Name,       \* what a user may type; stands for name, start and end date
    NULL,       \* SQL NULL; as a typed name: one that validation refuses
    Requests,   \* slots for requests in flight
    Writers     \* the slots that may run update, archive and restore

ASSUME ConstantsAssumption ==
    /\ NULL \notin ProjectId \cup Name
    /\ Writers \subseteq Requests

VARIABLES
    projects,   \* todo_projects: DOMAIN projects is the set of existing ids
    issued,     \* the ids the sequence has handed out
    req         \* the state of each request slot

vars == <<projects, issued, req>>

Row == [parent : ProjectId \cup {NULL}, name : Name, archived : BOOLEAN]

live == DOMAIN projects

\* The parent relation of the current rows.
up == [x \in live |-> projects[x].parent]

\* The row a request is about to write, before its name was validated.
RowInput == [parent : ProjectId \cup {NULL}, name : Name \cup {NULL}, archived : BOOLEAN]

Reply == {"none", "ok", "not_found", "invalid_hierarchy", "validation_error",
          "internal_error"}

Request ==
    [pc      : {"idle", "walk", "write"},
     op      : {"none", "create", "update", "archive", "restore"},
     target  : ProjectId \cup {NULL},       \* the id of the path
     row     : RowInput,                    \* the row to be written
     cursor  : ProjectId \cup {NULL},       \* the next ancestor to read
     visited : SUBSET ProjectId,            \* the ancestors read so far
     reply   : Reply]                       \* the answer to the last request

Idle(reply) ==
    [pc |-> "idle", op |-> "none", target |-> NULL,
     row |-> [parent |-> NULL, name |-> NULL, archived |-> FALSE],
     cursor |-> NULL, visited |-> {}, reply |-> reply]

\* Request r ends with this answer.
Answer(r, reply) == req' = [req EXCEPT ![r] = Idle(reply)]

\* Request r goes on to its next statement: reading the requested parent when
\* there is one to check, else writing the row.
Proceed(r, op, target, row, check) ==
    req' = [req EXCEPT ![r] =
              [pc |-> IF check THEN "walk" ELSE "write",
               op |-> op, target |-> target, row |-> row,
               cursor |-> IF check THEN row.parent ELSE NULL,
               visited |-> {}, reply |-> "none"]]

\* Variant: an id is taken again once its row is gone.
IdsOfNoRow == ProjectId \ live

\* The ids the sequence can still issue.
FreshIds == ProjectId \ issued

\* domain.NewProject and domain.UpdateProject refuse the row before it is written.
Refused(row) == row.name = NULL

\* The row domain.UpdateProject makes of the one that was read.
UpdatedRow(old, p, n) == [old EXCEPT !.parent = p, !.name = n]

\* Variant: children keep the id of the deleted parent.
StillAttached(row, id) == row

\* ON DELETE SET NULL: what deleting project id leaves of another row.
Detached(row, id) == IF row.parent = id THEN [row EXCEPT !.parent = NULL] ELSE row

\* Variant: only a row met twice is looked for.
MovedProjectUnseen(q, next) == next \in q.visited \cup {q.cursor}

\* Variant: only the moved project is looked for.
VisitedForgotten(q, next) == next = q.target

\* Variant: a parent may not have a parent itself.
TooDeep(q, next) == TRUE

\* The next ancestor is the project being moved, or was read before.
ClosesCycle(q, next) == next = q.target \/ next \in q.visited \cup {q.cursor}

\* After the migrations the table holds one project, the seeded 'Архив'.
Init ==
    /\ \E seed \in ProjectId, n \in Name :
          /\ projects = [x \in {seed} |-> [parent |-> NULL, name |-> n, archived |-> FALSE]]
          /\ issued = {seed}
    /\ req = [r \in Requests |-> Idle("none")]

-----------------------------------------------------------------------------
(* First statements *)

\* POST /projects: nothing is read before the parent walk.
CreateProject(r, p, n) ==
    /\ req[r].pc = "idle"
    /\ Proceed(r, "create", NULL, [parent |-> p, name |-> n, archived |-> FALSE], p # NULL)
    /\ UNCHANGED <<projects, issued>>

\* PATCH /projects/{id}: read the project; its archived flag is carried over into
\* the row that will be written.
UpdateProject(r, id, p, n) ==
    /\ req[r].pc = "idle"
    /\ \/ /\ id \notin live
          /\ Answer(r, "not_found")
       \/ /\ id \in live
          /\ p = id
          /\ Answer(r, "invalid_hierarchy")
       \/ /\ id \in live
          /\ p # id
          /\ Proceed(r, "update", id,
                     UpdatedRow(projects[id], p, n), p # NULL)
    /\ UNCHANGED <<projects, issued>>

\* PATCH /projects/{id}/archive and /restore: read the project; every column but
\* the flag is carried over into the row that will be written.
SetArchivedProject(r, id, flag) ==
    /\ req[r].pc = "idle"
    /\ \/ /\ id \notin live
          /\ Answer(r, "not_found")
       \/ /\ id \in live
          /\ Proceed(r, IF flag THEN "archive" ELSE "restore", id,
                     [projects[id] EXCEPT !.archived = flag], FALSE)
    /\ UNCHANGED <<projects, issued>>

\* DELETE /projects/{id}: one transaction, which removes the row and, by
\* ON DELETE SET NULL, makes its children top-level projects.
DeleteProject(r, id) ==
    /\ req[r].pc = "idle"
    /\ \/ /\ id \notin live
          /\ Answer(r, "not_found")
          /\ UNCHANGED projects
       \/ /\ id \in live
          /\ projects' = [x \in live \ {id} |-> Detached(projects[x], id)]
          /\ Answer(r, "ok")
    /\ UNCHANGED issued

-----------------------------------------------------------------------------
(* Later statements *)

\* One iteration of ensureProjectParent: read the ancestor under the cursor and
\* decide whether the walk fails, goes on or is finished.
WalkParent(r) ==
    LET q    == req[r]
        c    == q.cursor
        next == projects[c].parent
    IN  /\ q.pc = "walk"
        /\ \/ /\ c \notin live
              /\ Answer(r, "not_found")
           \/ /\ c \in live
              /\ next = NULL
              /\ req' = [req EXCEPT ![r].pc = "write", ![r].cursor = NULL,
                                    ![r].visited = @ \cup {c}]
           \/ /\ c \in live
              /\ next # NULL
              /\ ClosesCycle(q, next)
              /\ Answer(r, "invalid_hierarchy")
           \/ /\ c \in live
              /\ next # NULL
              /\ ~ ClosesCycle(q, next)
              /\ req' = [req EXCEPT ![r].cursor = next, ![r].visited = @ \cup {c}]
        /\ UNCHANGED <<projects, issued>>

\* The INSERT.  The sequence is advanced before the foreign key is checked.
InsertProject(r) ==
    LET row == req[r].row
    IN  /\ req[r].pc = "write"
        /\ req[r].op = "create"
        /\ \/ /\ Refused(row)
              /\ Answer(r, "validation_error")
              /\ UNCHANGED <<projects, issued>>
           \/ /\ ~ Refused(row)
              /\ FreshIds = {}
              /\ Answer(r, "internal_error")
              /\ UNCHANGED <<projects, issued>>
           \/ /\ ~ Refused(row)
              /\ \E id \in FreshIds :
                    /\ issued' = issued \cup {id}
                    /\ \/ /\ row.parent \in live \cup {NULL}
                          /\ projects' = [x \in live \cup {id} |->
                                            IF x = id THEN row ELSE projects[x]]
                          /\ Answer(r, "ok")
                       \/ /\ row.parent \notin live \cup {NULL}
                          /\ UNCHANGED projects
                          /\ Answer(r, "not_found")

\* The UPDATE of every column.  The row may have gone since it was read, and so
\* may the parent (foreign key violation); a parent equal to the row itself would
\* violate todo_projects_parent_not_self_check.
RewriteProject(r) ==
    LET row == req[r].row
        id  == req[r].target
    IN  /\ req[r].pc = "write"
        /\ req[r].op # "create"
        /\ \/ /\ Refused(row)
              /\ Answer(r, "validation_error")
              /\ UNCHANGED projects
           \/ /\ ~ Refused(row)
              /\ id \notin live \/ row.parent \notin (live \cup {NULL}) \ {id}
              /\ Answer(r, IF id \in live /\ row.parent = id THEN "internal_error"
                           ELSE "not_found")
              /\ UNCHANGED projects
           \/ /\ ~ Refused(row)
              /\ id \in live
              /\ row.parent \in (live \cup {NULL}) \ {id}
              /\ projects' = [projects EXCEPT ![id] = row]
              /\ Answer(r, "ok")
        /\ UNCHANGED issued

\* The request's context is cancelled, its connection breaks or the process
\* stops: what was written stays, the rest is not done.
Abort(r) ==
    /\ req[r].pc # "idle"
    /\ Answer(r, "internal_error")
    /\ UNCHANGED <<projects, issued>>

-----------------------------------------------------------------------------

Start(r) ==
    \/ \E p \in ProjectId \cup {NULL}, n \in Name \cup {NULL} : CreateProject(r, p, n)
    \/ \E id \in ProjectId : DeleteProject(r, id)
    \/ /\ r \in Writers
       /\ \E id \in ProjectId :
             \/ \E p \in ProjectId \cup {NULL}, n \in Name \cup {NULL} :
                   UpdateProject(r, id, p, n)
             \/ \E flag \in BOOLEAN : SetArchivedProject(r, id, flag)

Continue(r) == WalkParent(r) \/ InsertProject(r) \/ RewriteProject(r)

Next == \E r \in Requests : Start(r) \/ Continue(r) \/ Abort(r)

Spec == Init /\ [][Next]_vars

\* The Go scheduler and the database let every started request take its next
\* step; nothing forces a user to start one, or a request to fail.
FairSpec == Spec /\ \A r \in Requests : WF_vars(Continue(r))

-----------------------------------------------------------------------------
(* Properties *)

\* The variables are typed, every existing id was issued, and an idle slot keeps
\* nothing of its last request but the answer.
TypeOK ==
    /\ projects \in [live -> Row]
    /\ live \subseteq issued
    /\ issued \subseteq ProjectId
    /\ req \in [Requests -> Request]
    /\ \A r \in Requests : req[r].pc = "idle" => req[r] = Idle(req[r].reply)

\* A parent that is set is an existing row, whatever requests are in flight: a
\* parent deleted between a request's check and its write is caught by the write.
ReferentialIntegrity ==
    \A x \in live : projects[x].parent \in live \cup {NULL}

\* Projects form a forest: no project is its own ancestor (service.go promises
\* it by answering ErrInvalidHierarchy to an update that would close a cycle).
ProjectsAcyclic == Acyclic(up)

\* The part of the in-flight requests' state that keeps the forest a forest when
\* one request rewrites rows at a time.  The next three definitions are what each
\* kind of request may still rely on when it writes.
\*
\* An update that moves a project below row.parent has walked from there: every
\* row it has visited, if it is still there, is a root or has its parent among the
\* rows visited or about to be, and the moved project is not one of them.
Walked(q) == q.visited \cup ({q.cursor} \ {NULL})

WalkInv(q) ==
    /\ q.pc = "walk" => q.op \in {"create", "update"} /\ q.cursor # NULL
    /\ q.pc = "write" => q.op # "none" /\ q.cursor = NULL
    /\ q.visited \subseteq issued
    /\ q.op = "update" /\ q.row.parent # NULL =>
          /\ q.row.parent \in Walked(q)
          /\ q.target \notin Walked(q)
          /\ \A x \in q.visited \cap live : up[x] \in live => up[x] \in Walked(q)

\* The columns a request carries over are still those of the row, except that
\* the parent may have been deleted in between, and then the write will fail.
CarriedOver(q) ==
    /\ q.op = "create" => q.row.archived = FALSE
    /\ q.op \in {"update", "archive", "restore"} => q.target \in issued
    /\ q.op = "update" /\ q.target \in live =>
          q.row.archived = projects[q.target].archived
    /\ q.op \in {"archive", "restore"} /\ q.target \in live =>
          /\ q.row.name = projects[q.target].name
          /\ \/ q.row.parent = projects[q.target].parent
             \/ q.row.parent \in issued \ live

\* What every in-flight request has learnt stays true until it writes, beside
\* any creates and deletes, as long as nobody else rewrites rows.
RequestInv ==
    /\ \A r \in Requests : WalkInv(req[r]) /\ CarriedOver(req[r])
    /\ \A r \in Requests \ Writers : req[r].op \in {"none", "create"}

\* The inductive invariant of the proofs.
IInv == TypeOK /\ ReferentialIntegrity /\ ProjectsAcyclic /\ RequestInv

\* A deleted project never comes back: a request that read the row before the
\* delete answers "not found" and does not insert it again, and the sequence does
\* not hand out an id twice.
DeletedStaysDeleted ==
    [][issued \ live \subseteq issued' \ live']_vars

\* What is archived stays so until a request restores it, and the reverse: a rename
\* or a move, which writes the whole row it has read, does not undo an archival that
\* happened since.
ArchivedOnlyByArchival ==
    [][\A x \in live \cap live' :
         projects'[x].archived # projects[x].archived =>
            \E r \in Requests : /\ req[r].pc = "write"
                               /\ req[r].op \in {"archive", "restore"}
                               /\ req[r].target = x]_vars

\* Alone on the table, an update is answered "todo hierarchy is invalid" only when
\* it would really close a cycle: the requested parent is below the project.
\* Beside other requests the walk may reach the project over rows that are gone
\* by then, so every other slot must not have been used yet.
RejectsOnlyCycles ==
    [][\A r \in Requests :
         /\ req[r].pc = "walk"
         /\ req'[r].reply = "invalid_hierarchy"
         /\ \A s \in Requests \ {r} : req[s] = Idle("none")
         => /\ req[r].op = "update"
            /\ IsAncestor(up, req[r].target, req[r].row.parent)]_vars

\* Every request is answered, although the walk to the root runs over rows that
\* other requests keep changing, and may run over a cycle they have closed.
EveryRequestAnswered ==
    \A r \in Requests : req[r].pc # "idle" ~> req[r].pc = "idle"

\* The requests implement the abstract store, on which operations are atomic.
Forest == INSTANCE ProjectForest
ImplementsForest == Forest!Spec

=============================================================================
