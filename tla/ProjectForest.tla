---------------------------- MODULE ProjectForest ----------------------------
(***************************************************************************)
(* What the project store promises: a forest of projects on which every    *)
(* operation takes effect at once.                                         *)
(*                                                                         *)
(* This is the abstract specification of internal/todo's project           *)
(* operations.  It knows neither requests nor database statements:         *)
(* TodoProjects has those and is shown to implement this module.           *)
(***************************************************************************)
EXTENDS Hierarchy

CONSTANTS
    ProjectId,  \* the values todo_projects_id_seq may issue
    Name,       \* the names a user may give; stands for name and dates
    NULL        \* SQL NULL

VARIABLES
    projects,   \* the rows: DOMAIN projects is the set of existing ids
    issued      \* the ids the sequence has handed out

vars == <<projects, issued>>

Row == [parent : ProjectId \cup {NULL}, name : Name, archived : BOOLEAN]

live == DOMAIN projects

\* The parent relation of the current rows.
up == [x \in live |-> projects[x].parent]

Init ==
    \E seed \in ProjectId, n \in Name :
        /\ projects = [x \in {seed} |-> [parent |-> NULL, name |-> n, archived |-> FALSE]]
        /\ issued = {seed}

-----------------------------------------------------------------------------

\* Add a project below p, or at the top.
Create(p, n) ==
    /\ p \in live \cup {NULL}
    /\ \E id \in ProjectId \ issued :
        /\ projects' = [x \in live \cup {id} |->
                          IF x = id THEN [parent |-> p, name |-> n, archived |-> FALSE]
                          ELSE projects[x]]
        /\ issued' = issued \cup {id}

\* A refused insert uses up an id.
Burn ==
    /\ \E id \in ProjectId \ issued : issued' = issued \cup {id}
    /\ UNCHANGED projects

\* Rename a project and move it below p, unless p is in the subtree of id.
Update(id, p, n) ==
    /\ id \in live
    /\ \/ p = NULL
       \/ p \in live /\ ~ IsAncestor(up, id, p)
    /\ projects' = [projects EXCEPT ![id].parent = p, ![id].name = n]
    /\ UNCHANGED issued

\* Archive or restore a project: nothing but the flag changes.
SetArchived(id, flag) ==
    /\ id \in live
    /\ projects' = [projects EXCEPT ![id].archived = flag]
    /\ UNCHANGED issued

\* Delete a project: its children become top-level projects.
Delete(id) ==
    /\ id \in live
    /\ projects' = [x \in live \ {id} |->
                      IF projects[x].parent = id
                      THEN [projects[x] EXCEPT !.parent = NULL] ELSE projects[x]]
    /\ UNCHANGED issued

Next ==
    \/ \E p \in ProjectId \cup {NULL}, n \in Name : Create(p, n)
    \/ Burn
    \/ \E id \in ProjectId, p \in ProjectId \cup {NULL}, n \in Name : Update(id, p, n)
    \/ \E id \in ProjectId, flag \in BOOLEAN : SetArchived(id, flag)
    \/ \E id \in ProjectId : Delete(id)

Spec == Init /\ [][Next]_vars

-----------------------------------------------------------------------------

\* The rows are typed, and every existing id was issued by the sequence.
TypeOK ==
    /\ projects \in [live -> Row]
    /\ live \subseteq issued
    /\ issued \subseteq ProjectId

\* A parent that is set is an existing row.
ReferentialIntegrity ==
    \A x \in live : projects[x].parent \in live \cup {NULL}

\* Projects form a forest.
ProjectsAcyclic == Acyclic(up)

=============================================================================
