------------------------------ MODULE Hierarchy ------------------------------
(***************************************************************************)
(* Facts of a parent relation, for the two self-referencing tables of the  *)
(* Todo module (todo_projects.parent_project_id and                        *)
(* todo_tasks.parent_task_id).                                             *)
(*                                                                         *)
(* A hierarchy is a function up: its domain is the set of rows, up[x] is   *)
(* the parent of row x.  A value outside the domain (SQL NULL) means that  *)
(* x is a root.  Nothing here is recursive, so that the definitions can be *)
(* used in proofs.                                                         *)
(***************************************************************************)

\* S contains the parent of each of its members that has one.
UpClosed(up, S) ==
    \A x \in S : up[x] \in DOMAIN up => up[x] \in S

\* Following parents from x reaches a: every set of rows that holds x and the
\* parents of its members holds a.  A row is an ancestor of itself.
IsAncestor(up, a, x) ==
    \A S \in SUBSET DOMAIN up : x \in S /\ UpClosed(up, S) => a \in S

\* No row is its own proper ancestor: every non-empty set of rows has a
\* member whose parent is outside of it.
Acyclic(up) ==
    \A S \in SUBSET DOMAIN up : S # {} => \E x \in S : up[x] \notin S

=============================================================================
