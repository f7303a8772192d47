---------------------------- MODULE MCTodoTasks ----------------------------
(***************************************************************************)
(* Constants of the TLC runs of TodoTasks.                                 *)
(***************************************************************************)
EXTENDS TodoTasks, TLC

CONSTANTS P1, P2, t1, t2, t3, r1, r2

OneProject  == {P1}
TwoProjects == {P1, P2}
TwoTasks    == {t1, t2}
ThreeTasks  == {t1, t2, t3}
OneRequest  == {r1}
TwoRequests == {r1, r2}

\* Projects are interchangeable, and so are tasks.
Symmetric == Permutations(TwoProjects) \cup Permutations(ThreeTasks)
=============================================================================
