--------------------------- MODULE MCTodoProjects ---------------------------
(***************************************************************************)
(* Constants of the TLC runs of TodoProjects.                              *)
(***************************************************************************)
EXTENDS TodoProjects, TLC

CONSTANTS p1, p2, p3, n1, n2, r1, r2

ThreeProjects == {p1, p2, p3}
TwoProjects   == {p1, p2}
OneName       == {n1}
TwoNames      == {n1, n2}
OneRequest    == {r1}
TwoRequests   == {r1, r2}

\* Projects are interchangeable, and so are names.
Symmetric == Permutations(ThreeProjects) \cup Permutations(TwoNames)
=============================================================================
