\* Longer walks: three tasks in one project, one request updates at a time.
SPECIFICATION Spec
CONSTANTS
    P1 = P1  P2 = P2
    t1 = t1  t2 = t2  t3 = t3
    r1 = r1  r2 = r2
    NULL = NULL
    ProjectId <- OneProject
    TaskId <- ThreeTasks
    Requests <- TwoRequests
    Writers <- OneRequest
    Movers <- OneRequest
SYMMETRY Symmetric
INVARIANTS
    TasksAcyclic
PROPERTIES
    ImplementsBoard
