\* One request moves a task while another one edits other columns.
SPECIFICATION Spec
CONSTANTS
    P1 = P1  P2 = P2
    t1 = t1  t2 = t2  t3 = t3
    r1 = r1  r2 = r2
    NULL = NULL
    ProjectId <- OneProject
    TaskId <- TwoTasks
    Requests <- TwoRequests
    Writers <- TwoRequests
    Movers <- OneRequest
INVARIANTS
    TasksAcyclic
