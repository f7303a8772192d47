\* Any two requests in flight together; one of the two writers moves tasks.
SPECIFICATION FairSpec
CONSTANTS
    P1 = P1  P2 = P2
    t1 = t1  t2 = t2  t3 = t3
    r1 = r1  r2 = r2
    NULL = NULL
    ProjectId <- OneProject
    TaskId <- TwoTasks
    Requests <- TwoRequests
    Writers <- TwoRequests
    Movers <- OneRequest
INVARIANTS
    TypeOK
    ReferentialIntegrity
PROPERTIES
    DeletedTogether
    EveryRequestAnswered
