\* Any two requests in flight together, two of them rewriting rows.
SPECIFICATION FairSpec
CONSTANTS
    p1 = p1  p2 = p2  p3 = p3
    n1 = n1  n2 = n2
    r1 = r1  r2 = r2
    NULL = NULL
    ProjectId <- TwoProjects
    Name <- OneName
    Requests <- TwoRequests
    Writers <- TwoRequests
PROPERTIES
    DeletedStaysDeleted
    EveryRequestAnswered
