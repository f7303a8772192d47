\* One request rewrites rows at a time; creates and deletes run beside it.
SPECIFICATION Spec
CONSTANTS
    p1 = p1  p2 = p2  p3 = p3
    n1 = n1  n2 = n2
    r1 = r1  r2 = r2
    NULL = NULL
    ProjectId <- ThreeProjects
    Name <- OneName
    Requests <- TwoRequests
    Writers <- OneRequest
SYMMETRY Symmetric
INVARIANTS
    ReferentialIntegrity
    ProjectsAcyclic
PROPERTIES
    RejectsOnlyCycles
    ImplementsForest
