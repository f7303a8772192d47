------------------------- MODULE TodoProjectsProofs -------------------------
(***************************************************************************)
(* Theorems about the project operations, for every set of projects, names *)
(* and requests.                                                           *)
(***************************************************************************)
EXTENDS TodoProjects, HierarchyTheorems

\* The one-line definitions the actions are made of are always expanded.
USE DEF FreshIds, Refused, UpdatedRow, Detached, ClosesCycle

-----------------------------------------------------------------------------
(* Types *)

LEMMA IdleType ==
    ASSUME NEW reply \in Reply
    PROVE  Idle(reply) \in Request /\ Idle(reply).pc = "idle" /\ Idle(reply).reply = reply
BY DEF Idle, Request, RowInput

\* An answer puts a typed idle slot in the place of the request.
LEMMA AnswerType ==
    ASSUME TypeOK, NEW r \in Requests, NEW reply \in Reply, Answer(r, reply)
    PROVE  /\ req' \in [Requests -> Request]
           /\ \A s \in Requests : req'[s].pc = "idle" => req'[s] = Idle(req'[s].reply)
<1>1. req' = [req EXCEPT ![r] = Idle(reply)]
    BY DEF Answer
<1>2. req \in [Requests -> Request]
    BY DEF TypeOK
<1>3. \A s \in Requests : req'[s] = IF s = r THEN Idle(reply) ELSE req[s]
    BY <1>1, <1>2
<1> QED
    BY <1>1, <1>2, <1>3, IdleType DEF TypeOK

\* Going on puts a typed request in the slot, and it is not idle.
LEMMA ProceedType ==
    ASSUME TypeOK, NEW r \in Requests,
           NEW op \in {"create", "update", "archive", "restore"},
           NEW target \in ProjectId \cup {NULL}, NEW row \in RowInput,
           NEW check \in BOOLEAN,
           Proceed(r, op, target, row, check)
    PROVE  /\ req' \in [Requests -> Request]
           /\ \A s \in Requests : req'[s].pc = "idle" => req'[s] = Idle(req'[s].reply)
<1> DEFINE q == [pc |-> IF check THEN "walk" ELSE "write",
                 op |-> op, target |-> target, row |-> row,
                 cursor |-> IF check THEN row.parent ELSE NULL,
                 visited |-> {}, reply |-> "none"]
<1>1. req' = [req EXCEPT ![r] = q]
    BY DEF Proceed
<1>2. req \in [Requests -> Request]
    BY DEF TypeOK
<1>3. q \in Request /\ q.pc # "idle"
    BY DEF Request, RowInput, Reply
<1> HIDE DEF q
<1>4. \A s \in Requests : req'[s] = IF s = r THEN q ELSE req[s]
    BY <1>1, <1>2
<1> QED
    BY <1>1, <1>2, <1>3, <1>4 DEF TypeOK

\* Every step keeps the types.
LEMMA TypeStep ==
    ASSUME TypeOK, [Next]_vars
    PROVE  TypeOK'
<1> USE DEF live
<1>1. ASSUME NEW r \in Requests, NEW p \in ProjectId \cup {NULL}, NEW n \in Name \cup {NULL},
             CreateProject(r, p, n)
      PROVE  TypeOK'
    <2>1. [parent |-> p, name |-> n, archived |-> FALSE] \in RowInput
        BY DEF RowInput
    <2>2. /\ req' \in [Requests -> Request]
          /\ \A s \in Requests : req'[s].pc = "idle" => req'[s] = Idle(req'[s].reply)
        BY <1>1, <2>1, ProceedType DEF CreateProject
    <2> QED
        BY <1>1, <2>2 DEF CreateProject, TypeOK
<1>2. ASSUME NEW r \in Requests, NEW id \in ProjectId,
             NEW p \in ProjectId \cup {NULL}, NEW n \in Name \cup {NULL},
             UpdateProject(r, id, p, n)
      PROVE  TypeOK'
    <2>1. id \in live => UpdatedRow(projects[id], p, n) \in RowInput
        BY DEF RowInput, TypeOK, Row
    <2>2. /\ req' \in [Requests -> Request]
          /\ \A s \in Requests : req'[s].pc = "idle" => req'[s] = Idle(req'[s].reply)
        BY <1>2, <2>1, ProceedType, AnswerType DEF UpdateProject, Reply
    <2> QED
        BY <1>2, <2>2 DEF UpdateProject, TypeOK
<1>3. ASSUME NEW r \in Requests, NEW id \in ProjectId, NEW flag \in BOOLEAN,
             SetArchivedProject(r, id, flag)
      PROVE  TypeOK'
    <2>1. id \in live => [projects[id] EXCEPT !.archived = flag] \in RowInput
        BY DEF RowInput, TypeOK, Row
    <2>2. /\ req' \in [Requests -> Request]
          /\ \A s \in Requests : req'[s].pc = "idle" => req'[s] = Idle(req'[s].reply)
        BY <1>3, <2>1, ProceedType, AnswerType DEF SetArchivedProject, Reply
    <2> QED
        BY <1>3, <2>2 DEF SetArchivedProject, TypeOK
<1>4. ASSUME NEW r \in Requests, NEW id \in ProjectId, DeleteProject(r, id)
      PROVE  TypeOK'
    <2>1. /\ req' \in [Requests -> Request]
          /\ \A s \in Requests : req'[s].pc = "idle" => req'[s] = Idle(req'[s].reply)
        BY <1>4, AnswerType DEF DeleteProject, Reply
    <2>2. /\ projects' \in [live' -> Row]
          /\ live' \subseteq issued'
          /\ issued' \subseteq ProjectId
        BY <1>4 DEF DeleteProject, TypeOK, Row
    <2> QED
        BY <2>1, <2>2 DEF TypeOK
<1>5. ASSUME NEW r \in Requests, WalkParent(r)
      PROVE  TypeOK'
    <2>1. /\ req' \in [Requests -> Request]
          /\ \A s \in Requests : req'[s].pc = "idle" => req'[s] = Idle(req'[s].reply)
        <3>1. CASE \E reply \in Reply : Answer(r, reply)
            BY <3>1, AnswerType
        <3>2. CASE /\ req[r].cursor \in live
                   /\ req' = [req EXCEPT ![r].pc = "write", ![r].cursor = NULL,
                                         ![r].visited = @ \cup {req[r].cursor}]
            <4> DEFINE c == req[r].cursor
                       q == [req[r] EXCEPT !.pc = "write", !.cursor = NULL,
                                           !.visited = @ \cup {c}]
            <4>1. req[r] \in Request /\ c \in ProjectId
                BY <3>2 DEF TypeOK
            <4>2. q \in Request /\ q.pc = "write"
                BY <4>1 DEF Request
            <4>3. req' = [req EXCEPT ![r] = q]
                BY <3>2 DEF TypeOK
            <4> QED
                BY <4>2, <4>3 DEF TypeOK
        <3>3. CASE /\ req[r].cursor \in live
                   /\ req' = [req EXCEPT ![r].cursor = projects[req[r].cursor].parent,
                                         ![r].visited = @ \cup {req[r].cursor}]
            <4> DEFINE c    == req[r].cursor
                       next == projects[c].parent
                       q    == [req[r] EXCEPT !.cursor = next, !.visited = @ \cup {c}]
            <4>1. req[r] \in Request /\ req[r].pc = "walk"
                BY <1>5 DEF TypeOK, WalkParent
            <4>2. c \in ProjectId /\ next \in ProjectId \cup {NULL}
                BY <3>3 DEF TypeOK, Row
            <4>3. req' = [req EXCEPT ![r] = q]
                BY <3>3 DEF TypeOK
            <4> HIDE DEF c, next
            <4>4. q \in Request /\ q.pc = "walk"
                BY <4>1, <4>2 DEF Request
            <4> QED
                BY <4>3, <4>4 DEF TypeOK
        <3> QED
            BY <1>5, <3>1, <3>2, <3>3 DEF WalkParent, Reply
    <2> QED
        BY <1>5, <2>1 DEF WalkParent, TypeOK
<1>6. ASSUME NEW r \in Requests, InsertProject(r)
      PROVE  TypeOK'
    <2>1. /\ req' \in [Requests -> Request]
          /\ \A s \in Requests : req'[s].pc = "idle" => req'[s] = Idle(req'[s].reply)
        BY <1>6, AnswerType DEF InsertProject, Reply
    <2>2. req[r].row \in RowInput
        BY DEF TypeOK, Request
    <2>3. /\ projects' \in [live' -> Row]
          /\ live' \subseteq issued'
          /\ issued' \subseteq ProjectId
        BY <1>6, <2>2 DEF InsertProject, TypeOK, Row, RowInput
    <2> QED
        BY <2>1, <2>3 DEF TypeOK
<1>7. ASSUME NEW r \in Requests, RewriteProject(r)
      PROVE  TypeOK'
    <2>1. /\ req' \in [Requests -> Request]
          /\ \A s \in Requests : req'[s].pc = "idle" => req'[s] = Idle(req'[s].reply)
        BY <1>7, AnswerType DEF RewriteProject, Reply
    <2>2. req[r].row \in RowInput
        BY DEF TypeOK, Request
    <2>3. /\ projects' \in [live' -> Row]
          /\ live' \subseteq issued'
          /\ issued' \subseteq ProjectId
        BY <1>7, <2>2 DEF RewriteProject, TypeOK, Row, RowInput
    <2> QED
        BY <2>1, <2>3 DEF TypeOK
<1>8. ASSUME NEW r \in Requests, Abort(r)
      PROVE  TypeOK'
    BY <1>8, AnswerType DEF Abort, TypeOK, Reply
<1>9. CASE UNCHANGED vars
    BY <1>9 DEF vars, TypeOK
<1> QED
    BY <1>1, <1>2, <1>3, <1>4, <1>5, <1>6, <1>7, <1>8, <1>9
    DEF Next, Start, Continue

\* Initially the table holds the seeded project and no request is in flight.
LEMMA TypeInit == Init => TypeOK
<1> SUFFICES ASSUME Init PROVE TypeOK
    OBVIOUS
<1>1. PICK seed \in ProjectId, n \in Name :
          /\ projects = [x \in {seed} |-> [parent |-> NULL, name |-> n, archived |-> FALSE]]
          /\ issued = {seed}
    BY DEF Init
<1>2. projects \in [live -> Row] /\ live = {seed}
    BY <1>1 DEF Row, live
<1>3. "none" \in Reply
    BY DEF Reply
<1>4. \A r \in Requests : req[r] = Idle("none")
    BY DEF Init
<1>5. req \in [Requests -> Request]
    BY <1>3, IdleType DEF Init
<1> QED
    BY <1>1, <1>2, <1>3, <1>4, <1>5, IdleType DEF TypeOK

\* The variables of the project operations keep their types.
THEOREM TypeCorrect == Spec => []TypeOK
BY TypeInit, TypeStep, PTL DEF Spec

-----------------------------------------------------------------------------
(* Properties that hold whatever requests run together *)

\* A parent that is set is an existing row, in every step.
LEMMA ReferentialStep ==
    ASSUME TypeOK, ReferentialIntegrity, [Next]_vars
    PROVE  ReferentialIntegrity'
<1> USE ConstantsAssumption DEF live, ReferentialIntegrity
<1>1. ASSUME NEW r \in Requests, NEW id \in ProjectId, DeleteProject(r, id)
      PROVE  ReferentialIntegrity'
    BY <1>1 DEF DeleteProject, TypeOK, Row
<1>2. ASSUME NEW r \in Requests, InsertProject(r)
      PROVE  ReferentialIntegrity'
    <2>1. CASE UNCHANGED projects
        BY <2>1
    <2>2. ASSUME NEW id \in ProjectId \ issued,
                 req[r].row.parent \in live \cup {NULL},
                 projects' = [x \in live \cup {id} |->
                                IF x = id THEN req[r].row ELSE projects[x]]
          PROVE  ReferentialIntegrity'
        BY <2>2
    <2> QED
        BY <1>2, <2>1, <2>2 DEF InsertProject
<1>3. ASSUME NEW r \in Requests, RewriteProject(r)
      PROVE  ReferentialIntegrity'
    BY <1>3 DEF RewriteProject, TypeOK
<1>4. CASE UNCHANGED projects
    BY <1>4
<1> QED
    BY <1>1, <1>2, <1>3, <1>4, ZenonT(40)
    DEF Next, Start, Continue, vars, CreateProject, UpdateProject,
        SetArchivedProject, WalkParent, Abort

\* No request ever leaves a project with a parent that does not exist.
THEOREM NoDanglingParent == Spec => []ReferentialIntegrity
<1>1. Init => ReferentialIntegrity
    BY ConstantsAssumption DEF Init, ReferentialIntegrity, live
<1> QED
    BY <1>1, TypeCorrect, ReferentialStep, PTL DEF Spec

\* A deleted project never comes back, whatever a request read before.
THEOREM DeletedProjectsStayDeleted == Spec => DeletedStaysDeleted
<1>1. TypeOK /\ [Next]_vars => [issued \ live \subseteq issued' \ live']_vars
    <2> SUFFICES ASSUME TypeOK, [Next]_vars
                 PROVE  issued \ live \subseteq issued' \ live'
        OBVIOUS
    <2> USE DEF live
    <2>1. ASSUME NEW r \in Requests, NEW id \in ProjectId, DeleteProject(r, id)
          PROVE  issued \ live \subseteq issued' \ live'
        BY <2>1 DEF DeleteProject, TypeOK
    <2>2. ASSUME NEW r \in Requests, InsertProject(r)
          PROVE  issued \ live \subseteq issued' \ live'
        BY <2>2 DEF InsertProject, TypeOK
    <2>3. ASSUME NEW r \in Requests, RewriteProject(r)
          PROVE  issued \ live \subseteq issued' \ live'
        BY <2>3 DEF RewriteProject, TypeOK
    <2>4. CASE UNCHANGED <<projects, issued>>
        BY <2>4
    <2> QED
        BY <2>1, <2>2, <2>3, <2>4
        DEF Next, Start, Continue, vars, CreateProject, UpdateProject,
            SetArchivedProject, WalkParent, Abort
<1> QED
    BY <1>1, TypeCorrect, PTL DEF Spec, DeletedStaysDeleted

-----------------------------------------------------------------------------
(* The refinement: what the writes do, seen from the abstract store *)

\* The walk of an update has shown that the project is not an ancestor of its
\* new parent.
LEMMA WalkedIsWitness ==
    ASSUME IInv, NEW r \in Requests,
           req[r].pc = "write", req[r].op = "update",
           req[r].row.parent \in live
    PROVE  ~ IsAncestor(up, req[r].target, req[r].row.parent)
<1> DEFINE V == req[r].visited
           p == req[r].row.parent
           id == req[r].target
<1>1. p # NULL
    BY ConstantsAssumption DEF IInv, TypeOK
<1>2. /\ p \in V /\ id \notin V
      /\ \A x \in V \cap live : up[x] \in live => up[x] \in V
    BY <1>1 DEF IInv, RequestInv, WalkInv, Walked
<1>3. DOMAIN up = live
    BY DEF up
<1> HIDE DEF V, p, id
<1>4. p \in V \cap DOMAIN up
    BY <1>2, <1>3 DEF p
<1> QED
    BY <1>2, <1>3, <1>4, WalkWitness DEF p, id

\* Every step of a request is a step of the abstract store or changes nothing of it.
LEMMA ForestStep ==
    ASSUME IInv, [Next]_vars
    PROVE  [Forest!Next]_(Forest!vars)
<1> USE DEF Forest!live, Forest!up, Forest!vars
<1>1. ASSUME NEW r \in Requests, NEW id \in ProjectId, DeleteProject(r, id)
      PROVE  [Forest!Next]_(Forest!vars)
    <2>1. CASE id \in live
        <3>1. Forest!Delete(id)
            BY <1>1, <2>1 DEF DeleteProject, Forest!Delete, live
        <3> QED
            BY <3>1 DEF Forest!Next
    <2>2. CASE id \notin live
        BY <1>1, <2>2 DEF DeleteProject
    <2> QED
        BY <2>1, <2>2
<1>2. ASSUME NEW r \in Requests, InsertProject(r)
      PROVE  [Forest!Next]_(Forest!vars)
    <2> DEFINE row == req[r].row
    <2>1. row \in RowInput /\ row.archived = FALSE
        BY <1>2 DEF InsertProject, IInv, TypeOK, Request, RequestInv, CarriedOver
    <2>2. CASE UNCHANGED <<projects, issued>>
        BY <2>2
    <2>3. ASSUME NEW id \in ProjectId \ issued, issued' = issued \cup {id},
                 row.name # NULL,
                 row.parent \in live \cup {NULL},
                 projects' = [x \in live \cup {id} |-> IF x = id THEN row ELSE projects[x]]
          PROVE  [Forest!Next]_(Forest!vars)
        <3>1. row = [parent |-> row.parent, name |-> row.name, archived |-> FALSE]
            BY <2>1 DEF RowInput
        <3>2. row.parent \in ProjectId \cup {NULL} /\ row.name \in Name
            BY <2>1, <2>3 DEF RowInput
        <3> HIDE DEF row
        <3>3. projects' = [x \in live \cup {id} |->
                             IF x = id
                             THEN [parent |-> row.parent, name |-> row.name, archived |-> FALSE]
                             ELSE projects[x]]
            BY <3>1, <2>3
        <3>4. Forest!Create(row.parent, row.name)
            BY <2>3, <3>3 DEF Forest!Create, live
        <3> QED
            BY <3>2, <3>4 DEF Forest!Next
    <2>4. ASSUME NEW id \in ProjectId \ issued, issued' = issued \cup {id}, UNCHANGED projects
          PROVE  [Forest!Next]_(Forest!vars)
        BY <2>4 DEF Forest!Next, Forest!Burn
    <2> QED
        BY <1>2, <2>2, <2>3, <2>4 DEF InsertProject
<1>3. ASSUME NEW r \in Requests, RewriteProject(r)
      PROVE  [Forest!Next]_(Forest!vars)
    <2> DEFINE row == req[r].row
               id == req[r].target
    <2>1. CASE UNCHANGED <<projects, issued>>
        BY <2>1
    <2>2. CASE /\ row.name # NULL
               /\ id \in live
               /\ row.parent \in live \cup {NULL}
               /\ projects' = [projects EXCEPT ![id] = row]
               /\ UNCHANGED issued
        <3>1. /\ row \in RowInput /\ row.name \in Name
              /\ row.parent \in ProjectId \cup {NULL}
              /\ row.archived \in BOOLEAN
            BY <2>2 DEF IInv, TypeOK, Request, RowInput
        <3>2. id \in ProjectId /\ projects[id] \in Row /\ projects[id] \in RowInput
            BY <2>2 DEF IInv, TypeOK, Row, RowInput
        <3>3. CASE req[r].op = "update"
            <4>1. row.archived = projects[id].archived
                BY <2>2, <3>3 DEF IInv, RequestInv, CarriedOver
            <4>2. row = [projects[id] EXCEPT !.parent = row.parent, !.name = row.name]
                BY <3>1, <3>2, <4>1 DEF RowInput
            <4>3. projects' = [projects EXCEPT ![id].parent = row.parent, ![id].name = row.name]
                BY <2>2, <4>2 DEF IInv, TypeOK
            <4>4. row.parent # NULL => ~ IsAncestor(up, id, row.parent)
                BY <1>3, <2>2, <3>3, WalkedIsWitness DEF RewriteProject
            <4>5. Forest!Update(id, row.parent, row.name)
                BY <2>2, <4>3, <4>4
                DEF Forest!Update, live, up, IsAncestor, UpClosed,
                    Forest!IsAncestor, Forest!UpClosed
            <4> QED
                BY <3>1, <3>2, <4>5 DEF Forest!Next
        <3>4. CASE req[r].op \in {"archive", "restore"}
            <4>1. row.name = projects[id].name /\ row.parent = projects[id].parent
                BY <2>2, <3>4, ConstantsAssumption DEF IInv, RequestInv, CarriedOver, TypeOK
            <4>2. row = [projects[id] EXCEPT !.archived = row.archived]
                BY <3>1, <3>2, <4>1 DEF RowInput
            <4>3. projects' = [projects EXCEPT ![id].archived = row.archived]
                BY <2>2, <4>2 DEF IInv, TypeOK
            <4>4. Forest!SetArchived(id, row.archived)
                BY <2>2, <4>3 DEF Forest!SetArchived, live
            <4> QED
                BY <3>1, <3>2, <4>4 DEF Forest!Next
        <3>5. req[r].op \in {"update", "archive", "restore"}
            BY <1>3 DEF RewriteProject, IInv, RequestInv, WalkInv, TypeOK, Request
        <3> QED
            BY <3>3, <3>4, <3>5
    <2> QED
        BY <1>3, <2>1, <2>2 DEF RewriteProject
<1>4. CASE UNCHANGED <<projects, issued>>
    BY <1>4
<1> QED
    BY <1>1, <1>2, <1>3, <1>4, ZenonT(40)
    DEF Next, Start, Continue, vars, CreateProject, UpdateProject,
        SetArchivedProject, WalkParent, Abort

\* Every step of the abstract store keeps the forest.
LEMMA ForestStaysAcyclic ==
    ASSUME TypeOK, ReferentialIntegrity, ProjectsAcyclic, [Forest!Next]_(Forest!vars)
    PROVE  ProjectsAcyclic'
<1> USE ConstantsAssumption DEF live, ProjectsAcyclic, Forest!live, Forest!up, up
<1>1. ASSUME NEW p \in ProjectId \cup {NULL}, NEW n \in Name, Forest!Create(p, n)
      PROVE  ProjectsAcyclic'
    <2>1. PICK id \in ProjectId \ issued :
              projects' = [x \in live \cup {id} |->
                             IF x = id THEN [parent |-> p, name |-> n, archived |-> FALSE]
                             ELSE projects[x]]
        BY <1>1 DEF Forest!Create
    <2>2. id \notin live /\ p # id /\ \A x \in live : projects[x].parent # id
        BY <1>1, <2>1 DEF TypeOK, ReferentialIntegrity, Forest!Create
    <2>3. /\ DOMAIN up' = DOMAIN up \cup {id}
          /\ up'[id] = p
          /\ \A x \in live : up'[x] = up[x] /\ up[x] # id
        BY <2>1, <2>2
    <2> QED
        BY <2>2, <2>3, AcyclicLeaf
<1>2. ASSUME NEW id \in ProjectId, NEW p \in ProjectId \cup {NULL}, NEW n \in Name,
             Forest!Update(id, p, n)
      PROVE  ProjectsAcyclic'
    <2>1. /\ DOMAIN up' = DOMAIN up
          /\ id \in DOMAIN up
          /\ up'[id] = p
          /\ \A x \in DOMAIN up \ {id} : up'[x] = up[x]
        BY <1>2 DEF Forest!Update, TypeOK, Row
    <2>2. CASE p = NULL
        <3>1. \A x \in DOMAIN up' : up'[x] = up[x] \/ up'[x] \notin DOMAIN up'
            BY <2>1, <2>2 DEF TypeOK
        <3> QED
            BY <2>1, <3>1, AcyclicShrink
    <2>3. CASE ~ IsAncestor(up, id, p)
        BY <2>1, <2>3, AcyclicAttach
    <2> QED
        BY <1>2, <2>2, <2>3
        DEF Forest!Update, IsAncestor, UpClosed, Forest!IsAncestor, Forest!UpClosed
<1>3. ASSUME NEW id \in ProjectId, NEW flag \in BOOLEAN, Forest!SetArchived(id, flag)
      PROVE  ProjectsAcyclic'
    <2>1. up' = up
        BY <1>3 DEF Forest!SetArchived, TypeOK, Row
    <2> QED
        BY <2>1
<1>4. ASSUME NEW id \in ProjectId, Forest!Delete(id)
      PROVE  ProjectsAcyclic'
    <2>1. /\ DOMAIN up' \subseteq DOMAIN up
          /\ \A x \in DOMAIN up' : up'[x] = up[x] \/ up'[x] \notin DOMAIN up'
        BY <1>4 DEF Forest!Delete, TypeOK, Row
    <2> QED
        BY <2>1, AcyclicShrink
<1>5. CASE UNCHANGED projects
    BY <1>5
<1> QED
    BY <1>1, <1>2, <1>3, <1>4, <1>5 DEF Forest!Next, Forest!Burn, Forest!vars

-----------------------------------------------------------------------------
(* What the requests know stays true *)

\* One request rewrites rows at a time.
SingleWriter == \A r, s \in Writers : r = s

\* An answered request knows nothing.
LEMMA AnsweredKnows ==
    ASSUME TypeOK, NEW r \in Requests, NEW reply \in Reply, Answer(r, reply)
    PROVE  /\ WalkInv(req[r])' /\ CarriedOver(req[r])' /\ req'[r].op = "none"
           /\ \A s \in Requests \ {r} : req'[s] = req[s]
<1>1. req'[r] = Idle(reply) /\ \A s \in Requests \ {r} : req'[s] = req[s]
    BY DEF Answer, TypeOK
<1> QED
    BY <1>1 DEF Idle, WalkInv, CarriedOver, Walked

\* A request that is not touched, over a table that is not touched.
LEMMA KnowsSame ==
    ASSUME NEW s \in Requests, WalkInv(req[s]), CarriedOver(req[s]),
           req'[s] = req[s], UNCHANGED <<projects, issued>>
    PROVE  WalkInv(req[s])' /\ CarriedOver(req[s])'
BY DEF WalkInv, CarriedOver, Walked, up, live

\* A request that is not touched, while a project is deleted.
LEMMA KnowsDelete ==
    ASSUME IInv, NEW s \in Requests, req'[s] = req[s],
           NEW r \in Requests, NEW id \in live, DeleteProject(r, id)
    PROVE  WalkInv(req[s])' /\ CarriedOver(req[s])'
<1> DEFINE q == req[s]
<1>1. /\ live' = live \ {id} /\ issued' = issued
      /\ \A x \in live' : /\ projects'[x].name = projects[x].name
                          /\ projects'[x].archived = projects[x].archived
                          /\ \/ /\ projects'[x].parent = projects[x].parent
                                /\ projects[x].parent # id
                             \/ /\ projects[x].parent = id
                                /\ projects'[x].parent = NULL
    BY DEF DeleteProject, live, IInv, TypeOK, Row
<1>2. WalkInv(q) /\ CarriedOver(q) /\ id \in issued /\ NULL \notin live
    BY ConstantsAssumption DEF IInv, RequestInv, TypeOK
<1>3. \A x \in live' : up'[x] \in live' => up'[x] = up[x] /\ up[x] \in live
    BY <1>1, <1>2 DEF up
<1>4. WalkInv(q)'
    BY <1>1, <1>2, <1>3 DEF WalkInv, Walked
<1>5. CarriedOver(q)'
    BY <1>1, <1>2 DEF CarriedOver
<1> QED
    BY <1>4, <1>5

\* A request that is not touched, while a project is inserted under a new id.
LEMMA KnowsInsert ==
    ASSUME IInv, NEW s \in Requests, req'[s] = req[s],
           NEW id \in ProjectId \ issued, NEW row,
           issued' = issued \cup {id},
           \/ UNCHANGED projects
           \/ projects' = [x \in live \cup {id} |-> IF x = id THEN row ELSE projects[x]]
    PROVE  WalkInv(req[s])' /\ CarriedOver(req[s])'
<1> DEFINE q == req[s]
<1>1. /\ live \subseteq live' /\ live' \subseteq live \cup {id}
      /\ \A x \in live : projects'[x] = projects[x]
      /\ id \notin live
    BY DEF live, IInv, TypeOK
<1>2. WalkInv(q) /\ CarriedOver(q) /\ live \subseteq issued
    BY DEF IInv, RequestInv, TypeOK
<1>3. \A x \in live : up'[x] = up[x] /\ (up[x] \in live' => up[x] \in live)
    BY <1>1, ConstantsAssumption DEF up, IInv, ReferentialIntegrity, TypeOK, live
<1>4. WalkInv(q)'
    BY <1>1, <1>2, <1>3 DEF WalkInv, Walked
<1>5. CarriedOver(q)'
    BY <1>1, <1>2 DEF CarriedOver
<1> QED
    BY <1>4, <1>5

\* A request that is not touched and carries no old row, whatever is rewritten.
LEMMA KnowsRewrite ==
    ASSUME NEW s \in Requests, WalkInv(req[s]), CarriedOver(req[s]),
           req[s].op \in {"none", "create"}, req'[s] = req[s], UNCHANGED issued
    PROVE  WalkInv(req[s])' /\ CarriedOver(req[s])'
BY DEF WalkInv, CarriedOver

\* Every step keeps what the requests know, if one of them rewrites at a time.
LEMMA RequestStep ==
    ASSUME SingleWriter, IInv, [Next]_vars
    PROVE  RequestInv'
<1> USE ConstantsAssumption
<1> DEFINE Knows(s) == WalkInv(req[s]) /\ CarriedOver(req[s])
           Reader(s) == s \notin Writers => req[s].op \in {"none", "create"}
<1>0. TypeOK /\ \A s \in Requests : Knows(s) /\ Reader(s)
    BY DEF IInv, RequestInv
<1> SUFFICES \A s \in Requests : Knows(s)' /\ Reader(s)'
    BY DEF RequestInv
<1>1. ASSUME NEW r \in Requests, NEW p \in ProjectId \cup {NULL}, NEW n \in Name \cup {NULL},
             CreateProject(r, p, n)
      PROVE  \A s \in Requests : Knows(s)' /\ Reader(s)'
    <2>1. Proceed(r, "create", NULL, [parent |-> p, name |-> n, archived |-> FALSE], p # NULL)
        BY <1>1 DEF CreateProject
    <2>2. /\ req'[r] = [pc |-> IF p # NULL THEN "walk" ELSE "write",
                        op |-> "create", target |-> NULL,
                        row |-> [parent |-> p, name |-> n, archived |-> FALSE],
                        cursor |-> IF p # NULL THEN p ELSE NULL,
                        visited |-> {}, reply |-> "none"]
          /\ \A s \in Requests \ {r} : req'[s] = req[s]
        BY <1>0, <2>1 DEF Proceed, TypeOK
    <2>3. Knows(r)' /\ Reader(r)'
        BY <2>2 DEF WalkInv, CarriedOver
    <2>4. \A s \in Requests \ {r} : Knows(s)' /\ Reader(s)'
        BY <1>0, <1>1, <2>2, KnowsSame DEF CreateProject
    <2> QED
        BY <2>3, <2>4
<1>2. ASSUME NEW r \in Writers, NEW id \in ProjectId,
             NEW p \in ProjectId \cup {NULL}, NEW n \in Name \cup {NULL},
             UpdateProject(r, id, p, n)
      PROVE  \A s \in Requests : Knows(s)' /\ Reader(s)'
    <2>1. r \in Requests
        OBVIOUS
    <2>2. CASE \E reply \in Reply : Answer(r, reply)
        BY <1>0, <1>2, <2>1, <2>2, AnsweredKnows, KnowsSame DEF UpdateProject
    <2>3. CASE /\ id \in live /\ p # id
               /\ Proceed(r, "update", id, UpdatedRow(projects[id], p, n), p # NULL)
        <3>1. /\ req'[r] = [pc |-> IF p # NULL THEN "walk" ELSE "write",
                            op |-> "update", target |-> id,
                            row |-> UpdatedRow(projects[id], p, n),
                            cursor |-> IF p # NULL THEN p ELSE NULL,
                            visited |-> {}, reply |-> "none"]
              /\ \A s \in Requests \ {r} : req'[s] = req[s]
            BY <1>0, <2>1, <2>3 DEF Proceed, TypeOK
        <3>2. UNCHANGED <<projects, issued>>
            BY <1>2 DEF UpdateProject
        <3>3. id \in issued
            BY <1>0, <2>3 DEF TypeOK
        <3>4. projects[id] \in Row
            BY <1>0, <2>3 DEF TypeOK
        <3>5. /\ req'[r].row.parent = p
              /\ req'[r].row.archived = projects[id].archived
            <4> DEFINE row == UpdatedRow(projects[id], p, n)
            <4>1. row.parent = p /\ row.archived = projects[id].archived
                BY <3>4 DEF Row
            <4>2. req'[r].row = row
                BY <3>1
            <4> HIDE DEF row
            <4> QED
                BY <4>1, <4>2
        <3>6. WalkInv(req[r])'
            BY <2>3, <3>1, <3>2, <3>5 DEF WalkInv, Walked
        <3>7. CarriedOver(req[r])'
            BY <3>1, <3>2, <3>3, <3>5 DEF CarriedOver
        <3>8. \A s \in Requests \ {r} : Knows(s)' /\ Reader(s)'
            BY <1>0, <3>1, <3>2, KnowsSame
        <3> QED
            BY <3>6, <3>7, <3>8
    <2> QED
        BY <1>2, <2>2, <2>3 DEF UpdateProject, Reply
<1>3. ASSUME NEW r \in Writers, NEW id \in ProjectId, NEW flag \in BOOLEAN,
             SetArchivedProject(r, id, flag)
      PROVE  \A s \in Requests : Knows(s)' /\ Reader(s)'
    <2>1. r \in Requests
        OBVIOUS
    <2>2. CASE \E reply \in Reply : Answer(r, reply)
        BY <1>0, <1>3, <2>1, <2>2, AnsweredKnows, KnowsSame DEF SetArchivedProject
    <2>3. CASE /\ id \in live
               /\ Proceed(r, IF flag THEN "archive" ELSE "restore", id,
                          [projects[id] EXCEPT !.archived = flag], FALSE)
        <3>1. /\ req'[r] = [pc |-> "write",
                            op |-> IF flag THEN "archive" ELSE "restore", target |-> id,
                            row |-> [projects[id] EXCEPT !.archived = flag],
                            cursor |-> NULL,
                            visited |-> {}, reply |-> "none"]
              /\ \A s \in Requests \ {r} : req'[s] = req[s]
            BY <1>0, <2>1, <2>3 DEF Proceed, TypeOK
        <3>2. UNCHANGED <<projects, issued>>
            BY <1>3 DEF SetArchivedProject
        <3>3. id \in issued /\ projects[id] \in Row
            BY <1>0, <2>3 DEF TypeOK
        <3>4. WalkInv(req[r])'
            BY <3>1, <3>2 DEF WalkInv, Walked
        <3>5. CarriedOver(req[r])'
            BY <3>1, <3>2, <3>3 DEF CarriedOver, Row
        <3>6. \A s \in Requests \ {r} : Knows(s)' /\ Reader(s)'
            BY <1>0, <3>1, <3>2, KnowsSame
        <3> QED
            BY <3>4, <3>5, <3>6
    <2> QED
        BY <1>3, <2>2, <2>3 DEF SetArchivedProject, Reply
<1>4. ASSUME NEW r \in Requests, NEW id \in ProjectId, DeleteProject(r, id)
      PROVE  \A s \in Requests : Knows(s)' /\ Reader(s)'
    <2>1. PICK reply \in Reply : Answer(r, reply)
        BY <1>4 DEF DeleteProject, Reply
    <2>2. Knows(r)' /\ Reader(r)' /\ \A s \in Requests \ {r} : req'[s] = req[s]
        BY <1>0, <2>1, AnsweredKnows
    <2>3. CASE id \in live
        BY <1>0, <1>4, <2>2, <2>3, KnowsDelete
    <2>4. CASE id \notin live
        BY <1>0, <1>4, <2>2, <2>4, KnowsSame DEF DeleteProject
    <2> QED
        BY <2>3, <2>4
<1>5. ASSUME NEW r \in Requests, WalkParent(r)
      PROVE  \A s \in Requests : Knows(s)' /\ Reader(s)'
    <2> DEFINE c    == req[r].cursor
               next == projects[c].parent
    <2>1. UNCHANGED <<projects, issued>> /\ req[r].pc = "walk"
        BY <1>5 DEF WalkParent
    <2>2. CASE \E reply \in Reply : Answer(r, reply)
        BY <1>0, <2>1, <2>2, AnsweredKnows, KnowsSame
    <2>3. ASSUME c \in live,
                 \/ /\ next = NULL
                    /\ req' = [req EXCEPT ![r].pc = "write", ![r].cursor = NULL,
                                          ![r].visited = @ \cup {c}]
                 \/ /\ next # NULL
                    /\ next # req[r].target
                    /\ req' = [req EXCEPT ![r].cursor = next, ![r].visited = @ \cup {c}]
          PROVE  \A s \in Requests : Knows(s)' /\ Reader(s)'
        <3>1. req[r] \in Request
            BY <1>0 DEF TypeOK
        <3>2. /\ \A s \in Requests \ {r} : req'[s] = req[s]
              /\ req'[r].op = req[r].op
              /\ req'[r].target = req[r].target
              /\ req'[r].row = req[r].row
              /\ req'[r].visited = req[r].visited \cup {c}
              /\ \/ next = NULL /\ req'[r].pc = "write" /\ req'[r].cursor = NULL
                 \/ /\ next # NULL /\ next # req[r].target
                    /\ req'[r].pc = "walk" /\ req'[r].cursor = next
            BY <1>0, <2>1, <2>3, <3>1 DEF TypeOK, Request
        <3>3. WalkInv(req[r]) /\ CarriedOver(req[r]) /\ c \in issued /\ NULL \notin live
            BY <1>0, <2>3 DEF TypeOK
        <3>4. up[c] = next
            BY <2>3 DEF up
        <3>5. WalkInv(req[r])'
            <4> HIDE DEF c, next
            <4>1. Walked(req[r]) = req[r].visited \cup {c}
                BY <2>1, <3>3 DEF Walked, WalkInv, c
            <4>2. Walked(req[r])' = (req[r].visited \cup {c}) \cup ({next} \ {NULL})
                BY <3>2 DEF Walked
            <4>3. up' = up /\ live' = live /\ issued' = issued
                BY <2>1 DEF up, live
            <4>4. req'[r].op \in {"create", "update"}
                BY <2>1, <3>2, <3>3 DEF WalkInv
            <4>5. req'[r].visited \subseteq issued'
                BY <3>2, <3>3, <4>3 DEF WalkInv
            <4>6. ASSUME req[r].op = "update", req[r].row.parent # NULL
                  PROVE  /\ req[r].row.parent \in Walked(req[r])'
                         /\ req[r].target \notin Walked(req[r])'
                         /\ \A x \in req'[r].visited \cap live :
                               up[x] \in live => up[x] \in Walked(req[r])'
                BY <3>2, <3>3, <3>4, <4>1, <4>2, <4>6 DEF WalkInv
            <4> QED
                BY <3>2, <4>3, <4>4, <4>5, <4>6 DEF WalkInv
        <3>6. CarriedOver(req[r])'
            BY <2>1, <3>2, <3>3 DEF CarriedOver, live
        <3>7. \A s \in Requests \ {r} : Knows(s)' /\ Reader(s)'
            BY <1>0, <2>1, <3>2, KnowsSame
        <3> QED
            BY <1>0, <3>2, <3>5, <3>6, <3>7
    <2> QED
        BY <1>5, <2>2, <2>3 DEF WalkParent, Reply
<1>6. ASSUME NEW r \in Requests, InsertProject(r)
      PROVE  \A s \in Requests : Knows(s)' /\ Reader(s)'
    <2>1. PICK reply \in Reply : Answer(r, reply)
        BY <1>6 DEF InsertProject, Reply
    <2>2. Knows(r)' /\ Reader(r)' /\ \A s \in Requests \ {r} : req'[s] = req[s]
        BY <1>0, <2>1, AnsweredKnows
    <2>3. CASE UNCHANGED <<projects, issued>>
        BY <1>0, <2>2, <2>3, KnowsSame
    <2>4. ASSUME NEW id \in ProjectId \ issued, issued' = issued \cup {id},
                 \/ UNCHANGED projects
                 \/ projects' = [x \in live \cup {id} |->
                                   IF x = id THEN req[r].row ELSE projects[x]]
          PROVE  \A s \in Requests : Knows(s)' /\ Reader(s)'
        <3>1. \A s \in Requests \ {r} : Knows(s)'
            BY <2>2, <2>4, KnowsInsert
        <3> QED
            BY <1>0, <2>2, <3>1
    <2> QED
        BY <1>6, <2>3, <2>4 DEF InsertProject
<1>7. ASSUME NEW r \in Requests, RewriteProject(r)
      PROVE  \A s \in Requests : Knows(s)' /\ Reader(s)'
    <2>1. PICK reply \in Reply : Answer(r, reply)
        BY <1>7 DEF RewriteProject, Reply
    <2>2. Knows(r)' /\ Reader(r)' /\ \A s \in Requests \ {r} : req'[s] = req[s]
        BY <1>0, <2>1, AnsweredKnows
    <2>3. r \in Writers /\ UNCHANGED issued
        BY <1>0, <1>7 DEF RewriteProject, WalkInv
    <2>4. \A s \in Requests \ {r} : req[s].op \in {"none", "create"}
        BY <1>0, <2>3 DEF SingleWriter
    <2>5. \A s \in Requests \ {r} : Knows(s)' /\ Reader(s)'
        BY <1>0, <2>2, <2>3, <2>4, KnowsRewrite
    <2> QED
        BY <2>2, <2>5
<1>8. ASSUME NEW r \in Requests, Abort(r)
      PROVE  \A s \in Requests : Knows(s)' /\ Reader(s)'
    BY <1>0, <1>8, AnsweredKnows, KnowsSame DEF Abort, Reply
<1>9. CASE UNCHANGED vars
    BY <1>0, <1>9, KnowsSame DEF vars
<1> QED
    BY <1>1, <1>2, <1>3, <1>4, <1>5, <1>6, <1>7, <1>8, <1>9
    DEF Next, Start, Continue

-----------------------------------------------------------------------------
(* Theorems for one rewriting request at a time *)

\* The inductive invariant holds initially and is kept by every step.
LEMMA InvariantInit == Init => IInv
<1> SUFFICES ASSUME Init PROVE IInv
    OBVIOUS
<1>1. TypeOK
    BY TypeInit
<1>2. PICK seed \in ProjectId, n \in Name :
          projects = [x \in {seed} |-> [parent |-> NULL, name |-> n, archived |-> FALSE]]
    BY DEF Init
<1>3. ReferentialIntegrity
    BY <1>2 DEF ReferentialIntegrity, live
<1>4. ProjectsAcyclic
    BY <1>2, ConstantsAssumption DEF ProjectsAcyclic, Acyclic, up, live
<1>5. RequestInv
    <2>1. \A r \in Requests : req[r] = Idle("none")
        BY DEF Init
    <2> QED
        BY <2>1 DEF RequestInv, WalkInv, CarriedOver, Idle, Walked
<1> QED
    BY <1>1, <1>3, <1>4, <1>5 DEF IInv

LEMMA InvariantStep ==
    ASSUME SingleWriter, IInv, [Next]_vars
    PROVE  IInv'
BY TypeStep, ReferentialStep, ForestStep, ForestStaysAcyclic, RequestStep DEF IInv

LEMMA Invariant == ASSUME SingleWriter PROVE Spec => []IInv
<1>1. IInv /\ [Next]_vars => IInv'
    BY InvariantStep
<1> QED
    BY <1>1, InvariantInit, PTL DEF Spec

\* As long as one request at a time updates, archives or restores projects, no
\* project becomes its own ancestor, whatever creates and deletes run beside it.
THEOREM ProjectsStayAForest ==
    ASSUME SingleWriter PROVE Spec => []ProjectsAcyclic
<1>1. IInv => ProjectsAcyclic
    BY DEF IInv
<1> QED
    BY <1>1, Invariant, PTL

\* Under the same condition the requests implement the abstract store: every
\* history of the table is one of atomic operations.
THEOREM ProjectsImplementForest ==
    ASSUME SingleWriter PROVE Spec => ImplementsForest
<1>1. Init => Forest!Init
    BY DEF Init, Forest!Init
<1>2. IInv /\ [Next]_vars => [Forest!Next]_(Forest!vars)
    BY ForestStep
<1> QED
    BY <1>1, <1>2, Invariant, PTL DEF Spec, ImplementsForest, Forest!Spec

-----------------------------------------------------------------------------
(* The walk of a request that is alone *)

\* No other slot has been used yet.
Alone(r) == \A s \in Requests \ {r} : req[s] = Idle("none")

\* The walk of q is on the way from the requested parent to the root: whoever follows
\* the parents from there, or from a row it has visited, comes to the cursor.
OnTheWay(q) ==
    /\ q.cursor \in live => \A x \in q.visited \cup {q.row.parent} :
                               x \in live /\ IsAncestor(up, q.cursor, x)
    /\ q.cursor \notin live => q.visited = {}

AloneInv ==
    \A r \in Requests :
        /\ req[r].pc # "idle" => req[r].reply = "none"
        /\ req[r].op = "create" => req[r].target = NULL
        /\ Alone(r) /\ req[r].pc = "walk" => OnTheWay(req[r])

\* A step is one of a single request, which has then been used.
LEMMA OneActs ==
    ASSUME TypeOK, NEW s \in Requests, Start(s) \/ Continue(s) \/ Abort(s)
    PROVE  /\ \A t \in Requests \ {s} : req'[t] = req[t]
           /\ req'[s] # Idle("none")
<1>1. ASSUME NEW reply \in Reply \ {"none"}, Answer(s, reply)
      PROVE  req'[s] # Idle("none") /\ \A t \in Requests \ {s} : req'[t] = req[t]
    BY <1>1 DEF TypeOK, Answer, Idle
<1>2. ASSUME NEW op, NEW target, NEW row, NEW check, Proceed(s, op, target, row, check)
      PROVE  req'[s] # Idle("none") /\ \A t \in Requests \ {s} : req'[t] = req[t]
    BY <1>2 DEF TypeOK, Proceed, Idle
<1>3. CASE WalkParent(s)
    <2>1. req'[s].pc \in {"walk", "write"} \/ \E reply \in Reply \ {"none"} : Answer(s, reply)
        BY <1>3 DEF WalkParent, Reply, TypeOK, Request
    <2>2. \A t \in Requests \ {s} : req'[t] = req[t]
        BY <1>3 DEF WalkParent, Answer, TypeOK
    <2>3. Idle("none").pc = "idle"
        BY DEF Idle
    <2>4. CASE req'[s].pc \in {"walk", "write"}
        BY <2>2, <2>3, <2>4
    <2> QED
        BY <1>1, <2>1, <2>4
<1>4. CASE InsertProject(s) \/ RewriteProject(s) \/ Abort(s)
    <2>1. \E reply \in Reply \ {"none"} : Answer(s, reply)
        BY <1>4 DEF InsertProject, RewriteProject, Abort, Reply
    <2> QED
        BY <1>1, <2>1
<1>5. CASE Start(s)
    <2>1. ASSUME NEW p, NEW n, CreateProject(s, p, n)
          PROVE  req'[s] # Idle("none") /\ \A t \in Requests \ {s} : req'[t] = req[t]
        BY <1>2, <2>1 DEF CreateProject
    <2>2. ASSUME NEW id, NEW p, NEW n, UpdateProject(s, id, p, n)
          PROVE  req'[s] # Idle("none") /\ \A t \in Requests \ {s} : req'[t] = req[t]
        BY <1>1, <1>2, <2>2 DEF UpdateProject, Reply
    <2>3. ASSUME NEW id, NEW flag, SetArchivedProject(s, id, flag)
          PROVE  req'[s] # Idle("none") /\ \A t \in Requests \ {s} : req'[t] = req[t]
        BY <1>1, <1>2, <2>3 DEF SetArchivedProject, Reply
    <2>4. ASSUME NEW id, DeleteProject(s, id)
          PROVE  req'[s] # Idle("none") /\ \A t \in Requests \ {s} : req'[t] = req[t]
        BY <1>1, <2>4 DEF DeleteProject, Reply
    <2> QED
        BY <1>5, <2>1, <2>2, <2>3, <2>4 DEF Start
<1> QED
    BY <1>3, <1>4, <1>5 DEF Continue

\* The walk goes on over a row that is there.
LEMMA WalkGoesOn ==
    ASSUME IInv, NEW q, OnTheWay(q), NEW c \in live, q.cursor = c,
           projects[c].parent # NULL
    PROVE  /\ projects[c].parent \in live
           /\ \A x \in q.visited \cup {q.row.parent, c} :
                 x \in live /\ IsAncestor(up, projects[c].parent, x)
<1>1. DOMAIN up = live /\ up[c] = projects[c].parent
    BY DEF up
<1>2. up[c] \in live
    BY <1>1 DEF IInv, ReferentialIntegrity
<1>3. \A x \in q.visited \cup {q.row.parent, c} : x \in live /\ IsAncestor(up, c, x)
    BY DEF OnTheWay, IsAncestor
<1> HIDE DEF live
<1>4. \A x \in q.visited \cup {q.row.parent, c} : IsAncestor(up, up[c], x)
    BY <1>1, <1>2, <1>3 DEF IsAncestor, UpClosed
<1> QED
    BY <1>1, <1>2, <1>3, <1>4

\* A row below the cursor is not its parent.
LEMMA NothingMetTwice ==
    ASSUME IInv, NEW q, OnTheWay(q), NEW c \in live, q.cursor = c,
           projects[c].parent # NULL
    PROVE  projects[c].parent \notin q.visited \cup {c}
<1> DEFINE next == projects[c].parent
<1>1. next \in live /\ up[c] = next /\ DOMAIN up = live
    BY WalkGoesOn DEF up
<1>2. \A x \in q.visited \cup {c} : IsAncestor(up, c, x)
    BY DEF OnTheWay, IsAncestor
<1>3. Acyclic(up)
    BY DEF IInv, ProjectsAcyclic
<1> HIDE DEF next, live
<1>4. ~ IsAncestor(up, c, next)
    BY <1>1, <1>3, ParentIsNotBelow
<1> QED
    BY <1>2, <1>4 DEF next

LEMMA AloneInit == Init => AloneInv
BY DEF Init, AloneInv, Idle

\* The steps of a request that is alone.
LEMMA AloneStep ==
    ASSUME IInv, AloneInv, [Next]_vars
    PROVE  AloneInv'
<1>1. CASE UNCHANGED vars
    BY <1>1 DEF vars, AloneInv, Alone, OnTheWay, live, up
<1>2. CASE Next
    <2>1. PICK s \in Requests : Start(s) \/ Continue(s) \/ Abort(s)
        BY <1>2 DEF Next
    <2>2. /\ TypeOK /\ req \in [Requests -> Request]
          /\ \A t \in Requests \ {s} : req'[t] = req[t]
          /\ req'[s] # Idle("none")
        BY <2>1, OneActs DEF IInv, TypeOK
    <2>3. \A t \in Requests \ {s} : ~ Alone(t)'
        BY <2>2 DEF Alone
    <2>4. Alone(s)' <=> Alone(s)
        BY <2>2 DEF Alone
    <2> DEFINE Kept == /\ req'[s].pc # "idle" => req'[s].reply = "none"
                       /\ req'[s].op = "create" => req'[s].target = NULL
                       /\ Alone(s) /\ req'[s].pc = "walk" => OnTheWay(req[s])'
    <2>5. SUFFICES Kept
        BY <2>2, <2>3, <2>4 DEF AloneInv
    <2>6. ASSUME NEW reply, Answer(s, reply)
          PROVE  Kept
        BY <2>2, <2>6 DEF Answer, Idle
    <2>7. ASSUME NEW op, NEW target, NEW row, NEW check, Proceed(s, op, target, row, check),
                 op = "create" => target = NULL
          PROVE  Kept
        <3>1. req'[s] = [pc |-> IF check THEN "walk" ELSE "write",
                         op |-> op, target |-> target, row |-> row,
                         cursor |-> IF check THEN row.parent ELSE NULL,
                         visited |-> {}, reply |-> "none"]
            BY <2>2, <2>7 DEF Proceed
        <3>2. /\ req'[s].reply = "none" /\ req'[s].op = op /\ req'[s].target = target
              /\ req'[s].visited = {} /\ req'[s].row = row
              /\ req'[s].pc = "walk" => req'[s].cursor = row.parent
            BY <3>1
        <3>3. req'[s].pc = "walk" => OnTheWay(req[s])'
            BY <3>2 DEF OnTheWay, IsAncestor
        <3> QED
            BY <2>7, <3>2, <3>3
    <2>8. CASE WalkParent(s)
        <3>1. CASE \E reply \in Reply : Answer(s, reply)
            BY <2>6, <3>1
        <3>2. CASE ~ \E reply \in Reply : Answer(s, reply)
            <4> DEFINE q == req[s]
                       c == q.cursor
                       next == projects[c].parent
            <4>1. q \in Request /\ q.pc = "walk" /\ c \in live /\ UNCHANGED <<projects, issued>>
                BY <2>2, <2>8, <3>2 DEF WalkParent, Reply
            <4>2. q.reply = "none" /\ (q.op = "create" => q.target = NULL)
                BY <4>1 DEF AloneInv
            <4>3. CASE req' = [req EXCEPT ![s].pc = "write", ![s].cursor = NULL,
                                          ![s].visited = @ \cup {c}]
                <5>1. /\ req'[s].pc = "write" /\ req'[s].op = q.op
                      /\ req'[s].target = q.target /\ req'[s].reply = q.reply
                    BY <2>2, <4>3 DEF Request
                <5> QED
                    BY <4>2, <5>1
            <4>4. CASE next # NULL /\ req' = [req EXCEPT ![s].cursor = next,
                                                         ![s].visited = @ \cup {c}]
                <5>1. /\ req'[s].cursor = next /\ req'[s].visited = q.visited \cup {c}
                      /\ req'[s].row = q.row /\ req'[s].op = q.op
                      /\ req'[s].target = q.target /\ req'[s].reply = q.reply
                    BY <2>2, <4>4 DEF Request
                <5>2. ASSUME Alone(s)
                      PROVE  OnTheWay(req[s])'
                    <6>1. OnTheWay(q)
                        BY <4>1, <5>2 DEF AloneInv
                    <6>2. /\ next \in live
                          /\ \A x \in q.visited \cup {q.row.parent, c} :
                                x \in live /\ IsAncestor(up, next, x)
                        BY <4>1, <4>4, <6>1, WalkGoesOn
                    <6>3. live' = live /\ up' = up
                        BY <4>1 DEF live, up
                    <6> HIDE DEF q, c, next, live, up
                    <6> QED
                        BY <5>1, <6>2, <6>3 DEF OnTheWay
                <5> QED
                    BY <4>2, <5>1, <5>2
            <4> QED
                BY <2>8, <3>2, <4>1, <4>3, <4>4 DEF WalkParent, Reply
        <3> QED
            BY <3>1, <3>2
    <2>9. CASE InsertProject(s) \/ RewriteProject(s) \/ Abort(s)
        <3>1. \E reply \in Reply : Answer(s, reply)
            BY <2>9 DEF InsertProject, RewriteProject, Abort, Reply
        <3> QED
            BY <2>6, <3>1
    <2>10. CASE Start(s)
        <3>1. ASSUME NEW p, NEW n, CreateProject(s, p, n)
              PROVE  Kept
            BY <2>7, <3>1 DEF CreateProject
        <3>2. ASSUME NEW id, NEW p, NEW n, UpdateProject(s, id, p, n)
              PROVE  Kept
            BY <2>6, <2>7, <3>2 DEF UpdateProject
        <3>3. ASSUME NEW id, NEW flag, SetArchivedProject(s, id, flag)
              PROVE  Kept
            BY <2>6, <2>7, <3>3 DEF SetArchivedProject
        <3>4. ASSUME NEW id, DeleteProject(s, id)
              PROVE  Kept
            BY <2>6, <3>4, <2>2 DEF DeleteProject, Answer, Idle
        <3> HIDE DEF Kept
        <3> QED
            BY <2>10, <3>1, <3>2, <3>3, <3>4 DEF Start
    <2> HIDE DEF Kept
    <2> QED
        BY <2>1, <2>8, <2>9, <2>10 DEF Continue
<1> QED
    BY <1>1, <1>2

\* An update that has the table to itself is refused for its hierarchy only when the
\* requested parent is below the project, however long the walk was.
THEOREM RefusesOnlyCycles ==
    ASSUME SingleWriter PROVE Spec => RejectsOnlyCycles
<1> DEFINE Rightly ==
        \A r \in Requests :
           /\ req[r].pc = "walk"
           /\ req'[r].reply = "invalid_hierarchy"
           /\ \A s \in Requests \ {r} : req[s] = Idle("none")
           => /\ req[r].op = "update"
              /\ IsAncestor(up, req[r].target, req[r].row.parent)
<1>1. IInv /\ AloneInv /\ [Next]_vars => [Rightly]_vars
    <2> SUFFICES ASSUME IInv, AloneInv, Next, NEW r \in Requests,
                        req[r].pc = "walk", req'[r].reply = "invalid_hierarchy",
                        \A s \in Requests \ {r} : req[s] = Idle("none")
                 PROVE  /\ req[r].op = "update"
                        /\ IsAncestor(up, req[r].target, req[r].row.parent)
        BY DEF Rightly
    <2> DEFINE q == req[r]
               c == q.cursor
               next == projects[c].parent
    <2>1. req[r].reply = "none" /\ OnTheWay(q) /\ (q.op = "create" => q.target = NULL)
        BY DEF AloneInv, Alone
    <2>2. q \in Request /\ req \in [Requests -> Request] /\ TypeOK
        BY DEF IInv, TypeOK
    <2>3. Start(r) \/ Continue(r) \/ Abort(r)
        BY <2>1, <2>2, OneActs DEF Next
    <2>4. WalkParent(r)
        <3>1. ~ Start(r)
            BY DEF Start, CreateProject, DeleteProject, UpdateProject, SetArchivedProject
        <3>2. ~ Abort(r)
            BY <2>2 DEF Abort, Answer, Idle
        <3>3. ~ InsertProject(r) /\ ~ RewriteProject(r)
            BY DEF InsertProject, RewriteProject
        <3> QED
            BY <2>3, <3>1, <3>2, <3>3 DEF Continue
    <2>5. c \in live /\ next # NULL /\ ClosesCycle(q, next)
        <3>1. \A reply : Answer(r, reply) => req'[r].reply = reply
            BY <2>2 DEF Answer, Idle
        <3>2. CASE req' = [req EXCEPT ![r].pc = "write", ![r].cursor = NULL,
                                      ![r].visited = @ \cup {c}]
            BY <2>1, <2>2, <3>2 DEF Request
        <3>3. CASE req' = [req EXCEPT ![r].cursor = next, ![r].visited = @ \cup {c}]
            BY <2>1, <2>2, <3>3 DEF Request
        <3> QED
            BY <2>4, <3>1, <3>2, <3>3 DEF WalkParent
    <2> HIDE DEF c
    <2>6. next \notin q.visited \cup {c}
        BY <2>1, <2>5, NothingMetTwice DEF c
    <2>7. next = q.target /\ next \in live /\ IsAncestor(up, next, q.row.parent)
        BY <2>1, <2>5, <2>6, WalkGoesOn DEF c, ClosesCycle
    <2>8. q.op = "update"
        BY <2>1, <2>5, <2>7 DEF IInv, RequestInv, WalkInv
    <2> QED
        BY <2>7, <2>8
<1>2. AloneInv /\ IInv /\ [Next]_vars => AloneInv'
    BY AloneStep
<1> QED
    BY <1>1, <1>2, AloneInit, Invariant, PTL DEF Spec, RejectsOnlyCycles

=============================================================================
