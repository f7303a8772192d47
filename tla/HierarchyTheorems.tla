-------------------------- MODULE HierarchyTheorems --------------------------
(***************************************************************************)
(* What the single-row changes of a table do to its parent relation: the   *)
(* lemmas that the proofs about projects and tasks rest on.                *)
(***************************************************************************)
EXTENDS Hierarchy, TLAPS

\* Deleting rows and clearing parents (DELETE with ON DELETE SET NULL) keeps a
\* hierarchy acyclic.
LEMMA AcyclicShrink ==
    ASSUME NEW up1, NEW up2,
           Acyclic(up1),
           DOMAIN up2 \subseteq DOMAIN up1,
           \A x \in DOMAIN up2 : up2[x] = up1[x] \/ up2[x] \notin DOMAIN up2
    PROVE  Acyclic(up2)
<1> SUFFICES ASSUME NEW S \in SUBSET DOMAIN up2, S # {},
                    \A x \in S : up2[x] \in S
             PROVE  FALSE
    BY DEF Acyclic
<1>1. \A x \in S : up1[x] \in S
    OBVIOUS
<1>2. S \in SUBSET DOMAIN up1
    OBVIOUS
<1> QED
    BY <1>1, <1>2 DEF Acyclic

\* Inserting a row that no row has as its parent (INSERT with a new id) keeps a
\* hierarchy acyclic.
LEMMA AcyclicLeaf ==
    ASSUME NEW up1, NEW up2, NEW id,
           Acyclic(up1),
           id \notin DOMAIN up1,
           DOMAIN up2 = DOMAIN up1 \cup {id},
           up2[id] # id,
           \A x \in DOMAIN up1 : up2[x] = up1[x] /\ up1[x] # id
    PROVE  Acyclic(up2)
<1> SUFFICES ASSUME NEW S \in SUBSET DOMAIN up2, S # {},
                    \A x \in S : up2[x] \in S
             PROVE  FALSE
    BY DEF Acyclic
<1> DEFINE T == S \ {id}
<1>1. T \in SUBSET DOMAIN up1
    OBVIOUS
<1>2. T # {}
    <2>1. PICK x \in S : TRUE
        OBVIOUS
    <2>2. CASE x # id
        BY <2>2
    <2>3. CASE x = id
        BY <2>3, up2[id] \in S, up2[id] # id
    <2> QED
        BY <2>2, <2>3
<1>3. \A x \in T : up1[x] \in T
    BY <1>1
<1> HIDE DEF T
<1> QED
    BY <1>1, <1>2, <1>3 DEF Acyclic

\* Moving a row below one that it is not an ancestor of (UPDATE of one parent)
\* keeps a hierarchy acyclic.
LEMMA AcyclicAttach ==
    ASSUME NEW up1, NEW up2, NEW id \in DOMAIN up1,
           Acyclic(up1),
           DOMAIN up2 = DOMAIN up1,
           \A x \in DOMAIN up1 \ {id} : up2[x] = up1[x],
           ~ IsAncestor(up1, id, up2[id])
    PROVE  Acyclic(up2)
<1> SUFFICES ASSUME NEW S \in SUBSET DOMAIN up2, S # {},
                    \A x \in S : up2[x] \in S
             PROVE  FALSE
    BY DEF Acyclic
<1>1. CASE id \notin S
    <2>1. \A x \in S : up1[x] \in S
        BY <1>1
    <2> QED
        BY <2>1 DEF Acyclic
<1>2. CASE id \in S
    <2>1. PICK V \in SUBSET DOMAIN up1 :
              up2[id] \in V /\ UpClosed(up1, V) /\ id \notin V
        BY DEF IsAncestor
    <2> DEFINE T == S \cap V
    <2>2. T \in SUBSET DOMAIN up1
        OBVIOUS
    <2>3. T # {}
        BY <1>2, <2>1
    <2>4. \A x \in T : up1[x] \in T
        BY <2>1 DEF UpClosed
    <2> HIDE DEF T
    <2> QED
        BY <2>2, <2>3, <2>4 DEF Acyclic
<1> QED
    BY <1>1, <1>2

\* A set of rows that is closed under parents, holds p and does not hold id
\* shows that id is not an ancestor of p: this is what the walk collects.
LEMMA WalkWitness ==
    ASSUME NEW up1, NEW V, NEW id, NEW p \in V \cap DOMAIN up1,
           id \notin V,
           \A x \in V \cap DOMAIN up1 : up1[x] \in DOMAIN up1 => up1[x] \in V
    PROVE  ~ IsAncestor(up1, id, p)
<1> DEFINE T == V \cap DOMAIN up1
<1>1. T \in SUBSET DOMAIN up1 /\ p \in T /\ id \notin T
    OBVIOUS
<1>2. UpClosed(up1, T)
    BY DEF UpClosed
<1> QED
    BY <1>1, <1>2 DEF IsAncestor

\* No row is above its own parent: of the rows that are above a and below it, as a and
\* its child b would be, each has its parent among them.
LEMMA ParentIsNotBelow ==
    ASSUME NEW up1, Acyclic(up1), NEW a \in DOMAIN up1, NEW b \in DOMAIN up1,
           up1[b] = a
    PROVE  ~ IsAncestor(up1, b, a)
<1> SUFFICES ASSUME IsAncestor(up1, b, a) PROVE FALSE
    OBVIOUS
<1> DEFINE T == {x \in DOMAIN up1 : IsAncestor(up1, x, a) /\ IsAncestor(up1, a, x)}
<1>1. a \in T
    BY DEF IsAncestor
<1>2. ASSUME NEW x \in T
      PROVE  up1[x] \in T
    <2>1. x \in DOMAIN up1 /\ IsAncestor(up1, x, a) /\ IsAncestor(up1, a, x)
        OBVIOUS
    <2>2. up1[x] \in DOMAIN up1
        <3>1. SUFFICES ASSUME up1[x] \notin DOMAIN up1 PROVE FALSE
            OBVIOUS
        <3>2. {x} \in SUBSET DOMAIN up1 /\ UpClosed(up1, {x})
            BY <2>1, <3>1 DEF UpClosed
        <3>3. a = x
            BY <2>1, <3>2 DEF IsAncestor
        <3>4. b = a
            BY <3>2, <3>3 DEF IsAncestor
        <3> QED
            BY <3>1, <3>3, <3>4
    <2>3. IsAncestor(up1, up1[x], a)
        BY <2>1, <2>2 DEF IsAncestor, UpClosed
    <2>4. IsAncestor(up1, a, up1[x])
        <3> SUFFICES ASSUME NEW S \in SUBSET DOMAIN up1, up1[x] \in S, UpClosed(up1, S)
                     PROVE  a \in S
            BY DEF IsAncestor
        <3>1. S \cup {x} \in SUBSET DOMAIN up1 /\ UpClosed(up1, S \cup {x})
            BY <2>1 DEF UpClosed
        <3>2. a \in S \cup {x}
            BY <2>1, <3>1 DEF IsAncestor
        <3>3. CASE x = a
            <4>1. b \in S \cup {a}
                BY <3>1, <3>3 DEF IsAncestor
            <4> QED
                BY <3>3, <4>1 DEF UpClosed
        <3> QED
            BY <3>2, <3>3
    <2> QED
        BY <2>2, <2>3, <2>4
<1>3. T \in SUBSET DOMAIN up1
    OBVIOUS
<1> HIDE DEF T
<1> QED
    BY <1>1, <1>2, <1>3 DEF Acyclic

=============================================================================
