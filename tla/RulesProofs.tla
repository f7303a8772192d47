---------------------------- MODULE RulesProofs ----------------------------
(***************************************************************************)
(* Theorems about the months of a year, for every base, largest amount,    *)
(* set of months and of categories and every text typed; about the list of *)
(* tasks, for every set of tasks and projects and every clock; and about   *)
(* the two together with the schedule of a task, as they are run.          *)
(***************************************************************************)
EXTENDS MCRules, TaskScheduleProofs, FiniteSetTheorems, SequenceTheorems, TLAPS

-----------------------------------------------------------------------------
(* Sums *)

\* Of some subsets of a finite set, one has no other below it.
LEMMA LeastSet ==
    ASSUME NEW D, IsFiniteSet(D), NEW Bad, Bad \subseteq SUBSET D, Bad # {}
    PROVE  \E U \in Bad : \A V \in Bad : V \subseteq U => V = U
<1> DEFINE T == {Cardinality(U) : U \in Bad}
<1>1. \A U \in SUBSET D : IsFiniteSet(U) /\ Cardinality(U) \in Nat
    BY FS_Subset, FS_CardinalityType
<1>2. T \subseteq Nat /\ T # {}
    BY <1>1
<1>3. PICK k \in T : \A j \in T : k <= j
    BY <1>2, LeastNumber
<1>4. PICK U \in Bad : Cardinality(U) = k
    BY <1>3
<1>5. ASSUME NEW V \in Bad, V \subseteq U
      PROVE  V = U
    <2>1. IsFiniteSet(U) /\ IsFiniteSet(V) /\ Cardinality(U) \in Nat /\ Cardinality(V) \in Nat
        BY <1>1
    <2>2. k <= Cardinality(V)
        BY <1>3
    <2>3. Cardinality(V) <= Cardinality(U) /\ (Cardinality(U) = Cardinality(V) => U = V)
        BY <1>5, <2>1, FS_Subset
    <2> QED
        BY <1>4, <2>1, <2>2, <2>3
<1> QED
    BY <1>4, <1>5

\* The sum of a function over a set, and the function by which a fold computes it.
Total(f, S) == SumFunctionOnSet(f, S)
First(s)    == CHOOSE x \in s : TRUE

Sums(f, D, iter) ==
    iter = [s \in SUBSET D |-> IF s = {} THEN 0
                               ELSE LET x == CHOOSE x \in s : TRUE
                                    IN  f[x] + iter[s \ {x}]]

LEMMA TotalIsChosen ==
    ASSUME NEW f, NEW D
    PROVE  Total(f, D) = (CHOOSE iter : Sums(f, D, iter))[D]
BY Zenon DEF Total, Sums, SumFunctionOnSet, FoldFunctionOnSet, MapThenFoldSet

LEMMA SumsStep ==
    ASSUME NEW f, NEW D, NEW iter, Sums(f, D, iter), NEW s \in SUBSET D
    PROVE  iter[s] = IF s = {} THEN 0 ELSE f[First(s)] + iter[s \ {First(s)}]
BY DEF Sums, First

LEMMA FirstIsIn == \A s : s # {} => First(s) \in s
BY DEF First

\* Two folds agree where their functions do.
LEMMA SumsAgree ==
    ASSUME NEW f, NEW g, NEW D, NEW E, NEW i, NEW j, Sums(f, D, i), Sums(g, E, j),
           NEW S \in SUBSET (D \cap E), IsFiniteSet(S), \A x \in S : f[x] = g[x]
    PROVE  i[S] = j[S]
<1> DEFINE Bad == {U \in SUBSET S : i[U] # j[U]}
<1>1. SUFFICES ASSUME Bad # {} PROVE FALSE
    OBVIOUS
<1>2. PICK U \in Bad : \A V \in Bad : V \subseteq U => V = U
    <2>1. Bad \subseteq SUBSET S
        OBVIOUS
    <2> HIDE DEF Bad
    <2> QED
        BY <1>1, <2>1, LeastSet
<1>3. /\ U \in SUBSET S /\ i[U] # j[U]
      /\ i[U] = IF U = {} THEN 0 ELSE f[First(U)] + i[U \ {First(U)}]
      /\ j[U] = IF U = {} THEN 0 ELSE g[First(U)] + j[U \ {First(U)}]
    BY SumsStep
<1>4. U # {} /\ First(U) \in U
    BY <1>3, FirstIsIn
<1>5. U \ {First(U)} \notin Bad /\ U \ {First(U)} \in SUBSET S
    BY <1>2, <1>4
<1> QED
    BY <1>3, <1>4, <1>5

\* Every finite set has the fold that the recursion describes.
LEMMA SumsExist ==
    ASSUME NEW f, NEW S, IsFiniteSet(S)
    PROVE  \E iter : Sums(f, S, iter)
<1> DEFINE Bad == {U \in SUBSET S : ~ \E iter : Sums(f, U, iter)}
<1>1. SUFFICES ASSUME Bad # {} PROVE FALSE
    OBVIOUS
<1>2. PICK U \in Bad : \A V \in Bad : V \subseteq U => V = U
    <2>1. Bad \subseteq SUBSET S
        OBVIOUS
    <2> HIDE DEF Bad
    <2> QED
        BY <1>1, <2>1, LeastSet
<1> DEFINE h(V) == CHOOSE iter : Sums(f, V, iter)
           g    == [s \in SUBSET U |-> IF s = {} THEN 0
                       ELSE f[First(s)] + h(s \ {First(s)})[s \ {First(s)}]]
<1>3. ASSUME NEW V \in SUBSET U, V # U
      PROVE  Sums(f, V, h(V))
    BY <1>2, <1>3
<1>4. ASSUME NEW V \in SUBSET U, V # U
      PROVE  g[V] = h(V)[V]
    <2>1. Sums(f, V, h(V))
        BY <1>3, <1>4
    <2>2. h(V)[V] = IF V = {} THEN 0 ELSE f[First(V)] + h(V)[V \ {First(V)}]
        BY <2>1, SumsStep
    <2>3. CASE V = {}
        BY <2>2, <2>3
    <2>4. CASE V # {}
        <3> DEFINE W == V \ {First(V)}
        <3>1. First(V) \in V /\ W \in SUBSET U /\ W # U
            BY <1>4, <2>4, FirstIsIn
        <3>2. Sums(f, W, h(W))
            BY <1>3, <3>1
        <3>3. IsFiniteSet(W)
            BY <1>2, <3>1, FS_Subset
        <3> HIDE DEF h
        <3>4. h(V)[W] = h(W)[W]
            BY <2>1, <3>2, <3>3, SumsAgree
        <3> QED
            BY <2>2, <2>4, <3>4
    <2> QED
        BY <2>3, <2>4
<1>5. Sums(f, U, g)
    <2>1. ASSUME NEW s \in SUBSET U, s # {}
          PROVE  h(s \ {First(s)})[s \ {First(s)}] = g[s \ {First(s)}]
        <3>1. First(s) \in s
            BY <2>1, FirstIsIn
        <3> QED
            BY <1>4, <3>1
    <2> HIDE DEF h
    <2>2. g = [s \in SUBSET U |-> IF s = {} THEN 0 ELSE f[First(s)] + g[s \ {First(s)}]]
        BY <2>1
    <2> HIDE DEF g
    <2> QED
        BY <2>2 DEF Sums, First
<1> QED
    BY <1>2, <1>5

\* The sum over a finite set is one value plus the sum over the rest.
LEMMA TotalStep ==
    ASSUME NEW f, NEW S, IsFiniteSet(S)
    PROVE  Total(f, S) = IF S = {} THEN 0 ELSE f[First(S)] + Total(f, S \ {First(S)})
<1> DEFINE i == CHOOSE iter : Sums(f, S, iter)
           R == S \ {First(S)}
           j == CHOOSE iter : Sums(f, R, iter)
<1>1. IsFiniteSet(R) /\ R \in SUBSET S
    BY FS_Subset
<1>2. Sums(f, S, i)
    BY SumsExist
<1>3. Sums(f, R, j)
    <2>1. \E iter : Sums(f, R, iter)
        BY <1>1, SumsExist
    <2> HIDE DEF R
    <2> QED
        BY <2>1
<1>4. Total(f, S) = i[S] /\ Total(f, R) = j[R]
    BY TotalIsChosen
<1> HIDE DEF i, j
<1>5. i[S] = IF S = {} THEN 0 ELSE f[First(S)] + i[R]
    BY <1>2, SumsStep
<1>6. i[R] = j[R]
    <2>1. R \in SUBSET (S \cap R)
        BY <1>1
    <2> HIDE DEF R
    <2> QED
        BY <1>1, <1>2, <1>3, <2>1, SumsAgree
<1> QED
    BY <1>4, <1>5, <1>6

\* It depends on the values in the set only.
LEMMA TotalSame ==
    ASSUME NEW f, NEW g, NEW S, IsFiniteSet(S), \A x \in S : f[x] = g[x]
    PROVE  Total(f, S) = Total(g, S)
<1> DEFINE i == CHOOSE iter : Sums(f, S, iter)
           j == CHOOSE iter : Sums(g, S, iter)
<1>1. Sums(f, S, i) /\ Sums(g, S, j)
    BY SumsExist
<1>2. Total(f, S) = i[S] /\ Total(g, S) = j[S]
    BY TotalIsChosen
<1> HIDE DEF i, j
<1>3. i[S] = j[S]
    BY <1>1, SumsAgree
<1> QED
    BY <1>2, <1>3

\* The sum of integers is one.
LEMMA TotalType ==
    ASSUME NEW f, NEW S, IsFiniteSet(S), \A x \in S : f[x] \in Int
    PROVE  Total(f, S) \in Int
<1> DEFINE Bad == {U \in SUBSET S : Total(f, U) \notin Int}
<1>1. SUFFICES ASSUME Bad # {} PROVE FALSE
    OBVIOUS
<1>2. PICK U \in Bad : \A V \in Bad : V \subseteq U => V = U
    <2>1. Bad \subseteq SUBSET S
        OBVIOUS
    <2> HIDE DEF Bad
    <2> QED
        BY <1>1, <2>1, LeastSet
<1>3. U \in SUBSET S /\ Total(f, U) \notin Int /\ IsFiniteSet(U)
    BY <1>2, FS_Subset
<1>4. Total(f, U) = IF U = {} THEN 0 ELSE f[First(U)] + Total(f, U \ {First(U)})
    BY <1>3, TotalStep
<1>5. CASE U = {}
    BY <1>3, <1>4, <1>5
<1>6. CASE U # {}
    <2>1. First(U) \in U
        BY <1>6, FirstIsIn
    <2>2. Total(f, U \ {First(U)}) \in Int /\ f[First(U)] \in Int
        BY <1>2, <1>3, <2>1
    <2> QED
        BY <1>3, <1>4, <1>6, <2>2
<1> QED
    BY <1>5, <1>6

\* Any value may be the one that is taken out.
LEMMA TotalSplit ==
    ASSUME NEW f, NEW S, IsFiniteSet(S), \A x \in S : f[x] \in Int, NEW x \in S
    PROVE  Total(f, S) = f[x] + Total(f, S \ {x})
<1> DEFINE Bad == {U \in SUBSET S :
                      \E y \in U : Total(f, U) # f[y] + Total(f, U \ {y})}
<1>1. SUFFICES ASSUME Bad # {} PROVE FALSE
    OBVIOUS
<1>2. PICK U \in Bad : \A V \in Bad : V \subseteq U => V = U
    <2>1. Bad \subseteq SUBSET S
        OBVIOUS
    <2> HIDE DEF Bad
    <2> QED
        BY <1>1, <2>1, LeastSet
<1>3. U \in SUBSET S
    BY <1>2
<1>4. PICK y \in U : Total(f, U) # f[y] + Total(f, U \ {y})
    BY <1>2
<1> DEFINE z == First(U)
           Y == U \ {y}
           Z == U \ {z}
           R == (U \ {y}) \ {z}
<1>5. z \in U
    BY <1>4, FirstIsIn
<1>6. IsFiniteSet(U) /\ IsFiniteSet(R)
    BY <1>3, FS_Subset
<1>7. Total(f, U) = f[z] + Total(f, Z)
    BY <1>4, <1>6, TotalStep
<1> HIDE DEF z
<1>8. y # z
    BY <1>4, <1>7
<1>9. Total(f, Y) = f[z] + Total(f, R)
    <2>1. Y \notin Bad /\ z \in Y /\ Y \in SUBSET S
        BY <1>2, <1>3, <1>4, <1>5, <1>8
    <2> QED
        BY <2>1
<1>10. Total(f, Z) = f[y] + Total(f, R)
    <2>1. Z \notin Bad /\ y \in Z /\ Z \in SUBSET S
        BY <1>2, <1>3, <1>4, <1>5, <1>8
    <2>2. Total(f, Z) = f[y] + Total(f, Z \ {y})
        BY <2>1
    <2>3. Z \ {y} = R
        OBVIOUS
    <2> QED
        BY <2>2, <2>3
<1>11. f[y] \in Int /\ f[z] \in Int /\ Total(f, R) \in Int
    <2>1. \A u \in R : f[u] \in Int
        BY <1>3
    <2> HIDE DEF R
    <2> QED
        BY <1>3, <1>4, <1>5, <1>6, <2>1, TotalType
<1> HIDE DEF R, Y, Z
<1>12. Total(f, U) = f[y] + Total(f, Y)
    BY <1>7, <1>9, <1>10, <1>11
<1> QED
    BY <1>4, <1>12 DEF Y

\* The sum of sums is the sum of the terms.
LEMMA TotalOfTwo ==
    ASSUME NEW f, NEW g, NEW h, NEW S, IsFiniteSet(S),
           \A x \in S : f[x] \in Int /\ g[x] \in Int /\ h[x] = f[x] + g[x]
    PROVE  Total(h, S) = Total(f, S) + Total(g, S)
<1> DEFINE Bad == {U \in SUBSET S : Total(h, U) # Total(f, U) + Total(g, U)}
<1>1. SUFFICES ASSUME Bad # {} PROVE FALSE
    OBVIOUS
<1>2. PICK U \in Bad : \A V \in Bad : V \subseteq U => V = U
    <2>1. Bad \subseteq SUBSET S
        OBVIOUS
    <2> HIDE DEF Bad
    <2> QED
        BY <1>1, <2>1, LeastSet
<1>3. U \in SUBSET S /\ IsFiniteSet(U) /\ Total(h, U) # Total(f, U) + Total(g, U)
    BY <1>2, FS_Subset
<1> DEFINE z == First(U)
           R == U \ {z}
<1>4. /\ Total(f, U) = IF U = {} THEN 0 ELSE f[z] + Total(f, R)
      /\ Total(g, U) = IF U = {} THEN 0 ELSE g[z] + Total(g, R)
      /\ Total(h, U) = IF U = {} THEN 0 ELSE h[z] + Total(h, R)
    BY <1>3, TotalStep
<1>5. U # {} /\ z \in U
    BY <1>3, <1>4, FirstIsIn
<1>6. Total(h, R) = Total(f, R) + Total(g, R)
    <2>1. R \notin Bad /\ R \in SUBSET S
        BY <1>2, <1>3, <1>5
    <2> QED
        BY <2>1
<1>7. /\ f[z] \in Int /\ g[z] \in Int /\ h[z] = f[z] + g[z]
      /\ IsFiniteSet(R) /\ \A x \in R : f[x] \in Int /\ g[x] \in Int
    BY <1>3, <1>5, FS_Subset
<1> HIDE DEF R, z
<1>8. Total(f, R) \in Int /\ Total(g, R) \in Int
    BY <1>7, TotalType
<1> QED
    BY <1>3, <1>4, <1>5, <1>6, <1>7, <1>8

LEMMA TotalOfNone ==
    ASSUME NEW f, NEW S, IsFiniteSet(S), \A x \in S : f[x] = 0
    PROVE  Total(f, S) = 0
<1>1. Total(f, S) \in Int /\ Total(f, S) = Total(f, S) + Total(f, S)
    BY TotalType, TotalOfTwo
<1> QED
    BY <1>1, SMTT(30)

\* Values that are not negative have no smaller sum.
LEMMA TotalBounds ==
    ASSUME NEW f, NEW S, IsFiniteSet(S), \A x \in S : f[x] \in Nat
    PROVE  Total(f, S) \in Nat /\ \A x \in S : f[x] <= Total(f, S)
<1>1. ASSUME NEW V \in SUBSET S
      PROVE  Total(f, V) \in Nat
    <2> DEFINE Bad == {U \in SUBSET S : Total(f, U) \notin Nat}
    <2>1. SUFFICES ASSUME Bad # {} PROVE FALSE
        OBVIOUS
    <2>2. PICK U \in Bad : \A W \in Bad : W \subseteq U => W = U
        <3>1. Bad \subseteq SUBSET S
            OBVIOUS
        <3> HIDE DEF Bad
        <3> QED
            BY <2>1, <3>1, LeastSet
    <2>3. U \in SUBSET S /\ Total(f, U) \notin Nat /\ IsFiniteSet(U)
        BY <2>2, FS_Subset
    <2>4. Total(f, U) = IF U = {} THEN 0 ELSE f[First(U)] + Total(f, U \ {First(U)})
        BY <2>3, TotalStep
    <2>5. U # {} /\ First(U) \in U
        BY <2>3, <2>4, FirstIsIn
    <2>6. Total(f, U \ {First(U)}) \in Nat /\ f[First(U)] \in Nat
        BY <2>2, <2>3, <2>5
    <2> QED
        BY <2>3, <2>4, <2>5, <2>6
<1>2. ASSUME NEW x \in S
      PROVE  f[x] <= Total(f, S)
    <2>1. Total(f, S) = f[x] + Total(f, S \ {x})
        BY TotalSplit
    <2>2. Total(f, S \ {x}) \in Nat
        BY <1>1
    <2> QED
        BY <2>1, <2>2
<1> QED
    BY <1>1, <1>2

\* Zeros add nothing.
LEMMA TotalExtended ==
    ASSUME NEW f, NEW g, NEW S, NEW T \in SUBSET S, IsFiniteSet(S),
           \A x \in S : f[x] \in Int,
           \A x \in S : f[x] = IF x \in T THEN g[x] ELSE 0
    PROVE  Total(f, S) = Total(g, T)
<1>1. Total(f, S) = Total(f, T)
    <2>1. SUFFICES ASSUME NEW V \in SUBSET S
                   PROVE  Total(f, V) = Total(f, V \cap T)
        <3>1. S \cap T = T
            OBVIOUS
        <3> QED
            BY <2>1, <3>1
    <2> DEFINE Bad == {U \in SUBSET S : Total(f, U) # Total(f, U \cap T)}
    <2>2. SUFFICES ASSUME Bad # {} PROVE FALSE
        OBVIOUS
    <2>3. PICK U \in Bad : \A W \in Bad : W \subseteq U => W = U
        <3>1. Bad \subseteq SUBSET S
            OBVIOUS
        <3> HIDE DEF Bad
        <3> QED
            BY <2>2, <3>1, LeastSet
    <2>4. /\ U \in SUBSET S /\ Total(f, U) # Total(f, U \cap T)
          /\ IsFiniteSet(U) /\ IsFiniteSet(U \cap T)
        BY <2>3, FS_Subset
    <2> DEFINE z == First(U)
               R == U \ {z}
    <2>5. Total(f, U) = IF U = {} THEN 0 ELSE f[z] + Total(f, R)
        BY <2>4, TotalStep
    <2>6. U # {}
        <3>1. Total(f, {}) = 0
            BY TotalStep, FS_EmptySet
        <3> QED
            BY <2>4, <3>1
    <2>7. z \in U
        BY <2>6, FirstIsIn
    <2>8. Total(f, R) = Total(f, R \cap T)
        <3>1. R \notin Bad /\ R \in SUBSET S
            BY <2>3, <2>4, <2>7
        <3> QED
            BY <3>1
    <2>9. CASE z \in T
        <3>1. Total(f, U \cap T) = f[z] + Total(f, (U \cap T) \ {z})
            <4>1. z \in U \cap T /\ \A x \in U \cap T : f[x] \in Int
                BY <2>4, <2>7, <2>9
            <4> HIDE DEF z
            <4> QED
                BY <2>4, <4>1, TotalSplit
        <3>2. (U \cap T) \ {z} = R \cap T
            OBVIOUS
        <3> QED
            BY <2>4, <2>5, <2>6, <2>8, <3>1, <3>2
    <2>10. CASE z \notin T
        <3>1. U \cap T = R \cap T
            BY <2>10
        <3>2. f[z] = 0
            BY <2>4, <2>7, <2>10
        <3>3. Total(f, R) \in Int
            <4>1. IsFiniteSet(R) /\ \A x \in R : f[x] \in Int
                BY <2>4, FS_Subset
            <4> HIDE DEF R
            <4> QED
                BY <4>1, TotalType
        <3>4. Total(f, U) = f[z] + Total(f, R)
            BY <2>5, <2>6
        <3> HIDE DEF z, R
        <3>5. Total(f, U) = Total(f, R)
            BY <3>2, <3>3, <3>4
        <3> QED
            BY <2>4, <2>8, <3>1, <3>5
    <2> QED
        BY <2>9, <2>10
<1>2. Total(f, T) = Total(g, T)
    <2>1. IsFiniteSet(T) /\ \A x \in T : f[x] = g[x]
        BY FS_Subset
    <2> QED
        BY <2>1, TotalSame
<1> QED
    BY <1>1, <1>2

\* The sum of the rows of a table is the sum of its columns.
LEMMA TotalOfTable ==
    ASSUME NEW F, NEW S, NEW T, IsFiniteSet(S), IsFiniteSet(T),
           \A x \in S : \A y \in T : F[x][y] \in Int
    PROVE  Total([x \in S |-> Total(F[x], T)], S) =
           Total([y \in T |-> Total([x \in S |-> F[x][y]], S)], T)
<1> DEFINE rows      == [x \in S |-> Total(F[x], T)]
           column(y) == [x \in S |-> F[x][y]]
           below(U)  == [y \in T |-> Total(column(y), U)]
           Bad       == {U \in SUBSET S : Total(rows, U) # Total(below(U), T)}
<1>1. SUFFICES ASSUME Bad # {} PROVE FALSE
    OBVIOUS
<1>2. PICK U \in Bad : \A V \in Bad : V \subseteq U => V = U
    <2>1. Bad \subseteq SUBSET S
        OBVIOUS
    <2> HIDE DEF Bad
    <2> QED
        BY <1>1, <2>1, LeastSet
<1>3. U \in SUBSET S /\ IsFiniteSet(U) /\ Total(rows, U) # Total(below(U), T)
    BY <1>2, FS_Subset
<1> DEFINE z == First(U)
           R == U \ {z}
<1>4. \A y \in T : Total(column(y), U) =
                     IF U = {} THEN 0 ELSE column(y)[z] + Total(column(y), R)
    BY <1>3, TotalStep
<1>5. Total(rows, U) = IF U = {} THEN 0 ELSE rows[z] + Total(rows, R)
    BY <1>3, TotalStep
<1>6. U # {}
    <2>1. SUFFICES ASSUME U = {} PROVE FALSE
        OBVIOUS
    <2>2. \A y \in T : below(U)[y] = 0
        BY <1>4, <2>1
    <2> HIDE DEF below
    <2>3. Total(below(U), T) = 0
        BY <2>2, TotalOfNone
    <2> QED
        BY <1>3, <1>5, <2>1, <2>3
<1>7. z \in U /\ z \in S /\ R \in SUBSET S /\ IsFiniteSet(R)
    BY <1>3, <1>6, FirstIsIn, FS_Subset
<1>8. Total(rows, R) = Total(below(R), T)
    <2>1. R \notin Bad
        BY <1>2, <1>3, <1>7
    <2> QED
        BY <1>7, <2>1
<1>9. \A y \in T : /\ F[z][y] \in Int /\ below(R)[y] \in Int
                   /\ below(U)[y] = F[z][y] + below(R)[y]
    <2> SUFFICES ASSUME NEW y \in T
                 PROVE  /\ F[z][y] \in Int /\ below(R)[y] \in Int
                        /\ below(U)[y] = F[z][y] + below(R)[y]
        OBVIOUS
    <2>1. \A x \in R : column(y)[x] \in Int
        BY <1>7
    <2>2. Total(column(y), R) \in Int
        <3> HIDE DEF column, R
        <3> QED
            BY <1>7, <2>1, TotalType
    <2>3. column(y)[z] = F[z][y]
        BY <1>7
    <2> QED
        BY <1>4, <1>6, <1>7, <2>2, <2>3
<1>10. Total(below(U), T) = Total(F[z], T) + Total(below(R), T)
    <2> HIDE DEF below, R, z
    <2> QED
        BY <1>9, TotalOfTwo
<1>11. rows[z] = Total(F[z], T)
    BY <1>7
<1> QED
    BY <1>3, <1>5, <1>6, <1>8, <1>10, <1>11

-----------------------------------------------------------------------------
(* Amounts *)

\* What a sum is in 64 bits.
Wrap(x) == ((x + Max63 + 1) % Modulus) - Max63 - 1

LEMMA RangeFacts == Max63 \in Nat /\ Modulus = 2 * Max63 + 2 /\ Modulus \in Nat \ {0}
<1>1. Max63 \in Nat
    BY MonthsAssumption, Zenon DEF MonthsAssumption
<1> QED
    BY <1>1 DEF Modulus

\* A multiple of a positive number that is less than it in size is zero.
LEMMA SmallMultiple ==
    ASSUME NEW n \in Nat \ {0}, NEW k \in Int, -n < k * n, k * n < n
    PROVE  k = 0
<1>1. CASE k >= 1
    <2>1. k * n >= n
        BY <1>1
    <2> QED
        BY <2>1
<1>2. CASE k <= -1
    <2>1. k * n <= -n
        BY <1>2
    <2> QED
        BY <2>1
<1> QED
    BY <1>1, <1>2

\* Division leaves a remainder.
LEMMA Division ==
    ASSUME NEW x \in Int, NEW n \in Nat \ {0}
    PROVE  /\ x \div n \in Int /\ x % n \in 0..n - 1
           /\ x = n * (x \div n) + (x % n)
OBVIOUS

\* There is one way to divide.
LEMMA DivisionUnique ==
    ASSUME NEW x \in Int, NEW n \in Nat \ {0}, NEW q \in Int, NEW r \in 0..n - 1,
           x = n * q + r
    PROVE  q = x \div n /\ r = x % n
<1> DEFINE d == x \div n
           s == x % n
           k == q - d
<1>1. d \in Int /\ s \in 0..n - 1 /\ x = n * d + s
    BY Division
<1> HIDE DEF d, s
<1>2. k \in Int /\ k * n = s - r
    BY <1>1
<1> HIDE DEF k
<1>3. k = 0
    BY <1>1, <1>2, SmallMultiple
<1> QED
    BY <1>1, <1>2, <1>3 DEF k, d, s

\* A sum of 64 bits differs from the sum by a multiple of the range, and not at all
\* when the sum is in range.
LEMMA WrapFacts ==
    ASSUME NEW x \in Int
    PROVE  /\ Wrap(x) \in -Max63 - 1..Max63
           /\ \E k \in Int : x = Wrap(x) + k * Modulus
           /\ \A y \in -Max63 - 1..Max63, k \in Int : x = y + k * Modulus => Wrap(x) = y
           /\ x \in -Max63 - 1..Max63 => Wrap(x) = x
<1> DEFINE n == Modulus
           a == x + Max63 + 1
           q == a \div n
           r == a % n
<1>1. Max63 \in Nat /\ n = 2 * Max63 + 2 /\ n \in Nat \ {0}
    BY RangeFacts
<1> HIDE DEF n
<1>2. a \in Int /\ a = x + Max63 + 1
    BY <1>1
<1> HIDE DEF a
<1>3. /\ q \in Int /\ r \in 0..n - 1 /\ a = n * q + r
      /\ \A u \in Int, v \in 0..n - 1 : a = n * u + v => u = q /\ v = r
    <2>1. /\ a \div n \in Int /\ a % n \in 0..n - 1
          /\ a = n * (a \div n) + (a % n)
        BY <1>1, <1>2, Division
    <2>2. ASSUME NEW u \in Int, NEW v \in 0..n - 1, a = n * u + v
          PROVE  u = q /\ v = r
        BY <1>1, <1>2, <2>2, DivisionUnique
    <2> QED
        BY <2>1, <2>2
<1>4. Wrap(x) = r - Max63 - 1
    BY DEF Wrap, n, a
<1> HIDE DEF q, r
<1>5. x = Wrap(x) + q * n
    BY <1>1, <1>2, <1>3, <1>4
<1>6. ASSUME NEW y \in -Max63 - 1..Max63, NEW k \in Int, x = y + k * n
      PROVE  Wrap(x) = y
    <2>1. y + Max63 + 1 \in 0..n - 1
        BY <1>1
    <2>2. a = n * k + (y + Max63 + 1)
        BY <1>1, <1>2, <1>6
    <2>3. y + Max63 + 1 = r
        BY <1>3, <2>1, <2>2
    <2> QED
        BY <1>1, <1>3, <1>4, <2>3
<1>7. x \in -Max63 - 1..Max63 => Wrap(x) = x
    <2>1. x = x + 0 * n
        BY <1>1
    <2> QED
        BY <1>6, <2>1
<1>8. Wrap(x) \in -Max63 - 1..Max63
    BY <1>1, <1>3, <1>4
<1> QED
    BY <1>3, <1>5, <1>6, <1>7, <1>8 DEF n

LEMMA SameWrap ==
    ASSUME NEW x \in Int, NEW y \in Int, NEW k \in Int, x = y + k * Modulus
    PROVE  Wrap(x) = Wrap(y)
<1>1. PICK j \in Int : y = Wrap(y) + j * Modulus
    BY WrapFacts
<1>2. Wrap(y) \in -Max63 - 1..Max63 /\ Max63 \in Nat /\ Modulus \in Nat
    BY WrapFacts, RangeFacts
<1> DEFINE w == Wrap(y)
           i == j + k
<1>3. i \in Int /\ i * Modulus = j * Modulus + k * Modulus
    BY <1>2
<1>4. x = w + i * Modulus
    <2>1. w \in Int
        BY <1>2
    <2> HIDE DEF w, i
    <2>2. y = w + j * Modulus
        BY <1>1 DEF w
    <2>3. k * Modulus \in Int /\ j * Modulus \in Int
        BY <1>2
    <2> QED
        BY <1>3, <2>1, <2>2, <2>3
<1> HIDE DEF i
<1> QED
    BY <1>2, <1>3, <1>4, WrapFacts

\* It makes no difference whether a term was wrapped before.
LEMMA WrapAdds ==
    ASSUME NEW a \in Int, NEW b \in Int
    PROVE  Wrap(a + Wrap(b)) = Wrap(a + b) /\ Wrap(Wrap(b) + a) = Wrap(a + b)
<1>1. PICK k \in Int : b = Wrap(b) + k * Modulus
    BY WrapFacts
<1>2. Wrap(b) \in -Max63 - 1..Max63 /\ Max63 \in Nat /\ Modulus \in Nat
    BY WrapFacts, RangeFacts
<1> DEFINE w == Wrap(b)
           y == a + w
<1>3. w \in Int /\ b = w + k * Modulus
    BY <1>1, <1>2
<1> HIDE DEF w
<1>4. y \in Int /\ a + b \in Int /\ a + b = y + k * Modulus /\ y = w + a
    BY <1>2, <1>3
<1> HIDE DEF y
<1>5. Wrap(a + b) = Wrap(y)
    BY <1>4, SameWrap
<1>6. Wrap(a + b) = Wrap(a + w) /\ Wrap(a + b) = Wrap(w + a)
    BY <1>4, <1>5 DEF y
<1> QED
    BY <1>6 DEF w

LEMMA TotalWrapped ==
    ASSUME NEW f, NEW g, NEW S, IsFiniteSet(S),
           \A x \in S : f[x] \in Int /\ g[x] = Wrap(f[x])
    PROVE  Wrap(Total(g, S)) = Wrap(Total(f, S))
<1> DEFINE Bad == {U \in SUBSET S : Wrap(Total(g, U)) # Wrap(Total(f, U))}
<1>1. SUFFICES ASSUME Bad # {} PROVE FALSE
    OBVIOUS
<1>2. PICK U \in Bad : \A V \in Bad : V \subseteq U => V = U
    <2>1. Bad \subseteq SUBSET S
        OBVIOUS
    <2> HIDE DEF Bad
    <2> QED
        BY <1>1, <2>1, LeastSet
<1>3. U \in SUBSET S /\ IsFiniteSet(U) /\ Wrap(Total(g, U)) # Wrap(Total(f, U))
    BY <1>2, FS_Subset
<1> DEFINE z == First(U)
           R == U \ {z}
<1>4. /\ Total(f, U) = IF U = {} THEN 0 ELSE f[z] + Total(f, R)
      /\ Total(g, U) = IF U = {} THEN 0 ELSE g[z] + Total(g, R)
    BY <1>3, TotalStep
<1>5. U # {} /\ z \in U
    BY <1>3, <1>4, FirstIsIn
<1>6. Wrap(Total(g, R)) = Wrap(Total(f, R))
    <2>1. R \notin Bad /\ R \in SUBSET S
        BY <1>2, <1>3, <1>5
    <2> QED
        BY <2>1
<1>7. \A x \in S : g[x] \in Int
    <2>1. Max63 \in Nat
        BY RangeFacts
    <2>2. \A x \in S : g[x] \in -Max63 - 1..Max63
        BY WrapFacts, SMTT(30)
    <2> QED
        BY <2>1, <2>2
<1>8. f[z] \in Int /\ g[z] = Wrap(f[z]) /\ Total(f, R) \in Int /\ Total(g, R) \in Int
    <2>1. IsFiniteSet(R) /\ \A x \in R : f[x] \in Int /\ g[x] \in Int
        BY <1>3, <1>7, FS_Subset
    <2>2. f[z] \in Int /\ g[z] = Wrap(f[z])
        BY <1>3, <1>5
    <2> HIDE DEF R, z
    <2> QED
        BY <2>1, <2>2, TotalType
<1>9. Wrap(g[z] + Total(g, R)) = Wrap(f[z] + Total(f, R))
    <2> DEFINE a == f[z]
               b == Total(g, R)
               c == Total(f, R)
    <2>1. a \in Int /\ b \in Int /\ c \in Int /\ Wrap(b) = Wrap(c) /\ g[z] = Wrap(a)
        BY <1>6, <1>8
    <2> HIDE DEF a, b, c
    <2>2. Wrap(Wrap(a) + b) = Wrap(b + a)
        BY <2>1, WrapAdds
    <2>3. Wrap(a + Wrap(b)) = Wrap(a + b) /\ Wrap(a + Wrap(c)) = Wrap(a + c)
        BY <2>1, WrapAdds
    <2>4. a + b = b + a
        BY <2>1
    <2>5. Wrap(Wrap(a) + b) = Wrap(a + c)
        BY <2>1, <2>2, <2>3, <2>4
    <2> QED
        BY <2>1, <2>5 DEF a, b, c
<1> QED
    BY <1>3, <1>4, <1>5, <1>9

\* The fold of the code's addition is the sum in 64 bits.
Adds(f, D, iter) ==
    iter = [s \in SUBSET D |-> IF s = {} THEN 0
                               ELSE LET x == CHOOSE x \in s : TRUE
                                    IN  Add(f[x], iter[s \ {x}])]

LEMMA AddUpIsChosen ==
    ASSUME NEW f
    PROVE  AddUp(f) = (CHOOSE iter : Adds(f, DOMAIN f, iter))[DOMAIN f]
BY Zenon DEF AddUp, Adds, FoldFunction, FoldFunctionOnSet, MapThenFoldSet

LEMMA AddsStep ==
    ASSUME NEW f, NEW D, NEW iter, Adds(f, D, iter), NEW s \in SUBSET D
    PROVE  iter[s] = IF s = {} THEN 0 ELSE Add(f[First(s)], iter[s \ {First(s)}])
BY DEF Adds, First

LEMMA AddUpIsWrap ==
    ASSUME NEW f, IsFiniteSet(DOMAIN f), \A x \in DOMAIN f : f[x] \in Int
    PROVE  AddUp(f) = Wrap(Total(f, DOMAIN f))
<1> DEFINE S == DOMAIN f
           g == [s \in SUBSET S |-> Wrap(Total(f, s))]
<1> HIDE DEF S
<1>1. IsFiniteSet(S) /\ \A x \in S : f[x] \in Int
    BY DEF S
<1>2. Wrap(0) = 0
    BY WrapFacts, RangeFacts
<1>3. ASSUME NEW s \in SUBSET S
      PROVE  Wrap(Total(f, s)) = IF s = {} THEN 0
                ELSE Add(f[First(s)], Wrap(Total(f, s \ {First(s)})))
    <2> DEFINE z == First(s)
               R == s \ {z}
    <2>1. IsFiniteSet(s) /\ IsFiniteSet(R) /\ \A x \in R : f[x] \in Int
        BY <1>1, FS_Subset
    <2>2. Total(f, s) = IF s = {} THEN 0 ELSE f[z] + Total(f, R)
        BY <2>1, TotalStep
    <2>3. s # {} => f[z] \in Int
        BY <1>1, FirstIsIn
    <2> HIDE DEF z, R
    <2>4. Total(f, R) \in Int
        BY <2>1, TotalType
    <2>5. s # {} => Wrap(f[z] + Wrap(Total(f, R))) = Wrap(f[z] + Total(f, R))
        BY <2>3, <2>4, WrapAdds
    <2>6. Add(f[z], Wrap(Total(f, R))) = Wrap(f[z] + Wrap(Total(f, R)))
        BY DEF Add, Wrap
    <2> QED
        BY <1>2, <2>2, <2>5, <2>6 DEF z, R
<1>4. Adds(f, S, g)
    <2>1. \A s \in SUBSET S : s # {} => g[s \ {First(s)}] = Wrap(Total(f, s \ {First(s)}))
        OBVIOUS
    <2>2. g = [s \in SUBSET S |-> IF s = {} THEN 0 ELSE Add(f[First(s)], g[s \ {First(s)}])]
        BY <1>3, <2>1
    <2> HIDE DEF g
    <2> QED
        BY <2>2 DEF Adds, First
<1> DEFINE i == CHOOSE iter : Adds(f, S, iter)
<1>5. Adds(f, S, i)
    <2> HIDE DEF g
    <2> QED
        BY <1>4
<1>6. AddUp(f) = i[S]
    BY AddUpIsChosen DEF S
<1> HIDE DEF i
<1>7. i[S] = Wrap(Total(f, S))
    <2> DEFINE Bad == {U \in SUBSET S : i[U] # Wrap(Total(f, U))}
    <2>1. SUFFICES ASSUME Bad # {} PROVE FALSE
        OBVIOUS
    <2>2. PICK U \in Bad : \A V \in Bad : V \subseteq U => V = U
        <3>1. Bad \subseteq SUBSET S
            OBVIOUS
        <3> HIDE DEF Bad
        <3> QED
            BY <1>1, <2>1, <3>1, LeastSet
    <2>3. /\ U \in SUBSET S /\ i[U] # Wrap(Total(f, U))
          /\ i[U] = IF U = {} THEN 0 ELSE Add(f[First(U)], i[U \ {First(U)}])
          /\ Wrap(Total(f, U)) = IF U = {} THEN 0
                ELSE Add(f[First(U)], Wrap(Total(f, U \ {First(U)})))
        <3>1. U \in SUBSET S /\ i[U] # Wrap(Total(f, U))
            BY <2>2
        <3> HIDE DEF S, Bad
        <3>2. i[U] = IF U = {} THEN 0 ELSE Add(f[First(U)], i[U \ {First(U)}])
            BY <1>5, <3>1, AddsStep
        <3> QED
            BY <1>3, <3>1, <3>2
    <2>4. U # {} /\ First(U) \in U
        BY <2>3, FirstIsIn
    <2>5. i[U \ {First(U)}] = Wrap(Total(f, U \ {First(U)}))
        <3>1. U \ {First(U)} \in SUBSET S /\ U \ {First(U)} \notin Bad
            BY <2>2, <2>3, <2>4
        <3> QED
            BY <3>1
    <2> QED
        BY <2>3, <2>4, <2>5
<1> QED
    BY <1>6, <1>7 DEF S

-----------------------------------------------------------------------------
(* Texts *)

LEMMA BaseFacts ==
    /\ Base \in Nat /\ Base >= 2 /\ Hundred = Base * Base /\ Hundred \in Nat \ {0}
    /\ Missing \notin Int
<1>1. Base \in Nat \ {0, 1} /\ Missing \notin Int
    BY MonthsAssumption, Zenon DEF MonthsAssumption
<1>2. Base * Base \in Nat \ {0}
    BY <1>1
<1> QED
    BY <1>1, <1>2 DEF Hundred

\* A fraction is filled with zeros.
LEMMA PaddedFacts ==
    ASSUME NEW f \in Seq(Int), Len(f) \in 0..2
    PROVE  LET padded == f \o [i \in 1..2 - Len(f) |-> 0]
           IN  /\ padded[1] = IF Len(f) = 0 THEN 0 ELSE f[1]
               /\ padded[2] = IF Len(f) = 2 THEN f[2] ELSE 0
<1> DEFINE k == Len(f)
           m == 2 - k
           g == [i \in 1..m |-> 0]
           padded == f \o g
<1> HIDE DEF k
<1>1. k \in 0..2 /\ m \in 0..2 /\ Len(f) = k
    <2>1. k \in 0..2 /\ Len(f) = k
        BY Zenon DEF k
    <2>2. m \in 0..2
        BY <2>1
    <2> QED
        BY <2>1, <2>2
<1> HIDE DEF m
<1>2. g \in Seq(Int) /\ Len(g) = m
    BY <1>1
<1>3. \A i \in 1..m : g[i] = 0
    OBVIOUS
<1> HIDE DEF g
<1>4. \A i \in 1..k + m : padded[i] = IF i <= k THEN f[i] ELSE g[i - k]
    BY <1>1, <1>2, ConcatProperties
<1> HIDE DEF padded
<1>5. k + m = 2
    BY <1>1 DEF m
<1>6. padded[1] = IF k = 0 THEN 0 ELSE f[1]
    <2>1. padded[1] = IF 1 <= k THEN f[1] ELSE g[1 - k]
        BY <1>4, <1>5
    <2>2. k = 0 => 1 - k \in 1..m
        BY <1>1, <1>5
    <2> QED
        BY <1>1, <1>3, <2>1, <2>2
<1>7. padded[2] = IF k = 2 THEN f[2] ELSE 0
    <2>1. padded[2] = IF 2 <= k THEN f[2] ELSE g[2 - k]
        BY <1>4, <1>5
    <2>2. k # 2 => 2 - k \in 1..m
        BY <1>1, <1>5
    <2> QED
        BY <1>1, <1>3, <2>1, <2>2
<1> QED
    BY <1>6, <1>7, Zenon DEF padded, g, m, k

\* What is read from a text is an amount, and the same on both sides.
LEMMA ParseFacts ==
    ASSUME NEW text \in Texts, ParseMoney(text) # NotAnAmount
    PROVE  ParseMoney(text) \in 0..Max63 /\ DecimalInputToMinorUnits(text) = ParseMoney(text)
<1> DEFINE f == text.fraction
           w == text.whole
           fraction == CASE Len(f) = 0 -> 0
                         [] Len(f) = 1 -> f[1] * Base
                         [] OTHER      -> f[1] * Base + f[2]
           kopecks == w * Hundred + fraction
           padded == f \o [i \in 1..2 - Len(f) |-> 0]
<1>1. /\ ParseMoney(text) = IF text.signed \/ w = Missing \/ Len(f) > 2 THEN NotAnAmount
                            ELSE IF kopecks > Max63 THEN NotAnAmount
                            ELSE kopecks
      /\ DecimalInputToMinorUnits(text) =
            IF text.signed \/ w = Missing \/ Len(f) > 2 THEN NotAnAmount
            ELSE w * Hundred + padded[1] * Base + padded[2]
    BY Zenon DEF ParseMoney, DecimalInputToMinorUnits
<1>2. /\ ~ (text.signed \/ w = Missing \/ Len(f) > 2) /\ ~ (kopecks > Max63)
      /\ ParseMoney(text) = kopecks
      /\ DecimalInputToMinorUnits(text) = w * Hundred + padded[1] * Base + padded[2]
    BY <1>1
<1>3. w \in Nat \cup {Missing} /\ f \in Seq(0..Base - 1)
    BY DEF Texts
<1> HIDE DEF f, w
<1>4. w \in Nat /\ Len(f) \in 0..2
    <2>1. w \in Nat
        BY <1>2, <1>3
    <2>2. Len(f) \in Nat
        BY <1>3, LenProperties
    <2>3. ~ (Len(f) > 2)
        BY <1>2
    <2> DEFINE n == Len(f)
    <2> HIDE DEF n
    <2>4. n \in Nat /\ ~ (n > 2)
        BY <2>2, <2>3, Zenon DEF n
    <2>5. n \in 0..2
        BY <2>4
    <2> QED
        BY <2>1, <2>5, Zenon DEF n
<1>5. /\ Base \in Nat /\ Hundred \in Nat /\ Max63 \in Nat
    BY BaseFacts, RangeFacts
<1>6. w * Hundred \in Nat
    BY <1>4, <1>5
<1>10. /\ padded[1] = IF Len(f) = 0 THEN 0 ELSE f[1]
       /\ padded[2] = IF Len(f) = 2 THEN f[2] ELSE 0
    <2>1. f \in Seq(Int) /\ Len(f) \in 0..2
        <3>1. 0..Base - 1 \subseteq Int
            BY <1>5
        <3>2. f \in Seq(Int)
            BY <1>3, <3>1, SeqMonotonic
        <3> QED
            BY <1>4, <3>2, Zenon
    <2> QED
        BY <2>1, PaddedFacts
<1> HIDE DEF padded
<1> DEFINE a == w * Hundred
<1> HIDE DEF a
<1>7. CASE Len(f) = 0
    <2>1. fraction = 0 /\ padded[1] = 0 /\ padded[2] = 0
        BY <1>7, <1>10
    <2> HIDE DEF fraction
    <2>2. kopecks = a /\ DecimalInputToMinorUnits(text) = a
        BY <1>2, <1>5, <1>6, <2>1 DEF a
    <2> QED
        BY <1>2, <1>5, <1>6, <2>2 DEF a
<1>8. CASE Len(f) = 1
    <2>1. fraction = f[1] * Base /\ padded[1] = f[1] /\ padded[2] = 0 /\ f[1] \in Nat
        <3>1. f[1] \in 0..Base - 1
            <4>1. 1 \in 1..Len(f)
                BY <1>8
            <4> QED
                BY <1>3, <4>1, ElementOfSeq
        <3> QED
            BY <1>5, <1>8, <1>10, <3>1
    <2>2. f[1] * Base \in Nat
        BY <1>5, <2>1
    <2> DEFINE b == f[1] * Base
    <2> HIDE DEF fraction, b
    <2>3. kopecks = a + b /\ DecimalInputToMinorUnits(text) = a + b
        BY <1>2, <1>5, <1>6, <2>1, <2>2 DEF a, b
    <2> QED
        BY <1>2, <1>5, <1>6, <2>2, <2>3 DEF a, b
<1>9. CASE Len(f) = 2
    <2>1. /\ fraction = f[1] * Base + f[2] /\ padded[1] = f[1] /\ padded[2] = f[2]
          /\ f[1] \in Nat /\ f[2] \in Nat
        <3>1. f[1] \in 0..Base - 1 /\ f[2] \in 0..Base - 1
            <4>1. 1 \in 1..Len(f) /\ 2 \in 1..Len(f)
                BY <1>9
            <4> QED
                BY <1>3, <4>1, ElementOfSeq
        <3> QED
            BY <1>5, <1>9, <1>10, <3>1
    <2>2. f[1] * Base \in Nat
        BY <1>5, <2>1
    <2> DEFINE b == f[1] * Base
    <2> HIDE DEF fraction, b
    <2>3. kopecks = a + b + f[2] /\ DecimalInputToMinorUnits(text) = a + b + f[2]
        BY <1>2, <1>5, <1>6, <2>1, <2>2, SMTT(30) DEF a, b
    <2> HIDE DEF kopecks
    <2>4. a \in Nat /\ b \in Nat
        BY <1>6, <2>2 DEF a, b
    <2> QED
        BY <1>2, <1>5, <2>1, <2>3, <2>4, SMTT(30)
<1> QED
    BY <1>4, <1>7, <1>8, <1>9

\* An amount that is shown is read as itself.
LEMMA ReadBack ==
    ASSUME NEW amount \in 0..Max63
    PROVE  ReadsAs(amount, amount)
<1> DEFINE q == amount \div Hundred
           r == amount % Hundred
           d == r \div Base
           e == amount % Base
           text == Decimal(amount)
<1>1. /\ Base \in Nat \ {0} /\ Base >= 2 /\ Hundred = Base * Base /\ Hundred \in Nat \ {0}
      /\ Missing \notin Int /\ Max63 \in Nat /\ amount \in Int /\ amount >= 0
      /\ amount <= Max63
    BY BaseFacts, RangeFacts
<1>2. q \in Int /\ r \in 0..Hundred - 1 /\ amount = Hundred * q + r
    <2>1. amount \in Int /\ Hundred \in Nat \ {0}
        BY <1>1
    <2> QED
        BY <2>1, Division
<1>3. d \in Int /\ r % Base \in 0..Base - 1 /\ r = Base * d + (r % Base)
    <2>1. r \in Int
        BY <1>1, <1>2
    <2> HIDE DEF r
    <2>2. Base \in Nat \ {0}
        BY <1>1
    <2> QED
        BY <2>1, <2>2, Division
<1>4. e = r % Base
    <2> DEFINE t == r % Base
               p == Base * q + d
    <2>1. t \in 0..Base - 1 /\ r = Base * d + t
        BY <1>3
    <2> HIDE DEF q, r, d, t
    <2>2. p \in Int /\ Base * p = Base * (Base * q) + Base * d
        BY <1>1, <1>2, <1>3
    <2>3. Base * (Base * q) = Hundred * q
        BY <1>1, <1>2
    <2>4. Hundred * q \in Int /\ Base * d \in Int
        BY <1>1, <1>2, <1>3
    <2>5. amount = Base * p + t
        BY <1>1, <1>2, <2>1, <2>2, <2>3, <2>4
    <2> HIDE DEF p
    <2>6. t = amount % Base
        BY <1>1, <2>1, <2>2, <2>5, DivisionUnique
    <2> QED
        BY <2>6 DEF t
<1>5. text = [signed |-> FALSE, whole |-> q, fraction |-> <<d, e>>]
    BY DEF Decimal, Text
<1>6. amount = q * Hundred + d * Base + e /\ amount = q * Hundred + (d * Base + e)
    <2>1. e \in Int
        BY <1>1, <1>3, <1>4
    <2>2. r = Base * d + e
        BY <1>3, <1>4
    <2> HIDE DEF q, r, d, e
    <2>3. Hundred * q = q * Hundred /\ Base * d = d * Base
        BY <1>1, <1>2, <1>3
    <2>4. Hundred * q \in Int /\ Base * d \in Int
        BY <1>1, <1>2, <1>3
    <2> QED
        BY <1>1, <1>2, <2>1, <2>2, <2>3, <2>4
<1>7. q # Missing
    BY <1>1, <1>2
<1> HIDE DEF q, r, d, e, text
<1>8. ParseMoney(text) = amount
    <2> DEFINE f == text.fraction
               fraction == CASE Len(f) = 0 -> 0
                             [] Len(f) = 1 -> f[1] * Base
                             [] OTHER      -> f[1] * Base + f[2]
               kopecks == text.whole * Hundred + fraction
    <2>1. ParseMoney(text) =
             IF text.signed \/ text.whole = Missing \/ Len(f) > 2 THEN NotAnAmount
             ELSE IF kopecks > Max63 THEN NotAnAmount
             ELSE kopecks
        BY Zenon DEF ParseMoney
    <2>2. text.signed = FALSE /\ text.whole = q /\ f = <<d, e>>
        BY <1>5
    <2>3. Len(f) = 2 /\ f[1] = d /\ f[2] = e
        BY <2>2
    <2>4. fraction = d * Base + e
        BY <2>3
    <2>5. kopecks = amount
        BY <1>6, <2>2, <2>4
    <2> HIDE DEF f, fraction, kopecks
    <2> QED
        BY <1>1, <1>7, <2>1, <2>2, <2>3, <2>5
<1>9. DecimalInputToMinorUnits(text) = amount
    <2> DEFINE f == text.fraction
               padded == f \o [i \in 1..2 - Len(f) |-> 0]
    <2>1. DecimalInputToMinorUnits(text) =
             IF text.signed \/ text.whole = Missing \/ Len(f) > 2 THEN NotAnAmount
             ELSE text.whole * Hundred + padded[1] * Base + padded[2]
        BY Zenon DEF DecimalInputToMinorUnits
    <2>2. text.signed = FALSE /\ text.whole = q /\ f = <<d, e>>
        BY <1>5
    <2>3. Len(f) = 2 /\ f[1] = d /\ f[2] = e
        BY <2>2
    <2>4. padded[1] = d /\ padded[2] = e
        <3>1. f \in Seq(Int) /\ Len(f) \in 0..2
            <4>1. d \in Int /\ e \in Int
                BY <1>1, <1>3, <1>4
            <4>2. f \in Seq(Int)
                BY <2>2, <4>1
            <4>3. 2 \in 0..2
                OBVIOUS
            <4> QED
                BY <2>3, <4>2, <4>3, Zenon
        <3> HIDE DEF f
        <3> QED
            <4>1. /\ padded[1] = IF Len(f) = 0 THEN 0 ELSE f[1]
                  /\ padded[2] = IF Len(f) = 2 THEN f[2] ELSE 0
                BY <3>1, PaddedFacts
            <4> HIDE DEF padded
            <4> QED
                BY <2>3, <4>1
    <2> HIDE DEF f, padded
    <2> QED
        BY <1>6, <1>7, <2>1, <2>2, <2>3, <2>4
<1> QED
    BY <1>8, <1>9 DEF ReadsAs, text

-----------------------------------------------------------------------------
(* The months of a year *)

Incomes == [salary : 0..Max63, bonus : 0..Max63, total : 0..Max63]

\* What is stored: a month that is empty has no row of income.
MonthsInv ==
    /\ expenses \in [MonthNumbers -> [Categories -> 0..Max63] \cup {Missing}]
    /\ income \in [MonthNumbers -> (Incomes \ {NoIncome}) \cup {Missing}]

LEMMA MonthConstants ==
    /\ IsFiniteSet(MonthNumbers) /\ IsFiniteSet(Categories)
    /\ Spending \subseteq Categories /\ IsFiniteSet(Spending)
    /\ Missing \notin [Categories -> 0..Max63] /\ Missing \notin Incomes
    /\ NoExpenses \in [Categories -> 0..Max63] /\ NoIncome \in Incomes
<1>1. /\ IsFiniteSet(MonthNumbers) /\ IsFiniteSet(Categories) /\ Spending \subseteq Categories
      /\ Missing \notin [Categories -> 0..Max63] /\ Missing \notin Incomes
    BY MonthsAssumption, Zenon DEF MonthsAssumption, Incomes
<1>2. IsFiniteSet(Spending)
    BY <1>1, FS_Subset
<1>3. 0 \in 0..Max63
    BY RangeFacts
<1>4. NoExpenses \in [Categories -> 0..Max63]
    BY <1>3 DEF NoExpenses
<1>5. NoIncome \in Incomes
    BY <1>3 DEF NoIncome, Incomes
<1> QED
    BY <1>1, <1>2, <1>4, <1>5

\* A save that is not refused stores the amounts that were typed.
LEMMA ExpenseFacts ==
    ASSUME NEW texts \in ExpenseInputs, ~ Refused(Parsed(texts))
    PROVE  LET actual == NewMonthlyExpenseActual(Parsed(texts))
               typed == [c \in DOMAIN texts |-> DecimalInputToMinorUnits(texts[c])]
           IN  /\ actual \in [Categories -> 0..Max63]
               /\ DOMAIN typed \subseteq Categories
               /\ \A c \in Categories :
                     actual[c] = IF c \in DOMAIN typed THEN typed[c] ELSE 0
<1> DEFINE parsed == Parsed(texts)
           actual == NewMonthlyExpenseActual(parsed)
           typed == [c \in DOMAIN texts |-> DecimalInputToMinorUnits(texts[c])]
<1>1. DOMAIN texts \subseteq Categories /\ \A c \in DOMAIN texts : texts[c] \in Texts
    BY MonthsAssumption, Zenon DEF MonthsAssumption
<1>2. /\ DOMAIN parsed = DOMAIN texts
      /\ \A c \in DOMAIN texts : parsed[c] = ParseMoney(texts[c])
    BY DEF Parsed
<1>3. \A c \in DOMAIN texts : ParseMoney(texts[c]) # NotAnAmount
    BY <1>2 DEF Refused
<1>4. \A c \in DOMAIN texts : parsed[c] \in 0..Max63 /\ typed[c] = parsed[c]
    BY <1>1, <1>2, <1>3, ParseFacts
<1> HIDE DEF parsed
<1>5. actual = [c \in Categories |-> IF c \in DOMAIN parsed THEN parsed[c] ELSE 0]
    BY DEF NewMonthlyExpenseActual
<1>6. DOMAIN typed = DOMAIN texts
    OBVIOUS
<1> HIDE DEF typed
<1>7. 0 \in 0..Max63
    BY RangeFacts
<1> QED
    BY <1>1, <1>2, <1>4, <1>5, <1>6, <1>7 DEF parsed, typed

LEMMA IncomeFacts ==
    ASSUME NEW texts \in IncomeInputs, ~ Refused(Parsed(texts))
    PROVE  /\ Parsed(texts) \in Incomes
           /\ DOMAIN texts = {"salary", "bonus", "total"}
           /\ \A f \in DOMAIN texts :
                Parsed(texts)[f] = DecimalInputToMinorUnits(texts[f])
<1> DEFINE parsed == Parsed(texts)
<1>1. /\ DOMAIN texts = {"salary", "bonus", "total"}
      /\ \A f \in DOMAIN texts : texts[f] \in Texts
    BY MonthsAssumption, Zenon DEF MonthsAssumption
<1>2. parsed = [f \in DOMAIN texts |-> ParseMoney(texts[f])]
    BY DEF Parsed
<1>3. \A f \in DOMAIN texts : ParseMoney(texts[f]) # NotAnAmount
    BY <1>2 DEF Refused
<1>4. \A f \in DOMAIN texts : /\ parsed[f] \in 0..Max63
                              /\ DecimalInputToMinorUnits(texts[f]) = parsed[f]
    BY <1>1, <1>2, <1>3, ParseFacts
<1>5. parsed \in Incomes
    <2>1. DOMAIN parsed = {"salary", "bonus", "total"}
        BY <1>1, <1>2
    <2>2. parsed = [salary |-> parsed.salary, bonus |-> parsed.bonus, total |-> parsed.total]
        BY <1>1, <1>2
    <2>3. parsed.salary \in 0..Max63 /\ parsed.bonus \in 0..Max63 /\ parsed.total \in 0..Max63
        BY <1>1, <1>4
    <2> HIDE DEF parsed
    <2> QED
        BY <2>2, <2>3 DEF Incomes
<1> QED
    BY <1>1, <1>4, <1>5

LEMMA MonthsInvInitially == MonthsInit => MonthsInv
BY DEF MonthsInit, MonthsInv

LEMMA MonthsInvKept == MonthsInv /\ [MonthsNext]_monthVars => MonthsInv'
<1> SUFFICES ASSUME MonthsInv, [MonthsNext]_monthVars
             PROVE  MonthsInv'
    OBVIOUS
<1>1. CASE \E m \in MonthNumbers, texts \in ExpenseInputs : SaveExpense(m, texts)
    <2>1. PICK m \in MonthNumbers, texts \in ExpenseInputs : SaveExpense(m, texts)
        BY <1>1
    <2> DEFINE actual == NewMonthlyExpenseActual(Parsed(texts))
    <2>2. /\ ~ Refused(Parsed(texts)) /\ income' = income
          /\ \/ expenses' = [expenses EXCEPT ![m] = Missing]
             \/ expenses' = [expenses EXCEPT ![m] = actual]
        BY <2>1 DEF SaveExpense, UpsertExpense, DeleteExpense
    <2>3. actual \in [Categories -> 0..Max63]
        BY <2>2, ExpenseFacts
    <2> HIDE DEF actual
    <2> QED
        BY <2>2, <2>3 DEF MonthsInv
<1>2. CASE \E m \in MonthNumbers, texts \in IncomeInputs : SaveIncome(m, texts)
    <2>1. PICK m \in MonthNumbers, texts \in IncomeInputs : SaveIncome(m, texts)
        BY <1>2
    <2> DEFINE actual == Parsed(texts)
    <2>2. /\ ~ Refused(actual) /\ expenses' = expenses
          /\ \/ income' = [income EXCEPT ![m] = Missing]
             \/ actual # NoIncome /\ income' = [income EXCEPT ![m] = actual]
        BY <2>1 DEF SaveIncome, UpsertIncome, DeleteIncome, IncomeIsZero
    <2>3. actual \in Incomes
        BY <2>2, IncomeFacts
    <2> HIDE DEF actual
    <2> QED
        BY <2>2, <2>3 DEF MonthsInv
<1>3. CASE UNCHANGED monthVars
    BY <1>3 DEF MonthsInv, monthVars
<1>4. CASE \E texts \in ExpenseInputs \cup IncomeInputs : RefuseMonth(texts)
    BY <1>3, <1>4 DEF RefuseMonth
<1> QED
    BY <1>1, <1>2, <1>3, <1>4 DEF MonthsNext

LEMMA MonthsInvariant == MonthsSpec => []MonthsInv
BY MonthsInvInitially, MonthsInvKept, PTL DEF MonthsSpec

\* What the lists show of a month is in range.
LEMMA ShownFacts ==
    ASSUME MonthsInv, NEW m \in MonthNumbers
    PROVE  /\ ExpenseOf(m) \in [Categories -> 0..Max63] /\ IncomeOf(m) \in Incomes
           /\ income[m] = Missing <=> IncomeOf(m) = NoIncome
<1>1. expenses[m] \in [Categories -> 0..Max63] \cup {Missing}
    BY DEF MonthsInv
<1>2. income[m] \in (Incomes \ {NoIncome}) \cup {Missing}
    BY DEF MonthsInv
<1> QED
    BY <1>1, <1>2, MonthConstants DEF ExpenseOf, IncomeOf

LEMMA MonthsTyped == MonthsInv => MonthsTypeOK
<1> SUFFICES ASSUME MonthsInv, NEW m \in MonthNumbers
             PROVE  /\ \A c \in Categories : ExpenseOf(m)[c] \in 0..Max63
                    /\ \A f \in {"salary", "bonus", "total"} : IncomeOf(m)[f] \in 0..Max63
    BY DEF MonthsTypeOK
<1>1. ExpenseOf(m) \in [Categories -> 0..Max63] /\ IncomeOf(m) \in Incomes
    BY ShownFacts
<1> QED
    BY <1>1 DEF Incomes

\* The folds of the properties are sums.
LEMMA SumIsTotal ==
    ASSUME NEW f
    PROVE  Sum(f) = Total(f, DOMAIN f) /\ FoldFunction(+, 0, f) = Total(f, DOMAIN f)
BY Zenon DEF Sum, Total, SumFunctionOnSet, FoldFunction, FoldFunctionOnSet, MapThenFoldSet

LEMMA WrapZero ==
    ASSUME NEW x \in Int
    PROVE  Wrap(x) = 0 <=> x % Modulus = 0
<1>1. Max63 \in Nat /\ Modulus \in Nat \ {0} /\ 0 \in -Max63 - 1..Max63
    BY RangeFacts
<1>2. ASSUME Wrap(x) = 0
      PROVE  x % Modulus = 0
    <2>1. PICK k \in Int : x = Wrap(x) + k * Modulus
        BY WrapFacts
    <2> DEFINE n == Modulus
    <2>2. n \in Nat \ {0} /\ 0 \in 0..n - 1
        BY <1>1
    <2>3. x = 0 + k * n
        BY <1>2, <2>1
    <2> HIDE DEF n
    <2>4. x = n * k + 0
        BY <2>2, <2>3
    <2>5. 0 = x % n
        BY <2>2, <2>4, DivisionUnique
    <2> QED
        BY <2>5 DEF n
<1>3. ASSUME x % Modulus = 0
      PROVE  Wrap(x) = 0
    <2> DEFINE n == Modulus
               q == x \div n
    <2>1. q \in Int /\ x = n * q + (x % n)
        BY <1>1, Division
    <2>2. n \in Nat
        BY <1>1
    <2> HIDE DEF q
    <2>3. x = n * q + 0
        BY <1>3, <2>1
    <2>4. x = 0 + q * n
        <3> HIDE DEF n
        <3> QED
            BY <2>1, <2>2, <2>3
    <2> QED
        BY <1>1, <2>1, <2>4, WrapFacts
<1> QED
    BY <1>2, <1>3

\* A save stores the amounts that were typed, and both sides read them back from what
\* is shown; only a month whose amounts add up to a multiple of the range is lost.
THEOREM TypedStaysTyped == MonthsSpec => TypedIsStored
<1>1. ASSUME MonthsInv, NEW m \in MonthNumbers
      PROVE  ExpenseStored(m)
    <2> SUFFICES ASSUME NEW texts \in ExpenseInputs, SaveExpense(m, texts)
                 PROVE  LET typed == [c \in DOMAIN texts |-> DecimalInputToMinorUnits(texts[c])]
                            sum == FoldFunction(+, 0, typed)
                        IN  IF sum > 0 /\ sum % Modulus = 0 THEN ExpenseOf(m)' = NoExpenses
                            ELSE \A c \in Categories :
                                    ReadsAs(ExpenseOf(m)'[c],
                                            IF c \in DOMAIN typed THEN typed[c] ELSE 0)
        BY DEF ExpenseStored
    <2> DEFINE actual == NewMonthlyExpenseActual(Parsed(texts))
               typed == [c \in DOMAIN texts |-> DecimalInputToMinorUnits(texts[c])]
               sum == FoldFunction(+, 0, typed)
               shown == ExpenseOf(m)'
    <2>1. /\ ~ Refused(Parsed(texts))
          /\ IF ExpenseIsZero(actual) THEN expenses' = [expenses EXCEPT ![m] = Missing]
             ELSE expenses' = [expenses EXCEPT ![m] = actual]
        BY DEF SaveExpense, UpsertExpense, DeleteExpense
    <2>2. /\ actual \in [Categories -> 0..Max63]
          /\ DOMAIN typed \subseteq Categories
          /\ \A c \in Categories :
                actual[c] = IF c \in DOMAIN typed THEN typed[c] ELSE 0
        BY <2>1, ExpenseFacts
    <2>3. sum = Total(typed, DOMAIN typed)
        <3> HIDE DEF typed
        <3> QED
            BY SumIsTotal
    <2>4. shown = IF ExpenseIsZero(actual) THEN NoExpenses ELSE actual
        <3>1. expenses'[m] = IF ExpenseIsZero(actual) THEN Missing ELSE actual
            <4> HIDE DEF actual
            <4> QED
                BY <1>1, <2>1 DEF MonthsInv
        <3>2. actual # Missing
            BY <2>2, MonthConstants
        <3>3. shown = IF expenses'[m] = Missing THEN NoExpenses ELSE expenses'[m]
            BY DEF ExpenseOf
        <3> HIDE DEF actual, shown
        <3> QED
            BY <3>1, <3>2, <3>3
    <2> HIDE DEF actual, typed, sum, shown
    <2>5. Max63 \in Nat /\ IsFiniteSet(Categories)
        BY RangeFacts, MonthConstants
    <2>6. DOMAIN actual = Categories /\ \A c \in Categories : actual[c] \in Nat
        BY <2>2, <2>5
    <2>7. sum = Total(actual, Categories)
        <3>1. DOMAIN typed \in SUBSET Categories
            BY <2>2
        <3> QED
            BY <2>2, <2>3, <2>5, <2>6, <3>1, TotalExtended
    <2>8. sum \in Nat /\ \A c \in Categories : actual[c] <= sum
        BY <2>5, <2>6, <2>7, TotalBounds
    <2>9. ExpenseIsZero(actual) <=> sum % Modulus = 0
        <3>1. AddUp(actual) = Wrap(sum)
            BY <2>5, <2>6, <2>7, AddUpIsWrap
        <3> QED
            BY <2>8, <3>1, WrapZero DEF ExpenseIsZero
    <2>10. CASE sum > 0 /\ sum % Modulus = 0
        BY <2>4, <2>9, <2>10 DEF shown, sum, typed
    <2>11. CASE ~ (sum > 0 /\ sum % Modulus = 0)
        <3>1. \A c \in Categories : shown[c] = actual[c]
            <4>1. CASE sum = 0
                <5>1. \A c \in Categories : actual[c] = 0
                    BY <2>6, <2>8, <4>1
                <5>2. sum % Modulus = 0
                    BY <4>1, RangeFacts
                <5> QED
                    BY <2>4, <2>9, <5>1, <5>2 DEF NoExpenses
            <4>2. CASE sum # 0
                BY <2>4, <2>8, <2>9, <2>11, <4>2
            <4> QED
                BY <4>1, <4>2
        <3>2. \A c \in Categories :
                 ReadsAs(shown[c], IF c \in DOMAIN typed THEN typed[c] ELSE 0)
            BY <2>2, <3>1, ReadBack
        <3> QED
            BY <2>11, <3>2 DEF shown, sum, typed
    <2> QED
        BY <2>10, <2>11
<1>2. ASSUME MonthsInv, NEW m \in MonthNumbers
      PROVE  IncomeStored(m)
    <2> SUFFICES ASSUME NEW texts \in IncomeInputs, SaveIncome(m, texts),
                        NEW f \in DOMAIN texts
                 PROVE  ReadsAs(IncomeOf(m)'[f], DecimalInputToMinorUnits(texts[f]))
        BY DEF IncomeStored
    <2> DEFINE actual == Parsed(texts)
    <2>1. /\ ~ Refused(actual)
          /\ IF actual = NoIncome THEN income' = [income EXCEPT ![m] = Missing]
             ELSE income' = [income EXCEPT ![m] = actual]
        BY DEF SaveIncome, UpsertIncome, DeleteIncome, IncomeIsZero
    <2>2. /\ actual \in Incomes /\ f \in {"salary", "bonus", "total"}
          /\ actual[f] = DecimalInputToMinorUnits(texts[f])
        BY <2>1, IncomeFacts
    <2> HIDE DEF actual
    <2>3. income'[m] = IF actual = NoIncome THEN Missing ELSE actual
        BY <1>2, <2>1 DEF MonthsInv
    <2>4. actual # Missing
        BY <2>2, MonthConstants
    <2>5. IncomeOf(m)' = actual
        BY <2>3, <2>4 DEF IncomeOf
    <2>6. actual[f] \in 0..Max63
        BY <2>2 DEF Incomes
    <2> QED
        BY <2>2, <2>5, <2>6, ReadBack
<1>3. MonthsInv /\ [MonthsNext]_monthVars
      => [\A m \in MonthNumbers : ExpenseStored(m) /\ IncomeStored(m)]_monthVars
    BY <1>1, <1>2
<1> QED
    BY <1>3, MonthsInvariant, PTL DEF MonthsSpec, TypedIsStored

\* Adding up the totals of the rows of a table, in 64 bits.
LEMMA AddUpOfRows ==
    ASSUME NEW F, NEW S, NEW T, IsFiniteSet(S), IsFiniteSet(T),
           \A x \in S : \A y \in T : F[x][y] \in Int
    PROVE  AddUp([x \in S |-> AddUp([y \in T |-> F[x][y]])]) =
           Wrap(Total([x \in S |-> Total([y \in T |-> F[x][y]], T)], S))
<1> DEFINE line(x) == [y \in T |-> F[x][y]]
           added  == [x \in S |-> AddUp(line(x))]
           summed == [x \in S |-> Total(line(x), T)]
<1>1. \A x \in S : DOMAIN line(x) = T /\ \A y \in T : line(x)[y] \in Int
    OBVIOUS
<1> HIDE DEF line
<1>2. \A x \in S : AddUp(line(x)) = Wrap(Total(line(x), T)) /\ Total(line(x), T) \in Int
    <2> SUFFICES ASSUME NEW x \in S
                 PROVE  AddUp(line(x)) = Wrap(Total(line(x), T)) /\ Total(line(x), T) \in Int
        OBVIOUS
    <2> DEFINE r == line(x)
    <2>1. DOMAIN r = T /\ \A y \in T : r[y] \in Int
        BY <1>1
    <2> HIDE DEF r
    <2>2. AddUp(r) = Wrap(Total(r, T)) /\ Total(r, T) \in Int
        BY <2>1, AddUpIsWrap, TotalType
    <2> QED
        BY <2>2 DEF r
<1>3. /\ DOMAIN added = S
      /\ \A x \in S : summed[x] \in Int /\ added[x] = Wrap(summed[x])
    BY <1>2
<1> HIDE DEF added, summed
<1>4. \A x \in S : added[x] \in Int
    <2> SUFFICES ASSUME NEW x \in S PROVE added[x] \in Int
        OBVIOUS
    <2>1. summed[x] \in Int /\ added[x] = Wrap(summed[x])
        BY <1>3
    <2>2. Wrap(summed[x]) \in -Max63 - 1..Max63
        BY <2>1, WrapFacts
    <2> QED
        BY <2>1, <2>2, RangeFacts
<1>5. AddUp(added) = Wrap(Total(added, S))
    BY <1>3, <1>4, AddUpIsWrap
<1>6. Wrap(Total(added, S)) = Wrap(Total(summed, S))
    BY <1>3, TotalWrapped
<1> QED
    BY <1>5, <1>6, Zenon DEF added, summed, line

\* The total of the rows is that of the columns, whether or not a sum leaves the range.
LEMMA TableAddsUp ==
    ASSUME NEW F, NEW S, NEW T, IsFiniteSet(S), IsFiniteSet(T),
           \A x \in S : \A y \in T : F[x][y] \in Int
    PROVE  AddUp([x \in S |-> AddUp([y \in T |-> F[x][y]])]) =
           AddUp([y \in T |-> AddUp([x \in S |-> F[x][y]])])
<1> DEFINE G == [y \in T |-> [x \in S |-> F[x][y]]]
           H == [x \in S |-> [y \in T |-> F[x][y]]]
<1>1. AddUp([x \in S |-> AddUp([y \in T |-> F[x][y]])]) =
      Wrap(Total([x \in S |-> Total([y \in T |-> F[x][y]], T)], S))
    BY AddUpOfRows
<1>2. AddUp([y \in T |-> AddUp([x \in S |-> F[x][y]])]) =
      Wrap(Total([y \in T |-> Total([x \in S |-> F[x][y]], S)], T))
    <2>1. \A y \in T : \A x \in S : G[y][x] = F[x][y]
        OBVIOUS
    <2> HIDE DEF G
    <2>2. \A y \in T : \A x \in S : G[y][x] \in Int
        BY <2>1
    <2>3. AddUp([y \in T |-> AddUp([x \in S |-> G[y][x]])]) =
          Wrap(Total([y \in T |-> Total([x \in S |-> G[y][x]], S)], T))
        BY <2>2, AddUpOfRows
    <2>4. \A y \in T : [x \in S |-> G[y][x]] = [x \in S |-> F[x][y]]
        BY <2>1
    <2>5. /\ [y \in T |-> AddUp([x \in S |-> G[y][x]])] =
             [y \in T |-> AddUp([x \in S |-> F[x][y]])]
          /\ [y \in T |-> Total([x \in S |-> G[y][x]], S)] =
             [y \in T |-> Total([x \in S |-> F[x][y]], S)]
        BY <2>4
    <2> QED
        BY <2>3, <2>5
<1>3. Total([x \in S |-> Total([y \in T |-> F[x][y]], T)], S) =
      Total([y \in T |-> Total([x \in S |-> F[x][y]], S)], T)
    <2>1. \A x \in S : H[x] = [y \in T |-> F[x][y]]
        OBVIOUS
    <2>2. \A x \in S : \A y \in T : H[x][y] = F[x][y]
        BY <2>1
    <2> HIDE DEF H
    <2>3. \A x \in S : \A y \in T : H[x][y] \in Int
        BY <2>2
    <2>4. Total([x \in S |-> Total(H[x], T)], S) =
          Total([y \in T |-> Total([x \in S |-> H[x][y]], S)], T)
        BY <2>3, TotalOfTable
    <2>5. [x \in S |-> Total(H[x], T)] = [x \in S |-> Total([y \in T |-> F[x][y]], T)]
        BY <2>1
    <2>6. \A y \in T : [x \in S |-> H[x][y]] = [x \in S |-> F[x][y]]
        BY <2>2
    <2>7. [y \in T |-> Total([x \in S |-> H[x][y]], S)] =
          [y \in T |-> Total([x \in S |-> F[x][y]], S)]
        BY <2>6
    <2> QED
        BY <2>4, <2>5, <2>7
<1> QED
    BY <1>1, <1>2, <1>3

\* The average of the code is the quotient rounded half up.
LEMMA AverageFacts ==
    ASSUME NEW total \in Nat, NEW count \in Nat \ {0}
    PROVE  LET slip == 2 * (AverageMoney(total, count) * count - total)
           IN  -count < slip /\ slip <= count
<1> DEFINE q == total \div count
           r == total % count
           a == AverageMoney(total, count)
<1>1. q \in Int /\ r \in 0..count - 1 /\ total = count * q + r
    BY Division
<1>2. a = IF total = 0 THEN 0 ELSE IF r * 2 >= count THEN q + 1 ELSE q
    <2>1. ~ (count <= 0) /\ ~ (total < 0)
        OBVIOUS
    <2> QED
        BY <2>1 DEF AverageMoney
<1> HIDE DEF q, r, a
<1>3. CASE total = 0
    <2>1. a * count - total = 0
        BY <1>2, <1>3
    <2> QED
        BY <2>1 DEF a
<1>4. CASE total # 0 /\ r * 2 >= count
    <2>1. a * count = q * count + count
        BY <1>1, <1>2, <1>4
    <2>2. q * count = count * q /\ count * q \in Int
        BY <1>1
    <2>3. a * count - total = count - r
        BY <1>1, <2>1, <2>2
    <2> QED
        BY <1>1, <1>4, <2>3 DEF a
<1>5. CASE total # 0 /\ ~ (r * 2 >= count)
    <2>1. a * count = q * count
        BY <1>2, <1>5
    <2>2. q * count = count * q /\ count * q \in Int
        BY <1>1
    <2>3. a * count - total = -r
        BY <1>1, <2>1, <2>2
    <2> QED
        BY <1>1, <1>5, <2>3 DEF a
<1> QED
    BY <1>3, <1>4, <1>5

LEMMA ListsAgree == MonthsInv => TotalsAgree
<1> SUFFICES ASSUME MonthsInv
             PROVE  TotalsAgree
    OBVIOUS
<1> DEFINE listed == ListExpenses
           earned == [m \in MonthNumbers |-> IncomeOf(m).total]
           months == {m \in MonthNumbers : income[m] # Missing}
           filled == Cardinality(months)
           F == [m \in MonthNumbers |-> ExpenseOf(m)]
           slip == 2 * (ListIncome.average * filled - Sum(earned))
<1>1. /\ IsFiniteSet(MonthNumbers) /\ IsFiniteSet(Categories) /\ IsFiniteSet(Spending)
      /\ Spending \subseteq Categories /\ Max63 \in Nat
    BY MonthConstants, RangeFacts
<1>2. \A m \in MonthNumbers : /\ ExpenseOf(m) \in [Categories -> 0..Max63]
                              /\ IncomeOf(m) \in Incomes
                              /\ income[m] = Missing <=> IncomeOf(m) = NoIncome
    BY ShownFacts
<1>3. /\ listed.annual = AddUp([m \in MonthNumbers |-> AddUp(ExpenseOf(m))])
      /\ listed.spending = AddUp([m \in MonthNumbers |->
                                    AddUp([c \in Spending |-> ExpenseOf(m)[c]])])
      /\ listed.byCategory = [c \in Categories |->
                                AddUp([m \in MonthNumbers |-> ExpenseOf(m)[c]])]
    BY DEF ListExpenses
<1>4. \A m \in MonthNumbers : F[m] = ExpenseOf(m)
    OBVIOUS
<1> HIDE DEF F
<1>5. \A m \in MonthNumbers : \A c \in Categories : F[m][c] \in Int
    <2>1. \A m \in MonthNumbers : \A c \in Categories : F[m][c] \in 0..Max63
        BY <1>2, <1>4
    <2> QED
        BY <1>1, <2>1
<1>6. listed.annual = AddUp(listed.byCategory)
    <2>1. AddUp([m \in MonthNumbers |-> AddUp([c \in Categories |-> F[m][c]])]) =
          AddUp([c \in Categories |-> AddUp([m \in MonthNumbers |-> F[m][c]])])
        BY <1>1, <1>5, TableAddsUp, ZenonT(40)
    <2>2. \A m \in MonthNumbers : [c \in Categories |-> F[m][c]] = ExpenseOf(m)
        BY <1>2, <1>4
    <2>3. [m \in MonthNumbers |-> AddUp([c \in Categories |-> F[m][c]])] =
          [m \in MonthNumbers |-> AddUp(ExpenseOf(m))]
        BY <2>2
    <2>4. \A c \in Categories : [m \in MonthNumbers |-> F[m][c]] =
                                [m \in MonthNumbers |-> ExpenseOf(m)[c]]
        BY <1>4
    <2>5. [c \in Categories |-> AddUp([m \in MonthNumbers |-> F[m][c]])] =
          [c \in Categories |-> AddUp([m \in MonthNumbers |-> ExpenseOf(m)[c]])]
        BY <2>4
    <2> HIDE DEF listed
    <2> QED
        BY <1>3, <2>1, <2>3, <2>5
<1>7. listed.spending = AddUp([c \in Spending |-> listed.byCategory[c]])
    <2>1. \A m \in MonthNumbers : \A c \in Spending : F[m][c] \in Int
        BY <1>1, <1>5
    <2>2. AddUp([m \in MonthNumbers |-> AddUp([c \in Spending |-> F[m][c]])]) =
          AddUp([c \in Spending |-> AddUp([m \in MonthNumbers |-> F[m][c]])])
        <3>1. IsFiniteSet(MonthNumbers) /\ IsFiniteSet(Spending)
            BY <1>1
        <3> HIDE DEF listed, months, earned, filled, slip
        <3> QED
            BY <2>1, <3>1, TableAddsUp, ZenonT(60)
    <2>3. \A m \in MonthNumbers : [c \in Spending |-> F[m][c]] =
                                  [c \in Spending |-> ExpenseOf(m)[c]]
        BY <1>4
    <2>4. [m \in MonthNumbers |-> AddUp([c \in Spending |-> F[m][c]])] =
          [m \in MonthNumbers |-> AddUp([c \in Spending |-> ExpenseOf(m)[c]])]
        BY <2>3
    <2> HIDE DEF listed
    <2>5. \A c \in Spending : AddUp([m \in MonthNumbers |-> F[m][c]]) = listed.byCategory[c]
        <3>1. \A c \in Spending : [m \in MonthNumbers |-> F[m][c]] =
                                  [m \in MonthNumbers |-> ExpenseOf(m)[c]]
            BY <1>4
        <3>2. \A c \in Spending : listed.byCategory[c] =
                                  AddUp([m \in MonthNumbers |-> ExpenseOf(m)[c]])
            BY <1>1, <1>3
        <3> QED
            BY <3>1, <3>2
    <2>6. [c \in Spending |-> AddUp([m \in MonthNumbers |-> F[m][c]])] =
          [c \in Spending |-> listed.byCategory[c]]
        BY <2>5
    <2> QED
        BY <1>3, <2>2, <2>4, <2>6
<1>8. ASSUME Sum(earned) <= Max63
      PROVE  /\ ListIncome.annual = Sum(earned)
             /\ -filled < slip \/ filled = 0
             /\ slip <= filled
    <2> DEFINE total == AddUp(earned)
    <2>1. DOMAIN earned = MonthNumbers /\ \A m \in MonthNumbers : earned[m] \in Nat
        <3>1. \A m \in MonthNumbers : IncomeOf(m).total \in 0..Max63
            BY <1>2 DEF Incomes
        <3> QED
            BY <1>1, <3>1
    <2>2. \A m \in MonthNumbers \ months : earned[m] = 0
        BY <1>2 DEF NoIncome
    <2>3. months = {m \in MonthNumbers : ~ IncomeIsZero(IncomeOf(m))}
        BY <1>2 DEF IncomeIsZero
    <2>4. ListIncome = [annual |-> total, average |-> AverageMoney(total, filled)]
        BY <2>3 DEF ListIncome
    <2> HIDE DEF earned
    <2>5. Sum(earned) = Total(earned, MonthNumbers) /\ Sum(earned) \in Nat
        BY <1>1, <2>1, SumIsTotal, TotalBounds
    <2>6. total = Sum(earned)
        <3>1. total = Wrap(Sum(earned))
            BY <1>1, <2>1, <2>5, AddUpIsWrap
        <3>2. Sum(earned) \in -Max63 - 1..Max63
            BY <1>1, <1>8, <2>5
        <3> QED
            BY <2>5, <3>1, <3>2, WrapFacts
    <2>7. IsFiniteSet(months) /\ filled \in Nat /\ (filled = 0 <=> months = {})
        BY <1>1, FS_Subset, FS_CardinalityType, FS_EmptySet
    <2>8. slip = 2 * (AverageMoney(total, filled) * filled - total)
        BY <2>4, <2>6
    <2>9. total \in Nat
        BY <2>5, <2>6
    <2> HIDE DEF months, total, filled, slip
    <2>10. CASE filled = 0
        <3>1. \A m \in MonthNumbers : earned[m] = 0
            BY <2>2, <2>7, <2>10
        <3>2. total = 0
            BY <1>1, <2>5, <2>6, <3>1, TotalOfNone
        <3>3. AverageMoney(total, filled) = 0
            BY <2>10, <3>2 DEF AverageMoney
        <3>4. slip = 0
            BY <2>8, <2>10, <3>2, <3>3
        <3> QED
            BY <2>4, <2>6, <2>10, <3>4
    <2>11. CASE filled # 0
        <3>1. filled \in Nat \ {0}
            BY <2>7, <2>11
        <3>2. -filled < slip /\ slip <= filled
            BY <2>8, <2>9, <3>1, AverageFacts
        <3> QED
            BY <2>4, <2>6, <3>2
    <2> QED
        BY <2>10, <2>11
<1> QED
    BY <1>6, <1>7, <1>8, Zenon DEF TotalsAgree

\* The totals of a year agree by months and by categories whatever the amounts, and as
\* long as the sum is in range the average of the income is rounded half up.
THEOREM YearAddsUp == MonthsSpec => []TotalsAgree
BY MonthsInvariant, ListsAgree, PTL

-----------------------------------------------------------------------------
(* The list of tasks: comparisons *)

\* A comparison of two numbers has one of three results, and the opposite one when
\* they change places.
LEMMA CompareFacts ==
    ASSUME NEW a \in Int, NEW b \in Int
    PROVE  /\ Compare(a, b) \in {-1, 0, 1}
           /\ Compare(b, a) = -Compare(a, b)
           /\ Compare(a, b) = 0 <=> a = b
           /\ Compare(a, b) = -1 <=> a < b
BY DEF Compare

\* So has one of two values that may be missing.
LEMMA NullableFacts ==
    ASSUME FilterAssumption, NEW a \in Nat \cup {None}, NEW b \in Nat \cup {None}
    PROVE  /\ CompareNullable(a, b) \in {-1, 0, 1}
           /\ CompareNullable(b, a) = -CompareNullable(a, b)
           /\ CompareNullable(a, b) = 0 <=> a = b
BY CompareFacts DEF CompareNullable, Compare, FilterAssumption

\* The database's order is that of the service, turned around in a descending list
\* unless one value is missing.
LEMMA NullsLastFacts ==
    ASSUME FilterAssumption, NEW a \in Nat \cup {None}, NEW b \in Nat \cup {None}
    PROVE  /\ NullsLast(a, b, FALSE) = CompareNullable(a, b)
           /\ NullsLast(a, b, TRUE) = IF (a = None) # (b = None) THEN CompareNullable(a, b)
                                      ELSE -CompareNullable(a, b)
BY CompareFacts DEF NullsLast, CompareNullable, Compare, FilterAssumption

\* The ranks of a task are numbers.
LEMMA RankTypes ==
    ASSUME NEW t \in Tasks
    PROVE  DoneRank(t) \in {0, 1} /\ FlagRank(t) \in {0, 1} /\ PriorityRank(t) \in 0..3
BY DEF DoneRank, FlagRank, PriorityRank

-----------------------------------------------------------------------------
(* The list of tasks: types *)

LEMMA FilterTypeInit == FilterAssumption /\ FilterInit => FilterTypeOK
BY DEF FilterAssumption, FilterInit, FilterTypeOK

LEMMA FilterTypeStep ==
    FilterAssumption /\ FilterTypeOK /\ [FilterNext]_filterVars => FilterTypeOK'
<1> SUFFICES ASSUME FilterAssumption, FilterTypeOK, [FilterNext]_filterVars
             PROVE  FilterTypeOK'
    OBVIOUS
<1>1. CASE Store
    BY <1>1 DEF Store, FilterTypeOK, FilterAssumption
<1>2. CASE Tick
    BY <1>2 DEF Tick, FilterTypeOK, FilterAssumption
<1>3. CASE UNCHANGED filterVars
    BY <1>3 DEF filterVars, FilterTypeOK
<1> QED
    BY <1>1, <1>2, <1>3 DEF FilterNext

\* The table holds tasks and the clock stays within the day.
THEOREM FilterTypeCorrect == FilterSpec => []FilterTypeOK
BY FilterTypeInit, FilterTypeStep, FilterAssumption, PTL DEF FilterSpec

\* What is stored is a task.
LEMMA StoredType ==
    ASSUME FilterTypeOK, NEW id \in StoredIds
    PROVE  Task(id) \in Tasks /\ id \in TaskIds
BY DEF FilterTypeOK, StoredIds, Task

LEMMA NowType ==
    ASSUME FilterAssumption, FilterTypeOK
    PROVE  now.day \in Nat /\ now.minute \in Nat
BY DEF FilterTypeOK, FilterAssumption

-----------------------------------------------------------------------------
(* The list of tasks: selection *)

\* A task is in a view of the database when it is in that view of the service.
LEMMA SameView ==
    ASSUME FilterAssumption, FilterTypeOK, NEW t \in Tasks, NEW view
    PROVE  ViewConditions(t, view) <=> InView(t, view)
<1>1. now.day \in Nat /\ now.minute \in Nat
    BY NowType
<1>2. (t.due \in Nat \/ t.due = None) /\ (t.time \in Nat \/ t.time = None)
    BY DEF Tasks
<1>3. ASSUME t.due # None
      PROVE  /\ Compare(t.due, now.day) \in {-1, 0, 1}
             /\ Compare(t.due, now.day) = -1 <=> t.due < now.day
             /\ Compare(t.due, now.day) = 0 <=> t.due = now.day
             /\ Compare(t.due, now.day) = 1 <=> t.due > now.day
    BY <1>1, <1>2, <1>3 DEF Compare
<1>4. /\ DueBy(t, {-1, 0, 1}) <=> t.due # None
      /\ DueBy(t, {-1, 0}) <=> t.due # None /\ ~ (t.due > now.day)
      /\ DueBy(t, {1}) <=> t.due # None /\ t.due > now.day
      /\ DueBy(t, {-1}) <=> t.due # None /\ t.due < now.day
      /\ DueBy(t, {0}) <=> t.due # None /\ t.due = now.day
    BY <1>1, <1>2, <1>3 DEF DueBy
<1>5. CASE view = "inbox"
    BY <1>5 DEF ViewConditions, InView, Open
<1>6. CASE view = "today"
    BY <1>4, <1>6 DEF ViewConditions, InView, Open
<1>7. CASE view = "upcoming"
    BY <1>4, <1>7 DEF ViewConditions, InView, Open
<1>8. CASE view = "overdue"
    BY <1>4, <1>8 DEF ViewConditions, InView, Open, TaskOverdue
<1>9. CASE view = "scheduled"
    BY <1>4, <1>9 DEF ViewConditions, InView, Open
<1>10. CASE view = "flagged"
    BY <1>10 DEF ViewConditions, InView, Open
<1>11. CASE view \notin Views
    BY <1>11 DEF ViewConditions, InView, Views
<1> QED
    BY <1>5, <1>6, <1>7, <1>8, <1>9, <1>10, <1>11 DEF Views

\* The same of one task and one filter.
LEMMA OneSelection ==
    ASSUME FilterAssumption, FilterTypeOK, NEW t \in Tasks, NEW f \in Filters
    PROVE  ListTasksQuery(t, f) <=>
              \/ /\ TaskMatchesFilter(t, f)
                 /\ f.project # None \/ t.project \notin Archived
                 /\ f.query # "escaped"
              \/ /\ \/ f.query = "wild" /\ t.text = "resembles"
                    \/ f.query = "escaped" /\ t.text = "unescaped"
                 /\ ListTasksQuery(t, [f EXCEPT !.query = None])
<1> DEFINE g == [f EXCEPT !.query = None]
<1>1. ViewConditions(t, f.view) <=> InView(t, f.view)
    BY SameView
<1>2. g.view = f.view /\ g.status = f.status /\ g.project = f.project /\ g.query = None
    BY DEF Filters
<1>3. f.query \in Queries \/ f.query = None
    BY Zenon DEF Filters
<1>4. None # "escaped" /\ None # "wild" /\ None \notin Queries
    BY FilterAssumption DEF FilterAssumption, Queries
<1>5. f.query \in Queries =>
         (t.text \in Like(f.query) <=>
             \/ t.text = f.query /\ f.query # "escaped"
             \/ f.query = "wild" /\ t.text = "resembles"
             \/ f.query = "escaped" /\ t.text = "unescaped")
    BY DEF Like, Queries
<1>6. ListTasksQuery(t, g) <=>
         /\ ViewConditions(t, f.view)
         /\ f.status # None => t.status = f.status
         /\ IF f.project # None THEN t.project = f.project ELSE t.project \notin Archived
    BY <1>2 DEF ListTasksQuery
<1> HIDE DEF g
<1>7. CASE f.query = None
    BY <1>1, <1>4, <1>7 DEF ListTasksQuery, TaskMatchesFilter
<1>8. CASE f.query \in Queries
    BY <1>1, <1>4, <1>5, <1>6, <1>8 DEF ListTasksQuery, TaskMatchesFilter, g
<1> QED
    BY <1>3, <1>7, <1>8

\* The two filters select the same, but for tasks of archived projects and for what
\* LIKE finds with the % and _ of a search, and what it finds with a backslash and does
\* not find.
THEOREM FiltersAgree == FilterSpec => []SameSelection
<1>1. FilterAssumption /\ FilterTypeOK => SameSelection
    BY StoredType, OneSelection DEF SameSelection
<1> QED
    BY <1>1, FilterTypeCorrect, FilterAssumption, PTL

-----------------------------------------------------------------------------
(* The list of tasks: order *)

\* What the two comparisons of a pair of tasks are made of.
LEMMA TaskFacts ==
    ASSUME FilterAssumption, NEW l \in Tasks, NEW r \in Tasks
    PROVE  /\ Compare(DoneRank(l), DoneRank(r)) \in {-1, 0, 1}
           /\ Compare(DoneRank(l), DoneRank(r)) = 0 <=> DoneRank(l) = DoneRank(r)
           /\ CompareNullable(l.due, r.due) \in {-1, 0, 1}
           /\ CompareNullable(l.due, r.due) = 0 <=> l.due = r.due
           /\ CompareNullable(l.time, r.time) \in {-1, 0, 1}
           /\ CompareNullable(l.time, r.time) = 0 <=> l.time = r.time
           /\ Compare(l.created, r.created) \in {-1, 0, 1}
           /\ Compare(r.created, l.created) = -Compare(l.created, r.created)
           /\ Compare(l.title, r.title) \in {-1, 0, 1}
           /\ Compare(r.title, l.title) = -Compare(l.title, r.title)
           /\ Compare(PriorityRank(l), PriorityRank(r)) \in {-1, 0, 1}
           /\ Compare(PriorityRank(r), PriorityRank(l)) = -Compare(PriorityRank(l), PriorityRank(r))
           /\ Compare(FlagRank(r), FlagRank(l)) \in {-1, 0, 1}
<1>1. /\ l.due \in Nat \cup {None} /\ l.time \in Nat \cup {None}
      /\ r.due \in Nat \cup {None} /\ r.time \in Nat \cup {None}
      /\ l.created \in Int /\ l.title \in Int /\ r.created \in Int /\ r.title \in Int
    BY DEF Tasks
<1>2. /\ DoneRank(l) \in Int /\ DoneRank(r) \in Int
      /\ PriorityRank(l) \in Int /\ PriorityRank(r) \in Int
      /\ FlagRank(l) \in Int /\ FlagRank(r) \in Int
    BY RankTypes
<1>3. /\ Compare(l.created, r.created) \in {-1, 0, 1}
      /\ Compare(r.created, l.created) = -Compare(l.created, r.created)
      /\ Compare(l.title, r.title) \in {-1, 0, 1}
      /\ Compare(r.title, l.title) = -Compare(l.title, r.title)
    BY <1>1, CompareFacts
<1>4. /\ Compare(DoneRank(l), DoneRank(r)) \in {-1, 0, 1}
      /\ Compare(DoneRank(l), DoneRank(r)) = 0 <=> DoneRank(l) = DoneRank(r)
      /\ Compare(PriorityRank(l), PriorityRank(r)) \in {-1, 0, 1}
      /\ Compare(PriorityRank(r), PriorityRank(l)) = -Compare(PriorityRank(l), PriorityRank(r))
      /\ Compare(FlagRank(r), FlagRank(l)) \in {-1, 0, 1}
    BY <1>2, CompareFacts
<1>5. /\ CompareNullable(l.due, r.due) \in {-1, 0, 1}
      /\ CompareNullable(l.due, r.due) = 0 <=> l.due = r.due
      /\ CompareNullable(l.time, r.time) \in {-1, 0, 1}
      /\ CompareNullable(l.time, r.time) = 0 <=> l.time = r.time
    BY <1>1, NullableFacts
<1> QED
    BY <1>3, <1>4, <1>5

\* The opposite of the sign of a comparison.
LEMMA SignFacts == \A n \in {-1, 0, 1} : -(-n) = n /\ (-n # 0 <=> n # 0)
<1> QED
    OBVIOUS

\* The same for the database's comparison of due dates.
LEMMA DueFacts ==
    ASSUME FilterAssumption, NEW l \in Tasks, NEW r \in Tasks
    PROVE  /\ NullsLast(l.due, r.due, FALSE) = CompareNullable(l.due, r.due)
           /\ NullsLast(l.time, r.time, FALSE) = CompareNullable(l.time, r.time)
           /\ NullsLast(l.due, r.due, TRUE) =
                 IF (l.due = None) # (r.due = None) THEN CompareNullable(l.due, r.due)
                 ELSE -CompareNullable(l.due, r.due)
           /\ NullsLast(l.time, r.time, TRUE) =
                 IF (l.time = None) # (r.time = None) THEN CompareNullable(l.time, r.time)
                 ELSE -CompareNullable(l.time, r.time)
<1>1. /\ l.due \in Nat \cup {None} /\ l.time \in Nat \cup {None}
      /\ r.due \in Nat \cup {None} /\ r.time \in Nat \cup {None}
    BY DEF Tasks
<1>2. /\ NullsLast(l.due, r.due, FALSE) = CompareNullable(l.due, r.due)
      /\ NullsLast(l.due, r.due, TRUE) =
            IF (l.due = None) # (r.due = None) THEN CompareNullable(l.due, r.due)
            ELSE -CompareNullable(l.due, r.due)
    BY <1>1, NullsLastFacts
<1>3. /\ NullsLast(l.time, r.time, FALSE) = CompareNullable(l.time, r.time)
      /\ NullsLast(l.time, r.time, TRUE) =
            IF (l.time = None) # (r.time = None) THEN CompareNullable(l.time, r.time)
            ELSE -CompareNullable(l.time, r.time)
    BY <1>1, NullsLastFacts
<1> QED
    BY <1>2, <1>3

\* The order of the database is that of the service: apart from ties, and from dates
\* and times that are missing in a descending list.
THEOREM OrdersAgree == FilterSpec => []SameOrder
<1>1. FilterAssumption /\ FilterTypeOK => SameOrder
    <2> SUFFICES ASSUME FilterAssumption, FilterTypeOK,
                        NEW i \in StoredIds, NEW j \in StoredIds,
                        NEW sort \in Sorts, NEW direction \in Directions
                 PROVE  LET undated == (Task(i).due = None) # (Task(j).due = None)
                            untimed == /\ Task(i).due = Task(j).due
                                       /\ (Task(i).time = None) # (Task(j).time = None)
                            mine    == SortTasks(i, j, sort, direction)
                            theirs  == OrderByClause(i, j, sort, direction)
                        IN  IF Tied(i, j, sort)
                            THEN theirs = (IF sort = "smart" \/ direction = "desc"
                                           THEN -mine ELSE mine)
                            ELSE IF /\ sort = "due" /\ direction = "desc"
                                    /\ undated \/ untimed
                                    /\ DoneRank(Task(i)) = DoneRank(Task(j))
                            THEN theirs = -mine
                            ELSE theirs = mine
        BY DEF SameOrder
    <2> DEFINE l == Task(i)
               r == Task(j)
    <2>1. l \in Tasks /\ r \in Tasks /\ i \in Int /\ j \in Int
        <3>1. l \in Tasks /\ i \in TaskIds
            BY StoredType
        <3>2. r \in Tasks /\ j \in TaskIds
            BY StoredType
        <3> QED
            BY <3>1, <3>2 DEF FilterAssumption
    <2>2. Compare(i, j) \in {-1, 0, 1} /\ Compare(j, i) = -Compare(i, j)
        BY <2>1, CompareFacts
    <2> HIDE DEF l, r
    <2>3. CASE sort = "due"
        <3>1. CASE direction = "asc"
            BY <2>1, <2>2, <2>3, <3>1, TaskFacts, DueFacts
               DEF Tied, SortTasks, OrderByClause, CompareTasks, CompareDue, FirstDifference, l, r
        <3>2. CASE direction = "desc"
            <4> DEFINE done == Compare(DoneRank(l), DoneRank(r))
                       due  == CompareNullable(l.due, r.due)
                       time == CompareNullable(l.time, r.time)
            <4>1. /\ done \in {-1, 0, 1} /\ (done = 0 <=> DoneRank(l) = DoneRank(r))
                  /\ due \in {-1, 0, 1} /\ (due = 0 <=> l.due = r.due)
                  /\ time \in {-1, 0, 1} /\ (time = 0 <=> l.time = r.time)
                BY <2>1, TaskFacts
            <4>2. /\ (l.due = None) # (r.due = None) => NullsLast(l.due, r.due, TRUE) = due
                  /\ ~ ((l.due = None) # (r.due = None)) => NullsLast(l.due, r.due, TRUE) = -due
                  /\ (l.time = None) # (r.time = None) => NullsLast(l.time, r.time, TRUE) = time
                  /\ ~ ((l.time = None) # (r.time = None)) =>
                        NullsLast(l.time, r.time, TRUE) = -time
                BY <2>1, DueFacts
            <4>3. CompareTasks(l, r, sort) = IF due # 0 THEN due ELSE time
                BY <2>3 DEF CompareTasks, CompareDue, FirstDifference
            <4>4. SortTasks(i, j, sort, direction) =
                     IF done # 0 THEN done
                     ELSE IF due # 0 THEN -due ELSE IF time # 0 THEN -time ELSE Compare(i, j)
                BY <2>3, <3>2, <4>1, <4>3 DEF SortTasks, FirstDifference, l, r
            <4>5. OrderByClause(i, j, sort, direction) =
                     IF done # 0 THEN done
                     ELSE IF due # 0 THEN NullsLast(l.due, r.due, TRUE)
                     ELSE IF time # 0 THEN NullsLast(l.time, r.time, TRUE) ELSE Compare(j, i)
                <5> HIDE DEF done, due, time
                <5>1. /\ (NullsLast(l.due, r.due, TRUE) # 0) <=> (due # 0)
                      /\ (NullsLast(l.time, r.time, TRUE) # 0) <=> (time # 0)
                    BY <4>1, <4>2, SignFacts, Zenon
                <5>2. OrderByClause(i, j, sort, direction) =
                         FirstDifference(done,
                         FirstDifference(FirstDifference(NullsLast(l.due, r.due, TRUE),
                                                         NullsLast(l.time, r.time, TRUE)),
                                         Compare(j, i)))
                    BY <2>3, <3>2 DEF OrderByClause, l, r, done
                <5> QED
                    BY <5>1, <5>2 DEF FirstDifference
            <4>6. Tied(i, j, sort) <=> done = 0 /\ due = 0 /\ time = 0
                BY <4>1, <4>3 DEF Tied, l, r
            <4> DEFINE mine   == SortTasks(i, j, sort, direction)
                       theirs == OrderByClause(i, j, sort, direction)
            <4> HIDE DEF done, due, time, mine, theirs
            <4>7. CASE done # 0
                BY <4>1, <4>4, <4>5, <4>6, <4>7 DEF mine, theirs, l, r
            <4>8. CASE done = 0 /\ due # 0
                <5>1. l.due # r.due /\ DoneRank(l) = DoneRank(r) /\ ~ Tied(i, j, sort)
                    BY <4>1, <4>6, <4>8
                <5>2. mine = -due
                    BY <4>4, <4>8 DEF mine
                <5>3. theirs = NullsLast(l.due, r.due, TRUE)
                    BY <4>5, <4>8 DEF theirs
                <5>4. CASE (l.due = None) # (r.due = None)
                    <6>1. theirs = -mine
                        BY <4>1, <4>2, <5>2, <5>3, <5>4, SignFacts, Zenon
                    <6> QED
                        BY <2>3, <3>2, <5>1, <5>4, <6>1 DEF l, r, mine, theirs
                <5>5. CASE ~ ((l.due = None) # (r.due = None))
                    BY <2>3, <3>2, <4>2, <5>1, <5>2, <5>3, <5>5 DEF l, r, mine, theirs
                <5> QED
                    BY <5>4, <5>5
            <4>9. CASE done = 0 /\ due = 0 /\ time # 0
                <5>1. /\ l.due = r.due /\ l.time # r.time /\ DoneRank(l) = DoneRank(r)
                      /\ ~ Tied(i, j, sort)
                    BY <4>1, <4>6, <4>9
                <5>2. mine = -time
                    BY <4>4, <4>9 DEF mine
                <5>3. theirs = NullsLast(l.time, r.time, TRUE)
                    BY <4>5, <4>9 DEF theirs
                <5>4. CASE (l.time = None) # (r.time = None)
                    <6>1. theirs = -mine
                        BY <4>1, <4>2, <5>2, <5>3, <5>4, SignFacts, Zenon
                    <6> QED
                        BY <2>3, <3>2, <5>1, <5>4, <6>1 DEF l, r, mine, theirs
                <5>5. CASE ~ ((l.time = None) # (r.time = None))
                    BY <2>3, <3>2, <4>2, <5>1, <5>2, <5>3, <5>5 DEF l, r, mine, theirs
                <5> QED
                    BY <5>4, <5>5
            <4>10. CASE done = 0 /\ due = 0 /\ time = 0
                <5>1. Tied(i, j, sort) /\ mine = Compare(i, j) /\ theirs = Compare(j, i)
                    BY <4>4, <4>5, <4>6, <4>10 DEF mine, theirs
                <5> QED
                    BY <2>2, <3>2, <5>1 DEF mine, theirs
            <4> QED
                BY <4>7, <4>8, <4>9, <4>10
        <3> QED
            BY <3>1, <3>2 DEF Directions
    <2>4. CASE sort = "created"
        BY <2>1, <2>2, <2>4, TaskFacts
           DEF Tied, SortTasks, OrderByClause, CompareTasks, FirstDifference, Directions, l, r
    <2>5. CASE sort = "title"
        BY <2>1, <2>2, <2>5, TaskFacts
           DEF Tied, SortTasks, OrderByClause, CompareTasks, FirstDifference, Directions, l, r
    <2>6. CASE sort = "priority"
        BY <2>1, <2>2, <2>6, TaskFacts
           DEF Tied, SortTasks, OrderByClause, CompareTasks, FirstDifference, Directions, l, r
    <2>7. CASE sort = "smart"
        BY <2>1, <2>2, <2>7, TaskFacts, DueFacts
           DEF Tied, SortTasks, OrderByClause, CompareTasks, CompareDue, FirstDifference,
               Directions, l, r
    <2> QED
        BY <2>3, <2>4, <2>5, <2>6, <2>7 DEF Sorts
<1> QED
    BY <1>1, FilterTypeCorrect, FilterAssumption, PTL

-----------------------------------------------------------------------------
(* The list of tasks: time *)

\* A task with a due date that the views of dates show on some day.
Dated(id) ==
    /\ id \in StoredIds
    /\ Open(Task(id)) /\ Task(id).due # None /\ Task(id).project \notin Archived

\* A dated task is listed in the views of dates as its date and its time say.
ListedByDate ==
    \A id \in TaskIds :
        /\ Listed(id, "scheduled") <=> Dated(id)
        /\ Listed(id, "today") <=> Dated(id) /\ ~ (Task(id).due > now.day)
        /\ Listed(id, "upcoming") <=> Dated(id) /\ Task(id).due > now.day
        /\ Listed(id, "overdue") <=> Dated(id) /\ TaskOverdue(Task(id))

LEMMA ViewsShowDates == FilterAssumption /\ FilterTypeOK => ListedByDate
<1> SUFFICES ASSUME FilterAssumption, FilterTypeOK, NEW id \in TaskIds
             PROVE  /\ Listed(id, "scheduled") <=> Dated(id)
                    /\ Listed(id, "today") <=> Dated(id) /\ ~ (Task(id).due > now.day)
                    /\ Listed(id, "upcoming") <=> Dated(id) /\ Task(id).due > now.day
                    /\ Listed(id, "overdue") <=> Dated(id) /\ TaskOverdue(Task(id))
    BY DEF ListedByDate
<1> DEFINE t == Task(id)
<1>1. CASE id \notin StoredIds
    BY <1>1 DEF Listed, Dated
<1>2. CASE id \in StoredIds
    <2>1. t \in Tasks
        BY <1>2, StoredType
    <2>2. \A view : ViewConditions(t, view) <=> InView(t, view)
        BY <2>1, SameView
    <2>3. \A view : Listed(id, view) <=> InView(t, view) /\ t.project \notin Archived
        BY <1>2, <2>2 DEF Listed, ListTasksQuery
    <2>4. /\ InView(t, "scheduled") <=> t.due # None /\ Open(t)
          /\ InView(t, "today") <=> t.due # None /\ ~ (t.due > now.day) /\ Open(t)
          /\ InView(t, "upcoming") <=> t.due # None /\ t.due > now.day /\ Open(t)
          /\ InView(t, "overdue") <=> TaskOverdue(t) /\ Open(t)
        BY DEF InView
    <2>5. TaskOverdue(t) => t.due # None
        BY DEF TaskOverdue
    <2> HIDE DEF t
    <2> QED
        BY <1>2, <2>3, <2>4, <2>5 DEF Dated, t
<1> QED
    BY <1>1, <1>2

LEMMA ViewsShowDatesNext == FilterTypeOK' => ListedByDate'
<1>1. FilterTypeOK => ListedByDate
    BY ViewsShowDates, FilterAssumption
<1> QED
    BY <1>1, PTL

\* Midnight loses no task and lists none twice: as time passes a task goes from
\* upcoming to today and to overdue, and stays scheduled.
THEOREM ViewsOnlyMoveForward == FilterSpec => ViewsMoveForward
<1>1. FilterAssumption /\ FilterTypeOK /\ FilterTypeOK' /\ [FilterNext]_filterVars =>
         [now' # now => \A id \in TaskIds :
            /\ Listed(id, "scheduled") => (Listed(id, "today") # Listed(id, "upcoming"))
            /\ Listed(id, "overdue") => Listed(id, "today")
            /\ table'[id] = table[id] =>
                 /\ Listed(id, "today") => Listed(id, "today")'
                 /\ Listed(id, "overdue") => Listed(id, "overdue")'
                 /\ Listed(id, "scheduled") = Listed(id, "scheduled")']_filterVars
    <2> SUFFICES ASSUME FilterAssumption, FilterTypeOK, FilterTypeOK', Tick, NEW id \in TaskIds
                 PROVE  /\ Listed(id, "scheduled") => (Listed(id, "today") # Listed(id, "upcoming"))
                        /\ Listed(id, "overdue") => Listed(id, "today")
                        /\ Listed(id, "today") => Listed(id, "today")'
                        /\ Listed(id, "overdue") => Listed(id, "overdue")'
                        /\ Listed(id, "scheduled") = Listed(id, "scheduled")'
        BY DEF FilterNext, Store, filterVars
    <2>1. ListedByDate /\ ListedByDate'
        BY ViewsShowDates, ViewsShowDatesNext
    <2>2. Dated(id)' = Dated(id) /\ Task(id)' = Task(id)
        BY DEF Tick, Dated, StoredIds, Task, Open
    <2>3. /\ now.day \in Nat /\ now'.day \in Nat /\ now.minute \in Nat /\ now'.minute \in Nat
          /\ \/ now'.day = now.day /\ now'.minute = now.minute + 1
             \/ now'.day = now.day + 1
        BY DEF Tick, FilterTypeOK, FilterAssumption
    <2>4. Dated(id) => /\ Task(id).due \in Nat
                       /\ Task(id).time \in Nat \/ Task(id).time = None
        BY StoredType DEF Dated, Tasks
    <2>5. Dated(id) /\ TaskOverdue(Task(id)) => ~ (Task(id).due > now.day)
        BY <2>3, <2>4 DEF TaskOverdue
    <2>6. Dated(id) /\ TaskOverdue(Task(id)) => TaskOverdue(Task(id))'
        BY <2>2, <2>3, <2>4 DEF TaskOverdue
    <2>7. Dated(id) /\ ~ (Task(id).due > now.day) => ~ (Task(id).due > now'.day)
        BY <2>3, <2>4
    <2> QED
        <3>1. /\ Listed(id, "scheduled") <=> Dated(id)
              /\ Listed(id, "today") <=> Dated(id) /\ ~ (Task(id).due > now.day)
              /\ Listed(id, "upcoming") <=> Dated(id) /\ Task(id).due > now.day
              /\ Listed(id, "overdue") <=> Dated(id) /\ TaskOverdue(Task(id))
            BY <2>1 DEF ListedByDate
        <3>2. /\ Listed(id, "scheduled")' <=> Dated(id)
              /\ Listed(id, "today")' <=> Dated(id) /\ ~ (Task(id).due > now'.day)
              /\ Listed(id, "overdue")' <=> Dated(id) /\ TaskOverdue(Task(id))'
            BY <2>1, <2>2 DEF ListedByDate
        <3>3. /\ Listed(id, "scheduled") \in BOOLEAN /\ Listed(id, "scheduled")' \in BOOLEAN
              /\ Listed(id, "today") \in BOOLEAN /\ Listed(id, "upcoming") \in BOOLEAN
            BY DEF Listed
        <3> QED
            BY <2>5, <2>6, <2>7, <3>1, <3>2, <3>3
<1> QED
    BY <1>1, FilterTypeCorrect, FilterAssumption, PTL DEF FilterSpec, ViewsMoveForward

-----------------------------------------------------------------------------
(* The three parts together *)

\* What the three parts keep: a step of one leaves the other two as they are.
RulesInv == ScheduleInv /\ FilterTypeOK /\ MonthsInv

\* The rows, the clock and the amounts are typed in every behaviour that the run of
\* the three parts checks, whichever of them takes its steps.
THEOREM RulesTypeCorrect == RulesSpec => []RulesTypeOK
<1>1. RulesInit => RulesInv
    BY ScheduleInvInitially, FilterTypeInit, FilterAssumption, MonthsInvInitially
       DEF RulesInit, RulesInv
<1>2. RulesInv /\ [RulesNext]_rulesVars => RulesInv'
    <2> SUFFICES ASSUME RulesInv, [RulesNext]_rulesVars
                 PROVE  RulesInv'
        OBVIOUS
    <2>1. /\ [ScheduleNext]_scheduleVars
          /\ [FilterNext]_filterVars
          /\ [MonthsNext]_monthVars
        BY Zenon DEF RulesNext, rulesVars
    <2> QED
        BY <2>1, ScheduleInvKept, FilterTypeStep, FilterAssumption, MonthsInvKept DEF RulesInv
<1>3. RulesInv => RulesTypeOK
    BY MonthsTyped DEF RulesInv, RulesTypeOK, ScheduleInv
<1> QED
    BY <1>1, <1>2, <1>3, PTL DEF RulesSpec

\* A behaviour of the three parts is one of each of them, so that what the theorems
\* say of the schedule, the list and the months holds of it.
THEOREM RulesKeepTheParts == RulesSpec => ScheduleSpec /\ FilterSpec /\ MonthsSpec
<1>1. RulesInit => ScheduleInit /\ FilterInit /\ MonthsInit
    BY DEF RulesInit
<1>2. [RulesNext]_rulesVars => /\ [ScheduleNext]_scheduleVars
                              /\ [FilterNext]_filterVars
                              /\ [MonthsNext]_monthVars
    BY Zenon DEF RulesNext, rulesVars
<1> QED
    BY <1>1, <1>2, PTL DEF RulesSpec, ScheduleSpec, FilterSpec, MonthsSpec

=============================================================================
