------------------------------ MODULE SumTheorems ------------------------------
(***************************************************************************)
(* Sums of the values of a function over a finite set.  What is proved by  *)
(* induction over a set is proved from a smallest set for which it fails.  *)
(***************************************************************************)
EXTENDS Integers, FiniteSets, Functions, FiniteSetTheorems, TLAPS

-----------------------------------------------------------------------------
(* The recursion that defines a sum has a solution                         *)

PickOf(s) == CHOOSE x \in s : TRUE

RestOf(s) == s \ {PickOf(s)}

\* The value that the recursion gives the set s when h gives those of smaller sets.
ValueOf(f, h, s) == IF s = {} THEN 0 ELSE f[PickOf(s)] + h[RestOf(s)]

AddsUp(f, T, h) == h = [s \in SUBSET T |-> ValueOf(f, h, s)]

LEMMA SumIs ==
    ASSUME NEW f, NEW S
    PROVE  SumFunctionOnSet(f, S) = (CHOOSE h : AddsUp(f, S, h))[S]
BY DEF SumFunctionOnSet, FoldFunctionOnSet, MapThenFoldSet, AddsUp, ValueOf, RestOf, PickOf

LEMMA PickIn == \A s : s # {} => PickOf(s) \in s
BY DEF PickOf

LEMMA RestIn == \A s : RestOf(s) \subseteq s /\ (s # {} => RestOf(s) # s)
BY PickIn DEF RestOf

\* Among the subsets that are bad one is smallest.
LEMMA Smallest ==
    ASSUME NEW S, IsFiniteSet(S), NEW Bad, Bad \subseteq SUBSET S, Bad # {}
    PROVE  \E T \in Bad : \A U \in Bad : U \subseteq T => U = T
<1>1. Bad \subseteq FiniteSubsetsOf(S) BY FS_Subset DEF FiniteSubsetsOf
<1>2. IsWellFoundedOn(StrictSubsetOrdering(S), FiniteSubsetsOf(S))
  BY FS_StrictSubsetOrderingWellFounded
<1>3. PICK T \in Bad : \A U \in Bad : ~(<<U, T>> \in StrictSubsetOrdering(S))
  BY <1>1, <1>2, WFMin
<1> QED BY <1>3 DEF StrictSubsetOrdering

LEMMA SolutionAt ==
    \A f, T, h : AddsUp(f, T, h) => \A S \in SUBSET T : h[S] = ValueOf(f, h, S)
BY DEF AddsUp

\* Two functions with one value at the rest of a set give the set one value.
LEMMA ValueAgrees ==
    \A f, g, h, S : (S # {} => g[RestOf(S)] = h[RestOf(S)]) => ValueOf(f, g, S) = ValueOf(f, h, S)
BY Zenon DEF ValueOf

LEMMA SolutionsAgree ==
    \A f, S, T, U, g, h :
        /\ IsFiniteSet(S) /\ S \subseteq T /\ S \subseteq U
        /\ AddsUp(f, T, g) /\ AddsUp(f, U, h)
        => g[S] = h[S]
<1> SUFFICES ASSUME NEW f, NEW S, NEW T, NEW U, NEW g, NEW h,
                    IsFiniteSet(S), S \subseteq T, S \subseteq U,
                    AddsUp(f, T, g), AddsUp(f, U, h)
             PROVE  g[S] = h[S]
  OBVIOUS
<1> DEFINE Bad == {V \in SUBSET S : g[V] # h[V]}
<1>1. SUFFICES ASSUME Bad # {} PROVE FALSE
  OBVIOUS
<1>2. PICK V \in Bad : \A W \in Bad : W \subseteq V => W = V
  <2>1. Bad \subseteq SUBSET S OBVIOUS
  <2> HIDE DEF Bad
  <2> QED BY <1>1, <2>1, Smallest
<1>3. V \subseteq S /\ g[V] # h[V] OBVIOUS
<1>4. g[V] = ValueOf(f, g, V) /\ h[V] = ValueOf(f, h, V) BY <1>3, SolutionAt
<1>5. V # {} /\ g[RestOf(V)] # h[RestOf(V)] BY <1>3, <1>4, ValueAgrees
<1>6. RestOf(V) \in Bad BY <1>3, <1>5, RestIn
<1> QED BY <1>2, <1>5, <1>6, RestIn

LEMMA SolutionExists ==
    ASSUME NEW f, NEW S, IsFiniteSet(S)
    PROVE  \E h : AddsUp(f, S, h)
<1> DEFINE Bad == {T \in SUBSET S : ~ \E h : AddsUp(f, T, h)}
<1>1. SUFFICES ASSUME Bad # {} PROVE FALSE
  OBVIOUS
<1>2. PICK T \in Bad : \A U \in Bad : U \subseteq T => U = T
  <2>1. Bad \subseteq SUBSET S OBVIOUS
  <2> HIDE DEF Bad
  <2> QED BY <1>1, <2>1, Smallest
<1>3. T \subseteq S /\ ~ \E h : AddsUp(f, T, h) OBVIOUS
<1> DEFINE H(U) == CHOOSE h : AddsUp(f, U, h)
<1>4. \A U \in SUBSET T : U # T => AddsUp(f, U, H(U))
  <2> SUFFICES ASSUME NEW U \in SUBSET T, U # T PROVE AddsUp(f, U, H(U))
    OBVIOUS
  <2>1. U \notin Bad /\ U \in SUBSET S BY <1>2, <1>3
  <2>2. \E h : AddsUp(f, U, h) BY <2>1
  <2> QED BY <2>2
\* What the solutions for the smaller sets say, put together.
<1> DEFINE k(s) == ValueOf(f, H(RestOf(s)), s)
           h == [s \in SUBSET T |-> k(s)]
<1>5. ASSUME NEW s \in SUBSET T PROVE k(s) = ValueOf(f, h, s)
  <2> DEFINE r == RestOf(s)
  <2>1. SUFFICES ASSUME s # {} PROVE H(r)[r] = h[r]
    <3> HIDE DEF H, h
    <3> QED BY <2>1, ValueAgrees
  <2>2. r \in SUBSET T /\ r # T BY <2>1, RestIn
  <2>3. AddsUp(f, r, H(r)) BY <1>4, <2>2
  <2> HIDE DEF H
  <2>4. H(r)[r] = ValueOf(f, H(r), r) BY <2>3, SolutionAt
  <2>5. h[r] = ValueOf(f, H(RestOf(r)), r) BY <2>2
  <2> HIDE DEF h, r
  <2>6. SUFFICES ASSUME r # {} PROVE H(r)[RestOf(r)] = H(RestOf(r))[RestOf(r)]
    BY <2>4, <2>5, <2>6, ValueAgrees
  <2>7. RestOf(r) \in SUBSET T /\ RestOf(r) # T BY <2>2, <2>6, RestIn
  <2>8. AddsUp(f, RestOf(r), H(RestOf(r))) BY <1>4, <2>7
  <2>9. IsFiniteSet(RestOf(r)) BY <1>3, <2>7, FS_Subset
  <2> DEFINE q == RestOf(r)
             g1 == H(r)
             g2 == H(q)
  <2>10. q \subseteq r BY RestIn
  <2>11. AddsUp(f, r, g1) /\ AddsUp(f, q, g2) /\ IsFiniteSet(q) BY <2>3, <2>8, <2>9
  <2>12. g1[q] = g2[q]
    <3> HIDE DEF q, g1, g2
    <3> QED BY <2>10, <2>11, SolutionsAgree
  <2> QED BY <2>12
<1>6. h = [s \in SUBSET T |-> ValueOf(f, h, s)]
  <2>1. h = [s \in SUBSET T |-> k(s)] OBVIOUS
  <2> HIDE DEF h, k
  <2> QED BY <1>5, <2>1, Zenon
<1>7. AddsUp(f, T, h)
  <2> HIDE DEF h
  <2> QED BY <1>6 DEF AddsUp
<1> QED BY <1>3, <1>7

-----------------------------------------------------------------------------
(* Sums *)

LEMMA SumIsValue ==
    ASSUME NEW f, NEW S, IsFiniteSet(S)
    PROVE  /\ S = {} => SumFunctionOnSet(f, S) = 0
           /\ S # {} => SumFunctionOnSet(f, S)
                          = f[PickOf(S)] + SumFunctionOnSet(f, S \ {PickOf(S)})
<1> DEFINE r == RestOf(S)
           H(U) == CHOOSE h : AddsUp(f, U, h)
<1>1. IsFiniteSet(r) BY FS_Subset, RestIn
<1>2. AddsUp(f, S, H(S)) BY SolutionExists
<1>3. AddsUp(f, r, H(r)) BY <1>1, SolutionExists
<1>4. SumFunctionOnSet(f, S) = H(S)[S] /\ SumFunctionOnSet(f, r) = H(r)[r] BY SumIs
<1> HIDE DEF H
<1>5. H(S)[S] = ValueOf(f, H(S), S) BY <1>2, SolutionAt
<1>6. H(S)[r] = H(r)[r]
  <2> HIDE DEF r
  <2>1. r \subseteq S BY RestIn DEF r
  <2>2. \A U : IsFiniteSet(r) /\ r \subseteq S /\ r \subseteq U =>
           \A g, h : AddsUp(f, S, g) /\ AddsUp(f, U, h) => g[r] = h[r]
    BY SolutionsAgree
  <2>3. \A g, h : AddsUp(f, S, g) /\ AddsUp(f, r, h) => g[r] = h[r]
    BY <1>1, <2>1, <2>2
  <2> QED BY <1>2, <1>3, <2>3, Zenon
<1>7. CASE S = {} BY <1>4, <1>5, <1>7 DEF ValueOf
<1>8. CASE S # {}
  <2>1. ValueOf(f, H(S), S) = f[PickOf(S)] + H(S)[r] BY <1>8, Zenon DEF ValueOf
  <2>2. r = S \ {PickOf(S)} BY DEF RestOf
  <2> HIDE DEF r
  <2>3. SumFunctionOnSet(f, S) = f[PickOf(S)] + SumFunctionOnSet(f, r)
    BY <1>4, <1>5, <1>6, <2>1, Zenon
  <2> QED BY <1>8, <2>2, <2>3, Zenon
<1> QED BY <1>7, <1>8

LEMMA SumEmpty == \A f : SumFunctionOnSet(f, {}) = 0
BY SumIsValue, FS_EmptySet

LEMMA SumType ==
    ASSUME NEW S, IsFiniteSet(S), NEW f, \A x \in S : f[x] \in Int
    PROVE  SumFunctionOnSet(f, S) \in Int
<1> DEFINE Bad == {T \in SUBSET S : SumFunctionOnSet(f, T) \notin Int}
<1>1. SUFFICES ASSUME Bad # {} PROVE FALSE
  OBVIOUS
<1>2. PICK T \in Bad : \A U \in Bad : U \subseteq T => U = T
  <2>1. Bad \subseteq SUBSET S OBVIOUS
  <2> HIDE DEF Bad
  <2> QED BY <1>1, <2>1, Smallest
<1>3. T \subseteq S /\ SumFunctionOnSet(f, T) \notin Int /\ IsFiniteSet(T) BY FS_Subset
<1>4. T # {} BY <1>3, SumEmpty
<1>5. T \ {PickOf(T)} \notin Bad BY <1>2, <1>4, PickIn
<1>6. SumFunctionOnSet(f, T \ {PickOf(T)}) \in Int BY <1>3, <1>5
<1>7. f[PickOf(T)] \in Int BY <1>3, <1>4, PickIn
<1> QED BY <1>3, <1>4, <1>6, <1>7, SumIsValue

\* Any member may be taken out.
THEOREM SumRemove ==
    ASSUME NEW S, IsFiniteSet(S), NEW f, \A x \in S : f[x] \in Int, NEW x \in S
    PROVE  SumFunctionOnSet(f, S) = f[x] + SumFunctionOnSet(f, S \ {x})
<1> DEFINE Sum(T) == SumFunctionOnSet(f, T)
           Bad == {T \in SUBSET S : \E y \in T : Sum(T) # f[y] + Sum(T \ {y})}
<1>1. SUFFICES Bad = {}
  OBVIOUS
<1>2. SUFFICES ASSUME Bad # {} PROVE FALSE
  OBVIOUS
<1>3. PICK T \in Bad : \A U \in Bad : U \subseteq T => U = T
  <2>1. Bad \subseteq SUBSET S OBVIOUS
  <2> HIDE DEF Bad
  <2> QED BY <1>2, <2>1, Smallest
<1>4. PICK y \in T : Sum(T) # f[y] + Sum(T \ {y}) BY <1>3
<1>5. T \subseteq S /\ IsFiniteSet(T) BY <1>3, FS_Subset
<1>6. PICK z \in T : Sum(T) = f[z] + Sum(T \ {z}) BY <1>4, <1>5, SumIsValue, PickIn
<1>7. y # z BY <1>4, <1>6
<1>8. T \ {z} \notin Bad /\ T \ {y} \notin Bad BY <1>3, <1>4, <1>6
<1>9. Sum(T \ {z}) = f[y] + Sum((T \ {z}) \ {y}) BY <1>4, <1>5, <1>7, <1>8
<1>10. Sum(T \ {y}) = f[z] + Sum((T \ {y}) \ {z}) BY <1>5, <1>6, <1>7, <1>8
<1> DEFINE both == (T \ {y}) \ {z}
<1>11. (T \ {z}) \ {y} = both OBVIOUS
<1>12. Sum(both) \in Int
  <2>1. IsFiniteSet(both) BY <1>5, FS_Subset
  <2> QED BY <1>5, <2>1, SumType
<1>13. f[y] \in Int /\ f[z] \in Int BY <1>4, <1>5, <1>6
<1>14. Sum(T \ {z}) = f[y] + Sum(both) BY <1>9, <1>11
<1>15. Sum(T \ {y}) = f[z] + Sum(both) BY <1>10
<1> HIDE DEF Sum, both, Bad
<1>16. Sum(T) = f[z] + (f[y] + Sum(both)) BY <1>6, <1>14
<1>17. Sum(T) # f[y] + (f[z] + Sum(both)) BY <1>4, <1>15
<1> QED BY <1>12, <1>13, <1>16, <1>17

\* Functions that agree on the set have one sum.
LEMMA SumSame ==
    ASSUME NEW S, IsFiniteSet(S), NEW f, NEW g, \A x \in S : f[x] = g[x]
    PROVE  SumFunctionOnSet(f, S) = SumFunctionOnSet(g, S)
<1> DEFINE Bad == {T \in SUBSET S : SumFunctionOnSet(f, T) # SumFunctionOnSet(g, T)}
<1>1. SUFFICES ASSUME Bad # {} PROVE FALSE
  OBVIOUS
<1>2. PICK T \in Bad : \A U \in Bad : U \subseteq T => U = T
  <2>1. Bad \subseteq SUBSET S OBVIOUS
  <2> HIDE DEF Bad
  <2> QED BY <1>1, <2>1, Smallest
<1>3. T \subseteq S /\ SumFunctionOnSet(f, T) # SumFunctionOnSet(g, T) /\ IsFiniteSet(T)
  BY FS_Subset
<1>4. T # {} BY <1>3, SumEmpty
<1>5. T \ {PickOf(T)} \notin Bad BY <1>2, <1>4, PickIn
<1>6. SumFunctionOnSet(f, T \ {PickOf(T)}) = SumFunctionOnSet(g, T \ {PickOf(T)})
  BY <1>3, <1>5
<1>7. f[PickOf(T)] = g[PickOf(T)] BY <1>3, <1>4, PickIn
<1> QED BY <1>3, <1>4, <1>6, <1>7, SumIsValue

LEMMA SumAdd ==
    ASSUME NEW S, IsFiniteSet(S), NEW f, NEW x, x \notin S, \A y \in S \cup {x} : f[y] \in Int
    PROVE  SumFunctionOnSet(f, S \cup {x}) = f[x] + SumFunctionOnSet(f, S)
<1>1. IsFiniteSet(S \cup {x}) BY FS_AddElement
<1>2. (S \cup {x}) \ {x} = S OBVIOUS
<1> QED BY <1>1, <1>2, SumRemove

\* One value changed changes the sum by the difference.
LEMMA SumChange ==
    ASSUME NEW S, IsFiniteSet(S), NEW f, NEW g, NEW x \in S,
           \A y \in S : f[y] \in Int /\ g[y] \in Int,
           \A y \in S \ {x} : f[y] = g[y]
    PROVE  SumFunctionOnSet(g, S) = SumFunctionOnSet(f, S) + (g[x] - f[x])
<1> DEFINE R == S \ {x}
<1>1. IsFiniteSet(R) BY FS_Subset
<1>2. SumFunctionOnSet(f, R) = SumFunctionOnSet(g, R) BY <1>1, SumSame
<1>3. SumFunctionOnSet(f, R) \in Int BY <1>1, SumType
<1>4. SumFunctionOnSet(f, S) = f[x] + SumFunctionOnSet(f, R) BY SumRemove
<1>5. SumFunctionOnSet(g, S) = g[x] + SumFunctionOnSet(g, R) BY SumRemove
<1> HIDE DEF R
<1> QED BY <1>2, <1>3, <1>4, <1>5

\* A sum over more members, each at least as large, is at least as large.
LEMMA SumAtMost ==
    ASSUME NEW S, IsFiniteSet(S), NEW f, NEW g, NEW P \in SUBSET S,
           \A y \in S : f[y] \in Int /\ g[y] \in Int,
           \A y \in P : f[y] <= g[y],
           \A y \in S \ P : g[y] >= 0
    PROVE  SumFunctionOnSet(f, P) <= SumFunctionOnSet(g, S)
<1> DEFINE F(T) == SumFunctionOnSet(f, T \cap P)
           G(T) == SumFunctionOnSet(g, T)
           Bad == {T \in SUBSET S : ~ (F(T) <= G(T))}
<1>1. SUFFICES Bad = {}
  <2>1. S \cap P = P OBVIOUS
  <2> QED BY <1>1, <2>1
<1>2. SUFFICES ASSUME Bad # {} PROVE FALSE
  OBVIOUS
<1>3. PICK T \in Bad : \A U \in Bad : U \subseteq T => U = T
  <2>1. Bad \subseteq SUBSET S OBVIOUS
  <2> HIDE DEF Bad
  <2> QED BY <1>2, <2>1, Smallest
<1>4. T \subseteq S /\ ~ (F(T) <= G(T)) OBVIOUS
<1>5. T # {}
  <2>1. {} \cap P = {} OBVIOUS
  <2>2. F({}) = 0 /\ G({}) = 0 BY <2>1, SumEmpty
  <2> HIDE DEF F, G
  <2> QED BY <1>4, <2>2
<1>6. PICK x \in T : TRUE BY <1>5
<1> DEFINE R == T \ {x}
<1>7. F(R) <= G(R) BY <1>3, <1>4, <1>6
<1>8. IsFiniteSet(T) /\ IsFiniteSet(R) /\ IsFiniteSet(T \cap P) /\ IsFiniteSet(R \cap P)
  BY <1>4, FS_Subset
<1>9. G(T) = g[x] + G(R) BY <1>4, <1>6, <1>8, SumRemove
<1>10. F(R) \in Int /\ G(R) \in Int BY <1>4, <1>8, SumType
<1>11. f[x] \in Int /\ g[x] \in Int BY <1>4, <1>6
<1>12. CASE x \in P
  <2>1. (T \cap P) \ {x} = R \cap P OBVIOUS
  <2>2. F(T) = f[x] + F(R) BY <1>4, <1>6, <1>8, <1>12, <2>1, SumRemove
  <2>3. f[x] <= g[x] BY <1>12
  <2> HIDE DEF F, G, R
  <2> QED BY <1>4, <1>7, <1>9, <1>10, <1>11, <2>2, <2>3
<1>13. CASE x \notin P
  <2>1. T \cap P = R \cap P BY <1>13
  <2>2. F(T) = F(R) BY <2>1
  <2>3. g[x] >= 0 BY <1>4, <1>6, <1>13
  <2> HIDE DEF F, G, R
  <2> QED BY <1>4, <1>7, <1>9, <1>10, <1>11, <2>2, <2>3
<1> QED BY <1>12, <1>13

\* Members that count nothing may be left out.
LEMMA SumRelevant ==
    ASSUME NEW S, IsFiniteSet(S), NEW f, NEW P \in SUBSET S,
           \A y \in S : f[y] \in Int, \A y \in S \ P : f[y] = 0
    PROVE  SumFunctionOnSet(f, P) = SumFunctionOnSet(f, S)
<1> DEFINE F(T) == SumFunctionOnSet(f, T \cap P)
           G(T) == SumFunctionOnSet(f, T)
           Bad == {T \in SUBSET S : F(T) # G(T)}
<1>1. SUFFICES Bad = {}
  <2>1. S \cap P = P OBVIOUS
  <2> QED BY <1>1, <2>1
<1>2. SUFFICES ASSUME Bad # {} PROVE FALSE
  OBVIOUS
<1>3. PICK T \in Bad : \A U \in Bad : U \subseteq T => U = T
  <2>1. Bad \subseteq SUBSET S OBVIOUS
  <2> HIDE DEF Bad
  <2> QED BY <1>2, <2>1, Smallest
<1>4. T \subseteq S /\ F(T) # G(T) OBVIOUS
<1>5. T # {}
  <2>1. {} \cap P = {} OBVIOUS
  <2> QED BY <1>4, <2>1
<1>6. PICK x \in T : TRUE BY <1>5
<1> DEFINE R == T \ {x}
<1>7. F(R) = G(R) BY <1>3, <1>4, <1>6
<1>8. IsFiniteSet(T) /\ IsFiniteSet(T \cap P) /\ IsFiniteSet(R)
  BY <1>4, FS_Subset
<1>9. G(T) = f[x] + G(R) BY <1>4, <1>6, <1>8, SumRemove
<1>10. CASE x \in P
  <2>1. (T \cap P) \ {x} = R \cap P OBVIOUS
  <2>2. F(T) = f[x] + F(R) BY <1>4, <1>6, <1>8, <1>10, <2>1, SumRemove
  <2> HIDE DEF F, G, R
  <2> QED BY <1>4, <1>7, <1>9, <2>2
<1>11. CASE x \notin P
  <2>1. T \cap P = R \cap P BY <1>11
  <2>2. F(T) = F(R) BY <2>1
  <2>3. f[x] = 0 BY <1>4, <1>6, <1>11
  <2>4. G(R) \in Int BY <1>4, <1>8, SumType
  <2> HIDE DEF F, G, R
  <2> QED BY <1>4, <1>7, <1>9, <2>2, <2>3, <2>4
<1> QED BY <1>10, <1>11

\* Of two sets that share no member the sums add up.
LEMMA SumUnion ==
    ASSUME NEW A, IsFiniteSet(A), NEW B, IsFiniteSet(B), A \cap B = {},
           NEW f, \A y \in A \cup B : f[y] \in Int
    PROVE  SumFunctionOnSet(f, A \cup B) = SumFunctionOnSet(f, A) + SumFunctionOnSet(f, B)
<1> DEFINE Sum(T) == SumFunctionOnSet(f, T)
           Bad == {T \in SUBSET A : Sum(T \cup B) # Sum(T) + Sum(B)}
<1>1. SUFFICES ASSUME Bad # {} PROVE FALSE
  OBVIOUS
<1>2. PICK T \in Bad : \A U \in Bad : U \subseteq T => U = T
  <2>1. Bad \subseteq SUBSET A OBVIOUS
  <2> HIDE DEF Bad
  <2> QED BY <1>1, <2>1, Smallest
<1>3. T \subseteq A /\ Sum(T \cup B) # Sum(T) + Sum(B) OBVIOUS
<1>4. Sum(B) \in Int BY SumType
<1>5. T # {}
  <2>1. {} \cup B = B OBVIOUS
  <2> QED BY <1>3, <1>4, <2>1, SumEmpty
<1>6. PICK x \in T : TRUE BY <1>5
<1> DEFINE R == T \ {x}
<1>7. Sum(R \cup B) = Sum(R) + Sum(B) BY <1>2, <1>3, <1>6
<1>8. IsFiniteSet(T) /\ IsFiniteSet(R) BY <1>3, FS_Subset
<1>9. IsFiniteSet(T \cup B) BY <1>8, FS_Union
<1>10. Sum(T) = f[x] + Sum(R) BY <1>3, <1>6, <1>8, SumRemove
<1>11. (T \cup B) \ {x} = R \cup B BY <1>3, <1>6
<1>12. Sum(T \cup B) = f[x] + Sum(R \cup B) BY <1>3, <1>6, <1>9, <1>11, SumRemove
<1>13. Sum(R) \in Int BY <1>3, <1>8, SumType
<1>14. f[x] \in Int BY <1>3, <1>6
<1> HIDE DEF Sum, R
<1> QED BY <1>3, <1>4, <1>7, <1>10, <1>12, <1>13, <1>14

\* The sum over the images of the members of a set is the sum over the set, if
\* no two have one image.
LEMMA SumImage ==
    ASSUME NEW S, IsFiniteSet(S), NEW h, NEW f, NEW g,
           \A x, y \in S : h[x] = h[y] => x = y,
           \A x \in S : f[x] \in Int /\ g[h[x]] = f[x]
    PROVE  /\ IsFiniteSet({h[x] : x \in S})
           /\ SumFunctionOnSet(g, {h[x] : x \in S}) = SumFunctionOnSet(f, S)
<1> DEFINE Im(T) == {h[x] : x \in T}
           Good(T) == IsFiniteSet(Im(T)) /\ SumFunctionOnSet(g, Im(T)) = SumFunctionOnSet(f, T)
           Bad == {T \in SUBSET S : ~ Good(T)}
<1>1. SUFFICES ASSUME Bad # {} PROVE FALSE
  OBVIOUS
<1>2. PICK T \in Bad : \A U \in Bad : U \subseteq T => U = T
  <2>1. Bad \subseteq SUBSET S OBVIOUS
  <2> HIDE DEF Bad
  <2> QED BY <1>1, <2>1, Smallest
<1>3. T \subseteq S /\ ~ Good(T) OBVIOUS
<1>4. T # {}
  <2>1. Im({}) = {} OBVIOUS
  <2>2. Good({}) BY <2>1, SumEmpty, FS_EmptySet
  <2> QED BY <1>3, <2>2
<1>5. PICK x \in T : TRUE BY <1>4
<1> DEFINE R == T \ {x}
<1>6. Good(R) BY <1>2, <1>3, <1>5
<1>7. Im(T) = Im(R) \cup {h[x]} BY <1>5
<1>8. h[x] \notin Im(R) BY <1>3, <1>5
<1>9. IsFiniteSet(Im(T))
  <2>1. IsFiniteSet(Im(R)) BY <1>6
  <2> HIDE DEF Im, R
  <2> QED BY <1>7, <2>1, FS_AddElement
<1>10. SumFunctionOnSet(f, T) = f[x] + SumFunctionOnSet(f, R)
  <2>1. IsFiniteSet(T) BY <1>3, FS_Subset
  <2> QED BY <1>3, <1>5, <2>1, SumRemove
<1>11. \A y \in Im(T) : g[y] \in Int BY <1>3
<1>12. SumFunctionOnSet(g, Im(T)) = g[h[x]] + SumFunctionOnSet(g, Im(R))
  <2>1. \A y \in Im(R) \cup {h[x]} : g[y] \in Int BY <1>7, <1>11
  <2>2. IsFiniteSet(Im(R)) BY <1>6
  <2> HIDE DEF Im, R
  <2> QED BY <1>7, <1>8, <2>1, <2>2, SumAdd
<1>13. g[h[x]] = f[x] BY <1>3, <1>5
<1> QED BY <1>3, <1>6, <1>9, <1>10, <1>12, <1>13
===============================================================================
