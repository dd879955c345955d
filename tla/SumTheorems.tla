---------------------------- MODULE SumTheorems ----------------------------
(***************************************************************************)
(* Facts about SumFunctionOnSet, the sum of a function's values over a      *)
(* finite set.  The library's induction theorems have an operator as a      *)
(* parameter; here an induction is a least counterexample: the set of those *)
(* there are is a set of finite sets, and has a minimal one.                *)
(***************************************************************************)
EXTENDS FiniteSetsExt, FiniteSetTheorems, TLAPS

\* A set of subsets of a finite set has a minimal element.
LEMMA LeastSubset ==
  ASSUME NEW S, IsFiniteSet(S), NEW W \in SUBSET (SUBSET S), W # {}
  PROVE  \E T \in W : \A U \in W : ~(U \subseteq T /\ U # T)
<1> DEFINE R == StrictSubsetOrdering(S)
<1>1. IsWellFoundedOn(R, SUBSET S)
  BY FS_StrictSubsetOrderingWellFounded, FS_FiniteSubsetsOfFinite
<1>2. PICK T \in W : \A U \in W : ~(<<U, T>> \in R)
  <2> HIDE DEF R
  <2> QED BY <1>1, WFMin
<1> QED BY <1>2 DEF StrictSubsetOrdering

-----------------------------------------------------------------------------
(* The sum satisfies the equation it is defined by.                         *)

Pick(s) == CHOOSE x \in s : TRUE

\* g gives the sum of each subset of T.
SumsOf(f, g, T) ==
  g = [s \in SUBSET T |-> IF s = {} THEN 0 ELSE f[Pick(s)] + g[s \ {Pick(s)}]]

LEMMA SumDef ==
  ASSUME NEW f, NEW S
  PROVE  SumFunctionOnSet(f, S) = (CHOOSE g : SumsOf(f, g, S))[S]
BY DEF SumFunctionOnSet, FoldFunctionOnSet, MapThenFoldSet, SumsOf, Pick

LEMMA PickIn == \A s : s # {} => Pick(s) \in s /\ s \ {Pick(s)} \subseteq s /\ s \ {Pick(s)} # s
<1>1. \A s : s # {} => Pick(s) \in s
  BY DEF Pick
<1> QED BY <1>1

LEMMA SumsEquation ==
  ASSUME NEW f, NEW g, NEW T, SumsOf(f, g, T), NEW s \in SUBSET T
  PROVE  g[s] = IF s = {} THEN 0 ELSE f[Pick(s)] + g[s \ {Pick(s)}]
<1> DEFINE h == [r \in SUBSET T |-> IF r = {} THEN 0 ELSE f[Pick(r)] + g[r \ {Pick(r)}]]
<1>1. g = h
  BY DEF SumsOf
<1>2. h[s] = IF s = {} THEN 0 ELSE f[Pick(s)] + g[s \ {Pick(s)}]
  OBVIOUS
<1> QED BY <1>1, <1>2, Zenon

\* Two such functions agree on what is below both of their sets.
LEMMA SumsAgree ==
  ASSUME NEW f, NEW g, NEW h, NEW T, NEW U, IsFiniteSet(T), U \subseteq T,
         SumsOf(f, g, T), SumsOf(f, h, U)
  PROVE  \A s \in SUBSET U : g[s] = h[s]
<1> DEFINE W == {s \in SUBSET U : g[s] # h[s]}
<1> SUFFICES ASSUME W # {} PROVE FALSE
  OBVIOUS
<1>1. W \in SUBSET (SUBSET T)
  OBVIOUS
<1>2. PICK s \in W : \A r \in W : ~(r \subseteq s /\ r # s)
  <2> HIDE DEF W
  <2> QED BY <1>1, LeastSubset
<1>3. s \in SUBSET U /\ s \in SUBSET T /\ g[s] # h[s]
  OBVIOUS
<1>4. /\ g[s] = IF s = {} THEN 0 ELSE f[Pick(s)] + g[s \ {Pick(s)}]
      /\ h[s] = IF s = {} THEN 0 ELSE f[Pick(s)] + h[s \ {Pick(s)}]
  BY <1>3, SumsEquation
<1>5. s # {}
  BY <1>3, <1>4
<1>6. g[s \ {Pick(s)}] = h[s \ {Pick(s)}]
  BY <1>2, <1>3, <1>5, PickIn
<1> QED BY <1>3, <1>4, <1>5, <1>6

\* Every finite set has one: of a least set that has none, all smaller sets do,
\* and their sums make up a function for it.
LEMMA SumsExist ==
  ASSUME NEW f, NEW S, IsFiniteSet(S)
  PROVE  \A T \in SUBSET S : SumsOf(f, CHOOSE g : SumsOf(f, g, T), T)
<1> DEFINE Of(T) == CHOOSE g : SumsOf(f, g, T)
           W == {T \in SUBSET S : ~SumsOf(f, Of(T), T)}
<1> SUFFICES ASSUME W # {} PROVE FALSE
  OBVIOUS
<1>1. PICK T \in W : \A U \in W : ~(U \subseteq T /\ U # T)
  <2>1. W \in SUBSET (SUBSET S)
    OBVIOUS
  <2> HIDE DEF W
  <2> QED BY <2>1, LeastSubset
<1>2. \A U \in SUBSET T : U # T => SumsOf(f, Of(U), U)
  BY <1>1
<1> DEFINE g == [s \in SUBSET T |-> IF s = {} THEN 0
                                   ELSE f[Pick(s)] + Of(s \ {Pick(s)})[s \ {Pick(s)}]]
<1>3. ASSUME NEW s \in SUBSET T, s # {}
      PROVE  g[s \ {Pick(s)}] = Of(s \ {Pick(s)})[s \ {Pick(s)}]
  <2> DEFINE r == s \ {Pick(s)}
             q == r \ {Pick(r)}
  <2>1. r \in SUBSET T /\ r # T /\ IsFiniteSet(r)
    BY <1>3, PickIn, FS_Subset, T \in SUBSET S
  <2>2. SumsOf(f, Of(r), r)
    BY <2>1, <1>2
  <2>3. Of(r)[r] = IF r = {} THEN 0 ELSE f[Pick(r)] + Of(r)[q]
    <3> HIDE DEF Of, r
    <3> QED BY <2>2, SumsEquation
  <2>4. CASE r = {}
    BY <2>1, <2>3, <2>4
  <2>5. CASE r # {}
    <3>1. q \in SUBSET r /\ q # r
      BY <2>5, PickIn
    <3>2. SumsOf(f, Of(q), q)
      BY <2>1, <3>1, <1>2
    <3>3. Of(r)[q] = Of(q)[q]
      <4> HIDE DEF Of, r, q
      <4> QED BY <2>1, <2>2, <3>1, <3>2, SumsAgree
    <3>4. g[r] = f[Pick(r)] + Of(q)[q]
      BY <2>1, <2>5
    <3> QED BY <2>3, <2>5, <3>3, <3>4
  <2> QED BY <2>4, <2>5
<1>4. SumsOf(f, g, T)
  <2>1. \A s \in SUBSET T : (IF s = {} THEN 0 ELSE f[Pick(s)] + Of(s \ {Pick(s)})[s \ {Pick(s)}])
                           = (IF s = {} THEN 0 ELSE f[Pick(s)] + g[s \ {Pick(s)}])
    <3> HIDE DEF g, Of
    <3> QED BY <1>3
  <2>2. g = [s \in SUBSET T |-> IF s = {} THEN 0 ELSE f[Pick(s)] + g[s \ {Pick(s)}]]
    <3> DEFINE One(s) == IF s = {} THEN 0 ELSE f[Pick(s)] + Of(s \ {Pick(s)})[s \ {Pick(s)}]
               Other(s) == IF s = {} THEN 0 ELSE f[Pick(s)] + g[s \ {Pick(s)}]
    <3>1. \A s \in SUBSET T : One(s) = Other(s)
      BY <2>1
    <3>2. g = [s \in SUBSET T |-> One(s)]
      OBVIOUS
    <3> HIDE DEF One, Other, g
    <3>3. g = [s \in SUBSET T |-> Other(s)]
      BY <3>1, <3>2
    <3> QED BY <3>3, Zenon DEF Other
  <2> HIDE DEF g
  <2> QED BY <2>2, Zenon DEF SumsOf
<1>5. SumsOf(f, Of(T), T)
  <2> HIDE DEF g
  <2> QED BY <1>4
<1> QED BY <1>1, <1>5

LEMMA SumEquation ==
  ASSUME NEW f, NEW S, IsFiniteSet(S)
  PROVE  SumFunctionOnSet(f, S) =
           IF S = {} THEN 0 ELSE f[Pick(S)] + SumFunctionOnSet(f, S \ {Pick(S)})
<1> DEFINE Of(T) == CHOOSE g : SumsOf(f, g, T)
           r == S \ {Pick(S)}
<1>1. SumsOf(f, Of(S), S) /\ SumsOf(f, Of(r), r)
  BY SumsExist
<1>2. SumFunctionOnSet(f, S) = Of(S)[S] /\ SumFunctionOnSet(f, r) = Of(r)[r]
  BY SumDef
<1> HIDE DEF Of, r
<1>3. Of(S)[S] = IF S = {} THEN 0 ELSE f[Pick(S)] + Of(S)[r]
  BY <1>1, SumsEquation DEF r
<1>4. Of(S)[r] = Of(r)[r]
  BY <1>1, SumsAgree DEF r
<1> QED BY <1>2, <1>3, <1>4 DEF r

-----------------------------------------------------------------------------
(* The sum does not depend on the order in which elements are picked.       *)

LEMMA SumEmpty == \A f : SumFunctionOnSet(f, {}) = 0
  BY SumEquation, FS_EmptySet

LEMMA SumType ==
  ASSUME NEW S, IsFiniteSet(S), NEW f, \A x \in S : f[x] \in Int
  PROVE  \A T \in SUBSET S : SumFunctionOnSet(f, T) \in Int
<1> DEFINE W == {T \in SUBSET S : SumFunctionOnSet(f, T) \notin Int}
<1> SUFFICES ASSUME W # {} PROVE FALSE
  OBVIOUS
<1>1. PICK T \in W : \A U \in W : ~(U \subseteq T /\ U # T)
  <2>1. W \in SUBSET (SUBSET S)
    OBVIOUS
  <2> HIDE DEF W
  <2> QED BY <2>1, LeastSubset
<1>2. T \in SUBSET S /\ SumFunctionOnSet(f, T) \notin Int
  OBVIOUS
<1>3. SumFunctionOnSet(f, T) =
        IF T = {} THEN 0 ELSE f[Pick(T)] + SumFunctionOnSet(f, T \ {Pick(T)})
  BY <1>2, FS_Subset, SumEquation
<1>4. T # {}
  BY <1>2, <1>3
<1>5. f[Pick(T)] \in Int /\ SumFunctionOnSet(f, T \ {Pick(T)}) \in Int
  BY <1>1, <1>2, <1>4, PickIn
<1> QED BY <1>2, <1>3, <1>4, <1>5

LEMMA SumRemove ==
  ASSUME NEW S, IsFiniteSet(S), NEW f, \A x \in S : f[x] \in Int
  PROVE  \A T \in SUBSET S : \A x \in T :
           SumFunctionOnSet(f, T) = f[x] + SumFunctionOnSet(f, T \ {x})
<1> DEFINE W == {T \in SUBSET S :
                   \E x \in T : SumFunctionOnSet(f, T) # f[x] + SumFunctionOnSet(f, T \ {x})}
<1> SUFFICES ASSUME W # {} PROVE FALSE
  OBVIOUS
<1>1. PICK T \in W : \A U \in W : ~(U \subseteq T /\ U # T)
  <2>1. W \in SUBSET (SUBSET S)
    OBVIOUS
  <2> HIDE DEF W
  <2> QED BY <2>1, LeastSubset
<1>2. PICK x \in T : SumFunctionOnSet(f, T) # f[x] + SumFunctionOnSet(f, T \ {x})
  OBVIOUS
<1> DEFINE y == Pick(T)
<1>3. T \in SUBSET S /\ y \in T /\ IsFiniteSet(T)
  BY <1>2, PickIn, FS_Subset
<1>4. SumFunctionOnSet(f, T) = f[y] + SumFunctionOnSet(f, T \ {y})
  BY <1>3, SumEquation
<1> HIDE DEF y
<1>5. x # y
  BY <1>2, <1>4
<1>6. ASSUME NEW z \in T, NEW v \in T, z # v
      PROVE  SumFunctionOnSet(f, T \ {z}) = f[v] + SumFunctionOnSet(f, (T \ {z}) \ {v})
  <2>1. T \ {z} \in SUBSET S /\ T \ {z} \subseteq T /\ T \ {z} # T
    BY <1>3
  <2>2. T \ {z} \notin W
    BY <2>1, <1>1
  <2> QED BY <1>6, <2>1, <2>2
<1> DEFINE rest == SumFunctionOnSet(f, (T \ {y}) \ {x})
<1>7. (T \ {x}) \ {y} = (T \ {y}) \ {x}
  OBVIOUS
<1>8. SumFunctionOnSet(f, T \ {y}) = f[x] + rest /\ SumFunctionOnSet(f, T \ {x}) = f[y] + rest
  BY <1>2, <1>3, <1>5, <1>6, <1>7, Zenon
<1>9. f[x] \in Int /\ f[y] \in Int /\ rest \in Int
  <2>1. (T \ {y}) \ {x} \in SUBSET S /\ x \in S /\ y \in S
    BY <1>2, <1>3
  <2> QED BY <2>1, SumType
<1> HIDE DEF rest
<1> QED BY <1>2, <1>4, <1>8, <1>9

LEMMA SumAdd ==
  ASSUME NEW S, IsFiniteSet(S), NEW x, x \notin S,
         NEW f, \A y \in S \cup {x} : f[y] \in Int
  PROVE  /\ SumFunctionOnSet(f, S) \in Int
         /\ SumFunctionOnSet(f, S \cup {x}) = SumFunctionOnSet(f, S) + f[x]
<1> DEFINE T == S \cup {x}
<1>1. IsFiniteSet(T) /\ x \in T /\ T \ {x} = S
  BY FS_AddElement
<1>2. SumFunctionOnSet(f, T) = f[x] + SumFunctionOnSet(f, S)
  <2>1. \A y \in T : f[y] \in Int
    OBVIOUS
  <2> HIDE DEF T
  <2>2. T \in SUBSET T
    OBVIOUS
  <2>3. SumFunctionOnSet(f, T) = f[x] + SumFunctionOnSet(f, T \ {x})
    BY <1>1, <2>1, <2>2, SumRemove
  <2> QED BY <1>1, <2>3
<1>3. SumFunctionOnSet(f, S) \in Int /\ f[x] \in Int
  BY SumType
<1> QED BY <1>1, <1>2, <1>3

\* A value at a time is never less, and at the most one more: so are the sums,
\* with one for each element.
LEMMA SumBounds ==
  ASSUME NEW S, IsFiniteSet(S), NEW f, NEW g,
         \A x \in S : /\ f[x] \in Int /\ g[x] \in Int
                      /\ f[x] <= g[x] /\ g[x] <= f[x] + 1
  PROVE  /\ SumFunctionOnSet(f, S) <= SumFunctionOnSet(g, S)
         /\ SumFunctionOnSet(g, S) <= SumFunctionOnSet(f, S) + Cardinality(S)
<1> DEFINE Bound(T) ==
             /\ SumFunctionOnSet(f, T) <= SumFunctionOnSet(g, T)
             /\ SumFunctionOnSet(g, T) <= SumFunctionOnSet(f, T) + Cardinality(T)
           W == {T \in SUBSET S : ~Bound(T)}
<1> SUFFICES ASSUME W # {} PROVE FALSE
  OBVIOUS
<1>1. PICK T \in W : \A U \in W : ~(U \subseteq T /\ U # T)
  <2>1. W \in SUBSET (SUBSET S)
    OBVIOUS
  <2> HIDE DEF W
  <2> QED BY <2>1, LeastSubset
<1>2. T \in SUBSET S /\ ~Bound(T) /\ IsFiniteSet(T)
  BY FS_Subset
<1>3. T # {}
  BY <1>2, SumEmpty, FS_EmptySet
<1> DEFINE x == Pick(T)
           U == T \ {x}
<1>4. x \in T /\ U \in SUBSET S /\ U \subseteq T /\ U # T
  BY <1>2, <1>3, PickIn
<1>5. Bound(U)
  BY <1>1, <1>4
<1>6. /\ SumFunctionOnSet(f, T) = f[x] + SumFunctionOnSet(f, U)
      /\ SumFunctionOnSet(g, T) = g[x] + SumFunctionOnSet(g, U)
  BY <1>2, <1>3, SumEquation
<1>7. Cardinality(T) = Cardinality(U) + 1 /\ Cardinality(U) \in Nat
  <2>1. Cardinality(U) = IF x \in T THEN Cardinality(T) - 1 ELSE Cardinality(T)
    BY <1>2, FS_RemoveElement
  <2>2. Cardinality(T) \in Nat /\ Cardinality(U) \in Nat
    BY <1>2, <1>4, FS_Subset, FS_CardinalityType
  <2> HIDE DEF x, U
  <2> QED BY <1>4, <2>1, <2>2
<1>8. SumFunctionOnSet(f, U) \in Int /\ SumFunctionOnSet(g, U) \in Int
  BY <1>4, SumType
<1> HIDE DEF x, U
<1> QED BY <1>2, <1>4, <1>5, <1>6, <1>7, <1>8

\* Only the values on the set count.
LEMMA SumSame ==
  ASSUME NEW S, IsFiniteSet(S), NEW f, NEW g,
         \A x \in S : f[x] \in Int /\ f[x] = g[x]
  PROVE  SumFunctionOnSet(f, S) = SumFunctionOnSet(g, S)
<1>1. /\ SumFunctionOnSet(f, S) <= SumFunctionOnSet(g, S)
      /\ SumFunctionOnSet(g, S) <= SumFunctionOnSet(f, S)
  BY SumBounds
<1>2. SumFunctionOnSet(f, S) \in Int /\ SumFunctionOnSet(g, S) \in Int
  BY SumType
<1> QED BY <1>1, <1>2

=============================================================================
