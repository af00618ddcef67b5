------------------------------- MODULE Facts -------------------------------
(***************************************************************************)
(* Facts about data that the proofs of several components rest on: least   *)
(* and greatest elements of sets of natural numbers, which row ids are     *)
(* compared by, smallest sets, and the sums of the community module        *)
(* Functions, which figures are added up with.  Induction over finite sets *)
(* is done by looking at a smallest counterexample.                        *)
(***************************************************************************)
EXTENDS FiniteSetTheorems, TLAPS

\* Every nonempty set of naturals has a least element.
LEMMA LeastNat ==
  ASSUME NEW S \in SUBSET Nat, S # {}
  PROVE  \E m \in S : \A n \in S : m <= n
<1> DEFINE R == OpToRel(<, Nat)
<1>1. IsWellFoundedOn(R, Nat)
  BY NatLessThanWellFounded
<1> HIDE DEF R
<1>2. PICK m \in S : \A n \in S : ~ (<<n, m>> \in R)
  BY <1>1, WFMin
<1>3. \A x, y \in Nat : x < y => <<x, y>> \in R
  BY DEF R, OpToRel
<1>4. ASSUME NEW n \in S  PROVE m <= n
  <2>1. ~ (n < m)
    BY <1>2, <1>3
  <2> QED BY <2>1
<1> QED BY <1>4

\* A set of naturals with an upper bound and an element has a greatest element.
LEMMA GreatestNat ==
  ASSUME NEW S \in SUBSET Nat, S # {}, NEW b \in Nat, \A n \in S : n <= b
  PROVE  \E m \in S : \A n \in S : m >= n
<1> DEFINE U == {u \in Nat : \A n \in S : n <= u}
<1>1. PICK m \in U : \A u \in U : m <= u
  BY LeastNat
<1>2. m \in S
  <2>1. SUFFICES ASSUME m \notin S  PROVE FALSE
    OBVIOUS
  <2>2. \A n \in S : n <= m - 1
    BY <1>1, <2>1
  <2>3. m - 1 \in Nat
    <3>1. PICK n \in S : TRUE
      OBVIOUS
    <3>2. m \in Nat /\ n \in Nat /\ n <= m - 1
      BY <2>2, <3>1
    <3> QED BY <3>2
  <2>4. m - 1 \in U
    BY <2>2, <2>3
  <2> QED BY <1>1, <2>4
<1> QED BY <1>1, <1>2
-----------------------------------------------------------------------------
\* Among subsets of a finite set there is one with no other of them inside it.
LEMMA SmallestSet ==
  ASSUME NEW S, IsFiniteSet(S), NEW B \in SUBSET SUBSET S, B # {}
  PROVE  \E s \in B : \A t \in B : t \subseteq s => t = s
<1>1. IsWellFoundedOn(StrictSubsetOrdering(S), SUBSET S)
  BY FS_StrictSubsetOrderingWellFounded, FS_FiniteSubsetsOfFinite
<1>2. PICK s \in B : \A t \in B : ~ (<<t, s>> \in StrictSubsetOrdering(S))
  BY <1>1, WFMin
<1>3. ASSUME NEW t \in B, t \subseteq s  PROVE t = s
  BY <1>2, <1>3 DEF StrictSubsetOrdering
<1> QED BY <1>3

\* The sum's recursion over the subsets of a set: the element taken is arbitrary.
SumSteps(f, S, g) ==
  g = [s \in SUBSET S |-> IF s = {} THEN 0
                          ELSE f[CHOOSE x \in s : TRUE] + g[s \ {CHOOSE x \in s : TRUE}]]

\* Two such recursions agree on the finite sets both are about.
LEMMA SumStepsAgree ==
  ASSUME NEW f, NEW S, NEW T, NEW g, NEW h, SumSteps(f, S, g), SumSteps(f, T, h),
         NEW s, s \subseteq S, s \subseteq T, IsFiniteSet(s)
  PROVE  g[s] = h[s]
<1> DEFINE B == {t \in SUBSET s : g[t] # h[t]}
<1>1. SUFFICES ASSUME B # {}  PROVE FALSE
  OBVIOUS
<1>2. PICK t \in B : \A u \in B : u \subseteq t => u = t
  <2>1. B \in SUBSET SUBSET s
    OBVIOUS
  <2> HIDE DEF B
  <2> QED BY <1>1, <2>1, SmallestSet
<1>3. t # {}
  BY DEF SumSteps
<1> DEFINE x == CHOOSE x \in t : TRUE
<1>4. x \in t
  BY <1>3
<1>5. t \ {x} \notin B
  BY <1>2, <1>4
<1>6. g[t \ {x}] = h[t \ {x}]
  BY <1>5
<1>7. g[t] = f[x] + g[t \ {x}] /\ h[t] = f[x] + h[t \ {x}]
  BY <1>3 DEF SumSteps
<1> QED BY <1>6, <1>7

\* And there is one about every finite set.
LEMMA SumStepsExist ==
  ASSUME NEW f, NEW S, IsFiniteSet(S)
  PROVE  \E g : SumSteps(f, S, g)
<1> DEFINE B == {s \in SUBSET S : ~ \E g : SumSteps(f, s, g)}
<1>1. SUFFICES ASSUME B # {}  PROVE FALSE
  OBVIOUS
<1>2. PICK T \in B : \A u \in B : u \subseteq T => u = T
  <2>1. B \in SUBSET SUBSET S
    OBVIOUS
  <2> HIDE DEF B
  <2> QED BY <1>1, <2>1, SmallestSet
<1> DEFINE h == [s \in SUBSET T |-> CHOOSE g : SumSteps(f, s, g)]
           rest(s) == s \ {CHOOSE x \in s : TRUE}
           sum == [s \in SUBSET T |-> IF s = {} THEN 0
                                      ELSE f[CHOOSE x \in s : TRUE] + h[rest(s)][rest(s)]]
<1>3. ASSUME NEW s \in SUBSET T, s # T  PROVE SumSteps(f, s, h[s])
  <2>1. \E g : SumSteps(f, s, g)
    BY <1>2, <1>3
  <2> QED BY <2>1
<1>4. ASSUME NEW s \in SUBSET T, s # {}  PROVE sum[rest(s)] = h[rest(s)][rest(s)]
  <2> DEFINE u == rest(s)
  <2>1. u \subseteq T /\ u # T /\ IsFiniteSet(u)
    BY <1>4, FS_Subset
  <2>2. SumSteps(f, u, h[u])
    BY <1>3, <2>1
  <2>3. CASE u = {}
    BY <2>1, <2>2, <2>3 DEF SumSteps
  <2>4. CASE u # {}
    <3>1. h[u][u] = f[CHOOSE x \in u : TRUE] + h[u][rest(u)]
      BY <2>2, <2>4 DEF SumSteps
    <3>2. rest(u) \subseteq T /\ rest(u) # T /\ rest(u) \subseteq u /\ IsFiniteSet(rest(u))
      BY <2>1, <2>4, FS_Subset
    <3>3. SumSteps(f, rest(u), h[rest(u)])
      BY <1>3, <3>2
    <3> DEFINE v == rest(u)
    <3> HIDE DEF v
    <3>4. h[u][v] = h[v][v]
      <4>1. SumSteps(f, u, h[u]) /\ SumSteps(f, v, h[v]) /\ v \subseteq u /\ IsFiniteSet(v)
        BY <2>2, <3>2, <3>3 DEF v
      <4> HIDE DEF h, u
      <4> QED BY <4>1, SumStepsAgree
    <3> QED BY <2>1, <2>4, <3>1, <3>4 DEF v
  <2> QED BY <2>3, <2>4
<1>5. SumSteps(f, T, sum)
  <2>1. ASSUME NEW s \in SUBSET T
        PROVE  sum[s] = IF s = {} THEN 0 ELSE f[CHOOSE x \in s : TRUE] + sum[rest(s)]
    <3>1. sum[s] = IF s = {} THEN 0 ELSE f[CHOOSE x \in s : TRUE] + h[rest(s)][rest(s)]
      OBVIOUS
    <3> HIDE DEF sum, h, rest
    <3> QED BY <1>4, <3>1
  <2>2. sum = [s \in SUBSET T |-> sum[s]]
    OBVIOUS
  <2> HIDE DEF sum
  <2> QED BY <2>1, <2>2 DEF SumSteps
<1> QED BY <1>2, <1>5

LEMMA SumIsAnyRecursion ==
  ASSUME NEW f, NEW S, IsFiniteSet(S), NEW g, SumSteps(f, S, g)
  PROVE  SumFunctionOnSet(f, S) = g[S]
<1> DEFINE Step(h) ==
      h = [s \in SUBSET S |-> IF s = {} THEN 0
                              ELSE f[CHOOSE x \in s : TRUE] + h[s \ {CHOOSE x \in s : TRUE}]]
<1>1. SumFunctionOnSet(f, S) = (CHOOSE h : Step(h))[S]
  BY DEF SumFunctionOnSet, FoldFunctionOnSet, MapThenFoldSet
<1>2. Step(g)
  BY DEF SumSteps
<1>3. Step(CHOOSE h : Step(h))
  <2> HIDE DEF Step
  <2> QED BY <1>2
<1>4. SumSteps(f, S, CHOOSE h : Step(h))
  BY <1>3 DEF SumSteps
<1> QED
  <2> DEFINE h == CHOOSE h : Step(h)
  <2>1. SumSteps(f, S, h) /\ SumFunctionOnSet(f, S) = h[S]
    BY <1>1, <1>4
  <2> HIDE DEF h
  <2> QED BY <2>1, SumStepsAgree

LEMMA SumEmpty == ASSUME NEW f  PROVE SumFunctionOnSet(f, {}) = 0
<1>1. IsFiniteSet({})
  BY FS_EmptySet
<1>2. PICK g : SumSteps(f, {}, g)
  BY <1>1, SumStepsExist
<1>3. g[{}] = 0
  BY <1>2 DEF SumSteps
<1> QED BY <1>1, <1>2, <1>3, SumIsAnyRecursion

\* A sum takes some element first, which one is not said.
LEMMA SumTakesOne ==
  ASSUME NEW f, NEW S, IsFiniteSet(S), S # {}
  PROVE  \E x \in S : SumFunctionOnSet(f, S) = f[x] + SumFunctionOnSet(f, S \ {x})
<1> DEFINE x == CHOOSE x \in S : TRUE
<1>1. x \in S
  OBVIOUS
<1>2. PICK g : SumSteps(f, S, g)
  BY SumStepsExist
<1>3. g[S] = f[x] + g[S \ {x}]
  BY <1>2 DEF SumSteps
<1> HIDE DEF x
<1>4. IsFiniteSet(S \ {x})
  BY FS_RemoveElement
<1>5. PICK h : SumSteps(f, S \ {x}, h)
  BY <1>4, SumStepsExist
<1>6. g[S \ {x}] = h[S \ {x}]
  BY <1>2, <1>4, <1>5, SumStepsAgree
<1>7. SumFunctionOnSet(f, S) = g[S]
  BY <1>2, SumIsAnyRecursion
<1>8. SumFunctionOnSet(f, S \ {x}) = h[S \ {x}]
  BY <1>4, <1>5, SumIsAnyRecursion
<1> QED BY <1>1, <1>3, <1>6, <1>7, <1>8

\* The values summed are whole numbers.
Summable(f, S) == IsFiniteSet(S) /\ \A x \in S : f[x] \in Int

LEMMA SumType ==
  ASSUME NEW f, NEW S, Summable(f, S)
  PROVE  SumFunctionOnSet(f, S) \in Int
<1> DEFINE B == {s \in SUBSET S : SumFunctionOnSet(f, s) \notin Int}
<1>1. SUFFICES ASSUME B # {}  PROVE FALSE
  OBVIOUS
<1>2. PICK s \in B : \A u \in B : u \subseteq s => u = s
  <2>1. B \in SUBSET SUBSET S
    OBVIOUS
  <2> HIDE DEF B
  <2> QED BY <1>1, <2>1, SmallestSet DEF Summable
<1>3. s # {}
  BY SumEmpty
<1>4. IsFiniteSet(s)
  BY FS_Subset DEF Summable
<1>5. PICK x \in s : SumFunctionOnSet(f, s) = f[x] + SumFunctionOnSet(f, s \ {x})
  BY <1>3, <1>4, SumTakesOne
<1>6. s \ {x} \notin B
  BY <1>2, <1>5
<1>7. SumFunctionOnSet(f, s \ {x}) \in Int
  BY <1>6
<1> QED BY <1>5, <1>7 DEF Summable

\* Any element can be taken first: the order of a sum does not matter.
LEMMA SumTakesAny ==
  ASSUME NEW f, NEW S, Summable(f, S), NEW x \in S
  PROVE  SumFunctionOnSet(f, S) = f[x] + SumFunctionOnSet(f, S \ {x})
<1> DEFINE Sum(s) == SumFunctionOnSet(f, s)
           Fine(s) == \A y \in s : Sum(s) = f[y] + Sum(s \ {y})
           B == {s \in SUBSET S : ~Fine(s)}
<1>1. SUFFICES ASSUME B # {}  PROVE FALSE
  OBVIOUS
<1>2. PICK s \in B : \A u \in B : u \subseteq s => u = s
  <2>1. B \in SUBSET SUBSET S
    OBVIOUS
  <2> HIDE DEF B
  <2> QED BY <1>1, <2>1, SmallestSet DEF Summable
<1>3. PICK y \in s : Sum(s) # f[y] + Sum(s \ {y})
  OBVIOUS
<1>4. PICK z \in s : Sum(s) = f[z] + Sum(s \ {z})
  BY FS_Subset, SumTakesOne DEF Summable
<1>5. y # z
  BY <1>3, <1>4
<1>6. Fine(s \ {y}) /\ Fine(s \ {z})
  BY <1>2
<1>7. Sum(s \ {y}) = f[z] + Sum(s \ {y, z}) /\ Sum(s \ {z}) = f[y] + Sum(s \ {y, z})
  <2>1. (s \ {y}) \ {z} = s \ {y, z} /\ (s \ {z}) \ {y} = s \ {y, z}
    OBVIOUS
  <2>2. Sum(s \ {y}) = f[z] + Sum((s \ {y}) \ {z}) /\ Sum(s \ {z}) = f[y] + Sum((s \ {z}) \ {y})
    BY <1>5, <1>6
  <2> HIDE DEF Sum
  <2> QED BY <2>1, <2>2
<1>8. Sum(s \ {y, z}) \in Int /\ f[y] \in Int /\ f[z] \in Int
  BY SumType, FS_Subset DEF Summable
<1> QED
  <2> HIDE DEF Sum
  <2> QED BY <1>3, <1>4, <1>7, <1>8
-----------------------------------------------------------------------------
\* Induction over the subsets of a finite set, with the set of those it holds of.
LEMMA GrowingSets ==
  ASSUME NEW S, IsFiniteSet(S), NEW P \in SUBSET SUBSET S, {} \in P,
         \A s \in P : \A x \in S \ s : s \cup {x} \in P
  PROVE  S \in P
<1> DEFINE B == (SUBSET S) \ P
<1>1. SUFFICES ASSUME B # {}  PROVE FALSE
  OBVIOUS
<1>2. PICK s \in B : \A u \in B : u \subseteq s => u = s
  <2>1. B \in SUBSET SUBSET S
    OBVIOUS
  <2> HIDE DEF B
  <2> QED BY <1>1, <2>1, SmallestSet
<1>3. PICK x \in s : TRUE
  OBVIOUS
<1>4. s \ {x} \in P
  BY <1>2
<1>5. (s \ {x}) \cup {x} \in P
  <2>1. x \in S \ (s \ {x})
    OBVIOUS
  <2> QED BY <1>4, <2>1
<1>6. (s \ {x}) \cup {x} = s
  OBVIOUS
<1> QED BY <1>5, <1>6

LEMMA SumAddsOne ==
  ASSUME NEW f, NEW S, NEW x, x \notin S, Summable(f, S \cup {x})
  PROVE  SumFunctionOnSet(f, S \cup {x}) = f[x] + SumFunctionOnSet(f, S)
<1>1. (S \cup {x}) \ {x} = S
  OBVIOUS
<1>2. SumFunctionOnSet(f, S \cup {x}) = f[x] + SumFunctionOnSet(f, (S \cup {x}) \ {x})
  BY SumTakesAny
<1> QED BY <1>1, <1>2

LEMMA SummableSubset ==
  ASSUME NEW f, NEW S, Summable(f, S), NEW T, T \subseteq S
  PROVE  Summable(f, T)
  BY FS_Subset DEF Summable

\* The sum over both of two disjoint sets.
LEMMA SumDisjoint ==
  ASSUME NEW f, NEW S, NEW T, S \cap T = {}, Summable(f, S \cup T)
  PROVE  SumFunctionOnSet(f, S \cup T) = SumFunctionOnSet(f, S) + SumFunctionOnSet(f, T)
<1> DEFINE Sum(s) == SumFunctionOnSet(f, s)
           P == {t \in SUBSET T : Sum(S \cup t) = Sum(S) + Sum(t)}
<1>1. Summable(f, S) /\ Summable(f, T)
  BY SummableSubset
<1>2. Sum(S) \in Int
  BY <1>1, SumType
<1>3. {} \in P
  <2>1. S \cup {} = S
    OBVIOUS
  <2>2. Sum({}) = 0
    BY SumEmpty
  <2> HIDE DEF Sum
  <2> QED BY <1>2, <2>1, <2>2
<1>4. ASSUME NEW t \in P, NEW x \in T \ t  PROVE t \cup {x} \in P
  <2>1. Summable(f, t \cup {x}) /\ Summable(f, t) /\ f[x] \in Int
    BY <1>1, SummableSubset DEF Summable
  <2>2. Summable(f, (S \cup t) \cup {x}) /\ x \notin S \cup t
    BY SummableSubset
  <2>3. Sum((S \cup t) \cup {x}) = f[x] + Sum(S \cup t)
    BY <2>2, SumAddsOne
  <2>4. Sum(t \cup {x}) = f[x] + Sum(t)
    BY <2>1, SumAddsOne
  <2>5. Sum(t) \in Int
    BY <2>1, SumType
  <2>6. S \cup (t \cup {x}) = (S \cup t) \cup {x}
    OBVIOUS
  <2> HIDE DEF Sum
  <2>7. Sum(S \cup (t \cup {x})) = f[x] + Sum(S \cup t)
    BY <2>3, <2>6
  <2>8. Sum(S \cup t) = Sum(S) + Sum(t)
    BY DEF Sum
  <2>9. Sum(S \cup (t \cup {x})) = Sum(S) + Sum(t \cup {x})
    BY <1>2, <2>1, <2>4, <2>5, <2>7, <2>8
  <2> QED BY <2>9 DEF Sum
<1>5. P \in SUBSET SUBSET T /\ IsFiniteSet(T)
  BY <1>1 DEF Summable
<1>6. T \in P
  <2> HIDE DEF P
  <2> QED BY <1>3, <1>4, <1>5, GrowingSets
<1> QED BY <1>6

\* The sum of the sums of two functions.
LEMMA SumOfSums ==
  ASSUME NEW f, NEW g, NEW h, NEW S, Summable(f, S), Summable(g, S),
         \A x \in S : h[x] = f[x] + g[x]
  PROVE  SumFunctionOnSet(h, S) = SumFunctionOnSet(f, S) + SumFunctionOnSet(g, S)
<1> DEFINE F(s) == SumFunctionOnSet(f, s)
           G(s) == SumFunctionOnSet(g, s)
           H(s) == SumFunctionOnSet(h, s)
           P == {s \in SUBSET S : H(s) = F(s) + G(s)}
<1>1. {} \in P
  BY SumEmpty
<1>2. ASSUME NEW s \in P, NEW x \in S \ s  PROVE s \cup {x} \in P
  <2>1. Summable(f, s \cup {x}) /\ Summable(g, s \cup {x}) /\ Summable(h, s \cup {x})
    BY FS_Subset DEF Summable
  <2>2. /\ F(s \cup {x}) = f[x] + F(s) /\ G(s \cup {x}) = g[x] + G(s)
        /\ H(s \cup {x}) = h[x] + H(s)
    BY <2>1, SumAddsOne
  <2>3. F(s) \in Int /\ G(s) \in Int /\ f[x] \in Int /\ g[x] \in Int
    BY SumType, SummableSubset DEF Summable
  <2>4. H(s) = F(s) + G(s) /\ h[x] = f[x] + g[x]
    OBVIOUS
  <2> HIDE DEF F, G, H
  <2>5. H(s \cup {x}) = F(s \cup {x}) + G(s \cup {x})
    BY <2>2, <2>3, <2>4
  <2> QED BY <2>5
<1>3. P \in SUBSET SUBSET S /\ IsFiniteSet(S)
  BY DEF Summable
<1>4. S \in P
  <2> HIDE DEF P
  <2> QED BY <1>1, <1>2, <1>3, GrowingSets
<1> QED BY <1>4

\* A sum of values of which none is the larger is not the larger.
LEMMA SumMonotone ==
  ASSUME NEW f, NEW g, NEW S, Summable(f, S), Summable(g, S), \A x \in S : f[x] <= g[x]
  PROVE  SumFunctionOnSet(f, S) <= SumFunctionOnSet(g, S)
<1> DEFINE F(s) == SumFunctionOnSet(f, s)
           G(s) == SumFunctionOnSet(g, s)
           P == {s \in SUBSET S : F(s) <= G(s)}
<1>1. {} \in P
  BY SumEmpty
<1>2. ASSUME NEW s \in P, NEW x \in S \ s  PROVE s \cup {x} \in P
  <2>1. Summable(f, s \cup {x}) /\ Summable(g, s \cup {x})
    BY SummableSubset
  <2>2. F(s \cup {x}) = f[x] + F(s) /\ G(s \cup {x}) = g[x] + G(s)
    BY <2>1, SumAddsOne
  <2>3. F(s) \in Int /\ G(s) \in Int /\ f[x] \in Int /\ g[x] \in Int
    BY SumType, SummableSubset DEF Summable
  <2>4. F(s) <= G(s) /\ f[x] <= g[x]
    OBVIOUS
  <2> HIDE DEF F, G
  <2>5. F(s \cup {x}) <= G(s \cup {x})
    BY <2>2, <2>3, <2>4
  <2> QED BY <2>5
<1>3. P \in SUBSET SUBSET S /\ IsFiniteSet(S)
  BY DEF Summable
<1>4. S \in P
  <2> HIDE DEF P
  <2> QED BY <1>1, <1>2, <1>3, GrowingSets
<1> QED BY <1>4

LEMMA SumSame ==
  ASSUME NEW f, NEW g, NEW S, Summable(f, S), \A x \in S : f[x] = g[x]
  PROVE  SumFunctionOnSet(f, S) = SumFunctionOnSet(g, S)
<1>1. Summable(g, S) /\ \A x \in S : f[x] <= g[x] /\ g[x] <= f[x]
  BY DEF Summable
<1>2. SumFunctionOnSet(f, S) <= SumFunctionOnSet(g, S)
  BY <1>1, SumMonotone
<1>3. SumFunctionOnSet(g, S) <= SumFunctionOnSet(f, S)
  BY <1>1, SumMonotone
<1> QED BY <1>1, <1>2, <1>3, SumType

\* A sum of one value per element is as many times that value.
LEMMA SumConstant ==
  ASSUME NEW f, NEW S, IsFiniteSet(S), NEW v \in Int, \A x \in S : f[x] = v
  PROVE  SumFunctionOnSet(f, S) = v * Cardinality(S)
<1> DEFINE F(s) == SumFunctionOnSet(f, s)
           P == {s \in SUBSET S : F(s) = v * Cardinality(s)}
<1>1. {} \in P
  BY SumEmpty, FS_EmptySet
<1>2. ASSUME NEW s \in P, NEW x \in S \ s  PROVE s \cup {x} \in P
  <2>1. Summable(f, s \cup {x})
    BY FS_Subset DEF Summable
  <2>2. F(s \cup {x}) = f[x] + F(s)
    BY <2>1, SumAddsOne
  <2>3. IsFiniteSet(s)
    BY FS_Subset
  <2>4. Cardinality(s \cup {x}) = Cardinality(s) + 1 /\ Cardinality(s) \in Nat
    BY <2>3, FS_AddElement, FS_CardinalityType
  <2>5. F(s) = v * Cardinality(s) /\ f[x] = v
    OBVIOUS
  <2> HIDE DEF F
  <2>6. F(s \cup {x}) = v * Cardinality(s \cup {x})
    <3> DEFINE n == Cardinality(s)
    <3>1. v + v * n = v * (n + 1)
      <4>1. n \in Nat
        BY <2>4
      <4> HIDE DEF n
      <4> QED BY <4>1
    <3> QED BY <2>2, <2>4, <2>5, <3>1
  <2> QED BY <2>6
<1>3. P \in SUBSET SUBSET S
  OBVIOUS
<1>4. S \in P
  <2> HIDE DEF P
  <2> QED BY <1>1, <1>2, <1>3, GrowingSets
<1> QED BY <1>4

\* Multiples of the values sum to the multiple of their sum.
LEMMA SumTimes ==
  ASSUME NEW f, NEW g, NEW S, Summable(f, S), NEW v \in Int, \A x \in S : g[x] = v * f[x]
  PROVE  SumFunctionOnSet(g, S) = v * SumFunctionOnSet(f, S)
<1> DEFINE F(s) == SumFunctionOnSet(f, s)
           G(s) == SumFunctionOnSet(g, s)
           P == {s \in SUBSET S : G(s) = v * F(s)}
<1>1. {} \in P
  BY SumEmpty
<1>2. ASSUME NEW s \in P, NEW x \in S \ s  PROVE s \cup {x} \in P
  <2>1. Summable(f, s \cup {x}) /\ Summable(g, s \cup {x})
    BY FS_Subset DEF Summable
  <2>2. F(s \cup {x}) = f[x] + F(s) /\ G(s \cup {x}) = g[x] + G(s)
    BY <2>1, SumAddsOne
  <2>3. F(s) \in Int /\ f[x] \in Int
    BY SumType, SummableSubset DEF Summable
  <2>4. G(s) = v * F(s) /\ g[x] = v * f[x]
    OBVIOUS
  <2> HIDE DEF F, G
  <2>5. G(s \cup {x}) = v * F(s \cup {x})
    <3> DEFINE m == f[x]
               n == F(s)
    <3>1. v * m + v * n = v * (m + n)
      <4>1. m \in Int /\ n \in Int
        BY <2>3
      <4> HIDE DEF m, n
      <4> QED BY <4>1
    <3> QED BY <2>2, <2>4, <3>1
  <2> QED BY <2>5
<1>3. P \in SUBSET SUBSET S /\ IsFiniteSet(S)
  BY DEF Summable
<1>4. S \in P
  <2> HIDE DEF P
  <2> QED BY <1>1, <1>2, <1>3, GrowingSets
<1> QED BY <1>4

OfKey(S, key, k) == {x \in S : key[x] = k}

\* A sum by groups: the elements are summed group by group, and the groups' sums
\* are added up.
LEMMA SumByGroup ==
  ASSUME NEW f, NEW S, Summable(f, S), NEW K, IsFiniteSet(K), NEW key,
         \A x \in S : key[x] \in K, NEW parts,
         \A k \in K : parts[k] = SumFunctionOnSet(f, OfKey(S, key, k))
  PROVE  SumFunctionOnSet(f, S) = SumFunctionOnSet(parts, K)
<1> DEFINE Of(ks) == {x \in S : key[x] \in ks}
           F(s) == SumFunctionOnSet(f, s)
           G(ks) == SumFunctionOnSet(parts, ks)
           P == {ks \in SUBSET K : F(Of(ks)) = G(ks)}
<1>0. Summable(parts, K)
  <2>1. ASSUME NEW k \in K  PROVE parts[k] \in Int
    <3>1. Summable(f, OfKey(S, key, k))
      BY SummableSubset DEF OfKey
    <3> QED BY <3>1, SumType
  <2> QED BY <2>1 DEF Summable
<1>1. {} \in P
  <2>1. Of({}) = {}
    OBVIOUS
  <2> QED BY <2>1, SumEmpty
<1>2. ASSUME NEW ks \in P, NEW k \in K \ ks  PROVE ks \cup {k} \in P
  <2> DEFINE s == OfKey(S, key, k)
  <2>1. Of(ks \cup {k}) = Of(ks) \cup s /\ Of(ks) \cap s = {}
    BY DEF OfKey
  <2>2. Summable(f, Of(ks) \cup s)
    BY SummableSubset DEF OfKey
  <2>3. F(Of(ks) \cup s) = F(Of(ks)) + F(s)
    <3> HIDE DEF Of, s
    <3> QED BY <2>1, <2>2, SumDisjoint
  <2>4. Summable(parts, ks \cup {k})
    BY <1>0, SummableSubset
  <2>5. G(ks \cup {k}) = parts[k] + G(ks)
    BY <2>4, SumAddsOne
  <2>6. parts[k] = F(s) /\ F(Of(ks)) = G(ks)
    OBVIOUS
  <2>7. G(ks) \in Int /\ parts[k] \in Int
    BY <1>0, SumType, SummableSubset DEF Summable
  <2> HIDE DEF F, G, Of, s
  <2>8. F(Of(ks \cup {k})) = F(Of(ks)) + F(s)
    BY <2>1, <2>3
  <2>9. F(Of(ks \cup {k})) = G(ks \cup {k})
    BY <2>5, <2>6, <2>7, <2>8
  <2> QED BY <2>9
<1>3. P \in SUBSET SUBSET K
  OBVIOUS
<1>4. K \in P
  <2> HIDE DEF P
  <2> QED BY <1>1, <1>2, <1>3, GrowingSets
<1>5. Of(K) = S
  OBVIOUS
<1> QED BY <1>4, <1>5

LEMMA SumOfPair ==
  ASSUME NEW f, NEW x, NEW y, x # y, f[x] \in Int, f[y] \in Int
  PROVE  SumFunctionOnSet(f, {x, y}) = f[x] + f[y]
<1>1. IsFiniteSet({y}) /\ IsFiniteSet({y} \cup {x})
  BY FS_Singleton, FS_AddElement
<1>2. Summable(f, {y}) /\ Summable(f, {y} \cup {x}) /\ Summable(f, {} \cup {y})
  BY <1>1 DEF Summable
<1>3. SumFunctionOnSet(f, {} \cup {y}) = f[y] + SumFunctionOnSet(f, {})
  BY <1>2, SumAddsOne
<1>4. SumFunctionOnSet(f, {y} \cup {x}) = f[x] + SumFunctionOnSet(f, {y})
  BY <1>2, SumAddsOne
<1>5. {} \cup {y} = {y} /\ {y} \cup {x} = {x, y}
  OBVIOUS
<1>6. SumFunctionOnSet(f, {y}) = f[y]
  BY <1>3, <1>5, SumEmpty
<1> QED BY <1>4, <1>5, <1>6

\* The sum has the sign that all the values have.
LEMMA SumSign ==
  ASSUME NEW f, NEW S, Summable(f, S)
  PROVE  /\ (\A x \in S : f[x] >= 0) => SumFunctionOnSet(f, S) >= 0
         /\ (\A x \in S : f[x] <= 0) => SumFunctionOnSet(f, S) <= 0
<1> DEFINE zero == [x \in S |-> 0]
<1>1. Summable(zero, S) /\ SumFunctionOnSet(zero, S) = 0
  <2>1. SumFunctionOnSet(zero, S) = 0 * Cardinality(S)
    <3>1. 0 \in Int /\ \A x \in S : zero[x] = 0
      OBVIOUS
    <3> HIDE DEF zero
    <3> QED BY <3>1, SumConstant DEF Summable
  <2>2. Cardinality(S) \in Nat
    BY FS_CardinalityType DEF Summable
  <2> QED BY <2>1, <2>2 DEF Summable
<1>2. ASSUME \A x \in S : f[x] >= 0  PROVE SumFunctionOnSet(f, S) >= 0
  <2>1. \A x \in S : zero[x] <= f[x]
    BY <1>2 DEF Summable
  <2>2. SumFunctionOnSet(zero, S) <= SumFunctionOnSet(f, S)
    <3> HIDE DEF zero
    <3> QED BY <1>1, <2>1, SumMonotone
  <2> QED BY <1>1, <2>2, SumType
<1>3. ASSUME \A x \in S : f[x] <= 0  PROVE SumFunctionOnSet(f, S) <= 0
  <2>1. \A x \in S : f[x] <= zero[x]
    BY <1>3
  <2>2. SumFunctionOnSet(f, S) <= SumFunctionOnSet(zero, S)
    <3> HIDE DEF zero
    <3> QED BY <1>1, <2>1, SumMonotone
  <2> QED BY <1>1, <2>2, SumType
<1> QED BY <1>2, <1>3

\* Without negative values, a part of a sum is not more than the whole.
LEMMA SumOfPart ==
  ASSUME NEW f, NEW S, Summable(f, S), \A x \in S : f[x] >= 0, NEW T, T \subseteq S
  PROVE  SumFunctionOnSet(f, T) <= SumFunctionOnSet(f, S)
<1> DEFINE R == S \ T
<1>1. T \cap R = {} /\ T \cup R = S
  OBVIOUS
<1>2. Summable(f, R) /\ Summable(f, T)
  BY SummableSubset
<1> HIDE DEF R
<1>3. SumFunctionOnSet(f, S) = SumFunctionOnSet(f, T) + SumFunctionOnSet(f, R)
  BY <1>1, SumDisjoint
<1>4. SumFunctionOnSet(f, R) >= 0
  BY <1>1, <1>2, SumSign
<1> QED BY <1>2, <1>3, <1>4, SumType
-----------------------------------------------------------------------------
\* A loop over the elements of a set, of which last[s] is the one taken last: step gives
\* the state after s from the state after the rest of s.
Loops(step, last, base, S, V, g) ==
  /\ g \in [SUBSET S -> V]
  /\ \A s \in SUBSET S : g[s] = IF s = {} THEN base ELSE step[<<s, g[s \ {last[s]}]>>]

\* There is a function that does what the loop does, for any finite set.
LEMMA LoopsExist ==
  ASSUME NEW S, IsFiniteSet(S), NEW V, NEW base \in V, NEW step \in [(SUBSET S) \X V -> V],
         NEW last, \A s \in SUBSET S : s # {} => last[s] \in s
  PROVE  \E g : Loops(step, last, base, S, V, g)
<1> DEFINE L(s, g) == Loops(step, last, base, s, V, g)
           rest(s) == s \ {last[s]}
           B == {s \in SUBSET S : ~ \E g : L(s, g)}
<1>1. SUFFICES ASSUME B # {}  PROVE FALSE
  OBVIOUS
<1>2. PICK T \in B : \A u \in B : u \subseteq T => u = T
  <2>1. B \in SUBSET SUBSET S
    OBVIOUS
  <2> HIDE DEF B
  <2> QED BY <1>1, <2>1, SmallestSet
<1> DEFINE h == [s \in SUBSET T |-> CHOOSE g : L(s, g)]
           val(s) == IF s = {} THEN base ELSE step[<<s, h[rest(s)][rest(s)]>>]
           g == [s \in SUBSET T |-> val(s)]
<1>3. ASSUME NEW s \in SUBSET T, s # T  PROVE L(s, h[s])
  <2>1. \E f : L(s, f)
    BY <1>2, <1>3
  <2> HIDE DEF L
  <2> QED BY <2>1
<1>4. ASSUME NEW s \in SUBSET T, s # {}
      PROVE  rest(s) \in SUBSET T /\ rest(s) # T /\ last[s] \in s
  BY <1>4
\* Two such functions agree.
<1>5. ASSUME NEW u, NEW v, NEW f, NEW k, u \in SUBSET T, v \in SUBSET u, L(u, f), L(v, k)
      PROVE  f[v] = k[v]
  <2> DEFINE D == {t \in SUBSET v : f[t] # k[t]}
  <2>1. SUFFICES ASSUME D # {}  PROVE FALSE
    OBVIOUS
  <2>2. PICK t \in D : \A w \in D : w \subseteq t => w = t
    <3>1. D \in SUBSET SUBSET v /\ IsFiniteSet(v)
      BY <1>5, FS_Subset
    <3> HIDE DEF D
    <3> QED BY <2>1, <3>1, SmallestSet
  <2>3. t \in SUBSET u /\ t \in SUBSET v
    BY <1>5
  <2>4. /\ f[t] = IF t = {} THEN base ELSE step[<<t, f[rest(t)]>>]
        /\ k[t] = IF t = {} THEN base ELSE step[<<t, k[rest(t)]>>]
    BY <1>5, <2>3 DEF Loops
  <2>5. t # {} => f[rest(t)] = k[rest(t)]
    <3>1. t # {} => rest(t) \in SUBSET v /\ rest(t) \subseteq t /\ rest(t) # t
      BY <1>5, <2>3
    <3> HIDE DEF rest, L
    <3> QED BY <2>2, <3>1
  <2> HIDE DEF L, rest
  <2> QED BY <2>2, <2>4, <2>5
<1>6. ASSUME NEW s \in SUBSET T, s # {}  PROVE val(rest(s)) = h[rest(s)][rest(s)]
  <2> DEFINE u == rest(s)
  <2>1. u \in SUBSET T /\ u # T /\ L(u, h[u])
    <3> HIDE DEF L, rest, h
    <3> QED BY <1>3, <1>4, <1>6
  <2>2. h[u][u] = IF u = {} THEN base ELSE step[<<u, h[u][rest(u)]>>]
    <3> HIDE DEF h, u
    <3>1. u \in SUBSET u
      OBVIOUS
    <3> QED BY <2>1, <3>1 DEF Loops
  <2>3. u # {} => h[u][rest(u)] = h[rest(u)][rest(u)]
    <3>1. SUFFICES ASSUME u # {}  PROVE h[u][rest(u)] = h[rest(u)][rest(u)]
      OBVIOUS
    <3>2. rest(u) \in SUBSET T /\ rest(u) # T /\ rest(u) \in SUBSET u
      <4> HIDE DEF u
      <4> QED BY <1>4, <2>1, <3>1
    <3>3. L(rest(u), h[rest(u)])
      <4> HIDE DEF L, rest, u, h
      <4> QED BY <1>3, <3>2
    <3> DEFINE v == rest(u)
               f == h[u]
               k == h[v]
    <3>4. u \in SUBSET T /\ v \in SUBSET u /\ L(u, f) /\ L(v, k)
      BY <2>1, <3>2, <3>3
    <3> HIDE DEF L, rest, u, v, f, k
    <3>5. f[v] = k[v]
      BY <1>5, <3>4
    <3> QED BY <3>5 DEF f, k, v
  <2> HIDE DEF L, rest, h, u
  <2>4. val(u) = h[u][u]
    BY <2>2, <2>3
  <2> QED BY <2>4 DEF u
<1>7. ASSUME NEW s \in SUBSET T  PROVE val(s) \in V
  <2>1. CASE s = {}
    BY <2>1
  <2>2. CASE s # {}
    <3>1. rest(s) \in SUBSET T /\ L(rest(s), h[rest(s)])
      <4> HIDE DEF L, rest, h
      <4> QED BY <1>3, <1>4, <2>2
    <3>2. h[rest(s)][rest(s)] \in V
      BY <3>1 DEF Loops
    <3> HIDE DEF h, rest
    <3> QED BY <2>2, <3>2
  <2> QED BY <2>1, <2>2
<1>8. L(T, g)
  <2>1. g \in [SUBSET T -> V]
    <3> HIDE DEF val
    <3> QED BY <1>7
  <2>2. ASSUME NEW s \in SUBSET T
        PROVE  g[s] = IF s = {} THEN base ELSE step[<<s, g[rest(s)]>>]
    <3>1. CASE s = {}
      BY <3>1
    <3>2. CASE s # {}
      <4>1. g[s] = step[<<s, h[rest(s)][rest(s)]>>] /\ rest(s) \in SUBSET T
        BY <1>4, <3>2
      <4>2. g[rest(s)] = val(rest(s))
        <5> HIDE DEF val, rest
        <5> QED BY <4>1
      <4> HIDE DEF g, h, val, rest
      <4> QED BY <1>6, <3>2, <4>1, <4>2
    <3> QED BY <3>1, <3>2
  <2> HIDE DEF g, h
  <2> QED BY <2>1, <2>2 DEF Loops
<1> QED
  <2> HIDE DEF L, g
  <2> QED BY <1>2, <1>8
-----------------------------------------------------------------------------
\* A finite set of whole numbers has a greatest and a least element.
LEMMA FiniteExtremes ==
  ASSUME NEW S \in SUBSET Int, IsFiniteSet(S), S # {}
  PROVE  /\ \E m \in S : \A x \in S : m >= x
         /\ \E m \in S : \A x \in S : m <= x
<1> DEFINE Fine(s) == /\ \E m \in s : \A x \in s : m >= x
                      /\ \E m \in s : \A x \in s : m <= x
           P == {s \in SUBSET S : s # {} => Fine(s)}
<1>1. {} \in P
  OBVIOUS
<1>2. ASSUME NEW s \in P, NEW y \in S \ s  PROVE s \cup {y} \in P
  <2>1. CASE s = {}
    BY <2>1
  <2>2. CASE s # {}
    <3>1. PICK m \in s : \A x \in s : m >= x
      BY <2>2
    <3>2. PICK n \in s : \A x \in s : n <= x
      BY <2>2
    <3> DEFINE t == s \cup {y}
    <3>3. t \subseteq Int /\ m \in t /\ n \in t /\ y \in t
      OBVIOUS
    <3>4. \E k \in t : \A x \in t : k >= x
      <4>1. CASE y >= m
        BY <3>1, <3>3, <4>1
      <4>2. CASE ~(y >= m)
        BY <3>1, <3>3, <4>2
      <4> QED BY <4>1, <4>2
    <3>5. \E k \in t : \A x \in t : k <= x
      <4>1. CASE y <= n
        BY <3>2, <3>3, <4>1
      <4>2. CASE ~(y <= n)
        BY <3>2, <3>3, <4>2
      <4> QED BY <4>1, <4>2
    <3> QED BY <3>4, <3>5
  <2> QED BY <2>1, <2>2
<1>3. P \in SUBSET SUBSET S
  OBVIOUS
<1>4. S \in P
  <2> HIDE DEF P
  <2> QED BY <1>1, <1>2, <1>3, GrowingSets
<1> QED BY <1>4

Partners(R, X, i) == {j \in X : <<i, j>> \in R}

\* Pairs are counted by their first element.
LEMMA PairsByFirst ==
  ASSUME NEW P, IsFiniteSet(P), NEW X, IsFiniteSet(X), NEW R \in SUBSET (P \X X), NEW count,
         \A i \in P : count[i] = Cardinality(Partners(R, X, i))
  PROVE  /\ IsFiniteSet(R) /\ Summable(count, P)
         /\ Cardinality(R) = SumFunctionOnSet(count, P)
<1> DEFINE one == [r \in R |-> 1]
           key == [r \in R |-> r[1]]
<1>1. IsFiniteSet(R)
  BY FS_Product, FS_Subset
<1>2. Summable(one, R) /\ \A r \in R : key[r] \in P
  BY <1>1 DEF Summable
<1>3. ASSUME NEW i \in P
      PROVE  count[i] = SumFunctionOnSet(one, OfKey(R, key, i)) /\ count[i] \in Nat
  <2> DEFINE ri == OfKey(R, key, i)
             xi == Partners(R, X, i)
             f == [j \in xi |-> <<i, j>>]
  <2>1. f \in Bijection(xi, ri)
    <3>1. f \in [xi -> ri]
      BY DEF OfKey, Partners
    <3>2. \A j, k \in xi : f[j] = f[k] => j = k
      OBVIOUS
    <3>3. ASSUME NEW r \in ri  PROVE \E j \in xi : f[j] = r
      <4>1. r \in R /\ r \in P \X X /\ r[1] = i
        BY DEF OfKey, Partners
      <4>2. r = <<i, r[2]>> /\ r[2] \in xi
        BY <4>1 DEF Partners
      <4> QED BY <4>2
    <3> HIDE DEF f, xi, ri
    <3> QED BY <3>1, <3>2, <3>3 DEF Bijection, Injection, Surjection, IsInjective
  <2>2. IsFiniteSet(xi)
    BY FS_Subset DEF Partners
  <2>3. IsFiniteSet(ri) /\ Cardinality(ri) = Cardinality(xi) /\ Cardinality(ri) \in Nat
    <3> HIDE DEF f, xi, ri
    <3> QED BY <2>1, <2>2, FS_Bijection, FS_CardinalityType DEF ExistsBijection
  <2>4. \A r \in ri : one[r] = 1
    BY DEF OfKey
  <2>5. SumFunctionOnSet(one, ri) = 1 * Cardinality(ri)
    <3>1. 1 \in Int
      OBVIOUS
    <3> HIDE DEF one, ri
    <3> QED BY <2>3, <2>4, <3>1, SumConstant
  <2>6. count[i] = Cardinality(xi)
    OBVIOUS
  <2> HIDE DEF one, ri, xi
  <2>7. SumFunctionOnSet(one, ri) = count[i] /\ count[i] \in Nat
    BY <2>3, <2>5, <2>6
  <2> QED BY <2>7 DEF ri
<1>4. SumFunctionOnSet(one, R) = SumFunctionOnSet(count, P)
  <2> HIDE DEF one, key
  <2>1. \A i \in P : count[i] = SumFunctionOnSet(one, OfKey(R, key, i))
    BY <1>3
  <2> QED BY <1>2, <2>1, SumByGroup
<1>5. SumFunctionOnSet(one, R) = 1 * Cardinality(R) /\ Cardinality(R) \in Nat
  <2>1. 1 \in Int /\ \A r \in R : one[r] = 1
    OBVIOUS
  <2> HIDE DEF one
  <2> QED BY <1>1, <2>1, SumConstant, FS_CardinalityType
<1>6. Summable(count, P)
  <2>1. ASSUME NEW i \in P  PROVE count[i] \in Int
    <3> HIDE DEF one, key
    <3>1. count[i] \in Nat
      BY <1>3
    <3> QED BY <3>1
  <2> QED BY <2>1 DEF Summable
<1> HIDE DEF one
<1> QED BY <1>1, <1>4, <1>5, <1>6

\* Factors can be multiplied in and cancelled.
LEMMA TimesOrder ==
  ASSUME NEW x \in Nat, NEW y \in Nat, NEW k \in Nat \ {0}
  PROVE  /\ x <= y <=> x * k <= y * k
         /\ x < y <=> x * k < y * k
<1>1. y >= x => y * k = x * k + (y - x) * k /\ (y - x) * k >= 0 /\ (y > x => (y - x) * k > 0)
  OBVIOUS
<1>2. x >= y => x * k = y * k + (x - y) * k /\ (x - y) * k >= 0 /\ (x > y => (x - y) * k > 0)
  OBVIOUS
<1>3. x * k \in Nat /\ y * k \in Nat
  OBVIOUS
<1> QED BY <1>1, <1>2, <1>3

\* A sum does not depend on the names of what is summed.
LEMMA SumRenamed ==
  ASSUME NEW f, NEW S, Summable(f, S), NEW T, IsFiniteSet(T), NEW b \in Bijection(S, T), NEW g,
         \A x \in S : g[b[x]] = f[x]
  PROVE  SumFunctionOnSet(g, T) = SumFunctionOnSet(f, S) /\ Summable(g, T)
<1>1. \A x \in S : b[x] \in T
  BY DEF Bijection, Injection
<1>2. ASSUME NEW y \in T  PROVE g[y] = SumFunctionOnSet(f, OfKey(S, b, y)) /\ g[y] \in Int
  <2>1. PICK x \in S : b[x] = y
    BY DEF Bijection, Surjection
  <2>2. OfKey(S, b, y) = {} \cup {x}
    BY <2>1 DEF OfKey, Bijection, Injection, IsInjective
  <2>3. Summable(f, {} \cup {x})
    BY SummableSubset
  <2>4. SumFunctionOnSet(f, {} \cup {x}) = f[x] + SumFunctionOnSet(f, {})
    BY <2>3, SumAddsOne
  <2>5. f[x] \in Int /\ g[y] = f[x]
    BY <2>1 DEF Summable
  <2> QED BY <2>2, <2>4, <2>5, SumEmpty
<1>3. SumFunctionOnSet(f, S) = SumFunctionOnSet(g, T)
  BY <1>1, <1>2, SumByGroup
<1> QED BY <1>2, <1>3 DEF Summable

\* Quotient and remainder, and that they are the only ones.
LEMMA DivMod ==
  ASSUME NEW a \in Int, NEW n \in Nat \ {0}
  PROVE  a \div n \in Int /\ a % n \in 0..(n - 1) /\ a = n * (a \div n) + (a % n)
  OBVIOUS
LEMMA DivModUnique ==
  ASSUME NEW a \in Int, NEW n \in Nat \ {0}, NEW q \in Int, NEW r \in 0..(n - 1), a = n * q + r
  PROVE  a \div n = q /\ a % n = r
<1> DEFINE q2 == a \div n
           r2 == a % n
           d == q - q2
<1>1. q2 \in Int /\ r2 \in 0..(n - 1) /\ a = n * q2 + r2
  BY DivMod
<1> HIDE DEF q2, r2
<1>2. d \in Int /\ q = q2 + d
  BY <1>1
<1> HIDE DEF d
<1>3. n * q = n * q2 + n * d
  BY <1>1, <1>2
<1>4. n * d \in Int /\ n * q \in Int /\ n * q2 \in Int
  BY <1>1, <1>2
<1>5. n * d = r2 - r
  BY <1>1, <1>3, <1>4
<1>6. n * d < n /\ n * d > -n
  BY <1>1, <1>5
<1>7. d >= 1 => n * d >= n
  BY <1>2
<1>8. d <= -1 => n * d <= -n
  BY <1>2
<1>9. d = 0
  BY <1>2, <1>6, <1>7, <1>8
<1>10. q = q2 /\ n * d = 0
  BY <1>1, <1>2, <1>9
<1> QED BY <1>1, <1>5, <1>10 DEF q2, r2
-----------------------------------------------------------------------------
\* The image of a finite set.
LEMMA FiniteImage ==
  ASSUME NEW S, IsFiniteSet(S), NEW f
  PROVE  /\ IsFiniteSet({f[x] : x \in S})
         /\ Cardinality({f[x] : x \in S}) <= Cardinality(S)
<1> DEFINE g == [x \in S |-> f[x]]
           T == {f[x] : x \in S}
<1>1. g \in [S -> T] /\ \A y \in T : \E x \in S : g[x] = y
  OBVIOUS
<1> HIDE DEF g, T
<1>2. g \in Surjection(S, T)
  BY <1>1 DEF Surjection
<1>3. IsFiniteSet(T) /\ Cardinality(T) <= Cardinality(S)
  BY <1>2, FS_Surjection
<1> QED BY <1>3 DEF T

\* A part of any number, none of the rest of which has a higher key.
LEMMA HighestPart ==
  ASSUME NEW S, IsFiniteSet(S), NEW key, \A x \in S : key[x] \in Int, NEW k \in 0..Cardinality(S)
  PROVE  \E P \in SUBSET S : /\ Cardinality(P) = k
                             /\ \A x \in P, y \in S \ P : key[x] >= key[y]
<1> DEFINE Fine(n) == \E P \in SUBSET S : /\ Cardinality(P) = n
                                         /\ \A x \in P, y \in S \ P : key[x] >= key[y]
           bad == {n \in 0..Cardinality(S) : ~Fine(n)}
<1>1. Cardinality(S) \in Nat
  BY FS_CardinalityType
<1>2. SUFFICES ASSUME bad # {}  PROVE FALSE
  OBVIOUS
<1>3. PICK n \in bad : \A m \in bad : n <= m
  <2>1. bad \in SUBSET Nat
    BY <1>1
  <2> HIDE DEF bad
  <2> QED BY <1>2, <2>1, LeastNat
<1>4. n \in 0..Cardinality(S) /\ ~Fine(n)
  BY <1>3
<1>5. Fine(0)
  <2>1. {} \in SUBSET S /\ Cardinality({}) = 0
    BY FS_EmptySet
  <2> QED BY <2>1
<1>6. n - 1 \in 0..Cardinality(S) /\ n - 1 \notin bad
  BY <1>1, <1>3, <1>4, <1>5
<1>7. PICK P \in SUBSET S : /\ Cardinality(P) = n - 1
                            /\ \A x \in P, y \in S \ P : key[x] >= key[y]
  BY <1>6
<1>8. IsFiniteSet(P) /\ IsFiniteSet(S \ P) /\ S \ P # {}
  <2>1. IsFiniteSet(P) /\ IsFiniteSet(S \ P)
    BY <1>7, FS_Subset
  <2>2. P # S
    BY <1>1, <1>4, <1>7
  <2> QED BY <1>7, <2>1, <2>2
<1>9. PICK x \in S \ P : \A y \in S \ P : key[x] >= key[y]
  <2> DEFINE K == {key[y] : y \in S \ P}
  <2>1. IsFiniteSet(K)
    BY <1>8, FiniteImage
  <2>2. K \in SUBSET Int /\ K # {}
    BY <1>8
  <2>3. PICK m \in K : \A v \in K : m >= v
    <3> HIDE DEF K
    <3> QED BY <2>1, <2>2, FiniteExtremes
  <2> QED BY <2>3
<1>10. Cardinality(P \cup {x}) = n /\ P \cup {x} \in SUBSET S
  <2>1. Cardinality(P \cup {x}) = Cardinality(P) + 1
    BY <1>8, <1>9, FS_AddElement
  <2> QED BY <1>4, <1>7, <1>9, <2>1
<1>11. \A u \in P \cup {x}, y \in S \ (P \cup {x}) : key[u] >= key[y]
  BY <1>7, <1>9
<1>12. Fine(n)
  BY <1>10, <1>11
<1> QED BY <1>4, <1>12
=============================================================================
