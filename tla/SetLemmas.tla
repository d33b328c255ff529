-------------------------------- MODULE SetLemmas --------------------------------
(***************************************************************************)
(* Facts about sets of numbers and small sets that the proofs about rows   *)
(* numbered in order of creation keep needing.                             *)
(***************************************************************************)
EXTENDS Integers, FiniteSets, FiniteSetsExt, FiniteSetTheorems, WellFoundedInduction, TLAPS

\* A set of numbers that is not empty holds its minimum: the next free row exists, and
\* a count that is capped stays below its cap.
LEMMA MinIsMember ==
    ASSUME NEW S \in SUBSET Nat, S # {}
    PROVE  Min(S) \in S /\ \A y \in S : Min(S) <= y
<1> DEFINE below == {ss \in Nat \X Nat : ss[1] < ss[2]}
<1>1. IsWellFoundedOn(below, Nat)
  BY NatLessThanWellFounded, Zenon DEF OpToRel
<1>2. PICK x \in S : \A y \in S : ~ (<<y, x>> \in below)
  <2> HIDE DEF below
  <2> QED  BY <1>1, WFMin, Zenon
<1>3. ASSUME NEW y \in S  PROVE x <= y
  <2>1. y < x => <<y, x>> \in below
    OBVIOUS
  <2> QED  BY <1>2, <2>1
<1> QED
  BY <1>3, Zenon DEF Min

\* A set no two members of which differ has at most one.
LEMMA AtMostOne ==
    ASSUME NEW S, \A x, y \in S : x = y
    PROVE  Cardinality(S) <= 1
<1>1. CASE S = {}
  BY <1>1, FS_EmptySet
<1>2. CASE S # {}
  <2>1. PICK x \in S : TRUE
    BY <1>2
  <2>2. S = {x}
    BY <2>1
  <2> QED  BY <2>2, FS_Singleton
<1> QED  BY <1>1, <1>2

\* A bounded set of numbers that is not empty holds its maximum.
LEMMA MaxIsMember ==
    ASSUME NEW n \in Nat, NEW S \in SUBSET (0..n), S # {}
    PROVE  Max(S) \in S /\ \A y \in S : y <= Max(S)
<1> DEFINE T == {n - x : x \in S}
<1>1. T \in SUBSET Nat /\ T # {}
  <2>1. PICK x \in S : TRUE
    OBVIOUS
  <2>2. n - x \in T
    OBVIOUS
  <2> QED  BY <2>2
<1>2. Min(T) \in T /\ \A y \in T : Min(T) <= y
  BY <1>1, MinIsMember
<1>3. PICK x \in S : Min(T) = n - x
  BY <1>2
<1>4. ASSUME NEW y \in S  PROVE x >= y
  <2>1. n - x <= n - y
    BY <1>2, <1>3
  <2> QED  BY <2>1
<1>5. Max(S) \in S /\ \A y \in S : Max(S) >= y
  BY <1>4, Zenon DEF Max
<1> QED  BY <1>5

\* The greater of two numbers.
LEMMA MaxOfTwo ==
    ASSUME NEW a \in Nat, NEW b \in Nat
    PROVE  Max({a, b}) \in {a, b} /\ a <= Max({a, b}) /\ b <= Max({a, b})
<1>1. {a, b} \in SUBSET (0..(a + b)) /\ {a, b} # {}
  OBVIOUS
<1> QED  BY <1>1, MaxIsMember

-------------------------------------------------------------------------------
\* Recursion on numbered rows

\* Values computed row by row, each from that of an earlier row (or of row 0, the
\* start), exist.
Computed(g, n, V, start, earlier, step) ==
    /\ g \in [0..n -> V] /\ g[0] = start
    /\ \A i \in 1..n : g[i] = step[<<g[earlier[i]], i>>]

LEMMA RowByRow ==
    ASSUME NEW N \in Nat, NEW V, NEW start \in V,
           NEW earlier \in [1..N -> Nat], \A i \in 1..N : earlier[i] < i,
           NEW step \in [V \X (1..N) -> V]
    PROVE  \E g : Computed(g, N, V, start, earlier, step)
<1> DEFINE Bad == {n \in 0..N : ~\E g : Computed(g, n, V, start, earlier, step)}
<1>1. 0 \notin Bad
  <2> DEFINE g == [i \in 0..0 |-> start]
  <2>1. Computed(g, 0, V, start, earlier, step)
    BY DEF Computed
  <2> HIDE DEF g
  <2> QED  BY <2>1
<1>2. Bad = {}
  <2> SUFFICES ASSUME Bad # {}  PROVE FALSE
    OBVIOUS
  <2> DEFINE m == Min(Bad)
  <2>1. m \in Bad /\ \A y \in Bad : m <= y
    <3>1. Bad \in SUBSET Nat
      OBVIOUS
    <3> HIDE DEF Bad
    <3> QED  BY <3>1, MinIsMember
  <2> HIDE DEF m
  <2>2. m \in 1..N /\ m - 1 \in 0..N /\ m - 1 \notin Bad
    <3>1. m \in 0..N
      BY <2>1
    <3> HIDE DEF Bad
    <3> QED  BY <3>1, <1>1, <2>1
  <2>3. PICK g : Computed(g, m - 1, V, start, earlier, step)
    BY <2>2
  <2> DEFINE h == [i \in 0..m |-> IF i = m THEN step[<<g[earlier[m]], m>>] ELSE g[i]]
  <2>4. g \in [0..(m - 1) -> V] /\ earlier[m] \in 0..(m - 1)
    BY <2>2, <2>3 DEF Computed
  <2>5. <<g[earlier[m]], m>> \in V \X (1..N)
    BY <2>2, <2>4
  <2>6. h \in [0..m -> V]
    <3>1. step[<<g[earlier[m]], m>>] \in V
      BY <2>5
    <3>2. \A i \in 0..m : i # m => g[i] \in V
      BY <2>4, <2>2
    <3> QED  BY <3>1, <3>2
  <2>7. h[0] = start
    BY <2>2, <2>3 DEF Computed
  <2>8. \A i \in 0..(m - 1) : h[i] = g[i]
    BY <2>2
  <2>9. h[m] = step[<<g[earlier[m]], m>>]
    BY <2>2
  <2> HIDE DEF h
  <2>10. ASSUME NEW i \in 1..m  PROVE h[i] = step[<<h[earlier[i]], i>>]
    <3>1. CASE i = m
      BY <3>1, <2>4, <2>8, <2>9
    <3>2. CASE i # m
      <4>1. i \in 1..(m - 1) /\ i \in 1..N /\ i \in 0..(m - 1)
        BY <3>2, <2>2
      <4>2. earlier[i] \in 0..(m - 1)
        BY <4>1, <2>2
      <4>3. g[i] = step[<<g[earlier[i]], i>>]
        BY <4>1, <2>3 DEF Computed
      <4> QED  BY <4>1, <4>2, <4>3, <2>8
    <3> QED  BY <3>1, <3>2
  <2>11. Computed(h, m, V, start, earlier, step)
    BY <2>6, <2>7, <2>10 DEF Computed
  <2> QED  BY <2>11, <2>1
<1> QED  BY <1>2

-------------------------------------------------------------------------------
\* Sums

\* The recursion by which the community modules define the sum of f over the subsets of S.
AnyOf(s) == CHOOSE x \in s : TRUE
AddsUp(g, f, S) ==
    \A s \in SUBSET S : g[s] = IF s = {} THEN 0 ELSE f[AnyOf(s)] + g[s \ {AnyOf(s)}]

\* On a finite set it has a solution.
LEMMA SumExists ==
    ASSUME NEW S, IsFiniteSet(S), NEW f, \A x \in S : f[x] \in Nat
    PROVE  \E g \in [SUBSET S -> Nat] : AddsUp(g, f, S)
<1> DEFINE Fits(g, n) == \A s \in SUBSET S : Cardinality(s) <= n =>
                             g[s] = IF s = {} THEN 0 ELSE f[AnyOf(s)] + g[s \ {AnyOf(s)}]
           Bad == {n \in Nat : ~\E g \in [SUBSET S -> Nat] : Fits(g, n)}
<1>1. \A s \in SUBSET S : IsFiniteSet(s) /\ Cardinality(s) \in Nat /\ Cardinality(s) <= Cardinality(S)
  BY FS_Subset, FS_CardinalityType
<1>2. Cardinality(S) \in Nat
  BY FS_CardinalityType
<1>3. \A s \in SUBSET S : s # {} => AnyOf(s) \in s
  BY DEF AnyOf
<1>4. 0 \notin Bad
  <2> DEFINE g == [s \in SUBSET S |-> 0]
  <2>1. g \in [SUBSET S -> Nat]
    OBVIOUS
  <2>2. \A s \in SUBSET S : Cardinality(s) <= 0 => s = {}
    BY <1>1, FS_EmptySet
  <2>3. Fits(g, 0)
    BY <2>2
  <2> QED  BY <2>1, <2>3
<1>5. Bad = {}
  <2> SUFFICES ASSUME Bad # {}  PROVE FALSE
    OBVIOUS
  <2> DEFINE m == Min(Bad)
  <2>1. m \in Bad /\ \A y \in Bad : m <= y
    BY MinIsMember
  <2> HIDE DEF m
  <2>2. m \in Nat /\ m # 0 /\ m - 1 \in Nat /\ m - 1 \notin Bad
    <3>1. m \in Nat
      BY <2>1
    <3> HIDE DEF Bad
    <3> QED  BY <3>1, <1>4, <2>1
  <2>3. PICK g \in [SUBSET S -> Nat] : Fits(g, m - 1)
    BY <2>2
  <2> DEFINE h == [s \in SUBSET S |-> IF Cardinality(s) = m THEN f[AnyOf(s)] + g[s \ {AnyOf(s)}] ELSE g[s]]
  <2>4. h \in [SUBSET S -> Nat]
    <3> SUFFICES ASSUME NEW s \in SUBSET S
                 PROVE  (IF Cardinality(s) = m THEN f[AnyOf(s)] + g[s \ {AnyOf(s)}] ELSE g[s]) \in Nat
      OBVIOUS
    <3>1. CASE Cardinality(s) = m
      <4>1. s # {}
        BY <3>1, <2>2, FS_EmptySet
      <4>2. AnyOf(s) \in S /\ s \ {AnyOf(s)} \in SUBSET S
        BY <4>1, <1>3
      <4>3. f[AnyOf(s)] \in Nat /\ g[s \ {AnyOf(s)}] \in Nat
        BY <4>2
      <4> QED  BY <4>3, <3>1
    <3>2. CASE Cardinality(s) # m
      BY <3>2
    <3> QED  BY <3>1, <3>2
  <2>5. Fits(h, m)
    <3> SUFFICES ASSUME NEW s \in SUBSET S, Cardinality(s) <= m
                 PROVE  h[s] = IF s = {} THEN 0 ELSE f[AnyOf(s)] + h[s \ {AnyOf(s)}]
      OBVIOUS
    <3>1. CASE s = {}
      <4>1. Cardinality(s) = 0
        BY <3>1, FS_EmptySet
      <4>2. h[s] = g[s]
        BY <4>1, <2>2
      <4>3. g[s] = 0
        BY <2>3, <3>1, <4>1, <2>2
      <4> QED  BY <3>1, <4>2, <4>3
    <3>2. CASE s # {}
      <4>1. AnyOf(s) \in s
        BY <3>2, <1>3
      <4> DEFINE r == s \ {AnyOf(s)}
      <4>2. r \in SUBSET S /\ Cardinality(r) = Cardinality(s) - 1
        BY <4>1, <1>1, FS_RemoveElement
      <4>3. Cardinality(s) \in Nat
        BY <1>1
      <4>4. h[r] = g[r]
        BY <4>2, <4>3, <2>2
      <4>5. h[s] = f[AnyOf(s)] + g[r]
        <5>1. CASE Cardinality(s) = m
          BY <5>1
        <5>2. CASE Cardinality(s) # m
          <6>1. Cardinality(s) <= m - 1
            BY <5>2, <4>3, <2>2
          <6>2. h[s] = g[s]
            BY <5>2
          <6> QED  BY <6>1, <6>2, <2>3, <3>2
        <5> QED  BY <5>1, <5>2
      <4> HIDE DEF h
      <4> QED  BY <4>4, <4>5, <3>2
    <3> QED  BY <3>1, <3>2
  <2>6. \E k \in [SUBSET S -> Nat] : Fits(k, m)
    <3> HIDE DEF h, Fits
    <3> QED  BY <2>4, <2>5
  <2> QED  BY <2>6, <2>1
<1>6. PICK g \in [SUBSET S -> Nat] : Fits(g, Cardinality(S))
  BY <1>5, <1>2
<1>7. AddsUp(g, f, S)
  BY <1>6, <1>1 DEF AddsUp
<1> QED  BY <1>7

\* And no other, on each of its subsets.
LEMMA SumUnique ==
    ASSUME NEW S, IsFiniteSet(S), NEW f, NEW g, NEW h, AddsUp(g, f, S), AddsUp(h, f, S)
    PROVE  \A s \in SUBSET S : g[s] = h[s]
<1> DEFINE Bad == {n \in Nat : \E s \in SUBSET S : Cardinality(s) = n /\ h[s] # g[s]}
<1>1. \A s \in SUBSET S : IsFiniteSet(s) /\ Cardinality(s) \in Nat
  BY FS_Subset, FS_CardinalityType
<1>2. Bad = {}
  <2> SUFFICES ASSUME Bad # {}  PROVE FALSE
    OBVIOUS
  <2> DEFINE m == Min(Bad)
  <2>1. m \in Bad /\ \A y \in Bad : m <= y
    BY MinIsMember
  <2> HIDE DEF m
  <2>2. PICK s \in SUBSET S : Cardinality(s) = m /\ h[s] # g[s]
    BY <2>1
  <2>3. s # {}
    BY <2>2 DEF AddsUp
  <2> DEFINE r == s \ {AnyOf(s)}
  <2>4. AnyOf(s) \in s
    BY <2>3 DEF AnyOf
  <2>5. r \in SUBSET S /\ Cardinality(r) = m - 1
    BY <2>2, <2>4, <1>1, FS_RemoveElement
  <2>6. h[s] = f[AnyOf(s)] + h[r] /\ g[s] = f[AnyOf(s)] + g[r]
    BY <2>3 DEF AddsUp
  <2> HIDE DEF r
  <2>7. h[r] # g[r]
    BY <2>6, <2>2
  <2>8. m - 1 \in Bad
    BY <2>7, <2>5, <1>1
  <2>9. m \in Nat
    BY <2>1
  <2> HIDE DEF Bad
  <2> QED  BY <2>8, <2>1, <2>9
<1> QED  BY <1>2, <1>1

\* So the sum over a set is the solution, on whichever larger set it is taken.
Totals(g, f, S) ==
    /\ g \in [SUBSET S -> Nat] /\ AddsUp(g, f, S)
    /\ \A T \in SUBSET S : SumFunctionOnSet(f, T) = g[T]

LEMMA SumEquation ==
    ASSUME NEW S, IsFiniteSet(S), NEW f, \A x \in S : f[x] \in Nat
    PROVE  \E g : Totals(g, f, S)
<1>1. PICK g \in [SUBSET S -> Nat] : AddsUp(g, f, S)
  BY SumExists, Zenon
<1>2. ASSUME NEW T \in SUBSET S  PROVE SumFunctionOnSet(f, T) = g[T]
  <2> DEFINE it == CHOOSE k : k = [s \in SUBSET T |-> IF s = {} THEN 0 ELSE f[AnyOf(s)] + k[s \ {AnyOf(s)}]]
  <2>1. SumFunctionOnSet(f, T) = it[T]
    BY DEF SumFunctionOnSet, FoldFunctionOnSet, MapThenFoldSet, AnyOf
  <2> DEFINE k == [s \in SUBSET T |-> g[s]]
  <2>2. k = [s \in SUBSET T |-> IF s = {} THEN 0 ELSE f[AnyOf(s)] + k[s \ {AnyOf(s)}]]
    <3>1. ASSUME NEW s \in SUBSET T
          PROVE  k[s] = IF s = {} THEN 0 ELSE f[AnyOf(s)] + k[s \ {AnyOf(s)}]
      <4>1. g[s] = IF s = {} THEN 0 ELSE f[AnyOf(s)] + g[s \ {AnyOf(s)}]
        BY <1>1 DEF AddsUp
      <4> QED  BY <4>1
    <3> DEFINE K(s) == IF s = {} THEN 0 ELSE f[AnyOf(s)] + k[s \ {AnyOf(s)}]
    <3>2. \A s \in SUBSET T : k[s] = K(s)
      BY <3>1
    <3>3. k = [s \in SUBSET T |-> k[s]]
      OBVIOUS
    <3> HIDE DEF k
    <3> QED  BY <3>2, <3>3
  <2>3. it = [s \in SUBSET T |-> IF s = {} THEN 0 ELSE f[AnyOf(s)] + it[s \ {AnyOf(s)}]]
    <3> HIDE DEF k
    <3> QED  BY <2>2
  <2> HIDE DEF it
  <2>4. AddsUp(it, f, T)
    BY <2>3 DEF AddsUp
  <2>5. AddsUp(g, f, T)
    BY <1>1 DEF AddsUp
  <2>6. IsFiniteSet(T)
    BY FS_Subset
  <2> QED  BY <2>1, <2>4, <2>5, <2>6, SumUnique
<1> QED  BY <1>1, <1>2 DEF Totals

\* A sum is a number; over no member it is zero.
LEMMA SumIsNat ==
    ASSUME NEW S, IsFiniteSet(S), NEW f, \A x \in S : f[x] \in Nat
    PROVE  SumFunctionOnSet(f, S) \in Nat /\ (S = {} => SumFunctionOnSet(f, S) = 0)
<1>1. PICK g : Totals(g, f, S)
  BY SumEquation, Zenon
<1> QED  BY <1>1 DEF AddsUp, Totals

\* Any member can be taken out.
LEMMA SumTakeOut ==
    ASSUME NEW S, IsFiniteSet(S), NEW f, \A x \in S : f[x] \in Nat, NEW x \in S
    PROVE  SumFunctionOnSet(f, S) = f[x] + SumFunctionOnSet(f, S \ {x})
<1>1. PICK g : Totals(g, f, S)
  BY SumEquation, Zenon
<1> DEFINE Bad == {n \in Nat : \E s \in SUBSET S : \E y \in s :
                                  Cardinality(s) = n /\ g[s] # f[y] + g[s \ {y}]}
<1>2. \A s \in SUBSET S : IsFiniteSet(s) /\ Cardinality(s) \in Nat
  BY FS_Subset, FS_CardinalityType
<1>3. Bad = {}
  <2> SUFFICES ASSUME Bad # {}  PROVE FALSE
    OBVIOUS
  <2> DEFINE m == Min(Bad)
  <2>1. m \in Bad /\ \A y \in Bad : m <= y
    BY MinIsMember
  <2> HIDE DEF m
  <2>2. PICK s \in SUBSET S : \E y \in s : Cardinality(s) = m /\ g[s] # f[y] + g[s \ {y}]
    BY <2>1
  <2>3. PICK y \in s : Cardinality(s) = m /\ g[s] # f[y] + g[s \ {y}]
    BY <2>2
  <2> DEFINE z == AnyOf(s)
  <2>4. z \in s
    BY DEF AnyOf
  <2>5. g[s] = f[z] + g[s \ {z}]
    BY <1>1 DEF AddsUp, Totals
  <2> HIDE DEF z
  <2>6. z # y
    BY <2>3, <2>5
  <2>7. \A v \in s : s \ {v} \in SUBSET S /\ Cardinality(s \ {v}) = m - 1
    BY <2>3, <1>2, FS_RemoveElement
  <2>8. m - 1 \in Nat /\ m - 1 \notin Bad
    <3>1. m \in Nat
      BY <2>1
    <3>2. m - 1 \in Nat
      BY <1>2, <2>4, <2>7
    <3> HIDE DEF Bad
    <3> QED  BY <3>1, <3>2, <2>1
  <2>9. g[s \ {z}] = f[y] + g[(s \ {z}) \ {y}]
    BY <2>8, <2>7, <2>6, <2>4
  <2>10. g[s \ {y}] = f[z] + g[(s \ {y}) \ {z}]
    BY <2>8, <2>7, <2>6, <2>4
  <2>11. (s \ {y}) \ {z} = (s \ {z}) \ {y} /\ (s \ {y}) \ {z} \in SUBSET S
    OBVIOUS
  <2> DEFINE rest == g[(s \ {z}) \ {y}]
  <2>12. rest \in Nat /\ f[y] \in Nat /\ f[z] \in Nat
    BY <1>1, <2>11, <2>4 DEF Totals
  <2>13. g[s] = f[z] + (f[y] + rest) /\ g[s \ {y}] = f[z] + rest
    BY <2>5, <2>9, <2>10, <2>11
  <2> HIDE DEF rest
  <2> QED  BY <2>12, <2>13, <2>3
<1>4. g[S] = f[x] + g[S \ {x}]
  BY <1>3, <1>2
<1> QED  BY <1>1, <1>4 DEF Totals

\* More members, no smaller sum.
LEMMA SumMonotone ==
    ASSUME NEW S, IsFiniteSet(S), NEW f, \A x \in S : f[x] \in Nat, NEW T \in SUBSET S
    PROVE  SumFunctionOnSet(f, T) <= SumFunctionOnSet(f, S)
<1>1. \A s \in SUBSET S : IsFiniteSet(s) /\ Cardinality(s) \in Nat /\ SumFunctionOnSet(f, s) \in Nat
  BY FS_Subset, FS_CardinalityType, SumIsNat
<1> DEFINE Bad == {n \in Nat : \E s \in SUBSET S : T \subseteq s /\ Cardinality(s) = n
                                  /\ ~(SumFunctionOnSet(f, T) <= SumFunctionOnSet(f, s))}
<1>2. Bad = {}
  <2> SUFFICES ASSUME Bad # {}  PROVE FALSE
    OBVIOUS
  <2> DEFINE m == Min(Bad)
  <2>1. m \in Bad /\ \A y \in Bad : m <= y
    BY MinIsMember
  <2> HIDE DEF m
  <2>2. PICK s \in SUBSET S : /\ T \subseteq s /\ Cardinality(s) = m
                              /\ ~(SumFunctionOnSet(f, T) <= SumFunctionOnSet(f, s))
    BY <2>1
  <2>3. PICK x \in s : x \notin T
    BY <2>2, <1>1
  <2>4. SumFunctionOnSet(f, s) = f[x] + SumFunctionOnSet(f, s \ {x})
    BY SumTakeOut, <1>1
  <2>5. s \ {x} \in SUBSET S /\ T \subseteq s \ {x} /\ Cardinality(s \ {x}) = m - 1
    BY <2>2, <2>3, <1>1, FS_RemoveElement
  <2>6. ~(SumFunctionOnSet(f, T) <= SumFunctionOnSet(f, s \ {x}))
    BY <2>2, <2>4, <1>1, <2>5
  <2>7. m - 1 \in Bad
    BY <2>5, <2>6, <1>1
  <2>8. m \in Nat
    BY <2>1
  <2> HIDE DEF Bad
  <2> QED  BY <2>7, <2>1, <2>8
<1> QED  BY <1>2, <1>1

\* Only the values on the set count.
LEMMA SumAgrees ==
    ASSUME NEW S, IsFiniteSet(S), NEW f, \A x \in S : f[x] \in Nat,
           NEW h, \A x \in S : h[x] = f[x]
    PROVE  SumFunctionOnSet(h, S) = SumFunctionOnSet(f, S)
<1>1. PICK g : Totals(g, f, S)
  BY SumEquation, Zenon
<1>2. \A x \in S : h[x] \in Nat
  OBVIOUS
<1>3. PICK k : Totals(k, h, S)
  BY <1>2, SumEquation, Zenon
<1>4. AddsUp(k, f, S)
  <2>1. \A s \in SUBSET S : s # {} => h[AnyOf(s)] = f[AnyOf(s)]
    BY DEF AnyOf
  <2> QED  BY <1>3, <2>1 DEF AddsUp, Totals
<1>5. k[S] = g[S]
  BY <1>1, <1>4, SumUnique DEF Totals
<1> QED  BY <1>1, <1>3, <1>5 DEF Totals
===============================================================================
