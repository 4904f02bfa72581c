-------------------------------- MODULE Sums ---------------------------------
(***************************************************************************)
(* Sums over finite sets of integers, and the largest and smallest members *)
(* of such sets: that the fold of the community modules adds one term at a *)
(* time, and what follows for the sums the specifications take of loads,   *)
(* counters and latencies. Induction is by a least counterexample, so that *)
(* no theorem with an operator for a parameter is needed.                  *)
(***************************************************************************)
EXTENDS Integers, FiniteSetsExt, FiniteSetTheorems, WellFoundedInduction, TLAPS

\* A set of naturals that is not empty has a least member.
LEMMA LeastNatural ==
  ASSUME NEW T, T \subseteq Nat, T # {}
  PROVE  \E n \in T : \A m \in T : n <= m
<1>1. PICK n \in T : \A m \in T : ~ (<<m, n>> \in OpToRel(<, Nat))
  BY NatLessThanWellFounded, WFMin, Zenon
<1>2. ASSUME NEW m \in T
      PROVE  n <= m
  <2>1. m \in Nat /\ n \in Nat /\ <<m, n>> \notin OpToRel(<, Nat)
    BY <1>1
  <2> QED
    BY <2>1 DEF OpToRel
<1> QED
  BY <1>2

\* Induction over the naturals, with a set for the predicate.
LEMMA NatInduct ==
  ASSUME NEW T, 0 \in T, \A n \in Nat : n \in T => n + 1 \in T
  PROVE  Nat \subseteq T
<1> SUFFICES ASSUME Nat \ T # {} PROVE FALSE
  OBVIOUS
<1>1. PICK n \in Nat \ T : \A m \in Nat \ T : n <= m
  BY LeastNatural
<1>2. n # 0 /\ n - 1 \in Nat
  OBVIOUS
<1>3. n - 1 \in T
  BY <1>1, <1>2
<1>4. (n - 1) + 1 = n
  OBVIOUS
<1> QED
  BY <1>2, <1>3, <1>4

Pick(s) == CHOOSE x \in s : TRUE

\* Induction over the subsets of a finite set, one member at a time.
LEMMA SubsetInduct ==
  ASSUME NEW S, IsFiniteSet(S), NEW T, {} \in T,
         \A s \in SUBSET S : s # {} /\ s \ {Pick(s)} \in T => s \in T
  PROVE  SUBSET S \subseteq T
<1> DEFINE N == {n \in Nat : \A s \in SUBSET S : Cardinality(s) = n => s \in T}
<1>1. \A s \in SUBSET S : IsFiniteSet(s) /\ Cardinality(s) \in Nat
  BY FS_Subset, FS_CardinalityType
<1>2. 0 \in N
  BY <1>1, FS_EmptySet
<1>3. ASSUME NEW n \in Nat, n \in N
      PROVE  n + 1 \in N
  <2> SUFFICES ASSUME NEW s \in SUBSET S, Cardinality(s) = n + 1
               PROVE  s \in T
    OBVIOUS
  <2>1. s # {}
    BY FS_EmptySet
  <2>2. Pick(s) \in s
    BY <2>1, Zenon DEF Pick
  <2>3. Cardinality(s \ {Pick(s)}) = n
    BY <1>1, <2>2, FS_RemoveElement
  <2>4. s \ {Pick(s)} \in T
    BY <1>3, <2>3
  <2> QED
    BY <2>1, <2>4
<1> HIDE DEF N
<1>4. Nat \subseteq N
  BY <1>2, <1>3, NatInduct
<1> QED
  BY <1>1, <1>4 DEF N

-----------------------------------------------------------------------------

SumOver(f, S) == MapThenSumSet(LAMBDA x : f[x], S)

\* h satisfies the recursive equation of that sum.
IsIter(h, f, S) ==
  h = [s \in SUBSET S |-> IF s = {} THEN 0 ELSE f[Pick(s)] + h[s \ {Pick(s)}]]

Iter(f, S) == CHOOSE h : IsIter(h, f, S)

\* A sum over S is a fold of the library, which is this recursion.
LEMMA SumIsIter == \A f, S : SumOver(f, S) = Iter(f, S)[S]
BY Zenon DEF SumOver, MapThenSumSet, MapThenFoldSet, Iter, IsIter, Pick

\* The recursion has a solution on every finite set.
LEMMA IterExists ==
  ASSUME NEW f, NEW S, IsFiniteSet(S)
  PROVE  \E h : IsIter(h, f, S)
<1> DEFINE D(n) == {s \in SUBSET S : Cardinality(s) <= n}
           Body(h, s) == IF s = {} THEN 0 ELSE f[Pick(s)] + h[s \ {Pick(s)}]
           Solvable(n) == \E h : h = [s \in D(n) |-> Body(h, s)]
           N == {n \in Nat : Solvable(n)}
<1>1. \A s \in SUBSET S : IsFiniteSet(s) /\ Cardinality(s) \in Nat
  BY FS_Subset, FS_CardinalityType
<1>2. \A n \in Nat : \A s \in D(n + 1) : s # {} => s \ {Pick(s)} \in D(n)
  <2> SUFFICES ASSUME NEW n \in Nat, NEW s \in D(n + 1), s # {}
               PROVE  s \ {Pick(s)} \in D(n)
    OBVIOUS
  <2>2. Pick(s) \in s
    BY Zenon DEF Pick
  <2>3. Cardinality(s \ {Pick(s)}) = Cardinality(s) - 1
    BY <1>1, <2>2, FS_RemoveElement
  <2> QED
    BY <1>1, <2>3
<1>3. 0 \in N
  <2>1. \A s \in D(0) : s = {}
    BY <1>1, FS_EmptySet
  <2> DEFINE h0 == [s \in D(0) |-> 0]
  <2>2. h0 = [s \in D(0) |-> Body(h0, s)]
    BY <2>1
  <2> QED
    BY <2>2
<1>4. ASSUME NEW n \in Nat, n \in N
      PROVE  n + 1 \in N
  <2>1. PICK h : h = [s \in D(n) |-> Body(h, s)]
    BY <1>4
  <2> DEFINE g == [s \in D(n + 1) |-> Body(h, s)]
  <2>2. \A s \in D(n) : s \in D(n + 1)
    BY <1>1
  <2>3. \A s \in D(n) : g[s] = Body(h, s) /\ h[s] = Body(h, s)
    <3> HIDE DEF Body, D
    <3> QED
      BY <2>1, <2>2
  <2>4. \A s \in D(n + 1) : Body(g, s) = Body(h, s)
    <3> HIDE DEF g, D
    <3> QED
      BY <1>2, <2>3
  <2>5. g = [s \in D(n + 1) |-> Body(g, s)]
    <3> HIDE DEF Body, D
    <3> QED
      BY <2>4
  <2>6. Solvable(n + 1)
    <3> HIDE DEF g, Body, D
    <3> QED
      BY <2>5
  <2> HIDE DEF Solvable
  <2> QED
    BY <2>6
<1>5. Cardinality(S) \in N
  <2> HIDE DEF N
  <2> QED
    BY <1>1, <1>3, <1>4, NatInduct
<1>6. D(Cardinality(S)) = SUBSET S
  BY <1>1, FS_Subset
<1> QED
  BY <1>5, <1>6 DEF IsIter

\* The sum of a finite set, one element at a time.
LEMMA IterDef ==
  ASSUME NEW f, NEW S, IsFiniteSet(S)
  PROVE  /\ Iter(f, S)[{}] = 0
         /\ \A s \in SUBSET S : s # {} =>
              /\ Pick(s) \in s
              /\ Iter(f, S)[s] = f[Pick(s)] + Iter(f, S)[s \ {Pick(s)}]
<1>1. IsIter(Iter(f, S), f, S)
  BY IterExists, Zenon DEF Iter
<1>2. \A s \in SUBSET S : s # {} => Pick(s) \in s
  BY Zenon DEF Pick
<1> QED
  BY <1>1, <1>2 DEF IsIter

-----------------------------------------------------------------------------

\* The sum of integers is one.
LEMMA SumInt ==
  ASSUME NEW S, IsFiniteSet(S), NEW f, \A x \in S : f[x] \in Int
  PROVE  SumOver(f, S) \in Int
<1> DEFINE F == Iter(f, S)
           T == {s \in SUBSET S : F[s] \in Int}
<1>1. {} \in T
  BY IterDef
<1>2. ASSUME NEW s \in SUBSET S, s # {}, s \ {Pick(s)} \in T
      PROVE  s \in T
  <2>1. /\ Pick(s) \in s
        /\ F[s] = f[Pick(s)] + F[s \ {Pick(s)}]
    BY <1>2, IterDef
  <2> HIDE DEF F
  <2> QED
    BY <1>2, <2>1
<1> HIDE DEF T
<1>3. S \in T
  BY <1>1, <1>2, SubsetInduct
<1> QED
  BY <1>3, SumIsIter DEF T

\* Changing the value at one place changes the sum by as much.
LEMMA SumUpdate ==
  ASSUME NEW S, IsFiniteSet(S), NEW f, NEW g, NEW w \in S,
         \A x \in S : f[x] \in Int /\ g[x] \in Int,
         \A x \in S \ {w} : g[x] = f[x]
  PROVE  SumOver(g, S) = SumOver(f, S) + g[w] - f[w]
<1> DEFINE F == Iter(f, S)
           G == Iter(g, S)
           T == {s \in SUBSET S : /\ F[s] \in Int /\ G[s] \in Int
                                  /\ G[s] = F[s] + IF w \in s THEN g[w] - f[w] ELSE 0}
<1>1. {} \in T
  BY IterDef
<1>2. ASSUME NEW s \in SUBSET S, s # {}, s \ {Pick(s)} \in T
      PROVE  s \in T
  <2>1. /\ Pick(s) \in s
        /\ F[s] = f[Pick(s)] + F[s \ {Pick(s)}]
        /\ G[s] = g[Pick(s)] + G[s \ {Pick(s)}]
    BY <1>2, IterDef
  <2> DEFINE r == s \ {Pick(s)}
  <2>2. F[r] \in Int /\ G[r] \in Int
        /\ G[r] = F[r] + IF w \in r THEN g[w] - f[w] ELSE 0
    BY <1>2
  <2>3. w \in s <=> w \in r \/ w = Pick(s)
    BY <2>1
  <2>4. ~ (w \in r /\ w = Pick(s))
    OBVIOUS
  <2> HIDE DEF F, G, r
  <2>5. CASE w = Pick(s)
    BY <2>1, <2>2, <2>3, <2>4, <2>5 DEF r
  <2>6. CASE w # Pick(s)
    BY <2>1, <2>2, <2>3, <2>6 DEF r
  <2> QED
    BY <2>5, <2>6
<1> HIDE DEF T
<1>3. S \in T
  BY <1>1, <1>2, SubsetInduct
<1> QED
  BY <1>3, SumIsIter DEF T

\* Sums are monotonic.
LEMMA SumMonotonic ==
  ASSUME NEW S, IsFiniteSet(S), NEW f, NEW g,
         \A x \in S : f[x] \in Int /\ g[x] \in Int /\ f[x] <= g[x]
  PROVE  SumOver(f, S) <= SumOver(g, S)
<1> DEFINE F == Iter(f, S)
           G == Iter(g, S)
           T == {s \in SUBSET S : F[s] \in Int /\ G[s] \in Int /\ F[s] <= G[s]}
<1>1. {} \in T
  BY IterDef
<1>2. ASSUME NEW s \in SUBSET S, s # {}, s \ {Pick(s)} \in T
      PROVE  s \in T
  <2>1. /\ Pick(s) \in s
        /\ F[s] = f[Pick(s)] + F[s \ {Pick(s)}]
        /\ G[s] = g[Pick(s)] + G[s \ {Pick(s)}]
    BY <1>2, IterDef
  <2> HIDE DEF F, G
  <2> QED
    BY <1>2, <2>1
<1> HIDE DEF T
<1>3. S \in T
  BY <1>1, <1>2, SubsetInduct
<1> QED
  BY <1>3, SumIsIter DEF T

\* A sum of natural numbers is 0 exactly when each of them is, and is no less
\* than any one of them.
LEMMA SumNat ==
  ASSUME NEW S, IsFiniteSet(S), NEW f, \A x \in S : f[x] \in Nat
  PROVE  /\ SumOver(f, S) \in Nat
         /\ \A x \in S : f[x] <= SumOver(f, S)
         /\ SumOver(f, S) = 0 <=> \A x \in S : f[x] = 0
<1> DEFINE F == Iter(f, S)
           T == {s \in SUBSET S : /\ F[s] \in Nat
                                  /\ \A x \in s : f[x] <= F[s]
                                  /\ F[s] = 0 <=> \A x \in s : f[x] = 0}
<1>1. {} \in T
  BY IterDef
<1>2. ASSUME NEW s \in SUBSET S, s # {}, s \ {Pick(s)} \in T
      PROVE  s \in T
  <2>1. /\ Pick(s) \in s
        /\ F[s] = f[Pick(s)] + F[s \ {Pick(s)}]
    BY <1>2, IterDef
  <2> HIDE DEF F
  <2> QED
    BY <1>2, <2>1
<1> HIDE DEF T
<1>3. S \in T
  BY <1>1, <1>2, SubsetInduct
<1> QED
  BY <1>3, SumIsIter DEF T

\* One more at one place: one more in all.
LEMMA SumOneMore ==
  ASSUME NEW S, IsFiniteSet(S), NEW f, NEW g, NEW w \in S,
         \A x \in S : f[x] \in Nat,
         \A x \in S : g[x] = IF x = w THEN f[x] + 1 ELSE f[x]
  PROVE  SumOver(f, S) \in Nat /\ SumOver(g, S) = SumOver(f, S) + 1
<1>1. /\ \A x \in S : f[x] \in Int /\ g[x] \in Int
      /\ \A x \in S \ {w} : g[x] = f[x]
  OBVIOUS
<1>2. SumOver(f, S) \in Nat
  BY SumNat
<1>3. SumOver(g, S) = SumOver(f, S) + g[w] - f[w]
  BY <1>1, SumUpdate
<1>4. g[w] = f[w] + 1 /\ f[w] \in Nat
  OBVIOUS
<1> QED
  BY <1>2, <1>3, <1>4

\* One more at some of the places.
LEMMA SumOfSome ==
  ASSUME NEW S, IsFiniteSet(S), NEW f, NEW g, NEW A \in SUBSET S,
         \A x \in S : f[x] \in Int,
         \A x \in S : g[x] = IF x \in A THEN f[x] + 1 ELSE f[x]
  PROVE  /\ SumOver(f, S) \in Int
         /\ SumOver(g, S) = SumOver(f, S) + Cardinality(A)
<1> DEFINE F == Iter(f, S)
           G == Iter(g, S)
           T == {s \in SUBSET S : F[s] \in Int /\ G[s] = F[s] + Cardinality(A \cap s)}
<1>1. {} \in T
  <2>1. Cardinality(A \cap {}) = 0
    BY FS_EmptySet
  <2> QED
    BY <2>1, IterDef
<1>2. ASSUME NEW s \in SUBSET S, s # {}, s \ {Pick(s)} \in T
      PROVE  s \in T
  <2> DEFINE p == Pick(s)
             r == s \ {p}
  <2>1. p \in s /\ F[s] = f[p] + F[r] /\ G[s] = g[p] + G[r]
    BY <1>2, IterDef
  <2>2. F[r] \in Int /\ G[r] = F[r] + Cardinality(A \cap r)
    BY <1>2
  <2>3. IsFiniteSet(A \cap r) /\ Cardinality(A \cap r) \in Nat
    BY FS_Subset, FS_CardinalityType
  <2>4. Cardinality(A \cap s) = Cardinality(A \cap r) + IF p \in A THEN 1 ELSE 0
    <3>1. CASE p \in A
      <4>1. A \cap s = (A \cap r) \cup {p} /\ p \notin A \cap r
        BY <2>1, <3>1
      <4>2. Cardinality((A \cap r) \cup {p}) = Cardinality(A \cap r) + 1
        BY <2>3, <4>1, FS_AddElement
      <4> QED
        BY <3>1, <4>1, <4>2
    <3>2. CASE p \notin A
      <4>1. A \cap s = A \cap r
        BY <2>1, <3>2
      <4>2. Cardinality(A \cap s) = Cardinality(A \cap r)
        BY <4>1
      <4> DEFINE c == Cardinality(A \cap r)
      <4> HIDE DEF c
      <4>3. c = c + 0
        BY <2>3 DEF c
      <4> QED
        BY <3>2, <4>2, <4>3 DEF c
    <3> QED
      BY <3>1, <3>2
  <2>5. f[p] \in Int /\ g[p] = f[p] + IF p \in A THEN 1 ELSE 0
    BY <2>1
  <2> HIDE DEF F, G, p, r
  <2> QED
    BY <2>1, <2>2, <2>3, <2>4, <2>5
<1> HIDE DEF T
<1>3. S \in T
  BY <1>1, <1>2, SubsetInduct
<1>4. A \cap S = A
  OBVIOUS
<1> QED
  BY <1>3, <1>4, SumIsIter DEF T

\* The same at every place.
LEMMA SumSame ==
  ASSUME NEW S, IsFiniteSet(S), NEW f, NEW g,
         \A x \in S : f[x] \in Int, \A x \in S : g[x] = f[x]
  PROVE  SumOver(g, S) = SumOver(f, S)
<1>1. SumOver(g, S) = SumOver(f, S) + Cardinality({}) /\ SumOver(f, S) \in Int
  <2>1. {} \in SUBSET S /\ \A x \in S : g[x] = IF x \in {} THEN f[x] + 1 ELSE f[x]
    OBVIOUS
  <2> QED
    BY <2>1, SumOfSome
<1> QED
  BY <1>1, FS_EmptySet

\* A finite set of integers has a largest and a smallest member.
LEMMA Extremes ==
  ASSUME NEW S, IsFiniteSet(S), S # {}, S \subseteq Int
  PROVE  /\ Max(S) \in S /\ \A x \in S : x <= Max(S)
         /\ Min(S) \in S /\ \A x \in S : Min(S) <= x
<1> DEFINE HasMax(s) == \E x \in s : \A y \in s : x >= y
           HasMin(s) == \E x \in s : \A y \in s : x <= y
           T == {s \in SUBSET S : s # {} => HasMax(s) /\ HasMin(s)}
<1>1. ASSUME NEW s \in SUBSET S, s # {}, s \ {Pick(s)} \in T
      PROVE  s \in T
  <2> DEFINE p == Pick(s)
             rest == s \ {p}
  <2>1. p \in s
    BY <1>1 DEF Pick
  <2> HIDE DEF p
  <2>2. CASE rest = {}
    <3>1. s = {p} /\ p \in Int
      BY <2>1, <2>2
    <3> QED
      BY <3>1
  <2>3. CASE rest # {}
    <3>1. HasMax(rest) /\ HasMin(rest)
      BY <1>1, <2>3 DEF p
    <3>2. PICK x \in rest : \A y \in rest : x >= y
      BY <3>1
    <3>3. PICK z \in rest : \A y \in rest : z <= y
      BY <3>1
    <3>4. s = rest \cup {p} /\ s \subseteq Int
      BY <2>1
    <3>5. HasMax(s)
      <4>1. CASE x >= p
        BY <3>2, <3>4, <4>1
      <4>2. CASE ~(x >= p)
        <5>1. \A y \in rest : y \in Int /\ x \in Int /\ p \in Int /\ x >= y
          BY <2>1, <3>2, <3>4
        <5>2. \A y \in rest : p >= y
          BY <4>2, <5>1
        <5>3. \A y \in s : p >= y
          BY <2>1, <3>4, <5>2
        <5> QED
          BY <2>1, <5>3
      <4> QED
        BY <4>1, <4>2
    <3>6. HasMin(s)
      <4>1. CASE z <= p
        BY <3>3, <3>4, <4>1
      <4>2. CASE ~(z <= p)
        <5>1. \A y \in rest : y \in Int /\ z \in Int /\ p \in Int /\ z <= y
          BY <2>1, <3>3, <3>4
        <5>2. \A y \in rest : p <= y
          BY <4>2, <5>1
        <5>3. \A y \in s : p <= y
          BY <2>1, <3>4, <5>2
        <5> QED
          BY <2>1, <5>3
      <4> QED
        BY <4>1, <4>2
    <3> QED
      BY <3>5, <3>6
  <2> QED
    BY <2>2, <2>3
<1>2. {} \in T
  OBVIOUS
<1> HIDE DEF T
<1>3. SUBSET S \subseteq T
  BY <1>1, <1>2, SubsetInduct
<1>4. HasMax(S) /\ HasMin(S)
  BY <1>3 DEF T
<1>5. Max(S) \in S /\ \A x \in S : Max(S) >= x
  BY <1>4 DEF Max
<1>6. Min(S) \in S /\ \A x \in S : Min(S) <= x
  BY <1>4 DEF Min
<1>7. \A x \in S : x \in Int
  OBVIOUS
<1> QED
  BY <1>5, <1>6, <1>7

\* So has a set of naturals that is not empty, the smallest one at least.
LEMMA Smallest ==
  ASSUME NEW S, S # {}, S \subseteq Nat
  PROVE  Min(S) \in S /\ \A x \in S : Min(S) <= x
<1>1. \E n \in S : \A m \in S : n <= m
  BY LeastNatural
<1> QED
  BY <1>1 DEF Min

\* max and min of two numbers.
LEMMA OfTwo ==
  ASSUME NEW a \in Int, NEW b \in Int
  PROVE  /\ Max({a, b}) = IF a >= b THEN a ELSE b
         /\ Min({a, b}) = IF a <= b THEN a ELSE b
<1>1. IsFiniteSet({a, b}) /\ {a, b} # {} /\ {a, b} \subseteq Int
  <2>1. IsFiniteSet({a} \cup {b})
    BY FS_AddElement, FS_Singleton
  <2>2. {a, b} = {a} \cup {b}
    OBVIOUS
  <2> QED
    BY <2>1, <2>2
<1>2. /\ Max({a, b}) \in {a, b} /\ \A x \in {a, b} : x <= Max({a, b})
      /\ Min({a, b}) \in {a, b} /\ \A x \in {a, b} : Min({a, b}) <= x
  BY <1>1, Extremes
<1> QED
  BY <1>2

\* So have places in a sequence, 1 and n where they are all of them.
LEMMA OfPlaces ==
  ASSUME NEW n \in Nat, NEW S \in SUBSET (1..n), S # {}
  PROVE  /\ Max(S) \in S /\ \A x \in S : x <= Max(S)
         /\ Min(S) \in S /\ \A x \in S : Min(S) <= x
<1>1. IsFiniteSet(1..n)
  <2>1. 1 \in Int /\ n \in Int
    OBVIOUS
  <2> QED
    BY <2>1, FS_Interval
<1>2. IsFiniteSet(S)
  BY <1>1, FS_Subset
<1>3. S \subseteq Int
  OBVIOUS
<1> QED
  BY <1>2, <1>3, Extremes

LEMMA AllPlaces ==
  ASSUME NEW n \in Nat \ {0}
  PROVE  Max(1..n) = n /\ Min(1..n) = 1
<1>1. 1..n # {} /\ 1 \in 1..n /\ n \in 1..n
  OBVIOUS
<1>2. /\ Max(1..n) \in 1..n /\ \A x \in 1..n : x <= Max(1..n)
      /\ Min(1..n) \in 1..n /\ \A x \in 1..n : Min(1..n) <= x
  BY <1>1, OfPlaces
<1>3. Max(1..n) \in Int /\ Max(1..n) <= n /\ n <= Max(1..n)
  BY <1>1, <1>2
<1>4. Min(1..n) \in Int /\ 1 <= Min(1..n) /\ Min(1..n) <= 1
  BY <1>1, <1>2
<1> QED
  BY <1>3, <1>4
=============================================================================
