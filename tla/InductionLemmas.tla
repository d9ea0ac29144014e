---------------------------- MODULE InductionLemmas ----------------------------
(***************************************************************************)
(* What the other proofs need that is an induction at heart.  The          *)
(* library's induction theorems take the formula as an operator, which the *)
(* provers here cannot instantiate.  With a set in its place an induction  *)
(* over an interval follows from the facts about finite sets: a set that   *)
(* is closed under successor and has a gap would be mapped into itself one *)
(* to one, yet not onto.  That a recursive function exists follows from    *)
(* that; and the powers of two come without it, for 2^k counts the subsets *)
(* of 1..k.                                                                *)
(***************************************************************************)
EXTENDS Integers, FiniteSets, FiniteSetTheorems, TLAPS

\* Induction over an interval.
LEMMA IntervalInduction ==
    ASSUME NEW n \in Nat, NEW S, 0 \in S,
           \A k \in 0..n : k < n /\ k \in S => k + 1 \in S
    PROVE  0..n \subseteq S
<1> SUFFICES ASSUME NEW m \in 0..n, m \notin S PROVE FALSE
  OBVIOUS
<1> DEFINE U    == (0..m) \intersect S
           next == [k \in U |-> k + 1]
<1>1. IsFiniteSet(U)
  <2>1. 0 \in Int /\ m \in Int
    OBVIOUS
  <2>2. IsFiniteSet(0..m)
    BY <2>1, FS_Interval
  <2> QED BY <2>2, FS_Intersection
<1>2. next \in Injection(U, U)
  <2>1. ASSUME NEW k \in U PROVE k + 1 \in U
    OBVIOUS
  <2>2. \A j, k \in U : j + 1 = k + 1 => j = k
    OBVIOUS
  <2> QED BY <2>1, <2>2 DEF Injection, IsInjective
<1>3. next \in Surjection(U, U)
  BY <1>1, <1>2, FS_Injection
<1>4. 0 \in U
  OBVIOUS
<1>5. PICK k \in U : k + 1 = 0
  BY <1>3, <1>4 DEF Surjection
<1> QED BY <1>5

\* A function with values in S that starts at base and goes on by step.
Recursion(f, n, S, base, step) ==
    /\ f \in [0..n -> S]
    /\ \A k \in 0..n : f[k] = IF k = 0 THEN base ELSE step[<<k, f[k - 1]>>]

\* A function may be defined by recursion over an interval.
LEMMA RecursionExists ==
    ASSUME NEW n \in Nat, NEW S, NEW base \in S, NEW step \in [(1..n) \X S -> S]
    PROVE  \E f : Recursion(f, n, S, base, step)
<1> DEFINE Recursive(f, m) ==
             \A k \in 0..m : f[k] = IF k = 0 THEN base ELSE step[<<k, f[k - 1]>>]
           Upto == {m \in 0..n : \E f \in [0..m -> S] : Recursive(f, m)}
<1>1. 0 \in Upto
  <2> DEFINE f == [k \in 0..0 |-> base]
  <2>1. f \in [0..0 -> S] /\ Recursive(f, 0)
    OBVIOUS
  <2>2. \E h \in [0..0 -> S] : Recursive(h, 0)
    BY <2>1, Zenon
  <2> HIDE DEF Recursive, f
  <2> QED BY <2>2
<1>2. ASSUME NEW m \in 0..n, m < n, m \in Upto PROVE m + 1 \in Upto
  <2>1. PICK f \in [0..m -> S] : Recursive(f, m)
    BY <1>2
  <2> DEFINE g == [k \in 0..(m + 1) |-> IF k = m + 1 THEN step[<<k, f[m]>>] ELSE f[k]]
  <2>2. step[<<m + 1, f[m]>>] \in S
    <3>1. m + 1 \in 1..n /\ f[m] \in S
      BY <1>2
    <3> QED BY <3>1
  <2>3. g \in [0..(m + 1) -> S]
    BY <2>2
  <2>4. ASSUME NEW k \in 0..(m + 1)
        PROVE  g[k] = IF k = 0 THEN base ELSE step[<<k, g[k - 1]>>]
    <3>1. CASE k = m + 1
      <4>1. g[k] = step[<<k, f[m]>>] /\ k # 0 /\ k - 1 = m /\ g[m] = f[m]
        BY <1>2, <3>1
      <4> QED BY <4>1
    <3>2. CASE k # m + 1
      <4>1. k \in 0..m /\ g[k] = f[k] /\ (k # 0 => k - 1 \in 0..m /\ g[k - 1] = f[k - 1])
        BY <1>2, <3>2
      <4> QED BY <2>1, <4>1
    <3> QED BY <3>1, <3>2
  <2>5. \E h \in [0..(m + 1) -> S] : Recursive(h, m + 1)
    BY <2>3, <2>4, Zenon
  <2> HIDE DEF Recursive, g
  <2>6. m + 1 \in 0..n
    BY <1>2
  <2> QED BY <2>5, <2>6
<1> HIDE DEF Upto
<1>3. 0..n \subseteq Upto
  BY <1>1, <1>2, IntervalInduction
<1>4. n \in Upto
  BY <1>3
<1> QED BY <1>4, Zenon DEF Upto, Recursion

-----------------------------------------------------------------------------
(* Powers of two, of which the provers know nothing *)

\* 2^k counts the subsets of 1..k.
LEMMA PowerCounts ==
    ASSUME NEW k \in Nat
    PROVE  /\ IsFiniteSet(SUBSET (1..k))
           /\ Cardinality(SUBSET (1..k)) = 2^k
           /\ 2^k \in Nat
<1>1. IsFiniteSet(1..k) /\ Cardinality(1..k) = k
  <2>1. 1 \in Int /\ k \in Int
    OBVIOUS
  <2> QED BY <2>1, FS_Interval
<1>2. /\ IsFiniteSet(SUBSET (1..k))
      /\ Cardinality(SUBSET (1..k)) = 2^k
  BY <1>1, FS_SUBSET
<1> QED BY <1>2, FS_CardinalityType

\* 2^k is positive.
LEMMA PowerPositive == ASSUME NEW k \in Nat PROVE 2^k \in Nat \ {0}
<1>1. SUBSET (1..k) # {}
  OBVIOUS
<1> QED BY <1>1, PowerCounts, FS_EmptySet

\* It grows with k.
LEMMA PowerMonotonic ==
    ASSUME NEW j \in Nat, NEW k \in Nat, j <= k PROVE 2^j <= 2^k
<1>1. SUBSET (1..j) \in SUBSET (SUBSET (1..k))
  BY SMT
<1>2. Cardinality(SUBSET (1..j)) <= Cardinality(SUBSET (1..k))
  BY <1>1, PowerCounts, FS_Subset
<1> QED BY <1>2, PowerCounts

\* And it doubles: a subset of 1..(k+1) is one of 1..k, with k + 1 or without.
LEMMA PowerDoubles == ASSUME NEW k \in Nat PROVE 2^(k + 1) = 2 * 2^k
<1> DEFINE Old  == SUBSET (1..k)
           New  == (SUBSET (1..(k + 1))) \ Old
           Grow == [T \in Old |-> T \union {k + 1}]
<1>1. Old \subseteq SUBSET (1..(k + 1))
  BY SMT
<1>2. Grow \in Bijection(Old, New)
  <2>1. ASSUME NEW T \in Old PROVE Grow[T] \in New
    <3>1. T \union {k + 1} \subseteq 1..(k + 1) /\ k + 1 \notin 1..k
      BY SMT
    <3> QED BY <3>1
  <2>2. ASSUME NEW T \in Old, NEW U \in Old, Grow[T] = Grow[U] PROVE T = U
    <3>1. k + 1 \notin T /\ k + 1 \notin U
      BY SMT
    <3>2. T \union {k + 1} = U \union {k + 1}
      BY <2>2
    <3> QED BY <3>1, <3>2
  <2>3. ASSUME NEW V \in New PROVE \E T \in Old : Grow[T] = V
    <3>1. 1..(k + 1) = (1..k) \union {k + 1} /\ k + 1 \notin 1..k
      BY SMT
    <3>2. V \subseteq (1..k) \union {k + 1} /\ k + 1 \in V
      BY <3>1
    <3>3. V \ {k + 1} \in Old /\ (V \ {k + 1}) \union {k + 1} = V
      BY <3>1, <3>2
    <3> QED BY <3>3
  <2>4. Grow \in [Old -> New]
    BY <2>1
  <2> QED BY <2>2, <2>3, <2>4 DEF Bijection, Injection, Surjection, IsInjective
<1>3. IsFiniteSet(Old) /\ Cardinality(Old) = 2^k /\ 2^k \in Nat
  BY PowerCounts
<1>4. IsFiniteSet(New) /\ Cardinality(New) = 2^k
  <2>1. ExistsBijection(Old, New)
    BY <1>2 DEF ExistsBijection
  <2> QED BY <1>3, <2>1, FS_Bijection
<1>5. Cardinality(Old \union New) = 2^k + 2^k
  <2>1. Old \intersect New = {} /\ Cardinality({}) = 0
    BY FS_EmptySet
  <2>2. Cardinality(Old \union New) = 2^k + 2^k - Cardinality(Old \intersect New)
    BY <1>3, <1>4, FS_Union
  <2>3. \A n \in Nat : n + n - 0 = n + n
    OBVIOUS
  <2> QED BY <1>3, <2>1, <2>2, <2>3, Zenon
<1>6. Old \union New = SUBSET (1..(k + 1))
  BY <1>1
<1>7. Cardinality(SUBSET (1..(k + 1))) = 2^(k + 1)
  <2>1. k + 1 \in Nat
    OBVIOUS
  <2> QED BY <2>1, PowerCounts
<1>8. \A n \in Nat : n + n = 2 * n
  OBVIOUS
<1> QED BY <1>3, <1>5, <1>6, <1>7, <1>8, Zenon

=============================================================================
