---------------------------- MODULE IntegerLemmas ----------------------------
(***************************************************************************)
(* What the proofs need to know of sets of integers: a set of natural      *)
(* numbers that is not empty has a least element, from which follows what   *)
(* Max and Min of FiniteSetsExt are.  The library's induction theorems take *)
(* an operator as a parameter; that a minimal element exists does not.      *)
(* From it follows, too, what ranking, sorting, filtering and adding up in  *)
(* OrderedSets compute.                                                     *)
(***************************************************************************)
EXTENDS Integers, OrderedSets, FiniteSetsExt, FiniteSetTheorems, SequenceTheorems,
        NaturalsInduction, WellFoundedInduction, TLAPS

\* The principle of the least element, from which induction over data is done.
LEMMA LeastElement ==
  ASSUME NEW S \in SUBSET Nat, S # {}
  PROVE  \E n \in S : \A m \in S : n <= m
  <1> DEFINE R == OpToRel(<, Nat)
  <1>1. IsWellFoundedOn(R, Nat)
    BY NatLessThanWellFounded
  <1>2. \A x, y \in Nat : x < y => <<x, y>> \in R
    BY DEF OpToRel
  <1> HIDE DEF R
  <1>3. PICK n \in S : \A m \in S : ~(<<m, n>> \in R)
    BY <1>1, WFMin
  <1>4. \A m \in S : ~(m < n)
    BY <1>2, <1>3
  <1>5. \A m \in S : n <= m
    BY <1>4
  <1> QED BY <1>5

\* A property that no first number can fail holds of all of them.
LEMMA NoFirstFailure ==
  ASSUME NEW Good \in SUBSET Nat,
         0 \in Good, \A n \in Nat : n \in Good => n + 1 \in Good
  PROVE  Good = Nat
  <1>1. SUFFICES ASSUME Nat \ Good # {} PROVE FALSE
    OBVIOUS
  <1>2. PICK n \in Nat \ Good : \A m \in Nat \ Good : n <= m
    BY <1>1, LeastElement
  <1>3. n - 1 \in Nat /\ n - 1 \in Good
    BY <1>2
  <1>4. (n - 1) + 1 \in Good
    BY <1>3
  <1> QED BY <1>2, <1>4

LEMMA MaxOf ==
  ASSUME NEW S \in SUBSET Int, S # {}, NEW bound \in Int, \A x \in S : x <= bound
  PROVE  Max(S) \in S /\ \A x \in S : x <= Max(S)
  <1> DEFINE Below == {n \in Nat : \E x \in S : n = bound - x}
  <1>1. Below # {}
    <2>1. PICK x \in S : TRUE
      OBVIOUS
    <2>2. bound - x \in Below
      BY <2>1
    <2> QED BY <2>2
  <1>2. PICK n \in Below : \A m \in Below : n <= m
    BY <1>1, LeastElement
  <1>3. PICK most \in S : n = bound - most
    BY <1>2
  <1>4. ASSUME NEW x \in S PROVE x <= most
    <2>1. bound - x \in Below
      OBVIOUS
    <2>2. n <= bound - x
      BY <1>2, <2>1
    <2> QED BY <1>3, <2>2
  <1>5. \E x \in S : \A y \in S : x >= y
    BY <1>4
  <1> QED BY <1>5 DEF Max

LEMMA MinOf ==
  ASSUME NEW S \in SUBSET Int, S # {}, NEW bound \in Int, \A x \in S : x >= bound
  PROVE  Min(S) \in S /\ \A x \in S : x >= Min(S)
  <1> DEFINE Above == {n \in Nat : \E x \in S : n = x - bound}
  <1>1. Above # {}
    <2>1. PICK x \in S : TRUE
      OBVIOUS
    <2>2. x - bound \in Above
      BY <2>1
    <2> QED BY <2>2
  <1>2. PICK n \in Above : \A m \in Above : n <= m
    BY <1>1, LeastElement
  <1>3. PICK least \in S : n = least - bound
    BY <1>2
  <1>4. ASSUME NEW x \in S PROVE least <= x
    <2>1. x - bound \in Above
      OBVIOUS
    <2>2. n <= x - bound
      BY <1>2, <2>1
    <2> QED BY <1>3, <2>2
  <1>5. \E x \in S : \A y \in S : x <= y
    BY <1>4
  <1> QED BY <1>5 DEF Min

LEMMA MaxOfTwo ==
  ASSUME NEW a \in Int, NEW b \in Int
  PROVE  Max({a, b}) \in {a, b} /\ Max({a, b}) >= a /\ Max({a, b}) >= b
  <1>1. \E x \in {a, b} : \A y \in {a, b} : x >= y
    OBVIOUS
  <1> QED BY <1>1 DEF Max

\* The values of a function on a finite set.
LEMMA FiniteImage ==
  ASSUME NEW S, IsFiniteSet(S), NEW f
  PROVE  IsFiniteSet({f[x] : x \in S})
  <1> DEFINE g == [x \in S |-> f[x]]
             T == {f[x] : x \in S}
  <1>1. g \in Surjection(S, T)
    BY DEF Surjection
  <1> HIDE DEF g, T
  <1> QED BY <1>1, FS_Surjection DEF T

\* A number and its quotient.
LEMMA Quotient ==
  ASSUME NEW n \in Int, NEW d \in Nat, d >= 1
  PROVE  n \div d \in Int /\ (n \div d) * d <= n /\ n < (n \div d) * d + d
  OBVIOUS

LEMMA QuotientNat ==
  ASSUME NEW n \in Nat, NEW d \in Nat, d >= 1
  PROVE  n \div d \in Nat
  OBVIOUS

-----------------------------------------------------------------------------
(* Recursive functions, and what Ascending and SumOver are.                *)

\* f is start at 0, and step tells its value at k from that at k - 1.
Recurs(f, n, start, step) == f[0] = start /\ \A k \in 1..n : f[k] = step[k][f[k - 1]]

\* There is such a function.
LEMMA Recursion ==
  ASSUME NEW V, NEW start \in V, NEW step \in [Nat -> [V -> V]], NEW n \in Nat
  PROVE  \E f \in [0..n -> V] : Recurs(f, n, start, step)
  <1> USE DEF Recurs
  <1> DEFINE Fits(m, f) == Recurs(f, m, start, step)
             Good == {m \in Nat : \E f \in [0..m -> V] : Fits(m, f)}
  <1>1. 0 \in Good
    <2> DEFINE f == [k \in 0..0 |-> start]
    <2>1. f \in [0..0 -> V] /\ Fits(0, f)
      OBVIOUS
    <2> HIDE DEF f, Fits
    <2> QED BY <2>1
  <1>2. ASSUME NEW m \in Nat, m \in Good PROVE m + 1 \in Good
    <2>1. PICK f \in [0..m -> V] : Fits(m, f)
      BY <1>2
    <2> DEFINE next == step[m + 1][f[m]]
               g == [k \in 0..(m + 1) |-> IF k = m + 1 THEN next ELSE f[k]]
    <2>2. next \in V
      <3>1. f[m] \in V /\ step[m + 1] \in [V -> V]
        BY <2>1
      <3> QED BY <3>1
    <2> HIDE DEF next
    <2>3. /\ g \in [0..(m + 1) -> V] /\ g[m + 1] = next
          /\ \A k \in 0..m : g[k] = f[k]
      BY <2>1, <2>2
    <2> HIDE DEF g
    <2>4. Fits(m + 1, g)
      <3>1. g[0] = start
        BY <2>1, <2>3
      <3>2. ASSUME NEW k \in 1..(m + 1) PROVE g[k] = step[k][g[k - 1]]
        <4>1. k - 1 \in 0..m /\ (k \in 1..m \/ k = m + 1)
          OBVIOUS
        <4>2. CASE k = m + 1
          <5>1. k - 1 = m /\ m \in 0..m
            BY <4>2
          <5>2. g[k] = next /\ g[k - 1] = f[m]
            BY <2>3, <4>2, <5>1
          <5> QED BY <4>2, <5>1, <5>2 DEF next
        <4>3. CASE k \in 1..m
          <5>1. k \in 0..m /\ f[k] = step[k][f[k - 1]]
            BY <2>1, <4>3
          <5> QED BY <2>3, <4>1, <5>1
        <4> QED BY <4>1, <4>2, <4>3
      <3> QED BY <3>1, <3>2
    <2> HIDE DEF Fits
    <2> QED BY <2>3, <2>4
  <1>3. Good \in SUBSET Nat
    OBVIOUS
  <1>4. n \in Good
    <2> HIDE DEF Good
    <2> QED BY <1>1, <1>2, <1>3, NoFirstFailure
  <1> QED BY <1>4

\* There is only one.
LEMMA RecursOnce ==
  ASSUME NEW start, NEW step, NEW n \in Nat, NEW f, NEW g,
         Recurs(f, n, start, step), Recurs(g, n, start, step)
  PROVE  f[n] = g[n]
  <1> DEFINE Good == {k \in Nat : k <= n => f[k] = g[k]}
  <1>1. f[0] = g[0] /\ \A k \in 1..n : f[k] = step[k][f[k - 1]] /\ g[k] = step[k][g[k - 1]]
    BY DEF Recurs
  <1>2. 0 \in Good
    BY <1>1
  <1>3. ASSUME NEW k \in Nat, k \in Good PROVE k + 1 \in Good
    <2> SUFFICES ASSUME k + 1 <= n PROVE f[k + 1] = g[k + 1]
      OBVIOUS
    <2>1. k + 1 \in 1..n /\ (k + 1) - 1 = k /\ f[k] = g[k]
      BY <1>3
    <2>2. f[k + 1] = step[k + 1][f[k]] /\ g[k + 1] = step[k + 1][g[k]]
      BY <1>1, <2>1
    <2> QED BY <2>1, <2>2
  <1>4. Good \in SUBSET Nat
    OBVIOUS
  <1>5. n \in Good
    <2> HIDE DEF Good
    <2> QED BY <1>2, <1>3, <1>4, NoFirstFailure
  <1> QED BY <1>5

\* And there is one for all numbers.
LEMMA RecursionOnNat ==
  ASSUME NEW V, NEW start \in V, NEW step \in [Nat -> [V -> V]]
  PROVE  \E f \in [Nat -> V] : f[0] = start /\ \A k \in Nat : f[k + 1] = step[k + 1][f[k]]
  <1> DEFINE upTo(n) == CHOOSE f \in [0..n -> V] : Recurs(f, n, start, step)
             f == [n \in Nat |-> upTo(n)[n]]
  <1>1. ASSUME NEW n \in Nat
        PROVE  upTo(n) \in [0..n -> V] /\ Recurs(upTo(n), n, start, step)
    <2>1. \E g \in [0..n -> V] : Recurs(g, n, start, step)
      BY Recursion
    <2> QED BY <2>1
  <1> HIDE DEF upTo
  <1>2. f \in [Nat -> V]
    BY <1>1
  <1>3. f[0] = start
    <2>1. upTo(0)[0] = start
      BY <1>1 DEF Recurs
    <2> QED BY <2>1
  <1>4. ASSUME NEW k \in Nat PROVE f[k + 1] = step[k + 1][f[k]]
    <2>1. Recurs(upTo(k + 1), k + 1, start, step) /\ Recurs(upTo(k), k, start, step)
      BY <1>1
    <2>2. Recurs(upTo(k + 1), k, start, step)
      BY <2>1 DEF Recurs
    <2>3. upTo(k + 1)[k] = upTo(k)[k]
      BY <2>1, <2>2, RecursOnce
    <2>4. upTo(k + 1)[k + 1] = step[k + 1][upTo(k + 1)[k]]
      <3>1. k + 1 \in 1..(k + 1) /\ (k + 1) - 1 = k
        OBVIOUS
      <3> QED BY <2>1, <3>1 DEF Recurs
    <2> QED BY <2>3, <2>4
  <1> HIDE DEF f
  <1> QED BY <1>2, <1>3, <1>4

\* A strict order of a set: of two of its elements one comes before the other.
IsOrder(R, S) ==
  /\ \A n \in S : <<n, n>> \notin R
  /\ \A l, m, n \in S : <<l, m>> \in R /\ <<m, n>> \in R => <<l, n>> \in R
  /\ \A m, n \in S : m = n \/ <<m, n>> \in R \/ <<n, m>> \in R

\* What RankedBy is: the number of elements before one is different for each.
LEMMA RankedOf ==
  ASSUME NEW S, IsFiniteSet(S), NEW R, IsOrder(R, S)
  PROVE  /\ Cardinality(S) \in Nat /\ RankedBy(R, S) \in [1..Cardinality(S) -> S]
         /\ \A i, j \in 1..Cardinality(S) : i < j => <<RankedBy(R, S)[i], RankedBy(R, S)[j]>> \in R
         /\ \A n \in S : \E i \in 1..Cardinality(S) : RankedBy(R, S)[i] = n
  <1> DEFINE card == Cardinality(S)
             Before(n) == {m \in S : <<m, n>> \in R}
             rank == [n \in S |-> Cardinality(Before(n))]
             a == RankedBy(R, S)
  <1>1. card \in Nat
    BY FS_CardinalityType
  <1>2. ASSUME NEW n \in S
        PROVE  IsFiniteSet(Before(n)) /\ rank[n] \in 0..(card - 1)
    <2>1. Before(n) \in SUBSET (S \ {n})
      BY DEF IsOrder
    <2>2. IsFiniteSet(S \ {n}) /\ Cardinality(S \ {n}) = card - 1
      BY FS_RemoveElement
    <2>3. IsFiniteSet(Before(n)) /\ Cardinality(Before(n)) <= card - 1
      BY <2>1, <2>2, FS_Subset, ZenonT(30)
    <2>4. Cardinality(Before(n)) \in Nat
      BY <2>3, FS_CardinalityType
    <2> QED BY <1>1, <2>3, <2>4
  <1>3. ASSUME NEW m \in S, NEW n \in S, <<m, n>> \in R PROVE rank[m] < rank[n]
    <2>1. Before(m) \union {m} \in SUBSET Before(n) /\ m \notin Before(m)
      BY <1>3 DEF IsOrder
    <2>2. IsFiniteSet(Before(m)) /\ IsFiniteSet(Before(n))
      BY <1>2
    <2>3. Cardinality(Before(m) \union {m}) = Cardinality(Before(m)) + 1
      BY <2>1, <2>2, FS_AddElement
    <2>4. Cardinality(Before(m) \union {m}) <= Cardinality(Before(n))
      BY <2>1, <2>2, FS_Subset
    <2>5. Cardinality(Before(m)) \in Nat /\ Cardinality(Before(n)) \in Nat
      BY <2>2, FS_CardinalityType
    <2>6. rank[m] = Cardinality(Before(m)) /\ rank[n] = Cardinality(Before(n))
      OBVIOUS
    <2> HIDE DEF Before, rank
    <2> QED BY <2>3, <2>4, <2>5, <2>6
  <1> HIDE DEF rank, Before
  <1>4. rank \in [S -> 0..(card - 1)]
    <2>1. DOMAIN rank = S /\ rank = [n \in S |-> rank[n]]
      BY DEF rank
    <2> QED BY <1>2, <2>1
  <1>5. \A m, n \in S : rank[m] = rank[n] => m = n
    <2> TAKE m, n \in S
    <2>1. m = n \/ <<m, n>> \in R \/ <<n, m>> \in R
      BY DEF IsOrder
    <2>2. rank[m] \in Int /\ rank[n] \in Int
      BY <1>1, <1>4
    <2> QED BY <1>3, <2>1, <2>2
  <1>6. rank \in Injection(S, 0..(card - 1))
    BY <1>4, <1>5 DEF Injection, IsInjective
  <1>7. IsFiniteSet(0..(card - 1)) /\ Cardinality(0..(card - 1)) = card
    <2>1. card - 1 \in Int /\ 0 \in Int
      BY <1>1
    <2>2. IsFiniteSet(0..(card - 1))
            /\ Cardinality(0..(card - 1)) = IF 0 > card - 1 THEN 0 ELSE (card - 1) - 0 + 1
      BY <2>1, FS_Interval
    <2> HIDE DEF card
    <2> QED BY <1>1, <2>2
  <1>8. rank \in Surjection(S, 0..(card - 1))
    BY <1>6, <1>7, FS_Injection
  <1>9. \A i \in 1..card : \E n \in S : rank[n] = i - 1
    <2>1. \A i \in 1..card : i - 1 \in 0..(card - 1)
      BY <1>1
    <2> QED BY <1>8, <2>1 DEF Surjection
  <1>10. a = [i \in 1..card |-> CHOOSE n \in S : rank[n] = i - 1]
    <2>1. \A i \in 1..card : (CHOOSE n \in S : rank[n] = i - 1)
                              = CHOOSE n \in S : Cardinality({m \in S : <<m, n>> \in R}) = i - 1
      <3>1. \A n \in S : rank[n] = Cardinality({m \in S : <<m, n>> \in R})
        BY DEF rank, Before
      <3> QED BY <3>1, Zenon
    <2> QED BY <2>1 DEF RankedBy
  <1>11. DOMAIN a = 1..card /\ \A i \in 1..card : a[i] \in S /\ rank[a[i]] = i - 1
    <2>1. \A i \in 1..card : a[i] = CHOOSE n \in S : rank[n] = i - 1
      BY <1>10
    <2>2. DOMAIN a = 1..card
      BY <1>10
    <2> HIDE DEF a
    <2> QED BY <1>9, <2>1, <2>2
  <1>12. a \in [1..card -> S]
    <2>1. a = [i \in 1..card |-> a[i]]
      BY <1>10
    <2> QED BY <1>11, <2>1
  <1>13. \A i, j \in 1..card : i < j => <<a[i], a[j]>> \in R
    <2> TAKE i, j \in 1..card
    <2>1. a[i] \in S /\ a[j] \in S /\ rank[a[i]] = i - 1 /\ rank[a[j]] = j - 1
      BY <1>11
    <2> HIDE DEF a, card
    <2>2. i \in Int /\ j \in Int
      BY <1>1
    <2>3. <<a[i], a[j]>> \in R \/ <<a[j], a[i]>> \in R \/ a[i] = a[j]
      BY <2>1 DEF IsOrder
    <2>4. <<a[j], a[i]>> \in R => j - 1 < i - 1
      BY <1>3, <2>1
    <2> QED BY <2>1, <2>2, <2>3, <2>4
  <1>14. \A n \in S : \E i \in 1..card : a[i] = n
    <2> TAKE n \in S
    <2>1. rank[n] + 1 \in 1..card
      BY <1>1, <1>4
    <2>2. rank[a[rank[n] + 1]] = rank[n] /\ a[rank[n] + 1] \in S
      BY <1>1, <1>4, <1>11, <2>1
    <2> QED BY <1>5, <2>1, <2>2
  <1> HIDE DEF a, card
  <1>15. a = RankedBy(R, S) /\ card = Cardinality(S)
    BY DEF a, card
  <1> QED BY <1>1, <1>12, <1>13, <1>14, <1>15

\* What Ascending is.
LEMMA AscendingOf ==
  ASSUME NEW S \in SUBSET Int, IsFiniteSet(S)
  PROVE  /\ Cardinality(S) \in Nat /\ Ascending(S) \in Seq(S)
         /\ Len(Ascending(S)) = Cardinality(S) /\ DOMAIN Ascending(S) = 1..Cardinality(S)
         /\ \A i \in 1..Cardinality(S) : Ascending(S)[i] \in S
         /\ \A i, j \in 1..Cardinality(S) : i < j => Ascending(S)[i] < Ascending(S)[j]
         /\ \A n \in S : \E i \in 1..Cardinality(S) : Ascending(S)[i] = n
  <1> DEFINE R == {p \in S \X S : p[1] < p[2]}
             card == Cardinality(S)
             a == Ascending(S)
  <1>1. \A m, n \in S : <<m, n>> \in R <=> m < n
    OBVIOUS
  <1>2. IsOrder(R, S)
    <2>1. S \subseteq Int
      OBVIOUS
    <2> HIDE DEF R
    <2> QED BY <1>1, <2>1 DEF IsOrder
  <1>3. a = RankedBy(R, S)
    <2>1. \A n \in S : {m \in S : m < n} = {m \in S : <<m, n>> \in R}
      BY <1>1
    <2>2. \A i \in 1..card :
            (CHOOSE n \in S : Cardinality({m \in S : m < n}) = i - 1)
              = CHOOSE n \in S : Cardinality({m \in S : <<m, n>> \in R}) = i - 1
      <3> HIDE DEF R
      <3>1. \A n \in S : Cardinality({m \in S : m < n}) = Cardinality({m \in S : <<m, n>> \in R})
        BY <2>1
      <3> QED BY <3>1, Zenon
    <2>3. a = [i \in 1..card |-> CHOOSE n \in S : Cardinality({m \in S : m < n}) = i - 1]
      BY DEF Ascending
    <2>4. RankedBy(R, S)
            = [i \in 1..card |-> CHOOSE n \in S : Cardinality({m \in S : <<m, n>> \in R}) = i - 1]
      BY DEF RankedBy
    <2> HIDE DEF a, R, card
    <2> QED BY <2>2, <2>3, <2>4, Zenon
  <1>4. /\ card \in Nat /\ RankedBy(R, S) \in [1..card -> S]
        /\ \A i, j \in 1..card : i < j => <<RankedBy(R, S)[i], RankedBy(R, S)[j]>> \in R
        /\ \A n \in S : \E i \in 1..card : RankedBy(R, S)[i] = n
    <2> HIDE DEF R
    <2> QED BY <1>2, RankedOf
  <1>5. card \in Nat /\ a \in [1..card -> S]
    BY <1>3, <1>4
  <1>6. \A i, j \in 1..card : i < j => a[i] < a[j]
    <2> TAKE i, j \in 1..card
    <2>1. i < j => <<a[i], a[j]>> \in R
      BY <1>3, <1>4
    <2>2. a[i] \in S /\ a[j] \in S
      BY <1>5
    <2> HIDE DEF a, R
    <2> QED BY <1>1, <2>1, <2>2
  <1>7. \A n \in S : \E i \in 1..card : a[i] = n
    BY <1>3, <1>4
  <1> HIDE DEF a, card
  <1>8. a \in Seq(S) /\ Len(a) = card /\ DOMAIN a = 1..card /\ \A i \in 1..card : a[i] \in S
    BY <1>5
  <1>9. a = Ascending(S) /\ card = Cardinality(S)
    BY DEF a, card
  <1> QED BY <1>5, <1>6, <1>7, <1>8, <1>9

\* What is picked from a sequence is, element by element, what it has at these
\* indices, in their order.
PicksAt(at, picked, seq, I) ==
  /\ at \in [1..Cardinality(I) -> I]
  /\ \A k \in 1..Cardinality(I) : picked[k] = seq[at[k]]
  /\ \A k, l \in 1..Cardinality(I) : k < l => at[k] < at[l]
  /\ \A i \in I : \E k \in 1..Cardinality(I) : at[k] = i

LEMMA PickedOf ==
  ASSUME NEW V, NEW seq \in Seq(V), NEW I \in SUBSET (1..Len(seq))
  PROVE  /\ IsFiniteSet(I) /\ Cardinality(I) \in Nat
         /\ Picked(seq, I) \in Seq(V) /\ Len(Picked(seq, I)) = Cardinality(I)
         /\ \E at : PicksAt(at, Picked(seq, I), seq, I)
  <1> DEFINE at == Ascending(I)
             card == Cardinality(I)
             p == Picked(seq, I)
  <1>1. Len(seq) \in Nat /\ I \in SUBSET Int /\ \A i \in I : seq[i] \in V
    OBVIOUS
  <1>2. IsFiniteSet(I)
    <2>1. IsFiniteSet(1..Len(seq))
      BY <1>1, FS_Interval
    <2> QED BY <2>1, FS_Subset
  <1>3. /\ card \in Nat /\ at \in Seq(I) /\ Len(at) = card /\ DOMAIN at = 1..card
        /\ \A k \in 1..card : at[k] \in I
        /\ \A k, l \in 1..card : k < l => at[k] < at[l]
        /\ \A i \in I : \E k \in 1..card : at[k] = i
    BY <1>1, <1>2, AscendingOf
  <1>4. p = [k \in DOMAIN at |-> seq[at[k]]]
    BY DEF Picked
  <1> HIDE DEF at, p, card
  <1>5. p \in [1..card -> V]
    BY <1>1, <1>3, <1>4
  <1>6. p \in Seq(V) /\ Len(p) = card
    BY <1>3, <1>5
  <1>7. at \in [1..card -> I] /\ \A k \in 1..card : p[k] = seq[at[k]]
    BY <1>3, <1>4
  <1>8. PicksAt(at, p, seq, I)
    BY <1>3, <1>7 DEF PicksAt, card
  <1> QED BY <1>2, <1>3, <1>6, <1>8, Zenon DEF p, card

\* What is compared by keys: nothing is before itself or what is before it, and
\* what is not before another is not before what that is not before.
IsWeakOrder(before, S) ==
  /\ \A m, n \in S : <<m, n>> \in before => <<n, m>> \notin before
  /\ \A l, m, n \in S : <<l, m>> \notin before /\ <<m, n>> \notin before => <<l, n>> \notin before

LEMMA StableOrderOf ==
  ASSUME NEW S \in SUBSET Int, NEW before, IsWeakOrder(before, S)
  PROVE  IsOrder(StableOrder(before, S), S)
  <1> DEFINE R == StableOrder(before, S)
  <1>1. \A m, n \in S : <<m, n>> \in R <=>
          <<m, n>> \in before \/ (<<n, m>> \notin before /\ m < n)
    BY DEF StableOrder
  <1>2. S \subseteq Int
    OBVIOUS
  <1> HIDE DEF R
  <1>3. ASSUME NEW n \in S PROVE <<n, n>> \notin R
    BY <1>1, <1>2 DEF IsWeakOrder
  <1>4. ASSUME NEW l \in S, NEW m \in S, NEW n \in S, <<l, m>> \in R, <<m, n>> \in R
        PROVE  <<l, n>> \in R
    <2>1. /\ <<l, m>> \in before \/ (<<m, l>> \notin before /\ l < m)
          /\ <<m, n>> \in before \/ (<<n, m>> \notin before /\ m < n)
      BY <1>1, <1>4
    <2>2. <<n, l>> \notin before
      BY <2>1 DEF IsWeakOrder
    <2>3. CASE <<l, m>> \in before \/ <<m, n>> \in before
      BY <1>1, <2>1, <2>3 DEF IsWeakOrder
    <2>4. CASE <<l, m>> \notin before /\ <<m, n>> \notin before
      <3>1. l \in Int /\ m \in Int /\ n \in Int /\ l < m /\ m < n
        BY <1>2, <2>1, <2>4
      <3>2. l < n
        BY <3>1
      <3> QED BY <1>1, <2>2, <3>2
    <2> QED BY <2>3, <2>4
  <1>5. ASSUME NEW m \in S, NEW n \in S PROVE m = n \/ <<m, n>> \in R \/ <<n, m>> \in R
    <2>1. m = n \/ m < n \/ n < m
      BY <1>2
    <2> QED BY <1>1, <2>1
  <1>6. IsOrder(R, S)
    BY <1>3, <1>4, <1>5 DEF IsOrder
  <1> QED BY <1>6 DEF R

\* What is sorted has the elements of the sequence, each once, and those that come
\* before others first.
SortsAt(at, sorted, seq, before) ==
  /\ at \in [1..Len(seq) -> 1..Len(seq)]
  /\ \A k \in 1..Len(seq) : sorted[k] = seq[at[k]]
  /\ \A k, l \in 1..Len(seq) : k < l => at[k] # at[l] /\ <<at[l], at[k]>> \notin before
  /\ \A i \in 1..Len(seq) : \E k \in 1..Len(seq) : at[k] = i

LEMMA SortedOf ==
  ASSUME NEW V, NEW seq \in Seq(V), NEW before, IsWeakOrder(before, 1..Len(seq))
  PROVE  /\ StableSort(seq, before) \in Seq(V) /\ Len(StableSort(seq, before)) = Len(seq)
         /\ \E at : SortsAt(at, StableSort(seq, before), seq, before)
  <1> DEFINE n == Len(seq)
             D == 1..n
             R == StableOrder(before, D)
             at == RankedBy(R, D)
             sorted == StableSort(seq, before)
  <1>1. n \in Nat /\ D \in SUBSET Int /\ DOMAIN seq = D
    OBVIOUS
  <1>2. IsFiniteSet(D) /\ Cardinality(D) = n
    <2>1. IsFiniteSet(1..n) /\ Cardinality(1..n) = IF 1 > n THEN 0 ELSE n - 1 + 1
      BY <1>1, FS_Interval
    <2> HIDE DEF n
    <2> QED BY <1>1, <2>1
  <1>3. IsOrder(R, D)
    BY <1>1, StableOrderOf
  <1>4. sorted = [k \in D |-> seq[at[k]]]
    BY <1>1 DEF StableSort
  <1>5. \A k, l \in D : <<k, l>> \in R => <<l, k>> \notin before
    BY DEF R, StableOrder, IsWeakOrder
  <1> HIDE DEF R, D, at, sorted
  <1>6. /\ at \in [1..n -> D]
        /\ \A k, l \in 1..n : k < l => <<at[k], at[l]>> \in R
        /\ \A i \in D : \E k \in 1..n : at[k] = i
    BY <1>2, <1>3, RankedOf DEF at
  <1>7. \A k, l \in D : k < l => at[k] # at[l] /\ <<at[l], at[k]>> \notin before
    <2> TAKE k, l \in D
    <2>1. k < l => <<at[k], at[l]>> \in R /\ at[k] \in D /\ at[l] \in D
      BY <1>6 DEF D
    <2> QED BY <1>3, <1>5, <2>1 DEF IsOrder
  <1>8. sorted \in [1..n -> V]
    <2>1. \A i \in D : seq[i] \in V
      BY <1>1
    <2>2. \A k \in 1..n : at[k] \in D
      BY <1>6
    <2> HIDE DEF n
    <2>3. 1..n = D
      BY DEF D
    <2> QED BY <1>4, <2>1, <2>2, <2>3
  <1>9. sorted \in Seq(V) /\ Len(sorted) = n /\ \A k \in 1..n : sorted[k] = seq[at[k]]
    BY <1>1, <1>4, <1>8 DEF D
  <1>10. SortsAt(at, sorted, seq, before)
    BY <1>6, <1>7, <1>9 DEF SortsAt, D
  <1>11. sorted = StableSort(seq, before)
    BY DEF sorted
  <1> QED BY <1>9, <1>10, <1>11

\* A sum, number by number.
LEMMA SumSteps ==
  ASSUME NEW S \in SUBSET Int, IsFiniteSet(S), NEW f, \A n \in S : f[n] \in Int
  PROVE  \E u \in [0..Cardinality(S) -> Int] :
           /\ u[0] = 0 /\ u[Cardinality(S)] = SumOver(f, S)
           /\ \A k \in 1..Cardinality(S) : u[k] = u[k - 1] + f[Ascending(S)[k]]
  <1> DEFINE order == Ascending(S)
             n == Cardinality(S)
             IsSum(u) == u = [i \in 0..Len(order) |-> IF i = 0 THEN 0 ELSE u[i - 1] + f[order[i]]]
             upTo == CHOOSE u : IsSum(u)
  <1>1. n \in Nat /\ Len(order) = n /\ \A i \in 1..n : f[order[i]] \in Int
    <2>1. /\ n \in Nat /\ Len(order) = n
          /\ \A i \in 1..n : order[i] \in S
      BY AscendingOf
    <2> HIDE DEF order, n
    <2> QED BY <2>1
  <1>2. SumOver(f, S) = upTo[n]
    <2>1. SumOver(f, S) = upTo[Len(order)]
      BY DEF SumOver
    <2> HIDE DEF order, upTo, n
    <2> QED BY <1>1, <2>1
  <1> HIDE DEF n, order
  <1> DEFINE step == [k \in Nat |-> [sum \in Int |-> IF k \in 1..n THEN sum + f[order[k]] ELSE 0]]
  <1>3. step \in [Nat -> [Int -> Int]]
    BY <1>1
  <1>4. PICK u \in [0..n -> Int] : u[0] = 0 /\ \A k \in 1..n : u[k] = step[k][u[k - 1]]
    <2> HIDE DEF step
    <2>1. n \in Nat /\ 0 \in Int
      BY <1>1
    <2>2. \E g \in [0..n -> Int] : Recurs(g, n, 0, step)
      BY <1>3, <2>1, Recursion
    <2> QED BY <2>2 DEF Recurs
  <1>5. \A k \in 1..n : u[k] = u[k - 1] + f[order[k]]
    <2> TAKE k \in 1..n
    <2>1. k - 1 \in 0..n /\ u[k - 1] \in Int /\ k \in Nat
      BY <1>1
    <2> QED BY <1>4, <2>1
  <1>6. IsSum(u)
    <2>1. \A i \in 0..n : u[i] = IF i = 0 THEN 0 ELSE u[i - 1] + f[order[i]]
      BY <1>1, <1>4, <1>5
    <2>2. u = [i \in 0..n |-> u[i]]
      OBVIOUS
    <2> QED BY <1>1, <2>1, <2>2
  <1>7. IsSum(upTo)
    <2> HIDE DEF IsSum
    <2> QED BY <1>6
  <1> DEFINE Good == {k \in Nat : k <= n => upTo[k] \in Int}
  <1>8. DOMAIN upTo = 0..n /\ \A i \in 0..n : upTo[i] = IF i = 0 THEN 0 ELSE upTo[i - 1] + f[order[i]]
    BY <1>1, <1>7
  <1>9. upTo = [i \in 0..n |-> upTo[i]]
    BY <1>1, <1>7
  <1> HIDE DEF upTo
  <1>10. 0 \in Good
    BY <1>1, <1>8
  <1>11. ASSUME NEW k \in Nat, k \in Good PROVE k + 1 \in Good
    <2> SUFFICES ASSUME k + 1 <= n PROVE upTo[k + 1] \in Int
      OBVIOUS
    <2>1. k + 1 \in 1..n /\ upTo[k] \in Int
      BY <1>1, <1>11
    <2>2. upTo[k + 1] = upTo[k] + f[order[k + 1]]
      BY <1>8, <2>1
    <2> QED BY <1>1, <2>1, <2>2
  <1>12. Good = Nat
    <2>1. Good \in SUBSET Nat
      OBVIOUS
    <2> HIDE DEF Good
    <2> QED BY <1>10, <1>11, <2>1, NoFirstFailure
  <1>13. upTo \in [0..n -> Int]
    <2>1. \A i \in 0..n : upTo[i] \in Int
      BY <1>1, <1>12
    <2> QED BY <1>9, <2>1
  <1>14. upTo[0] = 0 /\ \A k \in 1..n : upTo[k] = upTo[k - 1] + f[order[k]]
    BY <1>1, <1>8
  <1>15. upTo[n] = SumOver(f, S)
    BY <1>2
  <1>16. \E v \in [0..n -> Int] :
           v[0] = 0 /\ v[n] = SumOver(f, S) /\ \A k \in 1..n : v[k] = v[k - 1] + f[order[k]]
    BY <1>13, <1>14, <1>15
  <1> QED BY <1>16, Zenon DEF n, order

\* A sum of whole numbers is one, and of natural numbers.
LEMMA SumOf ==
  ASSUME NEW S \in SUBSET Int, IsFiniteSet(S), NEW f, \A n \in S : f[n] \in Int
  PROVE  SumOver(f, S) \in Int /\ ((\A n \in S : f[n] \in Nat) => SumOver(f, S) \in Nat)
  <1> DEFINE n == Cardinality(S)
             order == Ascending(S)
  <1>1. PICK u \in [0..n -> Int] :
          u[0] = 0 /\ u[n] = SumOver(f, S) /\ \A k \in 1..n : u[k] = u[k - 1] + f[order[k]]
    BY SumSteps
  <1>2. n \in Nat /\ \A i \in 1..n : order[i] \in S
    BY AscendingOf
  <1> HIDE DEF n, order
  <1>3. SumOver(f, S) \in Int
    BY <1>1, <1>2
  <1>4. ASSUME \A m \in S : f[m] \in Nat PROVE SumOver(f, S) \in Nat
    <2> DEFINE Good == {k \in Nat : k <= n => u[k] \in Nat}
    <2>1. 0 \in Good
      BY <1>1
    <2>2. ASSUME NEW k \in Nat, k \in Good PROVE k + 1 \in Good
      <3> SUFFICES ASSUME k + 1 <= n PROVE u[k + 1] \in Nat
        OBVIOUS
      <3>1. k + 1 \in 1..n /\ (k + 1) - 1 = k
        BY <1>2
      <3>2. u[k] \in Nat
        BY <1>2, <2>2
      <3>3. order[k + 1] \in S
        BY <1>2, <3>1
      <3>4. f[order[k + 1]] \in Nat
        BY <1>4, <3>3
      <3>5. u[k + 1] = u[k] + f[order[k + 1]]
        BY <1>1, <3>1
      <3> QED BY <3>2, <3>4, <3>5
    <2>3. Good = Nat
      <3>1. Good \in SUBSET Nat
        OBVIOUS
      <3> HIDE DEF Good
      <3> QED BY <2>1, <2>2, <3>1, NoFirstFailure
    <2> QED BY <1>1, <1>2, <2>3
  <1> QED BY <1>3, <1>4

\* What is in parts is, in all, what its parts are together.
LEMMA SumCounts ==
  ASSUME NEW D, IsFiniteSet(D), NEW S \in SUBSET Int, IsFiniteSet(S), NEW part \in [D -> S],
         NEW f, \A n \in S : f[n] = Cardinality({d \in D : part[d] = n})
  PROVE  SumOver(f, S) = Cardinality(D)
  <1> DEFINE n == Cardinality(S)
             order == Ascending(S)
             In(k) == {d \in D : \E i \in 1..k : part[d] = order[i]}
             Part(m) == {d \in D : part[d] = m}
  <1>1. ASSUME NEW m \in S
        PROVE  IsFiniteSet(Part(m)) /\ f[m] = Cardinality(Part(m)) /\ f[m] \in Int
    <2>1. IsFiniteSet(Part(m))
      BY FS_Subset
    <2>2. Cardinality(Part(m)) \in Nat
      BY <2>1, FS_CardinalityType
    <2> QED BY <2>1, <2>2
  <1>2. PICK u \in [0..n -> Int] :
          u[0] = 0 /\ u[n] = SumOver(f, S) /\ \A k \in 1..n : u[k] = u[k - 1] + f[order[k]]
    <2>1. \A m \in S : f[m] \in Int
      BY <1>1
    <2> QED BY <2>1, SumSteps
  <1>3. /\ n \in Nat /\ \A i \in 1..n : order[i] \in S
        /\ \A i, j \in 1..n : i < j => order[i] < order[j]
        /\ \A m \in S : \E i \in 1..n : order[i] = m
    BY AscendingOf
  <1> HIDE DEF n, order
  <1> DEFINE Counted == {k \in Nat : k <= n => u[k] = Cardinality(In(k))}
  <1>4. 0 \in Counted
    <2>1. In(0) = {}
      OBVIOUS
    <2> HIDE DEF In
    <2>2. Cardinality(In(0)) = 0
      BY <2>1, FS_EmptySet
    <2> QED BY <1>2, <2>2
  <1>5. ASSUME NEW k \in Nat, k \in Counted PROVE k + 1 \in Counted
    <2> SUFFICES ASSUME k + 1 <= n PROVE u[k + 1] = Cardinality(In(k + 1))
      OBVIOUS
    <2> DEFINE m == order[k + 1]
    <2>1. k + 1 \in 1..n /\ m \in S /\ u[k] = Cardinality(In(k)) /\ u[k + 1] = u[k] + f[m]
      BY <1>2, <1>3, <1>5
    <2>2. In(k + 1) = In(k) \union Part(m)
      <3>1. \A i : i \in 1..(k + 1) <=> i \in 1..k \/ i = k + 1
        OBVIOUS
      <3> QED BY <3>1
    <2>3. In(k) \intersect Part(m) = {}
      <3>1. \A i \in 1..k : order[i] < order[k + 1] /\ order[i] \in Int /\ order[k + 1] \in Int
        <4> TAKE i \in 1..k
        <4>1. i \in 1..n /\ k + 1 \in 1..n /\ i < k + 1
          BY <1>3, <2>1
        <4>2. order[i] \in S /\ order[k + 1] \in S /\ order[i] < order[k + 1]
          BY <1>3, <4>1
        <4> QED BY <4>2
      <3>2. \A i \in 1..k : order[i] # m
        BY <3>1
      <3> QED BY <3>2
    <2>4. IsFiniteSet(In(k))
      BY FS_Subset
    <2> HIDE DEF In, Part, m
    <2>5. Cardinality(In(k) \union Part(m))
            = Cardinality(In(k)) + Cardinality(Part(m)) - Cardinality(In(k) \intersect Part(m))
      BY <1>1, <2>1, <2>4, FS_Union
    <2>6. Cardinality(In(k) \intersect Part(m)) = 0
      BY <2>3, FS_EmptySet
    <2>7. Cardinality(In(k)) \in Nat /\ Cardinality(Part(m)) \in Nat /\ f[m] = Cardinality(Part(m))
      BY <1>1, <2>1, <2>4, FS_CardinalityType
    <2>8. Cardinality(In(k + 1)) = Cardinality(In(k) \union Part(m))
      BY <2>2, Zenon
    <2>9. u[k] = Cardinality(In(k)) /\ u[k + 1] = u[k] + f[m]
      BY <2>1
    <2>10. Cardinality(In(k) \union Part(m)) = Cardinality(In(k)) + Cardinality(Part(m))
      BY <2>5, <2>6, <2>7
    <2> QED BY <2>7, <2>8, <2>9, <2>10
  <1>6. Counted = Nat
    <2>1. Counted \in SUBSET Nat
      OBVIOUS
    <2> HIDE DEF Counted
    <2> QED BY <1>4, <1>5, <2>1, NoFirstFailure
  <1>7. u[n] = Cardinality(In(n))
    <2>1. n \in Counted
      <3> HIDE DEF Counted
      <3> QED BY <1>3, <1>6
    <2>2. n <= n
      BY <1>3
    <2> HIDE DEF In
    <2> QED BY <2>1, <2>2
  <1>8. In(n) = D
    BY <1>3
  <1> HIDE DEF In
  <1> QED BY <1>2, <1>7, <1>8
=============================================================================
