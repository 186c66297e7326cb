-------------------------- MODULE NumberingProofs ---------------------------
(* Sets of numbers have a least and a last, and an order to go through.    *)
EXTENDS Numbering, Integers, FiniteSetTheorems, WellFoundedInduction, TLAPS

\* A set of naturals has a least.
LEMMA LeastOfNumbers ==
  ASSUME NEW S \in SUBSET Nat, S # {}
  PROVE  \E s \in S : \A t \in S : s <= t
<1> DEFINE R == OpToRel(<, Nat)
<1>1. \A x, y \in Nat : y < x => <<y, x>> \in R
  BY DEF OpToRel
<1>2. IsWellFoundedOn(R, Nat)
  BY NatLessThanWellFounded
<1> HIDE DEF R
<1>3. PICK s \in S : \A t \in S : <<t, s>> \notin R
  BY <1>2, WFMin
<1>4. \A t \in S : s <= t
  <2> TAKE t \in S
  <2>1. s \in Nat /\ t \in Nat /\ ~(t < s)
    BY <1>1, <1>3
  <2> QED
    BY <2>1
<1> QED
  BY <1>4

\* One that is bounded has a last.
LEMMA LastOfNumbers ==
  ASSUME NEW n \in Nat, NEW S \in SUBSET (0..n), S # {}
  PROVE  \E i \in S : \A j \in S : j <= i
<1> DEFINE T == {n - i : i \in S}
<1>1. \A i \in S : i \in Int /\ i <= n /\ n - i \in Nat
  OBVIOUS
<1>2. T \in SUBSET Nat /\ T # {}
  BY <1>1
<1> HIDE DEF T
<1>3. PICK t \in T : \A u \in T : t <= u
  BY <1>2, LeastOfNumbers
<1>4. PICK i \in S : t = n - i
  BY <1>3 DEF T
<1>5. \A j \in S : j <= i
  <2> TAKE j \in S
  <2>1. n - j \in T
    BY DEF T
  <2> QED
    BY <1>1, <1>3, <1>4, <2>1
<1> QED
  BY <1>5

\* Counting through a finite set finds each of its numbers, once and in order.
LEMMA NthOfNumbers ==
  ASSUME NEW S \in SUBSET Int, IsFiniteSet(S)
  PROVE  /\ Cardinality(S) \in Nat
         /\ \A k \in 1..Cardinality(S) : Nth(S, k) \in S
         /\ \A i \in S : \E k \in 1..Cardinality(S) : Nth(S, k) = i
         /\ \A j, k \in 1..Cardinality(S) : j < k => Nth(S, j) < Nth(S, k)
<1> DEFINE Upto(i)  == {j \in S : j <= i}
           Place(i) == Cardinality(Upto(i))
           N        == Cardinality(S)
           place    == [i \in S |-> Place(i)]
<1>1. IsFiniteSet(S) /\ N \in Nat
  BY FS_CardinalityType
<1>2. \A i \in S : i \in Int
  OBVIOUS
<1>3. \A i \in S : Place(i) \in 1..N
  <2> TAKE i \in S
  <2>1. Upto(i) \in SUBSET S /\ i \in Upto(i)
    BY <1>2
  <2>2. IsFiniteSet(Upto(i)) /\ Place(i) <= N
    BY <1>1, <2>1, FS_Subset
  <2>3. Place(i) \in Nat /\ Place(i) # 0
    BY <2>1, <2>2, FS_CardinalityType, FS_EmptySet
  <2> QED
    BY <1>1, <2>2, <2>3
<1>4. ASSUME NEW i \in S, NEW j \in S, i < j PROVE Place(i) # Place(j)
  <2>1. Upto(i) \in SUBSET Upto(j) /\ j \in Upto(j) /\ j \notin Upto(i)
    <3>1. \A k \in S : k <= i => k <= j
      BY <1>2, <1>4
    <3>2. ~(j <= i) /\ j <= j
      BY <1>2, <1>4
    <3> QED
      BY <3>1, <3>2
  <2>2. IsFiniteSet(Upto(j))
    BY <1>1, FS_Subset
  <2> QED
    BY <2>1, <2>2, FS_Subset
<1> HIDE DEF Place
<1>5. \A i, j \in S : Place(i) = Place(j) => i = j
  <2> SUFFICES ASSUME NEW i \in S, NEW j \in S, Place(i) = Place(j), i # j PROVE FALSE
    OBVIOUS
  <2>1. i < j \/ j < i
    BY <1>2
  <2> QED
    BY <1>4, <2>1
<1>6. place \in Surjection(S, 1..N)
  <2>1. place \in Injection(S, 1..N)
    BY <1>3, <1>5 DEF Injection, IsInjective
  <2>2. IsFiniteSet(1..N) /\ Cardinality(1..N) = N
    BY <1>1, FS_Interval
  <2> QED
    BY <2>1, <2>2, FS_Injection
<1>7. \A k \in 1..N : \E i \in S : Place(i) = k
  BY <1>6 DEF Surjection
<1>8. \A k : Nth(S, k) = CHOOSE i \in S : Place(i) = k
  BY DEF Nth, Place
<1>9. \A k \in 1..N : Nth(S, k) \in S /\ Place(Nth(S, k)) = k
  BY <1>7, <1>8
<1>10. \A i \in S : Nth(S, Place(i)) = i
  BY <1>3, <1>5, <1>9
<1>11. ASSUME NEW j \in 1..N, NEW k \in 1..N, j < k PROVE Nth(S, j) < Nth(S, k)
  <2> DEFINE a == Nth(S, j)
             b == Nth(S, k)
  <2>1. a \in S /\ b \in S /\ Place(a) = j /\ Place(b) = k
    BY <1>9
  <2> HIDE DEF a, b
  <2>2. CASE b <= a
    <3>1. Upto(b) \in SUBSET Upto(a)
      <4>1. \A i \in S : i <= b => i <= a
        BY <1>2, <2>1, <2>2
      <4> QED
        BY <4>1
    <3>2. IsFiniteSet(Upto(a))
      BY <1>1, FS_Subset
    <3>3. Place(b) <= Place(a)
      BY <3>1, <3>2, FS_Subset DEF Place
    <3> QED
      BY <1>11, <2>1, <3>3
  <2>3. ~(b <= a) => a < b
    BY <1>2, <2>1
  <2> QED
    BY <2>2, <2>3 DEF a, b
<1> QED
  BY <1>1, <1>3, <1>9, <1>10, <1>11

\* Induction, with the numbers that have the property as a set.
LEMMA InductionUpTo ==
  ASSUME NEW n \in Nat, NEW S, 0 \in S, \A k \in 1..n : k - 1 \in S => k \in S
  PROVE  \A k \in 0..n : k \in S
<1> SUFFICES ASSUME {k \in 0..n : k \notin S} # {} PROVE FALSE
  OBVIOUS
<1> DEFINE Missing == {k \in 0..n : k \notin S}
<1>1. Missing \in SUBSET Nat /\ Missing # {}
  OBVIOUS
<1> HIDE DEF Missing
<1>2. PICK m \in Missing : \A k \in Missing : m <= k
  BY <1>1, LeastOfNumbers
<1>3. m \in 0..n /\ m \notin S /\ m # 0
  BY <1>2 DEF Missing
<1>4. m \in 1..n /\ m - 1 \in 0..n /\ ~(m <= m - 1)
  BY <1>3
<1>5. m - 1 \in S
  BY <1>2, <1>4 DEF Missing
<1> QED
  BY <1>3, <1>4, <1>5

\* What makes each of n values from the one before, and what they are from the first.
Steps(n, D) == [(1..n) \X D -> D]
Iterates(f, n, D, b, step) ==
  f \in [0..n -> D] /\ f[0] = b /\ \A k \in 1..n : f[k] = step[<<k, f[k - 1]>>]

\* There are such values: a recursive function over numbers exists.
LEMMA RecursionUpTo ==
  ASSUME NEW n \in Nat, NEW D, NEW b \in D, NEW step \in Steps(n, D)
  PROVE  \E f : Iterates(f, n, D, b, step)
<1> DEFINE Good(m, f) == /\ f \in [0..m -> D] /\ f[0] = b
                         /\ \A k \in 1..m : f[k] = step[<<k, f[k - 1]>>]
           S == {m \in 0..n : \E f : Good(m, f)}
<1>0. step \in [(1..n) \X D -> D]
  BY DEF Steps
<1>1. 0 \in S
  <2>1. Good(0, [k \in 0..0 |-> b])
    OBVIOUS
  <2> HIDE DEF Good
  <2> QED
    BY <2>1
<1>2. ASSUME NEW k \in 1..n, k - 1 \in S PROVE k \in S
  <2>1. PICK f : Good(k - 1, f)
    BY <1>2
  <2> DEFINE g == [j \in 0..k |-> IF j < k THEN f[j] ELSE step[<<k, f[k - 1]>>]]
  <2>2. /\ f \in [0..(k - 1) -> D] /\ f[0] = b
        /\ \A j \in 1..(k - 1) : f[j] = step[<<j, f[j - 1]>>]
    BY <2>1
  <2>3. f[k - 1] \in D /\ step[<<k, f[k - 1]>>] \in D
    BY <1>0, <2>2
  <2>4. \A j \in 0..(k - 1) : g[j] = f[j] /\ g[j] \in D
    BY <2>2
  <2>5. g[k] = step[<<k, f[k - 1]>>]
    OBVIOUS
  <2>6. g \in [0..k -> D]
    BY <2>2, <2>3
  <2> HIDE DEF g
  <2>7. g[0] = b
    BY <2>2, <2>4
  <2>8. ASSUME NEW j \in 1..k PROVE g[j] = step[<<j, g[j - 1]>>]
    <3>1. CASE j = k
      BY <2>4, <2>5, <3>1
    <3>2. CASE j # k
      <4>1. j \in 1..(k - 1) /\ j \in 0..(k - 1) /\ j - 1 \in 0..(k - 1)
        BY <3>2
      <4> QED
        BY <2>2, <2>4, <4>1
    <3> QED
      BY <3>1, <3>2
  <2>9. Good(k, g)
    BY <2>6, <2>7, <2>8
  <2> HIDE DEF Good
  <2> QED
    BY <2>9
<1> HIDE DEF S
<1>3. \A k \in 0..n : k \in S
  BY <1>1, <1>2, InductionUpTo
<1>4. n \in S
  BY <1>3
<1> HIDE DEF Good
<1>5. PICK f : Good(n, f)
  BY <1>4 DEF S
<1> QED
  BY <1>5 DEF Good, Iterates
=============================================================================
