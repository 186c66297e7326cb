-------------------------- MODULE TargetCutProofs ---------------------------
(* Proofs about TargetCut: what each pass leaves for the next one, and what *)
(* that makes of the target, for any binary and any inputs.                 *)
EXTENDS TargetCut, NumberingProofs

-----------------------------------------------------------------------------
(* Numbers, orders and sequences.                                          *)

\* The least of a set of naturals.
LEMMA LeastIs ==
  ASSUME NEW S \in SUBSET Nat, S # {}
  PROVE  Min(S) \in S /\ \A t \in S : Min(S) <= t
<1>1. \E s \in S : \A t \in S : s <= t
  BY LeastOfNumbers
<1> QED
  BY <1>1 DEF Min

\* The last of a bounded one.
LEMMA GreatestIs ==
  ASSUME NEW n \in Nat, NEW S \in SUBSET (0..n), S # {}
  PROVE  Max(S) \in S /\ \A t \in S : t <= Max(S)
<1>1. \E s \in S : \A t \in S : s >= t
  <2>1. PICK s \in S : \A t \in S : t <= s
    BY LastOfNumbers
  <2> QED
    BY <2>1
<1> DEFINE m == CHOOSE x \in S : \A y \in S : x >= y
<1>2. m \in S /\ \A y \in S : m >= y
  BY <1>1
<1>3. Max(S) = m
  BY DEF Max
<1> HIDE DEF m
<1> QED
  BY <1>2, <1>3

\* The greater of two.
LEMMA GreaterIs ==
  ASSUME NEW a \in Nat, NEW b \in Nat
  PROVE  Max({a, b}) = IF a <= b THEN b ELSE a
<1> DEFINE m == Max({a, b})
<1>1. m \in {a, b} /\ \A t \in {a, b} : t <= m
  <2> DEFINE n == a + b
  <2>1. n \in Nat /\ {a, b} \in SUBSET (0..n) /\ {a, b} # {}
    OBVIOUS
  <2> HIDE DEF n
  <2> QED
    BY <2>1, GreatestIs
<1> HIDE DEF m
<1> QED
  BY <1>1 DEF m

\* A set of indices has a last in any order that compares them all.
Compares(R, T) ==
  /\ \A i, j \in T : i # j => <<i, j>> \in R \/ <<j, i>> \in R
  /\ \A i, j, k \in T : <<i, j>> \in R /\ <<j, k>> \in R => <<i, k>> \in R
LEMMA LastInOrder ==
  ASSUME NEW n \in Nat, NEW T \in SUBSET (1..n), T # {}, NEW R, Compares(R, T)
  PROVE  \E i \in T : \A j \in T \ {i} : <<j, i>> \in R
<1> DEFINE Latest(i, k) == i \in T /\ i <= k /\ \A j \in T : j <= k /\ j # i => <<j, i>> \in R
           S == {k \in 0..n : (\A j \in T : ~(j <= k)) \/ \E i \in T : Latest(i, k)}
<1>1. \A j \in T : j \in 1..n
  OBVIOUS
<1>2. 0 \in S
  BY <1>1
<1>3. ASSUME NEW k \in 1..n, k - 1 \in S PROVE k \in S
  <2>1. \A j \in T : j <= k => j <= k - 1 \/ j = k
    BY <1>1
  <2>2. CASE k \notin T
    <3>1. \A j \in T : j <= k <=> j <= k - 1
      BY <1>1, <2>1, <2>2
    <3> QED
      BY <1>3, <3>1
  <2>3. CASE k \in T /\ \A j \in T : ~(j <= k - 1)
    <3>1. Latest(k, k)
      BY <2>1, <2>3
    <3> QED
      BY <2>3, <3>1
  <2>4. CASE k \in T /\ \E i \in T : Latest(i, k - 1)
    <3>1. PICK i \in T : Latest(i, k - 1)
      BY <2>4
    <3>2. i # k /\ i <= k
      BY <1>1, <3>1
    <3>3. CASE <<i, k>> \in R
      <4>1. ASSUME NEW j \in T, j <= k, j # k PROVE <<j, k>> \in R
        <5>1. j <= k - 1
          BY <2>1, <4>1
        <5>2. j = i \/ <<j, i>> \in R
          BY <3>1, <5>1
        <5> QED
          BY <2>4, <3>1, <3>3, <5>2 DEF Compares
      <4>2. Latest(k, k)
        BY <2>4, <4>1
      <4> QED
        BY <2>4, <4>2
    <3>4. CASE <<k, i>> \in R
      <4>1. \A j \in T : j <= k /\ j # i => <<j, i>> \in R
        BY <2>1, <3>1, <3>4
      <4>2. Latest(i, k)
        BY <3>1, <3>2, <4>1
      <4> QED
        BY <4>2
    <3>5. <<i, k>> \in R \/ <<k, i>> \in R
      BY <2>4, <3>2 DEF Compares
    <3> HIDE DEF S
    <3> QED
      BY <3>3, <3>4, <3>5
  <2> QED
    BY <1>3, <2>2, <2>3, <2>4
<1> HIDE DEF S
<1>4. \A k \in 0..n : k \in S
  BY <1>2, <1>3, InductionUpTo
<1>5. n \in S
  BY <1>4
<1>6. \E j \in T : j <= n
  <2>1. PICK j \in T : TRUE
    OBVIOUS
  <2>2. j \in 1..n
    BY <1>1, <2>1
  <2> QED
    BY <2>2
<1> HIDE DEF Latest
<1>7. (\A j \in T : ~(j <= n)) \/ \E i \in T : Latest(i, n)
  BY <1>5 DEF S
<1>8. PICK i \in T : Latest(i, n)
  BY <1>6, <1>7
<1> QED
  BY <1>1, <1>8 DEF Latest

\* Symbols that follow one another from one address to another.
Covers(s, from, to) ==
  /\ s = <<>> => from = to
  /\ s # <<>> => s[1].addr = from /\ End(s[Len(s)]) = to
  /\ \A i \in 1..(Len(s) - 1) : End(s[i]) = s[i + 1].addr

\* Symbols have an address and a size.
LEMMA SymbolTyped ==
  ASSUME NEW x \in Symbol
  PROVE  x.addr \in Nat /\ x.size \in Nat /\ End(x) \in Nat /\ End(x) = x.addr + x.size
BY DEF Symbol, End

\* An element of a sequence.
LEMMA ElementOf ==
  ASSUME NEW T, NEW s \in Seq(T), NEW i \in DOMAIN s
  PROVE  s[i] \in T
OBVIOUS

\* What one sequence after another holds.
LEMMA BothHold ==
  ASSUME NEW T, NEW s \in Seq(T), NEW t \in Seq(T)
  PROVE  /\ s \o t \in Seq(T) /\ Len(s) \in Nat /\ Len(t) \in Nat
         /\ Len(s \o t) = Len(s) + Len(t)
         /\ \A k \in 1..Len(s) : (s \o t)[k] = s[k]
         /\ \A k \in (Len(s) + 1)..Len(s \o t) : (s \o t)[k] = t[k - Len(s)] /\ k - Len(s) \in 1..Len(t)
OBVIOUS

\* Each of them is in one or the other.
LEMMA InEither ==
  ASSUME NEW T, NEW s \in Seq(T), NEW t \in Seq(T), NEW k \in 1..Len(s \o t)
  PROVE  \/ k \in 1..Len(s) /\ (s \o t)[k] = s[k]
         \/ k - Len(s) \in 1..Len(t) /\ (s \o t)[k] = t[k - Len(s)]
<1>1. /\ s \o t \in Seq(T) /\ Len(s) \in Nat /\ Len(t) \in Nat
      /\ Len(s \o t) = Len(s) + Len(t)
      /\ \A j \in 1..Len(s) : (s \o t)[j] = s[j]
      /\ \A j \in (Len(s) + 1)..Len(s \o t) : (s \o t)[j] = t[j - Len(s)] /\ j - Len(s) \in 1..Len(t)
  BY BothHold
<1>2. k \in 1..Len(s) \/ k \in (Len(s) + 1)..Len(s \o t)
  BY <1>1
<1> QED
  BY <1>1, <1>2

\* Where one covers up to where the next begins, they cover both.
LEMMA CoversBoth ==
  ASSUME NEW s \in Seq(Symbol), NEW t \in Seq(Symbol), NEW from, NEW mid, NEW to,
         Covers(s, from, mid), Covers(t, mid, to)
  PROVE  Covers(s \o t, from, to)
<1> DEFINE m == Len(s)
           n == Len(t)
           u == s \o t
<1>1. /\ m \in Nat /\ n \in Nat /\ Len(u) = m + n
      /\ \A k \in 1..m : u[k] = s[k]
      /\ \A k \in (m + 1)..(m + n) : u[k] = t[k - m]
  BY BothHold
<1>2. (s = <<>> <=> m = 0) /\ (t = <<>> <=> n = 0) /\ (u = <<>> <=> m + n = 0)
  OBVIOUS
<1>3. CASE m = 0
  <2>1. u = t
    BY <1>2, <1>3
  <2> QED
    BY <1>2, <1>3, <2>1 DEF Covers
<1>4. CASE n = 0
  <2>1. u = s
    BY <1>2, <1>4
  <2> QED
    BY <1>2, <1>4, <2>1 DEF Covers
<1>5. CASE m # 0 /\ n # 0
  <2> HIDE DEF m, n, u
  <2>1. /\ u # <<>> /\ s # <<>> /\ t # <<>>
        /\ 1 \in 1..m /\ m \in 1..m /\ m + 1 \in (m + 1)..(m + n) /\ m + n \in (m + 1)..(m + n)
        /\ (m + 1) - m = 1 /\ (m + n) - m = n /\ Len(u) = m + n
    BY <1>1, <1>2, <1>5
  <2>2. u[1] = s[1] /\ u[m] = s[m] /\ u[m + 1] = t[1] /\ u[m + n] = t[n]
    BY <1>1, <2>1
  <2>3. /\ s[1].addr = from /\ End(s[m]) = mid /\ t[1].addr = mid /\ End(t[n]) = to
        /\ \A i \in 1..(m - 1) : End(s[i]) = s[i + 1].addr
        /\ \A i \in 1..(n - 1) : End(t[i]) = t[i + 1].addr
    BY <2>1 DEF Covers, m, n
  <2>4. ASSUME NEW i \in 1..(m + n - 1) PROVE End(u[i]) = u[i + 1].addr
    <3>1. CASE i < m
      <4>1. i \in 1..(m - 1) /\ i \in 1..m /\ i + 1 \in 1..m
        BY <1>1, <3>1
      <4> QED
        BY <1>1, <2>3, <4>1
    <3>2. CASE i = m
      BY <2>2, <2>3, <3>2
    <3>3. CASE i > m
      <4>1. /\ i - m \in 1..(n - 1) /\ i \in (m + 1)..(m + n) /\ i + 1 \in (m + 1)..(m + n)
            /\ (i - m) + 1 = (i + 1) - m
        BY <1>1, <3>3
      <4>2. u[i] = t[i - m] /\ u[i + 1] = t[(i + 1) - m]
        BY <1>1, <4>1
      <4>3. End(t[i - m]) = t[(i - m) + 1].addr
        BY <2>3, <4>1
      <4> QED
        BY <4>1, <4>2, <4>3
    <3> QED
      BY <1>1, <3>1, <3>2, <3>3
  <2>5. Covers(u, from, to)
    BY <2>1, <2>2, <2>3, <2>4 DEF Covers
  <2> QED
    BY <2>5 DEF u
<1> QED
  BY <1>1, <1>3, <1>4, <1>5

\* One that begins where they end, at their end.
LEMMA CoversOne ==
  ASSUME NEW x \in Symbol
  PROVE  <<x>> \in Seq(Symbol) /\ Covers(<<x>>, x.addr, End(x))
BY DEF Covers

\* Flattening puts sequences after one another.
LEMMA FlattenSteps ==
  ASSUME NEW T, NEW ss \in Seq(Seq(T)), Len(ss) # 0
  PROVE  \E f \in [1..Len(ss) -> Seq(T)] :
           /\ f[1] = ss[1] /\ \A k \in 2..Len(ss) : f[k] = f[k - 1] \o ss[k]
           /\ FlattenSeq(ss) = f[Len(ss)]
<1> DEFINE n == Len(ss)
           D == Seq(T)
           b == <<>>
           step == [p \in (1..n) \X D |-> IF p[1] = 1 THEN ss[1] ELSE p[2] \o ss[p[1]]]
           Is(h) == h = [i \in 1..n |-> IF i = 1 THEN ss[i] ELSE h[i - 1] \o ss[i]]
           f == CHOOSE h : Is(h)
<1>1. n \in Nat /\ n # 0 /\ b \in D /\ \A k \in 1..n : ss[k] \in D
  OBVIOUS
<1>2. \A k \in 1..n, s \in D : s \o ss[k] \in D
  <2> TAKE k \in 1..n, s \in D
  <2>1. ss[k] \in Seq(T) /\ s \in Seq(T)
    BY <1>1
  <2> HIDE DEF n, D
  <2>2. s \o ss[k] \in Seq(T)
    BY <2>1
  <2> QED
    BY <2>2 DEF D
<1>3. FlattenSeq(ss) = f[n]
  BY <1>1 DEF FlattenSeq
<1>4. step \in [(1..n) \X D -> D] /\ \A k \in 1..n, s \in D : step[<<k, s>>] = IF k = 1 THEN ss[1] ELSE s \o ss[k]
  <2>1. 1 \in 1..n
    BY <1>1
  <2> HIDE DEF n, D
  <2>2. \A p \in (1..n) \X D : (IF p[1] = 1 THEN ss[1] ELSE p[2] \o ss[p[1]]) \in D
    BY <1>1, <1>2, <2>1
  <2> QED
    BY <2>2
<1> HIDE DEF n, D, b, step
<1>5. PICK g : Iterates(g, n, D, b, step)
  <2>1. step \in Steps(n, D)
    BY <1>4 DEF Steps
  <2> QED
    BY <1>1, <2>1, RecursionUpTo
<1>6. g \in [0..n -> D] /\ \A k \in 1..n : g[k] = step[<<k, g[k - 1]>>]
  BY <1>5 DEF Iterates
<1>7. \A k \in 1..n : k - 1 \in 0..n /\ k \in 0..n
  BY <1>1
<1> DEFINE h == [i \in 1..n |-> g[i]]
<1>8. \A k \in 1..n : g[k] \in D /\ g[k] = IF k = 1 THEN ss[1] ELSE g[k - 1] \o ss[k]
  BY <1>4, <1>6, <1>7
<1>9. h \in [1..n -> D]
  BY <1>8
<1>10. \A k \in 1..n : k # 1 => k - 1 \in 1..n /\ h[k - 1] = g[k - 1]
  BY <1>1
<1>11. Is(h)
  <2>1. \A k \in 1..n : g[k] = IF k = 1 THEN ss[k] ELSE h[k - 1] \o ss[k]
    <3> HIDE DEF h
    <3> QED
      BY <1>8, <1>10
  <2> QED
    BY <2>1
<1>12. Is(f)
  <2> HIDE DEF Is
  <2> QED
    BY <1>11
<1>13. \A k \in 1..n : f[k] = IF k = 1 THEN ss[k] ELSE f[k - 1] \o ss[k]
  <2> HIDE DEF f
  <2> QED
    BY <1>12
<1>14. f = [i \in 1..n |-> f[i]]
  <2> HIDE DEF f
  <2> QED
    BY <1>12
<1> HIDE DEF f, h, Is
<1> DEFINE S == {k \in 0..n : k = 0 \/ f[k] \in D}
<1>15. 0 \in S
  BY <1>1
<1>16. ASSUME NEW k \in 1..n, k - 1 \in S PROVE k \in S
  <2>1. f[k] = IF k = 1 THEN ss[k] ELSE f[k - 1] \o ss[k]
    BY <1>13
  <2>2. k # 1 => f[k - 1] \in D
    BY <1>16
  <2>3. f[k] \in D
    BY <1>1, <1>2, <2>1, <2>2
  <2> QED
    BY <1>7, <2>3
<1> HIDE DEF S
<1>17. \A k \in 0..n : k \in S
  BY <1>1, <1>15, <1>16, InductionUpTo
<1>18. \A k \in 1..n : f[k] \in D
  BY <1>7, <1>17 DEF S
<1>19. f \in [1..n -> D]
  BY <1>14, <1>18
<1>20. f[1] = ss[1] /\ \A k \in 2..n : f[k] = f[k - 1] \o ss[k]
  <2>1. 1 \in 1..n /\ \A k \in 2..n : k \in 1..n /\ k # 1
    BY <1>1
  <2> QED
    BY <1>13, <2>1
<1> QED
  BY <1>3, <1>19, <1>20 DEF n, D

\* What is in one is in a sequence that was flattened.
InOneOf(x, ss) == \E i \in DOMAIN ss : \E j \in DOMAIN ss[i] : x = ss[i][j]
LEMMA FlattenHolds ==
  ASSUME NEW T, NEW ss \in Seq(Seq(T))
  PROVE  FlattenSeq(ss) \in Seq(T) /\ \A p \in DOMAIN FlattenSeq(ss) : InOneOf(FlattenSeq(ss)[p], ss)
<1> DEFINE n == Len(ss)
<1>0. n \in Nat /\ DOMAIN ss = 1..n /\ \A k \in 1..n : ss[k] \in Seq(T) /\ DOMAIN ss[k] = 1..Len(ss[k])
  OBVIOUS
<1>1. CASE n = 0
  <2>1. FlattenSeq(ss) = ss /\ ss = <<>>
    BY <1>1 DEF FlattenSeq
  <2> QED
    BY <2>1
<1>2. CASE n # 0
  <2>1. PICK f \in [1..n -> Seq(T)] :
           /\ f[1] = ss[1] /\ \A k \in 2..n : f[k] = f[k - 1] \o ss[k]
           /\ FlattenSeq(ss) = f[n]
    BY <1>2, FlattenSteps
  <2> DEFINE All(s) == \A p \in DOMAIN s : InOneOf(s[p], ss)
             S == {k \in 0..n : k = 0 \/ All(f[k])}
  <2> HIDE DEF n
  <2>2. 0 \in S
    BY <1>0
  <2>3. ASSUME NEW k \in 1..n, k - 1 \in S PROVE k \in S
    <3>1. ASSUME NEW p \in DOMAIN ss[k] PROVE InOneOf(ss[k][p], ss)
      BY <1>0 DEF InOneOf
    <3>2. CASE k = 1
      BY <1>0, <2>1, <3>1, <3>2
    <3>3. CASE k # 1
      <4>1. k \in 2..n /\ k - 1 \in 1..n /\ k - 1 # 0
        BY <1>0, <3>3
      <4>2. f[k - 1] \in Seq(T) /\ ss[k] \in Seq(T) /\ f[k] = f[k - 1] \o ss[k]
        BY <1>0, <2>1, <4>1
      <4>0. All(f[k - 1])
        BY <2>3, <4>1
      <4>3. ASSUME NEW p \in DOMAIN f[k] PROVE InOneOf(f[k][p], ss)
        <5>1. p \in 1..Len(f[k - 1] \o ss[k])
          <6>1. f[k - 1] \o ss[k] \in Seq(T)
            BY <4>2
          <6>2. DOMAIN f[k] = 1..Len(f[k])
            BY <4>2, <6>1
          <6> QED
            BY <4>2, <4>3, <6>2
        <5>2. \/ p \in 1..Len(f[k - 1]) /\ f[k][p] = f[k - 1][p]
              \/ p - Len(f[k - 1]) \in 1..Len(ss[k]) /\ f[k][p] = ss[k][p - Len(f[k - 1])]
          BY <4>2, <5>1, InEither
        <5>3. DOMAIN f[k - 1] = 1..Len(f[k - 1]) /\ DOMAIN ss[k] = 1..Len(ss[k])
          BY <4>2
        <5> QED
          BY <3>1, <4>0, <5>2, <5>3
      <4> QED
        BY <4>3
    <3> QED
      BY <3>2, <3>3
  <2> HIDE DEF S
  <2>4. \A k \in 0..n : k \in S
    BY <1>0, <2>2, <2>3, InductionUpTo
  <2>5. n \in 0..n /\ n \in 1..n
    BY <1>0, <1>2
  <2>6. All(f[n]) /\ f[n] \in Seq(T)
    BY <1>2, <2>1, <2>4, <2>5 DEF S
  <2> QED
    BY <2>1, <2>6
<1> QED
  BY <1>1, <1>2

\* Where each covers up to the next, they cover all of it.
LEMMA FlattenCovers ==
  ASSUME NEW ss \in Seq(Seq(Symbol)), NEW at,
         \A k \in 1..Len(ss) : Covers(ss[k], at[k], at[k + 1])
  PROVE  Covers(FlattenSeq(ss), at[1], at[Len(ss) + 1])
<1> DEFINE n == Len(ss)
<1>0. n \in Nat /\ \A k \in 1..n : ss[k] \in Seq(Symbol)
  OBVIOUS
<1>1. CASE n = 0
  <2>1. FlattenSeq(ss) = ss /\ ss = <<>>
    BY <1>1 DEF FlattenSeq
  <2> QED
    BY <1>1, <2>1 DEF Covers
<1>2. CASE n # 0
  <2>1. PICK f \in [1..n -> Seq(Symbol)] :
           /\ f[1] = ss[1] /\ \A k \in 2..n : f[k] = f[k - 1] \o ss[k]
           /\ FlattenSeq(ss) = f[n]
    BY <1>2, FlattenSteps
  <2> DEFINE S == {k \in 0..n : k = 0 \/ Covers(f[k], at[1], at[k + 1])}
  <2>0. \A k \in 1..n : Covers(ss[k], at[k], at[k + 1])
    OBVIOUS
  <2> HIDE DEF n
  <2>2. 0 \in S
    BY <1>0
  <2>3. ASSUME NEW k \in 1..n, k - 1 \in S PROVE k \in S
    <3>2. CASE k = 1
      BY <1>0, <2>0, <2>1, <3>2
    <3>3. CASE k # 1
      <4>1. k \in 2..n /\ k - 1 \in 1..n /\ k - 1 # 0 /\ (k - 1) + 1 = k
        BY <1>0, <3>3
      <4>2. f[k - 1] \in Seq(Symbol) /\ ss[k] \in Seq(Symbol) /\ f[k] = f[k - 1] \o ss[k]
        BY <1>0, <2>1, <4>1
      <4>3. Covers(f[k - 1], at[1], at[k]) /\ Covers(ss[k], at[k], at[k + 1])
        BY <2>0, <2>3, <4>1
      <4>4. Covers(f[k], at[1], at[k + 1])
        BY <4>2, <4>3, CoversBoth
      <4> QED
        BY <4>4
    <3> QED
      BY <3>2, <3>3
  <2> HIDE DEF S
  <2>4. \A k \in 0..n : k \in S
    BY <1>0, <2>2, <2>3, InductionUpTo
  <2>5. n \in 0..n
    BY <1>0
  <2>6. Covers(f[n], at[1], at[n + 1])
    BY <1>2, <2>4, <2>5 DEF S
  <2> QED
    BY <2>1, <2>6 DEF n
<1> QED
  BY <1>1, <1>2

\* One address after another: later symbols begin no sooner than earlier ones end.
LEMMA CoversInOrder ==
  ASSUME NEW s \in Seq(Symbol), NEW from, NEW to, Covers(s, from, to)
  PROVE  \A i, j \in 1..Len(s) : i < j => End(s[i]) <= s[j].addr
<1> DEFINE n == Len(s)
<1>0. n \in Nat /\ \A i \in 1..n : s[i].addr \in Nat /\ End(s[i]) \in Nat /\ s[i].addr <= End(s[i])
  <2>1. n \in Nat /\ \A i \in 1..n : s[i] \in Symbol
    OBVIOUS
  <2>2. \A i \in 1..n : s[i].addr \in Nat /\ s[i].size \in Nat /\ End(s[i]) = s[i].addr + s[i].size
    BY <2>1, SymbolTyped
  <2> QED
    BY <2>1, <2>2
<1>1. \A i \in 1..(n - 1) : End(s[i]) = s[i + 1].addr
  BY DEF Covers
<1> HIDE DEF n
<1>2. SUFFICES ASSUME NEW i \in 1..n PROVE \A j \in 1..n : i < j => End(s[i]) <= s[j].addr
  BY DEF n
<1> DEFINE S == {j \in 0..n : i < j => End(s[i]) <= s[j].addr}
<1>3. 0 \in S
  BY <1>0
<1>4. ASSUME NEW j \in 1..n, j - 1 \in S PROVE j \in S
  <2>1. CASE i < j - 1
    <3>1. j - 1 \in 1..(n - 1) /\ j - 1 \in 1..n /\ (j - 1) + 1 = j
      BY <1>0, <2>1
    <3>2. End(s[i]) <= s[j - 1].addr
      BY <1>4, <2>1
    <3>3. End(s[j - 1]) = s[j].addr
      BY <1>1, <3>1
    <3>4. s[j - 1].addr <= End(s[j - 1])
      BY <1>0, <3>1
    <3>5. End(s[i]) \in Nat /\ s[j - 1].addr \in Nat /\ End(s[j - 1]) \in Nat
      BY <1>0, <3>1
    <3>6. End(s[i]) <= s[j].addr
      BY <3>2, <3>3, <3>4, <3>5
    <3> QED
      BY <3>6
  <2>2. CASE i = j - 1
    <3>1. i \in 1..(n - 1) /\ i + 1 = j
      BY <1>0, <2>2
    <3>2. End(s[i]) = s[j].addr /\ End(s[i]) \in Nat
      BY <1>0, <1>1, <3>1
    <3> QED
      BY <3>2
  <2>3. CASE ~(i < j)
    BY <2>3
  <2> QED
    BY <1>0, <2>1, <2>2, <2>3
<1> HIDE DEF S
<1>5. \A j \in 0..n : j \in S
  BY <1>0, <1>3, <1>4, InductionUpTo
<1>6. \A j \in 1..n : j \in 0..n
  BY <1>0
<1> QED
  BY <1>5, <1>6 DEF S

\* Every address from where they begin to where they end is in one of them.
LEMMA CoversAll ==
  ASSUME NEW s \in Seq(Symbol), NEW from \in Nat, NEW to \in Nat, Covers(s, from, to),
         NEW b \in from..(to - 1)
  PROVE  \E i \in 1..Len(s) : s[i].addr <= b /\ b < End(s[i])
<1> DEFINE n == Len(s)
           T == {i \in 1..n : s[i].addr <= b}
<1>0. n \in Nat /\ \A i \in 1..n : s[i].addr \in Nat /\ End(s[i]) \in Nat
  <2>1. n \in Nat /\ \A i \in 1..n : s[i] \in Symbol
    OBVIOUS
  <2> QED
    BY <2>1, SymbolTyped
<1>1. /\ s = <<>> => from = to
      /\ s # <<>> => s[1].addr = from /\ End(s[n]) = to
      /\ \A i \in 1..(n - 1) : End(s[i]) = s[i + 1].addr
  BY DEF Covers
<1>2. s # <<>> /\ n # 0
  BY <1>1
<1> HIDE DEF n
<1>3. 1 \in 1..n /\ n \in 1..n
  BY <1>0, <1>2
<1>4. 1 \in T
  BY <1>1, <1>2, <1>3
<1>5. T \in SUBSET (0..n) /\ T # {}
  BY <1>0, <1>4
<1>6. PICK i \in T : \A j \in T : j <= i
  BY <1>0, <1>5, LastOfNumbers
<1>7. i \in 1..n /\ s[i].addr <= b
  BY <1>6
<1>8. CASE i = n
  <2>1. End(s[i]) = to
    BY <1>1, <1>2, <1>8
  <2> QED
    BY <1>7, <2>1 DEF n
<1>9. CASE i # n
  <2>1. i \in 1..(n - 1) /\ i + 1 \in 1..n /\ ~(i + 1 <= i)
    BY <1>0, <1>7, <1>9
  <2>2. ~(s[i + 1].addr <= b)
    BY <1>6, <2>1
  <2>3. End(s[i]) = s[i + 1].addr /\ End(s[i]) \in Nat /\ s[i + 1].addr \in Nat
    BY <1>0, <1>1, <1>7, <2>1
  <2>4. b < End(s[i])
    BY <2>2, <2>3
  <2> QED
    BY <1>7, <2>4 DEF n
<1> QED
  BY <1>8, <1>9

-----------------------------------------------------------------------------
(* Where the mapping rows are.                                             *)

\* What a target is cut from stays as it was.
InputsOK == Input(csv, marks, decompiled, base)

\* Rows have an address, a size, and an end.
LEMMA RowTyped ==
  ASSUME NEW r \in Row
  PROVE  /\ r.addr \in Nat /\ r.size \in Nat /\ End(r) \in Nat /\ End(r) = r.addr + r.size
         /\ r.name \in Name \cup {None} /\ r.segment \in {".text", ".bss"} \cup DataSegments
         /\ r.mode \in Mode /\ r.std \in BOOLEAN
BY DEF Row, End

\* The CSV and its mapping rows.
LEMMA InputsTyped ==
  ASSUME TargetCutAssumption, InputsOK
  PROVE  /\ Size \in Nat
         /\ csv \in Seq(Row) /\ marks \in Seq(Mark)
         /\ Len(csv) \in Nat /\ DOMAIN csv = 1..Len(csv) /\ \A i \in DOMAIN csv : csv[i] \in Row
         /\ Len(marks) \in Nat /\ DOMAIN marks = 1..Len(marks)
         /\ \A i \in DOMAIN csv : /\ csv[i].name \in Name /\ csv[i].addr \in Nat /\ csv[i].size \in Nat
                                  /\ End(csv[i]) \in Nat /\ End(csv[i]) = csv[i].addr + csv[i].size
                                  /\ csv[i].name \in Nat /\ csv[i].name # None
         /\ \A i, j \in DOMAIN csv : csv[i].name = csv[j].name => i = j
         /\ \A k \in DOMAIN marks : /\ marks[k].addr \in Nat /\ marks[k].addr < Size
                                    /\ marks[k].mode \in Mode /\ marks[k].size \in Nat
                                    /\ marks[k].segment \in {".text"} \cup DataSegments
         /\ \A k, l \in DOMAIN marks : l < k => marks[l].addr < marks[k].addr
<1>1. csv \in Seq(Row) /\ marks \in Seq(Mark) /\ Size \in Nat
  BY DEF TargetCutAssumption, InputsOK, Input
<1>2. Len(csv) \in Nat /\ DOMAIN csv = 1..Len(csv) /\ \A i \in DOMAIN csv : csv[i] \in Row
  BY <1>1
<1>3. Len(marks) \in Nat /\ DOMAIN marks = 1..Len(marks) /\ \A k \in DOMAIN marks : marks[k] \in Mark
  BY <1>1
<1>4. \A k \in DOMAIN marks : /\ marks[k].addr \in Nat /\ marks[k].mode \in Mode /\ marks[k].size \in Nat
                              /\ marks[k].segment \in {".text"} \cup DataSegments
  BY <1>3 DEF Mark
<1>5. /\ \A i \in DOMAIN csv : csv[i].name \in Name /\ \A j \in DOMAIN csv : csv[j].name = csv[i].name => j = i
      /\ \A k \in DOMAIN marks : marks[k].addr < Size /\ \A l \in 1..(k - 1) : marks[l].addr < marks[k].addr
  BY DEF InputsOK, Input
<1>6. \A k, l \in DOMAIN marks : l < k => marks[l].addr < marks[k].addr
  <2>1. \A k, l \in DOMAIN marks : l < k => l \in 1..(k - 1)
    BY <1>3
  <2> QED
    BY <1>5, <2>1
<1>7. \A i \in DOMAIN csv : /\ csv[i].addr \in Nat /\ csv[i].size \in Nat
                            /\ End(csv[i]) \in Nat /\ End(csv[i]) = csv[i].addr + csv[i].size
  BY <1>2, RowTyped
<1>8. \A i \in DOMAIN csv : csv[i].name \in Nat /\ csv[i].name # None
  BY <1>5 DEF TargetCutAssumption
<1> QED
  BY <1>1, <1>2, <1>3, <1>4, <1>5, <1>6, <1>7, <1>8

\* Of the functions that begin by an address there is a last.
LEMMA LastStartedIs ==
  ASSUME TargetCutAssumption, InputsOK, NEW a, StartedBy(a) # {}
  PROVE  /\ LastStarted(a) \in StartedBy(a)
         /\ \A j \in StartedBy(a) \ {LastStarted(a)} : Before(j, LastStarted(a))
<1> DEFINE T == StartedBy(a)
           n == Len(csv)
           R == {p \in (1..n) \X (1..n) : Before(p[1], p[2])}
<1>1. /\ n \in Nat /\ DOMAIN csv = 1..n /\ \A i \in 1..n : csv[i].addr \in Nat /\ End(csv[i]) \in Nat
      /\ \A i \in 1..n : csv[i].name \in Nat
      /\ \A i, j \in 1..n : csv[i].name = csv[j].name => i = j
  BY InputsTyped
<1>2. T \in SUBSET (1..n) /\ T # {}
  BY <1>1 DEF StartedBy, Extents
<1>3. \A i, j \in 1..n : i # j => Before(i, j) \/ Before(j, i)
  <2> TAKE i, j \in 1..n
  <2>1. i # j => csv[i].name # csv[j].name
    BY <1>1
  <2>2. /\ csv[i].addr \in Nat /\ csv[j].addr \in Nat /\ End(csv[i]) \in Nat /\ End(csv[j]) \in Nat
        /\ csv[i].name \in Nat /\ csv[j].name \in Nat
    BY <1>1
  <2> QED
    BY <2>1, <2>2 DEF Before
<1>4. \A i, j, k \in 1..n : Before(i, j) /\ Before(j, k) => Before(i, k)
  <2> TAKE i, j, k \in 1..n
  <2>1. /\ csv[i].addr \in Nat /\ csv[j].addr \in Nat /\ csv[k].addr \in Nat
        /\ End(csv[i]) \in Nat /\ End(csv[j]) \in Nat /\ End(csv[k]) \in Nat
        /\ csv[i].name \in Nat /\ csv[j].name \in Nat /\ csv[k].name \in Nat
    BY <1>1
  <2> QED
    BY <2>1 DEF Before
<1>5. \A i, j \in 1..n : <<i, j>> \in R <=> Before(i, j)
  OBVIOUS
<1> HIDE DEF R
<1>6. Compares(R, T)
  <2> HIDE DEF T, n
  <2>1. \A i, j \in T : i # j => <<i, j>> \in R \/ <<j, i>> \in R
    BY <1>2, <1>3, <1>5
  <2>2. \A i, j, k \in T : <<i, j>> \in R /\ <<j, k>> \in R => <<i, k>> \in R
    BY <1>2, <1>4, <1>5
  <2> QED
    BY <2>1, <2>2 DEF Compares
<1> HIDE DEF n
<1>7. \E i \in T : \A j \in T \ {i} : <<j, i>> \in R
  BY <1>1, <1>2, <1>6, LastInOrder
<1>8. \E i \in T : \A j \in T \ {i} : Before(j, i)
  BY <1>2, <1>5, <1>7
<1> QED
  BY <1>8 DEF LastStarted

\* The row a mapping row is inside of is one of the CSV's functions around it.
LEMMA InsideIs ==
  ASSUME TargetCutAssumption, InputsOK, NEW k \in DOMAIN marks, Inside(k)
  PROVE  \E i \in Extents : /\ RowOf(k) = csv[i] /\ i = LastStarted(marks[k].addr)
                            /\ csv[i].addr <= marks[k].addr /\ marks[k].addr < End(csv[i])
<1> DEFINE i == LastStarted(marks[k].addr)
<1>1. i \in StartedBy(marks[k].addr)
  BY LastStartedIs DEF Inside
<1>2. i \in Extents /\ csv[i].addr <= marks[k].addr
  BY <1>1 DEF StartedBy
<1> QED
  BY <1>2 DEF Inside, RowOf

\* One is good for something, up to what ends it and no further.
LEMMA LimitIs ==
  ASSUME TargetCutAssumption, InputsOK, NEW k \in DOMAIN marks
  PROVE  /\ Limit(k) \in Nat /\ marks[k].addr < Limit(k) /\ Limit(k) <= Size
         /\ k < Len(marks) => Limit(k) <= marks[k + 1].addr
         /\ Inside(k) => Limit(k) <= End(RowOf(k))
         /\ ~Inside(k) => \A i \in DOMAIN csv : csv[i].addr > marks[k].addr => Limit(k) <= csv[i].addr
<1> DEFINE a == marks[k].addr
           nextMark == IF k < Len(marks) THEN marks[k + 1].addr ELSE Size
           later == {csv[i].addr : i \in {i \in DOMAIN csv : csv[i].addr > marks[k].addr}}
           m == Min(later \cup {Size})
<1>1. a \in Nat /\ a < Size /\ Size \in Nat
  BY InputsTyped
<1>2. nextMark \in Nat /\ a < nextMark /\ nextMark <= Size
  <2>1. CASE k < Len(marks)
    <3>1. k + 1 \in DOMAIN marks /\ k < k + 1
      BY <2>1, InputsTyped
    <3>2. marks[k + 1].addr \in Nat /\ marks[k + 1].addr < Size /\ marks[k].addr < marks[k + 1].addr
      BY <3>1, InputsTyped
    <3> QED
      BY <1>1, <2>1, <3>2
  <2>2. CASE ~(k < Len(marks))
    BY <1>1, <2>2
  <2> QED
    BY <2>1, <2>2
<1>3. \A v \in later \cup {Size} : v \in Nat /\ a < v
  <2>1. \A i \in DOMAIN csv : csv[i].addr \in Nat
    BY InputsTyped
  <2> QED
    BY <1>1, <2>1
<1>4. m \in later \cup {Size} /\ \A v \in later \cup {Size} : m <= v
  <2>1. later \cup {Size} \in SUBSET Nat /\ later \cup {Size} # {}
    BY <1>3
  <2> HIDE DEF later
  <2> QED
    BY <2>1, LeastIs
<1>5. Limit(k) = IF Inside(k) THEN Least(nextMark, End(RowOf(k))) ELSE Least(nextMark, m)
  BY DEF Limit
<1>6. m \in Nat /\ a < m /\ \A i \in DOMAIN csv : csv[i].addr > a => m <= csv[i].addr
  <2>1. \A i \in DOMAIN csv : csv[i].addr > a => csv[i].addr \in later
    OBVIOUS
  <2> HIDE DEF later, m
  <2> QED
    BY <1>3, <1>4, <2>1
<1>7. k < Len(marks) => nextMark = marks[k + 1].addr
  OBVIOUS
<1>8. Inside(k) => End(RowOf(k)) \in Nat /\ a < End(RowOf(k))
  <2> SUFFICES ASSUME Inside(k) PROVE End(RowOf(k)) \in Nat /\ a < End(RowOf(k))
    OBVIOUS
  <2>1. PICK i \in Extents : RowOf(k) = csv[i] /\ marks[k].addr < End(csv[i])
    BY InsideIs
  <2>2. End(csv[i]) \in Nat
    BY InputsTyped DEF Extents
  <2> QED
    BY <2>1, <2>2
<1>9. \A i \in DOMAIN csv : csv[i].addr \in Nat
  BY InputsTyped
<1> HIDE DEF nextMark, later, m
<1>10. CASE Inside(k)
  BY <1>1, <1>2, <1>5, <1>7, <1>8, <1>10 DEF Least
<1>11. CASE ~Inside(k)
  <2>1. Limit(k) \in Nat /\ a < Limit(k) /\ Limit(k) <= nextMark /\ Limit(k) <= m
    BY <1>2, <1>5, <1>6, <1>11 DEF Least
  <2>2. \A i \in DOMAIN csv : csv[i].addr > a => Limit(k) <= csv[i].addr
    BY <1>6, <1>9, <2>1
  <2> QED
    BY <1>1, <1>2, <1>7, <1>11, <2>1, <2>2
<1> QED
  BY <1>10, <1>11

\* So the next begins no sooner.
LEMMA LimitsInOrder ==
  ASSUME TargetCutAssumption, InputsOK, NEW k \in DOMAIN marks, NEW l \in DOMAIN marks, k < l
  PROVE  Limit(k) <= marks[l].addr
<1>1. k + 1 \in DOMAIN marks /\ k < Len(marks) /\ (k + 1 = l \/ k + 1 < l)
  BY InputsTyped
<1>2. Limit(k) \in Nat /\ Limit(k) <= marks[k + 1].addr
  BY <1>1, LimitIs
<1>3. marks[k + 1].addr \in Nat /\ marks[l].addr \in Nat /\ (k + 1 < l => marks[k + 1].addr < marks[l].addr)
  BY <1>1, InputsTyped
<1> QED
  BY <1>1, <1>2, <1>3

\* It ends in between.
LEMMA EndOfIs ==
  ASSUME TargetCutAssumption, InputsOK, NEW k \in DOMAIN marks
  PROVE  EndOf(k) \in Nat /\ marks[k].addr < EndOf(k) /\ EndOf(k) <= Limit(k)
<1>1. Limit(k) \in Nat /\ marks[k].addr < Limit(k)
  BY LimitIs
<1>2. marks[k].addr \in Nat /\ marks[k].size \in Nat
  BY InputsTyped
<1> QED
  BY <1>1, <1>2 DEF EndOf

\* What is resumed after it is a mode.
LEMMA ResumedIs ==
  ASSUME TargetCutAssumption, InputsOK, NEW k \in DOMAIN marks, Inside(k)
  PROVE  Resumed(k) \in Mode
<1> DEFINE code == {j \in 1..(k - 1) : Inside(j) /\ RowOf(j) = RowOf(k) /\ marks[j].mode # "$d"}
<1>1. PICK i \in Extents : RowOf(k) = csv[i]
  BY InsideIs
<1>2. RowOf(k).mode \in Mode
  <2>1. csv[i] \in Row
    BY InputsTyped DEF Extents
  <2> QED
    BY <1>1, <2>1, RowTyped
<1>3. CASE code # {}
  <2>1. k \in Nat /\ code \in SUBSET (0..k) /\ \A j \in code : j \in DOMAIN marks
    BY InputsTyped
  <2> HIDE DEF code
  <2>2. Max(code) \in code
    BY <1>3, <2>1, GreatestIs
  <2>3. marks[Max(code)].mode \in Mode
    BY <2>1, <2>2, InputsTyped
  <2> QED
    BY <1>3, <2>3 DEF Resumed, code
<1> QED
  BY <1>2, <1>3 DEF Resumed

\* What the k-th mapping row makes of its function.
MadeBy(r, k) == \/ r = <<marks[k].addr, EndOf(k), marks[k].mode>>
                \/ EndOf(k) < Limit(k) /\ r = <<EndOf(k), Limit(k), Resumed(k)>>
LEMMA InnerMadeBy ==
  ASSUME NEW n, NEW r \in Inner(n)
  PROVE  \E k \in DOMAIN marks : Inside(k) /\ RowOf(k).name = n /\ MadeBy(r, k)
<1> DEFINE ks == {k \in DOMAIN marks : Inside(k) /\ RowOf(k).name = n}
           A == {<<marks[k].addr, EndOf(k), marks[k].mode>> : k \in ks}
           B == {<<EndOf(k), Limit(k), Resumed(k)>> : k \in {j \in ks : EndOf(j) < Limit(j)}}
<1>1. r \in A \cup B
  BY DEF Inner
<1>2. CASE r \in A
  BY <1>2 DEF MadeBy
<1>3. CASE r \in B
  BY <1>3 DEF MadeBy
<1> QED
  BY <1>1, <1>2, <1>3

\* A run goes from an address to a later one, in its function and in what the mapping
\* row is good for.
LEMMA MadeByIs ==
  ASSUME TargetCutAssumption, InputsOK, NEW k \in DOMAIN marks, Inside(k), NEW r, MadeBy(r, k)
  PROVE  /\ r = <<r[1], r[2], r[3]>> /\ r[1] \in Nat /\ r[2] \in Nat /\ r[3] \in Mode
         /\ r[1] < r[2] /\ marks[k].addr <= r[1] /\ r[2] <= Limit(k)
<1>1. EndOf(k) \in Nat /\ marks[k].addr < EndOf(k) /\ EndOf(k) <= Limit(k) /\ Limit(k) \in Nat
  BY EndOfIs, LimitIs
<1>2. marks[k].addr \in Nat /\ marks[k].mode \in Mode /\ Resumed(k) \in Mode
  BY InputsTyped, ResumedIs
<1>3. CASE r = <<marks[k].addr, EndOf(k), marks[k].mode>>
  BY <1>1, <1>2, <1>3
<1>4. CASE EndOf(k) < Limit(k) /\ r = <<EndOf(k), Limit(k), Resumed(k)>>
  BY <1>1, <1>2, <1>4
<1> QED
  BY <1>3, <1>4 DEF MadeBy

\* Of two runs in a function one ends before the other begins.
LEMMA InnerApart ==
  ASSUME TargetCutAssumption, InputsOK, NEW n, NEW r \in Inner(n), NEW q \in Inner(n), r # q
  PROVE  r[2] <= q[1] \/ q[2] <= r[1]
<1>1. PICK k \in DOMAIN marks : Inside(k) /\ MadeBy(r, k)
  BY InnerMadeBy
<1>2. PICK l \in DOMAIN marks : Inside(l) /\ MadeBy(q, l)
  BY InnerMadeBy
<1>3. /\ r[1] \in Nat /\ r[2] \in Nat /\ r[1] < r[2] /\ marks[k].addr <= r[1] /\ r[2] <= Limit(k)
  BY <1>1, MadeByIs
<1>4. /\ q[1] \in Nat /\ q[2] \in Nat /\ q[1] < q[2] /\ marks[l].addr <= q[1] /\ q[2] <= Limit(l)
  BY <1>2, MadeByIs
<1>5. k \in Nat /\ l \in Nat /\ marks[k].addr \in Nat /\ marks[l].addr \in Nat
  BY InputsTyped
<1>6. Limit(k) \in Nat /\ Limit(l) \in Nat
  BY LimitIs
<1>7. CASE k < l
  <2>1. Limit(k) <= marks[l].addr
    BY <1>7, LimitsInOrder
  <2> QED
    BY <1>3, <1>4, <1>5, <1>6, <2>1
<1>8. CASE l < k
  <2>1. Limit(l) <= marks[k].addr
    BY <1>8, LimitsInOrder
  <2> QED
    BY <1>3, <1>4, <1>5, <1>6, <2>1
<1>9. CASE k = l
  <2>1. /\ r = <<marks[k].addr, EndOf(k), marks[k].mode>> \/ r = <<EndOf(k), Limit(k), Resumed(k)>>
        /\ q = <<marks[k].addr, EndOf(k), marks[k].mode>> \/ q = <<EndOf(k), Limit(k), Resumed(k)>>
    BY <1>1, <1>2, <1>9 DEF MadeBy
  <2>2. EndOf(k) \in Nat
    BY EndOfIs
  <2>3. \/ r[2] = EndOf(k) /\ q[1] = EndOf(k)
        \/ q[2] = EndOf(k) /\ r[1] = EndOf(k)
    BY <2>1
  <2> QED
    BY <2>2, <2>3
<1> QED
  BY <1>5, <1>7, <1>8, <1>9

\* They are in the function.
LEMMA InnerIs ==
  ASSUME TargetCutAssumption, InputsOK, NEW n, NEW r \in Inner(n)
  PROVE  /\ r = <<r[1], r[2], r[3]>> /\ r[1] \in Nat /\ r[2] \in Nat /\ r[3] \in Mode
         /\ r[1] < r[2] /\ r[2] <= Size
         /\ \E i \in Extents : csv[i].name = n /\ csv[i].addr <= r[1] /\ r[2] <= End(csv[i])
<1>1. PICK k \in DOMAIN marks : Inside(k) /\ RowOf(k).name = n /\ MadeBy(r, k)
  BY InnerMadeBy
<1>2. PICK i \in Extents : RowOf(k) = csv[i] /\ csv[i].addr <= marks[k].addr
  BY <1>1, InsideIs
<1>3. /\ r = <<r[1], r[2], r[3]>> /\ r[1] \in Nat /\ r[2] \in Nat /\ r[3] \in Mode
      /\ r[1] < r[2] /\ marks[k].addr <= r[1] /\ r[2] <= Limit(k)
  BY <1>1, MadeByIs
<1>4. Limit(k) \in Nat /\ Limit(k) <= Size /\ Limit(k) <= End(csv[i])
  BY <1>1, <1>2, LimitIs
<1>5. csv[i].addr \in Nat /\ marks[k].addr \in Nat /\ End(csv[i]) \in Nat /\ Size \in Nat
  BY InputsTyped DEF Extents
<1>6. csv[i].addr <= r[1] /\ r[2] <= End(csv[i]) /\ r[2] <= Size
  BY <1>2, <1>3, <1>4, <1>5
<1> QED
  BY <1>1, <1>2, <1>3, <1>6

\* There are finitely many.
LEMMA InnerFinite ==
  ASSUME TargetCutAssumption, InputsOK, NEW n
  PROVE  IsFiniteSet({r[1] : r \in Inner(n)}) /\ {r[1] : r \in Inner(n)} \in SUBSET Int
<1> DEFINE S == {r[1] : r \in Inner(n)}
<1>1. Size \in Nat
  BY InputsTyped
<1>2. \A r \in Inner(n) : r[1] \in 0..Size
  <2> TAKE r \in Inner(n)
  <2>1. r[1] \in Nat /\ r[2] \in Nat /\ r[1] < r[2] /\ r[2] <= Size
    BY InnerIs
  <2> QED
    BY <1>1, <2>1
<1>3. S \in SUBSET (0..Size)
  BY <1>2
<1>4. IsFiniteSet(0..Size)
  BY <1>1, FS_Interval
<1>5. IsFiniteSet(S)
  BY <1>3, <1>4, FS_Subset
<1> QED
  BY <1>3, <1>5

\* A label is as long as its mapping row, begins in no function, and ends by the next row.
LEMMA LabelIs ==
  ASSUME TargetCutAssumption, InputsOK
  PROVE  /\ Labels \in Seq(Row)
         /\ \A i \in DOMAIN Labels : \E k \in DOMAIN marks :
              /\ ~Inside(k) /\ Labels[i].addr = marks[k].addr /\ Labels[i].size = EndOf(k) - marks[k].addr
              /\ Labels[i].name = None /\ Labels[i].mode = "$d" /\ Labels[i].segment = marks[k].segment
         /\ \A k \in DOMAIN marks : ~Inside(k) /\ marks[k].mode = "$d" =>
              \E i \in DOMAIN Labels :
                /\ Labels[i].addr = marks[k].addr /\ Labels[i].size = EndOf(k) - marks[k].addr
                /\ Labels[i].mode = "$d" /\ Labels[i].segment = marks[k].segment
<1> DEFINE outside == {k \in DOMAIN marks : ~Inside(k) /\ marks[k].mode = "$d"}
           n == Cardinality(outside)
           Label(k) == [name |-> None, addr |-> marks[k].addr, size |-> EndOf(k) - marks[k].addr,
                        segment |-> marks[k].segment, mode |-> "$d", std |-> FALSE]
<1>1. outside \in SUBSET Int /\ IsFiniteSet(outside)
  <2>1. IsFiniteSet(DOMAIN marks) /\ DOMAIN marks \in SUBSET Int
    BY InputsTyped, FS_Interval
  <2> QED
    BY <2>1, FS_Subset
<1>2. /\ n \in Nat /\ \A i \in 1..n : Nth(outside, i) \in outside
      /\ \A k \in outside : \E i \in 1..n : Nth(outside, i) = k
  <2> HIDE DEF outside
  <2> QED
    BY <1>1, NthOfNumbers
<1>3. Labels = [i \in 1..n |-> Label(Nth(outside, i))]
  BY DEF Labels
<1>4. \A k \in DOMAIN marks : k \in outside <=> ~Inside(k) /\ marks[k].mode = "$d"
  OBVIOUS
<1>5. \A k \in outside : k \in DOMAIN marks
  OBVIOUS
<1>6. \A k \in DOMAIN marks : Label(k) \in Row
  <2> TAKE k \in DOMAIN marks
  <2>1. EndOf(k) \in Nat /\ marks[k].addr < EndOf(k) /\ marks[k].addr \in Nat
    BY EndOfIs, InputsTyped
  <2>2. EndOf(k) - marks[k].addr \in Nat
    BY <2>1
  <2>3. marks[k].segment \in {".text"} \cup DataSegments
    BY InputsTyped
  <2> QED
    BY <2>1, <2>2, <2>3 DEF Row, Mode
<1> HIDE DEF outside, n
<1>7. \A i \in 1..n : Labels[i] = Label(Nth(outside, i))
  BY <1>3
<1>8. DOMAIN Labels = 1..n
  BY <1>3
<1>9. Labels \in Seq(Row)
  <2> HIDE DEF Label
  <2>1. \A i \in 1..n : Label(Nth(outside, i)) \in Row
    BY <1>2, <1>6, <1>5
  <2> QED
    BY <1>2, <1>3, <2>1
<1>10. ASSUME NEW i \in DOMAIN Labels
       PROVE  \E k \in DOMAIN marks :
              /\ ~Inside(k) /\ Labels[i].addr = marks[k].addr /\ Labels[i].size = EndOf(k) - marks[k].addr
              /\ Labels[i].name = None /\ Labels[i].mode = "$d" /\ Labels[i].segment = marks[k].segment
  <2>1. Nth(outside, i) \in DOMAIN marks /\ ~Inside(Nth(outside, i))
    BY <1>2, <1>4, <1>8, <1>5
  <2> QED
    BY <1>7, <1>8, <2>1
<1>11. ASSUME NEW k \in DOMAIN marks, ~Inside(k), marks[k].mode = "$d"
       PROVE  \E i \in DOMAIN Labels :
                /\ Labels[i].addr = marks[k].addr /\ Labels[i].size = EndOf(k) - marks[k].addr
                /\ Labels[i].mode = "$d" /\ Labels[i].segment = marks[k].segment
  <2>1. PICK i \in 1..n : Nth(outside, i) = k
    BY <1>2, <1>4, <1>11
  <2> QED
    BY <1>7, <1>8, <2>1
<1> QED
  BY <1>9, <1>10, <1>11

-----------------------------------------------------------------------------
(* The rows, and where they are routed.                                    *)

\* The rows a target is laid out from, once the mapping rows are placed.
Placed == InputsOK /\ rows = csv \o Labels

\* They are the CSV's, and then the labels.
LEMMA RowsTyped ==
  ASSUME TargetCutAssumption, Placed
  PROVE  /\ rows \in Seq(Row) /\ Len(rows) \in Nat /\ DOMAIN rows = 1..Len(rows)
         /\ \A i \in DOMAIN csv : i \in DOMAIN rows /\ rows[i] = csv[i]
         /\ \A i \in DOMAIN rows : rows[i].addr \in Nat /\ rows[i].size \in Nat /\ rows[i] \in Row
<1>1. csv \in Seq(Row) /\ Labels \in Seq(Row)
  BY InputsTyped, LabelIs DEF Placed
<1>2. /\ csv \o Labels \in Seq(Row) /\ Len(csv) \in Nat /\ Len(Labels) \in Nat
      /\ Len(csv \o Labels) = Len(csv) + Len(Labels)
      /\ \A k \in 1..Len(csv) : (csv \o Labels)[k] = csv[k]
  BY <1>1, BothHold
<1>3. DOMAIN csv = 1..Len(csv)
  BY <1>1
<1>4. rows \in Seq(Row) /\ Len(rows) = Len(csv) + Len(Labels)
  BY <1>2 DEF Placed
<1>5. Len(rows) \in Nat /\ DOMAIN rows = 1..Len(rows) /\ \A i \in DOMAIN rows : rows[i] \in Row
  BY <1>4
<1>6. \A i \in DOMAIN csv : i \in DOMAIN rows /\ rows[i] = csv[i]
  BY <1>2, <1>3, <1>4, <1>5 DEF Placed
<1> QED
  BY <1>4, <1>5, <1>6, RowTyped

IsOfCsv(i)  == i \in DOMAIN csv /\ rows[i] = csv[i]
IsLabel(i) == \E k \in DOMAIN marks :
                 /\ ~Inside(k) /\ rows[i].addr = marks[k].addr
                 /\ rows[i].size = EndOf(k) - marks[k].addr
                 /\ rows[i].name = None /\ rows[i].mode = "$d" /\ rows[i].segment = marks[k].segment
LEMMA RowIs ==
  ASSUME TargetCutAssumption, Placed, NEW i \in DOMAIN rows
  PROVE  IsOfCsv(i) \/ IsLabel(i)
<1>1. csv \in Seq(Row) /\ Labels \in Seq(Row)
  BY InputsTyped, LabelIs DEF Placed
<1>2. i \in 1..Len(csv \o Labels)
  BY RowsTyped DEF Placed
<1>3. \/ i \in 1..Len(csv) /\ (csv \o Labels)[i] = csv[i]
      \/ i - Len(csv) \in 1..Len(Labels) /\ (csv \o Labels)[i] = Labels[i - Len(csv)]
  BY <1>1, <1>2, InEither
<1>4. CASE i \in 1..Len(csv) /\ (csv \o Labels)[i] = csv[i]
  <2>1. i \in DOMAIN csv
    BY <1>1, <1>4
  <2> QED
    BY <1>4, <2>1 DEF Placed, IsOfCsv
<1>5. CASE i - Len(csv) \in 1..Len(Labels) /\ (csv \o Labels)[i] = Labels[i - Len(csv)]
  <2> DEFINE j == i - Len(csv)
  <2>1. j \in DOMAIN Labels /\ rows[i] = Labels[j]
    BY <1>1, <1>5 DEF Placed
  <2> HIDE DEF j
  <2>2. PICK k \in DOMAIN marks :
              /\ ~Inside(k) /\ Labels[j].addr = marks[k].addr /\ Labels[j].size = EndOf(k) - marks[k].addr
              /\ Labels[j].name = None /\ Labels[j].mode = "$d" /\ Labels[j].segment = marks[k].segment
    BY <2>1, LabelIs DEF Placed
  <2> QED
    BY <2>1, <2>2 DEF IsLabel
<1> QED
  BY <1>3, <1>4, <1>5

\* Code is in the CSV, and has a name.
LEMMA CodeIsNamed ==
  ASSUME TargetCutAssumption, Placed, NEW i \in DOMAIN rows, rows[i].mode # "$d" \/ rows[i].name # None
  PROVE  i \in DOMAIN csv /\ rows[i] = csv[i] /\ rows[i].name \in Name /\ rows[i].name # None
<1>1. IsOfCsv(i)
  BY RowIs DEF IsLabel
<1> QED
  BY <1>1, InputsTyped DEF IsOfCsv, Placed

\* Some rows have a last.
LEMMA LastOfIs ==
  ASSUME TargetCutAssumption, Placed, NEW is \in SUBSET (DOMAIN rows), is # {}
  PROVE  \E i \in is : LastOf(is) = rows[i] /\ \A j \in is \ {i} : Precedes(j, i)
<1> DEFINE n == Len(rows)
           R == {p \in (1..n) \X (1..n) : Precedes(p[1], p[2])}
<1>1. n \in Nat /\ DOMAIN rows = 1..n /\ \A i \in 1..n : rows[i].addr \in Nat /\ i \in Nat
  BY RowsTyped
<1>2. is \in SUBSET (1..n)
  BY <1>1
<1>3. \A i, j \in 1..n : i # j => Precedes(i, j) \/ Precedes(j, i)
  <2> TAKE i, j \in 1..n
  <2>1. rows[i].addr \in Nat /\ rows[j].addr \in Nat /\ i \in Nat /\ j \in Nat
    BY <1>1
  <2> QED
    BY <2>1 DEF Precedes
<1>4. \A i, j, k \in 1..n : Precedes(i, j) /\ Precedes(j, k) => Precedes(i, k)
  <2> TAKE i, j, k \in 1..n
  <2>1. rows[i].addr \in Nat /\ rows[j].addr \in Nat /\ rows[k].addr \in Nat /\ i \in Nat /\ j \in Nat /\ k \in Nat
    BY <1>1
  <2> QED
    BY <2>1 DEF Precedes
<1>5. \A i, j \in 1..n : <<i, j>> \in R <=> Precedes(i, j)
  OBVIOUS
<1> HIDE DEF R, n
<1>6. Compares(R, is)
  <2>1. \A i, j \in is : i # j => <<i, j>> \in R \/ <<j, i>> \in R
    BY <1>2, <1>3, <1>5
  <2>2. \A i, j, k \in is : <<i, j>> \in R /\ <<j, k>> \in R => <<i, k>> \in R
    BY <1>2, <1>4, <1>5
  <2> QED
    BY <2>1, <2>2 DEF Compares
<1>7. \E i \in is : \A j \in is \ {i} : <<j, i>> \in R
  BY <1>1, <1>2, <1>6, LastInOrder
<1>8. \E i \in is : \A j \in is \ {i} : Precedes(j, i)
  BY <1>2, <1>5, <1>7
<1> DEFINE c == CHOOSE i \in is : \A j \in is \ {i} : Precedes(j, i)
<1>9. c \in is /\ \A j \in is \ {c} : Precedes(j, c)
  BY <1>8
<1>10. LastOf(is) = rows[c]
  BY DEF LastOf
<1> HIDE DEF c
<1> QED
  BY <1>9, <1>10

\* A label is routed to the function before it: the last code, if it is not a library's.
OwnedBy(i, j) == /\ j \in CodeBefore(i) /\ \A l \in CodeBefore(i) \ {j} : Precedes(l, j)
                 /\ ~rows[j].std /\ Owner(i) = rows[j].name
LEMMA OwnerIs ==
  ASSUME TargetCutAssumption, Placed, NEW i \in DOMAIN rows
  PROVE  Owner(i) = None \/ \E j \in DOMAIN csv : rows[j] = csv[j] /\ csv[j].name \in Name /\ OwnedBy(i, j)
<1> DEFINE before == CodeBefore(i)
<1>1. before \in SUBSET (DOMAIN rows) /\ \A j \in before : rows[j].mode # "$d" /\ j \in DOMAIN rows
  BY DEF CodeBefore
<1>2. Owner(i) = IF before = {} \/ LastOf(before).std THEN None ELSE LastOf(before).name
  BY DEF Owner
<1> HIDE DEF before
<1>3. CASE Owner(i) # None
  <2>1. before # {} /\ ~LastOf(before).std /\ Owner(i) = LastOf(before).name
    BY <1>2, <1>3
  <2>2. PICK j \in before : LastOf(before) = rows[j] /\ \A l \in before \ {j} : Precedes(l, j)
    BY <1>1, <2>1, LastOfIs
  <2>3. j \in DOMAIN csv /\ rows[j] = csv[j] /\ csv[j].name \in Name
    BY <1>1, <2>2, CodeIsNamed
  <2> QED
    BY <2>1, <2>2, <2>3 DEF OwnedBy, before
<1> QED
  BY <1>3

\* Where rows are routed.
LEMMA RoutedIs ==
  ASSUME TargetCutAssumption, Placed, NEW i \in DOMAIN rows
  PROVE  \/ /\ IsLabelIn(rows[i]) /\ Owner(i) # None /\ Owner(i) \in Name
            /\ Routed(i) = PoolOf(Owner(i)) /\ Routed(i) = <<".pool", Owner(i)>>
         \/ IsLabelIn(rows[i]) /\ Owner(i) = None /\ Routed(i) = Skip
         \/ Code(rows[i]) /\ Routed(i) = Plain(".text")
         \/ rows[i].segment = ".bss" /\ ~IsLabelIn(rows[i]) /\ Routed(i) = Plain(".bss")
         \/ /\ rows[i].segment \in DataSegments /\ ~IsLabelIn(rows[i])
            /\ \/ Routed(i) = Skip
               \/ \E seg \in DataSegments : \E n \in Name \cup {None} : Routed(i) = <<seg, n>>
<1> DEFINE r == rows[i]
<1>1. r \in Row /\ r.segment \in {".text", ".bss"} \cup DataSegments /\ r.name \in Name \cup {None}
  BY RowsTyped, RowTyped
<1>2. CASE IsLabelIn(r)
  <2>1. Routed(i) = IF Owner(i) = None THEN Skip ELSE PoolOf(Owner(i))
    BY <1>2 DEF Routed
  <2>2. Owner(i) # None => Owner(i) \in Name
    BY OwnerIs DEF OwnedBy
  <2> QED
    BY <1>2, <2>1, <2>2 DEF PoolOf
<1>3. CASE ~IsLabelIn(r) /\ r.segment \notin DataSegments
  <2>1. Routed(i) = Plain(r.segment)
    BY <1>3 DEF Routed
  <2>2. r.segment = ".text" => r.mode # "$d"
    BY <1>3 DEF IsLabelIn
  <2> QED
    BY <1>1, <1>3, <2>1, <2>2 DEF Code, DataSegments
<1>4. CASE ~IsLabelIn(r) /\ r.segment \in DataSegments
  <2>1. Routed(i) = IF r.name = None \/ decompiled[r.name] = None THEN Skip
                    ELSE IF HasOwnSection(r.name) THEN SectionInBase(r.name)
                    ELSE Plain(decompiled[r.name])
    BY <1>4 DEF Routed
  <2>2. CASE r.name = None \/ decompiled[r.name] = None
    BY <1>4, <2>1, <2>2
  <2>3. CASE r.name # None /\ decompiled[r.name] # None /\ HasOwnSection(r.name)
    <3> DEFINE c == CHOOSE j \in DOMAIN base.objects : base.objects[j].name = r.name
    <3>1. \E j \in DOMAIN base.objects : base.objects[j].name = r.name
      BY <2>3 DEF HasOwnSection, Alone
    <3>2. c \in DOMAIN base.objects
      BY <3>1
    <3>3. base.objects \in Seq([name : Name, segment : DataSegments])
      BY <2>3 DEF HasOwnSection, Placed, InputsOK, Input
    <3>4. SectionInBase(r.name) = <<base.objects[c].segment, r.name>>
      BY DEF SectionInBase
    <3> HIDE DEF c
    <3>5. base.objects[c].segment \in DataSegments
      <4>1. base.objects[c] \in [name : Name, segment : DataSegments]
        BY <3>2, <3>3, ElementOf
      <4> QED
        BY <4>1
    <3> QED
      BY <1>1, <1>4, <2>1, <2>3, <3>4, <3>5
  <2>4. CASE r.name # None /\ decompiled[r.name] # None /\ ~HasOwnSection(r.name)
    <3>1. decompiled \in [Name -> DataSegments \cup {None}]
      BY DEF Placed, InputsOK, Input
    <3>2. decompiled[r.name] \in DataSegments
      BY <1>1, <2>4, <3>1
    <3> QED
      BY <1>4, <2>1, <2>4, <3>2 DEF Plain
  <2> QED
    BY <2>2, <2>3, <2>4
<1> QED
  BY <1>2, <1>3, <1>4

\* So to a section.
LEMMA RoutedTyped ==
  ASSUME TargetCutAssumption, Placed, NEW i \in DOMAIN rows
  PROVE  Routed(i) \in Section
<1>1. /\ \A n \in Name : <<".pool", n>> \in Section
      /\ Skip \in Section /\ Plain(".text") \in Section /\ Plain(".bss") \in Section
      /\ \A seg \in DataSegments : \A n \in Name \cup {None} : <<seg, n>> \in Section
  BY DEF Section, Skip, Plain
<1> QED
  BY <1>1, RoutedIs

\* The row of an address is the last one there.
RowAddrs == {rows[i].addr : i \in {i \in DOMAIN rows : rows[i].addr < Size}}
LEMMA RowAtIs ==
  ASSUME TargetCutAssumption, Placed, NEW a \in RowAddrs
  PROVE  /\ RowAt(a) \in DOMAIN rows /\ rows[RowAt(a)].addr = a /\ a \in Nat /\ a < Size
         /\ \A j \in DOMAIN rows : rows[j].addr = a => j <= RowAt(a)
<1> DEFINE is == {i \in DOMAIN rows : rows[i].addr = a}
<1>1. is # {} /\ a \in Nat /\ a < Size
  BY RowsTyped DEF RowAddrs
<1>2. is \in SUBSET (0..Len(rows)) /\ Len(rows) \in Nat
  BY RowsTyped
<1>3. RowAt(a) = Max(is)
  BY DEF RowAt
<1>4. \A j \in DOMAIN rows : rows[j].addr = a => j \in is
  OBVIOUS
<1>5. \A j \in is : j \in DOMAIN rows /\ rows[j].addr = a
  OBVIOUS
<1> HIDE DEF is
<1>6. Max(is) \in is /\ \A j \in is : j <= Max(is)
  BY <1>1, <1>2, GreatestIs
<1> QED
  BY <1>1, <1>3, <1>4, <1>5, <1>6

-----------------------------------------------------------------------------
(* The pieces a function is cut into.                                      *)

\* Symbols of the same addresses and sizes cover the same.
LEMMA CoversSame ==
  ASSUME NEW s \in Seq(Symbol), NEW t \in Seq(Symbol), NEW from, NEW to, Covers(s, from, to),
         Len(t) = Len(s), \A i \in 1..Len(s) : t[i].addr = s[i].addr /\ t[i].size = s[i].size
  PROVE  Covers(t, from, to)
<1> DEFINE n == Len(s)
<1>1. n \in Nat /\ Len(t) = n /\ (s = <<>> <=> n = 0) /\ (t = <<>> <=> n = 0)
  OBVIOUS
<1>2. \A i \in 1..n : t[i].addr = s[i].addr /\ End(t[i]) = End(s[i])
  BY DEF End
<1>3. /\ s = <<>> => from = to
      /\ s # <<>> => s[1].addr = from /\ End(s[n]) = to
      /\ \A i \in 1..(n - 1) : End(s[i]) = s[i + 1].addr
  BY DEF Covers
<1> HIDE DEF n
<1>4. \A i \in 1..(n - 1) : i \in 1..n /\ i + 1 \in 1..n
  BY <1>1
<1>5. n # 0 => 1 \in 1..n /\ n \in 1..n
  BY <1>1
<1>6. \A i \in 1..(n - 1) : End(t[i]) = t[i + 1].addr
  BY <1>2, <1>3, <1>4
<1>7. t # <<>> => t[1].addr = from /\ End(t[n]) = to
  BY <1>1, <1>2, <1>3, <1>5
<1> QED
  BY <1>1, <1>3, <1>6, <1>7 DEF Covers

\* Ranges that are apart, as they come.
Disjoint(I) ==
  /\ IsFiniteSet({r[1] : r \in I})
  /\ \A r \in I : r[1] \in Int /\ r[2] \in Int /\ r[1] < r[2]
  /\ \A r, q \in I : r # q => r[2] <= q[1] \/ q[2] <= r[1]
LEMMA AscendingIs ==
  ASSUME NEW I, Disjoint(I)
  PROVE  /\ Ascending(I) \in Seq(I)
         /\ \A j, k \in DOMAIN Ascending(I) : j < k => Ascending(I)[j][2] <= Ascending(I)[k][1]
         /\ \A r \in I : \E k \in DOMAIN Ascending(I) : Ascending(I)[k] = r
<1> DEFINE S == {r[1] : r \in I}
           m == Cardinality(S)
           At(k) == CHOOSE r \in I : r[1] = Nth(S, k)
<1>0. Ascending(I) = [k \in 1..m |-> At(k)]
  BY DEF Ascending
<1>1. S \in SUBSET Int /\ IsFiniteSet(S)
  BY DEF Disjoint
<1>2. \A v \in S : \E r \in I : r[1] = v
  OBVIOUS
<1>3. \A r \in I : r[1] \in S /\ r[1] \in Int /\ r[2] \in Int /\ r[1] < r[2]
  BY DEF Disjoint
<1>4. \A r, q \in I : r # q => r[2] <= q[1] \/ q[2] <= r[1]
  BY DEF Disjoint
<1>5. \A r, q \in I : r[1] = q[1] => r = q
  <2> SUFFICES ASSUME NEW r \in I, NEW q \in I, r[1] = q[1], r # q PROVE FALSE
    OBVIOUS
  <2>1. r[1] \in Int /\ r[2] \in Int /\ q[2] \in Int /\ r[1] < r[2] /\ q[1] < q[2]
    BY <1>3
  <2> QED
    BY <1>4, <2>1
<1> HIDE DEF S
<1>6. /\ m \in Nat /\ \A k \in 1..m : Nth(S, k) \in S
      /\ \A i \in S : \E k \in 1..m : Nth(S, k) = i
      /\ \A j, k \in 1..m : j < k => Nth(S, j) < Nth(S, k)
  BY <1>1, NthOfNumbers
<1>7. \A k \in 1..m : At(k) \in I /\ At(k)[1] = Nth(S, k)
  <2> TAKE k \in 1..m
  <2>1. \E r \in I : r[1] = Nth(S, k)
    BY <1>2, <1>6
  <2> QED
    BY <2>1
<1> HIDE DEF m, At
<1> DEFINE sorted == Ascending(I)
<1>8. DOMAIN sorted = 1..m /\ \A k \in 1..m : sorted[k] \in I /\ sorted[k][1] = Nth(S, k)
  BY <1>0, <1>7
<1>9. sorted \in Seq(I)
  BY <1>0, <1>6, <1>7
<1> HIDE DEF sorted
<1>10. ASSUME NEW j \in 1..m, NEW k \in 1..m, j < k PROVE sorted[j][2] <= sorted[k][1]
  <2>1. sorted[j] \in I /\ sorted[k] \in I /\ sorted[j][1] < sorted[k][1]
    BY <1>6, <1>8, <1>10
  <2>2. /\ sorted[j][1] \in Int /\ sorted[j][2] \in Int /\ sorted[k][1] \in Int /\ sorted[k][2] \in Int
        /\ sorted[k][1] < sorted[k][2]
    BY <1>3, <2>1
  <2>3. sorted[j] # sorted[k]
    BY <2>1, <2>2
  <2>4. sorted[j][2] <= sorted[k][1] \/ sorted[k][2] <= sorted[j][1]
    BY <1>4, <2>1, <2>3
  <2> QED
    BY <2>1, <2>2, <2>4
<1>11. ASSUME NEW r \in I PROVE \E k \in 1..m : sorted[k] = r
  <2>1. PICK k \in 1..m : Nth(S, k) = r[1]
    BY <1>3, <1>6
  <2>2. sorted[k] \in I /\ sorted[k][1] = r[1]
    BY <1>8, <2>1
  <2> QED
    BY <1>5, <2>2
<1>12. /\ sorted \in Seq(I) /\ DOMAIN sorted = 1..m
       /\ \A j, k \in 1..m : j < k => sorted[j][2] <= sorted[k][1]
       /\ \A r \in I : \E k \in 1..m : sorted[k] = r
  BY <1>8, <1>9, <1>10, <1>11
<1> QED
  BY <1>12 DEF sorted

\* The runs inside a function, as they come.
LEMMA SortedIs ==
  ASSUME TargetCutAssumption, InputsOK, NEW n
  PROVE  /\ Ascending(Inner(n)) \in Seq(Inner(n))
         /\ \A j, k \in DOMAIN Ascending(Inner(n)) :
              j < k => Ascending(Inner(n))[j][2] <= Ascending(Inner(n))[k][1]
         /\ \A r \in Inner(n) : \E k \in DOMAIN Ascending(Inner(n)) : Ascending(Inner(n))[k] = r
<1>1. \A r \in Inner(n) : r[1] \in Nat /\ r[2] \in Nat /\ r[1] < r[2]
  BY InnerIs
<1>2. \A r, q \in Inner(n) : r # q => r[2] <= q[1] \/ q[2] <= r[1]
  BY InnerApart
<1>3. Disjoint(Inner(n))
  BY <1>1, <1>2, InnerFinite DEF Disjoint
<1> QED
  BY <1>3, AscendingIs

\* A piece of a function, what a run adds to its pieces, and what is left at the end.
PieceOf(s, from, to, mode) ==
  [s EXCEPT !.name = None, !.addr = from, !.size = to - from, !.mode = mode,
            !.section = IF mode = "$d" THEN PoolOf(s.name) ELSE CodeOf(s.name)]
Before1(s, run, w) == IF run[1] > w.cur THEN <<PieceOf(s, w.cur, run[1], w.mode)>> ELSE <<>>
Grow(s, run, w) ==
  [out  |-> w.out \o Before1(s, run, w) \o <<PieceOf(s, run[1], run[2], run[3])>>,
   cur  |-> Max({w.cur, run[2]}),
   mode |-> IF run[3] = "$d" THEN w.mode ELSE run[3]]
Finish(s, w) == w.out \o (IF w.cur < End(s) THEN <<PieceOf(s, w.cur, End(s), w.mode)>> ELSE <<>>)
NamedFirst(s, out) ==
  LET code == {i \in DOMAIN out : out[i].section = CodeOf(s.name)}
  IN  [i \in DOMAIN out |->
         IF code # {} /\ i = Min(code) THEN [out[i] EXCEPT !.name = s.name] ELSE out[i]]

Start(s) == [out |-> <<>>, cur |-> s.addr, mode |-> s.mode]
IsAfter(h, s, sorted) ==
  h = [k \in 0..Len(sorted) |-> IF k = 0 THEN Start(s) ELSE Grow(s, sorted[k], h[k - 1])]
AfterAll(s, sorted) == (CHOOSE h : IsAfter(h, s, sorted))[Len(sorted)]
LEMMA PiecesAre ==
  ASSUME NEW s, NEW inner
  PROVE  Pieces(s, inner) = NamedFirst(s, Finish(s, AfterAll(s, Ascending(inner))))
BY DEF Pieces, NamedFirst, Finish, AfterAll, IsAfter, Start, Grow, Before1, PieceOf

\* A piece has the addresses and the mode it is made with.
LEMMA PieceOfIs ==
  ASSUME NEW s \in Symbol, s.name \in Name, NEW from \in Nat, NEW to \in Nat, from < to, NEW mode \in Mode
  PROVE  /\ PieceOf(s, from, to, mode) \in Symbol
         /\ PieceOf(s, from, to, mode).addr = from /\ End(PieceOf(s, from, to, mode)) = to
         /\ PieceOf(s, from, to, mode).size > 0 /\ PieceOf(s, from, to, mode).mode = mode
         /\ PieceOf(s, from, to, mode).name = None
         /\ PieceOf(s, from, to, mode).pad = s.pad /\ PieceOf(s, from, to, mode).std = s.std
         /\ PieceOf(s, from, to, mode).section = IF mode = "$d" THEN PoolOf(s.name) ELSE CodeOf(s.name)
<1> DEFINE p == PieceOf(s, from, to, mode)
           sec == IF mode = "$d" THEN PoolOf(s.name) ELSE CodeOf(s.name)
<1>1. sec \in Section
  BY DEF Section, PoolOf, CodeOf
<1>2. to - from \in Nat /\ to - from > 0 /\ from + (to - from) = to
  OBVIOUS
<1>3. s = [name |-> s.name, addr |-> s.addr, size |-> s.size, section |-> s.section,
           mode |-> s.mode, std |-> s.std, pad |-> s.pad]
  BY DEF Symbol
<1>4. p = [name |-> None, addr |-> from, size |-> to - from, section |-> sec,
           mode |-> mode, std |-> s.std, pad |-> s.pad]
  <2> DEFINE t == [name |-> s.name, addr |-> s.addr, size |-> s.size, section |-> s.section,
                   mode |-> s.mode, std |-> s.std, pad |-> s.pad]
  <2>1. p = [s EXCEPT !.name = None, !.addr = from, !.size = to - from, !.mode = mode, !.section = sec]
    BY DEF PieceOf
  <2> HIDE DEF sec, p
  <2>2. p = [t EXCEPT !.name = None, !.addr = from, !.size = to - from, !.mode = mode, !.section = sec]
    BY <1>3, <2>1
  <2> QED
    BY <2>2
<1> HIDE DEF sec
<1>5. s.std \in BOOLEAN /\ s.pad \in BOOLEAN
  BY DEF Symbol
<1>6. p \in Symbol
  BY <1>1, <1>2, <1>4, <1>5 DEF Symbol
<1> HIDE DEF p
<1>7. /\ p.addr = from /\ p.size = to - from /\ p.mode = mode /\ p.name = None
      /\ p.pad = s.pad /\ p.std = s.std /\ p.section = sec
  BY <1>4
<1>8. End(p) = to /\ p.size > 0
  BY <1>2, <1>7 DEF End
<1> QED
  BY <1>6, <1>7, <1>8 DEF p, sec

\* A piece of a function is one of its runs, or is before and after them.
PieceIn(x, s) ==
  /\ x.size > 0 /\ x.pad = s.pad /\ x.std = s.std /\ x.name \in {None, s.name}
  /\ s.addr <= x.addr
  /\ x.section = IF x.mode = "$d" THEN PoolOf(s.name) ELSE CodeOf(s.name)
  /\ \/ \E r \in Inner(s.name) : x.addr = r[1] /\ End(x) = r[2] /\ x.mode = r[3]
     \/ /\ \A r \in Inner(s.name) : r[2] <= x.addr \/ End(x) <= r[1]
        /\ (x.addr = s.addr /\ x.mode = s.mode) \/ \E r \in Inner(s.name) : r[2] = x.addr

\* After k runs, the pieces cover the function up to the end of the last.
WorkedOn(s, sorted, k, w) ==
  /\ w.out \in Seq(Symbol) /\ w.cur \in Nat /\ w.mode \in Mode
  /\ IF k = 0 THEN w.cur = s.addr /\ w.mode = s.mode ELSE w.cur = sorted[k][2]
  /\ Covers(w.out, s.addr, w.cur)
  /\ \A i \in DOMAIN w.out : PieceIn(w.out[i], s)
Work == [out : Seq(Symbol), cur : Nat, mode : Mode]

LEMMA GrowTyped ==
  ASSUME NEW s \in Symbol, s.name \in Name, NEW w \in Work, NEW run, run[1] \in Nat, run[2] \in Nat,
         run[1] < run[2], run[3] \in Mode
  PROVE  /\ Grow(s, run, w) \in Work
         /\ Grow(s, run, w).out = w.out \o Before1(s, run, w) \o <<PieceOf(s, run[1], run[2], run[3])>>
         /\ Grow(s, run, w).cur = (IF w.cur <= run[2] THEN run[2] ELSE w.cur)
         /\ Grow(s, run, w).mode = (IF run[3] = "$d" THEN w.mode ELSE run[3])
         /\ Before1(s, run, w) \in Seq(Symbol)
<1>1. w.out \in Seq(Symbol) /\ w.cur \in Nat /\ w.mode \in Mode
  BY DEF Work
<1>2. Before1(s, run, w) \in Seq(Symbol)
  <2>1. CASE run[1] > w.cur
    <3>1. w.cur < run[1]
      BY <1>1, <2>1
    <3>2. PieceOf(s, w.cur, run[1], w.mode) \in Symbol
      BY <1>1, <3>1, PieceOfIs
    <3> QED
      BY <2>1, <3>2 DEF Before1
  <2>2. CASE ~(run[1] > w.cur)
    BY <2>2 DEF Before1
  <2> QED
    BY <2>1, <2>2
<1>3. PieceOf(s, run[1], run[2], run[3]) \in Symbol
  BY PieceOfIs
<1>4. Max({w.cur, run[2]}) = IF w.cur <= run[2] THEN run[2] ELSE w.cur
  BY <1>1, GreaterIs
<1> DEFINE out == w.out \o Before1(s, run, w) \o <<PieceOf(s, run[1], run[2], run[3])>>
           c == Max({w.cur, run[2]})
           m == IF run[3] = "$d" THEN w.mode ELSE run[3]
<1>5. out \in Seq(Symbol)
  BY <1>1, <1>2, <1>3
<1>6. c \in Nat /\ m \in Mode
  BY <1>1, <1>4
<1>7. Grow(s, run, w) = [out |-> out, cur |-> c, mode |-> m]
  BY DEF Grow
<1> HIDE DEF out, c, m
<1>8. /\ Grow(s, run, w) \in Work /\ Grow(s, run, w).out = out /\ Grow(s, run, w).cur = c
      /\ Grow(s, run, w).mode = m
  BY <1>5, <1>6, <1>7 DEF Work
<1> QED
  BY <1>2, <1>4, <1>8 DEF out, c, m

\* Each run keeps it so.
LEMMA GrowWorks ==
  ASSUME TargetCutAssumption, InputsOK, NEW s \in Symbol, s.name \in Name,
         \A r \in Inner(s.name) : s.addr <= r[1],
         NEW sorted, sorted = Ascending(Inner(s.name)),
         NEW k \in DOMAIN sorted, NEW w \in Work, WorkedOn(s, sorted, k - 1, w)
  PROVE  WorkedOn(s, sorted, k, Grow(s, sorted[k], w))
<1> DEFINE I == Inner(s.name)
           run == sorted[k]
           g == Grow(s, run, w)
           new == PieceOf(s, run[1], run[2], run[3])
           left == PieceOf(s, w.cur, run[1], w.mode)
           before == Before1(s, run, w)
<1>1. /\ sorted \in Seq(I)
      /\ \A i, j \in DOMAIN sorted : i < j => sorted[i][2] <= sorted[j][1]
      /\ \A r \in I : \E j \in DOMAIN sorted : sorted[j] = r
  BY SortedIs
<1>2. k \in Nat /\ k >= 1 /\ DOMAIN sorted = 1..Len(sorted) /\ Len(sorted) \in Nat
      /\ \A j \in DOMAIN sorted : sorted[j] \in I
  BY <1>1
<1>3. \A r \in I : /\ r[1] \in Nat /\ r[2] \in Nat /\ r[3] \in Mode /\ r[1] < r[2]
  BY InnerIs
<1>4. \A r \in I : s.addr <= r[1]
  OBVIOUS
<1> HIDE DEF I
<1>5. run \in I /\ run[1] \in Nat /\ run[2] \in Nat /\ run[3] \in Mode /\ run[1] < run[2]
  BY <1>2, <1>3
<1>6. /\ w.out \in Seq(Symbol) /\ w.cur \in Nat /\ w.mode \in Mode
      /\ IF k - 1 = 0 THEN w.cur = s.addr /\ w.mode = s.mode ELSE w.cur = sorted[k - 1][2]
      /\ Covers(w.out, s.addr, w.cur)
      /\ \A i \in DOMAIN w.out : PieceIn(w.out[i], s)
  BY DEF WorkedOn
<1>7. s.addr \in Nat
  BY SymbolTyped
<1>8. \A r \in I : r[2] <= w.cur \/ run[1] <= r[1]
  <2> TAKE r \in I
  <2>1. PICK j \in DOMAIN sorted : sorted[j] = r
    BY <1>1
  <2>2. j \in Nat /\ (j < k - 1 \/ j = k - 1 \/ j = k \/ k < j) /\ j >= 1
    BY <1>2, <2>1
  <2>3. CASE j < k - 1
    <3>1. k - 1 \in DOMAIN sorted /\ k - 1 # 0
      BY <1>2, <2>2, <2>3
    <3>2. r[2] <= sorted[k - 1][1] /\ sorted[k - 1] \in I /\ w.cur = sorted[k - 1][2]
      BY <1>1, <1>2, <1>6, <2>1, <2>3, <3>1
    <3>3. sorted[k - 1][1] \in Nat /\ sorted[k - 1][2] \in Nat /\ sorted[k - 1][1] < sorted[k - 1][2] /\ r[2] \in Nat
      BY <1>3, <3>2
    <3> QED
      BY <3>2, <3>3
  <2>4. CASE j = k - 1
    <3>1. w.cur = r[2] /\ r[2] \in Nat
      BY <1>3, <1>6, <2>1, <2>2, <2>4
    <3> QED
      BY <3>1
  <2>5. CASE j = k
    <3>1. run[1] = r[1]
      BY <2>1, <2>5
    <3> QED
      BY <1>5, <3>1
  <2>6. CASE k < j
    <3>1. run[2] <= r[1] /\ r[1] \in Nat
      BY <1>1, <1>3, <2>1, <2>6
    <3> QED
      BY <1>5, <3>1
  <2> QED
    BY <2>2, <2>3, <2>4, <2>5, <2>6
<1>9. w.cur <= run[1] /\ s.addr <= w.cur
  <2>1. CASE k = 1
    <3>1. w.cur = s.addr
      BY <1>6, <2>1
    <3> QED
      BY <1>4, <1>5, <1>7, <3>1
  <2>2. CASE k # 1
    <3>1. k - 1 \in DOMAIN sorted /\ k - 1 # 0 /\ k - 1 < k
      BY <1>2, <2>2
    <3>2. w.cur = sorted[k - 1][2] /\ sorted[k - 1] \in I
      BY <1>2, <1>6, <3>1
    <3>3. sorted[k - 1][2] <= run[1]
      BY <1>1, <3>1
    <3>4. /\ sorted[k - 1][1] \in Nat /\ sorted[k - 1][2] \in Nat
          /\ sorted[k - 1][1] < sorted[k - 1][2] /\ s.addr <= sorted[k - 1][1]
      BY <1>3, <1>4, <3>2
    <3> QED
      BY <1>7, <3>2, <3>3, <3>4
  <2> QED
    BY <2>1, <2>2
<1>10. /\ g \in Work
       /\ g.out = w.out \o before \o <<new>>
       /\ g.cur = (IF w.cur <= run[2] THEN run[2] ELSE w.cur)
       /\ before \in Seq(Symbol)
  <2> HIDE DEF run
  <2>1. /\ Grow(s, run, w) \in Work
        /\ Grow(s, run, w).out = w.out \o Before1(s, run, w) \o <<PieceOf(s, run[1], run[2], run[3])>>
        /\ Grow(s, run, w).cur = (IF w.cur <= run[2] THEN run[2] ELSE w.cur)
        /\ Before1(s, run, w) \in Seq(Symbol)
    BY <1>5, GrowTyped
  <2> QED
    BY <2>1
<1>11. g.cur = run[2]
  BY <1>5, <1>6, <1>9, <1>10
<1>12. /\ new \in Symbol /\ new.addr = run[1] /\ End(new) = run[2] /\ PieceIn(new, s)
  <2>1. /\ new \in Symbol /\ new.addr = run[1] /\ End(new) = run[2] /\ new.size > 0 /\ new.mode = run[3]
        /\ new.name = None /\ new.pad = s.pad /\ new.std = s.std
        /\ new.section = IF run[3] = "$d" THEN PoolOf(s.name) ELSE CodeOf(s.name)
    BY <1>5, PieceOfIs
  <2> HIDE DEF new, run
  <2>2. s.addr <= run[1]
    BY <1>4, <1>5
  <2>3. \E r \in Inner(s.name) : new.addr = r[1] /\ End(new) = r[2] /\ new.mode = r[3]
    BY <1>5, <2>1 DEF I
  <2> QED
    BY <2>1, <2>2, <2>3 DEF PieceIn
<1>13. /\ Covers(before, w.cur, run[1])
       /\ \A i \in DOMAIN before : PieceIn(before[i], s)
  <2>1. CASE run[1] > w.cur
    <3>0. w.cur < run[1]
      BY <1>5, <1>6, <2>1
    <3>1. /\ left \in Symbol /\ left.addr = w.cur /\ End(left) = run[1] /\ left.size > 0
          /\ left.mode = w.mode /\ left.name = None /\ left.pad = s.pad /\ left.std = s.std
          /\ left.section = IF w.mode = "$d" THEN PoolOf(s.name) ELSE CodeOf(s.name)
      BY <1>5, <1>6, <3>0, PieceOfIs
    <3>2. before = <<left>>
      BY <2>1 DEF Before1
    <3> HIDE DEF before, left, run
    <3>3. \A r \in Inner(s.name) : r[2] <= left.addr \/ End(left) <= r[1]
      BY <1>8, <3>1 DEF I
    <3>4. (left.addr = s.addr /\ left.mode = s.mode) \/ \E r \in Inner(s.name) : r[2] = left.addr
      <4>1. CASE k - 1 = 0
        BY <1>6, <3>1, <4>1
      <4>2. CASE k - 1 # 0
        <5>1. k - 1 \in DOMAIN sorted
          BY <1>2, <4>2
        <5>2. w.cur = sorted[k - 1][2] /\ sorted[k - 1] \in I
          BY <1>2, <1>6, <4>2, <5>1
        <5> QED
          BY <3>1, <5>2 DEF I
      <4> QED
        BY <4>1, <4>2
    <3>5. PieceIn(left, s)
      BY <1>9, <3>1, <3>3, <3>4 DEF PieceIn
    <3>6. Covers(<<left>>, w.cur, run[1])
      BY <3>1, CoversOne
    <3>7. \A i \in DOMAIN <<left>> : <<left>>[i] = left
      OBVIOUS
    <3> QED
      BY <3>2, <3>5, <3>6, <3>7
  <2>2. CASE ~(run[1] > w.cur)
    <3>1. run[1] = w.cur /\ before = <<>>
      BY <1>5, <1>6, <1>9, <2>2 DEF Before1
    <3> QED
      BY <3>1 DEF Covers
  <2> QED
    BY <2>1, <2>2
<1> HIDE DEF g, new, left, before, run
<1>14. w.out \o before \in Seq(Symbol) /\ Covers(w.out \o before, s.addr, run[1])
  BY <1>6, <1>10, <1>13, CoversBoth
<1>15. <<new>> \in Seq(Symbol) /\ Covers(<<new>>, run[1], run[2])
  BY <1>12, CoversOne
<1>16. g.out \in Seq(Symbol) /\ Covers(g.out, s.addr, run[2])
  <2>1. Covers((w.out \o before) \o <<new>>, s.addr, run[2])
    BY <1>14, <1>15, CoversBoth
  <2>2. (w.out \o before) \o <<new>> \in Seq(Symbol)
    BY <1>14, <1>15
  <2> QED
    BY <1>10, <2>1, <2>2
<1>17. ASSUME NEW i \in DOMAIN g.out PROVE PieceIn(g.out[i], s)
  <2> DEFINE wb == w.out \o before
  <2>1. i \in 1..Len(wb \o <<new>>)
    BY <1>10, <1>16, <1>17
  <2>2. wb \in Seq(Symbol) /\ w.out \in Seq(Symbol) /\ before \in Seq(Symbol)
    BY <1>6, <1>10, <1>14
  <2>3. g.out = wb \o <<new>>
    BY <1>10
  <2> HIDE DEF wb
  <2>4. \/ i \in 1..Len(wb) /\ g.out[i] = wb[i]
        \/ i - Len(wb) \in 1..Len(<<new>>) /\ g.out[i] = <<new>>[i - Len(wb)]
    BY <1>15, <2>1, <2>2, <2>3, InEither
  <2>5. CASE i \in 1..Len(wb) /\ g.out[i] = wb[i]
    <3>1. \/ i \in 1..Len(w.out) /\ wb[i] = w.out[i]
          \/ i - Len(w.out) \in 1..Len(before) /\ wb[i] = before[i - Len(w.out)]
      BY <2>2, <2>5, InEither DEF wb
    <3>2. DOMAIN w.out = 1..Len(w.out) /\ DOMAIN before = 1..Len(before)
      BY <2>2
    <3> QED
      BY <1>6, <1>13, <2>5, <3>1, <3>2
  <2>6. CASE i - Len(wb) \in 1..Len(<<new>>) /\ g.out[i] = <<new>>[i - Len(wb)]
    <3>1. g.out[i] = new
      BY <2>6
    <3> QED
      BY <1>12, <3>1
  <2> QED
    BY <2>4, <2>5, <2>6
<1>18. g.cur \in Nat /\ g.mode \in Mode /\ k # 0
  BY <1>2, <1>10 DEF Work
<1>19. WorkedOn(s, sorted, k, g)
  BY <1>11, <1>16, <1>17, <1>18 DEF WorkedOn, run
<1> QED
  BY <1>19 DEF g, run

\* So do all of them.
LEMMA AfterAllWorks ==
  ASSUME TargetCutAssumption, InputsOK, NEW s \in Symbol, s.name \in Name,
         \A r \in Inner(s.name) : s.addr <= r[1],
         NEW sorted, sorted = Ascending(Inner(s.name))
  PROVE  AfterAll(s, sorted) \in Work /\ WorkedOn(s, sorted, Len(sorted), AfterAll(s, sorted))
<1> DEFINE n == Len(sorted)
           b == Start(s)
           step == [p \in (1..n) \X Work |-> Grow(s, sorted[p[1]], p[2])]
           f == CHOOSE h : IsAfter(h, s, sorted)
<1>1. /\ sorted \in Seq(Inner(s.name)) /\ n \in Nat /\ DOMAIN sorted = 1..n
      /\ \A k \in 1..n : sorted[k] \in Inner(s.name)
  BY SortedIs
<1>2. \A k \in 1..n : /\ sorted[k][1] \in Nat /\ sorted[k][2] \in Nat
                      /\ sorted[k][1] < sorted[k][2] /\ sorted[k][3] \in Mode
  BY <1>1, InnerIs
<1>3. b \in Work /\ WorkedOn(s, sorted, 0, b)
  <2>1. s.addr \in Nat /\ s.mode \in Mode
    BY DEF Symbol
  <2>2. <<>> \in Seq(Symbol) /\ Covers(<<>>, s.addr, s.addr)
    BY DEF Covers
  <2>3. b \in Work
    BY <2>1, <2>2 DEF Work, Start
  <2>4. b.out = <<>> /\ b.cur = s.addr /\ b.mode = s.mode
    BY DEF Start
  <2> HIDE DEF b
  <2>5. \A i \in DOMAIN b.out : PieceIn(b.out[i], s)
    BY <2>4
  <2> QED
    BY <2>1, <2>2, <2>3, <2>4, <2>5 DEF WorkedOn
<1>4. \A k \in 1..n, w \in Work : Grow(s, sorted[k], w) \in Work
  <2> TAKE k \in 1..n, w \in Work
  <2>1. /\ sorted[k][1] \in Nat /\ sorted[k][2] \in Nat
        /\ sorted[k][1] < sorted[k][2] /\ sorted[k][3] \in Mode
    BY <1>2
  <2> HIDE DEF n
  <2> DEFINE run == sorted[k]
  <2>2. run[1] \in Nat /\ run[2] \in Nat /\ run[1] < run[2] /\ run[3] \in Mode
    BY <2>1
  <2> HIDE DEF run
  <2>3. Grow(s, run, w) \in Work
    BY <2>2, GrowTyped
  <2> QED
    BY <2>3 DEF run
<1>5. /\ step \in [(1..n) \X Work -> Work]
      /\ \A k \in 1..n, w \in Work : step[<<k, w>>] = Grow(s, sorted[k], w)
  BY <1>4
<1> HIDE DEF n, b, step
<1>6. PICK g : Iterates(g, n, Work, b, step)
  <2>1. step \in Steps(n, Work)
    BY <1>5 DEF Steps
  <2> QED
    BY <1>1, <1>3, <2>1, RecursionUpTo
<1>7. g \in [0..n -> Work] /\ g[0] = b /\ \A k \in 1..n : g[k] = step[<<k, g[k - 1]>>]
  BY <1>6 DEF Iterates
<1>8. \A k \in 1..n : k - 1 \in 0..n /\ k \in 0..n /\ k # 0
  BY <1>1
<1>9. IsAfter(g, s, sorted)
  <2>1. \A k \in 1..n : g[k] = Grow(s, sorted[k], g[k - 1])
    BY <1>5, <1>7, <1>8
  <2>2. \A k \in 0..n : k # 0 => k \in 1..n
    BY <1>1
  <2>3. \A k \in 0..n : g[k] = IF k = 0 THEN b ELSE Grow(s, sorted[k], g[k - 1])
    BY <1>7, <2>1, <2>2
  <2>4. g = [k \in 0..n |-> IF k = 0 THEN b ELSE Grow(s, sorted[k], g[k - 1])]
    BY <1>7, <2>3
  <2> QED
    BY <2>4 DEF IsAfter, n, b
<1>10. IsAfter(f, s, sorted)
  BY <1>9
<1>11. AfterAll(s, sorted) = f[n]
  BY DEF AfterAll, n
<1> HIDE DEF f
<1>12. \A k \in 0..n : f[k] = IF k = 0 THEN b ELSE Grow(s, sorted[k], f[k - 1])
  <2>1. f = [k \in 0..n |-> IF k = 0 THEN b ELSE Grow(s, sorted[k], f[k - 1])]
    BY <1>10 DEF IsAfter, n, b
  <2> QED
    BY <2>1
<1> DEFINE S == {k \in 0..n : f[k] \in Work /\ WorkedOn(s, sorted, k, f[k])}
<1>13. 0 \in S
  <2>1. f[0] = b /\ 0 \in 0..n
    BY <1>1, <1>12
  <2> QED
    BY <1>3, <2>1
<1>14. ASSUME NEW k \in 1..n, k - 1 \in S PROVE k \in S
  <2>1. f[k - 1] \in Work /\ WorkedOn(s, sorted, k - 1, f[k - 1])
    BY <1>14
  <2>2. f[k] = Grow(s, sorted[k], f[k - 1])
    BY <1>8, <1>12
  <2>3. f[k] \in Work
    BY <1>4, <2>1, <2>2
  <2>4. k \in DOMAIN sorted
    BY <1>1
  <2>5. WorkedOn(s, sorted, k, Grow(s, sorted[k], f[k - 1]))
    <3> DEFINE w == f[k - 1]
    <3>1. w \in Work /\ WorkedOn(s, sorted, k - 1, w)
      BY <2>1
    <3> HIDE DEF w
    <3>2. WorkedOn(s, sorted, k, Grow(s, sorted[k], w))
      BY <2>4, <3>1, GrowWorks
    <3> QED
      BY <3>2 DEF w
  <2> QED
    BY <1>8, <2>2, <2>3, <2>5
<1> HIDE DEF S
<1>15. \A k \in 0..n : k \in S
  BY <1>1, <1>13, <1>14, InductionUpTo
<1>16. n \in S
  BY <1>1, <1>15
<1> QED
  BY <1>11, <1>16 DEF S, n

\* So a function is cut into pieces that are its runs and what is around them, and
\* that cover it where they are all in it.
LEMMA PiecesWork ==
  ASSUME TargetCutAssumption, InputsOK, NEW s \in Symbol, s.name \in Name,
         \A r \in Inner(s.name) : s.addr <= r[1]
  PROVE  /\ Pieces(s, Inner(s.name)) \in Seq(Symbol)
         /\ \A i \in DOMAIN Pieces(s, Inner(s.name)) : PieceIn(Pieces(s, Inner(s.name))[i], s)
         /\ (\A r \in Inner(s.name) : r[2] <= End(s)) =>
              Covers(Pieces(s, Inner(s.name)), s.addr, End(s))
<1> DEFINE I == Inner(s.name)
           sorted == Ascending(I)
           n == Len(sorted)
           w == AfterAll(s, sorted)
           tail == IF w.cur < End(s) THEN <<PieceOf(s, w.cur, End(s), w.mode)>> ELSE <<>>
           out == Finish(s, w)
           named == NamedFirst(s, out)
<1>1. Pieces(s, I) = named
  BY PiecesAre
<1>2. w \in Work /\ WorkedOn(s, sorted, n, w)
  BY AfterAllWorks
<1>3. sorted \in Seq(I) /\ n \in Nat /\ DOMAIN sorted = 1..n /\ \A j \in 1..n : sorted[j] \in I
  BY SortedIs
<1>4. \A j, k \in 1..n : j < k => sorted[j][2] <= sorted[k][1]
  BY <1>3, SortedIs
<1>5. \A r \in I : \E j \in 1..n : sorted[j] = r
  BY <1>3, SortedIs
<1>6. \A r \in I : r[1] \in Nat /\ r[2] \in Nat /\ r[1] < r[2] /\ s.addr <= r[1]
  BY InnerIs
<1>7. s.addr \in Nat /\ s.size \in Nat /\ End(s) \in Nat /\ End(s) = s.addr + s.size
  BY SymbolTyped
<1> HIDE DEF sorted, n, w
<1>8. /\ w.out \in Seq(Symbol) /\ w.cur \in Nat /\ w.mode \in Mode
      /\ IF n = 0 THEN w.cur = s.addr /\ w.mode = s.mode ELSE w.cur = sorted[n][2]
      /\ Covers(w.out, s.addr, w.cur)
      /\ \A i \in DOMAIN w.out : PieceIn(w.out[i], s)
  BY <1>2 DEF WorkedOn
<1>9. \A r \in I : r[2] <= w.cur
  <2> TAKE r \in I
  <2>1. PICK j \in 1..n : sorted[j] = r
    BY <1>5
  <2>2. n \in 1..n /\ n # 0 /\ (j = n \/ j < n)
    BY <1>3
  <2>3. sorted[n] \in I /\ w.cur = sorted[n][2]
    BY <1>3, <1>8, <2>2
  <2>4. sorted[n][1] \in Nat /\ sorted[n][2] \in Nat /\ sorted[n][1] < sorted[n][2] /\ r[2] \in Nat
    BY <1>6, <2>3
  <2>5. j < n => r[2] <= sorted[n][1]
    BY <1>4, <2>1, <2>2
  <2> QED
    BY <2>1, <2>2, <2>3, <2>4, <2>5
<1>10. /\ n # 0 => \E r \in I : r[2] = w.cur
       /\ s.addr <= w.cur
  <2>1. n # 0 => n \in 1..n
    BY <1>3
  <2>2. n # 0 => sorted[n] \in I /\ w.cur = sorted[n][2]
    BY <1>3, <1>8, <2>1
  <2>3. CASE n = 0
    BY <1>7, <1>8, <2>3
  <2>4. CASE n # 0
    <3>1. sorted[n] \in I /\ w.cur = sorted[n][2]
      BY <2>2, <2>4
    <3>2. sorted[n][1] \in Nat /\ sorted[n][2] \in Nat /\ sorted[n][1] < sorted[n][2] /\ s.addr <= sorted[n][1]
      BY <1>6, <3>1
    <3> QED
      BY <1>7, <3>1, <3>2
  <2> QED
    BY <2>3, <2>4
<1> HIDE DEF I
<1>11. /\ tail \in Seq(Symbol) /\ \A i \in DOMAIN tail : PieceIn(tail[i], s)
       /\ w.cur <= End(s) => Covers(tail, w.cur, End(s))
  <2>1. CASE w.cur < End(s)
    <3> DEFINE x == PieceOf(s, w.cur, End(s), w.mode)
    <3>1. /\ x \in Symbol /\ x.addr = w.cur /\ End(x) = End(s) /\ x.size > 0
          /\ x.mode = w.mode /\ x.name = None /\ x.pad = s.pad /\ x.std = s.std
          /\ x.section = IF w.mode = "$d" THEN PoolOf(s.name) ELSE CodeOf(s.name)
      BY <1>7, <1>8, <2>1, PieceOfIs
    <3>2. tail = <<x>>
      BY <2>1
    <3> HIDE DEF x, tail
    <3>3. \A r \in Inner(s.name) : r[2] <= x.addr \/ End(x) <= r[1]
      BY <1>9, <3>1 DEF I
    <3>4. (x.addr = s.addr /\ x.mode = s.mode) \/ \E r \in Inner(s.name) : r[2] = x.addr
      BY <1>8, <1>10, <3>1 DEF I
    <3>5. PieceIn(x, s)
      BY <1>10, <3>1, <3>3, <3>4 DEF PieceIn
    <3>6. <<x>> \in Seq(Symbol) /\ Covers(<<x>>, w.cur, End(s))
      BY <3>1, CoversOne
    <3>7. \A i \in DOMAIN <<x>> : <<x>>[i] = x
      OBVIOUS
    <3> QED
      BY <3>2, <3>5, <3>6, <3>7
  <2>2. CASE ~(w.cur < End(s))
    <3>1. tail = <<>> /\ (w.cur <= End(s) => w.cur = End(s))
      BY <1>7, <1>8, <2>2
    <3> QED
      BY <3>1 DEF Covers
  <2> QED
    BY <2>1, <2>2
<1>12. out = w.out \o tail
  BY DEF Finish
<1> HIDE DEF out, tail
<1>13. out \in Seq(Symbol) /\ (w.cur <= End(s) => Covers(out, s.addr, End(s)))
  <2>1. w.cur <= End(s) => Covers(w.out \o tail, s.addr, End(s))
    BY <1>8, <1>11, CoversBoth
  <2> QED
    BY <1>8, <1>11, <1>12, <2>1
<1>14. ASSUME NEW i \in DOMAIN out PROVE PieceIn(out[i], s)
  <2>1. i \in 1..Len(w.out \o tail)
    BY <1>12, <1>13, <1>14
  <2>2. \/ i \in 1..Len(w.out) /\ out[i] = w.out[i]
        \/ i - Len(w.out) \in 1..Len(tail) /\ out[i] = tail[i - Len(w.out)]
    BY <1>8, <1>11, <1>12, <2>1, InEither
  <2>3. DOMAIN w.out = 1..Len(w.out) /\ DOMAIN tail = 1..Len(tail)
    BY <1>8, <1>11
  <2> QED
    BY <1>8, <1>11, <2>2, <2>3
<1>15. DOMAIN out = 1..Len(out) /\ Len(out) \in Nat /\ \A i \in DOMAIN out : out[i] \in Symbol
  BY <1>13
<1>16. \A i \in DOMAIN out : named[i] = out[i] \/ named[i] = [out[i] EXCEPT !.name = s.name]
  BY DEF NamedFirst
<1>17. DOMAIN named = DOMAIN out /\ named = [i \in DOMAIN out |-> named[i]]
  BY DEF NamedFirst
<1> HIDE DEF named
<1>18. ASSUME NEW i \in DOMAIN out
       PROVE  /\ named[i] \in Symbol /\ PieceIn(named[i], s)
              /\ named[i].addr = out[i].addr /\ named[i].size = out[i].size
  <2> DEFINE x == out[i]
             y == [x EXCEPT !.name = s.name]
  <2>1. x \in Symbol /\ PieceIn(x, s)
    BY <1>14, <1>15
  <2> HIDE DEF x
  <2>2. /\ y \in Symbol /\ y.addr = x.addr /\ y.size = x.size /\ y.pad = x.pad /\ y.std = x.std
        /\ y.mode = x.mode /\ y.section = x.section /\ y.name = s.name
    BY <2>1 DEF Symbol
  <2> HIDE DEF y
  <2>3. End(y) = End(x)
    BY <2>2 DEF End
  <2>4. PieceIn(y, s)
    BY <2>1, <2>2, <2>3 DEF PieceIn
  <2>5. named[i] = x \/ named[i] = y
    BY <1>16 DEF x, y
  <2> QED
    BY <2>1, <2>2, <2>4, <2>5 DEF x
<1>19. named \in Seq(Symbol) /\ Len(named) = Len(out)
  <2>1. \A i \in 1..Len(out) : named[i] \in Symbol
    BY <1>15, <1>18
  <2>2. named = [i \in 1..Len(out) |-> named[i]]
    BY <1>15, <1>17
  <2> QED
    BY <1>15, <2>1, <2>2
<1>20. w.cur <= End(s) => Covers(named, s.addr, End(s))
  <2>1. \A i \in 1..Len(out) : named[i].addr = out[i].addr /\ named[i].size = out[i].size
    BY <1>15, <1>18
  <2> QED
    BY <1>13, <1>19, <2>1, CoversSame
<1>21. (\A r \in I : r[2] <= End(s)) => w.cur <= End(s)
  <2>1. CASE n = 0
    <3>1. w.cur = s.addr
      BY <1>8, <2>1
    <3> QED
      BY <1>7, <3>1
  <2>2. CASE n # 0
    BY <1>10, <2>2
  <2> QED
    BY <2>1, <2>2
<1>22. \A i \in DOMAIN named : PieceIn(named[i], s)
  BY <1>17, <1>18
<1> QED
  BY <1>1, <1>19, <1>20, <1>21, <1>22 DEF I

-----------------------------------------------------------------------------
(* What each pass leaves.                                                  *)

\* The address after one: the next row's, or the binary's end.
NextAddr(a) == Min({b \in RowAddrs : a < b} \cup {Size})

\* A symbol made of a row is the last row's at its address, up to the next.
IsRowOf(x) ==
  /\ x.addr \in RowAddrs
  /\ x.name = rows[RowAt(x.addr)].name /\ x.mode = rows[RowAt(x.addr)].mode
  /\ x.std = rows[RowAt(x.addr)].std /\ x.section = Routed(RowAt(x.addr))
  /\ x.size = Least(rows[RowAt(x.addr)].size, NextAddr(x.addr) - x.addr)

\* A gap goes from the end of the row before it to the next row.
IsGap(i) ==
  /\ syms[i].name = None /\ syms[i].mode = "$a" /\ syms[i].size > 0
  /\ End(syms[i]) \in RowAddrs \cup {Size}
  /\ i = 1 => syms[i].section = Plain(".text") /\ \A a \in RowAddrs : End(syms[i]) <= a
  /\ i # 1 => /\ syms[i].section = syms[i - 1].section /\ ~syms[i - 1].pad
              /\ End(syms[i]) = NextAddr(syms[i - 1].addr)
Completed == \A i \in DOMAIN syms : IF syms[i].pad THEN IsGap(i) ELSE IsRowOf(syms[i])

\* The rows still to come are after those that have come.
Coming ==
  /\ todo \subseteq RowAddrs
  /\ \A a \in todo : cur <= a /\ \A b \in RowAddrs : a < b => b \in todo
  /\ \A a \in RowAddrs \ todo : \E i \in DOMAIN syms : ~syms[i].pad /\ syms[i].addr = a
  /\ Covers(syms, 0, cur)

\* A pool's symbol is after its function, with no other code in between.
InItsPool(x) ==
  x.section[1] = ".pool" =>
    \E i \in DOMAIN csv :
      /\ Code(csv[i]) /\ csv[i].addr <= x.addr /\ (csv[i].std => CutInBase(csv[i].name))
      /\ x.section = PoolOf(csv[i].name)
      /\ \A j \in DOMAIN csv : Code(csv[j]) => ~(csv[i].addr < csv[j].addr /\ csv[j].addr < End(x))

\* The section of a byte no row names, where the rows are apart.
NamedAt(b)  == \E i \in DOMAIN rows : rows[i].addr <= b /\ b < End(rows[i])
LabelsApart == RowsApart /\ (\A i \in DOMAIN rows : rows[i].addr \in LabelEnds => rows[i].size > 0)
RowsBefore(b) == {i \in DOMAIN rows : rows[i].addr <= b}
RowsAfter(b)  == {i \in DOMAIN rows : b < rows[i].addr /\ rows[i].addr < Size}
LastBefore(b) == CHOOSE i \in RowsBefore(b) : \A j \in RowsBefore(b) \ {i} : Precedes(j, i)
NextAfter(b)  == RowAt(Min({rows[i].addr : i \in RowsAfter(b)}))
WithinPool(b) == \E f \in Name : {Routed(LastBefore(b)), Routed(NextAfter(b))} = {PoolOf(f)}
GapSection(b) ==
  IF RowsBefore(b) = {} \/ Code(rows[LastBefore(b)]) THEN Plain(".text")
  ELSE IF rows[LastBefore(b)].segment = ".bss" THEN Plain(".bss")
  ELSE IF ~IsLabelIn(rows[LastBefore(b)]) THEN Skip
  ELSE IF RowsAfter(b) # {} /\ WithinPool(b) THEN Routed(LastBefore(b))
  ELSE Plain(".text")

\* A symbol's bytes are those of rows, or a gap's.
InItsPlace(x) ==
  \A b \in x.addr..(End(x) - 1) : NamedAt(b) \/ (LabelsApart => x.section = GapSection(b))

InPlace == \A i \in DOMAIN syms : InItsPool(syms[i]) /\ InItsPlace(syms[i])

CutInv ==
  /\ TypeOK /\ InputsOK
  /\ pc = "place" => syms = <<>> /\ cur = 0
  /\ pc # "place" => Placed
  /\ pc \in {"complete", "settle"} => Completed
  /\ pc = "complete" => Coming
  /\ pc \in {"settle", "cut"} => Covers(syms, 0, Size)
  /\ pc = "cut" => /\ InPlace
                   /\ \A i \in DOMAIN syms : IF syms[i].pad THEN syms[i].name = None ELSE IsRowOf(syms[i])
  /\ pc \in {"write", "written"} /\ ExtentsApart => InPlace /\ Covers(syms, 0, Size)
  /\ pc = "written" => runs = Layout

\* What depends on the inputs alone stays as they do.
LEMMA InputsStay ==
  ASSUME UNCHANGED inputs
  PROVE  /\ InputsOK' <=> InputsOK
         /\ Extents' = Extents /\ (ExtentsApart' <=> ExtentsApart)
         /\ \A k : (Inside(k)' <=> Inside(k)) /\ RowOf(k)' = RowOf(k) /\ Limit(k)' = Limit(k)
                   /\ EndOf(k)' = EndOf(k) /\ Resumed(k)' = Resumed(k)
         /\ \A n : Inner(n)' = Inner(n) /\ (CutInBase(n)' <=> CutInBase(n))
                   /\ (HasOwnSection(n)' <=> HasOwnSection(n)) /\ SectionInBase(n)' = SectionInBase(n)
         /\ Labels' = Labels
<1>1. csv' = csv /\ marks' = marks /\ decompiled' = decompiled /\ base' = base
  BY DEF inputs
<1>2. InputsOK' <=> InputsOK
  BY <1>1 DEF InputsOK
<1>3. Extents' = Extents
  BY <1>1 DEF Extents
<1>4. \A i, j : Before(i, j)' <=> Before(i, j)
  BY <1>1 DEF Before
<1>5. \A a : StartedBy(a)' = StartedBy(a)
  BY <1>1, <1>3 DEF StartedBy
<1>6. \A a : LastStarted(a)' = LastStarted(a)
  BY <1>4, <1>5 DEF LastStarted
<1>7. \A k : Inside(k)' <=> Inside(k)
  BY <1>1, <1>5, <1>6 DEF Inside
<1>8. \A k : RowOf(k)' = RowOf(k)
  BY <1>1, <1>6 DEF RowOf
<1>9. \A k : Limit(k)' = Limit(k)
  BY <1>1, <1>7, <1>8 DEF Limit
<1>10. \A k : EndOf(k)' = EndOf(k)
  BY <1>1, <1>9 DEF EndOf
<1>11. \A k : Resumed(k)' = Resumed(k)
  BY <1>1, <1>7, <1>8 DEF Resumed
<1>12. \A n : Inner(n)' = Inner(n)
  BY <1>1, <1>7, <1>8, <1>9, <1>10, <1>11 DEF Inner
<1>13. Labels' = Labels
  BY <1>1, <1>7, <1>10 DEF Labels
<1>14. \A n : CutInBase(n)' <=> CutInBase(n)
  BY <1>1 DEF CutInBase
<1>15. \A n : (HasOwnSection(n)' <=> HasOwnSection(n)) /\ SectionInBase(n)' = SectionInBase(n)
  BY <1>1 DEF HasOwnSection, SectionInBase
<1>16. ExtentsApart' <=> ExtentsApart
  BY <1>1, <1>3 DEF ExtentsApart
<1> QED
  BY <1>2, <1>3, <1>7, <1>8, <1>9, <1>10, <1>11, <1>12, <1>13, <1>14, <1>15, <1>16

\* And what depends on the rows as well.
LEMMA RowsStay ==
  ASSUME UNCHANGED inputs, UNCHANGED rows
  PROVE  /\ (Placed' <=> Placed)
         /\ \A i, j : Precedes(i, j)' <=> Precedes(i, j)
         /\ \A i : Owner(i)' = Owner(i) /\ Routed(i)' = Routed(i)
         /\ RowAddrs' = RowAddrs /\ LabelEnds' = LabelEnds /\ (RowsApart' <=> RowsApart)
         /\ \A a : RowAt(a)' = RowAt(a) /\ NextAddr(a)' = NextAddr(a)
         /\ \A b : (NamedAt(b)' <=> NamedAt(b)) /\ GapSection(b)' = GapSection(b)
         /\ (LabelsApart' <=> LabelsApart)
         /\ \A x : /\ IsRowOf(x)' <=> IsRowOf(x)
                   /\ InItsPool(x)' <=> InItsPool(x)
                   /\ InItsPlace(x)' <=> InItsPlace(x)
<1>1. csv' = csv /\ marks' = marks /\ decompiled' = decompiled /\ base' = base
  BY DEF inputs
<1>2. Placed' <=> Placed
  <2>1. (InputsOK' <=> InputsOK) /\ Labels' = Labels
    BY InputsStay
  <2> QED
    BY <1>1, <2>1 DEF Placed
<1>3. \A i, j : Precedes(i, j)' <=> Precedes(i, j)
  BY DEF Precedes
<1>4. \A i : CodeBefore(i)' = CodeBefore(i)
  BY <1>3 DEF CodeBefore
<1>5. \A is : LastOf(is)' = LastOf(is)
  BY <1>3 DEF LastOf
<1>6. \A i : Owner(i)' = Owner(i)
  BY <1>4, <1>5 DEF Owner
<1>7. \A i : Routed(i)' = Routed(i)
  <2>1. \A n : (HasOwnSection(n)' <=> HasOwnSection(n)) /\ SectionInBase(n)' = SectionInBase(n)
    BY InputsStay
  <2> QED
    BY <1>1, <1>6, <2>1 DEF Routed
<1>8. RowAddrs' = RowAddrs
  BY DEF RowAddrs
<1>9. LabelEnds' = LabelEnds
  BY DEF LabelEnds
<1>10. RowsApart' <=> RowsApart
  BY DEF RowsApart
<1>11. \A a : RowAt(a)' = RowAt(a)
  BY DEF RowAt
<1>12. \A a : NextAddr(a)' = NextAddr(a)
  BY <1>8 DEF NextAddr
<1>13. \A b : NamedAt(b)' <=> NamedAt(b)
  BY DEF NamedAt
<1>14. \A b : RowsBefore(b)' = RowsBefore(b)
  BY DEF RowsBefore
<1>15. \A b : RowsAfter(b)' = RowsAfter(b)
  BY DEF RowsAfter
<1>16. \A b : LastBefore(b)' = LastBefore(b)
  BY <1>3, <1>14 DEF LastBefore
<1>17. \A b : NextAfter(b)' = NextAfter(b)
  BY <1>11, <1>15 DEF NextAfter
<1>18. \A b : WithinPool(b)' <=> WithinPool(b)
  BY <1>7, <1>16, <1>17 DEF WithinPool
<1>19. \A b : GapSection(b)' = GapSection(b)
  BY <1>7, <1>14, <1>15, <1>16, <1>18 DEF GapSection
<1>20. LabelsApart' <=> LabelsApart
  BY <1>9, <1>10 DEF LabelsApart
<1>21. \A x : IsRowOf(x)' <=> IsRowOf(x)
  BY <1>7, <1>8, <1>11, <1>12 DEF IsRowOf
<1>22. \A x : InItsPool(x)' <=> InItsPool(x)
  BY <1>1, InputsStay DEF InItsPool
<1>23. \A x : InItsPlace(x)' <=> InItsPlace(x)
  BY <1>13, <1>19, <1>20 DEF InItsPlace
<1> QED
  BY <1>2, <1>3, <1>6, <1>7, <1>8, <1>9, <1>10, <1>11, <1>12, <1>13, <1>19, <1>20, <1>21, <1>22, <1>23

\* There is a next address after any in the binary.
LEMMA NextAddrIs ==
  ASSUME TargetCutAssumption, Placed, NEW a \in Nat, a < Size
  PROVE  /\ NextAddr(a) \in Nat /\ a < NextAddr(a) /\ NextAddr(a) <= Size
         /\ NextAddr(a) = Size \/ NextAddr(a) \in RowAddrs
         /\ \A b \in RowAddrs : a < b => NextAddr(a) <= b
<1> DEFINE S == {b \in RowAddrs : a < b} \cup {Size}
<1>1. Size \in Nat /\ \A b \in RowAddrs : b \in Nat /\ b < Size
  BY RowsTyped, InputsTyped DEF RowAddrs, Placed
<1>2. S \in SUBSET Nat /\ S # {}
  BY <1>1
<1>3. NextAddr(a) = Min(S)
  BY DEF NextAddr
<1>4. \A s \in S : s \in Nat /\ a < s /\ s <= Size /\ (s = Size \/ s \in RowAddrs)
  BY <1>1
<1>5. \A b \in RowAddrs : a < b => b \in S
  OBVIOUS
<1> HIDE DEF S
<1>6. Min(S) \in S /\ \A s \in S : Min(S) <= s
  BY <1>2, LeastIs
<1> QED
  BY <1>3, <1>4, <1>5, <1>6

\* One more symbol.
LEMMA AppendIs ==
  ASSUME NEW T, NEW s \in Seq(T), NEW x \in T
  PROVE  /\ Append(s, x) \in Seq(T) /\ Append(s, x) = s \o <<x>>
         /\ Len(s) \in Nat /\ DOMAIN s = 1..Len(s)
         /\ Len(Append(s, x)) = Len(s) + 1 /\ DOMAIN Append(s, x) = 1..(Len(s) + 1)
         /\ \A i \in 1..Len(s) : Append(s, x)[i] = s[i]
         /\ Append(s, x)[Len(s) + 1] = x
OBVIOUS

\* At first nothing is placed.
LEMMA InitCutInv ==
  ASSUME TargetCutAssumption, Init
  PROVE  CutInv
<1>1. InputsOK
  BY DEF Init, TargetCutAssumption, InputsOK
<1>2. TypeOK
  BY DEF Init, TypeOK, TargetCutAssumption
<1> QED
  BY <1>1, <1>2 DEF Init, CutInv

\* Placing the mapping rows leaves every row to come.
LEMMA PlaceMarkersCuts ==
  ASSUME TargetCutAssumption, CutInv, PlaceMarkers
  PROVE  CutInv'
<1>0. InputsOK /\ TypeOK /\ syms = <<>> /\ cur = 0 /\ pc = "place"
  BY DEF CutInv, PlaceMarkers
<1>1. /\ rows' = csv \o Labels /\ pc' = "complete"
      /\ todo' = {rows'[i].addr : i \in {i \in DOMAIN rows' : rows'[i].addr < Size}}
      /\ mapping' = {<<r[1], r[3]>> : r \in UNION {Inner(csv[i].name) : i \in Extents}}
      /\ UNCHANGED inputs /\ syms' = syms /\ cur' = cur /\ runs' = runs
  BY DEF PlaceMarkers
<1>2. Placed'
  <2>1. csv' = csv
    BY <1>1 DEF inputs
  <2>2. InputsOK' /\ Labels' = Labels
    BY <1>0, <1>1, InputsStay
  <2> QED
    BY <1>1, <2>1, <2>2 DEF Placed
<1>3. rows' \in Seq(Row)
  BY <1>0, <1>1, BothHold, InputsTyped, LabelIs
<1>4. todo' = RowAddrs'
  BY <1>1 DEF RowAddrs
<1>5. Size \in Nat /\ cur \in 0..Size
  BY <1>0 DEF TypeOK, TargetCutAssumption
<1>6. todo' \subseteq 0..Size
  <2>1. \A i \in DOMAIN rows' : rows'[i] \in Row
    BY <1>3, ElementOf
  <2>2. \A i \in DOMAIN rows' : rows'[i].addr \in Nat
    BY <2>1, RowTyped
  <2> QED
    BY <1>1, <1>5, <2>2
<1>7. mapping' \subseteq (0..Size) \X Mode
  <2>1. ASSUME NEW i \in Extents, NEW r \in Inner(csv[i].name)
        PROVE  <<r[1], r[3]>> \in (0..Size) \X Mode
    <3>1. r[1] \in Nat /\ r[2] \in Nat /\ r[3] \in Mode /\ r[1] < r[2] /\ r[2] <= Size
      BY <1>0, InnerIs
    <3> QED
      BY <1>5, <3>1
  <2>2. \A r \in UNION {Inner(csv[i].name) : i \in Extents} : <<r[1], r[3]>> \in (0..Size) \X Mode
    BY <2>1
  <2> HIDE DEF Mode
  <2> QED
    BY <1>1, <2>2
<1>8. TypeOK'
  BY <1>0, <1>1, <1>3, <1>6, <1>7 DEF TypeOK
<1>9. Completed'
  BY <1>0, <1>1 DEF Completed
<1>10. Coming'
  <2>1. Covers(<<>>, 0, 0)
    BY DEF Covers
  <2>2. \A a \in todo' : 0 <= a
    BY <1>5, <1>6
  <2>3. \A a \in todo' : cur' <= a /\ \A b \in RowAddrs' : a < b => b \in todo'
    BY <1>0, <1>1, <1>4, <2>2
  <2> QED
    BY <1>0, <1>1, <1>4, <2>1, <2>3 DEF Coming
<1>11. InputsOK'
  BY <1>2 DEF Placed
<1> QED
  BY <1>1, <1>2, <1>8, <1>9, <1>10, <1>11 DEF CutInv

\* A symbol is made of the row it comes to, up to the next.
LEMMA CompleteSymbolCuts ==
  ASSUME TargetCutAssumption, CutInv, CompleteSymbol
  PROVE  CutInv'
<1> DEFINE i == RowAt(cur)
           next == Min((todo \ {cur}) \cup {Size})
           size == SizeOf(rows[i], next)
           x == [name |-> rows[i].name, addr |-> cur, size |-> size, section |-> Routed(i),
                 mode |-> rows[i].mode, std |-> rows[i].std, pad |-> FALSE]
           n == Len(syms)
<1>0. InputsOK /\ TypeOK /\ Placed /\ Completed /\ Coming /\ pc = "complete"
  BY DEF CutInv, CompleteSymbol
<1>1. /\ todo # {} /\ cur = Min(todo)
      /\ syms' = Append(syms, x) /\ cur' = cur + size /\ todo' = todo \ {cur}
      /\ UNCHANGED inputs /\ pc' = pc /\ rows' = rows /\ mapping' = mapping /\ runs' = runs
  BY DEF CompleteSymbol
<1>2. Size \in Nat /\ cur \in 0..Size /\ todo \subseteq 0..Size /\ syms \in Seq(Symbol)
  BY <1>0 DEF TypeOK, TargetCutAssumption
<1>3. cur \in todo /\ cur \in RowAddrs
  <2>1. todo \in SUBSET Nat
    BY <1>2
  <2> QED
    BY <1>0, <1>1, <2>1, LeastIs DEF Coming
<1>4. i \in DOMAIN rows /\ rows[i].addr = cur /\ cur \in Nat /\ cur < Size
  BY <1>0, <1>3, RowAtIs
<1>5. /\ rows[i].size \in Nat /\ rows[i].name \in Name \cup {None} /\ rows[i].mode \in Mode
      /\ rows[i].std \in BOOLEAN /\ Routed(i) \in Section
  <2>1. rows[i] \in Row
    BY <1>0, <1>4, RowsTyped
  <2>2. Routed(i) \in Section
    BY <1>0, <1>4, RoutedTyped
  <2> HIDE DEF i
  <2> QED
    BY <2>1, <2>2, RowTyped
<1>6. \A a \in RowAddrs : a \in Nat
  BY <1>0, RowsTyped DEF RowAddrs
<1>7. next = NextAddr(cur)
  <2>1. \A b \in RowAddrs : cur < b => b \in todo /\ b # cur
    BY <1>0, <1>3, <1>4 DEF Coming
  <2>2. \A b \in todo : b \in RowAddrs /\ (b # cur => cur < b)
    <3>1. \A b \in todo : b \in RowAddrs /\ cur <= b
      BY <1>0 DEF Coming
    <3> QED
      BY <1>4, <1>6, <3>1
  <2>3. (todo \ {cur}) \cup {Size} = {b \in RowAddrs : cur < b} \cup {Size}
    BY <2>1, <2>2
  <2> QED
    BY <2>3 DEF NextAddr
<1>8. /\ next \in Nat /\ cur < next /\ next <= Size
      /\ \A b \in RowAddrs : cur < b => next <= b
  BY <1>0, <1>4, <1>7, NextAddrIs
<1> HIDE DEF next
<1>9. size = Least(rows[i].size, next - cur)
  BY DEF SizeOf
<1>10. size \in Nat /\ cur + size <= next
  <2> DEFINE s == rows[i].size
  <2>1. s \in Nat
    BY <1>5
  <2> HIDE DEF s, size, i
  <2>2. size = Least(s, next - cur)
    BY <1>9 DEF s
  <2> QED
    BY <1>4, <1>8, <2>1, <2>2 DEF Least
<1> HIDE DEF size, i
<1>11. x \in Symbol
  BY <1>4, <1>5, <1>10 DEF Symbol
<1>12. x.addr = cur /\ x.size = size /\ ~x.pad /\ End(x) = cur + size
  BY DEF End
<1>13. IsRowOf(x)
  BY <1>3, <1>7, <1>9 DEF IsRowOf, i
<1> HIDE DEF x
<1>14. /\ syms' \in Seq(Symbol) /\ syms' = syms \o <<x>>
       /\ n \in Nat /\ DOMAIN syms = 1..n /\ DOMAIN syms' = 1..(n + 1)
       /\ \A j \in 1..n : syms'[j] = syms[j]
       /\ syms'[n + 1] = x
  BY <1>1, <1>2, <1>11, AppendIs
<1> HIDE DEF n
<1>15. TypeOK'
  <2>1. cur' \in 0..Size
    BY <1>1, <1>2, <1>4, <1>8, <1>10
  <2>2. todo' \subseteq 0..Size
    BY <1>1, <1>2
  <2> QED
    BY <1>0, <1>1, <1>14, <2>1, <2>2 DEF TypeOK
<1>16. /\ Placed' /\ RowAddrs' = RowAddrs /\ \A a : NextAddr(a)' = NextAddr(a)
       /\ \A y : IsRowOf(y)' <=> IsRowOf(y)
  BY <1>0, <1>1, RowsStay
<1>17. Completed'
  <2>1. ASSUME NEW j \in DOMAIN syms' PROVE (IF syms[j].pad THEN IsGap(j) ELSE IsRowOf(syms[j]))'
    <3>1. CASE j = n + 1
      BY <1>12, <1>13, <1>14, <1>16, <3>1
    <3>2. CASE j \in 1..n
      <4>1. syms'[j] = syms[j] /\ j \in DOMAIN syms
        BY <1>14, <3>2
      <4>2. CASE syms[j].pad
        <5>1. IsGap(j)
          BY <1>0, <4>1, <4>2 DEF Completed
        <5>2. j # 1 => j - 1 \in 1..n
          BY <1>14, <3>2
        <5>3. j # 1 => syms'[j - 1] = syms[j - 1]
          BY <1>14, <5>2
        <5>4. IsGap(j)'
          BY <1>16, <4>1, <5>1, <5>3 DEF IsGap
        <5> QED
          BY <4>1, <4>2, <5>4
      <4>3. CASE ~syms[j].pad
        <5>1. IsRowOf(syms[j])
          BY <1>0, <4>1, <4>3 DEF Completed
        <5> QED
          BY <1>16, <4>1, <4>3, <5>1
      <4> QED
        BY <4>2, <4>3
    <3> QED
      BY <1>14, <2>1, <3>1, <3>2
  <2> QED
    BY <2>1 DEF Completed
<1>18. Coming'
  <2>1. Covers(syms', 0, cur')
    <3>1. Covers(syms, 0, cur)
      BY <1>0 DEF Coming
    <3>2. <<x>> \in Seq(Symbol) /\ Covers(<<x>>, cur, cur + size)
      BY <1>11, <1>12, CoversOne
    <3>3. Covers(syms \o <<x>>, 0, cur + size)
      BY <1>2, <3>1, <3>2, CoversBoth
    <3> QED
      BY <1>1, <1>14, <3>3
  <2>2. ASSUME NEW a \in todo' PROVE cur' <= a /\ \A b \in RowAddrs : a < b => b \in todo'
    <3>1. a \in todo /\ a # cur /\ a \in RowAddrs /\ a \in Nat /\ cur <= a
      BY <1>0, <1>1, <1>6, <2>2 DEF Coming
    <3>2. cur < a /\ next <= a
      BY <1>4, <1>8, <3>1
    <3>3. cur' <= a
      BY <1>1, <1>4, <1>8, <1>10, <3>1, <3>2
    <3>4. ASSUME NEW b \in RowAddrs, a < b PROVE b \in todo'
      <4>1. b \in todo /\ b \in Nat
        BY <1>0, <1>6, <3>1, <3>4 DEF Coming
      <4>2. b # cur
        BY <1>4, <3>1, <3>2, <3>4, <4>1
      <4> QED
        BY <1>1, <4>1, <4>2
    <3> QED
      BY <3>3, <3>4
  <2>3. ASSUME NEW a \in RowAddrs \ todo' PROVE \E j \in DOMAIN syms' : ~syms'[j].pad /\ syms'[j].addr = a
    <3>1. CASE a = cur
      <4>1. n + 1 \in DOMAIN syms'
        BY <1>14
      <4> QED
        BY <1>12, <1>14, <3>1, <4>1
    <3>2. CASE a # cur
      <4>1. a \in RowAddrs \ todo
        BY <1>1, <2>3, <3>2
      <4>2. PICK j \in DOMAIN syms : ~syms[j].pad /\ syms[j].addr = a
        BY <1>0, <4>1 DEF Coming
      <4>3. j \in 1..n /\ j \in 1..(n + 1)
        BY <1>14, <4>2
      <4> QED
        BY <1>14, <4>2, <4>3
    <3> QED
      BY <3>1, <3>2
  <2>4. todo' \subseteq RowAddrs
    BY <1>0, <1>1 DEF Coming
  <2> QED
    BY <1>16, <2>1, <2>2, <2>3, <2>4 DEF Coming
<1>19. InputsOK' /\ pc' = "complete"
  BY <1>0, <1>1, <1>16 DEF Placed
<1> QED
  BY <1>15, <1>16, <1>17, <1>18, <1>19 DEF CutInv

\* A gap is filled up to the row to come.
LEMMA CompleteGapCuts ==
  ASSUME TargetCutAssumption, CutInv, CompleteGap
  PROVE  CutInv'
<1> DEFINE next == Min(todo \cup {Size})
           x == Gap(next - cur)
           n == Len(syms)
           p == syms[n]
<1>0. InputsOK /\ TypeOK /\ Placed /\ Completed /\ Coming /\ pc = "complete"
  BY DEF CutInv, CompleteGap
<1>1. /\ cur < next /\ syms' = Append(syms, x) /\ cur' = next
      /\ UNCHANGED inputs /\ pc' = pc /\ rows' = rows /\ todo' = todo /\ mapping' = mapping /\ runs' = runs
  BY DEF CompleteGap
<1>2. Size \in Nat /\ cur \in 0..Size /\ todo \subseteq 0..Size /\ syms \in Seq(Symbol)
  BY <1>0 DEF TypeOK, TargetCutAssumption
<1>3. /\ next \in Nat /\ next <= Size /\ (next \in todo \/ next = Size) /\ \A a \in todo : next <= a
  <2>1. todo \cup {Size} \in SUBSET Nat /\ todo \cup {Size} # {} /\ \A a \in todo : a \in Nat
    BY <1>2
  <2>2. next \in todo \cup {Size} /\ \A a \in todo \cup {Size} : next <= a
    BY <2>1, LeastIs
  <2> QED
    BY <1>2, <2>1, <2>2
<1> HIDE DEF next
<1>4. cur \in Nat /\ cur < next /\ cur \notin todo /\ next - cur \in Nat /\ next - cur > 0 /\ cur + (next - cur) = next
  BY <1>1, <1>2, <1>3
<1>5. \A a \in RowAddrs : a \in Nat /\ a < Size
  BY <1>0, RowsTyped DEF RowAddrs
<1>6. /\ n \in Nat /\ DOMAIN syms = 1..n /\ \A i \in 1..n : syms[i] \in Symbol
      /\ (syms = <<>> <=> n = 0)
  BY <1>2
<1>7. LastSection \in Section /\ GapIsStd \in BOOLEAN
  <2>1. Plain(".text") \in Section
    BY DEF Section, Plain
  <2>2. n # 0 => syms[n] \in Symbol
    BY <1>6
  <2>3. n # 0 => syms[n].section \in Section
    BY <2>2 DEF Symbol
  <2>4. LastSection \in Section
    BY <1>6, <2>1, <2>3 DEF LastSection
  <2>5. GapIsStd \in BOOLEAN
    <3> DEFINE A == syms # <<>>
               B == syms[Len(syms)].std
               C == todo # {} /\ rows[RowAt(Min(todo))].std
    <3>1. CASE A /\ todo # {}
      <4>1. syms[n].std \in BOOLEAN
        BY <1>6, <2>2, <3>1 DEF Symbol
      <4>2. Min(todo) \in todo
        <5>1. todo \in SUBSET Nat
          BY <1>2
        <5> QED
          BY <3>1, <5>1, LeastIs
      <4>3. Min(todo) \in RowAddrs
        BY <1>0, <4>2 DEF Coming
      <4>4. rows[RowAt(Min(todo))] \in Row
        BY <1>0, <4>3, RowAtIs, RowsTyped
      <4>5. rows[RowAt(Min(todo))].std \in BOOLEAN
        BY <4>4, RowTyped
      <4> QED
        BY <3>1, <4>1, <4>5 DEF GapIsStd
    <3>2. CASE ~A \/ todo = {}
      BY <3>2 DEF GapIsStd
    <3> QED
      BY <3>1, <3>2
  <2> QED
    BY <2>4, <2>5
<1>8. /\ x \in Symbol /\ x.addr = cur /\ x.size = next - cur /\ x.pad /\ x.name = None /\ x.mode = "$a"
      /\ x.section = LastSection
  BY <1>4, <1>7 DEF Gap, Symbol, Mode
<1> HIDE DEF x
<1>9. End(x) = next /\ x.size > 0
  BY <1>4, <1>8 DEF End
<1>10. /\ syms' \in Seq(Symbol) /\ syms' = syms \o <<x>> /\ DOMAIN syms' = 1..(n + 1)
       /\ \A j \in 1..n : syms'[j] = syms[j]
       /\ syms'[n + 1] = x
  BY <1>1, <1>2, <1>8, AppendIs
<1>11. Covers(syms, 0, cur)
  BY <1>0 DEF Coming
<1>12. n = 0 => \A a \in RowAddrs : next <= a
  <2> SUFFICES ASSUME n = 0, NEW a \in RowAddrs PROVE next <= a
    OBVIOUS
  <2>1. a \in todo
    BY <1>0, <1>6 DEF Coming
  <2> QED
    BY <1>3, <2>1
<1>13. n # 0 => /\ p \in Symbol /\ p.addr \in Nat /\ p.addr <= cur /\ End(p) = cur
                /\ \A a \in RowAddrs \ todo : a <= p.addr
  <2> SUFFICES ASSUME n # 0
               PROVE  /\ p \in Symbol /\ p.addr \in Nat /\ p.addr <= cur /\ End(p) = cur
                      /\ \A a \in RowAddrs \ todo : a <= p.addr
    OBVIOUS
  <2>0. n \in 1..n
    BY <1>6
  <2>1. p \in Symbol /\ End(p) = cur
    BY <1>6, <1>11, <2>0 DEF Covers
  <2>2. p.addr \in Nat /\ p.size \in Nat /\ End(p) = p.addr + p.size
    BY <2>1, SymbolTyped
  <2>3. ASSUME NEW a \in RowAddrs \ todo PROVE a <= p.addr
    <3>1. PICK j \in 1..n : ~syms[j].pad /\ syms[j].addr = a
      BY <1>0, <1>6 DEF Coming
    <3>2. syms[j].addr \in Nat /\ syms[j].size \in Nat /\ End(syms[j]) \in Nat
          /\ End(syms[j]) = syms[j].addr + syms[j].size
      BY <1>6, <3>1, SymbolTyped
    <3>3. j < n => End(syms[j]) <= p.addr
      BY <1>2, <1>11, <2>0, <3>1, CoversInOrder
    <3> HIDE DEF n, p
    <3>4. j < n \/ j = n
      BY <1>6
    <3>5. CASE j < n
      BY <2>2, <3>1, <3>2, <3>3, <3>5
    <3>6. CASE j = n
      BY <2>2, <3>1, <3>6 DEF p
    <3> QED
      BY <3>4, <3>5, <3>6
  <2>4. p.addr <= cur
    BY <2>1, <2>2
  <2> QED
    BY <2>1, <2>2, <2>3, <2>4
<1>14. n # 0 => ~p.pad
  <2> SUFFICES ASSUME n # 0, p.pad PROVE FALSE
    OBVIOUS
  <2>1. n \in DOMAIN syms
    BY <1>6
  <2>2. p.size > 0 /\ End(p) \in RowAddrs \cup {Size}
    BY <1>0, <2>1 DEF Completed, IsGap
  <2>3. cur \in RowAddrs \ todo
    BY <1>3, <1>4, <1>13, <2>2
  <2>4. cur <= p.addr
    BY <1>13, <2>3
  <2>5. p.addr \in Nat /\ p.size \in Nat /\ End(p) = p.addr + p.size
    BY <1>13, SymbolTyped
  <2> HIDE DEF p
  <2> QED
    BY <1>4, <1>13, <2>2, <2>4, <2>5
<1>15. n # 0 => next = NextAddr(p.addr)
  <2> SUFFICES ASSUME n # 0 PROVE next = NextAddr(p.addr)
    OBVIOUS
  <2>1. \A b \in RowAddrs : p.addr < b => b \in todo
    <3> SUFFICES ASSUME NEW b \in RowAddrs, p.addr < b, b \notin todo PROVE FALSE
      OBVIOUS
    <3>1. b <= p.addr /\ b \in Nat /\ p.addr \in Nat
      BY <1>5, <1>13
    <3> HIDE DEF p
    <3> QED
      BY <3>1
  <2>2. \A b \in todo : b \in RowAddrs /\ p.addr < b
    <3> TAKE b \in todo
    <3>1. b \in RowAddrs /\ next <= b
      BY <1>0, <1>3 DEF Coming
    <3>2. b \in Nat /\ p.addr \in Nat /\ p.addr <= cur
      BY <1>5, <1>13, <3>1
    <3> HIDE DEF p
    <3> QED
      BY <1>3, <1>4, <3>1, <3>2
  <2>3. todo \cup {Size} = {b \in RowAddrs : p.addr < b} \cup {Size}
    BY <2>1, <2>2
  <2> QED
    BY <2>3 DEF NextAddr, next
<1>16. /\ Placed' /\ RowAddrs' = RowAddrs /\ \A a : NextAddr(a)' = NextAddr(a)
       /\ \A y : IsRowOf(y)' <=> IsRowOf(y)
  BY <1>0, <1>1, RowsStay
<1>17. n # 0 => LastSection = p.section
  BY <1>6 DEF LastSection
<1>18. n = 0 => LastSection = Plain(".text")
  BY <1>6 DEF LastSection
<1>19. next \in RowAddrs \cup {Size}
  BY <1>0, <1>3 DEF Coming
<1> HIDE DEF n, p
<1>20. TypeOK'
  <2>1. cur' \in 0..Size
    BY <1>1, <1>2, <1>3
  <2> QED
    BY <1>0, <1>1, <1>10, <2>1 DEF TypeOK
<1>21. Completed'
  <2>1. ASSUME NEW j \in DOMAIN syms' PROVE (IF syms[j].pad THEN IsGap(j) ELSE IsRowOf(syms[j]))'
    <3>1. CASE j = n + 1
      <4>1. syms'[j] = x
        BY <1>10, <3>1
      <4>2. CASE n = 0
        <5>1. j = 1
          BY <3>1, <4>2
        <5>2. IsGap(j)'
          BY <1>8, <1>9, <1>12, <1>16, <1>18, <1>19, <4>1, <4>2, <5>1 DEF IsGap
        <5> QED
          BY <1>8, <4>1, <5>2
      <4>3. CASE n # 0
        <5>1. j # 1 /\ j - 1 = n /\ n \in 1..n
          BY <1>6, <3>1, <4>3
        <5>2. syms'[j - 1] = p
          BY <1>10, <5>1 DEF p
        <5>3. ~p.pad /\ next = NextAddr(p.addr) /\ LastSection = p.section
          BY <1>14, <1>15, <1>17, <4>3
        <5>4. NextAddr(syms[j - 1].addr)' = NextAddr(p.addr)
          BY <1>16, <5>2
        <5>5. IsGap(j)'
          BY <1>8, <1>9, <1>16, <1>19, <4>1, <5>1, <5>2, <5>3, <5>4 DEF IsGap
        <5> QED
          BY <1>8, <4>1, <5>5
      <4> QED
        BY <4>2, <4>3
    <3>2. CASE j \in 1..n
      <4>1. syms'[j] = syms[j] /\ j \in DOMAIN syms
        BY <1>6, <1>10, <3>2
      <4>2. CASE syms[j].pad
        <5>1. IsGap(j)
          BY <1>0, <4>1, <4>2 DEF Completed
        <5>2. j # 1 => j - 1 \in 1..n
          BY <1>6, <3>2
        <5>3. j # 1 => syms'[j - 1] = syms[j - 1]
          BY <1>10, <5>2
        <5>4. IsGap(j)'
          BY <1>16, <4>1, <5>1, <5>3 DEF IsGap
        <5> QED
          BY <4>1, <4>2, <5>4
      <4>3. CASE ~syms[j].pad
        <5>1. IsRowOf(syms[j])
          BY <1>0, <4>1, <4>3 DEF Completed
        <5> QED
          BY <1>16, <4>1, <4>3, <5>1
      <4> QED
        BY <4>2, <4>3
    <3>3. j = n + 1 \/ j \in 1..n
      BY <1>6, <1>10, <2>1
    <3> QED
      BY <3>1, <3>2, <3>3
  <2> QED
    BY <2>1 DEF Completed
<1>22. Coming'
  <2>1. Covers(syms', 0, cur')
    <3>2. <<x>> \in Seq(Symbol) /\ Covers(<<x>>, cur, next)
      BY <1>8, <1>9, CoversOne
    <3>3. Covers(syms \o <<x>>, 0, next)
      BY <1>2, <1>11, <3>2, CoversBoth
    <3> QED
      BY <1>1, <1>10, <3>3
  <2>2. \A a \in todo' : cur' <= a /\ \A b \in RowAddrs : a < b => b \in todo'
    BY <1>0, <1>1, <1>3 DEF Coming
  <2>3. ASSUME NEW a \in RowAddrs \ todo' PROVE \E j \in DOMAIN syms' : ~syms'[j].pad /\ syms'[j].addr = a
    <3>1. a \in RowAddrs \ todo
      BY <1>1, <2>3
    <3>2. PICK j \in DOMAIN syms : ~syms[j].pad /\ syms[j].addr = a
      BY <1>0, <3>1 DEF Coming
    <3>3. j \in 1..n /\ j \in 1..(n + 1)
      BY <1>6, <3>2
    <3> QED
      BY <1>10, <3>2, <3>3
  <2>4. todo' \subseteq RowAddrs
    BY <1>0, <1>1 DEF Coming
  <2> QED
    BY <1>16, <2>1, <2>2, <2>3, <2>4 DEF Coming
<1>23. InputsOK' /\ pc' = "complete"
  BY <1>0, <1>1, <1>16 DEF Placed
<1> QED
  BY <1>16, <1>20, <1>21, <1>22, <1>23 DEF CutInv

\* Once no row is to come the whole binary is covered.
LEMMA CompleteEndsCuts ==
  ASSUME TargetCutAssumption, CutInv, CompleteEnds
  PROVE  CutInv'
<1>0. InputsOK /\ TypeOK /\ Placed /\ Completed /\ Coming /\ pc = "complete"
  BY DEF CutInv, CompleteEnds
<1>1. /\ todo = {} /\ cur >= Size /\ pc' = "settle" /\ UNCHANGED inputs
      /\ rows' = rows /\ syms' = syms /\ cur' = cur /\ todo' = todo /\ mapping' = mapping /\ runs' = runs
  BY DEF CompleteEnds
<1>2. cur = Size
  BY <1>0, <1>1 DEF TypeOK, TargetCutAssumption
<1>3. Covers(syms', 0, Size)
  BY <1>0, <1>1, <1>2 DEF Coming
<1>4. TypeOK'
  BY <1>0, <1>1 DEF TypeOK
<1>5. /\ Placed' /\ RowAddrs' = RowAddrs /\ \A a : NextAddr(a)' = NextAddr(a)
      /\ \A y : IsRowOf(y)' <=> IsRowOf(y)
  BY <1>0, <1>1, RowsStay
<1>6. Completed'
  <2>1. \A j : IsGap(j)' <=> IsGap(j)
    BY <1>1, <1>5 DEF IsGap
  <2> QED
    BY <1>0, <1>1, <1>5, <2>1 DEF Completed
<1>7. InputsOK'
  BY <1>5 DEF Placed
<1> QED
  BY <1>1, <1>3, <1>4, <1>5, <1>6, <1>7 DEF CutInv

-----------------------------------------------------------------------------
(* Rows and gaps are in their sections.                                    *)

\* A row's symbol ends with the row, or where the next begins.
LEMMA RowOfIs ==
  ASSUME TargetCutAssumption, Placed, NEW x \in Symbol, IsRowOf(x)
  PROVE  /\ RowAt(x.addr) \in DOMAIN rows /\ rows[RowAt(x.addr)].addr = x.addr
         /\ x.addr \in Nat /\ x.addr < Size
         /\ rows[RowAt(x.addr)].size \in Nat /\ End(rows[RowAt(x.addr)]) \in Nat
         /\ NextAddr(x.addr) \in Nat /\ x.addr < NextAddr(x.addr) /\ NextAddr(x.addr) <= Size
         /\ \A b \in RowAddrs : x.addr < b => NextAddr(x.addr) <= b
         /\ NextAddr(x.addr) = Size \/ NextAddr(x.addr) \in RowAddrs
         /\ End(x) <= End(rows[RowAt(x.addr)]) /\ End(x) <= NextAddr(x.addr)
         /\ End(x) = End(rows[RowAt(x.addr)]) \/ End(x) = NextAddr(x.addr)
<1> DEFINE q == RowAt(x.addr)
           r == rows[q]
           N == NextAddr(x.addr)
<1>1. /\ q \in DOMAIN rows /\ r.addr = x.addr /\ x.addr \in Nat /\ x.addr < Size
      /\ x.size = Least(r.size, N - x.addr)
  BY RowAtIs DEF IsRowOf
<1>2. r.size \in Nat /\ r.addr \in Nat /\ End(r) = r.addr + r.size
  <2>1. r \in Row
    BY <1>1, RowsTyped
  <2> HIDE DEF r
  <2> QED
    BY <2>1, RowTyped
<1>3. /\ N \in Nat /\ x.addr < N /\ N <= Size
      /\ \A b \in RowAddrs : x.addr < b => N <= b
      /\ N = Size \/ N \in RowAddrs
  BY <1>1, NextAddrIs
<1>4. End(x) = x.addr + x.size
  BY DEF End
<1> HIDE DEF q, r, N
<1>5. End(r) \in Nat /\ End(x) <= End(r) /\ End(x) <= N /\ (End(x) = End(r) \/ End(x) = N)
  BY <1>1, <1>2, <1>3, <1>4 DEF Least
<1> QED
  BY <1>1, <1>2, <1>3, <1>5 DEF q, r, N

\* No code comes between a function and a label it owns.
LEMMA OwnsUpTo ==
  ASSUME TargetCutAssumption, Placed, NEW a \in RowAddrs, IsLabelIn(rows[RowAt(a)]),
         NEW j \in DOMAIN csv, OwnedBy(RowAt(a), j),
         NEW l \in DOMAIN csv, Code(csv[l]), csv[j].addr < csv[l].addr
  PROVE  a < csv[l].addr
<1> DEFINE q == RowAt(a)
<1>1. /\ q \in DOMAIN rows /\ rows[q].addr = a /\ a \in Nat
      /\ \A i \in DOMAIN rows : rows[i].addr = a => i <= q
  BY RowAtIs
<1>2. /\ j \in DOMAIN rows /\ rows[j] = csv[j] /\ l \in DOMAIN rows /\ rows[l] = csv[l]
      /\ csv[j].addr \in Nat /\ csv[l].addr \in Nat /\ q \in Nat /\ l \in Nat /\ j \in Nat
  BY <1>1, RowsTyped, InputsTyped DEF Placed
<1>3. j \in CodeBefore(q) /\ \A i \in CodeBefore(q) \ {j} : Precedes(i, j)
  BY DEF OwnedBy
<1>4. rows[l].segment = ".text" /\ rows[l].mode # "$d" /\ rows[q].mode = "$d"
  BY <1>2 DEF Code, IsLabelIn
<1> HIDE DEF q
<1>5. SUFFICES ASSUME csv[l].addr <= a PROVE FALSE
  BY <1>1, <1>2
<1>6. Precedes(l, q)
  <2>1. csv[l].addr = a => l <= q /\ l # q
    BY <1>1, <1>2, <1>4
  <2> QED
    BY <1>1, <1>2, <1>5, <2>1 DEF Precedes
<1>7. l \in CodeBefore(q) /\ l # j
  BY <1>2, <1>4, <1>6 DEF CodeBefore
<1>8. Precedes(l, j)
  BY <1>3, <1>7
<1> QED
  BY <1>2, <1>8 DEF Precedes

\* What is routed to a pool is a label, of the function before it.
LEMMA PooledIs ==
  ASSUME TargetCutAssumption, Placed, NEW a \in RowAddrs, Routed(RowAt(a))[1] = ".pool"
  PROVE  /\ IsLabelIn(rows[RowAt(a)])
         /\ \E j \in DOMAIN csv : /\ Code(csv[j]) /\ csv[j].addr <= a /\ ~csv[j].std
                                  /\ csv[j].name \in Name /\ Routed(RowAt(a)) = PoolOf(csv[j].name)
                                  /\ OwnedBy(RowAt(a), j)
<1> DEFINE q == RowAt(a)
<1>1. q \in DOMAIN rows /\ rows[q].addr = a /\ a \in Nat
  BY RowAtIs
<1>2. IsLabelIn(rows[q]) /\ Owner(q) # None /\ Routed(q) = PoolOf(Owner(q))
  BY <1>1, RoutedIs DEF Skip, Plain, DataSegments
<1>3. PICK j \in DOMAIN csv : rows[j] = csv[j] /\ csv[j].name \in Name /\ OwnedBy(q, j)
  BY <1>1, <1>2, OwnerIs
<1>4. /\ rows[j].segment = ".text" /\ rows[j].mode # "$d" /\ Precedes(j, q)
      /\ ~rows[j].std /\ Owner(q) = rows[j].name
  BY <1>3 DEF OwnedBy, CodeBefore
<1>5. csv[j].addr \in Nat
  BY InputsTyped DEF Placed
<1>6. csv[j].addr <= a
  BY <1>1, <1>3, <1>4, <1>5 DEF Precedes
<1> QED
  BY <1>2, <1>3, <1>4, <1>6 DEF Code

\* A row's symbol is in its place.
LEMMA RowInPlace ==
  ASSUME TargetCutAssumption, Placed, NEW x \in Symbol, IsRowOf(x)
  PROVE  InItsPool(x) /\ InItsPlace(x)
<1> DEFINE q == RowAt(x.addr)
<1>1. /\ q \in DOMAIN rows /\ rows[q].addr = x.addr /\ x.addr \in RowAddrs
      /\ x.addr \in Nat /\ x.section = Routed(q)
      /\ End(x) <= End(rows[q]) /\ End(rows[q]) \in Nat
      /\ NextAddr(x.addr) \in Nat /\ End(x) <= NextAddr(x.addr) /\ NextAddr(x.addr) <= Size
      /\ \A b \in RowAddrs : x.addr < b => NextAddr(x.addr) <= b
  BY RowOfIs DEF IsRowOf
<1>2. InItsPlace(x)
  <2>1. ASSUME NEW b \in x.addr..(End(x) - 1) PROVE NamedAt(b)
    <3>1. End(x) \in Nat
      BY SymbolTyped
    <3>2. rows[q].addr <= b /\ b < End(rows[q])
      BY <1>1, <2>1, <3>1
    <3> QED
      BY <1>1, <3>2 DEF NamedAt
  <2> QED
    BY <2>1 DEF InItsPlace
<1>3. InItsPool(x)
  <2> SUFFICES ASSUME x.section[1] = ".pool"
               PROVE  \E i \in DOMAIN csv :
                        /\ Code(csv[i]) /\ csv[i].addr <= x.addr /\ (csv[i].std => CutInBase(csv[i].name))
                        /\ x.section = PoolOf(csv[i].name)
                        /\ \A l \in DOMAIN csv : Code(csv[l]) => ~(csv[i].addr < csv[l].addr /\ csv[l].addr < End(x))
    BY DEF InItsPool
  <2>1. IsLabelIn(rows[q])
    BY <1>1, PooledIs
  <2>2. PICK j \in DOMAIN csv :
          /\ Code(csv[j]) /\ csv[j].addr <= x.addr /\ ~csv[j].std
          /\ x.section = PoolOf(csv[j].name) /\ OwnedBy(q, j)
    BY <1>1, PooledIs
  <2>3. ASSUME NEW l \in DOMAIN csv, Code(csv[l]), csv[j].addr < csv[l].addr, csv[l].addr < End(x)
        PROVE  FALSE
    <3>1. x.addr < csv[l].addr
      BY <1>1, <2>1, <2>2, <2>3, OwnsUpTo
    <3>2. l \in DOMAIN rows /\ rows[l] = csv[l] /\ csv[l].addr \in Nat
      BY RowsTyped, InputsTyped DEF Placed
    <3>3. End(x) \in Nat /\ Size \in Nat
      BY SymbolTyped DEF TargetCutAssumption
    <3>4. csv[l].addr < Size
      BY <1>1, <2>3, <3>2, <3>3
    <3>5. csv[l].addr \in RowAddrs
      BY <3>2, <3>4 DEF RowAddrs
    <3>6. NextAddr(x.addr) <= csv[l].addr
      BY <1>1, <3>1, <3>5
    <3> QED
      BY <1>1, <2>3, <3>2, <3>3, <3>6
  <2> QED
    BY <2>2, <2>3
<1> QED
  BY <1>2, <1>3

\* What settling does to a symbol.
LEMMA SettledIs ==
  ASSUME TargetCutAssumption, Placed, syms \in Seq(Symbol), NEW i \in DOMAIN syms
  PROVE  /\ Settled(i) \in Symbol
         /\ Settled(i).addr = syms[i].addr /\ Settled(i).size = syms[i].size /\ End(Settled(i)) = End(syms[i])
         /\ Settled(i).name = syms[i].name /\ Settled(i).pad = syms[i].pad
         /\ ~syms[i].pad => Settled(i) = syms[i]
         /\ syms[i].pad =>
              Settled(i).section =
                IF syms[i].addr \notin LabelEnds
                THEN IF IsData(syms[i].section) THEN Skip ELSE syms[i].section
                ELSE IF InPool(i) THEN syms[i - 1].section ELSE Plain(".text")
<1> DEFINE s == syms[i]
           sec == IF ~s.pad THEN s.section
                  ELSE IF s.addr \notin LabelEnds
                  THEN IF IsData(s.section) THEN Skip ELSE s.section
                  ELSE IF InPool(i) THEN syms[i - 1].section ELSE Plain(".text")
           t == [s EXCEPT !.section = sec]
<1>1. s \in Symbol
  OBVIOUS
<1>2. sec \in Section
  <2>1. InPool(i) => syms[i - 1] \in Symbol
    <3>1. InPool(i) => i - 1 \in DOMAIN syms
      BY DEF InPool
    <3> QED
      BY <3>1, ElementOf
  <2>2. InPool(i) => syms[i - 1].section \in Section
    BY <2>1 DEF Symbol
  <2>3. Skip \in Section /\ Plain(".text") \in Section
    BY DEF Section, Skip, Plain
  <2>4. s.section \in Section
    BY <1>1 DEF Symbol
  <2> QED
    BY <2>2, <2>3, <2>4
<1>3. Settled(i) = t
  <2>1. s = [s EXCEPT !.section = s.section]
    BY <1>1 DEF Symbol
  <2> HIDE DEF s
  <2>2. Settled(i) = IF ~s.pad \/ s.addr \notin LabelEnds THEN Unpadded(s)
                     ELSE [s EXCEPT !.section = IF InPool(i) THEN syms[i - 1].section ELSE Plain(".text")]
    BY DEF Settled, s
  <2> QED
    BY <2>1, <2>2 DEF Unpadded
<1> HIDE DEF sec
<1>4. t \in Symbol /\ t.addr = s.addr /\ t.size = s.size /\ t.name = s.name /\ t.pad = s.pad /\ t.section = sec
  BY <1>1, <1>2 DEF Symbol
<1>5. sec = s.section => t = s
  BY <1>1 DEF Symbol
<1> HIDE DEF s, t
<1>6. End(t) = End(s)
  BY <1>4 DEF End
<1> QED
  BY <1>3, <1>4, <1>5, <1>6 DEF s, sec

\* What is around a gap that does not come first: the row before it, and the next.
GapBetween(i) ==
  LET p == syms[i - 1]  s == syms[i]  IN
  /\ i - 1 \in DOMAIN syms /\ p \in Symbol /\ s \in Symbol /\ IsRowOf(p)
  /\ End(p) = s.addr /\ s.section = p.section /\ End(s) = NextAddr(p.addr)
  /\ p.addr \in Nat /\ s.addr \in Nat /\ End(s) \in Nat /\ p.addr <= s.addr /\ s.addr < End(s) /\ End(s) <= Size
LEMMA GapIsBetween ==
  ASSUME TargetCutAssumption, Placed, syms \in Seq(Symbol), Completed, Covers(syms, 0, Size),
         NEW i \in DOMAIN syms, syms[i].pad, i # 1
  PROVE  GapBetween(i)
<1> DEFINE p == syms[i - 1]
           s == syms[i]
<1>1. i - 1 \in DOMAIN syms /\ i - 1 \in 1..(Len(syms) - 1) /\ (i - 1) + 1 = i
  OBVIOUS
<1>2. p \in Symbol /\ s \in Symbol
  BY <1>1, ElementOf
<1>3. s.section = p.section /\ ~p.pad /\ End(s) = NextAddr(p.addr) /\ s.size > 0
  BY DEF Completed, IsGap
<1>4. IsRowOf(p)
  BY <1>1, <1>3 DEF Completed
<1>5. End(p) = s.addr
  BY <1>1 DEF Covers
<1>6. p.addr \in Nat /\ p.size \in Nat /\ End(p) = p.addr + p.size
  BY <1>2, SymbolTyped
<1>7. s.addr \in Nat /\ s.size \in Nat /\ End(s) = s.addr + s.size
  BY <1>2, SymbolTyped
<1>8. NextAddr(p.addr) <= Size
  BY <1>2, <1>4, RowOfIs
<1> HIDE DEF p, s
<1>9. p.addr <= s.addr /\ s.addr < End(s) /\ End(s) \in Nat /\ End(s) <= Size
  BY <1>3, <1>5, <1>6, <1>7, <1>8
<1> QED
  BY <1>1, <1>2, <1>3, <1>4, <1>5, <1>6, <1>7, <1>9 DEF GapBetween, p, s

\* The row before one of its bytes is the one before it.
LEMMA GapFollows ==
  ASSUME TargetCutAssumption, Placed, RowsApart, NEW i, GapBetween(i),
         NEW b \in syms[i].addr..(End(syms[i]) - 1)
  PROVE  /\ LastBefore(b) = RowAt(syms[i - 1].addr) /\ RowAt(syms[i - 1].addr) \in RowsBefore(b)
         /\ \A j \in RowsBefore(b) : rows[j].addr <= syms[i - 1].addr
         /\ \A j \in RowsAfter(b) : End(syms[i]) <= rows[j].addr
<1> DEFINE p == syms[i - 1]
           s == syms[i]
           q == RowAt(p.addr)
<1>1. /\ p \in Symbol /\ IsRowOf(p) /\ End(s) = NextAddr(p.addr)
      /\ p.addr \in Nat /\ s.addr \in Nat /\ End(s) \in Nat /\ p.addr <= s.addr /\ s.addr < End(s) /\ End(s) <= Size
  BY DEF GapBetween
<1>2. /\ q \in DOMAIN rows /\ rows[q].addr = p.addr
      /\ \A a \in RowAddrs : p.addr < a => NextAddr(p.addr) <= a
  BY <1>1, RowOfIs
<1>3. \A j \in DOMAIN rows : rows[j].addr \in Nat
  BY RowsTyped
<1>4. Size \in Nat /\ b \in Nat /\ s.addr <= b /\ b < End(s)
  BY <1>1 DEF TargetCutAssumption
<1> HIDE DEF p, s, q
<1>5. ASSUME NEW j \in DOMAIN rows, p.addr < rows[j].addr PROVE End(s) <= rows[j].addr
  <2>1. rows[j].addr \in Nat
    BY <1>3
  <2>2. rows[j].addr < Size => rows[j].addr \in RowAddrs
    BY DEF RowAddrs
  <2>3. CASE rows[j].addr < Size
    BY <1>1, <1>2, <1>5, <2>2, <2>3
  <2>4. CASE ~(rows[j].addr < Size)
    BY <1>1, <1>4, <2>1, <2>4
  <2> QED
    BY <2>3, <2>4
<1>6. ASSUME NEW j \in RowsBefore(b) PROVE j \in DOMAIN rows /\ rows[j].addr <= p.addr
  <2>1. j \in DOMAIN rows /\ rows[j].addr <= b
    BY DEF RowsBefore
  <2>2. rows[j].addr \in Nat
    BY <1>3, <2>1
  <2>3. ~(End(s) <= rows[j].addr)
    BY <1>1, <1>4, <2>1, <2>2
  <2>4. ~(p.addr < rows[j].addr)
    BY <1>5, <2>1, <2>3
  <2> QED
    BY <1>1, <2>1, <2>2, <2>4
<1>7. q \in RowsBefore(b)
  BY <1>1, <1>2, <1>4 DEF RowsBefore
<1>8. \A j \in RowsBefore(b) \ {q} : Precedes(j, q) /\ ~Precedes(q, j)
  <2> TAKE j \in RowsBefore(b) \ {q}
  <2>1. j \in DOMAIN rows /\ rows[j].addr <= p.addr /\ rows[j].addr \in Nat
    BY <1>3, <1>6
  <2>2. rows[j].addr # rows[q].addr
    BY <1>2, <2>1 DEF RowsApart
  <2> QED
    BY <1>1, <1>2, <2>1, <2>2 DEF Precedes
<1>9. LastBefore(b) = q
  <2> DEFINE B == RowsBefore(b)
             IsLast(k) == \A j \in B \ {k} : Precedes(j, k)
             c == CHOOSE k \in B : IsLast(k)
  <2>1. LastBefore(b) = c
    BY DEF LastBefore
  <2>2. q \in B /\ IsLast(q)
    BY <1>7, <1>8
  <2>3. c \in B /\ IsLast(c)
    <3> HIDE DEF B, IsLast
    <3> QED
      BY <2>2
  <2> HIDE DEF c
  <2>4. c # q => Precedes(q, c)
    BY <2>2, <2>3
  <2>5. c # q => ~Precedes(q, c)
    BY <1>8, <2>3
  <2> QED
    BY <2>1, <2>4, <2>5
<1>10. \A j \in RowsAfter(b) : End(s) <= rows[j].addr
  <2> TAKE j \in RowsAfter(b)
  <2>1. j \in DOMAIN rows /\ b < rows[j].addr
    BY DEF RowsAfter
  <2>2. rows[j].addr \in Nat
    BY <1>3, <2>1
  <2>3. p.addr < rows[j].addr
    BY <1>1, <1>4, <2>1, <2>2
  <2> QED
    BY <1>5, <2>1, <2>3
<1> QED
  BY <1>6, <1>7, <1>9, <1>10 DEF p, s, q

\* It begins where a label ends just where the row before it is a label.
LEMMA GapAfterLabel ==
  ASSUME TargetCutAssumption, Placed, LabelsApart, NEW i, GapBetween(i)
  PROVE  syms[i].addr \in LabelEnds <=> IsLabelIn(rows[RowAt(syms[i - 1].addr)])
<1> DEFINE p == syms[i - 1]
           s == syms[i]
           q == RowAt(p.addr)
<1>1. /\ p \in Symbol /\ IsRowOf(p) /\ End(p) = s.addr /\ End(s) = NextAddr(p.addr)
      /\ p.addr \in Nat /\ s.addr \in Nat /\ End(s) \in Nat /\ p.addr <= s.addr /\ s.addr < End(s) /\ End(s) <= Size
  BY DEF GapBetween
<1>2. /\ q \in DOMAIN rows /\ rows[q].addr = p.addr
      /\ \A a \in RowAddrs : p.addr < a => NextAddr(p.addr) <= a
      /\ End(p) = End(rows[q]) \/ End(p) = NextAddr(p.addr)
  BY <1>1, RowOfIs
<1>3. \A j \in DOMAIN rows : rows[j] \in Row
  BY RowsTyped
<1>4. Size \in Nat
  BY DEF TargetCutAssumption
<1>5. RowsApart /\ \A j \in DOMAIN rows : rows[j].addr \in LabelEnds => rows[j].size > 0
  BY DEF LabelsApart
<1> HIDE DEF p, s, q
<1>6. End(rows[q]) = s.addr
  BY <1>1, <1>2
<1>7. ASSUME IsLabelIn(rows[q]) PROVE s.addr \in LabelEnds
  BY <1>2, <1>6, <1>7 DEF LabelEnds
<1>8. ASSUME s.addr \in LabelEnds PROVE IsLabelIn(rows[q])
  <2>1. PICK j \in DOMAIN rows : IsLabelIn(rows[j]) /\ End(rows[j]) = s.addr
    BY <1>8 DEF LabelEnds
  <2>2. CASE j = q
    BY <2>1, <2>2
  <2>3. CASE j # q
    <3>1. rows[j].addr # rows[q].addr /\ ~(rows[j].addr < rows[q].addr /\ rows[q].addr < End(rows[j]))
      BY <1>2, <1>5, <2>1, <2>3 DEF RowsApart
    <3>2. rows[j].addr \in Nat /\ rows[j].size \in Nat /\ End(rows[j]) = rows[j].addr + rows[j].size
      BY <1>3, <2>1, RowTyped
    <3>3. rows[q].addr \in Nat /\ rows[q].size \in Nat /\ End(rows[q]) = rows[q].addr + rows[q].size
      BY <1>2, <1>3, RowTyped
    <3>4. rows[j].addr <= s.addr
      BY <2>1, <3>2
    <3>5. ~(rows[q].addr < rows[j].addr)
      <4>1. rows[j].addr < Size
        BY <1>1, <1>4, <3>2, <3>4
      <4>2. rows[j].addr \in RowAddrs
        BY <2>1, <4>1 DEF RowAddrs
      <4>3. rows[q].addr < rows[j].addr => End(s) <= rows[j].addr
        BY <1>1, <1>2, <4>2
      <4> QED
        BY <1>1, <3>2, <3>4, <4>3
    <3>6. rows[j].addr < rows[q].addr
      BY <3>1, <3>2, <3>3, <3>5
    <3>7. rows[q].addr = s.addr
      BY <1>1, <1>2, <2>1, <3>1, <3>6
    <3>8. rows[q].size > 0
      BY <1>2, <1>5, <1>8, <3>7
    <3> QED
      BY <1>1, <1>6, <3>3, <3>7, <3>8
  <2> QED
    BY <2>2, <2>3
<1> QED
  BY <1>7, <1>8 DEF p, s, q

\* And is inside a pool just where the rows around it are of one.
LEMMA GapInPool ==
  ASSUME TargetCutAssumption, Placed, syms \in Seq(Symbol), Completed, Covers(syms, 0, Size), RowsApart,
         NEW i \in DOMAIN syms, syms[i].pad, i # 1, NEW b \in syms[i].addr..(End(syms[i]) - 1)
  PROVE  InPool(i) <=> RowsAfter(b) # {} /\ WithinPool(b)
<1> DEFINE p == syms[i - 1]
           s == syms[i]
           q == RowAt(p.addr)
           t == syms[i + 1]
           N == End(s)
<1>0. GapBetween(i)
  BY GapIsBetween
<1>1. /\ IsRowOf(p) /\ p \in Symbol /\ N = NextAddr(p.addr)
      /\ p.addr \in Nat /\ s.addr \in Nat /\ N \in Nat /\ s.addr < N /\ N <= Size
  BY <1>0 DEF GapBetween
<1>2. LastBefore(b) = q /\ \A j \in RowsAfter(b) : N <= rows[j].addr
  BY <1>0, GapFollows
<1>3. p.section = Routed(q) /\ p.addr \in RowAddrs
  BY <1>1 DEF IsRowOf
<1>4. Size \in Nat /\ b \in Nat /\ b < N
  BY <1>1 DEF TargetCutAssumption
<1>5. i \in Nat /\ 1 < i /\ Len(syms) \in Nat /\ i <= Len(syms) /\ DOMAIN syms = 1..Len(syms)
  OBVIOUS
<1>6. \A j \in DOMAIN rows : rows[j].addr \in Nat
  BY RowsTyped
<1>7. CASE i = Len(syms)
  <2>1. N = Size
    BY <1>5, <1>7 DEF Covers
  <2>2. RowsAfter(b) = {}
    <3> SUFFICES ASSUME NEW j \in RowsAfter(b) PROVE FALSE
      OBVIOUS
    <3>1. j \in DOMAIN rows /\ rows[j].addr < Size /\ N <= rows[j].addr
      BY <1>2 DEF RowsAfter
    <3> HIDE DEF N
    <3> QED
      BY <1>4, <1>6, <2>1, <3>1
  <2>3. ~InPool(i)
    BY <1>5, <1>7 DEF InPool
  <2> QED
    BY <2>2, <2>3
<1>8. CASE i # Len(syms)
  <2>1. i + 1 \in DOMAIN syms /\ i + 1 # 1 /\ (i + 1) - 1 = i /\ i < Len(syms) /\ i \in 1..(Len(syms) - 1)
    BY <1>5, <1>8
  <2>2. t \in Symbol /\ t.addr = N
    BY <2>1, ElementOf DEF Covers
  <2>3. ~t.pad
    BY <2>1 DEF Completed, IsGap
  <2>4. IsRowOf(t)
    BY <2>1, <2>3 DEF Completed
  <2>5. N \in RowAddrs /\ t.section = Routed(RowAt(N))
    BY <2>2, <2>4 DEF IsRowOf
  <2>6. PICK j \in DOMAIN rows : rows[j].addr = N /\ N < Size
    BY <2>5 DEF RowAddrs
  <2> HIDE DEF N
  <2>7. j \in RowsAfter(b)
    BY <1>4, <2>6 DEF RowsAfter
  <2> DEFINE A == {rows[k].addr : k \in RowsAfter(b)}
  <2>8. Min(A) = N
    <3>1. N \in A /\ \A a \in A : N <= a
      BY <1>2, <2>6, <2>7
    <3>2. A \in SUBSET Nat
      BY <1>6 DEF RowsAfter
    <3> HIDE DEF A
    <3>3. Min(A) \in A /\ Min(A) <= N
      BY <3>1, <3>2, LeastIs
    <3>4. N <= Min(A) /\ Min(A) \in Nat
      BY <3>1, <3>2, <3>3
    <3> QED
      BY <1>1, <3>3, <3>4
  <2>9. NextAfter(b) = RowAt(N)
    BY <2>8 DEF NextAfter
  <2>10. WithinPool(b) <=> \E f \in Name : {p.section, t.section} = {PoolOf(f)}
    BY <1>2, <1>3, <2>5, <2>9 DEF WithinPool
  <2>11. InPool(i) <=> p.section = t.section /\ p.section[1] = ".pool"
    BY <1>5, <2>1 DEF InPool
  <2>12. ASSUME p.section = t.section, p.section[1] = ".pool" PROVE \E f \in Name : {p.section, t.section} = {PoolOf(f)}
    <3>1. PICK k \in DOMAIN csv : csv[k].name \in Name /\ p.section = PoolOf(csv[k].name)
      BY <1>3, <2>12, PooledIs
    <3> QED
      BY <2>12, <3>1
  <2>13. ASSUME NEW f \in Name, {p.section, t.section} = {PoolOf(f)} PROVE p.section = t.section /\ p.section[1] = ".pool"
    <3>1. p.section = PoolOf(f) /\ t.section = PoolOf(f)
      BY <2>13
    <3> QED
      BY <3>1 DEF PoolOf
  <2> QED
    BY <2>7, <2>10, <2>11, <2>12, <2>13
<1> QED
  BY <1>7, <1>8

\* A settled gap is in its place.
LEMMA GapInPlace ==
  ASSUME TargetCutAssumption, Placed, syms \in Seq(Symbol), Completed, Covers(syms, 0, Size),
         NEW i \in DOMAIN syms, syms[i].pad
  PROVE  InItsPool(Settled(i)) /\ InItsPlace(Settled(i))
<1> DEFINE s == syms[i]
           p == syms[i - 1]
           q == RowAt(p.addr)
           t == Settled(i)
<1>1. /\ t \in Symbol /\ t.addr = s.addr /\ End(t) = End(s)
      /\ t.section = IF s.addr \notin LabelEnds
                     THEN IF IsData(s.section) THEN Skip ELSE s.section
                     ELSE IF InPool(i) THEN syms[i - 1].section ELSE Plain(".text")
  BY SettledIs
<1>2. IsGap(i)
  BY DEF Completed
<1>3. s.addr \in Nat /\ End(s) \in Nat
  <2>1. s \in Symbol
    OBVIOUS
  <2> QED
    BY <2>1, SymbolTyped
<1>4. Size \in Nat
  BY DEF TargetCutAssumption
<1>5. CASE i = 1
  <2>1. s.section = Plain(".text") /\ \A a \in RowAddrs : End(s) <= a
    BY <1>2, <1>5 DEF IsGap
  <2>2. t.section = Plain(".text")
    <3>1. ~InPool(i)
      BY <1>5 DEF InPool
    <3>2. ~IsData(Plain(".text"))
      BY DEF IsData, Plain, DataSegments
    <3> QED
      BY <1>1, <2>1, <3>1, <3>2
  <2>3. InItsPool(t)
    BY <2>2 DEF InItsPool, Plain
  <2>4. ASSUME NEW b \in t.addr..(End(t) - 1) PROVE t.section = GapSection(b)
    <3>0. End(s) <= Size
      <4>1. End(s) \in RowAddrs \cup {Size}
        BY <1>2 DEF IsGap
      <4>2. \A a \in RowAddrs : a < Size
        BY DEF RowAddrs
      <4> QED
        BY <1>3, <1>4, <4>1, <4>2
    <3>1. RowsBefore(b) = {}
      <4> SUFFICES ASSUME NEW j \in RowsBefore(b) PROVE FALSE
        OBVIOUS
      <4>1. j \in DOMAIN rows /\ rows[j].addr <= b
        BY DEF RowsBefore
      <4>2. rows[j].addr \in Nat
        BY <4>1, RowsTyped
      <4>3. b \in Nat /\ b < End(s)
        BY <1>1, <1>3, <2>4
      <4> HIDE DEF s
      <4>4. rows[j].addr < Size
        BY <1>3, <1>4, <3>0, <4>1, <4>2, <4>3
      <4>5. rows[j].addr \in RowAddrs
        BY <4>1, <4>4 DEF RowAddrs
      <4>6. End(s) <= rows[j].addr
        BY <2>1, <4>5
      <4> QED
        BY <1>3, <4>1, <4>2, <4>3, <4>6
    <3> QED
      BY <2>2, <3>1 DEF GapSection
  <2> QED
    BY <2>3, <2>4 DEF InItsPlace
<1>6. CASE i # 1
  <2>1. GapBetween(i)
    BY <1>6, GapIsBetween
  <2>2. /\ IsRowOf(p) /\ p \in Symbol /\ s.section = p.section /\ End(s) = NextAddr(p.addr)
        /\ p.addr \in Nat /\ p.addr <= s.addr /\ s.addr < End(s) /\ End(s) <= Size
    BY <2>1 DEF GapBetween
  <2>3. p.section = Routed(q) /\ p.addr \in RowAddrs /\ q \in DOMAIN rows /\ rows[q].addr = p.addr
    BY <2>2, RowOfIs DEF IsRowOf
  <2>4. \A a \in RowAddrs : p.addr < a => End(s) <= a
    BY <2>2, RowOfIs
  <2> HIDE DEF q
  <2>5. InItsPool(t)
    <3> SUFFICES ASSUME t.section[1] = ".pool"
                 PROVE  \E k \in DOMAIN csv :
                          /\ Code(csv[k]) /\ csv[k].addr <= t.addr /\ (csv[k].std => CutInBase(csv[k].name))
                          /\ t.section = PoolOf(csv[k].name)
                          /\ \A l \in DOMAIN csv : Code(csv[l]) => ~(csv[k].addr < csv[l].addr /\ csv[l].addr < End(t))
      BY DEF InItsPool
    <3>1. t.section = p.section
      <4>1. Skip[1] # ".pool" /\ Plain(".text")[1] # ".pool"
        BY DEF Skip, Plain
      <4>2. ~IsData(s.section) => s.section[1] # ".pool"
        BY DEF IsData
      <4> HIDE DEF t, s
      <4> QED
        BY <1>1, <4>1, <4>2
    <3>2. Routed(q)[1] = ".pool"
      BY <2>3, <3>1
    <3>3. IsLabelIn(rows[q])
      BY <2>3, <3>2, PooledIs DEF q
    <3>4. PICK j \in DOMAIN csv : /\ Code(csv[j]) /\ csv[j].addr <= p.addr /\ ~csv[j].std
                                  /\ Routed(q) = PoolOf(csv[j].name) /\ OwnedBy(q, j)
      BY <2>3, <3>2, PooledIs DEF q
    <3>5. csv[j].addr \in Nat
      BY InputsTyped DEF Placed
    <3>6. csv[j].addr <= t.addr
      <4> HIDE DEF s, p, t
      <4> QED
        BY <1>1, <1>3, <2>2, <3>4, <3>5
    <3>7. ASSUME NEW l \in DOMAIN csv, Code(csv[l]), csv[j].addr < csv[l].addr, csv[l].addr < End(t)
          PROVE  FALSE
      <4>1. p.addr < csv[l].addr
        BY <2>3, <3>3, <3>4, <3>7, OwnsUpTo DEF q
      <4>2. l \in DOMAIN rows /\ rows[l] = csv[l] /\ csv[l].addr \in Nat
        BY RowsTyped, InputsTyped DEF Placed
      <4> HIDE DEF s, p, t
      <4>3. csv[l].addr < Size
        BY <1>1, <1>3, <1>4, <2>2, <3>7, <4>2
      <4>4. csv[l].addr \in RowAddrs
        BY <4>2, <4>3 DEF RowAddrs
      <4>5. End(s) <= csv[l].addr
        BY <2>4, <4>1, <4>4
      <4> QED
        BY <1>1, <1>3, <3>7, <4>2, <4>5
    <3> QED
      BY <2>3, <3>1, <3>4, <3>6, <3>7
  <2>6. ASSUME NEW b \in t.addr..(End(t) - 1), LabelsApart PROVE t.section = GapSection(b)
    <3>1. b \in s.addr..(End(s) - 1)
      BY <1>1, <2>6
    <3>2. RowsApart
      BY <2>6 DEF LabelsApart
    <3>3. LastBefore(b) = q /\ RowsBefore(b) # {}
      BY <2>1, <3>1, <3>2, GapFollows DEF q
    <3>4. s.addr \in LabelEnds <=> IsLabelIn(rows[q])
      BY <2>1, <2>6, GapAfterLabel DEF q
    <3>5. InPool(i) <=> RowsAfter(b) # {} /\ WithinPool(b)
      BY <1>6, <3>1, <3>2, GapInPool
    <3>6. GapSection(b) = IF Code(rows[q]) THEN Plain(".text")
                          ELSE IF rows[q].segment = ".bss" THEN Plain(".bss")
                          ELSE IF ~IsLabelIn(rows[q]) THEN Skip
                          ELSE IF RowsAfter(b) # {} /\ WithinPool(b) THEN Routed(q)
                          ELSE Plain(".text")
      BY <3>3 DEF GapSection
    <3>7. t.section = IF ~IsLabelIn(rows[q])
                      THEN IF IsData(Routed(q)) THEN Skip ELSE Routed(q)
                      ELSE IF InPool(i) THEN Routed(q) ELSE Plain(".text")
      <4>1. syms[i - 1].section = Routed(q) /\ s.section = Routed(q)
        BY <2>2, <2>3
      <4> HIDE DEF t, s, p
      <4> QED
        BY <1>1, <3>4, <4>1
    <3> HIDE DEF t, s, p
    <3>8. CASE IsLabelIn(rows[q])
      <4>1. ~Code(rows[q]) /\ rows[q].segment # ".bss"
        BY <3>8 DEF IsLabelIn, Code
      <4> QED
        BY <3>5, <3>6, <3>7, <3>8, <4>1
    <3>9. CASE Code(rows[q])
      <4>1. ~IsLabelIn(rows[q])
        BY <3>9 DEF IsLabelIn, Code
      <4>2. Routed(q) = Plain(".text")
        BY <2>3, <3>9, <4>1, RoutedIs DEF Code, DataSegments
      <4>3. ~IsData(Plain(".text"))
        BY DEF IsData, Plain, DataSegments
      <4> QED
        BY <3>6, <3>7, <3>9, <4>1, <4>2, <4>3
    <3>10. CASE ~Code(rows[q]) /\ ~IsLabelIn(rows[q]) /\ rows[q].segment = ".bss"
      <4>1. Routed(q) = Plain(".bss")
        BY <2>3, <3>10, RoutedIs DEF DataSegments
      <4>2. ~IsData(Plain(".bss"))
        BY DEF IsData, Plain, DataSegments
      <4> QED
        BY <3>6, <3>7, <3>10, <4>1, <4>2
    <3>11. CASE ~Code(rows[q]) /\ ~IsLabelIn(rows[q]) /\ rows[q].segment # ".bss"
      <4>1. Routed(q) = Skip \/ \E seg \in DataSegments : \E n \in Name \cup {None} : Routed(q) = <<seg, n>>
        BY <2>3, <3>11, RoutedIs
      <4>2. IsData(Routed(q)) \/ Routed(q) = Skip
        BY <4>1 DEF IsData
      <4> QED
        BY <3>6, <3>7, <3>11, <4>2
    <3> QED
      BY <3>8, <3>9, <3>10, <3>11
  <2> QED
    BY <2>5, <2>6 DEF InItsPlace
<1> QED
  BY <1>5, <1>6

\* Settling puts every symbol in its place.
LEMMA SettleCuts ==
  ASSUME TargetCutAssumption, CutInv, Settle
  PROVE  CutInv'
<1> DEFINE n == Len(syms)
<1>0. InputsOK /\ TypeOK /\ Placed /\ Completed /\ Covers(syms, 0, Size) /\ pc = "settle"
  BY DEF CutInv, Settle
<1>1. /\ syms' = [i \in DOMAIN syms |-> Settled(i)] /\ pc' = "cut" /\ UNCHANGED inputs
      /\ rows' = rows /\ cur' = cur /\ todo' = todo /\ mapping' = mapping /\ runs' = runs
  BY DEF Settle
<1>2. syms \in Seq(Symbol) /\ n \in Nat /\ DOMAIN syms = 1..n
  BY <1>0 DEF TypeOK
<1>3. \A i \in DOMAIN syms : /\ Settled(i) \in Symbol
                             /\ Settled(i).addr = syms[i].addr /\ Settled(i).size = syms[i].size
                             /\ Settled(i).name = syms[i].name /\ Settled(i).pad = syms[i].pad
                             /\ ~syms[i].pad => Settled(i) = syms[i]
  BY <1>0, <1>2, SettledIs
<1>4. DOMAIN syms' = 1..n /\ \A i \in 1..n : syms'[i] = Settled(i)
  BY <1>1, <1>2
<1>5. syms' \in Seq(Symbol) /\ Len(syms') = n
  <2>1. \A i \in 1..n : Settled(i) \in Symbol
    BY <1>2, <1>3
  <2>2. syms' = [i \in 1..n |-> Settled(i)]
    BY <1>1, <1>2
  <2> HIDE DEF n
  <2> QED
    BY <1>2, <2>1, <2>2
<1>6. Covers(syms', 0, Size)
  <2>1. \A i \in 1..n : syms'[i].addr = syms[i].addr /\ syms'[i].size = syms[i].size
    BY <1>2, <1>3, <1>4
  <2> QED
    BY <1>0, <1>2, <1>5, <2>1, CoversSame
<1>7. /\ Placed' /\ \A y : IsRowOf(y)' <=> IsRowOf(y)
      /\ \A y : (InItsPool(y)' <=> InItsPool(y)) /\ (InItsPlace(y)' <=> InItsPlace(y))
  BY <1>0, <1>1, RowsStay
<1>8. \A i \in 1..n : InItsPool(Settled(i)) /\ InItsPlace(Settled(i))
  <2> TAKE i \in 1..n
  <2>1. i \in DOMAIN syms
    BY <1>2
  <2>2. CASE syms[i].pad
    BY <1>0, <1>2, <2>1, <2>2, GapInPlace
  <2>3. CASE ~syms[i].pad
    <3>1. IsRowOf(syms[i]) /\ syms[i] \in Symbol /\ Settled(i) = syms[i]
      BY <1>0, <1>2, <1>3, <2>1, <2>3, ElementOf DEF Completed
    <3> QED
      BY <1>0, <3>1, RowInPlace
  <2> QED
    BY <2>2, <2>3
<1>9. InPlace'
  <2>1. ASSUME NEW i \in 1..n PROVE (InItsPool(syms[i]) /\ InItsPlace(syms[i]))'
    <3>1. syms'[i] = Settled(i) /\ InItsPool(Settled(i)) /\ InItsPlace(Settled(i))
      BY <1>4, <1>8
    <3> QED
      BY <1>7, <3>1
  <2> QED
    BY <1>4, <2>1 DEF InPlace
<1>10. ASSUME NEW i \in 1..n PROVE (IF syms[i].pad THEN syms[i].name = None ELSE IsRowOf(syms[i]))'
  <2>1. i \in DOMAIN syms /\ syms'[i] = Settled(i)
    BY <1>2, <1>4
  <2>2. CASE syms[i].pad
    <3>1. syms[i].name = None
      BY <1>0, <2>1, <2>2 DEF Completed, IsGap
    <3> QED
      BY <1>3, <2>1, <2>2, <3>1
  <2>3. CASE ~syms[i].pad
    <3>1. IsRowOf(syms[i]) /\ syms'[i] = syms[i]
      BY <1>0, <1>3, <2>1, <2>3 DEF Completed
    <3> QED
      BY <1>7, <2>3, <3>1
  <2> QED
    BY <2>2, <2>3
<1>11. TypeOK'
  BY <1>0, <1>1, <1>5 DEF TypeOK
<1>12. InputsOK'
  BY <1>7 DEF Placed
<1>13. (\A i \in DOMAIN syms : IF syms[i].pad THEN syms[i].name = None ELSE IsRowOf(syms[i]))'
  BY <1>4, <1>10
<1> QED
  BY <1>1, <1>6, <1>7, <1>9, <1>11, <1>12, <1>13 DEF CutInv

\* A function the base has cut.
Spliced(s) == s.section = Plain(".text") /\ s.name # None /\ CutInBase(s.name)

\* It is a row of the CSV, and code.
LEMMA SplicedIs ==
  ASSUME TargetCutAssumption, Placed, NEW s \in Symbol, IsRowOf(s), Spliced(s)
  PROVE  /\ RowAt(s.addr) \in DOMAIN csv /\ rows[RowAt(s.addr)] = csv[RowAt(s.addr)]
         /\ Code(csv[RowAt(s.addr)]) /\ s.name = csv[RowAt(s.addr)].name /\ s.name \in Name
         /\ s.addr = csv[RowAt(s.addr)].addr
<1> DEFINE i == RowAt(s.addr)
<1>1. i \in DOMAIN rows /\ rows[i].addr = s.addr /\ s.name = rows[i].name /\ s.section = Routed(i)
  BY RowOfIs DEF IsRowOf
<1>2. rows[i].name # None /\ Routed(i) = Plain(".text")
  BY <1>1 DEF Spliced
<1> HIDE DEF i
<1>3. i \in DOMAIN csv /\ rows[i] = csv[i] /\ rows[i].name \in Name
  BY <1>1, <1>2, CodeIsNamed
<1>4. Code(rows[i])
  <2>1. Routed(i)[1] = ".text"
    BY <1>2 DEF Plain
  <2>2. Skip[1] # ".text" /\ Plain(".bss")[1] # ".text" /\ \A n : <<".pool", n>>[1] # ".text"
    BY DEF Skip, Plain
  <2>3. \A seg \in DataSegments : \A n : <<seg, n>>[1] # ".text"
    BY DEF DataSegments
  <2> QED
    BY <1>1, <2>1, <2>2, <2>3, RoutedIs
<1> QED
  BY <1>1, <1>3, <1>4 DEF i

\* The mapping rows of a cut function are in it: past its row's start, and before its
\* symbol's end where nothing begins inside a function.
LEMMA SplicedHolds ==
  ASSUME TargetCutAssumption, Placed, NEW s \in Symbol, IsRowOf(s), Spliced(s), NEW r \in Inner(s.name)
  PROVE  s.addr <= r[1] /\ (ExtentsApart => r[2] <= End(s))
<1> DEFINE i == RowAt(s.addr)
<1>1. i \in DOMAIN csv /\ rows[i] = csv[i] /\ s.name = csv[i].name /\ s.addr = csv[i].addr
  BY SplicedIs
<1>2. InputsOK
  BY DEF Placed
<1>3. PICK m \in Extents : csv[m].name = s.name /\ csv[m].addr <= r[1] /\ r[2] <= End(csv[m])
  BY <1>2, InnerIs
<1>4. r[2] \in Nat /\ r[2] <= Size
  BY <1>2, InnerIs
<1>5. m \in DOMAIN csv
  BY DEF Extents
<1>6. m = i
  BY <1>1, <1>2, <1>3, <1>5, InputsTyped
<1>7. i \in Extents /\ s.addr <= r[1] /\ r[2] <= End(csv[i])
  BY <1>1, <1>3, <1>6
<1>8. /\ End(s) = End(csv[i]) \/ End(s) = NextAddr(s.addr)
      /\ NextAddr(s.addr) = Size \/ NextAddr(s.addr) \in RowAddrs
      /\ NextAddr(s.addr) \in Nat /\ s.addr < NextAddr(s.addr) /\ s.addr \in Nat
  BY <1>1, RowOfIs
<1> DEFINE a == NextAddr(s.addr)
<1>9. End(csv[i]) \in Nat /\ csv[i].addr \in Nat
  BY <1>1, <1>2, InputsTyped
<1> HIDE DEF i, a
<1>10. ASSUME ExtentsApart, a \in RowAddrs, a < End(csv[i]) PROVE FALSE
  <2>1. a \in Nat /\ csv[i].addr < a
    BY <1>1, <1>8 DEF a
  <2>2. PICK j \in DOMAIN rows : rows[j].addr = a
    BY <1>10 DEF RowAddrs
  <2>3. ~(\E l \in DOMAIN csv : csv[l].addr = a)
    BY <1>7, <1>10, <2>1 DEF ExtentsApart
  <2>4. ~IsOfCsv(j)
    BY <2>2, <2>3 DEF IsOfCsv
  <2>5. PICK k \in DOMAIN marks : ~Inside(k) /\ marks[k].addr = a
    <3>1. IsLabel(j)
      BY <2>4, RowIs
    <3> QED
      BY <2>2, <3>1 DEF IsLabel
  <2>6. i \in StartedBy(a)
    <3>1. csv[i].addr <= a
      BY <1>9, <2>1
    <3> QED
      BY <1>7, <3>1 DEF StartedBy
  <2> DEFINE l == LastStarted(a)
  <2>7. l \in StartedBy(a) /\ (i # l => Before(i, l))
    BY <1>2, <2>6, LastStartedIs
  <2>8. ~(a < End(csv[l]))
    BY <2>5, <2>6 DEF Inside
  <2> HIDE DEF l
  <2>9. l \in Extents /\ l \in DOMAIN csv /\ csv[l].addr <= a
    BY <2>7 DEF StartedBy, Extents
  <2>10. csv[l].addr \in Nat /\ End(csv[l]) \in Nat
    BY <1>2, <2>9, InputsTyped
  <2>11. i # l
    BY <1>10, <2>8
  <2>12. ~(csv[i].addr < csv[l].addr /\ csv[l].addr < End(csv[i]))
    BY <1>7, <1>10, <2>9 DEF ExtentsApart
  <2>13. ~(csv[i].addr < csv[l].addr)
    BY <1>9, <1>10, <2>1, <2>9, <2>10, <2>12
  <2>14. End(csv[i]) <= End(csv[l])
    <3>1. End(csv[i]) < End(csv[l]) \/ End(csv[i]) = End(csv[l])
      BY <2>7, <2>11, <2>13 DEF Before
    <3> QED
      BY <1>9, <2>10, <3>1
  <2> QED
    BY <1>9, <1>10, <2>1, <2>8, <2>10, <2>14
<1>11. ASSUME ExtentsApart PROVE r[2] <= End(s)
  <2>1. CASE End(s) = End(csv[i])
    BY <1>7, <2>1
  <2>2. CASE End(s) = a /\ a = Size
    BY <1>4, <2>2
  <2>3. CASE End(s) = a /\ a \in RowAddrs
    <3>1. ~(a < End(csv[i])) /\ a \in Nat
      BY <1>8, <1>10, <1>11, <2>3 DEF a
    <3> QED
      BY <1>4, <1>7, <1>9, <2>3, <3>1
  <2> QED
    BY <1>8, <2>1, <2>2, <2>3 DEF i, a
<1> QED
  BY <1>7, <1>11

\* Symbols that cover a range are in it.
LEMMA CoversWithin ==
  ASSUME NEW s \in Seq(Symbol), NEW from, NEW to, Covers(s, from, to), NEW i \in DOMAIN s
  PROVE  from <= s[i].addr /\ End(s[i]) <= to
<1> DEFINE n == Len(s)
<1>1. n \in Nat /\ DOMAIN s = 1..n /\ s # <<>> /\ \A j \in 1..n : s[j] \in Symbol
  OBVIOUS
<1>2. s[1].addr = from /\ End(s[n]) = to
  BY <1>1 DEF Covers
<1>3. \A j, k \in 1..n : j < k => End(s[j]) <= s[k].addr
  BY CoversInOrder
<1> HIDE DEF n
<1>4. i \in 1..n /\ 1 \in 1..n /\ n \in 1..n
  BY <1>1
<1>5. \A j \in 1..n : s[j].addr \in Nat /\ End(s[j]) \in Nat /\ s[j].addr <= End(s[j])
  <2> TAKE j \in 1..n
  <2>1. s[j].addr \in Nat /\ s[j].size \in Nat /\ End(s[j]) \in Nat /\ End(s[j]) = s[j].addr + s[j].size
    BY <1>1, SymbolTyped
  <2> QED
    BY <2>1
<1>6. s[1].addr <= s[i].addr
  <2>1. i = 1 \/ 1 < i
    BY <1>4
  <2>2. 1 < i => End(s[1]) <= s[i].addr
    BY <1>3, <1>4
  <2> QED
    BY <1>4, <1>5, <2>1, <2>2
<1>7. End(s[i]) <= End(s[n])
  <2>1. i = n \/ i < n
    BY <1>1, <1>4
  <2>2. i < n => End(s[i]) <= s[n].addr
    BY <1>3, <1>4
  <2> QED
    BY <1>4, <1>5, <2>1, <2>2
<1> QED
  BY <1>2, <1>6, <1>7

\* What is made of a cut function is in its place, and its pools are its own.
LEMMA PieceInPlace ==
  ASSUME TargetCutAssumption, Placed, NEW s \in Symbol, IsRowOf(s), Spliced(s),
         NEW x \in Symbol, s.addr <= x.addr, End(x) <= End(s),
         x.section = PoolOf(s.name) \/ x.section = CodeOf(s.name)
  PROVE  InItsPool(x) /\ InItsPlace(x)
<1> DEFINE i == RowAt(s.addr)
<1>1. /\ i \in DOMAIN csv /\ rows[i] = csv[i] /\ Code(csv[i])
      /\ s.name = csv[i].name /\ s.addr = csv[i].addr
  BY SplicedIs
<1>2. /\ i \in DOMAIN rows
      /\ s.addr \in Nat /\ End(s) <= End(rows[i]) /\ End(rows[i]) \in Nat
      /\ NextAddr(s.addr) \in Nat /\ End(s) <= NextAddr(s.addr) /\ NextAddr(s.addr) <= Size
      /\ \A b \in RowAddrs : s.addr < b => NextAddr(s.addr) <= b
  BY RowOfIs
<1>3. x.addr \in Nat /\ End(x) \in Nat /\ End(s) \in Nat /\ Size \in Nat
  BY SymbolTyped DEF TargetCutAssumption
<1> HIDE DEF i
<1>4. InItsPlace(x)
  <2>1. ASSUME NEW b \in x.addr..(End(x) - 1) PROVE NamedAt(b)
    <3>1. rows[i].addr <= b /\ b < End(rows[i])
      BY <1>1, <1>2, <1>3, <2>1
    <3> QED
      BY <1>2, <3>1 DEF NamedAt
  <2> QED
    BY <2>1 DEF InItsPlace
<1>5. InItsPool(x)
  <2> SUFFICES ASSUME x.section[1] = ".pool"
               PROVE  /\ Code(csv[i]) /\ csv[i].addr <= x.addr /\ (csv[i].std => CutInBase(csv[i].name))
                      /\ x.section = PoolOf(csv[i].name)
                      /\ \A l \in DOMAIN csv : Code(csv[l]) => ~(csv[i].addr < csv[l].addr /\ csv[l].addr < End(x))
    BY <1>1 DEF InItsPool
  <2>1. x.section = PoolOf(csv[i].name)
    <3>1. CodeOf(s.name)[1] # ".pool"
      BY DEF CodeOf
    <3> QED
      BY <1>1, <3>1
  <2>2. CutInBase(csv[i].name)
    BY <1>1 DEF Spliced
  <2>3. ASSUME NEW l \in DOMAIN csv, csv[i].addr < csv[l].addr, csv[l].addr < End(x)
        PROVE  FALSE
    <3>1. l \in DOMAIN rows /\ rows[l] = csv[l] /\ csv[l].addr \in Nat
      BY RowsTyped, InputsTyped DEF Placed
    <3>2. csv[l].addr < Size
      BY <1>2, <1>3, <2>3, <3>1
    <3>3. csv[l].addr \in RowAddrs
      BY <3>1, <3>2 DEF RowAddrs
    <3>4. NextAddr(s.addr) <= csv[l].addr
      BY <1>1, <1>2, <2>3, <3>3
    <3> QED
      BY <1>2, <1>3, <2>3, <3>1, <3>4
  <2> QED
    BY <1>1, <2>1, <2>2, <2>3
<1> QED
  BY <1>4, <1>5

\* What cutting leaves of a symbol covers it, each part in its place.
LEMMA CutOutWorks ==
  ASSUME TargetCutAssumption, Placed, NEW s \in Symbol, IF s.pad THEN s.name = None ELSE IsRowOf(s)
  PROVE  /\ CutOut(s) \in Seq(Symbol)
         /\ ExtentsApart /\ InItsPool(s) /\ InItsPlace(s) =>
              /\ Covers(CutOut(s), s.addr, End(s))
              /\ \A k \in DOMAIN CutOut(s) : InItsPool(CutOut(s)[k]) /\ InItsPlace(CutOut(s)[k])
<1>1. CASE ~Spliced(s)
  <2>1. CutOut(s) = <<s>>
    BY <1>1 DEF CutOut, Spliced
  <2>2. <<s>> \in Seq(Symbol) /\ Covers(<<s>>, s.addr, End(s))
    BY CoversOne
  <2>3. DOMAIN <<s>> = {1} /\ <<s>>[1] = s
    OBVIOUS
  <2> QED
    BY <2>1, <2>2, <2>3
<1>2. CASE Spliced(s)
  <2>0. IsRowOf(s)
    BY <1>2 DEF Spliced
  <2>1. s.name \in Name /\ InputsOK
    BY <1>2, <2>0, SplicedIs DEF Placed
  <2>2. CASE ~Marked(s.name)
    <3> DEFINE x == [s EXCEPT !.section = CodeOf(s.name)]
    <3>1. CutOut(s) = <<x>>
      BY <1>2, <2>2 DEF CutOut, Spliced
    <3>2. CodeOf(s.name) \in Section
      BY <2>1 DEF CodeOf, Section
    <3>3. x \in Symbol /\ x.addr = s.addr /\ x.size = s.size /\ x.section = CodeOf(s.name)
      <4> DEFINE sec == CodeOf(s.name)
      <4>1. sec \in Section
        BY <3>2
      <4> HIDE DEF sec
      <4>2. [s EXCEPT !.section = sec] \in Symbol
        BY <4>1 DEF Symbol
      <4>3. /\ [s EXCEPT !.section = sec].addr = s.addr /\ [s EXCEPT !.section = sec].size = s.size
            /\ [s EXCEPT !.section = sec].section = sec
        BY DEF Symbol
      <4> QED
        BY <4>2, <4>3 DEF sec
    <3> HIDE DEF x
    <3>4. End(x) = End(s) /\ x.addr \in Nat /\ End(x) \in Nat
      BY <3>3, SymbolTyped DEF End
    <3>5. s.addr <= x.addr /\ End(x) <= End(s)
      BY <3>3, <3>4
    <3>6. InItsPool(x) /\ InItsPlace(x)
      BY <1>2, <2>0, <3>3, <3>5, PieceInPlace
    <3>7. <<x>> \in Seq(Symbol) /\ Covers(<<x>>, s.addr, End(s))
      BY <3>3, <3>4, CoversOne
    <3>8. DOMAIN <<x>> = {1} /\ <<x>>[1] = x
      OBVIOUS
    <3> QED
      BY <3>1, <3>6, <3>7, <3>8
  <2>3. CASE Marked(s.name)
    <3> DEFINE p == Pieces(s, Inner(s.name))
    <3>1. CutOut(s) = p
      BY <1>2, <2>3 DEF CutOut, Spliced
    <3>2. \A r \in Inner(s.name) : s.addr <= r[1] /\ (ExtentsApart => r[2] <= End(s))
      BY <1>2, <2>0, SplicedHolds
    <3>3. /\ p \in Seq(Symbol)
          /\ \A k \in DOMAIN p : PieceIn(p[k], s)
          /\ (\A r \in Inner(s.name) : r[2] <= End(s)) => Covers(p, s.addr, End(s))
      BY <2>1, <3>2, PiecesWork
    <3> HIDE DEF p
    <3>4. ASSUME ExtentsApart
          PROVE  /\ Covers(p, s.addr, End(s))
                 /\ \A k \in DOMAIN p : InItsPool(p[k]) /\ InItsPlace(p[k])
      <4>1. Covers(p, s.addr, End(s))
        BY <3>2, <3>3, <3>4
      <4>2. ASSUME NEW k \in DOMAIN p PROVE InItsPool(p[k]) /\ InItsPlace(p[k])
        <5> DEFINE x == p[k]
        <5>1. x \in Symbol
          BY <3>3, ElementOf
        <5>2. s.addr <= x.addr /\ End(x) <= End(s)
          BY <3>3, <4>1, CoversWithin
        <5>3. x.section = PoolOf(s.name) \/ x.section = CodeOf(s.name)
          BY <3>3 DEF PieceIn
        <5> HIDE DEF x
        <5>4. InItsPool(x) /\ InItsPlace(x)
          BY <1>2, <2>0, <5>1, <5>2, <5>3, PieceInPlace
        <5> QED
          BY <5>4 DEF x
      <4> QED
        BY <4>1, <4>2
    <3> QED
      BY <3>1, <3>3, <3>4
  <2> QED
    BY <2>2, <2>3
<1> QED
  BY <1>1, <1>2

\* Cutting leaves every byte where nothing begins inside a function.
LEMMA CutPoolsCuts ==
  ASSUME TargetCutAssumption, CutInv, CutPools
  PROVE  CutInv'
<1> DEFINE n == Len(syms)
           ss == [i \in DOMAIN syms |-> CutOut(syms[i])]
           at == [k \in 1..(n + 1) |-> IF k = n + 1 THEN Size ELSE syms[k].addr]
<1>0. /\ InputsOK /\ TypeOK /\ Placed /\ Covers(syms, 0, Size) /\ InPlace /\ pc = "cut"
      /\ \A i \in DOMAIN syms : IF syms[i].pad THEN syms[i].name = None ELSE IsRowOf(syms[i])
  BY DEF CutInv, CutPools
<1>1. /\ syms' = FlattenSeq(ss) /\ pc' = "write" /\ UNCHANGED inputs
      /\ mapping' \subseteq mapping
      /\ rows' = rows /\ cur' = cur /\ todo' = todo /\ runs' = runs
  BY DEF CutPools
<1>2. syms \in Seq(Symbol) /\ n \in Nat /\ DOMAIN syms = 1..n /\ \A i \in 1..n : syms[i] \in Symbol
  BY <1>0 DEF TypeOK
<1>3. \A i \in 1..n : CutOut(syms[i]) \in Seq(Symbol)
  BY <1>0, <1>2, CutOutWorks
<1>4. /\ ss \in Seq(Seq(Symbol)) /\ Len(ss) = n /\ DOMAIN ss = 1..n
      /\ \A i \in 1..n : ss[i] = CutOut(syms[i])
  <2> DEFINE c == [i \in 1..n |-> CutOut(syms[i])]
  <2>1. ss = c /\ c \in [1..n -> Seq(Symbol)]
    BY <1>2, <1>3
  <2>2. DOMAIN c = 1..n /\ \A i \in 1..n : c[i] = CutOut(syms[i])
    OBVIOUS
  <2> HIDE DEF c, ss, n
  <2>3. c \in Seq(Seq(Symbol)) /\ Len(c) = n
    BY <1>2, <2>1, <2>2
  <2> QED
    BY <2>1, <2>2, <2>3
<1> HIDE DEF ss
<1>5. FlattenSeq(ss) \in Seq(Symbol) /\ \A p \in DOMAIN FlattenSeq(ss) : InOneOf(FlattenSeq(ss)[p], ss)
  BY <1>4, FlattenHolds
<1>6. ASSUME ExtentsApart PROVE Covers(FlattenSeq(ss), 0, Size)
  <2>1. \A i \in 1..n : Covers(ss[i], syms[i].addr, End(syms[i]))
    BY <1>0, <1>2, <1>4, <1>6, CutOutWorks DEF InPlace
  <2>2. /\ syms = <<>> => 0 = Size
        /\ syms # <<>> => syms[1].addr = 0 /\ End(syms[n]) = Size
        /\ \A i \in 1..(n - 1) : End(syms[i]) = syms[i + 1].addr
    BY <1>0 DEF Covers
  <2>3. syms = <<>> <=> n = 0
    BY <1>2
  <2> HIDE DEF n
  <2>4. at[n + 1] = Size /\ \A i \in 1..n : at[i] = syms[i].addr
    BY <1>2
  <2>5. ASSUME NEW i \in 1..n PROVE at[i + 1] = End(syms[i])
    <3>1. CASE i = n
      BY <1>2, <2>2, <2>3, <2>4, <3>1
    <3>2. CASE i # n
      <4>1. i \in 1..(n - 1) /\ i + 1 \in 1..n
        BY <1>2, <3>2
      <4> QED
        BY <2>2, <2>4, <4>1
    <3> QED
      BY <3>1, <3>2
  <2>6. at[1] = 0
    <3>1. CASE n = 0
      BY <2>2, <2>3, <2>4, <3>1
    <3>2. CASE n # 0
      <4>1. 1 \in 1..n
        BY <1>2, <3>2
      <4> QED
        BY <2>2, <2>3, <2>4, <3>2, <4>1
    <3> QED
      BY <3>1, <3>2
  <2> HIDE DEF at
  <2>7. \A i \in 1..Len(ss) : Covers(ss[i], at[i], at[i + 1])
    BY <1>4, <2>1, <2>4, <2>5
  <2>8. Covers(FlattenSeq(ss), at[1], at[Len(ss) + 1])
    BY <1>4, <2>7, FlattenCovers
  <2> QED
    BY <1>4, <2>4, <2>6, <2>8
<1>7. /\ Placed' /\ (ExtentsApart' <=> ExtentsApart)
      /\ \A y : (InItsPool(y)' <=> InItsPool(y)) /\ (InItsPlace(y)' <=> InItsPlace(y))
  BY <1>0, <1>1, RowsStay, InputsStay
<1>8. ASSUME ExtentsApart, NEW p \in DOMAIN FlattenSeq(ss)
      PROVE  InItsPool(FlattenSeq(ss)[p]) /\ InItsPlace(FlattenSeq(ss)[p])
  <2>1. PICK i \in DOMAIN ss : \E j \in DOMAIN ss[i] : FlattenSeq(ss)[p] = ss[i][j]
    BY <1>5 DEF InOneOf
  <2>2. i \in 1..n /\ i \in DOMAIN syms /\ ss[i] = CutOut(syms[i]) /\ syms[i] \in Symbol
    BY <1>2, <1>4, <2>1
  <2>3. \A j \in DOMAIN ss[i] : InItsPool(ss[i][j]) /\ InItsPlace(ss[i][j])
    BY <1>0, <1>8, <2>2, CutOutWorks DEF InPlace
  <2> QED
    BY <2>1, <2>3
<1>9. ExtentsApart => InPlace'
  <2> SUFFICES ASSUME ExtentsApart PROVE InPlace'
    OBVIOUS
  <2>1. ASSUME NEW p \in DOMAIN syms' PROVE (InItsPool(syms[p]) /\ InItsPlace(syms[p]))'
    <3> DEFINE y == FlattenSeq(ss)[p]
    <3>1. syms'[p] = y /\ p \in DOMAIN FlattenSeq(ss)
      BY <1>1, <2>1
    <3>2. InItsPool(y) /\ InItsPlace(y)
      BY <1>8, <3>1
    <3> HIDE DEF y
    <3> QED
      BY <1>7, <3>1, <3>2
  <2> QED
    BY <2>1 DEF InPlace
<1>10. TypeOK'
  BY <1>0, <1>1, <1>5 DEF TypeOK
<1>11. InputsOK'
  BY <1>7 DEF Placed
<1>12. ExtentsApart => Covers(syms', 0, Size)
  BY <1>1, <1>6
<1> QED
  BY <1>1, <1>7, <1>9, <1>10, <1>11, <1>12 DEF CutInv

-----------------------------------------------------------------------------
(* How the symbols are laid out.                                           *)

\* The first symbols of the runs, and the k-th of these runs.
Firsts       == {i \in DOMAIN syms : Begins(i)}
SectionAt(k) == syms[Nth(Firsts, k)].section
StartAt(k)   == syms[Nth(Firsts, k)].addr
StopAt(k)    == IF k < Cardinality(Firsts) THEN StartAt(k + 1) ELSE Size

\* The runs of its section before it, and where these end.
SameBefore(k) == {j \in 1..(k - 1) : SectionAt(j) = SectionAt(k)}
Used(r, k) ==
  IF SameBefore(k) = {} THEN 0
  ELSE r[Max(SameBefore(k))].off + r[Max(SameBefore(k))].end - r[Max(SameBefore(k))].start
RunAfter(r, k) == [section |-> SectionAt(k), start |-> StartAt(k), end |-> StopAt(k),
                   off |-> Offset(SectionAt(k), Used(r, k), StartAt(k))]

IsLaid(h) == h = [k \in 0..Cardinality(Firsts) |->
                    IF k = 0 THEN <<>> ELSE Append(h[k - 1], RunAfter(h[k - 1], k))]
\* The layout is that of one run after another.
LEMMA LayoutIsLaid == Layout = (CHOOSE h : IsLaid(h))[Cardinality(Firsts)]
BY DEF Layout, IsLaid, Firsts, RunAfter, Used, SameBefore, SectionAt, StartAt, StopAt

\* There are as many as symbols that begin one, in order.
LEMMA FirstsAre ==
  ASSUME NEW T, syms \in Seq(T)
  PROVE  /\ Cardinality(Firsts) \in Nat
         /\ \A k \in 1..Cardinality(Firsts) : Nth(Firsts, k) \in Firsts
         /\ \A i \in Firsts : i \in DOMAIN syms /\ i \in Nat /\ Begins(i)
         /\ \A i \in Firsts : \E k \in 1..Cardinality(Firsts) : Nth(Firsts, k) = i
         /\ \A j, k \in 1..Cardinality(Firsts) : j < k => Nth(Firsts, j) < Nth(Firsts, k)
<1>1. DOMAIN syms = 1..Len(syms) /\ Len(syms) \in Nat
  OBVIOUS
<1>2. Firsts \in SUBSET (1..Len(syms)) /\ \A i \in Firsts : i \in DOMAIN syms /\ i \in Nat /\ Begins(i)
  BY <1>1 DEF Firsts
<1>3. IsFiniteSet(Firsts)
  <2>1. IsFiniteSet(1..Len(syms))
    <3>1. 1 \in Int /\ Len(syms) \in Int
      BY <1>1
    <3> QED
      BY <3>1, FS_Interval
  <2> QED
    BY <1>2, <2>1, FS_Subset
<1>4. Firsts \in SUBSET Int
  BY <1>2
<1> QED
  BY <1>2, <1>3, <1>4, NthOfNumbers

\* An offset is a number, not before what is used, and agrees with the address.
LEMMA OffsetIs ==
  ASSUME Align \in Nat \ {0}, NEW section, NEW used \in Int, NEW start \in Int
  PROVE  /\ Offset(section, used, start) \in Int
         /\ used <= Offset(section, used, start)
         /\ section[2] = None => (Offset(section, used, start) - start) % Align = 0
<1> DEFINE d == start - used
           r == d % Align
           q == d \div Align
<1>1. r \in 0..(Align - 1) /\ q \in Int /\ d = Align * q + r /\ d \in Int
  OBVIOUS
<1>2. Offset(section, used, start) = (IF section[2] = None THEN used + r ELSE used)
  BY DEF Offset
<1>3. d = start - used
  OBVIOUS
<1> HIDE DEF d, r, q
<1>4. (used + r) - start = Align * (0 - q)
  <2>1. Align * (0 - q) = 0 - Align * q
    BY <1>1
  <2>2. Align * q \in Int
    BY <1>1
  <2> DEFINE m == Align * q
  <2>3. m \in Int /\ d = m + r /\ Align * (0 - q) = 0 - m
    BY <1>1, <2>1, <2>2
  <2> HIDE DEF m
  <2> QED
    BY <1>1, <1>3, <2>3
<1>5. (Align * (0 - q)) % Align = 0
  BY <1>1
<1>6. r \in Int /\ 0 <= r
  BY <1>1
<1> QED
  BY <1>2, <1>4, <1>5, <1>6

\* The next run is one, and depends on those before it.
LEMMA RunAfterIs ==
  ASSUME TargetCutAssumption, syms \in Seq(Symbol), NEW r \in Seq(Run),
         NEW k \in 1..Cardinality(Firsts), k - 1 <= Len(r)
  PROVE  /\ RunAfter(r, k) \in Run /\ Used(r, k) \in Int
         /\ \A q : (\A j \in 1..(k - 1) : q[j] = r[j]) => RunAfter(q, k) = RunAfter(r, k)
<1> DEFINE n == Cardinality(Firsts)
           B == SameBefore(k)
           m == Max(B)
<1>1. n \in Nat /\ \A j \in 1..n : Nth(Firsts, j) \in DOMAIN syms
  BY FirstsAre
<1>2. \A j \in 1..n : SectionAt(j) \in Section /\ StartAt(j) \in Nat
  <2> TAKE j \in 1..n
  <2>1. syms[Nth(Firsts, j)] \in Symbol
    BY <1>1, ElementOf
  <2> QED
    BY <2>1 DEF SectionAt, StartAt, Symbol
<1> HIDE DEF n
<1>3. k \in 1..n /\ k \in Nat /\ (k < n => k + 1 \in 1..n)
  BY <1>1 DEF n
<1>4. StopAt(k) \in Int
  <2>1. Size \in Int
    BY DEF TargetCutAssumption
  <2>2. k < n => StartAt(k + 1) \in Int
    BY <1>2, <1>3
  <2> QED
    BY <2>1, <2>2 DEF StopAt, n
<1>5. B # {} => m \in 1..(k - 1)
  <2> SUFFICES ASSUME B # {} PROVE m \in 1..(k - 1)
    OBVIOUS
  <2>1. B \in SUBSET (0..k) /\ \A j \in B : j \in 1..(k - 1)
    BY <1>3 DEF SameBefore
  <2> HIDE DEF B
  <2>2. m \in B
    BY <1>3, <2>1, GreatestIs
  <2> QED
    BY <2>1, <2>2
<1> HIDE DEF m, B
<1>6. Used(r, k) = IF B = {} THEN 0 ELSE r[m].off + r[m].end - r[m].start
  BY DEF Used, m, B
<1>7. \A q : (\A j \in 1..(k - 1) : q[j] = r[j]) => Used(q, k) = Used(r, k)
  <2> TAKE q
  <2> HAVE \A j \in 1..(k - 1) : q[j] = r[j]
  <2>1. Used(q, k) = IF B = {} THEN 0 ELSE q[m].off + q[m].end - q[m].start
    BY DEF Used, m, B
  <2>2. B # {} => q[m] = r[m]
    BY <1>5
  <2> QED
    BY <1>6, <2>1, <2>2
<1>8. Used(r, k) \in Int
  <2>1. CASE B = {}
    BY <1>6, <2>1
  <2>2. CASE B # {}
    <3>1. m \in DOMAIN r
      BY <1>3, <1>5, <2>2
    <3>2. r[m] \in Run
      BY <3>1, ElementOf
    <3>3. r[m].off \in Int /\ r[m].end \in Int /\ r[m].start \in Int
      BY <3>2 DEF Run
    <3> QED
      BY <1>6, <2>2, <3>3
  <2> QED
    BY <2>1, <2>2
<1>9. Offset(SectionAt(k), Used(r, k), StartAt(k)) \in Int
  <2>1. Align \in Nat \ {0} /\ StartAt(k) \in Int
    BY <1>2, <1>3 DEF TargetCutAssumption
  <2> QED
    BY <1>8, <2>1, OffsetIs
<1>10. RunAfter(r, k) \in Run
  BY <1>2, <1>3, <1>4, <1>9 DEF RunAfter, Run
<1> QED
  BY <1>7, <1>8, <1>10 DEF RunAfter

\* The layout is as many runs, each after those before it.
LaidOut(r) ==
  /\ r \in Seq(Run) /\ Len(r) = Cardinality(Firsts) /\ DOMAIN r = 1..Cardinality(Firsts)
  /\ \A k \in 1..Cardinality(Firsts) : r[k] = RunAfter(r, k)
LEMMA LayoutIs ==
  ASSUME TargetCutAssumption, syms \in Seq(Symbol)
  PROVE  LaidOut(Layout)
<1> DEFINE n == Cardinality(Firsts)
           D == Seq(Run)
           Next1(r, k) == IF k - 1 <= Len(r) THEN Append(r, RunAfter(r, k)) ELSE r
           step == [p \in (1..n) \X D |-> Next1(p[2], p[1])]
           f == CHOOSE h : IsLaid(h)
           Good(r, k) == r \in Seq(Run) /\ Len(r) = k /\ \A j \in 1..k : r[j] = RunAfter(r, j)
<1>1. n \in Nat
  BY FirstsAre
<1>2. <<>> \in D
  OBVIOUS
<1>3. \A k \in 1..n, r \in D : Next1(r, k) \in D
  <2> TAKE k \in 1..n, r \in D
  <2>1. k - 1 <= Len(r) => RunAfter(r, k) \in Run
    BY RunAfterIs
  <2> HIDE DEF n
  <2>2. r \in Seq(Run)
    OBVIOUS
  <2>3. k - 1 <= Len(r) => Append(r, RunAfter(r, k)) \in Seq(Run)
    BY <2>1, <2>2
  <2> QED
    BY <2>2, <2>3
<1>4. /\ step \in [(1..n) \X D -> D]
      /\ \A k \in 1..n, r \in D : step[<<k, r>>] = Next1(r, k)
  <2> HIDE DEF n, D, Next1
  <2> QED
    BY <1>3
<1> HIDE DEF n, D, step
<1>5. PICK g : Iterates(g, n, D, <<>>, step)
  <2>1. step \in Steps(n, D)
    BY <1>4 DEF Steps
  <2> QED
    BY <1>1, <1>2, <2>1, RecursionUpTo
<1>6. g \in [0..n -> D] /\ g[0] = <<>> /\ \A k \in 1..n : g[k] = step[<<k, g[k - 1]>>]
  BY <1>5 DEF Iterates
<1>7. \A k \in 1..n : k - 1 \in 0..n /\ k \in 0..n /\ k # 0
  BY <1>1
<1>8. \A k \in 1..n : g[k] = Next1(g[k - 1], k)
  <2> HIDE DEF Next1
  <2> QED
    BY <1>4, <1>6, <1>7
<1>9. ASSUME NEW r, NEW k \in 1..n, Good(r, k - 1) PROVE Good(Append(r, RunAfter(r, k)), k)
  <2> DEFINE a == RunAfter(r, k)
             q == Append(r, a)
  <2>1. r \in Seq(Run) /\ Len(r) = k - 1 /\ \A j \in 1..(k - 1) : r[j] = RunAfter(r, j)
    BY <1>9
  <2>2. k - 1 <= Len(r)
    BY <1>1, <2>1
  <2>3. a \in Run /\ \A p : (\A j \in 1..(k - 1) : p[j] = r[j]) => RunAfter(p, k) = a
    BY <1>1, <2>1, <2>2, RunAfterIs DEF n
  <2> HIDE DEF a
  <2>4. q \in Seq(Run) /\ Len(q) = k /\ (\A j \in 1..(k - 1) : q[j] = r[j]) /\ q[k] = a
    BY <1>1, <2>1, <2>3
  <2> HIDE DEF q
  <2>5. q[k] = RunAfter(q, k)
    BY <2>3, <2>4
  <2>6. ASSUME NEW j \in 1..(k - 1) PROVE q[j] = RunAfter(q, j)
    <3>1. j \in 1..n /\ j - 1 <= Len(r) /\ \A i \in 1..(j - 1) : i \in 1..(k - 1)
      BY <1>1, <2>1
    <3>2. RunAfter(q, j) = RunAfter(r, j)
      <4>1. \A i \in 1..(j - 1) : q[i] = r[i]
        BY <2>4, <3>1
      <4> QED
        BY <2>1, <3>1, <4>1, RunAfterIs DEF n
    <3> QED
      BY <2>1, <2>4, <3>2
  <2>7. \A j \in 1..k : j = k \/ j \in 1..(k - 1)
    BY <1>1
  <2>8. Good(q, k)
    BY <2>4, <2>5, <2>6, <2>7
  <2> QED
    BY <2>8 DEF q, a
<1>0. Good(<<>>, 0)
  OBVIOUS
<1>10. \A k \in 0..n : Good(g[k], k)
  <2> DEFINE S == {k \in 0..n : Good(g[k], k)}
  <2>1. 0 \in S
    <3> HIDE DEF Good
    <3> QED
      BY <1>0, <1>1, <1>6
  <2>2. ASSUME NEW k \in 1..n, k - 1 \in S PROVE k \in S
    <3>1. Good(g[k - 1], k - 1)
      BY <2>2
    <3>2. g[k] = Append(g[k - 1], RunAfter(g[k - 1], k))
      <4>1. Len(g[k - 1]) = k - 1 /\ k - 1 <= k - 1
        BY <1>1, <3>1
      <4> QED
        BY <1>8, <4>1
    <3>3. Good(Append(g[k - 1], RunAfter(g[k - 1], k)), k)
      <4> HIDE DEF Good
      <4> QED
        BY <1>9, <3>1
    <3> HIDE DEF Good
    <3> QED
      BY <1>7, <3>2, <3>3
  <2> HIDE DEF S
  <2>3. \A k \in 0..n : k \in S
    BY <1>1, <2>1, <2>2, InductionUpTo
  <2> QED
    BY <2>3 DEF S
<1>11. IsLaid(g)
  <2>1. ASSUME NEW k \in 1..n PROVE g[k] = Append(g[k - 1], RunAfter(g[k - 1], k))
    <3>1. Len(g[k - 1]) = k - 1 /\ k - 1 <= k - 1
      BY <1>1, <1>7, <1>10
    <3> QED
      BY <1>8, <3>1
  <2>2. \A k \in 0..n : k # 0 => k \in 1..n
    BY <1>1
  <2>3. \A k \in 0..n : g[k] = IF k = 0 THEN <<>> ELSE Append(g[k - 1], RunAfter(g[k - 1], k))
    BY <1>6, <2>1, <2>2
  <2>4. g = [k \in 0..n |-> IF k = 0 THEN <<>> ELSE Append(g[k - 1], RunAfter(g[k - 1], k))]
    BY <1>6, <2>3
  <2> QED
    BY <2>4 DEF IsLaid, n
<1>12. IsLaid(f)
  BY <1>11
<1>13. Layout = f[n]
  BY LayoutIsLaid DEF n
<1> HIDE DEF f
<1>14. \A k \in 0..n : f[k] = IF k = 0 THEN <<>> ELSE Append(f[k - 1], RunAfter(f[k - 1], k))
  <2>1. f = [k \in 0..n |-> IF k = 0 THEN <<>> ELSE Append(f[k - 1], RunAfter(f[k - 1], k))]
    BY <1>12 DEF IsLaid, n
  <2> QED
    BY <2>1
<1> DEFINE S == {k \in 0..n : Good(f[k], k)}
<1>15. 0 \in S
  <2>1. f[0] = <<>> /\ 0 \in 0..n
    BY <1>1, <1>14
  <2> HIDE DEF Good
  <2> QED
    BY <1>0, <2>1
<1>16. ASSUME NEW k \in 1..n, k - 1 \in S PROVE k \in S
  <2>1. Good(f[k - 1], k - 1)
    BY <1>16
  <2>2. f[k] = Append(f[k - 1], RunAfter(f[k - 1], k))
    BY <1>7, <1>14
  <2> HIDE DEF Good
  <2>3. Good(Append(f[k - 1], RunAfter(f[k - 1], k)), k)
    BY <1>9, <2>1
  <2> QED
    BY <1>7, <2>2, <2>3
<1> HIDE DEF S
<1>17. \A k \in 0..n : k \in S
  BY <1>1, <1>15, <1>16, InductionUpTo
<1>18. Good(f[n], n)
  BY <1>1, <1>17 DEF S
<1> DEFINE l == f[n]
<1>19. l \in Seq(Run) /\ Len(l) = n /\ \A j \in 1..n : l[j] = RunAfter(l, j)
  BY <1>18
<1> HIDE DEF l
<1>20. DOMAIN l = 1..n
  BY <1>19
<1>21. LaidOut(l)
  BY <1>19, <1>20 DEF LaidOut, n
<1> QED
  BY <1>13, <1>21 DEF l

\* It is that of the symbols.
LEMMA LayoutStays ==
  ASSUME UNCHANGED syms
  PROVE  Layout' = Layout
<1>1. Firsts' = Firsts
  <2>1. \A i : Begins(i)' <=> Begins(i)
    BY DEF Begins
  <2> QED
    BY <2>1 DEF Firsts
<1>2. \A k : SectionAt(k)' = SectionAt(k) /\ StartAt(k)' = StartAt(k)
  BY <1>1 DEF SectionAt, StartAt
<1>3. \A k : StopAt(k)' = StopAt(k)
  BY <1>1, <1>2 DEF StopAt
<1>4. \A k : SameBefore(k)' = SameBefore(k)
  BY <1>2 DEF SameBefore
<1>5. \A r, k : Used(r, k)' = Used(r, k)
  BY <1>4 DEF Used
<1>6. \A r, k : RunAfter(r, k)' = RunAfter(r, k)
  BY <1>2, <1>3, <1>5 DEF RunAfter
<1>7. \A h : IsLaid(h)' <=> IsLaid(h)
  BY <1>1, <1>6 DEF IsLaid
<1>8. (CHOOSE h : IsLaid(h))' = (CHOOSE h : IsLaid(h))
  BY <1>7
<1>9. (Layout = (CHOOSE h : IsLaid(h))[Cardinality(Firsts)])'
  BY LayoutIsLaid, PTL
<1> QED
  BY <1>1, <1>8, <1>9, LayoutIsLaid

\* Writing lays the symbols out.
LEMMA WriteCuts ==
  ASSUME TargetCutAssumption, CutInv, Write
  PROVE  CutInv'
<1>0. InputsOK /\ TypeOK /\ Placed /\ (ExtentsApart => InPlace /\ Covers(syms, 0, Size)) /\ pc = "write"
  BY DEF CutInv, Write
<1>1. /\ runs' = Layout /\ pc' = "written" /\ UNCHANGED inputs
      /\ rows' = rows /\ syms' = syms /\ cur' = cur /\ todo' = todo /\ mapping' = mapping
  BY DEF Write
<1>2. /\ Placed' /\ (ExtentsApart' <=> ExtentsApart)
      /\ \A y : (InItsPool(y)' <=> InItsPool(y)) /\ (InItsPlace(y)' <=> InItsPlace(y))
  BY <1>0, <1>1, RowsStay, InputsStay
<1>3. InPlace' <=> InPlace
  BY <1>1, <1>2 DEF InPlace
<1>4. Layout' = Layout
  BY <1>1, LayoutStays
<1>5. Layout \in Seq(Run)
  <2>1. syms \in Seq(Symbol)
    BY <1>0 DEF TypeOK
  <2> QED
    BY <2>1, LayoutIs DEF LaidOut
<1>6. TypeOK'
  BY <1>0, <1>1, <1>5 DEF TypeOK
<1>7. InputsOK'
  BY <1>2 DEF Placed
<1>8. Covers(syms, 0, Size)' <=> Covers(syms, 0, Size)
  BY <1>1
<1> QED
  BY <1>0, <1>1, <1>2, <1>3, <1>4, <1>6, <1>7, <1>8 DEF CutInv

\* Nothing changes it otherwise.
LEMMA StutterCuts ==
  ASSUME CutInv, UNCHANGED vars
  PROVE  CutInv'
<1>1. /\ UNCHANGED inputs /\ pc' = pc /\ rows' = rows /\ syms' = syms /\ cur' = cur
      /\ todo' = todo /\ mapping' = mapping /\ runs' = runs
  BY DEF vars
<1>2. /\ (InputsOK' <=> InputsOK) /\ (ExtentsApart' <=> ExtentsApart)
      /\ (Placed' <=> Placed) /\ RowAddrs' = RowAddrs
      /\ \A a : NextAddr(a)' = NextAddr(a)
      /\ \A y : /\ (InItsPool(y)' <=> InItsPool(y)) /\ (InItsPlace(y)' <=> InItsPlace(y))
                /\ (IsRowOf(y)' <=> IsRowOf(y))
  BY <1>1, RowsStay, InputsStay
<1>3. InPlace' <=> InPlace
  BY <1>1, <1>2 DEF InPlace
<1>4. Layout' = Layout
  BY <1>1, LayoutStays
<1>5. TypeOK' <=> TypeOK
  BY <1>1 DEF TypeOK
<1>6. Completed' <=> Completed
  <2>1. \A i : IsGap(i)' <=> IsGap(i)
    BY <1>1, <1>2 DEF IsGap
  <2> QED
    BY <1>1, <1>2, <2>1 DEF Completed
<1>7. Coming' <=> Coming
  BY <1>1, <1>2 DEF Coming
<1>8. /\ (Covers(syms, 0, Size)' <=> Covers(syms, 0, Size))
      /\ ((\A i \in DOMAIN syms : IF syms[i].pad THEN syms[i].name = None ELSE IsRowOf(syms[i]))'
           <=> \A i \in DOMAIN syms : IF syms[i].pad THEN syms[i].name = None ELSE IsRowOf(syms[i]))
  BY <1>1, <1>2
<1> QED
  BY <1>1, <1>2, <1>3, <1>4, <1>5, <1>6, <1>7, <1>8 DEF CutInv

\* Each pass leaves the next one symbols in address order, with neither gap nor overlap
\* where nothing begins inside a function, each where its row or its gap belongs.
THEOREM TargetCutInv == Spec => []CutInv
<1>1. Init => CutInv
  BY TargetCutAssumption, InitCutInv
<1>2. CutInv /\ [Next]_vars => CutInv'
  <2> SUFFICES ASSUME CutInv, [Next]_vars PROVE CutInv'
    OBVIOUS
  <2>1. CASE PlaceMarkers
    BY <2>1, TargetCutAssumption, PlaceMarkersCuts
  <2>2. CASE CompleteSymbol
    BY <2>2, TargetCutAssumption, CompleteSymbolCuts
  <2>3. CASE CompleteGap
    BY <2>3, TargetCutAssumption, CompleteGapCuts
  <2>4. CASE CompleteEnds
    BY <2>4, TargetCutAssumption, CompleteEndsCuts
  <2>5. CASE Settle
    BY <2>5, TargetCutAssumption, SettleCuts
  <2>6. CASE CutPools
    BY <2>6, TargetCutAssumption, CutPoolsCuts
  <2>7. CASE Write
    BY <2>7, TargetCutAssumption, WriteCuts
  <2>8. CASE UNCHANGED vars
    BY <2>8, StutterCuts
  <2> QED
    BY <2>1, <2>2, <2>3, <2>4, <2>5, <2>6, <2>7, <2>8 DEF Next
<1> QED
  BY <1>1, <1>2, PTL DEF Spec

\* Every variable keeps its type: `cur` stays in the binary, and what is placed of a
\* function is a symbol in a section it can be in.
THEOREM TargetCutTypeCorrect == Spec => []TypeOK
<1>1. CutInv => TypeOK
  BY DEF CutInv
<1> QED
  BY <1>1, TargetCutInv, PTL

-----------------------------------------------------------------------------
(* The target as it is read.                                               *)

\* What is written: the runs of symbols that cover the binary.
Written == syms \in Seq(Symbol) /\ Covers(syms, 0, Size) /\ runs = Layout

\* Each run is that of the symbols it begins with.
LEMMA RunsAre ==
  ASSUME TargetCutAssumption, Written
  PROVE  /\ Cardinality(Firsts) \in Nat /\ DOMAIN runs = 1..Cardinality(Firsts)
         /\ \A k \in 1..Cardinality(Firsts) :
              /\ runs[k].section = SectionAt(k) /\ runs[k].start = StartAt(k) /\ runs[k].end = StopAt(k)
              /\ runs[k].off = Offset(SectionAt(k), Used(runs, k), StartAt(k))
              /\ Used(runs, k) \in Int /\ runs[k].off \in Int
<1> DEFINE n == Cardinality(Firsts)
<1>1. LaidOut(runs)
  BY LayoutIs DEF Written
<1>2. n \in Nat
  BY FirstsAre DEF Written
<1>3. /\ runs \in Seq(Run) /\ Len(runs) = n /\ DOMAIN runs = 1..n
      /\ \A k \in 1..n : runs[k] = RunAfter(runs, k)
  BY <1>1 DEF LaidOut
<1>4. ASSUME NEW k \in 1..n
      PROVE  /\ runs[k].section = SectionAt(k) /\ runs[k].start = StartAt(k) /\ runs[k].end = StopAt(k)
             /\ runs[k].off = Offset(SectionAt(k), Used(runs, k), StartAt(k))
             /\ Used(runs, k) \in Int /\ runs[k].off \in Int
  <2>1. k - 1 <= Len(runs)
    BY <1>2, <1>3
  <2>2. Used(runs, k) \in Int
    BY <1>3, <2>1, RunAfterIs DEF Written
  <2>3. runs[k].off \in Int
    <3>1. runs[k] \in Run
      BY <1>3, ElementOf
    <3> QED
      BY <3>1 DEF Run
  <2>4. /\ runs[k].section = SectionAt(k) /\ runs[k].start = StartAt(k) /\ runs[k].end = StopAt(k)
        /\ runs[k].off = Offset(SectionAt(k), Used(runs, k), StartAt(k))
    BY <1>3 DEF RunAfter
  <2> QED
    BY <2>2, <2>3, <2>4
<1> QED
  BY <1>2, <1>3, <1>4

\* They follow one another over the binary.
LEMMA RunsInOrder ==
  ASSUME TargetCutAssumption, Written
  PROVE  /\ \A k \in 1..Cardinality(Firsts) : /\ StartAt(k) \in Nat /\ StopAt(k) \in Nat
                                              /\ StartAt(k) <= StopAt(k)
         /\ \A j, k \in 1..Cardinality(Firsts) : j < k => StopAt(j) <= StartAt(k)
         /\ \A b \in Byte : \E k \in 1..Cardinality(Firsts) : StartAt(k) <= b /\ b < StopAt(k)
<1> DEFINE n == Cardinality(Firsts)
<1>1. syms \in Seq(Symbol) /\ Covers(syms, 0, Size) /\ Size \in Nat
  BY DEF Written, TargetCutAssumption
<1>2. /\ n \in Nat
      /\ \A k \in 1..n : Nth(Firsts, k) \in DOMAIN syms
      /\ \A i \in Firsts : i \in DOMAIN syms /\ i \in Nat
      /\ \A i \in Firsts : \E k \in 1..n : Nth(Firsts, k) = i
      /\ \A j, k \in 1..n : j < k => Nth(Firsts, j) < Nth(Firsts, k)
  BY <1>1, FirstsAre
<1>3. \A i, j \in DOMAIN syms : i < j => syms[i].addr <= syms[j].addr
  <2>1. DOMAIN syms = 1..Len(syms) /\ Len(syms) \in Nat
    BY <1>1
  <2>2. \A i, j \in DOMAIN syms : i < j => End(syms[i]) <= syms[j].addr
    BY <1>1, <2>1, CoversInOrder
  <2>3. \A i \in DOMAIN syms : syms[i].addr \in Nat /\ End(syms[i]) \in Nat /\ syms[i].addr <= End(syms[i])
    <3> TAKE i \in DOMAIN syms
    <3>1. syms[i] \in Symbol
      BY <1>1, ElementOf
    <3>2. syms[i].addr \in Nat /\ syms[i].size \in Nat /\ End(syms[i]) = syms[i].addr + syms[i].size
      BY <3>1, SymbolTyped
    <3> QED
      BY <3>2
  <2> QED
    BY <2>2, <2>3
<1>4. \A i \in DOMAIN syms : syms[i].addr \in Nat /\ syms[i].addr <= Size
  <2> TAKE i \in DOMAIN syms
  <2>1. syms[i] \in Symbol /\ End(syms[i]) <= Size
    BY <1>1, ElementOf, CoversWithin
  <2>2. syms[i].addr \in Nat /\ syms[i].size \in Nat /\ End(syms[i]) = syms[i].addr + syms[i].size
    BY <2>1, SymbolTyped
  <2> QED
    BY <1>1, <2>1, <2>2
<1> HIDE DEF n
<1>5. \A k \in 1..n : StartAt(k) \in Nat /\ StartAt(k) <= Size
  BY <1>2, <1>4 DEF StartAt
<1>6. \A j, k \in 1..n : j < k => StartAt(j) <= StartAt(k)
  BY <1>2, <1>3 DEF StartAt
<1>7. \A k \in 1..n : k < n => k + 1 \in 1..n
  BY <1>2
<1>8. \A k \in 1..n : StopAt(k) = IF k < n THEN StartAt(k + 1) ELSE Size
  BY DEF StopAt, n
<1>9. ASSUME NEW k \in 1..n PROVE StopAt(k) \in Nat /\ StartAt(k) <= StopAt(k)
  <2>1. CASE k < n
    <3>1. k + 1 \in 1..n /\ k < k + 1 /\ StopAt(k) = StartAt(k + 1)
      BY <1>7, <1>8, <2>1
    <3> QED
      BY <1>5, <1>6, <3>1
  <2>2. CASE ~(k < n)
    BY <1>1, <1>5, <1>8, <2>2
  <2> QED
    BY <2>1, <2>2
<1>10. ASSUME NEW j \in 1..n, NEW k \in 1..n, j < k PROVE StopAt(j) <= StartAt(k)
  <2>1. j < n /\ j + 1 \in 1..n /\ (j + 1 = k \/ j + 1 < k)
    BY <1>2, <1>10
  <2>2. StopAt(j) = StartAt(j + 1) /\ StartAt(k) \in Nat
    BY <1>5, <1>8, <2>1
  <2>3. j + 1 < k => StartAt(j + 1) <= StartAt(k)
    BY <1>6, <2>1
  <2> QED
    BY <2>1, <2>2, <2>3
<1>11. ASSUME NEW b \in Byte PROVE \E k \in 1..n : StartAt(k) <= b /\ b < StopAt(k)
  <2>1. b \in Nat /\ b < Size
    BY <1>1 DEF Byte
  <2>2. syms # <<>> /\ syms[1].addr = 0 /\ 1 \in DOMAIN syms
    <3>1. syms # <<>>
      BY <1>1, <2>1 DEF Covers
    <3>2. 1 \in DOMAIN syms
      BY <1>1, <3>1
    <3> QED
      BY <1>1, <3>1, <3>2 DEF Covers
  <2>3. 1 \in Firsts
    BY <2>2 DEF Firsts, Begins
  <2>4. PICK j \in 1..n : Nth(Firsts, j) = 1
    BY <1>2, <2>3
  <2> DEFINE K == {k \in 1..n : StartAt(k) <= b}
             m == Max(K)
  <2>5. j \in K
    BY <2>1, <2>2, <2>4 DEF StartAt
  <2>6. K \in SUBSET (0..n)
    OBVIOUS
  <2>7. m \in K /\ \A k \in K : k <= m
    <3> HIDE DEF K
    <3> QED
      BY <1>2, <2>5, <2>6, GreatestIs
  <2> HIDE DEF m
  <2>8. m \in 1..n /\ StartAt(m) <= b
    BY <2>7
  <2>9. b < StopAt(m)
    <3>1. CASE m < n
      <4>1. m + 1 \in 1..n /\ StopAt(m) = StartAt(m + 1) /\ ~(m + 1 <= m)
        BY <1>2, <1>7, <1>8, <2>8, <3>1
      <4>2. ~(StartAt(m + 1) <= b)
        BY <2>7, <4>1
      <4> QED
        BY <1>5, <2>1, <4>1, <4>2
    <3>2. CASE ~(m < n)
      BY <1>8, <2>1, <2>8, <3>2
    <3> QED
      BY <3>1, <3>2
  <2> QED
    BY <2>8, <2>9
<1> QED
  BY <1>5, <1>9, <1>10, <1>11 DEF n

\* A byte is in one run, where `place` finds it.
LEMMA RunOfIs ==
  ASSUME TargetCutAssumption, Written, NEW b \in Byte
  PROVE  \E k \in 1..Cardinality(Firsts) :
           /\ RunOf(b) = runs[k] /\ StartAt(k) <= b /\ b < StopAt(k)
           /\ \A j \in 1..Cardinality(Firsts) \ {k} : ~(StartAt(j) <= b /\ b < StopAt(j))
           /\ \A j \in 1..Cardinality(Firsts) : StartAt(j) <= b => j <= k
<1> DEFINE n == Cardinality(Firsts)
           Is(k) == runs[k].start <= b /\ \A j \in DOMAIN runs : runs[j].start <= b => j <= k
<1>1. n \in Nat /\ DOMAIN runs = 1..n /\ (\A k \in 1..n : runs[k].start = StartAt(k))
  BY RunsAre
<1>2. /\ \A k \in 1..n : StartAt(k) \in Nat /\ StopAt(k) \in Nat
      /\ \A j, k \in 1..n : j < k => StopAt(j) <= StartAt(k)
      /\ \E k \in 1..n : StartAt(k) <= b /\ b < StopAt(k)
  BY RunsInOrder
<1>3. b \in Int
  BY DEF Byte, TargetCutAssumption
<1> HIDE DEF n
<1>4. PICK k \in 1..n : StartAt(k) <= b /\ b < StopAt(k)
  BY <1>2
<1>5. ASSUME NEW j \in 1..n, StartAt(j) <= b PROVE j <= k
  <2>1. k < j => StopAt(k) <= StartAt(j)
    BY <1>2
  <2>2. ~(k < j)
    BY <1>2, <1>3, <1>4, <1>5, <2>1
  <2> QED
    BY <1>1, <2>2
<1>6. ASSUME NEW j \in 1..n, j # k, StartAt(j) <= b, b < StopAt(j) PROVE FALSE
  <2>1. j <= k
    BY <1>5, <1>6
  <2>2. j < k
    BY <1>1, <1>6, <2>1
  <2>3. StopAt(j) <= StartAt(k)
    BY <1>2, <2>2
  <2> QED
    BY <1>2, <1>3, <1>4, <1>6, <2>3
<1>7. Is(k) /\ k \in DOMAIN runs
  BY <1>1, <1>4, <1>5
<1>8. \A j \in DOMAIN runs : Is(j) => j = k
  <2> TAKE j \in DOMAIN runs
  <2> HAVE Is(j)
  <2>1. k <= j /\ j <= k
    BY <1>1, <1>7
  <2> QED
    BY <1>1, <2>1
<1>9. RunOf(b) = runs[CHOOSE j \in DOMAIN runs : Is(j)]
  BY DEF RunOf
<1> HIDE DEF Is
<1>10. RunOf(b) = runs[k]
  BY <1>7, <1>8, <1>9
<1> QED
  BY <1>4, <1>5, <1>6, <1>10 DEF n

\* A byte is in the section of its symbol.
LEMMA SectionIs ==
  ASSUME TargetCutAssumption, Written, NEW b \in Byte,
         NEW i \in DOMAIN syms, syms[i].addr <= b, b < End(syms[i])
  PROVE  PlaceOf(b)[1] = syms[i].section
<1> DEFINE n == Cardinality(Firsts)
<1>1. syms \in Seq(Symbol) /\ Covers(syms, 0, Size) /\ DOMAIN syms = 1..Len(syms) /\ Len(syms) \in Nat
  BY DEF Written
<1>2. /\ n \in Nat
      /\ \A k \in 1..n : Nth(Firsts, k) \in Firsts
      /\ \A q \in Firsts : q \in DOMAIN syms /\ q \in Nat /\ Begins(q)
      /\ \A q \in Firsts : \E k \in 1..n : Nth(Firsts, k) = q
      /\ \A j, k \in 1..n : j < k => Nth(Firsts, j) < Nth(Firsts, k)
  BY <1>1, FirstsAre
<1>3. PICK k \in 1..n : /\ RunOf(b) = runs[k] /\ StartAt(k) <= b
                        /\ \A j \in 1..n : StartAt(j) <= b => j <= k
  BY RunOfIs
<1>4. PlaceOf(b)[1] = SectionAt(k)
  <2>1. runs[k].section = SectionAt(k)
    BY RunsAre
  <2> QED
    BY <1>3, <2>1 DEF PlaceOf
<1> HIDE DEF n
<1>5. \A j, l \in DOMAIN syms : j < l => End(syms[j]) <= syms[l].addr
  BY <1>1, CoversInOrder
<1>6. \A j \in DOMAIN syms : syms[j].addr \in Nat /\ End(syms[j]) \in Nat /\ syms[j].addr <= End(syms[j])
  <2> TAKE j \in DOMAIN syms
  <2>1. syms[j] \in Symbol
    BY <1>1, ElementOf
  <2>2. syms[j].addr \in Nat /\ syms[j].size \in Nat /\ End(syms[j]) = syms[j].addr + syms[j].size
    BY <2>1, SymbolTyped
  <2> QED
    BY <2>2
<1>7. b \in Int
  BY DEF Byte, TargetCutAssumption
<1> DEFINE p == Nth(Firsts, k)
<1>8. p \in Firsts /\ p \in DOMAIN syms /\ p \in Nat /\ syms[p].addr <= b /\ SectionAt(k) = syms[p].section
  BY <1>2, <1>3 DEF StartAt, SectionAt
<1>9. \A j \in 1..n : k < j => p < Nth(Firsts, j)
  BY <1>2
<1>10. \A q \in Firsts : p < q => \E j \in 1..n : Nth(Firsts, j) = q /\ k < j
  <2> TAKE q \in Firsts
  <2> HAVE p < q
  <2>1. PICK j \in 1..n : Nth(Firsts, j) = q
    BY <1>2
  <2>2. ~(j < k) /\ j # k
    <3>1. j < k => q < p
      BY <1>2, <2>1
    <3>2. q \in Nat
      BY <1>2
    <3>3. j # k
      BY <1>8, <2>1, <3>2
    <3> QED
      BY <1>8, <3>1, <3>2, <3>3
  <2> QED
    BY <1>2, <2>1, <2>2
<1> HIDE DEF p
<1>11. i \in Nat /\ p <= i
  <2>1. i \in Nat
    BY <1>1
  <2>2. i < p => End(syms[i]) <= syms[p].addr
    BY <1>5, <1>8
  <2>3. ~(i < p)
    BY <1>6, <1>7, <1>8, <2>2
  <2> QED
    BY <1>8, <2>1, <2>3
<1>12. ASSUME NEW q \in Firsts, p < q, q <= i PROVE FALSE
  <2>1. PICK j \in 1..n : Nth(Firsts, j) = q /\ k < j
    BY <1>10, <1>12
  <2>2. q \in DOMAIN syms /\ q \in Nat
    BY <1>2
  <2>3. syms[q].addr <= syms[i].addr
    <3>1. q = i \/ q < i
      BY <1>11, <1>12, <2>2
    <3>2. q < i => End(syms[q]) <= syms[i].addr
      BY <1>5, <2>2
    <3> QED
      BY <1>6, <2>2, <3>1, <3>2
  <2>4. StartAt(j) = syms[q].addr
    BY <2>1 DEF StartAt
  <2>5. StartAt(j) <= b
    BY <1>6, <1>7, <2>2, <2>3, <2>4
  <2>6. j <= k
    BY <1>3, <2>5
  <2> QED
    BY <1>2, <2>1, <2>6
<1> DEFINE m == i - p
           S == {d \in 0..m : syms[p + d].section = syms[p].section}
<1>13. m \in Nat /\ p + 0 = p /\ p + m = i
  BY <1>8, <1>11
<1> HIDE DEF m
<1>14. 0 \in S
  BY <1>13
<1>15. ASSUME NEW d \in 1..m, d - 1 \in S PROVE d \in S
  <2> DEFINE q == p + d
  <2>1. p < q /\ q <= i /\ q \in Nat /\ q - 1 = p + (d - 1) /\ q # 1
    BY <1>8, <1>11, <1>13, <1>1
  <2>2. q \in DOMAIN syms
    BY <1>1, <1>8, <2>1
  <2> HIDE DEF q
  <2>3. q \notin Firsts
    BY <1>12, <2>1
  <2>4. ~Begins(q)
    BY <2>2, <2>3 DEF Firsts
  <2>5. syms[q].section = syms[q - 1].section
    BY <2>1, <2>4 DEF Begins
  <2>6. syms[q - 1].section = syms[p].section
    BY <1>15, <2>1
  <2>7. d \in 0..m
    BY <1>13
  <2> QED
    BY <2>5, <2>6, <2>7 DEF q
<1> HIDE DEF S
<1>16. \A d \in 0..m : d \in S
  BY <1>13, <1>14, <1>15, InductionUpTo
<1>17. syms[i].section = syms[p].section
  <2>1. m \in S
    BY <1>13, <1>16
  <2> QED
    BY <1>13, <2>1 DEF S
<1> QED
  BY <1>4, <1>8, <1>17

\* The runs of one section are laid one after another.
LEMMA OffsetsInOrder ==
  ASSUME TargetCutAssumption, Written
  PROVE  \A j, k \in 1..Cardinality(Firsts) :
           j < k /\ SectionAt(j) = SectionAt(k) => runs[j].off + StopAt(j) - StartAt(j) <= runs[k].off
<1> DEFINE n == Cardinality(Firsts)
           Stop(j) == runs[j].off + StopAt(j) - StartAt(j)
           After1(k) == \A j \in 1..n : j < k /\ SectionAt(j) = SectionAt(k) => Stop(j) <= runs[k].off
           S == {k \in 0..n : \A l \in 1..n : l <= k => After1(l)}
<1>1. /\ n \in Nat /\ \A k \in 1..n :
           /\ runs[k].start = StartAt(k) /\ runs[k].end = StopAt(k)
           /\ runs[k].off = Offset(SectionAt(k), Used(runs, k), StartAt(k))
           /\ Used(runs, k) \in Int /\ runs[k].off \in Int
  BY RunsAre
<1>2. \A k \in 1..n : /\ StartAt(k) \in Int /\ StopAt(k) \in Int /\ StartAt(k) <= StopAt(k)
                      /\ Stop(k) \in Int /\ runs[k].off <= Stop(k)
  <2> TAKE k \in 1..n
  <2>1. StartAt(k) \in Int /\ StopAt(k) \in Int /\ StartAt(k) <= StopAt(k)
    BY RunsInOrder
  <2>2. runs[k].off \in Int
    BY <1>1
  <2> QED
    BY <2>1, <2>2
<1>3. \A k \in 1..n : Used(runs, k) <= runs[k].off
  <2> TAKE k \in 1..n
  <2>1. Align \in Nat \ {0} /\ StartAt(k) \in Int /\ Used(runs, k) \in Int
    BY <1>1, <1>2 DEF TargetCutAssumption
  <2>2. Used(runs, k) <= Offset(SectionAt(k), Used(runs, k), StartAt(k))
    BY <2>1, OffsetIs
  <2> QED
    BY <1>1, <2>2
<1>4. \A k \in 1..n : SameBefore(k) # {} =>
         \E m \in SameBefore(k) : Used(runs, k) = Stop(m) /\ \A j \in SameBefore(k) : j <= m
  <2> TAKE k \in 1..n
  <2> HAVE SameBefore(k) # {}
  <2> DEFINE m == Max(SameBefore(k))
  <2>1. SameBefore(k) \in SUBSET (0..n)
    BY <1>1 DEF SameBefore
  <2>2. m \in SameBefore(k) /\ \A j \in SameBefore(k) : j <= m
    BY <1>1, <2>1, GreatestIs
  <2>3. m \in 1..n
    BY <1>1, <2>2 DEF SameBefore
  <2>4. Used(runs, k) = runs[m].off + runs[m].end - runs[m].start
    BY DEF Used
  <2>5. Used(runs, k) = Stop(m)
    BY <1>1, <2>3, <2>4
  <2> QED
    BY <2>2, <2>5
<1> HIDE DEF n, Stop
<1>5. 0 \in S
  BY <1>1
<1>6. ASSUME NEW k \in 1..n, k - 1 \in S PROVE k \in S
  <2>1. ASSUME NEW j \in 1..n, j < k, SectionAt(j) = SectionAt(k) PROVE Stop(j) <= runs[k].off
    <3>1. j \in SameBefore(k)
      BY <1>1, <2>1 DEF SameBefore
    <3>2. PICK m \in SameBefore(k) : Used(runs, k) = Stop(m) /\ \A l \in SameBefore(k) : l <= m
      BY <1>4, <3>1
    <3>3. m \in 1..n /\ m <= k - 1 /\ SectionAt(m) = SectionAt(k) /\ j <= m
      BY <1>1, <3>1, <3>2 DEF SameBefore
    <3>4. Stop(m) <= runs[k].off
      BY <1>3, <3>2
    <3>5. After1(m)
      BY <1>6, <3>3
    <3>6. j # m => Stop(j) <= runs[m].off
      <4>1. j # m => j < m
        BY <3>3
      <4> QED
        BY <2>1, <3>3, <3>5, <4>1
    <3>7. CASE j = m
      BY <3>4, <3>7
    <3>8. CASE j # m
      <4>1. Stop(j) \in Int /\ runs[m].off \in Int /\ Stop(m) \in Int /\ runs[k].off \in Int /\ runs[m].off <= Stop(m)
        BY <1>1, <1>2, <3>3
      <4> QED
        BY <3>4, <3>6, <3>8, <4>1
    <3> QED
      BY <3>7, <3>8
  <2>2. \A l \in 1..n : l <= k => l = k \/ l <= k - 1
    BY <1>1
  <2>3. After1(k)
    BY <2>1
  <2>4. k \in 0..n
    BY <1>1
  <2> HIDE DEF After1
  <2> QED
    BY <1>6, <2>2, <2>3, <2>4
<1> HIDE DEF S
<1>7. \A k \in 0..n : k \in S
  BY <1>1, <1>5, <1>6, InductionUpTo
<1>8. n \in S
  BY <1>1, <1>7
<1>9. \A k \in 1..n : After1(k)
  <2>1. \A k \in 1..n : k <= n
    BY <1>1
  <2> QED
    BY <1>8, <2>1 DEF S
<1> QED
  BY <1>9 DEF n, Stop

\* The bytes of one section come in the order of their addresses.
LEMMA PlacesInOrder ==
  ASSUME TargetCutAssumption, Written, NEW a \in Byte, NEW b \in Byte, a < b
  PROVE  /\ PlaceOf(a)[2] \in Int /\ PlaceOf(b)[2] \in Int
         /\ PlaceOf(a)[1] = PlaceOf(b)[1] => PlaceOf(a)[2] < PlaceOf(b)[2]
<1> DEFINE n == Cardinality(Firsts)
<1>1. /\ n \in Nat
      /\ \A k \in 1..n : runs[k].section = SectionAt(k) /\ runs[k].start = StartAt(k) /\ runs[k].off \in Int
  BY RunsAre
<1>2. \A k \in 1..n : StartAt(k) \in Int /\ StopAt(k) \in Int
  BY RunsInOrder
<1>3. a \in Int /\ b \in Int
  BY DEF Byte, TargetCutAssumption
<1>4. PICK j \in 1..n : /\ RunOf(a) = runs[j] /\ StartAt(j) <= a /\ a < StopAt(j)
  BY RunOfIs
<1>5. PICK k \in 1..n : /\ RunOf(b) = runs[k] /\ StartAt(k) <= b
                        /\ \A l \in 1..n : StartAt(l) <= b => l <= k
  BY RunOfIs
<1>6. \A l \in 1..n : j < l /\ SectionAt(j) = SectionAt(l) =>
        runs[j].off + StopAt(j) - StartAt(j) <= runs[l].off
  BY OffsetsInOrder
<1> HIDE DEF n
<1>7. j <= k
  <2>1. StartAt(j) <= b
    BY <1>2, <1>3, <1>4
  <2> QED
    BY <1>5, <2>1
<1>8. PlaceOf(a) = <<SectionAt(j), runs[j].off + a - StartAt(j)>>
  BY <1>1, <1>4 DEF PlaceOf
<1>9. PlaceOf(b) = <<SectionAt(k), runs[k].off + b - StartAt(k)>>
  BY <1>1, <1>5 DEF PlaceOf
<1>10. /\ runs[j].off \in Int /\ runs[k].off \in Int /\ StopAt(j) \in Int
       /\ StartAt(j) \in Int /\ StartAt(k) \in Int
  BY <1>1, <1>2
<1>11. CASE j = k
  <2>1. runs[j].off + a - StartAt(j) < runs[j].off + b - StartAt(j)
    BY <1>3, <1>10
  <2> QED
    BY <1>3, <1>8, <1>9, <1>10, <1>11, <2>1
<1>12. CASE j # k
  <2>1. j < k
    BY <1>1, <1>7, <1>12
  <2>2. SectionAt(j) = SectionAt(k) => runs[j].off + StopAt(j) - StartAt(j) <= runs[k].off
    BY <1>6, <2>1
  <2>3. SectionAt(j) = SectionAt(k) => runs[j].off + a - StartAt(j) < runs[k].off + b - StartAt(k)
    BY <1>3, <1>4, <1>5, <1>10, <2>2
  <2> QED
    BY <1>3, <1>8, <1>9, <1>10, <2>3
<1> QED
  BY <1>11, <1>12

\* So no two are at one place.
LEMMA PlacesApart ==
  ASSUME TargetCutAssumption, Written, NEW a \in Byte, NEW b \in Byte, a < b
  PROVE  PlaceOf(a) # PlaceOf(b)
BY PlacesInOrder

\* What is written has every byte of the binary once, none off its alignment except in
\* the sections of one function or object, and passes that follow one another never
\* have an "Address tracking error": whatever rows overlap, coincide or run past the
\* end, as long as nothing begins inside a function.
THEOREM BytesArePlacedOnce == Spec => []EveryByteIsPlacedOnce
<1>1. CutInv => ~AddressError
  <2> SUFFICES ASSUME CutInv, pc = "complete", todo # {}, cur > Min(todo) PROVE FALSE
    BY DEF AddressError
  <2>1. TypeOK /\ Coming
    BY DEF CutInv
  <2>2. todo \in SUBSET Nat /\ cur \in Nat
    BY <2>1, TargetCutAssumption DEF TypeOK, TargetCutAssumption
  <2>3. Min(todo) \in todo
    BY <2>2, LeastIs
  <2>4. cur <= Min(todo)
    BY <2>1, <2>3 DEF Coming
  <2>5. Min(todo) \in Nat
    BY <2>2, <2>3
  <2> QED
    BY <2>2, <2>4, <2>5
<1>2. ASSUME CutInv, pc = "written", ExtentsApart
      PROVE  /\ \A k \in DOMAIN runs : runs[k].start <= runs[k].end
             /\ \A b \in Byte : \E k \in DOMAIN runs :
                  /\ runs[k].start <= b /\ b < runs[k].end
                  /\ \A j \in DOMAIN runs \ {k} : ~(runs[j].start <= b /\ b < runs[j].end)
             /\ \A a, b \in Byte : a # b => PlaceOf(a) # PlaceOf(b)
             /\ \A b \in Byte : LET p == PlaceOf(b)
                                IN  p[1][2] = None => (p[2] - b) % Align = 0
  <2> DEFINE n == Cardinality(Firsts)
  <2>1. Written /\ TargetCutAssumption
    BY <1>2, TargetCutAssumption DEF CutInv, TypeOK, Written
  <2>2. /\ n \in Nat /\ DOMAIN runs = 1..n
        /\ \A k \in 1..n :
             /\ runs[k].section = SectionAt(k) /\ runs[k].start = StartAt(k) /\ runs[k].end = StopAt(k)
             /\ runs[k].off = Offset(SectionAt(k), Used(runs, k), StartAt(k))
             /\ Used(runs, k) \in Int /\ runs[k].off \in Int
    BY <2>1, RunsAre
  <2>3. \A k \in 1..n : StartAt(k) \in Int /\ StartAt(k) <= StopAt(k)
    BY <2>1, RunsInOrder
  <2>4. \A b \in Byte : \E k \in 1..n :
          /\ RunOf(b) = runs[k] /\ StartAt(k) <= b /\ b < StopAt(k)
          /\ \A j \in 1..n \ {k} : ~(StartAt(j) <= b /\ b < StopAt(j))
    BY <2>1, RunOfIs
  <2> HIDE DEF n
  <2>5. \A k \in DOMAIN runs : runs[k].start <= runs[k].end
    BY <2>2, <2>3
  <2>6. \A b \in Byte : \E k \in DOMAIN runs :
          /\ runs[k].start <= b /\ b < runs[k].end
          /\ \A j \in DOMAIN runs \ {k} : ~(runs[j].start <= b /\ b < runs[j].end)
    <3> TAKE b \in Byte
    <3>1. PICK k \in 1..n : /\ StartAt(k) <= b /\ b < StopAt(k)
                            /\ \A j \in 1..n \ {k} : ~(StartAt(j) <= b /\ b < StopAt(j))
      BY <2>4
    <3>2. \A j \in DOMAIN runs \ {k} : ~(runs[j].start <= b /\ b < runs[j].end)
      BY <2>2, <3>1
    <3>3. k \in DOMAIN runs /\ runs[k].start <= b /\ b < runs[k].end
      BY <2>2, <3>1
    <3> QED
      BY <3>2, <3>3
  <2>7. ASSUME NEW a \in Byte, NEW b \in Byte, a # b PROVE PlaceOf(a) # PlaceOf(b)
    <3>1. a \in Int /\ b \in Int
      BY <2>1 DEF Byte, TargetCutAssumption
    <3>2. a < b \/ b < a
      BY <2>7, <3>1
    <3> QED
      BY <2>1, <3>2, PlacesApart
  <2>8. ASSUME NEW b \in Byte, PlaceOf(b)[1][2] = None PROVE (PlaceOf(b)[2] - b) % Align = 0
    <3>1. PICK k \in 1..n : RunOf(b) = runs[k]
      BY <2>4
    <3>2. PlaceOf(b) = <<SectionAt(k), runs[k].off + b - StartAt(k)>>
      BY <2>2, <3>1 DEF PlaceOf
    <3>3. SectionAt(k)[2] = None
      BY <2>8, <3>2
    <3>4. Align \in Nat \ {0} /\ Used(runs, k) \in Int /\ StartAt(k) \in Int
      BY <2>1, <2>2, <2>3 DEF TargetCutAssumption
    <3>5. (Offset(SectionAt(k), Used(runs, k), StartAt(k)) - StartAt(k)) % Align = 0
      BY <3>3, <3>4, OffsetIs
    <3> DEFINE off == runs[k].off
               p == PlaceOf(b)[2]
    <3>6. (off - StartAt(k)) % Align = 0 /\ off \in Int /\ p = off + b - StartAt(k) /\ b \in Int
      BY <2>1, <2>2, <3>2, <3>5 DEF Byte, TargetCutAssumption
    <3> HIDE DEF off, p
    <3>7. p - b = off - StartAt(k)
      BY <3>4, <3>6
    <3>8. (p - b) % Align = 0
      BY <3>6, <3>7
    <3> QED
      BY <3>8 DEF p
  <2>9. \A b \in Byte : LET p == PlaceOf(b) IN p[1][2] = None => (p[2] - b) % Align = 0
    BY <2>8
  <2> QED
    BY <2>5, <2>6, <2>7, <2>9
<1>3. CutInv => EveryByteIsPlacedOnce
  <2>1. ASSUME CutInv PROVE EveryByteIsPlacedOnce
    BY <1>1, <1>2, <2>1 DEF EveryByteIsPlacedOnce
  <2> QED
    BY <2>1
<1> QED
  BY <1>3, TargetCutInv, PTL

\* A byte that is written is one of a symbol's, in the section of it.
LEMMA WrittenIn ==
  ASSUME TargetCutAssumption, CutInv, pc = "written", ExtentsApart, NEW b \in Byte
  PROVE  \E i \in DOMAIN syms : /\ b \in syms[i].addr..(End(syms[i]) - 1) /\ PlaceOf(b)[1] = syms[i].section
                                /\ InItsPool(syms[i]) /\ InItsPlace(syms[i])
                                /\ syms[i].addr \in Nat /\ End(syms[i]) \in Nat
<1>1. Written /\ InPlace /\ Size \in Nat
  BY DEF CutInv, TypeOK, Written, TargetCutAssumption
<1>2. syms \in Seq(Symbol) /\ Covers(syms, 0, Size) /\ DOMAIN syms = 1..Len(syms)
  BY <1>1 DEF Written
<1>3. b \in 0..(Size - 1) /\ b \in Int
  BY <1>1 DEF Byte
<1>4. PICK i \in 1..Len(syms) : syms[i].addr <= b /\ b < End(syms[i])
  BY <1>1, <1>2, <1>3, CoversAll
<1>5. i \in DOMAIN syms /\ syms[i] \in Symbol
  BY <1>2, ElementOf
<1>6. syms[i].addr \in Nat /\ End(syms[i]) \in Nat
  BY <1>5, SymbolTyped
<1>7. b \in syms[i].addr..(End(syms[i]) - 1)
  BY <1>3, <1>4, <1>6
<1>8. PlaceOf(b)[1] = syms[i].section
  BY <1>1, <1>4, <1>5, SectionIs
<1> QED
  BY <1>1, <1>5, <1>6, <1>7, <1>8 DEF InPlace

\* What a function's pool section holds comes after the function begins, with no other
\* code in between, and a library function has none unless the base has it, cut.
THEOREM PoolsAreTheirFunctions == Spec => []PoolIsOfItsFunction
<1>1. CutInv => PoolIsOfItsFunction
  <2> SUFFICES ASSUME CutInv, pc = "written", ExtentsApart, NEW b \in Byte, PlaceOf(b)[1][1] = ".pool"
               PROVE  \E i \in DOMAIN csv :
                        /\ Code(csv[i]) /\ csv[i].addr <= b /\ (csv[i].std => CutInBase(csv[i].name))
                        /\ PlaceOf(b)[1] = PoolOf(csv[i].name)
                        /\ \A j \in DOMAIN csv : Code(csv[j]) => ~(csv[i].addr < csv[j].addr /\ csv[j].addr <= b)
    BY DEF PoolIsOfItsFunction
  <2>1. TargetCutAssumption /\ InputsOK
    BY TargetCutAssumption DEF CutInv
  <2>2. PICK x \in DOMAIN syms : /\ b \in syms[x].addr..(End(syms[x]) - 1) /\ PlaceOf(b)[1] = syms[x].section
                                 /\ InItsPool(syms[x]) /\ syms[x].addr \in Nat /\ End(syms[x]) \in Nat
    BY <2>1, WrittenIn
  <2> DEFINE addr == syms[x].addr
             end  == End(syms[x])
  <2>3. PICK i \in DOMAIN csv :
          /\ Code(csv[i]) /\ csv[i].addr <= addr /\ (csv[i].std => CutInBase(csv[i].name))
          /\ syms[x].section = PoolOf(csv[i].name)
          /\ \A j \in DOMAIN csv : Code(csv[j]) => ~(csv[i].addr < csv[j].addr /\ csv[j].addr < end)
    BY <2>2 DEF InItsPool
  <2>4. addr \in Nat /\ end \in Nat /\ addr <= b /\ b < end /\ b \in Int
    BY <2>2
  <2>5. \A j \in DOMAIN csv : csv[j].addr \in Nat
    BY <2>1, InputsTyped
  <2> HIDE DEF addr, end
  <2>6. csv[i].addr <= b
    BY <2>3, <2>4, <2>5
  <2>7. ASSUME NEW j \in DOMAIN csv, Code(csv[j]) PROVE ~(csv[i].addr < csv[j].addr /\ csv[j].addr <= b)
    <3>1. ~(csv[i].addr < csv[j].addr /\ csv[j].addr < end)
      BY <2>3, <2>7
    <3> QED
      BY <2>4, <2>5, <3>1
  <2> QED
    BY <2>2, <2>3, <2>6, <2>7
<1> QED
  BY <1>1, TargetCutInv, PTL

\* A byte no row names is code after code, skipped after data, and after a label code
\* or, inside one pool, the pool's.
THEOREM GapsSettle == Spec => []GapsAreSettled
<1>1. ASSUME CutInv, RowsApart, pc = "written" PROVE ExtentsApart
  <2>1. TargetCutAssumption /\ Placed
    BY <1>1, TargetCutAssumption DEF CutInv
  <2>2. \A i \in DOMAIN csv : i \in DOMAIN rows /\ rows[i] = csv[i] /\ csv[i].addr \in Nat
    BY <2>1, RowsTyped, InputsTyped DEF Placed
  <2>3. ASSUME NEW i \in DOMAIN csv, NEW j \in DOMAIN csv, csv[i].addr < csv[j].addr, csv[j].addr < End(csv[i])
        PROVE  FALSE
    <3>1. i # j
      BY <2>2, <2>3
    <3> QED
      BY <1>1, <2>2, <2>3, <3>1 DEF RowsApart
  <2> QED
    BY <2>3 DEF ExtentsApart, Extents
<1>2. CutInv => GapsAreSettled
  <2> SUFFICES ASSUME CutInv, pc = "written", RowsApart,
                      \A i \in DOMAIN rows : rows[i].addr \in LabelEnds => rows[i].size > 0,
                      NEW b \in Byte, ~NamedAt(b)
               PROVE  PlaceOf(b)[1] = GapSection(b)
    BY DEF GapsAreSettled, NamedAt, GapSection, RowsBefore, RowsAfter, LastBefore, NextAfter, WithinPool
  <2>1. TargetCutAssumption /\ ExtentsApart /\ LabelsApart
    BY <1>1, TargetCutAssumption DEF LabelsApart
  <2>2. PICK x \in DOMAIN syms : /\ b \in syms[x].addr..(End(syms[x]) - 1) /\ PlaceOf(b)[1] = syms[x].section
                                 /\ InItsPlace(syms[x])
    BY <2>1, WrittenIn
  <2> QED
    BY <2>1, <2>2 DEF InItsPlace
<1> QED
  BY <1>2, TargetCutInv, PTL


-----------------------------------------------------------------------------
(* How the code is decoded.                                                *)

\* The mapping rows up to a byte of a row that have not ended, and the mode they give it.
Upto(i, b) == {k \in DOMAIN marks : csv[i].addr <= marks[k].addr /\ marks[k].addr <= b
                                     /\ ~(marks[k].mode = "$d" /\ EndOf(k) <= b)}
ModeOf(i, b) == IF Upto(i, b) = {} THEN csv[i].mode ELSE marks[Max(Upto(i, b))].mode

\* Of the mapping symbols of the symbols `s` and the markers `ms`, the last up to `b` is at
\* `a`, in the symbol `x` that holds `b`, and says `mode`.
LastMark(s, ms, x, a, b, mode) ==
  /\ s[x].addr <= a /\ a <= b /\ b < End(s[x])
  /\ \A y \in DOMAIN s \ {x} : ~(s[x].addr <= s[y].addr /\ s[y].addr <= b)
  /\ \A m \in ms : ~(a < m[1] /\ m[1] <= b)
  /\ a = s[x].addr \/ \E m \in ms : m[1] = a
  /\ a = s[x].addr => s[x].mode = mode
  /\ \A m \in ms : m[1] = a => m[2] = mode
Reads(s, ms, i, b) ==
  \E x \in DOMAIN s : \E a \in s[x].addr..b : LastMark(s, ms, x, a, b, ModeOf(i, b))

InRow(i) == csv[i].addr..(Least(End(csv[i]), Size) - 1)
ModesKept(s, ms) ==
  /\ \A x \in DOMAIN s : s[x].addr < Size
  /\ \A m \in ms : m[1] < Size
  /\ \A i \in Extents : Code(csv[i]) => \A b \in InRow(i) : Reads(s, ms, i, b)

MarksOfRows == {<<r[1], r[3]>> : r \in UNION {Inner(csv[i].name) : i \in Extents}}
RowsStand ==
  /\ \A a \in RowAddrs : \E p \in DOMAIN syms : ~syms[p].pad /\ syms[p].addr = a
  /\ \A p \in DOMAIN syms : syms[p].pad => syms[p].size > 0
ModeInv ==
  /\ pc \in {"complete", "settle", "cut"} => mapping = MarksOfRows
  /\ pc \in {"settle", "cut"} => RowsStand
  /\ pc \in {"write", "written"} /\ RowsApart /\ StartsAgree => ModesKept(syms, mapping)

\* No other row is at the address of one, begins in it, or goes over it.
Apart(i) ==
  /\ i \in Extents
  /\ \A j \in DOMAIN csv \ {i} :
       /\ csv[j].addr # csv[i].addr
       /\ ~(csv[i].addr < csv[j].addr /\ csv[j].addr < End(csv[i]))
       /\ ~(csv[j].addr < csv[i].addr /\ csv[i].addr < End(csv[j]))
Among(i, k) == csv[i].addr <= marks[k].addr /\ marks[k].addr < End(csv[i])
LEMMA ApartIs ==
  ASSUME TargetCutAssumption, Placed, RowsApart, NEW i \in Extents
  PROVE  Apart(i)
<1>1. \A j \in DOMAIN csv : j \in DOMAIN rows /\ rows[j] = csv[j]
  BY RowsTyped
<1>2. i \in DOMAIN csv
  BY DEF Extents
<1> QED
  BY <1>1, <1>2 DEF Apart, RowsApart

\* The mapping rows inside a function are those between its ends.
LEMMA AmongIs ==
  ASSUME TargetCutAssumption, InputsOK, NEW i, Apart(i), NEW k \in DOMAIN marks
  PROVE  Among(i, k) <=> Inside(k) /\ RowOf(k) = csv[i]
<1>1. /\ i \in Extents /\ i \in DOMAIN csv
      /\ \A j \in DOMAIN csv : csv[j].addr \in Nat /\ End(csv[j]) \in Nat
      /\ marks[k].addr \in Nat
  BY InputsTyped DEF Apart, Extents
<1>2. ASSUME Among(i, k) PROVE Inside(k) /\ RowOf(k) = csv[i]
  <2> DEFINE l == LastStarted(marks[k].addr)
  <2>1. i \in StartedBy(marks[k].addr)
    BY <1>1, <1>2 DEF StartedBy, Among
  <2>2. /\ l \in StartedBy(marks[k].addr)
        /\ \A j \in StartedBy(marks[k].addr) \ {l} : Before(j, l)
    BY <2>1, LastStartedIs
  <2>3. RowOf(k) = csv[l] /\ (Inside(k) <=> marks[k].addr < End(csv[l]))
    BY <2>1 DEF RowOf, Inside
  <2> HIDE DEF l
  <2>4. l \in DOMAIN csv /\ csv[l].addr <= marks[k].addr
    BY <2>2 DEF StartedBy, Extents
  <2>5. ASSUME l # i PROVE FALSE
    <3>1. csv[i].addr <= csv[l].addr
      BY <1>1, <2>1, <2>2, <2>4, <2>5 DEF Before
    <3>2. csv[l].addr < End(csv[i])
      BY <1>1, <1>2, <2>4 DEF Among
    <3> QED
      BY <1>1, <2>4, <2>5, <3>1, <3>2 DEF Apart
  <2> QED
    BY <1>2, <2>3, <2>5 DEF Among
<1>3. ASSUME Inside(k), RowOf(k) = csv[i] PROVE Among(i, k)
  BY <1>3, InsideIs DEF Among
<1> QED
  BY <1>2, <1>3

\* A run inside a function is made of one of them.
LEMMA InnerAmong ==
  ASSUME TargetCutAssumption, InputsOK, NEW i, Apart(i), NEW r \in Inner(csv[i].name)
  PROVE  \E k \in DOMAIN marks : Among(i, k) /\ Inside(k) /\ RowOf(k) = csv[i] /\ MadeBy(r, k)
<1>1. PICK k \in DOMAIN marks : Inside(k) /\ RowOf(k).name = csv[i].name /\ MadeBy(r, k)
  BY InnerMadeBy
<1>2. PICK j \in Extents : RowOf(k) = csv[j]
  BY <1>1, InsideIs
<1>3. i \in DOMAIN csv /\ j \in DOMAIN csv
  BY DEF Apart, Extents
<1>4. i = j
  BY <1>1, <1>2, <1>3, InputsTyped
<1>5. Among(i, k)
  BY <1>1, <1>2, <1>4, AmongIs
<1> QED
  BY <1>1, <1>2, <1>4, <1>5

\* Each of them makes one or two.
LEMMA AmongMakes ==
  ASSUME TargetCutAssumption, InputsOK, NEW i, Apart(i), NEW k \in DOMAIN marks, Among(i, k)
  PROVE  /\ <<marks[k].addr, EndOf(k), marks[k].mode>> \in Inner(csv[i].name)
         /\ EndOf(k) < Limit(k) => <<EndOf(k), Limit(k), Resumed(k)>> \in Inner(csv[i].name)
<1> DEFINE ks == {j \in DOMAIN marks : Inside(j) /\ RowOf(j).name = csv[i].name}
<1>1. k \in ks
  BY AmongIs
<1>2. Inner(csv[i].name) = {<<marks[j].addr, EndOf(j), marks[j].mode>> : j \in ks}
           \cup {<<EndOf(j), Limit(j), Resumed(j)>> : j \in {l \in ks : EndOf(l) < Limit(l)}}
  BY DEF Inner
<1> HIDE DEF ks
<1> QED
  BY <1>1, <1>2

\* What a run inside a function says of its bytes is what the CSV says.
LEMMA RunIsMode ==
  ASSUME TargetCutAssumption, InputsOK, NEW i, Apart(i), NEW r \in Inner(csv[i].name),
         NEW b \in Nat, r[1] <= b, b < r[2]
  PROVE  r[3] = ModeOf(i, b)
<1>1. PICK k \in DOMAIN marks : Among(i, k) /\ Inside(k) /\ RowOf(k) = csv[i] /\ MadeBy(r, k)
  BY InnerAmong
<1> DEFINE addr(l) == marks[l].addr
<1>2. /\ Len(marks) \in Nat /\ DOMAIN marks = 1..Len(marks)
      /\ \A l \in DOMAIN marks : /\ addr(l) \in Nat /\ EndOf(l) \in Nat /\ Limit(l) \in Nat
                                 /\ addr(l) < EndOf(l) /\ EndOf(l) <= Limit(l)
      /\ \A j, l \in DOMAIN marks : j < l => addr(j) < addr(l) /\ Limit(j) <= addr(l)
  BY InputsTyped, EndOfIs, LimitIs, LimitsInOrder
<1>3. i \in DOMAIN csv /\ csv[i].addr \in Nat /\ End(csv[i]) \in Nat
  BY InputsTyped DEF Apart, Extents
<1>4. csv[i].addr <= addr(k) /\ addr(k) < End(csv[i])
  BY <1>1 DEF Among
<1>5. b < Limit(k) /\ addr(k) <= b
  <2>1. r[1] \in Nat /\ r[2] \in Nat /\ addr(k) <= r[1] /\ r[2] <= Limit(k)
    BY <1>1, MadeByIs
  <2> QED
    BY <1>2, <2>1
<1>6. \A l \in DOMAIN marks : l > k => ~(addr(l) <= b)
  <2> TAKE l \in DOMAIN marks
  <2> HAVE l > k
  <2>1. Limit(k) <= addr(l)
    BY <1>2
  <2> QED
    BY <1>2, <1>5, <2>1
<1>7. Upto(i, b) \in SUBSET (0..Len(marks)) /\ \A l \in Upto(i, b) : l <= k
  BY <1>2, <1>6 DEF Upto
<1>8. CASE r = <<addr(k), EndOf(k), marks[k].mode>>
  <2>1. r[2] = EndOf(k) /\ r[3] = marks[k].mode
    BY <1>8
  <2>2. k \in Upto(i, b)
    BY <1>2, <1>4, <1>5, <2>1 DEF Upto
  <2>3. Max(Upto(i, b)) \in Upto(i, b) /\ \A l \in Upto(i, b) : l <= Max(Upto(i, b))
    BY <1>2, <1>7, <2>2, GreatestIs
  <2>4. Max(Upto(i, b)) = k
    <3> DEFINE m == Max(Upto(i, b))
    <3>1. m <= k /\ k <= m /\ m \in 0..Len(marks) /\ k \in Nat
      BY <1>2, <1>7, <2>2, <2>3
    <3> HIDE DEF m
    <3>2. m = k
      BY <1>2, <3>1
    <3> QED
      BY <3>2 DEF m
  <2> QED
    BY <2>1, <2>2, <2>4 DEF ModeOf
<1>9. CASE EndOf(k) < Limit(k) /\ r = <<EndOf(k), Limit(k), Resumed(k)>>
  <2>1. r[1] = EndOf(k) /\ r[3] = Resumed(k) /\ EndOf(k) <= b
    BY <1>9
  <2>2. marks[k].mode = "$d"
    BY <1>2, <1>9 DEF EndOf
  <2> DEFINE code == {j \in 1..(k - 1) : Inside(j) /\ RowOf(j) = RowOf(k) /\ marks[j].mode # "$d"}
  <2>3. \A j \in 1..(k - 1) : j \in DOMAIN marks /\ j < k /\ addr(j) < addr(k) /\ EndOf(j) <= b
    <3> TAKE j \in 1..(k - 1)
    <3>1. j \in DOMAIN marks /\ j < k
      BY <1>2
    <3>2. addr(j) < addr(k) /\ EndOf(j) <= Limit(j) /\ Limit(j) <= addr(k)
      BY <1>2, <3>1
    <3>3. EndOf(j) <= b
      BY <1>2, <1>5, <3>1, <3>2
    <3> QED
      BY <3>1, <3>2, <3>3
  <2>4. \A j \in 1..(k - 1) : csv[i].addr <= addr(j) <=> Inside(j) /\ RowOf(j) = RowOf(k)
    <3> TAKE j \in 1..(k - 1)
    <3>1. Among(i, j) <=> Inside(j) /\ RowOf(j) = csv[i]
      BY <2>3, AmongIs
    <3>2. addr(j) < End(csv[i])
      BY <1>2, <1>3, <1>4, <2>3
    <3> QED
      BY <1>1, <3>1, <3>2 DEF Among
  <2>5. \A l \in Upto(i, b) : l \in 1..(k - 1)
    <3> TAKE l \in Upto(i, b)
    <3>1. l \in DOMAIN marks /\ l <= k /\ l # k
      BY <1>7, <2>1, <2>2 DEF Upto
    <3> QED
      BY <1>2, <3>1
  <2>6. \A j \in 1..(k - 1) : j \in Upto(i, b) <=> csv[i].addr <= addr(j) /\ marks[j].mode # "$d"
    <3> TAKE j \in 1..(k - 1)
    <3>1. addr(j) <= b
      BY <1>2, <1>5, <2>3
    <3> QED
      BY <2>3, <3>1 DEF Upto
  <2>7. Upto(i, b) = code
    BY <2>4, <2>5, <2>6
  <2>8. Resumed(k) = IF code = {} THEN RowOf(k).mode ELSE marks[Max(code)].mode
    BY DEF Resumed
  <2> HIDE DEF code
  <2> QED
    BY <1>1, <2>1, <2>7, <2>8 DEF ModeOf
<1> QED
  BY <1>1, <1>8, <1>9 DEF MadeBy

\* Of a byte no run is around, no mapping row of the function is before.
LEMMA NoneBefore ==
  ASSUME TargetCutAssumption, InputsOK, NEW i, Apart(i), NEW b \in Byte, b < End(csv[i]),
         \A r \in Inner(csv[i].name) : ~(r[1] <= b /\ b < r[2])
  PROVE  /\ \A k \in DOMAIN marks : csv[i].addr <= marks[k].addr => b < marks[k].addr
         /\ ModeOf(i, b) = csv[i].mode
<1> DEFINE K == {k \in DOMAIN marks : csv[i].addr <= marks[k].addr /\ marks[k].addr <= b}
<1>1. /\ Len(marks) \in Nat /\ DOMAIN marks = 1..Len(marks) /\ Size \in Nat /\ b \in Nat /\ b < Size
      /\ \A l \in DOMAIN marks : /\ marks[l].addr \in Nat /\ EndOf(l) \in Nat /\ Limit(l) \in Nat
                                 /\ marks[l].addr < EndOf(l) /\ EndOf(l) <= Limit(l)
      /\ \A j, l \in DOMAIN marks : j < l => marks[j].addr < marks[l].addr
  BY InputsTyped, EndOfIs, LimitIs DEF Byte
<1>2. i \in DOMAIN csv /\ csv[i].addr \in Nat /\ End(csv[i]) \in Nat
  BY InputsTyped DEF Apart, Extents
<1>3. ASSUME K # {} PROVE FALSE
  <2> DEFINE m == Max(K)
  <2>1. K \in SUBSET (0..Len(marks))
    BY <1>1
  <2>2. m \in K /\ \A k \in K : k <= m
    BY <1>1, <1>3, <2>1, GreatestIs
  <2> HIDE DEF m
  <2>3. m \in DOMAIN marks /\ m \in 1..Len(marks) /\ csv[i].addr <= marks[m].addr /\ marks[m].addr <= b
    BY <1>1, <2>2
  <2>4. Among(i, m)
    BY <1>1, <1>2, <2>3 DEF Among
  <2>5. Inside(m) /\ RowOf(m) = csv[i]
    BY <2>3, <2>4, AmongIs
  <2> DEFINE nextMark == IF m < Len(marks) THEN marks[m + 1].addr ELSE Size
  <2>6. nextMark \in Nat /\ b < nextMark
    <3>1. CASE m < Len(marks)
      <4>1. m + 1 \in DOMAIN marks /\ m < m + 1 /\ m + 1 \notin K
        BY <1>1, <2>2, <2>3, <3>1
      <4>2. marks[m].addr < marks[m + 1].addr
        BY <1>1, <2>3, <4>1
      <4>3. csv[i].addr <= marks[m + 1].addr /\ marks[m + 1].addr \in Nat
        BY <1>1, <1>2, <2>3, <4>1, <4>2
      <4>4. b < marks[m + 1].addr
        BY <1>1, <4>1, <4>3
      <4> QED
        BY <3>1, <4>3, <4>4
    <3>2. CASE ~(m < Len(marks))
      BY <1>1, <3>2
    <3> QED
      BY <3>1, <3>2
  <2>7. Limit(m) = Least(nextMark, End(csv[i]))
    BY <2>5 DEF Limit
  <2> HIDE DEF nextMark
  <2>8. b < Limit(m)
    BY <1>1, <1>2, <2>6, <2>7 DEF Least
  <2>9. CASE b < EndOf(m)
    <3> DEFINE r == <<marks[m].addr, EndOf(m), marks[m].mode>>
    <3>1. r \in Inner(csv[i].name)
      BY <2>3, <2>4, AmongMakes
    <3>2. r[1] = marks[m].addr /\ r[2] = EndOf(m)
      OBVIOUS
    <3> HIDE DEF r
    <3> QED
      BY <2>3, <2>9, <3>1, <3>2
  <2>10. CASE ~(b < EndOf(m))
    <3> DEFINE r == <<EndOf(m), Limit(m), Resumed(m)>>
    <3>1. EndOf(m) <= b /\ EndOf(m) < Limit(m)
      BY <1>1, <2>3, <2>8, <2>10
    <3>2. r \in Inner(csv[i].name)
      BY <2>3, <2>4, <3>1, AmongMakes
    <3>3. r[1] = EndOf(m) /\ r[2] = Limit(m)
      OBVIOUS
    <3> HIDE DEF r
    <3> QED
      BY <2>8, <3>1, <3>2, <3>3
  <2> QED
    BY <2>9, <2>10
<1>4. \A k \in DOMAIN marks : csv[i].addr <= marks[k].addr => b < marks[k].addr
  BY <1>1, <1>3
<1>5. Upto(i, b) = {}
  BY <1>3 DEF Upto
<1> QED
  BY <1>4, <1>5 DEF ModeOf

\* A mapping symbol inside a function is that of one of its runs.
LEMMA MarkIsOf ==
  ASSUME TargetCutAssumption, InputsOK, NEW i, Apart(i), NEW m \in MarksOfRows,
         csv[i].addr <= m[1], m[1] < End(csv[i])
  PROVE  \E r \in Inner(csv[i].name) : m = <<r[1], r[3]>>
<1>1. PICK j \in Extents : \E r \in Inner(csv[j].name) : m = <<r[1], r[3]>>
  BY DEF MarksOfRows
<1>2. PICK r \in Inner(csv[j].name) : m = <<r[1], r[3]>>
  BY <1>1
<1>3. m[1] = r[1]
  BY <1>2
<1>4. PICK l \in Extents : csv[l].name = csv[j].name /\ csv[l].addr <= r[1] /\ r[2] <= End(csv[l])
  BY InnerIs
<1>5. r[1] \in Nat /\ r[2] \in Nat /\ r[1] < r[2]
  BY InnerIs
<1>6. i \in DOMAIN csv /\ j \in DOMAIN csv /\ l \in DOMAIN csv
  BY DEF Apart, Extents
<1>7. l = j
  BY <1>4, <1>6, InputsTyped
<1>8. /\ csv[i].addr \in Nat /\ End(csv[i]) \in Nat
      /\ csv[j].addr \in Nat /\ End(csv[j]) \in Nat
  BY <1>6, InputsTyped
<1>9. ASSUME i # j PROVE FALSE
  <2>1. /\ csv[j].addr # csv[i].addr
        /\ ~(csv[i].addr < csv[j].addr /\ csv[j].addr < End(csv[i]))
        /\ ~(csv[j].addr < csv[i].addr /\ csv[i].addr < End(csv[j]))
    BY <1>6, <1>9 DEF Apart
  <2>2. csv[j].addr <= r[1] /\ r[1] < End(csv[j]) /\ csv[i].addr <= r[1] /\ r[1] < End(csv[i])
    BY <1>3, <1>4, <1>5, <1>7, <1>8
  <2> HIDE DEF Apart
  <2> QED
    BY <1>5, <1>8, <2>1, <2>2
<1> QED
  BY <1>2, <1>9

\* The last of the mapping symbols before a byte of a function, or else the function's
\* own, says what the CSV says.
LEMMA LastMarkBefore ==
  ASSUME TargetCutAssumption, InputsOK, StartsAgree, NEW i, Apart(i), NEW b \in Byte,
         csv[i].addr <= b, b < End(csv[i])
  PROVE  \E a \in csv[i].addr..b :
           /\ \A m \in MarksOfRows : ~(a < m[1] /\ m[1] <= b)
           /\ a = csv[i].addr \/ \E m \in MarksOfRows : m[1] = a
           /\ a = csv[i].addr => csv[i].mode = ModeOf(i, b)
           /\ \A m \in MarksOfRows : m[1] = a => m[2] = ModeOf(i, b)
<1>1. i \in DOMAIN csv /\ i \in Extents /\ csv[i].addr \in Nat /\ End(csv[i]) \in Nat /\ b \in Nat
  BY InputsTyped DEF Apart, Extents, Byte
<1>2. \A r \in Inner(csv[i].name) : r[1] \in Nat /\ r[2] \in Nat /\ r[1] < r[2]
  BY InnerIs
<1>3. \A r \in Inner(csv[i].name) : csv[i].addr <= r[1]
  <2> TAKE r \in Inner(csv[i].name)
  <2>1. PICK k \in DOMAIN marks : Among(i, k) /\ Inside(k) /\ MadeBy(r, k)
    BY InnerAmong
  <2>2. marks[k].addr <= r[1] /\ csv[i].addr <= marks[k].addr /\ marks[k].addr \in Nat
    BY <2>1, MadeByIs, InputsTyped DEF Among
  <2> QED
    BY <1>1, <1>2, <2>2
<1>4. \A m \in MarksOfRows : csv[i].addr <= m[1] /\ m[1] <= b =>
        \E r \in Inner(csv[i].name) : m = <<r[1], r[3]>>
  <2> TAKE m \in MarksOfRows
  <2> HAVE csv[i].addr <= m[1] /\ m[1] <= b
  <2>1. m[1] \in Nat
    <3>1. PICK j \in Extents : \E r \in Inner(csv[j].name) : m = <<r[1], r[3]>>
      BY DEF MarksOfRows
    <3>2. PICK r \in Inner(csv[j].name) : m = <<r[1], r[3]>>
      BY <3>1
    <3>3. r[1] \in Nat
      BY InnerIs
    <3> QED
      BY <3>2, <3>3
  <2>2. m[1] < End(csv[i])
    BY <1>1, <2>1
  <2> QED
    BY <2>2, MarkIsOf
<1>5. CASE \E r \in Inner(csv[i].name) : r[1] <= b /\ b < r[2]
  <2>1. PICK r \in Inner(csv[i].name) : r[1] <= b /\ b < r[2]
    BY <1>5
  <2>2. r[1] \in csv[i].addr..b
    BY <1>1, <1>2, <1>3, <2>1
  <2>3. \A m \in MarksOfRows : csv[i].addr <= m[1] /\ r[1] <= m[1] /\ m[1] <= b => m = <<r[1], r[3]>>
    <3> TAKE m \in MarksOfRows
    <3> HAVE csv[i].addr <= m[1] /\ r[1] <= m[1] /\ m[1] <= b
    <3>1. PICK q \in Inner(csv[i].name) : m = <<q[1], q[3]>>
      BY <1>4
    <3>2. q[1] = m[1] /\ r[1] <= q[1] /\ q[1] <= b
      BY <3>1
    <3>3. ASSUME q # r PROVE FALSE
      <4>1. r[2] <= q[1] \/ q[2] <= r[1]
        BY <3>3, InnerApart
      <4> QED
        BY <1>1, <1>2, <2>1, <3>2, <4>1
    <3> QED
      BY <3>1, <3>3
  <2>4. r[3] = ModeOf(i, b)
    BY <1>1, <2>1, RunIsMode
  <2>5. <<r[1], r[3]>> \in MarksOfRows
    BY <1>1 DEF MarksOfRows
  <2>6. \A m \in MarksOfRows : csv[i].addr <= m[1] /\ r[1] <= m[1] /\ m[1] <= b => m[1] = r[1] /\ m[2] = r[3]
    BY <2>3
  <2>7. \A m \in MarksOfRows : ~(r[1] < m[1] /\ m[1] <= b)
    <3>1. \A m \in MarksOfRows : m[1] \in Nat
      BY InnerIs DEF MarksOfRows
    <3> QED
      BY <1>1, <1>2, <1>3, <2>6, <3>1
  <2>8. \A m \in MarksOfRows : m[1] = r[1] => m[2] = ModeOf(i, b)
    BY <1>2, <1>3, <2>1, <2>4, <2>6
  <2>9. \E m \in MarksOfRows : m[1] = r[1]
    BY <2>5
  <2>10. r[1] = csv[i].addr => csv[i].mode = ModeOf(i, b)
    <3> HAVE r[1] = csv[i].addr
    <3>1. PICK k \in DOMAIN marks : Among(i, k) /\ MadeBy(r, k)
      BY InnerAmong
    <3>2. marks[k].addr \in Nat /\ EndOf(k) \in Nat /\ marks[k].addr < EndOf(k) /\ csv[i].addr <= marks[k].addr
      BY <3>1, InputsTyped, EndOfIs DEF Among
    <3>3. r[1] # EndOf(k)
      BY <1>1, <3>2
    <3>4. r[1] = marks[k].addr /\ r[3] = marks[k].mode
      BY <3>1, <3>3 DEF MadeBy
    <3>5. csv[i].mode = marks[k].mode
      BY <1>1, <3>4 DEF StartsAgree
    <3> QED
      BY <2>4, <3>4, <3>5
  <2> QED
    BY <2>2, <2>7, <2>8, <2>9, <2>10
<1>6. CASE ~\E r \in Inner(csv[i].name) : r[1] <= b /\ b < r[2]
  <2>1. /\ \A k \in DOMAIN marks : csv[i].addr <= marks[k].addr => b < marks[k].addr
        /\ ModeOf(i, b) = csv[i].mode
    BY <1>6, NoneBefore
  <2>2. \A r \in Inner(csv[i].name) : b < r[1]
    <3> TAKE r \in Inner(csv[i].name)
    <3>1. PICK k \in DOMAIN marks : Among(i, k) /\ Inside(k) /\ MadeBy(r, k)
      BY InnerAmong
    <3>2. marks[k].addr <= r[1] /\ csv[i].addr <= marks[k].addr /\ marks[k].addr \in Nat
      BY <3>1, MadeByIs, InputsTyped DEF Among
    <3> QED
      BY <1>1, <1>2, <2>1, <3>2
  <2>3. \A m \in MarksOfRows : ~(csv[i].addr <= m[1] /\ m[1] <= b)
    <3> TAKE m \in MarksOfRows
    <3>1. ASSUME csv[i].addr <= m[1], m[1] <= b PROVE FALSE
      <4>1. PICK r \in Inner(csv[i].name) : m = <<r[1], r[3]>>
        BY <1>4, <3>1
      <4>2. m[1] = r[1] /\ r[1] \in Nat /\ b < r[1]
        BY <1>2, <2>2, <4>1
      <4> QED
        BY <1>1, <3>1, <4>2
    <3> QED
      BY <3>1
  <2>4. csv[i].addr \in csv[i].addr..b
    BY <1>1
  <2>5. \A m \in MarksOfRows : ~(csv[i].addr < m[1] /\ m[1] <= b) /\ m[1] # csv[i].addr
    <3>1. \A m \in MarksOfRows : m[1] \in Nat
      BY InnerIs DEF MarksOfRows
    <3> QED
      BY <1>1, <2>3, <3>1
  <2> QED
    BY <2>1, <2>4, <2>5
<1> QED
  BY <1>5, <1>6

\* The rows without another at their address or in them stand in the symbols as they are.
LEMMA RowStandsAs ==
  ASSUME TargetCutAssumption, Placed, RowsApart, syms \in Seq(Symbol), RowsStand,
         \A p \in DOMAIN syms : ~syms[p].pad => IsRowOf(syms[p]),
         NEW i \in DOMAIN rows, rows[i].addr < Size
  PROVE  \E p \in DOMAIN syms :
           /\ ~syms[p].pad /\ IsRowOf(syms[p]) /\ RowAt(syms[p].addr) = i
           /\ syms[p].addr = rows[i].addr /\ End(syms[p]) = Least(End(rows[i]), Size)
           /\ syms[p].mode = rows[i].mode /\ syms[p].name = rows[i].name /\ syms[p].section = Routed(i)
<1>1. rows[i].addr \in Nat /\ End(rows[i]) \in Nat /\ Size \in Nat
  BY RowsTyped, RowTyped, InputsTyped DEF Placed
<1>2. rows[i].addr \in RowAddrs
  BY <1>1 DEF RowAddrs
<1>3. PICK p \in DOMAIN syms : ~syms[p].pad /\ syms[p].addr = rows[i].addr
  BY <1>2 DEF RowsStand
<1> DEFINE x == syms[p]
<1>4. x \in Symbol /\ IsRowOf(x)
  BY <1>3, ElementOf
<1>5. x.addr = rows[i].addr /\ ~x.pad
  BY <1>3
<1> HIDE DEF x
<1>6. /\ RowAt(x.addr) \in DOMAIN rows /\ rows[RowAt(x.addr)].addr = x.addr
      /\ NextAddr(x.addr) \in Nat /\ x.addr < NextAddr(x.addr) /\ NextAddr(x.addr) <= Size
      /\ NextAddr(x.addr) = Size \/ NextAddr(x.addr) \in RowAddrs
      /\ End(x) <= End(rows[RowAt(x.addr)]) /\ End(x) <= NextAddr(x.addr)
      /\ End(x) = End(rows[RowAt(x.addr)]) \/ End(x) = NextAddr(x.addr)
  BY <1>4, RowOfIs
<1>7. RowAt(x.addr) = i
  BY <1>1, <1>5, <1>6 DEF RowsApart
<1>8. NextAddr(x.addr) = Size \/ End(rows[i]) <= NextAddr(x.addr)
  <2>1. CASE NextAddr(x.addr) \in RowAddrs
    <3>1. PICK j \in DOMAIN rows : rows[j].addr = NextAddr(x.addr)
      BY <2>1 DEF RowAddrs
    <3>2. j # i
      BY <1>1, <1>5, <1>6, <3>1
    <3>3. ~(rows[i].addr < rows[j].addr /\ rows[j].addr < End(rows[i]))
      BY <1>1, <3>2 DEF RowsApart
    <3> QED
      BY <1>1, <1>5, <1>6, <3>1, <3>3
  <2> QED
    BY <1>6, <2>1
<1>9. End(x) = Least(End(rows[i]), Size)
  <2>1. End(rows[RowAt(x.addr)]) = End(rows[i])
    BY <1>7
  <2> QED
    BY <1>1, <1>6, <1>8, <2>1 DEF Least
<1>10. x.mode = rows[i].mode /\ x.name = rows[i].name /\ x.section = Routed(i)
  BY <1>1, <1>4, <1>7 DEF IsRowOf
<1> QED
  BY <1>4, <1>5, <1>7, <1>9, <1>10 DEF x

\* So do the functions.
LEMMA RowHasSymbol ==
  ASSUME TargetCutAssumption, Placed, RowsApart, syms \in Seq(Symbol), RowsStand,
         \A p \in DOMAIN syms : ~syms[p].pad => IsRowOf(syms[p]),
         NEW i \in Extents
  PROVE  \E p \in DOMAIN syms :
           /\ ~syms[p].pad /\ IsRowOf(syms[p]) /\ RowAt(syms[p].addr) = i
           /\ syms[p].addr = csv[i].addr /\ End(syms[p]) = Least(End(csv[i]), Size)
           /\ syms[p].mode = csv[i].mode /\ syms[p].name = csv[i].name /\ syms[p].section = Routed(i)
<1>1. i \in DOMAIN rows /\ rows[i] = csv[i] /\ rows[i].addr < Size
  BY RowsTyped DEF Extents
<1> QED
  BY <1>1, RowStandsAs

\* A function that is cut into pieces is made of them; what is not stays of its size
\* and mode, and in its section if the base has not cut it.
CutUp(s) == Spliced(s) /\ Marked(s.name)
WholeSection(s) == IF Spliced(s) THEN CodeOf(s.name) ELSE s.section
LEMMA CutOutIs ==
  ASSUME TargetCutAssumption, Placed, NEW s \in Symbol, IF s.pad THEN s.name = None ELSE IsRowOf(s),
         NEW k \in DOMAIN CutOut(s)
  PROVE  /\ CutUp(s) => PieceIn(CutOut(s)[k], s)
         /\ ~CutUp(s) => /\ CutOut(s)[k].addr = s.addr /\ CutOut(s)[k].size = s.size
                         /\ End(CutOut(s)[k]) = End(s) /\ CutOut(s)[k].mode = s.mode
                         /\ CutOut(s)[k].section = WholeSection(s)
<1>1. CASE ~Spliced(s)
  <2>1. CutOut(s) = <<s>>
    BY <1>1 DEF CutOut, Spliced
  <2>2. k = 1 /\ CutOut(s)[k] = s
    BY <2>1
  <2> QED
    BY <1>1, <2>2 DEF CutUp, WholeSection
<1>2. CASE Spliced(s) /\ ~Marked(s.name)
  <2> DEFINE sec == CodeOf(s.name)
             x   == [s EXCEPT !.section = sec]
  <2>1. CutOut(s) = <<x>>
    BY <1>2 DEF CutOut, Spliced
  <2>2. k = 1 /\ CutOut(s)[k] = x
    BY <2>1
  <2> HIDE DEF sec
  <2>3. x.addr = s.addr /\ x.size = s.size /\ x.mode = s.mode /\ x.section = sec
    BY DEF Symbol
  <2> HIDE DEF x
  <2>4. x.section = WholeSection(s)
    BY <1>2, <2>3 DEF WholeSection, sec
  <2> QED
    BY <1>2, <2>2, <2>3, <2>4 DEF CutUp, End
<1>3. CASE CutUp(s)
  <2>1. Spliced(s) /\ Marked(s.name) /\ IsRowOf(s)
    BY <1>3 DEF CutUp, Spliced
  <2>2. s.name \in Name /\ InputsOK
    BY <2>1, SplicedIs DEF Placed
  <2>3. CutOut(s) = Pieces(s, Inner(s.name))
    BY <2>1 DEF CutOut, Spliced
  <2>4. \A r \in Inner(s.name) : s.addr <= r[1]
    BY <2>1, SplicedHolds
  <2>5. \A j \in DOMAIN Pieces(s, Inner(s.name)) : PieceIn(Pieces(s, Inner(s.name))[j], s)
    BY <2>2, <2>4, PiecesWork
  <2> QED
    BY <1>3, <2>3, <2>5
<1> QED
  BY <1>1, <1>2, <1>3 DEF CutUp

\* What is cut is made of the symbols, one after another.
LEMMA CutsAre ==
  ASSUME TargetCutAssumption, CutInv, CutPools
  PROVE  /\ syms' \in Seq(Symbol)
         /\ \A y \in DOMAIN syms' : \E p \in DOMAIN syms : \E k \in DOMAIN CutOut(syms[p]) :
              syms'[y] = CutOut(syms[p])[k]
<1> DEFINE n  == Len(syms)
           ss == [i \in DOMAIN syms |-> CutOut(syms[i])]
<1>1. /\ TypeOK /\ Placed /\ syms' = FlattenSeq(ss)
      /\ \A i \in DOMAIN syms : IF syms[i].pad THEN syms[i].name = None ELSE IsRowOf(syms[i])
  BY DEF CutInv, CutPools
<1>2. syms \in Seq(Symbol) /\ n \in Nat /\ DOMAIN syms = 1..n /\ \A i \in 1..n : syms[i] \in Symbol
  BY <1>1 DEF TypeOK
<1>3. \A i \in 1..n : CutOut(syms[i]) \in Seq(Symbol)
  BY <1>1, <1>2, CutOutWorks
<1>4. /\ ss \in Seq(Seq(Symbol)) /\ DOMAIN ss = 1..n
      /\ \A i \in 1..n : ss[i] = CutOut(syms[i])
  <2> DEFINE c == [i \in 1..n |-> CutOut(syms[i])]
  <2>1. ss = c /\ c \in [1..n -> Seq(Symbol)]
    BY <1>2, <1>3
  <2>2. DOMAIN c = 1..n /\ \A i \in 1..n : c[i] = CutOut(syms[i])
    OBVIOUS
  <2> HIDE DEF c, ss, n
  <2>3. c \in Seq(Seq(Symbol))
    BY <1>2, <2>1, <2>2
  <2> QED
    BY <2>1, <2>2, <2>3
<1> HIDE DEF ss
<1>5. FlattenSeq(ss) \in Seq(Symbol) /\ \A p \in DOMAIN FlattenSeq(ss) : InOneOf(FlattenSeq(ss)[p], ss)
  BY <1>4, FlattenHolds
<1>6. ASSUME NEW y \in DOMAIN FlattenSeq(ss)
      PROVE  \E p \in DOMAIN syms : \E k \in DOMAIN CutOut(syms[p]) : FlattenSeq(ss)[y] = CutOut(syms[p])[k]
  <2>1. PICK p \in DOMAIN ss : \E k \in DOMAIN ss[p] : FlattenSeq(ss)[y] = ss[p][k]
    BY <1>5 DEF InOneOf
  <2>2. p \in DOMAIN syms /\ ss[p] = CutOut(syms[p])
    BY <1>2, <1>4, <2>1
  <2> QED
    BY <2>1, <2>2
<1> HIDE DEF n
<1> QED
  BY <1>1, <1>5, <1>6

\* A symbol made of one when it is cut: a piece of it, or all.
PartOf(x, s) ==
  /\ s.addr <= x.addr /\ End(x) <= End(s)
  /\ CutUp(s) => PieceIn(x, s)
  /\ ~CutUp(s) => /\ x.addr = s.addr /\ x.size = s.size /\ End(x) = End(s) /\ x.mode = s.mode
                  /\ x.section = WholeSection(s)
LEMMA PartsAre ==
  ASSUME TargetCutAssumption, CutInv, CutPools, RowsApart
  PROVE  /\ syms' \in Seq(Symbol) /\ Covers(syms', 0, Size)
         /\ \A y \in DOMAIN syms' : \E p \in DOMAIN syms : PartOf(syms'[y], syms[p])
<1>1. /\ TypeOK /\ Placed /\ InPlace /\ pc = "cut" /\ pc' = "write" /\ UNCHANGED inputs
      /\ \A i \in DOMAIN syms : IF syms[i].pad THEN syms[i].name = None ELSE IsRowOf(syms[i])
  BY DEF CutInv, CutPools
<1>2. syms \in Seq(Symbol)
  BY <1>1 DEF TypeOK
<1>3. ExtentsApart
  <2>1. \A i \in Extents : Apart(i) /\ i \in DOMAIN csv
    BY <1>1, ApartIs DEF Extents
  <2>2. \A i \in DOMAIN csv : csv[i].addr \in Nat
    BY <1>1, InputsTyped DEF Placed
  <2> QED
    BY <2>1, <2>2 DEF Apart, ExtentsApart
<1>4. CutInv' /\ (ExtentsApart' <=> ExtentsApart)
  BY <1>1, CutPoolsCuts, InputsStay
<1>5. Covers(syms', 0, Size)
  BY <1>1, <1>3, <1>4 DEF CutInv
<1>6. /\ syms' \in Seq(Symbol)
      /\ \A y \in DOMAIN syms' : \E p \in DOMAIN syms : \E k \in DOMAIN CutOut(syms[p]) :
           syms'[y] = CutOut(syms[p])[k]
  BY CutsAre
<1>7. ASSUME NEW p \in DOMAIN syms, NEW k \in DOMAIN CutOut(syms[p]) PROVE PartOf(CutOut(syms[p])[k], syms[p])
  <2> DEFINE s == syms[p]
  <2>1. s \in Symbol /\ (IF s.pad THEN s.name = None ELSE IsRowOf(s)) /\ InItsPool(s) /\ InItsPlace(s)
    BY <1>1, <1>2, ElementOf DEF InPlace
  <2>2. k \in DOMAIN CutOut(s)
    OBVIOUS
  <2> HIDE DEF s
  <2>3. CutOut(s) \in Seq(Symbol) /\ Covers(CutOut(s), s.addr, End(s))
    BY <1>1, <1>3, <2>1, CutOutWorks
  <2>4. s.addr <= CutOut(s)[k].addr /\ End(CutOut(s)[k]) <= End(s)
    BY <2>2, <2>3, CoversWithin
  <2>5. /\ CutUp(s) => PieceIn(CutOut(s)[k], s)
        /\ ~CutUp(s) => /\ CutOut(s)[k].addr = s.addr /\ CutOut(s)[k].size = s.size
                        /\ End(CutOut(s)[k]) = End(s) /\ CutOut(s)[k].mode = s.mode
                        /\ CutOut(s)[k].section = WholeSection(s)
    BY <1>1, <2>1, <2>2, CutOutIs
  <2>6. PartOf(CutOut(s)[k], s)
    BY <2>4, <2>5 DEF PartOf
  <2> QED
    BY <2>6 DEF s
<1>8. ASSUME NEW y \in DOMAIN syms' PROVE \E p \in DOMAIN syms : PartOf(syms'[y], syms[p])
  <2>1. PICK p \in DOMAIN syms : \E k \in DOMAIN CutOut(syms[p]) : syms'[y] = CutOut(syms[p])[k]
    BY <1>6
  <2> QED
    BY <1>7, <2>1
<1> QED
  BY <1>5, <1>6, <1>8

\* The parts of the symbols, in address order; the mapping symbols not spent.
Parts(s, ms) ==
  /\ s \in Seq(Symbol) /\ Covers(s, 0, Size)
  /\ \A y \in DOMAIN s : \E p \in DOMAIN syms : PartOf(s[y], syms[p])
  /\ ms = {m \in MarksOfRows : ~Spent(m[1])}
BeforeCut ==
  /\ Placed /\ RowsApart /\ StartsAgree /\ RowsStand
  /\ syms \in Seq(Symbol) /\ Covers(syms, 0, Size)
  /\ \A p \in DOMAIN syms : ~syms[p].pad => IsRowOf(syms[p])

\* A function's symbol is the only one that a part around a byte of it is of.
LEMMA PartIsOfRow ==
  ASSUME TargetCutAssumption, BeforeCut, NEW s, NEW ms, Parts(s, ms),
         NEW p \in DOMAIN syms, NEW y \in DOMAIN s, NEW b \in Nat,
         syms[p].addr <= b, b < End(syms[p]), s[y].addr <= b, b < End(s[y])
  PROVE  PartOf(s[y], syms[p])
<1>1. PICK q \in DOMAIN syms : PartOf(s[y], syms[q])
  BY DEF Parts
<1>2. syms \in Seq(Symbol) /\ DOMAIN syms = 1..Len(syms) /\ Len(syms) \in Nat /\ Covers(syms, 0, Size)
  BY DEF BeforeCut
<1>3. \A j, k \in DOMAIN syms : j < k => End(syms[j]) <= syms[k].addr
  BY <1>2, CoversInOrder
<1>4. \A j \in DOMAIN syms : syms[j].addr \in Nat /\ End(syms[j]) \in Nat
  BY <1>2, ElementOf, SymbolTyped
<1>5. s[y].addr \in Nat /\ End(s[y]) \in Nat
  BY ElementOf, SymbolTyped DEF Parts
<1>6. syms[q].addr <= b /\ b < End(syms[q])
  <2>1. syms[q].addr <= s[y].addr /\ End(s[y]) <= End(syms[q])
    BY <1>1 DEF PartOf
  <2> QED
    BY <1>4, <1>5, <2>1
<1>7. p < q \/ q < p \/ p = q
  BY <1>2
<1>8. p = q
  BY <1>3, <1>4, <1>6, <1>7
<1> QED
  BY <1>1, <1>8

\* No symbol without a size begins in a row.
LEMMA NoPartBetween ==
  ASSUME TargetCutAssumption, BeforeCut, NEW s, NEW ms, Parts(s, ms),
         NEW i \in Extents, NEW y \in DOMAIN s, csv[i].addr <= s[y].addr, s[y].addr < End(csv[i])
  PROVE  s[y].size > 0
<1>1. PICK q \in DOMAIN syms : PartOf(s[y], syms[q])
  BY DEF Parts
<1> DEFINE x == syms[q]
           part == s[y]
<1>2. x \in Symbol /\ part \in Symbol /\ PartOf(part, x) /\ csv[i].addr <= part.addr /\ part.addr < End(csv[i])
  BY <1>1, ElementOf DEF Parts, BeforeCut
<1>3. (x.pad => x.size > 0) /\ (~x.pad => IsRowOf(x))
  BY DEF BeforeCut, RowsStand
<1> HIDE DEF x, part
<1>4. ASSUME CutUp(x) PROVE part.size > 0
  BY <1>2, <1>4 DEF PartOf, PieceIn
<1>5. ASSUME ~CutUp(x) /\ x.pad PROVE part.size > 0
  BY <1>2, <1>3, <1>5 DEF PartOf
<1>6. ASSUME ~CutUp(x) /\ ~x.pad PROVE part.size > 0
  <2>1. part.addr = x.addr /\ part.size = x.size /\ IsRowOf(x)
    BY <1>2, <1>3, <1>6 DEF PartOf
  <2>2. /\ RowAt(x.addr) \in DOMAIN rows /\ rows[RowAt(x.addr)].addr = x.addr /\ x.addr \in Nat
        /\ NextAddr(x.addr) \in Nat /\ x.addr < NextAddr(x.addr)
    BY <1>2, <2>1, RowOfIs DEF BeforeCut
  <2>3. i \in DOMAIN csv /\ i \in DOMAIN rows /\ rows[i] = csv[i] /\ csv[i].addr \in Nat /\ csv[i].size \in Nat
        /\ csv[i].size > 0
    BY RowsTyped, InputsTyped DEF Extents, BeforeCut, Placed
  <2>4. RowAt(x.addr) = i
    <3> DEFINE j == RowAt(x.addr)
    <3>1. j \in DOMAIN rows /\ csv[i].addr <= rows[j].addr /\ rows[j].addr < End(csv[i]) /\ rows[j].addr \in Nat
      BY <1>2, <2>1, <2>2
    <3> HIDE DEF j
    <3>2. j # i => rows[i].addr # rows[j].addr /\ ~(rows[i].addr < rows[j].addr /\ rows[j].addr < End(rows[i]))
      BY <2>3, <3>1 DEF BeforeCut, RowsApart
    <3>3. j = i
      BY <2>3, <3>1, <3>2
    <3> QED
      BY <3>3 DEF j
  <2>5. x.size = Least(csv[i].size, NextAddr(x.addr) - x.addr)
    BY <2>1, <2>3, <2>4 DEF IsRowOf
  <2>6. x.size > 0
    BY <2>2, <2>3, <2>5 DEF Least
  <2> QED
    BY <2>1, <2>6
<1>7. part.size > 0
  BY <1>4, <1>5, <1>6
<1> QED
  BY <1>7 DEF part

\* The part a byte of a function is in is the only symbol that begins from where it
\* does up to the byte.
LEMMA PartOfByte ==
  ASSUME TargetCutAssumption, BeforeCut, NEW s, NEW ms, Parts(s, ms),
         NEW i \in Extents, NEW b \in Byte, csv[i].addr <= b, b < End(csv[i]),
         NEW p \in DOMAIN syms, syms[p].addr = csv[i].addr, b < End(syms[p])
  PROVE  \E x \in DOMAIN s :
           /\ PartOf(s[x], syms[p]) /\ s[x].addr <= b /\ b < End(s[x])
           /\ \A y \in DOMAIN s \ {x} : ~(s[x].addr <= s[y].addr /\ s[y].addr <= b)
<1>1. s \in Seq(Symbol) /\ DOMAIN s = 1..Len(s) /\ Len(s) \in Nat /\ Covers(s, 0, Size)
  BY DEF Parts
<1>2. Size \in Nat /\ b \in 0..(Size - 1) /\ b \in Nat
  BY DEF Byte, TargetCutAssumption
<1>3. PICK x \in 1..Len(s) : s[x].addr <= b /\ b < End(s[x])
  BY <1>1, <1>2, CoversAll
<1>4. x \in DOMAIN s /\ PartOf(s[x], syms[p])
  BY <1>1, <1>2, <1>3, PartIsOfRow
<1>5. \A y \in DOMAIN s : s[y].addr \in Nat /\ s[y].size \in Nat /\ End(s[y]) = s[y].addr + s[y].size
  BY <1>1, ElementOf, SymbolTyped
<1>6. \A j, k \in DOMAIN s : j < k => End(s[j]) <= s[k].addr
  BY <1>1, CoversInOrder
<1>7. csv[i].addr <= s[x].addr /\ csv[i].addr \in Nat /\ End(csv[i]) \in Nat
  BY <1>4, InputsTyped DEF PartOf, Extents, BeforeCut, Placed
<1>8. ASSUME NEW y \in DOMAIN s, y # x, s[x].addr <= s[y].addr, s[y].addr <= b PROVE FALSE
  <2>1. x < y \/ y < x
    BY <1>1, <1>4, <1>8
  <2>2. ~(x < y)
    BY <1>2, <1>3, <1>4, <1>5, <1>6, <1>8
  <2>3. s[y].size = 0
    <3>1. End(s[y]) <= s[x].addr
      BY <1>4, <1>6, <2>1, <2>2
    <3> QED
      BY <1>4, <1>5, <1>8, <3>1
  <2>4. csv[i].addr <= s[y].addr /\ s[y].addr < End(csv[i])
    BY <1>2, <1>4, <1>5, <1>7, <1>8
  <2>5. s[y].size > 0
    BY <2>4, NoPartBetween
  <2> QED
    BY <2>3, <2>5
<1> QED
  BY <1>3, <1>4, <1>8

\* A byte of a function that is not cut is read by the marks of its row, which are not
\* spent.
LEMMA WholeReads ==
  ASSUME TargetCutAssumption, BeforeCut, NEW s, NEW ms, Parts(s, ms),
         NEW i \in Extents, NEW b \in Byte, csv[i].addr <= b, b < End(csv[i]),
         NEW p \in DOMAIN syms, syms[p].addr = csv[i].addr, b < End(syms[p]),
         syms[p].mode = csv[i].mode, ~CutUp(syms[p])
  PROVE  Reads(s, ms, i, b)
<1>1. PICK x \in DOMAIN s : /\ PartOf(s[x], syms[p]) /\ s[x].addr <= b /\ b < End(s[x])
                            /\ \A y \in DOMAIN s \ {x} : ~(s[x].addr <= s[y].addr /\ s[y].addr <= b)
  BY PartOfByte
<1>2. s[x].addr = csv[i].addr /\ s[x].mode = csv[i].mode
  BY <1>1 DEF PartOf
<1>3. Placed /\ InputsOK /\ Apart(i) /\ StartsAgree
  BY ApartIs DEF BeforeCut, Placed
<1>4. PICK a \in csv[i].addr..b :
        /\ \A m \in MarksOfRows : ~(a < m[1] /\ m[1] <= b)
        /\ a = csv[i].addr \/ \E m \in MarksOfRows : m[1] = a
        /\ a = csv[i].addr => csv[i].mode = ModeOf(i, b)
        /\ \A m \in MarksOfRows : m[1] = a => m[2] = ModeOf(i, b)
  BY <1>3, LastMarkBefore
<1>5. /\ csv[i].addr \in Nat /\ b \in Nat /\ a \in Nat /\ csv[i].addr <= a /\ a <= b
      /\ \A q \in DOMAIN syms : syms[q].addr \in Nat /\ End(syms[q]) \in Nat
  <2>1. csv[i].addr \in Nat /\ b \in Nat
    BY <1>3, InputsTyped DEF Byte, Extents
  <2>2. \A q \in DOMAIN syms : syms[q].addr \in Nat /\ End(syms[q]) \in Nat
    BY ElementOf, SymbolTyped DEF BeforeCut
  <2> QED
    BY <2>1, <2>2
<1>6. ~Spent(a)
  <2> SUFFICES ASSUME Spent(a) PROVE FALSE
    OBVIOUS
  <2>1. PICK q \in DOMAIN syms : CutUp(syms[q]) /\ syms[q].addr <= a /\ a < End(syms[q])
    BY DEF Spent, CutUp, Spliced
  <2>2. syms[p].addr <= a /\ a < End(syms[p])
    BY <1>5
  <2>3. \A j, k \in DOMAIN syms : j < k => End(syms[j]) <= syms[k].addr
    BY CoversInOrder DEF BeforeCut
  <2>4. p < q \/ q < p \/ p = q
    BY DEF BeforeCut
  <2>5. p = q
    BY <1>5, <2>1, <2>2, <2>3, <2>4
  <2> QED
    BY <2>1, <2>5
<1>7. (\A m \in ms : m \in MarksOfRows) /\ \A m \in MarksOfRows : m[1] = a => m \in ms
  BY <1>6 DEF Parts
<1>8. LastMark(s, ms, x, a, b, ModeOf(i, b))
  BY <1>1, <1>2, <1>4, <1>5, <1>7 DEF LastMark
<1>9. a \in s[x].addr..b
  BY <1>2
<1> QED
  BY <1>8, <1>9 DEF Reads

\* A piece has the mode of its bytes.
LEMMA PieceIsMode ==
  ASSUME TargetCutAssumption, InputsOK, NEW i, Apart(i), NEW b \in Byte, csv[i].addr <= b, b < End(csv[i]),
         NEW q, q.addr = csv[i].addr, q.mode = csv[i].mode, q.name = csv[i].name,
         NEW y \in Symbol, PieceIn(y, q), y.addr <= b, b < End(y)
  PROVE  y.mode = ModeOf(i, b)
<1>1. b \in Nat /\ y.addr \in Nat /\ End(y) \in Nat /\ csv[i].addr \in Nat
  BY SymbolTyped, InputsTyped DEF Byte, Apart, Extents
<1>2. \A r \in Inner(csv[i].name) : r[1] \in Nat /\ r[2] \in Nat /\ r[1] < r[2]
  BY InnerIs
<1>3. CASE \E r \in Inner(csv[i].name) : y.addr = r[1] /\ End(y) = r[2] /\ y.mode = r[3]
  BY <1>1, <1>3, RunIsMode
<1>4. CASE /\ \A r \in Inner(csv[i].name) : r[2] <= y.addr \/ End(y) <= r[1]
           /\ (y.addr = q.addr /\ y.mode = q.mode) \/ \E r \in Inner(csv[i].name) : r[2] = y.addr
  <2>1. \A r \in Inner(csv[i].name) : ~(r[1] <= b /\ b < r[2])
    BY <1>1, <1>2, <1>4
  <2>2. /\ \A k \in DOMAIN marks : csv[i].addr <= marks[k].addr => b < marks[k].addr
        /\ ModeOf(i, b) = csv[i].mode
    BY <2>1, NoneBefore
  <2>3. ASSUME NEW r \in Inner(csv[i].name), r[2] = y.addr PROVE FALSE
    <3>1. PICK k \in DOMAIN marks : Among(i, k) /\ Inside(k) /\ MadeBy(r, k)
      BY InnerAmong
    <3>2. marks[k].addr <= r[1] /\ csv[i].addr <= marks[k].addr /\ marks[k].addr \in Nat
      BY <3>1, MadeByIs, InputsTyped DEF Among
    <3>3. b < marks[k].addr
      BY <2>2, <3>2
    <3> QED
      BY <1>1, <1>2, <2>3, <3>2, <3>3
  <2> QED
    BY <1>4, <2>2, <2>3
<1> QED
  BY <1>3, <1>4 DEF PieceIn

\* A byte of a function that is cut is read by the piece it is in.
LEMMA PieceReads ==
  ASSUME TargetCutAssumption, BeforeCut, NEW s, NEW ms, Parts(s, ms),
         NEW i \in Extents, NEW b \in Byte, csv[i].addr <= b, b < End(csv[i]),
         NEW p \in DOMAIN syms, syms[p].addr = csv[i].addr, b < End(syms[p]),
         syms[p].mode = csv[i].mode, syms[p].name = csv[i].name, CutUp(syms[p])
  PROVE  Reads(s, ms, i, b)
<1>1. PICK x \in DOMAIN s : /\ PartOf(s[x], syms[p]) /\ s[x].addr <= b /\ b < End(s[x])
                            /\ \A y \in DOMAIN s \ {x} : ~(s[x].addr <= s[y].addr /\ s[y].addr <= b)
  BY PartOfByte
<1>2. Placed /\ InputsOK /\ Apart(i) /\ StartsAgree
  BY ApartIs DEF BeforeCut, Placed
<1> DEFINE y == s[x]
<1>3. y \in Symbol /\ PieceIn(y, syms[p]) /\ csv[i].addr <= y.addr
  BY <1>1, ElementOf DEF Parts, PartOf
<1>4. /\ csv[i].addr \in Nat /\ b \in Nat /\ y.addr \in Nat /\ End(y) \in Nat
      /\ y.addr <= b /\ b < End(y) /\ y.addr \in y.addr..b
  <2>1. csv[i].addr \in Nat /\ b \in Nat
    BY <1>2, InputsTyped DEF Byte, Extents
  <2>2. y.addr \in Nat /\ End(y) \in Nat
    BY <1>3, SymbolTyped
  <2> QED
    BY <1>1, <2>1, <2>2
<1> HIDE DEF y
<1>6. y.mode = ModeOf(i, b)
  BY <1>2, <1>3, <1>4, PieceIsMode
<1>7. \A m \in ms : ~(y.addr <= m[1] /\ m[1] <= b)
  <2>1. \A m \in ms : m \in MarksOfRows /\ ~Spent(m[1])
    BY DEF Parts
  <2>2. \A m \in MarksOfRows : m[1] \in Nat
    BY <1>2, InnerIs DEF MarksOfRows
  <2>3. ASSUME NEW m \in ms, y.addr <= m[1], m[1] <= b PROVE FALSE
    <3>1. syms[p].addr <= m[1] /\ m[1] < End(syms[p])
      <4>1. End(syms[p]) \in Nat /\ m[1] \in Nat
        BY <2>1, <2>2, ElementOf, SymbolTyped DEF BeforeCut
      <4> QED
        BY <1>3, <1>4, <2>3, <4>1
    <3>2. Spent(m[1])
      BY <3>1 DEF Spent, CutUp, Spliced
    <3> QED
      BY <2>1, <3>2
  <2> QED
    BY <2>3
<1>8. /\ \A m \in ms : ~(y.addr < m[1] /\ m[1] <= b)
      /\ \A m \in ms : m[1] = y.addr => m[2] = ModeOf(i, b)
  <2>1. \A m \in ms : m[1] \in Nat
    BY <1>2, InnerIs DEF MarksOfRows, Parts
  <2> QED
    BY <1>4, <1>7, <2>1
<1>9. /\ y.addr <= b /\ b < End(y) /\ y.addr <= y.addr
      /\ \A z \in DOMAIN s \ {x} : ~(y.addr <= s[z].addr /\ s[z].addr <= b)
  BY <1>1, <1>4 DEF y
<1>10. LastMark(s, ms, x, y.addr, b, ModeOf(i, b))
  BY <1>6, <1>8, <1>9 DEF LastMark, y
<1> QED
  BY <1>4, <1>10 DEF Reads, y

\* Cutting keeps how every byte of a function is read.
LEMMA PartsKeepModes ==
  ASSUME TargetCutAssumption, BeforeCut, NEW s, NEW ms, Parts(s, ms)
  PROVE  ModesKept(s, ms)
<1>1. Placed /\ InputsOK /\ Size \in Nat
  BY InputsTyped DEF BeforeCut, Placed
<1>2. ASSUME NEW x \in DOMAIN s PROVE s[x].addr < Size
  <2> DEFINE y == s[x]
  <2>1. y \in Symbol /\ End(y) <= Size
    BY ElementOf, CoversWithin DEF Parts
  <2>2. PICK p \in DOMAIN syms : PartOf(y, syms[p])
    BY DEF Parts
  <2> DEFINE q == syms[p]
  <2>3. q \in Symbol /\ PartOf(y, q) /\ (q.pad => q.size > 0) /\ (~q.pad => IsRowOf(q))
    BY <2>2, ElementOf DEF BeforeCut, RowsStand
  <2> HIDE DEF y, q
  <2>4. y.addr \in Nat /\ y.size \in Nat /\ End(y) = y.addr + y.size
    BY <2>1, SymbolTyped
  <2>5. ASSUME y.size > 0 PROVE y.addr < Size
    BY <1>1, <2>1, <2>4, <2>5
  <2>6. ASSUME y.addr = q.addr, IsRowOf(q) PROVE y.addr < Size
    BY <1>1, <2>3, <2>6, RowOfIs
  <2>7. y.size > 0 \/ (y.addr = q.addr /\ IsRowOf(q))
    BY <2>3 DEF PartOf, PieceIn
  <2>8. y.addr < Size
    BY <2>5, <2>6, <2>7
  <2> QED
    BY <2>8 DEF y
<1>3. ASSUME NEW m \in ms PROVE m[1] < Size
  <2>1. PICK j \in Extents : \E r \in Inner(csv[j].name) : m = <<r[1], r[3]>>
    BY DEF Parts, MarksOfRows
  <2>2. PICK r \in Inner(csv[j].name) : m = <<r[1], r[3]>>
    BY <2>1
  <2>3. r[1] \in Nat /\ r[2] \in Nat /\ r[1] < r[2] /\ r[2] <= Size
    BY <1>1, InnerIs
  <2> QED
    BY <1>1, <2>2, <2>3
<1>4. ASSUME NEW i \in Extents, Code(csv[i]), NEW b \in InRow(i) PROVE Reads(s, ms, i, b)
  <2>1. csv[i].addr \in Nat /\ End(csv[i]) \in Nat
    BY <1>1, InputsTyped DEF Extents
  <2>2. b \in Byte /\ csv[i].addr <= b /\ b < End(csv[i]) /\ b < Least(End(csv[i]), Size)
    BY <1>1, <2>1 DEF InRow, Byte, Least
  <2>3. PICK p \in DOMAIN syms :
          /\ syms[p].addr = csv[i].addr /\ End(syms[p]) = Least(End(csv[i]), Size)
          /\ syms[p].mode = csv[i].mode /\ syms[p].name = csv[i].name
    BY RowHasSymbol DEF BeforeCut
  <2>4. b < End(syms[p])
    BY <2>2, <2>3
  <2> QED
    BY <2>2, <2>3, <2>4, WholeReads, PieceReads
<1> QED
  BY <1>2, <1>3, <1>4 DEF ModesKept

\* What the mapping rows say stays as the inputs do.
LEMMA ModesStay ==
  ASSUME UNCHANGED inputs
  PROVE  /\ MarksOfRows' = MarksOfRows /\ (StartsAgree' <=> StartsAgree)
         /\ \A s, ms : ModesKept(s, ms)' <=> ModesKept(s, ms)
<1>1. csv' = csv /\ marks' = marks
  BY DEF inputs
<1>2. /\ Extents' = Extents
      /\ \A k : EndOf(k)' = EndOf(k)
      /\ \A n : Inner(n)' = Inner(n)
  BY InputsStay
<1>3. MarksOfRows' = MarksOfRows
  BY <1>1, <1>2 DEF MarksOfRows
<1>4. StartsAgree' <=> StartsAgree
  BY <1>1 DEF StartsAgree
<1>5. \A i, b : Upto(i, b)' = Upto(i, b)
  BY <1>1, <1>2 DEF Upto
<1>6. \A i, b : ModeOf(i, b)' = ModeOf(i, b)
  BY <1>1, <1>5 DEF ModeOf
<1>7. \A s, ms, i, b : Reads(s, ms, i, b)' <=> Reads(s, ms, i, b)
  BY <1>6 DEF Reads
<1>8. \A i : InRow(i)' = InRow(i)
  BY <1>1 DEF InRow
<1>9. \A s, ms : ModesKept(s, ms)' <=> ModesKept(s, ms)
  BY <1>1, <1>2, <1>7, <1>8 DEF ModesKept
<1> QED
  BY <1>3, <1>4, <1>9

\* Each pass hands on what the mapping rows say.
LEMMA StepModes ==
  ASSUME TargetCutAssumption, CutInv, ModeInv, [Next]_vars
  PROVE  ModeInv'
<1>1. CASE PlaceMarkers
  <2>1. pc' = "complete" /\ mapping' = MarksOfRows /\ UNCHANGED inputs
    BY <1>1 DEF PlaceMarkers, MarksOfRows
  <2>2. MarksOfRows' = MarksOfRows
    BY <2>1, ModesStay
  <2> QED
    BY <2>1, <2>2 DEF ModeInv
<1>2. CASE CompleteSymbol \/ CompleteGap
  <2>1. pc = "complete" /\ pc' = pc /\ mapping' = mapping /\ UNCHANGED inputs
    BY <1>2 DEF CompleteSymbol, CompleteGap
  <2>2. MarksOfRows' = MarksOfRows
    BY <2>1, ModesStay
  <2> QED
    BY <2>1, <2>2 DEF ModeInv
<1>3. CASE CompleteEnds
  <2>1. /\ pc = "complete" /\ pc' = "settle" /\ mapping' = mapping /\ syms' = syms /\ rows' = rows
        /\ todo = {} /\ UNCHANGED inputs
    BY <1>3 DEF CompleteEnds
  <2>2. MarksOfRows' = MarksOfRows
    BY <2>1, ModesStay
  <2>3. RowsStand
    BY <2>1 DEF CutInv, Coming, Completed, IsGap, RowsStand
  <2>4. RowsStand'
    BY <2>1, <2>3 DEF RowsStand, RowAddrs
  <2> QED
    BY <2>1, <2>2, <2>4 DEF ModeInv
<1>4. CASE Settle
  <2>1. /\ pc = "settle" /\ pc' = "cut" /\ mapping' = mapping /\ rows' = rows
        /\ syms' = [i \in DOMAIN syms |-> Settled(i)] /\ UNCHANGED inputs
    BY <1>4 DEF Settle
  <2>2. MarksOfRows' = MarksOfRows
    BY <2>1, ModesStay
  <2>3. RowsStand /\ Placed /\ syms \in Seq(Symbol)
    BY <2>1 DEF ModeInv, CutInv, TypeOK
  <2>4. \A i \in DOMAIN syms : /\ Settled(i).addr = syms[i].addr /\ Settled(i).size = syms[i].size
                               /\ Settled(i).pad = syms[i].pad
    BY <2>3, SettledIs
  <2>5. DOMAIN syms' = DOMAIN syms /\ \A i \in DOMAIN syms : syms'[i] = Settled(i)
    BY <2>1
  <2>6. RowAddrs' = RowAddrs
    BY <2>1 DEF RowAddrs
  <2>7. RowsStand'
    BY <2>3, <2>4, <2>5, <2>6 DEF RowsStand
  <2> QED
    BY <2>1, <2>2, <2>7 DEF ModeInv
<1>5. CASE CutPools
  <2>1. pc = "cut" /\ pc' = "write" /\ mapping' = {m \in mapping : ~Spent(m[1])} /\ UNCHANGED inputs /\ UNCHANGED rows
    BY <1>5 DEF CutPools
  <2>2. mapping = MarksOfRows /\ RowsStand /\ Placed /\ syms \in Seq(Symbol) /\ Covers(syms, 0, Size)
    BY <2>1 DEF ModeInv, CutInv, TypeOK
  <2>3. \A p \in DOMAIN syms : ~syms[p].pad => IsRowOf(syms[p])
    BY <2>1 DEF CutInv
  <2>4. ASSUME RowsApart, StartsAgree PROVE ModesKept(syms', mapping')
    <3> DEFINE s  == syms'
               ms == mapping'
    <3>1. BeforeCut
      BY <2>2, <2>3, <2>4 DEF BeforeCut
    <3>2. Parts(s, ms)
      BY <1>5, <2>1, <2>2, <2>4, PartsAre DEF Parts
    <3> HIDE DEF s, ms
    <3>3. ModesKept(s, ms)
      BY <3>1, <3>2, PartsKeepModes
    <3> QED
      BY <3>3 DEF s, ms
  <2>5. /\ (RowsApart' <=> RowsApart) /\ (StartsAgree' <=> StartsAgree)
        /\ \A s, ms : ModesKept(s, ms)' <=> ModesKept(s, ms)
    BY <2>1, RowsStay, ModesStay
  <2>6. RowsApart' /\ StartsAgree' => ModesKept(syms, mapping)'
    BY <2>4, <2>5
  <2> QED
    BY <2>1, <2>6 DEF ModeInv
<1>6. CASE Write \/ UNCHANGED vars
  <2>1. /\ mapping' = mapping /\ syms' = syms /\ UNCHANGED inputs /\ UNCHANGED rows
        /\ pc' = pc \/ (pc = "write" /\ pc' = "written")
    BY <1>6 DEF Write, vars
  <2>2. /\ (RowsApart' <=> RowsApart) /\ (StartsAgree' <=> StartsAgree) /\ MarksOfRows' = MarksOfRows
        /\ \A s, ms : ModesKept(s, ms)' <=> ModesKept(s, ms)
    BY <2>1, RowsStay, ModesStay
  <2>3. ModesKept(syms, mapping)' <=> ModesKept(syms, mapping)
    BY <2>1, <2>2
  <2>4. RowsStand' <=> RowsStand
    BY <2>1 DEF RowsStand, RowAddrs
  <2> QED
    BY <2>1, <2>2, <2>3, <2>4 DEF ModeInv
<1> QED
  BY <1>1, <1>2, <1>3, <1>4, <1>5, <1>6 DEF Next

\* So how a byte is read is as the CSV says in every step.
LEMMA TargetModeInv == Spec => [](CutInv /\ ModeInv)
<1>1. Init => ModeInv
  BY DEF Init, ModeInv
<1>2. CutInv /\ ModeInv /\ [Next]_vars => ModeInv'
  BY TargetCutAssumption, StepModes
<1> QED
  BY <1>1, <1>2, TargetCutInv, PTL DEF Spec

\* The mapping symbols that are written are at the places of bytes.
LEMMA MappingIs ==
  ASSUME TargetCutAssumption, TypeOK,
         \A x \in DOMAIN syms : syms[x].addr < Size, \A m \in mapping : m[1] < Size,
         NEW n \in MappingSymbols
  PROVE  \E c \in Byte : /\ n[1] = PlaceOf(c)
                         /\ \/ \E y \in DOMAIN syms : syms[y].addr = c /\ n[2] = syms[y].mode
                            \/ \E m \in mapping : m[1] = c /\ n[2] = m[2]
<1>1. Size \in Nat /\ syms \in Seq(Symbol) /\ mapping \subseteq (0..Size) \X Mode
  BY DEF TypeOK, TargetCutAssumption
<1>2. CASE \E y \in DOMAIN syms : n = <<PlaceOf(syms[y].addr), syms[y].mode>>
  <2>1. PICK y \in DOMAIN syms : n = <<PlaceOf(syms[y].addr), syms[y].mode>>
    BY <1>2
  <2>2. syms[y].addr \in Nat /\ syms[y].addr < Size
    BY <1>1, ElementOf, SymbolTyped
  <2>3. syms[y].addr \in Byte
    BY <1>1, <2>2 DEF Byte
  <2> QED
    BY <2>1, <2>3
<1>3. CASE \E m \in mapping : n = <<PlaceOf(m[1]), m[2]>>
  <2>1. PICK m \in mapping : n = <<PlaceOf(m[1]), m[2]>>
    BY <1>3
  <2>2. m[1] \in Byte
    BY <1>1 DEF Byte
  <2> QED
    BY <2>1, <2>2
<1> QED
  BY <1>2, <1>3 DEF MappingSymbols

\* The mode a byte is read in is that of the last mark before it.
LEMMA LastMarkIsRead ==
  ASSUME TargetCutAssumption, TypeOK, Written,
         \A x \in DOMAIN syms : syms[x].addr < Size, \A m \in mapping : m[1] < Size,
         NEW b \in Byte, NEW x \in DOMAIN syms, NEW a \in syms[x].addr..b, NEW mode,
         LastMark(syms, mapping, x, a, b, mode)
  PROVE  ModesAt(b) = {mode}
<1>1. /\ Size \in Nat /\ syms \in Seq(Symbol) /\ b \in Nat /\ b < Size
      /\ syms[x].addr \in Nat /\ End(syms[x]) \in Nat /\ syms[x].addr <= a /\ a <= b /\ b < End(syms[x])
  <2>1. Size \in Nat /\ syms \in Seq(Symbol) /\ b \in Nat /\ b < Size
    BY DEF TypeOK, TargetCutAssumption, Byte
  <2>2. syms[x].addr \in Nat /\ End(syms[x]) \in Nat
    BY <2>1, ElementOf, SymbolTyped
  <2> QED
    BY <2>1, <2>2 DEF LastMark
<1>2. a \in Byte /\ a \in Nat
  BY <1>1 DEF Byte
<1>3. PlaceOf(a)[1] = PlaceOf(b)[1]
  <2>1. a < End(syms[x]) /\ syms[x].addr <= b
    BY <1>1, <1>2
  <2> QED
    BY <1>1, <1>2, <2>1, SectionIs
<1> DEFINE P(c) == PlaceOf(c)
           all == MappingSymbols
           sofar == {m \in all : m[1][1] = P(b)[1] /\ m[1][2] <= P(b)[2]}
           offs == {m[1][2] : m \in sofar}
           last == Max(offs)
           e == <<P(a), mode>>
<1>4. ModesAt(b) = {m[2] : m \in {n \in sofar : n[1][2] = last}}
  BY DEF ModesAt
<1>5. \A c, d \in Byte : c < d => /\ P(c)[2] \in Int /\ P(d)[2] \in Int
                                  /\ P(c)[1] = P(d)[1] => P(c)[2] < P(d)[2]
  BY PlacesInOrder
<1>6. \A c \in Byte : c \in Int
  BY <1>1 DEF Byte
<1>7. \A n \in all : \E c \in Byte :
        /\ n[1] = P(c)
        /\ \/ \E y \in DOMAIN syms : syms[y].addr = c /\ n[2] = syms[y].mode
           \/ \E m \in mapping : m[1] = c /\ n[2] = m[2]
  BY MappingIs
<1>8. e \in all
  <2>1. CASE a = syms[x].addr
    <3>1. syms[x].mode = mode
      BY <2>1 DEF LastMark
    <3> QED
      BY <2>1, <3>1 DEF MappingSymbols
  <2>2. CASE \E m \in mapping : m[1] = a
    <3>1. PICK m \in mapping : m[1] = a
      BY <2>2
    <3>2. m[2] = mode
      BY <3>1 DEF LastMark
    <3>3. e = <<PlaceOf(m[1]), m[2]>>
      BY <3>1, <3>2
    <3> QED
      BY <3>3 DEF MappingSymbols
  <2> QED
    BY <2>1, <2>2 DEF LastMark
<1>9. \A n \in all : n[1][1] = P(b)[1] /\ n[1][2] <= P(b)[2] =>
        \/ n[1][2] < P(a)[2] /\ n[1][2] \in Int /\ P(a)[2] \in Int
        \/ n[1] = P(a) /\ n[2] = mode
  <2> TAKE n \in all
  <2> HAVE n[1][1] = P(b)[1] /\ n[1][2] <= P(b)[2]
  <2>1. PICK c \in Byte :
          /\ n[1] = P(c)
          /\ \/ \E y \in DOMAIN syms : syms[y].addr = c /\ n[2] = syms[y].mode
             \/ \E m \in mapping : m[1] = c /\ n[2] = m[2]
    BY <1>7
  <2>2. c \in Int /\ P(c)[1] = P(b)[1] /\ P(c)[2] <= P(b)[2]
    BY <1>6, <2>1
  <2> HIDE DEF P
  <2>3. ~(b < c)
    BY <1>5, <2>1, <2>2
  <2>4. c <= b
    BY <1>1, <2>2, <2>3
  <2>5. c < a \/ (c = a /\ n[2] = mode)
    <3>1. CASE \E y \in DOMAIN syms : syms[y].addr = c /\ n[2] = syms[y].mode
      <4>1. PICK y \in DOMAIN syms : syms[y].addr = c /\ n[2] = syms[y].mode
        BY <3>1
      <4>2. CASE y = x
        <5>1. c <= a /\ (c = a => n[2] = mode)
          BY <1>1, <4>1, <4>2 DEF LastMark
        <5> QED
          BY <1>2, <2>2, <5>1
      <4>3. CASE y # x
        <5>1. ~(syms[x].addr <= c /\ c <= b)
          BY <4>1, <4>3 DEF LastMark
        <5> QED
          BY <1>1, <1>2, <2>2, <2>4, <5>1
      <4> QED
        BY <4>2, <4>3
    <3>2. CASE \E m \in mapping : m[1] = c /\ n[2] = m[2]
      <4>1. PICK m \in mapping : m[1] = c /\ n[2] = m[2]
        BY <3>2
      <4>2. ~(a < c /\ c <= b) /\ (c = a => n[2] = mode)
        BY <4>1 DEF LastMark
      <4> QED
        BY <1>2, <2>2, <2>4, <4>2
    <3> QED
      BY <2>1, <3>1, <3>2
  <2>6. CASE c < a
    <3>1. P(c)[1] = P(a)[1]
      BY <1>3, <2>2 DEF P
    <3>2. P(c)[2] < P(a)[2] /\ P(c)[2] \in Int /\ P(a)[2] \in Int
      BY <1>2, <1>5, <2>6, <3>1
    <3> QED
      BY <2>1, <3>2
  <2> QED
    BY <2>1, <2>5, <2>6
<1>10. P(a)[1] = P(b)[1] /\ P(a)[2] <= P(b)[2]
  <2>1. CASE a = b
    <3>1. P(a)[2] \in Int
      <4>1. PICK k \in 1..Cardinality(Firsts) : RunOf(b) = runs[k]
        BY RunOfIs
      <4>2. runs[k].off \in Int /\ runs[k].start = StartAt(k) /\ StartAt(k) \in Nat
        BY <4>1, RunsAre, RunsInOrder
      <4>3. P(b)[2] = runs[k].off + b - runs[k].start
        BY <4>1 DEF PlaceOf
      <4> HIDE DEF P
      <4> QED
        BY <1>1, <2>1, <4>2, <4>3
    <3> HIDE DEF P
    <3> QED
      BY <2>1, <3>1
  <2>2. CASE a # b
    <3>1. a < b
      BY <1>1, <1>2, <2>2
    <3>2. P(a)[1] = P(b)[1]
      BY <1>3
    <3> HIDE DEF P
    <3>3. P(a)[2] < P(b)[2] /\ P(a)[2] \in Int /\ P(b)[2] \in Int
      BY <1>2, <1>5, <3>1, <3>2
    <3> QED
      BY <3>2, <3>3
  <2> QED
    BY <2>1, <2>2
<1> HIDE DEF P, all
<1>11. e \in sofar /\ e[1] = P(a) /\ e[2] = mode
  BY <1>8, <1>10
<1>12. P(a)[2] \in offs
  BY <1>11
<1>13. \A n \in sofar : \/ n[1][2] < P(a)[2] /\ n[1][2] \in Int /\ P(a)[2] \in Int
                        \/ n[1] = P(a) /\ n[2] = mode
  BY <1>9
<1>14. last = P(a)[2]
  <2> DEFINE top == P(a)[2]
  <2>1. \A o \in offs : (o < top /\ o \in Int /\ top \in Int) \/ o = top
    BY <1>13
  <2>2. top \in offs
    BY <1>12
  <2>3. last = CHOOSE o \in offs : \A t \in offs : o >= t
    BY DEF Max
  <2> HIDE DEF top, offs, last
  <2>4. top >= top
    <3>1. top \in Int
      <4>1. P(a)[2] \in Int
        <5>1. PICK k \in 1..Cardinality(Firsts) : RunOf(a) = runs[k]
          BY <1>2, RunOfIs
        <5>2. runs[k].off \in Int /\ runs[k].start = StartAt(k) /\ StartAt(k) \in Nat
          BY <5>1, RunsAre, RunsInOrder
        <5>3. P(a)[2] = runs[k].off + a - runs[k].start
          BY <5>1 DEF PlaceOf, P
        <5> QED
          BY <1>2, <5>2, <5>3
      <4> QED
        BY <4>1 DEF top
    <3> QED
      BY <3>1
  <2>5. \A t \in offs : top >= t
    BY <2>1, <2>4
  <2>6. \A o \in offs : (\A t \in offs : o >= t) => o = top
    BY <2>1, <2>2
  <2>7. last = top
    BY <2>2, <2>3, <2>5, <2>6
  <2> QED
    BY <2>7 DEF top
<1> HIDE DEF last, offs
<1>15. \A n \in sofar : n[1][2] = last => n[2] = mode
  BY <1>13, <1>14
<1>16. e \in sofar /\ e[1][2] = last /\ e[2] = mode
  BY <1>11, <1>14
<1> HIDE DEF sofar, e
<1> QED
  BY <1>4, <1>15, <1>16

\* A byte of a function is decoded as the CSV says, also where taking pools out has
\* moved it.
THEOREM ModesAreKept == Spec => []ModeIsKept
<1>1. CutInv /\ ModeInv => ModeIsKept
  <2> SUFFICES ASSUME CutInv, ModeInv, pc = "written", RowsApart, StartsAgree,
                      NEW i \in Extents, NEW b \in InRow(i), Code(csv[i])
               PROVE  ModesAt(b) = {ModeOf(i, b)}
    BY DEF ModeIsKept, InRow, ModeOf, Upto
  <2>1. TargetCutAssumption /\ TypeOK /\ Placed /\ InputsOK /\ ModesKept(syms, mapping)
    BY TargetCutAssumption DEF CutInv, ModeInv
  <2>2. ExtentsApart
    <3>1. \A j \in Extents : Apart(j) /\ j \in DOMAIN csv
      BY <2>1, ApartIs DEF Extents
    <3>2. \A j \in DOMAIN csv : csv[j].addr \in Nat
      BY <2>1, InputsTyped
    <3> QED
      BY <3>1, <3>2 DEF Apart, ExtentsApart
  <2>3. Written
    BY <2>2 DEF CutInv, TypeOK, Written
  <2>4. b \in Byte
    <3>1. i \in DOMAIN csv /\ csv[i].addr \in Nat /\ End(csv[i]) \in Nat /\ Size \in Nat
      BY <2>1, InputsTyped DEF Extents
    <3> QED
      BY <3>1 DEF InRow, Byte, Least
  <2>5. PICK x \in DOMAIN syms : \E a \in syms[x].addr..b : LastMark(syms, mapping, x, a, b, ModeOf(i, b))
    BY <2>1 DEF ModesKept, Reads
  <2>6. (\A y \in DOMAIN syms : syms[y].addr < Size) /\ \A m \in mapping : m[1] < Size
    BY <2>1 DEF ModesKept
  <2> QED
    BY <2>1, <2>3, <2>4, <2>5, <2>6, LastMarkIsRead
<1> QED
  BY <1>1, TargetModeInv, PTL

-----------------------------------------------------------------------------
(* Bytes in their order.                                                   *)

\* A sequence that has the numbers of a set, each once and in their order.
InOrder(s, S) ==
  /\ s \in Seq(Int)
  /\ \A j, k \in 1..Len(s) : j < k => s[j] < s[k]
  /\ \A k \in 1..Len(s) : s[k] \in S
  /\ \A x \in S : \E k \in 1..Len(s) : s[k] = x

\* There is only one: of two the first begins the second.
LEMMA OrderBegins ==
  ASSUME NEW S, NEW s, NEW t, InOrder(s, S), InOrder(t, S)
  PROVE  Len(s) <= Len(t) /\ \A j \in 1..Len(s) : s[j] = t[j]
<1> DEFINE Same == {k \in 0..Len(s) : k <= Len(t) /\ \A j \in 1..k : s[j] = t[j]}
<1>1. Len(s) \in Nat /\ Len(t) \in Nat
  BY DEF InOrder
<1>2. /\ \A j \in 1..Len(s) : s[j] \in Int /\ s[j] \in S
      /\ \A j \in 1..Len(t) : t[j] \in Int /\ t[j] \in S
      /\ \A j, k \in 1..Len(s) : j < k => s[j] < s[k]
      /\ \A j, k \in 1..Len(t) : j < k => t[j] < t[k]
      /\ \A x \in S : \E k \in 1..Len(s) : s[k] = x
      /\ \A x \in S : \E k \in 1..Len(t) : t[k] = x
  BY DEF InOrder
<1>3. 0 \in Same
  BY <1>1
<1>4. ASSUME NEW k \in 1..Len(s), k - 1 \in Same PROVE k \in Same
  <2>1. k - 1 <= Len(t) /\ \A j \in 1..(k - 1) : s[j] = t[j]
    BY <1>4
  <2>2. PICK j \in 1..Len(t) : t[j] = s[k]
    BY <1>2
  <2>3. k <= j
    <3> SUFFICES ASSUME j <= k - 1 PROVE FALSE
      BY <1>1
    <3>1. j \in 1..(k - 1) /\ j \in 1..Len(s) /\ j < k
      BY <1>1
    <3>2. s[j] = s[k] /\ s[j] < s[k] /\ s[k] \in Int
      BY <1>2, <2>1, <2>2, <3>1
    <3> QED
      BY <3>2
  <2>4. k \in 1..Len(t)
    BY <1>1, <2>3
  <2>5. s[k] = t[k]
    <3> SUFFICES ASSUME k < j PROVE FALSE
      BY <1>1, <2>2, <2>3
    <3>1. t[k] < s[k] /\ t[k] \in Int /\ s[k] \in Int
      BY <1>2, <2>2, <2>4
    <3>2. PICK i \in 1..Len(s) : s[i] = t[k]
      BY <1>2, <2>4
    <3>3. CASE i < k
      <4>1. i \in 1..(k - 1) /\ i \in 1..Len(t)
        BY <1>1, <2>1, <3>3
      <4>2. t[i] = t[k] /\ t[i] < t[k]
        BY <1>2, <2>1, <2>4, <3>2, <3>3, <4>1
      <4> QED
        BY <3>1, <4>2
    <3>4. CASE k < i
      <4>1. s[k] < t[k]
        BY <1>2, <3>2, <3>4
      <4> QED
        BY <3>1, <4>1
    <3>5. CASE i = k
      BY <3>1, <3>2, <3>5
    <3> QED
      BY <1>1, <3>3, <3>4, <3>5
  <2>6. \A l \in 1..k : s[l] = t[l]
    BY <2>1, <2>5
  <2> QED
    BY <1>1, <2>4, <2>6
<1> HIDE DEF Same
<1>5. \A k \in 0..Len(s) : k \in Same
  BY <1>1, <1>3, <1>4, InductionUpTo, Zenon
<1> QED
  BY <1>1, <1>5 DEF Same

LEMMA OneOrder ==
  ASSUME NEW S, NEW s, NEW t, InOrder(s, S), InOrder(t, S)
  PROVE  s = t
<1>1. s \in Seq(Int) /\ t \in Seq(Int)
  BY DEF InOrder
<1>2. Len(s) <= Len(t) /\ \A j \in 1..Len(s) : s[j] = t[j]
  BY OrderBegins
<1>3. Len(t) <= Len(s)
  BY OrderBegins
<1> QED
  BY <1>1, <1>2, <1>3

\* One after another, where all of the second's come after the first's.
LEMMA OrderBoth ==
  ASSUME NEW S, NEW T, NEW s, NEW t, InOrder(s, S), InOrder(t, T), \A x \in S, y \in T : x < y
  PROVE  InOrder(s \o t, S \cup T)
<1>1. /\ s \in Seq(Int) /\ t \in Seq(Int)
      /\ \A j \in 1..Len(s) : s[j] \in Int /\ s[j] \in S
      /\ \A j \in 1..Len(t) : t[j] \in Int /\ t[j] \in T
      /\ \A j, k \in 1..Len(s) : j < k => s[j] < s[k]
      /\ \A j, k \in 1..Len(t) : j < k => t[j] < t[k]
      /\ \A x \in S : \E k \in 1..Len(s) : s[k] = x
      /\ \A x \in T : \E k \in 1..Len(t) : t[k] = x
  BY DEF InOrder
<1> DEFINE u == s \o t
<1>2. /\ u \in Seq(Int) /\ Len(s) \in Nat /\ Len(t) \in Nat /\ Len(u) = Len(s) + Len(t)
      /\ \A k \in 1..Len(s) : u[k] = s[k]
      /\ \A k \in (Len(s) + 1)..Len(u) : u[k] = t[k - Len(s)] /\ k - Len(s) \in 1..Len(t)
  BY <1>1, BothHold
<1> HIDE DEF u
<1>3. ASSUME NEW k \in 1..Len(u)
      PROVE  \/ k \in 1..Len(s) /\ u[k] = s[k]
             \/ k \in (Len(s) + 1)..Len(u) /\ k - Len(s) \in 1..Len(t) /\ u[k] = t[k - Len(s)]
  BY <1>2
<1>4. ASSUME NEW j \in 1..Len(u), NEW k \in 1..Len(u), j < k PROVE u[j] < u[k]
  <2>1. CASE j \in 1..Len(s) /\ k \in 1..Len(s)
    BY <1>1, <1>2, <1>4, <2>1
  <2>2. CASE j \in 1..Len(s) /\ k \in (Len(s) + 1)..Len(u)
    <3>1. u[j] \in S /\ u[k] \in T
      BY <1>1, <1>2, <2>2
    <3> QED
      BY <3>1
  <2>3. CASE j \in (Len(s) + 1)..Len(u) /\ k \in (Len(s) + 1)..Len(u)
    <3>1. /\ j - Len(s) \in 1..Len(t) /\ k - Len(s) \in 1..Len(t) /\ j - Len(s) < k - Len(s)
          /\ u[j] = t[j - Len(s)] /\ u[k] = t[k - Len(s)]
      BY <1>2, <1>4, <2>3
    <3> QED
      BY <1>1, <3>1
  <2>4. CASE j \in (Len(s) + 1)..Len(u) /\ k \in 1..Len(s)
    BY <1>2, <1>4, <2>4
  <2> QED
    BY <1>3, <2>1, <2>2, <2>3, <2>4
<1>5. \A k \in 1..Len(u) : u[k] \in S \cup T
  BY <1>1, <1>3
<1>6. ASSUME NEW x \in S \cup T PROVE \E k \in 1..Len(u) : u[k] = x
  <2>1. CASE x \in S
    <3>1. PICK k \in 1..Len(s) : s[k] = x
      BY <1>1, <2>1
    <3> QED
      BY <1>2, <3>1
  <2>2. CASE x \in T
    <3>1. PICK k \in 1..Len(t) : t[k] = x
      BY <1>1, <2>2
    <3> DEFINE l == k + Len(s)
    <3>2. l \in (Len(s) + 1)..Len(u) /\ l - Len(s) = k /\ l \in 1..Len(u)
      BY <1>2
    <3> HIDE DEF l
    <3>3. u[l] = x
      BY <1>2, <3>1, <3>2
    <3> QED
      BY <3>2, <3>3
  <2> QED
    BY <2>1, <2>2
<1>7. InOrder(u, S \cup T)
  BY <1>2, <1>4, <1>5, <1>6 DEF InOrder
<1> QED
  BY <1>7 DEF u

\* The bytes of a range, and of ranges that follow one another.
BytesFrom(from, to) == {b \in Int : from <= b /\ b < to}
LEMMA RangeInOrder ==
  ASSUME NEW from \in Int, NEW to \in Int, from <= to
  PROVE  InOrder([k \in 1..(to - from) |-> from + k - 1], BytesFrom(from, to))
<1> DEFINE s == [k \in 1..(to - from) |-> from + k - 1]
<1>1. /\ to - from \in Nat /\ s \in Seq(Int) /\ Len(s) = to - from
      /\ \A k \in 1..(to - from) : s[k] = from + k - 1
  OBVIOUS
<1>2. ASSUME NEW x \in BytesFrom(from, to) PROVE \E k \in 1..(to - from) : from + k - 1 = x
  <2>1. x - from + 1 \in 1..(to - from) /\ from + (x - from + 1) - 1 = x
    BY <1>2 DEF BytesFrom
  <2> QED
    BY <2>1
<1>3. \A k \in 1..(to - from) : from + k - 1 \in BytesFrom(from, to)
  BY DEF BytesFrom
<1> HIDE DEF s
<1>4. \A x \in BytesFrom(from, to) : \E k \in 1..Len(s) : s[k] = x
  BY <1>1, <1>2
<1>5. \A k \in 1..Len(s) : s[k] \in BytesFrom(from, to)
  BY <1>1, <1>3
<1>6. \A j, k \in 1..Len(s) : j < k => s[j] < s[k]
  BY <1>1
<1>7. InOrder(s, BytesFrom(from, to))
  BY <1>1, <1>4, <1>5, <1>6, Zenon DEF InOrder
<1> QED
  BY <1>7 DEF s

Ranges(rs) ==
  /\ \E n \in Nat : DOMAIN rs = 1..n
  /\ rs = [i \in DOMAIN rs |-> rs[i]]
  /\ \A i \in DOMAIN rs : rs[i][1] \in Int /\ rs[i][2] \in Int /\ rs[i][1] <= rs[i][2]
  /\ \A i, j \in DOMAIN rs : i < j => rs[i][2] <= rs[j][1]
LEMMA BytesInOrder ==
  ASSUME NEW rs, Ranges(rs)
  PROVE  InOrder(BytesOf(rs), UNION {BytesFrom(rs[i][1], rs[i][2]) : i \in DOMAIN rs})
<1>1. PICK n \in Nat : DOMAIN rs = 1..n
  BY DEF Ranges
<1>2. /\ \A i \in 1..n : rs[i][1] \in Int /\ rs[i][2] \in Int /\ rs[i][1] <= rs[i][2]
      /\ \A i, j \in 1..n : i < j => rs[i][2] <= rs[j][1]
  BY <1>1 DEF Ranges
<1> DEFINE Part(i) == [k \in 1..(rs[i][2] - rs[i][1]) |-> rs[i][1] + k - 1]
           ss      == [i \in DOMAIN rs |-> Part(i)]
           Has(i)  == BytesFrom(rs[i][1], rs[i][2])
           UpTo(m) == UNION {Has(i) : i \in 1..m}
<1>3. \A i \in 1..n : InOrder(Part(i), Has(i)) /\ Part(i) \in Seq(Int)
  <2>1. ASSUME NEW i \in 1..n PROVE InOrder(Part(i), Has(i))
    BY <1>2, RangeInOrder
  <2> QED
    BY <2>1 DEF InOrder
<1>4. BytesOf(rs) = FlattenSeq(ss)
  BY DEF BytesOf
<1> HIDE DEF Part
<1>5. DOMAIN ss = 1..n /\ (\A i \in 1..n : ss[i] = Part(i)) /\ ss \in Seq(Seq(Int)) /\ Len(ss) = n
  BY <1>1, <1>3
<1> HIDE DEF ss
<1>6. \A i, j \in 1..n : i < j => \A x \in Has(i), y \in Has(j) : x < y
  BY <1>2 DEF BytesFrom
<1> HIDE DEF Has
<1>7. CASE n = 0
  <2>1. FlattenSeq(ss) \in Seq(Int) /\ \A p \in DOMAIN FlattenSeq(ss) : InOneOf(FlattenSeq(ss)[p], ss)
    BY <1>5, FlattenHolds
  <2>2. \A x : ~InOneOf(x, ss)
    BY <1>5, <1>7 DEF InOneOf
  <2>3. DOMAIN FlattenSeq(ss) = {} /\ 1..Len(FlattenSeq(ss)) = {}
    BY <2>1, <2>2
  <2>4. UpTo(n) = {}
    BY <1>7
  <2>5. InOrder(FlattenSeq(ss), UpTo(n))
    BY <2>1, <2>3, <2>4 DEF InOrder
  <2> QED
    BY <1>1, <1>4, <2>5 DEF Has
<1>8. CASE n # 0
  <2>1. PICK f \in [1..n -> Seq(Int)] :
           /\ f[1] = ss[1] /\ \A k \in 2..n : f[k] = f[k - 1] \o ss[k]
           /\ FlattenSeq(ss) = f[n]
    BY <1>5, <1>8, FlattenSteps
  <2> DEFINE S == {k \in 0..n : k = 0 \/ InOrder(f[k], UpTo(k))}
  <2>2. 0 \in S
    OBVIOUS
  <2>3. ASSUME NEW k \in 1..n, k - 1 \in S PROVE k \in S
    <3>1. CASE k = 1
      <4>1. UpTo(k) = Has(1)
        BY <3>1
      <4>2. InOrder(f[1], Has(1))
        BY <1>3, <1>5, <1>8, <2>1
      <4> HIDE DEF UpTo
      <4> QED
        BY <3>1, <4>1, <4>2
    <3>2. CASE k # 1
      <4>1. k \in 2..n /\ k - 1 # 0 /\ k - 1 \in 1..n
        BY <3>2
      <4>2. InOrder(f[k - 1], UpTo(k - 1)) /\ InOrder(ss[k], Has(k))
        BY <1>3, <1>5, <2>3, <4>1
      <4>3. \A x \in UpTo(k - 1), y \in Has(k) : x < y
        <5>1. ASSUME NEW x \in UpTo(k - 1), NEW y \in Has(k) PROVE x < y
          <6>1. PICK i \in 1..(k - 1) : x \in Has(i)
            OBVIOUS
          <6>2. i \in 1..n /\ i < k
            OBVIOUS
          <6> QED
            BY <1>6, <6>1, <6>2
        <5> QED
          BY <5>1
      <4>4. UpTo(k) = UpTo(k - 1) \cup Has(k)
        <5>1. 1..k = 1..(k - 1) \cup {k}
          OBVIOUS
        <5> QED
          BY <5>1
      <4> HIDE DEF UpTo
      <4>5. InOrder(f[k - 1] \o ss[k], UpTo(k - 1) \cup Has(k))
        BY <4>2, <4>3, OrderBoth
      <4>6. f[k] = f[k - 1] \o ss[k]
        BY <2>1, <4>1
      <4>7. InOrder(f[k], UpTo(k))
        BY <4>4, <4>5, <4>6
      <4> QED
        BY <4>7
    <3> QED
      BY <3>1, <3>2
  <2> HIDE DEF S
  <2>4. \A k \in 0..n : k \in S
    BY <2>2, <2>3, InductionUpTo, Zenon
  <2>5. InOrder(f[n], UpTo(n))
    <3>1. n \in 0..n
      OBVIOUS
    <3> QED
      BY <1>8, <2>4, <3>1 DEF S
  <2> QED
    BY <1>1, <1>4, <2>1, <2>5 DEF Has
<1> QED
  BY <1>7, <1>8

\* The numbers of a finite set, as Nth gives them.
LEMMA NumbersInOrder ==
  ASSUME NEW S \in SUBSET Int, IsFiniteSet(S)
  PROVE  InOrder([k \in 1..Cardinality(S) |-> Nth(S, k)], S)
<1> DEFINE n == Cardinality(S)
           s == [k \in 1..n |-> Nth(S, k)]
<1>1. /\ n \in Nat /\ \A k \in 1..n : Nth(S, k) \in S
      /\ \A i \in S : \E k \in 1..n : Nth(S, k) = i
      /\ \A j, k \in 1..n : j < k => Nth(S, j) < Nth(S, k)
  BY NthOfNumbers
<1> HIDE DEF n
<1>2. s \in Seq(Int) /\ Len(s) = n /\ \A k \in 1..n : s[k] = Nth(S, k)
  <2>1. \A k \in 1..n : Nth(S, k) \in Int
    BY <1>1
  <2>2. s \in [1..n -> Int] /\ DOMAIN s = 1..n
    BY <2>1, Zenon
  <2> QED
    BY <1>1, <2>2
<1> HIDE DEF s
<1>3. InOrder(s, S)
  BY <1>1, <1>2 DEF InOrder
<1> QED
  BY <1>3 DEF s, n

-----------------------------------------------------------------------------
(* Which section a byte is in.                                             *)

\* A function's bytes are in its sections if the base has cut it, and a label's where it
\* is routed.
FunctionSection(i, b) ==
  IF ~CutInBase(csv[i].name) THEN Plain(".text")
  ELSE IF ModeOf(i, b) = "$d" THEN PoolOf(csv[i].name) ELSE CodeOf(csv[i].name)
HoldsIn(s, b, section) ==
  \E x \in DOMAIN s : s[x].addr <= b /\ b < End(s[x]) /\ s[x].section = section
InLabel(i) == rows[i].addr..(Least(End(rows[i]), Size) - 1)
SectionsKept(s) ==
  /\ \A i \in Extents : Code(csv[i]) => \A b \in InRow(i) : HoldsIn(s, b, FunctionSection(i, b))
  /\ \A i \in DOMAIN rows : IsLabelIn(rows[i]) => \A b \in InLabel(i) : HoldsIn(s, b, Routed(i))
SectionInv == pc \in {"write", "written"} /\ RowsApart /\ StartsAgree => SectionsKept(syms)

\* Where the CSV marks no pool in a function its bytes are code.
LEMMA UnmarkedIsCode ==
  ASSUME TargetCutAssumption, InputsOK, NEW i, Apart(i), NEW b \in Byte, csv[i].addr <= b, b < End(csv[i]),
         Code(csv[i]), ~Marked(csv[i].name)
  PROVE  ModeOf(i, b) # "$d"
<1>1. b \in Nat
  BY InputsTyped DEF Byte
<1>2. CASE \E r \in Inner(csv[i].name) : r[1] <= b /\ b < r[2]
  <2>1. PICK r \in Inner(csv[i].name) : r[1] <= b /\ b < r[2]
    BY <1>2
  <2>2. r[3] = ModeOf(i, b)
    BY <1>1, <2>1, RunIsMode
  <2> QED
    BY <2>2 DEF Marked
<1>3. CASE \A r \in Inner(csv[i].name) : ~(r[1] <= b /\ b < r[2])
  <2>1. ModeOf(i, b) = csv[i].mode
    BY <1>3, NoneBefore
  <2> QED
    BY <2>1 DEF Code
<1> QED
  BY <1>2, <1>3

\* A symbol that is cut is a function's.
LEMMA CutUpIs ==
  ASSUME NEW s, CutUp(s)
  PROVE  s.section = Plain(".text") /\ s.name # None
BY DEF CutUp, Spliced

\* Cutting leaves every byte of a function or label in its section.
LEMMA PartsKeepSections ==
  ASSUME TargetCutAssumption, BeforeCut, NEW s, NEW ms, Parts(s, ms)
  PROVE  SectionsKept(s)
<1>1. Placed /\ InputsOK /\ Size \in Nat /\ syms \in Seq(Symbol)
  BY InputsTyped DEF BeforeCut, Placed
<1>2. ASSUME NEW i \in Extents, Code(csv[i]), NEW b \in InRow(i)
      PROVE  HoldsIn(s, b, FunctionSection(i, b))
  <2>1. csv[i].addr \in Nat /\ End(csv[i]) \in Nat /\ csv[i].name \in Name /\ csv[i].name # None
        /\ i \in DOMAIN rows /\ rows[i] = csv[i]
    BY <1>1, InputsTyped, RowsTyped DEF Extents
  <2>2. b \in Byte /\ csv[i].addr <= b /\ b < End(csv[i]) /\ b < Least(End(csv[i]), Size)
    BY <1>1, <2>1 DEF InRow, Byte, Least
  <2>3. Apart(i)
    BY <1>1, ApartIs DEF BeforeCut
  <2>4. PICK p \in DOMAIN syms :
          /\ syms[p].addr = csv[i].addr /\ End(syms[p]) = Least(End(csv[i]), Size)
          /\ syms[p].mode = csv[i].mode /\ syms[p].name = csv[i].name /\ syms[p].section = Routed(i)
    BY RowHasSymbol DEF BeforeCut
  <2> DEFINE q == syms[p]
  <2>5. PICK x \in DOMAIN s : PartOf(s[x], q) /\ s[x].addr <= b /\ b < End(s[x])
    BY <2>2, <2>4, PartOfByte
  <2> DEFINE y == s[x]
  <2>6. y \in Symbol /\ PartOf(y, q) /\ y.addr <= b /\ b < End(y)
    BY <2>5, ElementOf DEF Parts
  <2>7. /\ q.addr = csv[i].addr /\ q.mode = csv[i].mode /\ q.name = csv[i].name
        /\ q.section = Plain(".text")
    <3>1. Routed(i) = Plain(".text")
      BY <1>1, <1>2, <2>1 DEF Routed, Code, IsLabelIn, DataSegments
    <3> QED
      BY <2>4, <3>1
  <2> HIDE DEF q, y
  <2>8. Spliced(q) <=> CutInBase(csv[i].name)
    BY <2>1, <2>7 DEF Spliced
  <2>9. y.section = FunctionSection(i, b)
    <3>1. CASE CutUp(q)
      <4>1. PieceIn(y, q)
        BY <2>6, <3>1 DEF PartOf
      <4>2. y.mode = ModeOf(i, b)
        BY <1>1, <2>2, <2>3, <2>6, <2>7, <4>1, PieceIsMode
      <4>3. y.section = IF y.mode = "$d" THEN PoolOf(q.name) ELSE CodeOf(q.name)
        BY <4>1 DEF PieceIn
      <4>4. CutInBase(csv[i].name)
        BY <2>8, <3>1 DEF CutUp
      <4> QED
        BY <2>7, <4>2, <4>3, <4>4 DEF FunctionSection
    <3>2. CASE ~CutUp(q) /\ Spliced(q)
      <4>1. y.section = CodeOf(csv[i].name)
        BY <2>6, <2>7, <3>2 DEF PartOf, WholeSection
      <4>2. ModeOf(i, b) # "$d"
        BY <1>1, <1>2, <2>2, <2>3, <2>7, <3>2, UnmarkedIsCode DEF CutUp
      <4> QED
        BY <2>8, <3>2, <4>1, <4>2 DEF FunctionSection
    <3>3. CASE ~Spliced(q)
      <4>1. ~CutUp(q)
        BY <3>3 DEF CutUp
      <4> QED
        BY <2>6, <2>7, <2>8, <3>3, <4>1 DEF PartOf, WholeSection, FunctionSection
    <3> QED
      BY <3>1, <3>2, <3>3
  <2> QED
    BY <2>6, <2>9 DEF HoldsIn, y
<1>3. ASSUME NEW i \in DOMAIN rows, IsLabelIn(rows[i]), NEW b \in InLabel(i)
      PROVE  HoldsIn(s, b, Routed(i))
  <2>1. rows[i].addr \in Nat /\ End(rows[i]) \in Nat
    BY <1>1, RowsTyped, RowTyped
  <2>2. b \in Nat /\ b < Size /\ rows[i].addr <= b /\ b < Least(End(rows[i]), Size) /\ rows[i].addr < Size
    BY <1>1, <2>1 DEF InLabel, Least
  <2>3. PICK p \in DOMAIN syms :
          /\ syms[p].addr = rows[i].addr /\ End(syms[p]) = Least(End(rows[i]), Size)
          /\ syms[p].section = Routed(i)
    BY <2>2, RowStandsAs DEF BeforeCut
  <2>4. PICK x \in 1..Len(s) : s[x].addr <= b /\ b < End(s[x])
    BY <1>1, <2>2, CoversAll DEF Parts
  <2>5. x \in DOMAIN s
    BY <2>4 DEF Parts
  <2>6. PartOf(s[x], syms[p])
    BY <2>2, <2>3, <2>4, <2>5, PartIsOfRow
  <2>7. Routed(i) # Plain(".text")
    BY <1>1, <1>3, RoutedIs DEF Plain, Skip, IsLabelIn, Code
  <2>8. ~CutUp(syms[p]) /\ ~Spliced(syms[p])
    BY <2>3, <2>7, CutUpIs DEF Spliced
  <2>9. s[x].section = Routed(i)
    BY <2>3, <2>6, <2>8 DEF PartOf, WholeSection
  <2> QED
    BY <2>4, <2>5, <2>9 DEF HoldsIn
<1> QED
  BY <1>2, <1>3 DEF SectionsKept

\* The sections bytes belong in stay as the inputs and rows do.
LEMMA SectionsStay ==
  ASSUME UNCHANGED inputs, UNCHANGED rows
  PROVE  \A s : SectionsKept(s)' <=> SectionsKept(s)
<1>1. csv' = csv /\ rows' = rows /\ marks' = marks
  BY DEF inputs
<1>2. Extents' = Extents /\ (\A k : EndOf(k)' = EndOf(k)) /\ \A n : CutInBase(n)' <=> CutInBase(n)
  BY InputsStay
<1>3. \A i : Routed(i)' = Routed(i)
  BY RowsStay
<1>4. \A i, b : Upto(i, b)' = Upto(i, b)
  BY <1>1, <1>2 DEF Upto
<1>5. \A i, b : ModeOf(i, b)' = ModeOf(i, b)
  BY <1>1, <1>4 DEF ModeOf
<1>6. \A i, b : FunctionSection(i, b)' = FunctionSection(i, b)
  BY <1>1, <1>2, <1>5 DEF FunctionSection
<1>7. \A i : InRow(i)' = InRow(i) /\ InLabel(i)' = InLabel(i)
  BY <1>1 DEF InRow, InLabel
<1> QED
  BY <1>1, <1>2, <1>3, <1>6, <1>7 DEF SectionsKept

LEMMA StepSections ==
  ASSUME TargetCutAssumption, CutInv, ModeInv, SectionInv, [Next]_vars
  PROVE  SectionInv'
<1>1. CASE PlaceMarkers \/ CompleteSymbol \/ CompleteGap \/ CompleteEnds \/ Settle
  <2>1. pc' \notin {"write", "written"}
    BY <1>1 DEF PlaceMarkers, CompleteSymbol, CompleteGap, CompleteEnds, Settle
  <2> QED
    BY <2>1 DEF SectionInv
<1>2. CASE CutPools
  <2>1. pc = "cut" /\ mapping' = {m \in mapping : ~Spent(m[1])} /\ UNCHANGED inputs /\ UNCHANGED rows
    BY <1>2 DEF CutPools
  <2>2. mapping = MarksOfRows /\ RowsStand /\ Placed /\ syms \in Seq(Symbol) /\ Covers(syms, 0, Size)
    BY <2>1 DEF ModeInv, CutInv, TypeOK
  <2>3. \A p \in DOMAIN syms : ~syms[p].pad => IsRowOf(syms[p])
    BY <2>1 DEF CutInv
  <2>4. ASSUME RowsApart, StartsAgree PROVE SectionsKept(syms')
    <3> DEFINE s  == syms'
               ms == mapping'
    <3>1. BeforeCut
      BY <2>2, <2>3, <2>4 DEF BeforeCut
    <3>2. Parts(s, ms)
      BY <1>2, <2>1, <2>2, <2>4, PartsAre DEF Parts
    <3> HIDE DEF s, ms
    <3>3. SectionsKept(s)
      BY <3>1, <3>2, PartsKeepSections
    <3> QED
      BY <3>3 DEF s
  <2>5. /\ (RowsApart' <=> RowsApart) /\ (StartsAgree' <=> StartsAgree)
        /\ \A s : SectionsKept(s)' <=> SectionsKept(s)
    BY <2>1, RowsStay, ModesStay, SectionsStay
  <2>6. RowsApart' /\ StartsAgree' => SectionsKept(syms)'
    BY <2>4, <2>5
  <2> QED
    BY <2>6 DEF SectionInv
<1>3. CASE Write \/ UNCHANGED vars
  <2>1. /\ syms' = syms /\ UNCHANGED inputs /\ UNCHANGED rows
        /\ pc' = pc \/ (pc = "write" /\ pc' = "written")
    BY <1>3 DEF Write, vars
  <2>2. /\ (RowsApart' <=> RowsApart) /\ (StartsAgree' <=> StartsAgree)
        /\ \A s : SectionsKept(s)' <=> SectionsKept(s)
    BY <2>1, RowsStay, ModesStay, SectionsStay
  <2>3. SectionsKept(syms)' <=> SectionsKept(syms)
    BY <2>1, <2>2
  <2> QED
    BY <2>1, <2>2, <2>3 DEF SectionInv
<1> QED
  BY <1>1, <1>2, <1>3 DEF Next

\* So every byte is in its section in every step.
LEMMA TargetSectionInv == Spec => [](CutInv /\ SectionInv)
<1>1. Init => SectionInv
  BY DEF Init, SectionInv
<1>2. CutInv /\ ModeInv /\ SectionInv /\ [Next]_vars => SectionInv'
  BY TargetCutAssumption, StepSections
<1> QED
  BY <1>1, <1>2, TargetModeInv, PTL DEF Spec

-----------------------------------------------------------------------------
(* Where the CSV says of the code what the base's symbols say.             *)

\* The functions are those of the CSV, one after another.
LEMMA MirroredFunctions ==
  ASSUME TargetCutAssumption, InputsOK, Mirrors
  PROVE  /\ base # None /\ base.length = Size
         /\ \A i \in DOMAIN csv :
              /\ Code(csv[i]) /\ ~csv[i].std /\ i \in Extents
              /\ csv[i].addr \in Nat /\ End(csv[i]) \in Nat
              /\ csv[i].addr < End(csv[i]) /\ End(csv[i]) <= Size
              /\ \E f \in base.functions :
                   f.name = csv[i].name /\ f.start = csv[i].addr /\ f.end = End(csv[i])
         /\ \A f \in base.functions : \E i \in DOMAIN csv :
              f.name = csv[i].name /\ f.start = csv[i].addr /\ f.end = End(csv[i])
<1>1. base # None /\ base.length = Size /\ \A i \in DOMAIN csv : Code(csv[i]) /\ ~csv[i].std
  BY DEF Mirrors
<1> DEFINE F(i) == [name |-> csv[i].name, start |-> csv[i].addr, end |-> End(csv[i])]
<1>2. {F(i) : i \in DOMAIN csv} = base.functions
  BY DEF Mirrors
<1>3. \A i : F(i).name = csv[i].name /\ F(i).start = csv[i].addr /\ F(i).end = End(csv[i])
  OBVIOUS
<1>4. \A f \in base.functions : f.start < f.end /\ f.end <= base.length
  BY <1>1 DEF InputsOK, Input
<1> HIDE DEF F
<1>5. ASSUME NEW i \in DOMAIN csv
      PROVE  /\ csv[i].addr < End(csv[i]) /\ End(csv[i]) <= Size
             /\ \E f \in base.functions :
                  f.name = csv[i].name /\ f.start = csv[i].addr /\ f.end = End(csv[i])
  <2>1. F(i) \in base.functions
    BY <1>2
  <2> QED
    BY <1>1, <1>3, <1>4, <2>1
<1>6. \A f \in base.functions : \E i \in DOMAIN csv :
        f.name = csv[i].name /\ f.start = csv[i].addr /\ f.end = End(csv[i])
  BY <1>2, <1>3
<1>7. \A i \in DOMAIN csv : /\ csv[i].addr \in Nat /\ End(csv[i]) \in Nat /\ csv[i].size \in Nat
                            /\ End(csv[i]) = csv[i].addr + csv[i].size
  BY InputsTyped
<1>8. ASSUME NEW i \in DOMAIN csv PROVE i \in Extents
  <2>1. csv[i].size > 0 /\ csv[i].addr < Size /\ csv[i].segment = ".text"
    BY <1>1, <1>5, <1>7, InputsTyped DEF Code
  <2> QED
    BY <2>1 DEF Extents
<1> QED
  BY <1>1, <1>5, <1>6, <1>7, <1>8

\* The base's marks are those of the CSV, and code marks at the functions' starts.
LEMMA MirroredMarks ==
  ASSUME TargetCutAssumption, InputsOK, Mirrors
  PROVE  /\ \A k \in DOMAIN marks :
              /\ EndOf(k) = Limit(k) /\ marks[k].segment = ".text"
              /\ \A i \in DOMAIN csv : csv[i].addr # marks[k].addr
              /\ marks[k].mode = "$d" => marks[k].addr \in DataMarks(base)
              /\ marks[k].mode # "$d" => marks[k].addr \in CodeMarks(base)
         /\ \A v \in DataMarks(base) : \E k \in DOMAIN marks : marks[k].addr = v /\ marks[k].mode = "$d"
         /\ \A v \in CodeMarks(base) : \/ \E i \in DOMAIN csv : csv[i].addr = v
                                       \/ \E k \in DOMAIN marks : marks[k].addr = v /\ marks[k].mode # "$d"
         /\ \A v \in CodeMarks(base) : \E i \in DOMAIN csv : csv[i].addr <= v /\ v < End(csv[i])
         /\ DataMarks(base) \in SUBSET Nat /\ CodeMarks(base) \in SUBSET Nat
<1>1. /\ \A i \in DOMAIN csv : /\ csv[i].addr \in Nat /\ Code(csv[i])
                               /\ \E f \in base.functions : f.start = csv[i].addr
      /\ \A f \in base.functions : \E i \in DOMAIN csv : f.start = csv[i].addr /\ f.end = End(csv[i])
  BY MirroredFunctions
<1> DEFINE M(k)    == [addr |-> marks[k].addr, mode |-> marks[k].mode]
           Away(m) == \A f \in base.functions : m.addr # f.start
<1>2. {M(k) : k \in DOMAIN marks} = {m \in base.marks : Away(m)}
  BY DEF Mirrors
<1>3. \A k : M(k).addr = marks[k].addr /\ M(k).mode = marks[k].mode
  OBVIOUS
<1> HIDE DEF M
<1>4. ASSUME NEW k \in DOMAIN marks
      PROVE  /\ EndOf(k) = Limit(k) /\ marks[k].segment = ".text"
             /\ \A i \in DOMAIN csv : csv[i].addr # marks[k].addr
             /\ marks[k].mode = "$d" => marks[k].addr \in DataMarks(base)
             /\ marks[k].mode # "$d" => marks[k].addr \in CodeMarks(base)
  <2>1. M(k) \in base.marks /\ Away(M(k))
    BY <1>2
  <2>2. EndOf(k) = Limit(k) /\ marks[k].segment = ".text"
    BY DEF Mirrors
  <2>3. \A i \in DOMAIN csv : csv[i].addr # marks[k].addr
    BY <1>1, <1>3, <2>1
  <2> QED
    BY <1>3, <2>1, <2>2, <2>3 DEF DataMarks, CodeMarks
<1>5. ASSUME NEW m \in base.marks
      PROVE  \/ \E i \in DOMAIN csv : csv[i].addr = m.addr /\ csv[i].mode = m.mode
             \/ \E k \in DOMAIN marks : marks[k].addr = m.addr /\ marks[k].mode = m.mode
  <2>1. CASE Away(m)
    <3>1. PICK k \in DOMAIN marks : m = M(k)
      BY <1>2, <2>1
    <3> QED
      BY <1>3, <3>1
  <2>2. CASE ~Away(m)
    <3>1. PICK i \in DOMAIN csv : csv[i].addr = m.addr
      BY <1>1, <2>2
    <3>2. csv[i].mode = m.mode
      BY <3>1 DEF Mirrors
    <3> QED
      BY <3>1, <3>2
  <2> QED
    BY <2>1, <2>2
<1>6. ASSUME NEW v \in DataMarks(base)
      PROVE  \E k \in DOMAIN marks : marks[k].addr = v /\ marks[k].mode = "$d"
  <2>1. PICK m \in base.marks : m.addr = v /\ m.mode = "$d"
    BY DEF DataMarks
  <2> QED
    BY <1>1, <1>5, <2>1 DEF Code
<1>7. ASSUME NEW v \in CodeMarks(base)
      PROVE  /\ \/ \E i \in DOMAIN csv : csv[i].addr = v
                \/ \E k \in DOMAIN marks : marks[k].addr = v /\ marks[k].mode # "$d"
             /\ \E i \in DOMAIN csv : csv[i].addr <= v /\ v < End(csv[i])
  <2>1. PICK m \in base.marks : m.addr = v /\ m.mode # "$d"
    BY DEF CodeMarks
  <2>2. PICK f \in base.functions : f.start <= m.addr /\ m.addr < f.end
    BY <2>1 DEF Mirrors
  <2> QED
    BY <1>1, <1>5, <2>1, <2>2
<1>8. \A k \in DOMAIN marks : marks[k].addr \in Nat
  BY InputsTyped
<1> QED
  BY <1>1, <1>4, <1>6, <1>7, <1>8

\* What a mapping row is good for goes on up to where something ends it.
LEMMA LimitReaches ==
  ASSUME TargetCutAssumption, InputsOK, NEW k \in DOMAIN marks, NEW b \in Nat, b < Size,
         marks[k].addr <= b, \A l \in DOMAIN marks : marks[l].addr <= marks[k].addr \/ b < marks[l].addr,
         Inside(k) => b < End(RowOf(k)),
         ~Inside(k) => \A i \in DOMAIN csv : csv[i].addr > marks[k].addr => b < csv[i].addr
  PROVE  b < Limit(k)
<1>1. /\ Size \in Nat /\ Len(marks) \in Nat /\ DOMAIN marks = 1..Len(marks)
      /\ \A l \in DOMAIN marks : marks[l].addr \in Nat
      /\ \A j, l \in DOMAIN marks : l < j => marks[l].addr < marks[j].addr
      /\ \A i \in DOMAIN csv : csv[i].addr \in Nat
  BY InputsTyped
<1> DEFINE next  == IF k < Len(marks) THEN marks[k + 1].addr ELSE Size
           later == {csv[i].addr : i \in {i \in DOMAIN csv : csv[i].addr > marks[k].addr}}
<1>2. next \in Nat /\ b < next
  <2>1. CASE k < Len(marks)
    <3>1. k + 1 \in DOMAIN marks /\ k < k + 1
      BY <1>1, <2>1
    <3> QED
      BY <1>1, <2>1, <3>1
  <2>2. CASE ~(k < Len(marks))
    BY <1>1, <2>2
  <2> QED
    BY <2>1, <2>2
<1>3. Limit(k) = IF Inside(k) THEN Least(next, End(RowOf(k))) ELSE Least(next, Min(later \cup {Size}))
  BY DEF Limit
<1>4. ~Inside(k) => b < Min(later \cup {Size}) /\ Min(later \cup {Size}) \in Nat
  <2>1. later \cup {Size} \in SUBSET Nat /\ later \cup {Size} # {}
    BY <1>1
  <2>2. ~Inside(k) => \A v \in later \cup {Size} : b < v
    BY <1>1
  <2> HIDE DEF later
  <2>3. Min(later \cup {Size}) \in later \cup {Size}
    BY <2>1, LeastIs
  <2> QED
    BY <2>1, <2>2, <2>3
<1> HIDE DEF next, later
<1> QED
  BY <1>2, <1>3, <1>4 DEF Least

\* A $d of the base up to b, from `from`, that no code comes after.
DataSince(from, b) ==
  \E d \in DataMarks(base) : /\ from <= d /\ d <= b
                             /\ \A c \in CodeMarks(base) : ~(d < c /\ c <= b)

\* A byte of a function is data in the CSV where it is in the base.
LEMMA MirroredMode ==
  ASSUME TargetCutAssumption, InputsOK, Mirrors, NEW i, Apart(i), NEW b \in Byte,
         csv[i].addr <= b, b < End(csv[i])
  PROVE  ModeOf(i, b) = "$d" <=> DataSince(csv[i].addr, b)
<1>1. i \in DOMAIN csv /\ Code(csv[i]) /\ csv[i].mode # "$d" /\ csv[i].addr \in Nat /\ End(csv[i]) \in Nat
  BY MirroredFunctions DEF Apart, Extents, Code
<1>2. /\ Size \in Nat /\ Len(marks) \in Nat /\ DOMAIN marks = 1..Len(marks)
      /\ \A k \in DOMAIN marks : marks[k].addr \in Nat
      /\ \A k, l \in DOMAIN marks : l < k => marks[l].addr < marks[k].addr
  BY InputsTyped
<1>3. b \in Nat /\ b < Size
  BY <1>2 DEF Byte
<1>4. /\ \A k \in DOMAIN marks :
           /\ EndOf(k) = Limit(k) /\ csv[i].addr # marks[k].addr
           /\ marks[k].mode = "$d" => marks[k].addr \in DataMarks(base)
           /\ marks[k].mode # "$d" => marks[k].addr \in CodeMarks(base)
      /\ \A v \in DataMarks(base) : \E k \in DOMAIN marks : marks[k].addr = v /\ marks[k].mode = "$d"
      /\ \A v \in CodeMarks(base) : \/ \E j \in DOMAIN csv : csv[j].addr = v
                                    \/ \E k \in DOMAIN marks : marks[k].addr = v /\ marks[k].mode # "$d"
      /\ DataMarks(base) \in SUBSET Nat /\ CodeMarks(base) \in SUBSET Nat
  BY <1>1, MirroredMarks
<1> DEFINE K == {k \in DOMAIN marks : csv[i].addr <= marks[k].addr /\ marks[k].addr <= b}
<1>5. K \in SUBSET (0..Len(marks)) /\ Upto(i, b) \subseteq K
  BY <1>2 DEF Upto
<1>6. CASE K = {}
  <2>1. ModeOf(i, b) # "$d"
    BY <1>1, <1>5, <1>6 DEF ModeOf
  <2>2. ASSUME DataSince(csv[i].addr, b) PROVE FALSE
    <3>1. PICK d \in DataMarks(base) : csv[i].addr <= d /\ d <= b
      BY <2>2 DEF DataSince
    <3>2. PICK k \in DOMAIN marks : marks[k].addr = d
      BY <1>4
    <3> QED
      BY <1>6, <3>1, <3>2
  <2> QED
    BY <2>1, <2>2
<1>7. CASE K # {}
  <2>1. PICK k \in K : \A l \in K : l <= k
    BY <1>2, <1>5, <1>7, GreatestIs
  <2>2. k \in DOMAIN marks /\ csv[i].addr < marks[k].addr /\ marks[k].addr <= b
    BY <1>1, <1>2, <1>4, <2>1
  <2>3. ASSUME NEW l \in DOMAIN marks PROVE marks[l].addr <= marks[k].addr \/ b < marks[l].addr
    <3>1. CASE l \in K
      <4>1. l <= k
        BY <2>1, <3>1
      <4> QED
        BY <1>2, <2>2, <4>1
    <3>2. CASE l \notin K
      BY <1>1, <1>2, <1>3, <2>2, <3>2
    <3> QED
      BY <3>1, <3>2
  <2> HIDE DEF K
  <2>4. Inside(k) /\ RowOf(k) = csv[i]
    <3>1. Among(i, k)
      BY <1>1, <1>2, <1>3, <2>2 DEF Among
    <3> QED
      BY <2>2, <3>1, AmongIs
  <2>5. b < EndOf(k) /\ EndOf(k) \in Nat
    BY <1>3, <1>4, <2>2, <2>3, <2>4, LimitReaches, EndOfIs
  <2>6. k \in Upto(i, b)
    BY <1>1, <1>2, <1>3, <2>2, <2>5 DEF Upto
  <2>7. Max(Upto(i, b)) = k
    <3>1. Upto(i, b) \in SUBSET (0..Len(marks)) /\ Upto(i, b) # {}
      BY <1>5, <2>6
    <3>2. Max(Upto(i, b)) \in Upto(i, b) /\ k <= Max(Upto(i, b))
      BY <1>2, <2>6, <3>1, GreatestIs
    <3>3. Max(Upto(i, b)) <= k /\ Max(Upto(i, b)) \in Int /\ k \in Int
      BY <1>2, <1>5, <2>1, <2>2, <3>1, <3>2
    <3> QED
      BY <3>2, <3>3
  <2>8. ModeOf(i, b) = marks[k].mode
    BY <2>6, <2>7 DEF ModeOf
  <2>9. ASSUME marks[k].mode = "$d" PROVE DataSince(csv[i].addr, b)
    <3>1. marks[k].addr \in DataMarks(base)
      BY <1>4, <2>2, <2>9
    <3>2. ASSUME NEW c \in CodeMarks(base), marks[k].addr < c, c <= b PROVE FALSE
      <4>1. c \in Nat
        BY <1>4
      <4>2. CASE \E j \in DOMAIN csv : csv[j].addr = c
        <5>1. PICK j \in DOMAIN csv : csv[j].addr = c
          BY <4>2
        <5>2. csv[i].addr < csv[j].addr /\ csv[j].addr < End(csv[i])
          BY <1>1, <1>2, <1>3, <2>2, <3>2, <4>1, <5>1
        <5> QED
          BY <1>1, <5>2 DEF Apart
      <4>3. CASE \E l \in DOMAIN marks : marks[l].addr = c
        BY <1>2, <1>3, <2>2, <2>3, <3>2, <4>1, <4>3
      <4> QED
        BY <1>4, <4>2, <4>3
    <3> QED
      BY <1>1, <1>2, <2>2, <3>1, <3>2 DEF DataSince
  <2>10. ASSUME marks[k].mode # "$d", DataSince(csv[i].addr, b) PROVE FALSE
    <3>1. PICK d \in DataMarks(base) : /\ csv[i].addr <= d /\ d <= b
                                       /\ \A c \in CodeMarks(base) : ~(d < c /\ c <= b)
      BY <2>10 DEF DataSince
    <3>2. PICK l \in DOMAIN marks : marks[l].addr = d /\ marks[l].mode = "$d"
      BY <1>4
    <3>3. l # k /\ marks[l].addr <= marks[k].addr
      BY <1>2, <1>3, <2>3, <2>10, <3>1, <3>2
    <3>4. marks[l].addr # marks[k].addr
      BY <1>2, <2>2, <3>3
    <3>5. marks[k].addr \in CodeMarks(base) /\ d < marks[k].addr
      BY <1>2, <1>4, <2>2, <2>10, <3>2, <3>3, <3>4
    <3> QED
      BY <2>2, <3>1, <3>5
  <2> QED
    BY <2>8, <2>9, <2>10
<1> QED
  BY <1>6, <1>7

-----------------------------------------------------------------------------
(* The pools datasplit takes out of the base.                              *)

\* What they are about: a function and marks at addresses, and code where it begins.
InBase(f) ==
  /\ f \in base.functions /\ f.start \in Nat /\ f.end \in Nat /\ f.start < f.end
  /\ DataMarks(base) \in SUBSET Nat /\ CodeMarks(base) \in SUBSET Nat
  /\ f.start \notin DataMarks(base)

\* A pool goes on to the first code after it, or to the function's end.
LEMMA PoolEndIs ==
  ASSUME NEW f, InBase(f), NEW d \in Nat, d < f.end
  PROVE  /\ PoolEnd(base, f, d) \in Nat /\ d < PoolEnd(base, f, d) /\ PoolEnd(base, f, d) <= f.end
         /\ PoolEnd(base, f, d) = f.end \/ PoolEnd(base, f, d) \in CodeMarks(base)
         /\ \A c \in CodeMarks(base) : d < c => PoolEnd(base, f, d) <= c
<1> DEFINE S == {v \in CodeMarks(base) : v > d} \cup {f.end}
<1>1. S \in SUBSET Nat /\ S # {}
  BY DEF InBase
<1>2. Min(S) \in S /\ \A t \in S : Min(S) <= t
  BY <1>1, LeastIs
<1>3. \A v \in S : d < v /\ (v = f.end \/ v \in CodeMarks(base))
  BY DEF InBase
<1>4. f.end \in S /\ \A c \in CodeMarks(base) : d < c => c \in S
  BY DEF InBase
<1>5. PoolEnd(base, f, d) = Min(S)
  BY DEF PoolEnd
<1> HIDE DEF S
<1> QED
  BY <1>1, <1>2, <1>3, <1>4, <1>5

\* An inner pool begins at a $d inside and goes on to where it ends; none is in another.
LEMMA InnerPoolIs ==
  ASSUME NEW f, InBase(f), NEW r \in InnerPools(base, f)
  PROVE  /\ r = <<r[1], r[2]>> /\ r[1] \in Nat /\ r[2] \in Nat
         /\ f.start < r[1] /\ r[1] < r[2] /\ r[2] <= f.end
         /\ r[1] \in DataMarks(base) /\ r[2] = PoolEnd(base, f, r[1])
         /\ \A q \in InnerPools(base, f) : r[1] < q[1] => r[2] <= q[1]
<1> DEFINE inside   == {d \in DataMarks(base) : f.start < d /\ d < f.end}
           first(d) == \A e \in inside : e < d => PoolEnd(base, f, e) <= d
<1>1. InnerPools(base, f) = {<<d, PoolEnd(base, f, d)>> : d \in {d \in inside : first(d)}}
  BY DEF InnerPools
<1>2. ASSUME NEW q \in InnerPools(base, f)
      PROVE  q = <<q[1], q[2]>> /\ q[1] \in inside /\ first(q[1]) /\ q[2] = PoolEnd(base, f, q[1])
  <2> HIDE DEF inside
  <2>1. PICK d \in inside : q = <<d, PoolEnd(base, f, d)>> /\ first(d)
    BY <1>1
  <2> HIDE DEF first
  <2>2. q[1] = d /\ q[2] = PoolEnd(base, f, d)
    BY <2>1
  <2> QED
    BY <2>1, <2>2
<1>3. r[1] \in DataMarks(base) /\ r[1] \in Nat /\ f.start < r[1] /\ r[1] < f.end
  BY <1>2 DEF InBase
<1>4. r[2] \in Nat /\ r[1] < r[2] /\ r[2] <= f.end
  BY <1>2, <1>3, PoolEndIs
<1>5. \A q \in InnerPools(base, f) : r[1] < q[1] => r[2] <= q[1]
  BY <1>2
<1> QED
  BY <1>2, <1>3, <1>4, <1>5

\* They are what there is of data in the function.
LEMMA InnerPoolsHold ==
  ASSUME NEW f, InBase(f), NEW b \in Nat, f.start <= b, b < f.end
  PROVE  (\E r \in InnerPools(base, f) : r[1] <= b /\ b < r[2]) <=> DataSince(f.start, b)
<1> DEFINE inside   == {d \in DataMarks(base) : f.start < d /\ d < f.end}
           first(d) == \A e \in inside : e < d => PoolEnd(base, f, e) <= d
           last(d)  == \A c \in CodeMarks(base) : ~(d < c /\ c <= b)
<1>1. InnerPools(base, f) = {<<d, PoolEnd(base, f, d)>> : d \in {d \in inside : first(d)}}
  BY DEF InnerPools
<1>2. ASSUME NEW r \in InnerPools(base, f), r[1] <= b, b < r[2] PROVE DataSince(f.start, b)
  <2>1. r[1] \in Nat /\ r[2] = PoolEnd(base, f, r[1]) /\ f.start < r[1] /\ r[1] \in DataMarks(base)
    BY InnerPoolIs
  <2>2. r[1] < f.end /\ f.start \in Nat /\ CodeMarks(base) \in SUBSET Nat
    BY <1>2, <2>1 DEF InBase
  <2>3. \A c \in CodeMarks(base) : r[1] < c => r[2] <= c
    BY <2>1, <2>2, PoolEndIs
  <2>4. r[2] \in Nat
    BY <2>1, <2>2, PoolEndIs
  <2>5. last(r[1])
    BY <1>2, <2>2, <2>3, <2>4
  <2> HIDE DEF last
  <2>6. f.start <= r[1]
    BY <2>1, <2>2
  <2> QED
    BY <1>2, <2>1, <2>5, <2>6 DEF DataSince, last
<1>3. ASSUME DataSince(f.start, b) PROVE \E r \in InnerPools(base, f) : r[1] <= b /\ b < r[2]
  <2> DEFINE D == {d \in DataMarks(base) : f.start <= d /\ d <= b /\ last(d)}
  <2>1. D \in SUBSET Nat /\ D # {}
    BY <1>3 DEF DataSince, InBase
  <2> DEFINE d == Min(D)
  <2>2. d \in D /\ \A e \in D : d <= e
    BY <2>1, LeastIs
  <2> HIDE DEF d
  <2>3. d \in Nat /\ d \in DataMarks(base) /\ f.start < d /\ d <= b /\ last(d) /\ d < f.end
    BY <2>1, <2>2 DEF InBase
  <2>4. d \in inside
    BY <2>3
  <2>5. ASSUME NEW e \in inside, e < d PROVE PoolEnd(base, f, e) <= d
    <3>1. e \in Nat /\ e < f.end /\ e \in DataMarks(base) /\ f.start <= e /\ e <= b
      BY <2>3, <2>5 DEF InBase
    <3>2. e \notin D
      BY <2>2, <2>3, <2>5, <3>1
    <3>3. PICK c \in CodeMarks(base) : e < c /\ c <= b
      BY <3>1, <3>2
    <3>4. c \in Nat /\ c <= d
      BY <2>3, <3>3 DEF InBase
    <3>5. PoolEnd(base, f, e) <= c /\ PoolEnd(base, f, e) \in Nat
      BY <3>1, <3>3, PoolEndIs
    <3> QED
      BY <2>3, <3>4, <3>5
  <2>6. first(d)
    BY <2>5
  <2>7. b < PoolEnd(base, f, d)
    <3>1. /\ PoolEnd(base, f, d) \in Nat /\ d < PoolEnd(base, f, d)
          /\ PoolEnd(base, f, d) = f.end \/ PoolEnd(base, f, d) \in CodeMarks(base)
      BY <2>3, PoolEndIs
    <3> QED
      BY <2>3, <3>1
  <2>8. <<d, PoolEnd(base, f, d)>> \in InnerPools(base, f)
    <3> HIDE DEF inside, first
    <3> QED
      BY <1>1, <2>4, <2>6
  <2> DEFINE q == <<d, PoolEnd(base, f, d)>>
  <2>9. q[1] = d /\ q[2] = PoolEnd(base, f, d) /\ q \in InnerPools(base, f)
    BY <2>8
  <2> HIDE DEF q, D
  <2> QED
    BY <2>3, <2>7, <2>9
<1> QED
  BY <1>2, <1>3

-----------------------------------------------------------------------------
(* The rows of such a CSV, and the section of each byte.                   *)

\* It has no row but functions and the labels of the mapping rows outside them.
LabelOf(i, k) ==
  /\ ~Inside(k) /\ i \in DOMAIN rows /\ IsLabelIn(rows[i])
  /\ rows[i].addr = marks[k].addr /\ End(rows[i]) = Limit(k)
LEMMA MirroredRows ==
  ASSUME TargetCutAssumption, Placed, Mirrors, RowsApart
  PROVE  /\ \A i \in DOMAIN csv : i \in DOMAIN rows /\ rows[i] = csv[i] /\ Apart(i) /\ Code(rows[i])
         /\ \A i \in DOMAIN rows : \/ i \in DOMAIN csv /\ rows[i] = csv[i] /\ ~IsLabelIn(rows[i])
                                   \/ \E k \in DOMAIN marks : LabelOf(i, k)
         /\ \A k \in DOMAIN marks :
              ~Inside(k) => marks[k].mode = "$d" /\ \E i \in DOMAIN rows : LabelOf(i, k)
<1>1. InputsOK /\ rows = csv \o Labels
  BY DEF Placed
<1>2. \A i \in DOMAIN csv : Code(csv[i]) /\ i \in Extents
  BY <1>1, MirroredFunctions
<1>3. ASSUME NEW i \in DOMAIN csv PROVE i \in DOMAIN rows /\ rows[i] = csv[i] /\ Apart(i) /\ Code(rows[i])
  BY <1>2, ApartIs, RowsTyped
<1>4. ASSUME NEW i \in DOMAIN rows, NEW k \in DOMAIN marks, ~Inside(k), rows[i].addr = marks[k].addr,
             rows[i].size = EndOf(k) - marks[k].addr, rows[i].mode = "$d", rows[i].segment = marks[k].segment
      PROVE  LabelOf(i, k)
  <2>1. marks[k].segment = ".text" /\ EndOf(k) = Limit(k)
    BY <1>1, MirroredMarks
  <2>2. marks[k].addr \in Nat /\ Limit(k) \in Nat
    BY <1>1, InputsTyped, LimitIs
  <2>3. End(rows[i]) = Limit(k)
    BY <1>4, <2>1, <2>2 DEF End
  <2> QED
    BY <1>4, <2>1, <2>3 DEF LabelOf, IsLabelIn
<1>5. ASSUME NEW i \in DOMAIN rows
      PROVE  \/ i \in DOMAIN csv /\ rows[i] = csv[i] /\ ~IsLabelIn(rows[i])
             \/ \E k \in DOMAIN marks : LabelOf(i, k)
  <2>1. CASE IsOfCsv(i)
    BY <1>2, <2>1 DEF IsOfCsv, Code, IsLabelIn
  <2>2. CASE IsLabel(i)
    BY <1>4, <2>2 DEF IsLabel
  <2> QED
    BY <2>1, <2>2, RowIs
<1>6. ASSUME NEW k \in DOMAIN marks, ~Inside(k)
      PROVE  marks[k].mode = "$d" /\ \E i \in DOMAIN rows : LabelOf(i, k)
  <2>1. marks[k].mode = "$d"
    <3>1. SUFFICES ASSUME marks[k].mode # "$d" PROVE FALSE
      OBVIOUS
    <3>2. PICK j \in DOMAIN csv : csv[j].addr <= marks[k].addr /\ marks[k].addr < End(csv[j])
      BY <1>1, <3>1, MirroredMarks
    <3>3. Apart(j) /\ Among(j, k)
      BY <1>3, <3>2 DEF Among
    <3> QED
      BY <1>1, <1>6, <3>3, AmongIs
  <2>2. PICK j \in DOMAIN Labels :
               /\ Labels[j].addr = marks[k].addr /\ Labels[j].size = EndOf(k) - marks[k].addr
               /\ Labels[j].mode = "$d" /\ Labels[j].segment = marks[k].segment
    BY <1>1, <1>6, <2>1, LabelIs
  <2>3. Len(csv) + j \in DOMAIN rows /\ rows[Len(csv) + j] = Labels[j]
    <3>1. csv \in Seq(Row) /\ Labels \in Seq(Row)
      BY <1>1, InputsTyped, LabelIs
    <3>2. Len(csv) \in Nat /\ Len(Labels) \in Nat /\ j \in 1..Len(Labels)
      BY <3>1
    <3>3. /\ Len(csv \o Labels) = Len(csv) + Len(Labels)
          /\ \A l \in (Len(csv) + 1)..Len(csv \o Labels) : (csv \o Labels)[l] = Labels[l - Len(csv)]
      BY <3>1, BothHold
    <3>4. DOMAIN rows = 1..Len(csv \o Labels)
      BY <1>1, RowsTyped
    <3> HIDE DEF Labels
    <3>5. Len(csv) + j \in (Len(csv) + 1)..Len(csv \o Labels) /\ Len(csv) + j \in DOMAIN rows
      BY <3>2, <3>3, <3>4
    <3>6. (Len(csv) + j) - Len(csv) = j
      BY <3>2
    <3> QED
      BY <1>1, <3>3, <3>5, <3>6
  <2>4. LabelOf(Len(csv) + j, k)
    BY <1>4, <1>6, <2>2, <2>3
  <2> QED
    BY <2>1, <2>3, <2>4
<1> QED
  BY <1>3, <1>5, <1>6

\* The target is written, and its CSV is such a one.
Compared == CutInv /\ SectionInv /\ pc = "written" /\ Mirrors /\ RowsApart
LEMMA ComparedIs ==
  ASSUME TargetCutAssumption, Compared
  PROVE  /\ InputsOK /\ Placed /\ Written /\ Mirrors /\ RowsApart /\ ExtentsApart /\ LabelsApart
         /\ SectionsKept(syms)
         /\ Size \in Nat /\ \A b \in Byte : b \in Nat /\ b < Size
         /\ \A i \in DOMAIN rows : rows[i].addr \in Nat /\ End(rows[i]) \in Nat /\ End(rows[i]) <= Size
<1>1. CutInv /\ SectionInv /\ pc = "written" /\ Mirrors /\ RowsApart /\ InputsOK /\ Placed /\ TypeOK
  BY DEF Compared, CutInv
<1>2. Size \in Nat /\ \A b \in Byte : b \in Nat /\ b < Size
  BY <1>1, InputsTyped DEF Byte
<1>3. \A k \in DOMAIN marks, i \in DOMAIN csv : csv[i].addr # marks[k].addr
  BY <1>1, MirroredMarks
<1>4. SectionsKept(syms)
  BY <1>1, <1>3 DEF SectionInv, StartsAgree
<1>5. ExtentsApart
  <2>1. \A j \in Extents : Apart(j) /\ j \in DOMAIN csv
    BY <1>1, ApartIs DEF Extents
  <2>2. \A j \in DOMAIN csv : csv[j].addr \in Nat
    BY <1>1, InputsTyped
  <2> QED
    BY <2>1, <2>2 DEF Apart, ExtentsApart
<1>6. Written
  BY <1>1, <1>5 DEF CutInv, TypeOK, Written
<1>7. ASSUME NEW i \in DOMAIN rows
      PROVE  /\ rows[i].addr \in Nat /\ rows[i].size \in Nat /\ End(rows[i]) \in Nat
             /\ End(rows[i]) <= Size /\ rows[i].size > 0
  <2>1. rows[i].addr \in Nat /\ rows[i].size \in Nat /\ End(rows[i]) = rows[i].addr + rows[i].size
    BY <1>1, RowsTyped DEF End
  <2>2. CASE i \in DOMAIN csv /\ rows[i] = csv[i]
    BY <1>1, <2>1, <2>2, MirroredFunctions
  <2>3. CASE \E k \in DOMAIN marks : LabelOf(i, k)
    <3>1. PICK k \in DOMAIN marks : LabelOf(i, k)
      BY <2>3
    <3>2. rows[i].addr < End(rows[i]) /\ End(rows[i]) <= Size
      BY <1>1, <3>1, LimitIs DEF LabelOf
    <3> QED
      BY <2>1, <3>2
  <2> QED
    BY <1>1, <2>2, <2>3, MirroredRows
<1> QED
  BY <1>1, <1>2, <1>4, <1>5, <1>6, <1>7 DEF LabelsApart

\* A byte of a function is where its section is,
LEMMA FunctionPlace ==
  ASSUME TargetCutAssumption, Compared, NEW i \in DOMAIN csv, NEW b \in Byte,
         csv[i].addr <= b, b < End(csv[i])
  PROVE  PlaceOf(b)[1] = FunctionSection(i, b)
<1>1. InputsOK /\ Written /\ Mirrors /\ SectionsKept(syms) /\ Size \in Nat /\ b \in Nat /\ b < Size
  BY ComparedIs
<1>2. i \in Extents /\ Code(csv[i]) /\ csv[i].addr \in Nat /\ End(csv[i]) \in Nat
  BY <1>1, MirroredFunctions
<1>3. b \in InRow(i)
  BY <1>1, <1>2 DEF InRow, Least
<1>4. HoldsIn(syms, b, FunctionSection(i, b))
  BY <1>1, <1>2, <1>3 DEF SectionsKept
<1> QED
  BY <1>1, <1>4, SectionIs DEF HoldsIn

\* one of a label where the label is routed,
LEMMA LabelPlace ==
  ASSUME TargetCutAssumption, Compared, NEW i \in DOMAIN rows, IsLabelIn(rows[i]), NEW b \in Byte,
         rows[i].addr <= b, b < End(rows[i])
  PROVE  PlaceOf(b)[1] = Routed(i)
<1>1. Written /\ SectionsKept(syms) /\ Size \in Nat /\ b \in Nat /\ b < Size
  BY ComparedIs
<1>2. rows[i].addr \in Nat /\ End(rows[i]) \in Nat
  BY ComparedIs
<1>3. b \in InLabel(i)
  BY <1>1, <1>2 DEF InLabel, Least
<1>4. HoldsIn(syms, b, Routed(i))
  BY <1>1, <1>3 DEF SectionsKept
<1> QED
  BY <1>1, <1>4, SectionIs DEF HoldsIn

\* and any other in the code: a label goes on up to the next row.
LEMMA LabelReaches ==
  ASSUME TargetCutAssumption, Compared, NEW b \in Byte, NEW i \in DOMAIN rows, IsLabelIn(rows[i]),
         rows[i].addr <= b, \A j \in DOMAIN rows : rows[j].addr <= b => rows[j].addr <= rows[i].addr
  PROVE  b < End(rows[i])
<1>1. InputsOK /\ Placed /\ Mirrors /\ RowsApart /\ Size \in Nat /\ b \in Nat /\ b < Size
  BY ComparedIs
<1>2. PICK k \in DOMAIN marks : LabelOf(i, k)
  <2>1. ~(i \in DOMAIN csv /\ rows[i] = csv[i] /\ ~IsLabelIn(rows[i]))
    OBVIOUS
  <2> QED
    BY <1>1, <2>1, MirroredRows
<1>3. ~Inside(k) /\ rows[i].addr = marks[k].addr /\ End(rows[i]) = Limit(k)
  BY <1>2 DEF LabelOf
<1>4. /\ \A l \in DOMAIN marks : marks[l].addr \in Nat
      /\ \A j \in DOMAIN csv : csv[j].addr \in Nat /\ End(csv[j]) \in Nat
  BY <1>1, InputsTyped
<1>5. \A j \in DOMAIN csv : csv[j].addr <= b => csv[j].addr <= marks[k].addr
  BY <1>1, <1>3, MirroredRows
<1>6. ASSUME NEW l \in DOMAIN marks, marks[k].addr < marks[l].addr, marks[l].addr <= b PROVE FALSE
  <2>1. CASE Inside(l)
    <3>1. PICK j \in Extents : csv[j].addr <= marks[l].addr /\ marks[l].addr < End(csv[j])
      BY <1>1, <2>1, InsideIs
    <3>2. j \in DOMAIN csv /\ Apart(j)
      BY <1>1, <3>1, ApartIs DEF Extents
    <3>3. csv[j].addr <= marks[k].addr /\ marks[k].addr < End(csv[j])
      BY <1>1, <1>4, <1>5, <1>6, <3>1, <3>2
    <3> QED
      BY <1>1, <1>3, <3>2, <3>3, AmongIs DEF Among
  <2>2. CASE ~Inside(l)
    <3>1. PICK j \in DOMAIN rows : LabelOf(j, l)
      BY <1>1, <2>2, MirroredRows
    <3>2. rows[j].addr = marks[l].addr
      BY <3>1 DEF LabelOf
    <3>3. marks[l].addr <= marks[k].addr
      BY <1>3, <1>6, <3>2
    <3> QED
      BY <1>4, <1>6, <3>3
  <2> QED
    BY <2>1, <2>2
<1>7. \A l \in DOMAIN marks : marks[l].addr <= marks[k].addr \/ b < marks[l].addr
  BY <1>1, <1>4, <1>6
<1>8. \A j \in DOMAIN csv : csv[j].addr > marks[k].addr => b < csv[j].addr
  BY <1>1, <1>4, <1>5
<1> QED
  BY <1>1, <1>3, <1>7, <1>8, LimitReaches

\* There is a last row that begins by a byte, if any does.
LEMMA LastRowIs ==
  ASSUME TargetCutAssumption, Compared, NEW b \in Byte, RowsBefore(b) # {}
  PROVE  \E i \in DOMAIN rows :
           /\ rows[i].addr <= b /\ rows[LastBefore(b)] = rows[i]
           /\ \A j \in DOMAIN rows : rows[j].addr <= b => rows[j].addr <= rows[i].addr
<1>1. RowsBefore(b) \in SUBSET (DOMAIN rows) /\ rows[LastBefore(b)] = LastOf(RowsBefore(b)) /\ Placed
  BY ComparedIs DEF RowsBefore, LastBefore, LastOf
<1>2. PICK i \in RowsBefore(b) : /\ LastOf(RowsBefore(b)) = rows[i]
                                 /\ \A j \in RowsBefore(b) \ {i} : Precedes(j, i)
  BY <1>1, LastOfIs
<1>3. i \in DOMAIN rows /\ rows[i].addr <= b /\ rows[LastBefore(b)] = rows[i]
  BY <1>1, <1>2 DEF RowsBefore
<1>4. ASSUME NEW j \in DOMAIN rows, rows[j].addr <= b PROVE rows[j].addr <= rows[i].addr
  <2>1. rows[j].addr \in Nat /\ rows[i].addr \in Nat /\ j \in RowsBefore(b)
    BY <1>3, <1>4, ComparedIs DEF RowsBefore
  <2>2. CASE j = i
    BY <2>1, <2>2
  <2>3. CASE j # i
    <3>1. Precedes(j, i)
      BY <1>2, <2>1, <2>3
    <3> QED
      BY <2>1, <3>1 DEF Precedes
  <2> QED
    BY <2>2, <2>3
<1> QED
  BY <1>3, <1>4

LEMMA OtherPlace ==
  ASSUME TargetCutAssumption, Compared, NEW b \in Byte, ~NamedAt(b)
  PROVE  PlaceOf(b)[1] = Plain(".text")
<1>1. CutInv /\ pc = "written" /\ ExtentsApart /\ LabelsApart /\ Placed /\ Mirrors /\ RowsApart
  BY ComparedIs DEF Compared
<1>2. PlaceOf(b)[1] = GapSection(b)
  <2>1. PICK x \in DOMAIN syms : /\ b \in syms[x].addr..(End(syms[x]) - 1) /\ PlaceOf(b)[1] = syms[x].section
                                 /\ InItsPlace(syms[x])
    BY <1>1, WrittenIn
  <2> QED
    BY <1>1, <2>1 DEF InItsPlace
<1>3. CASE RowsBefore(b) = {}
  BY <1>2, <1>3 DEF GapSection
<1>4. CASE RowsBefore(b) # {}
  <2>1. PICK i \in DOMAIN rows :
               /\ rows[i].addr <= b /\ rows[LastBefore(b)] = rows[i]
               /\ \A j \in DOMAIN rows : rows[j].addr <= b => rows[j].addr <= rows[i].addr
    BY <1>4, LastRowIs
  <2>2. ~IsLabelIn(rows[i])
    <3>1. SUFFICES ASSUME IsLabelIn(rows[i]) PROVE FALSE
      OBVIOUS
    <3>2. b < End(rows[i])
      BY <2>1, <3>1, LabelReaches
    <3> QED
      BY <2>1, <3>2 DEF NamedAt
  <2>3. Code(rows[i])
    BY <1>1, <2>1, <2>2, MirroredRows DEF LabelOf
  <2> QED
    BY <1>2, <2>1, <2>3 DEF GapSection
<1> QED
  BY <1>3, <1>4

-----------------------------------------------------------------------------
(* The bytes of the base's sections, and of the target's.                  *)

\* A function of the base is one of the CSV.
IsFunction(f, i) ==
  /\ InBase(f) /\ i \in DOMAIN csv /\ Apart(i)
  /\ f.name = csv[i].name /\ f.start = csv[i].addr /\ f.end = End(csv[i])
LEMMA BaseFunctionIs ==
  ASSUME TargetCutAssumption, Compared, NEW f \in base.functions
  PROVE  \E i : IsFunction(f, i)
<1>1. InputsOK /\ Placed /\ Mirrors /\ RowsApart
  BY ComparedIs
<1>2. PICK i \in DOMAIN csv : f.name = csv[i].name /\ f.start = csv[i].addr /\ f.end = End(csv[i])
  BY <1>1, MirroredFunctions
<1>3. Apart(i) /\ csv[i].addr \in Nat /\ End(csv[i]) \in Nat /\ csv[i].addr < End(csv[i])
  BY <1>1, MirroredRows, MirroredFunctions
<1>4. DataMarks(base) \in SUBSET Nat /\ CodeMarks(base) \in SUBSET Nat
  BY <1>1, MirroredMarks
<1>5. f.start \notin DataMarks(base)
  BY <1>1, <1>2, MirroredMarks
<1> QED
  BY <1>2, <1>3, <1>4, <1>5 DEF IsFunction, InBase

\* Past a function, a $d and nothing that starts up to b.
PooledAfter(f, b) ==
  /\ f.end <= b
  /\ \A v \in Bounds(base) : ~(f.end <= v /\ v <= b)
  /\ \E d \in DataMarks(base) : f.end <= d /\ d <= b

\* The pool after a function is one stretch past its end, or none.
LEMMA TrailingPoolIs ==
  ASSUME NEW f, InBase(f), Bounds(base) \in SUBSET Nat, base.length \in Bounds(base),
         NEW r \in TrailingPool(base, f)
  PROVE  /\ r = <<r[1], r[2]>> /\ r[1] \in DataMarks(base) /\ r[1] \in Nat /\ f.end <= r[1]
         /\ r[2] = Min({v \in Bounds(base) : v > r[1]})
         /\ \A v \in Bounds(base) : ~(f.end <= v /\ v <= r[1])
         /\ \A q \in TrailingPool(base, f) : q = r
<1> DEFINE limit == Min({v \in Bounds(base) : v >= f.end})
           after == {d \in DataMarks(base) : f.end <= d /\ d < limit}
           Pool(d) == <<d, Min({v \in Bounds(base) : v > d})>>
<1>1. TrailingPool(base, f) = {Pool(d) : d \in {e \in after : e = Min(after)}}
  BY DEF TrailingPool
<1>2. Min(after) \in after /\ \A q \in TrailingPool(base, f) : q = Pool(Min(after))
  BY <1>1
<1>3. Pool(Min(after))[1] = Min(after) /\ Pool(Min(after))[2] = Min({v \in Bounds(base) : v > Min(after)})
  OBVIOUS
<1>4. Min(after) \in DataMarks(base) /\ Min(after) \in Nat /\ f.end <= Min(after) /\ Min(after) < limit
  BY <1>2 DEF InBase
<1>5. \A v \in Bounds(base) : f.end <= v => limit \in Nat /\ limit <= v
  <2> DEFINE S == {v \in Bounds(base) : v >= f.end}
  <2> SUFFICES ASSUME NEW v \in Bounds(base), f.end <= v PROVE Min(S) \in Nat /\ Min(S) <= v
    OBVIOUS
  <2>1. S \in SUBSET Nat /\ v \in S
    BY DEF InBase
  <2> HIDE DEF S
  <2> QED
    BY <2>1, LeastIs
<1> HIDE DEF limit, after
<1>6. \A v \in Bounds(base) : ~(f.end <= v /\ v <= Min(after))
  BY <1>4, <1>5
<1>7. r = Pool(Min(after))
  BY <1>2
<1> QED
  BY <1>2, <1>3, <1>4, <1>6, <1>7

LEMMA TrailingPoolHolds ==
  ASSUME NEW f, InBase(f), Bounds(base) \in SUBSET Nat, base.length \in Bounds(base),
         NEW b \in Nat, b < base.length
  PROVE  (\E r \in TrailingPool(base, f) : r[1] <= b /\ b < r[2]) <=> PooledAfter(f, b)
<1>1. ASSUME NEW r \in TrailingPool(base, f), r[1] <= b, b < r[2] PROVE PooledAfter(f, b)
  <2>1. /\ r[1] \in DataMarks(base) /\ r[1] \in Nat /\ f.end <= r[1]
        /\ r[2] = Min({v \in Bounds(base) : v > r[1]})
        /\ \A v \in Bounds(base) : ~(f.end <= v /\ v <= r[1])
    BY TrailingPoolIs
  <2>2. f.end \in Nat
    BY DEF InBase
  <2>3. ASSUME NEW v \in Bounds(base), f.end <= v, v <= b PROVE FALSE
    <3> DEFINE S == {u \in Bounds(base) : u > r[1]}
    <3>1. v \in Nat /\ r[1] < v
      BY <2>1, <2>2, <2>3
    <3>2. S \in SUBSET Nat /\ v \in S /\ r[2] = Min(S)
      BY <2>1, <3>1
    <3> HIDE DEF S
    <3>3. r[2] \in Nat /\ r[2] <= v
      BY <3>2, LeastIs
    <3> QED
      BY <1>1, <2>3, <3>1, <3>3
  <2> QED
    BY <1>1, <2>1, <2>2, <2>3 DEF PooledAfter
<1>2. ASSUME PooledAfter(f, b) PROVE \E r \in TrailingPool(base, f) : r[1] <= b /\ b < r[2]
  <2> DEFINE limit == Min({v \in Bounds(base) : v >= f.end})
             after == {d \in DataMarks(base) : f.end <= d /\ d < limit}
             Pool(d) == <<d, Min({v \in Bounds(base) : v > d})>>
  <2>1. TrailingPool(base, f) = {Pool(d) : d \in {e \in after : e = Min(after)}}
    BY DEF TrailingPool
  <2>2. f.end \in Nat /\ f.end <= b /\ \A v \in Bounds(base) : ~(f.end <= v /\ v <= b)
    BY <1>2 DEF PooledAfter, InBase
  <2>3. limit \in Nat /\ b < limit
    <3> DEFINE S == {v \in Bounds(base) : v >= f.end}
    <3>1. S \in SUBSET Nat /\ base.length \in S /\ \A v \in S : b < v
      BY <2>2
    <3>2. limit = Min(S)
      OBVIOUS
    <3> HIDE DEF S, limit
    <3>3. Min(S) \in S
      BY <3>1, LeastIs
    <3> QED
      BY <3>1, <3>2, <3>3
  <2> HIDE DEF limit
  <2>4. PICK d \in DataMarks(base) : f.end <= d /\ d <= b
    BY <1>2 DEF PooledAfter
  <2>5. after \in SUBSET Nat /\ d \in after
    BY <2>3, <2>4 DEF InBase
  <2> DEFINE m == Min(after)
  <2>6. m \in after /\ m <= d /\ m \in Nat
    BY <2>5, LeastIs
  <2>7. f.end <= m /\ m <= b
    BY <2>4, <2>5, <2>6
  <2>8. b < Min({v \in Bounds(base) : v > m})
    <3> HIDE DEF after, m
    <3> DEFINE S == {v \in Bounds(base) : v > m}
    <3>1. base.length \in Nat
      OBVIOUS
    <3>2. S \in SUBSET Nat /\ base.length \in S
      BY <2>6, <2>7, <3>1
    <3>3. \A v \in S : b < v
      BY <2>2, <2>6, <2>7
    <3> HIDE DEF S
    <3>4. Min(S) \in S
      BY <3>2, LeastIs
    <3> QED
      BY <3>3, <3>4 DEF S
  <2>9. Pool(m) \in TrailingPool(base, f)
    <3> HIDE DEF after
    <3> QED
      BY <2>1, <2>6
  <2>10. Pool(m)[1] = m /\ Pool(m)[2] = Min({v \in Bounds(base) : v > m})
    OBVIOUS
  <2> HIDE DEF Pool, m, after
  <2> QED
    BY <2>7, <2>8, <2>9, <2>10
<1> QED
  BY <1>1, <1>2

\* Functions, with what datasplit takes for the start of something: each in one piece,
\* and code marks inside them.
LEMMA BoundsAre ==
  ASSUME TargetCutAssumption, Compared
  PROVE  /\ Bounds(base) \in SUBSET Nat /\ base.length \in Bounds(base) /\ base.length = Size
         /\ \A j \in DOMAIN csv : /\ csv[j].addr \in Bounds(base) /\ csv[j].addr \in Nat /\ End(csv[j]) \in Nat
                                  /\ csv[j].addr < End(csv[j])
         /\ \A i, j \in DOMAIN csv :
              i # j => End(csv[i]) <= csv[j].addr \/ End(csv[j]) <= csv[i].addr
         /\ \A v \in Bounds(base) :
              v = Size \/ \E j \in DOMAIN csv : csv[j].addr <= v /\ v < End(csv[j])
<1>1. InputsOK /\ Placed /\ Mirrors /\ RowsApart /\ Size \in Nat
  BY ComparedIs
<1>2. /\ base.length = Size
      /\ \A j \in DOMAIN csv :
           /\ csv[j].addr \in Nat /\ End(csv[j]) \in Nat /\ csv[j].addr < End(csv[j])
           /\ \E f \in base.functions : f.start = csv[j].addr
      /\ \A f \in base.functions : \E j \in DOMAIN csv : f.start = csv[j].addr
  BY <1>1, MirroredFunctions
<1>3. /\ CodeMarks(base) \in SUBSET Nat
      /\ \A v \in CodeMarks(base) : \E j \in DOMAIN csv : csv[j].addr <= v /\ v < End(csv[j])
  BY <1>1, MirroredMarks
<1>4. \A j \in DOMAIN csv : csv[j].addr \in Bounds(base)
  BY <1>2 DEF Bounds
<1>8. \A v \in base.sized : v \in Nat /\ \E j \in DOMAIN csv : csv[j].addr <= v /\ v < End(csv[j])
  BY <1>1, MirroredFunctions DEF InputsOK, Input, Mirrors
<1>5. ASSUME NEW v \in Bounds(base)
      PROVE  v \in Nat /\ (v = Size \/ \E j \in DOMAIN csv : csv[j].addr <= v /\ v < End(csv[j]))
  <2>1. CASE v \in CodeMarks(base)
    BY <1>3, <2>1
  <2>2. CASE v \in {f.start : f \in base.functions}
    BY <1>2, <2>2
  <2>3. CASE v = base.length
    BY <1>1, <1>2, <2>3
  <2>4. CASE v \in base.sized
    BY <1>1, <1>8, <2>4
  <2> QED
    BY <2>1, <2>2, <2>3, <2>4 DEF Bounds
<1>6. base.length \in Bounds(base)
  BY DEF Bounds
<1>7. ASSUME NEW i \in DOMAIN csv, NEW j \in DOMAIN csv, i # j
      PROVE  End(csv[i]) <= csv[j].addr \/ End(csv[j]) <= csv[i].addr
  <2>1. Apart(i)
    BY <1>1, MirroredRows
  <2> QED
    BY <1>2, <1>7, <2>1 DEF Apart
<1> QED
  BY <1>2, <1>4, <1>5, <1>6, <1>7

\* A label that a function owns is in the pool after it,
LEMMA OwnedIsAfter ==
  ASSUME TargetCutAssumption, Compared, NEW f, NEW i, IsFunction(f, i), NEW b \in Byte,
         NEW l \in DOMAIN rows, IsLabelIn(rows[l]), rows[l].addr <= b, b < End(rows[l]),
         Owner(l) = f.name
  PROVE  PooledAfter(f, b)
<1>1. InputsOK /\ Placed /\ Mirrors /\ RowsApart /\ Size \in Nat /\ b \in Nat /\ b < Size
  BY ComparedIs
<1>2. /\ i \in DOMAIN csv /\ Apart(i)
      /\ f.name = csv[i].name /\ f.start = csv[i].addr /\ f.end = End(csv[i])
  BY DEF IsFunction
<1>3. PICK k \in DOMAIN marks : LabelOf(l, k)
  <2>1. ~(l \in DOMAIN csv /\ rows[l] = csv[l] /\ ~IsLabelIn(rows[l]))
    OBVIOUS
  <2> QED
    BY <1>1, <2>1, MirroredRows
<1>4. ~Inside(k) /\ rows[l].addr = marks[k].addr /\ End(rows[l]) = Limit(k)
  BY <1>3 DEF LabelOf
<1>5. marks[k].mode = "$d" /\ marks[k].addr \in DataMarks(base) /\ marks[k].addr \in Nat /\ Limit(k) \in Nat
  BY <1>1, <1>4, MirroredRows, MirroredMarks, InputsTyped, LimitIs
<1>6. i \in CodeBefore(l) /\ \A j \in CodeBefore(l) \ {i} : Precedes(j, i)
  <2>1. f.name # None
    BY <1>1, <1>2, InputsTyped
  <2>2. PICK j \in DOMAIN csv : rows[j] = csv[j] /\ OwnedBy(l, j)
    BY <1>1, <2>1, OwnerIs
  <2>3. csv[j].name = csv[i].name
    BY <1>2, <2>2 DEF OwnedBy
  <2>4. j = i
    BY <1>1, <1>2, <2>3, InputsTyped
  <2> QED
    BY <2>2, <2>4 DEF OwnedBy
<1>7. \A j \in DOMAIN csv : /\ j \in DOMAIN rows /\ rows[j] = csv[j] /\ Code(rows[j])
                            /\ csv[j].addr \in Nat /\ End(csv[j]) \in Nat /\ csv[j].addr < End(csv[j])
                            /\ csv[j].addr # marks[k].addr
  BY <1>1, MirroredRows, BoundsAre, MirroredMarks
<1>8. \A j \in DOMAIN csv : csv[j].addr < marks[k].addr => j \in CodeBefore(l)
  BY <1>4, <1>7 DEF CodeBefore, Precedes, Code
<1>9. csv[i].addr < marks[k].addr
  BY <1>2, <1>4, <1>5, <1>6, <1>7 DEF CodeBefore, Precedes
<1>10. f.end <= marks[k].addr
  <2>1. ~Among(i, k)
    BY <1>1, <1>2, <1>4, AmongIs
  <2> QED
    BY <1>2, <1>5, <1>7, <1>9, <2>1 DEF Among
<1>11. \A j \in DOMAIN csv : csv[j].addr <= marks[k].addr => csv[j].addr <= csv[i].addr
  <2> TAKE j \in DOMAIN csv
  <2> HAVE csv[j].addr <= marks[k].addr
  <2>1. j \in CodeBefore(l)
    BY <1>5, <1>7, <1>8
  <2>2. CASE j = i
    BY <1>7, <2>2
  <2>3. CASE j # i
    <3>1. Precedes(j, i)
      BY <1>6, <2>1, <2>3
    <3> QED
      BY <1>2, <1>7, <3>1 DEF Precedes
  <2> QED
    BY <2>2, <2>3
<1>12. ASSUME NEW j \in DOMAIN csv, csv[j].addr <= b PROVE csv[j].addr <= csv[i].addr
  <2>1. CASE csv[j].addr <= marks[k].addr
    BY <1>11, <2>1
  <2>2. CASE marks[k].addr < csv[j].addr
    <3>1. rows[l].addr < rows[j].addr /\ rows[j].addr < End(rows[l]) /\ l # j
      BY <1>1, <1>4, <1>5, <1>7, <1>12, <2>2
    <3> QED
      BY <1>1, <1>7, <3>1 DEF RowsApart
  <2> QED
    BY <1>5, <1>7, <2>1, <2>2
<1>13. ASSUME NEW v \in Bounds(base), f.end <= v, v <= b PROVE FALSE
  <2>1. v \in Nat
    BY BoundsAre
  <2>2. PICK j \in DOMAIN csv : csv[j].addr <= v /\ v < End(csv[j])
    <3>1. v # Size
      BY <1>1, <1>13
    <3> QED
      BY <3>1, BoundsAre
  <2>3. csv[j].addr <= csv[i].addr
    BY <1>1, <1>7, <1>12, <1>13, <2>1, <2>2
  <2>4. j # i
    BY <1>2, <1>7, <1>13, <2>1, <2>2
  <2>5. End(csv[i]) <= csv[j].addr \/ End(csv[j]) <= csv[i].addr
    BY <1>2, <2>4, BoundsAre
  <2> QED
    BY <1>2, <1>7, <1>13, <2>1, <2>2, <2>3, <2>5
<1>14. f.end <= b /\ marks[k].addr <= b
  BY <1>1, <1>2, <1>4, <1>5, <1>7, <1>10
<1> QED
  BY <1>5, <1>10, <1>13, <1>14 DEF PooledAfter

\* and that pool is of labels the function owns.
LEMMA AfterIsOwned ==
  ASSUME TargetCutAssumption, Compared, NEW f, NEW i, IsFunction(f, i), NEW b \in Byte,
         PooledAfter(f, b)
  PROVE  /\ \A j \in DOMAIN csv : ~(csv[j].addr <= b /\ b < End(csv[j]))
         /\ \E l \in DOMAIN rows : /\ IsLabelIn(rows[l]) /\ rows[l].addr <= b /\ b < End(rows[l])
                                   /\ Owner(l) = f.name
<1>1. InputsOK /\ Placed /\ Mirrors /\ RowsApart /\ Size \in Nat /\ b \in Nat /\ b < Size
  BY ComparedIs
<1>2. /\ i \in DOMAIN csv /\ Apart(i)
      /\ f.name = csv[i].name /\ f.start = csv[i].addr /\ f.end = End(csv[i])
  BY DEF IsFunction
<1>3. \A j \in DOMAIN csv : /\ j \in DOMAIN rows /\ rows[j] = csv[j] /\ Code(rows[j]) /\ ~csv[j].std
                            /\ csv[j].addr \in Nat /\ End(csv[j]) \in Nat /\ csv[j].addr < End(csv[j])
                            /\ csv[j].addr \in Bounds(base)
                            /\ j # i => End(csv[i]) <= csv[j].addr \/ End(csv[j]) <= csv[i].addr
  BY <1>1, <1>2, MirroredRows, MirroredFunctions, BoundsAre
<1>4. f.end <= b /\ \A v \in Bounds(base) : ~(f.end <= v /\ v <= b)
  BY DEF PooledAfter
<1>5. \A j \in DOMAIN csv : csv[j].addr <= b => csv[j].addr <= csv[i].addr /\ End(csv[j]) <= f.end
  <2> TAKE j \in DOMAIN csv
  <2> HAVE csv[j].addr <= b
  <2>1. ~(f.end <= csv[j].addr)
    BY <1>3, <1>4
  <2>2. CASE j = i
    BY <1>2, <1>3, <2>2
  <2>3. CASE j # i
    BY <1>2, <1>3, <2>1, <2>3
  <2> QED
    BY <2>2, <2>3
<1>6. \A j \in DOMAIN csv : ~(csv[j].addr <= b /\ b < End(csv[j]))
  BY <1>1, <1>2, <1>3, <1>4, <1>5
<1>7. PICK d \in DataMarks(base) : f.end <= d /\ d <= b
  BY DEF PooledAfter
<1>8. PICK k \in DOMAIN marks : marks[k].addr = d
  BY <1>1, MirroredMarks
<1>9. marks[k].addr \in Nat
  BY <1>1, InputsTyped
<1>10. ~Inside(k)
  <2>1. SUFFICES ASSUME Inside(k) PROVE FALSE
    OBVIOUS
  <2>2. PICK j \in Extents : csv[j].addr <= marks[k].addr /\ marks[k].addr < End(csv[j])
    BY <1>1, <2>1, InsideIs
  <2>3. j \in DOMAIN csv
    BY DEF Extents
  <2>4. csv[j].addr <= b
    BY <1>1, <1>3, <1>7, <1>8, <1>9, <2>2, <2>3
  <2>5. End(csv[j]) <= f.end
    BY <1>5, <2>3, <2>4
  <2> QED
    BY <1>2, <1>3, <1>7, <1>8, <1>9, <2>2, <2>3, <2>5
<1>11. PICK x \in DOMAIN rows : LabelOf(x, k)
  BY <1>1, <1>10, MirroredRows
<1>12. rows[x].addr = d /\ x \in RowsBefore(b)
  BY <1>7, <1>8, <1>11 DEF LabelOf, RowsBefore
<1>13. PICK l \in DOMAIN rows : /\ rows[l].addr <= b
                                /\ \A j \in DOMAIN rows : rows[j].addr <= b => rows[j].addr <= rows[l].addr
  BY <1>12, LastRowIs
<1>14. d <= rows[l].addr /\ rows[l].addr \in Nat
  BY <1>7, <1>12, <1>13, ComparedIs
<1>15. ~(l \in DOMAIN csv /\ rows[l] = csv[l])
  BY <1>2, <1>3, <1>4, <1>7, <1>8, <1>9, <1>13, <1>14
<1>16. IsLabelIn(rows[l])
  BY <1>1, <1>15, MirroredRows DEF LabelOf
<1>17. b < End(rows[l])
  BY <1>13, <1>16, LabelReaches
<1>18. Owner(l) = f.name
  <2>1. csv[i].addr < rows[l].addr
    BY <1>2, <1>3, <1>7, <1>8, <1>9, <1>14
  <2>2. i \in CodeBefore(l)
    BY <1>2, <1>3, <2>1 DEF CodeBefore, Precedes, Code
  <2>3. CodeBefore(l) \in SUBSET (DOMAIN rows) /\ CodeBefore(l) # {}
    BY <2>2 DEF CodeBefore
  <2>4. PICK j \in CodeBefore(l) : /\ LastOf(CodeBefore(l)) = rows[j]
                                   /\ \A y \in CodeBefore(l) \ {j} : Precedes(y, j)
    BY <1>1, <2>3, LastOfIs
  <2>5. j = i
    <3>1. SUFFICES ASSUME j # i PROVE FALSE
      OBVIOUS
    <3>2. j \in DOMAIN rows /\ rows[j].mode # "$d" /\ Precedes(j, l)
      BY <2>4 DEF CodeBefore
    <3>3. j \in DOMAIN csv /\ rows[j] = csv[j]
      BY <1>1, <3>2, CodeIsNamed
    <3>4. csv[j].addr <= b
      BY <1>1, <1>3, <1>13, <1>14, <3>2, <3>3 DEF Precedes
    <3>5. csv[j].addr <= csv[i].addr
      BY <1>5, <3>3, <3>4
    <3>6. csv[i].addr <= csv[j].addr
      <4>1. Precedes(i, j)
        BY <2>2, <2>4, <3>1
      <4> QED
        BY <1>2, <1>3, <3>3, <4>1 DEF Precedes
    <3> QED
      BY <1>2, <1>3, <3>1, <3>3, <3>5, <3>6
  <2> QED
    BY <1>2, <1>3, <2>3, <2>4, <2>5 DEF Owner
<1> QED
  BY <1>6, <1>13, <1>16, <1>17, <1>18

\* The sections are told apart by their names.
LEMMA SectionNames ==
  /\ Plain(".text")[1] = ".text" /\ Plain(".text")[2] = None /\ Skip[1] = ".undecompiled"
  /\ \A n : CodeOf(n)[1] = ".text" /\ CodeOf(n)[2] = n /\ PoolOf(n)[1] = ".pool" /\ PoolOf(n)[2] = n
BY DEF Plain, Skip, CodeOf, PoolOf

Covered(ranges, b) == \E r \in ranges : r[1] <= b /\ b < r[2]

\* The code section of a function that is cut has the function less its inner pools.
LEMMA CodePlaces ==
  ASSUME TargetCutAssumption, Compared, NEW f \in Cut(base), NEW b \in Byte
  PROVE  PlaceOf(b)[1] = CodeOf(f.name) <=>
           f.start <= b /\ b < f.end /\ ~Covered(InnerPools(base, f), b)
<1>1. InputsOK /\ Placed /\ Mirrors /\ RowsApart /\ b \in Nat /\ base # None
  BY ComparedIs, MirroredFunctions
<1>2. f \in base.functions /\ CutInBase(f.name)
  BY <1>1 DEF Cut, CutInBase
<1>3. PICK i : IsFunction(f, i)
  BY <1>2, BaseFunctionIs
<1>4. /\ InBase(f) /\ i \in DOMAIN csv /\ Apart(i)
      /\ f.name = csv[i].name /\ f.start = csv[i].addr /\ f.end = End(csv[i])
  BY <1>3 DEF IsFunction
<1>5. f.name # None /\ \A j \in DOMAIN csv : csv[j].name = f.name => j = i
  BY <1>1, <1>4, InputsTyped
<1>6. ASSUME f.start <= b, b < f.end
      PROVE  PlaceOf(b)[1] = CodeOf(f.name) <=> ~Covered(InnerPools(base, f), b)
  <2>1. PlaceOf(b)[1] = FunctionSection(i, b)
    BY <1>4, <1>6, FunctionPlace
  <2>2. ModeOf(i, b) = "$d" <=> Covered(InnerPools(base, f), b)
    BY <1>1, <1>4, <1>6, MirroredMode, InnerPoolsHold DEF Covered
  <2>3. PlaceOf(b)[1] = IF ModeOf(i, b) = "$d" THEN PoolOf(f.name) ELSE CodeOf(f.name)
    BY <1>2, <1>4, <2>1 DEF FunctionSection
  <2>4. PoolOf(f.name) # CodeOf(f.name)
    BY SectionNames
  <2> QED
    BY <2>2, <2>3, <2>4
<1>7. ASSUME PlaceOf(b)[1] = CodeOf(f.name) PROVE f.start <= b /\ b < f.end
  <2>1. CodeOf(f.name)[1] = ".text" /\ CodeOf(f.name)[2] = f.name
    BY SectionNames
  <2>2. CASE \E j \in DOMAIN csv : csv[j].addr <= b /\ b < End(csv[j])
    <3>1. PICK j \in DOMAIN csv : csv[j].addr <= b /\ b < End(csv[j])
      BY <2>2
    <3>2. PlaceOf(b)[1] = FunctionSection(j, b)
      BY <3>1, FunctionPlace
    <3>3. \/ PlaceOf(b)[1] = Plain(".text") \/ PlaceOf(b)[1] = PoolOf(csv[j].name)
          \/ PlaceOf(b)[1] = CodeOf(csv[j].name)
      BY <3>2 DEF FunctionSection
    <3>4. csv[j].name = f.name
      BY <1>5, <1>7, <2>1, <3>3, SectionNames
    <3> QED
      BY <1>4, <1>5, <3>1, <3>4
  <2>3. CASE NamedAt(b) /\ ~\E j \in DOMAIN csv : csv[j].addr <= b /\ b < End(csv[j])
    <3>1. PICK l \in DOMAIN rows : rows[l].addr <= b /\ b < End(rows[l])
      BY <2>3 DEF NamedAt
    <3>2. IsLabelIn(rows[l])
      BY <1>1, <2>3, <3>1, MirroredRows DEF LabelOf
    <3>3. PlaceOf(b)[1] = Routed(l)
      BY <3>1, <3>2, LabelPlace
    <3>4. Routed(l) = PoolOf(Owner(l)) \/ Routed(l) = Skip
      BY <3>2 DEF Routed
    <3> QED
      BY <1>7, <2>1, <3>3, <3>4, SectionNames
  <2>4. CASE ~NamedAt(b)
    BY <1>5, <1>7, <2>1, <2>4, OtherPlace, SectionNames
  <2> QED
    BY <2>2, <2>3, <2>4
<1> QED
  BY <1>6, <1>7

\* The pool section of a function has what its inner pools and the one after it have.
LEMMA PoolPlaces ==
  ASSUME TargetCutAssumption, Compared, NEW f \in Pooled(base), NEW b \in Byte
  PROVE  PlaceOf(b)[1] = PoolOf(f.name) <=>
           Covered(InnerPools(base, f), b) \/ Covered(TrailingPool(base, f), b)
<1>1. InputsOK /\ Placed /\ Mirrors /\ RowsApart /\ b \in Nat /\ b < Size /\ base # None
  BY ComparedIs, MirroredFunctions
<1>2. f \in base.functions /\ UniqueIn(base, f) /\ ~LeftWhole(base, f)
  BY DEF Pooled
<1>3. PICK i : IsFunction(f, i)
  BY <1>2, BaseFunctionIs
<1>4. /\ InBase(f) /\ i \in DOMAIN csv /\ Apart(i)
      /\ f.name = csv[i].name /\ f.start = csv[i].addr /\ f.end = End(csv[i])
      /\ f.start \in Nat /\ f.end \in Nat /\ f.start < f.end
  BY <1>3 DEF IsFunction, InBase
<1>5. f.name # None /\ \A j \in DOMAIN csv : csv[j].name = f.name => j = i
  BY <1>1, <1>4, InputsTyped
<1>6. PoolOf(f.name)[1] = ".pool" /\ PoolOf(f.name)[2] = f.name
  BY SectionNames
<1>7. CutInBase(f.name) <=> InnerPools(base, f) # {}
  BY <1>1, <1>2 DEF CutInBase, Cut, LeftWhole, UniqueIn
<1>8. Covered(TrailingPool(base, f), b) <=> PooledAfter(f, b)
  BY <1>1, <1>4, BoundsAre, TrailingPoolHolds DEF Covered
<1>9. Covered(InnerPools(base, f), b) => f.start <= b /\ b < f.end
  <2> SUFFICES ASSUME NEW r \in InnerPools(base, f), r[1] <= b, b < r[2] PROVE f.start <= b /\ b < f.end
    BY DEF Covered
  <2>1. r[1] \in Nat /\ r[2] \in Nat /\ f.start < r[1] /\ r[2] <= f.end
    BY <1>4, InnerPoolIs
  <2> QED
    BY <1>1, <1>4, <2>1
<1>10. CASE f.start <= b /\ b < f.end
  <2>1. PlaceOf(b)[1] = FunctionSection(i, b)
    BY <1>4, <1>10, FunctionPlace
  <2>2. ModeOf(i, b) = "$d" <=> Covered(InnerPools(base, f), b)
    BY <1>1, <1>4, <1>10, MirroredMode, InnerPoolsHold DEF Covered
  <2>3. ~PooledAfter(f, b)
    BY <1>1, <1>4, <1>10 DEF PooledAfter
  <2>4. CASE InnerPools(base, f) = {}
    <3>1. PlaceOf(b)[1] = Plain(".text")
      BY <1>4, <1>7, <2>1, <2>4 DEF FunctionSection
    <3>2. PlaceOf(b)[1] # PoolOf(f.name)
      BY <1>6, <3>1, SectionNames
    <3> QED
      BY <1>8, <2>3, <2>4, <3>2 DEF Covered
  <2>5. CASE InnerPools(base, f) # {}
    <3>1. PlaceOf(b)[1] = IF ModeOf(i, b) = "$d" THEN PoolOf(f.name) ELSE CodeOf(f.name)
      BY <1>4, <1>7, <2>1, <2>5 DEF FunctionSection
    <3>2. PoolOf(f.name) # CodeOf(f.name)
      BY SectionNames
    <3> QED
      BY <1>8, <2>2, <2>3, <3>1, <3>2
  <2> QED
    BY <2>4, <2>5
<1>11. CASE ~(f.start <= b /\ b < f.end)
  <2>1. ASSUME PlaceOf(b)[1] = PoolOf(f.name) PROVE PooledAfter(f, b)
    <3>1. CASE \E j \in DOMAIN csv : csv[j].addr <= b /\ b < End(csv[j])
      <4>1. PICK j \in DOMAIN csv : csv[j].addr <= b /\ b < End(csv[j])
        BY <3>1
      <4>2. PlaceOf(b)[1] = FunctionSection(j, b)
        BY <4>1, FunctionPlace
      <4>3. \/ PlaceOf(b)[1] = Plain(".text") \/ PlaceOf(b)[1] = PoolOf(csv[j].name)
            \/ PlaceOf(b)[1] = CodeOf(csv[j].name)
        BY <4>2 DEF FunctionSection
      <4>4. csv[j].name = f.name
        BY <1>6, <2>1, <4>3, SectionNames
      <4> QED
        BY <1>4, <1>5, <1>11, <4>1, <4>4
    <3>2. CASE NamedAt(b) /\ ~\E j \in DOMAIN csv : csv[j].addr <= b /\ b < End(csv[j])
      <4>1. PICK l \in DOMAIN rows : rows[l].addr <= b /\ b < End(rows[l])
        BY <3>2 DEF NamedAt
      <4>2. IsLabelIn(rows[l])
        BY <1>1, <3>2, <4>1, MirroredRows DEF LabelOf
      <4>3. PlaceOf(b)[1] = Routed(l)
        BY <4>1, <4>2, LabelPlace
      <4>4. Routed(l) = PoolOf(Owner(l)) \/ Routed(l) = Skip
        BY <4>2 DEF Routed
      <4>5. Owner(l) = f.name
        BY <1>6, <2>1, <4>3, <4>4, SectionNames
      <4> QED
        BY <1>3, <4>1, <4>2, <4>5, OwnedIsAfter
    <3>3. CASE ~NamedAt(b)
      BY <1>6, <2>1, <3>3, OtherPlace, SectionNames
    <3> QED
      BY <3>1, <3>2, <3>3
  <2>2. ASSUME PooledAfter(f, b) PROVE PlaceOf(b)[1] = PoolOf(f.name)
    <3>1. PICK l \in DOMAIN rows : /\ IsLabelIn(rows[l]) /\ rows[l].addr <= b /\ b < End(rows[l])
                                   /\ Owner(l) = f.name
      BY <1>3, <2>2, AfterIsOwned
    <3>2. PlaceOf(b)[1] = Routed(l)
      BY <3>1, LabelPlace
    <3> QED
      BY <1>5, <3>1, <3>2 DEF Routed
  <2> QED
    BY <1>8, <1>9, <1>11, <2>1, <2>2
<1> QED
  BY <1>10, <1>11

\* The ranges of two lists, all of the first before all of the second, are in order.
LEMMA AscendingBoth ==
  ASSUME NEW I, NEW J, Disjoint(I), Disjoint(J), \A r \in I, q \in J : r[2] <= q[1],
         NEW S, \A b : b \in S <=> b \in Int /\ (Covered(I, b) \/ Covered(J, b))
  PROVE  InOrder(BytesOf(Ascending(I) \o Ascending(J)), S)
<1> DEFINE s == Ascending(I)
           t == Ascending(J)
           u == s \o t
<1>1. /\ s \in Seq(I) /\ \A j, k \in DOMAIN s : j < k => s[j][2] <= s[k][1]
      /\ \A r \in I : \E k \in DOMAIN s : s[k] = r
  BY AscendingIs
<1>2. /\ t \in Seq(J) /\ \A j, k \in DOMAIN t : j < k => t[j][2] <= t[k][1]
      /\ \A r \in J : \E k \in DOMAIN t : t[k] = r
  BY AscendingIs
<1>3. \A r \in I \cup J : r[1] \in Int /\ r[2] \in Int /\ r[1] <= r[2]
  BY DEF Disjoint
<1> HIDE DEF s, t
<1>4. s \in Seq(I \cup J) /\ t \in Seq(I \cup J)
  BY <1>1, <1>2
<1>5. /\ Len(s) \in Nat /\ Len(t) \in Nat /\ DOMAIN s = 1..Len(s) /\ DOMAIN t = 1..Len(t)
      /\ \A k \in DOMAIN s : s[k] \in I
      /\ \A k \in DOMAIN t : t[k] \in J
  BY <1>1, <1>2
<1>6. /\ u \in Seq(I \cup J) /\ Len(u) = Len(s) + Len(t)
      /\ \A k \in 1..Len(s) : u[k] = s[k]
      /\ \A k \in (Len(s) + 1)..Len(u) : u[k] = t[k - Len(s)] /\ k - Len(s) \in 1..Len(t)
  BY <1>4, BothHold
<1> HIDE DEF u
<1>7. DOMAIN u = 1..Len(u) /\ Len(u) \in Nat /\ u = [k \in DOMAIN u |-> u[k]]
  BY <1>5, <1>6
<1>8. \A k \in DOMAIN u : u[k] \in I \cup J
  BY <1>6, <1>7
<1>9. ASSUME NEW j \in DOMAIN u, NEW k \in DOMAIN u, j < k PROVE u[j][2] <= u[k][1]
  <2>1. CASE k <= Len(s)
    <3>1. j \in DOMAIN s /\ k \in DOMAIN s
      BY <1>5, <1>7, <1>9, <2>1
    <3> QED
      BY <1>1, <1>5, <1>6, <1>9, <3>1
  <2>2. CASE j <= Len(s) /\ Len(s) < k
    <3>1. j \in DOMAIN s /\ k \in (Len(s) + 1)..Len(u)
      BY <1>5, <1>6, <1>7, <2>2
    <3>2. u[j] \in I /\ u[k] \in J
      BY <1>5, <1>6, <3>1
    <3> QED
      BY <3>2
  <2>3. CASE Len(s) < j
    <3>1. j \in (Len(s) + 1)..Len(u) /\ k \in (Len(s) + 1)..Len(u)
      BY <1>5, <1>6, <1>7, <1>9, <2>3
    <3>2. j - Len(s) \in DOMAIN t /\ k - Len(s) \in DOMAIN t /\ j - Len(s) < k - Len(s)
      BY <1>5, <1>6, <1>9, <3>1
    <3>3. u[j] = t[j - Len(s)] /\ u[k] = t[k - Len(s)]
      BY <1>6, <3>1
    <3> QED
      BY <1>2, <3>2, <3>3
  <2> QED
    BY <1>5, <1>7, <2>1, <2>2, <2>3
<1>10. Ranges(u)
  BY <1>3, <1>7, <1>8, <1>9 DEF Ranges
<1>11. InOrder(BytesOf(u), UNION {BytesFrom(u[i][1], u[i][2]) : i \in DOMAIN u})
  BY <1>10, BytesInOrder
<1>12. \A r \in I \cup J : \E k \in DOMAIN u : u[k] = r
  <2>1. ASSUME NEW r \in I PROVE \E k \in DOMAIN u : u[k] = r
    <3>1. PICK k \in DOMAIN s : s[k] = r
      BY <1>1
    <3>2. k \in DOMAIN u /\ u[k] = r
      BY <1>5, <1>6, <1>7, <3>1
    <3> QED
      BY <3>2
  <2>2. ASSUME NEW r \in J PROVE \E k \in DOMAIN u : u[k] = r
    <3>1. PICK k \in DOMAIN t : t[k] = r
      BY <1>2
    <3>2. Len(s) + k \in (Len(s) + 1)..Len(u) /\ (Len(s) + k) - Len(s) = k
      BY <1>5, <1>6, <3>1
    <3>3. Len(s) + k \in DOMAIN u
      BY <1>5, <1>6, <1>7, <3>2
    <3>4. u[Len(s) + k] = r
      BY <1>6, <3>1, <3>2
    <3> QED
      BY <3>3, <3>4
  <2> QED
    BY <2>1, <2>2
<1>13. UNION {BytesFrom(u[i][1], u[i][2]) : i \in DOMAIN u} = S
  <2>1. ASSUME NEW b, \E i \in DOMAIN u : b \in BytesFrom(u[i][1], u[i][2]) PROVE b \in S
    <3>1. PICK i \in DOMAIN u : b \in Int /\ u[i][1] <= b /\ b < u[i][2]
      BY <2>1 DEF BytesFrom
    <3>2. Covered(I, b) \/ Covered(J, b)
      BY <1>8, <3>1 DEF Covered
    <3> QED
      BY <3>1, <3>2
  <2>2. ASSUME NEW b \in S PROVE \E i \in DOMAIN u : b \in BytesFrom(u[i][1], u[i][2])
    <3>1. b \in Int /\ (Covered(I, b) \/ Covered(J, b))
      OBVIOUS
    <3>2. PICK r \in I \cup J : r[1] <= b /\ b < r[2]
      BY <3>1 DEF Covered
    <3>3. PICK i \in DOMAIN u : u[i] = r
      BY <1>12
    <3> QED
      BY <3>1, <3>2, <3>3 DEF BytesFrom
  <2> QED
    BY <2>1, <2>2
<1> QED
  BY <1>11, <1>13 DEF u, s, t

\* The target has the bytes of a section in their order.
LEMMA BytesInAre ==
  ASSUME TargetCutAssumption, Written, NEW section
  PROVE  InOrder(BytesIn(section), {b \in Byte : PlaceOf(b)[1] = section})
<1> DEFINE n     == Cardinality(Firsts)
           ks    == {k \in DOMAIN runs : runs[k].section = section}
           m     == Cardinality(ks)
           rs    == [i \in 1..m |-> <<runs[Nth(ks, i)].start, runs[Nth(ks, i)].end>>]
           there == {b \in Byte : PlaceOf(b)[1] = section}
<1>0. BytesIn(section) = BytesOf(rs)
  BY DEF BytesIn
<1>1. /\ n \in Nat /\ DOMAIN runs = 1..n
      /\ \A k \in 1..n : runs[k].start = StartAt(k) /\ runs[k].end = StopAt(k)
      /\ \A k \in 1..n : StartAt(k) \in Nat /\ StopAt(k) \in Nat /\ StartAt(k) <= StopAt(k)
      /\ \A j, k \in 1..n : j < k => StopAt(j) <= StartAt(k)
  BY RunsAre, RunsInOrder
<1>2. Size \in Nat
  BY DEF TargetCutAssumption
<1>3. \A k \in 1..n : StopAt(k) <= Size
  <2> TAKE k \in 1..n
  <2>1. n \in 1..n /\ StopAt(n) = Size
    BY <1>1 DEF StopAt
  <2>2. CASE k = n
    BY <1>2, <2>1, <2>2
  <2>3. CASE k # n
    <3>1. k < n
      BY <1>1, <2>3
    <3> QED
      BY <1>1, <1>2, <2>1, <3>1
  <2> QED
    BY <2>2, <2>3
<1>4. \A k : k \in ks <=> k \in 1..n /\ runs[k].section = section
  BY <1>1
<1>5. ks \in SUBSET Int /\ IsFiniteSet(ks)
  <2>1. IsFiniteSet(1..n)
    BY <1>1, FS_Interval
  <2>2. ks \in SUBSET (1..n) /\ 1..n \in SUBSET Int
    BY <1>4
  <2> HIDE DEF ks, n
  <2> QED
    BY <2>1, <2>2, FS_Subset
<1> HIDE DEF ks, n
<1>6. /\ m \in Nat /\ \A i \in 1..m : Nth(ks, i) \in ks
      /\ \A k \in ks : \E i \in 1..m : Nth(ks, i) = k
      /\ \A i, j \in 1..m : i < j => Nth(ks, i) < Nth(ks, j)
  BY <1>5, NthOfNumbers
<1>7. /\ DOMAIN rs = 1..m /\ rs = [i \in DOMAIN rs |-> rs[i]]
      /\ \A i \in 1..m : rs[i][1] = runs[Nth(ks, i)].start /\ rs[i][2] = runs[Nth(ks, i)].end
  OBVIOUS
<1> HIDE DEF rs, m
<1>8. \A i \in 1..m : /\ Nth(ks, i) \in 1..n /\ Nth(ks, i) \in ks
                      /\ rs[i][1] = StartAt(Nth(ks, i)) /\ rs[i][2] = StopAt(Nth(ks, i))
  BY <1>1, <1>4, <1>6, <1>7
<1>9. Ranges(rs)
  <2>1. \A i \in DOMAIN rs : rs[i][1] \in Int /\ rs[i][2] \in Int /\ rs[i][1] <= rs[i][2]
    BY <1>1, <1>7, <1>8
  <2>2. \A i, j \in DOMAIN rs : i < j => rs[i][2] <= rs[j][1]
    BY <1>1, <1>6, <1>7, <1>8
  <2> QED
    BY <1>6, <1>7, <2>1, <2>2 DEF Ranges
<1>10. InOrder(BytesOf(rs), UNION {BytesFrom(rs[i][1], rs[i][2]) : i \in DOMAIN rs})
  BY <1>9, BytesInOrder
<1>11. ASSUME NEW b, NEW i \in 1..m, b \in BytesFrom(rs[i][1], rs[i][2]) PROVE b \in there
  <2> DEFINE k == Nth(ks, i)
  <2>1. k \in 1..n /\ b \in Int /\ StartAt(k) <= b /\ b < StopAt(k) /\ runs[k].section = section
    BY <1>4, <1>8, <1>11 DEF BytesFrom
  <2> HIDE DEF k
  <2>2. b \in Byte
    BY <1>1, <1>2, <1>3, <2>1 DEF Byte
  <2>3. RunOf(b) = runs[k]
    BY <2>1, <2>2, RunOfIs DEF n
  <2> QED
    BY <2>1, <2>2, <2>3 DEF PlaceOf
<1>12. ASSUME NEW b \in there PROVE \E i \in 1..m : b \in BytesFrom(rs[i][1], rs[i][2])
  <2>1. b \in Byte /\ PlaceOf(b)[1] = section /\ b \in Int
    BY <1>2 DEF Byte
  <2>2. PICK k \in 1..n : RunOf(b) = runs[k] /\ StartAt(k) <= b /\ b < StopAt(k)
    BY <2>1, RunOfIs DEF n
  <2>3. k \in ks
    BY <1>4, <2>1, <2>2 DEF PlaceOf
  <2>4. PICK i \in 1..m : Nth(ks, i) = k
    BY <1>6, <2>3
  <2>5. b \in BytesFrom(rs[i][1], rs[i][2])
    BY <1>8, <2>1, <2>2, <2>4 DEF BytesFrom
  <2> QED
    BY <2>5
<1>13. UNION {BytesFrom(rs[i][1], rs[i][2]) : i \in DOMAIN rs} = there
  <2> HIDE DEF there
  <2> QED
    BY <1>7, <1>11, <1>12
<1> QED
  BY <1>0, <1>10, <1>13

\* The pools of a function of the base are apart, inside it and then after it.
LEMMA PoolsAreApart ==
  ASSUME TargetCutAssumption, Compared, NEW f, NEW i, IsFunction(f, i)
  PROVE  /\ Disjoint(InnerPools(base, f)) /\ Disjoint(TrailingPool(base, f))
         /\ \A r \in InnerPools(base, f), q \in TrailingPool(base, f) : r[2] <= q[1]
         /\ \A r \in InnerPools(base, f) \cup TrailingPool(base, f) : 0 <= r[1] /\ r[2] <= Size
<1>1. InputsOK /\ Mirrors /\ Size \in Nat
  BY ComparedIs
<1>2. InBase(f) /\ f.start \in Nat /\ f.end \in Nat /\ f.end <= Size
  <2>1. i \in DOMAIN csv /\ f.end = End(csv[i])
    BY DEF IsFunction
  <2> QED
    BY <1>1, <2>1, MirroredFunctions DEF IsFunction, InBase
<1>3. Bounds(base) \in SUBSET Nat /\ base.length \in Bounds(base) /\ base.length = Size
  BY BoundsAre
<1>4. \A r \in InnerPools(base, f) :
        /\ r = <<r[1], PoolEnd(base, f, r[1])>> /\ r[1] \in Nat /\ r[2] \in Nat
        /\ f.start < r[1] /\ r[1] < r[2] /\ r[2] <= f.end
        /\ \A q \in InnerPools(base, f) : r[1] < q[1] => r[2] <= q[1]
  BY <1>2, InnerPoolIs
<1>5. ASSUME NEW r \in TrailingPool(base, f)
      PROVE  /\ r[1] \in Nat /\ r[2] \in Nat /\ f.end <= r[1] /\ r[1] < r[2] /\ r[2] <= Size
             /\ \A q \in TrailingPool(base, f) : q = r
  <2>1. /\ r[1] \in DataMarks(base) /\ r[1] \in Nat /\ f.end <= r[1]
        /\ r[2] = Min({v \in Bounds(base) : v > r[1]})
        /\ \A q \in TrailingPool(base, f) : q = r
    BY <1>2, <1>3, TrailingPoolIs
  <2>2. r[1] < Size
    <3>1. PICK k \in DOMAIN marks : marks[k].addr = r[1]
      BY <1>1, <2>1, MirroredMarks
    <3> QED
      BY <1>1, <3>1, InputsTyped
  <2> DEFINE S == {v \in Bounds(base) : v > r[1]}
  <2>3. S \in SUBSET Nat /\ Size \in S /\ \A v \in S : r[1] < v
    BY <1>3, <2>2
  <2>4. r[2] = Min(S)
    BY <2>1
  <2> HIDE DEF S
  <2>5. Min(S) \in S /\ Min(S) <= Size
    BY <2>3, LeastIs
  <2> QED
    BY <2>1, <2>3, <2>4, <2>5
<1>6. \A r, q \in InnerPools(base, f) : r # q => r[2] <= q[1] \/ q[2] <= r[1]
  <2> SUFFICES ASSUME NEW r \in InnerPools(base, f), NEW q \in InnerPools(base, f), r # q
               PROVE  r[2] <= q[1] \/ q[2] <= r[1]
    OBVIOUS
  <2>1. r[1] # q[1]
    BY <1>4
  <2>2. r[1] < q[1] \/ q[1] < r[1]
    BY <1>4, <2>1
  <2> QED
    BY <1>4, <2>2
<1>7. IsFiniteSet({r[1] : r \in InnerPools(base, f)}) /\ IsFiniteSet({r[1] : r \in TrailingPool(base, f)})
  <2>1. IsFiniteSet(0..Size)
    BY <1>1, FS_Interval
  <2> DEFINE S == {r[1] : r \in InnerPools(base, f)}
             T == {r[1] : r \in TrailingPool(base, f)}
  <2>2. \A r \in InnerPools(base, f) : r[1] \in 0..Size
    BY <1>1, <1>2, <1>4
  <2>3. \A r \in TrailingPool(base, f) : r[1] \in 0..Size
    BY <1>1, <1>5
  <2>4. S \in SUBSET (0..Size) /\ T \in SUBSET (0..Size)
    BY <2>2, <2>3
  <2> HIDE DEF S, T
  <2>5. IsFiniteSet(S) /\ IsFiniteSet(T)
    BY <2>1, <2>4, FS_Subset
  <2> QED
    BY <2>5 DEF S, T
<1>8. Disjoint(InnerPools(base, f))
  BY <1>4, <1>6, <1>7 DEF Disjoint
<1>9. Disjoint(TrailingPool(base, f))
  BY <1>5, <1>7 DEF Disjoint
<1>10. \A r \in InnerPools(base, f), q \in TrailingPool(base, f) : r[2] <= q[1]
  BY <1>2, <1>4, <1>5
<1>11. \A r \in InnerPools(base, f) \cup TrailingPool(base, f) : 0 <= r[1] /\ r[2] <= Size
  BY <1>1, <1>2, <1>4, <1>5
<1> QED
  BY <1>8, <1>9, <1>10, <1>11

\* Both sides of a function compare: where the CSV says of the code what the base's
\* symbols say, the section of the target for its code, and the one for its pools, have
\* the very bytes, in the same order, that datasplit puts into those of the base.
THEOREM SidesCompare == Spec => []PoolsCompare
<1>1. ASSUME Compared, NEW f \in Cut(base) PROVE BytesIn(CodeOf(f.name)) = CodeBytes(base, f)
  <2>1. TargetCutAssumption /\ Written /\ Mirrors /\ Size \in Nat /\ f \in base.functions
    BY <1>1, TargetCutAssumption, ComparedIs DEF Cut
  <2>2. PICK i : IsFunction(f, i)
    BY <1>1, <2>1, BaseFunctionIs
  <2>3. f.start \in Nat /\ f.end \in Nat /\ f.end <= Size
    <3>1. InBase(f) /\ i \in DOMAIN csv /\ f.end = End(csv[i])
      BY <2>2 DEF IsFunction
    <3> QED
      BY <1>1, <2>1, <3>1, ComparedIs, MirroredFunctions DEF InBase
  <2> DEFINE pooled(b) == \E r \in InnerPools(base, f) : r[1] <= b /\ b < r[2]
             kept      == {b \in f.start..(f.end - 1) : ~pooled(b)}
             there     == {b \in Byte : PlaceOf(b)[1] = CodeOf(f.name)}
  <2>4. CodeBytes(base, f) = [k \in 1..Cardinality(kept) |-> Nth(kept, k)]
    BY DEF CodeBytes
  <2>5. \A b \in Byte : b \in Nat /\ (b \in there <=> f.start <= b /\ b < f.end /\ ~pooled(b))
    BY <1>1, <2>1, CodePlaces DEF Covered, Byte
  <2>6. kept = there
    <3>1. \A b : b \in kept <=> b \in Byte /\ f.start <= b /\ b < f.end /\ ~pooled(b)
      BY <2>1, <2>3 DEF Byte
    <3>2. \A b \in there : b \in Byte
      OBVIOUS
    <3> HIDE DEF kept, there, pooled
    <3> QED
      BY <2>5, <3>1, <3>2
  <2>7. kept \in SUBSET Int /\ IsFiniteSet(kept)
    <3>1. f.end - 1 \in Int /\ f.start \in Int
      BY <2>3
    <3>2. IsFiniteSet(f.start..(f.end - 1))
      BY <3>1, FS_Interval
    <3>3. kept \in SUBSET (f.start..(f.end - 1)) /\ f.start..(f.end - 1) \in SUBSET Int
      BY <3>1
    <3> HIDE DEF kept
    <3> QED
      BY <3>2, <3>3, FS_Subset
  <2>8. InOrder(BytesIn(CodeOf(f.name)), there)
    BY <2>1, BytesInAre
  <2> HIDE DEF kept, there
  <2>9. InOrder(CodeBytes(base, f), there)
    BY <2>4, <2>6, <2>7, NumbersInOrder
  <2> QED
    BY <2>8, <2>9, OneOrder
<1>2. ASSUME Compared, NEW f \in Pooled(base) PROVE BytesIn(PoolOf(f.name)) = PoolBytes(base, f)
  <2>1. TargetCutAssumption /\ Written /\ Size \in Nat /\ f \in base.functions
    BY <1>2, TargetCutAssumption, ComparedIs DEF Pooled
  <2>2. PICK i : IsFunction(f, i)
    BY <1>2, <2>1, BaseFunctionIs
  <2> DEFINE I     == InnerPools(base, f)
             J     == TrailingPool(base, f)
             there == {b \in Byte : PlaceOf(b)[1] = PoolOf(f.name)}
  <2>3. /\ Disjoint(I) /\ Disjoint(J) /\ \A r \in I, q \in J : r[2] <= q[1]
        /\ \A r \in I \cup J : 0 <= r[1] /\ r[2] <= Size
    BY <1>2, <2>1, <2>2, PoolsAreApart
  <2>4. \A b \in Byte : b \in there <=> Covered(I, b) \/ Covered(J, b)
    BY <1>2, <2>1, PoolPlaces
  <2>5. \A b \in there : b \in Byte /\ b \in Int
    BY <2>1 DEF Byte
  <2> HIDE DEF I, J, there
  <2>6. ASSUME NEW b \in Int, Covered(I, b) \/ Covered(J, b) PROVE b \in Byte
    <3>1. PICK r \in I \cup J : r[1] <= b /\ b < r[2]
      BY <2>6 DEF Covered
    <3>2. r[1] \in Int /\ r[2] \in Int /\ 0 <= r[1] /\ r[2] <= Size
      BY <2>3 DEF Disjoint
    <3> QED
      BY <2>1, <3>1, <3>2 DEF Byte
  <2>7. \A b : b \in there <=> b \in Int /\ (Covered(I, b) \/ Covered(J, b))
    BY <2>4, <2>5, <2>6
  <2>8. InOrder(BytesOf(Ascending(I) \o Ascending(J)), there)
    BY <2>3, <2>7, AscendingBoth
  <2>9. InOrder(BytesIn(PoolOf(f.name)), there)
    BY <2>1, BytesInAre DEF there
  <2> QED
    BY <2>8, <2>9, OneOrder DEF PoolBytes, I, J
<1>3. CutInv /\ SectionInv => PoolsCompare
  BY <1>1, <1>2 DEF PoolsCompare, Compared
<1> QED
  BY <1>3, TargetSectionInv, PTL
=============================================================================
