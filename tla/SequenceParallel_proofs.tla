----------------------- MODULE SequenceParallel_proofs -----------------------
(***************************************************************************)
(* Machine-checked proofs about SequenceParallel, for any number of ranks, *)
(* heads, rows, blocks, sampling steps, chunks and prompts.                *)
(***************************************************************************)
EXTENDS SequenceParallel, SequenceTheorems, WellFoundedInduction, TLAPS

-----------------------------------------------------------------------------
(* Induction, sums and concatenations.                                     *)

\* Induction over the natural numbers, for a set.
LEMMA Inductive ==
  ASSUME NEW S, 0 \in S, \A n \in Nat : n \in S => n + 1 \in S
  PROVE  \A n \in Nat : n \in S
<1> DEFINE T == {n \in Nat : n \notin S}
<1> SUFFICES ASSUME T # {} PROVE FALSE
  OBVIOUS
<1>1. PICK x \in T : \A y \in T : ~(<<y, x>> \in OpToRel(<, Nat))
  BY NatLessThanWellFounded, WFMin, Zenon
<1>2. x \in Nat /\ x # 0 /\ x - 1 \in Nat /\ x - 1 < x
  OBVIOUS
<1>3. x - 1 \notin T
  BY <1>1, <1>2 DEF OpToRel
<1>4. x - 1 \in S
  BY <1>2, <1>3
<1> QED BY <1>2, <1>4

\* sum() of a prefix, one count at a time.
LEMMA Sums ==
  ASSUME NEW c \in Seq(Nat)
  PROVE  /\ SumOfFirst(c, 0) = 0
         /\ \A k \in 0..Len(c) : SumOfFirst(c, k) \in Nat
         /\ \A k \in 1..Len(c) : SumOfFirst(c, k) = SumOfFirst(c, k - 1) + c[k]
<1> DEFINE N       == Len(c)
           Upto(n) == {g \in [0..n -> Nat] :
                         g[0] = 0 /\ \A k \in 1..n : g[k] = g[k-1] + c[k]}
           S       == {n \in Nat : n <= N => Upto(n) # {}}
           f       == CHOOSE g : g = [k \in 0..N |-> IF k = 0 THEN 0 ELSE g[k-1] + c[k]]
<1>1. N \in Nat /\ \A k \in 1..N : c[k] \in Nat
  OBVIOUS
<1>2. [k \in 0..0 |-> 0] \in Upto(0)
  OBVIOUS
<1>3. ASSUME NEW n \in Nat, n + 1 <= N, NEW g \in Upto(n)
      PROVE  Upto(n + 1) # {}
  <2> DEFINE h == [k \in 0..n+1 |-> IF k = n + 1 THEN g[n] + c[n+1] ELSE g[k]]
  <2>1. h \in [0..n+1 -> Nat] /\ h[0] = 0
    BY <1>1, <1>3
  <2>2. ASSUME NEW k \in 1..n+1 PROVE h[k] = h[k-1] + c[k]
    BY <1>1, <1>3
  <2>3. h \in Upto(n + 1)
    BY <2>1, <2>2
  <2> QED BY <2>3
<1> HIDE DEF Upto, N
<1>4. \A n \in Nat : n \in S
  <2>1. 0 \in S
    BY <1>2
  <2>2. ASSUME NEW n \in Nat, n \in S PROVE n + 1 \in S
    <3> SUFFICES ASSUME n + 1 <= N PROVE Upto(n + 1) # {}
      OBVIOUS
    <3>1. PICK g : g \in Upto(n)
      BY <1>1, <2>2
    <3> QED BY <1>3, <3>1
  <2> QED BY <2>1, <2>2, Inductive
<1>5. PICK g \in [0..N -> Nat] : g[0] = 0 /\ \A k \in 1..N : g[k] = g[k-1] + c[k]
  <2>1. Upto(N) # {}
    BY <1>1, <1>4
  <2> QED BY <2>1 DEF Upto
<1>6. g = [k \in 0..N |-> IF k = 0 THEN 0 ELSE g[k-1] + c[k]]
  BY <1>1, <1>5
<1>7. f = [k \in 0..N |-> IF k = 0 THEN 0 ELSE f[k-1] + c[k]]
  BY <1>6
<1> HIDE DEF f
<1>8. f[0] = 0 /\ \A k \in 1..N : f[k] = f[k-1] + c[k]
  BY <1>1, <1>7
<1> DEFINE R == {n \in Nat : n <= N => f[n] \in Nat}
<1>9. \A n \in Nat : n \in R
  <2>1. 0 \in R
    BY <1>8
  <2>2. ASSUME NEW n \in Nat, n \in R PROVE n + 1 \in R
    <3> SUFFICES ASSUME n + 1 <= N PROVE f[n + 1] \in Nat
      OBVIOUS
    <3>1. n + 1 \in 1..N /\ f[n] \in Nat
      BY <1>1, <2>2
    <3>2. f[n + 1] = f[n + 1 - 1] + c[n + 1] /\ c[n + 1] \in Nat /\ n + 1 - 1 = n
      BY <1>1, <1>8, <3>1
    <3> QED BY <3>1, <3>2
  <2> QED BY <2>1, <2>2, Inductive
<1>10. \A k : SumOfFirst(c, k) = f[k]
  BY DEF SumOfFirst, f, N
<1>11. \A k \in 0..N : f[k] \in Nat
  BY <1>1, <1>9
<1>12. SumOfFirst(c, 0) = 0
  BY <1>8, <1>10
<1>13. \A k \in 1..N : SumOfFirst(c, k) = SumOfFirst(c, k - 1) + c[k]
  BY <1>8, <1>10
<1>14. \A k \in 0..N : SumOfFirst(c, k) \in Nat
  BY <1>10, <1>11
<1> QED BY <1>12, <1>13, <1>14 DEF N

\* The prefixes of a concatenation, one part at a time.
LEMMA Concatenations ==
  ASSUME NEW S, NEW parts \in Seq(Seq(S)), Len(parts) > 0
  PROVE  \E g \in [1..Len(parts) -> Seq(S)] :
           /\ g[1] = parts[1]
           /\ \A k \in 2..Len(parts) : g[k] = g[k-1] \o parts[k]
           /\ FlattenSeq(parts) = g[Len(parts)]
<1> DEFINE N          == Len(parts)
           Join(s, k) == s \o parts[k]
           Upto(n)    == {g \in [1..n -> Seq(S)] :
                            g[1] = parts[1] /\ \A k \in 2..n : g[k] = Join(g[k-1], k)}
           T          == {n \in Nat : n < N => Upto(n + 1) # {}}
           f          == CHOOSE g : g = [i \in 1..N |-> IF i = 1 THEN parts[i] ELSE Join(g[i-1], i)]
<1>1. N \in Nat /\ N > 0 /\ parts[1] \in Seq(S)
  OBVIOUS
<1>2. \A s \in Seq(S), k \in 1..N : Join(s, k) \in Seq(S)
  <2> TAKE s \in Seq(S), k \in 1..N
  <2>1. parts[k] \in Seq(S)
    OBVIOUS
  <2> QED BY <2>1, ConcatProperties
<1>3. FlattenSeq(parts) = f[N]
  BY <1>1 DEF FlattenSeq
<1> HIDE DEF f, N, Join
<1>4. [k \in 1..1 |-> parts[1]] \in Upto(1)
  BY <1>1
<1>5. ASSUME NEW n \in Nat, n + 2 <= N, NEW g \in Upto(n + 1)
      PROVE  Upto(n + 2) # {}
  <2> DEFINE h == [k \in 1..n+2 |-> IF k = n + 2 THEN Join(g[n+1], n + 2) ELSE g[k]]
  <2>1. Join(g[n+1], n + 2) \in Seq(S)
    BY <1>1, <1>2, <1>5
  <2>2. h \in [1..n+2 -> Seq(S)] /\ h[1] = parts[1]
    BY <1>1, <1>5, <2>1
  <2>3. ASSUME NEW k \in 2..n+2 PROVE h[k] = Join(h[k-1], k)
    <3>1. CASE k = n + 2
      BY <3>1
    <3>2. CASE k # n + 2
      <4>1. k \in 2..n+1 /\ k - 1 \in 1..n+1 /\ k - 1 # n + 2
        BY <3>2
      <4> QED BY <4>1, <3>2
    <3> QED BY <3>1, <3>2
  <2>4. h \in Upto(n + 2)
    BY <2>2, <2>3
  <2> QED BY <2>4
<1> HIDE DEF Upto
<1>6. \A n \in Nat : n \in T
  <2>1. 0 \in T
    BY <1>4
  <2>2. ASSUME NEW n \in Nat, n \in T PROVE n + 1 \in T
    <3> SUFFICES ASSUME n + 1 < N PROVE Upto(n + 1 + 1) # {}
      OBVIOUS
    <3>1. PICK g : g \in Upto(n + 1)
      BY <1>1, <2>2
    <3>2. n + 1 + 1 = n + 2 /\ n + 2 <= N
      BY <1>1
    <3> QED BY <1>5, <3>1, <3>2
  <2> QED BY <2>1, <2>2, Inductive
<1>7. PICK g \in [1..N -> Seq(S)] : g[1] = parts[1] /\ \A k \in 2..N : g[k] = Join(g[k-1], k)
  <2>1. N - 1 \in Nat /\ N - 1 + 1 = N /\ N - 1 < N
    BY <1>1
  <2>2. Upto(N) # {}
    BY <1>6, <2>1
  <2> QED BY <2>2 DEF Upto
<1>8. g = [i \in 1..N |-> IF i = 1 THEN parts[i] ELSE Join(g[i-1], i)]
  BY <1>1, <1>7
<1>9. f = [i \in 1..N |-> IF i = 1 THEN parts[i] ELSE Join(f[i-1], i)]
  BY <1>8 DEF f
<1>10. f[1] = parts[1] /\ \A k \in 2..N : f[k] = Join(f[k-1], k)
  BY <1>1, <1>9
<1> DEFINE R == {n \in Nat : n < N => f[n + 1] \in Seq(S)}
<1>11. \A n \in Nat : n \in R
  <2>1. 0 \in R
    BY <1>1, <1>10
  <2>2. ASSUME NEW n \in Nat, n \in R PROVE n + 1 \in R
    <3> SUFFICES ASSUME n + 1 < N PROVE f[n + 1 + 1] \in Seq(S)
      OBVIOUS
    <3>1. f[n + 1] \in Seq(S) /\ n + 1 + 1 \in 2..N /\ n + 1 + 1 - 1 = n + 1
      BY <1>1, <2>2
    <3>2. f[n + 1 + 1] = Join(f[n + 1], n + 1 + 1) /\ n + 1 + 1 \in 1..N
      BY <1>1, <1>10, <3>1
    <3> QED BY <1>2, <3>1, <3>2
  <2> QED BY <2>1, <2>2, Inductive
<1>12. \A k \in 1..N : f[k] \in Seq(S)
  <2> TAKE k \in 1..N
  <2>1. k - 1 \in Nat /\ k - 1 < N /\ k - 1 + 1 = k
    BY <1>1
  <2> QED BY <1>11, <2>1
<1>13. f \in [1..N -> Seq(S)]
  BY <1>9, <1>12
<1> QED BY <1>3, <1>10, <1>13 DEF N, Join

\* Prefix sums grow.
LEMMA SumsGrow ==
  ASSUME NEW c \in Seq(Nat)
  PROVE  \A j, k \in 0..Len(c) : j <= k => SumOfFirst(c, j) <= SumOfFirst(c, k)
<1> DEFINE N    == Len(c)
           f(k) == SumOfFirst(c, k)
           S(j) == {n \in Nat : j + n <= N => f(j) <= f(j + n)}
<1>1. N \in Nat /\ \A k \in 1..N : c[k] \in Nat
  OBVIOUS
<1>2. /\ \A k \in 0..N : f(k) \in Nat
      /\ \A k \in 1..N : f(k) = f(k - 1) + c[k]
  BY Sums
<1> HIDE DEF f, N
<1>3. ASSUME NEW j \in 0..N PROVE \A n \in Nat : n \in S(j)
  <2>1. 0 \in S(j)
    <3>1. j + 0 = j /\ f(j) \in Nat
      BY <1>1, <1>2
    <3> QED BY <3>1
  <2>2. ASSUME NEW n \in Nat, n \in S(j) PROVE n + 1 \in S(j)
    <3> SUFFICES ASSUME j + (n + 1) <= N PROVE f(j) <= f(j + (n + 1))
      OBVIOUS
    <3>1. /\ j + (n + 1) \in 1..N /\ j + n \in 0..N /\ j + (n + 1) - 1 = j + n
          /\ f(j) <= f(j + n)
      BY <1>1, <2>2
    <3>2. /\ f(j + (n + 1)) = f(j + n) + c[j + (n + 1)]
          /\ f(j + n) \in Nat /\ c[j + (n + 1)] \in Nat /\ f(j) \in Nat
      BY <1>1, <1>2, <3>1
    <3> QED BY <3>1, <3>2
  <2> HIDE DEF S
  <2> QED BY <2>1, <2>2, Inductive
<1>4. ASSUME NEW j \in 0..N, NEW k \in 0..N, j <= k PROVE f(j) <= f(k)
  <2>1. k - j \in Nat /\ j + (k - j) = k /\ k <= N
    BY <1>1, <1>4
  <2>2. k - j \in S(j)
    BY <1>3, <2>1
  <2> QED BY <2>1, <2>2
<1> QED BY <1>4 DEF f, N

\* Where the elements of the parts are in a concatenation.
LEMMA FlattenedParts ==
  ASSUME NEW S, NEW parts \in Seq(Seq(S)), Len(parts) > 0,
         NEW lens \in Seq(Nat), Len(lens) = Len(parts),
         \A k \in 1..Len(parts) : lens[k] = Len(parts[k])
  PROVE  /\ FlattenSeq(parts) \in Seq(S)
         /\ Len(FlattenSeq(parts)) = SumOfFirst(lens, Len(parts))
         /\ \A k \in 1..Len(parts) : \A i \in 1..lens[k] :
              FlattenSeq(parts)[SumOfFirst(lens, k - 1) + i] = parts[k][i]
<1> DEFINE N    == Len(parts)
           f(k) == SumOfFirst(lens, k)
<1>1. /\ N \in Nat /\ N > 0
      /\ \A k \in 1..N : parts[k] \in Seq(S) /\ lens[k] \in Nat /\ lens[k] = Len(parts[k])
  OBVIOUS
<1>2. /\ f(0) = 0
      /\ \A k \in 0..N : f(k) \in Nat
      /\ \A k \in 1..N : f(k) = f(k - 1) + lens[k]
      /\ \A j, k \in 0..N : j <= k => f(j) <= f(k)
  BY Sums, SumsGrow
<1>3. PICK g \in [1..N -> Seq(S)] :
        /\ g[1] = parts[1]
        /\ \A k \in 2..N : g[k] = g[k-1] \o parts[k]
        /\ FlattenSeq(parts) = g[N]
  BY Concatenations
<1> HIDE DEF f, N
<1> DEFINE Right(n) == /\ Len(g[n]) = f(n)
                       /\ \A k \in 1..n : \A i \in 1..lens[k] : g[n][f(k - 1) + i] = parts[k][i]
           T        == {n \in Nat : n < N => Right(n + 1)}
<1>4. ASSUME NEW n \in Nat, NEW m \in Nat, m = n + 1, n < N, n > 0, Right(n)
      PROVE  Right(m)
  <2>1. /\ n \in 1..N /\ n \in 0..N /\ m \in 2..N /\ m \in 1..N /\ m - 1 = n
    BY <1>1, <1>4
  <2>2. g[n] \in Seq(S) /\ parts[m] \in Seq(S) /\ g[m] = g[n] \o parts[m]
    BY <1>1, <1>3, <2>1
  <2>3. f(m) = f(n) + lens[m] /\ lens[m] = Len(parts[m]) /\ f(n) \in Nat /\ lens[m] \in Nat
    BY <1>1, <1>2, <2>1
  <2>4. /\ Len(g[m]) = Len(g[n]) + Len(parts[m])
        /\ \A i \in 1..Len(g[n]) + Len(parts[m]) :
             g[m][i] = IF i <= Len(g[n]) THEN g[n][i] ELSE parts[m][i - Len(g[n])]
    <3> DEFINE a == g[n]
               b == parts[m]
    <3>1. a \in Seq(S) /\ b \in Seq(S) /\ g[m] = a \o b
      BY <2>2
    <3> HIDE DEF a, b
    <3>2. /\ Len(a \o b) = Len(a) + Len(b)
          /\ \A i \in 1..Len(a) + Len(b) :
               (a \o b)[i] = IF i <= Len(a) THEN a[i] ELSE b[i - Len(a)]
      BY <3>1, ConcatProperties
    <3> QED BY <3>1, <3>2 DEF a, b
  <2>5. Len(g[n]) = f(n) /\ \A k \in 1..n : \A i \in 1..lens[k] : g[n][f(k - 1) + i] = parts[k][i]
    BY <1>4
  <2>6. Len(g[m]) = f(m)
    BY <2>3, <2>4, <2>5
  <2>7. \A i \in 1..f(n) + lens[m] : g[m][i] = IF i <= f(n) THEN g[n][i] ELSE parts[m][i - f(n)]
    BY <2>3, <2>4, <2>5
  <2>8. ASSUME NEW k \in 1..m, NEW i \in 1..lens[k] PROVE g[m][f(k - 1) + i] = parts[k][i]
    <3>0. i \in 1..lens[k]
      OBVIOUS
    <3>1. CASE k = m
      <4>1. /\ f(n) + i \in 1..f(n) + lens[m] /\ ~(f(n) + i <= f(n)) /\ f(n) + i - f(n) = i
        BY <2>3, <3>0, <3>1
      <4> DEFINE j == f(n) + i
      <4>0. j \in 1..f(n) + lens[m] /\ ~(j <= f(n)) /\ j - f(n) = i
        BY <2>3, <3>0, <4>1
      <4> HIDE DEF j
      <4>2. g[m][j] = parts[m][i]
        BY <2>7, <4>0
      <4>3. g[m][f(n) + i] = parts[m][i]
        BY <4>2 DEF j
      <4> QED BY <2>1, <3>1, <4>3
    <3>2. CASE k # m
      <4>1. k \in 1..n /\ k \in 1..N /\ k - 1 \in 0..N /\ k \in 0..N /\ k <= n
        BY <1>1, <1>4, <2>1, <3>2
      <4>2. f(k - 1) \in Nat /\ lens[k] \in Nat /\ f(k - 1) + lens[k] <= f(n)
        BY <1>1, <1>2, <2>1, <4>1
      <4>3. \A a, b, c, d \in Nat : \A j \in 1..b :
              a + b <= c => a + j \in 1..c + d /\ a + j <= c
        OBVIOUS
      <4>4. f(k - 1) + i \in 1..f(n) + lens[m] /\ f(k - 1) + i <= f(n)
        BY <2>3, <3>0, <4>2, <4>3
      <4> QED BY <2>5, <2>7, <3>0, <4>1, <4>4
    <3> QED BY <3>1, <3>2
  <2> QED BY <2>6, <2>8
<1>5. \A n \in Nat : n \in T
  <2>1. 0 \in T
    <3>1. f(1) = 0 + lens[1] /\ lens[1] = Len(parts[1]) /\ lens[1] \in Nat
      BY <1>1, <1>2
    <3>2. ASSUME NEW k \in 1..1, NEW i \in 1..lens[k] PROVE g[1][f(k - 1) + i] = parts[k][i]
      <4>1. k = 1 /\ f(k - 1) + i = i
        BY <1>2, <3>1
      <4> QED BY <1>3, <4>1
    <3> QED BY <1>3, <3>1, <3>2
  <2> HIDE DEF Right
  <2>2. ASSUME NEW n \in Nat, n \in T PROVE n + 1 \in T
    <3> SUFFICES ASSUME n + 1 < N PROVE Right(n + 1 + 1)
      OBVIOUS
    <3>1. Right(n + 1) /\ n + 1 \in Nat /\ n + 1 + 1 \in Nat /\ n + 1 > 0
      BY <1>1, <2>2
    <3> QED BY <1>4, <3>1
  <2> HIDE DEF T
  <2> QED BY <2>1, <2>2, Inductive
<1>6. Right(N)
  <2>1. N - 1 \in Nat /\ N - 1 < N /\ N - 1 + 1 = N
    BY <1>1
  <2> HIDE DEF Right
  <2>2. N - 1 \in T
    BY <1>5, <2>1
  <2> QED BY <2>1, <2>2
<1>7. g[N] \in Seq(S)
  BY <1>1
<1> QED BY <1>3, <1>6, <1>7 DEF N, f

\* The same, of no part at all as well.
LEMMA Flattened ==
  ASSUME NEW S, NEW parts \in Seq(Seq(S)),
         NEW lens \in Seq(Nat), Len(lens) = Len(parts),
         \A k \in 1..Len(parts) : lens[k] = Len(parts[k])
  PROVE  /\ FlattenSeq(parts) \in Seq(S)
         /\ Len(FlattenSeq(parts)) = SumOfFirst(lens, Len(parts))
         /\ \A k \in 1..Len(parts) : \A i \in 1..lens[k] :
              FlattenSeq(parts)[SumOfFirst(lens, k - 1) + i] = parts[k][i]
<1>1. CASE Len(parts) > 0
  BY <1>1, FlattenedParts
<1>2. CASE Len(parts) = 0
  <2>1. parts = << >>
    BY <1>2
  <2>2. FlattenSeq(parts) = << >>
    BY <2>1 DEF FlattenSeq
  <2>3. SumOfFirst(lens, 0) = 0
    BY Sums
  <2> QED BY <1>2, <2>2, <2>3
<1>3. Len(parts) \in Nat
  OBVIOUS
<1> QED BY <1>1, <1>2, <1>3

\* Every element of a concatenation is in one of its parts.
LEMMA Position ==
  ASSUME NEW c \in Seq(Nat)
  PROVE  \A p \in 1..SumOfFirst(c, Len(c)) :
           \E k \in 1..Len(c) : \E i \in 1..c[k] : p = SumOfFirst(c, k - 1) + i
<1> DEFINE N    == Len(c)
           f(k) == SumOfFirst(c, k)
           In(n, p) == \E k \in 1..n : \E i \in 1..c[k] : p = f(k - 1) + i
           T    == {n \in Nat : n <= N => \A p \in 1..f(n) : In(n, p)}
<1>1. N \in Nat /\ \A k \in 1..N : c[k] \in Nat
  OBVIOUS
<1>2. /\ f(0) = 0
      /\ \A k \in 0..N : f(k) \in Nat
      /\ \A k \in 1..N : f(k) = f(k - 1) + c[k]
  BY Sums
<1> HIDE DEF f, N
<1>3. 0 \in T
  BY <1>2
<1>4. ASSUME NEW n \in Nat, n \in T PROVE n + 1 \in T
  <2> SUFFICES ASSUME n + 1 <= N, NEW p \in 1..f(n + 1) PROVE In(n + 1, p)
    OBVIOUS
  <2>1. /\ n \in 0..N /\ n <= N /\ n + 1 \in 1..N /\ n + 1 - 1 = n
        /\ n + 1 \in 1..n + 1
    BY <1>1
  <2>2. f(n + 1) = f(n) + c[n + 1] /\ f(n) \in Nat /\ c[n + 1] \in Nat
    BY <1>1, <1>2, <2>1
  <2>3. CASE p <= f(n)
    <3>1. In(n, p)
      BY <1>4, <2>1, <2>2, <2>3
    <3> QED BY <3>1
  <2>4. CASE p > f(n)
    <3>1. p - f(n) \in 1..c[n + 1] /\ p = f(n + 1 - 1) + (p - f(n))
      BY <2>1, <2>2, <2>4
    <3> QED BY <2>1, <3>1
  <2> QED BY <2>2, <2>3, <2>4
<1> HIDE DEF T
<1>5. \A n \in Nat : n \in T
  BY <1>3, <1>4, Inductive
<1> QED BY <1>1, <1>5 DEF T, f, N

\* What a slice is.
LEMMA Slices ==
  ASSUME NEW S, NEW x \in Seq(S), NEW a \in Nat, NEW n \in Nat, a + n <= Len(x)
  PROVE  /\ Slice(x, a, n) \in Seq(S)
         /\ Len(Slice(x, a, n)) = n
         /\ \A i \in 1..n : Slice(x, a, n)[i] = x[a + i]
<1>1. \A i \in a + 1..a + n : x[i] \in S
  OBVIOUS
<1>2. /\ SubSeq(x, a + 1, a + n) \in Seq(S)
      /\ Len(SubSeq(x, a + 1, a + n)) = IF a + 1 <= a + n THEN a + n - (a + 1) + 1 ELSE 0
      /\ \A i \in 1..a + n - (a + 1) + 1 : SubSeq(x, a + 1, a + n)[i] = x[a + 1 + i - 1]
  BY <1>1, SubSeqProperties
<1>3. a + n - (a + 1) + 1 = n /\ (a + 1 <= a + n <=> n # 0) /\ \A i \in 1..n : a + 1 + i - 1 = a + i
  OBVIOUS
<1> QED BY <1>2, <1>3 DEF Slice

\* A family over 1..n is a sequence.
LEMMA Families ==
  ASSUME NEW T, NEW n \in Nat, NEW x, x = [k \in 1..n |-> x[k]], \A k \in 1..n : x[k] \in T
  PROVE  x \in Seq(T) /\ Len(x) = n
<1>1. x \in [1..n -> T]
  BY Zenon
<1> QED BY <1>1

\* Two sequences of the same length with the same elements.
LEMMA SameSequence ==
  ASSUME NEW S, NEW T, NEW x \in Seq(S), NEW y \in Seq(T), Len(x) = Len(y),
         \A i \in 1..Len(x) : x[i] = y[i]
  PROVE  x = y
OBVIOUS

\* A part of a concatenation is where the lengths before it end.
LEMMA Cut ==
  ASSUME NEW S, NEW parts \in Seq(Seq(S)),
         NEW lens \in Seq(Nat), Len(lens) = Len(parts),
         \A k \in 1..Len(parts) : lens[k] = Len(parts[k]),
         NEW k \in 1..Len(parts)
  PROVE  Slice(FlattenSeq(parts), SumOfFirst(lens, k - 1), lens[k]) = parts[k]
<1> DEFINE flat == FlattenSeq(parts)
           off  == SumOfFirst(lens, k - 1)
<1>1. /\ k \in 1..Len(lens) /\ k - 1 \in 0..Len(lens) /\ k \in 0..Len(lens)
      /\ Len(lens) \in 0..Len(lens) /\ k <= Len(lens)
      /\ lens[k] \in Nat /\ parts[k] \in Seq(S) /\ lens[k] = Len(parts[k])
  OBVIOUS
<1>2. /\ flat \in Seq(S)
      /\ Len(flat) = SumOfFirst(lens, Len(lens))
      /\ \A i \in 1..lens[k] : flat[off + i] = parts[k][i]
  BY Flattened
<1>3. off \in Nat /\ off + lens[k] = SumOfFirst(lens, k) /\ SumOfFirst(lens, k) <= SumOfFirst(lens, Len(lens))
  BY <1>1, Sums, SumsGrow
<1> HIDE DEF flat, off
<1>4. /\ Slice(flat, off, lens[k]) \in Seq(S)
      /\ Len(Slice(flat, off, lens[k])) = lens[k]
      /\ \A i \in 1..lens[k] : Slice(flat, off, lens[k])[i] = flat[off + i]
  <2> DEFINE b == lens[k]
  <2>1. off + b <= Len(flat) /\ b \in Nat
    BY <1>1, <1>2, <1>3, Sums
  <2> HIDE DEF b
  <2>2. /\ Slice(flat, off, b) \in Seq(S)
        /\ Len(Slice(flat, off, b)) = b
        /\ \A i \in 1..b : Slice(flat, off, b)[i] = flat[off + i]
    <3>1. flat \in Seq(S) /\ off \in Nat
      BY <1>2, <1>3
    <3> QED BY ONLY <3>1, <2>1, Slices
  <2> QED BY <2>2 DEF b
<1> DEFINE cut == Slice(flat, off, lens[k])
<1> HIDE DEF cut
<1>5. cut \in Seq(S) /\ Len(cut) = Len(parts[k]) /\ \A i \in 1..Len(cut) : cut[i] = parts[k][i]
  BY <1>1, <1>2, <1>4 DEF cut
<1>6. cut = parts[k]
  BY <1>1, <1>5, SameSequence
<1> QED BY <1>6 DEF cut, flat, off

\* A sequence cut into consecutive slices and put together again.
THEOREM Reassembled ==
  ASSUME NEW S, NEW x \in Seq(S), NEW lens \in Seq(Nat),
         SumOfFirst(lens, Len(lens)) = Len(x)
  PROVE  FlattenSeq([k \in 1..Len(lens) |-> Slice(x, SumOfFirst(lens, k - 1), lens[k])]) = x
<1> DEFINE N     == Len(lens)
           f(k)  == SumOfFirst(lens, k)
           parts == [k \in 1..N |-> Slice(x, f(k - 1), lens[k])]
           flat  == FlattenSeq(parts)
<1>1. N \in Nat /\ (\A k \in 1..N : lens[k] \in Nat) /\ Len(x) \in Nat
  OBVIOUS
<1>2. /\ \A k \in 0..N : f(k) \in Nat
      /\ \A k \in 1..N : f(k) = f(k - 1) + lens[k]
      /\ \A j, k \in 0..N : j <= k => f(j) <= f(k)
      /\ f(N) = Len(x)
  BY Sums, SumsGrow
<1>3. \A p \in 1..Len(x) : \E k \in 1..N : \E i \in 1..lens[k] : p = f(k - 1) + i
  BY Position
<1> HIDE DEF f
<1>4. ASSUME NEW k \in 1..N
      PROVE  /\ parts[k] \in Seq(S) /\ Len(parts[k]) = lens[k]
             /\ \A i \in 1..lens[k] : parts[k][i] = x[f(k - 1) + i]
  <2> DEFINE a == f(k - 1)
             n == lens[k]
  <2>1. k - 1 \in 0..N /\ k \in 0..N /\ N \in 0..N /\ k <= N
    BY <1>1
  <2>2. x \in Seq(S) /\ a \in Nat /\ n \in Nat /\ a + n <= Len(x)
    BY <1>1, <1>2, <2>1
  <2> HIDE DEF a, n
  <2>3. /\ Slice(x, a, n) \in Seq(S) /\ Len(Slice(x, a, n)) = n
        /\ \A i \in 1..n : Slice(x, a, n)[i] = x[a + i]
    BY ONLY <2>2, Slices
  <2> QED BY <2>3 DEF a, n
<1>5. parts \in Seq(Seq(S)) /\ Len(parts) = N
  <2>1. parts \in [1..N -> Seq(S)]
    BY <1>4
  <2> QED BY <1>1, <2>1
<1> HIDE DEF parts
<1>6. /\ flat \in Seq(S)
      /\ Len(flat) = f(N)
      /\ \A k \in 1..N : \A i \in 1..lens[k] : flat[f(k - 1) + i] = parts[k][i]
  <2>1. \A k \in 1..Len(parts) : lens[k] = Len(parts[k])
    BY <1>4, <1>5
  <2>2. Len(lens) = Len(parts)
    BY <1>5
  <2>3. /\ FlattenSeq(parts) \in Seq(S)
        /\ Len(FlattenSeq(parts)) = SumOfFirst(lens, Len(parts))
        /\ \A k \in 1..Len(parts) : \A i \in 1..lens[k] :
             FlattenSeq(parts)[SumOfFirst(lens, k - 1) + i] = parts[k][i]
    BY <1>5, <2>1, <2>2, Flattened
  <2> QED BY <1>5, <2>3 DEF f
<1> HIDE DEF flat, N
<1>7. Len(flat) = Len(x)
  BY <1>2, <1>6
<1>8. ASSUME NEW p \in 1..Len(x) PROVE flat[p] = x[p]
  <2>0. PICK k \in 1..N : \E i \in 1..lens[k] : p = f(k - 1) + i
    BY <1>3
  <2>1. PICK i \in 1..lens[k] : p = f(k - 1) + i
    BY <2>0
  <2>2. flat[p] = parts[k][i]
    BY <1>6, <2>1
  <2>3. parts[k][i] = x[p]
    BY <1>4, <2>1
  <2> QED BY <2>2, <2>3
<1>9. flat = x
  BY <1>6, <1>7, <1>8, SameSequence
<1> QED BY <1>9 DEF flat, parts, f, N

\* The sum of equal counts.
LEMMA EqualSums ==
  ASSUME NEW n \in Nat, NEW m \in Nat
  PROVE  /\ [k \in 1..n |-> m] \in Seq(Nat)
         /\ \A k \in 0..n : SumOfFirst([j \in 1..n |-> m], k) = k * m
<1> DEFINE c    == [k \in 1..n |-> m]
           f(k) == SumOfFirst(c, k)
           T    == {k \in Nat : k <= n => f(k) = k * m}
<1>1. c \in Seq(Nat) /\ Len(c) = n /\ \A k \in 1..n : c[k] = m
  OBVIOUS
<1> HIDE DEF c
<1>2. /\ f(0) = 0
      /\ \A k \in 0..n : f(k) \in Nat
      /\ \A k \in 1..n : f(k) = f(k - 1) + c[k]
  BY <1>1, Sums
<1> HIDE DEF f
<1>3. 0 \in T
  BY <1>2
<1>4. ASSUME NEW k \in Nat, k \in T PROVE k + 1 \in T
  <2> SUFFICES ASSUME k + 1 <= n PROVE f(k + 1) = (k + 1) * m
    OBVIOUS
  <2>1. k + 1 \in 1..n /\ (k + 1) - 1 = k /\ f(k) = k * m
    BY <1>4
  <2>2. f(k + 1) = f(k) + m
    BY <1>1, <1>2, <2>1
  <2>3. (k + 1) * m = k * m + m
    OBVIOUS
  <2> QED BY <2>1, <2>2, <2>3
<1> HIDE DEF T
<1>5. \A k \in Nat : k \in T
  BY <1>3, <1>4, Inductive
<1> QED BY <1>1, <1>5 DEF T, f, c

\* The same, of counts with a name.
LEMMA EqualCounts ==
  ASSUME NEW n \in Nat, NEW m \in Nat
  PROVE  \E even \in Seq(Nat) :
           /\ Len(even) = n
           /\ \A k \in 1..n : even[k] = m
           /\ \A k \in 0..n : SumOfFirst(even, k) = k * m
<1> DEFINE even == [k \in 1..n |-> m]
<1>1. even \in Seq(Nat) /\ \A k \in 0..n : SumOfFirst(even, k) = k * m
  BY EqualSums
<1>2. Len(even) = n
  OBVIOUS
<1>3. \A k \in 1..n : even[k] = m
  OBVIOUS
<1> HIDE DEF even
<1> QED BY <1>1, <1>2, <1>3

\* The sum of counts that are all scaled.
LEMMA ScaledSums ==
  ASSUME NEW c \in Seq(Nat), NEW m \in Nat
  PROVE  /\ [j \in 1..Len(c) |-> c[j] * m] \in Seq(Nat)
         /\ \A k \in 0..Len(c) :
              SumOfFirst([j \in 1..Len(c) |-> c[j] * m], k) = SumOfFirst(c, k) * m
<1> DEFINE n    == Len(c)
           e    == [j \in 1..n |-> c[j] * m]
           f(k) == SumOfFirst(c, k)
           g(k) == SumOfFirst(e, k)
           T    == {k \in Nat : k <= n => g(k) = f(k) * m}
<1>0. n \in Nat /\ \A k \in 1..n : c[k] \in Nat
  OBVIOUS
<1>1. e \in Seq(Nat) /\ Len(e) = n /\ \A k \in 1..n : e[k] = c[k] * m
  <2>1. \A k \in 1..n : c[k] * m \in Nat
    BY <1>0
  <2> QED BY <1>0, <2>1
<1> HIDE DEF e
<1>2. /\ f(0) = 0 /\ g(0) = 0
      /\ \A k \in 0..n : f(k) \in Nat
      /\ \A k \in 1..n : f(k) = f(k - 1) + c[k]
      /\ \A k \in 1..n : g(k) = g(k - 1) + e[k]
  BY <1>1, Sums
<1> HIDE DEF f, g, n
<1>3. 0 \in T
  BY <1>2
<1>4. ASSUME NEW k \in Nat, k \in T PROVE k + 1 \in T
  <2> SUFFICES ASSUME k + 1 <= n PROVE g(k + 1) = f(k + 1) * m
    OBVIOUS
  <2>1. k + 1 \in 1..n /\ (k + 1) - 1 = k /\ g(k) = f(k) * m /\ k \in 0..n
    BY <1>0, <1>4
  <2>2. g(k + 1) = g(k) + c[k + 1] * m /\ f(k + 1) = f(k) + c[k + 1]
    BY <1>1, <1>2, <2>1
  <2>3. f(k) \in Nat /\ c[k + 1] \in Nat
    BY <1>0, <1>2, <2>1
  <2>4. (f(k) + c[k + 1]) * m = f(k) * m + c[k + 1] * m
    BY <2>3
  <2> QED BY <2>1, <2>2, <2>4
<1> HIDE DEF T
<1>5. \A k \in Nat : k \in T
  BY <1>3, <1>4, Inductive
<1> QED BY <1>0, <1>1, <1>5 DEF T, f, g, e, n

\* The elements of n parts of one length m.
LEMMA UniformPosition ==
  ASSUME NEW n \in Nat, NEW m \in Nat
  PROVE  \A j \in 1..n * m : \E k \in 1..n : \E i \in 1..m : j = (k - 1) * m + i
<1> DEFINE lens == [k \in 1..n |-> m]
           f(k) == SumOfFirst(lens, k)
<1>1. lens \in Seq(Nat) /\ Len(lens) = n /\ \A k \in 1..n : lens[k] = m
  OBVIOUS
<1>2. \A k \in 0..n : f(k) = k * m
  BY EqualSums
<1> HIDE DEF lens
<1>3. \A p \in 1..f(n) : \E k \in 1..n : \E i \in 1..lens[k] : p = f(k - 1) + i
  BY <1>1, Position
<1> HIDE DEF f
<1>4. ASSUME NEW j \in 1..n * m
      PROVE  \E k \in 1..n : \E i \in 1..m : j = (k - 1) * m + i
  <2>1. f(n) = n * m
    BY <1>2
  <2>2. PICK k \in 1..n : \E i \in 1..lens[k] : j = f(k - 1) + i
    BY <1>3, <2>1
  <2>3. lens[k] = m
    BY <1>1
  <2>4. k - 1 \in 0..n
    OBVIOUS
  <2>5. f(k - 1) = (k - 1) * m
    BY <1>2, <2>4
  <2> QED BY <2>2, <2>3, <2>5
<1> QED BY <1>4

\* The concatenation of parts of one length.
LEMMA UniformParts ==
  ASSUME NEW S, NEW parts \in Seq(Seq(S)), NEW m \in Nat,
         \A k \in 1..Len(parts) : Len(parts[k]) = m
  PROVE  /\ FlattenSeq(parts) \in Seq(S)
         /\ Len(FlattenSeq(parts)) = Len(parts) * m
         /\ \A k \in 1..Len(parts) : \A i \in 1..m :
              FlattenSeq(parts)[(k - 1) * m + i] = parts[k][i]
<1> DEFINE N    == Len(parts)
           lens == [k \in 1..N |-> m]
           f(k) == SumOfFirst(lens, k)
<1>1. N \in Nat /\ lens \in Seq(Nat) /\ Len(lens) = N /\ \A k \in 1..N : lens[k] = m
  OBVIOUS
<1>2. \A k \in 0..N : f(k) = k * m
  BY <1>1, EqualSums
<1>3. ASSUME NEW k \in 1..N PROVE f(k - 1) = (k - 1) * m
  <2>1. k - 1 \in 0..N
    BY <1>1
  <2> HIDE DEF f
  <2> QED BY <1>2, <2>1
<1> HIDE DEF lens
<1>4. /\ FlattenSeq(parts) \in Seq(S)
      /\ Len(FlattenSeq(parts)) = f(N)
      /\ \A k \in 1..N : \A i \in 1..lens[k] : FlattenSeq(parts)[f(k - 1) + i] = parts[k][i]
  <2>1. /\ lens \in Seq(Nat) /\ Len(lens) = Len(parts)
        /\ \A k \in 1..Len(parts) : lens[k] = Len(parts[k])
    BY <1>1
  <2>2. parts \in Seq(Seq(S))
    OBVIOUS
  <2> QED BY ONLY <2>1, <2>2, Flattened
<1> HIDE DEF f, N
<1>6. f(N) = N * m
  BY <1>1, <1>2
<1>7. ASSUME NEW k \in 1..N, NEW i \in 1..m
      PROVE  FlattenSeq(parts)[(k - 1) * m + i] = parts[k][i]
  <2>1. lens[k] = m
    BY <1>1
  <2>2. FlattenSeq(parts)[f(k - 1) + i] = parts[k][i]
    BY <1>4, <2>1
  <2>3. f(k - 1) = (k - 1) * m
    BY <1>3
  <2> QED BY <2>2, <2>3
<1> QED BY <1>4, <1>6, <1>7 DEF N

\* The slice of a concatenation of parts of one length, at a border of theirs.
LEMMA UniformSlice ==
  ASSUME NEW S, NEW parts \in Seq(Seq(S)), NEW m \in Nat,
         \A k \in 1..Len(parts) : Len(parts[k]) = m,
         NEW a \in Nat, NEW n \in Nat, a + n <= Len(parts)
  PROVE  Slice(FlattenSeq(parts), a * m, n * m) = FlattenSeq(Slice(parts, a, n))
<1> DEFINE N    == Len(parts)
           some == Slice(parts, a, n)
           flat == FlattenSeq(parts)
           cut  == Slice(flat, a * m, n * m)
           want == FlattenSeq(some)
<1>1. /\ some \in Seq(Seq(S)) /\ Len(some) = n
      /\ \A k \in 1..n : some[k] = parts[a + k]
  <2>1. parts \in Seq(Seq(S)) /\ a \in Nat /\ n \in Nat /\ a + n <= Len(parts)
    OBVIOUS
  <2> QED BY ONLY <2>1, Slices
<1>2. \A k \in 1..n : a + k \in 1..N /\ a + k - 1 = a + (k - 1)
  OBVIOUS
<1>3. /\ flat \in Seq(S)
      /\ Len(flat) = N * m
      /\ \A k \in 1..N : \A i \in 1..m : flat[(k - 1) * m + i] = parts[k][i]
  BY UniformParts
<1> HIDE DEF some, flat
<1>4. \A k \in 1..Len(some) : Len(some[k]) = m
  BY <1>1, <1>2
<1>5. /\ want \in Seq(S)
      /\ Len(want) = n * m
      /\ \A k \in 1..n : \A i \in 1..m : want[(k - 1) * m + i] = some[k][i]
  <2>1. some \in Seq(Seq(S)) /\ m \in Nat
    BY <1>1
  <2>2. FlattenSeq(some) \in Seq(S)
    BY ONLY <1>4, <2>1, UniformParts
  <2>3. Len(FlattenSeq(some)) = Len(some) * m
    BY ONLY <1>4, <2>1, UniformParts
  <2>4. \A k \in 1..Len(some) : \A i \in 1..m : FlattenSeq(some)[(k - 1) * m + i] = some[k][i]
    BY ONLY <1>4, <2>1, UniformParts
  <2> QED BY <1>1, <2>2, <2>3, <2>4
<1>6. a * m \in Nat /\ n * m \in Nat /\ a * m + n * m <= Len(flat)
  <2>1. N \in Nat /\ N - (a + n) \in Nat
    OBVIOUS
  <2>2. (N - (a + n)) * m \in Nat /\ a * m \in Nat /\ n * m \in Nat
    BY <2>1
  <2>3. N * m = (N - (a + n)) * m + a * m + n * m
    BY <2>1
  <2> QED BY <1>3, <2>2, <2>3
<1>7. /\ cut \in Seq(S) /\ Len(cut) = n * m
      /\ \A j \in 1..n * m : cut[j] = flat[a * m + j]
  <2>1. flat \in Seq(S)
    BY <1>3
  <2> QED BY ONLY <1>6, <2>1, Slices
<1> HIDE DEF want, cut, N
<1>8. ASSUME NEW j \in 1..n * m PROVE cut[j] = want[j]
  <2>1. PICK k \in 1..n : \E i \in 1..m : j = (k - 1) * m + i
    BY UniformPosition
  <2>2. PICK i \in 1..m : j = (k - 1) * m + i
    BY <2>1
  <2>3. want[j] = parts[a + k][i]
    <3>1. want[(k - 1) * m + i] = some[k][i]
      BY <1>5
    <3>2. some[k] = parts[a + k]
      BY <1>1
    <3> QED BY <2>2, <3>1, <3>2
  <2>4. flat[(a + k - 1) * m + i] = parts[a + k][i]
    <3>1. a + k \in 1..N
      BY <1>2
    <3> QED BY <1>3, <3>1
  <2>5. a * m + j = (a + k - 1) * m + i
    <3>1. k - 1 \in Nat
      OBVIOUS
    <3>2. (a + (k - 1)) * m = a * m + (k - 1) * m
      BY <3>1
    <3>3. (k - 1) * m \in Nat /\ i \in Nat
      BY <3>1
    <3> QED BY <1>2, <1>6, <2>2, <3>2, <3>3
  <2> QED BY <1>7, <2>3, <2>4, <2>5
<1>9. cut = want
  BY <1>5, <1>7, <1>8, SameSequence
<1> QED BY <1>9 DEF cut, want, flat, some

\* A concatenation of parts of one length, viewed as those parts again.
LEMMA UniformView ==
  ASSUME NEW S, NEW parts \in Seq(Seq(S)), NEW m \in Nat,
         \A k \in 1..Len(parts) : Len(parts[k]) = m
  PROVE  View(FlattenSeq(parts), Len(parts), m) = parts
<1> DEFINE N    == Len(parts)
           lens == [k \in 1..N |-> m]
<1>1. N \in Nat /\ lens \in Seq(Nat) /\ Len(lens) = N /\ \A k \in 1..N : lens[k] = m
  OBVIOUS
<1>2. ASSUME NEW k \in 1..N PROVE SumOfFirst(lens, k - 1) = (k - 1) * m
  <2>1. \A j \in 0..N : SumOfFirst(lens, j) = j * m
    BY <1>1, EqualSums
  <2>2. k - 1 \in 0..N
    BY <1>1
  <2> HIDE DEF lens
  <2> QED BY <2>1, <2>2
<1> HIDE DEF lens
<1>3. ASSUME NEW k \in 1..N PROVE Slice(FlattenSeq(parts), (k - 1) * m, m) = parts[k]
  <2>1. Slice(FlattenSeq(parts), SumOfFirst(lens, k - 1), lens[k]) = parts[k]
    BY <1>1, Cut
  <2> QED BY <1>1, <1>2, <2>1
<1> QED BY <1>1, <1>3 DEF View

\* The lengths of the shards of a sequence, which add up to it.
LEMMA ShardSums ==
  ASSUME NEW total \in Nat, NEW w \in Nat \ {0}
  PROVE  /\ ShardLengths(total, w) \in Seq(Nat)
         /\ Len(ShardLengths(total, w)) = w
         /\ SumOfFirst(ShardLengths(total, w), w) = total
<1> DEFINE q    == total \div w
           rest == total % w
           c    == ShardLengths(total, w)
           f(k) == SumOfFirst(c, k)
           most(k) == IF k <= rest THEN k ELSE rest
           T    == {k \in Nat : k <= w => f(k) = k * q + most(k)}
<1>1. q \in Nat /\ rest \in 0..w - 1 /\ total = w * q + rest
  OBVIOUS
<1>2. /\ c \in Seq(Nat) /\ Len(c) = w
      /\ \A k \in 1..w : c[k] = q + (IF k <= rest THEN 1 ELSE 0)
  BY <1>1 DEF ShardLengths
<1> HIDE DEF c, q, rest
<1>3. /\ f(0) = 0
      /\ \A k \in 0..w : f(k) \in Nat
      /\ \A k \in 1..w : f(k) = f(k - 1) + c[k]
  BY <1>2, Sums
<1> HIDE DEF f
<1>4. 0 \in T
  BY <1>1, <1>3
<1>5. ASSUME NEW k \in Nat, k \in T PROVE k + 1 \in T
  <2> SUFFICES ASSUME k + 1 <= w PROVE f(k + 1) = (k + 1) * q + most(k + 1)
    OBVIOUS
  <2>1. k + 1 \in 1..w /\ (k + 1) - 1 = k /\ f(k) = k * q + most(k)
    BY <1>5
  <2>2. f(k + 1) = f(k) + (q + (IF k + 1 <= rest THEN 1 ELSE 0))
    BY <1>2, <1>3, <2>1
  <2>3. (k + 1) * q = k * q + q /\ k * q \in Nat
    BY <1>1
  <2>4. most(k) + (IF k + 1 <= rest THEN 1 ELSE 0) = most(k + 1) /\ most(k) \in Nat
    BY <1>1
  <2> DEFINE kq == k * q
             kq1 == (k + 1) * q
             mk == most(k)
             mk1 == most(k + 1)
             one == IF k + 1 <= rest THEN 1 ELSE 0
  <2>5. one \in Nat
    OBVIOUS
  <2> HIDE DEF kq, kq1, mk, mk1, one
  <2>6. f(k + 1) = kq1 + mk1
    BY <1>1, <2>1, <2>2, <2>3, <2>4, <2>5 DEF kq, kq1, mk, mk1, one
  <2> QED BY <2>6 DEF kq1, mk1
<1> HIDE DEF T
<1>6. \A k \in Nat : k \in T
  BY <1>4, <1>5, Inductive
<1>7. f(w) = w * q + rest
  BY <1>1, <1>6 DEF T
<1> QED BY <1>1, <1>2, <1>7 DEF f, c

-----------------------------------------------------------------------------
(* The two exchanges, of any matrix of rows by heads.                      *)

\* The rows of rank r, when the shards have these lengths.
OwnPart(x, lengths, r) == Slice(x, Start(lengths, r), lengths[r])
\* The columns of rank r, when every rank has m of them.
HeadsPart(x, m, r)     == [t \in 1..Len(x) |-> Slice(x[t], (r - 1) * m, m)]
\* What both have in common, flat: what src sends to dst before the attention,
\* and dst sends back to src after it.
Packet(x, lengths, m, src, dst) == FlattenSeq(HeadsPart(OwnPart(x, lengths, src), m, dst))

\* x has rows of w times m cells, and its w shards these lengths.
Divided(S, x, lengths, w, m) ==
  /\ x \in Seq(Seq(S)) /\ w \in Nat \ {0} /\ m \in Nat
  /\ \A t \in 1..Len(x) : Len(x[t]) = w * m
  /\ lengths \in Seq(Nat) /\ Len(lengths) = w /\ SumOfFirst(lengths, w) = Len(x)

\* A shard is consecutive rows.
Consecutive(S, x, lengths, r) ==
  /\ OwnPart(x, lengths, r) \in Seq(S)
  /\ Len(OwnPart(x, lengths, r)) = lengths[r]
  /\ \A i \in 1..lengths[r] : OwnPart(x, lengths, r)[i] = x[Start(lengths, r) + i]
  /\ \A i \in 1..lengths[r] : Start(lengths, r) + i \in 1..Len(x)
  /\ Start(lengths, r) \in Nat /\ lengths[r] \in Nat
  /\ Start(lengths, r) + lengths[r] = Start(lengths, r + 1)
  /\ Start(lengths, r) + lengths[r] <= Len(x)

\* When the lengths add up to x, every shard of it is.
LEMMA OwnParts ==
  ASSUME NEW S, NEW x \in Seq(S), NEW lengths \in Seq(Nat),
         SumOfFirst(lengths, Len(lengths)) = Len(x), NEW r \in 1..Len(lengths)
  PROVE  Consecutive(S, x, lengths, r)
<1> DEFINE a == SumOfFirst(lengths, r - 1)
           n == lengths[r]
<1>1. /\ r - 1 \in 0..Len(lengths) /\ r \in 0..Len(lengths) /\ Len(lengths) \in 0..Len(lengths)
      /\ r <= Len(lengths) /\ (r + 1) - 1 = r /\ r \in 1..Len(lengths)
  OBVIOUS
<1>2. /\ a \in Nat /\ n \in Nat /\ a + n = SumOfFirst(lengths, r)
      /\ SumOfFirst(lengths, r) <= Len(x)
  BY <1>1, Sums, SumsGrow
<1>3. x \in Seq(S) /\ a + n <= Len(x) /\ Len(x) \in Nat
  BY <1>2
<1>4. Start(lengths, r) = a /\ Start(lengths, r + 1) = SumOfFirst(lengths, r)
  BY <1>1 DEF Start
<1> HIDE DEF a, n
<1>5. /\ Slice(x, a, n) \in Seq(S) /\ Len(Slice(x, a, n)) = n
      /\ \A i \in 1..n : Slice(x, a, n)[i] = x[a + i]
  BY ONLY <1>2, <1>3, Slices
<1>6. \A i \in 1..n : a + i \in 1..Len(x)
  BY <1>2, <1>3
<1> QED BY <1>2, <1>3, <1>4, <1>5, <1>6 DEF Consecutive, OwnPart, n

\* A rank's columns of every row.
Columns(S, x, m, r) ==
  /\ HeadsPart(x, m, r) \in Seq(Seq(S))
  /\ Len(HeadsPart(x, m, r)) = Len(x)
  /\ \A t \in 1..Len(x) : HeadsPart(x, m, r)[t] = Slice(x[t], (r - 1) * m, m)
  /\ \A t \in 1..Len(x) : Len(HeadsPart(x, m, r)[t]) = m
  /\ \A t \in 1..Len(x) : \A j \in 1..m : HeadsPart(x, m, r)[t][j] = x[t][(r - 1) * m + j]

\* When the ranks' columns are all there are, every rank's are columns.
LEMMA HeadsParts ==
  ASSUME NEW S, NEW x \in Seq(Seq(S)), NEW w \in Nat, NEW m \in Nat,
         \A t \in 1..Len(x) : Len(x[t]) = w * m, NEW r \in 1..w
  PROVE  Columns(S, x, m, r)
<1> DEFINE a == (r - 1) * m
<1>1. a \in Nat /\ a + m <= w * m
  <2>1. r - 1 \in Nat /\ w - r \in Nat
    OBVIOUS
  <2>2. a \in Nat /\ (w - r) * m \in Nat
    BY <2>1
  <2>3. w * m = (w - r) * m + (r - 1) * m + m
    BY <2>1
  <2> QED BY <2>2, <2>3
<1> HIDE DEF a
<1>2. ASSUME NEW t \in 1..Len(x)
      PROVE  /\ Slice(x[t], a, m) \in Seq(S)
             /\ Len(Slice(x[t], a, m)) = m
             /\ \A j \in 1..m : Slice(x[t], a, m)[j] = x[t][a + j]
  <2> DEFINE y == x[t]
  <2>1. y \in Seq(S) /\ a \in Nat /\ m \in Nat /\ a + m <= Len(y)
    BY <1>1
  <2> HIDE DEF y
  <2>2. /\ Slice(y, a, m) \in Seq(S)
        /\ Len(Slice(y, a, m)) = m
        /\ \A j \in 1..m : Slice(y, a, m)[j] = y[a + j]
    BY ONLY <2>1, Slices
  <2> QED BY <2>2 DEF y
<1>3. HeadsPart(x, m, r) = [t \in 1..Len(x) |-> Slice(x[t], a, m)]
  BY DEF HeadsPart, a
<1> DEFINE part == HeadsPart(x, m, r)
<1> HIDE DEF part
<1>4. part \in Seq(Seq(S)) /\ Len(part) = Len(x) /\ \A t \in 1..Len(x) : part[t] = Slice(x[t], a, m)
  BY <1>2, <1>3 DEF part
<1>5. ASSUME NEW t \in 1..Len(x)
      PROVE  Len(part[t]) = m /\ \A j \in 1..m : part[t][j] = x[t][a + j]
  BY <1>2, <1>4
<1> QED BY <1>4, <1>5 DEF Columns, part, a

\* Rows of columns are columns of rows.
LEMMA PartsCommute ==
  ASSUME NEW S, NEW x, NEW lengths, NEW w, NEW m, Divided(S, x, lengths, w, m),
         NEW r \in 1..w, NEW h \in 1..w
  PROVE  OwnPart(HeadsPart(x, m, h), lengths, r) = HeadsPart(OwnPart(x, lengths, r), m, h)
<1> DEFINE y == HeadsPart(x, m, h)
           z == OwnPart(x, lengths, r)
           n == lengths[r]
           a == Start(lengths, r)
<1>1. /\ y \in Seq(Seq(S)) /\ Len(y) = Len(x)
      /\ \A t \in 1..Len(x) : y[t] = Slice(x[t], (h - 1) * m, m)
  <2>1. x \in Seq(Seq(S)) /\ w \in Nat /\ m \in Nat /\ \A t \in 1..Len(x) : Len(x[t]) = w * m
    BY DEF Divided
  <2>2. Columns(S, x, m, h)
    BY <2>1, HeadsParts
  <2> QED BY <2>2 DEF Columns
<1>2. /\ lengths \in Seq(Nat) /\ Len(lengths) = w /\ SumOfFirst(lengths, Len(lengths)) = Len(x)
      /\ r \in 1..Len(lengths) /\ x \in Seq(Seq(S))
  BY DEF Divided
<1>3. /\ z \in Seq(Seq(S)) /\ Len(z) = n
      /\ \A i \in 1..n : z[i] = x[a + i]
      /\ \A i \in 1..n : a + i \in 1..Len(x)
  <2>1. Consecutive(Seq(S), x, lengths, r)
    BY ONLY <1>2, OwnParts
  <2> QED BY <2>1 DEF Consecutive
<1>4. SumOfFirst(lengths, Len(lengths)) = Len(y)
  BY <1>1, <1>2
<1> HIDE DEF y
<1>5. /\ OwnPart(y, lengths, r) \in Seq(Seq(S))
      /\ Len(OwnPart(y, lengths, r)) = n
      /\ \A i \in 1..n : OwnPart(y, lengths, r)[i] = y[a + i]
  <2>1. y \in Seq(Seq(S))
    BY <1>1
  <2>2. Consecutive(Seq(S), y, lengths, r)
    BY ONLY <1>2, <1>4, <2>1, OwnParts
  <2> QED BY <2>2 DEF Consecutive
<1> DEFINE left == OwnPart(y, lengths, r)
<1>6. HeadsPart(z, m, h) = [i \in 1..Len(z) |-> Slice(z[i], (h - 1) * m, m)]
  BY DEF HeadsPart
<1> HIDE DEF left, z, n, a
<1>7. \A i \in 1..n : left[i] = Slice(z[i], (h - 1) * m, m)
  BY <1>1, <1>3, <1>5 DEF left
<1>8. left = [i \in 1..n |-> left[i]]
  BY <1>5 DEF left
<1>9. left = HeadsPart(z, m, h)
  BY <1>3, <1>6, <1>7, <1>8
<1> QED BY <1>9 DEF left, y, z

\* A packet is the cells of some rows and some columns.
LEMMA Packets ==
  ASSUME NEW S, NEW x, NEW lengths, NEW w, NEW m, Divided(S, x, lengths, w, m),
         NEW src \in 1..w, NEW dst \in 1..w
  PROVE  /\ HeadsPart(OwnPart(x, lengths, src), m, dst) \in Seq(Seq(S))
         /\ Len(HeadsPart(OwnPart(x, lengths, src), m, dst)) = lengths[src]
         /\ \A i \in 1..lengths[src] : Len(HeadsPart(OwnPart(x, lengths, src), m, dst)[i]) = m
         /\ Packet(x, lengths, m, src, dst) \in Seq(S)
         /\ Len(Packet(x, lengths, m, src, dst)) = lengths[src] * m
         /\ View(Packet(x, lengths, m, src, dst), lengths[src], m)
              = HeadsPart(OwnPart(x, lengths, src), m, dst)
<1> DEFINE z    == OwnPart(x, lengths, src)
           n    == lengths[src]
           part == HeadsPart(z, m, dst)
<1>1. /\ lengths \in Seq(Nat) /\ Len(lengths) = w /\ SumOfFirst(lengths, Len(lengths)) = Len(x)
      /\ src \in 1..Len(lengths) /\ x \in Seq(Seq(S))
  BY DEF Divided
<1>2. /\ z \in Seq(Seq(S)) /\ Len(z) = n /\ n \in Nat
      /\ \A i \in 1..n : z[i] = x[Start(lengths, src) + i]
      /\ \A i \in 1..n : Start(lengths, src) + i \in 1..Len(x)
  <2>1. Consecutive(Seq(S), x, lengths, src)
    BY ONLY <1>1, OwnParts
  <2> QED BY <2>1 DEF Consecutive
<1> HIDE DEF z, n
<1>3. \A i \in 1..Len(z) : Len(z[i]) = w * m
  BY <1>2 DEF Divided
<1>4. w \in Nat /\ m \in Nat /\ z \in Seq(Seq(S)) /\ dst \in 1..w
  BY <1>2 DEF Divided
<1>5. /\ part \in Seq(Seq(S)) /\ Len(part) = Len(z)
      /\ \A i \in 1..Len(z) : Len(part[i]) = m
  <2>1. Columns(S, z, m, dst)
    BY ONLY <1>3, <1>4, HeadsParts
  <2> QED BY <2>1 DEF Columns
<1> HIDE DEF part
<1>6. \A i \in 1..Len(part) : Len(part[i]) = m
  BY <1>5
<1>7. part \in Seq(Seq(S)) /\ m \in Nat
  BY <1>4, <1>5
<1>8. FlattenSeq(part) \in Seq(S) /\ Len(FlattenSeq(part)) = Len(part) * m
  BY ONLY <1>6, <1>7, UniformParts
<1>9. View(FlattenSeq(part), Len(part), m) = part
  BY ONLY <1>6, <1>7, UniformView
<1> QED BY <1>2, <1>5, <1>8, <1>9 DEF part, z, n, Packet

\* Before the attention: src sends its packets, one for every rank, in equal
\* pieces (scatter_heads_gather_sequence).
Scattering(x, lengths, w, m, src) == FlattenSeq([dst \in 1..w |-> Packet(x, lengths, m, src, dst)])

Equally(w, n)         == [d \in 1..w |-> n]
Scaled(lengths, w, m) == [d \in 1..w |-> lengths[d] * m]

\* A buffer and the sizes of its pieces, one for every destination.
ScatterIsCut(S, x, lengths, w, m, src) ==
  LET flat == Scattering(x, lengths, w, m, src)
      lens == Equally(w, lengths[src] * m)
  IN /\ flat \in Seq(S) /\ lens \in Seq(Nat) /\ Len(flat) = SumOfFirst(lens, w)
     /\ \A dst \in 1..w :
          Slice(flat, SumOfFirst(lens, dst - 1), lens[dst]) = Packet(x, lengths, m, src, dst)

\* The first exchange: at the offsets of equal sizes lie the packets for each rank.
LEMMA ScatteringIsCut ==
  ASSUME NEW S, NEW x, NEW lengths, NEW w, NEW m, Divided(S, x, lengths, w, m),
         NEW src \in 1..w
  PROVE  ScatterIsCut(S, x, lengths, w, m, src)
<1> DEFINE n     == lengths[src] * m
           lens  == [d \in 1..w |-> n]
           parts == [dst \in 1..w |-> Packet(x, lengths, m, src, dst)]
<1>1. w \in Nat /\ lengths \in Seq(Nat) /\ Len(lengths) = w /\ m \in Nat
  BY DEF Divided
<1>2. n \in Nat
  <2>1. lengths[src] \in Nat
    BY <1>1
  <2> QED BY <1>1, <2>1
<1>3. \A dst \in 1..w : parts[dst] \in Seq(S) /\ Len(parts[dst]) = n
  BY Packets
<1> HIDE DEF n
<1>4. lens \in Seq(Nat) /\ Len(lens) = w /\ \A d \in 1..w : lens[d] = n
  BY <1>1, <1>2
<1>5. parts = [dst \in 1..w |-> parts[dst]] /\ \A dst \in 1..w : parts[dst] = Packet(x, lengths, m, src, dst)
  OBVIOUS
<1> HIDE DEF parts, lens
<1>6. parts \in Seq(Seq(S)) /\ Len(parts) = w
  <2>1. w \in Nat /\ \A k \in 1..w : parts[k] \in Seq(S)
    BY <1>1, <1>3
  <2>2. parts = [k \in 1..w |-> parts[k]]
    BY <1>5
  <2> QED BY ONLY <2>1, <2>2, Families
<1>7. Len(lens) = Len(parts) /\ \A k \in 1..Len(parts) : lens[k] = Len(parts[k])
  BY <1>3, <1>4, <1>6
<1>8. FlattenSeq(parts) \in Seq(S) /\ Len(FlattenSeq(parts)) = SumOfFirst(lens, w)
  BY <1>4, <1>6, <1>7, Flattened
<1>9. \A dst \in 1..w : Slice(FlattenSeq(parts), SumOfFirst(lens, dst - 1), lens[dst]) = parts[dst]
  BY <1>4, <1>6, <1>7, Cut
<1> QED BY <1>4, <1>5, <1>8, <1>9 DEF ScatterIsCut, Equally, Scattering, parts, lens, n

\* What dst receives then, and makes of it: all rows of its columns.
ScatterReply(x, lengths, w, m, dst) == FlattenSeq([src \in 1..w |-> Packet(x, lengths, m, src, dst)])
RowsGatheredFrom(flat, lengths, w, m) ==
  FlattenSeq([src \in 1..w |->
    View(Slice(flat, Start(lengths, src) * m, lengths[src] * m), lengths[src], m)])

\* ... and what a rank receives is its columns of all rows.
LEMMA GatheredIsColumns ==
  ASSUME NEW S, NEW x, NEW lengths, NEW w, NEW m, Divided(S, x, lengths, w, m),
         NEW dst \in 1..w
  PROVE  RowsGatheredFrom(ScatterReply(x, lengths, w, m, dst), lengths, w, m) = HeadsPart(x, m, dst)
<1> DEFINE flat  == ScatterReply(x, lengths, w, m, dst)
           lens  == [k \in 1..Len(lengths) |-> lengths[k] * m]
           parts == [src \in 1..w |-> Packet(x, lengths, m, src, dst)]
           y     == HeadsPart(x, m, dst)
<1>1. /\ w \in Nat /\ lengths \in Seq(Nat) /\ Len(lengths) = w /\ m \in Nat
      /\ x \in Seq(Seq(S)) /\ \A t \in 1..Len(x) : Len(x[t]) = w * m
  BY DEF Divided
<1>2. /\ lens \in Seq(Nat)
      /\ \A k \in 0..w : SumOfFirst(lens, k) = SumOfFirst(lengths, k) * m
  BY <1>1, ScaledSums
<1>3. Len(lens) = w /\ \A k \in 1..w : lens[k] = lengths[k] * m
  BY <1>1
<1> HIDE DEF lens
<1>4. ASSUME NEW src \in 1..w PROVE parts[src] \in Seq(S) /\ Len(parts[src]) = lens[src]
  <2>1. /\ Packet(x, lengths, m, src, dst) \in Seq(S)
        /\ Len(Packet(x, lengths, m, src, dst)) = lengths[src] * m
    BY Packets
  <2> QED BY <1>3, <2>1
<1>5. parts = [src \in 1..w |-> parts[src]] /\ \A src \in 1..w : parts[src] = Packet(x, lengths, m, src, dst)
  OBVIOUS
<1> HIDE DEF parts
<1>6. parts \in Seq(Seq(S)) /\ Len(parts) = w
  <2>1. w \in Nat /\ \A k \in 1..w : parts[k] \in Seq(S)
    BY <1>1, <1>4
  <2>2. parts = [k \in 1..w |-> parts[k]]
    BY <1>5
  <2> QED BY ONLY <2>1, <2>2, Families
<1>7. Len(lens) = Len(parts) /\ \A k \in 1..Len(parts) : lens[k] = Len(parts[k])
  BY <1>3, <1>4, <1>6
<1>8. ASSUME NEW src \in 1..w
      PROVE  View(Slice(flat, Start(lengths, src) * m, lengths[src] * m), lengths[src], m)
               = Slice(y, SumOfFirst(lengths, src - 1), lengths[src])
  <2>1. Slice(FlattenSeq(parts), SumOfFirst(lens, src - 1), lens[src]) = parts[src]
    BY <1>2, <1>6, <1>7, Cut
  <2>2. SumOfFirst(lens, src - 1) = Start(lengths, src) * m
    <3>1. src - 1 \in 0..w
      BY <1>1
    <3> QED BY <1>2, <3>1 DEF Start
  <2>3. Slice(flat, Start(lengths, src) * m, lengths[src] * m) = Packet(x, lengths, m, src, dst)
    BY <1>3, <1>5, <2>1, <2>2 DEF parts, ScatterReply
  <2>4. View(Packet(x, lengths, m, src, dst), lengths[src], m)
          = HeadsPart(OwnPart(x, lengths, src), m, dst)
    BY Packets
  <2>5. OwnPart(y, lengths, src) = HeadsPart(OwnPart(x, lengths, src), m, dst)
    BY PartsCommute
  <2> QED BY <2>3, <2>4, <2>5 DEF OwnPart, Start
<1>9. y \in Seq(Seq(S)) /\ Len(y) = Len(x)
  <2>1. Columns(S, x, m, dst)
    BY <1>1, HeadsParts
  <2> QED BY <2>1 DEF Columns
<1>10. SumOfFirst(lengths, Len(lengths)) = Len(y)
  BY <1>1, <1>9 DEF Divided
<1> HIDE DEF y
<1>11. FlattenSeq([k \in 1..Len(lengths) |-> Slice(y, SumOfFirst(lengths, k - 1), lengths[k])]) = y
  <2>1. y \in Seq(Seq(S)) /\ lengths \in Seq(Nat)
    BY <1>1, <1>9
  <2> QED BY ONLY <1>10, <2>1, Reassembled
<1>12. [src \in 1..w |-> View(Slice(flat, Start(lengths, src) * m, lengths[src] * m), lengths[src], m)]
         = [k \in 1..Len(lengths) |-> Slice(y, SumOfFirst(lengths, k - 1), lengths[k])]
  BY <1>1, <1>8
<1> QED BY <1>11, <1>12 DEF y, RowsGatheredFrom

\* After the attention: src sends every rank the rows of its shard, of the
\* columns src has (gather_heads_scatter_sequence).
GatherIsCut(S, x, lengths, w, m, src) ==
  LET flat == FlattenSeq(HeadsPart(x, m, src))
      lens == Scaled(lengths, w, m)
  IN /\ flat \in Seq(S) /\ lens \in Seq(Nat) /\ Len(flat) = SumOfFirst(lens, w)
     /\ \A dst \in 1..w :
          Slice(flat, SumOfFirst(lens, dst - 1), lens[dst]) = Packet(x, lengths, m, dst, src)

\* The second exchange: a rank's columns, flat, are the packets for each shard.
LEMMA GatheringIsCut ==
  ASSUME NEW S, NEW x, NEW lengths, NEW w, NEW m, Divided(S, x, lengths, w, m),
         NEW src \in 1..w
  PROVE  GatherIsCut(S, x, lengths, w, m, src)
<1> DEFINE lens == [k \in 1..w |-> lengths[k] * m]
           y    == HeadsPart(x, m, src)
<1>1. /\ w \in Nat /\ lengths \in Seq(Nat) /\ Len(lengths) = w /\ m \in Nat
      /\ x \in Seq(Seq(S)) /\ \A t \in 1..Len(x) : Len(x[t]) = w * m
      /\ SumOfFirst(lengths, Len(lengths)) = Len(x)
  BY DEF Divided
<1>2. /\ lens \in Seq(Nat)
      /\ \A k \in 0..w : SumOfFirst(lens, k) = SumOfFirst(lengths, k) * m
  BY <1>1, ScaledSums
<1>3. \A k \in 1..w : lens[k] = lengths[k] * m
  BY <1>1
<1> HIDE DEF lens
<1>4. /\ y \in Seq(Seq(S)) /\ Len(y) = Len(x)
      /\ \A t \in 1..Len(y) : Len(y[t]) = m
  <2>1. Columns(S, x, m, src)
    BY <1>1, HeadsParts
  <2> QED BY <2>1 DEF Columns
<1> HIDE DEF y
<1>5. FlattenSeq(y) \in Seq(S) /\ Len(FlattenSeq(y)) = Len(y) * m
  BY <1>1, <1>4, UniformParts
<1>6. Len(FlattenSeq(y)) = SumOfFirst(lens, w)
  <2>1. w \in 0..w
    BY <1>1
  <2>2. SumOfFirst(lens, w) = SumOfFirst(lengths, w) * m
    BY <1>2, <2>1
  <2> QED BY <1>1, <1>4, <1>5, <2>2
<1>7. ASSUME NEW dst \in 1..w
      PROVE  Slice(FlattenSeq(y), SumOfFirst(lens, dst - 1), lens[dst]) = Packet(x, lengths, m, dst, src)
  <2> DEFINE a == Start(lengths, dst)
             n == lengths[dst]
  <2>1. SumOfFirst(lens, dst - 1) = a * m
    <3>1. dst - 1 \in 0..w
      BY <1>1
    <3> QED BY <1>2, <3>1 DEF Start
  <2>2. a \in Nat /\ n \in Nat /\ a + n <= Len(y)
    <3>1. Consecutive(Seq(S), x, lengths, dst)
      BY <1>1, OwnParts
    <3> QED BY <1>4, <3>1 DEF Consecutive
  <2> HIDE DEF a, n
  <2>3. Slice(FlattenSeq(y), a * m, n * m) = FlattenSeq(Slice(y, a, n))
    <3>1. y \in Seq(Seq(S)) /\ m \in Nat /\ \A t \in 1..Len(y) : Len(y[t]) = m
      BY <1>1, <1>4
    <3> QED BY ONLY <2>2, <3>1, UniformSlice
  <2>4. Slice(y, a, n) = HeadsPart(OwnPart(x, lengths, dst), m, src)
    <3>1. OwnPart(y, lengths, dst) = HeadsPart(OwnPart(x, lengths, dst), m, src)
      BY PartsCommute DEF y
    <3> QED BY <3>1 DEF OwnPart, a, n
  <2>5. lens[dst] = n * m
    BY <1>3 DEF n
  <2> QED BY <2>1, <2>3, <2>4, <2>5 DEF Packet
<1> QED BY <1>2, <1>5, <1>6, <1>7 DEF GatherIsCut, Scaled, lens, y

\* What dst receives then, and makes of it: all columns of its rows.
GatherReply(x, lengths, w, m, dst) == FlattenSeq([src \in 1..w |-> Packet(x, lengths, m, dst, src)])
ColumnsConcatenatedFrom(flat, n, w, m) ==
  [i \in 1..n |-> FlattenSeq([src \in 1..w |->
    View(Slice(flat, (src - 1) * n * m, n * m), n, m)[i]])]

\* ... and what a rank receives, side by side, is its rows of all columns.
LEMMA ConcatenatedIsRows ==
  ASSUME NEW S, NEW x, NEW lengths, NEW w, NEW m, Divided(S, x, lengths, w, m),
         NEW dst \in 1..w
  PROVE  ColumnsConcatenatedFrom(GatherReply(x, lengths, w, m, dst), lengths[dst], w, m)
           = OwnPart(x, lengths, dst)
<1> DEFINE flat  == GatherReply(x, lengths, w, m, dst)
           n     == lengths[dst]
           parts == [src \in 1..w |-> Packet(x, lengths, m, dst, src)]
           z     == OwnPart(x, lengths, dst)
           piece(src) == View(Slice(flat, (src - 1) * n * m, n * m), n, m)
<1>1. /\ w \in Nat /\ lengths \in Seq(Nat) /\ Len(lengths) = w /\ m \in Nat
      /\ x \in Seq(Seq(S)) /\ \A t \in 1..Len(x) : Len(x[t]) = w * m
      /\ SumOfFirst(lengths, Len(lengths)) = Len(x)
  BY DEF Divided
<1>2. n \in Nat /\ n * m \in Nat
  <2>1. n \in Nat
    BY <1>1
  <2> HIDE DEF n
  <2> QED BY <1>1, <2>1
<1>3. /\ z \in Seq(Seq(S)) /\ Len(z) = n
      /\ \A i \in 1..n : z[i] = x[Start(lengths, dst) + i]
      /\ \A i \in 1..n : Start(lengths, dst) + i \in 1..Len(x)
  <2>1. Consecutive(Seq(S), x, lengths, dst)
    BY <1>1, OwnParts
  <2> QED BY <2>1 DEF Consecutive
<1> HIDE DEF n, z
<1>4. \A src \in 1..w : parts[src] \in Seq(S) /\ Len(parts[src]) = n * m
  BY Packets DEF n
<1>5. parts = [src \in 1..w |-> parts[src]] /\ \A src \in 1..w : parts[src] = Packet(x, lengths, m, dst, src)
  OBVIOUS
<1> HIDE DEF parts
<1>6. parts \in Seq(Seq(S)) /\ Len(parts) = w
  <2>1. w \in Nat /\ \A k \in 1..w : parts[k] \in Seq(S)
    BY <1>1, <1>4
  <2>2. parts = [k \in 1..w |-> parts[k]]
    BY <1>5
  <2> QED BY ONLY <2>1, <2>2, Families
<1>7. PICK lens \in Seq(Nat) :
        /\ Len(lens) = w
        /\ \A k \in 1..w : lens[k] = n * m
        /\ \A k \in 0..w : SumOfFirst(lens, k) = k * (n * m)
  BY <1>1, <1>2, EqualCounts
<1>8. ASSUME NEW src \in 1..w PROVE piece(src) = HeadsPart(z, m, src)
  <2>1. \A k \in 1..Len(parts) : lens[k] = Len(parts[k])
    BY <1>4, <1>6, <1>7
  <2>2. Slice(FlattenSeq(parts), SumOfFirst(lens, src - 1), lens[src]) = parts[src]
    BY <1>6, <1>7, <2>1, Cut
  <2>3. SumOfFirst(lens, src - 1) = (src - 1) * n * m
    <3>1. src - 1 \in 0..w /\ src - 1 \in Nat
      BY <1>1
    <3>2. SumOfFirst(lens, src - 1) = (src - 1) * (n * m)
      BY <1>7, <3>1
    <3>3. (src - 1) * (n * m) = (src - 1) * n * m
      BY <1>1, <1>2, <3>1
    <3> QED BY <3>2, <3>3
  <2>4. Slice(flat, (src - 1) * n * m, n * m) = Packet(x, lengths, m, dst, src)
    BY <1>5, <1>7, <2>2, <2>3 DEF parts, GatherReply
  <2>5. View(Packet(x, lengths, m, dst, src), n, m) = HeadsPart(z, m, src)
    BY Packets DEF n, z
  <2> QED BY <2>4, <2>5
<1>9. ASSUME NEW i \in 1..n PROVE FlattenSeq([src \in 1..w |-> piece(src)[i]]) = z[i]
  <2> DEFINE row == z[i]
  <2>1. row \in Seq(S) /\ Len(row) = w * m
    BY <1>1, <1>3
  <2>2. PICK even \in Seq(Nat) :
          /\ Len(even) = w
          /\ \A k \in 1..w : even[k] = m
          /\ \A k \in 0..w : SumOfFirst(even, k) = k * m
    BY <1>1, EqualCounts
  <2>3. ASSUME NEW src \in 1..w PROVE piece(src)[i] = Slice(row, SumOfFirst(even, src - 1), even[src])
    <3>1. src - 1 \in 0..w
      BY <1>1
    <3>2. SumOfFirst(even, src - 1) = (src - 1) * m /\ even[src] = m
      BY <2>2, <3>1
    <3>3. HeadsPart(z, m, src)[i] = Slice(row, (src - 1) * m, m)
      BY <1>3 DEF HeadsPart
    <3> QED BY <1>8, <3>2, <3>3
  <2> HIDE DEF row, piece
  <2>4. SumOfFirst(even, Len(even)) = Len(row)
    <3>1. w \in 0..w
      BY <1>1
    <3> QED BY <2>1, <2>2, <3>1
  <2>5. FlattenSeq([k \in 1..Len(even) |-> Slice(row, SumOfFirst(even, k - 1), even[k])]) = row
    <3>1. row \in Seq(S) /\ even \in Seq(Nat)
      BY <2>1, <2>2
    <3> QED BY ONLY <2>4, <3>1, Reassembled
  <2>6. [src \in 1..w |-> piece(src)[i]]
          = [k \in 1..Len(even) |-> Slice(row, SumOfFirst(even, k - 1), even[k])]
    BY <2>2, <2>3
  <2> QED BY <2>5, <2>6 DEF row
<1> HIDE DEF piece
<1>10. [i \in 1..n |-> FlattenSeq([src \in 1..w |-> piece(src)[i]])] = z
  <2>1. [i \in 1..n |-> FlattenSeq([src \in 1..w |-> piece(src)[i]])] = [i \in 1..n |-> z[i]]
    BY <1>9
  <2>2. z = [i \in 1..n |-> z[i]]
    BY <1>3
  <2> QED BY <2>1, <2>2
<1> QED BY <1>10 DEF piece, z, n, ColumnsConcatenatedFrom

-----------------------------------------------------------------------------
(* The values of an unpatched model, and what the ranks compute of them.   *)

\* Of n tokens: their rows, and the q, k or v of those.
TokenRows(n, p, f, d)  == [t \in 1..n |-> Row(p, f, t, d)]
Projected(row)         == [h \in 1..Heads |-> Cell(row, h)]
TokenCells(n, p, f, d) == [t \in 1..n |-> Projected(Row(p, f, t, d))]
\* One head of them.
HeadOf(n, p, f, d, h)  == [t \in 1..n |-> Cell(Row(p, f, t, d), h)]

\* What the sizes of a group and of a packed sequence are.
LEMMA Sizes ==
  ASSUME world \in Worlds, table \in Layouts
  PROVE  /\ world \in Nat \ {0} /\ world > 1
         /\ Total \in Nat
         /\ HeadsLocal \in Nat /\ Heads = world * HeadsLocal
         /\ Ranks = 1..world
         /\ ToSet(table) \subseteq Segments
<1>1. world \in Nat \ {0} /\ world > 1
  BY WorldsAssumption
<1>2. table \in Seq(Segments) /\ table # <<>>
  BY LayoutsAssumption
<1>3. Len(table) \in 1..Len(table)
  BY <1>2
<1>4. table[Len(table)] \in Segments
  BY <1>2, <1>3
<1>5. Total \in Nat
  BY <1>4 DEF Total, Segments
<1>6. Heads \in Nat /\ Heads % world = 0
  BY HeadsAssumption
<1>7. HeadsLocal \in Nat /\ Heads = world * HeadsLocal
  <2>1. Heads = world * (Heads \div world) + (Heads % world) /\ Heads \div world \in Nat
    BY <1>1, <1>6
  <2> QED BY <1>1, <1>6, <2>1 DEF HeadsLocal
<1>8. ToSet(table) \subseteq Segments
  BY <1>2 DEF ToSet
<1> QED BY <1>1, <1>5, <1>7, <1>8 DEF Ranks

\* The rows and the cells of n tokens.
ManyTokens(n, p, f, d) ==
  /\ TokenRows(n, p, f, d) \in Seq(Tokens) /\ Len(TokenRows(n, p, f, d)) = n
  /\ TokenCells(n, p, f, d) \in Seq(Seq(Cells)) /\ Len(TokenCells(n, p, f, d)) = n
  /\ \A t \in 1..n : Len(TokenCells(n, p, f, d)[t]) = Heads

\* Hidden values and their projections are tokens and cells, one for each row.
LEMMA TokenValues ==
  ASSUME NEW n \in Nat, NEW p \in Nat, NEW f \in Nat, NEW d \in Nat
  PROVE  ManyTokens(n, p, f, d)
<1>1. \A t \in 1..n : Row(p, f, t, d) \in Tokens
  BY DEF Row, Tokens
<1>2. TokenRows(n, p, f, d) \in Seq(Tokens) /\ Len(TokenRows(n, p, f, d)) = n
  BY <1>1 DEF TokenRows
<1>3. ASSUME NEW t \in 1..n
      PROVE  /\ Projected(Row(p, f, t, d)) \in Seq(Cells)
             /\ Len(Projected(Row(p, f, t, d))) = Heads
  <2>1. \A h \in 1..Heads : Cell(Row(p, f, t, d), h) \in Cells
    BY <1>1, HeadsAssumption DEF Cell, Cells
  <2> QED BY <2>1, HeadsAssumption DEF Projected
<1>4. /\ TokenCells(n, p, f, d) = [t \in 1..n |-> TokenCells(n, p, f, d)[t]]
      /\ \A t \in 1..n : TokenCells(n, p, f, d)[t] = Projected(Row(p, f, t, d))
  BY DEF TokenCells
<1> DEFINE x == TokenCells(n, p, f, d)
<1> HIDE DEF x
<1>5. \A t \in 1..n : x[t] \in Seq(Cells) /\ Len(x[t]) = Heads
  BY <1>3, <1>4 DEF x
<1>6. x = [t \in 1..n |-> x[t]]
  BY <1>4 DEF x
<1>7. x \in Seq(Seq(Cells)) /\ Len(x) = n
  <2>1. n \in Nat /\ \A t \in 1..n : x[t] \in Seq(Cells)
    BY <1>5
  <2> QED BY ONLY <1>6, <2>1, Families
<1> QED BY <1>2, <1>5, <1>7 DEF ManyTokens, x

\* They are shared out as the exchanges want.
LEMMA Sharing ==
  ASSUME world \in Worlds, table \in Layouts,
         NEW p \in Nat, NEW f \in Nat, NEW d \in Nat
  PROVE  /\ Divided(Cells, TokenCells(Total, p, f, d), ShardLengths(Total, world), world, HeadsLocal)
         /\ \A r \in Ranks :
              /\ Consecutive(Tokens, TokenRows(Total, p, f, d), ShardLengths(Total, world), r)
              /\ Consecutive(Seq(Cells), TokenCells(Total, p, f, d), ShardLengths(Total, world), r)
<1> DEFINE c == ShardLengths(Total, world)
           x == TokenRows(Total, p, f, d)
           y == TokenCells(Total, p, f, d)
<1>1. world \in Nat \ {0} /\ Total \in Nat /\ HeadsLocal \in Nat /\ Heads = world * HeadsLocal /\ Ranks = 1..world
  BY Sizes
<1>2. c \in Seq(Nat) /\ Len(c) = world /\ SumOfFirst(c, Len(c)) = Total
  BY <1>1, ShardSums
<1>0. ManyTokens(Total, p, f, d)
  BY <1>1, TokenValues
<1>3. x \in Seq(Tokens) /\ Len(x) = Total
  BY <1>0 DEF ManyTokens
<1>4. y \in Seq(Seq(Cells)) /\ Len(y) = Total /\ \A t \in 1..Len(y) : Len(y[t]) = Heads
  BY <1>0 DEF ManyTokens
<1> HIDE DEF c, x, y
<1>5. Divided(Cells, y, c, world, HeadsLocal)
  BY <1>1, <1>2, <1>4 DEF Divided
<1>6. ASSUME NEW r \in Ranks PROVE Consecutive(Tokens, x, c, r)
  <2>1. SumOfFirst(c, Len(c)) = Len(x) /\ r \in 1..Len(c) /\ c \in Seq(Nat) /\ x \in Seq(Tokens)
    BY <1>1, <1>2, <1>3
  <2> QED BY ONLY <2>1, OwnParts
<1>7. ASSUME NEW r \in Ranks PROVE Consecutive(Seq(Cells), y, c, r)
  <2>1. SumOfFirst(c, Len(c)) = Len(y) /\ r \in 1..Len(c) /\ c \in Seq(Nat) /\ y \in Seq(Seq(Cells))
    BY <1>1, <1>2, <1>4
  <2> QED BY ONLY <2>1, OwnParts
<1> QED BY <1>5, <1>6, <1>7 DEF c, x, y

\* Remapping loses nothing: a row of the shard is modulated as in the sequence.
THEOREM RemapIsExact ==
  ASSUME NEW segments, segments \subseteq Segments, NEW start \in Nat, NEW stop \in Nat,
         NEW i \in 1..stop - start
  PROVE  ModulatedBy(RemapSegments(segments, start, stop), i) = ModulatedBy(segments, start + i)
<1> DEFINE remapped   == RemapSegments(segments, start, stop)
           Clipped(s) == [start |-> Maximum(s.start, start) - start,
                          stop  |-> Minimum(s.stop, stop) - start,
                          row   |-> s.row]
           In(s) == Minimum(s.stop, stop) > Maximum(s.start, start)
<1>1. \A s \in segments : s.start \in Nat /\ s.stop \in Nat
  BY DEF Segments
<1>2. \A s \in segments :
        (In(s) /\ Clipped(s).start < i /\ i <= Clipped(s).stop)
          <=> (s.start < start + i /\ start + i <= s.stop)
  <2> TAKE s \in segments
  <2> DEFINE a == s.start
             b == s.stop
  <2>1. a \in Nat /\ b \in Nat
    BY <1>1
  <2> HIDE DEF a, b
  <2>2. (Minimum(b, stop) > Maximum(a, start) /\ Maximum(a, start) - start < i
          /\ i <= Minimum(b, stop) - start) <=> (a < start + i /\ start + i <= b)
    BY <2>1 DEF Minimum, Maximum
  <2> QED BY <2>2 DEF a, b
<1>3. remapped = {Clipped(s) : s \in {t \in segments : In(t)}}
  BY DEF RemapSegments
<1>4. \A s : Clipped(s).row = s.row
  OBVIOUS
<1> HIDE DEF remapped, Clipped, In
<1>5. ASSUME NEW row, row \in ModulatedBy(remapped, i) PROVE row \in ModulatedBy(segments, start + i)
  <2>1. PICK s \in remapped : s.start < i /\ i <= s.stop /\ row = s.row
    BY <1>5 DEF ModulatedBy
  <2>2. PICK t \in segments : In(t) /\ s = Clipped(t)
    BY <1>3, <2>1
  <2> QED BY <1>2, <1>4, <2>1, <2>2 DEF ModulatedBy
<1>6. ASSUME NEW row, row \in ModulatedBy(segments, start + i) PROVE row \in ModulatedBy(remapped, i)
  <2>1. PICK t \in segments : t.start < start + i /\ start + i <= t.stop /\ row = t.row
    BY <1>6 DEF ModulatedBy
  <2>2. In(t) /\ Clipped(t).start < i /\ i <= Clipped(t).stop
    BY <1>2, <2>1
  <2>3. Clipped(t) \in remapped
    BY <1>3, <2>2
  <2> QED BY <1>4, <2>1, <2>2, <2>3 DEF ModulatedBy
<1> QED BY <1>5, <1>6 DEF remapped

-----------------------------------------------------------------------------
(* The inductive invariant: what a rank has computed and called wherever   *)
(* it is, and that the ranks come to the same collectives.                 *)

Lengths == ShardLengths(Total, world)

\* The shard of rank r, of a group of w ranks and n rows.
ShardOf(w, n, segments, r) ==
  LET lengths == ShardLengths(n, w)
      start   == Start(lengths, r)
      stop    == start + lengths[r]
  IN [seq_lengths |-> lengths, start |-> start, stop |-> stop,
      rope |-> [i \in 1..lengths[r] |-> start + i],
      mod_segments |-> RemapSegments(segments, start, stop)]

\* The collectives of the unpatched model's values, and what they return.
ScatterCall(x, lengths, w, m, r) ==
  AllToAll(Scattering(x, lengths, w, m, r),
           Equally(w, lengths[r] * m), Scaled(lengths, w, m))
GatherCall(x, lengths, w, m, r) ==
  AllToAll(FlattenSeq(HeadsPart(x, m, r)),
           Scaled(lengths, w, m), Equally(w, lengths[r] * m))
RowsCall(x, lengths, r, src)      == Broadcast(OwnPart(x, lengths, r), src, lengths[src])
OwnerOf(w, index)                 == (index % w) + 1
MetaCall(w, r, k) ==
  Broadcast(IF r = OwnerOf(w, k) THEN Shape(k + 1) ELSE 0, OwnerOf(w, k), 8)
PayloadCall(w, p, r, k) ==
  Broadcast(IF r = OwnerOf(w, k) THEN Chunk(p, k + 1) ELSE Garbage, OwnerOf(w, k), Shape(k + 1))

\* What a rank has gathered so far: k of q, k and v; of the shards; of the chunks.
ColumnsHeld(x, m, r, k)    == [j \in 1..k |-> HeadsPart(x, m, r)]
ShardsHeld(x, lengths, k)  == [j \in 1..k |-> OwnPart(x, lengths, j)]
ChunksHeld(p, k)           == [c \in 1..k |-> Chunk(p, c)]

\* What the rank's block starts from.
RowsOf(r)  == TokenRows(Total, prompt[r], forward[r], block[r] - 1)
CellsOf(r) == TokenCells(Total, prompt[r], forward[r], block[r] - 1)
\* What its last block leaves.
LastRows(r) == TokenRows(Total, prompt[r], forward[r], Blocks)

Quiet(r)  == call[r] = None /\ reply[r] = None
Before(r) == counter[r] = None /\ video[r] = <<>>   \* no chunk yet
HasShard(r) ==
  /\ shard[r] = ShardOf(world, Total, ToSet(table), r)
  /\ packed[r] = OwnPart(RowsOf(r), Lengths, r)
HasColumns(r, k) == whole[r] = ColumnsHeld(CellsOf(r), HeadsLocal, r, k)

AtRefine(r) == Quiet(r) /\ Before(r)
AtBlock(r) ==
  /\ Quiet(r) /\ Before(r)
  /\ block[r] = 1 => packed[r] = TokenRows(Total, prompt[r], forward[r], 0)
  /\ block[r] # 1 => HasShard(r)
AtScatter(r) ==
  /\ HasShard(r) /\ Before(r)
  /\ \E k \in 0..2 : HasColumns(r, k)
  /\ call[r] = None \/ reply[r] = None
  /\ call[r] # None => call[r] = ScatterCall(CellsOf(r), Lengths, world, HeadsLocal, r)
  /\ reply[r] # None => reply[r] = ScatterReply(CellsOf(r), Lengths, world, HeadsLocal, r)
AtAttend(r) == Quiet(r) /\ HasShard(r) /\ Before(r) /\ HasColumns(r, 3)
AtGather(r) ==
  /\ HasShard(r) /\ Before(r)
  /\ \/ call[r] = GatherCall(CellsOf(r), Lengths, world, HeadsLocal, r) /\ reply[r] = None
     \/ call[r] = None /\ reply[r] = GatherReply(CellsOf(r), Lengths, world, HeadsLocal, r)
AtRows(r) ==
  /\ Before(r)
  /\ packed[r] = OwnPart(LastRows(r), Lengths, r)
  /\ \E k \in 0..world - 1 :
       /\ whole[r] = ShardsHeld(LastRows(r), Lengths, k)
       /\ call[r] # None => call[r] = RowsCall(LastRows(r), Lengths, r, k + 1)
       /\ reply[r] # None => reply[r] = OwnPart(LastRows(r), Lengths, k + 1)
  /\ call[r] = None \/ reply[r] = None
AtDecode(r) == Quiet(r) /\ Before(r) /\ packed[r] = LastRows(r)
AtChunk(r)  == Quiet(r) /\ counter[r] = IF split[r] THEN Len(video[r]) ELSE None
InChunk(r)  == split[r] /\ Len(video[r]) < Chunks /\ counter[r] = Len(video[r]) + 1
AtMeta(r) ==
  /\ InChunk(r)
  /\ \/ call[r] = MetaCall(world, r, Len(video[r])) /\ reply[r] = None
     \/ call[r] = None /\ reply[r] = Shape(Len(video[r]) + 1)
AtPayload(r) ==
  /\ InChunk(r)
  /\ \/ call[r] = PayloadCall(world, prompt[r], r, Len(video[r])) /\ reply[r] = None
     \/ call[r] = None /\ reply[r] = Chunk(prompt[r], Len(video[r]) + 1)

Exact(r) ==
  /\ \E k \in 0..Chunks : video[r] = ChunksHeld(prompt[r], k)
  /\ \E k \in 0..Maximum(3, world) : Len(whole[r]) = k
  /\ inBlock[r] <=> InForward(r)
  /\ pc[r] = "idle"    => Quiet(r) /\ counter[r] = None
  /\ pc[r] = "refine"  => AtRefine(r)
  /\ pc[r] = "block"   => AtBlock(r)
  /\ pc[r] = "scatter" => AtScatter(r)
  /\ pc[r] = "attend"  => AtAttend(r)
  /\ pc[r] = "gather"  => AtGather(r)
  /\ pc[r] = "rows"    => AtRows(r)
  /\ pc[r] = "decode"  => AtDecode(r)
  /\ pc[r] = "chunk"   => AtChunk(r)
  /\ pc[r] = "meta"    => AtMeta(r)
  /\ pc[r] = "payload" => AtPayload(r)

\* A round is one collective of a prompt: forward, block, stage and how many of
\* the stage came before. After the last there is none.
End == <<Forwards, Blocks, "end", 0>>
FromChunk(patched, k) == IF patched /\ k < Chunks THEN <<Forwards, Blocks, "meta", k>> ELSE End
InTail(round) == round[3] \in {"meta", "payload", "end"}

\* The round after one.
After(w, patched, round) ==
  CASE round[3] = "scatter" -> IF round[4] < 2 THEN <<round[1], round[2], "scatter", round[4] + 1>>
                               ELSE <<round[1], round[2], "gather", 0>>
    [] round[3] = "gather"  -> IF round[2] < Blocks THEN <<round[1], round[2] + 1, "scatter", 0>>
                               ELSE <<round[1], Blocks, "rows", 0>>
    [] round[3] = "rows"    -> IF round[4] + 1 < w THEN <<round[1], Blocks, "rows", round[4] + 1>>
                               ELSE IF round[1] < Forwards THEN <<round[1] + 1, 1, "scatter", 0>>
                               ELSE FromChunk(patched, 0)
    [] round[3] = "meta"    -> <<Forwards, Blocks, "payload", round[4]>>
    [] OTHER                -> FromChunk(patched, round[4] + 1)

\* The round of a rank at a place, or the one it comes to next; with its reply
\* it has left it.
Place(place, f, b, gathered, decoded, patched) ==
  CASE place = "refine"  -> <<f, 1, "scatter", 0>>
    [] place = "block"   -> <<f, b, "scatter", 0>>
    [] place = "scatter" -> <<f, b, "scatter", gathered>>
    [] place = "attend"  -> <<f, b, "gather", 0>>
    [] place = "gather"  -> <<f, b, "gather", 0>>
    [] place = "rows"    -> <<f, Blocks, "rows", gathered>>
    [] place = "decode"  -> FromChunk(patched, 0)
    [] place = "chunk"   -> FromChunk(patched, decoded)
    [] place = "meta"    -> <<Forwards, Blocks, "meta", decoded>>
    [] place = "payload" -> <<Forwards, Blocks, "payload", decoded>>
    [] OTHER             -> End
At(r)    == Place(pc[r], forward[r], block[r], Len(whole[r]), Len(video[r]), split[r])
Round(r) == IF reply[r] = None THEN At(r) ELSE After(world, split[r], At(r))

\* Ranks that have not failed in this prompt are in the same round; over the
\* chunks, those of the same decoder.
Live(r) == pc[r] # "idle" \/ ended[r] = "ok"
InStep ==
  \A a, b \in Ranks : Live(a) /\ Live(b) =>
    Round(a) = Round(b) \/ (split[a] # split[b] /\ InTail(Round(a)) /\ InTail(Round(b)))

\* How prompts begin and end.
Endings ==
  /\ \A a, b \in Ranks : prompt[a] = prompt[b]
  /\ \A r \in Ranks : pc[r] # "idle" => ended[r] = "none"
  /\ \A r \in Ranks : ended[r] = "failed" => raised \/ broken
  /\ \A a, b \in Ranks : pc[a] = "idle" /\ ended[a] = "none" => pc[b] = "idle"

FunctionOfRanks(f) == f = [r \in Ranks |-> f[r]]
Types ==
  /\ world \in Worlds /\ table \in Layouts /\ split \in [Ranks -> BOOLEAN]
  /\ pc \in [Ranks -> Places]
  /\ prompt \in [Ranks -> 0..Prompts] /\ forward \in [Ranks -> 1..Forwards]
  /\ block \in [Ranks -> 1..Blocks] /\ inBlock \in [Ranks -> BOOLEAN]
  /\ ended \in [Ranks -> {"none", "ok", "failed"}]
  /\ broken \in BOOLEAN /\ raised \in BOOLEAN
  /\ FunctionOfRanks(shard) /\ FunctionOfRanks(packed) /\ FunctionOfRanks(whole)
  /\ FunctionOfRanks(counter) /\ FunctionOfRanks(video)
  /\ FunctionOfRanks(call) /\ FunctionOfRanks(reply)

IInv == Types /\ (\A r \in Ranks : Exact(r)) /\ InStep /\ Endings /\ LostForACause

-----------------------------------------------------------------------------
(* What a rank computes, from what the invariant says it holds.            *)

\* The shard the hook computes, and its lengths.
LEMMA ShardIs ==
  ASSUME world \in Worlds, table \in Layouts, NEW r \in Ranks
  PROVE  /\ Shard(r) = ShardOf(world, Total, ToSet(table), r)
         /\ Shard(r).seq_lengths = Lengths
         /\ Shard(r).start = Start(Lengths, r)
         /\ Shard(r).stop = Start(Lengths, r) + Lengths[r]
         /\ Shard(r).rope = [i \in 1..Lengths[r] |-> Start(Lengths, r) + i]
         /\ Shard(r).mod_segments = RemapSegments(ToSet(table), Start(Lengths, r),
                                                  Start(Lengths, r) + Lengths[r])
BY DEF Shard, ShardOf, Lengths

\* Sizes of what is exchanged.
LEMMA LengthsAre ==
  ASSUME world \in Worlds, table \in Layouts
  PROVE  /\ Lengths \in Seq(Nat) /\ Len(Lengths) = world /\ SumOfFirst(Lengths, world) = Total
         /\ \A r \in Ranks : Lengths[r] \in Nat /\ Start(Lengths, r) \in Nat
         /\ \A r \in Ranks : Start(Lengths, r) + Lengths[r] <= Total
<1>1. world \in Nat \ {0} /\ Total \in Nat /\ Ranks = 1..world
  BY Sizes
<1>2. Lengths \in Seq(Nat) /\ Len(Lengths) = world /\ SumOfFirst(Lengths, world) = Total
  BY <1>1, ShardSums DEF Lengths
<1>3. ASSUME NEW r \in Ranks
      PROVE  /\ Lengths[r] \in Nat /\ Start(Lengths, r) \in Nat
             /\ Start(Lengths, r) + Lengths[r] <= Total
  <2>1. Consecutive(Tokens, TokenRows(Total, 0, 0, 0), Lengths, r)
    BY Sharing DEF Lengths
  <2>2. Len(TokenRows(Total, 0, 0, 0)) = Total
    BY <1>1 DEF TokenRows
  <2> QED BY <2>1, <2>2 DEF Consecutive
<1> QED BY <1>2, <1>3

\* The own rows of a rank, one by one; and the cells of those.
LEMMA OwnTokens ==
  ASSUME world \in Worlds, table \in Layouts, NEW r \in Ranks,
         NEW p \in Nat, NEW f \in Nat, NEW d \in Nat
  PROVE  /\ OwnPart(TokenRows(Total, p, f, d), Lengths, r)
              = [i \in 1..Lengths[r] |-> Row(p, f, Start(Lengths, r) + i, d)]
         /\ OwnPart(TokenCells(Total, p, f, d), Lengths, r)
              = [i \in 1..Lengths[r] |-> Projected(Row(p, f, Start(Lengths, r) + i, d))]
<1> DEFINE x == TokenRows(Total, p, f, d)
           y == TokenCells(Total, p, f, d)
           a == Start(Lengths, r)
           n == Lengths[r]
           z == OwnPart(x, Lengths, r)
           u == OwnPart(y, Lengths, r)
<1>1. Consecutive(Tokens, x, Lengths, r) /\ Consecutive(Seq(Cells), y, Lengths, r)
  BY Sharing DEF Lengths
<1>2. Total \in Nat
  BY Sizes
<1>3. Len(x) = Total /\ \A t \in 1..Total : x[t] = Row(p, f, t, d)
  BY <1>2 DEF TokenRows
<1>4. Len(y) = Total /\ \A t \in 1..Total : y[t] = Projected(Row(p, f, t, d))
  BY <1>2 DEF TokenCells
<1> HIDE DEF x, y
<1>5. /\ z \in Seq(Tokens) /\ Len(z) = n
      /\ \A i \in 1..n : z[i] = x[a + i]
      /\ \A i \in 1..n : a + i \in 1..Total
  BY <1>1, <1>3 DEF Consecutive
<1>6. /\ u \in Seq(Seq(Cells)) /\ Len(u) = n
      /\ \A i \in 1..n : u[i] = y[a + i]
  BY <1>1 DEF Consecutive
<1> HIDE DEF z, u, a, n
<1>7. z = [i \in 1..n |-> Row(p, f, a + i, d)]
  <2>1. z = [i \in 1..n |-> z[i]]
    BY <1>5
  <2>2. \A i \in 1..n : z[i] = Row(p, f, a + i, d)
    BY <1>3, <1>5
  <2> QED BY <2>1, <2>2
<1>8. u = [i \in 1..n |-> Projected(Row(p, f, a + i, d))]
  <2>1. u = [i \in 1..n |-> u[i]]
    BY <1>6
  <2>2. \A i \in 1..n : u[i] = Projected(Row(p, f, a + i, d))
    BY <1>4, <1>5, <1>6
  <2> QED BY <2>1, <2>2
<1> QED BY <1>7, <1>8 DEF z, u, a, n, x, y

\* Its shard gives every row its position and its modulation.
LEMMA ProjectionIsExact ==
  ASSUME world \in Worlds, table \in Layouts, NEW r \in Ranks,
         NEW p \in Nat, NEW f \in Nat, NEW d \in Nat,
         shard[r] = ShardOf(world, Total, ToSet(table), r),
         packed[r] = OwnPart(TokenRows(Total, p, f, d), Lengths, r)
  PROVE  Projection(r) = OwnPart(TokenCells(Total, p, f, d), Lengths, r)
<1> DEFINE a    == Start(Lengths, r)
           n    == Lengths[r]
           segs == ToSet(table)
<1>1. /\ shard[r].rope = [i \in 1..n |-> a + i]
      /\ shard[r].mod_segments = RemapSegments(segs, a, a + n)
  BY ShardIs
<1>2. packed[r] = [i \in 1..n |-> Row(p, f, a + i, d)]
  BY OwnTokens
<1>3. a \in Nat /\ n \in Nat /\ segs \subseteq Segments
  BY LengthsAre, Sizes
<1> HIDE DEF a, n, segs
<1>4. ASSUME NEW i \in 1..n
      PROVE  Project(packed[r][i], shard[r].rope[i], ModulatedBy(shard[r].mod_segments, i))
               = Projected(Row(p, f, a + i, d))
  <2>1. a + i \in Nat /\ a + n \in Nat /\ i \in 1..(a + n) - a
    BY <1>3
  <2>2. ModulatedBy(RemapSegments(segs, a, a + n), i) = ModulatedBy(segs, a + i)
    BY <1>3, <2>1, RemapIsExact
  <2>3. packed[r][i] = Row(p, f, a + i, d) /\ shard[r].rope[i] = a + i
    BY <1>1, <1>2
  <2>4. Row(p, f, a + i, d) # Garbage /\ Token(Row(p, f, a + i, d)) = a + i
    BY <2>1 DEF Row, Garbage, Token
  <2> DEFINE row == Row(p, f, a + i, d)
  <2> HIDE DEF row
  <2>5. Project(row, a + i, ModulatedBy(segs, a + i)) = [h \in 1..Heads |-> Cell(row, h)]
    BY <2>4 DEF Project, row, segs
  <2> QED BY <1>1, <2>2, <2>3, <2>5 DEF Projected, row
<1>5. DOMAIN packed[r] = 1..n
  BY <1>2
<1>6. OwnPart(TokenCells(Total, p, f, d), Lengths, r) = [i \in 1..n |-> Projected(Row(p, f, a + i, d))]
  BY OwnTokens DEF a, n
<1> QED BY <1>4, <1>5, <1>6 DEF Projection

\* The buffer the model scatters is that of the lemmas.
LEMMA ScatterBufferIs ==
  ASSUME world \in Worlds, table \in Layouts, NEW r \in Ranks,
         NEW p \in Nat, NEW f \in Nat, NEW d \in Nat
  PROVE  ScatterBuffer(OwnPart(TokenCells(Total, p, f, d), Lengths, r))
           = Scattering(TokenCells(Total, p, f, d), Lengths, world, HeadsLocal, r)
<1> DEFINE z == OwnPart(TokenCells(Total, p, f, d), Lengths, r)
<1>1. z \in Seq(Seq(Cells))
  BY Sharing DEF Consecutive, Lengths
<1>2. Ranks = 1..world
  BY Sizes
<1> HIDE DEF z
<1>3. DOMAIN z = 1..Len(z)
  BY <1>1
<1>4. ScatterBuffer(z)
        = FlattenSeq([dst \in 1..world |-> FlattenSeq(HeadsPart(z, HeadsLocal, dst))])
  BY <1>2, <1>3 DEF ScatterBuffer, HeadsPart
<1> QED BY <1>4 DEF z, Scattering, Packet

\* What comes back of q, k and v is this rank's columns.
THEOREM GatheredIs ==
  ASSUME world \in Worlds, table \in Layouts, NEW r \in Ranks,
         NEW p \in Nat, NEW f \in Nat, NEW d \in Nat
  PROVE  Gathered(ScatterReply(TokenCells(Total, p, f, d), Lengths, world, HeadsLocal, r), Lengths)
           = HeadsPart(TokenCells(Total, p, f, d), HeadsLocal, r)
<1> DEFINE x    == TokenCells(Total, p, f, d)
           flat == ScatterReply(x, Lengths, world, HeadsLocal, r)
<1>1. Divided(Cells, x, Lengths, world, HeadsLocal)
  BY Sharing DEF Lengths
<1>2. Ranks = 1..world
  BY Sizes
<1> HIDE DEF x
<1>3. RowsGatheredFrom(flat, Lengths, world, HeadsLocal) = HeadsPart(x, HeadsLocal, r)
  BY <1>1, <1>2, GatheredIsColumns
<1> HIDE DEF flat
<1>4. Gathered(flat, Lengths) = RowsGatheredFrom(flat, Lengths, world, HeadsLocal)
  BY <1>2 DEF Gathered, RowsGatheredFrom
<1> QED BY <1>3, <1>4 DEF flat, x

\* What comes back of the attention is all columns of this rank's rows.
THEOREM ConcatenatedIs ==
  ASSUME world \in Worlds, table \in Layouts, NEW r \in Ranks,
         NEW p \in Nat, NEW f \in Nat, NEW d \in Nat
  PROVE  HeadsConcatenated(GatherReply(TokenCells(Total, p, f, d), Lengths, world, HeadsLocal, r),
                           Lengths[r])
           = OwnPart(TokenCells(Total, p, f, d), Lengths, r)
<1> DEFINE x    == TokenCells(Total, p, f, d)
           flat == GatherReply(x, Lengths, world, HeadsLocal, r)
           n    == Lengths[r]
<1>1. Divided(Cells, x, Lengths, world, HeadsLocal)
  BY Sharing DEF Lengths
<1>2. Ranks = 1..world
  BY Sizes
<1> HIDE DEF x
<1>3. ColumnsConcatenatedFrom(flat, n, world, HeadsLocal) = OwnPart(x, Lengths, r)
  BY <1>1, <1>2, ConcatenatedIsRows
<1> HIDE DEF flat, n
<1>4. HeadsConcatenated(flat, n) = ColumnsConcatenatedFrom(flat, n, world, HeadsLocal)
  BY <1>2 DEF HeadsConcatenated, ColumnsConcatenatedFrom
<1> QED BY <1>3, <1>4 DEF x, flat, n

\* Attention sees every token of the sequence once, whichever rank computes it.
LEMMA AttendIs ==
  ASSUME Total \in Nat, NEW p \in Nat, NEW f \in Nat, NEW d \in Nat, NEW h \in Nat
  PROVE  Attend(HeadOf(Total, p, f, d, h), HeadOf(Total, p, f, d, h), HeadOf(Total, p, f, d, h))
           = HeadOf(Total, p, f, d, h)
<1> DEFINE q == HeadOf(Total, p, f, d, h)
<1>0. q = [i \in 1..Total |-> Cell(Row(p, f, i, d), h)]
  BY DEF HeadOf
<1> HIDE DEF q
<1> DEFINE pairs == {<<q[j], q[j]>> : j \in DOMAIN q}
           Sees(cell) == \A t \in 1..Total :
                           LET other == Cell([cell[1] EXCEPT ![3] = t], cell[2])
                           IN <<other, other>> \in pairs
<1>1. DOMAIN q = 1..Total /\ Len(q) = Total
  BY <1>0
<1>2. ASSUME NEW i \in 1..Total PROVE q[i] # Garbage /\ Sees(q[i])
  <2>1. q[i] = Cell(Row(p, f, i, d), h) /\ i \in Nat
    BY <1>0
  <2>2. q[i] # Garbage
    BY <2>1 DEF Cell, Row, Garbage
  <2>3. ASSUME NEW t \in 1..Total
        PROVE  Cell([q[i][1] EXCEPT ![3] = t], q[i][2]) = q[t]
    <3>1. q[t] = Cell(Row(p, f, t, d), h) /\ t \in Nat
      BY <1>0
    <3>2. Cell([Cell(Row(p, f, i, d), h)[1] EXCEPT ![3] = t], Cell(Row(p, f, i, d), h)[2])
            = Cell(Row(p, f, t, d), h)
      BY <2>1, <3>1 DEF Cell, Row
    <3> QED BY <2>1, <3>1, <3>2
  <2> QED BY <1>1, <2>2, <2>3
<1> HIDE DEF pairs, Sees
<1>3. Attend(q, q, q) = [i \in DOMAIN q |->
         IF q[i] # Garbage /\ Len(q) = Total /\ Sees(q[i]) THEN q[i] ELSE Garbage]
  BY DEF Attend, Sees, pairs
<1>4. q = [i \in DOMAIN q |-> q[i]]
  BY <1>0
<1>5. Attend(q, q, q) = q
  BY <1>1, <1>2, <1>3, <1>4
<1> QED BY <1>5 DEF q

\* Attention of the gathered columns changes no cell: each is attended with all
\* the others of its head.
LEMMA AttentionIs ==
  ASSUME world \in Worlds, table \in Layouts, NEW r \in Ranks,
         NEW p \in Nat, NEW f \in Nat, NEW d \in Nat,
         whole[r] = ColumnsHeld(TokenCells(Total, p, f, d), HeadsLocal, r, 3)
  PROVE  Attention(r) = HeadsPart(TokenCells(Total, p, f, d), HeadsLocal, r)
<1> DEFINE x == TokenCells(Total, p, f, d)
           y == HeadsPart(x, HeadsLocal, r)
           m == HeadsLocal
           a == (r - 1) * m
           q(h) == HeadOf(Total, p, f, d, a + h)
<1>1. world \in Nat \ {0} /\ Total \in Nat /\ m \in Nat /\ Heads = world * m /\ Ranks = 1..world
  BY Sizes
<1>2. /\ x \in Seq(Seq(Cells)) /\ Len(x) = Total
      /\ \A t \in 1..Len(x) : Len(x[t]) = world * m
  <2>1. ManyTokens(Total, p, f, d)
    BY <1>1, TokenValues
  <2>2. Divided(Cells, x, ShardLengths(Total, world), world, HeadsLocal)
    BY Sharing
  <2> HIDE DEF x
  <2>3. \A t \in 1..Len(x) : Len(x[t]) = world * m
    BY <2>2 DEF Divided
  <2> QED BY <2>1, <2>3 DEF ManyTokens, x
<1>3. \A t \in 1..Total : x[t] = [h \in 1..Heads |-> Cell(Row(p, f, t, d), h)]
  BY <1>1 DEF TokenCells, Projected
<1>4. a \in Nat /\ \A h \in 1..m : a + h \in 1..Heads
  <2>1. r - 1 \in Nat /\ world - r \in Nat /\ r \in Nat
    BY <1>1
  <2>2. a \in Nat /\ (world - r) * m \in Nat
    BY <1>1, <2>1
  <2>3. Heads = (world - r) * m + (r - 1) * m + m
    BY <1>1, <2>1
  <2> DEFINE b == (world - r) * m
  <2>4. b \in Nat /\ a \in Nat /\ Heads = b + a + m
    BY <2>2, <2>3
  <2> HIDE DEF a, b
  <2> QED BY <1>1, <2>4
<1> HIDE DEF x, m
<1>5. /\ y \in Seq(Seq(Cells)) /\ Len(y) = Total
      /\ \A t \in 1..Total : Len(y[t]) = m
      /\ \A t \in 1..Total : \A h \in 1..m : y[t][h] = x[t][a + h]
  <2>1. Columns(Cells, x, m, r)
    BY <1>1, <1>2, HeadsParts
  <2> QED BY <1>2, <2>1 DEF Columns, m
<1> HIDE DEF y, a
<1>6. ASSUME NEW t \in 1..Total, NEW h \in 1..m PROVE y[t][h] = Cell(Row(p, f, t, d), a + h)
  <2> DEFINE k == a + h
  <2>1. k \in 1..Heads /\ y[t][h] = x[t][k]
    BY <1>4, <1>5
  <2> HIDE DEF k
  <2>2. x[t][k] = Cell(Row(p, f, t, d), k)
    BY <1>3, <2>1
  <2> QED BY <2>1, <2>2 DEF k
<1>7. whole[r][1] = y /\ whole[r][2] = y /\ whole[r][3] = y
  BY DEF y, x, ColumnsHeld
<1>8. DOMAIN y = 1..Total
  BY <1>5
<1>9. \A h \in 1..m : [i \in DOMAIN y |-> y[i][h]] = q(h)
  BY <1>6, <1>8 DEF HeadOf
<1>10. ASSUME NEW h \in 1..m PROVE Attend(q(h), q(h), q(h)) = q(h)
  <2> DEFINE k == a + h
  <2>1. k \in Nat /\ Total \in Nat /\ p \in Nat /\ f \in Nat /\ d \in Nat
    BY <1>1, <1>4
  <2>2. q(h) = HeadOf(Total, p, f, d, k)
    OBVIOUS
  <2> HIDE DEF q, k
  <2> QED BY ONLY <2>1, <2>2, AttendIs
<1>0. \A h \in 1..m : \A i \in 1..Total : q(h)[i] = Cell(Row(p, f, i, d), a + h)
  BY DEF HeadOf
<1> HIDE DEF q
<1>11. Attention(r) = [i \in DOMAIN y |-> [h \in 1..m |->
         [g \in 1..m |-> Attend([k \in DOMAIN y |-> y[k][g]], [k \in DOMAIN y |-> y[k][g]],
                                [k \in DOMAIN y |-> y[k][g]])][h][i]]]
  BY <1>7 DEF Attention, m
<1>12. Attention(r) = [i \in 1..Total |-> [h \in 1..m |-> q(h)[i]]]
  BY <1>8, <1>9, <1>10, <1>11
<1>13. \A i \in 1..Total : \A h \in 1..m : q(h)[i] = y[i][h]
  BY <1>0, <1>6
<1>14. ASSUME NEW i \in 1..Total PROVE y[i] = [h \in 1..m |-> q(h)[i]]
  <2>1. y[i] = [h \in 1..m |-> y[i][h]]
    BY <1>5
  <2> QED BY <1>13, <2>1
<1>15. y = [i \in 1..Total |-> y[i]]
  BY <1>5
<1> QED BY <1>12, <1>14, <1>15 DEF y, x, m

\* The block's output is the next block's input.
LEMMA OutputIs ==
  ASSUME world \in Worlds, table \in Layouts, NEW r \in Ranks,
         NEW p \in Nat, NEW f \in Nat, NEW d \in Nat,
         NEW rows, rows = OwnPart(TokenRows(Total, p, f, d), Lengths, r),
         NEW cells, cells = OwnPart(TokenCells(Total, p, f, d), Lengths, r)
  PROVE  [i \in DOMAIN rows |-> Output(rows[i], cells[i])]
           = OwnPart(TokenRows(Total, p, f, d + 1), Lengths, r)
<1> DEFINE a == Start(Lengths, r)
           n == Lengths[r]
<1>1. rows = [i \in 1..n |-> Row(p, f, a + i, d)] /\ cells = [i \in 1..n |-> Projected(Row(p, f, a + i, d))]
  BY OwnTokens
<1>2. OwnPart(TokenRows(Total, p, f, d + 1), Lengths, r) = [i \in 1..n |-> Row(p, f, a + i, d + 1)]
  <2>1. d + 1 \in Nat
    OBVIOUS
  <2> QED BY <2>1, OwnTokens
<1>3. a \in Nat /\ n \in Nat
  BY LengthsAre
<1> HIDE DEF a, n
<1>4. ASSUME NEW i \in 1..n PROVE Output(rows[i], cells[i]) = Row(p, f, a + i, d + 1)
  <2>1. rows[i] = Row(p, f, a + i, d) /\ cells[i] = Projected(Row(p, f, a + i, d))
    BY <1>1
  <2> DEFINE t == a + i
  <2>2. t \in Nat
    BY <1>3
  <2> HIDE DEF t
  <2>3. Output(Row(p, f, t, d), [h \in 1..Heads |-> Cell(Row(p, f, t, d), h)]) = Row(p, f, t, d + 1)
    BY <2>2 DEF Output, Row, Garbage
  <2> QED BY <2>1, <2>3 DEF t, Projected
<1> QED BY <1>1, <1>2, <1>4

\* All shards, one after the other, are the whole sequence.
LEMMA ShardsAreAll ==
  ASSUME world \in Worlds, table \in Layouts,
         NEW p \in Nat, NEW f \in Nat, NEW d \in Nat
  PROVE  FlattenSeq(ShardsHeld(TokenRows(Total, p, f, d), Lengths, world)) = TokenRows(Total, p, f, d)
<1> DEFINE x == TokenRows(Total, p, f, d)
<1>1. Total \in Nat /\ ManyTokens(Total, p, f, d)
  BY Sizes, TokenValues
<1>2. x \in Seq(Tokens) /\ Len(x) = Total
  BY <1>1 DEF ManyTokens
<1> HIDE DEF x
<1>3. Lengths \in Seq(Nat) /\ Len(Lengths) = world /\ SumOfFirst(Lengths, Len(Lengths)) = Len(x)
  BY <1>2, LengthsAre
<1>4. FlattenSeq([k \in 1..Len(Lengths) |-> Slice(x, SumOfFirst(Lengths, k - 1), Lengths[k])]) = x
  <2>1. x \in Seq(Tokens)
    BY <1>2
  <2> QED BY ONLY <1>3, <2>1, Reassembled
<1> QED BY <1>3, <1>4 DEF ShardsHeld, OwnPart, Start, x

-----------------------------------------------------------------------------
(* What the collectives return when every rank makes the exact call.       *)

\* The flat sequence of some parts.
LEMMA FlattenedType ==
  ASSUME NEW S, NEW parts \in Seq(Seq(S))
  PROVE  FlattenSeq(parts) \in Seq(S)
<1>1. CASE Len(parts) > 0
  <2>1. PICK g \in [1..Len(parts) -> Seq(S)] : FlattenSeq(parts) = g[Len(parts)]
    BY <1>1, Concatenations
  <2>2. Len(parts) \in 1..Len(parts)
    BY <1>1
  <2> QED BY <2>1, <2>2
<1>2. CASE Len(parts) = 0
  <2>1. parts = << >>
    BY <1>2
  <2>2. FlattenSeq(parts) = << >>
    BY <2>1 DEF FlattenSeq
  <2> QED BY <2>2
<1> QED BY <1>1, <1>2

\* A value is there: it is not None.
LEMMA Present ==
  /\ \A v \in Payloads : v # None
  /\ \A v \in Nat : v # None
  /\ \A v \in Shards : v # None
  /\ \A v \in Calls : v # None
BY NoneAssumption DEF Payloads

\* A shard is there, too: it is not None.
LEMMA ShardPresent ==
  ASSUME world \in Worlds, table \in Layouts, NEW r \in Ranks
  PROVE  ShardOf(world, Total, ToSet(table), r) # None
<1> DEFINE a    == Start(Lengths, r)
           n    == Lengths[r]
           segs == ToSet(table)
<1>1. a \in Nat /\ n \in Nat /\ segs \subseteq Segments /\ Lengths \in Seq(Nat)
  BY LengthsAre, Sizes
<1> HIDE DEF a, n, segs
<1>2. RemapSegments(segs, a, a + n) \subseteq Segments
  <2> DEFINE stop == a + n
  <2>1. stop \in Nat
    BY <1>1
  <2> HIDE DEF stop
  <2>2. ASSUME NEW s \in segs, Minimum(s.stop, stop) > Maximum(s.start, a)
        PROVE  [start |-> Maximum(s.start, a) - a, stop |-> Minimum(s.stop, stop) - a, row |-> s.row]
                 \in Segments
    <3>1. s.start \in Nat /\ s.stop \in Nat /\ s.row \in Nat
      BY <1>1 DEF Segments
    <3>2. Maximum(s.start, a) - a \in Nat /\ Minimum(s.stop, stop) - a \in Nat
      BY <1>1, <2>1, <2>2, <3>1 DEF Maximum, Minimum
    <3> QED BY <3>1, <3>2 DEF Segments
  <2>3. RemapSegments(segs, a, stop) \subseteq Segments
    BY <2>2 DEF RemapSegments
  <2> QED BY <2>3 DEF stop
<1>3. [i \in 1..n |-> a + i] \in Seq(Nat)
  BY <1>1
<1>4. ShardOf(world, Total, segs, r)
        = [seq_lengths |-> Lengths, start |-> a, stop |-> a + n,
           rope |-> [i \in 1..n |-> a + i], mod_segments |-> RemapSegments(segs, a, a + n)]
  BY DEF ShardOf, Lengths, a, n
<1>5. ShardOf(world, Total, segs, r) \in Shards
  <2> DEFINE rope == [i \in 1..n |-> a + i]
             mods == RemapSegments(segs, a, a + n)
  <2>1. rope \in Seq(Nat) /\ mods \in SUBSET Segments /\ a + n \in Nat
    BY <1>1, <1>2, <1>3
  <2> HIDE DEF rope, mods
  <2> QED BY <1>1, <1>4, <2>1 DEF Shards, rope, mods
<1> QED BY <1>5, Present DEF segs

\* q, k or v.
LEMMA ScatterMeets ==
  ASSUME world \in Worlds, table \in Layouts, NEW p \in Nat, NEW f \in Nat, NEW d \in Nat
  PROVE  LET x == TokenCells(Total, p, f, d)
         IN /\ \A r \in Ranks : ScatterCall(x, Lengths, world, HeadsLocal, r) # None
            /\ \A r \in Ranks : ScatterReply(x, Lengths, world, HeadsLocal, r) # None
            /\ (\A s \in Ranks : call[s] = ScatterCall(x, Lengths, world, HeadsLocal, s))
                 => \A r \in Ranks : /\ \A s \in Ranks : Match(r, s)
                                     /\ Received(r) = ScatterReply(x, Lengths, world, HeadsLocal, r)
<1> DEFINE x   == TokenCells(Total, p, f, d)
           L   == Lengths
           m   == HeadsLocal
           sent(s) == Scattering(x, L, world, m, s)
           ins(s)  == Equally(world, L[s] * m)
           outs    == Scaled(L, world, m)
<1>1. /\ world \in Nat \ {0} /\ Ranks = 1..world /\ m \in Nat
      /\ L \in Seq(Nat) /\ Len(L) = world /\ \A r \in Ranks : L[r] \in Nat
  BY Sizes, LengthsAre
<1>2. Divided(Cells, x, L, world, m)
  BY Sharing DEF Lengths
<1> HIDE DEF x, L, m
<1>3. ASSUME NEW s \in Ranks
      PROVE  /\ sent(s) \in Seq(Cells) /\ ins(s) \in Seq(Nat)
             /\ Len(sent(s)) = SumOfFirst(ins(s), world)
             /\ \A r \in 1..world :
                  Slice(sent(s), SumOfFirst(ins(s), r - 1), ins(s)[r]) = Packet(x, L, m, s, r)
  <2>1. s \in 1..world
    BY <1>1
  <2>2. ScatterIsCut(Cells, x, L, world, m, s)
    BY ONLY <1>2, <2>1, ScatteringIsCut
  <2> QED BY <2>2 DEF ScatterIsCut
<1>4. outs \in Seq(Nat)
  <2>1. \A src \in 1..world : L[src] * m \in Nat
    BY <1>1
  <2> QED BY <1>1, <2>1 DEF Scaled
<1>5. \A s \in Ranks : ScatterCall(x, L, world, m, s)
        = [op |-> "all_to_all", data |-> sent(s), ins |-> ins(s), outs |-> outs, src |-> 0, size |-> 0]
  BY DEF ScatterCall, AllToAll
<1>6. \A s \in Ranks : \A r \in 1..world : ins(s)[r] = L[s] * m /\ outs[r] = L[r] * m
  BY DEF Equally, Scaled
<1> HIDE DEF sent, ins, outs
<1>7. ASSUME NEW s \in Ranks PROVE ScatterCall(x, L, world, m, s) # None
  <2>1. sent(s) \in Payloads
    BY <1>3 DEF Payloads
  <2>2. ScatterCall(x, L, world, m, s) \in Calls
    BY <1>3, <1>4, <1>5, <2>1 DEF Calls
  <2> QED BY <2>2, Present
<1>8. ASSUME NEW r \in Ranks PROVE ScatterReply(x, L, world, m, r) # None
  <2> DEFINE parts == [src \in 1..world |-> Packet(x, L, m, src, r)]
  <2>1. ASSUME NEW src \in 1..world PROVE Packet(x, L, m, src, r) \in Seq(Cells)
    <3>1. r \in 1..world
      BY <1>1
    <3> QED BY ONLY <1>2, <3>1, Packets
  <2>2. parts \in Seq(Seq(Cells))
    BY <1>1, <2>1
  <2> HIDE DEF parts
  <2>3. FlattenSeq(parts) \in Seq(Cells)
    BY <2>2, FlattenedType
  <2>4. ScatterReply(x, L, world, m, r) \in Payloads
    BY <2>3 DEF ScatterReply, parts, Payloads
  <2> QED BY <2>4, Present
<1>9. ASSUME \A s \in Ranks : call[s] = ScatterCall(x, L, world, m, s), NEW r \in Ranks
      PROVE  /\ \A s \in Ranks : Match(r, s)
             /\ Received(r) = ScatterReply(x, L, world, m, r)
  <2>1. \A s \in Ranks : /\ call[s].op = "all_to_all" /\ call[s].src = 0 /\ call[s].size = 0
                         /\ call[s].data = sent(s) /\ call[s].ins = ins(s) /\ call[s].outs = outs
    BY <1>5, <1>9
  <2>2. ASSUME NEW s \in Ranks PROVE Match(r, s)
    <3>1. ins(r)[s] = outs[r]
      BY <1>1, <1>6
    <3>2. Len(sent(r)) = SumOfFirst(ins(r), world)
      BY <1>3
    <3> QED BY <2>1, <3>1, <3>2 DEF Match
  <2>3. Received(r) = FlattenSeq([src \in Ranks |->
                        Slice(call[src].data, SumOfFirst(call[src].ins, r - 1), call[src].ins[r])])
    BY <2>1 DEF Received
  <2>4. \A src \in Ranks :
          Slice(call[src].data, SumOfFirst(call[src].ins, r - 1), call[src].ins[r])
            = Packet(x, L, m, src, r)
    BY <1>1, <1>3, <2>1
  <2>5. Received(r) = FlattenSeq([src \in 1..world |-> Packet(x, L, m, src, r)])
    BY <1>1, <2>3, <2>4
  <2> QED BY <2>2, <2>5 DEF ScatterReply
<1> QED BY <1>7, <1>8, <1>9 DEF x, L, m

\* The attention's results.
LEMMA GatherMeets ==
  ASSUME world \in Worlds, table \in Layouts, NEW p \in Nat, NEW f \in Nat, NEW d \in Nat
  PROVE  LET x == TokenCells(Total, p, f, d)
         IN /\ \A r \in Ranks : GatherCall(x, Lengths, world, HeadsLocal, r) # None
            /\ \A r \in Ranks : GatherReply(x, Lengths, world, HeadsLocal, r) # None
            /\ (\A s \in Ranks : call[s] = GatherCall(x, Lengths, world, HeadsLocal, s))
                 => \A r \in Ranks : /\ \A s \in Ranks : Match(r, s)
                                     /\ Received(r) = GatherReply(x, Lengths, world, HeadsLocal, r)
<1> DEFINE x   == TokenCells(Total, p, f, d)
           L   == Lengths
           m   == HeadsLocal
           sent(s) == FlattenSeq(HeadsPart(x, m, s))
           ins     == Scaled(L, world, m)
           outs(s) == Equally(world, L[s] * m)
<1>1. /\ world \in Nat \ {0} /\ Ranks = 1..world /\ m \in Nat
      /\ L \in Seq(Nat) /\ Len(L) = world /\ \A r \in Ranks : L[r] \in Nat
  BY Sizes, LengthsAre
<1>2. Divided(Cells, x, L, world, m)
  BY Sharing DEF Lengths
<1> HIDE DEF x, L, m
<1>3. ASSUME NEW s \in Ranks
      PROVE  /\ sent(s) \in Seq(Cells) /\ ins \in Seq(Nat)
             /\ Len(sent(s)) = SumOfFirst(ins, world)
             /\ \A r \in 1..world :
                  Slice(sent(s), SumOfFirst(ins, r - 1), ins[r]) = Packet(x, L, m, r, s)
  <2>1. s \in 1..world
    BY <1>1
  <2>2. GatherIsCut(Cells, x, L, world, m, s)
    BY ONLY <1>2, <2>1, GatheringIsCut
  <2> QED BY <2>2 DEF GatherIsCut
<1>4. ASSUME NEW s \in Ranks PROVE outs(s) \in Seq(Nat)
  <2> DEFINE n == L[s] * m
  <2>1. n \in Nat
    BY <1>1
  <2> HIDE DEF n
  <2>2. [e \in 1..world |-> n] \in Seq(Nat)
    BY <1>1, <2>1
  <2> QED BY <2>2 DEF Equally, n
<1>5. \A s \in Ranks : GatherCall(x, L, world, m, s)
        = [op |-> "all_to_all", data |-> sent(s), ins |-> ins, outs |-> outs(s), src |-> 0, size |-> 0]
  BY DEF GatherCall, AllToAll
<1>6. \A s \in Ranks : \A r \in 1..world : ins[r] = L[r] * m /\ outs(s)[r] = L[s] * m
  BY DEF Equally, Scaled
<1> HIDE DEF sent, ins, outs
<1>7. ASSUME NEW s \in Ranks PROVE GatherCall(x, L, world, m, s) # None
  <2>1. sent(s) \in Payloads
    BY <1>3 DEF Payloads
  <2>2. GatherCall(x, L, world, m, s) \in Calls
    BY <1>3, <1>4, <1>5, <2>1 DEF Calls
  <2> QED BY <2>2, Present
<1>8. ASSUME NEW r \in Ranks PROVE GatherReply(x, L, world, m, r) # None
  <2> DEFINE parts == [src \in 1..world |-> Packet(x, L, m, r, src)]
  <2>1. ASSUME NEW src \in 1..world PROVE Packet(x, L, m, r, src) \in Seq(Cells)
    <3>1. r \in 1..world
      BY <1>1
    <3> QED BY ONLY <1>2, <3>1, Packets
  <2>2. parts \in Seq(Seq(Cells))
    BY <1>1, <2>1
  <2> HIDE DEF parts
  <2>3. FlattenSeq(parts) \in Seq(Cells)
    BY <2>2, FlattenedType
  <2>4. GatherReply(x, L, world, m, r) \in Payloads
    BY <2>3 DEF GatherReply, parts, Payloads
  <2> QED BY <2>4, Present
<1>9. ASSUME \A s \in Ranks : call[s] = GatherCall(x, L, world, m, s), NEW r \in Ranks
      PROVE  /\ \A s \in Ranks : Match(r, s)
             /\ Received(r) = GatherReply(x, L, world, m, r)
  <2>1. \A s \in Ranks : /\ call[s].op = "all_to_all" /\ call[s].src = 0 /\ call[s].size = 0
                         /\ call[s].data = sent(s) /\ call[s].ins = ins /\ call[s].outs = outs(s)
    BY <1>5, <1>9
  <2>2. ASSUME NEW s \in Ranks PROVE Match(r, s)
    <3>1. ins[s] = outs(s)[r]
      BY <1>1, <1>6
    <3>2. Len(sent(r)) = SumOfFirst(ins, world)
      BY <1>3
    <3> QED BY <2>1, <3>1, <3>2 DEF Match
  <2>3. Received(r) = FlattenSeq([src \in Ranks |->
                        Slice(call[src].data, SumOfFirst(call[src].ins, r - 1), call[src].ins[r])])
    BY <2>1 DEF Received
  <2>4. \A src \in Ranks :
          Slice(call[src].data, SumOfFirst(call[src].ins, r - 1), call[src].ins[r])
            = Packet(x, L, m, r, src)
    BY <1>1, <1>3, <2>1
  <2>5. Received(r) = FlattenSeq([src \in 1..world |-> Packet(x, L, m, r, src)])
    BY <1>1, <2>3, <2>4
  <2> QED BY <2>2, <2>5 DEF GatherReply
<1> QED BY <1>7, <1>8, <1>9 DEF x, L, m

\* The parts of a broadcast.
LEMMA Broadcasts ==
  ASSUME NEW data, NEW src, NEW size
  PROVE  LET c == Broadcast(data, src, size)
         IN c.op = "broadcast" /\ c.data = data /\ c.src = src /\ c.size = size
BY DEF Broadcast

\* The shards after the last block.
LEMMA RowsMeet ==
  ASSUME world \in Worlds, table \in Layouts, NEW p \in Nat, NEW f \in Nat, NEW d \in Nat,
         NEW src \in Ranks
  PROVE  LET x == TokenRows(Total, p, f, d)
         IN /\ \A r \in Ranks : RowsCall(x, Lengths, r, src) # None
            /\ OwnPart(x, Lengths, src) # None
            /\ (\A s \in Ranks : call[s] = RowsCall(x, Lengths, s, src))
                 => \A r \in Ranks : /\ \A s \in Ranks : Match(r, s)
                                     /\ Received(r) = OwnPart(x, Lengths, src)
<1> DEFINE x == TokenRows(Total, p, f, d)
<1>1. \A r \in Ranks : OwnPart(x, Lengths, r) \in Seq(Tokens)
  BY Sharing DEF Consecutive, Lengths
<1>2. src \in Nat /\ Lengths[src] \in Nat
  BY Sizes, LengthsAre
<1> HIDE DEF x
<1>3. \A r \in Ranks : OwnPart(x, Lengths, r) \in Payloads
  BY <1>1 DEF Payloads
<1>4. ASSUME NEW r \in Ranks PROVE RowsCall(x, Lengths, r, src) # None
  <2>1. RowsCall(x, Lengths, r, src) \in Calls
    BY <1>2, <1>3 DEF RowsCall, Broadcast, Calls
  <2> QED BY <2>1, Present
<1>5. ASSUME \A s \in Ranks : call[s] = RowsCall(x, Lengths, s, src), NEW r \in Ranks
      PROVE  (\A s \in Ranks : Match(r, s)) /\ Received(r) = OwnPart(x, Lengths, src)
  <2>1. \A s \in Ranks : /\ call[s].op = "broadcast" /\ call[s].src = src
                         /\ call[s].size = Lengths[src] /\ call[s].data = OwnPart(x, Lengths, s)
    BY <1>5, Broadcasts DEF RowsCall
  <2> QED BY <2>1 DEF Match, Received
<1> QED BY <1>3, <1>4, <1>5, Present DEF x

\* A chunk has an owner.
LEMMA Owners ==
  ASSUME world \in Worlds, NEW k \in Nat
  PROVE  OwnerOf(world, k) \in Ranks /\ OwnerOf(world, k) \in Nat
BY WorldsAssumption DEF OwnerOf, Ranks

\* What it has to say of the chunk, and the chunk.
LEMMA ChunkMeets ==
  ASSUME world \in Worlds, NEW k \in Nat, NEW p \in Nat
  PROVE  /\ \A r \in Ranks : MetaCall(world, r, k) # None /\ PayloadCall(world, p, r, k) # None
         /\ Shape(k + 1) # None /\ Chunk(p, k + 1) # None
         /\ (\A s \in Ranks : call[s] = MetaCall(world, s, k))
              => \A r \in Ranks : /\ \A s \in Ranks : Match(r, s)
                                  /\ Received(r) = Shape(k + 1)
         /\ (\A s \in Ranks : call[s] = PayloadCall(world, p, s, k))
              => \A r \in Ranks : /\ \A s \in Ranks : Match(r, s)
                                  /\ Received(r) = Chunk(p, k + 1)
<1> DEFINE owner == OwnerOf(world, k)
<1>1. owner \in Ranks /\ owner \in Nat
  BY Owners
<1>2. k + 1 \in Nat /\ Shape(k + 1) = k + 1 /\ Chunk(p, k + 1) \in Nat \X Nat /\ << >> \in Seq(Tokens)
  BY DEF Shape, Chunk
<1> HIDE DEF owner
<1>3. Shape(k + 1) \in Payloads /\ Chunk(p, k + 1) \in Payloads /\ 0 \in Payloads /\ Garbage \in Payloads
  BY <1>2 DEF Payloads, Garbage
<1>4. ASSUME NEW r \in Ranks PROVE MetaCall(world, r, k) \in Calls /\ PayloadCall(world, p, r, k) \in Calls
  <2>1. MetaCall(world, r, k)
          = [op |-> "broadcast", data |-> IF r = owner THEN Shape(k + 1) ELSE 0,
             ins |-> << >>, outs |-> << >>, src |-> owner, size |-> 8]
    BY DEF MetaCall, Broadcast, owner
  <2>2. PayloadCall(world, p, r, k)
          = [op |-> "broadcast", data |-> IF r = owner THEN Chunk(p, k + 1) ELSE Garbage,
             ins |-> << >>, outs |-> << >>, src |-> owner, size |-> Shape(k + 1)]
    BY DEF PayloadCall, Broadcast, owner
  <2> QED BY <1>1, <1>2, <1>3, <2>1, <2>2 DEF Calls
<1>5. ASSUME \A s \in Ranks : call[s] = MetaCall(world, s, k), NEW r \in Ranks
      PROVE  (\A s \in Ranks : Match(r, s)) /\ Received(r) = Shape(k + 1)
  <2>1. \A s \in Ranks : /\ call[s].op = "broadcast" /\ call[s].src = owner /\ call[s].size = 8
                         /\ call[s].data = IF s = owner THEN Shape(k + 1) ELSE 0
    BY <1>5, Broadcasts DEF MetaCall, owner
  <2> QED BY <1>1, <2>1 DEF Match, Received
<1>6. ASSUME \A s \in Ranks : call[s] = PayloadCall(world, p, s, k), NEW r \in Ranks
      PROVE  (\A s \in Ranks : Match(r, s)) /\ Received(r) = Chunk(p, k + 1)
  <2>1. \A s \in Ranks : /\ call[s].op = "broadcast" /\ call[s].src = owner
                         /\ call[s].size = Shape(k + 1)
                         /\ call[s].data = IF s = owner THEN Chunk(p, k + 1) ELSE Garbage
    BY <1>6, Broadcasts DEF PayloadCall, owner
  <2> QED BY <1>1, <2>1 DEF Match, Received
<1> QED BY <1>3, <1>4, <1>5, <1>6, Present

-----------------------------------------------------------------------------
(* A step of one rank leaves the others where they are.                    *)

Untouched(s) ==
  /\ pc'[s] = pc[s] /\ prompt'[s] = prompt[s] /\ forward'[s] = forward[s]
  /\ block'[s] = block[s] /\ ended'[s] = ended[s] /\ shard'[s] = shard[s]
  /\ inBlock'[s] = inBlock[s] /\ packed'[s] = packed[s] /\ whole'[s] = whole[s]
  /\ counter'[s] = counter[s] /\ video'[s] = video[s]
  /\ call'[s] = call[s] /\ reply'[s] = reply[s]

\* No step changes the group, the table or what follows from them.
LEMMA SameSizes ==
  ASSUME UNCHANGED fixedVars
  PROVE  /\ world' = world /\ table' = table /\ split' = split
         /\ Ranks' = Ranks /\ Total' = Total /\ Lengths' = Lengths /\ HeadsLocal' = HeadsLocal
BY DEF fixedVars, Ranks, Total, Lengths, HeadsLocal

\* A rank a step does not touch stays exact, in its round and as live as it was.
LEMMA Frame ==
  ASSUME UNCHANGED fixedVars, NEW s \in Ranks, Untouched(s)
  PROVE  /\ Exact(s) => Exact(s)'
         /\ Round(s)' = Round(s)
         /\ Live(s)' <=> Live(s)
<1>1. /\ world' = world /\ table' = table /\ split' = split
      /\ Total' = Total /\ Lengths' = Lengths /\ HeadsLocal' = HeadsLocal
  BY SameSizes
<1>2. RowsOf(s)' = RowsOf(s) /\ CellsOf(s)' = CellsOf(s) /\ LastRows(s)' = LastRows(s)
  BY <1>1 DEF Untouched, RowsOf, CellsOf, LastRows
<1>3. /\ Quiet(s) => Quiet(s)'
      /\ Before(s) => Before(s)'
      /\ HasShard(s) => HasShard(s)'
      /\ InChunk(s) => InChunk(s)'
      /\ \A k : HasColumns(s, k) => HasColumns(s, k)'
  BY <1>1, <1>2 DEF Untouched, Quiet, Before, HasShard, InChunk, HasColumns
<1>4. AtRefine(s) => AtRefine(s)'
  BY <1>3 DEF AtRefine
<1>5. AtBlock(s) => AtBlock(s)'
  BY <1>1, <1>3 DEF Untouched, AtBlock
<1>6. AtScatter(s) => AtScatter(s)'
  BY <1>1, <1>2, <1>3 DEF Untouched, AtScatter
<1>7. AtAttend(s) => AtAttend(s)'
  BY <1>3 DEF AtAttend
<1>8. AtGather(s) => AtGather(s)'
  BY <1>1, <1>2, <1>3 DEF Untouched, AtGather
<1>9. AtRows(s) => AtRows(s)'
  BY <1>1, <1>2, <1>3 DEF Untouched, AtRows
<1>10. AtDecode(s) => AtDecode(s)'
  BY <1>2, <1>3 DEF Untouched, AtDecode
<1>11. AtChunk(s) => AtChunk(s)'
  BY <1>1, <1>3 DEF Untouched, AtChunk
<1>12. AtMeta(s) => AtMeta(s)'
  BY <1>1, <1>3 DEF Untouched, AtMeta
<1>13. AtPayload(s) => AtPayload(s)'
  BY <1>1, <1>3 DEF Untouched, AtPayload
<1>14. Exact(s) => Exact(s)'
  BY <1>1, <1>3, <1>4, <1>5, <1>6, <1>7, <1>8, <1>9, <1>10, <1>11, <1>12, <1>13
     DEF Untouched, Exact, InForward
<1>15. At(s)' = At(s)
  BY <1>1 DEF Untouched, At
<1>16. Round(s)' = Round(s)
  BY <1>1, <1>15 DEF Untouched, Round
<1>17. Live(s)' <=> Live(s)
  BY DEF Untouched, Live
<1> QED BY <1>14, <1>16, <1>17

\* What a step of rank r changes, whatever it does: its own place in the
\* variables, to values of their types.
Own(f, g, r) == FunctionOfRanks(g) /\ \A s \in Ranks \ {r} : g[s] = f[s]
OwnPlaces(r) ==
  /\ Own(pc, pc', r) /\ Own(forward, forward', r) /\ Own(block, block', r)
  /\ Own(ended, ended', r) /\ Own(shard, shard', r) /\ Own(inBlock, inBlock', r)
  /\ Own(packed, packed', r) /\ Own(whole, whole', r) /\ Own(counter, counter', r)
  /\ Own(video, video', r) /\ Own(call, call', r) /\ Own(reply, reply', r)
OwnValues(r) ==
  /\ pc'[r] \in Places /\ forward'[r] \in 1..Forwards /\ block'[r] \in 1..Blocks
  /\ ended'[r] \in {"none", "ok", "failed"}
Flags ==
  /\ broken' \in BOOLEAN /\ raised' \in BOOLEAN
  /\ (broken => broken') /\ (raised => raised')
OwnStep(r) ==
  /\ UNCHANGED fixedVars /\ UNCHANGED prompt /\ OwnPlaces(r) /\ OwnValues(r)
  /\ inBlock'[r] \in BOOLEAN /\ Flags

\* A rank's own step touches no other rank.
LEMMA OthersUntouched ==
  ASSUME NEW r \in Ranks, OwnStep(r), NEW s \in Ranks, s # r
  PROVE  Untouched(s)
<1>1. s \in Ranks \ {r}
  OBVIOUS
<1> QED BY <1>1 DEF OwnStep, OwnPlaces, Own, Untouched

\* It keeps the types.
LEMMA OwnTypes ==
  ASSUME Types, NEW r \in Ranks, OwnStep(r)
  PROVE  Types'
<1>1. world' = world /\ table' = table /\ split' = split /\ Ranks' = Ranks
  BY SameSizes DEF OwnStep
<1>2. ASSUME NEW s \in Ranks
      PROVE  /\ pc'[s] \in Places /\ forward'[s] \in 1..Forwards /\ block'[s] \in 1..Blocks
             /\ inBlock'[s] \in BOOLEAN /\ ended'[s] \in {"none", "ok", "failed"}
  <2>1. CASE s = r
    BY <2>1 DEF OwnStep, OwnValues
  <2>2. CASE s # r
    BY <2>2, OthersUntouched DEF Types, Untouched
  <2> QED BY <2>1, <2>2
<1>3. /\ FunctionOfRanks(pc') /\ FunctionOfRanks(forward') /\ FunctionOfRanks(block')
      /\ FunctionOfRanks(inBlock') /\ FunctionOfRanks(ended')
  BY DEF OwnStep, OwnPlaces, Own
<1>4. /\ pc' \in [Ranks -> Places] /\ forward' \in [Ranks -> 1..Forwards]
      /\ block' \in [Ranks -> 1..Blocks] /\ inBlock' \in [Ranks -> BOOLEAN]
      /\ ended' \in [Ranks -> {"none", "ok", "failed"}]
  BY <1>2, <1>3 DEF FunctionOfRanks
<1>5. /\ FunctionOfRanks(shard)' /\ FunctionOfRanks(packed)' /\ FunctionOfRanks(whole)'
      /\ FunctionOfRanks(counter)' /\ FunctionOfRanks(video)'
      /\ FunctionOfRanks(call)' /\ FunctionOfRanks(reply)'
  BY <1>1 DEF OwnStep, OwnPlaces, Own, FunctionOfRanks
<1> QED BY <1>1, <1>4, <1>5 DEF Types, OwnStep, Flags

\* Such a step keeps the invariant if the rank keeps its part of it.
LEMMA OwnStepKeeps ==
  ASSUME IInv, NEW r \in Ranks, OwnStep(r), Exact(r)', LostForACause',
         pc[r] # "idle",
         pc'[r] # "idle" => ended'[r] = ended[r],
         pc'[r] = "idle" => ended'[r] \in {"ok", "failed"},
         ended'[r] = "failed" => raised' \/ broken',
         Live(r)' => Round(r)' = Round(r)
  PROVE  IInv'
<1>1. world' = world /\ split' = split /\ Ranks' = Ranks /\ prompt' = prompt /\ UNCHANGED fixedVars
  BY SameSizes DEF OwnStep
<1>2. Types'
  BY OwnTypes DEF IInv
<1>3. ASSUME NEW s \in Ranks, s # r
      PROVE  Exact(s)' /\ Round(s)' = Round(s) /\ (Live(s)' <=> Live(s)) /\ Untouched(s)
  <2>1. Untouched(s)
    BY <1>3, OthersUntouched
  <2> QED BY <1>1, <2>1, Frame DEF IInv
<1>4. \A s \in Ranks : Exact(s)'
  BY <1>3
<1>5. \A s \in Ranks : Live(s)' => Live(s) /\ Round(s)' = Round(s)
  BY <1>3 DEF Live
<1>6. InStep'
  BY <1>1, <1>5 DEF IInv, InStep
<1>7. Endings'
  <2>1. \A s \in Ranks : s # r => pc'[s] = pc[s] /\ ended'[s] = ended[s]
    BY <1>3 DEF Untouched
  <2>2. \A a, b \in Ranks : prompt'[a] = prompt'[b]
    BY <1>1 DEF IInv, Endings
  <2>3. \A s \in Ranks : pc'[s] # "idle" => ended'[s] = "none"
    BY <2>1 DEF IInv, Endings
  <2>4. \A s \in Ranks : ended'[s] = "failed" => raised' \/ broken'
    BY <2>1 DEF IInv, Endings, OwnStep, Flags
  <2>5. \A a, b \in Ranks : pc'[a] = "idle" /\ ended'[a] = "none" => pc'[b] = "idle"
    BY <2>1 DEF IInv, Endings
  <2> QED BY <1>1, <2>2, <2>3, <2>4, <2>5 DEF Endings
<1> QED BY <1>1, <1>2, <1>4, <1>6, <1>7 DEF IInv

\* A step within the prompt keeps the invariant if the rank stays exact and in its round.
LEMMA OrdinaryStep ==
  ASSUME IInv, NEW r \in Ranks, UNCHANGED <<fixedVars, prompt, ended, broken, raised>>,
         OwnPlaces(r), OwnValues(r), inBlock'[r] \in BOOLEAN,
         pc[r] # "idle", pc'[r] # "idle", Exact(r)', Round(r)' = Round(r)
  PROVE  IInv'
<1>0. Flags
  <2>1. broken \in BOOLEAN /\ raised \in BOOLEAN
    BY DEF IInv, Types
  <2>2. broken' = broken /\ raised' = raised
    OBVIOUS
  <2> QED BY <2>1, <2>2 DEF Flags
<1>1. OwnStep(r)
  BY <1>0 DEF OwnStep
<1>2. LostForACause'
  BY SameSizes DEF IInv, LostForACause
<1>3. ended[r] = "none" /\ ended'[r] = "none"
  BY DEF IInv, Endings
<1> QED BY <1>1, <1>2, <1>3, OwnStepKeeps

\* A variable of the ranks that a step changes for one, or leaves.
LEMMA OwnChange ==
  ASSUME NEW f, FunctionOfRanks(f), NEW r \in Ranks, NEW e
  PROVE  Own(f, [f EXCEPT ![r] = e], r) /\ [f EXCEPT ![r] = e][r] = e
<1>1. \A s \in Ranks : [f EXCEPT ![r] = e][s] = IF s = r THEN e ELSE f[s]
  BY DEF FunctionOfRanks
<1>2. DOMAIN f = Ranks
  BY DEF FunctionOfRanks
<1>3. [f EXCEPT ![r] = e] = [s \in Ranks |-> [f EXCEPT ![r] = e][s]]
  BY <1>2
<1> QED BY <1>1, <1>3 DEF Own, FunctionOfRanks

\* What a step leaves alone it changes for nobody else.
LEMMA OwnSame ==
  ASSUME NEW f, FunctionOfRanks(f), NEW r \in Ranks
  PROVE  Own(f, f, r)
BY DEF Own

-----------------------------------------------------------------------------
(* Each of a rank's steps keeps it exact, and in its round.                *)

\* What the invariant says of the constants, the variables and the numbers.
LEMMA Plain ==
  ASSUME IInv, NEW r \in Ranks
  PROVE  /\ world \in Worlds /\ table \in Layouts /\ world \in Nat /\ world > 1
         /\ Blocks \in Nat /\ Blocks > 0 /\ Forwards \in Nat /\ Forwards > 0
         /\ Chunks \in Nat /\ Chunks > 0
         /\ prompt[r] \in Nat /\ forward[r] \in Nat /\ forward[r] \in 1..Forwards
         /\ block[r] \in Nat /\ block[r] \in 1..Blocks /\ block[r] - 1 \in Nat
         /\ r \in Nat
         /\ pc[r] \in Places /\ inBlock[r] \in BOOLEAN /\ ended[r] \in {"none", "ok", "failed"}
         /\ broken \in BOOLEAN /\ raised \in BOOLEAN
<1>1. world \in Nat \ {0} /\ world > 1 /\ Ranks = 1..world
  BY Sizes DEF IInv, Types
<1> QED BY <1>1, BoundsAssumption DEF IInv, Types

\* Every variable of the ranks is a function of them.
LEMMA Functions ==
  ASSUME Types
  PROVE  /\ FunctionOfRanks(pc) /\ FunctionOfRanks(forward) /\ FunctionOfRanks(block)
         /\ FunctionOfRanks(ended) /\ FunctionOfRanks(inBlock)
         /\ FunctionOfRanks(shard) /\ FunctionOfRanks(packed) /\ FunctionOfRanks(whole)
         /\ FunctionOfRanks(counter) /\ FunctionOfRanks(video)
         /\ FunctionOfRanks(call) /\ FunctionOfRanks(reply)
BY DEF Types, FunctionOfRanks

\* What a rank has gathered, one piece more.
LEMMA MoreColumns ==
  ASSUME NEW x, NEW m, NEW r, NEW k \in Nat
  PROVE  /\ ColumnsHeld(x, m, r, 0) = << >>
         /\ Len(ColumnsHeld(x, m, r, k)) = k
         /\ Append(ColumnsHeld(x, m, r, k), HeadsPart(x, m, r)) = ColumnsHeld(x, m, r, k + 1)
<1> DEFINE h == HeadsPart(x, m, r)
           T == {h}
<1>1. h \in T
  OBVIOUS
<1> HIDE DEF h, T
<1>2. [j \in 1..k |-> h] \in Seq(T) /\ [j \in 1..k + 1 |-> h] \in Seq(T)
  BY <1>1
<1>3. Append([j \in 1..k |-> h], h) = [j \in 1..k + 1 |-> h]
  BY <1>1, <1>2
<1>4. [j \in 1..0 |-> h] = << >> /\ Len([j \in 1..k |-> h]) = k
  OBVIOUS
<1> QED BY <1>3, <1>4 DEF ColumnsHeld, h

\* The same of the shards.
LEMMA MoreShards ==
  ASSUME NEW x, NEW lengths, NEW k \in Nat
  PROVE  /\ ShardsHeld(x, lengths, 0) = << >>
         /\ Len(ShardsHeld(x, lengths, k)) = k
         /\ Append(ShardsHeld(x, lengths, k), OwnPart(x, lengths, k + 1)) = ShardsHeld(x, lengths, k + 1)
<1> DEFINE T == {OwnPart(x, lengths, j) : j \in 1..k + 1}
           a == ShardsHeld(x, lengths, k)
           b == ShardsHeld(x, lengths, k + 1)
<1>1. \A j \in 1..k + 1 : OwnPart(x, lengths, j) \in T
  OBVIOUS
<1> HIDE DEF T
<1>2. a \in Seq(T) /\ b \in Seq(T) /\ Len(a) = k /\ Len(b) = k + 1
  BY <1>1 DEF ShardsHeld
<1>3. (\A j \in 1..k : a[j] = b[j]) /\ b[k + 1] = OwnPart(x, lengths, k + 1)
  BY DEF ShardsHeld
<1>4. ShardsHeld(x, lengths, 0) = << >>
  BY DEF ShardsHeld
<1> HIDE DEF a, b
<1>5. Append(a, b[k + 1]) = b
  BY <1>2, <1>3
<1> QED BY <1>2, <1>3, <1>4, <1>5 DEF a, b

\* The same of the chunks.
LEMMA MoreChunks ==
  ASSUME NEW p, NEW k \in Nat
  PROVE  /\ ChunksHeld(p, 0) = << >>
         /\ Len(ChunksHeld(p, k)) = k
         /\ Append(ChunksHeld(p, k), Chunk(p, k + 1)) = ChunksHeld(p, k + 1)
<1> DEFINE T == {Chunk(p, j) : j \in 1..k + 1}
           a == ChunksHeld(p, k)
           b == ChunksHeld(p, k + 1)
<1>1. \A j \in 1..k + 1 : Chunk(p, j) \in T
  OBVIOUS
<1> HIDE DEF T
<1>2. a \in Seq(T) /\ b \in Seq(T) /\ Len(a) = k /\ Len(b) = k + 1
  BY <1>1 DEF ChunksHeld
<1>3. (\A j \in 1..k : a[j] = b[j]) /\ b[k + 1] = Chunk(p, k + 1)
  BY DEF ChunksHeld
<1>4. ChunksHeld(p, 0) = << >>
  BY DEF ChunksHeld
<1> HIDE DEF a, b
<1>5. Append(a, b[k + 1]) = b
  BY <1>2, <1>3
<1> QED BY <1>2, <1>3, <1>4, <1>5 DEF a, b

\* Where a rank holds its shard, what it computes is exact.
LEMMA InShard ==
  ASSUME IInv, NEW r \in Ranks, HasShard(r)
  PROVE  /\ shard[r].seq_lengths = Lengths
         /\ Len(packed[r]) = Lengths[r]
         /\ ScatterBuffer(Projection(r)) = Scattering(CellsOf(r), Lengths, world, HeadsLocal, r)
<1>1. Consecutive(Tokens, RowsOf(r), Lengths, r)
  BY Plain, Sharing DEF RowsOf, Lengths
<1>2. Len(packed[r]) = Lengths[r]
  BY <1>1 DEF HasShard, Consecutive
<1>3. shard[r].seq_lengths = Lengths
  BY Plain, ShardIs DEF HasShard
<1>4. Projection(r) = OwnPart(CellsOf(r), Lengths, r)
  BY Plain, ProjectionIsExact DEF HasShard, RowsOf, CellsOf
<1>5. ScatterBuffer(OwnPart(CellsOf(r), Lengths, r)) = Scattering(CellsOf(r), Lengths, world, HeadsLocal, r)
  BY Plain, ScatterBufferIs DEF CellsOf
<1> QED BY <1>2, <1>3, <1>4, <1>5

\* The round of each place.
LEMMA Rounds ==
  ASSUME NEW f, NEW b, NEW g, NEW v, NEW s
  PROVE  /\ Place("idle", f, b, g, v, s)    = End
         /\ Place("refine", f, b, g, v, s)  = <<f, 1, "scatter", 0>>
         /\ Place("block", f, b, g, v, s)   = <<f, b, "scatter", 0>>
         /\ Place("scatter", f, b, g, v, s) = <<f, b, "scatter", g>>
         /\ Place("attend", f, b, g, v, s)  = <<f, b, "gather", 0>>
         /\ Place("gather", f, b, g, v, s)  = <<f, b, "gather", 0>>
         /\ Place("rows", f, b, g, v, s)    = <<f, Blocks, "rows", g>>
         /\ Place("decode", f, b, g, v, s)  = FromChunk(s, 0)
         /\ Place("chunk", f, b, g, v, s)   = FromChunk(s, v)
         /\ Place("meta", f, b, g, v, s)    = <<Forwards, Blocks, "meta", v>>
         /\ Place("payload", f, b, g, v, s) = <<Forwards, Blocks, "payload", v>>
BY DEF Place

\* The whole sequence of this step, not yet in a block.
LEMMA RefineKeeps ==
  ASSUME IInv, NEW r \in Ranks, Refine(r)
  PROVE  IInv'
<1>1. Types /\ Exact(r) /\ pc[r] = "refine" /\ AtRefine(r)
  BY DEF IInv, Refine, Exact
<1>2. /\ UNCHANGED <<fixedVars, raised, prompt, forward, ended, whole, counter, video, call, reply, broken>>
      /\ pc' = [pc EXCEPT ![r] = "block"]
      /\ block' = [block EXCEPT ![r] = 1]
      /\ shard' = [shard EXCEPT ![r] = None]
      /\ inBlock' = [inBlock EXCEPT ![r] = FALSE]
      /\ packed' = [packed EXCEPT ![r] = Hidden(prompt[r], forward[r], 0)]
  BY DEF Refine, Goto, videoVars, wireVars
<1>3. /\ pc'[r] = "block" /\ block'[r] = 1 /\ shard'[r] = None /\ inBlock'[r] = FALSE
      /\ packed'[r] = TokenRows(Total, prompt[r], forward[r], 0)
  BY <1>1, <1>2, Functions, OwnChange DEF Hidden, TokenRows
<1>4. OwnPlaces(r) /\ OwnValues(r) /\ inBlock'[r] \in BOOLEAN
  <2>1. OwnPlaces(r)
    BY <1>1, <1>2, Functions, OwnChange, OwnSame DEF OwnPlaces
  <2>2. OwnValues(r)
    BY <1>2, <1>3, Plain DEF OwnValues, Places
  <2>3. inBlock'[r] \in BOOLEAN
    BY <1>3
  <2> QED BY <2>1, <2>2, <2>3
<1>5. AtBlock(r)'
  BY <1>1, <1>2, <1>3, SameSizes DEF AtRefine, AtBlock, Quiet, Before
<1>6. Exact(r)'
  BY <1>1, <1>2, <1>3, <1>5, SameSizes DEF Exact, InForward
<1>7. Round(r)' = Round(r)
  <2>1. reply[r] = None /\ reply'[r] = None /\ forward'[r] = forward[r]
    BY <1>1, <1>2 DEF AtRefine, Quiet
  <2>2. Round(r) = <<forward[r], 1, "scatter", 0>>
    BY <1>1, <2>1, Rounds DEF Round, At
  <2>3. Round(r)' = <<forward[r], 1, "scatter", 0>>
    BY <1>3, <2>1, Rounds DEF Round, At
  <2> QED BY <2>2, <2>3
<1> QED BY <1>1, <1>2, <1>3, <1>4, <1>6, <1>7, OrdinaryStep

\* The first block takes the rank's shard of it; the others have one.
LEMMA EnterBlockKeeps ==
  ASSUME IInv, NEW r \in Ranks, EnterBlock(r)
  PROVE  IInv'
<1>1. Types /\ Exact(r) /\ pc[r] = "block" /\ AtBlock(r)
  BY DEF IInv, EnterBlock, Exact
<1>2. /\ UNCHANGED <<fixedVars, raised, prompt, forward, block, ended, counter, video, call, reply, broken>>
      /\ pc' = [pc EXCEPT ![r] = "scatter"]
      /\ inBlock' = [inBlock EXCEPT ![r] = TRUE]
      /\ whole' = [whole EXCEPT ![r] = << >>]
  BY DEF EnterBlock, Goto, jobVars, videoVars, wireVars
<1>3. pc'[r] = "scatter" /\ inBlock'[r] = TRUE /\ whole'[r] = << >>
  BY <1>1, <1>2, Functions, OwnChange
<1>4. /\ Own(shard, shard', r) /\ shard'[r] = ShardOf(world, Total, ToSet(table), r)
      /\ Own(packed, packed', r) /\ packed'[r] = OwnPart(RowsOf(r), Lengths, r)
  <2>1. CASE block[r] = 1
    <3>1. /\ shard' = [shard EXCEPT ![r] = Shard(r)]
          /\ packed' = [packed EXCEPT ![r] = SubSeq(packed[r], Shard(r).start + 1, Shard(r).stop)]
      BY <2>1 DEF EnterBlock
    <3>2. packed[r] = RowsOf(r)
      BY <1>1, <2>1 DEF AtBlock, RowsOf
    <3>3. SubSeq(RowsOf(r), Shard(r).start + 1, Shard(r).stop) = OwnPart(RowsOf(r), Lengths, r)
      BY ShardIs, Plain DEF OwnPart, Slice
    <3>4. Shard(r) = ShardOf(world, Total, ToSet(table), r)
      BY ShardIs, Plain
    <3> DEFINE own  == ShardOf(world, Total, ToSet(table), r)
               rows == OwnPart(RowsOf(r), Lengths, r)
    <3>5. shard' = [shard EXCEPT ![r] = own] /\ packed' = [packed EXCEPT ![r] = rows]
      BY <3>1, <3>2, <3>3, <3>4
    <3> HIDE DEF own, rows
    <3>6. Own(shard, shard', r) /\ shard'[r] = own /\ Own(packed, packed', r) /\ packed'[r] = rows
      BY <1>1, <3>5, Functions, OwnChange
    <3> QED BY <3>6 DEF own, rows
  <2>2. CASE block[r] # 1
    <3>1. shard' = shard /\ packed' = packed
      BY <2>2 DEF EnterBlock
    <3> QED BY <1>1, <2>2, <3>1, Functions, OwnSame DEF AtBlock, HasShard
  <2> QED BY <2>1, <2>2
<1>5. OwnPlaces(r) /\ OwnValues(r) /\ inBlock'[r] \in BOOLEAN
  <2>1. OwnPlaces(r)
    BY <1>1, <1>2, <1>4, Functions, OwnChange, OwnSame DEF OwnPlaces
  <2>2. OwnValues(r)
    BY <1>2, <1>3, Plain DEF OwnValues, Places
  <2>3. inBlock'[r] \in BOOLEAN
    BY <1>3
  <2> QED BY <2>1, <2>2, <2>3
<1>6. AtScatter(r)'
  <2>1. HasShard(r)'
    BY <1>2, <1>4, SameSizes DEF HasShard, RowsOf
  <2>2. Before(r)' /\ call'[r] = None /\ reply'[r] = None
    BY <1>1, <1>2 DEF AtBlock, Before, Quiet
  <2>3. HasColumns(r, 0)'
    BY <1>3, MoreColumns DEF HasColumns
  <2> QED BY <2>1, <2>2, <2>3 DEF AtScatter
<1>7. Exact(r)'
  <2>1. Len(whole'[r]) = 0 /\ 0 \in 0..Maximum(3, world)'
    BY <1>2, <1>3, Plain DEF fixedVars, Maximum
  <2> QED BY <1>1, <1>2, <1>3, <1>6, <2>1, SameSizes DEF Exact, InForward
<1>8. Round(r)' = Round(r)
  BY <1>1, <1>2, <1>3, SameSizes, Rounds DEF Round, At, AtBlock, Quiet
<1> QED BY <1>1, <1>2, <1>3, <1>5, <1>7, <1>8, OrdinaryStep DEF jobVars

\* The call is the one of the unpatched model's cells.
LEMMA ScatterKeeps ==
  ASSUME IInv, NEW r \in Ranks, Scatter(r)
  PROVE  IInv'
<1>1. Types /\ Exact(r) /\ pc[r] = "scatter" /\ AtScatter(r) /\ reply[r] = None /\ HasShard(r)
  BY DEF IInv, Scatter, Exact, AtScatter
<1> DEFINE c == ScatterCall(CellsOf(r), Lengths, world, HeadsLocal, r)
<1>2. /\ UNCHANGED <<fixedVars, raised, pc, prompt, forward, block, ended, shard, inBlock, packed, whole,
                     counter, video, reply, broken>>
      /\ call' = [call EXCEPT ![r] = c]
  <2>1. AllToAll(ScatterBuffer(Projection(r)), [dst \in Ranks |-> Len(packed[r]) * HeadsLocal],
                 [src \in Ranks |-> shard[r].seq_lengths[src] * HeadsLocal]) = c
    BY <1>1, InShard, Sizes, Plain DEF ScatterCall, Equally, Scaled
  <2> QED BY <2>1 DEF Scatter, Call, jobVars, shardVars, videoVars
<1> HIDE DEF c
<1>3. call'[r] = c
  BY <1>1, <1>2, Functions, OwnChange
<1>4. OwnPlaces(r) /\ OwnValues(r) /\ inBlock'[r] \in BOOLEAN
  <2>1. OwnPlaces(r)
    BY <1>1, <1>2, Functions, OwnChange, OwnSame DEF OwnPlaces
  <2>2. OwnValues(r)
    BY <1>2, Plain DEF OwnValues
  <2>3. inBlock'[r] \in BOOLEAN
    BY <1>2, Plain
  <2> QED BY <2>1, <2>2, <2>3
<1>5. AtScatter(r)'
  <2>1. HasShard(r)' /\ Before(r)' /\ CellsOf(r)' = CellsOf(r)
    BY <1>1, <1>2, SameSizes DEF AtScatter, HasShard, RowsOf, Before, CellsOf
  <2>2. \E k \in 0..2 : HasColumns(r, k)'
    BY <1>1, <1>2, <2>1, SameSizes DEF AtScatter, HasColumns
  <2> QED BY <1>1, <1>2, <1>3, <2>1, <2>2, SameSizes DEF AtScatter, c
<1>6. Exact(r)'
  BY <1>1, <1>2, <1>5, SameSizes DEF Exact, InForward
<1>7. Round(r)' = Round(r)
  BY <1>1, <1>2, SameSizes DEF Round, At
<1> QED BY <1>1, <1>2, <1>4, <1>6, <1>7, OrdinaryStep

\* One more of q, k and v; after v the rank goes on to the attention.
LEMMA ScatteredKeeps ==
  ASSUME IInv, NEW r \in Ranks, Scattered(r)
  PROVE  IInv'
<1>1. Types /\ Exact(r) /\ pc[r] = "scatter" /\ AtScatter(r) /\ reply[r] # None /\ HasShard(r) /\ call[r] = None
  BY DEF IInv, Scattered, Exact, AtScatter
<1>2. PICK k \in 0..2 : HasColumns(r, k)
  BY <1>1 DEF AtScatter
<1> DEFINE columns == ColumnsHeld(CellsOf(r), HeadsLocal, r, k + 1)
<1>3. k \in Nat /\ k + 1 \in Nat /\ Len(columns) = k + 1 /\ Len(whole[r]) = k
  BY <1>2, MoreColumns DEF HasColumns
<1>4. Append(whole[r], Gathered(reply[r], shard[r].seq_lengths)) = columns
  <2>1. reply[r] = ScatterReply(CellsOf(r), Lengths, world, HeadsLocal, r) /\ shard[r].seq_lengths = Lengths
    BY <1>1, InShard DEF AtScatter
  <2>2. Gathered(reply[r], shard[r].seq_lengths) = HeadsPart(CellsOf(r), HeadsLocal, r)
    BY <2>1, Plain, GatheredIs DEF CellsOf
  <2> QED BY <1>2, <1>3, <2>2, MoreColumns DEF HasColumns
<1> HIDE DEF columns
<1>5. /\ UNCHANGED <<fixedVars, raised, prompt, forward, block, ended, shard, inBlock, packed,
                     counter, video, call, broken>>
      /\ whole' = [whole EXCEPT ![r] = columns]
      /\ pc' = [pc EXCEPT ![r] = IF Len(whole'[r]) = 3 THEN "attend" ELSE "scatter"]
      /\ reply' = [reply EXCEPT ![r] = None]
  BY <1>4 DEF Scattered, Goto, Return, jobVars, shardVars, videoVars
<1>6. whole'[r] = columns /\ reply'[r] = None
  BY <1>1, <1>5, Functions, OwnChange
<1>7. Own(pc, pc', r) /\ pc'[r] = IF k = 2 THEN "attend" ELSE "scatter"
  <2> DEFINE place == IF Len(whole'[r]) = 3 THEN "attend" ELSE "scatter"
  <2>1. place = IF k = 2 THEN "attend" ELSE "scatter"
    BY <1>3, <1>6
  <2> HIDE DEF place
  <2>2. pc' = [pc EXCEPT ![r] = place]
    BY <1>5 DEF place
  <2> QED BY <1>1, <2>1, <2>2, Functions, OwnChange
<1>8. OwnPlaces(r) /\ OwnValues(r) /\ inBlock'[r] \in BOOLEAN
  <2>1. OwnPlaces(r)
    BY <1>1, <1>5, <1>7, Functions, OwnChange, OwnSame DEF OwnPlaces
  <2>2. OwnValues(r)
    BY <1>5, <1>7, Plain DEF OwnValues, Places
  <2>3. inBlock'[r] \in BOOLEAN
    BY <1>5, Plain
  <2> QED BY <2>1, <2>2, <2>3
<1>9. /\ HasShard(r)' /\ Before(r)' /\ HasColumns(r, k + 1)' /\ Quiet(r)'
  BY <1>1, <1>5, <1>6, SameSizes DEF AtScatter, HasShard, RowsOf, Before, CellsOf, HasColumns, Quiet, columns
<1>10. Exact(r)'
  <2>1. Len(whole'[r]) = k + 1 /\ k + 1 \in 0..Maximum(3, world)' /\ k + 1 \in 0..3
    BY <1>3, <1>5, <1>6, Plain DEF fixedVars, Maximum
  <2>2. CASE k = 2
    <3>1. AtAttend(r)'
      BY <1>9, <2>2 DEF AtAttend
    <3>2. pc'[r] = "attend"
      BY <1>7, <2>2
    <3> QED BY <1>1, <1>5, <2>1, <3>1, <3>2, SameSizes DEF Exact, InForward
  <2>3. CASE k # 2
    <3>1. AtScatter(r)'
      <4>1. k + 1 \in 0..2
        BY <2>3
      <4> QED BY <1>9, <4>1 DEF AtScatter, Quiet
    <3>2. pc'[r] = "scatter"
      BY <1>7, <2>3
    <3> QED BY <1>1, <1>5, <2>1, <3>1, <3>2, SameSizes DEF Exact, InForward
  <2> QED BY <2>2, <2>3
<1>11. Round(r)' = Round(r)
  <2>1. Round(r) = After(world, split[r], <<forward[r], block[r], "scatter", k>>)
    BY <1>1, <1>3, Rounds DEF Round, At
  <2>2. Round(r)' = Place(pc'[r], forward[r], block[r], k + 1, Len(video[r]), split[r])
    BY <1>3, <1>5, <1>6, SameSizes DEF Round, At
  <2>3. k \in {0, 1, 2}
    OBVIOUS
  <2>4. Round(r)' = IF k = 2 THEN <<forward[r], block[r], "gather", 0>>
                    ELSE <<forward[r], block[r], "scatter", k + 1>>
    BY <1>7, <2>2, Rounds
  <2> QED BY <2>1, <2>3, <2>4 DEF After
<1> QED BY <1>1, <1>5, <1>7, <1>8, <1>10, <1>11, OrdinaryStep

\* Attention leaves the cells as they are, so the call is of those.
LEMMA GatherKeeps ==
  ASSUME IInv, NEW r \in Ranks, Gather(r)
  PROVE  IInv'
<1>1. Types /\ Exact(r) /\ pc[r] = "attend" /\ AtAttend(r) /\ HasShard(r)
  BY DEF IInv, Gather, Exact, AtAttend
<1> DEFINE c == GatherCall(CellsOf(r), Lengths, world, HeadsLocal, r)
<1>2. /\ UNCHANGED <<fixedVars, raised, prompt, forward, block, ended, shard, inBlock, packed, whole,
                     counter, video, reply, broken>>
      /\ pc' = [pc EXCEPT ![r] = "gather"]
      /\ call' = [call EXCEPT ![r] = c]
  <2>1. Attention(r) = HeadsPart(CellsOf(r), HeadsLocal, r)
    BY <1>1, Plain, AttentionIs DEF AtAttend, HasColumns, CellsOf
  <2>2. AllToAll(FlattenSeq(Attention(r)), [dst \in Ranks |-> shard[r].seq_lengths[dst] * HeadsLocal],
                 [src \in Ranks |-> shard[r].seq_lengths[r] * HeadsLocal]) = c
    BY <1>1, <2>1, InShard, Sizes, Plain DEF GatherCall, Equally, Scaled
  <2> QED BY <2>2 DEF Gather, Goto, Call, jobVars, shardVars, videoVars
<1> HIDE DEF c
<1>3. pc'[r] = "gather" /\ call'[r] = c
  BY <1>1, <1>2, Functions, OwnChange
<1>4. OwnPlaces(r) /\ OwnValues(r) /\ inBlock'[r] \in BOOLEAN
  <2>1. OwnPlaces(r)
    BY <1>1, <1>2, Functions, OwnChange, OwnSame DEF OwnPlaces
  <2>2. OwnValues(r)
    BY <1>2, <1>3, Plain DEF OwnValues, Places
  <2>3. inBlock'[r] \in BOOLEAN
    BY <1>2, Plain
  <2> QED BY <2>1, <2>2, <2>3
<1>5. AtGather(r)'
  <2>1. HasShard(r)' /\ Before(r)' /\ CellsOf(r)' = CellsOf(r)
    BY <1>1, <1>2, SameSizes DEF AtAttend, HasShard, RowsOf, Before, CellsOf
  <2> QED BY <1>1, <1>2, <1>3, <2>1, SameSizes DEF AtAttend, Quiet, AtGather, c
<1>6. Exact(r)'
  BY <1>1, <1>2, <1>3, <1>5, SameSizes DEF Exact, InForward
<1>7. Round(r)' = Round(r)
  BY <1>1, <1>2, <1>3, SameSizes, Rounds DEF Round, At, AtAttend, Quiet
<1> QED BY <1>1, <1>2, <1>3, <1>4, <1>6, <1>7, OrdinaryStep

\* The next block's rows, and with the last block the way to the gather.
LEMMA LeaveBlockKeeps ==
  ASSUME IInv, NEW r \in Ranks, LeaveBlock(r)
  PROVE  IInv'
<1>1. Types /\ Exact(r) /\ pc[r] = "gather" /\ AtGather(r) /\ reply[r] # None /\ HasShard(r) /\ call[r] = None
  BY DEF IInv, LeaveBlock, Exact, AtGather
<1> DEFINE next == TokenRows(Total, prompt[r], forward[r], block[r])
           rows == OwnPart(next, Lengths, r)
           left == HeadsConcatenated(reply[r], shard[r].seq_lengths[r])
<1>2. [i \in DOMAIN packed[r] |-> Output(packed[r][i], left[i])] = rows
  <2> DEFINE d == block[r] - 1
  <2>1. left = OwnPart(TokenCells(Total, prompt[r], forward[r], d), Lengths, r)
    BY <1>1, InShard, Plain, ConcatenatedIs DEF AtGather, CellsOf
  <2>2. packed[r] = OwnPart(TokenRows(Total, prompt[r], forward[r], d), Lengths, r)
    BY <1>1 DEF HasShard, RowsOf
  <2>3. d \in Nat /\ d + 1 = block[r]
    BY Plain
  <2> HIDE DEF left, d
  <2>4. [i \in DOMAIN packed[r] |-> Output(packed[r][i], left[i])]
          = OwnPart(TokenRows(Total, prompt[r], forward[r], d + 1), Lengths, r)
    <3> DEFINE p == prompt[r]
               f == forward[r]
               mine == packed[r]
    <3>1. mine = OwnPart(TokenRows(Total, p, f, d), Lengths, r)
      BY <2>2
    <3>2. left = OwnPart(TokenCells(Total, p, f, d), Lengths, r)
      BY <2>1
    <3>3. world \in Worlds /\ table \in Layouts /\ p \in Nat /\ f \in Nat /\ d \in Nat /\ r \in Ranks
      BY <2>3, Plain
    <3> HIDE DEF p, f, mine
    <3>4. [i \in DOMAIN mine |-> Output(mine[i], left[i])]
            = OwnPart(TokenRows(Total, p, f, d + 1), Lengths, r)
      BY ONLY <3>1, <3>2, <3>3, OutputIs
    <3> QED BY <3>4 DEF p, f, mine
  <2> QED BY <2>3, <2>4
<1>3. /\ UNCHANGED <<fixedVars, raised, prompt, forward, ended, counter, video, call, broken>>
      /\ packed' = [packed EXCEPT ![r] = rows]
      /\ inBlock' = [inBlock EXCEPT ![r] = FALSE]
      /\ whole' = [whole EXCEPT ![r] = << >>]
      /\ reply' = [reply EXCEPT ![r] = None]
  <2> HIDE DEF rows, left
  <2>1. packed' = [packed EXCEPT ![r] = [i \in DOMAIN packed[r] |-> Output(packed[r][i], left[i])]]
    BY DEF LeaveBlock, left
  <2> QED BY <1>2, <2>1 DEF LeaveBlock, Return, videoVars
<1> HIDE DEF rows, left
<1>4. packed'[r] = rows /\ inBlock'[r] = FALSE /\ whole'[r] = << >> /\ reply'[r] = None
  BY <1>1, <1>3, Functions, OwnChange
<1>5. Quiet(r)' /\ Before(r)' /\ Len(whole'[r]) = 0 /\ 0 \in 0..Maximum(3, world)'
  BY <1>1, <1>3, <1>4, Plain DEF AtGather, Quiet, Before, fixedVars, Maximum
<1>6. /\ Round(r) = After(world, split[r], <<forward[r], block[r], "gather", 0>>)
      /\ prompt'[r] = prompt[r] /\ forward'[r] = forward[r]
  BY <1>1, <1>3, Rounds DEF Round, At
<1>7. CASE block[r] = Blocks
  <2>1. /\ shard' = [shard EXCEPT ![r] = None] /\ block' = block
        /\ pc' = [pc EXCEPT ![r] = "rows"]
    BY <1>7 DEF LeaveBlock, Goto
  <2>2. pc'[r] = "rows" /\ block'[r] = block[r]
    BY <1>1, <2>1, Functions, OwnChange
  <2>3. OwnPlaces(r) /\ OwnValues(r) /\ inBlock'[r] \in BOOLEAN
    <3>1. OwnPlaces(r)
      BY <1>1, <1>3, <2>1, Functions, OwnChange, OwnSame DEF OwnPlaces
    <3>2. OwnValues(r)
      BY <1>3, <2>2, Plain DEF OwnValues, Places
    <3>3. inBlock'[r] \in BOOLEAN
      BY <1>4
    <3> QED BY <3>1, <3>2, <3>3
  <2>4. AtRows(r)'
    <3>1. LastRows(r)' = next
      BY <1>3, <1>7, SameSizes DEF LastRows
    <3>2. packed'[r] = OwnPart(LastRows(r)', Lengths', r)
      BY <1>3, <1>4, <3>1, SameSizes DEF rows
    <3>3. whole'[r] = ShardsHeld(LastRows(r)', Lengths', 0)
      BY <1>4, MoreShards
    <3>4. 0 \in 0..world' - 1
      BY <1>3, Plain DEF fixedVars
    <3> QED BY <1>5, <3>2, <3>3, <3>4 DEF AtRows, Quiet
  <2>5. Exact(r)'
    BY <1>1, <1>3, <1>4, <1>5, <2>2, <2>4, SameSizes DEF Exact, InForward
  <2>6. Round(r)' = <<forward[r], Blocks, "rows", 0>>
    BY <1>4, <1>5, <1>6, <2>2, Rounds DEF Round, At
  <2>7. Round(r)' = Round(r)
    BY <1>6, <1>7, <2>6, Plain DEF After
  <2> QED BY <1>1, <1>3, <2>2, <2>3, <2>5, <2>7, OrdinaryStep
<1>8. CASE block[r] # Blocks
  <2>1. /\ block' = [block EXCEPT ![r] = block[r] + 1] /\ shard' = shard
        /\ pc' = [pc EXCEPT ![r] = "block"]
    BY <1>8 DEF LeaveBlock, Goto
  <2>2. pc'[r] = "block" /\ block'[r] = block[r] + 1
    BY <1>1, <2>1, Functions, OwnChange
  <2>3. OwnPlaces(r) /\ OwnValues(r) /\ inBlock'[r] \in BOOLEAN
    <3>1. OwnPlaces(r)
      BY <1>1, <1>3, <2>1, Functions, OwnChange, OwnSame DEF OwnPlaces
    <3>2. block[r] + 1 \in 1..Blocks
      BY <1>8, Plain
    <3>3. OwnValues(r)
      BY <1>3, <2>2, <3>2, Plain DEF OwnValues, Places
    <3>4. inBlock'[r] \in BOOLEAN
      BY <1>4
    <3> QED BY <3>1, <3>3, <3>4
  <2>4. AtBlock(r)'
    <3>1. block'[r] # 1 /\ block'[r] - 1 = block[r]
      BY <2>2, Plain
    <3>2. RowsOf(r)' = next
      BY <1>3, <3>1, SameSizes DEF RowsOf
    <3>3. HasShard(r)'
      BY <1>1, <1>3, <1>4, <2>1, <3>2, SameSizes DEF HasShard, rows
    <3> QED BY <1>5, <3>1, <3>3 DEF AtBlock
  <2>5. Exact(r)'
    BY <1>1, <1>3, <1>4, <1>5, <2>2, <2>4, SameSizes DEF Exact, InForward
  <2>6. Round(r)' = <<forward[r], block[r] + 1, "scatter", 0>>
    BY <1>4, <1>5, <1>6, <2>2, Rounds DEF Round, At
  <2>7. Round(r)' = Round(r)
    BY <1>6, <1>8, <2>6, Plain DEF After
  <2> QED BY <1>1, <1>3, <2>2, <2>3, <2>5, <2>7, OrdinaryStep
<1> QED BY <1>7, <1>8

\* The broadcast of the next shard.
LEMMA GatherRowsKeeps ==
  ASSUME IInv, NEW r \in Ranks, GatherRows(r)
  PROVE  IInv'
<1>1. Types /\ Exact(r) /\ pc[r] = "rows" /\ AtRows(r) /\ reply[r] = None
  BY DEF IInv, GatherRows, Exact
<1>2. PICK k \in 0..world - 1 : whole[r] = ShardsHeld(LastRows(r), Lengths, k)
  BY <1>1 DEF AtRows
<1>3. k \in Nat /\ Len(whole[r]) = k /\ k + 1 \in Ranks
  BY <1>2, Plain, Sizes, MoreShards
<1> DEFINE c == RowsCall(LastRows(r), Lengths, r, k + 1)
<1>4. /\ UNCHANGED <<fixedVars, raised, pc, prompt, forward, block, ended, shard, inBlock, packed, whole,
                     counter, video, reply, broken>>
      /\ call' = [call EXCEPT ![r] = c]
  <2>1. Broadcast(packed[r], Len(whole[r]) + 1, ShardLengths(Total, world)[Len(whole[r]) + 1]) = c
    BY <1>1, <1>3 DEF AtRows, RowsCall, Lengths
  <2> QED BY <2>1 DEF GatherRows, Call, jobVars, shardVars, videoVars
<1> HIDE DEF c
<1>5. call'[r] = c
  BY <1>1, <1>4, Functions, OwnChange
<1>6. OwnPlaces(r) /\ OwnValues(r) /\ inBlock'[r] \in BOOLEAN
  <2>1. OwnPlaces(r)
    BY <1>1, <1>4, Functions, OwnChange, OwnSame DEF OwnPlaces
  <2>2. OwnValues(r)
    BY <1>4, Plain DEF OwnValues
  <2>3. inBlock'[r] \in BOOLEAN
    BY <1>4, Plain
  <2> QED BY <2>1, <2>2, <2>3
<1>7. AtRows(r)'
  <2>1. Before(r)' /\ LastRows(r)' = LastRows(r) /\ reply'[r] = None
    BY <1>1, <1>4, SameSizes DEF AtRows, Before, LastRows
  <2>2. packed'[r] = OwnPart(LastRows(r)', Lengths', r)
    BY <1>1, <1>4, <2>1, SameSizes DEF AtRows
  <2>3. /\ whole'[r] = ShardsHeld(LastRows(r)', Lengths', k)
        /\ call'[r] = RowsCall(LastRows(r)', Lengths', r, k + 1)
    BY <1>2, <1>4, <1>5, <2>1, SameSizes DEF c
  <2>4. k \in 0..world' - 1
    BY <1>4, SameSizes
  <2> QED BY <2>1, <2>2, <2>3, <2>4 DEF AtRows
<1>8. Exact(r)'
  BY <1>1, <1>4, <1>7, SameSizes DEF Exact, InForward
<1>9. Round(r)' = Round(r)
  BY <1>1, <1>4, SameSizes DEF Round, At
<1> QED BY <1>1, <1>4, <1>6, <1>8, <1>9, OrdinaryStep

\* One shard more; all together are the sequence.
LEMMA RowsGatheredKeeps ==
  ASSUME IInv, NEW r \in Ranks, RowsGathered(r)
  PROVE  IInv'
<1>1. Types /\ Exact(r) /\ pc[r] = "rows" /\ AtRows(r) /\ reply[r] # None /\ call[r] = None
  BY DEF IInv, RowsGathered, Exact, AtRows
<1>2. PICK k \in 0..world - 1 : /\ whole[r] = ShardsHeld(LastRows(r), Lengths, k)
                                /\ reply[r] = OwnPart(LastRows(r), Lengths, k + 1)
  BY <1>1 DEF AtRows
<1> DEFINE shards == ShardsHeld(LastRows(r), Lengths, k + 1)
<1>3. k \in Nat /\ k + 1 \in Nat /\ Len(whole[r]) = k /\ Len(shards) = k + 1
  BY <1>2, MoreShards
<1>4. Append(whole[r], reply[r]) = shards
  BY <1>2, <1>3, MoreShards
<1> HIDE DEF shards
<1>5. /\ UNCHANGED <<fixedVars, raised, prompt, block, ended, shard, inBlock, counter, video, call, broken>>
      /\ whole' = [whole EXCEPT ![r] = shards]
      /\ reply' = [reply EXCEPT ![r] = None]
  BY <1>4 DEF RowsGathered, Return, videoVars
<1>6. whole'[r] = shards /\ reply'[r] = None /\ Len(whole'[r]) = k + 1
  BY <1>1, <1>3, <1>5, Functions, OwnChange
<1>7. Quiet(r)' /\ Before(r)' /\ k + 1 \in 0..Maximum(3, world)' /\ inBlock'[r] = inBlock[r]
  BY <1>1, <1>3, <1>5, <1>6, Plain DEF AtRows, Quiet, Before, fixedVars, Maximum
<1>8. Round(r) = After(world, split[r], <<forward[r], Blocks, "rows", k>>)
  BY <1>1, <1>3, Rounds DEF Round, At
<1>9. CASE k + 1 < world
  <2>1. pc' = pc /\ forward' = forward /\ packed' = packed
    BY <1>6, <1>9 DEF RowsGathered
  <2>2. OwnPlaces(r) /\ OwnValues(r) /\ inBlock'[r] \in BOOLEAN
    <3>1. OwnPlaces(r)
      BY <1>1, <1>5, <2>1, Functions, OwnChange, OwnSame DEF OwnPlaces
    <3>2. OwnValues(r)
      BY <1>5, <2>1, Plain DEF OwnValues
    <3>3. inBlock'[r] \in BOOLEAN
      BY <1>5, Plain
    <3> QED BY <3>1, <3>2, <3>3
  <2>3. AtRows(r)'
    <3>1. LastRows(r)' = LastRows(r)
      BY <1>5, <2>1, SameSizes DEF LastRows
    <3>2. packed'[r] = OwnPart(LastRows(r)', Lengths', r)
      BY <1>1, <1>5, <2>1, <3>1, SameSizes DEF AtRows
    <3>3. whole'[r] = ShardsHeld(LastRows(r)', Lengths', k + 1)
      BY <1>5, <1>6, <3>1, SameSizes DEF shards
    <3>4. k + 1 \in 0..world' - 1
      BY <1>3, <1>5, <1>9, Plain, SameSizes
    <3> QED BY <1>7, <3>2, <3>3, <3>4 DEF AtRows, Quiet
  <2>4. Exact(r)'
    BY <1>1, <1>5, <1>6, <1>7, <2>1, <2>3, SameSizes DEF Exact, InForward
  <2>5. Round(r)' = <<forward[r], Blocks, "rows", k + 1>>
    BY <1>1, <1>6, <2>1, Rounds DEF Round, At
  <2>6. Round(r)' = Round(r)
    BY <1>8, <1>9, <2>5 DEF After
  <2> QED BY <1>1, <1>5, <2>1, <2>2, <2>4, <2>6, OrdinaryStep
<1>10. CASE ~(k + 1 < world)
  <2>1. k + 1 = world
    BY <1>2, <1>10, Plain
  <2>2. FlattenSeq(shards) = LastRows(r)
    BY <2>1, Plain, ShardsAreAll DEF shards, LastRows
  <2>3. packed' = [packed EXCEPT ![r] = LastRows(r)]
    <3>1. packed' = [packed EXCEPT ![r] = FlattenSeq(whole'[r])]
      BY <1>6, <1>10 DEF RowsGathered
    <3>2. FlattenSeq(whole'[r]) = LastRows(r)
      BY <1>6, <2>2
    <3> QED BY <3>1, <3>2
  <2>4. packed'[r] = LastRows(r)
    <3> HIDE DEF LastRows
    <3> QED BY <1>1, <2>3, Functions, OwnChange
  <2>5. CASE forward[r] < Forwards
    <3>1. forward' = [forward EXCEPT ![r] = forward[r] + 1] /\ pc' = [pc EXCEPT ![r] = "refine"]
      BY <1>6, <1>10, <2>5 DEF RowsGathered, Goto
    <3>2. forward'[r] = forward[r] + 1 /\ pc'[r] = "refine"
      BY <1>1, <3>1, Functions, OwnChange
    <3>3. OwnPlaces(r) /\ OwnValues(r) /\ inBlock'[r] \in BOOLEAN
      <4>1. OwnPlaces(r)
        BY <1>1, <1>5, <2>3, <3>1, Functions, OwnChange, OwnSame DEF OwnPlaces
      <4>2. forward[r] + 1 \in 1..Forwards
        BY <2>5, Plain
      <4>3. OwnValues(r)
        BY <1>5, <3>2, <4>2, Plain DEF OwnValues, Places
      <4>4. inBlock'[r] \in BOOLEAN
        BY <1>5, Plain
      <4> QED BY <4>1, <4>3, <4>4
    <3>4. AtRefine(r)'
      BY <1>7 DEF AtRefine
    <3>5. Exact(r)'
      BY <1>1, <1>5, <1>6, <1>7, <3>2, <3>4, SameSizes DEF Exact, InForward
    <3>6. Round(r)' = <<forward[r] + 1, 1, "scatter", 0>>
      BY <1>6, <3>2, Rounds DEF Round, At
    <3>7. Round(r)' = Round(r)
      BY <1>8, <1>10, <2>5, <3>6 DEF After
    <3> QED BY <1>1, <1>5, <3>2, <3>3, <3>5, <3>7, OrdinaryStep
  <2>6. CASE ~(forward[r] < Forwards)
    <3>1. forward' = forward /\ pc' = [pc EXCEPT ![r] = "decode"]
      BY <1>6, <1>10, <2>6 DEF RowsGathered, Goto
    <3>2. forward'[r] = forward[r] /\ pc'[r] = "decode"
      BY <1>1, <3>1, Functions, OwnChange
    <3>3. OwnPlaces(r) /\ OwnValues(r) /\ inBlock'[r] \in BOOLEAN
      <4>1. OwnPlaces(r)
        BY <1>1, <1>5, <2>3, <3>1, Functions, OwnChange, OwnSame DEF OwnPlaces
      <4>2. OwnValues(r)
        BY <1>5, <3>2, Plain DEF OwnValues, Places
      <4>3. inBlock'[r] \in BOOLEAN
        BY <1>5, Plain
      <4> QED BY <4>1, <4>2, <4>3
    <3>4. AtDecode(r)'
      BY <1>5, <1>7, <2>4, <3>2, SameSizes DEF AtDecode, LastRows
    <3>5. Exact(r)'
      BY <1>1, <1>5, <1>6, <1>7, <3>2, <3>4, SameSizes DEF Exact, InForward
    <3>6. Round(r)' = FromChunk(split[r], 0)
      BY <1>5, <1>6, <3>2, Rounds, SameSizes DEF Round, At
    <3>7. Round(r)' = Round(r)
      BY <1>8, <1>10, <2>6, <3>6 DEF After
    <3> QED BY <1>1, <1>5, <3>2, <3>3, <3>5, <3>7, OrdinaryStep
  <2> QED BY <2>5, <2>6
<1> QED BY <1>9, <1>10

\* No chunk is counted yet.
LEMMA DecodeKeeps ==
  ASSUME IInv, NEW r \in Ranks, Decode(r)
  PROVE  IInv'
<1>1. Types /\ Exact(r) /\ pc[r] = "decode" /\ Quiet(r) /\ Before(r)
  BY DEF IInv, Decode, Exact, AtDecode
<1> DEFINE count == IF split[r] THEN 0 ELSE None
<1>2. /\ UNCHANGED <<fixedVars, raised, prompt, forward, block, ended, shard, inBlock, packed, whole,
                     video, call, reply, broken>>
      /\ pc' = [pc EXCEPT ![r] = "chunk"]
      /\ counter' = [counter EXCEPT ![r] = count]
  BY DEF Decode, Goto, jobVars, shardVars, wireVars
<1> HIDE DEF count
<1>3. pc'[r] = "chunk" /\ counter'[r] = count
  BY <1>1, <1>2, Functions, OwnChange
<1>4. OwnPlaces(r) /\ OwnValues(r) /\ inBlock'[r] \in BOOLEAN
  <2>1. OwnPlaces(r)
    BY <1>1, <1>2, Functions, OwnChange, OwnSame DEF OwnPlaces
  <2>2. OwnValues(r)
    BY <1>2, <1>3, Plain DEF OwnValues, Places
  <2>3. inBlock'[r] \in BOOLEAN
    BY <1>2, Plain
  <2> QED BY <2>1, <2>2, <2>3
<1>5. video[r] = << >> /\ video'[r] = << >> /\ Len(video[r]) = 0
  BY <1>1, <1>2 DEF Before
<1>6. AtChunk(r)'
  <2>1. Quiet(r)' /\ split' = split
    BY <1>1, <1>2, SameSizes DEF Quiet
  <2> QED BY <1>3, <1>5, <2>1 DEF AtChunk, count
<1>7. Exact(r)'
  BY <1>1, <1>2, <1>3, <1>6, SameSizes DEF Exact, InForward
<1>8. Round(r)' = Round(r)
  <2>1. reply[r] = None /\ reply'[r] = None /\ split'[r] = split[r]
    BY <1>1, <1>2, SameSizes DEF Quiet
  <2>2. Round(r) = FromChunk(split[r], 0)
    BY <1>1, <2>1, Rounds DEF Round, At
  <2>3. Round(r)' = FromChunk(split[r], 0)
    BY <1>3, <1>5, <2>1, Rounds DEF Round, At
  <2> QED BY <2>2, <2>3
<1> QED BY <1>1, <1>2, <1>3, <1>4, <1>7, <1>8, OrdinaryStep

\* The chunks a rank has.
LEMMA VideoIs ==
  ASSUME IInv, NEW r \in Ranks
  PROVE  /\ Len(video[r]) \in 0..Chunks
         /\ video[r] = ChunksHeld(prompt[r], Len(video[r]))
<1>1. PICK k \in 0..Chunks : video[r] = ChunksHeld(prompt[r], k)
  BY DEF IInv, Exact
<1>2. k \in Nat
  BY <1>1, Plain
<1> QED BY <1>1, <1>2, MoreChunks

\* The counter is ahead of the video by the chunk being shared.
LEMMA ShareChunkKeeps ==
  ASSUME IInv, NEW r \in Ranks, ShareChunk(r)
  PROVE  IInv'
<1> DEFINE k == Len(video[r])
           c == MetaCall(world, r, k)
<1>1. /\ Types /\ Exact(r) /\ pc[r] = "chunk" /\ Quiet(r) /\ split[r]
      /\ counter[r] = k /\ k \in Nat /\ k < Chunks
  BY VideoIs, Plain DEF IInv, ShareChunk, Exact, AtChunk
<1>2. /\ UNCHANGED <<fixedVars, raised, prompt, forward, block, ended, shard, inBlock, packed, whole,
                     video, reply, broken>>
      /\ pc' = [pc EXCEPT ![r] = "meta"]
      /\ counter' = [counter EXCEPT ![r] = k + 1]
      /\ call' = [call EXCEPT ![r] = c]
  <2>1. Broadcast(IF r = Owner(counter[r]) THEN Shape(Len(video[r]) + 1) ELSE 0, Owner(counter[r]), 8) = c
    BY <1>1 DEF MetaCall, Owner, OwnerOf
  <2>2. counter' = [counter EXCEPT ![r] = counter[r] + 1]
    BY DEF ShareChunk
  <2>3. counter[r] + 1 = k + 1
    BY <1>1
  <2> HIDE DEF c, k
  <2> QED BY <2>1, <2>2, <2>3 DEF ShareChunk, Goto, Call, jobVars, shardVars
<1> HIDE DEF c
<1>3. pc'[r] = "meta" /\ counter'[r] = k + 1 /\ call'[r] = c
  BY <1>1, <1>2, Functions, OwnChange
<1>4. OwnPlaces(r) /\ OwnValues(r) /\ inBlock'[r] \in BOOLEAN
  <2>1. OwnPlaces(r)
    BY <1>1, <1>2, Functions, OwnChange, OwnSame DEF OwnPlaces
  <2>2. OwnValues(r)
    BY <1>2, <1>3, Plain DEF OwnValues, Places
  <2>3. inBlock'[r] \in BOOLEAN
    BY <1>2, Plain
  <2> QED BY <2>1, <2>2, <2>3
<1>5. video'[r] = video[r] /\ split' = split /\ world' = world /\ reply'[r] = None
  BY <1>1, <1>2, SameSizes DEF Quiet
<1>6. AtMeta(r)'
  BY <1>1, <1>3, <1>5 DEF AtMeta, InChunk, c
<1>7. Exact(r)'
  BY <1>1, <1>2, <1>3, <1>6, SameSizes DEF Exact, InForward
<1>8. Round(r)' = Round(r)
  <2>0. pc[r] = "chunk" /\ reply[r] = None
    BY <1>1 DEF Quiet
  <2>1. Round(r) = FromChunk(split[r], k)
    BY <2>0, Rounds DEF Round, At
  <2>2. Round(r)' = <<Forwards, Blocks, "meta", k>>
    BY <1>3, <1>5, Rounds DEF Round, At
  <2> QED BY <1>1, <2>1, <2>2 DEF FromChunk
<1> QED BY <1>1, <1>2, <1>3, <1>4, <1>7, <1>8, OrdinaryStep

\* The shape is that of the chunk, so the buffer fits.
LEMMA ShapeKnownKeeps ==
  ASSUME IInv, NEW r \in Ranks, ShapeKnown(r)
  PROVE  IInv'
<1> DEFINE k == Len(video[r])
           c == PayloadCall(world, prompt[r], r, k)
<1>1. /\ Types /\ Exact(r) /\ pc[r] = "meta" /\ InChunk(r) /\ call[r] = None
      /\ reply[r] # None /\ reply[r] = Shape(k + 1) /\ k \in Nat /\ counter[r] = k + 1
  BY VideoIs, Plain DEF IInv, ShapeKnown, Exact, AtMeta, InChunk
<1>2. /\ UNCHANGED <<fixedVars, raised, prompt, forward, block, ended, shard, inBlock, packed, whole,
                     counter, video, broken>>
      /\ pc' = [pc EXCEPT ![r] = "payload"]
      /\ call' = [call EXCEPT ![r] = c]
      /\ reply' = [reply EXCEPT ![r] = None]
  <2>1. counter[r] - 1 = k
    BY <1>1
  <2>2. Broadcast(IF r = Owner(counter[r] - 1) THEN Chunk(prompt[r], Len(video[r]) + 1) ELSE Garbage,
                  Owner(counter[r] - 1), reply[r]) = c
    BY <1>1, <2>1 DEF PayloadCall, Owner, OwnerOf
  <2> HIDE DEF c, k
  <2> QED BY <2>2 DEF ShapeKnown, Goto, jobVars, shardVars, videoVars
<1> HIDE DEF c
<1>3. pc'[r] = "payload" /\ call'[r] = c /\ reply'[r] = None
  <2>1. Types
    BY <1>1
  <2> QED BY <1>2, <2>1, Functions, OwnChange
<1>4. OwnPlaces(r) /\ OwnValues(r) /\ inBlock'[r] \in BOOLEAN
  <2>1. OwnPlaces(r)
    BY <1>1, <1>2, Functions, OwnChange, OwnSame DEF OwnPlaces
  <2>2. OwnValues(r)
    BY <1>2, <1>3, Plain DEF OwnValues, Places
  <2>3. inBlock'[r] \in BOOLEAN
    BY <1>2, Plain
  <2> QED BY <2>1, <2>2, <2>3
<1>5. /\ video'[r] = video[r] /\ split' = split /\ world' = world /\ prompt'[r] = prompt[r]
      /\ counter'[r] = counter[r]
  BY <1>2, SameSizes
<1>6. AtPayload(r)'
  BY <1>1, <1>3, <1>5 DEF AtPayload, InChunk, c
<1>7. Exact(r)'
  BY <1>1, <1>2, <1>3, <1>6, SameSizes DEF Exact, InForward
<1>8. Round(r)' = Round(r)
  <2>0. pc[r] = "meta" /\ reply[r] # None
    BY <1>1
  <2>1. Round(r) = After(world, split[r], <<Forwards, Blocks, "meta", k>>)
    BY <2>0, Rounds DEF Round, At
  <2>2. Round(r)' = <<Forwards, Blocks, "payload", k>>
    BY <1>3, <1>5, Rounds DEF Round, At
  <2> QED BY <2>1, <2>2 DEF After
<1> QED BY <1>1, <1>2, <1>3, <1>4, <1>7, <1>8, OrdinaryStep

\* One chunk more.
LEMMA ChunkSharedKeeps ==
  ASSUME IInv, NEW r \in Ranks, ChunkShared(r)
  PROVE  IInv'
<1> DEFINE k     == Len(video[r])
           found == ChunksHeld(prompt[r], k + 1)
<1>1. /\ Types /\ Exact(r) /\ pc[r] = "payload" /\ InChunk(r) /\ call[r] = None
      /\ reply[r] # None /\ reply[r] = Chunk(prompt[r], k + 1)
      /\ k \in Nat /\ k + 1 \in 0..Chunks /\ counter[r] = k + 1 /\ split[r]
  BY VideoIs, Plain DEF IInv, ChunkShared, Exact, AtPayload, InChunk
<1>2. /\ UNCHANGED <<fixedVars, raised, prompt, forward, block, ended, shard, inBlock, packed, whole,
                     counter, call, broken>>
      /\ pc' = [pc EXCEPT ![r] = "chunk"]
      /\ video' = [video EXCEPT ![r] = found]
      /\ reply' = [reply EXCEPT ![r] = None]
  <2>1. Append(video[r], reply[r]) = found
    BY <1>1, VideoIs, MoreChunks
  <2> HIDE DEF found, k
  <2> QED BY <2>1 DEF ChunkShared, Goto, Return, jobVars, shardVars
<1>3. k + 1 \in Nat /\ Len(found) = k + 1
  BY <1>1, MoreChunks
<1> HIDE DEF found
<1>4. pc'[r] = "chunk" /\ video'[r] = found /\ reply'[r] = None /\ Len(video'[r]) = k + 1
  BY <1>1, <1>2, <1>3, Functions, OwnChange
<1>5. OwnPlaces(r) /\ OwnValues(r) /\ inBlock'[r] \in BOOLEAN
  <2>1. OwnPlaces(r)
    BY <1>1, <1>2, Functions, OwnChange, OwnSame DEF OwnPlaces
  <2>2. OwnValues(r)
    BY <1>2, <1>4, Plain DEF OwnValues, Places
  <2>3. inBlock'[r] \in BOOLEAN
    BY <1>2, Plain
  <2> QED BY <2>1, <2>2, <2>3
<1>6. split' = split /\ prompt'[r] = prompt[r] /\ counter'[r] = counter[r] /\ Quiet(r)'
  BY <1>1, <1>2, <1>4, SameSizes DEF Quiet
<1>7. AtChunk(r)'
  BY <1>1, <1>4, <1>6 DEF AtChunk
<1>8. Exact(r)'
  <2>1. video'[r] = ChunksHeld(prompt'[r], k + 1)
    BY <1>4, <1>6 DEF found
  <2> QED BY <1>1, <1>2, <1>4, <1>7, <2>1, SameSizes DEF Exact, InForward
<1>9. Round(r)' = Round(r)
  <2>0. pc[r] = "payload" /\ reply[r] # None
    BY <1>1
  <2>1. Round(r) = After(world, split[r], <<Forwards, Blocks, "payload", k>>)
    BY <2>0 DEF Round, At, Place
  <2>2. Round(r)' = FromChunk(split[r], k + 1)
    BY <1>4, <1>6, Rounds DEF Round, At
  <2> QED BY <2>1, <2>2 DEF After
<1> QED BY <1>1, <1>2, <1>4, <1>5, <1>8, <1>9, OrdinaryStep

\* One chunk more, of a rank that decodes alone: it takes part in no round.
LEMMA DecodeChunkKeeps ==
  ASSUME IInv, NEW r \in Ranks, DecodeChunk(r)
  PROVE  IInv'
<1> DEFINE k     == Len(video[r])
           found == ChunksHeld(prompt[r], k + 1)
<1>1. /\ Types /\ Exact(r) /\ pc[r] = "chunk" /\ Quiet(r) /\ ~split[r]
      /\ k \in Nat /\ k + 1 \in 0..Chunks /\ counter[r] = None
  <2>1. k \in 0..Chunks /\ k < Chunks /\ k \in Nat /\ Chunks \in Nat
    BY VideoIs, Plain DEF DecodeChunk
  <2>2. counter[r] = None /\ pc[r] = "chunk" /\ AtChunk(r) /\ Types /\ Exact(r)
    BY DEF IInv, DecodeChunk, Exact
  <2> QED BY <2>1, <2>2, Present DEF AtChunk
<1>2. /\ UNCHANGED <<fixedVars, raised, pc, prompt, forward, block, ended, shard, inBlock, packed, whole,
                     counter, call, reply, broken>>
      /\ video' = [video EXCEPT ![r] = found]
  <2>1. Append(video[r], Chunk(prompt[r], Len(video[r]) + 1)) = found
    BY <1>1, VideoIs, MoreChunks
  <2> HIDE DEF found, k
  <2> QED BY <2>1 DEF DecodeChunk, jobVars, shardVars, wireVars
<1>3. k + 1 \in Nat /\ Len(found) = k + 1
  BY <1>1, MoreChunks
<1> HIDE DEF found
<1>4. video'[r] = found /\ Len(video'[r]) = k + 1
  BY <1>1, <1>2, <1>3, Functions, OwnChange
<1>5. OwnPlaces(r) /\ OwnValues(r) /\ inBlock'[r] \in BOOLEAN
  <2>1. OwnPlaces(r)
    BY <1>1, <1>2, Functions, OwnChange, OwnSame DEF OwnPlaces
  <2>2. OwnValues(r)
    BY <1>2, Plain DEF OwnValues
  <2>3. inBlock'[r] \in BOOLEAN
    BY <1>2, Plain
  <2> QED BY <2>1, <2>2, <2>3
<1>6. split' = split /\ prompt'[r] = prompt[r] /\ counter'[r] = None /\ Quiet(r)' /\ pc'[r] = "chunk"
  BY <1>1, <1>2, <1>4, SameSizes DEF Quiet
<1>7. AtChunk(r)'
  BY <1>1, <1>4, <1>6 DEF AtChunk
<1>8. Exact(r)'
  <2>1. video'[r] = ChunksHeld(prompt'[r], k + 1)
    BY <1>4, <1>6 DEF found
  <2> QED BY <1>1, <1>2, <1>6, <1>7, <2>1, SameSizes DEF Exact, InForward
<1>9. Round(r)' = Round(r)
  <2>0. pc[r] = "chunk" /\ reply[r] = None
    BY <1>1 DEF Quiet
  <2>1. Round(r) = FromChunk(split[r], k)
    BY <2>0, Rounds DEF Round, At
  <2>2. Round(r)' = FromChunk(split[r], k + 1)
    BY <1>4, <1>6, Rounds DEF Round, At, Quiet
  <2> QED BY <1>1, <2>1, <2>2 DEF FromChunk
<1> QED BY <1>1, <1>2, <1>5, <1>6, <1>8, <1>9, OrdinaryStep

-----------------------------------------------------------------------------
(* The ends of a prompt.                                                   *)

\* However a prompt ends on a rank, the rank leaves nothing behind.
LEMMA Finished ==
  ASSUME IInv, NEW r \in Ranks, NEW how \in {"ok", "failed"}, Finish(r, how),
         UNCHANGED <<fixedVars, prompt, forward, block, packed, video>>,
         Own(call, call', r), Own(reply, reply', r), call'[r] = None, reply'[r] = None, Flags
  PROVE  /\ OwnStep(r) /\ Exact(r)' /\ pc'[r] = "idle" /\ ended'[r] = how
         /\ Round(r)' = End
<1>1. Types /\ Exact(r)
  BY DEF IInv
<1>2. /\ pc' = [pc EXCEPT ![r] = "idle"] /\ ended' = [ended EXCEPT ![r] = how]
      /\ shard' = [shard EXCEPT ![r] = None] /\ inBlock' = [inBlock EXCEPT ![r] = FALSE]
      /\ counter' = [counter EXCEPT ![r] = None] /\ whole' = [whole EXCEPT ![r] = << >>]
  BY DEF Finish, Goto
<1>3. /\ pc'[r] = "idle" /\ ended'[r] = how /\ inBlock'[r] = FALSE
      /\ counter'[r] = None /\ whole'[r] = << >>
  <2>1. Types
    BY <1>1
  <2> QED BY <1>2, <2>1, Functions, OwnChange
<1>4. OwnStep(r)
  <2>1. OwnPlaces(r)
    BY <1>1, <1>2, Functions, OwnChange, OwnSame DEF OwnPlaces
  <2>2. OwnValues(r)
    BY <1>3, Plain DEF OwnValues, Places
  <2>3. inBlock'[r] \in BOOLEAN
    BY <1>3
  <2> QED BY <2>1, <2>2, <2>3 DEF OwnStep
<1>5. Exact(r)'
  <2>1. Quiet(r)'
    BY DEF Quiet
  <2>2. Len(whole'[r]) = 0 /\ 0 \in 0..Maximum(3, world)'
    BY <1>3, Plain, SameSizes DEF Maximum
  <2>3. \E k \in 0..Chunks : video'[r] = ChunksHeld(prompt'[r], k)
    BY <1>1 DEF Exact
  <2> QED BY <1>3, <2>1, <2>2, <2>3 DEF Exact, InForward
<1>6. Round(r)' = End
  BY <1>3, Rounds DEF Round, At
<1> QED BY <1>3, <1>4, <1>5, <1>6

\* All chunks: past the last round.
LEMMA VideoDecodedKeeps ==
  ASSUME IInv, NEW r \in Ranks, VideoDecoded(r)
  PROVE  IInv'
<1>1. Types /\ Exact(r) /\ pc[r] = "chunk" /\ Quiet(r) /\ Len(video[r]) = Chunks
  BY DEF IInv, VideoDecoded, Exact, AtChunk
<1>2. /\ UNCHANGED <<fixedVars, prompt, forward, block, packed, video>>
      /\ call' = call /\ reply' = reply /\ broken' = broken /\ raised' = raised
      /\ Finish(r, "ok")
  BY DEF VideoDecoded, wireVars
<1>3. Own(call, call', r) /\ Own(reply, reply', r) /\ call'[r] = None /\ reply'[r] = None
  BY <1>1, <1>2, Functions, OwnSame DEF Quiet
<1>4. Flags
  <2>1. broken \in BOOLEAN /\ raised \in BOOLEAN
    BY Plain
  <2> QED BY <1>2, <2>1 DEF Flags
<1>5. OwnStep(r) /\ Exact(r)' /\ pc'[r] = "idle" /\ ended'[r] = "ok" /\ Round(r)' = End
  BY <1>2, <1>3, <1>4, Finished
<1>6. Round(r) = End
  <2>1. Round(r) = FromChunk(split[r], Len(video[r]))
    <3>1. pc[r] = "chunk" /\ reply[r] = None
      BY <1>1 DEF Quiet
    <3> QED BY <3>1 DEF Round, At, Place
  <2> QED BY <1>1, <2>1, Plain DEF FromChunk
<1>7. LostForACause'
  BY <1>2, SameSizes DEF IInv, LostForACause
<1> QED BY <1>1, <1>5, <1>6, <1>7, OwnStepKeeps

\* A rank that fails on its own has a cause to be recorded, and is in no round.
LEMMA RaiseKeeps ==
  ASSUME IInv, NEW r \in Ranks, Raise(r)
  PROVE  IInv'
<1>1. Types /\ pc[r] # "idle" /\ call[r] = None
  BY DEF IInv, Raise, Computing, Waiting
<1>2. /\ UNCHANGED <<fixedVars, prompt, forward, block, packed, video>>
      /\ call' = call /\ reply' = [reply EXCEPT ![r] = None] /\ broken' = broken /\ raised' = TRUE
      /\ Finish(r, "failed")
  BY DEF Raise
<1>3. Own(call, call', r) /\ Own(reply, reply', r) /\ call'[r] = None /\ reply'[r] = None
  BY <1>1, <1>2, Functions, OwnSame, OwnChange
<1>4. Flags
  <2>1. broken \in BOOLEAN
    BY Plain
  <2> QED BY <1>2, <2>1 DEF Flags
<1>5. OwnStep(r) /\ Exact(r)' /\ pc'[r] = "idle" /\ ended'[r] = "failed"
  BY <1>2, <1>3, <1>4, Finished
<1>6. LostForACause'
  BY <1>2 DEF LostForACause
<1>7. ~Live(r)'
  BY <1>5 DEF Live
<1> QED BY <1>1, <1>2, <1>5, <1>6, <1>7, OwnStepKeeps

\* A rank that waits is at a statement that calls, before the prompt's end.
LEMMA WaitingIs ==
  ASSUME IInv, NEW r \in Ranks, Waiting(r)
  PROVE  /\ pc[r] \in {"scatter", "gather", "rows", "meta", "payload"} /\ reply[r] = None
         /\ Round(r) = At(r) /\ At(r)[3] = pc[r] /\ Live(r)
         /\ pc[r] \in {"meta", "payload"} => split[r]
<1>1. Exact(r) /\ call[r] # None /\ pc[r] \in Places
  BY DEF IInv, Waiting, Types
<1>2. pc[r] \in {"scatter", "gather", "rows", "meta", "payload"}
  <2>1. ~Quiet(r)
    BY <1>1 DEF Quiet
  <2> QED BY <1>1, <2>1 DEF Exact, AtRefine, AtBlock, AtAttend, AtDecode, AtChunk, Places
<1>3. reply[r] = None
  BY <1>1, <1>2 DEF Exact, AtScatter, AtGather, AtRows, AtMeta, AtPayload
<1>4. At(r)[3] = pc[r]
  BY <1>2 DEF At, Place
<1>5. pc[r] \in {"meta", "payload"} => split[r]
  BY <1>1 DEF Exact, AtMeta, AtPayload, InChunk
<1> QED BY <1>2, <1>3, <1>4, <1>5 DEF Round, Live

\* A collective fails when one rank has ended: on its own failure, or because it
\* decodes alone. In step, a rank that ended well would have left none waiting.
LEMMA CollectiveFailsKeeps ==
  ASSUME IInv, NEW r \in Ranks, CollectiveFails(r)
  PROVE  IInv'
<1>1. Types /\ Waiting(r) /\ pc[r] # "idle" /\ reply[r] = None
  BY WaitingIs DEF IInv, CollectiveFails
<1>2. /\ UNCHANGED <<fixedVars, prompt, forward, block, packed, video>>
      /\ call' = [call EXCEPT ![r] = None] /\ reply' = reply /\ broken' = TRUE /\ raised' = raised
      /\ Finish(r, "failed")
  BY DEF CollectiveFails
<1>3. Own(call, call', r) /\ Own(reply, reply', r) /\ call'[r] = None /\ reply'[r] = None
  <2>1. FunctionOfRanks(call) /\ FunctionOfRanks(reply)
    BY <1>1, Functions
  <2>2. call' = [call EXCEPT ![r] = None]
    BY <1>2
  <2>3. Own(call, call', r) /\ call'[r] = None
    BY <2>1, <2>2, OwnChange
  <2>4. Own(reply, reply', r) /\ reply'[r] = None
    BY <1>1, <1>2, <2>1, OwnSame
  <2> QED BY <2>3, <2>4
<1>4. Flags
  <2>1. raised \in BOOLEAN
    BY Plain
  <2> QED BY <1>2, <2>1 DEF Flags
<1>5. OwnStep(r) /\ Exact(r)' /\ pc'[r] = "idle" /\ ended'[r] = "failed"
  BY <1>2, <1>3, <1>4, Finished
<1>6. raised \/ \E a, b \in Ranks : split[a] # split[b]
  <2>1. CASE broken
    BY <2>1 DEF IInv, LostForACause
  <2>2. CASE ~broken
    <3>1. PICK s \in Ranks : pc[s] = "idle"
      BY <2>2 DEF CollectiveFails
    <3>2. ended[s] # "none" /\ (ended[s] = "failed" => raised)
      BY <1>1, <2>2, <3>1 DEF IInv, Endings
    <3>3. CASE ended[s] = "ok"
      <4>1. Live(s)
        BY <3>3 DEF Live
      <4>2. Round(s) = End
        <5>1. reply[s] = None
          BY <3>1 DEF IInv, Exact, Quiet
        <5> QED BY <3>1, <5>1, Rounds DEF Round, At
      <4>3. Live(r) /\ Round(r) # End
        BY WaitingIs, <1>1 DEF End
      <4> QED BY <4>1, <4>2, <4>3 DEF IInv, InStep
    <3>4. ended[s] \in {"none", "ok", "failed"}
      BY Plain
    <3> QED BY <3>2, <3>3, <3>4
  <2> QED BY <2>1, <2>2
<1>7. LostForACause'
  BY <1>2, <1>6, SameSizes DEF LostForACause
<1>8. ~Live(r)'
  BY <1>5 DEF Live
<1> QED BY <1>1, <1>2, <1>5, <1>7, <1>8, OwnStepKeeps

-----------------------------------------------------------------------------
(* The collectives.                                                        *)

\* When every rank waits, all are in the same round.
LEMMA Together ==
  ASSUME IInv, \A r \in Ranks : Waiting(r), NEW a \in Ranks, NEW b \in Ranks
  PROVE  At(a) = At(b) /\ pc[a] = pc[b] /\ prompt[a] = prompt[b]
<1>1. /\ Round(a) = At(a) /\ At(a)[3] = pc[a] /\ Live(a) /\ (pc[a] \in {"meta", "payload"} => split[a])
      /\ Round(b) = At(b) /\ At(b)[3] = pc[b] /\ Live(b) /\ (pc[b] \in {"meta", "payload"} => split[b])
      /\ pc[a] # "end" /\ pc[b] # "end"
  BY WaitingIs
<1>2. split[a] \in BOOLEAN /\ split[b] \in BOOLEAN
  BY DEF IInv, Types
<1>3. At(a) = At(b)
  <2>1. CASE Round(a) = Round(b)
    BY <1>1, <2>1
  <2>2. CASE split[a] # split[b] /\ InTail(Round(a)) /\ InTail(Round(b))
    <3>1. split[a] /\ split[b]
      BY <1>1, <2>2 DEF InTail
    <3> QED BY <1>2, <2>2, <3>1
  <2> QED BY <1>1, <2>1, <2>2 DEF IInv, InStep
<1>4. prompt[a] = prompt[b]
  BY DEF IInv, Endings
<1> QED BY <1>1, <1>3, <1>4

\* They have made the same call, and each gets what it needs.
Served(q) ==
  /\ \A s \in Ranks : Match(q, s)
  /\ Received(q) # None
  /\ pc[q] = "scatter" => Received(q) = ScatterReply(CellsOf(q), Lengths, world, HeadsLocal, q)
  /\ pc[q] = "gather"  => Received(q) = GatherReply(CellsOf(q), Lengths, world, HeadsLocal, q)
  /\ pc[q] = "rows"    => Received(q) = OwnPart(LastRows(q), Lengths, Len(whole[q]) + 1)
  /\ pc[q] = "meta"    => Received(q) = Shape(Len(video[q]) + 1)
  /\ pc[q] = "payload" => Received(q) = Chunk(prompt[q], Len(video[q]) + 1)

\* When every rank waits the calls match, and each is answered with what is exact.
LEMMA AllServed ==
  ASSUME IInv, \A r \in Ranks : Waiting(r), NEW q \in Ranks
  PROVE  Served(q)
<1>1. \A s \in Ranks : At(s) = At(q) /\ pc[s] = pc[q] /\ prompt[s] = prompt[q]
  BY Together
<1>2. \A s \in Ranks : Exact(s) /\ call[s] # None /\ reply[s] = None
  BY WaitingIs DEF IInv, Waiting
<1>3. world \in Worlds /\ table \in Layouts
  BY Plain
<1>4. CASE pc[q] = "scatter" \/ pc[q] = "gather"
  <2> DEFINE p == prompt[q]
             f == forward[q]
             d == block[q] - 1
             x == TokenCells(Total, p, f, d)
  <2>1. p \in Nat /\ f \in Nat /\ d \in Nat
    BY Plain
  <2>2. ASSUME NEW s \in Ranks PROVE CellsOf(s) = x
    <3>1. At(s)[1] = forward[s] /\ At(s)[2] = block[s] /\ At(q)[1] = forward[q] /\ At(q)[2] = block[q]
      BY <1>1, <1>4 DEF At, Place
    <3>2. forward[s] = f /\ block[s] = block[q] /\ prompt[s] = p
      BY <1>1, <3>1
    <3> QED BY <3>2 DEF CellsOf
  <2>3. CASE pc[q] = "scatter"
    <3>1. \A s \in Ranks : call[s] = ScatterCall(x, Lengths, world, HeadsLocal, s)
      BY <1>1, <1>2, <2>2, <2>3 DEF Exact, AtScatter
    <3> HIDE DEF p, f, d
    <3>2. /\ \A s \in Ranks : Match(q, s)
          /\ Received(q) = ScatterReply(x, Lengths, world, HeadsLocal, q)
          /\ ScatterReply(x, Lengths, world, HeadsLocal, q) # None
      BY <1>3, <2>1, <3>1, ScatterMeets
    <3>3. CellsOf(q) = x
      BY <2>2
    <3> QED BY <2>3, <3>2, <3>3 DEF Served
  <2>4. CASE pc[q] = "gather"
    <3>1. \A s \in Ranks : call[s] = GatherCall(x, Lengths, world, HeadsLocal, s)
      BY <1>1, <1>2, <2>2, <2>4 DEF Exact, AtGather
    <3> HIDE DEF p, f, d
    <3>2. /\ \A s \in Ranks : Match(q, s)
          /\ Received(q) = GatherReply(x, Lengths, world, HeadsLocal, q)
          /\ GatherReply(x, Lengths, world, HeadsLocal, q) # None
      BY <1>3, <2>1, <3>1, GatherMeets
    <3>3. CellsOf(q) = x
      BY <2>2
    <3> QED BY <2>4, <3>2, <3>3 DEF Served
  <2> QED BY <1>4, <2>3, <2>4
<1>5. CASE pc[q] = "rows"
  <2> DEFINE p == prompt[q]
             f == forward[q]
             k == Len(whole[q])
             x == TokenRows(Total, p, f, Blocks)
  <2>1. p \in Nat /\ f \in Nat /\ Blocks \in Nat
    BY Plain
  <2>2. ASSUME NEW s \in Ranks PROVE LastRows(s) = x /\ Len(whole[s]) = k
    <3>1. /\ At(s)[1] = forward[s] /\ At(s)[4] = Len(whole[s])
          /\ At(q)[1] = forward[q] /\ At(q)[4] = k
      BY <1>1, <1>5 DEF At, Place
    <3>2. forward[s] = f /\ Len(whole[s]) = k /\ prompt[s] = p
      BY <1>1, <3>1
    <3> QED BY <3>2 DEF LastRows
  <2>3. ASSUME NEW s \in Ranks PROVE call[s] = RowsCall(x, Lengths, s, k + 1) /\ k \in 0..world - 1
    <3>1. PICK j \in 0..world - 1 : whole[s] = ShardsHeld(LastRows(s), Lengths, j)
                                    /\ call[s] = RowsCall(LastRows(s), Lengths, s, j + 1)
      BY <1>1, <1>2, <1>5 DEF Exact, AtRows
    <3>2. j \in Nat
      BY <3>1, Plain
    <3>3. Len(whole[s]) = j
      BY <3>1, <3>2, MoreShards
    <3>4. j = k
      BY <2>2, <3>3
    <3> QED BY <2>2, <3>1, <3>4
  <2>4. k + 1 \in Ranks
    BY <2>3, Plain, Sizes
  <2>5. \A s \in Ranks : call[s] = RowsCall(x, Lengths, s, k + 1)
    BY <2>3
  <2>6. LastRows(q) = x
    BY <2>2
  <2> DEFINE src == k + 1
  <2> HIDE DEF p, f, src
  <2>7. /\ \A s \in Ranks : Match(q, s)
        /\ Received(q) = OwnPart(x, Lengths, src) /\ OwnPart(x, Lengths, src) # None
    <3>1. \A s \in Ranks : call[s] = RowsCall(x, Lengths, s, src)
      BY <2>5 DEF src
    <3>2. src \in Ranks
      BY <2>4 DEF src
    <3> QED BY <1>3, <2>1, <3>1, <3>2, RowsMeet
  <2>8. Received(q) = OwnPart(LastRows(q), Lengths, Len(whole[q]) + 1) /\ Received(q) # None
    BY <2>6, <2>7 DEF src
  <2> QED BY <1>5, <2>7, <2>8 DEF Served
<1>6. CASE pc[q] = "meta" \/ pc[q] = "payload"
  <2> DEFINE p == prompt[q]
             k == Len(video[q])
  <2>1. p \in Nat /\ k \in Nat
    BY Plain, VideoIs
  <2>2. ASSUME NEW s \in Ranks PROVE Len(video[s]) = k /\ prompt[s] = p
    <3>1. At(s)[4] = Len(video[s]) /\ At(q)[4] = k
      BY <1>1, <1>6 DEF At, Place
    <3> QED BY <1>1, <3>1
  <2>3. CASE pc[q] = "meta"
    <3>1. \A s \in Ranks : call[s] = MetaCall(world, s, k)
      BY <1>1, <1>2, <2>2, <2>3 DEF Exact, AtMeta
    <3> HIDE DEF p, k
    <3>2. (\A s \in Ranks : Match(q, s)) /\ Received(q) = Shape(k + 1) /\ Shape(k + 1) # None
      BY <1>3, <2>1, <3>1, ChunkMeets
    <3>3. Received(q) = Shape(Len(video[q]) + 1) /\ Received(q) # None
      BY <3>2 DEF k
    <3> QED BY <2>3, <3>2, <3>3 DEF Served
  <2>4. CASE pc[q] = "payload"
    <3>1. \A s \in Ranks : call[s] = PayloadCall(world, p, s, k)
      BY <1>1, <1>2, <2>2, <2>4 DEF Exact, AtPayload
    <3> HIDE DEF p, k
    <3>2. (\A s \in Ranks : Match(q, s)) /\ Received(q) = Chunk(p, k + 1) /\ Chunk(p, k + 1) # None
      BY <1>3, <2>1, <3>1, ChunkMeets
    <3>3. Received(q) = Chunk(prompt[q], Len(video[q]) + 1) /\ Received(q) # None
      BY <3>2 DEF p, k
    <3> QED BY <2>4, <3>2, <3>3 DEF Served
  <2> QED BY <1>6, <2>3, <2>4
<1>7. pc[q] \in {"scatter", "gather", "rows", "meta", "payload"}
  BY WaitingIs
<1> QED BY <1>4, <1>5, <1>6, <1>7

\* After the same round, ranks are in the same round, or over the chunks with
\* different decoders.
LEMMA Onwards ==
  ASSUME NEW w, NEW a \in BOOLEAN, NEW b \in BOOLEAN, NEW round,
         round[3] \in {"scatter", "gather", "rows", "meta", "payload"}
  PROVE  \/ After(w, a, round) = After(w, b, round)
         \/ a # b /\ InTail(After(w, a, round)) /\ InTail(After(w, b, round))
<1>1. \A k : InTail(FromChunk(a, k)) /\ InTail(FromChunk(b, k))
  BY DEF InTail, FromChunk, End
<1>2. CASE a = b
  BY <1>2
<1>3. CASE round[3] \in {"scatter", "gather", "meta"}
  BY <1>3 DEF After
<1>4. CASE a # b /\ round[3] = "rows"
  BY <1>1, <1>4 DEF After
<1>5. CASE a # b /\ round[3] = "payload"
  <2>1. After(w, a, round) = FromChunk(a, round[4] + 1) /\ After(w, b, round) = FromChunk(b, round[4] + 1)
    BY <1>5 DEF After
  <2> QED BY <1>1, <1>5, <2>1
<1> QED BY <1>2, <1>3, <1>4, <1>5

\* A collective answers all ranks and takes them to the next round together.
LEMMA MeetKeeps ==
  ASSUME IInv, Meet
  PROVE  IInv'
<1>1. /\ UNCHANGED <<fixedVars, raised, pc, prompt, forward, block, ended, shard, inBlock, packed, whole,
                     counter, video, broken>>
      /\ reply' = [r \in Ranks |-> Received(r)]
      /\ call' = [r \in Ranks |-> None]
      /\ \A r \in Ranks : Waiting(r)
  BY DEF Meet, jobVars, shardVars, videoVars
<1>2. /\ world' = world /\ split' = split /\ Ranks' = Ranks
      /\ Total' = Total /\ Lengths' = Lengths /\ HeadsLocal' = HeadsLocal
  BY <1>1, SameSizes
<1>3. \A r \in Ranks : reply'[r] = Received(r) /\ call'[r] = None
  BY <1>1
<1>4. Types'
  <2>1. FunctionOfRanks(reply') /\ FunctionOfRanks(call')
    BY <1>1 DEF FunctionOfRanks
  <2>2. FunctionOfRanks(reply)' /\ FunctionOfRanks(call)'
    BY <1>2, <2>1 DEF FunctionOfRanks
  <2>3. /\ FunctionOfRanks(shard)' /\ FunctionOfRanks(packed)' /\ FunctionOfRanks(whole)'
        /\ FunctionOfRanks(counter)' /\ FunctionOfRanks(video)'
    BY <1>1, <1>2 DEF IInv, Types, FunctionOfRanks
  <2>4. /\ world' \in Worlds /\ table' \in Layouts /\ split' \in [Ranks' -> BOOLEAN]
        /\ pc' \in [Ranks' -> Places]
        /\ prompt' \in [Ranks' -> 0..Prompts] /\ forward' \in [Ranks' -> 1..Forwards]
        /\ block' \in [Ranks' -> 1..Blocks] /\ inBlock' \in [Ranks' -> BOOLEAN]
        /\ ended' \in [Ranks' -> {"none", "ok", "failed"}]
    BY <1>1, <1>2, SameSizes DEF IInv, Types
  <2>5. broken' \in BOOLEAN /\ raised' \in BOOLEAN
    BY <1>1 DEF IInv, Types
  <2> QED BY <2>2, <2>3, <2>4, <2>5 DEF Types
<1>5. ASSUME NEW r \in Ranks PROVE Exact(r)'
  <2>1. Exact(r) /\ call[r] # None /\ Served(r) /\ pc[r] \in {"scatter", "gather", "rows", "meta", "payload"}
    BY <1>1, AllServed, WaitingIs DEF IInv, Waiting
  <2>2. /\ reply'[r] = Received(r) /\ call'[r] = None
        /\ CellsOf(r)' = CellsOf(r) /\ LastRows(r)' = LastRows(r)
        /\ Before(r)' = Before(r) /\ HasShard(r)' = HasShard(r)
    BY <1>1, <1>2, <1>3, SameSizes DEF CellsOf, LastRows, Before, HasShard, RowsOf
  <2>3. \A k : HasColumns(r, k) => HasColumns(r, k)'
    BY <1>1, <1>2, <2>2 DEF HasColumns
  <2>4. pc[r] = "scatter" => AtScatter(r)'
    BY <1>2, <2>1, <2>2, <2>3 DEF Exact, AtScatter, Served
  <2>5. pc[r] = "gather" => AtGather(r)'
    BY <1>2, <2>1, <2>2 DEF Exact, AtGather, Served
  <2>6. pc[r] = "rows" => AtRows(r)'
    <3> HAVE pc[r] = "rows"
    <3>1. PICK k \in 0..world - 1 : whole[r] = ShardsHeld(LastRows(r), Lengths, k)
      BY <2>1 DEF Exact, AtRows
    <3>2. k \in Nat /\ Len(whole[r]) = k
      BY <3>1, MoreShards, Plain
    <3>3. reply'[r] = OwnPart(LastRows(r), Lengths, k + 1)
      BY <2>1, <2>2, <3>2 DEF Served
    <3>4. packed[r] = OwnPart(LastRows(r), Lengths, r) /\ Before(r)
      BY <2>1 DEF Exact, AtRows
    <3>5. /\ whole'[r] = ShardsHeld(LastRows(r)', Lengths', k) /\ k \in 0..world' - 1
          /\ reply'[r] = OwnPart(LastRows(r)', Lengths', k + 1)
          /\ packed'[r] = OwnPart(LastRows(r)', Lengths', r) /\ Before(r)'
      BY <1>1, <1>2, <2>2, <3>1, <3>3, <3>4
    <3> QED BY <2>2, <3>5 DEF AtRows
  <2>7. pc[r] = "meta" => AtMeta(r)'
    BY <1>1, <1>2, <2>1, <2>2 DEF Exact, AtMeta, Served, InChunk
  <2>8. pc[r] = "payload" => AtPayload(r)'
    BY <1>1, <1>2, <2>1, <2>2 DEF Exact, AtPayload, Served, InChunk
  <2> QED BY <1>1, <1>2, <2>1, <2>4, <2>5, <2>6, <2>7, <2>8 DEF Exact, InForward
<1>6. ASSUME NEW a \in Ranks, NEW b \in Ranks
      PROVE  Round(a)' = Round(b)' \/ (split'[a] # split'[b] /\ InTail(Round(a)') /\ InTail(Round(b)'))
  <2>1. At(a) = At(b) /\ At(a)[3] \in {"scatter", "gather", "rows", "meta", "payload"}
    BY <1>1, Together, WaitingIs
  <2>2. ASSUME NEW r \in Ranks PROVE Round(r)' = After(world, split[r], At(r))
    <3>1. reply'[r] # None
      BY <1>1, <1>3, AllServed DEF Served
    <3>2. At(r)' = At(r)
      BY <1>1, <1>2 DEF At
    <3> QED BY <1>2, <3>1, <3>2 DEF Round
  <2>3. split[a] \in BOOLEAN /\ split[b] \in BOOLEAN
    BY DEF IInv, Types
  <2>4. \/ After(world, split[a], At(a)) = After(world, split[b], At(a))
        \/ /\ split[a] # split[b]
           /\ InTail(After(world, split[a], At(a))) /\ InTail(After(world, split[b], At(a)))
    BY <2>1, <2>3, Onwards
  <2> QED BY <1>2, <2>1, <2>2, <2>4
<1>7. InStep'
  BY <1>2, <1>6 DEF InStep
<1>8. Endings' /\ LostForACause'
  <2>1. Endings'
    BY <1>1, <1>2 DEF IInv, Endings
  <2>2. LostForACause'
    BY <1>1, <1>2 DEF IInv, LostForACause
  <2> QED BY <2>1, <2>2
<1> QED BY <1>2, <1>4, <1>5, <1>7, <1>8 DEF IInv

\* A prompt begins on every rank, from whatever the last one left.
LEMMA BeginKeeps ==
  ASSUME IInv, Begin
  PROVE  IInv'
<1>1. /\ UNCHANGED <<fixedVars, raised, block, shard, inBlock, packed, whole, counter, call, reply, broken>>
      /\ pc' = [r \in Ranks |-> "refine"]
      /\ prompt' = [r \in Ranks |-> prompt[r] + 1]
      /\ forward' = [r \in Ranks |-> 1]
      /\ ended' = [r \in Ranks |-> "none"]
      /\ video' = [r \in Ranks |-> << >>]
      /\ \A r \in Ranks : pc[r] = "idle" /\ prompt[r] < Prompts
  BY DEF Begin, shardVars, wireVars
<1>2. world' = world /\ table' = table /\ split' = split /\ Ranks' = Ranks
  BY <1>1, SameSizes
<1>3. \A r \in Ranks : /\ pc'[r] = "refine" /\ prompt'[r] = prompt[r] + 1 /\ forward'[r] = 1
                       /\ ended'[r] = "none" /\ video'[r] = << >>
  BY <1>1
<1>4. Types'
  <2>1. pc' \in [Ranks -> Places] /\ ended' \in [Ranks -> {"none", "ok", "failed"}]
    BY <1>1 DEF Places
  <2>2. prompt' \in [Ranks -> 0..Prompts]
    <3>1. \A r \in Ranks : prompt[r] \in 0..Prompts /\ prompt[r] < Prompts /\ Prompts \in Nat
      BY <1>1, BoundsAssumption DEF IInv, Types
    <3>2. \A r \in Ranks : prompt[r] + 1 \in 0..Prompts
      BY <3>1
    <3> QED BY <1>1, <3>2
  <2>3. forward' \in [Ranks -> 1..Forwards]
    BY <1>1, BoundsAssumption
  <2>4. FunctionOfRanks(video)'
    BY <1>1, <1>2 DEF FunctionOfRanks
  <2>5. /\ FunctionOfRanks(shard)' /\ FunctionOfRanks(packed)' /\ FunctionOfRanks(whole)'
        /\ FunctionOfRanks(counter)' /\ FunctionOfRanks(call)' /\ FunctionOfRanks(reply)'
    BY <1>1, <1>2 DEF IInv, Types, FunctionOfRanks
  <2>6. /\ world' \in Worlds /\ table' \in Layouts /\ split' \in [Ranks' -> BOOLEAN]
        /\ block' \in [Ranks' -> 1..Blocks] /\ inBlock' \in [Ranks' -> BOOLEAN]
    BY <1>1, <1>2 DEF IInv, Types
  <2>7. broken' \in BOOLEAN /\ raised' \in BOOLEAN
    BY <1>1 DEF IInv, Types
  <2> QED BY <1>2, <2>1, <2>2, <2>3, <2>4, <2>5, <2>6, <2>7 DEF Types
<1>5. ASSUME NEW r \in Ranks PROVE Exact(r)' /\ reply'[r] = None
  <2>1. Exact(r) /\ pc[r] = "idle" /\ Quiet(r) /\ counter[r] = None
    BY <1>1 DEF IInv, Exact
  <2>2. AtRefine(r)' /\ reply'[r] = None
    BY <1>1, <1>3, <2>1 DEF AtRefine, Quiet, Before
  <2>3. video'[r] = ChunksHeld(prompt'[r], 0) /\ 0 \in 0..Chunks
    BY <1>3, MoreChunks, Plain
  <2>4. \E k \in 0..Maximum(3, world)' : Len(whole'[r]) = k
    BY <1>1, <1>2, <2>1 DEF Exact
  <2>5. inBlock'[r] <=> InForward(r)'
    <3>1. ~InForward(r) /\ ~InForward(r)'
      BY <1>3, <2>1 DEF InForward
    <3>2. ~inBlock[r]
      BY <2>1, <3>1 DEF Exact
    <3>3. inBlock' = inBlock
      BY <1>1
    <3> QED BY <3>1, <3>2, <3>3
  <2> QED BY <1>3, <2>2, <2>3, <2>4, <2>5 DEF Exact
<1>6. ASSUME NEW r \in Ranks PROVE Round(r)' = <<1, 1, "scatter", 0>>
  BY <1>3, <1>5, Rounds DEF Round, At
<1>7. InStep'
  BY <1>2, <1>6 DEF InStep
<1>8. Endings'
  <2>1. \A a, b \in Ranks : prompt'[a] = prompt'[b]
    BY <1>3 DEF IInv, Endings
  <2> QED BY <1>2, <1>3, <2>1 DEF Endings
<1>9. LostForACause'
  BY <1>1, <1>2 DEF IInv, LostForACause
<1> QED BY <1>2, <1>4, <1>5, <1>7, <1>8, <1>9 DEF IInv

\* The invariant holds at first ...
LEMMA StartsRight ==
  ASSUME Init
  PROVE  IInv
<1>1. world \in Nat /\ world > 1 /\ Ranks = 1..world
  BY WorldsAssumption DEF Init, Ranks
<1>2. Types
  <2>1. /\ pc \in [Ranks -> Places] /\ ended \in [Ranks -> {"none", "ok", "failed"}]
    BY DEF Init, Places
  <2>2. /\ prompt \in [Ranks -> 0..Prompts] /\ forward \in [Ranks -> 1..Forwards]
        /\ block \in [Ranks -> 1..Blocks]
    BY BoundsAssumption DEF Init
  <2>3. inBlock \in [Ranks -> BOOLEAN] /\ broken \in BOOLEAN /\ raised \in BOOLEAN
    BY DEF Init
  <2>4. /\ FunctionOfRanks(shard) /\ FunctionOfRanks(packed) /\ FunctionOfRanks(whole)
        /\ FunctionOfRanks(counter) /\ FunctionOfRanks(video)
        /\ FunctionOfRanks(call) /\ FunctionOfRanks(reply)
    BY DEF Init, FunctionOfRanks
  <2>5. world \in Worlds /\ table \in Layouts /\ split \in [Ranks -> BOOLEAN]
    BY DEF Init
  <2> QED BY <2>1, <2>2, <2>3, <2>4, <2>5 DEF Types
<1>3. ASSUME NEW r \in Ranks PROVE Exact(r)
  <2>1. /\ pc[r] = "idle" /\ call[r] = None /\ reply[r] = None /\ counter[r] = None
        /\ video[r] = << >> /\ whole[r] = << >> /\ prompt[r] = 0
    BY DEF Init
  <2>2. video[r] = ChunksHeld(prompt[r], 0) /\ 0 \in 0..Chunks
    BY <2>1, MoreChunks, BoundsAssumption
  <2>3. Len(whole[r]) = 0 /\ 0 \in 0..Maximum(3, world)
    BY <1>1, <2>1 DEF Maximum
  <2>4. ~inBlock[r] /\ ~InForward(r)
    BY <2>1 DEF Init, InForward
  <2> QED BY <2>1, <2>2, <2>3, <2>4 DEF Exact, Quiet
<1>4. InStep
  BY DEF Init, InStep, Live
<1>5. Endings /\ LostForACause
  BY DEF Init, Endings, LostForACause
<1> QED BY <1>2, <1>3, <1>4, <1>5 DEF IInv

\* ... and every step keeps it.
LEMMA StepsKeep ==
  ASSUME IInv, [Next]_vars
  PROVE  IInv'
<1>1. CASE Begin
  BY <1>1, BeginKeeps
<1>2. CASE Meet
  BY <1>2, MeetKeeps
<1>3. ASSUME NEW r \in Ranks, Step(r) PROVE IInv'
  BY <1>3, RefineKeeps, EnterBlockKeeps, ScatterKeeps, ScatteredKeeps, GatherKeeps, LeaveBlockKeeps,
     GatherRowsKeeps, RowsGatheredKeeps, DecodeKeeps, ShareChunkKeeps, ShapeKnownKeeps,
     ChunkSharedKeeps, DecodeChunkKeeps, VideoDecodedKeeps, CollectiveFailsKeeps DEF Step
<1>4. ASSUME NEW r \in Ranks, Raise(r) PROVE IInv'
  BY <1>4, RaiseKeeps
<1>5. CASE UNCHANGED vars
  <2>1. /\ UNCHANGED fixedVars /\ UNCHANGED <<pc, prompt, forward, block, ended, shard, inBlock, packed, whole,
                                              counter, video, call, reply, broken, raised>>
    BY <1>5 DEF vars, jobVars, shardVars, videoVars, wireVars
  <2>2. Ranks' = Ranks /\ world' = world /\ split' = split /\ table' = table
    BY <2>1, SameSizes
  <2>3. ASSUME NEW s \in Ranks PROVE Exact(s)' /\ Round(s)' = Round(s) /\ (Live(s)' <=> Live(s))
    <3>1. Untouched(s)
      BY <2>1 DEF Untouched
    <3> QED BY <2>1, <3>1, Frame DEF IInv
  <2>4. Types'
    BY <2>1, <2>2 DEF IInv, Types, FunctionOfRanks
  <2>5. InStep'
    BY <2>2, <2>3 DEF IInv, InStep
  <2>6. Endings'
    BY <2>1, <2>2 DEF IInv, Endings
  <2>7. LostForACause'
    BY <2>1, <2>2 DEF IInv, LostForACause
  <2> QED BY <2>2, <2>3, <2>4, <2>5, <2>6, <2>7 DEF IInv
<1> QED BY <1>1, <1>2, <1>3, <1>4, <1>5 DEF Next

-----------------------------------------------------------------------------
(* What the invariant says.                                                *)

\* Wherever a rank has none of the chunk it decodes, or has the one before.
LEMMA CounterIs ==
  ASSUME IInv, NEW r \in Ranks, counter[r] # None
  PROVE  counter[r] \in 0..Chunks
<1>1. Exact(r) /\ pc[r] \in Places
  BY Plain DEF IInv
<1>2. Len(video[r]) \in 0..Chunks /\ Chunks \in Nat
  BY VideoIs, Plain
<1>3. ~Before(r)
  BY DEF Before
<1>4. pc[r] \in {"chunk", "meta", "payload"}
  BY <1>1, <1>3 DEF Exact, AtRefine, AtBlock, AtScatter, AtAttend, AtGather, AtRows, AtDecode, Places
<1>5. CASE pc[r] = "chunk"
  <2>1. counter[r] = Len(video[r])
    BY <1>1, <1>5 DEF Exact, AtChunk
  <2> QED BY <1>2, <2>1
<1>6. CASE pc[r] \in {"meta", "payload"}
  <2>1. counter[r] = Len(video[r]) + 1 /\ Len(video[r]) < Chunks
    BY <1>1, <1>6 DEF Exact, AtMeta, AtPayload, InChunk
  <2> QED BY <1>2, <2>1
<1> QED BY <1>4, <1>5, <1>6

\* Inside a block a rank holds its shard, and nowhere else are the hooks active.
LEMMA InsideIs ==
  ASSUME IInv, NEW r \in Ranks
  PROVE  (InForward(r) <=> Sharded(r)) /\ (InForward(r) => Len(packed[r]) = shard[r].seq_lengths[r])
<1>1. Exact(r) /\ (inBlock[r] <=> InForward(r))
  BY DEF IInv, Exact
<1>2. ASSUME InForward(r)
      PROVE  shard[r] # None /\ Len(packed[r]) = shard[r].seq_lengths[r]
  <2>1. HasShard(r)
    BY <1>1, <1>2 DEF InForward, Exact, AtScatter, AtAttend, AtGather
  <2>2. shard[r].seq_lengths = Lengths /\ Len(packed[r]) = Lengths[r]
    BY <2>1, InShard
  <2>3. shard[r] # None
    BY <2>1, Plain, ShardPresent DEF HasShard
  <2> QED BY <2>2, <2>3
<1> QED BY <1>1, <1>2 DEF Sharded

\* The types follow from it,
LEMMA TypesFollow ==
  ASSUME IInv
  PROVE  TypeOK
<1>1. Types
  BY DEF IInv
<1>2. ASSUME NEW r \in Ranks
      PROVE  /\ Waiting(r) => pc[r] \in {"scatter", "gather", "rows", "meta", "payload"}
             /\ ~(Waiting(r) /\ reply[r] # None)
             /\ Len(whole[r]) <= Maximum(3, world)
  <2>1. PICK k \in 0..Maximum(3, world) : Len(whole[r]) = k
    BY DEF IInv, Exact
  <2> QED BY <2>1, WaitingIs, Plain DEF Maximum
<1> QED BY <1>1, <1>2, CounterIs, InsideIs DEF Types, TypeOK

\* the calls: when all wait all are served, by matching calls,
LEMMA CallsFollow ==
  ASSUME IInv
  PROVE  CallsAgree
<1>1. CallsMatch
  BY AllServed DEF CallsMatch, Served
<1>2. LostForACause
  BY DEF IInv
<1> QED BY <1>1, <1>2 DEF CallsAgree

\* The rows of a rank are the rows of the unpatched model from its start to the
\* start of the next.
LEMMA OwnRows ==
  ASSUME world \in Worlds, table \in Layouts, NEW r \in Ranks,
         NEW p \in Nat, NEW f \in Nat, NEW d \in Nat
  PROVE  OwnPart(TokenRows(Total, p, f, d), Lengths, r)
           = SubSeq(Hidden(p, f, d), Start(ShardLengths(Total, world), r) + 1,
                                     Start(ShardLengths(Total, world), r + 1))
<1>1. Start(Lengths, r) + Lengths[r] = Start(Lengths, r + 1)
  BY Sharing DEF Lengths, Consecutive
<1>2. TokenRows(Total, p, f, d) = Hidden(p, f, d)
  BY DEF TokenRows, Hidden
<1> QED BY <1>1, <1>2 DEF OwnPart, Slice, Lengths

\* and the results: what a rank holds between two collectives.
LEMMA ResultsFollow ==
  ASSUME IInv
  PROVE  ResultsAreExact
<1>1. ASSUME NEW r \in Ranks, pc[r] = "block", block[r] > 1
      PROVE  packed[r] = SubSeq(Hidden(prompt[r], forward[r], block[r] - 1),
                                Start(ShardLengths(Total, world), r) + 1,
                                Start(ShardLengths(Total, world), r + 1))
  <2>1. block[r] # 1
    BY <1>1
  <2>2. HasShard(r)
    BY <1>1, <2>1 DEF IInv, Exact, AtBlock
  <2>3. packed[r] = OwnPart(TokenRows(Total, prompt[r], forward[r], block[r] - 1), Lengths, r)
    BY <2>2 DEF HasShard, RowsOf
  <2>4. /\ world \in Worlds /\ table \in Layouts
        /\ prompt[r] \in Nat /\ forward[r] \in Nat /\ block[r] - 1 \in Nat
    BY Plain
  <2>5. OwnPart(TokenRows(Total, prompt[r], forward[r], block[r] - 1), Lengths, r)
          = SubSeq(Hidden(prompt[r], forward[r], block[r] - 1),
                   Start(ShardLengths(Total, world), r) + 1,
                   Start(ShardLengths(Total, world), r + 1))
    BY <2>4, OwnRows
  <2> QED BY <2>3, <2>5
<1>2. ASSUME NEW r \in Ranks, pc[r] = "rows"
      PROVE  packed[r] = SubSeq(Hidden(prompt[r], forward[r], Blocks),
                                Start(ShardLengths(Total, world), r) + 1,
                                Start(ShardLengths(Total, world), r + 1))
  <2>1. packed[r] = OwnPart(LastRows(r), Lengths, r)
    BY <1>2 DEF IInv, Exact, AtRows
  <2>2. world \in Worlds /\ table \in Layouts /\ prompt[r] \in Nat /\ forward[r] \in Nat /\ Blocks \in Nat
    BY Plain
  <2>3. OwnPart(TokenRows(Total, prompt[r], forward[r], Blocks), Lengths, r)
          = SubSeq(Hidden(prompt[r], forward[r], Blocks),
                   Start(ShardLengths(Total, world), r) + 1,
                   Start(ShardLengths(Total, world), r + 1))
    BY <2>2, OwnRows
  <2> QED BY <2>1, <2>3 DEF LastRows
<1>3. ASSUME NEW r \in Ranks, pc[r] = "decode"
      PROVE  packed[r] = Hidden(prompt[r], forward[r], Blocks)
  BY <1>3 DEF IInv, Exact, AtDecode, LastRows, TokenRows, Hidden
<1>4. RowsAreExact
  BY <1>1, <1>2, <1>3 DEF RowsAreExact, BlocksDone
<1>5. ChunksAreExact
  BY VideoIs DEF ChunksAreExact, ChunksHeld
<1> QED BY <1>4, <1>5 DEF ResultsAreExact

\* The invariant holds from the first state on, in every step of a rank, of the
\* group and of the queue, failures included.
THEOREM Invariance == Spec => []IInv
<1>1. Init => IInv
  BY StartsRight
<1>2. IInv /\ [Next]_vars => IInv'
  BY StepsKeep
<1> QED BY <1>1, <1>2, PTL DEF Spec

\* The variables keep their types (_STATE of patches.py and what a rank holds),
\* a rank waits only where the code calls a collective, and the hooks are active
\* exactly inside the blocks of a sharded sequence.
THEOREM TypeCorrect == Spec => []TypeOK
<1>1. IInv => TypeOK
  BY TypesFollow
<1> QED BY <1>1, Invariance, PTL

\* Ranks that run on their own make the same collective calls with sizes that
\* agree, whatever failed before, and the communicator is lost only for a cause
\* (collectives.py).
THEOREM CallsCorrect == Spec => []CallsAgree
<1>1. IInv => CallsAgree
  BY CallsFollow
<1> QED BY <1>1, Invariance, PTL

\* Splitting the sequence and the video changes nothing of what is computed:
\* for every number of ranks, heads, blocks, steps and chunks, and every layout
\* of the packed sequence (ulysses.py, patches.py).
THEOREM ResultsCorrect == Spec => []ResultsAreExact
<1>1. IInv => ResultsAreExact
  BY ResultsFollow
<1> QED BY <1>1, Invariance, PTL
=============================================================================
