------------------------- MODULE PriorityQueueProofs -------------------------
(***************************************************************************)
(* Theorems about PriorityQueue, for every set of data, capacity of the    *)
(* buckets, priorities and aging factor: the linked buckets make up one    *)
(* list, and whatever removePriorityQueueNode unlinks, nothing is lost.    *)
(***************************************************************************)
EXTENDS PriorityQueue, RingBufferProofs, FiniteSetTheorems

-----------------------------------------------------------------------------
(* Induction on the natural numbers, and loops that run a number of turns *)

LEMMA SetInduction ==
    ASSUME NEW n \in Nat, NEW T, 0 \in T, \A i \in 1..n : i - 1 \in T => i \in T
    PROVE  \A i \in 0..n : i \in T
<1> DEFINE Bad == {i \in 0..n : i \notin T}
<1>1. ASSUME Bad # {} PROVE FALSE
  <2>1. PICK i \in Bad : \A j \in Bad : i <= j
    <3>1. Bad \subseteq Nat
      OBVIOUS
    <3> QED
      BY <1>1, <3>1, LeastElement
  <2>2. i \in 1..n /\ i - 1 \in 0..n /\ ~(i <= i - 1)
    OBVIOUS
  <2>3. i - 1 \in T
    BY <2>1, <2>2
  <2> QED
    BY <2>2, <2>3
<1> QED
  BY <1>1

(* f is what a loop has after each of n turns, all of it in U *)
Turns(f, U, base, step, n) ==
    /\ f \in [0..n -> U]
    /\ f[0] = base
    /\ \A i \in 1..n : f[i] = step[<<f[i - 1], i>>]

LEMMA TurnsExist ==
    ASSUME NEW U, NEW base \in U, NEW step, NEW n \in Nat,
           \A x \in U, i \in 1..n : step[<<x, i>>] \in U
    PROVE  \E f : Turns(f, U, base, step, n)
<1> DEFINE Has(m) == \E f : Turns(f, U, base, step, m)
           T == {m \in 0..n : Has(m)}
<1>1. 0 \in T
  <2> DEFINE f == [i \in 0..0 |-> base]
  <2>1. Turns(f, U, base, step, 0)
    BY DEF Turns
  <2> HIDE DEF f
  <2> QED
    BY <2>1
<1>2. ASSUME NEW m \in 1..n, m - 1 \in T
      PROVE  m \in T
  <2>1. PICK f : Turns(f, U, base, step, m - 1)
    BY <1>2
  <2> DEFINE g == [i \in 0..m |-> IF i = m THEN step[<<f[m - 1], m>>] ELSE f[i]]
  <2>2. /\ f \in [0..(m - 1) -> U] /\ f[0] = base
        /\ \A i \in 1..(m - 1) : f[i] = step[<<f[i - 1], i>>]
    BY <2>1 DEF Turns
  <2>3. f[m - 1] \in U
    BY <2>2
  <2>4. g \in [0..m -> U] /\ g[0] = base
    BY <2>2, <2>3
  <2>5. ASSUME NEW i \in 1..m PROVE g[i] = step[<<g[i - 1], i>>]
    <3>1. g[i - 1] = f[i - 1]
      OBVIOUS
    <3>2. CASE i = m
      <4>1. g[m] = step[<<f[m - 1], m>>]
        OBVIOUS
      <4> QED
        BY <3>1, <3>2, <4>1
    <3>3. CASE i # m
      <4>1. i \in 1..(m - 1)
        BY <3>3
      <4>2. g[i] = f[i]
        BY <3>3
      <4> QED
        BY <2>2, <3>1, <4>1, <4>2
    <3> QED
      BY <3>2, <3>3
  <2>6. Turns(g, U, base, step, m)
    <3> HIDE DEF g
    <3> QED
      BY <2>4, <2>5 DEF Turns
  <2> HIDE DEF g
  <2> QED
    BY <2>6
<1>3. \A m \in 0..n : m \in T
  <2> HIDE DEF T
  <2> QED
    BY <1>1, <1>2, SetInduction
<1> QED
  BY <1>3

-----------------------------------------------------------------------------
(* Lists one after the other *)

(* up is what there is of them after each of the lists B *)
Piled(up, B) ==
    /\ DOMAIN up = 0..Len(B)
    /\ up[0] = <<>>
    /\ \A k \in 1..Len(B) : up[k] = up[k - 1] \o B[k]

LEMMA PiledExists ==
    ASSUME NEW S, NEW B \in Seq(Seq(S))
    PROVE  \E up \in [0..Len(B) -> Seq(S)] : Piled(up, B)
<1> DEFINE n == Len(B)
           step == [e \in Seq(S) \X (1..n) |-> e[1] \o B[e[2]]]
<1>1. n \in Nat /\ \A k \in 1..n : B[k] \in Seq(S)
  BY LenProperties, ElementOfSeq
<1>2. <<>> \in Seq(S)
  OBVIOUS
<1> HIDE DEF n
<1>3. \A x \in Seq(S), i \in 1..n : step[<<x, i>>] = x \o B[i] /\ step[<<x, i>>] \in Seq(S)
  <2> SUFFICES ASSUME NEW x \in Seq(S), NEW i \in 1..n
               PROVE  step[<<x, i>>] = x \o B[i] /\ step[<<x, i>>] \in Seq(S)
    OBVIOUS
  <2>1. x \o B[i] \in Seq(S)
    BY <1>1, ConcatProperties
  <2> QED
    BY <2>1
<1> HIDE DEF step
<1>4. PICK f : Turns(f, Seq(S), <<>>, step, n)
  BY <1>1, <1>2, <1>3, TurnsExist
<1>5. f \in [0..n -> Seq(S)] /\ f[0] = <<>> /\ \A i \in 1..n : f[i] = step[<<f[i - 1], i>>]
  BY <1>4 DEF Turns
<1>6. ASSUME NEW i \in 1..n PROVE f[i] = f[i - 1] \o B[i]
  <2>1. f[i - 1] \in Seq(S)
    BY <1>1, <1>5
  <2> QED
    BY <1>3, <1>5, <2>1
<1>7. f \in [0..Len(B) -> Seq(S)] /\ Piled(f, B)
  BY <1>5, <1>6 DEF Piled, n
<1> QED
  BY <1>7

LEMMA FlatIsPiled ==
    ASSUME NEW S, NEW B \in Seq(Seq(S)), NEW up, Piled(up, B)
    PROVE  Flat(B) = up[Len(B)]
<1> DEFINE n == Len(B)
           upTo[k \in 0..n] == IF k = 0 THEN <<>> ELSE upTo[k - 1] \o B[k]
           T == {k \in 0..n : upTo[k] = up[k]}
<1>1. Flat(B) = upTo[n]
  BY DEF Flat
<1>2. n \in Nat
  BY LenProperties
<1> HIDE DEF n
<1>3. PICK f \in [0..n -> Seq(S)] : Piled(f, B)
  BY PiledExists DEF n
<1>4. f = [k \in 0..n |-> IF k = 0 THEN <<>> ELSE f[k - 1] \o B[k]]
  BY <1>3 DEF Piled, n
<1>5. upTo = [k \in 0..n |-> IF k = 0 THEN <<>> ELSE upTo[k - 1] \o B[k]]
  BY <1>4
<1> HIDE DEF upTo
<1>6. 0 \in T
  BY <1>2, <1>5 DEF Piled
<1>7. ASSUME NEW k \in 1..n, k - 1 \in T PROVE k \in T
  <2>0. k \in 0..n /\ k # 0
    BY <1>2
  <2>1. upTo[k] = IF k = 0 THEN <<>> ELSE upTo[k - 1] \o B[k]
    BY <1>5, <2>0
  <2>2. up[k] = up[k - 1] \o B[k]
    BY DEF Piled, n
  <2>3. upTo[k - 1] = up[k - 1]
    BY <1>7
  <2>4. upTo[k] = up[k]
    BY <2>0, <2>1, <2>2, <2>3
  <2> QED
    BY <2>0, <2>4
<1>8. \A k \in 0..n : k \in T
  <2> HIDE DEF T
  <2> QED
    BY <1>2, <1>6, <1>7, SetInduction
<1> QED
  BY <1>1, <1>2, <1>8 DEF n

LEMMA FlatType ==
    ASSUME NEW S, NEW B \in Seq(Seq(S))
    PROVE  Flat(B) \in Seq(S)
<1>1. PICK up \in [0..Len(B) -> Seq(S)] : Piled(up, B)
  BY PiledExists
<1>2. Len(B) \in 0..Len(B)
  BY LenProperties
<1> QED
  BY <1>1, <1>2, FlatIsPiled

LEMMA FlatNone == Flat(<<>>) = <<>>
<1> DEFINE up == [k \in 0..0 |-> <<>>]
<1>1. <<>> \in Seq(Seq({})) /\ Len(<<>>) = 0
  OBVIOUS
<1>2. Piled(up, <<>>)
  BY <1>1 DEF Piled
<1> HIDE DEF up
<1>3. Flat(<<>>) = up[0]
  BY <1>1, <1>2, FlatIsPiled
<1> QED
  BY <1>2, <1>3 DEF Piled

LEMMA FlatConcat ==
    ASSUME NEW S, NEW B \in Seq(Seq(S)), NEW C \in Seq(Seq(S))
    PROVE  Flat(B \o C) = Flat(B) \o Flat(C)
<1>0. \A s, t, u \in Seq(S) : (s \o t) \o u = s \o (t \o u)
  OBVIOUS
<1> DEFINE n == Len(B)
           m == Len(C)
           D == B \o C
<1>1. n \in Nat /\ m \in Nat
  BY LenProperties
<1>2. /\ D \in Seq(Seq(S)) /\ Len(D) = n + m
      /\ \A k \in 1..n + m : D[k] = IF k <= n THEN B[k] ELSE C[k - n]
  BY ConcatProperties
<1>3. PICK up \in [0..n -> Seq(S)] : Piled(up, B)
  BY PiledExists
<1>4. PICK on \in [0..m -> Seq(S)] : Piled(on, C)
  BY PiledExists
<1>5. /\ up[0] = <<>> /\ \A k \in 1..n : up[k] = up[k - 1] \o B[k]
      /\ on[0] = <<>> /\ \A k \in 1..m : on[k] = on[k - 1] \o C[k]
  BY <1>3, <1>4 DEF Piled
<1>6. Flat(B) = up[n] /\ Flat(C) = on[m]
  BY <1>3, <1>4, FlatIsPiled
<1>7. \A k \in 1..m : C[k] \in Seq(S)
  BY ElementOfSeq
<1>8. up[n] \in Seq(S) /\ up[n] \o on[0] = up[n]
  <2>1. up[n] \in Seq(S)
    <3> HIDE DEF n
    <3>1. n \in 0..n
      BY <1>1
    <3> QED
      BY <1>3, <3>1
  <2>2. up[n] \o <<>> = up[n]
    BY <2>1, ConcatEmptySeq
  <2> QED
    BY <1>5, <2>1, <2>2
<1> HIDE DEF n, m, D
<1> DEFINE f == [k \in 0..n + m |-> IF k <= n THEN up[k] ELSE up[n] \o on[k - n]]
<1>9. ASSUME NEW k \in 1..n + m PROVE f[k] = f[k - 1] \o D[k]
  <2>1. CASE k <= n
    <3>1. k \in 1..n /\ k - 1 <= n /\ k \in 0..n + m /\ k - 1 \in 0..n + m
      BY <1>1, <2>1
    <3>2. f[k] = up[k] /\ f[k - 1] = up[k - 1]
      BY <2>1, <3>1
    <3> QED
      BY <1>2, <1>5, <2>1, <3>1, <3>2
  <2>2. CASE ~(k <= n)
    <3>1. /\ k - n \in 1..m /\ k \in 0..n + m /\ k - 1 \in 0..n + m
          /\ (k - n) - 1 \in 0..m /\ (k - 1) - n = (k - n) - 1
      BY <1>1, <2>2
    <3>2. f[k] = up[n] \o on[k - n]
      BY <2>2, <3>1
    <3>3. f[k - 1] = up[n] \o on[(k - n) - 1]
      <4>1. CASE k - 1 = n
        <5>1. (k - n) - 1 = 0 /\ k - 1 <= n
          BY <1>1, <3>1, <4>1
        <5> QED
          BY <1>8, <3>1, <4>1, <5>1
      <4>2. CASE k - 1 # n
        <5>1. ~(k - 1 <= n)
          BY <1>1, <2>2, <4>2
        <5> QED
          BY <3>1, <5>1
      <4> QED
        BY <4>1, <4>2
    <3>4. on[k - n] = on[(k - n) - 1] \o C[k - n] /\ D[k] = C[k - n]
      BY <1>2, <1>5, <2>2, <3>1
    <3>5. on[(k - n) - 1] \in Seq(S) /\ C[k - n] \in Seq(S)
      BY <1>4, <1>7, <3>1
    <3> HIDE DEF f
    <3>6. (up[n] \o on[(k - n) - 1]) \o C[k - n] = up[n] \o (on[(k - n) - 1] \o C[k - n])
      BY <1>0, <1>8, <3>5
    <3> QED
      BY <3>2, <3>3, <3>4, <3>6
  <2> QED
    BY <2>1, <2>2
<1>10. DOMAIN f = 0..Len(D) /\ f[0] = <<>>
  BY <1>1, <1>2, <1>5
<1>11. f[n + m] = up[n] \o on[m]
  <2>1. CASE m = 0
    <3>1. n + m = n /\ n \in 0..n + m /\ n <= n
      BY <1>1, <2>1
    <3> QED
      BY <1>8, <2>1, <3>1
  <2>2. CASE m # 0
    <3>1. ~(n + m <= n) /\ n + m \in 0..n + m /\ (n + m) - n = m
      BY <1>1, <2>2
    <3> QED
      BY <3>1
  <2> QED
    BY <2>1, <2>2
<1> HIDE DEF f
<1>12. Piled(f, D)
  BY <1>2, <1>9, <1>10 DEF Piled
<1>13. Flat(D) = f[Len(D)]
  BY <1>2, <1>12, FlatIsPiled
<1> QED
  BY <1>2, <1>6, <1>11, <1>13 DEF D

LEMMA FlatOne ==
    ASSUME NEW S, NEW s \in Seq(S)
    PROVE  Flat(<<s>>) = s
<1> DEFINE up == [k \in 0..1 |-> IF k = 0 THEN <<>> ELSE s]
<1>1. <<s>> \in Seq(Seq(S)) /\ Len(<<s>>) = 1 /\ <<s>>[1] = s
  OBVIOUS
<1>2. <<>> \o s = s
  BY ConcatEmptySeq
<1>3. DOMAIN up = 0..1 /\ up[0] = <<>> /\ up[1] = s
  OBVIOUS
<1> HIDE DEF up
<1>4. Piled(up, <<s>>)
  <2>1. \A k \in 1..1 : k = 1
    OBVIOUS
  <2>2. up[1] = up[1 - 1] \o <<s>>[1]
    BY <1>1, <1>2, <1>3
  <2> QED
    BY <1>1, <1>3, <2>1, <2>2 DEF Piled
<1>5. Flat(<<s>>) = up[1]
  BY <1>1, <1>4, FlatIsPiled
<1> QED
  BY <1>3, <1>5

-----------------------------------------------------------------------------
(* A list put together from parts, one of which changes *)

LEMMA WithAtType ==
    ASSUME NEW S, NEW s \in Seq(S), NEW k \in 1..Len(s)+1, NEW x \in S
    PROVE  /\ WithAt(s, k, x) \in Seq(S)
           /\ Len(WithAt(s, k, x)) = Len(s) + 1
           /\ \A i \in 1..Len(s)+1 : WithAt(s, k, x)[i] =
                  IF i < k THEN s[i] ELSE IF i = k THEN x ELSE s[i - 1]
<1> DEFINE n == Len(s)
           t == WithAt(s, k, x)
<1>1. n \in Nat /\ \A i \in 1..n : s[i] \in S
  BY LenProperties, ElementOfSeq
<1>2. t = [i \in 1..n+1 |-> IF i < k THEN s[i] ELSE IF i = k THEN x ELSE s[i - 1]]
  BY DEF WithAt
<1> HIDE DEF t, n
<1>3. ASSUME NEW i \in 1..n+1 PROVE t[i] \in S
  <2>1. i < k => i \in 1..n
    BY <1>1 DEF n
  <2>2. ~(i < k) /\ i # k => i - 1 \in 1..n
    BY <1>1 DEF n
  <2> QED
    BY <1>1, <1>2, <2>1, <2>2
<1>4. t \in [1..n+1 -> S]
  BY <1>2, <1>3
<1>5. t \in Seq(S) /\ Len(t) = n + 1
  BY <1>1, <1>4
<1> QED
  BY <1>2, <1>5 DEF t, n

(* The same as a predicate, which a step can cite before it expands it *)
IsWithAt(w, s, k, x) ==
    /\ Len(w) = Len(s) + 1
    /\ \A i \in 1..Len(s)+1 : w[i] = IF i < k THEN s[i] ELSE IF i = k THEN x ELSE s[i - 1]

LEMMA WithAtIs ==
    ASSUME NEW S, NEW s \in Seq(S), NEW k \in 1..Len(s)+1, NEW x \in S
    PROVE  WithAt(s, k, x) \in Seq(S) /\ IsWithAt(WithAt(s, k, x), s, k, x)
<1> DEFINE w == WithAt(s, k, x)
<1>1. /\ w \in Seq(S)
      /\ Len(w) = Len(s) + 1
      /\ \A i \in 1..Len(s)+1 : w[i] = IF i < k THEN s[i] ELSE IF i = k THEN x ELSE s[i - 1]
  BY WithAtType
<1> HIDE DEF w
<1>2. w \in Seq(S) /\ IsWithAt(w, s, k, x)
  BY <1>1 DEF IsWithAt
<1> QED
  BY <1>2 DEF w

LEMMA WithoutAtType ==
    ASSUME NEW S, NEW s \in Seq(S), NEW k \in 1..Len(s)
    PROVE  /\ WithoutAt(s, k) \in Seq(S)
           /\ Len(WithoutAt(s, k)) = Len(s) - 1
           /\ \A i \in 1..Len(s)-1 : WithoutAt(s, k)[i] = IF i < k THEN s[i] ELSE s[i + 1]
<1> DEFINE n == Len(s)
           t == WithoutAt(s, k)
<1>1. n \in Nat /\ n - 1 \in Nat /\ \A i \in 1..n : s[i] \in S
  BY LenProperties, ElementOfSeq
<1>2. t = [i \in 1..n-1 |-> IF i < k THEN s[i] ELSE s[i + 1]]
  BY DEF WithoutAt
<1> HIDE DEF t, n
<1>3. ASSUME NEW i \in 1..n-1 PROVE t[i] \in S
  <2>1. i \in 1..n /\ i + 1 \in 1..n
    BY <1>1
  <2> QED
    BY <1>1, <1>2, <2>1
<1>4. t \in [1..n-1 -> S]
  BY <1>2, <1>3
<1>5. t \in Seq(S) /\ Len(t) = n - 1
  BY <1>1, <1>4
<1> QED
  BY <1>2, <1>5 DEF t, n

LEMMA WithAtBehind ==
    ASSUME NEW S, NEW a \in Seq(S), NEW s \in Seq(S), NEW k \in 1..Len(s)+1, NEW x \in S
    PROVE  a \o WithAt(s, k, x) = WithAt(a \o s, Len(a) + k, x)
<1>0. ASSUME NEW t \in Seq(S), NEW j \in 1..Len(t)+1
      PROVE  /\ WithAt(t, j, x) \in Seq(S) /\ Len(WithAt(t, j, x)) = Len(t) + 1
             /\ \A i \in 1..Len(t)+1 :
                    WithAt(t, j, x)[i] = IF i < j THEN t[i] ELSE IF i = j THEN x ELSE t[i - 1]
  BY WithAtType
<1> DEFINE n == Len(a)
           m == Len(s)
           w == WithAt(s, k, x)
           l == a \o w
           b == a \o s
           r == WithAt(b, n + k, x)
<1>1. n \in Nat /\ m \in Nat
  BY LenProperties
<1>2. /\ w \in Seq(S) /\ Len(w) = m + 1
      /\ \A i \in 1..m+1 : w[i] = IF i < k THEN s[i] ELSE IF i = k THEN x ELSE s[i - 1]
  <2>1. w \in Seq(S) /\ IsWithAt(w, s, k, x)
    BY WithAtIs
  <2> HIDE DEF w
  <2> QED
    BY <2>1 DEF IsWithAt
<1>3. /\ b \in Seq(S) /\ Len(b) = n + m
      /\ \A i \in 1..n + m : b[i] = IF i <= n THEN a[i] ELSE s[i - n]
  BY ConcatProperties
<1> HIDE DEF w
<1>4. /\ l \in Seq(S) /\ Len(l) = n + (m + 1)
      /\ \A i \in 1..n + (m + 1) : l[i] = IF i <= n THEN a[i] ELSE w[i - n]
  <2>1. /\ l \in Seq(S) /\ Len(l) = Len(a) + Len(w)
        /\ \A i \in 1..Len(a) + Len(w) : l[i] = IF i <= Len(a) THEN a[i] ELSE w[i - Len(a)]
    BY <1>2, ConcatProperties
  <2> QED
    BY <1>2, <2>1
<1> HIDE DEF n, m, b
<1>5. k \in 1..m+1 /\ n + k \in 1..(n + m) + 1
  BY <1>1 DEF m
<1>6. /\ r \in Seq(S) /\ Len(r) = (n + m) + 1
      /\ \A i \in 1..(n + m) + 1 :
             r[i] = IF i < n + k THEN b[i] ELSE IF i = n + k THEN x ELSE b[i - 1]
  <2> DEFINE j == n + k
  <2>1. j \in 1..Len(b)+1 /\ r = WithAt(b, j, x) /\ b \in Seq(S)
    BY <1>3, <1>5
  <2> HIDE DEF j, r
  <2>2. /\ WithAt(b, j, x) \in Seq(S) /\ Len(WithAt(b, j, x)) = Len(b) + 1
        /\ \A i \in 1..Len(b)+1 :
               WithAt(b, j, x)[i] = IF i < j THEN b[i] ELSE IF i = j THEN x ELSE b[i - 1]
    BY <1>0, <2>1
  <2> QED
    BY <1>3, <2>1, <2>2 DEF j
<1> HIDE DEF l, r
<1>7. ASSUME NEW i \in 1..(n + m) + 1 PROVE l[i] = r[i]
  <2>1. CASE i <= n
    <3>1. i \in 1..n + m /\ i < n + k /\ i \in 1..n + (m + 1)
      BY <1>1, <1>5, <2>1
    <3>2. r[i] = b[i]
      BY <1>6, <3>1
    <3>3. b[i] = a[i] /\ l[i] = a[i]
      BY <1>3, <1>4, <2>1, <3>1
    <3> QED
      BY <3>2, <3>3
  <2>2. CASE ~(i <= n)
    <3>1. i - n \in 1..m+1 /\ i \in 1..n + (m + 1)
      BY <1>1, <2>2
    <3>2. l[i] = w[i - n]
      BY <1>4, <2>2, <3>1
    <3>3. CASE i < n + k
      <4>1. i - n < k /\ i \in 1..n + m
        BY <1>1, <1>5, <3>1, <3>3
      <4>2. w[i - n] = s[i - n]
        BY <1>2, <3>1, <4>1
      <4>3. r[i] = b[i] /\ b[i] = s[i - n]
        BY <1>3, <1>6, <2>2, <3>3, <4>1
      <4> QED
        BY <3>2, <4>2, <4>3
    <3>4. CASE i = n + k
      <4>1. i - n = k /\ ~(i < n + k) /\ ~(k < k)
        BY <1>1, <1>5, <3>4
      <4>2. w[k] = x
        BY <1>2, <1>5, <4>1
      <4> QED
        BY <1>6, <3>2, <3>4, <4>1, <4>2
    <3>5. CASE i > n + k
      <4>1. /\ ~(i - n < k) /\ i - n # k /\ ~(i < n + k) /\ i # n + k
            /\ i - 1 \in 1..n + m /\ ~(i - 1 <= n) /\ (i - 1) - n = (i - n) - 1
        BY <1>1, <1>5, <2>2, <3>5
      <4>2. w[i - n] = s[(i - n) - 1]
        BY <1>2, <3>1, <4>1
      <4>3. r[i] = b[i - 1]
        BY <1>6, <4>1
      <4>4. b[i - 1] = s[(i - 1) - n]
        BY <1>3, <4>1
      <4> QED
        BY <3>2, <4>1, <4>2, <4>3, <4>4
    <3> QED
      BY <1>1, <1>5, <3>3, <3>4, <3>5
  <2> QED
    BY <2>1, <2>2
<1>8. Len(l) = (n + m) + 1
  BY <1>1, <1>4
<1>9. l = r
  BY <1>4, <1>6, <1>7, <1>8, SeqEqual
<1> QED
  BY <1>9 DEF l, r, w, b, n

LEMMA WithoutAtBehind ==
    ASSUME NEW S, NEW a \in Seq(S), NEW s \in Seq(S), NEW k \in 1..Len(s)
    PROVE  a \o WithoutAt(s, k) = WithoutAt(a \o s, Len(a) + k)
<1> DEFINE n == Len(a)
           m == Len(s)
           w == WithoutAt(s, k)
           l == a \o w
           b == a \o s
           r == WithoutAt(b, n + k)
<1>1. n \in Nat /\ m \in Nat
  BY LenProperties
<1>2. /\ w \in Seq(S) /\ Len(w) = m - 1
      /\ \A i \in 1..m-1 : w[i] = IF i < k THEN s[i] ELSE s[i + 1]
  BY WithoutAtType
<1>3. /\ b \in Seq(S) /\ Len(b) = n + m
      /\ \A i \in 1..n + m : b[i] = IF i <= n THEN a[i] ELSE s[i - n]
  BY ConcatProperties
<1> HIDE DEF w
<1>4. /\ l \in Seq(S) /\ Len(l) = n + (m - 1)
      /\ \A i \in 1..n + (m - 1) : l[i] = IF i <= n THEN a[i] ELSE w[i - n]
  <2>1. /\ l \in Seq(S) /\ Len(l) = Len(a) + Len(w)
        /\ \A i \in 1..Len(a) + Len(w) : l[i] = IF i <= Len(a) THEN a[i] ELSE w[i - Len(a)]
    BY <1>2, ConcatProperties
  <2> QED
    BY <1>2, <2>1
<1> HIDE DEF n, m, b
<1>5. k \in 1..m /\ n + k \in 1..n + m
  BY <1>1 DEF m
<1>6. /\ r \in Seq(S) /\ Len(r) = (n + m) - 1
      /\ \A i \in 1..(n + m) - 1 : r[i] = IF i < n + k THEN b[i] ELSE b[i + 1]
  <2>1. n + k \in 1..Len(b)
    BY <1>3, <1>5
  <2>2. /\ r \in Seq(S) /\ Len(r) = Len(b) - 1
        /\ \A i \in 1..Len(b) - 1 : r[i] = IF i < n + k THEN b[i] ELSE b[i + 1]
    BY <1>3, <2>1, WithoutAtType
  <2> QED
    BY <1>3, <2>2
<1> HIDE DEF l, r
<1>7. ASSUME NEW i \in 1..(n + m) - 1 PROVE l[i] = r[i]
  <2>0. i \in 1..n + (m - 1) /\ i \in 1..n + m /\ i + 1 \in 1..n + m
    BY <1>1
  <2>1. CASE i <= n
    <3>1. i < n + k
      BY <1>1, <1>5, <2>1
    <3> QED
      BY <1>3, <1>4, <1>6, <2>0, <2>1, <3>1
  <2>2. CASE ~(i <= n)
    <3>1. i - n \in 1..m-1 /\ (i < n + k <=> i - n < k)
      BY <1>1, <1>5, <2>2
    <3>2. l[i] = w[i - n]
      BY <1>4, <2>0, <2>2
    <3>3. CASE i < n + k
      <4>1. w[i - n] = s[i - n]
        BY <1>2, <3>1, <3>3
      <4>2. r[i] = b[i]
        BY <1>6, <3>3
      <4>3. b[i] = s[i - n]
        BY <1>3, <2>0, <2>2
      <4> QED
        BY <3>2, <4>1, <4>2, <4>3
    <3>4. CASE ~(i < n + k)
      <4>1. w[i - n] = s[(i - n) + 1]
        BY <1>2, <3>1, <3>4
      <4>2. r[i] = b[i + 1]
        BY <1>6, <3>4
      <4>3. ~(i + 1 <= n) /\ (i + 1) - n = (i - n) + 1
        BY <1>1, <2>2
      <4>4. b[i + 1] = s[(i + 1) - n]
        BY <1>3, <2>0, <4>3
      <4> QED
        BY <3>2, <4>1, <4>2, <4>3, <4>4
    <3> QED
      BY <3>3, <3>4
  <2> QED
    BY <2>1, <2>2
<1>8. Len(l) = (n + m) - 1
  BY <1>1, <1>4
<1>9. l = r
  BY <1>4, <1>6, <1>7, <1>8, SeqEqual
<1> QED
  BY <1>9 DEF l, r, w, b, n

LEMMA WithoutAtBefore ==
    ASSUME NEW S, NEW s \in Seq(S), NEW c \in Seq(S), NEW k \in 1..Len(s)
    PROVE  WithoutAt(s, k) \o c = WithoutAt(s \o c, k)
<1> DEFINE n == Len(s)
           m == Len(c)
           w == WithoutAt(s, k)
           l == w \o c
           b == s \o c
           r == WithoutAt(b, k)
<1>1. n \in Nat /\ m \in Nat
  BY LenProperties
<1>2. /\ w \in Seq(S) /\ Len(w) = n - 1
      /\ \A i \in 1..n-1 : w[i] = IF i < k THEN s[i] ELSE s[i + 1]
  BY WithoutAtType
<1>3. /\ b \in Seq(S) /\ Len(b) = n + m
      /\ \A i \in 1..n + m : b[i] = IF i <= n THEN s[i] ELSE c[i - n]
  BY ConcatProperties
<1> HIDE DEF w
<1>4. /\ l \in Seq(S) /\ Len(l) = (n - 1) + m
      /\ \A i \in 1..(n - 1) + m : l[i] = IF i <= n - 1 THEN w[i] ELSE c[i - (n - 1)]
  <2>1. /\ l \in Seq(S) /\ Len(l) = Len(w) + Len(c)
        /\ \A i \in 1..Len(w) + Len(c) : l[i] = IF i <= Len(w) THEN w[i] ELSE c[i - Len(w)]
    BY <1>2, ConcatProperties
  <2> QED
    BY <1>2, <2>1
<1> HIDE DEF n, m, b
<1>5. k \in 1..n /\ k \in 1..n + m
  BY <1>1 DEF n
<1>6. /\ r \in Seq(S) /\ Len(r) = (n + m) - 1
      /\ \A i \in 1..(n + m) - 1 : r[i] = IF i < k THEN b[i] ELSE b[i + 1]
  BY <1>3, <1>5, WithoutAtType
<1> HIDE DEF l, r
<1>7. ASSUME NEW i \in 1..(n + m) - 1 PROVE l[i] = r[i]
  <2>0. i \in 1..(n - 1) + m /\ i \in 1..n + m /\ i + 1 \in 1..n + m
    BY <1>1
  <2>1. CASE i <= n - 1
    <3>1. i \in 1..n-1 /\ i <= n /\ i + 1 <= n
      BY <1>1, <2>1
    <3>2. l[i] = w[i]
      BY <1>4, <2>0, <2>1
    <3>3. w[i] = IF i < k THEN s[i] ELSE s[i + 1]
      BY <1>2, <3>1
    <3>4. b[i] = s[i] /\ b[i + 1] = s[i + 1]
      BY <1>3, <2>0, <3>1
    <3> QED
      BY <1>6, <3>2, <3>3, <3>4
  <2>2. CASE ~(i <= n - 1)
    <3>1. ~(i < k) /\ ~(i + 1 <= n) /\ (i + 1) - n = i - (n - 1)
      BY <1>1, <1>5, <2>2
    <3>2. l[i] = c[i - (n - 1)]
      BY <1>4, <2>0, <2>2
    <3>3. r[i] = b[i + 1]
      BY <1>6, <3>1
    <3>4. b[i + 1] = c[(i + 1) - n]
      BY <1>3, <2>0, <3>1
    <3> QED
      BY <3>1, <3>2, <3>3, <3>4
  <2> QED
    BY <2>1, <2>2
<1>8. Len(l) = (n + m) - 1
  BY <1>1, <1>4
<1>9. l = r
  BY <1>4, <1>6, <1>7, <1>8, SeqEqual
<1> QED
  BY <1>9 DEF l, r, w, b

(* A list is what comes before one of its elements, this one, and the rest *)
LEMMA SplitAt ==
    ASSUME NEW S, NEW c \in Seq(S), NEW j \in 1..Len(c)
    PROVE  /\ SubSeq(c, 1, j - 1) \in Seq(S) /\ SubSeq(c, j + 1, Len(c)) \in Seq(S)
           /\ <<c[j]>> \in Seq(S)
           /\ Len(SubSeq(c, 1, j - 1)) = j - 1 /\ Len(SubSeq(c, j + 1, Len(c))) = Len(c) - j
           /\ \A i \in 1..j-1 : SubSeq(c, 1, j - 1)[i] = c[i]
           /\ \A i \in 1..Len(c)-j : SubSeq(c, j + 1, Len(c))[i] = c[j + i]
           /\ c = (SubSeq(c, 1, j - 1) \o <<c[j]>>) \o SubSeq(c, j + 1, Len(c))
           /\ WithoutAt(c, j) = SubSeq(c, 1, j - 1) \o SubSeq(c, j + 1, Len(c))
<1> DEFINE n == Len(c)
           a == SubSeq(c, 1, j - 1)
           b == SubSeq(c, j + 1, n)
           w == WithoutAt(c, j)
           ab == a \o b
<1>1. n \in Nat /\ j \in 1..n /\ \A i \in 1..n : c[i] \in S
  BY LenProperties, ElementOfSeq
<1>2. w \in Seq(S) /\ Len(w) = n - 1 /\ \A i \in 1..n-1 : w[i] = IF i < j THEN c[i] ELSE c[i + 1]
  BY WithoutAtType
<1> HIDE DEF n
<1>3. a \in Seq(S) /\ Len(a) = j - 1 /\ \A i \in 1..j-1 : a[i] = c[i]
  <2>1. \A i \in 1..j-1 : c[i] \in S
    BY <1>1
  <2>2. 1 \in Int /\ j - 1 \in Int
    BY <1>1
  <2>3. /\ a \in Seq(S) /\ Len(a) = IF 1 <= j - 1 THEN (j - 1) - 1 + 1 ELSE 0
        /\ \A i \in 1..(j - 1) - 1 + 1 : a[i] = c[1 + i - 1]
    BY <2>1, <2>2, SubSeqProperties
  <2> QED
    BY <1>1, <2>3
<1>4. b \in Seq(S) /\ Len(b) = n - j /\ \A i \in 1..n-j : b[i] = c[j + i]
  <2>1. \A i \in j+1..n : c[i] \in S
    BY <1>1
  <2>2. j + 1 \in Int /\ n \in Int
    BY <1>1
  <2>3. /\ b \in Seq(S) /\ Len(b) = IF j + 1 <= n THEN n - (j + 1) + 1 ELSE 0
        /\ \A i \in 1..n - (j + 1) + 1 : b[i] = c[(j + 1) + i - 1]
    BY <2>1, <2>2, SubSeqProperties
  <2> QED
    BY <1>1, <2>3
<1>5. <<c[j]>> \in Seq(S) /\ Len(<<c[j]>>) = 1 /\ <<c[j]>>[1] = c[j]
  BY <1>1
<1> DEFINE ac == a \o <<c[j]>>
           acb == ac \o b
<1> HIDE DEF a, b, w
<1>6. /\ ac \in Seq(S) /\ Len(ac) = j
      /\ \A i \in 1..j : ac[i] = IF i <= j - 1 THEN a[i] ELSE c[j]
  <2>1. /\ ac \in Seq(S) /\ Len(ac) = (j - 1) + 1
        /\ \A i \in 1..(j - 1) + 1 : ac[i] = IF i <= j - 1 THEN a[i] ELSE <<c[j]>>[i - (j - 1)]
    <3>1. /\ ac \in Seq(S) /\ Len(ac) = Len(a) + Len(<<c[j]>>)
          /\ \A i \in 1..Len(a) + Len(<<c[j]>>) :
                 ac[i] = IF i <= Len(a) THEN a[i] ELSE <<c[j]>>[i - Len(a)]
      BY <1>3, <1>5, ConcatProperties
    <3> QED
      BY <1>3, <1>5, <3>1
  <2>2. \A i \in 1..j : ~(i <= j - 1) => i - (j - 1) = 1
    BY <1>1
  <2> HIDE DEF ac
  <2> QED
    BY <1>1, <1>5, <2>1, <2>2
<1> HIDE DEF ac
<1>7. /\ acb \in Seq(S) /\ Len(acb) = n
      /\ \A i \in 1..n : acb[i] = IF i <= j THEN ac[i] ELSE b[i - j]
  <2>1. /\ acb \in Seq(S) /\ Len(acb) = j + (n - j)
        /\ \A i \in 1..j + (n - j) : acb[i] = IF i <= j THEN ac[i] ELSE b[i - j]
    <3>1. /\ acb \in Seq(S) /\ Len(acb) = Len(ac) + Len(b)
          /\ \A i \in 1..Len(ac) + Len(b) : acb[i] = IF i <= Len(ac) THEN ac[i] ELSE b[i - Len(ac)]
      BY <1>4, <1>6, ConcatProperties
    <3> QED
      BY <1>4, <1>6, <3>1
  <2>2. j + (n - j) = n
    BY <1>1
  <2> QED
    BY <2>1, <2>2
<1>8. /\ ab \in Seq(S) /\ Len(ab) = n - 1
      /\ \A i \in 1..n-1 : ab[i] = IF i <= j - 1 THEN a[i] ELSE b[i - (j - 1)]
  <2>1. /\ ab \in Seq(S) /\ Len(ab) = (j - 1) + (n - j)
        /\ \A i \in 1..(j - 1) + (n - j) : ab[i] = IF i <= j - 1 THEN a[i] ELSE b[i - (j - 1)]
    <3>1. /\ ab \in Seq(S) /\ Len(ab) = Len(a) + Len(b)
          /\ \A i \in 1..Len(a) + Len(b) : ab[i] = IF i <= Len(a) THEN a[i] ELSE b[i - Len(a)]
      BY <1>3, <1>4, ConcatProperties
    <3> QED
      BY <1>3, <1>4, <3>1
  <2>2. (j - 1) + (n - j) = n - 1
    BY <1>1
  <2> QED
    BY <2>1, <2>2
<1> HIDE DEF acb, ab
<1>9. ASSUME NEW i \in 1..n PROVE c[i] = acb[i]
  <2>1. CASE i <= j - 1
    <3>1. i \in 1..j /\ i <= j /\ i \in 1..j-1
      BY <1>1, <2>1
    <3> QED
      BY <1>3, <1>6, <1>7, <2>1, <3>1
  <2>2. CASE i = j
    <3>1. i \in 1..j /\ i <= j /\ ~(i <= j - 1)
      BY <1>1, <2>2
    <3> QED
      BY <1>6, <1>7, <2>2, <3>1
  <2>3. CASE i > j
    <3>1. i - j \in 1..n-j /\ ~(i <= j) /\ j + (i - j) = i
      BY <1>1, <2>3
    <3>2. b[i - j] = c[j + (i - j)]
      BY <1>4, <3>1
    <3> QED
      BY <1>7, <3>1, <3>2
  <2> QED
    BY <1>1, <2>1, <2>2, <2>3
<1>10. ASSUME NEW i \in 1..n-1 PROVE w[i] = ab[i]
  <2>1. CASE i < j
    <3>1. i <= j - 1 /\ i \in 1..j-1
      BY <1>1, <2>1
    <3> QED
      BY <1>2, <1>3, <1>8, <2>1, <3>1
  <2>2. CASE ~(i < j)
    <3>1. ~(i <= j - 1) /\ i - (j - 1) \in 1..n-j /\ j + (i - (j - 1)) = i + 1
      BY <1>1, <2>2
    <3>2. b[i - (j - 1)] = c[j + (i - (j - 1))]
      BY <1>4, <3>1
    <3> QED
      BY <1>2, <1>8, <2>2, <3>1, <3>2
  <2> QED
    BY <2>1, <2>2
<1>11. c = acb
  BY <1>7, <1>9, SeqEqual DEF n
<1>12. w = ab
  BY <1>2, <1>8, <1>10, SeqEqual
<1> QED
  BY <1>3, <1>4, <1>5, <1>11, <1>12 DEF a, b, w, ab, acb, ac, n

-----------------------------------------------------------------------------
(* The chain of buckets *)

(* c is the chain of the buckets of q, from tail to head *)
IsChain(q, c) ==
    /\ c \in Seq(Bucket) /\ Len(c) # 0
    /\ \A i, j \in 1..Len(c) : c[i] = c[j] => i = j
    /\ c[1] = q.tail /\ c[Len(c)] = q.head
    /\ \A k \in 1..Len(c)-1 : q.next[c[k]] = c[k + 1]
    /\ q.next[q.head] = None

LEMMA BucketsAre ==
    /\ Cardinality(Data) \in Nat /\ Bucket = 1..Cardinality(Data)+1 /\ None = 0
    /\ IsFiniteSet(Bucket) /\ Cardinality(Bucket) = Cardinality(Data) + 1
<1> DEFINE n == Cardinality(Data)
<1>1. n \in Nat
  BY DataAssumption, FS_CardinalityType
<1> HIDE DEF n
<1>2. IsFiniteSet(1..n+1) /\ Cardinality(1..n+1) = n + 1
  <2>1. 1 \in Int /\ n + 1 \in Int /\ n + 1 - 1 + 1 = n + 1 /\ ~(1 > n + 1)
    BY <1>1
  <2> QED
    BY <2>1, FS_Interval
<1> QED
  BY <1>1, <1>2 DEF Bucket, None, n

LEMMA ChainLength ==
    ASSUME NEW q, NEW c, IsChain(q, c)
    PROVE  Len(c) \in Bucket
<1> DEFINE n == Len(c)
<1>1. n \in Nat /\ n # 0 /\ c \in [1..n -> Bucket] /\ \A i, j \in 1..n : c[i] = c[j] => i = j
  BY LenProperties DEF IsChain
<1> HIDE DEF n
<1>2. IsFiniteSet(1..n) /\ Cardinality(1..n) = n
  <2>1. 1 \in Int /\ n \in Int /\ n - 1 + 1 = n /\ ~(1 > n)
    BY <1>1
  <2> QED
    BY <2>1, FS_Interval
<1>3. c \in Injection(1..n, Bucket)
  BY <1>1 DEF Injection, IsInjective
<1>4. n <= Cardinality(Bucket)
  BY <1>2, <1>3, BucketsAre, FS_Injection
<1> QED
  BY <1>1, <1>4, BucketsAre DEF n

(* Going from the tail from bucket to bucket gives this chain. *)
LEMMA ChainIs ==
    ASSUME NEW q, NEW c, IsChain(q, c)
    PROVE  Chain(q) = c
<1> DEFINE n == Len(c)
           to[k \in Bucket] ==
               IF k = 1 THEN q.tail
               ELSE LET b == to[k - 1] IN IF b = None THEN None ELSE q.next[b]
           f == [k \in Bucket |-> IF k <= n THEN c[k] ELSE None]
           T == {k \in 0..Cardinality(Bucket) : k = 0 \/ to[k] = f[k]}
<1>1. Chain(q) = [k \in 1..Cardinality({j \in Bucket : to[j] # None}) |-> to[k]]
  BY DEF Chain
<1>2. /\ n \in Bucket /\ c \in Seq(Bucket) /\ c \in [1..n -> Bucket]
      /\ c[1] = q.tail /\ q.next[c[n]] = None
      /\ \A k \in 1..n-1 : q.next[c[k]] = c[k + 1]
  BY ChainLength, LenProperties DEF IsChain
<1>3. \A b \in Bucket : b # None /\ b \in Int /\ 1 <= b
  BY BucketsAre
<1> HIDE DEF n
<1>4. ASSUME NEW k \in Bucket, k # 1
      PROVE  f[k] = IF f[k - 1] = None THEN None ELSE q.next[f[k - 1]]
  <2>1. k - 1 \in Bucket /\ n \in Nat
    BY <1>2, <1>4, BucketsAre
  <2>2. CASE k <= n
    <3>1. k - 1 <= n /\ k - 1 \in 1..n-1 /\ k - 1 \in 1..n /\ (k - 1) + 1 = k
      BY <1>2, <1>4, <2>1, <2>2, BucketsAre
    <3>2. f[k] = c[k] /\ f[k - 1] = c[k - 1]
      BY <2>1, <2>2, <3>1
    <3>3. c[k - 1] \in Bucket
      BY <1>2, <3>1
    <3> QED
      BY <1>2, <1>3, <3>1, <3>2, <3>3
  <2>3. CASE ~(k <= n) /\ k - 1 <= n
    <3>1. k - 1 = n /\ n \in 1..n
      BY <1>2, <1>4, <2>1, <2>3, BucketsAre
    <3>2. f[k] = None /\ f[k - 1] = c[n] /\ c[n] \in Bucket
      BY <1>2, <2>1, <2>3, <3>1
    <3> QED
      BY <1>2, <1>3, <3>2
  <2>4. CASE ~(k <= n) /\ ~(k - 1 <= n)
    BY <2>1, <2>4
  <2> QED
    BY <2>2, <2>3, <2>4, <2>1, BucketsAre
<1>5. 1 \in Bucket /\ f[1] = q.tail
  BY <1>2, BucketsAre
<1>6. f = [k \in Bucket |-> IF k = 1 THEN q.tail
                            ELSE IF f[k - 1] = None THEN None ELSE q.next[f[k - 1]]]
  BY <1>4, <1>5
<1>7. to = [k \in Bucket |-> IF k = 1 THEN q.tail
                             ELSE LET b == to[k - 1] IN IF b = None THEN None ELSE q.next[b]]
  <2>1. f = [k \in Bucket |-> IF k = 1 THEN q.tail
                              ELSE LET b == f[k - 1] IN IF b = None THEN None ELSE q.next[b]]
    BY <1>6
  <2> QED
    BY <2>1
<1> HIDE DEF to
<1>8. 0 \in T
  BY BucketsAre
<1>9. ASSUME NEW i \in 1..Cardinality(Bucket), i - 1 \in T PROVE i \in T
  <2>1. i \in Bucket /\ i \in 0..Cardinality(Bucket) /\ (i # 1 => i - 1 # 0)
    BY BucketsAre
  <2>2. CASE i = 1
    BY <1>5, <1>7, <2>1, <2>2
  <2>3. CASE i # 1
    <3>1. to[i - 1] = f[i - 1]
      BY <1>9, <2>1, <2>3
    <3>2. to[i] = IF to[i - 1] = None THEN None ELSE q.next[to[i - 1]]
      BY <1>7, <2>1, <2>3
    <3>3. f[i] = IF f[i - 1] = None THEN None ELSE q.next[f[i - 1]]
      BY <1>4, <2>1, <2>3
    <3>4. to[i] = f[i]
      BY <3>1, <3>2, <3>3
    <3> QED
      BY <2>1, <3>4
  <2> QED
    BY <2>2, <2>3
<1>10. ASSUME NEW k \in Bucket PROVE to[k] = f[k]
  <2>1. Cardinality(Bucket) \in Nat /\ k \in 0..Cardinality(Bucket) /\ k # 0
    BY BucketsAre
  <2>2. \A i \in 0..Cardinality(Bucket) : i \in T
    <3> HIDE DEF T
    <3> QED
      BY <1>8, <1>9, <2>1, SetInduction
  <2> QED
    BY <2>1, <2>2
<1>11. {j \in Bucket : to[j] # None} = 1..n
  <2>1. ASSUME NEW j \in Bucket PROVE to[j] # None <=> j \in 1..n
    <3>1. to[j] = IF j <= n THEN c[j] ELSE None
      BY <1>10
    <3>2. j <= n <=> j \in 1..n
      BY <1>2, BucketsAre
    <3>3. j \in 1..n => c[j] \in Bucket
      BY <1>2
    <3> QED
      BY <1>3, <3>1, <3>2, <3>3
  <2>2. 1..n \subseteq Bucket
    BY <1>2, BucketsAre
  <2> QED
    BY <2>1, <2>2
<1>12. Cardinality(1..n) = n
  <2>1. 1 \in Int /\ n \in Int /\ n - 1 + 1 = n /\ ~(1 > n)
    BY <1>2, BucketsAre
  <2> QED
    BY <2>1, FS_Interval
<1>13. \A k \in 1..n : to[k] = c[k]
  <2>1. \A k \in 1..n : k \in Bucket /\ k <= n
    BY <1>2, BucketsAre
  <2> QED
    BY <1>10, <2>1
<1>14. c = [k \in 1..n |-> c[k]]
  BY <1>2
<1> QED
  BY <1>1, <1>11, <1>12, <1>13, <1>14

-----------------------------------------------------------------------------
(* The list that a chain of buckets makes up *)

Parts(q, c) == [k \in 1..Len(c) |-> Items(q.fixedQueue[c[k]])]
Listed(q, c) == Flat(Parts(q, c))

(* The buckets of q, linked or not, are sound rings *)
Rings(q) == q \in PriorityQueueState /\ \A b \in Bucket : Live(q.fixedQueue[b])

LEMMA StateFields ==
    ASSUME NEW q \in PriorityQueueState
    PROVE  /\ q.fixedQueue \in [Bucket -> Ring] /\ q.next \in [Bucket -> Bucket \union {None}]
           /\ q.head \in Bucket /\ q.tail \in Bucket /\ q.size \in Nat /\ q.maxSize \in Nat
           /\ q.priorityEnabled \in BOOLEAN
  BY DEF PriorityQueueState

LEMMA BucketItems ==
    ASSUME NEW q, Rings(q), NEW b \in Bucket
    PROVE  /\ q.fixedQueue[b] \in Ring /\ Live(q.fixedQueue[b])
           /\ Items(q.fixedQueue[b]) \in Seq(Data)
           /\ Len(Items(q.fixedQueue[b])) = q.fixedQueue[b].size
           /\ q.fixedQueue[b].size \in 0..Capacity
<1>1. q.fixedQueue[b] \in Ring /\ Live(q.fixedQueue[b])
  BY StateFields DEF Rings
<1> DEFINE r == q.fixedQueue[b]
<1> HIDE DEF r
<1>2. r \in Ring /\ Live(r)
  BY <1>1 DEF r
<1>3. Items(r) \in Seq(Data) /\ Len(Items(r)) = r.size
  BY <1>2, ItemsSeq
<1>4. r.size \in 0..Capacity
  BY <1>2 DEF Ring
<1> QED
  BY <1>2, <1>3, <1>4 DEF r

LEMMA PartsType ==
    ASSUME NEW q, Rings(q), NEW c \in Seq(Bucket)
    PROVE  /\ Parts(q, c) \in Seq(Seq(Data)) /\ Len(Parts(q, c)) = Len(c)
           /\ \A k \in 1..Len(c) : Parts(q, c)[k] = Items(q.fixedQueue[c[k]])
<1> DEFINE n == Len(c)
           p == Parts(q, c)
<1>1. n \in Nat /\ \A k \in 1..n : c[k] \in Bucket
  BY LenProperties, ElementOfSeq
<1>2. p = [k \in 1..n |-> Items(q.fixedQueue[c[k]])]
  BY DEF Parts
<1> HIDE DEF n, p
<1>3. \A k \in 1..n : p[k] = Items(q.fixedQueue[c[k]])
  BY <1>2
<1>4. \A k \in 1..n : p[k] \in Seq(Data)
  BY <1>1, <1>3, BucketItems
<1>5. p \in [1..n -> Seq(Data)]
  BY <1>2, <1>4
<1>6. p \in Seq(Seq(Data)) /\ Len(p) = n
  BY <1>1, <1>5
<1> QED
  BY <1>3, <1>6 DEF n, p

LEMMA ListedType ==
    ASSUME NEW q, Rings(q), NEW c \in Seq(Bucket)
    PROVE  Listed(q, c) \in Seq(Data) /\ Len(Listed(q, c)) \in Nat
<1>1. Listed(q, c) \in Seq(Data)
  BY PartsType, FlatType DEF Listed
<1> QED
  BY <1>1, LenProperties

LEMMA ListedConcat ==
    ASSUME NEW q, Rings(q), NEW c \in Seq(Bucket), NEW d \in Seq(Bucket)
    PROVE  Listed(q, c \o d) = Listed(q, c) \o Listed(q, d)
<1> DEFINE n == Len(c)
           m == Len(d)
           e == c \o d
           P == Parts(q, c)
           Q == Parts(q, d)
           R == Parts(q, e)
           PQ == P \o Q
<1>1. n \in Nat /\ m \in Nat
  BY LenProperties
<1>2. e \in Seq(Bucket) /\ Len(e) = n + m /\ \A k \in 1..n + m : e[k] = IF k <= n THEN c[k] ELSE d[k - n]
  BY ConcatProperties
<1> HIDE DEF e
<1>3. /\ P \in Seq(Seq(Data)) /\ Len(P) = n
      /\ \A k \in 1..n : P[k] = Items(q.fixedQueue[c[k]])
  BY PartsType
<1>4. /\ Q \in Seq(Seq(Data)) /\ Len(Q) = m
      /\ \A k \in 1..m : Q[k] = Items(q.fixedQueue[d[k]])
  BY PartsType
<1>5. /\ R \in Seq(Seq(Data)) /\ Len(R) = n + m
      /\ \A k \in 1..n + m : R[k] = Items(q.fixedQueue[e[k]])
  <2>1. /\ R \in Seq(Seq(Data)) /\ Len(R) = Len(e)
        /\ \A k \in 1..Len(e) : R[k] = Items(q.fixedQueue[e[k]])
    BY <1>2, PartsType
  <2> QED
    BY <1>2, <2>1
<1> HIDE DEF P, Q, R
<1>6. /\ PQ \in Seq(Seq(Data)) /\ Len(PQ) = n + m
      /\ \A k \in 1..n + m : PQ[k] = IF k <= n THEN P[k] ELSE Q[k - n]
  <2>1. /\ PQ \in Seq(Seq(Data)) /\ Len(PQ) = Len(P) + Len(Q)
        /\ \A k \in 1..Len(P) + Len(Q) : PQ[k] = IF k <= Len(P) THEN P[k] ELSE Q[k - Len(P)]
    <3>1. P \in Seq(Seq(Data)) /\ Q \in Seq(Seq(Data))
      BY <1>3, <1>4
    <3> QED
      BY <3>1, ConcatProperties
  <2> QED
    BY <1>3, <1>4, <2>1
<1> HIDE DEF PQ, n, m
<1>7. ASSUME NEW k \in 1..n + m PROVE R[k] = PQ[k]
  <2>1. CASE k <= n
    <3>1. k \in 1..n
      BY <1>1, <2>1
    <3>2. e[k] = c[k] /\ PQ[k] = P[k]
      BY <1>2, <1>6, <2>1
    <3> QED
      BY <1>3, <1>5, <3>1, <3>2
  <2>2. CASE ~(k <= n)
    <3>1. k - n \in 1..m
      BY <1>1, <2>2
    <3>2. e[k] = d[k - n] /\ PQ[k] = Q[k - n]
      BY <1>2, <1>6, <2>2
    <3> QED
      BY <1>4, <1>5, <3>1, <3>2
  <2> QED
    BY <2>1, <2>2
<1>8. R = PQ
  BY <1>5, <1>6, <1>7, SeqEqual
<1>9. Flat(PQ) = Flat(P) \o Flat(Q)
  BY <1>3, <1>4, FlatConcat DEF PQ
<1> QED
  BY <1>8, <1>9 DEF Listed, R, P, Q, e

LEMMA ListedOne ==
    ASSUME NEW q, Rings(q), NEW b \in Bucket
    PROVE  Listed(q, <<b>>) = Items(q.fixedQueue[b])
<1> DEFINE s == Items(q.fixedQueue[b])
           P == Parts(q, <<b>>)
<1>1. <<b>> \in Seq(Bucket) /\ Len(<<b>>) = 1 /\ <<b>>[1] = b
  OBVIOUS
<1>2. s \in Seq(Data)
  BY BucketItems
<1>3. P \in Seq(Seq(Data)) /\ Len(P) = 1 /\ P[1] = s
  <2>1. 1 \in 1..1
    OBVIOUS
  <2> QED
    BY <1>1, <2>1, PartsType
<1> HIDE DEF s, P
<1>4. P = <<s>>
  <2>1. <<s>> \in Seq(Seq(Data)) /\ Len(<<s>>) = 1 /\ <<s>>[1] = s
    BY <1>2
  <2>2. \A i \in 1..1 : P[i] = <<s>>[i]
    BY <1>3, <2>1
  <2> QED
    BY <1>3, <2>1, <2>2, SeqEqual
<1> QED
  BY <1>2, <1>4, FlatOne DEF Listed, P, s

LEMMA ListedNone ==
    ASSUME NEW q
    PROVE  Listed(q, <<>>) = <<>>
<1>1. Parts(q, <<>>) = <<>>
  BY DEF Parts
<1> QED
  BY <1>1, FlatNone DEF Listed

(* Two queues list the same if the buckets of the chain hold the same *)
LEMMA ListedSame ==
    ASSUME NEW q, NEW r, NEW c,
           \A k \in 1..Len(c) : Items(r.fixedQueue[c[k]]) = Items(q.fixedQueue[c[k]])
    PROVE  Listed(r, c) = Listed(q, c)
<1>1. Parts(r, c) = Parts(q, c)
  BY DEF Parts
<1> QED
  BY <1>1 DEF Listed

LEMMA ListedSplit ==
    ASSUME NEW q, Rings(q), NEW c \in Seq(Bucket), NEW j \in 1..Len(c)
    PROVE  Listed(q, c) =
               (Listed(q, SubSeq(c, 1, j - 1)) \o Items(q.fixedQueue[c[j]]))
                   \o Listed(q, SubSeq(c, j + 1, Len(c)))
<1> DEFINE a == SubSeq(c, 1, j - 1)
           b == SubSeq(c, j + 1, Len(c))
           o == <<c[j]>>
<1>1. /\ a \in Seq(Bucket) /\ b \in Seq(Bucket) /\ o \in Seq(Bucket)
      /\ c = (a \o o) \o b
  BY SplitAt
<1>2. c[j] \in Bucket
  BY ElementOfSeq
<1>3. Listed(q, o) = Items(q.fixedQueue[c[j]])
  BY <1>2, ListedOne
<1> HIDE DEF a, b, o
<1>4. a \o o \in Seq(Bucket)
  BY <1>1, ConcatProperties
<1>5. Listed(q, a \o o) = Listed(q, a) \o Listed(q, o)
  BY <1>1, ListedConcat
<1>6. Listed(q, (a \o o) \o b) = Listed(q, a \o o) \o Listed(q, b)
  BY <1>1, <1>4, ListedConcat
<1> QED
  BY <1>1, <1>3, <1>5, <1>6 DEF a, b

(* A bucket that holds nothing can be left out *)
LEMMA ListedWithout ==
    ASSUME NEW q, Rings(q), NEW c \in Seq(Bucket), NEW j \in 1..Len(c), Empty(q.fixedQueue[c[j]])
    PROVE  Listed(q, WithoutAt(c, j)) = Listed(q, c)
<1> DEFINE a == SubSeq(c, 1, j - 1)
           b == SubSeq(c, j + 1, Len(c))
           la == Listed(q, a)
<1>1. a \in Seq(Bucket) /\ b \in Seq(Bucket) /\ WithoutAt(c, j) = a \o b
  BY SplitAt
<1>2. Listed(q, c) = (la \o Items(q.fixedQueue[c[j]])) \o Listed(q, b)
  BY ListedSplit
<1>3. Items(q.fixedQueue[c[j]]) = <<>>
  <2>1. q.fixedQueue[c[j]].size = 0
    BY DEF Empty
  <2> QED
    BY <2>1 DEF Items
<1> HIDE DEF a, b
<1>4. la \in Seq(Data)
  BY <1>1, ListedType
<1>5. la \o <<>> = la
  BY <1>4, ConcatEmptySeq
<1>6. Listed(q, a \o b) = la \o Listed(q, b)
  BY <1>1, ListedConcat
<1> QED
  BY <1>1, <1>2, <1>3, <1>5, <1>6

(* Where the items of bucket number j of the chain begin *)
Start(q, c, j) == Len(Listed(q, SubSeq(c, 1, j - 1)))

LEMMA StartType ==
    ASSUME NEW q, Rings(q), NEW c \in Seq(Bucket), NEW j \in 1..Len(c)
    PROVE  Start(q, c, j) \in Nat
<1>1. SubSeq(c, 1, j - 1) \in Seq(Bucket)
  BY SplitAt
<1> QED
  BY <1>1, ListedType DEF Start

(* The parts of the chain before and behind a bucket that changes *)
LEMMA OthersSame ==
    ASSUME NEW q, NEW r, NEW c \in Seq(Bucket), NEW j \in 1..Len(c),
           \A i \in 1..Len(c) \ {j} : Items(r.fixedQueue[c[i]]) = Items(q.fixedQueue[c[i]])
    PROVE  /\ Listed(r, SubSeq(c, 1, j - 1)) = Listed(q, SubSeq(c, 1, j - 1))
           /\ Listed(r, SubSeq(c, j + 1, Len(c))) = Listed(q, SubSeq(c, j + 1, Len(c)))
<1> DEFINE n == Len(c)
           a == SubSeq(c, 1, j - 1)
           b == SubSeq(c, j + 1, n)
<1>1. n \in Nat /\ j \in 1..n
  BY LenProperties
<1>2. /\ Len(a) = j - 1 /\ \A i \in 1..j-1 : a[i] = c[i]
      /\ Len(b) = n - j /\ \A i \in 1..n-j : b[i] = c[j + i]
  BY SplitAt
<1> HIDE DEF a, b, n
<1>3. \A i \in 1..Len(a) : Items(r.fixedQueue[a[i]]) = Items(q.fixedQueue[a[i]])
  <2> SUFFICES ASSUME NEW i \in 1..Len(a)
               PROVE  Items(r.fixedQueue[a[i]]) = Items(q.fixedQueue[a[i]])
    OBVIOUS
  <2>1. i \in 1..n \ {j} /\ a[i] = c[i]
    BY <1>1, <1>2
  <2> QED
    BY <2>1 DEF n
<1>4. \A i \in 1..Len(b) : Items(r.fixedQueue[b[i]]) = Items(q.fixedQueue[b[i]])
  <2> SUFFICES ASSUME NEW i \in 1..Len(b)
               PROVE  Items(r.fixedQueue[b[i]]) = Items(q.fixedQueue[b[i]])
    OBVIOUS
  <2>1. j + i \in 1..n \ {j} /\ b[i] = c[j + i]
    BY <1>1, <1>2
  <2> QED
    BY <2>1 DEF n
<1>5. Listed(r, a) = Listed(q, a)
  BY <1>3, ListedSame
<1>6. Listed(r, b) = Listed(q, b)
  BY <1>4, ListedSame
<1> QED
  BY <1>5, <1>6 DEF a, b, n

LEMMA ListedPositions ==
    ASSUME NEW q, Rings(q), NEW c \in Seq(Bucket), NEW j \in 1..Len(c)
    PROVE  /\ Start(q, c, j) + Len(Items(q.fixedQueue[c[j]])) <= Len(Listed(q, c))
           /\ j = Len(c) => Start(q, c, j) + Len(Items(q.fixedQueue[c[j]])) = Len(Listed(q, c))
           /\ \A k \in 1..Len(Items(q.fixedQueue[c[j]])) :
                  Listed(q, c)[Start(q, c, j) + k] = Items(q.fixedQueue[c[j]])[k]
<1> DEFINE a == SubSeq(c, 1, j - 1)
           b == SubSeq(c, j + 1, Len(c))
           la == Listed(q, a)
           lb == Listed(q, b)
           m == Items(q.fixedQueue[c[j]])
           am == la \o m
           l == am \o lb
<1>1. a \in Seq(Bucket) /\ b \in Seq(Bucket) /\ Len(b) = Len(c) - j
  BY SplitAt
<1>2. Listed(q, c) = l
  BY ListedSplit
<1>3. c[j] \in Bucket
  BY ElementOfSeq
<1>4. m \in Seq(Data)
  BY <1>3, BucketItems
<1>5. j = Len(c) => lb = <<>>
  <2>1. ASSUME j = Len(c) PROVE b = <<>>
    <3>1. Len(b) = 0
      BY <1>1, <2>1, LenProperties
    <3> QED
      BY <1>1, <3>1, EmptySeq
  <2>2. ASSUME b = <<>> PROVE lb = <<>>
    <3> HIDE DEF b
    <3> QED
      BY <2>2, ListedNone
  <2> QED
    BY <2>1, <2>2
<1> HIDE DEF a, b, m
<1>6. la \in Seq(Data) /\ lb \in Seq(Data)
  BY <1>1, ListedType
<1> HIDE DEF la, lb
<1>7. Len(la) \in Nat /\ Len(lb) \in Nat /\ Len(m) \in Nat
  BY <1>4, <1>6, LenProperties
<1>8. /\ am \in Seq(Data) /\ Len(am) = Len(la) + Len(m)
      /\ \A i \in 1..Len(la) + Len(m) : am[i] = IF i <= Len(la) THEN la[i] ELSE m[i - Len(la)]
  BY <1>4, <1>6, ConcatProperties
<1> HIDE DEF am
<1>9. /\ Len(l) = Len(am) + Len(lb)
      /\ \A i \in 1..Len(am) + Len(lb) : l[i] = IF i <= Len(am) THEN am[i] ELSE lb[i - Len(am)]
  <2>1. am \in Seq(Data)
    BY <1>8
  <2> QED
    BY <1>6, <2>1, ConcatProperties
<1>10. j = Len(c) => Len(lb) = 0
  BY <1>5
<1> HIDE DEF l
<1>11. Len(la) + Len(m) <= Len(l) /\ (j = Len(c) => Len(la) + Len(m) = Len(l))
  BY <1>7, <1>8, <1>9, <1>10
<1>12. \A k \in 1..Len(m) : l[Len(la) + k] = m[k]
  <2> SUFFICES ASSUME NEW k \in 1..Len(m) PROVE l[Len(la) + k] = m[k]
    OBVIOUS
  <2> DEFINE i == Len(la) + k
  <2>1. /\ i \in 1..Len(la) + Len(m) /\ ~(i <= Len(la)) /\ i - Len(la) = k
        /\ i <= Len(am) /\ i \in 1..Len(am) + Len(lb)
    BY <1>7, <1>8
  <2> HIDE DEF i
  <2>2. am[i] = m[i - Len(la)]
    BY <1>8, <2>1
  <2>3. l[i] = am[i]
    BY <1>9, <2>1
  <2> QED
    BY <2>1, <2>2, <2>3 DEF i
<1> QED
  BY <1>2, <1>11, <1>12 DEF Start, la, a, m

LEMMA ListedPut ==
    ASSUME NEW q, Rings(q), NEW r, Rings(r), NEW c \in Seq(Bucket), NEW j \in 1..Len(c), j = Len(c),
           \A i \in 1..Len(c) \ {j} : Items(r.fixedQueue[c[i]]) = Items(q.fixedQueue[c[i]]),
           NEW k \in 1..Len(Items(q.fixedQueue[c[j]]))+1, NEW x \in Data,
           Items(r.fixedQueue[c[j]]) = WithAt(Items(q.fixedQueue[c[j]]), k, x)
    PROVE  Listed(r, c) = WithAt(Listed(q, c), Start(q, c, j) + k, x)
<1> DEFINE a == SubSeq(c, 1, j - 1)
           b == SubSeq(c, j + 1, Len(c))
           la == Listed(q, a)
           m == Items(q.fixedQueue[c[j]])
           w == WithAt(m, k, x)
<1>1. a \in Seq(Bucket) /\ b \in Seq(Bucket) /\ Len(b) = Len(c) - j
  BY SplitAt
<1>2. b = <<>>
  <2>1. Len(b) = 0
    BY <1>1, LenProperties
  <2> QED
    BY <1>1, <2>1, EmptySeq
<1>3. Listed(q, c) = (la \o m) \o Listed(q, b)
  BY ListedSplit
<1>4. Listed(r, c) = (Listed(r, a) \o Items(r.fixedQueue[c[j]])) \o Listed(r, b)
  BY ListedSplit
<1>5. Listed(r, a) = la
  BY OthersSame
<1>6. c[j] \in Bucket
  BY ElementOfSeq
<1>7. m \in Seq(Data)
  BY <1>6, BucketItems
<1>8. Listed(q, b) = <<>> /\ Listed(r, b) = <<>>
  <2> HIDE DEF b
  <2> QED
    BY <1>2, ListedNone
<1> HIDE DEF a, b, m
<1>9. la \in Seq(Data)
  BY <1>1, ListedType
<1> HIDE DEF la
<1>10. k \in 1..Len(m)+1
  BY DEF m
<1>11. w \in Seq(Data)
  BY <1>7, <1>10, WithAtType
<1>12. la \o w = WithAt(la \o m, Len(la) + k, x)
  BY <1>7, <1>9, <1>10, WithAtBehind
<1>13. Items(r.fixedQueue[c[j]]) = w
  BY DEF m
<1> HIDE DEF w
<1>14. la \o m \in Seq(Data) /\ la \o w \in Seq(Data)
  BY <1>7, <1>9, <1>11, ConcatProperties
<1>15. (la \o m) \o <<>> = la \o m
  BY <1>14, ConcatEmptySeq
<1>16. (la \o w) \o <<>> = la \o w
  BY <1>14, ConcatEmptySeq
<1>17. Listed(q, c) = la \o m
  BY <1>3, <1>8, <1>15
<1>18. Listed(r, c) = la \o w
  BY <1>4, <1>5, <1>8, <1>13, <1>16
<1> QED
  BY <1>12, <1>17, <1>18 DEF Start, la, a

LEMMA ListedTaken ==
    ASSUME NEW q, Rings(q), NEW r, Rings(r), NEW c \in Seq(Bucket), NEW j \in 1..Len(c),
           \A i \in 1..Len(c) \ {j} : Items(r.fixedQueue[c[i]]) = Items(q.fixedQueue[c[i]]),
           NEW k \in 1..Len(Items(q.fixedQueue[c[j]])),
           Items(r.fixedQueue[c[j]]) = WithoutAt(Items(q.fixedQueue[c[j]]), k)
    PROVE  Listed(r, c) = WithoutAt(Listed(q, c), Start(q, c, j) + k)
<1> DEFINE a == SubSeq(c, 1, j - 1)
           b == SubSeq(c, j + 1, Len(c))
           la == Listed(q, a)
           lb == Listed(q, b)
           m == Items(q.fixedQueue[c[j]])
           w == WithoutAt(m, k)
           am == la \o m
<1>1. a \in Seq(Bucket) /\ b \in Seq(Bucket)
  BY SplitAt
<1>3. Listed(q, c) = am \o lb
  BY ListedSplit
<1>4. Listed(r, c) = (Listed(r, a) \o Items(r.fixedQueue[c[j]])) \o Listed(r, b)
  BY ListedSplit
<1>5. Listed(r, a) = la /\ Listed(r, b) = lb
  BY OthersSame
<1>6. c[j] \in Bucket
  BY ElementOfSeq
<1>7. m \in Seq(Data)
  BY <1>6, BucketItems
<1> HIDE DEF a, b, m
<1>9. la \in Seq(Data) /\ lb \in Seq(Data)
  BY <1>1, ListedType
<1> HIDE DEF la, lb
<1>10. k \in 1..Len(m)
  BY DEF m
<1>12. la \o w = WithoutAt(am, Len(la) + k)
  BY <1>7, <1>9, <1>10, WithoutAtBehind
<1>13. Items(r.fixedQueue[c[j]]) = w
  BY DEF m
<1>14. am \in Seq(Data) /\ Len(am) = Len(la) + Len(m)
  BY <1>7, <1>9, ConcatProperties
<1> HIDE DEF am, w
<1>15. Len(la) + k \in 1..Len(am)
  <2>1. Len(la) \in Nat /\ Len(m) \in Nat
    BY <1>7, <1>9, LenProperties
  <2> QED
    BY <1>10, <1>14, <2>1
<1>16. ASSUME NEW i \in 1..Len(am) PROVE WithoutAt(am, i) \o lb = WithoutAt(am \o lb, i)
  BY <1>9, <1>14, WithoutAtBefore
<1>17. WithoutAt(am, Len(la) + k) \o lb = WithoutAt(am \o lb, Len(la) + k)
  BY <1>15, <1>16
<1>18. Listed(r, c) = (la \o w) \o lb
  BY <1>4, <1>5, <1>13
<1> QED
  BY <1>3, <1>12, <1>17, <1>18 DEF Start, la, a

-----------------------------------------------------------------------------
(* Lists of distinct items, and how many buckets they need *)

Distinct(l) == \A i, j \in 1..Len(l) : l[i] = l[j] => i = j

LEMMA WithAtDistinct ==
    ASSUME NEW S, NEW l \in Seq(S), Distinct(l), NEW k \in 1..Len(l)+1, NEW x \in S,
           \A i \in 1..Len(l) : l[i] # x
    PROVE  Distinct(WithAt(l, k, x))
<1> DEFINE n == Len(l)
           w == WithAt(l, k, x)
<1>1. n \in Nat
  BY LenProperties
<1>2. /\ Len(w) = n + 1
      /\ \A i \in 1..n+1 : w[i] = IF i < k THEN l[i] ELSE IF i = k THEN x ELSE l[i - 1]
  BY WithAtType
<1> HIDE DEF n, w
<1>3. k \in 1..n+1 /\ \A i \in 1..n : l[i] # x
  BY DEF n
<1>4. \A i, j \in 1..n : l[i] = l[j] => i = j
  BY DEF n, Distinct
<1> DEFINE old(i) == IF i < k THEN i ELSE i - 1
<1>5. ASSUME NEW i \in 1..n+1, i # k
      PROVE  old(i) \in 1..n /\ w[i] = l[old(i)]
  BY <1>1, <1>2, <1>3, <1>5
<1>6. ASSUME NEW i \in 1..n+1, NEW j \in 1..n+1, w[i] = w[j] PROVE i = j
  <2>1. CASE i = k /\ j # k
    BY <1>2, <1>3, <1>5, <1>6, <2>1
  <2>2. CASE i # k /\ j = k
    BY <1>2, <1>3, <1>5, <1>6, <2>2
  <2>3. CASE i # k /\ j # k
    <3>1. old(i) = old(j)
      <4>1. l[old(i)] = l[old(j)] /\ old(i) \in 1..n /\ old(j) \in 1..n
        BY <1>5, <1>6, <2>3
      <4> HIDE DEF old
      <4> QED
        BY <1>4, <4>1
    <3> QED
      BY <1>1, <1>3, <2>3, <3>1
  <2> QED
    BY <2>1, <2>2, <2>3
<1>7. Distinct(w)
  BY <1>2, <1>6 DEF Distinct
<1> QED
  BY <1>7 DEF w

LEMMA WithoutAtDistinct ==
    ASSUME NEW S, NEW l \in Seq(S), Distinct(l), NEW k \in 1..Len(l)
    PROVE  Distinct(WithoutAt(l, k))
<1> DEFINE n == Len(l)
           w == WithoutAt(l, k)
<1>1. n \in Nat
  BY LenProperties
<1>2. Len(w) = n - 1 /\ \A i \in 1..n-1 : w[i] = IF i < k THEN l[i] ELSE l[i + 1]
  BY WithoutAtType
<1> HIDE DEF n, w
<1>3. k \in 1..n /\ \A i, j \in 1..n : l[i] = l[j] => i = j
  BY DEF n, Distinct
<1> DEFINE old(i) == IF i < k THEN i ELSE i + 1
<1>4. ASSUME NEW i \in 1..n-1 PROVE old(i) \in 1..n /\ w[i] = l[old(i)]
  BY <1>1, <1>2, <1>3
<1>5. ASSUME NEW i \in 1..n-1, NEW j \in 1..n-1, w[i] = w[j] PROVE i = j
  <2>1. old(i) = old(j)
    <3>1. l[old(i)] = l[old(j)] /\ old(i) \in 1..n /\ old(j) \in 1..n
      BY <1>4, <1>5
    <3> HIDE DEF old
    <3> QED
      BY <1>3, <3>1
  <2> QED
    BY <1>1, <1>3, <2>1
<1>6. Distinct(w)
  BY <1>2, <1>5 DEF Distinct
<1> QED
  BY <1>6 DEF w

LEMMA DistinctBound ==
    ASSUME NEW l \in Seq(Data), Distinct(l), NEW d \in Data, \A i \in 1..Len(l) : l[i] # d
    PROVE  Len(l) < Cardinality(Data)
<1> DEFINE n == Len(l)
           f == [i \in 1..n+1 |-> IF i <= n THEN l[i] ELSE d]
<1>1. n \in Nat /\ \A i \in 1..n : l[i] \in Data
  BY LenProperties, ElementOfSeq
<1>2. \A i, j \in 1..n : l[i] = l[j] => i = j
  BY DEF Distinct
<1>3. \A i \in 1..n : l[i] # d
  OBVIOUS
<1> HIDE DEF n
<1>4. f \in [1..n+1 -> Data]
  BY <1>1
<1>5. \A i, j \in 1..n+1 : f[i] = f[j] => i = j
  BY <1>1, <1>2, <1>3
<1>6. f \in Injection(1..n+1, Data)
  BY <1>4, <1>5 DEF Injection, IsInjective
<1>7. Cardinality(1..n+1) = n + 1
  <2>1. 1 \in Int /\ n + 1 \in Int /\ n + 1 - 1 + 1 = n + 1 /\ ~(1 > n + 1)
    BY <1>1
  <2> QED
    BY <2>1, FS_Interval
<1>8. n + 1 <= Cardinality(Data)
  <2> HIDE DEF f
  <2> QED
    BY <1>6, <1>7, DataAssumption, FS_Injection
<1> QED
  BY <1>1, <1>8, BucketsAre DEF n

(* Lists none of which is empty are at most as many as their items *)
LEMMA FlatLong ==
    ASSUME NEW S, NEW B \in Seq(Seq(S)), \A k \in 1..Len(B) : Len(B[k]) > 0
    PROVE  Len(B) <= Len(Flat(B))
<1> DEFINE n == Len(B)
<1>1. n \in Nat /\ \A k \in 1..n : B[k] \in Seq(S)
  BY LenProperties, ElementOfSeq
<1>2. PICK up \in [0..n -> Seq(S)] : Piled(up, B)
  BY PiledExists
<1>3. /\ Flat(B) = up[n] /\ up[0] = <<>>
      /\ \A k \in 1..n : up[k] = up[k - 1] \o B[k]
  BY <1>2, FlatIsPiled DEF Piled
<1>4. \A k \in 1..n : Len(B[k]) > 0
  OBVIOUS
<1> HIDE DEF n
<1> DEFINE T == {k \in 0..n : k <= Len(up[k])}
<1>5. 0 \in T
  BY <1>1, <1>3
<1>6. ASSUME NEW k \in 1..n, k - 1 \in T PROVE k \in T
  <2>1. k \in 0..n /\ k - 1 \in 0..n /\ k - 1 <= Len(up[k - 1])
    BY <1>1, <1>6
  <2>2. up[k - 1] \in Seq(S) /\ B[k] \in Seq(S)
    BY <1>1, <1>2, <2>1
  <2>3. Len(up[k - 1] \o B[k]) = Len(up[k - 1]) + Len(B[k])
    BY <2>2, ConcatProperties
  <2>4. Len(up[k - 1]) \in Nat /\ Len(B[k]) \in Nat /\ Len(B[k]) > 0
    BY <1>4, <2>2, LenProperties
  <2>5. Len(up[k]) = Len(up[k - 1]) + Len(B[k])
    BY <1>3, <2>3
  <2>6. k <= Len(up[k])
    <3> DEFINE x == Len(up[k - 1])
               y == Len(B[k])
               z == Len(up[k])
    <3>1. k \in Int /\ k - 1 <= x /\ x \in Nat /\ y \in Nat /\ y > 0 /\ z = x + y
      BY <1>1, <2>1, <2>4, <2>5
    <3> HIDE DEF x, y, z
    <3>2. k <= z
      BY <3>1
    <3> QED
      BY <3>2 DEF z
  <2> QED
    BY <2>1, <2>6
<1>7. n \in T
  <2>1. \A k \in 0..n : k \in T
    <3> HIDE DEF T
    <3> QED
      BY <1>1, <1>5, <1>6, SetInduction
  <2> QED
    BY <1>1, <2>1
<1> QED
  BY <1>3, <1>7 DEF n

(* Lists no longer than m hold at most m times their number *)
LEMMA FlatShort ==
    ASSUME NEW S, NEW B \in Seq(Seq(S)), NEW m \in Nat, \A k \in 1..Len(B) : Len(B[k]) <= m
    PROVE  Len(Flat(B)) <= Len(B) * m
<1> DEFINE n == Len(B)
<1>1. n \in Nat /\ \A k \in 1..n : B[k] \in Seq(S)
  BY LenProperties, ElementOfSeq
<1>2. PICK up \in [0..n -> Seq(S)] : Piled(up, B)
  BY PiledExists
<1>3. /\ Flat(B) = up[n] /\ up[0] = <<>>
      /\ \A k \in 1..n : up[k] = up[k - 1] \o B[k]
  BY <1>2, FlatIsPiled DEF Piled
<1>4. \A k \in 1..n : Len(B[k]) <= m
  OBVIOUS
<1> HIDE DEF n
<1> DEFINE T == {k \in 0..n : Len(up[k]) <= k * m}
<1>5. 0 \in T
  BY <1>1, <1>3
<1>6. ASSUME NEW k \in 1..n, k - 1 \in T PROVE k \in T
  <2>1. k \in 0..n /\ k - 1 \in 0..n /\ Len(up[k - 1]) <= (k - 1) * m
    BY <1>1, <1>6
  <2>2. up[k - 1] \in Seq(S) /\ B[k] \in Seq(S)
    BY <1>1, <1>2, <2>1
  <2>3. Len(up[k - 1] \o B[k]) = Len(up[k - 1]) + Len(B[k])
    BY <2>2, ConcatProperties
  <2>4. Len(up[k - 1]) \in Nat /\ Len(B[k]) \in Nat /\ Len(B[k]) <= m
    BY <1>4, <2>2, LenProperties
  <2>5. Len(up[k]) = Len(up[k - 1]) + Len(B[k])
    BY <1>3, <2>3
  <2>6. Len(up[k]) <= k * m
    <3> DEFINE x == Len(up[k - 1])
               y == Len(B[k])
               z == Len(up[k])
    <3>1. k \in Int /\ x <= (k - 1) * m /\ x \in Nat /\ y \in Nat /\ y <= m /\ z = x + y
      BY <1>1, <2>1, <2>4, <2>5
    <3> HIDE DEF x, y, z
    <3>2. (k - 1) * m = k * m - m
      BY <3>1
    <3>3. k * m \in Int
      BY <3>1
    <3>4. z <= k * m
      BY <3>1, <3>2, <3>3
    <3> QED
      BY <3>4 DEF z
  <2> QED
    BY <2>1, <2>6
<1>7. n \in T
  <2>1. \A k \in 0..n : k \in T
    <3> HIDE DEF T
    <3> QED
      BY <1>1, <1>5, <1>6, SetInduction
  <2> QED
    BY <1>1, <2>1
<1> QED
  BY <1>3, <1>7 DEF n

LEMMA ListedShort ==
    ASSUME NEW q, Rings(q), NEW c \in Seq(Bucket)
    PROVE  Len(Listed(q, c)) <= Len(c) * Capacity
<1> DEFINE P == Parts(q, c)
<1>1. /\ P \in Seq(Seq(Data)) /\ Len(P) = Len(c)
      /\ \A k \in 1..Len(c) : P[k] = Items(q.fixedQueue[c[k]])
  BY PartsType
<1>2. \A k \in 1..Len(P) : Len(P[k]) <= Capacity
  <2> SUFFICES ASSUME NEW k \in 1..Len(c) PROVE Len(P[k]) <= Capacity
    BY <1>1
  <2>1. c[k] \in Bucket
    BY ElementOfSeq
  <2> DEFINE x == q.fixedQueue[c[k]].size
  <2>2. Len(P[k]) = x /\ x \in 0..Capacity
    BY <1>1, <2>1, BucketItems
  <2> HIDE DEF P, x
  <2> QED
    BY <2>2, RingBufferAssumption
<1>3. Capacity \in Nat
  BY RingBufferAssumption
<1> HIDE DEF P
<1>4. Len(Flat(P)) <= Len(P) * Capacity
  BY <1>1, <1>2, <1>3, FlatShort
<1> QED
  BY <1>1, <1>4 DEF Listed, P

LEMMA ListedLong ==
    ASSUME NEW q, Rings(q), NEW c \in Seq(Bucket),
           \A k \in 1..Len(c) : ~Empty(q.fixedQueue[c[k]])
    PROVE  Len(c) <= Len(Listed(q, c))
<1> DEFINE P == Parts(q, c)
<1>1. /\ P \in Seq(Seq(Data)) /\ Len(P) = Len(c)
      /\ \A k \in 1..Len(c) : P[k] = Items(q.fixedQueue[c[k]])
  BY PartsType
<1>2. \A k \in 1..Len(c) : Len(P[k]) > 0
  <2> SUFFICES ASSUME NEW k \in 1..Len(c) PROVE Len(P[k]) > 0
    OBVIOUS
  <2>1. c[k] \in Bucket
    BY ElementOfSeq
  <2>2. /\ Len(Items(q.fixedQueue[c[k]])) = q.fixedQueue[c[k]].size
        /\ q.fixedQueue[c[k]].size \in 0..Capacity
    BY <2>1, BucketItems
  <2>3. q.fixedQueue[c[k]].size # 0
    BY DEF Empty
  <2>4. Capacity \in Nat
    BY RingBufferAssumption
  <2>5. Len(P[k]) = q.fixedQueue[c[k]].size
    BY <1>1, <2>2
  <2> DEFINE x == q.fixedQueue[c[k]].size
  <2> HIDE DEF P, x
  <2>6. x \in 0..Capacity /\ x # 0 /\ Len(P[k]) = x
    BY <2>2, <2>3, <2>5 DEF x
  <2> QED
    BY <2>4, <2>6
<1> HIDE DEF P
<1>3. Len(P) <= Len(Flat(P))
  BY <1>1, <1>2, FlatLong
<1> QED
  BY <1>1, <1>3 DEF Listed, P

-----------------------------------------------------------------------------
(* Sound queues *)

SoundBy(q, c) ==
    /\ Rings(q) /\ IsChain(q, c)
    /\ q.size = Len(Listed(q, c)) /\ q.size <= q.maxSize
    /\ \A k \in 1..Len(c) : Empty(q.fixedQueue[c[k]]) => q.head = q.tail
    /\ Distinct(Listed(q, c))

LEMMA SoundChain ==
    ASSUME NEW q, NEW c, SoundBy(q, c)
    PROVE  /\ Chain(q) = c /\ Iterated(q) = Listed(q, c)
           /\ Linked(q) = {c[k] : k \in 1..Len(c)}
           /\ Queued(q) = {Listed(q, c)[i] : i \in 1..Len(Listed(q, c))}
           /\ q \in PriorityQueueState
           /\ c \in Seq(Bucket) /\ Len(c) \in Nat /\ Len(c) # 0 /\ DOMAIN c = 1..Len(c)
           /\ \A k \in 1..Len(c) : c[k] \in Bucket
           /\ Listed(q, c) \in Seq(Data) /\ Len(Listed(q, c)) \in Nat
<1>1. IsChain(q, c) /\ Rings(q)
  BY DEF SoundBy
<1>2. Chain(q) = c
  BY <1>1, ChainIs
<1>3. /\ c \in Seq(Bucket) /\ Len(c) \in Nat /\ Len(c) # 0 /\ DOMAIN c = 1..Len(c)
      /\ \A k \in 1..Len(c) : c[k] \in Bucket
  BY <1>1, LenProperties, ElementOfSeq DEF IsChain
<1>4. Iterated(q) = Listed(q, c)
  BY <1>2 DEF Iterated, Listed, Parts
<1>5. Listed(q, c) \in Seq(Data) /\ Len(Listed(q, c)) \in Nat
  BY <1>1, <1>3, ListedType
<1> QED
  BY <1>1, <1>2, <1>3, <1>4, <1>5 DEF Linked, Queued, Rings

(* The two ends of a chain are the same bucket if it is the only one. *)
LEMMA OneBucket ==
    ASSUME NEW q, NEW c, IsChain(q, c)
    PROVE  q.head = q.tail <=> Len(c) = 1
<1>1. Len(c) \in Nat /\ Len(c) # 0
  BY LenProperties DEF IsChain
<1>2. 1 \in 1..Len(c) /\ Len(c) \in 1..Len(c)
  BY <1>1
<1> QED
  BY <1>2 DEF IsChain

LEMMA NewBucketFound ==
    ASSUME NEW q, NEW c, SoundBy(q, c), Len(c) <= Cardinality(Data)
    PROVE  NewBucket(q) \in Bucket /\ \A k \in 1..Len(c) : c[k] # NewBucket(q)
<1> DEFINE n == Len(c)
           linked == {c[k] : k \in 1..n}
           F == Bucket \ linked
<1>1. /\ c \in Seq(Bucket) /\ n \in Nat /\ DOMAIN c = 1..n /\ Linked(q) = linked
      /\ \A k \in 1..n : c[k] \in Bucket
  BY SoundChain
<1>2. NewBucket(q) = CHOOSE b \in F : \A d \in F : b <= d
  BY <1>1 DEF NewBucket
<1>3. F # {}
  <2> SUFFICES ASSUME F = {} PROVE FALSE
    OBVIOUS
  <2>1. c \in [1..n -> Bucket]
    BY <1>1, LenProperties
  <2>2. \A b \in Bucket : \E k \in 1..n : c[k] = b
    OBVIOUS
  <2> HIDE DEF n
  <2>3. c \in Surjection(1..n, Bucket)
    BY <2>1, <2>2 DEF Surjection
  <2>4. IsFiniteSet(1..n) /\ Cardinality(1..n) = n
    <3>1. CASE n = 0
      <4>1. 1..n = {}
        BY <3>1
      <4> QED
        BY <3>1, <4>1, FS_EmptySet
    <3>2. CASE n # 0
      <4>1. 1 \in Int /\ n \in Int /\ n - 1 + 1 = n /\ ~(1 > n)
        BY <1>1, <3>2
      <4> QED
        BY <4>1, FS_Interval
    <3> QED
      BY <3>1, <3>2
  <2>5. Cardinality(Bucket) <= Cardinality(1..n)
    BY <2>3, <2>4, FS_Surjection
  <2>6. n <= Cardinality(Data)
    BY DEF n
  <2> QED
    BY <1>1, <2>4, <2>5, <2>6, BucketsAre
<1> HIDE DEF linked
<1>4. F \subseteq Nat
  BY BucketsAre
<1> HIDE DEF F
<1>5. \E b \in F : \A d \in F : b <= d
  BY <1>3, <1>4, LeastElement
<1>6. NewBucket(q) \in F
  BY <1>2, <1>5
<1> QED
  BY <1>6 DEF F, linked

-----------------------------------------------------------------------------
(* Unlinking a bucket *)
LEMMA ChainWithout ==
    ASSUME NEW q, NEW r, NEW c, IsChain(q, c), Len(c) > 1, NEW j \in 1..Len(c),
           r.tail = (IF j = 1 THEN c[2] ELSE q.tail),
           r.head = (IF j = Len(c) THEN c[Len(c) - 1] ELSE q.head),
           \A k \in 1..Len(c) : k # j =>
               r.next[c[k]] = IF k = j - 1 THEN (IF j = Len(c) THEN None ELSE c[j + 1])
                              ELSE q.next[c[k]]
    PROVE  IsChain(r, WithoutAt(c, j))
<1> DEFINE n == Len(c)
           d == WithoutAt(c, j)
<1>1. /\ c \in Seq(Bucket) /\ n \in Nat /\ n > 1 /\ j \in 1..n
      /\ \A i, k \in 1..n : c[i] = c[k] => i = k
      /\ c[1] = q.tail /\ c[n] = q.head
      /\ \A k \in 1..n-1 : q.next[c[k]] = c[k + 1]
      /\ q.next[c[n]] = None
  BY DEF IsChain
<1>2. /\ d \in Seq(Bucket) /\ Len(d) = n - 1
      /\ \A i \in 1..n-1 : d[i] = IF i < j THEN c[i] ELSE c[i + 1]
  BY <1>1, WithoutAtType
<1>3. /\ r.tail = (IF j = 1 THEN c[2] ELSE q.tail)
      /\ r.head = (IF j = n THEN c[n - 1] ELSE q.head)
      /\ \A k \in 1..n : k # j =>
             r.next[c[k]] = IF k = j - 1 THEN (IF j = n THEN None ELSE c[j + 1]) ELSE q.next[c[k]]
  OBVIOUS
<1> HIDE DEF n, d
<1>4. Len(d) # 0
  BY <1>1, <1>2
<1>5. \A i, k \in 1..n-1 : d[i] = d[k] => i = k
  <2> SUFFICES ASSUME NEW i \in 1..n-1, NEW k \in 1..n-1, d[i] = d[k] PROVE i = k
    OBVIOUS
  <2> DEFINE a == IF i < j THEN i ELSE i + 1
             b == IF k < j THEN k ELSE k + 1
  <2>1. a \in 1..n /\ b \in 1..n
    BY <1>1
  <2>2. d[i] = c[a] /\ d[k] = c[b]
    BY <1>2
  <2>3. a = b
    <3> HIDE DEF a, b
    <3>1. c[a] = c[b]
      BY <2>2
    <3> QED
      BY <2>1, <3>1, <1>1
  <2> QED
    BY <2>3, <1>1
<1>6. d[1] = r.tail
  <2>1. CASE j = 1
    BY <2>1, <1>1, <1>2, <1>3
  <2>2. CASE j # 1
    BY <2>2, <1>1, <1>2, <1>3
  <2> QED
    BY <2>1, <2>2
<1>7. d[n - 1] = r.head
  <2>1. CASE j = n
    <3>1. n - 1 \in 1..n-1 /\ n - 1 < j
      BY <2>1, <1>1
    <3> QED
      BY <3>1, <2>1, <1>2, <1>3
  <2>2. CASE j # n
    <3>1. n - 1 \in 1..n-1 /\ ~(n - 1 < j) /\ n - 1 + 1 = n
      BY <2>2, <1>1
    <3> QED
      BY <3>1, <2>2, <1>1, <1>2, <1>3
  <2> QED
    BY <2>1, <2>2
<1>8. ASSUME NEW k \in 1..n-2
      PROVE  r.next[d[k]] = d[k + 1]
  <2>1. k \in 1..n-1 /\ k + 1 \in 1..n-1 /\ k \in 1..n /\ k + 1 \in 1..n /\ k + 1 + 1 = k + 2
    BY <1>1
  <2>2. CASE k + 1 < j
    <3>1. d[k] = c[k] /\ d[k + 1] = c[k + 1]
      BY <2>1, <2>2, <1>2, <1>1
    <3>2. r.next[c[k]] = q.next[c[k]]
      <4>1. k # j /\ k # j - 1
        BY <2>2, <1>1
      <4> QED
        BY <4>1, <2>1, <1>3
    <3> QED
      BY <3>1, <3>2, <2>1, <1>1
  <2>3. CASE k + 1 = j
    <3>1. d[k] = c[k] /\ d[k + 1] = c[k + 2]
      <4>1. k < j /\ ~(k + 1 < j)
        BY <2>3, <1>1
      <4> QED
        BY <4>1, <2>1, <1>2
    <3>2. k # j /\ k = j - 1 /\ j # n /\ j + 1 = k + 2
      BY <2>3, <1>1
    <3>3. r.next[c[k]] = c[j + 1]
      BY <3>2, <2>1, <1>3
    <3> QED
      BY <3>1, <3>2, <3>3
  <2>4. CASE k >= j
    <3>1. d[k] = c[k + 1] /\ d[k + 1] = c[k + 2]
      <4>1. ~(k < j) /\ ~(k + 1 < j)
        BY <2>4, <1>1
      <4> QED
        BY <4>1, <2>1, <1>2
    <3>2. k + 1 # j /\ k + 1 # j - 1
      BY <2>4, <1>1
    <3>3. r.next[c[k + 1]] = q.next[c[k + 1]]
      BY <3>2, <2>1, <1>3
    <3> QED
      BY <3>1, <3>3, <2>1, <1>1
  <2>5. k + 1 < j \/ k + 1 = j \/ k >= j
    BY <1>1
  <2> QED
    BY <2>2, <2>3, <2>4, <2>5
<1>9. r.next[r.head] = None
  <2>1. CASE j = n
    <3>1. n - 1 \in 1..n /\ n - 1 # j /\ n - 1 = j - 1
      BY <2>1, <1>1
    <3> QED
      BY <3>1, <2>1, <1>3
  <2>2. CASE j # n
    <3>1. n \in 1..n /\ n # j /\ n # j - 1
      BY <2>2, <1>1
    <3>2. r.next[c[n]] = q.next[c[n]]
      BY <3>1, <1>3
    <3> QED
      BY <3>2, <2>2, <1>1, <1>3
  <2> QED
    BY <2>1, <2>2
<1>10. Len(d) - 1 = n - 2
  BY <1>1, <1>2
<1> QED
  BY <1>2, <1>4, <1>5, <1>6, <1>7, <1>8, <1>9, <1>10 DEF IsChain, d

LEMMA PrevIs ==
    ASSUME NEW q, NEW c, IsChain(q, c), NEW j \in 2..Len(c)
    PROVE  PrevOf(q, c[j]) = c[j - 1]
<1> DEFINE n == Len(c)
<1>1. /\ c \in Seq(Bucket) /\ n \in Nat /\ j \in 2..n /\ DOMAIN c = 1..n
      /\ \A i \in 1..n : c[i] \in Bucket
      /\ \A i, k \in 1..n : c[i] = c[k] => i = k
      /\ c[1] = q.tail /\ c[n] = q.head
      /\ \A k \in 1..n-1 : q.next[c[k]] = c[k + 1]
      /\ q.next[c[n]] = None
  BY DEF IsChain
<1>2. Chain(q) = c
  BY ChainIs
<1> HIDE DEF n
<1>3. Linked(q) = {c[k] : k \in 1..n}
  BY <1>1, <1>2 DEF Linked
<1>4. j \in 1..n /\ j - 1 \in 1..n-1 /\ j - 1 \in 1..n /\ 1 \in 1..n /\ j # 1 /\ j - 1 + 1 = j
  BY <1>1
<1>5. c[j] # q.tail
  BY <1>1, <1>4
<1>6. c[j - 1] \in Linked(q) /\ q.next[c[j - 1]] = c[j]
  BY <1>1, <1>3, <1>4
<1>7. ASSUME NEW x \in Linked(q), q.next[x] = c[j]
      PROVE  x = c[j - 1]
  <2>1. PICK k \in 1..n : x = c[k]
    BY <1>3
  <2>2. k # n
    <3>1. c[j] # None
      BY <1>1, <1>4, BucketsAre
    <3> QED
      BY <3>1, <2>1, <1>1, <1>7
  <2>3. k \in 1..n-1 /\ k + 1 \in 1..n
    BY <2>2, <1>1
  <2>4. c[k + 1] = c[j]
    BY <2>1, <2>3, <1>1, <1>7
  <2>5. k + 1 = j
    BY <2>3, <2>4, <1>1, <1>4
  <2>6. k = j - 1
    BY <2>5, <1>1
  <2> QED
    BY <2>1, <2>6
<1> QED
  BY <1>5, <1>6, <1>7 DEF PrevOf

LEMMA UnlinkEffect ==
    ASSUME NEW q, Rings(q), NEW c, IsChain(q, c), NEW j \in 1..Len(c), q.head # q.tail
    PROVE  LET r == WithoutBucket(q, c[j])
           IN  /\ Rings(r) /\ IsChain(r, WithoutAt(c, j))
               /\ r.fixedQueue = q.fixedQueue /\ r.size = q.size /\ r.maxSize = q.maxSize
               /\ r.priorityEnabled = q.priorityEnabled
<1> DEFINE n == Len(c)
           r == WithoutBucket(q, c[j])
<1>1. /\ c \in Seq(Bucket) /\ n \in Nat /\ n # 0 /\ j \in 1..n
      /\ \A i \in 1..n : c[i] \in Bucket
      /\ \A i, k \in 1..n : c[i] = c[k] => i = k
      /\ c[1] = q.tail /\ c[n] = q.head
      /\ \A k \in 1..n-1 : q.next[c[k]] = c[k + 1]
      /\ q.next[c[n]] = None
  BY DEF IsChain
<1>2. n > 1
  <2>1. n # 1
    BY OneBucket
  <2> QED
    BY <2>1, <1>1
<1>3. /\ q \in PriorityQueueState /\ q.fixedQueue \in [Bucket -> Ring]
      /\ q.next \in [Bucket -> Bucket \union {None}]
      /\ q.head \in Bucket /\ q.tail \in Bucket
  BY StateFields DEF Rings
<1>4. \A i \in 2..n : PrevOf(q, c[i]) = c[i - 1]
  BY PrevIs
<1> DEFINE Kept(s) == /\ s.fixedQueue = q.fixedQueue /\ s.size = q.size /\ s.maxSize = q.maxSize
                      /\ s.priorityEnabled = q.priorityEnabled
           Is(s) == /\ s \in PriorityQueueState /\ Kept(s)
                    /\ s.tail = (IF j = 1 THEN c[2] ELSE q.tail)
                    /\ s.head = (IF j = n THEN c[n - 1] ELSE q.head)
                    /\ \A k \in 1..n : k # j =>
                           s.next[c[k]] = IF k = j - 1 THEN (IF j = n THEN None ELSE c[j + 1])
                                          ELSE q.next[c[k]]
<1> HIDE DEF n
<1>5. r = IF c[j] = q.tail /\ q.next[c[j]] # None
          THEN [q EXCEPT !.tail = q.next[c[j]], !.next[c[j]] = None]
          ELSE IF c[j] = q.head
          THEN [q EXCEPT !.head = PrevOf(q, c[j]),
                         !.next = [q.next EXCEPT ![PrevOf(q, c[j])] = None, ![c[j]] = None]]
          ELSE [q EXCEPT !.next = [q.next EXCEPT ![PrevOf(q, c[j])] = q.next[c[j]],
                                                 ![c[j]] = None]]
  BY DEF WithoutBucket
<1> HIDE DEF r
<1>6. Is(r)
  <2>1. CASE j = 1
    <3>1. c[1] = q.tail /\ q.next[c[1]] = c[2] /\ 1 \in 1..n /\ 2 \in 1..n /\ 1 # n
      <4>1. 1 \in 1..n-1 /\ 1 \in 1..n /\ 2 \in 1..n /\ 1 + 1 = 2 /\ 1 # n
        BY <1>2, <1>1
      <4> QED
        BY <4>1, <1>1
    <3>2. c[1] \in Bucket /\ c[2] \in Bucket /\ c[2] # None
      BY <3>1, <1>1, BucketsAre
    <3>3. r = [q EXCEPT !.tail = c[2], !.next[c[1]] = None]
      BY <1>5, <2>1, <3>1, <3>2
    <3>4. r \in PriorityQueueState
      BY <3>3, <3>2, <1>3 DEF PriorityQueueState
    <3>5. Kept(r) /\ r.tail = c[2] /\ r.head = q.head
      BY <3>3, <1>3 DEF PriorityQueueState
    <3>6. ASSUME NEW k \in 1..n, k # 1
          PROVE  k # 1 - 1 /\ r.next[c[k]] = q.next[c[k]]
      <4>1. c[k] # c[1] /\ c[k] \in Bucket
        BY <3>6, <3>1, <1>1
      <4>2. r.next = [q.next EXCEPT ![c[1]] = None]
        BY <3>3, <1>3 DEF PriorityQueueState
      <4> QED
        BY <4>1, <4>2, <1>3, <3>6
    <3> QED
      BY <2>1, <3>1, <3>4, <3>5, <3>6
  <2>2. CASE j # 1
    <3>1. j \in 2..n /\ j - 1 \in 1..n /\ 1 \in 1..n /\ j - 1 # j
      BY <2>2, <1>1
    <3>2. PrevOf(q, c[j]) = c[j - 1] /\ c[j] # q.tail /\ c[j] \in Bucket /\ c[j - 1] \in Bucket
      <4>1. c[j] # c[1]
        BY <3>1, <2>2, <1>1
      <4> QED
        BY <4>1, <3>1, <1>4, <1>1
    <3>3. CASE j = n
      <4>1. r = [q EXCEPT !.head = c[j - 1],
                          !.next = [q.next EXCEPT ![c[j - 1]] = None, ![c[j]] = None]]
        BY <1>5, <3>2, <3>3, <1>1
      <4>2. r \in PriorityQueueState
        BY <4>1, <3>2, <1>3 DEF PriorityQueueState
      <4>3. /\ Kept(r) /\ r.tail = q.tail /\ r.head = c[j - 1]
            /\ r.next = [q.next EXCEPT ![c[j - 1]] = None, ![c[j]] = None]
        BY <4>1, <1>3 DEF PriorityQueueState
      <4>4. ASSUME NEW k \in 1..n, k # j
            PROVE  r.next[c[k]] = IF k = j - 1 THEN None ELSE q.next[c[k]]
        <5>1. c[k] # c[j] /\ c[k] \in Bucket /\ (k # j - 1 => c[k] # c[j - 1])
          BY <4>4, <3>1, <1>1
        <5> QED
          BY <5>1, <4>3, <3>2, <1>3
      <4> QED
        BY <2>2, <3>3, <4>2, <4>3, <4>4
    <3>4. CASE j # n
      <4>1. j \in 1..n-1 /\ n \in 1..n
        BY <3>4, <1>1
      <4>2. c[j] # q.head /\ q.next[c[j]] = c[j + 1]
        BY <4>1, <3>4, <1>1
      <4>3. r = [q EXCEPT !.next = [q.next EXCEPT ![c[j - 1]] = c[j + 1], ![c[j]] = None]]
        BY <1>5, <3>2, <4>2
      <4>4. c[j + 1] \in Bucket
        <5>1. j + 1 \in 1..n
          BY <4>1, <1>1
        <5> QED
          BY <5>1, <1>1
      <4>5. r \in PriorityQueueState
        BY <4>3, <4>4, <3>2, <1>3 DEF PriorityQueueState
      <4>6. /\ Kept(r) /\ r.tail = q.tail /\ r.head = q.head
            /\ r.next = [q.next EXCEPT ![c[j - 1]] = c[j + 1], ![c[j]] = None]
        BY <4>3, <1>3 DEF PriorityQueueState
      <4>7. ASSUME NEW k \in 1..n, k # j
            PROVE  r.next[c[k]] = IF k = j - 1 THEN c[j + 1] ELSE q.next[c[k]]
        <5>1. c[k] # c[j] /\ c[k] \in Bucket /\ (k # j - 1 => c[k] # c[j - 1])
          BY <4>7, <3>1, <1>1
        <5> QED
          BY <5>1, <4>6, <3>2, <1>3
      <4> QED
        BY <2>2, <3>4, <4>5, <4>6, <4>7
    <3> QED
      BY <3>3, <3>4
  <2> QED
    BY <2>1, <2>2
<1>7. IsChain(r, WithoutAt(c, j))
  <2>1. /\ Len(c) > 1 /\ j \in 1..Len(c)
        /\ r.tail = (IF j = 1 THEN c[2] ELSE q.tail)
        /\ r.head = (IF j = Len(c) THEN c[Len(c) - 1] ELSE q.head)
        /\ \A k \in 1..Len(c) : k # j =>
               r.next[c[k]] = IF k = j - 1 THEN (IF j = Len(c) THEN None ELSE c[j + 1])
                              ELSE q.next[c[k]]
    BY <1>1, <1>2, <1>6 DEF n
  <2> HIDE DEF Is
  <2> QED
    BY <2>1, ChainWithout
<1>8. Rings(r)
  BY <1>6 DEF Rings
<1> QED
  BY <1>6, <1>7, <1>8 DEF r

(* r is the sound queue q without its item number i *)
Taken(q, c, r, i) ==
    /\ r.size = q.size - 1 /\ r.priorityEnabled = q.priorityEnabled
    /\ \E e : SoundBy(r, e) /\ Listed(r, e) = WithoutAt(Listed(q, c), i)

(* A bucket loses its entry number k, and is unlinked if that was its last. *)
LEMMA RemovalEffect ==
    ASSUME NEW q, NEW c, SoundBy(q, c), NEW j \in 1..Len(c), NEW ring \in Ring, Live(ring),
           NEW k \in 1..Len(Items(q.fixedQueue[c[j]])),
           Items(ring) = WithoutAt(Items(q.fixedQueue[c[j]]), k)
    PROVE  Taken(q, c, Shrunk([q EXCEPT !.fixedQueue[c[j]] = ring], c[j]), Start(q, c, j) + k)
<1> DEFINE b == c[j]
           p == [q EXCEPT !.fixedQueue[b] = ring]
           s == [p EXCEPT !.size = @ - 1]
           r == Shrunk(p, b)
           n == Len(c)
           l == Listed(q, c)
           i0 == Start(q, c, j) + k
<1>1. /\ c \in Seq(Bucket) /\ n \in Nat /\ b \in Bucket /\ l \in Seq(Data) /\ Len(l) \in Nat
      /\ \A i \in 1..n : c[i] \in Bucket
      /\ Rings(q) /\ IsChain(q, c) /\ q.size = Len(l) /\ q.size <= q.maxSize /\ Distinct(l)
      /\ \A i \in 1..n : Empty(q.fixedQueue[c[i]]) => q.head = q.tail
      /\ \A i, m \in 1..n : c[i] = c[m] => i = m
  BY SoundChain DEF SoundBy, IsChain
<1>2. /\ q \in PriorityQueueState /\ q.fixedQueue \in [Bucket -> Ring]
      /\ q.size \in Nat /\ q.maxSize \in Nat
  BY <1>1, StateFields DEF Rings
<1>3. i0 \in 1..Len(l)
  <2> DEFINE m == Len(Items(q.fixedQueue[b]))
             st == Start(q, c, j)
             ln == Len(l)
  <2>1. st \in Nat /\ st + m <= ln
    BY <1>1, ListedPositions, StartType
  <2>2. m \in Nat /\ k \in 1..m /\ ln \in Nat
    BY <1>1, BucketItems, LenProperties
  <2> HIDE DEF m, st, ln
  <2>3. st + k \in 1..ln
    BY <2>1, <2>2
  <2> QED
    BY <2>3 DEF st, ln
<1> HIDE DEF n, l, i0
<1>4. q.size > 0 /\ q.size - 1 \in Nat
  BY <1>1, <1>2, <1>3
<1>5. /\ s \in PriorityQueueState
      /\ s.fixedQueue = [q.fixedQueue EXCEPT ![b] = ring] /\ s.size = q.size - 1
      /\ s.next = q.next /\ s.head = q.head /\ s.tail = q.tail /\ s.maxSize = q.maxSize
      /\ s.priorityEnabled = q.priorityEnabled
  <2>1. /\ p \in PriorityQueueState
        /\ p.fixedQueue = [q.fixedQueue EXCEPT ![b] = ring] /\ p.size = q.size
        /\ p.next = q.next /\ p.head = q.head /\ p.tail = q.tail /\ p.maxSize = q.maxSize
        /\ p.priorityEnabled = q.priorityEnabled
    BY <1>1, <1>2 DEF PriorityQueueState
  <2> HIDE DEF p
  <2>2. s \in PriorityQueueState
    BY <2>1, <1>4 DEF PriorityQueueState
  <2> QED
    BY <2>1, <2>2 DEF PriorityQueueState
<1>6. r = IF Empty(s.fixedQueue[b]) THEN WithoutBucket(s, b) ELSE s
  BY DEF Shrunk
<1> HIDE DEF s, p, r
<1>7. Rings(s)
  <2> SUFFICES ASSUME NEW x \in Bucket PROVE Live(s.fixedQueue[x])
    BY <1>5 DEF Rings
  <2>1. CASE x = b
    BY <2>1, <1>5, <1>2
  <2>2. CASE x # b
    BY <2>2, <1>5, <1>1, <1>2 DEF Rings
  <2> QED
    BY <2>1, <2>2
<1>8. IsChain(s, c)
  BY <1>1, <1>5 DEF IsChain
<1>9. s.fixedQueue[b] = ring /\ \A i \in 1..n : i # j => s.fixedQueue[c[i]] = q.fixedQueue[c[i]]
  <2>1. \A i \in 1..n : i # j => c[i] # b /\ c[i] \in Bucket
    BY <1>1 DEF n
  <2> QED
    BY <2>1, <1>5, <1>1, <1>2
<1>10. Listed(s, c) = WithoutAt(l, i0)
  <2>1. \A i \in 1..n \ {j} : Items(s.fixedQueue[c[i]]) = Items(q.fixedQueue[c[i]])
    BY <1>9
  <2>2. Items(s.fixedQueue[c[j]]) = WithoutAt(Items(q.fixedQueue[c[j]]), k)
    BY <1>9
  <2> QED
    BY <2>1, <2>2, <1>1, <1>7, ListedTaken DEF n, l, i0
<1>11. Len(WithoutAt(l, i0)) = q.size - 1 /\ Distinct(WithoutAt(l, i0))
  BY <1>1, <1>3, WithoutAtType, WithoutAtDistinct
<1>12. s.size <= s.maxSize
  BY <1>1, <1>2, <1>5
<1>13. CASE ~Empty(ring) \/ q.head = q.tail
  <2>1. r = s
    BY <1>13, <1>6, <1>9, <1>5 DEF WithoutBucket
  <2>2. ASSUME NEW i \in 1..n, Empty(s.fixedQueue[c[i]])
        PROVE  s.head = s.tail
    <3>1. CASE i = j
      BY <3>1, <2>2, <1>13, <1>9, <1>5
    <3>2. CASE i # j
      BY <3>2, <2>2, <1>1, <1>9, <1>5
    <3> QED
      BY <3>1, <3>2
  <2>3. SoundBy(s, c)
    BY <2>2, <1>5, <1>7, <1>8, <1>10, <1>11, <1>12 DEF SoundBy, n
  <2> QED
    BY <2>1, <2>3, <1>5, <1>10 DEF r, p, l, i0, Taken
<1>14. CASE Empty(ring) /\ q.head # q.tail
  <2> DEFINE e == WithoutAt(c, j)
  <2>1. r = WithoutBucket(s, b) /\ s.head # s.tail
    BY <1>14, <1>6, <1>9, <1>5
  <2>2. /\ Rings(r) /\ IsChain(r, e)
        /\ r.fixedQueue = s.fixedQueue /\ r.size = s.size /\ r.maxSize = s.maxSize
        /\ r.priorityEnabled = s.priorityEnabled
    BY <2>1, <1>7, <1>8, UnlinkEffect
  <2>3. /\ e \in Seq(Bucket) /\ Len(e) = n - 1
        /\ \A i \in 1..n-1 : e[i] = IF i < j THEN c[i] ELSE c[i + 1]
    BY <1>1, WithoutAtType DEF n
  <2> HIDE DEF e
  <2>4. Listed(r, e) = Listed(s, e)
    <3>1. \A i \in 1..Len(e) : Items(r.fixedQueue[e[i]]) = Items(s.fixedQueue[e[i]])
      BY <2>2
    <3> QED
      BY <3>1, ListedSame
  <2>5. Listed(s, e) = Listed(s, c)
    BY <1>1, <1>7, <1>9, <1>14, ListedWithout DEF e, n
  <2>6. ASSUME NEW i \in 1..n-1
        PROVE  ~Empty(r.fixedQueue[e[i]])
    <3>1. PICK m \in 1..n : m # j /\ e[i] = c[m]
      <4>1. CASE i < j
        BY <4>1, <2>3, <1>1
      <4>2. CASE ~(i < j)
        <5>1. i + 1 \in 1..n /\ i + 1 # j
          BY <4>2, <1>1
        <5> QED
          BY <5>1, <4>2, <2>3
      <4> QED
        BY <4>1, <4>2
    <3>2. r.fixedQueue[e[i]] = q.fixedQueue[c[m]]
      BY <3>1, <2>2, <1>9
    <3> QED
      BY <3>2, <1>1, <1>14
  <2>7. SoundBy(r, e)
    <3>1. \A i \in 1..Len(e) : ~Empty(r.fixedQueue[e[i]])
      BY <2>3, <2>6
    <3>2. r.size = Len(Listed(r, e)) /\ r.size <= r.maxSize /\ Distinct(Listed(r, e))
      BY <2>2, <2>4, <2>5, <1>5, <1>10, <1>11, <1>12
    <3> QED
      BY <3>1, <3>2, <2>2 DEF SoundBy
  <2> QED
    BY <2>2, <2>4, <2>5, <2>7, <1>5, <1>10 DEF r, p, l, i0, Taken
<1> QED
  BY <1>13, <1>14

-----------------------------------------------------------------------------
(* Taking items *)

(* Every item is one of some bucket *)
LEMMA FlatFrom ==
    ASSUME NEW S, NEW B \in Seq(Seq(S))
    PROVE  \A i \in 1..Len(Flat(B)) : \E j \in 1..Len(B) :
               \E k \in 1..Len(B[j]) : Flat(B)[i] = B[j][k]
<1> DEFINE n == Len(B)
<1>1. n \in Nat /\ \A k \in 1..n : B[k] \in Seq(S)
  BY LenProperties, ElementOfSeq
<1>2. PICK up \in [0..n -> Seq(S)] : Piled(up, B)
  BY PiledExists
<1>3. /\ Flat(B) = up[n] /\ up[0] = <<>>
      /\ \A k \in 1..n : up[k] = up[k - 1] \o B[k]
  BY <1>2, FlatIsPiled DEF Piled
<1> HIDE DEF n
<1> DEFINE From(x) == \E j \in 1..n : \E k \in 1..Len(B[j]) : x = B[j][k]
           T == {m \in 0..n : \A i \in 1..Len(up[m]) : From(up[m][i])}
<1>4. 0 \in T
  <2>1. 1..Len(up[0]) = {}
    BY <1>3
  <2>2. 0 \in 0..n
    BY <1>1
  <2> QED
    BY <2>1, <2>2
<1>5. ASSUME NEW m \in 1..n, m - 1 \in T PROVE m \in T
  <2>1. m \in 0..n /\ m - 1 \in 0..n /\ \A i \in 1..Len(up[m - 1]) : From(up[m - 1][i])
    BY <1>1, <1>5
  <2> DEFINE a == up[m - 1]
             b == B[m]
  <2>2. a \in Seq(S) /\ b \in Seq(S)
    BY <1>1, <1>2, <2>1
  <2>3. up[m] = a \o b
    BY <1>3
  <2>4. \A i \in 1..Len(a) : From(a[i])
    BY <2>1
  <2>5. \A k \in 1..Len(b) : From(b[k])
    OBVIOUS
  <2> HIDE DEF a, b, From
  <2>6. /\ Len(a \o b) = Len(a) + Len(b) /\ Len(a) \in Nat /\ Len(b) \in Nat
        /\ \A i \in 1..Len(a) + Len(b) : (a \o b)[i] = IF i <= Len(a) THEN a[i] ELSE b[i - Len(a)]
    BY <2>2, ConcatProperties, LenProperties
  <2>7. ASSUME NEW i \in 1..Len(up[m]) PROVE From(up[m][i])
    <3>1. i \in 1..Len(a) + Len(b)
      BY <2>3, <2>6
    <3>2. CASE i <= Len(a)
      <4>1. i \in 1..Len(a)
        BY <3>1, <3>2, <2>6
      <4> QED
        BY <4>1, <3>1, <3>2, <2>3, <2>4, <2>6
    <3>3. CASE ~(i <= Len(a))
      <4>1. i - Len(a) \in 1..Len(b)
        BY <3>1, <3>3, <2>6
      <4>2. up[m][i] = b[i - Len(a)]
        BY <3>1, <3>3, <2>3, <2>6
      <4> QED
        BY <4>1, <4>2, <2>5
    <3> QED
      BY <3>2, <3>3
  <2> QED
    BY <2>1, <2>7
<1>6. n \in T
  <2> HIDE DEF T
  <2>1. \A k \in 0..n : k \in T
    BY <1>1, <1>4, <1>5, SetInduction
  <2> QED
    BY <1>1, <2>1
<1>7. \A i \in 1..Len(Flat(B)) : From(Flat(B)[i])
  <2>1. \A i \in 1..Len(up[n]) : From(up[n][i])
    BY <1>6
  <2> HIDE DEF From
  <2> QED
    BY <1>3, <2>1
<1> QED
  BY <1>7 DEF n

LEMMA ListedFrom ==
    ASSUME NEW q, Rings(q), NEW c \in Seq(Bucket)
    PROVE  \A i \in 1..Len(Listed(q, c)) : \E j \in 1..Len(c) :
               \E k \in 1..Len(Items(q.fixedQueue[c[j]])) :
                   Listed(q, c)[i] = Items(q.fixedQueue[c[j]])[k]
<1> DEFINE P == Parts(q, c)
<1>1. /\ P \in Seq(Seq(Data)) /\ Len(P) = Len(c) /\ Listed(q, c) = Flat(P)
      /\ \A k \in 1..Len(c) : P[k] = Items(q.fixedQueue[c[k]])
  BY PartsType DEF Listed
<1> HIDE DEF P
<1>2. \A i \in 1..Len(Flat(P)) : \E j \in 1..Len(P) : \E k \in 1..Len(P[j]) : Flat(P)[i] = P[j][k]
  BY <1>1, FlatFrom
<1>3. ASSUME NEW i \in 1..Len(Listed(q, c))
      PROVE  \E j \in 1..Len(c) : \E k \in 1..Len(Items(q.fixedQueue[c[j]])) :
                 Listed(q, c)[i] = Items(q.fixedQueue[c[j]])[k]
  <2>1. PICK j \in 1..Len(P) : \E k \in 1..Len(P[j]) : Flat(P)[i] = P[j][k]
    BY <1>1, <1>2
  <2>2. j \in 1..Len(c) /\ P[j] = Items(q.fixedQueue[c[j]])
    BY <1>1
  <2> QED
    BY <1>1, <2>1, <2>2
<1> QED
  BY <1>3

LEMMA StartOfFirst ==
    ASSUME NEW q, NEW c \in Seq(Bucket)
    PROVE  Start(q, c, 1) = 0
<1>1. SubSeq(c, 1, 0) = <<>>
  BY SubSeqProperties
<1>2. Listed(q, <<>>) = <<>>
  BY ListedNone
<1>3. 1 - 1 = 0 /\ Len(<<>>) = 0
  OBVIOUS
<1>4. Start(q, c, 1) = Len(Listed(q, SubSeq(c, 1, 1 - 1)))
  BY DEF Start
<1>5. SubSeq(c, 1, 1 - 1) = <<>>
  BY <1>1, <1>3
<1> QED
  BY <1>2, <1>3, <1>4, <1>5

LEMMA TailIsWithout ==
    ASSUME NEW S, NEW m \in Seq(S), m # <<>>
    PROVE  Tail(m) = WithoutAt(m, 1) /\ Head(m) = m[1]
<1> DEFINE t == Tail(m)
           w == WithoutAt(m, 1)
<1>1. Len(m) \in Nat /\ Len(m) > 0
  BY LenProperties, EmptySeq
<1>2. 1 \in 1..Len(m)
  BY <1>1
<1>3. t \in Seq(S) /\ Len(t) = Len(m) - 1 /\ (\A i \in 1..Len(t) : t[i] = m[i + 1])
      /\ Head(m) = m[1]
  BY HeadTailProperties
<1>4. /\ w \in Seq(S) /\ Len(w) = Len(m) - 1
      /\ \A i \in 1..Len(m)-1 : w[i] = IF i < 1 THEN m[i] ELSE m[i + 1]
  BY <1>2, WithoutAtType
<1> HIDE DEF t, w
<1>5. \A i \in 1..Len(m)-1 : t[i] = w[i]
  BY <1>1, <1>3, <1>4
<1>6. Len(t) = Len(w) /\ \A i \in 1..Len(t) : t[i] = w[i]
  BY <1>3, <1>4, <1>5
<1>7. t = w
  BY <1>3, <1>4, <1>6, SeqEqual
<1> QED
  BY <1>3, <1>7 DEF t, w

LEMMA DequeuedEffectOn ==
    ASSUME NEW q, NEW c, SoundBy(q, c), NEW j \in 1..Len(c), ~Empty(q.fixedQueue[c[j]])
    PROVE  LET ring == q.fixedQueue[c[j]]
               r == Shrunk([q EXCEPT !.fixedQueue[c[j]] = Dequeued(@)], c[j])
               i == Start(q, c, j) + 1
           IN  /\ i \in 1..Len(Listed(q, c)) /\ ring.nodeArray[ring.start].data = Listed(q, c)[i]
               /\ Taken(q, c, r, i)
<1> DEFINE ring == q.fixedQueue[c[j]]
           m == Items(ring)
           l == Listed(q, c)
           st == Start(q, c, j)
           d == Dequeued(ring)
<1>1. Rings(q) /\ c \in Seq(Bucket) /\ c[j] \in Bucket /\ l \in Seq(Data) /\ Len(l) \in Nat
  BY SoundChain DEF SoundBy
<1>2. ring \in Ring /\ Live(ring) /\ m \in Seq(Data) /\ Len(m) = ring.size
  BY <1>1, BucketItems
<1>3. d \in Ring /\ Live(d)
  BY <1>2, DequeuedEffect
<1>4. m # <<>> /\ Items(d) = Tail(m) /\ Head(m) = ring.nodeArray[ring.start].data
  BY <1>2, DequeuedItems
<1>5. /\ st \in Nat /\ st + Len(m) <= Len(l)
      /\ \A k \in 1..Len(m) : l[st + k] = m[k]
  BY <1>1, StartType, ListedPositions
<1>6. [q EXCEPT !.fixedQueue[c[j]] = Dequeued(@)] = [q EXCEPT !.fixedQueue[c[j]] = d]
  BY <1>1, StateFields DEF Rings, PriorityQueueState
<1> HIDE DEF ring, m, l, st, d
<1>7. Len(m) \in Nat /\ Len(m) > 0 /\ 1 \in 1..Len(m)
  BY <1>2, <1>4, LenProperties, EmptySeq
<1>8. Tail(m) = WithoutAt(m, 1)
  BY <1>2, <1>4, TailIsWithout
<1>9. st + 1 \in 1..Len(l) /\ l[st + 1] = Head(m)
  <2>1. Head(m) = m[1]
    BY <1>2, <1>4, HeadTailProperties
  <2>2. st + 1 \in 1..Len(l)
    <3> DEFINE x == Len(m)
               y == Len(l)
    <3>1. x \in Nat /\ x > 0 /\ y \in Nat /\ st \in Nat /\ st + x <= y
      BY <1>1, <1>5, <1>7
    <3> HIDE DEF x, y
    <3>2. st + 1 \in 1..y
      BY <3>1
    <3> QED
      BY <3>2 DEF y
  <2> QED
    BY <2>1, <2>2, <1>5, <1>7
<1>10. Taken(q, c, Shrunk([q EXCEPT !.fixedQueue[c[j]] = d], c[j]), st + 1)
  <2>1. Items(d) = WithoutAt(Items(q.fixedQueue[c[j]]), 1)
    BY <1>4, <1>8 DEF m, ring
  <2>2. 1 \in 1..Len(Items(q.fixedQueue[c[j]]))
    BY <1>7 DEF m, ring
  <2>3. Taken(q, c, Shrunk([q EXCEPT !.fixedQueue[c[j]] = d], c[j]), Start(q, c, j) + 1)
    BY <1>3, <2>1, <2>2, RemovalEffect
  <2> QED
    BY <2>3 DEF st
<1> QED
  BY <1>4, <1>6, <1>9, <1>10 DEF ring, m, l, st, d

LEMMA DequeuedItemEffect ==
    ASSUME NEW q, NEW c, SoundBy(q, c), NEW bucket \in Nat
    PROVE  LET r == DequeuedItem(q, bucket)
               l == Listed(q, c)
           IN  \/ /\ r = q /\ Served(q, bucket) = Undefined
                  /\ bucket = 0 => Len(l) = 0
                  /\ bucket > 0 => Len(l) = 0 \/ Len(c) < bucket
               \/ \E i \in 1..Len(l) :
                      /\ Served(q, bucket) = l[i]
                      /\ bucket = 0 => i = 1
                      /\ Taken(q, c, r, i)
<1>0. \A j \in 1..Len(c) : ~Empty(q.fixedQueue[c[j]]) =>
          LET ring == q.fixedQueue[c[j]]
              r == Shrunk([q EXCEPT !.fixedQueue[c[j]] = Dequeued(@)], c[j])
              i == Start(q, c, j) + 1
          IN  /\ i \in 1..Len(Listed(q, c)) /\ ring.nodeArray[ring.start].data = Listed(q, c)[i]
              /\ Taken(q, c, r, i)
  BY DequeuedEffectOn
<1> DEFINE n == Len(c)
           l == Listed(q, c)
           b == Target(q, bucket)
           filled == {k \in 1..n : ~Empty(q.fixedQueue[c[k]])}
           r == DequeuedItem(q, bucket)
<1>1. /\ Chain(q) = c /\ c \in Seq(Bucket) /\ n \in Nat /\ n # 0 /\ DOMAIN c = 1..n
      /\ \A k \in 1..n : c[k] \in Bucket
      /\ Rings(q) /\ IsChain(q, c) /\ q.size = Len(l)
      /\ \A k \in 1..n : Empty(q.fixedQueue[c[k]]) => q.head = q.tail
  BY SoundChain DEF SoundBy
<1>2. b = IF bucket > 0
          THEN IF n < bucket \/ Empty(q.fixedQueue[c[bucket]]) THEN None ELSE c[bucket]
          ELSE IF filled = {} THEN None ELSE c[CHOOSE k \in filled : \A j \in filled : k <= j]
  BY <1>1 DEF Target
<1> HIDE DEF n, l, b, r, filled
<1>3. 1 \in 1..n /\ n \in 1..n
  BY <1>1
<1>4. Empty(q.fixedQueue[c[1]]) => n = 1 /\ Len(l) = 0
  <2> SUFFICES ASSUME Empty(q.fixedQueue[c[1]]) PROVE n = 1 /\ Len(l) = 0
    OBVIOUS
  <2>1. n = 1
    BY <1>1, <1>3, OneBucket DEF n
  <2>2. Start(q, c, 1) + Len(Items(q.fixedQueue[c[1]])) = Len(l)
    <3>1. 1 \in 1..Len(c) /\ 1 = Len(c)
      BY <2>1 DEF n
    <3> QED
      BY <3>1, <1>1, ListedPositions DEF l
  <2>3. Len(Items(q.fixedQueue[c[1]])) = 0
    <3>1. Len(Items(q.fixedQueue[c[1]])) = q.fixedQueue[c[1]].size
      BY <1>1, <1>3, BucketItems
    <3> QED
      BY <3>1 DEF Empty
  <2> QED
    BY <2>1, <2>2, <2>3, <1>1, StartOfFirst
<1>5. CASE q.size = 0 \/ b = None
  <2>1. r = q /\ Served(q, bucket) = Undefined
    BY <1>5 DEF r, DequeuedItem, Served, b
  <2>2. ASSUME bucket = 0 PROVE Len(l) = 0
    <3>1. CASE q.size = 0
      BY <3>1, <1>1
    <3>2. CASE b = None
      <4>1. filled = {}
        <5> SUFFICES ASSUME filled # {} PROVE FALSE
          OBVIOUS
        <5>1. \E k \in filled : \A j \in filled : k <= j
          <6>1. filled \subseteq Nat
            BY <1>1 DEF filled
          <6> QED
            BY <6>1, LeastElement
        <5>2. (CHOOSE k \in filled : \A j \in filled : k <= j) \in filled
          BY <5>1
        <5>3. b \in Bucket
          BY <5>2, <1>1, <1>2, <2>2 DEF filled
        <5> QED
          BY <5>3, <3>2, BucketsAre
      <4> QED
        BY <4>1, <1>3, <1>4 DEF filled
    <3> QED
      BY <3>1, <3>2, <1>5
  <2>3. ASSUME bucket > 0 PROVE Len(l) = 0 \/ n < bucket
    <3>1. CASE q.size = 0
      BY <3>1, <1>1
    <3>2. CASE b = None /\ ~(n < bucket)
      <4>1. bucket \in 1..n /\ c[bucket] \in Bucket
        BY <1>1, <2>3, <3>2
      <4>2. Empty(q.fixedQueue[c[bucket]])
        BY <1>2, <2>3, <3>2, <4>1, BucketsAre
      <4>3. n = 1
        BY <1>1, <4>1, <4>2, OneBucket DEF n
      <4>4. bucket = 1
        BY <4>1, <4>3
      <4> QED
        BY <1>4, <4>2, <4>4
    <3> QED
      BY <3>1, <3>2, <1>5
  <2> QED
    BY <2>1, <2>2, <2>3 DEF r, l, n
<1>6. CASE q.size # 0 /\ b # None
  <2>1. r = Shrunk([q EXCEPT !.fixedQueue[b] = Dequeued(@)], b)
        /\ Served(q, bucket) = q.fixedQueue[b].nodeArray[q.fixedQueue[b].start].data
    BY <1>6 DEF r, DequeuedItem, Served, b
  <2>2. PICK j \in 1..n : b = c[j] /\ ~Empty(q.fixedQueue[c[j]]) /\ (bucket = 0 => j = 1)
    <3>1. CASE bucket > 0
      <4>1. b = c[bucket] /\ ~(n < bucket) /\ ~Empty(q.fixedQueue[c[bucket]])
        BY <3>1, <1>2, <1>6
      <4>2. bucket \in 1..n /\ bucket # 0
        BY <3>1, <4>1, <1>1
      <4> QED
        BY <4>1, <4>2
    <3>2. CASE ~(bucket > 0)
      <4>1. 1 \in filled
        <5>1. ~Empty(q.fixedQueue[c[1]])
          BY <1>1, <1>4, <1>6
        <5> QED
          BY <5>1, <1>3 DEF filled
      <4>2. \A k \in filled : 1 <= k /\ k \in Int
        BY <1>1 DEF filled
      <4>3. (CHOOSE k \in filled : \A i \in filled : k <= i) = 1
        BY <4>1, <4>2
      <4> QED
        BY <4>1, <4>3, <3>2, <1>2 DEF filled
    <3> QED
      BY <3>1, <3>2
  <2> DEFINE i == Start(q, c, j) + 1
  <2>3. i \in 1..Len(l) /\ Served(q, bucket) = l[i] /\ Taken(q, c, r, i)
    BY <1>0, <2>1, <2>2 DEF l, n
  <2>4. bucket = 0 => i = 1
    BY <2>2, <1>1, StartOfFirst
  <2> QED
    BY <2>3, <2>4 DEF r, l
<1> QED
  BY <1>5, <1>6

LEMMA DeletedItemEffect ==
    ASSUME NEW q, NEW c, SoundBy(q, c), NEW d \in Data
    PROVE  LET r == DeletedItem(q, d)
               l == Listed(q, c)
           IN  \/ r = q /\ \A i \in 1..Len(l) : l[i] # d
               \/ \E i \in 1..Len(l) :
                      l[i] = d /\ Taken(q, c, r, i)
<1> DEFINE n == Len(c)
           l == Listed(q, c)
           holders == {k \in 1..n : IndicesOf(q.fixedQueue[c[k]], d) # {}}
           j == CHOOSE k \in holders : \A i \in holders : k <= i
           r == DeletedItem(q, d)
<1>1. /\ Chain(q) = c /\ c \in Seq(Bucket) /\ n \in Nat /\ n # 0 /\ DOMAIN c = 1..n
      /\ \A k \in 1..n : c[k] \in Bucket
      /\ Rings(q) /\ IsChain(q, c) /\ q.size = Len(l) /\ l \in Seq(Data) /\ Len(l) \in Nat
  BY SoundChain DEF SoundBy
<1>2. r = IF holders = {} THEN q
          ELSE Shrunk([q EXCEPT !.fixedQueue[c[j]] = DeletedFrom(@, d)], c[j])
  BY <1>1 DEF DeletedItem
<1> HIDE DEF n, l, r, holders, j
<1>3. CASE holders = {}
  <2>1. ASSUME NEW i \in 1..Len(l), l[i] = d PROVE FALSE
    <3>1. PICK k \in 1..n : \E m \in 1..Len(Items(q.fixedQueue[c[k]])) :
              l[i] = Items(q.fixedQueue[c[k]])[m]
      <4>1. \A x \in 1..Len(Listed(q, c)) : \E y \in 1..Len(c) :
                \E z \in 1..Len(Items(q.fixedQueue[c[y]])) :
                    Listed(q, c)[x] = Items(q.fixedQueue[c[y]])[z]
        <5>1. Rings(q) /\ c \in Seq(Bucket)
          BY <1>1
        <5> QED
          BY <5>1, ListedFrom
      <4> QED
        BY <4>1 DEF l, n
    <3> DEFINE ring == q.fixedQueue[c[k]]
    <3>2. PICK m \in 1..Len(Items(ring)) : l[i] = Items(ring)[m]
      BY <3>1
    <3>3. /\ ring \in Ring /\ Len(Items(ring)) = ring.size /\ ring.size \in Nat
          /\ \A x \in 1..ring.size : Items(ring)[x] = ring.nodeArray[At(ring, x - 1)].data
      <4>1. c[k] \in Bucket
        BY <1>1
      <4>2. ring \in Ring /\ Live(ring)
        BY <1>1, <4>1, BucketItems
      <4> HIDE DEF ring
      <4> QED
        BY <4>2, ItemsSeq, StartOfRing
    <3> HIDE DEF ring
    <3>4. m - 1 \in 0..ring.size-1 /\ ring.nodeArray[At(ring, m - 1)].data = d
      <4>1. m \in 1..ring.size
        BY <3>2, <3>3
      <4>2. m - 1 \in 0..ring.size-1
        BY <3>3, <4>1
      <4>3. Items(ring)[m] = ring.nodeArray[At(ring, m - 1)].data
        BY <3>3, <4>1
      <4> QED
        BY <2>1, <3>2, <4>2, <4>3
    <3>5. IndicesOf(ring, d) # {}
      BY <3>4 DEF IndicesOf
    <3> QED
      BY <3>5, <1>3 DEF holders, ring
  <2> QED
    BY <2>1, <1>2, <1>3 DEF r, l
<1>4. CASE holders # {}
  <2>1. \E k \in holders : \A i \in holders : k <= i
    <3>1. holders \subseteq Nat
      BY <1>1 DEF holders
    <3> QED
      BY <3>1, <1>4, LeastElement
  <2>2. j \in holders
    BY <2>1 DEF j
  <2> DEFINE b == c[j]
             ring == q.fixedQueue[b]
             m == Items(ring)
             k == CHOOSE x \in IndicesOf(ring, d) : \A y \in IndicesOf(ring, d) : x <= y
             t == Removed(ring, k)
             st == Start(q, c, j)
  <2>3. j \in 1..n /\ b \in Bucket /\ IndicesOf(ring, d) # {}
    BY <2>2, <1>1 DEF holders
  <2>4. /\ ring \in Ring /\ Live(ring) /\ m \in Seq(Data) /\ Len(m) = ring.size
        /\ \A x \in 1..ring.size : m[x] = ring.nodeArray[At(ring, x - 1)].data
    BY <1>1, <2>3, BucketItems, ItemsSeq
  <2>5. k \in IndicesOf(ring, d)
    BY <2>3, <2>4, FirstIndex
  <2>6. /\ st \in Nat /\ st + Len(m) <= Len(l)
        /\ \A x \in 1..Len(m) : l[st + x] = m[x]
    BY <1>1, <2>3, StartType, ListedPositions DEF l, n
  <2>7. r = Shrunk([q EXCEPT !.fixedQueue[b] = t], b)
    <3>1. [q EXCEPT !.fixedQueue[b] = DeletedFrom(@, d)] = [q EXCEPT !.fixedQueue[b] = t]
      BY <1>1, <2>3, StateFields DEF Rings, PriorityQueueState, DeletedFrom
    <3> QED
      BY <3>1, <1>2, <1>4
  <2> HIDE DEF k
  <2>8. k \in 0..ring.size-1 /\ ring.nodeArray[At(ring, k)].data = d
    BY <2>5 DEF IndicesOf
  <2>9. t \in Ring /\ Live(t) /\ Items(t) = WithoutAt(m, k + 1)
    BY <2>4, <2>8, RemovedEffect, RemovedItems
  <2> HIDE DEF t, m, st, ring
  <2>10. ring.size \in Nat
    BY <2>4, StartOfRing
  <2>11. k + 1 \in 1..Len(m) /\ m[k + 1] = d
    <3>1. k + 1 \in 1..ring.size /\ k + 1 - 1 = k
      BY <2>8, <2>10
    <3> QED
      BY <3>1, <2>4, <2>8
  <2>12. st + (k + 1) \in 1..Len(l) /\ l[st + (k + 1)] = d
    <3> DEFINE x == Len(m)
               y == Len(l)
               z == k + 1
    <3>1. x \in Nat /\ y \in Nat /\ st \in Nat /\ st + x <= y /\ z \in 1..x
      BY <1>1, <2>4, <2>6, <2>10, <2>11
    <3> HIDE DEF x, y, z
    <3>2. st + z \in 1..y
      BY <3>1
    <3> QED
      BY <3>2, <2>6, <2>11 DEF y, z
  <2>13. Taken(q, c, r, st + (k + 1))
    <3> DEFINE z == k + 1
    <3>1. j \in 1..Len(c) /\ z \in 1..Len(Items(q.fixedQueue[c[j]]))
      BY <2>3, <2>11 DEF n, m, ring
    <3>2. Items(t) = WithoutAt(Items(q.fixedQueue[c[j]]), z)
      BY <2>9 DEF m, ring
    <3> HIDE DEF z, l, j
    <3>3. Taken(q, c, Shrunk([q EXCEPT !.fixedQueue[c[j]] = t], c[j]), Start(q, c, j) + z)
      BY <3>1, <3>2, <2>9, RemovalEffect
    <3> QED
      BY <3>3, <2>7 DEF z, st
  <2> QED
    BY <2>12, <2>13 DEF r, l
<1> QED
  BY <1>3, <1>4

-----------------------------------------------------------------------------
(* Adding an item *)

(* What the priority toggle fills: entries of the default priority, of no age *)
FreshRing(ring) == \A s \in Slot : ring.nodeArray[s] # Undefined =>
                       ring.nodeArray[s].priority = 0 /\ ring.nodeArray[s].age = 0
Fresh(q) == \A b \in Bucket : FreshRing(q.fixedQueue[b])

LEMMA BehindFresh ==
    ASSUME NEW ring \in Ring, Live(ring), FreshRing(ring), NEW prioritized
    PROVE  InsertionIndex(ring, 0, prioritized) = ring.size
<1>1. ASSUME NEW i \in Overtaken(ring, 0) PROVE FALSE
  <2> DEFINE e == ring.nodeArray[At(ring, i)]
             factor == AgingFactor[ring.size]
  <2>1. i \in 0..ring.size-1 /\ e.priority - e.age * factor > 0
    BY DEF Overtaken, EffectivePriority
  <2>2. e \in Entry
    BY <2>1, LiveEntries
  <2>3. At(ring, i) \in Slot
    <3>1. i \in 0..Capacity-1
      BY <2>1, StartOfRing
    <3> QED
      BY <3>1, SlotOfPosition
  <2>4. e # Undefined
    BY <2>2, RingBufferAssumption
  <2>5. e.priority = 0 /\ e.age = 0
    BY <2>3, <2>4 DEF FreshRing
  <2>6. factor \in Nat
    <3>1. ring.size \in 0..Capacity
      BY DEF Ring
    <3> QED
      BY <3>1, RingBufferAssumption
  <2> HIDE DEF e, factor
  <2>7. 0 - 0 * factor = 0
    BY <2>6
  <2> QED
    BY <2>1, <2>5, <2>7
<1> QED
  BY <1>1 DEF InsertionIndex

LEMMA FreshInserted ==
    ASSUME NEW ring \in Ring, FreshRing(ring), NEW k, NEW d
    PROVE  FreshRing(Inserted(ring, k, NewEntry(d, 0)))
<1> DEFINE e == NewEntry(d, 0)
           r == Inserted(ring, k, e)
<1>1. e.priority = 0 /\ e.age = 0
  BY DEF NewEntry
<1>2. \A s \in Slot : r.nodeArray[s] = e \/ r.nodeArray[s] = ring.nodeArray[Previous(s)]
                      \/ r.nodeArray[s] = ring.nodeArray[s]
  BY DEF Inserted
<1>3. \A s \in Slot : Previous(s) \in Slot
  BY NeighbourSlots
<1> HIDE DEF e, r
<1>4. FreshRing(r)
  BY <1>1, <1>2, <1>3 DEF FreshRing
<1> QED
  BY <1>4 DEF r, e

(* A full head gets an empty successor; the bound on the buckets is never met *)
LEMMA GrownEffect ==
    ASSUME NEW q, NEW c, SoundBy(q, c), NEW d \in Data,
           \A i \in 1..Len(Listed(q, c)) : Listed(q, c)[i] # d
    PROVE  LET g == Grown(q)
           IN  /\ g.size = q.size /\ g.maxSize = q.maxSize /\ g.priorityEnabled = q.priorityEnabled
               /\ Rings(g) /\ ~Full(g.fixedQueue[g.head])
               /\ Fresh(q) => Fresh(g)
               /\ \E e : /\ IsChain(g, e) /\ Listed(g, e) = Listed(q, c)
                         /\ \A k \in 1..Len(e)-1 : ~Empty(g.fixedQueue[e[k]])
<1> DEFINE n == Len(c)
           l == Listed(q, c)
           g == Grown(q)
<1>1. /\ c \in Seq(Bucket) /\ n \in Nat /\ n # 0 /\ DOMAIN c = 1..n
      /\ \A k \in 1..n : c[k] \in Bucket
      /\ Rings(q) /\ IsChain(q, c) /\ q.size = Len(l) /\ l \in Seq(Data) /\ Len(l) \in Nat
      /\ Distinct(l)
      /\ \A k \in 1..n : Empty(q.fixedQueue[c[k]]) => q.head = q.tail
      /\ \A i, k \in 1..n : c[i] = c[k] => i = k
      /\ c[1] = q.tail /\ c[n] = q.head
      /\ \A k \in 1..n-1 : q.next[c[k]] = c[k + 1]
      /\ q.next[q.head] = None
  BY SoundChain DEF SoundBy, IsChain
<1>2. q.head = q.tail <=> n = 1
  BY <1>1, OneBucket
<1>3. /\ q \in PriorityQueueState /\ q.fixedQueue \in [Bucket -> Ring]
      /\ q.next \in [Bucket -> Bucket \union {None}]
      /\ q.head \in Bucket /\ q.tail \in Bucket
  BY <1>1, StateFields DEF Rings
<1>4. 1 \in 1..n /\ n \in 1..n
  BY <1>1
<1>5. CASE ~Full(q.fixedQueue[q.head])
  <2>1. g = q
    BY <1>5 DEF Grown
  <2>2. ASSUME NEW k \in 1..n-1 PROVE ~Empty(q.fixedQueue[c[k]])
    <3>1. k \in 1..n /\ n # 1
      BY <1>1
    <3> QED
      BY <3>1, <1>1, <1>2
  <2>3. /\ q.size = q.size /\ IsChain(q, c) /\ Listed(q, c) = Listed(q, c)
        /\ \A k \in 1..Len(c)-1 : ~Empty(q.fixedQueue[c[k]])
    BY <1>1, <2>2
  <2> QED
    BY <2>1, <2>3, <1>1, <1>5
<1>6. CASE Full(q.fixedQueue[q.head])
  <2> DEFINE b == NewBucket(q)
             o == <<b>>
             e == c \o o
  <2>1. \A k \in 1..n : ~Empty(q.fixedQueue[c[k]])
    <3>1. ~Empty(q.fixedQueue[c[n]])
      BY <1>6, <1>1, RingBufferAssumption DEF Full, Empty
    <3> QED
      BY <3>1, <1>1, <1>2, <1>4
  <2>2. n <= Cardinality(Data)
    <3>1. n <= Len(l)
      BY <1>1, <2>1, ListedLong
    <3>2. Len(l) < Cardinality(Data)
      <4>1. \A i \in 1..Len(l) : l[i] # d
        OBVIOUS
      <4> HIDE DEF l
      <4> QED
        BY <4>1, <1>1, DistinctBound
    <3> HIDE DEF n, l
    <3> QED
      BY <3>1, <3>2, <1>1, BucketsAre
  <2>3. b \in Bucket /\ \A k \in 1..n : c[k] # b
    BY <2>2, NewBucketFound
  <2>4. g = [q EXCEPT !.fixedQueue[b] = EmptyRing,
                      !.next = [q.next EXCEPT ![q.head] = b, ![b] = None],
                      !.head = b]
    BY <1>6 DEF Grown
  <2> HIDE DEF g, n, l, b
  <2>5. EmptyRing \in Ring /\ Live(EmptyRing)
    BY EmptyRingIsLive
  <2>6. b # q.head
    BY <2>3, <1>1, <1>4
  <2>7. /\ g \in PriorityQueueState
        /\ g.fixedQueue = [q.fixedQueue EXCEPT ![b] = EmptyRing]
        /\ g.next = [q.next EXCEPT ![q.head] = b, ![b] = None]
        /\ g.head = b /\ g.tail = q.tail
        /\ g.size = q.size /\ g.maxSize = q.maxSize /\ g.priorityEnabled = q.priorityEnabled
    BY <2>3, <2>4, <2>5, <1>3 DEF PriorityQueueState
  <2>8. /\ g.fixedQueue[b] = EmptyRing
        /\ \A x \in Bucket : x # b => g.fixedQueue[x] = q.fixedQueue[x]
        /\ g.next[q.head] = b /\ g.next[b] = None
        /\ \A x \in Bucket : x # b /\ x # q.head => g.next[x] = q.next[x]
    BY <2>3, <2>6, <2>7, <1>3
  <2>9. Rings(g)
    <3> SUFFICES ASSUME NEW x \in Bucket PROVE Live(g.fixedQueue[x])
      BY <2>7 DEF Rings
    <3>1. CASE x = b
      BY <3>1, <2>5, <2>8
    <3>2. CASE x # b
      BY <3>2, <2>8, <1>1 DEF Rings
    <3> QED
      BY <3>1, <3>2
  <2>10. ~Full(g.fixedQueue[g.head])
    BY <2>7, <2>8, RingBufferAssumption DEF Full, EmptyRing
  <2>11. Fresh(q) => Fresh(g)
    <3> SUFFICES ASSUME Fresh(q), NEW x \in Bucket PROVE FreshRing(g.fixedQueue[x])
      BY DEF Fresh
    <3>1. CASE x = b
      BY <3>1, <2>8 DEF FreshRing, EmptyRing
    <3>2. CASE x # b
      BY <3>2, <2>8 DEF Fresh
    <3> QED
      BY <3>1, <3>2
  <2>12. o \in Seq(Bucket) /\ Len(o) = 1 /\ o[1] = b
    BY <2>3
  <2> HIDE DEF o
  <2>13. /\ e \in Seq(Bucket) /\ Len(e) = n + 1
         /\ \A k \in 1..n+1 : e[k] = IF k <= n THEN c[k] ELSE o[k - n]
    <3>1. /\ c \o o \in Seq(Bucket) /\ Len(c \o o) = Len(c) + Len(o)
          /\ \A k \in 1..Len(c)+Len(o) :
                 (c \o o)[k] = IF k <= Len(c) THEN c[k] ELSE o[k - Len(c)]
      <4>1. c \in Seq(Bucket) /\ o \in Seq(Bucket)
        BY <2>12, <1>1
      <4> QED
        BY <4>1, ConcatProperties
    <3> QED
      BY <2>12, <3>1 DEF n
  <2> HIDE DEF e
  <2>14. e[n + 1] = b /\ \A k \in 1..n : e[k] = c[k]
    <3>1. n + 1 \in 1..n+1 /\ ~(n + 1 <= n) /\ n + 1 - n = 1
      BY <1>1
    <3>2. \A k \in 1..n : k \in 1..n+1 /\ k <= n
      BY <1>1
    <3>3. \A x : x = n + 1 => e[x] = o[1]
      <4> SUFFICES ASSUME NEW x, x = n + 1 PROVE e[x] = o[1]
        OBVIOUS
      <4>1. x \in 1..n+1 /\ ~(x <= n) /\ x - n = 1
        <5>1. n \in Nat /\ x = n + 1
          BY <1>1
        <5> QED
          BY <5>1
      <4> QED
        BY <4>1, <2>13
    <3>4. \A k \in 1..n : e[k] = c[k]
      BY <3>2, <2>13
    <3> QED
      BY <3>1, <3>3, <3>4, <2>12
  <2>15. IsChain(g, e)
    <3>1. \A i, k \in 1..n+1 : e[i] = e[k] => i = k
      <4> SUFFICES ASSUME NEW i \in 1..n+1, NEW k \in 1..n+1, e[i] = e[k] PROVE i = k
        OBVIOUS
      <4>1. (i \in 1..n \/ i = n + 1) /\ (k \in 1..n \/ k = n + 1)
        BY <1>1
      <4>2. CASE i \in 1..n /\ k \in 1..n
        BY <4>2, <2>14, <1>1
      <4>3. CASE i \in 1..n /\ k = n + 1
        BY <4>3, <2>14, <2>3
      <4>4. CASE i = n + 1 /\ k \in 1..n
        BY <4>4, <2>14, <2>3
      <4> QED
        BY <4>1, <4>2, <4>3, <4>4
    <3>2. e[1] = g.tail /\ e[n + 1] = g.head
      BY <2>7, <2>14, <1>1, <1>4
    <3>3. ASSUME NEW k \in 1..n PROVE g.next[e[k]] = e[k + 1]
      <4>1. CASE k = n
        BY <4>1, <2>8, <2>14, <1>1, <1>4
      <4>2. CASE k # n
        <5>1. k \in 1..n-1 /\ k + 1 \in 1..n
          BY <4>2, <1>1
        <5>2. c[k] # b /\ c[k] # q.head /\ c[k] \in Bucket
          BY <4>2, <2>3, <1>1, <1>4
        <5> QED
          BY <5>1, <5>2, <2>8, <2>14, <1>1
      <4> QED
        BY <4>1, <4>2
    <3>4. g.next[g.head] = None
      BY <2>7, <2>8
    <3>5. Len(e) # 0 /\ Len(e) - 1 = n
      BY <2>13, <1>1
    <3> QED
      BY <3>1, <3>2, <3>3, <3>4, <3>5, <2>13 DEF IsChain
  <2>16. Listed(g, e) = l
    <3>1. Listed(g, e) = Listed(g, c) \o Listed(g, o)
      BY <2>9, <2>12, <1>1, ListedConcat DEF e
    <3>2. Listed(g, c) = Listed(q, c)
      <4>1. \A k \in 1..Len(c) : Items(g.fixedQueue[c[k]]) = Items(q.fixedQueue[c[k]])
        BY <2>3, <2>8, <1>1 DEF n
      <4> QED
        BY <4>1, ListedSame
    <3>3. Listed(g, o) = <<>>
      <4>1. Listed(g, o) = Items(EmptyRing)
        BY <2>3, <2>8, <2>9, ListedOne DEF o
      <4>2. Items(EmptyRing) \in Seq(Data) /\ Len(Items(EmptyRing)) = 0
        BY <2>5, ItemsSeq DEF EmptyRing
      <4> QED
        BY <4>1, <4>2, EmptySeq
    <3> QED
      BY <3>1, <3>2, <3>3, <1>1, ConcatEmptySeq DEF l
  <2>17. ASSUME NEW k \in 1..Len(e)-1 PROVE ~Empty(g.fixedQueue[e[k]])
    <3>1. k \in 1..n
      BY <2>13, <1>1
    <3>2. e[k] = c[k] /\ c[k] # b /\ c[k] \in Bucket
      BY <3>1, <2>3, <2>14, <1>1
    <3> QED
      BY <3>1, <3>2, <2>1, <2>8
  <2> QED
    BY <2>7, <2>9, <2>10, <2>11, <2>15, <2>16, <2>17 DEF g, l
<1> QED
  BY <1>5, <1>6

LEMMA EnqueuedItemEffect ==
    ASSUME NEW q, NEW c, SoundBy(q, c), NEW d \in Data, NEW p \in Priority,
           \A i \in 1..Len(Listed(q, c)) : Listed(q, c)[i] # d
    PROVE  LET r == EnqueuedItem(q, d, p)
               l == Listed(q, c)
           IN  /\ r.size = q.size + 1 /\ r.priorityEnabled = q.priorityEnabled
               /\ p = 0 /\ Fresh(q) => Fresh(r)
               /\ \E k \in 1..Len(l)+1 :
                      /\ k >= q.size + 1 - (IF q.priorityEnabled THEN Capacity - 1 ELSE 0)
                      /\ p = 0 /\ Fresh(q) => k = Len(l) + 1
                      /\ \E e : SoundBy(r, e) /\ Listed(r, e) = WithAt(l, k, d)
<1> DEFINE l == Listed(q, c)
           g == Grown(q)
           r == EnqueuedItem(q, d, p)
           ring == g.fixedQueue[g.head]
           index == InsertionIndex(ring, p, q.priorityEnabled)
           entry == NewEntry(d, p)
           t == Inserted(ring, index, entry)
           most == IF q.size + 1 > g.maxSize THEN q.size + 1 ELSE g.maxSize
<1>1. /\ l \in Seq(Data) /\ Len(l) \in Nat /\ q.size = Len(l) /\ q.size <= q.maxSize
      /\ Distinct(l) /\ q \in PriorityQueueState /\ q.maxSize \in Nat
      /\ \A i \in 1..Len(l) : l[i] # d
  BY SoundChain, StateFields DEF SoundBy
<1>2. /\ g.size = q.size /\ g.maxSize = q.maxSize /\ g.priorityEnabled = q.priorityEnabled
      /\ Rings(g) /\ ~Full(ring)
      /\ Fresh(q) => Fresh(g)
  BY GrownEffect
<1>3. PICK e : /\ IsChain(g, e) /\ Listed(g, e) = l
               /\ \A k \in 1..Len(e)-1 : ~Empty(g.fixedQueue[e[k]])
  BY GrownEffect
<1> DEFINE n == Len(e)
<1>4. r = [g EXCEPT !.fixedQueue[g.head] = Enqueued(@, d, p, q.priorityEnabled),
                    !.size = @ + 1,
                    !.maxSize = IF q.size + 1 > @ THEN q.size + 1 ELSE @]
  BY DEF EnqueuedItem
<1> HIDE DEF r, g, n, l
<1>5. /\ g \in PriorityQueueState /\ g.fixedQueue \in [Bucket -> Ring] /\ g.head \in Bucket
      /\ g.size \in Nat /\ g.maxSize \in Nat
  BY <1>2, StateFields DEF Rings
<1>6. /\ e \in Seq(Bucket) /\ n \in Nat /\ n # 0 /\ e[n] = g.head
      /\ \A k \in 1..n : e[k] \in Bucket
      /\ \A i, k \in 1..n : e[i] = e[k] => i = k
  <2>1. e \in Seq(Bucket) /\ n # 0 /\ e[n] = g.head /\ \A i, k \in 1..n : e[i] = e[k] => i = k
    BY <1>3 DEF IsChain, n
  <2> QED
    BY <2>1, LenProperties, ElementOfSeq DEF n
<1>7. n \in 1..n
  BY <1>6
<1>8. ring \in Ring /\ Live(ring) /\ ring.size \in Nat /\ ring.size <= Capacity - 1
  <2>1. ring \in Ring /\ Live(ring)
    BY <1>2, <1>5 DEF Rings
  <2> HIDE DEF ring
  <2>2. /\ ring.size \in Int /\ 0 <= ring.size /\ ring.size <= Capacity /\ Capacity \in Nat
        /\ ring.size # Capacity
    BY <2>1, <1>2, StartOfRing DEF Full
  <2> QED
    BY <2>1, <2>2
<1>9. index \in 0..ring.size
  BY <1>8, InsertionIndexType
<1>10. entry \in Entry /\ entry.data = d
  BY NewEntryType
<1> HIDE DEF ring, index, entry, t
<1>11. /\ t \in Ring /\ Live(t) /\ t.size = ring.size + 1
       /\ Items(t) = WithAt(Items(ring), index + 1, d)
  BY <1>2, <1>8, <1>9, <1>10, InsertedEffect, InsertedItems DEF t
<1> HIDE DEF most
<1>12. most \in Nat /\ q.size + 1 <= most
  BY <1>1, <1>5 DEF most
<1>13. r = [g EXCEPT !.fixedQueue = [g.fixedQueue EXCEPT ![g.head] = t],
                     !.size = g.size + 1, !.maxSize = most]
  <2>1. Enqueued(g.fixedQueue[g.head], d, p, q.priorityEnabled) = t
    BY DEF Enqueued, t, index, entry, ring
  <2> QED
    BY <2>1, <1>4, <1>5 DEF PriorityQueueState, most
<1>14. /\ r \in PriorityQueueState
       /\ r.fixedQueue = [g.fixedQueue EXCEPT ![g.head] = t]
       /\ r.size = q.size + 1 /\ r.maxSize = most
       /\ r.next = g.next /\ r.head = g.head /\ r.tail = g.tail
       /\ r.priorityEnabled = q.priorityEnabled
  <2> DEFINE fq == [g.fixedQueue EXCEPT ![g.head] = t]
             sz == g.size + 1
  <2>1. fq \in [Bucket -> Ring] /\ sz \in Nat
    BY <1>5, <1>11
  <2>2. r = [g EXCEPT !.fixedQueue = fq, !.size = sz, !.maxSize = most]
    BY <1>13
  <2> HIDE DEF fq, sz
  <2>3. r \in PriorityQueueState
    BY <2>1, <2>2, <1>5, <1>12 DEF PriorityQueueState
  <2>4. /\ r.fixedQueue = fq /\ r.size = sz /\ r.maxSize = most
        /\ r.next = g.next /\ r.head = g.head /\ r.tail = g.tail
        /\ r.priorityEnabled = g.priorityEnabled
    BY <2>2, <1>5 DEF PriorityQueueState
  <2> QED
    BY <2>3, <2>4, <1>2 DEF fq, sz
<1>15. /\ r.fixedQueue[g.head] = t
       /\ \A x \in Bucket : x # g.head => r.fixedQueue[x] = g.fixedQueue[x]
  BY <1>5, <1>14
<1>16. Rings(r)
  <2> SUFFICES ASSUME NEW x \in Bucket PROVE Live(r.fixedQueue[x])
    BY <1>14 DEF Rings
  <2>1. CASE x = g.head
    BY <2>1, <1>11, <1>15
  <2>2. CASE x # g.head
    BY <2>2, <1>2, <1>15 DEF Rings
  <2> QED
    BY <2>1, <2>2
<1>17. IsChain(r, e)
  BY <1>3, <1>14 DEF IsChain
<1> DEFINE st == Start(g, e, n)
           k == st + (index + 1)
<1>18. st \in Nat /\ st + ring.size = Len(l)
  <2>1. st \in Nat
    BY <1>2, <1>6, <1>7, StartType DEF n
  <2>2. st + Len(Items(g.fixedQueue[e[n]])) = Len(Listed(g, e))
    BY <1>2, <1>6, <1>7, ListedPositions DEF n
  <2>3. Len(Items(g.fixedQueue[e[n]])) = ring.size
    BY <1>2, <1>5, <1>6, BucketItems DEF ring
  <2> QED
    BY <2>1, <2>2, <2>3, <1>3
<1>19. Listed(r, e) = WithAt(l, k, d)
  <2>1. \A i \in 1..Len(e) \ {n} : Items(r.fixedQueue[e[i]]) = Items(g.fixedQueue[e[i]])
    BY <1>6, <1>7, <1>15 DEF n
  <2>2. Items(r.fixedQueue[e[n]]) = WithAt(Items(g.fixedQueue[e[n]]), index + 1, d)
    BY <1>6, <1>11, <1>15 DEF ring
  <2>3. index + 1 \in 1..Len(Items(g.fixedQueue[e[n]]))+1
    <3>1. Len(Items(g.fixedQueue[e[n]])) = ring.size
      BY <1>2, <1>5, <1>6, BucketItems DEF ring
    <3> QED
      BY <3>1, <1>8, <1>9
  <2> DEFINE i0 == index + 1
  <2> HIDE DEF i0
  <2>4. Listed(r, e) = WithAt(Listed(g, e), Start(g, e, n) + i0, d)
    <3>1. n \in 1..Len(e) /\ n = Len(e)
      BY <1>7 DEF n
    <3> QED
      BY <3>1, <2>1, <2>2, <2>3, <1>2, <1>6, <1>16, ListedPut DEF i0
  <2> QED
    BY <2>4, <1>3 DEF i0
<1> HIDE DEF st
<1>20. k \in 1..Len(l)+1 /\ (index = ring.size => k = Len(l) + 1)
       /\ k >= Len(l) + 1 - (Capacity - 1)
  <2> DEFINE x == Len(l)
             y == ring.size
  <2>1. /\ st \in Nat /\ st + y = x /\ x \in Nat /\ y \in Nat /\ index \in 0..y
        /\ y <= Capacity - 1 /\ Capacity \in Nat
    BY <1>1, <1>8, <1>9, <1>18, RingBufferAssumption
  <2> HIDE DEF x, y
  <2>2. k \in 1..x+1 /\ (index = y => k = x + 1) /\ k >= x + 1 - (Capacity - 1)
    BY <2>1
  <2> QED
    BY <2>2 DEF x, y
<1>21. ~q.priorityEnabled => index = ring.size
  BY DEF index, InsertionIndex
<1>22. k >= q.size + 1 - (IF q.priorityEnabled THEN Capacity - 1 ELSE 0)
  <2>1. CASE q.priorityEnabled
    BY <2>1, <1>1, <1>20
  <2>2. CASE ~q.priorityEnabled
    <3>1. k = Len(l) + 1
      BY <2>2, <1>20, <1>21
    <3>2. Len(l) + 1 >= Len(l) + 1 - 0
      BY <1>1
    <3> QED
      BY <3>1, <3>2, <2>2, <1>1
  <2> QED
    BY <2>1, <2>2
<1>23. ASSUME p = 0, Fresh(q)
       PROVE  k = Len(l) + 1 /\ Fresh(r)
  <2>1. FreshRing(ring)
    BY <1>23, <1>2, <1>5 DEF Fresh, ring
  <2>2. index = ring.size
    BY <2>1, <1>8, <1>23, BehindFresh DEF index
  <2>3. FreshRing(t)
    BY <2>1, <1>8, <1>23, FreshInserted DEF t, entry
  <2>4. \A x \in Bucket : FreshRing(r.fixedQueue[x])
    BY <2>3, <1>2, <1>15, <1>23 DEF Fresh
  <2> QED
    BY <2>2, <2>4, <1>20 DEF Fresh
<1>24. SoundBy(r, e)
  <2>1. Len(WithAt(l, k, d)) = Len(l) + 1 /\ Distinct(WithAt(l, k, d))
    BY <1>1, <1>20, WithAtType, WithAtDistinct
  <2>2. ASSUME NEW i \in 1..n, Empty(r.fixedQueue[e[i]])
        PROVE  r.head = r.tail
    <3>1. CASE i = n
      <4>1. t.size # 0
        BY <1>8, <1>11
      <4> QED
        BY <4>1, <3>1, <2>2, <1>6, <1>15 DEF Empty
    <3>2. CASE i # n
      <4>1. i \in 1..n-1 /\ e[i] # g.head /\ e[i] \in Bucket
        BY <3>2, <1>6, <1>7
      <4> QED
        BY <4>1, <2>2, <1>3, <1>15 DEF n
    <3> QED
      BY <3>1, <3>2
  <2>3. r.size = Len(Listed(r, e)) /\ r.size <= r.maxSize /\ Distinct(Listed(r, e))
    BY <2>1, <1>1, <1>12, <1>14, <1>19
  <2> QED
    BY <2>2, <2>3, <1>16, <1>17 DEF SoundBy, n
<1> HIDE DEF k
<1> QED
  BY <1>14, <1>19, <1>20, <1>22, <1>23, <1>24 DEF r, l

-----------------------------------------------------------------------------
(* The other operations *)

LEMMA ClearedEffect ==
    ASSUME NEW q, q.priorityEnabled \in BOOLEAN
    PROVE  LET r == Cleared(q)
           IN  /\ SoundBy(r, <<1>>) /\ Listed(r, <<1>>) = <<>> /\ Fresh(r)
               /\ r.priorityEnabled = q.priorityEnabled /\ r \in PriorityQueueState
<1> DEFINE r == Cleared(q)
           c == <<1>>
<1>1. EmptyRing \in Ring /\ Live(EmptyRing) /\ EmptyRing.size = 0
  BY EmptyRingIsLive DEF EmptyRing
<1>2. 1 \in Bucket
  BY BucketsAre
<1>3. /\ r \in PriorityQueueState /\ r.priorityEnabled = q.priorityEnabled
      /\ r.head = 1 /\ r.tail = 1 /\ r.size = 0 /\ r.maxSize = 0
      /\ \A b \in Bucket : r.fixedQueue[b] = EmptyRing /\ r.next[b] = None
  BY <1>1, <1>2 DEF Cleared, PriorityQueueState
<1> HIDE DEF r
<1>4. Rings(r)
  BY <1>1, <1>3 DEF Rings
<1>5. c \in Seq(Bucket) /\ Len(c) = 1 /\ c[1] = 1
  BY <1>2
<1> HIDE DEF c
<1>6. IsChain(r, c)
  BY <1>2, <1>3, <1>5 DEF IsChain
<1>7. Listed(r, c) = <<>>
  <2>1. Listed(r, <<1>>) = Items(r.fixedQueue[1])
    BY <1>2, <1>4, ListedOne
  <2>2. Items(EmptyRing) \in Seq(Data) /\ Len(Items(EmptyRing)) = 0
    BY <1>1, ItemsSeq
  <2>3. Items(EmptyRing) = <<>>
    BY <2>2, EmptySeq
  <2> QED
    BY <2>1, <2>3, <1>2, <1>3 DEF c
<1>8. Len(Listed(r, c)) = 0 /\ Distinct(Listed(r, c))
  <2>1. Len(<<>>) = 0 /\ Distinct(<<>>)
    BY DEF Distinct
  <2> QED
    BY <2>1, <1>7
<1>9. SoundBy(r, c)
  BY <1>3, <1>4, <1>6, <1>8 DEF SoundBy
<1>10. Fresh(r)
  BY <1>3 DEF Fresh, FreshRing, EmptyRing
<1> QED
  BY <1>3, <1>7, <1>9, <1>10 DEF r, c

(* The queue filled again with the items of l in turn, as far as number k *)
Refilled(r, l, k, enabled) ==
    /\ \E e : SoundBy(r, e) /\ Listed(r, e) = SubSeq(l, 1, k)
    /\ Fresh(r) /\ r.priorityEnabled = enabled

LEMMA PrefixSeq ==
    ASSUME NEW S, NEW l \in Seq(S), NEW k \in 0..Len(l)
    PROVE  /\ SubSeq(l, 1, k) \in Seq(S) /\ Len(SubSeq(l, 1, k)) = k
           /\ \A i \in 1..k : SubSeq(l, 1, k)[i] = l[i]
<1>1. Len(l) \in Nat
  BY LenProperties
<1> DEFINE n == Len(l)
<1> HIDE DEF n
<1>2. 1 \in 1..n+1 /\ k \in 0..n /\ n \in Nat /\ k \in Nat
  BY <1>1 DEF n
<1>3. \A i \in 1..k : i \in Int /\ 1 + i - 1 = i
  OBVIOUS
<1>4. /\ SubSeq(l, 1, k) \in Seq(S)
      /\ Len(SubSeq(l, 1, k)) = (IF 1 <= k THEN k - 1 + 1 ELSE 0)
      /\ \A i \in 1..k - 1 + 1 : SubSeq(l, 1, k)[i] = l[1 + i - 1]
  BY <1>2, SubSeqProperties DEF n
<1>5. k - 1 + 1 = k /\ (~(1 <= k) => k = 0)
  BY <1>2
<1> QED
  BY <1>3, <1>4, <1>5

LEMMA RefilledOnce ==
    ASSUME NEW r, NEW l \in Seq(Data), Distinct(l), NEW k \in 1..Len(l), NEW enabled,
           Refilled(r, l, k - 1, enabled)
    PROVE  Refilled(EnqueuedItem(r, l[k], 0), l, k, enabled)
<1> DEFINE n == Len(l)
           d == l[k]
           s == SubSeq(l, 1, k - 1)
           t == SubSeq(l, 1, k)
           w == WithAt(s, k, d)
<1>1. n \in Nat /\ k \in 1..n /\ k - 1 \in 0..n /\ k \in 0..n /\ d \in Data
  BY LenProperties, ElementOfSeq
<1>2. s \in Seq(Data) /\ Len(s) = k - 1 /\ \A i \in 1..k-1 : s[i] = l[i]
  BY <1>1, PrefixSeq
<1>3. t \in Seq(Data) /\ Len(t) = k /\ \A i \in 1..k : t[i] = l[i]
  BY <1>1, PrefixSeq
<1>4. \A i, j \in 1..n : l[i] = l[j] => i = j
  BY DEF Distinct
<1> HIDE DEF n, d, s, t
<1>5. PICK c : SoundBy(r, c) /\ Listed(r, c) = s
  BY DEF Refilled, s
<1>6. \A i \in 1..Len(s) : s[i] # d
  <2> SUFFICES ASSUME NEW i \in 1..Len(s), s[i] = d PROVE FALSE
    OBVIOUS
  <2>1. i \in 1..k-1 /\ i \in 1..n /\ i # k
    BY <1>1, <1>2
  <2>2. l[i] = l[k]
    BY <2>1, <1>2 DEF d
  <2> QED
    BY <2>1, <2>2, <1>1, <1>4
<1>7. Fresh(r) /\ r.priorityEnabled = enabled /\ 0 \in Priority
  BY PriorityAssumption DEF Refilled
<1> DEFINE x == EnqueuedItem(r, d, 0)
<1>8. /\ x.priorityEnabled = r.priorityEnabled /\ Fresh(x)
      /\ \E e : SoundBy(x, e) /\ Listed(x, e) = WithAt(s, Len(s) + 1, d)
  BY <1>1, <1>5, <1>6, <1>7, EnqueuedItemEffect
<1> HIDE DEF x
<1>9. Len(s) + 1 = k /\ k \in 1..Len(s)+1
  BY <1>1, <1>2
<1>10. w = t
  <2>1. /\ w \in Seq(Data) /\ Len(w) = Len(s) + 1
        /\ \A i \in 1..Len(s)+1 : w[i] = IF i < k THEN s[i] ELSE IF i = k THEN d ELSE s[i - 1]
    <3>1. s \in Seq(Data) /\ k \in 1..Len(s)+1 /\ d \in Data
      BY <1>1, <1>2, <1>9
    <3>2. w \in Seq(Data) /\ IsWithAt(w, s, k, d)
      BY <3>1, WithAtIs
    <3> HIDE DEF w
    <3> QED
      BY <3>2 DEF IsWithAt
  <2> HIDE DEF w
  <2>2. ASSUME NEW i \in 1..k PROVE w[i] = t[i]
    <3>1. CASE i < k
      <4>1. i \in 1..k-1 /\ i \in 1..Len(s)+1
        BY <3>1, <1>1, <1>9
      <4> QED
        BY <4>1, <3>1, <2>1, <1>2, <1>3
    <3>2. CASE ~(i < k)
      <4>1. i = k
        BY <3>2, <1>1
      <4> QED
        BY <4>1, <2>1, <1>3, <1>9 DEF d
    <3> QED
      BY <3>1, <3>2
  <2>3. Len(w) = Len(t) /\ \A i \in 1..Len(w) : w[i] = t[i]
    BY <2>1, <2>2, <1>3, <1>9
  <2> QED
    BY <2>1, <2>3, <1>3, SeqEqual
<1>11. Refilled(x, l, k, enabled)
  BY <1>7, <1>8, <1>9, <1>10 DEF Refilled, t
<1> QED
  BY <1>11 DEF x, d

LEMMA ToggledEffect ==
    ASSUME NEW q, NEW c, SoundBy(q, c)
    PROVE  LET r == Toggled(q)
           IN  /\ r.size = q.size /\ r.priorityEnabled = ~q.priorityEnabled
               /\ \E e : SoundBy(r, e) /\ Listed(r, e) = Listed(q, c)
<1> DEFINE l == Listed(q, c)
           n == Len(l)
           enabled == ~q.priorityEnabled
           base == Cleared([q EXCEPT !.priorityEnabled = ~@])
           U == PriorityQueueState
           next(x, i) == EnqueuedItem(x, l[i], 0)
           step == [e \in U \X (1..n) |-> IF next(e[1], e[2]) \in U THEN next(e[1], e[2]) ELSE base]
           filled[k \in 0..n] ==
               IF k = 0 THEN Cleared([q EXCEPT !.priorityEnabled = ~@])
               ELSE EnqueuedItem(filled[k - 1], l[k], 0)
<1>1. /\ l \in Seq(Data) /\ n \in Nat /\ Distinct(l) /\ q.size = n /\ Iterated(q) = l
      /\ q \in PriorityQueueState
  BY SoundChain DEF SoundBy
<1>2. Toggled(q) = filled[n]
  BY <1>1 DEF Toggled
<1>3. base \in U /\ Refilled(base, l, 0, enabled)
  <2> DEFINE p == [q EXCEPT !.priorityEnabled = ~@]
  <2>1. p.priorityEnabled = enabled /\ enabled \in BOOLEAN
    BY <1>1 DEF PriorityQueueState
  <2> HIDE DEF p, l, enabled
  <2>2. /\ SoundBy(Cleared(p), <<1>>) /\ Listed(Cleared(p), <<1>>) = <<>> /\ Fresh(Cleared(p))
        /\ Cleared(p).priorityEnabled = p.priorityEnabled /\ Cleared(p) \in U
    <3>1. p.priorityEnabled \in BOOLEAN
      BY <2>1
    <3> QED
      BY <3>1, ClearedEffect
  <2>3. SubSeq(l, 1, 0) = <<>>
    BY SubSeqProperties
  <2> QED
    BY <2>1, <2>2, <2>3 DEF Refilled, p
<1> HIDE DEF l, n, base, U, enabled
<1>4. \A x \in U, i \in 1..n :
          /\ step[<<x, i>>] \in U
          /\ next(x, i) \in U => step[<<x, i>>] = next(x, i)
  <2> HIDE DEF next
  <2> QED
    BY <1>3
<1> HIDE DEF step
<1>5. PICK f : Turns(f, U, base, step, n)
  BY <1>1, <1>3, <1>4, TurnsExist
<1>6. f \in [0..n -> U] /\ f[0] = base /\ \A i \in 1..n : f[i] = step[<<f[i - 1], i>>]
  BY <1>5 DEF Turns
<1> DEFINE T == {k \in 0..n : Refilled(f[k], l, k, enabled)}
<1>7. \A k \in 1..n : k - 1 \in T => f[k] = next(f[k - 1], k) /\ k \in T
  <2> SUFFICES ASSUME NEW k \in 1..n, k - 1 \in T
               PROVE  f[k] = next(f[k - 1], k) /\ k \in T
    OBVIOUS
  <2>1. k \in 0..n /\ k - 1 \in 0..n /\ f[k - 1] \in U /\ Refilled(f[k - 1], l, k - 1, enabled)
    BY <1>1, <1>6
  <2>2. Refilled(next(f[k - 1], k), l, k, enabled)
    BY <2>1, <1>1, RefilledOnce DEF n
  <2>3. next(f[k - 1], k) \in U
    BY <2>2 DEF Refilled, SoundBy, Rings, U
  <2>4. f[k] = next(f[k - 1], k)
    <3>1. f[k] = step[<<f[k - 1], k>>]
      BY <1>6
    <3> HIDE DEF next
    <3> QED
      BY <3>1, <2>1, <2>3, <1>4
  <2> QED
    BY <2>1, <2>2, <2>4
<1>8. \A k \in 0..n : k \in T
  <2>1. 0 \in T
    BY <1>1, <1>3, <1>6
  <2> HIDE DEF T
  <2> QED
    BY <2>1, <1>1, <1>7, SetInduction
<1>9. \A k \in 1..n : f[k] = EnqueuedItem(f[k - 1], l[k], 0)
  <2> SUFFICES ASSUME NEW k \in 1..n PROVE f[k] = EnqueuedItem(f[k - 1], l[k], 0)
    OBVIOUS
  <2>1. k - 1 \in 0..n
    BY <1>1
  <2>2. k - 1 \in T
    BY <2>1, <1>8
  <2> QED
    BY <2>2, <1>7
<1>10. f = [k \in 0..n |-> IF k = 0 THEN Cleared([q EXCEPT !.priorityEnabled = ~@])
                           ELSE EnqueuedItem(f[k - 1], l[k], 0)]
  <2>1. ASSUME NEW k \in 0..n
        PROVE  f[k] = IF k = 0 THEN Cleared([q EXCEPT !.priorityEnabled = ~@])
                      ELSE EnqueuedItem(f[k - 1], l[k], 0)
    <3>1. CASE k = 0
      BY <3>1, <1>6 DEF base
    <3>2. CASE k # 0
      <4>1. k \in 1..n
        BY <3>2, <1>1
      <4> QED
        BY <4>1, <3>2, <1>9
    <3> QED
      BY <3>1, <3>2
  <2>2. DOMAIN f = 0..n /\ f = [k \in 0..n |-> f[k]]
    BY <1>6
  <2> QED
    BY <2>1, <2>2
<1>11. filled = [k \in 0..n |-> IF k = 0 THEN Cleared([q EXCEPT !.priorityEnabled = ~@])
                                ELSE EnqueuedItem(filled[k - 1], l[k], 0)]
  BY <1>10
<1> HIDE DEF filled
<1> DEFINE E == {k \in 0..n : filled[k] = f[k]}
<1>12. \A k \in 0..n : k \in E
  <2>1. 0 \in E
    BY <1>1, <1>6, <1>11 DEF base
  <2>2. ASSUME NEW k \in 1..n, k - 1 \in E PROVE k \in E
    <3>1. k \in 0..n /\ k # 0 /\ filled[k - 1] = f[k - 1]
      BY <1>1, <2>2
    <3>2. filled[k] = IF k = 0 THEN Cleared([q EXCEPT !.priorityEnabled = ~@])
                      ELSE EnqueuedItem(filled[k - 1], l[k], 0)
      BY <1>11, <3>1
    <3>3. f[k] = EnqueuedItem(f[k - 1], l[k], 0)
      BY <1>9
    <3>4. filled[k] = f[k]
      BY <3>1, <3>2, <3>3
    <3> QED
      BY <3>1, <3>4
  <2> HIDE DEF E
  <2> QED
    BY <2>1, <2>2, <1>1, SetInduction
<1>13. n \in 0..n
  BY <1>1
<1>14. filled[n] = f[n] /\ Refilled(f[n], l, n, enabled)
  BY <1>8, <1>12, <1>13
<1>15. SubSeq(l, 1, n) = l
  <2>1. /\ SubSeq(l, 1, n) \in Seq(Data) /\ Len(SubSeq(l, 1, n)) = n
        /\ \A i \in 1..n : SubSeq(l, 1, n)[i] = l[i]
    BY <1>1, <1>13, PrefixSeq DEF n
  <2> QED
    BY <2>1, <1>1, SeqEqual DEF n
<1>16. PICK e : SoundBy(f[n], e) /\ Listed(f[n], e) = l
  BY <1>14, <1>15 DEF Refilled
<1>17. f[n].size = q.size
  BY <1>1, <1>16 DEF SoundBy, n
<1>18. Toggled(q) = f[n] /\ f[n].priorityEnabled = enabled
  BY <1>2, <1>14 DEF Refilled
<1> QED
  BY <1>16, <1>17, <1>18 DEF l, enabled

LEMMA AgedItems ==
    ASSUME NEW ring \in Ring, Live(ring)
    PROVE  Items(Aged(ring)) = Items(ring)
<1> DEFINE r == Aged(ring)
<1>1. /\ r.size = ring.size
      /\ \A i \in 0..ring.size-1 : r.nodeArray[At(r, i)].data = ring.nodeArray[At(ring, i)].data
  BY AgedEffect
<1> HIDE DEF r
<1>2. ring.size \in Nat
  BY StartOfRing
<1>3. \A i \in 1..ring.size : i - 1 \in 0..ring.size-1
  BY <1>2
<1>4. Items(r) = Items(ring)
  BY <1>1, <1>3 DEF Items
<1> QED
  BY <1>4 DEF r

LEMMA TickEffect ==
    ASSUME NEW q, NEW c, SoundBy(q, c)
    PROVE  LET r == [q EXCEPT !.fixedQueue = [b \in Bucket |-> Aged(q.fixedQueue[b])]]
           IN  SoundBy(r, c) /\ Listed(r, c) = Listed(q, c) /\ r.size = q.size
<1> DEFINE r == [q EXCEPT !.fixedQueue = [b \in Bucket |-> Aged(q.fixedQueue[b])]]
<1>1. /\ Rings(q) /\ IsChain(q, c) /\ q \in PriorityQueueState
      /\ \A k \in 1..Len(c) : c[k] \in Bucket
  BY SoundChain DEF SoundBy
<1>2. \A b \in Bucket :
          /\ Aged(q.fixedQueue[b]) \in Ring /\ Live(Aged(q.fixedQueue[b]))
          /\ Aged(q.fixedQueue[b]).size = q.fixedQueue[b].size
          /\ Items(Aged(q.fixedQueue[b])) = Items(q.fixedQueue[b])
  <2> SUFFICES ASSUME NEW b \in Bucket
               PROVE  /\ Aged(q.fixedQueue[b]) \in Ring /\ Live(Aged(q.fixedQueue[b]))
                      /\ Aged(q.fixedQueue[b]).size = q.fixedQueue[b].size
                      /\ Items(Aged(q.fixedQueue[b])) = Items(q.fixedQueue[b])
    OBVIOUS
  <2>1. q.fixedQueue[b] \in Ring /\ Live(q.fixedQueue[b])
    BY <1>1, BucketItems
  <2> QED
    BY <2>1, AgedEffect, AgedItems
<1>3. /\ r \in PriorityQueueState
      /\ \A b \in Bucket : r.fixedQueue[b] = Aged(q.fixedQueue[b])
      /\ r.next = q.next /\ r.head = q.head /\ r.tail = q.tail
      /\ r.size = q.size /\ r.maxSize = q.maxSize /\ r.priorityEnabled = q.priorityEnabled
  BY <1>1, <1>2 DEF PriorityQueueState
<1> HIDE DEF r
<1>4. Rings(r) /\ IsChain(r, c)
  BY <1>1, <1>2, <1>3 DEF Rings, IsChain
<1>5. Listed(r, c) = Listed(q, c)
  <2>1. \A k \in 1..Len(c) : Items(r.fixedQueue[c[k]]) = Items(q.fixedQueue[c[k]])
    BY <1>1, <1>2, <1>3
  <2> QED
    BY <2>1, ListedSame
<1>6. \A k \in 1..Len(c) : Empty(r.fixedQueue[c[k]]) => r.head = r.tail
  BY <1>1, <1>2, <1>3 DEF SoundBy, Empty
<1>7. SoundBy(r, c)
  BY <1>3, <1>4, <1>5, <1>6 DEF SoundBy
<1> QED
  BY <1>3, <1>5, <1>7 DEF r

-----------------------------------------------------------------------------
(* What each operation does to the list of items *)

Sound(q) == \E c : SoundBy(q, c)

LEMMA SoundItems ==
    ASSUME NEW q, Sound(q)
    PROVE  /\ q \in PriorityQueueState /\ q.size \in Nat /\ q.size = Len(Iterated(q))
           /\ Iterated(q) \in Seq(Data) /\ DOMAIN Iterated(q) = 1..Len(Iterated(q))
           /\ Queued(q) = {Iterated(q)[i] : i \in 1..Len(Iterated(q))}
<1>1. PICK c : SoundBy(q, c)
  BY DEF Sound
<1>2. /\ Iterated(q) = Listed(q, c) /\ q \in PriorityQueueState /\ Listed(q, c) \in Seq(Data)
      /\ Queued(q) = {Listed(q, c)[i] : i \in 1..Len(Listed(q, c))}
  BY <1>1, SoundChain
<1>3. q.size = Len(Listed(q, c))
  BY <1>1 DEF SoundBy
<1>4. q.size \in Nat
  BY <1>2, StateFields
<1>5. DOMAIN Listed(q, c) = 1..Len(Listed(q, c))
  BY <1>2, LenProperties
<1> QED
  BY <1>2, <1>3, <1>4, <1>5

(* r is the sound queue q with d at position k of the list *)
Put(q, r, k, d) ==
    Sound(r) /\ r.size = q.size + 1 /\ Iterated(r) = WithAt(Iterated(q), k, d)

(* or without its item number i *)
Lost(q, r, i) ==
    Sound(r) /\ r.size = q.size - 1 /\ Iterated(r) = WithoutAt(Iterated(q), i)

LEMMA TakenIsLost ==
    ASSUME NEW q, NEW c, SoundBy(q, c), NEW r, NEW i, Taken(q, c, r, i)
    PROVE  Lost(q, r, i)
<1>1. PICK e : SoundBy(r, e) /\ Listed(r, e) = WithoutAt(Listed(q, c), i)
  BY DEF Taken
<1>2. Iterated(r) = Listed(r, e) /\ Iterated(q) = Listed(q, c)
  BY <1>1, SoundChain
<1>3. r.size = q.size - 1
  BY DEF Taken
<1> QED
  BY <1>1, <1>2, <1>3 DEF Lost, Sound

LEMMA EnqueueLists ==
    ASSUME NEW q, Sound(q), NEW d \in Data, NEW p \in Priority, d \notin Queued(q)
    PROVE  \E k \in 1..Len(Iterated(q))+1 :
               /\ k >= q.size + 1 - (IF q.priorityEnabled THEN Capacity - 1 ELSE 0)
               /\ Put(q, EnqueuedItem(q, d, p), k, d)
<1>1. PICK c : SoundBy(q, c)
  BY DEF Sound
<1>2. Iterated(q) = Listed(q, c) /\ \A i \in 1..Len(Iterated(q)) : Iterated(q)[i] # d
  BY <1>1, SoundChain, SoundItems
<1> DEFINE r == EnqueuedItem(q, d, p)
           l == Listed(q, c)
<1>3. \A i \in 1..Len(l) : l[i] # d
  BY <1>2
<1>4. /\ r.size = q.size + 1
      /\ \E k \in 1..Len(l)+1 :
             /\ k >= q.size + 1 - (IF q.priorityEnabled THEN Capacity - 1 ELSE 0)
             /\ \E e : SoundBy(r, e) /\ Listed(r, e) = WithAt(l, k, d)
  BY <1>1, <1>3, EnqueuedItemEffect
<1> HIDE DEF r, l
<1>5. PICK k \in 1..Len(l)+1 :
          /\ k >= q.size + 1 - (IF q.priorityEnabled THEN Capacity - 1 ELSE 0)
          /\ \E e : SoundBy(r, e) /\ Listed(r, e) = WithAt(l, k, d)
  BY <1>4
<1>6. PICK e : SoundBy(r, e) /\ Listed(r, e) = WithAt(l, k, d)
  BY <1>5
<1>7. Iterated(r) = Listed(r, e)
  BY <1>6, SoundChain
<1>8. Put(q, r, k, d)
  BY <1>2, <1>4, <1>6, <1>7 DEF Put, Sound, l
<1>9. Iterated(q) = l
  BY <1>2 DEF l
<1> QED
  BY <1>5, <1>8, <1>9 DEF r

LEMMA ProductBound ==
    ASSUME NEW a \in Nat, NEW b \in Nat, NEW m \in Nat, a <= b
    PROVE  a * m <= b * m
<1>1. (b - a) * m >= 0 /\ b * m = a * m + (b - a) * m
  BY Z3
<1> QED
  BY <1>1

LEMMA DequeueLists ==
    ASSUME NEW q, Sound(q), NEW bucket \in Nat
    PROVE  \/ /\ DequeuedItem(q, bucket) = q /\ Served(q, bucket) = Undefined
              /\ bucket = 0 => Len(Iterated(q)) = 0
              /\ bucket > 0 => Len(Iterated(q)) <= (bucket - 1) * Capacity
           \/ \E i \in 1..Len(Iterated(q)) :
                  /\ Served(q, bucket) = Iterated(q)[i]
                  /\ bucket = 0 => i = 1
                  /\ Lost(q, DequeuedItem(q, bucket), i)
<1>1. PICK c : SoundBy(q, c)
  BY DEF Sound
<1> DEFINE r == DequeuedItem(q, bucket)
           l == Listed(q, c)
           v == Served(q, bucket)
<1>2. Iterated(q) = l
  BY <1>1, SoundChain
<1>3. \/ /\ r = q /\ v = Undefined /\ (bucket = 0 => Len(l) = 0)
         /\ bucket > 0 => Len(l) = 0 \/ Len(c) < bucket
      \/ \E i \in 1..Len(l) : v = l[i] /\ (bucket = 0 => i = 1) /\ Taken(q, c, r, i)
  BY <1>1, DequeuedItemEffect
<1>6. /\ Len(l) \in Nat /\ Len(c) \in Nat /\ Len(l) <= Len(c) * Capacity
      /\ Capacity \in Nat
  <2>1. Rings(q) /\ c \in Seq(Bucket) /\ Len(c) \in Nat /\ Len(l) \in Nat
    BY <1>1, SoundChain DEF SoundBy
  <2> QED
    BY <2>1, ListedShort, RingBufferAssumption
<1> HIDE DEF r, l, v
<1>4. CASE /\ r = q /\ v = Undefined /\ (bucket = 0 => Len(l) = 0)
           /\ bucket > 0 => Len(l) = 0 \/ Len(c) < bucket
  <2>1. ASSUME bucket > 0 PROVE Len(l) <= (bucket - 1) * Capacity
    <3> DEFINE x == Len(l)
               y == Len(c)
    <3>1. /\ x \in Nat /\ y \in Nat /\ x <= y * Capacity /\ Capacity \in Nat
          /\ x = 0 \/ y < bucket
      BY <1>4, <1>6, <2>1
    <3> HIDE DEF x, y
    <3>2. bucket - 1 \in Nat /\ (bucket - 1) * Capacity \in Nat
      BY <2>1, <3>1
    <3>3. CASE x = 0
      BY <3>2, <3>3 DEF x
    <3>4. CASE y < bucket
      <4>1. y <= bucket - 1
        BY <3>1, <3>4
      <4>2. y * Capacity <= (bucket - 1) * Capacity
        BY <3>1, <3>2, <4>1, ProductBound
      <4> QED
        BY <3>1, <3>2, <4>2 DEF x
    <3> QED
      BY <3>1, <3>3, <3>4
  <2> QED
    BY <1>2, <1>4, <2>1 DEF r, v
<1>5. CASE \E i \in 1..Len(l) : v = l[i] /\ (bucket = 0 => i = 1) /\ Taken(q, c, r, i)
  <2>1. PICK i \in 1..Len(l) : v = l[i] /\ (bucket = 0 => i = 1) /\ Taken(q, c, r, i)
    BY <1>5
  <2>2. Lost(q, r, i)
    BY <1>1, <2>1, TakenIsLost
  <2> QED
    BY <1>2, <2>1, <2>2 DEF r, v
<1> QED
  BY <1>3, <1>4, <1>5

LEMMA DeleteLists ==
    ASSUME NEW q, Sound(q), NEW d \in Data
    PROVE  \/ /\ DeletedItem(q, d) = q
              /\ \A i \in 1..Len(Iterated(q)) : Iterated(q)[i] # d
           \/ \E i \in 1..Len(Iterated(q)) :
                  Iterated(q)[i] = d /\ Lost(q, DeletedItem(q, d), i)
<1>1. PICK c : SoundBy(q, c)
  BY DEF Sound
<1> DEFINE r == DeletedItem(q, d)
           l == Listed(q, c)
<1>2. Iterated(q) = l
  BY <1>1, SoundChain
<1>3. \/ r = q /\ \A i \in 1..Len(l) : l[i] # d
      \/ \E i \in 1..Len(l) : l[i] = d /\ Taken(q, c, r, i)
  BY <1>1, DeletedItemEffect
<1> HIDE DEF r, l
<1>4. CASE r = q /\ \A i \in 1..Len(l) : l[i] # d
  BY <1>2, <1>4 DEF r
<1>5. CASE \E i \in 1..Len(l) : l[i] = d /\ Taken(q, c, r, i)
  <2>1. PICK i \in 1..Len(l) : l[i] = d /\ Taken(q, c, r, i)
    BY <1>5
  <2>2. Lost(q, r, i)
    BY <1>1, <2>1, TakenIsLost
  <2> QED
    BY <1>2, <2>1, <2>2 DEF r
<1> QED
  BY <1>3, <1>4, <1>5

LEMMA ToggleLists ==
    ASSUME NEW q, Sound(q)
    PROVE  Sound(Toggled(q)) /\ Toggled(q).size = q.size /\ Iterated(Toggled(q)) = Iterated(q)
<1>1. PICK c : SoundBy(q, c)
  BY DEF Sound
<1> DEFINE r == Toggled(q)
<1>2. r.size = q.size /\ \E e : SoundBy(r, e) /\ Listed(r, e) = Listed(q, c)
  BY <1>1, ToggledEffect
<1> HIDE DEF r
<1>3. PICK e : SoundBy(r, e) /\ Listed(r, e) = Listed(q, c)
  BY <1>2
<1>4. Iterated(r) = Listed(r, e) /\ Iterated(q) = Listed(q, c)
  BY <1>1, <1>3, SoundChain
<1> QED
  BY <1>2, <1>3, <1>4 DEF r, Sound

LEMMA ClearLists ==
    ASSUME NEW q, q.priorityEnabled \in BOOLEAN
    PROVE  Sound(Cleared(q)) /\ Cleared(q).size = 0 /\ Iterated(Cleared(q)) = <<>>
<1>1. SoundBy(Cleared(q), <<1>>) /\ Listed(Cleared(q), <<1>>) = <<>>
  BY ClearedEffect
<1>2. Iterated(Cleared(q)) = <<>>
  BY <1>1, SoundChain
<1> QED
  BY <1>1, <1>2 DEF Sound, Cleared

LEMMA TickLists ==
    ASSUME NEW q, Sound(q)
    PROVE  LET r == [q EXCEPT !.fixedQueue = [b \in Bucket |-> Aged(q.fixedQueue[b])]]
           IN  Sound(r) /\ r.size = q.size /\ Iterated(r) = Iterated(q)
<1>1. PICK c : SoundBy(q, c)
  BY DEF Sound
<1> DEFINE r == [q EXCEPT !.fixedQueue = [b \in Bucket |-> Aged(q.fixedQueue[b])]]
<1>2. SoundBy(r, c) /\ Listed(r, c) = Listed(q, c) /\ r.size = q.size
  BY <1>1, TickEffect
<1> HIDE DEF r
<1>3. Iterated(r) = Iterated(q)
  BY <1>1, <1>2, SoundChain
<1>4. Sound(r) /\ r.size = q.size /\ Iterated(r) = Iterated(q)
  BY <1>2, <1>3 DEF Sound
<1> QED
  BY <1>4 DEF r

-----------------------------------------------------------------------------
(* The invariant: some chain of buckets makes the queue sound *)

ResultTyped ==
    /\ result[1] \in {"new", "enqueue", "dequeue", "steal", "delete", "priority", "clear"}
    /\ result[2] \in Data \union {Undefined}

IInv == Sound(pq) /\ ResultTyped

LEMMA InitSound == Init => IInv /\ List!Init
<1> SUFFICES ASSUME Init PROVE IInv /\ List!Init
  OBVIOUS
<1>1. PICK enabled \in BOOLEAN : pq = Cleared([priorityEnabled |-> enabled])
  BY DEF Init
<1> DEFINE q == [priorityEnabled |-> enabled]
<1>2. q.priorityEnabled \in BOOLEAN
  OBVIOUS
<1> HIDE DEF q
<1>3. Sound(Cleared(q)) /\ Iterated(Cleared(q)) = <<>>
  BY <1>2, ClearLists
<1>4. pq = Cleared(q)
  BY <1>1 DEF q
<1>5. result = <<"new", Undefined>>
  BY DEF Init
<1>6. ResultTyped
  BY <1>5 DEF ResultTyped
<1>7. Sound(pq) /\ items = <<>>
  BY <1>3, <1>4 DEF items
<1> QED
  BY <1>5, <1>6, <1>7 DEF IInv, List!Init

(* One lemma for each action: the invariant, and what ListQueue says of it *)
LEMMA EnqueueStep ==
    ASSUME Sound(pq), NEW d \in Data, NEW p \in Priority, Enqueue(d, p)
    PROVE  /\ IInv' /\ List!Put(items, items')
           /\ pq'.size = pq.size + 1
           /\ \E i \in pq.size + 1 - (IF pq.priorityEnabled THEN Capacity - 1 ELSE 0) .. pq'.size :
                  i > 0 /\ items'[i] = result'[2]
<1> DEFINE before == Iterated(pq)
           after == Iterated(pq')
           r == EnqueuedItem(pq, d, p)
           least == pq.size + 1 - (IF pq.priorityEnabled THEN Capacity - 1 ELSE 0)
<1>1. d \notin Queued(pq) /\ pq' = r /\ result' = <<"enqueue", d>>
  BY DEF Enqueue
<1>2. /\ pq.size \in Nat /\ pq.size = Len(before) /\ before \in Seq(Data)
      /\ DOMAIN before = 1..Len(before)
      /\ Queued(pq) = {before[i] : i \in 1..Len(before)}
  BY SoundItems
<1>3. PICK k \in 1..Len(before)+1 : k >= least /\ Put(pq, r, k, d)
  BY <1>1, EnqueueLists
<1> HIDE DEF r
<1>4. Sound(pq') /\ pq'.size = pq.size + 1 /\ after = WithAt(before, k, d)
  BY <1>1, <1>3 DEF Put
<1>5. items = before /\ items' = after
  BY DEF items
<1> HIDE DEF before, after
<1>6. IInv'
  BY <1>1, <1>4 DEF IInv, ResultTyped
<1>7. \A i \in DOMAIN before : before[i] # d
  BY <1>1, <1>2
<1>8. result'[1] = "enqueue" /\ result'[2] = d
  BY <1>1
<1>9. List!WithAt(before, k, d) = WithAt(before, k, d)
  BY DEF List!WithAt, WithAt
<1>10. List!Put(before, after)
  BY <1>3, <1>4, <1>7, <1>8, <1>9 DEF List!Put
<1>11. after[k] = d
  <2>1. \A i \in 1..Len(before)+1 : WithAt(before, k, d)[i] =
            IF i < k THEN before[i] ELSE IF i = k THEN d ELSE before[i - 1]
    <3>1. before \in Seq(Data) /\ k \in 1..Len(before)+1
      BY <1>2, <1>3
    <3>2. IsWithAt(WithAt(before, k, d), before, k, d)
      BY <3>1, WithAtIs
    <3> QED
      BY <3>2 DEF IsWithAt
  <2>2. ~(k < k)
    BY <1>2, <1>3
  <2> QED
    BY <2>1, <2>2, <1>4
<1>12. k > 0 /\ k \in least..pq'.size
  <2>1. least \in Int
    BY <1>2, RingBufferAssumption
  <2> HIDE DEF least
  <2> QED
    BY <2>1, <1>2, <1>3, <1>4
<1> QED
  BY <1>4, <1>5, <1>6, <1>8, <1>10, <1>11, <1>12

LEMMA LostStep ==
    ASSUME Sound(pq), NEW i \in 1..Len(items), Lost(pq, pq', i)
    PROVE  /\ Sound(pq') /\ items' = WithoutAt(items, i) /\ pq'.size = pq.size - 1
           /\ items \in Seq(Data) /\ pq.size \in Nat /\ DOMAIN items = 1..Len(items)
           /\ items[i] \in Data
<1>1. Sound(pq') /\ items' = WithoutAt(items, i) /\ pq'.size = pq.size - 1
  BY DEF Lost, items
<1>2. items \in Seq(Data) /\ pq.size \in Nat /\ DOMAIN items = 1..Len(items)
  BY SoundItems DEF items
<1>3. items[i] \in Data
  BY <1>2, ElementOfSeq
<1> QED
  BY <1>1, <1>2, <1>3

LEMMA DequeueStep ==
    ASSUME Sound(pq), Dequeue
    PROVE  IInv' /\ List!Take(items, items') /\ ~(pq'.size > pq.size)
<1>1. pq' = DequeuedItem(pq, 0) /\ result' = <<"dequeue", Served(pq, 0)>>
  BY DEF Dequeue
<1>2. \/ DequeuedItem(pq, 0) = pq /\ Served(pq, 0) = Undefined /\ Len(Iterated(pq)) = 0
      \/ \E i \in 1..Len(Iterated(pq)) :
             Served(pq, 0) = Iterated(pq)[i] /\ i = 1 /\ Lost(pq, DequeuedItem(pq, 0), i)
  BY DequeueLists
<1>3. CASE DequeuedItem(pq, 0) = pq /\ Served(pq, 0) = Undefined /\ Len(Iterated(pq)) = 0
  <2>1. pq' = pq /\ result' = <<"dequeue", Undefined>>
    BY <1>1, <1>3
  <2>2. items = <<>> /\ items' = <<>>
    BY <2>1, <1>3, SoundItems, EmptySeq DEF items
  <2>3. pq.size \in Nat
    BY SoundItems
  <2>4. IInv'
    BY <2>1 DEF IInv, ResultTyped
  <2> QED
    BY <2>1, <2>2, <2>3, <2>4 DEF List!Take
<1>4. CASE \E i \in 1..Len(Iterated(pq)) :
               Served(pq, 0) = Iterated(pq)[i] /\ i = 1 /\ Lost(pq, DequeuedItem(pq, 0), i)
  <2>1. 1 \in 1..Len(items) /\ Served(pq, 0) = items[1] /\ Lost(pq, pq', 1)
    BY <1>1, <1>4 DEF items
  <2>2. /\ Sound(pq') /\ items' = WithoutAt(items, 1) /\ pq'.size = pq.size - 1
        /\ items \in Seq(Data) /\ pq.size \in Nat /\ items[1] \in Data
    BY <2>1, LostStep
  <2>3. items # <<>>
    BY <2>1
  <2>4. items' = Tail(items) /\ items[1] = Head(items)
    BY <2>2, <2>3, TailIsWithout
  <2>5. result' = <<"dequeue", Head(items)>>
    BY <1>1, <2>1, <2>4
  <2>6. IInv'
    BY <1>1, <2>1, <2>2 DEF IInv, ResultTyped
  <2>7. ~(pq'.size > pq.size)
    BY <2>2
  <2> QED
    BY <2>3, <2>4, <2>5, <2>6, <2>7 DEF List!Take
<1> QED
  BY <1>2, <1>3, <1>4

LEMMA DequeueLastStep ==
    ASSUME Sound(pq), DequeueLast
    PROVE  /\ IInv' /\ ~(pq'.size > pq.size)
           /\ List!Steal(items, items') \/ MissedSteal
<1> DEFINE bucket == Buckets(pq) + 1
<1>1. pq' = DequeuedItem(pq, bucket) /\ result' = <<"steal", Served(pq, bucket)>>
  BY DEF DequeueLast
<1>2. bucket \in Nat
  <2>1. pq.size \in Nat /\ Capacity \in Nat /\ Capacity > 0
    BY SoundItems, RingBufferAssumption
  <2>2. pq.size \div Capacity \in Nat
    BY <2>1
  <2> QED
    BY <2>2 DEF Buckets
<1>6. bucket > 0 /\ bucket - 1 = pq.size \div Capacity
  <2>1. pq.size \in Nat /\ Capacity \in Nat /\ Capacity > 0
    BY SoundItems, RingBufferAssumption
  <2>2. pq.size \div Capacity \in Nat
    BY <2>1
  <2> QED
    BY <2>2 DEF Buckets
<1> HIDE DEF bucket
<1>3. \/ /\ DequeuedItem(pq, bucket) = pq /\ Served(pq, bucket) = Undefined
         /\ Len(Iterated(pq)) <= (bucket - 1) * Capacity
      \/ \E i \in 1..Len(Iterated(pq)) :
             Served(pq, bucket) = Iterated(pq)[i] /\ Lost(pq, DequeuedItem(pq, bucket), i)
  BY <1>2, <1>6, DequeueLists
<1>4. CASE /\ DequeuedItem(pq, bucket) = pq /\ Served(pq, bucket) = Undefined
           /\ Len(Iterated(pq)) <= (bucket - 1) * Capacity
  <2>1. pq' = pq /\ result' = <<"steal", Undefined>>
    BY <1>1, <1>4
  <2>2. items' = items
    BY <2>1 DEF items
  <2>3. pq.size \in Nat
    BY SoundItems
  <2>4. IInv'
    BY <2>1 DEF IInv, ResultTyped
  <2>5. Len(items) % Capacity = 0
    <3> DEFINE x == Len(Iterated(pq))
    <3>1. /\ x \in Nat /\ Capacity \in Nat /\ Capacity > 0
          /\ x <= (x \div Capacity) * Capacity
      <4>1. x \in Nat /\ pq.size = x
        BY SoundItems, LenProperties
      <4>2. x <= (bucket - 1) * Capacity
        BY <1>4
      <4> QED
        BY <1>6, <4>1, <4>2, RingBufferAssumption
    <3> HIDE DEF x
    <3>2. x = Capacity * (x \div Capacity) + (x % Capacity) /\ x % Capacity \in 0..Capacity-1
          /\ x \div Capacity \in Nat
      BY <3>1
    <3>3. x % Capacity = 0
      BY <3>1, <3>2
    <3> QED
      BY <3>3 DEF x, items
  <2> QED
    BY <2>1, <2>2, <2>3, <2>4, <2>5 DEF MissedSteal
<1>5. CASE \E i \in 1..Len(Iterated(pq)) :
               Served(pq, bucket) = Iterated(pq)[i] /\ Lost(pq, DequeuedItem(pq, bucket), i)
  <2>1. PICK i \in 1..Len(items) : Served(pq, bucket) = items[i] /\ Lost(pq, pq', i)
    BY <1>1, <1>5 DEF items
  <2>2. /\ Sound(pq') /\ items' = WithoutAt(items, i) /\ pq'.size = pq.size - 1
        /\ items \in Seq(Data) /\ pq.size \in Nat /\ items[i] \in Data
        /\ DOMAIN items = 1..Len(items)
    BY <2>1, LostStep
  <2>3. IInv'
    BY <1>1, <2>1, <2>2 DEF IInv, ResultTyped
  <2>4. List!WithoutAt(items, i) = WithoutAt(items, i)
    BY DEF List!WithoutAt, WithoutAt
  <2>5. result' = <<"steal", items[i]>> /\ items' = List!WithoutAt(items, i) /\ i \in DOMAIN items
    BY <1>1, <2>1, <2>2, <2>4
  <2>6. ~(pq'.size > pq.size)
    BY <2>2
  <2> QED
    BY <2>3, <2>5, <2>6 DEF List!Steal
<1> QED
  BY <1>3, <1>4, <1>5

LEMMA DeleteStep ==
    ASSUME Sound(pq), NEW d \in Data, Delete(d)
    PROVE  IInv' /\ List!DeleteItem(items, items') /\ ~(pq'.size > pq.size)
<1>1. pq' = DeletedItem(pq, d) /\ result' = <<"delete", d>>
  BY DEF Delete
<1>2. DOMAIN items = 1..Len(items) /\ pq.size \in Nat
  BY SoundItems DEF items
<1>3. result'[1] = "delete" /\ result'[2] = d
  BY <1>1
<1>4. \/ DeletedItem(pq, d) = pq /\ \A i \in 1..Len(Iterated(pq)) : Iterated(pq)[i] # d
      \/ \E i \in 1..Len(Iterated(pq)) :
             Iterated(pq)[i] = d /\ Lost(pq, DeletedItem(pq, d), i)
  BY DeleteLists
<1>5. CASE DeletedItem(pq, d) = pq /\ \A i \in 1..Len(Iterated(pq)) : Iterated(pq)[i] # d
  <2>1. pq' = pq
    BY <1>1, <1>5
  <2>2. items' = items /\ \A i \in DOMAIN items : items[i] # d
    BY <2>1, <1>2, <1>5 DEF items
  <2>3. IInv'
    BY <2>1, <1>1 DEF IInv, ResultTyped
  <2>4. ~(pq'.size > pq.size)
    BY <2>1, <1>2
  <2> QED
    BY <2>2, <2>3, <2>4, <1>3 DEF List!DeleteItem
<1>6. CASE \E i \in 1..Len(Iterated(pq)) :
               Iterated(pq)[i] = d /\ Lost(pq, DeletedItem(pq, d), i)
  <2>1. PICK i \in 1..Len(items) : items[i] = d /\ Lost(pq, pq', i)
    BY <1>1, <1>6 DEF items
  <2>2. Sound(pq') /\ items' = WithoutAt(items, i) /\ pq'.size = pq.size - 1
    BY <2>1, LostStep
  <2>3. IInv'
    BY <1>1, <2>2 DEF IInv, ResultTyped
  <2>4. List!WithoutAt(items, i) = WithoutAt(items, i)
    BY DEF List!WithoutAt, WithoutAt
  <2>5. i \in DOMAIN items /\ items[i] = result'[2] /\ items' = List!WithoutAt(items, i)
    BY <1>2, <1>3, <2>1, <2>2, <2>4
  <2>6. ~(pq'.size > pq.size)
    BY <2>2, <1>2
  <2> QED
    BY <2>3, <2>5, <2>6, <1>3 DEF List!DeleteItem
<1> QED
  BY <1>4, <1>5, <1>6

LEMMA SetPriorityStep ==
    ASSUME Sound(pq), SetPriority
    PROVE  IInv' /\ List!SetOrder(items, items') /\ ~(pq'.size > pq.size)
<1>1. pq' = Toggled(pq) /\ result' = <<"priority", Undefined>>
  BY DEF SetPriority
<1>2. Sound(pq') /\ pq'.size = pq.size /\ items' = items
  BY <1>1, ToggleLists DEF items
<1>3. pq.size \in Nat
  BY SoundItems
<1>4. IInv'
  BY <1>1, <1>2 DEF IInv, ResultTyped
<1>5. ~(pq'.size > pq.size)
  BY <1>2, <1>3
<1> QED
  BY <1>1, <1>2, <1>4, <1>5 DEF List!SetOrder

LEMMA ClearStep ==
    ASSUME Sound(pq), Clear
    PROVE  IInv' /\ List!Clear(items, items') /\ ~(pq'.size > pq.size)
<1>1. pq' = Cleared(pq) /\ result' = <<"clear", Undefined>>
  BY DEF Clear
<1>2. pq \in PriorityQueueState /\ pq.size \in Nat
  BY SoundItems
<1>3. pq.priorityEnabled \in BOOLEAN
  BY <1>2, StateFields
<1>4. Sound(pq') /\ pq'.size = 0 /\ items' = <<>>
  BY <1>1, <1>3, ClearLists DEF items
<1>5. IInv'
  BY <1>1, <1>4 DEF IInv, ResultTyped
<1>6. ~(pq'.size > pq.size)
  BY <1>2, <1>4
<1> QED
  BY <1>1, <1>4, <1>5, <1>6 DEF List!Clear

LEMMA TickStep ==
    ASSUME IInv, Tick
    PROVE  IInv' /\ UNCHANGED <<items, result>> /\ ~(pq'.size > pq.size)
<1>1. /\ pq' = [pq EXCEPT !.fixedQueue = [b \in Bucket |-> Aged(pq.fixedQueue[b])]]
      /\ result' = result
  BY DEF Tick
<1>2. Sound(pq)
  BY DEF IInv
<1>3. Sound(pq') /\ pq'.size = pq.size /\ items' = items
  BY <1>1, <1>2, TickLists DEF items
<1>4. pq.size \in Nat
  BY <1>2, SoundItems
<1>5. IInv'
  BY <1>1, <1>3 DEF IInv, ResultTyped
<1>6. ~(pq'.size > pq.size)
  BY <1>3, <1>4
<1> QED
  BY <1>1, <1>3, <1>5, <1>6

LEMMA OperationIsStep ==
    ASSUME NEW before, before = items, NEW after, after = items', List!Operation(before, after)
    PROVE  List!Next
BY DEF List!Next

(* The step of the invariant, of the list and of the overtaking *)
LEMMA NextStep ==
    ASSUME IInv, [Next]_vars
    PROVE  /\ IInv' /\ [List!Next \/ MissedSteal]_<<items, result>>
           /\ \/ ~(pq'.size > pq.size)
              \/ \E i \in pq.size + 1 - (IF pq.priorityEnabled THEN Capacity - 1 ELSE 0) .. pq'.size :
                     i > 0 /\ items'[i] = result'[2]
<1>0. Sound(pq)
  BY DEF IInv
<1> DEFINE Overtakes ==
               \/ ~(pq'.size > pq.size)
               \/ \E i \in pq.size + 1 - (IF pq.priorityEnabled THEN Capacity - 1 ELSE 0) .. pq'.size :
                      i > 0 /\ items'[i] = result'[2]
           Good == /\ IInv' /\ Overtakes
                   /\ \/ List!Operation(items, items') \/ MissedSteal
                      \/ UNCHANGED <<items, result>>
<1>1. ASSUME NEW d \in Data, NEW p \in Priority, Enqueue(d, p) PROVE Good
  BY <1>0, <1>1, EnqueueStep DEF List!Operation
<1>2. ASSUME Dequeue PROVE Good
  BY <1>0, <1>2, DequeueStep DEF List!Operation
<1>3. ASSUME DequeueLast PROVE Good
  BY <1>0, <1>3, DequeueLastStep DEF List!Operation
<1>4. ASSUME NEW d \in Data, Delete(d) PROVE Good
  BY <1>0, <1>4, DeleteStep DEF List!Operation
<1>5. ASSUME SetPriority PROVE Good
  BY <1>0, <1>5, SetPriorityStep DEF List!Operation
<1>6. ASSUME Clear PROVE Good
  BY <1>0, <1>6, ClearStep DEF List!Operation
<1>7. ASSUME Tick PROVE Good
  BY <1>7, TickStep
<1>8. ASSUME UNCHANGED vars PROVE Good
  <2>1. pq' = pq /\ result' = result
    BY <1>8 DEF vars
  <2>2. IInv' /\ UNCHANGED <<items, result>>
    BY <2>1 DEF IInv, ResultTyped, items
  <2>3. ~(pq'.size > pq.size)
    BY <2>1, <1>0, SoundItems
  <2> QED
    BY <2>2, <2>3
<1>9. Good
  <2> HIDE DEF Good
  <2> QED
    BY <1>1, <1>2, <1>3, <1>4, <1>5, <1>6, <1>7, <1>8 DEF Next
<1>10. List!Operation(items, items') => List!Next
  BY OperationIsStep
<1> QED
  BY <1>9, <1>10

LEMMA Invariance == Spec => []IInv
<1>1. Init => IInv
  BY InitSound
<1>2. IInv /\ [Next]_vars => IInv'
  BY NextStep
<1> QED
  BY <1>1, <1>2, PTL DEF Spec

(* However buckets are emptied and unlinked anywhere in the chain, the      *)
(* queue's size is the number of items one reaches from the tail, the chain *)
(* ends at the head, and no emptied bucket stays in it but the only one.    *)
THEOREM ChainSound == Spec => []ChainIsSound
<1>1. IInv => ChainIsSound
  <2> SUFFICES ASSUME IInv PROVE ChainIsSound
    OBVIOUS
  <2>1. PICK c : SoundBy(pq, c)
    BY DEF IInv, Sound
  <2>2. /\ Chain(pq) = c /\ Iterated(pq) = Listed(pq, c)
        /\ Linked(pq) = {c[k] : k \in 1..Len(c)} /\ pq \in PriorityQueueState
    BY <2>1, SoundChain
  <2>3. TypeOK
    BY <2>2 DEF IInv, ResultTyped, TypeOK
  <2>4. SizeIsEntries
    BY <2>1, <2>2 DEF SoundBy, SizeIsEntries
  <2>5. HeadEndsChain
    BY <2>1, <2>2 DEF SoundBy, IsChain, HeadEndsChain
  <2>6. NoEmptyBucket
    BY <2>1, <2>2 DEF SoundBy, NoEmptyBucket
  <2> QED
    BY <2>3, <2>4, <2>5, <2>6 DEF ChainIsSound
<1> QED
  BY <1>1, Invariance, PTL

(* Without priority an item enters at the end; with priority it overtakes   *)
(* at most the other entries of the head, fewer than one bucket holds.      *)
THEOREM OneBucketOvertaken == Spec => OvertakesOneBucketAtMost
<1> DEFINE Step ==
        pq'.size > pq.size =>
            \E i \in pq.size + 1 - (IF pq.priorityEnabled THEN Capacity - 1 ELSE 0) .. pq'.size :
                i > 0 /\ items'[i] = result'[2]
<1>1. IInv /\ [Next]_vars => Step
  BY NextStep
<1>2. OvertakesOneBucketAtMost <=> [][Step]_vars
  BY DEF OvertakesOneBucketAtMost
<1> HIDE DEF Step
<1> QED
  BY <1>1, <1>2, Invariance, PTL DEF Spec

(* The linked buckets are one list: dequeue takes its first item and finds  *)
(* none only if there is none, delete and the thief take the one item they  *)
(* return, the thief gets one unless the items just fill a number of        *)
(* buckets, and turning priority on or off keeps all items in their order.  *)
THEOREM ImplementsList == Spec => ListSpec
<1>1. Init => List!Init
  BY InitSound
<1>2. IInv /\ [Next]_vars => [List!Next \/ MissedSteal]_<<items, result>>
  BY NextStep
<1> QED
  BY <1>1, <1>2, Invariance, PTL DEF Spec, ListSpec
=============================================================================
