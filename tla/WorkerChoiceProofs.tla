------------------------- MODULE WorkerChoiceProofs -------------------------
(***************************************************************************)
(* Theorems about WorkerChoice, for every number of workers, set of task   *)
(* functions, strategies and options: the keys the strategies keep denote  *)
(* nodes, turns are taken and end, a ready node is found, and averages and *)
(* medians are those of the window of the last times measured.             *)
(***************************************************************************)
EXTENDS WorkerChoice, SequenceTheorems, FunctionTheorems, FiniteSetTheorems, NaturalsInduction,
        WellFoundedInduction, TLAPS

-----------------------------------------------------------------------------
(* A circular buffer is the window of the last BufferSize numbers put in    *)
(* it, whatever its size.                                                   *)
LEMMA FollowingIndex ==
    ASSUME NEW i \in Index
    PROVE  Following(i) \in Index
BY BufferAssumption DEF Following, Index

LEMMA AfterIndex ==
    ASSUME NEW i \in Index, NEW n \in 0..BufferSize
    PROVE  After(i, n) \in Index
BY BufferAssumption DEF After, Index

LEMMA AfterWhole ==
    ASSUME NEW i \in Index
    PROVE  After(i, BufferSize) = i
<1>1. i \in Int /\ 0 <= i /\ BufferSize \in Int
  BY BufferAssumption DEF Index
<1> QED
  BY <1>1 DEF After

LEMMA FollowingAfter ==
    ASSUME NEW i \in Index, NEW n \in 0..BufferSize-1
    PROVE  Following(After(i, n)) = After(i, n + 1)
<1>1. i \in Int /\ 0 <= i /\ i < BufferSize /\ BufferSize \in Int
  BY BufferAssumption DEF Index
<1>2. n \in Int /\ 0 <= n /\ n < BufferSize
  BY BufferAssumption
<1> QED
  BY <1>1, <1>2 DEF After, Following

(* The constructor of circular-buffer.ts makes an empty window *)
THEOREM EmptyBufferIsWindow == BufferInv(EmptyBuffer) /\ ToArray(EmptyBuffer) = <<>>
<1>1. EmptyBuffer \in Buffer
  BY BufferAssumption DEF EmptyBuffer, Buffer, Index
<1>2. EmptyBuffer.writeIdx = After(EmptyBuffer.readIdx, EmptyBuffer.size)
  BY BufferAssumption DEF EmptyBuffer, After
<1>3. ToArray(EmptyBuffer) = <<>>
  BY DEF ToArray, EmptyBuffer
<1> QED
  BY <1>1, <1>2, <1>3 DEF BufferInv

(* put keeps the two indexes as far apart as there are numbers *)
THEOREM PutKeepsBufferInv ==
    ASSUME NEW b, BufferInv(b), NEW number \in Number
    PROVE  BufferInv(Put(b, number))
<1> DEFINE c == Put(b, number)
<1>1. /\ b.readIdx \in Index /\ b.writeIdx \in Index
      /\ b.items \in [Index -> Int] /\ b.size \in 0..BufferSize
  BY DEF BufferInv, Buffer
<1>2. c = [readIdx |-> IF Full(b) THEN Following(b.readIdx) ELSE b.readIdx,
           writeIdx |-> Following(b.writeIdx),
           items |-> [b.items EXCEPT ![b.writeIdx] = Float32[number]],
           size |-> IF Full(b) THEN b.size ELSE b.size + 1]
  BY DEF Put
<1>3. c.size \in 0..BufferSize
  BY <1>1, <1>2, BufferAssumption DEF Full
<1>4. c \in Buffer
  <2>1. Float32[number] \in Int
    BY BufferAssumption
  <2> QED
    BY <1>1, <1>2, <1>3, <2>1, FollowingIndex DEF Buffer
<1>5. c.writeIdx = After(c.readIdx, c.size)
  <2>1. b.writeIdx = After(b.readIdx, b.size)
    BY DEF BufferInv
  <2>2. CASE Full(b)
    <3>1. b.writeIdx = b.readIdx
      BY <2>1, <2>2, <1>1, BufferAssumption DEF Full, After, Index
    <3>2. After(Following(b.readIdx), BufferSize) = Following(b.readIdx)
      BY <1>1, FollowingIndex, AfterWhole
    <3> QED
      BY <1>2, <2>2, <3>1, <3>2 DEF Full
  <2>3. CASE ~Full(b)
    <3>1. b.size \in 0..BufferSize-1
      BY <2>3, <1>1, BufferAssumption DEF Full
    <3>2. Following(After(b.readIdx, b.size)) = After(b.readIdx, b.size + 1)
      BY <3>1, <1>1, FollowingAfter
    <3> QED
      BY <1>2, <2>1, <2>3, <3>2
  <2> QED
    BY <2>2, <2>3
<1> QED
  BY <1>4, <1>5 DEF BufferInv

LEMMA AfterDistinct ==
    ASSUME NEW i \in Index, NEW n \in 0..BufferSize-1, NEW m \in 0..BufferSize-1,
           n # m
    PROVE  After(i, n) # After(i, m)
<1>1. i \in Int /\ 0 <= i /\ i < BufferSize /\ BufferSize \in Int
  BY BufferAssumption DEF Index
<1>2. n \in Int /\ m \in Int /\ 0 <= n /\ n < BufferSize /\ 0 <= m /\ m < BufferSize
  BY BufferAssumption
<1> QED
  BY <1>1, <1>2 DEF After

LEMMA ToArrayElements ==
    ASSUME NEW b, BufferInv(b)
    PROVE  /\ ToArray(b) \in Seq(Int)
           /\ Len(ToArray(b)) = b.size
           /\ \A n \in 1..b.size : ToArray(b)[n] = b.items[After(b.readIdx, n - 1)]
<1>1. b.readIdx \in Index /\ b.items \in [Index -> Int] /\ b.size \in 0..BufferSize
  BY DEF BufferInv, Buffer
<1>2. b.size \in Nat
  BY <1>1, BufferAssumption
<1>3. \A n \in 1..b.size : b.items[After(b.readIdx, n - 1)] \in Int
  <2> SUFFICES ASSUME NEW n \in 1..b.size
               PROVE  b.items[After(b.readIdx, n - 1)] \in Int
    OBVIOUS
  <2>1. n - 1 \in 0..BufferSize
    BY <1>1, BufferAssumption
  <2> QED
    BY <1>1, <2>1, AfterIndex
<1> QED
  BY <1>2, <1>3 DEF ToArray

LEMMA WindowAppendElements ==
    ASSUME NEW w \in Seq(Int), Len(w) \in 0..BufferSize, NEW number \in Number
    PROVE  LET full == Len(w) = BufferSize
               v == WindowAppend(w, number)
           IN  /\ v \in Seq(Int)
               /\ Len(v) = IF full THEN BufferSize ELSE Len(w) + 1
               /\ \A n \in 1..Len(v) :
                      v[n] = IF n = Len(v) THEN Float32[number]
                             ELSE IF full THEN w[n + 1] ELSE w[n]
<1> DEFINE v == WindowAppend(w, number)
           x == Float32[number]
<1> x \in Int
  BY BufferAssumption
<1>1. CASE Len(w) = BufferSize
  <2>1. w # <<>>
    BY <1>1, BufferAssumption
  <2>2. /\ Tail(w) \in Seq(Int) /\ Len(Tail(w)) = BufferSize - 1
        /\ \A n \in 1..Len(Tail(w)) : Tail(w)[n] = w[n + 1]
    BY <1>1, <2>1
  <2>3. v = Append(Tail(w), x)
    BY <1>1 DEF WindowAppend
  <2>4. /\ v \in Seq(Int) /\ Len(v) = BufferSize
        /\ \A n \in 1..BufferSize-1 : v[n] = Tail(w)[n]
        /\ v[BufferSize] = x
    BY <2>2, <2>3, AppendProperties, BufferAssumption
  <2> QED
    BY <1>1, <2>2, <2>4, BufferAssumption
<1>2. CASE Len(w) # BufferSize
  <2>1. v = Append(w, x)
    BY <1>2 DEF WindowAppend
  <2>2. /\ v \in Seq(Int) /\ Len(v) = Len(w) + 1
        /\ \A n \in 1..Len(w) : v[n] = w[n]
        /\ v[Len(w) + 1] = x
    BY <2>1, AppendProperties
  <2> HIDE DEF v, x
  <2>3. \A n \in 1..Len(v) : n # Len(v) => n \in 1..Len(w)
    BY <2>2
  <2>4. /\ v \in Seq(Int) /\ Len(v) = Len(w) + 1
        /\ \A n \in 1..Len(v) : v[n] = IF n = Len(v) THEN x ELSE w[n]
    BY <2>2, <2>3
  <2> QED
    BY <1>2, <2>4 DEF v, x
<1> QED
  BY <1>1, <1>2

(* What toArray returns after a put: the window, without its oldest number *)
(* when it was full, and the number put, rounded, at its end               *)
THEOREM PutAppendsToWindow ==
    ASSUME NEW b, BufferInv(b), NEW number \in Number
    PROVE  ToArray(Put(b, number)) = WindowAppend(ToArray(b), number)
<1> DEFINE c == Put(b, number)
           w == ToArray(b)
           v == WindowAppend(w, number)
<1>1. /\ b.readIdx \in Index /\ b.writeIdx \in Index
      /\ b.items \in [Index -> Int] /\ b.size \in 0..BufferSize
      /\ b.writeIdx = After(b.readIdx, b.size)
  BY DEF BufferInv, Buffer
<1>2. /\ c.readIdx = (IF Full(b) THEN Following(b.readIdx) ELSE b.readIdx)
      /\ c.items = [b.items EXCEPT ![b.writeIdx] = Float32[number]]
      /\ c.size = (IF Full(b) THEN b.size ELSE b.size + 1)
  BY DEF Put
<1>3. BufferInv(c)
  BY PutKeepsBufferInv
<1>4. /\ w \in Seq(Int) /\ Len(w) = b.size
      /\ \A n \in 1..b.size : w[n] = b.items[After(b.readIdx, n - 1)]
  BY ToArrayElements
<1>5. /\ ToArray(c) \in Seq(Int) /\ Len(ToArray(c)) = c.size
      /\ \A n \in 1..c.size : ToArray(c)[n] = c.items[After(c.readIdx, n - 1)]
  BY <1>3, ToArrayElements
<1>6. /\ v \in Seq(Int)
      /\ Len(v) = IF Full(b) THEN BufferSize ELSE b.size + 1
      /\ \A n \in 1..Len(v) : v[n] = IF n = Len(v) THEN Float32[number]
                                      ELSE IF Full(b) THEN w[n + 1] ELSE w[n]
  BY <1>1, <1>4, WindowAppendElements DEF Full
<1>7. Len(v) = c.size
  BY <1>2, <1>6 DEF Full
<1>8. ASSUME NEW n \in 1..c.size
      PROVE  c.items[After(c.readIdx, n - 1)] = v[n]
  <2>1. CASE Full(b)
    <3>1. b.size = BufferSize /\ b.writeIdx = b.readIdx /\ c.size = BufferSize
      BY <1>1, <1>2, <2>1, BufferAssumption DEF Full, After, Index
    <3>2. c.readIdx = Following(b.readIdx)
      BY <1>2, <2>1
    <3>3. CASE n = BufferSize
      <4>1. After(c.readIdx, n - 1) = b.readIdx
        BY <1>1, <3>2, <3>3, BufferAssumption DEF After, Following, Index
      <4> QED
        BY <1>1, <1>2, <1>6, <1>7, <3>1, <3>3, <4>1
    <3>4. CASE n # BufferSize
      <4>1. n + 1 \in 1..b.size /\ n + 1 - 1 = n
        BY <3>1, <3>4, BufferAssumption
      <4>2. After(c.readIdx, n - 1) = After(b.readIdx, n)
        BY <1>1, <3>1, <3>2, <3>4, BufferAssumption DEF After, Following, Index
      <4>3. After(b.readIdx, n) \in Index /\ After(b.readIdx, n) # b.readIdx
        BY <1>1, <3>1, <3>4, BufferAssumption DEF After, Index
      <4>4. c.items[After(b.readIdx, n)] = b.items[After(b.readIdx, n)]
        BY <1>1, <1>2, <3>1, <4>3
      <4>5. v[n] = w[n + 1]
        BY <1>6, <1>7, <2>1, <3>1, <3>4
      <4>6. w[n + 1] = b.items[After(b.readIdx, n)]
        BY <1>4, <4>1
      <4> QED
        BY <4>2, <4>4, <4>5, <4>6
    <3> QED
      BY <3>3, <3>4
  <2>2. CASE ~Full(b)
    <3>1. /\ b.size \in 0..BufferSize-1 /\ c.size = b.size + 1
          /\ c.readIdx = b.readIdx
      BY <1>1, <1>2, <2>2, BufferAssumption DEF Full
    <3>2. After(b.readIdx, n - 1) \in Index
      <4>1. n - 1 \in 0..BufferSize
        BY <3>1, BufferAssumption
      <4> QED
        BY <1>1, <4>1, AfterIndex
    <3>3. CASE n = c.size
      <4>1. n - 1 = b.size
        BY <3>1, <3>3
      <4> QED
        BY <1>1, <1>2, <1>6, <1>7, <3>1, <3>2, <3>3, <4>1
    <3>4. CASE n # c.size
      <4>1. n \in 1..b.size
        BY <3>1, <3>4
      <4>2. After(b.readIdx, n - 1) # b.writeIdx
        <5>1. n - 1 \in 0..BufferSize-1 /\ n - 1 # b.size
          BY <3>1, <4>1, BufferAssumption
        <5> QED
          BY <1>1, <3>1, <5>1, AfterDistinct
      <4>3. c.items[After(b.readIdx, n - 1)] = b.items[After(b.readIdx, n - 1)]
        BY <1>1, <1>2, <3>2, <4>2
      <4>4. v[n] = w[n]
        BY <1>6, <1>7, <2>2, <3>4
      <4> QED
        BY <1>4, <3>1, <4>1, <4>3, <4>4
    <3> QED
      BY <3>3, <3>4
  <2> QED
    BY <2>1, <2>2
<1>9. \A n \in 1..Len(ToArray(c)) : ToArray(c)[n] = v[n]
  BY <1>5, <1>8
<1> QED
  BY <1>5, <1>6, <1>7, <1>9, SeqEqual

-----------------------------------------------------------------------------
(* Induction on the natural numbers, and loops that run a number of turns *)

(* A nonempty set of natural numbers has a least element *)
LEMMA LeastNatural ==
    ASSUME NEW T, T \subseteq Nat, T # {}
    PROVE  \E x \in T : \A y \in T : x <= y
<1> DEFINE Less == {ss \in Nat \X Nat : ss[1] < ss[2]}
<1>1. IsWellFoundedOn(Less, Nat)
  BY NatLessThanWellFounded DEF OpToRel
<1>2. \E x \in T : \A y \in T : ~ (<<y, x>> \in Less)
  <2> HIDE DEF Less
  <2> QED
    BY <1>1, WFMin
<1>3. \A x, y \in T : ~ (<<y, x>> \in Less) => x <= y
  OBVIOUS
<1> QED
  BY <1>2, <1>3

LEMMA SetInduction ==
    ASSUME NEW n \in Nat, NEW T, 0 \in T, \A i \in 1..n : i - 1 \in T => i \in T
    PROVE  \A i \in 0..n : i \in T
<1> DEFINE Bad == {i \in 0..n : i \notin T}
<1>1. ASSUME Bad # {} PROVE FALSE
  <2>1. PICK i \in Bad : \A j \in Bad : i <= j
    <3>1. Bad \subseteq Nat
      OBVIOUS
    <3> QED
      BY <1>1, <3>1, LeastNatural
  <2>2. i \in 1..n /\ i - 1 \in 0..n /\ ~(i <= i - 1)
    OBVIOUS
  <2>3. i - 1 \in T
    BY <2>1, <2>2
  <2> QED
    BY <2>2, <2>3
<1> QED
  BY <1>1

(* f is what a loop has after each of n turns, all of it in U *)
Turns(f, U, base, step, n) ==
    /\ f \in [0..n -> U]
    /\ f[0] = base
    /\ \A i \in 1..n : f[i] = step[<<f[i - 1], i>>]

LEMMA TurnsExist ==
    ASSUME NEW U, NEW base \in U, NEW step, NEW n \in Nat,
           \A x \in U, i \in 1..n : step[<<x, i>>] \in U
    PROVE  \E f : Turns(f, U, base, step, n)
<1> DEFINE Has(m) == \E f : Turns(f, U, base, step, m)
           T == {m \in 0..n : Has(m)}
<1>1. 0 \in T
  <2> DEFINE f == [i \in 0..0 |-> base]
  <2>1. Turns(f, U, base, step, 0)
    BY DEF Turns
  <2> HIDE DEF f
  <2> QED
    BY <2>1
<1>2. ASSUME NEW m \in 1..n, m - 1 \in T
      PROVE  m \in T
  <2>1. PICK f : Turns(f, U, base, step, m - 1)
    BY <1>2
  <2> DEFINE g == [i \in 0..m |-> IF i = m THEN step[<<f[m - 1], m>>] ELSE f[i]]
  <2>2. /\ f \in [0..(m - 1) -> U] /\ f[0] = base
        /\ \A i \in 1..(m - 1) : f[i] = step[<<f[i - 1], i>>]
    BY <2>1 DEF Turns
  <2>3. f[m - 1] \in U
    BY <2>2
  <2>4. g \in [0..m -> U] /\ g[0] = base
    BY <2>2, <2>3
  <2>5. ASSUME NEW i \in 1..m PROVE g[i] = step[<<g[i - 1], i>>]
    <3>1. g[i - 1] = f[i - 1]
      OBVIOUS
    <3>2. CASE i = m
      <4>1. g[m] = step[<<f[m - 1], m>>]
        OBVIOUS
      <4> QED
        BY <3>1, <3>2, <4>1
    <3>3. CASE i # m
      <4>1. i \in 1..(m - 1)
        BY <3>3
      <4>2. g[i] = f[i]
        BY <3>3
      <4> QED
        BY <2>2, <3>1, <4>1, <4>2
    <3> QED
      BY <3>2, <3>3
  <2>6. Turns(g, U, base, step, m)
    <3> HIDE DEF g
    <3> QED
      BY <2>4, <2>5 DEF Turns
  <2> HIDE DEF g
  <2> QED
    BY <2>6
<1>3. \A m \in 0..n : m \in T
  <2> HIDE DEF T
  <2> QED
    BY <1>1, <1>2, SetInduction
<1> QED
  BY <1>3

-----------------------------------------------------------------------------
(* Statistics of a data set *)

LEMMA MinimumFound ==
    ASSUME NEW T, T \subseteq Nat, T # {}
    PROVE  /\ Minimum(T) \in T /\ Minimum(T) \in Nat
           /\ \A m \in T : Minimum(T) <= m
<1>1. \E x \in T : \A y \in T : x <= y
  BY LeastNatural
<1>2. Minimum(T) = CHOOSE x \in T : \A y \in T : x <= y
  BY DEF Minimum
<1> QED
  BY <1>1, <1>2

LEMMA DivisionNat ==
    ASSUME NEW s \in Nat, NEW n \in Nat \ {0}
    PROVE  s \div n \in Nat
<1> DEFINE q == s \div n
<1>1. q \in Int /\ n * q <= s /\ s < n * q + n
  BY Z3
<1> HIDE DEF q
<1>2. ASSUME q < 0 PROVE FALSE
  <2>1. n * (q + 1) = n * q + n
    BY <1>1
  <2>2. n * (q + 1) <= 0
    BY <1>1, <1>2
  <2> QED
    BY <1>1, <2>1, <2>2
<1> QED
  BY <1>1, <1>2 DEF q

LEMMA AverageNat ==
    ASSUME NEW d \in Seq(Nat), d # <<>>
    PROVE  Average(d) \in Nat
<1> DEFINE n == Len(d)
           sum[i \in 0..n] == IF i = 0 THEN 0 ELSE sum[i - 1] + d[i]
           step == [e \in Nat \X (1..n) |-> e[1] + d[e[2]]]
           T == {i \in 0..n : sum[i] \in Nat}
<1>1. Average(d) = sum[n] \div n
  BY DEF Average
<1>2. n \in Nat \ {0} /\ \A i \in 1..n : d[i] \in Nat
  BY EmptySeq, ElementOfSeq
<1> HIDE DEF n
<1>3. \A x \in Nat, i \in 1..n : step[<<x, i>>] = x + d[i] /\ step[<<x, i>>] \in Nat
  BY <1>2
<1> HIDE DEF step
<1>4. PICK f : Turns(f, Nat, 0, step, n)
  BY <1>2, <1>3, TurnsExist
<1>5. f \in [0..n -> Nat] /\ f[0] = 0 /\ \A i \in 1..n : f[i] = step[<<f[i - 1], i>>]
  BY <1>4 DEF Turns
<1>6. f = [i \in 0..n |-> IF i = 0 THEN 0 ELSE f[i - 1] + d[i]]
  <2>1. ASSUME NEW i \in 1..n PROVE f[i] = f[i - 1] + d[i]
    <3>1. i - 1 \in 0..n
      BY <1>2
    <3>2. f[i - 1] \in Nat
      BY <1>5, <3>1
    <3> QED
      BY <1>3, <1>5, <3>2
  <2> QED
    BY <1>5, <2>1
<1>7. sum = [i \in 0..n |-> IF i = 0 THEN 0 ELSE sum[i - 1] + d[i]]
  BY <1>6
<1> HIDE DEF sum
<1>8. 0 \in T
  BY <1>2, <1>7
<1>9. ASSUME NEW i \in 1..n, i - 1 \in T PROVE i \in T
  <2>1. sum[i] = sum[i - 1] + d[i]
    BY <1>2, <1>7
  <2>2. sum[i - 1] \in Nat /\ d[i] \in Nat /\ i \in 0..n
    BY <1>2, <1>9
  <2> QED
    BY <2>1, <2>2
<1>10. n \in T
  <2>1. \A i \in 0..n : i \in T
    <3> HIDE DEF T
    <3> QED
      BY <1>2, <1>8, <1>9, SetInduction
  <2> QED
    BY <1>2, <2>1
<1> QED
  BY <1>1, <1>2, <1>10, DivisionNat

(* No number of a data set is above some number *)
LEMMA DataBounded ==
    ASSUME NEW d \in Seq(Nat)
    PROVE  \E hi \in Nat : \A i \in 1..Len(d) : d[i] <= hi
<1> DEFINE n == Len(d)
           T == {k \in 0..n : \E hi \in Nat : \A i \in 1..k : d[i] <= hi}
<1>1. n \in Nat /\ \A i \in 1..n : d[i] \in Nat
  BY LenProperties, ElementOfSeq
<1> HIDE DEF n
<1>2. 0 \in T
  BY <1>1
<1>3. ASSUME NEW k \in 1..n, k - 1 \in T PROVE k \in T
  <2>1. PICK hi \in Nat : \A i \in 1..(k - 1) : d[i] <= hi
    BY <1>3
  <2>2. d[k] \in Nat /\ hi + d[k] \in Nat /\ k \in 0..n
    BY <1>1
  <2>3. \A i \in 1..k : d[i] <= hi + d[k]
    BY <1>1, <2>1, <2>2
  <2> QED
    BY <2>2, <2>3
<1>4. n \in T
  <2> HIDE DEF T
  <2>1. \A k \in 0..n : k \in T
    BY <1>1, <1>2, <1>3, SetInduction
  <2> QED
    BY <1>1, <2>1
<1> QED
  BY <1>4 DEF n

(* How many numbers of a data set are at most v *)
Below(d, v) == {i \in DOMAIN d : d[i] <= v}

LEMMA RankedFound ==
    ASSUME NEW d \in Seq(Nat), NEW rank \in 1..Len(d)
    PROVE  \E i \in 1..Len(d) : Ranked(d, rank) = d[i]
<1> DEFINE n == Len(d)
           T == {v \in Nat : Cardinality(Below(d, v)) >= rank}
           Strictly(v) == {i \in DOMAIN d : d[i] < v}
<1>1. n \in Nat /\ DOMAIN d = 1..n /\ \A i \in 1..n : d[i] \in Nat
  BY LenProperties, ElementOfSeq
<1>2. IsFiniteSet(1..n) /\ Cardinality(1..n) = n
  <2>1. 1 \in Int /\ n \in Int
    BY <1>1
  <2>2. Cardinality(1..n) = IF 1 > n THEN 0 ELSE n - 1 + 1
    BY <2>1, FS_Interval
  <2>3. IsFiniteSet(1..n)
    BY <2>1, FS_Interval
  <2> HIDE DEF n
  <2> QED
    BY <1>1, <2>2, <2>3
<1> PICK hi \in Nat : \A i \in 1..Len(d) : d[i] <= hi
  BY DataBounded
<1>3. hi \in T
  <2>1. Below(d, hi) = 1..n
    BY <1>1 DEF Below
  <2> QED
    BY <1>1, <1>2, <2>1
<1>4. PICK v \in T : \A w \in T : v <= w
  <2>1. T \subseteq Nat /\ T # {}
    BY <1>3
  <2> HIDE DEF T
  <2> QED
    BY <2>1, LeastNatural
<1>5. v \in Nat /\ Cardinality(Below(d, v)) >= rank
  OBVIOUS
<1>6. Strictly(v) \in SUBSET (1..n) /\ Below(d, v) \in SUBSET (1..n)
  BY <1>1 DEF Below
<1>7. Cardinality(Strictly(v)) < rank
  <2>1. CASE v = 0
    <3>1. Strictly(v) = {}
      BY <1>1, <2>1
    <3>2. Cardinality(Strictly(v)) = 0
      BY <3>1, FS_EmptySet
    <3> QED
      BY <1>1, <3>2
  <2>2. CASE v # 0
    <3>1. Strictly(v) = Below(d, v - 1)
      BY <1>1, <1>5, <2>2 DEF Below
    <3>2. v - 1 \in Nat /\ v - 1 \notin T
      BY <1>4, <1>5, <2>2
    <3>3. IsFiniteSet(Strictly(v))
      BY <1>2, <1>6, FS_Subset
    <3>4. Cardinality(Strictly(v)) \in Nat
      BY <3>3, FS_CardinalityType
    <3>5. ~(Cardinality(Below(d, v - 1)) >= rank)
      BY <3>2
    <3> HIDE DEF Strictly
    <3> QED
      BY <1>1, <3>1, <3>4, <3>5
  <2> QED
    BY <2>1, <2>2
<1>8. v \in Range(d)
  <2>1. ASSUME v \notin Range(d) PROVE FALSE
    <3>1. Strictly(v) = Below(d, v)
      <4>1. \A i \in 1..n : d[i] # v
        BY <1>1, <2>1 DEF Range
      <4> QED
        BY <1>1, <1>5, <4>1 DEF Below
    <3>2. IsFiniteSet(Strictly(v))
      BY <1>2, <1>6, FS_Subset
    <3>3. Cardinality(Strictly(v)) \in Nat
      BY <3>2, FS_CardinalityType
    <3> HIDE DEF Strictly
    <3> QED
      BY <1>1, <1>5, <1>7, <3>1, <3>3
  <2> QED
    BY <2>1
<1>9. Ranked(d, rank) \in Range(d)
  BY <1>5, <1>7, <1>8 DEF Ranked, Below
<1> QED
  BY <1>1, <1>9 DEF Range

LEMMA MedianNat ==
    ASSUME NEW d \in Seq(Nat), d # <<>>
    PROVE  Median(d) \in Nat
<1> DEFINE n == Len(d)
           a == Ranked(d, (n + 1) \div 2)
           b == Ranked(d, n \div 2 + 1)
<1>1. n \in Nat \ {0} /\ \A i \in 1..n : d[i] \in Nat
  BY EmptySeq, ElementOfSeq
<1>2. (n + 1) \div 2 \in 1..n /\ n \div 2 + 1 \in 1..n
  <2> HIDE DEF n
  <2> QED
    BY <1>1
<1>3. a \in Nat
  <2>1. \E i \in 1..Len(d) : a = d[i]
    BY <1>2, RankedFound
  <2> HIDE DEF a
  <2> QED
    BY <1>1, <2>1
<1>4. b \in Nat
  <2>1. \E i \in 1..Len(d) : b = d[i]
    BY <1>2, RankedFound
  <2> HIDE DEF b
  <2> QED
    BY <1>1, <2>1
<1>5. Median(d) = (a + b) \div 2
  BY DEF Median
<1> HIDE DEF a, b
<1> QED
  BY <1>3, <1>4, <1>5

-----------------------------------------------------------------------------
(* Statistics of the run times measured: the history is a window of numbers *)

StatisticsInv(r) ==
    r \in Statistics /\ BufferInv(r.history) /\ ToArray(r.history) \in Seq(Nat)

LEMMA NoStatisticsInv == StatisticsInv(NoStatistics)
<1>1. BufferInv(EmptyBuffer) /\ ToArray(EmptyBuffer) = <<>> /\ <<>> \in Seq(Nat)
  BY EmptyBufferIsWindow
<1>2. EmptyBuffer \in Buffer
  BY <1>1 DEF BufferInv
<1> QED
  BY <1>1, <1>2 DEF StatisticsInv, NoStatistics, Statistics, Measure, Undefined

LEMMA InfinityNat == Infinity \in Nat
BY SMT DEF Infinity

LEMMA InitializedInv ==
    ASSUME NEW r, StatisticsInv(r), NEW required, NEW aggregates \in SUBSET Measure,
           aggregates # {}
    PROVE  StatisticsInv(Initialized(r, required, aggregates))
<1> DEFINE T == {OrElse(a, Infinity) : a \in aggregates}
           q == [r EXCEPT !.aggregate = Minimum(T)]
<1>1. Minimum(T) \in Nat
  <2>1. T \subseteq Nat /\ T # {}
    BY InfinityNat DEF OrElse, Measure
  <2> HIDE DEF T
  <2> QED
    BY <2>1, MinimumFound
<1>2. r \in Statistics
  BY DEF StatisticsInv
<1> HIDE DEF T
<1>3. q \in Statistics /\ q.history = r.history
  BY <1>1, <1>2 DEF Statistics, Measure
<1> HIDE DEF q
<1>4. StatisticsInv(q)
  BY <1>3 DEF StatisticsInv
<1>5. Initialized(r, required, aggregates) = q \/ Initialized(r, required, aggregates) = r
  BY DEF Initialized, q, T
<1> QED
  BY <1>4, <1>5

LEMMA HistoryInv ==
    ASSUME NEW b, BufferInv(b), ToArray(b) \in Seq(Nat), NEW value \in Number
    PROVE  LET h == Put(b, value)
           IN  BufferInv(h) /\ ToArray(h) # <<>> /\ ToArray(h) \in Seq(Nat)
<1> DEFINE h == Put(b, value)
           w == ToArray(b)
           x == Float32[value]
           v == IF Len(w) = BufferSize THEN Append(Tail(w), x) ELSE Append(w, x)
<1>1. BufferInv(h) /\ ToArray(h) = WindowAppend(w, value)
  BY PutKeepsBufferInv, PutAppendsToWindow
<1>2. ToArray(h) = v /\ x \in Nat /\ BufferSize # 0
  BY <1>1, BufferAssumption DEF WindowAppend
<1> HIDE DEF h, w, x
<1>3. w \in Seq(Nat)
  BY DEF w
<1>4. CASE Len(w) = BufferSize
  <2>1. w # <<>>
    BY <1>2, <1>4
  <2>2. Tail(w) \in Seq(Nat)
    BY <1>3, <2>1
  <2> QED
    BY <1>1, <1>2, <1>4, <2>2, AppendProperties DEF h
<1>5. CASE Len(w) # BufferSize
  BY <1>1, <1>2, <1>3, <1>5, AppendProperties DEF h
<1> QED
  BY <1>4, <1>5

(* updateMeasurementStatistics *)
LEMMA MeasuredInv ==
    ASSUME NEW r, StatisticsInv(r), NEW required, NEW value \in Costs \ {Undefined}
    PROVE  StatisticsInv(Measured(r, required, value))
<1> DEFINE moving == required.average \/ required.median
           h == IF moving THEN Put(r.history, value) ELSE r.history
           sum == Plus(OrElse(r.aggregate, 0), value)
           lo == Minimum({value, OrElse(r.minimum, value)})
           hi == IF value > r.maximum THEN value ELSE r.maximum
           average == IF required.average THEN Average(ToArray(h))
                      ELSE IF moving THEN Undefined ELSE r.average
           median == IF required.median THEN Median(ToArray(h))
                     ELSE IF moving THEN Undefined ELSE r.median
           q == [aggregate |-> sum, minimum |-> lo, maximum |-> hi, average |-> average,
                 median |-> median, history |-> h]
<1>1. value \in Number /\ value \in Nat /\ Undefined = -1
  BY WorkerChoiceAssumption, BufferAssumption DEF Undefined
<1>2. /\ r.aggregate \in Measure /\ r.minimum \in Measure /\ r.maximum \in Measure
      /\ r.average \in Measure /\ r.median \in Measure
      /\ BufferInv(r.history) /\ ToArray(r.history) \in Seq(Nat)
  BY DEF StatisticsInv, Statistics
<1>3. sum \in Measure
  BY <1>1, <1>2, InfinityNat DEF Plus, OrElse, Measure
<1>4. lo \in Nat
  <2>1. {value, OrElse(r.minimum, value)} \subseteq Nat
    BY <1>1, <1>2 DEF OrElse, Measure
  <2> QED
    BY <2>1, MinimumFound
<1>5. hi \in Measure
  BY <1>1, <1>2 DEF Measure
<1> HIDE DEF sum, lo, hi
<1>6. /\ BufferInv(h) /\ ToArray(h) \in Seq(Nat)
      /\ moving => Average(ToArray(h)) \in Nat /\ Median(ToArray(h)) \in Nat
  <2>1. CASE ~moving
    BY <1>2, <2>1
  <2>2. CASE moving
    <3>1. h = Put(r.history, value)
      BY <2>2
    <3>2. BufferInv(h) /\ ToArray(h) # <<>> /\ ToArray(h) \in Seq(Nat)
      BY <1>1, <1>2, <3>1, HistoryInv
    <3> HIDE DEF h
    <3> QED
      BY <3>2, AverageNat, MedianNat
  <2> QED
    BY <2>1, <2>2
<1> HIDE DEF h
<1>7. average \in Measure /\ median \in Measure
  BY <1>2, <1>6 DEF Measure
<1> HIDE DEF average, median
<1>8. q \in Statistics
  BY <1>3, <1>4, <1>5, <1>6, <1>7 DEF Statistics, Measure, BufferInv
<1>9. StatisticsInv(q)
  BY <1>6, <1>8 DEF StatisticsInv
<1>10. Measured(r, required, value) = q \/ Measured(r, required, value) = r
  BY DEF Measured, q, sum, lo, hi, average, median, h
<1> QED
  BY <1>9, <1>10

-----------------------------------------------------------------------------
(* What holds of a pool, whatever became of it *)

GoodNode == {n \in Node : StatisticsInv(n.runTime)}

KeyIn(key, size) == key = 0 \/ key < size

(* What a strategy keeps in a pool of so many nodes: in an empty one, its   *)
(* keys are those of the first node to come.  The round is the first one.   *)
GoodState(name, size) ==
    {s \in StrategyState :
        name \in RoundRobins =>
            /\ KeyIn(s.next, size) /\ KeyIn(s.nodeId, size) /\ s.roundId = 0
            /\ name # "INTERLEAVED_WEIGHTED_ROUND_ROBIN" => s.nodeId = 0}

Pools == [nodes : Seq(GoodNode),
          context : UNION {[names -> StrategyState] : names \in SUBSET Every},
          options : Options]

DistinctNodes(p) == \A i, j \in 1..Size(p) : p.nodes[i].id = p.nodes[j].id => i = j

PoolInv(p) ==
    /\ p \in Pools /\ DistinctNodes(p) /\ Size(p) <= MaxSize
    /\ \A name \in DOMAIN p.context : p.context[name] \in GoodState(name, Size(p))

LEMMA PoolFields ==
    ASSUME NEW p \in Pools
    PROVE  /\ p.nodes \in Seq(GoodNode) /\ p.options \in Options
           /\ DOMAIN p.context \in SUBSET Every
           /\ p.context \in [DOMAIN p.context -> StrategyState]
           /\ Size(p) \in Nat /\ DOMAIN p.nodes = 1..Size(p)
           /\ \A i \in 1..Size(p) : p.nodes[i] \in GoodNode
           /\ p = [nodes |-> p.nodes, context |-> p.context, options |-> p.options]
           /\ (p.nodes = <<>> <=> Size(p) = 0)
<1>1. /\ p.nodes \in Seq(GoodNode) /\ p.options \in Options
      /\ p.context \in UNION {[names -> StrategyState] : names \in SUBSET Every}
      /\ p = [nodes |-> p.nodes, context |-> p.context, options |-> p.options]
  BY DEF Pools
<1>2. DOMAIN p.context \in SUBSET Every /\ p.context \in [DOMAIN p.context -> StrategyState]
  BY <1>1
<1>3. Size(p) \in Nat /\ DOMAIN p.nodes = 1..Size(p)
      /\ \A i \in 1..Size(p) : p.nodes[i] \in GoodNode
  BY <1>1, LenProperties, ElementOfSeq DEF Size
<1>4. p.nodes = <<>> <=> Size(p) = 0
  BY <1>1, EmptySeq DEF Size
<1> QED
  BY <1>1, <1>2, <1>3, <1>4

LEMMA NodeFields ==
    ASSUME NEW n \in GoodNode
    PROVE  /\ n.id \in Worker /\ n.dynamic \in BOOLEAN /\ n.ready \in BOOLEAN
           /\ n.informed \in BOOLEAN /\ n.executing \in Nat /\ n.virtualEnd \in Measure
           /\ StatisticsInv(n.runTime) /\ n.runTime \in Statistics
           /\ n = [id |-> n.id, dynamic |-> n.dynamic, ready |-> n.ready,
                   informed |-> n.informed, executing |-> n.executing,
                   runTime |-> n.runTime, virtualEnd |-> n.virtualEnd]
<1>1. n \in Node /\ StatisticsInv(n.runTime)
  BY DEF GoodNode
<1> QED
  BY <1>1 DEF Node

LEMMA TaskRunTimeNat ==
    ASSUME NEW p \in Pools, NEW key \in 0..Size(p)-1
    PROVE  TaskRunTime(p, key) \in Nat
<1> DEFINE r == At(p, key).runTime
<1>1. r \in Statistics
  <2>1. key + 1 \in 1..Size(p)
    BY PoolFields
  <2>2. p.nodes[key + 1] \in GoodNode
    BY <2>1, PoolFields
  <2> QED
    BY <2>2, NodeFields DEF At
<1> HIDE DEF r
<1>2. r.average \in Measure /\ r.median \in Measure
  BY <1>1 DEF Statistics
<1>3. OrElse(r.average, 0) \in Nat /\ OrElse(r.median, 0) \in Nat
  BY <1>2 DEF OrElse, Measure
<1> QED
  BY <1>3 DEF TaskRunTime, r

LEMMA VirtualEndMeasure ==
    ASSUME NEW p \in Pools, NEW key \in 0..Size(p)-1, NEW time \in Nat
    PROVE  VirtualEnd(p, key, time) \in Nat
<1>1. key + 1 \in 1..Size(p)
  BY PoolFields
<1>2. At(p, key).virtualEnd \in Measure
  BY <1>1, PoolFields, NodeFields DEF At
<1>3. TaskRunTime(p, key) \in Nat
  BY TaskRunTimeNat
<1> QED
  BY <1>2, <1>3 DEF VirtualEnd, Measure, Undefined

-----------------------------------------------------------------------------
(* Nodes renewed in place, and nodes that join *)

(* Node by node, q has the workers of p *)
Renewed(q, p) ==
    /\ q \in Pools /\ Size(q) = Size(p)
    /\ q.context = p.context /\ q.options = p.options
    /\ \A i \in 1..Size(p) : /\ q.nodes[i].id = p.nodes[i].id
                             /\ q.nodes[i].dynamic = p.nodes[i].dynamic

LEMMA RenewedInv ==
    ASSUME NEW p, PoolInv(p), NEW q, Renewed(q, p)
    PROVE  PoolInv(q) /\ Statics(q) = Statics(p)
<1>1. DOMAIN q.nodes = 1..Size(p) /\ DOMAIN p.nodes = 1..Size(p)
  BY PoolFields DEF Renewed, PoolInv
<1>2. Statics(q) = Statics(p)
  BY <1>1 DEF Statics, Renewed
<1>3. DistinctNodes(q)
  BY DEF DistinctNodes, PoolInv, Renewed
<1> QED
  BY <1>2, <1>3 DEF PoolInv, Renewed

LEMMA RenewedNodes ==
    ASSUME NEW p \in Pools, NEW nodes \in Seq(GoodNode), Len(nodes) = Size(p),
           \A i \in 1..Size(p) : /\ nodes[i].id = p.nodes[i].id
                                 /\ nodes[i].dynamic = p.nodes[i].dynamic
    PROVE  LET q == [p EXCEPT !.nodes = nodes]
           IN  Renewed(q, p) /\ q.nodes = nodes
<1> DEFINE q == [p EXCEPT !.nodes = nodes]
<1>1. q \in Pools /\ q.nodes = nodes /\ q.context = p.context /\ q.options = p.options
  BY DEF Pools
<1> QED
  BY <1>1 DEF Renewed, Size

LEMMA RenewedNode ==
    ASSUME NEW p \in Pools, NEW key \in 0..Size(p)-1, NEW n \in GoodNode,
           n.id = At(p, key).id, n.dynamic = At(p, key).dynamic
    PROVE  LET q == [p EXCEPT !.nodes[key + 1] = n]
           IN  /\ Renewed(q, p) /\ At(q, key) = n
               /\ \A i \in 1..Size(p) : q.nodes[i] = IF i = key + 1 THEN n ELSE p.nodes[i]
<1> DEFINE nodes == [p.nodes EXCEPT ![key + 1] = n]
           q == [p EXCEPT !.nodes[key + 1] = n]
<1>1. p.nodes \in Seq(GoodNode) /\ Size(p) = Len(p.nodes) /\ key + 1 \in 1..Size(p)
  BY PoolFields DEF Size
<1>2. /\ nodes \in Seq(GoodNode) /\ Len(nodes) = Size(p)
      /\ \A i \in 1..Size(p) : nodes[i] = IF i = key + 1 THEN n ELSE p.nodes[i]
  BY <1>1, ExceptSeq
<1>3. q = [p EXCEPT !.nodes = nodes]
  BY DEF Pools
<1> HIDE DEF nodes, q
<1>4. \A i \in 1..Size(p) : /\ nodes[i].id = p.nodes[i].id
                            /\ nodes[i].dynamic = p.nodes[i].dynamic
  BY <1>2 DEF At
<1>5. Renewed(q, p) /\ q.nodes = nodes
  BY <1>2, <1>3, <1>4, RenewedNodes
<1>6. At(q, key) = n
  BY <1>1, <1>2, <1>5 DEF At
<1> QED
  BY <1>2, <1>5, <1>6 DEF q

(* The identities in use *)
Ids(p) == {p.nodes[i].id : i \in 1..Size(p)}

LEMMA IdentityLeft ==
    ASSUME NEW p \in Pools, Size(p) < MaxSize
    PROVE  \E w \in Worker : w \notin Ids(p)
<1>1. Size(p) \in Nat /\ \A i \in 1..Size(p) : p.nodes[i].id \in Worker
  BY PoolFields, NodeFields
<1> DEFINE f == [i \in 1..Size(p) |-> p.nodes[i].id]
<1>2. f \in Surjection(1..Size(p), Ids(p))
  BY DEF Surjection, Ids
<1>3. IsFiniteSet(1..Size(p)) /\ Cardinality(1..Size(p)) = Size(p)
  <2>1. 1 \in Int /\ Size(p) \in Int
    BY <1>1
  <2>2. Cardinality(1..Size(p)) = IF 1 > Size(p) THEN 0 ELSE Size(p) - 1 + 1
    BY <2>1, FS_Interval
  <2>3. IsFiniteSet(1..Size(p))
    BY <2>1, FS_Interval
  <2> QED
    BY <1>1, <2>2, <2>3
<1>4. IsFiniteSet(Ids(p)) /\ Cardinality(Ids(p)) <= Size(p)
  BY <1>2, <1>3, FS_Surjection
<1>5. Cardinality(Worker) = MaxSize
  <2>1. 1 \in Int /\ MaxSize \in Int /\ MaxSize \in Nat
    BY WorkerChoiceAssumption
  <2>2. Cardinality(1..MaxSize) = IF 1 > MaxSize THEN 0 ELSE MaxSize - 1 + 1
    BY <2>1, FS_Interval
  <2> QED
    BY <2>1, <2>2 DEF Worker
<1>6. ASSUME Worker \subseteq Ids(p) PROVE FALSE
  <2>1. Worker \in SUBSET Ids(p)
    BY <1>6
  <2>2. Cardinality(Worker) <= Cardinality(Ids(p))
    BY <1>4, <2>1, FS_Subset
  <2>3. Cardinality(Ids(p)) \in Nat /\ MaxSize \in Nat
    BY <1>4, FS_CardinalityType, WorkerChoiceAssumption
  <2> QED
    BY <1>1, <1>4, <1>5, <2>2, <2>3
<1> QED
  BY <1>6

(* A node joined p behind the others *)
Joined(q, p, dynamic) ==
    /\ q \in Pools /\ Size(q) = Size(p) + 1
    /\ q.context = p.context /\ q.options = p.options
    /\ \A i \in 1..Size(p) : q.nodes[i] = p.nodes[i]
    /\ q.nodes[Size(q)].id \notin Ids(p) /\ q.nodes[Size(q)].dynamic = dynamic
    /\ q.nodes[Size(q)].executing = 0

LEMMA CreatedJoined ==
    ASSUME NEW p, PoolInv(p), Size(p) < MaxSize, NEW dynamic \in BOOLEAN
    PROVE  Joined(Created(p, dynamic), p, dynamic)
<1> DEFINE aggregates == {p.nodes[i].runTime.aggregate : i \in DOMAIN p.nodes}
                         \union {Undefined}
           id == CHOOSE w \in Worker : \A i \in DOMAIN p.nodes : p.nodes[i].id # w
           runTime == Initialized(NoStatistics, Required(p), aggregates)
           n == [id |-> id, dynamic |-> dynamic, ready |-> dynamic, informed |-> FALSE,
                 executing |-> 0, virtualEnd |-> Undefined, runTime |-> runTime]
           nodes == Append(p.nodes, n)
           q == [p EXCEPT !.nodes = nodes]
<1>1. p \in Pools /\ p.nodes \in Seq(GoodNode) /\ DOMAIN p.nodes = 1..Size(p)
      /\ Size(p) \in Nat /\ \A i \in 1..Size(p) : p.nodes[i] \in GoodNode
  BY PoolFields DEF PoolInv
<1>2. id \in Worker /\ id \notin Ids(p)
  <2>1. PICK w \in Worker : w \notin Ids(p)
    BY <1>1, IdentityLeft
  <2>2. \A i \in DOMAIN p.nodes : p.nodes[i].id # w
    BY <1>1, <2>1 DEF Ids
  <2>3. id \in Worker /\ \A i \in DOMAIN p.nodes : p.nodes[i].id # id
    BY <2>2
  <2> HIDE DEF id
  <2> QED
    BY <1>1, <2>3 DEF Ids
<1>3. aggregates \in SUBSET Measure /\ aggregates # {}
  <2>1. \A i \in 1..Size(p) : p.nodes[i].runTime.aggregate \in Measure
    BY <1>1, NodeFields DEF Statistics
  <2> QED
    BY <1>1, <2>1 DEF Measure
<1> HIDE DEF id, aggregates
<1>4. StatisticsInv(runTime)
  BY <1>3, NoStatisticsInv, InitializedInv
<1>5. runTime \in Statistics
  BY <1>4 DEF StatisticsInv
<1> HIDE DEF runTime
<1>6. n \in GoodNode /\ n.id = id /\ n.dynamic = dynamic /\ n.executing = 0
  BY <1>2, <1>4, <1>5 DEF GoodNode, Node, Measure
<1> HIDE DEF n
<1>7. /\ nodes \in Seq(GoodNode) /\ Len(nodes) = Len(p.nodes) + 1
      /\ \A i \in 1..Len(p.nodes) : nodes[i] = p.nodes[i]
      /\ nodes[Len(p.nodes) + 1] = n
  BY <1>1, <1>6, AppendProperties
<1> HIDE DEF nodes
<1>8. q \in Pools /\ q.nodes = nodes /\ q.context = p.context /\ q.options = p.options
  BY <1>1, <1>7 DEF Pools
<1>9. Created(p, dynamic) = q
  BY DEF Created, q, nodes, n, runTime, id, aggregates
<1> HIDE DEF q
<1>10. Joined(q, p, dynamic)
  BY <1>2, <1>6, <1>7, <1>8 DEF Joined, Size
<1> QED
  BY <1>9, <1>10

LEMMA JoinedInv ==
    ASSUME NEW p, PoolInv(p), Size(p) < MaxSize, NEW dynamic \in BOOLEAN,
           NEW q, Joined(q, p, dynamic)
    PROVE  /\ PoolInv(q)
           /\ IsFiniteSet(Statics(q))
           /\ Cardinality(Statics(q)) =
                  IF dynamic THEN Cardinality(Statics(p)) ELSE Cardinality(Statics(p)) + 1
<1>1. /\ Size(p) \in Nat /\ Size(q) = Size(p) + 1 /\ DOMAIN p.nodes = 1..Size(p)
      /\ DOMAIN q.nodes = 1..(Size(p) + 1) /\ p \in Pools /\ q \in Pools
      /\ \A i \in 1..Size(p) : q.nodes[i] = p.nodes[i]
  BY PoolFields DEF PoolInv, Joined
<1>2. DistinctNodes(q)
  <2>1. \A i \in 1..Size(p) : q.nodes[Size(p) + 1].id # q.nodes[i].id
    BY <1>1 DEF Joined, Ids
  <2>2. \A i, j \in 1..Size(p) : q.nodes[i].id = q.nodes[j].id => i = j
    BY <1>1 DEF PoolInv, DistinctNodes
  <2>3. \A i \in 1..Size(q) : i \in 1..Size(p) \/ i = Size(p) + 1
    BY <1>1
  <2> QED
    BY <2>1, <2>2, <2>3 DEF DistinctNodes
<1>3. ASSUME NEW name \in DOMAIN q.context
      PROVE  q.context[name] \in GoodState(name, Size(q))
  <2>1. q.context[name] \in GoodState(name, Size(p))
    BY DEF Joined, PoolInv
  <2>2. \A key \in WorkerNodeKey : KeyIn(key, Size(p)) => KeyIn(key, Size(q))
    BY <1>1, WorkerChoiceAssumption DEF KeyIn, WorkerNodeKey
  <2> QED
    BY <2>1, <2>2 DEF GoodState, StrategyState
<1>4. IsFiniteSet(Statics(p))
  <2>1. IsFiniteSet(1..Size(p))
    BY <1>1, FS_Interval
  <2>2. Statics(p) \in SUBSET (1..Size(p))
    BY <1>1 DEF Statics
  <2> QED
    BY <2>1, <2>2, FS_Subset
<1>5. Size(p) + 1 \notin Statics(p)
  BY <1>1 DEF Statics
<1>6. Statics(q) = IF dynamic THEN Statics(p) ELSE Statics(p) \union {Size(p) + 1}
  <2>1. q.nodes[Size(p) + 1].dynamic = dynamic
    BY <1>1 DEF Joined
  <2> QED
    BY <1>1, <2>1 DEF Statics
<1>7. /\ IsFiniteSet(Statics(p) \union {Size(p) + 1})
      /\ Cardinality(Statics(p) \union {Size(p) + 1}) = Cardinality(Statics(p)) + 1
  BY <1>4, <1>5, FS_AddElement
<1>8. /\ IsFiniteSet(Statics(q))
      /\ Cardinality(Statics(q)) =
             IF dynamic THEN Cardinality(Statics(p)) ELSE Cardinality(Statics(p)) + 1
  BY <1>4, <1>6, <1>7
<1>9. PoolInv(q)
  BY <1>1, <1>2, <1>3, WorkerChoiceAssumption DEF PoolInv
<1> QED
  BY <1>8, <1>9

LEMMA StaticsFinite ==
    ASSUME NEW p \in Pools
    PROVE  /\ IsFiniteSet(Statics(p)) /\ Cardinality(Statics(p)) \in Nat
           /\ Cardinality(Statics(p)) <= Size(p)
<1>1. Size(p) \in Nat /\ DOMAIN p.nodes = 1..Size(p)
  BY PoolFields
<1>2. IsFiniteSet(1..Size(p)) /\ Cardinality(1..Size(p)) = Size(p)
  <2>1. 1 \in Int /\ Size(p) \in Int
    BY <1>1
  <2>2. Cardinality(1..Size(p)) = IF 1 > Size(p) THEN 0 ELSE Size(p) - 1 + 1
    BY <2>1, FS_Interval
  <2>3. IsFiniteSet(1..Size(p))
    BY <2>1, FS_Interval
  <2> QED
    BY <1>1, <2>2, <2>3
<1>3. Statics(p) \in SUBSET (1..Size(p))
  BY <1>1 DEF Statics
<1>4. IsFiniteSet(Statics(p)) /\ Cardinality(Statics(p)) <= Cardinality(1..Size(p))
  BY <1>2, <1>3, FS_Subset
<1> QED
  BY <1>2, <1>4, FS_CardinalityType

(* Nodes joined p, any number of them *)
Grew(q, p) ==
    /\ PoolInv(q) /\ Size(q) >= Size(p)
    /\ q.context = p.context /\ q.options = p.options
    /\ \A i \in 1..Size(p) : q.nodes[i] = p.nodes[i]
    /\ \A i \in Size(p)+1..Size(q) : q.nodes[i].id \notin Ids(p)

LEMMA GrewSame ==
    ASSUME NEW p, PoolInv(p)
    PROVE  Grew(p, p)
<1>1. Size(p) \in Nat
  BY PoolFields DEF PoolInv
<1> QED
  BY <1>1 DEF Grew

LEMMA GrewMore ==
    ASSUME NEW p, PoolInv(p), NEW q, Grew(q, p), Size(q) < MaxSize,
           NEW dynamic \in BOOLEAN
    PROVE  /\ Grew(Created(q, dynamic), p) /\ Size(Created(q, dynamic)) = Size(q) + 1
           /\ Cardinality(Statics(Created(q, dynamic))) =
                  IF dynamic THEN Cardinality(Statics(q)) ELSE Cardinality(Statics(q)) + 1
<1> DEFINE r == Created(q, dynamic)
<1>1. PoolInv(q) /\ p \in Pools /\ q \in Pools
  BY DEF Grew, PoolInv
<1>2. Joined(r, q, dynamic)
  BY <1>1, CreatedJoined
<1> HIDE DEF r
<1>3. PoolInv(r) /\ Cardinality(Statics(r)) =
          IF dynamic THEN Cardinality(Statics(q)) ELSE Cardinality(Statics(q)) + 1
  BY <1>1, <1>2, JoinedInv
<1>4. Size(p) \in Nat /\ Size(q) \in Nat /\ Size(q) >= Size(p) /\ Size(r) = Size(q) + 1
  BY <1>1, <1>2, PoolFields DEF Grew, Joined
<1>5. \A i \in 1..Size(p) : r.nodes[i] = p.nodes[i]
  <2>1. \A i \in 1..Size(p) : i \in 1..Size(q)
    BY <1>4
  <2> QED
    BY <1>2, <2>1 DEF Joined, Grew
<1>6. ASSUME NEW i \in Size(p)+1..Size(r)
      PROVE  r.nodes[i].id \notin Ids(p)
  <2>1. CASE i = Size(r)
    <3>1. Ids(p) \subseteq Ids(q)
      <4>1. ASSUME NEW j \in 1..Size(p) PROVE p.nodes[j].id \in Ids(q)
        <5>1. j \in 1..Size(q) /\ q.nodes[j] = p.nodes[j]
          BY <1>4 DEF Grew
        <5> QED
          BY <5>1 DEF Ids
      <4> QED
        BY <4>1 DEF Ids
    <3> QED
      BY <1>2, <2>1, <3>1 DEF Joined
  <2>2. CASE i # Size(r)
    <3>1. i \in Size(p)+1..Size(q) /\ i \in 1..Size(q)
      BY <1>4, <2>2
    <3> QED
      BY <1>2, <3>1 DEF Grew, Joined
  <2> QED
    BY <2>1, <2>2
<1>7. r.context = p.context /\ r.options = p.options
  BY <1>2 DEF Joined, Grew
<1>8. Grew(r, p)
  BY <1>3, <1>4, <1>5, <1>6, <1>7 DEF Grew
<1> QED
  BY <1>3, <1>4, <1>8 DEF r

(* The dynamic workers a task function is created for *)
LEMMA NodesForKeys ==
    ASSUME NEW p, PoolInv(p), NEW keys \in SUBSET WorkerNodeKey, keys # {}
    PROVE  LET q == WithDynamicWorkers(p, keys)
           IN  /\ Grew(q, p) /\ Cardinality(Statics(q)) = Cardinality(Statics(p))
               /\ \A key \in keys : key < Size(q)
<1> DEFINE after[i \in 0..MaxSize] == IF i = 0 THEN p ELSE WithNodeFor(after[i - 1], keys)
           U == {q \in Pools : /\ Grew(q, p)
                               /\ Cardinality(Statics(q)) = Cardinality(Statics(p))}
           step == [e \in U \X (1..MaxSize) |-> WithNodeFor(e[1], keys)]
           Fits(q) == \A key \in keys : key < Size(q)
           T == {i \in 0..MaxSize : after[i] \in U /\ (Size(after[i]) >= i \/ Fits(after[i]))}
<1>1. WithDynamicWorkers(p, keys) = after[MaxSize]
  BY DEF WithDynamicWorkers
<1>2. MaxSize \in Nat /\ p \in Pools /\ \A key \in keys : key \in 0..MaxSize-1
  BY WorkerChoiceAssumption DEF PoolInv, WorkerNodeKey
<1>3. p \in U
  BY <1>2, GrewSame
<1>4. ASSUME NEW q \in U
      PROVE  LET r == WithNodeFor(q, keys)
             IN  r \in U /\ ((Fits(q) /\ r = q) \/ Size(r) = Size(q) + 1)
  <2>0. Size(q) \in Nat /\ Grew(q, p) /\ Cardinality(Statics(q)) = Cardinality(Statics(p))
    BY PoolFields
  <2>1. CASE \E key \in keys : Size(q) <= key
    <3> DEFINE r == Created(q, TRUE)
    <3>1. Size(q) < MaxSize /\ TRUE \in BOOLEAN
      BY <1>2, <2>0, <2>1
    <3>2. Grew(r, p) /\ Size(r) = Size(q) + 1
          /\ Cardinality(Statics(r)) = Cardinality(Statics(q))
      BY <2>0, <3>1, GrewMore
    <3>3. WithNodeFor(q, keys) = r
      BY <2>1 DEF WithNodeFor
    <3> HIDE DEF r
    <3>4. r \in Pools
      BY <3>2 DEF Grew, PoolInv
    <3> QED
      BY <2>0, <3>2, <3>3, <3>4
  <2>2. CASE ~ \E key \in keys : Size(q) <= key
    <3>1. WithNodeFor(q, keys) = q
      BY <2>2 DEF WithNodeFor
    <3>2. Fits(q)
      BY <1>2, <2>0, <2>2
    <3> QED
      BY <3>1, <3>2
  <2> QED
    BY <2>1, <2>2
<1>5. \A q \in U, i \in 1..MaxSize :
          step[<<q, i>>] = WithNodeFor(q, keys) /\ step[<<q, i>>] \in U
  <2> HIDE DEF U
  <2> QED
    BY <1>4
<1> HIDE DEF U, step
<1>6. PICK f : Turns(f, U, p, step, MaxSize)
  BY <1>2, <1>3, <1>5, TurnsExist
<1>7. f = [i \in 0..MaxSize |-> IF i = 0 THEN p ELSE WithNodeFor(f[i - 1], keys)]
  <2>1. f \in [0..MaxSize -> U] /\ f[0] = p
        /\ \A i \in 1..MaxSize : f[i] = step[<<f[i - 1], i>>]
    BY <1>6 DEF Turns
  <2>2. ASSUME NEW i \in 1..MaxSize PROVE f[i] = WithNodeFor(f[i - 1], keys)
    <3>1. i - 1 \in 0..MaxSize
      BY <1>2
    <3>2. f[i - 1] \in U
      BY <2>1, <3>1
    <3> QED
      BY <1>5, <2>1, <3>2
  <2> QED
    BY <2>1, <2>2
<1>8. after = [i \in 0..MaxSize |-> IF i = 0 THEN p ELSE WithNodeFor(after[i - 1], keys)]
  BY <1>7
<1> HIDE DEF after
<1>9. after[0] = p /\ \A i \in 1..MaxSize : after[i] = WithNodeFor(after[i - 1], keys)
  BY <1>2, <1>8
<1>10. 0 \in T
  <2>1. Size(p) \in Nat /\ Size(p) >= 0
    BY <1>2, PoolFields
  <2> QED
    BY <1>2, <1>3, <1>9, <2>1
<1>11. ASSUME NEW i \in 1..MaxSize, i - 1 \in T PROVE i \in T
  <2> DEFINE q == after[i - 1]
             r == WithNodeFor(q, keys)
  <2>1. q \in U /\ (Size(q) >= i - 1 \/ Fits(q)) /\ after[i] = r
    BY <1>9, <1>11
  <2>2. r \in U /\ ((Fits(q) /\ r = q) \/ Size(r) = Size(q) + 1)
    BY <1>4, <2>1
  <2>3. Size(q) \in Nat
    BY <2>1, PoolFields DEF U
  <2>4. i \in 0..MaxSize
    BY <1>2
  <2> HIDE DEF q, r
  <2>5. Size(r) >= i \/ Fits(r)
    <3>1. CASE Fits(q) /\ r = q
      BY <3>1
    <3>2. CASE Size(r) = Size(q) + 1 /\ Size(q) >= i - 1
      BY <2>3, <3>2
    <3>3. CASE Size(r) = Size(q) + 1 /\ Fits(q)
      <4>1. \A key \in keys : key < Size(r)
        BY <1>2, <2>3, <3>3
      <4> QED
        BY <4>1
    <3> HIDE DEF Fits
    <3> QED
      BY <2>1, <2>2, <3>1, <3>2, <3>3
  <2> QED
    BY <2>1, <2>2, <2>4, <2>5
<1>12. MaxSize \in T
  <2>1. \A i \in 0..MaxSize : i \in T
    <3> HIDE DEF T
    <3> QED
      BY <1>2, <1>10, <1>11, SetInduction
  <2> QED
    BY <1>2, <2>1
<1> DEFINE q == after[MaxSize]
<1>13. q \in U /\ (Size(q) >= MaxSize \/ Fits(q))
  BY <1>12
<1> HIDE DEF q
<1>14. Fits(q)
  BY <1>2, <1>13, PoolFields DEF U
<1> QED
  BY <1>1, <1>13, <1>14 DEF U, q

LEMMA DynamicWorkers ==
    ASSUME NEW p, PoolInv(p), Cardinality(Statics(p)) = MinSize,
           NEW keys \in SUBSET WorkerNodeKey
    PROVE  LET q == WithDynamicWorkers(p, keys)
           IN  /\ Grew(q, p) /\ Cardinality(Statics(q)) = MinSize /\ Size(q) > 0
               /\ \A key \in keys : key < Size(q)
<1>1. CASE keys # {}
  <2> DEFINE q == WithDynamicWorkers(p, keys)
  <2>1. /\ Grew(q, p) /\ Cardinality(Statics(q)) = Cardinality(Statics(p))
        /\ \A key \in keys : key < Size(q)
    BY <1>1, NodesForKeys
  <2> HIDE DEF q
  <2>2. PICK key \in keys : key < Size(q)
    BY <1>1, <2>1
  <2>3. key \in Nat /\ Size(q) \in Nat
    BY <2>1, PoolFields, WorkerChoiceAssumption DEF WorkerNodeKey, Grew, PoolInv
  <2>4. Size(q) > 0
    BY <2>2, <2>3
  <2> QED
    BY <2>1, <2>4 DEF q
<1>2. CASE keys = {} /\ ShallCreateDynamicWorker(p)
  <2> DEFINE q == Created(p, TRUE)
  <2>1. Grew(p, p) /\ Size(p) < MaxSize /\ TRUE \in BOOLEAN
    BY <1>2, GrewSame DEF ShallCreateDynamicWorker
  <2>2. Grew(q, p) /\ Size(q) = Size(p) + 1 /\ Cardinality(Statics(q)) = MinSize
    BY <2>1, GrewMore
  <2>3. WithDynamicWorkers(p, keys) = q
    BY <1>2 DEF WithDynamicWorkers
  <2>4. Size(p) \in Nat
    BY PoolFields DEF PoolInv
  <2> HIDE DEF q
  <2> QED
    BY <1>2, <2>2, <2>3, <2>4
<1>3. CASE keys = {} /\ ~ShallCreateDynamicWorker(p)
  <2>1. WithDynamicWorkers(p, keys) = p
    BY <1>3 DEF WithDynamicWorkers
  <2>2. p \in Pools /\ Size(p) \in Nat /\ (p.nodes = <<>> <=> Size(p) = 0)
        /\ DOMAIN p.nodes = 1..Size(p)
    BY PoolFields DEF PoolInv
  <2>3. ASSUME Size(p) = 0 PROVE FALSE
    <3>1. Statics(p) = {}
      BY <2>2, <2>3 DEF Statics
    <3>2. MinSize = 0
      BY <3>1, FS_EmptySet
    <3> QED
      BY <1>3, <2>2, <2>3, <3>2, WorkerChoiceAssumption DEF ShallCreateDynamicWorker
  <2> QED
    BY <1>3, <2>1, <2>2, <2>3, GrewSame
<1> QED
  BY <1>1, <1>2, <1>3

(* startMinimumNumberOfWorkers *)
LEMMA MinimumOfWorkers ==
    ASSUME NEW p, PoolInv(p), Cardinality(Statics(p)) <= MinSize,
           Size(p) - Cardinality(Statics(p)) <= MaxSize - MinSize
    PROVE  LET q == WithMinimum(p)
           IN  Grew(q, p) /\ Cardinality(Statics(q)) = MinSize
<1> DEFINE after[i \in 0..MinSize] == IF i = 0 THEN p ELSE WithStaticNode(after[i - 1])
           C(q) == Cardinality(Statics(q))
           U == {q \in Pools : /\ Grew(q, p) /\ C(q) <= MinSize
                               /\ Size(q) - C(q) <= MaxSize - MinSize}
           step == [e \in U \X (1..MinSize) |-> WithStaticNode(e[1])]
           T == {i \in 0..MinSize : after[i] \in U /\ C(after[i]) >= i}
<1>1. WithMinimum(p) = after[MinSize]
  BY DEF WithMinimum
<1>2. MinSize \in Nat /\ MaxSize \in Nat /\ p \in Pools
  BY WorkerChoiceAssumption DEF PoolInv
<1>3. p \in U
  BY <1>2, GrewSame
<1>4. ASSUME NEW q \in U
      PROVE  LET r == WithStaticNode(q)
             IN  r \in U /\ ((C(q) = MinSize /\ r = q) \/ C(r) = C(q) + 1)
  <2>0. /\ Size(q) \in Nat /\ Grew(q, p) /\ C(q) \in Nat
        /\ C(q) <= MinSize /\ Size(q) - C(q) <= MaxSize - MinSize
    BY PoolFields, StaticsFinite
  <2>1. CASE C(q) < MinSize
    <3> DEFINE r == Created(q, FALSE)
    <3>1. Size(q) < MaxSize /\ FALSE \in BOOLEAN
      BY <1>2, <2>0, <2>1
    <3>2. Grew(r, p) /\ Size(r) = Size(q) + 1 /\ C(r) = C(q) + 1
      BY <2>0, <3>1, GrewMore
    <3>3. WithStaticNode(q) = r
      BY <2>1 DEF WithStaticNode
    <3> HIDE DEF r
    <3>4. r \in Pools
      BY <3>2 DEF Grew, PoolInv
    <3>5. C(r) <= MinSize /\ Size(r) - C(r) <= MaxSize - MinSize
      BY <1>2, <2>0, <2>1, <3>2
    <3> QED
      BY <3>2, <3>3, <3>4, <3>5
  <2>2. CASE ~(C(q) < MinSize)
    <3>1. WithStaticNode(q) = q
      BY <2>2 DEF WithStaticNode
    <3>2. C(q) = MinSize
      BY <1>2, <2>0, <2>2
    <3> QED
      BY <3>1, <3>2
  <2> QED
    BY <2>1, <2>2
<1>5. \A q \in U, i \in 1..MinSize :
          step[<<q, i>>] = WithStaticNode(q) /\ step[<<q, i>>] \in U
  <2> HIDE DEF U
  <2> QED
    BY <1>4
<1> HIDE DEF U, step
<1>6. PICK f : Turns(f, U, p, step, MinSize)
  BY <1>2, <1>3, <1>5, TurnsExist
<1>7. f = [i \in 0..MinSize |-> IF i = 0 THEN p ELSE WithStaticNode(f[i - 1])]
  <2>1. f \in [0..MinSize -> U] /\ f[0] = p
        /\ \A i \in 1..MinSize : f[i] = step[<<f[i - 1], i>>]
    BY <1>6 DEF Turns
  <2>2. ASSUME NEW i \in 1..MinSize PROVE f[i] = WithStaticNode(f[i - 1])
    <3>1. i - 1 \in 0..MinSize
      BY <1>2
    <3>2. f[i - 1] \in U
      BY <2>1, <3>1
    <3> QED
      BY <1>5, <2>1, <3>2
  <2> QED
    BY <2>1, <2>2
<1>8. after = [i \in 0..MinSize |-> IF i = 0 THEN p ELSE WithStaticNode(after[i - 1])]
  BY <1>7
<1> HIDE DEF after
<1>9. after[0] = p /\ \A i \in 1..MinSize : after[i] = WithStaticNode(after[i - 1])
  BY <1>2, <1>8
<1>10. 0 \in T
  <2>1. C(p) >= 0
    BY <1>2, StaticsFinite
  <2> QED
    BY <1>2, <1>3, <1>9, <2>1
<1>11. ASSUME NEW i \in 1..MinSize, i - 1 \in T PROVE i \in T
  <2> DEFINE q == after[i - 1]
             r == WithStaticNode(q)
  <2>1. q \in U /\ C(q) >= i - 1 /\ after[i] = r
    BY <1>9, <1>11
  <2>2. r \in U /\ ((C(q) = MinSize /\ r = q) \/ C(r) = C(q) + 1)
    BY <1>4, <2>1
  <2>3. C(q) \in Nat
    BY <2>1, StaticsFinite DEF U
  <2>4. i \in 0..MinSize
    BY <1>2
  <2> HIDE DEF q, r
  <2>5. C(r) >= i
    <3>1. CASE C(q) = MinSize /\ r = q
      BY <1>2, <3>1
    <3>2. CASE C(r) = C(q) + 1
      BY <2>1, <2>3, <3>2
    <3> QED
      BY <2>2, <3>1, <3>2
  <2> QED
    BY <2>1, <2>2, <2>4, <2>5
<1>12. MinSize \in T
  <2>1. \A i \in 0..MinSize : i \in T
    <3> HIDE DEF T
    <3> QED
      BY <1>2, <1>10, <1>11, SetInduction
  <2> QED
    BY <1>2, <2>1
<1> DEFINE q == after[MinSize]
<1>13. q \in U /\ C(q) >= MinSize
  BY <1>12
<1> HIDE DEF q
<1>14. Grew(q, p) /\ C(q) = MinSize
  BY <1>2, <1>13, StaticsFinite DEF U
<1> QED
  BY <1>1, <1>14 DEF q

-----------------------------------------------------------------------------
(* A node leaves *)

(* Where the elements of a sequence were before the k-th was removed *)
Skip(k, i) == IF i < k THEN i ELSE i + 1

LEMMA RemovedElements ==
    ASSUME NEW S, NEW seq \in Seq(S), NEW k \in 1..Len(seq)
    PROVE  /\ RemoveAt(seq, k) \in Seq(S) /\ Len(RemoveAt(seq, k)) = Len(seq) - 1
           /\ \A i \in 1..(Len(seq) - 1) : RemoveAt(seq, k)[i] = seq[Skip(k, i)]
<1> DEFINE front == SubSeq(seq, 1, k - 1)
           rear == SubSeq(seq, k + 1, Len(seq))
           rest == RemoveAt(seq, k)
<1>1. Len(seq) \in Nat /\ \A i \in 1..Len(seq) : seq[i] \in S
  BY LenProperties
<1>2. front \in Seq(S) /\ Len(front) = k - 1 /\ \A i \in 1..(k - 1) : front[i] = seq[i]
  <2>1. \A i \in 1..(k - 1) : seq[i] \in S
    BY <1>1
  <2> QED
    BY <1>1, <2>1, SubSeqProperties
<1>3. rear \in Seq(S) /\ Len(rear) = Len(seq) - k
      /\ \A i \in 1..(Len(seq) - k) : rear[i] = seq[k + i]
  <2>1. \A i \in (k + 1)..Len(seq) : seq[i] \in S
    BY <1>1
  <2>2. /\ rear \in Seq(S)
        /\ Len(rear) = IF k + 1 <= Len(seq) THEN Len(seq) - (k + 1) + 1 ELSE 0
        /\ \A i \in 1..(Len(seq) - (k + 1) + 1) : rear[i] = seq[k + 1 + i - 1]
    BY <1>1, <2>1, SubSeqProperties
  <2>3. Len(rear) = Len(seq) - k
    BY <1>1, <2>2
  <2>4. ASSUME NEW i \in 1..(Len(seq) - k) PROVE rear[i] = seq[k + i]
    <3>1. i \in 1..(Len(seq) - (k + 1) + 1) /\ k + 1 + i - 1 = k + i
      BY <1>1
    <3>2. rear[i] = seq[k + 1 + i - 1]
      BY <2>2, <3>1
    <3> QED
      BY <3>1, <3>2
  <2> QED
    BY <2>2, <2>3, <2>4
<1>4. rest = front \o rear
  BY DEF RemoveAt
<1> HIDE DEF front, rear, rest
<1>5. /\ rest \in Seq(S) /\ Len(rest) = Len(front) + Len(rear)
      /\ \A i \in 1..(Len(front) + Len(rear)) :
             rest[i] = IF i <= Len(front) THEN front[i] ELSE rear[i - Len(front)]
  BY <1>2, <1>3, <1>4, ConcatProperties
<1>6. Len(front) + Len(rear) = Len(seq) - 1
  BY <1>1, <1>2, <1>3
<1>7. ASSUME NEW i \in 1..(Len(seq) - 1), i < k PROVE rest[i] = seq[i]
  <2>1. i \in 1..(Len(front) + Len(rear)) /\ i <= Len(front) /\ i \in 1..(k - 1)
    BY <1>1, <1>2, <1>6, <1>7
  <2> QED
    BY <1>2, <1>5, <2>1
<1>8. ASSUME NEW i \in 1..(Len(seq) - 1), ~(i < k) PROVE rest[i] = seq[i + 1]
  <2>1. /\ i \in 1..(Len(front) + Len(rear)) /\ ~(i <= Len(front))
        /\ i - Len(front) = i - (k - 1) /\ i - (k - 1) \in 1..(Len(seq) - k)
        /\ k + (i - (k - 1)) = i + 1
    BY <1>1, <1>2, <1>6, <1>8
  <2>2. rest[i] = rear[i - (k - 1)]
    BY <1>5, <2>1
  <2> QED
    BY <1>3, <2>1, <2>2
<1>9. \A i \in 1..(Len(seq) - 1) : rest[i] = seq[Skip(k, i)]
  BY <1>7, <1>8 DEF Skip
<1> QED
  BY <1>5, <1>6, <1>9 DEF rest

(* q is p without the node at the key *)
Left(q, p, key) ==
    /\ q \in Pools /\ Size(q) = Size(p) - 1 /\ q.options = p.options
    /\ \A i \in 1..Size(q) : /\ q.nodes[i].id = p.nodes[Skip(key + 1, i)].id
                             /\ q.nodes[i].dynamic = p.nodes[Skip(key + 1, i)].dynamic

LEMMA SplicedLeft ==
    ASSUME NEW p \in Pools, NEW key \in 0..Size(p)-1
    PROVE  Left(Spliced(p, key), p, key) /\ Spliced(p, key).context = p.context
<1> DEFINE nodes == RemoveAt(p.nodes, key + 1)
           q == [p EXCEPT !.nodes = nodes]
<1>1. p.nodes \in Seq(GoodNode) /\ Size(p) = Len(p.nodes) /\ key + 1 \in 1..Len(p.nodes)
  BY PoolFields DEF Size
<1>2. /\ nodes \in Seq(GoodNode) /\ Len(nodes) = Size(p) - 1
      /\ \A i \in 1..(Size(p) - 1) : nodes[i] = p.nodes[Skip(key + 1, i)]
  BY <1>1, RemovedElements
<1> HIDE DEF nodes
<1>3. q \in Pools /\ q.nodes = nodes /\ q.context = p.context /\ q.options = p.options
  BY <1>2 DEF Pools
<1>4. Spliced(p, key) = q
  BY DEF Spliced, nodes
<1> HIDE DEF q
<1> QED
  BY <1>2, <1>3, <1>4 DEF Left, Size

LEMMA LeftDistinct ==
    ASSUME NEW p, PoolInv(p), NEW key \in 0..Size(p)-1, NEW q, Left(q, p, key)
    PROVE  DistinctNodes(q) /\ p.nodes[key + 1].id \notin Ids(q) /\ Ids(q) \subseteq Ids(p)
<1>1. Size(p) \in Nat /\ Size(q) = Size(p) - 1 /\ p \in Pools
      /\ \A i \in 1..Size(q) : q.nodes[i].id = p.nodes[Skip(key + 1, i)].id
  BY PoolFields DEF PoolInv, Left
<1>2. \A i, j \in 1..Size(p) : p.nodes[i].id = p.nodes[j].id => i = j
  BY DEF PoolInv, DistinctNodes
<1>3. \A i \in 1..Size(q) : Skip(key + 1, i) \in 1..Size(p) /\ Skip(key + 1, i) # key + 1
  BY <1>1 DEF Skip
<1>4. \A i, j \in 1..Size(q) : Skip(key + 1, i) = Skip(key + 1, j) => i = j
  BY <1>1 DEF Skip
<1>5. DistinctNodes(q)
  BY <1>1, <1>2, <1>3, <1>4 DEF DistinctNodes
<1>6. p.nodes[key + 1].id \notin Ids(q)
  <2>1. key + 1 \in 1..Size(p)
    BY <1>1
  <2> QED
    BY <1>1, <1>2, <1>3, <2>1 DEF Ids
<1>7. Ids(q) \subseteq Ids(p)
  BY <1>1, <1>3 DEF Ids
<1> QED
  BY <1>5, <1>6, <1>7

LEMMA LeftStatics ==
    ASSUME NEW p \in Pools, NEW key \in 0..Size(p)-1, NEW q, Left(q, p, key)
    PROVE  Cardinality(Statics(q)) = IF p.nodes[key + 1].dynamic THEN Cardinality(Statics(p))
                                     ELSE Cardinality(Statics(p)) - 1
<1> DEFINE k == key + 1
           R == Statics(p) \ {k}
           f == [i \in Statics(q) |-> Skip(k, i)]
<1>1. /\ Size(p) \in Nat /\ Size(q) = Size(p) - 1 /\ k \in 1..Size(p)
      /\ DOMAIN p.nodes = 1..Size(p) /\ DOMAIN q.nodes = 1..Size(q)
      /\ \A i \in 1..Size(q) : q.nodes[i].dynamic = p.nodes[Skip(k, i)].dynamic
  BY PoolFields DEF Left
<1> HIDE DEF k
<1>2. Statics(q) \subseteq 1..Size(q) /\ Statics(p) \subseteq 1..Size(p)
  BY <1>1 DEF Statics
<1>3. \A i \in Statics(q) : Skip(k, i) \in R
  BY <1>1, <1>2 DEF Statics, Skip
<1>4. \A i, j \in Statics(q) : Skip(k, i) = Skip(k, j) => i = j
  BY <1>1, <1>2 DEF Skip
<1>5. ASSUME NEW j \in R PROVE \E i \in Statics(q) : Skip(k, i) = j
  <2> DEFINE i == IF j < k THEN j ELSE j - 1
  <2>1. j \in 1..Size(p) /\ j # k /\ ~p.nodes[j].dynamic
    BY <1>1 DEF Statics
  <2>2. i \in 1..Size(q) /\ Skip(k, i) = j
    BY <1>1, <2>1 DEF Skip
  <2>3. ~q.nodes[i].dynamic
    BY <1>1, <2>1, <2>2
  <2>4. i \in Statics(q)
    BY <1>1, <2>2, <2>3 DEF Statics
  <2> QED
    BY <2>2, <2>4
<1>6. f \in Bijection(Statics(q), R)
  <2>1. f \in [Statics(q) -> R]
    BY <1>3
  <2>2. f \in Injection(Statics(q), R)
    BY <2>1, <1>4, Fun_IsInj
  <2>3. f \in Surjection(Statics(q), R)
    BY <2>1, <1>5, Fun_IsSurj
  <2> QED
    BY <2>2, <2>3, Fun_IsBij
<1>7. Cardinality(R) = Cardinality(Statics(q))
  <2>1. IsFiniteSet(Statics(q))
    BY StaticsFinite DEF Left
  <2>2. ExistsBijection(Statics(q), R)
    BY <1>6 DEF ExistsBijection
  <2> QED
    BY <2>1, <2>2, FS_Bijection
<1>8. IsFiniteSet(Statics(p)) /\ Cardinality(Statics(p)) \in Nat
  BY StaticsFinite
<1>9. Cardinality(R) = IF k \in Statics(p) THEN Cardinality(Statics(p)) - 1
                       ELSE Cardinality(Statics(p))
  BY <1>8, FS_RemoveElement
<1>10. k \in Statics(p) <=> ~p.nodes[k].dynamic
  BY <1>1 DEF Statics
<1> QED
  BY <1>7, <1>9, <1>10 DEF k

LEMMA Remainder ==
    ASSUME NEW n \in Nat \ {0}, NEW a \in 0..2*n-1
    PROVE  a % n = IF a < n THEN a ELSE a - n
OBVIOUS

LEMMA MovedKey ==
    ASSUME NEW p \in Pools, Size(p) > 0, NEW kept \in 0..Size(p), NEW key \in 0..Size(p)
    PROVE  /\ Moved(p, kept, key) \in 0..Size(p)-1
           /\ Moved(p, kept, key) = IF kept < key THEN kept
                                    ELSE IF kept = 0 THEN Size(p) - 1 ELSE kept - 1
<1>1. Size(p) \in Nat \ {0}
  BY PoolFields
<1>2. ASSUME kept >= key
      PROVE  (kept - 1 + Size(p)) % Size(p) = IF kept = 0 THEN Size(p) - 1 ELSE kept - 1
  <2> DEFINE n == Size(p)
             a == kept - 1 + n
  <2>1. n \in Nat \ {0} /\ kept \in 0..n
    BY <1>1
  <2> HIDE DEF n
  <2>2. a \in 0..2*n-1 /\ (a < n <=> kept = 0) /\ a - n = kept - 1
    BY <2>1
  <2> HIDE DEF a
  <2>3. a % n = IF a < n THEN a ELSE a - n
    BY <2>1, <2>2, Remainder
  <2>4. kept = 0 => a = n - 1
    BY <2>1 DEF a
  <2> QED
    BY <2>2, <2>3, <2>4 DEF a, n
<1> QED
  BY <1>1, <1>2 DEF Moved

LEMMA NewStrategyGood ==
    ASSUME NEW name, NEW size \in Nat
    PROVE  NewStrategy \in GoodState(name, size)
<1>1. 0 \in WorkerNodeKey
  BY WorkerChoiceAssumption DEF WorkerNodeKey
<1> QED
  BY <1>1 DEF NewStrategy, GoodState, StrategyState, KeyIn

(* remove of each round robin *)
LEMMA RemovedGood ==
    ASSUME NEW p \in Pools, Size(p) < MaxSize, NEW name \in RoundRobins,
           NEW s \in GoodState(name, Size(p) + 1), NEW key \in 0..Size(p)
    PROVE  /\ Removed(p, s, name, key) \in GoodState(name, Size(p))
           /\ name = "ROUND_ROBIN" =>
                  Removed(p, s, name, key).next =
                      IF Size(p) = 0 THEN 0 ELSE Moved(p, s.next, key)
<1>1. /\ s \in StrategyState /\ s.next \in WorkerNodeKey /\ s.nodeId \in WorkerNodeKey
      /\ s.virtualTime \in Nat /\ s.roundId = 0
      /\ KeyIn(s.next, Size(p) + 1) /\ KeyIn(s.nodeId, Size(p) + 1)
      /\ name # "INTERLEAVED_WEIGHTED_ROUND_ROBIN" => s.nodeId = 0
  BY DEF GoodState, StrategyState
<1>2. /\ Size(p) \in Nat /\ (p.nodes = <<>> <=> Size(p) = 0) /\ MaxSize \in Nat
      /\ NewStrategy \in GoodState(name, Size(p)) /\ NewStrategy.next = 0
  BY PoolFields, NewStrategyGood, WorkerChoiceAssumption DEF NewStrategy
<1>3. CASE p.nodes = <<>>
  <2>1. [NewStrategy EXCEPT !.roundId = s.roundId] \in GoodState(name, Size(p))
    BY <1>1, <1>2 DEF NewStrategy, GoodState, StrategyState
  <2>2. Removed(p, s, name, key) \in {NewStrategy, [NewStrategy EXCEPT !.roundId = s.roundId]}
    BY <1>3 DEF Removed, RoundRobinRemoved, WeightedRoundRobinRemoved,
                InterleavedWeightedRoundRobinRemoved, RoundRobins, Weighted
  <2>3. [NewStrategy EXCEPT !.roundId = s.roundId].next = 0
    BY DEF NewStrategy
  <2> QED
    BY <1>2, <1>3, <2>1, <2>2, <2>3
<1>4. CASE p.nodes # <<>>
  <2> DEFINE next == Moved(p, s.next, key)
             nodeId == Moved(p, s.nodeId, key)
  <2>1. Size(p) > 0 /\ s.next \in 0..Size(p) /\ s.nodeId \in 0..Size(p)
    BY <1>1, <1>2, <1>4 DEF KeyIn, WorkerNodeKey
  <2>2. next \in 0..Size(p)-1 /\ nodeId \in 0..Size(p)-1
    BY <2>1, MovedKey
  <2> HIDE DEF next, nodeId
  <2>3. /\ next \in WorkerNodeKey /\ nodeId \in WorkerNodeKey
        /\ KeyIn(next, Size(p)) /\ KeyIn(nodeId, Size(p))
        /\ KeyIn(0, Size(p))
    BY <1>2, <2>1, <2>2 DEF KeyIn, WorkerNodeKey
  <2>4. CASE name = "INTERLEAVED_WEIGHTED_ROUND_ROBIN"
    <3>1. Removed(p, s, name, key) = [s EXCEPT !.next = next, !.nodeId = nodeId]
      BY <1>4, <2>4 DEF Removed, InterleavedWeightedRoundRobinRemoved, next, nodeId
    <3> QED
      BY <1>1, <2>3, <2>4, <3>1 DEF GoodState, StrategyState
  <2>5. CASE name = "ROUND_ROBIN"
    <3>1. Removed(p, s, name, key) = [s EXCEPT !.next = next]
      BY <1>4, <2>5 DEF Removed, RoundRobinRemoved, next
    <3> DEFINE r == [s EXCEPT !.next = next]
    <3>2. /\ r \in StrategyState /\ r.next = next /\ r.roundId = s.roundId
          /\ r.nodeId = s.nodeId
      BY <1>1, <2>3 DEF StrategyState
    <3> HIDE DEF r
    <3>3. r \in GoodState(name, Size(p))
      BY <1>1, <2>3, <2>5, <3>2 DEF GoodState
    <3>4. Removed(p, s, name, key) = r
      BY <3>1 DEF r
    <3>5. r.next = IF Size(p) = 0 THEN 0 ELSE Moved(p, s.next, key)
      BY <2>1, <3>2, PoolFields DEF next
    <3> QED
      BY <3>3, <3>4, <3>5
  <2>6. CASE name = "WEIGHTED_ROUND_ROBIN"
    <3> DEFINE time == IF s.next = key THEN 0 ELSE s.virtualTime
    <3>1. Removed(p, s, name, key) = [s EXCEPT !.next = next, !.virtualTime = time]
      BY <1>4, <2>6 DEF Removed, WeightedRoundRobinRemoved, next
    <3>2. time \in Nat
      BY <1>1
    <3> HIDE DEF time
    <3> DEFINE r == [s EXCEPT !.next = next, !.virtualTime = time]
    <3>3. /\ r \in StrategyState /\ r.next = next /\ r.roundId = s.roundId
          /\ r.nodeId = s.nodeId
      BY <1>1, <2>3, <3>2 DEF StrategyState
    <3> HIDE DEF r
    <3>4. r \in GoodState(name, Size(p))
      BY <1>1, <2>3, <2>6, <3>2, <3>3 DEF GoodState
    <3> QED
      BY <2>6, <3>1, <3>4 DEF r
  <2> QED
    BY <2>4, <2>5, <2>6 DEF RoundRobins, Weighted
<1> QED
  BY <1>3, <1>4

LEMMA FairShareRemovedRenewed ==
    ASSUME NEW p \in Pools, NEW key \in Nat
    PROVE  Renewed(FairShareRemoved(p, key), p)
<1>1. CASE "FAIR_SHARE" \in DOMAIN p.context /\ key < Size(p)
  <2> DEFINE n == [At(p, key) EXCEPT !.virtualEnd = Undefined]
             q == [p EXCEPT !.nodes[key + 1] = n]
  <2>1. Size(p) \in Nat /\ key \in 0..Size(p)-1 /\ key + 1 \in 1..Size(p)
    BY <1>1, PoolFields
  <2>2. At(p, key) \in GoodNode
    BY <2>1, PoolFields DEF At
  <2>3. n \in GoodNode /\ n.id = At(p, key).id /\ n.dynamic = At(p, key).dynamic
    BY <2>2 DEF GoodNode, Node, Measure
  <2> HIDE DEF n
  <2>4. Renewed(q, p)
    BY <2>1, <2>3, RenewedNode
  <2>5. FairShareRemoved(p, key) = q
    BY <1>1 DEF FairShareRemoved, n, At, Pools
  <2> QED
    BY <2>4, <2>5
<1>2. CASE ~("FAIR_SHARE" \in DOMAIN p.context /\ key < Size(p))
  BY <1>2 DEF FairShareRemoved, Renewed
<1> QED
  BY <1>1, <1>2

LEMMA ContextRemovedInv ==
    ASSUME NEW p, PoolInv(p), NEW key \in 0..Size(p)-1
    PROVE  LET q == ContextRemoved(Spliced(p, key), key)
           IN  /\ PoolInv(q) /\ Left(q, p, key) /\ DOMAIN q.context = DOMAIN p.context
               /\ "ROUND_ROBIN" \in DOMAIN p.context =>
                      LET next == p.context["ROUND_ROBIN"].next
                      IN  q.context["ROUND_ROBIN"].next =
                              IF Size(q) = 0 THEN 0 ELSE Moved(q, next, key)
<1> DEFINE s == Spliced(p, key)
           t == FairShareRemoved(s, key)
           context == [name \in DOMAIN p.context |->
                           IF name \in RoundRobins THEN Removed(s, p.context[name], name, key)
                           ELSE p.context[name]]
           q == [t EXCEPT !.context = context]
<1>1. p \in Pools /\ Size(p) \in Nat /\ Size(p) <= MaxSize /\ MaxSize \in Nat
      /\ key \in Nat /\ key + 1 \in 1..Size(p)
  BY PoolFields, WorkerChoiceAssumption DEF PoolInv
<1>2. Left(s, p, key) /\ s.context = p.context
  BY <1>1, SplicedLeft
<1> HIDE DEF s
<1>3. s \in Pools /\ Size(s) = Size(p) - 1 /\ key \in 0..Size(s)
  BY <1>1, <1>2 DEF Left
<1>4. Renewed(t, s)
  BY <1>1, <1>3, FairShareRemovedRenewed
<1>5. ContextRemoved(s, key) = q
  <2>1. t.context = p.context
    BY <1>2, <1>4 DEF Renewed
  <2> QED
    BY <2>1 DEF ContextRemoved
<1> HIDE DEF t
<1>6. ASSUME NEW name \in DOMAIN p.context
      PROVE  context[name] \in GoodState(name, Size(s))
  <2>1. p.context[name] \in GoodState(name, Size(p)) /\ Size(p) = Size(s) + 1
    BY <1>1, <1>3 DEF PoolInv
  <2>2. CASE name \in RoundRobins
    <3>1. Removed(s, p.context[name], name, key) \in GoodState(name, Size(s))
      BY <1>1, <1>3, <2>1, <2>2, RemovedGood
    <3> QED
      BY <2>2, <3>1
  <2>3. CASE name \notin RoundRobins
    BY <2>1, <2>3 DEF GoodState
  <2> QED
    BY <2>2, <2>3
<1>7. "ROUND_ROBIN" \in DOMAIN p.context =>
          context["ROUND_ROBIN"].next =
              IF Size(s) = 0 THEN 0 ELSE Moved(s, p.context["ROUND_ROBIN"].next, key)
  <2> SUFFICES ASSUME "ROUND_ROBIN" \in DOMAIN p.context
               PROVE  context["ROUND_ROBIN"].next =
                          IF Size(s) = 0 THEN 0
                          ELSE Moved(s, p.context["ROUND_ROBIN"].next, key)
    OBVIOUS
  <2> DEFINE c == p.context["ROUND_ROBIN"]
             r == Removed(s, c, "ROUND_ROBIN", key)
  <2>1. c \in GoodState("ROUND_ROBIN", Size(s) + 1) /\ "ROUND_ROBIN" \in RoundRobins
    BY <1>1, <1>3 DEF PoolInv, RoundRobins
  <2>2. context["ROUND_ROBIN"] = r
    BY <2>1
  <2> HIDE DEF c
  <2>3. Size(s) < MaxSize
    BY <1>1, <1>3
  <2> HIDE DEF context
  <2>4. r.next = IF Size(s) = 0 THEN 0 ELSE Moved(s, c.next, key)
    BY <1>3, <2>1, <2>3, RemovedGood
  <2> QED
    BY <2>2, <2>4 DEF c
<1>8. context \in [DOMAIN p.context -> StrategyState] /\ DOMAIN p.context \in SUBSET Every
  <2>1. \A name \in DOMAIN p.context : context[name] \in StrategyState
    BY <1>6 DEF GoodState
  <2> QED
    BY <1>1, <2>1, PoolFields
<1>9. DOMAIN context = DOMAIN p.context
  OBVIOUS
<1> HIDE DEF context
<1>10. /\ q \in Pools /\ q.nodes = t.nodes /\ q.context = context
       /\ q.options = t.options
  BY <1>4, <1>8 DEF Renewed, Pools
<1>11. Left(q, p, key) /\ Size(q) = Size(s)
  BY <1>2, <1>4, <1>10 DEF Left, Renewed, Size
<1>12. DistinctNodes(q)
  BY <1>11, LeftDistinct
<1>13. PoolInv(q)
  BY <1>1, <1>3, <1>6, <1>9, <1>10, <1>11, <1>12 DEF PoolInv
<1>14. "ROUND_ROBIN" \in DOMAIN p.context =>
           q.context["ROUND_ROBIN"].next =
               IF Size(q) = 0 THEN 0 ELSE Moved(q, p.context["ROUND_ROBIN"].next, key)
  BY <1>7, <1>10, <1>11 DEF Moved
<1>15. DOMAIN q.context = DOMAIN p.context
  BY <1>9, <1>10
<1> HIDE DEF q
<1> QED
  BY <1>5, <1>11, <1>13, <1>14, <1>15 DEF s

-----------------------------------------------------------------------------
(* Round robin.  Next comes the node after the one that has its turn. *)

(* From the next key on, a is reached before b *)
Ahead(next, a, b) == \/ next < a /\ (a < b \/ b <= next)
                     \/ a < b /\ b <= next

(* The steps from the next key to one of so many nodes, itself coming last *)
Distance(next, key, size) == IF next < key THEN key - next ELSE key + size - next

LEMMA AheadDistance ==
    ASSUME NEW n \in Nat \ {0}, NEW next \in 0..n-1, NEW a \in 0..n-1, NEW b \in 0..n-1
    PROVE  /\ Distance(next, a, n) \in 1..n
           /\ Ahead(next, a, b) <=> Distance(next, a, n) < Distance(next, b, n)
           /\ (a # b /\ ~Ahead(next, a, b)) => Ahead(next, b, a)
           /\ Ahead(next, a, b) => Distance(a, b, n) = Distance(next, b, n) - Distance(next, a, n)
BY DEF Ahead, Distance

(* Passing from the next key to a, and from there to b, passes nothing else *)
LEMMA AheadPassed ==
    ASSUME NEW n \in Nat \ {0}, NEW next \in 0..n-1, NEW a \in 0..n-1, NEW b \in 0..n-1,
           NEW c \in 0..n-1, Ahead(next, a, c)
    PROVE  /\ Ahead(a, b, c) => Ahead(next, b, c)
           /\ Ahead(next, c, b) => Ahead(a, c, b)
BY DEF Ahead

(* A node that may follow *)
Follows(key, keys) == keys = {} \/ key \in keys

LEMMA FollowingKeyFound ==
    ASSUME NEW p \in Pools, Size(p) > 0, NEW keys \in SUBSET (0..Size(p)-1),
           NEW s, s.next \in 0..Size(p)-1
    PROVE  LET next == FollowingKey(p, s, keys)
           IN  /\ next \in 0..Size(p)-1 /\ Follows(next, keys)
               /\ \A key \in 0..Size(p)-1 :
                      Follows(key, keys) => key = next \/ Ahead(s.next, next, key)
<1> DEFINE n == Size(p)
           at(i) == (s.next + i) % n
           T == {i \in 1..n : Follows(at(i), keys)}
<1>1. n \in Nat \ {0} /\ s.next \in 0..n-1
  BY PoolFields
<1> DEFINE next == s.next
<1>2. FollowingKey(p, s, keys) =
          at(CHOOSE i \in 1..n : Follows(at(i), keys) /\ \A j \in 1..i-1 : ~Follows(at(j), keys))
  BY DEF FollowingKey, Follows
<1> HIDE DEF n, next
<1>3. ASSUME NEW i \in 1..n
      PROVE  /\ at(i) \in 0..n-1 /\ Distance(next, at(i), n) = i
  <2> DEFINE a == next + i
  <2>1. a \in 0..2*n-1 /\ a > next /\ a <= next + n
    BY <1>1 DEF next
  <2>2. a % n = IF a < n THEN a ELSE a - n
    BY <1>1, <2>1, Remainder
  <2>3. at(i) = a % n
    BY DEF next
  <2> HIDE DEF at
  <2> QED
    BY <1>1, <2>1, <2>2, <2>3 DEF Distance, next
<1>4. ASSUME NEW key \in 0..n-1
      PROVE  Distance(next, key, n) \in 1..n /\ at(Distance(next, key, n)) = key
  <2> DEFINE d == Distance(next, key, n)
             a == next + d
  <2>1. d \in 1..n /\ a \in 0..2*n-1 /\ key = IF a < n THEN a ELSE a - n
    BY <1>1 DEF Distance, next
  <2> HIDE DEF d
  <2>2. a % n = key
    BY <1>1, <2>1, Remainder
  <2> QED
    BY <2>1, <2>2 DEF d, next
<1> HIDE DEF at
<1>5. \E i \in 1..n : Follows(at(i), keys)
  <2>1. \E key \in 0..n-1 : Follows(key, keys)
    BY <1>1 DEF Follows, n
  <2> QED
    BY <1>4, <2>1
<1>6. PICK i \in T : \A j \in T : i <= j
  <2>1. T \subseteq Nat /\ T # {}
    BY <1>1, <1>5
  <2> QED
    BY <2>1, LeastNatural
<1>7. \A j \in 1..i-1 : ~Follows(at(j), keys)
  BY <1>1, <1>6
<1> DEFINE k == CHOOSE m \in 1..n : /\ Follows(at(m), keys)
                                   /\ \A j \in 1..m-1 : ~Follows(at(j), keys)
<1>8. k \in 1..n /\ Follows(at(k), keys) /\ \A j \in 1..k-1 : ~Follows(at(j), keys)
  BY <1>6, <1>7
<1>9. FollowingKey(p, s, keys) = at(k)
  BY <1>2
<1> HIDE DEF k, T
<1>10. at(k) \in 0..n-1 /\ Distance(next, at(k), n) = k
  BY <1>3, <1>8
<1>11. ASSUME NEW key \in 0..n-1, Follows(key, keys), key # at(k)
       PROVE  Ahead(next, at(k), key)
  <2> DEFINE d == Distance(next, key, n)
  <2>1. d \in 1..n /\ at(d) = key
    BY <1>4
  <2>2. d # k /\ ~(d \in 1..k-1)
    BY <1>8, <1>11, <2>1
  <2>3. k < d
    BY <1>1, <1>8, <2>1, <2>2
  <2>4. next \in 0..n-1
    BY <1>1 DEF next
  <2> QED
    BY <1>1, <1>10, <2>3, <2>4, AheadDistance
<1> QED
  BY <1>8, <1>9, <1>10, <1>11 DEF n, next

(* Affinity to one key *)
LEMMA SingleKey ==
    ASSUME NEW p, NEW keys, Cardinality(keys) = 1, IsFiniteSet(keys)
    PROVE  keys = {Single(p, keys)}
<1>1. \E x : keys = {x}
  BY FS_Singleton
<1> QED
  BY <1>1 DEF Single

-----------------------------------------------------------------------------
(* What each strategy chooses *)

(* A node of which at most what fair share predicts is another *)
SameNode(n, m) ==
    /\ n.id = m.id /\ n.dynamic = m.dynamic /\ n.ready = m.ready
    /\ n.executing = m.executing

SameNodes(nodes, p) ==
    /\ nodes \in Seq(GoodNode) /\ Len(nodes) = Size(p)
    /\ \A i \in 1..Size(p) : SameNode(nodes[i], p.nodes[i])

NoneEligible(p, keys) == \A key \in 0..Size(p)-1 : ~Eligible(p, key, keys)

LeastExecuting(p, key) ==
    \A k \in 0..Size(p)-1 : Ready(p, k) => At(p, key).executing <= At(p, k).executing

(* A turn passes from next to c.state.next, ready or not *)
TurnPassed(c, p, next, keys) ==
    IF Cardinality(keys) = 1 THEN c.key = NoKey => NoneEligible(p, keys)
    ELSE /\ c.state.next \in 0..Size(p)-1
         /\ c.key = IfReady(p, c.state.next)
         /\ \A key \in 0..Size(p)-1 :
                Follows(key, keys) => key = c.state.next \/ Ahead(next, c.state.next, key)

Chooses(c, p, name, keys) ==
    /\ c.key \in (0..Size(p)-1) \union {NoKey} /\ (c.key # NoKey => Ready(p, c.key))
    /\ c.state \in GoodState(name, Size(p)) /\ SameNodes(c.nodes, p)
    /\ (name \notin RoundRobins /\ c.key = NoKey) => NoneEligible(p, keys)
    /\ (name = "LEAST_USED" /\ keys = {} /\ c.key # NoKey) => LeastExecuting(p, c.key)
    /\ name = "ROUND_ROBIN" => TurnPassed(c, p, p.context[name].next, keys)

LEMMA SameNodesSelf ==
    ASSUME NEW p \in Pools
    PROVE  SameNodes(p.nodes, p)
BY PoolFields DEF SameNodes, SameNode, Size

LEMMA IfReadyKey ==
    ASSUME NEW p \in Pools, NEW key \in 0..Size(p)-1
    PROVE  /\ IfReady(p, key) \in (0..Size(p)-1) \union {NoKey}
           /\ IfReady(p, key) # NoKey => IfReady(p, key) = key /\ Ready(p, key)
           /\ IfReady(p, key) = NoKey => ~Ready(p, key)
<1>1. Size(p) \in Nat /\ NoKey = -1
  BY PoolFields DEF NoKey
<1> QED
  BY <1>1 DEF IfReady

LEMMA KeysFinite ==
    ASSUME NEW n \in Nat, NEW keys \in SUBSET (0..n-1)
    PROVE  IsFiniteSet(keys)
<1>1. 0 \in Int /\ n - 1 \in Int
  OBVIOUS
<1>2. IsFiniteSet(0..n-1)
  BY <1>1, FS_Interval
<1> QED
  BY <1>2, FS_Subset

(* With affinity to one key, no node is eligible when it is not ready *)
LEMMA SingleEligible ==
    ASSUME NEW p \in Pools, NEW keys \in SUBSET (0..Size(p)-1), Cardinality(keys) = 1
    PROVE  LET key == Single(p, keys)
           IN  /\ key \in 0..Size(p)-1
               /\ IfReady(p, key) = NoKey => NoneEligible(p, keys)
<1>1. Size(p) \in Nat
  BY PoolFields
<1>2. keys = {Single(p, keys)}
  BY <1>1, KeysFinite, SingleKey
<1>3. Single(p, keys) \in 0..Size(p)-1
  BY <1>2
<1> QED
  BY <1>2, <1>3, IfReadyKey DEF NoneEligible, Eligible

(* The keys a state keeps are keys of a pool that has nodes *)
LEMMA StateKeys ==
    ASSUME NEW p \in Pools, Size(p) > 0, Size(p) <= MaxSize, NEW name \in RoundRobins,
           NEW s \in GoodState(name, Size(p))
    PROVE  /\ s \in StrategyState /\ s.next \in 0..Size(p)-1 /\ s.nodeId \in 0..Size(p)-1
           /\ s.roundId = 0 /\ s.virtualTime \in Nat
           /\ name # "INTERLEAVED_WEIGHTED_ROUND_ROBIN" => s.nodeId = 0
           /\ 0..Size(p)-1 \subseteq WorkerNodeKey
<1>1. Size(p) \in Nat /\ MaxSize \in Nat
  BY PoolFields, WorkerChoiceAssumption
<1>2. 0..Size(p)-1 \subseteq WorkerNodeKey
  BY <1>1 DEF WorkerNodeKey
<1>3. /\ s \in StrategyState /\ s.next \in Nat /\ s.nodeId \in Nat
      /\ s.roundId = 0 /\ s.virtualTime \in Nat
  BY <1>1 DEF GoodState, StrategyState, WorkerNodeKey
<1> QED
  BY <1>1, <1>2, <1>3 DEF GoodState, KeyIn

(* What may become of the state of a round robin *)
LEMMA StateMoved ==
    ASSUME NEW p \in Pools, Size(p) > 0, Size(p) <= MaxSize, NEW name \in RoundRobins,
           NEW s \in GoodState(name, Size(p)), NEW t \in StrategyState,
           t.next \in 0..Size(p)-1, t.nodeId \in 0..Size(p)-1, t.roundId = 0,
           name # "INTERLEAVED_WEIGHTED_ROUND_ROBIN" => t.nodeId = s.nodeId
    PROVE  t \in GoodState(name, Size(p))
<1>1. KeyIn(t.next, Size(p)) /\ KeyIn(t.nodeId, Size(p))
  BY PoolFields DEF KeyIn
<1> QED
  BY <1>1, StateKeys DEF GoodState

LEMMA RoundRobinChooses ==
    ASSUME NEW p, PoolInv(p), Size(p) > 0, "ROUND_ROBIN" \in DOMAIN p.context,
           NEW keys \in SUBSET (0..Size(p)-1)
    PROVE  Chooses(RoundRobin(p, p.context["ROUND_ROBIN"], keys), p, "ROUND_ROBIN", keys)
<1> DEFINE name == "ROUND_ROBIN"
           s == p.context[name]
           key == IF Cardinality(keys) = 1 THEN Single(p, keys) ELSE FollowingKey(p, s, keys)
           moved == [s EXCEPT !.next = key]
           state == IF Cardinality(keys) = 1 /\ ~Ready(p, key) THEN s ELSE moved
           c == Choice(p, state, IfReady(p, key))
<1>1. /\ p \in Pools /\ Size(p) <= MaxSize /\ name \in RoundRobins /\ name \notin Weighted
      /\ s \in GoodState(name, Size(p))
  BY DEF PoolInv, RoundRobins, Weighted
<1>2. s \in StrategyState /\ s.next \in 0..Size(p)-1 /\ s.nodeId \in 0..Size(p)-1
      /\ s.roundId = 0 /\ 0..Size(p)-1 \subseteq WorkerNodeKey
  BY <1>1, StateKeys
<1>3. key \in 0..Size(p)-1
  BY <1>1, <1>2, FollowingKeyFound, SingleEligible
<1>4. Cardinality(keys) = 1 => (IfReady(p, key) = NoKey => NoneEligible(p, keys))
  BY <1>1, SingleEligible
<1>5. Cardinality(keys) # 1 =>
          \A k \in 0..Size(p)-1 : Follows(k, keys) => k = key \/ Ahead(s.next, key, k)
  BY <1>1, <1>2, FollowingKeyFound
<1>6. RoundRobin(p, s, keys) = c
  BY DEF RoundRobin
<1> HIDE DEF s, key
<1>7. /\ moved \in StrategyState /\ moved.next = key /\ moved.nodeId = s.nodeId
      /\ moved.roundId = s.roundId
  BY <1>2, <1>3 DEF StrategyState
<1> HIDE DEF moved
<1>8. moved \in GoodState(name, Size(p))
  BY <1>1, <1>2, <1>3, <1>7, StateMoved
<1>9. state \in GoodState(name, Size(p)) /\ (Cardinality(keys) # 1 => state.next = key)
  BY <1>1, <1>7, <1>8
<1> HIDE DEF state
<1>10. c.key = IfReady(p, key) /\ c.state = state /\ c.nodes = p.nodes
  BY DEF Choice
<1> HIDE DEF c
<1>11. TurnPassed(c, p, s.next, keys)
  BY <1>3, <1>4, <1>5, <1>9, <1>10 DEF TurnPassed
<1>12. c.key \in (0..Size(p)-1) \union {NoKey} /\ (c.key # NoKey => Ready(p, c.key))
  BY <1>1, <1>3, <1>10, IfReadyKey
<1>13. SameNodes(c.nodes, p)
  BY <1>1, <1>10, SameNodesSelf
<1>14. Chooses(c, p, name, keys)
  BY <1>1, <1>9, <1>10, <1>11, <1>12, <1>13 DEF Chooses, s
<1> QED
  BY <1>6, <1>14 DEF s

LEMMA WeightedRoundRobinChooses ==
    ASSUME NEW p, PoolInv(p), Size(p) > 0, "WEIGHTED_ROUND_ROBIN" \in DOMAIN p.context,
           NEW keys \in SUBSET (0..Size(p)-1)
    PROVE  Chooses(WeightedRoundRobin(p, p.context["WEIGHTED_ROUND_ROBIN"], keys), p,
                   "WEIGHTED_ROUND_ROBIN", keys)
<1> DEFINE name == "WEIGHTED_ROUND_ROBIN"
           s == p.context[name]
           c == WeightedRoundRobin(p, s, keys)
           stays == [s EXCEPT !.virtualTime = @ + TaskRunTime(p, s.next)]
           passes(key) == [s EXCEPT !.next = key, !.virtualTime = 0]
<1>1. /\ p \in Pools /\ Size(p) <= MaxSize /\ name \in RoundRobins /\ name \in Weighted
      /\ s \in GoodState(name, Size(p)) /\ name # "ROUND_ROBIN" /\ name # "LEAST_USED"
  BY DEF PoolInv, RoundRobins, Weighted
<1>2. /\ s \in StrategyState /\ s.next \in 0..Size(p)-1 /\ s.nodeId \in 0..Size(p)-1
      /\ s.virtualTime \in Nat /\ s.roundId = 0 /\ 0..Size(p)-1 \subseteq WorkerNodeKey
  BY <1>1, StateKeys
<1> HIDE DEF s
<1>3. ASSUME NEW key \in 0..Size(p)-1
      PROVE  passes(key) \in GoodState(name, Size(p))
  <2> DEFINE t == passes(key)
  <2>1. t \in StrategyState /\ t.next = key /\ t.nodeId = s.nodeId /\ t.roundId = 0
    BY <1>2 DEF StrategyState
  <2> HIDE DEF t
  <2>2. t \in GoodState(name, Size(p))
    BY <1>1, <1>2, <2>1, StateMoved
  <2> QED
    BY <2>2 DEF t
<1>4. stays \in GoodState(name, Size(p))
  <2> DEFINE time == TaskRunTime(p, s.next)
  <2>1. time \in Nat
    BY <1>1, <1>2, TaskRunTimeNat
  <2> HIDE DEF time
  <2> DEFINE t == [s EXCEPT !.virtualTime = @ + time]
  <2>2. /\ t \in StrategyState /\ t.next = s.next /\ t.nodeId = s.nodeId
        /\ t.roundId = 0
    BY <1>2, <2>1 DEF StrategyState
  <2> HIDE DEF t
  <2>3. t \in GoodState(name, Size(p))
    BY <1>1, <1>2, <2>2, StateMoved
  <2> QED
    BY <2>3 DEF t, time
<1>5. ASSUME NEW state \in GoodState(name, Size(p)), NEW key \in 0..Size(p)-1
      PROVE  Chooses(Choice(p, state, IfReady(p, key)), p, name, keys)
  <2> DEFINE d == Choice(p, state, IfReady(p, key))
  <2>1. d.key = IfReady(p, key) /\ d.state = state /\ d.nodes = p.nodes
    BY DEF Choice
  <2> HIDE DEF d
  <2>2. d.key \in (0..Size(p)-1) \union {NoKey} /\ (d.key # NoKey => Ready(p, d.key))
    BY <1>1, <2>1, IfReadyKey
  <2>3. SameNodes(d.nodes, p)
    BY <1>1, <2>1, SameNodesSelf
  <2>4. Chooses(d, p, name, keys)
    BY <1>1, <2>1, <2>2, <2>3 DEF Chooses
  <2> QED
    BY <2>4 DEF d
<1> HIDE DEF name
<1>6. ASSUME Cardinality(keys) = 1 PROVE Chooses(c, p, name, keys)
  <2> DEFINE key == Single(p, keys)
             state == IF Ready(p, key) THEN passes(key) ELSE s
  <2>1. key \in 0..Size(p)-1
    BY <1>1, <1>6, SingleEligible
  <2>2. c = Choice(p, state, IfReady(p, key))
    BY <1>6 DEF WeightedRoundRobin
  <2> HIDE DEF key
  <2>3. state \in GoodState(name, Size(p))
    BY <1>1, <1>3, <2>1
  <2> QED
    BY <1>5, <2>1, <2>2, <2>3
<1>7. ASSUME Cardinality(keys) # 1,
             (keys = {} \/ s.next \in keys) /\ s.virtualTime < p.options.weights[s.next]
      PROVE  Chooses(c, p, name, keys)
  <2>1. c = Choice(p, stays, IfReady(p, s.next))
    BY <1>7 DEF WeightedRoundRobin
  <2> QED
    BY <1>2, <1>4, <1>5, <2>1
<1>8. ASSUME Cardinality(keys) # 1,
             ~((keys = {} \/ s.next \in keys) /\ s.virtualTime < p.options.weights[s.next])
      PROVE  Chooses(c, p, name, keys)
  <2> DEFINE key == FollowingKey(p, s, keys)
  <2>1. key \in 0..Size(p)-1
    BY <1>1, <1>2, FollowingKeyFound
  <2>2. c = Choice(p, passes(key), IfReady(p, key))
    BY <1>8 DEF WeightedRoundRobin
  <2> HIDE DEF key
  <2>3. passes(key) \in GoodState(name, Size(p))
    BY <1>3, <2>1
  <2> QED
    BY <1>5, <2>1, <2>2, <2>3
<1> QED
  BY <1>6, <1>7, <1>8 DEF s, name

(* There are rounds, and every weight reaches that of the first one *)
LEMMA RoundsFinite ==
    ASSUME NEW p \in Pools
    PROVE  /\ Rounds(p) \in Nat \ {0}
           /\ \A key \in WorkerNodeKey : p.options.weights[key] >= RoundWeight(p, 0)
<1> DEFINE weights == p.options.weights
           T == Range(weights)
           Less(w) == {v \in T : v < w}
<1>1. weights \in [WorkerNodeKey -> Nat \ {0}]
  BY PoolFields, WorkerChoiceAssumption
<1>2. Rounds(p) = Cardinality(T)
      /\ RoundWeight(p, 0) = CHOOSE weight \in T : Cardinality(Less(weight)) = 0
  BY DEF Rounds, RoundWeight
<1> HIDE DEF weights
<1>3. weights \in Surjection(WorkerNodeKey, T) /\ T \subseteq Nat
      /\ \A key \in WorkerNodeKey : weights[key] \in T
  BY <1>1 DEF Surjection, Range
<1>4. IsFiniteSet(WorkerNodeKey)
  <2>1. WorkerNodeKey \in SUBSET (0..MaxSize-1) /\ MaxSize \in Nat
    BY WorkerChoiceAssumption DEF WorkerNodeKey
  <2> QED
    BY <2>1, KeysFinite
<1>5. T # {}
  <2>1. 0 \in WorkerNodeKey
    BY WorkerChoiceAssumption DEF WorkerNodeKey
  <2> QED
    BY <1>3, <2>1
<1>6. IsFiniteSet(T)
  BY <1>3, <1>4, FS_Surjection
<1> HIDE DEF T
<1>7. Cardinality(T) \in Nat \ {0}
  BY <1>5, <1>6, FS_CardinalityType, FS_EmptySet
<1>8. \E weight \in T : Cardinality(Less(weight)) = 0
  <2>1. PICK w \in T : \A v \in T : w <= v
    BY <1>3, <1>5, LeastNatural
  <2>2. Less(w) = {}
    <3>1. ASSUME NEW v \in T, v < w PROVE FALSE
      BY <1>3, <2>1, <3>1
    <3> QED
      BY <3>1
  <2> QED
    BY <2>2, FS_EmptySet
<1>9. RoundWeight(p, 0) \in T /\ Cardinality(Less(RoundWeight(p, 0))) = 0
  <2> HIDE DEF Less
  <2> QED
    BY <1>2, <1>8
<1> DEFINE least == RoundWeight(p, 0)
<1>10. ASSUME NEW w \in T PROVE w >= least
  <2> HIDE DEF least
  <2>1. IsFiniteSet(Less(least))
    BY <1>6, FS_Subset
  <2>2. Less(least) = {}
    <3> HIDE DEF Less
    <3> QED
      BY <1>9, <2>1, FS_EmptySet DEF least
  <2>3. ~(w < least)
    BY <2>2
  <2>4. w \in Nat /\ least \in Nat
    BY <1>3, <1>9 DEF least
  <2> QED
    BY <2>3, <2>4
<1> QED
  BY <1>2, <1>3, <1>7, <1>10 DEF weights

(* The virtual time the i-th node from the one stopped at is compared with *)
TimeAt(s, i) == IF i = 1 /\ s.nodeId = s.next THEN s.virtualTime ELSE 0

TakenAt(p, s, keys, i) ==
    /\ Eligible(p, s.nodeId + i - 1, keys)
    /\ TimeAt(s, i) < p.options.weights[s.nodeId + i - 1]

(* The interleaved strategy takes the first node, from the one stopped at   *)
(* to the last one, that is eligible and below its weight.  The rounds to   *)
(* come test the last node again, in vain, and leave the first round and    *)
(* node to the next choice.                                                 *)
LEMMA InterleavedChoice ==
    ASSUME NEW p, PoolInv(p), Size(p) > 0,
           "INTERLEAVED_WEIGHTED_ROUND_ROBIN" \in DOMAIN p.context,
           NEW keys, Cardinality(keys) # 1
    PROVE  LET s == p.context["INTERLEAVED_WEIGHTED_ROUND_ROBIN"]
               rest == Size(p) - s.nodeId
               c == InterleavedWeightedRoundRobin(p, s, keys)
           IN  \/ /\ \A i \in 1..rest : ~TakenAt(p, s, keys, i)
                  /\ \E time \in Nat :
                         c = Choice(p, [s EXCEPT !.roundId = 0, !.nodeId = 0,
                                                 !.virtualTime = time], NoKey)
               \/ \E i \in 1..rest :
                      LET key == s.nodeId + i - 1
                          time == TimeAt(s, i) + TaskRunTime(p, key)
                      IN  /\ TakenAt(p, s, keys, i)
                          /\ \A j \in 1..i-1 : ~TakenAt(p, s, keys, j)
                          /\ c = Choice(p, [s EXCEPT !.roundId = 0, !.nodeId = key,
                                                     !.virtualTime = time, !.next = key],
                                        key)
<1> DEFINE name == "INTERLEAVED_WEIGHTED_ROUND_ROBIN"
           s == p.context[name]
           rest == Size(p) - s.nodeId
           visits == IF s.roundId < Rounds(p) THEN rest + Rounds(p) - 1 - s.roundId ELSE 0
           Round(i) == IF i <= rest THEN s.roundId ELSE s.roundId + i - rest
           Key(i) == IF i <= rest THEN s.nodeId + i - 1 ELSE Size(p) - 1
           Time(i) == IF \E j \in 1..i : Key(j) # s.next THEN 0 ELSE s.virtualTime
           Taken(i) == LET weight == p.options.weights[Key(i)]
                       IN  /\ Eligible(p, Key(i), keys)
                           /\ weight >= RoundWeight(p, Round(i))
                           /\ Time(i) < weight
           Stopped(i, time) == [s EXCEPT !.roundId = Round(i), !.nodeId = Key(i),
                                         !.virtualTime = time]
           T == {j \in 1..visits : Taken(j)}
           c == InterleavedWeightedRoundRobin(p, s, keys)
<1>1. /\ p \in Pools /\ Size(p) <= MaxSize /\ name \in RoundRobins
      /\ s \in GoodState(name, Size(p)) /\ Size(p) \in Nat \ {0}
  BY PoolFields DEF PoolInv, RoundRobins, Weighted
<1>2. /\ s \in StrategyState /\ s.next \in 0..Size(p)-1 /\ s.nodeId \in 0..Size(p)-1
      /\ s.roundId = 0 /\ s.virtualTime \in Nat /\ 0..Size(p)-1 \subseteq WorkerNodeKey
  BY <1>1, StateKeys
<1>3. c = IF \E i \in 1..visits : Taken(i)
          THEN LET i == Minimum(T)
               IN  Choice(p, [Stopped(i, Time(i) + TaskRunTime(p, Key(i)))
                                  EXCEPT !.next = Key(i)], Key(i))
          ELSE Choice(p, NextNodeId(p, IF visits = 0 THEN s
                                       ELSE Stopped(visits, Time(visits))), NoKey)
  BY DEF InterleavedWeightedRoundRobin
<1>4. /\ Rounds(p) \in Nat \ {0}
      /\ \A key \in WorkerNodeKey : p.options.weights[key] >= RoundWeight(p, 0)
  BY <1>1, RoundsFinite
<1> HIDE DEF s, c
<1>5. rest \in Nat \ {0} /\ visits \in Nat /\ visits = rest + Rounds(p) - 1
  BY <1>1, <1>2, <1>4
<1>6. ASSUME NEW i \in 1..rest
      PROVE  /\ Round(i) = 0 /\ Key(i) = s.nodeId + i - 1 /\ Key(i) \in 0..Size(p)-1
             /\ Time(i) = TimeAt(s, i) /\ Time(i) \in Nat
             /\ Taken(i) <=> TakenAt(p, s, keys, i)
  <2>1. Round(i) = 0 /\ Key(i) = s.nodeId + i - 1 /\ Key(i) \in 0..Size(p)-1
    BY <1>1, <1>2, <1>5
  <2>2. Time(i) = TimeAt(s, i)
    <3>1. CASE i = 1
      <4>1. Key(1) = s.nodeId /\ 1..1 = {1}
        BY <1>2, <1>5
      <4> QED
        BY <3>1, <4>1 DEF TimeAt
    <3>2. CASE i # 1
      <4>1. 1 \in 1..i /\ 2 \in 1..i /\ Key(1) = s.nodeId /\ Key(2) = s.nodeId + 1
        BY <1>2, <1>5, <3>2
      <4>2. Key(1) # Key(2)
        BY <1>2, <4>1
      <4>3. \E j \in 1..i : Key(j) # s.next
        BY <4>1, <4>2
      <4> QED
        BY <3>2, <4>3 DEF TimeAt
    <3> QED
      BY <3>1, <3>2
  <2>3. TimeAt(s, i) \in Nat
    BY <1>2 DEF TimeAt
  <2>4. p.options.weights[Key(i)] >= RoundWeight(p, Round(i))
    BY <1>2, <1>4, <2>1
  <2> HIDE DEF Round, Key, Time
  <2> QED
    BY <2>1, <2>2, <2>3, <2>4 DEF TakenAt
<1>7. ASSUME NEW i \in 1..visits, i > rest, Taken(i)
      PROVE  Taken(rest)
  <2>1. Key(i) = Key(rest) /\ rest \in 1..rest /\ i \in Nat
    BY <1>1, <1>2, <1>5, <1>7
  <2>2. (\E j \in 1..i : Key(j) # s.next) <=> (\E j \in 1..rest : Key(j) # s.next)
    <3>1. ASSUME NEW j \in 1..i, Key(j) # s.next
          PROVE  \E k \in 1..rest : Key(k) # s.next
      <4>1. CASE j <= rest
        BY <1>5, <3>1, <4>1
      <4>2. CASE ~(j <= rest)
        <5>1. Key(j) = Key(rest)
          BY <1>1, <1>2, <1>5, <4>2
        <5> QED
          BY <2>1, <3>1, <5>1
      <4> QED
        BY <4>1, <4>2
    <3>2. ASSUME NEW j \in 1..rest PROVE j \in 1..i
      BY <1>5, <1>7, <2>1
    <3> QED
      BY <3>1, <3>2
  <2>3. Time(i) = Time(rest)
    BY <2>2
  <2>4. /\ TimeAt(s, rest) = Time(rest) /\ Key(rest) = s.nodeId + rest - 1
        /\ Taken(rest) <=> TakenAt(p, s, keys, rest)
    BY <1>6, <2>1
  <2>5. Eligible(p, Key(i), keys) /\ Time(i) < p.options.weights[Key(i)]
    BY <1>7
  <2> HIDE DEF Key, Time, Taken, rest
  <2> QED
    BY <2>1, <2>3, <2>4, <2>5 DEF TakenAt
<1>8. CASE \E i \in 1..visits : Taken(i)
  <2> DEFINE i == Minimum(T)
             key == s.nodeId + i - 1
             time == TimeAt(s, i) + TaskRunTime(p, key)
  <2>1. i \in T /\ \A j \in T : i <= j
    <3>1. T \subseteq Nat /\ T # {}
      BY <1>5, <1>8
    <3> HIDE DEF T
    <3> QED
      BY <3>1, MinimumFound
  <2>2. c = Choice(p, [Stopped(i, Time(i) + TaskRunTime(p, Key(i))) EXCEPT !.next = Key(i)],
                   Key(i))
    BY <1>3, <1>8
  <2> HIDE DEF i
  <2>3. i \in 1..visits /\ Taken(i)
    BY <2>1
  <2> HIDE DEF Taken
  <2>4. i \in 1..rest
    <3>1. ASSUME i > rest PROVE FALSE
      <4>1. Taken(rest)
        BY <1>7, <2>3, <3>1
      <4>2. rest \in 1..visits
        BY <1>4, <1>5
      <4>3. i <= rest
        BY <2>1, <4>1, <4>2
      <4> QED
        BY <1>5, <2>3, <3>1, <4>3
    <3> QED
      BY <1>5, <2>3, <3>1
  <2>5. TakenAt(p, s, keys, i)
    BY <1>6, <2>3, <2>4
  <2>6. ASSUME NEW j \in 1..i-1 PROVE ~TakenAt(p, s, keys, j)
    <3>1. j \in 1..rest /\ j \in 1..visits /\ ~(i <= j)
      BY <1>4, <1>5, <2>3, <2>4
    <3>2. j \notin T
      BY <2>1, <3>1
    <3> QED
      BY <1>6, <3>1, <3>2
  <2>7. Round(i) = 0 /\ Key(i) = key /\ Time(i) = TimeAt(s, i)
    BY <1>6, <2>4
  <2> HIDE DEF Round, Key, Time, key, rest
  <2>8. [Stopped(i, time) EXCEPT !.next = key] =
            [s EXCEPT !.roundId = 0, !.nodeId = key, !.virtualTime = time, !.next = key]
    BY <2>7
  <2> HIDE DEF Stopped
  <2>9. c = Choice(p, [s EXCEPT !.roundId = 0, !.nodeId = key, !.virtualTime = time,
                                !.next = key], key)
    BY <2>2, <2>7, <2>8
  <2> QED
    BY <2>4, <2>5, <2>6, <2>9 DEF s, c, rest, key
<1>9. CASE ~ \E i \in 1..visits : Taken(i)
  <2> DEFINE time == Time(visits)
             t == Stopped(visits, time)
  <2>1. visits # 0 /\ c = Choice(p, NextNodeId(p, t), NoKey)
    <3>1. visits # 0
      BY <1>4, <1>5
    <3> QED
      BY <1>3, <1>9, <3>1
  <2>2. Round(visits) = Rounds(p) - 1 /\ Key(visits) = Size(p) - 1
    BY <1>1, <1>2, <1>4, <1>5
  <2>3. time \in Nat
    BY <1>2
  <2>4. \A i \in 1..rest : ~TakenAt(p, s, keys, i)
    <3>1. \A i \in 1..rest : i \in 1..visits
      BY <1>4, <1>5
    <3> HIDE DEF Taken, rest
    <3> QED
      BY <1>6, <1>9, <3>1
  <2> HIDE DEF Round, Key, Time, time
  <2>5. NextNodeId(p, t) = [s EXCEPT !.roundId = 0, !.nodeId = 0, !.virtualTime = time]
    <3>1. t.nodeId = Size(p) - 1 /\ t.roundId = Rounds(p) - 1
      BY <1>2, <2>2 DEF StrategyState
    <3>2. NextNodeId(p, t) = [t EXCEPT !.roundId = 0, !.nodeId = 0]
      BY <3>1 DEF NextNodeId
    <3>3. [t EXCEPT !.roundId = 0, !.nodeId = 0] =
              [s EXCEPT !.roundId = 0, !.nodeId = 0, !.virtualTime = time]
      BY <1>2 DEF StrategyState
    <3> HIDE DEF t
    <3> QED
      BY <3>2, <3>3
  <2> HIDE DEF t
  <2>6. c = Choice(p, [s EXCEPT !.roundId = 0, !.nodeId = 0, !.virtualTime = time], NoKey)
    BY <2>1, <2>5
  <2> QED
    BY <2>3, <2>4, <2>6 DEF s, c
<1> QED
  BY <1>8, <1>9

LEMMA InterleavedWeightedRoundRobinChooses ==
    ASSUME NEW p, PoolInv(p), Size(p) > 0,
           "INTERLEAVED_WEIGHTED_ROUND_ROBIN" \in DOMAIN p.context,
           NEW keys \in SUBSET (0..Size(p)-1)
    PROVE  Chooses(InterleavedWeightedRoundRobin(p,
                       p.context["INTERLEAVED_WEIGHTED_ROUND_ROBIN"], keys), p,
                   "INTERLEAVED_WEIGHTED_ROUND_ROBIN", keys)
<1> DEFINE name == "INTERLEAVED_WEIGHTED_ROUND_ROBIN"
           s == p.context[name]
           moved(nodeId, time, next) == [s EXCEPT !.roundId = 0, !.nodeId = nodeId,
                                                  !.virtualTime = time, !.next = next]
           c == InterleavedWeightedRoundRobin(p, s, keys)
<1>1. /\ p \in Pools /\ Size(p) <= MaxSize /\ name \in RoundRobins
      /\ s \in GoodState(name, Size(p)) /\ name # "ROUND_ROBIN" /\ name # "LEAST_USED"
      /\ Size(p) \in Nat
  BY PoolFields DEF PoolInv, RoundRobins, Weighted
<1>2. /\ s \in StrategyState /\ s.next \in 0..Size(p)-1 /\ s.nodeId \in 0..Size(p)-1
      /\ s.virtualTime \in Nat /\ 0..Size(p)-1 \subseteq WorkerNodeKey
  BY <1>1, StateKeys
<1>3. Cardinality(keys) = 1 => c = Choice(p, s, IfReady(p, Single(p, keys)))
  BY DEF InterleavedWeightedRoundRobin
<1>4. ASSUME NEW nodeId \in 0..Size(p)-1, NEW time \in Nat, NEW next \in 0..Size(p)-1
      PROVE  moved(nodeId, time, next) \in GoodState(name, Size(p))
  <2> DEFINE t == moved(nodeId, time, next)
  <2>1. t \in StrategyState /\ t.next = next /\ t.nodeId = nodeId /\ t.roundId = 0
    BY <1>2 DEF StrategyState
  <2> HIDE DEF t, s
  <2>2. t \in GoodState(name, Size(p))
    BY <1>1, <2>1, StateMoved
  <2> QED
    BY <2>2 DEF t
<1>5. ASSUME NEW state \in GoodState(name, Size(p)), NEW key \in (0..Size(p)-1) \union {NoKey},
             key # NoKey => Ready(p, key)
      PROVE  Chooses(Choice(p, state, key), p, name, keys)
  <2> DEFINE d == Choice(p, state, key)
  <2>1. d.key = key /\ d.state = state /\ d.nodes = p.nodes
    BY DEF Choice
  <2> HIDE DEF d
  <2>2. SameNodes(d.nodes, p)
    BY <1>1, <2>1, SameNodesSelf
  <2>3. Chooses(d, p, name, keys)
    BY <1>1, <1>5, <2>1, <2>2 DEF Chooses
  <2> QED
    BY <2>3 DEF d
<1>6. CASE Cardinality(keys) = 1
  <2>1. Single(p, keys) \in 0..Size(p)-1
    BY <1>1, <1>6, SingleEligible
  <2>2. /\ IfReady(p, Single(p, keys)) \in (0..Size(p)-1) \union {NoKey}
        /\ IfReady(p, Single(p, keys)) # NoKey => Ready(p, IfReady(p, Single(p, keys)))
    BY <1>1, <2>1, IfReadyKey
  <2> HIDE DEF c, s, name
  <2>3. Chooses(c, p, name, keys)
    BY <1>1, <1>3, <1>5, <1>6, <2>2
  <2> QED
    BY <2>3 DEF c, s, name
<1>7. CASE Cardinality(keys) # 1
  <2>1. \/ \E time \in Nat : c = Choice(p, [s EXCEPT !.roundId = 0, !.nodeId = 0,
                                                     !.virtualTime = time], NoKey)
        \/ \E i \in 1..Size(p)-s.nodeId :
               LET key == s.nodeId + i - 1
                   time == TimeAt(s, i) + TaskRunTime(p, key)
               IN  /\ TakenAt(p, s, keys, i)
                   /\ c = Choice(p, moved(key, time, key), key)
    BY <1>7, InterleavedChoice
  <2> HIDE DEF c, s, name
  <2>2. ASSUME NEW time \in Nat, c = Choice(p, [s EXCEPT !.roundId = 0, !.nodeId = 0,
                                                         !.virtualTime = time], NoKey)
        PROVE  Chooses(c, p, name, keys)
    <3>1. 0 \in 0..Size(p)-1
      BY <1>1
    <3>2. [s EXCEPT !.roundId = 0, !.nodeId = 0, !.virtualTime = time] = moved(0, time, s.next)
      BY <1>2 DEF StrategyState
    <3>3. moved(0, time, s.next) \in GoodState(name, Size(p))
      BY <1>2, <1>4, <3>1
    <3> HIDE DEF moved
    <3> QED
      BY <1>5, <2>2, <3>2, <3>3
  <2>3. ASSUME NEW i \in 1..Size(p)-s.nodeId, TakenAt(p, s, keys, i),
               c = Choice(p, moved(s.nodeId + i - 1,
                                   TimeAt(s, i) + TaskRunTime(p, s.nodeId + i - 1),
                                   s.nodeId + i - 1), s.nodeId + i - 1)
        PROVE  Chooses(c, p, name, keys)
    <3> DEFINE key == s.nodeId + i - 1
               time == TimeAt(s, i) + TaskRunTime(p, key)
    <3>1. key \in 0..Size(p)-1
      BY <1>1, <1>2
    <3>2. TimeAt(s, i) \in Nat /\ Ready(p, key)
      BY <1>2, <2>3 DEF TimeAt, TakenAt, Eligible
    <3> HIDE DEF key
    <3>3. TaskRunTime(p, key) \in Nat
      BY <1>1, <3>1, TaskRunTimeNat
    <3>4. time \in Nat
      BY <3>2, <3>3
    <3> HIDE DEF time
    <3>5. moved(key, time, key) \in GoodState(name, Size(p))
      BY <1>4, <3>1, <3>4
    <3>6. c = Choice(p, moved(key, time, key), key)
      BY <2>3 DEF key, time
    <3> HIDE DEF moved
    <3> QED
      BY <1>5, <3>1, <3>2, <3>5, <3>6
  <2>4. Chooses(c, p, name, keys)
    BY <2>1, <2>2, <2>3
  <2> QED
    BY <2>4 DEF c, s, name
<1> QED
  BY <1>6, <1>7

(* The least load has a node, when there is an eligible one *)
LEMMA LeastChooses ==
    ASSUME NEW p \in Pools, NEW s, NEW keys \in SUBSET (0..Size(p)-1),
           NEW load, \A key \in 0..Size(p)-1 : load[key] \in Measure
    PROVE  LET c == Least(p, s, keys, load)
           IN  /\ c.key \in (0..Size(p)-1) \union {NoKey}
               /\ c.key # NoKey => Ready(p, c.key)
               /\ c.key = NoKey => NoneEligible(p, keys)
               /\ (keys = {} /\ c.key # NoKey) =>
                      \A k \in 0..Size(p)-1 : Ready(p, k) => load[c.key] <= load[k]
               /\ c.state = s /\ c.nodes = p.nodes
<1> DEFINE eligible == {key \in 0..Size(p)-1 : Eligible(p, key, keys)}
           least == {key \in eligible : \A k \in eligible : load[key] <= load[k]}
           loads == {load[key] + 1 : key \in eligible}
           c == Least(p, s, keys, load)
<1>1. Size(p) \in Nat /\ NoKey = -1 /\ Undefined = -1
  BY PoolFields DEF NoKey, Undefined
<1>2. c = Choice(p, s, IF Cardinality(keys) = 1 THEN IfReady(p, Single(p, keys))
                       ELSE IF eligible = {} THEN NoKey ELSE Minimum(least))
  BY DEF Least
<1>3. c.state = s /\ c.nodes = p.nodes
  BY <1>2 DEF Choice
<1>4. c.key = IF Cardinality(keys) = 1 THEN IfReady(p, Single(p, keys))
              ELSE IF eligible = {} THEN NoKey ELSE Minimum(least)
  BY <1>2 DEF Choice
<1> HIDE DEF c
<1>5. CASE Cardinality(keys) = 1
  <2>1. keys # {}
    BY <1>5, FS_EmptySet
  <2>2. Single(p, keys) \in 0..Size(p)-1
    BY <1>5, SingleEligible
  <2>3. /\ c.key \in (0..Size(p)-1) \union {NoKey} /\ (c.key # NoKey => Ready(p, c.key))
        /\ c.key = NoKey => NoneEligible(p, keys)
    BY <1>4, <1>5, <2>2, IfReadyKey, SingleEligible
  <2> QED
    BY <1>3, <2>1, <2>3 DEF c
<1>6. CASE Cardinality(keys) # 1 /\ eligible = {}
  <2>1. NoneEligible(p, keys) /\ c.key = NoKey
    BY <1>4, <1>6 DEF NoneEligible
  <2> QED
    BY <1>3, <2>1 DEF c
<1>7. CASE Cardinality(keys) # 1 /\ eligible # {}
  <2>1. PICK key \in eligible : \A k \in eligible : load[key] + 1 <= load[k] + 1
    <3>1. loads \subseteq Nat /\ loads # {}
      BY <1>1, <1>7 DEF Measure
    <3>2. PICK x \in loads : \A y \in loads : x <= y
      BY <3>1, LeastNatural
    <3> QED
      BY <3>2
  <2>2. key \in least
    BY <1>1, <2>1 DEF Measure
  <2>3. Minimum(least) \in least
    <3>1. least \subseteq Nat /\ least # {}
      BY <1>1, <2>2
    <3> QED
      BY <3>1, MinimumFound
  <2>4. c.key = Minimum(least)
    BY <1>4, <1>7
  <2> DEFINE k == c.key
  <2>5. /\ k \in 0..Size(p)-1 /\ Eligible(p, k, keys)
        /\ \A j \in 0..Size(p)-1 : Eligible(p, j, keys) => load[k] <= load[j]
    BY <2>3, <2>4
  <2>6. k # NoKey
    BY <1>1, <2>5
  <2> HIDE DEF k
  <2>7. Ready(p, k)
    BY <2>5 DEF Eligible
  <2>8. keys = {} => \A j \in 0..Size(p)-1 : Ready(p, j) => load[k] <= load[j]
    BY <2>5 DEF Eligible
  <2> QED
    BY <1>3, <2>5, <2>6, <2>7, <2>8 DEF c, k
<1> QED
  BY <1>5, <1>6, <1>7

LEMMA LeastUsedChooses ==
    ASSUME NEW p, PoolInv(p), "LEAST_USED" \in DOMAIN p.context,
           NEW keys \in SUBSET (0..Size(p)-1)
    PROVE  Chooses(LeastUsed(p, p.context["LEAST_USED"], keys), p, "LEAST_USED", keys)
<1> DEFINE s == p.context["LEAST_USED"]
           load == [key \in 0..Size(p)-1 |-> At(p, key).executing]
           c == Least(p, s, keys, load)
<1>1. p \in Pools /\ "LEAST_USED" # "ROUND_ROBIN" /\ s \in GoodState("LEAST_USED", Size(p))
  BY DEF PoolInv
<1>2. \A key \in 0..Size(p)-1 : load[key] = At(p, key).executing /\ load[key] \in Measure
  <2>1. \A key \in 0..Size(p)-1 : key + 1 \in 1..Size(p)
    BY <1>1, PoolFields
  <2>2. \A key \in 0..Size(p)-1 : At(p, key).executing \in Nat
    BY <1>1, <2>1, PoolFields, NodeFields DEF At
  <2> QED
    BY <2>2 DEF Measure
<1>3. LeastUsed(p, s, keys) = c
  BY DEF LeastUsed
<1> HIDE DEF load, s
<1>4. /\ c.key \in (0..Size(p)-1) \union {NoKey}
      /\ c.key # NoKey => Ready(p, c.key)
      /\ c.key = NoKey => NoneEligible(p, keys)
      /\ (keys = {} /\ c.key # NoKey) =>
             \A k \in 0..Size(p)-1 : Ready(p, k) => load[c.key] <= load[k]
      /\ c.state = s /\ c.nodes = p.nodes
  <2>1. \A key \in 0..Size(p)-1 : load[key] \in Measure
    BY <1>2
  <2> QED
    BY <1>1, <2>1, LeastChooses
<1> HIDE DEF c
<1>5. (keys = {} /\ c.key # NoKey) => LeastExecuting(p, c.key)
  BY <1>2, <1>4 DEF LeastExecuting
<1>6. SameNodes(c.nodes, p)
  BY <1>1, <1>4, SameNodesSelf
<1>7. Chooses(c, p, "LEAST_USED", keys)
  BY <1>1, <1>4, <1>5, <1>6 DEF Chooses
<1> QED
  BY <1>3, <1>7 DEF s

LEMMA LeastBusyChooses ==
    ASSUME NEW p, PoolInv(p), "LEAST_BUSY" \in DOMAIN p.context,
           NEW keys \in SUBSET (0..Size(p)-1)
    PROVE  Chooses(LeastBusy(p, p.context["LEAST_BUSY"], keys), p, "LEAST_BUSY", keys)
<1> DEFINE s == p.context["LEAST_BUSY"]
           load == [key \in 0..Size(p)-1 |-> OrElse(At(p, key).runTime.aggregate, 0)]
           c == Least(p, s, keys, load)
<1>1. /\ p \in Pools /\ s \in GoodState("LEAST_BUSY", Size(p))
      /\ "LEAST_BUSY" # "ROUND_ROBIN" /\ "LEAST_BUSY" # "LEAST_USED"
  BY DEF PoolInv
<1>2. \A key \in 0..Size(p)-1 : load[key] \in Measure
  <2>1. \A key \in 0..Size(p)-1 : key + 1 \in 1..Size(p)
    BY <1>1, PoolFields
  <2>2. \A key \in 0..Size(p)-1 : At(p, key).runTime \in Statistics
    BY <1>1, <2>1, PoolFields, NodeFields DEF At
  <2>3. \A key \in 0..Size(p)-1 : At(p, key).runTime.aggregate \in Measure
    BY <2>2 DEF Statistics
  <2> QED
    BY <2>3 DEF Measure, OrElse
<1>3. LeastBusy(p, s, keys) = c
  BY DEF LeastBusy
<1> HIDE DEF load, s
<1>4. /\ c.key \in (0..Size(p)-1) \union {NoKey}
      /\ c.key # NoKey => Ready(p, c.key)
      /\ c.key = NoKey => NoneEligible(p, keys)
      /\ c.state = s /\ c.nodes = p.nodes
  BY <1>1, <1>2, LeastChooses
<1> HIDE DEF c
<1>5. SameNodes(c.nodes, p)
  BY <1>1, <1>4, SameNodesSelf
<1>6. Chooses(c, p, "LEAST_BUSY", keys)
  BY <1>1, <1>4, <1>5 DEF Chooses
<1> QED
  BY <1>3, <1>6 DEF s

LEMMA FairShareChooses ==
    ASSUME NEW p, PoolInv(p), "FAIR_SHARE" \in DOMAIN p.context,
           NEW keys \in SUBSET (0..Size(p)-1), NEW time \in Nat
    PROVE  Chooses(FairShare(p, p.context["FAIR_SHARE"], keys, time), p, "FAIR_SHARE", keys)
<1> DEFINE s == p.context["FAIR_SHARE"]
           predicted(i) == IF /\ Eligible(p, i - 1, keys)
                              /\ p.nodes[i].virtualEnd = Undefined
                           THEN [p.nodes[i] EXCEPT !.virtualEnd = VirtualEnd(p, i - 1, time)]
                           ELSE p.nodes[i]
           nodes == [i \in DOMAIN p.nodes |-> predicted(i)]
           compared == IF Cardinality(keys) = 1 THEN p ELSE [p EXCEPT !.nodes = nodes]
           load == [key \in 0..Size(p)-1 |-> At(compared, key).virtualEnd]
           c == Least(compared, s, keys, load)
<1>1. /\ p \in Pools /\ s \in GoodState("FAIR_SHARE", Size(p)) /\ Size(p) \in Nat
      /\ "FAIR_SHARE" # "ROUND_ROBIN" /\ "FAIR_SHARE" # "LEAST_USED"
      /\ DOMAIN p.nodes = 1..Size(p) /\ \A i \in 1..Size(p) : p.nodes[i] \in GoodNode
  BY PoolFields DEF PoolInv
<1>2. FairShare(p, s, keys, time) = c
  BY DEF FairShare
<1> HIDE DEF s
<1>3. ASSUME NEW i \in 1..Size(p)
      PROVE  predicted(i) \in GoodNode /\ SameNode(predicted(i), p.nodes[i])
  <2> DEFINE end == VirtualEnd(p, i - 1, time)
             n == p.nodes[i]
             m == [n EXCEPT !.virtualEnd = end]
  <2>1. i - 1 \in 0..Size(p)-1
    BY <1>1
  <2>2. end \in Nat
    BY <1>1, <2>1, VirtualEndMeasure
  <2>3. n \in GoodNode
    BY <1>1
  <2> HIDE DEF end
  <2>4. predicted(i) \in {n, m}
    BY DEF end
  <2> HIDE DEF n, predicted
  <2>5. m \in GoodNode /\ SameNode(m, n) /\ SameNode(n, n)
    BY <2>2, <2>3 DEF GoodNode, Node, Measure, SameNode
  <2> QED
    BY <2>3, <2>4, <2>5 DEF n
<1> HIDE DEF predicted
<1>4. SameNodes(nodes, p)
  <2>1. nodes \in Seq(GoodNode) /\ Len(nodes) = Size(p)
    BY <1>1, <1>3, SeqDef
  <2>2. \A i \in 1..Size(p) : nodes[i] = predicted(i)
    BY <1>1
  <2> QED
    BY <1>3, <2>1, <2>2 DEF SameNodes
<1> HIDE DEF nodes
<1>5. /\ compared \in Pools /\ SameNodes(compared.nodes, p)
  BY <1>1, <1>4, SameNodesSelf DEF SameNodes, Pools
<1> HIDE DEF compared
<1>6. /\ Size(compared) = Size(p)
      /\ \A key \in 0..Size(p)-1 : Ready(compared, key) = Ready(p, key)
  <2>1. Size(compared) = Size(p)
    BY <1>5 DEF SameNodes, Size
  <2>2. \A key \in 0..Size(p)-1 : key + 1 \in 1..Size(p)
    BY <1>1
  <2> QED
    BY <1>5, <2>1, <2>2 DEF SameNodes, SameNode, Ready, At
<1>7. \A key \in 0..Size(p)-1 : load[key] \in Measure
  <2>1. \A key \in 0..Size(p)-1 : key + 1 \in 1..Size(p)
    BY <1>1
  <2> QED
    BY <1>5, <1>6, <2>1, PoolFields, NodeFields DEF At
<1> HIDE DEF load
<1>8. /\ c.key \in (0..Size(p)-1) \union {NoKey}
      /\ c.key # NoKey => Ready(compared, c.key)
      /\ c.key = NoKey => NoneEligible(compared, keys)
      /\ c.state = s /\ c.nodes = compared.nodes
  <2>1. Size(compared) = Size(p)
    BY <1>6
  <2>2. /\ keys \in SUBSET (0..Size(compared)-1) /\ compared \in Pools
        /\ \A key \in 0..Size(compared)-1 : load[key] \in Measure
    BY <1>5, <1>7, <2>1
  <2>3. /\ c.key \in (0..Size(compared)-1) \union {NoKey}
        /\ c.key # NoKey => Ready(compared, c.key)
        /\ c.key = NoKey => NoneEligible(compared, keys)
        /\ c.state = s /\ c.nodes = compared.nodes
    BY <2>2, LeastChooses
  <2> QED
    BY <2>1, <2>3
<1> HIDE DEF c
<1>9. /\ c.key # NoKey => Ready(p, c.key)
      /\ c.key = NoKey => NoneEligible(p, keys)
  BY <1>6, <1>8 DEF NoneEligible, Eligible
<1>10. Chooses(c, p, "FAIR_SHARE", keys)
  BY <1>1, <1>5, <1>8, <1>9 DEF Chooses
<1> QED
  BY <1>2, <1>10 DEF s

(* Whatever the strategy *)
LEMMA ChooseChooses ==
    ASSUME NEW p, PoolInv(p), Size(p) > 0, NEW name \in DOMAIN p.context,
           NEW keys \in SUBSET (0..Size(p)-1), NEW time \in Nat
    PROVE  Chooses(Choose(p, name, keys, time), p, name, keys)
<1> DEFINE s == p.context[name]
<1>1. name \in Every
  BY PoolFields DEF PoolInv
<1>2. CASE name = "ROUND_ROBIN"
  BY <1>2, RoundRobinChooses DEF Choose
<1>3. CASE name = "WEIGHTED_ROUND_ROBIN"
  BY <1>3, WeightedRoundRobinChooses DEF Choose
<1>4. CASE name = "INTERLEAVED_WEIGHTED_ROUND_ROBIN"
  BY <1>4, InterleavedWeightedRoundRobinChooses DEF Choose
<1>5. CASE name = "LEAST_USED"
  BY <1>5, LeastUsedChooses DEF Choose
<1>6. CASE name = "LEAST_BUSY"
  BY <1>6, LeastBusyChooses DEF Choose
<1>7. CASE name = "FAIR_SHARE"
  BY <1>7, FairShareChooses DEF Choose
<1> QED
  BY <1>1, <1>2, <1>3, <1>4, <1>5, <1>6, <1>7 DEF Every, Averaging, Weighted

-----------------------------------------------------------------------------
(* The tries of executeStrategy *)

(* q is p after choices by a strategy *)
AsTried(q, p, name) ==
    /\ PoolInv(q) /\ Size(q) = Size(p) /\ SameNodes(q.nodes, p) /\ q.options = p.options
    /\ DOMAIN q.context = DOMAIN p.context
    /\ \A other \in DOMAIN p.context \ {name} : q.context[other] = p.context[other]

LEMMA AsTriedSelf ==
    ASSUME NEW p, PoolInv(p), NEW name
    PROVE  AsTried(p, p, name)
BY SameNodesSelf DEF AsTried, PoolInv

LEMMA AsTriedSame ==
    ASSUME NEW p, PoolInv(p), NEW q, NEW name, AsTried(q, p, name), NEW keys
    PROVE  /\ \A key \in 0..Size(p)-1 :
                  /\ Ready(q, key) = Ready(p, key)
                  /\ Eligible(q, key, keys) = Eligible(p, key, keys)
                  /\ IfReady(q, key) = IfReady(p, key)
                  /\ At(q, key).executing = At(p, key).executing
                  /\ At(q, key).id = At(p, key).id
           /\ NoneEligible(q, keys) = NoneEligible(p, keys)
           /\ \A key \in 0..Size(p)-1 : LeastExecuting(q, key) => LeastExecuting(p, key)
<1>1. Size(p) \in Nat /\ Size(q) = Size(p) /\ SameNodes(q.nodes, p)
  BY PoolFields DEF AsTried, PoolInv
<1>2. \A key \in 0..Size(p)-1 : SameNode(At(q, key), At(p, key))
  <2>1. \A key \in 0..Size(p)-1 : key + 1 \in 1..Size(p)
    BY <1>1
  <2> QED
    BY <1>1, <2>1 DEF SameNodes, At
<1>3. \A key \in 0..Size(p)-1 : Ready(q, key) = Ready(p, key)
  BY <1>1, <1>2 DEF SameNode, Ready
<1>4. \A key \in 0..Size(p)-1 : Eligible(q, key, keys) = Eligible(p, key, keys)
  BY <1>3 DEF Eligible
<1>5. NoneEligible(q, keys) = NoneEligible(p, keys)
  BY <1>1, <1>4 DEF NoneEligible
<1>6. \A key \in 0..Size(p)-1 : LeastExecuting(q, key) => LeastExecuting(p, key)
  BY <1>1, <1>2, <1>3 DEF LeastExecuting, SameNode
<1>7. \A key \in 0..Size(p)-1 : IfReady(q, key) = IfReady(p, key)
  BY <1>3 DEF IfReady
<1> QED
  BY <1>2, <1>3, <1>4, <1>5, <1>6, <1>7 DEF SameNode

(* What every strategy promises of a try *)
Tried(t, p, name, keys) ==
    /\ AsTried(t.pool, p, name)
    /\ t.key \in (0..Size(p)-1) \union {NoKey} /\ (t.key # NoKey => Ready(p, t.key))
    /\ (name \notin RoundRobins /\ t.key = NoKey) => NoneEligible(p, keys)
    /\ (name = "LEAST_USED" /\ keys = {} /\ t.key # NoKey) => LeastExecuting(p, t.key)

Tries == [key : Int, pool : Pools]

LEMMA TryTried ==
    ASSUME NEW p, PoolInv(p), Size(p) > 0, NEW name \in DOMAIN p.context,
           NEW keys \in SUBSET (0..Size(p)-1), NEW time \in Nat,
           NEW q, AsTried(q, p, name)
    PROVE  LET c == Choose(q, name, keys, time)
               t == Try(q, name, keys, time)
           IN  /\ t \in Tries /\ Tried(t, p, name, keys) /\ Chooses(c, q, name, keys)
               /\ t.key = c.key /\ t.pool.context[name] = c.state
<1> DEFINE c == Choose(q, name, keys, time)
           t == Try(q, name, keys, time)
           r == [q EXCEPT !.nodes = c.nodes, !.context[name] = c.state]
<1>1. /\ PoolInv(q) /\ q \in Pools /\ Size(q) = Size(p) /\ Size(p) \in Nat
      /\ DOMAIN q.context = DOMAIN p.context
  BY PoolFields DEF AsTried, PoolInv
<1>2. Chooses(c, q, name, keys)
  BY <1>1, ChooseChooses
<1>3. t = [key |-> c.key, pool |-> r]
  BY DEF Try
<1> HIDE DEF c
<1>4. /\ c.state \in GoodState(name, Size(p)) /\ c.state \in StrategyState
      /\ SameNodes(c.nodes, q) /\ c.nodes \in Seq(GoodNode) /\ Len(c.nodes) = Size(p)
  BY <1>1, <1>2 DEF Chooses, GoodState, SameNodes
<1>5. /\ r \in Pools /\ r.nodes = c.nodes /\ r.options = q.options
      /\ DOMAIN r.context = DOMAIN q.context /\ r.context[name] = c.state
      /\ \A other \in DOMAIN q.context \ {name} : r.context[other] = q.context[other]
  <2> DEFINE context == [q.context EXCEPT ![name] = c.state]
  <2>1. /\ DOMAIN q.context \in SUBSET Every
        /\ q.context \in [DOMAIN q.context -> StrategyState]
    BY <1>1, PoolFields
  <2>2. /\ context \in [DOMAIN q.context -> StrategyState] /\ context[name] = c.state
        /\ DOMAIN context = DOMAIN q.context
        /\ \A other \in DOMAIN q.context \ {name} : context[other] = q.context[other]
    BY <1>1, <1>4, <2>1
  <2>3. r = [nodes |-> c.nodes, context |-> context, options |-> q.options]
    <3>1. r = [[q EXCEPT !.nodes = c.nodes] EXCEPT !.context = context]
      BY <1>1 DEF Pools
    <3> HIDE DEF r, context
    <3>2. q = [nodes |-> q.nodes, context |-> q.context, options |-> q.options]
      BY <1>1, PoolFields
    <3> QED
      BY <3>1, <3>2
  <2> HIDE DEF context, r
  <2>4. q.options \in Options
    BY <1>1, PoolFields
  <2> QED
    BY <1>4, <2>1, <2>2, <2>3, <2>4 DEF Pools
<1> HIDE DEF r
<1>6. AsTried(r, p, name)
  <2>1. Size(r) = Size(p)
    BY <1>4, <1>5 DEF Size
  <2>2. SameNodes(r.nodes, p)
    BY <1>1, <1>4, <1>5 DEF AsTried, SameNodes, SameNode
  <2>3. DistinctNodes(r)
    BY <1>1, <2>1, <2>2 DEF AsTried, PoolInv, DistinctNodes, SameNodes, SameNode
  <2>4. \A other \in DOMAIN r.context : r.context[other] \in GoodState(other, Size(r))
    BY <1>1, <1>4, <1>5, <2>1 DEF PoolInv
  <2>5. PoolInv(r)
    BY <1>1, <1>5, <2>1, <2>3, <2>4 DEF PoolInv
  <2> QED
    BY <1>1, <1>5, <2>1, <2>2, <2>5 DEF AsTried
<1>7. t.key = c.key /\ t.pool = r /\ t \in Tries
  <2>1. c.key \in Int
    BY <1>1, <1>2 DEF Chooses, NoKey
  <2> QED
    BY <1>3, <1>5, <2>1 DEF Tries
<1> HIDE DEF t
<1>8. \A key \in 0..Size(p)-1 : /\ Ready(q, key) = Ready(p, key)
                                /\ LeastExecuting(q, key) => LeastExecuting(p, key)
  BY AsTriedSame
<1>9. NoneEligible(q, keys) = NoneEligible(p, keys)
  BY AsTriedSame
<1>10. Tried(t, p, name, keys)
  BY <1>1, <1>2, <1>6, <1>7, <1>8, <1>9 DEF Tried, Chooses
<1> QED
  BY <1>2, <1>5, <1>7, <1>10 DEF c, t

(* Of round robin, after a number of tries: the nodes passed over were not  *)
(* eligible, and those that are come nearer with each try                   *)
TurnTried(t, p, keys, tries) ==
    LET next == p.context["ROUND_ROBIN"].next
        turn == t.pool.context["ROUND_ROBIN"].next
    IN  IF Cardinality(keys) = 1 THEN t.key = NoKey => NoneEligible(p, keys)
        ELSE /\ turn \in 0..Size(p)-1 /\ t.key = IfReady(p, turn)
             /\ \A key \in 0..Size(p)-1 :
                    Eligible(p, key, keys) =>
                        /\ key = turn \/ Ahead(next, turn, key)
                        /\ t.key = NoKey => Distance(turn, key, Size(p)) <= Size(p) - tries

LEMMA TurnTriedFirst ==
    ASSUME NEW p, PoolInv(p), Size(p) > 0, "ROUND_ROBIN" \in DOMAIN p.context,
           NEW keys \in SUBSET (0..Size(p)-1), NEW time \in Nat
    PROVE  TurnTried(Try(p, "ROUND_ROBIN", keys, time), p, keys, 1)
<1> DEFINE name == "ROUND_ROBIN"
           c == Choose(p, name, keys, time)
           t == Try(p, name, keys, time)
           next == p.context[name].next
           turn == t.pool.context[name].next
           n == Size(p)
<1>1. AsTried(p, p, name) /\ n \in Nat \ {0}
  BY AsTriedSelf, PoolFields DEF PoolInv
<1>2. /\ Chooses(c, p, name, keys) /\ t.key = c.key /\ t.pool.context[name] = c.state
  <2> HIDE DEF name
  <2>1. name \in DOMAIN p.context
    BY DEF name
  <2>2. ASSUME NEW q, AsTried(q, p, name)
        PROVE  LET d == Choose(q, name, keys, time)
                   u == Try(q, name, keys, time)
               IN  Chooses(d, q, name, keys) /\ u.key = d.key /\ u.pool.context[name] = d.state
    BY <2>1, <2>2, TryTried
  <2> QED
    BY <1>1, <2>2
<1> HIDE DEF c, t
<1>3. TurnPassed(c, p, next, keys)
  BY <1>2 DEF Chooses
<1>4. CASE Cardinality(keys) = 1
  BY <1>2, <1>3, <1>4 DEF TurnTried, TurnPassed, t
<1>5. CASE Cardinality(keys) # 1
  <2>1. /\ turn \in 0..n-1 /\ t.key = IfReady(p, turn)
        /\ \A key \in 0..n-1 : Follows(key, keys) => key = turn \/ Ahead(next, turn, key)
    BY <1>2, <1>3, <1>5 DEF TurnPassed
  <2>2. next \in 0..n-1
    BY <1>1, StateKeys DEF PoolInv, RoundRobins
  <2> HIDE DEF turn, next, n
  <2>3. ASSUME NEW key \in 0..n-1, Eligible(p, key, keys)
        PROVE  /\ key = turn \/ Ahead(next, turn, key)
               /\ t.key = NoKey => Distance(turn, key, n) <= n - 1
    <3>1. Follows(key, keys) /\ Ready(p, key)
      BY <2>3 DEF Eligible, Follows
    <3>2. key = turn \/ Ahead(next, turn, key)
      BY <2>1, <3>1
    <3>3. ASSUME t.key = NoKey
          PROVE  Distance(turn, key, n) <= n - 1
      <4>1. ~Ready(p, turn)
        BY <2>1, <3>3, IfReadyKey DEF PoolInv, n
      <4>2. key # turn /\ Ahead(next, turn, key)
        BY <3>1, <3>2, <4>1
      <4>3. /\ Distance(turn, key, n) = Distance(next, key, n) - Distance(next, turn, n)
            /\ Distance(next, key, n) \in 1..n /\ Distance(next, turn, n) \in 1..n
        BY <1>1, <2>1, <2>2, <4>2, AheadDistance DEF n
      <4> QED
        BY <1>1, <4>3 DEF n
    <3> QED
      BY <3>2, <3>3
  <2>4. TurnTried(t, p, keys, 1)
    BY <1>5, <2>1, <2>3 DEF TurnTried, turn, next, n
  <2> QED
    BY <2>4 DEF t
<1> QED
  BY <1>4, <1>5

LEMMA TurnTriedAgain ==
    ASSUME NEW p, PoolInv(p), Size(p) > 0, "ROUND_ROBIN" \in DOMAIN p.context,
           NEW keys \in SUBSET (0..Size(p)-1), NEW time \in Nat,
           NEW tried, Tried(tried, p, "ROUND_ROBIN", keys), NEW tries \in Nat,
           TurnTried(tried, p, keys, tries), tried.key = NoKey
    PROVE  TurnTried(Try(tried.pool, "ROUND_ROBIN", keys, time), p, keys, tries + 1)
<1> DEFINE name == "ROUND_ROBIN"
           q == tried.pool
           c == Choose(q, name, keys, time)
           t == Try(q, name, keys, time)
           next == p.context[name].next
           before == q.context[name].next
           turn == t.pool.context[name].next
           n == Size(p)
<1>1. AsTried(q, p, name) /\ n \in Nat \ {0} /\ PoolInv(q) /\ Size(q) = n
  BY PoolFields DEF PoolInv, Tried, AsTried
<1>2. /\ Chooses(c, q, name, keys) /\ t.key = c.key /\ t.pool.context[name] = c.state
  <2> HIDE DEF name
  <2>1. name \in DOMAIN p.context
    BY DEF name
  <2> QED
    BY <1>1, <2>1, TryTried
<1> HIDE DEF c, t
<1>3. TurnPassed(c, q, before, keys)
  BY <1>2 DEF Chooses
<1>4. \A key \in 0..n-1 : IfReady(q, key) = IfReady(p, key)
  BY <1>1, AsTriedSame
<1>5. NoneEligible(q, keys) = NoneEligible(p, keys)
  BY <1>1, AsTriedSame
<1>6. CASE Cardinality(keys) = 1
  BY <1>2, <1>3, <1>5, <1>6 DEF TurnTried, TurnPassed, t
<1>7. CASE Cardinality(keys) # 1
  <2>1. /\ turn \in 0..n-1 /\ t.key = IfReady(p, turn)
        /\ \A key \in 0..n-1 : Follows(key, keys) => key = turn \/ Ahead(before, turn, key)
    BY <1>1, <1>2, <1>3, <1>4, <1>7 DEF TurnPassed
  <2>2. next \in 0..n-1
    BY <1>1, StateKeys DEF PoolInv, RoundRobins
  <2>3. /\ before \in 0..n-1 /\ NoKey = IfReady(p, before)
        /\ \A key \in 0..n-1 :
               Eligible(p, key, keys) => /\ key = before \/ Ahead(next, before, key)
                                         /\ Distance(before, key, n) <= n - tries
    BY <1>7 DEF TurnTried
  <2> HIDE DEF turn, next, before, n
  <2>4. ~Ready(p, before)
    BY <2>3, IfReadyKey DEF PoolInv, n
  <2>5. ASSUME NEW key \in 0..n-1, Eligible(p, key, keys)
        PROVE  /\ key = turn \/ Ahead(next, turn, key)
               /\ t.key = NoKey => Distance(turn, key, n) <= n - (tries + 1)
    <3>1. Follows(key, keys) /\ Ready(p, key)
      BY <2>5 DEF Eligible, Follows
    <3>2. Ahead(next, before, key)
      BY <2>3, <2>4, <2>5, <3>1
    <3>3. key = turn \/ (Ahead(before, turn, key) /\ Ahead(next, turn, key))
      BY <1>1, <2>1, <2>2, <2>3, <3>1, <3>2, AheadPassed DEF n
    <3>4. ASSUME t.key = NoKey
          PROVE  Distance(turn, key, n) <= n - (tries + 1)
      <4>1. ~Ready(p, turn)
        BY <2>1, <3>4, IfReadyKey DEF PoolInv, n
      <4>2. key # turn /\ Ahead(before, turn, key)
        BY <3>1, <3>3, <4>1
      <4>3. /\ Distance(turn, key, n) = Distance(before, key, n) - Distance(before, turn, n)
            /\ Distance(before, key, n) \in 1..n /\ Distance(before, turn, n) \in 1..n
        BY <1>1, <2>1, <2>3, <4>2, AheadDistance DEF n
      <4>4. Distance(before, key, n) <= n - tries
        BY <2>3, <2>5
      <4> QED
        BY <1>1, <4>3, <4>4 DEF n
    <3> QED
      BY <3>3, <3>4
  <2>6. TurnTried(t, p, keys, tries + 1)
    BY <1>7, <2>1, <2>5 DEF TurnTried, turn, next, n
  <2> QED
    BY <2>6 DEF t
<1> QED
  BY <1>6, <1>7

(* executeStrategy: a try, and the retries *)
Loop(after, p, name, keys, time) ==
    /\ after[0] = Try(p, name, keys, time)
    /\ \A i \in 1..Retries : after[i] = TryAgain(after[i - 1], name, keys, time)
    /\ \A i \in 0..Retries : Tried(after[i], p, name, keys)
    /\ Executed(p, name, keys, time) = after[Retries]

LEMMA ExecutedLoop ==
    ASSUME NEW p, PoolInv(p), Size(p) > 0, NEW name \in DOMAIN p.context,
           NEW keys \in SUBSET (0..Size(p)-1), NEW time \in Nat
    PROVE  \E after : Loop(after, p, name, keys, time)
<1> DEFINE first == Try(p, name, keys, time)
           again(t) == TryAgain(t, name, keys, time)
           after[i \in 0..Retries] == IF i = 0 THEN Try(p, name, keys, time)
                                      ELSE TryAgain(after[i - 1], name, keys, time)
           U == {t \in Tries : Tried(t, p, name, keys)}
           step == [e \in U \X (1..Retries) |-> again(e[1])]
<1>1. Executed(p, name, keys, time) = after[Retries]
  BY DEF Executed
<1>2. Retries \in Nat
  BY WorkerChoiceAssumption DEF Retries
<1>3. first \in U
  <2>1. AsTried(p, p, name)
    BY AsTriedSelf
  <2>2. ASSUME NEW q, AsTried(q, p, name)
        PROVE  Try(q, name, keys, time) \in U
    BY <2>2, TryTried
  <2> QED
    BY <2>1, <2>2
<1>4. ASSUME NEW t \in U
      PROVE  again(t) \in U
  <2>1. AsTried(t.pool, p, name)
    BY DEF Tried
  <2>2. Try(t.pool, name, keys, time) \in U
    BY <2>1, TryTried
  <2> QED
    BY <2>2 DEF TryAgain
<1> HIDE DEF first
<1>5. \A t \in U, i \in 1..Retries : step[<<t, i>>] = again(t) /\ step[<<t, i>>] \in U
  <2> HIDE DEF U, again
  <2> QED
    BY <1>4
<1> HIDE DEF U, step, again
<1>6. PICK f : Turns(f, U, first, step, Retries)
  BY <1>2, <1>3, <1>5, TurnsExist
<1>7. f \in [0..Retries -> U] /\ f[0] = first
      /\ \A i \in 1..Retries : f[i] = again(f[i - 1])
  <2>1. f \in [0..Retries -> U] /\ f[0] = first
        /\ \A i \in 1..Retries : f[i] = step[<<f[i - 1], i>>]
    BY <1>6 DEF Turns
  <2>2. ASSUME NEW i \in 1..Retries PROVE f[i] = again(f[i - 1])
    <3>1. i - 1 \in 0..Retries
      BY <1>2
    <3>2. f[i - 1] \in U
      BY <2>1, <3>1
    <3> QED
      BY <1>5, <2>1, <3>2
  <2> QED
    BY <2>1, <2>2
<1>8. f = [i \in 0..Retries |-> IF i = 0 THEN first ELSE again(f[i - 1])]
  BY <1>7
<1>9. after = [i \in 0..Retries |-> IF i = 0 THEN first ELSE again(after[i - 1])]
  BY <1>8 DEF first, again
<1> HIDE DEF after
<1>10. after[0] = first /\ \A i \in 1..Retries : after[i] = again(after[i - 1])
  BY <1>2, <1>9
<1> DEFINE T == {i \in 0..Retries : after[i] \in U}
<1>11. 0 \in T
  BY <1>2, <1>3, <1>10
<1>12. ASSUME NEW i \in 1..Retries, i - 1 \in T PROVE i \in T
  <2>1. i \in 0..Retries /\ again(after[i - 1]) \in U
    BY <1>2, <1>4, <1>12
  <2> QED
    BY <1>10, <2>1
<1>13. \A i \in 0..Retries : i \in T
  <2> HIDE DEF T
  <2> QED
    BY <1>2, <1>11, <1>12, SetInduction
<1>14. \A i \in 0..Retries : Tried(after[i], p, name, keys)
  BY <1>13 DEF U
<1>15. Loop(after, p, name, keys, time)
  BY <1>1, <1>10, <1>14 DEF Loop, first, again
<1> QED
  BY <1>15

(* The retries: as there are more of them than nodes, round robin finds a   *)
(* node that is ready and eligible                                          *)
LEMMA ExecutedTried ==
    ASSUME NEW p, PoolInv(p), Size(p) > 0, NEW name \in DOMAIN p.context,
           NEW keys \in SUBSET (0..Size(p)-1), NEW time \in Nat
    PROVE  LET t == Executed(p, name, keys, time)
           IN  /\ Tried(t, p, name, keys)
               /\ name = "ROUND_ROBIN" => TurnTried(t, p, keys, Retries + 1)
<1>1. PICK after : Loop(after, p, name, keys, time)
  BY ExecutedLoop
<1>2. Retries \in Nat
  BY WorkerChoiceAssumption DEF Retries
<1>3. Executed(p, name, keys, time) = after[Retries] /\ Tried(after[Retries], p, name, keys)
  BY <1>1, <1>2 DEF Loop
<1>4. ASSUME name = "ROUND_ROBIN"
      PROVE  TurnTried(after[Retries], p, keys, Retries + 1)
  <2> DEFINE T == {i \in 0..Retries : TurnTried(after[i], p, keys, i + 1)}
  <2>1. 0 \in T
    <3>1. TurnTried(after[0], p, keys, 1)
      BY <1>1, <1>4, TurnTriedFirst DEF Loop
    <3> QED
      BY <1>2, <3>1
  <2>2. ASSUME NEW i \in 1..Retries, i - 1 \in T PROVE i \in T
    <3> DEFINE t == after[i - 1]
               u == after[i]
    <3>1. i - 1 \in 0..Retries /\ i \in 0..Retries /\ i \in Nat /\ i - 1 + 1 = i
      BY <1>2
    <3>2. Tried(t, p, "ROUND_ROBIN", keys) /\ TurnTried(t, p, keys, i)
      BY <1>1, <1>4, <2>2, <3>1 DEF Loop
    <3>3. u = TryAgain(t, "ROUND_ROBIN", keys, time)
      BY <1>1, <1>4 DEF Loop
    <3> HIDE DEF t, u
    <3>4. CASE t.key = NoKey
      <4>1. TurnTried(Try(t.pool, "ROUND_ROBIN", keys, time), p, keys, i + 1)
        BY <1>4, <3>1, <3>2, <3>4, TurnTriedAgain
      <4> QED
        BY <3>1, <3>3, <3>4, <4>1 DEF TryAgain, u
    <3>5. CASE t.key # NoKey
      <4>1. u = t
        BY <3>3, <3>5 DEF TryAgain
      <4>2. TurnTried(u, p, keys, i + 1)
        BY <3>2, <3>5, <4>1 DEF TurnTried
      <4> QED
        BY <3>1, <4>2 DEF u
    <3> QED
      BY <3>4, <3>5
  <2>3. \A i \in 0..Retries : i \in T
    <3> HIDE DEF T
    <3> QED
      BY <1>2, <2>1, <2>2, SetInduction
  <2> QED
    BY <1>2, <2>3
<1> QED
  BY <1>3, <1>4

(* A try that finds a node, or the retry behind it, is the last *)
LEMMA ExecutedSettled ==
    ASSUME NEW p, PoolInv(p), Size(p) > 0, NEW name \in DOMAIN p.context,
           NEW keys \in SUBSET (0..Size(p)-1), NEW time \in Nat
    PROVE  LET t == Try(p, name, keys, time)
               u == TryAgain(t, name, keys, time)
           IN  /\ Tried(t, p, name, keys)
               /\ u.key # NoKey => Executed(p, name, keys, time) = u
<1> DEFINE t == Try(p, name, keys, time)
           u == TryAgain(t, name, keys, time)
<1>1. PICK after : Loop(after, p, name, keys, time)
  BY ExecutedLoop
<1>2. Retries \in Nat /\ Retries >= 1
  BY WorkerChoiceAssumption DEF Retries
<1>3. after[0] = t /\ after[1] = u /\ Tried(t, p, name, keys)
  <2>1. 0 \in 0..Retries /\ 1 \in 1..Retries /\ 1 - 1 = 0
    BY <1>2
  <2>2. after[1] = TryAgain(after[1 - 1], name, keys, time)
    BY <1>1, <2>1 DEF Loop
  <2> QED
    BY <1>1, <2>1, <2>2 DEF Loop
<1> HIDE DEF t, u
<1>4. ASSUME u.key # NoKey
      PROVE  Executed(p, name, keys, time) = u
  <2> DEFINE T == {i \in 0..Retries : i = 0 \/ after[i] = u}
  <2>1. 0 \in T
    BY <1>2
  <2>2. ASSUME NEW i \in 1..Retries, i - 1 \in T PROVE i \in T
    <3>1. i \in 0..Retries /\ after[i] = TryAgain(after[i - 1], name, keys, time)
      BY <1>1, <1>2 DEF Loop
    <3>2. CASE i = 1
      BY <1>3, <3>1, <3>2
    <3>3. CASE i # 1
      <4>1. after[i - 1] = u
        BY <1>2, <2>2, <3>3
      <4>2. after[i] = u
        BY <1>4, <3>1, <4>1 DEF TryAgain
      <4> QED
        BY <3>1, <4>2
    <3> QED
      BY <3>2, <3>3
  <2>3. \A i \in 0..Retries : i \in T
    <3> HIDE DEF T
    <3> QED
      BY <1>2, <2>1, <2>2, SetInduction
  <2>4. after[Retries] = u
    BY <1>2, <2>3
  <2> QED
    BY <1>1, <2>4 DEF Loop
<1> QED
  BY <1>3, <1>4 DEF t, u

(* A choice that is refused *)
LEMMA Refused ==
    ASSUME NEW p, PoolInv(p), Size(p) > 0, NEW name \in DOMAIN p.context,
           NEW keys \in SUBSET (0..Size(p)-1), NEW t,
           Tried(t, p, name, keys), name = "ROUND_ROBIN" => TurnTried(t, p, keys, Retries + 1),
           name \notin Weighted, t.key = NoKey
    PROVE  NoneEligible(p, keys)
<1>1. CASE name # "ROUND_ROBIN"
  BY <1>1 DEF Tried, RoundRobins
<1>2. CASE name = "ROUND_ROBIN" /\ Cardinality(keys) = 1
  BY <1>2 DEF TurnTried
<1>3. CASE name = "ROUND_ROBIN" /\ Cardinality(keys) # 1
  <2> DEFINE turn == t.pool.context["ROUND_ROBIN"].next
             n == Size(p)
  <2>1. /\ turn \in 0..n-1
        /\ \A key \in 0..n-1 : Eligible(p, key, keys) =>
                                   Distance(turn, key, n) <= n - (Retries + 1)
    BY <1>3 DEF TurnTried
  <2>2. n \in Nat \ {0} /\ n <= MaxSize /\ MaxSize \in Nat /\ Retries = MaxSize + MaxSize
    BY PoolFields, WorkerChoiceAssumption DEF PoolInv, Retries
  <2> HIDE DEF turn, n
  <2>3. ASSUME NEW key \in 0..n-1, Eligible(p, key, keys) PROVE FALSE
    <3>1. Distance(turn, key, n) \in 1..n
      BY <2>1, <2>2, AheadDistance
    <3>2. Distance(turn, key, n) <= n - (Retries + 1)
      BY <2>1, <2>3
    <3> QED
      BY <2>2, <3>1, <3>2
  <2> QED
    BY <2>3 DEF NoneEligible, n
<1> QED
  BY <1>1, <1>2, <1>3

(* The turn taken is the next one among the nodes that are ready *)
LEMMA TurnFound ==
    ASSUME NEW p, PoolInv(p), Size(p) > 0, "ROUND_ROBIN" \in DOMAIN p.context, NEW t,
           Tried(t, p, "ROUND_ROBIN", {}), TurnTried(t, p, {}, Retries + 1), t.key # NoKey
    PROVE  LET next == p.context["ROUND_ROBIN"].next
           IN  /\ next \in 0..Size(p)-1 /\ t.pool.context["ROUND_ROBIN"].next = t.key
               /\ t.key \in 0..Size(p)-1 /\ Ready(p, t.key)
               /\ \A key \in 0..Size(p)-1 :
                      Ready(p, key) => key = t.key \/ Ahead(next, t.key, key)
<1> DEFINE next == p.context["ROUND_ROBIN"].next
           turn == t.pool.context["ROUND_ROBIN"].next
<1>1. Cardinality({}) # 1
  BY FS_EmptySet
<1>2. /\ turn \in 0..Size(p)-1 /\ t.key = IfReady(p, turn)
      /\ \A key \in 0..Size(p)-1 : Eligible(p, key, {}) => key = turn \/ Ahead(next, turn, key)
  BY <1>1 DEF TurnTried
<1>3. next \in 0..Size(p)-1
  BY StateKeys DEF PoolInv, RoundRobins
<1>4. t.key = turn /\ Ready(p, turn)
  BY <1>2, IfReadyKey DEF PoolInv
<1>5. \A key \in 0..Size(p)-1 : Ready(p, key) => Eligible(p, key, {})
  BY DEF Eligible
<1> QED
  BY <1>2, <1>3, <1>4, <1>5

-----------------------------------------------------------------------------
(* The turns taken.  A node that had its turn since another one had comes   *)
(* after that one, from the next key on; and a worker that left is in no     *)
(* history, nor has one for the next worker with its identity.               *)
TurnsInv(p, turns) ==
    /\ \A v \in Worker \ Ids(p), w \in Worker : w \notin turns[v] /\ v \notin turns[w]
    /\ "ROUND_ROBIN" \in DOMAIN p.context =>
           \A i, j \in 1..Size(p) :
               p.nodes[j].id \in turns[p.nodes[i].id] =>
                   Ahead(p.context["ROUND_ROBIN"].next, i - 1, j - 1)

(* Where round robin goes on *)
SameTurn(q, p) ==
    "ROUND_ROBIN" \in DOMAIN q.context =>
        /\ "ROUND_ROBIN" \in DOMAIN p.context
        /\ q.context["ROUND_ROBIN"].next = p.context["ROUND_ROBIN"].next

LEMMA NoTurnsInv ==
    ASSUME NEW p \in Pools
    PROVE  TurnsInv(p, NoTurns)
<1>1. \A i \in 1..Size(p) : p.nodes[i].id \in Worker
  BY PoolFields, NodeFields
<1> QED
  BY <1>1 DEF TurnsInv, NoTurns

LEMMA TurnsKept ==
    ASSUME NEW p, NEW turns, TurnsInv(p, turns), NEW q, Size(q) = Size(p), SameTurn(q, p),
           \A i \in 1..Size(p) : q.nodes[i].id = p.nodes[i].id
    PROVE  TurnsInv(q, turns)
<1>1. Ids(q) = Ids(p)
  BY DEF Ids
<1> QED
  BY <1>1 DEF TurnsInv, SameTurn

LEMMA TurnsGrew ==
    ASSUME NEW p \in Pools, NEW turns, TurnsInv(p, turns), NEW q, Grew(q, p)
    PROVE  TurnsInv(q, turns)
<1>1. /\ Size(p) \in Nat /\ Size(q) \in Nat /\ Size(q) >= Size(p)
      /\ \A i \in 1..Size(q) : q.nodes[i].id \in Worker
  BY PoolFields, NodeFields DEF Grew, PoolInv
<1>2. Ids(p) \subseteq Ids(q)
  BY <1>1 DEF Ids, Grew
<1>3. ASSUME "ROUND_ROBIN" \in DOMAIN q.context, NEW i \in 1..Size(q), NEW j \in 1..Size(q),
             q.nodes[j].id \in turns[q.nodes[i].id]
      PROVE  Ahead(q.context["ROUND_ROBIN"].next, i - 1, j - 1)
  <2>1. q.nodes[i].id \in Ids(p) /\ q.nodes[j].id \in Ids(p)
    BY <1>1, <1>3 DEF TurnsInv
  <2>2. i \in 1..Size(p) /\ j \in 1..Size(p)
    BY <1>1, <2>1 DEF Grew
  <2> QED
    BY <1>3, <2>2 DEF TurnsInv, Grew
<1> QED
  BY <1>2, <1>3 DEF TurnsInv

(* A worker that leaves is taken out of the history *)
Forgotten(turns, id) == [w \in Worker |-> IF w = id THEN {} ELSE turns[w] \ {id}]

LEMMA TurnsLeft ==
    ASSUME NEW p, PoolInv(p), NEW turns, TurnsInv(p, turns), NEW key \in 0..Size(p)-1,
           NEW q, Left(q, p, key), DOMAIN q.context = DOMAIN p.context,
           "ROUND_ROBIN" \in DOMAIN p.context =>
               LET next == p.context["ROUND_ROBIN"].next
               IN  q.context["ROUND_ROBIN"].next =
                       IF Size(q) = 0 THEN 0 ELSE Moved(q, next, key)
    PROVE  TurnsInv(q, Forgotten(turns, p.nodes[key + 1].id))
<1> DEFINE id == p.nodes[key + 1].id
           after == Forgotten(turns, id)
<1>1. /\ p \in Pools /\ q \in Pools /\ Size(p) \in Nat \ {0} /\ Size(q) = Size(p) - 1
      /\ key + 1 \in 1..Size(p)
      /\ \A i \in 1..Size(q) : q.nodes[i].id = p.nodes[Skip(key + 1, i)].id
      /\ \A i \in 1..Size(p) : p.nodes[i].id \in Worker
  BY PoolFields, NodeFields DEF PoolInv, Left
<1> HIDE DEF id
<1>2. \A i \in 1..Size(q) : Skip(key + 1, i) \in 1..Size(p)
  BY <1>1 DEF Skip
<1>3. Ids(p) \subseteq Ids(q) \union {id}
  <2>1. ASSUME NEW j \in 1..Size(p), j # key + 1
        PROVE  \E i \in 1..Size(q) : Skip(key + 1, i) = j
    <3>1. CASE j < key + 1
      <4>1. j \in 1..Size(q) /\ Skip(key + 1, j) = j
        BY <1>1, <3>1 DEF Skip
      <4> QED
        BY <4>1
    <3>2. CASE ~(j < key + 1)
      <4>1. j - 1 \in 1..Size(q) /\ Skip(key + 1, j - 1) = j
        BY <1>1, <2>1, <3>2 DEF Skip
      <4> QED
        BY <4>1
    <3> QED
      BY <3>1, <3>2
  <2>2. ASSUME NEW j \in 1..Size(p) PROVE p.nodes[j].id \in Ids(q) \union {id}
    <3>1. CASE j = key + 1
      BY <3>1 DEF id
    <3>2. CASE j # key + 1
      <4>1. PICK i \in 1..Size(q) : Skip(key + 1, i) = j
        BY <2>1, <3>2
      <4>2. q.nodes[i].id = p.nodes[j].id
        BY <1>1, <4>1
      <4> QED
        BY <4>2 DEF Ids
    <3> QED
      BY <3>1, <3>2
  <2> QED
    BY <2>2 DEF Ids
<1>4. ASSUME NEW v \in Worker, NEW w \in Worker, w \in after[v]
      PROVE  v # id /\ w # id /\ w \in turns[v]
  BY <1>4 DEF Forgotten
<1> HIDE DEF after
<1>5. ASSUME NEW v \in Worker \ Ids(q), NEW w \in Worker
      PROVE  w \notin after[v] /\ v \notin after[w]
  <2>1. v = id \/ v \notin Ids(p)
    BY <1>3
  <2>2. v \notin Ids(p) => w \notin turns[v] /\ v \notin turns[w]
    BY DEF TurnsInv
  <2> QED
    BY <1>4, <2>1, <2>2
<1>6. ASSUME "ROUND_ROBIN" \in DOMAIN q.context, NEW i \in 1..Size(q), NEW j \in 1..Size(q),
             q.nodes[j].id \in after[q.nodes[i].id]
      PROVE  Ahead(q.context["ROUND_ROBIN"].next, i - 1, j - 1)
  <2> DEFINE next == p.context["ROUND_ROBIN"].next
             k == Skip(key + 1, i)
             l == Skip(key + 1, j)
             n == Size(q)
  <2>1. Ahead(next, k - 1, l - 1)
    <3>1. k \in 1..Size(p) /\ l \in 1..Size(p)
      BY <1>2
    <3>2. q.nodes[i].id = p.nodes[k].id /\ q.nodes[j].id = p.nodes[l].id
      BY <1>1
    <3>3. p.nodes[k].id \in Worker /\ p.nodes[l].id \in Worker
      BY <1>1, <3>1
    <3> HIDE DEF k, l
    <3>4. p.nodes[l].id \in after[p.nodes[k].id]
      BY <1>6, <3>2
    <3>5. p.nodes[l].id \in turns[p.nodes[k].id]
      BY <1>4, <3>3, <3>4
    <3> QED
      BY <1>6, <3>1, <3>5 DEF TurnsInv
  <2>2. next \in 0..Size(p)-1
    BY <1>1, <1>6, StateKeys DEF PoolInv, RoundRobins
  <2>3. n \in Nat /\ n > 0 /\ key \in 0..n /\ next \in 0..n
    BY <1>1, <1>6, <2>2
  <2>4. q.context["ROUND_ROBIN"].next = Moved(q, next, key)
    BY <1>6, <2>3
  <2> HIDE DEF next
  <2>5. Moved(q, next, key) = IF next < key THEN next ELSE IF next = 0 THEN n - 1 ELSE next - 1
    BY <1>1, <2>3, MovedKey
  <2>6. i \in 1..n /\ j \in 1..n
    OBVIOUS
  <2> HIDE DEF n
  <2>7. Ahead(Moved(q, next, key), i - 1, j - 1)
    <3>1. CASE next < key
      BY <2>1, <2>3, <2>5, <2>6, <3>1 DEF Ahead, Skip
    <3>2. CASE ~(next < key) /\ next = 0
      BY <2>1, <2>3, <2>5, <2>6, <3>2 DEF Ahead, Skip
    <3>3. CASE ~(next < key) /\ next # 0
      BY <2>1, <2>3, <2>5, <2>6, <3>3 DEF Ahead, Skip
    <3> QED
      BY <3>1, <3>2, <3>3
  <2> QED
    BY <2>4, <2>7
<1>7. TurnsInv(q, after)
  BY <1>5, <1>6 DEF TurnsInv
<1> QED
  BY <1>7 DEF after, id

(* A turn is taken: each node that is ready keeps its history and has one   *)
(* more node in it                                                          *)
LEMMA TurnsTaken ==
    ASSUME NEW p, PoolInv(p), Size(p) > 0, "ROUND_ROBIN" \in DOMAIN p.context, NEW t,
           TurnsInv(p, since),
           Tried(t, p, "ROUND_ROBIN", {}), TurnTried(t, p, {}, Retries + 1), t.key # NoKey
    PROVE  TurnsInv(t.pool, TurnTaken(t.pool, t.key))
<1> DEFINE q == t.pool
           key == t.key
           next == p.context["ROUND_ROBIN"].next
           w == At(q, key).id
           turns == TurnTaken(q, key)
<1>1. /\ next \in 0..Size(p)-1 /\ q.context["ROUND_ROBIN"].next = key
      /\ key \in 0..Size(p)-1 /\ Ready(p, key)
      /\ \A k \in 0..Size(p)-1 : Ready(p, k) => k = key \/ Ahead(next, key, k)
  BY TurnFound
<1>2. /\ AsTried(q, p, "ROUND_ROBIN") /\ q \in Pools /\ Size(q) = Size(p) /\ Size(p) \in Nat
      /\ \A i \in 1..Size(p) : q.nodes[i].id = p.nodes[i].id /\ q.nodes[i].ready = p.nodes[i].ready
      /\ \A i \in 1..Size(p) : q.nodes[i].id \in Worker
      /\ \A i, j \in 1..Size(p) : q.nodes[i].id = q.nodes[j].id => i = j
      /\ key + 1 \in 1..Size(p)
  BY <1>1, PoolFields, NodeFields
     DEF Tried, AsTried, PoolInv, SameNodes, SameNode, DistinctNodes
<1>3. w = q.nodes[key + 1].id
  BY DEF At
<1>4. ReadyWorkers(q) = {q.nodes[i].id : i \in {j \in 1..Size(p) : p.nodes[j].ready}}
  <2>1. ASSUME NEW k \in 0..Size(p)-1, Ready(q, k)
        PROVE  k + 1 \in 1..Size(p) /\ p.nodes[k + 1].ready /\ At(q, k).id = q.nodes[k + 1].id
    BY <1>2, <2>1 DEF Ready, At
  <2>2. ASSUME NEW i \in 1..Size(p), p.nodes[i].ready
        PROVE  i - 1 \in 0..Size(p)-1 /\ Ready(q, i - 1) /\ At(q, i - 1).id = q.nodes[i].id
    BY <1>2, <2>2 DEF Ready, At
  <2> QED
    BY <1>2, <2>1, <2>2 DEF ReadyWorkers
<1>5. turns = [v \in Worker |-> IF v \in ReadyWorkers(q) \ {w} THEN since[v] \union {w} ELSE {}]
  BY DEF TurnTaken
<1>6. Ids(q) = Ids(p) /\ w \in Ids(q) /\ ReadyWorkers(q) \subseteq Ids(q)
  BY <1>2, <1>3, <1>4 DEF Ids
<1> HIDE DEF q, key, w, turns
<1>7. ASSUME NEW v \in Worker \ Ids(q), NEW u \in Worker
      PROVE  u \notin turns[v] /\ v \notin turns[u]
  <2>1. v \notin since[u] /\ v # w /\ v \notin ReadyWorkers(q)
    BY <1>6, <1>7 DEF TurnsInv
  <2> QED
    BY <1>5, <2>1
<1>8. ASSUME NEW i \in 1..Size(q), NEW j \in 1..Size(q), q.nodes[j].id \in turns[q.nodes[i].id]
      PROVE  Ahead(key, i - 1, j - 1)
  <2>1. /\ q.nodes[i].id \in ReadyWorkers(q) /\ q.nodes[i].id # w
        /\ q.nodes[j].id = w \/ q.nodes[j].id \in since[q.nodes[i].id]
    BY <1>2, <1>5, <1>8
  <2>2. p.nodes[i].ready /\ i # key + 1
    BY <1>2, <1>3, <1>4, <2>1
  <2>3. i - 1 \in 0..Size(p)-1 /\ i - 1 # key /\ Ready(p, i - 1)
    BY <1>2, <2>2 DEF Ready, At
  <2>4. Ahead(next, key, i - 1)
    BY <1>1, <2>3
  <2>5. CASE q.nodes[j].id = w
    <3>1. j - 1 = key
      <4>1. j \in 1..Size(p) /\ key + 1 \in 1..Size(p) /\ q.nodes[j].id = q.nodes[key + 1].id
        BY <1>2, <1>3, <2>5
      <4>2. j = key + 1
        BY <1>2, <4>1
      <4> QED
        BY <1>1, <1>2, <4>2
    <3> QED
      BY <1>1, <1>2, <2>3, <3>1 DEF Ahead
  <2>6. CASE q.nodes[j].id \in since[q.nodes[i].id]
    <3>1. Ahead(next, i - 1, j - 1)
      BY <1>2, <2>6 DEF TurnsInv
    <3>2. j - 1 \in 0..Size(p)-1 /\ Size(p) \in Nat \ {0}
      BY <1>2
    <3> QED
      BY <1>1, <2>3, <2>4, <3>1, <3>2, AheadPassed
  <2> QED
    BY <2>1, <2>5, <2>6
<1>9. TurnsInv(q, turns)
  BY <1>1, <1>7, <1>8 DEF TurnsInv
<1> QED
  BY <1>9 DEF turns, q, key

-----------------------------------------------------------------------------
(* The inductive invariant *)

(* The strategies the context has *)
Names(default) == {default} \union ({f.strategy : f \in Function} \ {None})

(* A pool that has what it needs: the strategies of the context, and the    *)
(* minimum of nodes                                                         *)
Complete(p, default) ==
    /\ PoolInv(p) /\ DOMAIN p.context = Names(default)
    /\ Cardinality(Statics(p)) = MinSize

CountsInv ==
    /\ strategy \in Strategies
    /\ sent \in [WorkerNodeKey \X Worker -> Nat]
    /\ \A e \in WorkerNodeKey \X Worker : sent[e] <= submitted
    /\ submitted \in 0..MaxTasks /\ measures \in 0..MaxMeasures
    /\ changes \in 0..MaxChanges /\ now \in 0..MaxTime
    /\ since \in [Worker -> SUBSET Worker]

Inv == Complete(pool, strategy) /\ TurnsInv(pool, since) /\ CountsInv

LEMMA NamesKnown ==
    ASSUME NEW default \in Strategies
    PROVE  Names(default) \in SUBSET Every /\ default \in Names(default)
BY WorkerChoiceAssumption DEF Names

LEMMA RenewedComplete ==
    ASSUME NEW p, NEW default, Complete(p, default), NEW q, Renewed(q, p)
    PROVE  Complete(q, default)
<1>1. PoolInv(q) /\ Statics(q) = Statics(p)
  BY RenewedInv DEF Complete
<1> QED
  BY <1>1 DEF Complete, Renewed

LEMMA RenewedTurns ==
    ASSUME NEW p, NEW turns, TurnsInv(p, turns), NEW q, Renewed(q, p)
    PROVE  TurnsInv(q, turns)
BY TurnsKept DEF Renewed, SameTurn

LEMMA GrewComplete ==
    ASSUME NEW p, NEW default, Complete(p, default), NEW q, Grew(q, p),
           Cardinality(Statics(q)) = MinSize
    PROVE  Complete(q, default)
BY DEF Complete, Grew

(* syncWorkerChoiceStrategies keeps the state of a strategy it has *)
LEMMA SynchronizedComplete ==
    ASSUME NEW p, PoolInv(p), Cardinality(Statics(p)) = MinSize, NEW default \in Strategies
    PROVE  LET q == Synchronized(p, default)
           IN  /\ Complete(q, default) /\ q.nodes = p.nodes
               /\ "ROUND_ROBIN" \in DOMAIN p.context => SameTurn(q, p)
<1> DEFINE context == [name \in Names(default) |->
                           IF name \in DOMAIN p.context THEN p.context[name] ELSE NewStrategy]
           q == [p EXCEPT !.context = context]
<1>1. p \in Pools /\ Size(p) \in Nat /\ p.context \in [DOMAIN p.context -> StrategyState]
      /\ \A name \in DOMAIN p.context : p.context[name] \in GoodState(name, Size(p))
  BY PoolFields DEF PoolInv
<1>2. Synchronized(p, default) = q
  BY <1>1 DEF Synchronized, Names, Pools
<1>3. Names(default) \in SUBSET Every
  BY NamesKnown
<1>4. ASSUME NEW name \in Names(default)
      PROVE  context[name] \in GoodState(name, Size(p))
  <2>1. NewStrategy \in GoodState(name, Size(p))
    BY <1>1, NewStrategyGood
  <2> QED
    BY <1>1, <2>1
<1>5. DOMAIN context = Names(default) /\ context \in [Names(default) -> StrategyState]
  <2>1. \A name \in Names(default) : context[name] \in StrategyState
    BY <1>4 DEF GoodState
  <2> QED
    BY <2>1
<1>6. "ROUND_ROBIN" \in DOMAIN p.context /\ "ROUND_ROBIN" \in DOMAIN context =>
          context["ROUND_ROBIN"] = p.context["ROUND_ROBIN"]
  OBVIOUS
<1> HIDE DEF context
<1>7. q \in Pools /\ q.nodes = p.nodes /\ q.context = context /\ q.options = p.options
  BY <1>1, <1>3, <1>5 DEF Pools
<1> HIDE DEF q
<1>8. Size(q) = Size(p) /\ Statics(q) = Statics(p)
  BY <1>7 DEF Size, Statics
<1>9. DistinctNodes(q)
  BY <1>7, <1>8 DEF PoolInv, DistinctNodes
<1>10. PoolInv(q)
  BY <1>4, <1>5, <1>7, <1>8, <1>9 DEF PoolInv
<1>11. Complete(q, default)
  BY <1>5, <1>7, <1>8, <1>10 DEF Complete
<1>12. "ROUND_ROBIN" \in DOMAIN p.context => SameTurn(q, p)
  BY <1>6, <1>7 DEF SameTurn
<1> QED
  BY <1>2, <1>7, <1>11, <1>12

(* The pool with its minimum of workers *)
LEMMA InitInv ==
    ASSUME Init
    PROVE  Inv
<1>1. PICK o \in Options :
          pool = Synchronized([nodes |-> [i \in 1..MinSize |->
                      [id |-> i, dynamic |-> FALSE, ready |-> TRUE, informed |-> TRUE,
                       executing |-> 0, virtualEnd |-> Undefined,
                       runTime |-> NoStatistics]],
                      context |-> <<>>, options |-> o], strategy)
  BY DEF Init
<1> DEFINE node(i) == [id |-> i, dynamic |-> FALSE, ready |-> TRUE, informed |-> TRUE,
                       executing |-> 0, virtualEnd |-> Undefined, runTime |-> NoStatistics]
           nodes == [i \in 1..MinSize |-> node(i)]
           p == [nodes |-> nodes, context |-> <<>>, options |-> o]
<1>2. strategy \in Strategies /\ MinSize \in Nat /\ MaxSize \in Nat /\ MinSize <= MaxSize
  BY WorkerChoiceAssumption DEF Init
<1>3. ASSUME NEW i \in 1..MinSize
      PROVE  node(i) \in GoodNode /\ node(i).id = i /\ node(i).dynamic = FALSE
  <2>1. i \in Worker
    BY <1>2 DEF Worker
  <2>2. StatisticsInv(NoStatistics) /\ NoStatistics \in Statistics
    BY NoStatisticsInv DEF StatisticsInv
  <2>3. Undefined \in Measure
    BY DEF Measure
  <2>4. node(i) \in Node
    BY <2>1, <2>2, <2>3 DEF Node
  <2> QED
    BY <2>2, <2>4 DEF GoodNode
<1> HIDE DEF node
<1>4. nodes \in Seq(GoodNode) /\ Len(nodes) = MinSize /\ DOMAIN nodes = 1..MinSize
      /\ \A i \in 1..MinSize : nodes[i].id = i /\ nodes[i].dynamic = FALSE
  <2>1. nodes \in Seq(GoodNode) /\ DOMAIN nodes = 1..MinSize
        /\ \A i \in 1..MinSize : nodes[i] = node(i)
    <3>1. \A i \in 1..MinSize : node(i) \in GoodNode
      BY <1>3
    <3>2. nodes \in [1..MinSize -> GoodNode]
      BY <3>1
    <3>3. nodes \in Seq(GoodNode)
      BY <1>2, <3>2, SeqDef
    <3> QED
      BY <3>3
  <2>2. Len(nodes) = MinSize
    BY <1>2, <2>1, LenProperties
  <2> QED
    BY <1>3, <2>1, <2>2
<1>5. pool = Synchronized(p, strategy)
  BY <1>1 DEF node
<1> HIDE DEF nodes
<1>6. DOMAIN p.context = {} /\ p.context \in [{} -> StrategyState]
  <2>1. DOMAIN <<>> = {}
    OBVIOUS
  <2>2. <<>> = [x \in {} |-> NewStrategy]
    BY <2>1
  <2> QED
    BY <2>1, <2>2
<1>7. p \in Pools /\ p.nodes = nodes /\ Size(p) = MinSize
  <2>1. {} \in SUBSET Every
    OBVIOUS
  <2>2. p.context \in UNION {[names -> StrategyState] : names \in SUBSET Every}
    BY <1>6, <2>1
  <2> QED
    BY <1>4, <2>2 DEF Pools, Size
<1> HIDE DEF p
<1>8. PoolInv(p)
  BY <1>2, <1>4, <1>6, <1>7 DEF PoolInv, DistinctNodes
<1>9. Cardinality(Statics(p)) = MinSize
  <2>1. Statics(p) = 1..MinSize
    BY <1>4, <1>7 DEF Statics
  <2>2. 1 \in Int /\ MinSize \in Int
    BY <1>2
  <2>3. Cardinality(1..MinSize) = IF 1 > MinSize THEN 0 ELSE MinSize - 1 + 1
    BY <2>2, FS_Interval
  <2> QED
    BY <1>2, <2>1, <2>3
<1>10. Complete(pool, strategy)
  BY <1>2, <1>5, <1>8, <1>9, SynchronizedComplete
<1>11. TurnsInv(pool, since)
  <2>1. since = NoTurns
    BY DEF Init
  <2> QED
    BY <1>10, <2>1, NoTurnsInv DEF Complete, PoolInv
<1>12. CountsInv
  <2>1. sent = [e \in WorkerNodeKey \X Worker |-> 0] /\ submitted = 0 /\ measures = 0
        /\ changes = 0 /\ now = 0 /\ since = NoTurns
    BY DEF Init
  <2> QED
    BY <1>2, <2>1, WorkerChoiceAssumption DEF CountsInv, NoTurns
<1> QED
  BY <1>10, <1>11, <1>12 DEF Inv

-----------------------------------------------------------------------------
(* internalExecute *)

(* The pool the node of a task is chosen from, and the last try *)
Given(f) == WithDynamicWorkers(pool, KeysOf(f))

Answer(f) == Executed(Given(f), StrategyOf(f), KeysOf(f), now)

(* What is known of the choice *)
Answered(f) ==
    LET p == Given(f)
        t == Answer(f)
    IN  /\ Complete(p, strategy) /\ TurnsInv(p, since) /\ Size(p) > 0
        /\ p.context = pool.context /\ p.options = pool.options
        /\ KeysOf(f) \in SUBSET (0..Size(p)-1) /\ StrategyOf(f) \in DOMAIN p.context
        /\ Tried(t, p, StrategyOf(f), KeysOf(f))
        /\ StrategyOf(f) = "ROUND_ROBIN" => TurnTried(t, p, KeysOf(f), Retries + 1)

LEMMA ExecuteAnswered ==
    ASSUME Inv, NEW f \in Function
    PROVE  Answered(f)
<1> DEFINE p == Given(f)
           keys == KeysOf(f)
           name == StrategyOf(f)
           t == Answer(f)
<1>1. Complete(pool, strategy) /\ TurnsInv(pool, since) /\ strategy \in Strategies /\ now \in Nat
  BY WorkerChoiceAssumption DEF Inv, CountsInv
<1>2. keys \in SUBSET WorkerNodeKey
  BY WorkerChoiceAssumption DEF KeysOf
<1>3. name \in Names(strategy)
  BY DEF StrategyOf, Names
<1>4. /\ Grew(p, pool) /\ Cardinality(Statics(p)) = MinSize /\ Size(p) > 0
      /\ \A key \in keys : key < Size(p)
  BY <1>1, <1>2, DynamicWorkers DEF Given, Complete
<1> HIDE DEF keys, name
<1>5. t = Executed(p, name, keys, now)
  BY DEF Answer, keys, name
<1> HIDE DEF p, t
<1>6. Complete(p, strategy) /\ PoolInv(p)
  BY <1>1, <1>4, GrewComplete DEF Complete
<1>7. TurnsInv(p, since)
  BY <1>1, <1>4, TurnsGrew DEF Complete, PoolInv
<1>8. keys \in SUBSET (0..Size(p)-1)
  <2>1. Size(p) \in Nat /\ MaxSize \in Nat
    BY <1>6, PoolFields, WorkerChoiceAssumption DEF PoolInv
  <2> QED
    BY <1>2, <1>4, <2>1 DEF WorkerNodeKey
<1>9. name \in DOMAIN p.context
  BY <1>3, <1>6 DEF Complete
<1>10. /\ Tried(t, p, name, keys)
       /\ name = "ROUND_ROBIN" => TurnTried(t, p, keys, Retries + 1)
  BY <1>1, <1>4, <1>5, <1>6, <1>8, <1>9, ExecutedTried
<1> QED
  BY <1>4, <1>6, <1>7, <1>8, <1>9, <1>10 DEF Answered, Grew, p, t, keys, name

(* The pool after a task was given to the node at a key *)
Started(q, key) == [q EXCEPT !.nodes[key + 1].executing = @ + 1]

LEMMA StartedRenewed ==
    ASSUME NEW q \in Pools, NEW key \in 0..Size(q)-1
    PROVE  /\ Renewed(Started(q, key), q)
           /\ \A i \in 1..Size(q) :
                  /\ Started(q, key).nodes[i].ready = q.nodes[i].ready
                  /\ Started(q, key).nodes[i].runTime = q.nodes[i].runTime
                  /\ Started(q, key).nodes[i].executing =
                         IF i = key + 1 THEN q.nodes[i].executing + 1 ELSE q.nodes[i].executing
<1> DEFINE m == At(q, key)
           n == [m EXCEPT !.executing = @ + 1]
           r == [q EXCEPT !.nodes[key + 1] = n]
<1>1. m \in GoodNode /\ key + 1 \in 1..Size(q)
  BY PoolFields DEF At
<1>2. m = q.nodes[key + 1]
  BY DEF At
<1> HIDE DEF m
<1>3. /\ n \in GoodNode /\ n.id = m.id /\ n.dynamic = m.dynamic /\ n.ready = m.ready
      /\ n.executing = m.executing + 1 /\ n.runTime = m.runTime
  BY <1>1 DEF GoodNode, Node
<1>4. Started(q, key) = r
  BY <1>2 DEF Started, Pools
<1> HIDE DEF n
<1>5. /\ Renewed(r, q)
      /\ \A i \in 1..Size(q) : r.nodes[i] = IF i = key + 1 THEN n ELSE q.nodes[i]
  BY <1>3, RenewedNode DEF m
<1> HIDE DEF r
<1>6. \A i \in 1..Size(q) :
          /\ r.nodes[i].ready = q.nodes[i].ready
          /\ r.nodes[i].runTime = q.nodes[i].runTime
          /\ r.nodes[i].executing =
                 IF i = key + 1 THEN q.nodes[i].executing + 1 ELSE q.nodes[i].executing
  BY <1>2, <1>3, <1>5
<1> QED
  BY <1>4, <1>5, <1>6

(* The choice is undefined, or a task is sent to a node *)
LEMMA ExecuteCases ==
    ASSUME Inv, NEW f \in Function, Execute(f)
    PROVE  LET t == Answer(f)
               key == t.key
               id == At(t.pool, key).id
           IN  \/ key = NoKey /\ pool' = t.pool /\ sent' = sent
               \/ /\ key # NoKey /\ pool' = Started(t.pool, key) /\ key \in WorkerNodeKey
                  /\ key \in 0..Size(t.pool)-1
                  /\ id \in Worker /\ id = t.pool.nodes[key + 1].id
                  /\ sent' = [sent EXCEPT ![<<key, id>>] = @ + 1]
<1> DEFINE t == Answer(f)
           key == t.key
           id == At(t.pool, key).id
<1>1. Tried(t, Given(f), StrategyOf(f), KeysOf(f)) /\ PoolInv(Given(f))
  BY ExecuteAnswered DEF Answered, Complete
<1>2. IF key = NoKey THEN pool' = t.pool /\ sent' = sent
      ELSE pool' = Started(t.pool, key) /\ sent' = [sent EXCEPT ![<<key, id>>] = @ + 1]
  BY DEF Execute, Answer, Given, Started
<1> HIDE DEF t
<1>3. ASSUME key # NoKey
      PROVE  key \in WorkerNodeKey /\ key \in 0..Size(t.pool)-1
             /\ id \in Worker /\ id = t.pool.nodes[key + 1].id
  <2>1. key \in 0..Size(t.pool)-1 /\ t.pool \in Pools /\ Size(t.pool) <= MaxSize
    BY <1>1, <1>3 DEF Tried, AsTried, PoolInv
  <2>2. Size(t.pool) \in Nat /\ key + 1 \in 1..Size(t.pool)
    BY <2>1, PoolFields
  <2>3. key \in WorkerNodeKey
    BY <2>1, <2>2, WorkerChoiceAssumption DEF WorkerNodeKey
  <2>4. id = t.pool.nodes[key + 1].id
    BY DEF At
  <2> QED
    BY <2>1, <2>2, <2>3, <2>4, PoolFields, NodeFields
<1> QED
  BY <1>2, <1>3 DEF t

LEMMA ExecuteInv ==
    ASSUME Inv, NEW f \in Function, Execute(f)
    PROVE  Inv'
<1> DEFINE p == Given(f)
           name == StrategyOf(f)
           keys == KeysOf(f)
           t == Answer(f)
           q == t.pool
           key == t.key
           id == At(q, key).id
<1>1. /\ Complete(p, strategy) /\ TurnsInv(p, since) /\ Size(p) > 0
      /\ keys \in SUBSET (0..Size(p)-1) /\ name \in DOMAIN p.context
      /\ Tried(t, p, name, keys)
      /\ name = "ROUND_ROBIN" => TurnTried(t, p, keys, Retries + 1)
  BY ExecuteAnswered DEF Answered
<1>2. \/ key = NoKey /\ pool' = q /\ sent' = sent
      \/ /\ key # NoKey /\ pool' = Started(q, key) /\ key \in WorkerNodeKey
         /\ key \in 0..Size(q)-1 /\ id \in Worker
         /\ sent' = [sent EXCEPT ![<<key, id>>] = @ + 1]
  BY ExecuteCases
<1>3. /\ submitted < MaxTasks /\ submitted' = submitted + 1
      /\ strategy' = strategy /\ measures' = measures /\ changes' = changes /\ now' = now
      /\ since' = IF name # "ROUND_ROBIN" THEN since
                  ELSE IF keys # {} \/ key = NoKey THEN NoTurns
                  ELSE TurnTaken(q, key)
  BY DEF Execute, Answer, Given
<1>4. CountsInv
  BY DEF Inv
<1> HIDE DEF p, name, keys, t
<1>5. /\ AsTried(q, p, name) /\ PoolInv(q) /\ q \in Pools /\ Size(q) = Size(p)
      /\ Size(p) \in Nat /\ PoolInv(p)
      /\ \A i \in 1..Size(p) : q.nodes[i].id = p.nodes[i].id
                               /\ q.nodes[i].dynamic = p.nodes[i].dynamic
  BY <1>1, PoolFields DEF Tried, AsTried, Complete, PoolInv, SameNodes, SameNode
<1>6. Complete(q, strategy)
  <2>1. Statics(q) = Statics(p)
    <3>1. DOMAIN q.nodes = 1..Size(p) /\ DOMAIN p.nodes = 1..Size(p)
      BY <1>5, PoolFields DEF PoolInv
    <3> QED
      BY <1>5, <3>1 DEF Statics
  <2>2. DOMAIN q.context = DOMAIN p.context
    BY <1>5 DEF AsTried
  <2> QED
    BY <1>1, <1>5, <2>1, <2>2 DEF Complete
<1>7. TurnsInv(q, since')
  <2>1. CASE name # "ROUND_ROBIN"
    <3>1. SameTurn(q, p)
      BY <1>5, <2>1 DEF AsTried, SameTurn
    <3>2. TurnsInv(q, since)
      BY <1>1, <1>5, <3>1, TurnsKept
    <3> QED
      BY <1>3, <2>1, <3>2
  <2>2. CASE name = "ROUND_ROBIN" /\ (keys # {} \/ key = NoKey)
    <3>1. since' = NoTurns
      BY <1>3, <2>2
    <3> QED
      BY <1>5, <3>1, NoTurnsInv
  <2>3. CASE name = "ROUND_ROBIN" /\ keys = {} /\ key # NoKey
    <3>1. since' = TurnTaken(q, key)
      BY <1>3, <2>3
    <3>2. TurnsInv(q, TurnTaken(q, key))
      BY <1>1, <1>5, <2>3, TurnsTaken
    <3> QED
      BY <3>1, <3>2
  <2> QED
    BY <2>1, <2>2, <2>3
<1>8. Complete(pool', strategy') /\ TurnsInv(pool', since')
  <2>1. CASE pool' = q
    BY <1>3, <1>6, <1>7, <2>1
  <2>2. CASE pool' = Started(q, key) /\ key \in 0..Size(q)-1
    <3>1. Renewed(Started(q, key), q)
      BY <1>5, <2>2, StartedRenewed
    <3> DEFINE r == Started(q, key)
    <3> HIDE DEF r
    <3>2. Renewed(r, q) /\ pool' = r
      BY <2>2, <3>1 DEF r
    <3>3. Complete(r, strategy)
      BY <1>6, <3>2, RenewedComplete
    <3>4. TurnsInv(r, since')
      BY <1>7, <3>2, RenewedTurns
    <3> QED
      BY <1>3, <3>2, <3>3, <3>4
  <2> QED
    BY <1>2, <2>1, <2>2
<1>9. since' \in [Worker -> SUBSET Worker]
  <2>1. NoTurns \in [Worker -> SUBSET Worker]
    BY DEF NoTurns
  <2>2. ASSUME key # NoKey
        PROVE  TurnTaken(q, key) \in [Worker -> SUBSET Worker]
    BY <1>2, <1>4, <2>2 DEF TurnTaken, CountsInv
  <2> QED
    BY <1>3, <1>4, <2>1, <2>2 DEF CountsInv
<1>10. /\ sent' \in [WorkerNodeKey \X Worker -> Nat]
       /\ \A e \in WorkerNodeKey \X Worker : sent'[e] <= submitted'
  <2>1. /\ sent \in [WorkerNodeKey \X Worker -> Nat] /\ submitted \in Nat
        /\ submitted' = submitted + 1
        /\ \A e \in WorkerNodeKey \X Worker : sent[e] <= submitted
    BY <1>3, <1>4, WorkerChoiceAssumption DEF CountsInv
  <2>2. CASE sent' = sent
    BY <2>1, <2>2
  <2>3. CASE /\ key \in WorkerNodeKey /\ id \in Worker
             /\ sent' = [sent EXCEPT ![<<key, id>>] = @ + 1]
    <3> DEFINE d == <<key, id>>
    <3>1. d \in WorkerNodeKey \X Worker /\ sent' = [sent EXCEPT ![d] = @ + 1]
      BY <2>3
    <3> HIDE DEF d
    <3>2. \A e \in WorkerNodeKey \X Worker : sent'[e] = IF e = d THEN sent[e] + 1 ELSE sent[e]
      BY <2>1, <3>1
    <3>3. sent' \in [WorkerNodeKey \X Worker -> Nat]
      BY <2>1, <3>1
    <3>4. \A e \in WorkerNodeKey \X Worker : sent'[e] <= submitted'
      BY <2>1, <3>2
    <3> QED
      BY <3>3, <3>4
  <2> QED
    BY <1>2, <2>2, <2>3
<1>11. CountsInv'
  <2>1. submitted' \in 0..MaxTasks
    BY <1>3, <1>4, WorkerChoiceAssumption DEF CountsInv
  <2> QED
    BY <1>3, <1>4, <1>9, <1>10, <2>1 DEF CountsInv
<1> QED
  BY <1>8, <1>11 DEF Inv

-----------------------------------------------------------------------------
(* The other actions *)

LEMMA RenewedAgain ==
    ASSUME NEW p, NEW q, Renewed(q, p), NEW r, Renewed(r, q)
    PROVE  Renewed(r, p)
BY DEF Renewed

(* A node renewed keeps the invariant of the pool *)
LEMMA RenewedPool ==
    ASSUME NEW p, NEW default, NEW turns, Complete(p, default), TurnsInv(p, turns),
           NEW q, Renewed(q, p)
    PROVE  Complete(q, default) /\ TurnsInv(q, turns)
BY RenewedComplete, RenewedTurns

LEMMA AccountedGood ==
    ASSUME NEW n \in GoodNode, NEW required, NEW cost \in Costs
    PROVE  LET m == Accounted(n, required, cost)
           IN  m \in GoodNode /\ m.id = n.id /\ m.dynamic = n.dynamic
<1> DEFINE executing == IF n.executing > 0 THEN n.executing - 1 ELSE n.executing
           runTime == IF cost = Undefined THEN n.runTime ELSE Measured(n.runTime, required, cost)
           m == [n EXCEPT !.executing = executing, !.runTime = runTime]
<1>1. executing \in Nat
  BY NodeFields
<1>2. StatisticsInv(runTime)
  <2>1. StatisticsInv(n.runTime)
    BY NodeFields
  <2>2. ASSUME cost # Undefined PROVE StatisticsInv(Measured(n.runTime, required, cost))
    BY <2>1, <2>2, MeasuredInv
  <2> QED
    BY <2>1, <2>2
<1>3. runTime \in Statistics
  BY <1>2 DEF StatisticsInv
<1>4. Accounted(n, required, cost) = m
  BY DEF Accounted
<1> HIDE DEF executing, runTime
<1>5. m \in GoodNode /\ m.id = n.id /\ m.dynamic = n.dynamic
  BY <1>1, <1>2, <1>3 DEF GoodNode, Node
<1> QED
  BY <1>4, <1>5

LEMMA ContextUpdatedRenewed ==
    ASSUME NEW p \in Pools, NEW key \in 0..Size(p)-1, NEW time \in Nat
    PROVE  /\ Renewed(ContextUpdated(p, key, time), p)
           /\ \A i \in 1..Size(p) :
                  ContextUpdated(p, key, time).nodes[i].runTime = p.nodes[i].runTime
<1>1. CASE "FAIR_SHARE" \in DOMAIN p.context
  <2> DEFINE end == VirtualEnd(p, key, time)
             n == [At(p, key) EXCEPT !.virtualEnd = end]
             q == [p EXCEPT !.nodes[key + 1] = n]
  <2>1. end \in Nat
    BY VirtualEndMeasure
  <2>2. At(p, key) \in GoodNode
    BY PoolFields DEF At
  <2>3. ContextUpdated(p, key, time) = q
    BY <1>1 DEF ContextUpdated, At, Pools
  <2> HIDE DEF end
  <2>4. /\ n \in GoodNode /\ n.id = At(p, key).id /\ n.dynamic = At(p, key).dynamic
        /\ n.runTime = At(p, key).runTime
    BY <2>1, <2>2 DEF GoodNode, Node, Measure
  <2> HIDE DEF n
  <2>5. /\ Renewed(q, p)
        /\ \A i \in 1..Size(p) : q.nodes[i] = IF i = key + 1 THEN n ELSE p.nodes[i]
    BY <2>4, RenewedNode
  <2>6. \A i \in 1..Size(p) : q.nodes[i].runTime = p.nodes[i].runTime
    BY <2>4, <2>5 DEF At
  <2> QED
    BY <2>3, <2>5, <2>6
<1>2. CASE "FAIR_SHARE" \notin DOMAIN p.context
  BY <1>2 DEF ContextUpdated, Renewed
<1> QED
  BY <1>1, <1>2

LEMMA TaskExecutionResponseInv ==
    ASSUME Inv, NEW e \in WorkerNodeKey \X Worker, NEW cost \in Costs,
           TaskExecutionResponse(e, cost)
    PROVE  Inv'
<1> DEFINE key == e[1]
           required == Required(pool)
           answered == [pool EXCEPT !.nodes[key + 1] = Accounted(@, required, cost)]
           updated == IF key \in Keys THEN ContextUpdated(answered, key, now) ELSE pool
           measured == required.aggregate /\ cost # Undefined
<1>1. /\ sent[e] > 0 /\ (measured => measures < MaxMeasures)
      /\ measures' = IF measured THEN measures + 1 ELSE measures
      /\ sent' = [sent EXCEPT ![e] = @ - 1]
      /\ pool' = IF ShallCreateDynamicWorker(updated) THEN Created(updated, TRUE) ELSE updated
      /\ strategy' = strategy /\ submitted' = submitted /\ changes' = changes
      /\ now' = now /\ since' = since
  BY DEF TaskExecutionResponse
<1> HIDE DEF required, measured
<1>2. /\ Complete(pool, strategy) /\ TurnsInv(pool, since) /\ CountsInv
      /\ pool \in Pools /\ Size(pool) \in Nat /\ now \in Nat
  BY PoolFields, WorkerChoiceAssumption DEF Inv, Complete, PoolInv, CountsInv
<1>3. Renewed(updated, pool)
  <2>1. CASE key \in Keys
    <3> DEFINE n == At(pool, key)
               m == Accounted(n, required, cost)
               a == [pool EXCEPT !.nodes[key + 1] = m]
    <3>1. key \in 0..Size(pool)-1 /\ key + 1 \in 1..Size(pool)
      BY <1>2, <2>1 DEF Keys
    <3>2. n \in GoodNode
      BY <1>2, <3>1, PoolFields DEF At
    <3>3. m \in GoodNode /\ m.id = n.id /\ m.dynamic = n.dynamic
      BY <3>2, AccountedGood
    <3>4. answered = a
      BY <1>2 DEF At, Pools
    <3> HIDE DEF m
    <3>5. Renewed(a, pool)
      BY <1>2, <3>1, <3>3, RenewedNode
    <3> HIDE DEF a, answered
    <3>6. a \in Pools /\ key \in 0..Size(a)-1
      BY <3>1, <3>5 DEF Renewed
    <3>7. Renewed(ContextUpdated(a, key, now), a)
      BY <1>2, <3>6, ContextUpdatedRenewed
    <3>8. Renewed(ContextUpdated(a, key, now), pool)
      BY <3>5, <3>7, RenewedAgain
    <3> QED
      BY <2>1, <3>4, <3>8
  <2>2. CASE key \notin Keys
    BY <1>2, <2>2 DEF Renewed
  <2> QED
    BY <2>1, <2>2
<1> HIDE DEF updated
<1>4. Complete(updated, strategy) /\ TurnsInv(updated, since) /\ PoolInv(updated)
      /\ updated \in Pools
  BY <1>2, <1>3, RenewedPool DEF Complete, PoolInv
<1>5. Complete(pool', strategy') /\ TurnsInv(pool', since')
  <2>1. CASE ShallCreateDynamicWorker(updated)
    <3> DEFINE q == Created(updated, TRUE)
    <3>1. Grew(updated, updated) /\ Size(updated) < MaxSize /\ TRUE \in BOOLEAN
      BY <1>4, <2>1, GrewSame DEF ShallCreateDynamicWorker
    <3>2. Grew(q, updated) /\ Cardinality(Statics(q)) = Cardinality(Statics(updated))
      BY <1>4, <3>1, GrewMore
    <3>3. pool' = q
      BY <1>1, <2>1
    <3> HIDE DEF q
    <3>4. Complete(q, strategy)
      BY <1>4, <3>2, GrewComplete DEF Complete
    <3>5. TurnsInv(q, since)
      BY <1>4, <3>2, TurnsGrew
    <3> QED
      BY <1>1, <3>3, <3>4, <3>5
  <2>2. CASE ~ShallCreateDynamicWorker(updated)
    BY <1>1, <1>4, <2>2
  <2> QED
    BY <2>1, <2>2
<1>6. CountsInv'
  <2>1. /\ sent' \in [WorkerNodeKey \X Worker -> Nat]
        /\ \A d \in WorkerNodeKey \X Worker : sent'[d] <= submitted'
    <3>1. /\ sent \in [WorkerNodeKey \X Worker -> Nat] /\ submitted \in Nat
          /\ \A d \in WorkerNodeKey \X Worker : sent[d] <= submitted
      BY <1>2, WorkerChoiceAssumption DEF CountsInv
    <3>2. \A d \in WorkerNodeKey \X Worker : sent'[d] = IF d = e THEN sent[e] - 1 ELSE sent[d]
      BY <1>1, <3>1
    <3>3. sent[e] - 1 \in Nat
      <4>1. sent[e] > 0
        BY <1>1
      <4>2. sent[e] \in Nat
        BY <3>1
      <4> QED
        BY <4>1, <4>2
    <3>4. sent' \in [WorkerNodeKey \X Worker -> Nat]
      BY <1>1, <3>1, <3>3
    <3>5. ASSUME NEW d \in WorkerNodeKey \X Worker PROVE sent'[d] <= submitted'
      <4>1. sent[d] \in Nat /\ sent[d] <= submitted /\ submitted' = submitted
            /\ sent'[d] = IF d = e THEN sent[e] - 1 ELSE sent[d]
        BY <1>1, <3>1, <3>2
      <4> QED
        BY <3>1, <4>1
    <3> QED
      BY <3>4, <3>5
  <2>2. measures' \in 0..MaxMeasures
    <3>1. measures \in 0..MaxMeasures /\ MaxMeasures \in Nat
      BY <1>2, WorkerChoiceAssumption DEF CountsInv
    <3>2. CASE measured
      <4>1. measures' = measures + 1 /\ measures < MaxMeasures
        BY <1>1, <3>2
      <4> QED
        BY <3>1, <4>1
    <3>3. CASE ~measured
      <4>1. measures' = measures
        BY <1>1, <3>3
      <4> QED
        BY <3>1, <4>1
    <3> QED
      BY <3>2, <3>3
  <2> QED
    BY <1>1, <1>2, <2>1, <2>2 DEF CountsInv
<1> QED
  BY <1>5, <1>6 DEF Inv

(* One node is flagged ready, or not *)
LEMMA FlaggedRenewed ==
    ASSUME NEW p \in Pools, NEW key \in 0..Size(p)-1, NEW ready \in BOOLEAN,
           NEW informed \in BOOLEAN
    PROVE  Renewed([p EXCEPT !.nodes[key + 1] =
                        [At(p, key) EXCEPT !.ready = ready, !.informed = informed]], p)
<1> DEFINE n == [At(p, key) EXCEPT !.ready = ready, !.informed = informed]
<1>1. At(p, key) \in GoodNode
  BY PoolFields DEF At
<1>2. n \in GoodNode /\ n.id = At(p, key).id /\ n.dynamic = At(p, key).dynamic
  BY <1>1 DEF GoodNode, Node
<1> HIDE DEF n
<1>3. Renewed([p EXCEPT !.nodes[key + 1] = n], p)
  BY <1>2, RenewedNode
<1> QED
  BY <1>3 DEF n

LEMMA PoolRenewed ==
    ASSUME Inv, Renewed(pool', pool), strategy' = strategy, since' = since,
           sent' = sent, submitted' = submitted, measures' = measures, now' = now,
           changes' \in 0..MaxChanges
    PROVE  Inv'
<1>1. Complete(pool, strategy) /\ TurnsInv(pool, since) /\ CountsInv
  BY DEF Inv
<1>2. Complete(pool', strategy) /\ TurnsInv(pool', since)
  BY <1>1, RenewedPool
<1>3. CountsInv'
  BY <1>1 DEF CountsInv
<1> QED
  BY <1>2, <1>3 DEF Inv

LEMMA WorkerReadyInv ==
    ASSUME Inv, NEW key \in Keys, WorkerReady(key)
    PROVE  Inv'
<1> DEFINE n == [At(pool, key) EXCEPT !.ready = TRUE, !.informed = TRUE]
<1>1. pool \in Pools /\ key \in 0..Size(pool)-1 /\ TRUE \in BOOLEAN /\ changes \in 0..MaxChanges
      /\ key + 1 \in 1..Size(pool)
  BY PoolFields DEF Inv, Complete, PoolInv, CountsInv, Keys
<1>2. Renewed([pool EXCEPT !.nodes[key + 1] = n], pool)
  BY <1>1, FlaggedRenewed
<1>3. pool' = [pool EXCEPT !.nodes[key + 1] = n]
  <2>1. pool' = [pool EXCEPT !.nodes[key + 1].ready = TRUE, !.nodes[key + 1].informed = TRUE]
    BY DEF WorkerReady
  <2>2. DOMAIN pool.nodes = 1..Size(pool)
    BY <1>1, PoolFields
  <2> QED
    BY <1>1, <2>1, <2>2 DEF At, Pools
<1>4. Renewed(pool', pool)
  BY <1>2, <1>3
<1> QED
  BY <1>1, <1>4, PoolRenewed DEF WorkerReady

LEMMA NotReadyInv ==
    ASSUME Inv, NEW key \in Keys, NotReady(key)
    PROVE  Inv'
<1> DEFINE n == [At(pool, key) EXCEPT !.ready = FALSE, !.informed = At(pool, key).informed]
<1>1. pool \in Pools /\ key \in 0..Size(pool)-1 /\ FALSE \in BOOLEAN
      /\ key + 1 \in 1..Size(pool)
  BY PoolFields DEF Inv, Complete, PoolInv, Keys
<1>2. At(pool, key) \in GoodNode /\ At(pool, key).informed \in BOOLEAN
  BY <1>1, PoolFields, NodeFields DEF At
<1>3. Renewed([pool EXCEPT !.nodes[key + 1] = n], pool)
  BY <1>1, <1>2, FlaggedRenewed
<1>4. pool' = [pool EXCEPT !.nodes[key + 1] = n]
  <2>1. pool' = [pool EXCEPT !.nodes[key + 1].ready = FALSE]
    BY DEF NotReady
  <2>2. n = [At(pool, key) EXCEPT !.ready = FALSE]
    BY <1>2 DEF GoodNode, Node
  <2> QED
    BY <1>1, <2>1, <2>2 DEF At, Pools
<1>5. Renewed(pool', pool)
  BY <1>3, <1>4
<1>6. changes' \in 0..MaxChanges
  BY WorkerChoiceAssumption DEF NotReady, Inv, CountsInv
<1> QED
  BY <1>5, <1>6, PoolRenewed DEF NotReady

(* The node leaves, the keys behind move, and the minimum of nodes joins *)
LEMMA WorkerNodeExitInv ==
    ASSUME Inv, NEW key \in Keys, WorkerNodeExit(key)
    PROVE  Inv'
<1> DEFINE id == At(pool, key).id
           r == ContextRemoved(Spliced(pool, key), key)
           q == WithMinimum(r)
           turns == Forgotten(since, id)
<1>1. /\ Complete(pool, strategy) /\ PoolInv(pool) /\ TurnsInv(pool, since) /\ CountsInv
      /\ pool \in Pools /\ key \in 0..Size(pool)-1 /\ Size(pool) \in Nat
      /\ Size(pool) <= MaxSize /\ key + 1 \in 1..Size(pool)
  BY PoolFields DEF Inv, Complete, PoolInv, Keys
<1>2. /\ pool' = q
      /\ sent' = [e \in DOMAIN sent |-> IF e[2] = id THEN 0 ELSE sent[e]]
      /\ since' = turns
      /\ strategy' = strategy /\ submitted' = submitted /\ measures' = measures
      /\ changes' = changes /\ now' = now
  BY DEF WorkerNodeExit, Forgotten
<1>3. /\ PoolInv(r) /\ Left(r, pool, key) /\ DOMAIN r.context = DOMAIN pool.context
      /\ "ROUND_ROBIN" \in DOMAIN pool.context =>
             LET next == pool.context["ROUND_ROBIN"].next
             IN  r.context["ROUND_ROBIN"].next =
                     IF Size(r) = 0 THEN 0 ELSE Moved(r, next, key)
  BY <1>1, ContextRemovedInv
<1> HIDE DEF r
<1>4. TurnsInv(r, turns)
  <2>1. id = pool.nodes[key + 1].id
    BY DEF At
  <2>2. TurnsInv(r, Forgotten(since, pool.nodes[key + 1].id))
    BY <1>1, <1>3, TurnsLeft
  <2> QED
    BY <2>1, <2>2
<1>5. Cardinality(Statics(r)) = IF pool.nodes[key + 1].dynamic THEN MinSize ELSE MinSize - 1
  BY <1>1, <1>3, LeftStatics DEF Complete
<1>6. Cardinality(Statics(r)) <= MinSize /\ Size(r) - Cardinality(Statics(r)) <= MaxSize - MinSize
  <2>1. Size(r) = Size(pool) - 1 /\ MinSize \in Nat /\ MaxSize \in Nat
    BY <1>3, WorkerChoiceAssumption DEF Left
  <2> QED
    BY <1>1, <1>5, <2>1
<1>7. Grew(q, r) /\ Cardinality(Statics(q)) = MinSize
  BY <1>3, <1>6, MinimumOfWorkers
<1> HIDE DEF q
<1>8. Complete(q, strategy)
  BY <1>1, <1>3, <1>7 DEF Complete, Grew
<1>9. TurnsInv(q, turns)
  BY <1>3, <1>4, <1>7, TurnsGrew DEF PoolInv
<1>10. since' \in [Worker -> SUBSET Worker]
  <2>1. since \in [Worker -> SUBSET Worker]
    BY <1>1 DEF CountsInv
  <2>2. Forgotten(since, id) \in [Worker -> SUBSET Worker]
    BY <2>1 DEF Forgotten
  <2> QED
    BY <1>2, <2>2
<1>11. /\ sent' \in [WorkerNodeKey \X Worker -> Nat]
       /\ \A e \in WorkerNodeKey \X Worker : sent'[e] <= submitted'
  <2>1. /\ sent \in [WorkerNodeKey \X Worker -> Nat] /\ submitted \in Nat
        /\ \A e \in WorkerNodeKey \X Worker : sent[e] <= submitted
    BY <1>1, WorkerChoiceAssumption DEF CountsInv
  <2> HIDE DEF id
  <2>2. \A e \in WorkerNodeKey \X Worker : sent'[e] = IF e[2] = id THEN 0 ELSE sent[e]
    BY <1>2, <2>1
  <2>3. sent' \in [WorkerNodeKey \X Worker -> Nat]
    BY <1>2, <2>1
  <2>4. \A e \in WorkerNodeKey \X Worker : sent'[e] <= submitted'
    BY <1>2, <2>1, <2>2
  <2> QED
    BY <2>3, <2>4
<1>12. CountsInv'
  BY <1>1, <1>2, <1>10, <1>11 DEF CountsInv
<1>13. Complete(pool', strategy') /\ TurnsInv(pool', since')
  BY <1>2, <1>8, <1>9
<1> QED
  BY <1>12, <1>13 DEF Inv

LEMMA SetWorkerChoiceStrategyInv ==
    ASSUME Inv, NEW name \in Strategies, SetWorkerChoiceStrategy(name)
    PROVE  Inv'
<1> DEFINE q == Synchronized(pool, name)
<1>1. /\ PoolInv(pool) /\ pool \in Pools /\ Cardinality(Statics(pool)) = MinSize
      /\ TurnsInv(pool, since) /\ CountsInv
  BY DEF Inv, Complete, PoolInv
<1>2. /\ pool' = q /\ strategy' = name /\ changes < MaxChanges /\ changes' = changes + 1
      /\ since' = IF "ROUND_ROBIN" \in DOMAIN pool.context THEN since ELSE NoTurns
      /\ sent' = sent /\ submitted' = submitted /\ measures' = measures /\ now' = now
  BY DEF SetWorkerChoiceStrategy
<1>3. /\ Complete(q, name) /\ q.nodes = pool.nodes
      /\ "ROUND_ROBIN" \in DOMAIN pool.context => SameTurn(q, pool)
  BY <1>1, SynchronizedComplete
<1> HIDE DEF q
<1>4. TurnsInv(q, since')
  <2>1. CASE "ROUND_ROBIN" \in DOMAIN pool.context
    <3>1. Size(q) = Size(pool) /\ \A i \in 1..Size(pool) : q.nodes[i].id = pool.nodes[i].id
      BY <1>3 DEF Size
    <3>2. TurnsInv(q, since)
      BY <1>1, <1>3, <2>1, <3>1, TurnsKept
    <3> QED
      BY <1>2, <2>1, <3>2
  <2>2. CASE "ROUND_ROBIN" \notin DOMAIN pool.context
    BY <1>2, <1>3, <2>2, NoTurnsInv DEF Complete, PoolInv
  <2> QED
    BY <2>1, <2>2
<1>5. CountsInv'
  <2>1. NoTurns \in [Worker -> SUBSET Worker]
    BY DEF NoTurns
  <2>2. changes' \in 0..MaxChanges
    BY <1>1, <1>2, WorkerChoiceAssumption DEF CountsInv
  <2> QED
    BY <1>1, <1>2, <2>1, <2>2 DEF CountsInv
<1> QED
  BY <1>2, <1>3, <1>4, <1>5 DEF Inv

LEMMA SetWorkerChoiceStrategyOptionsInv ==
    ASSUME Inv, NEW o \in Options, SetWorkerChoiceStrategyOptions(o)
    PROVE  Inv'
<1> DEFINE q == [pool EXCEPT !.options = o]
<1>1. /\ Complete(pool, strategy) /\ PoolInv(pool) /\ pool \in Pools
      /\ TurnsInv(pool, since) /\ CountsInv
  BY DEF Inv, Complete, PoolInv
<1>2. /\ pool' = q /\ changes < MaxChanges /\ changes' = changes + 1
      /\ strategy' = strategy /\ since' = since
      /\ sent' = sent /\ submitted' = submitted /\ measures' = measures /\ now' = now
  BY DEF SetWorkerChoiceStrategyOptions
<1>3. q \in Pools /\ q.nodes = pool.nodes /\ q.context = pool.context
  BY <1>1 DEF Pools
<1> HIDE DEF q
<1>4. Size(q) = Size(pool) /\ Statics(q) = Statics(pool)
  BY <1>3 DEF Size, Statics
<1>5. PoolInv(q)
  BY <1>1, <1>3, <1>4 DEF PoolInv, DistinctNodes
<1>6. Complete(q, strategy)
  BY <1>1, <1>3, <1>4, <1>5 DEF Complete
<1>7. TurnsInv(q, since)
  BY <1>1, <1>3, <1>4, TurnsKept DEF SameTurn
<1>8. CountsInv'
  <2>1. changes' \in 0..MaxChanges
    BY <1>1, <1>2, WorkerChoiceAssumption DEF CountsInv
  <2> QED
    BY <1>1, <1>2, <2>1 DEF CountsInv
<1> QED
  BY <1>2, <1>6, <1>7, <1>8 DEF Inv

LEMMA TickInv ==
    ASSUME Inv, Tick
    PROVE  Inv'
<1>1. now' \in 0..MaxTime
  BY WorkerChoiceAssumption DEF Inv, CountsInv, Tick
<1>2. CountsInv'
  BY <1>1 DEF Inv, CountsInv, Tick
<1> QED
  BY <1>2 DEF Inv, Tick

-----------------------------------------------------------------------------
(* The theorems *)

LEMMA NextInv ==
    ASSUME Inv, [Next]_vars
    PROVE  Inv'
<1>1. CASE UNCHANGED vars
  BY <1>1 DEF Inv, CountsInv, vars
<1>2. ASSUME NEW f \in Function, Execute(f) PROVE Inv'
  BY <1>2, ExecuteInv
<1>3. ASSUME NEW e \in DOMAIN sent, NEW cost \in Costs, TaskExecutionResponse(e, cost)
      PROVE  Inv'
  <2>1. e \in WorkerNodeKey \X Worker
    BY DEF Inv, CountsInv
  <2> QED
    BY <1>3, <2>1, TaskExecutionResponseInv
<1>4. ASSUME NEW key \in Keys, WorkerReady(key) \/ NotReady(key) \/ WorkerNodeExit(key)
      PROVE  Inv'
  BY <1>4, WorkerReadyInv, NotReadyInv, WorkerNodeExitInv
<1>5. ASSUME NEW name \in Strategies, SetWorkerChoiceStrategy(name) PROVE Inv'
  BY <1>5, SetWorkerChoiceStrategyInv
<1>6. ASSUME NEW o \in Options, SetWorkerChoiceStrategyOptions(o) PROVE Inv'
  BY <1>6, SetWorkerChoiceStrategyOptionsInv
<1>7. CASE Tick
  BY <1>7, TickInv
<1> QED
  BY <1>1, <1>2, <1>3, <1>4, <1>5, <1>6, <1>7 DEF Next

(* The invariant holds of every pool, whatever its strategies, its workers, *)
(* the affinities of its task functions and the times measured.             *)
THEOREM Invariance == Spec => []Inv
<1>1. Init => Inv
  BY InitInv
<1>2. Inv /\ [Next]_vars => Inv'
  BY NextInv
<1> QED
  BY <1>1, <1>2, PTL DEF Spec

LEMMA InvTypeOK == Inv => TypeOK
<1> SUFFICES ASSUME Inv PROVE TypeOK
  OBVIOUS
<1>1. /\ Complete(pool, strategy) /\ PoolInv(pool) /\ pool \in Pools /\ CountsInv
      /\ strategy \in Strategies /\ Size(pool) \in Nat /\ Size(pool) <= MaxSize
      /\ MinSize \in Nat /\ MaxSize \in Nat /\ MaxTasks \in Nat
      /\ (pool.nodes = <<>> <=> Size(pool) = 0)
  BY PoolFields, WorkerChoiceAssumption DEF Inv, Complete, PoolInv, CountsInv
<1>2. KeysDenoteNodes
  <2> SUFFICES ASSUME pool.nodes # <<>>, NEW name \in RoundRobins \intersect DOMAIN pool.context
               PROVE  pool.context[name].next \in Keys /\ pool.context[name].nodeId \in Keys
    BY DEF KeysDenoteNodes
  <2>1. Size(pool) > 0
    BY <1>1
  <2>2. pool.context[name] \in GoodState(name, Size(pool))
    BY <1>1 DEF PoolInv
  <2> QED
    BY <1>1, <2>1, <2>2, StateKeys DEF Keys
<1>3. pool.nodes \in Seq(Node)
  <2>1. pool.nodes \in Seq(GoodNode) /\ GoodNode \subseteq Node
    BY <1>1, PoolFields DEF GoodNode
  <2>2. /\ Len(pool.nodes) \in Nat
        /\ pool.nodes \in [1..Len(pool.nodes) -> GoodNode]
    BY <2>1, LenProperties, SeqDef
  <2>3. pool.nodes \in [1..Len(pool.nodes) -> Node]
    BY <2>1, <2>2
  <2> QED
    BY <2>2, <2>3, SeqDef
<1>4. Size(pool) \in MinSize..MaxSize
  BY <1>1, StaticsFinite DEF Complete
<1>5. /\ pool.context \in [DOMAIN pool.context -> StrategyState]
      /\ DOMAIN pool.context \subseteq Every /\ strategy \in DOMAIN pool.context
      /\ pool.options \in Options
  BY <1>1, PoolFields, NamesKnown DEF Complete
<1>6. sent \in [WorkerNodeKey \X Worker -> 0..MaxTasks]
  <2>1. \A e \in WorkerNodeKey \X Worker : sent[e] \in 0..MaxTasks
    BY <1>1 DEF CountsInv
  <2> QED
    BY <1>1, <2>1 DEF CountsInv
<1> QED
  BY <1>1, <1>2, <1>3, <1>4, <1>5, <1>6 DEF TypeOK, CountsInv

(* Counts, nodes and statistics have their types, and the keys the round     *)
(* robins keep are keys of nodes, though nodes are spliced out of the pool   *)
(* (worker-choice-strategies-context.ts remove).                             *)
THEOREM TypeCorrect == Spec => []TypeOK
<1>1. Inv => TypeOK
  BY InvTypeOK
<1> QED
  BY <1>1, Invariance, PTL

(* The worker a step of Execute gave a task to *)
LEMMA ChosenAnswered ==
    ASSUME Inv, NEW f \in Function, Execute(f)
    PROVE  LET t == Answer(f)
               id == At(t.pool, t.key).id
           IN  Chosen = IF t.key = NoKey THEN {} ELSE {id}
<1> DEFINE t == Answer(f)
           key == t.key
           id == At(t.pool, key).id
<1>1. \/ key = NoKey /\ sent' = sent
      \/ /\ key # NoKey /\ key \in WorkerNodeKey /\ id \in Worker
         /\ sent' = [sent EXCEPT ![<<key, id>>] = @ + 1]
  BY ExecuteCases
<1>2. sent \in [WorkerNodeKey \X Worker -> Nat]
  BY DEF Inv, CountsInv
<1> HIDE DEF id, key
<1>3. CASE key = NoKey /\ sent' = sent
  <2>1. \A k \in WorkerNodeKey, w \in Worker : ~(sent[<<k, w>>] > sent[<<k, w>>])
    <3> SUFFICES ASSUME NEW k \in WorkerNodeKey, NEW w \in Worker
                 PROVE  ~(sent[<<k, w>>] > sent[<<k, w>>])
      OBVIOUS
    <3> DEFINE n == sent[<<k, w>>]
    <3>1. n \in Nat
      BY <1>2
    <3> HIDE DEF n
    <3>2. ~(n > n)
      BY <3>1
    <3> QED
      BY <3>2 DEF n
  <2>2. Chosen = {}
    BY <1>3, <2>1 DEF Chosen
  <2> QED
    BY <1>3, <2>2 DEF key
<1>4. CASE /\ key # NoKey /\ key \in WorkerNodeKey /\ id \in Worker
           /\ sent' = [sent EXCEPT ![<<key, id>>] = @ + 1]
  <2>1. \A k \in WorkerNodeKey, w \in Worker :
            /\ sent[<<k, w>>] \in Nat
            /\ sent'[<<k, w>>] = IF k = key /\ w = id THEN sent[<<k, w>>] + 1
                                 ELSE sent[<<k, w>>]
    BY <1>2, <1>4
  <2>2. \A k \in WorkerNodeKey, w \in Worker :
            sent'[<<k, w>>] > sent[<<k, w>>] <=> k = key /\ w = id
    <3> SUFFICES ASSUME NEW k \in WorkerNodeKey, NEW w \in Worker
                 PROVE  sent'[<<k, w>>] > sent[<<k, w>>] <=> k = key /\ w = id
      OBVIOUS
    <3> DEFINE n == sent[<<k, w>>]
               m == sent'[<<k, w>>]
    <3>1. n \in Nat /\ m = IF k = key /\ w = id THEN n + 1 ELSE n
      BY <2>1
    <3> HIDE DEF n, m
    <3>2. m > n <=> k = key /\ w = id
      BY <3>1
    <3> QED
      BY <3>2 DEF n, m
  <2>3. Chosen = {id}
    BY <1>4, <2>2 DEF Chosen
  <2> QED
    BY <1>4, <2>3 DEF key, id
<1> QED
  BY <1>1, <1>3, <1>4

(* What a step of Execute may not do *)
TurnStep ==
    \A f \in Function :
       (StrategyOf(f) = "ROUND_ROBIN" /\ KeysOf(f) = {} /\ Executes(f))
       => \A w \in Chosen, v \in ReadyWorkers(pool') \ Chosen : w \notin since[v]

RefusedStep ==
    \A f \in Function :
       (StrategyOf(f) \notin Weighted /\ Executes(f) /\ Chosen = {})
       => \A key \in WorkerNodeKey : ~Eligible(pool', key, KeysOf(f))

WeightedStep ==
    \A f \in Function :
       LET s == pool.context[StrategyOf(f)]
           t == pool'.context[StrategyOf(f)]
           underWay == StrategyOf(f) = "WEIGHTED_ROUND_ROBIN" \/ s.nodeId = s.next
       IN  (/\ StrategyOf(f) \in Weighted /\ KeysOf(f) = {} /\ Executes(f)
            /\ Size(pool') > 1
            /\ \A key \in 0..Size(pool')-1 : Ready(pool', key)
            /\ underWay /\ At(pool', s.next).id \in Chosen)
           => /\ s.virtualTime < pool.options.weights[s.next]
              /\ t.virtualTime = s.virtualTime + TaskRunTime(pool', s.next)

StatisticsStep ==
    \A e \in DOMAIN sent, cost \in Costs \ {Undefined} :
       LET before == At(pool, e[1]).runTime
           after == At(pool', e[1]).runTime
           window == WindowAppend(ToArray(before.history), cost)
       IN  (e[1] \in Keys /\ measures' # measures /\ TaskExecutionResponse(e, cost))
           => /\ Required(pool).average => after.average = Average(window)
              /\ Required(pool).median => after.median = Median(window)
              /\ Required(pool).average \/ Required(pool).median =>
                     ToArray(after.history) = window

IdleStep ==
    \A f \in Function :
       (StrategyOf(f) = "LEAST_USED" /\ KeysOf(f) = {} /\ Executes(f))
       => \A i, j \in DOMAIN pool'.nodes :
             (pool'.nodes[i].id \in Chosen /\ pool'.nodes[i].executing > 1
                 /\ pool'.nodes[j].ready)
             => pool'.nodes[j].executing > 0

(* A node chosen comes, from the next key on, before every other node that   *)
(* is ready; a node it has in its history would come after that one          *)
LEMMA StepTurn == Inv => TurnStep
<1> SUFFICES ASSUME Inv, NEW f \in Function, StrategyOf(f) = "ROUND_ROBIN", KeysOf(f) = {},
                    Execute(f), NEW w \in Chosen, NEW v \in ReadyWorkers(pool') \ Chosen
             PROVE  w \notin since[v]
  BY DEF TurnStep, Executes
<1> DEFINE p == Given(f)
           t == Answer(f)
           q == t.pool
           key == t.key
           next == p.context["ROUND_ROBIN"].next
<1>1. /\ PoolInv(p) /\ TurnsInv(p, since) /\ Size(p) > 0 /\ "ROUND_ROBIN" \in DOMAIN p.context
      /\ Tried(t, p, "ROUND_ROBIN", {}) /\ TurnTried(t, p, {}, Retries + 1)
  BY ExecuteAnswered DEF Answered, Complete
<1>2. key # NoKey /\ Chosen = {At(q, key).id} /\ w = At(q, key).id
  <2>1. Chosen = IF key = NoKey THEN {} ELSE {At(q, key).id}
    BY ChosenAnswered
  <2> QED
    BY <2>1
<1>3. pool' = Started(q, key) /\ key \in 0..Size(q)-1
  BY <1>2, ExecuteCases
<1> HIDE DEF p, t
<1>4. /\ next \in 0..Size(p)-1 /\ key \in 0..Size(p)-1
      /\ \A k \in 0..Size(p)-1 : Ready(p, k) => k = key \/ Ahead(next, key, k)
  BY <1>1, <1>2, TurnFound
<1>5. /\ q \in Pools /\ Size(q) = Size(p) /\ Size(p) \in Nat \ {0}
      /\ \A i \in 1..Size(p) : q.nodes[i].id = p.nodes[i].id /\ q.nodes[i].ready = p.nodes[i].ready
  BY <1>1, PoolFields DEF Tried, AsTried, PoolInv, SameNodes, SameNode
<1>6. /\ Size(pool') = Size(p)
      /\ \A i \in 1..Size(p) : /\ pool'.nodes[i].id = p.nodes[i].id
                               /\ pool'.nodes[i].ready = p.nodes[i].ready
  <2>1. /\ Renewed(Started(q, key), q)
        /\ \A i \in 1..Size(q) : Started(q, key).nodes[i].ready = q.nodes[i].ready
    BY <1>3, <1>5, StartedRenewed
  <2> QED
    BY <1>3, <1>5, <2>1 DEF Renewed
<1>7. PICK k \in 0..Size(p)-1 : Ready(p, k) /\ p.nodes[k + 1].id = v
  <2>1. PICK k \in 0..Size(pool')-1 : Ready(pool', k) /\ At(pool', k).id = v
    BY DEF ReadyWorkers
  <2>2. k \in 0..Size(p)-1 /\ k + 1 \in 1..Size(p)
    BY <1>5, <1>6, <2>1
  <2> QED
    BY <1>6, <2>1, <2>2 DEF Ready, At
<1>8. key + 1 \in 1..Size(p) /\ k + 1 \in 1..Size(p) /\ w = p.nodes[key + 1].id
  <2>1. key + 1 \in 1..Size(p) /\ k + 1 \in 1..Size(p)
    BY <1>4, <1>5, <1>7
  <2> QED
    BY <1>2, <1>5, <2>1 DEF At
<1>9. k # key
  BY <1>2, <1>7, <1>8
<1>10. ASSUME w \in since[v] PROVE FALSE
  <2>1. ASSUME NEW i \in 1..Size(p), NEW j \in 1..Size(p), p.nodes[i].id = v, p.nodes[j].id = w
        PROVE  Ahead(next, i - 1, j - 1)
    <3>1. p.nodes[j].id \in since[p.nodes[i].id]
      BY <1>10, <2>1
    <3> QED
      BY <1>1, <2>1, <3>1 DEF TurnsInv
  <2>2. Ahead(next, k, key)
    <3>1. Ahead(next, (k + 1) - 1, (key + 1) - 1)
      BY <1>7, <1>8, <2>1
    <3>2. (k + 1) - 1 = k /\ (key + 1) - 1 = key
      BY <1>4, <1>5, <1>7
    <3> QED
      BY <3>1, <3>2
  <2>3. Ahead(next, key, k)
    BY <1>4, <1>7, <1>9
  <2> QED
    BY <1>4, <1>5, <1>7, <2>2, <2>3 DEF Ahead
<1> QED
  BY <1>10

LEMMA StepRefused == Inv => RefusedStep
<1> SUFFICES ASSUME Inv, NEW f \in Function, StrategyOf(f) \notin Weighted, Execute(f),
                    Chosen = {}, NEW key \in WorkerNodeKey
             PROVE  ~Eligible(pool', key, KeysOf(f))
  BY DEF RefusedStep, Executes
<1> DEFINE p == Given(f)
           t == Answer(f)
           q == t.pool
           name == StrategyOf(f)
           keys == KeysOf(f)
<1>1. /\ PoolInv(p) /\ Size(p) > 0 /\ keys \in SUBSET (0..Size(p)-1) /\ name \in DOMAIN p.context
      /\ Tried(t, p, name, keys)
      /\ name = "ROUND_ROBIN" => TurnTried(t, p, keys, Retries + 1)
  BY ExecuteAnswered DEF Answered, Complete
<1>2. t.key = NoKey
  <2>1. Chosen = IF t.key = NoKey THEN {} ELSE {At(q, t.key).id}
    BY ChosenAnswered
  <2> QED
    BY <2>1
<1>3. pool' = q
  BY <1>2, ExecuteCases
<1> HIDE DEF p, t, name, keys
<1>4. name \notin Weighted
  BY DEF name
<1>5. NoneEligible(p, keys)
  BY <1>1, <1>2, <1>4, Refused
<1>6. NoneEligible(q, keys) /\ q \in Pools
  <2>1. AsTried(q, p, name)
    BY <1>1 DEF Tried
  <2>2. NoneEligible(q, keys) = NoneEligible(p, keys)
    BY <1>1, <2>1, AsTriedSame
  <2> QED
    BY <1>5, <2>1, <2>2 DEF AsTried, PoolInv
<1>7. ~Eligible(q, key, keys)
  <2>1. Size(q) \in Nat /\ MaxSize \in Nat /\ key \in Nat
    BY <1>6, PoolFields, WorkerChoiceAssumption DEF WorkerNodeKey
  <2>2. CASE key < Size(q)
    <3>1. key \in 0..Size(q)-1
      BY <2>1, <2>2
    <3> QED
      BY <1>6, <3>1 DEF NoneEligible
  <2>3. CASE ~(key < Size(q))
    BY <2>3 DEF Eligible, Ready
  <2> QED
    BY <2>2, <2>3
<1> QED
  BY <1>3, <1>7 DEF keys

LEMMA StepIdle == Inv => IdleStep
<1> SUFFICES ASSUME Inv, NEW f \in Function, StrategyOf(f) = "LEAST_USED", KeysOf(f) = {},
                    Execute(f), NEW i \in DOMAIN pool'.nodes, NEW j \in DOMAIN pool'.nodes,
                    pool'.nodes[i].id \in Chosen, pool'.nodes[i].executing > 1,
                    pool'.nodes[j].ready
             PROVE  pool'.nodes[j].executing > 0
  BY DEF IdleStep, Executes
<1> DEFINE p == Given(f)
           t == Answer(f)
           q == t.pool
           key == t.key
           r == Started(q, key)
<1>1. PoolInv(p) /\ Size(p) > 0 /\ Tried(t, p, "LEAST_USED", {})
  BY ExecuteAnswered DEF Answered, Complete
<1>2. key # NoKey /\ pool'.nodes[i].id = At(q, key).id
  <2>1. Chosen = IF key = NoKey THEN {} ELSE {At(q, key).id}
    BY ChosenAnswered
  <2> QED
    BY <2>1
<1>3. pool' = r /\ key \in 0..Size(q)-1
  BY <1>2, ExecuteCases
<1> HIDE DEF p, t
<1>4. /\ PoolInv(q) /\ q \in Pools /\ Size(q) = Size(p) /\ Size(p) \in Nat /\ key \in 0..Size(p)-1
      /\ \A k \in 1..Size(p) : q.nodes[k].id = p.nodes[k].id /\ q.nodes[k].ready = p.nodes[k].ready
                               /\ q.nodes[k].executing = p.nodes[k].executing
      /\ \A k \in 1..Size(p) : q.nodes[k].executing \in Nat
      /\ LeastExecuting(p, key)
  BY <1>1, <1>2, PoolFields, NodeFields DEF Tried, AsTried, PoolInv, SameNodes, SameNode
<1>5. /\ Renewed(r, q)
      /\ \A k \in 1..Size(q) :
             /\ r.nodes[k].ready = q.nodes[k].ready
             /\ r.nodes[k].executing =
                    IF k = key + 1 THEN q.nodes[k].executing + 1 ELSE q.nodes[k].executing
  BY <1>3, <1>4, StartedRenewed
<1> HIDE DEF r, key
<1>6. i \in 1..Size(p) /\ j \in 1..Size(p) /\ key + 1 \in 1..Size(p)
  <2>1. DOMAIN r.nodes = 1..Size(r) /\ Size(r) = Size(p)
    BY <1>4, <1>5, PoolFields DEF Renewed
  <2> QED
    BY <1>3, <1>4, <2>1
<1>7. i = key + 1
  <2>1. q.nodes[i].id = q.nodes[key + 1].id
    BY <1>2, <1>3, <1>4, <1>5, <1>6 DEF Renewed, At
  <2> QED
    BY <1>4, <1>6, <2>1 DEF PoolInv, DistinctNodes
<1>8. p.nodes[i].executing > 0
  <2>1. r.nodes[i].executing = q.nodes[i].executing + 1 /\ q.nodes[i].executing \in Nat
    BY <1>4, <1>5, <1>6, <1>7
  <2>2. r.nodes[i].executing > 1
    BY <1>3
  <2>3. q.nodes[i].executing > 0
    BY <2>1, <2>2
  <2> QED
    BY <1>4, <1>6, <2>3
<1>9. p.nodes[i].executing <= p.nodes[j].executing
  <2>1. j - 1 \in 0..Size(p)-1 /\ Ready(p, j - 1)
    <3>1. p.nodes[j].ready
      BY <1>3, <1>4, <1>5, <1>6
    <3> QED
      BY <1>4, <1>6, <3>1 DEF Ready, At
  <2>2. At(p, key).executing <= At(p, j - 1).executing
    BY <1>4, <2>1 DEF LeastExecuting
  <2>3. At(p, key) = p.nodes[i] /\ At(p, j - 1) = p.nodes[j]
    BY <1>6, <1>7 DEF At
  <2> QED
    BY <2>2, <2>3
<1>10. r.nodes[j].executing >= p.nodes[j].executing /\ p.nodes[j].executing \in Nat
       /\ p.nodes[i].executing \in Nat /\ r.nodes[j].executing \in Nat
  BY <1>4, <1>5, <1>6
<1> QED
  BY <1>3, <1>8, <1>9, <1>10

AllReady(p) == \A key \in 0..Size(p)-1 : Ready(p, key)

(* What a try leaves *)
LEMMA TryNodes ==
    ASSUME NEW p \in Pools, NEW name, NEW keys, NEW time
    PROVE  Try(p, name, keys, time).pool.nodes = Choose(p, name, keys, time).nodes
<1> DEFINE c == Choose(p, name, keys, time)
<1>1. Try(p, name, keys, time).pool = [p EXCEPT !.nodes = c.nodes, !.context[name] = c.state]
  BY DEF Try
<1> HIDE DEF c
<1> QED
  BY <1>1 DEF Pools, c

(* Of a key chosen while a turn is under way: it is the next one only below *)
(* its weight                                                               *)
BelowWeight(c, p, s) ==
    c.key = s.next =>
        /\ s.virtualTime < p.options.weights[s.next]
        /\ c.state.virtualTime = s.virtualTime + TaskRunTime(p, s.next)

LEMMA WeightedTurn ==
    ASSUME NEW p, PoolInv(p), Size(p) > 1, AllReady(p),
           "WEIGHTED_ROUND_ROBIN" \in DOMAIN p.context
    PROVE  LET s == p.context["WEIGHTED_ROUND_ROBIN"]
               c == WeightedRoundRobin(p, s, {})
           IN  c.nodes = p.nodes /\ c.key # NoKey /\ BelowWeight(c, p, s)
<1> DEFINE s == p.context["WEIGHTED_ROUND_ROBIN"]
           c == WeightedRoundRobin(p, s, {})
           stays == [s EXCEPT !.virtualTime = @ + TaskRunTime(p, s.next)]
           key == FollowingKey(p, s, {})
           passes == [s EXCEPT !.next = key, !.virtualTime = 0]
<1>1. /\ p \in Pools /\ Size(p) \in Nat /\ Size(p) > 0
      /\ s \in StrategyState /\ s.next \in 0..Size(p)-1
  BY PoolFields, StateKeys DEF PoolInv, RoundRobins, Weighted
<1>2. Cardinality({}) # 1
  BY FS_EmptySet
<1>3. c = IF s.virtualTime < p.options.weights[s.next]
          THEN Choice(p, stays, IfReady(p, s.next)) ELSE Choice(p, passes, IfReady(p, key))
  BY <1>2 DEF WeightedRoundRobin
<1>4. key \in 0..Size(p)-1 /\ key # s.next
  <2>1. /\ key \in 0..Size(p)-1
        /\ \A k \in 0..Size(p)-1 : k = key \/ Ahead(s.next, key, k)
    BY <1>1, FollowingKeyFound DEF Follows
  <2> HIDE DEF key, s
  <2>2. ASSUME key = s.next PROVE FALSE
    <3>1. PICK k \in 0..Size(p)-1 : k # s.next
      <4>1. 0 \in 0..Size(p)-1 /\ 1 \in 0..Size(p)-1
        BY <1>1
      <4> QED
        BY <4>1
    <3>2. Ahead(s.next, s.next, k)
      BY <2>1, <2>2, <3>1
    <3> QED
      BY <1>1, <3>1, <3>2 DEF Ahead
  <2> QED
    BY <2>1, <2>2
<1> HIDE DEF c, key, s
<1>5. IfReady(p, s.next) = s.next /\ IfReady(p, key) = key /\ s.next # NoKey /\ key # NoKey
  BY <1>1, <1>4 DEF AllReady, IfReady, NoKey
<1>6. stays.virtualTime = s.virtualTime + TaskRunTime(p, s.next)
  BY <1>1 DEF StrategyState
<1> HIDE DEF stays, passes
<1>7. c.nodes = p.nodes /\ c.key # NoKey /\ BelowWeight(c, p, s)
  BY <1>3, <1>4, <1>5, <1>6 DEF Choice, BelowWeight
<1> QED
  BY <1>7 DEF c, s

(* The interleaved strategy may give no key: then the last node had its turn *)
LEMMA InterleavedTurn ==
    ASSUME NEW p, PoolInv(p), Size(p) > 1, AllReady(p),
           "INTERLEAVED_WEIGHTED_ROUND_ROBIN" \in DOMAIN p.context
    PROVE  LET s == p.context["INTERLEAVED_WEIGHTED_ROUND_ROBIN"]
               c == InterleavedWeightedRoundRobin(p, s, {})
           IN  /\ c.nodes = p.nodes
               /\ (s.nodeId = s.next /\ c.key # NoKey) => BelowWeight(c, p, s)
               /\ (s.nodeId = s.next /\ c.key = NoKey) =>
                      s.next # 0 /\ c.state.next = s.next /\ c.state.nodeId = 0
               /\ (s.nodeId = 0 /\ s.next # 0) => c.key = 0
<1> DEFINE s == p.context["INTERLEAVED_WEIGHTED_ROUND_ROBIN"]
           rest == Size(p) - s.nodeId
           c == InterleavedWeightedRoundRobin(p, s, {})
           refused(time) == [s EXCEPT !.roundId = 0, !.nodeId = 0, !.virtualTime = time]
           taken(key, time) == [s EXCEPT !.roundId = 0, !.nodeId = key,
                                         !.virtualTime = time, !.next = key]
<1>1. /\ p \in Pools /\ Size(p) \in Nat /\ Size(p) <= MaxSize
      /\ s \in StrategyState /\ s.next \in 0..Size(p)-1 /\ s.nodeId \in 0..Size(p)-1
      /\ 0..Size(p)-1 \subseteq WorkerNodeKey
  BY PoolFields, StateKeys DEF PoolInv, RoundRobins, Weighted
<1>2. Cardinality({}) # 1
  BY FS_EmptySet
<1>3. \/ /\ \A i \in 1..rest : ~TakenAt(p, s, {}, i)
         /\ \E time \in Nat : c = Choice(p, refused(time), NoKey)
      \/ \E i \in 1..rest :
             LET key == s.nodeId + i - 1
                 time == TimeAt(s, i) + TaskRunTime(p, key)
             IN  /\ TakenAt(p, s, {}, i)
                 /\ \A j \in 1..i-1 : ~TakenAt(p, s, {}, j)
                 /\ c = Choice(p, taken(key, time), key)
  <2>1. Size(p) > 0
    BY <1>1
  <2> QED
    BY <1>2, <2>1, InterleavedChoice, Zenon
<1> HIDE DEF c, s
<1>4. ASSUME NEW i \in 1..rest, TimeAt(s, i) = 0
      PROVE  TakenAt(p, s, {}, i)
  <2> DEFINE key == s.nodeId + i - 1
  <2>1. key \in 0..Size(p)-1 /\ key \in WorkerNodeKey
    BY <1>1
  <2>2. Eligible(p, key, {})
    BY <2>1 DEF AllReady, Eligible
  <2>3. p.options.weights[key] \in Nat \ {0}
    BY <1>1, <2>1, PoolFields, WorkerChoiceAssumption
  <2> QED
    BY <1>4, <2>2, <2>3 DEF TakenAt
<1>5. ASSUME NEW time \in Nat, c = Choice(p, refused(time), NoKey),
             \A i \in 1..rest : ~TakenAt(p, s, {}, i)
      PROVE  /\ c.key = NoKey /\ c.nodes = p.nodes /\ s.nodeId = s.next /\ s.next # 0
             /\ c.state.next = s.next /\ c.state.nodeId = 0
  <2>1. c.key = NoKey /\ c.nodes = p.nodes /\ c.state = refused(time)
    BY <1>5 DEF Choice
  <2>2. refused(time).next = s.next /\ refused(time).nodeId = 0
    BY <1>1 DEF StrategyState
  <2>3. 1 \in 1..rest /\ TimeAt(s, 1) # 0
    BY <1>1, <1>4, <1>5
  <2>4. s.nodeId = s.next
    BY <2>3 DEF TimeAt
  <2>5. ASSUME s.next = 0 PROVE FALSE
    <3>1. 2 \in 1..rest /\ TimeAt(s, 2) = 0
      BY <1>1, <2>4, <2>5 DEF TimeAt
    <3> QED
      BY <1>4, <1>5, <3>1
  <2> HIDE DEF refused
  <2> QED
    BY <2>1, <2>2, <2>4, <2>5
<1>6. ASSUME NEW i \in 1..rest, TakenAt(p, s, {}, i), \A j \in 1..i-1 : ~TakenAt(p, s, {}, j),
             c = Choice(p, taken(s.nodeId + i - 1,
                                 TimeAt(s, i) + TaskRunTime(p, s.nodeId + i - 1)),
                        s.nodeId + i - 1)
      PROVE  /\ c.key # NoKey /\ c.nodes = p.nodes
             /\ s.nodeId = s.next => BelowWeight(c, p, s)
             /\ (s.nodeId = 0 /\ s.next # 0) => c.key = 0
  <2> DEFINE key == s.nodeId + i - 1
             time == TimeAt(s, i) + TaskRunTime(p, key)
  <2>1. c.key = key /\ c.nodes = p.nodes /\ c.state = taken(key, time)
    BY <1>6 DEF Choice
  <2>2. taken(key, time).virtualTime = time
    BY <1>1 DEF StrategyState
  <2> HIDE DEF taken
  <2>3. key # NoKey
    BY <1>1 DEF NoKey
  <2>4. ASSUME s.nodeId = s.next, c.key = s.next
        PROVE  BelowWeight(c, p, s)
    <3>1. i = 1
      BY <1>1, <2>1, <2>4
    <3>2. key = s.next /\ TimeAt(s, i) = s.virtualTime
      BY <1>1, <2>4, <3>1 DEF TimeAt
    <3>3. s.virtualTime < p.options.weights[s.next]
      BY <1>6, <3>2 DEF TakenAt
    <3>4. c.state.virtualTime = s.virtualTime + TaskRunTime(p, s.next)
      BY <2>1, <2>2, <3>2
    <3> QED
      BY <3>3, <3>4 DEF BelowWeight
  <2>5. ASSUME s.nodeId = 0, s.next # 0
        PROVE  c.key = 0
    <3>1. 1 \in 1..rest /\ TimeAt(s, 1) = 0
      BY <1>1, <2>5 DEF TimeAt
    <3>2. 1 \notin 1..i-1
      BY <1>4, <1>6, <3>1
    <3>3. i = 1
      BY <1>1, <3>2
    <3> QED
      BY <2>1, <2>5, <3>3
  <2>6. s.nodeId = s.next => BelowWeight(c, p, s)
    BY <2>4 DEF BelowWeight
  <2> HIDE DEF key
  <2> QED
    BY <2>1, <2>3, <2>5, <2>6
<1> HIDE DEF refused, taken
<1>7. /\ c.nodes = p.nodes
      /\ (s.nodeId = s.next /\ c.key # NoKey) => BelowWeight(c, p, s)
      /\ (s.nodeId = s.next /\ c.key = NoKey) =>
             s.next # 0 /\ c.state.next = s.next /\ c.state.nodeId = 0
      /\ (s.nodeId = 0 /\ s.next # 0) => c.key = 0
  BY <1>3, <1>5, <1>6
<1> QED
  BY <1>7 DEF c, s

LEMMA ExecutedWeighted ==
    ASSUME NEW p, PoolInv(p), Size(p) > 1, AllReady(p), NEW name \in Weighted,
           name \in DOMAIN p.context, NEW time \in Nat,
           name = "WEIGHTED_ROUND_ROBIN" \/ p.context[name].nodeId = p.context[name].next
    PROVE  LET s == p.context[name]
               t == Executed(p, name, {}, time)
           IN  t.key = s.next =>
                   /\ t.pool.nodes = p.nodes /\ s.virtualTime < p.options.weights[s.next]
                   /\ t.pool.context[name].virtualTime = s.virtualTime + TaskRunTime(p, s.next)
<1> DEFINE s == p.context[name]
           c == Choose(p, name, {}, time)
           t == Try(p, name, {}, time)
           q == t.pool
           d == Choose(q, name, {}, time)
           u == Try(q, name, {}, time)
<1>1. p \in Pools /\ Size(p) \in Nat /\ Size(p) > 0 /\ {} \in SUBSET (0..Size(p)-1)
  BY PoolFields DEF PoolInv
<1>2. /\ t.key = c.key /\ q.context[name] = c.state /\ q.nodes = c.nodes
      /\ Tried(t, p, name, {}) /\ AsTried(q, p, name)
  <2>1. AsTried(p, p, name)
    BY AsTriedSelf
  <2>2. Tried(t, p, name, {}) /\ t.key = c.key /\ q.context[name] = c.state
    BY <1>1, <2>1, TryTried
  <2> QED
    BY <1>1, <2>2, TryNodes DEF Tried
<1>3. u.key = d.key
  BY <1>1, <1>2, TryTried
<1>4. TryAgain(t, name, {}, time) = IF t.key # NoKey THEN t ELSE u
  BY DEF TryAgain
<1>5. /\ t.key # NoKey => Executed(p, name, {}, time) = t
      /\ (t.key = NoKey /\ u.key # NoKey) => Executed(p, name, {}, time) = u
  BY <1>1, <1>4, ExecutedSettled
<1>6. PoolInv(q) /\ Size(q) > 1 /\ AllReady(q) /\ DOMAIN q.context = DOMAIN p.context
  <2>1. PoolInv(q) /\ Size(q) = Size(p) /\ DOMAIN q.context = DOMAIN p.context
    BY <1>2 DEF AsTried
  <2>2. \A key \in 0..Size(p)-1 : Ready(q, key) = Ready(p, key)
    BY <1>2, AsTriedSame
  <2> QED
    BY <2>1, <2>2 DEF AllReady
<1>7. ASSUME c.key # NoKey, c.nodes = p.nodes, BelowWeight(c, p, s),
             Executed(p, name, {}, time).key = s.next
      PROVE  /\ Executed(p, name, {}, time).pool.nodes = p.nodes
             /\ s.virtualTime < p.options.weights[s.next]
             /\ Executed(p, name, {}, time).pool.context[name].virtualTime
                    = s.virtualTime + TaskRunTime(p, s.next)
  <2>1. Executed(p, name, {}, time) = t
    BY <1>2, <1>5, <1>7
  <2> HIDE DEF t, c
  <2> QED
    BY <1>2, <1>7, <2>1 DEF BelowWeight
<1>8. CASE name = "WEIGHTED_ROUND_ROBIN"
  <2>1. c = WeightedRoundRobin(p, s, {})
    BY <1>8 DEF Choose
  <2>2. c.nodes = p.nodes /\ c.key # NoKey /\ BelowWeight(c, p, s)
    BY <1>8, <2>1, WeightedTurn
  <2> QED
    BY <1>7, <2>2
<1>9. CASE name = "INTERLEAVED_WEIGHTED_ROUND_ROBIN"
  <2>1. /\ c = InterleavedWeightedRoundRobin(p, s, {})
        /\ d = InterleavedWeightedRoundRobin(q, q.context[name], {})
    BY <1>9 DEF Choose
  <2>2. s.nodeId = s.next
    BY <1>9
  <2>3. /\ c.nodes = p.nodes
        /\ c.key # NoKey => BelowWeight(c, p, s)
        /\ c.key = NoKey => s.next # 0 /\ c.state.next = s.next /\ c.state.nodeId = 0
    BY <1>9, <2>1, <2>2, InterleavedTurn
  <2>4. (q.context[name].nodeId = 0 /\ q.context[name].next # 0) => d.key = 0
    BY <1>6, <1>9, <2>1, InterleavedTurn
  <2> HIDE DEF c, d, t, u
  <2>5. CASE c.key # NoKey
    BY <1>7, <2>3, <2>5
  <2>6. CASE c.key = NoKey
    <3>1. d.key = 0 /\ s.next # 0
      BY <1>2, <2>3, <2>4, <2>6
    <3>2. Executed(p, name, {}, time) = u /\ u.key = 0
      BY <1>2, <1>3, <1>5, <2>6, <3>1 DEF NoKey
    <3> QED
      BY <3>1, <3>2
  <2> QED
    BY <2>5, <2>6
<1> QED
  BY <1>8, <1>9 DEF Weighted

LEMMA StepWeighted == Inv => WeightedStep
<1> SUFFICES ASSUME Inv, NEW f \in Function, StrategyOf(f) \in Weighted, KeysOf(f) = {},
                    Execute(f), Size(pool') > 1, AllReady(pool'),
                    \/ StrategyOf(f) = "WEIGHTED_ROUND_ROBIN"
                    \/ pool.context[StrategyOf(f)].nodeId = pool.context[StrategyOf(f)].next,
                    At(pool', pool.context[StrategyOf(f)].next).id \in Chosen
             PROVE  LET s == pool.context[StrategyOf(f)]
                    IN  /\ s.virtualTime < pool.options.weights[s.next]
                        /\ pool'.context[StrategyOf(f)].virtualTime
                               = s.virtualTime + TaskRunTime(pool', s.next)
  BY DEF WeightedStep, Executes, AllReady
<1> DEFINE p == Given(f)
           t == Answer(f)
           q == t.pool
           key == t.key
           name == StrategyOf(f)
           s == pool.context[name]
<1>1. /\ PoolInv(p) /\ p \in Pools /\ Size(p) \in Nat /\ Size(p) > 0 /\ name \in DOMAIN p.context
      /\ p.context = pool.context /\ p.options = pool.options /\ now \in Nat
      /\ Tried(t, p, name, {}) /\ t = Executed(p, name, {}, now)
  <2>1. /\ PoolInv(p) /\ Size(p) > 0 /\ name \in DOMAIN p.context
        /\ p.context = pool.context /\ p.options = pool.options /\ Tried(t, p, name, {})
    BY ExecuteAnswered DEF Answered, Complete
  <2>2. t = Executed(p, name, {}, now)
    BY DEF Answer
  <2>3. now \in Nat
    BY WorkerChoiceAssumption DEF Inv, CountsInv
  <2> HIDE DEF p, t, name
  <2>4. p \in Pools /\ Size(p) \in Nat
    BY <2>1, PoolFields DEF PoolInv
  <2> QED
    BY <2>1, <2>2, <2>3, <2>4
<1>2. key # NoKey /\ Chosen = {At(q, key).id}
  <2>1. Chosen = IF key = NoKey THEN {} ELSE {At(q, key).id}
    BY ChosenAnswered
  <2> QED
    BY <2>1
<1>3. pool' = Started(q, key) /\ key \in 0..Size(q)-1
  BY <1>2, ExecuteCases
<1> HIDE DEF p, t
<1>4. /\ q \in Pools /\ PoolInv(q) /\ Size(q) = Size(p) /\ q.options = p.options
      /\ \A i \in 1..Size(p) : q.nodes[i].id = p.nodes[i].id /\ q.nodes[i].ready = p.nodes[i].ready
  BY <1>1 DEF Tried, AsTried, PoolInv, SameNodes, SameNode
<1>5. /\ pool' \in Pools /\ Size(pool') = Size(q) /\ pool'.context = q.context
      /\ pool'.options = q.options
      /\ \A i \in 1..Size(q) : /\ pool'.nodes[i].id = q.nodes[i].id
                               /\ pool'.nodes[i].ready = q.nodes[i].ready
                               /\ pool'.nodes[i].runTime = q.nodes[i].runTime
  BY <1>3, <1>4, StartedRenewed DEF Renewed
<1>6. Size(p) > 1 /\ AllReady(p)
  <2>1. ASSUME NEW k \in 0..Size(p)-1 PROVE Ready(p, k)
    <3>1. k + 1 \in 1..Size(p) /\ k < Size(p) /\ Ready(pool', k)
      BY <1>1, <1>4, <1>5 DEF AllReady
    <3> QED
      BY <1>4, <1>5, <3>1 DEF Ready, At
  <2> QED
    BY <1>4, <1>5, <2>1 DEF AllReady
<1> HIDE DEF name
<1>7. s.next \in 0..Size(p)-1
  <2>1. name \in RoundRobins
    BY DEF name, RoundRobins
  <2> QED
    BY <1>1, <2>1, StateKeys DEF PoolInv
<1> HIDE DEF s, key
<1>8. key = s.next
  <2>1. s.next + 1 \in 1..Size(q) /\ key + 1 \in 1..Size(q) /\ key \in Int /\ s.next \in Int
    BY <1>1, <1>3, <1>4, <1>7
  <2>2. At(pool', s.next).id = At(q, key).id
    BY <1>2 DEF s, name
  <2>3. q.nodes[s.next + 1].id = q.nodes[key + 1].id
    BY <1>5, <2>1, <2>2 DEF At
  <2>4. s.next + 1 = key + 1
    BY <1>4, <2>1, <2>3 DEF PoolInv, DistinctNodes
  <2> QED
    BY <2>1, <2>4
<1>9. /\ q.nodes = p.nodes /\ s.virtualTime < p.options.weights[s.next]
      /\ q.context[name].virtualTime = s.virtualTime + TaskRunTime(p, s.next)
  <2>1. name \in Weighted /\ s = p.context[name] /\ t.key = s.next
        /\ (name = "WEIGHTED_ROUND_ROBIN" \/ p.context[name].nodeId = p.context[name].next)
    BY <1>1, <1>8 DEF name, s, key
  <2> QED
    BY <1>1, <1>6, <2>1, ExecutedWeighted
<1>10. TaskRunTime(pool', s.next) = TaskRunTime(p, s.next)
  <2>1. s.next + 1 \in 1..Size(q)
    BY <1>1, <1>4, <1>7
  <2>2. pool'.nodes[s.next + 1].runTime = p.nodes[s.next + 1].runTime
    BY <1>5, <1>9, <2>1
  <2> QED
    BY <1>4, <1>5, <2>2 DEF TaskRunTime, At
<1> QED
  BY <1>1, <1>5, <1>9, <1>10 DEF s, name

LEMMA StepStatistics == Inv => StatisticsStep
<1> SUFFICES ASSUME Inv, NEW e \in DOMAIN sent, NEW cost \in Costs \ {Undefined},
                    e[1] \in Keys, measures' # measures, TaskExecutionResponse(e, cost)
             PROVE  LET before == At(pool, e[1]).runTime
                        after == At(pool', e[1]).runTime
                        window == WindowAppend(ToArray(before.history), cost)
                    IN  /\ Required(pool).average => after.average = Average(window)
                        /\ Required(pool).median => after.median = Median(window)
                        /\ Required(pool).average \/ Required(pool).median =>
                               ToArray(after.history) = window
  BY DEF StatisticsStep
<1> DEFINE key == e[1]
           required == Required(pool)
           answered == [pool EXCEPT !.nodes[key + 1] = Accounted(@, required, cost)]
           updated == ContextUpdated(answered, key, now)
           before == At(pool, key).runTime
           after == At(pool', key).runTime
           n == At(pool, key)
           m == Accounted(n, required, cost)
           a == [pool EXCEPT !.nodes[key + 1] = m]
<1>1. /\ measures' = IF required.aggregate /\ cost # Undefined THEN measures + 1 ELSE measures
      /\ pool' = IF ShallCreateDynamicWorker(updated) THEN Created(updated, TRUE) ELSE updated
  BY DEF TaskExecutionResponse
<1>2. /\ PoolInv(pool) /\ pool \in Pools /\ Size(pool) \in Nat /\ now \in Nat
      /\ key \in 0..Size(pool)-1 /\ key + 1 \in 1..Size(pool)
  BY PoolFields, WorkerChoiceAssumption DEF Inv, Complete, PoolInv, CountsInv, Keys
<1>3. required.aggregate
  BY <1>1
<1>4. cost \in Number /\ n \in GoodNode /\ StatisticsInv(before)
  <2>1. pool.nodes[key + 1] \in GoodNode
    BY <1>2, PoolFields
  <2> QED
    BY <2>1, NodeFields, WorkerChoiceAssumption DEF At
<1> HIDE DEF required
<1>5. m \in GoodNode /\ m.id = n.id /\ m.dynamic = n.dynamic
      /\ m.runTime = Measured(before, required, cost)
  <2>1. m \in GoodNode /\ m.id = n.id /\ m.dynamic = n.dynamic
    BY <1>4, AccountedGood
  <2>2. m.runTime = Measured(before, required, cost)
    BY <1>4 DEF Accounted, GoodNode, Node
  <2> QED
    BY <2>1, <2>2
<1>6. answered = a
  BY <1>2 DEF At, Pools
<1> HIDE DEF m, answered
<1>7. Renewed(a, pool) /\ a.nodes[key + 1] = m
  BY <1>2, <1>5, RenewedNode DEF At
<1> HIDE DEF a
<1>8. /\ Renewed(updated, a) /\ Renewed(updated, pool) /\ updated \in Pools
      /\ updated.nodes[key + 1].runTime = m.runTime
  <2>1. a \in Pools /\ key \in 0..Size(a)-1 /\ key + 1 \in 1..Size(a)
    BY <1>2, <1>7 DEF Renewed
  <2>2. /\ Renewed(ContextUpdated(a, key, now), a)
        /\ \A i \in 1..Size(a) :
               ContextUpdated(a, key, now).nodes[i].runTime = a.nodes[i].runTime
    BY <1>2, <2>1, ContextUpdatedRenewed
  <2> QED
    BY <1>6, <1>7, <2>1, <2>2, RenewedAgain DEF Renewed
<1> HIDE DEF updated
<1>9. pool'.nodes[key + 1] = updated.nodes[key + 1]
  <2>1. CASE ShallCreateDynamicWorker(updated)
    <3>1. PoolInv(updated) /\ Size(updated) < MaxSize /\ TRUE \in BOOLEAN
      BY <1>2, <1>8, <2>1, RenewedInv DEF ShallCreateDynamicWorker
    <3>2. Joined(Created(updated, TRUE), updated, TRUE)
      BY <3>1, CreatedJoined
    <3> QED
      BY <1>1, <1>2, <1>8, <2>1, <3>2 DEF Joined, Renewed
  <2>2. CASE ~ShallCreateDynamicWorker(updated)
    BY <1>1, <2>2
  <2> QED
    BY <2>1, <2>2
<1>10. after = Measured(before, required, cost)
  BY <1>5, <1>8, <1>9 DEF At
<1> DEFINE window == WindowAppend(ToArray(before.history), cost)
<1>11. ToArray(Put(before.history, cost)) = window
  BY <1>4, PutAppendsToWindow DEF StatisticsInv
<1> HIDE DEF before, after, window
<1>12. required.average \/ required.median =>
           /\ after.history = Put(before.history, cost)
           /\ required.average => after.average = Average(ToArray(after.history))
           /\ required.median => after.median = Median(ToArray(after.history))
  BY <1>3, <1>10 DEF Measured
<1> QED
  BY <1>11, <1>12 DEF before, after, window, required

(* ROUND_ROBIN gives no node a second turn before each node that was ready   *)
(* all along has had one, whatever nodes join, leave or are passed over in   *)
(* between (round-robin-worker-choice-strategy.ts).                          *)
THEOREM TurnsAreTaken == Spec => TakesTurns
<1>1. Inv /\ [Next]_vars => TurnStep
  BY StepTurn
<1>2. TakesTurns <=> [][TurnStep]_vars
  BY DEF TakesTurns, TurnStep
<1> HIDE DEF TakesTurns, TurnStep
<1> QED
  BY <1>1, <1>2, Invariance, PTL DEF Spec

(* The retries of executeStrategy reach every node: but for the weighted     *)
(* strategies, a task is refused only when no node that may run it is ready. *)
THEOREM RefusalsJustified == Spec => RefusedOnlyWithoutReady
<1>1. Inv /\ [Next]_vars => RefusedStep
  BY StepRefused
<1>2. RefusedOnlyWithoutReady <=> [][RefusedStep]_vars
  BY DEF RefusedOnlyWithoutReady, RefusedStep
<1> HIDE DEF RefusedOnlyWithoutReady, RefusedStep
<1> QED
  BY <1>1, <1>2, Invariance, PTL DEF Spec

(* LEAST_USED gives a node a second task only when each ready node has one.  *)
THEOREM IdleNodesFirst == Spec => IdleNodeFirst
<1>1. Inv /\ [Next]_vars => IdleStep
  BY StepIdle
<1>2. IdleNodeFirst <=> [][IdleStep]_vars
  BY DEF IdleNodeFirst, IdleStep
<1> HIDE DEF IdleNodeFirst, IdleStep
<1> QED
  BY <1>1, <1>2, Invariance, PTL DEF Spec

(* With all nodes ready, a weighted strategy gives the node whose turn is    *)
(* under way another task only below the weight of this very node, and adds  *)
(* what the task should take, whatever run times are measured in the turn    *)
(* and whatever options are set in it.                                       *)
THEOREM TurnsEnd == Spec => TurnEndsAtWeight
<1>1. Inv /\ [Next]_vars => WeightedStep
  BY StepWeighted
<1>2. TurnEndsAtWeight <=> [][WeightedStep]_vars
  BY DEF TurnEndsAtWeight, WeightedStep
<1> HIDE DEF TurnEndsAtWeight, WeightedStep
<1> QED
  BY <1>1, <1>2, Invariance, PTL DEF Spec

(* The average and the median of a node are those of the window of the last  *)
(* times measured of it, as they are held, however far its history has       *)
(* wrapped (circular-buffer.ts, updateMeasurementStatistics).                *)
THEOREM StatisticsAreOfWindow == Spec => StatisticsOfWindow
<1>1. Inv /\ [Next]_vars => StatisticsStep
  BY StepStatistics
<1>2. StatisticsOfWindow <=> [][StatisticsStep]_vars
  BY DEF StatisticsOfWindow, StatisticsStep
<1> HIDE DEF StatisticsOfWindow, StatisticsStep
<1> QED
  BY <1>1, <1>2, Invariance, PTL DEF Spec

(* The interleaved strategy never leaves its first round: a node that is     *)
(* below its weight is taken in it, and when there is none the rounds to     *)
(* come test the last node alone, in vain, and the first one is next again   *)
(* (interleaved-weighted-round-robin-worker-choice-strategy.ts).             *)
THEOREM FirstRoundOnly ==
    Spec => [](Interleaved \in DOMAIN pool.context => pool.context[Interleaved].roundId = 0)
<1>1. Inv => (Interleaved \in DOMAIN pool.context => pool.context[Interleaved].roundId = 0)
  <2> SUFFICES ASSUME Inv, Interleaved \in DOMAIN pool.context
               PROVE  pool.context[Interleaved].roundId = 0
    OBVIOUS
  <2>1. pool.context[Interleaved] \in GoodState(Interleaved, Size(pool))
    BY DEF Inv, Complete, PoolInv
  <2>2. Interleaved \in RoundRobins
    BY DEF Interleaved, RoundRobins, Weighted
  <2> QED
    BY <2>1, <2>2 DEF GoodState
<1> QED
  BY <1>1, Invariance, PTL
=============================================================================
