------------------------- MODULE DynamicPoolProofs -------------------------
(***************************************************************************)
(* Theorems about DynamicPool, for every number of workers and tasks: the  *)
(* size of the pool stays within its bounds, destroy() leaves no worker    *)
(* behind unless a kill handler fails, and a soft kill spares the tasks of *)
(* a worker where no key changes hands.                                    *)
(***************************************************************************)
EXTENDS DynamicPool, FiniteSetTheorems, SequenceTheorems, TLAPS

-----------------------------------------------------------------------------
(* Pools whose nodes are distinct, and have a worker that is not gone *)

Distinct(seq) == \A i, j \in DOMAIN seq : seq[i] = seq[j] => i = j

Sound(s) == /\ s \in PoolState /\ Distinct(s.nodes)
            /\ \A w \in Worker \ Members(s) : s.node[w] = NoNode

Dynamic(s) == Members(s) \ Static(s)

LEMMA Sizes == Min \in Nat /\ Max \in Nat /\ Max > 0 /\ Min <= Max
  BY DynamicPoolAssumption

LEMMA WorkersFinite ==
    ASSUME NEW S, S \subseteq Worker
    PROVE  IsFiniteSet(S) /\ Cardinality(S) \in Nat /\ Cardinality(S) <= Max + 1
<1>1. IsFiniteSet(1..(Max + 1)) /\ Cardinality(1..(Max + 1)) = Max + 1
  BY Sizes, FS_Interval
<1> QED
  BY <1>1, Sizes, FS_Subset, FS_CardinalityType DEF Worker

LEMMA PoolTyped ==
    ASSUME NEW s \in PoolState
    PROVE  /\ s.nodes \in Seq(Worker) /\ s.node \in [Worker -> Thread]
           /\ s = [nodes |-> s.nodes, node |-> s.node]
           /\ Len(s.nodes) \in Nat /\ DOMAIN s.nodes = 1..Len(s.nodes)
           /\ Members(s) \subseteq Worker /\ Static(s) \subseteq Members(s)
           /\ IsFiniteSet(Members(s)) /\ IsFiniteSet(Static(s)) /\ IsFiniteSet(Dynamic(s))
           /\ Cardinality(Members(s)) = Cardinality(Static(s)) + Cardinality(Dynamic(s))
           /\ Cardinality(Static(s)) \in Nat /\ Cardinality(Dynamic(s)) \in Nat
<1>1. /\ s.nodes \in Seq(Worker) /\ s.node \in [Worker -> Thread]
      /\ s = [nodes |-> s.nodes, node |-> s.node]
  BY DEF PoolState
<1>2. Len(s.nodes) \in Nat /\ DOMAIN s.nodes = 1..Len(s.nodes)
  BY <1>1, LenProperties
<1>3. Members(s) \subseteq Worker
  BY <1>1, <1>2, ElementOfSeq DEF Members
<1>4. Static(s) \subseteq Members(s)
  BY DEF Static
<1> DEFINE M == Members(s)
           S == Static(s)
           D == M \ S
<1> HIDE DEF M, S
<1>5. M \subseteq Worker /\ S \subseteq M /\ D \subseteq Worker
  BY <1>3, <1>4 DEF M, S
<1>6. /\ IsFiniteSet(M) /\ IsFiniteSet(S) /\ IsFiniteSet(D)
      /\ Cardinality(M) \in Nat /\ Cardinality(S) \in Nat /\ Cardinality(D) \in Nat
  BY <1>5, WorkersFinite
<1>7. Cardinality(M) = Cardinality(S) + Cardinality(D)
  <2>1. S \cup D = M /\ S \cap D = {}
    BY <1>5
  <2>2. Cardinality(S \cup D) = Cardinality(S) + Cardinality(D) - Cardinality(S \cap D)
    BY <1>6, FS_Union
  <2>3. Cardinality(S \cap D) = 0
    BY <2>1, FS_EmptySet
  <2> QED
    BY <1>6, <2>1, <2>2, <2>3
<1> QED
  BY <1>1, <1>2, <1>5, <1>6, <1>7 DEF M, S, Dynamic

(* As many nodes as members *)
LEMMA DistinctSize ==
    ASSUME NEW s, Sound(s)
    PROVE  Len(s.nodes) = Cardinality(Members(s))
<1>1. Len(s.nodes) \in Nat /\ DOMAIN s.nodes = 1..Len(s.nodes) /\ IsFiniteSet(Members(s))
  BY PoolTyped DEF Sound
<1>2. s.nodes \in Seq(Worker)
  BY PoolTyped DEF Sound
<1>3. s.nodes \in [1..Len(s.nodes) -> Members(s)]
  BY <1>1, <1>2, LenProperties DEF Members
<1>4. s.nodes \in Bijection(1..Len(s.nodes), Members(s))
  <2>1. s.nodes \in Injection(1..Len(s.nodes), Members(s))
    BY <1>1, <1>3 DEF Injection, IsInjective, Sound, Distinct
  <2>2. s.nodes \in Surjection(1..Len(s.nodes), Members(s))
    BY <1>1, <1>3 DEF Surjection, Members
  <2> QED
    BY <2>1, <2>2 DEF Bijection
<1>5. IsFiniteSet(1..Len(s.nodes)) /\ Cardinality(1..Len(s.nodes)) = Len(s.nodes)
  BY <1>1, FS_Interval
<1> QED
  BY <1>4, <1>5, FS_Bijection DEF ExistsBijection

-----------------------------------------------------------------------------
(* Operations that leave the nodes where they are *)

(* The same nodes, of the same kinds *)
Like(r, s) == /\ Sound(r) /\ r.nodes = s.nodes
              /\ \A w \in Members(s) : r.node[w].dynamic = s.node[w].dynamic

LEMMA LikeSame ==
    ASSUME NEW r, NEW s, Like(r, s)
    PROVE  Members(r) = Members(s) /\ Static(r) = Static(s) /\ Dynamic(r) = Dynamic(s)
<1>1. Members(r) = Members(s)
  BY DEF Like, Members
<1>2. Static(r) = Static(s)
  BY <1>1 DEF Like, Static
<1> QED
  BY <1>1, <1>2 DEF Dynamic

LEMMA LikeTransitive ==
    ASSUME NEW q, NEW r, NEW s, Like(q, r), Like(r, s)
    PROVE  Like(q, s)
  BY LikeSame DEF Like

Updated(s, w, thread) == [nodes |-> s.nodes, node |-> [s.node EXCEPT ![w] = thread]]

LEMMA UpdatedLike ==
    ASSUME NEW s, Sound(s), NEW w \in Members(s), NEW thread \in Thread,
           thread.dynamic = s.node[w].dynamic
    PROVE  Like(Updated(s, w, thread), s)
<1> DEFINE r == Updated(s, w, thread)
<1>1. s.nodes \in Seq(Worker) /\ s.node \in [Worker -> Thread] /\ Members(s) \subseteq Worker
  BY PoolTyped DEF Sound
<1>2. r.nodes = s.nodes /\ r.node = [s.node EXCEPT ![w] = thread] /\ r \in PoolState
  BY <1>1 DEF Updated, PoolState
<1> HIDE DEF r
<1>3. Members(r) = Members(s)
  BY <1>2 DEF Members
<1>4. Sound(r)
  BY <1>1, <1>2, <1>3 DEF Sound
<1>5. Like(r, s)
  BY <1>1, <1>2, <1>4 DEF Like
<1> QED
  BY <1>5 DEF r

-----------------------------------------------------------------------------
(* A worker leaves *)

LEMMA NewNodeTyped ==
    ASSUME NEW dynamic \in BOOLEAN, NEW ready \in BOOLEAN
    PROVE  /\ NewNode(dynamic, ready) \in Thread /\ NewNode(dynamic, ready).dynamic = dynamic
           /\ NewNode(dynamic, ready).killKey = NoKey
<1>1. Signal("startup") \in ToWorker
  BY DEF Signal, ToWorker
<1>2. <<Signal("startup")>> \in Seq(ToWorker)
  BY <1>1
<1> QED
  BY <1>2 DEF NewNode, Thread, NoKey

LEMMA NoNodeTyped == NoNode \in Thread /\ NoNode.killKey = NoKey /\ NoNode.running = {}
                     /\ NoNode.toWorker = <<>> /\ NoNode.fromWorker = <<>> /\ ~NoNode.active
<1>1. <<>> \in Seq(ToWorker)
  OBVIOUS
<1> DEFINE fresh == NewNode(FALSE, FALSE)
<1>2. fresh \in Thread /\ fresh.dynamic = FALSE /\ fresh.killKey = NoKey
      /\ fresh.fromWorker = <<>> /\ fresh.running = {} /\ fresh.active = FALSE
  BY NewNodeTyped DEF NewNode
<1>3. NoNode = [fresh EXCEPT !.toWorker = <<>>, !.listening = FALSE]
  BY DEF NoNode
<1> HIDE DEF fresh
<1> QED
  BY <1>1, <1>2, <1>3 DEF Thread

(* The array without the entry of a worker *)
Without(s, w) == SubSeq(s.nodes, 1, KeyOf(s, w) - 1)
                     \o SubSeq(s.nodes, KeyOf(s, w) + 1, Len(s.nodes))

LEMMA WithoutNodes ==
    ASSUME NEW s, Sound(s), NEW w \in Members(s)
    PROVE  /\ Without(s, w) \in Seq(Worker) /\ Distinct(Without(s, w))
           /\ {Without(s, w)[k] : k \in DOMAIN Without(s, w)} = Members(s) \ {w}
           /\ KeyOf(s, w) \in DOMAIN s.nodes /\ s.nodes[KeyOf(s, w)] = w
           /\ DOMAIN Without(s, w) = 1..(Len(s.nodes) - 1)
           /\ \A i \in DOMAIN Without(s, w) :
                  i < KeyOf(s, w) => Without(s, w)[i] = s.nodes[i]
<1> DEFINE seq == s.nodes
           k == KeyOf(s, w)
           size == Len(seq)
           front == SubSeq(seq, 1, k - 1)
           rear == SubSeq(seq, k + 1, size)
           rest == Without(s, w)
<1>1. k \in DOMAIN seq /\ seq[k] = w
  BY DEF KeyOf, Members
<1>2. seq \in Seq(Worker) /\ size \in Nat /\ DOMAIN seq = 1..size /\ Distinct(seq)
      /\ \A i \in 1..size : seq[i] \in Worker
  BY PoolTyped, ElementOfSeq DEF Sound
<1>3. rest = front \o rear
  BY DEF Without
<1>4. Members(s) = {seq[i] : i \in DOMAIN seq}
  BY DEF Members
<1> HIDE DEF k, seq
<1>5. front \in Seq(Worker) /\ Len(front) = k - 1 /\ \A i \in 1..(k - 1) : front[i] = seq[i]
  <2>1. \A i \in 1..(k - 1) : seq[i] \in Worker
    BY <1>1, <1>2
  <2>2. 1 \in Int /\ k - 1 \in Int /\ k - 1 >= 0
    BY <1>1, <1>2
  <2> HIDE DEF size
  <2> QED
    BY <2>1, <2>2, SubSeqProperties
<1>6. /\ rear \in Seq(Worker)
      /\ Len(rear) = IF k + 1 <= size THEN size - (k + 1) + 1 ELSE 0
      /\ \A i \in 1..(size - (k + 1) + 1) : rear[i] = seq[k + 1 + i - 1]
  <2>1. \A i \in (k + 1)..size : seq[i] \in Worker
    BY <1>1, <1>2
  <2>2. k + 1 \in Int /\ size \in Int
    BY <1>1, <1>2
  <2> HIDE DEF size
  <2> QED
    BY <2>1, <2>2, SubSeqProperties
<1> HIDE DEF front, rear, rest, size
<1>7. Len(rear) = size - k
  BY <1>1, <1>2, <1>6
<1>8. ASSUME NEW i \in 1..(size - k) PROVE rear[i] = seq[k + i]
  <2>1. i \in 1..(size - (k + 1) + 1) /\ k + 1 + i - 1 = k + i
    BY <1>1, <1>2
  <2>2. rear[i] = seq[k + 1 + i - 1]
    BY <1>6, <2>1
  <2> QED
    BY <2>1, <2>2
<1>9. /\ rest \in Seq(Worker) /\ Len(rest) = size - 1
      /\ \A i \in 1..(size - 1) : rest[i] = IF i < k THEN seq[i] ELSE seq[i + 1]
  <2>1. /\ rest \in Seq(Worker) /\ Len(rest) = Len(front) + Len(rear)
        /\ \A i \in 1..(Len(front) + Len(rear)) :
               rest[i] = IF i <= Len(front) THEN front[i] ELSE rear[i - Len(front)]
    BY <1>3, <1>5, <1>6, ConcatProperties
  <2>2. Len(front) + Len(rear) = size - 1
    BY <1>1, <1>2, <1>5, <1>7
  <2>3. ASSUME NEW i \in 1..(size - 1), i < k PROVE rest[i] = seq[i]
    <3>1. i \in 1..(Len(front) + Len(rear)) /\ i <= Len(front) /\ i \in 1..(k - 1)
      BY <1>1, <1>2, <1>5, <2>2, <2>3
    <3> QED
      BY <1>5, <2>1, <3>1
  <2>4. ASSUME NEW i \in 1..(size - 1), ~(i < k) PROVE rest[i] = seq[i + 1]
    <3>1. /\ i \in 1..(Len(front) + Len(rear)) /\ ~(i <= Len(front))
          /\ i - Len(front) = i - (k - 1) /\ i - (k - 1) \in 1..(size - k)
          /\ k + (i - (k - 1)) = i + 1
      BY <1>1, <1>2, <1>5, <2>2, <2>4
    <3>2. rest[i] = rear[i - (k - 1)]
      BY <2>1, <3>1
    <3> QED
      BY <1>8, <3>1, <3>2
  <2> QED
    BY <2>1, <2>2, <2>3, <2>4
<1>10. DOMAIN rest = 1..(size - 1)
  BY <1>9, LenProperties
<1>11. Distinct(rest)
  <2> SUFFICES ASSUME NEW i \in DOMAIN rest, NEW j \in DOMAIN rest, rest[i] = rest[j]
               PROVE  i = j
    BY DEF Distinct
  <2> DEFINE at(n) == IF n < k THEN n ELSE n + 1
  <2>1. at(i) \in DOMAIN seq /\ at(j) \in DOMAIN seq
    BY <1>1, <1>2, <1>10
  <2>2. rest[i] = seq[at(i)] /\ rest[j] = seq[at(j)]
    BY <1>9, <1>10
  <2>3. at(i) = at(j)
    BY <1>2, <2>1, <2>2 DEF Distinct
  <2> QED
    BY <1>1, <1>2, <1>10, <2>3
<1>12. ASSUME NEW x PROVE (\E i \in DOMAIN rest : x = rest[i]) <=> x \in Members(s) /\ x # w
  <2>1. ASSUME NEW i \in DOMAIN rest, x = rest[i] PROVE x \in Members(s) /\ x # w
    <3>1. PICK j \in 1..size : j # k /\ x = seq[j]
      <4>1. CASE i < k
        <5>1. i \in 1..size /\ i # k /\ x = seq[i]
          BY <1>1, <1>2, <1>9, <1>10, <2>1, <4>1
        <5> QED
          BY <5>1
      <4>2. CASE ~(i < k)
        <5>1. i + 1 \in 1..size /\ i + 1 # k /\ x = seq[i + 1]
          BY <1>1, <1>2, <1>9, <1>10, <2>1, <4>2
        <5> QED
          BY <5>1
      <4> QED
        BY <4>1, <4>2
    <3> QED
      BY <1>1, <1>2, <1>4, <3>1 DEF Distinct
  <2>2. ASSUME x \in Members(s), x # w PROVE \E i \in DOMAIN rest : x = rest[i]
    <3>1. PICK j \in 1..size : x = seq[j] /\ j # k
      BY <1>1, <1>2, <1>4, <2>2
    <3>2. CASE j < k
      <4>1. j \in DOMAIN rest /\ rest[j] = seq[j]
        BY <1>1, <1>2, <1>9, <1>10, <3>2
      <4> QED
        BY <3>1, <4>1
    <3>3. CASE j > k
      <4>1. j - 1 \in DOMAIN rest /\ rest[j - 1] = seq[j]
        BY <1>1, <1>2, <1>9, <1>10, <3>3
      <4> QED
        BY <3>1, <4>1
    <3> QED
      BY <1>1, <1>2, <3>1, <3>2, <3>3
  <2> QED
    BY <2>1, <2>2
<1>13. {rest[i] : i \in DOMAIN rest} = Members(s) \ {w}
  BY <1>12
<1> QED
  BY <1>1, <1>9, <1>10, <1>11, <1>13 DEF rest, k, seq, size

(* The pool without the worker *)
Left(s, w) == [nodes |-> Without(s, w), node |-> [s.node EXCEPT ![w] = NoNode]]

LEMMA LeftSound ==
    ASSUME NEW s, Sound(s), NEW w \in Members(s)
    PROVE  /\ Sound(Left(s, w)) /\ Members(Left(s, w)) = Members(s) \ {w}
           /\ Static(Left(s, w)) = Static(s) \ {w} /\ Dynamic(Left(s, w)) = Dynamic(s) \ {w}
           /\ \A v \in Worker : v # w => Left(s, w).node[v] = s.node[v]
<1> DEFINE r == Left(s, w)
<1>1. s.nodes \in Seq(Worker) /\ s.node \in [Worker -> Thread] /\ Members(s) \subseteq Worker
  BY PoolTyped DEF Sound
<1>2. r.nodes = Without(s, w) /\ r.node = [s.node EXCEPT ![w] = NoNode] /\ r \in PoolState
  BY <1>1, WithoutNodes, NoNodeTyped DEF Left, PoolState
<1> HIDE DEF r
<1>3. Members(r) = Members(s) \ {w}
  <2>1. {Without(s, w)[k] : k \in DOMAIN Without(s, w)} = Members(s) \ {w}
    BY WithoutNodes
  <2>2. Members(r) = {r.nodes[k] : k \in DOMAIN r.nodes}
    BY DEF Members
  <2> QED
    BY <1>2, <2>1, <2>2, Zenon
<1>4. Sound(r)
  BY <1>1, <1>2, <1>3, WithoutNodes DEF Sound
<1>5. \A v \in Worker : v # w => r.node[v] = s.node[v]
  BY <1>1, <1>2
<1>6. Static(r) = Static(s) \ {w}
  BY <1>1, <1>3, <1>5 DEF Static
<1> QED
  BY <1>3, <1>4, <1>5, <1>6 DEF r, Dynamic

-----------------------------------------------------------------------------
(* Workers are created *)

(* n workers that are not in the pool *)
Picks(s, n, f) == f \in [1..n -> Worker \ Members(s)]
                  /\ \A i, j \in 1..n : f[i] = f[j] => i = j

LEMMA WorkersLeft ==
    ASSUME NEW s, Sound(s), NEW n \in Nat, n + Cardinality(Members(s)) <= Max + 1
    PROVE  \E f : Picks(s, n, f)
<1> DEFINE S == Worker \ Members(s)
           m == Cardinality(S)
<1>1. IsFiniteSet(S) /\ m \in Nat
  BY WorkersFinite
<1>2. n <= m
  <2>1. IsFiniteSet(Worker) /\ Cardinality(Worker) = Max + 1
    BY Sizes, FS_Interval DEF Worker
  <2>2. Members(s) \subseteq Worker /\ IsFiniteSet(Members(s)) /\ Cardinality(Members(s)) \in Nat
    BY PoolTyped, WorkersFinite DEF Sound
  <2>3. Worker \cap Members(s) = Members(s)
    BY <2>2
  <2>4. m = Cardinality(Worker) - Cardinality(Worker \cap Members(s))
    BY <2>1, <2>2, FS_Difference
  <2> HIDE DEF m
  <2>5. m = Cardinality(Worker) - Cardinality(Members(s))
    BY <2>3, <2>4, Zenon
  <2> QED
    BY <2>1, <2>2, <2>5, Sizes
<1>3. PICK g \in [1..m -> S] : \A i, j \in 1..m : g[i] = g[j] => i = j
  <2>1. ExistsBijection(1..m, S)
    BY <1>1, FS_CardinalityType
  <2> QED
    BY <2>1 DEF ExistsBijection, Bijection, Injection, IsInjective
<1> DEFINE f == [i \in 1..n |-> g[i]]
<1> HIDE DEF m
<1>4. Picks(s, n, f)
  BY <1>1, <1>2, <1>3 DEF Picks
<1> QED
  BY <1>4

(* The pool r is the pool s and, behind its nodes, the new workers N *)
Joined(r, s, N, dynamic, ready) ==
    /\ Sound(r) /\ Members(r) = Members(s) \union N
    /\ \A w \in N : r.node[w] = NewNode(dynamic, ready)
    /\ \A w \in Worker \ N : r.node[w] = s.node[w]
    /\ \A k \in DOMAIN s.nodes : k \in DOMAIN r.nodes /\ r.nodes[k] = s.nodes[k]
    /\ \A k \in DOMAIN r.nodes \ DOMAIN s.nodes : r.nodes[k] \in N

LEMMA CreatedJoins ==
    ASSUME NEW s, Sound(s), NEW n \in Nat, n + Cardinality(Members(s)) <= Max + 1,
           NEW dynamic \in BOOLEAN, NEW ready \in BOOLEAN
    PROVE  \E N \in SUBSET (Worker \ Members(s)) :
               Cardinality(N) = n /\ Joined(Created(s, n, dynamic, ready), s, N, dynamic, ready)
<1>1. PICK f : /\ f = CHOOSE g \in [1..n -> Worker \ Members(s)] :
                          \A i, j \in 1..n : g[i] = g[j] => i = j
               /\ Picks(s, n, f)
  BY WorkersLeft DEF Picks
<1> DEFINE N == {f[i] : i \in 1..n}
           r == Created(s, n, dynamic, ready)
<1>2. /\ f \in [1..n -> Worker \ Members(s)] /\ \A i, j \in 1..n : f[i] = f[j] => i = j
  BY <1>1 DEF Picks
<1>3. N \in SUBSET (Worker \ Members(s))
  BY <1>2
<1>4. Cardinality(N) = n
  <2>1. f \in Bijection(1..n, N)
    BY <1>2 DEF Bijection, Injection, Surjection, IsInjective
  <2>2. IsFiniteSet(1..n) /\ Cardinality(1..n) = n
    BY FS_Interval
  <2> HIDE DEF N
  <2> QED
    BY <2>1, <2>2, FS_Bijection DEF ExistsBijection
<1>5. r = [nodes |-> s.nodes \o f,
           node |-> [w \in Worker |-> IF \E i \in 1..n : f[i] = w THEN NewNode(dynamic, ready)
                                      ELSE s.node[w]]]
  BY <1>1 DEF Created
<1>6. s.nodes \in Seq(Worker) /\ s.node \in [Worker -> Thread] /\ Members(s) \subseteq Worker
      /\ Len(s.nodes) \in Nat /\ DOMAIN s.nodes = 1..Len(s.nodes)
  BY PoolTyped DEF Sound
<1>7. f \in Seq(Worker) /\ Len(f) = n
  <2>1. f \in [1..n -> Worker]
    BY <1>2
  <2>2. f \in Seq(Worker)
    BY <2>1, SeqDef
  <2>3. DOMAIN f = 1..n /\ DOMAIN f = 1..Len(f) /\ Len(f) \in Nat
    BY <2>1, <2>2, LenProperties
  <2> QED
    BY <2>2, <2>3
<1> DEFINE size == Len(s.nodes)
<1>8. /\ r.nodes \in Seq(Worker) /\ DOMAIN r.nodes = 1..(size + n)
      /\ \A k \in 1..(size + n) : r.nodes[k] = IF k <= size THEN s.nodes[k] ELSE f[k - size]
  <2> DEFINE longer == s.nodes \o f
  <2>1. /\ longer \in Seq(Worker) /\ Len(longer) = size + Len(f)
        /\ \A k \in 1..(size + Len(f)) : longer[k] = IF k <= size THEN s.nodes[k] ELSE f[k - size]
    BY <1>6, <1>7, ConcatProperties
  <2>2. r.nodes = longer
    BY <1>5
  <2> HIDE DEF longer, r, size
  <2>3. DOMAIN longer = 1..(size + Len(f))
    BY <2>1, LenProperties
  <2> QED
    BY <1>7, <2>1, <2>2, <2>3
<1>9. \A w \in Worker : r.node[w] = IF w \in N THEN NewNode(dynamic, ready) ELSE s.node[w]
  BY <1>5
<1>10. r \in PoolState
  <2>1. r.node \in [Worker -> Thread]
    BY <1>5, <1>6, NewNodeTyped
  <2> QED
    BY <1>5, <1>8, <2>1 DEF PoolState
<1> HIDE DEF r, size
<1>11. Members(r) = Members(s) \union N
  <2>1. ASSUME NEW k \in DOMAIN r.nodes PROVE r.nodes[k] \in Members(s) \union N
    <3>1. CASE k <= size
      <4>1. k \in DOMAIN s.nodes /\ r.nodes[k] = s.nodes[k]
        BY <1>6, <1>8, <3>1 DEF size
      <4> QED
        BY <4>1 DEF Members
    <3>2. CASE ~(k <= size)
      <4>1. k - size \in 1..n /\ r.nodes[k] = f[k - size]
        BY <1>6, <1>8, <3>2 DEF size
      <4> QED
        BY <4>1
    <3> QED
      BY <3>1, <3>2
  <2>2. ASSUME NEW k \in DOMAIN s.nodes PROVE s.nodes[k] \in Members(r)
    <3>1. k \in DOMAIN r.nodes /\ r.nodes[k] = s.nodes[k]
      BY <1>6, <1>8 DEF size
    <3> QED
      BY <3>1 DEF Members
  <2>3. ASSUME NEW i \in 1..n PROVE f[i] \in Members(r)
    <3>1. size + i \in DOMAIN r.nodes /\ r.nodes[size + i] = f[i]
      <4>1. size \in Int
        BY <1>6 DEF size
      <4> DEFINE k == size + i
      <4>2. k \in 1..(size + n) /\ ~(k <= size) /\ k - size = i
        BY <1>6 DEF size
      <4> HIDE DEF k
      <4>3. r.nodes[k] = f[k - size]
        BY <1>8, <4>2
      <4> QED
        BY <1>8, <4>1, <4>2, <4>3 DEF k
    <3> QED
      BY <3>1 DEF Members
  <2> QED
    BY <2>1, <2>2, <2>3 DEF Members
<1>12. Distinct(r.nodes)
  <2> SUFFICES ASSUME NEW i \in DOMAIN r.nodes, NEW j \in DOMAIN r.nodes,
                      r.nodes[i] = r.nodes[j]
               PROVE  i = j
    BY DEF Distinct
  <2> DEFINE old(k) == k \in DOMAIN s.nodes /\ r.nodes[k] = s.nodes[k]
             new(k) == k - size \in 1..n /\ r.nodes[k] = f[k - size]
  <2>1. \A k \in DOMAIN r.nodes : k \in Int /\ size \in Int /\ (old(k) \/ new(k))
    BY <1>6, <1>8 DEF size
  <2>2. ~(old(i) /\ new(j)) /\ ~(new(i) /\ old(j))
    BY <1>2 DEF Members
  <2>3. CASE old(i) /\ old(j)
    BY <2>3 DEF Sound, Distinct
  <2>4. CASE new(i) /\ new(j)
    <3>1. i - size = j - size
      BY <1>2, <2>4
    <3> QED
      BY <2>1, <3>1
  <2> QED
    BY <2>1, <2>2, <2>3, <2>4
<1>13. Sound(r)
  BY <1>9, <1>10, <1>11, <1>12 DEF Sound
<1>14. \A k \in DOMAIN s.nodes : k \in DOMAIN r.nodes /\ r.nodes[k] = s.nodes[k]
  BY <1>6, <1>8 DEF size
<1>15. ASSUME NEW k \in DOMAIN r.nodes \ DOMAIN s.nodes PROVE r.nodes[k] \in N
  <2>1. k - size \in 1..n /\ r.nodes[k] = f[k - size]
    BY <1>6, <1>8 DEF size
  <2> QED
    BY <2>1
<1> HIDE DEF N
<1>16. Joined(r, s, N, dynamic, ready)
  BY <1>3, <1>9, <1>11, <1>13, <1>14, <1>15 DEF Joined
<1> QED
  BY <1>3, <1>4, <1>16 DEF r

LEMMA JoinedKinds ==
    ASSUME NEW r, NEW s, Sound(s), NEW N \in SUBSET (Worker \ Members(s)),
           NEW dynamic \in BOOLEAN, NEW ready \in BOOLEAN, Joined(r, s, N, dynamic, ready)
    PROVE  /\ dynamic => Static(r) = Static(s) /\ Dynamic(r) = Dynamic(s) \union N
           /\ ~dynamic => Static(r) = Static(s) \union N /\ Dynamic(r) = Dynamic(s)
<1>1. Members(s) \subseteq Worker
  BY PoolTyped DEF Sound
<1>2. Members(r) = Members(s) \union N
  BY DEF Joined
<1>3. \A w \in N : r.node[w].dynamic = dynamic
  BY NewNodeTyped DEF Joined
<1>4. \A w \in Members(s) : r.node[w] = s.node[w]
  BY <1>1 DEF Joined
<1>5. CASE dynamic
  <2>1. Static(r) = Static(s)
    BY <1>2, <1>3, <1>4, <1>5 DEF Static
  <2>2. Dynamic(r) = Dynamic(s) \union N
    BY <1>1, <1>2, <2>1 DEF Dynamic, Static
  <2> QED
    BY <1>5, <2>1, <2>2
<1>6. CASE ~dynamic
  <2>1. Static(r) = Static(s) \union N
    BY <1>2, <1>3, <1>4, <1>6 DEF Static
  <2>2. Dynamic(r) = Dynamic(s)
    BY <1>1, <1>2, <2>1 DEF Dynamic, Static
  <2> QED
    BY <1>6, <2>1, <2>2
<1> QED
  BY <1>5, <1>6

LEMMA DisjointUnion ==
    ASSUME NEW S, NEW T, IsFiniteSet(S), IsFiniteSet(T), S \cap T = {}
    PROVE  Cardinality(S \union T) = Cardinality(S) + Cardinality(T)
<1>1. Cardinality(S \cup T) = Cardinality(S) + Cardinality(T) - Cardinality(S \cap T)
  BY FS_Union
<1>2. Cardinality(S \cap T) = 0
  BY FS_EmptySet
<1>3. Cardinality(S) \in Nat /\ Cardinality(T) \in Nat
  BY FS_CardinalityType
<1> QED
  BY <1>1, <1>2, <1>3

-----------------------------------------------------------------------------
(* The size of a pool *)

Within(s) == Cardinality(Static(s)) <= Min /\ Cardinality(Dynamic(s)) <= Max - Min

Fits(s, state) == /\ Sound(s) /\ Within(s)
                  /\ state = "started" => Cardinality(Static(s)) = Min

LEMMA LikeFits ==
    ASSUME NEW r, NEW s, NEW state, Fits(s, state), Like(r, s)
    PROVE  Fits(r, state)
  BY LikeSame DEF Fits, Within, Like

(* The static workers a pool is short of join it.  One that replaces a      *)
(* dynamic worker that fails may be beyond the maximum for the moment.      *)
LEMMA MinimumJoins ==
    ASSUME NEW s, Sound(s), Cardinality(Static(s)) <= Min,
           Cardinality(Dynamic(s)) <= Max - Min + 1, NEW ready \in BOOLEAN
    PROVE  \E N \in SUBSET (Worker \ Members(s)) :
               /\ Joined(MinimumStarted(s, ready), s, N, FALSE, ready)
               /\ Cardinality(N) = Min - Cardinality(Static(s))
               /\ Cardinality(Static(MinimumStarted(s, ready))) = Min
               /\ Dynamic(MinimumStarted(s, ready)) = Dynamic(s)
<1> DEFINE n == Min - Cardinality(Static(s))
<1>1. /\ Cardinality(Static(s)) \in Nat /\ Cardinality(Dynamic(s)) \in Nat
      /\ Cardinality(Members(s)) = Cardinality(Static(s)) + Cardinality(Dynamic(s))
      /\ IsFiniteSet(Static(s)) /\ Static(s) \subseteq Members(s)
  BY PoolTyped DEF Sound
<1>2. n \in Nat /\ n + Cardinality(Members(s)) <= Max + 1
  BY <1>1, Sizes
<1>3. PICK N \in SUBSET (Worker \ Members(s)) :
          Cardinality(N) = n /\ Joined(Created(s, n, FALSE, ready), s, N, FALSE, ready)
  <2> HIDE DEF n
  <2> QED
    BY <1>2, CreatedJoins
<1> DEFINE r == MinimumStarted(s, ready)
<1>4. Joined(r, s, N, FALSE, ready)
  BY <1>3 DEF MinimumStarted
<1> HIDE DEF r
<1>5. Static(r) = Static(s) \union N /\ Dynamic(r) = Dynamic(s)
  <2>1. PICK d \in BOOLEAN : d = FALSE
    OBVIOUS
  <2>2. Joined(r, s, N, d, ready)
    BY <1>4, <2>1
  <2> QED
    BY <1>3, <2>1, <2>2, JoinedKinds
<1>6. IsFiniteSet(N) /\ Static(s) \cap N = {}
  BY <1>1, WorkersFinite
<1>7. Cardinality(Static(r)) = Cardinality(Static(s)) + Cardinality(N)
  BY <1>1, <1>5, <1>6, DisjointUnion
<1>8. Cardinality(Static(r)) = Min
  BY <1>1, <1>3, <1>7, Sizes
<1> QED
  BY <1>3, <1>4, <1>5, <1>8 DEF r

LEMMA DynamicJoins ==
    ASSUME NEW s, Fits(s, "started")
    PROVE  \E N \in SUBSET (Worker \ Members(s)) :
               /\ Joined(DynamicWorkerCreated(s), s, N, TRUE, TRUE)
               /\ Static(DynamicWorkerCreated(s)) = Static(s)
               /\ Cardinality(Dynamic(DynamicWorkerCreated(s))) = Cardinality(Dynamic(s)) + 1
<1>1. /\ Cardinality(Static(s)) \in Nat /\ Cardinality(Dynamic(s)) \in Nat
      /\ Cardinality(Members(s)) = Cardinality(Static(s)) + Cardinality(Dynamic(s))
      /\ IsFiniteSet(Dynamic(s)) /\ Dynamic(s) \subseteq Members(s)
  BY PoolTyped DEF Sound, Fits, Dynamic
<1>2. 1 + Cardinality(Members(s)) <= Max + 1
  BY <1>1, Sizes DEF Fits, Within
<1>3. PICK N \in SUBSET (Worker \ Members(s)) :
          Cardinality(N) = 1 /\ Joined(Created(s, 1, TRUE, TRUE), s, N, TRUE, TRUE)
  BY <1>2, CreatedJoins DEF Fits
<1> DEFINE r == DynamicWorkerCreated(s)
<1>4. Joined(r, s, N, TRUE, TRUE)
  BY <1>3 DEF DynamicWorkerCreated
<1> HIDE DEF r
<1>5. Static(r) = Static(s) /\ Dynamic(r) = Dynamic(s) \union N
  BY <1>3, <1>4, JoinedKinds DEF Fits
<1>6. IsFiniteSet(N) /\ Dynamic(s) \cap N = {}
  BY <1>1, WorkersFinite
<1>7. Cardinality(Dynamic(r)) = Cardinality(Dynamic(s)) + Cardinality(N)
  BY <1>1, <1>5, <1>6, DisjointUnion
<1> QED
  BY <1>3, <1>4, <1>5, <1>7 DEF r

-----------------------------------------------------------------------------
(* What operations keep *)

NoFailure(thread) ==
    \A i \in DOMAIN thread.fromWorker : thread.fromWorker[i].kind # "failure"

(* No failure to be killed appears in r; out of a started pool no worker    *)
(* joins, and none is waited for no more while it stays.                    *)
Keeps(r, s) ==
    /\ \A w \in Worker : NoFailure(s.node[w]) => NoFailure(r.node[w])
    /\ status # "started" =>
           \A w \in Members(r) :
               w \in Members(s) /\ (s.node[w].killKey # NoKey => r.node[w].killKey # NoKey)

LEMMA KeepsTransitive ==
    ASSUME NEW q, NEW r, NEW s, Keeps(q, r), Keeps(r, s)
    PROVE  Keeps(q, s)
  BY DEF Keeps

LEMMA KeepsSelf ==
    ASSUME NEW s
    PROVE  Keeps(s, s)
  BY DEF Keeps

LEMMA NewNodeQuiet ==
    ASSUME NEW dynamic, NEW ready
    PROVE  NoFailure(NewNode(dynamic, ready))
<1>1. NewNode(dynamic, ready).fromWorker = <<>>
  BY DEF NewNode
<1> QED
  BY <1>1 DEF NoFailure

LEMMA JoinedQuiet ==
    ASSUME NEW r, NEW s, NEW N \in SUBSET (Worker \ Members(s)), NEW dynamic, NEW ready,
           Joined(r, s, N, dynamic, ready)
    PROVE  /\ \A w \in Worker : NoFailure(s.node[w]) => NoFailure(r.node[w])
           /\ status = "started" => Keeps(r, s)
<1>1. \A w \in Worker : NoFailure(s.node[w]) => NoFailure(r.node[w])
  BY NewNodeQuiet DEF Joined
<1> QED
  BY <1>1 DEF Keeps

LEMMA UpdatedKeeps ==
    ASSUME NEW s, Sound(s), NEW w \in Members(s), NEW thread \in Thread,
           NoFailure(s.node[w]) => NoFailure(thread),
           s.node[w].killKey # NoKey => thread.killKey # NoKey
    PROVE  Keeps(Updated(s, w, thread), s)
<1> DEFINE r == Updated(s, w, thread)
<1>1. s.node \in [Worker -> Thread] /\ Members(s) \subseteq Worker
  BY PoolTyped DEF Sound
<1>2. Members(r) = Members(s) /\ r.node = [s.node EXCEPT ![w] = thread]
  BY DEF Updated, Members
<1> HIDE DEF r
<1>3. \A v \in Worker : r.node[v] = IF v = w THEN thread ELSE s.node[v]
  BY <1>1, <1>2
<1>4. Keeps(r, s)
  BY <1>1, <1>2, <1>3 DEF Keeps
<1> QED
  BY <1>4 DEF r

LEMMA LeftKeeps ==
    ASSUME NEW s, Sound(s), NEW w \in Members(s)
    PROVE  Keeps(Left(s, w), s)
<1> DEFINE r == Left(s, w)
<1>1. s.node \in [Worker -> Thread] /\ Members(s) \subseteq Worker
  BY PoolTyped DEF Sound
<1>2. Members(r) = Members(s) \ {w} /\ r.node = [s.node EXCEPT ![w] = NoNode]
  BY LeftSound DEF Left
<1> HIDE DEF r
<1>3. NoFailure(NoNode)
  BY NoNodeTyped DEF NoFailure
<1>4. \A v \in Worker : r.node[v] = IF v = w THEN NoNode ELSE s.node[v]
  BY <1>1, <1>2
<1>5. Keeps(r, s)
  BY <1>1, <1>2, <1>3, <1>4 DEF Keeps
<1> QED
  BY <1>5 DEF r

LEMMA MinimumFits ==
    ASSUME NEW s, Sound(s), Within(s), NEW ready \in BOOLEAN, NEW state
    PROVE  /\ Fits(MinimumStarted(s, ready), state)
           /\ Members(s) \subseteq Members(MinimumStarted(s, ready))
           /\ status = "started" => Keeps(MinimumStarted(s, ready), s)
<1> DEFINE r == MinimumStarted(s, ready)
<1>1. Cardinality(Static(s)) <= Min /\ Cardinality(Dynamic(s)) <= Max - Min + 1
  BY Sizes, PoolTyped DEF Within, Sound
<1>2. PICK N \in SUBSET (Worker \ Members(s)) :
          /\ Joined(r, s, N, FALSE, ready)
          /\ Cardinality(Static(r)) = Min /\ Dynamic(r) = Dynamic(s)
  BY <1>1, MinimumJoins
<1> HIDE DEF r
<1>3. Fits(r, state)
  BY <1>2, Sizes DEF Fits, Joined, Within
<1>4. Members(s) \subseteq Members(r)
  BY <1>2 DEF Joined
<1>5. status = "started" => Keeps(r, s)
  BY <1>2, JoinedQuiet
<1> QED
  BY <1>3, <1>4, <1>5 DEF r

(* A worker that joins on demand finds room *)
LEMMA NeededFits ==
    ASSUME NEW s, Fits(s, status)
    PROVE  /\ Fits(DynamicWorkerIfNeeded(s), status)
           /\ Members(s) \subseteq Members(DynamicWorkerIfNeeded(s))
           /\ Keeps(DynamicWorkerIfNeeded(s), s)
<1>1. CASE ShallCreateDynamicWorker(s)
  <2> DEFINE r == DynamicWorkerCreated(s)
  <2>1. DynamicWorkerIfNeeded(s) = r
    BY <1>1 DEF DynamicWorkerIfNeeded
  <2>2. status = "started"
    BY <1>1 DEF ShallCreateDynamicWorker
  <2>3. Fits(s, "started")
    BY <2>2
  <2>4. PICK N \in SUBSET (Worker \ Members(s)) :
            /\ Joined(r, s, N, TRUE, TRUE) /\ Static(r) = Static(s)
            /\ Cardinality(Dynamic(r)) = Cardinality(Dynamic(s)) + 1
    BY <2>3, DynamicJoins
  <2> HIDE DEF r
  <2>5. Cardinality(Dynamic(s)) < Max - Min
    <3>1. /\ Cardinality(Static(s)) = Min /\ Cardinality(Dynamic(s)) \in Nat
          /\ Len(s.nodes) = Cardinality(Static(s)) + Cardinality(Dynamic(s))
      BY <2>3, PoolTyped, DistinctSize DEF Fits, Sound
    <3>2. Len(s.nodes) < Max
      <4>1. CASE Len(s.nodes) < Max
        BY <4>1
      <4>2. CASE s.nodes = <<>>
        <5>1. Len(s.nodes) = 0
          BY <4>2
        <5> QED
          BY <5>1, Sizes
      <4> QED
        BY <1>1, <4>1, <4>2 DEF ShallCreateDynamicWorker
    <3> QED
      BY <3>1, <3>2, Sizes
  <2>6. Fits(r, status)
    <3>1. Cardinality(Dynamic(s)) \in Nat
      BY PoolTyped DEF Fits, Sound
    <3> QED
      BY <2>3, <2>4, <2>5, <3>1, Sizes DEF Fits, Joined, Within
  <2>7. Members(s) \subseteq Members(r) /\ Keeps(r, s)
    <3>1. Members(s) \subseteq Members(r)
      BY <2>4 DEF Joined
    <3> QED
      BY <2>2, <2>4, <3>1, JoinedQuiet
  <2> QED
    BY <2>1, <2>6, <2>7
<1>2. CASE ~ShallCreateDynamicWorker(s)
  <2>1. DynamicWorkerIfNeeded(s) = s
    BY <1>2 DEF DynamicWorkerIfNeeded
  <2> QED
    BY <2>1, KeepsSelf
<1> QED
  BY <1>1, <1>2

LEMMA LeftWithin ==
    ASSUME NEW s, Sound(s), Within(s), NEW w \in Members(s)
    PROVE  Within(Left(s, w))
<1>1. /\ IsFiniteSet(Static(s)) /\ IsFiniteSet(Dynamic(s))
      /\ Cardinality(Static(s)) \in Nat /\ Cardinality(Dynamic(s)) \in Nat
  BY PoolTyped DEF Sound
<1>2. Static(Left(s, w)) \subseteq Static(s) /\ Dynamic(Left(s, w)) \subseteq Dynamic(s)
  BY LeftSound
<1>3. /\ Cardinality(Static(Left(s, w))) <= Cardinality(Static(s))
      /\ Cardinality(Dynamic(Left(s, w))) <= Cardinality(Dynamic(s))
      /\ Cardinality(Static(Left(s, w))) \in Nat /\ Cardinality(Dynamic(Left(s, w))) \in Nat
  BY <1>1, <1>2, FS_Subset, FS_CardinalityType
<1> QED
  BY <1>1, <1>3, Sizes DEF Within

LEMMA TerminatedFits ==
    ASSUME NEW s, Sound(s), NEW w \in Members(s), Within(Left(s, w))
    PROVE  Fits(Terminated(s, w), status) /\ Keeps(Terminated(s, w), s)
<1> DEFINE left == Left(s, w)
           r == Terminated(s, w)
<1>1. r = IF status = "started" THEN MinimumStarted(left, FALSE) ELSE left
  BY DEF Terminated, Left, Without
<1>2. Sound(left) /\ Within(left) /\ Keeps(left, s)
  BY LeftSound, LeftKeeps
<1> HIDE DEF left, r
<1>3. CASE status = "started"
  <2>1. r = MinimumStarted(left, FALSE)
    BY <1>1, <1>3
  <2>2. Fits(r, status) /\ Keeps(r, left)
    BY <1>2, <1>3, <2>1, MinimumFits
  <2> QED
    BY <1>2, <2>2, KeepsTransitive DEF r
<1>4. CASE status # "started"
  <2>1. r = left
    BY <1>1, <1>4
  <2> QED
    BY <1>2, <1>4, <2>1 DEF Fits, r
<1> QED
  BY <1>3, <1>4

(* An operation on the thread of one worker *)
LEMMA UpdatedFits ==
    ASSUME NEW s, NEW state, Fits(s, state), NEW w \in Members(s), NEW thread \in Thread,
           thread.dynamic = s.node[w].dynamic
    PROVE  /\ Fits(Updated(s, w, thread), state) /\ Members(Updated(s, w, thread)) = Members(s)
           /\ /\ NoFailure(s.node[w]) => NoFailure(thread)
              /\ s.node[w].killKey # NoKey => thread.killKey # NoKey
              => Keeps(Updated(s, w, thread), s)
<1>1. Sound(s)
  BY DEF Fits
<1>2. Like(Updated(s, w, thread), s)
  BY <1>1, UpdatedLike
<1> QED
  BY <1>1, <1>2, LikeFits, LikeSame, UpdatedKeeps

LEMMA MemberThread ==
    ASSUME NEW s, Sound(s), NEW w \in Members(s)
    PROVE  s.node[w] \in Thread /\ w \in Worker
  BY PoolTyped DEF Sound

(* What a listener for the answer to a kill message does with the pool s    *)
LEMMA KillListenedFits ==
    ASSUME NEW s, Fits(s, status), NEW w \in Worker, NEW kind,
           Sound(pool), Members(pool) \subseteq Members(s)
    PROVE  /\ Fits(KillListened(s, w, kind), status)
           /\ kind # "failure" => Keeps(KillListened(s, w, kind), s)
<1> DEFINE r == KillListened(s, w, kind)
<1>1. pool.node[w].killKey # NoKey => w \in Members(s)
  <2>1. w \notin Members(pool) => pool.node[w] = NoNode
    BY DEF Sound
  <2> QED
    BY <2>1, NoNodeTyped
<1>2. CASE r = Terminated(s, w) /\ pool.node[w].killKey # NoKey
  <2>1. Sound(s) /\ w \in Members(s) /\ Within(Left(s, w))
    BY <1>1, <1>2, LeftWithin DEF Fits
  <2> QED
    BY <1>2, <2>1, TerminatedFits
<1>3. CASE /\ r = [s EXCEPT !.node[w].killKey = NoKey] /\ pool.node[w].killKey # NoKey
           /\ kind = "failure"
  <2> DEFINE thread == [s.node[w] EXCEPT !.killKey = NoKey]
  <2>1. w \in Members(s) /\ s.node[w] \in Thread /\ s \in PoolState
    BY <1>1, <1>3, MemberThread DEF Fits, Sound
  <2>2. thread \in Thread /\ thread.dynamic = s.node[w].dynamic
    BY <2>1 DEF Thread, NoKey
  <2>3. r = Updated(s, w, thread)
    BY <1>3, <2>1, PoolTyped DEF Updated
  <2> HIDE DEF r, thread
  <2>4. Fits(r, status)
    BY <2>1, <2>2, <2>3, UpdatedFits
  <2> QED
    BY <1>3, <2>4 DEF r
<1>4. CASE r = s
  BY <1>4, KeepsSelf
<1> QED
  BY <1>2, <1>3, <1>4 DEF KillListened

(* Operations on threads: the kind of the worker stays, and no failure to   *)
(* be killed appears                                                        *)
Milder(new, old) == /\ new \in Thread /\ new.dynamic = old.dynamic
                    /\ NoFailure(old) => NoFailure(new)
                    /\ old.killKey # NoKey => new.killKey # NoKey

LEMMA MilderFits ==
    ASSUME NEW s, NEW state, Fits(s, state), NEW w \in Members(s), NEW thread,
           Milder(thread, s.node[w])
    PROVE  /\ Fits(Updated(s, w, thread), state) /\ Keeps(Updated(s, w, thread), s)
           /\ Members(Updated(s, w, thread)) = Members(s)
  BY UpdatedFits DEF Milder

LEMMA MilderTransitive ==
    ASSUME NEW a, NEW b, NEW c, Milder(a, b), Milder(b, c)
    PROVE  Milder(a, c)
  BY DEF Milder

LEMMA MilderUpdates ==
    ASSUME NEW old \in Thread
    PROVE  /\ \A n \in Nat : Milder([old EXCEPT !.executing = n], old)
           /\ \A key \in Nat \ {NoKey} : Milder([old EXCEPT !.killKey = key], old)
           /\ \A b \in BOOLEAN : /\ Milder([old EXCEPT !.ready = b], old)
                                 /\ Milder([old EXCEPT !.active = b], old)
                                 /\ Milder([old EXCEPT !.listening = b], old)
           /\ \A running \in SUBSET Task : Milder([old EXCEPT !.running = running], old)
           /\ \A port \in Seq(ToWorker) :
                 Milder([old EXCEPT !.toWorker = port], old)
<1>1. \A n \in Nat : Milder([old EXCEPT !.executing = n], old)
  BY DEF Milder, Thread, NoFailure
<1>2. \A key \in Nat \ {NoKey} : Milder([old EXCEPT !.killKey = key], old)
  BY DEF Milder, Thread, NoFailure
<1>3. \A b \in BOOLEAN : Milder([old EXCEPT !.ready = b], old)
  BY DEF Milder, Thread, NoFailure
<1>4. \A b \in BOOLEAN : Milder([old EXCEPT !.active = b], old)
  BY DEF Milder, Thread, NoFailure
<1>5. \A b \in BOOLEAN : Milder([old EXCEPT !.listening = b], old)
  BY DEF Milder, Thread, NoFailure
<1>6. \A running \in SUBSET Task : Milder([old EXCEPT !.running = running], old)
  BY DEF Milder, Thread, NoFailure
<1>7. \A port \in Seq(ToWorker) :
          Milder([old EXCEPT !.toWorker = port], old)
  BY DEF Milder, Thread, NoFailure
<1> QED
  BY <1>1, <1>2, <1>3, <1>4, <1>5, <1>6, <1>7

LEMMA PortsTyped ==
    ASSUME NEW old \in Thread
    PROVE  /\ old.fromWorker \in Seq(ToMain)
           /\ old.toWorker \in Seq(ToWorker)
  BY DEF Thread

LEMMA MilderAppend ==
    ASSUME NEW old \in Thread, NEW m \in ToMain, m.kind # "failure"
    PROVE  Milder([old EXCEPT !.fromWorker = Append(@, m)], old)
<1> DEFINE port == Append(old.fromWorker, m)
           new == [old EXCEPT !.fromWorker = port]
<1>1. port \in Seq(ToMain)
  BY PortsTyped
<1>2. ASSUME NEW i \in DOMAIN port, NoFailure(old) PROVE port[i].kind # "failure"
  BY <1>2, PortsTyped DEF NoFailure
<1> HIDE DEF port
<1>3. new \in Thread /\ new.fromWorker = port /\ new.dynamic = old.dynamic
      /\ new.killKey = old.killKey
  BY <1>1 DEF Thread
<1> HIDE DEF new
<1>4. Milder(new, old)
  BY <1>2, <1>3 DEF Milder, NoFailure
<1> QED
  BY <1>4 DEF new, port

LEMMA MilderTail ==
    ASSUME NEW old \in Thread, old.fromWorker # <<>>
    PROVE  Milder([old EXCEPT !.fromWorker = Tail(@)], old)
<1> DEFINE port == Tail(old.fromWorker)
           new == [old EXCEPT !.fromWorker = port]
<1>1. port \in Seq(ToMain)
  BY PortsTyped
<1>2. ASSUME NEW i \in DOMAIN port, NoFailure(old) PROVE port[i].kind # "failure"
  BY <1>2, PortsTyped DEF NoFailure
<1> HIDE DEF port
<1>3. new \in Thread /\ new.fromWorker = port /\ new.dynamic = old.dynamic
      /\ new.killKey = old.killKey
  BY <1>1 DEF Thread
<1> HIDE DEF new
<1>4. Milder(new, old)
  BY <1>2, <1>3 DEF Milder, NoFailure
<1> QED
  BY <1>4 DEF new, port

-----------------------------------------------------------------------------
(* Operations on one node *)

LEMMA PostedFits ==
    ASSUME NEW s, NEW state, Fits(s, state), NEW w \in Members(s),
           NEW m \in ToWorker
    PROVE  /\ Fits(Posted(s, w, m), state) /\ Keeps(Posted(s, w, m), s)
           /\ Members(Posted(s, w, m)) = Members(s)
<1>1. CASE s.node[w].listening
  <2> DEFINE port == Append(s.node[w].toWorker, m)
             thread == [s.node[w] EXCEPT !.toWorker = port]
  <2>1. s.node[w] \in Thread /\ s \in PoolState
    BY MemberThread DEF Fits, Sound
  <2>2. port \in Seq(ToWorker)
    BY <2>1, PortsTyped
  <2> HIDE DEF port
  <2>3. Milder(thread, s.node[w])
    BY <2>1, <2>2, MilderUpdates
  <2>4. Posted(s, w, m) = [s EXCEPT !.node[w].toWorker = port]
    BY <1>1 DEF Posted, port
  <2>5. [s EXCEPT !.node[w].toWorker = port] = Updated(s, w, thread)
    BY <2>1, PoolTyped DEF Updated
  <2> HIDE DEF thread
  <2> QED
    BY <2>3, <2>4, <2>5, MilderFits
<1>2. CASE ~s.node[w].listening
  BY <1>2, KeepsSelf DEF Posted
<1> QED
  BY <1>1, <1>2

LEMMA ReceivedFits ==
    ASSUME NEW state, Fits(pool, state), NEW w \in Worker, NEW kind, FromWorker(w, kind)
    PROVE  /\ w \in Members(pool)
           /\ Fits(Received(w), state) /\ Keeps(Received(w), pool)
           /\ Members(Received(w)) = Members(pool)
           /\ \E m \in ToMain : m.kind = kind /\ m = Head(pool.node[w].fromWorker)
<1>1. w \in Members(pool)
  <2>1. w \notin Members(pool) => pool.node[w] = NoNode
    BY DEF Fits, Sound
  <2> QED
    BY <2>1, NoNodeTyped DEF FromWorker
<1>2. pool.node[w] \in Thread /\ pool \in PoolState /\ pool.node[w].fromWorker # <<>>
  BY <1>1, MemberThread DEF Fits, Sound, FromWorker
<1> DEFINE port == Tail(pool.node[w].fromWorker)
           thread == [pool.node[w] EXCEPT !.fromWorker = port]
<1>3. Milder(thread, pool.node[w])
  BY <1>2, MilderTail
<1>4. Received(w) = Updated(pool, w, thread)
  <2>1. Received(w) = [pool EXCEPT !.node[w].fromWorker = port]
    BY DEF Received
  <2> HIDE DEF port
  <2> QED
    BY <1>2, <2>1, PoolTyped DEF Updated
<1> HIDE DEF thread
<1>5. Head(pool.node[w].fromWorker) \in ToMain
  BY <1>2, PortsTyped
<1> QED
  BY <1>1, <1>3, <1>4, <1>5, MilderFits DEF FromWorker

LEMMA ExecuteTaskFits ==
    ASSUME NEW s, NEW state, Fits(s, state), NEW w \in Members(s), NEW t \in Task
    PROVE  Fits(ExecuteTask(s, w, t), state) /\ Keeps(ExecuteTask(s, w, t), s)
<1>1. s.node[w] \in Thread /\ s \in PoolState
  BY MemberThread DEF Fits, Sound
<1> DEFINE n == s.node[w].executing + 1
           thread == [s.node[w] EXCEPT !.executing = n]
           m == [kind |-> "task", task |-> t]
           r == [s EXCEPT !.node[w].executing = @ + 1]
<1>2. n \in Nat
  BY <1>1 DEF Thread
<1>3. r = Updated(s, w, thread)
  BY <1>1, PoolTyped DEF Updated
<1> HIDE DEF n
<1>4. Milder(thread, s.node[w])
  BY <1>1, <1>2, MilderUpdates
<1> HIDE DEF thread, r
<1>5. Fits(r, state) /\ Keeps(r, s) /\ Members(r) = Members(s)
  BY <1>3, <1>4, MilderFits
<1>6. m \in ToWorker
  BY DEF ToWorker
<1>7. ExecuteTask(s, w, t) = Posted(r, w, m)
  BY DEF ExecuteTask, r
<1> HIDE DEF m
<1>8. Fits(Posted(r, w, m), state) /\ Keeps(Posted(r, w, m), r)
  BY <1>5, <1>6, PostedFits
<1> QED
  BY <1>5, <1>7, <1>8, KeepsTransitive

LEMMA UnexecuteFits ==
    ASSUME NEW s, NEW state, Fits(s, state), NEW k
    PROVE  /\ Fits(Unexecute(s, k), state) /\ Keeps(Unexecute(s, k), s)
           /\ Members(Unexecute(s, k)) = Members(s)
<1>1. CASE k \in DOMAIN s.nodes /\ s.node[s.nodes[k]].executing > 0
  <2>1. PICK w \in Members(s) : w = s.nodes[k]
    BY <1>1 DEF Members
  <2>2. s.node[w] \in Thread /\ s \in PoolState /\ s.node[w].executing > 0
    BY <1>1, <2>1, MemberThread DEF Fits, Sound
  <2> DEFINE n == s.node[w].executing - 1
             thread == [s.node[w] EXCEPT !.executing = n]
  <2>3. n \in Nat
    BY <2>2 DEF Thread
  <2>4. Unexecute(s, k) = [s EXCEPT !.node[w].executing = @ - 1]
    BY <1>1, <2>1 DEF Unexecute
  <2>5. [s EXCEPT !.node[w].executing = @ - 1] = Updated(s, w, thread)
    BY <2>2, PoolTyped DEF Updated
  <2> HIDE DEF n
  <2>6. Milder(thread, s.node[w])
    BY <2>2, <2>3, MilderUpdates
  <2> HIDE DEF thread
  <2> QED
    BY <2>4, <2>5, <2>6, MilderFits
<1>2. CASE ~(k \in DOMAIN s.nodes /\ s.node[s.nodes[k]].executing > 0)
  <2>1. Unexecute(s, k) = s
    BY <1>2 DEF Unexecute
  <2> QED
    BY <2>1, KeepsSelf
<1> QED
  BY <1>1, <1>2

LEMMA KeyOfPositive ==
    ASSUME NEW s, Sound(s), NEW w \in Members(s)
    PROVE  KeyOf(s, w) \in Nat \ {NoKey}
<1>1. KeyOf(s, w) \in 1..Len(s.nodes) /\ Len(s.nodes) \in Nat
  BY WithoutNodes, PoolTyped DEF Sound
<1> QED
  BY <1>1 DEF NoKey

(* A worker that is told to end is waited for *)
LEMMA DestroyedFits ==
    ASSUME NEW s, NEW state, Fits(s, state), NEW w \in Members(s)
    PROVE  /\ Fits(Destroyed(s, w), state) /\ Keeps(Destroyed(s, w), s)
           /\ Members(Destroyed(s, w)) = Members(s)
           /\ Destroyed(s, w).nodes = s.nodes
           /\ Milder(Destroyed(s, w).node[w], s.node[w])
           /\ Destroyed(s, w).node[w].killKey # NoKey
<1>1. s.node[w] \in Thread /\ s \in PoolState /\ w \in Worker
  BY MemberThread DEF Fits, Sound
<1> DEFINE key == IF s.node[w].killKey = NoKey THEN KeyOf(s, w) ELSE s.node[w].killKey
           first == [s.node[w] EXCEPT !.ready = FALSE]
           second == [first EXCEPT !.killKey = key]
           unready == [s EXCEPT !.node[w].ready = FALSE]
           r == [unready EXCEPT !.node[w].killKey = key]
<1>2. key \in Nat \ {NoKey}
  BY <1>1, KeyOfPositive DEF Fits, Thread, NoKey
<1>3. Milder(first, s.node[w])
  BY <1>1, MilderUpdates
<1>4. /\ unready = Updated(s, w, first) /\ unready.node[w] = first /\ unready.nodes = s.nodes
      /\ first.killKey = s.node[w].killKey
  <2>1. unready = Updated(s, w, first)
    <3>1. PICK no : no = FALSE
      OBVIOUS
    <3> DEFINE thread == [s.node[w] EXCEPT !.ready = no]
               nodes == [s.node EXCEPT ![w] = thread]
    <3>2. [s EXCEPT !.node[w].ready = no] = [s EXCEPT !.node = nodes]
      OBVIOUS
    <3> HIDE DEF nodes
    <3>3. [s EXCEPT !.node = nodes] = [nodes |-> s.nodes, node |-> nodes]
      BY <1>1, PoolTyped
    <3>4. unready = Updated(s, w, thread)
      BY <3>1, <3>2, <3>3 DEF Updated, nodes
    <3> QED
      BY <3>1, <3>4
  <2>2. first.killKey = s.node[w].killKey
    BY <1>1 DEF Thread
  <2> HIDE DEF first, unready
  <2> QED
    BY <1>1, <2>1, <2>2, PoolTyped DEF Updated
<1>5. Destroyed(s, w) = Posted(r, w, Signal("kill"))
  BY <1>1, PoolTyped DEF Destroyed, Thread
<1> HIDE DEF key, first, unready
<1>6. /\ Fits(unready, state) /\ Keeps(unready, s) /\ Members(unready) = Members(s)
      /\ first \in Thread /\ unready \in PoolState
  BY <1>3, <1>4, MilderFits DEF Milder, Fits, Sound
<1>7. Milder(second, first) /\ second.killKey = key /\ second \in Thread
  <2>1. Milder(second, first)
    BY <1>2, <1>6, MilderUpdates
  <2> QED
    BY <1>6, <2>1 DEF Thread, Milder
<1>8. r = Updated(unready, w, second) /\ r.nodes = s.nodes /\ r.node[w] = second
  BY <1>1, <1>4, <1>6, PoolTyped DEF Updated
<1> HIDE DEF r, second
<1>9. Fits(r, state) /\ Keeps(r, s) /\ Members(r) = Members(s) /\ r \in PoolState
  BY <1>4, <1>6, <1>7, <1>8, MilderFits, KeepsTransitive DEF Fits, Sound
<1>10. Signal("kill") \in ToWorker
  BY DEF ToWorker, Signal
<1>11. Fits(Posted(r, w, Signal("kill")), state) /\ Keeps(Posted(r, w, Signal("kill")), r)
       /\ Members(Posted(r, w, Signal("kill"))) = Members(r)
  BY <1>9, <1>10, PostedFits
<1> DEFINE p == Posted(r, w, Signal("kill"))
<1>12. p.nodes = r.nodes /\ Milder(p.node[w], second) /\ p.node[w].killKey = second.killKey
  <2> DEFINE port == Append(second.toWorker, Signal("kill"))
             third == [second EXCEPT !.toWorker = port]
  <2>1. port \in Seq(ToWorker)
    BY <1>7, <1>10, PortsTyped
  <2> HIDE DEF port
  <2>2. Milder(third, second) /\ third.killKey = second.killKey
    BY <1>7, <2>1, MilderUpdates DEF Thread
  <2>3. CASE second.listening
    <3>1. p = [r EXCEPT !.node[w].toWorker = port]
      BY <1>8, <2>3 DEF Posted, port
    <3>2. p.nodes = r.nodes /\ p.node[w] = third
      BY <1>1, <1>8, <1>9, <3>1, PoolTyped
    <3> QED
      BY <2>2, <3>2
  <2>4. CASE ~second.listening
    <3>1. p = r
      BY <1>8, <2>4 DEF Posted
    <3> QED
      BY <1>7, <1>8, <3>1 DEF Milder
  <2> QED
    BY <2>3, <2>4
<1> HIDE DEF p
<1>13. Milder(p.node[w], s.node[w]) /\ p.node[w].killKey # NoKey /\ p.nodes = s.nodes
  BY <1>2, <1>3, <1>7, <1>8, <1>12, MilderTransitive
<1> QED
  BY <1>5, <1>9, <1>11, <1>13, KeepsTransitive DEF p

LEMMA DestroyedAllFits ==
    ASSUME NEW s, NEW state, Fits(s, state)
    PROVE  /\ Fits(DestroyedAll(s), state) /\ Members(DestroyedAll(s)) = Members(s)
           /\ \A w \in Worker : NoFailure(s.node[w]) => NoFailure(DestroyedAll(s).node[w])
           /\ \A w \in Members(s) : DestroyedAll(s).node[w].killKey # NoKey
<1> DEFINE r == DestroyedAll(s)
           told(w) == Destroyed(s, w).node[w]
<1>1. s \in PoolState /\ s.node \in [Worker -> Thread] /\ Members(s) \subseteq Worker
  BY PoolTyped DEF Fits, Sound
<1>2. \A w \in Members(s) : Milder(told(w), s.node[w]) /\ told(w).killKey # NoKey
  BY DestroyedFits
<1>3. /\ r.nodes = s.nodes
      /\ r.node = [w \in Worker |-> IF w \in Members(s) THEN told(w) ELSE s.node[w]]
      /\ r = [nodes |-> r.nodes, node |-> r.node]
  BY <1>1, PoolTyped DEF DestroyedAll
<1> HIDE DEF r, told
<1>4. Members(r) = Members(s)
  BY <1>3 DEF Members
<1>5. r.node \in [Worker -> Thread]
  BY <1>1, <1>2, <1>3 DEF Milder
<1>6. r \in PoolState
  BY <1>1, <1>3, <1>5, PoolTyped DEF PoolState
<1>7. Sound(r)
  BY <1>3, <1>4, <1>6 DEF Sound, Fits
<1>8. Like(r, s)
  BY <1>1, <1>2, <1>3, <1>7 DEF Like, Milder
<1>9. Fits(r, state)
  BY <1>8, LikeFits
<1>10. \A w \in Worker : NoFailure(s.node[w]) => NoFailure(r.node[w])
  BY <1>2, <1>3 DEF Milder
<1>11. \A w \in Members(s) : r.node[w].killKey # NoKey
  BY <1>1, <1>2, <1>3
<1> QED
  BY <1>4, <1>9, <1>10, <1>11 DEF r

-----------------------------------------------------------------------------
(* The inductive invariants *)

SizeInv == TypeOK /\ Fits(pool, status)

(* While the pool is destroyed every worker in it is waited for; one that   *)
(* answers, or does not, leaves.                                            *)
WaitedFor ==
    /\ \A w \in Worker : NoFailure(pool.node[w])
    /\ status = "destroying" => \A w \in Members(pool) : pool.node[w].killKey # NoKey
    /\ status = "stopped" => Members(pool) = {}

LEMMA EmptyPool ==
    ASSUME NEW s, Fits(s, "destroying")
    PROVE  Members(s) = {} <=> s.nodes = <<>>
<1>1. s.nodes \in Seq(Worker) /\ DOMAIN s.nodes = 1..Len(s.nodes) /\ Len(s.nodes) \in Nat
  BY PoolTyped DEF Fits, Sound
<1>2. CASE s.nodes = <<>>
  <2>1. DOMAIN s.nodes = {}
    BY <1>2
  <2> QED
    BY <1>2, <2>1 DEF Members
<1>3. CASE s.nodes # <<>>
  <2>1. 1 \in DOMAIN s.nodes
    BY <1>1, <1>3
  <2> QED
    BY <1>3, <2>1 DEF Members
<1> QED
  BY <1>2, <1>3

(* Steps that leave the state of the pool as it is *)
Sized == Fits(pool', status) /\ status' = status /\ TypeOK'

LEMMA SizedStep ==
    ASSUME Sized
    PROVE  /\ SizeInv'
           /\ WaitedFor /\ Keeps(pool', pool) => WaitedFor'
<1>1. SizeInv'
  BY DEF Sized, SizeInv
<1>2. ASSUME WaitedFor, Keeps(pool', pool) PROVE WaitedFor'
  <2>1. \A w \in Worker : NoFailure(pool'.node[w])
    BY <1>2 DEF WaitedFor, Keeps
  <2>2. status = "destroying" => \A w \in Members(pool') : pool'.node[w].killKey # NoKey
    BY <1>2 DEF WaitedFor, Keeps
  <2>3. status = "stopped" => Members(pool') = {}
    BY <1>2 DEF WaitedFor, Keeps
  <2> QED
    BY <2>1, <2>2, <2>3 DEF WaitedFor, Sized, Members
<1> QED
  BY <1>1, <1>2

Keeping == WaitedFor /\ "failure" \notin KillOutcome => Keeps(pool', pool)

LEMMA SizedFrom ==
    ASSUME SizeInv, Fits(pool', status), status' = status, entry' \in [Task -> Nat],
           promise' \in [Task -> {"none", "pending", "settled", "refused"}]
    PROVE  Sized
  BY DEF Sized, SizeInv, TypeOK, Fits, Sound

LEMMA InPool ==
    ASSUME SizeInv, NEW w \in Worker, pool.node[w] # NoNode
    PROVE  w \in Members(pool) /\ pool.node[w] \in Thread
  BY MemberThread DEF SizeInv, Fits, Sound

LEMMA SubmitSized ==
    ASSUME SizeInv, NEW t \in Task, Submit(t)
    PROVE  Sized /\ Keeping
<1>1. PICK s : /\ s = DynamicWorkerIfNeeded(pool)
               /\ \/ \E k \in DOMAIN s.nodes :
                      /\ pool' = ExecuteTask(s, s.nodes[k], t)
                      /\ entry' = [entry EXCEPT ![t] = k]
                      /\ promise' = [promise EXCEPT ![t] = "pending"]
                  \/ /\ pool' = s
                     /\ promise' = [promise EXCEPT ![t] = "refused"]
                     /\ UNCHANGED entry
  BY DEF Submit
<1>2. Fits(s, status) /\ Keeps(s, pool)
  BY <1>1, NeededFits DEF SizeInv
<1>3. status' = status
  BY DEF Submit
<1>4. CASE pool' = s /\ promise' = [promise EXCEPT ![t] = "refused"] /\ UNCHANGED entry
  BY <1>2, <1>3, <1>4, SizedFrom DEF SizeInv, TypeOK, Keeping
<1>5. ASSUME NEW k \in DOMAIN s.nodes, pool' = ExecuteTask(s, s.nodes[k], t),
             entry' = [entry EXCEPT ![t] = k], promise' = [promise EXCEPT ![t] = "pending"]
      PROVE  Sized /\ Keeping
  <2>1. k \in Nat /\ s.nodes[k] \in Members(s)
    <3>1. DOMAIN s.nodes = 1..Len(s.nodes) /\ Len(s.nodes) \in Nat
      BY <1>2, PoolTyped DEF Fits, Sound
    <3> QED
      BY <3>1 DEF Members
  <2>2. Fits(pool', status) /\ Keeps(pool', s)
    BY <1>2, <1>5, <2>1, ExecuteTaskFits
  <2>3. Keeping
    BY <1>2, <2>2, KeepsTransitive DEF Keeping
  <2>4. entry' \in [Task -> Nat] /\ promise' \in [Task -> {"none", "pending", "settled", "refused"}]
    BY <1>5, <2>1 DEF SizeInv, TypeOK
  <2> QED
    BY <1>3, <2>2, <2>3, <2>4, SizedFrom
<1> QED
  BY <1>1, <1>4, <1>5

(* A step of one worker's thread *)
LEMMA ThreadStep ==
    ASSUME SizeInv, NEW w \in Members(pool), NEW thread,
           pool' = Updated(pool, w, thread), UNCHANGED <<status, entry, promise>>,
           thread \in Thread, thread.dynamic = pool.node[w].dynamic,
           pool.node[w].killKey # NoKey => thread.killKey # NoKey,
           "failure" \notin KillOutcome /\ NoFailure(pool.node[w]) => NoFailure(thread)
    PROVE  Sized /\ Keeping
<1>1. w \in Worker
  BY MemberThread DEF SizeInv, Fits
<1>2. Fits(pool', status)
  BY UpdatedFits DEF SizeInv
<1>3. Keeping
  <2> SUFFICES ASSUME WaitedFor, "failure" \notin KillOutcome PROVE Keeps(pool', pool)
    BY DEF Keeping
  <2>1. NoFailure(thread)
    BY <1>1 DEF WaitedFor
  <2> QED
    BY <2>1, UpdatedFits DEF SizeInv
<1> QED
  BY <1>2, <1>3, SizedFrom DEF SizeInv, TypeOK

LEMMA MilderStep ==
    ASSUME SizeInv, NEW w \in Members(pool), NEW thread, Milder(thread, pool.node[w]),
           pool' = Updated(pool, w, thread), UNCHANGED <<status, entry, promise>>
    PROVE  Sized /\ Keeping
  BY ThreadStep DEF Milder

(* Fields set one after the other *)
LEMMA UpdatedAgain ==
    ASSUME NEW s \in PoolState, NEW w \in Worker, NEW a \in Thread, NEW b
    PROVE  /\ Updated(s, w, a) \in PoolState /\ Updated(s, w, a).node[w] = a
           /\ Updated(Updated(s, w, a), w, b) = Updated(s, w, b)
<1>1. s.node \in [Worker -> Thread] /\ s.nodes \in Seq(Worker)
  BY PoolTyped
<1>2. Updated(s, w, a) \in PoolState /\ Updated(s, w, a).node[w] = a
  BY <1>1 DEF Updated, PoolState
<1>3. [[s.node EXCEPT ![w] = a] EXCEPT ![w] = b] = [s.node EXCEPT ![w] = b]
  BY <1>1
<1> QED
  BY <1>2, <1>3 DEF Updated

LEMMA NodeReplaced ==
    ASSUME NEW s \in PoolState, NEW w, NEW thread
    PROVE  [s EXCEPT !.node = [s.node EXCEPT ![w] = thread]] = Updated(s, w, thread)
  BY PoolTyped DEF Updated

LEMMA WorkerMessageSized ==
    ASSUME SizeInv, NEW w \in Worker, WorkerMessage(w)
    PROVE  Sized /\ Keeping
<1> DEFINE old == pool.node[w]
           m == Head(old.toWorker)
           port == Tail(old.toWorker)
           read == [pool EXCEPT !.node[w].toWorker = Tail(@)]
           first == [old EXCEPT !.toWorker = port]
<1>1. old.toWorker # <<>> /\ UNCHANGED <<status, entry, promise>>
  BY DEF WorkerMessage
<1>2. w \in Members(pool) /\ old \in Thread /\ pool \in PoolState
  BY <1>1, InPool, NoNodeTyped DEF SizeInv, TypeOK
<1>3. m \in ToWorker /\ port \in Seq(ToWorker)
  BY <1>1, <1>2, PortsTyped
<1>4. \/ pool' = [read EXCEPT !.node[w].fromWorker = Append(@, Signal("ready")),
                              !.node[w].active = read.node[w].dynamic]
      \/ m.kind = "task" /\ pool' = [read EXCEPT !.node[w].running = @ \union {m.task}]
      \/ \E outcome \in KillOutcome :
             pool' = [read EXCEPT
                      !.node[w].active = FALSE,
                      !.node[w].listening = FALSE,
                      !.node[w].toWorker = <<>>,
                      !.node[w].fromWorker =
                          IF outcome = "none" THEN @ ELSE Append(@, Signal(outcome))]
  BY DEF WorkerMessage
<1>5. read = Updated(pool, w, first)
  <2>1. read = [pool EXCEPT !.node = [pool.node EXCEPT ![w] = first]]
    OBVIOUS
  <2> HIDE DEF first, read
  <2> QED
    BY <1>2, <2>1, NodeReplaced
<1> HIDE DEF m, port, read
<1>6. Milder(first, old) /\ first \in Thread
  BY <1>2, <1>3, MilderUpdates DEF Milder
<1> HIDE DEF first
<1>7. read \in PoolState /\ read.node[w] = first
  BY <1>2, <1>5, <1>6, UpdatedAgain
<1>8. CASE pool' = [read EXCEPT !.node[w].fromWorker = Append(@, Signal("ready")),
                                !.node[w].active = read.node[w].dynamic]
  <2> DEFINE answers == Append(first.fromWorker, Signal("ready"))
             second == [first EXCEPT !.fromWorker = answers]
             active == first.dynamic
             third == [second EXCEPT !.active = active]
             answered == [read EXCEPT !.node[w].fromWorker = answers]
  <2>1. Signal("ready") \in ToMain /\ Signal("ready").kind # "failure"
    BY DEF Signal, ToMain
  <2>2. Milder(second, first) /\ second \in Thread
    BY <1>6, <2>1, MilderAppend DEF Milder
  <2>3. pool' = [answered EXCEPT !.node[w].active = active]
    BY <1>7, <1>8
  <2>4. active \in BOOLEAN
    BY <1>6 DEF Thread
  <2> HIDE DEF answers
  <2>5. answered = Updated(pool, w, second)
    <3>1. answered = [read EXCEPT !.node = [read.node EXCEPT ![w] = second]]
      BY <1>7
    <3> HIDE DEF answered, second
    <3>2. answered = Updated(read, w, second)
      BY <1>7, <3>1, NodeReplaced
    <3> QED
      BY <1>2, <1>5, <1>6, <3>2, UpdatedAgain
  <2> HIDE DEF answered, active, second
  <2>6. answered \in PoolState /\ answered.node[w] = second
    BY <1>2, <2>2, <2>5, UpdatedAgain
  <2>7. Milder(third, second)
    BY <2>2, <2>4, MilderUpdates
  <2>8. pool' = Updated(pool, w, third)
    <3>1. pool' = [answered EXCEPT !.node = [answered.node EXCEPT ![w] = third]]
      BY <2>3, <2>6
    <3> HIDE DEF third
    <3>2. pool' = Updated(answered, w, third)
      BY <2>6, <3>1, NodeReplaced
    <3> QED
      BY <1>2, <2>2, <2>5, <3>2, UpdatedAgain
  <2> HIDE DEF third
  <2>9. Milder(third, old)
    BY <1>6, <2>2, <2>7, MilderTransitive
  <2> QED
    BY <1>1, <1>2, <2>8, <2>9, MilderStep
<1>9. CASE m.kind = "task" /\ pool' = [read EXCEPT !.node[w].running = @ \union {m.task}]
  <2> DEFINE running == first.running \union {m.task}
             second == [first EXCEPT !.running = running]
  <2>1. m.task \in Task
    BY <1>3, <1>9 DEF ToWorker
  <2>2. running \in SUBSET Task
    BY <1>6, <2>1 DEF Thread
  <2>3. pool' = [read EXCEPT !.node[w].running = running]
    BY <1>7, <1>9
  <2> HIDE DEF running
  <2>4. Milder(second, first)
    BY <1>6, <2>2, MilderUpdates
  <2>5. pool' = Updated(pool, w, second)
    <3>1. pool' = [read EXCEPT !.node = [read.node EXCEPT ![w] = second]]
      BY <1>7, <2>3
    <3> HIDE DEF second
    <3>2. pool' = Updated(read, w, second)
      BY <1>7, <3>1, NodeReplaced
    <3> QED
      BY <1>2, <1>5, <1>6, <3>2, UpdatedAgain
  <2> HIDE DEF second
  <2>6. Milder(second, old)
    BY <1>6, <2>4, MilderTransitive
  <2> QED
    BY <1>1, <1>2, <2>5, <2>6, MilderStep
<1>10. ASSUME NEW outcome \in KillOutcome,
              pool' = [read EXCEPT
                       !.node[w].active = FALSE,
                       !.node[w].listening = FALSE,
                       !.node[w].toWorker = <<>>,
                       !.node[w].fromWorker =
                           IF outcome = "none" THEN @ ELSE Append(@, Signal(outcome))]
       PROVE  Sized /\ Keeping
  <2> DEFINE a == [first EXCEPT !.active = FALSE]
             b == [a EXCEPT !.listening = FALSE]
             c == [b EXCEPT !.toWorker = <<>>]
             answers == IF outcome = "none" THEN first.fromWorker
                        ELSE Append(first.fromWorker, Signal(outcome))
             d == [c EXCEPT !.fromWorker = answers]
             r == [read EXCEPT !.node[w].active = FALSE]
             s == [r EXCEPT !.node[w].listening = FALSE]
             t == [s EXCEPT !.node[w].toWorker = <<>>]
  <2>1. Milder(a, first) /\ a \in Thread /\ a.fromWorker = first.fromWorker
    <3>1. Milder(a, first)
      BY <1>6, MilderUpdates
    <3>2. a.fromWorker = first.fromWorker
      BY <1>6 DEF Thread
    <3> QED
      BY <3>1, <3>2 DEF Milder
  <2>2. r = Updated(pool, w, a) /\ r \in PoolState /\ r.node[w] = a
    <3>1. r = [read EXCEPT !.node = [read.node EXCEPT ![w] = a]]
      BY <1>7
    <3> HIDE DEF r, a
    <3>2. r = Updated(read, w, a)
      BY <1>7, <3>1, NodeReplaced
    <3> QED
      BY <1>2, <1>5, <1>6, <2>1, <3>2, UpdatedAgain
  <2>3. pool' = [t EXCEPT !.node[w].fromWorker = answers]
    <3>1. pool' = [read EXCEPT !.node[w].active = FALSE, !.node[w].listening = FALSE,
                               !.node[w].toWorker = <<>>, !.node[w].fromWorker = answers]
      BY <1>7, <1>10
    <3> HIDE DEF answers
    <3> QED
      BY <3>1
  <2> HIDE DEF r, a, answers
  <2>4. Milder(b, a) /\ b \in Thread /\ b.fromWorker = a.fromWorker
    <3>1. Milder(b, a)
      BY <2>1, MilderUpdates
    <3>2. b.fromWorker = a.fromWorker
      BY <2>1 DEF Thread
    <3> QED
      BY <3>1, <3>2 DEF Milder
  <2>5. s = Updated(pool, w, b) /\ s \in PoolState /\ s.node[w] = b
    <3>1. s = [r EXCEPT !.node = [r.node EXCEPT ![w] = b]]
      BY <2>2
    <3> HIDE DEF s, b
    <3>2. s = Updated(r, w, b)
      BY <2>2, <3>1, NodeReplaced
    <3> QED
      BY <1>2, <2>1, <2>2, <2>4, <3>2, UpdatedAgain
  <2> HIDE DEF s, b
  <2>6. Milder(c, b) /\ c \in Thread /\ c.fromWorker = first.fromWorker
    <3>1. <<>> \in Seq(ToWorker)
      OBVIOUS
    <3>2. Milder(c, b)
      BY <2>4, <3>1, MilderUpdates
    <3> QED
      BY <2>1, <2>4, <3>2 DEF Milder, Thread
  <2>7. t = Updated(pool, w, c) /\ t \in PoolState /\ t.node[w] = c
    <3>1. t = [s EXCEPT !.node = [s.node EXCEPT ![w] = c]]
      BY <2>5
    <3> HIDE DEF t, c
    <3>2. t = Updated(s, w, c)
      BY <2>5, <3>1, NodeReplaced
    <3> QED
      BY <1>2, <2>4, <2>5, <2>6, <3>2, UpdatedAgain
  <2> HIDE DEF t, c
  <2>8. Milder(c, old)
    BY <1>6, <2>1, <2>4, <2>6, MilderTransitive
  <2>9. pool' = Updated(pool, w, d)
    <3>1. pool' = [t EXCEPT !.node = [t.node EXCEPT ![w] = d]]
      BY <2>3, <2>7
    <3> HIDE DEF d
    <3>2. pool' = Updated(t, w, d)
      BY <2>7, <3>1, NodeReplaced
    <3> QED
      BY <1>2, <2>6, <2>7, <3>2, UpdatedAgain
  <2>10. CASE outcome = "none"
    <3>1. d = [c EXCEPT !.fromWorker = c.fromWorker]
      BY <2>6, <2>10 DEF answers
    <3>2. Milder(d, c)
      BY <2>6, <3>1 DEF Milder, Thread, NoFailure
    <3> HIDE DEF d
    <3> QED
      BY <1>1, <1>2, <2>8, <2>9, <3>2, MilderTransitive, MilderStep
  <2>11. CASE outcome # "none"
    <3>1. d = [c EXCEPT !.fromWorker = Append(c.fromWorker, Signal(outcome))]
      BY <2>6, <2>11 DEF answers
    <3>2. Signal(outcome) \in ToMain
      BY <2>11, DynamicPoolAssumption DEF Signal, ToMain
    <3>3. d \in Thread /\ d.dynamic = c.dynamic /\ d.killKey = c.killKey
      <4> DEFINE longer == Append(c.fromWorker, Signal(outcome))
      <4>1. longer \in Seq(ToMain)
        BY <2>6, <3>2, PortsTyped
      <4> HIDE DEF longer, d
      <4> QED
        BY <2>6, <3>1, <4>1 DEF Thread, longer
    <3>4. ASSUME "failure" \notin KillOutcome, NoFailure(old) PROVE NoFailure(d)
      <4>1. Signal(outcome).kind # "failure"
        BY <3>4 DEF Signal
      <4>2. Milder(d, c)
        BY <2>6, <3>1, <3>2, <4>1, MilderAppend
      <4> HIDE DEF d
      <4> QED
        BY <2>8, <3>4, <4>2 DEF Milder
    <3> HIDE DEF d
    <3> QED
      BY <1>1, <1>2, <2>8, <2>9, <3>3, <3>4, ThreadStep DEF Milder
  <2> QED
    BY <2>10, <2>11
<1> QED
  BY <1>4, <1>8, <1>9, <1>10

LEMMA WorkerFinishSized ==
    ASSUME SizeInv, NEW w \in Worker, NEW t \in Task, WorkerFinish(w, t)
    PROVE  Sized /\ Keeping
<1> DEFINE old == pool.node[w]
           running == old.running \ {t}
           m == [kind |-> "response", task |-> t]
           answers == IF old.listening THEN Append(old.fromWorker, m) ELSE old.fromWorker
           first == [old EXCEPT !.running = running]
           second == [first EXCEPT !.fromWorker = answers]
           stopped == [pool EXCEPT !.node[w].running = running]
<1>1. old.running # {} /\ UNCHANGED <<status, entry, promise>>
  BY DEF WorkerFinish
<1>2. w \in Members(pool) /\ old \in Thread /\ pool \in PoolState
  BY <1>1, InPool, NoNodeTyped DEF SizeInv, TypeOK
<1>3. running \in SUBSET Task
  BY <1>2 DEF Thread
<1>4. pool' = [stopped EXCEPT !.node[w].fromWorker = answers]
  <2>1. pool' = [pool EXCEPT !.node[w].running = running, !.node[w].fromWorker = answers]
    BY <1>2 DEF WorkerFinish
  <2> HIDE DEF answers, running
  <2> QED
    BY <2>1
<1>5. first.fromWorker = old.fromWorker
  BY <1>2 DEF Thread
<1>6. stopped = [pool EXCEPT !.node = [pool.node EXCEPT ![w] = first]]
  OBVIOUS
<1> HIDE DEF running, stopped
<1>7. Milder(first, old) /\ first \in Thread
  BY <1>2, <1>3, MilderUpdates DEF Milder
<1>8. m \in ToMain /\ m.kind # "failure"
  BY DEF ToMain
<1> HIDE DEF first, m
<1>9. stopped = Updated(pool, w, first) /\ stopped \in PoolState /\ stopped.node[w] = first
  <2>1. stopped = Updated(pool, w, first)
    BY <1>2, <1>6, NodeReplaced
  <2> QED
    BY <1>2, <1>7, <2>1, UpdatedAgain
<1>10. Milder(second, first)
  <2>1. CASE old.listening
    <3>1. second = [first EXCEPT !.fromWorker = Append(first.fromWorker, m)]
      BY <1>5, <2>1
    <3> QED
      BY <1>7, <1>8, <3>1, MilderAppend
  <2>2. CASE ~old.listening
    <3>1. second = [first EXCEPT !.fromWorker = first.fromWorker]
      BY <1>5, <2>2
    <3> QED
      BY <1>7, <3>1 DEF Milder, Thread, NoFailure
  <2> QED
    BY <2>1, <2>2
<1> HIDE DEF answers
<1>11. pool' = [stopped EXCEPT !.node = [stopped.node EXCEPT ![w] = second]]
  BY <1>4, <1>9
<1> HIDE DEF second
<1>12. pool' = Updated(pool, w, second)
  <2>1. pool' = Updated(stopped, w, second)
    BY <1>9, <1>11, NodeReplaced
  <2> QED
    BY <1>2, <1>7, <1>9, <2>1, UpdatedAgain
<1>13. Milder(second, old)
  BY <1>7, <1>10, MilderTransitive
<1> QED
  BY <1>1, <1>2, <1>12, <1>13, MilderStep

LEMMA CheckActiveSized ==
    ASSUME SizeInv, NEW w \in Worker, CheckActive(w)
    PROVE  Sized /\ Keeping
<1> DEFINE old == pool.node[w]
           answers == Append(old.fromWorker, Signal("kill"))
           new == [old EXCEPT !.fromWorker = answers]
<1>1. old.active /\ UNCHANGED <<status, entry, promise>>
      /\ pool' = [pool EXCEPT !.node = [pool.node EXCEPT ![w] = new]]
  BY DEF CheckActive
<1>2. w \in Members(pool) /\ old \in Thread /\ pool \in PoolState
  BY <1>1, InPool, NoNodeTyped DEF SizeInv, TypeOK
<1>3. Signal("kill") \in ToMain /\ Signal("kill").kind # "failure"
  BY DEF Signal, ToMain
<1>4. Milder(new, old)
  BY <1>2, <1>3, MilderAppend
<1> HIDE DEF new
<1>5. pool' = Updated(pool, w, new)
  BY <1>1, <1>2, NodeReplaced
<1> QED
  BY <1>1, <1>2, <1>4, <1>5, MilderStep

(* A message of w is handled, then seen by the kill message listener        *)
LEMMA ListenedStep ==
    ASSUME SizeInv, NEW w \in Worker, NEW kind, NEW s, Fits(s, status), Keeps(s, pool),
           Members(pool) \subseteq Members(s),
           WaitedFor => kind # "failure", pool' = KillListened(s, w, kind),
           status' = status, entry' \in [Task -> Nat],
           promise' \in [Task -> {"none", "pending", "settled", "refused"}]
    PROVE  Sized /\ Keeping
<1>1. Sound(pool)
  BY DEF SizeInv, Fits
<1>2. /\ Fits(pool', status) /\ (WaitedFor => Keeps(pool', s))
  BY <1>1, KillListenedFits
<1> QED
  BY <1>2, SizedFrom, KeepsTransitive DEF Keeping

LEMMA WorkerReadySized ==
    ASSUME SizeInv, NEW w \in Worker, WorkerReady(w)
    PROVE  Sized /\ Keeping
<1>1. /\ w \in Members(pool) /\ Fits(Received(w), status) /\ Keeps(Received(w), pool)
      /\ Members(Received(w)) = Members(pool)
  BY ReceivedFits DEF WorkerReady, SizeInv
<1>2. Received(w).node[w] \in Thread /\ Received(w) \in PoolState
  BY <1>1, MemberThread DEF Fits, Sound
<1> DEFINE r == Received(w)
           b == r.node[w].ready \/ status # "destroying"
           new == [r.node[w] EXCEPT !.ready = b]
           s == [r EXCEPT !.node[w].ready = @ \/ status # "destroying"]
<1>3. b \in BOOLEAN
  OBVIOUS
<1>4. s = [r EXCEPT !.node = [r.node EXCEPT ![w] = new]]
  OBVIOUS
<1>5. pool' = KillListened(s, w, "ready") /\ UNCHANGED <<status, entry, promise>>
  BY DEF WorkerReady
<1> HIDE DEF b, s, r
<1>6. Milder(new, r.node[w])
  BY <1>2, <1>3, MilderUpdates DEF r
<1> HIDE DEF new
<1>7. s = Updated(r, w, new)
  BY <1>2, <1>4, NodeReplaced DEF r
<1>8. Fits(s, status) /\ Keeps(s, r) /\ Members(s) = Members(pool)
  BY <1>1, <1>6, <1>7, MilderFits DEF r
<1>9. Keeps(s, pool)
  BY <1>1, <1>8, KeepsTransitive DEF r
<1> QED
  BY <1>5, <1>8, <1>9, ListenedStep DEF SizeInv, TypeOK

LEMMA TaskExecutionResponseSized ==
    ASSUME SizeInv, NEW w \in Worker, TaskExecutionResponse(w)
    PROVE  Sized /\ Keeping
<1>1. PICK t : /\ t = Head(pool.node[w].fromWorker).task
               /\ pool' = KillListened(
                      DynamicWorkerIfNeeded(Unexecute(Received(w), entry[t])), w, "response")
               /\ entry' = [entry EXCEPT ![t] = NoKey]
               /\ promise' = [promise EXCEPT ![t] = "settled"]
               /\ status' = status
  BY DEF TaskExecutionResponse
<1>2. /\ w \in Members(pool) /\ Fits(Received(w), status) /\ Keeps(Received(w), pool)
      /\ Members(Received(w)) = Members(pool)
  BY ReceivedFits DEF TaskExecutionResponse, SizeInv
<1> DEFINE r == Unexecute(Received(w), entry[t])
           s == DynamicWorkerIfNeeded(r)
<1>3. Fits(r, status) /\ Keeps(r, Received(w)) /\ Members(r) = Members(pool)
  BY <1>2, UnexecuteFits
<1> HIDE DEF r
<1>4. Fits(s, status) /\ Keeps(s, r) /\ Members(r) \subseteq Members(s)
  BY <1>3, NeededFits
<1>5. pool' = KillListened(s, w, "response")
  BY <1>1 DEF r
<1> HIDE DEF s
<1>6. Keeps(s, pool)
  BY <1>2, <1>3, <1>4, KeepsTransitive
<1>7. entry' \in [Task -> Nat] /\ promise' \in [Task -> {"none", "pending", "settled", "refused"}]
  BY <1>1 DEF SizeInv, TypeOK, NoKey
<1> QED
  BY <1>1, <1>3, <1>4, <1>5, <1>6, <1>7, ListenedStep

LEMMA KillRequestSized ==
    ASSUME SizeInv, NEW w \in Worker, KillRequest(w)
    PROVE  Sized /\ Keeping
<1> DEFINE r == Received(w)
           s == IF status # "destroying" /\ (KillBehavior = "HARD" \/ IsIdle(r, w))
                THEN Destroyed(r, w) ELSE r
<1>1. pool' = KillListened(s, w, "kill") /\ UNCHANGED <<status, entry, promise>>
  BY DEF KillRequest
<1>2. w \in Members(pool) /\ Fits(r, status) /\ Keeps(r, pool) /\ Members(r) = Members(pool)
  BY ReceivedFits DEF KillRequest, SizeInv
<1> HIDE DEF r
<1>3. Fits(Destroyed(r, w), status) /\ Keeps(Destroyed(r, w), r)
      /\ Members(Destroyed(r, w)) = Members(r)
  BY <1>2, DestroyedFits
<1>4. Fits(s, status) /\ Keeps(s, pool) /\ Members(s) = Members(pool)
  BY <1>2, <1>3, KeepsTransitive
<1> HIDE DEF s
<1> QED
  BY <1>1, <1>4, ListenedStep DEF SizeInv, TypeOK

LEMMA KillAnswerSized ==
    ASSUME SizeInv, NEW w \in Worker, KillAnswer(w)
    PROVE  Sized /\ Keeping
<1>1. PICK outcome \in {"success", "failure"} :
          FromWorker(w, outcome) /\ pool' = KillListened(Received(w), w, outcome)
  BY DEF KillAnswer
<1>2. /\ Fits(Received(w), status) /\ Keeps(Received(w), pool) /\ w \in Members(pool)
      /\ Members(Received(w)) = Members(pool)
  BY <1>1, ReceivedFits DEF SizeInv
<1>3. WaitedFor => outcome # "failure"
  <2> SUFFICES ASSUME WaitedFor PROVE outcome # "failure"
    OBVIOUS
  <2>1. pool.node[w].fromWorker \in Seq(ToMain) /\ pool.node[w].fromWorker # <<>>
    BY <1>1, <1>2, MemberThread, PortsTyped DEF FromWorker, SizeInv, Fits
  <2>2. pool.node[w].fromWorker[1].kind # "failure"
    <3>1. 1 \in DOMAIN pool.node[w].fromWorker
      BY <2>1
    <3> QED
      BY <3>1 DEF WaitedFor, NoFailure
  <2>3. Head(pool.node[w].fromWorker) = pool.node[w].fromWorker[1]
    BY <2>1
  <2> QED
    BY <1>1, <2>2, <2>3 DEF FromWorker
<1>4. UNCHANGED <<status, entry, promise>>
  BY DEF KillAnswer
<1> QED
  BY <1>1, <1>2, <1>3, <1>4, ListenedStep DEF SizeInv, TypeOK

LEMMA KillTimeoutSized ==
    ASSUME SizeInv, NEW w \in Worker, KillTimeout(w)
    PROVE  Sized /\ Keeping
<1>1. w \in Members(pool) /\ Sound(pool) /\ Within(pool)
  BY InPool, NoNodeTyped DEF KillTimeout, SizeInv, Fits
<1>2. pool' = Terminated(pool, w) /\ UNCHANGED <<status, entry, promise>>
  BY DEF KillTimeout
<1>3. Fits(pool', status) /\ Keeps(pool', pool)
  BY <1>1, <1>2, LeftWithin, TerminatedFits
<1> QED
  BY <1>2, <1>3, SizedFrom DEF SizeInv, TypeOK, Keeping

(* A worker that takes the place of one that fails may be one too many: the *)
(* one that fails leaves at once.                                           *)
LEMMA WorkerErrorSized ==
    ASSUME SizeInv, NEW w \in Worker, WorkerError(w)
    PROVE  Sized /\ Keeping
<1> DEFINE new == [pool.node[w] EXCEPT !.ready = FALSE]
           s == [pool EXCEPT !.node[w].ready = FALSE]
           restarted == IF pool.node[w].dynamic
                        THEN DynamicWorkerCreated(s) ELSE MinimumStarted(s, FALSE)
           r == IF status = "started" /\ RestartWorkerOnError THEN restarted ELSE s
<1>1. w \in Members(pool) /\ pool' = Terminated(r, w) /\ UNCHANGED <<status, entry, promise>>
  BY DEF WorkerError
<1>2. pool.node[w] \in Thread /\ pool \in PoolState /\ Fits(pool, status)
  BY <1>1, MemberThread DEF SizeInv, TypeOK, Fits
<1>3. Milder(new, pool.node[w])
  BY <1>2, MilderUpdates
<1>4. s = [pool EXCEPT !.node = [pool.node EXCEPT ![w] = new]]
  OBVIOUS
<1> HIDE DEF s, new
<1>5. s = Updated(pool, w, new)
  BY <1>2, <1>4, NodeReplaced
<1>6. /\ Fits(s, status) /\ Keeps(s, pool) /\ Members(s) = Members(pool)
      /\ s.node[w] = new
  BY <1>1, <1>2, <1>3, <1>5, MilderFits, UpdatedAgain DEF Milder
<1>7. Sound(r) /\ Within(Left(r, w)) /\ w \in Members(r) /\ Keeps(r, s)
  <2>1. CASE status = "started" /\ RestartWorkerOnError /\ pool.node[w].dynamic
    <3>1. r = DynamicWorkerCreated(s)
      BY <2>1
    <3> HIDE DEF r
    <3>2. Fits(s, "started")
      BY <1>6, <2>1
    <3>3. PICK N \in SUBSET (Worker \ Members(s)) :
              /\ Joined(r, s, N, TRUE, TRUE) /\ Static(r) = Static(s)
              /\ Cardinality(Dynamic(r)) = Cardinality(Dynamic(s)) + 1
      BY <3>1, <3>2, DynamicJoins
    <3>4. Sound(r) /\ w \in Members(r) /\ Keeps(r, s)
      <4>1. Keeps(r, s)
        BY <2>1, <3>3, JoinedQuiet
      <4> QED
        BY <1>1, <1>6, <3>3, <4>1 DEF Joined
    <3>5. w \in Dynamic(r)
      <4>1. w \notin Static(s)
        BY <1>3, <1>6, <2>1 DEF Static, Milder
      <4> QED
        BY <3>3, <3>4, <4>1 DEF Dynamic
    <3>6. Static(Left(r, w)) = Static(r) \ {w} /\ Dynamic(Left(r, w)) = Dynamic(r) \ {w}
      BY <3>4, LeftSound
    <3>7. Static(Left(r, w)) = Static(s)
      BY <3>3, <3>5, <3>6 DEF Dynamic
    <3>8. Cardinality(Dynamic(Left(r, w))) = Cardinality(Dynamic(s))
      <4>1. IsFiniteSet(Dynamic(r)) /\ Cardinality(Dynamic(s)) \in Nat
        BY <1>6, <3>4, PoolTyped DEF Sound, Fits
      <4>2. Cardinality(Dynamic(r) \ {w}) = Cardinality(Dynamic(r)) - 1
        BY <3>5, <4>1, FS_RemoveElement
      <4> QED
        BY <3>3, <3>6, <4>1, <4>2
    <3> QED
      BY <1>6, <3>4, <3>7, <3>8 DEF Fits, Within
  <2>2. CASE status = "started" /\ RestartWorkerOnError /\ ~pool.node[w].dynamic
    <3>1. r = MinimumStarted(s, FALSE)
      BY <2>2
    <3> HIDE DEF r
    <3>2. Fits(r, status) /\ Members(s) \subseteq Members(r) /\ Keeps(r, s)
      BY <1>6, <2>2, <3>1, MinimumFits DEF Fits
    <3> QED
      BY <1>1, <1>6, <3>2, LeftWithin DEF Fits
  <2>3. CASE ~(status = "started" /\ RestartWorkerOnError)
    <3>1. r = s
      BY <2>3
    <3> HIDE DEF r
    <3> QED
      BY <1>1, <1>6, <3>1, LeftWithin, KeepsSelf DEF Fits
  <2> QED
    BY <2>1, <2>2, <2>3
<1> HIDE DEF r
<1>8. Fits(pool', status) /\ Keeps(pool', r)
  BY <1>1, <1>7, TerminatedFits
<1>9. Keeps(pool', pool)
  BY <1>6, <1>7, <1>8, KeepsTransitive
<1> QED
  BY <1>1, <1>8, <1>9, SizedFrom DEF SizeInv, TypeOK, Keeping

-----------------------------------------------------------------------------
(* destroy() and start() *)

LEMMA DestroySized ==
    ASSUME SizeInv, Destroy
    PROVE  SizeInv' /\ (WaitedFor => WaitedFor')
<1>1. /\ pool' = DestroyedAll(pool) /\ status' = "destroying"
      /\ UNCHANGED <<entry, promise>> /\ Fits(pool, "destroying")
  BY DEF Destroy, SizeInv, Fits
<1>2. /\ Fits(pool', "destroying") /\ Members(pool') = Members(pool)
      /\ \A w \in Worker : NoFailure(pool.node[w]) => NoFailure(pool'.node[w])
      /\ \A w \in Members(pool') : pool'.node[w].killKey # NoKey
  BY <1>1, DestroyedAllFits
<1>3. SizeInv'
  BY <1>1, <1>2 DEF SizeInv, TypeOK, Fits, Sound
<1>4. WaitedFor => WaitedFor'
  BY <1>1, <1>2 DEF WaitedFor, Members
<1> QED
  BY <1>3, <1>4

LEMMA DestroyEndSized ==
    ASSUME SizeInv, DestroyEnd
    PROVE  SizeInv' /\ (WaitedFor => WaitedFor')
<1>1. SizeInv'
  <2>1. Fits(pool, "stopped")
    BY DEF SizeInv, Fits, DestroyEnd
  <2> QED
    BY <2>1 DEF SizeInv, TypeOK, DestroyEnd
<1>2. ASSUME WaitedFor PROVE WaitedFor'
  <2>1. Members(pool) \subseteq Worker
    BY PoolTyped DEF SizeInv, TypeOK
  <2>2. Members(pool) = {}
    BY <1>2, <2>1 DEF WaitedFor, DestroyEnd
  <2> QED
    BY <1>2, <2>2 DEF WaitedFor, DestroyEnd, Members
<1> QED
  BY <1>1, <1>2

LEMMA StartSized ==
    ASSUME SizeInv, Start
    PROVE  SizeInv' /\ (WaitedFor => WaitedFor')
<1>1. /\ pool' = MinimumStarted(pool, TRUE) /\ status' = "started"
      /\ UNCHANGED <<entry, promise>> /\ Sound(pool) /\ Within(pool)
  BY DEF Start, SizeInv, Fits
<1>2. /\ Cardinality(Static(pool)) <= Min /\ Cardinality(Dynamic(pool)) <= Max - Min + 1
  BY <1>1, Sizes, PoolTyped DEF Within, Sound
<1>3. PICK N \in SUBSET (Worker \ Members(pool)) :
          Joined(pool', pool, N, FALSE, TRUE)
  BY <1>1, <1>2, MinimumJoins
<1>4. Fits(pool', "started")
  BY <1>1, MinimumFits
<1>5. SizeInv'
  BY <1>1, <1>4 DEF SizeInv, TypeOK, Fits, Sound
<1>6. \A w \in Worker : NoFailure(pool.node[w]) => NoFailure(pool'.node[w])
  BY <1>3, JoinedQuiet
<1>7. WaitedFor => WaitedFor'
  BY <1>1, <1>6 DEF WaitedFor
<1> QED
  BY <1>5, <1>7

-----------------------------------------------------------------------------
LEMMA InitSized == Init => SizeInv /\ WaitedFor
<1> SUFFICES ASSUME Init PROVE SizeInv /\ WaitedFor
  OBVIOUS
<1> DEFINE empty == [nodes |-> <<>>, node |-> [w \in Worker |-> NoNode]]
<1>1. pool = MinimumStarted(empty, TRUE) /\ status = "started"
  BY DEF Init
<1>2. empty.nodes = <<>> /\ empty.node = [w \in Worker |-> NoNode] /\ empty \in PoolState
  BY NoNodeTyped DEF PoolState
<1> HIDE DEF empty
<1>3. Members(empty) = {} /\ Static(empty) = {} /\ Dynamic(empty) = {}
  <2>1. Members(empty) = {}
    BY <1>2 DEF Members
  <2> QED
    BY <2>1 DEF Static, Dynamic
<1>4. Sound(empty)
  BY <1>2, <1>3 DEF Sound, Distinct
<1>5. Cardinality(Static(empty)) = 0 /\ Cardinality(Dynamic(empty)) = 0
  BY <1>3, FS_EmptySet
<1>6. Within(empty)
  BY <1>5, Sizes DEF Within
<1>7. /\ Cardinality(Static(empty)) <= Min /\ Cardinality(Dynamic(empty)) <= Max - Min + 1
  BY <1>5, Sizes
<1>8. PICK N \in SUBSET (Worker \ Members(empty)) :
          Joined(pool, empty, N, FALSE, TRUE)
  BY <1>1, <1>4, <1>7, MinimumJoins
<1>9. Fits(pool, status)
  BY <1>1, <1>4, <1>6, MinimumFits
<1>10. SizeInv
  BY <1>1, <1>9 DEF Init, SizeInv, TypeOK, Fits, Sound, NoKey
<1>11. \A w \in Worker : NoFailure(pool.node[w])
  <2>1. \A w \in Worker : NoFailure(empty.node[w])
    BY <1>2, NoNodeTyped DEF NoFailure
  <2> QED
    BY <1>8, <2>1, JoinedQuiet
<1>12. WaitedFor
  BY <1>1, <1>11 DEF WaitedFor
<1> QED
  BY <1>10, <1>12

LEMMA NextSized ==
    ASSUME SizeInv, [Next]_vars
    PROVE  SizeInv' /\ (WaitedFor /\ "failure" \notin KillOutcome => WaitedFor')
<1>1. ASSUME Sized, Keeping
      PROVE  SizeInv' /\ (WaitedFor /\ "failure" \notin KillOutcome => WaitedFor')
  BY <1>1, SizedStep DEF Keeping
<1>2. ASSUME NEW t \in Task, Submit(t) PROVE Sized /\ Keeping
  BY <1>2, SubmitSized
<1>3. ASSUME NEW w \in Worker, WorkerMessage(w) PROVE Sized /\ Keeping
  BY <1>3, WorkerMessageSized
<1>4. ASSUME NEW w \in Worker, NEW t \in Task, WorkerFinish(w, t) PROVE Sized /\ Keeping
  BY <1>4, WorkerFinishSized
<1>5. ASSUME NEW w \in Worker, CheckActive(w) PROVE Sized /\ Keeping
  BY <1>5, CheckActiveSized
<1>6. ASSUME NEW w \in Worker, MainMessage(w) PROVE Sized /\ Keeping
  BY <1>6, WorkerReadySized, TaskExecutionResponseSized, KillRequestSized, KillAnswerSized
     DEF MainMessage
<1>7. ASSUME NEW w \in Worker, KillTimeout(w) PROVE Sized /\ Keeping
  BY <1>7, KillTimeoutSized
<1>8. ASSUME NEW w \in Worker, WorkerError(w) PROVE Sized /\ Keeping
  BY <1>8, WorkerErrorSized
<1>9. CASE Destroy
  BY <1>9, DestroySized
<1>10. CASE DestroyEnd
  BY <1>10, DestroyEndSized
<1>11. CASE Start
  BY <1>11, StartSized
<1>12. CASE UNCHANGED vars
  BY <1>12 DEF vars, SizeInv, WaitedFor, TypeOK, Fits, Within, Sound, Static, Dynamic, Members
<1> QED
  BY <1>1, <1>2, <1>3, <1>4, <1>5, <1>6, <1>7, <1>8, <1>9, <1>10, <1>11, <1>12 DEF Next

LEMMA SizeImplied == SizeInv => SizeWithinBounds
<1> SUFFICES ASSUME SizeInv PROVE SizeWithinBounds
  OBVIOUS
<1>1. Sound(pool) /\ Within(pool) /\ TypeOK
  BY DEF SizeInv, Fits
<1>2. /\ Len(pool.nodes) = Cardinality(Static(pool)) + Cardinality(Dynamic(pool))
      /\ Cardinality(Static(pool)) \in Nat /\ Cardinality(Dynamic(pool)) \in Nat
  BY <1>1, DistinctSize, PoolTyped DEF Sound
<1>3. Len(pool.nodes) <= Max
  BY <1>1, <1>2, Sizes DEF Within
<1> QED
  BY <1>1, <1>3 DEF SizeWithinBounds, SizeInv, Fits

(* Whatever workers join on demand, for one that fails or for one that      *)
(* leaves, and whenever others leave, there are at most Max of them, and in *)
(* a started pool Min are static.                                           *)
THEOREM SizeStaysWithinBounds == Spec => []SizeWithinBounds
<1>1. Init => SizeInv
  BY InitSized
<1>2. SizeInv /\ [Next]_vars => SizeInv'
  BY NextSized
<1>3. SizeInv => SizeWithinBounds
  BY SizeImplied
<1> QED
  BY <1>1, <1>2, <1>3, PTL DEF Spec

(* destroy() leaves no worker in the pool, unless a kill handler fails.     *)
THEOREM DestroyEmptiesPool ==
    ASSUME "failure" \notin KillOutcome
    PROVE  Spec => []DestroyedPoolIsEmpty
<1>1. Init => SizeInv /\ WaitedFor
  BY InitSized
<1>2. SizeInv /\ WaitedFor /\ [Next]_vars => (SizeInv /\ WaitedFor)'
  BY NextSized
<1>3. SizeInv /\ WaitedFor => DestroyedPoolIsEmpty
  <2> SUFFICES ASSUME SizeInv, WaitedFor, status = "stopped" PROVE pool.nodes = <<>>
    BY DEF DestroyedPoolIsEmpty
  <2>1. Fits(pool, "destroying") /\ Members(pool) = {}
    BY DEF SizeInv, Fits, WaitedFor
  <2> QED
    BY <2>1, EmptyPool
<1> QED
  BY <1>1, <1>2, <1>3, PTL DEF Spec

-----------------------------------------------------------------------------
(* Tasks and the worker they are with *)

(* InFlight, of a thread: the tasks a worker was sent and whose responses   *)
(* are not handled yet                                                      *)
Tasks(thread) ==
    Carried(thread.toWorker, "task") \union thread.running
      \union Carried(thread.fromWorker, "response")

(* No task is in two messages of a port *)
Once(port, kind) ==
    \A t \in Task, i, j \in DOMAIN port :
        port[i] = [kind |-> kind, task |-> t] /\ port[j] = [kind |-> kind, task |-> t] => i = j

(* A task is in one place, and the node counts each of them *)
Accounted(thread) ==
    /\ Once(thread.toWorker, "task") /\ Once(thread.fromWorker, "response")
    /\ Carried(thread.toWorker, "task") \cap thread.running = {}
    /\ Carried(thread.toWorker, "task") \cap Carried(thread.fromWorker, "response") = {}
    /\ thread.running \cap Carried(thread.fromWorker, "response") = {}
    /\ IsFiniteSet(Tasks(thread)) /\ Cardinality(Tasks(thread)) <= thread.executing

(* Kinds of messages that are not under way *)
Lacks(port, kind) == \A i \in DOMAIN port : port[i].kind # kind

Started(thread) == thread.dynamic /\ Lacks(thread.toWorker, "startup")

StartupFirst(port) == \A i \in DOMAIN port : port[i].kind = "startup" => i = 1

ReadyBeforeKill(port) ==
    \A i, j \in DOMAIN port : port[i].kind = "kill" /\ port[j].kind = "ready" => j < i

(* Static workers do not ask to be killed.  A node told to end is not made *)
(* ready again: its worker started before it asked.                        *)
Orderly(thread) ==
    /\ StartupFirst(thread.toWorker) /\ ReadyBeforeKill(thread.fromWorker)
    /\ thread.active \/ ~Lacks(thread.fromWorker, "kill") => Started(thread)
    /\ thread.killKey # NoKey => /\ Started(thread) /\ Lacks(thread.fromWorker, "ready")
                                 /\ ~thread.ready
                                 /\ KillBehavior = "SOFT" => Tasks(thread) = {}

(* The key of a dynamic worker is higher than those of the static ones *)
StaticFirst(s) == \A k \in DOMAIN s.nodes : s.node[s.nodes[k]].dynamic <=> k > Min

(* A response finds, by its key, the node the task was given to *)
Spared(s, keys, promises) ==
    /\ StaticFirst(s)
    /\ \A w \in Members(s) :
           /\ Accounted(s.node[w]) /\ Orderly(s.node[w])
           /\ \A t \in Tasks(s.node[w]) :
                 keys[t] \in DOMAIN s.nodes /\ s.nodes[keys[t]] = w /\ promises[t] = "pending"

Sent(kind, t) == [kind |-> kind, task |-> t]

(* What is carried by a port one message of which is read, or written *)
LEMMA PortRead ==
    ASSUME NEW M, NEW port \in Seq(M), port # <<>>, NEW kind
    PROVE  /\ Carried(Tail(port), kind) \subseteq Carried(port, kind)
           /\ Once(port, kind) => /\ Once(Tail(port), kind)
                                  /\ \A t \in Task : Head(port) = Sent(kind, t) =>
                                         /\ t \in Carried(port, kind)
                                         /\ t \notin Carried(Tail(port), kind)
<1> DEFINE rest == Tail(port)
<1>1. /\ Len(port) \in Nat /\ Len(port) >= 1 /\ DOMAIN port = 1..Len(port)
      /\ DOMAIN rest = 1..(Len(port) - 1) /\ Head(port) = port[1]
      /\ \A i \in 1..(Len(port) - 1) : rest[i] = port[i + 1]
  OBVIOUS
<1> HIDE DEF rest
<1>2. \A i \in DOMAIN rest : i + 1 \in DOMAIN port /\ i + 1 # 1 /\ rest[i] = port[i + 1]
  BY <1>1
<1>3. Carried(rest, kind) \subseteq Carried(port, kind)
  BY <1>2 DEF Carried
<1>4. ASSUME Once(port, kind) PROVE Once(rest, kind)
  <2> SUFFICES ASSUME NEW t \in Task, NEW i \in DOMAIN rest, NEW j \in DOMAIN rest,
                      rest[i] = Sent(kind, t), rest[j] = Sent(kind, t)
               PROVE  i = j
    BY DEF Once, Sent
  <2>1. i + 1 = j + 1
    BY <1>2, <1>4 DEF Once, Sent
  <2> QED
    BY <1>1, <2>1
<1>5. ASSUME Once(port, kind), NEW t \in Task, Head(port) = Sent(kind, t)
      PROVE  t \in Carried(port, kind) /\ t \notin Carried(rest, kind)
  <2>1. 1 \in DOMAIN port /\ port[1] = Sent(kind, t)
    BY <1>1, <1>5
  <2>2. \A i \in DOMAIN rest : rest[i] # Sent(kind, t)
    BY <1>2, <1>5, <2>1 DEF Once, Sent
  <2> QED
    BY <2>1, <2>2 DEF Carried, Sent
<1> QED
  BY <1>3, <1>4, <1>5 DEF rest

LEMMA PortWritten ==
    ASSUME NEW M, NEW port \in Seq(M), NEW m \in M, NEW kind
    PROVE  /\ (\A t \in Task : m # Sent(kind, t)) =>
                  /\ Carried(Append(port, m), kind) = Carried(port, kind)
                  /\ Once(port, kind) => Once(Append(port, m), kind)
           /\ \A t \in Task : m = Sent(kind, t) =>
                  /\ Carried(Append(port, m), kind) = Carried(port, kind) \union {t}
                  /\ Once(port, kind) /\ t \notin Carried(port, kind) =>
                         Once(Append(port, m), kind)
<1> DEFINE longer == Append(port, m)
           size == Len(port)
<1>1. /\ size \in Nat /\ DOMAIN port = 1..size /\ DOMAIN longer = 1..(size + 1)
      /\ \A i \in 1..size : longer[i] = port[i]
      /\ longer[size + 1] = m
  OBVIOUS
<1> HIDE DEF longer, size
<1>2. \A i \in DOMAIN longer : \/ i \in DOMAIN port /\ longer[i] = port[i]
                               \/ i = size + 1 /\ longer[i] = m
  BY <1>1
<1>3. \A i \in DOMAIN port : i \in DOMAIN longer /\ longer[i] = port[i]
  BY <1>1
<1>4. size + 1 \in DOMAIN longer /\ longer[size + 1] = m
  BY <1>1
<1>5. ASSUME \A t \in Task : m # Sent(kind, t)
      PROVE  /\ Carried(longer, kind) = Carried(port, kind)
             /\ Once(port, kind) => Once(longer, kind)
  BY <1>2, <1>3, <1>5 DEF Carried, Once, Sent
<1>6. ASSUME NEW t \in Task, m = Sent(kind, t)
      PROVE  /\ Carried(longer, kind) = Carried(port, kind) \union {t}
             /\ Once(port, kind) /\ t \notin Carried(port, kind) => Once(longer, kind)
  <2>1. \A u \in Task : Sent(kind, u) = m => u = t
    BY <1>6 DEF Sent
  <2>2. Carried(longer, kind) = Carried(port, kind) \union {t}
    BY <1>2, <1>3, <1>4, <1>6, <2>1 DEF Carried, Sent
  <2>3. ASSUME Once(port, kind), t \notin Carried(port, kind) PROVE Once(longer, kind)
    BY <1>2, <1>6, <2>1, <2>3 DEF Carried, Once, Sent
  <2> QED
    BY <2>2, <2>3
<1> QED
  BY <1>5, <1>6 DEF longer

(* Fewer tasks are accounted for by the same number, and so are as many     *)
(* with one more or one less by one more or one less.                       *)
LEMMA FewerTasks ==
    ASSUME NEW S, NEW T, IsFiniteSet(S), T \subseteq S, NEW n \in Nat, Cardinality(S) <= n
    PROVE  IsFiniteSet(T) /\ Cardinality(T) <= n
<1>1. IsFiniteSet(T) /\ Cardinality(T) <= Cardinality(S)
  BY FS_Subset
<1>2. Cardinality(S) \in Nat /\ Cardinality(T) \in Nat
  BY <1>1, FS_CardinalityType
<1> QED
  BY <1>1, <1>2

LEMMA OneMoreTask ==
    ASSUME NEW S, NEW t, IsFiniteSet(S), NEW n \in Nat, Cardinality(S) <= n
    PROVE  IsFiniteSet(S \union {t}) /\ Cardinality(S \union {t}) <= n + 1
<1>1. Cardinality(S) \in Nat
  BY FS_CardinalityType
<1>2. IsFiniteSet(S \cup {t})
      /\ Cardinality(S \cup {t}) = IF t \in S THEN Cardinality(S) ELSE Cardinality(S) + 1
  BY FS_AddElement
<1> QED
  BY <1>1, <1>2

LEMMA OneTaskLess ==
    ASSUME NEW S, NEW t \in S, IsFiniteSet(S), NEW n \in Nat, Cardinality(S) <= n
    PROVE  n > 0 /\ IsFiniteSet(S \ {t}) /\ Cardinality(S \ {t}) <= n - 1
<1>1. Cardinality(S) \in Nat /\ Cardinality(S \ {t}) \in Nat
  BY FS_CardinalityType, FS_RemoveElement
<1>2. IsFiniteSet(S \ {t}) /\ Cardinality(S \ {t}) = Cardinality(S) - 1
  BY FS_RemoveElement
<1> QED
  BY <1>1, <1>2

-----------------------------------------------------------------------------
(* Pools in which tasks are spared *)

LEMMA NewNodeSpared ==
    ASSUME NEW dynamic \in BOOLEAN, NEW ready \in BOOLEAN
    PROVE  /\ Accounted(NewNode(dynamic, ready)) /\ Orderly(NewNode(dynamic, ready))
           /\ Tasks(NewNode(dynamic, ready)) = {}
<1> DEFINE new == NewNode(dynamic, ready)
<1>1. /\ new.toWorker = <<Signal("startup")>> /\ new.fromWorker = <<>> /\ new.running = {}
      /\ new.executing = 0 /\ new.active = FALSE /\ new.killKey = NoKey
  BY DEF NewNode
<1> HIDE DEF new
<1>2. \A i \in DOMAIN new.toWorker : i = 1 /\ new.toWorker[i] = Signal("startup")
  BY <1>1
<1>3. Signal("startup").kind = "startup" /\ \A t \in Task : Signal("startup") # Sent("task", t)
  <2>1. \A t \in Task : Sent("task", t).kind = "task"
    BY DEF Sent
  <2> QED
    BY <2>1 DEF Signal
<1>4. Carried(new.toWorker, "task") = {} /\ Carried(new.fromWorker, "response") = {}
  BY <1>1, <1>2, <1>3 DEF Carried, Sent
<1>5. Tasks(new) = {}
  BY <1>1, <1>4 DEF Tasks
<1>6. Accounted(new)
  <2>1. IsFiniteSet(Tasks(new)) /\ Cardinality(Tasks(new)) <= new.executing
    BY <1>1, <1>5, FS_EmptySet
  <2>2. Once(new.toWorker, "task") /\ Once(new.fromWorker, "response")
    BY <1>1, <1>2 DEF Once
  <2> QED
    BY <1>1, <1>4, <2>1, <2>2 DEF Accounted
<1>7. Orderly(new)
  BY <1>1, <1>2 DEF Orderly, Lacks, StartupFirst, ReadyBeforeKill
<1> QED
  BY <1>5, <1>6, <1>7 DEF new

(* r differs from s in the thread of w at most *)
Other(r, s, w) == r.nodes = s.nodes /\ \A v \in Members(s) \ {w} : r.node[v] = s.node[v]

LEMMA ThreadSpared ==
    ASSUME NEW s, NEW r, NEW keys, NEW promises, Spared(s, keys, promises),
           NEW w \in Members(s), Other(r, s, w), r.node[w].dynamic = s.node[w].dynamic,
           Accounted(r.node[w]), Orderly(r.node[w]),
           \A t \in Tasks(r.node[w]) \ Tasks(s.node[w]) :
              keys[t] \in DOMAIN s.nodes /\ s.nodes[keys[t]] = w /\ promises[t] = "pending"
    PROVE  Spared(r, keys, promises)
<1>1. Members(r) = Members(s)
  BY DEF Members, Other
<1>2. \A v \in Members(s) : r.node[v].dynamic = s.node[v].dynamic
  BY DEF Other
<1>3. StaticFirst(r)
  BY <1>2 DEF StaticFirst, Spared, Members, Other
<1>4. \A t \in Tasks(r.node[w]) :
         keys[t] \in DOMAIN s.nodes /\ s.nodes[keys[t]] = w /\ promises[t] = "pending"
  BY DEF Spared
<1> QED
  BY <1>1, <1>3, <1>4 DEF Spared, Other

(* Only the tasks of threads need their keys *)
LEMMA KeysSpared ==
    ASSUME NEW s, NEW keys, NEW promises, Spared(s, keys, promises), NEW t,
           \A w \in Members(s) : t \notin Tasks(s.node[w]) /\ Tasks(s.node[w]) \subseteq Task,
           NEW newKeys, NEW newPromises,
           \A u \in Task \ {t} : newKeys[u] = keys[u] /\ newPromises[u] = promises[u]
    PROVE  Spared(s, newKeys, newPromises)
<1> SUFFICES ASSUME NEW w \in Members(s), NEW u \in Tasks(s.node[w])
             PROVE  /\ newKeys[u] \in DOMAIN s.nodes /\ s.nodes[newKeys[u]] = w
                    /\ newPromises[u] = "pending"
  BY DEF Spared
<1>1. u \in Task \ {t}
  OBVIOUS
<1> QED
  BY <1>1 DEF Spared

LEMMA ThreadTasks ==
    ASSUME NEW thread \in Thread
    PROVE  Tasks(thread) \subseteq Task
<1>1. thread.running \subseteq Task
  BY DEF Thread
<1> QED
  BY <1>1 DEF Tasks, Carried

(* The size of a started pool that has room for one dynamic worker *)
LEMMA StartedSize ==
    ASSUME NEW s, Fits(s, "started")
    PROVE  /\ Len(s.nodes) \in Nat /\ DOMAIN s.nodes = 1..Len(s.nodes)
           /\ Min <= Len(s.nodes) /\ Len(s.nodes) <= Max
<1>1. /\ Len(s.nodes) = Cardinality(Static(s)) + Cardinality(Dynamic(s))
      /\ Cardinality(Static(s)) \in Nat /\ Cardinality(Dynamic(s)) \in Nat
      /\ Len(s.nodes) \in Nat /\ DOMAIN s.nodes = 1..Len(s.nodes)
  BY DistinctSize, PoolTyped DEF Fits, Sound
<1> QED
  BY <1>1, Sizes DEF Fits, Within

(* New workers are behind the nodes *)
LEMMA JoinedSpared ==
    ASSUME NEW s, Sound(s), NEW r, NEW keys, NEW promises, Spared(s, keys, promises),
           NEW N \in SUBSET (Worker \ Members(s)), NEW dynamic \in BOOLEAN,
           NEW ready \in BOOLEAN, Joined(r, s, N, dynamic, ready),
           \A k \in DOMAIN r.nodes \ DOMAIN s.nodes : dynamic <=> k > Min
    PROVE  Spared(r, keys, promises)
<1>1. Members(s) \subseteq Worker /\ Members(r) = Members(s) \union N
  BY PoolTyped DEF Sound, Joined
<1>2. \A w \in Members(s) : r.node[w] = s.node[w]
  BY <1>1 DEF Joined
<1>3. \A w \in N : /\ Accounted(r.node[w]) /\ Orderly(r.node[w])
                   /\ Tasks(r.node[w]) = {} /\ r.node[w].dynamic = dynamic
  BY NewNodeSpared, NewNodeTyped DEF Joined
<1>4. \A k \in DOMAIN s.nodes : /\ k \in DOMAIN r.nodes /\ r.nodes[k] = s.nodes[k]
                                /\ s.nodes[k] \in Members(s)
  BY DEF Joined, Members
<1>5. StaticFirst(r)
  <2> SUFFICES ASSUME NEW k \in DOMAIN r.nodes PROVE r.node[r.nodes[k]].dynamic <=> k > Min
    BY DEF StaticFirst
  <2>1. CASE k \in DOMAIN s.nodes
    BY <1>2, <1>4, <2>1 DEF Spared, StaticFirst
  <2>2. CASE k \notin DOMAIN s.nodes
    BY <1>3, <2>2 DEF Joined
  <2> QED
    BY <2>1, <2>2
<1>6. ASSUME NEW w \in Members(r)
      PROVE  /\ Accounted(r.node[w]) /\ Orderly(r.node[w])
             /\ \A t \in Tasks(r.node[w]) :
                   keys[t] \in DOMAIN r.nodes /\ r.nodes[keys[t]] = w /\ promises[t] = "pending"
  <2>1. CASE w \in Members(s)
    BY <1>2, <1>4, <2>1 DEF Spared
  <2>2. CASE w \in N
    BY <1>3, <2>2
  <2> QED
    BY <1>1, <2>1, <2>2
<1> QED
  BY <1>5, <1>6 DEF Spared

LEMMA NeededSpared ==
    ASSUME NEW s, Fits(s, "started"), status = "started", NEW keys, NEW promises,
           Spared(s, keys, promises)
    PROVE  /\ Spared(DynamicWorkerIfNeeded(s), keys, promises)
           /\ \A w \in Members(s) : /\ w \in Members(DynamicWorkerIfNeeded(s))
                                    /\ DynamicWorkerIfNeeded(s).node[w] = s.node[w]
<1> DEFINE r == DynamicWorkerCreated(s)
<1>1. PICK N \in SUBSET (Worker \ Members(s)) : Joined(r, s, N, TRUE, TRUE)
  BY DynamicJoins
<1> HIDE DEF r
<1>2. Sound(r) /\ Sound(s)
  BY <1>1 DEF Joined, Fits
<1>3. ASSUME NEW k \in DOMAIN r.nodes \ DOMAIN s.nodes PROVE k > Min
  <2>1. DOMAIN r.nodes = 1..Len(r.nodes) /\ Len(r.nodes) \in Nat
    BY <1>2, PoolTyped DEF Sound
  <2> QED
    BY <1>3, <2>1, StartedSize, Sizes
<1>4. PICK yes \in BOOLEAN : yes = TRUE
  OBVIOUS
<1>5. Joined(r, s, N, yes, TRUE) /\ \A k \in DOMAIN r.nodes \ DOMAIN s.nodes : yes <=> k > Min
  BY <1>1, <1>3, <1>4
<1>6. Spared(r, keys, promises)
  BY <1>2, <1>5, JoinedSpared
<1>7. \A w \in Members(s) : w \in Members(r) /\ r.node[w] = s.node[w]
  <2>1. Members(s) \subseteq Worker
    BY <1>2, PoolTyped DEF Sound
  <2> QED
    BY <1>1, <2>1 DEF Joined
<1> QED
  BY <1>6, <1>7 DEF DynamicWorkerIfNeeded, r

(* The dynamic worker is the last one: no key is that of another worker     *)
(* once it left                                                             *)
LEMMA TerminatedSpared ==
    ASSUME Max <= Min + 1, NEW s, Fits(s, "started"), status = "started", NEW keys,
           NEW promises, Spared(s, keys, promises), NEW w \in Members(s), s.node[w].dynamic
    PROVE  Spared(Terminated(s, w), keys, promises)
<1> DEFINE size == Len(s.nodes)
           left == Left(s, w)
           r == Terminated(s, w)
<1>1. /\ size \in Nat /\ DOMAIN s.nodes = 1..size /\ Min <= size /\ size <= Min + 1
      /\ Sound(s) /\ Within(s)
  BY StartedSize, Sizes DEF Fits
<1>2. KeyOf(s, w) = size /\ size = Min + 1 /\ s.nodes[size] = w
  <2>1. KeyOf(s, w) \in DOMAIN s.nodes /\ s.nodes[KeyOf(s, w)] = w
    BY <1>1, WithoutNodes
  <2>2. KeyOf(s, w) > Min
    BY <2>1 DEF Spared, StaticFirst
  <2> QED
    BY <1>1, <2>1, <2>2, Sizes
<1>3. /\ left.nodes = Without(s, w) /\ DOMAIN left.nodes = 1..(size - 1)
      /\ \A k \in DOMAIN left.nodes : k \in DOMAIN s.nodes /\ left.nodes[k] = s.nodes[k]
  <2>1. left.nodes = Without(s, w)
    BY DEF Left
  <2>2. /\ DOMAIN Without(s, w) = 1..(size - 1)
        /\ \A i \in DOMAIN Without(s, w) : i < KeyOf(s, w) => Without(s, w)[i] = s.nodes[i]
    BY <1>1, WithoutNodes
  <2> HIDE DEF left, size
  <2> QED
    BY <1>1, <1>2, <2>1, <2>2
<1>4. /\ Sound(left) /\ Members(left) = Members(s) \ {w} /\ Within(left)
      /\ Static(left) = Static(s) \ {w}
      /\ \A v \in Worker : v # w => left.node[v] = s.node[v]
  BY <1>1, LeftSound, LeftWithin
<1>5. r = MinimumStarted(left, FALSE)
  BY DEF Terminated, Left, Without
<1> HIDE DEF left, r, size
<1>6. Members(s) \subseteq Worker
  BY <1>1, PoolTyped DEF Sound
<1>7. Spared(left, keys, promises)
  <2>1. \A k \in DOMAIN left.nodes : left.nodes[k] \in Members(left)
    BY DEF Members
  <2>2. \A v \in Members(left) : left.node[v] = s.node[v] /\ v \in Members(s) /\ v # w
    BY <1>4, <1>6
  <2>3. StaticFirst(left)
    BY <1>3, <2>1, <2>2 DEF StaticFirst, Spared
  <2>4. ASSUME NEW v \in Members(left), NEW t \in Tasks(left.node[v])
        PROVE  keys[t] \in DOMAIN left.nodes /\ left.nodes[keys[t]] = v /\ promises[t] = "pending"
    <3>1. keys[t] \in DOMAIN s.nodes /\ s.nodes[keys[t]] = v /\ promises[t] = "pending"
      BY <2>2 DEF Spared
    <3>2. keys[t] # size
      BY <1>2, <2>2, <3>1
    <3>3. keys[t] \in DOMAIN left.nodes
      BY <1>1, <1>3, <3>1, <3>2
    <3> QED
      BY <1>3, <3>1, <3>3
  <2> QED
    BY <2>2, <2>3, <2>4 DEF Spared
<1>8. Cardinality(Static(left)) = Min /\ Cardinality(Dynamic(left)) <= Max - Min + 1
  <2>1. w \notin Static(s)
    BY DEF Static
  <2>2. Static(left) = Static(s)
    BY <1>4, <2>1
  <2>3. Cardinality(Dynamic(left)) \in Nat
    BY <1>4, PoolTyped DEF Sound
  <2>4. Cardinality(Static(s)) = Min
    BY DEF Fits
  <2>5. Cardinality(Dynamic(left)) <= Max - Min
    BY <1>4 DEF Within
  <2> QED
    BY <2>2, <2>3, <2>4, <2>5, Sizes
<1>9. PICK N \in SUBSET (Worker \ Members(left)) :
          Joined(r, left, N, FALSE, FALSE) /\ Cardinality(N) = 0
  <2>1. Cardinality(Static(left)) <= Min /\ Min - Cardinality(Static(left)) = 0
    BY <1>8, Sizes
  <2>2. PICK N \in SUBSET (Worker \ Members(left)) :
            /\ Joined(MinimumStarted(left, FALSE), left, N, FALSE, FALSE)
            /\ Cardinality(N) = Min - Cardinality(Static(left))
    BY <1>4, <1>8, <2>1, MinimumJoins
  <2> QED
    BY <1>5, <2>1, <2>2
<1>10. N = {}
  BY <1>9, WorkersFinite, FS_EmptySet
<1>11. \A k \in DOMAIN r.nodes \ DOMAIN left.nodes : FALSE
  BY <1>9, <1>10 DEF Joined
<1>12. PICK no \in BOOLEAN : no = FALSE
  OBVIOUS
<1>13. Joined(r, left, N, no, no)
  BY <1>9, <1>12
<1>14. Spared(r, keys, promises)
  BY <1>4, <1>7, <1>11, <1>13, JoinedSpared
<1> QED
  BY <1>14 DEF r

-----------------------------------------------------------------------------
(* Messages *)

LEMMA SignalCarriesNone ==
    ASSUME NEW kind, NEW other, kind # other
    PROVE  Signal(kind).kind = kind /\ \A t : Signal(kind) # Sent(other, t)
<1>1. \A t : Sent(other, t).kind = other
  BY DEF Sent
<1> QED
  BY <1>1 DEF Signal

LEMMA TaskCarried ==
    /\ \A m \in ToWorker :
          /\ m.kind = "task" => m.task \in Task /\ m = Sent("task", m.task)
          /\ m.kind # "task" => \A t : m # Sent("task", t)
    /\ \A m \in ToMain :
          /\ m.kind = "response" => m.task \in Task /\ m = Sent("response", m.task)
          /\ m.kind # "response" => \A t : m # Sent("response", t)
<1>1. \A kind, t : Sent(kind, t).kind = kind
  BY DEF Sent
<1>2. \A m \in ToWorker : m.kind = "task" => m.task \in Task /\ m = Sent("task", m.task)
  BY DEF ToWorker, Sent
<1>3. \A m \in ToMain : m.kind = "response" => m.task \in Task /\ m = Sent("response", m.task)
  BY DEF ToMain, Sent
<1> QED
  BY <1>1, <1>2, <1>3

LEMMA KindsRead ==
    ASSUME NEW M, NEW port \in Seq(M), port # <<>>
    PROVE  /\ \A kind : Lacks(port, kind) => Lacks(Tail(port), kind) /\ Head(port).kind # kind
           /\ StartupFirst(port) =>
                  /\ Lacks(Tail(port), "startup") /\ StartupFirst(Tail(port))
                  /\ Head(port).kind # "startup" => Lacks(port, "startup")
           /\ ReadyBeforeKill(port) =>
                  /\ ReadyBeforeKill(Tail(port))
                  /\ Head(port).kind = "kill" => Lacks(port, "ready")
<1> DEFINE rest == Tail(port)
<1>1. /\ Len(port) \in Nat /\ Len(port) >= 1 /\ DOMAIN port = 1..Len(port)
      /\ DOMAIN rest = 1..(Len(port) - 1) /\ Head(port) = port[1]
      /\ \A i \in 1..(Len(port) - 1) : rest[i] = port[i + 1]
  OBVIOUS
<1> HIDE DEF rest
<1>2. \A i \in DOMAIN rest : i + 1 \in DOMAIN port /\ i + 1 # 1 /\ rest[i] = port[i + 1]
  BY <1>1
<1>3. 1 \in DOMAIN port /\ Head(port) = port[1]
  BY <1>1
<1>4. \A kind : Lacks(port, kind) => Lacks(rest, kind) /\ Head(port).kind # kind
  BY <1>2, <1>3 DEF Lacks
<1>5. ASSUME StartupFirst(port)
      PROVE  /\ Lacks(rest, "startup") /\ StartupFirst(rest)
             /\ Head(port).kind # "startup" => Lacks(port, "startup")
  BY <1>2, <1>3, <1>5 DEF StartupFirst, Lacks
<1>6. ASSUME ReadyBeforeKill(port)
      PROVE  /\ ReadyBeforeKill(rest)
             /\ Head(port).kind = "kill" => Lacks(port, "ready")
  <2>1. ReadyBeforeKill(rest)
    <3> SUFFICES ASSUME NEW i \in DOMAIN rest, NEW j \in DOMAIN rest,
                        rest[i].kind = "kill", rest[j].kind = "ready"
                 PROVE  j < i
      BY DEF ReadyBeforeKill
    <3>1. j + 1 < i + 1
      BY <1>2, <1>6 DEF ReadyBeforeKill
    <3> QED
      BY <1>1, <3>1
  <2>2. ASSUME Head(port).kind = "kill", NEW j \in DOMAIN port, port[j].kind = "ready"
        PROVE  FALSE
    <3>1. j < 1
      BY <1>3, <1>6, <2>2 DEF ReadyBeforeKill
    <3> QED
      BY <1>1, <3>1
  <2> QED
    BY <2>1, <2>2 DEF Lacks
<1> QED
  BY <1>4, <1>5, <1>6 DEF rest

LEMMA KindsWritten ==
    ASSUME NEW M, NEW port \in Seq(M), NEW m \in M
    PROVE  /\ \A kind : /\ m.kind # kind /\ Lacks(port, kind) => Lacks(Append(port, m), kind)
                        /\ Lacks(Append(port, m), kind) => Lacks(port, kind)
           /\ m.kind # "startup" /\ StartupFirst(port) => StartupFirst(Append(port, m))
           /\ ReadyBeforeKill(port) /\ (m.kind = "ready" => Lacks(port, "kill")) =>
                  ReadyBeforeKill(Append(port, m))
<1> DEFINE longer == Append(port, m)
           size == Len(port)
<1>1. /\ size \in Nat /\ DOMAIN port = 1..size /\ DOMAIN longer = 1..(size + 1)
      /\ \A i \in 1..size : longer[i] = port[i]
      /\ longer[size + 1] = m
  OBVIOUS
<1> HIDE DEF longer, size
<1>2. \A i \in DOMAIN longer : \/ i \in DOMAIN port /\ longer[i] = port[i] /\ i < size + 1
                               \/ i = size + 1 /\ longer[i] = m
  BY <1>1
<1>3. \A i \in DOMAIN port : i \in DOMAIN longer /\ longer[i] = port[i]
  BY <1>1
<1>4. \A kind : /\ m.kind # kind /\ Lacks(port, kind) => Lacks(longer, kind)
                /\ Lacks(longer, kind) => Lacks(port, kind)
  BY <1>2, <1>3 DEF Lacks
<1>5. m.kind # "startup" /\ StartupFirst(port) => StartupFirst(longer)
  BY <1>2 DEF StartupFirst
<1>6. ASSUME ReadyBeforeKill(port), m.kind = "ready" => Lacks(port, "kill")
      PROVE  ReadyBeforeKill(longer)
  <2> SUFFICES ASSUME NEW i \in DOMAIN longer, NEW j \in DOMAIN longer,
                      longer[i].kind = "kill", longer[j].kind = "ready"
               PROVE  j < i
    BY DEF ReadyBeforeKill
  <2>1. CASE i \in DOMAIN port /\ j \in DOMAIN port
    BY <1>3, <1>6, <2>1 DEF ReadyBeforeKill
  <2>2. CASE i \in DOMAIN port /\ j = size + 1
    BY <1>2, <1>3, <1>6, <2>2 DEF Lacks
  <2>3. CASE i = size + 1
    BY <1>2, <2>3
  <2> QED
    BY <1>2, <2>1, <2>2, <2>3
<1> QED
  BY <1>4, <1>5, <1>6 DEF longer

-----------------------------------------------------------------------------
(* What the steps of a worker and of its node do to a thread *)

(* The worker starts *)
LEMMA StartupSpared ==
    ASSUME NEW old \in Thread, Accounted(old), Orderly(old), NEW new,
           old.toWorker # <<>>, Head(old.toWorker).kind = "startup",
           new.toWorker = Tail(old.toWorker),
           new.fromWorker = Append(old.fromWorker, Signal("ready")),
           new.active = old.dynamic, new.running = old.running, new.dynamic = old.dynamic,
           new.executing = old.executing, new.killKey = old.killKey
    PROVE  Accounted(new) /\ Orderly(new) /\ Tasks(new) \subseteq Tasks(old)
<1>1. old.toWorker \in Seq(ToWorker) /\ old.fromWorker \in Seq(ToMain) /\ old.executing \in Nat
      /\ Signal("ready") \in ToMain /\ Signal("ready").kind = "ready"
  BY PortsTyped DEF Thread, Signal, ToMain
<1>2. \A t \in Task : Signal("ready") # Sent("response", t)
  BY SignalCarriesNone
<1>3. /\ Carried(new.toWorker, "task") \subseteq Carried(old.toWorker, "task")
      /\ Once(new.toWorker, "task")
  BY <1>1, PortRead DEF Accounted
<1>4. /\ Carried(new.fromWorker, "response") = Carried(old.fromWorker, "response")
      /\ Once(new.fromWorker, "response")
  BY <1>1, <1>2, PortWritten DEF Accounted
<1>5. Tasks(new) \subseteq Tasks(old)
  BY <1>3, <1>4 DEF Tasks
<1>6. IsFiniteSet(Tasks(new)) /\ Cardinality(Tasks(new)) <= new.executing
  BY <1>1, <1>5, FewerTasks DEF Accounted
<1>7. Accounted(new)
  BY <1>3, <1>4, <1>6 DEF Accounted
<1>8. ~Lacks(old.toWorker, "startup")
  BY <1>1, KindsRead
<1>9. Lacks(old.fromWorker, "kill") /\ old.killKey = NoKey
  BY <1>8 DEF Orderly, Started
<1>10. Lacks(new.toWorker, "startup") /\ StartupFirst(new.toWorker)
  BY <1>1, KindsRead DEF Orderly
<1>11. Lacks(new.fromWorker, "kill") /\ ReadyBeforeKill(new.fromWorker)
  <2>1. "ready" # "kill"
    OBVIOUS
  <2> QED
    BY <1>1, <1>9, <2>1, KindsWritten DEF Orderly
<1>12. Orderly(new)
  BY <1>9, <1>10, <1>11 DEF Orderly, Started
<1> QED
  BY <1>5, <1>7, <1>12

(* The worker runs a task *)
LEMMA TaskSpared ==
    ASSUME NEW old \in Thread, Accounted(old), Orderly(old), NEW new, NEW t,
           old.toWorker # <<>>, Head(old.toWorker).kind = "task", Head(old.toWorker).task = t,
           new.toWorker = Tail(old.toWorker), new.running = old.running \union {t},
           new.fromWorker = old.fromWorker, new.active = old.active,
           new.dynamic = old.dynamic, new.executing = old.executing,
           new.killKey = old.killKey, new.ready = old.ready
    PROVE  Accounted(new) /\ Orderly(new) /\ Tasks(new) \subseteq Tasks(old)
<1>1. old.toWorker \in Seq(ToWorker) /\ old.executing \in Nat
  BY PortsTyped DEF Thread
<1>2. t \in Task /\ Head(old.toWorker) = Sent("task", t)
  <2>1. Head(old.toWorker) \in ToWorker
    BY <1>1
  <2> QED
    BY <2>1, TaskCarried
<1>3. /\ Carried(new.toWorker, "task") \subseteq Carried(old.toWorker, "task")
      /\ Once(new.toWorker, "task")
      /\ t \in Carried(old.toWorker, "task") /\ t \notin Carried(new.toWorker, "task")
  BY <1>1, <1>2, PortRead DEF Accounted
<1>4. Tasks(new) \subseteq Tasks(old)
  BY <1>3 DEF Tasks
<1>5. IsFiniteSet(Tasks(new)) /\ Cardinality(Tasks(new)) <= new.executing
  BY <1>1, <1>4, FewerTasks DEF Accounted
<1>6. Accounted(new)
  BY <1>3, <1>5 DEF Accounted
<1>7. /\ StartupFirst(new.toWorker)
      /\ Lacks(old.toWorker, "startup") => Lacks(new.toWorker, "startup")
  BY <1>1, KindsRead DEF Orderly
<1>8. Orderly(new)
  BY <1>4, <1>7 DEF Orderly, Started
<1> QED
  BY <1>4, <1>6, <1>8

(* The worker ends *)
LEMMA KillSpared ==
    ASSUME NEW old \in Thread, Accounted(old), Orderly(old), NEW new,
           new.toWorker = <<>>, new.running = old.running, new.active = FALSE,
           new.dynamic = old.dynamic, new.executing = old.executing,
           new.killKey = old.killKey, new.ready = old.ready,
           NEW outcome \in {"success", "failure", "none"},
           new.fromWorker = IF outcome = "none" THEN old.fromWorker
                            ELSE Append(old.fromWorker, Signal(outcome))
    PROVE  Accounted(new) /\ Orderly(new) /\ Tasks(new) \subseteq Tasks(old)
<1>1. old.fromWorker \in Seq(ToMain) /\ old.executing \in Nat
  BY PortsTyped DEF Thread
<1>2. \A kind : /\ Lacks(new.toWorker, kind) /\ Carried(new.toWorker, kind) = {}
                /\ Once(new.toWorker, kind)
  BY DEF Lacks, Carried, Once
<1>3. /\ Carried(new.fromWorker, "response") = Carried(old.fromWorker, "response")
      /\ Once(new.fromWorker, "response") /\ ReadyBeforeKill(new.fromWorker)
      /\ \A kind \in {"kill", "ready"} :
             Lacks(new.fromWorker, kind) <=> Lacks(old.fromWorker, kind)
  <2>1. CASE outcome = "none"
    BY <2>1 DEF Accounted, Orderly
  <2>2. CASE outcome # "none"
    <3>1. /\ new.fromWorker = Append(old.fromWorker, Signal(outcome))
          /\ Signal(outcome) \in ToMain /\ Signal(outcome).kind \in {"success", "failure"}
      BY <2>2 DEF Signal, ToMain
    <3>2. \A t \in Task : Signal(outcome) # Sent("response", t)
      BY SignalCarriesNone
    <3>3. /\ Carried(new.fromWorker, "response") = Carried(old.fromWorker, "response")
          /\ Once(new.fromWorker, "response")
      BY <1>1, <3>1, <3>2, PortWritten DEF Accounted
    <3>4. Signal(outcome).kind # "ready" /\ Signal(outcome).kind # "kill"
      BY <3>1
    <3>5. ReadyBeforeKill(new.fromWorker)
      BY <1>1, <3>1, <3>4, KindsWritten DEF Orderly
    <3>6. \A kind \in {"kill", "ready"} :
              Lacks(new.fromWorker, kind) <=> Lacks(old.fromWorker, kind)
      BY <1>1, <3>1, <3>4, KindsWritten
    <3> QED
      BY <3>3, <3>5, <3>6
  <2> QED
    BY <2>1, <2>2
<1>4. Tasks(new) \subseteq Tasks(old)
  BY <1>2, <1>3 DEF Tasks
<1>5. IsFiniteSet(Tasks(new)) /\ Cardinality(Tasks(new)) <= new.executing
  BY <1>1, <1>4, FewerTasks DEF Accounted
<1>6. Accounted(new)
  BY <1>2, <1>3, <1>5 DEF Accounted
<1>7. Orderly(new)
  <2>1. StartupFirst(new.toWorker)
    BY <1>2 DEF StartupFirst, Lacks
  <2> QED
    BY <1>2, <1>3, <1>4, <2>1 DEF Orderly, Started
<1> QED
  BY <1>4, <1>6, <1>7

(* A task function ends *)
LEMMA FinishSpared ==
    ASSUME NEW old \in Thread, Accounted(old), Orderly(old), NEW new, NEW t \in old.running,
           new.running = old.running \ {t},
           new.fromWorker = IF old.listening THEN Append(old.fromWorker, Sent("response", t))
                            ELSE old.fromWorker,
           new.toWorker = old.toWorker, new.active = old.active, new.dynamic = old.dynamic,
           new.executing = old.executing, new.killKey = old.killKey, new.ready = old.ready
    PROVE  Accounted(new) /\ Orderly(new) /\ Tasks(new) \subseteq Tasks(old)
<1>1. /\ old.fromWorker \in Seq(ToMain) /\ old.executing \in Nat /\ t \in Task
      /\ Sent("response", t) \in ToMain /\ Sent("response", t).kind = "response"
  BY PortsTyped DEF Thread, Sent, ToMain
<1>2. t \in Task /\ t \notin Carried(old.fromWorker, "response")
  BY <1>1 DEF Accounted
<1>3. /\ Carried(new.fromWorker, "response") \subseteq
             Carried(old.fromWorker, "response") \union {t}
      /\ Once(new.fromWorker, "response") /\ ReadyBeforeKill(new.fromWorker)
      /\ \A kind \in {"kill", "ready"} :
             Lacks(new.fromWorker, kind) <=> Lacks(old.fromWorker, kind)
  <2>1. CASE ~old.listening
    BY <2>1 DEF Accounted, Orderly
  <2>2. CASE old.listening
    <3>1. new.fromWorker = Append(old.fromWorker, Sent("response", t))
      BY <2>2
    <3>2. /\ Carried(new.fromWorker, "response") =
                 Carried(old.fromWorker, "response") \union {t}
          /\ Once(new.fromWorker, "response")
      BY <1>1, <1>2, <3>1, PortWritten DEF Accounted
    <3>3. Sent("response", t).kind # "ready" /\ Sent("response", t).kind # "kill"
      BY <1>1
    <3>4. ReadyBeforeKill(new.fromWorker)
      BY <1>1, <3>1, <3>3, KindsWritten DEF Orderly
    <3>5. \A kind \in {"kill", "ready"} :
              Lacks(new.fromWorker, kind) <=> Lacks(old.fromWorker, kind)
      BY <1>1, <3>1, <3>3, KindsWritten
    <3> QED
      BY <3>2, <3>4, <3>5
  <2> QED
    BY <2>1, <2>2
<1>4. Tasks(new) \subseteq Tasks(old)
  BY <1>3 DEF Tasks
<1>5. IsFiniteSet(Tasks(new)) /\ Cardinality(Tasks(new)) <= new.executing
  BY <1>1, <1>4, FewerTasks DEF Accounted
<1>6. Accounted(new)
  BY <1>3, <1>5 DEF Accounted
<1>7. Orderly(new)
  BY <1>3, <1>4 DEF Orderly, Started
<1> QED
  BY <1>4, <1>6, <1>7

(* The worker asks to be killed *)
LEMMA ActiveSpared ==
    ASSUME NEW old \in Thread, Accounted(old), Orderly(old), NEW new, old.active,
           new.fromWorker = Append(old.fromWorker, Signal("kill")),
           new.running = old.running, new.toWorker = old.toWorker, new.active = old.active,
           new.dynamic = old.dynamic, new.executing = old.executing,
           new.killKey = old.killKey, new.ready = old.ready
    PROVE  Accounted(new) /\ Orderly(new) /\ Tasks(new) \subseteq Tasks(old)
<1>1. old.fromWorker \in Seq(ToMain) /\ old.executing \in Nat
      /\ Signal("kill") \in ToMain /\ Signal("kill").kind = "kill"
  BY PortsTyped DEF Thread, Signal, ToMain
<1>2. \A t \in Task : Signal("kill") # Sent("response", t)
  BY SignalCarriesNone
<1>3. /\ Carried(new.fromWorker, "response") = Carried(old.fromWorker, "response")
      /\ Once(new.fromWorker, "response")
  BY <1>1, <1>2, PortWritten DEF Accounted
<1>4. Tasks(new) = Tasks(old)
  BY <1>3 DEF Tasks
<1>5. Accounted(new)
  BY <1>3, <1>4 DEF Accounted
<1>6. Signal("kill").kind # "ready"
  BY <1>1
<1>7. ReadyBeforeKill(new.fromWorker)
      /\ (Lacks(old.fromWorker, "ready") => Lacks(new.fromWorker, "ready"))
  BY <1>1, <1>6, KindsWritten DEF Orderly
<1>8. Orderly(new)
  BY <1>4, <1>7 DEF Orderly, Started
<1> QED
  BY <1>4, <1>5, <1>8

(* A message is read; one that says the worker is ready makes the node so,  *)
(* and a response gives the task back                                       *)
LEMMA ReadSpared ==
    ASSUME NEW old \in Thread, Accounted(old), Orderly(old), NEW new,
           old.fromWorker # <<>>,
           new.fromWorker = Tail(old.fromWorker),
           Head(old.fromWorker).kind # "ready" => new.ready = old.ready,
           IF Head(old.fromWorker).kind = "response" /\ old.executing > 0
           THEN new.executing = old.executing - 1 ELSE new.executing = old.executing,
           new.running = old.running, new.toWorker = old.toWorker, new.active = old.active,
           new.dynamic = old.dynamic, new.killKey = old.killKey
    PROVE  /\ Accounted(new) /\ Orderly(new) /\ Tasks(new) \subseteq Tasks(old)
           /\ Head(old.fromWorker).kind = "response" =>
                  Head(old.fromWorker).task \notin Tasks(new)
<1> DEFINE kind == Head(old.fromWorker).kind
<1>1. old.fromWorker \in Seq(ToMain) /\ old.executing \in Nat
      /\ Head(old.fromWorker) \in ToMain
  BY PortsTyped DEF Thread
<1>2. /\ Carried(new.fromWorker, "response") \subseteq Carried(old.fromWorker, "response")
      /\ Once(new.fromWorker, "response")
  BY <1>1, PortRead DEF Accounted
<1>3. Tasks(new) \subseteq Tasks(old)
  BY <1>2 DEF Tasks
<1>4. /\ IsFiniteSet(Tasks(new)) /\ Cardinality(Tasks(new)) <= new.executing
      /\ kind = "response" => Head(old.fromWorker).task \notin Tasks(new)
  <2>1. CASE kind # "response"
    <3>1. new.executing = old.executing
      BY <2>1
    <3> QED
      BY <1>1, <1>3, <2>1, <3>1, FewerTasks DEF Accounted
  <2>2. CASE kind = "response"
    <3>1. PICK t \in Task :
              t = Head(old.fromWorker).task /\ Head(old.fromWorker) = Sent("response", t)
      BY <1>1, <2>2, TaskCarried
    <3>2. t \in Carried(old.fromWorker, "response") /\ t \notin Carried(new.fromWorker, "response")
      BY <1>1, <3>1, PortRead DEF Accounted
    <3>3. t \in Tasks(old) /\ t \notin Tasks(new)
      BY <3>2 DEF Accounted, Tasks
    <3>4. old.executing > 0 /\ IsFiniteSet(Tasks(old) \ {t})
          /\ Cardinality(Tasks(old) \ {t}) <= old.executing - 1
      BY <1>1, <3>3, OneTaskLess DEF Accounted
    <3>5. old.executing - 1 \in Nat /\ new.executing = old.executing - 1
      BY <1>1, <2>2, <3>4
    <3>6. Tasks(new) \subseteq Tasks(old) \ {t}
      BY <1>3, <3>3
    <3>7. IsFiniteSet(Tasks(new)) /\ Cardinality(Tasks(new)) <= old.executing - 1
      BY <3>4, <3>5, <3>6, FewerTasks
    <3> QED
      BY <3>1, <3>3, <3>5, <3>7
  <2> QED
    BY <2>1, <2>2
<1>5. Accounted(new)
  BY <1>2, <1>4 DEF Accounted
<1>6. /\ ReadyBeforeKill(new.fromWorker)
      /\ \A other : Lacks(old.fromWorker, other) => Lacks(new.fromWorker, other)
      /\ Lacks(old.fromWorker, "ready") => kind # "ready"
  BY <1>1, KindsRead DEF Orderly
<1>7. Orderly(new)
  BY <1>3, <1>6 DEF Orderly, Started
<1> QED
  BY <1>3, <1>4, <1>5, <1>7

(* The node is given a task *)
LEMMA ExecuteSpared ==
    ASSUME NEW old \in Thread, Accounted(old), Orderly(old), NEW new, NEW t \in Task,
           t \notin Tasks(old), old.ready,
           new.toWorker = IF old.listening THEN Append(old.toWorker, Sent("task", t))
                          ELSE old.toWorker,
           new.executing = old.executing + 1, new.fromWorker = old.fromWorker,
           new.running = old.running, new.active = old.active, new.dynamic = old.dynamic,
           new.killKey = old.killKey
    PROVE  Accounted(new) /\ Orderly(new) /\ Tasks(new) \subseteq Tasks(old) \union {t}
<1>1. old.toWorker \in Seq(ToWorker) /\ old.executing \in Nat
      /\ Sent("task", t) \in ToWorker /\ Sent("task", t).kind = "task"
  BY PortsTyped DEF Thread, Sent, ToWorker
<1>2. t \notin Carried(old.toWorker, "task") /\ t \notin old.running
      /\ t \notin Carried(old.fromWorker, "response")
  BY DEF Tasks
<1>3. /\ Carried(new.toWorker, "task") \subseteq Carried(old.toWorker, "task") \union {t}
      /\ Once(new.toWorker, "task") /\ StartupFirst(new.toWorker)
      /\ Lacks(old.toWorker, "startup") => Lacks(new.toWorker, "startup")
  <2>1. CASE ~old.listening
    BY <2>1 DEF Accounted, Orderly
  <2>2. CASE old.listening
    <3>1. new.toWorker = Append(old.toWorker, Sent("task", t))
      BY <2>2
    <3>2. /\ Carried(new.toWorker, "task") = Carried(old.toWorker, "task") \union {t}
          /\ Once(new.toWorker, "task")
      BY <1>1, <1>2, <3>1, PortWritten DEF Accounted
    <3>3. Sent("task", t).kind # "startup"
      BY <1>1
    <3>4. /\ StartupFirst(new.toWorker)
          /\ Lacks(old.toWorker, "startup") => Lacks(new.toWorker, "startup")
      BY <1>1, <3>1, <3>3, KindsWritten DEF Orderly
    <3> QED
      BY <3>2, <3>4
  <2> QED
    BY <2>1, <2>2
<1>4. Tasks(new) \subseteq Tasks(old) \union {t}
  BY <1>3 DEF Tasks
<1>5. IsFiniteSet(Tasks(new)) /\ Cardinality(Tasks(new)) <= new.executing
  <2>1. IsFiniteSet(Tasks(old) \union {t})
        /\ Cardinality(Tasks(old) \union {t}) <= old.executing + 1
    BY <1>1, OneMoreTask DEF Accounted
  <2>2. new.executing \in Nat /\ Cardinality(Tasks(old) \union {t}) <= new.executing
    BY <1>1, <2>1
  <2> QED
    BY <1>4, <2>1, <2>2, FewerTasks
<1>6. Accounted(new)
  BY <1>2, <1>3, <1>5 DEF Accounted
<1>7. new.killKey = NoKey
  BY DEF Orderly
<1>8. Orderly(new)
  BY <1>3, <1>7 DEF Orderly, Started
<1> QED
  BY <1>4, <1>6, <1>8

(* A dynamic worker that asked for it is told to end *)
LEMMA DestroyedSpared ==
    ASSUME NEW old \in Thread, Accounted(old), Orderly(old), NEW new,
           Started(old), Lacks(old.fromWorker, "ready"),
           KillBehavior = "SOFT" => Tasks(old) = {},
           new.toWorker = IF old.listening THEN Append(old.toWorker, Signal("kill"))
                          ELSE old.toWorker,
           new.ready = FALSE, new.executing = old.executing, new.fromWorker = old.fromWorker,
           new.running = old.running, new.active = old.active, new.dynamic = old.dynamic
    PROVE  Accounted(new) /\ Orderly(new) /\ Tasks(new) \subseteq Tasks(old)
<1>1. old.toWorker \in Seq(ToWorker)
      /\ Signal("kill") \in ToWorker /\ Signal("kill").kind = "kill"
  BY PortsTyped DEF Signal, ToWorker
<1>2. /\ Carried(new.toWorker, "task") = Carried(old.toWorker, "task")
      /\ Once(new.toWorker, "task") /\ StartupFirst(new.toWorker)
      /\ Lacks(new.toWorker, "startup")
  <2>1. CASE ~old.listening
    BY <2>1 DEF Accounted, Orderly, Started
  <2>2. CASE old.listening
    <3>1. new.toWorker = Append(old.toWorker, Signal("kill"))
      BY <2>2
    <3>2. \A t \in Task : Signal("kill") # Sent("task", t)
      BY SignalCarriesNone
    <3>3. /\ Carried(new.toWorker, "task") = Carried(old.toWorker, "task")
          /\ Once(new.toWorker, "task")
      BY <1>1, <3>1, <3>2, PortWritten DEF Accounted
    <3>4. Signal("kill").kind # "startup"
      BY <1>1
    <3>5. StartupFirst(new.toWorker) /\ Lacks(new.toWorker, "startup")
      BY <1>1, <3>1, <3>4, KindsWritten DEF Orderly, Started
    <3> QED
      BY <3>3, <3>5
  <2> QED
    BY <2>1, <2>2
<1>3. Tasks(new) = Tasks(old)
  BY <1>2 DEF Tasks
<1>4. Accounted(new)
  BY <1>2, <1>3 DEF Accounted
<1>5. Orderly(new)
  BY <1>2, <1>3 DEF Orderly, Started
<1> QED
  BY <1>3, <1>4, <1>5

-----------------------------------------------------------------------------
(* Steps of a pool in use *)

(* The inductive invariant; while a pool is destroyed keys change hands *)
SpareInv == status = "started" => Spared(pool, entry, promise)

(* The pool while it is in use *)
InUse == SizeInv /\ WaitedFor /\ SpareInv /\ status = "started" /\ Max <= Min + 1

LEMMA UsedPool ==
    ASSUME InUse
    PROVE  /\ pool \in PoolState /\ Sound(pool) /\ Fits(pool, "started") /\ Fits(pool, status)
           /\ Spared(pool, entry, promise)
           /\ pool.nodes \in Seq(Worker) /\ pool.node \in [Worker -> Thread]
           /\ pool = [nodes |-> pool.nodes, node |-> pool.node] /\ Members(pool) \subseteq Worker
           /\ \A w \in Worker : pool.node[w] # NoNode =>
                 /\ w \in Members(pool) /\ pool.node[w] \in Thread
                 /\ Accounted(pool.node[w]) /\ Orderly(pool.node[w])
<1>1. pool \in PoolState /\ Sound(pool) /\ Fits(pool, "started") /\ Fits(pool, status)
      /\ Spared(pool, entry, promise)
  BY DEF InUse, SizeInv, SpareInv, Fits, Sound
<1>2. \A w \in Worker : pool.node[w] # NoNode => w \in Members(pool) /\ pool.node[w] \in Thread
  BY InPool DEF InUse
<1> QED
  BY <1>1, <1>2, PoolTyped DEF Spared

(* A step of one worker's thread keeps what holds of the pool *)
LEMMA ThreadStepSpared ==
    ASSUME InUse, NEW w \in Members(pool), Other(pool', pool, w),
           pool'.node[w].dynamic = pool.node[w].dynamic, UNCHANGED <<status, entry, promise>>,
           Accounted(pool'.node[w]), Orderly(pool'.node[w]),
           Tasks(pool'.node[w]) \subseteq Tasks(pool.node[w])
    PROVE  SpareInv'
<1>1. Spared(pool', entry, promise)
  BY UsedPool, ThreadSpared
<1> QED
  BY <1>1 DEF SpareInv

LEMMA WorkerMessageSpared ==
    ASSUME InUse, NEW w \in Worker, WorkerMessage(w)
    PROVE  SpareInv'
<1> DEFINE old == pool.node[w]
           new == pool'.node[w]
           read == [pool EXCEPT !.node[w].toWorker = Tail(@)]
           goal == /\ Other(pool', pool, w) /\ new.dynamic = old.dynamic
                   /\ Accounted(new) /\ Orderly(new) /\ Tasks(new) \subseteq Tasks(old)
<1>1. old.toWorker # <<>> /\ UNCHANGED <<status, entry, promise>>
  BY DEF WorkerMessage
<1>2. w \in Members(pool) /\ old \in Thread /\ Accounted(old) /\ Orderly(old)
  BY <1>1, UsedPool, NoNodeTyped
<1>3. /\ pool.nodes \in Seq(Worker) /\ pool.node \in [Worker -> Thread]
      /\ Members(pool) \subseteq Worker /\ pool = [nodes |-> pool.nodes, node |-> pool.node]
  BY UsedPool
<1>4. CASE /\ Head(old.toWorker).kind = "startup"
           /\ pool' = [read EXCEPT !.node[w].fromWorker = Append(@, Signal("ready")),
                                   !.node[w].active = read.node[w].dynamic]
  <2>1. Other(pool', pool, w)
    BY <1>3, <1>4 DEF Other
  <2>2. new = [old EXCEPT !.toWorker = Tail(@), !.fromWorker = Append(@, Signal("ready")),
                          !.active = old.dynamic]
    <3>1. read.node[w] = [old EXCEPT !.toWorker = Tail(@)] /\ read.node[w].dynamic = old.dynamic
      BY <1>2, <1>3 DEF Thread
    <3> QED
      BY <1>2, <1>3, <1>4, <3>1 DEF Thread
  <2> HIDE DEF new
  <2>3. /\ new.toWorker = Tail(old.toWorker)
        /\ new.fromWorker = Append(old.fromWorker, Signal("ready"))
        /\ new.active = old.dynamic /\ new.running = old.running /\ new.dynamic = old.dynamic
        /\ new.executing = old.executing /\ new.killKey = old.killKey
    <3> HIDE DEF old
    <3> QED
      BY <1>2, <2>2 DEF Thread
  <2>4. Accounted(new) /\ Orderly(new) /\ Tasks(new) \subseteq Tasks(old)
    BY <1>1, <1>2, <1>4, <2>3, StartupSpared
  <2> QED
    BY <1>1, <1>2, <2>1, <2>3, <2>4, ThreadStepSpared DEF new
<1>5. CASE /\ Head(old.toWorker).kind = "task"
           /\ pool' = [read EXCEPT !.node[w].running = @ \union {Head(old.toWorker).task}]
  <2>1. Other(pool', pool, w)
    BY <1>3, <1>5 DEF Other
  <2>2. new = [old EXCEPT !.toWorker = Tail(@),
                          !.running = @ \union {Head(old.toWorker).task}]
    BY <1>2, <1>3, <1>5 DEF Thread
  <2> HIDE DEF new
  <2>3. /\ new.toWorker = Tail(old.toWorker)
        /\ new.running = old.running \union {Head(old.toWorker).task}
        /\ new.fromWorker = old.fromWorker /\ new.active = old.active
        /\ new.dynamic = old.dynamic /\ new.executing = old.executing
        /\ new.killKey = old.killKey /\ new.ready = old.ready
    <3> HIDE DEF old
    <3> QED
      BY <1>2, <2>2 DEF Thread
  <2>4. Accounted(new) /\ Orderly(new) /\ Tasks(new) \subseteq Tasks(old)
    BY <1>1, <1>2, <1>5, <2>3, TaskSpared
  <2> QED
    BY <1>1, <1>2, <2>1, <2>3, <2>4, ThreadStepSpared DEF new
<1>6. ASSUME NEW outcome \in KillOutcome,
             pool' = [read EXCEPT
                       !.node[w].active = FALSE,
                       !.node[w].listening = FALSE,
                       !.node[w].toWorker = <<>>,
                       !.node[w].fromWorker =
                           IF outcome = "none" THEN @ ELSE Append(@, Signal(outcome))]
      PROVE  SpareInv'
  <2>1. Other(pool', pool, w)
    BY <1>3, <1>6 DEF Other
  <2>2. new = [old EXCEPT !.active = FALSE, !.listening = FALSE, !.toWorker = <<>>,
                          !.fromWorker = IF outcome = "none" THEN @
                                         ELSE Append(@, Signal(outcome))]
    BY <1>2, <1>3, <1>6 DEF Thread
  <2> HIDE DEF new
  <2>3. /\ new.toWorker = <<>> /\ new.running = old.running /\ new.active = FALSE
        /\ new.fromWorker = IF outcome = "none" THEN old.fromWorker
                            ELSE Append(old.fromWorker, Signal(outcome))
        /\ new.dynamic = old.dynamic /\ new.executing = old.executing
        /\ new.killKey = old.killKey /\ new.ready = old.ready
    <3> HIDE DEF old
    <3> QED
      BY <1>2, <2>2 DEF Thread
  <2>4. outcome \in {"success", "failure", "none"}
    BY DynamicPoolAssumption
  <2>5. Accounted(new) /\ Orderly(new) /\ Tasks(new) \subseteq Tasks(old)
    BY <1>2, <2>3, <2>4, KillSpared
  <2> QED
    BY <1>1, <1>2, <2>1, <2>3, <2>5, ThreadStepSpared DEF new
<1> QED
  BY <1>4, <1>5, <1>6 DEF WorkerMessage

LEMMA WorkerFinishSpared ==
    ASSUME InUse, NEW w \in Worker, NEW t \in Task, WorkerFinish(w, t)
    PROVE  SpareInv'
<1> DEFINE old == pool.node[w]
           new == pool'.node[w]
<1>1. t \in old.running /\ UNCHANGED <<status, entry, promise>>
  BY DEF WorkerFinish
<1>2. w \in Members(pool) /\ old \in Thread /\ Accounted(old) /\ Orderly(old)
  BY <1>1, UsedPool, NoNodeTyped
<1>3. /\ pool.nodes \in Seq(Worker) /\ pool.node \in [Worker -> Thread]
      /\ Members(pool) \subseteq Worker /\ pool = [nodes |-> pool.nodes, node |-> pool.node]
  BY UsedPool
<1>4. pool' = [pool EXCEPT
          !.node[w].running = @ \ {t},
          !.node[w].fromWorker = IF old.listening THEN Append(@, Sent("response", t)) ELSE @]
  BY DEF WorkerFinish, Sent
<1>5. Other(pool', pool, w)
  BY <1>3, <1>4 DEF Other
<1>6. new = [old EXCEPT !.running = @ \ {t},
                        !.fromWorker = IF old.listening THEN Append(@, Sent("response", t))
                                       ELSE @]
  BY <1>2, <1>3, <1>4 DEF Thread
<1> HIDE DEF new
<1>7. /\ new.running = old.running \ {t}
      /\ new.fromWorker = IF old.listening THEN Append(old.fromWorker, Sent("response", t))
                          ELSE old.fromWorker
      /\ new.toWorker = old.toWorker /\ new.active = old.active
      /\ new.dynamic = old.dynamic /\ new.executing = old.executing
      /\ new.killKey = old.killKey /\ new.ready = old.ready
  <2> HIDE DEF old
  <2> QED
    BY <1>2, <1>6 DEF Thread
<1>8. Accounted(new) /\ Orderly(new) /\ Tasks(new) \subseteq Tasks(old)
  BY <1>1, <1>2, <1>7, FinishSpared
<1> QED
  BY <1>1, <1>2, <1>5, <1>7, <1>8, ThreadStepSpared DEF new

LEMMA CheckActiveSpared ==
    ASSUME InUse, NEW w \in Worker, CheckActive(w)
    PROVE  SpareInv'
<1> DEFINE old == pool.node[w]
           new == pool'.node[w]
<1>1. /\ old.active /\ UNCHANGED <<status, entry, promise>>
      /\ pool' = [pool EXCEPT !.node[w].fromWorker = Append(@, Signal("kill"))]
  BY DEF CheckActive
<1>2. w \in Members(pool) /\ old \in Thread /\ Accounted(old) /\ Orderly(old)
  BY <1>1, UsedPool, NoNodeTyped
<1>3. /\ pool.nodes \in Seq(Worker) /\ pool.node \in [Worker -> Thread]
      /\ Members(pool) \subseteq Worker /\ pool = [nodes |-> pool.nodes, node |-> pool.node]
  BY UsedPool
<1>4. Other(pool', pool, w)
  BY <1>1, <1>3 DEF Other
<1>5. new = [old EXCEPT !.fromWorker = Append(@, Signal("kill"))]
  BY <1>1, <1>2, <1>3 DEF Thread
<1> HIDE DEF new
<1>6. /\ new.fromWorker = Append(old.fromWorker, Signal("kill"))
      /\ new.running = old.running /\ new.toWorker = old.toWorker /\ new.active = old.active
      /\ new.dynamic = old.dynamic /\ new.executing = old.executing
      /\ new.killKey = old.killKey /\ new.ready = old.ready
  <2> HIDE DEF old
  <2> QED
    BY <1>2, <1>5 DEF Thread
<1>7. Accounted(new) /\ Orderly(new) /\ Tasks(new) \subseteq Tasks(old)
  BY <1>1, <1>2, <1>6, ActiveSpared
<1> QED
  BY <1>1, <1>2, <1>4, <1>6, <1>7, ThreadStepSpared DEF new

LEMMA KillListenedSpared ==
    ASSUME InUse, NEW s, Fits(s, "started"), NEW keys, NEW promises,
           Spared(s, keys, promises), NEW w \in Members(pool), NEW kind, kind # "failure",
           w \in Members(s), s.node[w].dynamic = pool.node[w].dynamic
    PROVE  Spared(KillListened(s, w, kind), keys, promises)
<1>1. CASE pool.node[w].killKey = NoKey
  BY <1>1 DEF KillListened
<1>2. CASE pool.node[w].killKey # NoKey
  <2>1. s.node[w].dynamic
    BY <1>2, UsedPool DEF Spared, Orderly, Started
  <2>2. Spared(Terminated(s, w), keys, promises)
    BY <2>1, TerminatedSpared DEF InUse
  <2> QED
    BY <2>2 DEF KillListened
<1> QED
  BY <1>1, <1>2

LEMMA ReceivedThread ==
    ASSUME InUse, NEW w \in Worker, NEW kind, FromWorker(w, kind)
    PROVE  /\ w \in Members(pool) /\ pool.node[w] \in Thread
           /\ Accounted(pool.node[w]) /\ Orderly(pool.node[w])
           /\ Other(Received(w), pool, w) /\ Received(w) \in PoolState
           /\ Fits(Received(w), "started") /\ Members(Received(w)) = Members(pool)
           /\ Received(w).node[w] = [pool.node[w] EXCEPT !.fromWorker = Tail(@)]
           /\ pool.node[w].fromWorker # <<>> /\ Head(pool.node[w].fromWorker).kind = kind
           /\ Head(pool.node[w].fromWorker) \in ToMain
<1>1. Fits(pool, "started") /\ pool.node \in [Worker -> Thread]
      /\ pool = [nodes |-> pool.nodes, node |-> pool.node]
  BY UsedPool
<1>2. /\ w \in Members(pool) /\ Fits(Received(w), "started")
      /\ Members(Received(w)) = Members(pool) /\ Head(pool.node[w].fromWorker) \in ToMain
  BY <1>1, ReceivedFits
<1>3. pool.node[w] \in Thread /\ Accounted(pool.node[w]) /\ Orderly(pool.node[w])
  BY <1>2, UsedPool DEF Spared
<1>4. Other(Received(w), pool, w)
  BY <1>1 DEF Received, Other
<1>5. Received(w).node[w] = [pool.node[w] EXCEPT !.fromWorker = Tail(@)]
  BY <1>1, <1>3 DEF Received, Thread
<1> QED
  BY <1>2, <1>3, <1>4, <1>5 DEF FromWorker, Fits, Sound

LEMMA WorkerReadySpared ==
    ASSUME InUse, NEW w \in Worker, WorkerReady(w)
    PROVE  SpareInv'
<1> DEFINE old == pool.node[w]
           r == Received(w)
           s == [r EXCEPT !.node[w].ready = @ \/ status # "destroying"]
           new == s.node[w]
<1>1. FromWorker(w, "ready") /\ UNCHANGED <<status, entry, promise>>
      /\ pool' = KillListened(s, w, "ready")
  BY DEF WorkerReady
<1>2. /\ w \in Members(pool) /\ old \in Thread /\ Accounted(old) /\ Orderly(old)
      /\ Other(r, pool, w) /\ r \in PoolState /\ Fits(r, "started")
      /\ Members(r) = Members(pool) /\ r.node[w] = [old EXCEPT !.fromWorker = Tail(@)]
      /\ old.fromWorker # <<>> /\ Head(old.fromWorker).kind = "ready"
  BY <1>1, ReceivedThread
<1> HIDE DEF r
<1>3. /\ r.node \in [Worker -> Thread] /\ r = [nodes |-> r.nodes, node |-> r.node]
      /\ Members(pool) \subseteq Worker /\ r.node[w] \in Thread
  BY <1>2, PoolTyped
<1>4. Other(s, r, w)
  BY <1>2, <1>3 DEF Other
<1>5. new = [r.node[w] EXCEPT !.ready = TRUE]
  <2>1. status # "destroying"
    BY DEF InUse
  <2>2. s = [r EXCEPT !.node[w].ready = TRUE]
    BY <1>3, <2>1
  <2> HIDE DEF s
  <2> QED
    BY <1>3, <2>2 DEF Thread
<1>6. s = Updated(r, w, new)
  <2> DEFINE b == r.node[w].ready \/ status # "destroying"
             thread == [r.node[w] EXCEPT !.ready = b]
  <2>1. s = [r EXCEPT !.node = [r.node EXCEPT ![w] = thread]]
    OBVIOUS
  <2> HIDE DEF s, thread
  <2>2. s = Updated(r, w, thread)
    BY <1>2, <2>1, NodeReplaced
  <2>3. s.node[w] = thread
    BY <1>3, <2>2 DEF Updated
  <2> QED
    BY <2>2, <2>3
<1> HIDE DEF s, new
<1>7. /\ new.fromWorker = Tail(old.fromWorker) /\ new.ready = TRUE
      /\ new.executing = old.executing /\ new.running = old.running
      /\ new.toWorker = old.toWorker /\ new.active = old.active
      /\ new.dynamic = old.dynamic /\ new.killKey = old.killKey
  <2> HIDE DEF old
  <2> QED
    BY <1>2, <1>3, <1>5 DEF Thread
<1>8. Accounted(new) /\ Orderly(new) /\ Tasks(new) \subseteq Tasks(old)
  BY <1>2, <1>7, ReadSpared
<1>9. Fits(s, "started") /\ Members(s) = Members(pool)
  <2>1. Milder(new, r.node[w])
    BY <1>3, <1>5, MilderUpdates
  <2> QED
    BY <1>2, <1>6, <2>1, MilderFits
<1>10. Other(s, pool, w) /\ s.node[w] = new
  BY <1>2, <1>4 DEF Other, new
<1>11. Spared(s, entry, promise)
  BY <1>2, <1>7, <1>8, <1>10, UsedPool, ThreadSpared
<1>12. Spared(KillListened(s, w, "ready"), entry, promise)
  BY <1>2, <1>7, <1>9, <1>10, <1>11, KillListenedSpared
<1> QED
  BY <1>1, <1>12 DEF SpareInv

LEMMA KillAnswerSpared ==
    ASSUME InUse, NEW w \in Worker, KillAnswer(w)
    PROVE  SpareInv'
<1> DEFINE old == pool.node[w]
           s == Received(w)
           new == s.node[w]
<1>1. PICK outcome \in {"success", "failure"} :
          FromWorker(w, outcome) /\ pool' = KillListened(s, w, outcome)
  BY DEF KillAnswer
<1>2. UNCHANGED <<status, entry, promise>>
  BY DEF KillAnswer
<1>3. /\ w \in Members(pool) /\ old \in Thread /\ Accounted(old) /\ Orderly(old)
      /\ Other(s, pool, w) /\ Fits(s, "started")
      /\ Members(s) = Members(pool) /\ new = [old EXCEPT !.fromWorker = Tail(@)]
      /\ old.fromWorker # <<>> /\ Head(old.fromWorker).kind = outcome
  BY <1>1, ReceivedThread
<1>4. outcome # "failure"
  <2>1. old.fromWorker \in Seq(ToMain)
    BY <1>3, PortsTyped
  <2>2. Head(old.fromWorker) = old.fromWorker[1] /\ 1 \in DOMAIN old.fromWorker
    BY <1>3, <2>1
  <2> QED
    BY <1>3, <2>2 DEF InUse, WaitedFor, NoFailure
<1> HIDE DEF s, new
<1>5. /\ new.fromWorker = Tail(old.fromWorker) /\ new.ready = old.ready
      /\ new.executing = old.executing /\ new.running = old.running
      /\ new.toWorker = old.toWorker /\ new.active = old.active
      /\ new.dynamic = old.dynamic /\ new.killKey = old.killKey
  <2> HIDE DEF old
  <2> QED
    BY <1>3 DEF Thread
<1>6. Accounted(new) /\ Orderly(new) /\ Tasks(new) \subseteq Tasks(old)
  <2>1. Head(old.fromWorker).kind # "response" /\ Head(old.fromWorker).kind # "ready"
    BY <1>3
  <2> HIDE DEF old
  <2> QED
    BY <1>3, <1>5, <2>1, ReadSpared
<1>7. Spared(s, entry, promise)
  BY <1>3, <1>5, <1>6, UsedPool, ThreadSpared DEF new
<1>8. Spared(KillListened(s, w, outcome), entry, promise)
  BY <1>3, <1>4, <1>5, <1>7, KillListenedSpared DEF new
<1> QED
  BY <1>1, <1>2, <1>8 DEF SpareInv

LEMMA KillTimeoutSpared ==
    ASSUME InUse, NEW w \in Worker, KillTimeout(w)
    PROVE  SpareInv'
<1>1. /\ pool.node[w].killKey # NoKey /\ pool' = Terminated(pool, w)
      /\ UNCHANGED <<status, entry, promise>>
  BY DEF KillTimeout
<1>2. w \in Members(pool) /\ pool.node[w].dynamic
  BY <1>1, UsedPool, NoNodeTyped DEF Orderly, Started
<1>3. Spared(pool', entry, promise)
  BY <1>1, <1>2, UsedPool, TerminatedSpared DEF InUse
<1> QED
  BY <1>1, <1>3 DEF SpareInv

(* The thread of a worker that is posted a message *)
LEMMA PostedThread ==
    ASSUME NEW s \in PoolState, NEW w \in Worker, NEW m
    PROVE  /\ Other(Posted(s, w, m), s, w)
           /\ Posted(s, w, m).node[w] =
                  [s.node[w] EXCEPT !.toWorker = IF s.node[w].listening THEN Append(@, m) ELSE @]
<1>1. /\ s.node \in [Worker -> Thread] /\ s = [nodes |-> s.nodes, node |-> s.node]
      /\ Members(s) \subseteq Worker /\ s.node[w] \in Thread
  BY PoolTyped
<1>2. Other(Posted(s, w, m), s, w)
  BY <1>1 DEF Posted, Other
<1>3. CASE s.node[w].listening
  <2>1. Posted(s, w, m) = [s EXCEPT !.node[w].toWorker = Append(@, m)]
    BY <1>3 DEF Posted
  <2> QED
    BY <1>1, <1>2, <1>3, <2>1
<1>4. CASE ~s.node[w].listening
  <2>1. Posted(s, w, m) = s
    BY <1>4 DEF Posted
  <2> QED
    BY <1>1, <1>2, <1>4, <2>1 DEF Thread
<1> QED
  BY <1>2, <1>3, <1>4

LEMMA KillRequestSpared ==
    ASSUME InUse, NEW w \in Worker, KillRequest(w)
    PROVE  SpareInv'
<1> DEFINE old == pool.node[w]
           r == Received(w)
           read == r.node[w]
           killed == KillBehavior = "HARD" \/ IsIdle(r, w)
           s == IF killed THEN Destroyed(r, w) ELSE r
<1>1. FromWorker(w, "kill") /\ UNCHANGED <<status, entry, promise>>
      /\ pool' = KillListened(s, w, "kill")
  BY DEF KillRequest, InUse
<1>2. /\ w \in Members(pool) /\ old \in Thread /\ Accounted(old) /\ Orderly(old)
      /\ Other(r, pool, w) /\ r \in PoolState /\ Fits(r, "started")
      /\ Members(r) = Members(pool) /\ read = [old EXCEPT !.fromWorker = Tail(@)]
      /\ old.fromWorker # <<>> /\ Head(old.fromWorker).kind = "kill"
  BY <1>1, ReceivedThread
<1> HIDE DEF r
<1>3. /\ r.node \in [Worker -> Thread] /\ r = [nodes |-> r.nodes, node |-> r.node]
      /\ Members(pool) \subseteq Worker /\ read \in Thread
  BY <1>2, PoolTyped
<1> HIDE DEF read
<1>4. /\ read.fromWorker = Tail(old.fromWorker) /\ read.ready = old.ready
      /\ read.executing = old.executing /\ read.running = old.running
      /\ read.toWorker = old.toWorker /\ read.active = old.active
      /\ read.dynamic = old.dynamic /\ read.killKey = old.killKey
  <2> HIDE DEF old
  <2> QED
    BY <1>2 DEF Thread
<1>5. Accounted(read) /\ Orderly(read) /\ Tasks(read) \subseteq Tasks(old)
  BY <1>2, <1>4, ReadSpared
<1>6. Spared(r, entry, promise)
  BY <1>2, <1>4, <1>5, UsedPool, ThreadSpared DEF read
<1>7. Started(read) /\ Lacks(read.fromWorker, "ready")
  <2>1. old.fromWorker \in Seq(ToMain)
    BY <1>2, PortsTyped
  <2>2. ~Lacks(old.fromWorker, "kill") /\ Lacks(old.fromWorker, "ready")
        /\ Lacks(Tail(old.fromWorker), "ready")
    BY <1>2, <2>1, KindsRead DEF Orderly
  <2> QED
    BY <1>2, <1>4, <2>2 DEF Orderly, Started
<1>8. ASSUME killed PROVE Spared(Destroyed(r, w), entry, promise)
  <2> DEFINE key == IF read.killKey = NoKey THEN KeyOf(r, w) ELSE read.killKey
             p == [r EXCEPT !.node[w].ready = FALSE, !.node[w].killKey = key]
             q == Destroyed(r, w)
             new == q.node[w]
  <2>1. q = Posted(p, w, Signal("kill"))
    <3>1. p = [r EXCEPT !.node[w].ready = FALSE,
                        !.node[w].killKey = IF @ = NoKey THEN KeyOf(r, w) ELSE @]
      BY <1>3 DEF Thread, read
    <3> HIDE DEF p
    <3> QED
      BY <3>1 DEF Destroyed
  <2>2. key \in Nat
    BY <1>2, <1>3, KeyOfPositive DEF Fits, Thread
  <2> HIDE DEF key
  <2>3. Other(p, r, w) /\ p.node[w] = [read EXCEPT !.ready = FALSE, !.killKey = key]
    BY <1>2, <1>3 DEF Other, read
  <2>4. p \in PoolState /\ p.node[w] \in Thread
    <3> DEFINE first == [read EXCEPT !.ready = FALSE]
               second == [first EXCEPT !.killKey = key]
               o == [r EXCEPT !.node[w].ready = FALSE]
    <3>1. o = [r EXCEPT !.node = [r.node EXCEPT ![w] = first]]
      BY DEF read
    <3>2. first \in Thread /\ second \in Thread
      BY <1>3, <2>2 DEF Thread
    <3>3. p = [o EXCEPT !.node[w].killKey = key]
      OBVIOUS
    <3> HIDE DEF p, o, first
    <3>4. o = Updated(r, w, first) /\ o \in PoolState /\ o.node[w] = first
      <4>1. o = Updated(r, w, first)
        BY <1>2, <3>1, NodeReplaced
      <4> QED
        BY <1>2, <3>2, <4>1, UpdatedAgain
    <3>5. p = [o EXCEPT !.node = [o.node EXCEPT ![w] = second]]
      BY <3>3, <3>4
    <3> HIDE DEF second
    <3>6. p = Updated(o, w, second)
      BY <3>4, <3>5, NodeReplaced
    <3> QED
      BY <3>2, <3>4, <3>6, UpdatedAgain
  <2> HIDE DEF p, q
  <2>5. Other(q, p, w) /\ new = [p.node[w] EXCEPT !.toWorker =
                                    IF p.node[w].listening THEN Append(@, Signal("kill")) ELSE @]
    BY <2>1, <2>4, PostedThread DEF q
  <2>6. Other(q, r, w)
    BY <2>3, <2>5 DEF Other, Members
  <2>7. /\ p.node[w].ready = FALSE /\ p.node[w].executing = read.executing
        /\ p.node[w].fromWorker = read.fromWorker /\ p.node[w].running = read.running
        /\ p.node[w].active = read.active /\ p.node[w].dynamic = read.dynamic
        /\ p.node[w].toWorker = read.toWorker /\ p.node[w].listening = read.listening
    BY <1>3, <2>3 DEF Thread
  <2> HIDE DEF new
  <2>8. /\ new.toWorker = IF read.listening THEN Append(read.toWorker, Signal("kill"))
                          ELSE read.toWorker
        /\ new.ready = FALSE /\ new.executing = read.executing
        /\ new.fromWorker = read.fromWorker /\ new.running = read.running
        /\ new.active = read.active /\ new.dynamic = read.dynamic
    BY <2>4, <2>5, <2>7 DEF Thread
  <2>9. ASSUME KillBehavior = "SOFT" PROVE Tasks(read) = {}
    <3>1. read.executing = 0
      BY <1>8, <2>9 DEF IsIdle, read
    <3>2. IsFiniteSet(Tasks(read)) /\ Cardinality(Tasks(read)) <= 0
      BY <1>5, <3>1 DEF Accounted
    <3>3. Cardinality(Tasks(read)) = 0
      BY <3>2, FS_CardinalityType
    <3> QED
      BY <3>2, <3>3, FS_EmptySet
  <2>10. Accounted(new) /\ Orderly(new) /\ Tasks(new) \subseteq Tasks(read)
    BY <1>3, <1>5, <1>7, <2>8, <2>9, DestroyedSpared
  <2>11. Spared(q, entry, promise)
    BY <1>2, <1>6, <2>6, <2>8, <2>10, ThreadSpared DEF new, read
  <2> QED
    BY <2>11 DEF q
<1>9. /\ Fits(s, "started") /\ w \in Members(s) /\ Spared(s, entry, promise)
      /\ s.node[w].dynamic = old.dynamic
  <2>1. CASE killed
    <3>1. /\ Fits(Destroyed(r, w), "started") /\ Members(Destroyed(r, w)) = Members(r)
          /\ Milder(Destroyed(r, w).node[w], r.node[w])
      BY <1>2, DestroyedFits
    <3>2. Destroyed(r, w).node[w].dynamic = old.dynamic
      BY <1>4, <3>1 DEF Milder, read
    <3> QED
      BY <1>2, <1>8, <2>1, <3>1, <3>2
  <2>2. CASE ~killed
    BY <1>2, <1>4, <1>6, <2>2 DEF read
  <2> QED
    BY <2>1, <2>2
<1> HIDE DEF s
<1>10. Spared(KillListened(s, w, "kill"), entry, promise)
  BY <1>2, <1>9, KillListenedSpared
<1> QED
  BY <1>1, <1>10 DEF SpareInv

LEMMA TaskExecutionResponseSpared ==
    ASSUME InUse, NEW w \in Worker, TaskExecutionResponse(w)
    PROVE  SpareInv'
<1> DEFINE old == pool.node[w]
           r == Received(w)
           read == r.node[w]
           t == Head(old.fromWorker).task
           u == Unexecute(r, entry[t])
           new == u.node[w]
           s == DynamicWorkerIfNeeded(u)
<1>1. /\ FromWorker(w, "response") /\ pool' = KillListened(s, w, "response")
      /\ entry' = [entry EXCEPT ![t] = NoKey] /\ promise' = [promise EXCEPT ![t] = "settled"]
  BY DEF TaskExecutionResponse
<1>2. /\ w \in Members(pool) /\ old \in Thread /\ Accounted(old) /\ Orderly(old)
      /\ Other(r, pool, w) /\ r \in PoolState /\ Fits(r, "started")
      /\ Members(r) = Members(pool) /\ read = [old EXCEPT !.fromWorker = Tail(@)]
      /\ old.fromWorker # <<>> /\ Head(old.fromWorker).kind = "response"
      /\ Head(old.fromWorker) \in ToMain
  BY <1>1, ReceivedThread
<1>3. t \in Task /\ t \in Tasks(old)
  <2>1. t \in Task /\ Head(old.fromWorker) = Sent("response", t)
    BY <1>2, TaskCarried
  <2>2. old.fromWorker \in Seq(ToMain)
    BY <1>2, PortsTyped
  <2>3. t \in Carried(old.fromWorker, "response")
    BY <1>2, <2>1, <2>2, PortRead DEF Accounted
  <2> QED
    BY <2>1, <2>3 DEF Tasks
<1>4. entry[t] \in DOMAIN pool.nodes /\ pool.nodes[entry[t]] = w
  BY <1>2, <1>3, UsedPool DEF Spared
<1> HIDE DEF r, t
<1>5. /\ r.node \in [Worker -> Thread] /\ r = [nodes |-> r.nodes, node |-> r.node]
      /\ Members(pool) \subseteq Worker /\ read \in Thread /\ r.nodes = pool.nodes
  BY <1>2, PoolTyped DEF Other
<1>6. u = IF read.executing > 0 THEN [r EXCEPT !.node[w].executing = @ - 1] ELSE r
  BY <1>4, <1>5 DEF Unexecute
<1> HIDE DEF u
<1>7. Other(u, r, w)
  BY <1>5, <1>6 DEF Other, Members
<1>8. new = IF read.executing > 0 THEN [read EXCEPT !.executing = @ - 1] ELSE read
  BY <1>5, <1>6
<1> HIDE DEF new, read
<1>9. /\ read.executing = old.executing /\ read.fromWorker = Tail(old.fromWorker)
      /\ read.ready = old.ready /\ read.running = old.running
      /\ read.toWorker = old.toWorker /\ read.active = old.active
      /\ read.dynamic = old.dynamic /\ read.killKey = old.killKey
  <2> HIDE DEF old
  <2> QED
    BY <1>2 DEF Thread
<1>10. /\ IF old.executing > 0 THEN new.executing = old.executing - 1
          ELSE new.executing = old.executing
       /\ new.fromWorker = Tail(old.fromWorker)
       /\ new.ready = old.ready /\ new.running = old.running
       /\ new.toWorker = old.toWorker /\ new.active = old.active
       /\ new.dynamic = old.dynamic /\ new.killKey = old.killKey
  <2> HIDE DEF old
  <2> QED
    BY <1>5, <1>8, <1>9 DEF Thread
<1>11. /\ Accounted(new) /\ Orderly(new) /\ Tasks(new) \subseteq Tasks(old)
       /\ t \notin Tasks(new)
  BY <1>2, <1>10, ReadSpared DEF t
<1>12. Fits(u, "started") /\ Members(u) = Members(pool)
  BY <1>2, UnexecuteFits DEF u
<1>13. Other(u, pool, w)
  BY <1>2, <1>7 DEF Other
<1>14. Spared(u, entry, promise)
  BY <1>2, <1>10, <1>11, <1>13, UsedPool, ThreadSpared DEF new
<1>15. Spared(u, entry', promise')
  <2>1. ASSUME NEW v \in Members(u)
        PROVE  t \notin Tasks(u.node[v]) /\ Tasks(u.node[v]) \subseteq Task
    <3>1. u.node[v] \in Thread
      BY <1>12, MemberThread DEF Fits
    <3>2. t \notin Tasks(u.node[v])
      <4>1. CASE v = w
        BY <1>11, <4>1 DEF new
      <4>2. CASE v # w
        <5>1. u.node[v] = pool.node[v] /\ v \in Members(pool)
          BY <1>12, <1>13, <4>2 DEF Other
        <5> QED
          BY <1>4, <4>2, <5>1, UsedPool DEF Spared
      <4> QED
        BY <4>1, <4>2
    <3> QED
      BY <3>1, <3>2, ThreadTasks
  <2>2. \A v \in Task \ {t} : entry'[v] = entry[v] /\ promise'[v] = promise[v]
    BY <1>1 DEF InUse, SizeInv, TypeOK
  <2> QED
    BY <1>14, <2>1, <2>2, KeysSpared
<1>16. /\ Spared(s, entry', promise') /\ w \in Members(s) /\ s.node[w].dynamic = old.dynamic
       /\ Fits(s, "started")
  <2>1. Spared(s, entry', promise') /\ w \in Members(s) /\ s.node[w] = new
    BY <1>2, <1>12, <1>15, NeededSpared DEF new, InUse
  <2>2. Fits(s, "started")
    BY <1>12, NeededFits DEF InUse
  <2> QED
    BY <1>10, <2>1, <2>2
<1> HIDE DEF s
<1>17. Spared(KillListened(s, w, "response"), entry', promise')
  BY <1>2, <1>16, KillListenedSpared
<1> QED
  BY <1>1, <1>17 DEF SpareInv, u, r, s

LEMMA SubmitSpared ==
    ASSUME InUse, NEW t \in Task, Submit(t)
    PROVE  SpareInv'
<1>1. PICK s : /\ s = DynamicWorkerIfNeeded(pool)
               /\ \/ \E k \in DOMAIN s.nodes :
                      /\ s.node[s.nodes[k]].ready
                      /\ pool' = ExecuteTask(s, s.nodes[k], t)
                      /\ entry' = [entry EXCEPT ![t] = k]
                      /\ promise' = [promise EXCEPT ![t] = "pending"]
                  \/ /\ pool' = s
                     /\ promise' = [promise EXCEPT ![t] = "refused"]
                     /\ UNCHANGED entry
  BY DEF Submit
<1>2. promise[t] = "none" /\ entry \in [Task -> Nat] /\ DOMAIN promise = Task
  BY DEF Submit, InUse, SizeInv, TypeOK
<1>3. Spared(s, entry, promise) /\ Fits(s, "started")
  <2>1. Fits(s, "started")
    BY <1>1, UsedPool, NeededFits DEF InUse
  <2>2. Spared(s, entry, promise)
    BY <1>1, UsedPool, NeededSpared DEF InUse
  <2> QED
    BY <2>1, <2>2
<1>4. \A w \in Members(s) : t \notin Tasks(s.node[w]) /\ Tasks(s.node[w]) \subseteq Task
  BY <1>2, <1>3, MemberThread, ThreadTasks DEF Spared, Fits
<1>5. CASE /\ pool' = s /\ promise' = [promise EXCEPT ![t] = "refused"] /\ UNCHANGED entry
  <2>1. \A u \in Task \ {t} : entry'[u] = entry[u] /\ promise'[u] = promise[u]
    BY <1>2, <1>5
  <2>2. Spared(s, entry', promise')
    BY <1>3, <1>4, <2>1, KeysSpared
  <2> QED
    BY <1>5, <2>2 DEF SpareInv
<1>6. ASSUME NEW k \in DOMAIN s.nodes, s.node[s.nodes[k]].ready,
             pool' = ExecuteTask(s, s.nodes[k], t),
             entry' = [entry EXCEPT ![t] = k], promise' = [promise EXCEPT ![t] = "pending"]
      PROVE  SpareInv'
  <2> DEFINE w == s.nodes[k]
             old == s.node[w]
             p == [s EXCEPT !.node[w].executing = @ + 1]
             q == ExecuteTask(s, w, t)
             new == q.node[w]
  <2>1. \A u \in Task \ {t} : entry'[u] = entry[u] /\ promise'[u] = promise[u]
    BY <1>2, <1>6
  <2>2. Spared(s, entry', promise')
    BY <1>3, <1>4, <2>1, KeysSpared
  <2>3. /\ w \in Members(s) /\ w \in Worker /\ old \in Thread /\ s \in PoolState
        /\ Accounted(old) /\ Orderly(old) /\ t \notin Tasks(old)
    <3>1. w \in Members(s)
      BY DEF Members
    <3> QED
      BY <1>3, <1>4, <3>1, MemberThread DEF Fits, Sound, Spared
  <2>4. /\ s.node \in [Worker -> Thread] /\ s = [nodes |-> s.nodes, node |-> s.node]
        /\ Members(s) \subseteq Worker
    BY <2>3, PoolTyped
  <2>5. q = Posted(p, w, Sent("task", t))
    BY DEF ExecuteTask, Sent
  <2>6. entry'[t] \in DOMAIN s.nodes /\ s.nodes[entry'[t]] = w /\ promise'[t] = "pending"
    BY <1>2, <1>6
  <2>7. old.ready /\ pool' = q
    BY <1>6
  <2> HIDE DEF w
  <2>8. p = Updated(s, w, [old EXCEPT !.executing = @ + 1])
        /\ [old EXCEPT !.executing = @ + 1] \in Thread
    <3> DEFINE more == old.executing + 1
               thread == [old EXCEPT !.executing = more]
    <3>1. more \in Nat
      BY <2>3 DEF Thread
    <3>2. p = [s EXCEPT !.node[w].executing = more]
      OBVIOUS
    <3> HIDE DEF more, p
    <3>3. thread \in Thread
      BY <2>3, <3>1 DEF Thread
    <3>4. p = [s EXCEPT !.node = [s.node EXCEPT ![w] = thread]]
      BY <3>2
    <3> HIDE DEF thread
    <3>5. p = Updated(s, w, thread)
      BY <2>3, <3>4, NodeReplaced
    <3> QED
      BY <3>3, <3>5 DEF thread, more
  <2> HIDE DEF p
  <2>9. p \in PoolState /\ p.node[w] = [old EXCEPT !.executing = @ + 1]
    BY <2>3, <2>8, UpdatedAgain
  <2>10. Other(p, s, w)
    BY <2>4, <2>8 DEF Other, Updated
  <2> HIDE DEF q
  <2>11. /\ Other(q, p, w)
         /\ new = [p.node[w] EXCEPT !.toWorker =
                      IF p.node[w].listening THEN Append(@, Sent("task", t)) ELSE @]
    <3> DEFINE m == Sent("task", t)
    <3>1. q = Posted(p, w, m)
      BY <2>5
    <3> HIDE DEF m
    <3>2. /\ Other(Posted(p, w, m), p, w)
          /\ Posted(p, w, m).node[w] =
                 [p.node[w] EXCEPT !.toWorker = IF p.node[w].listening THEN Append(@, m) ELSE @]
      BY <2>3, <2>9, PostedThread
    <3> QED
      BY <3>1, <3>2 DEF m
  <2>12. Other(q, s, w)
    BY <2>10, <2>11 DEF Other, Members
  <2> HIDE DEF new
  <2>13. /\ new.toWorker = IF old.listening THEN Append(old.toWorker, Sent("task", t))
                           ELSE old.toWorker
         /\ new.executing = old.executing + 1 /\ new.fromWorker = old.fromWorker
         /\ new.running = old.running /\ new.active = old.active
         /\ new.dynamic = old.dynamic /\ new.killKey = old.killKey
    <3>1. /\ p.node[w].toWorker = old.toWorker /\ p.node[w].listening = old.listening
          /\ p.node[w].executing = old.executing + 1 /\ p.node[w].fromWorker = old.fromWorker
          /\ p.node[w].running = old.running /\ p.node[w].active = old.active
          /\ p.node[w].dynamic = old.dynamic /\ p.node[w].killKey = old.killKey
          /\ p.node[w] \in Thread
      <4> HIDE DEF old
      <4> QED
        BY <2>3, <2>8, <2>9 DEF Thread
    <3> QED
      BY <2>11, <3>1 DEF Thread
  <2>14. Accounted(new) /\ Orderly(new) /\ Tasks(new) \subseteq Tasks(old) \union {t}
    BY <2>3, <2>7, <2>13, ExecuteSpared
  <2>15. Spared(q, entry', promise')
    BY <2>2, <2>3, <2>6, <2>12, <2>13, <2>14, ThreadSpared DEF new
  <2> QED
    BY <2>7, <2>15 DEF SpareInv
<1> QED
  BY <1>1, <1>5, <1>6

(* An empty pool starts *)
LEMMA EmptySpared ==
    ASSUME NEW s, Sound(s), Members(s) = {}, NEW keys, NEW promises
    PROVE  Spared(MinimumStarted(s, TRUE), keys, promises)
<1> DEFINE r == MinimumStarted(s, TRUE)
<1>1. Spared(s, keys, promises)
  BY DEF Spared, StaticFirst, Members
<1>2. Static(s) = {} /\ Dynamic(s) = {} /\ Cardinality(Static(s)) = 0 /\ Cardinality(Dynamic(s)) = 0
  <2>1. Static(s) = {} /\ Dynamic(s) = {}
    BY DEF Static, Dynamic
  <2> QED
    BY <2>1, FS_EmptySet
<1>3. Cardinality(Static(s)) <= Min /\ Cardinality(Dynamic(s)) <= Max - Min + 1
  BY <1>2, Sizes
<1>4. PICK N \in SUBSET (Worker \ Members(s)) :
          /\ Joined(r, s, N, FALSE, TRUE)
          /\ Cardinality(Static(r)) = Min /\ Dynamic(r) = Dynamic(s)
  BY <1>3, MinimumJoins
<1> HIDE DEF r
<1>5. Sound(r) /\ r \in PoolState
  BY <1>4 DEF Joined, Sound
<1>6. Len(r.nodes) = Min /\ DOMAIN r.nodes = 1..Len(r.nodes)
  <2>1. Len(r.nodes) = Cardinality(Static(r)) + Cardinality(Dynamic(r))
        /\ DOMAIN r.nodes = 1..Len(r.nodes)
    BY <1>5, DistinctSize, PoolTyped
  <2> QED
    BY <1>2, <1>4, <2>1, Sizes
<1>7. PICK no \in BOOLEAN : no = FALSE
  OBVIOUS
<1>8. PICK yes \in BOOLEAN : yes = TRUE
  OBVIOUS
<1>9. Joined(r, s, N, no, yes) /\ \A k \in DOMAIN r.nodes \ DOMAIN s.nodes : no <=> k > Min
  <2>1. Joined(r, s, N, no, yes)
    BY <1>4, <1>7, <1>8
  <2>2. \A k \in DOMAIN r.nodes : ~(k > Min)
    BY <1>6, Sizes
  <2> QED
    BY <1>7, <2>1, <2>2
<1>10. Spared(r, keys, promises)
  BY <1>1, <1>9, JoinedSpared
<1> QED
  BY <1>10 DEF r

LEMMA StartSpared ==
    ASSUME SizeInv, WaitedFor, Start
    PROVE  SpareInv'
<1>1. pool' = MinimumStarted(pool, TRUE) /\ Sound(pool) /\ Members(pool) = {}
  BY DEF Start, SizeInv, Fits, WaitedFor
<1>2. Spared(pool', entry', promise')
  BY <1>1, EmptySpared
<1> QED
  BY <1>2 DEF SpareInv

LEMMA InitSpared == Init => SpareInv
<1> SUFFICES ASSUME Init PROVE SpareInv
  OBVIOUS
<1> DEFINE empty == [nodes |-> <<>>, node |-> [w \in Worker |-> NoNode]]
<1>1. pool = MinimumStarted(empty, TRUE)
  BY DEF Init
<1>2. empty.nodes = <<>> /\ empty.node = [w \in Worker |-> NoNode] /\ empty \in PoolState
  BY NoNodeTyped DEF PoolState
<1> HIDE DEF empty
<1>3. Members(empty) = {}
  BY <1>2 DEF Members
<1>4. Sound(empty)
  BY <1>2, <1>3 DEF Sound, Distinct
<1>5. Spared(pool, entry, promise)
  BY <1>1, <1>3, <1>4, EmptySpared
<1> QED
  BY <1>5 DEF SpareInv

LEMMA NextSpared ==
    ASSUME Max <= Min + 1, ~WorkerErrors, SizeInv, WaitedFor, SpareInv, [Next]_vars
    PROVE  SpareInv'
<1>1. CASE UNCHANGED vars
  BY <1>1 DEF vars, SpareInv, Spared, StaticFirst, Members
<1>2. CASE Start
  BY <1>2, StartSpared
<1>3. CASE Destroy \/ DestroyEnd
  BY <1>3 DEF Destroy, DestroyEnd, SpareInv
<1>4. CASE status # "started" /\ status' = status
  BY <1>4 DEF SpareInv
<1>5. ASSUME InUse, Next, ~Start, ~Destroy, ~DestroyEnd PROVE SpareInv'
  <2>1. ASSUME NEW t \in Task, Submit(t) PROVE SpareInv'
    BY <1>5, <2>1, SubmitSpared
  <2>2. ASSUME NEW w \in Worker, WorkerMessage(w) PROVE SpareInv'
    BY <1>5, <2>2, WorkerMessageSpared
  <2>3. ASSUME NEW w \in Worker, NEW t \in Task, WorkerFinish(w, t) PROVE SpareInv'
    BY <1>5, <2>3, WorkerFinishSpared
  <2>4. ASSUME NEW w \in Worker, CheckActive(w) PROVE SpareInv'
    BY <1>5, <2>4, CheckActiveSpared
  <2>5. ASSUME NEW w \in Worker, MainMessage(w) PROVE SpareInv'
    BY <1>5, <2>5, WorkerReadySpared, TaskExecutionResponseSpared, KillRequestSpared,
       KillAnswerSpared DEF MainMessage
  <2>6. ASSUME NEW w \in Worker, KillTimeout(w) PROVE SpareInv'
    BY <1>5, <2>6, KillTimeoutSpared
  <2>7. ASSUME NEW w \in Worker, WorkerError(w) PROVE SpareInv'
    BY <2>7 DEF WorkerError
  <2> QED
    BY <1>5, <2>1, <2>2, <2>3, <2>4, <2>5, <2>6, <2>7 DEF Next
<1>6. Next /\ ~Start /\ ~Destroy /\ ~DestroyEnd => status' = status
  BY DEF Next, Submit, WorkerMessage, WorkerFinish, CheckActive, MainMessage, WorkerReady,
         TaskExecutionResponse, KillRequest, KillAnswer, KillTimeout, WorkerError
<1> QED
  BY <1>1, <1>2, <1>3, <1>4, <1>5, <1>6 DEF InUse

(* A pool of static workers and one dynamic worker, none of which fails,    *)
(* kills no worker softly that has a task: no key changes hands in it, so   *)
(* that the tasks of a node are at most as many as it is accounted for, and *)
(* the worker that is killed is not ready again.                            *)
THEOREM SoftKillWaitsForTasks ==
    ASSUME Max <= Min + 1, ~WorkerErrors, "failure" \notin KillOutcome
    PROVE  Spec => []SoftKillSparesTasks
<1> DEFINE I == SizeInv /\ WaitedFor /\ SpareInv
<1>1. Init => I
  BY InitSized, InitSpared
<1>2. I /\ [Next]_vars => I'
  <2> SUFFICES ASSUME I, [Next]_vars PROVE I'
    OBVIOUS
  <2>1. SizeInv' /\ WaitedFor'
    BY NextSized
  <2>2. SpareInv'
    BY NextSpared
  <2> QED
    BY <2>1, <2>2
<1>3. I => SoftKillSparesTasks
  BY DEF SpareInv, Spared, Orderly, SoftKillSparesTasks, InFlight, Tasks
<1> QED
  BY <1>1, <1>2, <1>3, PTL DEF Spec
=============================================================================
