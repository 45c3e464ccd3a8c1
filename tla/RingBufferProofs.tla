-------------------------- MODULE RingBufferProofs --------------------------
(***************************************************************************)
(* Lemmas about the operators of RingBuffer, for every capacity: the index *)
(* arithmetic is right, and the operations do to the numbered entries what *)
(* they do to a list.                                                      *)
(***************************************************************************)
EXTENDS RingBuffer, SequenceTheorems, WellFoundedInduction, TLAPS

-----------------------------------------------------------------------------
(* Slots and positions *)

LEMMA StartOfRing ==
    ASSUME NEW q \in Ring
    PROVE  /\ Capacity \in Nat /\ Capacity > 0
           /\ q.start \in Int /\ 0 <= q.start /\ q.start < Capacity
           /\ q.size \in Int /\ 0 <= q.size /\ q.size <= Capacity
           /\ q.nodeArray \in [Slot -> Entry \union {Undefined}]
  <1>1. Capacity \in Nat /\ Capacity > 0
    BY RingBufferAssumption
  <1>2. q.start \in 0..Capacity-1 /\ q.size \in 0..Capacity
        /\ q.nodeArray \in [Slot -> Entry \union {Undefined}]
    BY DEF Ring, Slot
  <1> QED BY <1>1, <1>2

(* The slot of entry number i, and back *)
LEMMA SlotOfPosition ==
    ASSUME NEW q \in Ring, NEW i \in 0..Capacity-1
    PROVE  At(q, i) \in Slot /\ Offset(q, At(q, i)) = i
  <1> DEFINE start == q.start
  <1>1. Capacity \in Nat /\ start \in Int /\ 0 <= start /\ start < Capacity
    BY StartOfRing
  <1> HIDE DEF start
  <1>2. Wrapped(start + i) \in Int /\ 0 <= Wrapped(start + i) /\ Wrapped(start + i) < Capacity
    BY <1>1 DEF Wrapped
  <1>3. i = IF Wrapped(start + i) >= start THEN Wrapped(start + i) - start
            ELSE Wrapped(start + i) - start + Capacity
    BY <1>1 DEF Wrapped
  <1> QED BY <1>1, <1>2, <1>3 DEF start, At, Offset, Slot

LEMMA PositionOfSlot ==
    ASSUME NEW q \in Ring, NEW s \in Slot
    PROVE  Offset(q, s) \in 0..Capacity-1 /\ At(q, Offset(q, s)) = s
  <1> DEFINE start == q.start
             off == IF s >= start THEN s - start ELSE s - start + Capacity
  <1>1. Capacity \in Nat /\ start \in Int /\ 0 <= start /\ start < Capacity
    BY StartOfRing
  <1>2. s \in Int /\ 0 <= s /\ s < Capacity
    BY <1>1 DEF Slot
  <1> HIDE DEF start
  <1>3. off \in 0..Capacity-1 /\ Wrapped(start + off) = s
    BY <1>1, <1>2 DEF Wrapped
  <1> QED BY <1>3 DEF start, At, Offset

LEMMA NeighbourSlots ==
    ASSUME NEW q \in Ring, NEW s \in Slot
    PROVE  /\ Following(s) \in Slot /\ Previous(s) \in Slot
           /\ Offset(q, s) > 0 => Offset(q, Previous(s)) = Offset(q, s) - 1
           /\ Offset(q, s) < Capacity - 1 => Offset(q, Following(s)) = Offset(q, s) + 1
  <1> DEFINE start == q.start
  <1>1. Capacity \in Nat /\ start \in Int /\ 0 <= start /\ start < Capacity
    BY StartOfRing
  <1>2. s \in Int /\ 0 <= s /\ s < Capacity
    BY <1>1 DEF Slot
  <1>3. \A x : Offset(q, x) = IF x >= start THEN x - start ELSE x - start + Capacity
    BY DEF Offset
  <1> HIDE DEF start
  <1>4. Following(s) \in Slot /\ Previous(s) \in Slot
    BY <1>1, <1>2 DEF Following, Previous, Slot
  <1>5. Offset(q, s) > 0 => Offset(q, Previous(s)) = Offset(q, s) - 1
    BY <1>1, <1>2, <1>3 DEF Previous
  <1>6. Offset(q, s) < Capacity - 1 => Offset(q, Following(s)) = Offset(q, s) + 1
    BY <1>1, <1>2, <1>3 DEF Following
  <1> QED BY <1>4, <1>5, <1>6

(* After the start has moved to the following slot, every entry but the     *)
(* first has the number before.                                             *)
LEMMA NextStart ==
    ASSUME NEW q \in Ring, NEW r \in Ring, r.start = Following(q.start), NEW s \in Slot
    PROVE  Offset(r, s) = IF s = q.start THEN Capacity - 1 ELSE Offset(q, s) - 1
  <1> DEFINE start == q.start
             next == r.start
  <1>1. Capacity \in Nat /\ start \in Int /\ 0 <= start /\ start < Capacity
    BY StartOfRing
  <1>2. s \in Int /\ 0 <= s /\ s < Capacity
    BY <1>1 DEF Slot
  <1>3. next = IF start + 1 = Capacity THEN 0 ELSE start + 1
    BY DEF Following
  <1>4. /\ Offset(q, s) = IF s >= start THEN s - start ELSE s - start + Capacity
        /\ Offset(r, s) = IF s >= next THEN s - next ELSE s - next + Capacity
    BY DEF Offset
  <1> HIDE DEF start, next
  <1>5. Offset(r, s) = IF s = start THEN Capacity - 1 ELSE Offset(q, s) - 1
    BY <1>1, <1>2, <1>3, <1>4
  <1> QED BY <1>5 DEF start

LEMMA FollowingPosition ==
    ASSUME NEW q \in Ring, NEW i \in 0..Capacity-2
    PROVE  Following(At(q, i)) = At(q, i + 1)
  <1> DEFINE start == q.start
  <1>1. Capacity \in Nat /\ start \in Int /\ 0 <= start /\ start < Capacity
    BY StartOfRing
  <1> HIDE DEF start
  <1>2. Following(Wrapped(start + i)) = Wrapped(start + (i + 1))
    BY <1>1 DEF Following, Wrapped
  <1> QED BY <1>2 DEF start, At

LEMMA PreviousPosition ==
    ASSUME NEW q \in Ring, NEW i \in 1..Capacity-1
    PROVE  Previous(At(q, i)) = At(q, i - 1)
  <1> DEFINE start == q.start
  <1>1. Capacity \in Nat /\ start \in Int /\ 0 <= start /\ start < Capacity
    BY StartOfRing
  <1> HIDE DEF start
  <1>2. Previous(Wrapped(start + i)) = Wrapped(start + (i - 1))
    BY <1>1 DEF Previous, Wrapped
  <1> QED BY <1>2 DEF start, At

(* The slots with an entry are the first ones from the start *)
Live(q) == \A s \in Slot : q.nodeArray[s] # Undefined <=> Offset(q, s) < q.size

LEMMA LiveEntries ==
    ASSUME NEW q \in Ring, Live(q), NEW i \in 0..q.size-1
    PROVE  q.nodeArray[At(q, i)] \in Entry
  <1>1. i \in 0..Capacity-1
    BY RingBufferAssumption DEF Ring
  <1> QED BY <1>1, SlotOfPosition DEF Live, Ring

LEMMA EmptyRingIsLive == EmptyRing \in Ring /\ Live(EmptyRing)
  BY RingBufferAssumption DEF EmptyRing, Ring, Live, Offset, Slot

-----------------------------------------------------------------------------
(* A nonempty set of natural numbers has a least element *)
LEMMA LeastElement ==
    ASSUME NEW T, T \subseteq Nat, T # {}
    PROVE  \E x \in T : \A y \in T : x <= y
  <1> DEFINE Less == {ss \in Nat \X Nat : ss[1] < ss[2]}
  <1>1. OpToRel(<, Nat) = Less
    BY DEF OpToRel
  <1>2. IsWellFoundedOn(Less, Nat)
    BY <1>1, NatLessThanWellFounded
  <1>3. \E x \in T : \A y \in T : ~ (<<y, x>> \in Less)
    <2> HIDE DEF Less
    <2> QED BY <1>2, WFMin
  <1>4. \A x, y \in T : ~ (<<y, x>> \in Less) => x <= y
    OBVIOUS
  <1> QED BY <1>3, <1>4

-----------------------------------------------------------------------------
(* What the operations do to the entries, by number *)

LEMMA InsertionIndexType ==
    ASSUME NEW q \in Ring, NEW p, NEW prioritized
    PROVE  InsertionIndex(q, p, prioritized) \in 0..q.size
  <1> DEFINE T == Overtaken(q, p)
             k == CHOOSE i \in T : \A j \in T : i <= j
  <1>1. q.size \in Nat
    BY StartOfRing
  <1>2. T \subseteq 0..q.size-1
    BY DEF Overtaken
  <1>3. ASSUME T # {} PROVE k \in 0..q.size
    <2>1. T \subseteq Nat
      BY <1>1, <1>2
    <2>2. \E i \in T : \A j \in T : i <= j
      <3> HIDE DEF T
      <3> QED BY <1>3, <2>1, LeastElement
    <2>3. k \in T
      <3> HIDE DEF T
      <3> QED BY <2>2
    <2> QED BY <1>1, <1>2, <2>3
  <1>4. InsertionIndex(q, p, prioritized) = k \/ InsertionIndex(q, p, prioritized) = q.size
    BY DEF InsertionIndex
  <1>5. T # {} \/ InsertionIndex(q, p, prioritized) = q.size
    BY DEF InsertionIndex
  <1> HIDE DEF T, k
  <1> QED BY <1>1, <1>3, <1>4, <1>5

(* The shift towards the end makes room for exactly one entry. *)
LEMMA InsertedEffect ==
    ASSUME NEW q \in Ring, Live(q), ~Full(q), NEW k \in 0..q.size, NEW e \in Entry
    PROVE  LET r == Inserted(q, k, e)
           IN  /\ r \in Ring
               /\ Live(r)
               /\ r.size = q.size + 1
               /\ \A i \in 0..q.size : r.nodeArray[At(r, i)] =
                      IF i < k THEN q.nodeArray[At(q, i)]
                      ELSE IF i = k THEN e
                      ELSE q.nodeArray[At(q, i - 1)]
  <1> DEFINE r == Inserted(q, k, e)
             size == q.size
  <1>1. /\ Capacity \in Nat /\ q.start \in Slot
        /\ size \in Nat /\ size < Capacity
        /\ q.nodeArray \in [Slot -> Entry \union {Undefined}]
    BY StartOfRing DEF Full, Slot
  <1>2. /\ r.start = q.start /\ r.size = size + 1
        /\ \A s \in Slot : r.nodeArray[s] =
              IF Offset(q, s) = k THEN e
              ELSE IF Offset(q, s) \in k+1..size THEN q.nodeArray[Previous(s)]
              ELSE q.nodeArray[s]
        /\ DOMAIN r.nodeArray = Slot
    BY DEF Inserted
  <1>3. r \in Ring
    <2>1. \A s \in Slot : Previous(s) \in Slot
      BY NeighbourSlots
    <2>2. r.nodeArray \in [Slot -> Entry \union {Undefined}]
      BY <1>1, <2>1 DEF Inserted
    <2>3. r = [start |-> q.start, size |-> size + 1, nodeArray |-> r.nodeArray]
      BY DEF Inserted
    <2>4. size + 1 \in 0..Capacity
      BY <1>1
    <2> HIDE DEF r
    <2> QED BY <1>1, <2>2, <2>3, <2>4 DEF Ring
  <1>4. \A s : Offset(r, s) = Offset(q, s)
    BY <1>2 DEF Offset
  <1>5. \A i : At(r, i) = At(q, i)
    BY <1>2 DEF At
  <1> HIDE DEF r
  <1>6. Live(r)
    <2> SUFFICES ASSUME NEW s \in Slot
                 PROVE  r.nodeArray[s] # Undefined <=> Offset(q, s) < size + 1
      BY <1>2, <1>4 DEF Live
    <2> DEFINE o == Offset(q, s)
    <2>1. o \in 0..Capacity-1
      BY PositionOfSlot
    <2>2. e # Undefined
      BY RingBufferAssumption
    <2>3. q.nodeArray[s] # Undefined <=> o < size
      BY DEF Live
    <2>4. o > 0 => (q.nodeArray[Previous(s)] # Undefined <=> o - 1 < size)
      <3>1. Previous(s) \in Slot /\ (o > 0 => Offset(q, Previous(s)) = o - 1)
        BY NeighbourSlots
      <3> QED BY <3>1 DEF Live
    <2>5. r.nodeArray[s] = IF o = k THEN e
                           ELSE IF o \in k+1..size THEN q.nodeArray[Previous(s)]
                           ELSE q.nodeArray[s]
      BY <1>2
    <2> HIDE DEF o
    <2> QED BY <1>1, <2>1, <2>2, <2>3, <2>4, <2>5 DEF o
  <1>7. ASSUME NEW i \in 0..size
        PROVE  r.nodeArray[At(r, i)] = IF i < k THEN q.nodeArray[At(q, i)]
                                       ELSE IF i = k THEN e
                                       ELSE q.nodeArray[At(q, i - 1)]
    <2>1. i \in 0..Capacity-1
      BY <1>1
    <2>2. At(q, i) \in Slot /\ Offset(q, At(q, i)) = i
      BY <2>1, SlotOfPosition
    <2>3. i > 0 => Previous(At(q, i)) = At(q, i - 1)
      BY <2>1, PreviousPosition
    <2>4. r.nodeArray[At(q, i)] = IF i = k THEN e
                                  ELSE IF i \in k+1..size THEN q.nodeArray[Previous(At(q, i))]
                                  ELSE q.nodeArray[At(q, i)]
      BY <1>2, <2>2
    <2> QED BY <1>1, <1>5, <2>1, <2>3, <2>4
  <1> QED BY <1>2, <1>3, <1>6, <1>7 DEF r

(* The shift towards the start closes the gap. *)
LEMMA RemovedEffect ==
    ASSUME NEW q \in Ring, Live(q), NEW k \in 0..q.size-1
    PROVE  LET r == Removed(q, k)
           IN  /\ r \in Ring
               /\ Live(r)
               /\ r.size = q.size - 1
               /\ \A i \in 0..q.size-2 : r.nodeArray[At(r, i)] =
                      IF i < k THEN q.nodeArray[At(q, i)] ELSE q.nodeArray[At(q, i + 1)]
  <1> DEFINE r == Removed(q, k)
             size == q.size
  <1>1. /\ Capacity \in Nat /\ q.start \in Slot
        /\ size \in Nat /\ size > 0 /\ size <= Capacity
        /\ q.nodeArray \in [Slot -> Entry \union {Undefined}]
    BY StartOfRing DEF Slot
  <1>2. /\ r.start = q.start /\ r.size = size - 1
        /\ \A s \in Slot : r.nodeArray[s] =
              IF Offset(q, s) = size - 1 THEN Undefined
              ELSE IF Offset(q, s) \in k..size-2 THEN q.nodeArray[Following(s)]
              ELSE q.nodeArray[s]
    BY DEF Removed
  <1>3. r \in Ring
    <2>1. \A s \in Slot : Following(s) \in Slot
      BY NeighbourSlots
    <2>2. r.nodeArray \in [Slot -> Entry \union {Undefined}]
      BY <1>1, <2>1 DEF Removed
    <2>3. r = [start |-> q.start, size |-> size - 1, nodeArray |-> r.nodeArray]
      BY DEF Removed
    <2>4. size - 1 \in 0..Capacity
      BY <1>1
    <2> HIDE DEF r
    <2> QED BY <1>1, <2>2, <2>3, <2>4 DEF Ring
  <1>4. \A s : Offset(r, s) = Offset(q, s)
    BY <1>2 DEF Offset
  <1>5. \A i : At(r, i) = At(q, i)
    BY <1>2 DEF At
  <1> HIDE DEF r
  <1>6. Live(r)
    <2> SUFFICES ASSUME NEW s \in Slot
                 PROVE  r.nodeArray[s] # Undefined <=> Offset(q, s) < size - 1
      BY <1>2, <1>4 DEF Live
    <2> DEFINE o == Offset(q, s)
    <2>1. o \in 0..Capacity-1
      BY PositionOfSlot
    <2>3. q.nodeArray[s] # Undefined <=> o < size
      BY DEF Live
    <2>4. o < Capacity - 1 => (q.nodeArray[Following(s)] # Undefined <=> o + 1 < size)
      <3>1. Following(s) \in Slot /\ (o < Capacity - 1 => Offset(q, Following(s)) = o + 1)
        BY NeighbourSlots
      <3> QED BY <3>1 DEF Live
    <2>5. r.nodeArray[s] = IF o = size - 1 THEN Undefined
                           ELSE IF o \in k..size-2 THEN q.nodeArray[Following(s)]
                           ELSE q.nodeArray[s]
      BY <1>2
    <2> HIDE DEF o
    <2> QED BY <1>1, <2>1, <2>3, <2>4, <2>5 DEF o
  <1>7. ASSUME NEW i \in 0..size-2
        PROVE  r.nodeArray[At(r, i)] =
                   IF i < k THEN q.nodeArray[At(q, i)] ELSE q.nodeArray[At(q, i + 1)]
    <2>1. i \in 0..Capacity-1 /\ i + 1 \in 0..Capacity-1
      BY <1>1
    <2>2. At(q, i) \in Slot /\ Offset(q, At(q, i)) = i
      BY <2>1, SlotOfPosition
    <2>3. Following(At(q, i)) = At(q, i + 1)
      BY <1>1, <2>1, FollowingPosition
    <2>4. r.nodeArray[At(q, i)] = IF i = size - 1 THEN Undefined
                                  ELSE IF i \in k..size-2 THEN q.nodeArray[Following(At(q, i))]
                                  ELSE q.nodeArray[At(q, i)]
      BY <1>2, <2>2
    <2> QED BY <1>1, <1>5, <2>1, <2>3, <2>4
  <1> QED BY <1>2, <1>3, <1>6, <1>7 DEF r

(* Moving the start makes the second entry the first. *)
LEMMA DequeuedEffect ==
    ASSUME NEW q \in Ring, Live(q), ~Empty(q)
    PROVE  LET r == Dequeued(q)
           IN  /\ r \in Ring
               /\ Live(r)
               /\ r.size = q.size - 1
               /\ \A i \in 0..q.size-2 : r.nodeArray[At(r, i)] = q.nodeArray[At(q, i + 1)]
  <1> DEFINE r == Dequeued(q)
             size == q.size
  <1>1. /\ Capacity \in Nat /\ q.start \in Slot
        /\ size \in Nat /\ size > 0 /\ size <= Capacity
        /\ q.nodeArray \in [Slot -> Entry \union {Undefined}]
    BY StartOfRing DEF Slot, Empty
  <1>2. /\ r.start = Following(q.start) /\ r.size = size - 1
        /\ r.nodeArray = [q.nodeArray EXCEPT ![q.start] = Undefined]
    BY DEF Dequeued
  <1>3. r \in Ring
    <2>1. Following(q.start) \in Slot
      BY <1>1, NeighbourSlots
    <2>2. r.nodeArray \in [Slot -> Entry \union {Undefined}]
      BY <1>1, <1>2
    <2>3. r = [start |-> r.start, size |-> size - 1, nodeArray |-> r.nodeArray]
      BY DEF Dequeued
    <2>4. size - 1 \in 0..Capacity
      BY <1>1
    <2> HIDE DEF r
    <2> QED BY <1>2, <2>1, <2>2, <2>3, <2>4 DEF Ring
  <1>4. \A s \in Slot : Offset(r, s) = IF s = q.start THEN Capacity - 1 ELSE Offset(q, s) - 1
    BY <1>2, <1>3, NextStart
  <1> HIDE DEF r
  <1>5. Live(r)
    <2> SUFFICES ASSUME NEW s \in Slot
                 PROVE  r.nodeArray[s] # Undefined <=> Offset(r, s) < size - 1
      BY <1>2 DEF Live
    <2>1. Offset(q, s) \in 0..Capacity-1
      BY PositionOfSlot
    <2>2. q.nodeArray[s] # Undefined <=> Offset(q, s) < size
      BY DEF Live
    <2> QED BY <1>1, <1>2, <1>4, <2>1, <2>2
  <1>6. ASSUME NEW i \in 0..size-2
        PROVE  r.nodeArray[At(r, i)] = q.nodeArray[At(q, i + 1)]
    <2>1. i \in 0..Capacity-1 /\ i + 1 \in 0..Capacity-1
      BY <1>1
    <2>2. At(q, i + 1) \in Slot /\ Offset(q, At(q, i + 1)) = i + 1
      BY <2>1, SlotOfPosition
    <2>3. At(q, i + 1) # q.start
      <3>1. Offset(q, q.start) = 0
        BY <1>1 DEF Offset, Slot
      <3> QED BY <2>1, <2>2, <3>1
    <2>4. Offset(r, At(q, i + 1)) = i
      BY <1>4, <2>1, <2>2, <2>3
    <2>5. At(r, i) = At(q, i + 1)
      BY <1>3, <2>2, <2>4, PositionOfSlot
    <2> QED BY <1>1, <1>2, <2>2, <2>3, <2>5
  <1> QED BY <1>2, <1>3, <1>5, <1>6 DEF r

(* Growing older moves nothing. *)
LEMMA AgedEffect ==
    ASSUME NEW q \in Ring, Live(q)
    PROVE  LET r == Aged(q)
           IN  /\ r \in Ring
               /\ Live(r)
               /\ r.size = q.size
               /\ \A i \in 0..q.size-1 :
                      r.nodeArray[At(r, i)].data = q.nodeArray[At(q, i)].data
  <1> DEFINE r == Aged(q)
  <1>1. /\ r.start = q.start /\ r.size = q.size
        /\ r.nodeArray = [s \in Slot |-> Older(q.nodeArray[s])]
        /\ r = [start |-> q.start, size |-> q.size, nodeArray |-> r.nodeArray]
    BY DEF Aged, Ring
  <1>2. q.nodeArray \in [Slot -> Entry \union {Undefined}]
    BY StartOfRing
  <1>3. \A x \in Entry : Older(x) \in Entry /\ Older(x).data = x.data
    BY RingBufferAssumption DEF Entry, Older
  <1>4. Older(Undefined) = Undefined /\ Undefined \notin Entry
    BY RingBufferAssumption DEF Older
  <1> HIDE DEF r
  <1>5. r.nodeArray \in [Slot -> Entry \union {Undefined}]
    BY <1>1, <1>2, <1>3, <1>4
  <1>6. r \in Ring
    BY <1>1, <1>5 DEF Ring
  <1>7. \A s : Offset(r, s) = Offset(q, s)
    BY <1>1 DEF Offset
  <1>8. Live(r)
    <2> SUFFICES ASSUME NEW s \in Slot
                 PROVE  r.nodeArray[s] # Undefined <=> Offset(q, s) < q.size
      BY <1>1, <1>7 DEF Live
    <2>1. q.nodeArray[s] # Undefined <=> Offset(q, s) < q.size
      BY DEF Live
    <2>2. r.nodeArray[s] # Undefined <=> q.nodeArray[s] # Undefined
      BY <1>1, <1>2, <1>3, <1>4
    <2> QED BY <2>1, <2>2
  <1>9. ASSUME NEW i \in 0..q.size-1
        PROVE  r.nodeArray[At(r, i)].data = q.nodeArray[At(q, i)].data
    <2>1. At(r, i) = At(q, i)
      BY <1>1 DEF At
    <2>2. i \in 0..Capacity-1
      BY StartOfRing
    <2>3. At(q, i) \in Slot
      BY <2>2, SlotOfPosition
    <2> QED BY <1>1, <1>3, <2>1, <2>3, LiveEntries
  <1> QED BY <1>1, <1>6, <1>8, <1>9 DEF r
LEMMA NewEntryType ==
    ASSUME NEW d \in Data, NEW p \in Priority
    PROVE  NewEntry(d, p) \in Entry /\ NewEntry(d, p).data = d
  BY RingBufferAssumption DEF NewEntry, Entry

(* The entry that `delete` finds is the first that holds the data. *)
LEMMA FirstIndex ==
    ASSUME NEW q \in Ring, NEW d, IndicesOf(q, d) # {}
    PROVE  (CHOOSE k \in IndicesOf(q, d) : \A j \in IndicesOf(q, d) : k <= j)
               \in IndicesOf(q, d)
  <1> DEFINE T == IndicesOf(q, d)
  <1>1. T \subseteq Nat
    BY StartOfRing DEF IndicesOf
  <1>2. T # {}
    OBVIOUS
  <1> HIDE DEF T
  <1>3. \E k \in T : \A j \in T : k <= j
    BY <1>1, <1>2, LeastElement
  <1>4. (CHOOSE k \in T : \A j \in T : k <= j) \in T
    BY <1>3
  <1> QED BY <1>4 DEF T

LEMMA ItemsSeq ==
    ASSUME NEW q \in Ring, Live(q)
    PROVE  /\ Items(q) \in Seq(Data)
           /\ Len(Items(q)) = q.size
           /\ \A i \in 1..q.size : Items(q)[i] = q.nodeArray[At(q, i - 1)].data
  <1>1. q.size \in Nat
    BY StartOfRing
  <1>2. ASSUME NEW i \in 1..q.size PROVE q.nodeArray[At(q, i - 1)].data \in Data
    <2>1. i - 1 \in 0..q.size-1
      BY <1>1
    <2> QED BY <2>1, LiveEntries DEF Entry
  <1>3. Items(q) \in [1..q.size -> Data]
    BY <1>2 DEF Items
  <1>4. \A i \in 1..q.size : Items(q)[i] = q.nodeArray[At(q, i - 1)].data
    BY DEF Items
  <1>5. Items(q) \in Seq(Data)
    BY <1>1, <1>3
  <1>6. Len(Items(q)) = q.size
    BY <1>1, <1>3, <1>5, LenProperties
  <1> QED BY <1>4, <1>5, <1>6

(* The items of a ring are a list.  A list with x at position k, or without *)
(* its element number k:                                                    *)
WithAt(l, k, x) ==
    [i \in 1..Len(l)+1 |-> IF i < k THEN l[i] ELSE IF i = k THEN x ELSE l[i - 1]]
WithoutAt(l, k) == [i \in 1..Len(l)-1 |-> IF i < k THEN l[i] ELSE l[i + 1]]

LEMMA InsertedItems ==
    ASSUME NEW q \in Ring, Live(q), ~Full(q), NEW k \in 0..q.size, NEW e \in Entry
    PROVE  Items(Inserted(q, k, e)) = WithAt(Items(q), k + 1, e.data)
  <1> DEFINE r == Inserted(q, k, e)
  <1>1. /\ r \in Ring /\ Live(r) /\ r.size = q.size + 1
        /\ \A i \in 0..q.size : r.nodeArray[At(r, i)] =
               IF i < k THEN q.nodeArray[At(q, i)]
               ELSE IF i = k THEN e
               ELSE q.nodeArray[At(q, i - 1)]
    BY InsertedEffect
  <1> HIDE DEF r
  <1>2. /\ Len(Items(q)) = q.size /\ q.size \in Nat
        /\ \A i \in 1..q.size : Items(q)[i] = q.nodeArray[At(q, i - 1)].data
    BY ItemsSeq, StartOfRing
  <1>3. ASSUME NEW i \in 1..q.size+1
        PROVE  r.nodeArray[At(r, i - 1)].data =
                   IF i < k + 1 THEN Items(q)[i]
                   ELSE IF i = k + 1 THEN e.data ELSE Items(q)[i - 1]
    <2>1. i - 1 \in 0..q.size
      BY <1>2
    <2>2. CASE i < k + 1
      <3>1. i \in 1..q.size /\ i - 1 < k
        BY <1>2, <2>2
      <3> QED BY <1>1, <1>2, <2>1, <2>2, <3>1
    <2>3. CASE i = k + 1
      BY <1>1, <2>1, <2>3
    <2>4. CASE i > k + 1
      <3>1. i - 1 \in 1..q.size /\ i - 1 > k /\ ~(i < k + 1) /\ i # k + 1
        BY <1>2, <2>4
      <3>2. r.nodeArray[At(r, i - 1)] = q.nodeArray[At(q, i - 1 - 1)]
        BY <1>1, <2>1, <3>1
      <3>3. Items(q)[i - 1] = q.nodeArray[At(q, i - 1 - 1)].data
        BY <1>2, <3>1
      <3> QED BY <3>1, <3>2, <3>3
    <2> QED BY <1>2, <2>2, <2>3, <2>4
  <1>4. Items(r) = [i \in 1..q.size+1 |-> r.nodeArray[At(r, i - 1)].data]
    BY <1>1 DEF Items
  <1>5. WithAt(Items(q), k + 1, e.data) =
            [i \in 1..q.size+1 |-> IF i < k + 1 THEN Items(q)[i]
                                   ELSE IF i = k + 1 THEN e.data ELSE Items(q)[i - 1]]
    BY <1>2 DEF WithAt
  <1>6. Items(r) = WithAt(Items(q), k + 1, e.data)
    BY <1>3, <1>4, <1>5
  <1> QED BY <1>6 DEF r

LEMMA RemovedItems ==
    ASSUME NEW q \in Ring, Live(q), NEW k \in 0..q.size-1
    PROVE  Items(Removed(q, k)) = WithoutAt(Items(q), k + 1)
  <1> DEFINE r == Removed(q, k)
  <1>1. /\ r \in Ring /\ Live(r) /\ r.size = q.size - 1
        /\ \A i \in 0..q.size-2 : r.nodeArray[At(r, i)] =
               IF i < k THEN q.nodeArray[At(q, i)] ELSE q.nodeArray[At(q, i + 1)]
    BY RemovedEffect
  <1> HIDE DEF r
  <1>2. /\ Len(Items(q)) = q.size /\ q.size \in Nat
        /\ \A i \in 1..q.size : Items(q)[i] = q.nodeArray[At(q, i - 1)].data
    BY ItemsSeq, StartOfRing
  <1>3. ASSUME NEW i \in 1..q.size-1
        PROVE  r.nodeArray[At(r, i - 1)].data =
                   IF i < k + 1 THEN Items(q)[i] ELSE Items(q)[i + 1]
    <2>1. /\ i - 1 \in 0..q.size-2 /\ i \in 1..q.size /\ i + 1 \in 1..q.size
          /\ (i - 1 < k <=> i < k + 1) /\ i - 1 + 1 = i /\ i + 1 - 1 = i
      BY <1>2
    <2>2. r.nodeArray[At(r, i - 1)] =
              IF i < k + 1 THEN q.nodeArray[At(q, i - 1)] ELSE q.nodeArray[At(q, i)]
      BY <1>1, <2>1
    <2>3. /\ Items(q)[i] = q.nodeArray[At(q, i - 1)].data
          /\ Items(q)[i + 1] = q.nodeArray[At(q, i)].data
      BY <1>2, <2>1
    <2> QED BY <2>2, <2>3
  <1>4. Items(r) = [i \in 1..q.size-1 |-> r.nodeArray[At(r, i - 1)].data]
    BY <1>1 DEF Items
  <1>5. WithoutAt(Items(q), k + 1) =
            [i \in 1..q.size-1 |-> IF i < k + 1 THEN Items(q)[i] ELSE Items(q)[i + 1]]
    BY <1>2 DEF WithoutAt
  <1>6. Items(r) = WithoutAt(Items(q), k + 1)
    BY <1>3, <1>4, <1>5
  <1> QED BY <1>6 DEF r

LEMMA DequeuedItems ==
    ASSUME NEW q \in Ring, Live(q), ~Empty(q)
    PROVE  Items(q) # <<>> /\ Items(Dequeued(q)) = Tail(Items(q))
           /\ Head(Items(q)) = q.nodeArray[q.start].data
  <1> DEFINE r == Dequeued(q)
  <1>1. /\ r.size = q.size - 1
        /\ \A i \in 0..q.size-2 : r.nodeArray[At(r, i)] = q.nodeArray[At(q, i + 1)]
    BY DequeuedEffect
  <1> HIDE DEF r
  <1>2. /\ Items(q) \in Seq(Data) /\ Len(Items(q)) = q.size /\ q.size \in Nat /\ q.size > 0
        /\ \A i \in 1..q.size : Items(q)[i] = q.nodeArray[At(q, i - 1)].data
    BY ItemsSeq, StartOfRing DEF Empty
  <1>3. At(q, 0) = q.start
    BY StartOfRing DEF At, Wrapped
  <1>4. Items(q) # <<>> /\ Head(Items(q)) = q.nodeArray[q.start].data
    BY <1>2, <1>3
  <1>5. ASSUME NEW i \in 1..q.size-1
        PROVE  r.nodeArray[At(r, i - 1)].data = Items(q)[i + 1]
    <2>1. i - 1 \in 0..q.size-2 /\ i + 1 \in 1..q.size /\ i - 1 + 1 = i /\ i + 1 - 1 = i
      BY <1>2
    <2>2. r.nodeArray[At(r, i - 1)] = q.nodeArray[At(q, i - 1 + 1)]
      BY <1>1, <2>1
    <2>3. Items(q)[i + 1] = q.nodeArray[At(q, i + 1 - 1)].data
      BY <1>2, <2>1
    <2> QED BY <2>1, <2>2, <2>3
  <1>6. Items(r) = [i \in 1..q.size-1 |-> r.nodeArray[At(r, i - 1)].data]
    BY <1>1 DEF Items
  <1>7. Tail(Items(q)) = [i \in 1..q.size-1 |-> Items(q)[i + 1]]
    <2> DEFINE t == Tail(Items(q))
    <2>1. t \in Seq(Data) /\ Len(t) = q.size - 1
          /\ \A i \in 1..Len(t) : t[i] = Items(q)[i + 1]
      BY <1>2, <1>4, HeadTailProperties
    <2> HIDE DEF t
    <2>2. DOMAIN t = 1..q.size-1 /\ t \in [1..Len(t) -> Data]
      BY <2>1, LenProperties
    <2>3. t = [i \in 1..q.size-1 |-> Items(q)[i + 1]]
      BY <2>1, <2>2
    <2> QED BY <2>3 DEF t
  <1> QED BY <1>4, <1>5, <1>6, <1>7 DEF r
=============================================================================
