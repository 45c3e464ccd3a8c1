-------------------------- MODULE FixedQueueProofs --------------------------
(***************************************************************************)
(* Theorems about FixedQueue, for every capacity, set of data, set of      *)
(* priorities and aging factor: its types, what its slots hold, that it    *)
(* implements a list, and the order in which it serves.                    *)
(***************************************************************************)
EXTENDS FixedQueue, RingBufferProofs

-----------------------------------------------------------------------------
(* Invariants of FixedQueue *)

IInv == TypeOK /\ Live(queue)

LEMMA InvariantStep == IInv /\ [Next]_vars => IInv'
  <1> SUFFICES ASSUME IInv, [Next]_vars PROVE IInv'
    OBVIOUS
  <1>0. queue \in Ring /\ Live(queue)
    BY DEF IInv, TypeOK
  <1>1. ASSUME NEW d \in Data, NEW p \in Priority, Enqueue(d, p) PROVE IInv'
    <2> DEFINE k == InsertionIndex(queue, p, EnablePriority)
    <2>1. k \in 0..queue.size
      BY <1>0, InsertionIndexType
    <2>2. ~Full(queue) /\ queue' = Inserted(queue, k, NewEntry(d, p))
          /\ result' = <<"enqueue", d>>
      BY <1>1 DEF Enqueue, Enqueued
    <2> HIDE DEF k
    <2>3. queue' \in Ring /\ Live(queue')
      BY <1>0, <2>1, <2>2, NewEntryType, InsertedEffect
    <2> QED BY <2>2, <2>3 DEF IInv, TypeOK, Live
  <1>2. CASE Dequeue
    <2>1. CASE Empty(queue)
      BY <1>2, <2>1 DEF Dequeue, IInv, TypeOK, Live
    <2>2. CASE ~Empty(queue)
      <3>1. queue' \in Ring /\ Live(queue')
        BY <1>0, <1>2, <2>2, DequeuedEffect DEF Dequeue
      <3>2. 0 \in 0..queue.size-1 /\ At(queue, 0) = queue.start
        BY <1>0, <2>2, StartOfRing DEF Empty, At, Wrapped
      <3>3. queue.nodeArray[queue.start] \in Entry
        BY <1>0, <3>2, LiveEntries
      <3>4. result' = <<"dequeue", queue.nodeArray[queue.start].data>>
        BY <1>2, <2>2 DEF Dequeue
      <3>5. queue.nodeArray[queue.start].data \in Data
        BY <3>3 DEF Entry
      <3> QED BY <3>1, <3>4, <3>5 DEF IInv, TypeOK, Live
    <2> QED BY <2>1, <2>2
  <1>3. ASSUME NEW d \in Data, Delete(d) PROVE IInv'
    <2>1. result' = <<"delete", d>>
      BY <1>3 DEF Delete
    <2>2. CASE ~Holds(d)
      BY <1>0, <1>3, <2>1, <2>2 DEF Delete, IInv, TypeOK, Live
    <2>3. CASE Holds(d)
      <3> DEFINE k == CHOOSE i \in IndicesOf(queue, d) : \A j \in IndicesOf(queue, d) : i <= j
      <3>1. k \in IndicesOf(queue, d)
        BY <1>0, <2>3, FirstIndex DEF Holds
      <3>2. queue' = Removed(queue, k)
        BY <1>3, <2>3 DEF Delete, DeletedFrom
      <3> HIDE DEF k
      <3>3. k \in 0..queue.size-1
        BY <3>1 DEF IndicesOf
      <3>4. queue' \in Ring /\ Live(queue')
        BY <1>0, <3>2, <3>3, RemovedEffect
      <3> QED BY <2>1, <3>4 DEF IInv, TypeOK, Live
    <2> QED BY <2>2, <2>3
  <1>4. CASE Tick
    <2>1. queue' \in Ring /\ Live(queue')
      BY <1>0, <1>4, AgedEffect DEF Tick
    <2> QED BY <1>4, <2>1 DEF Tick, IInv, TypeOK, Live
  <1>5. CASE Clear
    <2>1. queue' \in Ring /\ Live(queue')
      BY <1>5, EmptyRingIsLive DEF Clear
    <2> QED BY <1>5, <2>1 DEF Clear, IInv, TypeOK, Live
  <1>6. CASE UNCHANGED vars
    BY <1>6 DEF vars, IInv, TypeOK, Live
  <1> QED BY <1>1, <1>2, <1>3, <1>4, <1>5, <1>6 DEF Next

LEMMA Invariance == Spec => []IInv
  <1>1. Init => IInv
    BY EmptyRingIsLive DEF Init, IInv, TypeOK
  <1> QED BY <1>1, InvariantStep, PTL DEF Spec

(* Types of the state, for a fixed queue of any capacity. *)
THEOREM TypeCorrect == Spec => []TypeOK
  BY Invariance, PTL DEF IInv

(* The wrapped indices of enqueue, dequeue and delete lose no entry and     *)
(* keep none that has left, for a fixed queue of any capacity.              *)
THEOREM LiveSlotsCorrect == Spec => []LiveSlots
  <1>1. IInv => LiveSlots
    BY DEF IInv, LiveSlots, Live
  <1> QED BY <1>1, Invariance, PTL

-----------------------------------------------------------------------------
(* FixedQueue implements ListQueue *)

LEMMA ListOperators ==
    ASSUME NEW l, NEW k, NEW x
    PROVE  List!WithAt(l, k, x) = WithAt(l, k, x) /\ List!WithoutAt(l, k) = WithoutAt(l, k)
  BY DEF List!WithAt, WithAt, List!WithoutAt, WithoutAt

LEMMA StepImplements == IInv /\ [Next]_vars => [List!Next]_<<items, result>>
  <1> SUFFICES ASSUME IInv, [Next]_vars PROVE [List!Next]_<<items, result>>
    OBVIOUS
  <1> DEFINE before == Items(queue)
             after == Items(queue')
  <1>0. queue \in Ring /\ Live(queue) /\ IInv'
    BY InvariantStep DEF IInv, TypeOK
  <1>a. items = before /\ items' = after
    BY DEF items
  <1>b. /\ before \in Seq(Data) /\ Len(before) = queue.size /\ queue.size \in Nat
        /\ DOMAIN before = 1..queue.size
        /\ \A i \in 1..queue.size : before[i] = queue.nodeArray[At(queue, i - 1)].data
    BY <1>0, ItemsSeq, StartOfRing
  <1>c. \A d : IndicesOf(queue, d) = {i \in 0..queue.size-1 : before[i + 1] = d}
    <2> SUFFICES ASSUME NEW i \in 0..queue.size-1
                 PROVE  before[i + 1] = queue.nodeArray[At(queue, i)].data
      BY DEF IndicesOf
    <2>1. i + 1 \in 1..queue.size /\ i + 1 - 1 = i
      BY <1>b
    <2> QED BY <1>b, <2>1
  <1>d. List!Operation(before, after) => List!Next
    BY <1>a DEF List!Next
  <1> HIDE DEF before
  <1>1. ASSUME NEW d \in Data, NEW p \in Priority, Enqueue(d, p)
        PROVE  List!Put(before, after)
    <2> DEFINE k == InsertionIndex(queue, p, EnablePriority)
    <2>1. k \in 0..queue.size /\ (~EnablePriority => k = queue.size)
      BY <1>0, InsertionIndexType DEF InsertionIndex
    <2>2. ~Full(queue) /\ ~Holds(d) /\ queue' = Inserted(queue, k, NewEntry(d, p))
          /\ result' = <<"enqueue", d>>
      BY <1>1 DEF Enqueue, Enqueued
    <2> HIDE DEF k
    <2>3. after = List!WithAt(before, k + 1, d)
      BY <1>0, <2>1, <2>2, NewEntryType, InsertedItems, ListOperators DEF before
    <2> HIDE DEF after
    <2>4. \A i \in DOMAIN before : before[i] # d
      <3> SUFFICES ASSUME NEW i \in 1..queue.size, before[i] = d PROVE FALSE
        BY <1>b
      <3>1. i - 1 \in 0..queue.size-1 /\ i - 1 + 1 = i
        BY <1>b
      <3> QED BY <1>c, <2>2, <3>1 DEF Holds
    <2>5. k + 1 \in 1..Len(before)+1 /\ (~EnablePriority => k + 1 = Len(before) + 1)
      BY <1>b, <2>1
    <2> QED BY <2>2, <2>3, <2>4, <2>5 DEF List!Put
  <1>2. ASSUME Dequeue PROVE List!Take(before, after)
    <2>1. CASE Empty(queue)
      <3>1. queue' = queue /\ result' = <<"dequeue", Undefined>>
        BY <1>2, <2>1 DEF Dequeue
      <3>2. before = <<>>
        BY <1>b, <2>1, EmptySeq DEF Empty
      <3>3. after = <<>>
        BY <3>1, <3>2 DEF before
      <3> QED BY <3>1, <3>2, <3>3 DEF List!Take
    <2>2. CASE ~Empty(queue)
      <3>1. queue' = Dequeued(queue)
            /\ result' = <<"dequeue", queue.nodeArray[queue.start].data>>
        BY <1>2, <2>2 DEF Dequeue
      <3>2. /\ before # <<>> /\ after = Tail(before)
            /\ Head(before) = queue.nodeArray[queue.start].data
        BY <1>0, <2>2, <3>1, DequeuedItems DEF before
      <3> QED BY <3>1, <3>2 DEF List!Take
    <2> QED BY <2>1, <2>2
  <1>3. ASSUME NEW d \in Data, Delete(d) PROVE List!DeleteItem(before, after)
    <2>1. result' = <<"delete", d>>
      BY <1>3 DEF Delete
    <2>2. CASE ~Holds(d)
      <3>1. after = before
        BY <1>3, <2>2 DEF Delete, before
      <3>2. ~ \E i \in DOMAIN before : before[i] = d
        <4> SUFFICES ASSUME NEW i \in 1..queue.size, before[i] = d PROVE FALSE
          BY <1>b
        <4>1. i - 1 \in 0..queue.size-1 /\ i - 1 + 1 = i
          BY <1>b
        <4> QED BY <1>c, <2>2, <4>1 DEF Holds
      <3> QED BY <2>1, <3>1, <3>2 DEF List!DeleteItem
    <2>3. CASE Holds(d)
      <3> DEFINE k == CHOOSE i \in IndicesOf(queue, d) : \A j \in IndicesOf(queue, d) : i <= j
      <3>1. k \in IndicesOf(queue, d)
        BY <1>0, <2>3, FirstIndex DEF Holds
      <3>2. queue' = Removed(queue, k)
        BY <1>3, <2>3 DEF Delete, DeletedFrom
      <3> HIDE DEF k
      <3>3. k \in 0..queue.size-1 /\ before[k + 1] = d
        BY <1>c, <3>1
      <3>4. after = List!WithoutAt(before, k + 1)
        BY <1>0, <3>2, <3>3, RemovedItems, ListOperators DEF before
      <3>5. k + 1 \in DOMAIN before
        BY <1>b, <3>3
      <3> HIDE DEF after
      <3> QED BY <2>1, <3>3, <3>4, <3>5 DEF List!DeleteItem
    <2> QED BY <2>2, <2>3
  <1>4. ASSUME Tick PROVE items' = items /\ result' = result
    <2>1. queue' = Aged(queue) /\ result' = result
      BY <1>4 DEF Tick
    <2>2. /\ queue'.size = queue.size
          /\ \A i \in 0..queue.size-1 :
                 queue'.nodeArray[At(queue', i)].data = queue.nodeArray[At(queue, i)].data
      BY <1>0, <2>1, AgedEffect
    <2>3. \A i \in 1..queue.size : i - 1 \in 0..queue.size-1
      BY <1>b
    <2>4. after = before
      BY <2>2, <2>3 DEF before, Items
    <2> QED BY <1>a, <2>1, <2>4
  <1>5. ASSUME UNCHANGED vars PROVE items' = items /\ result' = result
    BY <1>5, <1>a DEF vars, before
  <1>e. ASSUME Clear PROVE List!Clear(before, after)
    <2>1. queue'.size = 0 /\ result' = <<"clear", Undefined>>
      BY <1>e DEF Clear, EmptyRing
    <2>2. after = <<>>
      BY <2>1 DEF Items
    <2> QED BY <2>1, <2>2 DEF List!Clear
  <1>6. /\ List!Put(before, after) => List!Next
        /\ List!Take(before, after) => List!Next
        /\ List!DeleteItem(before, after) => List!Next
        /\ List!Clear(before, after) => List!Next
    BY <1>d DEF List!Operation
  <1> HIDE DEF after
  <1>7. CASE \E d \in Data, p \in Priority : Enqueue(d, p)
    BY <1>1, <1>6, <1>7
  <1>8. CASE \E d \in Data : Delete(d)
    BY <1>3, <1>6, <1>8
  <1>9. CASE Dequeue
    BY <1>2, <1>6, <1>9
  <1>10. CASE Clear
    BY <1>e, <1>6, <1>10
  <1> QED BY <1>4, <1>5, <1>7, <1>8, <1>9, <1>10 DEF Next

(* The fixed queue is a list, whatever its capacity: what each call returns *)
(* and does to the ring buffer is what ListQueue says of a list of items.   *)
THEOREM ImplementsList == Spec => ListSpec
  <1>1. Init => List!Init
    <2> SUFFICES ASSUME Init PROVE List!Init
      OBVIOUS
    <2>1. queue \in Ring /\ queue.size = 0
      BY EmptyRingIsLive DEF Init, EmptyRing
    <2>2. items = <<>>
      BY <2>1 DEF items, Items
    <2> QED BY <2>2 DEF Init, List!Init
  <1> QED BY <1>1, Invariance, StepImplements, PTL DEF Spec, ListSpec, List!Spec

-----------------------------------------------------------------------------
(* Order, whatever the load at which entries are compared                   *)

EntryAt(q, i) == q.nodeArray[At(q, i)]

LowestFactor == AgingFactor[1]
HighestFactor == AgingFactor[Capacity - 1]

(* `front` came before `back`, and its age makes up for its priority *)
Waited(front, back) ==
    back.age < front.age /\ front.age < MaxAge =>
        front.priority - (front.age - back.age) * HighestFactor <= back.priority

(* `front` came after `back`, which did not yet wait too long *)
Overtook(front, back) ==
    front.age < back.age =>
        \E least \in Priority : (back.age - front.age) * LowestFactor < least - front.priority

InOrder(front, back) == Waited(front, back) /\ Overtook(front, back)

Ordered(q) == \A i, j \in 0..q.size-1 : i < j => InOrder(EntryAt(q, i), EntryAt(q, j))

(* A queue that is neither empty nor full compares by a factor between the  *)
(* lowest and the highest                                                   *)
LEMMA FactorBounds ==
    /\ MaxAge \in Nat /\ Priority \subseteq Int
    /\ LowestFactor \in Nat
    /\ HighestFactor \in Nat
    /\ \A n \in 0..Capacity : AgingFactor[n] \in Nat
    /\ \A n \in 1..Capacity : LowestFactor <= AgingFactor[n]
    /\ \A n \in 0..Capacity-1 : AgingFactor[n] <= HighestFactor
  <1>1. 1 \in 0..Capacity /\ Capacity - 1 \in 0..Capacity
    BY RingBufferAssumption
  <1>2. /\ \A n \in 1..Capacity : n \in 0..Capacity /\ 1 <= n
        /\ \A n \in 0..Capacity-1 : n \in 0..Capacity /\ n <= Capacity - 1
    BY RingBufferAssumption
  <1> QED BY <1>1, <1>2, RingBufferAssumption DEF LowestFactor, HighestFactor

LEMMA EntryFields ==
    ASSUME NEW e \in Entry
    PROVE  /\ e.age \in 0..MaxAge /\ e.age \in Nat
           /\ e.priority \in Priority /\ e.priority \in Int
  <1>1. e.age \in 0..MaxAge /\ e.priority \in Priority
    BY DEF Entry
  <1>2. MaxAge \in Nat /\ Priority \subseteq Int
    BY RingBufferAssumption
  <1>3. e.priority \in Int
    BY <1>1, <1>2
  <1>4. e.age \in Nat
    BY <1>1, <1>2
  <1> QED BY <1>1, <1>3, <1>4

LEMMA EntryAtType ==
    ASSUME NEW q \in Ring, Live(q), NEW i \in 0..q.size-1
    PROVE  EntryAt(q, i) \in Entry
  BY LiveEntries DEF EntryAt

LEMMA ProductMonotone ==
    ASSUME NEW a \in Nat, NEW f \in Nat, NEW g \in Nat, f <= g
    PROVE  a * f \in Nat /\ a * g \in Nat /\ a * f <= a * g
  <1>1. a * (g - f) >= 0 /\ a * g = a * f + a * (g - f)
    BY Z3
  <1> QED BY <1>1

(* A new entry stands behind those at least as urgent, by the factor of the *)
(* present load, and before the first of the others                         *)
LEMMA InsertionPlace ==
    ASSUME NEW q \in Ring, NEW p \in Priority
    PROVE  /\ InsertionIndex(q, p, TRUE) \in 0..q.size
           /\ \A i \in 0..q.size-1 : i < InsertionIndex(q, p, TRUE) =>
                  ~(EffectivePriority(q, EntryAt(q, i)) > p)
           /\ InsertionIndex(q, p, TRUE) < q.size =>
                  EffectivePriority(q, EntryAt(q, InsertionIndex(q, p, TRUE))) > p
  <1> DEFINE T == Overtaken(q, p)
             k == InsertionIndex(q, p, TRUE)
  <1>1. q.size \in Nat
    BY StartOfRing
  <1>2. \A i \in 0..q.size-1 : i \in T <=> EffectivePriority(q, EntryAt(q, i)) > p
    BY DEF Overtaken, EntryAt
  <1>3. T \subseteq 0..q.size-1 /\ T \subseteq Nat
    BY <1>1 DEF Overtaken
  <1>4. k = IF T # {} THEN CHOOSE i \in T : \A j \in T : i <= j ELSE q.size
    BY DEF InsertionIndex
  <1> HIDE DEF T, k
  <1>5. CASE T = {}
    <2>1. k = q.size
      BY <1>4, <1>5
    <2>2. k \in 0..q.size /\ ~(k < q.size)
      BY <1>1, <2>1
    <2>3. \A i \in 0..q.size-1 : ~(EffectivePriority(q, EntryAt(q, i)) > p)
      BY <1>2, <1>5
    <2> QED BY <2>2, <2>3 DEF k
  <1>6. CASE T # {}
    <2>1. k \in T /\ \A j \in T : k <= j
      <3>1. \E i \in T : \A j \in T : i <= j
        BY <1>3, <1>6, LeastElement
      <3> QED BY <1>4, <1>6, <3>1
    <2>2. k \in 0..q.size-1
      BY <1>3, <2>1
    <2>3. \A i \in 0..q.size-1 : i < k => i \notin T
      BY <1>1, <2>1, <2>2
    <2>4. \A i \in 0..q.size-1 : i < k => ~(EffectivePriority(q, EntryAt(q, i)) > p)
      BY <1>2, <2>3
    <2>5. EffectivePriority(q, EntryAt(q, k)) > p /\ k \in 0..q.size
      BY <1>1, <1>2, <2>1, <2>2
    <2> QED BY <2>4, <2>5 DEF k
  <1> QED BY <1>5, <1>6

(* The entries before number k and those from k on are in order with e *)
Placed(q, k, e) == /\ k \in 0..q.size
                   /\ \A i \in 0..q.size-1 : /\ i < k => InOrder(EntryAt(q, i), e)
                                             /\ i >= k => InOrder(e, EntryAt(q, i))

LEMMA InsertionOrder ==
    ASSUME NEW q \in Ring, Live(q), Ordered(q), ~Full(q), NEW d \in Data, NEW p \in Priority
    PROVE  Placed(q, InsertionIndex(q, p, TRUE), NewEntry(d, p))
  <1> DEFINE k == InsertionIndex(q, p, TRUE)
             e == NewEntry(d, p)
             factor == AgingFactor[q.size]
  <1>1. e.age = 0 /\ e.priority = p
    BY DEF NewEntry
  <1>2. /\ k \in 0..q.size
        /\ \A i \in 0..q.size-1 : i < k => ~(EffectivePriority(q, EntryAt(q, i)) > p)
        /\ k < q.size => EffectivePriority(q, EntryAt(q, k)) > p
    BY InsertionPlace
  <1>3. q.size \in Nat /\ q.size \in 0..Capacity-1 /\ p \in Int /\ k \in Nat
    <2>1. q.size \in 0..Capacity /\ q.size # Capacity /\ Capacity \in Nat
      BY StartOfRing, RingBufferAssumption DEF Full
    <2>2. p \in Int
      BY RingBufferAssumption
    <2>3. q.size \in Nat /\ q.size \in 0..Capacity-1
      BY <2>1
    <2> HIDE DEF k
    <2> QED BY <1>2, <2>2, <2>3
  <1>4. /\ factor \in Nat /\ factor <= HighestFactor
        /\ q.size > 0 => LowestFactor <= factor
    <2>1. q.size > 0 => q.size \in 1..Capacity
      BY <1>3, RingBufferAssumption
    <2>2. q.size \in 0..Capacity
      BY <1>3, RingBufferAssumption
    <2> QED BY <1>3, <2>1, <2>2, FactorBounds
  <1>5. \A i \in 0..q.size-1 :
            EffectivePriority(q, EntryAt(q, i))
                = EntryAt(q, i).priority - EntryAt(q, i).age * factor
    BY DEF EffectivePriority
  <1> HIDE DEF k, e, factor
  <1>6. ASSUME NEW i \in 0..q.size-1, i < k PROVE InOrder(EntryAt(q, i), e)
    <2> DEFINE f == EntryAt(q, i)
    <2>1. f.age \in Nat /\ f.priority \in Int
      BY EntryAtType, EntryFields
    <2>2. ~(f.priority - f.age * factor > p)
      BY <1>2, <1>5, <1>6
    <2> HIDE DEF f
    <2>3. f.age * factor <= f.age * HighestFactor /\ f.age * factor \in Nat
          /\ f.age * HighestFactor \in Nat
      BY <1>4, <2>1, FactorBounds, ProductMonotone
    <2>4. f.priority - f.age * HighestFactor <= p
      BY <1>3, <2>1, <2>2, <2>3
    <2>5. f.age - e.age = f.age /\ ~(f.age < e.age)
      BY <1>1, <2>1
    <2>6. Waited(f, e)
      BY <1>1, <2>4, <2>5 DEF Waited
    <2>7. Overtook(f, e)
      BY <2>5 DEF Overtook
    <2> QED BY <2>6, <2>7 DEF InOrder, f
  <1>7. ASSUME NEW i \in 0..q.size-1, i >= k PROVE InOrder(e, EntryAt(q, i))
    <2> DEFINE f == EntryAt(q, i)
               g == EntryAt(q, k)
    <2>1. k \in 0..q.size-1 /\ k < q.size /\ q.size > 0
      BY <1>2, <1>3, <1>7
    <2>2. /\ f.age \in Nat /\ f.priority \in Int /\ f.priority \in Priority
          /\ g.age \in Nat /\ g.priority \in Int /\ g.priority \in Priority
      BY <2>1, EntryAtType, EntryFields
    <2>3. g.priority - g.age * factor > p
      BY <1>2, <1>5, <2>1
    <2>4. f = g \/ InOrder(g, f)
      <3>1. CASE i = k
        BY <3>1
      <3>2. CASE i # k
        BY <1>3, <1>7, <2>1, <3>2 DEF Ordered
      <3> QED BY <3>1, <3>2
    <2> HIDE DEF f, g
    <2>5. g.age * LowestFactor <= g.age * factor /\ g.age * factor \in Nat
          /\ g.age * LowestFactor \in Nat
      BY <1>4, <2>1, <2>2, FactorBounds, ProductMonotone
    <2>6. g.age * LowestFactor < g.priority - p
      BY <1>3, <2>2, <2>3, <2>5
    <2>7. Waited(e, f)
      BY <1>1, <2>2 DEF Waited
    <2>8. \E least \in Priority : f.age * LowestFactor < least - p
      <3>1. CASE f.age <= g.age
        <4>1. f.age * LowestFactor <= g.age * LowestFactor /\ f.age * LowestFactor \in Nat
          <5>1. /\ LowestFactor * f.age \in Nat
                /\ LowestFactor * f.age <= LowestFactor * g.age
            BY <2>2, <3>1, FactorBounds, ProductMonotone
          <5>2. /\ LowestFactor * f.age = f.age * LowestFactor
                /\ LowestFactor * g.age = g.age * LowestFactor
            BY <2>2, FactorBounds
          <5> QED BY <5>1, <5>2
        <4>2. f.age * LowestFactor < g.priority - p
          BY <1>3, <2>2, <2>5, <2>6, <4>1
        <4> QED BY <2>2, <4>2
      <3>2. CASE g.age < f.age
        <4>1. PICK least \in Priority :
                  (f.age - g.age) * LowestFactor < least - g.priority
          BY <2>2, <2>4, <3>2 DEF InOrder, Overtook
        <4>2. f.age * LowestFactor = g.age * LowestFactor + (f.age - g.age) * LowestFactor
          BY <2>2, FactorBounds
        <4>3. f.age - g.age \in Nat /\ (f.age - g.age) * LowestFactor \in Nat
          BY <2>2, <3>2, FactorBounds, ProductMonotone
        <4>4. least \in Int
          BY FactorBounds
        <4> HIDE DEF LowestFactor
        <4>5. f.age * LowestFactor < least - p
          BY <1>3, <2>2, <2>5, <2>6, <4>1, <4>2, <4>3, <4>4
        <4> QED BY <4>5
      <3> QED BY <2>2, <3>1, <3>2
    <2>9. Overtook(e, f)
      <3>1. f.age - e.age = f.age
        BY <1>1, <2>2
      <3> QED BY <1>1, <2>8, <3>1 DEF Overtook
    <2> QED BY <2>7, <2>9 DEF InOrder, f
  <1> QED BY <1>2, <1>6, <1>7 DEF Placed, k, e

LEMMA InsertedOrdered ==
    ASSUME NEW q \in Ring, Live(q), Ordered(q), ~Full(q),
           NEW d \in Data, NEW p \in Priority
    PROVE  Ordered(Enqueued(q, d, p, TRUE))
  <1> DEFINE k == InsertionIndex(q, p, TRUE)
             e == NewEntry(d, p)
             r == Inserted(q, k, e)
  <1>1. Placed(q, k, e)
    BY InsertionOrder
  <1>2. e \in Entry
    BY NewEntryType
  <1>3. q.size \in Nat
    BY StartOfRing
  <1>4. Enqueued(q, d, p, TRUE) = r
    BY DEF Enqueued
  <1> HIDE DEF k, e, r
  <1>5. k \in 0..q.size
    BY <1>1 DEF Placed
  <1>6. /\ r.size = q.size + 1
        /\ \A i \in 0..q.size : EntryAt(r, i) =
               IF i < k THEN EntryAt(q, i) ELSE IF i = k THEN e ELSE EntryAt(q, i - 1)
    BY <1>2, <1>5, InsertedEffect DEF r, EntryAt
  <1>7. Ordered(r)
    <2> SUFFICES ASSUME NEW i \in 0..r.size-1, NEW j \in 0..r.size-1, i < j
                 PROVE  InOrder(EntryAt(r, i), EntryAt(r, j))
      BY DEF Ordered
    <2>1. i \in 0..q.size /\ j \in 0..q.size /\ k \in Nat
      BY <1>3, <1>5, <1>6
    <2>2. CASE j < k
      <3>1. i < k /\ i \in 0..q.size-1 /\ j \in 0..q.size-1
        BY <1>3, <1>5, <2>1, <2>2
      <3>2. EntryAt(r, i) = EntryAt(q, i) /\ EntryAt(r, j) = EntryAt(q, j)
        BY <1>6, <2>1, <2>2, <3>1
      <3> QED BY <3>1, <3>2 DEF Ordered
    <2>3. CASE j = k
      <3>1. i < k /\ i \in 0..q.size-1
        BY <1>3, <2>1, <2>3
      <3>2. EntryAt(r, i) = EntryAt(q, i) /\ EntryAt(r, j) = e
        BY <1>6, <2>1, <2>3, <3>1
      <3> QED BY <1>1, <3>1, <3>2 DEF Placed
    <2>4. CASE j > k /\ i < k
      <3>1. i \in 0..q.size-1 /\ j - 1 \in 0..q.size-1 /\ i < j - 1
        BY <1>3, <2>1, <2>4
      <3>2. EntryAt(r, i) = EntryAt(q, i) /\ EntryAt(r, j) = EntryAt(q, j - 1)
        BY <1>6, <2>1, <2>4
      <3> QED BY <3>1, <3>2 DEF Ordered
    <2>5. CASE j > k /\ i = k
      <3>1. j - 1 \in 0..q.size-1 /\ j - 1 >= k
        BY <1>3, <2>1, <2>5
      <3>2. EntryAt(r, i) = e /\ EntryAt(r, j) = EntryAt(q, j - 1)
        BY <1>6, <2>1, <2>5
      <3> QED BY <1>1, <3>1, <3>2 DEF Placed
    <2>6. CASE j > k /\ i > k
      <3>1. i - 1 \in 0..q.size-1 /\ j - 1 \in 0..q.size-1 /\ i - 1 < j - 1
        BY <1>3, <2>1, <2>6
      <3>2. EntryAt(r, i) = EntryAt(q, i - 1) /\ EntryAt(r, j) = EntryAt(q, j - 1)
        BY <1>6, <2>1, <2>6
      <3> QED BY <3>1, <3>2 DEF Ordered
    <2> QED BY <2>1, <2>2, <2>3, <2>4, <2>5, <2>6
  <1> QED BY <1>4, <1>7

LEMMA RemovedOrdered ==
    ASSUME NEW q \in Ring, Live(q), Ordered(q), NEW k \in 0..q.size-1
    PROVE  Ordered(Removed(q, k))
  <1> DEFINE r == Removed(q, k)
             at(i) == IF i < k THEN i ELSE i + 1
  <1>1. /\ r.size = q.size - 1
        /\ \A i \in 0..q.size-2 : EntryAt(r, i) =
               IF i < k THEN EntryAt(q, i) ELSE EntryAt(q, i + 1)
    BY RemovedEffect DEF EntryAt
  <1>2. q.size \in Nat /\ k \in Nat
    BY StartOfRing
  <1> HIDE DEF r
  <1>3. Ordered(r)
    <2> SUFFICES ASSUME NEW i \in 0..r.size-1, NEW j \in 0..r.size-1, i < j
                 PROVE  InOrder(EntryAt(r, i), EntryAt(r, j))
      BY DEF Ordered
    <2>1. i \in 0..q.size-2 /\ j \in 0..q.size-2
      BY <1>1, <1>2
    <2>2. at(i) \in 0..q.size-1 /\ at(j) \in 0..q.size-1 /\ at(i) < at(j)
      BY <1>2, <2>1
    <2>3. EntryAt(r, i) = EntryAt(q, at(i)) /\ EntryAt(r, j) = EntryAt(q, at(j))
      BY <1>1, <2>1
    <2> HIDE DEF at
    <2> QED BY <2>2, <2>3 DEF Ordered
  <1> QED BY <1>3 DEF r

LEMMA DequeuedOrdered ==
    ASSUME NEW q \in Ring, Live(q), Ordered(q), ~Empty(q)
    PROVE  Ordered(Dequeued(q))
  <1> DEFINE r == Dequeued(q)
  <1>1. /\ r.size = q.size - 1
        /\ \A i \in 0..q.size-2 : EntryAt(r, i) = EntryAt(q, i + 1)
    BY DequeuedEffect DEF EntryAt
  <1>2. q.size \in Nat
    BY StartOfRing
  <1> HIDE DEF r
  <1>3. Ordered(r)
    <2> SUFFICES ASSUME NEW i \in 0..r.size-1, NEW j \in 0..r.size-1, i < j
                 PROVE  InOrder(EntryAt(r, i), EntryAt(r, j))
      BY DEF Ordered
    <2>1. i \in 0..q.size-2 /\ j \in 0..q.size-2
      BY <1>1, <1>2
    <2>2. i + 1 \in 0..q.size-1 /\ j + 1 \in 0..q.size-1 /\ i + 1 < j + 1
      BY <1>2, <2>1
    <2>3. EntryAt(r, i) = EntryAt(q, i + 1) /\ EntryAt(r, j) = EntryAt(q, j + 1)
      BY <1>1, <2>1
    <2> QED BY <2>2, <2>3 DEF Ordered
  <1> QED BY <1>3 DEF r

LEMMA OlderEntry ==
    ASSUME NEW e \in Entry
    PROVE  /\ Older(e).priority = e.priority
           /\ Older(e).age = IF e.age < MaxAge THEN e.age + 1 ELSE e.age
  <1>1. e.age \in 0..MaxAge /\ MaxAge \in Nat /\ e # Undefined
    BY EntryFields, FactorBounds, RingBufferAssumption
  <1>2. CASE e.age < MaxAge
    <2>1. Older(e) = [e EXCEPT !.age = e.age + 1]
      BY <1>1, <1>2 DEF Older
    <2> QED BY <1>2, <2>1 DEF Entry
  <1>3. CASE ~(e.age < MaxAge)
    BY <1>1, <1>3 DEF Older
  <1> QED BY <1>2, <1>3

(* Time does not change by how much one entry is older than another, but at *)
(* the bound on ages, where it shrinks                                      *)
LEMMA OlderInOrder ==
    ASSUME NEW d \in Entry, NEW e \in Entry, InOrder(d, e)
    PROVE  InOrder(Older(d), Older(e))
  <1> DEFINE a == Older(d).age
             b == Older(e).age
  <1>1. /\ d.age \in 0..MaxAge /\ e.age \in 0..MaxAge /\ MaxAge \in Nat
        /\ d.priority \in Int /\ Priority \subseteq Int
    BY EntryFields, FactorBounds
  <1>2. /\ a = IF d.age < MaxAge THEN d.age + 1 ELSE d.age
        /\ b = IF e.age < MaxAge THEN e.age + 1 ELSE e.age
        /\ Older(d).priority = d.priority /\ Older(e).priority = e.priority
    BY OlderEntry
  <1> HIDE DEF a, b
  <1>3. ASSUME b < a, a < MaxAge PROVE d.priority - (a - b) * HighestFactor <= e.priority
    <2>1. e.age < d.age /\ d.age < MaxAge /\ a - b = d.age - e.age
      BY <1>1, <1>2, <1>3
    <2> QED BY <2>1 DEF InOrder, Waited
  <1>4. ASSUME a < b
        PROVE  \E least \in Priority : (b - a) * LowestFactor < least - d.priority
    <2>1. d.age < e.age /\ a - b \in Int /\ b - a \in Nat /\ e.age - d.age \in Nat
          /\ b - a <= e.age - d.age
      BY <1>1, <1>2, <1>4
    <2>2. PICK least \in Priority : (e.age - d.age) * LowestFactor < least - d.priority
      BY <2>1 DEF InOrder, Overtook
    <2>3. /\ LowestFactor * (b - a) <= LowestFactor * (e.age - d.age)
          /\ LowestFactor * (b - a) \in Nat /\ LowestFactor * (e.age - d.age) \in Nat
      BY <2>1, FactorBounds, ProductMonotone
    <2>4. /\ LowestFactor * (b - a) = (b - a) * LowestFactor
          /\ LowestFactor * (e.age - d.age) = (e.age - d.age) * LowestFactor
      BY <2>1, FactorBounds
    <2>5. least \in Int
      BY <1>1
    <2>6. (b - a) * LowestFactor < least - d.priority
      BY <1>1, <2>2, <2>3, <2>4, <2>5
    <2> QED BY <2>6
  <1> QED BY <1>2, <1>3, <1>4 DEF InOrder, Waited, Overtook, a, b

LEMMA AgedOrdered ==
    ASSUME NEW q \in Ring, Live(q), Ordered(q)
    PROVE  Ordered(Aged(q))
  <1> DEFINE r == Aged(q)
  <1>1. /\ r.start = q.start /\ r.size = q.size
        /\ r.nodeArray = [s \in Slot |-> Older(q.nodeArray[s])]
    BY DEF Aged, Ring
  <1>2. q.size \in Nat /\ q.size <= Capacity
    BY StartOfRing
  <1>3. \A i \in 0..q.size-1 : EntryAt(r, i) = Older(EntryAt(q, i))
    <2> SUFFICES ASSUME NEW i \in 0..q.size-1 PROVE EntryAt(r, i) = Older(EntryAt(q, i))
      OBVIOUS
    <2>1. At(r, i) = At(q, i)
      BY <1>1 DEF At
    <2>2. i \in 0..Capacity-1
      BY StartOfRing
    <2>3. At(q, i) \in Slot
      BY <2>2, SlotOfPosition
    <2> QED BY <1>1, <2>1, <2>3 DEF EntryAt
  <1> HIDE DEF r
  <1>4. Ordered(r)
    <2> SUFFICES ASSUME NEW i \in 0..r.size-1, NEW j \in 0..r.size-1, i < j
                 PROVE  InOrder(EntryAt(r, i), EntryAt(r, j))
      BY DEF Ordered
    <2> DEFINE d == EntryAt(q, i)
               e == EntryAt(q, j)
    <2>1. EntryAt(r, i) = Older(d) /\ EntryAt(r, j) = Older(e)
      BY <1>1, <1>3
    <2>2. d \in Entry /\ e \in Entry /\ InOrder(d, e)
      BY <1>1, EntryAtType DEF Ordered
    <2> HIDE DEF d, e
    <2> QED BY <2>1, <2>2, OlderInOrder
  <1> QED BY <1>4 DEF r

LEMMA EmptyRingOrdered == Ordered(EmptyRing)
  <1>1. EmptyRing.size = 0
    BY DEF EmptyRing
  <1> QED BY <1>1 DEF Ordered

LEMMA OrderedStep ==
    ASSUME EnablePriority = TRUE, IInv, Ordered(queue), [Next]_vars
    PROVE  Ordered(queue')
  <1>0. queue \in Ring /\ Live(queue)
    BY DEF IInv, TypeOK
  <1>1. ASSUME NEW d \in Data, NEW p \in Priority, Enqueue(d, p) PROVE Ordered(queue')
    <2>1. ~Full(queue) /\ queue' = Enqueued(queue, d, p, TRUE)
      BY <1>1 DEF Enqueue
    <2> QED BY <1>0, <2>1, InsertedOrdered
  <1>2. CASE Dequeue
    BY <1>0, <1>2, DequeuedOrdered DEF Dequeue
  <1>3. ASSUME NEW d \in Data, Delete(d) PROVE Ordered(queue')
    <2>1. CASE ~Holds(d)
      BY <1>3, <2>1 DEF Delete
    <2>2. CASE Holds(d)
      <3> DEFINE k == CHOOSE i \in IndicesOf(queue, d) : \A j \in IndicesOf(queue, d) : i <= j
      <3>1. k \in IndicesOf(queue, d)
        BY <1>0, <2>2, FirstIndex DEF Holds
      <3>2. queue' = Removed(queue, k)
        BY <1>3, <2>2 DEF Delete, DeletedFrom
      <3> HIDE DEF k
      <3>3. k \in 0..queue.size-1
        BY <3>1 DEF IndicesOf
      <3> QED BY <1>0, <3>2, <3>3, RemovedOrdered
    <2> QED BY <2>1, <2>2
  <1>4. CASE Tick
    BY <1>0, <1>4, AgedOrdered DEF Tick
  <1>5. CASE Clear
    BY <1>5, EmptyRingOrdered DEF Clear
  <1>6. CASE UNCHANGED vars
    BY <1>6 DEF vars
  <1> QED BY <1>1, <1>2, <1>3, <1>4, <1>5, <1>6 DEF Next

LEMMA OrderInvariance ==
    ASSUME EnablePriority = TRUE
    PROVE  Spec => [](IInv /\ Ordered(queue))
  <1>1. Init => IInv /\ Ordered(queue)
    BY EmptyRingIsLive, EmptyRingOrdered DEF Init, IInv, TypeOK
  <1>2. IInv /\ Ordered(queue) /\ [Next]_vars => (IInv /\ Ordered(queue))'
    BY InvariantStep, OrderedStep DEF Ordered
  <1> QED BY <1>1, <1>2, PTL DEF Spec

LEMMA PairOfContents ==
    ASSUME IInv, Ordered(queue), NEW i \in 1..queue.size, NEW j \in 1..queue.size, i < j
    PROVE  InOrder(Contents(queue)[i], Contents(queue)[j])
  <1>1. queue.size \in Nat
    BY StartOfRing DEF IInv, TypeOK
  <1>2. i - 1 \in 0..queue.size-1 /\ j - 1 \in 0..queue.size-1 /\ i - 1 < j - 1
    BY <1>1
  <1>3. /\ Contents(queue)[i] = EntryAt(queue, i - 1)
        /\ Contents(queue)[j] = EntryAt(queue, j - 1)
    BY DEF Contents, EntryAt
  <1> QED BY <1>2, <1>3 DEF Ordered

(* For any aging factor: a less urgent entry that came first stays in front *)
(* of a more urgent one only if it had waited long enough to be as urgent   *)
(* at the highest load, so the insertion scan never ignores a priority that *)
(* no age makes up for.                                                     *)
THEOREM PriorityServed ==
    ASSUME EnablePriority = TRUE
    PROVE  Spec => []ServedByPriority
  <1>1. IInv /\ Ordered(queue) => ServedByPriority
    BY PairOfContents DEF InOrder, Waited, HighestFactor, ServedByPriority
  <1> QED BY <1>1, OrderInvariance, PTL

(* For any aging factor: an entry that came first is overtaken only while   *)
(* it has waited less than makes the least urgent priority overtake at the  *)
(* lowest load, so the insertion scan, which stops at the first less urgent *)
(* entry and meets another load each time, cannot put it off for ever.      *)
THEOREM OvertakingLimited ==
    ASSUME EnablePriority = TRUE
    PROVE  Spec => []AgingLimitsOvertaking
  <1>1. IInv /\ Ordered(queue) => AgingLimitsOvertaking
    BY PairOfContents DEF InOrder, Overtook, LowestFactor, AgingLimitsOvertaking
  <1> QED BY <1>1, OrderInvariance, PTL
=============================================================================
