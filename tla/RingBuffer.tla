----------------------------- MODULE RingBuffer -----------------------------
(***************************************************************************)
(* The fixed queues: AbstractFixedQueue (src/queues/abstract-fixed-queue.ts)*)
(* and the `enqueue` of its two classes, FixedQueue                        *)
(* (src/queues/fixed-queue.ts) and FixedPriorityQueue                      *)
(* (src/queues/fixed-priority-queue.ts), as operators on a record          *)
(*   [start, size, nodeArray].                                             *)
(*                                                                         *)
(* The timestamp of an entry is replaced by its age, the time since it was *)
(* enqueued.  The aging factor is any function of the number of entries,   *)
(* not decreasing, in place of                                             *)
(*   agingFactor * (1 + ((size + 1) / capacity) ** loadExponent)           *)
(* whose power is not rational: the options permit agingFactor >= 0 and    *)
(* loadExponent > 0 only, so it is 0 or grows with the load.               *)
(***************************************************************************)
EXTENDS Integers, Sequences

CONSTANTS
    Capacity,           \* capacity of a fixed queue
    Data,               \* what is queued; `===` tells any two apart
    Undefined,          \* the value of an array slot without entry
    Priority,           \* lower values are served first
    MaxAge,             \* bound: entries do not grow older
    AgingFactor         \* number of entries -> priority points per unit of age

Slot == 0..Capacity-1
Entry == [data : Data, priority : Priority, age : 0..MaxAge]

ASSUME RingBufferAssumption ==
    /\ Capacity \in Nat \ {0}
    /\ Priority \subseteq Int
    /\ MaxAge \in Nat
    /\ AgingFactor \in [0..Capacity -> Nat]
    /\ \A i, j \in 0..Capacity : i <= j => AgingFactor[i] <= AgingFactor[j]
    /\ Undefined \notin Entry
    /\ Undefined \notin Data

Ring == [start : Slot, size : 0..Capacity, nodeArray : [Slot -> Entry \union {Undefined}]]

EmptyRing == [start |-> 0, size |-> 0, nodeArray |-> [s \in Slot |-> Undefined]]

-----------------------------------------------------------------------------
(* Positions: entry number i, from 0, is in slot At(q, i) and the entry of  *)
(* slot s has number Offset(q, s).                                          *)
Wrapped(i) == IF i >= Capacity THEN i - Capacity ELSE i
Following(s) == IF s + 1 = Capacity THEN 0 ELSE s + 1
Previous(s) == IF s = 0 THEN Capacity - 1 ELSE s - 1

At(q, i) == Wrapped(q.start + i)
Offset(q, s) == IF s >= q.start THEN s - q.start ELSE s - q.start + Capacity

Empty(q) == q.size = 0
Full(q) == q.size = Capacity

(* The entries by iteration from the start, and what they hold *)
Contents(q) == [i \in 1..q.size |-> q.nodeArray[At(q, i - 1)]]
Items(q) == [i \in 1..q.size |-> q.nodeArray[At(q, i - 1)].data]

-----------------------------------------------------------------------------
(* Enqueue *)

EffectivePriority(q, e) == e.priority - e.age * AgingFactor[q.size]

(* FixedPriorityQueue inserts before the first entry that, aged, is less    *)
(* urgent; FixedQueue behind all entries.                                   *)
Overtaken(q, p) == {i \in 0..q.size-1 : EffectivePriority(q, q.nodeArray[At(q, i)]) > p}

InsertionIndexUnaged(q, p, prioritized) ==  \* faulty: the age is not looked at
    LET overtaken == {i \in 0..q.size-1 : q.nodeArray[At(q, i)].priority > p}
    IN  IF prioritized /\ overtaken # {}
        THEN CHOOSE i \in overtaken : \A j \in overtaken : i <= j
        ELSE q.size

InsertionIndexBehind(q, p, prioritized) ==  \* faulty: behind the entry to overtake
    IF prioritized /\ Overtaken(q, p) # {}
    THEN 1 + CHOOSE i \in Overtaken(q, p) : \A j \in Overtaken(q, p) : i <= j
    ELSE q.size

InsertionIndex(q, p, prioritized) ==
    IF prioritized /\ Overtaken(q, p) # {}
    THEN CHOOSE i \in Overtaken(q, p) : \A j \in Overtaken(q, p) : i <= j
    ELSE q.size

(* The entries from number k on move one slot away from the start *)
Inserted(q, k, e) ==
    [start |-> q.start,
     size |-> q.size + 1,
     nodeArray |-> [s \in Slot |->
         IF Offset(q, s) = k THEN e
         ELSE IF Offset(q, s) \in k+1..q.size THEN q.nodeArray[Previous(s)]
         ELSE q.nodeArray[s]]]

NewEntry(d, p) == [data |-> d, priority |-> p, age |-> 0]

Enqueued(q, d, p, prioritized) ==
    Inserted(q, InsertionIndex(q, p, prioritized), NewEntry(d, p))

-----------------------------------------------------------------------------
(* Dequeue and delete *)

Dequeued(q) ==
    [start |-> Following(q.start),
     size |-> q.size - 1,
     nodeArray |-> [q.nodeArray EXCEPT ![q.start] = Undefined]]

(* The numbers of the entries that hold d *)
IndicesOf(q, d) == {i \in 0..q.size-1 : q.nodeArray[At(q, i)].data = d}

RemovedLate(q, k) ==  \* faulty: the shift starts one entry too far
    [start |-> q.start,
     size |-> q.size - 1,
     nodeArray |-> [s \in Slot |->
         IF Offset(q, s) = q.size - 1 THEN Undefined
         ELSE IF Offset(q, s) \in k+1..q.size-2 THEN q.nodeArray[Following(s)]
         ELSE q.nodeArray[s]]]

(* The entries behind number k move one slot towards the start *)
Removed(q, k) ==
    [start |-> q.start,
     size |-> q.size - 1,
     nodeArray |-> [s \in Slot |->
         IF Offset(q, s) = q.size - 1 THEN Undefined
         ELSE IF Offset(q, s) \in k..q.size-2 THEN q.nodeArray[Following(s)]
         ELSE q.nodeArray[s]]]

DeletedFrom(q, d) ==
    Removed(q, CHOOSE k \in IndicesOf(q, d) : \A j \in IndicesOf(q, d) : k <= j)

(* Time passes: every entry grows older *)
Older(e) ==
    IF e = Undefined \/ e.age = MaxAge THEN e ELSE [e EXCEPT !.age = e.age + 1]

Aged(q) == [q EXCEPT !.nodeArray = [s \in Slot |-> Older(q.nodeArray[s])]]
=============================================================================
