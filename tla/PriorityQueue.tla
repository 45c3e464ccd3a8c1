---------------------------- MODULE PriorityQueue ----------------------------
(***************************************************************************)
(* PriorityQueue (src/queues/priority-queue.ts): the tasks queue of a      *)
(* worker node.  Fixed queues of one capacity, the buckets, linked from    *)
(* `tail`, which is served first, to `head`, which is filled.  The worker  *)
(* node (src/pools/worker-node.ts) enqueues, dequeues, deletes, dequeues   *)
(* the last prioritized task for a thief, and turns priority on and off.   *)
(***************************************************************************)
EXTENDS RingBuffer, FiniteSets

ASSUME DataAssumption == IsFiniteSet(Data)

(* What is enqueued again by the priority toggle has the default priority.  *)
ASSUME PriorityAssumption == 0 \in Priority

(* Linked fixed queues.  One that is no longer linked is garbage: its       *)
(* identity may be used again.                                              *)
Bucket == 1..(Cardinality(Data) + 1)
None == 0

VARIABLES
    pq,         \* the fields of the priority queue, and its linked buckets
    result      \* what the last call did and returned

vars == <<pq, result>>

PriorityQueueState ==
    [fixedQueue : [Bucket -> Ring],               \* the bucket itself
     next : [Bucket -> Bucket \union {None}],     \* and its successor
     head : Bucket,
     tail : Bucket,
     size : Nat,
     maxSize : Nat,
     priorityEnabled : BOOLEAN]

Buckets(q) == q.size \div Capacity

-----------------------------------------------------------------------------
(* The buckets from the tail on *)
Chain(q) ==
    LET to[k \in Bucket] ==
            IF k = 1 THEN q.tail
            ELSE LET b == to[k - 1] IN IF b = None THEN None ELSE q.next[b]
    IN  [k \in 1..Cardinality({j \in Bucket : to[j] # None}) |-> to[k]]

Linked(q) == LET chain == Chain(q) IN {chain[k] : k \in DOMAIN chain}

(* One list after the other *)
Flat(lists) ==
    LET upTo[k \in 0..Len(lists)] == IF k = 0 THEN <<>> ELSE upTo[k - 1] \o lists[k]
    IN  upTo[Len(lists)]

(* What the iterator goes through: the items of each bucket in turn *)
Iterated(q) ==
    LET chain == Chain(q) IN Flat([k \in 1..Len(chain) |-> Items(q.fixedQueue[chain[k]])])

Queued(q) == LET data == Iterated(q) IN {data[i] : i \in 1..Len(data)}

-----------------------------------------------------------------------------
(* Operations *)

NewBucket(q) ==
    LET linked == Linked(q)
    IN  CHOOSE b \in Bucket \ linked : \A c \in Bucket \ linked : b <= c

(* A full head gets a successor, which becomes the head *)
Grown(q) ==
    LET b == NewBucket(q)
    IN  IF Full(q.fixedQueue[q.head])
        THEN [q EXCEPT !.fixedQueue[b] = EmptyRing,
                       !.next = [q.next EXCEPT ![q.head] = b, ![b] = None],
                       !.head = b]
        ELSE q

EnqueuedByPriority(q, d, p) ==  \* faulty: priority is applied though it is disabled
    LET g == Grown(q)
    IN  [g EXCEPT !.fixedQueue[g.head] = Enqueued(@, d, p, TRUE),
                  !.size = @ + 1,
                  !.maxSize = IF q.size + 1 > @ THEN q.size + 1 ELSE @]

EnqueuedItem(q, d, p) ==
    LET g == Grown(q)
    IN  [g EXCEPT !.fixedQueue[g.head] = Enqueued(@, d, p, q.priorityEnabled),
                  !.size = @ + 1,
                  !.maxSize = IF q.size + 1 > @ THEN q.size + 1 ELSE @]

PrevOf(q, b) ==
    IF b = q.tail THEN None ELSE CHOOSE c \in Linked(q) : q.next[c] = b

WithoutBucketKeepingHead(q, b) ==  \* faulty: the head is not moved back
    IF q.head = q.tail THEN q
    ELSE IF b = q.tail /\ q.next[b] # None
    THEN [q EXCEPT !.tail = q.next[b], !.next[b] = None]
    ELSE [q EXCEPT !.next = [q.next EXCEPT ![PrevOf(q, b)] = q.next[b], ![b] = None]]

(* removePriorityQueueNode: the only bucket is kept *)
WithoutBucket(q, b) ==
    IF q.head = q.tail THEN q
    ELSE IF b = q.tail /\ q.next[b] # None
    THEN [q EXCEPT !.tail = q.next[b], !.next[b] = None]
    ELSE IF b = q.head
    THEN [q EXCEPT !.head = PrevOf(q, b),
                   !.next = [q.next EXCEPT ![PrevOf(q, b)] = None, ![b] = None]]
    ELSE [q EXCEPT !.next = [q.next EXCEPT ![PrevOf(q, b)] = q.next[b], ![b] = None]]

(* A bucket has lost an entry *)
Shrunk(q, b) ==
    LET s == [q EXCEPT !.size = @ - 1]
    IN  IF Empty(s.fixedQueue[b]) THEN WithoutBucket(s, b) ELSE s

(* The bucket dequeue(bucket) looks at; None: it gives up *)
Target(q, bucket) ==
    LET chain == Chain(q)
    IN  IF bucket > 0
        THEN IF Len(chain) < bucket \/ Empty(q.fixedQueue[chain[bucket]])
             THEN None ELSE chain[bucket]
        ELSE LET filled == {k \in DOMAIN chain : ~Empty(q.fixedQueue[chain[k]])}
             IN  IF filled = {} THEN None
                 ELSE chain[CHOOSE k \in filled : \A j \in filled : k <= j]

Served(q, bucket) ==
    LET b == Target(q, bucket)
    IN  IF q.size = 0 \/ b = None THEN Undefined
        ELSE q.fixedQueue[b].nodeArray[q.fixedQueue[b].start].data

DequeuedItem(q, bucket) ==
    LET b == Target(q, bucket)
    IN  IF q.size = 0 \/ b = None THEN q
        ELSE Shrunk([q EXCEPT !.fixedQueue[b] = Dequeued(@)], b)

(* The first bucket that holds d loses it *)
DeletedItem(q, d) ==
    LET chain == Chain(q)
        holders == {k \in DOMAIN chain : IndicesOf(q.fixedQueue[chain[k]], d) # {}}
        b == chain[CHOOSE k \in holders : \A j \in holders : k <= j]
    IN  IF holders = {} THEN q
        ELSE Shrunk([q EXCEPT !.fixedQueue[b] = DeletedFrom(@, d)], b)

(* clear(): the other buckets are left to the garbage collector *)
Cleared(q) ==
    [fixedQueue |-> [b \in Bucket |-> EmptyRing],
     next |-> [b \in Bucket |-> None],
     head |-> 1, tail |-> 1, size |-> 0, maxSize |-> 0,
     priorityEnabled |-> q.priorityEnabled]

ToggledReversed(q) ==  \* faulty: the data is taken in reverse
    LET data == Iterated(q)
        filled[k \in 0..Len(data)] ==
            IF k = 0 THEN Cleared([q EXCEPT !.priorityEnabled = ~@])
            ELSE EnqueuedItem(filled[k - 1], data[Len(data) + 1 - k], 0)
    IN  filled[Len(data)]

(* enablePriority: all data is enqueued again, without its priority *)
Toggled(q) ==
    LET data == Iterated(q)
        filled[k \in 0..Len(data)] ==
            IF k = 0 THEN Cleared([q EXCEPT !.priorityEnabled = ~@])
            ELSE EnqueuedItem(filled[k - 1], data[k], 0)
    IN  filled[Len(data)]

-----------------------------------------------------------------------------
Init ==
    /\ \E enabled \in BOOLEAN :
           pq = Cleared([priorityEnabled |-> enabled])
    /\ result = <<"new", Undefined>>

Enqueue(d, p) ==
    /\ d \notin Queued(pq)
    /\ pq' = EnqueuedItem(pq, d, p)
    /\ result' = <<"enqueue", d>>

Dequeue ==
    /\ pq' = DequeuedItem(pq, 0)
    /\ result' = <<"dequeue", Served(pq, 0)>>

(* dequeueLastPrioritizedTask of the worker node *)
DequeueLast ==
    /\ pq' = DequeuedItem(pq, Buckets(pq) + 1)
    /\ result' = <<"steal", Served(pq, Buckets(pq) + 1)>>

Delete(d) ==
    /\ pq' = DeletedItem(pq, d)
    /\ result' = <<"delete", d>>

(* setTasksQueuePriority of the worker node *)
SetPriority ==
    /\ pq' = Toggled(pq)
    /\ result' = <<"priority", Undefined>>

Clear ==
    /\ pq' = Cleared(pq)
    /\ result' = <<"clear", Undefined>>

Tick ==
    /\ pq' = [pq EXCEPT !.fixedQueue = [b \in Bucket |-> Aged(pq.fixedQueue[b])]]
    /\ UNCHANGED result

Next ==
    \/ \E d \in Data, p \in Priority : Enqueue(d, p)
    \/ Dequeue
    \/ DequeueLast
    \/ \E d \in Data : Delete(d)
    \/ SetPriority
    \/ Clear
    \/ Tick

Spec == Init /\ [][Next]_vars
-----------------------------------------------------------------------------
(* The queue as a list *)
items == Iterated(pq)

List == INSTANCE ListQueue WITH Fifo <- FALSE

(* Types of the state. *)
TypeOK ==
    /\ pq \in PriorityQueueState
    /\ result[1] \in {"new", "enqueue", "dequeue", "steal", "delete", "priority", "clear"}
    /\ result[2] \in Data \union {Undefined}

(* `size` is the number of items one can reach from the tail *)
SizeIsEntries == pq.size = Len(Iterated(pq)) /\ pq.size <= pq.maxSize

(* The chain ends at the head, where enqueue adds *)
HeadEndsChain ==
    /\ Chain(pq)[Len(Chain(pq))] = pq.head
    /\ pq.next[pq.head] = None

(* An emptied bucket does not stay in the chain, unless it is the only one *)
NoEmptyBucket ==
    \A b \in Linked(pq) : Empty(pq.fixedQueue[b]) => pq.head = pq.tail

(* However dequeue(bucket) and delete empty buckets anywhere in the chain   *)
(* and removePriorityQueueNode unlinks them, no bucket with entries is      *)
(* lost, enqueue adds at the end, and dequeue() has no bucket to skip.      *)
ChainIsSound == TypeOK /\ SizeIsEntries /\ HeadEndsChain /\ NoEmptyBucket

(* Without priority the queue is first in, first out; with priority, enqueue *)
(* overtakes at most the other entries of one bucket, the head.             *)
OvertakesOneBucketAtMost ==
    [][pq'.size > pq.size =>
         \E i \in pq.size + 1 - (IF pq.priorityEnabled THEN Capacity - 1 ELSE 0) .. pq'.size :
             i > 0 /\ items'[i] = result'[2]]_vars

(* The comment of dequeue says that it returns `undefined` if the queue is  *)
(* empty.  dequeue(buckets + 1), the steal, also does when all buckets are  *)
(* full: then as many are linked as `buckets` says.                         *)
NoneOnlyIfEmpty == [][result' = <<"steal", Undefined>> => items = <<>>]_vars

(* A thief is sent away from a queue that is not empty only in that case    *)
MissedSteal ==
    /\ result' = <<"steal", Undefined>>
    /\ UNCHANGED items
    /\ Len(items) % Capacity = 0

(* Implementation of ListQueue but for the missed steals: whatever buckets  *)
(* come and go, dequeue() takes the first item and finds none only in an    *)
(* empty queue, a thief gets an item unless the items just fill buckets,    *)
(* and turning priority on or off loses and reorders nothing.               *)
ListSpec == List!Init /\ [][List!Next \/ MissedSteal]_<<items, result>>
=============================================================================
