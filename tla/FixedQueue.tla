----------------------------- MODULE FixedQueue -----------------------------
(***************************************************************************)
(* One fixed queue at work: any sequence of calls, with time passing       *)
(* between them.  EnablePriority tells a FixedPriorityQueue from a         *)
(* FixedQueue.  Its owner, the priority queue, enqueues nothing when it is *)
(* full, so the exception of `enqueue` is out of the picture.              *)
(***************************************************************************)
EXTENDS RingBuffer

CONSTANT EnablePriority

ASSUME EnablePriorityAssumption == EnablePriority \in BOOLEAN

VARIABLES
    queue,      \* the ring buffer
    result      \* what the last call did and returned

vars == <<queue, result>>

Init == queue = EmptyRing /\ result = <<"new", Undefined>>

Holds(d) == IndicesOf(queue, d) # {}

Enqueue(d, p) ==
    /\ ~Full(queue)
    /\ ~Holds(d)
    /\ queue' = Enqueued(queue, d, p, EnablePriority)
    /\ result' = <<"enqueue", d>>

Dequeue ==
    IF Empty(queue)
    THEN result' = <<"dequeue", Undefined>> /\ UNCHANGED queue
    ELSE /\ result' = <<"dequeue", queue.nodeArray[queue.start].data>>
         /\ queue' = Dequeued(queue)

Delete(d) ==
    /\ queue' = IF Holds(d) THEN DeletedFrom(queue, d) ELSE queue
    /\ result' = <<"delete", d>>

Clear ==
    /\ queue' = EmptyRing
    /\ result' = <<"clear", Undefined>>

Tick ==
    /\ queue' = Aged(queue)
    /\ UNCHANGED result

Next ==
    \/ \E d \in Data, p \in Priority : Enqueue(d, p)
    \/ Dequeue
    \/ \E d \in Data : Delete(d)
    \/ Clear
    \/ Tick

Spec == Init /\ [][Next]_vars

(* The node of the queue keeps executing tasks, and time passes. *)
Fairness == WF_vars(Dequeue) /\ WF_vars(Tick)

FairSpec == Spec /\ Fairness
-----------------------------------------------------------------------------
(* Types of the state. *)
TypeOK ==
    /\ queue \in Ring
    /\ result[1] \in {"new", "enqueue", "dequeue", "delete", "clear"}
    /\ result[2] \in Data \union {Undefined}

(* The slots of the array that hold an entry are the `size` ones from       *)
(* `start` on: the index arithmetic of enqueue, dequeue and delete, which   *)
(* wraps around, neither loses an entry nor keeps one that has left.        *)
LiveSlots == \A s \in Slot : queue.nodeArray[s] # Undefined <=> Offset(queue, s) < queue.size

(* What FixedPriorityQueue keeps of the order of priority, for any aging    *)
(* factor, though each enqueue compares the entries by the factor of the    *)
(* load it finds: a less urgent entry that came first is served first only  *)
(* if it had waited, when the more urgent one came, long enough to be as    *)
(* urgent at the highest load.  (An entry at the bound on ages may be older *)
(* than the model tells.)                                                   *)
ServedByPriority ==
    \A i, j \in 1..queue.size :
        LET front == Contents(queue)[i]
            back == Contents(queue)[j]
        IN  i < j /\ back.age < front.age /\ front.age < MaxAge =>
                front.priority - (front.age - back.age) * AgingFactor[Capacity - 1]
                    <= back.priority

(* What it keeps of the order of arrival: an entry that came later is       *)
(* served first only if the earlier one had then waited less than makes the *)
(* least urgent priority overtake it at the lowest load.  No entry can be   *)
(* overtaken for ever, though the load changes between the enqueues and an  *)
(* entry behind is not compared once a less urgent one is found before it.  *)
AgingLimitsOvertaking ==
    \A i, j \in 1..queue.size :
        LET front == Contents(queue)[i]
            back == Contents(queue)[j]
        IN  i < j /\ front.age < back.age =>
                \E least \in Priority :
                    (back.age - front.age) * AgingFactor[1] < least - front.priority

(* Aging rules starvation out: every queued item leaves the queue, whatever *)
(* more urgent ones keep coming.                                            *)
NoStarvation == \A d \in Data : Holds(d) ~> ~Holds(d)

(* The queue is a list.                                                     *)
items == Items(queue)

List == INSTANCE ListQueue WITH Fifo <- ~EnablePriority

(* Implementation of ListQueue: each call does to the ring buffer what it   *)
(* promises of a list, in particular dequeue() takes the first entry and    *)
(* finds none only in an empty queue.                                       *)
ListSpec == List!Spec
=============================================================================
