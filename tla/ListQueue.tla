------------------------------ MODULE ListQueue ------------------------------
(***************************************************************************)
(* What a queue of tasks promises: a list of distinct items, what a call   *)
(* returned, and which item left by it.  With Fifo, an item enters at the  *)
(* end only.                                                               *)
(***************************************************************************)
EXTENDS Integers, Sequences

CONSTANTS Data, Undefined, Fifo

VARIABLES
    items,      \* the queued items, first to serve first
    result      \* what the last call did and returned

Init == items = <<>> /\ result = <<"new", Undefined>>

(* s with x at position k, or without its element number k *)
WithAt(s, k, x) ==
    [i \in 1..Len(s)+1 |-> IF i < k THEN s[i] ELSE IF i = k THEN x ELSE s[i - 1]]
WithoutAt(s, k) == [i \in 1..Len(s)-1 |-> IF i < k THEN s[i] ELSE s[i + 1]]

(* Each operation: the items before, the items after *)
Put(before, after) ==
    /\ result'[1] = "enqueue"
    /\ \A i \in DOMAIN before : before[i] # result'[2]
    /\ \E k \in 1..Len(before)+1 :
           /\ Fifo => k = Len(before) + 1
           /\ after = WithAt(before, k, result'[2])

(* The first item leaves, and none only if there is none *)
Take(before, after) ==
    \/ before = <<>> /\ after = <<>> /\ result' = <<"dequeue", Undefined>>
    \/ before # <<>> /\ after = Tail(before) /\ result' = <<"dequeue", Head(before)>>

(* The item named leaves, if it is there *)
DeleteItem(before, after) ==
    /\ result'[1] = "delete"
    /\ IF \E k \in DOMAIN before : before[k] = result'[2]
       THEN \E k \in DOMAIN before :
                before[k] = result'[2] /\ after = WithoutAt(before, k)
       ELSE after = before

(* A thief takes some item, and none only if there is none *)
Steal(before, after) ==
    \/ before = <<>> /\ after = <<>> /\ result' = <<"steal", Undefined>>
    \/ \E k \in DOMAIN before :
           result' = <<"steal", before[k]>> /\ after = WithoutAt(before, k)

(* The order of service changes for those to come only *)
SetOrder(before, after) == result' = <<"priority", Undefined>> /\ after = before

Clear(before, after) == result' = <<"clear", Undefined>> /\ after = <<>>

Operation(before, after) ==
    \/ Put(before, after)
    \/ Take(before, after)
    \/ DeleteItem(before, after)
    \/ Steal(before, after)
    \/ SetOrder(before, after)
    \/ Clear(before, after)

Next == \E before \in {items}, after \in {items'} : Operation(before, after)

Spec == Init /\ [][Next]_<<items, result>>
=============================================================================
