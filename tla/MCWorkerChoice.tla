--------------------------- MODULE MCWorkerChoice ---------------------------
(***************************************************************************)
(* WorkerChoice on small instances.  The history rounds one run time, and  *)
(* holds multiples of 2, so that averages of two are whole; weights are    *)
(* reached by two tasks, one of them exactly.  MaxTasks and MaxTime bound  *)
(* the state: statistics and the clock would grow without end.             *)
(***************************************************************************)
EXTENDS WorkerChoice

Plain == [strategy |-> None, keys |-> {}]

OneNode == [strategy |-> None, keys |-> {MaxSize - 1}]

SomeNodes == [strategy |-> None, keys |-> {0, MaxSize - 1}]

Functions3 == {Plain, OneNode, SomeNodes}

PlainOnly == {Plain}

Equal == [median |-> FALSE, weights |-> [key \in WorkerNodeKey |-> 3]]

Uneven == [median |-> TRUE, weights |-> [key \in WorkerNodeKey |-> 2 + key]]

BothOptions == {Equal, Uneven}

UnevenOnly == {Uneven}

EqualOnly == {Equal}

TwoCosts == {2, 5}

Rounded == [number \in TwoCosts |-> IF number = 5 THEN 6 ELSE number]
=============================================================================
