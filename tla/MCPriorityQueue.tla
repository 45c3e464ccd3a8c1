--------------------------- MODULE MCPriorityQueue ---------------------------
(* Instances of PriorityQueue for TLC: buckets of two entries.              *)
EXTENDS PriorityQueue, TLC

DataSymmetry == Permutations(Data)

NoAging == [s \in 0..Capacity |-> 0]
Levels == 0..1
=============================================================================
