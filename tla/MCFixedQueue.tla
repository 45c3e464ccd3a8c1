---------------------------- MODULE MCFixedQueue ----------------------------
(* Instances of FixedQueue for TLC: a few items, priorities and ages.       *)
EXTENDS FixedQueue

Levels == {0, 6, 12}

(* agingFactor * (1 + ((size + 1) / capacity) ** loadExponent) with an       *)
(* agingFactor of Capacity and a loadExponent of 1                           *)
LoadedAging == [s \in 0..Capacity |-> Capacity + s + 1]
=============================================================================
