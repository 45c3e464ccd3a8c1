---------------------------- MODULE MCTasksQueue ----------------------------
(***************************************************************************)
(* TasksQueue on small instances: two nodes, and queues of one or two      *)
(* tasks, so that back pressure begins and ends.                           *)
(***************************************************************************)
EXTENDS TasksQueue

Small == [size |-> 1, concurrency |-> 1]

Large == [size |-> 2, concurrency |-> 2]

TwoOptions == {Small, Large}
=============================================================================
