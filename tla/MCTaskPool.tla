----------------------------- MODULE MCTaskPool -----------------------------
(***************************************************************************)
(* TaskPool on small instances: tasks are model values, some abortable.    *)
(* Nothing but the number of tasks bounds the state: each is submitted     *)
(* once, and each response arms at most one sleep.                         *)
(***************************************************************************)
EXTENDS TaskPool

CONSTANTS a1, a2, b1, b2, b3
=============================================================================
