-------------------------- MODULE MCTaskFunctions --------------------------
(***************************************************************************)
(* TaskFunctions on small instances: two workers or three at once, two     *)
(* names, and calls enough to add, make default and remove one of them.    *)
(***************************************************************************)
EXTENDS TaskFunctions
=============================================================================
