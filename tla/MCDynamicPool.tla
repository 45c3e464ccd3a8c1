--------------------------- MODULE MCDynamicPool ---------------------------
(***************************************************************************)
(* DynamicPool on small instances.  Each task is submitted once and worker *)
(* identities are used again: the state is bounded though workers come and *)
(* go, and pools are destroyed and started, without end.                   *)
(***************************************************************************)
EXTENDS DynamicPool

CONSTANTS t1, t2, t3
=============================================================================
