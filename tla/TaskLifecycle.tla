---------------------------- MODULE TaskLifecycle ----------------------------
(***************************************************************************)
(* What a pool promises of the tasks it is given, whatever it does with    *)
(* them: a task waits in a queue, is dispatched to a worker once, and its  *)
(* promise settles once.  Only a waiting task may be rejected unseen; a    *)
(* dispatched one settles by the answer of a worker and never waits again. *)
(* A call or an answer may make the pool dispatch any of the tasks that    *)
(* wait.                                                                   *)
(***************************************************************************)
CONSTANT Task

VARIABLE life

States == {"new", "waiting", "dispatched", "resolved", "rejected"}

Waiting == {t \in Task : life[t] = "waiting"}

Move(t, state, D) ==
    life' = [u \in Task |-> IF u = t THEN state
                            ELSE IF u \in D THEN "dispatched" ELSE life[u]]

Init == life = [t \in Task |-> "new"]

(* A task is accepted *)
Accept(t, D) ==
    /\ life[t] = "new"
    /\ \E state \in {"waiting", "dispatched"} : Move(t, state, D)

(* A waiting task is aborted *)
Cancel(t) ==
    /\ life[t] = "waiting"
    /\ Move(t, "rejected", {})

(* A worker answered *)
Settle(t, D) ==
    /\ life[t] = "dispatched"
    /\ \E state \in {"resolved", "rejected"} : Move(t, state, D)

(* Waiting tasks are dispatched *)
Dispatch(t, D) ==
    /\ t \in D
    /\ Move(t, "dispatched", D)

Next ==
    \E t \in Task :
        \/ Cancel(t)
        \/ \E D \in SUBSET Waiting : Accept(t, D) \/ Settle(t, D) \/ Dispatch(t, D)

Spec == Init /\ [][Next]_life
=============================================================================
