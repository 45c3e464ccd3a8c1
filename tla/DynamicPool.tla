---------------------------- MODULE DynamicPool ----------------------------
(***************************************************************************)
(* The workers of a pool come and go: DynamicThreadPool                    *)
(* (src/pools/thread/dynamic.ts) over AbstractPool                         *)
(* (src/pools/abstract-pool.ts) with `enableTasksQueue: false`, and the    *)
(* life of a thread worker (src/worker/abstract-worker.ts).                *)
(*                                                                         *)
(* A worker node key is an index into workerNodes.  When a node leaves the *)
(* array, the keys of the nodes behind it change, while keys kept across   *)
(* an `await`, or in promiseResponseMap, do not: the model keeps the array *)
(* and the identities of the workers apart.                                *)
(*                                                                         *)
(* A handler, with the microtasks that follow it, is one action.  An       *)
(* identity is used again once its worker is terminated: nothing but keys  *)
(* outlives a worker.  Any ready node may be chosen for a task, as by the  *)
(* worker choice strategies.                                               *)
(***************************************************************************)
EXTENDS Integers, Sequences, FiniteSets

CONSTANTS
    Min, Max,              \* minimumNumberOfWorkers, maximumNumberOfWorkers
    Task,                  \* the tasks a user may submit
    NoTask,                \* of a message without a task
    KillBehavior,          \* killBehavior of the workers
    KillOutcome,           \* how killHandler may end: "none" answers too late
    RestartWorkerOnError,  \* restartWorkerOnError
    WorkerErrors           \* whether workers meet uncaught errors

ASSUME DynamicPoolAssumption ==
    /\ Min \in Nat /\ Max \in Nat \ {0} /\ Min <= Max
    /\ NoTask \notin Task
    /\ KillBehavior \in {"HARD", "SOFT"}
    /\ KillOutcome \subseteq {"success", "failure", "none"} /\ KillOutcome # {}
    /\ RestartWorkerOnError \in BOOLEAN
    /\ WorkerErrors \in BOOLEAN

(* An erring worker is replaced before it leaves: one more than Max at once *)
Worker == 1..Max+1

VARIABLES
    pool,     \* workerNodes and, of each worker, node and thread
    status,   \* "started", "destroying" or "stopped"
    entry,    \* task -> worker node key in promiseResponseMap, or NoKey
    promise   \* the promise of `execute`; "refused": no node was chosen

vars == <<pool, status, entry, promise>>

NoKey == 0

Signal(kind) == [kind |-> kind, task |-> NoTask]

ToWorker ==
    [kind : {"startup", "kill"}, task : {NoTask}]
      \union [kind : {"task"}, task : Task]

ToMain ==
    [kind : {"ready", "kill", "success", "failure"}, task : {NoTask}]
      \union [kind : {"response"}, task : Task]

Thread ==
    [ready : BOOLEAN,                \* info.ready
     dynamic : BOOLEAN,              \* info.dynamic
     executing : Nat,                \* usage.tasks.executing
     killKey : Nat,                  \* key the kill message listener waits with
     toWorker : Seq(ToWorker),
     fromWorker : Seq(ToMain),
     running : SUBSET Task,          \* tasks the worker is running
     listening : BOOLEAN,            \* the worker's end of the port is open
     active : BOOLEAN]               \* the worker has its activity interval

PoolState == [nodes : Seq(Worker), node : [Worker -> Thread]]

NewNode(dynamic, ready) ==
    [ready |-> ready, dynamic |-> dynamic, executing |-> 0, killKey |-> NoKey,
     toWorker |-> <<Signal("startup")>>, fromWorker |-> <<>>, running |-> {},
     listening |-> TRUE, active |-> FALSE]

NoNode == [NewNode(FALSE, FALSE) EXCEPT !.toWorker = <<>>, !.listening = FALSE]

-----------------------------------------------------------------------------
(* Conditions *)

Members(s) == {s.nodes[k] : k \in DOMAIN s.nodes}

KeyOf(s, w) == CHOOSE k \in DOMAIN s.nodes : s.nodes[k] = w

Static(s) == {w \in Members(s) : ~s.node[w].dynamic}

IsBusy(s, w) == s.node[w].ready /\ s.node[w].executing > 0

IsIdle(s, w) == s.node[w].ready /\ s.node[w].executing = 0

InternalBusy(s) == s.nodes # <<>> /\ \A w \in Members(s) : IsBusy(s, w)

ShallCreateDynamicWorker(s) ==
    /\ status = "started"
    /\ \/ Len(s.nodes) < Max /\ InternalBusy(s)
       \/ Min = 0 /\ s.nodes = <<>>

-----------------------------------------------------------------------------
(* Operations on the worker nodes *)

(* n new workers at the end of the array *)
Created(s, n, dynamic, ready) ==
    LET new == CHOOSE f \in [1..n -> Worker \ Members(s)] :
                   \A i, j \in 1..n : f[i] = f[j] => i = j
    IN  [nodes |-> s.nodes \o new,
         node |-> [w \in Worker |-> IF \E i \in 1..n : new[i] = w
                                    THEN NewNode(dynamic, ready) ELSE s.node[w]]]

DynamicWorkerCreated(s) == Created(s, 1, TRUE, TRUE)

DynamicWorkerIfNeeded(s) ==
    IF ShallCreateDynamicWorker(s) THEN DynamicWorkerCreated(s) ELSE s

(* startMinimumNumberOfWorkers.  Workers are ready at once at pool startup *)
MinimumStarted(s, ready) ==
    Created(s, Min - Cardinality(Static(s)), FALSE, ready)

Posted(s, w, m) ==
    IF s.node[w].listening
    THEN [s EXCEPT !.node[w].toWorker = Append(@, m)]
    ELSE s

ExecuteTask(s, w, t) ==
    Posted([s EXCEPT !.node[w].executing = @ + 1], w, [kind |-> "task", task |-> t])

TerminatedForGood(s, w) ==  \* faulty: a static worker is not replaced
    LET k == KeyOf(s, w)
    IN  [nodes |-> SubSeq(s.nodes, 1, k - 1) \o SubSeq(s.nodes, k + 1, Len(s.nodes)),
         node |-> [s.node EXCEPT ![w] = NoNode]]

TerminatedReplaced(s, w) ==  \* faulty: replaced also while the pool is being destroyed
    LET k == KeyOf(s, w)
    IN  MinimumStarted(
            [nodes |-> SubSeq(s.nodes, 1, k - 1) \o SubSeq(s.nodes, k + 1, Len(s.nodes)),
             node |-> [s.node EXCEPT ![w] = NoNode]], FALSE)

(* terminate() and the `exit` event it dispatches: the ports are closed, the *)
(* node leaves the array and, in a started pool, static ones are replaced.   *)
Terminated(s, w) ==
    LET k == KeyOf(s, w)
        left == [nodes |-> SubSeq(s.nodes, 1, k - 1) \o SubSeq(s.nodes, k + 1, Len(s.nodes)),
                 node |-> [s.node EXCEPT ![w] = NoNode]]
    IN  IF status = "started" THEN MinimumStarted(left, FALSE) ELSE left

DestroyedStillReady(s, w) ==  \* faulty: the node still takes tasks
    Posted([s EXCEPT !.node[w].killKey = IF @ = NoKey THEN KeyOf(s, w) ELSE @],
           w, Signal("kill"))

(* destroyWorkerNode up to its wait for the answer.  Without a tasks queue  *)
(* nothing is flushed and no task is waited for.  Of several calls for one  *)
(* node the first has the highest key, so its listener fires first.         *)
Destroyed(s, w) ==
    Posted([s EXCEPT !.node[w].ready = FALSE,
                     !.node[w].killKey = IF @ = NoKey THEN KeyOf(s, w) ELSE @],
           w, Signal("kill"))

DestroyedAll(s) ==
    [s EXCEPT !.node = [w \in Worker |->
        IF w \in Members(s) THEN Destroyed(s, w).node[w] ELSE @[w]]]

(* The kill message listener of sendKillMessageToWorker sees a message of   *)
(* kind `kind`: any one will do if, by now, its key is beyond the array.    *)
KillListened(s, w, kind) ==
    LET key == pool.node[w].killKey
    IN  IF key # NoKey /\ (kind = "success" \/ key > Len(pool.nodes))
        THEN Terminated(s, w)
        ELSE IF key # NoKey /\ kind = "failure"
        THEN [s EXCEPT !.node[w].killKey = NoKey]
        ELSE s

Received(w) == [pool EXCEPT !.node[w].fromWorker = Tail(@)]

FromWorker(w, kind) ==
    /\ pool.node[w].fromWorker # <<>>
    /\ Head(pool.node[w].fromWorker).kind = kind

-----------------------------------------------------------------------------
Init ==
    /\ status = "started"
    /\ pool = MinimumStarted([nodes |-> <<>>, node |-> [w \in Worker |-> NoNode]], TRUE)
    /\ entry = [t \in Task |-> NoKey]
    /\ promise = [t \in Task |-> "none"]

(* execute(): chooseWorkerNode creates a dynamic worker when the pool is    *)
(* busy or empty; without a ready node the choice throws after its retries. *)
Submit(t) ==
    /\ status = "started"
    /\ promise[t] = "none"
    /\ \E s \in {DynamicWorkerIfNeeded(pool)} :
        \/ \E k \in DOMAIN s.nodes :
            /\ s.node[s.nodes[k]].ready
            /\ pool' = ExecuteTask(s, s.nodes[k], t)
            /\ entry' = [entry EXCEPT ![t] = k]
            /\ promise' = [promise EXCEPT ![t] = "pending"]
        \/ /\ \A w \in Members(s) : ~s.node[w].ready
           /\ pool' = s
           /\ promise' = [promise EXCEPT ![t] = "refused"]
           /\ UNCHANGED entry
    /\ UNCHANGED status

(* The worker handles its next message *)
WorkerMessage(w) ==
    LET m == Head(pool.node[w].toWorker)
        read == [pool EXCEPT !.node[w].toWorker = Tail(@)]
    IN  /\ pool.node[w].toWorker # <<>>
        /\ \/ /\ m.kind = "startup"  \* with the checkActive message behind it
              /\ pool' = [read EXCEPT !.node[w].fromWorker = Append(@, Signal("ready")),
                                      !.node[w].active = read.node[w].dynamic]
           \/ /\ m.kind = "task"
              /\ pool' = [read EXCEPT !.node[w].running = @ \union {m.task}]
           \/ /\ m.kind = "kill"
              /\ \E outcome \in KillOutcome :
                  pool' = [read EXCEPT
                      !.node[w].active = FALSE,
                      !.node[w].listening = FALSE,
                      !.node[w].toWorker = <<>>,
                      !.node[w].fromWorker =
                          IF outcome = "none" THEN @ ELSE Append(@, Signal(outcome))]
        /\ UNCHANGED <<status, entry, promise>>

(* A task function ends; its response is lost if the port is closed *)
WorkerFinish(w, t) ==
    /\ t \in pool.node[w].running
    /\ pool' = [pool EXCEPT
           !.node[w].running = @ \ {t},
           !.node[w].fromWorker =
               IF pool.node[w].listening
               THEN Append(@, [kind |-> "response", task |-> t]) ELSE @]
    /\ UNCHANGED <<status, entry, promise>>

(* maxInactiveTime has passed since the last task of the worker ended, or   *)
(* since it started: it asks to be killed, and asks again every half of     *)
(* that time.  Bound: MaxKills requests and kill messages under way.        *)
MaxKills == 2

KillsIn(port) == {i \in DOMAIN port : port[i].kind = "kill"}

CheckActive(w) ==
    /\ pool.node[w].active
    /\ Cardinality(KillsIn(pool.node[w].toWorker))
         + Cardinality(KillsIn(pool.node[w].fromWorker)) < MaxKills
    /\ pool' = [pool EXCEPT !.node[w].fromWorker = Append(@, Signal("kill"))]
    /\ UNCHANGED <<status, entry, promise>>

WorkerReady(w) ==
    /\ FromWorker(w, "ready")
    /\ LET s == [Received(w) EXCEPT !.node[w].ready = @ \/ status # "destroying"]
       IN  pool' = KillListened(s, w, "ready")
    /\ UNCHANGED <<status, entry, promise>>

(* The node accounted for is the one with the key the task was submitted to *)
Unexecute(s, k) ==
    IF k \in DOMAIN s.nodes /\ s.node[s.nodes[k]].executing > 0
    THEN [s EXCEPT !.node[s.nodes[k]].executing = @ - 1]
    ELSE s

TaskExecutionResponse(w) ==
    LET t == Head(pool.node[w].fromWorker).task
    IN  /\ FromWorker(w, "response")
        /\ pool' = KillListened(DynamicWorkerIfNeeded(Unexecute(Received(w), entry[t])),
                                w, "response")
        /\ entry' = [entry EXCEPT ![t] = NoKey]
        /\ promise' = [promise EXCEPT ![t] = "settled"]
        /\ UNCHANGED status

(* The listener of a dynamic worker gets a request to kill it *)
KillRequestSoftAsHard(w) ==  \* faulty: no test whether the node is idle
    LET s == Received(w)
    IN  /\ FromWorker(w, "kill")
        /\ pool' = KillListened(
               IF status = "started" THEN Destroyed(s, w) ELSE s, w, "kill")
        /\ UNCHANGED <<status, entry, promise>>

KillRequest(w) ==
    LET s == Received(w)
    IN  /\ FromWorker(w, "kill")
        /\ pool' = KillListened(
               IF status # "destroying" /\ (KillBehavior = "HARD" \/ IsIdle(s, w))
               THEN Destroyed(s, w) ELSE s,
               w, "kill")
        /\ UNCHANGED <<status, entry, promise>>

KillAnswer(w) ==
    /\ \E outcome \in {"success", "failure"} :
        /\ FromWorker(w, outcome)
        /\ pool' = KillListened(Received(w), w, outcome)
    /\ UNCHANGED <<status, entry, promise>>

KillTimeoutNever(w) == FALSE /\ UNCHANGED vars  \* faulty: waits for an answer

(* 1 s without an answer to the kill message *)
KillTimeout(w) ==
    /\ pool.node[w].killKey # NoKey
    /\ pool' = Terminated(pool, w)
    /\ UNCHANGED <<status, entry, promise>>

(* onerror of a worker node *)
WorkerError(w) ==
    /\ WorkerErrors
    /\ w \in Members(pool)
    /\ LET s == [pool EXCEPT !.node[w].ready = FALSE]
           restarted == IF pool.node[w].dynamic
                        THEN DynamicWorkerCreated(s) ELSE MinimumStarted(s, FALSE)
       IN  pool' = Terminated(IF status = "started" /\ RestartWorkerOnError
                              THEN restarted ELSE s, w)
    /\ UNCHANGED <<status, entry, promise>>

(* destroy() and its end, once every node has been killed or waited for *)
Destroy ==
    /\ status = "started"
    /\ status' = "destroying"
    /\ pool' = DestroyedAll(pool)
    /\ UNCHANGED <<entry, promise>>

DestroyEnd ==
    /\ status = "destroying"
    /\ \A w \in Worker : pool.node[w].killKey = NoKey
    /\ status' = "stopped"
    /\ UNCHANGED <<pool, entry, promise>>

Start ==
    /\ status = "stopped"
    /\ status' = "started"
    /\ pool' = MinimumStarted(pool, TRUE)
    /\ UNCHANGED <<entry, promise>>

MainMessage(w) ==
    \/ WorkerReady(w)
    \/ TaskExecutionResponse(w)
    \/ KillRequest(w)
    \/ KillAnswer(w)

Next ==
    \/ \E t \in Task : Submit(t)
    \/ \E w \in Worker : WorkerMessage(w)
    \/ \E w \in Worker, t \in Task : WorkerFinish(w, t)
    \/ \E w \in Worker : CheckActive(w)
    \/ \E w \in Worker : MainMessage(w)
    \/ \E w \in Worker : KillTimeout(w)
    \/ \E w \in Worker : WorkerError(w)
    \/ Destroy
    \/ DestroyEnd
    \/ Start

Spec == Init /\ [][Next]_vars

(* Ports deliver, task functions end, intervals and timeouts elapse; nothing *)
(* makes the user submit, destroy or start, and no worker has to fail.       *)
Fairness ==
    /\ \A w \in Worker : /\ WF_vars(WorkerMessage(w))
                         /\ WF_vars(CheckActive(w))
                         /\ WF_vars(MainMessage(w))
                         /\ WF_vars(KillTimeout(w))
    /\ \A w \in Worker, t \in Task : WF_vars(WorkerFinish(w, t))
    /\ WF_vars(DestroyEnd)

FairSpec == Spec /\ Fairness
-----------------------------------------------------------------------------
(* Tasks the worker w was sent and whose responses are not handled yet *)
Carried(port, kind) == {t \in Task : \E i \in DOMAIN port : port[i] = [kind |-> kind, task |-> t]}

InFlight(w) ==
    Carried(pool.node[w].toWorker, "task")
      \union pool.node[w].running
      \union Carried(pool.node[w].fromWorker, "response")

(* Types of the state. *)
TypeOK ==
    /\ pool \in PoolState
    /\ status \in {"started", "destroying", "stopped"}
    /\ entry \in [Task -> Nat]
    /\ promise \in [Task -> {"none", "pending", "settled", "refused"}]

(* The number of workers stays within the bounds of the pool, whatever      *)
(* creations (chooseWorkerNode, a response, an error, an exit) and removals *)
(* come together.                                                           *)
SizeWithinBounds ==
    /\ TypeOK
    /\ Len(pool.nodes) <= Max
    /\ status = "started" => Cardinality(Static(pool)) = Min

(* A worker killed softly in a pool in use has no task left: none is sent   *)
(* to it, running on it or answered and not yet settled.                    *)
SoftKillSparesTasks ==
    KillBehavior = "SOFT" /\ status = "started" =>
        \A w \in Members(pool) : pool.node[w].killKey # NoKey => InFlight(w) = {}

(* destroy() leaves no worker behind.                                       *)
DestroyedPoolIsEmpty == status = "stopped" => pool.nodes = <<>>

(* A started pool always finds a worker for a task, and the promise of a    *)
(* task given to a worker settles, unless the user destroys the pool.       *)
TaskSettles ==
    \A t \in Task : (promise[t] = "refused" \/ \E w \in Worker : t \in InFlight(w))
                      ~> promise[t] = "settled" \/ status # "started"

(* The pool always shrinks to its minimum again: dynamic workers die.       *)
PoolShrinks == []<>(Len(pool.nodes) <= Min)

(* destroy() ends, whatever the kill handlers and the workers do.           *)
DestroyEnds == status = "destroying" ~> status = "stopped"
=============================================================================
