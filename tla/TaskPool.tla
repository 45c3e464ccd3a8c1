------------------------------ MODULE TaskPool ------------------------------
(***************************************************************************)
(* Task scheduling in a started fixed pool with tasks queues:              *)
(* AbstractPool (src/pools/abstract-pool.ts) with `enableTasksQueue: true` *)
(* and `enableEvents: false`, its worker nodes (src/pools/worker-node.ts)  *)
(* and the task side of its thread workers (src/worker/abstract-worker.ts).*)
(*                                                                         *)
(* JavaScript runs a handler to completion, so a user call, a message      *)
(* event with the microtask it queues, and a timer callback are one action *)
(* each.  What interleaves is the main thread, the workers (which share    *)
(* nothing with it but two FIFO message ports each) and the timers of the  *)
(* stealing loops.                                                         *)
(*                                                                         *)
(* The worker node keys of the code are array indices; no worker leaves a  *)
(* fixed pool that is neither destroyed nor hit by a worker error, so a    *)
(* key always denotes the same node here and every node is ready.  The     *)
(* node a task is submitted to is any node: a task function may be bound   *)
(* to any worker node key.                                                 *)
(***************************************************************************)
EXTENDS Integers, Sequences, FiniteSets

CONSTANTS
    N,                      \* number of workers
    Task,                   \* the tasks a user may submit
    Abortable,              \* those submitted with an AbortSignal
    Concurrency,            \* tasksQueueOptions.concurrency
    QueueSize,              \* tasksQueueOptions.size: back pressure from there on
    TaskStealing,           \* tasksQueueOptions.taskStealing
    StealingOnBackPressure, \* tasksQueueOptions.tasksStealingOnBackPressure
    StealingPercent         \* tasksQueueOptions.tasksStealingRatio, in percent

ASSUME PoolAssumption ==
    /\ N \in Nat \ {0}
    /\ Abortable \subseteq Task
    /\ Concurrency \in Nat \ {0}
    /\ QueueSize \in Nat \ {0}
    /\ TaskStealing \in BOOLEAN
    /\ StealingOnBackPressure \in BOOLEAN
    /\ StealingPercent \in 0..100

Node == 1..N

VARIABLES
    pool,               \* the worker nodes as the main thread sees them
    timers,             \* armed sleeps of the stealing loops, per node
    promiseResponseMap, \* task -> worker node key given at submission, or NoKey
    promise,            \* the promise `execute` returned, as its user sees it
    aborted,            \* tasks whose signal has been aborted
    running,            \* tasks each worker is running
    fromWorker          \* the port from each worker to the main thread

vars == <<pool, timers, promiseResponseMap, promise, aborted, running, fromWorker>>

NoKey == 0
Status == {"ok", "error", "aborted"}
Settled == {"resolved", "rejected"}

TaskMessage(t) == [kind |-> "task", task |-> t]
AbortMessage(t) == [kind |-> "abort", task |-> t]
Message == [kind : {"task", "abort"}, task : Task]

(* What the main thread keeps of its nodes.  The flags `stealing`,          *)
(* `stolen`, `queuedTaskAbortion` and `backPressureStealing` are raised and *)
(* lowered within one handler, around calls that read none of them of the   *)
(* nodes they are raised on: no handler finds one raised.                   *)
PoolState ==
    [queue : [Node -> Seq(Task)],             \* worker-node.ts tasksQueue
     executing : [Node -> Nat],               \* usage.tasks.executing
     backPressure : [Node -> BOOLEAN],        \* info.backPressure
     continuousStealing : [Node -> BOOLEAN],  \* info.continuousStealing
     port : [Node -> Seq(Message)]]           \* messages to the worker

-----------------------------------------------------------------------------
(* Conditions *)

ShallExecuteTaskOverQuota(s, n) ==  \* faulty: one too many
    s.queue[n] = <<>> /\ s.executing[n] <= Concurrency

ShallExecuteTask(s, n) == s.queue[n] = <<>> /\ s.executing[n] < Concurrency

IsBusy(s, n) == s.executing[n] >= Concurrency

IsIdle(s, n) == s.executing[n] = 0 /\ s.queue[n] = <<>>

CannotStealTask(s) == N <= 1 \/ \A n \in Node : s.queue[n] = <<>>

PoolBackPressure(s) == \A n \in Node : s.backPressure[n]

IsStealingRatioReached(s) ==
    \/ StealingPercent = 0
    \/ Cardinality({n \in Node : s.continuousStealing[n]})
         > (N * StealingPercent + 99) \div 100

-----------------------------------------------------------------------------
(* Operations on the nodes *)

BeforeTaskExecution(s, n) == [s EXCEPT !.executing[n] = @ + 1]

ExecuteTaskUncounted(s, n, t) ==  \* faulty: beforeTaskExecutionHook is forgotten
    [s EXCEPT !.port[n] = Append(@, TaskMessage(t))]

ExecuteTask(s, n, t) ==
    [BeforeTaskExecution(s, n) EXCEPT !.port[n] = Append(@, TaskMessage(t))]

DequeueTaskPeeking(s, n) ==  \* faulty: the task stays in the queue
    [s EXCEPT !.backPressure[n] = @ /\ Len(Tail(s.queue[n])) >= QueueSize]

(* The queue without its next task, Head(s.queue[n]).  Below one bucket of *)
(* the priority queue the task to steal is that one too.                   *)
DequeueTask(s, n) ==
    [s EXCEPT !.queue[n] = Tail(@),
              !.backPressure[n] = @ /\ Len(Tail(s.queue[n])) >= QueueSize]

(* Stealing on back pressure.  The handler visits the other nodes by        *)
(* ascending queue length and gives each that is far enough from its own    *)
(* back pressure the next task of the node in trouble, until that one has   *)
(* no queued task left.  The lengths are those of the start: a receiver is  *)
(* visited once.                                                            *)
Receiver(s, src) == {d \in Node \ {src} : Len(s.queue[d]) < QueueSize - 1}

ServedBefore(s, d, e) ==
    \/ Len(s.queue[d]) < Len(s.queue[e])
    \/ Len(s.queue[d]) = Len(s.queue[e]) /\ d < e

ServiceOrder(s, src) ==
    {o \in UNION {[1..m -> Receiver(s, src)] : m \in 0..Len(s.queue[src])} :
        /\ \A i, j \in DOMAIN o : i < j => ServedBefore(s, o[i], o[j])
        /\ \A d \in Receiver(s, src) \ {o[i] : i \in DOMAIN o} :
               /\ Len(o) = Len(s.queue[src])
               /\ \A i \in DOMAIN o : ServedBefore(s, o[i], d)}

Distribute(s, src, o) ==
    LET served(d) == \E i \in DOMAIN o : o[i] = d
        given(d) == s.queue[src][CHOOSE i \in DOMAIN o : o[i] = d]
        left == SubSeq(s.queue[src], Len(o) + 1, Len(s.queue[src]))
    IN  [s EXCEPT
          !.queue = [d \in Node |->
              IF d = src THEN left
              ELSE IF served(d) /\ ~ShallExecuteTask(s, d)
                   THEN Append(@[d], given(d)) ELSE @[d]],
          !.executing = [d \in Node |->
              IF served(d) /\ ShallExecuteTask(s, d) THEN @[d] + 1 ELSE @[d]],
          !.port = [d \in Node |->
              IF served(d) /\ ShallExecuteTask(s, d)
              THEN Append(@[d], TaskMessage(given(d))) ELSE @[d]],
          !.backPressure[src] = @ /\ Len(left) >= QueueSize]

(* The pool states the event may leave: one, the order being total.         *)
BackPressureEvent(s, src) ==
    IF \/ ~StealingOnBackPressure
       \/ CannotStealTask(s)
       \/ PoolBackPressure(s)
       \/ IsStealingRatioReached(s)
       \/ QueueSize <= 1
    THEN {s}
    ELSE {Distribute(s, src, o) : o \in ServiceOrder(s, src)}

EnqueueTaskLate(s, n, t) ==  \* faulty: flagged one task too late, no event
    {[s EXCEPT !.queue[n] = Append(@, t),
               !.backPressure[n] = @ \/ Len(s.queue[n]) >= QueueSize]}

EnqueueTask(s, n, t) ==
    LET e == [s EXCEPT !.queue[n] = Append(@, t),
                       !.backPressure[n] = @ \/ Len(s.queue[n]) + 1 >= QueueSize]
    IN  IF e.backPressure[n] /\ ~s.backPressure[n]
        THEN BackPressureEvent(e, n)
        ELSE {e}

HandleTask(s, n, t) ==
    IF ShallExecuteTask(s, n) THEN {ExecuteTask(s, n, t)} ELSE EnqueueTask(s, n, t)

(* The nodes an idle one may steal from: the first with the longest queue.  *)
StealSource(s, n) ==
    {src \in Node \ {n} :
        /\ s.queue[src] # <<>>
        /\ \A m \in Node \ {n} : \/ Len(s.queue[m]) < Len(s.queue[src])
                                 \/ Len(s.queue[m]) = Len(s.queue[src]) /\ src <= m}

StealTask(s, src, n) == HandleTask(DequeueTask(s, src), n, Head(s.queue[src]))

WorkerNodeStealTask(s, n) ==
    IF StealSource(s, n) = {}
    THEN {s}
    ELSE UNION {StealTask(s, src, n) : src \in StealSource(s, n)}

-----------------------------------------------------------------------------
Init ==
    /\ pool = [queue |-> [n \in Node |-> <<>>],
               executing |-> [n \in Node |-> 0],
               backPressure |-> [n \in Node |-> FALSE],
               continuousStealing |-> [n \in Node |-> FALSE],
               port |-> [n \in Node |-> <<>>]]
    /\ timers = [n \in Node |-> 0]
    /\ promiseResponseMap = [t \in Task |-> NoKey]
    /\ promise = [t \in Task |-> "none"]
    /\ aborted = {}
    /\ running = [n \in Node |-> {}]
    /\ fromWorker = [n \in Node |-> <<>>]

(* execute(): the task goes to the worker of the chosen node or to its queue *)
Submit(t, n) ==
    /\ promise[t] = "none"
    /\ promise' = [promise EXCEPT ![t] = "pending"]
    /\ promiseResponseMap' = [promiseResponseMap EXCEPT ![t] = n]
    /\ pool' \in HandleTask(pool, n, t)
    /\ UNCHANGED <<timers, aborted, running, fromWorker>>

(* The user aborts the signal of a task whose promise is pending: a queued  *)
(* task is deleted from the queue of the node it was submitted to, else the *)
(* worker of that node is told.                                             *)
AbortQueuedTaskKept(t, n) ==  \* faulty: rejected, but not deleted
    \E i \in DOMAIN pool.queue[n] :
        /\ pool.queue[n][i] = t
        /\ promise' = [promise EXCEPT ![t] = "rejected"]
        /\ UNCHANGED <<pool, promiseResponseMap>>

AbortQueuedTask(t, n) ==
    \E i \in DOMAIN pool.queue[n] :
        /\ pool.queue[n][i] = t
        /\ pool' = [pool EXCEPT !.queue[n] =
                        SubSeq(@, 1, i - 1) \o SubSeq(@, i + 1, Len(@))]
        /\ promiseResponseMap' = [promiseResponseMap EXCEPT ![t] = NoKey]
        /\ promise' = [promise EXCEPT ![t] = "rejected"]

AbortTaskUnqueued(t) ==  \* faulty: does not look into the queue
    /\ t \in Abortable \ aborted
    /\ promiseResponseMap[t] # NoKey
    /\ aborted' = aborted \union {t}
    /\ pool' = [pool EXCEPT !.port[promiseResponseMap[t]] = Append(@, AbortMessage(t))]
    /\ UNCHANGED <<promiseResponseMap, promise, timers, running, fromWorker>>

AbortTaskAtOnce(t) ==  \* faulty: rejects whatever became of the task
    /\ t \in Abortable \ aborted
    /\ promiseResponseMap[t] # NoKey
    /\ aborted' = aborted \union {t}
    /\ promise' = [promise EXCEPT ![t] = "rejected"]
    /\ UNCHANGED <<pool, promiseResponseMap, timers, running, fromWorker>>

AbortTask(t) ==
    /\ t \in Abortable \ aborted
    /\ promiseResponseMap[t] # NoKey
    /\ aborted' = aborted \union {t}
    /\ LET n == promiseResponseMap[t]
       IN  \/ AbortQueuedTask(t, n)
           \/ /\ \A i \in DOMAIN pool.queue[n] : pool.queue[n][i] # t
              /\ pool' = [pool EXCEPT !.port[n] = Append(@, AbortMessage(t))]
              /\ UNCHANGED <<promiseResponseMap, promise>>
    /\ UNCHANGED <<timers, running, fromWorker>>

Run(n, t) ==
    /\ running' = [running EXCEPT ![n] = @ \union {t}]
    /\ UNCHANGED fromWorker

Respond(n, t, status) ==
    /\ t \in running[n]
    /\ running' = [running EXCEPT ![n] = @ \ {t}]
    /\ fromWorker' = [fromWorker EXCEPT ![n] =
                          Append(@, [task |-> t, status |-> status])]

(* The worker handles a message: it starts an asynchronous task function,   *)
(* or rejects the promise that wraps the one to abort, if it runs it.  (A   *)
(* synchronous function is one that finishes before any other message.)     *)
WorkerMessageSilent(n) ==  \* faulty: an aborted task sends no response
    LET m == Head(pool.port[n])
    IN  /\ pool.port[n] # <<>>
        /\ pool' = [pool EXCEPT !.port[n] = Tail(@)]
        /\ running' = [running EXCEPT ![n] =
                IF m.kind = "task" THEN @ \union {m.task} ELSE @ \ {m.task}]
        /\ UNCHANGED <<fromWorker, timers, promiseResponseMap, promise, aborted>>

WorkerMessage(n) ==
    LET m == Head(pool.port[n])
    IN  /\ pool.port[n] # <<>>
        /\ pool' = [pool EXCEPT !.port[n] = Tail(@)]
        /\ \/ m.kind = "task" /\ Run(n, m.task)
           \/ m.kind = "abort" /\ Respond(n, m.task, "aborted")
           \/ /\ m.kind = "abort" /\ m.task \notin running[n]
              /\ UNCHANGED <<running, fromWorker>>
        /\ UNCHANGED <<timers, promiseResponseMap, promise, aborted>>

(* A task function returns or throws: its worker sends the response *)
WorkerFinish(n, t) ==
    /\ \E status \in {"ok", "error"} : Respond(n, t, status)
    /\ UNCHANGED <<pool, timers, promiseResponseMap, promise, aborted>>

(* handleWorkerNodeIdleEvent: of a node that just became idle, or of one    *)
(* whose stealing loop wakes up.  `armed` counts the sleeps left on node n. *)
IdleEventFlagKept(s, n, armed) ==  \* faulty: the loop ends with its flag raised
    IF \/ s.continuousStealing[n] /\ ~IsIdle(s, n)
       \/ ~s.continuousStealing[n] /\ (CannotStealTask(s) \/ IsStealingRatioReached(s))
    THEN /\ pool' = s
         /\ timers' = [timers EXCEPT ![n] = armed]
    ELSE /\ pool' \in WorkerNodeStealTask([s EXCEPT !.continuousStealing[n] = TRUE], n)
         /\ timers' = [timers EXCEPT ![n] = armed + 1]

IdleEvent(s, n, armed) ==
    IF ~s.continuousStealing[n] /\ (CannotStealTask(s) \/ IsStealingRatioReached(s))
    THEN /\ pool' = s
         /\ timers' = [timers EXCEPT ![n] = armed]
    ELSE IF s.continuousStealing[n] /\ ~IsIdle(s, n)
    THEN /\ pool' = [s EXCEPT !.continuousStealing[n] = FALSE]
         /\ timers' = [timers EXCEPT ![n] = armed]
    ELSE /\ pool' \in WorkerNodeStealTask([s EXCEPT !.continuousStealing[n] = TRUE], n)
         /\ timers' = [timers EXCEPT ![n] = armed + 1]

(* handleTaskExecutionResponse, its microtask included.  The node accounted *)
(* for is the one kept in promiseResponseMap, whichever worker responds.    *)
UnexecuteUnclamped(s, k) ==  \* faulty: no test for zero
    [s EXCEPT !.executing[k] = @ - 1]

Unexecute(s, k) ==
    [s EXCEPT !.executing[k] = IF @ > 0 THEN @ - 1 ELSE @]

AfterTaskExecutionOnly(k) ==  \* faulty: the next queued task is not executed
    pool' = Unexecute(pool, k) /\ UNCHANGED timers

AfterTaskExecution(k) ==
    LET s == Unexecute(pool, k)
        d == IF ~IsBusy(s, k) /\ s.queue[k] # <<>>
             THEN ExecuteTask(DequeueTask(s, k), k, Head(s.queue[k]))
             ELSE s
    IN  IF TaskStealing /\ IsIdle(d, k)
        THEN IdleEvent(d, k, timers[k])
        ELSE pool' = d /\ UNCHANGED timers

TaskExecutionResponse(n) ==
    LET m == Head(fromWorker[n])
        k == promiseResponseMap[m.task]
    IN  /\ fromWorker[n] # <<>>
        /\ fromWorker' = [fromWorker EXCEPT ![n] = Tail(@)]
        /\ IF k = NoKey
           THEN UNCHANGED <<pool, timers, promiseResponseMap, promise>>
           ELSE /\ promise' = [promise EXCEPT ![m.task] =
                        IF m.status = "ok" THEN "resolved" ELSE "rejected"]
                /\ promiseResponseMap' = [promiseResponseMap EXCEPT ![m.task] = NoKey]
                /\ AfterTaskExecution(k)
        /\ UNCHANGED <<aborted, running>>

(* The sleep of a stealing loop of node n ends *)
StealingLoop(n) ==
    /\ timers[n] > 0
    /\ IdleEvent(pool, n, timers[n] - 1)
    /\ UNCHANGED <<promiseResponseMap, promise, aborted, running, fromWorker>>

Next ==
    \/ \E t \in Task, n \in Node : Submit(t, n)
    \/ \E t \in Task : AbortTask(t)
    \/ \E n \in Node : WorkerMessage(n)
    \/ \E n \in Node, t \in Task : WorkerFinish(n, t)
    \/ \E n \in Node : TaskExecutionResponse(n)
    \/ \E n \in Node : StealingLoop(n)

Spec == Init /\ [][Next]_vars

(* Ports deliver, task functions end and sleeps elapse; nothing makes the   *)
(* user submit or abort.                                                    *)
Fairness ==
    /\ \A n \in Node : WF_vars(WorkerMessage(n))
    /\ \A n \in Node, t \in Task : WF_vars(WorkerFinish(n, t))
    /\ \A n \in Node : WF_vars(TaskExecutionResponse(n))
    /\ \A n \in Node : WF_vars(StealingLoop(n))

FairSpec == Spec /\ Fairness
-----------------------------------------------------------------------------
(* Where a submitted task may be *)
QueuePlaces(t, n) == {i \in DOMAIN pool.queue[n] : pool.queue[n][i] = t}
PortPlaces(t, n) == {i \in DOMAIN pool.port[n] : pool.port[n][i] = TaskMessage(t)}
ResponsePlaces(t, n) == {i \in DOMAIN fromWorker[n] : fromWorker[n][i].task = t}

Places(t) ==
    (UNION {{<<"queue", n>>} \X QueuePlaces(t, n) : n \in Node})
    \union (UNION {{<<"port", n>>} \X PortPlaces(t, n) : n \in Node})
    \union {<<"running", n>> : n \in {m \in Node : t \in running[m]}} \X {0}
    \union (UNION {{<<"response", n>>} \X ResponsePlaces(t, n) : n \in Node})

Queued(t) == \E n \in Node : QueuePlaces(t, n) # {}

(* The tasks handed to the worker of n whose response is not handled yet *)
InFlight(n) ==
    {t \in Task : \/ PortPlaces(t, n) # {}
                  \/ t \in running[n]
                  \/ ResponsePlaces(t, n) # {}}

-----------------------------------------------------------------------------
(* Types of the state. *)
TypeOK ==
    /\ pool \in PoolState
    /\ timers \in [Node -> Nat]
    /\ promiseResponseMap \in [Task -> Node \union {NoKey}]
    /\ promise \in [Task -> {"none", "pending"} \union Settled]
    /\ aborted \subseteq Abortable
    /\ running \in [Node -> SUBSET Task]
    /\ fromWorker \in [Node -> Seq([task : Task, status : Status])]

(* No task is lost, duplicated or run after it was settled, whatever        *)
(* executeTask, enqueueTask, dequeueTask, stealTask, redistribution on back *)
(* pressure and abortTask do with it: a task whose promise is pending is in *)
(* one queue or one port, runs on one worker or has one response under way. *)
OnePlace ==
    \A t \in Task :
        IF promise[t] = "pending" THEN \E p \in Places(t) : Places(t) = {p}
                                  ELSE Places(t) = {}

(* A promise settles once, though an abort and a response race for it in    *)
(* abortTask and handleTaskExecutionResponse.                               *)
SettleOnce ==
    [][\A t \in Task : promise[t] \in Settled => promise'[t] = promise[t]]_vars

(* No task waits in the queue of a node with a free execution slot, as the  *)
(* node counts them: what internalExecute, handleTask and the dequeue in    *)
(* handleTaskExecutionResponse maintain together, and the reason why a task *)
(* needs no other wake up call than the next response of its node.          *)
QueuedOnlyIfBusy ==
    \A n \in Node : pool.queue[n] # <<>> => pool.executing[n] >= Concurrency

(* usage.tasks.executing of a node is the number of tasks it has in flight. *)
ExecutingIsInFlight ==
    \A n \in Node : pool.executing[n] = Cardinality(InFlight(n))

(* A stolen task is accounted for on the node it runs on when it starts and *)
(* on the node it was submitted to when it ends; still, the pool as a whole *)
(* never counts fewer executing tasks than its workers have.  The sum of    *)
(* the counters is the number of pairs of a node and a number up to its     *)
(* counter.                                                                 *)
TotalExecutingCoversInFlight ==
    Cardinality(UNION {{n} \X (1..pool.executing[n]) : n \in Node})
      >= Cardinality(UNION {InFlight(n) : n \in Node})

(* A worker never has more than `concurrency` tasks at once.                *)
MaxConcurrency ==
    \A n \in Node : Cardinality(InFlight(n)) <= Concurrency

(* Aborting a signal reaches the task: once aborted, a task waits in no     *)
(* queue, and the worker it was sent to has the abort message still to read *)
(* as long as the task is to run or runs there.                             *)
AbortReachesTask ==
    \A t \in aborted :
        /\ ~Queued(t)
        /\ \A n \in Node : PortPlaces(t, n) # {} \/ t \in running[n] =>
               \E i \in DOMAIN pool.port[n] : pool.port[n][i] = AbortMessage(t)

(* A node at its back pressure size is flagged back pressured, so that      *)
(* internalBackPressure() misses none.  (After an abort deleteTask may leave *)
(* the flag raised on a shorter queue, until the next dequeueTask.)          *)
BackPressureFlagged ==
    \A n \in Node : Len(pool.queue[n]) >= QueueSize => pool.backPressure[n]

(* A node flagged as continuously stealing has a stealing loop that will    *)
(* look at it again: the flag is never left behind.                         *)
StealingLoopArmed ==
    \A n \in Node : pool.continuousStealing[n] => timers[n] > 0

(* Every promise returned by execute() settles.                             *)
EveryTaskSettles ==
    \A t \in Task : promise[t] = "pending" ~> promise[t] \in Settled

(* Every task that was sent to a worker has its promise settled, even one   *)
(* that was stolen or that is aborted while its response is under way: the  *)
(* workers finish all they were sent, and a task sent is never queued again *)
(* (LifecycleSpec).                                                         *)
DispatchedTaskSettles ==
    (\E t \in Task : promise[t] = "pending" /\ ~Queued(t))
        ~> \A t \in Task : promise[t] = "pending" => Queued(t)

(* The pool keeps the promises of TaskLifecycle.                            *)
life ==
    [t \in Task |-> IF promise[t] = "none" THEN "new"
                    ELSE IF promise[t] # "pending" THEN promise[t]
                    ELSE IF Queued(t) THEN "waiting" ELSE "dispatched"]

Lifecycle == INSTANCE TaskLifecycle

(* Implementation of TaskLifecycle: no step of the pool, with its nested    *)
(* steals, dispatches a task twice, queues a dispatched one again or        *)
(* settles one that no worker has answered and nobody aborted.              *)
LifecycleSpec == Lifecycle!Spec
=============================================================================
