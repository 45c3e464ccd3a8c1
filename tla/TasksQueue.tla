----------------------------- MODULE TasksQueue -----------------------------
(***************************************************************************)
(* The tasks queues of a fixed pool over its life: queueing enabled,       *)
(* disabled and resized while tasks wait, workers that fail, the pool      *)
(* destroyed, and the events it emits (src/pools/abstract-pool.ts,         *)
(* src/pools/worker-node.ts, waitWorkerNodeEvents of src/pools/utils.ts).  *)
(*                                                                         *)
(* A worker node key is an index of nodes from 1; promiseResponseMap and   *)
(* the destruction of a node keep keys while nodes leave and the others    *)
(* move.  Tasks are equal in priority and none is stolen: TaskPool and the *)
(* modules of the queues are about that.  A task goes to any ready node,   *)
(* as by the worker choice strategies; with none it is refused at once.    *)
(* A worker that failed is replaced under its identity.  A handler, with   *)
(* the microtasks that follow it, is one action.                           *)
(***************************************************************************)
EXTENDS Integers, SequencesExt

CONSTANTS
    N,             \* minimumNumberOfWorkers
    Task,          \* the tasks a user may submit
    Abortable,     \* those with an abort signal
    QueueOptions,  \* tasksQueueOptions that may be set: [size, concurrency]
    InitialOptions, \* those the pool starts with
    Disabled,      \* the options while `enableTasksQueue` is false
    MaxChanges     \* bound on the changes of the options and failures of workers

ASSUME TasksQueueAssumption ==
    /\ N \in Nat \ {0}
    /\ Abortable \subseteq Task
    /\ \A o \in QueueOptions : o.size \in Nat \ {0} /\ o.concurrency \in Nat \ {0}
    /\ Disabled \notin QueueOptions
    /\ InitialOptions \in QueueOptions \union {Disabled}
    /\ MaxChanges \in Nat

Worker == 1..N

VARIABLES
    pool,      \* the worker nodes and the events emitted
    options,   \* opts.tasksQueueOptions, or Disabled
    status,    \* "started", "destroying" or "stopped"
    entry,     \* task -> worker node key in promiseResponseMap, or NoKey
    promise,   \* task -> "new", "pending" or "settled"
    ending,    \* of each worker: how far destroyWorkerNode is
    changes, failures, aborts  \* how many there were

vars == <<pool, options, status, entry, promise, ending, changes, failures, aborts>>

NoKey == 0

PoolState ==
    [nodes : Seq(Worker),
     ready : [Worker -> BOOLEAN],         \* info.ready
     queue : [Worker -> Seq(Task)],       \* tasksQueue
     limit : [Worker -> Nat],             \* tasksQueueBackPressureSize
     backPressure : [Worker -> BOOLEAN],  \* info.backPressure
     executing : [Worker -> Nat],         \* usage.tasks.executing
     running : [Worker -> SUBSET Task],   \* sent to the worker, not answered
     busyEventEmitted : BOOLEAN, backPressureEventEmitted : BOOLEAN]

(* destroyWorkerNode: the key it keeps, the events it waits for, whether    *)
(* the kill message reached the worker, and whether the worker closed       *)
EndingState == [phase : {"none", "waiting", "killing"}, key : 0..N, events : Nat,
                told : BOOLEAN, closed : BOOLEAN]

NotEnding == [phase |-> "none", key |-> NoKey, events |-> 0, told |-> FALSE, closed |-> FALSE]

-----------------------------------------------------------------------------
(* Conditions *)

Members(p) == Range(p.nodes)

(* getWorkerNodeKeyByWorkerId *)
KeyOf(p, w) == CHOOSE k \in DOMAIN p.nodes : p.nodes[k] = w

Enabled == options # Disabled

Quota == IF Enabled THEN options.concurrency ELSE 1

IsWorkerNodeBusy(p, w) == p.ready[w] /\ p.executing[w] >= Quota

InternalBusy(p) == p.nodes # <<>> /\ \A w \in Members(p) : IsWorkerNodeBusy(p, w)

InternalBackPressure(p) ==
    p.nodes # <<>> /\ \A w \in Members(p) : p.ready[w] /\ p.backPressure[w]

HasBackPressure(p, w) == Len(p.queue[w]) >= p.limit[w]

ShallExecuteTask(p, w) == p.queue[w] = <<>> /\ p.executing[w] < options.concurrency

CannotStealTask(p) == Len(p.nodes) <= 1 \/ \A w \in Members(p) : p.queue[w] = <<>>

-----------------------------------------------------------------------------
(* Events of the pool: one for the beginning, one for the end *)

BusyChecked(p) == [p EXCEPT !.busyEventEmitted = @ \/ InternalBusy(p)]

BusyEndUnchecked(p) == p  \* faulty: busyEnd is not emitted

BusyEndChecked(p) == [p EXCEPT !.busyEventEmitted = @ /\ InternalBusy(p)]

BackPressureChecked(p) ==
    [p EXCEPT !.backPressureEventEmitted = @ \/ InternalBackPressure(p)]

BackPressureEndChecked(p) ==
    [p EXCEPT !.backPressureEventEmitted = @ /\ InternalBackPressure(p)]

-----------------------------------------------------------------------------
(* Operations on a node *)

ExecuteTask(p, w, t) ==
    BusyChecked([p EXCEPT !.executing[w] = @ + 1, !.running[w] = @ \union {t}])

Enqueued(p, w, t) == [p EXCEPT !.queue[w] = Append(@, t)]

Flagged(p, w) == [p EXCEPT !.backPressure[w] = @ \/ HasBackPressure(p, w)]

EnqueueTask(p, w, t) == BackPressureChecked(Flagged(Enqueued(p, w, t), w))

Dequeued(p, w) == [p EXCEPT !.queue[w] = Tail(@)]

Unflagged(p, w) == [p EXCEPT !.backPressure[w] = @ /\ HasBackPressure(p, w)]

DequeueTask(p, w) == BackPressureEndChecked(Unflagged(Dequeued(p, w), w))

HandleTask(p, w, t) ==
    IF ShallExecuteTask(p, w) THEN ExecuteTask(p, w, t) ELSE EnqueueTask(p, w, t)

ExecuteNext(p, w) == ExecuteTask(DequeueTask(p, w), w, Head(p.queue[w]))

FlushNothing(p) == p  \* faulty: what is queued stays so

(* flushTasksQueues: on every node, every queued task is executed.  Only    *)
(* the states between the dequeues are skipped: the events need none.       *)
FlushTasksQueues(p) ==
    LET flushed == [p EXCEPT
            !.queue = [w \in Worker |-> <<>>],
            !.backPressure = [w \in Worker |-> @[w] /\ p.queue[w] = <<>>],
            !.executing = [w \in Worker |-> @[w] + Len(p.queue[w])],
            !.running = [w \in Worker |-> @[w] \union Range(p.queue[w])]]
    IN  IF \A w \in Worker : p.queue[w] = <<>> THEN p
        ELSE BackPressureEndChecked(BusyChecked(flushed))

-----------------------------------------------------------------------------
(* Tasks *)

Execute(t) ==
    /\ status = "started"
    /\ promise[t] = "new"
    /\ \E k \in DOMAIN pool.nodes :
           LET w == pool.nodes[k]
           IN  /\ pool.ready[w]
               /\ entry' = [entry EXCEPT ![t] = k]
               /\ pool' = IF Enabled THEN HandleTask(pool, w, t) ELSE ExecuteTask(pool, w, t)
    /\ promise' = [promise EXCEPT ![t] = "pending"]
    /\ UNCHANGED <<options, status, ending, changes, failures, aborts>>

(* updateTaskStatisticsWorkerUsage, at the node the key denotes by now *)
Unexecuted(p, k) ==
    IF k \in DOMAIN p.nodes
    THEN [p EXCEPT !.executing[p.nodes[k]] = IF @ > 0 THEN @ - 1 ELSE 0]
    ELSE p

ContinuedNever(p, k) == p  \* faulty: responses dequeue nothing

(* A queued task takes the place of the one that finished *)
Continued(p, k) ==
    IF /\ Enabled /\ status # "destroying" /\ k \in DOMAIN p.nodes
       /\ ~IsWorkerNodeBusy(p, p.nodes[k]) /\ p.queue[p.nodes[k]] # <<>>
    THEN ExecuteNext(p, p.nodes[k])
    ELSE p

(* The wait of destroyWorkerNode is over: the kill message goes to the node *)
(* that has, by now, the key kept                                           *)
KillSent(e, w) ==
    LET k == e[w].key
        killing == [e EXCEPT ![w].phase = "killing"]
    IN  IF k \in DOMAIN pool.nodes
        THEN [killing EXCEPT ![pool.nodes[k]].told = TRUE]
        ELSE killing

(* The listener of waitWorkerNodeEvents hears a task finished *)
TaskFinished(e, k) ==
    IF k \in DOMAIN pool.nodes /\ e[pool.nodes[k]].phase = "waiting"
    THEN LET w == pool.nodes[k]
             heard == [e EXCEPT ![w].events = @ - 1]
         IN  IF e[w].events > 1 THEN heard ELSE KillSent(heard, w)
    ELSE e

(* handleTaskExecutionResponse, for a task the worker answers *)
Respond(w, t) ==
    /\ w \in Members(pool) /\ t \in pool.running[w]
    /\ ~ending[w].closed
    /\ LET answered == [pool EXCEPT !.running[w] = @ \ {t}]
       IN  \E finished \in {BusyEndChecked(Unexecuted(answered, entry[t]))} :
               pool' = Continued(finished, entry[t])
    /\ ending' = TaskFinished(ending, entry[t])
    /\ entry' = [entry EXCEPT ![t] = NoKey]
    /\ promise' = [promise EXCEPT ![t] = "settled"]
    /\ UNCHANGED <<options, status, changes, failures, aborts>>

(* abortTask of a queued task: neither flag nor event is looked at *)
AbortQueuedTask(t) ==
    /\ status # "stopped"
    /\ t \in Abortable /\ promise[t] = "pending" /\ Enabled
    /\ entry[t] \in DOMAIN pool.nodes
    /\ LET w == pool.nodes[entry[t]]
       IN  /\ pool.ready[w]
           /\ \E i \in DOMAIN pool.queue[w] :
                  /\ pool.queue[w][i] = t
                  /\ pool' = [pool EXCEPT !.queue[w] = RemoveAt(@, i)]
    /\ entry' = [entry EXCEPT ![t] = NoKey]
    /\ promise' = [promise EXCEPT ![t] = "settled"]
    /\ aborts' = aborts + 1
    /\ UNCHANGED <<options, status, ending, changes, failures>>

-----------------------------------------------------------------------------
(* Options *)

Resized(p, size) == [p EXCEPT !.limit = [w \in Worker |-> size]]

(* enableTasksQueue(false) *)
DisableTasksQueue ==
    /\ status = "started" /\ Enabled
    /\ changes + failures < MaxChanges /\ changes' = changes + 1
    /\ pool' = FlushTasksQueues(pool)
    /\ options' = Disabled
    /\ UNCHANGED <<status, entry, promise, ending, failures, aborts>>

(* enableTasksQueue(true, o) and setTasksQueueOptions(o) *)
SetTasksQueueOptions(o) ==
    /\ status = "started" /\ o # options
    /\ changes + failures < MaxChanges /\ changes' = changes + 1
    /\ pool' = Resized(pool, o.size)
    /\ options' = o
    /\ UNCHANGED <<status, entry, promise, ending, failures, aborts>>

-----------------------------------------------------------------------------
(* Workers *)

(* handleWorkerReadyResponse; late ones are ignored *)
WorkerReady(w) ==
    /\ status = "started"
    /\ w \in Members(pool) /\ ~pool.ready[w]
    /\ pool' = [pool EXCEPT !.ready[w] = TRUE]
    /\ UNCHANGED <<options, status, entry, promise, ending, changes, failures, aborts>>

(* The first ready node with the fewest queued tasks *)
Destinations(p, w) == {k \in DOMAIN p.nodes : p.nodes[k] # w /\ p.ready[p.nodes[k]]}

Destination(p, w) ==
    CHOOSE k \in Destinations(p, w) : \A i \in Destinations(p, w) :
        LET queued(j) == Len(p.queue[p.nodes[j]])
        IN  \/ queued(k) < queued(i)
            \/ queued(k) = queued(i) /\ k <= i

RedistributeNone(p, w) == p  \* faulty: the queued tasks go with the worker

HandOver(p, w) ==
    HandleTask(DequeueTask(p, w), p.nodes[Destination(p, w)], Head(p.queue[w]))

RedistributeQueuedTasks(p, w) ==
    LET queued == Len(p.queue[w])
        after[i \in 0..queued] == IF i = 0 THEN p ELSE HandOver(after[i - 1], w)
    IN  IF CannotStealTask(p) \/ Destinations(p, w) = {} THEN p ELSE after[queued]

(* createWorkerNode: the default is the square of the pool size *)
Limit(o) == IF o = Disabled THEN N * N ELSE o.size

(* The node of the worker leaves; a new one at the end may be its successor *)
Left(p, w) ==
    [p EXCEPT !.nodes = RemoveAt(@, KeyOf(p, w)), !.ready[w] = FALSE,
              !.queue[w] = <<>>, !.backPressure[w] = FALSE, !.executing[w] = 0,
              !.running[w] = {}]

Replaced(p, w) == [Left(p, w) EXCEPT !.nodes = Append(@, w),
                      !.limit[w] = Limit(options)]

(* The `error` listener: the node is not ready, its queued tasks are        *)
(* handed out, and it is terminated; the `exit` listener replaces it        *)
WorkerFails(w) ==
    /\ status = "started"
    /\ changes + failures < MaxChanges /\ failures' = failures + 1
    /\ w \in Members(pool)
    /\ LET flagged == [pool EXCEPT !.ready[w] = FALSE]
           handedOut == IF Enabled THEN RedistributeQueuedTasks(flagged, w) ELSE flagged
       IN  pool' = Replaced(handedOut, w)
    /\ UNCHANGED <<options, status, entry, promise, ending, changes, aborts>>

-----------------------------------------------------------------------------
(* The end *)

(* destroy: every node is flagged and flushed before any wait ends *)
Destroy ==
    /\ status = "started"
    /\ status' = "destroying"
    /\ pool' = FlushTasksQueues([pool EXCEPT !.ready = [w \in Worker |-> FALSE]])
    /\ ending' = [w \in Worker |->
           LET flushed == Len(pool.queue[w])
           IN  [phase |-> IF flushed = 0 THEN "killing" ELSE "waiting",
                key |-> KeyOf(pool, w),
                events |-> flushed, told |-> flushed = 0, closed |-> FALSE]]
    /\ UNCHANGED <<options, entry, promise, changes, failures, aborts>>

(* tasksFinishedTimeout *)
TasksFinishedTimeout(w) ==
    /\ ending[w].phase = "waiting"
    /\ ending' = KillSent(ending, w)
    /\ UNCHANGED <<pool, options, status, entry, promise, changes, failures, aborts>>

(* The worker handles the kill message: its port is closed *)
WorkerCloses(w) ==
    /\ w \in Members(pool) /\ ending[w].told /\ ~ending[w].closed
    /\ ending' = [ending EXCEPT ![w].closed = TRUE]
    /\ UNCHANGED <<pool, options, status, entry, promise, changes, failures, aborts>>

(* The kill message was answered, or not in time *)
Terminate(w) ==
    /\ ending[w].phase = "killing"
    /\ pool' = Left(pool, w)
    /\ ending' = [ending EXCEPT ![w] = NotEnding]
    /\ status' = IF pool'.nodes = <<>> THEN "stopped" ELSE status
    /\ UNCHANGED <<options, entry, promise, changes, failures, aborts>>

-----------------------------------------------------------------------------

Init ==
    /\ options = InitialOptions
    /\ pool = [nodes |-> [k \in 1..N |-> k],
               ready |-> [w \in Worker |-> TRUE],
               queue |-> [w \in Worker |-> <<>>],
               limit |-> [w \in Worker |-> Limit(options)],
               backPressure |-> [w \in Worker |-> FALSE],
               executing |-> [w \in Worker |-> 0],
               running |-> [w \in Worker |-> {}],
               busyEventEmitted |-> FALSE, backPressureEventEmitted |-> FALSE]
    /\ status = "started"
    /\ entry = [t \in Task |-> NoKey] /\ promise = [t \in Task |-> "new"]
    /\ ending = [w \in Worker |-> NotEnding]
    /\ changes = 0 /\ failures = 0 /\ aborts = 0

Next ==
    \/ \E t \in Task : Execute(t) \/ AbortQueuedTask(t)
    \/ \E w \in Worker : \/ \E t \in Task : Respond(w, t)
                         \/ WorkerReady(w) \/ WorkerFails(w)
                         \/ TasksFinishedTimeout(w) \/ WorkerCloses(w) \/ Terminate(w)
    \/ \E o \in QueueOptions : SetTasksQueueOptions(o)
    \/ DisableTasksQueue \/ Destroy

Spec == Init /\ [][Next]_vars

(* What the pool waits for: timers, answers to kill messages, responses *)
Awaited ==
    \E w \in Worker : \/ Terminate(w) \/ TasksFinishedTimeout(w)
                      \/ \E t \in Task : Respond(w, t)

(* Something awaited happens: there are finitely many tasks and workers, so *)
(* that each has its turn                                                   *)
FairSpec == Spec /\ WF_vars(Awaited)

-----------------------------------------------------------------------------
(* Properties *)

(* The values of the variables; executing never goes below zero              *)
(* (updateTaskStatisticsWorkerUsage of src/pools/utils.ts).                  *)
TypeOK ==
    /\ pool \in PoolState
    /\ options \in QueueOptions \union {Disabled}
    /\ status \in {"started", "destroying", "stopped"}
    /\ entry \in [Task -> 0..N]
    /\ promise \in [Task -> {"new", "pending", "settled"}]
    /\ ending \in [Worker -> EndingState]
    /\ changes \in 0..MaxChanges /\ failures \in 0..MaxChanges /\ aborts \in Nat

(* No task waits in a queue that nothing empties: once queueing is disabled, *)
(* or the pool is being destroyed, responses dequeue no task any more        *)
(* (enableTasksQueue and destroy of src/pools/abstract-pool.ts flush first). *)
QueuesEndEmpty ==
    /\ TypeOK
    /\ options = Disabled \/ status # "started" => \A w \in Worker : pool.queue[w] = <<>>

Queued == UNION {Range(pool.queue[w]) : w \in Members(pool)}

InWork == UNION {pool.running[w] : w \in Members(pool)}

(* A queued task of a worker that fails goes to another node, and no other   *)
(* step loses one, whatever the options become and even if the pool is       *)
(* destroyed: it is lost only with the last ready node (abstract-pool.ts     *)
(* redistributeQueuedTasks, flushTasksQueue).                                *)
QueuedTasksSurvive ==
    [][\A t \in Queued :
           \/ t \in Queued' \union InWork'
           \/ promise'[t] = "settled"
           \/ /\ failures' > failures
              /\ \E w \in Members(pool) :
                     /\ t \in Range(pool.queue[w])
                     /\ \A v \in Members(pool) \ {w} : ~pool.ready[v]]_vars

(* The events come in pairs: with no task in work the pool does not take     *)
(* itself for busy, and with none queued not for back pressured, resized or  *)
(* not.  Of failures, of aborted queued tasks and of the end no event tells  *)
(* (abstract-pool.ts checkAndEmitTaskExecutionFinishedEvents,                *)
(* checkAndEmitTaskDequeuingEvents).                                         *)
EventsEnd ==
    status = "started" /\ failures = 0 =>
        /\ InWork = {} => ~pool.busyEventEmitted
        /\ Queued = {} /\ aborts = 0 => ~pool.backPressureEventEmitted

(* Without failures a task submitted settles, or the pool is destroyed to    *)
(* the end: queueing, resizing and disabling leave no task behind, and no    *)
(* wait for finished tasks lasts (abstract-pool.ts                           *)
(* handleTaskExecutionResponse, destroyWorkerNode).  A task is submitted     *)
(* once, so that in the end none is pending.                                 *)
TaskSettles ==
    <>[](failures > 0 \/ status = "stopped" \/ \A t \in Task : promise[t] # "pending")
=============================================================================
