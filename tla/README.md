# A TLA+ verification project for poolifier-web-worker

poolifier-web-worker runs task functions in pools of web workers.  This
directory holds TLA+ modules translated from its source (`src/src`), the TLC
configurations that check them on small instances, and theorems checked by
TLAPS.  `PROJECT.json` lists components, runs, mutants (faulty variants of a
definition, each of which must break the property it is listed with), the
source lines each definition stands for, findings, hazards and theorems.

## 1. Inventory

Everything below runs on one JavaScript main thread: a user call, a message
event (with the microtasks it queues), a timer callback runs to completion.
Concurrency comes from the workers, each linked to the main thread by one
`MessageChannel` (two FIFO ports), and from timers: the sleep of the stealing
loops, the kill timeout, the tasks finished timeout, the worker's own activity
check.

| Component | State | Operations | Hard behaviour | What makes it correct |
|---|---|---|---|---|
| Task scheduling (`pools/abstract-pool.ts`, `pools/worker-node.ts`, `worker/abstract-worker.ts`) | per node: tasks queue, `usage.tasks.executing`, flags `backPressure`, `continuousStealing`; `promiseResponseMap` | `execute`, `mapExecute`, abort of a signal, task response, idle event, back pressure event, stealing loop | a response is accounted for on the node kept at submission although the task may have been stolen; nested synchronous events; abort racing with steal and response | no task lost or run twice, every promise settles once, concurrency kept, no task waits beside a free slot, aborts arrive |
| Tasks queue (`queues/*`) | linked buckets of ring buffers, sizes | `enqueue`, `dequeue(bucket)`, `delete`, `clear`, iteration, priority toggle | wrap around, removal of emptied buckets, priority aging, index of the last bucket | it is a list; urgent tasks first unless others waited long; no starvation |
| Pool lifecycle (`abstract-pool.ts`, `pools/thread/*.ts`) | `started`, `starting`, `destroying`, the array of nodes, `ready` and `dynamic` flags | `start`, `destroy`, creation and removal of workers, worker error, kill requests of idle workers | keys used after nodes moved, creation during destruction, a kill racing with a task, unanswered kills, a crash between two messages | size within bounds, a soft kill spares tasks, dynamic workers die, destruction ends and leaves nobody |
| Worker (`worker/abstract-worker.ts`, `worker/thread-worker.ts`) | task functions, abort functions, activity timer | run, abort, kill, check active | abort or kill while a task runs | every task read is answered while the port is open |
| Worker choice (`pools/selection-strategies/*`) | next and previous node keys, round and weights, virtual ends | `choose`, `update`, `remove`, `setOptions`, retries over not ready nodes | keys are array indices and shift when a node leaves; not ready nodes | the key chosen is that of a ready node; a ready node is found; fairness of turns |
| Task functions (`abstract-pool.ts`, `worker/abstract-worker.ts`) | `taskFunctions` of the pool and of each worker, the lists workers sent, pending calls | `addTaskFunction`, `removeTaskFunction`, `setDefaultTaskFunction` | answers are counted, not matched; a worker that leaves never answers; workers join during a call | a call that resolves was applied everywhere; a worker always has a default; the list of the pool is the one of the workers |
| Pool events (`abstract-pool.ts`, `pools/thread/*.ts`) | emitted flags of `busy`, `full`, `backPressure`, `ready` | `checkAndEmit*` | begin and end events are emitted from different handlers | no event is left without its end |
| Measurements (`pools/utils.ts`, `circular-buffer.ts`) | histories of run and wait times | put, average, median | wrap around, empty history | the history is the last measures |

The pool calls its nodes directly (synchronous calls and events:
`backPressure`, `idle`, `abortTask`, `taskFinished`, `exit`); pool and workers
exchange messages only.

## 2. Modules

| Module | Models | Composed of |
|---|---|---|
| `TaskPool` | scheduling in a fixed pool with tasks queues, stealing, abort | implements `TaskLifecycle` |
| `TaskLifecycle` | what `execute` promises of each task | |
| `RingBuffer` | the array of `FixedQueue` and `FixedPriorityQueue`: pure operators | |
| `FixedQueue` | one such queue and its callers | `RingBuffer`; implements `ListQueue` |
| `PriorityQueue` | the queue of linked buckets and its callers in `WorkerNode` | `RingBuffer`; implements `ListQueue` |
| `ListQueue` | what a queue of tasks promises | |
| `DynamicPool` | workers that come and go: lifecycle, kills, errors, destruction | |
| `TasksQueue` | queues and lifecycle together: options changed, workers failing, destruction, events | |
| `CircularBuffer` | the history of measurements: pure operators | |
| `Measurements` | aggregates, extremes, moving average and median: pure operators | `CircularBuffer` |
| `WorkerChoice` | the worker choice strategies, their context, and a pool that changes under them | `Measurements` |
| `TaskFunctions` | adding, removing and defaulting task functions, over the ports | |
| `TaskPoolProofs`, `DynamicPoolProofs`, `TasksQueueProofs`, `FixedQueueProofs`, `PriorityQueueProofs`, `TaskFunctionsProofs`, `WorkerChoiceProofs` | theorems about the module each is named for | the last also about `CircularBuffer` |
| `RingBufferProofs` | lemmas about `RingBuffer` | used by `FixedQueueProofs` and `PriorityQueueProofs` |
| `MC...` | the instances for TLC | |

### TaskPool

A fixed pool with `enableTasksQueue: true`, started, neither destroyed nor hit
by a worker error: keys and nodes coincide and every node is ready (`DynamicPool`
and `TasksQueue` are about the rest).

| Model | Code |
|---|---|
| `pool.queue`, `.executing`, `.backPressure`, `.continuousStealing` | `tasksQueue`, `usage.tasks.executing` and `info` flags of each worker node |
| `pool.port`, `fromWorker` | the two ports of the node's `MessageChannel` |
| `timers` | sleeps armed by `handleWorkerNodeIdleEvent` |
| `promiseResponseMap`, `promise` | the map of the same name, and the promise the user holds |
| `Submit` | `execute`/`internalExecute`, the task given to any node, with the back pressure event its enqueue may raise and the steals nested in it |
| `AbortTask` | the listener of the abort signal and `abortTask` |
| `WorkerMessage`, `WorkerFinish` | the worker's `messageEventListener`, `run`, and the end of an asynchronous task function |
| `TaskExecutionResponse` | `handleTaskExecutionResponse` and its microtask: accounting, dispatch of the next queued task, idle event |
| `StealingLoop` | the recursive call of `handleWorkerNodeIdleEvent` after its sleep |

Operations on nodes are functions of the whole node state, so that nested
synchronous calls (enqueue, event, steal, enqueue again) compose as in the
code.  `internalExecute` reads the key at submission and keeps it; the model
does the same (`promiseResponseMap[t]`), which is the point of the findings
below.  Data, names, priorities and measures are abstracted; the queue is a
sequence, which is what `PriorityQueue` and `FixedQueue` are shown to be as long
as there is one bucket and one priority.

### RingBuffer, FixedQueue, PriorityQueue, ListQueue

`RingBuffer` translates `AbstractFixedQueue`, `FixedQueue.enqueue` and
`FixedPriorityQueue.enqueue` into operators on a record `start`, `size`,
`nodeArray`.  A time stamp is kept as an age, counted up to `MaxAge` by the
action `Tick`; `AgingFactor[size]` stands for the factor the code computes from
the fill ratio: any function that does not decrease, as the options allow
`agingFactor` 0 or more and `loadExponent` above 0.  `FixedQueue` calls these operators in any order.
`PriorityQueue` keeps the linked buckets (`head`, `tail`, `next` of each) as
the code does, with the calls `WorkerNode` makes: enqueue, dequeue, the
thief's `dequeueLastPrioritizedTask` (`dequeue(buckets + 1)`), delete, clear and
the priority toggle.  Both map to `ListQueue`: the items in the order of
iteration, and what each call returned.  A steal that misses although there are
items is no step of `ListQueue`; `PriorityQueue` names the one case in which it
happens (`MissedSteal`) and allows no other.

### DynamicPool

Without tasks queues.  `nodes` is the array `workerNodes` of worker identities,
`node[w]` what pool and worker know of w (see the comments of `Thread`), so that
a key and a worker are different things: removing a node shifts keys, as
`splice` does.  Identities are used again after termination, which bounds the
state without bounding behaviour.

| Action | Code |
|---|---|
| `Submit` | `chooseWorkerNode` (creating a dynamic worker when the pool is busy or empty), any ready node, `executeTask`; without a ready node the exception of `executeStrategy` ("refused") |
| `TaskExecutionResponse` | `handleTaskExecutionResponse`, which may create a dynamic worker too |
| `WorkerReady`, `KillRequest`, `KillAnswer` | the ready message, the listener of dynamic workers, the listener of `sendKillMessageToWorker`; the latter also sees every other message (`KillListened`) |
| `KillTimeout` | the 1000 ms of `sendKillMessageToWorker` |
| `CheckActive`, `WorkerMessage`, `WorkerFinish` | the worker: activity interval, messages, end of a task |
| `WorkerError` | `onerror`, then `terminate` and the `exit` listener |
| `Destroy`, `DestroyEnd`, `Start` | `destroy()`, its end, `start()` |

### TasksQueue

A fixed pool whose queues are switched on and off, resized, emptied by a failure
or flushed at the end.  `pool.nodes` is the array of nodes, and both
`promiseResponseMap` (`entry`) and a destruction under way (`ending[w].key`)
keep keys while it shrinks.  Tasks are equal and none is stolen: what stealing
and priority do is checked in the modules above.

| Action | Code |
|---|---|
| `Execute` | `internalExecute`: to any ready node, executed or queued |
| `Respond` | `handleTaskExecutionResponse` and its microtask, with the `taskFinished` event a destruction may wait for |
| `AbortQueuedTask` | `abortTask` of a task still queued; of a task sent it is a response |
| `DisableTasksQueue`, `SetTasksQueueOptions` | `enableTasksQueue`, `setTasksQueueOptions` |
| `WorkerFails` | `onerror`: the flag, `redistributeQueuedTasks`, `terminate`, and the exit listener's replacement |
| `Destroy`, `TasksFinishedTimeout`, `WorkerCloses`, `Terminate` | `destroy`: all nodes are flagged and flushed before any wait; `waitWorkerNodeEvents`; the worker handles the kill message and closes its port; `terminate` |

The two events are flags set and cleared by the `checkAndEmit...` functions
where the code calls them.

### CircularBuffer, Measurements, WorkerChoice

`WorkerChoice` is a pool without tasks queues seen from `chooseWorkerNode`.  A
key is an index of `pool.nodes` from 0, as in the code; `pool.context` maps the
registered strategies to what each keeps (`StrategyState`); each strategy is an
operator that gives the key (or `NoKey`), its next state and, for fair share,
the virtual ends it wrote into the nodes.  `Executed` is the loop of retries,
`Removed` and `ContextUpdated` what the strategies do when a node leaves and when
a response arrives.  Run times are whole numbers; `Measurements` accounts for
them as `updateMeasurementStatistics` does, over a `CircularBuffer`.  The array
of the history is a `Float32Array`: what it holds of a time is `Float32` of it, a
function the instance chooses, while the extremes are the times themselves.  A task
function is `[strategy, keys]`: its own strategy, if any, and its node affinity.

| Action | Code |
|---|---|
| `Execute` | `internalExecute`: dynamic workers created for the affinity or by a busy pool, the choice with its retries, the executing counter |
| `TaskExecutionResponse` | `afterTaskExecutionHook` by the key kept, `update` of the strategies, a dynamic worker if the pool is busy |
| `WorkerReady`, `NotReady`, `WorkerNodeExit` | the ready message; a worker that erred or is killed; its removal and replacement |
| `SetWorkerChoiceStrategy`, `SetWorkerChoiceStrategyOptions` | the methods of the same name |
| `Tick` | the clock of fair share |

`since` is a history variable: which nodes had a turn since each node had one.

### TaskFunctions

The pool, its workers and the ports between them, as sequences.  Identities of
workers are never used again.  A task function object is the call that brought
it in, so that "the same object" is equality.  `pending` is the set of calls that
wait for answers; the order in which their listeners were registered does not
show, for a message is heard by each of them.

| Action | Code |
|---|---|
| `AddTaskFunction`, `RemoveTaskFunction`, `SetDefaultTaskFunction` | the methods up to their `await`: `sendTaskFunctionOperationToWorkers` |
| `WorkerReceives` | `handleReadyMessageEvent`, `handleTaskFunctionOperationMessage` and the three operations, each of which sends the new list and a status |
| `PoolReceives` | `workerMessageListener` (the lists) and the listeners of the pending calls (the statuses); `Settled` is the rest of the methods after their `await` |
| `CreateDynamicWorker`, `WorkerExits` | creation, with the functions of the pool sent to it, and exit |

`AnswersFirst` restricts the user: a call is made only when every earlier
message was answered.  Without it the answers to one call count for another
(section 4).

## 3. Runs

| Run | Instance | Shows |
|---|---|---|
| `no_stealing` | 2 nodes, concurrency 2, 4 tasks, 2 abortable, back pressure from 1 queued task | exact accounting, concurrency kept, aborts arrive, settling once and always |
| `stealing` | 2 nodes, 4 tasks, both kinds of stealing | what survives stealing, the refinement of `TaskLifecycle`, and that a task once dispatched settles |
| `stolen_task_stuck` | 2 nodes, 4 tasks, no abort | finding |
| `fixed_priority_queue` | capacity 3, 4 items, 3 priorities, ages 0 to 3, an aging factor that grows with the load | list, order of priority, limits of overtaking, no starvation |
| `priority_queue` | buckets of 2, 4 items, 2 priorities | chain of buckets, list, an item overtakes within a bucket only |
| `dynamic_pool` | 1 static and at most 1 dynamic worker, 3 tasks, soft kills, kill handlers that succeed or hang | soft kills, every task finds a worker and is answered, the pool shrinks, destruction |
| `dynamic_pool_errors` | the same with 2 tasks, hard kills, worker errors and failing kill handlers | size within bounds, `destroy()` ends |
| `worker_choice` | 2 static nodes and a dynamic one, 6 strategies, 3 kinds of affinity, 2 sets of options, 3 tasks, 3 measurements, 1 change | keys denote nodes, turns are taken and end at the weight of their node, a ready node is found, idle nodes first, statistics are of the last times measured |
| `ready_pool_refuses` | 1 node, interleaved weighted round robin, 4 tasks | finding |
| `task_functions` | 1 static worker, at most 2 at once and 3 in all, 2 names, 3 calls | default and list of each worker, a resolved call was applied, a call settles |
| `declared_strategy` | the worker file declares a strategy | finding |
| `tasks_queue` | 2 nodes, 4 tasks, 1 abortable, queues of 1 and 2, 2 changes or failures | no task left in a queue, events end, the queue of a failed worker survives, tasks settle |

**Bounds.**  Two nodes are a thief and its victim, and let a task be stolen,
come back and be accounted for on the other node; that the invariants of
`stealing` hold with any number of thieves is proved (section 5).  Four tasks
fill a node's slot, a queue to its back pressure size, and leave one more.  A
ring of capacity 3 wraps around with entries on both sides of the end of the
array; buckets of two entries make four items need two buckets and leave a third
when they are deleted unevenly.  One static and one dynamic worker are the
largest pool in which no key ever changes hands without an error (the dynamic
node is always last): what holds there is what the code achieves where its keys
are sound.  In `worker_choice` and `tasks_queue` keys do change hands: three
nodes are enough for a node to leave before, at and behind the next key, two for
a destruction whose key moved.  A history of length 2 wraps at the third
measurement.  `MaxChanges`, `MaxCalls`, `MaxWorkers`, `MaxTasks`, `MaxTime` and
`MaxMeasures` bound user calls, failures, workers, tasks and the clock;
`MaxKills` bounds the kill messages under way of one worker: two are enough for
it to ask again while it is being killed.  `MaxAge` bounds the age an entry can
reach; with the levels 0, 6 and 12 and a factor of 5 or more per unit of age for a
queue with an entry, one of that age precedes every new one.  The factors of
`LoadedAging` are those of an `agingFactor` of the capacity and a `loadExponent` of
1, the values that make them whole: 5 with one entry, 6 with two, so that what one
enqueue finds overtaken the next, at another load, may not.
The history of `worker_choice` rounds one of the two times, so that the window of
the rounded times and that of the times differ.
`Initialized` may make an aggregate `Infinity`, a number larger than any sum of
the instance.

**Symmetry.**  Only `priority_queue` declares one, of its items; it has no
liveness property.

**Deadlock** is not checked in the pool models: a pool in which all tasks are
done stops.

**Fairness.**  Weak fairness of what the platform does by itself: ports
deliver, task functions end, sleeps, intervals and timeouts elapse, time
passes.  Nothing makes the user submit, abort, call, start or destroy, and no
worker has to fail, become ready again or leave.  `FixedQueue` assumes that its
owner keeps dequeuing, as a node whose tasks end does.  `CheckActive` is fair
because tasks are finitely many: a worker that is given no task stays inactive
long enough.  `TaskFunctions` assumes each port of a worker in the pool
delivers.  `TasksQueue` needs one condition, that something awaited happens
(a response, a timer, the answer to a kill message) as long as anything is:
each such step uses up a task or a phase of a destruction, of which there are
finitely many, so none is put off for ever.

## 4. Findings

* `stolen_task_stuck` (`EveryTaskSettles`).  The response of a stolen task is
  accounted for on the node it was submitted to.  The node that ran it keeps
  counting it, tasks submitted to it are queued though its worker is free, and
  no response is left to dequeue them: with all ports, functions and timers
  fair, a promise never settles.
* `ready_pool_refuses` (`ReadyPoolServes`).  Interleaved weighted round robin
  forgets the time given to a node only when it moves to another one.  A pool of
  one worker therefore refuses every task once that worker was given its
  weight.
* `declared_strategy` (`StrategiesKnown`).  The strategy a worker file declares
  for a task function is not registered when the worker becomes ready; a task
  of that function is refused until some other call synchronizes the context.

The code contradicts its documents in further points, each stated by a property
that no run checks in such an instance.  TLC finds it violated, within seconds, when
it takes the place of those of the run named, with the constants given:

* `MaxConcurrency` and `AbortReachesTask` in `stolen_task_stuck` (as invariants; the
  second with `Abortable = {a1}`), against docs/api.md:215-216 ("The maximum number of
  tasks that can be executed concurrently on a worker") and docs/api.md:50.  The
  response of a stolen task lowers the counter of the node it was submitted to, which is busy
  with another task and dequeues one more; the abort of a stolen task goes to that
  node, which does not have it any more.
* `NoneOnlyIfEmpty` in `priority_queue`, against priority-queue.ts:148 ("The
  dequeued data or `undefined` if the priority queue is empty").  A thief asks for
  bucket `buckets + 1` (`dequeueLastPrioritizedTask`), the one that is not full; when
  the items just fill their buckets there is none, and the thief leaves a queue of
  tasks with nothing.  `ListSpec` allows that one case, by name, and no other.
* `NextRoundStarts` and `BelowRoundWeight` in `ready_pool_refuses` with two nodes
  (`MinSize = 2`, `MaxSize = 2`), `Options <- UnevenOnly` and `MaxTasks = 5`, against
  docs/worker-choice-strategies.md:39-42 ("if the worker weight is superior or equal
  to the current round weight and its tasks execution time is inferior to the current
  round weight, the task is assigned to the worker. Once all workers weight have been
  tested, the next round starts.").  The code compares with the weight of the node
  (interleaved-weighted-round-robin-worker-choice-strategy.ts:117), and does not go
  back to the first node when a round begins (:101-106): all choices are made in the
  first round, whatever the number of rounds (`FirstRoundOnly`, section 5).

The properties checked hold in the instances above.  Some of them do not
elsewhere; an instance is obtained by changing constants only:

* `SoftKillSparesTasks` with `Min = 0`, `Max = 2`: a key in `promiseResponseMap`
  denotes another node once a node with a lower key was removed; its executing
  counter is lowered, and the soft kill of its worker is granted while it runs a
  task.
* `TaskSettles` of `DynamicPool` with `Min = 0`, `Max = 1`: while the only worker
  is being killed, a new task is refused.
* `ResolvedMeansApplied` with `AnswersFirst = FALSE`: a call resolves by the
  answers to an overlapping call, or to the messages of a dynamic worker's
  creation.

Other observations, which no document contradicts: as the aging factor depends on
the load, tasks of one priority may leave in another order than they came, within
`AgingLimitsOvertaking`; an average or median may exceed the maximum (or be
below the minimum), for the history is rounded to single precision and the extremes
are not: one run time of 0.1 has an average of 0.10000000149; a deleted task may leave the back pressure flag and event raised; toggling the
priority resets the maximum size; a kill handler that throws leaves its node in
`workerNodes`, not ready; an asynchronous kill handler is never heard of, as the
worker closes its port first, so such a kill takes the whole timeout; static
workers are replaced after an error whatever `restartWorkerOnError` says, by the
exit listener, and are told none of the task functions added to the pool; a
dynamic worker is told no default set before; a call on task functions stays
pending when one of its workers leaves; fair share forgets the prediction of the
node behind the one that left; tasks executed by a worker that fails never
settle.

## 5. Theorems

`TaskPoolProofs`, for any number of nodes and tasks, any concurrency, back
pressure size and stealing options:

* `TypeCorrect`, `WorkConserving` (`QueuedOnlyIfBusy`), `BackPressureNoticed`
  (`BackPressureFlagged`), `StealingFlagHasLoop` (`StealingLoopArmed`),
  `SettlesOnce` (`SettleOnce`).

The inductive invariant is `IInv == TypeOK /\ NodesOK /\ EntryIffPending /\
StealingLoopArmed`.  `NodesOK` puts the properties of single nodes together, for
the node state is passed through nested operations: each operation (dequeue,
enqueue, execute, distribution on back pressure, steal) has a lemma that it
keeps `NodesOK`, and the actions follow by composition.  `EntryIffPending`,
that a task has an entry in `promiseResponseMap` exactly while its promise is
pending, is what makes a second settlement impossible: `SettleOnce` is not
inductive without it.

* `TasksHaveOnePlace` (`OnePlace`) and `ImplementsLifecycle` (`LifecycleSpec`, the
  refinement of `TaskLifecycle`).

`OnePlace` speaks of sets of indices, which shift whenever a sequence loses its
head.  The invariant `PlaceInv == IInv /\ TasksPlaced` counts occurrences instead:
a pending task occurs once in one family of sequences (the queues, the ports, the
responses) or once among the running tasks, and nowhere else; a settled or
unsubmitted one occurs nowhere.  Operations on the pool keep or move an
occurrence (`Keeps`), which composes like `NodesOK`.  For the refinement each
action is one step of `TaskLifecycle` for the task it moves and a stutter for all
others: an operation nested in an action may steal other tasks, but a theft from
queue to queue is invisible there, and one that executes is a dispatch.

* `TotalCovers` (`TotalExecutingCoversInFlight`).

Single counters are wrong as soon as a task is stolen (section 4): the node that
starts it counts it, and the node of its submission, to which its response is
charged, stops counting.  What is kept is a balance.  A waiting task counts one
and a unit of a counter another (`Load`, the cardinality of `Slots` and `Waiting`
together); every operation on nodes may turn the first into the second and loses
neither (`Gains`), and a node that distributes its queue on back pressure has an
injection from the tasks it gives away to the units others win.  `CountInv` says
that the load is at least the number of pending tasks; a response lowers both by
one, and what does not wait is in flight or answered.

Under `NoStealing` (both kinds of stealing off, which the options allow), for the
same constants:

* `CounterIsExact` (`ExecutingIsInFlight`), `ConcurrencyRespected`
  (`MaxConcurrency`), `AbortsArrive` (`AbortReachesTask`).

All three fail with stealing (section 4), and for one reason: the key in
`promiseResponseMap` is no longer the node of the task.  `HomeInv` says that it
is: nothing of a task is on another node.  Then the counter of a node is the
cardinality of the tasks whose key it is and that wait no more (`Counted`), and an
abort message, put in the port of that node, is behind the task message or
reaches the running task (`AbortComes`).

`DynamicPoolProofs`, for any minimum and maximum, any set of tasks, both kill
behaviours, with and without errors of workers:

* `SizeStaysWithinBounds` (`SizeWithinBounds`) and, if no kill handler fails,
  `DestroyEmptiesPool` (`DestroyedPoolIsEmpty`).

The bound on the length of `nodes` is not inductive: a static worker that leaves
a full pool is replaced, and only counting kinds shows that there is room.
`Fits` says that nodes are distinct, that static and dynamic workers keep to
their own shares, `Min` and `Max - Min`, and that a started pool has all its static
ones.  An erring dynamic worker may be replaced before it is removed, so in the
middle of `WorkerError` the pool may have one worker more than `Max`; the lemmas
follow the pool through that.  Operations that create, flag and remove compose by
`Keeps`.  `DestroyEmptiesPool` needs `WaitedFor` too: while the pool is destroyed,
each member has a kill message whose answer or timeout removes it, also the ones
that joined meanwhile.  The hypothesis `"failure" \notin KillOutcome` cannot be
dropped: a handler that throws leaves its node behind (section 4).

* `SoftKillWaitsForTasks` (`SoftKillSparesTasks`), for any number of static workers,
  at most one dynamic worker (`Max <= Min + 1`), workers that do not fail and kill
  handlers that do not fail; through destruction and restart.

A worker is killed softly when its node has no task by its own counters, so they
have to be right.  `SpareInv` says why they are, of a pool in use:

* `StaticFirst`: the dynamic worker has the last key, so that nobody's key changes
  when it leaves.  Hence the key kept in `promiseResponseMap` for a task sent,
  running or answered is still the one of its worker, and its promise is pending.
* `Accounted`: such a task is in one place of its worker, and `executing` counts at
  least as many as there are.  A response then takes from the counter exactly the
  task it settles.
* `Orderly`: a worker starts before it asks to be killed, so that its ready message
  comes first and cannot flag again, and make eligible, a node already told to
  end; static workers do not ask; and a node told to end softly has no task.

`WaitedFor` is needed for a pool that is started again: it starts from an empty
array.  `Max <= Min + 1` cannot be dropped: with two dynamic workers the property is
violated (section 4).  The two other hypotheses are what the argument rests on, as
a worker that fails leaves from anywhere in the array and its replacement comes
last, and a handler that throws leaves nodes behind for the next start.  With one
static and one dynamic worker TLC finds no violation without them.

`TasksQueueProofs`, for any number of workers, tasks and options of the queues:

* `NoTaskLeftQueued` (`QueuesEndEmpty`), `NoQueuedTaskLost` (`QueuedTasksSurvive`)
  and `EventsComeInPairs` (`EventsEnd`).

`LifeInv` adds to the types that nodes are distinct and, until the pool is
destroyed, all there, that a destruction under way is of a node still in the pool
and waits for at least one event, and that queues are empty where nothing would
empty them.  Each action then has a lemma that it keeps `LifeInv` and loses no
queued task.  The loop of `redistributeQueuedTasks` is a recursive function of the
number of turns.  That it exists, and that after each turn every task is still on
the failed node or with a member of the pool that stays (`Passed`), is proved by
the least turn of which it would be false (`LeastNatural`), for the library's
induction theorem cannot be instantiated.  For the events, `Eventful` says while
no worker failed that each task is once on the worker of its key, that `executing`
counts the tasks in work, that a pool which emitted `busy` has work on every
worker, and that flags of back pressure are of queues with tasks: an aborted
queued task breaks the last part, and only that.

`FixedQueueProofs`, for any capacity, priorities and aging factor, with or
without priority: `TypeCorrect`, `LiveSlotsCorrect` (the slots that hold an entry
are the `size` ones from `start` on) and `ImplementsList` (`ListSpec`).  The
invariant is `TypeOK` and `Live(queue)`.  The lemmas of `RingBufferProofs` relate
slots and positions (`SlotOfPosition`, `PositionOfSlot`, `NeighbourSlots`), say what
insertion, removal and dequeuing do to each position, and lift that to the list of
items; each step is then one of `ListQueue`.

* `PriorityServed` (`ServedByPriority`) and `OvertakingLimited`
  (`AgingLimitsOvertaking`), for a queue with priority.

No assumption is made of the aging factor but that it does not decrease with the
load.  A queue is then in the order of no aged priority: each enqueue compares by
the factor of the load it finds, and stops at the first entry that is less urgent
by it.  What is kept is a relation of each two entries (`InOrder`, for all of them
`Ordered`): the difference of their ages is how long the earlier one had waited when
the later one came, and does not change until one of them has the greatest age the
model counts.  `Ordered` bounds it by the highest factor when the less urgent entry
stands in front, and by the lowest when the later entry does.  Of an entry inserted
before k, the first overtaken one, the entries in front are bounded because they
were compared, and those behind because k is, and stands in front of them.

`PriorityQueueProofs`, for any capacity of the buckets, any finite set of data, and any
priorities that contain 0, the one `enablePriority` enqueues with:

* `ChainSound` (`ChainIsSound`), `OneBucketOvertaken` (`OvertakesOneBucketAtMost`) and
  `ImplementsList` (`ListSpec`).

The invariant, `Sound`, is that some sequence c of buckets makes the queue sound:
`IsChain` says that c goes from the tail to the head along `next` and repeats no
bucket, `Rings` that every bucket is a sound ring, and `SoundBy` that `size` counts
the items of c, that no bucket of c is empty unless it is the only one, and that the
items are distinct.  The last part, with the one before it, is why a new bucket is
always found: there are at most as many buckets as items, and fewer items than
`Data`, so that the identities of `Bucket`, one more than `Data`, bound the instance
and not the queue.  `ChainIs` identifies c with the loop along `next`.  What the
iterator yields is the concatenation of the items of each bucket (`Flat`), and a
change in one bucket is the same change at that place in the whole list
(`ListedPut`, `ListedTaken`, for the positions `Start` of each bucket).  `ChainWithout`
covers the three ways in which `removePriorityQueueNode` unlinks a bucket by what
they do to c.  For the priority toggle, entries of priority 0 and no age overtake
nobody (`BehindFresh`), so the refilled queue is a prefix of the list after each turn
of the loop (`Refilled`).

`TaskFunctionsProofs`, for any number of workers, names, strategies and calls,
whether calls overlap or not: `DefaultAlwaysNamed` (`DefaultIsNamed`) and
`ListingFollowsWorkers` (`ListingIsCurrent`, with the types of all variables).
`DefaultIsNamed` says that some name still has the object of the default entry.
It is inductive together with the domains of the maps: a replacement under the
name of the default moves the default along, and a removal spares every name
whose object is the default.  `ListingIsCurrent` speaks of empty ports only;
`ListsFollow` says it of every port: the last list in the port of a worker, or the
one the pool has if there is none, is the list of the worker's maps, except that a
worker that has not started has told nothing yet.

`ResolvedApplied` (`ResolvedMeansApplied`) assumes `AnswersFirst`, that a call is
made when no answer is under way: without it the property is false (section 4).
`CallInv` follows the one pending call: each of its targets has the message, has
answered into its port, or was heard, and then did apply the call unless the call
already counts as refused; `answers` is the number of the targets heard.  A target
that exits is never heard, so such a call stays pending and does not resolve.

`WorkerChoiceProofs` begins with the circular buffer, of any length:
`EmptyBufferIsWindow`, `PutKeepsBufferInv`, `PutAppendsToWindow`.  `BufferInv` says that the next number
is written `size` steps behind the oldest; it is what a put on a full buffer,
which moves both indexes, must keep for `toArray` to be the window of the last
numbers.  The window is of the numbers as the array rounds them.

Of `WorkerChoice`, for any `MinSize` and `MaxSize`, any set of task functions with
their affinities, of options, costs and bounds of the instance:

* `TypeCorrect` (`TypeOK`), `TurnsEnd` (`TurnEndsAtWeight`), `StatisticsAreOfWindow`
  (`StatisticsOfWindow`), `TurnsAreTaken` (`TakesTurns`), `RefusalsJustified`
  (`RefusedOnlyWithoutReady`), `IdleNodesFirst` (`IdleNodeFirst`) and
  `FirstRoundOnly`.

The inductive invariant is `Inv`, in three parts.

* `Complete`: nodes are distinct and at most `MaxSize`, all static ones are there, and
  the context has a state for exactly the strategies in use.  Each state is in
  `GoodState`: its keys are of nodes in the pool (or 0), which `TypeOK` needs to
  survive a node that leaves, as `remove` moves keys back modulo the number of nodes
  left; and its round is the first, `FirstRoundOnly`.  `StatisticsInv` adds that
  each history is a buffer in order (`BufferInv`), so that `PutAppendsToWindow` says
  what the next measurement makes of it.
* `TurnsInv`: a node that had a turn since another one had comes after it, counted
  from the next key on (`Ahead`).  `TakesTurns` compares a choice with all earlier
  ones; this says what is left of them in the one key the strategy keeps, and it
  must survive splices before, at and behind that key.
* `CountsInv`: what a worker was sent was submitted, and the counters keep to
  their bounds.

For the retries, each try of round robin that finds nobody brings every eligible
node one key nearer (`Distance`), and `Retries` is more than the number of nodes,
so that a refusal means there was none.  For `TurnsEnd`, `InterleavedTurn` goes through
the two loops of the interleaved strategy: with all nodes ready, the node whose turn
it is is taken below its weight, else the next one; behind the last node there is
none, and the one retry that follows takes the first (`ExecutedSettled`).  The loops (retries, creation of nodes, the
sum of an average) are recursive functions of the number of turns, as in
`TasksQueueProofs`; induction over a set of naturals (`SetInduction`) replaces the
library's theorem.

Assumptions are the named ones on the constants in each module; TLC evaluates
them in the runs.  The hypotheses of single theorems hold in the run that checks
the property.

Only model-checked are all liveness properties: they are out of TLAPS's reach.
Every invariant and every other action property of a passing run is stated by a
theorem, some under hypotheses that its run satisfies.

## 6. Not modelled, and the plan

* Dynamic workers with tasks queues: `TasksQueue` has a fixed pool, and
  `DynamicPool` has no queues.  The key that denotes another node, the flush and
  the kill are in both; a pool with all of it is beyond TLC's reach at sizes where
  they meet.
* `full`, `fullEnd`, `empty`, `ready` and `destroy` events: emitted where the
  size of the pool changes, read by nothing.
* `mapExecute` is a loop of `execute`; task stealing switched on or off on a
  running pool changes listeners only.
* LEAST_ELU is commented out of `getWorkerChoiceStrategy`, and event loop
  utilization is not measured; wait times need queues and only add to run times.
* Per-function usage statistics, statistics messages to workers.
* Left out for good: validation of arguments, type declarations, the rounding of
  floating point operations (what a history holds of a time is a parameter),
  benchmarks, examples, build files.
