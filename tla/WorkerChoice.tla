---------------------------- MODULE WorkerChoice ----------------------------
(***************************************************************************)
(* How a pool chooses the worker node of a task: chooseWorkerNode          *)
(* (src/pools/abstract-pool.ts), WorkerChoiceStrategiesContext and the     *)
(* worker choice strategies (src/pools/selection-strategies/), in a pool   *)
(* with `enableTasksQueue: false`: what is queued and what waits is zero.  *)
(*                                                                         *)
(* A worker node key is an index from 0, as in the code; nodes are a       *)
(* sequence.  The identity of a worker is used again once it left.  The    *)
(* worker file declares the task functions, and their strategies are known *)
(* to the context.  previousWorkerNodeKey is left out: the strategies read *)
(* it when the next key is undefined, which no choice leaves behind in the *)
(* round robins.                                                           *)
(***************************************************************************)
EXTENDS Measurements

CONSTANTS
    MinSize, MaxSize,  \* minimumNumberOfWorkers, maximumNumberOfWorkers
    Strategies,        \* the strategies that may be the default
    Function,          \* task functions: the records [strategy, keys]
    Options,           \* options that may be set: records [median, weights]
    Costs,             \* run times of tasks; Undefined: of a task that failed
    MaxTasks, MaxTime, \* bounds on the tasks submitted and on the clock
    MaxMeasures,       \* bound on the run times measured
    MaxChanges         \* bound on the settings changed and the workers leaving

None == "none"  \* no strategy of its own

Weighted == {"WEIGHTED_ROUND_ROBIN", "INTERLEAVED_WEIGHTED_ROUND_ROBIN"}
Averaging == Weighted \union {"FAIR_SHARE"}
Every == Averaging \union {"ROUND_ROBIN", "LEAST_USED", "LEAST_BUSY"}

WorkerNodeKey == 0..MaxSize-1

ASSUME WorkerChoiceAssumption ==
    /\ MinSize \in Nat /\ MaxSize \in Nat \ {0} /\ MinSize <= MaxSize
    /\ Strategies \subseteq Every /\ MaxTasks \in Nat /\ MaxTime \in Nat /\ MaxMeasures \in Nat
    /\ MaxChanges \in Nat
    /\ Costs \subseteq Number \union {Undefined}
    /\ \A f \in Function : /\ f.strategy \in Every \union {None}
                           /\ f.keys \subseteq WorkerNodeKey
    /\ \A o \in Options : /\ o.median \in BOOLEAN
                          /\ o.weights \in [WorkerNodeKey -> Nat \ {0}]

Worker == 1..MaxSize

VARIABLES
    pool,       \* worker nodes, strategies of the context, their options
    strategy,   \* opts.workerChoiceStrategy
    sent,       \* (key, worker) -> tasks sent to worker, accounted for at key
    submitted,  \* how many tasks were submitted
    measures,   \* how many run times were measured
    changes,    \* how many settings were changed and workers left
    now,        \* performance.now()
    since       \* history: the nodes chosen in turn since a node had its turn

vars == <<pool, strategy, sent, submitted, measures, changes, now, since>>

NoKey == -1

Node == [id : Worker, dynamic : BOOLEAN, ready : BOOLEAN,
         informed : BOOLEAN,       \* info.taskFunctionsProperties received
         executing : Nat,          \* usage.tasks.executing
         runTime : Statistics,
         virtualEnd : Measure]     \* strategyData.virtualTaskEndTimestamp

(* What the strategies keep: those that do not use a part leave it at 0 *)
StrategyState == [next : WorkerNodeKey,     \* nextWorkerNodeKey
                  virtualTime : Nat,        \* workerNodeVirtualTaskExecutionTime
                  roundId : Nat,
                  nodeId : WorkerNodeKey]   \* workerNodeId

NewStrategy == [next |-> 0, virtualTime |-> 0, roundId |-> 0, nodeId |-> 0]

-----------------------------------------------------------------------------
(* Conditions *)

Size(p) == Len(p.nodes)

At(p, key) == p.nodes[key + 1]

Ready(p, key) == key < Size(p) /\ At(p, key).ready

(* isWorkerNodeEligible: no keys is no affinity *)
Eligible(p, key, keys) == Ready(p, key) /\ (keys = {} \/ key \in keys)

(* buildWorkerChoiceStrategiesTaskStatisticsRequirements, of runTime *)
Required(p) ==
    LET averaging == DOMAIN p.context \intersect Averaging # {}
    IN  [aggregate |-> averaging \/ "LEAST_BUSY" \in DOMAIN p.context,
         average |-> averaging /\ ~p.options.median,
         median |-> averaging /\ p.options.median]

(* getWorkerNodeTaskRunTime *)
TaskRunTime(p, key) ==
    IF p.options.median THEN OrElse(At(p, key).runTime.median, 0)
    ELSE OrElse(At(p, key).runTime.average, 0)

VirtualEnd(p, key, time) ==
    (IF time < At(p, key).virtualEnd THEN At(p, key).virtualEnd ELSE time)
    + TaskRunTime(p, key)

-----------------------------------------------------------------------------
(* The strategies.  A choice is made of a pool p, the state s of a strategy *)
(* and the affinity keys, and gives all three results of `choose`: the key, *)
(* or NoKey for undefined, the next state, and the nodes.                   *)

Choice(p, s, key) == [key |-> key, state |-> s, nodes |-> p.nodes]

Single(p, keys) == CHOOSE key \in keys : TRUE

(* Round robin from the next key on: the first following key in the affinity *)
FollowingKey(p, s, keys) ==
    LET key(i) == (s.next + i) % Size(p)
        Follows(i) == keys = {} \/ key(i) \in keys
    IN  key(CHOOSE i \in 1..Size(p) : Follows(i) /\ \A j \in 1..i-1 : ~Follows(j))

IfReady(p, key) == IF Ready(p, key) THEN key ELSE NoKey

RoundRobin(p, s, keys) ==
    LET key == IF Cardinality(keys) = 1 THEN Single(p, keys)
               ELSE FollowingKey(p, s, keys)
    IN  Choice(p,
               IF Cardinality(keys) = 1 /\ ~Ready(p, key) THEN s
               ELSE [s EXCEPT !.next = key],
               IfReady(p, key))

WeightedPastEnd(p, s, keys) ==  \* faulty: `<=` in place of `<`
    IF Cardinality(keys) = 1 THEN Choice(p, s, IfReady(p, Single(p, keys)))
    ELSE IF (keys = {} \/ s.next \in keys) /\ s.virtualTime <= p.options.weights[s.next]
    THEN Choice(p, [s EXCEPT !.virtualTime = @ + TaskRunTime(p, s.next)],
                IfReady(p, s.next))
    ELSE LET key == FollowingKey(p, s, keys)
         IN  Choice(p, [s EXCEPT !.next = key, !.virtualTime = 0], IfReady(p, key))

(* The node keeps its turn until the tasks given to it should take as long *)
(* as its weight                                                           *)
WeightedRoundRobin(p, s, keys) ==
    IF Cardinality(keys) = 1
    THEN LET key == Single(p, keys)
         IN  Choice(p, IF Ready(p, key)
                       THEN [s EXCEPT !.next = key, !.virtualTime = 0] ELSE s,
                    IfReady(p, key))
    ELSE IF (keys = {} \/ s.next \in keys) /\ s.virtualTime < p.options.weights[s.next]
    THEN Choice(p, [s EXCEPT !.virtualTime = @ + TaskRunTime(p, s.next)],
                IfReady(p, s.next))
    ELSE LET key == FollowingKey(p, s, keys)
         IN  Choice(p, [s EXCEPT !.next = key, !.virtualTime = 0], IfReady(p, key))

(* roundWeights: the different weights, the round of each being the number *)
(* of those below it                                                       *)
Rounds(p) == Cardinality(Range(p.options.weights))

RoundWeight(p, round) ==
    CHOOSE weight \in Range(p.options.weights) :
        Cardinality({w \in Range(p.options.weights) : w < weight}) = round

(* interleavedWeightedRoundRobinNextWorkerNodeId *)
NextNodeId(p, s) ==
    IF s.nodeId # Size(p) - 1 THEN [s EXCEPT !.nodeId = @ + 1]
    ELSE IF s.roundId = Rounds(p) - 1
    THEN [s EXCEPT !.roundId = 0, !.nodeId = 0]
    ELSE [s EXCEPT !.roundId = @ + 1, !.nodeId = 0]

(* The two loops visit, from the round and the node they stopped at, the   *)
(* nodes up to the last, and then, the node id being kept, the last node   *)
(* alone in each further round.                                            *)
InterleavedWeightedRoundRobin(p, s, keys) ==
    LET rest == Size(p) - s.nodeId
        visits == IF s.roundId < Rounds(p) THEN rest + Rounds(p) - 1 - s.roundId ELSE 0
        Round(i) == IF i <= rest THEN s.roundId ELSE s.roundId + i - rest
        Key(i) == IF i <= rest THEN s.nodeId + i - 1 ELSE Size(p) - 1
        Time(i) == IF \E j \in 1..i : Key(j) # s.next THEN 0 ELSE s.virtualTime
        Taken(i) == LET weight == p.options.weights[Key(i)]
                    IN  /\ Eligible(p, Key(i), keys)
                        /\ weight >= RoundWeight(p, Round(i))
                        /\ Time(i) < weight
        Stopped(i, time) == [s EXCEPT !.roundId = Round(i), !.nodeId = Key(i),
                                    !.virtualTime = time]
    IN  IF Cardinality(keys) = 1
        THEN Choice(p, s, IfReady(p, Single(p, keys)))
        ELSE IF \E i \in 1..visits : Taken(i)
        THEN LET i == Minimum({j \in 1..visits : Taken(j)})
             IN  Choice(p, [Stopped(i, Time(i) + TaskRunTime(p, Key(i)))
                                EXCEPT !.next = Key(i)], Key(i))
        ELSE Choice(p, NextNodeId(p, IF visits = 0 THEN s
                                     ELSE Stopped(visits, Time(visits))), NoKey)

MostLoaded(p, s, keys, load) ==  \* faulty: the comparison is swapped
    LET eligible == {key \in 0..Size(p)-1 : Eligible(p, key, keys)}
        most == {key \in eligible : \A k \in eligible : load[key] >= load[k]}
    IN  Choice(p, s, IF eligible = {} THEN NoKey ELSE Minimum(most))

(* The first of the eligible nodes with the least load *)
Least(p, s, keys, load) ==
    LET eligible == {key \in 0..Size(p)-1 : Eligible(p, key, keys)}
        least == {key \in eligible : \A k \in eligible : load[key] <= load[k]}
    IN  Choice(p, s, IF Cardinality(keys) = 1 THEN IfReady(p, Single(p, keys))
                     ELSE IF eligible = {} THEN NoKey ELSE Minimum(least))

LeastUsed(p, s, keys) ==
    Least(p, s, keys, [key \in 0..Size(p)-1 |-> At(p, key).executing])

LeastBusy(p, s, keys) ==
    Least(p, s, keys, [key \in 0..Size(p)-1 |-> OrElse(At(p, key).runTime.aggregate, 0)])

(* Fair share predicts the end of the tasks of the nodes it compares *)
FairShare(p, s, keys, time) ==
    LET nodes == [i \in DOMAIN p.nodes |->
                     IF /\ Eligible(p, i - 1, keys)
                        /\ p.nodes[i].virtualEnd = Undefined
                     THEN [p.nodes[i] EXCEPT !.virtualEnd = VirtualEnd(p, i - 1, time)]
                     ELSE p.nodes[i]]
        compared == IF Cardinality(keys) = 1 THEN p ELSE [p EXCEPT !.nodes = nodes]
    IN  Least(compared, s, keys, [key \in 0..Size(p)-1 |-> At(compared, key).virtualEnd])

Choose(p, name, keys, time) ==
    LET s == p.context[name]
    IN  CASE name = "ROUND_ROBIN" -> RoundRobin(p, s, keys)
          [] name = "WEIGHTED_ROUND_ROBIN" -> WeightedRoundRobin(p, s, keys)
          [] name = "INTERLEAVED_WEIGHTED_ROUND_ROBIN" ->
                 InterleavedWeightedRoundRobin(p, s, keys)
          [] name = "LEAST_USED" -> LeastUsed(p, s, keys)
          [] name = "LEAST_BUSY" -> LeastBusy(p, s, keys)
          [] name = "FAIR_SHARE" -> FairShare(p, s, keys, time)

-----------------------------------------------------------------------------
(* WorkerChoiceStrategiesContext *)

NoRetries == 0  \* faulty: the first choice that is undefined is an error

(* The retries: as many as there may be nodes, and weights *)
Retries == MaxSize + MaxSize

(* A try of executeStrategy: the choice, and the pool it leaves *)
Try(p, name, keys, time) ==
    LET c == Choose(p, name, keys, time)
    IN  [key |-> c.key,
         pool |-> [p EXCEPT !.nodes = c.nodes, !.context[name] = c.state]]

TryAgain(tried, name, keys, time) ==
    IF tried.key # NoKey THEN tried ELSE Try(tried.pool, name, keys, time)

(* executeStrategy: the choice of the last try, and the pool it leaves *)
Executed(p, name, keys, time) ==
    LET after[i \in 0..Retries] == IF i = 0 THEN Try(p, name, keys, time)
                                   ELSE TryAgain(after[i - 1], name, keys, time)
    IN  after[Retries]

RemovedWithoutShift(p, s, name, key) ==  \* faulty: the keys behind are not moved
    IF p.nodes = <<>> THEN NewStrategy ELSE s

(* A key kept when the node of another one is spliced out of the pool *)
Moved(p, kept, key) == IF kept >= key THEN (kept - 1 + Size(p)) % Size(p) ELSE kept

(* remove of the round robins *)
RoundRobinRemoved(p, s, key) ==
    IF p.nodes = <<>> THEN NewStrategy ELSE [s EXCEPT !.next = Moved(p, @, key)]

WeightedRoundRobinRemoved(p, s, key) ==
    IF p.nodes = <<>> THEN NewStrategy
    ELSE [s EXCEPT !.next = Moved(p, @, key),
                   !.virtualTime = IF s.next = key THEN 0 ELSE @]

(* The interleaved one keeps its round and its time *)
InterleavedWeightedRoundRobinRemoved(p, s, key) ==
    IF p.nodes = <<>> THEN [NewStrategy EXCEPT !.roundId = s.roundId]
    ELSE [s EXCEPT !.next = Moved(p, @, key), !.nodeId = Moved(p, @, key)]

Removed(p, s, name, key) ==
    CASE name = "ROUND_ROBIN" -> RoundRobinRemoved(p, s, key)
      [] name = "WEIGHTED_ROUND_ROBIN" -> WeightedRoundRobinRemoved(p, s, key)
      [] OTHER -> InterleavedWeightedRoundRobinRemoved(p, s, key)

RoundRobins == Weighted \union {"ROUND_ROBIN"}

(* remove of fair share clears the prediction of the node that took the key *)
(* of the one that left                                                     *)
FairShareRemoved(p, key) ==
    IF "FAIR_SHARE" \in DOMAIN p.context /\ key < Size(p)
    THEN [p EXCEPT !.nodes[key + 1].virtualEnd = Undefined] ELSE p

(* context.remove *)
ContextRemoved(p, key) ==
    [FairShareRemoved(p, key) EXCEPT !.context = [name \in DOMAIN @ |->
        IF name \in RoundRobins THEN Removed(p, @[name], name, key) ELSE @[name]]]

(* context.update: fair share alone has something to do *)
ContextUpdated(p, key, time) ==
    IF "FAIR_SHARE" \in DOMAIN p.context
    THEN [p EXCEPT !.nodes[key + 1].virtualEnd = VirtualEnd(p, key, time)] ELSE p

(* syncWorkerChoiceStrategies with getWorkerChoiceStrategies *)
Synchronized(p, default) ==
    LET names == {default} \union ({f.strategy : f \in Function} \ {None})
    IN  [p EXCEPT !.context =
            [name \in names |-> IF name \in DOMAIN @ THEN @[name] ELSE NewStrategy]]

-----------------------------------------------------------------------------
(* Worker nodes *)

(* createAndSetupDynamicWorkerNode, or a static node: initWorkerNodeUsage *)
Created(p, dynamic) ==
    LET aggregates == {p.nodes[i].runTime.aggregate : i \in DOMAIN p.nodes}
                      \union {Undefined}
        id == CHOOSE w \in Worker : \A i \in DOMAIN p.nodes : p.nodes[i].id # w
    IN  [p EXCEPT !.nodes = Append(@,
            [id |-> id, dynamic |-> dynamic, ready |-> dynamic, informed |-> FALSE,
             executing |-> 0, virtualEnd |-> Undefined,
             runTime |-> Initialized(NoStatistics, Required(p), aggregates)])]

InternalBusy(p) ==
    /\ p.nodes # <<>>
    /\ \A i \in DOMAIN p.nodes : p.nodes[i].ready /\ p.nodes[i].executing > 0

ShallCreateDynamicWorker(p) ==
    Size(p) < MaxSize /\ (InternalBusy(p) \/ (MinSize = 0 /\ p.nodes = <<>>))

(* chooseWorkerNode, before it executes the strategy *)
WithNodeFor(p, keys) == IF \E key \in keys : Size(p) <= key THEN Created(p, TRUE) ELSE p

WithDynamicWorkers(p, keys) ==
    LET after[i \in 0..MaxSize] == IF i = 0 THEN p ELSE WithNodeFor(after[i - 1], keys)
    IN  IF keys # {} THEN after[MaxSize]
        ELSE IF ShallCreateDynamicWorker(p) THEN Created(p, TRUE) ELSE p

(* startMinimumNumberOfWorkers *)
Statics(p) == {i \in DOMAIN p.nodes : ~p.nodes[i].dynamic}

WithStaticNode(p) ==
    IF Cardinality(Statics(p)) < MinSize THEN Created(p, FALSE) ELSE p

WithMinimum(p) ==
    LET after[i \in 0..MinSize] == IF i = 0 THEN p ELSE WithStaticNode(after[i - 1])
    IN  after[MinSize]

Spliced(p, key) == [p EXCEPT !.nodes = RemoveAt(@, key + 1)]

Keys == 0..Size(pool)-1

-----------------------------------------------------------------------------
(* History: the turns taken in round robin.  A node that is not ready when *)
(* a turn is taken, or a choice that moves the next key elsewhere, starts  *)
(* the count anew.                                                         *)

NoTurns == [w \in Worker |-> {}]

ReadyWorkers(p) == {At(p, key).id : key \in {k \in 0..Size(p)-1 : Ready(p, k)}}

TurnTaken(p, key) ==
    LET w == At(p, key).id
    IN  [v \in Worker |-> IF v \in ReadyWorkers(p) \ {w} THEN since[v] \union {w} ELSE {}]

-----------------------------------------------------------------------------
(* Actions *)

Init ==
    /\ strategy \in Strategies
    /\ \E o \in Options :
           pool = Synchronized([nodes |-> [i \in 1..MinSize |->
                      [id |-> i, dynamic |-> FALSE, ready |-> TRUE, informed |-> TRUE,
                       executing |-> 0, virtualEnd |-> Undefined,
                       runTime |-> NoStatistics]],
                      context |-> <<>>, options |-> o], strategy)
    /\ sent = [e \in WorkerNodeKey \X Worker |-> 0]
    /\ submitted = 0 /\ measures = 0 /\ changes = 0 /\ now = 0
    /\ since = NoTurns

(* The task functions are those of the first node that told its own.       *)
(* Without any, the default strategy chooses among all nodes.              *)
Known == \E key \in Keys : At(pool, key).informed

StrategyOf(f) == IF Known /\ f.strategy # None THEN f.strategy ELSE strategy

KeysOf(f) == IF Known THEN f.keys ELSE {}

(* internalExecute *)
Execute(f) ==
    LET name == StrategyOf(f)
        keys == KeysOf(f)
        tried == Executed(WithDynamicWorkers(pool, keys), name, keys, now)
        key == tried.key
    IN  /\ submitted < MaxTasks
        /\ submitted' = submitted + 1
        /\ IF key = NoKey  \* rejected
           THEN pool' = tried.pool /\ sent' = sent
           ELSE /\ pool' = [tried.pool EXCEPT !.nodes[key + 1].executing = @ + 1]
                /\ sent' = [sent EXCEPT ![<<key, At(tried.pool, key).id>>] = @ + 1]
        /\ since' = IF name # "ROUND_ROBIN" THEN since
                    ELSE IF keys # {} \/ key = NoKey THEN NoTurns
                    ELSE TurnTaken(tried.pool, key)
        /\ UNCHANGED <<strategy, measures, changes, now>>

(* updateTaskStatisticsWorkerUsage, updateRunTimeWorkerUsage: the run time *)
(* of a task that failed is not looked at                                  *)
Accounted(node, required, cost) ==
    [node EXCEPT
        !.executing = IF @ > 0 THEN @ - 1 ELSE @,
        !.runTime = IF cost = Undefined THEN @ ELSE Measured(@, required, cost)]

(* handleTaskExecutionResponse: by the key stored when the task was sent,  *)
(* whichever node has it now                                               *)
TaskExecutionResponse(e, cost) ==
    LET key == e[1]
        answered == [pool EXCEPT !.nodes[key + 1] = Accounted(@, Required(pool), cost)]
        updated == IF key \in Keys THEN ContextUpdated(answered, key, now) ELSE pool
        measured == Required(pool).aggregate /\ cost # Undefined
    IN  /\ sent[e] > 0
        /\ measured => measures < MaxMeasures
        /\ measures' = IF measured THEN measures + 1 ELSE measures
        /\ sent' = [sent EXCEPT ![e] = @ - 1]
        /\ pool' = IF ShallCreateDynamicWorker(updated) THEN Created(updated, TRUE)
                   ELSE updated
        /\ UNCHANGED <<strategy, submitted, changes, now, since>>

(* handleWorkerReadyResponse *)
WorkerReady(key) ==
    /\ ~At(pool, key).informed
    /\ pool' = [pool EXCEPT !.nodes[key + 1].ready = TRUE,
                            !.nodes[key + 1].informed = TRUE]
    /\ UNCHANGED <<strategy, sent, submitted, measures, changes, now, since>>

(* flagWorkerNodeAsNotReady, of a worker that erred or is killed *)
NotReady(key) ==
    /\ At(pool, key).ready /\ At(pool, key).informed
    /\ changes < MaxChanges /\ changes' = changes + 1
    /\ pool' = [pool EXCEPT !.nodes[key + 1].ready = FALSE]
    /\ UNCHANGED <<strategy, sent, submitted, measures, now, since>>

(* The exit listener: removeWorkerNode, startMinimumNumberOfWorkers *)
WorkerNodeExit(key) ==
    LET id == At(pool, key).id
    IN  /\ ~At(pool, key).ready
        /\ pool' = WithMinimum(ContextRemoved(Spliced(pool, key), key))
        /\ sent' = [e \in DOMAIN sent |-> IF e[2] = id THEN 0 ELSE sent[e]]
        /\ since' = [w \in Worker |-> IF w = id THEN {} ELSE since[w] \ {id}]
        /\ UNCHANGED <<strategy, submitted, measures, changes, now>>

SetWorkerChoiceStrategy(name) ==
    /\ name # strategy
    /\ changes < MaxChanges /\ changes' = changes + 1
    /\ strategy' = name
    /\ pool' = Synchronized(pool, name)
    /\ since' = IF "ROUND_ROBIN" \in DOMAIN pool.context THEN since ELSE NoTurns
    /\ UNCHANGED <<sent, submitted, measures, now>>

SetWorkerChoiceStrategyOptions(o) ==
    /\ o # pool.options
    /\ changes < MaxChanges /\ changes' = changes + 1
    /\ pool' = [pool EXCEPT !.options = o]
    /\ UNCHANGED <<strategy, sent, submitted, measures, now, since>>

(* Only fair share reads the clock *)
Tick ==
    /\ "FAIR_SHARE" \in DOMAIN pool.context /\ now < MaxTime
    /\ now' = now + 1
    /\ UNCHANGED <<pool, strategy, sent, submitted, measures, changes, since>>

Next ==
    \/ \E f \in Function : Execute(f)
    \/ \E e \in DOMAIN sent, cost \in Costs : TaskExecutionResponse(e, cost)
    \/ \E key \in Keys : WorkerReady(key) \/ NotReady(key) \/ WorkerNodeExit(key)
    \/ \E name \in Strategies : SetWorkerChoiceStrategy(name)
    \/ \E o \in Options : SetWorkerChoiceStrategyOptions(o)
    \/ Tick

Spec == Init /\ [][Next]_vars

-----------------------------------------------------------------------------
(* Properties *)

(* The keys the round robins keep are keys of nodes of the pool *)
KeysDenoteNodes ==
    pool.nodes # <<>> => \A name \in RoundRobins \intersect DOMAIN pool.context :
                             pool.context[name].next \in Keys /\ pool.context[name].nodeId \in Keys

(* Counts and statistics have their types, and however nodes come and go   *)
(* (worker-choice-strategies-context.ts remove), the keys kept denote nodes *)
TypeOK ==
    /\ KeysDenoteNodes
    /\ pool.nodes \in Seq(Node) /\ Size(pool) \in MinSize..MaxSize
    /\ pool.context \in [DOMAIN pool.context -> StrategyState]
    /\ DOMAIN pool.context \subseteq Every /\ strategy \in DOMAIN pool.context
    /\ pool.options \in Options
    /\ sent \in [WorkerNodeKey \X Worker -> 0..MaxTasks]
    /\ submitted \in 0..MaxTasks /\ measures \in 0..MaxMeasures
    /\ changes \in 0..MaxChanges
    /\ now \in 0..MaxTime
    /\ since \in [Worker -> SUBSET Worker]

(* The workers a step of Execute gave a task to: one, or none if refused *)
Chosen == {w \in Worker : \E key \in WorkerNodeKey : sent'[<<key, w>>] > sent[<<key, w>>]}

Executes(f) == submitted' # submitted /\ Execute(f)

(* ROUND_ROBIN gives no node a second turn before each node that was ready *)
(* all along has had one, whatever nodes join, leave or are skipped in     *)
(* between                                                                 *)
TakesTurns ==
    [][\A f \in Function :
          (StrategyOf(f) = "ROUND_ROBIN" /\ KeysOf(f) = {} /\ Executes(f))
          => \A w \in Chosen, v \in ReadyWorkers(pool') \ Chosen : w \notin since[v]]_vars

(* execute() is refused only when no node that may run the task is ready:  *)
(* the retries reach every node.  The weighted strategies do refuse tasks. *)
RefusedOnlyWithoutReady ==
    [][\A f \in Function :
          (StrategyOf(f) \notin Weighted /\ Executes(f) /\ Chosen = {})
          => \A key \in WorkerNodeKey : ~Eligible(pool', key, KeysOf(f))]_vars

(* LEAST_USED gives a node a second task only when each ready node has one *)
IdleNodeFirst ==
    [][\A f \in Function :
          (StrategyOf(f) = "LEAST_USED" /\ KeysOf(f) = {} /\ Executes(f))
          => \A i, j \in DOMAIN pool'.nodes :
                (pool'.nodes[i].id \in Chosen /\ pool'.nodes[i].executing > 1
                    /\ pool'.nodes[j].ready)
                => pool'.nodes[j].executing > 0]_vars

(* A weighted strategy gives another task to the node whose turn it is only *)
(* while the tasks given to it in this turn should take less than the       *)
(* weight of this very node, and adds what this one should take; with all   *)
(* nodes ready the next task then goes to another node.                     *)
TurnEndsAtWeight ==
    [][\A f \in Function :
          LET s == pool.context[StrategyOf(f)]
              t == pool'.context[StrategyOf(f)]
              underWay == StrategyOf(f) = "WEIGHTED_ROUND_ROBIN" \/ s.nodeId = s.next
          IN  (/\ StrategyOf(f) \in Weighted /\ KeysOf(f) = {} /\ Executes(f)
               /\ Size(pool') > 1
               /\ \A key \in 0..Size(pool')-1 : Ready(pool', key)
               /\ underWay /\ At(pool', s.next).id \in Chosen)
              => /\ s.virtualTime < pool.options.weights[s.next]
                 /\ t.virtualTime = s.virtualTime + TaskRunTime(pool', s.next)]_vars

(* The moving average and median of the run time of a node are those of the *)
(* last times measured of it, as many as the history holds and as the       *)
(* history holds them, though its indexes wrap, what is required of it      *)
(* changes, and a measurement of another node, or of a task accounted for   *)
(* on the node that took the key of one that left, comes in between.        *)
StatisticsOfWindow ==
    [][\A e \in DOMAIN sent, cost \in Costs \ {Undefined} :
          LET before == At(pool, e[1]).runTime
              after == At(pool', e[1]).runTime
              window == WindowAppend(ToArray(before.history), cost)
          IN  (e[1] \in Keys /\ measures' # measures /\ TaskExecutionResponse(e, cost))
              => /\ Required(pool).average => after.average = Average(window)
                 /\ Required(pool).median => after.median = Median(window)
                 /\ Required(pool).average \/ Required(pool).median =>
                        ToArray(after.history) = window]_vars

(* A pool with a ready node refuses no task.  INTERLEAVED_WEIGHTED_ROUND_  *)
(* ROBIN does, once a node alone has reached its weight.                   *)
ReadyPoolServes ==
    [][\A f \in Function : (Executes(f) /\ Chosen = {}) => ReadyWorkers(pool') = {}]_vars

Interleaved == "INTERLEAVED_WEIGHTED_ROUND_ROBIN"

(* Once all nodes have been tested, and the interleaved strategy turns back *)
(* to an earlier one, the next round has started.  It never does: from the  *)
(* last node on, the rounds to come test that node alone.                   *)
NextRoundStarts ==
    [][\A f \in Function :
          (StrategyOf(f) = Interleaved /\ KeysOf(f) = {} /\ Executes(f) /\ Rounds(pool) > 1)
          => LET s == pool.context[Interleaved]
                 t == pool'.context[Interleaved]
             IN  t.nodeId < s.nodeId => t.roundId # s.roundId]_vars

(* In a round, the interleaved strategy gives a task to a node whose tasks  *)
(* take less than the weight of the round.  It compares with the weight of  *)
(* the node.                                                                *)
BelowRoundWeight ==
    [][\A f \in Function :
          (StrategyOf(f) = Interleaved /\ KeysOf(f) = {} /\ Executes(f))
          => LET s == pool.context[Interleaved]
                 t == pool'.context[Interleaved]
             IN  (s.nodeId = s.next /\ t.nodeId = s.nodeId /\ Chosen # {})
                 => s.virtualTime < RoundWeight(pool, t.roundId)]_vars
=============================================================================
