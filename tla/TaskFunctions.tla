--------------------------- MODULE TaskFunctions ---------------------------
(***************************************************************************)
(* The task functions of a running pool: addTaskFunction,                  *)
(* removeTaskFunction and setDefaultTaskFunction of AbstractPool           *)
(* (src/pools/abstract-pool.ts), their messages, and the workers that      *)
(* answer them (src/worker/abstract-worker.ts).                            *)
(*                                                                         *)
(* A worker is known by an identity that is never used again; workerNodes  *)
(* is a sequence.  A task function object is the call that brought it in   *)
(* (0: the worker file) with its strategy: two are the same object for the *)
(* code when they are equal here.  A port is a sequence in each direction. *)
(* The statistics messages, the priorities of the queues and names that    *)
(* are refused before anything is sent are left out.                       *)
(***************************************************************************)
EXTENDS Integers, SequencesExt

CONSTANTS
    MinSize, MaxSize,   \* minimumNumberOfWorkers, maximumNumberOfWorkers
    Name,               \* names of task functions
    FileName,           \* the task function of the worker file, its default
    FileStrategy,       \* the strategy it declares, or None
    PoolStrategy,       \* opts.workerChoiceStrategy
    Strategy,           \* strategies a task function may come with
    None,
    AnswersFirst,       \* calls wait for the answers to every earlier message
    MaxCalls,           \* bound on the calls to the pool
    MaxWorkers          \* bound on the workers ever created

ASSUME TaskFunctionsAssumption ==
    /\ MinSize \in Nat \ {0} /\ MaxSize \in Nat /\ MinSize <= MaxSize
    /\ FileName \in Name
    /\ None \notin Strategy \union {PoolStrategy} \union BOOLEAN
    /\ AnswersFirst \in BOOLEAN
    /\ MaxCalls \in Nat /\ MaxWorkers \in Nat /\ MinSize <= MaxWorkers

VARIABLES
    nodes,      \* workerNodes
    dynamic,    \* worker -> info.dynamic
    info,       \* worker -> info.taskFunctionsProperties
    taskFunctions,  \* the pool's: name -> task function object
    strategies, \* the strategies of the worker choice strategies context
    pending,    \* the calls that wait for answers, numbered in their order
    results,    \* call -> what its promise settled with
    calls,      \* how many calls were made
    functions,  \* worker -> its taskFunctions, but the default entry
    default,    \* worker -> the object of its default entry
    toWorker, fromWorker  \* the two directions of the message channel

poolVars == <<nodes, dynamic, info, taskFunctions, strategies, pending, results, calls>>
workerVars == <<functions, default>>
vars == <<poolVars, workerVars, toWorker, fromWorker>>

Worker == 1..MaxWorkers

Object == [call : 0..MaxCalls, strategy : Strategy \union {PoolStrategy, None, FileStrategy}]

FileObject == [call |-> 0, strategy |-> FileStrategy]

(* A Map from names to objects, but its order, which nothing depends on *)
ObjectMap == UNION {[names -> Object] : names \in SUBSET Name}

(* What listTaskFunctionsProperties tells of a worker *)
Listing == [functions : ObjectMap, default : Object]

Unlisted == [functions |-> <<>>, default |-> FileObject]

Operation == [call : 1..MaxCalls, kind : {"add", "remove", "default"}, name : Name,
              object : Object, targets : SUBSET Worker, answers : Nat, ok : BOOLEAN]

Members == Range(nodes)

Created == Cardinality({w \in Worker : dynamic[w] # None})

-----------------------------------------------------------------------------
(* The worker *)

Drop(map, name) == [n \in DOMAIN map \ {name} |-> map[n]]

Put(map, name, object) == [n \in DOMAIN map \union {name} |->
                               IF n = name THEN object ELSE map[n]]

ListTaskFunctionsProperties(w) == [functions |-> functions'[w], default |-> default'[w]]

Properties(w) == [kind |-> "properties", listing |-> ListTaskFunctionsProperties(w)]

Status(ok) == [kind |-> "status", ok |-> ok]

WorkerAddsOnly(w, message) ==  \* faulty: the default entry is left as it was
    /\ functions' = [functions EXCEPT ![w] = Put(@, message.name, message.object)]
    /\ UNCHANGED default
    /\ fromWorker' = [fromWorker EXCEPT ![w] = @ \o <<Properties(w), Status(TRUE)>>]

(* addTaskFunction: the default entry follows the object it shares *)
WorkerAdds(w, message) ==
    /\ functions' = [functions EXCEPT ![w] = Put(@, message.name, message.object)]
    /\ default' = IF message.name \in DOMAIN functions[w]
                      /\ functions[w][message.name] = default[w]
                  THEN [default EXCEPT ![w] = message.object]
                  ELSE default
    /\ fromWorker' = [fromWorker EXCEPT ![w] = @ \o <<Properties(w), Status(TRUE)>>]

(* removeTaskFunction: the list is sent, whether there was such a name *)
WorkerRemoves(w, message) ==
    LET known == message.name \in DOMAIN functions[w]
        isDefault == known /\ functions[w][message.name] = default[w]
    IN  /\ functions' = IF isDefault THEN functions
                        ELSE [functions EXCEPT ![w] = Drop(@, message.name)]
        /\ UNCHANGED default
        /\ fromWorker' = [fromWorker EXCEPT ![w] =
               @ \o IF isDefault THEN <<Status(FALSE)>> ELSE <<Properties(w), Status(known)>>]

WorkerSetsDefaultUntold(w, message) ==  \* faulty: the list is not sent
    LET known == message.name \in DOMAIN functions[w]
    IN  /\ default' = IF known THEN [default EXCEPT ![w] = functions[w][message.name]]
                      ELSE default
        /\ UNCHANGED functions
        /\ fromWorker' = [fromWorker EXCEPT ![w] = Append(@, Status(known))]

(* setDefaultTaskFunction *)
WorkerSetsDefault(w, message) ==
    LET known == message.name \in DOMAIN functions[w]
    IN  /\ default' = IF known THEN [default EXCEPT ![w] = functions[w][message.name]]
                      ELSE default
        /\ UNCHANGED functions
        /\ fromWorker' = [fromWorker EXCEPT ![w] =
               @ \o IF known THEN <<Properties(w), Status(TRUE)>> ELSE <<Status(FALSE)>>]

(* handleReadyMessageEvent *)
WorkerStarts(w) ==
    /\ UNCHANGED workerVars
    /\ fromWorker' = [fromWorker EXCEPT ![w] = Append(@, Properties(w))]

(* messageEventListener, handleTaskFunctionOperationMessage *)
WorkerReceives(w) ==
    /\ toWorker[w] # <<>>
    /\ toWorker' = [toWorker EXCEPT ![w] = Tail(@)]
    /\ LET message == Head(toWorker[w])
       IN  \/ message.kind = "startup" /\ WorkerStarts(w)
           \/ message.kind = "add" /\ WorkerAdds(w, message)
           \/ message.kind = "remove" /\ WorkerRemoves(w, message)
           \/ message.kind = "default" /\ WorkerSetsDefault(w, message)
    /\ UNCHANGED poolVars

-----------------------------------------------------------------------------
(* What the pool lists and which strategies it keeps *)

Listed(w) == info'[w] # Unlisted

(* listTaskFunctionsProperties: what the first node with a list tells *)
PoolListing ==
    {info'[nodes[k]] : k \in {i \in DOMAIN nodes :
        Listed(nodes[i]) /\ \A j \in 1..(i - 1) : ~Listed(nodes[j])}}

ListedStrategies(listings) ==
    (UNION {{o.strategy : o \in Range(l.functions) \union {l.default}} : l \in listings})
        \ {None}

(* syncWorkerChoiceStrategies(getWorkerChoiceStrategies()) *)
Synchronized == {PoolStrategy} \union ListedStrategies(PoolListing)

(* What resolved operations do to the taskFunctions of the pool: of those   *)
(* that add or remove a name, the last call decides.                        *)
Changes(resolved, name) == {o \in resolved : o.kind # "default" /\ o.name = name}

Continued(map, resolved) ==
    LET last(name) == CHOOSE o \in Changes(resolved, name) :
                          \A p \in Changes(resolved, name) : p.call <= o.call
        kept(name) == Changes(resolved, name) = {}
    IN  [name \in {n \in Name : IF kept(n) THEN n \in DOMAIN map ELSE last(n).kind = "add"} |->
             IF kept(name) THEN map[name] ELSE last(name).object]

(* The rest of the calls after their answers, in the order of the calls *)
Settled(operations) ==
    LET resolved == {o \in operations : o.ok}
    IN  /\ taskFunctions' = Continued(taskFunctions, resolved)
        /\ strategies' = IF \E o \in resolved : o.kind # "default"
                         THEN Synchronized ELSE strategies
        /\ results' = [c \in DOMAIN results \union {o.call : o \in operations} |->
                           IF c \in DOMAIN results THEN results[c]
                           ELSE \E o \in resolved : o.call = c]

-----------------------------------------------------------------------------
(* The messages the pool receives: workerMessageListener and the listeners *)
(* of sendTaskFunctionOperationToWorkers                                    *)

(* An answer counts for every call that has the worker among its targets *)
Answered(operation, w, ok) ==
    IF w \in operation.targets
    THEN [operation EXCEPT !.answers = @ + 1, !.ok = @ /\ ok]
    ELSE operation

CompleteAtFirst(operation) == operation.answers > 0  \* faulty: one answer is enough

CompleteLate(operation) ==  \* faulty: > for >=
    operation.answers > Cardinality(operation.targets)

Complete(operation) == operation.answers >= Cardinality(operation.targets)

PoolReceivesStatus(w, message) ==
    LET heard == {Answered(o, w, message.ok) : o \in pending}
    IN  /\ UNCHANGED info
        /\ Settled({o \in heard : Complete(o)})
        /\ pending' = {o \in heard : ~Complete(o)}

(* A list that comes with the ready message, or after an operation *)
PoolReceivesProperties(w, message) ==
    /\ info' = [info EXCEPT ![w] = message.listing]
    /\ UNCHANGED <<taskFunctions, strategies, pending, results>>

PoolReceives(w) ==
    /\ fromWorker[w] # <<>>
    /\ fromWorker' = [fromWorker EXCEPT ![w] = Tail(@)]
    /\ LET message == Head(fromWorker[w])
       IN  \/ message.kind = "properties" /\ PoolReceivesProperties(w, message)
           \/ message.kind = "status" /\ PoolReceivesStatus(w, message)
    /\ UNCHANGED <<nodes, dynamic, calls, workerVars, toWorker>>

-----------------------------------------------------------------------------
(* The calls *)

Quiet == \A w \in Members : toWorker[w] = <<>> /\ fromWorker[w] = <<>>

(* sendTaskFunctionOperationToWorkers *)
Send(kind, name, object) ==
    /\ calls < MaxCalls
    /\ AnswersFirst => pending = {} /\ Quiet
    /\ calls' = calls + 1
    /\ LET operation == [call |-> calls + 1, kind |-> kind, name |-> name, object |-> object,
                         targets |-> Members, answers |-> 0, ok |-> TRUE]
       IN  /\ pending' = pending \union {operation}
           /\ toWorker' = [w \in Worker |->
                  IF w \in Members
                  THEN Append(toWorker[w], [kind |-> kind, name |-> name, object |-> object])
                  ELSE toWorker[w]]
    /\ UNCHANGED <<nodes, dynamic, info, taskFunctions, strategies, results, workerVars,
                   fromWorker>>

AddTaskFunction(name, strategy) ==
    Send("add", name, [call |-> calls + 1, strategy |-> strategy])

RemoveTaskFunction(name) ==
    /\ name \in DOMAIN taskFunctions
    /\ Send("remove", name, FileObject)

SetDefaultTaskFunction(name) == Send("default", name, FileObject)

-----------------------------------------------------------------------------
(* Workers come and go *)

Startup == [kind |-> "startup", name |-> FileName, object |-> FileObject]

(* The operations a dynamic worker starts with: what the pool knows *)
Additions ==
    LET Addition(name) == [kind |-> "add", name |-> name, object |-> taskFunctions[name]]
    IN  SetToSeq({Addition(name) : name \in DOMAIN taskFunctions})

(* createAndSetupWorkerNode; a dynamic worker is told the task functions *)
Create(w, others, isDynamic) ==
    /\ nodes' = Append(others, w)
    /\ dynamic' = [dynamic EXCEPT ![w] = isDynamic]
    /\ toWorker' = [toWorker EXCEPT ![w] =
                        <<Startup>> \o IF isDynamic THEN Additions ELSE <<>>]
    /\ UNCHANGED <<info, taskFunctions, strategies, pending, results, calls, workerVars,
                   fromWorker>>

(* createAndSetupDynamicWorkerNode, when a task finds every worker busy *)
CreateDynamicWorker ==
    /\ Len(nodes) < MaxSize
    /\ Created < MaxWorkers
    /\ Create(Created + 1, nodes, TRUE)

(* The exit listener: the node leaves, and a static one takes its place *)
WorkerExits(w) ==
    \E k \in DOMAIN nodes :
        /\ nodes[k] = w
        /\ Created < MaxWorkers
        /\ \/ /\ ~dynamic[w]
              /\ Create(Created + 1, RemoveAt(nodes, k), FALSE)
           \/ /\ dynamic[w]
              /\ nodes' = RemoveAt(nodes, k)
              /\ UNCHANGED <<dynamic, info, taskFunctions, strategies, pending, results,
                             calls, workerVars, toWorker, fromWorker>>

-----------------------------------------------------------------------------

Init ==
    /\ nodes = [k \in 1..MinSize |-> k]
    /\ dynamic = [w \in Worker |-> IF w <= MinSize THEN FALSE ELSE None]
    /\ info = [w \in Worker |-> Unlisted]
    /\ taskFunctions = <<>>
    /\ strategies = {PoolStrategy}
    /\ pending = {} /\ results = <<>> /\ calls = 0
    /\ functions = [w \in Worker |-> [n \in {FileName} |-> FileObject]]
    /\ default = [w \in Worker |-> FileObject]
    /\ toWorker = [w \in Worker |-> IF w <= MinSize THEN <<Startup>> ELSE <<>>]
    /\ fromWorker = [w \in Worker |-> <<>>]

Next ==
    \/ \E name \in Name, strategy \in Strategy \union {None} : AddTaskFunction(name, strategy)
    \/ \E name \in Name : RemoveTaskFunction(name) \/ SetDefaultTaskFunction(name)
    \/ CreateDynamicWorker
    \/ \E w \in Worker : WorkerExits(w)
    \/ \E w \in Worker : w \in Members /\ (WorkerReceives(w) \/ PoolReceives(w))

Spec == Init /\ [][Next]_vars

(* Ports deliver their messages, and the listeners handle them *)
FairSpec ==
    /\ Spec
    /\ \A w \in Worker : /\ WF_vars(w \in Members /\ WorkerReceives(w))
                         /\ WF_vars(w \in Members /\ PoolReceives(w))

-----------------------------------------------------------------------------
(* Properties *)

Message == [kind : {"startup", "add", "remove", "default"}, name : Name, object : Object]

(* The values of the variables: calls and answers of src/pools/abstract-pool.ts *)
TypeOK ==
    /\ nodes \in Seq(Worker) /\ Len(nodes) \in MinSize..MaxSize
    /\ dynamic \in [Worker -> BOOLEAN \union {None}]
    /\ info \in [Worker -> Listing \union {Unlisted}]
    /\ taskFunctions \in ObjectMap
    /\ strategies \subseteq Strategy \union {PoolStrategy, FileStrategy}
    /\ pending \subseteq Operation
    /\ \A c \in DOMAIN results : c \in 1..calls /\ results[c] \in BOOLEAN
    /\ calls \in 0..MaxCalls
    /\ functions \in [Worker -> ObjectMap] /\ default \in [Worker -> Object]
    /\ \A w \in Worker : Range(toWorker[w]) \subseteq Message

(* The default entry of a worker is one of its named task functions: only    *)
(* then does the second entry of its list, which the pool takes for the name *)
(* of the default (abstract-pool.ts getTaskFunctionWorkerChoiceStrategy),    *)
(* name it.                                                                  *)
DefaultIsNamed == \A w \in Worker : default[w] \in Range(functions[w])

(* Once the port of a worker is empty, the pool lists the task functions the *)
(* worker has: every change of its map sent a list (abstract-worker.ts       *)
(* sendTaskFunctionsPropertiesToMainWorker).                                 *)
ListingIsCurrent ==
    /\ TypeOK
    /\ \A w \in Members :
           toWorker[w] = <<>> /\ fromWorker[w] = <<>>
               => info[w] = [functions |-> functions[w], default |-> default[w]]

Applied(operation, w) ==
    CASE operation.kind = "add" ->
             /\ operation.name \in DOMAIN functions[w]
             /\ functions[w][operation.name] = operation.object
      [] operation.kind = "remove" -> operation.name \notin DOMAIN functions[w]
      [] operation.kind = "default" ->
             /\ operation.name \in DOMAIN functions[w]
             /\ functions[w][operation.name] = default[w]

(* A call that resolves TRUE was applied by every worker that was in the     *)
(* pool at the call and is still (abstract-pool.ts                           *)
(* sendTaskFunctionOperationToWorkers counts answers, not workers).          *)
ResolvedMeansApplied ==
    [][\A o \in pending :
           o.call \in DOMAIN results' \ DOMAIN results /\ results'[o.call]
               => \A w \in o.targets \intersect Members : Applied(o, w)]_vars

(* A worker whose task functions are known to the pool only lists strategies *)
(* that the context can execute: a task of such a function is dispatched by  *)
(* its strategy (abstract-pool.ts chooseWorkerNode).                         *)
StrategiesKnown ==
    Quiet /\ pending = {} => ListedStrategies({info[Head(nodes)]}) \subseteq strategies

(* A call settles, unless one of the workers it was sent to leaves before it *)
(* answered (abstract-pool.ts sendTaskFunctionOperationToWorkers).           *)
CallSettles ==
    \A c \in 1..MaxCalls :
        (\E o \in pending : o.call = c)
            ~> \/ c \in DOMAIN results
               \/ \E o \in pending : o.call = c /\ ~(o.targets \subseteq Members)

=============================================================================
