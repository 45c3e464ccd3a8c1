--------------------------- MODULE TaskPoolProofs ---------------------------
(***************************************************************************)
(* Theorems about TaskPool, for every number of workers, set of tasks and  *)
(* tasks queue option: its types, flags and settlements; where its tasks   *)
(* are, no task being lost or duplicated (OnePlace); that it implements    *)
(* TaskLifecycle; how many tasks it counts, with stealing and without.     *)
(***************************************************************************)
EXTENDS TaskPool, SequenceTheorems, FiniteSetTheorems, TLAPS

(* Deleting an element of a sequence *)
LEMMA DeleteAt ==
    ASSUME NEW S, NEW q \in Seq(S), NEW i \in DOMAIN q
    PROVE  /\ SubSeq(q, 1, i - 1) \o SubSeq(q, i + 1, Len(q)) \in Seq(S)
           /\ Len(SubSeq(q, 1, i - 1) \o SubSeq(q, i + 1, Len(q))) = Len(q) - 1
           /\ q # <<>>
  <1> DEFINE left == SubSeq(q, 1, i - 1)
             right == SubSeq(q, i + 1, Len(q))
  <1>1. i \in 1..Len(q) /\ Len(q) \in Nat
    OBVIOUS
  <1>2. left \in Seq(S) /\ Len(left) = i - 1
    BY <1>1
  <1>3. right \in Seq(S) /\ Len(right) = Len(q) - i
    BY <1>1
  <1> HIDE DEF left, right
  <1>4. left \o right \in Seq(S) /\ Len(left \o right) = Len(left) + Len(right)
    BY <1>2, <1>3, ConcatProperties
  <1>5. Len(left \o right) = Len(q) - 1
    BY <1>1, <1>2, <1>3, <1>4
  <1>6. q # <<>>
    BY <1>1
  <1> QED BY <1>4, <1>5, <1>6 DEF left, right

LEMMA HeadTail ==
    ASSUME NEW S, NEW q \in Seq(S), q # <<>>
    PROVE  Head(q) \in S /\ Tail(q) \in Seq(S)
  OBVIOUS

(* What every operation on the nodes preserves of their state *)
BusyWhenQueued(s) == \A n \in Node : s.queue[n] # <<>> => s.executing[n] >= Concurrency

FlaggedWhenFull(s) == \A n \in Node : Len(s.queue[n]) >= QueueSize => s.backPressure[n]

NodesOK(s) == s \in PoolState /\ BusyWhenQueued(s) /\ FlaggedWhenFull(s)

-----------------------------------------------------------------------------
(* Lemmas about the operations on the nodes *)

(* Executing a task raises one counter and touches no queue. *)
LEMMA ExecuteTaskEffect ==
    ASSUME NEW s, s \in PoolState, FlaggedWhenFull(s), NEW n \in Node, NEW t \in Task
    PROVE  LET r == ExecuteTask(s, n, t)
           IN  /\ r \in PoolState
               /\ FlaggedWhenFull(r)
               /\ r.queue = s.queue
               /\ r.executing = [s.executing EXCEPT ![n] = @ + 1]
               /\ r.continuousStealing = s.continuousStealing
  <1> DEFINE b == BeforeTaskExecution(s, n)
             r == ExecuteTask(s, n, t)
  <1>1. [s.executing EXCEPT ![n] = @ + 1] \in [Node -> Nat]
    BY DEF PoolState
  <1>2. /\ b \in PoolState
        /\ b.executing = [s.executing EXCEPT ![n] = @ + 1]
        /\ b.queue = s.queue
        /\ b.backPressure = s.backPressure
        /\ b.continuousStealing = s.continuousStealing
    BY <1>1 DEF BeforeTaskExecution, PoolState
  <1>3. [b.port EXCEPT ![n] = Append(@, TaskMessage(t))] \in [Node -> Seq(Message)]
    <2>1. TaskMessage(t) \in Message
      BY DEF TaskMessage, Message
    <2>2. b.port \in [Node -> Seq(Message)] /\ b.port[n] \in Seq(Message)
      BY <1>2 DEF PoolState
    <2>3. Append(b.port[n], TaskMessage(t)) \in Seq(Message)
      BY <2>1, <2>2
    <2> QED BY <2>2, <2>3
  <1>4. /\ r \in PoolState
        /\ r.executing = b.executing
        /\ r.queue = b.queue
        /\ r.backPressure = b.backPressure
        /\ r.continuousStealing = b.continuousStealing
    BY <1>2, <1>3 DEF ExecuteTask, PoolState
  <1>5. FlaggedWhenFull(r)
    BY <1>2, <1>4 DEF FlaggedWhenFull
  <1> QED BY <1>2, <1>4, <1>5

LEMMA ExecuteTaskOK ==
    ASSUME NEW s, NodesOK(s), NEW n \in Node, NEW t \in Task
    PROVE  /\ NodesOK(ExecuteTask(s, n, t))
           /\ ExecuteTask(s, n, t).continuousStealing = s.continuousStealing
  <1> DEFINE r == ExecuteTask(s, n, t)
  <1>1. /\ r \in PoolState
        /\ FlaggedWhenFull(r)
        /\ r.queue = s.queue
        /\ r.executing = [s.executing EXCEPT ![n] = @ + 1]
        /\ r.continuousStealing = s.continuousStealing
    BY ExecuteTaskEffect DEF NodesOK
  <1>2. s.executing \in [Node -> Nat] /\ Concurrency \in Nat
    BY PoolAssumption DEF NodesOK, PoolState
  <1>3. BusyWhenQueued(r)
    BY <1>1, <1>2 DEF NodesOK, BusyWhenQueued
  <1> QED BY <1>1, <1>3 DEF NodesOK

(* Dequeuing lowers the flag only when the rest of the queue allows it. *)
LEMMA DequeueTaskOK ==
    ASSUME NEW s, s \in PoolState, FlaggedWhenFull(s), NEW n \in Node, s.queue[n] # <<>>
    PROVE  /\ DequeueTask(s, n) \in PoolState
           /\ FlaggedWhenFull(DequeueTask(s, n))
           /\ BusyWhenQueued(s) => BusyWhenQueued(DequeueTask(s, n))
           /\ Head(s.queue[n]) \in Task
           /\ DequeueTask(s, n).executing = s.executing
           /\ DequeueTask(s, n).queue = [s.queue EXCEPT ![n] = Tail(@)]
           /\ DequeueTask(s, n).continuousStealing = s.continuousStealing
  <1> DEFINE r == DequeueTask(s, n)
             flag == s.backPressure[n] /\ Len(Tail(s.queue[n])) >= QueueSize
  <1>1. /\ s.queue[n] \in Seq(Task)
        /\ Tail(s.queue[n]) \in Seq(Task)
        /\ Len(Tail(s.queue[n])) = Len(s.queue[n]) - 1
        /\ Len(s.queue[n]) \in Nat
        /\ Head(s.queue[n]) \in Task
    BY DEF PoolState
  <1>2. /\ [s.queue EXCEPT ![n] = Tail(@)] \in [Node -> Seq(Task)]
        /\ [s.backPressure EXCEPT ![n] = flag] \in [Node -> BOOLEAN]
    BY <1>1 DEF PoolState
  <1>3. /\ r \in PoolState
        /\ r.queue = [s.queue EXCEPT ![n] = Tail(@)]
        /\ r.backPressure = [s.backPressure EXCEPT ![n] = flag]
        /\ r.executing = s.executing
        /\ r.continuousStealing = s.continuousStealing
    BY <1>2 DEF DequeueTask, PoolState
  <1>4. FlaggedWhenFull(r)
    <2> SUFFICES ASSUME NEW m \in Node, Len(r.queue[m]) >= QueueSize
                 PROVE  r.backPressure[m]
      BY DEF FlaggedWhenFull
    <2>1. CASE m = n
      BY <2>1, <1>1, <1>3, PoolAssumption DEF FlaggedWhenFull, PoolState
    <2>2. CASE m # n
      BY <2>2, <1>3 DEF FlaggedWhenFull, PoolState
    <2> QED BY <2>1, <2>2
  <1>5. BusyWhenQueued(s) => BusyWhenQueued(r)
    BY <1>1, <1>3 DEF BusyWhenQueued, PoolState
  <1> QED BY <1>1, <1>3, <1>4, <1>5

(* Distributing tasks over receivers.  A receiver that cannot execute its   *)
(* task stays below its own back pressure size.                             *)
LEMMA DistributeOK ==
    ASSUME NEW s, NodesOK(s), NEW src \in Node, NEW o \in ServiceOrder(s, src)
    PROVE  /\ NodesOK(Distribute(s, src, o))
           /\ Distribute(s, src, o).continuousStealing = s.continuousStealing
  <1> DEFINE r == Distribute(s, src, o)
             served(d) == \E i \in DOMAIN o : o[i] = d
             given(d) == s.queue[src][CHOOSE i \in DOMAIN o : o[i] = d]
             left == SubSeq(s.queue[src], Len(o) + 1, Len(s.queue[src]))
             queue == [d \in Node |->
                          IF d = src THEN left
                          ELSE IF served(d) /\ ~ShallExecuteTask(s, d)
                               THEN Append(s.queue[d], given(d)) ELSE s.queue[d]]
             executing == [d \in Node |->
                          IF served(d) /\ ShallExecuteTask(s, d)
                          THEN s.executing[d] + 1 ELSE s.executing[d]]
             port == [d \in Node |->
                          IF served(d) /\ ShallExecuteTask(s, d)
                          THEN Append(s.port[d], TaskMessage(given(d))) ELSE s.port[d]]
             flag == s.backPressure[src] /\ Len(left) >= QueueSize
  <1>1. /\ s \in PoolState
        /\ s.queue[src] \in Seq(Task)
        /\ Len(s.queue[src]) \in Nat
    BY DEF NodesOK, PoolState
  <1>2. PICK m \in 0..Len(s.queue[src]) : o \in [1..m -> Receiver(s, src)]
    BY DEF ServiceOrder
  <1>3. /\ o \in Seq(Receiver(s, src))
        /\ Len(o) = m
        /\ DOMAIN o = 1..m
    BY <1>1, <1>2
  <1>4. \A d \in Node : served(d) => given(d) \in Task /\ d \in Receiver(s, src)
    <2> SUFFICES ASSUME NEW d \in Node, served(d)
                 PROVE  given(d) \in Task /\ d \in Receiver(s, src)
      OBVIOUS
    <2> DEFINE i == CHOOSE i \in DOMAIN o : o[i] = d
    <2>1. i \in DOMAIN o /\ o[i] = d
      OBVIOUS
    <2>2. i \in 1..Len(s.queue[src])
      BY <2>1, <1>1, <1>3
    <2> QED BY <2>1, <2>2, <1>1, <1>2, <1>3
  <1>5. /\ left \in Seq(Task)
        /\ Len(left) = Len(s.queue[src]) - m
    BY <1>1, <1>3
  <1>6. queue \in [Node -> Seq(Task)]
    <2> SUFFICES ASSUME NEW d \in Node
                 PROVE  /\ left \in Seq(Task)
                        /\ served(d) => Append(s.queue[d], given(d)) \in Seq(Task)
                        /\ s.queue[d] \in Seq(Task)
      OBVIOUS
    <2> QED BY <1>1, <1>4, <1>5 DEF PoolState
  <1>7. executing \in [Node -> Nat]
    BY <1>1 DEF PoolState
  <1>8. port \in [Node -> Seq(Message)]
    <2> SUFFICES ASSUME NEW d \in Node
                 PROVE  /\ served(d) => Append(s.port[d], TaskMessage(given(d))) \in Seq(Message)
                        /\ s.port[d] \in Seq(Message)
      OBVIOUS
    <2>1. s.port[d] \in Seq(Message)
      BY <1>1 DEF PoolState
    <2>2. served(d) => TaskMessage(given(d)) \in Message
      BY <1>4 DEF TaskMessage, Message
    <2> QED BY <2>1, <2>2
  <1>9. [s.backPressure EXCEPT ![src] = flag] \in [Node -> BOOLEAN]
    BY <1>1 DEF PoolState
  <1>10. /\ r \in PoolState
         /\ r.queue = queue
         /\ r.executing = executing
         /\ r.backPressure = [s.backPressure EXCEPT ![src] = flag]
         /\ r.continuousStealing = s.continuousStealing
    BY <1>1, <1>6, <1>7, <1>8, <1>9 DEF Distribute, PoolState
  <1>11. BusyWhenQueued(r)
    <2> SUFFICES ASSUME NEW d \in Node, r.queue[d] # <<>>
                 PROVE  r.executing[d] >= Concurrency
      BY DEF BusyWhenQueued
    <2>1. s.executing[d] \in Nat /\ s.queue[d] \in Seq(Task) /\ Concurrency \in Nat
      BY <1>1, PoolAssumption DEF PoolState
    <2>2. CASE s.executing[d] >= Concurrency
      BY <2>1, <2>2, <1>10
    <2>3. CASE ~(s.executing[d] >= Concurrency)
      <3>1. s.queue[d] = <<>> /\ ShallExecuteTask(s, d)
        BY <2>1, <2>3 DEF NodesOK, BusyWhenQueued, ShallExecuteTask
      <3>2. d # src => r.queue[d] = s.queue[d]
        BY <3>1, <1>10
      <3>3. d = src => Len(left) = 0 - m /\ Len(left) \in Nat
        BY <3>1, <1>5
      <3>4. d = src => left = <<>>
        BY <3>3, <1>5
      <3> QED BY <3>1, <3>2, <3>4, <1>10
    <2> QED BY <2>2, <2>3
  <1>12. FlaggedWhenFull(r)
    <2> SUFFICES ASSUME NEW d \in Node, Len(r.queue[d]) >= QueueSize
                 PROVE  r.backPressure[d]
      BY DEF FlaggedWhenFull
    <2>1. s.queue[d] \in Seq(Task) /\ Len(s.queue[d]) \in Nat /\ QueueSize \in Nat
      BY <1>1, PoolAssumption DEF PoolState
    <2>2. CASE d = src
      BY <2>1, <2>2, <1>1, <1>2, <1>5, <1>10 DEF NodesOK, FlaggedWhenFull, PoolState
    <2>3. CASE d # src /\ served(d) /\ ~ShallExecuteTask(s, d)
      <3>1. Len(s.queue[d]) < QueueSize - 1
        BY <2>3, <1>4 DEF Receiver
      <3>2. Len(r.queue[d]) = Len(s.queue[d]) + 1
        BY <2>1, <2>3, <1>4, <1>10
      <3> QED BY <2>1, <3>1, <3>2
    <2>4. CASE d # src /\ ~(served(d) /\ ~ShallExecuteTask(s, d))
      BY <2>4, <1>1, <1>10 DEF NodesOK, FlaggedWhenFull, PoolState
    <2> QED BY <2>2, <2>3, <2>4
  <1> QED BY <1>10, <1>11, <1>12 DEF NodesOK

(* Stealing on back pressure, or not. *)
LEMMA BackPressureEventOK ==
    ASSUME NEW s, NodesOK(s), NEW src \in Node, NEW r \in BackPressureEvent(s, src)
    PROVE  NodesOK(r) /\ r.continuousStealing = s.continuousStealing
  <1>1. CASE r = s
    BY <1>1
  <1>2. CASE \E o \in ServiceOrder(s, src) : r = Distribute(s, src, o)
    BY <1>2, DistributeOK
  <1> QED BY <1>1, <1>2 DEF BackPressureEvent

(* A task is queued only where it cannot execute at once. *)
LEMMA EnqueueTaskOK ==
    ASSUME NEW s, NodesOK(s), NEW n \in Node, NEW t \in Task, ~ShallExecuteTask(s, n),
           NEW r \in EnqueueTask(s, n, t)
    PROVE  NodesOK(r) /\ r.continuousStealing = s.continuousStealing
  <1> DEFINE flag == s.backPressure[n] \/ Len(s.queue[n]) + 1 >= QueueSize
             e == [s EXCEPT !.queue[n] = Append(@, t),
                            !.backPressure[n] = @ \/ Len(s.queue[n]) + 1 >= QueueSize]
  <1>1. /\ s \in PoolState
        /\ s.queue[n] \in Seq(Task)
        /\ s.executing[n] \in Nat
        /\ Append(s.queue[n], t) \in Seq(Task)
        /\ Len(Append(s.queue[n], t)) = Len(s.queue[n]) + 1
    BY DEF NodesOK, PoolState
  <1>2. /\ [s.queue EXCEPT ![n] = Append(@, t)] \in [Node -> Seq(Task)]
        /\ [s.backPressure EXCEPT ![n] = flag] \in [Node -> BOOLEAN]
    BY <1>1 DEF PoolState
  <1>3. /\ e \in PoolState
        /\ e.queue = [s.queue EXCEPT ![n] = Append(@, t)]
        /\ e.backPressure = [s.backPressure EXCEPT ![n] = flag]
        /\ e.executing = s.executing
        /\ e.continuousStealing = s.continuousStealing
    BY <1>1, <1>2 DEF PoolState
  <1>4. s.executing[n] >= Concurrency
    BY <1>1, PoolAssumption DEF NodesOK, BusyWhenQueued, ShallExecuteTask
  <1>5. BusyWhenQueued(e)
    BY <1>1, <1>3, <1>4 DEF NodesOK, BusyWhenQueued, PoolState
  <1>6. FlaggedWhenFull(e)
    BY <1>1, <1>3 DEF NodesOK, FlaggedWhenFull, PoolState
  <1>7. NodesOK(e)
    BY <1>3, <1>5, <1>6 DEF NodesOK
  <1>8. r = e \/ r \in BackPressureEvent(e, n)
    BY DEF EnqueueTask
  <1> HIDE DEF e
  <1> QED BY <1>3, <1>7, <1>8, BackPressureEventOK

(* A task is executed or queued. *)
LEMMA HandleTaskOK ==
    ASSUME NEW s, NodesOK(s), NEW n \in Node, NEW t \in Task, NEW r \in HandleTask(s, n, t)
    PROVE  NodesOK(r) /\ r.continuousStealing = s.continuousStealing
  <1>1. CASE ShallExecuteTask(s, n)
    BY <1>1, ExecuteTaskOK DEF HandleTask
  <1>2. CASE ~ShallExecuteTask(s, n)
    BY <1>2, EnqueueTaskOK DEF HandleTask
  <1> QED BY <1>1, <1>2

(* A node steals a task or finds none. *)
LEMMA WorkerNodeStealTaskOK ==
    ASSUME NEW s, NodesOK(s), NEW n \in Node, NEW r \in WorkerNodeStealTask(s, n)
    PROVE  NodesOK(r) /\ r.continuousStealing = s.continuousStealing
  <1>1. CASE r = s
    BY <1>1
  <1>2. CASE \E src \in StealSource(s, n) : r \in StealTask(s, src, n)
    <2>1. PICK src \in StealSource(s, n) :
               r \in HandleTask(DequeueTask(s, src), n, Head(s.queue[src]))
      BY <1>2 DEF StealTask
    <2>2. src \in Node /\ s.queue[src] # <<>>
      BY DEF StealSource
    <2>3. /\ NodesOK(DequeueTask(s, src))
          /\ Head(s.queue[src]) \in Task
          /\ DequeueTask(s, src).continuousStealing = s.continuousStealing
      BY <2>2, DequeueTaskOK DEF NodesOK
    <2> QED BY <2>1, <2>3, HandleTaskOK
  <1> QED BY <1>1, <1>2 DEF WorkerNodeStealTask

(* The node that becomes idle gets a task of its own queue first: what the  *)
(* counter loses with a task that ends it regains with the next one.        *)
LEMMA UnexecuteOK ==
    ASSUME NEW s, NodesOK(s), NEW k \in Node
    PROVE  /\ Unexecute(s, k) \in PoolState
           /\ FlaggedWhenFull(Unexecute(s, k))
           /\ Unexecute(s, k).queue = s.queue
           /\ Unexecute(s, k).continuousStealing = s.continuousStealing
           /\ Unexecute(s, k).executing =
                 [s.executing EXCEPT ![k] = IF @ > 0 THEN @ - 1 ELSE @]
  <1> DEFINE r == Unexecute(s, k)
  <1>1. s \in PoolState
    BY DEF NodesOK
  <1>2. [s.executing EXCEPT ![k] = IF @ > 0 THEN @ - 1 ELSE @] \in [Node -> Nat]
    BY <1>1 DEF PoolState
  <1>3. /\ r \in PoolState
        /\ r.queue = s.queue
        /\ r.backPressure = s.backPressure
        /\ r.continuousStealing = s.continuousStealing
        /\ r.executing = [s.executing EXCEPT ![k] = IF @ > 0 THEN @ - 1 ELSE @]
    BY <1>1, <1>2 DEF Unexecute, PoolState
  <1> QED BY <1>3 DEF NodesOK, FlaggedWhenFull

LEMMA NextQueuedTaskOK ==
    ASSUME NEW s, NodesOK(s), NEW k \in Node,
           NEW u, u = Unexecute(s, k),
           NEW d, d = IF ~IsBusy(u, k) /\ u.queue[k] # <<>>
                      THEN ExecuteTask(DequeueTask(u, k), k, Head(u.queue[k]))
                      ELSE u
    PROVE  NodesOK(d) /\ d.continuousStealing = s.continuousStealing
  <1>1. /\ u \in PoolState
        /\ FlaggedWhenFull(u)
        /\ u.queue = s.queue
        /\ u.continuousStealing = s.continuousStealing
        /\ u.executing = [s.executing EXCEPT ![k] = IF @ > 0 THEN @ - 1 ELSE @]
    BY UnexecuteOK
  <1>2. /\ s \in PoolState
        /\ s.executing \in [Node -> Nat]
        /\ Concurrency \in Nat \ {0}
    BY PoolAssumption DEF NodesOK, PoolState
  <1>3. \A n \in Node : n # k /\ s.queue[n] # <<>> => u.executing[n] >= Concurrency
    BY <1>1, <1>2 DEF NodesOK, BusyWhenQueued
  <1>4. CASE IsBusy(u, k) \/ u.queue[k] = <<>>
    <2>1. d = u
      BY <1>4
    <2>2. BusyWhenQueued(u)
      BY <1>1, <1>3, <1>4 DEF BusyWhenQueued, IsBusy
    <2> QED BY <1>1, <2>1, <2>2 DEF NodesOK
  <1>5. CASE ~IsBusy(u, k) /\ u.queue[k] # <<>>
    <2> DEFINE q == DequeueTask(u, k)
    <2>1. /\ q \in PoolState
          /\ FlaggedWhenFull(q)
          /\ Head(u.queue[k]) \in Task
          /\ q.executing = u.executing
          /\ q.queue = [u.queue EXCEPT ![k] = Tail(@)]
          /\ q.continuousStealing = u.continuousStealing
      BY <1>1, <1>5, DequeueTaskOK
    <2>2. d = ExecuteTask(q, k, Head(u.queue[k]))
      BY <1>5
    <2>3. u.executing[k] + 1 >= Concurrency
      BY <1>1, <1>2, <1>5 DEF NodesOK, BusyWhenQueued
    <2> HIDE DEF q
    <2>4. /\ d \in PoolState
          /\ FlaggedWhenFull(d)
          /\ d.queue = q.queue
          /\ d.executing = [q.executing EXCEPT ![k] = @ + 1]
          /\ d.continuousStealing = q.continuousStealing
      BY <2>1, <2>2, ExecuteTaskEffect
    <2>5. BusyWhenQueued(d)
      <3> SUFFICES ASSUME NEW n \in Node, d.queue[n] # <<>>
                   PROVE  d.executing[n] >= Concurrency
        BY DEF BusyWhenQueued
      <3>1. CASE n = k
        BY <3>1, <2>1, <2>3, <2>4 DEF PoolState
      <3>2. CASE n # k
        BY <3>2, <1>1, <1>2, <1>3, <2>1, <2>4 DEF PoolState
      <3> QED BY <3>1, <3>2
    <2> QED BY <1>1, <2>1, <2>4, <2>5 DEF NodesOK
  <1> QED BY <1>4, <1>5

-----------------------------------------------------------------------------
(* The inductive invariant.  QueuedOnlyIfBusy and BackPressureFlagged hold  *)
(* of the nodes because every operation on them keeps NodesOK.  A promise   *)
(* is pending exactly as long as promiseResponseMap has an entry for it,    *)
(* which is what makes a second settlement impossible.                      *)
EntryIffPending ==
    \A t \in Task : promiseResponseMap[t] # NoKey <=> promise[t] = "pending"

IInv == TypeOK /\ NodesOK(pool) /\ EntryIffPending /\ StealingLoopArmed

LEMMA InitIInv == Init => IInv
  <1> SUFFICES ASSUME Init PROVE IInv
    OBVIOUS
  <1>1. pool \in PoolState
    BY DEF Init, PoolState
  <1>2. TypeOK
    BY <1>1 DEF Init, TypeOK
  <1>3. NodesOK(pool)
    BY <1>1, PoolAssumption DEF Init, NodesOK, BusyWhenQueued, FlaggedWhenFull
  <1>4. EntryIffPending /\ StealingLoopArmed
    BY DEF Init, EntryIffPending, StealingLoopArmed, NoKey
  <1> QED BY <1>2, <1>3, <1>4 DEF IInv

(* The stealing loop of a node, woken up by its sleep or by a response: it  *)
(* leaves the flag lowered or a sleep armed.                                *)
LEMMA IdleEventOK ==
    ASSUME NEW s, NodesOK(s), NEW n \in Node, NEW armed \in Nat,
           timers \in [Node -> Nat],
           \A m \in Node \ {n} : s.continuousStealing[m] => timers[m] > 0,
           IdleEvent(s, n, armed)
    PROVE  /\ NodesOK(pool')
           /\ timers' \in [Node -> Nat]
           /\ StealingLoopArmed'
  <1>0. s \in PoolState /\ s.continuousStealing \in [Node -> BOOLEAN]
    BY DEF NodesOK, PoolState
  <1>1. CASE ~s.continuousStealing[n] /\ (CannotStealTask(s) \/ IsStealingRatioReached(s))
    <2>1. pool' = s /\ timers' = [timers EXCEPT ![n] = armed]
      BY <1>1 DEF IdleEvent
    <2> QED BY <1>0, <1>1, <2>1 DEF StealingLoopArmed
  <1>2. CASE s.continuousStealing[n] /\ ~IsIdle(s, n)
    <2>1. /\ pool' = [s EXCEPT !.continuousStealing[n] = FALSE]
          /\ timers' = [timers EXCEPT ![n] = armed]
      BY <1>2 DEF IdleEvent
    <2>2. [s.continuousStealing EXCEPT ![n] = FALSE] \in [Node -> BOOLEAN]
      BY <1>0
    <2>3. /\ pool' \in PoolState
          /\ pool'.queue = s.queue
          /\ pool'.executing = s.executing
          /\ pool'.backPressure = s.backPressure
          /\ pool'.continuousStealing = [s.continuousStealing EXCEPT ![n] = FALSE]
      BY <1>0, <2>1, <2>2 DEF PoolState
    <2>4. NodesOK(pool')
      BY <2>3 DEF NodesOK, BusyWhenQueued, FlaggedWhenFull
    <2>5. StealingLoopArmed'
      BY <1>0, <2>1, <2>3 DEF StealingLoopArmed
    <2> QED BY <2>1, <2>4, <2>5
  <1>3. CASE /\ ~(~s.continuousStealing[n] /\ (CannotStealTask(s) \/ IsStealingRatioReached(s)))
             /\ ~(s.continuousStealing[n] /\ ~IsIdle(s, n))
    <2> DEFINE c == [s EXCEPT !.continuousStealing[n] = TRUE]
    <2>1. /\ pool' \in WorkerNodeStealTask(c, n)
          /\ timers' = [timers EXCEPT ![n] = armed + 1]
      BY <1>3 DEF IdleEvent
    <2>2. [s.continuousStealing EXCEPT ![n] = TRUE] \in [Node -> BOOLEAN]
      BY <1>0
    <2>3. /\ c \in PoolState
          /\ c.queue = s.queue
          /\ c.executing = s.executing
          /\ c.backPressure = s.backPressure
          /\ c.continuousStealing = [s.continuousStealing EXCEPT ![n] = TRUE]
      BY <1>0, <2>2 DEF PoolState
    <2>4. NodesOK(c)
      BY <2>3 DEF NodesOK, BusyWhenQueued, FlaggedWhenFull
    <2> HIDE DEF c
    <2>5. NodesOK(pool') /\ pool'.continuousStealing = c.continuousStealing
      BY <2>1, <2>4, WorkerNodeStealTaskOK
    <2>6. StealingLoopArmed'
      BY <1>0, <2>1, <2>3, <2>5 DEF StealingLoopArmed
    <2> QED BY <2>1, <2>5, <2>6
  <1> QED BY <1>1, <1>2, <1>3

LEMMA RespondType ==
    ASSUME TypeOK, NEW n \in Node, NEW t \in Task, NEW status \in Status,
           Respond(n, t, status)
    PROVE  /\ running' \in [Node -> SUBSET Task]
           /\ fromWorker' \in [Node -> Seq([task : Task, status : Status])]
  <1>1. [task |-> t, status |-> status] \in [task : Task, status : Status]
    OBVIOUS
  <1>2. fromWorker[n] \in Seq([task : Task, status : Status])
    BY DEF TypeOK
  <1>3. Append(fromWorker[n], [task |-> t, status |-> status])
            \in Seq([task : Task, status : Status])
    BY <1>1, <1>2
  <1> QED BY <1>3 DEF Respond, TypeOK

LEMMA NextIInv == IInv /\ [Next]_vars => IInv'
  <1> SUFFICES ASSUME IInv, [Next]_vars PROVE IInv'
    OBVIOUS
  <1> USE DEF IInv
  <1>0. /\ pool \in PoolState
        /\ pool.port \in [Node -> Seq(Message)]
        /\ pool.queue \in [Node -> Seq(Task)]
        /\ NoKey \notin Node
    BY DEF NodesOK, PoolState, Node, NoKey
  <1>1. ASSUME NEW t \in Task, NEW n \in Node, Submit(t, n) PROVE IInv'
    <2>1. NodesOK(pool') /\ pool'.continuousStealing = pool.continuousStealing
      BY <1>1, HandleTaskOK DEF Submit
    <2>2. TypeOK'
      BY <1>1, <2>1 DEF Submit, TypeOK, NodesOK
    <2>3. EntryIffPending'
      BY <1>0, <1>1 DEF Submit, TypeOK, EntryIffPending
    <2>4. StealingLoopArmed'
      BY <1>1, <2>1 DEF Submit, StealingLoopArmed
    <2> QED BY <2>1, <2>2, <2>3, <2>4
  <1>2. ASSUME NEW t \in Task, AbortTask(t) PROVE IInv'
    <2> DEFINE n == promiseResponseMap[t]
    <2>0. n \in Node
      BY <1>2 DEF AbortTask, TypeOK
    <2>1. CASE AbortQueuedTask(t, n)
      <3>1. PICK i \in DOMAIN pool.queue[n] :
              pool' = [pool EXCEPT !.queue[n] =
                          SubSeq(@, 1, i - 1) \o SubSeq(@, i + 1, Len(@))]
        BY <2>1 DEF AbortQueuedTask
      <3> DEFINE q == pool.queue[n]
                 rest == SubSeq(q, 1, i - 1) \o SubSeq(q, i + 1, Len(q))
      <3>2. /\ q \in Seq(Task)
            /\ i \in 1..Len(q)
            /\ q # <<>>
            /\ rest \in Seq(Task)
            /\ Len(rest) = Len(q) - 1
        BY <1>0, <2>0, DeleteAt
      <3>3. /\ pool' \in PoolState
            /\ pool'.queue = [pool.queue EXCEPT ![n] = rest]
            /\ pool'.executing = pool.executing
            /\ pool'.backPressure = pool.backPressure
            /\ pool'.continuousStealing = pool.continuousStealing
        <4>1. [pool.queue EXCEPT ![n] = rest] \in [Node -> Seq(Task)]
          BY <1>0, <3>2
        <4> QED BY <1>0, <3>1, <4>1 DEF PoolState
      <3>4. NodesOK(pool')
        <4>1. BusyWhenQueued(pool')
          BY <1>0, <2>0, <3>2, <3>3 DEF NodesOK, BusyWhenQueued
        <4>2. FlaggedWhenFull(pool')
          BY <1>0, <2>0, <3>2, <3>3, PoolAssumption DEF NodesOK, FlaggedWhenFull
        <4> QED BY <3>3, <4>1, <4>2 DEF NodesOK
      <3>5. TypeOK'
        BY <1>2, <2>1, <3>3 DEF AbortTask, AbortQueuedTask, TypeOK, Settled
      <3>6. EntryIffPending'
        BY <1>2, <2>1 DEF AbortTask, AbortQueuedTask, TypeOK, EntryIffPending
      <3>7. StealingLoopArmed'
        BY <1>2, <3>3 DEF AbortTask, StealingLoopArmed
      <3> QED BY <3>4, <3>5, <3>6, <3>7
    <2>2. CASE /\ pool' = [pool EXCEPT !.port[n] = Append(@, AbortMessage(t))]
               /\ UNCHANGED <<promiseResponseMap, promise>>
      <3>1. AbortMessage(t) \in Message
        BY DEF AbortMessage, Message
      <3>2. [pool.port EXCEPT ![n] = Append(@, AbortMessage(t))] \in [Node -> Seq(Message)]
        BY <1>0, <2>0, <3>1
      <3>3. /\ pool' \in PoolState
            /\ pool'.queue = pool.queue
            /\ pool'.executing = pool.executing
            /\ pool'.backPressure = pool.backPressure
            /\ pool'.continuousStealing = pool.continuousStealing
        BY <1>0, <2>2, <3>2 DEF PoolState
      <3>4. NodesOK(pool')
        BY <3>3 DEF NodesOK, BusyWhenQueued, FlaggedWhenFull
      <3>5. TypeOK'
        BY <1>2, <2>2, <3>3 DEF AbortTask, TypeOK
      <3>6. EntryIffPending'
        BY <2>2 DEF EntryIffPending
      <3>7. StealingLoopArmed'
        BY <1>2, <3>3 DEF AbortTask, StealingLoopArmed
      <3> QED BY <3>4, <3>5, <3>6, <3>7
    <2> QED BY <1>2, <2>1, <2>2 DEF AbortTask
  <1>3. ASSUME NEW n \in Node, WorkerMessage(n) PROVE IInv'
    <2> DEFINE m == Head(pool.port[n])
    <2>1. /\ Tail(pool.port[n]) \in Seq(Message)
          /\ m \in Message
          /\ m.task \in Task
      BY <1>0, <1>3, HeadTail DEF WorkerMessage, Message
    <2>2. [pool.port EXCEPT ![n] = Tail(@)] \in [Node -> Seq(Message)]
      BY <1>0, <2>1
    <2>3. /\ pool' \in PoolState
          /\ pool'.queue = pool.queue
          /\ pool'.executing = pool.executing
          /\ pool'.backPressure = pool.backPressure
          /\ pool'.continuousStealing = pool.continuousStealing
      BY <1>0, <1>3, <2>2 DEF WorkerMessage, PoolState
    <2>4. NodesOK(pool')
      BY <2>3 DEF NodesOK, BusyWhenQueued, FlaggedWhenFull
    <2>5. /\ running' \in [Node -> SUBSET Task]
          /\ fromWorker' \in [Node -> Seq([task : Task, status : Status])]
      BY <1>3, <2>1, RespondType DEF WorkerMessage, Run, TypeOK, Status
    <2>6. TypeOK'
      BY <1>3, <2>3, <2>5 DEF WorkerMessage, TypeOK
    <2>7. EntryIffPending' /\ StealingLoopArmed'
      BY <1>3, <2>3 DEF WorkerMessage, EntryIffPending, StealingLoopArmed
    <2> QED BY <2>4, <2>6, <2>7
  <1>4. ASSUME NEW n \in Node, NEW t \in Task, WorkerFinish(n, t) PROVE IInv'
    <2>1. /\ running' \in [Node -> SUBSET Task]
          /\ fromWorker' \in [Node -> Seq([task : Task, status : Status])]
      BY <1>4, RespondType DEF WorkerFinish, TypeOK, Status
    <2>2. TypeOK'
      BY <1>4, <2>1 DEF WorkerFinish, TypeOK
    <2> QED BY <1>4, <2>2 DEF WorkerFinish, EntryIffPending, StealingLoopArmed
  <1>5. ASSUME NEW n \in Node, TaskExecutionResponse(n) PROVE IInv'
    <2> DEFINE m == Head(fromWorker[n])
               k == promiseResponseMap[m.task]
    <2>1. /\ m.task \in Task
          /\ Tail(fromWorker[n]) \in Seq([task : Task, status : Status])
      <3>1. /\ fromWorker[n] \in Seq([task : Task, status : Status])
            /\ fromWorker[n] # <<>>
        BY <1>5 DEF TaskExecutionResponse, TypeOK
      <3>2. m \in [task : Task, status : Status]
        BY <3>1, HeadTail
      <3> QED BY <3>1, <3>2, HeadTail
    <2>2. fromWorker' \in [Node -> Seq([task : Task, status : Status])]
      BY <1>5, <2>1 DEF TaskExecutionResponse, TypeOK
    <2>3. CASE k = NoKey
      <3>1. UNCHANGED <<pool, timers, promiseResponseMap, promise, aborted, running>>
        BY <1>5, <2>3 DEF TaskExecutionResponse
      <3> QED BY <2>2, <3>1 DEF TypeOK, EntryIffPending, StealingLoopArmed
    <2>4. CASE k # NoKey
      <3>1. k \in Node
        BY <2>1, <2>4 DEF TypeOK
      <3>2. /\ promise' = [promise EXCEPT ![m.task] =
                               IF m.status = "ok" THEN "resolved" ELSE "rejected"]
            /\ promiseResponseMap' = [promiseResponseMap EXCEPT ![m.task] = NoKey]
            /\ AfterTaskExecution(k)
            /\ UNCHANGED <<aborted, running>>
        BY <1>5, <2>4 DEF TaskExecutionResponse
      <3> DEFINE u == Unexecute(pool, k)
                 d == IF ~IsBusy(u, k) /\ u.queue[k] # <<>>
                      THEN ExecuteTask(DequeueTask(u, k), k, Head(u.queue[k]))
                      ELSE u
      <3>3. NodesOK(d) /\ d.continuousStealing = pool.continuousStealing
        BY <3>1, NextQueuedTaskOK
      <3>4. \/ IdleEvent(d, k, timers[k])
            \/ pool' = d /\ UNCHANGED timers
        BY <3>2 DEF AfterTaskExecution
      <3> HIDE DEF d
      <3>5. /\ NodesOK(pool')
            /\ timers' \in [Node -> Nat]
            /\ StealingLoopArmed'
        <4>1. CASE IdleEvent(d, k, timers[k])
          <5>1. \A x \in Node \ {k} : d.continuousStealing[x] => timers[x] > 0
            BY <3>3 DEF StealingLoopArmed
          <5>2. timers \in [Node -> Nat] /\ timers[k] \in Nat
            BY <3>1 DEF TypeOK
          <5> QED BY <3>1, <3>3, <4>1, <5>1, <5>2, IdleEventOK
        <4>2. CASE pool' = d /\ UNCHANGED timers
          BY <3>3, <4>2 DEF StealingLoopArmed, TypeOK
        <4> QED BY <3>4, <4>1, <4>2
      <3>6. TypeOK'
        BY <2>1, <2>2, <3>2, <3>5 DEF TypeOK, NodesOK, Settled
      <3>7. EntryIffPending'
        BY <2>1, <3>2 DEF TypeOK, EntryIffPending
      <3> QED BY <3>5, <3>6, <3>7
    <2> QED BY <2>3, <2>4
  <1>6. ASSUME NEW n \in Node, StealingLoop(n) PROVE IInv'
    <2>1. /\ timers \in [Node -> Nat]
          /\ timers[n] - 1 \in Nat
          /\ IdleEvent(pool, n, timers[n] - 1)
          /\ \A m \in Node \ {n} : pool.continuousStealing[m] => timers[m] > 0
      BY <1>6 DEF StealingLoop, TypeOK, StealingLoopArmed
    <2>2. /\ NodesOK(pool')
          /\ timers' \in [Node -> Nat]
          /\ StealingLoopArmed'
      BY <2>1, IdleEventOK
    <2> QED BY <1>6, <2>2 DEF StealingLoop, TypeOK, EntryIffPending, NodesOK
  <1>7. CASE UNCHANGED vars
    BY <1>7 DEF vars, TypeOK, EntryIffPending, StealingLoopArmed
  <1> QED BY <1>1, <1>2, <1>3, <1>4, <1>5, <1>6, <1>7 DEF Next

THEOREM Invariance == Spec => []IInv
  BY InitIInv, NextIInv, PTL DEF Spec

(* The state is well typed: in particular no counter of executing tasks     *)
(* becomes negative, whichever node a response is accounted for on.         *)
THEOREM TypeCorrect == Spec => []TypeOK
  BY Invariance, PTL DEF IInv

(* No queued task waits beside a free execution slot of its node, for any   *)
(* concurrency, with and without stealing.                                  *)
THEOREM WorkConserving == Spec => []QueuedOnlyIfBusy
  <1>1. IInv => QueuedOnlyIfBusy
    BY DEF IInv, NodesOK, BusyWhenQueued, QueuedOnlyIfBusy
  <1> QED BY <1>1, Invariance, PTL

(* No full queue goes unflagged.                                            *)
THEOREM BackPressureNoticed == Spec => []BackPressureFlagged
  <1>1. IInv => BackPressureFlagged
    BY DEF IInv, NodesOK, FlaggedWhenFull, BackPressureFlagged
  <1> QED BY <1>1, Invariance, PTL

(* No node keeps its stealing flag without a loop that can lower it.        *)
THEOREM StealingFlagHasLoop == Spec => []StealingLoopArmed
  BY Invariance, PTL DEF IInv

(* No promise settles twice.                                                *)
THEOREM SettlesOnce == Spec => SettleOnce
  <1>1. IInv /\ [Next]_vars =>
            [\A t \in Task : promise[t] \in Settled => promise'[t] = promise[t]]_vars
    <2> SUFFICES ASSUME IInv, Next, NEW t \in Task, promise[t] \in Settled
                 PROVE  promise'[t] = promise[t]
      OBVIOUS
    <2>0. /\ promise \in [Task -> {"none", "pending"} \union Settled]
          /\ promise[t] # "none" /\ promise[t] # "pending"
          /\ promiseResponseMap[t] = NoKey
      BY DEF IInv, TypeOK, EntryIffPending, Settled
    <2>1. ASSUME NEW u \in Task, NEW n \in Node, Submit(u, n) PROVE promise'[t] = promise[t]
      BY <2>0, <2>1 DEF Submit
    <2>2. ASSUME NEW u \in Task, AbortTask(u) PROVE promise'[t] = promise[t]
      <3>1. u # t
        BY <2>0, <2>2 DEF AbortTask
      <3> QED BY <2>0, <2>2, <3>1 DEF AbortTask, AbortQueuedTask
    <2>3. ASSUME NEW n \in Node, TaskExecutionResponse(n) PROVE promise'[t] = promise[t]
      BY <2>0, <2>3 DEF TaskExecutionResponse
    <2> QED BY <2>1, <2>2, <2>3 DEF Next, WorkerMessage, WorkerFinish, StealingLoop
  <1> QED BY <1>1, Invariance, PTL DEF Spec, SettleOnce

-----------------------------------------------------------------------------
(* Where the tasks are.  A place is an element of one of three families of  *)
(* sequences, the queues and ports of the nodes and the ports of the        *)
(* workers, or membership in the tasks a worker runs.  Indices shift when a *)
(* sequence loses its head, so the proofs count occurrences instead: none,  *)
(* or exactly one.                                                          *)

(* No element of q is in E; exactly one is. *)
Absent(q, E) == \A i \in DOMAIN q : q[i] \notin E

Once(q, E) == \E i \in DOMAIN q : q[i] \in E /\ \A j \in DOMAIN q \ {i} : q[j] \notin E

(* The same of a family of sequences, one per node *)
NowhereIn(f, E) == \A n \in Node : Absent(f[n], E)

OnceIn(f, E) == \E n \in Node : Once(f[n], E) /\ \A m \in Node \ {n} : Absent(f[m], E)

(* g is the family f with x appended to the sequence of n, without the head *)
(* x of that sequence, or without its i-th element x.                       *)
Appended(S, f, g, n, x) ==
    /\ f \in [Node -> Seq(S)] /\ n \in Node /\ x \in S
    /\ g = [f EXCEPT ![n] = Append(@, x)]

HeadTaken(S, f, g, n, x) ==
    /\ f \in [Node -> Seq(S)] /\ n \in Node /\ f[n] # <<>> /\ x = Head(f[n])
    /\ g = [f EXCEPT ![n] = Tail(@)]

Deleted(S, f, g, n, i, x) ==
    /\ f \in [Node -> Seq(S)] /\ n \in Node /\ i \in DOMAIN f[n] /\ x = f[n][i]
    /\ g = [f EXCEPT ![n] = SubSeq(@, 1, i - 1) \o SubSeq(@, i + 1, Len(@))]

-----------------------------------------------------------------------------
(* Lemmas about occurrences in sequences *)

LEMMA AppendOccurrences ==
    ASSUME NEW S, NEW q \in Seq(S), NEW x \in S, NEW E
    PROVE  /\ x \notin E /\ Absent(q, E) => Absent(Append(q, x), E)
           /\ x \notin E /\ Once(q, E) => Once(Append(q, x), E)
           /\ x \in E /\ Absent(q, E) => Once(Append(q, x), E)
  <1> DEFINE a == Append(q, x)
  <1>1. /\ DOMAIN q = 1..Len(q)
        /\ DOMAIN a = 1..(Len(q) + 1)
        /\ Len(q) \in Nat
        /\ \A i \in 1..Len(q) : a[i] = q[i]
        /\ a[Len(q) + 1] = x
    OBVIOUS
  <1> HIDE DEF a
  <1>2. x \notin E /\ Absent(q, E) => Absent(a, E)
    BY <1>1 DEF Absent
  <1>3. ASSUME x \notin E, Once(q, E) PROVE Once(a, E)
    <2>1. PICK i \in DOMAIN q : q[i] \in E /\ \A j \in DOMAIN q \ {i} : q[j] \notin E
      BY <1>3 DEF Once
    <2>2. i \in DOMAIN a /\ a[i] \in E /\ \A j \in DOMAIN a \ {i} : a[j] \notin E
      BY <1>1, <1>3, <2>1
    <2> QED BY <2>2 DEF Once
  <1>4. ASSUME x \in E, Absent(q, E) PROVE Once(a, E)
    <2>1. /\ Len(q) + 1 \in DOMAIN a
          /\ a[Len(q) + 1] \in E
          /\ \A j \in DOMAIN a \ {Len(q) + 1} : a[j] \notin E
      BY <1>1, <1>4 DEF Absent
    <2> QED BY <2>1 DEF Once
  <1> QED BY <1>2, <1>3, <1>4 DEF a

LEMMA TailOccurrences ==
    ASSUME NEW S, NEW q \in Seq(S), q # <<>>, NEW E
    PROVE  /\ Absent(q, E) => Absent(Tail(q), E)
           /\ Head(q) \notin E /\ Once(q, E) => Once(Tail(q), E)
           /\ Head(q) \in E /\ Once(q, E) => Absent(Tail(q), E)
           /\ Head(q) \in E => ~Absent(q, E)
  <1> DEFINE r == Tail(q)
  <1>1. /\ DOMAIN q = 1..Len(q)
        /\ Len(q) \in Nat \ {0}
        /\ DOMAIN r = 1..(Len(q) - 1)
        /\ \A i \in 1..(Len(q) - 1) : r[i] = q[i + 1]
        /\ Head(q) = q[1]
    OBVIOUS
  <1> HIDE DEF r
  <1>2. Absent(q, E) => Absent(r, E)
    BY <1>1 DEF Absent
  <1>3. ASSUME Once(q, E)
        PROVE  /\ q[1] \notin E => Once(r, E)
               /\ q[1] \in E => Absent(r, E)
    <2>1. PICK i \in DOMAIN q : q[i] \in E /\ \A j \in DOMAIN q \ {i} : q[j] \notin E
      BY <1>3 DEF Once
    <2>2. CASE i = 1
      <3>1. \A j \in DOMAIN r : j + 1 \in DOMAIN q \ {1}
        BY <1>1
      <3> QED BY <1>1, <2>1, <2>2, <3>1 DEF Absent
    <2>3. CASE i # 1
      <3>1. i - 1 \in DOMAIN r /\ r[i - 1] \in E
        BY <1>1, <2>1, <2>3
      <3>2. \A j \in DOMAIN r \ {i - 1} : j + 1 \in DOMAIN q \ {i} /\ r[j] \notin E
        BY <1>1, <2>1, <2>3
      <3>3. q[1] \notin E
        BY <1>1, <2>1, <2>3
      <3> QED BY <3>1, <3>2, <3>3 DEF Once
    <2> QED BY <2>2, <2>3
  <1> QED BY <1>1, <1>2, <1>3 DEF Absent, r

LEMMA WithoutOccurrences ==
    ASSUME NEW l \in Nat, NEW i \in 1..l, NEW E,
           NEW q, DOMAIN q = 1..l,
           NEW r, DOMAIN r = 1..(l - 1),
           \A j \in 1..(l - 1) : r[j] = IF j < i THEN q[j] ELSE q[j + 1]
    PROVE  /\ Absent(q, E) => Absent(r, E)
           /\ q[i] \notin E /\ Once(q, E) => Once(r, E)
           /\ q[i] \in E /\ Once(q, E) => Absent(r, E)
  <1>1. Absent(q, E) => Absent(r, E)
    BY DEF Absent
  <1>2. ASSUME Once(q, E)
        PROVE  /\ q[i] \notin E => Once(r, E)
               /\ q[i] \in E => Absent(r, E)
    <2>1. PICK k \in DOMAIN q : q[k] \in E /\ \A j \in DOMAIN q \ {k} : q[j] \notin E
      BY <1>2 DEF Once
    <2>2. CASE k = i
      BY <2>1, <2>2 DEF Absent
    <2>3. CASE k < i
      <3>1. k \in DOMAIN r /\ r[k] \in E /\ \A j \in DOMAIN r \ {k} : r[j] \notin E
        BY <2>1, <2>3
      <3>2. q[i] \notin E
        BY <2>1, <2>3
      <3> QED BY <3>1, <3>2 DEF Once
    <2>4. CASE k > i
      <3>1. k - 1 \in DOMAIN r /\ r[k - 1] \in E
        BY <2>1, <2>4
      <3>2. ASSUME NEW j \in DOMAIN r \ {k - 1} PROVE r[j] \notin E
        BY <2>1, <2>4, j < i \/ j + 1 \in DOMAIN q \ {k}
      <3>3. q[i] \notin E
        BY <2>1, <2>4
      <3> QED BY <3>1, <3>2, <3>3 DEF Once
    <2> QED BY <2>1, <2>2, <2>3, <2>4
  <1> QED BY <1>1, <1>2

(* A sequence without its i-th element *)
LEMMA DeleteOccurrences ==
    ASSUME NEW S, NEW q \in Seq(S), NEW i \in DOMAIN q, NEW E
    PROVE  LET r == SubSeq(q, 1, i - 1) \o SubSeq(q, i + 1, Len(q))
           IN  /\ Absent(q, E) => Absent(r, E)
               /\ q[i] \notin E /\ Once(q, E) => Once(r, E)
               /\ q[i] \in E /\ Once(q, E) => Absent(r, E)
  <1> DEFINE left == SubSeq(q, 1, i - 1)
             right == SubSeq(q, i + 1, Len(q))
             r == left \o right
  <1>1. i \in 1..Len(q) /\ Len(q) \in Nat /\ DOMAIN q = 1..Len(q)
    OBVIOUS
  <1>2. /\ left \in Seq(S) /\ Len(left) = i - 1
        /\ \A j \in 1..(i - 1) : left[j] = q[j]
    BY <1>1
  <1>3. right \in Seq(S) /\ Len(right) = Len(q) - i
    BY <1>1
  <1>4. \A j \in 1..(Len(q) - i) : right[j] = q[j + i]
    BY <1>1
  <1> HIDE DEF left, right
  <1>5. Len(left) + Len(right) = Len(q) - 1
    BY <1>1, <1>2, <1>3
  <1>6. /\ r \in Seq(S)
        /\ Len(r) = Len(q) - 1
        /\ \A j \in 1..(Len(q) - 1) : r[j] = IF j <= i - 1 THEN left[j] ELSE right[j - (i - 1)]
    <2>1. /\ left \o right \in Seq(S)
          /\ Len(left \o right) = Len(left) + Len(right)
          /\ \A j \in 1..(Len(left) + Len(right)) :
                 (left \o right)[j] = IF j <= Len(left) THEN left[j] ELSE right[j - Len(left)]
      BY <1>2, <1>3, ConcatProperties
    <2> QED BY <1>2, <1>5, <2>1
  <1> HIDE DEF r
  <1>7. DOMAIN r = 1..(Len(q) - 1)
    BY <1>6
  <1>8. \A j \in 1..(Len(q) - 1) : r[j] = IF j < i THEN q[j] ELSE q[j + 1]
    <2> SUFFICES ASSUME NEW j \in 1..(Len(q) - 1)
                 PROVE  r[j] = IF j < i THEN q[j] ELSE q[j + 1]
      OBVIOUS
    <2>1. CASE j < i
      BY <1>1, <1>2, <1>6, <2>1
    <2>2. CASE ~(j < i)
      <3>1. /\ j - (i - 1) \in 1..(Len(q) - i)
            /\ (j - (i - 1)) + i = j + 1
            /\ ~(j <= i - 1)
        BY <1>1, <2>2
      <3> QED BY <1>4, <1>6, <2>2, <3>1
    <2> QED BY <2>1, <2>2
  <1>9. /\ Absent(q, E) => Absent(r, E)
        /\ q[i] \notin E /\ Once(q, E) => Once(r, E)
        /\ q[i] \in E /\ Once(q, E) => Absent(r, E)
    BY <1>1, <1>7, <1>8, WithoutOccurrences
  <1> QED BY <1>9 DEF r, left, right

(* What is left of a sequence after its first k elements *)
LEMMA SuffixOccurrences ==
    ASSUME NEW S, NEW q \in Seq(S), NEW k \in 0..Len(q), NEW E
    PROVE  /\ Absent(q, E) => Absent(SubSeq(q, k + 1, Len(q)), E)
           /\ \A i \in DOMAIN q :
                 q[i] \in E /\ (\A j \in DOMAIN q \ {i} : q[j] \notin E) =>
                     IF i <= k THEN Absent(SubSeq(q, k + 1, Len(q)), E)
                               ELSE Once(SubSeq(q, k + 1, Len(q)), E)
  <1> DEFINE r == SubSeq(q, k + 1, Len(q))
  <1>1. /\ DOMAIN q = 1..Len(q)
        /\ Len(q) \in Nat
        /\ DOMAIN r = 1..(Len(q) - k)
        /\ \A i \in 1..(Len(q) - k) : r[i] = q[i + k]
    OBVIOUS
  <1> HIDE DEF r
  <1>2. Absent(q, E) => Absent(r, E)
    BY <1>1 DEF Absent
  <1>3. ASSUME NEW i \in DOMAIN q, q[i] \in E, \A j \in DOMAIN q \ {i} : q[j] \notin E
        PROVE  IF i <= k THEN Absent(r, E) ELSE Once(r, E)
    <2>1. CASE i <= k
      <3>1. \A j \in DOMAIN r : j + k \in DOMAIN q \ {i}
        BY <1>1, <2>1
      <3> QED BY <1>1, <1>3, <2>1, <3>1 DEF Absent
    <2>2. CASE ~(i <= k)
      <3>1. i - k \in DOMAIN r /\ r[i - k] \in E
        BY <1>1, <1>3, <2>2
      <3>2. \A j \in DOMAIN r \ {i - k} : j + k \in DOMAIN q \ {i} /\ r[j] \notin E
        BY <1>1, <1>3, <2>2
      <3> QED BY <2>2, <3>1, <3>2 DEF Once
    <2> QED BY <2>1, <2>2
  <1> QED BY <1>2, <1>3 DEF r

-----------------------------------------------------------------------------
(* The same of families of sequences *)

LEMMA AppendInFamily ==
    ASSUME NEW S, NEW f, NEW g, NEW n, NEW x, Appended(S, f, g, n, x), NEW E
    PROVE  /\ x \notin E /\ NowhereIn(f, E) => NowhereIn(g, E)
           /\ x \notin E /\ OnceIn(f, E) => OnceIn(g, E)
           /\ x \in E /\ NowhereIn(f, E) => OnceIn(g, E)
  <1>1. /\ n \in Node /\ x \in S
        /\ f[n] \in Seq(S)
        /\ g[n] = Append(f[n], x)
        /\ \A m \in Node \ {n} : g[m] = f[m]
    BY DEF Appended
  <1>2. /\ x \notin E /\ Absent(f[n], E) => Absent(g[n], E)
        /\ x \notin E /\ Once(f[n], E) => Once(g[n], E)
        /\ x \in E /\ Absent(f[n], E) => Once(g[n], E)
    BY <1>1, AppendOccurrences
  <1> QED BY <1>1, <1>2 DEF NowhereIn, OnceIn

LEMMA OnceNotAbsent ==
    ASSUME NEW q, NEW E
    PROVE  ~(Once(q, E) /\ Absent(q, E))
  BY DEF Once, Absent

LEMMA TailInFamily ==
    ASSUME NEW S, NEW f, NEW g, NEW n, NEW x, HeadTaken(S, f, g, n, x), NEW E
    PROVE  /\ NowhereIn(f, E) => NowhereIn(g, E) /\ x \notin E
           /\ x \notin E /\ OnceIn(f, E) => OnceIn(g, E)
           /\ x \in E /\ OnceIn(f, E) => NowhereIn(g, E)
  <1>1. /\ n \in Node /\ f[n] # <<>> /\ x = Head(f[n])
        /\ f[n] \in Seq(S)
        /\ g[n] = Tail(f[n])
        /\ \A m \in Node \ {n} : g[m] = f[m]
    BY DEF HeadTaken
  <1>2. /\ Absent(f[n], E) => Absent(g[n], E)
        /\ x \notin E /\ Once(f[n], E) => Once(g[n], E)
        /\ x \in E /\ Once(f[n], E) => Absent(g[n], E)
        /\ x \in E => ~Absent(f[n], E)
    BY <1>1, TailOccurrences
  <1>3. x \in E /\ OnceIn(f, E) => Once(f[n], E) /\ \A m \in Node \ {n} : Absent(f[m], E)
    BY <1>1, <1>2 DEF OnceIn
  <1> QED BY <1>1, <1>2, <1>3 DEF NowhereIn, OnceIn

LEMMA DeleteInFamily ==
    ASSUME NEW S, NEW f, NEW g, NEW n, NEW i, NEW x, Deleted(S, f, g, n, i, x), NEW E
    PROVE  /\ NowhereIn(f, E) => NowhereIn(g, E) /\ x \notin E
           /\ x \notin E /\ OnceIn(f, E) => OnceIn(g, E)
           /\ x \in E /\ OnceIn(f, E) => NowhereIn(g, E)
  <1> DEFINE q == f[n]
  <1>1. /\ n \in Node
        /\ q \in Seq(S)
        /\ i \in DOMAIN q
        /\ x = q[i]
        /\ g[n] = SubSeq(q, 1, i - 1) \o SubSeq(q, i + 1, Len(q))
        /\ \A m \in Node \ {n} : g[m] = f[m]
    BY DEF Deleted
  <1>2. x \in E => ~Absent(q, E)
    BY <1>1 DEF Absent
  <1> HIDE DEF q
  <1>3. /\ Absent(q, E) => Absent(g[n], E)
        /\ x \notin E /\ Once(q, E) => Once(g[n], E)
        /\ x \in E /\ Once(q, E) => Absent(g[n], E)
    BY <1>1, DeleteOccurrences
  <1>4. f[n] = q
    BY DEF q
  <1>5. x \in E /\ OnceIn(f, E) => Once(q, E) /\ \A m \in Node \ {n} : Absent(f[m], E)
    BY <1>1, <1>2, <1>4 DEF OnceIn
  <1> QED BY <1>1, <1>2, <1>3, <1>4, <1>5 DEF NowhereIn, OnceIn

-----------------------------------------------------------------------------
(* The tasks the main thread has: a task waits in one queue, or is sent and *)
(* still in one port, or neither.                                           *)
Waits(s, t) == OnceIn(s.queue, {t}) /\ NowhereIn(s.port, {TaskMessage(t)})

Sent(s, t) == NowhereIn(s.queue, {t}) /\ OnceIn(s.port, {TaskMessage(t)})

Away(s, t) == NowhereIn(s.queue, {t}) /\ NowhereIn(s.port, {TaskMessage(t)})

Placed(s) == \A t \in Task : Waits(s, t) \/ Sent(s, t) \/ Away(s, t)

(* What the operations do with tasks they are not given: a waiting task may *)
(* be sent.                                                                 *)
Keeps(s, r, t) ==
    /\ Waits(s, t) => Waits(r, t) \/ Sent(r, t)
    /\ Sent(s, t) => Sent(r, t)
    /\ Away(s, t) => Away(r, t)

KeepsAll(s, r) == \A t \in Task : Keeps(s, r, t)

KeepsOthers(s, r, u) == \A t \in Task \ {u} : Keeps(s, r, t)

(* A message carries a task for one task only *)
LEMMA TaskMessageInjective ==
    ASSUME NEW t, NEW u, TaskMessage(t) = TaskMessage(u)
    PROVE  t = u
  <1>1. TaskMessage(t).task = t /\ TaskMessage(u).task = u
    BY DEF TaskMessage
  <1> QED BY <1>1

LEMMA PlaceIsOne ==
    ASSUME NEW s, NEW t
    PROVE  ~(Waits(s, t) /\ Sent(s, t)) /\ ~(Waits(s, t) /\ Away(s, t)) /\ ~(Sent(s, t) /\ Away(s, t))
  <1>1. \A f, E : ~(OnceIn(f, E) /\ NowhereIn(f, E))
    BY OnceNotAbsent DEF OnceIn, NowhereIn
  <1> QED BY <1>1 DEF Waits, Sent, Away

LEMMA KeepsTransitive ==
    ASSUME NEW s, NEW r, NEW q, NEW t, Keeps(s, r, t), Keeps(r, q, t)
    PROVE  Keeps(s, q, t)
  BY DEF Keeps

LEMMA KeepsWhenSame ==
    ASSUME NEW s, NEW r, r.queue = s.queue, r.port = s.port
    PROVE  KeepsAll(s, r) /\ (Placed(s) => Placed(r))
  BY DEF KeepsAll, Keeps, Placed, Waits, Sent, Away

(* A task of which no queue and no port knew is sent. *)
LEMMA ExecuteTaskPlaces ==
    ASSUME NEW s, s \in PoolState, NEW n \in Node, NEW u \in Task
    PROVE  LET r == ExecuteTask(s, n, u)
           IN  /\ KeepsOthers(s, r, u)
               /\ Away(s, u) => Sent(r, u)
  <1> DEFINE r == ExecuteTask(s, n, u)
  <1>1. /\ r.queue = s.queue
        /\ r.port = [s.port EXCEPT ![n] = Append(@, TaskMessage(u))]
    BY DEF ExecuteTask, BeforeTaskExecution, PoolState
  <1>2. s.port \in [Node -> Seq(Message)] /\ TaskMessage(u) \in Message
    BY DEF PoolState, TaskMessage, Message
  <1> HIDE DEF r
  <1>3. \A E : /\ TaskMessage(u) \notin E /\ NowhereIn(s.port, E) => NowhereIn(r.port, E)
               /\ TaskMessage(u) \notin E /\ OnceIn(s.port, E) => OnceIn(r.port, E)
               /\ TaskMessage(u) \in E /\ NowhereIn(s.port, E) => OnceIn(r.port, E)
    <2>1. Appended(Message, s.port, r.port, n, TaskMessage(u))
      BY <1>1, <1>2 DEF Appended
    <2> QED BY <2>1, AppendInFamily
  <1>4. ASSUME NEW t \in Task \ {u} PROVE Keeps(s, r, t)
    <2>1. TaskMessage(u) \notin {TaskMessage(t)}
      BY TaskMessageInjective
    <2> QED BY <1>1, <1>3, <2>1 DEF Keeps, Waits, Sent, Away
  <1> QED BY <1>1, <1>3, <1>4 DEF KeepsOthers, Away, Sent, r

(* The task taken from a queue is nowhere until it is handed on. *)
LEMMA DequeueTaskPlaces ==
    ASSUME NEW s, s \in PoolState, Placed(s), NEW n \in Node, s.queue[n] # <<>>
    PROVE  LET r == DequeueTask(s, n)
               u == Head(s.queue[n])
           IN  /\ KeepsOthers(s, r, u)
               /\ Waits(s, u)
               /\ Away(r, u)
               /\ Placed(r)
  <1> DEFINE r == DequeueTask(s, n)
             u == Head(s.queue[n])
  <1>1. /\ r.queue = [s.queue EXCEPT ![n] = Tail(@)]
        /\ r.port = s.port
    BY DEF DequeueTask, PoolState
  <1>2. s.queue \in [Node -> Seq(Task)] /\ s.queue[n] # <<>> /\ u \in Task
    BY DEF PoolState
  <1> HIDE DEF r, u
  <1>3. \A t : /\ NowhereIn(s.queue, {t}) => NowhereIn(r.queue, {t}) /\ u # t
               /\ u # t /\ OnceIn(s.queue, {t}) => OnceIn(r.queue, {t})
               /\ u = t /\ OnceIn(s.queue, {t}) => NowhereIn(r.queue, {t})
    <2>1. HeadTaken(Task, s.queue, r.queue, n, u)
      BY <1>1, <1>2 DEF HeadTaken, u
    <2> SUFFICES ASSUME NEW t
                 PROVE  /\ NowhereIn(s.queue, {t}) => NowhereIn(r.queue, {t}) /\ u # t
                        /\ u # t /\ OnceIn(s.queue, {t}) => OnceIn(r.queue, {t})
                        /\ u = t /\ OnceIn(s.queue, {t}) => NowhereIn(r.queue, {t})
      OBVIOUS
    <2>2. u \in {t} <=> u = t
      OBVIOUS
    <2> QED BY <2>1, <2>2, TailInFamily
  <1>4. Waits(s, u)
    BY <1>2, <1>3 DEF Placed, Sent, Away
  <1>5. Away(r, u)
    BY <1>1, <1>3, <1>4 DEF Waits, Away
  <1>6. KeepsOthers(s, r, u)
    BY <1>1, <1>3 DEF KeepsOthers, Keeps, Waits, Sent, Away
  <1>7. Placed(r)
    BY <1>5, <1>6 DEF KeepsOthers, Keeps, Placed
  <1> QED BY <1>4, <1>5, <1>6, <1>7 DEF r, u

(* The task of a queue that is sent is given to a receiver, which counts it. *)
Given(s, r, src, o, t) ==
    \E i \in DOMAIN o \intersect DOMAIN s.queue[src] :
        /\ s.queue[src][i] = t /\ o[i] \in Node
        /\ r.executing[o[i]] = s.executing[o[i]] + 1

(* Distributing the tasks of a queue gives each to one receiver: no         *)
(* receiver is served twice, and what is left are the tasks behind.         *)
LEMMA DistributePlaces ==
    ASSUME NEW s, s \in PoolState, Placed(s), NEW src \in Node,
           NEW o \in ServiceOrder(s, src)
    PROVE  LET r == Distribute(s, src, o)
           IN  /\ KeepsAll(s, r)
               /\ \A t \in Task : Waits(s, t) => Waits(r, t) \/ Given(s, r, src, o, t)
  <1> DEFINE q == s.queue[src]
             served(d) == \E i \in DOMAIN o : o[i] = d
             given(d) == s.queue[src][CHOOSE i \in DOMAIN o : o[i] = d]
             left == SubSeq(s.queue[src], Len(o) + 1, Len(s.queue[src]))
             r == Distribute(s, src, o)
  <1>1. /\ s.queue \in [Node -> Seq(Task)]
        /\ s.port \in [Node -> Seq(Message)]
        /\ q \in Seq(Task) /\ Len(q) \in Nat /\ DOMAIN q = 1..Len(q)
    BY DEF PoolState
  <1>2. /\ r.queue = [d \in Node |->
                          IF d = src THEN left
                          ELSE IF served(d) /\ ~ShallExecuteTask(s, d)
                               THEN Append(s.queue[d], given(d)) ELSE s.queue[d]]
        /\ r.port = [d \in Node |->
                          IF served(d) /\ ShallExecuteTask(s, d)
                          THEN Append(s.port[d], TaskMessage(given(d))) ELSE s.port[d]]
        /\ r.executing = [d \in Node |->
                          IF served(d) /\ ShallExecuteTask(s, d)
                          THEN s.executing[d] + 1 ELSE s.executing[d]]
    BY <1>1 DEF Distribute, PoolState
  <1>3. /\ Len(o) \in 0..Len(q)
        /\ DOMAIN o = 1..Len(o)
        /\ \A i \in DOMAIN o : o[i] \in Node \ {src}
    <2>1. PICK m \in 0..Len(q) : o \in [1..m -> Receiver(s, src)]
      BY DEF ServiceOrder
    <2> QED BY <1>1, <2>1 DEF Receiver
  <1>4. \A i, j \in DOMAIN o : o[i] = o[j] => i = j
    <2>1. \A d \in Node : ~ServedBefore(s, d, d)
      BY <1>1 DEF ServedBefore, Node
    <2>2. \A i, j \in DOMAIN o : i < j => o[i] # o[j]
      BY <1>3, <2>1 DEF ServiceOrder
    <2> QED BY <1>3, <2>2
  <1>5. \A i \in DOMAIN o : served(o[i]) /\ given(o[i]) = q[i] /\ i \in DOMAIN q
    <2> SUFFICES ASSUME NEW i \in DOMAIN o
                 PROVE  served(o[i]) /\ given(o[i]) = q[i] /\ i \in DOMAIN q
      OBVIOUS
    <2>1. (CHOOSE j \in DOMAIN o : o[j] = o[i]) = i
      BY <1>4
    <2>2. served(o[i]) /\ given(o[i]) = q[i]
      BY <2>1
    <2>3. i \in DOMAIN q
      BY <1>1, <1>3
    <2> QED BY <2>2, <2>3
  <1>6. \A d \in Node : served(d) => \E i \in DOMAIN o : o[i] = d /\ given(d) = q[i] /\ i \in DOMAIN q
    BY <1>5
  <1> HIDE DEF q, served, given, left, r
  <1>7. \A d \in Node : served(d) => given(d) \in Task /\ TaskMessage(given(d)) \in Message
    BY <1>1, <1>6 DEF TaskMessage, Message
  <1>8. \A t : Absent(q, {t}) => Absent(left, {t})
    BY <1>1, <1>3, SuffixOccurrences DEF left, q
  <1> SUFFICES ASSUME NEW t \in Task
               PROVE  /\ Keeps(s, r, t)
                      /\ Waits(s, t) => Waits(r, t) \/ Given(s, r, src, o, t)
    BY DEF KeepsAll, r
  <1> DEFINE M == {TaskMessage(t)}
  (* A receiver that is not given t *)
  <1>9. ASSUME NEW d \in Node, d # src, served(d) => given(d) # t
        PROVE  /\ Absent(s.queue[d], {t}) => Absent(r.queue[d], {t})
               /\ Once(s.queue[d], {t}) => Once(r.queue[d], {t})
    <2>1. s.queue[d] \in Seq(Task)
      BY <1>1
    <2>2. CASE served(d) /\ ~ShallExecuteTask(s, d)
      <3>1. r.queue[d] = Append(s.queue[d], given(d))
        BY <1>2, <1>9, <2>2
      <3>2. given(d) \in Task /\ given(d) \notin {t}
        BY <1>7, <1>9, <2>2
      <3> QED BY <2>1, <3>1, <3>2, AppendOccurrences
    <2>3. CASE ~(served(d) /\ ~ShallExecuteTask(s, d))
      BY <1>2, <1>9, <2>3
    <2> QED BY <2>2, <2>3
  <1>10. ASSUME NEW d \in Node, served(d) => given(d) # t
         PROVE  /\ Absent(s.port[d], M) => Absent(r.port[d], M)
                /\ Once(s.port[d], M) => Once(r.port[d], M)
    <2>1. s.port[d] \in Seq(Message)
      BY <1>1
    <2>2. CASE served(d) /\ ShallExecuteTask(s, d)
      <3>1. r.port[d] = Append(s.port[d], TaskMessage(given(d)))
        BY <1>2, <2>2
      <3>2. TaskMessage(given(d)) \in Message /\ TaskMessage(given(d)) \notin M
        BY <1>7, <1>10, <2>2, TaskMessageInjective
      <3> QED BY <2>1, <3>1, <3>2, AppendOccurrences
    <2>3. CASE ~(served(d) /\ ShallExecuteTask(s, d))
      BY <1>2, <2>3
    <2> QED BY <2>2, <2>3
  <1>11. CASE Absent(q, {t})
    <2>1. \A d \in Node : served(d) => given(d) # t
      BY <1>6, <1>11 DEF Absent
    <2>2. r.queue[src] = left /\ Absent(left, {t})
      BY <1>2, <1>8, <1>11
    <2>3. Absent(s.queue[src], {t}) /\ ~Once(s.queue[src], {t})
      BY <1>11, OnceNotAbsent DEF q
    <2>4. /\ \A d \in Node \ {src} : /\ Absent(s.queue[d], {t}) => Absent(r.queue[d], {t})
                                     /\ Once(s.queue[d], {t}) => Once(r.queue[d], {t})
          /\ \A d \in Node : /\ Absent(s.port[d], M) => Absent(r.port[d], M)
                             /\ Once(s.port[d], M) => Once(r.port[d], M)
      BY <1>9, <1>10, <2>1
    <2> HIDE DEF M
    <2>5. /\ NowhereIn(s.queue, {t}) => NowhereIn(r.queue, {t})
          /\ OnceIn(s.queue, {t}) => OnceIn(r.queue, {t})
      BY <2>2, <2>3, <2>4 DEF NowhereIn, OnceIn
    <2>6. /\ NowhereIn(s.port, M) => NowhereIn(r.port, M)
          /\ OnceIn(s.port, M) => OnceIn(r.port, M)
      BY <2>4 DEF NowhereIn, OnceIn
    <2> QED BY <2>5, <2>6 DEF Keeps, Waits, Sent, Away, M
  <1>12. CASE ~Absent(q, {t})
    <2>1. Waits(s, t)
      BY <1>12 DEF Placed, Sent, Away, NowhereIn, q
    <2>2. /\ Once(q, {t})
          /\ \A d \in Node \ {src} : Absent(s.queue[d], {t})
          /\ \A d \in Node : Absent(s.port[d], M)
      BY <1>12, <2>1 DEF Waits, OnceIn, NowhereIn, q
    <2>3. PICK i \in DOMAIN q : q[i] = t /\ \A j \in DOMAIN q \ {i} : q[j] # t
      BY <2>2 DEF Once
    <2>4. IF i <= Len(o) THEN Absent(left, {t}) ELSE Once(left, {t})
      <3>1. q[i] \in {t} /\ \A j \in DOMAIN q \ {i} : q[j] \notin {t}
        BY <2>3
      <3> QED BY <1>1, <1>3, <3>1, SuffixOccurrences DEF left, q
    <2>5. r.queue[src] = left
      BY <1>2
    <2>6. \A d \in Node : (served(d) => given(d) # t) =>
              /\ d # src => Absent(r.queue[d], {t})
              /\ Absent(r.port[d], M)
      BY <1>9, <1>10, <2>2
    <2>7. ~served(src)
      BY <1>3 DEF served
    <2>8. CASE ~(i <= Len(o))
      <3>1. \A d \in Node : served(d) => given(d) # t
        <4> SUFFICES ASSUME NEW d \in Node, served(d) PROVE given(d) # t
          OBVIOUS
        <4>1. PICK j \in DOMAIN o : given(d) = q[j] /\ j \in DOMAIN q
          BY <1>6
        <4> QED BY <1>3, <2>3, <2>8, <4>1
      <3>2. Waits(r, t)
        BY <2>4, <2>5, <2>6, <2>8, <3>1 DEF Waits, OnceIn, NowhereIn
      <3> QED BY <2>1, <3>2, PlaceIsOne DEF Keeps
    <2>9. CASE i <= Len(o)
      <3> DEFINE e == o[i]
      <3>1. i \in DOMAIN o /\ e \in Node \ {src} /\ served(e) /\ given(e) = t
        BY <1>1, <1>3, <1>5, <2>3, <2>9
      <3> HIDE DEF e
      <3>2. \A d \in Node \ {e} : served(d) => given(d) # t
        <4> SUFFICES ASSUME NEW d \in Node \ {e}, served(d) PROVE given(d) # t
          OBVIOUS
        <4>1. PICK j \in DOMAIN o : o[j] = d /\ given(d) = q[j] /\ j \in DOMAIN q
          BY <1>6
        <4> QED BY <2>3, <4>1 DEF e
      <3>3. /\ \A d \in Node \ {e, src} : Absent(r.queue[d], {t})
            /\ \A d \in Node \ {e} : Absent(r.port[d], M)
            /\ Absent(r.queue[src], {t})
        BY <2>4, <2>5, <2>6, <2>9, <3>2
      <3>4. CASE ShallExecuteTask(s, e)
        <4>1. r.port[e] = Append(s.port[e], TaskMessage(t)) /\ r.queue[e] = s.queue[e]
          BY <1>2, <3>1, <3>4
        <4>2. Once(r.port[e], M)
          <5>1. /\ s.port[e] \in Seq(Message) /\ Absent(s.port[e], M)
                /\ TaskMessage(t) \in Message /\ TaskMessage(t) \in M
            BY <1>1, <1>7, <2>2, <3>1
          <5> HIDE DEF M
          <5> QED BY <4>1, <5>1, AppendOccurrences
        <4>3. Sent(r, t)
          BY <2>2, <3>1, <3>3, <4>1, <4>2 DEF Sent, OnceIn, NowhereIn
        <4>4. Given(s, r, src, o, t)
          BY <1>2, <2>3, <3>1, <3>4 DEF Given, q, e
        <4> QED BY <2>1, <4>3, <4>4, PlaceIsOne DEF Keeps
      <3>5. CASE ~ShallExecuteTask(s, e)
        <4>1. r.queue[e] = Append(s.queue[e], t) /\ r.port[e] = s.port[e]
          BY <1>2, <3>1, <3>5
        <4>2. Once(r.queue[e], {t})
          <5>1. s.queue[e] \in Seq(Task) /\ Absent(s.queue[e], {t}) /\ t \in {t}
            BY <1>1, <2>2, <3>1
          <5> QED BY <4>1, <5>1, AppendOccurrences
        <4>3. Waits(r, t)
          BY <2>2, <3>1, <3>3, <4>1, <4>2 DEF Waits, OnceIn, NowhereIn
        <4> QED BY <2>1, <4>3, PlaceIsOne DEF Keeps
      <3> QED BY <3>4, <3>5
    <2> QED BY <2>8, <2>9
  <1> QED BY <1>11, <1>12

LEMMA BackPressureEventPlaces ==
    ASSUME NEW s, NodesOK(s), Placed(s), NEW src \in Node, NEW r \in BackPressureEvent(s, src)
    PROVE  KeepsAll(s, r)
  <1>1. CASE r = s
    BY <1>1, KeepsWhenSame
  <1>2. CASE \E o \in ServiceOrder(s, src) : r = Distribute(s, src, o)
    BY <1>2, DistributePlaces DEF NodesOK
  <1> QED BY <1>1, <1>2 DEF BackPressureEvent

(* A task of which no queue and no port knew is queued. *)
LEMMA EnqueuedPlaces ==
    ASSUME NEW s, NodesOK(s), Placed(s), NEW n \in Node, NEW u \in Task,
           Away(s, u), ~ShallExecuteTask(s, n),
           NEW e, e = [s EXCEPT !.queue[n] = Append(@, u),
                                !.backPressure[n] = @ \/ Len(s.queue[n]) + 1 >= QueueSize]
    PROVE  NodesOK(e) /\ Waits(e, u) /\ KeepsOthers(s, e, u) /\ Placed(e)
  <1>1. /\ s \in PoolState
        /\ s.queue \in [Node -> Seq(Task)]
        /\ s.executing \in [Node -> Nat]
        /\ s.backPressure \in [Node -> BOOLEAN]
    BY DEF NodesOK, PoolState
  <1>2. /\ e.queue = [s.queue EXCEPT ![n] = Append(@, u)]
        /\ e.port = s.port
        /\ e.executing = s.executing
        /\ e.backPressure = [s.backPressure EXCEPT ![n] = @ \/ Len(s.queue[n]) + 1 >= QueueSize]
        /\ e.continuousStealing = s.continuousStealing
    BY <1>1 DEF PoolState
  <1>3. NodesOK(e)
    <2>1. e.queue \in [Node -> Seq(Task)] /\ e.backPressure \in [Node -> BOOLEAN]
      BY <1>1, <1>2
    <2>2. e \in PoolState
      BY <1>1, <1>2, <2>1 DEF PoolState
    <2>3. BusyWhenQueued(e)
      <3>1. s.executing[n] >= Concurrency
        BY <1>1, PoolAssumption DEF NodesOK, BusyWhenQueued, ShallExecuteTask
      <3> QED BY <1>1, <1>2, <3>1 DEF NodesOK, BusyWhenQueued
    <2>4. FlaggedWhenFull(e)
      <3> SUFFICES ASSUME NEW m \in Node, Len(e.queue[m]) >= QueueSize
                   PROVE  e.backPressure[m]
        BY DEF FlaggedWhenFull
      <3>1. CASE m = n
        <4>1. /\ Len(Append(s.queue[n], u)) = Len(s.queue[n]) + 1
              /\ e.queue[n] = Append(s.queue[n], u)
              /\ e.backPressure[n] = (s.backPressure[n] \/ Len(s.queue[n]) + 1 >= QueueSize)
          BY <1>1, <1>2
        <4> QED BY <3>1, <4>1
      <3>2. CASE m # n
        BY <1>1, <1>2, <3>2 DEF NodesOK, FlaggedWhenFull
      <3> QED BY <3>1, <3>2
    <2> QED BY <2>2, <2>3, <2>4 DEF NodesOK
  <1>5. \A t : /\ t # u /\ NowhereIn(s.queue, {t}) => NowhereIn(e.queue, {t})
               /\ t # u /\ OnceIn(s.queue, {t}) => OnceIn(e.queue, {t})
               /\ t = u /\ NowhereIn(s.queue, {t}) => OnceIn(e.queue, {t})
    <2> SUFFICES ASSUME NEW t
                 PROVE  /\ t # u /\ NowhereIn(s.queue, {t}) => NowhereIn(e.queue, {t})
                        /\ t # u /\ OnceIn(s.queue, {t}) => OnceIn(e.queue, {t})
                        /\ t = u /\ NowhereIn(s.queue, {t}) => OnceIn(e.queue, {t})
      OBVIOUS
    <2>1. Appended(Task, s.queue, e.queue, n, u)
      BY <1>1, <1>2 DEF Appended
    <2>2. u \in {t} <=> t = u
      OBVIOUS
    <2> QED BY <2>1, <2>2, AppendInFamily
  <1>6. KeepsOthers(s, e, u)
    BY <1>2, <1>5 DEF KeepsOthers, Keeps, Waits, Sent, Away
  <1>7. Waits(e, u)
    BY <1>2, <1>5 DEF Waits, Away
  <1>8. Placed(e)
    BY <1>6, <1>7 DEF Placed, KeepsOthers, Keeps
  <1> QED BY <1>3, <1>6, <1>7, <1>8

(* It may be given away at once. *)
LEMMA EnqueueTaskPlaces ==
    ASSUME NEW s, NodesOK(s), Placed(s), NEW n \in Node, NEW u \in Task,
           Away(s, u), ~ShallExecuteTask(s, n), NEW r \in EnqueueTask(s, n, u)
    PROVE  /\ KeepsOthers(s, r, u)
           /\ Waits(r, u) \/ Sent(r, u)
  <1> DEFINE e == [s EXCEPT !.queue[n] = Append(@, u),
                            !.backPressure[n] = @ \/ Len(s.queue[n]) + 1 >= QueueSize]
  <1>1. NodesOK(e) /\ Waits(e, u) /\ KeepsOthers(s, e, u) /\ Placed(e)
    BY EnqueuedPlaces
  <1>2. r = e \/ r \in BackPressureEvent(e, n)
    BY DEF EnqueueTask
  <1> HIDE DEF e
  <1>3. KeepsAll(e, r)
    BY <1>1, <1>2, KeepsWhenSame, BackPressureEventPlaces
  <1> QED BY <1>1, <1>3, KeepsTransitive DEF KeepsOthers, KeepsAll, Keeps

LEMMA HandleTaskPlaces ==
    ASSUME NEW s, NodesOK(s), Placed(s), NEW n \in Node, NEW u \in Task,
           Away(s, u), NEW r \in HandleTask(s, n, u)
    PROVE  /\ KeepsOthers(s, r, u)
           /\ Waits(r, u) \/ Sent(r, u)
  <1>1. CASE ShallExecuteTask(s, n)
    BY <1>1, ExecuteTaskPlaces DEF HandleTask, NodesOK
  <1>2. CASE ~ShallExecuteTask(s, n)
    BY <1>2, EnqueueTaskPlaces DEF HandleTask
  <1> QED BY <1>1, <1>2

(* A stolen task waits or is sent elsewhere. *)
LEMMA WorkerNodeStealTaskPlaces ==
    ASSUME NEW s, NodesOK(s), Placed(s), NEW n \in Node, NEW r \in WorkerNodeStealTask(s, n)
    PROVE  KeepsAll(s, r)
  <1>1. CASE r = s
    BY <1>1, KeepsWhenSame
  <1>2. CASE \E src \in StealSource(s, n) : r \in StealTask(s, src, n)
    <2>1. PICK src \in StealSource(s, n) :
               r \in HandleTask(DequeueTask(s, src), n, Head(s.queue[src]))
      BY <1>2 DEF StealTask
    <2> DEFINE d == DequeueTask(s, src)
               u == Head(s.queue[src])
    <2>2. src \in Node /\ s.queue[src] # <<>>
      BY DEF StealSource
    <2>3. NodesOK(d) /\ u \in Task
      BY <2>2, DequeueTaskOK DEF NodesOK
    <2>4. KeepsOthers(s, d, u) /\ Waits(s, u) /\ Away(d, u) /\ Placed(d)
      BY <2>2, DequeueTaskPlaces DEF NodesOK
    <2> HIDE DEF d, u
    <2>5. KeepsOthers(d, r, u) /\ (Waits(r, u) \/ Sent(r, u))
      <3>1. r \in HandleTask(d, n, u)
        BY <2>1 DEF d, u
      <3> QED BY <2>3, <2>4, <3>1, HandleTaskPlaces
    <2>6. Keeps(s, r, u)
      BY <2>4, <2>5, PlaceIsOne DEF Keeps
    <2>7. \A t \in Task \ {u} : Keeps(s, r, t)
      BY <2>4, <2>5, KeepsTransitive DEF KeepsOthers
    <2> QED BY <2>6, <2>7 DEF KeepsAll
  <1> QED BY <1>1, <1>2 DEF WorkerNodeStealTask

(* After a response the node may send the next task of its own queue. *)
LEMMA NextQueuedTaskPlaces ==
    ASSUME NEW s, NodesOK(s), Placed(s), NEW k \in Node,
           NEW v, v = Unexecute(s, k),
           NEW d, d = IF ~IsBusy(v, k) /\ v.queue[k] # <<>>
                      THEN ExecuteTask(DequeueTask(v, k), k, Head(v.queue[k]))
                      ELSE v
    PROVE  KeepsAll(s, d)
  <1>1. v \in PoolState /\ FlaggedWhenFull(v) /\ v.queue = s.queue
    BY UnexecuteOK
  <1>2. v.port = s.port
    BY DEF Unexecute, NodesOK, PoolState
  <1>3. KeepsAll(s, v) /\ Placed(v)
    BY <1>1, <1>2, KeepsWhenSame
  <1>4. CASE ~(~IsBusy(v, k) /\ v.queue[k] # <<>>)
    BY <1>3, <1>4
  <1>5. CASE ~IsBusy(v, k) /\ v.queue[k] # <<>>
    <2> DEFINE q == DequeueTask(v, k)
               u == Head(v.queue[k])
    <2>1. q \in PoolState /\ u \in Task
      BY <1>1, <1>5, DequeueTaskOK
    <2>2. KeepsOthers(v, q, u) /\ Waits(v, u) /\ Away(q, u)
      BY <1>1, <1>3, <1>5, DequeueTaskPlaces
    <2>3. d = ExecuteTask(q, k, u)
      BY <1>5
    <2> HIDE DEF q, u
    <2>4. KeepsOthers(q, d, u) /\ Sent(d, u)
      BY <2>1, <2>2, <2>3, ExecuteTaskPlaces
    <2>5. Keeps(v, d, u)
      BY <2>2, <2>4, PlaceIsOne DEF Keeps
    <2>6. \A t \in Task \ {u} : Keeps(v, d, t)
      BY <2>2, <2>4, KeepsTransitive DEF KeepsOthers
    <2> QED BY <1>3, <2>5, <2>6, KeepsTransitive DEF KeepsAll
  <1> QED BY <1>4, <1>5

LEMMA IdleEventPlaces ==
    ASSUME NEW s, NodesOK(s), Placed(s), NEW n \in Node, NEW armed, IdleEvent(s, n, armed)
    PROVE  KeepsAll(s, pool')
  <1>1. CASE pool' = s
    BY <1>1, KeepsWhenSame
  <1>2. CASE pool' = [s EXCEPT !.continuousStealing[n] = FALSE]
    <2>1. pool'.queue = s.queue /\ pool'.port = s.port
      BY <1>2 DEF NodesOK, PoolState
    <2> QED BY <2>1, KeepsWhenSame
  <1>3. CASE pool' \in WorkerNodeStealTask([s EXCEPT !.continuousStealing[n] = TRUE], n)
    <2> DEFINE c == [s EXCEPT !.continuousStealing[n] = TRUE]
    <2>1. /\ c \in PoolState
          /\ c.queue = s.queue
          /\ c.port = s.port
          /\ c.executing = s.executing
          /\ c.backPressure = s.backPressure
      BY DEF NodesOK, PoolState
    <2>2. NodesOK(c)
      BY <2>1 DEF NodesOK, BusyWhenQueued, FlaggedWhenFull
    <2> HIDE DEF c
    <2>3. KeepsAll(s, c) /\ Placed(c)
      BY <2>1, KeepsWhenSame
    <2>4. KeepsAll(c, pool')
      BY <1>3, <2>2, <2>3, WorkerNodeStealTaskPlaces DEF c
    <2> QED BY <2>3, <2>4, KeepsTransitive DEF KeepsAll
  <1> QED BY <1>1, <1>2, <1>3 DEF IdleEvent

-----------------------------------------------------------------------------
(* The inductive invariant: beside the invariant of TaskPoolProofs, what    *)
(* OnePlace says, in terms of occurrences.  A pending task waits or is sent *)
(* in the pool, or runs on one worker, or has one response under way; a     *)
(* task whose promise is not pending is nowhere.                            *)
Response == [task : Task, status : Status]

ResponsesOf(t) == {m \in Response : m.task = t}

RunsNowhere(t) == \A n \in Node : t \notin running[n]

RunsOnce(t) == \E n \in Node : t \in running[n] /\ \A m \in Node \ {n} : t \notin running[m]

InPool(t) ==
    /\ Waits(pool, t) \/ Sent(pool, t)
    /\ RunsNowhere(t)
    /\ NowhereIn(fromWorker, ResponsesOf(t))

Runs(t) ==
    /\ Away(pool, t)
    /\ RunsOnce(t)
    /\ NowhereIn(fromWorker, ResponsesOf(t))

Answered(t) ==
    /\ Away(pool, t)
    /\ RunsNowhere(t)
    /\ OnceIn(fromWorker, ResponsesOf(t))

Nowhere(t) ==
    /\ Away(pool, t)
    /\ RunsNowhere(t)
    /\ NowhereIn(fromWorker, ResponsesOf(t))

TaskPlaced(t) ==
    IF promise[t] = "pending" THEN InPool(t) \/ Runs(t) \/ Answered(t) ELSE Nowhere(t)

TasksPlaced == \A t \in Task : TaskPlaced(t)

PlaceInv == IInv /\ TasksPlaced

LEMMA TasksPlacedInPool == TasksPlaced => Placed(pool)
  BY DEF TasksPlaced, TaskPlaced, InPool, Runs, Answered, Nowhere, Placed

LEMMA InitPlaceInv == Init => PlaceInv
  <1> SUFFICES ASSUME Init PROVE TasksPlaced
    BY InitIInv DEF PlaceInv
  <1>1. \A E : Absent(<<>>, E)
    BY DEF Absent
  <1>2. \A t \in Task : Nowhere(t)
    BY <1>1 DEF Init, Nowhere, Away, NowhereIn, RunsNowhere
  <1> QED BY <1>2 DEF Init, TasksPlaced, TaskPlaced

(* A step that leaves the worker side alone, and in the pool moves tasks    *)
(* only as the operations on the nodes do.                                  *)
LEMMA PoolStepPlaces ==
    ASSUME NEW t \in Task, TaskPlaced(t), Keeps(pool, pool', t), promise'[t] = promise[t],
           UNCHANGED <<running, fromWorker>>
    PROVE  TaskPlaced(t)'
  <1>1. RunsNowhere(t) => RunsNowhere(t)'
    BY DEF RunsNowhere
  <1>2. RunsOnce(t) => RunsOnce(t)'
    BY DEF RunsOnce
  <1>3. /\ NowhereIn(fromWorker, ResponsesOf(t)) => NowhereIn(fromWorker, ResponsesOf(t))'
        /\ OnceIn(fromWorker, ResponsesOf(t)) => OnceIn(fromWorker, ResponsesOf(t))'
    BY DEF NowhereIn, OnceIn, ResponsesOf
  <1>4. /\ Waits(pool, t) => Waits(pool, t)' \/ Sent(pool, t)'
        /\ Sent(pool, t) => Sent(pool, t)'
        /\ Away(pool, t) => Away(pool, t)'
    BY DEF Keeps, Waits, Sent, Away
  <1> QED BY <1>1, <1>2, <1>3, <1>4 DEF TaskPlaced, InPool, Runs, Answered, Nowhere

(* A worker answers: the task stops running and its response is under way.  *)
LEMMA RespondPlaces ==
    ASSUME TypeOK, TasksPlaced, NEW n \in Node, NEW u \in Task, NEW status \in Status,
           Respond(n, u, status), KeepsAll(pool, pool'), UNCHANGED promise
    PROVE  TasksPlaced'
  <1> DEFINE m == [task |-> u, status |-> status]
  <1>1. /\ u \in running[n]
        /\ running' = [running EXCEPT ![n] = @ \ {u}]
        /\ fromWorker' = [fromWorker EXCEPT ![n] = Append(@, m)]
    BY DEF Respond
  <1>2. /\ running \in [Node -> SUBSET Task]
        /\ fromWorker \in [Node -> Seq(Response)]
        /\ m \in Response
    BY DEF TypeOK, Response
  <1>3. \A t : m \in ResponsesOf(t) <=> t = u
    BY <1>2 DEF ResponsesOf
  <1> HIDE DEF m
  <1>4. \A t : /\ t # u /\ NowhereIn(fromWorker, ResponsesOf(t)) => NowhereIn(fromWorker', ResponsesOf(t))
               /\ t # u /\ OnceIn(fromWorker, ResponsesOf(t)) => OnceIn(fromWorker', ResponsesOf(t))
               /\ t = u /\ NowhereIn(fromWorker, ResponsesOf(t)) => OnceIn(fromWorker', ResponsesOf(t))
    <2>1. \A E : /\ m \notin E /\ NowhereIn(fromWorker, E) => NowhereIn(fromWorker', E)
                 /\ m \notin E /\ OnceIn(fromWorker, E) => OnceIn(fromWorker', E)
                 /\ m \in E /\ NowhereIn(fromWorker, E) => OnceIn(fromWorker', E)
      <3>1. Appended(Response, fromWorker, fromWorker', n, m)
        BY <1>1, <1>2 DEF Appended
      <3> QED BY <3>1, AppendInFamily
    <2> QED BY <1>3, <2>1
  <1>5. \A t : /\ RunsNowhere(t) => RunsNowhere(t)'
               /\ t # u /\ RunsOnce(t) => RunsOnce(t)'
               /\ RunsOnce(u) => RunsNowhere(u)'
    BY <1>1, <1>2 DEF RunsNowhere, RunsOnce
  <1>6. \A t \in Task : /\ Waits(pool, t) => Waits(pool', t) \/ Sent(pool', t)
                        /\ Sent(pool, t) => Sent(pool', t)
                        /\ Away(pool, t) => Away(pool', t)
    BY DEF KeepsAll, Keeps
  <1>7. promise[u] = "pending" /\ Runs(u)
    BY <1>1 DEF TasksPlaced, TaskPlaced, InPool, Answered, Nowhere, RunsNowhere
  <1>8. Answered(u)'
    BY <1>4, <1>5, <1>6, <1>7 DEF Runs, Answered, ResponsesOf, Away
  <1>9. ASSUME NEW t \in Task \ {u} PROVE TaskPlaced(t)'
    BY <1>4, <1>5, <1>6 DEF TasksPlaced, TaskPlaced, InPool, Runs, Answered, Nowhere,
                            ResponsesOf, Waits, Sent, Away
  <1> QED BY <1>7, <1>8, <1>9 DEF TasksPlaced, TaskPlaced

(* The pool part of an abort: the queued task leaves its queue, or the      *)
(* worker is told.                                                          *)
LEMMA AbortQueuedPlaces ==
    ASSUME PlaceInv, NEW u \in Task, NEW n \in Node, AbortQueuedTask(u, n)
    PROVE  /\ KeepsOthers(pool, pool', u)
           /\ Waits(pool, u)
           /\ Away(pool', u)
  <1>1. PICK i \in DOMAIN pool.queue[n] :
            /\ pool.queue[n][i] = u
            /\ pool' = [pool EXCEPT !.queue[n] =
                            SubSeq(@, 1, i - 1) \o SubSeq(@, i + 1, Len(@))]
    BY DEF AbortQueuedTask
  <1>2. pool \in PoolState /\ pool.queue \in [Node -> Seq(Task)]
    BY DEF PlaceInv, IInv, TypeOK, PoolState
  <1>3. /\ pool'.queue = [pool.queue EXCEPT ![n] =
                              SubSeq(@, 1, i - 1) \o SubSeq(@, i + 1, Len(@))]
        /\ pool'.port = pool.port
    BY <1>1, <1>2 DEF PoolState
  <1>4. \A E : /\ NowhereIn(pool.queue, E) => NowhereIn(pool'.queue, E) /\ u \notin E
               /\ u \notin E /\ OnceIn(pool.queue, E) => OnceIn(pool'.queue, E)
               /\ u \in E /\ OnceIn(pool.queue, E) => NowhereIn(pool'.queue, E)
    <2>1. Deleted(Task, pool.queue, pool'.queue, n, i, u)
      BY <1>1, <1>2, <1>3 DEF Deleted
    <2> QED BY <2>1, DeleteInFamily
  <1>5. Waits(pool, u)
    <2>1. u \in {u}
      OBVIOUS
    <2>2. ~NowhereIn(pool.queue, {u})
      BY <1>4, <2>1
    <2> QED BY <2>2, TasksPlacedInPool DEF PlaceInv, Placed, Sent, Away
  <1>6. Away(pool', u)
    BY <1>3, <1>4, <1>5 DEF Waits, Away
  <1>7. \A t \in Task \ {u} : Keeps(pool, pool', t)
    BY <1>3, <1>4 DEF Keeps, Waits, Sent, Away
  <1> QED BY <1>5, <1>6, <1>7 DEF KeepsOthers

LEMMA AbortMessagePlaces ==
    ASSUME pool \in PoolState, NEW u \in Task, NEW n \in Node,
           pool' = [pool EXCEPT !.port[n] = Append(@, AbortMessage(u))]
    PROVE  KeepsAll(pool, pool')
  <1> DEFINE x == AbortMessage(u)
  <1>1. /\ pool'.queue = pool.queue
        /\ pool'.port = [pool.port EXCEPT ![n] = Append(@, x)]
        /\ pool.port \in [Node -> Seq(Message)]
    BY DEF PoolState
  <1>2. x \in Message /\ \A t : x \notin {TaskMessage(t)}
    BY DEF AbortMessage, TaskMessage, Message
  <1> HIDE DEF x
  <1>3. \A E : /\ x \notin E /\ NowhereIn(pool.port, E) => NowhereIn(pool'.port, E)
               /\ x \notin E /\ OnceIn(pool.port, E) => OnceIn(pool'.port, E)
    <2>1. Appended(Message, pool.port, pool'.port, n, x)
      BY <1>1, <1>2 DEF Appended
    <2> QED BY <2>1, AppendInFamily
  <1> QED BY <1>1, <1>2, <1>3 DEF KeepsAll, Keeps, Waits, Sent, Away

(* A worker takes a message off its port. *)
LEMMA WorkerMessagePlaces ==
    ASSUME PlaceInv, NEW n \in Node, WorkerMessage(n),
           NEW m, m = Head(pool.port[n])
    PROVE  /\ m \in Message
           /\ m.kind = "task" => /\ m.task \in Task
                                 /\ KeepsOthers(pool, pool', m.task)
                                 /\ Sent(pool, m.task)
                                 /\ Away(pool', m.task)
           /\ m.kind # "task" => KeepsAll(pool, pool')
  <1>1. /\ pool \in PoolState
        /\ pool.port \in [Node -> Seq(Message)]
        /\ pool.port[n] # <<>>
        /\ pool' = [pool EXCEPT !.port[n] = Tail(@)]
    BY DEF PlaceInv, IInv, TypeOK, PoolState, WorkerMessage
  <1>2. /\ pool'.queue = pool.queue
        /\ pool'.port = [pool.port EXCEPT ![n] = Tail(@)]
    BY <1>1 DEF PoolState
  <1>3. m \in Message
    BY <1>1, HeadTail
  <1>4. \A E : /\ NowhereIn(pool.port, E) => NowhereIn(pool'.port, E) /\ m \notin E
               /\ m \notin E /\ OnceIn(pool.port, E) => OnceIn(pool'.port, E)
               /\ m \in E /\ OnceIn(pool.port, E) => NowhereIn(pool'.port, E)
    <2>1. HeadTaken(Message, pool.port, pool'.port, n, m)
      BY <1>1, <1>2 DEF HeadTaken
    <2> QED BY <2>1, TailInFamily
  <1>5. CASE m.kind = "task"
    <2> DEFINE u == m.task
    <2>1. u \in Task /\ m = TaskMessage(u)
      BY <1>3, <1>5 DEF Message, TaskMessage
    <2>2. \A t : m \in {TaskMessage(t)} <=> t = u
      BY <2>1, TaskMessageInjective
    <2> HIDE DEF u
    <2>3. Sent(pool, u)
      BY <1>4, <2>1, <2>2, TasksPlacedInPool DEF PlaceInv, Placed, Waits, Away
    <2>4. Away(pool', u)
      BY <1>2, <1>4, <2>2, <2>3 DEF Sent, Away
    <2>5. \A t \in Task \ {u} : Keeps(pool, pool', t)
      BY <1>2, <1>4, <2>2 DEF Keeps, Waits, Sent, Away
    <2> QED BY <1>3, <1>5, <2>1, <2>3, <2>4, <2>5 DEF KeepsOthers, u
  <1>6. CASE m.kind # "task"
    <2>1. \A t : m \notin {TaskMessage(t)}
      BY <1>6 DEF TaskMessage
    <2>2. KeepsAll(pool, pool')
      BY <1>2, <1>4, <2>1 DEF KeepsAll, Keeps, Waits, Sent, Away
    <2> QED BY <1>3, <1>6, <2>2
  <1> QED BY <1>5, <1>6

(* The response taken off a worker's port is that of a pending task, which  *)
(* is nowhere else: the pool never ignores a response.                      *)
LEMMA ResponseTakenPlaces ==
    ASSUME PlaceInv, NEW n \in Node, TaskExecutionResponse(n)
    PROVE  LET u == Head(fromWorker[n]).task
           IN  /\ u \in Task
               /\ promiseResponseMap[u] \in Node
               /\ promise[u] = "pending"
               /\ Answered(u)
               /\ NowhereIn(fromWorker', ResponsesOf(u))
               /\ \A t \in Task \ {u} :
                     /\ NowhereIn(fromWorker, ResponsesOf(t)) => NowhereIn(fromWorker', ResponsesOf(t))
                     /\ OnceIn(fromWorker, ResponsesOf(t)) => OnceIn(fromWorker', ResponsesOf(t))
  <1> DEFINE m == Head(fromWorker[n])
             u == m.task
  <1>1. /\ fromWorker \in [Node -> Seq(Response)]
        /\ fromWorker[n] # <<>>
        /\ fromWorker' = [fromWorker EXCEPT ![n] = Tail(@)]
    BY DEF PlaceInv, IInv, TypeOK, Response, TaskExecutionResponse
  <1>2. m \in Response /\ u \in Task
    <2>1. m \in Response
      BY <1>1, HeadTail
    <2> QED BY <2>1 DEF Response
  <1>3. \A E : /\ NowhereIn(fromWorker, E) => NowhereIn(fromWorker', E) /\ m \notin E
               /\ m \notin E /\ OnceIn(fromWorker, E) => OnceIn(fromWorker', E)
               /\ m \in E /\ OnceIn(fromWorker, E) => NowhereIn(fromWorker', E)
    <2>1. HeadTaken(Response, fromWorker, fromWorker', n, m)
      BY <1>1 DEF HeadTaken
    <2> QED BY <2>1, TailInFamily
  <1>4. \A t : m \in ResponsesOf(t) <=> t = u
    BY <1>2 DEF ResponsesOf
  <1> HIDE DEF m, u
  <1>5. ~NowhereIn(fromWorker, ResponsesOf(u))
    BY <1>3, <1>4
  <1>6. promise[u] = "pending" /\ Answered(u)
    BY <1>2, <1>5 DEF PlaceInv, TasksPlaced, TaskPlaced, InPool, Runs, Nowhere
  <1>7. promiseResponseMap[u] \in Node
    BY <1>2, <1>6 DEF PlaceInv, IInv, TypeOK, EntryIffPending
  <1>8. OnceIn(fromWorker, ResponsesOf(u))
    BY <1>6 DEF Answered
  <1>9. NowhereIn(fromWorker', ResponsesOf(u))
    BY <1>3, <1>4, <1>8
  <1>10. \A t \in Task \ {u} :
            /\ NowhereIn(fromWorker, ResponsesOf(t)) => NowhereIn(fromWorker', ResponsesOf(t))
            /\ OnceIn(fromWorker, ResponsesOf(t)) => OnceIn(fromWorker', ResponsesOf(t))
    BY <1>3, <1>4
  <1>11. u \in Task
    BY <1>2
  <1>12. Answered(u) /\ promise[u] = "pending"
    BY <1>6
  <1>13. promiseResponseMap[u] \in Node
    BY <1>7
  <1> QED BY <1>11, <1>12, <1>13, <1>9, <1>10 DEF m, u

(* What handleTaskExecutionResponse does with the nodes *)
LEMMA AfterTaskExecutionPlaces ==
    ASSUME NodesOK(pool), Placed(pool), NEW k \in Node, AfterTaskExecution(k)
    PROVE  KeepsAll(pool, pool')
  <1> DEFINE v == Unexecute(pool, k)
             d == IF ~IsBusy(v, k) /\ v.queue[k] # <<>>
                  THEN ExecuteTask(DequeueTask(v, k), k, Head(v.queue[k]))
                  ELSE v
  <1>1. NodesOK(d) /\ KeepsAll(pool, d)
    BY NextQueuedTaskOK, NextQueuedTaskPlaces
  <1>2. IdleEvent(d, k, timers[k]) \/ pool' = d
    BY DEF AfterTaskExecution
  <1> HIDE DEF d
  <1>3. Placed(d)
    BY <1>1 DEF Placed, KeepsAll, Keeps
  <1>4. KeepsAll(d, pool')
    BY <1>1, <1>2, <1>3, IdleEventPlaces, KeepsWhenSame
  <1> QED BY <1>1, <1>4, KeepsTransitive DEF KeepsAll

-----------------------------------------------------------------------------
(* The steps preserve the invariant *)
LEMMA NextPlaceInv == PlaceInv /\ [Next]_vars => PlaceInv'
  <1> SUFFICES ASSUME PlaceInv, [Next]_vars PROVE TasksPlaced'
    BY NextIInv DEF PlaceInv
  <1>0. /\ NodesOK(pool) /\ pool \in PoolState
        /\ TypeOK
        /\ Placed(pool)
        /\ \A t \in Task : TaskPlaced(t)
    BY TasksPlacedInPool DEF PlaceInv, IInv, NodesOK, TasksPlaced
  <1>1. ASSUME NEW u \in Task, NEW n \in Node, Submit(u, n) PROVE TasksPlaced'
    <2>1. /\ promise[u] = "none"
          /\ promise' = [promise EXCEPT ![u] = "pending"]
          /\ pool' \in HandleTask(pool, n, u)
          /\ UNCHANGED <<running, fromWorker>>
      BY <1>1 DEF Submit
    <2>2. Nowhere(u)
      BY <1>0, <2>1 DEF TaskPlaced
    <2>3. KeepsOthers(pool, pool', u) /\ (Waits(pool', u) \/ Sent(pool', u))
      BY <1>0, <2>1, <2>2, HandleTaskPlaces DEF Nowhere
    <2>4. promise'[u] = "pending" /\ \A t \in Task \ {u} : promise'[t] = promise[t]
      BY <1>0, <2>1 DEF TypeOK
    <2>5. TaskPlaced(u)'
      BY <2>1, <2>2, <2>3, <2>4
         DEF TaskPlaced, InPool, Nowhere, RunsNowhere, Waits, Sent, NowhereIn, ResponsesOf
    <2>6. ASSUME NEW t \in Task \ {u} PROVE TaskPlaced(t)'
      BY <1>0, <2>1, <2>3, <2>4, PoolStepPlaces DEF KeepsOthers
    <2> QED BY <2>5, <2>6 DEF TasksPlaced
  <1>2. ASSUME NEW u \in Task, AbortTask(u) PROVE TasksPlaced'
    <2> DEFINE n == promiseResponseMap[u]
    <2>1. n \in Node /\ UNCHANGED <<running, fromWorker>>
      BY <1>0, <1>2 DEF AbortTask, TypeOK
    <2>2. CASE AbortQueuedTask(u, n)
      <3>1. /\ KeepsOthers(pool, pool', u)
            /\ Waits(pool, u)
            /\ Away(pool', u)
        BY <2>1, <2>2, AbortQueuedPlaces
      <3>2. promise'[u] = "rejected" /\ \A t \in Task \ {u} : promise'[t] = promise[t]
        BY <1>0, <2>2 DEF AbortQueuedTask, TypeOK
      <3>3. InPool(u)
        BY <1>0, <3>1, PlaceIsOne DEF TaskPlaced, Runs, Answered, Nowhere
      <3>4. Nowhere(u)'
        BY <2>1, <3>1, <3>3 DEF InPool, Nowhere, RunsNowhere, Away, NowhereIn, ResponsesOf
      <3>5. ASSUME NEW t \in Task \ {u} PROVE TaskPlaced(t)'
        BY <1>0, <2>1, <3>1, <3>2, PoolStepPlaces DEF KeepsOthers
      <3> QED BY <3>2, <3>4, <3>5 DEF TasksPlaced, TaskPlaced
    <2>3. CASE /\ pool' = [pool EXCEPT !.port[n] = Append(@, AbortMessage(u))]
               /\ UNCHANGED promise
      <3>1. KeepsAll(pool, pool')
        BY <1>0, <2>1, <2>3, AbortMessagePlaces
      <3> QED BY <1>0, <2>1, <2>3, <3>1, PoolStepPlaces DEF TasksPlaced, KeepsAll
    <2> QED BY <1>2, <2>2, <2>3 DEF AbortTask
  <1>3. ASSUME NEW n \in Node, WorkerMessage(n) PROVE TasksPlaced'
    <2> DEFINE m == Head(pool.port[n])
    <2>1. /\ m \in Message
          /\ m.kind = "task" => /\ m.task \in Task
                                /\ KeepsOthers(pool, pool', m.task)
                                /\ Sent(pool, m.task)
                                /\ Away(pool', m.task)
          /\ m.kind # "task" => KeepsAll(pool, pool')
      BY <1>3, WorkerMessagePlaces
    <2>2. /\ \/ m.kind = "task" /\ Run(n, m.task)
             \/ m.kind # "task" /\ Respond(n, m.task, "aborted")
             \/ m.kind # "task" /\ UNCHANGED <<running, fromWorker>>
          /\ UNCHANGED promise
      BY <1>3 DEF WorkerMessage
    <2> HIDE DEF m
    <2>3. CASE m.kind = "task" /\ Run(n, m.task)
      <3>0. PICK u \in Task : u = m.task
        BY <2>1, <2>3
      <3>1. /\ running' = [running EXCEPT ![n] = @ \union {u}]
            /\ running \in [Node -> SUBSET Task]
            /\ UNCHANGED <<promise, fromWorker>>
        BY <1>0, <2>2, <2>3, <3>0 DEF Run, TypeOK
      <3>2. /\ KeepsOthers(pool, pool', u)
            /\ Sent(pool, u)
            /\ Away(pool', u)
        BY <2>1, <2>3, <3>0
      <3>3. InPool(u) /\ promise[u] = "pending"
        BY <1>0, <3>1, <3>2, PlaceIsOne DEF TaskPlaced, Runs, Answered, Nowhere
      <3>4. RunsOnce(u)'
        BY <3>1, <3>3 DEF InPool, RunsNowhere, RunsOnce
      <3>5. Runs(u)'
        BY <3>1, <3>2, <3>3, <3>4 DEF InPool, Runs, Away, NowhereIn, ResponsesOf
      <3>6. ASSUME NEW t \in Task \ {u} PROVE TaskPlaced(t)'
        <4>1. (RunsNowhere(t) => RunsNowhere(t)') /\ (RunsOnce(t) => RunsOnce(t)')
          BY <3>1 DEF RunsNowhere, RunsOnce
        <4>2. /\ NowhereIn(fromWorker, ResponsesOf(t)) => NowhereIn(fromWorker, ResponsesOf(t))'
              /\ OnceIn(fromWorker, ResponsesOf(t)) => OnceIn(fromWorker, ResponsesOf(t))'
          BY <3>1 DEF NowhereIn, OnceIn, ResponsesOf
        <4>3. /\ Waits(pool, t) => Waits(pool, t)' \/ Sent(pool, t)'
              /\ Sent(pool, t) => Sent(pool, t)'
              /\ Away(pool, t) => Away(pool, t)'
          BY <3>2 DEF KeepsOthers, Keeps, Waits, Sent, Away
        <4>4. promise'[t] = promise[t] /\ TaskPlaced(t)
          BY <1>0, <3>1
        <4> QED BY <4>1, <4>2, <4>3, <4>4 DEF TaskPlaced, InPool, Runs, Answered, Nowhere
      <3> QED BY <3>1, <3>3, <3>5, <3>6 DEF TasksPlaced, TaskPlaced
    <2>4. CASE m.kind # "task" /\ Respond(n, m.task, "aborted")
      <3>1. m.task \in Task /\ "aborted" \in Status
        BY <2>1 DEF Message, Status
      <3> QED BY <1>0, <2>1, <2>2, <2>4, <3>1, RespondPlaces DEF PlaceInv
    <2>5. CASE m.kind # "task" /\ UNCHANGED <<running, fromWorker>>
      BY <1>0, <2>1, <2>2, <2>5, PoolStepPlaces DEF TasksPlaced, KeepsAll
    <2> QED BY <2>2, <2>3, <2>4, <2>5
  <1>4. ASSUME NEW n \in Node, NEW u \in Task, WorkerFinish(n, u) PROVE TasksPlaced'
    <2>1. PICK status \in {"ok", "error"} : Respond(n, u, status)
      BY <1>4 DEF WorkerFinish
    <2>2. KeepsAll(pool, pool') /\ UNCHANGED promise
      BY <1>4, KeepsWhenSame DEF WorkerFinish
    <2>3. status \in Status
      BY DEF Status
    <2> QED BY <1>0, <2>1, <2>2, <2>3, RespondPlaces DEF PlaceInv
  <1>5. ASSUME NEW n \in Node, TaskExecutionResponse(n) PROVE TasksPlaced'
    <2>0. PICK u \in Task : u = Head(fromWorker[n]).task
      BY <1>5, ResponseTakenPlaces
    <2>1. /\ promiseResponseMap[u] \in Node
          /\ promise[u] = "pending"
          /\ Answered(u)
          /\ NowhereIn(fromWorker', ResponsesOf(u))
          /\ \A t \in Task \ {u} :
                /\ NowhereIn(fromWorker, ResponsesOf(t)) => NowhereIn(fromWorker', ResponsesOf(t))
                /\ OnceIn(fromWorker, ResponsesOf(t)) => OnceIn(fromWorker', ResponsesOf(t))
      BY <1>5, <2>0, ResponseTakenPlaces
    <2>2. promiseResponseMap[u] # NoKey
      BY <2>1 DEF Node, NoKey
    <2>3. /\ AfterTaskExecution(promiseResponseMap[u])
          /\ promise'[u] # "pending"
          /\ \A t \in Task \ {u} : promise'[t] = promise[t]
          /\ UNCHANGED running
      BY <1>0, <1>5, <2>0, <2>1, <2>2 DEF TaskExecutionResponse, TypeOK
    <2>4. KeepsAll(pool, pool')
      BY <1>0, <2>1, <2>3, AfterTaskExecutionPlaces
    <2>5. \A t \in Task : /\ Waits(pool, t) => Waits(pool, t)' \/ Sent(pool, t)'
                          /\ Sent(pool, t) => Sent(pool, t)'
                          /\ Away(pool, t) => Away(pool, t)'
      BY <2>4 DEF KeepsAll, Keeps, Waits, Sent, Away
    <2>6. \A t : (RunsNowhere(t) => RunsNowhere(t)') /\ (RunsOnce(t) => RunsOnce(t)')
      BY <2>3 DEF RunsNowhere, RunsOnce
    <2>7. Nowhere(u)'
      BY <2>1, <2>5, <2>6 DEF Answered, Nowhere, NowhereIn, ResponsesOf
    <2>8. ASSUME NEW t \in Task \ {u} PROVE TaskPlaced(t)'
      <3>1. /\ NowhereIn(fromWorker, ResponsesOf(t)) => NowhereIn(fromWorker, ResponsesOf(t))'
            /\ OnceIn(fromWorker, ResponsesOf(t)) => OnceIn(fromWorker, ResponsesOf(t))'
        BY <2>1 DEF ResponsesOf
      <3>2. promise'[t] = promise[t] /\ TaskPlaced(t)
        BY <1>0, <2>3
      <3> QED BY <2>5, <2>6, <3>1, <3>2 DEF TaskPlaced, InPool, Runs, Answered, Nowhere
    <2> QED BY <2>1, <2>3, <2>7, <2>8 DEF TasksPlaced, TaskPlaced
  <1>6. ASSUME NEW n \in Node, StealingLoop(n) PROVE TasksPlaced'
    <2>1. /\ IdleEvent(pool, n, timers[n] - 1)
          /\ UNCHANGED <<promise, running, fromWorker>>
      BY <1>6 DEF StealingLoop
    <2>2. KeepsAll(pool, pool')
      BY <1>0, <2>1, IdleEventPlaces
    <2> QED BY <1>0, <2>1, <2>2, PoolStepPlaces DEF TasksPlaced, KeepsAll
  <1>7. CASE UNCHANGED vars
    <2>1. KeepsAll(pool, pool') /\ UNCHANGED <<promise, running, fromWorker>>
      BY <1>7, KeepsWhenSame DEF vars
    <2> QED BY <1>0, <2>1, PoolStepPlaces DEF TasksPlaced, KeepsAll
  <1> QED BY <1>1, <1>2, <1>3, <1>4, <1>5, <1>6, <1>7 DEF Next

(* The inductive invariant of this module: in every reachable state each    *)
(* task has its one place, in the queue, port, worker or response, and the  *)
(* invariant of single nodes holds.                                         *)
THEOREM PlaceInvariance == Spec => []PlaceInv
  BY InitPlaceInv, NextPlaceInv, PTL DEF Spec

-----------------------------------------------------------------------------
(* From occurrences to the places of OnePlace *)
LEMMA PlacesAre ==
    ASSUME NEW t, NEW x
    PROVE  x \in Places(t) <=>
               \E n \in Node :
                  \/ \E i \in QueuePlaces(t, n) : x = <<<<"queue", n>>, i>>
                  \/ \E i \in PortPlaces(t, n) : x = <<<<"port", n>>, i>>
                  \/ t \in running[n] /\ x = <<<<"running", n>>, 0>>
                  \/ \E i \in ResponsePlaces(t, n) : x = <<<<"response", n>>, i>>
  <1>1. ASSUME NEW s, NEW Q
        PROVE  x \in {s} \X Q <=> \E i \in Q : x = <<s, i>>
    OBVIOUS
  <1> DEFINE Q == UNION {{<<"queue", n>>} \X QueuePlaces(t, n) : n \in Node}
             P == UNION {{<<"port", n>>} \X PortPlaces(t, n) : n \in Node}
             R == {<<"running", n>> : n \in {m \in Node : t \in running[m]}} \X {0}
             W == UNION {{<<"response", n>>} \X ResponsePlaces(t, n) : n \in Node}
  <1>2. x \in Q <=> \E n \in Node : \E i \in QueuePlaces(t, n) : x = <<<<"queue", n>>, i>>
    BY <1>1
  <1>3. x \in P <=> \E n \in Node : \E i \in PortPlaces(t, n) : x = <<<<"port", n>>, i>>
    BY <1>1
  <1>4. x \in W <=> \E n \in Node : \E i \in ResponsePlaces(t, n) : x = <<<<"response", n>>, i>>
    BY <1>1
  <1>5. x \in R <=> \E n \in Node : t \in running[n] /\ x = <<<<"running", n>>, 0>>
    OBVIOUS
  <1>6. Places(t) = Q \union P \union R \union W
    BY DEF Places
  <1> HIDE DEF Q, P, R, W
  <1> QED BY <1>2, <1>3, <1>4, <1>5, <1>6

(* What an occurrence count says of the indices of a task *)
LEMMA NoIndices ==
    ASSUME NEW t \in Task
    PROVE  /\ NowhereIn(pool.queue, {t}) => \A n \in Node : QueuePlaces(t, n) = {}
           /\ NowhereIn(pool.port, {TaskMessage(t)}) => \A n \in Node : PortPlaces(t, n) = {}
           /\ TypeOK /\ NowhereIn(fromWorker, ResponsesOf(t))
                  => \A n \in Node : ResponsePlaces(t, n) = {}
  <1>1. NowhereIn(pool.queue, {t}) => \A n \in Node : QueuePlaces(t, n) = {}
    BY DEF NowhereIn, Absent, QueuePlaces
  <1>2. NowhereIn(pool.port, {TaskMessage(t)}) => \A n \in Node : PortPlaces(t, n) = {}
    BY DEF NowhereIn, Absent, PortPlaces
  <1>3. ASSUME TypeOK
        PROVE  \A n \in Node : \A i \in DOMAIN fromWorker[n] : fromWorker[n][i] \in Response
    <2>1. fromWorker \in [Node -> Seq(Response)]
      BY <1>3 DEF TypeOK, Response
    <2> QED BY <2>1
  <1>4. ASSUME TypeOK, NowhereIn(fromWorker, ResponsesOf(t)), NEW n \in Node
        PROVE  ResponsePlaces(t, n) = {}
    BY <1>3, <1>4 DEF NowhereIn, Absent, ResponsePlaces, ResponsesOf
  <1> QED BY <1>1, <1>2, <1>4

LEMMA OneIndex ==
    ASSUME NEW t \in Task
    PROVE  /\ OnceIn(pool.queue, {t}) =>
                  \E n \in Node : /\ \E i : QueuePlaces(t, n) = {i}
                                  /\ \A m \in Node \ {n} : QueuePlaces(t, m) = {}
           /\ OnceIn(pool.port, {TaskMessage(t)}) =>
                  \E n \in Node : /\ \E i : PortPlaces(t, n) = {i}
                                  /\ \A m \in Node \ {n} : PortPlaces(t, m) = {}
           /\ TypeOK /\ OnceIn(fromWorker, ResponsesOf(t)) =>
                  \E n \in Node : /\ \E i : ResponsePlaces(t, n) = {i}
                                  /\ \A m \in Node \ {n} : ResponsePlaces(t, m) = {}
  <1>1. ASSUME OnceIn(pool.queue, {t})
        PROVE  \E n \in Node : /\ \E i : QueuePlaces(t, n) = {i}
                               /\ \A m \in Node \ {n} : QueuePlaces(t, m) = {}
    <2>1. PICK n \in Node : /\ Once(pool.queue[n], {t})
                            /\ \A m \in Node \ {n} : Absent(pool.queue[m], {t})
      BY <1>1 DEF OnceIn
    <2>2. \E i : QueuePlaces(t, n) = {i}
      BY <2>1 DEF Once, QueuePlaces
    <2>3. \A m \in Node \ {n} : QueuePlaces(t, m) = {}
      BY <2>1 DEF Absent, QueuePlaces
    <2> QED BY <2>2, <2>3
  <1>2. ASSUME OnceIn(pool.port, {TaskMessage(t)})
        PROVE  \E n \in Node : /\ \E i : PortPlaces(t, n) = {i}
                               /\ \A m \in Node \ {n} : PortPlaces(t, m) = {}
    <2>1. PICK n \in Node : /\ Once(pool.port[n], {TaskMessage(t)})
                            /\ \A m \in Node \ {n} : Absent(pool.port[m], {TaskMessage(t)})
      BY <1>2 DEF OnceIn
    <2>2. \E i : PortPlaces(t, n) = {i}
      BY <2>1 DEF Once, PortPlaces
    <2>3. \A m \in Node \ {n} : PortPlaces(t, m) = {}
      BY <2>1 DEF Absent, PortPlaces
    <2> QED BY <2>2, <2>3
  <1>3. ASSUME TypeOK, OnceIn(fromWorker, ResponsesOf(t))
        PROVE  \E n \in Node : /\ \E i : ResponsePlaces(t, n) = {i}
                               /\ \A m \in Node \ {n} : ResponsePlaces(t, m) = {}
    <2>1. PICK n \in Node : /\ Once(fromWorker[n], ResponsesOf(t))
                            /\ \A m \in Node \ {n} : Absent(fromWorker[m], ResponsesOf(t))
      BY <1>3 DEF OnceIn
    <2>2. \A m \in Node : \A i \in DOMAIN fromWorker[m] :
              fromWorker[m][i] \in ResponsesOf(t) <=> fromWorker[m][i].task = t
      <3>1. fromWorker \in [Node -> Seq(Response)]
        BY <1>3 DEF TypeOK, Response
      <3>2. \A m \in Node : \A i \in DOMAIN fromWorker[m] : fromWorker[m][i] \in Response
        BY <3>1
      <3> QED BY <3>2 DEF ResponsesOf
    <2>3. \E i : ResponsePlaces(t, n) = {i}
      <3>1. PICK i \in DOMAIN fromWorker[n] :
                 /\ fromWorker[n][i] \in ResponsesOf(t)
                 /\ \A j \in DOMAIN fromWorker[n] \ {i} : fromWorker[n][j] \notin ResponsesOf(t)
        BY <2>1 DEF Once
      <3>2. ResponsePlaces(t, n) = {i}
        BY <2>2, <3>1 DEF ResponsePlaces
      <3> QED BY <3>2
    <2>4. \A m \in Node \ {n} : ResponsePlaces(t, m) = {}
      BY <2>1, <2>2 DEF Absent, ResponsePlaces
    <2> QED BY <2>3, <2>4
  <1> QED BY <1>1, <1>2, <1>3

LEMMA PlaceInvOnePlace == PlaceInv => OnePlace
  <1> SUFFICES ASSUME PlaceInv, NEW t \in Task
               PROVE  IF promise[t] = "pending" THEN \E p \in Places(t) : Places(t) = {p}
                                                ELSE Places(t) = {}
    BY DEF OnePlace
  <1>1. TaskPlaced(t) /\ TypeOK
    BY DEF PlaceInv, IInv, TasksPlaced
  <1>2. \A x : x \in Places(t) <=>
            \E n \in Node :
               \/ \E i \in QueuePlaces(t, n) : x = <<<<"queue", n>>, i>>
               \/ \E i \in PortPlaces(t, n) : x = <<<<"port", n>>, i>>
               \/ t \in running[n] /\ x = <<<<"running", n>>, 0>>
               \/ \E i \in ResponsePlaces(t, n) : x = <<<<"response", n>>, i>>
    BY PlacesAre
  <1> SUFFICES IF promise[t] = "pending" THEN \E p : \A x : x \in Places(t) <=> x = p
                                         ELSE \A x : x \notin Places(t)
    OBVIOUS
  <1>3. CASE Waits(pool, t) /\ InPool(t)
    <2>0. PICK n \in Node : /\ \E i : QueuePlaces(t, n) = {i}
                            /\ \A m \in Node \ {n} : QueuePlaces(t, m) = {}
      BY <1>3, OneIndex DEF Waits
    <2>1. PICK i : QueuePlaces(t, n) = {i} /\ \A m \in Node \ {n} : QueuePlaces(t, m) = {}
      BY <2>0
    <2>2. \A m \in Node : PortPlaces(t, m) = {} /\ t \notin running[m] /\ ResponsePlaces(t, m) = {}
      BY <1>1, <1>3, NoIndices DEF Waits, InPool, RunsNowhere
    <2> DEFINE p == <<<<"queue", n>>, i>>
    <2>3. \A x : x \in Places(t) <=> x = p
      BY <1>2, <2>1, <2>2
    <2> HIDE DEF p
    <2>4. promise[t] = "pending"
      BY <1>1, <1>3, PlaceIsOne DEF TaskPlaced, Nowhere
    <2> QED BY <2>3, <2>4
  <1>4. CASE Sent(pool, t) /\ InPool(t)
    <2>0. PICK n \in Node : /\ \E i : PortPlaces(t, n) = {i}
                            /\ \A m \in Node \ {n} : PortPlaces(t, m) = {}
      BY <1>4, OneIndex DEF Sent
    <2>1. PICK i : PortPlaces(t, n) = {i} /\ \A m \in Node \ {n} : PortPlaces(t, m) = {}
      BY <2>0
    <2>2. \A m \in Node : QueuePlaces(t, m) = {} /\ t \notin running[m] /\ ResponsePlaces(t, m) = {}
      BY <1>1, <1>4, NoIndices DEF Sent, InPool, RunsNowhere
    <2> DEFINE p == <<<<"port", n>>, i>>
    <2>3. \A x : x \in Places(t) <=> x = p
      BY <1>2, <2>1, <2>2
    <2> HIDE DEF p
    <2>4. promise[t] = "pending"
      BY <1>1, <1>4, PlaceIsOne DEF TaskPlaced, Nowhere
    <2> QED BY <2>3, <2>4
  <1>5. CASE Runs(t)
    <2>1. PICK n \in Node : t \in running[n] /\ \A m \in Node \ {n} : t \notin running[m]
      BY <1>5 DEF Runs, RunsOnce
    <2>2. \A m \in Node : QueuePlaces(t, m) = {} /\ PortPlaces(t, m) = {} /\ ResponsePlaces(t, m) = {}
      BY <1>1, <1>5, NoIndices DEF Runs, Away
    <2> DEFINE p == <<<<"running", n>>, 0>>
    <2>3. \A x : x \in Places(t) <=> x = p
      BY <1>2, <2>1, <2>2
    <2> HIDE DEF p
    <2>4. promise[t] = "pending"
      BY <1>1, <2>1 DEF TaskPlaced, Nowhere, RunsNowhere
    <2> QED BY <2>3, <2>4
  <1>6. CASE Answered(t)
    <2>0. PICK n \in Node : /\ \E i : ResponsePlaces(t, n) = {i}
                            /\ \A m \in Node \ {n} : ResponsePlaces(t, m) = {}
      BY <1>1, <1>6, OneIndex DEF Answered
    <2>1. PICK i : ResponsePlaces(t, n) = {i} /\ \A m \in Node \ {n} : ResponsePlaces(t, m) = {}
      BY <2>0
    <2>2. \A m \in Node : QueuePlaces(t, m) = {} /\ PortPlaces(t, m) = {} /\ t \notin running[m]
      BY <1>1, <1>6, NoIndices DEF Answered, Away, RunsNowhere
    <2> DEFINE p == <<<<"response", n>>, i>>
    <2>3. \A x : x \in Places(t) <=> x = p
      BY <1>2, <2>1, <2>2
    <2> HIDE DEF p
    <2>4. promise[t] = "pending"
      BY <1>1, <2>1, NoIndices DEF TaskPlaced, Nowhere
    <2> QED BY <2>3, <2>4
  <1>7. CASE promise[t] # "pending"
    <2>1. Nowhere(t)
      BY <1>1, <1>7 DEF TaskPlaced
    <2>2. \A m \in Node : /\ QueuePlaces(t, m) = {} /\ PortPlaces(t, m) = {}
                          /\ t \notin running[m] /\ ResponsePlaces(t, m) = {}
      BY <1>1, <2>1, NoIndices DEF Nowhere, Away, RunsNowhere
    <2> QED BY <1>2, <1>7, <2>2
  <1> QED BY <1>1, <1>3, <1>4, <1>5, <1>6, <1>7 DEF TaskPlaced, InPool

(* No task is lost, duplicated or run after it was settled, for any number  *)
(* of workers and tasks, with and without stealing and redistribution.      *)
THEOREM TasksHaveOnePlace == Spec => []OnePlace
  BY PlaceInvariance, PlaceInvOnePlace, PTL

-----------------------------------------------------------------------------
(* Implementation of TaskLifecycle *)

(* The state of a task in TaskLifecycle *)
LifeIsPlace ==
    \A t \in Task :
        /\ Queued(t) <=> Waits(pool, t)
        /\ promise[t] = "none" => life[t] = "new"
        /\ promise[t] \in Settled => life[t] = promise[t]
        /\ promise[t] = "pending" /\ Waits(pool, t) => life[t] = "waiting"
        /\ promise[t] = "pending" /\ ~Waits(pool, t) => life[t] = "dispatched"

LEMMA LifePlace == PlaceInv => LifeIsPlace
  <1> SUFFICES ASSUME PlaceInv, NEW t \in Task
               PROVE  Queued(t) <=> Waits(pool, t)
    BY DEF LifeIsPlace, life, Settled
  <1>1. TaskPlaced(t)
    BY DEF PlaceInv, TasksPlaced
  <1>2. CASE Waits(pool, t)
    BY <1>2, OneIndex DEF Waits, Queued
  <1>3. CASE ~Waits(pool, t)
    <2>1. NowhereIn(pool.queue, {t})
      BY <1>1, <1>3 DEF TaskPlaced, InPool, Runs, Answered, Nowhere, Sent, Away
    <2> QED BY <1>3, <2>1, NoIndices DEF Queued
  <1> QED BY <1>2, <1>3

LEMMA LifePlaceNext == PlaceInv' => LifeIsPlace'
  BY LifePlace, PTL

(* A step that gives u a new state, and does with the others what the       *)
(* operations on the nodes do, dispatches some of them.                     *)
LEMMA LifeMoves ==
    ASSUME LifeIsPlace, LifeIsPlace', NEW u \in Task, KeepsOthers(pool, pool', u),
           TypeOK, Placed(pool),
           \A t \in Task \ {u} : promise'[t] = promise[t]
    PROVE  \E D \in SUBSET Lifecycle!Waiting :
               /\ u \notin D
               /\ Lifecycle!Move(u, life'[u], D)
  <1> DEFINE D == {t \in Task \ {u} : life[t] = "waiting" /\ life'[t] = "dispatched"}
  <1>1. D \in SUBSET Lifecycle!Waiting
    BY DEF Lifecycle!Waiting
  <1>2. ASSUME NEW t \in Task \ {u} PROVE life'[t] = life[t] \/ t \in D
    <2>1. CASE promise[t] = "pending"
      <3>1. /\ Waits(pool, t) => Waits(pool, t)' \/ Sent(pool, t)'
            /\ ~Waits(pool, t) => ~Waits(pool, t)'
        BY PlaceIsOne DEF KeepsOthers, Keeps, Placed, Waits, Sent, Away
      <3> QED BY <2>1, <3>1 DEF LifeIsPlace
    <2>2. CASE promise[t] # "pending"
      BY <2>2 DEF LifeIsPlace, TypeOK
    <2> QED BY <2>1, <2>2
  <1>3. life' = [t \in Task |-> life'[t]]
    BY DEF life
  <1>4. Lifecycle!Move(u, life'[u], D)
    BY <1>2, <1>3 DEF Lifecycle!Move
  <1> QED BY <1>1, <1>4

(* A step that moves no task between the queues and settles no promise is   *)
(* none of TaskLifecycle.                                                   *)
LEMMA LifeStutters ==
    ASSUME LifeIsPlace, LifeIsPlace', pool'.queue = pool.queue, UNCHANGED promise
    PROVE  life' = life
  <1>1. \A t : Queued(t)' <=> Queued(t)
    BY DEF Queued, QueuePlaces
  <1> QED BY <1>1 DEF life

LEMMA InitLife == Init => Lifecycle!Init
  BY DEF Init, Lifecycle!Init, life

LEMMA NextLife == PlaceInv /\ PlaceInv' /\ [Next]_vars => [Lifecycle!Next]_life
  <1> SUFFICES ASSUME PlaceInv, PlaceInv', [Next]_vars
               PROVE  Lifecycle!Next \/ life' = life
    OBVIOUS
  <1>0. /\ NodesOK(pool)
        /\ pool \in PoolState
        /\ TypeOK
        /\ Placed(pool)
        /\ \A t \in Task : TaskPlaced(t)
        /\ LifeIsPlace /\ LifeIsPlace'
        /\ TypeOK'
    BY TasksPlacedInPool, LifePlace, LifePlaceNext DEF PlaceInv, IInv, NodesOK, TasksPlaced
  <1>1. ASSUME NEW u \in Task, NEW n \in Node, Submit(u, n) PROVE Lifecycle!Next
    <2>1. /\ promise[u] = "none"
          /\ promise' = [promise EXCEPT ![u] = "pending"]
          /\ pool' \in HandleTask(pool, n, u)
      BY <1>1 DEF Submit
    <2>2. Nowhere(u) /\ life[u] = "new"
      BY <1>0, <2>1 DEF TaskPlaced, LifeIsPlace
    <2>3. KeepsOthers(pool, pool', u)
      BY <1>0, <2>1, <2>2, HandleTaskPlaces DEF Nowhere
    <2>4. promise'[u] = "pending" /\ \A t \in Task \ {u} : promise'[t] = promise[t]
      BY <1>0, <2>1 DEF TypeOK
    <2>5. PICK D \in SUBSET Lifecycle!Waiting : Lifecycle!Move(u, life'[u], D)
      BY <1>0, <2>3, <2>4, LifeMoves
    <2>6. life'[u] \in {"waiting", "dispatched"}
      BY <1>0, <2>4 DEF LifeIsPlace
    <2>7. Lifecycle!Accept(u, D)
      BY <2>2, <2>5, <2>6 DEF Lifecycle!Accept
    <2> QED BY <2>5, <2>7 DEF Lifecycle!Next
  <1>2. ASSUME NEW u \in Task, AbortTask(u) PROVE Lifecycle!Next \/ life' = life
    <2> DEFINE n == promiseResponseMap[u]
    <2>1. n \in Node
      BY <1>0, <1>2 DEF AbortTask, TypeOK
    <2>2. CASE AbortQueuedTask(u, n)
      <3>1. /\ KeepsOthers(pool, pool', u)
            /\ Waits(pool, u)
        BY <2>1, <2>2, AbortQueuedPlaces
      <3>2. promise'[u] = "rejected" /\ \A t \in Task \ {u} : promise'[t] = promise[t]
        BY <1>0, <2>2 DEF AbortQueuedTask, TypeOK
      <3>3. life[u] = "waiting" /\ life'[u] = "rejected"
        <4>1. promise[u] = "pending"
          BY <1>0, <3>1, PlaceIsOne DEF TaskPlaced, Nowhere
        <4> QED BY <1>0, <3>1, <3>2, <4>1 DEF LifeIsPlace, Settled
      <3>4. pool'.port = pool.port
        BY <1>0, <2>2 DEF AbortQueuedTask, PoolState
      <3>5. ASSUME NEW t \in Task \ {u} PROVE life'[t] = life[t]
        <4>1. promise'[t] = promise[t]
          BY <3>2
        <4>2. Waits(pool, t)' <=> Waits(pool, t)
          BY <1>0, <3>1, <3>4, PlaceIsOne DEF KeepsOthers, Keeps, Placed, Waits, Sent, Away
        <4>3. Queued(t)' <=> Queued(t)
          BY <1>0, <4>2 DEF LifeIsPlace
        <4> QED BY <4>1, <4>3 DEF life
      <3>6. Lifecycle!Move(u, "rejected", {})
        <4>1. life' = [t \in Task |-> life'[t]]
          BY DEF life
        <4> QED BY <3>3, <3>5, <4>1 DEF Lifecycle!Move
      <3> QED BY <3>3, <3>6 DEF Lifecycle!Next, Lifecycle!Cancel
    <2>3. CASE /\ pool' = [pool EXCEPT !.port[n] = Append(@, AbortMessage(u))]
               /\ UNCHANGED promise
      <3>1. pool'.queue = pool.queue
        BY <1>0, <2>3 DEF PoolState
      <3> QED BY <1>0, <2>3, <3>1, LifeStutters
    <2> QED BY <1>2, <2>2, <2>3 DEF AbortTask
  <1>3. ASSUME NEW n \in Node, WorkerMessage(n) PROVE life' = life
    <2>1. pool'.queue = pool.queue /\ UNCHANGED promise
      BY <1>0, <1>3 DEF WorkerMessage, PoolState
    <2> QED BY <1>0, <2>1, LifeStutters
  <1>4. ASSUME NEW n \in Node, NEW u \in Task, WorkerFinish(n, u) PROVE life' = life
    BY <1>0, <1>4, LifeStutters DEF WorkerFinish
  <1>5. ASSUME NEW n \in Node, TaskExecutionResponse(n) PROVE Lifecycle!Next
    <2>0. PICK u \in Task : u = Head(fromWorker[n]).task
      BY <1>5, ResponseTakenPlaces
    <2>1. /\ promiseResponseMap[u] \in Node
          /\ promise[u] = "pending"
          /\ Answered(u)
      BY <1>5, <2>0, ResponseTakenPlaces
    <2>2. promiseResponseMap[u] # NoKey
      BY <2>1 DEF Node, NoKey
    <2>3. /\ AfterTaskExecution(promiseResponseMap[u])
          /\ promise'[u] \in Settled
          /\ \A t \in Task \ {u} : promise'[t] = promise[t]
      BY <1>0, <1>5, <2>0, <2>1, <2>2 DEF TaskExecutionResponse, TypeOK, Settled
    <2>4. KeepsOthers(pool, pool', u)
      BY <1>0, <2>1, <2>3, AfterTaskExecutionPlaces DEF KeepsAll, KeepsOthers
    <2>5. PICK D \in SUBSET Lifecycle!Waiting : Lifecycle!Move(u, life'[u], D)
      BY <1>0, <2>3, <2>4, LifeMoves
    <2>6. life[u] = "dispatched"
      BY <1>0, <2>1, PlaceIsOne DEF LifeIsPlace, Answered
    <2>7. life'[u] \in {"resolved", "rejected"}
      BY <1>0, <2>3 DEF LifeIsPlace, Settled
    <2>8. Lifecycle!Settle(u, D)
      BY <2>5, <2>6, <2>7 DEF Lifecycle!Settle
    <2> QED BY <2>5, <2>8 DEF Lifecycle!Next
  <1>6. ASSUME NEW n \in Node, StealingLoop(n) PROVE Lifecycle!Next \/ life' = life
    <2>1. IdleEvent(pool, n, timers[n] - 1) /\ UNCHANGED promise
      BY <1>6 DEF StealingLoop
    <2>2. KeepsAll(pool, pool')
      BY <1>0, <2>1, IdleEventPlaces
    <2>3. CASE \E u \in Task : life'[u] # life[u]
      <3>1. PICK u \in Task : life'[u] # life[u]
        BY <2>3
      <3>2. PICK D \in SUBSET Lifecycle!Waiting : Lifecycle!Move(u, life'[u], D)
        BY <1>0, <2>1, <2>2, LifeMoves DEF KeepsAll, KeepsOthers
      <3>3. life[u] = "waiting" /\ life'[u] = "dispatched"
        <4>1. promise'[u] = promise[u] /\ promise[u] = "pending"
          BY <1>0, <2>1, <3>1 DEF LifeIsPlace, TypeOK
        <4>2. ~Waits(pool, u) => ~Waits(pool, u)'
          BY <1>0, <2>2, PlaceIsOne DEF KeepsAll, Keeps, Placed, Waits, Sent, Away
        <4> QED BY <1>0, <3>1, <4>1, <4>2 DEF LifeIsPlace
      <3> DEFINE E == D \union {u}
      <3>4. E \in SUBSET Lifecycle!Waiting
        BY <3>2, <3>3 DEF Lifecycle!Waiting
      <3>5. Lifecycle!Dispatch(u, E)
        BY <3>2, <3>3 DEF Lifecycle!Dispatch, Lifecycle!Move
      <3> QED BY <3>4, <3>5 DEF Lifecycle!Next
    <2>4. CASE \A u \in Task : life'[u] = life[u]
      <3>1. life = [t \in Task |-> life[t]] /\ life' = [t \in Task |-> life'[t]]
        BY DEF life
      <3> QED BY <2>4, <3>1
    <2> QED BY <2>3, <2>4
  <1>7. CASE UNCHANGED vars
    BY <1>0, <1>7, LifeStutters DEF vars
  <1> QED BY <1>1, <1>2, <1>3, <1>4, <1>5, <1>6, <1>7 DEF Next

(* The pool implements TaskLifecycle: a task is dispatched once, never goes *)
(* back to a queue, and settles by a worker's answer or by its abort while  *)
(* it waits.                                                                *)
THEOREM ImplementsLifecycle == Spec => LifecycleSpec
  BY InitLife, NextLife, PlaceInvariance, PTL DEF Spec, LifecycleSpec, Lifecycle!Spec

-----------------------------------------------------------------------------
(* How many tasks the pool knows of.  A task that waits counts for one, a   *)
(* unit of a counter for another: operations turn the first into the second *)
(* and lose neither.                                                        *)
Slots(s) == UNION {{n} \X (1..s.executing[n]) : n \in Node}

Waiting(s) == {t \in Task : Waits(s, t)}

Load(s) == Cardinality(Slots(s)) + Cardinality(Waiting(s))

(* r counts d more than s, or still more *)
Gains(s, r, d) ==
    IsFiniteSet(Waiting(s)) => IsFiniteSet(Waiting(r)) /\ Load(r) >= Load(s) + d

LEMMA NodeFinite == IsFiniteSet(Node)
  <1>1. 1 \in Int /\ N \in Int
    BY PoolAssumption
  <1> QED BY <1>1, FS_Interval DEF Node

LEMMA SlotsAre ==
    ASSUME NEW s, s.executing \in [Node -> Nat]
    PROVE  /\ IsFiniteSet(Slots(s)) /\ Cardinality(Slots(s)) \in Nat
           /\ \A n, i : <<n, i>> \in Slots(s) <=> n \in Node /\ i \in 1..s.executing[n]
           /\ \A e \in Slots(s) : e = <<e[1], e[2]>>
  <1> DEFINE F == {{n} \X (1..s.executing[n]) : n \in Node}
             f == [n \in Node |-> {n} \X (1..s.executing[n])]
  <1>1. \A n \in Node : IsFiniteSet({n} \X (1..s.executing[n]))
    <2> SUFFICES ASSUME NEW n \in Node PROVE IsFiniteSet({n} \X (1..s.executing[n]))
      OBVIOUS
    <2>1. 1 \in Int /\ s.executing[n] \in Int
      OBVIOUS
    <2>2. IsFiniteSet(1..s.executing[n]) /\ IsFiniteSet({n})
      BY <2>1, FS_Interval, FS_Singleton
    <2> QED BY <2>2, FS_Product
  <1>2. IsFiniteSet(F)
    <2>1. f \in Surjection(Node, F)
      BY DEF Surjection
    <2> QED BY <2>1, NodeFinite, FS_Surjection
  <1>3. IsFiniteSet(UNION F)
    BY <1>1, <1>2, FS_UNION
  <1>4. IsFiniteSet(Slots(s)) /\ Cardinality(Slots(s)) \in Nat
    BY <1>3, FS_CardinalityType DEF Slots
  <1>5. \A n, i : <<n, i>> \in Slots(s) <=> n \in Node /\ i \in 1..s.executing[n]
    BY DEF Slots
  <1>6. \A e \in Slots(s) : e = <<e[1], e[2]>>
    BY DEF Slots
  <1> QED BY <1>4, <1>5, <1>6

(* The next unit of the counter of a node, and the last one *)
LEMMA SlotAdded ==
    ASSUME NEW s, s.executing \in [Node -> Nat], NEW r, NEW n \in Node,
           r.executing = [s.executing EXCEPT ![n] = @ + 1]
    PROVE  Cardinality(Slots(r)) = Cardinality(Slots(s)) + 1
  <1> DEFINE k == s.executing[n]
             x == <<n, k + 1>>
  <1>1. /\ k \in Nat /\ r.executing \in [Node -> Nat] /\ r.executing[n] = k + 1
        /\ \A m \in Node \ {n} : r.executing[m] = s.executing[m]
    OBVIOUS
  <1>2. x \notin Slots(s)
    BY <1>1, SlotsAre
  <1> HIDE DEF k
  <1>3. \A m, i : <<m, i>> \in Slots(r) <=> <<m, i>> \in Slots(s) \/ (m = n /\ i = k + 1)
    <2> SUFFICES ASSUME NEW m, NEW i
                 PROVE  <<m, i>> \in Slots(r) <=> <<m, i>> \in Slots(s) \/ (m = n /\ i = k + 1)
      OBVIOUS
    <2>1. /\ <<m, i>> \in Slots(r) <=> m \in Node /\ i \in 1..r.executing[m]
          /\ <<m, i>> \in Slots(s) <=> m \in Node /\ i \in 1..s.executing[m]
      BY <1>1, SlotsAre
    <2>2. CASE m = n
      BY <1>1, <2>1, <2>2 DEF k
    <2>3. CASE m # n
      BY <1>1, <2>1, <2>3
    <2> QED BY <2>2, <2>3
  <1>4. Slots(r) = Slots(s) \union {x}
    <2>1. ASSUME NEW e \in Slots(r) PROVE e \in Slots(s) \union {x}
      BY <1>1, <1>3, <2>1, SlotsAre
    <2>2. ASSUME NEW e \in Slots(s) \union {x} PROVE e \in Slots(r)
      BY <1>3, <2>2, SlotsAre
    <2> QED BY <2>1, <2>2
  <1> HIDE DEF x
  <1> QED BY <1>2, <1>4, SlotsAre, FS_AddElement

LEMMA SlotTaken ==
    ASSUME NEW s, s.executing \in [Node -> Nat], NEW r, NEW n \in Node,
           r.executing = [s.executing EXCEPT ![n] = IF @ > 0 THEN @ - 1 ELSE @]
    PROVE  Cardinality(Slots(r)) >= Cardinality(Slots(s)) - 1
  <1>1. CASE s.executing[n] > 0
    <2>1. /\ r.executing \in [Node -> Nat]
          /\ s.executing = [r.executing EXCEPT ![n] = @ + 1]
      BY <1>1
    <2>2. Cardinality(Slots(s)) = Cardinality(Slots(r)) + 1 /\ Cardinality(Slots(r)) \in Nat
      BY <2>1, SlotAdded, SlotsAre
    <2> QED BY <2>2
  <1>2. CASE ~(s.executing[n] > 0)
    <2>1. r.executing = s.executing
      BY <1>2
    <2>2. Slots(r) = Slots(s)
      BY <2>1 DEF Slots
    <2>3. Cardinality(Slots(s)) \in Nat
      BY SlotsAre
    <2> QED BY <2>2, <2>3
  <1> QED BY <1>1, <1>2

LEMMA GainsWhenSame ==
    ASSUME NEW s, NEW r, s.executing \in [Node -> Nat], r.executing = s.executing,
           \A t \in Task : Waits(s, t) <=> Waits(r, t)
    PROVE  Gains(s, r, 0)
  <1>1. Slots(r) = Slots(s) /\ Waiting(r) = Waiting(s)
    BY DEF Slots, Waiting
  <1>2. Cardinality(Slots(s)) \in Nat
    BY SlotsAre
  <1> SUFFICES ASSUME IsFiniteSet(Waiting(s)) PROVE Load(r) >= Load(s) + 0
    BY <1>1 DEF Gains
  <1>3. Cardinality(Waiting(s)) \in Nat
    BY FS_CardinalityType
  <1> QED BY <1>1, <1>2, <1>3 DEF Load

LEMMA GainsTransitive ==
    ASSUME NEW s, NEW q, NEW r, NEW a \in Int, NEW b \in Int, Gains(s, q, a), Gains(q, r, b),
           s.executing \in [Node -> Nat], q.executing \in [Node -> Nat],
           r.executing \in [Node -> Nat]
    PROVE  Gains(s, r, a + b)
  <1> SUFFICES ASSUME IsFiniteSet(Waiting(s))
               PROVE  IsFiniteSet(Waiting(r)) /\ Load(r) >= Load(s) + (a + b)
    BY DEF Gains
  <1>1. /\ IsFiniteSet(Waiting(q)) /\ Load(q) >= Load(s) + a
        /\ IsFiniteSet(Waiting(r)) /\ Load(r) >= Load(q) + b
    BY DEF Gains
  <1>2. Load(s) \in Int /\ Load(q) \in Int /\ Load(r) \in Int
    <2>1. /\ Cardinality(Slots(s)) \in Nat /\ Cardinality(Waiting(s)) \in Nat
          /\ Cardinality(Slots(q)) \in Nat /\ Cardinality(Waiting(q)) \in Nat
          /\ Cardinality(Slots(r)) \in Nat /\ Cardinality(Waiting(r)) \in Nat
      BY <1>1, SlotsAre, FS_CardinalityType
    <2> QED BY <2>1 DEF Load
  <1> QED BY <1>1, <1>2

LEMMA GainsOn ==
    ASSUME NEW s, NEW q, NEW r, NEW a \in Int, Gains(s, q, a), Gains(q, r, 0),
           s.executing \in [Node -> Nat], q.executing \in [Node -> Nat],
           r.executing \in [Node -> Nat]
    PROVE  Gains(s, r, a)
  <1>1. 0 \in Int /\ a + 0 = a
    OBVIOUS
  <1> QED BY <1>1, GainsTransitive

LEMMA GainsBack ==
    ASSUME NEW s, NEW q, NEW r, Gains(s, q, -1), Gains(q, r, 1),
           s.executing \in [Node -> Nat], q.executing \in [Node -> Nat],
           r.executing \in [Node -> Nat]
    PROVE  Gains(s, r, 0)
  <1>1. -1 \in Int /\ 1 \in Int /\ -1 + 1 = 0
    OBVIOUS
  <1> QED BY <1>1, GainsTransitive

(* A set of waiting tasks less or more by one *)
LEMMA OneMoreWaits ==
    ASSUME NEW s, NEW r, NEW u \in Task, ~Waits(s, u), Waits(r, u),
           \A t \in Task \ {u} : Waits(s, t) <=> Waits(r, t),
           s.executing \in [Node -> Nat], r.executing = s.executing
    PROVE  Gains(s, r, 1) /\ Gains(r, s, -1)
  <1>1. Waiting(r) = Waiting(s) \union {u} /\ Waiting(s) = Waiting(r) \ {u}
        /\ u \notin Waiting(s) /\ u \in Waiting(r)
    BY DEF Waiting
  <1>0. Slots(r) = Slots(s)
    BY DEF Slots
  <1>2. Slots(r) = Slots(s) /\ Cardinality(Slots(s)) \in Nat
    BY <1>0, SlotsAre
  <1>3. ASSUME IsFiniteSet(Waiting(s)) \/ IsFiniteSet(Waiting(r))
        PROVE  /\ IsFiniteSet(Waiting(s)) /\ IsFiniteSet(Waiting(r))
               /\ Cardinality(Waiting(r)) = Cardinality(Waiting(s)) + 1
               /\ Cardinality(Waiting(s)) \in Nat
    <2>1. IsFiniteSet(Waiting(s)) /\ IsFiniteSet(Waiting(r))
      BY <1>1, <1>3, FS_AddElement, FS_RemoveElement
    <2>2. Cardinality(Waiting(r)) = Cardinality(Waiting(s)) + 1
      BY <1>1, <2>1, FS_AddElement
    <2> QED BY <2>1, <2>2, FS_CardinalityType
  <1>4. Gains(s, r, 1)
    BY <1>2, <1>3 DEF Gains, Load
  <1>5. Gains(r, s, -1)
    BY <1>2, <1>3 DEF Gains, Load
  <1> QED BY <1>4, <1>5

-----------------------------------------------------------------------------
(* The operations on the nodes *)

LEMMA ExecuteTaskLoad ==
    ASSUME NEW s, s \in PoolState, NEW n \in Node, NEW u \in Task, Away(s, u)
    PROVE  Gains(s, ExecuteTask(s, n, u), 1)
  <1> DEFINE r == ExecuteTask(s, n, u)
  <1>1. /\ r.executing = [s.executing EXCEPT ![n] = @ + 1]
        /\ s.executing \in [Node -> Nat]
    BY DEF ExecuteTask, BeforeTaskExecution, PoolState
  <1>2. /\ r.queue = s.queue
        /\ r.port = [s.port EXCEPT ![n] = Append(@, TaskMessage(u))]
        /\ s.port \in [Node -> Seq(Message)] /\ TaskMessage(u) \in Message
    BY DEF ExecuteTask, BeforeTaskExecution, PoolState, TaskMessage, Message
  <1>3. Sent(r, u)
    BY ExecuteTaskPlaces
  <1> HIDE DEF r
  <1>4. Waiting(r) = Waiting(s)
    <2>1. ASSUME NEW t \in Task \ {u} PROVE Waits(s, t) <=> Waits(r, t)
      <3>1. NowhereIn(s.port, {TaskMessage(t)}) <=> NowhereIn(r.port, {TaskMessage(t)})
        <4>1. TaskMessage(u) \notin {TaskMessage(t)}
          BY TaskMessageInjective
        <4>2. Appended(Message, s.port, r.port, n, TaskMessage(u))
          BY <1>2 DEF Appended
        <4>3. NowhereIn(s.port, {TaskMessage(t)}) => NowhereIn(r.port, {TaskMessage(t)})
          BY <4>1, <4>2, AppendInFamily
        <4>4. NowhereIn(r.port, {TaskMessage(t)}) => NowhereIn(s.port, {TaskMessage(t)})
          <5> SUFFICES ASSUME NowhereIn(r.port, {TaskMessage(t)}), NEW m \in Node,
                              NEW i \in DOMAIN s.port[m]
                       PROVE  s.port[m][i] \notin {TaskMessage(t)}
            BY DEF NowhereIn, Absent
          <5>1. i \in DOMAIN r.port[m] /\ r.port[m][i] = s.port[m][i]
            BY <1>2
          <5> QED BY <5>1 DEF NowhereIn, Absent
        <4> QED BY <4>3, <4>4
      <3> QED BY <1>2, <3>1 DEF Waits
    <2>2. ~Waits(s, u) /\ ~Waits(r, u)
      BY <1>3, PlaceIsOne
    <2> QED BY <2>1, <2>2 DEF Waiting
  <1>5. Cardinality(Slots(r)) = Cardinality(Slots(s)) + 1 /\ Cardinality(Slots(s)) \in Nat
    BY <1>1, SlotAdded, SlotsAre
  <1>6. IsFiniteSet(Waiting(s)) => Cardinality(Waiting(s)) \in Nat
    BY FS_CardinalityType
  <1>7. Gains(s, r, 1)
    BY <1>4, <1>5, <1>6 DEF Gains, Load
  <1> QED BY <1>7 DEF r

LEMMA DequeueTaskLoad ==
    ASSUME NEW s, s \in PoolState, FlaggedWhenFull(s), Placed(s), NEW n \in Node,
           s.queue[n] # <<>>
    PROVE  Gains(s, DequeueTask(s, n), -1)
  <1> DEFINE r == DequeueTask(s, n)
             u == Head(s.queue[n])
  <1>1. /\ KeepsOthers(s, r, u) /\ Waits(s, u) /\ Away(r, u) /\ Placed(r)
        /\ u \in Task /\ r.executing = s.executing
    BY DequeueTaskPlaces, DequeueTaskOK
  <1>2. s.executing \in [Node -> Nat] /\ r.port = s.port
    BY DEF PoolState, DequeueTask
  <1> HIDE DEF r, u
  <1>3. ASSUME NEW t \in Task \ {u} PROVE Waits(r, t) <=> Waits(s, t)
    <2>1. Sent(r, t) <=> Sent(s, t)
      <3>1. ASSUME Sent(r, t), ~Sent(s, t) PROVE FALSE
        <4>1. Waits(s, t)
          BY <1>1, <3>1, PlaceIsOne DEF KeepsOthers, Keeps, Placed
        <4> QED BY <1>2, <3>1, <4>1, PlaceIsOne DEF Waits, Sent, Away
      <3> QED BY <1>1, <3>1 DEF KeepsOthers, Keeps
    <2> QED BY <1>1, <2>1, PlaceIsOne DEF KeepsOthers, Keeps, Placed
  <1>4. ~Waits(r, u)
    BY <1>1, PlaceIsOne
  <1>5. Gains(s, r, -1)
    <2>1. r.executing \in [Node -> Nat] /\ s.executing = r.executing
      BY <1>1, <1>2
    <2> QED BY <1>1, <1>3, <1>4, <2>1, OneMoreWaits
  <1> QED BY <1>5 DEF r

LEMMA DistributeLoad ==
    ASSUME NEW s, NodesOK(s), Placed(s), NEW src \in Node, NEW o \in ServiceOrder(s, src)
    PROVE  Gains(s, Distribute(s, src, o), 0)
  <1> DEFINE r == Distribute(s, src, o)
             q == s.queue[src]
             lost == Waiting(s) \ Waiting(r)
             won == Slots(r) \ Slots(s)
  <1>1. /\ KeepsAll(s, r)
        /\ \A t \in Task : Waits(s, t) => Waits(r, t) \/ Given(s, r, src, o, t)
    BY DistributePlaces DEF NodesOK
  <1>2. /\ s.executing \in [Node -> Nat] /\ r.executing \in [Node -> Nat]
        /\ r \in PoolState
    BY DistributeOK DEF NodesOK, PoolState
  <1>3. \A d \in Node : r.executing[d] >= s.executing[d]
    <2>1. \A d \in Node : r.executing[d] = s.executing[d] \/ r.executing[d] = s.executing[d] + 1
      BY DEF Distribute, NodesOK, PoolState
    <2> QED BY <1>2, <2>1
  <1>4. \A i, j \in DOMAIN o : o[i] = o[j] => i = j
    <2>1. \A d \in Node : ~ServedBefore(s, d, d)
      BY DEF ServedBefore, Node, NodesOK, PoolState
    <2>2. DOMAIN o \subseteq Nat /\ \A i \in DOMAIN o : o[i] \in Node
      BY DEF ServiceOrder, Receiver
    <2>3. \A i, j \in DOMAIN o : i < j => o[i] # o[j]
      BY <2>1, <2>2 DEF ServiceOrder
    <2> QED BY <2>2, <2>3
  <1> HIDE DEF r, q
  <1>5. Slots(s) \subseteq Slots(r)
    <2> SUFFICES ASSUME NEW e \in Slots(s) PROVE e \in Slots(r)
      OBVIOUS
    <2> DEFINE n == e[1]
               i == e[2]
    <2>1. e = <<n, i>> /\ n \in Node /\ i \in 1..s.executing[n]
      <3>1. e = <<n, i>>
        BY <1>2, SlotsAre
      <3> QED BY <1>2, <3>1, SlotsAre
    <2> HIDE DEF n, i
    <2>2. i \in 1..r.executing[n]
      BY <1>2, <1>3, <2>1
    <2> QED BY <1>2, <2>1, <2>2, SlotsAre
  <1>6. Waiting(r) \subseteq Waiting(s)
    <2> SUFFICES ASSUME NEW t \in Task, Waits(r, t) PROVE Waits(s, t)
      BY DEF Waiting
    <2>1. Waits(s, t) \/ Sent(s, t) \/ Away(s, t)
      BY DEF Placed
    <2> QED BY <1>1, <2>1, PlaceIsOne DEF KeepsAll, Keeps
  (* The unit of the counter that stands for a task given away *)
  <1> DEFINE At(t) == CHOOSE i \in DOMAIN o \intersect DOMAIN q :
                          /\ q[i] = t /\ o[i] \in Node
                          /\ r.executing[o[i]] = s.executing[o[i]] + 1
             slot == [t \in lost |-> <<o[At(t)], s.executing[o[At(t)]] + 1>>]
  <1>7. \A t \in lost : /\ At(t) \in DOMAIN o /\ q[At(t)] = t /\ o[At(t)] \in Node
                        /\ r.executing[o[At(t)]] = s.executing[o[At(t)]] + 1
    BY <1>1 DEF Waiting, Given, q
  <1> HIDE DEF At
  <1>8. slot \in Injection(lost, won)
    <2>1. ASSUME NEW t \in lost
          PROVE  <<o[At(t)], s.executing[o[At(t)]] + 1>> \in won
      <3> DEFINE n == o[At(t)]
                 k == s.executing[n]
      <3>1. n \in Node /\ r.executing[n] = k + 1 /\ k \in Nat
        BY <1>2, <1>7
      <3> HIDE DEF n, k
      <3>2. k + 1 \in 1..k + 1 /\ k + 1 \notin 1..k
        BY <3>1
      <3>3. <<n, k + 1>> \in Slots(r)
        BY <1>2, <3>1, <3>2, SlotsAre
      <3>4. <<n, k + 1>> \notin Slots(s)
        BY <1>2, <3>1, <3>2, SlotsAre DEF k
      <3> QED BY <3>3, <3>4 DEF n, k
    <2>2. ASSUME NEW t \in lost, NEW u \in lost, slot[t] = slot[u] PROVE t = u
      <3>1. o[At(t)] = o[At(u)]
        BY <2>2
      <3> QED BY <1>4, <1>7, <3>1
    <2> HIDE DEF lost, won
    <2>3. slot \in [lost -> won]
      BY <2>1
    <2> HIDE DEF slot
    <2> QED BY <2>2, <2>3 DEF Injection, IsInjective
  <1>9. /\ IsFiniteSet(won) /\ IsFiniteSet(lost)
        /\ Cardinality(lost) <= Cardinality(won)
        /\ Cardinality(won) \in Nat /\ Cardinality(lost) \in Nat
        /\ Cardinality(Slots(r)) = Cardinality(Slots(s)) + Cardinality(won)
        /\ Cardinality(Slots(s)) \in Nat
    <2>1. IsFiniteSet(Slots(s)) /\ IsFiniteSet(Slots(r))
          /\ Cardinality(Slots(s)) \in Nat /\ Cardinality(Slots(r)) \in Nat
      BY <1>2, SlotsAre
    <2>2. IsFiniteSet(won) /\ Cardinality(won) = Cardinality(Slots(r)) - Cardinality(Slots(s))
      <3>1. Slots(r) \intersect Slots(s) = Slots(s)
        BY <1>5
      <3> QED BY <2>1, <3>1, FS_Difference
    <2>3. IsFiniteSet(lost) /\ Cardinality(lost) <= Cardinality(won)
      <3> HIDE DEF lost, won, slot
      <3> QED BY <1>8, <2>2, FS_Injection
    <2>4. Cardinality(won) \in Nat /\ Cardinality(lost) \in Nat
      BY <2>2, <2>3, FS_CardinalityType
    <2> QED BY <2>1, <2>2, <2>3, <2>4
  <1>10. ASSUME IsFiniteSet(Waiting(s))
         PROVE  /\ IsFiniteSet(Waiting(r)) /\ Cardinality(Waiting(r)) \in Nat
                /\ Cardinality(Waiting(s)) = Cardinality(Waiting(r)) + Cardinality(lost)
    <2>1. IsFiniteSet(Waiting(r)) /\ Cardinality(Waiting(r)) \in Nat
          /\ Cardinality(Waiting(s)) \in Nat
      BY <1>6, <1>10, FS_Subset, FS_CardinalityType
    <2>2. Waiting(s) \intersect Waiting(r) = Waiting(r)
      BY <1>6
    <2>3. Cardinality(lost) = Cardinality(Waiting(s)) - Cardinality(Waiting(r))
      BY <1>10, <2>2, FS_Difference
    <2> QED BY <2>1, <2>3
  <1> HIDE DEF lost, won
  <1>11. Gains(s, r, 0)
    <2> SUFFICES ASSUME IsFiniteSet(Waiting(s)) PROVE Load(r) >= Load(s) + 0
      BY <1>10 DEF Gains
    <2> QED BY <1>9, <1>10 DEF Load
  <1> QED BY <1>11 DEF r

LEMMA BackPressureEventLoad ==
    ASSUME NEW s, NodesOK(s), Placed(s), NEW src \in Node, NEW r \in BackPressureEvent(s, src)
    PROVE  Gains(s, r, 0)
  <1>0. s.executing \in [Node -> Nat]
    BY DEF NodesOK, PoolState
  <1>1. CASE r = s
    BY <1>0, <1>1, GainsWhenSame
  <1>2. CASE \E o \in ServiceOrder(s, src) : r = Distribute(s, src, o)
    BY <1>2, DistributeLoad
  <1> QED BY <1>1, <1>2 DEF BackPressureEvent

LEMMA EnqueueTaskLoad ==
    ASSUME NEW s, NodesOK(s), Placed(s), NEW n \in Node, NEW u \in Task,
           Away(s, u), ~ShallExecuteTask(s, n), NEW r \in EnqueueTask(s, n, u)
    PROVE  Gains(s, r, 1)
  <1> DEFINE e == [s EXCEPT !.queue[n] = Append(@, u),
                            !.backPressure[n] = @ \/ Len(s.queue[n]) + 1 >= QueueSize]
  <1>0. NodesOK(r)
    BY EnqueueTaskOK
  <1>1. /\ s.queue \in [Node -> Seq(Task)] /\ s.executing \in [Node -> Nat]
        /\ r.executing \in [Node -> Nat]
    BY <1>0 DEF NodesOK, PoolState
  <1>2. /\ e.queue = [s.queue EXCEPT ![n] = Append(@, u)]
        /\ e.port = s.port /\ e.executing = s.executing
    BY DEF NodesOK, PoolState
  <1>3. NodesOK(e) /\ Waits(e, u) /\ KeepsOthers(s, e, u) /\ Placed(e)
    BY EnqueuedPlaces
  <1>4. r = e \/ r \in BackPressureEvent(e, n)
    BY DEF EnqueueTask
  <1> HIDE DEF e
  <1>5. ASSUME NEW t \in Task \ {u} PROVE Waits(s, t) <=> Waits(e, t)
    <2>1. ASSUME Waits(s, t), Sent(e, t) PROVE FALSE
      BY <1>2, <2>1, OnceNotAbsent DEF Waits, Sent, OnceIn, NowhereIn
    <2> QED BY <1>3, <2>1, PlaceIsOne DEF KeepsOthers, Keeps, Placed
  <1>6. Gains(s, e, 1)
    BY <1>1, <1>2, <1>3, <1>5, PlaceIsOne, OneMoreWaits
  <1>7. Gains(e, r, 0)
    BY <1>1, <1>2, <1>3, <1>4, GainsWhenSame, BackPressureEventLoad
  <1>8. 1 \in Int /\ e.executing \in [Node -> Nat]
    BY <1>1, <1>2
  <1> QED BY <1>1, <1>6, <1>7, <1>8, GainsOn

LEMMA HandleTaskLoad ==
    ASSUME NEW s, NodesOK(s), Placed(s), NEW n \in Node, NEW u \in Task,
           Away(s, u), NEW r \in HandleTask(s, n, u)
    PROVE  Gains(s, r, 1)
  <1>1. CASE ShallExecuteTask(s, n)
    BY <1>1, ExecuteTaskLoad DEF HandleTask, NodesOK
  <1>2. CASE ~ShallExecuteTask(s, n)
    BY <1>2, EnqueueTaskLoad DEF HandleTask
  <1> QED BY <1>1, <1>2

LEMMA WorkerNodeStealTaskLoad ==
    ASSUME NEW s, NodesOK(s), Placed(s), NEW n \in Node, NEW r \in WorkerNodeStealTask(s, n)
    PROVE  Gains(s, r, 0)
  <1>0. s.executing \in [Node -> Nat] /\ r.executing \in [Node -> Nat]
    <2>1. NodesOK(r)
      BY WorkerNodeStealTaskOK
    <2> QED BY <2>1 DEF NodesOK, PoolState
  <1>1. CASE r = s
    BY <1>0, <1>1, GainsWhenSame
  <1>2. CASE \E src \in StealSource(s, n) : r \in StealTask(s, src, n)
    <2>1. PICK src \in StealSource(s, n) :
               r \in HandleTask(DequeueTask(s, src), n, Head(s.queue[src]))
      BY <1>2 DEF StealTask
    <2> DEFINE d == DequeueTask(s, src)
               u == Head(s.queue[src])
    <2>2. src \in Node /\ s.queue[src] # <<>>
      BY DEF StealSource
    <2>3. NodesOK(d) /\ u \in Task /\ d.executing = s.executing
      BY <2>2, DequeueTaskOK DEF NodesOK
    <2>4. Away(d, u) /\ Placed(d) /\ Gains(s, d, -1)
      BY <2>2, DequeueTaskPlaces, DequeueTaskLoad DEF NodesOK
    <2>5. r \in HandleTask(d, n, u)
      BY <2>1
    <2> HIDE DEF d, u
    <2>6. Gains(d, r, 1)
      BY <2>3, <2>4, <2>5, HandleTaskLoad
    <2> QED BY <1>0, <2>3, <2>4, <2>6, GainsBack
  <1> QED BY <1>1, <1>2 DEF WorkerNodeStealTask

LEMMA UnexecuteLoad ==
    ASSUME NEW s, NodesOK(s), NEW k \in Node
    PROVE  Gains(s, Unexecute(s, k), -1)
  <1> DEFINE r == Unexecute(s, k)
  <1>1. /\ r.queue = s.queue /\ r.port = s.port
        /\ r.executing = [s.executing EXCEPT ![k] = IF @ > 0 THEN @ - 1 ELSE @]
        /\ s.executing \in [Node -> Nat] /\ r.executing \in [Node -> Nat]
    BY UnexecuteOK DEF Unexecute, NodesOK, PoolState
  <1> HIDE DEF r
  <1>2. Waiting(r) = Waiting(s)
    BY <1>1 DEF Waiting, Waits
  <1>3. /\ Cardinality(Slots(r)) >= Cardinality(Slots(s)) - 1
        /\ Cardinality(Slots(r)) \in Nat /\ Cardinality(Slots(s)) \in Nat
    BY <1>1, SlotTaken, SlotsAre
  <1>4. IsFiniteSet(Waiting(s)) => Cardinality(Waiting(s)) \in Nat
    BY FS_CardinalityType
  <1>5. Gains(s, r, -1)
    BY <1>2, <1>3, <1>4 DEF Gains, Load
  <1> QED BY <1>5 DEF r

LEMMA NextQueuedTaskLoad ==
    ASSUME NEW s, NodesOK(s), Placed(s), NEW k \in Node,
           NEW v, v = Unexecute(s, k),
           NEW d, d = IF ~IsBusy(v, k) /\ v.queue[k] # <<>>
                      THEN ExecuteTask(DequeueTask(v, k), k, Head(v.queue[k]))
                      ELSE v
    PROVE  Gains(s, d, -1)
  <1>1. /\ v \in PoolState /\ FlaggedWhenFull(v) /\ v.queue = s.queue
        /\ Gains(s, v, -1) /\ v.port = s.port
    BY UnexecuteOK, UnexecuteLoad DEF Unexecute, NodesOK, PoolState
  <1>2. Placed(v)
    BY <1>1, KeepsWhenSame
  <1>3. CASE ~(~IsBusy(v, k) /\ v.queue[k] # <<>>)
    BY <1>1, <1>3
  <1>4. CASE ~IsBusy(v, k) /\ v.queue[k] # <<>>
    <2> DEFINE q == DequeueTask(v, k)
               u == Head(v.queue[k])
    <2>1. q \in PoolState /\ u \in Task /\ FlaggedWhenFull(q)
      BY <1>1, <1>4, DequeueTaskOK
    <2>2. Away(q, u) /\ Gains(v, q, -1)
      BY <1>1, <1>2, <1>4, DequeueTaskPlaces, DequeueTaskLoad
    <2>3. d = ExecuteTask(q, k, u)
      BY <1>4
    <2> HIDE DEF q, u
    <2>4. Gains(q, d, 1) /\ d \in PoolState
      <3>1. Gains(q, d, 1)
        BY <2>1, <2>2, <2>3, ExecuteTaskLoad
      <3>2. ExecuteTask(q, k, u) \in PoolState
        BY <2>1, ExecuteTaskEffect
      <3> QED BY <2>3, <3>1, <3>2
    <2>5. /\ s.executing \in [Node -> Nat] /\ v.executing \in [Node -> Nat]
          /\ q.executing \in [Node -> Nat] /\ d.executing \in [Node -> Nat]
      BY <1>1, <2>1, <2>4 DEF NodesOK, PoolState
    <2>6. Gains(v, d, 0)
      BY <2>2, <2>4, <2>5, GainsBack
    <2>7. Gains(s, v, -1) /\ -1 \in Int
      BY <1>1
    <2> QED BY <2>5, <2>6, <2>7, GainsOn
  <1> QED BY <1>3, <1>4

LEMMA IdleEventLoad ==
    ASSUME NEW s, NodesOK(s), Placed(s), NEW n \in Node, NEW armed, IdleEvent(s, n, armed)
    PROVE  Gains(s, pool', 0) /\ pool'.executing \in [Node -> Nat]
  <1>0. s.executing \in [Node -> Nat]
    BY DEF NodesOK, PoolState
  <1>1. CASE pool' = s
    BY <1>0, <1>1, GainsWhenSame
  <1>2. CASE pool' = [s EXCEPT !.continuousStealing[n] = FALSE]
    <2>1. pool'.queue = s.queue /\ pool'.port = s.port /\ pool'.executing = s.executing
      BY <1>2 DEF NodesOK, PoolState
    <2>2. \A t \in Task : Waits(s, t) <=> Waits(pool', t)
      BY <2>1 DEF Waits
    <2> QED BY <1>0, <2>1, <2>2, GainsWhenSame
  <1>3. CASE pool' \in WorkerNodeStealTask([s EXCEPT !.continuousStealing[n] = TRUE], n)
    <2> DEFINE c == [s EXCEPT !.continuousStealing[n] = TRUE]
    <2>1. /\ c \in PoolState /\ c.queue = s.queue /\ c.port = s.port
          /\ c.executing = s.executing /\ c.backPressure = s.backPressure
      BY DEF NodesOK, PoolState
    <2>2. NodesOK(c) /\ Placed(c)
      BY <2>1, KeepsWhenSame DEF NodesOK, BusyWhenQueued, FlaggedWhenFull
    <2>3. \A t \in Task : Waits(s, t) <=> Waits(c, t)
      BY <2>1 DEF Waits
    <2>4. pool' \in WorkerNodeStealTask(c, n)
      BY <1>3
    <2> HIDE DEF c
    <2>5. Gains(s, c, 0)
      BY <1>0, <2>1, <2>3, GainsWhenSame
    <2>6. Gains(c, pool', 0) /\ pool'.executing \in [Node -> Nat]
      <3>1. NodesOK(pool') /\ Gains(c, pool', 0)
        BY <2>2, <2>4, WorkerNodeStealTaskLoad, WorkerNodeStealTaskOK
      <3> QED BY <3>1 DEF NodesOK, PoolState
    <2>7. Gains(s, pool', 0)
      BY <1>0, <2>1, <2>5, <2>6, GainsOn
    <2> QED BY <2>6, <2>7
  <1> QED BY <1>1, <1>2, <1>3 DEF IdleEvent

LEMMA AfterTaskExecutionLoad ==
    ASSUME NodesOK(pool), Placed(pool), NEW k \in Node, AfterTaskExecution(k)
    PROVE  Gains(pool, pool', -1)
  <1> DEFINE v == Unexecute(pool, k)
             d == IF ~IsBusy(v, k) /\ v.queue[k] # <<>>
                  THEN ExecuteTask(DequeueTask(v, k), k, Head(v.queue[k]))
                  ELSE v
  <1>1. NodesOK(d) /\ KeepsAll(pool, d) /\ Gains(pool, d, -1)
    BY NextQueuedTaskOK, NextQueuedTaskPlaces, NextQueuedTaskLoad
  <1>2. IdleEvent(d, k, timers[k]) \/ pool' = d
    BY DEF AfterTaskExecution
  <1> HIDE DEF d
  <1>3. Placed(d)
    BY <1>1 DEF Placed, KeepsAll, Keeps
  <1>4. d.executing \in [Node -> Nat] /\ pool.executing \in [Node -> Nat]
    BY <1>1 DEF NodesOK, PoolState
  <1>5. CASE pool' = d
    BY <1>1, <1>5
  <1>6. CASE IdleEvent(d, k, timers[k])
    <2>1. Gains(d, pool', 0) /\ pool'.executing \in [Node -> Nat]
      BY <1>1, <1>3, <1>6, IdleEventLoad
    <2> QED BY <1>1, <1>4, <2>1, GainsOn
  <1> QED BY <1>2, <1>5, <1>6

-----------------------------------------------------------------------------
(* The invariant: each pending task is counted, where it waits or by some   *)
(* node.                                                                    *)
Pending == {t \in Task : promise[t] = "pending"}

CountInv == PlaceInv /\ IsFiniteSet(Pending) /\ Load(pool) >= Cardinality(Pending)

LEMMA WaitingIsPending == PlaceInv => Waiting(pool) \subseteq Pending
  <1> SUFFICES ASSUME PlaceInv, NEW t \in Task, Waits(pool, t) PROVE promise[t] = "pending"
    BY DEF Waiting, Pending
  <1>1. TaskPlaced(t) /\ ~Away(pool, t)
    BY PlaceIsOne DEF PlaceInv, TasksPlaced
  <1> QED BY <1>1 DEF TaskPlaced, Nowhere

LEMMA LoadNext == Load(pool)' = Load(pool')
  <1>1. Waiting(pool)' = Waiting(pool')
    BY DEF Waiting, Waits, OnceIn, NowhereIn, Once, Absent
  <1>2. Slots(pool)' = Slots(pool')
    BY DEF Slots
  <1> QED BY <1>1, <1>2 DEF Load

(* A step that gains as many tasks as become pending, or loses as few *)
LEMMA StepCounts ==
    ASSUME CountInv, PlaceInv', NEW d \in Int, Gains(pool, pool', d),
           IsFiniteSet(Pending'), Cardinality(Pending') <= Cardinality(Pending) + d
    PROVE  CountInv'
  <1>1. pool.executing \in [Node -> Nat] /\ pool'.executing \in [Node -> Nat]
    BY DEF CountInv, PlaceInv, IInv, TypeOK, PoolState
  <1>2. IsFiniteSet(Waiting(pool))
    BY WaitingIsPending, FS_Subset DEF CountInv
  <1>3. IsFiniteSet(Waiting(pool')) /\ Load(pool') >= Load(pool) + d
    BY <1>2 DEF Gains
  <1>4. /\ Cardinality(Slots(pool)) \in Nat /\ Cardinality(Waiting(pool)) \in Nat
        /\ Cardinality(Slots(pool')) \in Nat /\ Cardinality(Waiting(pool')) \in Nat
    BY <1>1, <1>2, <1>3, SlotsAre, FS_CardinalityType
  <1>5. Load(pool) \in Int /\ Load(pool') \in Int
    BY <1>4 DEF Load
  <1>6. Cardinality(Pending) \in Nat /\ Cardinality(Pending') \in Nat
    BY FS_CardinalityType DEF CountInv
  <1>7. Load(pool) >= Cardinality(Pending)
    BY DEF CountInv
  <1>8. Load(pool') >= Cardinality(Pending')
    BY <1>3, <1>5, <1>6, <1>7
  <1> QED BY <1>8, LoadNext DEF CountInv

(* A step that is none of the main thread's queues and counters *)
LEMMA StillCounts ==
    ASSUME CountInv, PlaceInv', UNCHANGED promise,
           pool'.executing = pool.executing,
           \A t \in Task : Waits(pool, t) <=> Waits(pool', t)
    PROVE  CountInv'
  <1>1. Pending' = Pending
    BY DEF Pending
  <1>2. pool.executing \in [Node -> Nat]
    BY DEF CountInv, PlaceInv, IInv, TypeOK, PoolState
  <1>3. Gains(pool, pool', 0)
    BY <1>2, GainsWhenSame
  <1>4. 0 \in Int /\ IsFiniteSet(Pending') /\ Cardinality(Pending') <= Cardinality(Pending) + 0
    <2>1. Cardinality(Pending) \in Nat
      BY FS_CardinalityType DEF CountInv
    <2> QED BY <1>1, <2>1 DEF CountInv
  <1> QED BY <1>3, <1>4, StepCounts

(* Queues that stay as they are keep the tasks that wait in them. *)
LEMMA WaitsInSameQueues ==
    ASSUME NEW s, NEW r, Placed(s), r.queue = s.queue, NEW t \in Task, Keeps(s, r, t)
    PROVE  Waits(s, t) <=> Waits(r, t)
  <1>1. ASSUME Waits(s, t), Sent(r, t) PROVE FALSE
    <2>1. \A f, E : ~(OnceIn(f, E) /\ NowhereIn(f, E))
      BY OnceNotAbsent DEF OnceIn, NowhereIn
    <2> QED BY <1>1, <2>1 DEF Waits, Sent
  <1> QED BY <1>1, PlaceIsOne DEF Keeps, Placed

LEMMA NextCountInv == CountInv /\ [Next]_vars => CountInv'
  <1> SUFFICES ASSUME CountInv, [Next]_vars PROVE CountInv'
    OBVIOUS
  <1>0. /\ PlaceInv /\ PlaceInv' /\ NodesOK(pool) /\ Placed(pool) /\ TypeOK
        /\ pool \in PoolState /\ pool.executing \in [Node -> Nat]
        /\ IsFiniteSet(Pending) /\ Cardinality(Pending) \in Nat
        /\ promise \in [Task -> {"none", "pending"} \union Settled]
    BY NextPlaceInv, TasksPlacedInPool, FS_CardinalityType
       DEF CountInv, PlaceInv, IInv, NodesOK, TypeOK, PoolState
  <1>1. ASSUME NEW u \in Task, NEW n \in Node, Submit(u, n) PROVE CountInv'
    <2>1. promise' = [promise EXCEPT ![u] = "pending"] /\ promise[u] = "none"
          /\ pool' \in HandleTask(pool, n, u)
      BY <1>1 DEF Submit
    <2>2. Away(pool, u)
      BY <1>0, <2>1 DEF PlaceInv, TasksPlaced, TaskPlaced, Nowhere
    <2>3. Gains(pool, pool', 1)
      BY <1>0, <2>1, <2>2, HandleTaskLoad
    <2>4. Pending' = Pending \union {u} /\ u \notin Pending
      BY <1>0, <2>1 DEF Pending
    <2>5. IsFiniteSet(Pending') /\ Cardinality(Pending') <= Cardinality(Pending) + 1
      <3>1. /\ IsFiniteSet(Pending \union {u})
            /\ Cardinality(Pending \union {u}) = Cardinality(Pending) + 1
        BY <1>0, <2>4, FS_AddElement
      <3>2. Cardinality(Pending \union {u}) <= Cardinality(Pending) + 1
        BY <1>0, <3>1
      <3> QED BY <2>4, <3>1, <3>2
    <2>6. 1 \in Int
      OBVIOUS
    <2> QED BY <1>0, <2>3, <2>5, <2>6, StepCounts
  <1>2. ASSUME NEW u \in Task, promise'[u] # "pending", promise[u] = "pending",
               \A t \in Task \ {u} : promise'[t] = promise[t], Gains(pool, pool', -1)
        PROVE  CountInv'
    <2>1. Pending' = Pending \ {u} /\ u \in Pending
      BY <1>2 DEF Pending
    <2>2. IsFiniteSet(Pending') /\ Cardinality(Pending') <= Cardinality(Pending) + (-1)
      <3>1. /\ IsFiniteSet(Pending \ {u})
            /\ Cardinality(Pending \ {u}) = Cardinality(Pending) - 1
        BY <1>0, <2>1, FS_RemoveElement
      <3>2. Cardinality(Pending \ {u}) <= Cardinality(Pending) + (-1)
        BY <1>0, <3>1
      <3> QED BY <2>1, <3>1, <3>2
    <2>3. -1 \in Int
      OBVIOUS
    <2> QED BY <1>0, <1>2, <2>2, <2>3, StepCounts
  <1>3. ASSUME NEW u \in Task, AbortTask(u) PROVE CountInv'
    <2> DEFINE n == promiseResponseMap[u]
    <2>1. n \in Node
      BY <1>0, <1>3 DEF AbortTask, TypeOK
    <2>2. CASE AbortQueuedTask(u, n)
      <3>1. KeepsOthers(pool, pool', u) /\ Waits(pool, u) /\ Away(pool', u)
        BY <1>0, <2>1, <2>2, AbortQueuedPlaces
      <3>2. /\ promise'[u] = "rejected" /\ \A t \in Task \ {u} : promise'[t] = promise[t]
            /\ pool'.executing = pool.executing /\ pool'.port = pool.port
        BY <1>0, <2>2 DEF AbortQueuedTask, PoolState
      <3>3. promise[u] = "pending"
        BY <1>0, <3>1, WaitingIsPending DEF Waiting, Pending
      <3>4. \A t \in Task \ {u} : Waits(pool', t) <=> Waits(pool, t)
        <4> SUFFICES ASSUME NEW t \in Task \ {u} PROVE Waits(pool', t) <=> Waits(pool, t)
          OBVIOUS
        <4>1. ASSUME Waits(pool, t), Sent(pool', t) PROVE FALSE
          BY <3>2, <4>1, OnceNotAbsent DEF Waits, Sent, OnceIn, NowhereIn
        <4> QED BY <1>0, <3>1, <4>1, PlaceIsOne DEF KeepsOthers, Keeps, Placed
      <3>5. Gains(pool, pool', -1)
        BY <1>0, <3>1, <3>2, <3>4, PlaceIsOne, OneMoreWaits
      <3> QED BY <1>2, <3>2, <3>3, <3>5
    <2>3. CASE /\ pool' = [pool EXCEPT !.port[n] = Append(@, AbortMessage(u))]
               /\ UNCHANGED promise
      <3>1. KeepsAll(pool, pool')
        BY <1>0, <2>1, <2>3, AbortMessagePlaces
      <3>2. pool'.executing = pool.executing /\ pool'.queue = pool.queue
        BY <1>0, <2>3 DEF PoolState
      <3>3. \A t \in Task : Waits(pool, t) <=> Waits(pool', t)
        BY <1>0, <3>1, <3>2, WaitsInSameQueues DEF KeepsAll
      <3> QED BY <1>0, <2>3, <3>2, <3>3, StillCounts
    <2> QED BY <1>3, <2>2, <2>3 DEF AbortTask
  <1>4. ASSUME NEW n \in Node, WorkerMessage(n) PROVE CountInv'
    <2> DEFINE m == Head(pool.port[n])
    <2>1. /\ m.kind = "task" => /\ m.task \in Task
                                /\ KeepsOthers(pool, pool', m.task)
                                /\ Sent(pool, m.task) /\ Away(pool', m.task)
          /\ m.kind # "task" => KeepsAll(pool, pool')
      BY <1>0, <1>4, WorkerMessagePlaces
    <2>2. /\ pool'.executing = pool.executing /\ pool'.queue = pool.queue
          /\ UNCHANGED promise
      BY <1>0, <1>4 DEF WorkerMessage, PoolState
    <2> HIDE DEF m
    <2>3. \A t \in Task : Waits(pool, t) <=> Waits(pool', t)
      BY <1>0, <2>1, <2>2, WaitsInSameQueues, PlaceIsOne DEF KeepsAll, KeepsOthers
    <2> QED BY <1>0, <2>2, <2>3, StillCounts
  <1>5. CASE pool' = pool /\ promise' = promise
    BY <1>0, <1>5, StillCounts
  <1>6. ASSUME NEW n \in Node, TaskExecutionResponse(n) PROVE CountInv'
    <2>0. PICK u \in Task : u = Head(fromWorker[n]).task
      BY <1>0, <1>6, ResponseTakenPlaces
    <2>1. promiseResponseMap[u] \in Node /\ promise[u] = "pending"
      BY <1>0, <1>6, <2>0, ResponseTakenPlaces
    <2>2. promiseResponseMap[u] # NoKey
      BY <2>1 DEF Node, NoKey
    <2>3. /\ AfterTaskExecution(promiseResponseMap[u])
          /\ promise'[u] # "pending"
          /\ \A t \in Task \ {u} : promise'[t] = promise[t]
      BY <1>0, <1>6, <2>0, <2>1, <2>2 DEF TaskExecutionResponse
    <2>4. Gains(pool, pool', -1)
      BY <1>0, <2>1, <2>3, AfterTaskExecutionLoad
    <2> QED BY <1>2, <2>1, <2>3, <2>4
  <1>7. ASSUME NEW n \in Node, StealingLoop(n) PROVE CountInv'
    <2>1. IdleEvent(pool, n, timers[n] - 1) /\ UNCHANGED promise
      BY <1>7 DEF StealingLoop
    <2>2. Gains(pool, pool', 0)
      BY <1>0, <2>1, IdleEventLoad
    <2>3. Pending' = Pending
      BY <2>1 DEF Pending
    <2>4. 0 \in Int /\ IsFiniteSet(Pending') /\ Cardinality(Pending') <= Cardinality(Pending) + 0
      BY <1>0, <2>3
    <2> QED BY <1>0, <2>2, <2>4, StepCounts
  <1>8. ASSUME NEW n \in Node, NEW t \in Task, WorkerFinish(n, t) PROVE CountInv'
    BY <1>5, <1>8 DEF WorkerFinish
  <1>9. CASE UNCHANGED vars
    BY <1>5, <1>9 DEF vars
  <1> QED BY <1>1, <1>3, <1>4, <1>6, <1>7, <1>8, <1>9 DEF Next

LEMMA InitCountInv == Init => CountInv
  <1> SUFFICES ASSUME Init PROVE CountInv
    OBVIOUS
  <1>1. Pending = {} /\ IsFiniteSet(Pending) /\ Cardinality(Pending) = 0
    BY FS_EmptySet DEF Init, Pending
  <1>2. PlaceInv
    BY InitPlaceInv
  <1>3. IsFiniteSet(Waiting(pool)) /\ pool.executing \in [Node -> Nat]
    BY <1>1, <1>2, WaitingIsPending, FS_Subset DEF PlaceInv, IInv, TypeOK, PoolState
  <1>4. Cardinality(Waiting(pool)) \in Nat /\ Cardinality(Slots(pool)) \in Nat
    BY <1>3, SlotsAre, FS_CardinalityType
  <1> QED BY <1>1, <1>2, <1>4 DEF CountInv, Load

(* What a worker has of a pending task waits nowhere. *)
LEMMA InFlightIsSent ==
    ASSUME PlaceInv, NEW n \in Node
    PROVE  InFlight(n) \subseteq Pending \ Waiting(pool)
  <1> SUFFICES ASSUME NEW t \in Task, t \in InFlight(n)
               PROVE  promise[t] = "pending" /\ ~Waits(pool, t)
    BY DEF InFlight, Pending, Waiting
  <1>0. TypeOK /\ TaskPlaced(t)
    BY DEF PlaceInv, IInv, TasksPlaced
  <1>1. fromWorker \in [Node -> Seq(Response)]
    BY <1>0 DEF TypeOK, Response
  <1>2. \A i \in DOMAIN fromWorker[n] : fromWorker[n][i] \in Response
    BY <1>1
  <1>3. ~(/\ NowhereIn(pool.port, {TaskMessage(t)})
          /\ RunsNowhere(t)
          /\ NowhereIn(fromWorker, ResponsesOf(t)))
    BY <1>2 DEF InFlight, PortPlaces, ResponsePlaces, NowhereIn, Absent, RunsNowhere, ResponsesOf
  <1>4. promise[t] = "pending"
    BY <1>0, <1>3 DEF TaskPlaced, Nowhere, Away
  <1>5. ASSUME Waits(pool, t) PROVE FALSE
    <2>1. InPool(t)
      BY <1>0, <1>4, <1>5, PlaceIsOne DEF TaskPlaced, Runs, Answered
    <2> QED BY <1>3, <1>5, <2>1 DEF InPool, Waits
  <1> QED BY <1>4, <1>5

LEMMA CountsCover == CountInv => TotalExecutingCoversInFlight
  <1> SUFFICES ASSUME CountInv PROVE TotalExecutingCoversInFlight
    OBVIOUS
  <1> DEFINE sent == Pending \ Waiting(pool)
             flying == UNION {InFlight(n) : n \in Node}
  <1>1. flying \subseteq sent
    BY InFlightIsSent DEF CountInv
  <1>2. /\ IsFiniteSet(Pending) /\ Waiting(pool) \subseteq Pending
        /\ pool.executing \in [Node -> Nat] /\ Load(pool) >= Cardinality(Pending)
    BY WaitingIsPending DEF CountInv, PlaceInv, IInv, TypeOK, PoolState
  <1>3. IsFiniteSet(sent) /\ Cardinality(sent) = Cardinality(Pending) - Cardinality(Waiting(pool))
    <2>1. Pending \intersect Waiting(pool) = Waiting(pool)
      BY <1>2
    <2> QED BY <1>2, <2>1, FS_Difference
  <1>4. IsFiniteSet(Waiting(pool))
    BY <1>2, FS_Subset
  <1>5. /\ Cardinality(Waiting(pool)) \in Nat /\ Cardinality(Slots(pool)) \in Nat
        /\ Cardinality(Pending) \in Nat
    BY <1>2, <1>4, SlotsAre, FS_CardinalityType
  <1> HIDE DEF sent, flying
  <1>6. Cardinality(flying) <= Cardinality(sent) /\ Cardinality(flying) \in Nat
    BY <1>1, <1>3, FS_Subset, FS_CardinalityType
  <1>7. Cardinality(Slots(pool)) >= Cardinality(flying)
    BY <1>2, <1>3, <1>5, <1>6 DEF Load
  <1> QED BY <1>7 DEF TotalExecutingCoversInFlight, Slots, flying

(* With stealing too, the counters of all nodes together are never less     *)
(* than the number of tasks the workers have.                               *)
THEOREM TotalCovers == Spec => []TotalExecutingCoversInFlight
  BY InitCountInv, NextCountInv, CountsCover, PTL DEF Spec

-----------------------------------------------------------------------------
(* Without task stealing the counter of executing tasks of a node is exact, *)
(* so that no worker has more than `concurrency` tasks at once, and the     *)
(* abort message of a task reaches it.  What stealing breaks, and these     *)
(* proofs rest on, is that a task stays on the node it was submitted to,    *)
(* the one kept in promiseResponseMap.                                      *)
NoStealing == ~TaskStealing /\ ~StealingOnBackPressure

(* Nothing of task t is on node n. *)
NotOn(t, n) ==
    /\ Absent(pool.queue[n], {t})
    /\ Absent(pool.port[n], {TaskMessage(t)})
    /\ t \notin running[n]
    /\ Absent(fromWorker[n], ResponsesOf(t))

AtHome(t) == \A n \in Node \ {promiseResponseMap[t]} : NotOn(t, n)

(* The tasks of node n that wait no more *)
Dispatched(n) == {t \in Task : promiseResponseMap[t] = n /\ ~Waits(pool, t)}

Counted ==
    \A n \in Node : /\ IsFiniteSet(Dispatched(n))
                    /\ pool.executing[n] = Cardinality(Dispatched(n))
                    /\ pool.executing[n] <= Concurrency

(* In a port, the abort message of t is there, and behind its task message. *)
AbortIn(q, t) == \E j \in DOMAIN q : q[j] = AbortMessage(t)

AbortBehind(q, t) ==
    \A i \in DOMAIN q : q[i] = TaskMessage(t) =>
        \E j \in DOMAIN q : i < j /\ q[j] = AbortMessage(t)

AbortComes(t) ==
    /\ promise[t] # "none"
    /\ ~Waits(pool, t)
    /\ \A n \in Node : /\ AbortBehind(pool.port[n], t)
                       /\ t \in running[n] => AbortIn(pool.port[n], t)

(* The inductive invariant: no stealing loop is armed, every task is at     *)
(* home, the counters are exact and the aborts arrive.                      *)
HomeInv ==
    /\ PlaceInv
    /\ timers = [n \in Node |-> 0]
    /\ \A t \in Task : AtHome(t)
    /\ Counted
    /\ \A t \in aborted : AbortComes(t)

-----------------------------------------------------------------------------
(* Nothing comes to a sequence but what is appended to it. *)
LEMMA AppendElsewhere ==
    ASSUME NEW S, NEW f, NEW g, NEW n, NEW x, Appended(S, f, g, n, x), NEW E
    PROVE  /\ \A m \in Node \ {n} : g[m] = f[m]
           /\ x \notin E => \A m \in Node : Absent(f[m], E) => Absent(g[m], E)
  <1>1. /\ n \in Node /\ x \in S
        /\ f[n] \in Seq(S)
        /\ g[n] = Append(f[n], x)
        /\ \A m \in Node \ {n} : g[m] = f[m]
    BY DEF Appended
  <1>2. x \notin E => (Absent(f[n], E) => Absent(g[n], E))
    BY <1>1, AppendOccurrences
  <1> QED BY <1>1, <1>2

LEMMA TailElsewhere ==
    ASSUME NEW S, NEW f, NEW g, NEW n, NEW x, HeadTaken(S, f, g, n, x), NEW E
    PROVE  /\ \A m \in Node \ {n} : g[m] = f[m]
           /\ \A m \in Node : Absent(f[m], E) => Absent(g[m], E)
           /\ x \in E => ~Absent(f[n], E)
  <1>1. /\ n \in Node
        /\ f[n] \in Seq(S) /\ f[n] # <<>>
        /\ x = Head(f[n])
        /\ g[n] = Tail(f[n])
        /\ \A m \in Node \ {n} : g[m] = f[m]
    BY DEF HeadTaken
  <1>2. /\ Absent(f[n], E) => Absent(g[n], E)
        /\ x \in E => ~Absent(f[n], E)
    BY <1>1, TailOccurrences
  <1> QED BY <1>1, <1>2

LEMMA DeleteElsewhere ==
    ASSUME NEW S, NEW f, NEW g, NEW n, NEW i, NEW x, Deleted(S, f, g, n, i, x), NEW E
    PROVE  /\ \A m \in Node \ {n} : g[m] = f[m]
           /\ \A m \in Node : Absent(f[m], E) => Absent(g[m], E)
  <1>1. /\ n \in Node
        /\ f[n] \in Seq(S)
        /\ i \in DOMAIN f[n]
        /\ g[n] = SubSeq(f[n], 1, i - 1) \o SubSeq(f[n], i + 1, Len(f[n]))
        /\ \A m \in Node \ {n} : g[m] = f[m]
    BY DEF Deleted
  <1>2. Absent(f[n], E) => Absent(g[n], E)
    BY <1>1, DeleteOccurrences
  <1> QED BY <1>1, <1>2

(* The abort messages stay behind the task messages in a port that is       *)
(* appended to or loses its head.                                           *)
LEMMA AppendAborts ==
    ASSUME NEW q \in Seq(Message), NEW x \in Message, NEW t
    PROVE  /\ AbortIn(q, t) => AbortIn(Append(q, x), t)
           /\ x # TaskMessage(t) /\ AbortBehind(q, t) => AbortBehind(Append(q, x), t)
           /\ x = AbortMessage(t) => AbortIn(Append(q, x), t) /\ AbortBehind(Append(q, x), t)
  <1> DEFINE a == Append(q, x)
  <1>1. /\ DOMAIN q = 1..Len(q)
        /\ DOMAIN a = 1..(Len(q) + 1)
        /\ Len(q) \in Nat
        /\ \A i \in 1..Len(q) : a[i] = q[i]
        /\ a[Len(q) + 1] = x
    OBVIOUS
  <1> HIDE DEF a
  <1>2. TaskMessage(t) # AbortMessage(t)
    BY DEF TaskMessage, AbortMessage
  <1>3. AbortIn(q, t) => AbortIn(a, t)
    BY <1>1 DEF AbortIn
  <1>4. x # TaskMessage(t) /\ AbortBehind(q, t) => AbortBehind(a, t)
    BY <1>1 DEF AbortBehind
  <1>5. x = AbortMessage(t) => AbortIn(a, t)
    BY <1>1 DEF AbortIn
  <1>6. x = AbortMessage(t) => AbortBehind(a, t)
    BY <1>1, <1>2 DEF AbortBehind
  <1> QED BY <1>3, <1>4, <1>5, <1>6 DEF a

LEMMA TailAborts ==
    ASSUME NEW q \in Seq(Message), q # <<>>, NEW t
    PROVE  /\ Head(q) # AbortMessage(t) /\ AbortIn(q, t) => AbortIn(Tail(q), t)
           /\ AbortBehind(q, t) => AbortBehind(Tail(q), t)
           /\ Head(q) = TaskMessage(t) /\ AbortBehind(q, t) => AbortIn(Tail(q), t)
  <1> DEFINE r == Tail(q)
  <1>1. /\ DOMAIN q = 1..Len(q)
        /\ Len(q) \in Nat \ {0}
        /\ DOMAIN r = 1..(Len(q) - 1)
        /\ \A i \in 1..(Len(q) - 1) : r[i] = q[i + 1]
        /\ Head(q) = q[1]
    OBVIOUS
  <1> HIDE DEF r
  <1>2. \A j \in DOMAIN q \ {1} : j - 1 \in DOMAIN r /\ r[j - 1] = q[j]
    BY <1>1
  <1>3. q[1] # AbortMessage(t) /\ AbortIn(q, t) => AbortIn(r, t)
    BY <1>1, <1>2 DEF AbortIn
  <1>4. ASSUME AbortBehind(q, t), NEW i \in DOMAIN r, r[i] = TaskMessage(t)
        PROVE  \E j \in DOMAIN r : i < j /\ r[j] = AbortMessage(t)
    <2>1. i + 1 \in DOMAIN q /\ q[i + 1] = TaskMessage(t)
      BY <1>1, <1>4
    <2>2. PICK j \in DOMAIN q : i + 1 < j /\ q[j] = AbortMessage(t)
      BY <1>4, <2>1 DEF AbortBehind
    <2>3. j \in Nat /\ i \in Nat /\ j # 1
      BY <1>1, <2>2
    <2> QED BY <1>2, <2>2, <2>3
  <1>5. ASSUME AbortBehind(q, t), q[1] = TaskMessage(t) PROVE AbortIn(r, t)
    <2>1. PICK j \in DOMAIN q : 1 < j /\ q[j] = AbortMessage(t)
      BY <1>1, <1>5 DEF AbortBehind
    <2> QED BY <1>2, <2>1 DEF AbortIn
  <1>6. AbortBehind(q, t) => AbortBehind(r, t)
    BY <1>4 DEF AbortBehind
  <1> QED BY <1>1, <1>3, <1>5, <1>6 DEF r

-----------------------------------------------------------------------------
(* What the steps that move a task do without stealing *)
LEMMA SubmitEffect ==
    ASSUME NoStealing, PlaceInv, NEW u \in Task, NEW n \in Node, Submit(u, n)
    PROVE  \/ /\ ShallExecuteTask(pool, n)
              /\ pool'.queue = pool.queue
              /\ Appended(Message, pool.port, pool'.port, n, TaskMessage(u))
              /\ pool'.executing = [pool.executing EXCEPT ![n] = @ + 1]
           \/ /\ pool'.port = pool.port
              /\ Appended(Task, pool.queue, pool'.queue, n, u)
              /\ pool'.executing = pool.executing
  <1>1. /\ pool \in PoolState
        /\ FlaggedWhenFull(pool)
        /\ pool.queue \in [Node -> Seq(Task)]
        /\ pool.port \in [Node -> Seq(Message)]
        /\ TaskMessage(u) \in Message
    BY DEF PlaceInv, IInv, NodesOK, PoolState, TaskMessage, Message
  <1>2. pool' \in HandleTask(pool, n, u)
    BY DEF Submit
  <1>3. CASE ShallExecuteTask(pool, n)
    <2>1. pool' = ExecuteTask(pool, n, u)
      BY <1>2, <1>3 DEF HandleTask
    <2>2. pool'.port = [pool.port EXCEPT ![n] = Append(@, TaskMessage(u))]
      BY <1>1, <2>1 DEF ExecuteTask, BeforeTaskExecution, PoolState
    <2>3. Appended(Message, pool.port, pool'.port, n, TaskMessage(u))
      BY <1>1, <2>2 DEF Appended
    <2> DEFINE r == ExecuteTask(pool, n, u)
    <2>4. /\ r.queue = pool.queue
          /\ r.executing = [pool.executing EXCEPT ![n] = @ + 1]
      BY <1>1 DEF ExecuteTask, BeforeTaskExecution, PoolState
    <2> HIDE DEF r
    <2>5. pool' = r
      BY <2>1 DEF r
    <2> QED BY <1>3, <2>3, <2>4, <2>5
  <1>4. CASE ~ShallExecuteTask(pool, n)
    <2> DEFINE e == [pool EXCEPT !.queue[n] = Append(@, u),
                                 !.backPressure[n] = @ \/ Len(pool.queue[n]) + 1 >= QueueSize]
    <2>1. pool' = e
      BY <1>2, <1>4 DEF HandleTask, EnqueueTask, BackPressureEvent, NoStealing
    <2>2. /\ pool'.queue = [pool.queue EXCEPT ![n] = Append(@, u)]
          /\ pool'.port = pool.port
          /\ pool'.executing = pool.executing
      BY <1>1, <2>1 DEF PoolState
    <2>3. Appended(Task, pool.queue, pool'.queue, n, u)
      BY <1>1, <2>2 DEF Appended
    <2> QED BY <2>2, <2>3
  <1> QED BY <1>3, <1>4

LEMMA ResponseEffect ==
    ASSUME NoStealing, PlaceInv, NEW k \in Node, AfterTaskExecution(k),
           pool.executing[k] > 0
    PROVE  /\ UNCHANGED timers
           /\ \/ /\ pool.queue[k] = <<>> \/ pool.executing[k] > Concurrency
                 /\ pool'.queue = pool.queue
                 /\ pool'.port = pool.port
                 /\ pool'.executing = [pool.executing EXCEPT ![k] = @ - 1]
              \/ \E x \in Task :
                    /\ HeadTaken(Task, pool.queue, pool'.queue, k, x)
                    /\ Appended(Message, pool.port, pool'.port, k, TaskMessage(x))
                    /\ pool'.executing = pool.executing
  <1> DEFINE v == Unexecute(pool, k)
  <1>1. /\ NodesOK(pool)
        /\ pool \in PoolState
        /\ pool.queue \in [Node -> Seq(Task)]
        /\ pool.port \in [Node -> Seq(Message)]
        /\ pool.executing \in [Node -> Nat]
        /\ \A t \in Task : TaskMessage(t) \in Message
    BY DEF PlaceInv, IInv, NodesOK, PoolState, TaskMessage, Message
  <1>2. /\ v \in PoolState
        /\ FlaggedWhenFull(v)
        /\ v.queue = pool.queue
        /\ v.executing = [pool.executing EXCEPT ![k] = @ - 1]
        /\ v.port = pool.port
    BY <1>1, UnexecuteOK DEF Unexecute, PoolState
  <1>3. /\ pool' = IF ~IsBusy(v, k) /\ v.queue[k] # <<>>
                   THEN ExecuteTask(DequeueTask(v, k), k, Head(v.queue[k]))
                   ELSE v
        /\ UNCHANGED timers
    BY DEF AfterTaskExecution, NoStealing
  <1> HIDE DEF v
  <1>4. CASE IsBusy(v, k) \/ v.queue[k] = <<>>
    <2>1. pool' = v
      BY <1>3, <1>4
    <2>2. IsBusy(v, k) => pool.executing[k] > Concurrency
      BY <1>1, <1>2, PoolAssumption DEF IsBusy
    <2> QED BY <1>2, <1>3, <1>4, <2>1, <2>2
  <1>5. CASE ~IsBusy(v, k) /\ v.queue[k] # <<>>
    <2> DEFINE x == Head(v.queue[k])
               d == DequeueTask(v, k)
    <2>1. pool' = ExecuteTask(d, k, x)
      BY <1>3, <1>5
    <2>2. /\ d \in PoolState
          /\ FlaggedWhenFull(d)
          /\ x \in Task
          /\ d.executing = v.executing
      BY <1>2, <1>5, DequeueTaskOK
    <2>3. d.port = pool.port /\ d.queue = [pool.queue EXCEPT ![k] = Tail(@)]
      BY <1>2 DEF DequeueTask, PoolState
    <2>4. HeadTaken(Task, pool.queue, d.queue, k, x)
      BY <1>1, <1>2, <1>5, <2>3 DEF HeadTaken
    <2> HIDE DEF d, x
    <2>5. /\ pool'.queue = d.queue
          /\ pool'.executing = [d.executing EXCEPT ![k] = @ + 1]
      BY <2>1, <2>2, ExecuteTaskEffect
    <2>6. pool'.executing = pool.executing
      BY <1>1, <1>2, <2>2, <2>5
    <2>7. pool'.port = [pool.port EXCEPT ![k] = Append(@, TaskMessage(x))]
      BY <2>1, <2>2, <2>3 DEF ExecuteTask, BeforeTaskExecution, PoolState
    <2>8. Appended(Message, pool.port, pool'.port, k, TaskMessage(x))
      BY <1>1, <2>2, <2>7 DEF Appended
    <2> QED BY <1>3, <2>2, <2>4, <2>5, <2>6, <2>8
  <1> QED BY <1>4, <1>5

-----------------------------------------------------------------------------
(* The tasks in flight of a node are those submitted to it that wait no     *)
(* more.                                                                    *)
LEMMA NowhereAtHome ==
    ASSUME NEW t \in Task, Nowhere(t)
    PROVE  \A n \in Node : NotOn(t, n)
  BY DEF Nowhere, Away, NowhereIn, RunsNowhere, NotOn

LEMMA InFlightIsDispatched ==
    ASSUME HomeInv, NEW n \in Node
    PROVE  InFlight(n) = Dispatched(n)
  <1>0. /\ TypeOK
        /\ EntryIffPending
        /\ \A t \in Task : TaskPlaced(t) /\ AtHome(t)
        /\ NoKey \notin Node
    BY DEF HomeInv, PlaceInv, IInv, TasksPlaced, NoKey, Node
  <1>1. ASSUME NEW t \in Task
        PROVE  /\ PortPlaces(t, n) # {} <=> ~Absent(pool.port[n], {TaskMessage(t)})
               /\ ResponsePlaces(t, n) # {} <=> ~Absent(fromWorker[n], ResponsesOf(t))
    <2>1. PortPlaces(t, n) # {} <=> ~Absent(pool.port[n], {TaskMessage(t)})
      BY DEF PortPlaces, Absent
    <2>2. fromWorker \in [Node -> Seq(Response)]
      BY <1>0 DEF TypeOK, Response
    <2>3. \A i \in DOMAIN fromWorker[n] : fromWorker[n][i] \in Response
      BY <2>2
    <2>4. ResponsePlaces(t, n) # {} <=> ~Absent(fromWorker[n], ResponsesOf(t))
      BY <2>3 DEF ResponsePlaces, Absent, ResponsesOf
    <2> QED BY <2>1, <2>4
  <1>2. ASSUME NEW t \in Task, t \in InFlight(n) PROVE t \in Dispatched(n)
    <2>1. ~NotOn(t, n)
      BY <1>1, <1>2 DEF InFlight, NotOn
    <2>2. promiseResponseMap[t] = n
      BY <1>0, <2>1 DEF AtHome
    <2>3. promise[t] = "pending"
      BY <1>0, <2>1, NowhereAtHome DEF TaskPlaced
    <2>4. ~Waits(pool, t)
      <3>1. ASSUME Waits(pool, t) PROVE FALSE
        <4>1. InPool(t)
          BY <1>0, <2>3, <3>1, PlaceIsOne DEF TaskPlaced, Runs, Answered
        <4> QED BY <1>1, <1>2, <3>1, <4>1 DEF InPool, Waits, NowhereIn, RunsNowhere, InFlight
      <3> QED BY <3>1
    <2> QED BY <2>2, <2>4 DEF Dispatched
  <1>3. ASSUME NEW t \in Task, t \in Dispatched(n) PROVE t \in InFlight(n)
    <2>1. promiseResponseMap[t] = n /\ ~Waits(pool, t) /\ promise[t] = "pending"
      BY <1>0, <1>3 DEF Dispatched, EntryIffPending
    <2>2. \A m \in Node \ {n} : NotOn(t, m)
      BY <1>0, <2>1 DEF AtHome
    <2>3. CASE Sent(pool, t)
      <3>1. PICK m \in Node : Once(pool.port[m], {TaskMessage(t)})
        BY <2>3 DEF Sent, OnceIn
      <3>2. ~Absent(pool.port[m], {TaskMessage(t)})
        BY <3>1, OnceNotAbsent
      <3> QED BY <1>1, <2>2, <3>2 DEF NotOn, InFlight
    <2>4. CASE Runs(t)
      BY <2>2, <2>4 DEF Runs, RunsOnce, NotOn, InFlight
    <2>5. CASE Answered(t)
      <3>1. PICK m \in Node : Once(fromWorker[m], ResponsesOf(t))
        BY <2>5 DEF Answered, OnceIn
      <3>2. ~Absent(fromWorker[m], ResponsesOf(t))
        BY <3>1, OnceNotAbsent
      <3> QED BY <1>1, <2>2, <3>2 DEF NotOn, InFlight
    <2> QED BY <1>0, <2>1, <2>3, <2>4, <2>5 DEF TaskPlaced, InPool
  <1> QED BY <1>2, <1>3 DEF InFlight, Dispatched

(* The node a response is accounted for on has counted its task. *)
LEMMA DispatchedIsCounted ==
    ASSUME HomeInv, NEW n \in Node, NEW u \in Task, promiseResponseMap[u] = n, Answered(u)
    PROVE  u \in Dispatched(n) /\ pool.executing[n] > 0
  <1>1. u \in Dispatched(n)
    BY PlaceIsOne DEF Answered, Dispatched
  <1>2. pool.executing[n] # 0
    BY <1>1, FS_EmptySet DEF HomeInv, Counted
  <1>3. pool.executing[n] \in Nat
    BY DEF HomeInv, PlaceInv, IInv, TypeOK, PoolState
  <1> QED BY <1>1, <1>2, <1>3

-----------------------------------------------------------------------------
(* The steps preserve each part of the invariant *)

(* No task leaves the node it was submitted to. *)
LEMMA NextAtHome ==
    ASSUME NoStealing, HomeInv, PlaceInv', Next, NEW t \in Task
    PROVE  AtHome(t)'
  <1> SUFFICES ASSUME NEW n \in Node, promiseResponseMap'[t] # n, promise'[t] = "pending"
               PROVE  NotOn(t, n)'
    <2>1. CASE promise'[t] = "pending"
      BY <2>1 DEF AtHome
    <2>2. CASE promise'[t] # "pending"
      <3>1. Nowhere(t)'
        BY <2>2 DEF PlaceInv, TasksPlaced, TaskPlaced
      <3>2. \A n \in Node : NotOn(t, n)'
        BY <3>1 DEF Nowhere, Away, NowhereIn, RunsNowhere, NotOn
      <3> QED BY <3>2 DEF AtHome
    <2> QED BY <2>1, <2>2
  <1>0. /\ PlaceInv
        /\ TypeOK
        /\ pool \in PoolState
        /\ pool.queue \in [Node -> Seq(Task)]
        /\ pool.port \in [Node -> Seq(Message)]
        /\ fromWorker \in [Node -> Seq(Response)]
        /\ running \in [Node -> SUBSET Task]
        /\ promise \in [Task -> {"none", "pending"} \union Settled]
        /\ promiseResponseMap \in [Task -> Node \union {NoKey}]
        /\ timers = [m \in Node |-> 0]
        /\ TaskPlaced(t) /\ AtHome(t)
    BY DEF HomeInv, PlaceInv, IInv, TasksPlaced, TypeOK, PoolState, Response
  <1>1. ASSUME NEW u \in Task, NEW m \in Node, Submit(u, m) PROVE NotOn(t, n)'
    <2>1. /\ promise[u] = "none"
          /\ promiseResponseMap' = [promiseResponseMap EXCEPT ![u] = m]
          /\ UNCHANGED <<running, fromWorker>>
      BY <1>1 DEF Submit
    <2>2. t = u => n # m /\ NotOn(t, n)
      BY <1>0, <2>1, NowhereAtHome DEF TaskPlaced
    <2>3. t # u => NotOn(t, n)
      BY <1>0, <2>1 DEF AtHome
    <2>4. NotOn(t, n) /\ (t = u => n # m)
      BY <2>2, <2>3
    <2>5. u \in {t} <=> u = t
      OBVIOUS
    <2>6. TaskMessage(u) \in {TaskMessage(t)} <=> u = t
      BY TaskMessageInjective
    <2>7. Absent(pool'.queue[n], {t}) /\ Absent(pool'.port[n], {TaskMessage(t)})
      <3>1. CASE /\ pool'.queue = pool.queue
                 /\ Appended(Message, pool.port, pool'.port, m, TaskMessage(u))
        <4>1. Absent(pool'.port[n], {TaskMessage(t)})
          BY <2>4, <2>6, <3>1, AppendElsewhere DEF NotOn
        <4> QED BY <2>4, <3>1, <4>1 DEF NotOn
      <3>2. CASE /\ pool'.port = pool.port
                 /\ Appended(Task, pool.queue, pool'.queue, m, u)
        <4>1. Absent(pool'.queue[n], {t})
          BY <2>4, <2>5, <3>2, AppendElsewhere DEF NotOn
        <4> QED BY <2>4, <3>2, <4>1 DEF NotOn
      <3> QED BY <1>0, <1>1, <3>1, <3>2, SubmitEffect
    <2> QED BY <2>1, <2>4, <2>7 DEF NotOn, ResponsesOf
  <1>2. ASSUME NEW u \in Task, AbortTask(u) PROVE NotOn(t, n)'
    <2> DEFINE k == promiseResponseMap[u]
    <2>1. k \in Node /\ UNCHANGED <<running, fromWorker>>
      BY <1>0, <1>2 DEF AbortTask
    <2>2. CASE AbortQueuedTask(u, k)
      <3>1. PICK i \in DOMAIN pool.queue[k] :
                /\ pool.queue[k][i] = u
                /\ pool' = [pool EXCEPT !.queue[k] =
                                SubSeq(@, 1, i - 1) \o SubSeq(@, i + 1, Len(@))]
        BY <2>2 DEF AbortQueuedTask
      <3>2. pool'.port = pool.port
        BY <1>0, <3>1 DEF PoolState
      <3>3. Deleted(Task, pool.queue, pool'.queue, k, i, u)
        BY <1>0, <2>1, <3>1 DEF Deleted, PoolState
      <3>4. t # u
        BY <1>0, <2>2 DEF AbortQueuedTask
      <3>5. NotOn(t, n)
        BY <1>0, <2>2, <3>4 DEF AbortQueuedTask, AtHome
      <3>6. Absent(pool'.queue[n], {t})
        BY <3>3, <3>5, DeleteElsewhere DEF NotOn
      <3> QED BY <2>1, <3>2, <3>5, <3>6 DEF NotOn, ResponsesOf
    <2>3. CASE /\ pool' = [pool EXCEPT !.port[k] = Append(@, AbortMessage(u))]
               /\ UNCHANGED <<promiseResponseMap, promise>>
      <3>1. AbortMessage(u) \in Message /\ AbortMessage(u) \notin {TaskMessage(t)}
        BY DEF AbortMessage, TaskMessage, Message
      <3>2. pool'.queue = pool.queue
        BY <1>0, <2>3 DEF PoolState
      <3>3. Appended(Message, pool.port, pool'.port, k, AbortMessage(u))
        BY <1>0, <2>1, <2>3, <3>1 DEF Appended, PoolState
      <3>4. NotOn(t, n)
        BY <1>0, <2>3 DEF AtHome
      <3>5. Absent(pool'.port[n], {TaskMessage(t)})
        BY <3>1, <3>3, <3>4, AppendElsewhere DEF NotOn
      <3> QED BY <2>1, <3>2, <3>4, <3>5 DEF NotOn, ResponsesOf
    <2> QED BY <1>2, <2>2, <2>3 DEF AbortTask
  <1>3. ASSUME NEW m \in Node, WorkerMessage(m) PROVE NotOn(t, n)'
    <2>1. PICK x \in Message : x = Head(pool.port[m])
      BY <1>0, <1>3, HeadTail DEF WorkerMessage
    <2>2. /\ pool' = [pool EXCEPT !.port[m] = Tail(@)]
          /\ \/ x.kind = "task" /\ Run(m, x.task)
             \/ Respond(m, x.task, "aborted")
             \/ UNCHANGED <<running, fromWorker>>
          /\ UNCHANGED promiseResponseMap
      BY <1>3, <2>1 DEF WorkerMessage
    <2>3. pool'.queue = pool.queue
      BY <1>0, <2>2 DEF PoolState
    <2>4. HeadTaken(Message, pool.port, pool'.port, m, x)
      BY <1>0, <1>3, <2>1, <2>2 DEF HeadTaken, PoolState, WorkerMessage
    <2>5. NotOn(t, n)
      BY <1>0, <2>2 DEF AtHome
    <2>6. Absent(pool'.port[n], {TaskMessage(t)})
      BY <2>4, <2>5, TailElsewhere DEF NotOn
    <2>7. t \notin running'[n] /\ Absent(fromWorker'[n], ResponsesOf(t))
      <3>1. CASE x.kind = "task" /\ Run(m, x.task)
        <4>1. ~(n = m /\ x.task = t)
          <5>1. x.task = t => x \in {TaskMessage(t)}
            BY <3>1 DEF Message, TaskMessage
          <5>2. x \in {TaskMessage(t)} => ~Absent(pool.port[m], {TaskMessage(t)})
            BY <2>4, TailElsewhere
          <5> QED BY <2>5, <5>1, <5>2 DEF NotOn
        <4> QED BY <1>0, <2>5, <3>1, <4>1 DEF Run, NotOn
      <3>2. CASE Respond(m, x.task, "aborted")
        <4> DEFINE r == [task |-> x.task, status |-> "aborted"]
        <4>1. r \in Response
          BY <2>1 DEF Response, Status, Message
        <4>2. Appended(Response, fromWorker, fromWorker', m, r)
          BY <1>0, <3>2, <4>1 DEF Appended, Respond
        <4>3. ~(n = m /\ x.task = t)
          BY <2>5, <3>2 DEF NotOn, Respond
        <4>4. r \in ResponsesOf(t) => x.task = t
          BY DEF ResponsesOf
        <4> HIDE DEF r
        <4>5. Absent(fromWorker'[n], ResponsesOf(t))
          BY <2>5, <4>2, <4>3, <4>4, AppendElsewhere DEF NotOn
        <4> QED BY <1>0, <2>5, <3>2, <4>5 DEF Respond, NotOn
      <3> QED BY <2>2, <2>5, <3>1, <3>2 DEF NotOn
    <2> QED BY <2>3, <2>5, <2>6, <2>7 DEF NotOn, ResponsesOf
  <1>4. ASSUME NEW m \in Node, NEW u \in Task, WorkerFinish(m, u) PROVE NotOn(t, n)'
    <2>1. PICK status \in Status : Respond(m, u, status)
      BY <1>4 DEF WorkerFinish, Status
    <2>2. NotOn(t, n) /\ UNCHANGED pool
      BY <1>0, <1>4 DEF AtHome, WorkerFinish
    <2> DEFINE r == [task |-> u, status |-> status]
    <2>3. Appended(Response, fromWorker, fromWorker', m, r)
      BY <1>0, <2>1 DEF Appended, Respond, Response
    <2>4. ~(n = m /\ u = t)
      BY <2>1, <2>2 DEF NotOn, Respond
    <2>5. r \in ResponsesOf(t) => u = t
      BY DEF ResponsesOf
    <2> HIDE DEF r
    <2>6. Absent(fromWorker'[n], ResponsesOf(t))
      BY <2>2, <2>3, <2>4, <2>5, AppendElsewhere DEF NotOn
    <2> QED BY <1>0, <2>1, <2>2, <2>6 DEF Respond, NotOn, ResponsesOf
  <1>5. ASSUME NEW m \in Node, TaskExecutionResponse(m) PROVE NotOn(t, n)'
    <2>0. PICK u \in Task : u = Head(fromWorker[m]).task
      BY <1>0, <1>5, ResponseTakenPlaces
    <2>1. promiseResponseMap[u] \in Node /\ Answered(u)
      BY <1>0, <1>5, <2>0, ResponseTakenPlaces
    <2>2. PICK k \in Node : k = promiseResponseMap[u]
      BY <2>1
    <2>3. /\ AfterTaskExecution(k)
          /\ promiseResponseMap' = [promiseResponseMap EXCEPT ![u] = NoKey]
          /\ promise'[u] # "pending"
          /\ UNCHANGED running
      BY <1>0, <1>5, <2>0, <2>2 DEF TaskExecutionResponse, Node, NoKey
    <2>4. pool.executing[k] > 0
      BY <2>1, <2>2, DispatchedIsCounted
    <2>5. NotOn(t, n)
      BY <1>0, <2>3 DEF AtHome
    <2>6. Absent(fromWorker'[n], ResponsesOf(t))
      <3> DEFINE r == Head(fromWorker[m])
      <3>1. HeadTaken(Response, fromWorker, fromWorker', m, r)
        BY <1>0, <1>5 DEF HeadTaken, TaskExecutionResponse
      <3> HIDE DEF r
      <3> QED BY <2>5, <3>1, TailElsewhere DEF NotOn
    <2>7. Absent(pool'.queue[n], {t}) /\ Absent(pool'.port[n], {TaskMessage(t)})
      <3>1. CASE pool'.queue = pool.queue /\ pool'.port = pool.port
        BY <2>5, <3>1 DEF NotOn
      <3>2. CASE \E x \in Task : /\ HeadTaken(Task, pool.queue, pool'.queue, k, x)
                                 /\ Appended(Message, pool.port, pool'.port, k, TaskMessage(x))
        <4>1. PICK x \in Task : /\ HeadTaken(Task, pool.queue, pool'.queue, k, x)
                                /\ Appended(Message, pool.port, pool'.port, k, TaskMessage(x))
          BY <3>2
        <4>2. x \in {t} <=> x = t
          OBVIOUS
        <4>3. /\ Absent(pool'.queue[n], {t})
              /\ x = t => n # k
          BY <2>5, <4>1, <4>2, TailElsewhere DEF NotOn
        <4>4. TaskMessage(x) \in {TaskMessage(t)} <=> x = t
          BY TaskMessageInjective
        <4>5. Absent(pool'.port[n], {TaskMessage(t)})
          BY <2>5, <4>1, <4>3, <4>4, AppendElsewhere DEF NotOn
        <4> QED BY <4>3, <4>5
      <3> QED BY <1>0, <2>3, <2>4, <3>1, <3>2, ResponseEffect
    <2> QED BY <2>3, <2>5, <2>6, <2>7 DEF NotOn, ResponsesOf
  <1>6. ASSUME NEW m \in Node, StealingLoop(m) PROVE FALSE
    BY <1>0, <1>6 DEF StealingLoop
  <1> QED BY <1>1, <1>2, <1>3, <1>4, <1>5, <1>6 DEF Next

(* A task waits after a step just when it did before, if it is still queued *)
(* or no message was sent.                                                  *)
LEMMA WaitsStill ==
    ASSUME NEW t \in Task, Placed(pool), Keeps(pool, pool', t)
    PROVE  /\ ~Waits(pool, t) => ~Waits(pool', t)
           /\ pool'.port = pool.port => (Waits(pool', t) <=> Waits(pool, t))
           /\ pool'.queue = pool.queue => (Waits(pool', t) <=> Waits(pool, t))
           /\ OnceIn(pool'.queue, {t}) => (Waits(pool', t) <=> Waits(pool, t))
  <1>1. ~(OnceIn(pool'.queue, {t}) /\ NowhereIn(pool'.queue, {t}))
    BY OnceNotAbsent DEF OnceIn, NowhereIn
  <1>2. ~Waits(pool, t) => ~Waits(pool', t)
    BY PlaceIsOne DEF Keeps, Placed
  <1>3. Waits(pool, t) => OnceIn(pool'.queue, {t}) \/ Sent(pool', t)
    BY DEF Keeps, Waits
  <1>4. ~(OnceIn(pool.port, {TaskMessage(t)}) /\ NowhereIn(pool.port, {TaskMessage(t)}))
    BY OnceNotAbsent DEF OnceIn, NowhereIn
  <1>5. OnceIn(pool'.queue, {t}) => (Waits(pool', t) <=> Waits(pool, t))
    BY <1>1, <1>2 DEF Keeps, Sent
  <1>6. pool'.port = pool.port => (Waits(pool', t) <=> Waits(pool, t))
    BY <1>2, <1>4 DEF Keeps, Sent, Waits
  <1>7. pool'.queue = pool.queue => (Waits(pool', t) <=> Waits(pool, t))
    BY <1>1, <1>2 DEF Keeps, Sent, Waits
  <1> QED BY <1>2, <1>5, <1>6, <1>7

LEMMA DispatchedSame ==
    ASSUME NEW n \in Node,
           \A t \in Task : /\ promiseResponseMap'[t] = n <=> promiseResponseMap[t] = n
                           /\ promiseResponseMap[t] = n => (Waits(pool', t) <=> Waits(pool, t))
    PROVE  Dispatched(n)' = Dispatched(n)
  BY DEF Dispatched, Waits

(* The counters stay exact. *)
LEMMA NextCounted ==
    ASSUME NoStealing, HomeInv, Next
    PROVE  Counted'
  <1>0. /\ PlaceInv
        /\ TypeOK
        /\ pool \in PoolState
        /\ Placed(pool)
        /\ EntryIffPending
        /\ Counted
        /\ pool.executing \in [Node -> Nat]
        /\ promise \in [Task -> {"none", "pending"} \union Settled]
        /\ promiseResponseMap \in [Task -> Node \union {NoKey}]
        /\ NoKey \notin Node
        /\ timers = [m \in Node |-> 0]
        /\ \A t \in Task : TaskPlaced(t) /\ AtHome(t)
    <2>1. Placed(pool)
      BY TasksPlacedInPool DEF HomeInv, PlaceInv
    <2>2. /\ PlaceInv /\ TypeOK /\ EntryIffPending
          /\ \A t \in Task : TaskPlaced(t)
      BY DEF HomeInv, PlaceInv, IInv, TasksPlaced
    <2>3. /\ Counted
          /\ timers = [m \in Node |-> 0]
          /\ \A t \in Task : AtHome(t)
      BY DEF HomeInv
    <2>4. NoKey \notin Node
      BY DEF NoKey, Node
    <2> QED BY <2>1, <2>2, <2>3, <2>4 DEF TypeOK, PoolState
  <1>1. ASSUME NEW u \in Task, NEW n \in Node, Submit(u, n) PROVE Counted'
    <2>1. /\ promise[u] = "none"
          /\ promiseResponseMap' = [promiseResponseMap EXCEPT ![u] = n]
          /\ pool' \in HandleTask(pool, n, u)
      BY <1>1 DEF Submit
    <2>2. Nowhere(u) /\ promiseResponseMap[u] = NoKey
      BY <1>0, <2>1 DEF TaskPlaced, EntryIffPending
    <2>3. KeepsOthers(pool, pool', u) /\ (Waits(pool', u) \/ Sent(pool', u))
      BY <1>0, <2>1, <2>2, HandleTaskPlaces DEF Nowhere, PlaceInv, IInv
    <2>4. \A t \in Task \ {u} : /\ promiseResponseMap'[t] = promiseResponseMap[t]
                                /\ Keeps(pool, pool', t)
      BY <1>0, <2>1, <2>3 DEF KeepsOthers
    <2>5. promiseResponseMap'[u] = n
      BY <1>0, <2>1
    <2>6. CASE /\ ShallExecuteTask(pool, n)
               /\ pool'.queue = pool.queue
               /\ pool'.executing = [pool.executing EXCEPT ![n] = @ + 1]
      <3>1. \A t \in Task \ {u} : Waits(pool', t) <=> Waits(pool, t)
        BY <1>0, <2>4, <2>6, WaitsStill
      <3>2. ~Waits(pool', u)
        <4>1. NowhereIn(pool'.queue, {u})
          BY <2>2, <2>6 DEF Nowhere, Away
        <4> QED BY <4>1, OnceNotAbsent DEF Waits, OnceIn, NowhereIn
      <3>3. Dispatched(n)' = Dispatched(n) \union {u} /\ u \notin Dispatched(n)
        BY <1>0, <2>2, <2>4, <2>5, <3>1, <3>2 DEF Dispatched, Waits
      <3>4. /\ IsFiniteSet(Dispatched(n)')
            /\ Cardinality(Dispatched(n)') = Cardinality(Dispatched(n)) + 1
        BY <1>0, <3>3, FS_AddElement DEF Counted
      <3>5. \A m \in Node \ {n} : Dispatched(m)' = Dispatched(m)
        BY <1>0, <2>2, <2>4, <2>5, <3>1 DEF Dispatched, Waits
      <3>6. pool.executing[n] + 1 <= Concurrency
        BY <1>0, <2>6, PoolAssumption DEF ShallExecuteTask
      <3> QED BY <1>0, <2>6, <3>4, <3>5, <3>6 DEF Counted
    <2>7. CASE /\ pool'.port = pool.port
               /\ Appended(Task, pool.queue, pool'.queue, n, u)
               /\ pool'.executing = pool.executing
      <3>1. \A t \in Task \ {u} : Waits(pool', t) <=> Waits(pool, t)
        BY <1>0, <2>4, <2>7, WaitsStill
      <3>2. Waits(pool', u)
        <4>1. NowhereIn(pool'.port, {TaskMessage(u)})
          BY <2>2, <2>7 DEF Nowhere, Away
        <4>2. ~Sent(pool', u)
          BY <4>1, OnceNotAbsent DEF Sent, OnceIn, NowhereIn
        <4> QED BY <2>3, <4>2
      <3>3. \A m \in Node : Dispatched(m)' = Dispatched(m)
        BY <1>0, <2>2, <2>4, <2>5, <3>1, <3>2 DEF Dispatched, Waits
      <3> QED BY <1>0, <2>7, <3>3 DEF Counted
    <2> QED BY <1>0, <1>1, <2>6, <2>7, SubmitEffect
  <1>2. ASSUME NEW u \in Task, AbortTask(u) PROVE Counted'
    <2> DEFINE n == promiseResponseMap[u]
    <2>1. n \in Node
      BY <1>0, <1>2 DEF AbortTask
    <2>2. CASE AbortQueuedTask(u, n)
      <3>1. /\ KeepsOthers(pool, pool', u)
            /\ Waits(pool, u)
        BY <1>0, <2>1, <2>2, AbortQueuedPlaces
      <3>2. /\ pool'.port = pool.port
            /\ pool'.executing = pool.executing
            /\ promiseResponseMap' = [promiseResponseMap EXCEPT ![u] = NoKey]
        BY <1>0, <2>2 DEF AbortQueuedTask, PoolState
      <3>3. \A t \in Task \ {u} : Waits(pool', t) <=> Waits(pool, t)
        BY <1>0, <3>1, <3>2, WaitsStill DEF KeepsOthers
      <3>4. \A m \in Node : Dispatched(m)' = Dispatched(m)
        BY <1>0, <3>1, <3>2, <3>3 DEF Dispatched, Waits
      <3> QED BY <1>0, <3>2, <3>4 DEF Counted
    <2>3. CASE /\ pool' = [pool EXCEPT !.port[n] = Append(@, AbortMessage(u))]
               /\ UNCHANGED <<promiseResponseMap, promise>>
      <3>1. KeepsAll(pool, pool')
        BY <1>0, <2>1, <2>3, AbortMessagePlaces
      <3>2. pool'.queue = pool.queue /\ pool'.executing = pool.executing
        BY <1>0, <2>3 DEF PoolState
      <3>3. \A m \in Node : Dispatched(m)' = Dispatched(m)
        BY <1>0, <2>3, <3>1, <3>2, WaitsStill, DispatchedSame DEF KeepsAll
      <3> QED BY <1>0, <3>2, <3>3 DEF Counted
    <2> QED BY <1>2, <2>2, <2>3 DEF AbortTask
  <1>3. ASSUME NEW n \in Node, WorkerMessage(n) PROVE Counted'
    <2>1. /\ pool'.queue = pool.queue
          /\ pool'.executing = pool.executing
          /\ UNCHANGED promiseResponseMap
      BY <1>0, <1>3 DEF WorkerMessage, PoolState
    <2>2. ASSUME NEW t \in Task PROVE Waits(pool', t) <=> Waits(pool, t)
      <3> DEFINE m == Head(pool.port[n])
      <3>1. CASE m.kind = "task" /\ m.task = t
        BY <1>0, <1>3, <3>1, WorkerMessagePlaces, PlaceIsOne
      <3>2. CASE ~(m.kind = "task" /\ m.task = t)
        <4>1. Keeps(pool, pool', t)
          BY <1>0, <1>3, <3>2, WorkerMessagePlaces DEF KeepsAll, KeepsOthers
        <4> QED BY <1>0, <2>1, <4>1, WaitsStill
      <3> QED BY <3>1, <3>2
    <2>3. \A m \in Node : Dispatched(m)' = Dispatched(m)
      BY <2>1, <2>2, DispatchedSame
    <2> QED BY <1>0, <2>1, <2>3 DEF Counted
  <1>4. ASSUME NEW n \in Node, NEW u \in Task, WorkerFinish(n, u) PROVE Counted'
    BY <1>0, <1>4 DEF WorkerFinish, Counted, Dispatched
  <1>5. ASSUME NEW m \in Node, TaskExecutionResponse(m) PROVE Counted'
    <2>0. PICK u \in Task : u = Head(fromWorker[m]).task
      BY <1>0, <1>5, ResponseTakenPlaces
    <2>1. promiseResponseMap[u] \in Node /\ Answered(u)
      BY <1>0, <1>5, <2>0, ResponseTakenPlaces
    <2>2. PICK k \in Node : k = promiseResponseMap[u]
      BY <2>1
    <2>3. /\ AfterTaskExecution(k)
          /\ promiseResponseMap' = [promiseResponseMap EXCEPT ![u] = NoKey]
      BY <1>0, <1>5, <2>0, <2>2 DEF TaskExecutionResponse
    <2>4. u \in Dispatched(k) /\ pool.executing[k] > 0
      BY <2>1, <2>2, DispatchedIsCounted
    <2>5. KeepsAll(pool, pool')
      BY <1>0, <2>3, AfterTaskExecutionPlaces DEF PlaceInv, IInv
    <2>6. /\ promiseResponseMap'[u] = NoKey
          /\ \A t \in Task \ {u} : promiseResponseMap'[t] = promiseResponseMap[t]
      BY <1>0, <2>3
    <2>7. /\ IsFiniteSet(Dispatched(k) \ {u})
          /\ Cardinality(Dispatched(k) \ {u}) = pool.executing[k] - 1
      BY <1>0, <2>4, FS_RemoveElement DEF Counted
    <2>8. CASE /\ pool'.queue = pool.queue
               /\ pool'.executing = [pool.executing EXCEPT ![k] = @ - 1]
      <3>1. \A t \in Task : Waits(pool', t) <=> Waits(pool, t)
        BY <1>0, <2>5, <2>8, WaitsStill DEF KeepsAll
      <3>2. Dispatched(k)' = Dispatched(k) \ {u}
        BY <1>0, <2>2, <2>6, <3>1 DEF Dispatched, Waits
      <3>3. \A n \in Node \ {k} : Dispatched(n)' = Dispatched(n)
        BY <1>0, <2>2, <2>6, <3>1 DEF Dispatched, Waits
      <3>4. pool.executing[k] - 1 <= Concurrency
        BY <1>0, PoolAssumption DEF Counted
      <3> QED BY <1>0, <2>7, <2>8, <3>2, <3>3, <3>4 DEF Counted
    <2>9. CASE \E x \in Task :
                  /\ HeadTaken(Task, pool.queue, pool'.queue, k, x)
                  /\ pool'.executing = pool.executing
      <3>1. PICK x \in Task : HeadTaken(Task, pool.queue, pool'.queue, k, x)
        BY <2>9
      <3>2. Waits(pool, x)
        <4>1. ~NowhereIn(pool.queue, {x})
          BY <3>1, TailInFamily
        <4> QED BY <1>0, <4>1 DEF Placed, Sent, Away
      <3>3. promiseResponseMap[x] = k
        <4>1. ~NotOn(x, k)
          BY <3>1, TailElsewhere DEF NotOn
        <4> QED BY <1>0, <4>1 DEF AtHome
      <3>4. ~Waits(pool', x)
        <4>1. NowhereIn(pool'.queue, {x})
          BY <3>1, <3>2, TailInFamily DEF Waits
        <4> QED BY <4>1, OnceNotAbsent DEF Waits, OnceIn, NowhereIn
      <3>5. \A t \in Task \ {x} : Waits(pool', t) <=> Waits(pool, t)
        <4> SUFFICES ASSUME NEW t \in Task \ {x} PROVE Waits(pool', t) <=> Waits(pool, t)
          OBVIOUS
        <4>1. Keeps(pool, pool', t)
          BY <2>5 DEF KeepsAll
        <4>2. x \notin {t}
          OBVIOUS
        <4>3. OnceIn(pool.queue, {t}) => OnceIn(pool'.queue, {t})
          BY <3>1, <4>2, TailInFamily
        <4> QED BY <1>0, <4>1, <4>3, WaitsStill DEF Waits
      <3>6. x # u /\ x \notin Dispatched(k)
        BY <2>4, <3>2 DEF Dispatched
      <3>7. Dispatched(k)' = (Dispatched(k) \ {u}) \union {x}
        BY <1>0, <2>2, <2>6, <3>3, <3>4, <3>5, <3>6 DEF Dispatched, Waits
      <3>8. \A n \in Node \ {k} : Dispatched(n)' = Dispatched(n)
        BY <1>0, <2>2, <2>6, <3>3, <3>5 DEF Dispatched, Waits
      <3>9. /\ IsFiniteSet(Dispatched(k)')
            /\ Cardinality(Dispatched(k)') = (pool.executing[k] - 1) + 1
        <4> DEFINE D == Dispatched(k) \ {u}
        <4>1. x \notin D
          BY <3>6
        <4> HIDE DEF D
        <4>2. /\ IsFiniteSet(D \union {x})
              /\ Cardinality(D \union {x}) = Cardinality(D) + 1
          BY <2>7, <4>1, FS_AddElement DEF D
        <4> QED BY <2>7, <3>7, <4>2 DEF D
      <3>10. pool.executing[k] \in Nat
        BY <1>0
      <3> QED BY <1>0, <2>9, <3>8, <3>9, <3>10 DEF Counted
    <2> QED BY <1>0, <2>3, <2>4, <2>8, <2>9, ResponseEffect
  <1>6. ASSUME NEW n \in Node, StealingLoop(n) PROVE FALSE
    BY <1>0, <1>6 DEF StealingLoop
  <1> QED BY <1>1, <1>2, <1>3, <1>4, <1>5, <1>6 DEF Next

(* The abort messages in a port to which a message is sent, or from which   *)
(* one is taken                                                             *)
LEMMA AbortsInPort ==
    ASSUME NEW f, NEW g, NEW n, NEW x, Appended(Message, f, g, n, x), NEW t
    PROVE  /\ \A m \in Node : AbortIn(f[m], t) => AbortIn(g[m], t)
           /\ x # TaskMessage(t) => \A m \in Node : AbortBehind(f[m], t) => AbortBehind(g[m], t)
           /\ x = AbortMessage(t) => AbortIn(g[n], t) /\ AbortBehind(g[n], t)
  <1>1. /\ n \in Node /\ x \in Message
        /\ f[n] \in Seq(Message)
        /\ g[n] = Append(f[n], x)
        /\ \A m \in Node \ {n} : g[m] = f[m]
    BY DEF Appended
  <1>2. /\ AbortIn(f[n], t) => AbortIn(g[n], t)
        /\ x # TaskMessage(t) /\ AbortBehind(f[n], t) => AbortBehind(g[n], t)
        /\ x = AbortMessage(t) => AbortIn(g[n], t) /\ AbortBehind(g[n], t)
    BY <1>1, AppendAborts
  <1> QED BY <1>1, <1>2

LEMMA AbortsFromPort ==
    ASSUME NEW f, NEW g, NEW n, NEW x, HeadTaken(Message, f, g, n, x), NEW t
    PROVE  /\ \A m \in Node : AbortBehind(f[m], t) => AbortBehind(g[m], t)
           /\ \A m \in Node : (m # n \/ x # AbortMessage(t)) /\ AbortIn(f[m], t) => AbortIn(g[m], t)
           /\ x = TaskMessage(t) /\ AbortBehind(f[n], t) => AbortIn(g[n], t)
  <1>1. /\ n \in Node
        /\ f[n] \in Seq(Message) /\ f[n] # <<>>
        /\ x = Head(f[n])
        /\ g[n] = Tail(f[n])
        /\ \A m \in Node \ {n} : g[m] = f[m]
    BY DEF HeadTaken
  <1>2. /\ x # AbortMessage(t) /\ AbortIn(f[n], t) => AbortIn(g[n], t)
        /\ AbortBehind(f[n], t) => AbortBehind(g[n], t)
        /\ x = TaskMessage(t) /\ AbortBehind(f[n], t) => AbortIn(g[n], t)
    BY <1>1, TailAborts
  <1> QED BY <1>1, <1>2

(* The abort messages still come. *)
LEMMA NextAborts ==
    ASSUME NoStealing, HomeInv, PlaceInv', Next, NEW t \in aborted'
    PROVE  AbortComes(t)'
  <1>a. /\ PlaceInv
        /\ TypeOK
        /\ pool \in PoolState
        /\ Placed(pool)
        /\ TaskPlaced(t) /\ AtHome(t)
        /\ t \in Task
    <2>1. Placed(pool)
      BY TasksPlacedInPool DEF HomeInv, PlaceInv
    <2>2. PlaceInv /\ TypeOK /\ \A u \in Task : TaskPlaced(u) /\ AtHome(u)
      BY DEF HomeInv, PlaceInv, IInv, TasksPlaced
    <2>3. t \in Task
      BY PoolAssumption DEF PlaceInv, IInv, TypeOK
    <2> QED BY <2>1, <2>2, <2>3 DEF TypeOK
  <1>b. /\ pool.queue \in [Node -> Seq(Task)]
        /\ pool.port \in [Node -> Seq(Message)]
        /\ running \in [Node -> SUBSET Task]
        /\ promise \in [Task -> {"none", "pending"} \union Settled]
        /\ promiseResponseMap \in [Task -> Node \union {NoKey}]
        /\ timers = [m \in Node |-> 0]
        /\ t \in aborted => AbortComes(t)
    BY <1>a DEF HomeInv, TypeOK, PoolState
  <1>c. \A u : TaskMessage(t) # AbortMessage(u)
    BY DEF TaskMessage, AbortMessage
  <1> SUFFICES ASSUME promise'[t] = "pending" PROVE AbortComes(t)'
    <2>1. ASSUME promise'[t] # "pending", promise'[t] # "none" PROVE AbortComes(t)'
      <3>1. Nowhere(t)'
        BY <1>a, <2>1 DEF PlaceInv, TasksPlaced, TaskPlaced
      <3>2. \A n \in Node : AbortBehind(pool'.port[n], t) /\ t \notin running'[n]
        BY <3>1 DEF Nowhere, Away, NowhereIn, RunsNowhere, Absent, AbortBehind
      <3>3. ~Waits(pool', t)
        BY <3>1, PlaceIsOne DEF Nowhere, Away
      <3> QED BY <2>1, <3>2, <3>3 DEF AbortComes, Waits, AbortIn
    <2>2. promise'[t] # "none"
      <3>1. promise[t] # "none"
        BY <1>a, <1>b DEF AbortComes, Next, AbortTask, Submit, WorkerMessage, WorkerFinish,
                            TaskExecutionResponse, StealingLoop, HomeInv, PlaceInv, IInv,
                            EntryIffPending
      <3>2. CASE promise'[t] = promise[t]
        BY <3>1, <3>2
      <3>3. CASE promise'[t] # promise[t]
        BY <1>a, <1>b, <3>3 DEF Next, Submit, AbortTask, AbortQueuedTask, WorkerMessage,
                                 WorkerFinish, TaskExecutionResponse, StealingLoop
      <3> QED BY <3>2, <3>3
    <2> QED BY <2>1, <2>2
  <1>1. ASSUME NEW u \in Task, NEW n \in Node, Submit(u, n) PROVE AbortComes(t)'
    <2>1. /\ promise[u] = "none"
          /\ pool' \in HandleTask(pool, n, u)
          /\ UNCHANGED <<running, aborted>>
      BY <1>1 DEF Submit
    <2>2. AbortComes(t) /\ t # u
      BY <1>b, <2>1 DEF AbortComes
    <2>3. Nowhere(u)
      BY <2>1 DEF HomeInv, PlaceInv, TasksPlaced, TaskPlaced
    <2>4. Keeps(pool, pool', t)
      BY <1>a, <2>1, <2>2, <2>3, HandleTaskPlaces DEF Nowhere, PlaceInv, IInv, KeepsOthers
    <2>5. ~Waits(pool', t)
      BY <1>a, <2>2, <2>4, WaitsStill DEF AbortComes
    <2>6. \A m \in Node : /\ AbortBehind(pool.port[m], t) => AbortBehind(pool'.port[m], t)
                          /\ AbortIn(pool.port[m], t) => AbortIn(pool'.port[m], t)
      <3>1. CASE pool'.port = pool.port
        BY <3>1
      <3>2. CASE Appended(Message, pool.port, pool'.port, n, TaskMessage(u))
        BY <2>2, <3>2, AbortsInPort, TaskMessageInjective
      <3> QED BY <1>a, <1>1, <3>1, <3>2, SubmitEffect
    <2> QED BY <2>1, <2>2, <2>5, <2>6 DEF AbortComes, Waits, AbortIn, AbortBehind
  <1>2. ASSUME NEW u \in Task, AbortTask(u) PROVE AbortComes(t)'
    <2> DEFINE n == promiseResponseMap[u]
    <2>1. /\ n \in Node
          /\ UNCHANGED running
          /\ aborted' = aborted \union {u}
      BY <1>b, <1>2 DEF AbortTask
    <2>2. CASE AbortQueuedTask(u, n)
      <3>1. KeepsOthers(pool, pool', u)
        BY <1>a, <2>1, <2>2, AbortQueuedPlaces
      <3>2. t # u
        BY <1>b, <2>2 DEF AbortQueuedTask
      <3>3. AbortComes(t)
        BY <1>b, <2>1, <3>2
      <3>4. pool'.port = pool.port
        BY <1>a, <2>2 DEF AbortQueuedTask, PoolState
      <3>5. ~Waits(pool', t)
        BY <1>a, <3>1, <3>2, <3>3, WaitsStill DEF AbortComes, KeepsOthers
      <3> QED BY <2>1, <3>3, <3>4, <3>5 DEF AbortComes, Waits, AbortIn, AbortBehind
    <2>3. CASE /\ \A i \in DOMAIN pool.queue[n] : pool.queue[n][i] # u
               /\ pool' = [pool EXCEPT !.port[n] = Append(@, AbortMessage(u))]
               /\ UNCHANGED promise
      <3>1. Appended(Message, pool.port, pool'.port, n, AbortMessage(u))
        <4>1. AbortMessage(u) \in Message
          BY DEF AbortMessage, Message
        <4> QED BY <1>a, <1>b, <2>1, <2>3, <4>1 DEF Appended, PoolState
      <3>2. pool'.queue = pool.queue
        BY <1>a, <2>3 DEF PoolState
      <3>3. KeepsAll(pool, pool')
        BY <1>a, <2>1, <2>3, AbortMessagePlaces
      <3>4. CASE t # u
        <4>1. AbortComes(t)
          BY <1>b, <2>1, <3>4
        <4>2. ~Waits(pool', t)
          BY <1>a, <3>3, <4>1, WaitsStill DEF AbortComes, KeepsAll
        <4>3. \A m \in Node : /\ AbortBehind(pool.port[m], t) => AbortBehind(pool'.port[m], t)
                              /\ AbortIn(pool.port[m], t) => AbortIn(pool'.port[m], t)
          BY <1>c, <3>1, AbortsInPort
        <4> QED BY <2>1, <4>1, <4>2, <4>3 DEF AbortComes, Waits, AbortIn, AbortBehind
      <3>5. CASE t = u
        <4>1. \A m \in Node \ {n} : NotOn(t, m)
          BY <1>a, <3>5 DEF AtHome
        <4>2. ~Waits(pool', t)
          <5>1. Absent(pool.queue[n], {t})
            BY <2>3, <3>5 DEF Absent
          <5>2. NowhereIn(pool.queue, {t})
            BY <4>1, <5>1 DEF NowhereIn, NotOn
          <5> QED BY <3>2, <5>2, OnceNotAbsent DEF Waits, OnceIn, NowhereIn
        <4>3. AbortIn(pool'.port[n], t) /\ AbortBehind(pool'.port[n], t)
          BY <3>1, <3>5, AbortsInPort
        <4>4. \A m \in Node \ {n} : AbortBehind(pool'.port[m], t) /\ t \notin running[m]
          <5>1. \A m \in Node \ {n} : AbortBehind(pool.port[m], t)
            BY <4>1 DEF NotOn, Absent, AbortBehind
          <5> QED BY <1>c, <3>1, <4>1, <5>1, AbortsInPort DEF NotOn
        <4>5. promise'[t] # "none"
          OBVIOUS
        <4> QED BY <2>1, <4>2, <4>3, <4>4, <4>5 DEF AbortComes, Waits, AbortIn, AbortBehind
      <3> QED BY <3>4, <3>5
    <2> QED BY <1>2, <2>2, <2>3 DEF AbortTask
  <1>3. ASSUME NEW n \in Node, WorkerMessage(n) PROVE AbortComes(t)'
    <2>1. PICK x \in Message : x = Head(pool.port[n])
      BY <1>a, <1>b, <1>3, HeadTail DEF WorkerMessage
    <2>2. /\ pool' = [pool EXCEPT !.port[n] = Tail(@)]
          /\ \/ x.kind = "task" /\ Run(n, x.task)
             \/ x.kind = "abort" /\ Respond(n, x.task, "aborted")
             \/ x.kind = "abort" /\ x.task \notin running[n] /\ UNCHANGED running
          /\ UNCHANGED aborted
      BY <1>3, <2>1 DEF WorkerMessage
    <2>3. AbortComes(t)
      BY <1>b, <2>2
    <2>4. HeadTaken(Message, pool.port, pool'.port, n, x)
      BY <1>a, <1>b, <1>3, <2>1, <2>2 DEF HeadTaken, PoolState, WorkerMessage
    <2>5. ~Waits(pool', t)
      <3>1. CASE x.kind = "task" /\ x.task = t
        BY <1>a, <1>3, <2>1, <3>1, WorkerMessagePlaces, PlaceIsOne
      <3>2. CASE ~(x.kind = "task" /\ x.task = t)
        <4>1. Keeps(pool, pool', t)
          BY <1>a, <1>3, <2>1, <3>2, WorkerMessagePlaces DEF KeepsAll, KeepsOthers
        <4> QED BY <1>a, <2>3, <4>1, WaitsStill DEF AbortComes
      <3> QED BY <3>1, <3>2
    <2>6. \A m \in Node : AbortBehind(pool'.port[m], t)
      BY <2>3, <2>4, AbortsFromPort DEF AbortComes
    <2>7. ASSUME NEW m \in Node, t \in running'[m] PROVE AbortIn(pool'.port[m], t)
      <3>1. CASE x.kind = "task" /\ Run(n, x.task) /\ x.task = t /\ m = n
        <4>1. x = TaskMessage(t)
          BY <2>1, <3>1 DEF Message, TaskMessage
        <4> QED BY <2>3, <2>4, <3>1, <4>1, AbortsFromPort DEF AbortComes
      <3>2. CASE x.kind = "task" /\ Run(n, x.task) /\ ~(x.task = t /\ m = n)
        <4>1. t \in running[m]
          BY <1>b, <2>7, <3>2 DEF Run
        <4>2. x # AbortMessage(t)
          BY <3>2 DEF AbortMessage
        <4> QED BY <2>3, <2>4, <4>1, <4>2, AbortsFromPort DEF AbortComes
      <3>3. CASE \/ x.kind = "abort" /\ Respond(n, x.task, "aborted")
                 \/ x.kind = "abort" /\ x.task \notin running[n] /\ UNCHANGED running
        <4>1. t \in running[m] /\ ~(x.task = t /\ m = n)
          BY <1>b, <2>7, <3>3 DEF Respond
        <4>2. m = n => x # AbortMessage(t)
          BY <4>1 DEF AbortMessage
        <4> QED BY <2>3, <2>4, <4>1, <4>2, AbortsFromPort DEF AbortComes
      <3> QED BY <2>2, <3>1, <3>2, <3>3
    <2>8. promise'[t] # "none"
      OBVIOUS
    <2> QED BY <2>5, <2>6, <2>7, <2>8 DEF AbortComes, Waits, AbortIn, AbortBehind
  <1>4. ASSUME NEW n \in Node, NEW u \in Task, WorkerFinish(n, u) PROVE AbortComes(t)'
    <2>1. /\ AbortComes(t)
          /\ UNCHANGED pool
          /\ running' = [running EXCEPT ![n] = @ \ {u}]
      BY <1>b, <1>4 DEF WorkerFinish, Respond
    <2>2. \A m \in Node : t \in running'[m] => t \in running[m]
      BY <1>b, <2>1
    <2>3. promise'[t] # "none"
      OBVIOUS
    <2> QED BY <2>1, <2>2, <2>3 DEF AbortComes, Waits, AbortIn, AbortBehind
  <1>5. ASSUME NEW m \in Node, TaskExecutionResponse(m) PROVE AbortComes(t)'
    <2>0. PICK u \in Task : u = Head(fromWorker[m]).task
      BY <1>a, <1>5, ResponseTakenPlaces
    <2>1. promiseResponseMap[u] \in Node /\ Answered(u)
      BY <1>a, <1>5, <2>0, ResponseTakenPlaces
    <2>2. PICK k \in Node : k = promiseResponseMap[u]
      BY <2>1
    <2>3. /\ AfterTaskExecution(k)
          /\ UNCHANGED <<aborted, running>>
      BY <1>5, <2>0, <2>2 DEF TaskExecutionResponse, Node, NoKey
    <2>4. pool.executing[k] > 0
      BY <2>1, <2>2, DispatchedIsCounted
    <2>5. AbortComes(t)
      BY <1>b, <2>3
    <2>6. KeepsAll(pool, pool')
      BY <1>a, <2>3, AfterTaskExecutionPlaces DEF PlaceInv, IInv
    <2>7. ~Waits(pool', t)
      BY <1>a, <2>5, <2>6, WaitsStill DEF AbortComes, KeepsAll
    <2>8. \A n \in Node : /\ AbortBehind(pool.port[n], t) => AbortBehind(pool'.port[n], t)
                          /\ AbortIn(pool.port[n], t) => AbortIn(pool'.port[n], t)
      <3>1. CASE pool'.port = pool.port
        BY <3>1
      <3>2. CASE \E x \in Task : /\ HeadTaken(Task, pool.queue, pool'.queue, k, x)
                                 /\ Appended(Message, pool.port, pool'.port, k, TaskMessage(x))
        <4>1. PICK x \in Task : /\ HeadTaken(Task, pool.queue, pool'.queue, k, x)
                                /\ Appended(Message, pool.port, pool'.port, k, TaskMessage(x))
          BY <3>2
        <4>2. Waits(pool, x)
          <5>1. ~NowhereIn(pool.queue, {x})
            BY <4>1, TailInFamily
          <5> QED BY <1>a, <5>1 DEF Placed, Sent, Away
        <4>3. TaskMessage(x) # TaskMessage(t)
          BY <2>5, <4>2, TaskMessageInjective DEF AbortComes
        <4> QED BY <4>1, <4>3, AbortsInPort
      <3> QED BY <1>a, <2>3, <2>4, <3>1, <3>2, ResponseEffect
    <2>9. promise'[t] # "none"
      OBVIOUS
    <2> QED BY <2>3, <2>5, <2>7, <2>8, <2>9 DEF AbortComes, Waits, AbortIn, AbortBehind
  <1>6. ASSUME NEW n \in Node, StealingLoop(n) PROVE FALSE
    BY <1>b, <1>6 DEF StealingLoop
  <1> QED BY <1>1, <1>2, <1>3, <1>4, <1>5, <1>6 DEF Next

-----------------------------------------------------------------------------
LEMMA InitHomeInv == Init => HomeInv
  <1> SUFFICES ASSUME Init PROVE HomeInv
    OBVIOUS
  <1>1. PlaceInv
    BY InitPlaceInv
  <1>2. \A t \in Task : AtHome(t)
    <2>1. \A t \in Task : Nowhere(t)
      BY <1>1 DEF Init, PlaceInv, TasksPlaced, TaskPlaced
    <2> QED BY <2>1, NowhereAtHome DEF AtHome
  <1>3. \A n \in Node : Dispatched(n) = {}
    BY DEF Init, Dispatched, Node, NoKey
  <1>4. Counted
    <2>1. IsFiniteSet({}) /\ Cardinality({}) = 0
      BY FS_EmptySet
    <2>2. \A n \in Node : pool.executing[n] = 0
      BY DEF Init
    <2>3. 0 <= Concurrency
      BY PoolAssumption
    <2> QED BY <1>3, <2>1, <2>2, <2>3 DEF Counted
  <1> QED BY <1>1, <1>2, <1>4 DEF HomeInv, Init

LEMMA NextHomeInv == NoStealing /\ HomeInv /\ [Next]_vars => HomeInv'
  <1> SUFFICES ASSUME NoStealing, HomeInv, [Next]_vars PROVE HomeInv'
    OBVIOUS
  <1>1. PlaceInv'
    BY NextPlaceInv DEF HomeInv
  <1>2. CASE Next
    <2>1. timers' = timers
      <3>1. ASSUME NEW n \in Node, TaskExecutionResponse(n) PROVE timers' = timers
        BY <3>1 DEF TaskExecutionResponse, AfterTaskExecution, NoStealing
      <3>2. ASSUME NEW n \in Node, StealingLoop(n) PROVE FALSE
        BY <3>2 DEF StealingLoop, HomeInv
      <3> QED BY <1>2, <3>1, <3>2 DEF Next, Submit, AbortTask, WorkerMessage, WorkerFinish
    <2>2. \A t \in Task : AtHome(t)'
      BY <1>1, <1>2, NextAtHome
    <2>3. Counted'
      BY <1>2, NextCounted
    <2>4. \A t \in aborted' : AbortComes(t)'
      BY <1>1, <1>2, NextAborts
    <2> QED BY <1>1, <2>1, <2>2, <2>3, <2>4 DEF HomeInv
  <1>3. CASE UNCHANGED vars
    <2>1. \A t, n : NotOn(t, n)' <=> NotOn(t, n)
      BY <1>3 DEF vars, NotOn, ResponsesOf
    <2>2. \A t : AtHome(t) => AtHome(t)'
      BY <1>3, <2>1 DEF vars, AtHome
    <2>3. Counted'
      BY <1>3 DEF vars, HomeInv, Counted, Dispatched, Waits
    <2>4. \A t : AbortComes(t) => AbortComes(t)'
      BY <1>3 DEF vars, AbortComes, Waits, AbortIn, AbortBehind
    <2> QED BY <1>1, <1>3, <2>2, <2>3, <2>4 DEF vars, HomeInv
  <1> QED BY <1>2, <1>3

(* The inductive invariant of this module: when no node steals, each task   *)
(* stays on the node kept in promiseResponseMap, whose counter counts it,   *)
(* and the abort of a task follows it.                                      *)
THEOREM HomeInvariance ==
    ASSUME NoStealing
    PROVE  Spec => []HomeInv
  <1>1. HomeInv /\ [Next]_vars => HomeInv'
    BY NextHomeInv
  <1> QED BY InitHomeInv, <1>1, PTL DEF Spec

(* The counter of a node is the number of tasks it has in flight, whatever  *)
(* the number of workers and tasks and the concurrency: handing a task to a *)
(* worker, its response and the dequeue that follows keep it exact.         *)
THEOREM CounterIsExact ==
    ASSUME NoStealing
    PROVE  Spec => []ExecutingIsInFlight
  <1>1. HomeInv => ExecutingIsInFlight
    BY InFlightIsDispatched DEF HomeInv, Counted, ExecutingIsInFlight
  <1> QED BY <1>1, HomeInvariance, PTL

(* No worker has more tasks than `concurrency` at once. *)
THEOREM ConcurrencyRespected ==
    ASSUME NoStealing
    PROVE  Spec => []MaxConcurrency
  <1>1. HomeInv => MaxConcurrency
    <2> SUFFICES ASSUME HomeInv, NEW n \in Node
                 PROVE  Cardinality(InFlight(n)) <= Concurrency
      BY DEF MaxConcurrency
    <2> QED BY InFlightIsDispatched DEF HomeInv, Counted
  <1> QED BY <1>1, HomeInvariance, PTL

(* Aborting a signal reaches the task: an aborted task waits in no queue,   *)
(* and its abort message is in the port of the worker that will run it or   *)
(* runs it.                                                                 *)
THEOREM AbortsArrive ==
    ASSUME NoStealing
    PROVE  Spec => []AbortReachesTask
  <1>1. HomeInv => AbortReachesTask
    <2> SUFFICES ASSUME HomeInv, NEW t \in aborted
                 PROVE  /\ ~Queued(t)
                        /\ \A n \in Node : PortPlaces(t, n) # {} \/ t \in running[n] =>
                              \E i \in DOMAIN pool.port[n] : pool.port[n][i] = AbortMessage(t)
      BY DEF AbortReachesTask
    <2>1. t \in Task
      BY PoolAssumption DEF HomeInv, PlaceInv, IInv, TypeOK
    <2>2. AbortComes(t)
      BY DEF HomeInv
    <2>3. ~Queued(t)
      BY <2>1, <2>2, LifePlace DEF HomeInv, LifeIsPlace, AbortComes
    <2>4. ASSUME NEW n \in Node, PortPlaces(t, n) # {} PROVE AbortIn(pool.port[n], t)
      BY <2>2, <2>4 DEF AbortComes, AbortBehind, PortPlaces, AbortIn
    <2>5. ASSUME NEW n \in Node, t \in running[n] PROVE AbortIn(pool.port[n], t)
      BY <2>2, <2>5 DEF AbortComes
    <2> QED BY <2>3, <2>4, <2>5 DEF AbortIn
  <1> QED BY <1>1, HomeInvariance, PTL
=============================================================================
