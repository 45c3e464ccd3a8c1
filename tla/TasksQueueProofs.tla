-------------------------- MODULE TasksQueueProofs --------------------------
(***************************************************************************)
(* Theorems about TasksQueue, for every number of workers, set of tasks    *)
(* and tasks queue options: no task stays in a queue nothing empties, no   *)
(* step loses a queued task, and the events of the pool end.               *)
(***************************************************************************)
EXTENDS TasksQueue, FiniteSetTheorems, SequenceTheorems, NaturalsInduction,
        WellFoundedInduction, TLAPS

-----------------------------------------------------------------------------
(* The state of a pool *)

LEMMA PoolFields ==
    ASSUME NEW p \in PoolState
    PROVE  /\ p.nodes \in Seq(Worker) /\ p.ready \in [Worker -> BOOLEAN]
           /\ p.queue \in [Worker -> Seq(Task)] /\ p.limit \in [Worker -> Nat]
           /\ p.backPressure \in [Worker -> BOOLEAN] /\ p.executing \in [Worker -> Nat]
           /\ p.running \in [Worker -> SUBSET Task]
           /\ p.busyEventEmitted \in BOOLEAN /\ p.backPressureEventEmitted \in BOOLEAN
  BY DEF PoolState

(* The nodes, their readiness and limits are those of p *)
SameNodes(r, p) == r.nodes = p.nodes /\ r.ready = p.ready /\ r.limit = p.limit

LEMMA QuotaType ==
    ASSUME options \in QueueOptions \union {Disabled}
    PROVE  Quota \in Nat /\ Quota >= 1 /\ (Enabled => options.concurrency = Quota)
  BY TasksQueueAssumption DEF Quota, Enabled

TaskExecuted(r, p, w, t) ==
    /\ r \in PoolState /\ SameNodes(r, p)
    /\ r.queue = p.queue /\ r.backPressure = p.backPressure
    /\ r.backPressureEventEmitted = p.backPressureEventEmitted
    /\ r.executing = [p.executing EXCEPT ![w] = @ + 1]
    /\ r.running = [p.running EXCEPT ![w] = @ \union {t}]
    /\ r.busyEventEmitted = (p.busyEventEmitted \/ InternalBusy(r))

LEMMA ExecuteTaskFields ==
    ASSUME NEW p \in PoolState, NEW w \in Worker, NEW t \in Task, NEW r, r = ExecuteTask(p, w, t)
    PROVE  TaskExecuted(r, p, w, t)
<1> DEFINE q == [p EXCEPT !.executing[w] = @ + 1, !.running[w] = @ \union {t}]
<1>1. /\ q \in PoolState /\ SameNodes(q, p)
      /\ q.queue = p.queue /\ q.backPressure = p.backPressure
      /\ q.backPressureEventEmitted = p.backPressureEventEmitted
      /\ q.busyEventEmitted = p.busyEventEmitted
      /\ q.executing = [p.executing EXCEPT ![w] = @ + 1]
      /\ q.running = [p.running EXCEPT ![w] = @ \union {t}]
  <2> DEFINE executing == [p.executing EXCEPT ![w] = @ + 1]
             running == [p.running EXCEPT ![w] = @ \union {t}]
  <2>1. executing \in [Worker -> Nat] /\ running \in [Worker -> SUBSET Task]
    BY PoolFields
  <2>2. q = [p EXCEPT !.executing = executing, !.running = running]
    OBVIOUS
  <2> HIDE DEF q, executing, running
  <2>3. /\ q \in PoolState /\ SameNodes(q, p)
        /\ q.queue = p.queue /\ q.backPressure = p.backPressure
        /\ q.backPressureEventEmitted = p.backPressureEventEmitted
        /\ q.busyEventEmitted = p.busyEventEmitted
        /\ q.executing = executing /\ q.running = running
    BY <2>1, <2>2 DEF PoolState, SameNodes
  <2> QED
    BY <2>3 DEF executing, running
<1>2. r = [q EXCEPT !.busyEventEmitted = @ \/ InternalBusy(q)]
  BY DEF ExecuteTask, BusyChecked
<1> HIDE DEF q
<1>3. (q.busyEventEmitted \/ InternalBusy(q)) \in BOOLEAN
  OBVIOUS
<1>4. /\ r \in PoolState /\ SameNodes(r, q) /\ r.queue = q.queue
      /\ r.backPressure = q.backPressure /\ r.executing = q.executing /\ r.running = q.running
      /\ r.backPressureEventEmitted = q.backPressureEventEmitted
      /\ r.busyEventEmitted = (q.busyEventEmitted \/ InternalBusy(q))
  BY <1>1, <1>2, <1>3 DEF PoolState, SameNodes
<1>5. InternalBusy(r) <=> InternalBusy(q)
  BY <1>4 DEF InternalBusy, Members, IsWorkerNodeBusy, SameNodes
<1>6. r.busyEventEmitted = (p.busyEventEmitted \/ InternalBusy(r))
  BY <1>1, <1>4, <1>5
<1>7. SameNodes(r, p)
  BY <1>1, <1>4 DEF SameNodes
<1> QED
  BY <1>1, <1>4, <1>6, <1>7 DEF TaskExecuted

LEMMA BackPressureSame ==
    ASSUME NEW p, NEW r, SameNodes(r, p), r.backPressure = p.backPressure
    PROVE  InternalBackPressure(r) <=> InternalBackPressure(p)
  BY DEF InternalBackPressure, Members, SameNodes

(* What EnqueueTask and DequeueTask have in common *)
Requeued(p, w, queue, flag, emitted) ==
    [p EXCEPT !.queue = [p.queue EXCEPT ![w] = queue],
              !.backPressure = [p.backPressure EXCEPT ![w] = flag],
              !.backPressureEventEmitted = emitted]

LEMMA QueueChanged ==
    ASSUME NEW p \in PoolState, NEW w \in Worker, NEW queue \in Seq(Task),
           NEW flag \in BOOLEAN, NEW emitted \in BOOLEAN, NEW r,
           r = Requeued(p, w, queue, flag, emitted)
    PROVE  /\ r \in PoolState /\ SameNodes(r, p)
           /\ r.executing = p.executing /\ r.running = p.running
           /\ r.busyEventEmitted = p.busyEventEmitted
           /\ r.queue = [p.queue EXCEPT ![w] = queue]
           /\ r.backPressure = [p.backPressure EXCEPT ![w] = flag]
           /\ r.backPressureEventEmitted = emitted
  BY DEF PoolState, SameNodes, Requeued

TaskEnqueued(r, p, w, t) ==
    /\ r \in PoolState /\ SameNodes(r, p)
    /\ r.executing = p.executing /\ r.running = p.running
    /\ r.busyEventEmitted = p.busyEventEmitted
    /\ r.queue = [p.queue EXCEPT ![w] = Append(@, t)]
    /\ r.backPressure = [p.backPressure EXCEPT ![w] = @ \/ HasBackPressure(r, w)]
    /\ r.backPressureEventEmitted = (p.backPressureEventEmitted \/ InternalBackPressure(r))

LEMMA EnqueueTaskFields ==
    ASSUME NEW p \in PoolState, NEW w \in Worker, NEW t \in Task, NEW r, r = EnqueueTask(p, w, t)
    PROVE  TaskEnqueued(r, p, w, t)
<1> DEFINE q == Enqueued(p, w, t)
           flagged == Flagged(q, w)
           longer == Append(p.queue[w], t)
           flag == p.backPressure[w] \/ HasBackPressure(q, w)
           emitted == p.backPressureEventEmitted \/ InternalBackPressure(flagged)
<1>1. longer \in Seq(Task)
  BY PoolFields
<1>2. flag \in BOOLEAN /\ emitted \in BOOLEAN
  OBVIOUS
<1>3. q = [p EXCEPT !.queue = [p.queue EXCEPT ![w] = longer]]
  BY DEF Enqueued
<1>4. q.backPressure = p.backPressure
  BY <1>3 DEF PoolState
<1>5. flagged = [q EXCEPT !.backPressure = [p.backPressure EXCEPT ![w] = flag]]
  <2>1. flagged = [q EXCEPT !.backPressure = [q.backPressure EXCEPT ![w] = @ \/ HasBackPressure(q, w)]]
    BY DEF Flagged
  <2> QED
    BY <1>4, <2>1
<1>6. flagged.backPressureEventEmitted = p.backPressureEventEmitted
  <2> HIDE DEF flag, longer, q, flagged
  <2> QED
    BY <1>3, <1>5 DEF PoolState
<1>7. r = [flagged EXCEPT !.backPressureEventEmitted = emitted]
  <2>1. r = [flagged EXCEPT !.backPressureEventEmitted = @ \/ InternalBackPressure(flagged)]
    BY DEF EnqueueTask, BackPressureChecked
  <2> HIDE DEF flagged
  <2> QED
    BY <1>6, <2>1
<1> HIDE DEF q, flagged, longer, flag, emitted
<1>8. r = Requeued(p, w, longer, flag, emitted)
  BY <1>3, <1>5, <1>7 DEF Requeued
<1>9. /\ r \in PoolState /\ SameNodes(r, p)
      /\ r.executing = p.executing /\ r.running = p.running
      /\ r.busyEventEmitted = p.busyEventEmitted
      /\ r.queue = [p.queue EXCEPT ![w] = longer]
      /\ r.backPressure = [p.backPressure EXCEPT ![w] = flag]
      /\ r.backPressureEventEmitted = emitted
  BY <1>1, <1>2, <1>8, QueueChanged
<1>10. HasBackPressure(r, w) <=> HasBackPressure(q, w)
  <2>1. r.queue = q.queue /\ r.limit = q.limit
    BY <1>3, <1>9 DEF SameNodes, PoolState
  <2> QED
    BY <2>1 DEF HasBackPressure
<1>11. InternalBackPressure(r) <=> InternalBackPressure(flagged)
  <2>1. flagged.nodes = p.nodes /\ flagged.ready = p.ready /\ flagged.limit = p.limit
        /\ flagged.backPressure = r.backPressure
    BY <1>3, <1>5, <1>9 DEF PoolState
  <2> QED
    BY <1>9, <2>1, BackPressureSame DEF SameNodes
<1>12. r.queue = [p.queue EXCEPT ![w] = Append(@, t)]
  BY <1>9 DEF longer
<1>13. r.backPressure = [p.backPressure EXCEPT ![w] = @ \/ HasBackPressure(r, w)]
  BY <1>9, <1>10 DEF flag
<1>14. r.backPressureEventEmitted = (p.backPressureEventEmitted \/ InternalBackPressure(r))
  BY <1>9, <1>11 DEF emitted
<1> QED
  BY <1>9, <1>12, <1>13, <1>14 DEF TaskEnqueued

TaskDequeued(r, p, w) ==
    /\ r \in PoolState /\ SameNodes(r, p)
    /\ r.executing = p.executing /\ r.running = p.running
    /\ r.busyEventEmitted = p.busyEventEmitted
    /\ r.queue = [p.queue EXCEPT ![w] = Tail(@)]
    /\ r.backPressure = [p.backPressure EXCEPT ![w] = @ /\ HasBackPressure(r, w)]
    /\ r.backPressureEventEmitted = (p.backPressureEventEmitted /\ InternalBackPressure(r))

LEMMA DequeueTaskFields ==
    ASSUME NEW p \in PoolState, NEW w \in Worker, p.queue[w] # <<>>, NEW r, r = DequeueTask(p, w)
    PROVE  TaskDequeued(r, p, w)
<1> DEFINE q == Dequeued(p, w)
           unflagged == Unflagged(q, w)
           shorter == Tail(p.queue[w])
           flag == p.backPressure[w] /\ HasBackPressure(q, w)
           emitted == p.backPressureEventEmitted /\ InternalBackPressure(unflagged)
<1>1. shorter \in Seq(Task)
  BY PoolFields
<1>2. flag \in BOOLEAN /\ emitted \in BOOLEAN
  OBVIOUS
<1>3. q = [p EXCEPT !.queue = [p.queue EXCEPT ![w] = shorter]]
  BY DEF Dequeued
<1>4. q.backPressure = p.backPressure
  BY <1>3 DEF PoolState
<1>5. unflagged = [q EXCEPT !.backPressure = [p.backPressure EXCEPT ![w] = flag]]
  <2>1. unflagged = [q EXCEPT !.backPressure = [q.backPressure EXCEPT ![w] = @ /\ HasBackPressure(q, w)]]
    BY DEF Unflagged
  <2> QED
    BY <1>4, <2>1
<1>6. unflagged.backPressureEventEmitted = p.backPressureEventEmitted
  <2> HIDE DEF flag, shorter, q, unflagged
  <2> QED
    BY <1>3, <1>5 DEF PoolState
<1>7. r = [unflagged EXCEPT !.backPressureEventEmitted = emitted]
  <2>1. r = [unflagged EXCEPT !.backPressureEventEmitted = @ /\ InternalBackPressure(unflagged)]
    BY DEF DequeueTask, BackPressureEndChecked
  <2> HIDE DEF unflagged
  <2> QED
    BY <1>6, <2>1
<1> HIDE DEF q, unflagged, shorter, flag, emitted
<1>8. r = Requeued(p, w, shorter, flag, emitted)
  BY <1>3, <1>5, <1>7 DEF Requeued
<1>9. /\ r \in PoolState /\ SameNodes(r, p)
      /\ r.executing = p.executing /\ r.running = p.running
      /\ r.busyEventEmitted = p.busyEventEmitted
      /\ r.queue = [p.queue EXCEPT ![w] = shorter]
      /\ r.backPressure = [p.backPressure EXCEPT ![w] = flag]
      /\ r.backPressureEventEmitted = emitted
  BY <1>1, <1>2, <1>8, QueueChanged
<1>10. HasBackPressure(r, w) <=> HasBackPressure(q, w)
  <2>1. r.queue = q.queue /\ r.limit = q.limit
    BY <1>3, <1>9 DEF SameNodes, PoolState
  <2> QED
    BY <2>1 DEF HasBackPressure
<1>11. InternalBackPressure(r) <=> InternalBackPressure(unflagged)
  <2>1. unflagged.nodes = p.nodes /\ unflagged.ready = p.ready /\ unflagged.limit = p.limit
        /\ unflagged.backPressure = r.backPressure
    BY <1>3, <1>5, <1>9 DEF PoolState
  <2> QED
    BY <1>9, <2>1, BackPressureSame DEF SameNodes
<1>12. r.queue = [p.queue EXCEPT ![w] = Tail(@)]
  BY <1>9 DEF shorter
<1>13. r.backPressure = [p.backPressure EXCEPT ![w] = @ /\ HasBackPressure(r, w)]
  BY <1>9, <1>10 DEF flag
<1>14. r.backPressureEventEmitted = (p.backPressureEventEmitted /\ InternalBackPressure(r))
  BY <1>9, <1>11 DEF emitted
<1> QED
  BY <1>9, <1>12, <1>13, <1>14 DEF TaskDequeued

AllRun(p, queue, flags, executing, running) ==
    [p EXCEPT !.queue = queue, !.backPressure = flags, !.executing = executing,
              !.running = running]

NoQueue == [w \in Worker |-> <<>>]

FlagsLeft(p) == [w \in Worker |-> p.backPressure[w] /\ p.queue[w] = <<>>]

AllExecuting(p) == [w \in Worker |-> p.executing[w] + Len(p.queue[w])]

AllRunning(p) == [w \in Worker |-> p.running[w] \union Range(p.queue[w])]

LEMMA ElementsOfSeq ==
    ASSUME NEW S, NEW seq \in Seq(S)
    PROVE  /\ Len(seq) \in Nat /\ DOMAIN seq = 1..Len(seq)
           /\ Range(seq) \subseteq S
           /\ \A x : x \in Range(seq) <=> \E i \in 1..Len(seq) : seq[i] = x
           /\ (Range(seq) = {} <=> seq = <<>>) /\ (Len(seq) = 0 <=> seq = <<>>)
<1>1. Len(seq) \in Nat /\ DOMAIN seq = 1..Len(seq) /\ \A i \in 1..Len(seq) : seq[i] \in S
  BY LenProperties, ElementOfSeq
<1>2. Range(seq) = {seq[i] : i \in 1..Len(seq)}
  BY <1>1 DEF Range
<1>3. Len(seq) = 0 <=> seq = <<>>
  BY EmptySeq, <1>1
<1>4. Range(seq) = {} <=> 1..Len(seq) = {}
  BY <1>2
<1>5. Len(seq) = 0 <=> 1..Len(seq) = {}
  BY <1>1
<1>6. Range(seq) \subseteq S
  BY <1>1, <1>2
<1>7. \A x : x \in Range(seq) <=> \E i \in 1..Len(seq) : seq[i] = x
  BY <1>2
<1>8. Range(seq) = {} <=> seq = <<>>
  BY <1>3, <1>4, <1>5
<1>9. Len(seq) \in Nat /\ DOMAIN seq = 1..Len(seq)
  BY <1>1
<1> QED
  BY <1>3, <1>6, <1>7, <1>8, <1>9

AllFlushed(r, p) ==
    /\ r \in PoolState /\ SameNodes(r, p)
    /\ r.queue = NoQueue /\ r.backPressure = FlagsLeft(p)
    /\ r.executing = AllExecuting(p) /\ r.running = AllRunning(p)
    /\ r.busyEventEmitted => p.busyEventEmitted \/ InternalBusy(r)
    /\ r.backPressureEventEmitted =>
           /\ p.backPressureEventEmitted
           /\ (\A w \in Worker : p.queue[w] = <<>>) \/ InternalBackPressure(r)

LEMMA FlushFields ==
    ASSUME NEW p \in PoolState, NEW r, r = FlushTasksQueues(p)
    PROVE  AllFlushed(r, p)
<1>0. /\ p.queue \in [Worker -> Seq(Task)] /\ p.backPressure \in [Worker -> BOOLEAN]
      /\ p.executing \in [Worker -> Nat] /\ p.running \in [Worker -> SUBSET Task]
      /\ p.busyEventEmitted \in BOOLEAN /\ p.backPressureEventEmitted \in BOOLEAN
  BY PoolFields
<1>1. \A w \in Worker : /\ Len(p.queue[w]) \in Nat /\ Range(p.queue[w]) \subseteq Task
                        /\ (Len(p.queue[w]) = 0 <=> p.queue[w] = <<>>)
                        /\ (Range(p.queue[w]) = {} <=> p.queue[w] = <<>>)
  <2> SUFFICES ASSUME NEW w \in Worker
               PROVE  /\ Len(p.queue[w]) \in Nat /\ Range(p.queue[w]) \subseteq Task
                      /\ (Len(p.queue[w]) = 0 <=> p.queue[w] = <<>>)
                      /\ (Range(p.queue[w]) = {} <=> p.queue[w] = <<>>)
    OBVIOUS
  <2> DEFINE seq == p.queue[w]
  <2>1. seq \in Seq(Task)
    BY <1>0
  <2> HIDE DEF seq
  <2>2. /\ Len(seq) \in Nat /\ Range(seq) \subseteq Task
        /\ (Len(seq) = 0 <=> seq = <<>>) /\ (Range(seq) = {} <=> seq = <<>>)
    BY <2>1, ElementsOfSeq
  <2> QED
    BY <2>2 DEF seq
<1>2. /\ NoQueue \in [Worker -> Seq(Task)] /\ FlagsLeft(p) \in [Worker -> BOOLEAN]
      /\ AllExecuting(p) \in [Worker -> Nat] /\ AllRunning(p) \in [Worker -> SUBSET Task]
  <2>1. NoQueue \in [Worker -> Seq(Task)]
    BY DEF NoQueue
  <2>2. FlagsLeft(p) \in [Worker -> BOOLEAN]
    BY DEF FlagsLeft
  <2>3. AllExecuting(p) \in [Worker -> Nat]
    BY <1>0, <1>1 DEF AllExecuting
  <2>4. AllRunning(p) \in [Worker -> SUBSET Task]
    <3>1. \A w \in Worker : (p.running[w] \union Range(p.queue[w])) \in SUBSET Task
      BY <1>0, <1>1
    <3> QED
      BY <3>1 DEF AllRunning
  <2> QED
    BY <2>1, <2>2, <2>3, <2>4
<1>3. CASE \A w \in Worker : p.queue[w] = <<>>
  <2>1. r = p
    BY <1>3 DEF FlushTasksQueues
  <2>2. p.queue = NoQueue
    BY <1>0, <1>3 DEF NoQueue
  <2>3. p.backPressure = FlagsLeft(p)
    <3>1. \A w \in Worker : p.backPressure[w] \in BOOLEAN
      BY <1>0
    <3>2. \A w \in Worker : (p.backPressure[w] /\ p.queue[w] = <<>>) = p.backPressure[w]
      BY <1>3, <3>1
    <3> QED
      BY <1>0, <3>2 DEF FlagsLeft
  <2>4. p.executing = AllExecuting(p)
    <3>1. \A w \in Worker : p.executing[w] + Len(p.queue[w]) = p.executing[w]
      BY <1>0, <1>1, <1>3
    <3> QED
      BY <1>0, <3>1 DEF AllExecuting
  <2>5. p.running = AllRunning(p)
    <3>1. \A w \in Worker : p.running[w] \union Range(p.queue[w]) = p.running[w]
      BY <1>1, <1>3
    <3> QED
      BY <1>0, <3>1 DEF AllRunning
  <2>6. SameNodes(p, p)
    BY DEF SameNodes
  <2>7. /\ r \in PoolState /\ SameNodes(r, p) /\ r.queue = NoQueue
        /\ r.backPressure = FlagsLeft(p) /\ r.executing = AllExecuting(p)
        /\ r.running = AllRunning(p) /\ r.busyEventEmitted = p.busyEventEmitted
        /\ r.backPressureEventEmitted = p.backPressureEventEmitted
    BY <2>1, <2>2, <2>3, <2>4, <2>5, <2>6
  <2> QED
    BY <1>3, <2>7 DEF AllFlushed
<1>4. CASE ~\A w \in Worker : p.queue[w] = <<>>
  <2> DEFINE flushed == [p EXCEPT
            !.queue = [w \in Worker |-> <<>>],
            !.backPressure = [w \in Worker |-> @[w] /\ p.queue[w] = <<>>],
            !.executing = [w \in Worker |-> @[w] + Len(p.queue[w])],
            !.running = [w \in Worker |-> @[w] \union Range(p.queue[w])]]
             checked == BusyChecked(flushed)
             busy == p.busyEventEmitted \/ InternalBusy(flushed)
             emitted == p.backPressureEventEmitted /\ InternalBackPressure(checked)
  <2>1. r = BackPressureEndChecked(checked)
    BY <1>4 DEF FlushTasksQueues
  <2>2. flushed = AllRun(p, NoQueue, FlagsLeft(p), AllExecuting(p), AllRunning(p))
    BY DEF AllRun, NoQueue, FlagsLeft, AllExecuting, AllRunning
  <2> HIDE DEF flushed
  <2>3. /\ flushed \in PoolState /\ SameNodes(flushed, p)
        /\ flushed.queue = NoQueue /\ flushed.backPressure = FlagsLeft(p)
        /\ flushed.executing = AllExecuting(p) /\ flushed.running = AllRunning(p)
        /\ flushed.busyEventEmitted = p.busyEventEmitted
        /\ flushed.backPressureEventEmitted = p.backPressureEventEmitted
    BY <1>2, <2>2 DEF AllRun, PoolState, SameNodes
  <2>4. checked = [flushed EXCEPT !.busyEventEmitted = busy]
    BY <2>3 DEF BusyChecked
  <2>5. busy \in BOOLEAN /\ emitted \in BOOLEAN
    OBVIOUS
  <2> HIDE DEF checked, busy
  <2>6. /\ checked \in PoolState /\ SameNodes(checked, flushed)
        /\ checked.queue = flushed.queue /\ checked.backPressure = flushed.backPressure
        /\ checked.executing = flushed.executing /\ checked.running = flushed.running
        /\ checked.busyEventEmitted = busy
        /\ checked.backPressureEventEmitted = flushed.backPressureEventEmitted
    BY <2>3, <2>4, <2>5 DEF PoolState, SameNodes
  <2>7. r = [checked EXCEPT !.backPressureEventEmitted = emitted]
    BY <2>1, <2>3, <2>6 DEF BackPressureEndChecked
  <2> HIDE DEF emitted
  <2>8. /\ r \in PoolState /\ SameNodes(r, checked)
        /\ r.queue = checked.queue /\ r.backPressure = checked.backPressure
        /\ r.executing = checked.executing /\ r.running = checked.running
        /\ r.busyEventEmitted = checked.busyEventEmitted
        /\ r.backPressureEventEmitted = emitted
    BY <2>5, <2>6, <2>7 DEF PoolState, SameNodes
  <2>9. SameNodes(r, p) /\ SameNodes(r, flushed)
    BY <2>3, <2>6, <2>8 DEF SameNodes
  <2>10. InternalBusy(r) <=> InternalBusy(flushed)
    BY <2>6, <2>8, <2>9 DEF InternalBusy, Members, IsWorkerNodeBusy, SameNodes
  <2>11. InternalBackPressure(r) <=> InternalBackPressure(checked)
    BY <2>8, BackPressureSame
  <2>12. r.busyEventEmitted => p.busyEventEmitted \/ InternalBusy(r)
    BY <2>6, <2>8, <2>10 DEF busy
  <2>13. r.backPressureEventEmitted => p.backPressureEventEmitted /\ InternalBackPressure(r)
    BY <2>8, <2>11 DEF emitted
  <2>14. /\ r \in PoolState /\ r.queue = NoQueue /\ r.backPressure = FlagsLeft(p)
         /\ r.executing = AllExecuting(p) /\ r.running = AllRunning(p)
    BY <2>3, <2>6, <2>8
  <2> QED
    BY <2>9, <2>12, <2>13, <2>14 DEF AllFlushed
<1> QED
  BY <1>3, <1>4

-----------------------------------------------------------------------------
(* Sequences and the elements they hold *)

Distinct(seq) == \A i, j \in DOMAIN seq : seq[i] = seq[j] => i = j

LEMMA LongerSeq ==
    ASSUME NEW S, NEW seq \in Seq(S), NEW x \in S
    PROVE  /\ Append(seq, x) \in Seq(S) /\ Append(seq, x) # <<>>
           /\ Len(Append(seq, x)) = Len(seq) + 1
           /\ Range(Append(seq, x)) = Range(seq) \union {x}
           /\ Distinct(seq) /\ x \notin Range(seq) => Distinct(Append(seq, x))
<1> DEFINE longer == Append(seq, x)
<1>1. /\ longer \in Seq(S) /\ longer # <<>> /\ Len(longer) = Len(seq) + 1
      /\ \A i \in 1..Len(seq) : longer[i] = seq[i]
      /\ longer[Len(seq) + 1] = x
  BY AppendProperties
<1> HIDE DEF longer
<1>2. Len(seq) \in Nat /\ DOMAIN seq = 1..Len(seq) /\ DOMAIN longer = 1..(Len(seq) + 1)
  BY <1>1, ElementsOfSeq
<1>3. Range(longer) = Range(seq) \union {x}
  <2>1. \A y : y \in Range(longer) <=> \E i \in 1..(Len(seq) + 1) : longer[i] = y
    BY <1>1, ElementsOfSeq
  <2>2. \A y : y \in Range(seq) <=> \E i \in 1..Len(seq) : seq[i] = y
    BY ElementsOfSeq
  <2>3. \A i : i \in 1..(Len(seq) + 1) <=> i \in 1..Len(seq) \/ i = Len(seq) + 1
    BY <1>2
  <2> QED
    BY <1>1, <2>1, <2>2, <2>3
<1>4. ASSUME Distinct(seq), x \notin Range(seq), NEW i \in DOMAIN longer, NEW j \in DOMAIN longer,
             longer[i] = longer[j]
      PROVE  i = j
  <2>1. \A k \in 1..Len(seq) : seq[k] # x
    BY <1>4, ElementsOfSeq
  <2>2. CASE i \in 1..Len(seq) /\ j \in 1..Len(seq)
    BY <1>1, <1>2, <1>4, <2>2 DEF Distinct
  <2>3. CASE i = Len(seq) + 1 /\ j = Len(seq) + 1
    BY <2>3
  <2>4. CASE i = Len(seq) + 1 /\ j \in 1..Len(seq)
    BY <1>1, <1>4, <2>1, <2>4
  <2>5. CASE i \in 1..Len(seq) /\ j = Len(seq) + 1
    BY <1>1, <1>4, <2>1, <2>5
  <2> QED
    BY <1>2, <2>2, <2>3, <2>4, <2>5
<1>5. Distinct(seq) /\ x \notin Range(seq) => Distinct(longer)
  BY <1>4 DEF Distinct
<1> QED
  BY <1>1, <1>3, <1>5 DEF longer

LEMMA ShorterSeq ==
    ASSUME NEW S, NEW seq \in Seq(S), seq # <<>>
    PROVE  /\ Head(seq) \in S /\ Tail(seq) \in Seq(S) /\ Len(Tail(seq)) = Len(seq) - 1
           /\ Range(seq) = Range(Tail(seq)) \union {Head(seq)}
           /\ Distinct(seq) => Distinct(Tail(seq)) /\ Head(seq) \notin Range(Tail(seq))
<1> DEFINE rest == Tail(seq)
<1>1. /\ Head(seq) \in S /\ rest \in Seq(S) /\ Len(rest) = Len(seq) - 1
      /\ \A i \in 1..Len(rest) : rest[i] = seq[i + 1]
  BY HeadTailProperties
<1>2. Head(seq) = seq[1]
  BY DEF Head
<1> HIDE DEF rest
<1>3. /\ Len(seq) \in Nat /\ Len(seq) > 0 /\ DOMAIN seq = 1..Len(seq)
      /\ DOMAIN rest = 1..(Len(seq) - 1)
  <2>1. Len(seq) \in Nat /\ Len(seq) # 0 /\ DOMAIN seq = 1..Len(seq) /\ DOMAIN rest = 1..Len(rest)
    BY <1>1, ElementsOfSeq
  <2> QED
    BY <1>1, <2>1
<1>4. Range(seq) = Range(rest) \union {seq[1]}
  <2>1. \A y : y \in Range(seq) <=> \E i \in 1..Len(seq) : seq[i] = y
    BY ElementsOfSeq
  <2>2. \A y : y \in Range(rest) <=> \E i \in 1..(Len(seq) - 1) : rest[i] = y
    BY <1>1, ElementsOfSeq
  <2>3. ASSUME NEW y \in Range(seq) PROVE y \in Range(rest) \union {seq[1]}
    <3>1. PICK i \in 1..Len(seq) : seq[i] = y
      BY <2>1
    <3>2. CASE i = 1
      BY <3>1, <3>2
    <3>3. CASE i # 1
      <4>1. i - 1 \in 1..(Len(seq) - 1) /\ (i - 1) + 1 = i
        BY <1>3, <3>3
      <4>2. rest[i - 1] = y
        BY <1>1, <3>1, <4>1
      <4> QED
        BY <2>2, <4>1, <4>2
    <3> QED
      BY <3>2, <3>3
  <2>4. ASSUME NEW y \in Range(rest) PROVE y \in Range(seq)
    <3>1. PICK i \in 1..(Len(seq) - 1) : rest[i] = y
      BY <2>2
    <3>2. i + 1 \in 1..Len(seq) /\ seq[i + 1] = y
      BY <1>1, <1>3, <3>1
    <3> QED
      BY <2>1, <3>2
  <2>5. seq[1] \in Range(seq)
    BY <1>3, <2>1
  <2> QED
    BY <2>3, <2>4, <2>5
<1>5. ASSUME Distinct(seq) PROVE Distinct(rest) /\ seq[1] \notin Range(rest)
  <2>1. \A i \in DOMAIN rest : i + 1 \in DOMAIN seq /\ rest[i] = seq[i + 1] /\ i + 1 # 1
    BY <1>1, <1>3
  <2>2. ASSUME NEW i \in DOMAIN rest, NEW j \in DOMAIN rest, rest[i] = rest[j] PROVE i = j
    <3>1. i + 1 = j + 1
      BY <1>5, <2>1, <2>2 DEF Distinct
    <3> QED
      BY <1>3, <3>1
  <2>3. ASSUME seq[1] \in Range(rest) PROVE FALSE
    <3>1. PICK i \in DOMAIN rest : rest[i] = seq[1]
      BY <1>1, <2>3, ElementsOfSeq
    <3>2. 1 \in DOMAIN seq
      BY <1>3
    <3> QED
      BY <1>5, <2>1, <3>1, <3>2 DEF Distinct
  <2>4. Distinct(rest)
    BY <2>2 DEF Distinct
  <2> QED
    BY <2>3, <2>4
<1> QED
  BY <1>1, <1>2, <1>4, <1>5 DEF rest

LEMMA RemovedSeq ==
    ASSUME NEW S, NEW seq \in Seq(S), NEW k \in DOMAIN seq
    PROVE  /\ RemoveAt(seq, k) \in Seq(S) /\ Len(RemoveAt(seq, k)) = Len(seq) - 1
           /\ Range(seq) = Range(RemoveAt(seq, k)) \union {seq[k]}
           /\ Distinct(seq) => /\ Distinct(RemoveAt(seq, k))
                               /\ seq[k] \notin Range(RemoveAt(seq, k))
<1> DEFINE front == SubSeq(seq, 1, k - 1)
           rear == SubSeq(seq, k + 1, Len(seq))
           rest == RemoveAt(seq, k)
<1>1. Len(seq) \in Nat /\ DOMAIN seq = 1..Len(seq) /\ k \in 1..Len(seq)
      /\ \A i \in 1..Len(seq) : seq[i] \in S
  BY LenProperties
<1>2. front \in Seq(S) /\ Len(front) = k - 1 /\ \A i \in 1..(k - 1) : front[i] = seq[i]
  <2>1. \A i \in 1..(k - 1) : seq[i] \in S
    BY <1>1
  <2> QED
    BY <1>1, <2>1, SubSeqProperties
<1>3. rear \in Seq(S) /\ Len(rear) = Len(seq) - k
      /\ \A i \in 1..(Len(seq) - k) : rear[i] = seq[k + i]
  <2>1. \A i \in (k + 1)..Len(seq) : seq[i] \in S
    BY <1>1
  <2>2. /\ rear \in Seq(S)
        /\ Len(rear) = IF k + 1 <= Len(seq) THEN Len(seq) - (k + 1) + 1 ELSE 0
        /\ \A i \in 1..(Len(seq) - (k + 1) + 1) : rear[i] = seq[k + 1 + i - 1]
    BY <1>1, <2>1, SubSeqProperties
  <2>3. Len(rear) = Len(seq) - k
    BY <1>1, <2>2
  <2>4. ASSUME NEW i \in 1..(Len(seq) - k) PROVE rear[i] = seq[k + i]
    <3>1. i \in 1..(Len(seq) - (k + 1) + 1) /\ k + 1 + i - 1 = k + i
      BY <1>1
    <3>2. rear[i] = seq[k + 1 + i - 1]
      BY <2>2, <3>1
    <3> QED
      BY <3>1, <3>2
  <2> QED
    BY <2>2, <2>3, <2>4
<1>4. rest = front \o rear
  BY DEF RemoveAt
<1> HIDE DEF front, rear, rest
<1>5. rest \in Seq(S) /\ Len(rest) = Len(seq) - 1
      /\ \A i \in 1..(Len(seq) - 1) : rest[i] = IF i < k THEN seq[i] ELSE seq[i + 1]
  <2>1. /\ rest \in Seq(S) /\ Len(rest) = Len(front) + Len(rear)
        /\ \A i \in 1..(Len(front) + Len(rear)) :
               rest[i] = IF i <= Len(front) THEN front[i] ELSE rear[i - Len(front)]
    BY <1>2, <1>3, <1>4, ConcatProperties
  <2>2. Len(front) + Len(rear) = Len(seq) - 1
    BY <1>1, <1>2, <1>3
  <2>3. ASSUME NEW i \in 1..(Len(seq) - 1), i < k PROVE rest[i] = seq[i]
    <3>1. i \in 1..(Len(front) + Len(rear)) /\ i <= Len(front) /\ i \in 1..(k - 1)
      BY <1>1, <1>2, <2>2, <2>3
    <3> QED
      BY <1>2, <2>1, <3>1
  <2>4. ASSUME NEW i \in 1..(Len(seq) - 1), ~(i < k) PROVE rest[i] = seq[i + 1]
    <3>1. /\ i \in 1..(Len(front) + Len(rear)) /\ ~(i <= Len(front))
          /\ i - Len(front) = i - (k - 1) /\ i - (k - 1) \in 1..(Len(seq) - k)
          /\ k + (i - (k - 1)) = i + 1
      BY <1>1, <1>2, <2>2, <2>4
    <3>2. rest[i] = rear[i - (k - 1)]
      BY <2>1, <3>1
    <3> QED
      BY <1>3, <3>1, <3>2
  <2> QED
    BY <2>1, <2>2, <2>3, <2>4
<1>6. DOMAIN rest = 1..(Len(seq) - 1)
  BY <1>5, LenProperties
<1> DEFINE at(n) == IF n < k THEN n ELSE n + 1
<1>7. \A i \in DOMAIN rest : at(i) \in DOMAIN seq /\ at(i) # k /\ rest[i] = seq[at(i)]
  BY <1>1, <1>5, <1>6
<1>8. \A j \in DOMAIN seq \ {k} : \E i \in DOMAIN rest : at(i) = j
  <2> SUFFICES ASSUME NEW j \in DOMAIN seq \ {k} PROVE \E i \in DOMAIN rest : at(i) = j
    OBVIOUS
  <2>1. CASE j < k
    BY <1>1, <1>6, <2>1
  <2>2. CASE ~(j < k)
    <3>1. j - 1 \in DOMAIN rest /\ at(j - 1) = j
      BY <1>1, <1>6, <2>2
    <3> QED
      BY <3>1
  <2> QED
    BY <2>1, <2>2
<1>9. \A i, j \in DOMAIN rest : at(i) = at(j) => i = j
  BY <1>1, <1>6
<1> HIDE DEF at
<1>10. Range(seq) = Range(rest) \union {seq[k]}
  <2>1. \A y : y \in Range(seq) <=> \E i \in DOMAIN seq : seq[i] = y
    BY <1>1, ElementsOfSeq
  <2>2. \A y : y \in Range(rest) <=> \E i \in DOMAIN rest : rest[i] = y
    BY <1>5, ElementsOfSeq
  <2>3. ASSUME NEW y \in Range(seq) PROVE y \in Range(rest) \union {seq[k]}
    <3>1. PICK j \in DOMAIN seq : seq[j] = y
      BY <2>1
    <3> QED
      BY <1>7, <1>8, <2>2, <3>1
  <2>4. ASSUME NEW y \in Range(rest) PROVE y \in Range(seq)
    BY <1>7, <2>1, <2>2
  <2>5. seq[k] \in Range(seq)
    BY <2>1
  <2> QED
    BY <2>3, <2>4, <2>5
<1>11. ASSUME Distinct(seq) PROVE Distinct(rest) /\ seq[k] \notin Range(rest)
  <2>1. Distinct(rest)
    BY <1>7, <1>9, <1>11 DEF Distinct
  <2>2. \A i \in DOMAIN rest : rest[i] # seq[k]
    BY <1>7, <1>11 DEF Distinct
  <2>3. \A y : y \in Range(rest) <=> \E i \in DOMAIN rest : rest[i] = y
    BY <1>5, ElementsOfSeq
  <2> QED
    BY <2>1, <2>2, <2>3
<1> QED
  BY <1>5, <1>10, <1>11 DEF rest

(* As many elements as places *)
LEMMA DistinctSize ==
    ASSUME NEW S, NEW seq \in Seq(S), Distinct(seq)
    PROVE  IsFiniteSet(Range(seq)) /\ Cardinality(Range(seq)) = Len(seq)
<1>1. /\ Len(seq) \in Nat /\ DOMAIN seq = 1..Len(seq)
      /\ \A x : x \in Range(seq) <=> \E i \in 1..Len(seq) : seq[i] = x
  BY ElementsOfSeq
<1>2. seq \in [1..Len(seq) -> Range(seq)]
  <2>1. seq = [i \in 1..Len(seq) |-> seq[i]]
    BY LenProperties
  <2>2. \A i \in 1..Len(seq) : seq[i] \in Range(seq)
    BY <1>1
  <2> QED
    BY <2>1, <2>2
<1>3. seq \in Bijection(1..Len(seq), Range(seq))
  <2>1. seq \in Injection(1..Len(seq), Range(seq))
    BY <1>1, <1>2 DEF Injection, IsInjective, Distinct
  <2>2. seq \in Surjection(1..Len(seq), Range(seq))
    BY <1>1, <1>2 DEF Surjection
  <2> QED
    BY <2>1, <2>2 DEF Bijection
<1>4. IsFiniteSet(1..Len(seq)) /\ Cardinality(1..Len(seq)) = Len(seq)
  BY <1>1, FS_Interval
<1> QED
  BY <1>3, <1>4, FS_Bijection DEF ExistsBijection

-----------------------------------------------------------------------------
(* A task given to a node *)

Tasks(p, w) == Range(p.queue[w]) \union p.running[w]

(* The tasks of p stay where they are; t comes to w *)
Given(r, p, w, t) ==
    /\ r \in PoolState /\ SameNodes(r, p)
    /\ \A v \in Worker \ {w} : r.queue[v] = p.queue[v] /\ r.running[v] = p.running[v]
    /\ Range(p.queue[w]) \subseteq Range(r.queue[w])
    /\ p.running[w] \subseteq r.running[w]
    /\ t \in Tasks(r, w)

LEMMA ExecuteTaskGives ==
    ASSUME NEW p \in PoolState, NEW w \in Worker, NEW t \in Task
    PROVE  Given(ExecuteTask(p, w, t), p, w, t)
<1> DEFINE r == ExecuteTask(p, w, t)
<1>0. TaskExecuted(r, p, w, t)
  BY ExecuteTaskFields
<1> HIDE DEF r
<1>1. /\ r \in PoolState /\ SameNodes(r, p) /\ r.queue = p.queue
      /\ r.running = [p.running EXCEPT ![w] = @ \union {t}]
  BY <1>0 DEF TaskExecuted
<1>2. p.running \in [Worker -> SUBSET Task]
  BY PoolFields
<1>3. r.running[w] = p.running[w] \union {t} /\ \A v \in Worker \ {w} : r.running[v] = p.running[v]
  BY <1>1, <1>2
<1>4. Given(r, p, w, t)
  BY <1>1, <1>3 DEF Given, Tasks
<1> QED
  BY <1>4 DEF r

LEMMA EnqueueTaskGives ==
    ASSUME NEW p \in PoolState, NEW w \in Worker, NEW t \in Task
    PROVE  Given(EnqueueTask(p, w, t), p, w, t)
<1> DEFINE r == EnqueueTask(p, w, t)
<1>0. TaskEnqueued(r, p, w, t)
  BY EnqueueTaskFields
<1> HIDE DEF r
<1>1. /\ r \in PoolState /\ SameNodes(r, p) /\ r.running = p.running
      /\ r.queue = [p.queue EXCEPT ![w] = Append(@, t)]
  BY <1>0 DEF TaskEnqueued
<1>2. p.queue \in [Worker -> Seq(Task)] /\ p.queue[w] \in Seq(Task)
  BY PoolFields
<1>3. r.queue[w] = Append(p.queue[w], t) /\ \A v \in Worker \ {w} : r.queue[v] = p.queue[v]
  BY <1>1, <1>2
<1>4. Range(r.queue[w]) = Range(p.queue[w]) \union {t}
  BY <1>2, <1>3, LongerSeq
<1>5. Given(r, p, w, t)
  BY <1>1, <1>3, <1>4 DEF Given, Tasks
<1> QED
  BY <1>5 DEF r

LEMMA HandleTaskGives ==
    ASSUME NEW p \in PoolState, NEW w \in Worker, NEW t \in Task
    PROVE  Given(HandleTask(p, w, t), p, w, t)
  BY ExecuteTaskGives, EnqueueTaskGives DEF HandleTask

LEMMA MembersSame ==
    ASSUME NEW p \in PoolState, NEW r, SameNodes(r, p)
    PROVE  /\ Members(r) = Members(p) /\ Members(p) \subseteq Worker
           /\ DOMAIN p.nodes = 1..Len(p.nodes) /\ Len(p.nodes) \in Nat
           /\ \A k \in DOMAIN p.nodes : p.nodes[k] \in Worker /\ p.nodes[k] \in Members(p)
<1>1. p.nodes \in Seq(Worker)
  BY PoolFields
<1>2. \A x : x \in Members(p) <=> \E k \in DOMAIN p.nodes : p.nodes[k] = x
  BY <1>1, ElementsOfSeq DEF Members
<1>3. Members(p) \subseteq Worker
  BY <1>1, ElementsOfSeq DEF Members
<1>4. \A k \in DOMAIN p.nodes : p.nodes[k] \in Members(p)
  BY <1>2
<1> QED
  BY <1>1, <1>3, <1>4, ElementsOfSeq DEF Members, SameNodes

-----------------------------------------------------------------------------
(* The queue of a node is handed out *)

(* A nonempty set of natural numbers has a least element *)
LEMMA LeastNatural ==
    ASSUME NEW T, T \subseteq Nat, T # {}
    PROVE  \E x \in T : \A y \in T : x <= y
<1> DEFINE Less == {ss \in Nat \X Nat : ss[1] < ss[2]}
<1>1. IsWellFoundedOn(Less, Nat)
  BY NatLessThanWellFounded DEF OpToRel
<1>2. \E x \in T : \A y \in T : ~ (<<y, x>> \in Less)
  <2> HIDE DEF Less
  <2> QED
    BY <1>1, WFMin
<1>3. \A x, y \in T : ~ (<<y, x>> \in Less) => x <= y
  OBVIOUS
<1> QED
  BY <1>2, <1>3

LEMMA DestinationFound ==
    ASSUME NEW p \in PoolState, NEW w \in Worker, Destinations(p, w) # {}
    PROVE  Destination(p, w) \in Destinations(p, w)
<1> DEFINE D == Destinations(p, w)
           queued(j) == Len(p.queue[p.nodes[j]])
           Sizes == {queued(j) : j \in D}
<1>1. D \subseteq Nat
  BY MembersSame DEF Destinations, SameNodes
<1>2. \A j \in D : queued(j) \in Nat
  <2>1. \A v \in Worker : Len(p.queue[v]) \in Nat
    BY PoolFields, ElementsOfSeq
  <2> QED
    BY <2>1, MembersSame DEF Destinations, SameNodes
<1> HIDE DEF D, queued
<1>3. D # {}
  BY DEF D
<1>4. PICK size \in Sizes : \A y \in Sizes : size <= y
  <2>1. Sizes \subseteq Nat /\ Sizes # {}
    BY <1>2, <1>3
  <2> QED
    BY <2>1, LeastNatural
<1> DEFINE Shortest == {j \in D : queued(j) = size}
<1>5. PICK k \in Shortest : \A i \in Shortest : k <= i
  <2>1. Shortest \subseteq Nat /\ Shortest # {}
    BY <1>1, <1>4
  <2> QED
    BY <2>1, LeastNatural
<1>6. k \in D /\ \A i \in D : queued(k) < queued(i) \/ (queued(k) = queued(i) /\ k <= i)
  BY <1>2, <1>4, <1>5
<1>7. \E j \in Destinations(p, w) : \A i \in Destinations(p, w) :
          \/ Len(p.queue[p.nodes[j]]) < Len(p.queue[p.nodes[i]])
          \/ Len(p.queue[p.nodes[j]]) = Len(p.queue[p.nodes[i]]) /\ j <= i
  BY <1>6 DEF D, queued
<1> QED
  BY <1>7 DEF Destination

(* The tasks of the other nodes stay there, and each one queued on w is     *)
(* still queued there or on another node                                    *)
Passed(r, p, w) ==
    /\ r \in PoolState /\ SameNodes(r, p)
    /\ \A v \in Worker \ {w} : Tasks(p, v) \subseteq Tasks(r, v)
    /\ \A t \in Range(p.queue[w]) :
           t \in Range(r.queue[w]) \/ \E v \in Members(p) \ {w} : t \in Tasks(r, v)

LEMMA PassedSame ==
    ASSUME NEW p \in PoolState, NEW w \in Worker
    PROVE  Passed(p, p, w)
  BY DEF Passed, SameNodes

LEMMA PassedTransitive ==
    ASSUME NEW p \in PoolState, NEW q, NEW r, NEW w \in Worker, Passed(q, p, w), Passed(r, q, w)
    PROVE  Passed(r, p, w)
<1>1. Members(q) = Members(p) /\ Members(p) \subseteq Worker
  BY MembersSame DEF Passed
<1>2. SameNodes(r, p)
  BY DEF Passed, SameNodes
<1>3. \A v \in Worker \ {w} : Tasks(p, v) \subseteq Tasks(r, v)
  BY DEF Passed
<1>4. ASSUME NEW t \in Range(p.queue[w])
      PROVE  t \in Range(r.queue[w]) \/ \E v \in Members(p) \ {w} : t \in Tasks(r, v)
  <2>1. CASE t \in Range(q.queue[w])
    BY <1>1, <2>1 DEF Passed
  <2>2. CASE \E v \in Members(p) \ {w} : t \in Tasks(q, v)
    BY <1>1, <2>2 DEF Passed
  <2> QED
    BY <2>1, <2>2 DEF Passed
<1> QED
  BY <1>2, <1>3, <1>4 DEF Passed

LEMMA DestinationsSame ==
    ASSUME NEW r, NEW p, NEW w, SameNodes(r, p)
    PROVE  Destinations(r, w) = Destinations(p, w)
  BY DEF Destinations, SameNodes

LEMMA HandOverPasses ==
    ASSUME NEW p \in PoolState, NEW w \in Worker, Destinations(p, w) # {}, p.queue[w] # <<>>
    PROVE  Passed(HandOver(p, w), p, w) /\ Len(HandOver(p, w).queue[w]) = Len(p.queue[w]) - 1
<1> DEFINE r == HandOver(p, w)
           q == DequeueTask(p, w)
           v == p.nodes[Destination(p, w)]
           t == Head(p.queue[w])
<1>1. v \in Members(p) \ {w} /\ v \in Worker
  <2>1. Destination(p, w) \in Destinations(p, w)
    BY DestinationFound
  <2> QED
    BY <2>1, MembersSame DEF Destinations, SameNodes
<1>2. p.queue \in [Worker -> Seq(Task)] /\ p.queue[w] \in Seq(Task)
  BY PoolFields
<1>3. /\ t \in Task /\ Len(Tail(p.queue[w])) = Len(p.queue[w]) - 1
      /\ Range(p.queue[w]) = Range(Tail(p.queue[w])) \union {t}
  BY <1>2, ShorterSeq
<1>4. TaskDequeued(q, p, w)
  BY DequeueTaskFields
<1>5. r = HandleTask(q, v, t)
  BY DEF HandOver
<1> HIDE DEF r, q, v, t
<1>6. /\ q \in PoolState /\ SameNodes(q, p) /\ q.running = p.running
      /\ q.queue = [p.queue EXCEPT ![w] = Tail(@)]
  BY <1>4 DEF TaskDequeued
<1>7. q.queue[w] = Tail(p.queue[w]) /\ \A u \in Worker \ {w} : q.queue[u] = p.queue[u]
  BY <1>2, <1>6
<1>8. Given(r, q, v, t)
  BY <1>1, <1>3, <1>5, <1>6, HandleTaskGives
<1>9. r \in PoolState /\ SameNodes(r, p)
  BY <1>6, <1>8 DEF Given, SameNodes
<1>10. r.queue[w] = Tail(p.queue[w])
  BY <1>1, <1>7, <1>8 DEF Given
<1>11. ASSUME NEW u \in Worker \ {w} PROVE Tasks(p, u) \subseteq Tasks(r, u)
  <2>1. Tasks(p, u) = Tasks(q, u)
    BY <1>6, <1>7 DEF Tasks
  <2>2. Tasks(q, u) \subseteq Tasks(r, u)
    BY <1>8 DEF Given, Tasks
  <2> QED
    BY <2>1, <2>2
<1>12. ASSUME NEW x \in Range(p.queue[w])
       PROVE  x \in Range(r.queue[w]) \/ \E u \in Members(p) \ {w} : x \in Tasks(r, u)
  <2>1. t \in Tasks(r, v)
    BY <1>8 DEF Given
  <2> QED
    BY <1>1, <1>3, <1>10, <2>1
<1>13. Passed(r, p, w)
  BY <1>9, <1>11, <1>12 DEF Passed
<1> QED
  BY <1>3, <1>10, <1>13 DEF r

(* The loop of redistributeQueuedTasks, turn by turn *)
HasTurns(p, w, n) ==
    \E f : f = [i \in 0..n |-> IF i = 0 THEN p ELSE HandOver(f[i - 1], w)]

LEMMA TurnsExist ==
    ASSUME NEW p, NEW w
    PROVE  \A n \in Nat : HasTurns(p, w, n)
<1> DEFINE Bad == {m \in Nat : ~HasTurns(p, w, m)}
<1>1. CASE Bad = {}
  BY <1>1
<1>2. ASSUME Bad # {} PROVE FALSE
  <2>1. PICK m \in Bad : \A k \in Bad : m <= k
    <3>1. Bad \subseteq Nat
      OBVIOUS
    <3> QED
      BY <1>2, <3>1, LeastNatural
  <2>2. m \in Nat /\ ~HasTurns(p, w, m)
    OBVIOUS
  <2>3. CASE m = 0
    <3> DEFINE f == [i \in 0..0 |-> p]
    <3>1. f = [i \in 0..0 |-> IF i = 0 THEN p ELSE HandOver(f[i - 1], w)]
      OBVIOUS
    <3>2. HasTurns(p, w, 0)
      BY <3>1 DEF HasTurns
    <3> QED
      BY <2>2, <2>3, <3>2
  <2>4. CASE m # 0
    <3>1. m - 1 \in Nat /\ ~(m <= m - 1)
      BY <2>2, <2>4
    <3>2. HasTurns(p, w, m - 1)
      BY <2>1, <3>1
    <3>3. PICK f : f = [i \in 0..(m - 1) |-> IF i = 0 THEN p ELSE HandOver(f[i - 1], w)]
      BY <3>2 DEF HasTurns
    <3> DEFINE g == [i \in 0..m |-> IF i = m THEN HandOver(f[m - 1], w) ELSE f[i]]
    <3>4. ASSUME NEW i \in 0..m
          PROVE  g[i] = IF i = 0 THEN p ELSE HandOver(g[i - 1], w)
      <4>1. CASE i = 0
        <5>1. g[0] = f[0] /\ 0 \in 0..(m - 1)
          BY <2>2, <2>4, <4>1
        <5>2. f[0] = p
          BY <3>3, <5>1
        <5> QED
          BY <4>1, <5>1, <5>2
      <4>2. CASE i = m
        <5>1. i - 1 \in 0..m /\ i - 1 # m /\ i # 0
          BY <2>2, <2>4, <4>2
        <5>2. g[i - 1] = f[m - 1] /\ g[i] = HandOver(f[m - 1], w)
          BY <4>2, <5>1
        <5> QED
          BY <5>1, <5>2
      <4>3. CASE i # 0 /\ i # m
        <5>1. i - 1 \in 0..m /\ i - 1 # m /\ i \in 0..(m - 1) /\ i - 1 \in 0..(m - 1)
          BY <2>2, <4>3
        <5>2. g[i - 1] = f[i - 1] /\ g[i] = f[i]
          BY <4>3, <5>1
        <5>3. f[i] = HandOver(f[i - 1], w)
          BY <3>3, <4>3, <5>1
        <5> QED
          BY <4>3, <5>2, <5>3
      <4> QED
        BY <4>1, <4>2, <4>3
    <3>5. DOMAIN g = 0..m /\ g = [i \in 0..m |-> g[i]]
      OBVIOUS
    <3> HIDE DEF g
    <3>6. g = [i \in 0..m |-> IF i = 0 THEN p ELSE HandOver(g[i - 1], w)]
      BY <3>4, <3>5
    <3>7. HasTurns(p, w, m)
      BY <3>6 DEF HasTurns
    <3> QED
      BY <2>2, <3>7
  <2> QED
    BY <2>3, <2>4
<1> QED
  BY <1>1, <1>2

LEMMA RedistributionPasses ==
    ASSUME NEW p \in PoolState, NEW w \in Worker, ~CannotStealTask(p), Destinations(p, w) # {}
    PROVE  /\ Passed(RedistributeQueuedTasks(p, w), p, w)
           /\ RedistributeQueuedTasks(p, w).queue[w] = <<>>
<1> DEFINE n == Len(p.queue[w])
           after[i \in 0..n] == IF i = 0 THEN p ELSE HandOver(after[i - 1], w)
           Fine(i) == Passed(after[i], p, w) /\ Len(after[i].queue[w]) = n - i
           Bad == {i \in 0..n : ~Fine(i)}
<1>1. RedistributeQueuedTasks(p, w) = after[n]
  BY DEF RedistributeQueuedTasks
<1>2. n \in Nat
  BY PoolFields, ElementsOfSeq
<1> HIDE DEF n
<1>3. after = [i \in 0..n |-> IF i = 0 THEN p ELSE HandOver(after[i - 1], w)]
  <2>1. \E f : f = [i \in 0..n |-> IF i = 0 THEN p ELSE HandOver(f[i - 1], w)]
    <3>1. HasTurns(p, w, n)
      BY <1>2, TurnsExist
    <3> QED
      BY <3>1 DEF HasTurns
  <2> QED
    BY <2>1
<1> HIDE DEF after
<1>4. after[0] = p /\ \A i \in 1..n : after[i] = HandOver(after[i - 1], w)
  <2>1. 0 \in 0..n
    BY <1>2
  <2>2. after[0] = p
    BY <1>3, <2>1
  <2>3. \A i \in 1..n : i \in 0..n /\ i # 0
    BY <1>2
  <2> QED
    BY <1>3, <2>2, <2>3
<1>5. ASSUME Bad # {} PROVE FALSE
  <2>1. PICK i \in Bad : \A j \in Bad : i <= j
    <3> HIDE DEF Fine
    <3>1. Bad \subseteq Nat
      BY <1>2
    <3> QED
      BY <1>5, <3>1, LeastNatural
  <2>2. i \in 0..n /\ ~Fine(i)
    OBVIOUS
  <2>3. i # 0
    <3>1. Fine(0)
      BY <1>2, <1>4, PassedSame DEF n
    <3> QED
      BY <2>2, <3>1
  <2>4. i - 1 \in 0..n /\ ~(i <= i - 1) /\ i \in 1..n
    BY <1>2, <2>2, <2>3
  <2>5. Fine(i - 1)
    <3> HIDE DEF Fine
    <3> QED
      BY <2>1, <2>4
  <2> DEFINE q == after[i - 1]
  <2>6. Passed(q, p, w) /\ Len(q.queue[w]) = n - (i - 1)
    BY <2>5
  <2>7. after[i] = HandOver(q, w)
    BY <1>4, <2>4
  <2> HIDE DEF q
  <2>8. q \in PoolState /\ Destinations(q, w) # {} /\ q.queue[w] # <<>>
    <3>1. q \in PoolState /\ Destinations(q, w) = Destinations(p, w)
      BY <2>6, DestinationsSame DEF Passed
    <3>2. q.queue[w] \in Seq(Task)
      BY <3>1, PoolFields
    <3>3. Len(q.queue[w]) # 0
      BY <1>2, <2>4, <2>6
    <3> QED
      BY <3>1, <3>2, <3>3, ElementsOfSeq
  <2>9. Passed(HandOver(q, w), q, w) /\ Len(HandOver(q, w).queue[w]) = Len(q.queue[w]) - 1
    BY <2>8, HandOverPasses
  <2>10. Passed(HandOver(q, w), p, w)
    BY <2>6, <2>9, PassedTransitive
  <2>11. Len(HandOver(q, w).queue[w]) = n - i
    BY <1>2, <2>4, <2>6, <2>9
  <2>12. Fine(i)
    BY <2>7, <2>10, <2>11
  <2> QED
    BY <2>2, <2>12
<1>6. Passed(after[n], p, w) /\ Len(after[n].queue[w]) = n - n
  <2>1. n \in 0..n
    BY <1>2
  <2> QED
    BY <1>5, <2>1
<1>7. after[n].queue[w] = <<>>
  <2>1. after[n].queue[w] \in Seq(Task)
    BY <1>6, PoolFields DEF Passed
  <2>2. Len(after[n].queue[w]) = 0
    BY <1>2, <1>6
  <2> QED
    BY <2>1, <2>2, ElementsOfSeq
<1> QED
  BY <1>1, <1>6, <1>7

-----------------------------------------------------------------------------
(* A node leaves, or is replaced *)

LEMMA KeyFound ==
    ASSUME NEW p \in PoolState, NEW w \in Members(p)
    PROVE  /\ KeyOf(p, w) \in DOMAIN p.nodes /\ p.nodes[KeyOf(p, w)] = w
           /\ w \in Worker
<1>1. \E k \in DOMAIN p.nodes : p.nodes[k] = w
  BY PoolFields, ElementsOfSeq DEF Members
<1> QED
  BY <1>1, MembersSame DEF KeyOf, SameNodes

NodeLeft(r, p, w) ==
    /\ r \in PoolState
    /\ Members(r) = Members(p) \ {w} /\ Distinct(r.nodes) /\ Len(r.nodes) = Len(p.nodes) - 1
    /\ r.queue = [p.queue EXCEPT ![w] = <<>>] /\ r.running = [p.running EXCEPT ![w] = {}]
    /\ r.ready = [p.ready EXCEPT ![w] = FALSE]

LEMMA LeftFields ==
    ASSUME NEW p \in PoolState, Distinct(p.nodes), NEW w \in Members(p), NEW r, r = Left(p, w)
    PROVE  NodeLeft(r, p, w) /\ r.limit = p.limit
<1> DEFINE nodes == RemoveAt(p.nodes, KeyOf(p, w))
           ready == [p.ready EXCEPT ![w] = FALSE]
           queue == [p.queue EXCEPT ![w] = <<>>]
           flags == [p.backPressure EXCEPT ![w] = FALSE]
           executing == [p.executing EXCEPT ![w] = 0]
           running == [p.running EXCEPT ![w] = {}]
<1>1. /\ KeyOf(p, w) \in DOMAIN p.nodes /\ p.nodes[KeyOf(p, w)] = w /\ w \in Worker
      /\ p.nodes \in Seq(Worker)
  BY KeyFound, PoolFields
<1>2. /\ nodes \in Seq(Worker) /\ Len(nodes) = Len(p.nodes) - 1 /\ Distinct(nodes)
      /\ Range(p.nodes) = Range(nodes) \union {w} /\ w \notin Range(nodes)
  BY <1>1, RemovedSeq
<1>3. /\ ready \in [Worker -> BOOLEAN] /\ queue \in [Worker -> Seq(Task)]
      /\ flags \in [Worker -> BOOLEAN] /\ executing \in [Worker -> Nat]
      /\ running \in [Worker -> SUBSET Task]
  <2>1. <<>> \in Seq(Task)
    OBVIOUS
  <2> QED
    BY <2>1, PoolFields
<1>4. r = [p EXCEPT !.nodes = nodes, !.ready = ready, !.queue = queue, !.backPressure = flags,
                    !.executing = executing, !.running = running]
  BY DEF Left
<1> HIDE DEF nodes, ready, queue, flags, executing, running
<1>5. /\ r \in PoolState /\ r.nodes = nodes /\ r.ready = ready /\ r.queue = queue
      /\ r.running = running /\ r.limit = p.limit
  BY <1>2, <1>3, <1>4 DEF PoolState
<1>6. Members(r) = Members(p) \ {w}
  BY <1>2, <1>5 DEF Members
<1>7. Distinct(r.nodes) /\ Len(r.nodes) = Len(p.nodes) - 1
  BY <1>2, <1>5
<1>8. NodeLeft(r, p, w)
  BY <1>5, <1>6, <1>7 DEF NodeLeft, ready, queue, running
<1> QED
  BY <1>5, <1>8

NodeReplaced(r, p, w) ==
    /\ r \in PoolState
    /\ Members(r) = Members(p) /\ Distinct(r.nodes) /\ Len(r.nodes) = Len(p.nodes)
    /\ r.queue = [p.queue EXCEPT ![w] = <<>>] /\ r.running = [p.running EXCEPT ![w] = {}]

LEMMA LimitType ==
    ASSUME options \in QueueOptions \union {Disabled}
    PROVE  Limit(options) \in Nat /\ Limit(options) >= 1
<1>1. N \in Nat /\ N >= 1
  BY TasksQueueAssumption
<1>2. N * N \in Nat /\ N * N >= 1
  BY <1>1
<1> QED
  BY <1>2, TasksQueueAssumption DEF Limit

LEMMA ReplacedFields ==
    ASSUME options \in QueueOptions \union {Disabled}, NEW p \in PoolState, Distinct(p.nodes),
           NEW w \in Members(p), NEW r, r = Replaced(p, w)
    PROVE  NodeReplaced(r, p, w)
<1> DEFINE q == Left(p, w)
           nodes == Append(q.nodes, w)
           limit == [q.limit EXCEPT ![w] = Limit(options)]
<1>1. NodeLeft(q, p, w)
  BY LeftFields
<1>2. r = [q EXCEPT !.nodes = nodes, !.limit = limit]
  BY DEF Replaced
<1> HIDE DEF q
<1>3. q \in PoolState /\ q.nodes \in Seq(Worker) /\ w \in Worker /\ q.limit \in [Worker -> Nat]
  BY <1>1, KeyFound, PoolFields DEF NodeLeft
<1>4. Range(q.nodes) = Members(p) \ {w} /\ Distinct(q.nodes) /\ Len(q.nodes) = Len(p.nodes) - 1
  BY <1>1 DEF NodeLeft, Members
<1>5. /\ nodes \in Seq(Worker) /\ Len(nodes) = Len(q.nodes) + 1
      /\ Range(nodes) = Range(q.nodes) \union {w} /\ Distinct(nodes)
  BY <1>3, <1>4, LongerSeq
<1>6. limit \in [Worker -> Nat]
  BY <1>3, LimitType
<1> HIDE DEF nodes, limit
<1>7. r \in PoolState /\ r.nodes = nodes /\ r.queue = q.queue /\ r.running = q.running
  BY <1>2, <1>3, <1>5, <1>6 DEF PoolState
<1>8. Members(r) = Members(p)
  BY <1>4, <1>5, <1>7 DEF Members
<1>9. Len(r.nodes) = Len(p.nodes) /\ Distinct(r.nodes)
  <2>1. Len(p.nodes) \in Nat
    BY PoolFields, ElementsOfSeq
  <2> QED
    BY <1>4, <1>5, <1>7, <2>1
<1> QED
  BY <1>1, <1>7, <1>8, <1>9 DEF NodeReplaced, NodeLeft

-----------------------------------------------------------------------------
(* The inductive invariant, and what a step keeps *)

(* The destructions under way are those of members; one that waits for      *)
(* tasks has some to wait for                                               *)
Watched(e, members) ==
    /\ e \in [Worker -> EndingState]
    /\ \A w \in Worker : /\ e[w].phase # "none" => w \in members
                         /\ e[w].phase = "waiting" => e[w].events >= 1

EmptyWhenClosed ==
    options = Disabled \/ status # "started" => \A w \in Worker : pool.queue[w] = <<>>

LifeInv ==
    /\ TypeOK
    /\ Distinct(pool.nodes)
    /\ status = "started" => /\ Members(pool) = Worker /\ Len(pool.nodes) = N
                             /\ ending = [w \in Worker |-> NotEnding]
    /\ Watched(ending, Members(pool))
    /\ EmptyWhenClosed

(* What QueuedTasksSurvive says of a step *)
Survive ==
    \A t \in Queued :
        \/ t \in Queued' \union InWork'
        \/ promise'[t] = "settled"
        \/ /\ failures' > failures
           /\ \E w \in Members(pool) :
                  /\ t \in Range(pool.queue[w])
                  /\ \A v \in Members(pool) \ {w} : ~pool.ready[v]

LEMMA LifeTypes ==
    ASSUME LifeInv
    PROVE  /\ pool \in PoolState /\ Distinct(pool.nodes) /\ Members(pool) \subseteq Worker
           /\ options \in QueueOptions \union {Disabled}
           /\ status \in {"started", "destroying", "stopped"}
           /\ entry \in [Task -> 0..N] /\ promise \in [Task -> {"new", "pending", "settled"}]
           /\ ending \in [Worker -> EndingState] /\ N \in Nat /\ N >= 1
           /\ changes \in 0..MaxChanges /\ failures \in 0..MaxChanges /\ aborts \in Nat
<1>1. pool \in PoolState
  BY DEF LifeInv, TypeOK
<1>2. Members(pool) \subseteq Worker
  BY <1>1, MembersSame DEF SameNodes
<1> QED
  BY <1>1, <1>2, TasksQueueAssumption DEF LifeInv, TypeOK

LEMMA QueuedOn ==
    ASSUME NEW t
    PROVE  t \in Queued <=> \E w \in Members(pool) : t \in Range(pool.queue[w])
  BY DEF Queued

LEMMA NowHeld ==
    ASSUME NEW t
    PROVE  t \in Queued' \union InWork' <=> \E w \in Members(pool)' : t \in Tasks(pool, w)'
  BY DEF Queued, InWork, Tasks

LEMMA HeldSurvive ==
    ASSUME \A w \in Members(pool) : \A t \in Range(pool.queue[w]) :
               \E v \in Members(pool)' : t \in Tasks(pool, v)'
    PROVE  Survive
  BY QueuedOn, NowHeld DEF Survive

(* Steps that change neither the nodes nor how far their destruction is *)
LEMMA InvOnSameNodes ==
    ASSUME LifeInv, pool' \in PoolState, SameNodes(pool', pool), UNCHANGED <<options, status, ending>>,
           entry' \in [Task -> 0..N], promise' \in [Task -> {"new", "pending", "settled"}],
           changes' \in 0..MaxChanges, failures' \in 0..MaxChanges, aborts' \in Nat,
           \A w \in Worker : pool.queue[w] = <<>> /\ (options = Disabled \/ status # "started")
                                 => pool'.queue[w] = <<>>
    PROVE  LifeInv'
<1>1. TypeOK'
  BY LifeTypes DEF TypeOK
<1>2. Members(pool)' = Members(pool) /\ pool'.nodes = pool.nodes
  BY LifeTypes, MembersSame DEF SameNodes
<1> QED
  BY <1>1, <1>2 DEF LifeInv, EmptyWhenClosed, Watched

LEMMA ExecuteLives ==
    ASSUME LifeInv, NEW t \in Task, Execute(t)
    PROVE  LifeInv' /\ Survive
<1>1. PICK k \in DOMAIN pool.nodes :
          /\ pool.ready[pool.nodes[k]] /\ entry' = [entry EXCEPT ![t] = k]
          /\ pool' = IF Enabled THEN HandleTask(pool, pool.nodes[k], t)
                     ELSE ExecuteTask(pool, pool.nodes[k], t)
  BY DEF Execute
<1> DEFINE w == pool.nodes[k]
<1>2. /\ status = "started" /\ promise' = [promise EXCEPT ![t] = "pending"]
      /\ UNCHANGED <<options, status, ending, changes, failures, aborts>>
  BY DEF Execute
<1>3. w \in Worker /\ k \in 0..N
  BY <1>1, <1>2, LifeTypes, MembersSame DEF LifeInv, SameNodes
<1>4. pool' = IF Enabled THEN HandleTask(pool, w, t) ELSE ExecuteTask(pool, w, t)
  BY <1>1
<1> HIDE DEF w
<1>5. Given(pool', pool, w, t)
  BY <1>3, <1>4, LifeTypes, HandleTaskGives, ExecuteTaskGives
<1>6. pool' \in PoolState /\ SameNodes(pool', pool)
  BY <1>5 DEF Given
<1>7. entry' \in [Task -> 0..N]
  BY <1>1, <1>3, LifeTypes
<1>8. promise' \in [Task -> {"new", "pending", "settled"}]
  BY <1>2, LifeTypes
<1>9. options = Disabled => pool'.queue = pool.queue
  <2>1. ASSUME options = Disabled PROVE TaskExecuted(pool', pool, w, t)
    BY <1>3, <1>4, <2>1, LifeTypes, ExecuteTaskFields DEF Enabled
  <2> QED
    BY <2>1 DEF TaskExecuted
<1>10. LifeInv'
  <2>1. changes' \in 0..MaxChanges /\ failures' \in 0..MaxChanges /\ aborts' \in Nat
    BY <1>2, LifeTypes
  <2> QED
    BY <1>2, <1>6, <1>7, <1>8, <1>9, <2>1, InvOnSameNodes
<1>11. Survive
  <2>1. ASSUME NEW v \in Members(pool) PROVE Range(pool.queue[v]) \subseteq Tasks(pool', v)
    BY <1>5, <2>1, LifeTypes DEF Given, Tasks
  <2>2. Members(pool') = Members(pool)
    BY <1>6, LifeTypes, MembersSame
  <2> QED
    BY <2>1, <2>2, HeldSurvive
<1> QED
  BY <1>10, <1>11

LEMMA KillSentWatched ==
    ASSUME LifeInv, NEW e \in [Worker -> EndingState], NEW w \in Members(pool),
           \A v \in Worker \ {w} : /\ e[v].phase # "none" => v \in Members(pool)
                                   /\ e[v].phase = "waiting" => e[v].events >= 1
    PROVE  Watched(KillSent(e, w), Members(pool))
<1> DEFINE k == e[w].key
           own == [e[w] EXCEPT !.phase = "killing"]
           killing == [e EXCEPT ![w] = own]
<1>1. w \in Worker /\ e[w] \in EndingState
  BY LifeTypes
<1>2. own \in EndingState /\ own.phase = "killing"
  BY <1>1 DEF EndingState
<1>3. KillSent(e, w) = IF k \in DOMAIN pool.nodes
                       THEN [killing EXCEPT ![pool.nodes[k]].told = TRUE] ELSE killing
  BY DEF KillSent
<1> HIDE DEF own, k
<1>4. killing \in [Worker -> EndingState] /\ Watched(killing, Members(pool))
  BY <1>1, <1>2 DEF Watched
<1> HIDE DEF killing
<1>5. CASE k \in DOMAIN pool.nodes
  <2> DEFINE v == pool.nodes[k]
             told == [killing[v] EXCEPT !.told = TRUE]
  <2>1. v \in Worker /\ v \in Members(pool)
    BY <1>5, LifeTypes, MembersSame DEF SameNodes
  <2>2. KillSent(e, w) = [killing EXCEPT ![v] = told]
    BY <1>3, <1>5
  <2>3. killing[v] \in EndingState
    BY <1>4, <2>1
  <2> HIDE DEF v
  <2>4. told \in EndingState /\ told.phase = killing[v].phase /\ told.events = killing[v].events
    BY <2>3 DEF EndingState
  <2> HIDE DEF told
  <2> QED
    BY <1>4, <2>1, <2>2, <2>4 DEF Watched
<1>6. CASE k \notin DOMAIN pool.nodes
  BY <1>3, <1>4, <1>6
<1> QED
  BY <1>5, <1>6

LEMMA TaskFinishedWatched ==
    ASSUME LifeInv, NEW k
    PROVE  /\ Watched(TaskFinished(ending, k), Members(pool))
           /\ status = "started" => TaskFinished(ending, k) = ending
<1>1. Watched(ending, Members(pool)) /\ ending \in [Worker -> EndingState]
  BY DEF LifeInv, Watched
<1>2. CASE k \notin DOMAIN pool.nodes
  BY <1>1, <1>2 DEF TaskFinished
<1>3. CASE k \in DOMAIN pool.nodes
  <2> DEFINE w == pool.nodes[k]
             fewer == [ending[w] EXCEPT !.events = @ - 1]
             heard == [ending EXCEPT ![w] = fewer]
  <2>1. w \in Members(pool) /\ w \in Worker
    BY <1>3, LifeTypes, MembersSame DEF SameNodes
  <2>2. TaskFinished(ending, k) = IF ending[w].phase = "waiting"
                                  THEN IF heard[w].events + 1 > 1 THEN heard ELSE KillSent(heard, w)
                                  ELSE ending
    <3>1. heard[w].events + 1 = ending[w].events
      <4>1. ending[w] \in EndingState /\ heard[w] = fewer
        BY <1>1, <2>1
      <4> QED
        BY <4>1 DEF EndingState
    <3>2. heard = [ending EXCEPT ![w].events = @ - 1]
      OBVIOUS
    <3> QED
      BY <1>3, <3>1, <3>2 DEF TaskFinished
  <2>3. ending[w] \in EndingState
    BY <1>1, <2>1
  <2> HIDE DEF w
  <2>4. CASE ending[w].phase # "waiting"
    BY <1>1, <2>2, <2>4
  <2>5. CASE ending[w].phase = "waiting"
    <3>1. ending[w].events >= 1 /\ ending[w].events \in Nat
      BY <1>1, <2>1, <2>3, <2>5 DEF Watched, EndingState
    <3>2. fewer \in EndingState /\ fewer.phase = "waiting" /\ fewer.events = ending[w].events - 1
      BY <2>3, <2>5, <3>1 DEF EndingState
    <3> HIDE DEF fewer
    <3>3. heard \in [Worker -> EndingState] /\ heard[w] = fewer
          /\ \A v \in Worker \ {w} : heard[v] = ending[v]
      BY <1>1, <2>1, <3>2
    <3> HIDE DEF heard
    <3>4. status # "started"
      <4>1. status = "started" => ending[w].phase = "none"
        BY <2>1 DEF LifeInv, NotEnding
      <4> QED
        BY <2>5, <4>1
    <3>5. CASE heard[w].events + 1 > 1
      <4>1. Watched(heard, Members(pool))
        BY <1>1, <2>1, <3>1, <3>2, <3>3, <3>5 DEF Watched
      <4> QED
        BY <2>2, <2>5, <3>5, <4>1, <3>4
    <3>6. CASE ~(heard[w].events + 1 > 1)
      <4>1. \A v \in Worker \ {w} : /\ heard[v].phase # "none" => v \in Members(pool)
                                    /\ heard[v].phase = "waiting" => heard[v].events >= 1
        BY <1>1, <3>3 DEF Watched
      <4>2. Watched(KillSent(heard, w), Members(pool))
        BY <2>1, <3>3, <4>1, KillSentWatched
      <4> QED
        BY <2>2, <2>5, <3>4, <3>6, <4>2
    <3> QED
      BY <3>5, <3>6
  <2> QED
    BY <2>4, <2>5
<1> QED
  BY <1>2, <1>3

-----------------------------------------------------------------------------
(* A response: its task leaves the worker, and a queued one takes its place *)

Answered(p, w, t) == [p EXCEPT !.running[w] = @ \ {t}]

TaskAnswered(r, p, w, t, k) ==
    /\ r \in PoolState /\ SameNodes(r, p)
    /\ r.queue = p.queue /\ r.backPressure = p.backPressure
    /\ r.backPressureEventEmitted = p.backPressureEventEmitted
    /\ r.running = [p.running EXCEPT ![w] = @ \ {t}]
    /\ r.executing = IF k \in DOMAIN p.nodes
                     THEN [p.executing EXCEPT ![p.nodes[k]] = IF @ > 0 THEN @ - 1 ELSE 0]
                     ELSE p.executing
    /\ r.busyEventEmitted = (p.busyEventEmitted /\ InternalBusy(r))

LEMMA AnsweredFields ==
    ASSUME NEW p \in PoolState, NEW w \in Worker, NEW t \in Task, NEW k, NEW r,
           r = BusyEndChecked(Unexecuted(Answered(p, w, t), k))
    PROVE  TaskAnswered(r, p, w, t, k)
<1> DEFINE running == [p.running EXCEPT ![w] = @ \ {t}]
           q == Answered(p, w, t)
           executing == IF k \in DOMAIN p.nodes
                        THEN [p.executing EXCEPT ![p.nodes[k]] = IF @ > 0 THEN @ - 1 ELSE 0]
                        ELSE p.executing
           u == Unexecuted(q, k)
<1>1. running \in [Worker -> SUBSET Task]
  BY PoolFields
<1>2. q = [p EXCEPT !.running = running]
  BY DEF Answered
<1> HIDE DEF running, q
<1>3. /\ q \in PoolState /\ SameNodes(q, p) /\ q.queue = p.queue
      /\ q.backPressure = p.backPressure /\ q.executing = p.executing
      /\ q.backPressureEventEmitted = p.backPressureEventEmitted
      /\ q.busyEventEmitted = p.busyEventEmitted /\ q.running = running
  BY <1>1, <1>2 DEF PoolState, SameNodes
<1>4. executing \in [Worker -> Nat]
  <2>1. k \in DOMAIN p.nodes => p.nodes[k] \in Worker
    BY MembersSame DEF SameNodes
  <2>2. p.executing \in [Worker -> Nat]
    BY PoolFields
  <2>3. ASSUME NEW v \in Worker PROVE (IF p.executing[v] > 0 THEN p.executing[v] - 1 ELSE 0) \in Nat
    BY <2>2
  <2> QED
    BY <2>1, <2>2, <2>3
<1>5. u = [q EXCEPT !.executing = executing]
  <2>1. q.nodes = p.nodes /\ q.executing = p.executing
    BY <1>3 DEF SameNodes
  <2>2. CASE k \in DOMAIN p.nodes
    BY <2>1, <2>2 DEF Unexecuted
  <2>3. CASE k \notin DOMAIN p.nodes
    <3>1. u = q /\ executing = q.executing
      BY <2>1, <2>3 DEF Unexecuted
    <3> QED
      BY <1>3, <3>1 DEF PoolState
  <2> QED
    BY <2>2, <2>3
<1> HIDE DEF executing, u
<1>6. /\ u \in PoolState /\ SameNodes(u, q) /\ u.queue = q.queue
      /\ u.backPressure = q.backPressure /\ u.executing = executing
      /\ u.backPressureEventEmitted = q.backPressureEventEmitted
      /\ u.busyEventEmitted = q.busyEventEmitted /\ u.running = q.running
  BY <1>3, <1>4, <1>5 DEF PoolState, SameNodes
<1>7. r = [u EXCEPT !.busyEventEmitted = @ /\ InternalBusy(u)]
  BY DEF BusyEndChecked, u, q
<1>8. (u.busyEventEmitted /\ InternalBusy(u)) \in BOOLEAN
  OBVIOUS
<1>9. /\ r \in PoolState /\ SameNodes(r, u) /\ r.queue = u.queue
      /\ r.backPressure = u.backPressure /\ r.executing = u.executing
      /\ r.backPressureEventEmitted = u.backPressureEventEmitted
      /\ r.busyEventEmitted = (u.busyEventEmitted /\ InternalBusy(u)) /\ r.running = u.running
  BY <1>6, <1>7, <1>8 DEF PoolState, SameNodes
<1>10. InternalBusy(r) <=> InternalBusy(u)
  BY <1>9 DEF InternalBusy, Members, IsWorkerNodeBusy, SameNodes
<1>11. SameNodes(r, p)
  BY <1>3, <1>6, <1>9 DEF SameNodes
<1>12. r.busyEventEmitted = (p.busyEventEmitted /\ InternalBusy(r))
  BY <1>3, <1>6, <1>9, <1>10
<1>13. r.running = running /\ r.executing = executing
  BY <1>3, <1>6, <1>9
<1> QED
  BY <1>3, <1>6, <1>9, <1>11, <1>12, <1>13 DEF TaskAnswered, running, executing

NextRuns(r, p, w) ==
    /\ r \in PoolState /\ SameNodes(r, p)
    /\ r.queue = [p.queue EXCEPT ![w] = Tail(@)]
    /\ r.running = [p.running EXCEPT ![w] = @ \union {Head(p.queue[w])}]
    /\ r.executing = [p.executing EXCEPT ![w] = @ + 1]
    /\ r.backPressure = [p.backPressure EXCEPT ![w] = @ /\ HasBackPressure(r, w)]
    /\ r.backPressureEventEmitted = (p.backPressureEventEmitted /\ InternalBackPressure(r))
    /\ r.busyEventEmitted = (p.busyEventEmitted \/ InternalBusy(r))

LEMMA ExecuteNextFields ==
    ASSUME NEW p \in PoolState, NEW w \in Worker, p.queue[w] # <<>>, NEW r, r = ExecuteNext(p, w)
    PROVE  NextRuns(r, p, w)
<1> DEFINE q == DequeueTask(p, w)
           t == Head(p.queue[w])
<1>1. TaskDequeued(q, p, w)
  BY DequeueTaskFields
<1>2. t \in Task
  BY PoolFields, ShorterSeq
<1>3. r = ExecuteTask(q, w, t)
  BY DEF ExecuteNext
<1> HIDE DEF q
<1>4. /\ q \in PoolState /\ SameNodes(q, p)
      /\ q.executing = p.executing /\ q.running = p.running
      /\ q.busyEventEmitted = p.busyEventEmitted
      /\ q.queue = [p.queue EXCEPT ![w] = Tail(@)]
      /\ q.backPressure = [p.backPressure EXCEPT ![w] = @ /\ HasBackPressure(q, w)]
      /\ q.backPressureEventEmitted = (p.backPressureEventEmitted /\ InternalBackPressure(q))
  BY <1>1 DEF TaskDequeued
<1>5. TaskExecuted(r, q, w, t)
  BY <1>2, <1>3, <1>4, ExecuteTaskFields
<1>6. /\ r \in PoolState /\ SameNodes(r, q)
      /\ r.queue = q.queue /\ r.backPressure = q.backPressure
      /\ r.backPressureEventEmitted = q.backPressureEventEmitted
      /\ r.executing = [q.executing EXCEPT ![w] = @ + 1]
      /\ r.running = [q.running EXCEPT ![w] = @ \union {t}]
      /\ r.busyEventEmitted = (q.busyEventEmitted \/ InternalBusy(r))
  BY <1>5 DEF TaskExecuted
<1>7. InternalBackPressure(r) <=> InternalBackPressure(q)
  BY <1>6, BackPressureSame
<1>8. HasBackPressure(r, w) <=> HasBackPressure(q, w)
  BY <1>6 DEF HasBackPressure, SameNodes
<1>9. SameNodes(r, p)
  BY <1>4, <1>6 DEF SameNodes
<1>10. r.backPressure = [p.backPressure EXCEPT ![w] = @ /\ HasBackPressure(r, w)]
  BY <1>4, <1>6, <1>8
<1>11. r.backPressureEventEmitted = (p.backPressureEventEmitted /\ InternalBackPressure(r))
  BY <1>4, <1>6, <1>7
<1> QED
  BY <1>4, <1>6, <1>9, <1>10, <1>11 DEF NextRuns

LEMMA ExecuteNextKeeps ==
    ASSUME NEW p \in PoolState, NEW w \in Worker, p.queue[w] # <<>>, NEW r, r = ExecuteNext(p, w)
    PROVE  /\ r \in PoolState /\ SameNodes(r, p)
           /\ \A v \in Worker : Range(p.queue[v]) \subseteq Tasks(r, v)
           /\ \A v \in Worker : p.queue[v] = <<>> => r.queue[v] = <<>>
<1>1. /\ r \in PoolState /\ SameNodes(r, p)
      /\ r.queue = [p.queue EXCEPT ![w] = Tail(@)]
      /\ r.running = [p.running EXCEPT ![w] = @ \union {Head(p.queue[w])}]
  <2>1. NextRuns(r, p, w)
    BY ExecuteNextFields
  <2> QED
    BY <2>1 DEF NextRuns
<1>2. p.queue \in [Worker -> Seq(Task)] /\ p.running \in [Worker -> SUBSET Task]
  BY PoolFields
<1>3. /\ r.queue[w] = Tail(p.queue[w]) /\ r.running[w] = p.running[w] \union {Head(p.queue[w])}
      /\ \A v \in Worker \ {w} : r.queue[v] = p.queue[v]
  BY <1>1, <1>2
<1>4. Range(p.queue[w]) = Range(Tail(p.queue[w])) \union {Head(p.queue[w])}
  BY <1>2, ShorterSeq
<1>5. ASSUME NEW v \in Worker PROVE Range(p.queue[v]) \subseteq Tasks(r, v)
  <2>1. CASE v = w
    BY <1>3, <1>4, <2>1 DEF Tasks
  <2>2. CASE v # w
    BY <1>3, <2>2 DEF Tasks
  <2> QED
    BY <2>1, <2>2
<1> QED
  BY <1>1, <1>3, <1>5

LEMMA ContinuedKeeps ==
    ASSUME NEW p \in PoolState, NEW k, NEW r, r = Continued(p, k)
    PROVE  /\ r \in PoolState /\ SameNodes(r, p)
           /\ \A v \in Worker : Range(p.queue[v]) \subseteq Tasks(r, v)
           /\ \A v \in Worker : p.queue[v] = <<>> => r.queue[v] = <<>>
<1>1. CASE r = p
  BY <1>1 DEF SameNodes, Tasks
<1>2. CASE r # p
  <2>1. /\ k \in DOMAIN p.nodes /\ p.queue[p.nodes[k]] # <<>> /\ r = ExecuteNext(p, p.nodes[k])
    BY <1>2 DEF Continued
  <2>2. p.nodes[k] \in Worker
    BY <2>1, MembersSame DEF SameNodes
  <2> QED
    BY <2>1, <2>2, ExecuteNextKeeps
<1> QED
  BY <1>1, <1>2

LEMMA RespondLives ==
    ASSUME LifeInv, NEW w \in Worker, NEW t \in Task, Respond(w, t)
    PROVE  LifeInv' /\ Survive
<1>1. /\ pool' = Continued(BusyEndChecked(Unexecuted(Answered(pool, w, t), entry[t])), entry[t])
      /\ ending' = TaskFinished(ending, entry[t])
      /\ entry' = [entry EXCEPT ![t] = NoKey]
      /\ promise' = [promise EXCEPT ![t] = "settled"]
      /\ UNCHANGED <<options, status, changes, failures, aborts>>
  BY DEF Respond, Answered
<1> DEFINE p == BusyEndChecked(Unexecuted(Answered(pool, w, t), entry[t]))
<1>2. pool \in PoolState
  BY LifeTypes
<1>3. TaskAnswered(p, pool, w, t, entry[t])
  BY <1>2, AnsweredFields
<1>4. pool' = Continued(p, entry[t])
  BY <1>1
<1> HIDE DEF p
<1>5. p \in PoolState /\ SameNodes(p, pool) /\ p.queue = pool.queue
  BY <1>3 DEF TaskAnswered
<1>6. /\ pool' \in PoolState /\ SameNodes(pool', p)
      /\ \A v \in Worker : Range(p.queue[v]) \subseteq Tasks(pool', v)
      /\ \A v \in Worker : p.queue[v] = <<>> => pool'.queue[v] = <<>>
  BY <1>4, <1>5, ContinuedKeeps
<1>7. SameNodes(pool', pool)
  BY <1>5, <1>6 DEF SameNodes
<1>8. Members(pool') = Members(pool) /\ Members(pool) \subseteq Worker /\ pool'.nodes = pool.nodes
  BY <1>2, <1>7, MembersSame DEF SameNodes
<1>9. Watched(ending', Members(pool)) /\ (status = "started" => ending' = ending)
  BY <1>1, TaskFinishedWatched
<1>10. LifeInv'
  <2>1. entry' \in [Task -> 0..N] /\ promise' \in [Task -> {"new", "pending", "settled"}]
    BY <1>1, LifeTypes DEF NoKey
  <2>2. TypeOK'
    BY <1>1, <1>6, <1>9, <2>1, LifeTypes DEF TypeOK, Watched
  <2>3. Watched(ending, Members(pool))'
    BY <1>8, <1>9 DEF Watched
  <2>4. EmptyWhenClosed'
    BY <1>1, <1>5, <1>6 DEF LifeInv, EmptyWhenClosed
  <2>5. Distinct(pool.nodes)' /\ (status' = "started" => /\ Members(pool)' = Worker
            /\ Len(pool.nodes)' = N /\ ending' = [v \in Worker |-> NotEnding])
    BY <1>1, <1>8, <1>9 DEF LifeInv
  <2> QED
    BY <2>2, <2>3, <2>4, <2>5 DEF LifeInv
<1>11. Survive
  BY <1>5, <1>6, <1>8, HeldSurvive
<1> QED
  BY <1>10, <1>11

LEMMA AbortQueuedTaskLives ==
    ASSUME LifeInv, NEW t \in Task, AbortQueuedTask(t)
    PROVE  LifeInv' /\ Survive
<1> DEFINE w == pool.nodes[entry[t]]
<1>1. /\ entry[t] \in DOMAIN pool.nodes /\ Enabled
      /\ entry' = [entry EXCEPT ![t] = NoKey]
      /\ promise' = [promise EXCEPT ![t] = "settled"] /\ aborts' = aborts + 1
      /\ UNCHANGED <<options, status, ending, changes, failures>>
  BY DEF AbortQueuedTask
<1>2. PICK i \in DOMAIN pool.queue[w] :
          /\ pool.queue[w][i] = t
          /\ pool' = [pool EXCEPT !.queue[w] = RemoveAt(@, i)]
  BY DEF AbortQueuedTask
<1>3. w \in Worker
  BY <1>1, LifeTypes, MembersSame DEF SameNodes
<1> HIDE DEF w
<1> DEFINE rest == RemoveAt(pool.queue[w], i)
           queue == [pool.queue EXCEPT ![w] = rest]
<1>4. pool \in PoolState /\ pool.queue \in [Worker -> Seq(Task)] /\ pool.queue[w] \in Seq(Task)
  BY <1>3, LifeTypes, PoolFields
<1>5. rest \in Seq(Task) /\ Range(pool.queue[w]) = Range(rest) \union {t}
  BY <1>2, <1>4, RemovedSeq
<1>6. queue \in [Worker -> Seq(Task)] /\ pool' = [pool EXCEPT !.queue = queue]
  BY <1>2, <1>4, <1>5
<1>7. queue[w] = rest /\ \A v \in Worker \ {w} : queue[v] = pool.queue[v]
  BY <1>3, <1>4
<1>8. pool.queue[w] # <<>>
  BY <1>2
<1> HIDE DEF queue, rest
<1>9. pool' \in PoolState /\ SameNodes(pool', pool) /\ pool'.queue = queue
  BY <1>4, <1>6 DEF PoolState, SameNodes
<1>10. Members(pool') = Members(pool) /\ Members(pool) \subseteq Worker
  BY <1>4, <1>9, MembersSame
<1>11. LifeInv'
  <2>1. entry' \in [Task -> 0..N] /\ promise' \in [Task -> {"new", "pending", "settled"}]
    BY <1>1, LifeTypes DEF NoKey
  <2>2. changes' \in 0..MaxChanges /\ failures' \in 0..MaxChanges /\ aborts' \in Nat
    BY <1>1, LifeTypes
  <2>3. \A v \in Worker : pool.queue[v] = <<>> => pool'.queue[v] = <<>>
    BY <1>7, <1>8, <1>9
  <2> QED
    BY <1>1, <1>9, <2>1, <2>2, <2>3, InvOnSameNodes
<1>12. Survive
  <2>1. promise'[t] = "settled"
    BY <1>1, LifeTypes
  <2>2. ASSUME NEW x \in Queued PROVE x = t \/ x \in Queued' \union InWork'
    <3>1. PICK v \in Members(pool) : x \in Range(pool.queue[v])
      BY <2>2, QueuedOn
    <3>2. x = t \/ x \in Range(queue[v])
      BY <1>5, <1>7, <1>10, <3>1
    <3> QED
      BY <1>9, <1>10, <3>1, <3>2, NowHeld DEF Tasks
  <2> QED
    BY <2>1, <2>2 DEF Survive
<1> QED
  BY <1>11, <1>12

-----------------------------------------------------------------------------
(* Options, workers and the end *)

LEMMA AllFlushedHeld ==
    ASSUME NEW p \in PoolState, NEW r, AllFlushed(r, p)
    PROVE  /\ r \in PoolState /\ SameNodes(r, p)
           /\ \A v \in Worker : r.queue[v] = <<>> /\ Range(p.queue[v]) \subseteq Tasks(r, v)
<1>1. r \in PoolState /\ SameNodes(r, p) /\ r.queue = NoQueue /\ r.running = AllRunning(p)
  BY DEF AllFlushed
<1> QED
  BY <1>1 DEF NoQueue, AllRunning, Tasks

LEMMA DisableTasksQueueLives ==
    ASSUME LifeInv, DisableTasksQueue
    PROVE  LifeInv' /\ Survive
<1>1. /\ status = "started" /\ changes + failures < MaxChanges /\ changes' = changes + 1
      /\ pool' = FlushTasksQueues(pool) /\ options' = Disabled
      /\ UNCHANGED <<status, entry, promise, ending, failures, aborts>>
  BY DEF DisableTasksQueue
<1>2. AllFlushed(pool', pool)
  BY <1>1, LifeTypes, FlushFields
<1>3. /\ pool' \in PoolState /\ SameNodes(pool', pool)
      /\ \A v \in Worker : pool'.queue[v] = <<>> /\ Range(pool.queue[v]) \subseteq Tasks(pool', v)
  BY <1>2, LifeTypes, AllFlushedHeld
<1>4. /\ Members(pool') = Members(pool) /\ Members(pool) \subseteq Worker
      /\ pool'.nodes = pool.nodes
  BY <1>3, LifeTypes, MembersSame DEF SameNodes
<1>5. TypeOK'
  <2>1. changes' \in 0..MaxChanges
    BY <1>1, LifeTypes, TasksQueueAssumption
  <2> QED
    BY <1>1, <1>3, <2>1, LifeTypes DEF TypeOK
<1>6. LifeInv'
  BY <1>1, <1>3, <1>4, <1>5 DEF LifeInv, EmptyWhenClosed, Watched
<1>7. Survive
  BY <1>3, <1>4, HeldSurvive
<1> QED
  BY <1>6, <1>7

LEMMA SetTasksQueueOptionsLives ==
    ASSUME LifeInv, NEW o \in QueueOptions, SetTasksQueueOptions(o)
    PROVE  LifeInv' /\ Survive
<1>1. /\ status = "started" /\ changes + failures < MaxChanges /\ changes' = changes + 1
      /\ pool' = Resized(pool, o.size) /\ options' = o
      /\ UNCHANGED <<status, entry, promise, ending, failures, aborts>>
  BY DEF SetTasksQueueOptions
<1> DEFINE limit == [w \in Worker |-> o.size]
<1>2. limit \in [Worker -> Nat]
  BY TasksQueueAssumption
<1>3. pool' = [pool EXCEPT !.limit = limit]
  BY <1>1 DEF Resized
<1> HIDE DEF limit
<1>4. /\ pool' \in PoolState /\ pool'.nodes = pool.nodes /\ pool'.queue = pool.queue
      /\ pool'.running = pool.running
  BY <1>2, <1>3, LifeTypes DEF PoolState
<1>5. Members(pool') = Members(pool)
  BY <1>4 DEF Members
<1>6. TypeOK'
  <2>1. changes' \in 0..MaxChanges
    BY <1>1, LifeTypes, TasksQueueAssumption
  <2> QED
    BY <1>1, <1>4, <2>1, LifeTypes DEF TypeOK
<1>7. o # Disabled
  BY TasksQueueAssumption
<1>8. LifeInv'
  BY <1>1, <1>4, <1>5, <1>6, <1>7 DEF LifeInv, EmptyWhenClosed, Watched
<1>9. Survive
  BY <1>4, <1>5, HeldSurvive DEF Tasks
<1> QED
  BY <1>8, <1>9

LEMMA WorkerReadyLives ==
    ASSUME LifeInv, NEW w \in Worker, WorkerReady(w)
    PROVE  LifeInv' /\ Survive
<1>1. /\ pool' = [pool EXCEPT !.ready[w] = TRUE]
      /\ UNCHANGED <<options, status, entry, promise, ending, changes, failures, aborts>>
  BY DEF WorkerReady
<1> DEFINE ready == [pool.ready EXCEPT ![w] = TRUE]
<1>2. ready \in [Worker -> BOOLEAN]
  BY LifeTypes, PoolFields
<1>3. pool' = [pool EXCEPT !.ready = ready]
  BY <1>1
<1> HIDE DEF ready
<1>4. /\ pool' \in PoolState /\ pool'.nodes = pool.nodes /\ pool'.queue = pool.queue
      /\ pool'.running = pool.running
  BY <1>2, <1>3, LifeTypes DEF PoolState
<1>5. Members(pool') = Members(pool)
  BY <1>4 DEF Members
<1>6. TypeOK'
  BY <1>1, <1>4, LifeTypes DEF TypeOK
<1>7. LifeInv'
  BY <1>1, <1>4, <1>5, <1>6 DEF LifeInv, EmptyWhenClosed, Watched
<1>8. Survive
  BY <1>4, <1>5, HeldSurvive DEF Tasks
<1> QED
  BY <1>7, <1>8

LEMMA TasksFinishedTimeoutLives ==
    ASSUME LifeInv, NEW w \in Worker, TasksFinishedTimeout(w)
    PROVE  LifeInv' /\ Survive
<1>1. /\ ending[w].phase = "waiting" /\ ending' = KillSent(ending, w)
      /\ UNCHANGED <<pool, options, status, entry, promise, changes, failures, aborts>>
  BY DEF TasksFinishedTimeout
<1>2. Watched(ending, Members(pool)) /\ ending \in [Worker -> EndingState]
  BY DEF LifeInv, Watched
<1>3. w \in Members(pool)
  BY <1>1, <1>2 DEF Watched
<1>4. Watched(ending', Members(pool))
  BY <1>1, <1>2, <1>3, KillSentWatched, LifeTypes DEF Watched
<1>5. status # "started"
  BY <1>1 DEF LifeInv, NotEnding
<1>6. TypeOK'
  BY <1>1, <1>4, LifeTypes DEF TypeOK, Watched
<1>7. LifeInv'
  BY <1>1, <1>4, <1>5, <1>6 DEF LifeInv, EmptyWhenClosed, Watched, Members
<1>8. Survive
  BY <1>1, HeldSurvive DEF Tasks, Members
<1> QED
  BY <1>7, <1>8

LEMMA WorkerClosesLives ==
    ASSUME LifeInv, NEW w \in Worker, WorkerCloses(w)
    PROVE  LifeInv' /\ Survive
<1>1. /\ ending[w].told /\ ending' = [ending EXCEPT ![w].closed = TRUE]
      /\ UNCHANGED <<pool, options, status, entry, promise, changes, failures, aborts>>
  BY DEF WorkerCloses
<1> DEFINE closed == [ending[w] EXCEPT !.closed = TRUE]
<1>2. Watched(ending, Members(pool)) /\ ending[w] \in EndingState
  BY LifeTypes DEF LifeInv
<1>3. /\ closed \in EndingState /\ closed.phase = ending[w].phase
      /\ closed.events = ending[w].events
  BY <1>2 DEF EndingState
<1>4. ending' = [ending EXCEPT ![w] = closed]
  BY <1>1
<1> HIDE DEF closed
<1>5. Watched(ending', Members(pool))
  BY <1>2, <1>3, <1>4 DEF Watched
<1>6. status # "started"
  BY <1>1 DEF LifeInv, NotEnding
<1>7. TypeOK'
  BY <1>1, <1>5, LifeTypes DEF TypeOK, Watched
<1>8. LifeInv'
  BY <1>1, <1>5, <1>6, <1>7 DEF LifeInv, EmptyWhenClosed, Watched, Members
<1>9. Survive
  BY <1>1, HeldSurvive DEF Tasks, Members
<1> QED
  BY <1>8, <1>9

LEMMA NothingQueued ==
    ASSUME LifeInv, options = Disabled \/ status # "started"
    PROVE  Queued = {} /\ Survive
<1>1. \A w \in Worker : Range(pool.queue[w]) = {}
  BY LifeTypes, PoolFields, ElementsOfSeq DEF LifeInv, EmptyWhenClosed
<1> QED
  BY <1>1, LifeTypes, QueuedOn DEF Survive

(* The queued tasks of w have gone to other nodes, or there is none for them *)
HandedOut(r, w) ==
    /\ r \in PoolState /\ r.nodes = pool.nodes
    /\ \A v \in Worker \ {w} : Tasks(pool, v) \subseteq Tasks(r, v)
    /\ \A t \in Range(pool.queue[w]) :
           \/ \E v \in Members(pool) \ {w} : t \in Tasks(r, v)
           \/ \A v \in Members(pool) \ {w} : ~pool.ready[v]

LEMMA FailureHandsOut ==
    ASSUME LifeInv, Enabled, NEW w \in Members(pool),
           NEW flagged \in PoolState, flagged = [pool EXCEPT !.ready[w] = FALSE],
           NEW r, r = RedistributeQueuedTasks(flagged, w)
    PROVE  HandedOut(r, w)
<1>1. w \in Worker /\ pool.ready \in [Worker -> BOOLEAN] /\ pool \in PoolState
  BY LifeTypes, PoolFields
<1>2. /\ flagged.nodes = pool.nodes /\ flagged.queue = pool.queue
      /\ flagged.running = pool.running
      /\ \A v \in Worker \ {w} : flagged.ready[v] = pool.ready[v]
  BY <1>1 DEF PoolState
<1>3. Members(flagged) = Members(pool) /\ \A v : Tasks(flagged, v) = Tasks(pool, v)
  BY <1>2 DEF Members, Tasks
<1>4. CASE ~CannotStealTask(flagged) /\ Destinations(flagged, w) # {}
  <2>1. Passed(r, flagged, w) /\ r.queue[w] = <<>>
    BY <1>1, <1>4, RedistributionPasses
  <2>2. r \in PoolState /\ r.nodes = pool.nodes
    BY <1>2, <2>1 DEF Passed, SameNodes
  <2>3. \A v \in Worker \ {w} : Tasks(pool, v) \subseteq Tasks(r, v)
    BY <1>3, <2>1 DEF Passed
  <2>4. Range(r.queue[w]) = {}
    BY <1>1, <2>1, <2>2, PoolFields, ElementsOfSeq
  <2>5. \A t \in Range(pool.queue[w]) : \E v \in Members(pool) \ {w} : t \in Tasks(r, v)
    BY <1>2, <1>3, <2>1, <2>4 DEF Passed
  <2> QED
    BY <2>2, <2>3, <2>5 DEF HandedOut
<1>5. CASE CannotStealTask(flagged) \/ Destinations(flagged, w) = {}
  <2>1. r = flagged
    BY <1>5 DEF RedistributeQueuedTasks
  <2>2. \A v \in Worker \ {w} : Tasks(pool, v) \subseteq Tasks(r, v)
    BY <1>3, <2>1
  <2>3. CASE Len(pool.nodes) <= 1
    <3>1. \A v \in Members(pool) : v = w
      <4>1. \A v \in Members(pool) : KeyOf(pool, v) \in DOMAIN pool.nodes
                                     /\ pool.nodes[KeyOf(pool, v)] = v
        BY <1>1, KeyFound
      <4>2. DOMAIN pool.nodes = 1..Len(pool.nodes) /\ Len(pool.nodes) \in Nat
        BY <1>1, MembersSame DEF SameNodes
      <4>3. \A k \in DOMAIN pool.nodes : k = 1
        BY <2>3, <4>2
      <4> QED
        BY <4>1, <4>3
    <3> QED
      BY <1>2, <2>1, <2>2, <3>1 DEF HandedOut
  <2>4. CASE \A v \in Members(pool) : pool.queue[v] = <<>>
    <3>1. Range(pool.queue[w]) = {}
      BY <1>1, <2>4, PoolFields, ElementsOfSeq
    <3> QED
      BY <1>2, <2>1, <2>2, <3>1 DEF HandedOut
  <2>5. CASE Destinations(flagged, w) = {}
    <3>1. ASSUME NEW v \in Members(pool) \ {w} PROVE ~pool.ready[v]
      <4>1. KeyOf(pool, v) \in DOMAIN pool.nodes /\ pool.nodes[KeyOf(pool, v)] = v /\ v \in Worker
        BY <1>1, KeyFound
      <4>2. KeyOf(pool, v) \notin Destinations(flagged, w)
        BY <2>5
      <4> QED
        BY <1>2, <4>1, <4>2 DEF Destinations
    <3> QED
      BY <1>2, <2>1, <2>2, <3>1 DEF HandedOut
  <2> QED
    BY <1>2, <1>3, <1>5, <2>3, <2>4, <2>5 DEF CannotStealTask
<1> QED
  BY <1>4, <1>5

LEMMA WorkerFailsLives ==
    ASSUME LifeInv, NEW w \in Worker, WorkerFails(w)
    PROVE  LifeInv' /\ Survive
<1> DEFINE flagged == [pool EXCEPT !.ready[w] = FALSE]
           handedOut == IF Enabled THEN RedistributeQueuedTasks(flagged, w) ELSE flagged
<1>1. /\ status = "started" /\ w \in Members(pool)
      /\ changes + failures < MaxChanges /\ failures' = failures + 1
      /\ pool' = Replaced(handedOut, w)
      /\ UNCHANGED <<options, status, entry, promise, ending, changes, aborts>>
  BY DEF WorkerFails
<1>2. flagged \in PoolState /\ flagged.nodes = pool.nodes /\ flagged.queue = pool.queue
      /\ flagged.running = pool.running
  <2> DEFINE ready == [pool.ready EXCEPT ![w] = FALSE]
  <2>1. ready \in [Worker -> BOOLEAN]
    BY LifeTypes, PoolFields
  <2>2. flagged = [pool EXCEPT !.ready = ready]
    OBVIOUS
  <2> HIDE DEF ready, flagged
  <2> QED
    BY <2>1, <2>2, LifeTypes DEF PoolState
<1>3. Enabled => handedOut = RedistributeQueuedTasks(flagged, w)
  OBVIOUS
<1>4. ~Enabled => handedOut = flagged /\ options = Disabled
  BY DEF Enabled
<1>5. /\ handedOut \in PoolState /\ handedOut.nodes = pool.nodes
      /\ Enabled => HandedOut(handedOut, w)
  <2>1. CASE Enabled
    <3>1. handedOut = RedistributeQueuedTasks(flagged, w)
      BY <1>3, <2>1
    <3>2. flagged = [pool EXCEPT !.ready[w] = FALSE]
      OBVIOUS
    <3> HIDE DEF handedOut, flagged
    <3>3. HandedOut(handedOut, w)
      BY <1>1, <1>2, <2>1, <3>1, <3>2, FailureHandsOut
    <3> QED
      BY <3>3 DEF HandedOut
  <2>2. CASE ~Enabled
    BY <1>2, <1>4, <2>2
  <2> QED
    BY <2>1, <2>2
<1> HIDE DEF handedOut, flagged
<1>6. Members(handedOut) = Members(pool) /\ Distinct(handedOut.nodes)
  BY <1>5 DEF Members, LifeInv
<1>7. NodeReplaced(pool', handedOut, w)
  BY <1>1, <1>5, <1>6, LifeTypes, ReplacedFields
<1>8. /\ pool' \in PoolState
      /\ Members(pool') = Members(pool) /\ Distinct(pool'.nodes)
      /\ Len(pool'.nodes) = Len(pool.nodes)
      /\ pool'.queue = [handedOut.queue EXCEPT ![w] = <<>>]
      /\ pool'.running = [handedOut.running EXCEPT ![w] = {}]
  BY <1>5, <1>6, <1>7 DEF NodeReplaced
<1>9. /\ handedOut.queue \in [Worker -> Seq(Task)]
      /\ handedOut.running \in [Worker -> SUBSET Task]
  BY <1>5, PoolFields
<1>10. \A v \in Worker \ {w} : Tasks(handedOut, v) = Tasks(pool', v)
  BY <1>8, <1>9 DEF Tasks
<1>11. LifeInv'
  <2>1. failures' \in 0..MaxChanges
    BY <1>1, LifeTypes, TasksQueueAssumption
  <2>2. TypeOK'
    BY <1>1, <1>8, <2>1, LifeTypes DEF TypeOK
  <2>3. EmptyWhenClosed'
    <3>1. ASSUME options = Disabled, NEW v \in Worker PROVE pool'.queue[v] = <<>>
      <4>1. handedOut.queue = pool.queue
        BY <1>2, <1>4, <3>1 DEF Enabled
      <4>2. pool.queue[v] = <<>>
        BY <3>1 DEF LifeInv, EmptyWhenClosed
      <4> QED
        BY <1>8, <1>9, <4>1, <4>2
    <3> QED
      BY <1>1, <3>1 DEF EmptyWhenClosed
  <2> QED
    BY <1>1, <1>8, <2>2, <2>3 DEF LifeInv, Watched
<1>12. Survive
  <2>1. CASE ~Enabled
    BY <1>4, <2>1, NothingQueued
  <2>2. CASE Enabled
    <3> SUFFICES ASSUME NEW t \in Queued
                 PROVE  \/ t \in Queued' \union InWork'
                        \/ /\ failures' > failures
                           /\ \E v \in Members(pool) :
                                  /\ t \in Range(pool.queue[v])
                                  /\ \A u \in Members(pool) \ {v} : ~pool.ready[u]
      BY DEF Survive
    <3>1. PICK v \in Members(pool) : t \in Range(pool.queue[v])
      BY QueuedOn
    <3>2. failures' > failures
      BY <1>1, LifeTypes
    <3>3. Members(pool) \subseteq Worker
      BY LifeTypes
    <3>4. CASE v # w
      <4>1. t \in Tasks(pool', v)
        BY <1>5, <1>10, <2>2, <3>1, <3>3, <3>4 DEF HandedOut, Tasks
      <4> QED
        BY <1>8, <3>1, <4>1, NowHeld
    <3>5. CASE v = w
      <4>1. CASE \E u \in Members(pool) \ {w} : t \in Tasks(handedOut, u)
        BY <1>8, <1>10, <3>3, <4>1, NowHeld
      <4>2. CASE \A u \in Members(pool) \ {w} : ~pool.ready[u]
        BY <3>1, <3>2, <3>5, <4>2
      <4> QED
        BY <1>5, <2>2, <3>1, <3>5, <4>1, <4>2 DEF HandedOut
    <3> QED
      BY <3>4, <3>5
  <2> QED
    BY <2>1, <2>2
<1> QED
  BY <1>11, <1>12

LEMMA DestroyLives ==
    ASSUME LifeInv, Destroy
    PROVE  LifeInv' /\ Survive
<1> DEFINE closing == [pool EXCEPT !.ready = [w \in Worker |-> FALSE]]
           ended(w) == [phase |-> IF Len(pool.queue[w]) = 0 THEN "killing" ELSE "waiting",
                        key |-> KeyOf(pool, w), events |-> Len(pool.queue[w]),
                        told |-> Len(pool.queue[w]) = 0, closed |-> FALSE]
<1>1. /\ status = "started" /\ status' = "destroying"
      /\ pool' = FlushTasksQueues(closing)
      /\ ending' = [w \in Worker |-> ended(w)]
      /\ UNCHANGED <<options, entry, promise, changes, failures, aborts>>
  BY DEF Destroy
<1>2. closing \in PoolState /\ closing.nodes = pool.nodes /\ closing.queue = pool.queue
  BY LifeTypes DEF PoolState
<1> HIDE DEF closing
<1>3. AllFlushed(pool', closing)
  BY <1>1, <1>2, FlushFields
<1>4. /\ pool' \in PoolState /\ SameNodes(pool', closing)
      /\ \A v \in Worker : pool'.queue[v] = <<>> /\ Range(pool.queue[v]) \subseteq Tasks(pool', v)
  BY <1>2, <1>3, AllFlushedHeld
<1>5. pool'.nodes = pool.nodes /\ Members(pool') = Members(pool)
  BY <1>2, <1>4 DEF SameNodes, Members
<1>6. Members(pool) = Worker /\ Len(pool.nodes) = N /\ DOMAIN pool.nodes = 1..N
  BY <1>1, LifeTypes, MembersSame DEF LifeInv, SameNodes
<1>7. \A w \in Worker : /\ ended(w) \in EndingState
                        /\ ended(w).phase = "waiting" => ended(w).events >= 1
  <2> SUFFICES ASSUME NEW w \in Worker
               PROVE  /\ ended(w) \in EndingState
                      /\ ended(w).phase = "waiting" => ended(w).events >= 1
    OBVIOUS
  <2>1. KeyOf(pool, w) \in 0..N
    BY <1>6, LifeTypes, KeyFound
  <2>2. Len(pool.queue[w]) \in Nat
    BY LifeTypes, PoolFields, ElementsOfSeq
  <2>3. (Len(pool.queue[w]) = 0) \in BOOLEAN
    OBVIOUS
  <2>4. ended(w) \in EndingState
    BY <2>1, <2>2, <2>3 DEF EndingState
  <2> QED
    BY <2>2, <2>4
<1>8. Watched(ending', Members(pool))
  BY <1>1, <1>6, <1>7 DEF Watched
<1>9. TypeOK'
  BY <1>1, <1>4, <1>8, LifeTypes DEF TypeOK, Watched
<1>10. LifeInv'
  BY <1>1, <1>4, <1>5, <1>8, <1>9 DEF LifeInv, EmptyWhenClosed, Watched
<1>11. Survive
  BY <1>4, <1>5, LifeTypes, HeldSurvive
<1> QED
  BY <1>10, <1>11

LEMMA TerminateLives ==
    ASSUME LifeInv, NEW w \in Worker, Terminate(w)
    PROVE  LifeInv' /\ Survive
<1>1. /\ ending[w].phase = "killing" /\ pool' = Left(pool, w)
      /\ ending' = [ending EXCEPT ![w] = NotEnding]
      /\ status' = IF pool'.nodes = <<>> THEN "stopped" ELSE status
      /\ UNCHANGED <<options, entry, promise, changes, failures, aborts>>
  BY DEF Terminate
<1>2. Watched(ending, Members(pool)) /\ Distinct(pool.nodes)
  BY DEF LifeInv
<1>3. status # "started" /\ w \in Members(pool)
  BY <1>1, <1>2 DEF LifeInv, NotEnding, Watched
<1>4. NodeLeft(pool', pool, w)
  BY <1>1, <1>2, <1>3, LifeTypes, LeftFields
<1>5. /\ pool' \in PoolState /\ Members(pool') = Members(pool) \ {w} /\ Distinct(pool'.nodes)
      /\ pool'.queue = [pool.queue EXCEPT ![w] = <<>>]
  BY <1>4 DEF NodeLeft
<1>6. NotEnding \in EndingState /\ NotEnding.phase = "none"
  BY LifeTypes DEF NotEnding, EndingState, NoKey
<1>7. Watched(ending', Members(pool'))
  BY <1>1, <1>2, <1>5, <1>6 DEF Watched
<1>8. status' \in {"started", "destroying", "stopped"} /\ status' # "started"
  BY <1>1, <1>3, LifeTypes
<1>9. TypeOK'
  BY <1>1, <1>5, <1>7, <1>8, LifeTypes DEF TypeOK, Watched
<1>10. \A v \in Worker : pool'.queue[v] = <<>>
  <2>1. \A v \in Worker : pool.queue[v] = <<>>
    BY <1>3 DEF LifeInv, EmptyWhenClosed
  <2>2. pool.queue \in [Worker -> Seq(Task)]
    BY LifeTypes, PoolFields
  <2> QED
    BY <1>5, <2>1, <2>2
<1>11. LifeInv'
  BY <1>5, <1>7, <1>8, <1>9, <1>10 DEF LifeInv, EmptyWhenClosed, Members
<1> QED
  BY <1>3, <1>11, NothingQueued

-----------------------------------------------------------------------------
(* The theorems *)

LEMMA FirstNodes ==
    ASSUME Init
    PROVE  /\ pool.nodes \in Seq(Worker) /\ pool.nodes = [k \in 1..N |-> k]
           /\ Len(pool.nodes) = N /\ Distinct(pool.nodes) /\ Members(pool) = Worker
           /\ N \in Nat /\ N >= 1
<1>1. N \in Nat /\ N >= 1 /\ pool.nodes = [k \in 1..N |-> k]
  BY TasksQueueAssumption DEF Init
<1> DEFINE nodes == [k \in 1..N |-> k]
<1>2. nodes \in [1..N -> Worker] /\ DOMAIN nodes = 1..N /\ \A k \in 1..N : nodes[k] = k
  BY DEF Worker
<1> HIDE DEF nodes
<1>3. nodes \in Seq(Worker)
  BY <1>1, <1>2, SeqDef
<1>4. Len(nodes) = N
  <2>1. Len(nodes) \in Nat /\ 1..Len(nodes) = 1..N
    BY <1>2, <1>3, LenProperties
  <2> QED
    BY <1>1, <2>1
<1>5. Distinct(nodes)
  BY <1>2 DEF Distinct
<1>6. Range(nodes) = Worker
  BY <1>2 DEF Range, Worker
<1> QED
  BY <1>1, <1>3, <1>4, <1>5, <1>6 DEF Members, nodes

LEMMA StartsAlive ==
    ASSUME Init
    PROVE  LifeInv
<1>1. /\ pool.nodes \in Seq(Worker) /\ Distinct(pool.nodes) /\ Members(pool) = Worker
      /\ Len(pool.nodes) = N /\ N \in Nat
  BY FirstNodes
<1>2. options \in QueueOptions \union {Disabled} /\ MaxChanges \in Nat
  BY TasksQueueAssumption DEF Init
<1>3. Limit(options) \in Nat
  BY <1>2, LimitType
<1>4. <<>> \in Seq(Task)
  BY EmptySeq
<1> DEFINE nodes == [k \in 1..N |-> k]
           ready == [w \in Worker |-> TRUE]
           queue == [w \in Worker |-> <<>>]
           limit == [w \in Worker |-> Limit(options)]
           backPressure == [w \in Worker |-> FALSE]
           executing == [w \in Worker |-> 0]
           running == [w \in Worker |-> {}]
<1>5. pool = [nodes |-> nodes, ready |-> ready, queue |-> queue, limit |-> limit,
              backPressure |-> backPressure, executing |-> executing, running |-> running,
              busyEventEmitted |-> FALSE, backPressureEventEmitted |-> FALSE]
  BY DEF Init
<1>6. pool \in PoolState /\ pool.queue = queue
  <2>1. nodes \in Seq(Worker)
    BY <1>1, FirstNodes
  <2>2. /\ ready \in [Worker -> BOOLEAN] /\ queue \in [Worker -> Seq(Task)]
        /\ limit \in [Worker -> Nat] /\ backPressure \in [Worker -> BOOLEAN]
        /\ executing \in [Worker -> Nat] /\ running \in [Worker -> SUBSET Task]
    BY <1>3, <1>4
  <2> HIDE DEF nodes, ready, queue, limit, backPressure, executing, running
  <2> QED
    BY <1>5, <2>1, <2>2 DEF PoolState
<1>7. /\ status = "started" /\ entry = [t \in Task |-> NoKey] /\ promise = [t \in Task |-> "new"]
      /\ ending = [w \in Worker |-> NotEnding] /\ changes = 0 /\ failures = 0 /\ aborts = 0
  BY DEF Init
<1>8. NotEnding \in EndingState /\ NotEnding.phase = "none"
  BY <1>1 DEF NotEnding, EndingState, NoKey
<1>9. TypeOK
  BY <1>1, <1>2, <1>6, <1>7, <1>8 DEF TypeOK, NoKey
<1> QED
  BY <1>1, <1>6, <1>7, <1>8, <1>9 DEF LifeInv, Watched, EmptyWhenClosed

LEMMA StepLives ==
    ASSUME LifeInv, [Next]_vars
    PROVE  LifeInv' /\ Survive
<1>1. CASE UNCHANGED vars
  <2>1. UNCHANGED <<pool, options, status, entry, promise, ending, changes, failures, aborts>>
    BY <1>1 DEF vars
  <2>2. LifeInv'
    <3>1. TypeOK'
      BY <2>1 DEF LifeInv, TypeOK
    <3>2. Watched(ending, Members(pool))' /\ EmptyWhenClosed'
      BY <2>1 DEF LifeInv, Watched, EmptyWhenClosed, Members
    <3>3. Members(pool)' = Members(pool)
      BY <2>1 DEF Members
    <3> QED
      BY <2>1, <3>1, <3>2, <3>3 DEF LifeInv
  <2> QED
    BY <2>1, <2>2, HeldSurvive DEF Tasks, Members
<1>2. ASSUME NEW t \in Task, Execute(t) PROVE LifeInv' /\ Survive
  BY <1>2, ExecuteLives
<1>3. ASSUME NEW t \in Task, AbortQueuedTask(t) PROVE LifeInv' /\ Survive
  BY <1>3, AbortQueuedTaskLives
<1>4. ASSUME NEW w \in Worker, NEW t \in Task, Respond(w, t) PROVE LifeInv' /\ Survive
  BY <1>4, RespondLives
<1>5. ASSUME NEW w \in Worker, WorkerReady(w) PROVE LifeInv' /\ Survive
  BY <1>5, WorkerReadyLives
<1>6. ASSUME NEW w \in Worker, WorkerFails(w) PROVE LifeInv' /\ Survive
  BY <1>6, WorkerFailsLives
<1>7. ASSUME NEW w \in Worker, TasksFinishedTimeout(w) PROVE LifeInv' /\ Survive
  BY <1>7, TasksFinishedTimeoutLives
<1>8. ASSUME NEW w \in Worker, WorkerCloses(w) PROVE LifeInv' /\ Survive
  BY <1>8, WorkerClosesLives
<1>9. ASSUME NEW w \in Worker, Terminate(w) PROVE LifeInv' /\ Survive
  BY <1>9, TerminateLives
<1>10. ASSUME NEW o \in QueueOptions, SetTasksQueueOptions(o) PROVE LifeInv' /\ Survive
  BY <1>10, SetTasksQueueOptionsLives
<1>11. CASE DisableTasksQueue
  BY <1>11, DisableTasksQueueLives
<1>12. CASE Destroy
  BY <1>12, DestroyLives
<1> QED
  BY <1>1, <1>2, <1>3, <1>4, <1>5, <1>6, <1>7, <1>8, <1>9, <1>10, <1>11, <1>12 DEF Next

(* No task waits in a queue that nothing empties: whether queueing is        *)
(* disabled or the pool destroyed, the flush leaves none behind, and no step *)
(* after it queues one (enableTasksQueue and destroy flush before responses  *)
(* stop dequeueing, abstract-pool.ts).                                       *)
THEOREM NoTaskLeftQueued == Spec => []QueuesEndEmpty
<1>1. Init => LifeInv
  BY StartsAlive
<1>2. LifeInv /\ [Next]_vars => LifeInv'
  BY StepLives
<1>3. LifeInv => QueuesEndEmpty
  BY DEF LifeInv, EmptyWhenClosed, QueuesEndEmpty
<1> QED
  BY <1>1, <1>2, <1>3, PTL DEF Spec

(* No step loses a queued task, whatever becomes of the options, the workers *)
(* and the pool, but the failure of the last ready worker: above all, the    *)
(* loop of redistributeQueuedTasks hands every task of a failed worker to a  *)
(* node that has it when the loop ends (abstract-pool.ts).                   *)
THEOREM NoQueuedTaskLost == Spec => QueuedTasksSurvive
<1>1. Init => LifeInv
  BY StartsAlive
<1>2. LifeInv /\ [Next]_vars => LifeInv'
  BY StepLives
<1>3. LifeInv /\ [Next]_vars => Survive
  BY StepLives
<1>4. QueuedTasksSurvive <=> [][Survive]_vars
  BY DEF QueuedTasksSurvive, Survive
<1> HIDE DEF QueuedTasksSurvive
<1> QED
  BY <1>1, <1>2, <1>3, <1>4, PTL DEF Spec

-----------------------------------------------------------------------------
(* While no worker failed: the counters and the flags that the events need *)

(* Every task is once on its worker, executing counts those sent to it, and  *)
(* a pool that takes itself for busy has work on every worker                *)
Sound(p) ==
    /\ p \in PoolState /\ Members(p) = Worker
    /\ \A w \in Worker :
           /\ Distinct(p.queue[w]) /\ Range(p.queue[w]) \intersect p.running[w] = {}
           /\ IsFiniteSet(p.running[w]) /\ p.executing[w] = Cardinality(p.running[w])
           /\ p.limit[w] >= 1
    /\ p.busyEventEmitted => \A w \in Worker : p.executing[w] >= 1

(* Back pressure is of queued tasks *)
Signalled(p) ==
    /\ \A w \in Worker : p.backPressure[w] => p.queue[w] # <<>>
    /\ p.backPressureEventEmitted => \E w \in Worker : p.queue[w] # <<>>

Kept(r, p) == Sound(r) /\ (Signalled(p) => Signalled(r))

TasksChanged(r, p, w, tasks) ==
    /\ Tasks(r, w) = tasks
    /\ \A v \in Worker \ {w} : Tasks(r, v) = Tasks(p, v)

LEMMA BusyMeansWork ==
    ASSUME options \in QueueOptions \union {Disabled}, NEW p \in PoolState, Members(p) = Worker,
           InternalBusy(p)
    PROVE  \A w \in Worker : p.executing[w] >= 1
<1>1. Quota \in Nat /\ Quota >= 1
  BY QuotaType
<1>2. \A w \in Worker : p.executing[w] >= Quota /\ p.executing[w] \in Nat
  BY PoolFields DEF InternalBusy, IsWorkerNodeBusy
<1> QED
  BY <1>1, <1>2

LEMMA PressureMeansQueued ==
    ASSUME NEW p \in PoolState, Members(p) = Worker, InternalBackPressure(p),
           \A w \in Worker : p.backPressure[w] => p.queue[w] # <<>>
    PROVE  \E w \in Worker : p.queue[w] # <<>>
<1>1. 1 \in Worker
  BY TasksQueueAssumption DEF Worker
<1> QED
  BY <1>1 DEF InternalBackPressure

LEMMA ExecuteTaskSound ==
    ASSUME options \in QueueOptions \union {Disabled}, NEW p, Sound(p), NEW w \in Worker,
           NEW t \in Task, t \notin Tasks(p, w), NEW r, TaskExecuted(r, p, w, t)
    PROVE  Kept(r, p) /\ TasksChanged(r, p, w, Tasks(p, w) \union {t})
<1>1. p \in PoolState /\ Members(p) = Worker
  BY DEF Sound
<1>2. /\ r \in PoolState /\ SameNodes(r, p)
      /\ r.queue = p.queue /\ r.backPressure = p.backPressure
      /\ r.backPressureEventEmitted = p.backPressureEventEmitted
      /\ r.executing = [p.executing EXCEPT ![w] = @ + 1]
      /\ r.running = [p.running EXCEPT ![w] = @ \union {t}]
      /\ r.busyEventEmitted = (p.busyEventEmitted \/ InternalBusy(r))
  BY DEF TaskExecuted
<1>3. /\ r.executing[w] = p.executing[w] + 1 /\ r.running[w] = p.running[w] \union {t}
      /\ \A v \in Worker \ {w} : r.executing[v] = p.executing[v] /\ r.running[v] = p.running[v]
      /\ \A v \in Worker : p.executing[v] \in Nat
  BY <1>1, <1>2, PoolFields
<1>4. Members(r) = Worker /\ r.limit = p.limit
  BY <1>1, <1>2 DEF SameNodes, Members
<1>5. ASSUME NEW v \in Worker
      PROVE  /\ Distinct(r.queue[v]) /\ Range(r.queue[v]) \intersect r.running[v] = {}
             /\ IsFiniteSet(r.running[v]) /\ r.executing[v] = Cardinality(r.running[v])
             /\ r.limit[v] >= 1
  <2>1. /\ Distinct(p.queue[v]) /\ Range(p.queue[v]) \intersect p.running[v] = {}
        /\ IsFiniteSet(p.running[v]) /\ p.executing[v] = Cardinality(p.running[v])
        /\ p.limit[v] >= 1
    BY DEF Sound
  <2>2. CASE v # w
    BY <1>2, <1>3, <1>4, <2>1, <2>2
  <2>3. CASE v = w
    <3>1. t \notin p.running[w] /\ t \notin Range(p.queue[w])
      BY DEF Tasks
    <3>2. IsFiniteSet(r.running[w]) /\ Cardinality(r.running[w]) = Cardinality(p.running[w]) + 1
      BY <1>3, <2>1, <2>3, <3>1, FS_AddElement
    <3>3. Range(r.queue[w]) \intersect r.running[w] = {}
      BY <1>2, <1>3, <2>1, <2>3, <3>1
    <3> QED
      BY <1>2, <1>3, <1>4, <2>1, <2>3, <3>2, <3>3
  <2> QED
    BY <2>2, <2>3
<1>6. ASSUME r.busyEventEmitted, NEW v \in Worker PROVE r.executing[v] >= 1
  <2>1. CASE p.busyEventEmitted
    BY <1>3, <2>1 DEF Sound
  <2>2. CASE InternalBusy(r)
    BY <1>2, <1>4, <2>2, BusyMeansWork
  <2> QED
    BY <1>2, <1>6, <2>1, <2>2
<1>7. Sound(r)
  BY <1>2, <1>4, <1>5, <1>6 DEF Sound
<1>8. Signalled(p) => Signalled(r)
  BY <1>2 DEF Signalled
<1>9. TasksChanged(r, p, w, Tasks(p, w) \union {t})
  BY <1>2, <1>3 DEF Tasks, TasksChanged
<1> QED
  BY <1>7, <1>8, <1>9 DEF Kept

LEMMA EnqueueTaskSound ==
    ASSUME NEW p, Sound(p), NEW w \in Worker, NEW t \in Task, t \notin Tasks(p, w),
           NEW r, TaskEnqueued(r, p, w, t)
    PROVE  Kept(r, p) /\ TasksChanged(r, p, w, Tasks(p, w) \union {t})
<1>1. p \in PoolState /\ Members(p) = Worker
  BY DEF Sound
<1>2. /\ r \in PoolState /\ SameNodes(r, p)
      /\ r.executing = p.executing /\ r.running = p.running
      /\ r.busyEventEmitted = p.busyEventEmitted
      /\ r.queue = [p.queue EXCEPT ![w] = Append(@, t)]
      /\ r.backPressure = [p.backPressure EXCEPT ![w] = @ \/ HasBackPressure(r, w)]
  BY DEF TaskEnqueued
<1>3. p.queue \in [Worker -> Seq(Task)] /\ p.backPressure \in [Worker -> BOOLEAN]
  BY <1>1, PoolFields
<1>4. /\ r.queue[w] = Append(p.queue[w], t)
      /\ \A v \in Worker \ {w} : /\ r.queue[v] = p.queue[v]
                                 /\ r.backPressure[v] = p.backPressure[v]
  BY <1>2, <1>3
<1>5. t \notin Range(p.queue[w]) /\ t \notin p.running[w]
  BY DEF Tasks
<1>6. /\ Append(p.queue[w], t) # <<>>
      /\ Range(Append(p.queue[w], t)) = Range(p.queue[w]) \union {t}
      /\ Distinct(p.queue[w]) => Distinct(Append(p.queue[w], t))
  BY <1>3, <1>5, LongerSeq
<1>7. Members(r) = Worker /\ r.limit = p.limit
  BY <1>1, <1>2 DEF SameNodes, Members
<1>8. ASSUME NEW v \in Worker
      PROVE  /\ Distinct(r.queue[v]) /\ Range(r.queue[v]) \intersect r.running[v] = {}
             /\ IsFiniteSet(r.running[v]) /\ r.executing[v] = Cardinality(r.running[v])
             /\ r.limit[v] >= 1
  <2>1. /\ Distinct(p.queue[v]) /\ Range(p.queue[v]) \intersect p.running[v] = {}
        /\ IsFiniteSet(p.running[v]) /\ p.executing[v] = Cardinality(p.running[v])
        /\ p.limit[v] >= 1
    BY DEF Sound
  <2>2. CASE v # w
    BY <1>2, <1>4, <1>7, <2>1, <2>2
  <2>3. CASE v = w
    BY <1>2, <1>4, <1>5, <1>6, <1>7, <2>1, <2>3
  <2> QED
    BY <2>2, <2>3
<1>9. Sound(r)
  BY <1>2, <1>7, <1>8 DEF Sound
<1>10. Signalled(p) => Signalled(r)
  BY <1>4, <1>6 DEF Signalled
<1>11. TasksChanged(r, p, w, Tasks(p, w) \union {t})
  BY <1>2, <1>4, <1>6 DEF Tasks, TasksChanged
<1> QED
  BY <1>9, <1>10, <1>11 DEF Kept

LEMMA HandleTaskSound ==
    ASSUME options \in QueueOptions \union {Disabled}, NEW p, Sound(p), NEW w \in Worker,
           NEW t \in Task, t \notin Tasks(p, w), NEW r,
           r = ExecuteTask(p, w, t) \/ r = HandleTask(p, w, t)
    PROVE  Kept(r, p) /\ TasksChanged(r, p, w, Tasks(p, w) \union {t})
<1>1. r = ExecuteTask(p, w, t) \/ r = EnqueueTask(p, w, t)
  BY DEF HandleTask
<1>2. p \in PoolState
  BY DEF Sound
<1>3. CASE r = ExecuteTask(p, w, t)
  BY <1>2, <1>3, ExecuteTaskFields, ExecuteTaskSound
<1>4. CASE r = EnqueueTask(p, w, t)
  BY <1>2, <1>4, EnqueueTaskFields, EnqueueTaskSound
<1> QED
  BY <1>1, <1>3, <1>4

LEMMA FlagMeansQueued ==
    ASSUME NEW p \in PoolState, NEW w \in Worker, p.limit[w] >= 1, HasBackPressure(p, w)
    PROVE  p.queue[w] # <<>>
<1>1. Len(p.queue[w]) \in Nat /\ p.limit[w] \in Nat /\ (Len(p.queue[w]) = 0 <=> p.queue[w] = <<>>)
  BY PoolFields, ElementsOfSeq
<1> QED
  BY <1>1 DEF HasBackPressure

LEMMA ExecuteNextSound ==
    ASSUME options \in QueueOptions \union {Disabled}, NEW p, Sound(p), NEW w \in Worker,
           p.queue[w] # <<>>, NEW r, NextRuns(r, p, w)
    PROVE  Kept(r, p) /\ TasksChanged(r, p, w, Tasks(p, w))
<1> DEFINE t == Head(p.queue[w])
<1>1. p \in PoolState /\ Members(p) = Worker
  BY DEF Sound
<1>2. /\ r \in PoolState /\ SameNodes(r, p)
      /\ r.queue = [p.queue EXCEPT ![w] = Tail(@)]
      /\ r.running = [p.running EXCEPT ![w] = @ \union {t}]
      /\ r.executing = [p.executing EXCEPT ![w] = @ + 1]
      /\ r.backPressure = [p.backPressure EXCEPT ![w] = @ /\ HasBackPressure(r, w)]
      /\ r.backPressureEventEmitted = (p.backPressureEventEmitted /\ InternalBackPressure(r))
      /\ r.busyEventEmitted = (p.busyEventEmitted \/ InternalBusy(r))
  BY DEF NextRuns
<1>3. /\ p.queue \in [Worker -> Seq(Task)] /\ p.backPressure \in [Worker -> BOOLEAN]
      /\ p.running \in [Worker -> SUBSET Task] /\ p.executing \in [Worker -> Nat]
  BY <1>1, PoolFields
<1>4. /\ t \in Task /\ Range(p.queue[w]) = Range(Tail(p.queue[w])) \union {t}
      /\ Distinct(p.queue[w]) => Distinct(Tail(p.queue[w])) /\ t \notin Range(Tail(p.queue[w]))
  BY <1>3, ShorterSeq
<1> HIDE DEF t
<1>5. /\ r.queue[w] = Tail(p.queue[w]) /\ r.running[w] = p.running[w] \union {t}
      /\ r.executing[w] = p.executing[w] + 1
      /\ \A v \in Worker \ {w} : /\ r.queue[v] = p.queue[v] /\ r.running[v] = p.running[v]
                                 /\ r.executing[v] = p.executing[v]
                                 /\ r.backPressure[v] = p.backPressure[v]
      /\ r.backPressure[w] => HasBackPressure(r, w)
  BY <1>2, <1>3
<1>6. Members(r) = Worker /\ r.limit = p.limit
  BY <1>1, <1>2 DEF SameNodes, Members
<1>7. ASSUME NEW v \in Worker
      PROVE  /\ Distinct(r.queue[v]) /\ Range(r.queue[v]) \intersect r.running[v] = {}
             /\ IsFiniteSet(r.running[v]) /\ r.executing[v] = Cardinality(r.running[v])
             /\ r.limit[v] >= 1
  <2>1. /\ Distinct(p.queue[v]) /\ Range(p.queue[v]) \intersect p.running[v] = {}
        /\ IsFiniteSet(p.running[v]) /\ p.executing[v] = Cardinality(p.running[v])
        /\ p.limit[v] >= 1
    BY DEF Sound
  <2>2. CASE v # w
    BY <1>5, <1>6, <2>1, <2>2
  <2>3. CASE v = w
    <3>1. t \notin p.running[w]
      BY <1>4, <2>1, <2>3
    <3>2. IsFiniteSet(r.running[w]) /\ Cardinality(r.running[w]) = Cardinality(p.running[w]) + 1
      <4>1. IsFiniteSet(p.running[w])
        BY <2>1, <2>3
      <4>2. /\ IsFiniteSet(p.running[w] \union {t})
            /\ Cardinality(p.running[w] \union {t}) = Cardinality(p.running[w]) + 1
        BY <3>1, <4>1, FS_AddElement
      <4> QED
        BY <1>5, <4>2
    <3>3. Distinct(r.queue[w]) /\ Range(r.queue[w]) \intersect r.running[w] = {}
      BY <1>4, <1>5, <2>1, <2>3
    <3> QED
      BY <1>5, <1>6, <2>1, <2>3, <3>2, <3>3
  <2> QED
    BY <2>2, <2>3
<1>8. ASSUME r.busyEventEmitted, NEW v \in Worker PROVE r.executing[v] >= 1
  <2>1. CASE p.busyEventEmitted
    BY <1>3, <1>5, <2>1 DEF Sound
  <2>2. CASE InternalBusy(r)
    BY <1>2, <1>6, <2>2, BusyMeansWork
  <2> QED
    BY <1>2, <1>8, <2>1, <2>2
<1>9. Sound(r)
  BY <1>2, <1>6, <1>7, <1>8 DEF Sound
<1>10. ASSUME Signalled(p) PROVE Signalled(r)
  <2>1. \A v \in Worker : r.backPressure[v] => r.queue[v] # <<>>
    <3>1. r.backPressure[w] => r.queue[w] # <<>>
      BY <1>2, <1>5, <1>7, FlagMeansQueued
    <3> QED
      BY <1>5, <1>10, <3>1 DEF Signalled
  <2> QED
    BY <1>2, <1>6, <2>1, PressureMeansQueued DEF Signalled
<1>11. TasksChanged(r, p, w, Tasks(p, w))
  BY <1>4, <1>5 DEF Tasks, TasksChanged
<1> QED
  BY <1>9, <1>10, <1>11 DEF Kept

LEMMA AnsweredSound ==
    ASSUME options \in QueueOptions \union {Disabled}, NEW p, Sound(p), NEW w \in Worker,
           NEW t \in p.running[w], NEW k \in DOMAIN p.nodes, p.nodes[k] = w,
           NEW r, TaskAnswered(r, p, w, t, k)
    PROVE  Kept(r, p) /\ TasksChanged(r, p, w, Tasks(p, w) \ {t})
<1>1. p \in PoolState /\ Members(p) = Worker
  BY DEF Sound
<1>2. /\ r \in PoolState /\ SameNodes(r, p)
      /\ r.queue = p.queue /\ r.backPressure = p.backPressure
      /\ r.backPressureEventEmitted = p.backPressureEventEmitted
      /\ r.running = [p.running EXCEPT ![w] = @ \ {t}]
      /\ r.executing = [p.executing EXCEPT ![w] = IF @ > 0 THEN @ - 1 ELSE 0]
      /\ r.busyEventEmitted = (p.busyEventEmitted /\ InternalBusy(r))
  BY DEF TaskAnswered
<1>3. p.running \in [Worker -> SUBSET Task] /\ p.executing \in [Worker -> Nat]
  BY <1>1, PoolFields
<1>4. /\ Distinct(p.queue[w]) /\ Range(p.queue[w]) \intersect p.running[w] = {}
      /\ IsFiniteSet(p.running[w]) /\ p.executing[w] = Cardinality(p.running[w])
  BY DEF Sound
<1>5. /\ IsFiniteSet(p.running[w] \ {t})
      /\ Cardinality(p.running[w] \ {t}) = p.executing[w] - 1
  <2>1. IsFiniteSet(p.running[w]) /\ t \in p.running[w]
    BY <1>4
  <2>2. /\ IsFiniteSet(p.running[w] \ {t})
        /\ Cardinality(p.running[w] \ {t}) = Cardinality(p.running[w]) - 1
    BY <2>1, FS_RemoveElement
  <2> QED
    BY <1>4, <2>2
<1>6. p.executing[w] > 0
  BY <1>3, <1>5, FS_CardinalityType
<1>7. /\ r.running[w] = p.running[w] \ {t} /\ r.executing[w] = p.executing[w] - 1
      /\ \A v \in Worker \ {w} : /\ r.running[v] = p.running[v]
                                 /\ r.executing[v] = p.executing[v]
  BY <1>2, <1>3, <1>6
<1>8. Members(r) = Worker /\ r.limit = p.limit
  BY <1>1, <1>2 DEF SameNodes, Members
<1>9. ASSUME NEW v \in Worker
      PROVE  /\ Distinct(r.queue[v]) /\ Range(r.queue[v]) \intersect r.running[v] = {}
             /\ IsFiniteSet(r.running[v]) /\ r.executing[v] = Cardinality(r.running[v])
             /\ r.limit[v] >= 1
  <2>1. /\ Distinct(p.queue[v]) /\ Range(p.queue[v]) \intersect p.running[v] = {}
        /\ IsFiniteSet(p.running[v]) /\ p.executing[v] = Cardinality(p.running[v])
        /\ p.limit[v] >= 1
    BY DEF Sound
  <2>2. CASE v # w
    BY <1>2, <1>7, <1>8, <2>1, <2>2
  <2>3. CASE v = w
    BY <1>2, <1>5, <1>7, <1>8, <2>1, <2>3
  <2> QED
    BY <2>2, <2>3
<1>10. r.busyEventEmitted => \A v \in Worker : r.executing[v] >= 1
  BY <1>2, <1>8, BusyMeansWork
<1>11. Sound(r)
  BY <1>2, <1>8, <1>9, <1>10 DEF Sound
<1>12. Signalled(p) => Signalled(r)
  BY <1>2 DEF Signalled
<1>13. t \notin Range(p.queue[w])
  BY <1>4
<1>14. TasksChanged(r, p, w, Tasks(p, w) \ {t})
  BY <1>2, <1>7, <1>13 DEF Tasks, TasksChanged
<1> QED
  BY <1>11, <1>12, <1>14 DEF Kept

LEMMA FlushSound ==
    ASSUME options \in QueueOptions \union {Disabled}, NEW p, Sound(p), NEW r, AllFlushed(r, p)
    PROVE  Kept(r, p) /\ \A w \in Worker : Tasks(r, w) = Tasks(p, w)
<1>1. p \in PoolState /\ Members(p) = Worker
  BY DEF Sound
<1>2. /\ r \in PoolState /\ SameNodes(r, p)
      /\ r.queue = NoQueue /\ r.backPressure = FlagsLeft(p)
      /\ r.executing = AllExecuting(p) /\ r.running = AllRunning(p)
      /\ r.busyEventEmitted => p.busyEventEmitted \/ InternalBusy(r)
      /\ r.backPressureEventEmitted =>
             /\ p.backPressureEventEmitted
             /\ (\A w \in Worker : p.queue[w] = <<>>) \/ InternalBackPressure(r)
  BY DEF AllFlushed
<1>3. \A w \in Worker : /\ r.queue[w] = <<>> /\ p.queue[w] \in Seq(Task)
                        /\ r.backPressure[w] = (p.backPressure[w] /\ p.queue[w] = <<>>)
                        /\ r.executing[w] = p.executing[w] + Len(p.queue[w])
                        /\ r.running[w] = p.running[w] \union Range(p.queue[w])
                        /\ p.executing[w] \in Nat /\ Len(p.queue[w]) \in Nat
  <2>1. \A w \in Worker : p.queue[w] \in Seq(Task) /\ p.executing[w] \in Nat
    BY <1>1, PoolFields
  <2>2. \A w \in Worker : Len(p.queue[w]) \in Nat
    BY <2>1, ElementsOfSeq
  <2> QED
    BY <1>2, <2>1, <2>2 DEF NoQueue, FlagsLeft, AllExecuting, AllRunning
<1>4. Members(r) = Worker /\ r.limit = p.limit
  BY <1>1, <1>2 DEF SameNodes, Members
<1>5. <<>> \in Seq(Task) /\ Range(<<>>) = {} /\ Distinct(<<>>)
  <2>1. <<>> \in Seq(Task) /\ Len(<<>>) = 0
    BY EmptySeq
  <2>2. Range(<<>>) = {} /\ DOMAIN <<>> = 1..0
    BY <2>1, ElementsOfSeq
  <2> QED
    BY <2>1, <2>2 DEF Distinct
<1>6. ASSUME NEW v \in Worker
      PROVE  /\ Distinct(r.queue[v]) /\ Range(r.queue[v]) \intersect r.running[v] = {}
             /\ IsFiniteSet(r.running[v]) /\ r.executing[v] = Cardinality(r.running[v])
             /\ r.limit[v] >= 1
  <2>1. /\ Distinct(p.queue[v]) /\ Range(p.queue[v]) \intersect p.running[v] = {}
        /\ IsFiniteSet(p.running[v]) /\ p.executing[v] = Cardinality(p.running[v])
        /\ p.limit[v] >= 1
    BY DEF Sound
  <2> DEFINE A == p.running[v]
             B == Range(p.queue[v])
  <2>2. IsFiniteSet(B) /\ Cardinality(B) = Len(p.queue[v])
    BY <1>3, <2>1, DistinctSize
  <2>3. IsFiniteSet(A) /\ A \intersect B = {}
    BY <2>1
  <2>4. Cardinality(A \intersect B) = 0
    BY <2>3, FS_EmptySet
  <2> HIDE DEF A, B
  <2>5. /\ IsFiniteSet(A \union B)
        /\ Cardinality(A \union B) = Cardinality(A) + Cardinality(B) - Cardinality(A \intersect B)
    BY <2>2, <2>3, FS_Union
  <2>6. Cardinality(A) \in Nat /\ Cardinality(B) \in Nat
    BY <2>2, <2>3, FS_CardinalityType
  <2>7. r.running[v] = A \union B /\ r.executing[v] = Cardinality(A) + Cardinality(B)
    BY <1>3, <2>1, <2>2 DEF A, B
  <2>8. IsFiniteSet(r.running[v]) /\ r.executing[v] = Cardinality(r.running[v])
    BY <2>4, <2>5, <2>6, <2>7
  <2> QED
    BY <1>3, <1>4, <1>5, <2>1, <2>8
<1>7. ASSUME r.busyEventEmitted, NEW v \in Worker PROVE r.executing[v] >= 1
  <2>1. CASE p.busyEventEmitted
    <3>1. p.executing[v] >= 1
      BY <2>1 DEF Sound
    <3> QED
      BY <1>3, <3>1
  <2>2. CASE InternalBusy(r)
    BY <1>2, <1>4, <2>2, BusyMeansWork
  <2> QED
    BY <1>2, <1>7, <2>1, <2>2
<1>8. Sound(r)
  BY <1>2, <1>4, <1>6, <1>7 DEF Sound
<1>9. ASSUME Signalled(p) PROVE Signalled(r)
  <2>1. \A v \in Worker : ~r.backPressure[v]
    BY <1>3, <1>9 DEF Signalled
  <2>2. ~InternalBackPressure(r)
    BY <1>2, <1>4, <2>1, PressureMeansQueued, <1>3
  <2>3. p.backPressureEventEmitted => ~ \A w \in Worker : p.queue[w] = <<>>
    BY <1>9 DEF Signalled
  <2> QED
    BY <1>2, <2>1, <2>2, <2>3 DEF Signalled
<1>10. \A w \in Worker : Tasks(r, w) = Tasks(p, w)
  BY <1>3, <1>5 DEF Tasks
<1> QED
  BY <1>8, <1>9, <1>10 DEF Kept

-----------------------------------------------------------------------------
(* The events, step by step *)

(* A task in the pool is one promiseResponseMap expects of its worker *)
Placed ==
    \A w \in Worker : \A t \in Tasks(pool, w) : entry[t] = w /\ promise[t] = "pending"

Eventful ==
    status = "started" /\ failures = 0 =>
        /\ pool.nodes = [k \in 1..N |-> k]
        /\ Sound(pool)
        /\ aborts = 0 => Signalled(pool)
        /\ Placed

LEMMA EventfulGives ==
    ASSUME LifeInv, Eventful, status = "started", failures = 0
    PROVE  /\ Sound(pool) /\ (aborts = 0 => Signalled(pool)) /\ Placed
           /\ DOMAIN pool.nodes = Worker /\ \A w \in Worker : pool.nodes[w] = w
  BY DEF Eventful, Worker

LEMMA StaysEventful ==
    ASSUME LifeInv, Eventful, aborts' >= aborts,
           status' = "started" /\ failures' = 0 =>
               /\ status = "started" /\ failures = 0
               /\ pool'.nodes = pool.nodes /\ Kept(pool', pool) /\ Placed'
    PROVE  Eventful'
<1> SUFFICES ASSUME status' = "started", failures' = 0
             PROVE  /\ pool'.nodes = [k \in 1..N |-> k] /\ Sound(pool')
                    /\ aborts' = 0 => Signalled(pool')
                    /\ Placed'
  BY DEF Eventful, Sound, Signalled, Members
<1>1. /\ pool.nodes = [k \in 1..N |-> k] /\ Sound(pool) /\ (aborts = 0 => Signalled(pool))
      /\ pool'.nodes = pool.nodes /\ Kept(pool', pool) /\ Placed'
  BY DEF Eventful
<1>2. aborts' = 0 => aborts = 0
  BY LifeTypes
<1> QED
  BY <1>1, <1>2 DEF Kept

LEMMA ExecuteEventful ==
    ASSUME LifeInv, Eventful, NEW t \in Task, Execute(t)
    PROVE  Eventful'
<1>1. /\ status = "started" /\ promise[t] = "new"
      /\ promise' = [promise EXCEPT ![t] = "pending"]
      /\ UNCHANGED <<options, status, ending, changes, failures, aborts>>
  BY DEF Execute
<1>2. PICK w \in DOMAIN pool.nodes :
          /\ entry' = [entry EXCEPT ![t] = w]
          /\ pool' = IF Enabled THEN HandleTask(pool, pool.nodes[w], t)
                     ELSE ExecuteTask(pool, pool.nodes[w], t)
  BY DEF Execute
<1>3. ASSUME failures = 0
      PROVE  pool'.nodes = pool.nodes /\ Kept(pool', pool) /\ Placed'
  <2>1. Sound(pool) /\ Placed /\ w \in Worker /\ pool.nodes[w] = w
    BY <1>1, <1>2, <1>3, EventfulGives
  <2>2. pool' = HandleTask(pool, w, t) \/ pool' = ExecuteTask(pool, w, t)
    BY <1>2, <2>1
  <2>3. t \notin Tasks(pool, w)
    BY <1>1, <2>1 DEF Placed
  <2>4. Kept(pool', pool) /\ TasksChanged(pool', pool, w, Tasks(pool, w) \union {t})
    BY <2>1, <2>2, <2>3, LifeTypes, HandleTaskSound
  <2>5. pool'.nodes = pool.nodes
    <3>1. Given(pool', pool, w, t)
      BY <2>1, <2>2, LifeTypes, HandleTaskGives, ExecuteTaskGives
    <3> QED
      BY <3>1 DEF Given, SameNodes
  <2>6. Placed'
    <3> SUFFICES ASSUME NEW v \in Worker, NEW x \in Tasks(pool', v)
                 PROVE  entry'[x] = v /\ promise'[x] = "pending"
      BY DEF Placed, Tasks
    <3>1. CASE x \in Tasks(pool, v)
      <4>1. x # t /\ entry[x] = v /\ promise[x] = "pending"
        BY <1>1, <2>1, <3>1 DEF Placed
      <4> QED
        BY <1>1, <1>2, <4>1, LifeTypes
    <3>2. CASE x \notin Tasks(pool, v)
      <4>1. v = w /\ x = t
        BY <2>4, <3>2 DEF TasksChanged
      <4> QED
        BY <1>1, <1>2, <4>1, LifeTypes
    <3> QED
      BY <3>1, <3>2
  <2> QED
    BY <2>4, <2>5, <2>6
<1> QED
  BY <1>1, <1>3, LifeTypes, StaysEventful

LEMMA RespondEventful ==
    ASSUME LifeInv, Eventful, NEW w \in Worker, NEW t \in Task, Respond(w, t)
    PROVE  Eventful'
<1>1. /\ t \in pool.running[w]
      /\ pool' = Continued(BusyEndChecked(Unexecuted(Answered(pool, w, t), entry[t])), entry[t])
      /\ entry' = [entry EXCEPT ![t] = NoKey]
      /\ promise' = [promise EXCEPT ![t] = "settled"]
      /\ UNCHANGED <<options, status, changes, failures, aborts>>
  BY DEF Respond, Answered
<1>2. ASSUME status = "started", failures = 0
      PROVE  pool'.nodes = pool.nodes /\ Kept(pool', pool) /\ Placed'
  <2>1. Sound(pool) /\ Placed /\ w \in DOMAIN pool.nodes /\ pool.nodes[w] = w
    BY <1>2, EventfulGives
  <2>2. entry[t] = w
    BY <1>1, <2>1 DEF Placed, Tasks
  <2> DEFINE p == BusyEndChecked(Unexecuted(Answered(pool, w, t), w))
  <2>3. TaskAnswered(p, pool, w, t, w)
    BY LifeTypes, AnsweredFields
  <2>4. pool' = Continued(p, w)
    BY <1>1, <2>2
  <2> HIDE DEF p
  <2>5. p \in PoolState /\ SameNodes(p, pool)
    BY <2>3 DEF TaskAnswered
  <2>6. Kept(p, pool) /\ TasksChanged(p, pool, w, Tasks(pool, w) \ {t})
    BY <1>1, <2>1, <2>3, LifeTypes, AnsweredSound
  <2>7. Kept(pool', p) /\ \A v \in Worker : Tasks(pool', v) = Tasks(p, v)
    <3>1. CASE pool' = p
      BY <2>6, <3>1 DEF Kept
    <3>2. CASE pool' # p
      <4>1. p.queue[w] # <<>> /\ pool' = ExecuteNext(p, w)
        BY <2>1, <2>4, <2>5, <3>2 DEF Continued, SameNodes
      <4>2. NextRuns(pool', p, w)
        BY <2>5, <4>1, ExecuteNextFields
      <4>3. Kept(pool', p) /\ TasksChanged(pool', p, w, Tasks(p, w))
        BY <2>6, <4>1, <4>2, LifeTypes, ExecuteNextSound DEF Kept
      <4> QED
        BY <4>3 DEF TasksChanged
    <3> QED
      BY <3>1, <3>2
  <2>8. pool'.nodes = pool.nodes
    BY <2>4, <2>5, ContinuedKeeps DEF SameNodes
  <2>9. Placed'
    <3> SUFFICES ASSUME NEW v \in Worker, NEW x \in Tasks(pool', v)
                 PROVE  entry'[x] = v /\ promise'[x] = "pending"
      BY DEF Placed, Tasks
    <3>1. x \in Tasks(p, v)
      BY <2>7
    <3>2. x \in Tasks(pool, v) /\ (v = w => x # t)
      BY <2>6, <3>1 DEF TasksChanged
    <3>3. entry[x] = v /\ promise[x] = "pending"
      BY <2>1, <3>2 DEF Placed
    <3> QED
      BY <1>1, <2>2, <3>2, <3>3, LifeTypes
  <2> QED
    BY <2>6, <2>7, <2>8, <2>9 DEF Kept
<1> QED
  BY <1>1, <1>2, LifeTypes, StaysEventful

LEMMA AbortQueuedTaskEventful ==
    ASSUME LifeInv, Eventful, NEW t \in Task, AbortQueuedTask(t)
    PROVE  Eventful'
<1>1. /\ entry[t] \in DOMAIN pool.nodes
      /\ entry' = [entry EXCEPT ![t] = NoKey]
      /\ promise' = [promise EXCEPT ![t] = "settled"] /\ aborts' = aborts + 1
      /\ UNCHANGED <<options, status, ending, changes, failures>>
  BY DEF AbortQueuedTask
<1>2. ASSUME status = "started", failures = 0
      PROVE  /\ pool'.nodes = [k \in 1..N |-> k] /\ Sound(pool') /\ Placed'
  <2> DEFINE w == entry[t]
  <2>1. Sound(pool) /\ Placed /\ w \in Worker /\ pool.nodes[w] = w
    BY <1>1, <1>2, EventfulGives
  <2>2. PICK i \in DOMAIN pool.queue[w] :
            /\ pool.queue[w][i] = t
            /\ pool' = [pool EXCEPT !.queue[w] = RemoveAt(@, i)]
    BY <2>1 DEF AbortQueuedTask
  <2> HIDE DEF w
  <2> DEFINE rest == RemoveAt(pool.queue[w], i)
             queue == [pool.queue EXCEPT ![w] = rest]
  <2>3. pool \in PoolState /\ pool.queue \in [Worker -> Seq(Task)]
    BY LifeTypes, PoolFields
  <2>4. /\ rest \in Seq(Task) /\ Range(pool.queue[w]) = Range(rest) \union {t}
        /\ Distinct(pool.queue[w]) => Distinct(rest) /\ t \notin Range(rest)
    <3>1. pool.queue[w] \in Seq(Task)
      BY <2>1, <2>3
    <3> QED
      BY <2>2, <3>1, RemovedSeq
  <2>5. queue \in [Worker -> Seq(Task)] /\ pool' = [pool EXCEPT !.queue = queue]
    BY <2>2, <2>3, <2>4
  <2>6. queue[w] = rest /\ \A v \in Worker \ {w} : queue[v] = pool.queue[v]
    BY <2>1, <2>3
  <2> HIDE DEF queue, rest
  <2>7. /\ pool' \in PoolState /\ pool'.nodes = pool.nodes /\ pool'.limit = pool.limit
        /\ pool'.queue = queue /\ pool'.running = pool.running
        /\ pool'.executing = pool.executing /\ pool'.busyEventEmitted = pool.busyEventEmitted
    BY <2>3, <2>5 DEF PoolState
  <2>8. Members(pool') = Worker
    BY <2>1, <2>7 DEF Members, Sound
  <2>9. Sound(pool')
    <3>1. ASSUME NEW v \in Worker
          PROVE  /\ Distinct(pool'.queue[v])
                 /\ Range(pool'.queue[v]) \intersect pool'.running[v] = {}
      <4>1. Distinct(pool.queue[v]) /\ Range(pool.queue[v]) \intersect pool.running[v] = {}
        BY <2>1 DEF Sound
      <4> QED
        BY <2>4, <2>6, <2>7, <4>1
    <3> QED
      BY <2>1, <2>7, <2>8, <3>1 DEF Sound
  <2>10. Placed'
    <3> SUFFICES ASSUME NEW v \in Worker, NEW x \in Tasks(pool', v)
                 PROVE  entry'[x] = v /\ promise'[x] = "pending"
      BY DEF Placed, Tasks
    <3>1. Distinct(pool.queue[w]) /\ t \notin pool.running[w]
      <4>1. Range(pool.queue[w]) \intersect pool.running[w] = {} /\ Distinct(pool.queue[w])
        BY <2>1 DEF Sound
      <4> QED
        BY <2>4, <4>1
    <3>2. x \in Tasks(pool, v) /\ (v = w => x # t)
      BY <2>4, <2>6, <2>7, <3>1 DEF Tasks
    <3>3. entry[x] = v /\ promise[x] = "pending"
      BY <2>1, <3>2 DEF Placed
    <3>4. x # t
      BY <3>2, <3>3 DEF w
    <3> QED
      BY <1>1, <3>3, <3>4, LifeTypes
  <2>11. pool.nodes = [k \in 1..N |-> k]
    BY <1>2 DEF Eventful
  <2> QED
    BY <2>7, <2>9, <2>10, <2>11
<1>3. aborts' # 0
  BY <1>1, LifeTypes
<1> SUFFICES ASSUME status' = "started", failures' = 0
             PROVE  pool'.nodes = [k \in 1..N |-> k] /\ Sound(pool') /\ Placed'
  BY <1>3 DEF Eventful, Sound, Members
<1> QED
  BY <1>1, <1>2

LEMMA DisableTasksQueueEventful ==
    ASSUME LifeInv, Eventful, DisableTasksQueue
    PROVE  Eventful'
<1>1. /\ status = "started" /\ pool' = FlushTasksQueues(pool)
      /\ UNCHANGED <<status, entry, promise, ending, failures, aborts>>
  BY DEF DisableTasksQueue
<1>2. AllFlushed(pool', pool)
  BY <1>1, LifeTypes, FlushFields
<1>3. ASSUME failures = 0
      PROVE  pool'.nodes = pool.nodes /\ Kept(pool', pool) /\ Placed'
  <2>1. Sound(pool) /\ Placed
    BY <1>1, <1>3, EventfulGives
  <2>2. Kept(pool', pool) /\ \A w \in Worker : Tasks(pool', w) = Tasks(pool, w)
    BY <1>2, <2>1, LifeTypes, FlushSound
  <2>3. Placed'
    <3> SUFFICES ASSUME NEW v \in Worker, NEW x \in Tasks(pool', v)
                 PROVE  entry'[x] = v /\ promise'[x] = "pending"
      BY DEF Placed, Tasks
    <3> QED
      BY <1>1, <2>1, <2>2 DEF Placed
  <2> QED
    BY <1>2, <2>2, <2>3 DEF AllFlushed, SameNodes
<1> QED
  BY <1>1, <1>3, LifeTypes, StaysEventful

(* Steps that change of the pool the limits or the readiness only *)
LEMMA SameTasksKept ==
    ASSUME NEW p, Sound(p), NEW r \in PoolState, r.nodes = p.nodes, r.queue = p.queue,
           r.running = p.running, r.executing = p.executing, r.backPressure = p.backPressure,
           r.busyEventEmitted = p.busyEventEmitted,
           r.backPressureEventEmitted = p.backPressureEventEmitted,
           \A w \in Worker : r.limit[w] >= 1
    PROVE  Kept(r, p)
<1>1. Members(r) = Worker
  BY DEF Sound, Members
<1>2. Sound(r)
  BY <1>1 DEF Sound
<1> QED
  BY <1>2 DEF Kept, Signalled

LEMMA SetTasksQueueOptionsEventful ==
    ASSUME LifeInv, Eventful, NEW o \in QueueOptions, SetTasksQueueOptions(o)
    PROVE  Eventful'
<1>1. /\ status = "started" /\ pool' = Resized(pool, o.size)
      /\ UNCHANGED <<status, entry, promise, ending, failures, aborts>>
  BY DEF SetTasksQueueOptions
<1> DEFINE limit == [w \in Worker |-> o.size]
<1>2. limit \in [Worker -> Nat] /\ \A w \in Worker : limit[w] >= 1
  BY TasksQueueAssumption
<1>3. pool' = [pool EXCEPT !.limit = limit]
  BY <1>1 DEF Resized
<1> HIDE DEF limit
<1>4. /\ pool' \in PoolState /\ pool'.nodes = pool.nodes /\ pool'.queue = pool.queue
      /\ pool'.running = pool.running /\ pool'.executing = pool.executing
      /\ pool'.backPressure = pool.backPressure
      /\ pool'.busyEventEmitted = pool.busyEventEmitted
      /\ pool'.backPressureEventEmitted = pool.backPressureEventEmitted /\ pool'.limit = limit
  BY <1>2, <1>3, LifeTypes DEF PoolState
<1>5. ASSUME failures = 0
      PROVE  Kept(pool', pool) /\ Placed'
  <2>1. Sound(pool) /\ Placed
    BY <1>1, <1>5, EventfulGives
  <2>2. Kept(pool', pool)
    BY <1>2, <1>4, <2>1, SameTasksKept
  <2> QED
    BY <1>1, <1>4, <2>1, <2>2 DEF Placed, Tasks
<1> QED
  BY <1>1, <1>4, <1>5, LifeTypes, StaysEventful

LEMMA WorkerReadyEventful ==
    ASSUME LifeInv, Eventful, NEW w \in Worker, WorkerReady(w)
    PROVE  Eventful'
<1>1. /\ pool' = [pool EXCEPT !.ready[w] = TRUE]
      /\ UNCHANGED <<options, status, entry, promise, ending, changes, failures, aborts>>
  BY DEF WorkerReady
<1> DEFINE ready == [pool.ready EXCEPT ![w] = TRUE]
<1>2. ready \in [Worker -> BOOLEAN]
  BY LifeTypes, PoolFields
<1>3. pool' = [pool EXCEPT !.ready = ready]
  BY <1>1
<1> HIDE DEF ready
<1>4. /\ pool' \in PoolState /\ pool'.nodes = pool.nodes /\ pool'.queue = pool.queue
      /\ pool'.running = pool.running /\ pool'.executing = pool.executing
      /\ pool'.backPressure = pool.backPressure
      /\ pool'.busyEventEmitted = pool.busyEventEmitted
      /\ pool'.backPressureEventEmitted = pool.backPressureEventEmitted
      /\ pool'.limit = pool.limit
  BY <1>2, <1>3, LifeTypes DEF PoolState
<1>5. ASSUME status = "started", failures = 0
      PROVE  Kept(pool', pool) /\ Placed'
  <2>1. Sound(pool) /\ Placed
    BY <1>5, EventfulGives
  <2>2. Kept(pool', pool)
    <3>1. \A v \in Worker : pool'.limit[v] >= 1
      BY <1>4, <2>1 DEF Sound
    <3> QED
      BY <1>4, <2>1, <3>1, SameTasksKept
  <2> QED
    BY <1>1, <1>4, <2>1, <2>2 DEF Placed, Tasks
<1> QED
  BY <1>1, <1>4, <1>5, LifeTypes, StaysEventful

LEMMA StepEventful ==
    ASSUME LifeInv, Eventful, [Next]_vars
    PROVE  Eventful'
<1>1. CASE UNCHANGED vars
  BY <1>1 DEF vars, Eventful, Sound, Signalled, Placed, Members, Tasks
<1>2. ASSUME NEW t \in Task, Execute(t) PROVE Eventful'
  BY <1>2, ExecuteEventful
<1>3. ASSUME NEW t \in Task, AbortQueuedTask(t) PROVE Eventful'
  BY <1>3, AbortQueuedTaskEventful
<1>4. ASSUME NEW w \in Worker, NEW t \in Task, Respond(w, t) PROVE Eventful'
  BY <1>4, RespondEventful
<1>5. ASSUME NEW w \in Worker, WorkerReady(w) PROVE Eventful'
  BY <1>5, WorkerReadyEventful
<1>6. ASSUME NEW o \in QueueOptions, SetTasksQueueOptions(o) PROVE Eventful'
  BY <1>6, SetTasksQueueOptionsEventful
<1>7. CASE DisableTasksQueue
  BY <1>7, DisableTasksQueueEventful
<1>8. ASSUME NEW w \in Worker, WorkerFails(w) PROVE Eventful'
  <2>1. failures' # 0
    BY <1>8, LifeTypes DEF WorkerFails
  <2> QED
    BY <2>1 DEF Eventful
<1>9. CASE Destroy
  BY <1>9 DEF Destroy, Eventful
<1>10. ASSUME NEW w \in Worker, TasksFinishedTimeout(w) \/ WorkerCloses(w) \/ Terminate(w)
       PROVE  Eventful'
  <2>1. status # "started"
    BY <1>10 DEF LifeInv, NotEnding, TasksFinishedTimeout, WorkerCloses, Terminate
  <2>2. status' # "started"
    BY <1>10, <2>1 DEF TasksFinishedTimeout, WorkerCloses, Terminate
  <2> QED
    BY <2>2 DEF Eventful
<1> QED
  BY <1>1, <1>2, <1>3, <1>4, <1>5, <1>6, <1>7, <1>8, <1>9, <1>10 DEF Next

LEMMA StartsEventful ==
    ASSUME Init
    PROVE  Eventful
<1>1. LifeInv /\ pool.nodes = [k \in 1..N |-> k] /\ Members(pool) = Worker
  BY StartsAlive, FirstNodes
<1>2. pool \in PoolState /\ options \in QueueOptions \union {Disabled}
  BY <1>1, LifeTypes
<1>3. \A w \in Worker : /\ pool.queue[w] = <<>> /\ pool.running[w] = {}
                        /\ pool.executing[w] = 0 /\ ~pool.backPressure[w]
                        /\ pool.limit[w] = Limit(options)
  BY DEF Init
<1>4. ~pool.busyEventEmitted /\ ~pool.backPressureEventEmitted
  BY DEF Init
<1>5. <<>> \in Seq(Task) /\ Range(<<>>) = {} /\ Distinct(<<>>)
  <2>1. <<>> \in Seq(Task) /\ Len(<<>>) = 0
    BY EmptySeq
  <2>2. Range(<<>>) = {} /\ DOMAIN <<>> = 1..0
    BY <2>1, ElementsOfSeq
  <2> QED
    BY <2>1, <2>2 DEF Distinct
<1>6. Limit(options) >= 1 /\ IsFiniteSet({}) /\ Cardinality({}) = 0
  BY <1>2, LimitType, FS_EmptySet
<1>7. Sound(pool)
  BY <1>1, <1>2, <1>3, <1>4, <1>5, <1>6 DEF Sound
<1>8. Signalled(pool) /\ Placed
  BY <1>3, <1>4, <1>5 DEF Signalled, Placed, Tasks
<1> QED
  BY <1>1, <1>7, <1>8 DEF Eventful

(* The events come in pairs: while no worker failed, a pool with no task in  *)
(* work does not take itself for busy, nor, if no queued task was aborted,   *)
(* one with none queued for back pressured, however often its queues were    *)
(* resized, disabled and enabled (abstract-pool.ts                           *)
(* checkAndEmitTaskExecutionFinishedEvents, checkAndEmitTaskDequeuingEvents).*)
THEOREM EventsComeInPairs == Spec => []EventsEnd
<1>1. Init => LifeInv /\ Eventful
  BY StartsAlive, StartsEventful
<1>2. LifeInv /\ Eventful /\ [Next]_vars => LifeInv' /\ Eventful'
  BY StepLives, StepEventful
<1>3. LifeInv /\ Eventful => EventsEnd
  <2> SUFFICES ASSUME LifeInv, Eventful, status = "started", failures = 0
               PROVE  /\ InWork = {} => ~pool.busyEventEmitted
                      /\ Queued = {} /\ aborts = 0 => ~pool.backPressureEventEmitted
    BY DEF EventsEnd
  <2>1. Sound(pool) /\ (aborts = 0 => Signalled(pool))
    BY EventfulGives
  <2>2. Members(pool) = Worker /\ 1 \in Worker
    BY <2>1, TasksQueueAssumption DEF Sound, Worker
  <2>3. ASSUME InWork = {} PROVE ~pool.busyEventEmitted
    <3>1. pool.running[1] = {}
      BY <2>2, <2>3 DEF InWork
    <3>2. pool.executing[1] = 0
      BY <2>1, <2>2, <3>1, FS_EmptySet DEF Sound
    <3> QED
      BY <2>1, <2>2, <3>2 DEF Sound
  <2>4. ASSUME Queued = {}, aborts = 0 PROVE ~pool.backPressureEventEmitted
    <3>1. ASSUME NEW w \in Worker PROVE pool.queue[w] = <<>>
      <4>1. \A t : t \notin Range(pool.queue[w])
        BY <2>2, <2>4, QueuedOn
      <4>2. pool.queue[w] \in Seq(Task)
        BY LifeTypes, PoolFields
      <4>3. Range(pool.queue[w]) = {}
        BY <4>1
      <4> QED
        BY <4>2, <4>3, ElementsOfSeq
    <3> QED
      BY <2>1, <2>4, <3>1 DEF Signalled
  <2> QED
    BY <2>3, <2>4
<1> QED
  BY <1>1, <1>2, <1>3, PTL DEF Spec

=============================================================================
