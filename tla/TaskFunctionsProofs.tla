------------------------ MODULE TaskFunctionsProofs ------------------------
(***************************************************************************)
(* The default task function of a worker is always one of its named task   *)
(* functions, whatever is added, removed and made default, in any order,   *)
(* by any number of calls, workers and names.                              *)
(***************************************************************************)
EXTENDS TaskFunctions, SequenceTheorems, FiniteSetTheorems, WellFoundedInduction, TLAPS

(* Both maps have an entry for every worker, and the defaults are named *)
MapInv == /\ DOMAIN functions = Worker
          /\ default = [w \in Worker |-> default[w]]
          /\ DefaultIsNamed

(* An entry put under a name is in the range, with all that was not there *)
LEMMA PutKeepsOthers ==
    ASSUME NEW map, NEW name, NEW object, NEW o \in Range(map),
           ~(name \in DOMAIN map /\ map[name] = o)
    PROVE  o \in Range(Put(map, name, object))
<1>1. PICK n \in DOMAIN map : map[n] = o
  BY DEF Range
<1>2. n # name
  BY <1>1
<1>3. n \in DOMAIN Put(map, name, object) /\ Put(map, name, object)[n] = o
  BY <1>1, <1>2 DEF Put
<1> QED
  BY <1>3 DEF Range

LEMMA PutAdds ==
    ASSUME NEW map, NEW name, NEW object
    PROVE  object \in Range(Put(map, name, object))
<1>1. name \in DOMAIN Put(map, name, object) /\ Put(map, name, object)[name] = object
  BY DEF Put
<1> QED
  BY <1>1 DEF Range

(* What is left after a name is dropped *)
LEMMA DropKeepsOthers ==
    ASSUME NEW map, NEW name, NEW o \in Range(map),
           ~(name \in DOMAIN map /\ map[name] = o)
    PROVE  o \in Range(Drop(map, name))
<1>1. PICK n \in DOMAIN map : map[n] = o
  BY DEF Range
<1>2. n # name
  BY <1>1
<1>3. n \in DOMAIN Drop(map, name) /\ Drop(map, name)[n] = o
  BY <1>1, <1>2 DEF Drop
<1> QED
  BY <1>3 DEF Range

LEMMA AddKeepsMapInv ==
    ASSUME MapInv, NEW w \in Worker, NEW message, WorkerAdds(w, message)
    PROVE  MapInv'
<1> DEFINE map == functions[w]
           new == Put(map, message.name, message.object)
           shared == message.name \in DOMAIN map /\ map[message.name] = default[w]
<1>1. functions' = [functions EXCEPT ![w] = new]
  BY DEF WorkerAdds
<1>2. default' = IF shared THEN [default EXCEPT ![w] = message.object] ELSE default
  BY DEF WorkerAdds
<1>3. DOMAIN functions' = Worker /\ functions'[w] = new
      /\ \A v \in Worker : v # w => functions'[v] = functions[v]
  BY <1>1 DEF MapInv
<1>4. /\ default' = [v \in Worker |-> default'[v]]
      /\ default'[w] = IF shared THEN message.object ELSE default[w]
      /\ \A v \in Worker : v # w => default'[v] = default[v]
  BY <1>2 DEF MapInv
<1>5. default'[w] \in Range(functions'[w])
  <2>1. CASE shared
    BY <2>1, <1>3, <1>4, PutAdds
  <2>2. CASE ~shared
    <3>1. default[w] \in Range(map)
      BY DEF MapInv, DefaultIsNamed
    <3> QED
      BY <2>2, <3>1, <1>3, <1>4, PutKeepsOthers
  <2> QED
    BY <2>1, <2>2
<1>6. \A v \in Worker : default'[v] \in Range(functions'[v])
  BY <1>3, <1>4, <1>5 DEF MapInv, DefaultIsNamed
<1> QED
  BY <1>3, <1>4, <1>6 DEF MapInv, DefaultIsNamed

LEMMA RemoveKeepsMapInv ==
    ASSUME MapInv, NEW w \in Worker, NEW message, WorkerRemoves(w, message)
    PROVE  MapInv'
<1> DEFINE map == functions[w]
           shared == message.name \in DOMAIN map /\ map[message.name] = default[w]
<1>1. default' = default
  BY DEF WorkerRemoves
<1>2. functions' = IF shared THEN functions
                   ELSE [functions EXCEPT ![w] = Drop(map, message.name)]
  BY DEF WorkerRemoves
<1>3. DOMAIN functions' = Worker /\ \A v \in Worker : v # w => functions'[v] = functions[v]
  BY <1>2 DEF MapInv
<1>4. default[w] \in Range(map)
  BY DEF MapInv, DefaultIsNamed
<1>5. default[w] \in Range(functions'[w])
  <2>1. CASE shared
    BY <2>1, <1>2, <1>4
  <2>2. CASE ~shared
    <3>1. functions'[w] = Drop(map, message.name)
      BY <2>2, <1>2 DEF MapInv
    <3> QED
      BY <2>2, <3>1, <1>4, DropKeepsOthers
  <2> QED
    BY <2>1, <2>2
<1> QED
  BY <1>1, <1>3, <1>5 DEF MapInv, DefaultIsNamed

LEMMA SetDefaultKeepsMapInv ==
    ASSUME MapInv, NEW w \in Worker, NEW message, WorkerSetsDefault(w, message)
    PROVE  MapInv'
<1> DEFINE map == functions[w]
           known == message.name \in DOMAIN map
<1>1. functions' = functions
  BY DEF WorkerSetsDefault
<1>2. default' = IF known THEN [default EXCEPT ![w] = map[message.name]] ELSE default
  BY DEF WorkerSetsDefault
<1>3. /\ default' = [v \in Worker |-> default'[v]]
      /\ default'[w] = IF known THEN map[message.name] ELSE default[w]
      /\ \A v \in Worker : v # w => default'[v] = default[v]
  BY <1>2 DEF MapInv
<1>4. default'[w] \in Range(map)
  BY <1>3 DEF MapInv, DefaultIsNamed, Range
<1> QED
  BY <1>1, <1>3, <1>4 DEF MapInv, DefaultIsNamed

LEMMA InitMapInv == Init => MapInv
<1> SUFFICES ASSUME Init PROVE MapInv
  OBVIOUS
<1>1. \A w \in Worker : functions[w] = [n \in {FileName} |-> FileObject]
                        /\ default[w] = FileObject
  BY DEF Init
<1>2. FileObject \in Range([n \in {FileName} |-> FileObject])
  BY DEF Range
<1> QED
  BY <1>1, <1>2 DEF Init, MapInv, DefaultIsNamed

LEMMA NextMapInv == MapInv /\ [Next]_vars => MapInv'
<1> SUFFICES ASSUME MapInv, [Next]_vars PROVE MapInv'
  OBVIOUS
<1> DEFINE Same == UNCHANGED <<functions, default>>
<1>0. ASSUME Same PROVE MapInv'
  BY <1>0 DEF MapInv, DefaultIsNamed
<1>1. ASSUME NEW name \in Name, NEW strategy \in Strategy \union {None},
             AddTaskFunction(name, strategy)
      PROVE  Same
  BY <1>1 DEF AddTaskFunction, Send, workerVars
<1>2. ASSUME NEW name \in Name, RemoveTaskFunction(name) \/ SetDefaultTaskFunction(name)
      PROVE  Same
  BY <1>2 DEF RemoveTaskFunction, SetDefaultTaskFunction, Send, workerVars
<1>3. CASE CreateDynamicWorker
  BY <1>0, <1>3 DEF CreateDynamicWorker, Create, workerVars
<1>4. ASSUME NEW w \in Worker, WorkerExits(w) PROVE Same
  BY <1>4 DEF WorkerExits, Create, workerVars
<1>5. ASSUME NEW w \in Worker, PoolReceives(w) PROVE Same
  BY <1>5 DEF PoolReceives, workerVars
<1>6. ASSUME NEW w \in Worker, WorkerReceives(w) PROVE MapInv'
  <2> DEFINE message == Head(toWorker[w])
  <2>1. CASE WorkerStarts(w)
    BY <2>1, <1>0 DEF WorkerStarts, workerVars
  <2>2. CASE WorkerAdds(w, message)
    BY <2>2, AddKeepsMapInv
  <2>3. CASE WorkerRemoves(w, message)
    BY <2>3, RemoveKeepsMapInv
  <2>4. CASE WorkerSetsDefault(w, message)
    BY <2>4, SetDefaultKeepsMapInv
  <2> QED
    BY <1>6, <2>1, <2>2, <2>3, <2>4 DEF WorkerReceives
<1>7. CASE UNCHANGED vars
  BY <1>0, <1>7 DEF vars, workerVars
<1> QED
  BY <1>0, <1>1, <1>2, <1>3, <1>4, <1>5, <1>6, <1>7 DEF Next

(* The default task function of every worker is one of its named task       *)
(* functions, in every pool: addTaskFunction, removeTaskFunction and        *)
(* setDefaultTaskFunction of src/worker/abstract-worker.ts keep it so.      *)
THEOREM DefaultAlwaysNamed == Spec => []DefaultIsNamed
<1>1. Init => MapInv
  BY InitMapInv
<1>2. MapInv /\ [Next]_vars => MapInv'
  BY NextMapInv
<1>3. MapInv => DefaultIsNamed
  BY DEF MapInv
<1> QED
  BY <1>1, <1>2, <1>3, PTL DEF Spec

-----------------------------------------------------------------------------
(* The values of the variables, with those of the ports *)

Answer == [kind : {"properties"}, listing : Listing] \union [kind : {"status"}, ok : BOOLEAN]

PortsTyped == /\ toWorker \in [Worker -> Seq(Message)]
              /\ fromWorker \in [Worker -> Seq(Answer)]

(* The calls that wait were made, and there are finitely many names *)
CallsMade == /\ IsFiniteSet(pending) /\ IsFiniteSet(DOMAIN taskFunctions)
             /\ \A o \in pending : o.call <= calls

(* The workers that were created, and the static ones of the pool *)
Made == {w \in Worker : dynamic[w] # None}

Statics == {w \in Members : dynamic[w] = FALSE}

(* Every node has a worker of its own, and as many are static as there must *)
(* be: those that leave are replaced.                                       *)
NodesInv == /\ Made = 1..Created
            /\ Members \subseteq Made
            /\ \A i, j \in DOMAIN nodes : nodes[i] = nodes[j] => i = j
            /\ Cardinality(Members) = Len(nodes)
            /\ Cardinality(Statics) = MinSize
            /\ \A w \in Worker \ Made : toWorker[w] = <<>> /\ fromWorker[w] = <<>>

TypeInv == TypeOK /\ PortsTyped /\ CallsMade /\ NodesInv

LEMMA ObjectMapIs ==
    ASSUME NEW map
    PROVE  map \in ObjectMap <=> /\ map = [n \in DOMAIN map |-> map[n]]
                                 /\ DOMAIN map \subseteq Name
                                 /\ \A n \in DOMAIN map : map[n] \in Object
<1>1. ASSUME map \in ObjectMap
      PROVE  /\ map = [n \in DOMAIN map |-> map[n]]
             /\ DOMAIN map \subseteq Name
             /\ \A n \in DOMAIN map : map[n] \in Object
  <2>1. PICK names \in SUBSET Name : map \in [names -> Object]
    BY <1>1 DEF ObjectMap
  <2> QED
    BY <2>1
<1>2. ASSUME map = [n \in DOMAIN map |-> map[n]], DOMAIN map \subseteq Name,
             \A n \in DOMAIN map : map[n] \in Object
      PROVE  map \in ObjectMap
  <2>1. map \in [DOMAIN map -> Object]
    BY <1>2
  <2> QED
    BY <1>2, <2>1 DEF ObjectMap
<1> QED
  BY <1>1, <1>2

LEMMA PutTyped ==
    ASSUME NEW map \in ObjectMap, NEW name \in Name, NEW object \in Object
    PROVE  Put(map, name, object) \in ObjectMap
<1> DEFINE new == Put(map, name, object)
<1>1. DOMAIN map \subseteq Name /\ \A n \in DOMAIN map : map[n] \in Object
  BY ObjectMapIs
<1>2. /\ new = [n \in DOMAIN new |-> new[n]] /\ DOMAIN new \subseteq Name
      /\ \A n \in DOMAIN new : new[n] \in Object
  BY <1>1 DEF Put
<1> QED
  BY <1>2, ObjectMapIs

LEMMA DropTyped ==
    ASSUME NEW map \in ObjectMap, NEW name
    PROVE  Drop(map, name) \in ObjectMap
<1> DEFINE new == Drop(map, name)
<1>1. DOMAIN map \subseteq Name /\ \A n \in DOMAIN map : map[n] \in Object
  BY ObjectMapIs
<1>2. /\ new = [n \in DOMAIN new |-> new[n]] /\ DOMAIN new \subseteq Name
      /\ \A n \in DOMAIN new : new[n] \in Object
  BY <1>1 DEF Drop
<1> QED
  BY <1>2, ObjectMapIs

LEMMA EmptyTyped == <<>> \in ObjectMap /\ DOMAIN <<>> = {}
<1>1. <<>> = [n \in {} |-> n] /\ DOMAIN <<>> = {}
  OBVIOUS
<1> QED
  BY <1>1, ObjectMapIs

LEMMA FileObjectTyped == FileObject \in Object /\ FileName \in Name /\ Unlisted \in Listing
<1>1. MaxCalls \in Nat /\ FileName \in Name
  BY TaskFunctionsAssumption
<1>2. FileObject \in Object
  BY <1>1 DEF FileObject, Object
<1> QED
  BY <1>1, <1>2, EmptyTyped DEF Unlisted, Listing

(* The sequence of the elements of a finite set *)
LEMMA SetToSeqTyped ==
    ASSUME NEW S, IsFiniteSet(S)
    PROVE  SetToSeq(S) \in Seq(S)
<1>1. Cardinality(S) \in Nat /\ ExistsBijection(1..Cardinality(S), S)
  BY FS_CardinalityType
<1>2. PICK f \in [1..Cardinality(S) -> S] : \A a, b \in 1..Cardinality(S) : f[a] = f[b] => a = b
  BY <1>1 DEF ExistsBijection, Bijection, Injection, IsInjective
<1>3. IsInjective(f)
  BY <1>2 DEF IsInjective
<1>4. SetToSeq(S) \in [1..Cardinality(S) -> S]
  BY <1>2, <1>3 DEF SetToSeq
<1> QED
  BY <1>1, <1>4, SeqDef

-----------------------------------------------------------------------------
(* The nodes *)

Distinct(seq) == \A i, j \in DOMAIN seq : seq[i] = seq[j] => i = j

LEMMA RemovedNode ==
    ASSUME NEW S, NEW seq \in Seq(S), Distinct(seq), NEW k \in DOMAIN seq
    PROVE  /\ RemoveAt(seq, k) \in Seq(S) /\ Distinct(RemoveAt(seq, k))
           /\ Len(RemoveAt(seq, k)) = Len(seq) - 1
           /\ Range(RemoveAt(seq, k)) = Range(seq) \ {seq[k]}
<1> DEFINE front == SubSeq(seq, 1, k - 1)
           rear == SubSeq(seq, k + 1, Len(seq))
           rest == RemoveAt(seq, k)
<1>1. Len(seq) \in Nat /\ DOMAIN seq = 1..Len(seq) /\ k \in 1..Len(seq)
      /\ \A i \in 1..Len(seq) : seq[i] \in S
  BY LenProperties
<1>2. front \in Seq(S) /\ Len(front) = k - 1 /\ \A i \in 1..(k - 1) : front[i] = seq[i]
  <2>1. \A i \in 1..(k - 1) : seq[i] \in S
    BY <1>1
  <2> QED
    BY <1>1, <2>1, SubSeqProperties
<1>3. rear \in Seq(S) /\ Len(rear) = Len(seq) - k
      /\ \A i \in 1..(Len(seq) - k) : rear[i] = seq[k + i]
  <2>1. \A i \in (k + 1)..Len(seq) : seq[i] \in S
    BY <1>1
  <2>2. /\ rear \in Seq(S)
        /\ Len(rear) = IF k + 1 <= Len(seq) THEN Len(seq) - (k + 1) + 1 ELSE 0
        /\ \A i \in 1..(Len(seq) - (k + 1) + 1) : rear[i] = seq[k + 1 + i - 1]
    BY <1>1, <2>1, SubSeqProperties
  <2>3. Len(rear) = Len(seq) - k
    BY <1>1, <2>2
  <2>4. ASSUME NEW i \in 1..(Len(seq) - k) PROVE rear[i] = seq[k + i]
    <3>1. i \in 1..(Len(seq) - (k + 1) + 1) /\ k + 1 + i - 1 = k + i
      BY <1>1
    <3>2. rear[i] = seq[k + 1 + i - 1]
      BY <2>2, <3>1
    <3> QED
      BY <3>1, <3>2
  <2> QED
    BY <2>2, <2>3, <2>4
<1>4. rest = front \o rear
  BY DEF RemoveAt
<1> HIDE DEF front, rear, rest
<1>5. rest \in Seq(S) /\ Len(rest) = Len(seq) - 1
      /\ \A i \in 1..(Len(seq) - 1) : rest[i] = IF i < k THEN seq[i] ELSE seq[i + 1]
  <2>1. /\ rest \in Seq(S) /\ Len(rest) = Len(front) + Len(rear)
        /\ \A i \in 1..(Len(front) + Len(rear)) :
               rest[i] = IF i <= Len(front) THEN front[i] ELSE rear[i - Len(front)]
    BY <1>2, <1>3, <1>4, ConcatProperties
  <2>2. Len(front) + Len(rear) = Len(seq) - 1
    BY <1>1, <1>2, <1>3
  <2>3. ASSUME NEW i \in 1..(Len(seq) - 1), i < k PROVE rest[i] = seq[i]
    <3>1. i \in 1..(Len(front) + Len(rear)) /\ i <= Len(front) /\ i \in 1..(k - 1)
      BY <1>1, <1>2, <2>2, <2>3
    <3> QED
      BY <1>2, <2>1, <3>1
  <2>4. ASSUME NEW i \in 1..(Len(seq) - 1), ~(i < k) PROVE rest[i] = seq[i + 1]
    <3>1. /\ i \in 1..(Len(front) + Len(rear)) /\ ~(i <= Len(front))
          /\ i - Len(front) = i - (k - 1) /\ i - (k - 1) \in 1..(Len(seq) - k)
          /\ k + (i - (k - 1)) = i + 1
      BY <1>1, <1>2, <2>2, <2>4
    <3>2. rest[i] = rear[i - (k - 1)]
      BY <2>1, <3>1
    <3> QED
      BY <1>3, <3>1, <3>2
  <2> QED
    BY <2>1, <2>2, <2>3, <2>4
<1>6. DOMAIN rest = 1..(Len(seq) - 1)
  BY <1>5, LenProperties
<1>7. Distinct(rest)
  <2> SUFFICES ASSUME NEW i \in DOMAIN rest, NEW j \in DOMAIN rest, rest[i] = rest[j]
               PROVE  i = j
    BY DEF Distinct
  <2> DEFINE at(n) == IF n < k THEN n ELSE n + 1
  <2>1. at(i) \in DOMAIN seq /\ at(j) \in DOMAIN seq
    BY <1>1, <1>6
  <2>2. rest[i] = seq[at(i)] /\ rest[j] = seq[at(j)]
    BY <1>5, <1>6
  <2>3. at(i) = at(j)
    BY <2>1, <2>2 DEF Distinct
  <2> QED
    BY <1>1, <1>6, <2>3
<1>8. Range(rest) = Range(seq) \ {seq[k]}
  <2>1. ASSUME NEW x \in Range(rest) PROVE x \in Range(seq) /\ x # seq[k]
    <3>1. PICK i \in 1..(Len(seq) - 1) : x = rest[i]
      BY <1>6 DEF Range
    <3>2. PICK j \in 1..Len(seq) : j # k /\ x = seq[j]
      BY <1>1, <1>5, <3>1
    <3> QED
      BY <1>1, <3>2 DEF Range, Distinct
  <2>2. ASSUME NEW x \in Range(seq), x # seq[k] PROVE x \in Range(rest)
    <3>1. PICK j \in 1..Len(seq) : x = seq[j] /\ j # k
      BY <1>1, <2>2 DEF Range
    <3>2. PICK i \in 1..(Len(seq) - 1) : x = rest[i]
      <4>1. CASE j < k
        BY <1>1, <1>5, <3>1, <4>1
      <4>2. CASE j > k
        <5>1. j - 1 \in 1..(Len(seq) - 1) /\ rest[j - 1] = seq[j]
          BY <1>1, <1>5, <4>2
        <5> QED
          BY <3>1, <5>1
      <4> QED
        BY <1>1, <3>1, <4>1, <4>2
    <3> QED
      BY <1>6, <3>2 DEF Range
  <2> QED
    BY <2>1, <2>2
<1> QED
  BY <1>5, <1>7, <1>8 DEF rest

LEMMA AppendedNode ==
    ASSUME NEW S, NEW seq \in Seq(S), Distinct(seq), NEW x \in S, x \notin Range(seq)
    PROVE  /\ Append(seq, x) \in Seq(S) /\ Distinct(Append(seq, x))
           /\ Len(Append(seq, x)) = Len(seq) + 1
           /\ Range(Append(seq, x)) = Range(seq) \union {x}
<1> DEFINE longer == Append(seq, x)
<1>1. /\ longer \in Seq(S) /\ Len(longer) = Len(seq) + 1
      /\ \A i \in 1..Len(seq) : longer[i] = seq[i]
      /\ longer[Len(seq) + 1] = x
  BY AppendProperties
<1>2. Len(seq) \in Nat /\ DOMAIN seq = 1..Len(seq) /\ DOMAIN longer = 1..(Len(seq) + 1)
  BY <1>1, LenProperties
<1> HIDE DEF longer
<1>3. \A i \in DOMAIN seq : seq[i] # x
  BY DEF Range
<1>4. Distinct(longer)
  BY <1>1, <1>2, <1>3 DEF Distinct
<1>5. Range(longer) = Range(seq) \union {x}
  <2>1. ASSUME NEW i \in DOMAIN longer PROVE longer[i] \in Range(seq) \union {x}
    BY <1>1, <1>2 DEF Range
  <2>2. ASSUME NEW i \in DOMAIN seq PROVE seq[i] \in Range(longer)
    BY <1>1, <1>2 DEF Range
  <2>3. x \in Range(longer)
    BY <1>1, <1>2 DEF Range
  <2> QED
    BY <2>1, <2>2, <2>3 DEF Range
<1> QED
  BY <1>1, <1>4, <1>5 DEF longer

LEMMA MinSizeTyped == MinSize \in Nat /\ MinSize > 0 /\ MaxSize \in Nat /\ MaxWorkers \in Nat
                      /\ MinSize <= MaxSize /\ MinSize <= MaxWorkers /\ MaxCalls \in Nat
  BY TaskFunctionsAssumption

LEMMA WorkersFinite ==
    ASSUME NEW S, S \subseteq Worker
    PROVE  IsFiniteSet(S) /\ Cardinality(S) \in Nat /\ Cardinality(S) <= MaxWorkers
<1>1. MaxWorkers \in Nat
  BY MinSizeTyped
<1>2. IsFiniteSet(1..MaxWorkers) /\ Cardinality(1..MaxWorkers) = MaxWorkers
  BY <1>1, FS_Interval
<1> QED
  BY <1>1, <1>2, FS_Subset, FS_CardinalityType DEF Worker

(* The next worker is new *)
LEMMA NextWorker ==
    ASSUME NodesInv, Created < MaxWorkers
    PROVE  /\ Created \in Nat /\ Created + 1 \in Worker /\ Created + 1 \notin Made
           /\ Made \union {Created + 1} = 1..(Created + 1)
<1>1. Created = Cardinality(Made) /\ Made \subseteq Worker
  BY DEF Created, Made
<1>2. Created \in Nat /\ MaxWorkers \in Nat
  BY <1>1, WorkersFinite, MinSizeTyped
<1> QED
  BY <1>2 DEF NodesInv, Worker

(* The messages a dynamic worker starts with *)
LEMMA AdditionsTyped ==
    ASSUME TypeInv
    PROVE  Additions \in Seq(Message)
<1> DEFINE Addition(name) == [kind |-> "add", name |-> name, object |-> taskFunctions[name]]
           S == DOMAIN taskFunctions
           T == {Addition(name) : name \in S}
           f == [name \in S |-> Addition(name)]
<1>1. IsFiniteSet(S) /\ S \subseteq Name /\ \A n \in S : taskFunctions[n] \in Object
  BY ObjectMapIs DEF TypeInv, TypeOK, CallsMade
<1>2. f \in Surjection(S, T)
  BY DEF Surjection
<1>3. IsFiniteSet(T)
  <2> HIDE DEF f, S, T
  <2> QED
    BY <1>1, <1>2, FS_Surjection
<1>4. SetToSeq(T) \in Seq(T)
  <2> HIDE DEF T
  <2> QED
    BY <1>3, SetToSeqTyped
<1>5. T \subseteq Message
  BY <1>1 DEF Message
<1>6. SetToSeq(T) \in Seq(Message)
  <2> HIDE DEF T
  <2> QED
    BY <1>4, <1>5, SeqMonotonic
<1> QED
  BY <1>6 DEF Additions

LEMMA StartupTyped == Startup \in Message
  BY FileObjectTyped DEF Startup, Message

(* What a new worker is told: to start, first *)
LEMMA FirstMessages ==
    ASSUME TypeInv, NEW isDynamic \in BOOLEAN
    PROVE  LET told == <<Startup>> \o IF isDynamic THEN Additions ELSE <<>>
           IN  told \in Seq(Message) /\ told # <<>> /\ Head(told) = Startup
<1> DEFINE more == IF isDynamic THEN Additions ELSE <<>>
           told == <<Startup>> \o more
<1>1. more \in Seq(Message)
  BY AdditionsTyped, EmptySeq
<1>2. <<Startup>> \in Seq(Message) /\ Len(<<Startup>>) = 1 /\ <<Startup>>[1] = Startup
  BY StartupTyped
<1>3. Len(more) \in Nat
  BY <1>1, LenProperties
<1> HIDE DEF more
<1>4. told \in Seq(Message) /\ Len(told) = 1 + Len(more) /\ told[1] = Startup
  BY <1>1, <1>2, <1>3, ConcatProperties
<1>5. told # <<>> /\ Head(told) = Startup
  BY <1>3, <1>4, EmptySeq
<1> QED
  BY <1>4, <1>5 DEF more

(* The nodes the pool keeps, and one more: what both ways to create a worker do *)
Keeps(others, isDynamic) ==
    /\ others \in Seq(Worker) /\ Distinct(others) /\ Range(others) \subseteq Made
    /\ Cardinality(Range(others)) = Len(others)
    /\ Len(others) + 1 \in MinSize..MaxSize
    /\ Cardinality({v \in Range(others) : dynamic[v] = FALSE})
           = IF isDynamic THEN MinSize ELSE MinSize - 1

LEMMA CreateTypeInv ==
    ASSUME TypeInv, NEW others, NEW isDynamic \in BOOLEAN, Keeps(others, isDynamic),
           Created < MaxWorkers, Create(Created + 1, others, isDynamic)
    PROVE  TypeInv'
<1> DEFINE w == Created + 1
           told == <<Startup>> \o IF isDynamic THEN Additions ELSE <<>>
<1>1. /\ nodes' = Append(others, w) /\ dynamic' = [dynamic EXCEPT ![w] = isDynamic]
      /\ toWorker' = [toWorker EXCEPT ![w] = told]
      /\ UNCHANGED <<info, taskFunctions, strategies, pending, results, calls, functions,
                     default, fromWorker>>
  BY DEF Create, workerVars
<1>2. Created \in Nat /\ w \in Worker /\ w \notin Made /\ Made \union {w} = 1..w
  BY NextWorker DEF TypeInv
<1>3. told \in Seq(Message) /\ told # <<>>
  BY FirstMessages
<1>4. /\ dynamic \in [Worker -> BOOLEAN \union {None}] /\ None \notin BOOLEAN
      /\ MinSize \in Nat /\ MaxSize \in Nat
  BY TaskFunctionsAssumption DEF TypeInv, TypeOK
<1> HIDE DEF w, told
<1>5. w \notin Range(others)
  BY <1>2 DEF Keeps
<1>6. /\ nodes' \in Seq(Worker) /\ Distinct(nodes') /\ Len(nodes') = Len(others) + 1
      /\ Range(nodes') = Range(others) \union {w}
  BY <1>1, <1>2, <1>5, AppendedNode DEF Keeps
<1>7. dynamic' \in [Worker -> BOOLEAN \union {None}] /\ dynamic'[w] = isDynamic
      /\ \A v \in Worker : v # w => dynamic'[v] = dynamic[v]
  BY <1>1, <1>2, <1>4
<1>8. toWorker' \in [Worker -> Seq(Message)]
  BY <1>1, <1>2, <1>3 DEF TypeInv, PortsTyped
<1>9. TypeOK'
  <2>1. \A v \in Worker : Range(toWorker'[v]) \subseteq Message
    BY <1>8, RangeOfSeq
  <2>2. Len(nodes') \in MinSize..MaxSize
    BY <1>6 DEF Keeps
  <2> QED
    BY <1>1, <1>6, <1>7, <2>1, <2>2 DEF TypeInv, TypeOK
<1>10. PortsTyped' /\ CallsMade'
  BY <1>1, <1>8 DEF TypeInv, PortsTyped, CallsMade
<1>11. NodesInv'
  <2>1. Made' = Made \union {w}
    BY <1>2, <1>4, <1>7 DEF Made
  <2>2. Created' = w
    <3>1. Created' = Cardinality(Made')
      BY DEF Created, Made
    <3>2. w \in Nat /\ Cardinality(1..w) = w
      BY <1>2, FS_Interval DEF w
    <3> QED
      BY <1>2, <2>1, <3>1, <3>2
  <2>3. Members' \subseteq Made'
    BY <1>6, <2>1 DEF Members, Keeps
  <2>4. Cardinality(Members') = Len(nodes')
    <3>1. IsFiniteSet(Range(others))
      BY WorkersFinite DEF Keeps, Made
    <3> QED
      BY <1>5, <1>6, <3>1, FS_AddElement DEF Members, Keeps
  <2>5. Cardinality(Statics') = MinSize
    <3> DEFINE kept == {v \in Range(others) : dynamic[v] = FALSE}
    <3>1. IsFiniteSet(kept) /\ w \notin kept /\ Range(others) \subseteq Worker
      BY <1>5, WorkersFinite DEF Keeps, Made
    <3>2. Statics' = IF isDynamic THEN kept ELSE kept \union {w}
      BY <1>5, <1>6, <1>7, <3>1 DEF Statics, Members
    <3>3. Cardinality(kept) = IF isDynamic THEN MinSize ELSE MinSize - 1
      BY DEF Keeps
    <3> HIDE DEF kept
    <3>4. Cardinality(kept \union {w}) = Cardinality(kept) + 1
      BY <3>1, FS_AddElement
    <3> QED
      BY <1>4, <3>2, <3>3, <3>4
  <2>6. \A v \in Worker \ Made' : toWorker'[v] = <<>> /\ fromWorker'[v] = <<>>
    <3> SUFFICES ASSUME NEW v \in Worker \ Made'
                 PROVE  toWorker'[v] = <<>> /\ fromWorker'[v] = <<>>
      OBVIOUS
    <3>1. v # w /\ v \in Worker \ Made
      BY <2>1
    <3> QED
      BY <1>1, <3>1 DEF TypeInv, NodesInv, PortsTyped
  <2> QED
    BY <1>2, <1>6, <2>1, <2>2, <2>3, <2>4, <2>5, <2>6 DEF NodesInv, Distinct
<1> QED
  BY <1>9, <1>10, <1>11 DEF TypeInv

(* The workers of the pool are finitely many, the static ones among them *)
LEMMA NodesFinite ==
    ASSUME TypeInv
    PROVE  /\ nodes \in Seq(Worker) /\ Distinct(nodes) /\ Len(nodes) \in Nat
           /\ Members \subseteq Worker /\ IsFiniteSet(Members)
           /\ Statics \subseteq Members /\ IsFiniteSet(Statics)
<1>1. nodes \in Seq(Worker) /\ Distinct(nodes)
  BY DEF TypeInv, TypeOK, NodesInv, Distinct
<1>2. Members \subseteq Worker
  BY DEF TypeInv, NodesInv, Made
<1>3. Statics \subseteq Members
  BY DEF Statics
<1> QED
  BY <1>1, <1>2, <1>3, WorkersFinite, LenProperties

LEMMA DynamicWorkerTypeInv == TypeInv /\ CreateDynamicWorker => TypeInv'
<1> SUFFICES ASSUME TypeInv, CreateDynamicWorker PROVE TypeInv'
  OBVIOUS
<1>1. Len(nodes) < MaxSize /\ Len(nodes) \in MinSize..MaxSize /\ MinSize \in Nat /\ MaxSize \in Nat
  BY MinSizeTyped DEF CreateDynamicWorker, TypeInv, TypeOK
<1>2. Range(nodes) = Members /\ {v \in Range(nodes) : dynamic[v] = FALSE} = Statics
  BY DEF Members, Statics
<1>3. /\ Members \subseteq Made /\ Cardinality(Members) = Len(nodes)
      /\ Cardinality(Statics) = MinSize
  BY DEF TypeInv, NodesInv
<1>4. Len(nodes) + 1 \in MinSize..MaxSize
  BY <1>1
<1>5. Keeps(nodes, TRUE)
  <2>1. nodes \in Seq(Worker) /\ Distinct(nodes)
    BY NodesFinite
  <2> QED
    BY <1>2, <1>3, <1>4, <2>1, Zenon DEF Keeps
<1> QED
  BY <1>5, CreateTypeInv DEF CreateDynamicWorker

LEMMA ExitTypeInv == ASSUME TypeInv, NEW w \in Worker, WorkerExits(w) PROVE TypeInv'
<1>1. PICK k \in DOMAIN nodes :
          /\ nodes[k] = w /\ Created < MaxWorkers
          /\ \/ ~dynamic[w] /\ Create(Created + 1, RemoveAt(nodes, k), FALSE)
             \/ /\ dynamic[w]
                /\ nodes' = RemoveAt(nodes, k)
                /\ UNCHANGED <<dynamic, info, taskFunctions, strategies, pending, results,
                               calls, workerVars, toWorker, fromWorker>>
  BY DEF WorkerExits
<1> DEFINE others == RemoveAt(nodes, k)
<1>2. /\ others \in Seq(Worker) /\ Distinct(others) /\ Len(others) = Len(nodes) - 1
      /\ Range(others) = Members \ {w}
  BY <1>1, NodesFinite, RemovedNode DEF Members
<1> HIDE DEF others
<1>3. w \in Members
  BY <1>1 DEF Members, Range
<1>4. Cardinality(Range(others)) = Len(others) /\ Range(others) \subseteq Made
  BY <1>2, <1>3, NodesFinite, FS_RemoveElement DEF TypeInv, NodesInv
<1>5. /\ Cardinality(Statics) = MinSize /\ Cardinality(Members) = Len(nodes)
      /\ MinSize \in Nat /\ MaxSize \in Nat /\ Len(nodes) \in MinSize..MaxSize
  BY MinSizeTyped DEF TypeInv, NodesInv, TypeOK
<1>6. dynamic[w] \in BOOLEAN
  BY <1>3 DEF TypeInv, TypeOK, NodesInv, Made
<1>7. CASE ~dynamic[w]
  <2>1. Create(Created + 1, others, FALSE) /\ Created < MaxWorkers
    BY <1>1, <1>7 DEF others
  <2>2. {v \in Range(others) : dynamic[v] = FALSE} = Statics \ {w} /\ w \in Statics
    BY <1>2, <1>3, <1>6, <1>7 DEF Statics
  <2>3. Cardinality(Statics \ {w}) = MinSize - 1
    BY <1>5, <2>2, NodesFinite, FS_RemoveElement
  <2>4. Keeps(others, FALSE)
    <3>1. Len(others) + 1 \in MinSize..MaxSize
      BY <1>2, <1>5, NodesFinite
    <3>2. Cardinality({v \in Range(others) : dynamic[v] = FALSE}) = MinSize - 1
      BY <2>2, <2>3
    <3> QED
      BY <1>2, <1>4, <3>1, <3>2, Zenon DEF Keeps
  <2> QED
    BY <2>1, <2>4, CreateTypeInv
<1>8. CASE dynamic[w]
  <2>1. /\ nodes' = others
        /\ UNCHANGED <<dynamic, info, taskFunctions, strategies, pending, results,
                       calls, functions, default, toWorker, fromWorker>>
    BY <1>1, <1>6, <1>8 DEF others, workerVars
  <2>2. Members' = Members \ {w} /\ Statics' = Statics
    BY <1>2, <1>8, <2>1 DEF Members, Statics
  <2>3. MinSize <= Cardinality(Members')
    <3>1. Statics \subseteq Members \ {w}
      BY <1>8 DEF Statics
    <3>2. IsFiniteSet(Members \ {w})
      BY NodesFinite, FS_RemoveElement
    <3> QED
      BY <1>5, <2>2, <3>1, <3>2, FS_Subset
  <2>4. Len(nodes') \in MinSize..MaxSize /\ Cardinality(Members') = Len(nodes')
    BY <1>2, <1>4, <1>5, <2>1, <2>2, <2>3
  <2>5. TypeOK' /\ PortsTyped' /\ CallsMade'
    BY <1>2, <2>1, <2>4 DEF TypeInv, TypeOK, PortsTyped, CallsMade
  <2>6. Made' = Made /\ Created' = Created
    BY <2>1 DEF Made, Created
  <2>7. NodesInv'
    BY <1>2, <1>5, <2>1, <2>2, <2>4, <2>6 DEF TypeInv, NodesInv, Distinct
  <2> QED
    BY <2>5, <2>7 DEF TypeInv
<1> QED
  BY <1>6, <1>7, <1>8

(* A step that leaves the nodes keeps what is said of them, when only the *)
(* workers of the pool are sent messages and send some.                   *)
LEMMA NodesInvKept ==
    ASSUME TypeInv, UNCHANGED <<nodes, dynamic>>,
           \A w \in Worker \ Made : toWorker'[w] = toWorker[w] /\ fromWorker'[w] = fromWorker[w]
    PROVE  NodesInv' /\ Made' = Made /\ Members' = Members
<1>1. Made' = Made /\ Created' = Created /\ Members' = Members /\ Statics' = Statics
  BY DEF Made, Created, Members, Statics
<1>2. \A w \in Worker \ Made' : toWorker'[w] = <<>> /\ fromWorker'[w] = <<>>
  BY <1>1 DEF TypeInv, NodesInv
<1> QED
  BY <1>1, <1>2 DEF TypeInv, NodesInv

(* sendTaskFunctionOperationToWorkers, of any kind *)
LEMMA SendTypeInv ==
    ASSUME TypeInv, NEW kind \in {"add", "remove", "default"}, NEW name \in Name,
           NEW object \in Object, Send(kind, name, object)
    PROVE  TypeInv'
<1> DEFINE operation == [call |-> calls + 1, kind |-> kind, name |-> name, object |-> object,
                         targets |-> Members, answers |-> 0, ok |-> TRUE]
           message == [kind |-> kind, name |-> name, object |-> object]
<1>1. /\ calls < MaxCalls /\ calls' = calls + 1 /\ pending' = pending \union {operation}
      /\ toWorker' = [w \in Worker |-> IF w \in Members THEN Append(toWorker[w], message)
                                       ELSE toWorker[w]]
      /\ UNCHANGED <<nodes, dynamic, info, taskFunctions, strategies, results, functions,
                     default, fromWorker>>
  BY DEF Send, workerVars
<1>2. MaxCalls \in Nat /\ calls \in 0..MaxCalls
  BY MinSizeTyped DEF TypeInv, TypeOK
<1>3. operation \in Operation /\ operation.call = calls + 1
  BY <1>1, <1>2, NodesFinite DEF Operation
<1>4. message \in Message
  BY DEF Message
<1> HIDE DEF operation, message
<1>5. toWorker' \in [Worker -> Seq(Message)]
  <2>1. \A w \in Worker : Append(toWorker[w], message) \in Seq(Message)
    BY <1>4, AppendProperties DEF TypeInv, PortsTyped
  <2> QED
    BY <1>1, <2>1 DEF TypeInv, PortsTyped
<1>6. TypeOK'
  <2>1. \A w \in Worker : Range(toWorker'[w]) \subseteq Message
    BY <1>5, RangeOfSeq
  <2>2. pending' \subseteq Operation
    BY <1>1, <1>3 DEF TypeInv, TypeOK
  <2>3. calls' \in 0..MaxCalls
        /\ \A c \in DOMAIN results' : c \in 1..calls' /\ results'[c] \in BOOLEAN
    BY <1>1, <1>2 DEF TypeInv, TypeOK
  <2> QED
    BY <1>1, <2>1, <2>2, <2>3 DEF TypeInv, TypeOK
<1>7. CallsMade'
  <2>1. IsFiniteSet(pending')
    BY <1>1, FS_AddElement DEF TypeInv, CallsMade
  <2>2. \A o \in pending' : o.call <= calls'
    <3>1. \A o \in pending : o.call \in 1..MaxCalls /\ o.call <= calls
      BY DEF TypeInv, TypeOK, Operation, CallsMade
    <3> QED
      BY <1>1, <1>2, <1>3, <3>1
  <2> QED
    BY <1>1, <2>1, <2>2 DEF TypeInv, CallsMade
<1>8. NodesInv'
  <2>1. \A w \in Worker \ Made : toWorker'[w] = toWorker[w] /\ fromWorker'[w] = fromWorker[w]
    BY <1>1 DEF TypeInv, NodesInv
  <2> QED
    BY <1>1, <2>1, NodesInvKept
<1> QED
  BY <1>1, <1>5, <1>6, <1>7, <1>8 DEF TypeInv, PortsTyped

(* What the head of a port is, and what is left of it *)
LEMMA TakenMessage ==
    ASSUME NEW S, NEW port \in [Worker -> Seq(S)], NEW w \in Worker, port[w] # <<>>
    PROVE  /\ Head(port[w]) \in S /\ Tail(port[w]) \in Seq(S)
           /\ [port EXCEPT ![w] = Tail(@)] \in [Worker -> Seq(S)]
<1>1. port[w] \in Seq(S)
  OBVIOUS
<1>2. Head(port[w]) \in S /\ Tail(port[w]) \in Seq(S)
  BY <1>1, HeadTailProperties
<1> QED
  BY <1>2

Current(w) == [functions |-> functions[w], default |-> default[w]]

Told(listing) == [kind |-> "properties", listing |-> listing]

LEMMA CurrentTyped ==
    ASSUME NEW map \in ObjectMap, NEW object \in Object
    PROVE  /\ [functions |-> map, default |-> object] \in Listing
           /\ Told([functions |-> map, default |-> object]) \in Answer
  BY DEF Listing, Told, Answer

LEMMA StatusTyped == \A ok \in BOOLEAN : Status(ok) \in Answer
  BY DEF Status, Answer

(* The answer of worker w, reply, goes with its maps: it tells the list     *)
(* they make unless they are as they were.                                  *)
Tells(w, reply, listing) ==
    \/ reply = <<Told(listing)>>
    \/ \E ok \in BOOLEAN : reply = <<Told(listing), Status(ok)>>
    \/ listing = Current(w) /\ \E ok \in BOOLEAN : reply = <<Status(ok)>>

LEMMA TellsTyped ==
    ASSUME NEW w, NEW reply, NEW listing \in Listing, Tells(w, reply, listing)
    PROVE  reply \in Seq(Answer)
<1>1. Told(listing) \in Answer
  BY DEF Told, Answer
<1>2. reply = <<Told(listing)>> => reply \in Seq(Answer)
  BY <1>1
<1>3. ASSUME NEW ok \in BOOLEAN
      PROVE  <<Told(listing), Status(ok)>> \in Seq(Answer) /\ <<Status(ok)>> \in Seq(Answer)
  <2>1. Status(ok) \in Answer
    BY StatusTyped
  <2> QED
    BY <1>1, <2>1
<1> QED
  BY <1>2, <1>3 DEF Tells

(* One step of a worker: its maps become map and object, it sends reply *)
Step(w, map, object, reply) ==
    /\ map \in ObjectMap /\ object \in Object
    /\ functions' = [functions EXCEPT ![w] = map]
    /\ default' = [default EXCEPT ![w] = object]
    /\ fromWorker' = [fromWorker EXCEPT ![w] = @ \o reply]
    /\ Tells(w, reply, [functions |-> map, default |-> object])

LEMMA AnyStep ==
    ASSUME TypeInv, NEW w \in Worker, NEW message \in Message,
           \/ WorkerStarts(w)
           \/ WorkerAdds(w, message)
           \/ WorkerRemoves(w, message)
           \/ WorkerSetsDefault(w, message)
    PROVE  \E map, object, reply : Step(w, map, object, reply)
<1> DEFINE map == functions'[w]
           object == default'[w]
           listing == [functions |-> map, default |-> object]
<1>1. /\ functions \in [Worker -> ObjectMap] /\ default \in [Worker -> Object]
      /\ fromWorker \in [Worker -> Seq(Answer)]
  BY DEF TypeInv, TypeOK, PortsTyped
<1>2. functions[w] \in ObjectMap /\ default[w] \in Object /\ Properties(w) = Told(listing)
  BY <1>1 DEF Properties, Told, ListTaskFunctionsProperties
<1>3. message.name \in Name /\ message.object \in Object
  BY DEF Message
<1>4. message.name \in DOMAIN functions[w] => functions[w][message.name] \in Object
  BY <1>2, ObjectMapIs
<1>5. /\ map \in ObjectMap /\ object \in Object
      /\ functions' = [functions EXCEPT ![w] = map]
      /\ default' = [default EXCEPT ![w] = object]
  <2>1. CASE WorkerStarts(w)
    BY <1>1, <2>1 DEF WorkerStarts, workerVars
  <2>2. CASE WorkerAdds(w, message)
    <3>1. Put(functions[w], message.name, message.object) \in ObjectMap
      BY <1>2, <1>3, PutTyped
    <3> QED
      BY <1>1, <1>3, <2>2, <3>1 DEF WorkerAdds
  <2>3. CASE WorkerRemoves(w, message)
    <3>1. Drop(functions[w], message.name) \in ObjectMap
      BY <1>2, DropTyped
    <3> QED
      BY <1>1, <2>3, <3>1 DEF WorkerRemoves
  <2>4. CASE WorkerSetsDefault(w, message)
    BY <1>1, <1>4, <2>4 DEF WorkerSetsDefault
  <2> QED
    BY <2>1, <2>2, <2>3, <2>4
<1>6. \E reply : /\ fromWorker' = [fromWorker EXCEPT ![w] = @ \o reply]
                 /\ Tells(w, reply, listing)
  <2> DEFINE known == message.name \in DOMAIN functions[w]
  <2>0. known \in BOOLEAN
    OBVIOUS
  <2> HIDE DEF known
  <2>1. CASE WorkerStarts(w)
    <3>1. Append(fromWorker[w], Properties(w)) = fromWorker[w] \o <<Properties(w)>>
      BY <1>1, <1>2, <1>5, CurrentTyped, AppendIsConcat
    <3>2. fromWorker' = [fromWorker EXCEPT ![w] = @ \o <<Properties(w)>>]
      BY <2>1, <3>1 DEF WorkerStarts
    <3> QED
      BY <1>2, <3>2 DEF Tells
  <2>2. CASE WorkerAdds(w, message)
    <3>1. fromWorker' = [fromWorker EXCEPT ![w] = @ \o <<Properties(w), Status(TRUE)>>]
      BY <2>2 DEF WorkerAdds
    <3> QED
      BY <1>2, <3>1 DEF Tells
  <2>3. CASE WorkerRemoves(w, message)
    <3>1. CASE known /\ functions[w][message.name] = default[w]
      <4>1. functions' = functions /\ default' = default
            /\ fromWorker' = [fromWorker EXCEPT ![w] = @ \o <<Status(FALSE)>>]
        BY <2>3, <3>1 DEF WorkerRemoves, known
      <4> QED
        BY <4>1 DEF Tells, Current
    <3>2. CASE ~(known /\ functions[w][message.name] = default[w])
      <4>1. fromWorker' = [fromWorker EXCEPT ![w] = @ \o <<Properties(w), Status(known)>>]
        BY <2>3, <3>2 DEF WorkerRemoves, known
      <4> QED
        BY <1>2, <2>0, <4>1 DEF Tells
    <3> QED
      BY <3>1, <3>2
  <2>4. CASE WorkerSetsDefault(w, message)
    <3>1. CASE known
      <4>1. fromWorker' = [fromWorker EXCEPT ![w] = @ \o <<Properties(w), Status(TRUE)>>]
        BY <2>4, <3>1 DEF WorkerSetsDefault, known
      <4> QED
        BY <1>2, <4>1 DEF Tells
    <3>2. CASE ~known
      <4>1. functions' = functions /\ default' = default
            /\ fromWorker' = [fromWorker EXCEPT ![w] = @ \o <<Status(FALSE)>>]
        BY <2>4, <3>2 DEF WorkerSetsDefault, known
      <4> QED
        BY <4>1 DEF Tells, Current
    <3> QED
      BY <3>1, <3>2
  <2> QED
    BY <2>1, <2>2, <2>3, <2>4
<1> QED
  BY <1>5, <1>6 DEF Step

LEMMA WorkerStep ==
    ASSUME TypeInv, NEW w \in Worker, WorkerReceives(w)
    PROVE  \E map, object, reply : Step(w, map, object, reply)
<1>1. toWorker[w] # <<>> /\ Head(toWorker[w]) \in Message
  BY TakenMessage DEF WorkerReceives, TypeInv, PortsTyped
<1>2. \/ WorkerStarts(w)
      \/ WorkerAdds(w, Head(toWorker[w]))
      \/ WorkerRemoves(w, Head(toWorker[w]))
      \/ WorkerSetsDefault(w, Head(toWorker[w]))
  BY DEF WorkerReceives
<1> QED
  BY <1>1, <1>2, AnyStep

LEMMA WorkerTypeInv ==
    ASSUME TypeInv, NEW w \in Members, WorkerReceives(w) PROVE TypeInv'
<1>0. w \in Worker /\ w \in Made
  BY NodesFinite DEF TypeInv, NodesInv
<1>1. PICK map, object, reply : Step(w, map, object, reply)
  BY <1>0, WorkerStep
<1>2. toWorker[w] # <<>> /\ toWorker' = [toWorker EXCEPT ![w] = Tail(@)]
      /\ UNCHANGED <<nodes, dynamic, info, taskFunctions, strategies, pending, results, calls>>
  BY DEF WorkerReceives, poolVars
<1>3. toWorker' \in [Worker -> Seq(Message)]
  BY <1>0, <1>2, TakenMessage DEF TypeInv, PortsTyped
<1>4. functions' \in [Worker -> ObjectMap] /\ default' \in [Worker -> Object]
  BY <1>1 DEF Step, TypeInv, TypeOK
<1>5. fromWorker' \in [Worker -> Seq(Answer)]
  <2>1. reply \in Seq(Answer)
    BY <1>1, CurrentTyped, TellsTyped DEF Step
  <2>2. fromWorker[w] \o reply \in Seq(Answer)
    BY <1>0, <2>1, ConcatProperties DEF TypeInv, PortsTyped
  <2> QED
    BY <1>0, <1>1, <2>2 DEF Step, TypeInv, PortsTyped
<1>6. TypeOK'
  <2>1. \A v \in Worker : Range(toWorker'[v]) \subseteq Message
    BY <1>3, RangeOfSeq
  <2> QED
    BY <1>2, <1>4, <2>1 DEF TypeInv, TypeOK
<1>7. NodesInv'
  <2>1. \A v \in Worker \ Made : toWorker'[v] = toWorker[v] /\ fromWorker'[v] = fromWorker[v]
    BY <1>0, <1>1, <1>2 DEF Step, TypeInv, PortsTyped
  <2> QED
    BY <1>2, <2>1, NodesInvKept
<1> QED
  BY <1>2, <1>3, <1>5, <1>6, <1>7 DEF TypeInv, PortsTyped, CallsMade

(* What the pool hears leaves the values in their types *)
LEMMA AnsweredTyped ==
    ASSUME NEW o \in Operation, NEW w, NEW ok \in BOOLEAN
    PROVE  Answered(o, w, ok) \in Operation /\ Answered(o, w, ok).call = o.call
<1>1. o.answers + 1 \in Nat /\ (o.ok /\ ok) \in BOOLEAN
  BY DEF Operation
<1>2. CASE w \in o.targets
  <2>1. Answered(o, w, ok) = [o EXCEPT !.answers = o.answers + 1, !.ok = o.ok /\ ok]
    BY <1>2 DEF Answered
  <2> QED
    BY <1>1, <2>1 DEF Operation
<1>3. CASE w \notin o.targets
  BY <1>3 DEF Answered
<1> QED
  BY <1>2, <1>3

(* Of any calls, one was the last *)
LEMMA LastCall ==
    ASSUME NEW T, T \subseteq Operation, T # {}
    PROVE  \E o \in T : \A p \in T : p.call <= o.call
<1> DEFINE U == {n \in Nat : \A o \in T : o.call <= n}
           Less == {ss \in Nat \X Nat : ss[1] < ss[2]}
<1>1. MaxCalls \in Nat /\ \A o \in T : o.call \in 1..MaxCalls
  BY MinSizeTyped DEF Operation
<1>2. MaxCalls \in U
  BY <1>1
<1>3. IsWellFoundedOn(Less, Nat)
  <2>1. OpToRel(<, Nat) = Less
    BY DEF OpToRel
  <2> QED
    BY <2>1, NatLessThanWellFounded
<1>4. PICK n \in Nat : /\ \A o \in T : o.call <= n
                     /\ \A m \in U : ~(m < n)
  <2>1. \E n \in U : \A m \in U : ~(<<m, n>> \in Less)
    <3>1. U \subseteq Nat /\ U # {}
      BY <1>2
    <3> HIDE DEF U, Less
    <3> QED
      BY <1>3, <3>1, WFMin
  <2> QED
    BY <2>1
<1>5. PICK o \in T : ~(o.call <= n - 1)
  <2>1. CASE n = 0
    BY <1>1, <1>4, <2>1
  <2>2. CASE n # 0
    <3>1. n - 1 \in Nat /\ n - 1 < n
      BY <1>4, <2>2
    <3> QED
      BY <1>4, <3>1
  <2> QED
    BY <2>1, <2>2
<1>6. \A p \in T : p.call <= o.call
  <2> SUFFICES ASSUME NEW p \in T PROVE p.call <= o.call
    OBVIOUS
  <2>1. p.call \in Int /\ o.call \in Int /\ n \in Int /\ p.call <= n
    BY <1>1, <1>4
  <2> QED
    BY <1>5, <2>1
<1> QED
  BY <1>6

LEMMA ContinuedTyped ==
    ASSUME NEW map \in ObjectMap, IsFiniteSet(DOMAIN map), NEW resolved \in SUBSET Operation,
           IsFiniteSet(resolved)
    PROVE  Continued(map, resolved) \in ObjectMap /\ IsFiniteSet(DOMAIN Continued(map, resolved))
<1> DEFINE last(name) == CHOOSE o \in Changes(resolved, name) :
                             \A p \in Changes(resolved, name) : p.call <= o.call
           kept(name) == Changes(resolved, name) = {}
           names == {n \in Name : IF kept(n) THEN n \in DOMAIN map ELSE last(n).kind = "add"}
           new == Continued(map, resolved)
<1>1. DOMAIN new = names /\ new = [n \in DOMAIN new |-> new[n]]
      /\ \A n \in names : new[n] = IF kept(n) THEN map[n] ELSE last(n).object
  BY DEF Continued
<1>2. DOMAIN map \subseteq Name /\ \A n \in DOMAIN map : map[n] \in Object
  BY ObjectMapIs
<1>3. ASSUME NEW n, ~kept(n) PROVE last(n) \in resolved /\ last(n).name = n
  <2> DEFINE T == Changes(resolved, n)
  <2>1. T \subseteq Operation /\ T # {} /\ \A o \in T : o \in resolved /\ o.name = n
    BY <1>3 DEF Changes
  <2> HIDE DEF T
  <2>2. \E o \in T : \A p \in T : p.call <= o.call
    BY <2>1, LastCall
  <2>3. (CHOOSE o \in T : \A p \in T : p.call <= o.call) \in T
    BY <2>2
  <2> QED
    BY <2>1, <2>3 DEF T
<1>4. \A n \in names : new[n] \in Object
  <2> SUFFICES ASSUME NEW n \in names PROVE new[n] \in Object
    OBVIOUS
  <2>1. CASE kept(n)
    BY <1>1, <1>2, <2>1
  <2>2. CASE ~kept(n)
    <3>1. last(n) \in Operation
      BY <1>3, <2>2
    <3>2. last(n).object \in Object
      <4> HIDE DEF last
      <4> QED
        BY <3>1 DEF Operation
    <3> QED
      BY <1>1, <2>2, <3>2
  <2> QED
    BY <2>1, <2>2
<1>5. names \subseteq Name /\ names \subseteq DOMAIN map \union {o.name : o \in resolved}
  <2> SUFFICES ASSUME NEW n \in names, ~(n \in DOMAIN map)
               PROVE  n \in {o.name : o \in resolved}
    OBVIOUS
  <2>1. ~kept(n)
    OBVIOUS
  <2> QED
    BY <1>3, <2>1
<1>6. IsFiniteSet(names)
  <2> DEFINE T == {o.name : o \in resolved}
             f == [o \in resolved |-> o.name]
  <2>1. f \in Surjection(resolved, T)
    BY DEF Surjection
  <2> HIDE DEF f, T, names
  <2>2. IsFiniteSet(T)
    BY <2>1, FS_Surjection
  <2>3. IsFiniteSet(DOMAIN map \union T)
    BY <2>2, FS_Union
  <2> QED
    BY <1>5, <2>3, FS_Subset DEF T
<1> HIDE DEF new, names, last, kept
<1>7. new \in ObjectMap
  BY <1>1, <1>4, <1>5, ObjectMapIs
<1> QED
  BY <1>1, <1>6, <1>7 DEF new

(* The strategies of what the pool lists *)
LEMMA SynchronizedTyped ==
    ASSUME TypeInv, UNCHANGED info
    PROVE  Synchronized \subseteq Strategy \union {PoolStrategy, FileStrategy}
<1>1. \A l \in PoolListing : l \in Listing
  <2> SUFFICES ASSUME NEW l \in PoolListing PROVE l \in Listing
    OBVIOUS
  <2>1. PICK k \in DOMAIN nodes : l = info[nodes[k]]
    BY DEF PoolListing
  <2>2. nodes[k] \in Worker
    BY NodesFinite DEF Members, Range
  <2> QED
    BY <2>1, <2>2, FileObjectTyped DEF TypeInv, TypeOK
<1>2. ASSUME NEW l \in Listing, NEW o \in Range(l.functions) \union {l.default}
      PROVE  o.strategy \in Strategy \union {PoolStrategy, None, FileStrategy}
  <2>1. l.functions \in ObjectMap /\ l.default \in Object
    BY DEF Listing
  <2>2. \A n \in DOMAIN l.functions : l.functions[n] \in Object
    BY <2>1, ObjectMapIs
  <2>3. o \in Object
    BY <2>1, <2>2 DEF Range
  <2> QED
    BY <2>3 DEF Object
<1>3. ListedStrategies(PoolListing) \subseteq Strategy \union {PoolStrategy, FileStrategy}
  <2> SUFFICES ASSUME NEW s \in ListedStrategies(PoolListing)
               PROVE  s \in Strategy \union {PoolStrategy, FileStrategy}
    OBVIOUS
  <2>1. s # None
        /\ \E l \in PoolListing : \E o \in Range(l.functions) \union {l.default} : s = o.strategy
    BY DEF ListedStrategies
  <2> QED
    BY <1>1, <1>2, <2>1
<1> QED
  BY <1>3 DEF Synchronized

LEMMA HeardTyped ==
    ASSUME TypeInv, NEW w \in Worker, NEW ok \in BOOLEAN
    PROVE  LET heard == {Answered(o, w, ok) : o \in pending}
           IN  /\ heard \subseteq Operation /\ IsFiniteSet(heard)
               /\ \A p \in heard : p.call \in 1..calls
<1> DEFINE heard == {Answered(o, w, ok) : o \in pending}
           f == [o \in pending |-> Answered(o, w, ok)]
<1>1. pending \subseteq Operation /\ IsFiniteSet(pending) /\ calls \in Nat
      /\ \A o \in pending : o.call <= calls
  BY MinSizeTyped DEF TypeInv, TypeOK, CallsMade
<1>2. f \in Surjection(pending, heard)
  BY DEF Surjection
<1>3. IsFiniteSet(heard)
  <2> HIDE DEF f, heard
  <2> QED
    BY <1>1, <1>2, FS_Surjection
<1>4. \A o \in pending : Answered(o, w, ok) \in Operation /\ Answered(o, w, ok).call = o.call
  BY <1>1, AnsweredTyped
<1>5. \A o \in pending : o.call \in 1..calls
  BY <1>1 DEF Operation
<1> QED
  BY <1>3, <1>4, <1>5

LEMMA SettledTyped ==
    ASSUME TypeInv, UNCHANGED <<info, calls>>, NEW done, done \subseteq Operation,
           IsFiniteSet(done), \A o \in done : o.call \in 1..calls, Settled(done)
    PROVE  /\ taskFunctions' \in ObjectMap /\ IsFiniteSet(DOMAIN taskFunctions')
           /\ strategies' \subseteq Strategy \union {PoolStrategy, FileStrategy}
           /\ \A c \in DOMAIN results' : c \in 1..calls' /\ results'[c] \in BOOLEAN
<1> DEFINE resolved == {o \in done : o.ok}
<1>1. /\ taskFunctions' = Continued(taskFunctions, resolved)
      /\ strategies' = IF \E o \in resolved : o.kind # "default" THEN Synchronized
                       ELSE strategies
      /\ results' = [c \in DOMAIN results \union {o.call : o \in done} |->
                         IF c \in DOMAIN results THEN results[c]
                         ELSE \E o \in resolved : o.call = c]
  BY DEF Settled
<1>2. resolved \in SUBSET Operation /\ IsFiniteSet(resolved)
  <2>1. resolved \in SUBSET done
    OBVIOUS
  <2> HIDE DEF resolved
  <2> QED
    BY <2>1, FS_Subset
<1>3. taskFunctions \in ObjectMap /\ IsFiniteSet(DOMAIN taskFunctions)
      /\ strategies \subseteq Strategy \union {PoolStrategy, FileStrategy}
      /\ \A c \in DOMAIN results : c \in 1..calls /\ results[c] \in BOOLEAN
  BY DEF TypeInv, TypeOK, CallsMade
<1> HIDE DEF resolved
<1>4. taskFunctions' \in ObjectMap /\ IsFiniteSet(DOMAIN taskFunctions')
  BY <1>1, <1>2, <1>3, ContinuedTyped
<1>5. strategies' \subseteq Strategy \union {PoolStrategy, FileStrategy}
  BY <1>1, <1>3, SynchronizedTyped
<1>6. ASSUME NEW c \in DOMAIN results' PROVE c \in 1..calls' /\ results'[c] \in BOOLEAN
  BY <1>1, <1>3, <1>6
<1> QED
  BY <1>4, <1>5, <1>6

LEMMA PoolTypeInv ==
    ASSUME TypeInv, NEW w \in Members, PoolReceives(w) PROVE TypeInv'
<1> DEFINE message == Head(fromWorker[w])
           heard == {Answered(o, w, message.ok) : o \in pending}
<1>0. w \in Worker /\ w \in Made
  BY NodesFinite DEF TypeInv, NodesInv
<1>1. /\ fromWorker[w] # <<>> /\ fromWorker' = [fromWorker EXCEPT ![w] = Tail(@)]
      /\ UNCHANGED <<nodes, dynamic, calls, functions, default, toWorker>>
      /\ \/ message.kind = "properties" /\ PoolReceivesProperties(w, message)
         \/ message.kind = "status" /\ PoolReceivesStatus(w, message)
  BY DEF PoolReceives, workerVars
<1>2. message \in Answer /\ fromWorker' \in [Worker -> Seq(Answer)]
  BY <1>0, <1>1, TakenMessage DEF TypeInv, PortsTyped
<1> HIDE DEF message
<1>3. NodesInv'
  <2>1. \A v \in Worker \ Made : toWorker'[v] = toWorker[v] /\ fromWorker'[v] = fromWorker[v]
    BY <1>0, <1>1 DEF TypeInv, PortsTyped
  <2> QED
    BY <1>1, <2>1, NodesInvKept
<1>4. /\ info' \in [Worker -> Listing \union {Unlisted}]
      /\ taskFunctions' \in ObjectMap /\ IsFiniteSet(DOMAIN taskFunctions')
      /\ strategies' \subseteq Strategy \union {PoolStrategy, FileStrategy}
      /\ pending' \subseteq Operation /\ IsFiniteSet(pending')
      /\ \A o \in pending' : o.call <= calls'
      /\ \A c \in DOMAIN results' : c \in 1..calls' /\ results'[c] \in BOOLEAN
  <2>1. CASE message.kind = "properties" /\ PoolReceivesProperties(w, message)
    <3>1. message.listing \in Listing
      BY <1>2, <2>1 DEF Answer
    <3> QED
      BY <1>0, <1>1, <2>1, <3>1 DEF PoolReceivesProperties, TypeInv, TypeOK, CallsMade
  <2>2. CASE message.kind = "status" /\ PoolReceivesStatus(w, message)
    <3>1. message.ok \in BOOLEAN
      BY <1>2, <2>2 DEF Answer
    <3>2. heard \subseteq Operation /\ IsFiniteSet(heard) /\ \A p \in heard : p.call \in 1..calls
      BY <1>0, <3>1, HeardTyped
    <3>3. UNCHANGED info /\ Settled({o \in heard : Complete(o)})
          /\ pending' = {o \in heard : ~Complete(o)}
      BY <2>2 DEF PoolReceivesStatus
    <3> HIDE DEF heard
    <3> DEFINE done == {o \in heard : Complete(o)}
    <3>4. done \in SUBSET heard /\ pending' \in SUBSET heard
      BY <3>3
    <3>5. Settled(done)
      BY <3>3
    <3> HIDE DEF done
    <3>6. done \subseteq Operation /\ IsFiniteSet(done) /\ \A o \in done : o.call \in 1..calls
      BY <3>2, <3>4, FS_Subset
    <3>7. /\ taskFunctions' \in ObjectMap /\ IsFiniteSet(DOMAIN taskFunctions')
          /\ strategies' \subseteq Strategy \union {PoolStrategy, FileStrategy}
          /\ \A c \in DOMAIN results' : c \in 1..calls' /\ results'[c] \in BOOLEAN
      BY <1>1, <3>3, <3>5, <3>6, SettledTyped
    <3>8. pending' \subseteq Operation /\ IsFiniteSet(pending')
          /\ \A o \in pending' : o.call <= calls'
      BY <1>1, <3>2, <3>4, FS_Subset
    <3>9. info' \in [Worker -> Listing \union {Unlisted}]
      BY <3>3 DEF TypeInv, TypeOK
    <3> QED
      BY <3>7, <3>8, <3>9
  <2> QED
    BY <1>1, <2>1, <2>2
<1>5. TypeOK'
  BY <1>1, <1>4 DEF TypeInv, TypeOK
<1> QED
  BY <1>1, <1>2, <1>3, <1>4, <1>5 DEF TypeInv, PortsTyped, CallsMade

LEMMA InitTypeInv == Init => TypeInv
<1> SUFFICES ASSUME Init PROVE TypeInv
  OBVIOUS
<1>1. /\ MinSize \in Nat /\ MaxSize \in Nat /\ MaxWorkers \in Nat /\ MaxCalls \in Nat
      /\ MinSize <= MaxSize /\ MinSize <= MaxWorkers /\ None \notin BOOLEAN
  BY TaskFunctionsAssumption
<1>2. /\ nodes = [k \in 1..MinSize |-> k]
      /\ dynamic = [w \in Worker |-> IF w <= MinSize THEN FALSE ELSE None]
      /\ info = [w \in Worker |-> Unlisted]
      /\ taskFunctions = <<>> /\ strategies = {PoolStrategy}
      /\ pending = {} /\ results = <<>> /\ calls = 0
      /\ functions = [w \in Worker |-> [n \in {FileName} |-> FileObject]]
      /\ default = [w \in Worker |-> FileObject]
      /\ toWorker = [w \in Worker |-> IF w <= MinSize THEN <<Startup>> ELSE <<>>]
      /\ fromWorker = [w \in Worker |-> <<>>]
  BY DEF Init
<1>3. nodes \in Seq(Worker) /\ Len(nodes) = MinSize /\ DOMAIN nodes = 1..MinSize
  <2>1. nodes \in [1..MinSize -> Worker]
    BY <1>1, <1>2 DEF Worker
  <2>2. nodes \in Seq(Worker)
    BY <1>1, <2>1, SeqDef
  <2>3. DOMAIN nodes = 1..MinSize
    BY <1>2
  <2>4. Len(nodes) \in Nat /\ DOMAIN nodes = 1..Len(nodes)
    BY <2>2, LenProperties
  <2>5. Len(nodes) = MinSize
    BY <1>1, <2>3, <2>4
  <2> QED
    BY <2>2, <2>3, <2>5
<1>4. functions \in [Worker -> ObjectMap] /\ default \in [Worker -> Object]
      /\ info \in [Worker -> Listing \union {Unlisted}] /\ taskFunctions \in ObjectMap
  <2>1. [n \in {FileName} |-> FileObject] \in ObjectMap
    BY FileObjectTyped, ObjectMapIs
  <2> QED
    BY <1>2, <2>1, FileObjectTyped, EmptyTyped
<1>5. PortsTyped
  <2>1. <<Startup>> \in Seq(Message) /\ <<>> \in Seq(Message)
    BY StartupTyped
  <2> QED
    BY <1>2, <2>1 DEF PortsTyped
<1>6. CallsMade
  BY <1>2, FS_EmptySet, EmptyTyped DEF CallsMade
<1>7. TypeOK
  <2>1. \A w \in Worker : Range(toWorker[w]) \subseteq Message
    BY <1>5, RangeOfSeq DEF PortsTyped
  <2>2. DOMAIN results = {}
    BY <1>2, EmptyTyped
  <2>3. Len(nodes) \in MinSize..MaxSize /\ calls \in 0..MaxCalls
    BY <1>1, <1>2, <1>3
  <2>4. dynamic \in [Worker -> BOOLEAN \union {None}]
    BY <1>2
  <2> QED
    BY <1>2, <1>3, <1>4, <2>1, <2>2, <2>3, <2>4 DEF TypeOK
<1>8. NodesInv
  <2>1. Members = 1..MinSize
    BY <1>2, <1>3 DEF Members, Range
  <2>2. Made = 1..MinSize
    <3>1. FALSE # None
      BY <1>1, Zenon
    <3>2. \A w \in Worker : dynamic[w] # None <=> w <= MinSize
      BY <1>2, <3>1, Zenon
    <3>3. 1..MinSize = {w \in Worker : w <= MinSize}
      BY <1>1 DEF Worker
    <3> QED
      BY <3>2, <3>3 DEF Made
  <2>3. Statics = 1..MinSize
    <3>1. \A w \in 1..MinSize : w \in Worker /\ w <= MinSize
      BY <1>1 DEF Worker
    <3>2. \A w \in 1..MinSize : dynamic[w] = FALSE
      BY <1>2, <3>1, Zenon
    <3> QED
      BY <2>1, <3>2 DEF Statics
  <2>4. Cardinality(1..MinSize) = MinSize
    BY <1>1, MinSizeTyped, FS_Interval
  <2>5. Created = MinSize
    BY <2>2, <2>4 DEF Created, Made
  <2>6. \A w \in Worker \ Made : toWorker[w] = <<>> /\ fromWorker[w] = <<>>
    BY <1>1, <1>2, <2>2 DEF Worker
  <2>7. \A i, j \in DOMAIN nodes : nodes[i] = nodes[j] => i = j
    BY <1>2
  <2> QED
    BY <1>3, <2>1, <2>2, <2>3, <2>4, <2>5, <2>6, <2>7 DEF NodesInv
<1> QED
  BY <1>5, <1>6, <1>7, <1>8 DEF TypeInv

LEMMA NextTypeInv == TypeInv /\ [Next]_vars => TypeInv'
<1> SUFFICES ASSUME TypeInv, [Next]_vars PROVE TypeInv'
  OBVIOUS
<1>1. ASSUME NEW name \in Name, NEW strategy \in Strategy \union {None},
             AddTaskFunction(name, strategy)
      PROVE  TypeInv'
  <2> DEFINE object == [call |-> calls + 1, strategy |-> strategy]
  <2>1. Send("add", name, object)
    BY <1>1 DEF AddTaskFunction
  <2>2. object \in Object
    BY <2>1, MinSizeTyped DEF Send, Object, TypeInv, TypeOK
  <2> HIDE DEF object
  <2> QED
    BY <2>1, <2>2, SendTypeInv
<1>2. ASSUME NEW name \in Name, RemoveTaskFunction(name) \/ SetDefaultTaskFunction(name)
      PROVE  TypeInv'
  BY <1>2, SendTypeInv, FileObjectTyped DEF RemoveTaskFunction, SetDefaultTaskFunction
<1>3. CASE CreateDynamicWorker
  BY <1>3, DynamicWorkerTypeInv
<1>4. ASSUME NEW w \in Worker, WorkerExits(w) PROVE TypeInv'
  BY <1>4, ExitTypeInv
<1>5. ASSUME NEW w \in Worker, w \in Members, WorkerReceives(w) \/ PoolReceives(w)
      PROVE  TypeInv'
  BY <1>5, WorkerTypeInv, PoolTypeInv
<1>6. CASE UNCHANGED vars
  BY <1>6 DEF vars, poolVars, workerVars, TypeInv, TypeOK, PortsTyped, CallsMade, NodesInv,
              Members, Made, Created, Statics
<1> QED
  BY <1>1, <1>2, <1>3, <1>4, <1>5, <1>6 DEF Next

LEMMA TypeInvariance == Spec => []TypeInv
  BY InitTypeInv, NextTypeInv, PTL DEF Spec

-----------------------------------------------------------------------------
(* The lists *)

IsStatus(message) == message.kind = "status"

(* The last list on the port, or the one the pool has when there is none *)
Latest(known, port, listing) ==
    \/ known = listing /\ \A j \in DOMAIN port : IsStatus(port[j])
    \/ \E i \in DOMAIN port : /\ port[i] = Told(listing)
                              /\ \A j \in DOMAIN port : j > i => IsStatus(port[j])

(* A worker that has not started has told nothing, and will tell its list   *)
(* when it starts: before it answers anything else.                         *)
Starting(w) == /\ toWorker[w] # <<>> /\ Head(toWorker[w]).kind = "startup"
               /\ fromWorker[w] = <<>>

(* The last list of a worker is the one of its maps *)
ListsFollow == \A w \in Made : Starting(w) \/ Latest(info[w], fromWorker[w], Current(w))

LEMMA PortElements ==
    ASSUME NEW port \in Seq(Answer)
    PROVE  /\ Len(port) \in Nat /\ DOMAIN port = 1..Len(port)
           /\ \A i \in 1..Len(port) : port[i] \in Answer
  BY LenProperties, ElementOfSeq

(* A port with a reply of n messages behind it *)
Behind(longer, port, reply, n) ==
    /\ longer \in Seq(Answer) /\ Len(longer) = Len(port) + n
    /\ \A i \in 1..Len(port) : longer[i] = port[i]
    /\ \A k \in 1..n : longer[Len(port) + k] = reply[k]

LEMMA Longer ==
    ASSUME NEW port \in Seq(Answer), NEW reply \in Seq(Answer), NEW n \in Nat, Len(reply) = n
    PROVE  Behind(port \o reply, port, reply, n)
<1> DEFINE longer == port \o reply
           size == Len(port)
<1>1. /\ longer \in Seq(Answer) /\ Len(longer) = size + Len(reply)
      /\ \A i \in 1..(size + Len(reply)) :
             longer[i] = IF i <= size THEN port[i] ELSE reply[i - size]
  BY ConcatProperties
<1>2. size \in Nat
  BY PortElements
<1>0. /\ longer \in Seq(Answer) /\ Len(longer) = size + n
      /\ \A i \in 1..(size + n) :
             longer[i] = IF i <= size THEN port[i] ELSE reply[i - size]
  BY <1>1
<1> HIDE DEF longer, size
<1>3. \A i \in 1..size : longer[i] = port[i]
  BY <1>0, <1>2
<1>4. ASSUME NEW k \in 1..n PROVE longer[size + k] = reply[k]
  <2>1. size + k \in 1..(size + n) /\ ~(size + k <= size) /\ size + k - size = k
    BY <1>2
  <2> QED
    BY <1>0, <1>2, <2>1
<1> QED
  BY <1>0, <1>3, <1>4 DEF longer, size, Behind

LEMMA LatestToldAlone ==
    ASSUME NEW known, NEW port \in Seq(Answer), NEW listing \in Listing
    PROVE  Latest(known, port \o <<Told(listing)>>, listing)
<1> DEFINE reply == <<Told(listing)>>
           longer == port \o reply
<1>1. Told(listing) \in Answer
  BY DEF Told, Answer
<1>2. reply \in Seq(Answer) /\ Len(reply) = 1 /\ reply[1] = Told(listing)
  BY <1>1
<1> HIDE DEF reply
<1>3. longer \in Seq(Answer) /\ Len(longer) = Len(port) + 1 /\ longer[Len(port) + 1] = Told(listing)
  <2>1. Behind(longer, port, reply, 1)
    <3>1. 1 \in Nat
      OBVIOUS
    <3> QED
      BY <1>2, <3>1, Longer
  <2>2. longer \in Seq(Answer) /\ Len(longer) = Len(port) + 1
        /\ \A i \in 1..Len(port) : longer[i] = port[i]
        /\ \A k \in 1..1 : longer[Len(port) + k] = reply[k]
    BY <2>1, Zenon DEF Behind
  <2>3. 1 \in 1..1 /\ 1 \in 1..1
    OBVIOUS
  <2> QED
    BY <1>2, <2>1, <2>2, <2>3
<1> HIDE DEF longer
<1>4. DOMAIN longer = 1..(Len(port) + 1) /\ Len(port) \in Nat
  BY <1>3, PortElements
<1>5. Latest(known, longer, listing)
  BY <1>3, <1>4 DEF Latest
<1> QED
  BY <1>5 DEF longer, reply

LEMMA LatestTold ==
    ASSUME NEW known, NEW port \in Seq(Answer), NEW listing \in Listing, NEW ok \in BOOLEAN
    PROVE  Latest(known, port \o <<Told(listing), Status(ok)>>, listing)
<1> DEFINE reply == <<Told(listing), Status(ok)>>
           longer == port \o reply
<1>1. Told(listing) \in Answer /\ Status(ok) \in Answer /\ IsStatus(Status(ok))
  BY StatusTyped DEF Told, Answer, Status, IsStatus
<1>2. /\ reply \in Seq(Answer) /\ Len(reply) = 2
      /\ reply[1] = Told(listing) /\ reply[2] = Status(ok)
  BY <1>1
<1> HIDE DEF reply
<1>3. /\ longer \in Seq(Answer) /\ Len(longer) = Len(port) + 2
      /\ longer[Len(port) + 1] = Told(listing) /\ longer[Len(port) + 2] = Status(ok)
  <2>1. Behind(longer, port, reply, 2)
    <3>1. 2 \in Nat
      OBVIOUS
    <3> QED
      BY <1>2, <3>1, Longer
  <2>2. longer \in Seq(Answer) /\ Len(longer) = Len(port) + 2
        /\ \A i \in 1..Len(port) : longer[i] = port[i]
        /\ \A k \in 1..2 : longer[Len(port) + k] = reply[k]
    BY <2>1, Zenon DEF Behind
  <2>3. 1 \in 1..2 /\ 2 \in 1..2
    OBVIOUS
  <2> QED
    BY <1>2, <2>1, <2>2, <2>3
<1> HIDE DEF longer
<1>4. DOMAIN longer = 1..(Len(port) + 2) /\ Len(port) \in Nat
  BY <1>3, PortElements
<1>5. \A j \in DOMAIN longer : j > Len(port) + 1 => IsStatus(longer[j])
  BY <1>1, <1>3, <1>4
<1>6. Latest(known, longer, listing)
  BY <1>3, <1>4, <1>5 DEF Latest
<1> QED
  BY <1>6 DEF longer, reply

LEMMA LatestStatus ==
    ASSUME NEW known, NEW port \in Seq(Answer), NEW listing, Latest(known, port, listing),
           NEW ok \in BOOLEAN
    PROVE  Latest(known, port \o <<Status(ok)>>, listing)
<1> DEFINE reply == <<Status(ok)>>
           longer == port \o reply
<1>1. Status(ok) \in Answer /\ IsStatus(Status(ok))
  BY StatusTyped DEF Status, IsStatus
<1>2. reply \in Seq(Answer) /\ Len(reply) = 1 /\ reply[1] = Status(ok)
  BY <1>1
<1> HIDE DEF reply
<1>3. /\ longer \in Seq(Answer) /\ Len(longer) = Len(port) + 1
      /\ \A i \in 1..Len(port) : longer[i] = port[i]
      /\ longer[Len(port) + 1] = Status(ok)
  <2>1. Behind(longer, port, reply, 1)
    <3>1. 1 \in Nat
      OBVIOUS
    <3> QED
      BY <1>2, <3>1, Longer
  <2>2. longer \in Seq(Answer) /\ Len(longer) = Len(port) + 1
        /\ \A i \in 1..Len(port) : longer[i] = port[i]
        /\ \A k \in 1..1 : longer[Len(port) + k] = reply[k]
    BY <2>1, Zenon DEF Behind
  <2>3. 1 \in 1..1 /\ 1 \in 1..1
    OBVIOUS
  <2> QED
    BY <1>2, <2>1, <2>2, <2>3
<1> HIDE DEF longer
<1>4. DOMAIN longer = 1..(Len(port) + 1) /\ DOMAIN port = 1..Len(port) /\ Len(port) \in Nat
  BY <1>3, PortElements
<1>5. CASE known = listing /\ \A j \in DOMAIN port : IsStatus(port[j])
  <2>1. \A j \in DOMAIN longer : IsStatus(longer[j])
    BY <1>1, <1>3, <1>4, <1>5
  <2> QED
    BY <1>5, <2>1 DEF Latest, longer, reply
<1>6. CASE \E i \in DOMAIN port : /\ port[i] = Told(listing)
                                  /\ \A j \in DOMAIN port : j > i => IsStatus(port[j])
  <2>1. PICK i \in DOMAIN port : /\ port[i] = Told(listing)
                                 /\ \A j \in DOMAIN port : j > i => IsStatus(port[j])
    BY <1>6
  <2>2. i \in DOMAIN longer /\ longer[i] = Told(listing)
    BY <1>3, <1>4, <2>1
  <2>3. \A j \in DOMAIN longer : j > i => IsStatus(longer[j])
    BY <1>1, <1>3, <1>4, <2>1
  <2> QED
    BY <2>2, <2>3 DEF Latest, longer, reply
<1> QED
  BY <1>5, <1>6 DEF Latest

(* What the pool takes from the port it has then heard *)
LEMMA LatestTaken ==
    ASSUME NEW known, NEW port \in Seq(Answer), NEW listing, Latest(known, port, listing),
           port # <<>>
    PROVE  Latest(IF IsStatus(Head(port)) THEN known ELSE Head(port).listing,
                  Tail(port), listing)
<1> DEFINE rest == Tail(port)
           heard == IF IsStatus(Head(port)) THEN known ELSE Head(port).listing
<1>1. /\ rest \in Seq(Answer) /\ Len(rest) = Len(port) - 1
      /\ \A i \in 1..Len(rest) : rest[i] = port[i + 1]
      /\ Head(port) = port[1]
  BY HeadTailProperties
<1> HIDE DEF rest
<1>2. /\ Len(port) \in Nat /\ Len(port) > 0 /\ DOMAIN port = 1..Len(port)
      /\ DOMAIN rest = 1..(Len(port) - 1)
  BY <1>1, PortElements, EmptySeq
<1>3. \A j \in DOMAIN rest : rest[j] = port[j + 1] /\ j + 1 \in DOMAIN port
  BY <1>1, <1>2
<1>4. CASE known = listing /\ \A j \in DOMAIN port : IsStatus(port[j])
  <2>1. heard = listing /\ \A j \in DOMAIN rest : IsStatus(rest[j])
    BY <1>1, <1>2, <1>3, <1>4
  <2> QED
    BY <2>1 DEF Latest, rest
<1>5. CASE \E i \in DOMAIN port : /\ port[i] = Told(listing)
                                  /\ \A j \in DOMAIN port : j > i => IsStatus(port[j])
  <2>1. PICK i \in DOMAIN port : /\ port[i] = Told(listing)
                                 /\ \A j \in DOMAIN port : j > i => IsStatus(port[j])
    BY <1>5
  <2>2. CASE i = 1
    <3>1. heard = listing
      BY <1>1, <2>1, <2>2 DEF IsStatus, Told
    <3>2. \A j \in DOMAIN rest : IsStatus(rest[j])
      BY <1>2, <1>3, <2>1, <2>2
    <3> QED
      BY <3>1, <3>2 DEF Latest, rest
  <2>3. CASE i # 1
    <3>1. i - 1 \in DOMAIN rest /\ rest[i - 1] = Told(listing)
      BY <1>2, <1>3, <2>1, <2>3
    <3>2. \A j \in DOMAIN rest : j > i - 1 => IsStatus(rest[j])
      BY <1>2, <1>3, <2>1
    <3> QED
      BY <3>1, <3>2 DEF Latest, rest
  <2> QED
    BY <2>2, <2>3
<1> QED
  BY <1>4, <1>5 DEF Latest

(* The worker that answers tells the list of its maps *)
LEMMA WorkerListsFollow ==
    ASSUME TypeInv, ListsFollow, NEW w \in Members, WorkerReceives(w)
    PROVE  ListsFollow'
<1>0. w \in Worker /\ w \in Made
  BY NodesFinite DEF TypeInv, NodesInv
<1>1. PICK map, object, reply : Step(w, map, object, reply)
  BY <1>0, WorkerStep
<1>2. toWorker[w] # <<>> /\ toWorker' = [toWorker EXCEPT ![w] = Tail(@)]
      /\ UNCHANGED <<nodes, dynamic, info>>
  BY DEF WorkerReceives, poolVars
<1>3. /\ functions \in [Worker -> ObjectMap] /\ default \in [Worker -> Object]
      /\ toWorker \in [Worker -> Seq(Message)] /\ fromWorker \in [Worker -> Seq(Answer)]
  BY DEF TypeInv, TypeOK, PortsTyped
<1> DEFINE listing == [functions |-> map, default |-> object]
<1>4. /\ functions' = [functions EXCEPT ![w] = map] /\ default' = [default EXCEPT ![w] = object]
      /\ fromWorker' = [fromWorker EXCEPT ![w] = @ \o reply]
      /\ Tells(w, reply, listing) /\ listing \in Listing
  BY <1>1, CurrentTyped DEF Step
<1>5. Current(w)' = listing
  BY <1>0, <1>3, <1>4 DEF Current
<1>6. \A v \in Worker : v # w => /\ Current(v)' = Current(v) /\ Starting(v)' = Starting(v)
                                 /\ info'[v] = info[v] /\ fromWorker'[v] = fromWorker[v]
  BY <1>2, <1>3, <1>4 DEF Current, Starting
<1>7. Latest(info[w], fromWorker'[w], listing)
  <2>1. CASE Starting(w)
    <3>1. WorkerStarts(w)
      BY <2>1 DEF Starting, WorkerReceives
    <3>2. Properties(w) = Told(listing)
      BY <1>5 DEF Properties, Told, ListTaskFunctionsProperties, Current
    <3>3. fromWorker'[w] = fromWorker[w] \o <<Told(listing)>>
      <4>1. Told(listing) \in Answer
        BY <1>4 DEF Told, Answer
      <4>2. fromWorker'[w] = Append(fromWorker[w], Told(listing))
        BY <1>0, <1>3, <3>1, <3>2 DEF WorkerStarts
      <4> HIDE DEF listing
      <4> QED
        BY <1>0, <1>3, <4>1, <4>2, AppendIsConcat
    <3> HIDE DEF listing
    <3> QED
      BY <1>0, <1>3, <1>4, <3>3, LatestToldAlone
  <2>2. CASE ~Starting(w)
    <3>1. Latest(info[w], fromWorker[w], Current(w))
      BY <1>0, <2>2 DEF ListsFollow
    <3>2. fromWorker'[w] = fromWorker[w] \o reply /\ fromWorker[w] \in Seq(Answer)
      BY <1>0, <1>3, <1>4
    <3> HIDE DEF listing
    <3> QED
      BY <1>4, <3>1, <3>2, LatestToldAlone, LatestTold, LatestStatus DEF Tells
  <2> QED
    BY <2>1, <2>2
<1>8. Made' = Made
  BY <1>2 DEF Made
<1> HIDE DEF listing
<1>9. ASSUME NEW v \in Made PROVE Starting(v)' \/ Latest(info'[v], fromWorker'[v], Current(v)')
  <2>1. CASE v = w
    BY <1>2, <1>5, <1>7, <2>1
  <2>2. CASE v # w
    <3>1. v \in Worker /\ (Starting(v) \/ Latest(info[v], fromWorker[v], Current(v)))
      BY DEF Made, ListsFollow
    <3> QED
      BY <1>6, <2>2, <3>1
  <2> QED
    BY <2>1, <2>2
<1> QED
  BY <1>8, <1>9 DEF ListsFollow

(* The pool hears the first message of a worker *)
LEMMA PoolListsFollow ==
    ASSUME TypeInv, ListsFollow, NEW w \in Members, PoolReceives(w)
    PROVE  ListsFollow'
<1> DEFINE message == Head(fromWorker[w])
           heard == IF IsStatus(message) THEN info[w] ELSE message.listing
<1>0. w \in Worker /\ w \in Made
  BY NodesFinite DEF TypeInv, NodesInv
<1>1. /\ fromWorker[w] # <<>> /\ fromWorker' = [fromWorker EXCEPT ![w] = Tail(@)]
      /\ UNCHANGED <<nodes, dynamic, functions, default, toWorker>>
      /\ \/ message.kind = "properties" /\ PoolReceivesProperties(w, message)
         \/ message.kind = "status" /\ PoolReceivesStatus(w, message)
  BY DEF PoolReceives, workerVars
<1>2. fromWorker \in [Worker -> Seq(Answer)] /\ info \in [Worker -> Listing \union {Unlisted}]
  BY DEF TypeInv, TypeOK, PortsTyped
<1>3. info' = [info EXCEPT ![w] = heard]
  BY <1>0, <1>1, <1>2 DEF PoolReceivesProperties, PoolReceivesStatus, IsStatus
<1>4. Latest(heard, Tail(fromWorker[w]), Current(w))
  <2>1. Latest(info[w], fromWorker[w], Current(w))
    BY <1>0, <1>1 DEF ListsFollow, Starting
  <2> QED
    BY <1>0, <1>1, <1>2, <2>1, LatestTaken
<1> HIDE DEF heard, message
<1>5. Made' = Made /\ \A v : Current(v)' = Current(v)
  BY <1>1 DEF Made, Current
<1>6. ASSUME NEW v \in Made PROVE Starting(v)' \/ Latest(info'[v], fromWorker'[v], Current(v))
  <2>1. CASE v = w
    BY <1>0, <1>1, <1>2, <1>3, <1>4, <2>1
  <2>2. CASE v # w
    <3>1. v \in Worker /\ (Starting(v) \/ Latest(info[v], fromWorker[v], Current(v)))
      BY DEF Made, ListsFollow
    <3>2. info'[v] = info[v] /\ fromWorker'[v] = fromWorker[v] /\ Starting(v)' = Starting(v)
      BY <1>1, <1>2, <1>3, <2>2, <3>1 DEF Starting
    <3> QED
      BY <3>1, <3>2
  <2> QED
    BY <2>1, <2>2
<1> QED
  BY <1>5, <1>6 DEF ListsFollow

(* A step that changes nothing a worker told keeps its list, when no worker *)
(* is made but some that has not started                                    *)
LEMMA OthersListsFollow ==
    ASSUME ListsFollow, UNCHANGED <<info, functions, default, fromWorker>>,
           \A w \in Made' : w \in Made \/ Starting(w)',
           \A w \in Made : Starting(w) => Starting(w)'
    PROVE  ListsFollow'
<1> SUFFICES ASSUME NEW w \in Made'
             PROVE  Starting(w)' \/ Latest(info'[w], fromWorker'[w], Current(w)')
  BY DEF ListsFollow
<1>1. Current(w)' = Current(w)
  BY DEF Current
<1> QED
  BY <1>1 DEF ListsFollow

LEMMA SendListsFollow ==
    ASSUME TypeInv, ListsFollow, NEW kind, NEW name, NEW object, Send(kind, name, object)
    PROVE  ListsFollow'
<1> DEFINE message == [kind |-> kind, name |-> name, object |-> object]
<1>1. /\ toWorker' = [w \in Worker |-> IF w \in Members THEN Append(toWorker[w], message)
                                       ELSE toWorker[w]]
      /\ UNCHANGED <<nodes, dynamic, info, functions, default, fromWorker>>
  BY DEF Send, workerVars
<1> HIDE DEF message
<1>2. Made' = Made /\ Made \subseteq Worker
  BY <1>1 DEF Made
<1>3. ASSUME NEW w \in Made, Starting(w) PROVE Starting(w)'
  <2>1. toWorker[w] \in Seq(Message) /\ toWorker[w] # <<>> /\ w \in Worker
    BY <1>2, <1>3 DEF TypeInv, PortsTyped, Starting
  <2>2. Append(toWorker[w], message) # <<>>
        /\ Head(Append(toWorker[w], message)) = Head(toWorker[w])
    BY <2>1, HeadTailAppend
  <2>3. toWorker'[w] # <<>> /\ Head(toWorker'[w]) = Head(toWorker[w])
    BY <1>1, <2>1, <2>2
  <2> QED
    BY <1>1, <1>3, <2>3 DEF Starting
<1> QED
  BY <1>1, <1>2, <1>3, OthersListsFollow

LEMMA CreateListsFollow ==
    ASSUME TypeInv, ListsFollow, NEW others, NEW isDynamic \in BOOLEAN,
           Created < MaxWorkers, Create(Created + 1, others, isDynamic)
    PROVE  ListsFollow'
<1>0. PICK w : w = Created + 1
  OBVIOUS
<1> DEFINE told == <<Startup>> \o IF isDynamic THEN Additions ELSE <<>>
<1>1. /\ dynamic' = [dynamic EXCEPT ![w] = isDynamic]
      /\ toWorker' = [toWorker EXCEPT ![w] = told]
      /\ UNCHANGED <<info, functions, default, fromWorker>>
  BY <1>0 DEF Create, workerVars
<1>2. w \in Worker /\ w \notin Made
  BY <1>0, NextWorker DEF TypeInv
<1>3. told # <<>> /\ Head(told) = Startup
  BY FirstMessages
<1> HIDE DEF told
<1>4. /\ toWorker \in [Worker -> Seq(Message)]
      /\ dynamic \in [Worker -> BOOLEAN \union {None}]
  BY DEF TypeInv, TypeOK, PortsTyped
<1>5. toWorker'[w] = told /\ \A v \in Worker : v # w => toWorker'[v] = toWorker[v]
  BY <1>1, <1>2, <1>4
<1>6. Starting(w)'
  <2>1. fromWorker'[w] = <<>>
    BY <1>1, <1>2 DEF TypeInv, NodesInv
  <2> QED
    BY <1>3, <1>5, <2>1 DEF Starting, Startup
<1>7. \A v \in Made' : v \in Made \/ v = w
  BY <1>1, <1>2, <1>4 DEF Made
<1>8. \A v \in Made : Starting(v) => Starting(v)'
  BY <1>1, <1>2, <1>5 DEF Starting, Made
<1> QED
  BY <1>1, <1>6, <1>7, <1>8, OthersListsFollow

LEMMA InitListsFollow == Init => ListsFollow
<1> SUFFICES ASSUME Init, NEW w \in Made PROVE Starting(w)
  BY DEF ListsFollow
<1>1. w \in Worker /\ w <= MinSize
  BY DEF Init, Made
<1>2. toWorker[w] = <<Startup>> /\ fromWorker[w] = <<>>
  BY <1>1 DEF Init
<1> QED
  BY <1>2 DEF Starting, Startup

LEMMA NextListsFollow == TypeInv /\ ListsFollow /\ [Next]_vars => ListsFollow'
<1> SUFFICES ASSUME TypeInv, ListsFollow, [Next]_vars PROVE ListsFollow'
  OBVIOUS
<1>1. ASSUME NEW name \in Name, NEW strategy \in Strategy \union {None},
             AddTaskFunction(name, strategy)
      PROVE  ListsFollow'
  BY <1>1, SendListsFollow DEF AddTaskFunction
<1>2. ASSUME NEW name \in Name, RemoveTaskFunction(name) \/ SetDefaultTaskFunction(name)
      PROVE  ListsFollow'
  BY <1>2, SendListsFollow DEF RemoveTaskFunction, SetDefaultTaskFunction
<1>3. CASE CreateDynamicWorker
  BY <1>3, CreateListsFollow DEF CreateDynamicWorker
<1>4. ASSUME UNCHANGED <<dynamic, info, functions, default, toWorker, fromWorker>>
      PROVE  ListsFollow'
  BY <1>4, OthersListsFollow DEF Made, Starting
<1>5. ASSUME NEW w \in Worker, WorkerExits(w) PROVE ListsFollow'
  <2>1. PICK k \in DOMAIN nodes :
            /\ Created < MaxWorkers
            /\ \/ Create(Created + 1, RemoveAt(nodes, k), FALSE)
               \/ UNCHANGED <<dynamic, info, taskFunctions, strategies, pending, results,
                              calls, workerVars, toWorker, fromWorker>>
    BY <1>5 DEF WorkerExits
  <2> QED
    BY <1>4, <2>1, CreateListsFollow DEF workerVars
<1>6. ASSUME NEW w \in Worker, w \in Members, WorkerReceives(w) \/ PoolReceives(w)
      PROVE  ListsFollow'
  BY <1>6, WorkerListsFollow, PoolListsFollow
<1>7. CASE UNCHANGED vars
  BY <1>4, <1>7 DEF vars, poolVars, workerVars
<1> QED
  BY <1>1, <1>2, <1>3, <1>5, <1>6, <1>7 DEF Next

LEMMA ListsFollowCurrent == TypeInv /\ ListsFollow => ListingIsCurrent
<1> SUFFICES ASSUME TypeInv, ListsFollow, NEW w \in Members,
                    toWorker[w] = <<>>, fromWorker[w] = <<>>
             PROVE  info[w] = Current(w)
  BY DEF ListingIsCurrent, TypeInv, Current
<1>1. Latest(info[w], fromWorker[w], Current(w))
  BY DEF TypeInv, NodesInv, ListsFollow, Starting
<1>2. DOMAIN fromWorker[w] = {}
  BY EmptyTyped
<1> QED
  BY <1>1, <1>2 DEF Latest

(* Whatever calls are made, one after the other or at the same time, and    *)
(* whatever workers come and go, for any number of workers, names and       *)
(* strategies: once the port of a worker is empty the pool lists its task   *)
(* functions (src/worker/abstract-worker.ts                                 *)
(* sendTaskFunctionsPropertiesToMainWorker, src/pools/abstract-pool.ts      *)
(* workerMessageListener); and every variable has its type.                 *)
THEOREM ListingFollowsWorkers == Spec => []ListingIsCurrent
<1>1. Init => ListsFollow
  BY InitListsFollow
<1>2. TypeInv /\ ListsFollow /\ [Next]_vars => ListsFollow'
  BY NextListsFollow
<1>3. TypeInv /\ ListsFollow => ListingIsCurrent
  BY ListsFollowCurrent
<1> QED
  BY <1>1, <1>2, <1>3, TypeInvariance, PTL DEF Spec

-----------------------------------------------------------------------------
(* One call at a time, made when no message is under way *)

Order(o) == [kind |-> o.kind, name |-> o.name, object |-> o.object]

(* Worker w has the operation before it, has done it and replied, or the    *)
(* pool has heard its reply                                                 *)
Sent(o, w) == toWorker[w] = <<Order(o)>> /\ fromWorker[w] = <<>>

StatusLast(port, ok) == \/ port = <<Status(ok)>>
                        \/ \E listing \in Listing : port = <<Told(listing), Status(ok)>>

Replied(o, w) == /\ toWorker[w] = <<>>
                 /\ \E ok \in BOOLEAN : /\ StatusLast(fromWorker[w], ok)
                                        /\ ok => Applied(o, w)

Silent(w) == toWorker[w] = <<>> /\ fromWorker[w] = <<>>

Hearers(o) == {w \in o.targets : Silent(w)}

(* The answers that were counted are those of this call *)
WaitsFor(o) == /\ o.targets \subseteq Made
               /\ \A w \in o.targets : \/ Sent(o, w)
                                       \/ Replied(o, w)
                                       \/ Silent(w) /\ (o.ok => Applied(o, w))
               /\ o.answers = Cardinality(Hearers(o))
               /\ o.answers < Cardinality(o.targets)

CallInv == /\ \A o, p \in pending : o = p
           /\ \A o \in pending : WaitsFor(o)

LEMMA StatusLastShape ==
    ASSUME NEW port, NEW ok \in BOOLEAN, StatusLast(port, ok)
    PROVE  /\ port # <<>>
           /\ \/ Head(port) = Status(ok) /\ Tail(port) = <<>>
              \/ /\ \E listing \in Listing : Head(port) = Told(listing)
                 /\ Tail(port) = <<Status(ok)>>
<1>1. CASE port = <<Status(ok)>>
  BY <1>1
<1>2. ASSUME NEW listing \in Listing, port = <<Told(listing), Status(ok)>>
      PROVE  port # <<>> /\ Head(port) = Told(listing) /\ Tail(port) = <<Status(ok)>>
  BY <1>2
<1> QED
  BY <1>1, <1>2 DEF StatusLast

(* A step that leaves the calls, and the workers that were made *)
LEMMA CallInvKept ==
    ASSUME CallInv, UNCHANGED <<pending, functions, default>>, Made \subseteq Made',
           \A w \in Made : toWorker'[w] = toWorker[w] /\ fromWorker'[w] = fromWorker[w]
    PROVE  CallInv'
<1> SUFFICES ASSUME NEW o \in pending PROVE WaitsFor(o)'
  BY DEF CallInv
<1>1. WaitsFor(o) /\ \A w \in o.targets : w \in Made
  BY DEF CallInv, WaitsFor
<1>2. \A w \in o.targets : /\ Sent(o, w)' = Sent(o, w) /\ Replied(o, w)' = Replied(o, w)
                           /\ Silent(w)' = Silent(w) /\ Applied(o, w)' = Applied(o, w)
  BY <1>1 DEF Sent, Replied, Silent, Applied
<1>3. Hearers(o)' = Hearers(o)
  BY <1>2 DEF Hearers
<1> QED
  BY <1>1, <1>2, <1>3 DEF WaitsFor

LEMMA SendCallInv ==
    ASSUME AnswersFirst, TypeInv, NEW kind, NEW name, NEW object, Send(kind, name, object)
    PROVE  CallInv'
<1> DEFINE operation == [call |-> calls + 1, kind |-> kind, name |-> name, object |-> object,
                         targets |-> Members, answers |-> 0, ok |-> TRUE]
           message == [kind |-> kind, name |-> name, object |-> object]
<1>1. /\ pending = {} /\ Quiet /\ pending' = pending \union {operation}
      /\ toWorker' = [w \in Worker |-> IF w \in Members THEN Append(toWorker[w], message)
                                       ELSE toWorker[w]]
      /\ UNCHANGED <<nodes, dynamic, functions, default, fromWorker>>
  BY DEF Send, workerVars
<1>2. PICK o : o = operation
  OBVIOUS
<1>3. Order(o) = message /\ o.targets = Members /\ o.answers = 0
  BY <1>2 DEF Order
<1>4. pending' = {o}
  BY <1>1, <1>2
<1> HIDE DEF operation, message
<1>5. \A w \in Members : Sent(o, w)'
  <2> SUFFICES ASSUME NEW w \in Members PROVE Sent(o, w)'
    OBVIOUS
  <2>1. w \in Worker /\ toWorker[w] = <<>> /\ fromWorker[w] = <<>>
    BY <1>1, NodesFinite DEF Quiet
  <2>2. toWorker'[w] = Append(<<>>, message)
    BY <1>1, <2>1
  <2>3. toWorker'[w] = <<message>>
    BY <2>2
  <2> QED
    BY <1>1, <1>3, <2>1, <2>3 DEF Sent
<1>6. Hearers(o)' = {}
  BY <1>3, <1>5 DEF Hearers, Silent, Sent
<1>7. Cardinality(Members) > 0
  BY MinSizeTyped DEF TypeInv, TypeOK, NodesInv
<1>8. Members \subseteq Made /\ Made' = Made
  BY <1>1 DEF TypeInv, NodesInv, Made
<1>9. WaitsFor(o)'
  BY <1>3, <1>5, <1>6, <1>7, <1>8, FS_EmptySet DEF WaitsFor
<1> QED
  BY <1>4, <1>9 DEF CallInv

(* A worker does what it was sent, and tells that it did *)
LEMMA OrderDone ==
    ASSUME TypeInv, NEW o \in Operation, NEW w \in Worker, Sent(o, w), WorkerReceives(w)
    PROVE  Replied(o, w)'
<1> DEFINE map == functions[w]
           known == o.name \in DOMAIN map
           shared == known /\ map[o.name] = default[w]
<1>1. /\ functions \in [Worker -> ObjectMap] /\ default \in [Worker -> Object]
      /\ toWorker \in [Worker -> Seq(Message)] /\ fromWorker \in [Worker -> Seq(Answer)]
  BY DEF TypeInv, TypeOK, PortsTyped
<1>2. Head(toWorker[w]) = Order(o) /\ Tail(toWorker[w]) = <<>> /\ fromWorker[w] = <<>>
  BY DEF Sent
<1>3. toWorker'[w] = <<>>
  BY <1>1, <1>2 DEF WorkerReceives
<1>4. /\ o.kind \in {"add", "remove", "default"}
      /\ Order(o).kind = o.kind /\ Order(o).name = o.name /\ Order(o).object = o.object
  BY DEF Operation, Order
<1>5. \/ o.kind = "add" /\ WorkerAdds(w, Order(o))
      \/ o.kind = "remove" /\ WorkerRemoves(w, Order(o))
      \/ o.kind = "default" /\ WorkerSetsDefault(w, Order(o))
  BY <1>2, <1>4 DEF WorkerReceives
<1>6. ASSUME NEW ok \in BOOLEAN, Properties(w) \in Answer
      PROVE  <<Status(ok)>> \in Seq(Answer) /\ <<Properties(w), Status(ok)>> \in Seq(Answer)
  <2>1. Status(ok) \in Answer
    BY StatusTyped
  <2> QED
    BY <1>6, <2>1
<1>7. PICK listing \in Listing : Properties(w) = Told(listing)
  <2>1. PICK newMap, object, reply : Step(w, newMap, object, reply)
    BY WorkerStep
  <2>2. functions'[w] \in ObjectMap /\ default'[w] \in Object
    BY <1>1, <2>1 DEF Step
  <2> QED
    BY <2>2, CurrentTyped DEF Properties, Told, ListTaskFunctionsProperties
<1>8. Properties(w) \in Answer
  BY <1>7 DEF Told, Answer
<1>9. \E ok \in BOOLEAN : /\ \/ fromWorker'[w] = <<>> \o <<Status(ok)>>
                             \/ fromWorker'[w] = <<>> \o <<Properties(w), Status(ok)>>
                          /\ ok => Applied(o, w)'
  <2>1. CASE o.kind = "add" /\ WorkerAdds(w, Order(o))
    <3>1. functions'[w] = Put(map, o.name, o.object)
      BY <1>1, <1>4, <2>1 DEF WorkerAdds
    <3>2. o.name \in DOMAIN functions'[w] /\ functions'[w][o.name] = o.object
      BY <3>1 DEF Put
    <3>3. Applied(o, w)'
      BY <2>1, <3>2 DEF Applied
    <3>4. fromWorker'[w] = <<>> \o <<Properties(w), Status(TRUE)>>
      BY <1>1, <1>2, <2>1 DEF WorkerAdds
    <3> QED
      BY <3>3, <3>4
  <2>2. CASE o.kind = "remove" /\ WorkerRemoves(w, Order(o))
    <3>1. CASE shared
      <4>1. fromWorker'[w] = <<>> \o <<Status(FALSE)>>
        BY <1>1, <1>2, <1>4, <2>2, <3>1 DEF WorkerRemoves
      <4> QED
        BY <4>1
    <3>2. CASE ~shared
      <4>1. functions'[w] = Drop(map, o.name)
        BY <1>1, <1>4, <2>2, <3>2 DEF WorkerRemoves
      <4>2. o.name \notin DOMAIN functions'[w]
        BY <4>1 DEF Drop
      <4>3. Applied(o, w)'
        BY <2>2, <4>2 DEF Applied
      <4>4. PICK ok \in BOOLEAN : ok <=> known
        BY Zenon
      <4>5. Status(ok) = Status(known)
        BY <4>4 DEF Status
      <4>6. fromWorker'[w] = <<>> \o <<Properties(w), Status(ok)>>
        BY <1>1, <1>2, <1>4, <2>2, <3>2, <4>5 DEF WorkerRemoves
      <4> QED
        BY <4>3, <4>6
    <3> QED
      BY <3>1, <3>2
  <2>3. CASE o.kind = "default" /\ WorkerSetsDefault(w, Order(o))
    <3>1. CASE known
      <4>1. functions'[w] = map /\ default'[w] = map[o.name]
        BY <1>1, <1>4, <2>3, <3>1 DEF WorkerSetsDefault
      <4>2. Applied(o, w)'
        BY <2>3, <3>1, <4>1 DEF Applied
      <4>3. fromWorker'[w] = <<>> \o <<Properties(w), Status(TRUE)>>
        BY <1>1, <1>2, <1>4, <2>3, <3>1 DEF WorkerSetsDefault
      <4> QED
        BY <4>2, <4>3
    <3>2. CASE ~known
      <4>1. fromWorker'[w] = <<>> \o <<Status(FALSE)>>
        BY <1>1, <1>2, <1>4, <2>3, <3>2 DEF WorkerSetsDefault
      <4> QED
        BY <4>1
    <3> QED
      BY <3>1, <3>2
  <2> QED
    BY <1>5, <2>1, <2>2, <2>3
<1>10. PICK ok \in BOOLEAN : /\ \/ fromWorker'[w] = <<>> \o <<Status(ok)>>
                                \/ fromWorker'[w] = <<>> \o <<Properties(w), Status(ok)>>
                             /\ ok => Applied(o, w)'
  BY <1>9
<1>11. \/ fromWorker'[w] = <<Status(ok)>>
       \/ fromWorker'[w] = <<Properties(w), Status(ok)>>
  BY <1>6, <1>8, <1>10, ConcatEmptySeq
<1>12. StatusLast(fromWorker'[w], ok)
  BY <1>7, <1>11 DEF StatusLast
<1> QED
  BY <1>3, <1>10, <1>12 DEF Replied

LEMMA WorkerCallInv ==
    ASSUME TypeInv, CallInv, NEW w \in Members, WorkerReceives(w)
    PROVE  CallInv'
<1>0. w \in Worker
  BY NodesFinite
<1>1. PICK map, object, reply : Step(w, map, object, reply)
  BY <1>0, WorkerStep
<1>2. /\ toWorker[w] # <<>> /\ toWorker' = [toWorker EXCEPT ![w] = Tail(@)]
      /\ UNCHANGED <<dynamic, pending>>
  BY DEF WorkerReceives, poolVars
<1>3. Made' = Made
  BY <1>2 DEF Made
<1>4. \A v \in Worker : v # w =>
          /\ toWorker'[v] = toWorker[v] /\ fromWorker'[v] = fromWorker[v]
          /\ functions'[v] = functions[v] /\ default'[v] = default[v]
  BY <1>1, <1>2 DEF Step, TypeInv, TypeOK, PortsTyped
<1> SUFFICES ASSUME NEW o \in pending PROVE WaitsFor(o)'
  BY <1>2 DEF CallInv
<1>5. WaitsFor(o) /\ o \in Operation /\ o.targets \subseteq Worker
  BY DEF CallInv, WaitsFor, TypeInv, TypeOK, Operation
<1>6. \A v \in o.targets : v # w =>
          /\ Sent(o, v)' = Sent(o, v) /\ Replied(o, v)' = Replied(o, v)
          /\ Silent(v)' = Silent(v) /\ Applied(o, v)' = Applied(o, v)
  BY <1>4, <1>5 DEF Sent, Replied, Silent, Applied
<1>7. ASSUME w \in o.targets PROVE Replied(o, w)' /\ ~Silent(w) /\ ~Silent(w)'
  <2>1. Sent(o, w)
    BY <1>2, <1>5, <1>7 DEF WaitsFor, Replied, Silent
  <2>2. Replied(o, w)'
    BY <1>0, <1>5, <2>1, OrderDone
  <2>3. fromWorker'[w] # <<>>
    BY <2>2, StatusLastShape DEF Replied
  <2> QED
    BY <1>2, <2>2, <2>3 DEF Silent
<1>8. Hearers(o)' = Hearers(o)
  <2>1. \A v \in o.targets : Silent(v)' <=> Silent(v)
    BY <1>6, <1>7
  <2> QED
    BY <2>1 DEF Hearers
<1>9. \A v \in o.targets : \/ Sent(o, v)'
                           \/ Replied(o, v)'
                           \/ Silent(v)' /\ (o.ok => Applied(o, v)')
  BY <1>5, <1>6, <1>7 DEF WaitsFor
<1> QED
  BY <1>3, <1>5, <1>8, <1>9 DEF WaitsFor

(* A reply of a target is counted, and means that the operation was applied *)
LEMMA ReplyCounted ==
    ASSUME TypeInv, CallInv, NEW o \in pending, NEW w \in Worker, NEW ok \in BOOLEAN,
           fromWorker[w] # <<>>, Head(fromWorker[w]) = Status(ok), w \in o.targets,
           fromWorker' = [fromWorker EXCEPT ![w] = Tail(@)],
           UNCHANGED <<functions, default, toWorker>>
    PROVE  /\ (ok => Applied(o, w)) /\ w \notin Hearers(o)
           /\ Silent(w)'
           /\ \A v \in o.targets : v # w => (Silent(v)' <=> Silent(v))
           /\ {v \in o.targets : Silent(v)'} = Hearers(o) \union {w}
           /\ IsFiniteSet(o.targets)
           /\ Cardinality(Hearers(o) \union {w}) = o.answers + 1
<1>1. fromWorker \in [Worker -> Seq(Answer)]
  BY DEF TypeInv, PortsTyped
<1>2. WaitsFor(o) /\ o.targets \subseteq Worker
  BY DEF CallInv, WaitsFor, Made
<1>3. Replied(o, w)
  BY <1>2 DEF WaitsFor, Sent, Silent
<1>4. PICK good \in BOOLEAN : StatusLast(fromWorker[w], good) /\ (good => Applied(o, w))
  BY <1>3 DEF Replied
<1>5. good = ok /\ Tail(fromWorker[w]) = <<>>
  <2>1. \A listing : Told(listing) # Status(ok)
    BY DEF Told, Status
  <2>2. Head(fromWorker[w]) = Status(good) /\ Tail(fromWorker[w]) = <<>>
    BY <1>4, <2>1, StatusLastShape
  <2> QED
    BY <2>2 DEF Status
<1>6. Silent(w)' /\ w \notin Hearers(o)
  BY <1>1, <1>3, <1>5 DEF Replied, Silent, Hearers
<1>7. \A v \in o.targets : v # w => (Silent(v)' <=> Silent(v))
  BY <1>1, <1>2 DEF Silent
<1>8. {v \in o.targets : Silent(v)'} = Hearers(o) \union {w}
  BY <1>6, <1>7 DEF Hearers
<1>9. IsFiniteSet(o.targets) /\ IsFiniteSet(Hearers(o))
  <2>1. Hearers(o) \subseteq Worker
    BY <1>2 DEF Hearers
  <2> QED
    BY <1>2, <2>1, WorkersFinite
<1>10. Cardinality(Hearers(o) \union {w}) = o.answers + 1
  BY <1>2, <1>6, <1>9, FS_AddElement DEF WaitsFor
<1> QED
  BY <1>4, <1>5, <1>6, <1>7, <1>8, <1>9, <1>10

(* p is the call o with the answer of worker w counted *)
Counts(p, o, w, ok) ==
    /\ p.targets = o.targets /\ p.call = o.call /\ Order(p) = Order(o)
    /\ \A v : Applied(p, v) <=> Applied(o, v)
    /\ w \in o.targets => p.answers = o.answers + 1 /\ (p.ok <=> o.ok /\ ok)
    /\ w \notin o.targets => p = o

LEMMA AnsweredCounts ==
    ASSUME NEW o \in Operation, NEW w, NEW ok \in BOOLEAN
    PROVE  Counts(Answered(o, w, ok), o, w, ok)
<1> DEFINE p == Answered(o, w, ok)
<1>1. CASE w \in o.targets
  <2>1. p = [o EXCEPT !.answers = o.answers + 1, !.ok = o.ok /\ ok]
    BY <1>1 DEF Answered
  <2>2. /\ p.targets = o.targets /\ p.call = o.call /\ p.kind = o.kind /\ p.name = o.name
        /\ p.object = o.object /\ p.answers = o.answers + 1 /\ p.ok = (o.ok /\ ok)
    BY <2>1 DEF Operation
  <2> HIDE DEF p
  <2>3. Order(p) = Order(o) /\ \A v : Applied(p, v) <=> Applied(o, v)
    BY <2>2 DEF Order, Applied
  <2>4. p.ok <=> o.ok /\ ok
    BY <2>2, Zenon
  <2> QED
    BY <1>1, <2>2, <2>3, <2>4 DEF p, Counts
<1>2. CASE w \notin o.targets
  <2>1. p = o
    BY <1>2 DEF Answered
  <2> QED
    BY <1>2, <2>1 DEF Counts
<1> QED
  BY <1>1, <1>2

(* A status is counted for the one call *)
LEMMA StatusCallInv ==
    ASSUME TypeInv, CallInv, NEW w \in Worker, NEW ok \in BOOLEAN,
           fromWorker[w] # <<>>, Head(fromWorker[w]) = Status(ok),
           fromWorker' = [fromWorker EXCEPT ![w] = Tail(@)],
           UNCHANGED <<dynamic, functions, default, toWorker>>,
           pending' = {p \in {Answered(o, w, ok) : o \in pending} : ~Complete(p)}
    PROVE  CallInv'
<1>1. pending \subseteq Operation /\ \A o, p \in pending : o = p
  BY DEF TypeInv, TypeOK, CallInv
<1>2. ASSUME NEW p \in pending' PROVE WaitsFor(p)'
  <2>1. PICK o \in pending : p = Answered(o, w, ok)
    BY <1>2
  <2>2. o \in Operation /\ WaitsFor(o) /\ ~Complete(p)
    BY <1>1, <1>2 DEF CallInv
  <2>3. /\ p.targets = o.targets /\ Order(p) = Order(o)
        /\ \A v : Applied(p, v) <=> Applied(o, v)
        /\ w \in o.targets => p.answers = o.answers + 1 /\ (p.ok <=> o.ok /\ ok)
        /\ w \notin o.targets => p = o
    <3>1. Counts(p, o, w, ok)
      BY <2>1, <2>2, AnsweredCounts
    <3> QED
      BY <3>1, Zenon DEF Counts
  <2>4. Made' = Made /\ o.targets \subseteq Made /\ o.targets \subseteq Worker
    BY <2>2 DEF WaitsFor, Made
  <2>5. \A v : Applied(p, v)' <=> Applied(p, v)
    BY DEF Applied
  <2>6. \A v \in Worker : v # w => fromWorker'[v] = fromWorker[v]
    BY DEF TypeInv, PortsTyped
  <2>7. \A v \in o.targets : v # w => /\ Sent(p, v)' <=> Sent(o, v)
                                      /\ Replied(p, v)' <=> Replied(o, v)
                                      /\ Silent(v)' <=> Silent(v)
    BY <2>3, <2>4, <2>5, <2>6 DEF Sent, Replied, Silent
  <2>8. CASE w \in o.targets
    <3>1. /\ (ok => Applied(o, w)) /\ w \notin Hearers(o) /\ Silent(w)'
          /\ {v \in o.targets : Silent(v)'} = Hearers(o) \union {w}
          /\ Cardinality(Hearers(o) \union {w}) = o.answers + 1
          /\ IsFiniteSet(o.targets)
      BY <2>8, ReplyCounted
    <3>2. Hearers(p)' = Hearers(o) \union {w}
      BY <2>3, <3>1 DEF Hearers
    <3>3. p.answers = Cardinality(Hearers(p)')
      BY <2>3, <2>8, <3>1, <3>2
    <3>4. p.answers < Cardinality(p.targets)
      <4>1. p.answers \in Nat /\ Cardinality(p.targets) \in Nat
        BY <2>2, <2>3, <2>8, <3>1, FS_CardinalityType DEF Operation
      <4> QED
        BY <2>2, <4>1 DEF Complete
    <3>5. \A v \in o.targets : \/ Sent(p, v)'
                               \/ Replied(p, v)'
                               \/ Silent(v)' /\ (p.ok => Applied(p, v)')
      <4> SUFFICES ASSUME NEW v \in o.targets
                   PROVE  \/ Sent(p, v)'
                          \/ Replied(p, v)'
                          \/ Silent(v)' /\ (p.ok => Applied(p, v)')
        OBVIOUS
      <4>1. CASE v = w
        BY <2>3, <2>5, <2>8, <3>1, <4>1
      <4>2. CASE v # w
        BY <2>2, <2>3, <2>5, <2>7, <2>8, <4>2 DEF WaitsFor
      <4> QED
        BY <4>1, <4>2
    <3> QED
      BY <2>3, <2>4, <3>3, <3>4, <3>5 DEF WaitsFor
  <2>9. CASE w \notin o.targets
    <3>1. Hearers(p)' = Hearers(o)
      BY <2>3, <2>7, <2>9 DEF Hearers
    <3>2. \A v \in o.targets : \/ Sent(p, v)'
                               \/ Replied(p, v)'
                               \/ Silent(v)' /\ (p.ok => Applied(p, v)')
      BY <2>2, <2>3, <2>5, <2>7, <2>9 DEF WaitsFor
    <3> QED
      BY <2>2, <2>3, <2>4, <2>9, <3>1, <3>2 DEF WaitsFor
  <2> QED
    BY <2>8, <2>9
<1>3. \A o, p \in pending' : o = p
  BY <1>1
<1> QED
  BY <1>2, <1>3 DEF CallInv

LEMMA PoolCallInv ==
    ASSUME TypeInv, CallInv, NEW w \in Members, PoolReceives(w)
    PROVE  CallInv'
<1> DEFINE message == Head(fromWorker[w])
<1>0. w \in Worker
  BY NodesFinite
<1>1. /\ fromWorker[w] # <<>> /\ fromWorker' = [fromWorker EXCEPT ![w] = Tail(@)]
      /\ UNCHANGED <<dynamic, functions, default, toWorker>>
      /\ \/ message.kind = "properties" /\ PoolReceivesProperties(w, message)
         \/ message.kind = "status" /\ PoolReceivesStatus(w, message)
  BY DEF PoolReceives, workerVars
<1>2. message \in Answer /\ fromWorker \in [Worker -> Seq(Answer)]
  BY <1>0, <1>1, TakenMessage DEF TypeInv, PortsTyped
<1> HIDE DEF message
<1>3. CASE message.kind = "status" /\ PoolReceivesStatus(w, message)
  <2>1. PICK ok \in BOOLEAN : message = Status(ok) /\ message.ok = ok
    BY <1>2, <1>3 DEF Answer, Status
  <2>2. pending' = {p \in {Answered(o, w, ok) : o \in pending} : ~Complete(p)}
    BY <1>3, <2>1 DEF PoolReceivesStatus
  <2> QED
    BY <1>0, <1>1, <2>1, <2>2, StatusCallInv DEF message
<1>4. CASE message.kind = "properties" /\ PoolReceivesProperties(w, message)
  <2>1. pending' = pending
    BY <1>4 DEF PoolReceivesProperties
  <2> SUFFICES ASSUME NEW o \in pending PROVE WaitsFor(o)'
    BY <2>1 DEF CallInv
  <2>2. WaitsFor(o) /\ o.targets \subseteq Worker /\ o.targets \subseteq Made /\ Made' = Made
    BY <1>1 DEF CallInv, WaitsFor, Made
  <2>3. \A v \in o.targets : v # w =>
            /\ Sent(o, v)' = Sent(o, v) /\ Replied(o, v)' = Replied(o, v)
            /\ Silent(v)' = Silent(v) /\ Applied(o, v)' = Applied(o, v)
    BY <1>1, <1>2, <2>2 DEF Sent, Replied, Silent, Applied
  <2>4. ASSUME w \in o.targets PROVE Replied(o, w)' /\ ~Silent(w) /\ ~Silent(w)'
    <3>1. Replied(o, w)
      BY <1>1, <2>2, <2>4 DEF WaitsFor, Sent, Silent
    <3>2. PICK ok \in BOOLEAN : StatusLast(fromWorker[w], ok) /\ (ok => Applied(o, w))
      BY <3>1 DEF Replied
    <3>3. message # Status(ok)
      BY <1>4 DEF Status
    <3>4. Tail(fromWorker[w]) = <<Status(ok)>>
      BY <3>2, <3>3, StatusLastShape DEF message
    <3>5. fromWorker'[w] = <<Status(ok)>>
      BY <1>0, <1>1, <1>2, <3>4
    <3>6. Applied(o, w)' <=> Applied(o, w)
      BY <1>1 DEF Applied
    <3>7. Replied(o, w)'
      BY <1>1, <3>1, <3>2, <3>5, <3>6 DEF Replied, StatusLast
    <3> QED
      BY <1>1, <3>5, <3>7 DEF Silent
  <2>5. Hearers(o)' = Hearers(o)
    <3>1. \A v \in o.targets : Silent(v)' <=> Silent(v)
      BY <2>3, <2>4
    <3> QED
      BY <3>1 DEF Hearers
  <2>6. \A v \in o.targets : \/ Sent(o, v)'
                             \/ Replied(o, v)'
                             \/ Silent(v)' /\ (o.ok => Applied(o, v)')
    BY <2>2, <2>3, <2>4 DEF WaitsFor
  <2> QED
    BY <2>2, <2>5, <2>6 DEF WaitsFor
<1> QED
  BY <1>1, <1>3, <1>4

LEMMA NextCallInv ==
    ASSUME AnswersFirst
    PROVE  TypeInv /\ CallInv /\ [Next]_vars => CallInv'
<1> SUFFICES ASSUME TypeInv, CallInv, [Next]_vars PROVE CallInv'
  OBVIOUS
<1>1. ASSUME NEW name \in Name, NEW strategy \in Strategy \union {None},
             AddTaskFunction(name, strategy)
      PROVE  CallInv'
  BY <1>1, SendCallInv DEF AddTaskFunction
<1>2. ASSUME NEW name \in Name, RemoveTaskFunction(name) \/ SetDefaultTaskFunction(name)
      PROVE  CallInv'
  BY <1>2, SendCallInv DEF RemoveTaskFunction, SetDefaultTaskFunction
<1>3. ASSUME UNCHANGED <<dynamic, pending, functions, default, toWorker, fromWorker>>
      PROVE  CallInv'
  BY <1>3, CallInvKept DEF Made
<1>4. ASSUME NEW others, NEW isDynamic \in BOOLEAN, Created < MaxWorkers,
             Create(Created + 1, others, isDynamic)
      PROVE  CallInv'
  <2>1. PICK w : w = Created + 1
    OBVIOUS
  <2>2. /\ dynamic' = [dynamic EXCEPT ![w] = isDynamic]
        /\ UNCHANGED <<pending, functions, default, fromWorker>>
        /\ \A v \in Worker : v # w => toWorker'[v] = toWorker[v]
    BY <1>4, <2>1 DEF Create, workerVars, TypeInv, PortsTyped
  <2>3. w \in Worker /\ w \notin Made
    BY <1>4, <2>1, NextWorker DEF TypeInv
  <2>4. Made \subseteq Made'
    BY <2>2, <2>3 DEF Made, TypeInv, TypeOK
  <2> QED
    BY <2>2, <2>3, <2>4, CallInvKept DEF Made
<1>5. CASE CreateDynamicWorker
  BY <1>4, <1>5 DEF CreateDynamicWorker
<1>6. ASSUME NEW w \in Worker, WorkerExits(w) PROVE CallInv'
  <2>1. PICK k \in DOMAIN nodes :
            /\ Created < MaxWorkers
            /\ \/ Create(Created + 1, RemoveAt(nodes, k), FALSE)
               \/ UNCHANGED <<dynamic, info, taskFunctions, strategies, pending, results,
                              calls, workerVars, toWorker, fromWorker>>
    BY <1>6 DEF WorkerExits
  <2> QED
    BY <1>3, <1>4, <2>1 DEF workerVars
<1>7. ASSUME NEW w \in Worker, w \in Members, WorkerReceives(w) \/ PoolReceives(w)
      PROVE  CallInv'
  BY <1>7, WorkerCallInv, PoolCallInv
<1>8. CASE UNCHANGED vars
  BY <1>3, <1>8 DEF vars, poolVars, workerVars
<1> QED
  BY <1>1, <1>2, <1>5, <1>6, <1>7, <1>8 DEF Next

(* What the action property says of a step *)
ResolvesApplied ==
    \A o \in pending :
        o.call \in DOMAIN results' \ DOMAIN results /\ results'[o.call]
            => \A w \in o.targets \intersect Members : Applied(o, w)

LEMMA NextResolvesApplied ==
    ASSUME TypeInv, CallInv, Next
    PROVE  ResolvesApplied
<1> SUFFICES ASSUME NEW o \in pending, o.call \in DOMAIN results' \ DOMAIN results,
                    results'[o.call], NEW v \in o.targets
             PROVE  Applied(o, v)
  BY DEF ResolvesApplied
<1>1. results' # results
  OBVIOUS
<1>2. PICK w \in Members : PoolReceives(w)
  BY <1>1 DEF Next, AddTaskFunction, RemoveTaskFunction, SetDefaultTaskFunction, Send,
              CreateDynamicWorker, WorkerExits, Create, WorkerReceives, poolVars
<1> DEFINE message == Head(fromWorker[w])
           heard == {Answered(p, w, message.ok) : p \in pending}
           done == {p \in heard : Complete(p)}
<1>3. w \in Worker
  BY NodesFinite
<1>4. /\ fromWorker[w] # <<>> /\ fromWorker' = [fromWorker EXCEPT ![w] = Tail(@)]
      /\ UNCHANGED <<functions, default, toWorker>>
      /\ message.kind = "status" /\ PoolReceivesStatus(w, message)
  BY <1>1, <1>2 DEF PoolReceives, PoolReceivesProperties, workerVars
<1>5. PICK ok \in BOOLEAN : message = Status(ok) /\ message.ok = ok
  <2>1. message \in Answer
    BY <1>3, <1>4, TakenMessage DEF TypeInv, PortsTyped
  <2> QED
    BY <1>4, <2>1 DEF Answer, Status
<1>6. results' = [c \in DOMAIN results \union {p.call : p \in done} |->
                      IF c \in DOMAIN results THEN results[c]
                      ELSE \E p \in {q \in done : q.ok} : p.call = c]
  BY <1>4 DEF PoolReceivesStatus, Settled
<1>7. \E p \in done : p.ok
  <2> HIDE DEF done
  <2>1. o.call \in DOMAIN results \union {p.call : p \in done} /\ o.call \notin DOMAIN results
    BY <1>6
  <2>2. \E p \in {q \in done : q.ok} : p.call = o.call
    BY <1>6, <2>1, Zenon
  <2> QED
    BY <2>2
<1>8. PICK p \in done : p.ok
  BY <1>7
<1>9. p = Answered(o, w, ok) /\ Complete(p) /\ o \in Operation /\ WaitsFor(o)
  BY <1>5, <1>8 DEF CallInv, TypeInv, TypeOK
<1>10. /\ p.targets = o.targets
       /\ w \in o.targets => p.answers = o.answers + 1 /\ (p.ok <=> o.ok /\ ok)
       /\ w \notin o.targets => p = o
  <2>1. Counts(p, o, w, ok)
    BY <1>9, AnsweredCounts
  <2> QED
    BY <2>1, Zenon DEF Counts
<1> HIDE DEF message, heard, done
<1>11. IsFiniteSet(o.targets) /\ Cardinality(o.targets) \in Nat /\ o.answers \in Nat
  <2>1. o.targets \subseteq Worker
    BY <1>9 DEF WaitsFor, Made
  <2> QED
    BY <1>9, <2>1, WorkersFinite DEF Operation
<1>12. w \in o.targets
  BY <1>9, <1>10, <1>11 DEF WaitsFor, Complete
<1>13. /\ ok => Applied(o, w)
       /\ Cardinality(Hearers(o) \union {w}) = o.answers + 1
  BY <1>3, <1>4, <1>5, <1>12, ReplyCounted DEF message
<1>14. Hearers(o) \union {w} = o.targets
  <2> DEFINE counted == Hearers(o) \union {w}
  <2>1. counted \in SUBSET o.targets
    BY <1>12 DEF Hearers
  <2>2. Cardinality(counted) >= Cardinality(o.targets)
    BY <1>9, <1>10, <1>12, <1>13 DEF Complete
  <2> HIDE DEF counted
  <2>3. Cardinality(counted) \in Nat /\ Cardinality(counted) <= Cardinality(o.targets)
    BY <1>11, <2>1, FS_Subset, FS_CardinalityType
  <2>4. Cardinality(o.targets) = Cardinality(counted)
    BY <1>11, <2>2, <2>3
  <2> QED
    BY <1>11, <2>1, <2>4, FS_Subset DEF counted
<1>15. CASE v = w
  BY <1>8, <1>10, <1>12, <1>13, <1>15
<1>16. CASE v # w
  <2>1. Silent(v)
    BY <1>14, <1>16 DEF Hearers
  <2>2. o.ok
    BY <1>8, <1>10, <1>12
  <2>3. ~Sent(o, v) /\ ~Replied(o, v)
    BY <2>1, StatusLastShape DEF Silent, Sent, Replied
  <2> QED
    BY <1>9, <2>2, <2>3 DEF WaitsFor
<1> QED
  BY <1>15, <1>16

(* A call that resolves TRUE was applied by every worker it was sent to,     *)
(* for any number of workers and names and whatever workers come and go,     *)
(* when it is made with no answer under way: the answers that                *)
(* sendTaskFunctionOperationToWorkers (src/pools/abstract-pool.ts) counts    *)
(* are then those of its own message.                                        *)
THEOREM ResolvedApplied == ASSUME AnswersFirst PROVE Spec => ResolvedMeansApplied
<1>1. Init => CallInv
  BY DEF Init, CallInv
<1>2. TypeInv /\ CallInv /\ [Next]_vars => CallInv'
  BY NextCallInv
<1>3. TypeInv /\ CallInv /\ [Next]_vars => [ResolvesApplied]_vars
  BY NextResolvesApplied
<1>4. Spec => [][ResolvesApplied]_vars
  BY <1>1, <1>2, <1>3, TypeInvariance, PTL DEF Spec
<1> QED
  BY <1>4 DEF ResolvedMeansApplied, ResolvesApplied
=============================================================================
