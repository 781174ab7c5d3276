--------------------------- MODULE ThreadPool_proofs ---------------------------
(***************************************************************************)
(* Proofs about ThreadPool, for every finite set of workers and every set  *)
(* of tasks: mutual exclusion, no lost wakeup, and the safety part of the  *)
(* refinement of WorkQueue.                                                *)
(***************************************************************************)
EXTENDS ThreadPool, FiniteSetTheorems, SequenceTheorems, TLAPS

(***************************************************************************)
(* The inductive invariant.  NoLostWakeup needs to know that a worker that *)
(* has found the predicate false finds it false still when it blocks; the  *)
(* refinement, what a worker's place says of its task, and that a worker   *)
(* returns only from a pool that is stopped and drained.                   *)
(***************************************************************************)
Places ==
    \A w \in Worker :
        /\ pc[w] = "block" => tasks = <<>> /\ ~stop
        /\ pc[w] = "running" <=> running[w] # NoTask
        /\ pc[w] = "exited" => tasks = <<>> /\ stop

Phases ==
    /\ stop <=> caller \in {"notify_all", "join", "gone"}
    /\ caller = "gone" => \A w \in Worker : pc[w] = "exited"

IInv == TypeOK /\ Places /\ Phases /\ NoLostWakeup

\* The number of awake workers is a number, and counts what joins and leaves.
LEMMA AwakeCounts ==
    ASSUME NEW w \in Worker
    PROVE  /\ IsFiniteSet(Awake)
           /\ Cardinality(Awake) \in Nat
           /\ w \notin Awake => Cardinality(Awake \cup {w}) = Cardinality(Awake) + 1
           /\ w \in Awake => Cardinality(Awake \ {w}) = Cardinality(Awake) - 1
<1>1. IsFiniteSet(Awake)
  BY PoolAssumption, FS_Subset DEF Awake
<1> QED
  BY <1>1, FS_CardinalityType, FS_AddElement, FS_RemoveElement

\* The invariant holds initially.
LEMMA InitIInv == Init => IInv
<1> SUFFICES ASSUME Init PROVE IInv
  OBVIOUS
<1>1. TypeOK
  <2>1. tasks \in Seq(Task)
    BY EmptySeq DEF Init
  <2>2. \A w \in Worker : pc[w] \in {"test", "block"} <=> mutex = w
    BY PoolAssumption DEF Init
  <2> QED
    BY <2>1, <2>2 DEF Init, TypeOK
<1>2. Places /\ Phases
  BY DEF Init, Places, Phases
<1>3. NoLostWakeup
  BY DEF Init, NoLostWakeup, Waiting
<1> QED
  BY <1>1, <1>2, <1>3 DEF IInv

\* Every worker step keeps the types and mutual exclusion.
LEMMA WorkerTypes ==
    ASSUME TypeOK, Places, NEW w \in Worker, WorkerStep(w)
    PROVE  TypeOK'
<1>1. CASE Acquire(w)
  BY <1>1, PoolAssumption DEF Acquire, Goes, TypeOK
<1>2. CASE Take(w)
  <2>1. Head(tasks) \in Task /\ Tail(tasks) \in Seq(Task)
    BY <1>2 DEF Take, TypeOK
  <2> QED
    BY <1>2, <2>1, PoolAssumption DEF Take, Goes, TypeOK
<1>3. CASE Exit(w)
  BY <1>3, PoolAssumption DEF Exit, Goes, TypeOK
<1>4. CASE Decline(w)
  BY <1>4, PoolAssumption DEF Decline, Goes, TypeOK
<1>5. CASE Block(w)
  BY <1>5, PoolAssumption DEF Block, Goes, TypeOK
<1>6. CASE SpuriousWakeup(w)
  BY <1>6, PoolAssumption DEF SpuriousWakeup, Goes, TypeOK
<1>7. CASE Finish(w)
  <2>1. running[w] \in Task
    BY <1>7 DEF Finish, Goes, TypeOK, Places
  <2>2. \A v \in Worker : pc'[v] \in {"test", "block"} <=> mutex' = v
    BY <1>7 DEF Finish, Goes, TypeOK
  <2> QED
    BY <1>7, <2>1, <2>2 DEF Finish, Goes, TypeOK
<1> QED
  BY <1>1, <1>2, <1>3, <1>4, <1>5, <1>6, <1>7 DEF WorkerStep, Hold

\* So does every step of the caller.
LEMMA CallerTypes ==
    ASSUME TypeOK, CallerStep
    PROVE  TypeOK'
<1>1. ASSUME NEW t \in Task, Enqueue(t) PROVE TypeOK'
  <2>1. Append(tasks, t) \in Seq(Task)
    BY DEF TypeOK
  <2> QED
    BY <1>1, <2>1 DEF Enqueue, TypeOK
<1>2. CASE NotifyOne
  BY <1>2 DEF NotifyOne, Waiting, TypeOK
<1>3. CASE Stop
  BY <1>3 DEF Stop, TypeOK
<1>4. CASE NotifyAll
  BY <1>4 DEF NotifyAll, Waiting, TypeOK
<1>5. CASE Join
  BY <1>5 DEF Join, TypeOK
<1> QED
  BY <1>1, <1>2, <1>3, <1>4, <1>5 DEF CallerStep

\* Every worker step keeps Places and Phases.
LEMMA WorkerPlaces ==
    ASSUME IInv, NEW w \in Worker, WorkerStep(w)
    PROVE  Places' /\ Phases'
<1> USE PoolAssumption DEF IInv, TypeOK, Places, Phases
<1>1. CASE Acquire(w)
  BY <1>1 DEF Acquire, Goes
<1>2. CASE Take(w)
  <2>1. Head(tasks) # NoTask
    BY <1>2 DEF Take
  <2> QED
    BY <1>2, <2>1 DEF Take, Goes
<1>3. CASE Exit(w)
  BY <1>3 DEF Exit, Goes
<1>4. CASE Decline(w)
  BY <1>4 DEF Decline, Goes
<1>5. CASE Block(w)
  BY <1>5 DEF Block, Goes
<1>6. CASE SpuriousWakeup(w)
  BY <1>6 DEF SpuriousWakeup, Goes
<1>7. CASE Finish(w)
  BY <1>7 DEF Finish, Goes
<1> QED
  BY <1>1, <1>2, <1>3, <1>4, <1>5, <1>6, <1>7 DEF WorkerStep, Hold

\* So does every step of the caller: while it holds the mutex no worker is
\* between its test and its wait.
LEMMA CallerPlaces ==
    ASSUME IInv, CallerStep
    PROVE  Places' /\ Phases'
<1> USE PoolAssumption DEF IInv, TypeOK, Places, Phases
<1>1. ASSUME NEW t \in Task, Enqueue(t) PROVE Places' /\ Phases'
  BY <1>1 DEF Enqueue
<1>2. CASE NotifyOne
  BY <1>2 DEF NotifyOne, Waiting
<1>3. CASE Stop
  BY <1>3 DEF Stop
<1>4. CASE NotifyAll
  BY <1>4 DEF NotifyAll, Waiting
<1>5. CASE Join
  BY <1>5 DEF Join
<1> QED
  BY <1>1, <1>2, <1>3, <1>4, <1>5 DEF CallerStep

\* No worker step loses a wakeup.
LEMMA WorkerWakeups ==
    ASSUME IInv, NEW w \in Worker, WorkerStep(w)
    PROVE  NoLostWakeup'
<1> DEFINE pending == IF caller = "notify_one" THEN 1 ELSE 0
<1>1. /\ Cardinality(Awake) \in Nat
      /\ w \notin Awake => Cardinality(Awake \cup {w}) = Cardinality(Awake) + 1
      /\ w \in Awake => Cardinality(Awake \ {w}) = Cardinality(Awake) - 1
  BY AwakeCounts
<1>2. /\ tasks \in Seq(Task)
      /\ caller' = caller
      /\ pc \in [Worker -> {"acquire", "test", "block", "waiting",
                            "running", "exited"}]
  BY DEF IInv, TypeOK, WorkerStep, Hold, Acquire, Take, Exit, Decline, Block,
         SpuriousWakeup, Finish
<1>3. /\ Waiting # {} => Len(tasks) <= Cardinality(Awake) + pending
      /\ caller \in {"join", "gone"} => Waiting = {}
  BY DEF IInv, NoLostWakeup
<1>4. CASE Acquire(w)
  <2>1. Awake' = Awake /\ Waiting' = Waiting /\ tasks' = tasks
    BY <1>2, <1>4 DEF Acquire, Goes, Awake, Waiting
  <2> QED
    BY <1>2, <1>3, <2>1 DEF NoLostWakeup
<1>5. CASE Take(w)
  <2>1. w \in Awake /\ Awake' = Awake \ {w} /\ Waiting' = Waiting
    BY <1>2, <1>5 DEF Take, Goes, Awake, Waiting
  <2>2. Len(tasks') = Len(tasks) - 1 /\ Len(tasks) \in Nat
    BY <1>2, <1>5 DEF Take
  <2> QED
    BY <1>1, <1>2, <1>3, <2>1, <2>2 DEF NoLostWakeup
<1>6. CASE Exit(w) \/ Decline(w)
  <2>1. Waiting' = Waiting /\ Len(tasks') = 0
    BY <1>2, <1>6 DEF Exit, Decline, Goes, Waiting
  <2>2. Awake' = Awake \ {w} /\ w \in Awake
    BY <1>2, <1>6 DEF Exit, Decline, Goes, Awake
  <2>3. Cardinality(Awake') \in Nat
    BY <1>1, <2>2, AwakeCounts, FS_RemoveElement, FS_CardinalityType
  <2> QED
    BY <1>2, <1>3, <2>1, <2>3 DEF NoLostWakeup
<1>7. CASE Block(w)
  <2>1. ~stop /\ tasks = <<>>
    BY <1>7 DEF Block, Goes, IInv, Places
  <2>2. Awake' = Awake /\ Len(tasks') = 0
    BY <1>2, <1>7, <2>1 DEF Block, Goes, Awake
  <2>3. caller \notin {"join", "gone"}
    BY <2>1 DEF IInv, Phases
  <2> QED
    BY <1>1, <1>2, <2>2, <2>3 DEF NoLostWakeup
<1>8. CASE SpuriousWakeup(w) \/ Finish(w)
  <2>1. w \notin Awake /\ Awake' = Awake \cup {w} /\ tasks' = tasks
    BY <1>2, <1>8 DEF SpuriousWakeup, Finish, Goes, Awake
  <2>2. Waiting' \subseteq Waiting
    BY <1>2, <1>8 DEF SpuriousWakeup, Finish, Goes, Waiting
  <2>3. Len(tasks) \in Nat
    BY <1>2
  <2> QED
    BY <1>1, <1>2, <1>3, <2>1, <2>2, <2>3 DEF NoLostWakeup
<1> QED
  BY <1>4, <1>5, <1>6, <1>7, <1>8 DEF WorkerStep, Hold

\* Nor does a step of the caller: the task it adds is covered by the
\* notification it owes, and the notification by the worker it wakes.
LEMMA CallerWakeups ==
    ASSUME IInv, CallerStep
    PROVE  NoLostWakeup'
<1>1. /\ tasks \in Seq(Task)
      /\ pc \in [Worker -> {"acquire", "test", "block", "waiting",
                            "running", "exited"}]
  BY DEF IInv, TypeOK
<1>2. Len(tasks) \in Nat
  BY <1>1
<1>3. Cardinality(Awake) \in Nat
  BY PoolAssumption, AwakeCounts
<1>4. /\ Waiting # {} => Len(tasks) <= Cardinality(Awake)
                            + (IF caller = "notify_one" THEN 1 ELSE 0)
      /\ caller \in {"join", "gone"} => Waiting = {}
  BY DEF IInv, NoLostWakeup
<1>5. ASSUME NEW t \in Task, Enqueue(t) PROVE NoLostWakeup'
  <2>1. Awake' = Awake /\ Waiting' = Waiting
    BY <1>5 DEF Enqueue, Awake, Waiting
  <2>2. Len(tasks') = Len(tasks) + 1
    BY <1>1, <1>5 DEF Enqueue
  <2>3. caller = "ready" /\ caller' = "notify_one"
    BY <1>5 DEF Enqueue
  <2> QED
    BY <1>2, <1>3, <1>4, <2>1, <2>2, <2>3 DEF NoLostWakeup
<1>6. CASE NotifyOne
  <2>1. caller = "notify_one" /\ caller' = "ready" /\ tasks' = tasks
    BY <1>6 DEF NotifyOne
  <2>2. CASE Waiting = {}
    <3>1. Waiting' = {}
      BY <1>6, <2>2 DEF NotifyOne, Waiting
    <3> QED
      BY <2>1, <3>1 DEF NoLostWakeup
  <2>3. CASE Waiting # {}
    <3>1. PICK w \in Waiting : pc' = [pc EXCEPT ![w] = "acquire"]
      BY <1>6, <2>3 DEF NotifyOne
    <3>2. w \in Worker /\ w \notin Awake /\ Awake' = Awake \cup {w}
      BY <1>1, <3>1 DEF Awake, Waiting
    <3>3. Cardinality(Awake') = Cardinality(Awake) + 1
      BY <3>2, AwakeCounts
    <3> QED
      BY <1>2, <1>3, <1>4, <2>1, <2>3, <3>3 DEF NoLostWakeup
  <2> QED
    BY <2>2, <2>3
<1>7. CASE Stop
  <2>1. Awake' = Awake /\ Waiting' = Waiting /\ tasks' = tasks
    BY <1>7 DEF Stop, Awake, Waiting
  <2>2. caller = "ready" /\ caller' = "notify_all"
    BY <1>7 DEF Stop
  <2> QED
    BY <1>4, <2>1, <2>2 DEF NoLostWakeup
<1>8. CASE NotifyAll
  <2>1. Waiting' = {}
    BY <1>1, <1>8 DEF NotifyAll, Waiting
  <2> QED
    BY <2>1 DEF NoLostWakeup
<1>9. CASE Join
  <2>1. Waiting' = {}
    BY <1>1, <1>9 DEF Join, Waiting
  <2> QED
    BY <2>1 DEF NoLostWakeup
<1> QED
  BY <1>5, <1>6, <1>7, <1>8, <1>9 DEF CallerStep

\* Every step keeps the invariant.
LEMMA NextIInv == IInv /\ [Next]_vars => IInv'
<1> SUFFICES ASSUME IInv, [Next]_vars PROVE IInv'
  OBVIOUS
<1>1. ASSUME NEW w \in Worker, WorkerStep(w) PROVE IInv'
  BY <1>1, WorkerTypes, WorkerPlaces, WorkerWakeups DEF IInv
<1>2. CASE CallerStep
  BY <1>2, CallerTypes, CallerPlaces, CallerWakeups DEF IInv
<1>3. CASE UNCHANGED vars
  BY <1>3 DEF vars, IInv, TypeOK, Places, Phases, NoLostWakeup, Waiting, Awake
<1> QED
  BY <1>1, <1>2, <1>3 DEF Next, Gone

\* The invariant holds in every reachable state.
LEMMA AlwaysIInv == Spec => []IInv
<1> QED
  BY InitIInv, NextIInv, PTL DEF Spec

(***************************************************************************)
(* The pool's variables keep their types, and no two workers are between   *)
(* the lock and the unlock of queue_mutex at once.                         *)
(***************************************************************************)
THEOREM MutualExclusion == Spec => []TypeOK
<1>1. IInv => TypeOK
  BY DEF IInv
<1> QED
  BY <1>1, AlwaysIInv, PTL

(***************************************************************************)
(* No interleaving of locks, waits, notifications and spurious wakeups     *)
(* leaves a task in the queue with a worker asleep beside it and nobody on *)
(* the way, nor a worker asleep when the destructor joins.                 *)
(***************************************************************************)
THEOREM WakeupsNotLost == Spec => []NoLostWakeup
<1>1. IInv => NoLostWakeup
  BY DEF IInv
<1> QED
  BY <1>1, AlwaysIInv, PTL

\* A step of the pool is a step of the work queue, or none.
LEMMA StepIsPromised == IInv /\ [Next]_vars => [Promise!Next]_Promise!vars
<1> SUFFICES ASSUME IInv, [Next]_vars PROVE [Promise!Next]_Promise!vars
  OBVIOUS
<1> USE DEF Promise!vars
<1>1. ASSUME NEW w \in Worker, Take(w)
      PROVE  Promise!Start(w)
  <2>1. caller # "gone" /\ running[w] = NoTask
    BY <1>1 DEF Take, Goes, IInv, Phases, Places
  <2> QED
    BY <1>1, <2>1 DEF Take, Promise!Start, IInv, TypeOK
<1>2. ASSUME NEW w \in Worker, Finish(w)
      PROVE  Promise!Finish(w)
  <2>1. running[w] # NoTask
    BY <1>2 DEF Finish, Goes, IInv, Places
  <2> QED
    BY <1>2, <2>1 DEF Finish, Promise!Finish
<1>3. ASSUME NEW t \in Task, Enqueue(t)
      PROVE  Promise!Submit(t)
  BY <1>3 DEF Enqueue, Promise!Submit, Queued, Running, Promise!Queued,
              Promise!Running
<1>4. ASSUME Stop PROVE Promise!Close
  BY <1>4 DEF Stop, Promise!Close
<1>5. ASSUME Join PROVE Promise!Closed
  <2>1. tasks = <<>>
    BY <1>5, PoolAssumption DEF Join, IInv, Places
  <2>2. \A w \in Worker : running[w] = NoTask
    BY <1>5 DEF Join, IInv, Places
  <2> QED
    BY <1>5, <2>1, <2>2 DEF Join, Promise!Closed, Promise!Running
<1>6. ASSUME NEW w \in Worker,
             Acquire(w) \/ Exit(w) \/ Decline(w) \/ Block(w) \/ SpuriousWakeup(w)
      PROVE  UNCHANGED Promise!vars
  BY <1>6 DEF Acquire, Exit, Decline, Block, SpuriousWakeup
<1>7. ASSUME NotifyOne \/ NotifyAll PROVE UNCHANGED Promise!vars
  BY <1>7 DEF NotifyOne, NotifyAll
<1>8. ASSUME UNCHANGED vars PROVE UNCHANGED Promise!vars
  BY <1>8 DEF vars
<1> QED
  BY <1>1, <1>2, <1>3, <1>4, <1>5, <1>6, <1>7, <1>8
     DEF Next, Gone, CallerStep, WorkerStep, Hold, Promise!Next

(***************************************************************************)
(* The pool implements the work queue's initial state and steps: tasks are *)
(* started in order, each once, by idle workers, and the destructor does   *)
(* not return before the queue is drained and every task has returned.     *)
(* (The liveness of WorkQueue is checked by TLC.)                          *)
(***************************************************************************)
THEOREM ImplementsWorkQueueSafety ==
    Spec => Promise!Init /\ [][Promise!Next]_Promise!vars
<1>1. Init => Promise!Init
  BY DEF Init, Promise!Init
<1> QED
  BY <1>1, AlwaysIInv, StepIsPromised, PTL DEF Spec
===============================================================================
