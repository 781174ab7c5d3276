------------------------------ MODULE ThreadPool -------------------------------
(***************************************************************************)
(* The class ThreadPool: a queue of tasks under queue_mutex, a condition   *)
(* variable, the worker threads, and the one thread that enqueues tasks    *)
(* and in the end runs the destructor.  In the program that is the main    *)
(* thread (RedisServer::run, then the destruction of the RedisServer).     *)
(* So enqueue never finds stop set, and its exception is not modelled.     *)
(*                                                                         *)
(* The loop of a worker is cut where another thread can come between: at   *)
(* the acquisition of the mutex, and, inside condition.wait, between the   *)
(* test of the predicate and the moment the worker is in the wait set with *)
(* the mutex free.  A task is any function; that it returns is not         *)
(* assumed.                                                                *)
(***************************************************************************)
EXTENDS Integers, Sequences, FiniteSets

CONSTANTS
    Worker,     \* the worker threads
    Task,       \* bound: the tasks ever enqueued
    NoTask,     \* a worker has no task
    Nobody      \* nobody holds the mutex

ASSUME PoolAssumption ==
    /\ IsFiniteSet(Worker) /\ Worker # {}
    /\ NoTask \notin Task
    /\ Nobody \notin Worker

VARIABLES
    tasks,      \* the queue
    stop,
    mutex,      \* the worker that holds queue_mutex, or Nobody
    pc,         \* where each worker is
    running,    \* the local variable task of each worker
    done,       \* history: the tasks that have returned
    caller      \* where the thread that uses the pool is

vars == <<tasks, stop, mutex, pc, running, done, caller>>

Queued == {tasks[i] : i \in DOMAIN tasks}
Running == {running[w] : w \in Worker} \ {NoTask}

\* The wait set of the condition variable.
Waiting == {w \in Worker : pc[w] = "waiting"}

\* The constructor: every worker is about to lock the mutex.
Init ==
    /\ tasks = <<>>
    /\ stop = FALSE
    /\ mutex = Nobody
    /\ pc = [w \in Worker |-> "acquire"]
    /\ running = [w \in Worker |-> NoTask]
    /\ done = {}
    /\ caller = "ready"

-------------------------------------------------------------------------------
(* The workers.                                                              *)

\* Worker w goes from place a to place b of its loop.
Goes(w, a, b) == pc[w] = a /\ pc' = [pc EXCEPT ![w] = b]

\* Mutant of Acquire: the loop does not lock the mutex.
AcquireFreely(w) ==
    /\ Goes(w, "acquire", "test")
    /\ mutex' = w
    /\ UNCHANGED <<tasks, stop, running, done, caller>>

\* The lock is taken, at the top of the loop or on the way out of a wait.
Acquire(w) ==
    /\ mutex = Nobody
    /\ Goes(w, "acquire", "test")
    /\ mutex' = w
    /\ UNCHANGED <<tasks, stop, running, done, caller>>

\* The predicate is true and there is a task, also after stop.
Take(w) ==
    /\ tasks # <<>>
    /\ Goes(w, "test", "running")
    /\ running' = [running EXCEPT ![w] = Head(tasks)]
    /\ tasks' = Tail(tasks)
    /\ mutex' = Nobody
    /\ UNCHANGED <<stop, done, caller>>

\* Stopped and nothing left to run: the thread returns.
Exit(w) ==
    /\ stop /\ tasks = <<>>
    /\ Goes(w, "test", "exited")
    /\ mutex' = Nobody
    /\ UNCHANGED <<tasks, stop, running, done, caller>>

\* The predicate is false; the mutex is still held.
Decline(w) ==
    /\ ~stop /\ tasks = <<>>
    /\ Goes(w, "test", "block")
    /\ UNCHANGED <<tasks, stop, mutex, running, done, caller>>

\* wait releases the mutex and enters the wait set in one step.
Block(w) ==
    /\ Goes(w, "block", "waiting")
    /\ mutex' = Nobody
    /\ UNCHANGED <<tasks, stop, running, done, caller>>

\* A condition variable may wake a thread that nobody notified.
SpuriousWakeup(w) ==
    /\ Goes(w, "waiting", "acquire")
    /\ UNCHANGED <<tasks, stop, mutex, running, done, caller>>

\* task() returns; packaged_task keeps any exception from the worker.
Finish(w) ==
    /\ Goes(w, "running", "acquire")
    /\ done' = done \cup {running[w]}
    /\ running' = [running EXCEPT ![w] = NoTask]
    /\ UNCHANGED <<tasks, stop, mutex, caller>>

-------------------------------------------------------------------------------
(* The thread that uses the pool.                                            *)

\* The critical section of enqueue.
Enqueue(t) ==
    /\ caller = "ready" /\ mutex = Nobody
    /\ t \notin Queued \cup Running \cup done
    /\ tasks' = Append(tasks, t)
    /\ caller' = "notify_one"
    /\ UNCHANGED <<stop, mutex, pc, running, done>>

\* Mutant of NotifyOne: enqueue does not notify.
NotifyNobody ==
    /\ caller = "notify_one"
    /\ caller' = "ready"
    /\ UNCHANGED <<tasks, stop, mutex, pc, running, done>>

\* enqueue's notify_one, after the mutex is released.
NotifyOne ==
    /\ caller = "notify_one"
    /\ IF Waiting = {} THEN pc' = pc
       ELSE \E w \in Waiting : pc' = [pc EXCEPT ![w] = "acquire"]
    /\ caller' = "ready"
    /\ UNCHANGED <<tasks, stop, mutex, running, done>>

\* Mutant of Stop: the destructor does not lock the mutex.
StopUnlocked ==
    /\ caller = "ready"
    /\ stop' = TRUE
    /\ caller' = "notify_all"
    /\ UNCHANGED <<tasks, mutex, pc, running, done>>

\* The critical section of the destructor.
Stop ==
    /\ caller = "ready" /\ mutex = Nobody
    /\ stop' = TRUE
    /\ caller' = "notify_all"
    /\ UNCHANGED <<tasks, mutex, pc, running, done>>

NotifyAll ==
    /\ caller = "notify_all"
    /\ pc' = [w \in Worker |-> IF w \in Waiting THEN "acquire" ELSE pc[w]]
    /\ caller' = "join"
    /\ UNCHANGED <<tasks, stop, mutex, running, done>>

\* The last join returns, and with it the destructor.
Join ==
    /\ caller = "join"
    /\ \A w \in Worker : pc[w] = "exited"
    /\ caller' = "gone"
    /\ UNCHANGED <<tasks, stop, mutex, pc, running, done>>

-------------------------------------------------------------------------------
(* The specification.                                                        *)

\* The pool no longer exists.
Gone == caller = "gone" /\ UNCHANGED vars

\* The steps a worker makes while it holds the mutex.
Hold(w) == Take(w) \/ Exit(w) \/ Decline(w) \/ Block(w)

WorkerStep(w) == Acquire(w) \/ Hold(w) \/ SpuriousWakeup(w) \/ Finish(w)

CallerStep ==
    \/ \E t \in Task : Enqueue(t)
    \/ NotifyOne
    \/ Stop
    \/ NotifyAll
    \/ Join

Next == CallerStep \/ (\E w \in Worker : WorkerStep(w)) \/ Gone

(***************************************************************************)
(* A thread that can go on does.  A thread that wants the mutex gets it    *)
(* although others take it again and again (a thread that unlocks it has   *)
(* more to do before it locks it again).  Nothing is assumed of the caller *)
(* when it is ready, of the tasks, and of spurious wakeups.                *)
(***************************************************************************)
Fairness ==
    /\ \A w \in Worker : SF_vars(Acquire(w)) /\ WF_vars(Hold(w))
    /\ WF_vars(NotifyOne) /\ WF_vars(NotifyAll) /\ WF_vars(Join)

Spec == Init /\ [][Next]_vars /\ Fairness

-------------------------------------------------------------------------------
(* Properties.                                                               *)

(***************************************************************************)
(* Type invariant, with mutual exclusion: the worker that holds the mutex  *)
(* is the only one between lock and unlock.                                *)
(***************************************************************************)
TypeOK ==
    /\ tasks \in Seq(Task)
    /\ stop \in BOOLEAN
    /\ mutex \in Worker \cup {Nobody}
    /\ pc \in [Worker ->
                 {"acquire", "test", "block", "waiting", "running", "exited"}]
    /\ running \in [Worker -> Task \cup {NoTask}]
    /\ done \subseteq Task
    /\ caller \in {"ready", "notify_one", "notify_all", "join", "gone"}
    /\ \A w \in Worker : pc[w] \in {"test", "block"} <=> mutex = w

\* The workers that will look at the queue before they wait again.
Awake == {w \in Worker : pc[w] \in {"acquire", "test"}}

(***************************************************************************)
(* No wakeup is lost: while a worker waits, every task in the queue has a  *)
(* worker on its way to it or a notification still to come; and no worker  *)
(* waits once the destructor has begun to join (condition.wait with the    *)
(* predicate, ThreadPool.cpp:10, notify_one after the unlock,              *)
(* ThreadPool.h:39, stop set under the mutex, ThreadPool.cpp:27).          *)
(***************************************************************************)
NoLostWakeup ==
    /\ Waiting # {} =>
          Len(tasks) <= Cardinality(Awake)
                          + (IF caller = "notify_one" THEN 1 ELSE 0)
    /\ caller \in {"join", "gone"} => Waiting = {}

\* The use of the pool as the user sees it.
Promise == INSTANCE WorkQueue WITH
    queue <- tasks,
    state <- CASE caller \in {"ready", "notify_one"} -> "open"
               [] caller \in {"notify_all", "join"} -> "closing"
               [] caller = "gone" -> "closed"

(***************************************************************************)
(* The pool implements the work queue, its liveness included: whatever the *)
(* interleaving of locks, waits and wakeups, an idle worker finds the task *)
(* that is queued, and the destructor returns once the tasks do, with the  *)
(* queue drained.                                                          *)
(***************************************************************************)
ImplementsWorkQueue == Promise!Spec
===============================================================================
