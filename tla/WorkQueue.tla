------------------------------- MODULE WorkQueue -------------------------------
(***************************************************************************)
(* What ThreadPool promises to whoever uses it: the tasks submitted to it  *)
(* are started in the order of their submission, each once, each by one    *)
(* worker; an idle worker does not leave a task in the queue forever; and  *)
(* closing it waits until every task submitted has run to its end.         *)
(*                                                                         *)
(* It does not promise that a task finishes, nor that a task is started    *)
(* while all workers are busy.                                             *)
(***************************************************************************)
EXTENDS Sequences

CONSTANTS Worker, Task, NoTask

VARIABLES
    queue,      \* the tasks submitted and not started
    running,    \* the task of each worker, NoTask when it is idle
    done,       \* the tasks that have returned
    state       \* "open", "closing" or "closed"

vars == <<queue, running, done, state>>

Queued == {queue[i] : i \in DOMAIN queue}
Running == {running[w] : w \in Worker} \ {NoTask}

Init ==
    /\ queue = <<>>
    /\ running = [w \in Worker |-> NoTask]
    /\ done = {}
    /\ state = "open"

Submit(t) ==
    /\ state = "open"
    /\ t \notin Queued \cup Running \cup done
    /\ queue' = Append(queue, t)
    /\ UNCHANGED <<running, done, state>>

Start(w) ==
    /\ state # "closed"
    /\ queue # <<>>
    /\ running[w] = NoTask
    /\ running' = [running EXCEPT ![w] = Head(queue)]
    /\ queue' = Tail(queue)
    /\ UNCHANGED <<done, state>>

Finish(w) ==
    /\ running[w] # NoTask
    /\ done' = done \cup {running[w]}
    /\ running' = [running EXCEPT ![w] = NoTask]
    /\ UNCHANGED <<queue, state>>

Close == state = "open" /\ state' = "closing" /\ UNCHANGED <<queue, running, done>>

Closed ==
    /\ state = "closing"
    /\ queue = <<>>
    /\ Running = {}
    /\ state' = "closed"
    /\ UNCHANGED <<queue, running, done>>

Next ==
    \/ \E t \in Task : Submit(t)
    \/ \E w \in Worker : Start(w) \/ Finish(w)
    \/ Close
    \/ Closed

Spec ==
    /\ Init /\ [][Next]_vars
    /\ WF_vars(\E w \in Worker : Start(w))
    /\ WF_vars(Closed)
===============================================================================
