------------------------------ MODULE RedisServer ------------------------------
(***************************************************************************)
(* RedisServer::run: the accept loop of the main thread, and one task of   *)
(* the thread pool per connection, which receives, processes and answers   *)
(* requests until the client leaves.  The pool is used through what it     *)
(* promises, WorkQueue, which ThreadPool implements.                       *)
(*                                                                         *)
(* A request is "good" or "bad"; on a bad one processCommand throws (its   *)
(* std::stoi), the exception ends the task, and packaged_task keeps it     *)
(* from the worker.  What processCommand does to the database is not part  *)
(* of this module.  Neither is the SIGINT handler (see Persistence).       *)
(***************************************************************************)
EXTENDS Integers, Sequences

CONSTANTS
    Client,         \* bound: the clients that ever connect, each once
    Worker,
    NoClient,       \* an idle worker has no client
    Requests,       \* bound: the kinds of requests each client sends
    MaxRequests,    \* bound: the requests a client ever sends
    Window          \* how many requests a client sends ahead of the replies

ASSUME ServerAssumption ==
    /\ NoClient \notin Client
    /\ Requests \in [Client -> SUBSET {"good", "bad"}]
    /\ MaxRequests \in Nat
    /\ Window \in Nat \ {0}

VARIABLES
    queue, running, done, state,    \* thread_pool, as WorkQueue has it
    alive,      \* the process has not been ended by SIGPIPE
    backlog,    \* the connections waiting for accept
    peer,       \* each client: "absent", "here" or "gone"
    socket,     \* client_socket of each client: "none", "open" or "closed"
    inbox,      \* the requests that have arrived and are not received
    at,         \* where in its loop the task of each client is
    sent,       \* how many requests each client has sent
    owed,       \* how many replies it still waits for
    reset       \* the connection has been reset: a reply met no client

pool == <<queue, running, done, state>>
vars == <<pool, alive, backlog, peer, socket, inbox, at, sent, owed, reset>>

Pool == INSTANCE WorkQueue WITH Task <- Client, NoTask <- NoClient

Init ==
    /\ Pool!Init
    /\ alive = TRUE
    /\ backlog = <<>>
    /\ peer = [c \in Client |-> "absent"]
    /\ socket = [c \in Client |-> "none"]
    /\ inbox = [c \in Client |-> <<>>]
    /\ at = [c \in Client |-> "recv"]
    /\ sent = [c \in Client |-> 0]
    /\ owed = [c \in Client |-> 0]
    /\ reset = [c \in Client |-> FALSE]

-------------------------------------------------------------------------------
(* The clients.                                                              *)

Connect(c) ==
    /\ peer[c] = "absent"
    /\ peer' = [peer EXCEPT ![c] = "here"]
    /\ backlog' = Append(backlog, c)
    /\ UNCHANGED <<pool, alive, socket, inbox, at, sent, owed, reset>>

Send(c, r) ==
    /\ peer[c] = "here"
    /\ sent[c] < MaxRequests /\ owed[c] < Window
    /\ inbox' = [inbox EXCEPT ![c] = Append(@, r)]
    /\ sent' = [sent EXCEPT ![c] = @ + 1]
    /\ owed' = [owed EXCEPT ![c] = @ + 1]
    /\ UNCHANGED <<pool, alive, backlog, peer, socket, at, reset>>

HangUp(c) ==
    /\ peer[c] = "here"
    /\ peer' = [peer EXCEPT ![c] = "gone"]
    /\ UNCHANGED <<pool, alive, backlog, socket, inbox, at, sent, owed, reset>>

-------------------------------------------------------------------------------
(* The main thread.                                                          *)

\* Mutant of Accept: the connection is not handed to the pool.
AcceptOnly ==
    /\ alive /\ state = "open" /\ backlog # <<>>
    /\ backlog' = Tail(backlog)
    /\ socket' = [socket EXCEPT ![Head(backlog)] = "open"]
    /\ UNCHANGED <<pool, alive, peer, inbox, at, sent, owed, reset>>

\* accept returns a connection, and enqueue makes it a task.
Accept ==
    /\ alive /\ backlog # <<>>
    /\ backlog' = Tail(backlog)
    /\ socket' = [socket EXCEPT ![Head(backlog)] = "open"]
    /\ Pool!Submit(Head(backlog))
    /\ UNCHANGED <<alive, peer, inbox, at, sent, owed, reset>>

(***************************************************************************)
(* Any error of accept ends the loop.  run returns, which destroys its     *)
(* local cmdHandler, and then main, which destroys the pool.               *)
(***************************************************************************)
AcceptFails ==
    /\ alive
    /\ Pool!Close
    /\ UNCHANGED <<alive, backlog, peer, socket, inbox, at, sent, owed, reset>>

\* The last worker is joined.
Joined ==
    /\ alive
    /\ Pool!Closed
    /\ UNCHANGED <<alive, backlog, peer, socket, inbox, at, sent, owed, reset>>

-------------------------------------------------------------------------------
(* The tasks.                                                                *)

\* A worker takes the next connection from the queue.
Begin(w) ==
    /\ alive
    /\ Pool!Start(w)
    /\ UNCHANGED <<alive, backlog, peer, socket, inbox, at, sent, owed, reset>>

\* Worker w, with the task of client c, goes on from a to b.
Serves(w, c, a, b) ==
    /\ alive
    /\ running[w] = c
    /\ at[c] = a
    /\ at' = [at EXCEPT ![c] = b]

\* Mutant of Recv: what was received stays in the socket.
RecvPeek(w, c) ==
    /\ inbox[c] # <<>>
    /\ Serves(w, c, "recv", Head(inbox[c]))
    /\ UNCHANGED <<pool, alive, backlog, peer, socket, inbox, sent, owed, reset>>

(***************************************************************************)
(* recv returns what has arrived in one piece.  All of it becomes one      *)
(* string, of which parseRespCommand reads the first request.              *)
(***************************************************************************)
Recv(w, c) ==
    /\ inbox[c] # <<>>
    /\ Serves(w, c, "recv", Head(inbox[c]))
    /\ \E n \in 1..Len(inbox[c]) :
          inbox' = [inbox EXCEPT ![c] = SubSeq(@, n + 1, Len(@))]
    /\ UNCHANGED <<pool, alive, backlog, peer, socket, sent, owed, reset>>

\* Mutant of RecvEnd: only a negative result ends the loop.
RecvEndOnError(w, c) ==
    /\ inbox[c] = <<>> /\ reset[c]
    /\ Serves(w, c, "recv", "close")
    /\ UNCHANGED <<pool, alive, backlog, peer, socket, inbox, sent, owed, reset>>

\* recv returns 0 or an error: the client is gone and nothing is left to read.
RecvEnd(w, c) ==
    /\ inbox[c] = <<>> /\ peer[c] = "gone"
    /\ Serves(w, c, "recv", "close")
    /\ UNCHANGED <<pool, alive, backlog, peer, socket, inbox, sent, owed, reset>>

\* Mutant of Process: no reply is sent.
ProcessSilently(w, c) ==
    /\ Serves(w, c, "good", "recv")
    /\ UNCHANGED <<pool, alive, backlog, peer, socket, inbox, sent, owed, reset>>

\* processCommand returns a reply.
Process(w, c) ==
    /\ Serves(w, c, "good", "send")
    /\ UNCHANGED <<pool, alive, backlog, peer, socket, inbox, sent, owed, reset>>

\* processCommand throws; the task is over, close is not reached.
Throw(w, c) ==
    /\ Serves(w, c, "bad", "thrown")
    /\ Pool!Finish(w)
    /\ UNCHANGED <<alive, backlog, peer, socket, inbox, sent, owed, reset>>

\* Mutant of Reply: header and body are sent one after the other.
ReplyInTwo(w, c) ==
    /\ Serves(w, c, "send", "recv")
    /\ IF peer[c] = "here"
       THEN /\ owed' = [owed EXCEPT ![c] = @ - 1]
            /\ UNCHANGED <<alive, reset>>
       ELSE /\ alive' = FALSE
            /\ reset' = [reset EXCEPT ![c] = TRUE]
            /\ UNCHANGED owed
    /\ UNCHANGED <<pool, backlog, peer, socket, inbox, sent>>

(***************************************************************************)
(* A client that has left answers the first reply with a reset, and the    *)
(* next one raises SIGPIPE, which nobody handles and which ends the        *)
(* process.                                                                *)
(***************************************************************************)
Reply(w, c) ==
    /\ Serves(w, c, "send", "recv")
    /\ IF peer[c] = "here"
       THEN /\ owed' = [owed EXCEPT ![c] = @ - 1]
            /\ UNCHANGED <<alive, reset>>
       ELSE /\ alive' = ~reset[c]
            /\ reset' = [reset EXCEPT ![c] = TRUE]
            /\ UNCHANGED owed
    /\ UNCHANGED <<pool, backlog, peer, socket, inbox, sent>>

\* Mutant of CloseSocket: the task goes back to its loop.
CloseSocketAndRecv(w, c) ==
    /\ Serves(w, c, "close", "recv")
    /\ socket' = [socket EXCEPT ![c] = "closed"]
    /\ UNCHANGED <<pool, alive, backlog, peer, inbox, sent, owed, reset>>

\* The socket is closed and the task returns.
CloseSocket(w, c) ==
    /\ Serves(w, c, "close", "ended")
    /\ socket' = [socket EXCEPT ![c] = "closed"]
    /\ Pool!Finish(w)
    /\ UNCHANGED <<alive, backlog, peer, inbox, sent, owed, reset>>

-------------------------------------------------------------------------------
(* The specification.                                                        *)

ClientStep(c) ==
    \/ Connect(c)
    \/ \E r \in Requests[c] : Send(c, r)
    \/ HangUp(c)

TaskStep(w, c) ==
    \/ Recv(w, c)
    \/ RecvEnd(w, c)
    \/ Process(w, c)
    \/ Throw(w, c)
    \/ Reply(w, c)
    \/ CloseSocket(w, c)

Next ==
    \/ \E c \in Client : ClientStep(c)
    \/ Accept
    \/ AcceptFails
    \/ Joined
    \/ \E w \in Worker : Begin(w)
    \/ \E w \in Worker, c \in Client : TaskStep(w, c)

(***************************************************************************)
(* The threads run, and the pool keeps its promise to start a queued task  *)
(* when a worker is idle.  Nothing is assumed of the clients nor of the    *)
(* errors of accept.                                                       *)
(***************************************************************************)
Fairness ==
    /\ WF_vars(Accept)
    /\ WF_vars(Joined)
    /\ WF_vars(\E w \in Worker : Begin(w))
    /\ \A w \in Worker : WF_vars(\E c \in Client : TaskStep(w, c))

Spec == Init /\ [][Next]_vars /\ Fairness

-------------------------------------------------------------------------------
(* Properties.                                                               *)

Queued == {queue[i] : i \in DOMAIN queue}
Running == {running[w] : w \in Worker} \ {NoClient}
Backlog == {backlog[i] : i \in DOMAIN backlog}
Thrown == {c \in Client : at[c] = "thrown"}

TypeOK ==
    /\ queue \in Seq(Client) /\ backlog \in Seq(Client)
    /\ running \in [Worker -> Client \cup {NoClient}]
    /\ done \subseteq Client
    /\ state \in {"open", "closing", "closed"}
    /\ alive \in BOOLEAN
    /\ peer \in [Client -> {"absent", "here", "gone"}]
    /\ socket \in [Client -> {"none", "open", "closed"}]
    /\ inbox \in [Client -> Seq({"good", "bad"})]
    /\ at \in [Client ->
                 {"recv", "good", "bad", "send", "close", "thrown", "ended"}]
    /\ sent \in [Client -> 0..MaxRequests]
    /\ owed \in [Client -> 0..MaxRequests]
    /\ reset \in [Client -> BOOLEAN]

(***************************************************************************)
(* Descriptors: an open socket belongs to one task, which waits in the     *)
(* queue or has one worker, or it is one that a task has left open by      *)
(* throwing.  So no task reads or writes a socket that is closed, whose    *)
(* number accept may have given to another client since                    *)
(* (RedisServer.cpp:144, "each task has its own descriptor").              *)
(***************************************************************************)
SocketsOwned ==
    /\ {c \in Client : socket[c] = "open"} = Queued \cup Running \cup Thrown
    /\ Queued \cap Running = {} /\ Thrown \cap (Queued \cup Running) = {}
    /\ \A v, w \in Worker : running[v] = running[w] /\ v # w
                                => running[v] = NoClient

(***************************************************************************)
(* A client that leaves never ends the server, as long as it waits for     *)
(* each reply before it sends the next request (RedisServer.cpp:154,       *)
(* "Client disconnected or an error occurred").                            *)
(***************************************************************************)
ServerSurvives == alive

(***************************************************************************)
(* Each request of a client that has a worker is answered, unless the      *)
(* client leaves or a request of it makes the task throw                   *)
(* (RedisServer.cpp:149, "continuously receive commands from this          *)
(* client").  As long as it waits for each reply (Window = 1): of two      *)
(* requests in one recv the second is lost.                                *)
(***************************************************************************)
RequestsAnswered ==
    \A c \in Client :
        c \in Running /\ owed[c] > 0 ~>
            owed[c] = 0 \/ peer[c] = "gone" \/ c \in Thrown \/ ~alive

\* Some worker is idle.
WorkerIdle == \E w \in Worker : running[w] = NoClient

(***************************************************************************)
(* As long as again and again a worker is idle, every client that connects *)
(* gets one, also when a fault of accept has ended the loop after it was   *)
(* accepted.                                                               *)
(***************************************************************************)
IdleWorkersServe ==
    []<>WorkerIdle =>
        \A c \in Client : c \in Backlog \cup Queued \/ socket[c] = "open" ~>
            \/ c \in Running \cup done
            \/ state # "open" /\ c \in Backlog
            \/ ~alive

(***************************************************************************)
(* Once the accept loop has ended and the clients have all left, the pool  *)
(* is joined and the process ends, with every accepted socket closed but   *)
(* those of the tasks that threw.                                          *)
(***************************************************************************)
JoinsWhenClientsLeave ==
    (\A c \in Client : <>[](peer[c] # "here")) =>
        (state = "closing" ~>
            \/ ~alive
            \/ /\ state = "closed"
               /\ \A c \in Client : socket[c] = "open" => c \in Thrown)
================================================================================
