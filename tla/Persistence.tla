------------------------------ MODULE Persistence ------------------------------
(***************************************************************************)
(* The life of the server process around the dump file: the two loads at   *)
(* start-up, the client commands of the worker threads, the periodic dump  *)
(* of the persistence thread, the SIGINT handler with its dump and exit,   *)
(* kills, and restarts.  All of them meet at db_mutex and at the file.     *)
(*                                                                         *)
(* The content of the database is abstracted to the set of the writes it   *)
(* reflects; each write goes to one of the three stores, which dump writes *)
(* out one after the other.  A signal handler runs on top of whatever its  *)
(* thread was doing; the thread itself takes no step until the handler     *)
(* returns, and this one never does.  Locking db_mutex twice in one thread *)
(* blocks it forever (undefined in C++; what a std::mutex over a plain     *)
(* pthread mutex does).                                                    *)
(***************************************************************************)
EXTENDS Integers

CONSTANTS
    Worker,         \* the worker threads of the pool
    Main,           \* the main thread
    Persister,      \* the detached thread of main.cpp
    Handler,        \* the SIGINT handler, on whatever thread it runs
    Nobody,
    Write,          \* bound: the writes clients ever make
    NoWrite,
    StoreOf,        \* the store of each write: 1 kv, 2 list, 3 hash
    MaxStarts       \* bound: how often the process is started

Dumper == {Persister, Handler}
Agent == Worker \cup Dumper \cup {Main}

ASSUME PersistenceAssumption ==
    /\ Main # Persister /\ Main # Handler /\ Persister # Handler
    /\ Worker \cap {Main, Persister, Handler} = {}
    /\ Nobody \notin Agent
    /\ NoWrite \notin Write
    /\ StoreOf \in [Write -> 1..3]
    /\ MaxStarts \in Nat \ {0}

VARIABLES
    proc,       \* "up", or how the process ended
    starts,     \* how often it was started
    pc,         \* what each agent is doing
    signalled,  \* the thread the handler interrupted, or Nobody
    mutex,      \* who holds db_mutex, or Nobody
    mem,        \* the writes in memory
    sent,       \* per worker, the write it makes and has not yet answered
    acked,      \* history: the writes answered in this run of the process
    file,       \* dump.my_rdb: what it holds, and whether dump closed it
    stores      \* how many stores the dump in progress has written

vars == <<proc, starts, pc, signalled, mutex, mem, sent, acked, file, stores>>

\* The process is created, with an empty database; an absent file is an empty one.
Boot ==
    [a \in Agent |-> IF a = Main THEN "load1" ELSE IF a \in Worker THEN "idle" ELSE "off"]

Init ==
    /\ proc = "up" /\ starts = 1
    /\ pc = Boot
    /\ signalled = Nobody /\ mutex = Nobody
    /\ mem = {} /\ acked = {}
    /\ sent = [w \in Worker |-> NoWrite]
    /\ file = [data |-> {}, closed |-> TRUE]
    /\ stores = 0

\* Agent a, which nothing has interrupted, goes from place p to place q.
Goes(a, p, q) ==
    /\ proc = "up" /\ signalled # a
    /\ pc[a] = p
    /\ pc' = [pc EXCEPT ![a] = q]

-------------------------------------------------------------------------------
(* The main thread.                                                          *)

(***************************************************************************)
(* load: with nothing to read it clears the database and returns.  With a  *)
(* record in the file it calls set, rpush or hset while it holds db_mutex, *)
(* and they lock it again: the thread stays where it is, with the mutex.   *)
(***************************************************************************)
Load(p, q) ==
    /\ mutex = Nobody
    /\ IF file.data = {}
       THEN Goes(Main, p, q) /\ mem' = {} /\ UNCHANGED mutex
       ELSE Goes(Main, p, p) /\ mutex' = Main /\ UNCHANGED mem
    /\ UNCHANGED <<proc, starts, signalled, sent, acked, file, stores>>

\* The RedisServer is constructed (the handler is in place from here on) and
\* the persistence thread starts; run listens on its socket and goes on to the
\* second load, or, when a call for the socket fails, returns without a client.
Setup(q) ==
    /\ proc = "up" /\ pc[Main] = "setup"
    /\ pc' = [pc EXCEPT ![Main] = q, ![Persister] = "sleep"]
    /\ UNCHANGED <<proc, starts, signalled, mutex, mem, sent, acked, file, stores>>

\* accept returns the first client.
Accept ==
    /\ Goes(Main, "listen", "serve")
    /\ UNCHANGED <<proc, starts, signalled, mutex, mem, sent, acked, file, stores>>

\* The accept loop ends: accept failed, or running was found false.
LeaveLoop ==
    /\ Goes(Main, "serve", "join") \/ Goes(Main, "listen", "clientless")
    /\ UNCHANGED <<proc, starts, signalled, mutex, mem, sent, acked, file, stores>>

\* What the end of the process makes of an open file: any part of it is there.
Ends(how) ==
    /\ proc = "up"
    /\ proc' = how
    /\ IF file.closed THEN UNCHANGED file
       ELSE \E part \in SUBSET file.data : file' = [file EXCEPT !.data = part]
    /\ UNCHANGED <<starts, pc, signalled, mutex, mem, sent, acked, stores>>

\* ~ThreadPool has joined all workers, their clients gone, and main returns.
Return ==
    /\ pc[Main] \in {"join", "clientless"} /\ signalled \notin Worker \cup {Main}
    /\ \A w \in Worker : pc[w] = "idle"
    /\ Ends("returned")

-------------------------------------------------------------------------------
(* The workers: a command that writes locks, changes the stores, unlocks and *)
(* then sends its reply.                                                     *)

\* Clients are there once accept has returned one, and stay when its loop ends.
Lock(w, x) ==
    /\ pc[Main] \in {"serve", "join"}
    /\ mutex = Nobody
    /\ x \notin mem /\ \A v \in Worker : sent[v] # x
    /\ Goes(w, "idle", "locked")
    /\ mutex' = w
    /\ sent' = [sent EXCEPT ![w] = x]
    /\ UNCHANGED <<proc, starts, signalled, mem, acked, file, stores>>

Commit(w) ==
    /\ Goes(w, "locked", "reply")
    /\ mem' = mem \cup {sent[w]}
    /\ mutex' = Nobody
    /\ UNCHANGED <<proc, starts, signalled, sent, acked, file, stores>>

Reply(w) ==
    /\ Goes(w, "reply", "idle")
    /\ acked' = acked \cup {sent[w]}
    /\ sent' = [sent EXCEPT ![w] = NoWrite]
    /\ UNCHANGED <<proc, starts, signalled, mutex, mem, file, stores>>

-------------------------------------------------------------------------------
(* dump, called by the persistence thread and by shutdown.                   *)

\* Mutant of After: the persistence thread does not loop.
AfterOnce(a, ok) ==
    IF a = Persister THEN "off" ELSE IF ok THEN "exit" ELSE "exitUndumped"

\* Mutant of After: the handler returns when its dump has failed.
AfterReturning(a, ok) ==
    IF a = Persister THEN "sleep" ELSE IF ok THEN "exit" ELSE "off"

\* Where the caller of dump goes on when it has returned.
After(a, ok) ==
    IF a = Persister THEN "sleep" ELSE IF ok THEN "exit" ELSE "exitUndumped"

\* Mutant of DumpOpen: dump does not lock db_mutex.
DumpOpenUnlocked(a) ==
    /\ Goes(a, "dump", "writing")
    /\ mutex' = a
    /\ file' = [data |-> {}, closed |-> FALSE]
    /\ stores' = 0
    /\ UNCHANGED <<proc, starts, signalled, mem, sent, acked>>

\* The mutex is locked and the file opened, which truncates it.
DumpOpen(a) ==
    /\ mutex = Nobody
    /\ Goes(a, "dump", "writing")
    /\ mutex' = a
    /\ file' = [data |-> {}, closed |-> FALSE]
    /\ stores' = 0
    /\ UNCHANGED <<proc, starts, signalled, mem, sent, acked>>

\* The file cannot be opened: dump returns false.
DumpFails(a) ==
    /\ mutex = Nobody
    /\ Goes(a, "dump", After(a, FALSE))
    /\ UNCHANGED <<proc, starts, signalled, mutex, mem, sent, acked, file, stores>>

\* One of the loops over kv_store, list_store and hash_store.
DumpStore(a) ==
    /\ stores < 3
    /\ Goes(a, "writing", "writing")
    /\ file' = [file EXCEPT !.data = @ \cup {x \in mem : StoreOf[x] = stores + 1}]
    /\ stores' = stores + 1
    /\ UNCHANGED <<proc, starts, signalled, mutex, mem, sent, acked>>

\* Mutant of DumpClose: the mutex stays locked.
DumpCloseLocked(a) ==
    /\ stores = 3
    /\ Goes(a, "writing", After(a, TRUE))
    /\ file' = [file EXCEPT !.closed = TRUE]
    /\ UNCHANGED <<proc, starts, signalled, mutex, mem, sent, acked, stores>>

\* The file is flushed and closed, then the mutex unlocked; dump returns true.
DumpClose(a) ==
    /\ stores = 3
    /\ Goes(a, "writing", After(a, TRUE))
    /\ file' = [file EXCEPT !.closed = TRUE]
    /\ mutex' = Nobody
    /\ UNCHANGED <<proc, starts, signalled, mem, sent, acked, stores>>

\* The 300 seconds are over.
Wake ==
    /\ Goes(Persister, "sleep", "dump")
    /\ UNCHANGED <<proc, starts, signalled, mutex, mem, sent, acked, file, stores>>

-------------------------------------------------------------------------------
(* SIGINT, the end of the process and the next start.                        *)

(***************************************************************************)
(* SIGINT is delivered to some thread (POSIX leaves open to which), and    *)
(* there runs shutdown: running goes false and dump is called.  Before the *)
(* handler is in place SIGINT kills the process.  Bound: one Ctrl-C per    *)
(* run of the process.                                                     *)
(***************************************************************************)
Interrupt(a) ==
    /\ proc = "up" /\ signalled = Nobody
    /\ pc[Persister] # "off"
    /\ signalled' = a
    /\ pc' = [pc EXCEPT ![Handler] = "dump"]
    /\ UNCHANGED <<proc, starts, mutex, mem, sent, acked, file, stores>>

\* The socket is closed and exit called, which ends the other threads.
Exit ==
    \/ pc[Handler] = "exit" /\ Ends("shutdown")
    \/ pc[Handler] = "exitUndumped" /\ Ends("undumped")

\* kill -9, or a crash of the machine.
Kill == Ends("killed")

Start ==
    /\ proc # "up" /\ starts < MaxStarts
    /\ proc' = "up" /\ starts' = starts + 1
    /\ pc' = Boot
    /\ signalled' = Nobody /\ mutex' = Nobody
    /\ mem' = {} /\ acked' = {}
    /\ sent' = [w \in Worker |-> NoWrite]
    /\ stores' = 0
    /\ UNCHANGED file

-------------------------------------------------------------------------------
(* The specification.                                                        *)

MainStep ==
    \/ Load("load1", "setup")
    \/ Setup("load2")
    \/ Setup("clientless")
    \/ Load("load2", "listen")
    \/ Accept
    \/ LeaveLoop
    \/ Return

WorkerStep(w) == (\E x \in Write : Lock(w, x)) \/ Commit(w) \/ Reply(w)

DumpStep(a) == DumpOpen(a) \/ DumpFails(a) \/ DumpStore(a) \/ DumpClose(a)

Next ==
    \/ MainStep
    \/ \E w \in Worker : WorkerStep(w)
    \/ \E a \in Dumper : DumpStep(a)
    \/ Wake
    \/ \E a \in Agent \ {Handler} : Interrupt(a)
    \/ Exit
    \/ Kill
    \/ Start

(***************************************************************************)
(* A thread that can go on does, and one that waits for db_mutex gets it   *)
(* when others leave it free again and again; a file that is opened again  *)
(* and again is opened in the end.  Nothing is assumed of clients, of      *)
(* signals, of kills and restarts, and of the end of the accept loop.      *)
(***************************************************************************)
Fairness ==
    /\ WF_vars(Load("load1", "setup"))
    /\ WF_vars(Setup("load2") \/ Setup("clientless"))
    /\ WF_vars(Load("load2", "listen"))
    /\ \A w \in Worker : WF_vars(Commit(w)) /\ WF_vars(Reply(w))
    /\ \A a \in Dumper : /\ SF_vars(DumpOpen(a))
                         /\ WF_vars(DumpStore(a))
                         /\ WF_vars(DumpClose(a))
    /\ WF_vars(Wake)
    /\ WF_vars(Exit)

Spec == Init /\ [][Next]_vars /\ Fairness

-------------------------------------------------------------------------------
(* Properties.                                                               *)

Place == {"idle", "locked", "reply",
          "load1", "setup", "load2", "listen", "serve", "join", "clientless",
          "off", "sleep", "dump", "writing", "exit", "exitUndumped"}

PlacesOf(a) ==
    CASE a = Main -> {"load1", "setup", "load2", "listen", "serve", "join", "clientless"}
      [] a = Persister -> {"off", "sleep", "dump", "writing"}
      [] a = Handler -> {"off", "dump", "writing", "exit", "exitUndumped"}
      [] OTHER -> {"idle", "locked", "reply"}

(***************************************************************************)
(* Type invariant, with mutual exclusion: an agent is inside db_mutex's    *)
(* critical sections exactly when it holds the mutex.                      *)
(***************************************************************************)
TypeOK ==
    /\ proc \in {"up", "returned", "shutdown", "undumped", "killed"}
    /\ starts \in 1..MaxStarts
    /\ pc \in [Agent -> Place]
    /\ \A a \in Agent : pc[a] \in PlacesOf(a)
    /\ signalled \in Agent \cup {Nobody}
    /\ mutex \in Agent \cup {Nobody}
    /\ mem \subseteq Write /\ acked \subseteq mem
    /\ sent \in [Worker -> Write \cup {NoWrite}]
    /\ file.data \subseteq Write /\ file.closed \in BOOLEAN
    /\ file = [data |-> file.data, closed |-> file.closed]
    /\ stores \in 0..3
    /\ \A a \in Agent \ {Main} : mutex = a <=> pc[a] \in {"locked", "writing"}

(***************************************************************************)
(* A dump that succeeds is a snapshot: it holds exactly what was in memory *)
(* at one moment, in all three stores, every write answered by then        *)
(* included; two dumps never write into the file at once.                  *)
(***************************************************************************)
DumpIsSnapshot ==
    [][~file.closed /\ file'.closed => file'.data = mem /\ acked \subseteq mem]_vars

(***************************************************************************)
(* As long as the process is up and nobody stops it, every answered write  *)
(* is in a finished dump sooner or later (main.cpp:16).                    *)
(***************************************************************************)
PeriodicallyPersisted ==
    \A x \in Write :
        x \in acked ~> \/ x \in file.data /\ file.closed
                       \/ proc # "up"
                       \/ signalled # Nobody

(***************************************************************************)
(* Ctrl-C ends the process, provided that the thread it interrupts does    *)
(* not hold db_mutex at that moment.                                       *)
(***************************************************************************)
SignalEndsUnlessHeld ==
    signalled # Nobody /\ mutex # signalled ~> proc # "up"

(***************************************************************************)
(* After a graceful shutdown the dump has every write that was answered    *)
(* (README.md:39, "ensures data durability").  The workers go on answering *)
(* between the dump and the end of the process.                            *)
(***************************************************************************)
ShutdownKeepsAcked == proc = "shutdown" /\ file.closed => acked \subseteq file.data

(***************************************************************************)
(* Without a Ctrl-C a started process comes to accept clients, also with a *)
(* dump to load (README.md:39, "is loaded from this file at startup"),     *)
(* unless it cannot have its socket.  load blocks on its own mutex at the  *)
(* first record.                                                           *)
(***************************************************************************)
StartServes ==
    proc = "up" /\ pc[Main] = "load1" ~> \/ pc[Main] \in {"listen", "clientless"}
                                         \/ proc # "up"
                                         \/ signalled # Nobody
===============================================================================
