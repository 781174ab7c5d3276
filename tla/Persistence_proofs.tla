-------------------------- MODULE Persistence_proofs ---------------------------
(***************************************************************************)
(* Proofs about Persistence: mutual exclusion on db_mutex, and that every  *)
(* successful dump is a snapshot of the whole database, for any number of  *)
(* workers, writes, signals, kills and restarts.                           *)
(***************************************************************************)
EXTENDS Persistence, TLAPS

(***************************************************************************)
(* The inductive invariant: what the holder of the mutex relies on.  A     *)
(* dump has written the stores it has gone through, as they still are; a   *)
(* command that waits for its reply is in memory; there are no commands    *)
(* before the loads are over, so that load forgets none; and the handler   *)
(* is not running before the signal.                                       *)
(***************************************************************************)
Dumping ==
    \A a \in Dumper :
        proc = "up" /\ pc[a] = "writing" =>
            /\ ~file.closed
            /\ file.data = {x \in mem : StoreOf[x] <= stores}

Commands ==
    \A w \in Worker :
        /\ pc[w] = "locked" => sent[w] \in Write
        /\ pc[w] = "reply" => sent[w] \in mem

Phases ==
    /\ signalled = Nobody => pc[Handler] = "off"
    /\ proc = "up" /\ pc[Main] \notin {"serve", "join"} =>
        /\ acked = {}
        /\ \A w \in Worker : pc[w] = "idle"
        /\ pc[Main] \in {"load1", "setup"} => pc[Persister] = "off"

IInv == TypeOK /\ Dumping /\ Commands /\ Phases

\* The agents are the workers and three more.
LEMMA AgentFacts ==
    /\ Worker \subseteq Agent
    /\ Main \in Agent /\ Persister \in Agent /\ Handler \in Agent
    /\ Main \notin Worker /\ Persister \notin Worker /\ Handler \notin Worker
    /\ Main # Persister /\ Main # Handler /\ Persister # Handler
    /\ Nobody \notin Agent
    /\ Dumper = {Persister, Handler}
    /\ \A a \in Agent : a \in Worker \/ a = Main \/ a \in Dumper
BY PersistenceAssumption DEF Agent, Dumper

LEMMA PlaceFacts ==
    /\ PlacesOf(Main) = {"load1", "setup", "load2", "listen", "serve", "join", "clientless"}
    /\ PlacesOf(Persister) = {"off", "sleep", "dump", "writing"}
    /\ PlacesOf(Handler) = {"off", "dump", "writing", "exit", "exitUndumped"}
    /\ \A w \in Worker : PlacesOf(w) = {"idle", "locked", "reply"}
BY AgentFacts DEF PlacesOf

(***************************************************************************)
(* The part of the invariant that is about places and the mutex: an agent  *)
(* that moves within its places, and takes or leaves the mutex when it     *)
(* enters or leaves a critical section, keeps it.                          *)
(***************************************************************************)
Moves ==
    /\ pc \in [Agent -> Place]
    /\ \A a \in Agent : pc[a] \in PlacesOf(a)
    /\ mutex \in Agent \cup {Nobody}
    /\ \A a \in Agent \ {Main} : mutex = a <=> pc[a] \in {"locked", "writing"}

LEMMA MoveKeeps ==
    ASSUME Moves, NEW a \in Agent \ {Main}, NEW q \in PlacesOf(a) \cap Place,
           pc' = [pc EXCEPT ![a] = q],
           \/ /\ pc[a] \in {"locked", "writing"} <=> q \in {"locked", "writing"}
              /\ mutex' = mutex
           \/ mutex = Nobody /\ mutex' = a /\ q \in {"locked", "writing"}
           \/ mutex = a /\ mutex' = Nobody /\ q \notin {"locked", "writing"}
    PROVE  Moves'
<1>1. /\ pc' \in [Agent -> Place]
      /\ \A b \in Agent : pc'[b] = IF b = a THEN q ELSE pc[b]
  BY DEF Moves
<1>2. \A b \in Agent : pc'[b] \in PlacesOf(b)
  BY <1>1 DEF Moves
<1>3. \A b \in Agent \ {Main} : mutex' = b <=> pc'[b] \in {"locked", "writing"}
  BY <1>1, AgentFacts DEF Moves
<1>4. mutex' \in Agent \cup {Nobody}
  BY DEF Moves
<1> QED
  BY <1>1, <1>2, <1>3, <1>4 DEF Moves

LEMMA MainMoveKeeps ==
    ASSUME Moves, NEW q \in PlacesOf(Main) \cap Place,
           pc' = [pc EXCEPT ![Main] = q],
           mutex' = mutex \/ (mutex = Nobody /\ mutex' = Main)
    PROVE  Moves'
<1>1. /\ pc' \in [Agent -> Place]
      /\ \A b \in Agent : pc'[b] = IF b = Main THEN q ELSE pc[b]
  BY AgentFacts DEF Moves
<1>2. \A b \in Agent : pc'[b] \in PlacesOf(b)
  BY <1>1 DEF Moves
<1>3. \A b \in Agent \ {Main} : mutex' = b <=> pc'[b] \in {"locked", "writing"}
  BY <1>1, AgentFacts DEF Moves
<1>4. mutex' \in Agent \cup {Nobody}
  BY AgentFacts DEF Moves
<1> QED
  BY <1>1, <1>2, <1>3, <1>4 DEF Moves

\* The rest of the type invariant.
Types ==
    /\ proc \in {"up", "returned", "shutdown", "undumped", "killed"}
    /\ starts \in 1..MaxStarts
    /\ signalled \in Agent \cup {Nobody}
    /\ mem \subseteq Write /\ acked \subseteq mem
    /\ sent \in [Worker -> Write \cup {NoWrite}]
    /\ file.data \subseteq Write /\ file.closed \in BOOLEAN
    /\ file = [data |-> file.data, closed |-> file.closed]
    /\ stores \in 0..3

LEMMA TypeParts == TypeOK <=> Moves /\ Types
BY DEF TypeOK, Moves, Types

LEMMA PartsKept ==
    ASSUME Moves', Types', Dumping', Commands', Phases'
    PROVE  IInv'
BY DEF IInv, TypeOK, Moves, Types

\* A booted process satisfies the part about places.
LEMMA BootMoves ==
    /\ Boot \in [Agent -> Place]
    /\ \A a \in Agent : Boot[a] \in PlacesOf(a)
    /\ \A a \in Agent : Boot[a] \notin {"locked", "writing"}
    /\ Boot[Main] = "load1"
    /\ \A w \in Worker : Boot[w] = "idle"
<1>1. Boot \in [Agent -> Place]
  BY DEF Boot, Place
<1>2. \A a \in Agent : Boot[a] \in {"load1", "idle", "off"}
  BY DEF Boot
<1>3. Boot[Main] = "load1" /\ \A w \in Worker : Boot[w] = "idle"
  BY AgentFacts DEF Boot
<1>4. \A a \in Dumper : Boot[a] = "off"
  BY AgentFacts DEF Boot
<1> QED
  BY <1>1, <1>2, <1>3, <1>4, AgentFacts, PlaceFacts

LEMMA InitIInv == Init => IInv
<1> SUFFICES ASSUME Init PROVE IInv
  OBVIOUS
<1>1. Moves
  BY BootMoves, AgentFacts DEF Init, Moves
<1>2. Types
  BY PersistenceAssumption DEF Init, Types
<1>3. Dumping /\ Commands /\ Phases
  <2>1. Dumping
    BY BootMoves, AgentFacts DEF Init, Dumping
  <2>2. Commands
    BY BootMoves, AgentFacts DEF Init, Commands
  <2>3. Phases
    BY BootMoves, AgentFacts DEF Init, Phases, Boot
  <2> QED
    BY <2>1, <2>2, <2>3
<1> QED
  BY <1>1, <1>2, <1>3, TypeParts DEF IInv

\* The end of the process keeps the invariant.
LEMMA EndsKeeps ==
    ASSUME IInv, NEW how \in {"returned", "shutdown", "undumped", "killed"}, Ends(how)
    PROVE  IInv'
<1>1. Moves /\ Types
  BY TypeParts DEF IInv
<1>2. Moves'
  BY <1>1 DEF Ends, Moves
<1>3. PICK part \in SUBSET file.data : file' = file \/ file' = [file EXCEPT !.data = part]
  BY DEF Ends
<1>4. Types'
  <2>1. /\ file'.data \subseteq Write /\ file'.closed \in BOOLEAN
        /\ file' = [data |-> file'.data, closed |-> file'.closed]
    BY <1>1, <1>3 DEF Types
  <2> QED
    BY <1>1, <2>1 DEF Ends, Types
<1>5. Dumping' /\ Commands' /\ Phases'
  <2>1. Dumping'
    BY DEF IInv, Ends, Dumping
  <2>2. Commands'
    BY DEF IInv, Ends, Commands
  <2>3. Phases'
    BY DEF IInv, Ends, Phases
  <2> QED
    BY <2>1, <2>2, <2>3
<1> QED
  BY <1>2, <1>4, <1>5, PartsKept

\* Every step of the main thread keeps the invariant.
LEMMA MainKeeps ==
    ASSUME IInv, MainStep
    PROVE  IInv'
<1>1. Moves /\ Types
  BY TypeParts DEF IInv
<1>2. ASSUME NEW p \in {"load1", "load2"}, NEW q \in {"setup", "listen"},
             p = "load1" \/ q = "listen", Load(p, q)
      PROVE  IInv'
  <2>1. PICK r \in {p, q} : pc' = [pc EXCEPT ![Main] = r]
    BY <1>2 DEF Load, Goes
  <2>2. proc = "up" /\ pc[Main] = p /\ mutex = Nobody
    BY <1>2 DEF Load, Goes
  <2>3. Moves'
    <3>1. r \in PlacesOf(Main) \cap Place
      BY PlaceFacts DEF Place
    <3> QED
      BY <1>1, <1>2, <2>1, <3>1, MainMoveKeeps DEF Load
  <2>4. acked = {} /\ \A w \in Worker : pc[w] = "idle"
    BY <2>2 DEF IInv, Phases
  <2>5. Types'
    BY <1>1, <1>2, <2>4 DEF Load, Goes, Types
  <2>6. \A a \in Dumper : pc[a] # "writing"
    BY <1>1, <2>2, AgentFacts DEF Moves
  <2>7. \A a \in Agent : a # Main => pc'[a] = pc[a]
    BY <1>1, <2>1 DEF Moves
  <2>8. Dumping' /\ Commands' /\ Phases'
    <3>1. Dumping'
      BY <1>2, <2>4, <2>6, <2>7, AgentFacts DEF IInv, Load, Dumping
    <3>2. Commands'
      BY <1>2, <2>4, <2>6, <2>7, AgentFacts DEF IInv, Load, Commands
    <3>3. pc'[Main] = r
      BY <1>1, <2>1, AgentFacts DEF Moves
    <3>4. /\ pc[Main] = "load1" => pc[Persister] = "off"
          /\ signalled = Nobody => pc[Handler] = "off"
      BY <2>2 DEF IInv, Phases
    <3>5. Phases'
      BY <1>2, <2>1, <2>2, <2>4, <2>7, <3>3, <3>4, AgentFacts DEF Load, Phases
    <3> QED
      BY <3>1, <3>2, <3>5
  <2> QED
    BY <2>3, <2>5, <2>8, PartsKept
<1>3. ASSUME NEW q \in {"load2", "clientless"}, Setup(q)
      PROVE  IInv'
  <2>1. /\ \A a \in Agent : pc'[a] = IF a = Persister THEN "sleep"
                                     ELSE IF a = Main THEN q ELSE pc[a]
        /\ pc' \in [Agent -> Place]
    BY <1>1, <1>3, AgentFacts DEF Setup, Moves, Place
  <2>2. proc = "up" /\ pc[Main] = "setup" /\ pc[Persister] = "off"
    BY <1>3 DEF Setup, IInv, Phases
  <2>3. Moves'
    <3>1. \A a \in Agent : pc'[a] \in PlacesOf(a)
      BY <1>1, <2>1, PlaceFacts DEF Moves
    <3>2. \A a \in Agent \ {Main} :
             pc'[a] \in {"locked", "writing"} <=> pc[a] \in {"locked", "writing"}
      BY <2>1, <2>2
    <3> QED
      BY <1>1, <1>3, <2>1, <3>1, <3>2 DEF Setup, Moves
  <2>4. Types'
    BY <1>1, <1>3 DEF Setup, Types
  <2>5. /\ \A w \in Worker : pc'[w] = pc[w]
        /\ \A a \in Dumper : pc'[a] = "writing" => pc[a] = "writing"
        /\ pc'[Main] = q
        /\ pc'[Handler] = pc[Handler]
    BY <2>1, AgentFacts
  <2>6. Dumping' /\ Commands' /\ Phases'
    <3>1. Dumping'
      BY <1>3, <2>2, <2>5 DEF IInv, Setup, Dumping
    <3>2. Commands'
      BY <1>3, <2>5 DEF IInv, Setup, Commands
    <3>3. Phases'
      BY <1>3, <2>2, <2>5 DEF IInv, Setup, Phases
    <3> QED
      BY <3>1, <3>2, <3>3
  <2> QED
    BY <2>3, <2>4, <2>6, PartsKept
<1>4. CASE Accept \/ LeaveLoop
  <2>1. PICK p \in {"listen", "serve"}, q \in {"serve", "join", "clientless"} :
             (q = "clientless" => p = "listen") /\ Goes(Main, p, q)
    BY <1>4 DEF Accept, LeaveLoop
  <2>2. UNCHANGED <<proc, starts, signalled, mutex, mem, sent, acked, file, stores>>
    BY <1>4 DEF Accept, LeaveLoop
  <2>3. Moves'
    <3>1. q \in PlacesOf(Main) \cap Place
      BY PlaceFacts DEF Place
    <3> QED
      BY <1>1, <2>1, <2>2, <3>1, MainMoveKeeps DEF Goes
  <2>4. Types'
    BY <1>1, <2>2 DEF Types
  <2>5. \A a \in Agent : a # Main => pc'[a] = pc[a]
    BY <1>1, <2>1 DEF Goes, Moves
  <2>6. pc[Main] = p /\ pc'[Main] = q
    BY <1>1, <2>1, AgentFacts DEF Goes, Moves
  <2>7. Dumping' /\ Commands' /\ Phases'
    <3>1. Dumping'
      BY <2>2, <2>5, AgentFacts DEF IInv, Dumping
    <3>2. Commands'
      BY <2>2, <2>5, AgentFacts DEF IInv, Commands
    <3>3. Phases'
      BY <2>1, <2>2, <2>5, <2>6, AgentFacts DEF IInv, Phases
    <3> QED
      BY <3>1, <3>2, <3>3
  <2> QED
    BY <2>3, <2>4, <2>7, PartsKept
<1>5. CASE Return
  BY <1>5, EndsKeeps DEF Return
<1> QED
  BY <1>2, <1>3, <1>4, <1>5 DEF MainStep

\* Every step of a worker keeps the invariant.
LEMMA WorkerKeeps ==
    ASSUME IInv, NEW w \in Worker, WorkerStep(w)
    PROVE  IInv'
<1>1. Moves /\ Types
  BY TypeParts DEF IInv
<1>2. w \in Agent \ {Main} /\ w \notin Dumper /\ w # Nobody
  BY AgentFacts
<1>3. ASSUME NEW q, pc' = [pc EXCEPT ![w] = q]
      PROVE  \A a \in Agent : a # w => pc'[a] = pc[a]
  BY <1>1, <1>3 DEF Moves
<1>4. ASSUME NEW x \in Write, Lock(w, x)
      PROVE  IInv'
  <2>1. Moves'
    <3>1. "locked" \in PlacesOf(w) \cap Place
      BY PlaceFacts DEF Place
    <3> QED
      BY <1>1, <1>2, <1>4, <3>1, MoveKeeps DEF Lock, Goes
  <2>2. Types'
    BY <1>1, <1>4 DEF Lock, Goes, Types
  <2>3. Dumping' /\ Commands' /\ Phases'
    <3>1. Dumping'
      BY <1>1, <1>2, <1>3, <1>4, AgentFacts DEF IInv, Lock, Goes, Dumping, Types
    <3>2. Commands'
      BY <1>1, <1>2, <1>3, <1>4, AgentFacts DEF IInv, Lock, Goes, Commands, Types
    <3>3. Phases'
      BY <1>1, <1>2, <1>3, <1>4, AgentFacts DEF IInv, Lock, Goes, Phases, Types
    <3> QED
      BY <3>1, <3>2, <3>3
  <2> QED
    BY <2>1, <2>2, <2>3, PartsKept
<1>5. CASE Commit(w)
  <2>1. Moves'
    <3>1. "reply" \in PlacesOf(w) \cap Place
      BY PlaceFacts DEF Place
    <3>2. mutex = w
      BY <1>1, <1>2, <1>5 DEF Commit, Goes, Moves
    <3> QED
      BY <1>1, <1>2, <1>5, <3>1, <3>2, MoveKeeps DEF Commit, Goes
  <2>2. sent[w] \in Write
    BY <1>5 DEF Commit, Goes, IInv, Commands
  <2>3. Types'
    BY <1>1, <1>5, <2>2 DEF Commit, Goes, Types
  <2>4. \A a \in Dumper : pc'[a] # "writing"
    <3>1. mutex = w
      BY <1>1, <1>2, <1>5 DEF Commit, Goes, Moves
    <3> QED
      BY <1>1, <1>2, <1>3, <1>5, <3>1, AgentFacts DEF Commit, Goes, Moves
  <2>5. Dumping' /\ Commands' /\ Phases'
    <3>1. Dumping'
      BY <1>1, <1>2, <1>3, <1>5, <2>4, AgentFacts DEF IInv, Commit, Goes, Dumping
    <3>2. Commands'
      BY <1>1, <1>2, <1>3, <1>5, <2>4, AgentFacts DEF IInv, Commit, Goes, Commands
    <3>3. Phases'
      BY <1>1, <1>2, <1>3, <1>5, <2>4, AgentFacts DEF IInv, Commit, Goes, Phases
    <3> QED
      BY <3>1, <3>2, <3>3
  <2> QED
    BY <2>1, <2>3, <2>5, PartsKept
<1>6. CASE Reply(w)
  <2>1. Moves'
    <3>1. "idle" \in PlacesOf(w) \cap Place
      BY PlaceFacts DEF Place
    <3> QED
      BY <1>1, <1>2, <1>6, <3>1, MoveKeeps DEF Reply, Goes
  <2>2. sent[w] \in mem
    BY <1>6 DEF Reply, Goes, IInv, Commands
  <2>3. Types'
    BY <1>1, <1>6, <2>2 DEF Reply, Goes, Types
  <2>4. Dumping' /\ Commands' /\ Phases'
    <3> pc'[w] = "idle"
      BY <1>1, <1>2, <1>6 DEF Reply, Goes, Moves
    <3>1. Dumping'
      BY <1>1, <1>2, <1>3, <1>6, AgentFacts DEF IInv, Reply, Goes, Dumping, Types
    <3>2. Commands'
      BY <1>1, <1>2, <1>3, <1>6, AgentFacts DEF IInv, Reply, Goes, Commands, Types
    <3>3. Phases'
      BY <1>1, <1>2, <1>3, <1>6, AgentFacts DEF IInv, Reply, Goes, Phases, Types
    <3> QED
      BY <3>1, <3>2, <3>3
  <2> QED
    BY <2>1, <2>3, <2>4, PartsKept
<1> QED
  BY <1>4, <1>5, <1>6 DEF WorkerStep

\* Every step of a dump keeps the invariant.
LEMMA DumpKeeps ==
    ASSUME IInv, NEW a \in Dumper, DumpStep(a)
    PROVE  IInv'
<1>1. Moves /\ Types
  BY TypeParts DEF IInv
<1>2. a \in Agent \ {Main} /\ a \notin Worker /\ a # Nobody
  BY AgentFacts
<1>3. /\ {"dump", "writing"} \subseteq PlacesOf(a) \cap Place
      /\ \A ok \in BOOLEAN :
            /\ After(a, ok) \in PlacesOf(a) \cap Place
            /\ After(a, ok) \notin {"locked", "writing"}
  BY AgentFacts, PlaceFacts DEF After, Place
<1>4. ASSUME NEW q, pc' = [pc EXCEPT ![a] = q]
      PROVE  /\ \A b \in Agent : b # a => pc'[b] = pc[b]
             /\ pc'[a] = q
  BY <1>1, <1>2, <1>4 DEF Moves
<1>5. ASSUME NEW q, pc' = [pc EXCEPT ![a] = q], pc[a] # "off",
             UNCHANGED <<proc, signalled, sent, mem, acked>>
      PROVE  Commands' /\ Phases'
  <2>1. /\ \A w \in Worker : pc'[w] = pc[w]
        /\ pc'[Main] = pc[Main]
        /\ \A b \in Dumper : b # a => pc'[b] = pc[b]
    BY <1>2, <1>4, <1>5, AgentFacts
  <2>2. Commands'
    BY <1>5, <2>1 DEF IInv, Commands
  <2>3. Phases'
    BY <1>5, <2>1, AgentFacts DEF IInv, Phases
  <2> QED
    BY <2>2, <2>3
<1>6. CASE DumpOpen(a)
  <2>1. Moves'
    BY <1>1, <1>2, <1>3, <1>6, MoveKeeps DEF DumpOpen, Goes
  <2>2. Types'
    BY <1>1, <1>6 DEF DumpOpen, Goes, Types
  <2>3. Dumping'
    <3>1. \A b \in Dumper : pc[b] # "writing"
      BY <1>1, <1>6, AgentFacts DEF DumpOpen, Moves
    <3>2. {x \in mem : StoreOf[x] <= 0} = {}
      BY <1>1, PersistenceAssumption DEF Types
    <3>3. file'.data = {} /\ ~file'.closed /\ stores' = 0 /\ mem' = mem
      BY <1>6 DEF DumpOpen
    <3> QED
      BY <3>2, <3>3 DEF Dumping
  <2>4. Commands' /\ Phases'
    BY <1>5, <1>6 DEF DumpOpen, Goes
  <2> QED
    BY <2>1, <2>2, <2>3, <2>4, PartsKept
<1>7. CASE DumpFails(a)
  <2>1. Moves'
    BY <1>1, <1>2, <1>3, <1>7, MoveKeeps DEF DumpFails, Goes
  <2>2. Types'
    BY <1>1, <1>7 DEF DumpFails, Goes, Types
  <2>3. Dumping'
    <3>1. \A b \in Dumper : pc[b] # "writing"
      BY <1>1, <1>7, AgentFacts DEF DumpFails, Moves
    <3>2. pc' = [pc EXCEPT ![a] = After(a, FALSE)]
      BY <1>7 DEF DumpFails, Goes
    <3>3. \A b \in Dumper : pc'[b] # "writing"
      BY <1>3, <1>4, <3>1, <3>2, AgentFacts
    <3> QED
      BY <3>3 DEF Dumping
  <2>4. Commands' /\ Phases'
    BY <1>5, <1>7 DEF DumpFails, Goes
  <2> QED
    BY <2>1, <2>2, <2>3, <2>4, PartsKept
<1>8. CASE DumpStore(a)
  <2>1. Moves'
    BY <1>1, <1>2, <1>3, <1>8, MoveKeeps DEF DumpStore, Goes
  <2>2. Types'
    <3>1. /\ file'.data \subseteq Write /\ file'.closed \in BOOLEAN
          /\ file' = [data |-> file'.data, closed |-> file'.closed]
      BY <1>1, <1>8 DEF DumpStore, Types
    <3> QED
      BY <1>1, <1>8, <3>1 DEF DumpStore, Goes, Types
  <2>3. Dumping'
    <3>1. ~file.closed /\ file.data = {x \in mem : StoreOf[x] <= stores}
      BY <1>8 DEF DumpStore, Goes, IInv, Dumping
    <3>2. \A x \in mem : StoreOf[x] \in Nat
      BY <1>1, PersistenceAssumption DEF Types
    <3>3. stores \in Nat
      BY <1>1 DEF Types
    <3>4. /\ file'.data = file.data \cup {x \in mem : StoreOf[x] = stores + 1}
          /\ file'.closed = file.closed
      BY <1>1, <1>8 DEF DumpStore, Types
    <3>5. file'.data = {x \in mem : StoreOf[x] <= stores + 1}
      BY <3>1, <3>2, <3>3, <3>4
    <3> QED
      BY <1>8, <3>1, <3>4, <3>5 DEF DumpStore, Dumping
  <2>4. Commands' /\ Phases'
    BY <1>5, <1>8 DEF DumpStore, Goes
  <2> QED
    BY <2>1, <2>2, <2>3, <2>4, PartsKept
<1>9. CASE DumpClose(a)
  <2>1. mutex = a
    BY <1>1, <1>2, <1>9 DEF DumpClose, Goes, Moves
  <2>2. Moves'
    BY <1>1, <1>2, <1>3, <1>9, <2>1, MoveKeeps DEF DumpClose, Goes
  <2>3. Types'
    <3>1. /\ file'.data \subseteq Write /\ file'.closed \in BOOLEAN
          /\ file' = [data |-> file'.data, closed |-> file'.closed]
      BY <1>1, <1>9 DEF DumpClose, Types
    <3> QED
      BY <1>1, <1>9, <3>1 DEF DumpClose, Goes, Types
  <2>4. Dumping'
    <3>1. \A b \in Dumper : b # a => pc[b] # "writing"
      BY <1>1, <2>1, AgentFacts DEF Moves
    <3>2. pc' = [pc EXCEPT ![a] = After(a, TRUE)]
      BY <1>9 DEF DumpClose, Goes
    <3>3. \A b \in Dumper : pc'[b] # "writing"
      BY <1>3, <1>4, <3>1, <3>2, AgentFacts
    <3> QED
      BY <3>3 DEF Dumping
  <2>5. Commands' /\ Phases'
    BY <1>5, <1>9 DEF DumpClose, Goes
  <2> QED
    BY <2>2, <2>3, <2>4, <2>5, PartsKept
<1> QED
  BY <1>6, <1>7, <1>8, <1>9 DEF DumpStep

\* So do the timer, the signal and the next start.
LEMMA OthersKeep ==
    ASSUME IInv,
           Wake \/ (\E a \in Agent \ {Handler} : Interrupt(a)) \/ Start
    PROVE  IInv'
<1>1. Moves /\ Types
  BY TypeParts DEF IInv
<1>2. CASE Wake
  <2>1. "dump" \in PlacesOf(Persister) \cap Place
    BY PlaceFacts DEF Place
  <2>2. Moves'
    BY <1>1, <1>2, <2>1, AgentFacts, MoveKeeps DEF Wake, Goes
  <2>3. Types'
    BY <1>1, <1>2 DEF Wake, Goes, Types
  <2>4. /\ \A b \in Agent : b # Persister => pc'[b] = pc[b]
        /\ pc'[Persister] = "dump" /\ pc[Persister] = "sleep"
    BY <1>1, <1>2, AgentFacts DEF Wake, Goes, Moves
  <2>5. Dumping'
    BY <1>2, <2>4, AgentFacts DEF IInv, Wake, Dumping
  <2>6. Commands'
    BY <1>2, <2>4, AgentFacts DEF IInv, Wake, Commands
  <2>7. Phases'
    BY <1>2, <2>4, AgentFacts DEF IInv, Wake, Phases
  <2> QED
    BY <2>2, <2>3, <2>5, <2>6, <2>7, PartsKept
<1>3. ASSUME NEW a \in Agent \ {Handler}, Interrupt(a)
      PROVE  IInv'
  <2>1. "dump" \in PlacesOf(Handler) \cap Place
    BY PlaceFacts DEF Place
  <2>2. pc[Handler] = "off"
    BY <1>3 DEF Interrupt, IInv, Phases
  <2>3. Moves'
    BY <1>1, <1>3, <2>1, <2>2, AgentFacts, MoveKeeps DEF Interrupt
  <2>4. Types'
    BY <1>1, <1>3 DEF Interrupt, Types
  <2>5. /\ \A b \in Agent : b # Handler => pc'[b] = pc[b]
        /\ pc'[Handler] = "dump"
    BY <1>1, <1>3, AgentFacts DEF Interrupt, Moves
  <2>6. Dumping'
    BY <1>3, <2>5, AgentFacts DEF IInv, Interrupt, Dumping
  <2>7. Commands'
    BY <1>3, <2>5, AgentFacts DEF IInv, Interrupt, Commands
  <2>8. Phases'
    BY <1>3, <2>5, AgentFacts DEF IInv, Interrupt, Phases
  <2> QED
    BY <2>3, <2>4, <2>6, <2>7, <2>8, PartsKept
<1>4. CASE Start
  <2>1. Moves'
    BY <1>4, BootMoves, AgentFacts DEF Start, Moves
  <2>2. Types'
    BY <1>1, <1>4, PersistenceAssumption DEF Start, Types
  <2>3. Dumping'
    BY <1>4, BootMoves, AgentFacts DEF Start, Dumping
  <2>4. Commands'
    BY <1>4, BootMoves, AgentFacts DEF Start, Commands
  <2>5. Phases'
    BY <1>4, BootMoves, AgentFacts DEF Start, Phases, Boot
  <2> QED
    BY <2>1, <2>2, <2>3, <2>4, <2>5, PartsKept
<1> QED
  BY <1>2, <1>3, <1>4

\* Every step keeps the invariant.
LEMMA NextIInv == IInv /\ [Next]_vars => IInv'
<1> SUFFICES ASSUME IInv, [Next]_vars PROVE IInv'
  OBVIOUS
<1>1. CASE UNCHANGED vars
  BY <1>1 DEF vars, IInv, TypeOK, Dumping, Commands, Phases
<1>2. CASE Exit \/ Kill
  BY <1>2, EndsKeeps DEF Exit, Kill
<1> QED
  BY <1>1, <1>2, MainKeeps, WorkerKeeps, DumpKeeps, OthersKeep DEF Next

\* The invariant holds in every reachable state.
LEMMA AlwaysIInv == Spec => []IInv
<1> QED
  BY InitIInv, NextIInv, PTL DEF Spec

(***************************************************************************)
(* Types, and mutual exclusion on db_mutex between the commands of the     *)
(* workers, the periodic dump and the dump of the signal handler.          *)
(***************************************************************************)
THEOREM MutexExcludes == Spec => []TypeOK
<1>1. IInv => TypeOK
  BY DEF IInv
<1> QED
  BY <1>1, AlwaysIInv, PTL

\* Only the end of a dump closes the file, and then the file has it all.
LEMMA CloseCompletes ==
    IInv /\ [Next]_vars =>
        [~file.closed /\ file'.closed => file'.data = mem /\ acked \subseteq mem]_vars
<1> SUFFICES ASSUME IInv, Next, ~file.closed, file'.closed
             PROVE  file'.data = mem /\ acked \subseteq mem
  OBVIOUS
<1>1. Types
  BY TypeParts DEF IInv
<1>2. ASSUME NEW a \in Dumper, DumpClose(a)
      PROVE  file'.data = mem /\ acked \subseteq mem
  <2>1. file.data = {x \in mem : StoreOf[x] <= stores} /\ stores = 3
    BY <1>2 DEF DumpClose, Goes, IInv, Dumping
  <2>2. \A x \in mem : StoreOf[x] \in 1..3
    BY <1>1, PersistenceAssumption DEF Types
  <2>3. file'.data = file.data
    BY <1>1, <1>2 DEF DumpClose, Types
  <2> QED
    BY <1>1, <2>1, <2>2, <2>3 DEF Types
<1>3. ASSUME NEW a \in Dumper, DumpStep(a), ~DumpClose(a)
      PROVE  FALSE
  <2>1. CASE DumpOpen(a)
    <3>1. file'.closed = FALSE
      BY <2>1 DEF DumpOpen
    <3> QED
      BY <3>1
  <2>2. CASE DumpFails(a)
    BY <2>2 DEF DumpFails
  <2>3. CASE DumpStore(a)
    BY <1>1, <2>3 DEF DumpStore, Types
  <2> QED
    BY <1>3, <2>1, <2>2, <2>3 DEF DumpStep
<1>4. ASSUME NEW how, Ends(how)
      PROVE  FALSE
  BY <1>1, <1>4 DEF Ends, Types
<1>5. CASE MainStep
  BY <1>4, <1>5 DEF MainStep, Load, Setup, Accept, LeaveLoop, Return
<1>6. ASSUME NEW w \in Worker, WorkerStep(w)
      PROVE  FALSE
  BY <1>6 DEF WorkerStep, Lock, Commit, Reply
<1>7. CASE Wake \/ (\E a \in Agent \ {Handler} : Interrupt(a)) \/ Start
  BY <1>7 DEF Wake, Interrupt, Start
<1>8. CASE Exit \/ Kill
  BY <1>4, <1>8 DEF Exit, Kill
<1> QED
  BY <1>2, <1>3, <1>5, <1>6, <1>7, <1>8 DEF Next

(***************************************************************************)
(* However commands, dumps, signals and kills interleave, a dump that      *)
(* succeeds holds exactly the database at that moment, with every write    *)
(* answered so far.                                                        *)
(***************************************************************************)
THEOREM DumpsAreSnapshots == Spec => DumpIsSnapshot
<1> QED
  BY AlwaysIInv, CloseCompletes, PTL DEF Spec, DumpIsSnapshot
===============================================================================
