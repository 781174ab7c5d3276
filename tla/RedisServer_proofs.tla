-------------------------- MODULE RedisServer_proofs ---------------------------
(***************************************************************************)
(* Proofs about RedisServer, for any clients, workers, requests and bounds *)
(* on them: who owns which descriptor, and that a client that waits for    *)
(* each reply never ends the server by leaving.                            *)
(***************************************************************************)
EXTENDS RedisServer, SequenceTheorems, TLAPS

(***************************************************************************)
(* The inductive invariant.  SocketsOwned needs to know that no connection *)
(* waits twice, in the backlog or in the queue, and that one that waits in *)
(* the backlog has no socket yet.  The types need a lower bound on what a  *)
(* client is owed, which is a reply for each request that has arrived and  *)
(* for the one being processed, and an upper bound, which is what it sent. *)
(***************************************************************************)
Elements(s) == {s[i] : i \in DOMAIN s}
Distinct(s) == \A i, j \in DOMAIN s : s[i] = s[j] => i = j

Lines ==
    /\ Distinct(queue) /\ Distinct(backlog)
    /\ \A c \in Client :
          /\ c \in Backlog => socket[c] = "none" /\ peer[c] # "absent"
          /\ peer[c] = "absent" => socket[c] = "none"

Busy(c) == at[c] \in {"good", "bad", "send"}

Owing ==
    \A c \in Client :
        /\ owed[c] <= sent[c]
        /\ owed[c] >= Len(inbox[c])
        /\ Busy(c) => owed[c] >= Len(inbox[c]) + 1

IInv == TypeOK /\ Lines /\ Owing /\ SocketsOwned

\* The range of a sequence without repetitions gains what is appended to it.
LEMMA AppendDistinct ==
    ASSUME NEW S, NEW s \in Seq(S), NEW x \in S, Distinct(s), x \notin Elements(s)
    PROVE  /\ Append(s, x) \in Seq(S) /\ Distinct(Append(s, x))
           /\ Elements(Append(s, x)) = Elements(s) \cup {x}
<1> DEFINE t == Append(s, x)
<1>1. /\ t \in Seq(S) /\ DOMAIN t = 1..(Len(s) + 1) /\ DOMAIN s = 1..Len(s)
      /\ Len(s) \in Nat
      /\ t[Len(s) + 1] = x /\ \A i \in 1..Len(s) : t[i] = s[i]
  OBVIOUS
<1> HIDE DEF t
<1>2. Distinct(t)
  BY <1>1 DEF Distinct, Elements
<1>3. Elements(t) = Elements(s) \cup {x}
  BY <1>1 DEF Elements
<1> QED
  BY <1>1, <1>2, <1>3 DEF t

\* It loses its head with the head.
LEMMA TailDistinct ==
    ASSUME NEW S, NEW s \in Seq(S), s # <<>>, Distinct(s)
    PROVE  /\ Head(s) \in S /\ Head(s) \in Elements(s)
           /\ Tail(s) \in Seq(S) /\ Distinct(Tail(s))
           /\ Elements(Tail(s)) = Elements(s) \ {Head(s)}
<1> DEFINE t == Tail(s)
<1>1. /\ t \in Seq(S) /\ DOMAIN t = 1..(Len(s) - 1) /\ DOMAIN s = 1..Len(s)
      /\ Len(s) \in Nat \ {0} /\ Head(s) = s[1]
      /\ \A i \in 1..(Len(s) - 1) : t[i] = s[i + 1]
  BY HeadTailProperties
<1> HIDE DEF t
<1>2. Distinct(t)
  <2>1. SUFFICES ASSUME NEW i \in DOMAIN t, NEW j \in DOMAIN t, t[i] = t[j]
                 PROVE  i = j
    BY DEF Distinct
  <2>2. /\ i \in Int /\ j \in Int
        /\ i + 1 \in DOMAIN s /\ j + 1 \in DOMAIN s /\ s[i + 1] = s[j + 1]
    BY <1>1, <2>1
  <2>3. i + 1 = j + 1
    BY <2>2 DEF Distinct
  <2> QED
    BY <2>2, <2>3
<1>3. Head(s) \in S /\ Head(s) \in Elements(s)
  BY <1>1 DEF Elements
<1>4. Elements(t) = Elements(s) \ {Head(s)}
  <2>1. ASSUME NEW i \in DOMAIN t
        PROVE  t[i] \in Elements(s) /\ t[i] # Head(s)
    <3>1. i + 1 \in DOMAIN s /\ t[i] = s[i + 1] /\ i + 1 # 1 /\ 1 \in DOMAIN s
      BY <1>1
    <3> QED
      BY <1>1, <3>1 DEF Distinct, Elements
  <2>2. ASSUME NEW j \in DOMAIN s, s[j] # Head(s)
        PROVE  s[j] \in Elements(t)
    <3>1. j - 1 \in DOMAIN t /\ t[j - 1] = s[j]
      BY <1>1, <2>2
    <3> QED
      BY <3>1 DEF Elements
  <2> QED
    BY <2>1, <2>2 DEF Elements
<1> QED
  BY <1>1, <1>2, <1>3, <1>4 DEF t

\* The invariant holds initially.
LEMMA InitIInv == Init => IInv
<1> SUFFICES ASSUME Init PROVE IInv
  OBVIOUS
<1> USE ServerAssumption DEF Init, Pool!Init
<1>1. \A S : <<>> \in Seq(S) /\ Len(<<>>) = 0 /\ DOMAIN <<>> = {}
  OBVIOUS
<1>2. TypeOK
  BY <1>1 DEF TypeOK
<1>3. Lines
  BY <1>1 DEF Lines, Distinct, Backlog
<1>4. Owing
  <2> SUFFICES ASSUME NEW c \in Client
               PROVE  /\ owed[c] <= sent[c] /\ owed[c] >= Len(inbox[c])
                      /\ Busy(c) => owed[c] >= Len(inbox[c]) + 1
    BY DEF Owing
  <2>1. sent[c] = 0 /\ owed[c] = 0 /\ inbox[c] = <<>> /\ ~Busy(c)
    BY DEF Busy
  <2>2. Len(inbox[c]) = 0
    BY <1>1, <2>1
  <2> QED
    BY <2>1, <2>2
<1>5. SocketsOwned
  BY <1>1 DEF SocketsOwned, Queued, Running, Thrown
<1> QED
  BY <1>2, <1>3, <1>4, <1>5 DEF IInv

-------------------------------------------------------------------------------
(* The clients.  They touch neither the pool nor the descriptors.            *)

\* A client that connects waits in the backlog, once.
LEMMA ConnectIInv ==
    ASSUME IInv, NEW c \in Client, Connect(c)
    PROVE  IInv'
<1> USE DEF IInv, Connect, pool
<1>1. c \notin Backlog
  BY DEF Lines
<1>2. /\ backlog' \in Seq(Client) /\ Distinct(backlog')
      /\ Backlog' = Backlog \cup {c}
  <2>1. backlog \in Seq(Client) /\ Distinct(backlog) /\ c \notin Elements(backlog)
    BY <1>1 DEF TypeOK, Lines, Backlog, Elements
  <2> QED
    BY <2>1, AppendDistinct DEF Backlog, Elements
<1>3. TypeOK'
  BY <1>2 DEF TypeOK
<1>4. Lines'
  BY <1>2 DEF Lines, TypeOK
<1>5. Owing'
  BY DEF Owing, Busy
<1>6. SocketsOwned'
  BY DEF SocketsOwned, Queued, Running, Thrown
<1> QED
  BY <1>3, <1>4, <1>5, <1>6

\* A request sent is a reply owed.
LEMMA SendIInv ==
    ASSUME IInv, NEW c \in Client, NEW r \in Requests[c], Send(c, r)
    PROVE  IInv'
<1> USE ServerAssumption DEF IInv, Send, pool
<1>1. /\ Append(inbox[c], r) \in Seq({"good", "bad"})
      /\ Len(Append(inbox[c], r)) = Len(inbox[c]) + 1 /\ Len(inbox[c]) \in Nat
  <2>1. r \in {"good", "bad"} /\ inbox[c] \in Seq({"good", "bad"})
    BY DEF TypeOK
  <2> QED
    BY <2>1
<1>2. owed[c] <= sent[c] /\ sent[c] + 1 \in 0..MaxRequests
      /\ owed[c] + 1 \in 0..MaxRequests
  BY DEF TypeOK, Owing
<1>3. TypeOK'
  BY <1>1, <1>2 DEF TypeOK
<1>4. Lines'
  BY DEF Lines, Backlog
<1>5. Owing'
  <2>1. /\ owed'[c] = owed[c] + 1 /\ sent'[c] = sent[c] + 1
        /\ Len(inbox'[c]) = Len(inbox[c]) + 1 /\ Busy(c)' = Busy(c)
        /\ owed[c] \in Int /\ sent[c] \in Int
    BY <1>1 DEF TypeOK, Busy
  <2>2. \A d \in Client \ {c} : /\ owed'[d] = owed[d] /\ sent'[d] = sent[d]
                                /\ inbox'[d] = inbox[d] /\ Busy(d)' = Busy(d)
    BY DEF TypeOK, Busy
  <2> QED
    BY <1>1, <2>1, <2>2 DEF Owing
<1>6. SocketsOwned'
  BY DEF SocketsOwned, Queued, Running, Thrown
<1> QED
  BY <1>3, <1>4, <1>5, <1>6

\* A client that leaves only leaves.
LEMMA HangUpIInv ==
    ASSUME IInv, NEW c \in Client, HangUp(c)
    PROVE  IInv'
<1> USE DEF IInv, HangUp, pool
<1>1. TypeOK'
  BY DEF TypeOK
<1>2. Lines'
  BY DEF Lines, Backlog, TypeOK
<1>3. Owing'
  BY DEF Owing, Busy
<1>4. SocketsOwned'
  BY DEF SocketsOwned, Queued, Running, Thrown
<1> QED
  BY <1>1, <1>2, <1>3, <1>4

-------------------------------------------------------------------------------
(* The main thread.                                                          *)

\* A connection that is accepted gets a socket and a place in the queue.
LEMMA AcceptIInv ==
    ASSUME IInv, Accept
    PROVE  IInv'
<1> DEFINE c == Head(backlog)
<1> USE DEF IInv, Accept, Pool!Submit
<1>1. /\ c \in Client /\ c \in Backlog
      /\ backlog' \in Seq(Client) /\ Distinct(backlog')
      /\ Backlog' = Backlog \ {c}
  <2>1. backlog \in Seq(Client) /\ Distinct(backlog) /\ backlog # <<>>
    BY DEF TypeOK, Lines
  <2>2. /\ c \in Client /\ c \in Elements(backlog)
        /\ Tail(backlog) \in Seq(Client) /\ Distinct(Tail(backlog))
        /\ Elements(Tail(backlog)) = Elements(backlog) \ {c}
    BY <2>1, TailDistinct
  <2>3. Backlog = Elements(backlog) /\ Backlog' = Elements(backlog')
    BY DEF Backlog, Elements
  <2> QED
    BY <2>2, <2>3
<1>2. socket[c] = "none"
  BY <1>1 DEF Lines
<1>3. c \notin Queued \cup Running \cup Thrown
  BY <1>1, <1>2 DEF SocketsOwned
<1>4. /\ queue' \in Seq(Client) /\ Distinct(queue')
      /\ Queued' = Queued \cup {c}
  <2>1. queue \in Seq(Client) /\ Distinct(queue) /\ c \notin Elements(queue)
    BY <1>3 DEF TypeOK, Lines, Queued, Elements
  <2>2. /\ Append(queue, c) \in Seq(Client) /\ Distinct(Append(queue, c))
        /\ Elements(Append(queue, c)) = Elements(queue) \cup {c}
    BY <1>1, <2>1, AppendDistinct
  <2>3. Queued = Elements(queue) /\ Queued' = Elements(queue')
    BY DEF Queued, Elements
  <2> QED
    BY <2>2, <2>3
<1>5. socket' = [socket EXCEPT ![c] = "open"] /\ peer[c] # "absent"
  BY <1>1 DEF Lines
<1> HIDE DEF c
<1>6. TypeOK'
  BY <1>1, <1>4, <1>5 DEF TypeOK
<1>7. Lines'
  BY <1>1, <1>4, <1>5 DEF Lines, TypeOK
<1>8. Owing'
  BY DEF Owing, Busy
<1>9. Running' = Running /\ Thrown' = Thrown
  BY DEF Running, Thrown
<1>10. {d \in Client : socket'[d] = "open"} = {d \in Client : socket[d] = "open"} \cup {c}
  BY <1>1, <1>5 DEF TypeOK
<1>11. SocketsOwned'
  BY <1>3, <1>4, <1>9, <1>10 DEF SocketsOwned
<1> QED
  BY <1>6, <1>7, <1>8, <1>11

\* The end of the loop and the join change nothing but the state of the pool.
LEMMA CloseIInv ==
    ASSUME IInv, AcceptFails \/ Joined
    PROVE  IInv'
<1> USE DEF IInv, AcceptFails, Joined, Pool!Close, Pool!Closed
<1>1. TypeOK'
  BY DEF TypeOK
<1>2. Lines'
  BY DEF Lines, Backlog
<1>3. Owing'
  BY DEF Owing, Busy
<1>4. SocketsOwned'
  BY DEF SocketsOwned, Queued, Running, Thrown
<1> QED
  BY <1>1, <1>2, <1>3, <1>4

-------------------------------------------------------------------------------
(* The workers.                                                              *)

\* A worker takes the head of the queue, which no other worker has.
LEMMA BeginIInv ==
    ASSUME IInv, NEW w \in Worker, Begin(w)
    PROVE  IInv'
<1> DEFINE c == Head(queue)
<1> USE ServerAssumption DEF IInv, Begin, Pool!Start
<1>1. /\ c \in Client /\ c \in Queued
      /\ queue' \in Seq(Client) /\ Distinct(queue')
      /\ Queued' = Queued \ {c}
  <2>1. queue \in Seq(Client) /\ Distinct(queue) /\ queue # <<>>
    BY DEF TypeOK, Lines
  <2>2. /\ c \in Client /\ c \in Elements(queue)
        /\ Tail(queue) \in Seq(Client) /\ Distinct(Tail(queue))
        /\ Elements(Tail(queue)) = Elements(queue) \ {c}
    BY <2>1, TailDistinct
  <2>3. Queued = Elements(queue) /\ Queued' = Elements(queue')
    BY DEF Queued, Elements
  <2> QED
    BY <2>2, <2>3
<1>2. running' = [running EXCEPT ![w] = c] /\ running[w] = NoClient
  OBVIOUS
<1> HIDE DEF c
<1>3. c \notin Running /\ c \notin Thrown /\ c # NoClient
  BY <1>1 DEF SocketsOwned
<1>4. TypeOK'
  BY <1>1, <1>2, SMTT(30) DEF TypeOK
<1>5. Lines'
  BY <1>1 DEF Lines, Backlog
<1>6. Owing'
  BY DEF Owing, Busy
<1>7. Running' = Running \cup {c} /\ Thrown' = Thrown
  BY <1>2, <1>3 DEF Running, Thrown, TypeOK
<1>8. \A v \in Worker : running[v] # c
  BY <1>3 DEF Running
<1>9. \A u, v \in Worker : running'[u] = running'[v] /\ u # v
                               => running'[u] = NoClient
  BY <1>2, <1>8 DEF SocketsOwned, TypeOK
<1>10. SocketsOwned'
  BY <1>1, <1>3, <1>7, <1>9 DEF SocketsOwned
<1> QED
  BY <1>4, <1>5, <1>6, <1>10

-------------------------------------------------------------------------------
(* The tasks.                                                                *)

\* A step of a task that stays in its loop, and touches neither the pool, the
\* backlog, the clients nor the sockets, keeps the descriptors where they are.
LEMMA LoopKeepsSockets ==
    ASSUME IInv, NEW w \in Worker, NEW c \in Client, NEW a, NEW b,
           Serves(w, c, a, b), a # "thrown", b # "thrown",
           UNCHANGED <<pool, backlog, peer, socket>>
    PROVE  Lines' /\ SocketsOwned'
<1> USE DEF IInv, pool
<1>1. Lines'
  BY DEF Lines, Backlog
<1>2. Thrown' = Thrown
  BY DEF Serves, Thrown, TypeOK
<1>3. Queued' = Queued /\ Running' = Running
  BY DEF Queued, Running
<1>4. SocketsOwned'
  BY <1>2, <1>3 DEF SocketsOwned
<1> QED
  BY <1>1, <1>4

\* What was received is one request to answer less than was in the socket.
LEMMA RecvIInv ==
    ASSUME IInv, NEW w \in Worker, NEW c \in Client, Recv(w, c)
    PROVE  IInv'
<1> USE DEF IInv
<1>1. inbox[c] \in Seq({"good", "bad"}) /\ inbox[c] # <<>>
  BY DEF TypeOK, Recv
<1>2. Head(inbox[c]) \in {"good", "bad"}
  BY <1>1
<1>3. PICK n \in 1..Len(inbox[c]) :
         inbox' = [inbox EXCEPT ![c] = SubSeq(@, n + 1, Len(@))]
  BY DEF Recv
<1>4. /\ SubSeq(inbox[c], n + 1, Len(inbox[c])) \in Seq({"good", "bad"})
      /\ Len(SubSeq(inbox[c], n + 1, Len(inbox[c]))) = Len(inbox[c]) - n
      /\ Len(inbox[c]) \in Nat
  <2>1. /\ n + 1 \in Int /\ Len(inbox[c]) \in Nat
        /\ n + 1 <= Len(inbox[c]) + 1
        /\ \A i \in (n + 1)..Len(inbox[c]) : inbox[c][i] \in {"good", "bad"}
    BY <1>1, <1>3
  <2> QED
    BY <1>1, <2>1, SubSeqProperties
<1>5. Serves(w, c, "recv", Head(inbox[c]))
      /\ UNCHANGED <<pool, alive, backlog, peer, socket, sent, owed, reset>>
  BY DEF Recv
<1>6. TypeOK'
  BY <1>2, <1>3, <1>4, <1>5 DEF TypeOK, Serves, pool
<1>7. Lines' /\ SocketsOwned'
  BY <1>2, <1>5, LoopKeepsSockets
<1>8. Owing'
  <2>1. /\ inbox'[c] = SubSeq(inbox[c], n + 1, Len(inbox[c]))
        /\ owed' = owed /\ sent' = sent /\ owed[c] \in Int
    BY <1>3, <1>5 DEF TypeOK
  <2>2. \A d \in Client \ {c} : inbox'[d] = inbox[d] /\ Busy(d)' = Busy(d)
    BY <1>3, <1>5 DEF TypeOK, Serves, Busy
  <2>3. Len(inbox'[c]) = Len(inbox[c]) - n /\ n >= 1 /\ n \in Int
    BY <1>3, <1>4, <2>1
  <2> QED
    BY <1>4, <2>1, <2>2, <2>3, SMTT(30) DEF Owing
<1> QED
  BY <1>6, <1>7, <1>8

\* The end of the stream leads to the close.
LEMMA RecvEndIInv ==
    ASSUME IInv, NEW w \in Worker, NEW c \in Client, RecvEnd(w, c)
    PROVE  IInv'
<1> USE DEF IInv, RecvEnd
<1>1. TypeOK'
  BY DEF TypeOK, Serves, pool
<1>2. Lines' /\ SocketsOwned'
  BY LoopKeepsSockets
<1>3. Owing'
  BY DEF Owing, Busy, Serves, TypeOK
<1> QED
  BY <1>1, <1>2, <1>3

\* Processing leaves the reply owed.
LEMMA ProcessIInv ==
    ASSUME IInv, NEW w \in Worker, NEW c \in Client, Process(w, c)
    PROVE  IInv'
<1> USE DEF IInv, Process
<1>1. TypeOK'
  BY DEF TypeOK, Serves, pool
<1>2. Lines' /\ SocketsOwned'
  BY LoopKeepsSockets
<1>3. Owing'
  BY DEF Owing, Busy, Serves, TypeOK
<1> QED
  BY <1>1, <1>2, <1>3

\* A reply to a client that is there is owed no longer.
LEMMA ReplyIInv ==
    ASSUME IInv, NEW w \in Worker, NEW c \in Client, Reply(w, c)
    PROVE  IInv'
<1> USE DEF IInv, Reply
<1>1. Len(inbox[c]) \in Nat /\ owed[c] \in 0..MaxRequests /\ MaxRequests \in Nat
  BY ServerAssumption DEF TypeOK
<1>2. owed[c] >= Len(inbox[c]) + 1
  BY DEF Owing, Busy, Serves
<1>3. owed[c] - 1 \in 0..MaxRequests
  BY <1>1, <1>2
<1>4. TypeOK'
  BY <1>3 DEF TypeOK, Serves, pool
<1>5. Lines' /\ SocketsOwned'
  BY LoopKeepsSockets
<1>6. Owing'
  <2>1. /\ owed'[c] \in {owed[c], owed[c] - 1} /\ ~Busy(c)'
        /\ sent' = sent /\ inbox' = inbox /\ sent[c] \in Int
    <3>1. CASE peer[c] = "here"
      BY <3>1 DEF TypeOK, Serves, Busy
    <3>2. CASE peer[c] # "here"
      BY <3>2 DEF TypeOK, Serves, Busy
    <3> QED
      BY <3>1, <3>2
  <2>2. \A d \in Client \ {c} : owed'[d] = owed[d] /\ Busy(d)' = Busy(d)
    BY DEF TypeOK, Serves, Busy
  <2> QED
    BY <1>1, <1>2, <2>1, <2>2 DEF Owing
<1> QED
  BY <1>4, <1>5, <1>6

\* A task that ends gives its worker back, and no other worker had it.
LEMMA FinishFrees ==
    ASSUME IInv, NEW w \in Worker, NEW c \in Client, running[w] = c,
           Pool!Finish(w)
    PROVE  /\ running' \in [Worker -> Client \cup {NoClient}] /\ done' \subseteq Client
           /\ Running' = Running \ {c} /\ c \in Running
           /\ \A u, v \in Worker : running'[u] = running'[v] /\ u # v
                                       => running'[u] = NoClient
<1> USE ServerAssumption DEF IInv, Pool!Finish
<1>1. c # NoClient
  OBVIOUS
<1>2. \A v \in Worker \ {w} : running[v] # c
  BY <1>1 DEF SocketsOwned
<1>3. running' = [running EXCEPT ![w] = NoClient] /\ done' = done \cup {c}
  OBVIOUS
<1>4. Running' = Running \ {c} /\ c \in Running
  BY <1>1, <1>2, <1>3 DEF Running, TypeOK
<1> QED
  BY <1>3, <1>4 DEF TypeOK, SocketsOwned

\* A task that throws leaves its socket to nobody.
LEMMA ThrowIInv ==
    ASSUME IInv, NEW w \in Worker, NEW c \in Client, Throw(w, c)
    PROVE  IInv'
<1> USE DEF IInv, Throw
<1>1. /\ running' \in [Worker -> Client \cup {NoClient}] /\ done' \subseteq Client
      /\ Running' = Running \ {c} /\ c \in Running
      /\ \A u, v \in Worker : running'[u] = running'[v] /\ u # v
                                  => running'[u] = NoClient
  BY FinishFrees DEF Serves
<1>2. queue' = queue /\ state' = state
  BY DEF Pool!Finish
<1>3. TypeOK'
  BY <1>1, <1>2 DEF TypeOK, Serves
<1>4. Lines'
  BY <1>2 DEF Lines, Backlog
<1>5. Owing'
  BY DEF Owing, Busy, Serves, TypeOK
<1>6. Thrown' = Thrown \cup {c} /\ Queued' = Queued
  BY <1>2 DEF Serves, Thrown, Queued, TypeOK
<1>7. SocketsOwned'
  BY <1>1, <1>6 DEF SocketsOwned
<1> QED
  BY <1>3, <1>4, <1>5, <1>7

\* A task that closes its socket had it for itself.
LEMMA CloseSocketIInv ==
    ASSUME IInv, NEW w \in Worker, NEW c \in Client, CloseSocket(w, c)
    PROVE  IInv'
<1> USE DEF IInv, CloseSocket
<1>1. /\ running' \in [Worker -> Client \cup {NoClient}] /\ done' \subseteq Client
      /\ Running' = Running \ {c} /\ c \in Running
      /\ \A u, v \in Worker : running'[u] = running'[v] /\ u # v
                                  => running'[u] = NoClient
  BY FinishFrees DEF Serves
<1>2. queue' = queue /\ state' = state
  BY DEF Pool!Finish
<1>3. TypeOK'
  BY <1>1, <1>2 DEF TypeOK, Serves
<1>4. socket[c] = "open"
  BY <1>1 DEF SocketsOwned
<1>5. Lines'
  BY <1>2, <1>4 DEF Lines, Backlog, TypeOK
<1>6. Owing'
  BY DEF Owing, Busy, Serves, TypeOK
<1>7. Thrown' = Thrown /\ c \notin Thrown /\ Queued' = Queued
  BY <1>2 DEF Serves, Thrown, Queued, TypeOK
<1>8. {d \in Client : socket'[d] = "open"} = {d \in Client : socket[d] = "open"} \ {c}
  BY DEF TypeOK
<1>9. SocketsOwned'
  BY <1>1, <1>7, <1>8 DEF SocketsOwned
<1> QED
  BY <1>3, <1>5, <1>6, <1>9

-------------------------------------------------------------------------------
(* The theorems.                                                             *)

\* Every step keeps the invariant.
LEMMA NextIInv == IInv /\ [Next]_vars => IInv'
<1> SUFFICES ASSUME IInv, [Next]_vars PROVE IInv'
  OBVIOUS
<1>1. ASSUME NEW c \in Client, ClientStep(c) PROVE IInv'
  BY <1>1, ConnectIInv, SendIInv, HangUpIInv DEF ClientStep
<1>2. CASE Accept \/ AcceptFails \/ Joined
  BY <1>2, AcceptIInv, CloseIInv
<1>3. ASSUME NEW w \in Worker, Begin(w) PROVE IInv'
  BY <1>3, BeginIInv
<1>4. ASSUME NEW w \in Worker, NEW c \in Client, TaskStep(w, c) PROVE IInv'
  BY <1>4, RecvIInv, RecvEndIInv, ProcessIInv, ThrowIInv, ReplyIInv,
     CloseSocketIInv DEF TaskStep
<1>5. CASE UNCHANGED vars
  <2> USE <1>5 DEF vars, pool, IInv
  <2>1. TypeOK'
    BY DEF TypeOK
  <2>2. Lines'
    BY DEF Lines, Distinct, Backlog
  <2>3. Owing'
    BY DEF Owing, Busy
  <2>4. SocketsOwned'
    BY DEF SocketsOwned, Queued, Running, Thrown
  <2> QED
    BY <2>1, <2>2, <2>3, <2>4
<1> QED
  BY <1>1, <1>2, <1>3, <1>4, <1>5 DEF Next

LEMMA Invariance == Spec => []IInv
BY InitIInv, NextIInv, PTL DEF Spec

(***************************************************************************)
(* The server's state stays well formed; in particular no client is owed a *)
(* negative number of replies, or more than it has sent requests           *)
(* (RedisServer::run).                                                     *)
(***************************************************************************)
THEOREM ServerTypeCorrect == Spec => []TypeOK
<1>1. IInv => TypeOK
  BY DEF IInv
<1> QED
  BY <1>1, Invariance, PTL

(***************************************************************************)
(* Every open descriptor belongs to exactly one task, queued, running or   *)
(* thrown, for any number of clients and workers (RedisServer.cpp:144).    *)
(***************************************************************************)
THEOREM DescriptorsOwned == Spec => []SocketsOwned
<1>1. IInv => SocketsOwned
  BY DEF IInv
<1> QED
  BY <1>1, Invariance, PTL

(***************************************************************************)
(* A connection has been reset only if its client has left with nothing to *)
(* answer: of one request at most, the reply has met no client already.    *)
(***************************************************************************)
Survival ==
    /\ alive
    /\ \A c \in Client :
          /\ owed[c] <= 1
          /\ reset[c] => peer[c] = "gone" /\ inbox[c] = <<>> /\ ~Busy(c)

\* A client waits for each reply before it sends the next request.
LEMMA StepSurvives ==
    ASSUME Window = 1, IInv, Survival, [Next]_vars
    PROVE  Survival'
<1> USE DEF IInv
<1>1. \A c \in Client : owed[c] \in Nat /\ Len(inbox[c]) \in Nat
  BY DEF TypeOK
<1>2. ASSUME NEW c \in Client, Connect(c) PROVE Survival'
  BY <1>2 DEF Connect, Survival, Busy, TypeOK
<1>3. ASSUME NEW c \in Client, NEW r \in Requests[c], Send(c, r) PROVE Survival'
  <2>1. owed'[c] = 1 /\ ~reset[c] /\ \A d \in Client \ {c} : owed'[d] = owed[d]
    BY <1>1, <1>3 DEF Send, Survival, TypeOK
  <2>2. \A d \in Client \ {c} : inbox'[d] = inbox[d]
    BY <1>3 DEF Send, TypeOK
  <2> QED
    BY <1>3, <2>1, <2>2 DEF Send, Survival, Busy
<1>4. ASSUME NEW c \in Client, HangUp(c) PROVE Survival'
  BY <1>4 DEF HangUp, Survival, Busy, TypeOK
<1>5. CASE Accept \/ AcceptFails \/ Joined \/ \E w \in Worker : Begin(w)
  BY <1>5 DEF Accept, AcceptFails, Joined, Begin, Survival, Busy
<1>6. ASSUME NEW w \in Worker, NEW c \in Client, TaskStep(w, c) PROVE Survival'
  <2>1. CASE Recv(w, c)
    <3>1. ~reset[c]
      BY <2>1 DEF Recv, Survival
    <3>2. \A d \in Client \ {c} : inbox'[d] = inbox[d] /\ Busy(d)' = Busy(d)
      BY <2>1 DEF Recv, Serves, Busy, TypeOK
    <3> QED
      BY <2>1, <3>1, <3>2 DEF Recv, Survival
  <2>2. CASE RecvEnd(w, c)
    BY <2>2 DEF RecvEnd, Serves, Survival, Busy, TypeOK
  <2>3. CASE Process(w, c)
    <3>1. ~reset[c]
      BY <2>3 DEF Process, Serves, Survival, Busy
    <3> QED
      BY <2>3, <3>1 DEF Process, Serves, Survival, Busy, TypeOK
  <2>4. CASE Throw(w, c)
    BY <2>4 DEF Throw, Serves, Survival, Busy, TypeOK
  <2>5. CASE Reply(w, c)
    <3>1. Busy(c) /\ ~reset[c]
      BY <2>5 DEF Reply, Serves, Survival, Busy
    <3>2. Len(inbox[c]) = 0 /\ owed[c] = 1
      BY <1>1, <3>1 DEF Owing, Survival
    <3>3. inbox[c] = <<>>
      BY <3>2 DEF TypeOK
    <3>4. /\ alive' /\ inbox' = inbox /\ peer' = peer
          /\ owed'[c] \in {0, 1} /\ ~Busy(c)'
          /\ reset'[c] => peer[c] = "gone"
      <4>1. peer[c] # "absent"
        BY <2>5, ServerAssumption DEF Reply, Serves, Lines, SocketsOwned, Running
      <4>2. CASE peer[c] = "here"
        BY <2>5, <3>1, <3>2, <4>2 DEF Reply, Serves, Survival, Busy, TypeOK
      <4>3. CASE peer[c] = "gone"
        BY <2>5, <3>1, <3>2, <4>3 DEF Reply, Serves, Survival, Busy, TypeOK
      <4> QED
        BY <4>1, <4>2, <4>3 DEF TypeOK
    <3>5. \A d \in Client \ {c} : /\ owed'[d] = owed[d] /\ reset'[d] = reset[d]
                                  /\ Busy(d)' = Busy(d)
      BY <2>5 DEF Reply, Serves, Busy, TypeOK
    <3> QED
      BY <3>3, <3>4, <3>5 DEF Survival
  <2>6. CASE CloseSocket(w, c)
    BY <2>6 DEF CloseSocket, Serves, Survival, Busy, TypeOK
  <2> QED
    BY <1>6, <2>1, <2>2, <2>3, <2>4, <2>5, <2>6 DEF TaskStep
<1>7. CASE UNCHANGED vars
  BY <1>7 DEF vars, Survival, Busy
<1> QED
  BY <1>2, <1>3, <1>4, <1>5, <1>6, <1>7 DEF Next, ClientStep

(***************************************************************************)
(* When clients wait for each reply before they send the next request,     *)
(* none ends the server by leaving, however many there are and whenever    *)
(* they leave: the second send on a reset connection, which would raise    *)
(* SIGPIPE, is never made (RedisServer.cpp:158).                           *)
(***************************************************************************)
THEOREM PatientClientsSpareServer ==
    ASSUME Window = 1
    PROVE  Spec => []ServerSurvives
<1>1. Init => Survival
  BY DEF Init, Survival
<1>2. IInv /\ Survival /\ [Next]_vars => Survival'
  BY StepSurvives
<1>3. Survival => ServerSurvives
  BY DEF Survival, ServerSurvives
<1> QED
  BY <1>1, <1>2, <1>3, Invariance, PTL DEF Spec
===============================================================================
