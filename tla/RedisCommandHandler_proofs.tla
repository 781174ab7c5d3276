--------------------- MODULE RedisCommandHandler_proofs ------------------------
(***************************************************************************)
(* Proofs about RedisCommandHandler, for any requests whose arguments fit  *)
(* the database's operations, and any number of workers: the types, that   *)
(* the database goes through whole operations only, that replies are one   *)
(* RESP value each, that a refused command leaves no trace, and that the   *)
(* elements of a push are stored once and in order.  The last part is      *)
(* about RedisClient, which composes the handlers with a connection and    *)
(* the command line client.                                                *)
(***************************************************************************)
EXTENDS RedisClient, RedisCommandHandlerProperties, RedisDatabaseSteps_proofs

\* What a worker holds: nothing, or a push of S and an end piece of its elements.
FrameIn(S, f) ==
    \/ f = Idle
    \/ /\ f = [req |-> f.req, left |-> f.left]
       /\ f.req \in S
       /\ f.req.cmd \in PushCommands /\ Accepted(f.req)
       /\ \E i \in 1..Len(f.req.args) :
             f.left = SubSeq(f.req.args, i + 1, Len(f.req.args))

\* The workers hold nothing else.
FramesIn(S) ==
    /\ frame = [w \in Worker |-> frame[w]]
    /\ \A w \in Worker : FrameIn(S, frame[w])

\* The inductive invariant: what BeginPush took, PushElement has part of.
Frames == FramesIn(Requests \cup Pushes) /\ todo \subseteq Pushes

-------------------------------------------------------------------------------
(* Arguments.                                                                *)

\* A set of positions that is not empty has a last one.
LEMMA LastExists ==
    ASSUME NEW n \in Nat, NEW S, S \subseteq 1..n, S # {}
    PROVE  \E i \in S : \A j \in S : j <= i
<1> DEFINE T == {n - i : i \in S}
<1>1. \A i \in S : i \in Nat /\ n - i \in Nat
  OBVIOUS
<1>2. T \subseteq Nat /\ T # {}
  BY <1>1
<1>3. \E x \in T : \A y \in T : ~(<<y, x>> \in OpToRel(<, Nat))
  <2> HIDE DEF T
  <2> QED
    BY <1>2, WFMin, NatLessThanWellFounded
<1>4. PICK x \in T : \A y \in T : ~(y < x)
  BY <1>2, <1>3 DEF OpToRel
<1>5. PICK i \in S : x = n - i
  OBVIOUS
<1>6. ASSUME NEW j \in S PROVE j <= i
  <2>1. n - j \in T /\ ~(n - j < n - i)
    BY <1>4, <1>5
  <2> QED
    BY <1>1, <2>1
<1> QED
  BY <1>6

\* The pairs after the key of an HMSET are fields with values, at least one.
LEMMA PairsOfTyped ==
    ASSUME NEW a, Len(a) \in Nat, Len(a) >= 3, Len(a) % 2 = 1,
           \A i \in 2..Len(a) : a[i] \in IF i % 2 = 0 THEN Field ELSE Value
    PROVE  PairsOf(a) \in FieldValues
<1> DEFINE fieldAt == {i \in 2..Len(a) : i % 2 = 0}
           fields == {a[i] : i \in fieldAt}
           IsLast(f, i) == a[i] = f /\ \A j \in fieldAt : a[j] = f => j <= i
           LastOf(f) == CHOOSE i \in fieldAt : IsLast(f, i)
<1>1. fields \subseteq Field /\ fields # {} /\ IsFiniteSet(fields)
  <2>1. 2 \in fieldAt
    OBVIOUS
  <2>2. IsFiniteSet(fieldAt)
    <3>1. 2 \in Int /\ Len(a) \in Int
      OBVIOUS
    <3>2. IsFiniteSet(2..Len(a))
      BY <3>1, FS_Interval
    <3> QED
      BY <3>2, FS_Subset
  <2>3. [i \in fieldAt |-> a[i]] \in Surjection(fieldAt, fields)
    BY DEF Surjection
  <2> QED
    BY <2>1, <2>2, <2>3, FS_Surjection
<1>2. ASSUME NEW f \in fields
      PROVE  a[LastOf(f) + 1] \in Value
  <2> DEFINE S == {i \in fieldAt : a[i] = f}
  <2>1. S # {} /\ S \subseteq 1..Len(a)
    OBVIOUS
  <2>2. PICK i \in S : \A j \in S : j <= i
    <3> HIDE DEF S
    <3> QED
      BY <2>1, LastExists
  <2>3. \E j \in fieldAt : IsLast(f, j)
    BY <2>2
  <2> HIDE DEF IsLast
  <2>4. LastOf(f) \in fieldAt
    BY <2>3
  <2>5. ASSUME NEW n \in Nat, n % 2 = 1, NEW m \in 2..n, m % 2 = 0
        PROVE  m + 1 \in 2..n /\ (m + 1) % 2 = 1
    <3>1. m \in Nat /\ 2 <= m /\ m <= n
      OBVIOUS
    <3>2. m # n
      BY <2>5
    <3>3. m + 1 \in 2..n
      BY <3>1, <3>2
    <3>4. (m + 1) % 2 = 1
      BY <2>5, <3>1
    <3> QED
      BY <3>3, <3>4
  <2>6. LastOf(f) + 1 \in 2..Len(a) /\ (LastOf(f) + 1) % 2 = 1
    <3> HIDE DEF LastOf
    <3> QED
      BY <2>4, <2>5
  <2> HIDE DEF LastOf
  <2> QED
    BY <2>6
<1>3. PairsOf(a) = [f \in fields |-> a[LastOf(f) + 1]]
  BY DEF PairsOf
<1> HIDE DEF LastOf, fields
<1>4. PairsOf(a) \in [fields -> Value]
  BY <1>2, <1>3
<1>5. fields \in {S \in SUBSET Field : S # {} /\ IsFiniteSet(S)}
  BY <1>1
<1> QED
  BY <1>4, <1>5 DEF FieldValues

-------------------------------------------------------------------------------
(* Commands.                                                                 *)

\* A refused command leaves the database alone.
LEMMA RefusedStutters ==
    ASSUME NEW o \in Answer(db, Error), Becomes(o.db)
    PROVE  UNCHANGED vars
BY DEF Answer, Becomes, vars

\* A command other than a push is one operation of the database, or none.
LEMMA CommandIsOperation ==
    ASSUME NEW r, Fits(r), Accepted(r), r.cmd \notin PushCommands,
           NEW o \in processCommand(db, now, r), Becomes(o.db)
    PROVE  [Next]_vars
<1> DEFINE a == r.args
           k == a[1]
<1>1. r.cmd \in DOMAIN MinArgs /\ Len(a) >= MinArgs[r.cmd]
  BY DEF Accepted
<1> USE DEF Answer, AnyOf
<1>2. ASSUME r.cmd \in {"PING", "ECHO"} PROVE UNCHANGED vars
  BY <1>2 DEF processCommand, handlePing, handleEcho, Becomes, vars
<1>3. ASSUME r.cmd = "FLUSHALL" PROVE FlushAll
  BY <1>3 DEF processCommand, handleFlushAll, FlushAll
<1>4. ASSUME r.cmd = "KEYS" PROVE Keys
  BY <1>4 DEF processCommand, handleKeys, Keys
<1>5. ASSUME r.cmd \notin {"PING", "ECHO", "FLUSHALL", "KEYS"} PROVE k \in Key
  BY <1>5 DEF Fits
<1>6. ASSUME r.cmd = "SET" PROVE KeyStep(k)
  <2>1. a[2] \in Value
    BY <1>6 DEF Fits
  <2>2. Set(k, a[2], 0)
    BY <1>6 DEF processCommand, handleSet, Set
  <2> QED
    BY <2>1, <2>2 DEF KeyStep
<1>7. ASSUME r.cmd \in {"GET", "TYPE", "DEL", "UNLINK"} PROVE KeyStep(k)
  BY <1>7 DEF processCommand, handleGet, handleType, handleDel, Get, Type, Del, KeyStep
<1>8. ASSUME r.cmd = "EXPIRE" PROVE KeyStep(k) \/ UNCHANGED vars
  <2>1. CASE IsNumber(a[2])
    <3>1. a[2] \in TTLs \cup {0}
      BY <1>8, <2>1 DEF Fits
    <3>2. Expire(k, a[2])
      BY <1>8, <2>1 DEF processCommand, handleExpire, Expire
    <3> QED
      BY <3>1, <3>2 DEF KeyStep
  <2>2. CASE ~IsNumber(a[2])
    BY <1>8, <2>2, RefusedStutters DEF processCommand, handleExpire
  <2> QED
    BY <2>1, <2>2
<1>9. ASSUME r.cmd = "RENAME" PROVE KeyStep(k)
  <2>1. a[2] \in Key
    BY <1>9 DEF Fits
  <2>2. Rename(k, a[2])
    BY <1>9 DEF processCommand, handleRename, Rename
  <2> QED
    BY <2>1, <2>2 DEF KeyStep
<1>10. ASSUME r.cmd \in {"LGET", "LLEN", "LPOP", "RPOP"} PROVE ListStep(k)
  <2>1. r.cmd = "LGET" => LGet(k)
    BY DEF processCommand, handleLget, LGet
  <2>2. r.cmd = "LLEN" => LLen(k)
    BY DEF processCommand, handleLlen, LLen
  <2>3. r.cmd \in {"LPOP", "RPOP"} => LPop(k)
    BY DEF processCommand, handleLpop, handleRpop, LPop
  <2> QED
    BY <1>10, <2>1, <2>2, <2>3 DEF ListStep
<1>11. ASSUME r.cmd = "LREM" PROVE ListStep(k) \/ UNCHANGED vars
  <2>1. CASE IsNumber(a[2])
    <3>1. a[2] \in Counts /\ a[3] \in Value
      BY <1>11, <2>1 DEF Fits
    <3>2. LRem(k, a[2], a[3])
      BY <1>11, <2>1 DEF processCommand, handleLrem, LRem
    <3> QED
      BY <3>1, <3>2 DEF ListStep
  <2>2. CASE ~IsNumber(a[2])
    BY <1>11, <2>2, RefusedStutters DEF processCommand, handleLrem
  <2> QED
    BY <2>1, <2>2
<1>12. ASSUME r.cmd = "LINDEX" PROVE ListStep(k) \/ UNCHANGED vars
  <2>1. CASE IsNumber(a[2])
    <3>1. a[2] \in Indexes
      BY <1>12, <2>1 DEF Fits
    <3>2. LIndex(k, a[2])
      BY <1>12, <2>1 DEF processCommand, handleLindex, LIndex
    <3> QED
      BY <3>1, <3>2 DEF ListStep
  <2>2. CASE ~IsNumber(a[2])
    BY <1>12, <2>2, RefusedStutters DEF processCommand, handleLindex
  <2> QED
    BY <2>1, <2>2
<1>13. ASSUME r.cmd = "LSET" PROVE ListStep(k) \/ UNCHANGED vars
  <2>1. CASE IsNumber(a[2])
    <3>1. a[2] \in Indexes /\ a[3] \in Value
      BY <1>13, <2>1 DEF Fits
    <3>2. LSet(k, a[2], a[3])
      BY <1>13, <2>1 DEF processCommand, handleLset, LSet
    <3> QED
      BY <3>1, <3>2 DEF ListStep
  <2>2. CASE ~IsNumber(a[2])
    BY <1>13, <2>2, RefusedStutters DEF processCommand, handleLset
  <2> QED
    BY <2>1, <2>2
<1>14. ASSUME r.cmd = "HSET" PROVE HashStep(k)
  <2>1. a[2] \in Field /\ a[3] \in Value
    BY <1>14 DEF Fits
  <2>2. HSet(k, a[2], a[3])
    BY <1>14 DEF processCommand, handleHset, HSet
  <2> QED
    BY <2>1, <2>2 DEF HashStep
<1>15. ASSUME r.cmd \in {"HGET", "HEXISTS", "HDEL"} PROVE HashStep(k)
  <2>1. a[2] \in Field
    BY <1>15 DEF Fits
  <2>2. HGet(k, a[2]) \/ HExists(k, a[2]) \/ HDel(k, a[2])
    BY <1>15 DEF processCommand, handleHget, handleHexists, handleHdel,
       HGet, HExists, HDel
  <2> QED
    BY <2>1, <2>2 DEF HashStep
<1>16. ASSUME r.cmd \in {"HGETALL", "HKEYS", "HVALS", "HLEN"} PROVE HashStep(k)
  BY <1>16 DEF processCommand, handleHgetall, handleHkeys, handleHvals, handleHlen,
     HGetAll, HKeys, HVals, HLen, HashStep
<1>17. ASSUME r.cmd = "HMSET" PROVE HashStep(k) \/ UNCHANGED vars
  <2>1. CASE Len(a) % 2 = 0
    BY <1>17, <2>1, RefusedStutters DEF processCommand, handleHmset
  <2>2. CASE Len(a) % 2 # 0
    <3>1. Len(a) \in Nat /\ Len(a) >= 3 /\ Len(a) % 2 = 1
      <4>1. Len(a) \in Nat
        <5> DEFINE S == Range(a)
        <5>1. a \in Seq(S)
          BY DEF Fits
        <5> HIDE DEF S, a
        <5> QED
          BY <5>1
      <4>2. Len(a) >= 3
        BY <1>1, <1>17 DEF MinArgs
      <4> HIDE DEF a
      <4> QED
        BY <2>2, <4>1, <4>2
    <3>2. PairsOf(a) \in FieldValues
      BY <1>17, <3>1, PairsOfTyped DEF Fits
    <3>3. HMSet(k, PairsOf(a))
      BY <1>17, <2>2 DEF processCommand, handleHmset, HMSet
    <3> QED
      BY <3>2, <3>3 DEF HashStep
  <2> QED
    BY <2>1, <2>2
<1>18. r.cmd \in {"PING", "ECHO", "FLUSHALL", "SET", "GET", "KEYS", "TYPE", "DEL",
                 "UNLINK", "EXPIRE", "RENAME", "LGET", "LLEN", "LPOP", "RPOP",
                 "LREM", "LINDEX", "LSET", "HSET", "HGET", "HEXISTS", "HDEL",
                 "HGETALL", "HKEYS", "HVALS", "HLEN", "HMSET"}
  BY <1>1 DEF MinArgs, PushCommands
<1> QED
  BY <1>2, <1>3, <1>4, <1>5, <1>6, <1>7, <1>8, <1>9, <1>10, <1>11, <1>12, <1>13,
     <1>14, <1>15, <1>16, <1>17, <1>18 DEF Next

\* A request that is refused leaves the database alone, and others are one
\* operation or none.
LEMMA CommandStep ==
    ASSUME NEW r, Fits(r), Command(r)
    PROVE  [Next]_vars
<1>1. PICK o \in processCommand(db, now, r) : Becomes(o.db)
  BY DEF Command
<1>2. CASE Accepted(r)
  <2>1. r.cmd \notin PushCommands
    BY <1>2 DEF Command
  <2> QED
    BY <1>1, <1>2, <2>1, CommandIsOperation
<1>3. CASE ~Accepted(r)
  <2>1. o \in Answer(db, Error)
    BY <1>1, <1>3 DEF processCommand
  <2> QED
    BY <1>1, <2>1, RefusedStutters
<1> QED
  BY <1>2, <1>3

-------------------------------------------------------------------------------
(* Pushes.                                                                   *)

\* The arguments of a push: a key, then values.
LEMMA PushArguments ==
    ASSUME NEW r, Fits(r), Accepted(r), r.cmd \in PushCommands
    PROVE  /\ r.args \in Seq(Range(r.args)) /\ Len(r.args) >= 1
           /\ r.args[1] \in Key
           /\ \A i \in 2..Len(r.args) : r.args[i] \in Value
<1>1. r.args \in Seq(Range(r.args)) /\ \A i \in 2..Len(r.args) : r.args[i] \in Value
  BY DEF Fits
<1>2. r.args[1] \in Key
  BY DEF Fits, PushCommands
<1>3. Len(r.args) >= 1
  <2>1. MinArgs[r.cmd] \in {1, 2} /\ Len(r.args) >= MinArgs[r.cmd]
    BY DEF Accepted, MinArgs, PushCommands
  <2>2. Len(r.args) \in Nat
    <3> DEFINE S == Range(r.args)
    <3> HIDE DEF S
    <3>1. r.args \in Seq(S)
      BY <1>1 DEF S
    <3> QED
      BY <3>1
  <2> QED
    BY <2>1, <2>2
<1> QED
  BY <1>1, <1>2, <1>3

\* What is left of an end piece after its first element is an end piece.
LEMMA EndPieces ==
    ASSUME NEW S, NEW a \in Seq(S), NEW i \in 1..Len(a),
           SubSeq(a, i + 1, Len(a)) # <<>>
    PROVE  /\ i + 1 \in 2..Len(a)
           /\ Head(SubSeq(a, i + 1, Len(a))) = a[i + 1]
           /\ Tail(SubSeq(a, i + 1, Len(a))) = SubSeq(a, i + 2, Len(a))
<1>1. i + 1 \in 2..Len(a)
  BY SubSeqEmpty
<1>2. i + 1 \in 1..Len(a) /\ Len(a) \in (i + 1)..Len(a) /\ (i + 1) + 1 = i + 2
  BY <1>1
<1> QED
  BY <1>1, <1>2, HeadTailOfSubSeq

\* A turn of the push loop is one LPUSH or RPUSH of the database.
LEMMA PushElementStep ==
    ASSUME NEW S, \A r \in S : Fits(r), FramesIn(S),
           NEW w \in Worker, PushElement(w)
    PROVE  Next /\ FramesIn(S)'
<1> DEFINE f == frame[w]
           a == f.req.args
<1>1. f.left # <<>> /\ f # Idle
  BY DEF PushElement, Idle
<1>2. /\ f = [req |-> f.req, left |-> f.left]
      /\ f.req \in S
      /\ f.req.cmd \in PushCommands /\ Accepted(f.req)
  BY <1>1 DEF FramesIn, FrameIn
<1>3. PICK i \in 1..Len(a) : f.left = SubSeq(a, i + 1, Len(a))
  BY <1>1 DEF FramesIn, FrameIn
<1>4. /\ a \in Seq(Range(a)) /\ a[1] \in Key
      /\ \A j \in 2..Len(a) : a[j] \in Value
  BY <1>2, PushArguments
<1>5. /\ i + 1 \in 2..Len(a)
      /\ Head(f.left) = a[i + 1]
      /\ Tail(f.left) = SubSeq(a, i + 2, Len(a))
  <2> DEFINE R == Range(a)
  <2> HIDE DEF R, a
  <2>1. a \in Seq(R) /\ f.left = SubSeq(a, i + 1, Len(a)) /\ f.left # <<>>
    BY <1>1, <1>3, <1>4 DEF R
  <2> QED
    BY <2>1, EndPieces
<1>6. Next
  <2>1. LPush(a[1], Head(f.left)) \/ RPush(a[1], Head(f.left))
    BY DEF PushElement
  <2>2. Head(f.left) \in Value
    BY <1>4, <1>5
  <2> QED
    BY <1>4, <2>1, <2>2 DEF ListStep, Next
<1>7. FramesIn(S)'
  <2> DEFINE g == [f EXCEPT !.left = Tail(@)]
  <2>1. frame' = [frame EXCEPT ![w] = g] /\ todo' = todo
    BY DEF PushElement
  <2>2. g = [req |-> f.req, left |-> SubSeq(a, i + 2, Len(a))]
    <3>1. ASSUME NEW x, NEW y, NEW z
          PROVE  [[req |-> x, left |-> y] EXCEPT !.left = z] = [req |-> x, left |-> z]
      OBVIOUS
    <3>2. g = [[req |-> f.req, left |-> f.left] EXCEPT !.left = Tail(f.left)]
      <4> HIDE DEF f
      <4> QED
        BY <1>2
    <3> QED
      BY <1>5, <3>1, <3>2
  <2>3. FrameIn(S, g)
    <3>1. i + 1 \in 1..Len(a) /\ g.left = SubSeq(a, (i + 1) + 1, Len(a))
      <4>1. i + 1 \in 1..Len(a) /\ i + 2 = (i + 1) + 1
        <5> HIDE DEF a
        <5> QED
          BY <1>5
      <4> HIDE DEF a, f, g
      <4> QED
        BY <2>2, <4>1
    <3> QED
      BY <1>2, <2>2, <3>1 DEF FrameIn
  <2> HIDE DEF g
  <2> QED
    BY <2>1, <2>3 DEF FramesIn
<1> QED
  BY <1>6, <1>7

\* The end of a push is one LLEN of the database.
LEMMA EndPushStep ==
    ASSUME NEW S, \A r \in S : Fits(r), FramesIn(S),
           NEW w \in Worker, EndPush(w)
    PROVE  Next /\ FramesIn(S)'
<1> DEFINE r == frame[w].req
<1>1. r \in S /\ r.cmd \in PushCommands /\ Accepted(r)
  BY DEF EndPush, FramesIn, FrameIn
<1>2. r.args[1] \in Key
  BY <1>1, PushArguments
<1>3. LLen(r.args[1])
  BY DEF EndPush, LLen
<1>4. FramesIn(S)'
  BY DEF EndPush, FramesIn, FrameIn
<1> QED
  BY <1>2, <1>3, <1>4 DEF ListStep, Next

\* The beginning of a push leaves the database alone.
LEMMA BeginPushStep ==
    ASSUME NEW S, \A r \in S : Fits(r), FramesIn(S),
           NEW w \in Worker, NEW r \in S, BeginPush(w, r)
    PROVE  UNCHANGED vars /\ FramesIn(S)'
<1> DEFINE a == r.args
           g == [req |-> r, left |-> Tail(a)]
<1>1. r \in S /\ r.cmd \in PushCommands /\ Accepted(r)
  BY DEF BeginPush
<1>2. a \in Seq(Range(a)) /\ Len(a) >= 1
  BY <1>1, PushArguments
<1>3. Tail(a) = SubSeq(a, 2, Len(a)) /\ 1 \in 1..Len(a)
  <2> DEFINE R == Range(a)
  <2> HIDE DEF R, a
  <2>1. a \in Seq(R) /\ Len(a) >= 1
    BY <1>2 DEF R
  <2> QED
    BY <2>1, TailIsSubSeq
<1>4. FrameIn(S, g)
  BY <1>1, <1>3 DEF FrameIn
<1>5. frame' = [frame EXCEPT ![w] = g] /\ todo' \subseteq todo /\ UNCHANGED <<db, now>>
  BY DEF BeginPush
<1> HIDE DEF g
<1> QED
  BY <1>4, <1>5 DEF FramesIn, vars

-------------------------------------------------------------------------------
(* The theorems.                                                             *)

\* Every step is a step of the database or leaves it alone.
LEMMA HandlerStep ==
    ASSUME \A r \in Requests \cup Pushes : Fits(r), Frames,
           [HandlerNext]_handlerVars
    PROVE  [Next]_vars /\ Frames'
<1> DEFINE S == Requests \cup Pushes
<1>1. ASSUME NEW r \in Requests, Command(r) PROVE [Next]_vars /\ Frames'
  <2>1. [Next]_vars
    BY <1>1, CommandStep
  <2>2. Frames'
    BY <1>1 DEF Command, Frames, FramesIn
  <2> QED
    BY <2>1, <2>2
<1>2. ASSUME NEW w \in Worker, NEW r \in Requests \cup todo, BeginPush(w, r)
      PROVE  [Next]_vars /\ Frames'
  <2>1. r \in S
    BY DEF Frames
  <2>2. UNCHANGED vars /\ FramesIn(S)'
    BY <1>2, <2>1, BeginPushStep DEF Frames
  <2>3. todo' \subseteq Pushes
    BY <1>2 DEF BeginPush, Frames
  <2> QED
    BY <2>2, <2>3 DEF Frames
<1>3. ASSUME NEW w \in Worker, PushStep(w) PROVE [Next]_vars /\ Frames'
  <2>1. Next /\ FramesIn(S)'
    BY <1>3, PushElementStep, EndPushStep DEF PushStep, Frames
  <2>2. UNCHANGED todo
    BY <1>3 DEF PushStep, PushElement, EndPush
  <2> QED
    BY <2>1, <2>2 DEF Frames
<1>4. ASSUME Tick, UNCHANGED <<frame, todo, last>> PROVE [Next]_vars /\ Frames'
  BY <1>4 DEF Next, Frames, FramesIn
<1>5. CASE UNCHANGED handlerVars
  BY <1>5 DEF handlerVars, vars, Frames, FramesIn
<1> QED
  BY <1>1, <1>2, <1>3, <1>4, <1>5 DEF HandlerNext

(***************************************************************************)
(* processCommand refines the database.  For any requests whose arguments  *)
(* fit, any number of workers and any interleaving of their pushes, what   *)
(* the handlers do is a behaviour of RedisDatabase: every theorem about    *)
(* Spec holds below the handlers.                                          *)
(***************************************************************************)
THEOREM HandlersImplementDatabase ==
    ASSUME \A r \in Requests \cup Pushes : Fits(r)
    PROVE  HandlerSpec => ImplementsDatabase
<1>1. HandlerInit => Init /\ Frames
  BY DEF HandlerInit, Frames, FramesIn, FrameIn
<1>2. Frames /\ [HandlerNext]_handlerVars => [Next]_vars /\ Frames'
  BY HandlerStep
<1> QED
  BY <1>1, <1>2, PTL DEF HandlerSpec, ImplementsDatabase, Spec

(***************************************************************************)
(* The database below the handlers keeps its types, and every worker       *)
(* inside LPUSH or RPUSH still has an end piece of its elements to push.   *)
(***************************************************************************)
THEOREM HandlerTypeCorrect ==
    ASSUME \A r \in Requests \cup Pushes : Fits(r)
    PROVE  HandlerSpec => []HandlerTypeOK
<1>1. HandlerInit => Frames
  BY DEF HandlerInit, Frames, FramesIn, FrameIn
<1>2. Frames /\ [HandlerNext]_handlerVars => Frames'
  BY HandlerStep
<1>3. Frames /\ TypeOK => HandlerTypeOK
  BY DEF Frames, FramesIn, FrameIn, TypeOK, HandlerTypeOK
<1> QED
  BY <1>1, <1>2, <1>3, HandlersImplementDatabase, TypeCorrect, PTL
     DEF HandlerSpec, ImplementsDatabase

-------------------------------------------------------------------------------
(* Replies.                                                                  *)

\* The commands that answer with an array.
ArrayCommands == {"KEYS", "HGETALL", "HKEYS", "HVALS"}

\* The commands that may be answered with an error although they are accepted.
RefusableCommands == {"EXPIRE", "RENAME", "LREM", "LINDEX", "LSET", "HMSET"}

\* The scalars this server sends.
Plain(reply) ==
    \/ reply \in {Status, Error, Nil}
    \/ \E n : reply = Integer(n)
    \/ \E v : reply = Bulk(v)

\* What a request is answered with, unless it is one of the Misanswered.
ReplyForm(r, reply) ==
    \/ /\ Plain(reply)
       /\ reply = Error /\ Accepted(r) => r.cmd \in RefusableCommands
    \/ r.cmd \in ArrayCommands /\ \E n \in Nat : reply = Array(n)

\* The replies that are one item, or a bulk string.
LEMMA Scalars ==
    /\ IsScalar(Status) /\ Status # Error
    /\ IsScalar(Error)
    /\ IsScalar(Nil) /\ Nil # Error
    /\ \A n : IsScalar(Integer(n)) /\ Integer(n) # Error
    /\ \A v : IsScalar(Bulk(v)) /\ Bulk(v) # Error
    /\ <<BulkHeader>> # Error
<1>1. \A x : Len(<<x>>) = 1 /\ <<x>>[1] = x
  OBVIOUS
<1>2. \A x, y : Len(<<x, y>>) = 2 /\ <<x, y>>[1] = x /\ <<x, y>>[2] = y
  OBVIOUS
<1>3. \A p, v : Item(p, v).prefix = p
  BY DEF Item
<1>4. /\ Status # Error /\ Nil # Error /\ <<BulkHeader>> # Error
      /\ \A n : Integer(n) # Error
      /\ \A v : Bulk(v) # Error
  <2>1. Error[1].prefix = "-"
    BY <1>1, <1>3 DEF Error
  <2>2. /\ Status[1].prefix = "+" /\ Nil[1].prefix = "$"
        /\ <<BulkHeader>>[1].prefix = "$"
        /\ \A n : Integer(n)[1].prefix = ":"
        /\ \A v : Bulk(v)[1].prefix = "$"
    BY <1>1, <1>2, <1>3 DEF Status, Nil, Integer, Bulk, BulkHeader
  <2> QED
    BY <2>1, <2>2
<1> QED
  BY <1>1, <1>2, <1>3, <1>4 DEF IsScalar, Status, Error, Nil, Integer, Bulk

\* An array of n bulk strings has n among the lengths IsReply allows for it,
\* and is no error.
LEMMA ArraysAreReplies ==
    ASSUME NEW n \in Nat
    PROVE  IsReply(Array(n)) /\ Array(n) # Error
<1> DEFINE S == {Item("*", n), BulkHeader, Item("text", 0)}
           m == 2 * n
           head == <<Item("*", n)>>
           body == [i \in 1..m |-> IF i % 2 = 1 THEN BulkHeader ELSE Item("text", 0)]
<1>1. head \in Seq(S) /\ Len(head) = 1
  OBVIOUS
<1>2. m \in Nat /\ n <= 1 + m
  OBVIOUS
<1>3. body \in Seq(S) /\ Len(body) = m
  <2> HIDE DEF m
  <2>1. body \in [1..m -> S]
    OBVIOUS
  <2> HIDE DEF body, S
  <2> QED
    BY <1>2, <2>1
<1>4. Array(n) = head \o body
  BY DEF Array
<1> HIDE DEF S, head, body, m
<1>5. Len(Array(n)) = 1 + m
  BY <1>1, <1>3, <1>4, ConcatProperties, ZenonT(60)
<1>6. n \in 0..Len(Array(n))
  BY <1>2, <1>5
<1>7. Array(n) # Error
  <2>1. 1 \in 1..(Len(head) + Len(body)) /\ 1 <= Len(head)
    BY <1>1, <1>2, <1>3
  <2>2. (head \o body)[1] = head[1]
    BY <1>1, <1>3, <2>1, ConcatProperties
  <2>3. head[1].prefix = "*" /\ Error[1].prefix = "-"
    BY DEF head, Item, Error
  <2> QED
    BY <1>4, <2>2, <2>3
<1> QED
  BY <1>6, <1>7 DEF IsReply

\* What IsReply asks for, from the form of the reply.
LEMMA FormIsReply ==
    ASSUME NEW r, NEW reply, ReplyForm(r, reply)
    PROVE  IsReply(reply)
BY ArraysAreReplies, Scalars DEF ReplyForm, Plain, IsReply

\* A hash that is read has finitely many fields, found or missed.
LEMMA HashRead ==
    ASSUME NEW d, NEW t, Full(d), NEW k
    PROVE  /\ Cardinality(DOMAIN hgetall(d, t, k).ret) \in Nat
           /\ Cardinality(hkeys(d, t, k).ret) \in Nat
           /\ Cardinality(hvals(d, t, k).ret) \in Nat
<1> DEFINE h == d.hash_store[k]
           pairs == {<<f, h[f]>> : f \in DOMAIN h}
<1>1. Cardinality({}) \in Nat /\ DOMAIN EmptyMap = {}
  BY FS_EmptySet DEF EmptyMap
<1>2. ASSUME k \in DOMAIN d.hash_store
      PROVE  Cardinality(DOMAIN h) \in Nat /\ Cardinality(pairs) \in Nat
  <2>1. IsFiniteSet(DOMAIN h)
    BY <1>2, FullParts DEF Sized
  <2>2. [f \in DOMAIN h |-> <<f, h[f]>>] \in Surjection(DOMAIN h, pairs)
    BY DEF Surjection
  <2> HIDE DEF h, pairs
  <2>3. IsFiniteSet(pairs)
    BY <2>1, <2>2, FS_Surjection
  <2> QED
    BY <2>1, <2>3, FS_CardinalityType
<1>3. /\ hgetall(d, t, k).ret \in {h, EmptyMap}
      /\ hkeys(d, t, k).ret \in {DOMAIN h, {}}
      /\ hvals(d, t, k).ret \in {pairs, {}}
      /\ k \notin DOMAIN d.hash_store =>
            /\ hgetall(d, t, k).ret = EmptyMap
            /\ hkeys(d, t, k).ret = {}
            /\ hvals(d, t, k).ret = {}
  BY DEF hgetall, hkeys, hvals, ReadOp
<1> HIDE DEF h, pairs
<1> QED
  BY <1>1, <1>2, <1>3

\* KEYS finds finitely many keys.
LEMMA KeysRead ==
    ASSUME NEW d, NEW t, FiniteStores(d)
    PROVE  Cardinality(keys(d, t).ret) \in Nat
<1>1. IsFiniteSet(StoredKeys(d))
  BY FS_Union DEF FiniteStores, StoredKeys
<1>2. keys(d, t).ret \subseteq StoredKeys(d)
  BY DEF keys
<1> HIDE DEF StoredKeys
<1>3. IsFiniteSet(keys(d, t).ret)
  BY <1>1, <1>2, FS_Subset
<1> QED
  BY <1>3, FS_CardinalityType

(***************************************************************************)
(* Every command that is not one of the Misanswered and does not ask for   *)
(* several things is answered with a scalar, whatever is in the database,  *)
(* and with an error only if it is refused or of a kind that may be.       *)
(***************************************************************************)
LEMMA ReplyIsPlain ==
    ASSUME NEW d, NEW t, NEW r, r = Request(r.cmd, r.args), ~Misanswered(r),
           r.cmd \notin ArrayCommands, ~(r.cmd \in PushCommands /\ Accepted(r)),
           NEW o \in processCommand(d, t, r)
    PROVE  /\ Plain(o.reply)
           /\ o.reply = Error /\ Accepted(r) => r.cmd \in RefusableCommands
<1> DEFINE a == r.args
<1>1. CASE ~Accepted(r)
  BY <1>1 DEF processCommand, Answer, Plain
<1>2. CASE Accepted(r)
  <2> USE DEF Answer, AnyOf
  <2>1. ASSUME r.cmd \in {"PING", "FLUSHALL", "SET", "TYPE"} PROVE o.reply = Status
    BY <1>2, <2>1 DEF processCommand, handlePing, handleFlushAll, handleSet, handleType
  <2>2. ASSUME r.cmd = "ECHO" PROVE o.reply = Status
    <3>1. a # <<>>
      BY <2>2 DEF Misanswered
    <3> QED
      BY <1>2, <2>2, <3>1 DEF processCommand, handleEcho
  <2>3. ASSUME r.cmd \in {"GET", "RPOP", "HGET", "LINDEX"}
        PROVE  \/ o.reply = Error /\ r.cmd = "LINDEX"
               \/ \E S : o.reply = Found(S)
    BY <1>2, <2>3 DEF processCommand, handleGet, handleRpop, handleHget, handleLindex
  <2>4. ASSUME r.cmd \in {"DEL", "UNLINK", "HEXISTS", "HDEL", "LLEN", "LREM",
                          "HSET", "HLEN"}
        PROVE  \/ o.reply = Error /\ r.cmd = "LREM"
               \/ \E n : o.reply = Integer(n)
    BY <1>2, <2>4 DEF processCommand, handleDel, handleHexists, handleHdel,
       handleLlen, handleLrem, handleHset, handleHlen, Flag
  <2>5. ASSUME r.cmd \in {"EXPIRE", "RENAME", "LSET", "HMSET"}
        PROVE  o.reply \in {Status, Error}
    <3>1. CASE r.cmd = "EXPIRE"
      <4>1. o \in handleExpire(d, t, a)
        BY <1>2, <3>1 DEF processCommand
      <4> QED
        BY <4>1 DEF handleExpire
    <3>2. CASE r.cmd = "RENAME"
      <4>1. o \in handleRename(d, t, a)
        BY <1>2, <3>2 DEF processCommand
      <4> QED
        BY <4>1 DEF handleRename
    <3>3. CASE r.cmd = "LSET"
      <4>1. o \in handleLset(d, t, a)
        BY <1>2, <3>3 DEF processCommand
      <4> QED
        BY <4>1 DEF handleLset
    <3>4. CASE r.cmd = "HMSET"
      <4>1. o \in handleHmset(d, t, a)
        BY <1>2, <3>4 DEF processCommand
      <4>2. o \in Answer(d, Error)
              \/ o \in AnyOf(hmset(d, t, a[1], PairsOf(a)), Status)
        BY <4>1, Zenon DEF handleHmset
      <4>3. \A ds : o \in AnyOf(ds, Status) => o.reply = Status
        OBVIOUS
      <4> QED
        BY <4>2, <4>3
    <3> QED
      BY <2>5, <3>1, <3>2, <3>3, <3>4
  <2>6. r.cmd \in {"PING", "ECHO", "FLUSHALL", "SET", "GET", "TYPE", "DEL",
                   "UNLINK", "EXPIRE", "RENAME", "LLEN", "RPOP",
                   "LREM", "LINDEX", "LSET", "HSET", "HGET", "HEXISTS", "HDEL",
                   "HLEN", "HMSET"}
    BY <1>2 DEF Accepted, MinArgs, PushCommands, Misanswered, ArrayCommands
  <2>7. \A S : Plain(Found(S)) /\ Found(S) # Error
    BY Scalars DEF Found, Plain
  <2> QED
    BY <2>1, <2>2, <2>3, <2>4, <2>5, <2>6, <2>7, Scalars
       DEF Plain, RefusableCommands
<1> QED
  BY <1>1, <1>2

\* The others are answered with an array of as many bulk strings as its header
\* says, when hashes and stores are finite.
LEMMA ReplyHasForm ==
    ASSUME NEW d, NEW t, FiniteStores(d), Full(d), NEW r, r = Request(r.cmd, r.args),
           ~Misanswered(r), ~(r.cmd \in PushCommands /\ Accepted(r)),
           NEW o \in processCommand(d, t, r)
    PROVE  ReplyForm(r, o.reply)
<1> DEFINE a == r.args
<1>1. CASE ~Accepted(r)
  BY <1>1 DEF processCommand, Answer, ReplyForm, Plain
<1>2. CASE r.cmd \notin ArrayCommands
  BY <1>2, ReplyIsPlain DEF ReplyForm
<1>3. CASE Accepted(r) /\ r.cmd \in ArrayCommands
  <2> USE DEF Answer
  <2>1. \E n \in Nat : o.reply = Array(n)
    <3>1. CASE r.cmd = "KEYS"
      BY <1>3, <3>1, KeysRead DEF processCommand, handleKeys
    <3>2. CASE r.cmd = "HGETALL"
      <4> DEFINE c == Cardinality(DOMAIN hgetall(d, t, a[1]).ret)
      <4>1. o.reply = Array(2 * c)
        BY <1>3, <3>2 DEF processCommand, handleHgetall
      <4>2. c \in Nat
        BY HashRead
      <4> HIDE DEF c
      <4>3. 2 * c \in Nat
        BY <4>2
      <4> QED
        BY <4>1, <4>3
    <3>3. CASE r.cmd = "HKEYS"
      BY <1>3, <3>3, HashRead DEF processCommand, handleHkeys
    <3>4. CASE r.cmd = "HVALS"
      BY <1>3, <3>4, HashRead DEF processCommand, handleHvals
    <3> QED
      BY <1>3, <3>1, <3>2, <3>3, <3>4 DEF ArrayCommands
  <2> QED
    BY <1>3, <2>1 DEF ReplyForm
<1> QED
  BY <1>1, <1>2, <1>3

\* In the handlers' states the database is good, small and full.
LEMMA HandlersKeepDatabase ==
    ASSUME \A r \in Requests \cup Pushes : Fits(r)
    PROVE  HandlerSpec => [](IInv /\ Full(db))
BY HandlersImplementDatabase, AlwaysFull, PTL DEF ImplementsDatabase

(***************************************************************************)
(* Every reply is exactly one RESP value, apart from the three that are    *)
(* known not to be: for any requests that fit, any number of workers and   *)
(* any state of the keys they name.                                        *)
(***************************************************************************)
THEOREM RepliesAreValues ==
    ASSUME \A r \in Requests \cup Pushes : Fits(r)
    PROVE  HandlerSpec => []RepliesWellFormed
<1> DEFINE K == IInv /\ Full(db)
<1>1. HandlerInit => RepliesWellFormed
  BY Scalars DEF HandlerInit, RepliesWellFormed, IsReply
<1>2. K /\ RepliesWellFormed /\ [HandlerNext]_handlerVars => RepliesWellFormed'
  <2> SUFFICES ASSUME K, RepliesWellFormed, [HandlerNext]_handlerVars
               PROVE  RepliesWellFormed'
    OBVIOUS
  <2>1. ASSUME NEW r \in Requests, Command(r) PROVE RepliesWellFormed'
    <3>1. PICK o \in processCommand(db, now, r) :
             last' = [req |-> r, reply |-> o.reply]
      BY <2>1 DEF Command, Answered
    <3>2. ~(r.cmd \in PushCommands /\ Accepted(r)) /\ Fits(r)
      BY <2>1 DEF Command
    <3>3. FiniteStores(db)
      BY DEF IInv, Holds
    <3>4. Misanswered(r) \/ IsReply(o.reply)
      BY <3>2, <3>3, ReplyHasForm, FormIsReply DEF Fits
    <3> QED
      BY <3>1, <3>4 DEF RepliesWellFormed
  <2>2. ASSUME NEW w \in Worker, EndPush(w) PROVE RepliesWellFormed'
    BY <2>2, Scalars DEF EndPush, Answered, RepliesWellFormed, IsReply
  <2>3. CASE last' = last
    BY <2>3 DEF RepliesWellFormed
  <2> QED
    BY <2>1, <2>2, <2>3 DEF HandlerNext, PushStep, PushElement, BeginPush, handlerVars
<1> HIDE DEF K
<1>3. HandlerSpec => []K
  BY HandlersKeepDatabase DEF K
<1> QED
  BY <1>1, <1>2, <1>3, PTL DEF HandlerSpec

-------------------------------------------------------------------------------
(* Refusals.                                                                 *)

\* Content, statistics' TTL and presence are all that a client can see.
LEMMA SameView ==
    ASSUME NEW d, NEW e, Tracks(d), Tracks(e), NEW x,
           x \in StoredKeys(e) <=> x \in StoredKeys(d),
           Content(e, x) = Content(d, x),
           x \in DOMAIN d.meta_store => SameTTL(e.meta_store[x], d.meta_store[x])
    PROVE  Visible(e, x) = Visible(d, x)
<1>1. CASE x \in StoredKeys(d)
  <2>1. x \in DOMAIN d.meta_store /\ x \in DOMAIN e.meta_store
    BY <1>1 DEF Tracks
  <2>2. isExpired(e, now, x) <=> isExpired(d, now, x)
    BY <2>1, SameTTLExpires DEF isExpired, contains
  <2>3. Deadline(e, x) = Deadline(d, x)
    BY <2>1 DEF Deadline, SameTTL
  <2> QED
    BY <2>2, <2>3 DEF Visible
<1>2. CASE x \notin StoredKeys(d)
  BY <1>2 DEF Visible
<1> QED
  BY <1>1, <1>2

\* Dropping the expired key shows nowhere.
LEMMA DropExpiredView ==
    ASSUME NEW d, Tracks(d), NEW k, NEW x
    PROVE  Visible(DropExpired(d, now, k), x) = Visible(d, x)
<1> DEFINE e == delInternal(d, k)
<1>1. CASE ~isExpired(d, now, k)
  BY <1>1 DEF DropExpired
<1>2. CASE isExpired(d, now, k)
  <2>1. DropExpired(d, now, k) = e
    BY <1>2 DEF DropExpired
  <2>2. CASE x = k
    <3>1. x \notin StoredKeys(e)
      BY <2>2 DEF delInternal, StoredKeys, Erase, Restrict
    <3> QED
      BY <1>2, <2>1, <2>2, <3>1 DEF Visible
  <2>3. CASE x # k
    <3>1. Content(e, x) = Content(d, x)
      BY <2>3, delInternalAt, ContentAt
    <3>2. x \in StoredKeys(e) <=> x \in StoredKeys(d)
      BY <2>3 DEF delInternal, StoredKeys, Erase, Restrict
    <3>3. /\ x \in DOMAIN e.meta_store <=> x \in DOMAIN d.meta_store
          /\ x \in DOMAIN d.meta_store => e.meta_store[x] = d.meta_store[x]
      BY <2>3 DEF delInternal, removeKey, Restrict
    <3> HIDE DEF e
    <3>4. isExpired(e, now, x) <=> isExpired(d, now, x)
      BY <3>3 DEF isExpired, contains
    <3>5. x \in StoredKeys(d) => Deadline(e, x) = Deadline(d, x)
      BY <3>3 DEF Deadline, Tracks
    <3> QED
      BY <2>1, <3>1, <3>2, <3>4, <3>5 DEF Visible
  <2> QED
    BY <2>2, <2>3
<1> QED
  BY <1>1, <1>2

\* Nor does an access to a stored key.
LEMMA TouchView ==
    ASSUME NEW d, now \in Nat, Full(d), Tracks(d), NEW k \in StoredKeys(d), NEW x
    PROVE  Visible(Touch(d, now, k), x) = Visible(d, x)
<1> DEFINE e == Touch(d, now, k)
           r == recordAccess(d.meta_store, k, now)
<1>1. e = [kv_store |-> d.kv_store, list_store |-> d.list_store,
           hash_store |-> d.hash_store, meta_store |-> r]
  BY TouchMeta DEF Full
<1>2. k \in DOMAIN d.meta_store /\ Counted(d.meta_store)
  BY DEF Tracks, Full
<1>3. /\ DOMAIN r = DOMAIN d.meta_store \cup {k}
      /\ SameTTL(r[k], StatsOf(d.meta_store, k, now))
      /\ \A y \in DOMAIN d.meta_store \ {k} : r[y] = d.meta_store[y]
  BY <1>2, recordAccessTTL
<1>4. StatsOf(d.meta_store, k, now) = d.meta_store[k]
  BY <1>2 DEF StatsOf, contains
<1> HIDE DEF e, r
<1>5. StoredKeys(e) = StoredKeys(d) /\ Content(e, x) = Content(d, x)
  BY <1>1 DEF StoredKeys, Content
<1>6. Tracks(e)
  BY <1>1, <1>2, <1>3, <1>5 DEF Tracks
<1>7. \A y \in DOMAIN d.meta_store : SameTTL(r[y], d.meta_store[y])
  BY <1>3, <1>4 DEF SameTTL
<1>8. e.meta_store = r
  BY <1>1
<1> QED
  BY <1>5, <1>6, <1>7, <1>8, SameView DEF e

\* Nor, then, does a read.
LEMMA ReadOpView ==
    ASSUME NEW d, now \in Nat, Full(d), Tracks(d), NEW k, NEW hit, NEW found,
           NEW missed, hit => k \in StoredKeys(d), NEW x
    PROVE  Visible(ReadOp(d, now, k, hit, found, missed).db, x) = Visible(d, x)
BY TouchView, DropExpiredView DEF ReadOp

\* A RENAME that fails has deleted the new key, if anything.
LEMMA renameFails ==
    ASSUME NEW d, Tracks(d), NEW o, NEW n, ~rename(d, now, o, n).ret,
           NEW x, x # n
    PROVE  Visible(rename(d, now, o, n).db, x) = Visible(d, x)
<1> DEFINE d1 == IF n \in StoredKeys(d) THEN delInternal(d, n) ELSE d
           meta == removeKey(d1.meta_store, o)
           e == rename(d, now, o, n).db
<1>1. CASE isExpired(d, now, o)
  <2>1. e = DropExpired(d, now, o)
    BY <1>1 DEF rename, DropExpired
  <2> QED
    BY <2>1, DropExpiredView
<1>2. CASE ~isExpired(d, now, o)
  <2>1. o \notin StoredKeys(d1)
    BY <1>2 DEF rename
  <2>2. /\ e.kv_store = MoveEntry(d1.kv_store, o, n)
        /\ e.list_store = MoveEntry(d1.list_store, o, n)
        /\ e.hash_store = MoveEntry(d1.hash_store, o, n)
        /\ e.meta_store = meta
    BY <1>2, <2>1 DEF rename
  <2>3. /\ e.kv_store = d1.kv_store
        /\ e.list_store = d1.list_store
        /\ e.hash_store = d1.hash_store
    BY <2>1, <2>2 DEF MoveEntry, StoredKeys
  <2>4. x \in StoredKeys(d1) <=> x \in StoredKeys(d)
    BY DEF delInternal, StoredKeys, Erase, Restrict
  <2>5. Content(d1, x) = Content(d, x)
    BY delInternalAt, ContentAt
  <2>6. x # o => /\ x \in DOMAIN meta <=> x \in DOMAIN d.meta_store
                 /\ x \in DOMAIN d.meta_store => meta[x] = d.meta_store[x]
    BY DEF delInternal, removeKey, Restrict
  <2> HIDE DEF d1, meta, e
  <2>7. (x \in StoredKeys(e) <=> x \in StoredKeys(d)) /\ Content(e, x) = Content(d, x)
    BY <2>3, <2>4, <2>5 DEF StoredKeys, Content
  <2>8. CASE x \notin StoredKeys(d)
    BY <2>7, <2>8 DEF Visible, e
  <2>9. CASE x \in StoredKeys(d)
    <3>1. x # o /\ x \in DOMAIN d.meta_store
      BY <2>1, <2>4, <2>9 DEF Tracks
    <3>2. x \in DOMAIN e.meta_store /\ e.meta_store[x] = d.meta_store[x]
      BY <2>2, <2>6, <3>1
    <3>3. isExpired(e, now, x) <=> isExpired(d, now, x)
      BY <3>1, <3>2 DEF isExpired, contains
    <3>4. Deadline(e, x) = Deadline(d, x)
      BY <3>2 DEF Deadline
    <3> QED
      BY <2>7, <3>3, <3>4 DEF Visible, e
  <2> QED
    BY <2>8, <2>9
<1> QED
  BY <1>1, <1>2

(***************************************************************************)
(* A request answered with an error was refused before the database was    *)
(* called, or the database found no key or index and has done no more than *)
(* drop what had expired, or the new key of a RENAME.                      *)
(***************************************************************************)
LEMMA RefusalView ==
    ASSUME NEW d, now \in Nat, FiniteStores(d), Full(d), Tracks(d),
           NEW r, Fits(r), ~(r.cmd \in PushCommands /\ Accepted(r)),
           NEW o \in processCommand(d, now, r), o.reply = Error,
           NEW x, r.cmd = "RENAME" /\ Accepted(r) => x # r.args[2]
    PROVE  Visible(o.db, x) = Visible(d, x)
<1> DEFINE a == r.args
<1> USE DEF Answer
<1>1. CASE ~Accepted(r)
  BY <1>1 DEF processCommand
<1>2. CASE Accepted(r) /\ Misanswered(r)
  <2>1. CASE r.cmd = "LGET"
    <3>1. o.db = lget(d, now, a[1]).db
      BY <1>2, <2>1 DEF processCommand, handleLget
    <3> DEFINE hit == a[1] \in DOMAIN d.list_store
               found == d.list_store[a[1]]
    <3>2. lget(d, now, a[1]) = ReadOp(d, now, a[1], hit, found, <<>>)
      BY DEF lget
    <3>3. hit => a[1] \in StoredKeys(d)
      BY DEF StoredKeys
    <3> HIDE DEF hit, found
    <3> QED
      BY <3>1, <3>2, <3>3, ReadOpView
  <2>2. CASE r.cmd = "LPOP"
    <3>1. o.reply \in {Nil, <<BulkHeader>>}
      BY <1>2, <2>2 DEF processCommand, handleLpop
    <3> QED
      BY <3>1, Scalars
  <2>3. CASE r.cmd = "ECHO"
    BY <1>2, <2>3 DEF processCommand, handleEcho
  <2>4. r.cmd \in {"LGET", "LPOP", "ECHO"}
    BY <1>2 DEF Misanswered, Request
  <2> QED
    BY <2>1, <2>2, <2>3, <2>4
<1>3. CASE Accepted(r) /\ ~Misanswered(r)
  <2>1. r.cmd \in RefusableCommands
    <3>1. \A n \in Nat : Array(n) # Error
      BY ArraysAreReplies
    <3> QED
      BY <1>3, <3>1, ReplyHasForm DEF ReplyForm, Fits
  <2>2. CASE r.cmd = "EXPIRE"
    <3>1. o \in handleExpire(d, now, a)
      BY <1>3, <2>2 DEF processCommand
    <3> DEFINE e == expire(d, now, a[1], a[2])
    <3>2. o \in Answer(e.db, IF e.ret THEN Status ELSE Error) \/ o \in Answer(d, Error)
      BY <3>1 DEF handleExpire
    <3>3. e.ret \/ e.db = d
      BY DEF expire
    <3> HIDE DEF e
    <3>4. o.db = d
      BY <3>2, <3>3, Scalars
    <3> QED
      BY <3>4
  <2>3. CASE r.cmd = "RENAME"
    <3>1. o \in handleRename(d, now, a)
      BY <1>3, <2>3 DEF processCommand
    <3>2. /\ o.db = rename(d, now, a[1], a[2]).db
          /\ ~rename(d, now, a[1], a[2]).ret
      BY <3>1, Scalars DEF handleRename
    <3> QED
      BY <1>3, <2>3, <3>2, renameFails
  <2>4. CASE r.cmd = "LREM"
    <3>1. o \in handleLrem(d, now, a)
      BY <1>3, <2>4 DEF processCommand
    <3>2. o.db = d
      BY <3>1, Scalars DEF handleLrem
    <3> QED
      BY <3>2
  <2>5. CASE r.cmd = "LINDEX"
    <3>1. o \in handleLindex(d, now, a)
      BY <1>3, <2>5 DEF processCommand
    <3>2. o.db = d \/ o.db = lindex(d, now, a[1], a[2]).db
      BY <3>1 DEF handleLindex
    <3>3. PICK hit, found, missed :
             /\ lindex(d, now, a[1], a[2]) = ReadOp(d, now, a[1], hit, found, missed)
             /\ hit => a[1] \in DOMAIN d.list_store
      BY DEF lindex
    <3>4. hit => a[1] \in StoredKeys(d)
      BY <3>3 DEF StoredKeys
    <3> QED
      BY <3>2, <3>3, <3>4, ReadOpView
  <2>6. CASE r.cmd = "LSET"
    <3>1. o \in handleLset(d, now, a)
      BY <1>3, <2>6 DEF processCommand
    <3>2. \/ o.db = d
          \/ /\ o.db = lset(d, now, a[1], a[2], a[3]).db
             /\ ~lset(d, now, a[1], a[2], a[3]).ret
      BY <3>1, Scalars DEF handleLset
    <3>3. o.db = d \/ o.db = DropExpired(d, now, a[1])
      BY <3>2 DEF lset, UpdateList
    <3> QED
      BY <3>3, DropExpiredView
  <2>7. CASE r.cmd = "HMSET"
    <3>1. o \in handleHmset(d, now, a)
      BY <1>3, <2>7 DEF processCommand
    <3>2. o \in Answer(d, Error)
            \/ o \in AnyOf(hmset(d, now, a[1], PairsOf(a)), Status)
      BY <3>1, Zenon DEF handleHmset
    <3>3. \A ds : o \in AnyOf(ds, Status) => o.reply = Status
      BY DEF AnyOf
    <3>4. o.db = d
      BY <3>2, <3>3, Scalars
    <3> QED
      BY <3>4
  <2> QED
    BY <2>1, <2>2, <2>3, <2>4, <2>5, <2>6, <2>7 DEF RefusableCommands
<1> QED
  BY <1>1, <1>2, <1>3

\* A worker that pushes has one element less left.
LEMMA PushingMoves ==
    ASSUME \A r \in Requests \cup Pushes : Fits(r), Frames,
           NEW w \in Worker, PushStep(w)
    PROVE  frame' # frame
<1>1. ASSUME PushElement(w) PROVE frame' # frame
  <2> DEFINE f == frame[w]
             a == f.req.args
             S == Range(a)
  <2>1. f.left # <<>> /\ f # Idle
    BY <1>1 DEF PushElement, Idle
  <2>2. /\ f = [req |-> f.req, left |-> f.left]
        /\ f.req \in Requests \cup Pushes
        /\ f.req.cmd \in PushCommands /\ Accepted(f.req)
    BY <2>1 DEF Frames, FramesIn, FrameIn
  <2>3. PICK i \in 1..Len(a) : f.left = SubSeq(a, i + 1, Len(a))
    BY <2>1 DEF Frames, FramesIn, FrameIn
  <2>4. a \in Seq(S)
    BY <2>2, PushArguments
  <2>5. frame'[w].left = Tail(f.left)
    <3>1. frame' = [frame EXCEPT ![w].left = Tail(@)]
      BY <1>1 DEF PushElement
    <3>2. frame = [v \in Worker |-> frame[v]]
      BY DEF Frames, FramesIn
    <3>3. frame'[w] = [f EXCEPT !.left = Tail(@)]
      BY <3>1, <3>2
    <3> HIDE DEF f
    <3> QED
      BY <2>2, <3>3
  <2>6. f.left \in Seq(S)
    <3> HIDE DEF S, a, f
    <3>1. \A j \in (i + 1)..Len(a) : a[j] \in S
      BY <2>3, <2>4
    <3>2. i + 1 \in Int /\ Len(a) \in Int
      BY <2>4
    <3> QED
      BY <2>3, <3>1, <3>2, SubSeqProperties
  <2>7. Len(Tail(f.left)) = Len(f.left) - 1 /\ Len(f.left) \in Nat
    <3> HIDE DEF S, f
    <3> QED
      BY <2>1, <2>6
  <2> HIDE DEF f
  <2>8. ASSUME Tail(f.left) = f.left PROVE FALSE
    <3>1. Len(f.left) = Len(f.left) - 1
      BY <2>7, <2>8
    <3> QED
      BY <2>7, <3>1
  <2> QED
    BY <2>5, <2>8 DEF f
<1>2. ASSUME EndPush(w) PROVE frame' # frame
  BY <1>2 DEF EndPush, Frames, FramesIn
<1> QED
  BY <1>1, <1>2 DEF PushStep

(***************************************************************************)
(* A command that is answered with an error leaves every key a client can  *)
(* see as it was, content and deadline, apart from the new key of a RENAME *)
(* that fails.                                                             *)
(***************************************************************************)
THEOREM RefusalsChangeNothing ==
    ASSUME \A r \in Requests \cup Pushes : Fits(r)
    PROVE  HandlerSpec => ErrorsChangeNothing
<1> DEFINE K == IInv /\ Full(db) /\ Frames
           Lost(r) == IF r.cmd = "RENAME" /\ Accepted(r) THEN {r.args[2]} ELSE {}
           A == Answering /\ last'.reply = Error =>
                   \A k \in Key \ Lost(last'.req) : Visible(db', k) = Visible(db, k)
<1>1. HandlerInit => Frames
  BY DEF HandlerInit, Frames, FramesIn, FrameIn
<1>2. Frames /\ [HandlerNext]_handlerVars => Frames'
  BY HandlerStep
<1>3. K /\ [HandlerNext]_handlerVars => [A]_handlerVars
  <2> SUFFICES ASSUME K, HandlerNext, Answering, last'.reply = Error,
                      NEW k \in Key \ Lost(last'.req)
               PROVE  Visible(db', k) = Visible(db, k)
    OBVIOUS
  <2>1. ASSUME NEW r \in Requests, Command(r)
        PROVE  Visible(db', k) = Visible(db, k)
    <3>1. PICK o \in processCommand(db, now, r) :
             db' = o.db /\ last' = [req |-> r, reply |-> o.reply]
      BY <2>1 DEF Command, Answered, Becomes
    <3>2. ~(r.cmd \in PushCommands /\ Accepted(r)) /\ Fits(r)
      BY <2>1 DEF Command
    <3>3. FiniteStores(db) /\ Full(db) /\ Tracks(db) /\ now \in Nat
      BY IInvGood, DatabaseAssumption DEF IInv, Holds, Good
    <3>4. o.reply = Error /\ (r.cmd = "RENAME" /\ Accepted(r) => k # r.args[2])
      BY <3>1
    <3>5. Visible(o.db, k) = Visible(db, k)
      BY <3>2, <3>3, <3>4, RefusalView
    <3> QED
      BY <3>1, <3>5
  <2>2. ASSUME NEW w \in Worker, NEW r \in Requests \cup todo, BeginPush(w, r)
        PROVE  Visible(db', k) = Visible(db, k)
    BY <2>2 DEF BeginPush
  <2>3. ASSUME NEW w \in Worker, PushStep(w)
        PROVE  Visible(db', k) = Visible(db, k)
    BY <2>3, PushingMoves DEF Answering
  <2>4. ASSUME Tick
        PROVE  Visible(db', k) = Visible(db, k)
    BY <2>4 DEF Tick
  <2> QED
    BY <2>1, <2>2, <2>3, <2>4 DEF HandlerNext
<1> HIDE DEF A
<1>4. HandlerSpec => [](IInv /\ Full(db))
  BY HandlersKeepDatabase
<1>5. HandlerSpec => [][A]_handlerVars
  BY <1>1, <1>2, <1>3, <1>4, PTL DEF HandlerSpec
<1>6. [][A]_handlerVars => ErrorsChangeNothing
  BY DEF A, ErrorsChangeNothing
<1> QED
  BY <1>5, <1>6

-------------------------------------------------------------------------------
(* Lists whose elements come and go.                                         *)

(***************************************************************************)
(* The elements of m that are in S are in l, in the order they have there. *)
(***************************************************************************)
Thin(l, m, S) ==
    \A i, j \in DOMAIN m :
        m[i] \in S /\ m[j] \in S =>
            \E a, b \in DOMAIN l : /\ l[a] = m[i] /\ l[b] = m[j]
                                   /\ i < j => a < b

\* The elements at a set of positions are in order.
LEMMA AtPositionsThin ==
    ASSUME NEW V, NEW l \in Seq(V), NEW P, P \subseteq 1..Len(l), NEW S
    PROVE  Thin(l, AtPositions(l, P), S)
<1>0. Len(l) \in Nat
  OBVIOUS
<1>1. IsFiniteSet(P) /\ Cardinality(P) \in Nat
  <2>1. IsFiniteSet(1..Len(l))
    BY <1>0, FS_Interval
  <2>2. IsFiniteSet(P)
    BY <2>1, FS_Subset
  <2> QED
    BY <2>2, FS_CardinalityType
<1>2. \A i \in 1..Cardinality(P) :
         /\ NthOf(P, i) \in P
         /\ Cardinality({q \in P : q < NthOf(P, i)}) = i - 1
  BY <1>0, NthOfIsElement
<1>3. ASSUME NEW i \in 1..Cardinality(P), NEW j \in 1..Cardinality(P), i < j
      PROVE  NthOf(P, i) < NthOf(P, j)
  <2> DEFINE a == NthOf(P, i)
             b == NthOf(P, j)
             A == {q \in P : q < a}
             B == {q \in P : q < b}
  <2>1. a \in P /\ b \in P /\ Cardinality(A) = i - 1 /\ Cardinality(B) = j - 1
    BY <1>2
  <2>2. \A q \in P : q \in Int
    OBVIOUS
  <2> HIDE DEF a, b
  <2>3. SUFFICES ASSUME ~(a < b) PROVE FALSE
    BY DEF a, b
  <2>4. B \subseteq A
    <3>1. a \in Int /\ b \in Int
      BY <2>1, <2>2
    <3>2. \A q \in P : q < b => q < a
      BY <2>2, <2>3, <3>1
    <3> QED
      BY <3>2
  <2>5. IsFiniteSet(A)
    BY <1>1, FS_Subset
  <2> HIDE DEF A, B
  <2>6. Cardinality(B) <= Cardinality(A)
    BY <2>4, <2>5, FS_Subset
  <2> QED
    BY <1>3, <2>1, <2>6
<1>4. DOMAIN l = 1..Len(l)
  OBVIOUS
<1>5. \A i \in 1..Cardinality(P) : AtPositions(l, P)[i] = l[NthOf(P, i)]
  BY DEF AtPositions
<1>6. DOMAIN AtPositions(l, P) = 1..Cardinality(P)
  BY DEF AtPositions
<1> DEFINE m == AtPositions(l, P)
<1> HIDE DEF m
<1>7. \A i \in DOMAIN m : NthOf(P, i) \in DOMAIN l /\ l[NthOf(P, i)] = m[i]
  BY <1>2, <1>4, <1>5, <1>6 DEF m
<1> QED
  BY <1>3, <1>6, <1>7 DEF Thin, m

\* Popping and overwriting leave the others in order, and so does adding.
LEMMA EditsThin ==
    ASSUME NEW V, NEW l \in Seq(V), NEW S, NEW v
    PROVE  /\ Thin(l, l, S)
           /\ l # <<>> => Thin(l, Tail(l), S) /\ Thin(l, SubSeq(l, 1, Len(l) - 1), S)
           /\ v \notin S => /\ \A p : Thin(l, [l EXCEPT ![p] = v], S)
                            /\ Thin(l, Append(l, v), S)
                            /\ Thin(l, <<v>> \o l, S)
<1>1. Thin(l, l, S)
  BY DEF Thin
<1>2. ASSUME l # <<>> PROVE Thin(l, Tail(l), S)
  <2>1. DOMAIN Tail(l) = 1..(Len(l) - 1) /\ Len(l) \in Nat /\ DOMAIN l = 1..Len(l)
    BY <1>2
  <2>2. \A i \in 1..(Len(l) - 1) : Tail(l)[i] = l[i + 1] /\ i + 1 \in 1..Len(l)
    BY <1>2
  <2> DEFINE m == Tail(l)
  <2> HIDE DEF m
  <2>3. \A i \in DOMAIN m : i \in Int /\ m[i] = l[i + 1] /\ i + 1 \in DOMAIN l
    BY <2>1, <2>2 DEF m
  <2>4. \A i, j \in DOMAIN m : i < j => i + 1 < j + 1
    BY <2>3
  <2> QED
    BY <2>3, <2>4 DEF Thin, m
<1>3. ASSUME l # <<>> PROVE Thin(l, SubSeq(l, 1, Len(l) - 1), S)
  <2> DEFINE m == SubSeq(l, 1, Len(l) - 1)
  <2>1. DOMAIN m = 1..(Len(l) - 1) /\ Len(l) \in Nat /\ DOMAIN l = 1..Len(l)
    BY <1>3
  <2>2. \A i \in 1..(Len(l) - 1) : m[i] = l[i] /\ i \in 1..Len(l)
    BY <1>3
  <2> HIDE DEF m
  <2> QED
    BY <2>1, <2>2 DEF Thin, m
<1>4. ASSUME v \notin S, NEW p PROVE Thin(l, [l EXCEPT ![p] = v], S)
  <2> DEFINE m == [l EXCEPT ![p] = v]
  <2>1. DOMAIN m = DOMAIN l /\ \A i \in DOMAIN l : m[i] = v \/ m[i] = l[i]
    OBVIOUS
  <2> HIDE DEF m
  <2> QED
    BY <1>4, <2>1 DEF Thin, m
<1>5. ASSUME v \notin S PROVE Thin(l, Append(l, v), S)
  <2> DEFINE m == Append(l, v)
  <2>1. DOMAIN m = 1..(Len(l) + 1) /\ Len(l) \in Nat /\ DOMAIN l = 1..Len(l)
    OBVIOUS
  <2>2. \A i \in 1..Len(l) : m[i] = l[i]
    OBVIOUS
  <2>3. m[Len(l) + 1] = v
    OBVIOUS
  <2> HIDE DEF m
  <2>4. \A i \in DOMAIN m : m[i] = v \/ (i \in DOMAIN l /\ m[i] = l[i])
    BY <2>1, <2>2, <2>3
  <2> QED
    BY <1>5, <2>4 DEF Thin, m
<1>6. ASSUME v \notin S PROVE Thin(l, <<v>> \o l, S)
  <2> DEFINE m == <<v>> \o l
  <2>1. DOMAIN m = 1..(Len(l) + 1) /\ Len(l) \in Nat /\ DOMAIN l = 1..Len(l)
    OBVIOUS
  <2>2. \A i \in 2..(Len(l) + 1) : m[i] = l[i - 1]
    OBVIOUS
  <2>3. m[1] = v
    OBVIOUS
  <2> HIDE DEF m
  <2>4. \A i \in DOMAIN m : i \in Int /\ (m[i] = v \/ (i - 1 \in DOMAIN l /\ m[i] = l[i - 1]))
    BY <2>1, <2>2, <2>3
  <2>5. \A i, j \in DOMAIN m : i < j => i - 1 < j - 1
    BY <2>4
  <2> QED
    BY <1>6, <2>4, <2>5 DEF Thin, m
<1> QED
  BY <1>1, <1>2, <1>3, <1>4, <1>5, <1>6

(***************************************************************************)
(* The same of the lists of store g and those of f: elements of S that are *)
(* in g are in f, together in a list if and only if they are so in g, and  *)
(* in the same order.                                                      *)
(***************************************************************************)
Thinned(f, g, S) ==
    \A k, l \in DOMAIN g : \A i \in DOMAIN g[k], j \in DOMAIN g[l] :
        g[k][i] \in S /\ g[l][j] \in S =>
            \E x, y \in DOMAIN f : \E a \in DOMAIN f[x], b \in DOMAIN f[y] :
                /\ f[x][a] = g[k][i] /\ f[y][b] = g[l][j]
                /\ x = y <=> k = l
                /\ k = l /\ i < j => a < b

\* Whatever lists are moved to other keys, thinned or dropped.
LEMMA MovedThinned ==
    ASSUME NEW f, NEW g, NEW S, NEW src,
           \A k \in DOMAIN g : \A i \in DOMAIN g[k] :
              g[k][i] \in S => src[k] \in DOMAIN f /\ Thin(f[src[k]], g[k], S),
           \A k, l \in DOMAIN g : src[k] = src[l] => k = l
    PROVE  Thinned(f, g, S)
<1> SUFFICES ASSUME NEW k \in DOMAIN g, NEW l \in DOMAIN g,
                    NEW i \in DOMAIN g[k], NEW j \in DOMAIN g[l],
                    g[k][i] \in S, g[l][j] \in S
             PROVE  \E x, y \in DOMAIN f : \E a \in DOMAIN f[x], b \in DOMAIN f[y] :
                       /\ f[x][a] = g[k][i] /\ f[y][b] = g[l][j]
                       /\ x = y <=> k = l
                       /\ k = l /\ i < j => a < b
  BY DEF Thinned
<1>1. src[k] \in DOMAIN f /\ Thin(f[src[k]], g[k], S)
  OBVIOUS
<1>2. src[l] \in DOMAIN f /\ Thin(f[src[l]], g[l], S)
  OBVIOUS
<1>3. CASE k = l
  <2>1. \E a, b \in DOMAIN f[src[k]] : /\ f[src[k]][a] = g[k][i]
                                       /\ f[src[k]][b] = g[k][j]
                                       /\ i < j => a < b
    BY <1>1, <1>3 DEF Thin
  <2> QED
    BY <1>1, <1>3, <2>1
<1>4. CASE k # l
  <2>1. \E a \in DOMAIN f[src[k]] : f[src[k]][a] = g[k][i]
    BY <1>1 DEF Thin
  <2>2. \E b \in DOMAIN f[src[l]] : f[src[l]][b] = g[l][j]
    BY <1>2 DEF Thin
  <2>3. src[k] # src[l]
    BY <1>4
  <2> QED
    BY <1>1, <1>2, <1>4, <2>1, <2>2, <2>3
<1> QED
  BY <1>3, <1>4

\* Lists are thinned in several steps.
LEMMA ThinnedTransitive ==
    ASSUME NEW f, NEW g, NEW h, NEW S, Thinned(f, g, S), Thinned(g, h, S)
    PROVE  Thinned(f, h, S)
<1> SUFFICES ASSUME NEW k \in DOMAIN h, NEW l \in DOMAIN h,
                    NEW i \in DOMAIN h[k], NEW j \in DOMAIN h[l],
                    h[k][i] \in S, h[l][j] \in S
             PROVE  \E x, y \in DOMAIN f : \E a \in DOMAIN f[x], b \in DOMAIN f[y] :
                       /\ f[x][a] = h[k][i] /\ f[y][b] = h[l][j]
                       /\ x = y <=> k = l
                       /\ k = l /\ i < j => a < b
  BY DEF Thinned
<1>1. PICK u, v \in DOMAIN g : \E c \in DOMAIN g[u], e \in DOMAIN g[v] :
         /\ g[u][c] = h[k][i] /\ g[v][e] = h[l][j]
         /\ u = v <=> k = l
         /\ k = l /\ i < j => c < e
  BY DEF Thinned
<1>2. PICK c \in DOMAIN g[u], e \in DOMAIN g[v] :
         /\ g[u][c] = h[k][i] /\ g[v][e] = h[l][j]
         /\ u = v <=> k = l
         /\ k = l /\ i < j => c < e
  BY <1>1
<1>3. g[u][c] \in S /\ g[v][e] \in S
  BY <1>2
<1>4. \E x, y \in DOMAIN f : \E a \in DOMAIN f[x], b \in DOMAIN f[y] :
         /\ f[x][a] = g[u][c] /\ f[y][b] = g[v][e]
         /\ x = y <=> u = v
         /\ u = v /\ c < e => a < b
  BY <1>3 DEF Thinned
<1> QED
  BY <1>2, <1>4

\* The lists of g are lists of f.
Shrunk(f, g) == \A k \in DOMAIN g : k \in DOMAIN f /\ g[k] = f[k]

\* One list is thinned, or made without elements of S, and others are dropped.
LEMMA OneThinned ==
    ASSUME NEW f, NEW g, NEW S, NEW k,
           \A x \in DOMAIN g \ {k} : x \in DOMAIN f /\ g[x] = f[x],
           k \in DOMAIN g => Thin(ListAt(f, k), g[k], S)
    PROVE  Thinned(f, g, S)
<1> DEFINE src == [x \in DOMAIN g |-> x]
<1>1. ASSUME NEW x \in DOMAIN g, NEW i \in DOMAIN g[x], g[x][i] \in S
      PROVE  x \in DOMAIN f /\ Thin(f[x], g[x], S)
  <2>1. CASE x = k
    <3>1. ASSUME x \notin DOMAIN f PROVE FALSE
      <4>1. ListAt(f, k) = <<>> /\ Thin(ListAt(f, k), g[k], S)
        BY <2>1, <3>1 DEF ListAt
      <4>2. \E a \in DOMAIN ListAt(f, k) : TRUE
        BY <1>1, <2>1, <4>1 DEF Thin
      <4> QED
        BY <4>1, <4>2
    <3> QED
      BY <2>1, <3>1 DEF ListAt
  <2>2. CASE x # k
    BY <2>2 DEF Thin
  <2> QED
    BY <2>1, <2>2
<1>2. \A x \in DOMAIN g : src[x] = x
  OBVIOUS
<1> HIDE DEF src
<1>3. \A x, y \in DOMAIN g : src[x] = src[y] => x = y
  BY <1>2
<1>4. \A x \in DOMAIN g : \A i \in DOMAIN g[x] :
         g[x][i] \in S => src[x] \in DOMAIN f /\ Thin(f[src[x]], g[x], S)
  BY <1>1, <1>2
<1> QED
  BY <1>3, <1>4, MovedThinned

\* To drop whole lists is to thin them.
LEMMA ShrunkThinned ==
    ASSUME NEW f, NEW g, NEW S, Shrunk(f, g)
    PROVE  Thinned(f, g, S)
<1>1. \A x \in DOMAIN g : x \in DOMAIN f /\ g[x] = f[x]
  BY DEF Shrunk
<1>2. \A x \in DOMAIN g : Thin(ListAt(f, x), g[x], S)
  BY <1>1 DEF Thin, ListAt
<1> QED
  BY <1>1, <1>2, OneThinned

\* A list that moves to a key that has none.
LEMMA MoveEntryThinned ==
    ASSUME NEW f, NEW S, NEW o, NEW n, n \notin DOMAIN f
    PROVE  Thinned(f, MoveEntry(f, o, n), S)
<1> DEFINE g == MoveEntry(f, o, n)
           src == [x \in DOMAIN g |-> IF x = n THEN o ELSE x]
<1>1. CASE o \notin DOMAIN f
  <2>1. Shrunk(f, g)
    BY <1>1 DEF MoveEntry, Shrunk
  <2> QED
    BY <2>1, ShrunkThinned
<1>2. CASE o \in DOMAIN f
  <2>1. /\ DOMAIN g = (DOMAIN f \cup {n}) \ {o}
        /\ g[n] = f[o]
        /\ \A x \in DOMAIN f \ {o} : g[x] = f[x]
    BY <1>2 DEF MoveEntry, Put, Erase, Restrict
  <2>2. \A x \in DOMAIN g : src[x] = IF x = n THEN o ELSE x
    OBVIOUS
  <2> HIDE DEF g, src
  <2>3. \A x \in DOMAIN g : src[x] \in DOMAIN f /\ g[x] = f[src[x]]
    BY <1>2, <2>1, <2>2
  <2>4. \A x \in DOMAIN g : \A i \in DOMAIN g[x] :
           g[x][i] \in S => src[x] \in DOMAIN f /\ Thin(f[src[x]], g[x], S)
    BY <2>3 DEF Thin
  <2>5. \A x, y \in DOMAIN g : src[x] = src[y] => x = y
    BY <2>1, <2>2
  <2>6. Thinned(f, g, S)
    BY <2>4, <2>5, MovedThinned
  <2> QED
    BY <2>6 DEF g
<1> QED
  BY <1>1, <1>2

-------------------------------------------------------------------------------
(* What the operations make of the lists.                                    *)

\* Deleting, expiring and evicting drop whole lists.
LEMMA DroppingShrinks ==
    ASSUME NEW d, NEW t, NEW k
    PROVE  /\ Shrunk(d.list_store, d.list_store)
           /\ Shrunk(d.list_store, delInternal(d, k).list_store)
           /\ Shrunk(d.list_store, DropExpired(d, t, k).list_store)
           /\ \A e \in checkAndEvict(d, t) : Shrunk(d.list_store, e.list_store)
<1>1. Shrunk(d.list_store, d.list_store)
  BY DEF Shrunk
<1>2. \A x : Shrunk(d.list_store, delInternal(d, x).list_store)
  BY DEF Shrunk, delInternal, Erase, Restrict
<1> QED
  BY <1>1, <1>2 DEF DropExpired, checkAndEvict

\* Lists are dropped in several steps.
LEMMA ShrunkTransitive ==
    ASSUME NEW f, NEW g, NEW h, Shrunk(f, g), Shrunk(g, h)
    PROVE  Shrunk(f, h)
BY DEF Shrunk

\* An access leaves the lists alone.
LEMMA TouchLists ==
    ASSUME NEW d, IsDatabase(d), NEW t, NEW k
    PROVE  Touch(d, t, k).list_store = d.list_store
BY DEF IsDatabase, Touch

\* Whatever reads does no more than drop an expired key.
LEMMA ReadOpLists ==
    ASSUME NEW d, IsDatabase(d), NEW t, NEW k, NEW hit, NEW found, NEW missed
    PROVE  Shrunk(d.list_store, ReadOp(d, t, k, hit, found, missed).db.list_store)
<1>1. CASE ~isExpired(d, t, k) /\ hit
  <2>1. ReadOp(d, t, k, hit, found, missed).db = Touch(d, t, k)
    BY <1>1 DEF ReadOp
  <2> QED
    BY <2>1, TouchLists, DroppingShrinks
<1>2. CASE ~(~isExpired(d, t, k) /\ hit)
  BY <1>2, DroppingShrinks DEF ReadOp
<1> QED
  BY <1>1, <1>2

\* What writes a string drops lists only.
LEMMA setLists ==
    ASSUME NEW d, NEW t \in Nat, Good(d, t), NEW k, NEW v, NEW ttl,
           NEW e \in set(d, t, k, v, ttl)
    PROVE  Shrunk(d.list_store, e.list_store)
<1> DEFINE d1 == DropExpired(d, t, k)
           p == [d1 EXCEPT !.kv_store = Put(@, k, v)]
           d2 == Touch(p, t, k)
           d3 == [d2 EXCEPT !.meta_store = setTTL(@, k, ttl, t)]
<1>1. IsDatabase(d1)
  BY DropExpiredGood DEF Good, Typed
<1>2. e \in checkAndEvict(d3, t)
  BY DEF set
<1>3. Shrunk(d.list_store, d1.list_store)
  BY DroppingShrinks
<1> HIDE DEF d1
<1>4. d3.list_store = d1.list_store
  BY <1>1 DEF IsDatabase, Touch
<1>5. Shrunk(d3.list_store, e.list_store)
  BY <1>2, DroppingShrinks
<1> HIDE DEF d3
<1> QED
  BY <1>3, <1>4, <1>5, ShrunkTransitive

\* So does what writes a hash.
LEMMA hmsetLists ==
    ASSUME NEW d, NEW t \in Nat, Good(d, t), NEW k, NEW fv,
           NEW e \in hmset(d, t, k, fv)
    PROVE  Shrunk(d.list_store, e.list_store)
<1> DEFINE d1 == DropExpired(d, t, k)
           h == Overlay(fv, HashAt(d1.hash_store, k))
           d2 == Touch([d1 EXCEPT !.hash_store = Put(@, k, h)], t, k)
<1>1. IsDatabase(d1)
  BY DropExpiredGood DEF Good, Typed
<1>2. e \in checkAndEvict(d2, t)
  BY DEF hmset
<1>3. Shrunk(d.list_store, d1.list_store)
  BY DroppingShrinks
<1> HIDE DEF d1, h
<1>4. d2.list_store = d1.list_store
  BY <1>1 DEF IsDatabase, Touch
<1>5. Shrunk(d2.list_store, e.list_store)
  BY <1>2, DroppingShrinks
<1> HIDE DEF d2
<1> QED
  BY <1>3, <1>4, <1>5, ShrunkTransitive

\* HDEL drops no list but that of an expired key, or of a key without fields.
LEMMA hdelLists ==
    ASSUME NEW d, IsDatabase(d), NEW t, NEW k, NEW f
    PROVE  Shrunk(d.list_store, hdel(d, t, k, f).db.list_store)
<1> DEFINE h == Erase(d.hash_store[k], f)
           d1 == Touch(d, t, k)
<1>1. CASE ~isExpired(d, t, k) /\ k \in DOMAIN d.hash_store
  <2>1. hdel(d, t, k, f).db = ReplaceHash(d1, k, h)
    BY <1>1 DEF hdel
  <2>2. d1.list_store = d.list_store /\ "list_store" \in DOMAIN d1
    BY DEF IsDatabase, Touch
  <2> HIDE DEF d1, h
  <2>3. Shrunk(d1.list_store, [d1 EXCEPT !.hash_store = Put(@, k, h)].list_store)
    BY <2>2 DEF Shrunk
  <2>4. Shrunk(d1.list_store, ReplaceHash(d1, k, h).list_store)
    BY <2>3, DroppingShrinks DEF ReplaceHash
  <2> QED
    BY <2>1, <2>2, <2>4
<1>2. CASE ~(~isExpired(d, t, k) /\ k \in DOMAIN d.hash_store)
  BY <1>2, DroppingShrinks DEF hdel
<1> QED
  BY <1>1, <1>2

\* EXPIRE drops the list of the key it deletes at once, if it deletes one.
LEMMA expireLists ==
    ASSUME NEW d, IsDatabase(d), NEW t, NEW k, NEW s
    PROVE  Shrunk(d.list_store, expire(d, t, k, s).db.list_store)
<1> DEFINE d1 == [d EXCEPT !.meta_store = setTTL(@, k, s, t)]
           d0 == [d EXCEPT !.meta_store = setTTL(@, k, 0, t)]
<1>1. /\ d1.list_store = d.list_store /\ "list_store" \in DOMAIN d1
      /\ d0.list_store = d.list_store
  BY DEF IsDatabase
<1>2. expire(d, t, k, s).db \in {d, Touch(d1, t, k), delInternal(d0, k)}
  BY DEF expire
<1> HIDE DEF d1, d0
<1>3. Touch(d1, t, k).list_store = d.list_store
  BY <1>1 DEF Touch
<1>4. Shrunk(d.list_store, d.list_store)
      /\ Shrunk(d.list_store, delInternal(d0, k).list_store)
  BY <1>1, DroppingShrinks
<1> QED
  BY <1>2, <1>3, <1>4

\* KEYS drops the lists of the expired keys.
LEMMA keysLists ==
    ASSUME NEW d, NEW t
    PROVE  Shrunk(d.list_store, keys(d, t).db.list_store)
BY DEF Shrunk, keys, Keep, Restrict

\* The new key of a RENAME has lost its list before it gets the other one.
LEMMA renameThins ==
    ASSUME NEW d, NEW t, NEW o, NEW n, NEW S
    PROVE  Thinned(d.list_store, rename(d, t, o, n).db.list_store, S)
<1> DEFINE d1 == IF n \in StoredKeys(d) THEN delInternal(d, n) ELSE d
           e == rename(d, t, o, n).db
<1>1. CASE isExpired(d, t, o)
  <2>1. e = delInternal(d, o)
    BY <1>1 DEF rename
  <2> QED
    BY <2>1, DroppingShrinks, ShrunkThinned
<1>2. CASE ~isExpired(d, t, o)
  <2>1. e.list_store = MoveEntry(d1.list_store, o, n)
    BY <1>2 DEF rename
  <2>2. n \notin DOMAIN d1.list_store
    BY DEF delInternal, Erase, Restrict, StoredKeys
  <2>3. Thinned(d.list_store, d1.list_store, S)
    BY DroppingShrinks, ShrunkThinned
  <2> HIDE DEF d1, e
  <2>4. Thinned(d1.list_store, MoveEntry(d1.list_store, o, n), S)
    BY <2>2, MoveEntryThinned
  <2> QED
    BY <2>1, <2>3, <2>4, ThinnedTransitive DEF e
<1> QED
  BY <1>1, <1>2

\* An operation that thins one list.
LEMMA UpdateListThins ==
    ASSUME NEW d, IsDatabase(d), NEW t, NEW k, NEW hit, NEW l, NEW found, NEW missed,
           NEW S, k \in DOMAIN d.list_store /\ hit => Thin(d.list_store[k], l, S)
    PROVE  Thinned(d.list_store,
                   UpdateList(d, t, k, hit, l, found, missed).db.list_store, S)
<1> DEFINE d1 == Touch(d, t, k)
           p == [d1 EXCEPT !.list_store = Put(@, k, l)]
<1>1. CASE ~isExpired(d, t, k) /\ k \in DOMAIN d.list_store /\ hit
  <2>1. UpdateList(d, t, k, hit, l, found, missed).db = ReplaceList(d1, k, l)
    BY <1>1 DEF UpdateList
  <2>2. d1.list_store = d.list_store /\ "list_store" \in DOMAIN d1
    BY DEF IsDatabase, Touch
  <2> HIDE DEF d1
  <2>3. p.list_store = Put(d.list_store, k, l)
    BY <2>2
  <2> HIDE DEF p
  <2>4. Thinned(d.list_store, p.list_store, S)
    <3>1. \A x \in DOMAIN p.list_store \ {k} :
             x \in DOMAIN d.list_store /\ p.list_store[x] = d.list_store[x]
      BY <2>3 DEF Put
    <3>2. p.list_store[k] = l /\ ListAt(d.list_store, k) = d.list_store[k]
      BY <1>1, <2>3 DEF Put, ListAt
    <3> QED
      BY <1>1, <3>1, <3>2, OneThinned
  <2>5. Thinned(d.list_store, delInternal(d1, k).list_store, S)
    BY <2>2, DroppingShrinks, ShrunkThinned
  <2>6. ReplaceList(d1, k, l) \in {p, delInternal(d1, k)}
    BY DEF ReplaceList, p
  <2> QED
    BY <2>1, <2>4, <2>5, <2>6
<1>2. CASE ~(~isExpired(d, t, k) /\ k \in DOMAIN d.list_store /\ hit)
  BY <1>2, DroppingShrinks, ShrunkThinned DEF UpdateList
<1> QED
  BY <1>1, <1>2

\* lpop, lrem and lset leave the elements they do not touch in order.
LEMMA ListUpdatesThin ==
    ASSUME NEW d, NEW t, Good(d, t), NEW k, NEW S, NEW c, NEW v
    PROVE  /\ Thinned(d.list_store, lpop(d, t, k).db.list_store, S)
           /\ Thinned(d.list_store, lrem(d, t, k, c, v).db.list_store, S)
           /\ v \notin S => Thinned(d.list_store, lset(d, t, k, c, v).db.list_store, S)
<1> DEFINE l == d.list_store[k]
<1>1. IsDatabase(d)
  BY DEF Good, Typed
<1>2. k \in DOMAIN d.list_store => l \in Seq(Value)
  BY ListTyped
<1>3. Thinned(d.list_store, lpop(d, t, k).db.list_store, S)
  <2> DEFINE hit == l # <<>>
             m == Tail(l)
             head == {Head(l)}
  <2>1. lpop(d, t, k) = UpdateList(d, t, k, hit, m, head, {})
    BY DEF lpop
  <2>2. k \in DOMAIN d.list_store /\ hit => Thin(l, m, S)
    BY <1>2, EditsThin
  <2> HIDE DEF m, hit, head
  <2> QED
    BY <1>1, <2>1, <2>2, UpdateListThins
<1>4. Thinned(d.list_store, lrem(d, t, k, c, v).db.list_store, S)
  <2> DEFINE removed == RemovedPositions(l, c, v)
             P == (1..Len(l)) \ removed
             m == AtPositions(l, P)
             hit == removed # {}
             n == Cardinality(removed)
  <2>1. lrem(d, t, k, c, v) = UpdateList(d, t, k, hit, m, n, 0)
    BY DEF lrem
  <2>2. P \subseteq 1..Len(l)
    OBVIOUS
  <2> HIDE DEF P
  <2>3. k \in DOMAIN d.list_store /\ hit => Thin(l, m, S)
    BY <1>2, <2>2, AtPositionsThin
  <2> HIDE DEF m, hit, n
  <2> QED
    BY <1>1, <2>1, <2>3, UpdateListThins
<1>5. ASSUME v \notin S
      PROVE  Thinned(d.list_store, lset(d, t, k, c, v).db.list_store, S)
  <2> DEFINE p == Position(l, c)
             m == [l EXCEPT ![p] = v]
             hit == p \in 1..Len(l)
  <2>1. lset(d, t, k, c, v) = UpdateList(d, t, k, hit, m, TRUE, FALSE)
    BY DEF lset
  <2> HIDE DEF p
  <2>2. k \in DOMAIN d.list_store /\ hit => Thin(l, m, S)
    BY <1>2, <1>5, EditsThin
  <2> HIDE DEF m, hit
  <2> QED
    BY <1>1, <2>1, <2>2, UpdateListThins
<1> QED
  BY <1>3, <1>4, <1>5

(***************************************************************************)
(* A push, before it evicts: one list becomes the old one with the element *)
(* at one of its ends, after an expired key was dropped.                   *)
(***************************************************************************)
Extended(f, g, k, v, cmd) ==
    /\ k \in DOMAIN g
    /\ \A x \in DOMAIN g \ {k} : x \in DOMAIN f /\ g[x] = f[x]
    /\ g[k] = IF cmd = "LPUSH" THEN <<v>> \o ListAt(f, k) ELSE Append(ListAt(f, k), v)

\* LPUSH and RPUSH of one element drop, extend, and drop what they evict.
LEMMA pushExtends ==
    ASSUME NEW d, NEW t, Good(d, t), NEW k, NEW v, NEW cmd,
           NEW e \in IF cmd = "LPUSH" THEN lpush(d, t, k, v) ELSE rpush(d, t, k, v)
    PROVE  \E f, g : /\ Shrunk(d.list_store, f)
                     /\ Extended(f, g, k, v, cmd)
                     /\ Shrunk(g, e.list_store)
<1> DEFINE d1 == DropExpired(d, t, k)
           f == d1.list_store
           l == IF cmd = "LPUSH" THEN <<v>> \o ListAt(f, k) ELSE Append(ListAt(f, k), v)
           d2 == Touch([d1 EXCEPT !.list_store = Put(@, k, l)], t, k)
<1>1. IsDatabase(d1)
  BY DropExpiredGood DEF Good, Typed
<1>2. e \in checkAndEvict(d2, t)
  BY DEF lpush, rpush, StoreList
<1>3. Shrunk(d.list_store, f)
  BY DroppingShrinks
<1> HIDE DEF d1, l
<1>4. d2.list_store = Put(f, k, l)
  BY <1>1 DEF IsDatabase, Touch
<1>5. Shrunk(d2.list_store, e.list_store)
  BY <1>2, DroppingShrinks
<1>6. Extended(f, Put(f, k, l), k, v, cmd)
  BY DEF Extended, Put, l
<1> HIDE DEF d2, f
<1> QED
  BY <1>3, <1>4, <1>5, <1>6

\* A command other than a push puts no values into a list but those that
\* Inserted names, and leaves the order of the others.
LEMMA CommandThins ==
    ASSUME NEW d, NEW t \in Nat, Good(d, t), NEW r, Fits(r),
           ~(r.cmd \in PushCommands /\ Accepted(r)), NEW o \in processCommand(d, t, r),
           NEW S, Inserted(r) \cap S = {}
    PROVE  Thinned(d.list_store, o.db.list_store, S)
<1> DEFINE a == r.args
           f == d.list_store
           g == o.db.list_store
<1> USE DEF Answer
<1>1. IsDatabase(d)
  BY DEF Good, Typed
<1>2. Shrunk(f, f)
  BY DroppingShrinks
<1>3. ASSUME ~Accepted(r) PROVE Shrunk(f, g)
  BY <1>2, <1>3 DEF processCommand
<1>4. ASSUME Accepted(r), r.cmd \in {"PING", "ECHO"} PROVE Shrunk(f, g)
  BY <1>2, <1>4 DEF processCommand, handlePing, handleEcho
<1>5. ASSUME Accepted(r), r.cmd = "FLUSHALL" PROVE Shrunk(f, g)
  BY <1>5 DEF processCommand, handleFlushAll, flushAll, EmptyDatabase, EmptyMap, Shrunk
<1>6. ASSUME Accepted(r), r.cmd = "SET" PROVE Shrunk(f, g)
  <2>1. o.db \in set(d, t, a[1], a[2], 0)
    BY <1>6 DEF processCommand, handleSet, AnyOf
  <2> QED
    BY <2>1, setLists
<1>7. ASSUME Accepted(r), r.cmd = "KEYS" PROVE Shrunk(f, g)
  <2>1. o.db = keys(d, t).db
    BY <1>7 DEF processCommand, handleKeys
  <2> QED
    BY <2>1, keysLists
<1>8. ASSUME Accepted(r), r.cmd \in {"GET", "TYPE", "LGET", "LLEN", "HGET", "HEXISTS",
                                     "HGETALL", "HKEYS", "HVALS", "HLEN"}
      PROVE  Shrunk(f, g)
  <2>1. \E hit, found, missed : o.db = ReadOp(d, t, a[1], hit, found, missed).db
    <3>1. /\ r.cmd = "GET" => o.db = get(d, t, a[1]).db
          /\ r.cmd = "TYPE" => o.db = type(d, t, a[1]).db
      BY <1>8 DEF processCommand, handleGet, handleType
    <3>2. /\ r.cmd = "LGET" => o.db = lget(d, t, a[1]).db
          /\ r.cmd = "LLEN" => o.db = llen(d, t, a[1]).db
      <4>1. r.cmd = "LGET" => o.db = lget(d, t, a[1]).db
        BY <1>8 DEF processCommand, handleLget
      <4>2. r.cmd = "LLEN" => o.db = llen(d, t, a[1]).db
        BY <1>8 DEF processCommand, handleLlen
      <4> QED
        BY <4>1, <4>2
    <3>3. /\ r.cmd = "HGET" => o.db = hget(d, t, a[1], a[2]).db
          /\ r.cmd = "HEXISTS" => o.db = hexists(d, t, a[1], a[2]).db
          /\ r.cmd = "HGETALL" => o.db = hgetall(d, t, a[1]).db
      BY <1>8 DEF processCommand, handleHget, handleHexists, handleHgetall
    <3>4. /\ r.cmd = "HKEYS" => o.db = hkeys(d, t, a[1]).db
          /\ r.cmd = "HVALS" => o.db = hvals(d, t, a[1]).db
          /\ r.cmd = "HLEN" => o.db = hlen(d, t, a[1]).db
      BY <1>8 DEF processCommand, handleHkeys, handleHvals, handleHlen
    <3> DEFINE ReadReply(x) == \E hit, found, missed : x = ReadOp(d, t, a[1], hit, found, missed)
    <3>5. ReadReply(get(d, t, a[1])) /\ ReadReply(type(d, t, a[1]))
      BY DEF get, type
    <3>6. ReadReply(lget(d, t, a[1])) /\ ReadReply(llen(d, t, a[1]))
      BY DEF lget, llen
    <3>7. ReadReply(hget(d, t, a[1], a[2])) /\ ReadReply(hexists(d, t, a[1], a[2]))
      BY DEF hget, hexists
    <3>8. ReadReply(hgetall(d, t, a[1])) /\ ReadReply(hkeys(d, t, a[1]))
      BY DEF hgetall, hkeys
    <3>9. ReadReply(hvals(d, t, a[1])) /\ ReadReply(hlen(d, t, a[1]))
      BY DEF hvals, hlen
    <3>10. \A x : ReadReply(x) =>
             \E hit, found, missed : x.db = ReadOp(d, t, a[1], hit, found, missed).db
      OBVIOUS
    <3> HIDE DEF ReadReply
    <3> QED
      BY <1>8, <3>1, <3>2, <3>3, <3>4, <3>5, <3>6, <3>7, <3>8, <3>9, <3>10
  <2> QED
    BY <1>1, <2>1, ReadOpLists
<1>9. ASSUME Accepted(r), r.cmd \in {"DEL", "UNLINK"} PROVE Shrunk(f, g)
  <2>1. o.db = delInternal(d, a[1])
    BY <1>9 DEF processCommand, handleDel, del
  <2> QED
    BY <2>1, DroppingShrinks
<1>10. ASSUME Accepted(r), r.cmd = "EXPIRE" PROVE Shrunk(f, g)
  <2>1. o \in handleExpire(d, t, a)
    BY <1>10 DEF processCommand
  <2>2. o.db = d \/ o.db = expire(d, t, a[1], a[2]).db
    BY <2>1 DEF handleExpire
  <2> QED
    BY <1>1, <1>2, <2>2, expireLists
<1>11. ASSUME Accepted(r), r.cmd = "HSET" PROVE Shrunk(f, g)
  <2>1. o.db \in hset(d, t, a[1], a[2], a[3])
    BY <1>11 DEF processCommand, handleHset, AnyOf
  <2> DEFINE fv == [x \in {a[2]} |-> a[3]]
  <2>2. o.db \in hmset(d, t, a[1], fv)
    BY <2>1 DEF hset
  <2> HIDE DEF fv
  <2> QED
    BY <2>2, hmsetLists
<1>12. ASSUME Accepted(r), r.cmd = "HMSET" PROVE Shrunk(f, g)
  <2>1. o \in handleHmset(d, t, a)
    BY <1>12 DEF processCommand
  <2> DEFINE fv == PairsOf(a)
  <2>2. o \in Answer(d, Error) \/ o \in AnyOf(hmset(d, t, a[1], fv), Status)
    BY <2>1, Zenon DEF handleHmset
  <2> HIDE DEF fv
  <2>3. o.db = d \/ o.db \in hmset(d, t, a[1], fv)
    BY <2>2 DEF AnyOf
  <2> QED
    BY <1>2, <2>3, hmsetLists
<1>13. ASSUME Accepted(r), r.cmd = "HDEL" PROVE Shrunk(f, g)
  <2>1. o.db = hdel(d, t, a[1], a[2]).db
    BY <1>13 DEF processCommand, handleHdel
  <2> QED
    BY <1>1, <2>1, hdelLists
<1>14. ASSUME Accepted(r), r.cmd = "RENAME" PROVE Thinned(f, g, S)
  <2>1. o \in handleRename(d, t, a)
    BY <1>14 DEF processCommand
  <2>2. o.db = rename(d, t, a[1], a[2]).db
    BY <2>1 DEF handleRename
  <2> QED
    BY <2>2, renameThins
<1>15. ASSUME Accepted(r), r.cmd \in {"LPOP", "RPOP"} PROVE Thinned(f, g, S)
  <2>1. o.db = lpop(d, t, a[1]).db
    BY <1>15 DEF processCommand, handleLpop, handleRpop
  <2> QED
    BY <2>1, ListUpdatesThin
<1>16. ASSUME Accepted(r), r.cmd = "LINDEX" PROVE Shrunk(f, g)
  <2>1. o \in handleLindex(d, t, a)
    BY <1>16 DEF processCommand
  <2>2. o.db = d \/ o.db = lindex(d, t, a[1], a[2]).db
    BY <2>1 DEF handleLindex
  <2>3. \E hit, found, missed :
           lindex(d, t, a[1], a[2]) = ReadOp(d, t, a[1], hit, found, missed)
    BY DEF lindex
  <2> QED
    BY <1>1, <1>2, <2>2, <2>3, ReadOpLists
<1>17. ASSUME Accepted(r), r.cmd = "LREM" PROVE Thinned(f, g, S)
  <2>1. o \in handleLrem(d, t, a)
    BY <1>17 DEF processCommand
  <2>2. o.db = d \/ o.db = lrem(d, t, a[1], a[2], a[3]).db
    BY <2>1 DEF handleLrem
  <2> QED
    BY <1>2, <2>2, ListUpdatesThin, ShrunkThinned
<1>18. ASSUME Accepted(r), r.cmd = "LSET" PROVE Thinned(f, g, S)
  <2>1. o \in handleLset(d, t, a)
    BY <1>18 DEF processCommand
  <2>2. o.db = d \/ o.db = lset(d, t, a[1], a[2], a[3]).db
    BY <2>1 DEF handleLset
  <2>3. a[3] \notin S
    <3>1. Len(a) \in Nat
      <4> DEFINE R == Range(a)
      <4>1. a \in Seq(R)
        BY DEF Fits
      <4> HIDE DEF R, a
      <4> QED
        BY <4>1
    <3>2. Len(a) >= 3
      BY <1>18 DEF Accepted, MinArgs
    <3>3. 3 \in 3..Len(a)
      <4> HIDE DEF a
      <4> QED
        BY <3>1, <3>2
    <3>4. Inserted(r) = {a[i] : i \in 3..Len(a)}
      BY <1>18 DEF Inserted, PushCommands
    <3> QED
      BY <3>3, <3>4
  <2> QED
    BY <1>2, <2>2, <2>3, ListUpdatesThin, ShrunkThinned
<1>19. Accepted(r) =>
          r.cmd \in {"PING", "ECHO", "FLUSHALL", "SET", "GET", "KEYS", "TYPE", "DEL",
                     "UNLINK", "EXPIRE", "RENAME", "LGET", "LLEN", "LPOP", "RPOP",
                     "LREM", "LINDEX", "LSET", "HSET", "HGET", "HEXISTS", "HDEL",
                     "HGETALL", "HKEYS", "HVALS", "HLEN", "HMSET"}
  BY DEF Accepted, MinArgs, PushCommands
<1>20. Shrunk(f, g) => Thinned(f, g, S)
  BY ShrunkThinned
<1> QED
  BY <1>3, <1>4, <1>5, <1>6, <1>7, <1>8, <1>9, <1>10, <1>11, <1>12, <1>13, <1>14,
     <1>15, <1>16, <1>17, <1>18, <1>19, <1>20

-------------------------------------------------------------------------------
(* The order of pushes.                                                      *)

\* The lists of f are sequences.
Lists(f) == \A k \in DOMAIN f : f[k] \in Seq(Value)

\* What PushedInOrder says of two elements of one push, for the lists f.
Pair(f, p, i, j) ==
    \A k, l \in DOMAIN f : \A a \in DOMAIN f[k], b \in DOMAIN f[l] :
        f[k][a] = p.args[i] /\ f[l][b] = p.args[j] =>
            /\ i = j => k = l /\ a = b
            /\ i < j /\ k = l => IF p.cmd = "RPUSH" THEN a < b ELSE b < a

\* Every two elements of a push are in order.
Standing(f) == \A p \in Pushes : \A i, j \in 2..Len(p.args) : Pair(f, p, i, j)

\* No list of f has element e.
Missing(f, e) == \A k \in DOMAIN f : \A a \in DOMAIN f[k] : f[k][a] # e

(***************************************************************************)
(* The elements that are still to be pushed: they are in no list, and each *)
(* has one worker, or one request, that will push it.                      *)
(***************************************************************************)
Pending(f) ==
    /\ \A p \in todo : \A i \in 2..Len(p.args) : Missing(f, p.args[i])
    /\ \A w \in Worker : \A e \in Range(frame[w].left) \cap PushedElements :
          /\ Missing(f, e)
          /\ \A v \in Worker \ {w} : e \notin Range(frame[v].left)
          /\ \A p \in todo : \A i \in 2..Len(p.args) : e # p.args[i]

\* In these terms the lists of the database are in order.
LEMMA StandingInOrder == Standing(db.list_store) => PushedInOrder
<1> SUFFICES ASSUME Standing(db.list_store),
                    NEW p \in Pushes, NEW i \in 2..Len(p.args), NEW j \in 2..Len(p.args),
                    NEW x \in Places(p.args[i]), NEW y \in Places(p.args[j])
             PROVE  /\ i = j => x = y
                    /\ i < j /\ x[1] = y[1] =>
                          IF p.cmd = "RPUSH" THEN x[2] < y[2] ELSE y[2] < x[2]
  BY DEF PushedInOrder
<1> DEFINE f == db.list_store
<1>1. \A e : \A z \in Places(e) : \E k \in DOMAIN f : \E a \in DOMAIN f[k] :
         z = <<k, a>> /\ f[k][a] = e
  BY DEF Places
<1>2. PICK k \in DOMAIN f : \E a \in DOMAIN f[k] : x = <<k, a>> /\ f[k][a] = p.args[i]
  BY <1>1
<1>3. PICK a \in DOMAIN f[k] : x = <<k, a>> /\ f[k][a] = p.args[i]
  BY <1>2
<1>4. PICK l \in DOMAIN f : \E b \in DOMAIN f[l] : y = <<l, b>> /\ f[l][b] = p.args[j]
  BY <1>1
<1>5. PICK b \in DOMAIN f[l] : y = <<l, b>> /\ f[l][b] = p.args[j]
  BY <1>4
<1>6. Pair(f, p, i, j)
  BY DEF Standing
<1>7. /\ i = j => k = l /\ a = b
      /\ i < j /\ k = l => IF p.cmd = "RPUSH" THEN a < b ELSE b < a
  BY <1>3, <1>5, <1>6 DEF Pair
<1> QED
  BY <1>3, <1>5, <1>7

\* Elements in order stay so while lists are thinned.
LEMMA PairThins ==
    ASSUME NEW f, NEW g, Lists(f), Lists(g), NEW S, Thinned(f, g, S),
           NEW p \in Pushes, NEW i \in 2..Len(p.args), NEW j \in 2..Len(p.args),
           p.args[i] \in S, p.args[j] \in S, Pair(f, p, i, j)
    PROVE  Pair(g, p, i, j)
<1> SUFFICES ASSUME NEW k \in DOMAIN g, NEW l \in DOMAIN g,
                    NEW a \in DOMAIN g[k], NEW b \in DOMAIN g[l],
                    g[k][a] = p.args[i], g[l][b] = p.args[j]
             PROVE  /\ i = j => k = l /\ a = b
                    /\ i < j /\ k = l => IF p.cmd = "RPUSH" THEN a < b ELSE b < a
  BY DEF Pair
<1>1. \E x, y \in DOMAIN f : \E c \in DOMAIN f[x], e \in DOMAIN f[y] :
         /\ f[x][c] = g[k][a] /\ f[y][e] = g[l][b]
         /\ x = y <=> k = l
         /\ k = l /\ a < b => c < e
  BY DEF Thinned
<1>2. PICK x \in DOMAIN f, y \in DOMAIN f : \E c \in DOMAIN f[x], e \in DOMAIN f[y] :
         /\ f[x][c] = g[k][a] /\ f[y][e] = g[l][b]
         /\ x = y <=> k = l
         /\ k = l /\ a < b => c < e
  BY <1>1
<1>3. PICK c \in DOMAIN f[x], e \in DOMAIN f[y] :
         /\ f[x][c] = p.args[i] /\ f[y][e] = p.args[j]
         /\ x = y <=> k = l
         /\ k = l /\ a < b => c < e
  BY <1>2
<1>4. /\ i = j => x = y /\ c = e
      /\ i < j /\ x = y => IF p.cmd = "RPUSH" THEN c < e ELSE e < c
  BY <1>3 DEF Pair
<1>5. \E u, v \in DOMAIN f : \E c1 \in DOMAIN f[u], e1 \in DOMAIN f[v] :
         /\ f[u][c1] = g[l][b] /\ f[v][e1] = g[k][a]
         /\ u = v <=> l = k
         /\ l = k /\ b < a => c1 < e1
  BY DEF Thinned
<1>6. PICK u \in DOMAIN f, v \in DOMAIN f : \E c1 \in DOMAIN f[u], e1 \in DOMAIN f[v] :
         /\ f[u][c1] = g[l][b] /\ f[v][e1] = g[k][a]
         /\ u = v <=> l = k
         /\ l = k /\ b < a => c1 < e1
  BY <1>5
<1>7. PICK c1 \in DOMAIN f[u], e1 \in DOMAIN f[v] :
         /\ f[u][c1] = p.args[j] /\ f[v][e1] = p.args[i]
         /\ u = v <=> l = k
         /\ l = k /\ b < a => c1 < e1
  BY <1>6
<1>8. /\ i = j => u = v /\ c1 = e1
      /\ i < j /\ u = v => IF p.cmd = "RPUSH" THEN e1 < c1 ELSE c1 < e1
  BY <1>7 DEF Pair
<1>9. /\ a \in Int /\ b \in Int /\ c \in Int /\ e \in Int /\ c1 \in Int /\ e1 \in Int
  <2>1. ASSUME NEW h, Lists(h), NEW z \in DOMAIN h, NEW m \in DOMAIN h[z]
        PROVE  m \in Int
    <3>1. h[z] \in Seq(Value)
      BY <2>1 DEF Lists
    <3> QED
      BY <3>1
  <2> QED
    BY <2>1
<1>10. i # j => ~(k = l /\ a = b)
  BY HandlerAssumption
<1>11. i \in Int /\ j \in Int
  OBVIOUS
<1>12. CASE i = j
  <2>1. k = l
    BY <1>3, <1>4, <1>12
  <2>2. ~(a < b) /\ ~(b < a)
    BY <1>3, <1>4, <1>7, <1>8, <1>9, <1>12, <2>1
  <2> QED
    BY <1>9, <1>12, <2>1, <2>2
<1>13. CASE i # j
  <2> SUFFICES ASSUME i < j, k = l PROVE IF p.cmd = "RPUSH" THEN a < b ELSE b < a
    BY <1>13
  <2>1. CASE p.cmd = "RPUSH"
    <3>1. ~(b < a)
      BY <1>7, <1>8, <1>9, <2>1
    <3> QED
      BY <1>9, <1>10, <1>13, <2>1, <3>1
  <2>2. CASE p.cmd # "RPUSH"
    <3>1. ~(a < b)
      BY <1>3, <1>4, <1>9, <2>2
    <3> QED
      BY <1>9, <1>10, <1>13, <2>2, <3>1
  <2> QED
    BY <2>1, <2>2
<1> QED
  BY <1>12, <1>13

\* Nor do new elements appear.
LEMMA MissingThins ==
    ASSUME NEW f, NEW g, NEW S, Thinned(f, g, S), NEW e \in S, Missing(f, e)
    PROVE  Missing(g, e)
BY DEF Thinned, Missing

\* So the invariant outlives every operation that thins the lists.
LEMMA StandingThins ==
    ASSUME NEW f, NEW g, Lists(f), Lists(g), Thinned(f, g, PushedElements)
    PROVE  /\ Standing(f) => Standing(g)
           /\ todo \subseteq Pushes /\ Pending(f) => Pending(g)
<1>1. \A p \in Pushes : \A i \in 2..Len(p.args) : p.args[i] \in PushedElements
  BY DEF PushedElements
<1>2. ASSUME Standing(f) PROVE Standing(g)
  BY <1>1, <1>2, PairThins DEF Standing
<1>3. \A e \in PushedElements : Missing(f, e) => Missing(g, e)
  BY MissingThins
<1>4. ASSUME todo \subseteq Pushes, Pending(f) PROVE Pending(g)
  BY <1>1, <1>3, <1>4 DEF Pending
<1> QED
  BY <1>2, <1>4

\* The list a push leaves: the new element is at one end, and the others are
\* in the order they had.
LEMMA ExtendedParts ==
    ASSUME NEW f, NEW g, Lists(f), NEW k, NEW v, NEW cmd, Extended(f, g, k, v, cmd),
           NEW S
    PROVE  /\ v \notin S => Thinned(f, g, S)
           /\ Missing(f, v) =>
                 \A x \in DOMAIN g : \A a \in DOMAIN g[x] : g[x][a] = v =>
                    x = k /\ \A b \in DOMAIN g[k] \ {a} : IF cmd = "LPUSH" THEN a < b ELSE b < a
<1> DEFINE l == ListAt(f, k)
           m == IF cmd = "LPUSH" THEN <<v>> \o l ELSE Append(l, v)
<1>1. l \in Seq(Value)
  BY EmptySeq DEF Lists, ListAt
<1>2. g[k] = m
  BY DEF Extended
<1>3. k \in DOMAIN f => l = f[k]
  BY DEF ListAt
<1>4. ASSUME Missing(f, v) PROVE \A a \in DOMAIN l : l[a] # v
  BY <1>4 DEF ListAt, Missing
<1> HIDE DEF l
<1>5. ASSUME v \notin S PROVE Thinned(f, g, S)
  <2>1. Thin(l, m, S)
    BY <1>1, <1>5, EditsThin
  <2> HIDE DEF m
  <2> QED
    BY <1>2, <2>1, OneThinned DEF Extended, l
<1>6. ASSUME Missing(f, v), NEW x \in DOMAIN g, NEW a \in DOMAIN g[x], g[x][a] = v
      PROVE  x = k /\ \A b \in DOMAIN g[k] \ {a} : IF cmd = "LPUSH" THEN a < b ELSE b < a
  <2>1. x = k
    BY <1>6 DEF Extended, Missing
  <2>2. a \in DOMAIN m /\ m[a] = v
    BY <1>2, <1>6, <2>1
  <2>3. CASE cmd = "LPUSH"
    <3>1. m = <<v>> \o l
      BY <2>3
    <3>2. DOMAIN m = 1..(Len(l) + 1) /\ Len(l) \in Nat /\ DOMAIN l = 1..Len(l)
      BY <1>1, <3>1
    <3>3. \A i \in 2..(Len(l) + 1) : m[i] = l[i - 1]
      BY <1>1, <3>1
    <3> HIDE DEF m
    <3>4. a = 1
      <4>1. ASSUME a # 1 PROVE FALSE
        <5>1. a \in 2..(Len(l) + 1) /\ a - 1 \in DOMAIN l
          BY <2>2, <3>2, <4>1
        <5> QED
          BY <1>4, <1>6, <2>2, <3>3, <5>1
      <4> QED
        BY <4>1
    <3> QED
      BY <1>2, <2>1, <2>3, <3>2, <3>4
  <2>4. CASE cmd # "LPUSH"
    <3>1. m = Append(l, v)
      BY <2>4
    <3>2. DOMAIN m = 1..(Len(l) + 1) /\ Len(l) \in Nat /\ DOMAIN l = 1..Len(l)
      BY <1>1, <3>1
    <3>3. \A i \in 1..Len(l) : m[i] = l[i]
      BY <1>1, <3>1
    <3> HIDE DEF m
    <3>4. a = Len(l) + 1
      <4>1. ASSUME a # Len(l) + 1 PROVE FALSE
        <5>1. a \in 1..Len(l)
          BY <2>2, <3>2, <4>1
        <5> QED
          BY <1>4, <1>6, <2>2, <3>2, <3>3, <5>1
      <4> QED
        BY <4>1
    <3> QED
      BY <1>2, <2>1, <2>4, <3>2, <3>4
  <2> QED
    BY <2>3, <2>4
<1> QED
  BY <1>5, <1>6

\* The element that a push adds, after those before it and before those that
\* follow, is in its place.
LEMMA ExtendedStands ==
    ASSUME NEW f, NEW g, Lists(f), Lists(g), NEW k,
           NEW p \in Pushes, p.cmd \in PushCommands, NEW n \in 2..Len(p.args),
           Extended(f, g, k, p.args[n], p.cmd),
           \A m \in 2..Len(p.args) : m >= n => Missing(f, p.args[m]),
           Standing(f)
    PROVE  Standing(g)
<1> DEFINE e == p.args[n]
           S == PushedElements \ {e}
<1>1. Thinned(f, g, S)
  <2>1. e \notin S /\ Extended(f, g, k, e, p.cmd)
    OBVIOUS
  <2> HIDE DEF e, S
  <2> QED
    BY <2>1, ExtendedParts
<1>2. \A x \in DOMAIN g : \A a \in DOMAIN g[x] : g[x][a] = e =>
         x = k /\ \A b \in DOMAIN g[k] \ {a} : IF p.cmd = "LPUSH" THEN a < b ELSE b < a
  <2>1. Missing(f, e)
    OBVIOUS
  <2> HIDE DEF e
  <2> QED
    BY <2>1, ExtendedParts DEF e
<1> SUFFICES ASSUME NEW q \in Pushes, NEW i \in 2..Len(q.args), NEW j \in 2..Len(q.args)
             PROVE  Pair(g, q, i, j)
  BY DEF Standing
<1>3. CASE q.args[i] # e /\ q.args[j] # e
  <2>1. q.args[i] \in S /\ q.args[j] \in S
    BY <1>3 DEF PushedElements
  <2>2. Pair(f, q, i, j)
    BY DEF Standing
  <2> HIDE DEF S
  <2> QED
    BY <1>1, <2>1, <2>2, PairThins
<1>4. CASE q.args[i] = e \/ q.args[j] = e
  <2>1. q = p /\ (q.args[i] = e <=> i = n) /\ (q.args[j] = e <=> j = n)
    BY <1>4, HandlerAssumption
  <2>2. SUFFICES ASSUME NEW x \in DOMAIN g, NEW y \in DOMAIN g,
                        NEW a \in DOMAIN g[x], NEW b \in DOMAIN g[y],
                        g[x][a] = p.args[i], g[y][b] = p.args[j]
                 PROVE  /\ i = j => x = y /\ a = b
                        /\ i < j /\ x = y => IF p.cmd = "RPUSH" THEN a < b ELSE b < a
    BY <2>1 DEF Pair
  <2>3. ASSUME NEW h, Lists(h), NEW z \in DOMAIN h, NEW m \in DOMAIN h[z]
        PROVE  m \in Int
    <3>1. h[z] \in Seq(Value)
      BY <2>3 DEF Lists
    <3> QED
      BY <3>1
  <2>4. a \in Int /\ b \in Int
    BY <2>3
  <2>5. CASE i = n /\ j = n
    <3>1. x = k /\ y = k
      BY <1>2, <2>2, <2>5
    <3>2. a = b
      <4>1. ASSUME a # b PROVE FALSE
        <5>1. b \in DOMAIN g[k] \ {a} /\ a \in DOMAIN g[k] \ {b}
          BY <3>1, <4>1
        <5>2. IF p.cmd = "LPUSH" THEN a < b ELSE b < a
          BY <1>2, <2>2, <2>5, <5>1
        <5>3. IF p.cmd = "LPUSH" THEN b < a ELSE a < b
          BY <1>2, <2>2, <2>5, <5>1
        <5> QED
          BY <2>4, <5>2, <5>3
      <4> QED
        BY <4>1
    <3> QED
      BY <2>5, <3>1, <3>2
  <2>6. CASE i = n /\ j # n
    <3>1. p.args[j] \in S
      BY <2>1, <2>6 DEF PushedElements
    <3>2. ~Missing(g, p.args[j])
      BY <2>2 DEF Missing
    <3> HIDE DEF S
    <3>3. ~Missing(f, p.args[j])
      BY <1>1, <3>1, <3>2, MissingThins
    <3>4. ~(j >= n)
      BY <2>1, <3>3
    <3>5. ~(i < j)
      BY <2>6, <3>4
    <3> QED
      BY <2>6, <3>5
  <2>7. CASE i # n /\ j = n
    <3>1. ASSUME x = y
          PROVE  IF p.cmd = "RPUSH" THEN a < b ELSE b < a
      <4>1. y = k /\ \A c \in DOMAIN g[k] \ {b} : IF p.cmd = "LPUSH" THEN b < c ELSE c < b
        BY <1>2, <2>2, <2>7
      <4>2. a # b
        BY <2>1, <2>2, <2>7, <3>1
      <4>3. IF p.cmd = "LPUSH" THEN b < a ELSE a < b
        BY <3>1, <4>1, <4>2
      <4> QED
        BY <4>3 DEF PushCommands
    <3> QED
      BY <2>7, <3>1
  <2> QED
    BY <1>4, <2>1, <2>5, <2>6, <2>7
<1> QED
  BY <1>3, <1>4

\* An end piece of the arguments, as a set.
LEMMA EndPieceRange ==
    ASSUME NEW S, NEW a \in Seq(S), NEW i \in 1..Len(a)
    PROVE  Range(SubSeq(a, i + 1, Len(a))) = {a[j] : j \in (i + 1)..Len(a)}
<1> DEFINE s == SubSeq(a, i + 1, Len(a))
<1>1. DOMAIN s = 1..(Len(a) - i) /\ Len(a) \in Nat
  OBVIOUS
<1>2. \A j \in 1..(Len(a) - i) : s[j] = a[j + i]
  OBVIOUS
<1> HIDE DEF s
<1>3. ASSUME NEW x \in Range(s) PROVE x \in {a[j] : j \in (i + 1)..Len(a)}
  <2>1. PICK j \in 1..(Len(a) - i) : x = s[j]
    BY <1>1, <1>3 DEF Range
  <2>2. j + i \in (i + 1)..Len(a)
    BY <1>1
  <2> QED
    BY <1>2, <2>1, <2>2
<1>4. ASSUME NEW j \in (i + 1)..Len(a) PROVE a[j] \in Range(s)
  <2>1. j - i \in 1..(Len(a) - i) /\ (j - i) + i = j
    BY <1>1
  <2>2. s[j - i] = a[j]
    BY <1>2, <2>1
  <2> QED
    BY <1>1, <2>1, <2>2 DEF Range
<1> QED
  BY <1>3, <1>4 DEF s

\* What a push inserts.
LEMMA PushInserts ==
    ASSUME NEW r, r.cmd \in PushCommands
    PROVE  Inserted(r) = {r.args[i] : i \in 2..Len(r.args)}
<1>1. r.cmd # "LSET"
  BY DEF PushCommands
<1> QED
  BY <1>1 DEF Inserted

\* The lists stay in order when other requests are answered.
LEMMA CommandKeepsOrder ==
    ASSUME \A r \in Requests \cup Pushes : Fits(r), OnlyPushed, Good(db, now), now \in Nat,
           Lists(db.list_store), Lists(db'.list_store), todo \subseteq Pushes,
           Standing(db.list_store), Pending(db.list_store),
           NEW r \in Requests, Command(r)
    PROVE  Standing(db'.list_store) /\ Pending(db.list_store)'
<1>1. PICK o \in processCommand(db, now, r) : db' = o.db
  BY DEF Command, Becomes
<1>2. ~(r.cmd \in PushCommands /\ Accepted(r)) /\ Fits(r)
  BY DEF Command
<1>3. Inserted(r) \cap PushedElements = {}
  BY DEF OnlyPushed
<1>4. Thinned(db.list_store, db'.list_store, PushedElements)
  BY <1>1, <1>2, <1>3, CommandThins
<1>5. Standing(db'.list_store) /\ Pending(db'.list_store)
  BY <1>4, StandingThins
<1>6. frame' = frame /\ todo' = todo
  BY DEF Command
<1> QED
  BY <1>5, <1>6 DEF Pending

\* And when a push begins: its elements are no longer those of a request to
\* come but those of a worker.
LEMMA BeginKeepsOrder ==
    ASSUME \A r \in Requests \cup Pushes : Fits(r), OnlyPushed, Frames,
           Standing(db.list_store), Pending(db.list_store),
           NEW w \in Worker, NEW r \in Requests \cup todo, BeginPush(w, r)
    PROVE  Standing(db'.list_store) /\ Pending(db.list_store)'
<1> DEFINE a == r.args
           s == Tail(a)
           f == db.list_store
<1>1. /\ r \in Requests \cup Pushes /\ todo \subseteq Pushes
      /\ r.cmd \in PushCommands /\ Accepted(r)
  BY DEF BeginPush, Frames, FramesIn
<1>2. Range(s) = {a[j] : j \in 2..Len(a)}
  <2> DEFINE S == Range(a)
  <2>1. a \in Seq(S) /\ Len(a) >= 1
    BY <1>1, PushArguments
  <2> HIDE DEF S, a
  <2>2. s = SubSeq(a, 2, Len(a)) /\ 1 \in 1..Len(a) /\ 2 = 1 + 1
    BY <2>1, TailIsSubSeq
  <2> HIDE DEF s
  <2> QED
    BY <2>1, <2>2, EndPieceRange
<1>3. /\ todo' = todo \ {r} /\ db' = db
      /\ frame'[w].left = s
      /\ \A v \in Worker \ {w} : frame'[v] = frame[v]
  BY DEF BeginPush, Frames, FramesIn
<1> HIDE DEF s
<1>4. CASE r \in Requests
  <2>1. Range(s) = Inserted(r)
    <3>1. Inserted(r) = {a[j] : j \in 2..Len(a)}
      BY <1>1, PushInserts
    <3> QED
      BY <1>2, <3>1
  <2>2. Range(s) \cap PushedElements = {}
    BY <1>4, <2>1 DEF OnlyPushed
  <2> QED
    BY <1>3, <2>2 DEF Pending
<1>5. CASE r \in todo
  <2>1. \A e \in Range(s) :
           /\ Missing(f, e)
           /\ \A v \in Worker : e \notin Range(frame[v].left)
           /\ \A p \in todo \ {r} : \A i \in 2..Len(p.args) : e # p.args[i]
    <3>1. TAKE e \in Range(s)
    <3>2. PICK j \in 2..Len(a) : e = a[j]
      BY <1>2
    <3>3. e \in PushedElements
      BY <1>1, <1>5, <3>2 DEF PushedElements
    <3>4. \A p \in todo \ {r} : \A i \in 2..Len(p.args) : e # p.args[i]
      BY <1>1, <1>5, <3>2, HandlerAssumption
    <3> QED
      BY <1>5, <3>2, <3>3, <3>4 DEF Pending
  <2>2. \A p \in todo' : \A i \in 2..Len(p.args) : Missing(db'.list_store, p.args[i])
    BY <1>3 DEF Pending
  <2>3. ASSUME NEW v \in Worker, NEW e \in Range(frame'[v].left) \cap PushedElements
        PROVE  /\ Missing(f, e)
               /\ \A u \in Worker \ {v} : e \notin Range(frame'[u].left)
               /\ \A p \in todo' : \A i \in 2..Len(p.args) : e # p.args[i]
    <3>1. CASE v = w
      BY <1>3, <2>1, <2>3, <3>1
    <3>2. CASE v # w
      <4>1. e \in Range(frame[v].left) \cap PushedElements
        BY <1>3, <2>3, <3>2
      <4>2. e \notin Range(s)
        BY <2>1, <4>1
      <4> QED
        BY <1>3, <4>1, <4>2 DEF Pending
    <3> QED
      BY <3>1, <3>2
  <2> QED
    BY <1>3, <2>2, <2>3 DEF Pending
<1> QED
  BY <1>4, <1>5

\* And when a worker asks for the length of the list and replies.
LEMMA EndKeepsOrder ==
    ASSUME Good(db, now), Frames,
           Lists(db.list_store), Lists(db'.list_store),
           Standing(db.list_store), Pending(db.list_store),
           NEW w \in Worker, EndPush(w)
    PROVE  Standing(db'.list_store) /\ Pending(db.list_store)'
<1> DEFINE k == frame[w].req.args[1]
<1>1. db' = llen(db, now, k).db
  BY DEF EndPush, Becomes
<1>2. IsDatabase(db) /\ todo \subseteq Pushes
  BY DEF Good, Typed, Frames, FramesIn
<1> HIDE DEF k
<1>3. Shrunk(db.list_store, db'.list_store)
  <2> DEFINE hit == k \in DOMAIN db.list_store
             found == Len(db.list_store[k])
  <2>1. llen(db, now, k) = ReadOp(db, now, k, hit, found, 0)
    BY DEF llen
  <2> HIDE DEF hit, found
  <2> QED
    BY <1>1, <1>2, <2>1, ReadOpLists
<1>4. Standing(db'.list_store) /\ Pending(db'.list_store)
  BY <1>2, <1>3, ShrunkThinned, StandingThins
<1>5. /\ todo' = todo
      /\ \A v \in Worker : Range(frame'[v].left) \subseteq Range(frame[v].left)
  <2>1. frame'[w].left = <<>> /\ Range(<<>>) = {}
    BY DEF EndPush, Frames, FramesIn, Idle, Range
  <2>2. \A v \in Worker \ {w} : frame'[v] = frame[v]
    BY DEF EndPush, Frames, FramesIn
  <2> QED
    BY <2>1, <2>2 DEF EndPush
<1> QED
  BY <1>4, <1>5 DEF Pending

\* The push of one element puts it at its end of the list, next to those of
\* the same push that are there.
LEMMA PushKeepsOrder ==
    ASSUME \A r \in Requests \cup Pushes : Fits(r), OnlyPushed, Frames, Good(db, now),
           Lists(db.list_store), Lists(db'.list_store),
           Standing(db.list_store), Pending(db.list_store),
           NEW w \in Worker, PushElement(w)
    PROVE  Standing(db'.list_store) /\ Pending(db.list_store)'
<1> DEFINE r == frame[w].req
           a == r.args
           left == frame[w].left
           h == db.list_store
           h1 == db'.list_store
<1>1. left # <<>> /\ frame[w] # Idle
  BY DEF PushElement, Idle
<1>2. /\ r \in Requests \cup Pushes /\ r.cmd \in PushCommands /\ Accepted(r)
      /\ todo \subseteq Pushes
  BY <1>1 DEF Frames, FramesIn, FrameIn
<1>3. PICK i \in 1..Len(a) : left = SubSeq(a, i + 1, Len(a))
  BY <1>1 DEF Frames, FramesIn, FrameIn
<1> DEFINE e == a[i + 1]
<1>4. /\ i + 1 \in 2..Len(a) /\ Head(left) = e
      /\ Range(left) = {a[j] : j \in (i + 1)..Len(a)}
      /\ Range(Tail(left)) = {a[j] : j \in (i + 2)..Len(a)}
  <2> DEFINE S == Range(a)
  <2>1. a \in Seq(S)
    BY <1>2, PushArguments
  <2> HIDE DEF S, a, left
  <2>2. /\ i + 1 \in 2..Len(a)
        /\ Head(left) = a[i + 1]
        /\ Tail(left) = SubSeq(a, i + 2, Len(a))
    BY <1>1, <1>3, <2>1, EndPieces
  <2>3. Range(left) = {a[j] : j \in (i + 1)..Len(a)}
    BY <1>3, <2>1, EndPieceRange
  <2>4. i + 1 \in 1..Len(a) /\ (i + 1) + 1 = i + 2
    BY <2>2
  <2>5. Range(Tail(left)) = {a[j] : j \in (i + 2)..Len(a)}
    BY <2>1, <2>2, <2>4, EndPieceRange
  <2> QED
    BY <2>2, <2>3, <2>5
<1>5. /\ todo' = todo
      /\ frame'[w].left = Tail(left)
      /\ \A v \in Worker \ {w} : frame'[v] = frame[v]
  <2>1. frame' = [frame EXCEPT ![w].left = Tail(@)] /\ todo' = todo
    BY DEF PushElement
  <2>2. frame[w] = [req |-> r, left |-> left] /\ frame = [v \in Worker |-> frame[v]]
    BY <1>1 DEF Frames, FramesIn, FrameIn
  <2> QED
    BY <2>1, <2>2
<1>6. Range(Tail(left)) \subseteq Range(left)
  <2>1. \A j \in (i + 2)..Len(a) : j \in (i + 1)..Len(a)
    OBVIOUS
  <2> QED
    BY <1>4, <2>1
<1>7. PICK f, g : /\ Shrunk(h, f)
                  /\ Extended(f, g, a[1], e, r.cmd)
                  /\ Shrunk(g, h1)
  <2>1. \/ r.cmd = "LPUSH" /\ \E d \in lpush(db, now, a[1], e) : db' = d
        \/ r.cmd # "LPUSH" /\ \E d \in rpush(db, now, a[1], e) : db' = d
    BY <1>4 DEF PushElement, LPush, RPush, Becomes
  <2>2. db' \in IF r.cmd = "LPUSH" THEN lpush(db, now, a[1], e) ELSE rpush(db, now, a[1], e)
    BY <2>1
  <2> HIDE DEF e
  <2> QED
    BY <2>2, pushExtends
<1> DEFINE k == a[1]
           c == r.cmd
<1>8. Extended(f, g, k, e, c)
  BY <1>7
<1> HIDE DEF e, a, left, k, c
<1>9. Lists(f)
  BY <1>7 DEF Lists, Shrunk
<1>10. Lists(g)
  <2> DEFINE l == ListAt(f, k)
  <2>1. e \in Value
    BY <1>2, <1>4, PushArguments DEF a, e
  <2>2. l \in Seq(Value)
    BY <1>9, EmptySeq DEF Lists, ListAt
  <2>3. g[k] = (IF c = "LPUSH" THEN <<e>> \o l ELSE Append(l, e))
        /\ \A x \in DOMAIN g \ {k} : x \in DOMAIN f /\ g[x] = f[x]
    BY <1>8 DEF Extended
  <2> HIDE DEF l
  <2>4. <<e>> \o l \in Seq(Value) /\ Append(l, e) \in Seq(Value)
    BY <2>1, <2>2
  <2> QED
    BY <1>9, <2>3, <2>4 DEF Lists
<1>11. Standing(f) /\ Pending(f)
  BY <1>2, <1>7, <1>9, ShrunkThinned, StandingThins
<1>12. CASE r \in Requests
  <2>1. Range(left) \cap PushedElements = {}
    <3>1. Inserted(r) = {a[j] : j \in 2..Len(a)}
      BY <1>2, PushInserts DEF a
    <3>2. \A j \in (i + 1)..Len(a) : j \in 2..Len(a)
      OBVIOUS
    <3> QED
      BY <1>4, <1>12, <3>1, <3>2 DEF OnlyPushed
  <2>2. e \notin PushedElements
    <3>1. i + 1 \in (i + 1)..Len(a)
      BY <1>4
    <3> QED
      BY <1>4, <2>1, <3>1 DEF e
  <2>3. Thinned(f, g, PushedElements)
    BY <1>9, <1>8, <2>2, ExtendedParts
  <2>4. Standing(h1) /\ Pending(h1)
    BY <1>2, <1>7, <1>9, <1>10, <1>11, <2>3, ShrunkThinned, StandingThins
  <2> QED
    BY <1>5, <1>6, <2>1, <2>4 DEF Pending
<1>13. CASE r \in Pushes
  <2>1. \A m \in 2..Len(a) : a[m] \in PushedElements /\ (m # i + 1 => a[m] # e)
    BY <1>4, <1>13, HandlerAssumption DEF PushedElements, a, e
  <2>2. \A m \in 2..Len(a) : m >= i + 1 => Missing(f, a[m]) /\ a[m] \in Range(left)
    <3>1. \A m \in 2..Len(a) : m >= i + 1 => m \in (i + 1)..Len(a)
      OBVIOUS
    <3> QED
      BY <1>4, <1>11, <2>1, <3>1 DEF Pending, left
  <2>3. Missing(f, e) /\ e \in Range(left) /\ e \in PushedElements
    BY <1>4, <2>1, <2>2 DEF e
  <2>4. Standing(g)
    <3> DEFINE n == i + 1
    <3>1. /\ r.cmd \in PushCommands /\ n \in 2..Len(r.args)
          /\ Extended(f, g, k, r.args[n], r.cmd)
          /\ \A m \in 2..Len(r.args) : m >= n => Missing(f, r.args[m])
      BY <1>2, <1>4, <1>8, <2>2 DEF a, e, c
    <3> HIDE DEF n, r
    <3> QED
      BY <1>9, <1>10, <1>11, <1>13, <3>1, ExtendedStands
  <2>5. \A x \in PushedElements \ {e} : Missing(f, x) => Missing(g, x)
    <3> DEFINE S == PushedElements \ {e}
    <3>1. e \notin S
      OBVIOUS
    <3> HIDE DEF S
    <3>2. Thinned(f, g, S)
      BY <1>9, <1>8, <3>1, ExtendedParts
    <3>3. \A x \in S : Missing(f, x) => Missing(g, x)
      BY <3>2, MissingThins
    <3> QED
      BY <3>3 DEF S
  <2>6. Standing(h1) /\ \A x \in PushedElements \ {e} : Missing(f, x) => Missing(h1, x)
    <3>1. Thinned(g, h1, PushedElements)
      BY <1>7, ShrunkThinned
    <3>2. Standing(h1)
      BY <1>10, <2>4, <3>1, StandingThins
    <3>3. \A x \in PushedElements : Missing(g, x) => Missing(h1, x)
      BY <3>1, MissingThins
    <3> QED
      BY <2>5, <3>2, <3>3
  <2>7. \A p \in todo : \A j \in 2..Len(p.args) :
           p.args[j] \in PushedElements \ {e} /\ Missing(f, p.args[j])
    <3>1. \A p \in todo : \A j \in 2..Len(p.args) : p.args[j] \in PushedElements
      BY <1>2 DEF PushedElements
    <3>2. \A p \in todo : \A j \in 2..Len(p.args) : e # p.args[j]
      BY <1>11, <2>3 DEF Pending, left
    <3> QED
      BY <1>11, <3>1, <3>2 DEF Pending
  <2>8. ASSUME NEW v \in Worker, NEW x \in Range(frame'[v].left) \cap PushedElements
        PROVE  /\ x # e /\ Missing(f, x)
               /\ \A u \in Worker \ {v} : x \notin Range(frame'[u].left)
               /\ \A p \in todo : \A j \in 2..Len(p.args) : x # p.args[j]
    <3>1. \A u \in Worker : Range(frame'[u].left) \subseteq Range(frame[u].left)
      BY <1>5, <1>6 DEF left
    <3>2. x # e
      <4>1. CASE v = w
        <5>1. PICK j \in (i + 2)..Len(a) : x = a[j]
          BY <1>4, <1>5, <2>8, <4>1
        <5>2. j \in 2..Len(a) /\ j # i + 1
          OBVIOUS
        <5> QED
          BY <2>1, <5>1, <5>2
      <4>2. CASE v # w
        BY <1>11, <2>3, <2>8, <3>1, <4>2 DEF Pending, left
      <4> QED
        BY <4>1, <4>2
    <3> QED
      BY <1>11, <2>8, <3>1, <3>2 DEF Pending
  <2>9. \A v \in Worker : \A x \in Range(frame'[v].left) \cap PushedElements :
           /\ Missing(h1, x)
           /\ \A u \in Worker \ {v} : x \notin Range(frame'[u].left)
           /\ \A p \in todo : \A j \in 2..Len(p.args) : x # p.args[j]
    BY <2>6, <2>8
  <2>10. \A p \in todo : \A j \in 2..Len(p.args) : Missing(h1, p.args[j])
    BY <2>6, <2>7
  <2> QED
    BY <1>5, <2>6, <2>9, <2>10 DEF Pending
<1> QED
  BY <1>2, <1>12, <1>13

(***************************************************************************)
(* The elements of a push are stored once and in order, however many       *)
(* workers push, pop, remove, overwrite, rename and evict in between: no   *)
(* other request inserts elements that belong to a push.                   *)
(***************************************************************************)
THEOREM PushesStayInOrder ==
    ASSUME \A r \in Requests \cup Pushes : Fits(r), OnlyPushed
    PROVE  HandlerSpec => []PushedInOrder
<1> DEFINE K == Standing(db.list_store) /\ Pending(db.list_store)
           L == Good(db, now) /\ now \in Nat /\ Lists(db.list_store)
<1>1. HandlerInit => Frames
  BY DEF HandlerInit, Frames, FramesIn, FrameIn
<1>2. Frames /\ [HandlerNext]_handlerVars => Frames'
  BY HandlerStep
<1>3. HandlerInit => K
  <2> SUFFICES ASSUME HandlerInit PROVE K
    OBVIOUS
  <2>1. DOMAIN db.list_store = {}
    BY DEF HandlerInit, Init, EmptyDatabase, EmptyMap
  <2>2. \A w \in Worker : frame[w].left = <<>> /\ Range(<<>>) = {}
    BY DEF HandlerInit, Idle, Range
  <2> QED
    BY <2>1, <2>2 DEF Standing, Pair, Pending, Missing
<1>4. ASSUME L, L', Frames, K, [HandlerNext]_handlerVars PROVE K'
  <2>1. CASE UNCHANGED handlerVars
    BY <1>4, <2>1 DEF handlerVars, Pending
  <2>2. ASSUME NEW r \in Requests, Command(r) PROVE K'
    BY <1>4, <2>2, CommandKeepsOrder DEF Frames, FramesIn
  <2>3. ASSUME NEW w \in Worker, NEW r \in Requests \cup todo, BeginPush(w, r) PROVE K'
    BY <1>4, <2>3, BeginKeepsOrder
  <2>4. ASSUME NEW w \in Worker, PushStep(w) PROVE K'
    BY <1>4, <2>4, PushKeepsOrder, EndKeepsOrder DEF PushStep
  <2>5. ASSUME Tick /\ UNCHANGED <<frame, todo, last>> PROVE K'
    BY <1>4, <2>5 DEF Tick, Pending
  <2> QED
    BY <1>4, <2>1, <2>2, <2>3, <2>4, <2>5 DEF HandlerNext
<1>5. IInv => L
  BY IInvGood, ListTyped DEF Lists, IInv, TypeOK
<1>6. HandlerSpec => [](IInv /\ Full(db))
  BY HandlersKeepDatabase
<1>7. K => PushedInOrder
  BY StandingInOrder
<1> HIDE DEF K, L
<1> QED
  BY <1>1, <1>2, <1>3, <1>4, <1>5, <1>6, <1>7, PTL DEF HandlerSpec

-------------------------------------------------------------------------------
(***************************************************************************)
(* The client and the server stay in step (InStep), for any requests, any  *)
(* number of commands, whatever the database answers, and a server that    *)
(* may die at any point.                                                   *)
(*                                                                         *)
(* The invariant says where the one exchange stands: the request is on the *)
(* wire, or a worker is in the middle of a push, or the reply is under     *)
(* way, or no more than its beginning will come, because the server is     *)
(* gone.                                                                   *)
(***************************************************************************)

\* No worker is inside a push.
AllIdle == \A w \in Worker : frame[w] = Idle

\* A worker inside LPUSH or RPUSH.
Pushing(f) == f = [req |-> f.req, left |-> f.left] /\ f.req.cmd \in PushCommands

OnePushing ==
    \E w \in Worker : Pushing(frame[w])
                      /\ \A v \in Worker \ {w} : frame[v] = Idle

\* The words of a request.
Said(r) == <<r.cmd>> \o r.args

\* The request has not been received.
Sent ==
    /\ \E r \in Requests : wire = buildRESPcommand(Said(r))
    /\ replies = <<>> /\ AllIdle /\ link = "up"

\* It is being processed.
Served == wire = <<>> /\ replies = <<>> /\ OnePushing /\ link = "up"

\* It has been answered.
Replied == wire = <<>> /\ Plain(replies) /\ AllIdle

\* It will not be answered, or not to the end.
Gone ==
    /\ wire = <<>> /\ AllIdle /\ ~LinkOpen
    /\ replies \in {<<>>, <<Torn>>, <<BulkHeader>>}

\* The header of a bulk string has been read.
HalfRead ==
    /\ wire = <<>> /\ AllIdle
    /\ (replies = <<>> /\ ~LinkOpen) \/ \E v : replies = <<Item("text", v)>>

Exchange ==
    /\ cli \in {"prompt", "reading", "text"} =>
          ~crlf /\ link \in {"up", "closed", "reset"}
    /\ cli = "prompt" => wire = <<>> /\ replies = <<>> /\ AllIdle
    /\ cli = "reading" => need = 1 /\ (Sent \/ Served \/ Replied \/ Gone)
    /\ cli = "text" => need = 1 /\ HalfRead

CInv ==
    /\ frame = [w \in Worker |-> frame[w]]
    /\ cli \in {"prompt", "reading", "text", "quit", "killed", "aborted"}
    /\ cuts \in Nat
    /\ cuts = 0 /\ ~misread => Exchange

-------------------------------------------------------------------------------
(* Requests.                                                                 *)

\* A sequence is one over any set that has its elements.
LEMMA SeqOver ==
    ASSUME NEW S, NEW q \in Seq(S), NEW T, \A i \in 1..Len(q) : q[i] \in T
    PROVE  q \in Seq(T)
<1> DEFINE n == Len(q)
<1>1. n \in Nat /\ q = [i \in 1..n |-> q[i]]
  OBVIOUS
<1> HIDE DEF n
<1>2. \A i \in 1..n : q[i] \in T
  BY DEF n
<1>3. [i \in 1..n |-> q[i]] \in Seq(T)
  BY <1>1, <1>2
<1> QED
  BY <1>1, <1>3

\* That of its elements is one.
LEMMA SeqOverRange ==
    ASSUME NEW S, NEW q \in Seq(S)
    PROVE  q \in Seq(Range(q)) /\ \A i \in 1..Len(q) : q[i] \in Range(q)
<1>1. \A i \in 1..Len(q) : q[i] \in Range(q)
  BY DEF Range
<1> QED
  BY <1>1, SeqOver

\* Behind its first word b has the words said, each behind its length.
Interleaved(b, said) ==
    \A i \in 1..Len(said) : b[2 * i] = Length /\ b[2 * i + 1] = said[i]

\* The words of a request on the wire.
LEMMA BuiltWords ==
    ASSUME NEW S, NEW said \in Seq(S), NEW b, b = buildRESPcommand(said)
    PROVE  /\ b \in Seq({Star, Length} \cup S) /\ Len(b) = 2 * Len(said) + 1
           /\ b[1] = Star
           /\ Interleaved(b, said)
           /\ \A j \in 2..Len(b) : b[j] = Length \/ b[j] \in Range(said)
<1> DEFINE n == Len(said)
           N == 2 * n + 1
<1>1. n \in Nat /\ N \in Nat
  OBVIOUS
<1>2. \A i \in 1..n : said[i] \in S /\ said[i] \in Range(said)
  BY DEF Range
<1>3. b = [i \in 1..N |-> CASE i = 1 -> Star
                            [] i > 1 /\ i % 2 = 0 -> Length
                            [] i > 1 /\ i % 2 = 1 -> said[i \div 2]]
  BY DEF buildRESPcommand
<1> HIDE DEF n, N
<1>4. \A i \in 1..N : i > 1 /\ i % 2 = 1 => i \div 2 \in 1..n
  BY <1>1 DEF N
<1>5. 1 \in 1..N /\ (\A i \in 1..n : 2 * i \in 2..N /\ 2 * i + 1 \in 2..N)
  BY <1>1 DEF N
<1>6. b[1] = Star
  BY <1>3, <1>5
<1>7. ASSUME NEW i \in 1..n
      PROVE  b[2 * i] = Length /\ b[2 * i + 1] = said[i]
  <2>1. 2 * i \in 1..N /\ 2 * i > 1 /\ (2 * i) % 2 = 0 /\ 2 * i # 1 /\ (2 * i) % 2 # 1
    BY <1>1, <1>5
  <2>2. /\ 2 * i + 1 \in 1..N /\ 2 * i + 1 > 1 /\ (2 * i + 1) % 2 = 1
        /\ 2 * i + 1 # 1 /\ (2 * i + 1) % 2 # 0 /\ (2 * i + 1) \div 2 = i
    BY <1>1, <1>5
  <2>3. b[2 * i] = Length
    BY <1>3, <2>1
  <2> DEFINE j == 2 * i + 1
  <2>4. j \in 1..N /\ j > 1 /\ j % 2 = 1 /\ j # 1 /\ j % 2 # 0 /\ j \div 2 = i
    BY <2>2
  <2> HIDE DEF j
  <2>5. b[j] = said[j \div 2]
    BY <1>3, <2>4
  <2> QED
    BY <2>3, <2>4, <2>5 DEF j
<1>8. ASSUME NEW j \in 2..N
      PROVE  b[j] = Length \/ (b[j] \in Range(said) /\ b[j] \in S)
  <2>1. j \in 1..N /\ j > 1 /\ j # 1 /\ (j % 2 = 0 \/ j % 2 = 1)
    BY <1>1
  <2>2. CASE j % 2 = 0
    BY <1>3, <2>1, <2>2
  <2>3. CASE j % 2 = 1
    <3>1. b[j] = said[j \div 2] /\ j \div 2 \in 1..n
      BY <1>3, <1>4, <2>1, <2>3
    <3> QED
      BY <1>2, <3>1
  <2> QED
    BY <2>1, <2>2, <2>3
<1>9. b \in Seq({Star, Length} \cup S) /\ Len(b) = N
  <2> DEFINE T == {Star, Length} \cup S
             e(i) == b[i]
  <2>1. \A i \in 1..N : e(i) \in T
    <3>1. \A i \in 1..N : i = 1 \/ i \in 2..N
      BY <1>1
    <3> QED
      BY <1>6, <1>8, <3>1
  <2>2. b = [i \in 1..N |-> e(i)]
    BY <1>3
  <2> HIDE DEF T, e
  <2>3. [i \in 1..N |-> e(i)] \in Seq(T) /\ Len([i \in 1..N |-> e(i)]) = N
    BY <1>1, <2>1
  <2> QED
    BY <2>2, <2>3 DEF T
<1> QED
  BY <1>6, <1>7, <1>8, <1>9 DEF n, N, Interleaved

\* The parser finds in a request that is received whole the words said.
LEMMA WholeParsed ==
    ASSUME NEW S, NEW said \in Seq(S), NEW b, b = buildRESPcommand(said),
           NEW d, ~d.behind, d.words = b, d.ending = "crlf"
    PROVE  parseRespCommand(d) = {said} /\ ~parseThrows(d)
<1> DEFINE n == Len(said)
<1>1. b \in Seq({Star, Length} \cup S) /\ Len(b) = 2 * n + 1 /\ b[1] = Star
  BY BuiltWords
<1>2. \A i \in 1..n : b[2 * i] = Length /\ b[2 * i + 1] = said[i]
  <2>1. Interleaved(b, said)
    BY BuiltWords
  <2> QED
    BY <2>1 DEF Interleaved
<1>3. n \in Nat
  OBVIOUS
<1>15. said = [i \in 1..n |-> said[i]]
  OBVIOUS
<1> HIDE DEF n
<1>4. b # <<>>
  BY <1>1, <1>3
<1>5. ~d.behind /\ d.words = b /\ d.ending = "crlf"
  OBVIOUS
<1>6. d.words # <<>> /\ d.words[1] = Star /\ Len(d.words) = 2 * n + 1
      /\ \A i \in 1..n : d.words[2 * i] = Length /\ d.words[2 * i + 1] = said[i]
  BY <1>1, <1>2, <1>4, <1>5
<1>7. IsArray(d)
  BY <1>5, <1>6 DEF IsArray
<1>8. \A i \in 1..n : d.words[2 * i] = Length
  BY <1>6
<1>9. n \in Readable(d)
  <2>1. Len(d.words) = 2 * n + 1
    BY <1>6
  <2> DEFINE L == Len(d.words)
  <2> HIDE DEF L
  <2>2. ASSUME L = 2 * n + 1 PROVE n \in 0..L /\ 2 * n + 1 = L
    BY <1>3, <2>2
  <2> QED
    BY <1>5, <1>8, <2>1, <2>2 DEF Readable, L
<1>10. \A m \in Readable(d) : m \in Nat /\ m <= n
  <2>1. ASSUME NEW m \in Readable(d) PROVE m \in Nat /\ m <= n
    <3>1. Len(d.words) = 2 * n + 1
      BY <1>6
    <3>2. m \in 0..Len(d.words) /\ (2 * m + 1 < Len(d.words) \/ 2 * m + 1 = Len(d.words))
      BY DEF Readable
    <3> DEFINE L == Len(d.words)
    <3> HIDE DEF L
    <3>3. L = 2 * n + 1 /\ m \in 0..L /\ (2 * m + 1 < L \/ 2 * m + 1 = L)
      BY <3>1, <3>2 DEF L
    <3> QED
      BY <1>3, <3>3
  <2> QED
    BY <2>1
<1>11. Elements(d, n) = said
  <2>1. \A i \in 1..n : d.words[2 * i + 1] = said[i]
    BY <1>6
  <2>2. Elements(d, n) = [i \in 1..n |-> said[i]]
    BY <2>1 DEF Elements
  <2> QED
    BY <1>15, <2>2
<1>12. {m \in Readable(d) : d.words[1] = Star => \A l \in Readable(d) : l <= m} = {n}
  <2>1. ASSUME NEW m \in Readable(d), n <= m PROVE m = n
    <3>1. m \in Nat /\ m <= n
      BY <1>10
    <3> QED
      BY <1>3, <2>1, <3>1
  <2>2. \A l \in Readable(d) : l <= n
    BY <1>10
  <2> QED
    BY <1>6, <1>9, <2>1, <2>2
<1>13. parseRespCommand(d) = {Elements(d, m) : m \in {n}}
  BY <1>7, <1>12 DEF parseRespCommand
<1>14. {Elements(d, m) : m \in {n}} = {Elements(d, n)}
  OBVIOUS
<1> QED
  BY <1>6, <1>11, <1>13, <1>14, RequestAssumption DEF parseThrows

\* A request is made of the words said.
LEMMA SaidAgain ==
    ASSUME NEW r \in Requests
    PROVE  /\ r = Request(r.cmd, r.args) /\ Said(r) \in Seq(Range(Said(r)))
           /\ RequestOf(Said(r)) = r /\ Star \notin Range(Said(r))
<1> DEFINE T == {r.cmd} \cup Range(r.args)
           c == r.cmd
           a == r.args
<1>1. r = Request(c, a) /\ a \in Seq(Range(a)) /\ Star \notin Range(Said(r))
  BY ClientAssumption DEF Said
<1>2. c \in T /\ a \in Seq(T)
  <2>1. a \in Seq(Range(a)) /\ \A i \in 1..Len(a) : a[i] \in T
    BY <1>1, SeqOverRange
  <2> HIDE DEF T
  <2>2. a \in Seq(T)
    BY <2>1, SeqOver
  <2> QED
    BY <2>2 DEF T
<1> HIDE DEF T, c, a
<1>3. /\ <<c>> \o a \in Seq(T) /\ <<c>> \o a # <<>>
      /\ Head(<<c>> \o a) = c /\ Tail(<<c>> \o a) = a
  BY <1>2
<1>4. RequestOf(<<c>> \o a) = Request(c, a)
  BY <1>3 DEF RequestOf
<1>5. <<c>> \o a \in Seq(Range(<<c>> \o a))
  BY <1>3, SeqOverRange
<1> QED
  BY <1>1, <1>3, <1>4, <1>5 DEF Said, c, a

\* The values of the items a reply is made of.
LEMMA Items ==
    /\ \A p, v : Item(p, v).prefix = p
    /\ \A v : Item("text", v) \notin {BulkHeader, Torn}
    /\ Item("$", -1) # BulkHeader /\ BulkHeader.prefix = "$" /\ Torn.prefix = "torn"
<1>1. \A p, v : Item(p, v).prefix = p /\ Item(p, v).val = v
  BY DEF Item
<1>2. BulkHeader.prefix = "$" /\ BulkHeader.val = 0
  BY <1>1 DEF BulkHeader
<1>3. ASSUME NEW v PROVE Item("text", v) # BulkHeader
  BY <1>1, <1>2
<1>5. ASSUME NEW v PROVE Item("text", v) # Torn
  <2>1. Item("text", v).prefix = "text" /\ Torn.prefix = "torn"
    BY <1>1 DEF Torn
  <2> QED
    BY <2>1
<1>4. Item("$", -1) # BulkHeader
  <2>1. Item("$", -1).val = -1
    BY <1>1
  <2> QED
    BY <1>2, <2>1
<1> QED
  BY <1>1, <1>2, <1>3, <1>4, <1>5 DEF Torn

\* An item that is read in one go, and is a whole value.
AtOnce(x) == x \notin {BulkHeader, Torn} /\ x.prefix # "*"

\* A scalar is one item that is neither the header of a bulk string nor that
\* of an array, or a bulk string.
LEMMA PlainItems ==
    ASSUME NEW s, Plain(s)
    PROVE  /\ s # <<>> /\ <<>> \o s = s
           /\ \/ \E x : s = <<x>> /\ AtOnce(x)
              \/ \E v : s = <<BulkHeader, Item("text", v)>>
<1>1. \A p, v : Item(p, v).prefix = p
  BY Items
<1>2. \/ \E x : s = <<x>> /\ AtOnce(x)
      \/ \E v : s = <<BulkHeader, Item("text", v)>>
  <2>1. CASE s = Status \/ s = Error
    <3>1. /\ Item("+", 0).prefix = "+" /\ Item("-", 0).prefix = "-"
          /\ BulkHeader.prefix = "$"
      BY Items
    <3>2. s = <<Item("+", 0)>> \/ s = <<Item("-", 0)>>
      BY <2>1 DEF Status, Error
    <3> QED
      BY <3>1, <3>2, Items DEF AtOnce
  <2>2. CASE s = Nil
    <3>1. s = <<Item("$", -1)>> /\ Item("$", -1).prefix = "$"
      BY <2>2, Items DEF Nil
    <3> QED
      BY <3>1, Items DEF AtOnce
  <2>3. ASSUME NEW n, s = Integer(n)
        PROVE  \E x : s = <<x>> /\ AtOnce(x)
    <3>1. s = <<Item(":", n)>> /\ Item(":", n).prefix = ":" /\ BulkHeader.prefix = "$"
      BY <2>3, Items DEF Integer
    <3> QED
      BY <3>1, Items DEF AtOnce
  <2>4. ASSUME NEW v, s = Bulk(v)
        PROVE  s = <<BulkHeader, Item("text", v)>>
    BY <2>4 DEF Bulk
  <2> QED
    BY <2>1, <2>2, <2>3, <2>4 DEF Plain
<1>3. s # <<>> /\ <<>> \o s = s
  <2>1. ASSUME NEW x, s = <<x>> PROVE s # <<>> /\ <<>> \o s = s
    BY <2>1
  <2>2. ASSUME NEW x, NEW y, s = <<x, y>> PROVE s # <<>> /\ <<>> \o s = s
    BY <2>2
  <2> QED
    BY <1>2, <2>1, <2>2
<1> QED
  BY <1>2, <1>3

\* What is left of short sequences.
LEMMA Tails ==
    /\ \A x : Head(<<x>>) = x /\ Tail(<<x>>) = <<>>
    /\ \A x, y : Head(<<x, y>>) = x /\ Tail(<<x, y>>) = <<y>>
OBVIOUS


\* The beginnings of short sequences.
LEMMA SubSeqs ==
    /\ \A q, z : Append(SubSeq(q, 1, 0), z) = <<z>> /\ SubSeq(q, 1, 0) = <<>>
    /\ \A x : SubSeq(<<x>>, 1, 1) = <<x>>
    /\ \A x, y : SubSeq(<<x, y>>, 1, 1) = <<x>> /\ SubSeq(<<x, y>>, 1, 2) = <<x, y>>
<1>1. ASSUME NEW q, NEW z
      PROVE  SubSeq(q, 1, 0) = <<>> /\ Append(SubSeq(q, 1, 0), z) = <<z>>
  <2>1. SubSeq(q, 1, 0) = <<>>
    <3> DEFINE sub(m, n) == SubSeq(q, m, n)
    <3>1. ASSUME NEW m \in Int, NEW n \in Int, n < m PROVE sub(m, n) = <<>>
      BY <3>1, SubSeqEmpty
    <3> HIDE DEF sub
    <3>2. sub(1, 0) = <<>>
      BY <3>1
    <3> QED
      BY <3>2 DEF sub
  <2>2. Append(<<>>, z) = <<z>>
    OBVIOUS
  <2> QED
    BY <2>1, <2>2, Zenon
<1>2. ASSUME NEW x PROVE SubSeq(<<x>>, 1, 1) = <<x>>
  <2> DEFINE q == <<x>>
  <2>1. q \in Seq({x}) /\ Len(q) = 1
    OBVIOUS
  <2> HIDE DEF q
  <2>2. SubSeq(q, 1, Len(q)) = q
    BY <2>1
  <2> QED
    BY <2>1, <2>2 DEF q
<1>3. ASSUME NEW x, NEW y
      PROVE  SubSeq(<<x, y>>, 1, 1) = <<x>> /\ SubSeq(<<x, y>>, 1, 2) = <<x, y>>
  <2> DEFINE q == <<x, y>>
  <2>1. q \in Seq({x, y}) /\ Len(q) = 2 /\ q[1] = x
    OBVIOUS
  <2> HIDE DEF q
  <2>2. SubSeq(q, 1, Len(q)) = q
    BY <2>1
  <2>3. SubSeq(q, 1, 1) = <<q[1]>>
    <3> DEFINE h == SubSeq(q, 1, 1)
    <3>1. h \in Seq({x, y}) /\ Len(h) = 1 /\ h[1] = q[1]
      BY <2>1
    <3> HIDE DEF h
    <3>2. h = <<q[1]>>
      BY <3>1
    <3> QED
      BY <3>2 DEF h
  <2> QED
    BY <2>1, <2>2, <2>3 DEF q
<1> QED
  BY <1>1, <1>2, <1>3

\* What may be left of a reply when the server dies.
LEMMA TruncatedReplies ==
    /\ Truncated(<<>>) \subseteq {<<>>}
    /\ \A x : Truncated(<<x>>) \subseteq {<<>>, <<x>>, <<Torn>>}
    /\ \A v : Truncated(<<Item("text", v)>>) \subseteq {<<>>, <<Item("text", v)>>}
    /\ \A v : Truncated(<<BulkHeader, Item("text", v)>>) \subseteq
               {<<>>, <<BulkHeader>>, <<BulkHeader, Item("text", v)>>, <<Torn>>}
<1>1. \A v : Item("text", v).prefix \notin {"$", "*"}
  BY Items
<1>2. Truncated(<<>>) \subseteq {<<>>}
  <2>1. \A n \in 0..Len(<<>>) : SubSeq(<<>>, 1, n) = <<>>
    OBVIOUS
  <2>2. 1..Len(<<>>) = {}
    OBVIOUS
  <2> QED
    BY <2>1, <2>2 DEF Truncated
<1>3. ASSUME NEW x
      PROVE  /\ Truncated(<<x>>) \subseteq {<<>>, <<x>>, <<Torn>>}
             /\ x.prefix \notin {"$", "*"} => Truncated(<<x>>) \subseteq {<<>>, <<x>>}
  <2>1. \A n \in 0..Len(<<x>>) : SubSeq(<<x>>, 1, n) \in {<<>>, <<x>>}
    <3>1. SubSeq(<<x>>, 1, 0) = <<>> /\ SubSeq(<<x>>, 1, 1) = <<x>>
      BY SubSeqs
    <3>2. 0..Len(<<x>>) = {0, 1}
      OBVIOUS
    <3> QED
      BY <3>1, <3>2
  <2>2. 1..Len(<<x>>) = {1} /\ <<x>>[1] = x /\ 1 - 1 = 0
        /\ Append(SubSeq(<<x>>, 1, 0), Torn) = <<Torn>>
    BY SubSeqs
  <2> QED
    BY <2>1, <2>2 DEF Truncated
<1>4. ASSUME NEW x, NEW y, y.prefix \notin {"$", "*"}
      PROVE  Truncated(<<x, y>>) \subseteq {<<>>, <<x>>, <<x, y>>, <<Torn>>}
  <2> DEFINE q == <<x, y>>
  <2>1. \A n \in 0..Len(q) : SubSeq(q, 1, n) \in {<<>>, <<x>>, <<x, y>>}
    <3>1. SubSeq(q, 1, 0) = <<>> /\ SubSeq(q, 1, 1) = <<x>> /\ SubSeq(q, 1, 2) = q
      BY SubSeqs
    <3>2. 0..Len(q) = {0, 1, 2}
      OBVIOUS
    <3> QED
      BY <3>1, <3>2
  <2>2. 1..Len(q) = {1, 2} /\ q[2] = y /\ 1 - 1 = 0
        /\ Append(SubSeq(q, 1, 0), Torn) = <<Torn>>
    BY SubSeqs
  <2> HIDE DEF q
  <2>3. \A n \in {m \in 1..Len(q) : q[m].prefix \in {"$", "*"}} : n = 1
    BY <1>4, <2>2
  <2>4. Truncated(q) \subseteq {<<>>, <<x>>, <<x, y>>, <<Torn>>}
    BY <2>1, <2>2, <2>3 DEF Truncated
  <2> QED
    BY <2>4 DEF q
<1> QED
  BY <1>1, <1>2, <1>3, <1>4

-------------------------------------------------------------------------------
(* The client's steps.                                                       *)

\* A command goes on the wire, or into a socket that is closed at the other end.
LEMMA SendKeeps ==
    ASSUME CInv, NEW r \in Requests, SendCommand(r)
    PROVE  CInv'
<1>1. /\ frame' = frame /\ replies' = replies /\ cli' = "reading" /\ need' = 1
      /\ crlf' = crlf /\ cuts' = cuts /\ misread' = misread
  BY DEF SendCommand, handlerVars
<1>2. SUFFICES ASSUME cuts = 0, ~misread PROVE Exchange'
  BY <1>1 DEF CInv
<1>3. /\ wire = <<>> /\ replies = <<>> /\ AllIdle /\ ~crlf
      /\ link \in {"up", "closed"}
  BY <1>2 DEF SendCommand, CInv, Exchange
<1>4. CASE link = "up"
  <2>1. wire' = <<>> \o buildRESPcommand(Said(r)) /\ link' = "up"
    BY <1>3, <1>4 DEF SendCommand, Said
  <2>2. wire' = buildRESPcommand(Said(r))
    <3> DEFINE b == buildRESPcommand(Said(r))
    <3>1. b \in Seq({Star, Length} \cup Range(Said(r)))
      BY SaidAgain, BuiltWords
    <3> HIDE DEF b
    <3>2. <<>> \o b = b
      BY <3>1
    <3> QED
      BY <2>1, <3>2 DEF b
  <2>3. Sent'
    BY <1>1, <1>3, <2>1, <2>2 DEF Sent, AllIdle
  <2> QED
    BY <1>1, <1>3, <2>1, <2>3 DEF Exchange
<1>5. CASE link = "closed"
  <2>1. wire' = wire /\ link' = "reset"
    BY <1>5 DEF SendCommand
  <2>2. Gone'
    BY <1>1, <1>3, <2>1 DEF Gone, AllIdle, LinkOpen
  <2> QED
    BY <1>1, <1>3, <2>1, <2>2 DEF Exchange
<1> QED
  BY <1>3, <1>4, <1>5

\* What reading leaves alone.
LEMMA ReadLeaves ==
    ASSUME Read
    PROVE  /\ UNCHANGED <<handlerVars, wire, crlf, cuts, misread, link>>
           /\ cli \in {"reading", "text"}
           /\ cli' \in {"prompt", "reading", "text", "aborted"}
BY DEF Read, ReadValue, ReadText, ReadEnd, Reads, stream

\* The value a reply begins with ends it, or is the header of a bulk string.
LEMMA ReadValueKeeps ==
    ASSUME CInv, ReadValue
    PROVE  CInv'
<1>1. /\ frame' = frame /\ wire' = wire /\ crlf' = crlf /\ link' = link
      /\ cuts' = cuts /\ misread' = misread /\ replies' = Tail(replies)
      /\ cli' \in {"prompt", "reading", "text", "aborted"}
  BY ReadLeaves DEF ReadValue, Read, handlerVars
<1>2. SUFFICES ASSUME cuts = 0, ~misread PROVE Exchange'
  BY <1>1 DEF CInv
<1>3. need = 1 /\ (Replied \/ Gone) /\ replies # <<>> /\ ~crlf
      /\ link \in {"up", "closed", "reset"} /\ wire = <<>> /\ AllIdle
  BY <1>2 DEF ReadValue, CInv, Exchange, Sent, Served, Replied, Gone
<1>4. ASSUME NEW x, replies = <<x>>, AtOnce(x)
      PROVE  Exchange'
  <2>1. Head(replies) = x /\ replies' = <<>>
    BY <1>1, <1>4, Tails
  <2>2. Reads(need - 1)
    BY <1>4, <2>1 DEF ReadValue, AtOnce
  <2>3. cli' = "prompt"
    BY <1>3, <2>2 DEF Reads
  <2> QED
    BY <1>1, <1>3, <2>1, <2>3 DEF Exchange, AllIdle
<1>5. ASSUME Head(replies) = BulkHeader,
             (replies' = <<>> /\ ~LinkOpen) \/ \E v : replies' = <<Item("text", v)>>
      PROVE  Exchange'
  <2>1. BulkHeader # Torn
    BY Items
  <2>2. cli' = "text" /\ need' = need
    BY <1>5, <2>1, Items DEF ReadValue
  <2>3. HalfRead'
    BY <1>1, <1>3, <1>5 DEF HalfRead, AllIdle, LinkOpen
  <2> QED
    BY <1>1, <1>3, <2>2, <2>3 DEF Exchange
<1>6. ASSUME NEW v, replies = <<BulkHeader, Item("text", v)>>
      PROVE  Exchange'
  BY <1>1, <1>5, <1>6, Tails
<1>7. CASE Gone
  <2>1. CASE replies = <<BulkHeader>>
    BY <1>1, <1>5, <1>7, <2>1, Tails DEF Gone
  <2>2. CASE replies = <<Torn>>
    <3>1. Head(replies) = Torn
      BY <2>2, Tails
    <3>2. cli' = "aborted"
      BY <3>1, Items DEF ReadValue
    <3> QED
      BY <3>2 DEF Exchange
  <2> QED
    BY <1>3, <1>7, <2>1, <2>2 DEF Gone
<1>8. CASE Replied
  BY <1>4, <1>6, <1>8, PlainItems DEF Replied
<1> QED
  BY <1>3, <1>7, <1>8

\* The text of a bulk string ends the reply.
LEMMA ReadTextKeeps ==
    ASSUME CInv, ReadText
    PROVE  CInv'
<1>1. /\ frame' = frame /\ wire' = wire /\ crlf' = crlf /\ link' = link
      /\ cuts' = cuts /\ misread' = misread /\ replies' = Tail(replies)
      /\ cli' \in {"prompt", "reading", "text", "aborted"}
  BY ReadLeaves DEF ReadText, Read, handlerVars
<1>2. SUFFICES ASSUME cuts = 0, ~misread PROVE Exchange'
  BY <1>1 DEF CInv
<1>3. need = 1 /\ HalfRead /\ replies # <<>> /\ ~crlf
      /\ link \in {"up", "closed", "reset"}
  BY <1>2 DEF ReadText, CInv, Exchange
<1>4. replies' = <<>>
  BY <1>1, <1>3, Tails DEF HalfRead
<1>5. cli' = "prompt"
  BY <1>3 DEF ReadText, Reads
<1> QED
  BY <1>1, <1>3, <1>4, <1>5 DEF Exchange, HalfRead, AllIdle

\* The end of the stream ends the reply that will not come.
LEMMA ReadEndKeeps ==
    ASSUME CInv, ReadEnd
    PROVE  CInv'
<1>1. /\ frame' = frame /\ wire' = wire /\ crlf' = crlf /\ link' = link
      /\ cuts' = cuts /\ misread' = misread /\ replies' = replies
      /\ cli' \in {"prompt", "reading", "text", "aborted"}
  BY ReadLeaves DEF ReadEnd, Read, handlerVars
<1>2. SUFFICES ASSUME cuts = 0, ~misread PROVE Exchange'
  BY <1>1 DEF CInv
<1>3. /\ need = 1 /\ wire = <<>> /\ AllIdle /\ replies = <<>> /\ ~crlf
      /\ link \in {"up", "closed", "reset"}
  BY <1>2, PlainItems
     DEF ReadEnd, CInv, Exchange, Sent, Served, Replied, Gone, HalfRead, LinkOpen
<1>4. cli' = "prompt"
  BY <1>3 DEF ReadEnd, Reads
<1> QED
  BY <1>1, <1>3, <1>4 DEF Exchange, AllIdle

-------------------------------------------------------------------------------
(* The server's steps.                                                       *)

\* A recv that begins and ends with a request takes one, and no more.
LEMMA OneReceived ==
    ASSUME NEW r \in Requests, wire = buildRESPcommand(Said(r)), ~crlf,
           NEW p \in Received, Whole(p)
    PROVE  /\ ~p.data.behind /\ p.data.words = wire /\ p.data.ending = "crlf"
           /\ p.rest = <<>> /\ ~p.behind
<1> DEFINE b == wire
<1>1. /\ b \in Seq({Star, Length} \cup Range(Said(r)))
      /\ \A j \in 2..Len(b) : b[j] = Length \/ b[j] \in Range(Said(r))
  BY SaidAgain, BuiltWords
<1>2. \A j \in 2..Len(b) : b[j] # Star
  BY <1>1, SaidAgain, RequestAssumption
<1>7. \A w, e, t : /\ Part(w, e, t).data = Data(crlf, w, e)
                   /\ Part(w, e, t).rest = t /\ Part(w, e, t).behind = (e = "bare")
                   /\ Part(w, e, t).data.ending = e
                   /\ Part(w, e, t).data.words = w
                   /\ Part(w, e, t).data.behind = crlf
  BY DEF Part, Data
<1>3. PICK n \in 1..Len(b) : p = Part(Words(n), "crlf", Rest(n))
  <2>1. p.data.ending = "crlf"
    BY DEF Whole
  <2>2. ASSUME NEW w, NEW e, NEW t, p = Part(w, e, t) PROVE e = "crlf"
    <3>1. p.data.ending = e
      BY <1>7, <2>2
    <3> QED
      BY <2>1, <3>1
  <2>3. /\ p \notin {Part(Words(n), "bare", Rest(n)) : n \in 1..Len(wire)}
        /\ \A t \in Tears :
              p \notin {Part(Append(Words(n - 1), t.front), "torn", <<t.back>> \o Rest(n)) :
                            n \in {m \in 1..Len(wire) : wire[m] = t.word}}
    <3>1. "bare" # "crlf" /\ "torn" # "crlf"
      OBVIOUS
    <3> QED
      BY <2>2, <3>1, Zenon
  <2>4. p \in {Part(Words(n), "crlf", Rest(n)) : n \in {m \in 0..Len(wire) : m > 0 \/ crlf}}
    BY <2>3, Zenon DEF Received
  <2>5. \A n \in {m \in 0..Len(wire) : m > 0 \/ crlf} : n \in 1..Len(b)
    <3>1. Len(b) \in Nat
      BY <1>1
    <3> HIDE DEF b
    <3>2. \A m \in 0..Len(b) : m > 0 => m \in 1..Len(b)
      BY <3>1
    <3> QED
      BY <3>2 DEF b
  <2> QED
    BY <2>4, <2>5, Zenon
<1> HIDE DEF b
<1>4. n \in Nat /\ Len(b) \in Nat /\ n <= Len(b) /\ n >= 1
  BY <1>1
<1>5. n = Len(b)
  <2> SUFFICES ASSUME n < Len(b) PROVE FALSE
    BY <1>4
  <2>1. p.rest # <<>> /\ p.rest[1] = b[n + 1]
    <3> DEFINE h == SubSeq(b, n + 1, Len(b))
    <3>1. Len(h) = Len(b) - n /\ h[1] = b[n + 1] /\ h \in Seq({Star, Length} \cup Range(Said(r)))
      <4>1. \A i \in n + 1..Len(b) : b[i] \in {Star, Length} \cup Range(Said(r))
        <5>1. \A i \in n + 1..Len(b) : i \in 1..Len(b)
          BY <1>4
        <5> QED
          BY <1>1, <5>1
      <4>2. n + 1 \in Int /\ Len(b) \in Int /\ Len(b) - (n + 1) + 1 = Len(b) - n
            /\ n + 1 <= Len(b) /\ (n + 1) + 1 - 1 = n + 1 /\ 1 \in 1..Len(b) - n
        BY <1>4
      <4> DEFINE m == n + 1
      <4> HIDE DEF m
      <4>3. ASSUME m \in Int, m <= Len(b), \A i \in m..Len(b) : b[i] \in {Star, Length} \cup Range(Said(r))
            PROVE  /\ SubSeq(b, m, Len(b)) \in Seq({Star, Length} \cup Range(Said(r)))
                   /\ Len(SubSeq(b, m, Len(b))) = Len(b) - m + 1
                   /\ \A i \in 1..Len(b) - m + 1 : SubSeq(b, m, Len(b))[i] = b[m + i - 1]
        BY <1>4, <4>3, SubSeqProperties
      <4> DEFINE g == SubSeq(b, m, Len(b))
      <4>4. /\ g \in Seq({Star, Length} \cup Range(Said(r)))
            /\ Len(g) = Len(b) - m + 1
            /\ \A i \in 1..Len(b) - m + 1 : g[i] = b[m + i - 1]
        BY <4>1, <4>2, <4>3 DEF m
      <4>5. m \in Int /\ 1 \in 1..Len(b) - m + 1 /\ m + 1 - 1 = m /\ Len(b) - m + 1 = Len(b) - n
        BY <1>4, <4>2 DEF m
      <4> HIDE DEF g
      <4>6. g[1] = b[m] /\ Len(g) = Len(b) - n
        BY <4>4, <4>5
      <4>7. h = g
        BY DEF g, m
      <4> HIDE DEF h
      <4> QED
        BY <4>4, <4>6, <4>7 DEF m
    <3>2. p.rest = h
      <4>1. p.rest = Rest(n)
        <5> DEFINE u == Words(n)
                   v == Rest(n)
        <5>1. p = Part(u, "crlf", v)
          BY <1>3
        <5> HIDE DEF u, v
        <5>2. p.rest = v
          BY <5>1, <1>7
        <5> QED
          BY <5>2 DEF v
      <4>2. Rest(n) = h
        BY DEF Rest, b
      <4> QED
        BY <4>1, <4>2
    <3> HIDE DEF h
    <3>3. h # <<>>
      BY <1>4, <3>1
    <3> QED
      BY <3>1, <3>2, <3>3
  <2>2. n + 1 \in 2..Len(b)
    BY <1>4
  <2> QED
    BY <1>2, <2>1, <2>2 DEF Whole
<1>6. SubSeq(b, 1, n) = b /\ SubSeq(b, n + 1, Len(b)) = <<>>
  <2>1. SubSeq(b, 1, Len(b)) = b
    BY <1>1
  <2>2. SubSeq(b, Len(b) + 1, Len(b)) = <<>>
    BY <1>1
  <2> QED
    BY <1>5, <2>1, <2>2
<1>8. Words(n) = wire /\ Rest(n) = <<>>
  BY <1>6 DEF b, Words, Rest
<1>9. p = Part(wire, "crlf", <<>>) /\ ~("crlf" = "bare")
  BY <1>3, <1>8
<1>10. ~("crlf" = "bare")
  OBVIOUS
<1>11. /\ p.data.words = wire /\ p.data.ending = "crlf" /\ p.rest = <<>>
       /\ p.data.behind = crlf /\ p.behind = ("crlf" = "bare")
  BY <1>7, <1>9
<1> QED
  BY <1>10, <1>11

\* While no recv has ended elsewhere than behind a request, each takes one.
LEMMA ReceivesOne ==
    ASSUME CInv, NEW p \in Received, Receives(p), cuts' = 0, ~misread,
           cli \in {"prompt", "reading", "text"}
    PROVE  /\ cli = "reading" /\ need = 1 /\ Sent /\ ~crlf' /\ wire' = <<>>
           /\ \E q \in Requests :
                 parseRespCommand(p.data) = {Said(q)} /\ ~parseThrows(p.data)
<1>1. cuts = 0 /\ Whole(p)
  BY DEF Receives, CInv
<1>2. Exchange /\ ~crlf
  BY <1>1 DEF CInv, Exchange
<1>3. wire # <<>>
  <2> SUFFICES ASSUME wire = <<>> PROVE FALSE
    OBVIOUS
  <2>1. Len(wire) = 0
    OBVIOUS
  <2>2. Received = {}
    <3>1. 1..Len(wire) = {} /\ \A m \in 0..Len(wire) : ~(m > 0)
      BY <2>1
    <3> QED
      BY <1>2, <3>1 DEF Received
  <2> QED
    BY <2>2
<1>4. cli = "reading" /\ need = 1 /\ Sent
  BY <1>2, <1>3 DEF Exchange, Served, Replied, Gone, HalfRead
<1>5. PICK q \in Requests : wire = buildRESPcommand(Said(q))
  BY <1>4 DEF Sent
<1>6. /\ ~p.data.behind /\ p.data.words = wire /\ p.data.ending = "crlf"
      /\ p.rest = <<>> /\ ~p.behind
  BY <1>1, <1>2, <1>5, OneReceived
<1>7. parseRespCommand(p.data) = {Said(q)} /\ ~parseThrows(p.data)
  BY <1>5, <1>6, SaidAgain, WholeParsed
<1> QED
  BY <1>4, <1>6, <1>7 DEF Receives

\* A request is received whole, and answered or, when it is a push, begun.
LEMMA ReceiveKeeps ==
    ASSUME CInv, Receive
    PROVE  CInv'
<1>1. PICK p \in Received :
         Receives(p) /\ \E tokens \in parseRespCommand(p.data) : Process(RequestOf(tokens))
  BY DEF Receive
<1>2. UNCHANGED <<cli, need, link>> /\ link = "up"
  BY <1>1 DEF Receive, Receives, clientSide
<1>10. PICK tokens \in parseRespCommand(p.data) : Process(RequestOf(tokens))
  BY <1>1
<1>3. frame' = [w \in Worker |-> frame'[w]] /\ cuts' \in Nat /\ (misread => misread')
  <2>1. cuts' \in Nat
    BY <1>1 DEF Receives, CInv
  <2>2. misread => misread'
    BY <1>10 DEF Process
  <2>3. ASSUME NEW q, Command(q) PROVE frame' = [w \in Worker |-> frame'[w]]
    BY <2>3 DEF Command, CInv
  <2>4. ASSUME NEW q, NEW w \in Worker, BeginPush(w, q)
        PROVE  frame' = [v \in Worker |-> frame'[v]]
    BY <2>4 DEF BeginPush, CInv
  <2> QED
    BY <1>10, <2>1, <2>2, <2>3, <2>4 DEF Process
<1>4. SUFFICES ASSUME cuts' = 0, ~misread', cli \in {"prompt", "reading", "text"}
               PROVE  Exchange'
  BY <1>2, <1>3 DEF CInv, Exchange
<1>5. PICK q \in Requests : parseRespCommand(p.data) = {Said(q)}
  BY <1>1, <1>3, <1>4, ReceivesOne
<1>6. cli = "reading" /\ need = 1 /\ Sent /\ ~crlf' /\ wire' = <<>>
  BY <1>1, <1>3, <1>4, ReceivesOne
<1>7. q = Request(q.cmd, q.args) /\ Process(q) /\ ~Misread(q)
  <2>1. Process(RequestOf(Said(q)))
    BY <1>1, <1>5
  <2>2. Process(q)
    BY <2>1, SaidAgain
  <2> QED
    BY <1>4, <2>2, SaidAgain DEF Process
<1>8. ASSUME Command(q), replies' = replies \o last'.reply
      PROVE  Replied'
  <2>1. PICK o \in processCommand(db, now, q) :
           last' = [req |-> q, reply |-> o.reply]
    BY <1>8 DEF Command, Answered
  <2>2. /\ q.cmd \notin ArrayCommands /\ ~Misanswered(q)
        /\ ~(q.cmd \in PushCommands /\ Accepted(q))
    BY <1>7, <1>8 DEF Command, Misread, Misanswered, ArrayCommands
  <2>3. Plain(o.reply)
    BY <1>7, <2>2, ReplyIsPlain
  <2>4. replies' = o.reply
    BY <1>6, <1>8, <2>1, <2>3, PlainItems DEF Sent
  <2> QED
    BY <1>6, <1>8, <2>3, <2>4 DEF Replied, Sent, AllIdle, Command
<1>9. ASSUME NEW w \in Worker, BeginPush(w, q), replies' = replies
      PROVE  Served'
  <2>1. frame' = [frame EXCEPT ![w] = [req |-> q, left |-> Tail(q.args)]]
        /\ q.cmd \in PushCommands
    BY <1>9 DEF BeginPush
  <2>2. frame = [v \in Worker |-> frame[v]]
    BY DEF CInv
  <2>3. Pushing(frame'[w])
    BY <2>1, <2>2 DEF Pushing
  <2>4. \A v \in Worker \ {w} : frame'[v] = Idle
    BY <1>6, <2>1, <2>2 DEF Sent, AllIdle
  <2>5. OnePushing'
    BY <2>3, <2>4 DEF OnePushing
  <2> QED
    BY <1>2, <1>6, <1>9, <2>5 DEF Served, Sent
<1> QED
  BY <1>2, <1>6, <1>7, <1>8, <1>9 DEF Process, Exchange

\* The task throws only when a recv ended elsewhere before.
LEMMA ThrowKeeps ==
    ASSUME CInv, Throw
    PROVE  CInv'
<1>1. PICK p \in Received : Receives(p) /\ parseThrows(p.data)
  BY DEF Throw
<1>2. frame' = frame /\ cli' = cli /\ misread' = misread /\ cuts' \in Nat
  BY <1>1 DEF Throw, Receives, CInv, handlerVars, clientSide
<1>3. ASSUME cuts' = 0, ~misread PROVE cli \notin {"prompt", "reading", "text"}
  BY <1>1, <1>3, ReceivesOne
<1> QED
  BY <1>2, <1>3 DEF CInv, Exchange

\* A push goes on, or ends with its reply.
LEMMA PushKeeps ==
    ASSUME CInv, Push
    PROVE  CInv'
<1>1. UNCHANGED <<cli, need, wire, crlf, cuts, misread, link>> /\ link = "up"
  BY DEF Push, clientSide, stream
<1>2. PICK w \in Worker :
         \/ PushElement(w) /\ UNCHANGED replies
         \/ EndPush(w) /\ replies' = replies \o last'.reply
  BY DEF Push
<1>3. frame = [v \in Worker |-> frame[v]]
  BY DEF CInv
<1>4. frame[w] # Idle
  BY <1>2 DEF PushElement, EndPush, Idle
<1>5. frame' = [v \in Worker |-> frame'[v]]
  BY <1>2, <1>3 DEF PushElement, EndPush
<1>6. SUFFICES ASSUME cuts = 0, ~misread PROVE Exchange'
  BY <1>1, <1>5 DEF CInv
<1>7. cli \in {"quit", "killed", "aborted"} \/ (cli = "reading" /\ need = 1 /\ Served /\ ~crlf)
  BY <1>4, <1>6 DEF CInv, Exchange, Sent, Replied, Gone, HalfRead, AllIdle
<1>8. CASE cli \in {"quit", "killed", "aborted"}
  BY <1>1, <1>8 DEF Exchange
<1>9. CASE cli = "reading" /\ need = 1 /\ Served /\ ~crlf
  <2>1. Pushing(frame[w]) /\ \A v \in Worker \ {w} : frame[v] = Idle
    BY <1>4, <1>9 DEF Served, OnePushing
  <2>2. ASSUME PushElement(w), UNCHANGED replies
        PROVE  Served'
    <3> DEFINE f == frame[w]
               g == [f EXCEPT !.left = Tail(@)]
    <3>1. frame' = [frame EXCEPT ![w] = g]
      BY <2>2 DEF PushElement
    <3>2. Pushing(g)
      <4>1. ASSUME NEW x, NEW y, NEW z
            PROVE  [[req |-> x, left |-> y] EXCEPT !.left = z] = [req |-> x, left |-> z]
        OBVIOUS
      <4>2. f = [req |-> f.req, left |-> f.left] /\ f.req.cmd \in PushCommands
        BY <2>1 DEF Pushing
      <4> HIDE DEF f
      <4>3. g = [[req |-> f.req, left |-> f.left] EXCEPT !.left = Tail(f.left)]
        BY <4>2
      <4>4. g = [req |-> f.req, left |-> Tail(f.left)]
        BY <4>1, <4>3
      <4> HIDE DEF g
      <4> QED
        BY <4>2, <4>4 DEF Pushing
    <3> HIDE DEF g
    <3>3. frame'[w] = g /\ \A v \in Worker \ {w} : frame'[v] = Idle
      BY <1>3, <2>1, <3>1
    <3>4. OnePushing'
      BY <3>2, <3>3 DEF OnePushing
    <3> QED
      BY <1>1, <1>9, <2>2, <3>4 DEF Served
  <2>3. ASSUME EndPush(w), replies' = replies \o last'.reply
        PROVE  Replied'
    <3>1. PICK n : last'.reply = Integer(n)
      BY <2>3 DEF EndPush, Answered
    <3>2. Plain(Integer(n))
      BY DEF Plain
    <3>3. replies' = Integer(n)
      BY <1>9, <2>3, <3>1, <3>2, PlainItems DEF Served
    <3>4. AllIdle'
      BY <1>3, <2>1, <2>3 DEF EndPush, AllIdle
    <3> QED
      BY <1>1, <1>9, <3>2, <3>3, <3>4 DEF Replied, Served
  <2> QED
    BY <1>1, <1>2, <1>9, <2>2, <2>3 DEF Exchange
<1> QED
  BY <1>7, <1>8, <1>9

\* The server dies: with it whatever it had not sent.
LEMMA ServerDiesKeeps ==
    ASSUME CInv, ServerDies
    PROVE  CInv'
<1>1. /\ UNCHANGED <<cli, need, cuts, misread>> /\ wire' = <<>> /\ ~crlf'
      /\ link' \in {"closed", "reset"} /\ LinkOpen
      /\ frame' = [w \in Worker |-> Idle] /\ replies' \in Truncated(replies)
  BY DEF ServerDies, clientSide
<1>2. AllIdle' /\ frame' = [w \in Worker |-> frame'[w]] /\ ~LinkOpen'
  BY <1>1 DEF AllIdle, LinkOpen
<1>3. SUFFICES ASSUME cuts = 0, ~misread PROVE Exchange'
  BY <1>1, <1>2 DEF CInv
<1>4. Exchange
  BY <1>3 DEF CInv
<1>5. ASSUME cli = "reading" PROVE Replied' \/ Gone'
  <2>1. CASE Sent \/ Served
    <3>1. replies' = <<>>
      BY <1>1, <2>1, TruncatedReplies DEF Sent, Served
    <3> QED
      BY <1>1, <1>2, <3>1 DEF Gone
  <2>2. CASE Replied
    <3>1. replies' \in {<<>>, <<BulkHeader>>, <<Torn>>} \/ replies' = replies
      <4>1. ASSUME NEW x, replies = <<x>>
            PROVE  replies' \in {<<>>, <<Torn>>} \/ replies' = replies
        BY <1>1, <4>1, TruncatedReplies
      <4>2. ASSUME NEW v, replies = <<BulkHeader, Item("text", v)>>
            PROVE  replies' \in {<<>>, <<BulkHeader>>, <<Torn>>} \/ replies' = replies
        BY <1>1, <4>2, TruncatedReplies
      <4> QED
        BY <2>2, <4>1, <4>2, PlainItems DEF Replied
    <3> QED
      BY <1>1, <1>2, <2>2, <3>1 DEF Gone, Replied
  <2> QED
    BY <1>1, <1>4, <1>5, <2>1, <2>2 DEF Exchange, Gone
<1>6. ASSUME cli = "text" PROVE HalfRead'
  <2>1. CASE replies = <<>>
    BY <1>1, <1>2, <2>1, TruncatedReplies DEF HalfRead
  <2>2. ASSUME NEW v, replies = <<Item("text", v)>> PROVE HalfRead'
    BY <1>1, <1>2, <2>2, TruncatedReplies DEF HalfRead
  <2> QED
    BY <1>4, <1>6, <2>1, <2>2 DEF Exchange, HalfRead
<1>7. cli = "prompt" => replies' = <<>>
  BY <1>1, <1>4, TruncatedReplies DEF Exchange
<1> QED
  BY <1>1, <1>2, <1>4, <1>5, <1>6, <1>7 DEF Exchange

-------------------------------------------------------------------------------
(* The theorem.                                                              *)

\* Every step keeps the invariant.
LEMMA CInvInductive ==
    ASSUME CInv, [ClientNext]_clientVars
    PROVE  CInv'
<1>1. CASE UNCHANGED clientVars
  BY <1>1 DEF clientVars, handlerVars, clientSide, stream, CInv, Exchange, Sent,
     Served, Replied, Gone, HalfRead, AllIdle, OnePushing, LinkOpen
<1>2. CASE Tick /\ UNCHANGED <<frame, todo, last, clientSide, stream, replies, link>>
  BY <1>2 DEF clientSide, stream, CInv, Exchange, Sent, Served,
     Replied, Gone, HalfRead, AllIdle, OnePushing, LinkOpen
<1>3. CASE SendSignals \/ Quit
  BY <1>3 DEF SendSignals, Quit, handlerVars, stream, CInv, Exchange
<1> QED
  BY <1>1, <1>2, <1>3, SendKeeps, ReadValueKeeps, ReadTextKeeps, ReadEndKeeps,
     ReceiveKeeps, ThrowKeeps, PushKeeps, ServerDiesKeeps
     DEF ClientNext, Read, Serve

(***************************************************************************)
(* When the client prompts, nothing of an earlier exchange is left on the  *)
(* wire, in the socket or in the server, whatever was asked and whenever   *)
(* the server died, unless a command that is misread was processed or a    *)
(* recv ended inside a request.  It rests on the parser taking a whole     *)
(* request for what was said, and on every other reply being a scalar.     *)
(***************************************************************************)
THEOREM ClientInStep == ClientSpec => []InStep
<1>1. ClientInit => CInv
  BY DEF ClientInit, HandlerInit, CInv, Exchange, AllIdle
<1>2. CInv /\ [ClientNext]_clientVars => CInv'
  BY CInvInductive
<1>3. CInv => InStep
  BY DEF CInv, Exchange, InStep, AllIdle
<1> QED
  BY <1>1, <1>2, <1>3, PTL DEF ClientSpec

-------------------------------------------------------------------------------
(* The database below the connection.                                        *)

\* W has every word that a recv may return, whole or torn, and each of them is
\* of every kind, and in every range, that RedisDatabase is specified for.
WordsFit(W) ==
    /\ W \subseteq Key /\ W \subseteq Field /\ W \subseteq Value
    /\ \A x \in W : IsNumber(x) => x \in TTLs \cup {0} /\ x \in Counts /\ x \in Indexes
    /\ Star \in W /\ Length \in W
    /\ \A r \in Requests : r.cmd \in W /\ r.args \in Seq(W)
    /\ \A t \in Tears : t.front \in W /\ t.back \in W

\* The requests that can be made of these words.
Made(W) == UNION {{Request(c, a) : a \in Seq(W)} : c \in W \cup {NoRequest.cmd}}

\* The inductive invariant: nothing else is on the wire, or being pushed.
DInv(W) == FramesIn(Made(W)) /\ wire \in Seq(W)

\* Any request made of such words is one the database is specified for.
LEMMA MadeFits ==
    ASSUME NEW W, WordsFit(W), NEW r \in Made(W)
    PROVE  Fits(r)
<1> DEFINE a == r.args
           c == r.cmd
<1>1. r = Request(c, a) /\ a \in Seq(W)
  <2>1. PICK x \in W \cup {NoRequest.cmd} : \E y \in Seq(W) : r = Request(x, y)
    BY Zenon DEF Made
  <2>2. PICK y \in Seq(W) : r = Request(x, y)
    BY <2>1
  <2>3. r.cmd = x /\ r.args = y
    BY <2>2 DEF Request
  <2> QED
    BY <2>2, <2>3
<1>2. a \in Seq(Range(a)) /\ Len(a) \in Nat /\ \A i \in 1..Len(a) : a[i] \in W
  BY <1>1, SeqOverRange
<1>3. /\ Accepted(r) /\ c \notin {"PING", "ECHO", "FLUSHALL", "KEYS"} => Len(a) >= 1
      /\ Accepted(r) /\ c \in {"SET", "EXPIRE", "RENAME", "LINDEX", "HGET", "HEXISTS", "HDEL"}
            => Len(a) >= 2
      /\ Accepted(r) /\ c \in {"LREM", "LSET", "HSET"} => Len(a) >= 3
  BY <1>2 DEF Accepted, MinArgs
<1> HIDE DEF a, c
<1>4. \A i \in 1..Len(a) :
         /\ a[i] \in Key /\ a[i] \in Field /\ a[i] \in Value
         /\ IsNumber(a[i]) =>
               a[i] \in TTLs \cup {0} /\ a[i] \in Counts /\ a[i] \in Indexes
  BY <1>2 DEF WordsFit
<1>5. /\ Len(a) >= 1 => 1 \in 1..Len(a)
      /\ Len(a) >= 2 => 2 \in 1..Len(a)
      /\ Len(a) >= 3 => 2 \in 1..Len(a) /\ 3 \in 1..Len(a)
      /\ \A i \in 2..Len(a) : i \in 1..Len(a)
  BY <1>2
<1>6. \A i \in 2..Len(a) : a[i] \in Value /\ a[i] \in IF i % 2 = 0 THEN Field ELSE Value
  BY <1>4, <1>5
<1>7. /\ Accepted(r) => c \in {"PING", "ECHO", "FLUSHALL", "KEYS"} \/ a[1] \in Key
      /\ Accepted(r) /\ c \in {"SET"} => a[2] \in Value
      /\ Accepted(r) /\ c \in {"EXPIRE"} /\ IsNumber(a[2]) => a[2] \in TTLs \cup {0}
      /\ Accepted(r) /\ c \in {"RENAME"} => a[2] \in Key
      /\ Accepted(r) /\ c \in {"LREM"} /\ IsNumber(a[2]) => a[2] \in Counts
      /\ Accepted(r) /\ c \in {"LINDEX", "LSET"} /\ IsNumber(a[2]) => a[2] \in Indexes
      /\ Accepted(r) /\ c \in {"LREM", "LSET", "HSET"} => a[3] \in Value
      /\ Accepted(r) /\ c \in {"HSET", "HGET", "HEXISTS", "HDEL"} => a[2] \in Field
  <2> DEFINE acc == Accepted(r)
             num(x) == IsNumber(x)
             ttls == TTLs \cup {0}
  <2> HIDE DEF acc, num, ttls
  <2>1. CASE c \notin {"PING", "ECHO", "FLUSHALL", "KEYS"} /\ acc
    BY <1>3, <1>4, <1>5, <2>1 DEF acc
  <2> QED
    BY <2>1 DEF acc
<1> QED
  BY <1>1, <1>2, <1>6, <1>7 DEF Fits, a, c

\* A request made of a word, or of nothing, and words.
LEMMA MadeOf ==
    ASSUME NEW W, NEW c \in W \cup {NoRequest.cmd}, NEW a \in Seq(W)
    PROVE  Request(c, a) \in Made(W)
<1> DEFINE C == W \cup {NoRequest.cmd}
           A == Seq(W)
           R(x, y) == Request(x, y)
<1>1. c \in C /\ a \in A
  OBVIOUS
<1>2. Made(W) = UNION {{R(x, y) : y \in A} : x \in C}
  BY DEF Made
<1> HIDE DEF C, A, R
<1>3. R(c, a) \in UNION {{R(x, y) : y \in A} : x \in C}
  <2>1. R(c, a) \in {R(c, y) : y \in A}
    BY <1>1
  <2>2. {R(c, y) : y \in A} \in {{R(x, y) : y \in A} : x \in C}
    BY <1>1
  <2> QED
    BY <2>1, <2>2
<1> QED
  BY <1>2, <1>3 DEF R

\* What parseRespCommand makes of words, wherever they begin and end.
LEMMA TokensAreWords ==
    ASSUME NEW W, NEW d, d.words \in Seq(W), NEW tokens \in parseRespCommand(d)
    PROVE  RequestOf(tokens) \in Made(W)
<1> DEFINE u == d.words
           L == Len(u)
<1>1. L \in Nat /\ \A i \in 1..L : u[i] \in W
  OBVIOUS
<1>2. ASSUME NEW m \in Readable(d) PROVE Elements(d, m) \in Seq(W)
  <2>1. m \in Nat /\ 2 * m + 1 <= L
    <3>1. m \in 0..L /\ (2 * m + 1 < L \/ 2 * m + 1 = L)
      BY DEF Readable
    <3> HIDE DEF L
    <3> QED
      BY <1>1, <3>1
  <2>2. \A i \in 1..m : 2 * i + 1 \in 1..L
    <3> HIDE DEF L
    <3> QED
      BY <1>1, <2>1
  <2> DEFINE e(i) == u[2 * i + 1]
  <2>3. \A i \in 1..m : e(i) \in W
    BY <1>1, <2>2
  <2>4. Elements(d, m) = [i \in 1..m |-> e(i)]
    BY DEF Elements
  <2> HIDE DEF e
  <2>5. [i \in 1..m |-> e(i)] \in Seq(W)
    BY <2>1, <2>3
  <2> QED
    BY <2>4, <2>5
<1>3. tokens \in Seq(W)
  <2>1. CASE IsArray(d)
    <3>1. PICK m \in Readable(d) : tokens = Elements(d, m)
      BY <2>1 DEF parseRespCommand
    <3> QED
      BY <1>2, <3>1
  <2>2. CASE ~IsArray(d)
    <3>1. tokens = <<>> \/ tokens = d.words
      BY <2>2 DEF parseRespCommand
    <3>2. <<>> \in Seq(W)
      OBVIOUS
    <3> QED
      BY <3>1, <3>2
  <2> QED
    BY <2>1, <2>2
<1>4. CASE tokens = <<>>
  <2>1. <<>> \in Seq(W)
    OBVIOUS
  <2>2. NoRequest = Request(NoRequest.cmd, <<>>)
    <3>1. \A x : Request(x, <<>>) = Request(Request(x, <<>>).cmd, <<>>)
      BY DEF Request
    <3> QED
      BY <3>1, Zenon DEF NoRequest
  <2> QED
    BY <1>4, <2>1, <2>2, MadeOf DEF RequestOf
<1>5. CASE tokens # <<>>
  <2>1. Head(tokens) \in W /\ Tail(tokens) \in Seq(W)
    BY <1>3, <1>5
  <2> DEFINE h == Head(tokens)
             t == Tail(tokens)
  <2>2. RequestOf(tokens) = Request(h, t)
    BY <1>5 DEF RequestOf
  <2> HIDE DEF h, t
  <2>3. h \in W /\ t \in Seq(W)
    BY <2>1 DEF h, t
  <2>4. h \in W \cup {NoRequest.cmd}
    BY <2>3
  <2> QED
    BY <2>2, <2>3, <2>4, MadeOf
<1> QED
  BY <1>4, <1>5

\* A recv takes words, and leaves words.
LEMMA ReceivedWords ==
    ASSUME NEW W, WordsFit(W), wire \in Seq(W), NEW p \in Received
    PROVE  p.data.words \in Seq(W) /\ p.rest \in Seq(W)
<1> DEFINE L == Len(wire)
<1>1. L \in Nat
  OBVIOUS
<1>2. \A n \in 0..L : Words(n) \in Seq(W) /\ Rest(n) \in Seq(W)
  <2>1. \A i \in 1..L : wire[i] \in W
    OBVIOUS
  <2> SUFFICES ASSUME NEW n \in 0..L PROVE Words(n) \in Seq(W) /\ Rest(n) \in Seq(W)
    OBVIOUS
  <2>2. n \in Int /\ n + 1 \in Int /\ L \in Int /\ 1 \in Int
        /\ (\A i \in 1..n : i \in 1..L) /\ (\A i \in n + 1..L : i \in 1..L)
    <3> HIDE DEF L
    <3> QED
      BY <1>1
  <2>3. ASSUME NEW i \in Int, NEW j \in Int, \A k \in i..j : k \in 1..L
        PROVE  SubSeq(wire, i, j) \in Seq(W)
    <3>1. \A k \in i..j : wire[k] \in W
      BY <2>1, <2>3
    <3> QED
      BY <3>1, SubSeqProperties
  <2> DEFINE sub(i, j) == SubSeq(wire, i, j)
  <2>4. ASSUME NEW i \in Int, NEW j \in Int, \A k \in i..j : k \in 1..L
        PROVE  sub(i, j) \in Seq(W)
    BY <2>3, <2>4
  <2>5. Words(n) = sub(1, n) /\ Rest(n) = sub(n + 1, L)
    BY DEF Words, Rest
  <2> HIDE DEF sub, L
  <2> QED
    BY <2>2, <2>4, <2>5
<1>3. \A w, e, t : Part(w, e, t).data.words = w /\ Part(w, e, t).rest = t
  BY DEF Part, Data
<1>4. ASSUME NEW w, NEW e, NEW t, w \in Seq(W), t \in Seq(W), p = Part(w, e, t)
      PROVE  p.data.words \in Seq(W) /\ p.rest \in Seq(W)
  BY <1>3, <1>4
<1>5. CASE p \in {Part(Words(n), "crlf", Rest(n)) : n \in {m \in 0..Len(wire) : m > 0 \/ crlf}}
  <2>1. PICK n \in 0..L : p = Part(Words(n), "crlf", Rest(n))
    BY <1>5
  <2>2. Words(n) \in Seq(W) /\ Rest(n) \in Seq(W)
    BY <1>2
  <2> QED
    BY <1>4, <2>1, <2>2, Zenon
<1>6. CASE p \in {Part(Words(n), "bare", Rest(n)) : n \in 1..Len(wire)}
  <2>1. PICK n \in 1..L : p = Part(Words(n), "bare", Rest(n))
    BY <1>6
  <2>2. n \in 0..L
    <3> HIDE DEF L
    <3> QED
      BY <1>1
  <2>3. Words(n) \in Seq(W) /\ Rest(n) \in Seq(W)
    BY <1>2, <2>2
  <2> QED
    BY <1>4, <2>1, <2>3, Zenon
<1>7. ASSUME NEW t \in Tears,
             p \in {Part(Append(Words(n - 1), t.front), "torn", <<t.back>> \o Rest(n)) :
                        n \in {m \in 1..Len(wire) : wire[m] = t.word}}
      PROVE  p.data.words \in Seq(W) /\ p.rest \in Seq(W)
  <2>1. PICK n \in 1..L :
           p = Part(Append(Words(n - 1), t.front), "torn", <<t.back>> \o Rest(n))
    BY <1>7
  <2>2. n \in 0..L /\ n - 1 \in 0..L
    <3> HIDE DEF L
    <3> QED
      BY <1>1
  <2> DEFINE x == t.front
             y == t.back
             u == Words(n - 1)
             v == Rest(n)
  <2>3. u \in Seq(W) /\ v \in Seq(W) /\ x \in W /\ y \in W
    BY <1>2, <2>2 DEF WordsFit
  <2>4. p = Part(Append(u, x), "torn", <<y>> \o v)
    BY <2>1
  <2> HIDE DEF u, v, x, y
  <2>5. Append(u, x) \in Seq(W) /\ <<y>> \o v \in Seq(W)
    BY <2>3
  <2> QED
    BY <1>4, <2>4, <2>5, Zenon
<1> QED
  BY <1>5, <1>6, <1>7 DEF Received

\* Whatever is received, the database makes a step of its own or none.
LEMMA ReceiveStep ==
    ASSUME NEW W, WordsFit(W), DInv(W), Receive
    PROVE  [Next]_vars /\ DInv(W)'
<1> DEFINE S == Made(W)
<1>1. \A r \in S : Fits(r)
  BY MadeFits
<1>2. PICK p \in Received :
         Receives(p) /\ \E tokens \in parseRespCommand(p.data) : Process(RequestOf(tokens))
  BY DEF Receive
<1>3. PICK tokens \in parseRespCommand(p.data) : Process(RequestOf(tokens))
  BY <1>2
<1>4. p.data.words \in Seq(W) /\ p.rest \in Seq(W)
  BY ReceivedWords DEF DInv
<1>5. wire' \in Seq(W)
  BY <1>2, <1>4 DEF Receives
<1> DEFINE r == RequestOf(tokens)
<1>6. r \in S /\ FramesIn(S)
  BY <1>4, TokensAreWords DEF DInv
<1>7. Process(r)
  BY <1>3
<1> HIDE DEF r, S
<1>8. CASE Command(r)
  <2>1. [Next]_vars
    BY <1>1, <1>6, <1>8, CommandStep
  <2>2. UNCHANGED frame
    BY <1>8 DEF Command
  <2>3. FramesIn(S)'
    BY <1>6, <2>2 DEF FramesIn, FrameIn
  <2> QED
    BY <1>5, <2>1, <2>3 DEF DInv, S
<1>9. ASSUME NEW w \in Worker, BeginPush(w, r)
      PROVE  [Next]_vars /\ DInv(W)'
  <2>1. UNCHANGED vars /\ FramesIn(S)'
    BY <1>1, <1>6, <1>9, BeginPushStep
  <2> QED
    BY <1>5, <2>1 DEF DInv, S
<1> QED
  BY <1>7, <1>8, <1>9 DEF Process

\* Every step is a step of the database or leaves it alone.
LEMMA ClientStep ==
    ASSUME NEW W, WordsFit(W), DInv(W), [ClientNext]_clientVars
    PROVE  [Next]_vars /\ DInv(W)'
<1> DEFINE S == Made(W)
<1>1. ASSUME NEW r \in Requests, SendCommand(r) PROVE [Next]_vars /\ DInv(W)'
  <2>1. UNCHANGED <<db, now, frame>>
    BY <1>1 DEF SendCommand, handlerVars
  <2>2. wire' \in Seq(W)
    <3> DEFINE b == buildRESPcommand(Said(r))
               c == r.cmd
               a == r.args
    <3>1. wire' = wire \/ wire' = wire \o b
      BY <1>1 DEF SendCommand, Said
    <3>2. c \in W /\ a \in Seq(W)
      BY DEF WordsFit
    <3>3. Said(r) \in Seq(W)
      <4>1. Said(r) = <<c>> \o a
        BY DEF Said
      <4> HIDE DEF c, a
      <4>2. <<c>> \o a \in Seq(W)
        BY <3>2
      <4> QED
        BY <4>1, <4>2
    <3>4. b \in Seq({Star, Length} \cup W)
      BY <3>3, BuiltWords
    <3>5. {Star, Length} \cup W = W
      BY DEF WordsFit
    <3> HIDE DEF b
    <3>6. wire \in Seq(W) /\ b \in Seq(W)
      BY <3>4, <3>5 DEF DInv
    <3>7. wire \o b \in Seq(W)
      BY <3>6
    <3> QED
      BY <3>1, <3>6, <3>7
  <2> QED
    BY <2>1, <2>2 DEF DInv, FramesIn, FrameIn, vars
<1>2. CASE Push
  <2>1. PICK w \in Worker : PushElement(w) \/ EndPush(w)
    BY <1>2 DEF Push
  <2>2. \A r \in S : Fits(r)
    BY MadeFits
  <2>3. FramesIn(S)
    BY DEF DInv
  <2> HIDE DEF S
  <2>4. Next /\ FramesIn(S)'
    BY <2>1, <2>2, <2>3, PushElementStep, EndPushStep
  <2>5. wire' = wire
    BY <1>2 DEF Push, stream
  <2> QED
    BY <2>4, <2>5 DEF DInv, S
<1>3. CASE ServerDies
  <2>1. UNCHANGED vars /\ wire' = <<>> /\ frame' = [w \in Worker |-> Idle]
    BY <1>3 DEF ServerDies
  <2>2. <<>> \in Seq(W)
    OBVIOUS
  <2> QED
    BY <2>1, <2>2 DEF DInv, FramesIn, FrameIn
<1>4. CASE Tick /\ UNCHANGED <<frame, todo, last, clientSide, stream, replies, link>>
  <2>1. Next /\ UNCHANGED <<frame, wire>>
    BY <1>4 DEF Next, stream
  <2> QED
    BY <2>1 DEF DInv, FramesIn, FrameIn
<1>5. CASE Throw
  <2>1. PICK p \in Received : Receives(p)
    BY <1>5 DEF Throw
  <2>2. wire' \in Seq(W)
    BY <2>1, ReceivedWords DEF Receives, DInv
  <2>3. UNCHANGED <<db, now, frame>>
    BY <1>5 DEF Throw, handlerVars
  <2> QED
    BY <2>2, <2>3 DEF DInv, FramesIn, FrameIn, vars
<1>6. CASE SendSignals \/ Quit \/ Read \/ UNCHANGED clientVars
  <2>1. UNCHANGED <<db, now, frame, wire>>
    BY <1>6 DEF SendSignals, Quit, Read, ReadValue, ReadText, ReadEnd, Reads,
       handlerVars, stream, clientVars
  <2> QED
    BY <2>1 DEF DInv, FramesIn, FrameIn, vars
<1> QED
  BY <1>1, <1>2, <1>3, <1>4, <1>5, <1>6, ReceiveStep DEF ClientNext, Serve

(***************************************************************************)
(* The connection refines the database.  Wherever a recv ends, whatever    *)
(* words it then takes for a command and its arguments, whether its task   *)
(* throws, the client quits, or the server dies inside a push or not: the  *)
(* database goes through whole operations only.  The words it may meet,    *)
(* torn ones included, are the keys, fields and values of the database.    *)
(***************************************************************************)
THEOREM ClientImplementsDatabase ==
    ASSUME NEW W, WordsFit(W)
    PROVE  ClientSpec => ImplementsDatabase
<1>1. ClientInit => Init /\ DInv(W)
  BY DEF ClientInit, HandlerInit, DInv, FramesIn, FrameIn
<1>2. DInv(W) /\ [ClientNext]_clientVars => [Next]_vars /\ DInv(W)'
  BY ClientStep
<1> DEFINE K == DInv(W)
<1>3. ClientInit => Init /\ K
  BY <1>1
<1>4. K /\ [ClientNext]_clientVars => [Next]_vars /\ K'
  BY <1>2
<1> HIDE DEF K
<1> QED
  BY <1>3, <1>4, PTL DEF ClientSpec, ImplementsDatabase, Spec
===============================================================================
