-------------------------- MODULE RedisCommandHandler --------------------------
(***************************************************************************)
(* RedisCommandHandler::processCommand over RedisDatabase.  A request is   *)
(* what parseRespCommand makes of the input: a command name (in upper      *)
(* case) and the arguments after it.  Each handler is an operator on a     *)
(* database and a time, under its name in the source, that returns what    *)
(* the command may lead to: a set of databases, each with its reply.       *)
(*                                                                         *)
(* Most handlers call the database once and so are one atomic step.  LPUSH *)
(* and RPUSH call it once per element and once more for the length of the  *)
(* list; db_mutex is free in between, and workers with other clients take  *)
(* their turns.                                                            *)
(***************************************************************************)
EXTENDS RedisDatabase, Resp

CONSTANTS
    Worker,
    Requests,       \* bound: the requests that are made, again and again
    Pushes          \* bound: LPUSHes and RPUSHes that are made at most once

\* The elements of Pushes can be told apart.
ASSUME HandlerAssumption ==
    \A p, q \in Pushes : \A i \in 2..Len(p.args), j \in 2..Len(q.args) :
        p.args[i] = q.args[j] => p = q /\ i = j

VARIABLES
    frame,  \* the push each worker is executing, and its elements still to push
    todo,   \* the Pushes not begun
    last    \* history: the request answered last, and its reply

handlerVars == <<db, now, frame, todo, last>>

Request(cmd, args) == [cmd |-> cmd, args |-> args]
NoRequest == Request("", <<>>)
Idle == [req |-> NoRequest, left |-> <<>>]

HandlerInit ==
    /\ Init
    /\ frame = [w \in Worker |-> Idle]
    /\ todo = Pushes
    /\ last = [req |-> NoRequest, reply |-> Status]

-------------------------------------------------------------------------------
(* What a handler leaves: one database with its reply, or one of several.    *)

Answer(d, reply) == {[db |-> d, reply |-> reply]}
AnyOf(ds, reply) == {[db |-> d, reply |-> reply] : d \in ds}

Flag(b) == Integer(IF b THEN 1 ELSE 0)

\* A bool and an out-parameter, as the set of the values found.
Found(S) == IF S = {} THEN Nil ELSE Bulk(CHOOSE v \in S : TRUE)

\* Whether std::stoi accepts the argument.
IsNumber(x) == x \in Int

handlePing(d) == Answer(d, Status)

handleEcho(d, a) == Answer(d, IF a = <<>> THEN Junk ELSE Status)

handleFlushAll(d) == Answer(flushAll(d), Status)

\* Arguments after the value are ignored.
handleSet(d, t, a) == AnyOf(set(d, t, a[1], a[2], 0), Status)

\* Mutant of handleGet: the value of a hit is not sent.
handleGetHeader(d, t, a) ==
    LET r == get(d, t, a[1])
    IN  Answer(r.db, IF r.ret = {} THEN Nil ELSE <<BulkHeader>>)

handleGet(d, t, a) ==
    LET r == get(d, t, a[1]) IN Answer(r.db, Found(r.ret))

handleKeys(d, t) ==
    LET r == keys(d, t) IN Answer(r.db, Array(Cardinality(r.ret)))

handleType(d, t, a) == Answer(type(d, t, a[1]).db, Status)

handleDel(d, a) == LET r == del(d, a[1]) IN Answer(r.db, Flag(r.ret))

\* Mutant of handleExpire: a number it cannot parse counts as 0.
handleExpireUnparsed(d, t, a) ==
    LET r == expire(d, t, a[1], IF IsNumber(a[2]) THEN a[2] ELSE 0)
    IN  Answer(r.db, IF IsNumber(a[2]) /\ r.ret THEN Status ELSE Error)

handleExpire(d, t, a) ==
    LET r == expire(d, t, a[1], a[2])
    IN  IF IsNumber(a[2])
        THEN Answer(r.db, IF r.ret THEN Status ELSE Error)
        ELSE Answer(d, Error)

handleRename(d, t, a) ==
    LET r == rename(d, t, a[1], a[2])
    IN  Answer(r.db, IF r.ret THEN Status ELSE Error)

\* After every element comes a nil.
handleLget(d, t, a) ==
    LET r == lget(d, t, a[1])
        n == Len(r.ret)
    IN  Answer(r.db, <<Item("*", n)>> \o
                     [i \in 1..(3 * n) |-> CASE i % 3 = 1 -> BulkHeader
                                             [] i % 3 = 2 -> Item("text", 0)
                                             [] i % 3 = 0 -> Item("$", -1)])

handleLlen(d, t, a) == LET r == llen(d, t, a[1]) IN Answer(r.db, Integer(r.ret))

\* The value is left out of the reply.
handleLpop(d, t, a) ==
    LET r == lpop(d, t, a[1])
    IN  Answer(r.db, IF r.ret = {} THEN Nil ELSE <<BulkHeader>>)

\* It calls lpop.
handleRpop(d, t, a) ==
    LET r == lpop(d, t, a[1]) IN Answer(r.db, Found(r.ret))

handleLrem(d, t, a) ==
    LET r == lrem(d, t, a[1], a[2], a[3])
    IN  IF IsNumber(a[2]) THEN Answer(r.db, Integer(r.ret)) ELSE Answer(d, Error)

handleLindex(d, t, a) ==
    LET r == lindex(d, t, a[1], a[2])
    IN  IF IsNumber(a[2]) THEN Answer(r.db, Found(r.ret)) ELSE Answer(d, Error)

handleLset(d, t, a) ==
    LET r == lset(d, t, a[1], a[2], a[3])
    IN  IF IsNumber(a[2])
        THEN Answer(r.db, IF r.ret THEN Status ELSE Error)
        ELSE Answer(d, Error)

\* The reply does not tell a new field from an old one.
handleHset(d, t, a) == AnyOf(hset(d, t, a[1], a[2], a[3]), Integer(1))

handleHget(d, t, a) ==
    LET r == hget(d, t, a[1], a[2]) IN Answer(r.db, Found(r.ret))

handleHexists(d, t, a) ==
    LET r == hexists(d, t, a[1], a[2]) IN Answer(r.db, Flag(r.ret))

handleHdel(d, t, a) ==
    LET r == hdel(d, t, a[1], a[2]) IN Answer(r.db, Flag(r.ret))

handleHgetall(d, t, a) ==
    LET r == hgetall(d, t, a[1])
    IN  Answer(r.db, Array(2 * Cardinality(DOMAIN r.ret)))

handleHkeys(d, t, a) ==
    LET r == hkeys(d, t, a[1]) IN Answer(r.db, Array(Cardinality(r.ret)))

handleHvals(d, t, a) ==
    LET r == hvals(d, t, a[1]) IN Answer(r.db, Array(Cardinality(r.ret)))

handleHlen(d, t, a) == LET r == hlen(d, t, a[1]) IN Answer(r.db, Integer(r.ret))

\* The pairs f1 v1 f2 v2 ... after the key; of equal fields the last counts.
PairsOf(a) ==
    LET fieldAt == {i \in 2..Len(a) : i % 2 = 0}
        LastOf(f) == CHOOSE i \in fieldAt :
                        a[i] = f /\ \A j \in fieldAt : a[j] = f => j <= i
    IN  [f \in {a[i] : i \in fieldAt} |-> a[LastOf(f) + 1]]

\* Mutant of handleHmset: the old hash is deleted first.
handleHmsetAnew(d, t, a) ==
    IF Len(a) % 2 = 0 THEN Answer(d, Error)
    ELSE AnyOf(hmset(delInternal(d, a[1]), t, a[1], PairsOf(a)), Status)

handleHmset(d, t, a) ==
    IF Len(a) % 2 = 0 THEN Answer(d, Error)
    ELSE AnyOf(hmset(d, t, a[1], PairsOf(a)), Status)

-------------------------------------------------------------------------------
(* Dispatch.                                                                 *)

PushCommands == {"LPUSH", "RPUSH"}

\* How many arguments each command insists on.
MinArgs ==
    [PING |-> 0, ECHO |-> 0, FLUSHALL |-> 0, SET |-> 2, GET |-> 1, KEYS |-> 0,
     TYPE |-> 1, DEL |-> 1, UNLINK |-> 1, EXPIRE |-> 2, RENAME |-> 2,
     LGET |-> 1, LLEN |-> 1, LPUSH |-> 2, RPUSH |-> 1, LPOP |-> 1, RPOP |-> 1,
     LREM |-> 3, LINDEX |-> 2, LSET |-> 3,
     HSET |-> 3, HGET |-> 2, HEXISTS |-> 2, HDEL |-> 2, HGETALL |-> 1,
     HKEYS |-> 1, HVALS |-> 1, HLEN |-> 1, HMSET |-> 3]

\* A known command with enough arguments.
Accepted(r) == r.cmd \in DOMAIN MinArgs /\ Len(r.args) >= MinArgs[r.cmd]

\* What request r, not a push, may lead to.
processCommand(d, t, r) ==
    LET a == r.args
    IN  IF ~Accepted(r) THEN Answer(d, Error) ELSE
        CASE r.cmd = "PING" -> handlePing(d)
          [] r.cmd = "ECHO" -> handleEcho(d, a)
          [] r.cmd = "FLUSHALL" -> handleFlushAll(d)
          [] r.cmd = "SET" -> handleSet(d, t, a)
          [] r.cmd = "GET" -> handleGet(d, t, a)
          [] r.cmd = "KEYS" -> handleKeys(d, t)
          [] r.cmd = "TYPE" -> handleType(d, t, a)
          [] r.cmd \in {"DEL", "UNLINK"} -> handleDel(d, a)
          [] r.cmd = "EXPIRE" -> handleExpire(d, t, a)
          [] r.cmd = "RENAME" -> handleRename(d, t, a)
          [] r.cmd = "LGET" -> handleLget(d, t, a)
          [] r.cmd = "LLEN" -> handleLlen(d, t, a)
          [] r.cmd = "LPOP" -> handleLpop(d, t, a)
          [] r.cmd = "RPOP" -> handleRpop(d, t, a)
          [] r.cmd = "LREM" -> handleLrem(d, t, a)
          [] r.cmd = "LINDEX" -> handleLindex(d, t, a)
          [] r.cmd = "LSET" -> handleLset(d, t, a)
          [] r.cmd = "HSET" -> handleHset(d, t, a)
          [] r.cmd = "HGET" -> handleHget(d, t, a)
          [] r.cmd = "HEXISTS" -> handleHexists(d, t, a)
          [] r.cmd = "HDEL" -> handleHdel(d, t, a)
          [] r.cmd = "HGETALL" -> handleHgetall(d, t, a)
          [] r.cmd = "HKEYS" -> handleHkeys(d, t, a)
          [] r.cmd = "HVALS" -> handleHvals(d, t, a)
          [] r.cmd = "HLEN" -> handleHlen(d, t, a)
          [] r.cmd = "HMSET" -> handleHmset(d, t, a)

\* Request r is answered.
Answered(r, reply) == last' = [req |-> r, reply |-> reply]

\* A worker processes a request in one step.
Command(r) ==
    /\ \E w \in Worker : frame[w] = Idle
    /\ ~(r.cmd \in PushCommands /\ Accepted(r))
    /\ \E o \in processCommand(db, now, r) :
          Becomes(o.db) /\ Answered(r, o.reply)
    /\ UNCHANGED <<frame, todo>>

-------------------------------------------------------------------------------
(* handleLpush and handleRpush.                                              *)

BeginPush(w, r) ==
    /\ r.cmd \in PushCommands /\ Accepted(r)
    /\ frame[w] = Idle
    /\ frame' = [frame EXCEPT ![w] = [req |-> r, left |-> Tail(r.args)]]
    /\ todo' = todo \ {r}
    /\ UNCHANGED <<db, now, last>>

\* Mutant of PushElement: the elements are pushed from the last to the first.
PushElementBackwards(w) ==
    LET f == frame[w]
        k == f.req.args[1]
        n == Len(f.left)
    IN  /\ n > 0
        /\ IF f.req.cmd = "LPUSH" THEN LPush(k, f.left[n]) ELSE RPush(k, f.left[n])
        /\ frame' = [frame EXCEPT ![w].left = SubSeq(@, 1, n - 1)]
        /\ UNCHANGED <<todo, last>>

\* One turn of the loop over the elements.
PushElement(w) ==
    LET f == frame[w]
        k == f.req.args[1]
    IN  /\ f.left # <<>>
        /\ IF f.req.cmd = "LPUSH" THEN LPush(k, Head(f.left))
                                  ELSE RPush(k, Head(f.left))
        /\ frame' = [frame EXCEPT ![w].left = Tail(@)]
        /\ UNCHANGED <<todo, last>>

\* The length of the list is asked for and sent.
EndPush(w) ==
    /\ frame[w] # Idle /\ frame[w].left = <<>>
    /\ LET r == llen(db, now, frame[w].req.args[1])
       IN  Becomes(r.db) /\ Answered(frame[w].req, Integer(r.ret))
    /\ frame' = [frame EXCEPT ![w] = Idle]
    /\ UNCHANGED todo

-------------------------------------------------------------------------------
(* The specification.                                                        *)

PushStep(w) == PushElement(w) \/ EndPush(w)

HandlerNext ==
    \/ \E r \in Requests : Command(r)
    \/ \E w \in Worker, r \in Requests \cup todo : BeginPush(w, r)
    \/ \E w \in Worker : PushStep(w)
    \/ Tick /\ UNCHANGED <<frame, todo, last>>

HandlerSpec == HandlerInit /\ [][HandlerNext]_handlerVars
================================================================================
