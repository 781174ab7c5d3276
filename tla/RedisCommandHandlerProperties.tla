-------------------- MODULE RedisCommandHandlerProperties ---------------------
(***************************************************************************)
(* What the commands promise their clients, over RedisCommandHandler.      *)
(***************************************************************************)
EXTENDS RedisCommandHandler, RedisDatabaseProperties

(***************************************************************************)
(* Type invariant.  A worker inside LPUSH or RPUSH still has an end piece  *)
(* of the request's elements to push.                                      *)
(***************************************************************************)
HandlerTypeOK ==
    /\ IsDatabase(db)
    /\ now \in 0..MaxTime
    /\ todo \subseteq Pushes
    /\ \A w \in Worker :
          \/ frame[w] = Idle
          \/ LET a == frame[w].req.args
             IN  /\ frame[w].req \in Requests \cup Pushes
                 /\ \E i \in 1..Len(a) : frame[w].left = SubSeq(a, i + 1, Len(a))

-------------------------------------------------------------------------------
(* Lists that several clients work on.                                       *)

\* The places of element e: the lists that hold it, and where.
Places(e) ==
    UNION {{<<k, i>> : i \in {j \in DOMAIN db.list_store[k] :
                                 db.list_store[k][j] = e}} :
             k \in DOMAIN db.list_store}

\* The values that request r may put into a list.
Inserted(r) ==
    CASE r.cmd \in PushCommands -> {r.args[i] : i \in 2..Len(r.args)}
      [] r.cmd = "LSET" -> {r.args[i] : i \in 3..Len(r.args)}
      [] OTHER -> {}

PushedElements == UNION {{p.args[i] : i \in 2..Len(p.args)} : p \in Pushes}

\* Elements of Pushes come from nowhere else.
OnlyPushed == \A r \in Requests : Inserted(r) \cap PushedElements = {}

(***************************************************************************)
(* The elements of one LPUSH or RPUSH enter the database one lock at a     *)
(* time.  Whatever other clients pop, remove, rename, expire or evict in   *)
(* between, no element is there twice, and those that are together in a    *)
(* list stand in the order of the command: ascending for RPUSH, descending *)
(* for LPUSH.                                                              *)
(***************************************************************************)
PushedInOrder ==
    \A p \in Pushes : \A i, j \in 2..Len(p.args) :
        \A x \in Places(p.args[i]), y \in Places(p.args[j]) :
            /\ i = j => x = y
            /\ i < j /\ x[1] = y[1] =>
                  IF p.cmd = "RPUSH" THEN x[2] < y[2] ELSE y[2] < x[2]

-------------------------------------------------------------------------------
(* Replies.                                                                  *)

\* What a client can see of key k; nothing if it has expired.
Visible(d, k) ==
    IF k \in StoredKeys(d) /\ ~isExpired(d, now, k)
    THEN <<Content(d, k), Deadline(d, k)>> ELSE <<>>

\* A step that answers a request which is not a push.
Answering == frame' = frame /\ now' = now

(***************************************************************************)
(* A command that is refused, for its name, its arguments, a number that   *)
(* is none, or a key or index that does not exist, has changed no live key *)
(* and no deadline; a RENAME that fails none but the new key, which        *)
(* rename deletes before it looks for the old one.                         *)
(***************************************************************************)
ErrorsChangeNothing ==
    [][Answering /\ last'.reply = Error =>
          LET r == last'.req
              lost == IF r.cmd = "RENAME" /\ Accepted(r) THEN {r.args[2]} ELSE {}
          IN  \A k \in Key \ lost :
                 Visible(db', k) = Visible(db, k)]_handlerVars

\* The requests whose reply is known not to be one RESP value.
Misanswered(r) == r.cmd \in {"LGET", "LPOP"} \/ r = Request("ECHO", <<>>)

(***************************************************************************)
(* Every reply is exactly one RESP value, whatever the state of the key    *)
(* and the arguments, so that the next reply starts where a client expects *)
(* it.                                                                     *)
(***************************************************************************)
RepliesWellFormed == Misanswered(last.req) \/ IsReply(last.reply)

-------------------------------------------------------------------------------
(* The database below the handlers.                                          *)

(***************************************************************************)
(* The arguments of a request that is not refused are of the kinds and in  *)
(* the ranges that RedisDatabase is specified for.                         *)
(***************************************************************************)
Fits(r) ==
    LET a == r.args
        Is(cmds) == Accepted(r) /\ r.cmd \in cmds
    IN  /\ r = Request(r.cmd, a) /\ a \in Seq(Range(a))
        /\ Accepted(r) =>
              r.cmd \in {"PING", "ECHO", "FLUSHALL", "KEYS"} \/ a[1] \in Key
        /\ Is({"SET"}) => a[2] \in Value
        /\ Is({"EXPIRE"}) /\ IsNumber(a[2]) => a[2] \in TTLs \cup {0}
        /\ Is({"RENAME"}) => a[2] \in Key
        /\ Is(PushCommands) => \A i \in 2..Len(a) : a[i] \in Value
        /\ Is({"LREM"}) /\ IsNumber(a[2]) => a[2] \in Counts
        /\ Is({"LINDEX", "LSET"}) /\ IsNumber(a[2]) => a[2] \in Indexes
        /\ Is({"LREM", "LSET", "HSET"}) => a[3] \in Value
        /\ Is({"HSET", "HGET", "HEXISTS", "HDEL"}) => a[2] \in Field
        /\ Is({"HMSET"}) /\ Len(a) % 2 = 1 =>
              \A i \in 2..Len(a) : a[i] \in IF i % 2 = 0 THEN Field ELSE Value

(***************************************************************************)
(* Whatever clients send, in whatever order, the database goes through     *)
(* whole operations only: a command is one of them, or a push one per      *)
(* element and one for the reply, or, refused, none.  Everything that      *)
(* RedisDatabase guarantees therefore holds below the handlers too.        *)
(***************************************************************************)
ImplementsDatabase == Spec
===============================================================================
