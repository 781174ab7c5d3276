---------------------------- MODULE RedisDatabase -----------------------------
(***************************************************************************)
(* The singleton RedisDatabase: three stores (strings, lists, hashes) over *)
(* one name space of keys, and the metadata of AdaptivePredictiveCache.    *)
(*                                                                         *)
(* Every public member function holds db_mutex from its first to its last  *)
(* line, so each is one atomic step.  An operation is written first as an  *)
(* operator on a database value d and the time t of the call, under the    *)
(* name it has in the source: the operators return the new database and    *)
(* the reply, or the set of databases an eviction may leave.  The actions  *)
(* at the end apply them to the variable db.  Time does not pass inside an *)
(* operation (its seconds are truncated anyway); Tick passes it between    *)
(* two operations.                                                         *)
(***************************************************************************)
EXTENDS AdaptivePredictiveCache, ListRemoval

CONSTANTS
    Key, Field, Value,
    EmptyKey,       \* the string "", which may or may not be in Key
    MaxCacheSize,   \* max_cache_size
    TTLs,           \* the positive TTLs that set and expire are called with
    MaxTime,        \* bound: last second explored
    MaxListLen      \* bound: longest list explored

ASSUME DatabaseAssumption ==
    /\ MaxCacheSize \in Nat
    /\ MaxTime \in Nat
    /\ MaxListLen \in Nat
    /\ TTLs \subseteq Nat \ {0}

VARIABLES
    db,     \* kv_store, list_store, hash_store and predictive_cache.meta_store
    now     \* the steady clock, in whole seconds

vars == <<db, now>>

-------------------------------------------------------------------------------
(* Stores are unordered_maps: partial functions.                             *)

IsMap(f, S, T) == DOMAIN f \subseteq S /\ f \in [DOMAIN f -> T]

Put(f, k, x) == [j \in DOMAIN f \cup {k} |-> IF j = k THEN x ELSE f[j]]

Erase(f, k) == Restrict(f, DOMAIN f \ {k})

\* f[k] of an unordered_map of containers: creates an empty one if absent.
ListAt(f, k) == IF k \in DOMAIN f THEN f[k] ELSE <<>>
HashAt(f, k) == IF k \in DOMAIN f THEN f[k] ELSE Restrict(f, {})

IsDatabase(d) ==
    /\ d = [kv_store |-> d.kv_store, list_store |-> d.list_store,
            hash_store |-> d.hash_store, meta_store |-> d.meta_store]
    /\ IsMap(d.kv_store, Key, Value)
    /\ IsMap(d.list_store, Key, Seq(Value))
    /\ DOMAIN d.hash_store \subseteq Key
    /\ \A k \in DOMAIN d.hash_store : IsMap(d.hash_store[k], Field, Value)
    /\ IsMap(d.meta_store, Key, KeyStats)

EmptyMap == [k \in {} |-> {}]

EmptyDatabase == [kv_store |-> EmptyMap, list_store |-> EmptyMap,
                  hash_store |-> EmptyMap, meta_store |-> EmptyMap]

\* Erase every key that is not in S, from all stores and the metadata.
Keep(d, S) ==
    [kv_store |-> Restrict(d.kv_store, S \cap DOMAIN d.kv_store),
     list_store |-> Restrict(d.list_store, S \cap DOMAIN d.list_store),
     hash_store |-> Restrict(d.hash_store, S \cap DOMAIN d.hash_store),
     meta_store |-> Restrict(d.meta_store, S \cap DOMAIN d.meta_store)]

StoredKeys(d) ==
    DOMAIN d.kv_store \cup DOMAIN d.list_store \cup DOMAIN d.hash_store

-------------------------------------------------------------------------------
(* The private helpers.                                                      *)

\* A key that is in two stores counts twice.
getTotalKeyCount(d) ==
    Cardinality(DOMAIN d.kv_store) + Cardinality(DOMAIN d.list_store)
        + Cardinality(DOMAIN d.hash_store)

\* Mutant of delInternal: || in place of |= stops at the first store.
delInternalFirstStore(d, k) ==
    LET inKv == k \in DOMAIN d.kv_store
        inList == k \in DOMAIN d.list_store
    IN  [kv_store |-> Erase(d.kv_store, k),
         list_store |-> IF inKv THEN d.list_store ELSE Erase(d.list_store, k),
         hash_store |-> IF inKv \/ inList THEN d.hash_store
                                          ELSE Erase(d.hash_store, k),
         meta_store |-> IF k \in StoredKeys(d)
                        THEN removeKey(d.meta_store, k)
                        ELSE d.meta_store]

delInternal(d, k) ==
    [kv_store |-> Erase(d.kv_store, k),
     list_store |-> Erase(d.list_store, k),
     hash_store |-> Erase(d.hash_store, k),
     meta_store |-> IF k \in StoredKeys(d)
                    THEN removeKey(d.meta_store, k)
                    ELSE d.meta_store]

isExpired(d, t, k) ==
    contains(d.meta_store, k) /\ HasExpired(d.meta_store[k], t)

\* predictive_cache.recordAccess(k)
Touch(d, t, k) == [d EXCEPT !.meta_store = recordAccess(@, k, t)]

\* Mutant of DropExpired: the operation writes over the expired key.
DropNothing(d, t, k) == d

\* The first lines of every writing operation.
DropExpired(d, t, k) == IF isExpired(d, t, k) THEN delInternal(d, k) ELSE d

(***************************************************************************)
(* The keys checkAndEvict may remove.  evictCandidate returns "" both when *)
(* it finds nothing and when it finds the key "": either way the fallback  *)
(* takes the first key of the first non-empty store.                       *)
(***************************************************************************)
FallbackKeys(d) ==
    IF d.kv_store # EmptyMap THEN DOMAIN d.kv_store
    ELSE IF d.list_store # EmptyMap THEN DOMAIN d.list_store
    ELSE DOMAIN d.hash_store

KeysToEvict(d, t) ==
    LET candidates == evictCandidate(d.meta_store, t)
    IN  (candidates \ {EmptyKey})
          \cup (IF candidates = {} \/ EmptyKey \in candidates
                THEN FallbackKeys(d) ELSE {})

\* Mutant of checkAndEvict: off by one.
checkAndEvictLate(d, t) ==
    IF getTotalKeyCount(d) <= MaxCacheSize + 1
    THEN {d}
    ELSE {delInternal(d, k) : k \in KeysToEvict(d, t)}

\* The databases checkAndEvict may leave.
checkAndEvict(d, t) ==
    IF getTotalKeyCount(d) <= MaxCacheSize
    THEN {d}
    ELSE {delInternal(d, k) : k \in KeysToEvict(d, t)}

-------------------------------------------------------------------------------
(* Operations on keys and strings.  The reply of a function that returns a   *)
(* bool and an out-parameter is the set of the values found.                 *)

flushAll(d) == EmptyDatabase

set(d, t, k, v, ttl) ==
    LET d1 == DropExpired(d, t, k)
        d2 == Touch([d1 EXCEPT !.kv_store = Put(@, k, v)], t, k)
        d3 == [d2 EXCEPT !.meta_store = setTTL(@, k, ttl, t)]
    IN  checkAndEvict(d3, t)

\* Mutant of ReadOp: the reader does not look at the TTL.
ReadOpUnchecked(d, t, k, hit, found, missed) ==
    IF hit THEN [db |-> Touch(d, t, k), ret |-> found]
           ELSE [db |-> d, ret |-> missed]

(***************************************************************************)
(* The shape of get and of every list and hash operation on one key: an    *)
(* expired key is deleted and missed; a hit records the access.            *)
(***************************************************************************)
ReadOp(d, t, k, hit, found, missed) ==
    IF ~isExpired(d, t, k) /\ hit
    THEN [db |-> Touch(d, t, k), ret |-> found]
    ELSE [db |-> DropExpired(d, t, k), ret |-> missed]

get(d, t, k) ==
    ReadOp(d, t, k, k \in DOMAIN d.kv_store, {d.kv_store[k]}, {})

\* KEYS deletes what has expired and records an access to all the rest.
keys(d, t) ==
    LET live == {k \in StoredKeys(d) : ~isExpired(d, t, k)}
        kept == Keep(d, live \cup (Key \ StoredKeys(d)))
    IN  [db |-> [kept EXCEPT !.meta_store =
                    [k \in DOMAIN @ \cup live |->
                        IF k \in live
                        THEN recordAccess(d.meta_store, k, t)[k] ELSE @[k]]],
         ret |-> live]

type(d, t, k) ==
    ReadOp(d, t, k,
           contains(d.meta_store, k) \/ k \in StoredKeys(d),
           IF k \in DOMAIN d.kv_store THEN "string"
           ELSE IF k \in DOMAIN d.list_store THEN "list"
           ELSE IF k \in DOMAIN d.hash_store THEN "hash"
           ELSE "none",
           "none")

\* DEL does not look at the TTL.
del(d, k) == [db |-> delInternal(d, k), ret |-> k \in StoredKeys(d)]

\* Mutant of expire: no test that the key exists.
expireAnyKey(d, t, k, seconds) ==
    IF seconds > 0
    THEN [db |-> Touch([d EXCEPT !.meta_store = setTTL(@, k, seconds, t)], t, k),
          ret |-> TRUE]
    ELSE [db |-> delInternal([d EXCEPT !.meta_store = setTTL(@, k, 0, t)], k),
          ret |-> TRUE]

\* EXPIRE does not look at the TTL either; seconds <= 0 deletes.
expire(d, t, k, seconds) ==
    IF ~contains(d.meta_store, k) /\ k \notin StoredKeys(d)
    THEN [db |-> d, ret |-> FALSE]
    ELSE IF seconds > 0
    THEN [db |-> Touch([d EXCEPT !.meta_store = setTTL(@, k, seconds, t)], t, k),
          ret |-> TRUE]
    ELSE [db |-> delInternal([d EXCEPT !.meta_store = setTTL(@, k, 0, t)], k),
          ret |-> TRUE]

\* f[n] = f[o]; f.erase(o), when o is there.
MoveEntry(f, o, n) ==
    IF o \in DOMAIN f THEN Erase(Put(f, n, f[o]), o) ELSE f

\* Mutant of rename: the new key is not deleted first.
renameOnto(d, t, o, n) ==
    LET meta == removeKey(d.meta_store, o)
        fresh == recordAccess(meta, n, t)
        carried == IF contains(d.meta_store, o)
                   THEN SetStats(fresh, n, d.meta_store[o]) ELSE fresh
        found == o \in StoredKeys(d)
    IN  IF isExpired(d, t, o)
        THEN [db |-> delInternal(d, o), ret |-> FALSE]
        ELSE [db |-> [kv_store |-> MoveEntry(d.kv_store, o, n),
                      list_store |-> MoveEntry(d.list_store, o, n),
                      hash_store |-> MoveEntry(d.hash_store, o, n),
                      meta_store |-> IF found THEN recordAccess(carried, n, t)
                                              ELSE meta],
              ret |-> found]

(***************************************************************************)
(* RENAME deletes the new key, takes the old key's statistics away, moves  *)
(* the entries, and gives the statistics to the new key with one more      *)
(* access.  The statistics are lost when no store had the old key.         *)
(***************************************************************************)
rename(d, t, o, n) ==
    LET d1 == IF n \in StoredKeys(d) THEN delInternal(d, n) ELSE d
        meta == removeKey(d1.meta_store, o)
        hadStats == contains(d1.meta_store, o) /\ d1.meta_store[o].access_count > 0
        fresh == recordAccess(meta, n, t)
        carried == IF hadStats THEN SetStats(fresh, n, d1.meta_store[o]) ELSE fresh
        found == o \in StoredKeys(d1)
    IN  IF isExpired(d, t, o)
        THEN [db |-> delInternal(d, o), ret |-> FALSE]
        ELSE [db |-> [kv_store |-> MoveEntry(d1.kv_store, o, n),
                      list_store |-> MoveEntry(d1.list_store, o, n),
                      hash_store |-> MoveEntry(d1.hash_store, o, n),
                      meta_store |-> IF found THEN recordAccess(carried, n, t)
                                              ELSE meta],
              ret |-> found]

-------------------------------------------------------------------------------
(* Operations on lists.                                                      *)

lget(d, t, k) ==
    ReadOp(d, t, k, k \in DOMAIN d.list_store, d.list_store[k], <<>>)

llen(d, t, k) ==
    ReadOp(d, t, k, k \in DOMAIN d.list_store, Len(d.list_store[k]), 0)

\* What lpush and rpush share: k's list becomes l.
StoreList(d, t, k, l) ==
    checkAndEvict(Touch([d EXCEPT !.list_store = Put(@, k, l)], t, k), t)

lpush(d, t, k, v) ==
    LET d1 == DropExpired(d, t, k)
    IN  StoreList(d1, t, k, <<v>> \o ListAt(d1.list_store, k))

rpush(d, t, k, v) ==
    LET d1 == DropExpired(d, t, k)
    IN  StoreList(d1, t, k, Append(ListAt(d1.list_store, k), v))

\* Mutant of ReplaceList: an emptied list stays.
KeepEmptyList(d, k, l) == [d EXCEPT !.list_store = Put(@, k, l)]

\* k's list becomes l; the key goes, from every store, when l is empty.
ReplaceList(d, k, l) ==
    IF l = <<>> THEN delInternal(d, k)
                ELSE [d EXCEPT !.list_store = Put(@, k, l)]

\* The changing operations on an existing list: the access, then the change.
UpdateList(d, t, k, hit, l, found, missed) ==
    IF ~isExpired(d, t, k) /\ k \in DOMAIN d.list_store /\ hit
    THEN [db |-> ReplaceList(Touch(d, t, k), k, l), ret |-> found]
    ELSE [db |-> DropExpired(d, t, k), ret |-> missed]

rpop(d, t, k) ==
    LET l == d.list_store[k]
    IN  UpdateList(d, t, k, l # <<>>, SubSeq(l, 1, Len(l) - 1), {l[Len(l)]}, {})

lpop(d, t, k) ==
    LET l == d.list_store[k]
    IN  UpdateList(d, t, k, l # <<>>, Tail(l), {Head(l)}, {})

lrem(d, t, k, count, v) ==
    LET l == d.list_store[k]
        removed == RemovedPositions(l, count, v)
    IN  UpdateList(d, t, k, removed # {}, AtPositions(l, (1..Len(l)) \ removed),
                   Cardinality(removed), 0)

\* A negative index counts from the end; positions of TLA+ start at 1.
Position(l, index) == IF index < 0 THEN Len(l) + index + 1 ELSE index + 1

lindex(d, t, k, index) ==
    LET p == Position(d.list_store[k], index)
    IN  ReadOp(d, t, k, k \in DOMAIN d.list_store /\ p \in 1..Len(d.list_store[k]),
               {d.list_store[k][p]}, {})

lset(d, t, k, index, v) ==
    LET l == d.list_store[k]
        p == Position(l, index)
    IN  UpdateList(d, t, k, p \in 1..Len(l), [l EXCEPT ![p] = v], TRUE, FALSE)

-------------------------------------------------------------------------------
(* Operations on hashes.                                                     *)

\* fv over h: the pairs of fv replace those of h.
Overlay(fv, h) ==
    [f \in DOMAIN fv \cup DOMAIN h |-> IF f \in DOMAIN fv THEN fv[f] ELSE h[f]]

\* hmset's vector of pairs as a map: of equal fields the last counts.
hmset(d, t, k, fv) ==
    LET d1 == DropExpired(d, t, k)
        h == Overlay(fv, HashAt(d1.hash_store, k))
    IN  checkAndEvict(Touch([d1 EXCEPT !.hash_store = Put(@, k, h)], t, k), t)

hset(d, t, k, f, v) == hmset(d, t, k, [g \in {f} |-> v])

hget(d, t, k, f) ==
    ReadOp(d, t, k, k \in DOMAIN d.hash_store /\ f \in DOMAIN d.hash_store[k],
           {d.hash_store[k][f]}, {})

\* The access to the hash counts whether or not the field is there.
hexists(d, t, k, f) ==
    ReadOp(d, t, k, k \in DOMAIN d.hash_store, f \in DOMAIN d.hash_store[k], FALSE)

\* k's hash becomes h; the key goes, from every store, when h is empty.
ReplaceHash(d, k, h) ==
    IF DOMAIN h = {} THEN delInternal(d, k)
                     ELSE [d EXCEPT !.hash_store = Put(@, k, h)]

hdel(d, t, k, f) ==
    LET h == d.hash_store[k]
    IN  IF ~isExpired(d, t, k) /\ k \in DOMAIN d.hash_store
        THEN [db |-> ReplaceHash(Touch(d, t, k), k, Erase(h, f)),
              ret |-> f \in DOMAIN h]
        ELSE [db |-> DropExpired(d, t, k), ret |-> FALSE]

hgetall(d, t, k) ==
    ReadOp(d, t, k, k \in DOMAIN d.hash_store, d.hash_store[k], EmptyMap)

hkeys(d, t, k) ==
    ReadOp(d, t, k, k \in DOMAIN d.hash_store, DOMAIN d.hash_store[k], {})

\* As the set of <<field, value>> behind the vector, whose order is arbitrary.
hvals(d, t, k) ==
    ReadOp(d, t, k, k \in DOMAIN d.hash_store,
           {<<f, d.hash_store[k][f]>> : f \in DOMAIN d.hash_store[k]}, {})

hlen(d, t, k) ==
    ReadOp(d, t, k, k \in DOMAIN d.hash_store,
           Cardinality(DOMAIN d.hash_store[k]), 0)

-------------------------------------------------------------------------------
(* The specification.                                                        *)

\* The bounds on the model's state.
WithinBounds(d) ==
    /\ \A k \in DOMAIN d.meta_store : d.meta_store[k].access_count <= MaxAccess
    /\ \A k \in DOMAIN d.list_store : Len(d.list_store[k]) <= MaxListLen

\* The database becomes d, at the same time.
Becomes(d) == db' = d /\ WithinBounds(d) /\ UNCHANGED now

Init == db = EmptyDatabase /\ now = 0

FlushAll == Becomes(flushAll(db))

\* The commands pass ttl 0, the default; the parameter is the class's own.
Set(k, v, ttl) == \E d \in set(db, now, k, v, ttl) : Becomes(d)
Get(k) == Becomes(get(db, now, k).db)
Keys == Becomes(keys(db, now).db)
Type(k) == Becomes(type(db, now, k).db)
Del(k) == Becomes(del(db, k).db)
Expire(k, seconds) == Becomes(expire(db, now, k, seconds).db)
Rename(o, n) == Becomes(rename(db, now, o, n).db)

LGet(k) == Becomes(lget(db, now, k).db)
LLen(k) == Becomes(llen(db, now, k).db)
LPush(k, v) == \E d \in lpush(db, now, k, v) : Becomes(d)
RPush(k, v) == \E d \in rpush(db, now, k, v) : Becomes(d)
RPop(k) == Becomes(rpop(db, now, k).db)
LPop(k) == Becomes(lpop(db, now, k).db)
LRem(k, count, v) == Becomes(lrem(db, now, k, count, v).db)
LIndex(k, index) == Becomes(lindex(db, now, k, index).db)
LSet(k, index, v) == Becomes(lset(db, now, k, index, v).db)

HSet(k, f, v) == \E d \in hset(db, now, k, f, v) : Becomes(d)
HGet(k, f) == Becomes(hget(db, now, k, f).db)
HExists(k, f) == Becomes(hexists(db, now, k, f).db)
HDel(k, f) == Becomes(hdel(db, now, k, f).db)
HGetAll(k) == Becomes(hgetall(db, now, k).db)
HKeys(k) == Becomes(hkeys(db, now, k).db)
HVals(k) == Becomes(hvals(db, now, k).db)
HLen(k) == Becomes(hlen(db, now, k).db)
HMSet(k, fv) == \E d \in hmset(db, now, k, fv) : Becomes(d)

\* A second passes.
Tick == now < MaxTime /\ now' = now + 1 /\ UNCHANGED db

\* The counts and indexes that reach every case of a list up to MaxListLen, an
\* index beyond either end among them.
Counts == (-MaxListLen)..MaxListLen
Indexes == (-MaxListLen - 1)..MaxListLen

\* handleHmset always passes at least one pair.
FieldValues ==
    UNION {[D -> Value] : D \in {S \in SUBSET Field : S # {} /\ IsFiniteSet(S)}}

KeyStep(k) ==
    \/ \E v \in Value, ttl \in TTLs \cup {0} : Set(k, v, ttl)
    \/ Get(k)
    \/ Type(k)
    \/ Del(k)
    \/ \E seconds \in TTLs \cup {0} : Expire(k, seconds)
    \/ \E n \in Key : Rename(k, n)

ListStep(k) ==
    \/ LGet(k)
    \/ LLen(k)
    \/ \E v \in Value : LPush(k, v) \/ RPush(k, v)
    \/ RPop(k)
    \/ LPop(k)
    \/ \E v \in Value, count \in Counts : LRem(k, count, v)
    \/ \E index \in Indexes : LIndex(k, index)
    \/ \E v \in Value, index \in Indexes : LSet(k, index, v)

HashStep(k) ==
    \/ \E f \in Field, v \in Value : HSet(k, f, v)
    \/ \E f \in Field : HGet(k, f) \/ HExists(k, f) \/ HDel(k, f)
    \/ HGetAll(k)
    \/ HKeys(k)
    \/ HVals(k)
    \/ HLen(k)
    \/ \E fv \in FieldValues : HMSet(k, fv)

Next ==
    \/ FlushAll
    \/ Keys
    \/ Tick
    \/ \E k \in Key : KeyStep(k) \/ ListStep(k) \/ HashStep(k)

Spec == Init /\ [][Next]_vars
===============================================================================
