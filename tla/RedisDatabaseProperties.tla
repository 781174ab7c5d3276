----------------------- MODULE RedisDatabaseProperties ------------------------
(***************************************************************************)
(* What RedisDatabase should guarantee, stated over its specification.     *)
(***************************************************************************)
EXTENDS RedisDatabase

(***************************************************************************)
(* Type invariant.  Statistics never carry a time later than the clock,    *)
(* which the ages and the remaining TTLs of APC take for granted.          *)
(***************************************************************************)
TypeOK ==
    /\ IsDatabase(db)
    /\ now \in 0..MaxTime
    /\ \A k \in DOMAIN db.meta_store :
          /\ db.meta_store[k].last_access <= now
          /\ db.meta_store[k].ttl_set_time <= now

(***************************************************************************)
(* Four independent maps describe one set of keys: a key has metadata      *)
(* exactly when some store holds it.  A key without metadata could never   *)
(* expire and never be chosen by evictCandidate; metadata without a key    *)
(* would be chosen for eviction and free nothing (delInternal would not    *)
(* even remove it).  The fallback of checkAndEvict is there for the first. *)
(***************************************************************************)
MetaTracksStores == DOMAIN db.meta_store = StoredKeys(db)

(***************************************************************************)
(* Every operation that can add an entry adds at most one and then evicts  *)
(* one key, so between operations the stores never hold more than          *)
(* max_cache_size entries, although checkAndEvict is no loop.              *)
(***************************************************************************)
WithinCapacity == getTotalKeyCount(db) <= MaxCacheSize

(***************************************************************************)
(* No operation leaves an empty list or hash behind: KEYS and TYPE would   *)
(* report a key that has no element, and rpop and lpop treat it as absent. *)
(***************************************************************************)
NoEmptyCollections ==
    /\ \A k \in DOMAIN db.list_store : db.list_store[k] # <<>>
    /\ \A k \in DOMAIN db.hash_store : DOMAIN db.hash_store[k] # {}

(***************************************************************************)
(* rename takes access_count > 0 to mean "this key had statistics"; a key  *)
(* with a TTL and a zero count would lose its TTL when it is renamed.      *)
(***************************************************************************)
StatsPopulated ==
    \A k \in DOMAIN db.meta_store : db.meta_store[k].access_count > 0

-------------------------------------------------------------------------------
(* Lazy expiry.                                                              *)

Expired(k) == isExpired(db, now, k)

\* The database an eager expiry would keep: nothing of an expired key.
Purged(d, t) == Keep(d, {k \in Key : ~isExpired(d, t, k)})

\* All that the reading operations say of database d at time t.
Replies(d, t) ==
    [keys |-> keys(d, t).ret,
     type |-> [k \in Key |-> type(d, t, k).ret],
     get |-> [k \in Key |-> get(d, t, k).ret],
     lget |-> [k \in Key |-> lget(d, t, k).ret],
     llen |-> [k \in Key |-> llen(d, t, k).ret],
     lindex |-> [k \in Key |-> [i \in Indexes |-> lindex(d, t, k, i).ret]],
     hgetall |-> [k \in Key |-> hgetall(d, t, k).ret],
     hget |-> [k \in Key |-> [f \in Field |-> hget(d, t, k, f).ret]],
     hexists |-> [k \in Key |-> [f \in Field |-> hexists(d, t, k, f).ret]],
     hlen |-> [k \in Key |-> hlen(d, t, k).ret],
     hkeys |-> [k \in Key |-> hkeys(d, t, k).ret],
     hvals |-> [k \in Key |-> hvals(d, t, k).ret]]

(***************************************************************************)
(* An expired key stays in the stores until someone touches it, yet no     *)
(* read can tell: each replies as if the key had been removed on time      *)
(* (README.md:134, "Keys are lazily evicted upon access if expired").      *)
(***************************************************************************)
LazyExpiryInvisible == Replies(db, now) = Replies(Purged(db, now), now)

\* What a changing operation may leave, with its reply, of d at time t.
Outcomes(d, t, k) ==
    LET Written(ds) == {<<Purged(e, t), TRUE>> : e \in ds}
        Done(r) == {<<Purged(r.db, t), r.ret>>}
    IN  [set |-> [v \in Value |-> Written(set(d, t, k, v, 0))],
         lpush |-> [v \in Value |-> Written(lpush(d, t, k, v))],
         rpush |-> [v \in Value |-> Written(rpush(d, t, k, v))],
         hmset |-> [fv \in FieldValues |-> Written(hmset(d, t, k, fv))],
         rename |-> [o \in keys(d, t).ret |-> Done(rename(d, t, o, k))],
         lpop |-> Done(lpop(d, t, k)),
         rpop |-> Done(rpop(d, t, k)),
         lrem |-> [v \in Value |-> [c \in Counts |-> Done(lrem(d, t, k, c, v))]],
         lset |-> [v \in Value |-> [i \in Indexes |-> Done(lset(d, t, k, i, v))]],
         hdel |-> [f \in Field |-> Done(hdel(d, t, k, f))]]

(***************************************************************************)
(* Nor can a write tell: on an expired key, or beside one, it replies and  *)
(* leaves what it would after an eager expiry.  A list pushed to after its *)
(* TTL starts afresh, without the old elements, counts or TTL; a rename    *)
(* onto an expired key inherits nothing from it; and an expired key that   *)
(* still fills the cache never costs a live key its place.  (DEL, EXPIRE   *)
(* and a RENAME of the expired key itself do tell, and are left out.)      *)
(***************************************************************************)
LazyUpdatesInvisible ==
    \A k \in Key : Outcomes(db, now, k) = Outcomes(Purged(db, now), now, k)

-------------------------------------------------------------------------------
(* Eviction.                                                                 *)

\* A step of an operation that ends in checkAndEvict.
Write(k) ==
    \/ \E v \in Value, ttl \in TTLs \cup {0} : Set(k, v, ttl)
    \/ \E v \in Value : LPush(k, v) \/ RPush(k, v)
    \/ \E f \in Field, v \in Value : HSet(k, f, v)
    \/ \E fv \in FieldValues : HMSet(k, fv)

\* The keys that a write on k took away although they had not expired.
Evicted(k) ==
    {x \in (DOMAIN db.meta_store \cup {k}) \ DOMAIN db'.meta_store :
        x = k \/ ~Expired(x)}

(***************************************************************************)
(* A write never evicts a live key, not even the one just written, while   *)
(* an expired key is still stored.                                         *)
(***************************************************************************)
EvictsExpiredFirst ==
    [][\A k \in Key : Write(k) /\ Evicted(k) # {} =>
          \A j \in DOMAIN db'.meta_store : ~isExpired(db', now, j)]_vars

(***************************************************************************)
(* README.md:25, "Selects the lowest-scoring key for removal": of two keys *)
(* without a TTL, one that was used both later and more often is never     *)
(* evicted in place of the other, whatever the weights of the score.       *)
(***************************************************************************)
EvictionSparesBetterKeys ==
    [][\A k \in Key : Write(k) =>
          \A x \in Evicted(k) \ {k}, y \in DOMAIN db'.meta_store :
             LET a == db.meta_store[x]
                 b == db'.meta_store[y]
             IN  ~ /\ a.ttl_initial_seconds = 0 /\ b.ttl_initial_seconds = 0
                   /\ a.last_access >= b.last_access
                   /\ a.access_count > b.access_count]_vars

-------------------------------------------------------------------------------
(* Keys keep what is theirs.                                                 *)

Deadline(d, k) ==
    LET s == d.meta_store[k]
    IN  IF s.ttl_initial_seconds > 0
        THEN {s.ttl_set_time + s.ttl_initial_seconds} ELSE {}

\* What the stores hold of key k.
Content(d, k) ==
    <<{d.kv_store[j] : j \in DOMAIN d.kv_store \cap {k}},
      {d.list_store[j] : j \in DOMAIN d.list_store \cap {k}},
      {d.hash_store[j] : j \in DOMAIN d.hash_store \cap {k}}>>

(***************************************************************************)
(* RENAME moves a live key: the new key has exactly the old one's content, *)
(* in every store, and its deadline, nothing of what it held before; the   *)
(* old key is gone and no third key changes.                               *)
(***************************************************************************)
RenameMovesKey ==
    [][\A o \in StoredKeys(db) : \A n \in Key \ {o} :
          ~Expired(o) /\ Rename(o, n) =>
             /\ Content(db', n) = Content(db, o)
             /\ Deadline(db', n) = Deadline(db, o)
             /\ o \notin StoredKeys(db') \cup DOMAIN db'.meta_store
             /\ \A x \in Key \ {o, n} : Content(db', x) = Content(db, x)]_vars

(***************************************************************************)
(* The deadline of a live key changes only by a SET or EXPIRE of that key, *)
(* a RENAME onto it, or its removal: pushing to, popping from, editing or  *)
(* reading a key neither prolongs nor drops its TTL.  Nor does any of them *)
(* bring an expired key back, except a write that starts it afresh.        *)
(***************************************************************************)
DeadlineOnlyByOwner ==
    [][\A k \in DOMAIN db.meta_store \cap DOMAIN db'.meta_store :
          \/ Expired(k) /\ Write(k)
          \/ Deadline(db', k) = Deadline(db, k)
          \/ \E v \in Value, ttl \in TTLs \cup {0} : Set(k, v, ttl)
          \/ \E s \in TTLs : Expire(k, s)
          \/ \E o \in Key : Rename(o, k)]_vars
===============================================================================
