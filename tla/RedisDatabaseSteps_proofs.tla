---------------------- MODULE RedisDatabaseSteps_proofs ------------------------
(***************************************************************************)
(* Proofs of what a step of RedisDatabase may not do: RenameMovesKey,      *)
(* EvictsExpiredFirst, DeadlineOnlyByOwner and EvictionSparesBetterKeys,   *)
(* from the invariants of RedisDatabase_proofs; and that nobody can tell   *)
(* that expired keys are still stored, of the two properties that compare  *)
(* the database with Purged(d, t), d without the keys that have expired,   *)
(* which is what an eager expiry would keep: reads answer the same of      *)
(* both, and writes take two databases so related to two that are so       *)
(* related again, with the same reply (LazyExpiryInvisible and             *)
(* LazyUpdatesInvisible).                                                  *)
(***************************************************************************)
EXTENDS RedisDatabase_proofs, WellFoundedInduction

\* What the maps of the database hold of key x: nothing or one entry.
At(f, x) == {f[j] : j \in DOMAIN f \cap {x}}

\* Statistics with the same TTL, set at the same time.
SameTTL(a, b) ==
    /\ a.ttl_initial_seconds = b.ttl_initial_seconds
    /\ a.ttl_set_time = b.ttl_set_time

(***************************************************************************)
(* The keys of metadata m1 outside S were in m, with the TTL they have.    *)
(* In this form the relation is transitive.                                *)
(***************************************************************************)
Follows(m1, m, S) ==
    \A x \in DOMAIN m1 \ S : x \in DOMAIN m /\ SameTTL(m1[x], m[x])

\* How often key k was accessed.
Used(m, k) == IF k \in DOMAIN m THEN m[k].access_count ELSE 0

\* The statistics s of k count at most one access more than metadata m.
Accessed(m, s, t, k) ==
    /\ s \in KeyStats
    /\ s.last_access = t
    /\ s.access_count <= Used(m, k) + 1

(***************************************************************************)
(* Database w is what a write on k makes of d before it evicts.            *)
(***************************************************************************)
Written(d, w, t, k) ==
    /\ DOMAIN w.meta_store = DOMAIN d.meta_store \cup {k}
    /\ Tracks(w)
    /\ \A x \in DOMAIN d.meta_store \ {k} : w.meta_store[x] = d.meta_store[x]
    /\ Accessed(d.meta_store, w.meta_store[k], t, k)
    /\ ~isExpired(w, t, k)

-------------------------------------------------------------------------------
(* TTLs in the metadata.                                                     *)

\* An access leaves every TTL, and a new key gets none.
LEMMA recordAccessTTL ==
    ASSUME NEW m, NEW t \in Nat, Counted(m), NEW k
    PROVE  LET r == recordAccess(m, k, t)
           IN  /\ DOMAIN r = DOMAIN m \cup {k}
               /\ SameTTL(r[k], StatsOf(m, k, t))
               /\ Accessed(m, r[k], t, k)
               /\ \A x \in DOMAIN m \ {k} : r[x] = m[x]
<1> DEFINE r == StatsOf(m, k, t)
           n == r.access_count + 1
           s == [r EXCEPT !.access_count = n, !.last_access = t]
<1>1. r \in KeyStats
  BY DEF StatsOf, Counted, contains, DefaultStats, KeyStats
<1>2. recordAccess(m, k, t) = SetStats(m, k, s)
  BY DEF recordAccess
<1>5. n \in Nat /\ n = Used(m, k) + 1
  BY <1>1 DEF KeyStats, StatsOf, Used, contains, DefaultStats
<1> HIDE DEF n, r
<1>3. SameTTL(s, r)
  BY <1>1, Zenon DEF SameTTL, KeyStats
<1>6. s \in KeyStats /\ s.last_access = t /\ s.access_count = n
  BY <1>1, <1>5, Zenon DEF KeyStats
<1> HIDE DEF s
<1>7. Accessed(m, s, t, k)
  BY <1>5, <1>6 DEF Accessed
<1>4. /\ DOMAIN SetStats(m, k, s) = DOMAIN m \cup {k}
      /\ SetStats(m, k, s)[k] = s
      /\ \A x \in DOMAIN m \ {k} : SetStats(m, k, s)[x] = m[x]
  BY DEF SetStats
<1> QED
  BY <1>2, <1>3, <1>4, <1>7 DEF r

\* The same for a key that has statistics.
LEMMA recordAccessFollows ==
    ASSUME NEW m, NEW t \in Nat, Counted(m), NEW k
    PROVE  /\ Follows(recordAccess(m, k, t), m, {k})
           /\ k \in DOMAIN m => Follows(recordAccess(m, k, t), m, {})
<1>1. k \in DOMAIN m => StatsOf(m, k, t) = m[k]
  BY DEF StatsOf, contains
<1> DEFINE r == recordAccess(m, k, t)
<1>2. /\ DOMAIN r = DOMAIN m \cup {k}
      /\ SameTTL(r[k], StatsOf(m, k, t))
      /\ \A x \in DOMAIN m \ {k} : r[x] = m[x]
  BY recordAccessTTL
<1> HIDE DEF r
<1>3. \A x \in DOMAIN m \ {k} : SameTTL(r[x], m[x])
  BY <1>2 DEF SameTTL
<1>4. Follows(r, m, {k})
  BY <1>2, <1>3 DEF Follows
<1>5. ASSUME k \in DOMAIN m PROVE Follows(r, m, {})
  BY <1>1, <1>2, <1>3, <1>5 DEF Follows
<1> QED
  BY <1>4, <1>5 DEF r

\* setTTL changes the TTL of one key.
LEMMA setTTLSets ==
    ASSUME NEW m, NEW t \in Nat, Counted(m), NEW k \in DOMAIN m, NEW ttl \in Nat
    PROVE  LET r == setTTL(m, k, ttl, t)
           IN  /\ DOMAIN r = DOMAIN m
               /\ r[k].ttl_initial_seconds = ttl /\ r[k].ttl_set_time = t
               /\ r[k] \in KeyStats /\ r[k].last_access = t
               /\ r[k].access_count = m[k].access_count
               /\ \A x \in DOMAIN m \ {k} : r[x] = m[x]
<1> DEFINE r == m[k]
           s == [r EXCEPT !.ttl_initial_seconds = ttl, !.ttl_set_time = t,
                          !.last_access = t]
<1>1. r \in KeyStats
  BY DEF Counted
<1>2. setTTL(m, k, ttl, t) = SetStats(m, k, s)
  BY DEF setTTL, StatsOf, contains
<1> HIDE DEF r
<1>3. s.ttl_initial_seconds = ttl /\ s.ttl_set_time = t
  BY <1>1, Zenon DEF KeyStats
<1>5. s \in KeyStats /\ s.last_access = t /\ s.access_count = r.access_count
  BY <1>1, Zenon DEF KeyStats
<1> HIDE DEF s
<1>4. /\ DOMAIN SetStats(m, k, s) = DOMAIN m
      /\ SetStats(m, k, s)[k] = s
      /\ \A x \in DOMAIN m \ {k} : SetStats(m, k, s)[x] = m[x]
  BY DEF SetStats
<1> QED
  BY <1>2, <1>3, <1>4, <1>5 DEF r

\* A chain of operations excepts the keys that any of them does.
LEMMA FollowsTransitive ==
    ASSUME NEW a, NEW b, NEW c, NEW S, NEW T, Follows(a, b, S), Follows(b, c, T)
    PROVE  Follows(a, c, S \cup T)
BY DEF Follows, SameTTL

\* Metadata left alone.
LEMMA FollowsItself == ASSUME NEW m PROVE Follows(m, m, {})
BY DEF Follows, SameTTL

\* Deleting a key sets no TTL.
LEMMA delInternalFollows ==
    ASSUME NEW d, NEW k
    PROVE  Follows(delInternal(d, k).meta_store, d.meta_store, {})
BY DEF delInternal, removeKey, Restrict, Follows, SameTTL

\* Nor does dropping the expired key.
LEMMA DropExpiredFollows ==
    ASSUME NEW d, NEW t, NEW k
    PROVE  Follows(DropExpired(d, t, k).meta_store, d.meta_store, {})
BY delInternalFollows, FollowsItself DEF DropExpired

\* Nor does an eviction.
LEMMA checkAndEvictFollows ==
    ASSUME NEW d, NEW t, NEW e \in checkAndEvict(d, t)
    PROVE  Follows(e.meta_store, d.meta_store, {})
BY delInternalFollows, FollowsItself DEF checkAndEvict

\* Touch in terms of the metadata.
LEMMA TouchMeta ==
    ASSUME NEW d, IsRecord(d), NEW t, NEW k
    PROVE  Touch(d, t, k) = [kv_store |-> d.kv_store, list_store |-> d.list_store,
                             hash_store |-> d.hash_store,
                             meta_store |-> recordAccess(d.meta_store, k, t)]
BY DEF Touch, IsRecord

\* Two statistics with the same TTL expire together.
LEMMA SameTTLExpires ==
    ASSUME NEW a, NEW b, NEW t, SameTTL(a, b)
    PROVE  HasExpired(a, t) <=> HasExpired(b, t)
BY DEF SameTTL, HasExpired, getTTLRemaining

-------------------------------------------------------------------------------
(* A write before its eviction.                                              *)

(***************************************************************************)
(* What the writes share: from d1, which is d without k if k has expired,  *)
(* to p, which has an entry for k in some store, and then the access.  A   *)
(* key that had not expired keeps its TTL; any other starts without one.   *)
(***************************************************************************)
LEMMA TouchWritten ==
    ASSUME NEW d, NEW t \in Nat, Good(d, t), Full(d), NEW k \in Key, NEW p,
           IsRecord(p), p.meta_store = DropExpired(d, t, k).meta_store,
           StoredKeys(p) = StoredKeys(DropExpired(d, t, k)) \cup {k}
    PROVE  /\ Written(d, Touch(p, t, k), t, k)
           /\ k \in DOMAIN d.meta_store /\ ~isExpired(d, t, k) =>
                 Follows(Touch(p, t, k).meta_store, d.meta_store, {})
           /\ Follows(Touch(p, t, k).meta_store, d.meta_store, {k})
           /\ Counted(Touch(p, t, k).meta_store)
<1> DEFINE d1 == DropExpired(d, t, k)
           m == p.meta_store
           w == Touch(p, t, k)
           r == recordAccess(m, k, t)
<1>1. Good(d1, t) /\ Full(d1) /\ Tracks(d1)
  BY DropExpiredGood, DropExpiredFull DEF Good
<1>2. Counted(m) /\ DOMAIN m = StoredKeys(d1)
  BY <1>1, FullParts DEF Tracks
<1>3. DOMAIN m \cup {k} = DOMAIN d.meta_store \cup {k}
  BY DEF DropExpired, delInternal, removeKey, Restrict
<1>4. \A x \in DOMAIN m : x \in DOMAIN d.meta_store /\ m[x] = d.meta_store[x]
  BY DEF DropExpired, delInternal, removeKey, Restrict
<1>5. k \in DOMAIN m => ~isExpired(d, t, k)
  BY <1>2 DEF DropExpired, delInternal, StoredKeys, Erase, Restrict
<1>6. /\ DOMAIN r = DOMAIN m \cup {k}
      /\ SameTTL(r[k], StatsOf(m, k, t))
      /\ Accessed(m, r[k], t, k)
      /\ \A x \in DOMAIN m \ {k} : r[x] = m[x]
  BY <1>2, recordAccessTTL
<1>7. /\ w.meta_store = r
      /\ StoredKeys(w) = StoredKeys(p)
  BY TouchMeta DEF StoredKeys
<1>8. Counted(r)
  BY <1>2, recordAccessCounted
<1>9. Follows(m, d.meta_store, {})
  BY <1>4 DEF Follows, SameTTL
<1>10. /\ Follows(r, m, {k})
       /\ k \in DOMAIN m => Follows(r, m, {})
  BY <1>2, recordAccessFollows
<1>11. ASSUME k \in DOMAIN d.meta_store, ~isExpired(d, t, k)
       PROVE  k \in DOMAIN m
  BY <1>11 DEF DropExpired
<1>12. ~HasExpired(r[k], t)
  <2>1. SameTTL(r[k], StatsOf(m, k, t))
    BY <1>6
  <2>2. CASE k \in DOMAIN m
    <3>1. StatsOf(m, k, t) = d.meta_store[k]
      BY <1>4, <2>2 DEF StatsOf, contains
    <3>2. ~HasExpired(d.meta_store[k], t)
      BY <1>4, <1>5, <2>2 DEF isExpired, contains
    <3> QED
      BY <2>1, <3>1, <3>2, SameTTLExpires
  <2>3. CASE k \notin DOMAIN m
    <3>1. StatsOf(m, k, t).ttl_initial_seconds = 0
      BY <2>3 DEF StatsOf, contains, DefaultStats
    <3>2. ~HasExpired(StatsOf(m, k, t), t)
      BY <3>1 DEF HasExpired
    <3> QED
      BY <2>1, <3>2, SameTTLExpires
  <2> QED
    BY <2>2, <2>3
<1>17. Counted(d.meta_store)
  BY FullParts
<1>18. Used(m, k) <= Used(d.meta_store, k)
  BY <1>4, <1>17 DEF Used, Counted, KeyStats
<1>19. Used(m, k) \in Nat /\ Used(d.meta_store, k) \in Nat
  BY <1>2, <1>17 DEF Used, Counted, KeyStats
<1> HIDE DEF d1, m, w, r
<1>20. Accessed(d.meta_store, r[k], t, k)
  BY <1>6, <1>18, <1>19 DEF Accessed, KeyStats
<1>13. \A x \in DOMAIN d.meta_store \ {k} : r[x] = d.meta_store[x]
  BY <1>3, <1>4, <1>6
<1>14. Written(d, w, t, k)
  BY <1>2, <1>3, <1>6, <1>7, <1>12, <1>13, <1>20
     DEF Written, Tracks, isExpired, d1
<1>15. Follows(r, d.meta_store, {k})
  <2>1. Follows(r, d.meta_store, {k} \cup {})
    BY <1>9, <1>10, FollowsTransitive
  <2> QED
    BY <2>1
<1>16. ASSUME k \in DOMAIN m PROVE Follows(r, d.meta_store, {})
  <2>1. Follows(r, d.meta_store, {} \cup {})
    BY <1>9, <1>10, <1>16, FollowsTransitive
  <2> QED
    BY <2>1
<1> QED
  BY <1>7, <1>8, <1>11, <1>14, <1>15, <1>16 DEF w

\* set, up to its eviction.
LEMMA setWritten ==
    ASSUME NEW d, NEW t \in Nat, Good(d, t), Full(d), NEW k \in Key, NEW v,
           NEW ttl \in Nat, NEW e \in set(d, t, k, v, ttl)
    PROVE  \E w : /\ Written(d, w, t, k)
                  /\ Follows(w.meta_store, d.meta_store, {k})
                  /\ e \in checkAndEvict(w, t)
<1> DEFINE d1 == DropExpired(d, t, k)
           q == Put(d1.kv_store, k, v)
           p == [d1 EXCEPT !.kv_store = q]
           d2 == Touch(p, t, k)
           m == setTTL(d2.meta_store, k, ttl, t)
           d3 == [d2 EXCEPT !.meta_store = m]
<1>1. e \in checkAndEvict(d3, t)
  BY DEF set
<1>2. Full(d1)
  BY DropExpiredFull
<1>3. DOMAIN q = DOMAIN d1.kv_store \cup {k}
  BY DEF Put
<1> HIDE DEF d1, q
<1>4. p = [kv_store |-> q, list_store |-> d1.list_store,
           hash_store |-> d1.hash_store, meta_store |-> d1.meta_store]
  BY <1>2, FullParts
<1> HIDE DEF p
<1>5. /\ IsRecord(p)
      /\ p.meta_store = d1.meta_store
      /\ StoredKeys(p) = StoredKeys(d1) \cup {k}
  BY <1>3, <1>4 DEF IsRecord, StoredKeys
<1>6. /\ Written(d, d2, t, k)
      /\ Follows(d2.meta_store, d.meta_store, {k})
      /\ Counted(d2.meta_store)
  BY <1>5, TouchWritten DEF d1
<1>7. d2 = [kv_store |-> d2.kv_store, list_store |-> d2.list_store,
            hash_store |-> d2.hash_store, meta_store |-> d2.meta_store]
  BY <1>5, TouchMeta
<1> HIDE DEF d2
<1>8. k \in DOMAIN d2.meta_store
  BY <1>6 DEF Written
<1>9. /\ DOMAIN m = DOMAIN d2.meta_store
      /\ m[k].ttl_initial_seconds = ttl /\ m[k].ttl_set_time = t
      /\ m[k] \in KeyStats /\ m[k].last_access = t
      /\ m[k].access_count = d2.meta_store[k].access_count
      /\ \A x \in DOMAIN d2.meta_store \ {k} : m[x] = d2.meta_store[x]
  BY <1>6, <1>8, setTTLSets
<1> HIDE DEF m
<1>10. d3 = [kv_store |-> d2.kv_store, list_store |-> d2.list_store,
             hash_store |-> d2.hash_store, meta_store |-> m]
  BY <1>7
<1> HIDE DEF d3
<1>11. ~isExpired(d3, t, k)
  BY <1>9, <1>10 DEF isExpired, HasExpired, getTTLRemaining
<1>14. Accessed(d.meta_store, m[k], t, k)
  BY <1>6, <1>9 DEF Written, Accessed
<1>12. Written(d, d3, t, k)
  BY <1>6, <1>9, <1>10, <1>11, <1>14 DEF Written, Tracks, StoredKeys
<1>13. Follows(d3.meta_store, d.meta_store, {k})
  BY <1>6, <1>9, <1>10 DEF Follows
<1> QED
  BY <1>1, <1>12, <1>13

\* The writes on lists and hashes, up to their eviction.
Edited(d, e, t, k) ==
    \E w : /\ Written(d, w, t, k)
           /\ k \in DOMAIN d.meta_store /\ ~isExpired(d, t, k) =>
                 Follows(w.meta_store, d.meta_store, {})
           /\ Follows(w.meta_store, d.meta_store, {k})
           /\ e \in checkAndEvict(w, t)

\* A push.
LEMMA pushWritten ==
    ASSUME NEW d, NEW t \in Nat, Good(d, t), Full(d), NEW k \in Key, NEW v,
           NEW e \in lpush(d, t, k, v) \cup rpush(d, t, k, v)
    PROVE  Edited(d, e, t, k)
<1> DEFINE d1 == DropExpired(d, t, k)
<1>1. PICK l : e \in StoreList(d1, t, k, l)
  BY DEF lpush, rpush
<1> DEFINE q == Put(d1.list_store, k, l)
           p == [d1 EXCEPT !.list_store = q]
<1>2. e \in checkAndEvict(Touch(p, t, k), t)
  BY <1>1 DEF StoreList
<1>3. Full(d1) /\ DOMAIN q = DOMAIN d1.list_store \cup {k}
  BY DropExpiredFull DEF Put
<1> HIDE DEF d1, q
<1>4. p = [kv_store |-> d1.kv_store, list_store |-> q,
           hash_store |-> d1.hash_store, meta_store |-> d1.meta_store]
  BY <1>3, FullParts
<1> HIDE DEF p
<1>5. /\ IsRecord(p)
      /\ p.meta_store = d1.meta_store
      /\ StoredKeys(p) = StoredKeys(d1) \cup {k}
  BY <1>3, <1>4 DEF IsRecord, StoredKeys
<1> QED
  BY <1>2, <1>5, TouchWritten DEF Edited, d1

\* HSET and HMSET.
LEMMA hmsetWritten ==
    ASSUME NEW d, NEW t \in Nat, Good(d, t), Full(d), NEW k \in Key, NEW fv,
           NEW e \in hmset(d, t, k, fv)
    PROVE  Edited(d, e, t, k)
<1> DEFINE d1 == DropExpired(d, t, k)
           h == Overlay(fv, HashAt(d1.hash_store, k))
           q == Put(d1.hash_store, k, h)
           p == [d1 EXCEPT !.hash_store = q]
<1>2. e \in checkAndEvict(Touch(p, t, k), t)
  BY DEF hmset
<1>3. Full(d1) /\ DOMAIN q = DOMAIN d1.hash_store \cup {k}
  BY DropExpiredFull DEF Put
<1> HIDE DEF d1, q
<1>4. p = [kv_store |-> d1.kv_store, list_store |-> d1.list_store,
           hash_store |-> q, meta_store |-> d1.meta_store]
  BY <1>3, FullParts
<1> HIDE DEF p
<1>5. /\ IsRecord(p)
      /\ p.meta_store = d1.meta_store
      /\ StoredKeys(p) = StoredKeys(d1) \cup {k}
  BY <1>3, <1>4 DEF IsRecord, StoredKeys
<1> QED
  BY <1>2, <1>5, TouchWritten DEF Edited, d1

-------------------------------------------------------------------------------
(* Eviction.                                                                 *)

(***************************************************************************)
(* checkAndEvict removes either an expired key of w, which is not the one  *)
(* just written, or, when w has none, some other key.                      *)
(***************************************************************************)
LEMMA EvictionTakesExpired ==
    ASSUME EmptyKey \notin Key, NEW d, NEW w, NEW t, NEW k \in Key,
           DOMAIN d.meta_store \subseteq Key, Written(d, w, t, k),
           NEW e \in checkAndEvict(w, t),
           NEW x \in (DOMAIN d.meta_store \cup {k}) \ DOMAIN e.meta_store,
           x = k \/ ~isExpired(d, t, x)
    PROVE  \A j \in DOMAIN e.meta_store : ~isExpired(e, t, j)
<1> DEFINE expired == {j \in DOMAIN w.meta_store : HasExpired(w.meta_store[j], t)}
<1>1. PICK y \in KeysToEvict(w, t) : e = delInternal(w, y)
  BY DEF checkAndEvict, Written
<1>2. \A j \in DOMAIN e.meta_store :
         j \in DOMAIN w.meta_store /\ e.meta_store[j] = w.meta_store[j]
  BY <1>1 DEF delInternal, removeKey, Restrict
<1>3. CASE expired = {}
  BY <1>2, <1>3 DEF isExpired, contains
<1>4. CASE expired # {}
  <2>1. evictCandidate(w.meta_store, t) = expired
    BY <1>4 DEF evictCandidate
  <2>2. EmptyKey \notin expired
    BY DEF Written
  <2>3. y \in expired
    BY <1>4, <2>1, <2>2 DEF KeysToEvict
  <2>4. \A j \in DOMAIN w.meta_store \ {y} : j \in DOMAIN e.meta_store
    BY <1>1 DEF delInternal, removeKey, Restrict
  <2>5. x = y
    BY <2>4 DEF Written
  <2>6. isExpired(w, t, x)
    BY <2>3, <2>5 DEF isExpired, contains
  <2>7. x # k /\ x \in DOMAIN d.meta_store /\ w.meta_store[x] = d.meta_store[x]
    BY <2>6 DEF Written
  <2>8. isExpired(d, t, x)
    BY <2>6, <2>7 DEF isExpired, contains
  <2> QED
    BY <2>7, <2>8
<1> QED
  BY <1>3, <1>4

\* Every write is one that ends in an eviction.
LEMMA WriteIsWritten ==
    ASSUME IInv, Full(db), NEW k \in Key, Write(k)
    PROVE  \E w : Written(db, w, now, k) /\ db' \in checkAndEvict(w, now)
<1>1. Good(db, now) /\ now \in Nat /\ TTLs \cup {0} \subseteq Nat
  BY IInvGood, DatabaseAssumption
<1>2. ASSUME NEW v \in Value, NEW ttl \in TTLs \cup {0}, Set(k, v, ttl)
      PROVE  \E w : Written(db, w, now, k) /\ db' \in checkAndEvict(w, now)
  <2>1. db' \in set(db, now, k, v, ttl)
    BY <1>2 DEF Set, Becomes
  <2>2. ttl \in Nat
    BY <1>1
  <2>3. \E w : /\ Written(db, w, now, k)
               /\ Follows(w.meta_store, db.meta_store, {k})
               /\ db' \in checkAndEvict(w, now)
    BY <1>1, <2>1, <2>2, setWritten
  <2> QED
    BY <2>3
<1>3. ASSUME NEW v \in Value, LPush(k, v) \/ RPush(k, v)
      PROVE  \E w : Written(db, w, now, k) /\ db' \in checkAndEvict(w, now)
  <2>1. db' \in lpush(db, now, k, v) \cup rpush(db, now, k, v)
    BY <1>3 DEF LPush, RPush, Becomes
  <2> QED
    BY <1>1, <2>1, pushWritten DEF Edited
<1>4. ASSUME NEW fv, db' \in hmset(db, now, k, fv)
      PROVE  \E w : Written(db, w, now, k) /\ db' \in checkAndEvict(w, now)
  BY <1>1, <1>4, hmsetWritten DEF Edited
<1>5. ASSUME NEW f \in Field, NEW v \in Value, HSet(k, f, v)
      PROVE  \E w : Written(db, w, now, k) /\ db' \in checkAndEvict(w, now)
  BY <1>4, <1>5 DEF HSet, hset, Becomes
<1>6. ASSUME NEW fv \in FieldValues, HMSet(k, fv)
      PROVE  \E w : Written(db, w, now, k) /\ db' \in checkAndEvict(w, now)
  BY <1>4, <1>6 DEF HMSet, Becomes
<1> QED
  BY <1>2, <1>3, <1>5, <1>6 DEF Write

(***************************************************************************)
(* A write never evicts a live key, nor the key it wrote, while a key that *)
(* has expired stays stored, for any number of keys and any scores, unless *)
(* the empty string is a key: evictCandidate returns it for "none".        *)
(***************************************************************************)
THEOREM ExpiredEvictedFirst ==
    ASSUME EmptyKey \notin Key
    PROVE  Spec => EvictsExpiredFirst
<1> DEFINE A == \A k \in Key : Write(k) /\ Evicted(k) # {} =>
                   \A j \in DOMAIN db'.meta_store : ~isExpired(db', now, j)
<1>1. ASSUME IInv, Full(db) PROVE A
  <2>1. SUFFICES ASSUME NEW k \in Key, Write(k), NEW x \in Evicted(k)
                 PROVE  \A j \in DOMAIN db'.meta_store : ~isExpired(db', now, j)
    OBVIOUS
  <2>2. PICK w : Written(db, w, now, k) /\ db' \in checkAndEvict(w, now)
    BY <1>1, <2>1, WriteIsWritten
  <2>3. DOMAIN db.meta_store \subseteq Key
    BY <1>1, IInvGood DEF Good, Typed, IsDatabase, IsMap
  <2>4. /\ x \in (DOMAIN db.meta_store \cup {k}) \ DOMAIN db'.meta_store
        /\ x = k \/ ~isExpired(db, now, x)
    BY <2>1 DEF Evicted, Expired
  <2> QED
    BY <2>2, <2>3, <2>4, EvictionTakesExpired
<1>2. IInv /\ Full(db) /\ [Next]_vars => [A]_vars
  BY <1>1
<1> HIDE DEF A
<1>3. Spec => [][A]_vars
  BY <1>2, AlwaysFull, PTL DEF Spec
<1> QED
  BY <1>3 DEF EvictsExpiredFirst, A

(***************************************************************************)
(* The access counts at which Log1p is defined: MaxAccess between two      *)
(* operations, and one more between a write and its eviction.              *)
(***************************************************************************)
CountsBounded(m) == \A k \in DOMAIN m : m[k].access_count <= MaxAccess

\* Statistics whose score is defined.
Scored(s, t) ==
    /\ s \in KeyStats
    /\ s.last_access <= t
    /\ s.access_count <= MaxAccess + 1

\* Both quotients of the score are natural numbers, and the less the later.
LEMMA Quotient ==
    ASSUME NEW u \in Nat, NEW a \in Nat \ {0}, NEW b \in Nat, a <= b
    PROVE  /\ u \div a \in Nat
           /\ u \div b <= u \div a
OBVIOUS

\* So is the score.
LEMMA ScoreType ==
    ASSUME NEW t \in Nat, NEW s, Scored(s, t)
    PROVE  Score(s, t) \in Nat
<1> DEFINE age == 1 + (t - s.last_access)
           left == getTTLRemaining(s, t)
<1>1. age \in Nat \ {0} /\ Unit \in Nat
  BY DEF Scored, KeyStats, Unit
<1>2. left \in Nat /\ s.ttl_initial_seconds \in Nat
  BY DEF Scored, KeyStats, getTTLRemaining
<1>3. Log1p[s.access_count] \in Nat
  BY Log1pAssumption DEF Scored, KeyStats
<1>4. Unit \div age \in Nat
  BY <1>1, Quotient, SMTT(30)
<1>5. Unit * left \in Nat
  BY <1>1, <1>2
<1>6. s.ttl_initial_seconds > 0 => (Unit * left) \div s.ttl_initial_seconds \in Nat
  BY <1>2, <1>5, Quotient
<1> HIDE DEF age, left
<1> DEFINE recency == Unit \div age
           frequency == Log1p[s.access_count]
           ttl == IF s.ttl_initial_seconds > 0
                  THEN (Unit * left) \div s.ttl_initial_seconds ELSE 0
<1>7. recency \in Nat /\ frequency \in Nat /\ ttl \in Nat
  BY <1>3, <1>4, <1>6
<1>8. Score(s, t) = ALPHA * recency + BETA * frequency + GAMMA * ttl
  BY DEF Score, age, left
<1> HIDE DEF recency, frequency, ttl
<1> QED
  BY <1>7, <1>8 DEF ALPHA, BETA, GAMMA

\* Without TTLs, later use and more of it raise the score.
LEMMA BetterScores ==
    ASSUME NEW t \in Nat, NEW a, NEW b, Scored(a, t), Scored(b, t),
           a.ttl_initial_seconds = 0, b.ttl_initial_seconds = 0,
           a.last_access >= b.last_access, a.access_count > b.access_count
    PROVE  Score(a, t) > Score(b, t)
<1> DEFINE p == 1 + (t - a.last_access)
           q == 1 + (t - b.last_access)
<1>1. p \in Nat \ {0} /\ q \in Nat \ {0} /\ p <= q /\ Unit \in Nat
  BY DEF Scored, KeyStats, Unit
<1> HIDE DEF p, q
<1> DEFINE ra == Unit \div p
           rb == Unit \div q
           fa == Log1p[a.access_count]
           fb == Log1p[b.access_count]
<1>2. ra \in Nat /\ rb \in Nat /\ rb <= ra
  <2>1. Unit \div p \in Nat /\ Unit \div q <= Unit \div p
    BY <1>1, Quotient
  <2>2. Unit \div q \in Nat
    BY <1>1, Quotient
  <2> QED
    BY <2>1, <2>2
<1>3. fa \in Nat /\ fb \in Nat /\ fb < fa
  BY Log1pAssumption DEF Scored, KeyStats
<1>4. Score(a, t) = ALPHA * ra + BETA * fa + GAMMA * 0
  BY DEF Score, p
<1>5. Score(b, t) = ALPHA * rb + BETA * fb + GAMMA * 0
  BY DEF Score, q
<1> HIDE DEF ra, rb, fa, fb
<1> QED
  BY <1>2, <1>3, <1>4, <1>5 DEF ALPHA, BETA, GAMMA

\* A non-empty metadata has a lowest score, so evictCandidate finds a key.
LEMMA CandidateExists ==
    ASSUME NEW t \in Nat, NEW m, \A k \in DOMAIN m : Scored(m[k], t),
           DOMAIN m # {}
    PROVE  evictCandidate(m, t) # {}
<1> DEFINE scores == {Score(m[k], t) : k \in DOMAIN m}
<1>1. scores \subseteq Nat /\ scores # {}
  BY ScoreType
<1> HIDE DEF scores
<1>2. PICK least \in scores : \A y \in scores : ~ (<<y, least>> \in OpToRel(<, Nat))
  BY <1>1, NatLessThanWellFounded, WFMin
<1>3. ASSUME NEW y \in scores PROVE least <= y
  <2>1. y \in Nat /\ least \in Nat
    BY <1>1
  <2>2. ~(y < least)
    BY <1>2, <2>1 DEF OpToRel
  <2> QED
    BY <2>1, <2>2
<1>4. PICK k \in DOMAIN m : least = Score(m[k], t)
  BY DEF scores
<1>5. \A j \in DOMAIN m : Score(m[k], t) <= Score(m[j], t)
  BY <1>3, <1>4 DEF scores
<1> QED
  BY <1>5 DEF evictCandidate

\* The statistics that a write leaves all have a score.
LEMMA WrittenScored ==
    ASSUME NEW d, NEW w, NEW t \in Nat, NEW k \in Key, Good(d, t), Full(d),
           CountsBounded(d.meta_store), Written(d, w, t, k)
    PROVE  \A j \in DOMAIN w.meta_store : Scored(w.meta_store[j], t)
<1>1. MaxAccess \in Nat
  BY Log1pAssumption
<1>2. ASSUME NEW j \in DOMAIN d.meta_store
      PROVE  /\ d.meta_store[j] \in KeyStats
             /\ d.meta_store[j].last_access <= t
             /\ d.meta_store[j].access_count <= MaxAccess
  BY FullParts DEF Good, Typed, TypedMeta, Counted, CountsBounded
<1>3. \A j \in DOMAIN d.meta_store \ {k} : Scored(w.meta_store[j], t)
  BY <1>1, <1>2 DEF Written, Scored, KeyStats
<1>4. Used(d.meta_store, k) <= MaxAccess /\ Used(d.meta_store, k) \in Nat
  BY <1>1, <1>2 DEF Used, KeyStats
<1>5. Scored(w.meta_store[k], t)
  BY <1>1, <1>4 DEF Written, Accessed, Scored, KeyStats
<1> QED
  BY <1>3, <1>5 DEF Written

\* The bound on the access counts is an invariant: every operation keeps it.
LEMMA AlwaysBounded == Spec => []CountsBounded(db.meta_store)
<1>1. Init => CountsBounded(db.meta_store)
  BY DEF Init, EmptyDatabase, EmptyMap, CountsBounded
<1>2. CountsBounded(db.meta_store) /\ [Next]_vars => CountsBounded(db.meta_store)'
  <2>1. ASSUME NEW d, Becomes(d) PROVE CountsBounded(db.meta_store)'
    BY <2>1 DEF Becomes, WithinBounds, CountsBounded
  <2>2. ASSUME NEW k \in Key, KeyStep(k) PROVE \E d : Becomes(d)
    BY <2>2 DEF KeyStep, Set, Get, Type, Del, Expire, Rename
  <2>3. ASSUME NEW k \in Key, ListStep(k) PROVE \E d : Becomes(d)
    BY <2>3 DEF ListStep, LGet, LLen, LPush, RPush, RPop, LPop, LRem, LIndex, LSet
  <2>4. ASSUME NEW k \in Key, HashStep(k) PROVE \E d : Becomes(d)
    BY <2>4 DEF HashStep, HSet, HGet, HExists, HDel, HGetAll, HKeys, HVals,
                HLen, HMSet
  <2>5. ASSUME FlushAll \/ Keys PROVE \E d : Becomes(d)
    BY <2>5 DEF FlushAll, Keys
  <2>6. ASSUME CountsBounded(db.meta_store), Tick \/ UNCHANGED vars
        PROVE  CountsBounded(db.meta_store)'
    BY <2>6 DEF Tick, vars, CountsBounded
  <2> QED
    BY <2>1, <2>2, <2>3, <2>4, <2>5, <2>6 DEF Next
<1> QED
  BY <1>1, <1>2, PTL DEF Spec

(***************************************************************************)
(* The key a write evicts is never one that was used later and more often  *)
(* than a key that stays, when neither has a TTL: whatever Log1p, as long  *)
(* as it grows, and again unless the empty string is a key.                *)
(***************************************************************************)
THEOREM BetterKeysSpared ==
    ASSUME EmptyKey \notin Key
    PROVE  Spec => EvictionSparesBetterKeys
<1> DEFINE A == \A k \in Key : Write(k) =>
                   \A x \in Evicted(k) \ {k}, y \in DOMAIN db'.meta_store :
                      LET a == db.meta_store[x]
                          b == db'.meta_store[y]
                      IN  ~ /\ a.ttl_initial_seconds = 0 /\ b.ttl_initial_seconds = 0
                            /\ a.last_access >= b.last_access
                            /\ a.access_count > b.access_count
<1>1. ASSUME IInv, Full(db), CountsBounded(db.meta_store) PROVE A
  <2>1. SUFFICES ASSUME NEW k \in Key, Write(k), NEW x \in Evicted(k) \ {k},
                        NEW y \in DOMAIN db'.meta_store,
                        db.meta_store[x].ttl_initial_seconds = 0,
                        db'.meta_store[y].ttl_initial_seconds = 0,
                        db.meta_store[x].last_access >= db'.meta_store[y].last_access,
                        db.meta_store[x].access_count > db'.meta_store[y].access_count
                 PROVE  FALSE
    OBVIOUS
  <2>2. PICK w : Written(db, w, now, k) /\ db' \in checkAndEvict(w, now)
    BY <1>1, <2>1, WriteIsWritten
  <2>3. Good(db, now) /\ now \in Nat /\ DOMAIN db.meta_store \subseteq Key
    BY <1>1, IInvGood DEF Good, Typed, IsDatabase, IsMap
  <2>4. /\ x \in DOMAIN db.meta_store \ DOMAIN db'.meta_store
        /\ x # k /\ ~isExpired(db, now, x)
    BY <2>1 DEF Evicted, Expired
  <2>5. \A j \in DOMAIN w.meta_store : Scored(w.meta_store[j], now)
    BY <1>1, <2>2, <2>3, WrittenScored
  <2>6. /\ x \in DOMAIN w.meta_store /\ w.meta_store[x] = db.meta_store[x]
        /\ EmptyKey \notin DOMAIN w.meta_store
    BY <2>2, <2>3, <2>4 DEF Written
  <2>7. PICK z \in KeysToEvict(w, now) : db' = delInternal(w, z)
    BY <2>2, <2>4, <2>6 DEF checkAndEvict
  <2>8. /\ \A j \in DOMAIN w.meta_store \ {z} : j \in DOMAIN db'.meta_store
        /\ \A j \in DOMAIN db'.meta_store :
              j \in DOMAIN w.meta_store /\ db'.meta_store[j] = w.meta_store[j]
    BY <2>7 DEF delInternal, removeKey, Restrict
  <2>9. z = x
    BY <2>4, <2>6, <2>8
  <2>10. evictCandidate(w.meta_store, now) # {}
    BY <2>3, <2>5, <2>6, CandidateExists
  <2>11. EmptyKey \notin evictCandidate(w.meta_store, now)
    BY <2>6 DEF evictCandidate
  <2>12. x \in evictCandidate(w.meta_store, now)
    BY <2>7, <2>9, <2>10, <2>11 DEF KeysToEvict
  <2>13. ~HasExpired(w.meta_store[x], now)
    BY <2>4, <2>6 DEF isExpired, contains
  <2>14. Score(w.meta_store[x], now) <= Score(w.meta_store[y], now)
    BY <2>8, <2>12, <2>13 DEF evictCandidate
  <2>15. y \in DOMAIN w.meta_store /\ w.meta_store[y] = db'.meta_store[y]
    BY <2>8
  <2>16. Score(w.meta_store[x], now) > Score(w.meta_store[y], now)
    BY <2>1, <2>3, <2>5, <2>6, <2>15, BetterScores
  <2>17. Score(w.meta_store[x], now) \in Nat /\ Score(w.meta_store[y], now) \in Nat
    BY <2>3, <2>5, <2>6, <2>15, ScoreType
  <2> QED
    BY <2>14, <2>16, <2>17
<1>2. IInv /\ Full(db) /\ CountsBounded(db.meta_store) /\ [Next]_vars => [A]_vars
  BY <1>1
<1> HIDE DEF A
<1>3. Spec => [][A]_vars
  BY <1>2, AlwaysFull, AlwaysBounded, PTL DEF Spec
<1> QED
  BY <1>3 DEF EvictionSparesBetterKeys, A

-------------------------------------------------------------------------------
(* RENAME.                                                                   *)

\* An entry moved to a key that has none.
LEMMA MoveEntryAt ==
    ASSUME NEW f, NEW o, NEW n, n # o, n \notin DOMAIN f
    PROVE  LET g == MoveEntry(f, o, n)
           IN  /\ At(g, n) = At(f, o)
               /\ \A x : x \notin {o, n} => At(g, x) = At(f, x)
<1> DEFINE g == MoveEntry(f, o, n)
<1>1. CASE o \in DOMAIN f
  <2>1. /\ DOMAIN g = (DOMAIN f \cup {n}) \ {o}
        /\ g[n] = f[o]
        /\ \A x \in DOMAIN f \ {o} : g[x] = f[x]
    BY <1>1 DEF MoveEntry, Put, Erase, Restrict
  <2> HIDE DEF g
  <2>2. At(g, n) = {f[o]} /\ At(f, o) = {f[o]}
    BY <1>1, <2>1 DEF At
  <2>3. ASSUME NEW x, x \notin {o, n}
        PROVE  At(g, x) = At(f, x)
    BY <2>1, <2>3 DEF At
  <2> QED
    BY <2>2, <2>3 DEF g
<1>2. CASE o \notin DOMAIN f
  <2>1. g = f /\ At(f, o) = {} /\ At(f, n) = {}
    BY <1>2 DEF MoveEntry, At
  <2> QED
    BY <2>1
<1> QED
  BY <1>1, <1>2

\* Deleting a key leaves the others' entries.
LEMMA delInternalAt ==
    ASSUME NEW d, NEW n, NEW x, x # n
    PROVE  LET e == delInternal(d, n)
           IN  /\ At(e.kv_store, x) = At(d.kv_store, x)
               /\ At(e.list_store, x) = At(d.list_store, x)
               /\ At(e.hash_store, x) = At(d.hash_store, x)
BY DEF delInternal, Erase, Restrict, At

\* Content in terms of At.
LEMMA ContentAt ==
    ASSUME NEW d, NEW x
    PROVE  Content(d, x) = <<At(d.kv_store, x), At(d.list_store, x), At(d.hash_store, x)>>
BY DEF Content, At

\* A RENAME of a live key to another name.
LEMMA renameMoves ==
    ASSUME NEW d, NEW t \in Nat, Good(d, t), Full(d), NEW o \in StoredKeys(d),
           NEW n \in Key, n # o, ~isExpired(d, t, o)
    PROVE  LET e == rename(d, t, o, n).db
           IN  /\ Content(e, n) = Content(d, o)
               /\ Deadline(e, n) = Deadline(d, o)
               /\ o \notin StoredKeys(e) \cup DOMAIN e.meta_store
               /\ \A x \in Key \ {o, n} : Content(e, x) = Content(d, x)
<1> DEFINE d1 == IF n \in StoredKeys(d) THEN delInternal(d, n) ELSE d
           meta == removeKey(d1.meta_store, o)
           hadStats == contains(d1.meta_store, o)
                         /\ d1.meta_store[o].access_count > 0
           fresh == recordAccess(meta, n, t)
           carried == IF hadStats THEN SetStats(fresh, n, d1.meta_store[o])
                                  ELSE fresh
           found == o \in StoredKeys(d1)
           e == [kv_store |-> MoveEntry(d1.kv_store, o, n),
                 list_store |-> MoveEntry(d1.list_store, o, n),
                 hash_store |-> MoveEntry(d1.hash_store, o, n),
                 meta_store |-> IF found THEN recordAccess(carried, n, t)
                                         ELSE meta]
<1>1. rename(d, t, o, n).db = e
  BY DEF rename
<1>2. Good(d1, t) /\ Full(d1)
  BY delInternalGood, delInternalFull
<1>3. n \notin StoredKeys(d1) /\ o \in StoredKeys(d1)
  BY DEF delInternal, Erase, Restrict, StoredKeys
<1>4. ASSUME NEW x, x # n
      PROVE  /\ At(d1.kv_store, x) = At(d.kv_store, x)
             /\ At(d1.list_store, x) = At(d.list_store, x)
             /\ At(d1.hash_store, x) = At(d.hash_store, x)
  BY <1>4, delInternalAt
<1>5. d1.meta_store[o] = d.meta_store[o]
  <2>1. o \in DOMAIN d.meta_store
    BY DEF Good, Tracks
  <2> QED
    BY <2>1 DEF delInternal, removeKey, Restrict
<1> HIDE DEF d1
<1>6. /\ o \in DOMAIN d1.meta_store
      /\ Counted(d1.meta_store)
  BY <1>2, <1>3, FullParts DEF Good, Tracks
<1>7. hadStats
  BY <1>6 DEF Counted, contains
<1>8. Counted(meta) /\ o \notin DOMAIN meta
  BY <1>6 DEF Counted, removeKey, Restrict
<1> HIDE DEF meta
<1>9. Counted(fresh) /\ DOMAIN fresh = DOMAIN meta \cup {n}
  BY <1>8, recordAccessCounted, recordAccessTTL
<1> HIDE DEF fresh
<1>10. /\ carried[n] = d1.meta_store[o]
       /\ DOMAIN carried = DOMAIN meta \cup {n}
       /\ Counted(carried)
  BY <1>6, <1>7, <1>9 DEF Counted, SetStats
<1> HIDE DEF carried, hadStats
<1>11. /\ e.meta_store = recordAccess(carried, n, t)
       /\ DOMAIN recordAccess(carried, n, t) = DOMAIN meta \cup {n}
       /\ SameTTL(recordAccess(carried, n, t)[n], d.meta_store[o])
  <2>1. e.meta_store = recordAccess(carried, n, t)
    BY <1>3
  <2> DEFINE r == recordAccess(carried, n, t)
  <2>2. /\ DOMAIN r = DOMAIN carried \cup {n}
        /\ SameTTL(r[n], StatsOf(carried, n, t))
    <3>1. Counted(carried)
      BY <1>10
    <3> HIDE DEF e
    <3> QED
      BY <3>1, recordAccessTTL
  <2>3. StatsOf(carried, n, t) = d.meta_store[o]
    BY <1>5, <1>10 DEF StatsOf, contains
  <2> HIDE DEF r
  <2>4. DOMAIN r = DOMAIN meta \cup {n} /\ SameTTL(r[n], d.meta_store[o])
    BY <1>10, <2>2, <2>3
  <2> HIDE DEF e
  <2> QED
    BY <2>1, <2>4 DEF r
<1>12. Deadline(e, n) = Deadline(d, o)
  BY <1>11 DEF Deadline, SameTTL
<1>13. /\ n \notin DOMAIN d1.kv_store
       /\ n \notin DOMAIN d1.list_store
       /\ n \notin DOMAIN d1.hash_store
  BY <1>3 DEF StoredKeys
<1>14. /\ At(e.kv_store, n) = At(d1.kv_store, o)
       /\ At(e.list_store, n) = At(d1.list_store, o)
       /\ At(e.hash_store, n) = At(d1.hash_store, o)
  BY <1>13, MoveEntryAt
<1>15. Content(e, n) = Content(d, o)
  BY <1>4, <1>14, ContentAt
<1>16. ASSUME NEW x \in Key \ {o, n}
       PROVE  Content(e, x) = Content(d, x)
  <2>1. /\ At(e.kv_store, x) = At(d1.kv_store, x)
        /\ At(e.list_store, x) = At(d1.list_store, x)
        /\ At(e.hash_store, x) = At(d1.hash_store, x)
    BY <1>13, MoveEntryAt
  <2> QED
    BY <1>4, <2>1, ContentAt
<1>17. o \notin StoredKeys(e) \cup DOMAIN e.meta_store
  <2>1. /\ o \notin DOMAIN e.kv_store
        /\ o \notin DOMAIN e.list_store
        /\ o \notin DOMAIN e.hash_store
    <3>1. ASSUME NEW f PROVE o \notin DOMAIN MoveEntry(f, o, n)
      <4>1. DOMAIN MoveEntry(f, o, n) =
              IF o \in DOMAIN f THEN (DOMAIN f \cup {n}) \ {o} ELSE DOMAIN f
        BY MoveEntryDomain
      <4> QED
        BY <4>1
    <3> QED
      BY <3>1
  <2>2. o \notin DOMAIN e.meta_store
    BY <1>8, <1>11
  <2> HIDE DEF e
  <2> QED
    BY <2>1, <2>2 DEF StoredKeys
<1> HIDE DEF e
<1> QED
  BY <1>1, <1>12, <1>15, <1>16, <1>17

(***************************************************************************)
(* RENAME of a live key moves its content in all three stores and its      *)
(* deadline, and touches no third key.  The deadline is where the counts   *)
(* of StatsPopulated are needed: rename drops statistics that count none.  *)
(***************************************************************************)
THEOREM RenameMoves == Spec => RenameMovesKey
<1> DEFINE A == \A o \in StoredKeys(db) : \A n \in Key \ {o} :
                   ~Expired(o) /\ Rename(o, n) =>
                      /\ Content(db', n) = Content(db, o)
                      /\ Deadline(db', n) = Deadline(db, o)
                      /\ o \notin StoredKeys(db') \cup DOMAIN db'.meta_store
                      /\ \A x \in Key \ {o, n} : Content(db', x) = Content(db, x)
<1>1. ASSUME IInv, Full(db) PROVE A
  <2>1. Good(db, now) /\ now \in Nat
    BY <1>1, IInvGood, DatabaseAssumption
  <2>2. ASSUME NEW o \in StoredKeys(db), NEW n \in Key \ {o}, ~Expired(o), Rename(o, n)
        PROVE  /\ Content(db', n) = Content(db, o)
               /\ Deadline(db', n) = Deadline(db, o)
               /\ o \notin StoredKeys(db') \cup DOMAIN db'.meta_store
               /\ \A x \in Key \ {o, n} : Content(db', x) = Content(db, x)
    <3>1. db' = rename(db, now, o, n).db
      BY <2>2 DEF Rename, Becomes
    <3> QED
      BY <1>1, <2>1, <2>2, <3>1, renameMoves DEF Expired
  <2> QED
    BY <2>2
<1>2. IInv /\ Full(db) /\ [Next]_vars => [A]_vars
  BY <1>1
<1> HIDE DEF A
<1>3. Spec => [][A]_vars
  BY <1>2, AlwaysFull, PTL DEF Spec
<1> QED
  BY <1>3 DEF RenameMovesKey, A

-------------------------------------------------------------------------------
(* Deadlines.                                                                *)

\* An access to a key with statistics sets no TTL.
LEMMA TouchFollows ==
    ASSUME NEW d, NEW t \in Nat, Full(d), NEW k \in DOMAIN d.meta_store
    PROVE  Follows(Touch(d, t, k).meta_store, d.meta_store, {})
<1>1. Counted(d.meta_store) /\ IsRecord(d)
  BY DEF Full
<1>2. Touch(d, t, k).meta_store = recordAccess(d.meta_store, k, t)
  BY <1>1, TouchMeta
<1> QED
  BY <1>1, <1>2, recordAccessFollows

\* Nor does a read.
LEMMA ReadOpFollows ==
    ASSUME NEW d, NEW t \in Nat, Full(d), NEW k, NEW hit, NEW found, NEW missed,
           hit => k \in DOMAIN d.meta_store
    PROVE  Follows(ReadOp(d, t, k, hit, found, missed).db.meta_store, d.meta_store, {})
BY TouchFollows, DropExpiredFollows DEF ReadOp

\* Nor a change of an existing list.
LEMMA UpdateListFollows ==
    ASSUME NEW d, NEW t \in Nat, Full(d), Tracks(d), NEW k, NEW hit, NEW l,
           NEW found, NEW missed
    PROVE  Follows(UpdateList(d, t, k, hit, l, found, missed).db.meta_store,
                   d.meta_store, {})
<1> DEFINE c == Touch(d, t, k)
           r == ReplaceList(c, k, l)
<1>1. CASE k \in DOMAIN d.list_store
  <2>1. Follows(c.meta_store, d.meta_store, {})
    BY <1>1, TouchFollows DEF Tracks, StoredKeys
  <2>2. Full(c)
    BY TouchFull
  <2> HIDE DEF c
  <2>3. Follows(r.meta_store, c.meta_store, {})
    <3>1. CASE l = <<>>
      BY <3>1, delInternalFollows DEF ReplaceList
    <3>2. CASE l # <<>>
      <4>1. r.meta_store = c.meta_store
        BY <2>2, <3>2, FullParts DEF ReplaceList
      <4> QED
        BY <4>1, FollowsItself
    <3> QED
      BY <3>1, <3>2
  <2> HIDE DEF r
  <2>4. Follows(r.meta_store, d.meta_store, {} \cup {})
    BY <2>1, <2>3, FollowsTransitive
  <2>5. Follows(r.meta_store, d.meta_store, {})
    BY <2>4
  <2> QED
    BY <2>5, DropExpiredFollows DEF UpdateList, r, c
<1>2. CASE k \notin DOMAIN d.list_store
  BY <1>2, DropExpiredFollows DEF UpdateList
<1> QED
  BY <1>1, <1>2

\* Nor HDEL.
LEMMA hdelFollows ==
    ASSUME NEW d, NEW t \in Nat, Full(d), Tracks(d), NEW k, NEW f
    PROVE  Follows(hdel(d, t, k, f).db.meta_store, d.meta_store, {})
<1> DEFINE c == Touch(d, t, k)
           h == Erase(d.hash_store[k], f)
           r == ReplaceHash(c, k, h)
<1>1. CASE k \in DOMAIN d.hash_store
  <2>1. Follows(c.meta_store, d.meta_store, {})
    BY <1>1, TouchFollows DEF Tracks, StoredKeys
  <2>2. Full(c)
    BY TouchFull
  <2> HIDE DEF c, h
  <2>3. Follows(r.meta_store, c.meta_store, {})
    <3>1. CASE DOMAIN h = {}
      BY <3>1, delInternalFollows DEF ReplaceHash
    <3>2. CASE DOMAIN h # {}
      <4>1. r.meta_store = c.meta_store
        BY <2>2, <3>2, FullParts DEF ReplaceHash
      <4> QED
        BY <4>1, FollowsItself
    <3> QED
      BY <3>1, <3>2
  <2> HIDE DEF r
  <2>4. Follows(r.meta_store, d.meta_store, {} \cup {})
    BY <2>1, <2>3, FollowsTransitive
  <2>5. Follows(r.meta_store, d.meta_store, {})
    BY <2>4
  <2> QED
    BY <2>5, DropExpiredFollows DEF hdel, r, c, h
<1>2. CASE k \notin DOMAIN d.hash_store
  BY <1>2, DropExpiredFollows DEF hdel
<1> QED
  BY <1>1, <1>2

\* KEYS accesses every key it leaves.
LEMMA keysFollows ==
    ASSUME NEW d, NEW t \in Nat, Full(d), Tracks(d)
    PROVE  Follows(keys(d, t).db.meta_store, d.meta_store, {})
<1> DEFINE live == {k \in StoredKeys(d) : ~isExpired(d, t, k)}
           kept == Keep(d, live \cup (Key \ StoredKeys(d)))
           m == [k \in DOMAIN kept.meta_store \cup live |->
                   IF k \in live THEN recordAccess(d.meta_store, k, t)[k]
                                 ELSE kept.meta_store[k]]
<1>1. keys(d, t).db.meta_store = m
  BY DEF keys, Keep
<1>2. ASSUME NEW k \in DOMAIN m
      PROVE  k \in DOMAIN d.meta_store /\ SameTTL(m[k], d.meta_store[k])
  <2>1. CASE k \in live
    <3>1. k \in DOMAIN d.meta_store
      BY <2>1 DEF Tracks
    <3>2. m[k] = recordAccess(d.meta_store, k, t)[k]
      BY <2>1
    <3>3. SameTTL(recordAccess(d.meta_store, k, t)[k], d.meta_store[k])
      BY <3>1, FullParts, recordAccessTTL DEF StatsOf, contains
    <3> HIDE DEF m
    <3> QED
      BY <3>1, <3>2, <3>3
  <2>2. CASE k \notin live
    <3>1. k \in DOMAIN d.meta_store /\ m[k] = d.meta_store[k]
      BY <2>2 DEF Keep, Restrict
    <3> HIDE DEF m
    <3> QED
      BY <3>1 DEF SameTTL
  <2> QED
    BY <2>1, <2>2
<1> HIDE DEF m
<1> QED
  BY <1>1, <1>2 DEF Follows

\* EXPIRE sets the TTL of its key, or deletes it.
LEMMA expireFollows ==
    ASSUME NEW d, NEW t \in Nat, Full(d), Tracks(d), NEW k, NEW seconds \in Nat
    PROVE  LET e == expire(d, t, k, seconds).db
           IN  /\ Follows(e.meta_store, d.meta_store, {k})
               /\ seconds = 0 => Follows(e.meta_store, d.meta_store, {})
<1> DEFINE m == setTTL(d.meta_store, k, seconds, t)
           c == [d EXCEPT !.meta_store = m]
           e == expire(d, t, k, seconds).db
<1>1. CASE k \notin DOMAIN d.meta_store
  <2>1. e = d
    BY <1>1 DEF expire, contains, Tracks
  <2> HIDE DEF e
  <2> QED
    BY <2>1 DEF Follows, SameTTL, e
<1>2. CASE k \in DOMAIN d.meta_store
  <2>1. e = IF seconds > 0 THEN Touch(c, t, k) ELSE delInternal(c, k)
    BY <1>2 DEF expire, contains
  <2>2. Counted(m) /\ Follows(m, d.meta_store, {k}) /\ DOMAIN m = DOMAIN d.meta_store
    <3>1. Counted(d.meta_store)
      BY FullParts
    <3>2. /\ DOMAIN m = DOMAIN d.meta_store
          /\ \A x \in DOMAIN d.meta_store \ {k} : m[x] = d.meta_store[x]
      BY <1>2, <3>1, setTTLSets
    <3>3. Counted(m)
      BY <1>2, <3>1, setTTLCounted
    <3> HIDE DEF m
    <3> QED
      BY <3>2, <3>3 DEF Follows, SameTTL
  <2> HIDE DEF m, e
  <2>3. /\ c = [kv_store |-> d.kv_store, list_store |-> d.list_store,
                hash_store |-> d.hash_store, meta_store |-> m]
    BY FullParts
  <2>4. Full(c) /\ c.meta_store = m /\ StoredKeys(c) = StoredKeys(d)
    BY <2>2, <2>3, FullParts DEF StoredKeys
  <2> HIDE DEF c
  <2>5. Follows(c.meta_store, d.meta_store, {k})
    BY <2>2, <2>4
  <2>6. CASE seconds > 0
    <3>1. Follows(e.meta_store, c.meta_store, {})
      BY <1>2, <2>1, <2>2, <2>4, <2>6, TouchFollows
    <3>2. Follows(e.meta_store, d.meta_store, {} \cup {k})
      BY <2>5, <3>1, FollowsTransitive
    <3>3. Follows(e.meta_store, d.meta_store, {k})
      BY <3>2
    <3> QED
      BY <2>6, <3>3 DEF e
  <2>7. CASE ~(seconds > 0)
    <3>1. e = delInternal(c, k)
      BY <2>1, <2>7
    <3>2. /\ \A x \in DOMAIN e.meta_store :
               x \in DOMAIN c.meta_store /\ e.meta_store[x] = c.meta_store[x]
          /\ k \notin DOMAIN e.meta_store
      BY <1>2, <2>4, <3>1 DEF delInternal, removeKey, Restrict, Tracks
    <3>3. Follows(e.meta_store, d.meta_store, {})
      BY <2>5, <3>2 DEF Follows, SameTTL
    <3>4. Follows(e.meta_store, d.meta_store, {k})
      BY <3>3 DEF Follows
    <3> QED
      BY <3>3, <3>4 DEF e
  <2> QED
    BY <2>6, <2>7
<1> QED
  BY <1>1, <1>2

\* RENAME sets the TTL of the new key only.
LEMMA renameFollows ==
    ASSUME NEW d, NEW t \in Nat, Full(d), NEW o, NEW n
    PROVE  Follows(rename(d, t, o, n).db.meta_store, d.meta_store, {n})
<1> DEFINE d1 == IF n \in StoredKeys(d) THEN delInternal(d, n) ELSE d
           meta == removeKey(d1.meta_store, o)
           hadStats == contains(d1.meta_store, o)
                         /\ d1.meta_store[o].access_count > 0
           fresh == recordAccess(meta, n, t)
           carried == IF hadStats THEN SetStats(fresh, n, d1.meta_store[o])
                                  ELSE fresh
           found == o \in StoredKeys(d1)
           last == recordAccess(carried, n, t)
           e == rename(d, t, o, n).db
<1>1. CASE isExpired(d, t, o)
  <2>1. e = delInternal(d, o)
    BY <1>1 DEF rename
  <2>2. Follows(e.meta_store, d.meta_store, {})
    BY <2>1, delInternalFollows
  <2> HIDE DEF e
  <2>3. Follows(e.meta_store, d.meta_store, {n})
    BY <2>2 DEF Follows
  <2> QED
    BY <2>3 DEF e
<1>2. CASE ~isExpired(d, t, o)
  <2>1. e.meta_store = IF found THEN last ELSE meta
    BY <1>2 DEF rename
  <2>2. Full(d1)
    BY delInternalFull
  <2>3. Follows(d1.meta_store, d.meta_store, {})
    BY delInternalFollows, FollowsItself
  <2> HIDE DEF d1
  <2>4. Counted(meta) /\ Follows(meta, d1.meta_store, {}) /\ Counted(d1.meta_store)
    BY <2>2, FullParts DEF Counted, removeKey, Restrict, Follows, SameTTL
  <2>5. Follows(meta, d.meta_store, {})
    <3>1. Follows(meta, d.meta_store, {} \cup {})
      BY <2>3, <2>4, FollowsTransitive
    <3> QED
      BY <3>1
  <2> HIDE DEF meta
  <2>6. Counted(fresh) /\ Follows(fresh, meta, {n})
    BY <2>4, recordAccessCounted, recordAccessFollows
  <2> HIDE DEF fresh
  <2>7. Counted(carried) /\ Follows(carried, meta, {n})
    BY <2>4, <2>6 DEF Counted, SetStats, contains, Follows
  <2> HIDE DEF carried, found
  <2>8. Follows(last, carried, {n})
    BY <2>7, recordAccessFollows
  <2> HIDE DEF last
  <2>9. Follows(last, d.meta_store, {n})
    BY <2>5, <2>7, <2>8 DEF Follows, SameTTL
  <2>10. Follows(meta, d.meta_store, {n})
    BY <2>5 DEF Follows
  <2> HIDE DEF e
  <2>11. Follows(e.meta_store, d.meta_store, {n})
    BY <2>1, <2>9, <2>10
  <2> QED
    BY <2>11 DEF e
<1> QED
  BY <1>1, <1>2

\* What DeadlineOnlyByOwner says of key x in one step.
DeadlineKept(x) ==
    \/ Expired(x) /\ Write(x)
    \/ Deadline(db', x) = Deadline(db, x)
    \/ \E v \in Value, ttl \in TTLs \cup {0} : Set(x, v, ttl)
    \/ \E s \in TTLs : Expire(x, s)
    \/ \E o \in Key : Rename(o, x)

\* A key whose TTL is the one it had keeps its deadline.
LEMMA FollowsKeeps ==
    ASSUME NEW S, Follows(db'.meta_store, db.meta_store, S),
           NEW x \in DOMAIN db'.meta_store \ S
    PROVE  DeadlineKept(x)
<1>1. SameTTL(db'.meta_store[x], db.meta_store[x])
  BY DEF Follows
<1>2. Deadline(db', x) = Deadline(db, x)
  BY <1>1 DEF Deadline, SameTTL
<1> QED
  BY <1>2 DEF DeadlineKept

\* A push or a hash write, on a live, an expired or a new key.
LEMMA EditedKeeps ==
    ASSUME NEW k \in Key, Write(k), Edited(db, db', now, k),
           NEW x \in DOMAIN db.meta_store \cap DOMAIN db'.meta_store
    PROVE  DeadlineKept(x)
<1>1. PICK w : /\ k \in DOMAIN db.meta_store /\ ~isExpired(db, now, k) =>
                     Follows(w.meta_store, db.meta_store, {})
               /\ Follows(w.meta_store, db.meta_store, {k})
               /\ db' \in checkAndEvict(w, now)
  BY DEF Edited
<1>2. Follows(db'.meta_store, w.meta_store, {})
  BY <1>1, checkAndEvictFollows
<1>3. CASE x # k
  <2>1. Follows(db'.meta_store, db.meta_store, {} \cup {k})
    BY <1>1, <1>2, FollowsTransitive
  <2> QED
    BY <1>3, <2>1, FollowsKeeps
<1>4. CASE x = k /\ isExpired(db, now, k)
  BY <1>4 DEF DeadlineKept, Expired
<1>5. CASE x = k /\ ~isExpired(db, now, k)
  <2>1. Follows(db'.meta_store, db.meta_store, {} \cup {})
    BY <1>1, <1>2, <1>5, FollowsTransitive
  <2> QED
    BY <2>1, FollowsKeeps
<1> QED
  BY <1>3, <1>4, <1>5

\* Every operation on keys and strings.
LEMMA KeyStepKeeps ==
    ASSUME IInv, Full(db), NEW k \in Key, KeyStep(k),
           NEW x \in DOMAIN db.meta_store \cap DOMAIN db'.meta_store
    PROVE  DeadlineKept(x)
<1>1. Good(db, now) /\ Tracks(db) /\ now \in Nat
  BY IInvGood, DatabaseAssumption DEF Good
<1>2. TTLs \subseteq Nat \ {0}
  BY DatabaseAssumption
<1>3. ASSUME NEW v \in Value, NEW ttl \in TTLs \cup {0}, Set(k, v, ttl)
      PROVE  DeadlineKept(x)
  <2>0. ttl \in Nat
    BY <1>2
  <2>1. db' \in set(db, now, k, v, ttl)
    BY <1>3 DEF Set, Becomes
  <2>2. PICK w : /\ Follows(w.meta_store, db.meta_store, {k})
                 /\ db' \in checkAndEvict(w, now)
    BY <1>1, <2>0, <2>1, setWritten
  <2>3. Follows(db'.meta_store, w.meta_store, {})
    BY <2>2, checkAndEvictFollows
  <2>4. Follows(db'.meta_store, db.meta_store, {} \cup {k})
    BY <2>2, <2>3, FollowsTransitive
  <2>5. CASE x = k
    BY <1>3, <2>5 DEF DeadlineKept
  <2>6. CASE x # k
    BY <2>4, <2>6, FollowsKeeps
  <2> QED
    BY <2>5, <2>6
<1>4. CASE Get(k) \/ Type(k)
  <2>1. Follows(db'.meta_store, db.meta_store, {})
    BY <1>1, <1>4, ReadOpFollows
       DEF Get, get, Type, type, Becomes, Tracks, StoredKeys, contains
  <2> QED
    BY <2>1, FollowsKeeps
<1>5. CASE Del(k)
  <2>1. Follows(db'.meta_store, db.meta_store, {})
    BY <1>5, delInternalFollows DEF Del, del, Becomes
  <2> QED
    BY <2>1, FollowsKeeps
<1>6. ASSUME NEW seconds \in TTLs \cup {0}, Expire(k, seconds)
      PROVE  DeadlineKept(x)
  <2>1. db' = expire(db, now, k, seconds).db /\ seconds \in Nat
    BY <1>2, <1>6 DEF Expire, Becomes
  <2>2. /\ Follows(db'.meta_store, db.meta_store, {k})
        /\ seconds = 0 => Follows(db'.meta_store, db.meta_store, {})
    BY <1>1, <2>1, expireFollows
  <2>3. CASE seconds = 0
    BY <2>2, <2>3, FollowsKeeps
  <2>4. CASE seconds \in TTLs /\ x = k
    BY <1>6, <2>4 DEF DeadlineKept
  <2>5. CASE x # k
    BY <2>2, <2>5, FollowsKeeps
  <2> QED
    BY <2>3, <2>4, <2>5
<1>7. ASSUME NEW n \in Key, Rename(k, n)
      PROVE  DeadlineKept(x)
  <2>1. Follows(db'.meta_store, db.meta_store, {n})
    BY <1>1, <1>7, renameFollows DEF Rename, Becomes
  <2>2. CASE x = n
    BY <1>7, <2>2 DEF DeadlineKept
  <2>3. CASE x # n
    BY <2>1, <2>3, FollowsKeeps
  <2> QED
    BY <2>2, <2>3
<1> QED
  BY <1>3, <1>4, <1>5, <1>6, <1>7 DEF KeyStep

\* Every operation on lists.
LEMMA ListStepKeeps ==
    ASSUME IInv, Full(db), NEW k \in Key, ListStep(k),
           NEW x \in DOMAIN db.meta_store \cap DOMAIN db'.meta_store
    PROVE  DeadlineKept(x)
<1>1. Good(db, now) /\ Tracks(db) /\ now \in Nat
  BY IInvGood, DatabaseAssumption DEF Good
<1>2. ASSUME NEW v \in Value, LPush(k, v) \/ RPush(k, v)
      PROVE  DeadlineKept(x)
  <2>1. db' \in lpush(db, now, k, v) \cup rpush(db, now, k, v)
    BY <1>2 DEF LPush, RPush, Becomes
  <2>2. Edited(db, db', now, k) /\ Write(k)
    BY <1>1, <1>2, <2>1, pushWritten DEF Write
  <2> QED
    BY <2>2, EditedKeeps
<1>4. ASSUME NEW hit, NEW l, NEW found, NEW missed,
             db' = UpdateList(db, now, k, hit, l, found, missed).db
      PROVE  DeadlineKept(x)
  <2>1. Follows(db'.meta_store, db.meta_store, {})
    BY <1>1, <1>4, UpdateListFollows
  <2> QED
    BY <2>1, FollowsKeeps
<1>5. CASE LGet(k) \/ LLen(k)
  <2>1. Follows(db'.meta_store, db.meta_store, {})
    BY <1>1, <1>5, ReadOpFollows
       DEF LGet, lget, LLen, llen, Becomes, Tracks, StoredKeys
  <2> QED
    BY <2>1, FollowsKeeps
<1>6. ASSUME NEW index \in Indexes, LIndex(k, index)
      PROVE  DeadlineKept(x)
  <2>1. Follows(db'.meta_store, db.meta_store, {})
    BY <1>1, <1>6, ReadOpFollows
       DEF LIndex, lindex, Becomes, Tracks, StoredKeys
  <2> QED
    BY <2>1, FollowsKeeps
<1>7. CASE RPop(k) \/ LPop(k)
  BY <1>4, <1>7 DEF RPop, rpop, LPop, lpop, Becomes
<1>8. ASSUME NEW v \in Value, NEW count \in Counts, LRem(k, count, v)
      PROVE  DeadlineKept(x)
  BY <1>4, <1>8 DEF LRem, lrem, Becomes
<1>9. ASSUME NEW v \in Value, NEW index \in Indexes, LSet(k, index, v)
      PROVE  DeadlineKept(x)
  BY <1>4, <1>9 DEF LSet, lset, Becomes
<1> QED
  BY <1>2, <1>5, <1>6, <1>7, <1>8, <1>9 DEF ListStep

\* Every operation on hashes.
LEMMA HashStepKeeps ==
    ASSUME IInv, Full(db), NEW k \in Key, HashStep(k),
           NEW x \in DOMAIN db.meta_store \cap DOMAIN db'.meta_store
    PROVE  DeadlineKept(x)
<1>1. Good(db, now) /\ Tracks(db) /\ now \in Nat
  BY IInvGood, DatabaseAssumption DEF Good
<1>2. ASSUME NEW fv, db' \in hmset(db, now, k, fv), Write(k)
      PROVE  DeadlineKept(x)
  <2>1. Edited(db, db', now, k)
    BY <1>1, <1>2, hmsetWritten
  <2> QED
    BY <1>2, <2>1, EditedKeeps
<1>4. ASSUME NEW f \in Field, NEW v \in Value, HSet(k, f, v)
      PROVE  DeadlineKept(x)
  <2>1. Write(k)
    BY <1>4 DEF Write
  <2> QED
    BY <1>2, <1>4, <2>1 DEF HSet, hset, Becomes
<1>5. ASSUME NEW fv \in FieldValues, HMSet(k, fv)
      PROVE  DeadlineKept(x)
  <2>1. Write(k)
    BY <1>5 DEF Write
  <2> QED
    BY <1>2, <1>5, <2>1 DEF HMSet, Becomes
<1>6. ASSUME NEW f \in Field, HGet(k, f) \/ HExists(k, f)
      PROVE  DeadlineKept(x)
  <2>1. Follows(db'.meta_store, db.meta_store, {})
    BY <1>1, <1>6, ReadOpFollows
       DEF HGet, hget, HExists, hexists, Becomes, Tracks, StoredKeys
  <2> QED
    BY <2>1, FollowsKeeps
<1>7. ASSUME NEW f \in Field, HDel(k, f)
      PROVE  DeadlineKept(x)
  <2>1. Follows(db'.meta_store, db.meta_store, {})
    BY <1>1, <1>7, hdelFollows DEF HDel, Becomes
  <2> QED
    BY <2>1, FollowsKeeps
<1>8. CASE HGetAll(k) \/ HKeys(k) \/ HVals(k) \/ HLen(k)
  <2>1. Follows(db'.meta_store, db.meta_store, {})
    BY <1>1, <1>8, ReadOpFollows
       DEF HGetAll, hgetall, HKeys, hkeys, HVals, hvals, HLen, hlen, Becomes, Tracks, StoredKeys
  <2> QED
    BY <2>1, FollowsKeeps
<1> QED
  BY <1>4, <1>5, <1>6, <1>7, <1>8 DEF HashStep

(***************************************************************************)
(* Whatever the sequence of operations, the deadline of a key changes only *)
(* by a SET, EXPIRE or RENAME that names it, or when a write starts an     *)
(* expired key afresh: no push, pop, edit, read or eviction prolongs a TTL *)
(* or drops it.                                                            *)
(***************************************************************************)
THEOREM DeadlinesOwned == Spec => DeadlineOnlyByOwner
<1> DEFINE A == \A k \in DOMAIN db.meta_store \cap DOMAIN db'.meta_store : DeadlineKept(k)
<1>1. ASSUME IInv, Full(db), Next PROVE A
  <2>1. SUFFICES ASSUME NEW x \in DOMAIN db.meta_store \cap DOMAIN db'.meta_store
                 PROVE  DeadlineKept(x)
    OBVIOUS
  <2>2. CASE FlushAll
    BY <2>1, <2>2 DEF FlushAll, flushAll, Becomes, EmptyDatabase, EmptyMap
  <2>3. CASE Keys
    <3>1. Full(db) /\ Tracks(db) /\ now \in Nat
      BY <1>1, IInvGood, DatabaseAssumption DEF Good
    <3>2. Follows(db'.meta_store, db.meta_store, {})
      BY <2>3, <3>1, keysFollows DEF Keys, Becomes
    <3> QED
      BY <3>2, FollowsKeeps
  <2>4. CASE Tick
    BY <2>4 DEF Tick, DeadlineKept
  <2> QED
    BY <1>1, <2>2, <2>3, <2>4, KeyStepKeeps, ListStepKeeps, HashStepKeeps DEF Next
<1>2. IInv /\ Full(db) /\ [Next]_vars => [A]_vars
  BY <1>1
<1> HIDE DEF A
<1>3. Spec => [][A]_vars
  BY <1>2, AlwaysFull, PTL DEF Spec
<1> QED
  BY <1>3 DEF DeadlineOnlyByOwner, DeadlineKept, A

-------------------------------------------------------------------------------
(* The database without its expired keys.                                    *)

\* The entries of f at the keys in S.
Kept(f, S) == Restrict(f, S \cap DOMAIN f)

\* A restriction of a map at one key.
LEMMA KeptAt ==
    ASSUME NEW f, NEW S, NEW k
    PROVE  /\ k \in DOMAIN Kept(f, S) <=> k \in S /\ k \in DOMAIN f
           /\ k \in DOMAIN Kept(f, S) => Kept(f, S)[k] = f[k]
BY DEF Kept, Restrict

\* What Keep leaves of a database, map by map.
LEMMA KeepParts ==
    ASSUME NEW d, NEW S
    PROVE  LET e == Keep(d, S)
           IN  /\ e = [kv_store |-> e.kv_store, list_store |-> e.list_store,
                       hash_store |-> e.hash_store, meta_store |-> e.meta_store]
               /\ e.kv_store = Kept(d.kv_store, S)
               /\ e.list_store = Kept(d.list_store, S)
               /\ e.hash_store = Kept(d.hash_store, S)
               /\ e.meta_store = Kept(d.meta_store, S)
BY DEF Keep, Kept

(***************************************************************************)
(* A database p agrees with d on the keys that have not expired in d, and  *)
(* has nothing of the others.                                              *)
(***************************************************************************)
Agree(f, g, k) ==
    /\ k \in DOMAIN g <=> k \in DOMAIN f
    /\ k \in DOMAIN f => g[k] = f[k]

AgreeAt(d, p, k) ==
    /\ Agree(d.kv_store, p.kv_store, k)
    /\ Agree(d.list_store, p.list_store, k)
    /\ Agree(d.hash_store, p.hash_store, k)
    /\ Agree(d.meta_store, p.meta_store, k)

Absent(p, k) == k \notin StoredKeys(p) /\ k \notin DOMAIN p.meta_store

\* The purged database does.
LEMMA PurgedAt ==
    ASSUME NEW d, NEW t, NEW k \in Key
    PROVE  /\ ~isExpired(d, t, k) => AgreeAt(d, Purged(d, t), k)
           /\ isExpired(d, t, k) => Absent(Purged(d, t), k)
           /\ ~isExpired(Purged(d, t), t, k)
<1> DEFINE S == {j \in Key : ~isExpired(d, t, j)}
           p == Purged(d, t)
<1>1. /\ p.kv_store = Kept(d.kv_store, S)
      /\ p.list_store = Kept(d.list_store, S)
      /\ p.hash_store = Kept(d.hash_store, S)
      /\ p.meta_store = Kept(d.meta_store, S)
  BY KeepParts DEF Purged
<1>2. k \in S <=> ~isExpired(d, t, k)
  OBVIOUS
<1> HIDE DEF p, S
<1>3. ASSUME k \in S PROVE AgreeAt(d, p, k)
  BY <1>1, <1>3, KeptAt DEF AgreeAt, Agree
<1>4. ASSUME k \notin S PROVE Absent(p, k)
  BY <1>1, <1>4, KeptAt DEF Absent, StoredKeys
<1>5. ~isExpired(p, t, k)
  <2>1. CASE k \in S
    BY <1>2, <1>3, <2>1 DEF isExpired, contains, AgreeAt, Agree
  <2>2. CASE k \notin S
    BY <1>4, <2>2 DEF isExpired, contains, Absent
  <2> QED
    BY <2>1, <2>2
<1> QED
  BY <1>2, <1>3, <1>4, <1>5 DEF p

\* The reads of key k, its field f and its index i, answer the same of d and p.
SameReads(d, p, t, k, f, i) ==
    /\ type(d, t, k).ret = type(p, t, k).ret
    /\ get(d, t, k).ret = get(p, t, k).ret
    /\ lget(d, t, k).ret = lget(p, t, k).ret
    /\ llen(d, t, k).ret = llen(p, t, k).ret
    /\ lindex(d, t, k, i).ret = lindex(p, t, k, i).ret
    /\ hgetall(d, t, k).ret = hgetall(p, t, k).ret
    /\ hget(d, t, k, f).ret = hget(p, t, k, f).ret
    /\ hexists(d, t, k, f).ret = hexists(p, t, k, f).ret
    /\ hlen(d, t, k).ret = hlen(p, t, k).ret
    /\ hkeys(d, t, k).ret = hkeys(p, t, k).ret
    /\ hvals(d, t, k).ret = hvals(p, t, k).ret

\* They do for d and the database without its expired keys.
LEMMA KeyReadsAlike ==
    ASSUME NEW d, NEW t, NEW k \in Key, NEW f, NEW i
    PROVE  SameReads(d, Purged(d, t), t, k, f, i)
<1> DEFINE p == Purged(d, t)
<1>1. ~isExpired(p, t, k)
  BY PurgedAt
<1>2. ~isExpired(d, t, k) =>
         /\ k \in DOMAIN p.kv_store <=> k \in DOMAIN d.kv_store
         /\ k \in DOMAIN d.kv_store => p.kv_store[k] = d.kv_store[k]
         /\ k \in DOMAIN p.list_store <=> k \in DOMAIN d.list_store
         /\ k \in DOMAIN d.list_store => p.list_store[k] = d.list_store[k]
         /\ k \in DOMAIN p.hash_store <=> k \in DOMAIN d.hash_store
         /\ k \in DOMAIN d.hash_store => p.hash_store[k] = d.hash_store[k]
         /\ k \in DOMAIN p.meta_store <=> k \in DOMAIN d.meta_store
  BY PurgedAt DEF AgreeAt, Agree
<1>3. isExpired(d, t, k) =>
         /\ k \notin DOMAIN p.kv_store /\ k \notin DOMAIN p.list_store
         /\ k \notin DOMAIN p.hash_store /\ k \notin DOMAIN p.meta_store
  BY PurgedAt DEF Absent, StoredKeys
<1> HIDE DEF p
<1>4. get(d, t, k).ret = get(p, t, k).ret
  BY <1>1, <1>2, <1>3 DEF get, ReadOp
<1>5. type(d, t, k).ret = type(p, t, k).ret
  BY <1>1, <1>2, <1>3 DEF type, contains, StoredKeys, ReadOp
<1>6. lget(d, t, k).ret = lget(p, t, k).ret /\ llen(d, t, k).ret = llen(p, t, k).ret
  BY <1>1, <1>2, <1>3 DEF lget, llen, ReadOp
<1>7. lindex(d, t, k, i).ret = lindex(p, t, k, i).ret
  BY <1>1, <1>2, <1>3 DEF lindex, ReadOp
<1>8. /\ hgetall(d, t, k).ret = hgetall(p, t, k).ret
      /\ hkeys(d, t, k).ret = hkeys(p, t, k).ret
      /\ hlen(d, t, k).ret = hlen(p, t, k).ret
  BY <1>1, <1>2, <1>3 DEF hgetall, hkeys, hlen, ReadOp
<1>9. hget(d, t, k, f).ret = hget(p, t, k, f).ret
  BY <1>1, <1>2, <1>3 DEF hget, ReadOp
<1>10. hexists(d, t, k, f).ret = hexists(p, t, k, f).ret
  BY <1>1, <1>2, <1>3 DEF hexists, ReadOp
<1>11. hvals(d, t, k).ret = hvals(p, t, k).ret
  BY <1>1, <1>2, <1>3 DEF hvals, ReadOp
<1> QED
  BY <1>4, <1>5, <1>6, <1>7, <1>8, <1>9, <1>10, <1>11 DEF p, SameReads

\* KEYS finds the same keys.
LEMMA KeysAlike ==
    ASSUME NEW d, NEW t, StoredKeys(d) \subseteq Key
    PROVE  keys(d, t).ret = keys(Purged(d, t), t).ret
<1> DEFINE p == Purged(d, t)
<1>1. ASSUME NEW k \in StoredKeys(d), ~isExpired(d, t, k)
      PROVE  k \in StoredKeys(p) /\ ~isExpired(p, t, k)
  BY <1>1, PurgedAt DEF AgreeAt, Agree, StoredKeys
<1>2. StoredKeys(p) \subseteq StoredKeys(d)
  BY KeepParts, KeptAt DEF Purged, StoredKeys
<1>3. ASSUME NEW k \in StoredKeys(p)
      PROVE  ~isExpired(d, t, k)
  BY <1>2, PurgedAt DEF Absent
<1> HIDE DEF p
<1> QED
  BY <1>1, <1>2, <1>3 DEF keys, p

(***************************************************************************)
(* No read can tell that an expired key is still stored: in every state    *)
(* each of the twelve reading operations answers, for every key, field and *)
(* index, what it would if the expired keys had been removed.              *)
(***************************************************************************)
THEOREM ExpiryInvisible == Spec => []LazyExpiryInvisible
<1>1. ASSUME IInv PROVE LazyExpiryInvisible
  <2> DEFINE d == db
             t == now
             p == Purged(db, now)
  <2>1. StoredKeys(d) \subseteq Key
    BY <1>1, IInvGood DEF Good, Typed, IsDatabase, IsMap, StoredKeys
  <2>2. keys(d, t).ret = keys(p, t).ret
    BY <2>1, KeysAlike
  <2>3. \A k \in Key : \A f, i : SameReads(d, p, t, k, f, i)
    BY KeyReadsAlike
  <2> HIDE DEF p, d, t
  <2>4. [k \in Key |-> type(d, t, k).ret] = [k \in Key |-> type(p, t, k).ret]
    BY <2>3, Zenon DEF SameReads
  <2>5. [k \in Key |-> get(d, t, k).ret] = [k \in Key |-> get(p, t, k).ret]
    BY <2>3, Zenon DEF SameReads
  <2>6. [k \in Key |-> lget(d, t, k).ret] = [k \in Key |-> lget(p, t, k).ret]
    BY <2>3, Zenon DEF SameReads
  <2>7. [k \in Key |-> llen(d, t, k).ret] = [k \in Key |-> llen(p, t, k).ret]
    BY <2>3, Zenon DEF SameReads
  <2>8. [k \in Key |-> hgetall(d, t, k).ret] = [k \in Key |-> hgetall(p, t, k).ret]
    BY <2>3, Zenon DEF SameReads
  <2>9. [k \in Key |-> hlen(d, t, k).ret] = [k \in Key |-> hlen(p, t, k).ret]
    BY <2>3, Zenon DEF SameReads
  <2>10. [k \in Key |-> hkeys(d, t, k).ret] = [k \in Key |-> hkeys(p, t, k).ret]
    BY <2>3, Zenon DEF SameReads
  <2>11. [k \in Key |-> hvals(d, t, k).ret] = [k \in Key |-> hvals(p, t, k).ret]
    BY <2>3, Zenon DEF SameReads
  <2>12. [k \in Key |-> [i \in Indexes |-> lindex(d, t, k, i).ret]]
           = [k \in Key |-> [i \in Indexes |-> lindex(p, t, k, i).ret]]
    BY <2>3 DEF SameReads
  <2>13. [k \in Key |-> [f \in Field |-> hget(d, t, k, f).ret]]
           = [k \in Key |-> [f \in Field |-> hget(p, t, k, f).ret]]
    BY <2>3 DEF SameReads
  <2>14. [k \in Key |-> [f \in Field |-> hexists(d, t, k, f).ret]]
           = [k \in Key |-> [f \in Field |-> hexists(p, t, k, f).ret]]
    BY <2>3 DEF SameReads
  <2>15. Replies(d, t) = Replies(p, t)
    BY <2>2, <2>4, <2>5, <2>6, <2>7, <2>8, <2>9, <2>10, <2>11,
       <2>12, <2>13, <2>14 DEF Replies
  <2> QED
    BY <2>15 DEF LazyExpiryInvisible, p, d, t
<1>2. IInv => LazyExpiryInvisible
  BY <1>1
<1> QED
  BY <1>2, AlwaysIInv, PTL

-------------------------------------------------------------------------------
(* Two databases, one with its expired keys and one without.                 *)

\* Database p is made of four maps on keys.
Mapped(f) == f = [j \in DOMAIN f |-> f[j]] /\ DOMAIN f \subseteq Key

Maps(p) ==
    /\ IsRecord(p)
    /\ Mapped(p.kv_store)
    /\ Mapped(p.list_store)
    /\ Mapped(p.hash_store)
    /\ Mapped(p.meta_store)

\* Database p has the keys that live in d, and none that have expired.
Purges(d, p, t) ==
    \A x \in Key : /\ ~isExpired(d, t, x) => AgreeAt(d, p, x)
                   /\ isExpired(d, t, x) => Absent(p, x)

(***************************************************************************)
(* Database p is what an eager expiry would keep of d.                     *)
(***************************************************************************)
Eager(d, p, t) ==
    /\ IsRecord(d) /\ Counted(d.meta_store)
    /\ Maps(p)
    /\ Purges(d, p, t)

\* A purged database has no expired key.
LEMMA PurgesLive ==
    ASSUME NEW d, NEW p, NEW t, Purges(d, p, t), NEW x \in Key
    PROVE  ~isExpired(p, t, x)
<1>1. CASE isExpired(d, t, x)
  BY <1>1 DEF Purges, Absent, isExpired, contains
<1>2. CASE ~isExpired(d, t, x)
  BY <1>2 DEF Purges, AgreeAt, Agree, isExpired, contains
<1> QED
  BY <1>1, <1>2

\* Two maps that agree with a third on every key are equal.
LEMMA SameMap ==
    ASSUME NEW f, NEW g, Mapped(f), Mapped(g),
           \A x \in Key : /\ x \in DOMAIN f <=> x \in DOMAIN g
                          /\ x \in DOMAIN f => f[x] = g[x]
    PROVE  f = g
<1>1. DOMAIN f = DOMAIN g
  BY DEF Mapped
<1>2. \A x \in DOMAIN f : f[x] = g[x]
  BY DEF Mapped
<1>3. f = [j \in DOMAIN f |-> f[j]] /\ g = [j \in DOMAIN g |-> g[j]]
  BY DEF Mapped
<1> QED
  BY <1>1, <1>2, <1>3

\* Only one database is what an eager expiry would keep of d.
LEMMA PurgesSame ==
    ASSUME NEW d, NEW p, NEW q, NEW t, Maps(p), Maps(q),
           Purges(d, p, t), Purges(d, q, t)
    PROVE  p = q
<1>1. ASSUME NEW x \in Key
      PROVE  \/ AgreeAt(d, p, x) /\ AgreeAt(d, q, x)
             \/ Absent(p, x) /\ Absent(q, x)
  BY DEF Purges
<1>2. p.kv_store = q.kv_store
  BY <1>1, SameMap DEF Maps, AgreeAt, Agree, Absent, StoredKeys
<1>3. p.list_store = q.list_store
  BY <1>1, SameMap DEF Maps, AgreeAt, Agree, Absent, StoredKeys
<1>4. p.hash_store = q.hash_store
  BY <1>1, SameMap DEF Maps, AgreeAt, Agree, Absent, StoredKeys
<1>5. p.meta_store = q.meta_store
  BY <1>1, SameMap DEF Maps, AgreeAt, Agree, Absent, StoredKeys
<1> QED
  BY <1>2, <1>3, <1>4, <1>5 DEF Maps, IsRecord

\* Purged(d, t) is one.
LEMMA PurgedPurges ==
    ASSUME NEW d, NEW t
    PROVE  Maps(Purged(d, t)) /\ Purges(d, Purged(d, t), t)
<1> DEFINE S == {k \in Key : ~isExpired(d, t, k)}
           p == Purged(d, t)
<1>1. /\ p = [kv_store |-> p.kv_store, list_store |-> p.list_store,
              hash_store |-> p.hash_store, meta_store |-> p.meta_store]
      /\ p.kv_store = Kept(d.kv_store, S)
      /\ p.list_store = Kept(d.list_store, S)
      /\ p.hash_store = Kept(d.hash_store, S)
      /\ p.meta_store = Kept(d.meta_store, S)
  BY KeepParts DEF Purged
<1>2. S \subseteq Key
  OBVIOUS
<1> HIDE DEF S, p
<1>3. ASSUME NEW f PROVE Mapped(Kept(f, S))
  BY <1>2 DEF Mapped, Kept, Restrict
<1>4. Maps(p)
  BY <1>1, <1>3 DEF Maps, IsRecord
<1>5. Purges(d, Purged(d, t), t)
  BY PurgedAt DEF Purges
<1> QED
  BY <1>4, <1>5 DEF p

\* So Purged has the same value on two databases that are so related.
LEMMA EagerPurged ==
    ASSUME NEW d, NEW p, NEW t, Eager(d, p, t)
    PROVE  Purged(d, t) = Purged(p, t)
<1>1. Purged(d, t) = p
  BY PurgesSame, PurgedPurges DEF Eager
<1>2. Purges(p, p, t)
  BY PurgesLive DEF Eager, Purges, AgreeAt, Agree
<1>3. Purged(p, t) = p
  BY <1>2, PurgesSame, PurgedPurges DEF Eager
<1> QED
  BY <1>1, <1>3

\* In a state that the invariant allows, the purged database is one.
LEMMA PurgedEager ==
    ASSUME NEW d, NEW t, Full(d)
    PROVE  Eager(d, Purged(d, t), t)
BY FullParts, PurgedPurges DEF Eager, IsRecord

\* The statistics of the purged database are counted, too.
LEMMA EagerCounted ==
    ASSUME NEW d, NEW p, NEW t, Eager(d, p, t)
    PROVE  Counted(p.meta_store)
<1>1. ASSUME NEW x \in DOMAIN p.meta_store
      PROVE  x \in DOMAIN d.meta_store /\ p.meta_store[x] = d.meta_store[x]
  BY DEF Eager, Maps, Mapped, Purges, AgreeAt, Agree, Absent
<1> QED
  BY <1>1 DEF Eager, Counted

\* Database e differs from d at most at the keys in S.
Except(d, e, S) == \A x \in Key \ S : AgreeAt(d, e, x)

(***************************************************************************)
(* A change of some keys that leaves both databases with the same of them  *)
(* keeps the databases related.                                            *)
(***************************************************************************)
LEMMA ChangeOfKeys ==
    ASSUME NEW d, NEW p, NEW t, Purges(d, p, t), NEW S,
           NEW e, NEW q, Except(d, e, S), Except(p, q, S),
           \A k \in S : ~isExpired(e, t, k) /\ AgreeAt(e, q, k)
    PROVE  Purges(e, q, t)
<1> SUFFICES ASSUME NEW x \in Key
             PROVE  /\ ~isExpired(e, t, x) => AgreeAt(e, q, x)
                    /\ isExpired(e, t, x) => Absent(q, x)
  BY DEF Purges
<1>1. CASE x \in S
  BY <1>1
<1>2. CASE x \notin S /\ isExpired(d, t, x)
  <2>1. AgreeAt(d, e, x) /\ AgreeAt(p, q, x) /\ Absent(p, x)
    BY <1>2 DEF Purges, Except
  <2>2. isExpired(e, t, x)
    BY <1>2, <2>1 DEF AgreeAt, Agree, isExpired, contains
  <2> QED
    BY <2>1, <2>2 DEF Absent, AgreeAt, Agree, StoredKeys
<1>3. CASE x \notin S /\ ~isExpired(d, t, x)
  <2>1. AgreeAt(d, e, x) /\ AgreeAt(p, q, x) /\ AgreeAt(d, p, x)
    BY <1>3 DEF Purges, Except
  <2>2. ~isExpired(e, t, x)
    BY <1>3, <2>1 DEF AgreeAt, Agree, isExpired, contains
  <2> QED
    BY <2>1, <2>2 DEF AgreeAt, Agree
<1> QED
  BY <1>1, <1>2, <1>3

\* The databases hold the same of every key but k.
Beside(d, e, k) == \A x \in Key \ {k} : AgreeAt(d, e, x)

\* Two related databases stay related when one key changes in both, to the
\* same thing, and is not expired after it.
LEMMA ChangeOfOneKey ==
    ASSUME NEW d, NEW p, NEW t, Purges(d, p, t), NEW k \in Key,
           NEW e, NEW q, Beside(d, e, k), Beside(p, q, k),
           ~isExpired(e, t, k), AgreeAt(e, q, k)
    PROVE  Purges(e, q, t)
<1>1. Except(d, e, {k}) /\ Except(p, q, {k})
  BY DEF Beside, Except
<1>2. \A j \in {k} : ~isExpired(e, t, j) /\ AgreeAt(e, q, j)
  OBVIOUS
<1> QED
  BY <1>1, <1>2, ChangeOfKeys

-------------------------------------------------------------------------------
(* The helpers, on two related databases.                                    *)

\* A key deleted from every map.
LEMMA delInternalParts ==
    ASSUME NEW d, NEW k, k \in DOMAIN d.meta_store => k \in StoredKeys(d)
    PROVE  LET e == delInternal(d, k)
           IN  /\ IsRecord(e)
               /\ Beside(d, e, k)
               /\ Absent(e, k)
               /\ Counted(d.meta_store) => Counted(e.meta_store)
               /\ Maps(d) => Maps(e)
<1> DEFINE e == delInternal(d, k)
<1>1. IsRecord(e)
  BY DEF IsRecord, delInternal
<1>2. /\ e.kv_store = Erase(d.kv_store, k)
      /\ e.list_store = Erase(d.list_store, k)
      /\ e.hash_store = Erase(d.hash_store, k)
      /\ e.meta_store = IF k \in StoredKeys(d) THEN Erase(d.meta_store, k)
                                                ELSE d.meta_store
  BY DEF delInternal, removeKey, Erase
<1> HIDE DEF e
<1>3. ASSUME NEW f
      PROVE  /\ DOMAIN Erase(f, k) = DOMAIN f \ {k}
             /\ \A x \in DOMAIN f \ {k} : Erase(f, k)[x] = f[x]
             /\ Mapped(f) => Mapped(Erase(f, k))
             /\ Counted(f) => Counted(Erase(f, k))
  BY DEF Erase, Restrict, Mapped, Counted
<1>4. ASSUME NEW x, x # k PROVE AgreeAt(d, e, x)
  BY <1>2, <1>3, <1>4, ZenonT(60) DEF AgreeAt, Agree
<1>5. Absent(e, k)
  BY <1>2, <1>3 DEF Absent, StoredKeys
<1>6. Maps(d) => Maps(e)
  BY <1>1, <1>2, <1>3 DEF Maps
<1> QED
  BY <1>1, <1>2, <1>3, <1>4, <1>5, <1>6 DEF Beside, e

\* A key deleted from both.
LEMMA delInternalEager ==
    ASSUME NEW d, NEW p, NEW t, Eager(d, p, t), Tracks(d), NEW k \in Key
    PROVE  /\ Eager(delInternal(d, k), delInternal(p, k), t)
           /\ isExpired(d, t, k) => Eager(delInternal(d, k), p, t)
           /\ Absent(delInternal(d, k), k) /\ Absent(delInternal(p, k), k)
<1> DEFINE e == delInternal(d, k)
           q == delInternal(p, k)
<1>1. k \in DOMAIN d.meta_store => k \in StoredKeys(d)
  BY DEF Tracks
<1>2. k \in DOMAIN p.meta_store => k \in StoredKeys(p)
  BY <1>1 DEF Eager, Purges, AgreeAt, Agree, Absent, StoredKeys
<1>3. /\ IsRecord(e) /\ Counted(e.meta_store)
      /\ Beside(d, e, k) /\ Absent(e, k)
  BY <1>1, delInternalParts DEF Eager
<1>4. Maps(q) /\ Beside(p, q, k) /\ Absent(q, k)
  BY <1>2, delInternalParts DEF Eager
<1> HIDE DEF e, q
<1>5. AgreeAt(e, q, k) /\ ~isExpired(e, t, k)
  BY <1>3, <1>4 DEF Absent, AgreeAt, Agree, StoredKeys, isExpired, contains
<1>6. Purges(e, q, t)
  BY <1>3, <1>4, <1>5, ChangeOfOneKey DEF Eager
<1>7. ASSUME isExpired(d, t, k) PROVE Purges(e, p, t)
  <2>1. Absent(p, k)
    BY <1>7 DEF Eager, Purges
  <2>2. AgreeAt(e, p, k)
    BY <1>3, <2>1 DEF Absent, AgreeAt, Agree, StoredKeys
  <2>3. Beside(p, p, k)
    BY DEF Beside, AgreeAt, Agree
  <2> QED
    BY <1>3, <1>5, <2>2, <2>3, ChangeOfOneKey DEF Eager
<1> QED
  BY <1>3, <1>4, <1>6, <1>7 DEF Eager, e, q

\* Dropping the expired key: the purged database does not have it.
LEMMA DropExpiredEager ==
    ASSUME NEW d, NEW p, NEW t, Eager(d, p, t), Tracks(d), NEW k \in Key
    PROVE  /\ Eager(DropExpired(d, t, k), p, t)
           /\ DropExpired(p, t, k) = p
           /\ ~isExpired(DropExpired(d, t, k), t, k)
<1>1. ~isExpired(p, t, k)
  BY PurgesLive DEF Eager
<1>2. CASE isExpired(d, t, k)
  <2>1. ~isExpired(delInternal(d, k), t, k)
    BY delInternalEager DEF Absent, isExpired, contains
  <2> QED
    BY <1>1, <1>2, <2>1, delInternalEager DEF DropExpired
<1>3. CASE ~isExpired(d, t, k)
  BY <1>1, <1>3 DEF DropExpired
<1> QED
  BY <1>2, <1>3

\* Both have the same statistics of a live key.
LEMMA EagerStats ==
    ASSUME NEW d, NEW p, NEW t, Eager(d, p, t), NEW k \in Key, ~isExpired(d, t, k)
    PROVE  /\ AgreeAt(d, p, k)
           /\ StatsOf(p.meta_store, k, t) = StatsOf(d.meta_store, k, t)
BY DEF Eager, Purges, AgreeAt, Agree, StatsOf, contains

\* Statistics s given to key k.
SetMeta(d, k, s) ==
    [kv_store |-> d.kv_store, list_store |-> d.list_store,
     hash_store |-> d.hash_store, meta_store |-> SetStats(d.meta_store, k, s)]

\* The same statistics given to one live key of both.
LEMMA SetMetaEager ==
    ASSUME NEW d, NEW p, NEW t, Eager(d, p, t), NEW k \in Key,
           ~isExpired(d, t, k), NEW s \in KeyStats, s.access_count > 0,
           ~HasExpired(s, t)
    PROVE  /\ Eager(SetMeta(d, k, s), SetMeta(p, k, s), t)
           /\ ~isExpired(SetMeta(d, k, s), t, k)
<1> DEFINE e == SetMeta(d, k, s)
           q == SetMeta(p, k, s)
<1>1. ASSUME NEW m
      PROVE  /\ DOMAIN SetStats(m, k, s) = DOMAIN m \cup {k}
             /\ SetStats(m, k, s)[k] = s
             /\ \A x : x # k => Agree(m, SetStats(m, k, s), x)
             /\ Mapped(m) => Mapped(SetStats(m, k, s))
             /\ Counted(m) => Counted(SetStats(m, k, s))
  BY DEF SetStats, Mapped, Counted, Agree
<1>2. /\ IsRecord(e) /\ e.kv_store = d.kv_store /\ e.list_store = d.list_store
      /\ e.hash_store = d.hash_store /\ e.meta_store = SetStats(d.meta_store, k, s)
  BY DEF SetMeta, IsRecord
<1>3. /\ IsRecord(q) /\ q.kv_store = p.kv_store /\ q.list_store = p.list_store
      /\ q.hash_store = p.hash_store /\ q.meta_store = SetStats(p.meta_store, k, s)
  BY DEF SetMeta, IsRecord
<1> HIDE DEF e, q
<1>4. ASSUME NEW x, x # k PROVE AgreeAt(d, e, x) /\ AgreeAt(p, q, x)
  <2>1. Agree(d.meta_store, e.meta_store, x) /\ Agree(p.meta_store, q.meta_store, x)
    BY <1>1, <1>2, <1>3, <1>4
  <2>2. \A f : Agree(f, f, x)
    BY DEF Agree
  <2> QED
    BY <1>2, <1>3, <2>1, <2>2 DEF AgreeAt
<1>5. AgreeAt(d, p, k)
  BY EagerStats
<1>6. /\ k \in DOMAIN e.meta_store /\ e.meta_store[k] = s
      /\ k \in DOMAIN q.meta_store /\ q.meta_store[k] = s
  BY <1>1, <1>2, <1>3
<1>9. AgreeAt(e, q, k)
  BY <1>2, <1>3, <1>5, <1>6 DEF AgreeAt, Agree
<1>10. ~isExpired(e, t, k)
  BY <1>6 DEF isExpired, contains
<1>7. Purges(e, q, t)
  BY <1>4, <1>9, <1>10, ChangeOfOneKey DEF Eager, Beside
<1>8. Maps(q) /\ Counted(e.meta_store)
  BY <1>1, <1>2, <1>3 DEF Eager, Maps
<1> QED
  BY <1>2, <1>10, <1>7, <1>8 DEF Eager, e, q

\* An access to a live or new key.
LEMMA TouchEager ==
    ASSUME NEW d, NEW p, NEW t \in Nat, Eager(d, p, t), NEW k \in Key,
           ~isExpired(d, t, k)
    PROVE  /\ Eager(Touch(d, t, k), Touch(p, t, k), t)
           /\ ~isExpired(Touch(d, t, k), t, k)
<1> DEFINE r == StatsOf(d.meta_store, k, t)
           n == r.access_count + 1
           s == [r EXCEPT !.access_count = n, !.last_access = t]
<1>1. r \in KeyStats /\ StatsOf(p.meta_store, k, t) = r
  BY EagerStats DEF Eager, StatsOf, Counted, contains, DefaultStats, KeyStats
<1>2. ~HasExpired(r, t)
  BY DEF isExpired, contains, StatsOf, DefaultStats, HasExpired
<1>3. recordAccess(d.meta_store, k, t) = SetStats(d.meta_store, k, s)
  BY DEF recordAccess
<1>4. recordAccess(p.meta_store, k, t) = SetStats(p.meta_store, k, s)
  BY <1>1 DEF recordAccess
<1>5. Touch(d, t, k) = SetMeta(d, k, s)
  BY <1>3, TouchMeta DEF SetMeta, Eager
<1>6. Touch(p, t, k) = SetMeta(p, k, s)
  BY <1>4, TouchMeta DEF SetMeta, Eager, Maps
<1>7. n \in Nat /\ n > 0
  BY <1>1 DEF KeyStats
<1> HIDE DEF n, r
<1>8. s \in KeyStats /\ s.access_count = n /\ SameTTL(s, r)
  BY <1>1, <1>7, Zenon DEF KeyStats, SameTTL
<1> HIDE DEF s
<1>9. s \in KeyStats /\ s.access_count > 0 /\ ~HasExpired(s, t)
  BY <1>2, <1>7, <1>8, SameTTLExpires
<1> QED
  BY <1>5, <1>6, <1>9, SetMetaEager

\* The three stores of both changed alike at one live key.
LEMMA StoresEager ==
    ASSUME NEW d, NEW p, NEW t, Eager(d, p, t), NEW k \in Key,
           ~isExpired(d, t, k), NEW e, NEW q, IsRecord(e), Maps(q),
           e.meta_store = d.meta_store, q.meta_store = p.meta_store,
           Beside(d, e, k), Beside(p, q, k),
           Agree(e.kv_store, q.kv_store, k),
           Agree(e.list_store, q.list_store, k),
           Agree(e.hash_store, q.hash_store, k)
    PROVE  Eager(e, q, t) /\ ~isExpired(e, t, k)
<1>1. AgreeAt(d, p, k)
  BY EagerStats
<1>2. AgreeAt(e, q, k) /\ ~isExpired(e, t, k)
  BY <1>1 DEF AgreeAt, isExpired
<1>3. Purges(e, q, t)
  BY <1>2, ChangeOfOneKey DEF Eager
<1> QED
  BY <1>2, <1>3 DEF Eager

\* An entry put into a map.
LEMMA PutParts ==
    ASSUME NEW f, NEW k \in Key, NEW v
    PROVE  /\ \A g : Agree(Put(f, k, v), Put(g, k, v), k)
           /\ \A x : x # k => Agree(f, Put(f, k, v), x)
           /\ Mapped(f) => Mapped(Put(f, k, v))
BY DEF Put, Agree, Mapped

\* The same string put into both.
LEMMA PutStringEager ==
    ASSUME NEW d, NEW p, NEW t, Eager(d, p, t), NEW k \in Key,
           ~isExpired(d, t, k), NEW v
    PROVE  LET e == [d EXCEPT !.kv_store = Put(@, k, v)]
               q == [p EXCEPT !.kv_store = Put(@, k, v)]
           IN  Eager(e, q, t) /\ ~isExpired(e, t, k)
<1> DEFINE e == [d EXCEPT !.kv_store = Put(@, k, v)]
           q == [p EXCEPT !.kv_store = Put(@, k, v)]
<1>1. e = [kv_store |-> Put(d.kv_store, k, v), list_store |-> d.list_store,
           hash_store |-> d.hash_store, meta_store |-> d.meta_store]
  BY DEF Eager, IsRecord
<1>2. q = [kv_store |-> Put(p.kv_store, k, v), list_store |-> p.list_store,
           hash_store |-> p.hash_store, meta_store |-> p.meta_store]
  BY DEF Eager, Maps, IsRecord
<1>3. AgreeAt(d, p, k)
  BY EagerStats
<1> HIDE DEF e, q
<1>4. \A f, x : Agree(f, f, x)
  BY DEF Agree
<1>5. Beside(d, e, k) /\ Beside(p, q, k)
  BY <1>1, <1>2, <1>4, PutParts DEF Beside, AgreeAt
<1>6. /\ Agree(e.kv_store, q.kv_store, k)
      /\ Agree(e.list_store, q.list_store, k)
      /\ Agree(e.hash_store, q.hash_store, k)
  BY <1>1, <1>2, <1>3, PutParts DEF AgreeAt
<1>7. IsRecord(e) /\ Maps(q)
  BY <1>1, <1>2, PutParts DEF Eager, Maps, IsRecord
<1> QED
  BY <1>1, <1>2, <1>5, <1>6, <1>7, StoresEager DEF e, q

\* The same list.
LEMMA PutListEager ==
    ASSUME NEW d, NEW p, NEW t, Eager(d, p, t), NEW k \in Key,
           ~isExpired(d, t, k), NEW l
    PROVE  LET e == [d EXCEPT !.list_store = Put(@, k, l)]
               q == [p EXCEPT !.list_store = Put(@, k, l)]
           IN  Eager(e, q, t) /\ ~isExpired(e, t, k)
<1> DEFINE e == [d EXCEPT !.list_store = Put(@, k, l)]
           q == [p EXCEPT !.list_store = Put(@, k, l)]
<1>1. e = [kv_store |-> d.kv_store, list_store |-> Put(d.list_store, k, l),
           hash_store |-> d.hash_store, meta_store |-> d.meta_store]
  BY DEF Eager, IsRecord
<1>2. q = [kv_store |-> p.kv_store, list_store |-> Put(p.list_store, k, l),
           hash_store |-> p.hash_store, meta_store |-> p.meta_store]
  BY DEF Eager, Maps, IsRecord
<1>3. AgreeAt(d, p, k)
  BY EagerStats
<1> HIDE DEF e, q
<1>4. \A f, x : Agree(f, f, x)
  BY DEF Agree
<1>5. Beside(d, e, k) /\ Beside(p, q, k)
  BY <1>1, <1>2, <1>4, PutParts DEF Beside, AgreeAt
<1>6. /\ Agree(e.kv_store, q.kv_store, k)
      /\ Agree(e.list_store, q.list_store, k)
      /\ Agree(e.hash_store, q.hash_store, k)
  BY <1>1, <1>2, <1>3, PutParts DEF AgreeAt
<1>7. IsRecord(e) /\ Maps(q)
  BY <1>1, <1>2, PutParts DEF Eager, Maps, IsRecord
<1> QED
  BY <1>1, <1>2, <1>5, <1>6, <1>7, StoresEager DEF e, q

\* The same hash.
LEMMA PutHashEager ==
    ASSUME NEW d, NEW p, NEW t, Eager(d, p, t), NEW k \in Key,
           ~isExpired(d, t, k), NEW h
    PROVE  LET e == [d EXCEPT !.hash_store = Put(@, k, h)]
               q == [p EXCEPT !.hash_store = Put(@, k, h)]
           IN  Eager(e, q, t) /\ ~isExpired(e, t, k)
<1> DEFINE e == [d EXCEPT !.hash_store = Put(@, k, h)]
           q == [p EXCEPT !.hash_store = Put(@, k, h)]
<1>1. e = [kv_store |-> d.kv_store, list_store |-> d.list_store,
           hash_store |-> Put(d.hash_store, k, h), meta_store |-> d.meta_store]
  BY DEF Eager, IsRecord
<1>2. q = [kv_store |-> p.kv_store, list_store |-> p.list_store,
           hash_store |-> Put(p.hash_store, k, h), meta_store |-> p.meta_store]
  BY DEF Eager, Maps, IsRecord
<1>3. AgreeAt(d, p, k)
  BY EagerStats
<1> HIDE DEF e, q
<1>4. \A f, x : Agree(f, f, x)
  BY DEF Agree
<1>5. Beside(d, e, k) /\ Beside(p, q, k)
  BY <1>1, <1>2, <1>4, PutParts DEF Beside, AgreeAt
<1>6. /\ Agree(e.kv_store, q.kv_store, k)
      /\ Agree(e.list_store, q.list_store, k)
      /\ Agree(e.hash_store, q.hash_store, k)
  BY <1>1, <1>2, <1>3, PutParts DEF AgreeAt
<1>7. IsRecord(e) /\ Maps(q)
  BY <1>1, <1>2, PutParts DEF Eager, Maps, IsRecord
<1> QED
  BY <1>1, <1>2, <1>5, <1>6, <1>7, StoresEager DEF e, q

-------------------------------------------------------------------------------
(* The changing operations, on two related databases.                        *)

\* The replies to two operations, and the databases they leave.
Alike(r, s, t) == Eager(r.db, s.db, t) /\ r.ret = s.ret

\* An access to a stored key leaves the metadata tracking the stores.
LEMMA TouchTracks ==
    ASSUME NEW d, IsRecord(d), Tracks(d), NEW t, NEW k \in StoredKeys(d)
    PROVE  Tracks(Touch(d, t, k))
<1> DEFINE e == Touch(d, t, k)
<1>1. DOMAIN recordAccess(d.meta_store, k, t) = DOMAIN d.meta_store \cup {k}
  BY DEF recordAccess, SetStats
<1>2. /\ e.kv_store = d.kv_store /\ e.list_store = d.list_store
      /\ e.hash_store = d.hash_store
      /\ e.meta_store = recordAccess(d.meta_store, k, t)
  BY TouchMeta
<1> HIDE DEF e
<1> QED
  BY <1>1, <1>2 DEF Tracks, StoredKeys, e

\* The accesses and changes of an existing list.
LEMMA UpdateListEager ==
    ASSUME NEW d, NEW p, NEW t \in Nat, Eager(d, p, t), Tracks(d), NEW k \in Key,
           NEW hit, NEW l, NEW found, NEW hit1, NEW l1, NEW found1, NEW missed,
           ~isExpired(d, t, k) /\ k \in DOMAIN d.list_store =>
              (hit1 <=> hit) /\ l1 = l /\ found1 = found
    PROVE  LET r == UpdateList(d, t, k, hit, l, found, missed)
               s == UpdateList(p, t, k, hit1, l1, found1, missed)
           IN  Alike(r, s, t)
<1>1. ~isExpired(p, t, k)
  BY PurgesLive DEF Eager
<1>2. Eager(DropExpired(d, t, k), DropExpired(p, t, k), t)
  BY DropExpiredEager
<1>3. CASE isExpired(d, t, k)
  <2>1. k \notin DOMAIN p.list_store
    BY <1>3 DEF Eager, Purges, Absent, StoredKeys
  <2> QED
    BY <1>2, <1>3, <2>1 DEF UpdateList, Alike
<1>4. CASE ~isExpired(d, t, k)
  <2>1. k \in DOMAIN p.list_store <=> k \in DOMAIN d.list_store
    BY <1>4, EagerStats DEF AgreeAt, Agree
  <2>2. CASE ~(k \in DOMAIN d.list_store /\ hit)
    BY <1>1, <1>2, <1>4, <2>1, <2>2 DEF UpdateList, Alike
  <2>3. CASE k \in DOMAIN d.list_store /\ hit
    <3> DEFINE e == Touch(d, t, k)
               q == Touch(p, t, k)
    <3>1. Eager(e, q, t) /\ ~isExpired(e, t, k)
      BY <1>4, TouchEager
    <3>2. Tracks(e)
      BY <2>3, TouchTracks DEF Eager, StoredKeys
    <3> HIDE DEF e, q
    <3>3. Eager(ReplaceList(e, k, l), ReplaceList(q, k, l), t)
      BY <3>1, <3>2, PutListEager, delInternalEager DEF ReplaceList
    <3>4. UpdateList(d, t, k, hit, l, found, missed)
             = [db |-> ReplaceList(e, k, l), ret |-> found]
      BY <1>4, <2>3 DEF UpdateList, e
    <3>5. UpdateList(p, t, k, hit1, l1, found1, missed)
             = [db |-> ReplaceList(q, k, l), ret |-> found]
      BY <1>1, <1>4, <2>1, <2>3 DEF UpdateList, q
    <3> QED
      BY <3>3, <3>4, <3>5 DEF Alike
  <2> QED
    BY <2>2, <2>3
<1> QED
  BY <1>3, <1>4

\* The operations on an existing list.
LEMMA ListOpsAlike ==
    ASSUME NEW d, NEW p, NEW t \in Nat, Eager(d, p, t), Tracks(d), NEW k \in Key,
           NEW v, NEW i
    PROVE  /\ Alike(lpop(d, t, k), lpop(p, t, k), t)
           /\ Alike(rpop(d, t, k), rpop(p, t, k), t)
           /\ Alike(lrem(d, t, k, i, v), lrem(p, t, k, i, v), t)
           /\ Alike(lset(d, t, k, i, v), lset(p, t, k, i, v), t)
<1> DEFINE m == d.list_store[k]
           n == p.list_store[k]
<1>1. ~isExpired(d, t, k) /\ k \in DOMAIN d.list_store => n = m
  BY EagerStats DEF AgreeAt, Agree
<1> HIDE DEF m, n
<1>2. Alike(lpop(d, t, k), lpop(p, t, k), t)
  <2> DEFINE hit == m # <<>>
             l == Tail(m)
             found == {Head(m)}
             hit1 == n # <<>>
             l1 == Tail(n)
             found1 == {Head(n)}
  <2>1. ~isExpired(d, t, k) /\ k \in DOMAIN d.list_store =>
           (hit1 <=> hit) /\ l1 = l /\ found1 = found
    BY <1>1
  <2>2. lpop(d, t, k) = UpdateList(d, t, k, hit, l, found, {})
    BY DEF lpop, m
  <2>3. lpop(p, t, k) = UpdateList(p, t, k, hit1, l1, found1, {})
    BY DEF lpop, n
  <2> HIDE DEF hit, l, found, hit1, l1, found1
  <2> QED
    BY <2>1, <2>2, <2>3, UpdateListEager
<1>3. Alike(rpop(d, t, k), rpop(p, t, k), t)
  <2> DEFINE hit == m # <<>>
             l == SubSeq(m, 1, Len(m) - 1)
             found == {m[Len(m)]}
             hit1 == n # <<>>
             l1 == SubSeq(n, 1, Len(n) - 1)
             found1 == {n[Len(n)]}
  <2>1. ~isExpired(d, t, k) /\ k \in DOMAIN d.list_store =>
           (hit1 <=> hit) /\ l1 = l /\ found1 = found
    BY <1>1
  <2>2. rpop(d, t, k) = UpdateList(d, t, k, hit, l, found, {})
    BY DEF rpop, m
  <2>3. rpop(p, t, k) = UpdateList(p, t, k, hit1, l1, found1, {})
    BY DEF rpop, n
  <2> HIDE DEF hit, l, found, hit1, l1, found1
  <2> QED
    BY <2>1, <2>2, <2>3, UpdateListEager
<1>4. Alike(lrem(d, t, k, i, v), lrem(p, t, k, i, v), t)
  <2> DEFINE hit == RemovedPositions(m, i, v) # {}
             l == AtPositions(m, (1..Len(m)) \ RemovedPositions(m, i, v))
             found == Cardinality(RemovedPositions(m, i, v))
             hit1 == RemovedPositions(n, i, v) # {}
             l1 == AtPositions(n, (1..Len(n)) \ RemovedPositions(n, i, v))
             found1 == Cardinality(RemovedPositions(n, i, v))
  <2>1. ~isExpired(d, t, k) /\ k \in DOMAIN d.list_store =>
           (hit1 <=> hit) /\ l1 = l /\ found1 = found
    BY <1>1
  <2>2. lrem(d, t, k, i, v) = UpdateList(d, t, k, hit, l, found, 0)
    BY DEF lrem, m
  <2>3. lrem(p, t, k, i, v) = UpdateList(p, t, k, hit1, l1, found1, 0)
    BY DEF lrem, n
  <2> HIDE DEF hit, l, found, hit1, l1, found1
  <2> QED
    BY <2>1, <2>2, <2>3, UpdateListEager
<1>5. Alike(lset(d, t, k, i, v), lset(p, t, k, i, v), t)
  <2> DEFINE hit == Position(m, i) \in 1..Len(m)
             l == [m EXCEPT ![Position(m, i)] = v]
             found == TRUE
             hit1 == Position(n, i) \in 1..Len(n)
             l1 == [n EXCEPT ![Position(n, i)] = v]
             found1 == TRUE
  <2>1. ~isExpired(d, t, k) /\ k \in DOMAIN d.list_store =>
           (hit1 <=> hit) /\ l1 = l /\ found1 = found
    BY <1>1
  <2>2. lset(d, t, k, i, v) = UpdateList(d, t, k, hit, l, found, FALSE)
    BY DEF lset, m
  <2>3. lset(p, t, k, i, v) = UpdateList(p, t, k, hit1, l1, found1, FALSE)
    BY DEF lset, n
  <2> HIDE DEF hit, l, found, hit1, l1, found1
  <2> QED
    BY <2>1, <2>2, <2>3, UpdateListEager
<1> QED
  BY <1>2, <1>3, <1>4, <1>5

\* HDEL.
LEMMA hdelAlike ==
    ASSUME NEW d, NEW p, NEW t \in Nat, Eager(d, p, t), Tracks(d), NEW k \in Key,
           NEW f
    PROVE  Alike(hdel(d, t, k, f), hdel(p, t, k, f), t)
<1>1. ~isExpired(p, t, k)
  BY PurgesLive DEF Eager
<1>2. Eager(DropExpired(d, t, k), DropExpired(p, t, k), t)
  BY DropExpiredEager
<1>3. CASE isExpired(d, t, k)
  <2>1. k \notin DOMAIN p.hash_store
    BY <1>3 DEF Eager, Purges, Absent, StoredKeys
  <2> QED
    BY <1>2, <1>3, <2>1 DEF hdel, Alike
<1>4. CASE ~isExpired(d, t, k)
  <2>1. /\ k \in DOMAIN p.hash_store <=> k \in DOMAIN d.hash_store
        /\ k \in DOMAIN d.hash_store => p.hash_store[k] = d.hash_store[k]
    BY <1>4, EagerStats DEF AgreeAt, Agree
  <2>2. CASE k \notin DOMAIN d.hash_store
    BY <1>1, <1>2, <1>4, <2>1, <2>2 DEF hdel, Alike
  <2>3. CASE k \in DOMAIN d.hash_store
    <3> DEFINE e == Touch(d, t, k)
               q == Touch(p, t, k)
               h == d.hash_store[k]
    <3>1. Eager(e, q, t) /\ ~isExpired(e, t, k)
      BY <1>4, TouchEager
    <3>2. Tracks(e)
      BY <2>3, TouchTracks DEF Eager, StoredKeys
    <3> HIDE DEF e, q
    <3>3. Eager(ReplaceHash(e, k, Erase(h, f)), ReplaceHash(q, k, Erase(h, f)), t)
      BY <3>1, <3>2, PutHashEager, delInternalEager DEF ReplaceHash
    <3>4. hdel(d, t, k, f) = [db |-> ReplaceHash(e, k, Erase(h, f)),
                              ret |-> f \in DOMAIN h]
      BY <1>4, <2>3 DEF hdel, e
    <3>5. hdel(p, t, k, f) = [db |-> ReplaceHash(q, k, Erase(h, f)),
                              ret |-> f \in DOMAIN h]
      BY <1>1, <1>4, <2>1, <2>3 DEF hdel, q
    <3> QED
      BY <3>3, <3>4, <3>5 DEF Alike
  <2> QED
    BY <2>2, <2>3
<1> QED
  BY <1>3, <1>4

-------------------------------------------------------------------------------
(* RENAME, on two related databases.                                         *)

\* Neither of the two maps has key n.
Lacking(f, g, n) == n \notin DOMAIN f /\ n \notin DOMAIN g /\ Mapped(g)

\* An entry moved, in two maps that have the same one and lack the new key.
LEMMA MoveEntryAgree ==
    ASSUME NEW f, NEW g, NEW o, NEW n \in Key, Lacking(f, g, n), Agree(f, g, o)
    PROVE  /\ Agree(MoveEntry(f, o, n), MoveEntry(g, o, n), n)
           /\ o \notin DOMAIN MoveEntry(f, o, n) /\ o \notin DOMAIN MoveEntry(g, o, n)
           /\ \A x : x \notin {o, n} => /\ Agree(f, MoveEntry(f, o, n), x)
                                       /\ Agree(g, MoveEntry(g, o, n), x)
           /\ Mapped(MoveEntry(g, o, n))
<1> USE DEF Lacking
<1>1. CASE o \in DOMAIN f
  <2>1. o \in DOMAIN g /\ g[o] = f[o] /\ o # n
    BY <1>1 DEF Agree
  <2>2. ASSUME NEW h, o \in DOMAIN h, n \notin DOMAIN h
        PROVE  /\ DOMAIN MoveEntry(h, o, n) = (DOMAIN h \cup {n}) \ {o}
               /\ MoveEntry(h, o, n)[n] = h[o]
               /\ \A x \in DOMAIN h \ {o} : MoveEntry(h, o, n)[x] = h[x]
               /\ Mapped(h) => Mapped(MoveEntry(h, o, n))
    BY <2>1, <2>2 DEF MoveEntry, Put, Erase, Restrict, Mapped
  <2> DEFINE e == MoveEntry(f, o, n)
             q == MoveEntry(g, o, n)
  <2>3. /\ DOMAIN e = (DOMAIN f \cup {n}) \ {o} /\ e[n] = f[o]
        /\ \A x \in DOMAIN f \ {o} : e[x] = f[x]
    BY <1>1, <2>2
  <2>4. /\ DOMAIN q = (DOMAIN g \cup {n}) \ {o} /\ q[n] = g[o]
        /\ \A x \in DOMAIN g \ {o} : q[x] = g[x]
        /\ Mapped(g) => Mapped(q)
    BY <2>1, <2>2
  <2> HIDE DEF e, q
  <2>5. Agree(e, q, n) /\ o \notin DOMAIN e /\ o \notin DOMAIN q
    BY <2>1, <2>3, <2>4 DEF Agree
  <2>6. ASSUME NEW x, x \notin {o, n} PROVE Agree(f, e, x) /\ Agree(g, q, x)
    BY <2>3, <2>4, <2>6 DEF Agree
  <2> QED
    BY <2>4, <2>5, <2>6 DEF e, q
<1>2. CASE o \notin DOMAIN f
  BY <1>2 DEF MoveEntry, Agree
<1> QED
  BY <1>1, <1>2

\* Statistics r with one more access.
OneMore(r, t) ==
    [r EXCEPT !.access_count = r.access_count + 1, !.last_access = t]

\* The metadata m when the new key n gets the statistics r of the old one.
Carried(m, r, n, t) ==
    recordAccess(SetStats(recordAccess(m, n, t), n, r), n, t)

\* In it, n has these statistics and one more access.
LEMMA CarriedStats ==
    ASSUME NEW m, NEW n \in Key, NEW t \in Nat, NEW r \in KeyStats
    PROVE  LET s == OneMore(r, t)
               c == Carried(m, r, n, t)
           IN  /\ n \in DOMAIN c /\ c[n] = s
               /\ s \in KeyStats /\ s.access_count > 0 /\ SameTTL(s, r)
               /\ \A x : x # n => Agree(m, c, x)
               /\ Mapped(m) => Mapped(c)
               /\ Counted(m) => Counted(c)
<1> DEFINE a == r.access_count + 1
           s == [r EXCEPT !.access_count = a, !.last_access = t]
           fresh == recordAccess(m, n, t)
           b == SetStats(fresh, n, r)
           c == recordAccess(b, n, t)
<1>1. DOMAIN fresh = DOMAIN m \cup {n} /\ \A x \in DOMAIN m \ {n} : fresh[x] = m[x]
  BY DEF recordAccess, SetStats
<1>2. fresh = [j \in DOMAIN fresh |-> fresh[j]]
  BY DEF recordAccess, SetStats
<1> HIDE DEF fresh
<1>3. /\ DOMAIN b = DOMAIN m \cup {n} /\ b[n] = r
      /\ \A x \in DOMAIN m \ {n} : b[x] = m[x]
  BY <1>1 DEF SetStats
<1> HIDE DEF b
<1>4. StatsOf(b, n, t) = r
  BY <1>3 DEF StatsOf, contains
<1>5. c = SetStats(b, n, s)
  BY <1>4 DEF recordAccess
<1>6. a \in Nat /\ a > 0
  BY DEF KeyStats
<1> HIDE DEF a
<1>7. s \in KeyStats /\ s.access_count = a /\ SameTTL(s, r)
  BY <1>6, Zenon DEF KeyStats, SameTTL
<1> HIDE DEF s
<1>8. /\ c = [j \in DOMAIN m \cup {n} |-> IF j = n THEN s ELSE m[j]]
  BY <1>3, <1>5 DEF SetStats
<1> HIDE DEF c
<1>9. s.access_count > 0
  BY <1>6, <1>7
<1>10. /\ n \in DOMAIN c /\ c[n] = s
       /\ \A x : x # n => Agree(m, c, x)
       /\ Mapped(m) => Mapped(c)
  BY <1>8 DEF Agree, Mapped
<1>11. Counted(m) => Counted(c)
  BY <1>7, <1>8, <1>9 DEF Counted
<1> QED
  BY <1>7, <1>9, <1>10, <1>11 DEF OneMore, Carried, s, c, b, fresh, a

\* The new key deleted, in both.
LEMMA NewKeyDeleted ==
    ASSUME NEW d, NEW p, NEW t, Eager(d, p, t), Tracks(d), NEW n \in Key
    PROVE  LET d1 == IF n \in StoredKeys(d) THEN delInternal(d, n) ELSE d
               p1 == IF n \in StoredKeys(p) THEN delInternal(p, n) ELSE p
           IN  /\ Eager(d1, p1, t)
               /\ Absent(d1, n) /\ Absent(p1, n)
               /\ Beside(d, d1, n)
<1> DEFINE e == delInternal(d, n)
           q == delInternal(p, n)
<1>1. n \in DOMAIN d.meta_store <=> n \in StoredKeys(d)
  BY DEF Tracks
<1>2. n \in DOMAIN p.meta_store <=> n \in StoredKeys(p)
  BY <1>1 DEF Eager, Purges, AgreeAt, Agree, Absent, StoredKeys
<1>3. /\ Eager(e, q, t)
      /\ isExpired(d, t, n) => Eager(e, p, t)
      /\ Absent(e, n) /\ Absent(q, n)
  BY delInternalEager
<1>4. Beside(d, e, n) /\ Beside(d, d, n)
  BY <1>1, delInternalParts DEF Beside, AgreeAt, Agree
<1>5. isExpired(d, t, n) => n \in StoredKeys(d) /\ n \notin StoredKeys(p)
  BY <1>1 DEF Eager, Purges, Absent, isExpired, contains
<1>6. ~isExpired(d, t, n) => (n \in StoredKeys(d) <=> n \in StoredKeys(p))
  BY EagerStats DEF AgreeAt, Agree, StoredKeys
<1>7. /\ n \notin StoredKeys(d) => Absent(d, n)
      /\ n \notin StoredKeys(p) => Absent(p, n)
  BY <1>1, <1>2 DEF Absent
<1> HIDE DEF e, q
<1> QED
  BY <1>3, <1>4, <1>5, <1>6, <1>7 DEF e, q

\* RENAME of a key that KEYS found, to any key.
LEMMA renameAlike ==
    ASSUME NEW d, NEW p, NEW t \in Nat, Eager(d, p, t), Tracks(d),
           NEW o \in StoredKeys(d), o \in Key, ~isExpired(d, t, o), NEW n \in Key
    PROVE  Alike(rename(d, t, o, n), rename(p, t, o, n), t)
<1> DEFINE d1 == IF n \in StoredKeys(d) THEN delInternal(d, n) ELSE d
           p1 == IF n \in StoredKeys(p) THEN delInternal(p, n) ELSE p
           Meta(c) ==
              LET meta == removeKey(c.meta_store, o)
                  hadStats == contains(c.meta_store, o)
                                /\ c.meta_store[o].access_count > 0
                  fresh == recordAccess(meta, n, t)
                  carried == IF hadStats
                             THEN SetStats(fresh, n, c.meta_store[o]) ELSE fresh
              IN  IF o \in StoredKeys(c) THEN recordAccess(carried, n, t) ELSE meta
           e == rename(d, t, o, n).db
           q == rename(p, t, o, n).db
<1>1. Eager(d1, p1, t) /\ Absent(d1, n) /\ Absent(p1, n) /\ Beside(d, d1, n)
  BY NewKeyDeleted
<1>2. ~isExpired(p, t, o)
  BY PurgesLive DEF Eager
<1>3. /\ IsRecord(e)
      /\ e.kv_store = MoveEntry(d1.kv_store, o, n)
      /\ e.list_store = MoveEntry(d1.list_store, o, n)
      /\ e.hash_store = MoveEntry(d1.hash_store, o, n)
      /\ e.meta_store = Meta(d1)
      /\ rename(d, t, o, n).ret = (o \in StoredKeys(d1))
  BY DEF rename, IsRecord
<1>4. /\ IsRecord(q)
      /\ q.kv_store = MoveEntry(p1.kv_store, o, n)
      /\ q.list_store = MoveEntry(p1.list_store, o, n)
      /\ q.hash_store = MoveEntry(p1.hash_store, o, n)
      /\ q.meta_store = Meta(p1)
      /\ rename(p, t, o, n).ret = (o \in StoredKeys(p1))
  BY <1>2 DEF rename, IsRecord
<1> HIDE DEF d1, p1, e, q
<1>5. ~isExpired(d1, t, o) /\ AgreeAt(d1, p1, o)
  <2>1. CASE o = n
    BY <1>1, <2>1 DEF Absent, AgreeAt, Agree, StoredKeys, isExpired, contains
  <2>2. CASE o # n
    <3>1. ~isExpired(d1, t, o)
      BY <1>1, <2>2 DEF Beside, AgreeAt, Agree, isExpired, contains
    <3> QED
      BY <1>1, <3>1, EagerStats
  <2> QED
    BY <2>1, <2>2
<1>6. o \in StoredKeys(p1) <=> o \in StoredKeys(d1)
  BY <1>5 DEF AgreeAt, Agree, StoredKeys
<1>17. /\ Lacking(d1.kv_store, p1.kv_store, n) /\ Agree(d1.kv_store, p1.kv_store, o)
       /\ Lacking(d1.list_store, p1.list_store, n) /\ Agree(d1.list_store, p1.list_store, o)
       /\ Lacking(d1.hash_store, p1.hash_store, n) /\ Agree(d1.hash_store, p1.hash_store, o)
       /\ Lacking(d1.meta_store, p1.meta_store, n) /\ Agree(d1.meta_store, p1.meta_store, o)
  BY <1>1, <1>5 DEF Absent, StoredKeys, AgreeAt, Eager, Maps, Lacking
<1>7. /\ Agree(e.kv_store, q.kv_store, n)
      /\ o \notin DOMAIN e.kv_store /\ o \notin DOMAIN q.kv_store
      /\ \A x : x \notin {o, n} => /\ Agree(d1.kv_store, e.kv_store, x)
                                  /\ Agree(p1.kv_store, q.kv_store, x)
      /\ Mapped(q.kv_store)
  BY <1>3, <1>4, <1>17, MoveEntryAgree
<1>8. /\ Agree(e.list_store, q.list_store, n)
      /\ o \notin DOMAIN e.list_store /\ o \notin DOMAIN q.list_store
      /\ \A x : x \notin {o, n} => /\ Agree(d1.list_store, e.list_store, x)
                                  /\ Agree(p1.list_store, q.list_store, x)
      /\ Mapped(q.list_store)
  BY <1>3, <1>4, <1>17, MoveEntryAgree
<1>9. /\ Agree(e.hash_store, q.hash_store, n)
      /\ o \notin DOMAIN e.hash_store /\ o \notin DOMAIN q.hash_store
      /\ \A x : x \notin {o, n} => /\ Agree(d1.hash_store, e.hash_store, x)
                                  /\ Agree(p1.hash_store, q.hash_store, x)
      /\ Mapped(q.hash_store)
  BY <1>3, <1>4, <1>17, MoveEntryAgree
<1>10. Counted(d1.meta_store) /\ Mapped(p1.meta_store)
  BY <1>1 DEF Eager, Maps
<1>11. /\ Agree(e.meta_store, q.meta_store, n)
       /\ ~isExpired(e, t, n)
       /\ o \notin DOMAIN e.meta_store /\ o \notin DOMAIN q.meta_store
       /\ \A x : x \notin {o, n} => /\ Agree(d1.meta_store, e.meta_store, x)
                                   /\ Agree(p1.meta_store, q.meta_store, x)
       /\ Mapped(q.meta_store) /\ Counted(e.meta_store)
  <2> DEFINE m == removeKey(d1.meta_store, o)
             g == removeKey(p1.meta_store, o)
             r == d1.meta_store[o]
  <2>1. ASSUME NEW f
        PROVE  /\ DOMAIN removeKey(f, o) = DOMAIN f \ {o}
               /\ \A x : x # o => Agree(f, removeKey(f, o), x)
               /\ Mapped(f) => Mapped(removeKey(f, o))
               /\ Counted(f) => Counted(removeKey(f, o))
    BY DEF removeKey, Restrict, Agree, Mapped, Counted
  <2>2. /\ DOMAIN m = DOMAIN d1.meta_store \ {o} /\ Counted(m)
        /\ DOMAIN g = DOMAIN p1.meta_store \ {o} /\ Mapped(g)
        /\ \A x : x # o => /\ Agree(d1.meta_store, m, x)
                           /\ Agree(p1.meta_store, g, x)
    BY <1>10, <2>1
  <2>3. CASE o = n
    <3>1. o \notin StoredKeys(d1) /\ o \notin StoredKeys(p1)
      BY <1>1, <2>3 DEF Absent
    <3>2. e.meta_store = m /\ q.meta_store = g
      BY <1>3, <1>4, <3>1
    <3> HIDE DEF m, g
    <3> QED
      BY <2>2, <2>3, <3>2 DEF Agree, isExpired, contains
  <2>4. CASE o # n
    <3>1. /\ o \in StoredKeys(d1) /\ o \in StoredKeys(p1)
          /\ o \in DOMAIN d1.meta_store /\ o \in DOMAIN p1.meta_store
          /\ p1.meta_store[o] = r
      BY <1>1, <1>5, <1>6, <2>4 DEF Beside, AgreeAt, Agree, StoredKeys, Tracks
    <3>2. r \in KeyStats /\ r.access_count > 0 /\ ~HasExpired(r, t)
      BY <1>5, <1>10, <3>1 DEF Counted, isExpired, contains
    <3> DEFINE s == OneMore(r, t)
               c == Carried(m, r, n, t)
               b == Carried(g, r, n, t)
    <3>3. e.meta_store = c
      BY <1>3, <3>1, <3>2 DEF contains, Carried
    <3>4. q.meta_store = b
      BY <1>4, <3>1, <3>2 DEF contains, Carried
    <3> HIDE DEF m, g, r
    <3>5. /\ n \in DOMAIN c /\ c[n] = s /\ SameTTL(s, r)
          /\ \A x : x # n => Agree(m, c, x)
          /\ Counted(m) => Counted(c)
      BY <3>2, CarriedStats
    <3>6. /\ n \in DOMAIN b /\ b[n] = s
          /\ \A x : x # n => Agree(g, b, x)
          /\ Mapped(b)
      BY <2>2, <3>2, CarriedStats
    <3> HIDE DEF s, c, b
    <3>7. ~HasExpired(s, t)
      BY <3>2, <3>5, SameTTLExpires
    <3>8. Agree(e.meta_store, q.meta_store, n) /\ ~isExpired(e, t, n)
      BY <3>3, <3>4, <3>5, <3>6, <3>7 DEF Agree, isExpired, contains
    <3>9. o \notin DOMAIN c /\ o \notin DOMAIN b
      BY <2>2, <2>4, <3>5, <3>6 DEF Agree
    <3>10. ASSUME NEW x, x \notin {o, n}
           PROVE  Agree(d1.meta_store, c, x) /\ Agree(p1.meta_store, b, x)
      BY <2>2, <3>5, <3>6, <3>10 DEF Agree
    <3> QED
      BY <2>2, <3>3, <3>4, <3>5, <3>6, <3>8, <3>9, <3>10
  <2> QED
    BY <2>3, <2>4
<1>12. Except(d1, e, {o, n}) /\ Except(p1, q, {o, n})
  BY <1>7, <1>8, <1>9, <1>11 DEF Except, AgreeAt
<1>13. ~isExpired(e, t, o)
  BY <1>11 DEF isExpired, contains
<1>14. AgreeAt(e, q, o) /\ AgreeAt(e, q, n)
  BY <1>7, <1>8, <1>9, <1>11 DEF AgreeAt, Agree
<1>15. Purges(e, q, t)
  BY <1>1, <1>11, <1>12, <1>13, <1>14, ChangeOfKeys DEF Eager
<1>16. Eager(e, q, t)
  BY <1>3, <1>4, <1>7, <1>8, <1>9, <1>11, <1>15 DEF Eager, Maps
<1> QED
  BY <1>3, <1>4, <1>6, <1>16 DEF Alike, e, q

-------------------------------------------------------------------------------
(* The writes, on two related databases.                                     *)

\* A TTL set on a live key of both.
LEMMA setTTLEager ==
    ASSUME NEW d, NEW p, NEW t \in Nat, Eager(d, p, t), NEW k \in DOMAIN d.meta_store,
           k \in Key, ~isExpired(d, t, k), NEW ttl \in Nat
    PROVE  Eager([d EXCEPT !.meta_store = setTTL(@, k, ttl, t)],
                 [p EXCEPT !.meta_store = setTTL(@, k, ttl, t)], t)
<1> DEFINE r == d.meta_store[k]
           s == [r EXCEPT !.ttl_initial_seconds = ttl, !.ttl_set_time = t,
                          !.last_access = t]
<1>1. r \in KeyStats /\ r.access_count > 0 /\ StatsOf(d.meta_store, k, t) = r
  BY DEF Eager, Counted, StatsOf, contains
<1>2. StatsOf(p.meta_store, k, t) = r
  BY <1>1, EagerStats
<1>3. setTTL(d.meta_store, k, ttl, t) = SetStats(d.meta_store, k, s)
  BY <1>1 DEF setTTL
<1>4. setTTL(p.meta_store, k, ttl, t) = SetStats(p.meta_store, k, s)
  BY <1>2 DEF setTTL
<1>5. IsRecord(d) /\ IsRecord(p)
  BY DEF Eager, Maps
<1> HIDE DEF s
<1>6. [d EXCEPT !.meta_store = setTTL(@, k, ttl, t)] = SetMeta(d, k, s)
  BY <1>3, <1>5 DEF IsRecord, SetMeta
<1>7. [p EXCEPT !.meta_store = setTTL(@, k, ttl, t)] = SetMeta(p, k, s)
  BY <1>4, <1>5 DEF IsRecord, SetMeta
<1> HIDE DEF r
<1>8. /\ s \in KeyStats /\ s.access_count = r.access_count
      /\ s.ttl_initial_seconds = ttl /\ s.ttl_set_time = t
  BY <1>1, Zenon DEF KeyStats, s
<1>9. ~HasExpired(s, t) /\ s.access_count > 0
  BY <1>1, <1>8 DEF HasExpired, getTTLRemaining
<1> QED
  BY <1>6, <1>7, <1>8, <1>9, SetMetaEager

\* What a set of databases leaves when their expired keys are removed.
Left(ds, t) == {<<Purged(e, t), TRUE>> : e \in ds}

(***************************************************************************)
(* The eviction of two related databases, with one entry too many at most. *)
(* If the first still holds a key that has expired, it evicts only such    *)
(* keys, and the second has room.  If it holds none, both choose between   *)
(* the same keys.                                                          *)
(***************************************************************************)
LEMMA EvictionAlike ==
    ASSUME EmptyKey \notin Key, NEW w, NEW v, NEW t, Eager(w, v, t),
           Good(w, t), Holds(w, MaxCacheSize + 1)
    PROVE  Left(checkAndEvict(w, t), t) = Left(checkAndEvict(v, t), t)
<1> DEFINE expired == {k \in DOMAIN w.meta_store : HasExpired(w.meta_store[k], t)}
<1>1. /\ MaxCacheSize \in Int /\ Tracks(w) /\ Typed(w, t)
      /\ DOMAIN w.meta_store \subseteq Key /\ StoredKeys(w) \subseteq Key
  BY DatabaseAssumption DEF Good, Typed, IsDatabase, IsMap, StoredKeys
<1>2. Purged(w, t) = Purged(v, t)
  BY EagerPurged
<1>3. CASE expired # {}
  <2>1. PICK y \in Key : y \in StoredKeys(w) /\ isExpired(w, t, y)
    BY <1>1, <1>3 DEF Tracks, isExpired, contains
  <2>2. ASSUME NEW z \in expired
        PROVE  Purged(delInternal(w, z), t) = Purged(v, t)
    <3>1. z \in Key /\ isExpired(w, t, z)
      BY <1>1 DEF isExpired, contains
    <3>2. Eager(delInternal(w, z), v, t)
      BY <1>1, <3>1, delInternalEager
    <3> QED
      BY <3>2, EagerPurged
  <2>3. Left(checkAndEvict(w, t), t) = {<<Purged(v, t), TRUE>>}
    <3>1. CASE getTotalKeyCount(w) <= MaxCacheSize
      BY <1>2, <3>1 DEF checkAndEvict, Left
    <3>2. CASE ~(getTotalKeyCount(w) <= MaxCacheSize)
      <4>1. KeysToEvict(w, t) = expired
        BY <1>1, <1>3 DEF KeysToEvict, evictCandidate
      <4>2. checkAndEvict(w, t) = {delInternal(w, z) : z \in expired}
        BY <3>2, <4>1 DEF checkAndEvict
      <4> HIDE DEF expired
      <4> QED
        BY <1>3, <2>2, <4>2 DEF Left
    <3> QED
      BY <3>1, <3>2
  <2>4. Shrinks(v, delInternal(w, y))
    <3>1. ASSUME NEW x \in StoredKeys(v) PROVE x # y /\ AgreeAt(w, v, x)
      BY <2>1, <3>1 DEF Eager, Maps, Mapped, Purges, Absent, StoredKeys
    <3>2. /\ DOMAIN delInternal(w, y).kv_store = DOMAIN w.kv_store \ {y}
          /\ DOMAIN delInternal(w, y).list_store = DOMAIN w.list_store \ {y}
          /\ DOMAIN delInternal(w, y).hash_store = DOMAIN w.hash_store \ {y}
      BY <1>1, delInternalTyped
    <3> QED
      BY <3>1, <3>2 DEF Shrinks, AgreeAt, Agree, StoredKeys
  <2>5. Holds(v, MaxCacheSize)
    BY <1>1, <2>1, <2>4, delInternalMakesRoom, ShrinksHolds
  <2>6. checkAndEvict(v, t) = {v}
    BY <2>5 DEF checkAndEvict, Holds
  <2> QED
    BY <2>3, <2>6 DEF Left
<1>4. CASE expired = {}
  <2>1. ASSUME NEW x \in Key PROVE AgreeAt(w, v, x)
    BY <1>4 DEF Eager, Purges, isExpired, contains
  <2>2. Mapped(w.kv_store) /\ Mapped(w.list_store) /\ Mapped(w.meta_store)
    BY <1>1 DEF Typed, IsDatabase, IsMap, Mapped
  <2>3. Mapped(v.kv_store) /\ Mapped(v.list_store) /\ Mapped(v.meta_store)
    BY DEF Eager, Maps
  <2>4. w.kv_store = v.kv_store
    BY <2>1, <2>2, <2>3, SameMap DEF AgreeAt, Agree
  <2>5. w.list_store = v.list_store
    BY <2>1, <2>2, <2>3, SameMap DEF AgreeAt, Agree
  <2>6. w.meta_store = v.meta_store
    BY <2>1, <2>2, <2>3, SameMap DEF AgreeAt, Agree
  <2>7. DOMAIN w.hash_store = DOMAIN v.hash_store
    BY <1>1, <2>1 DEF StoredKeys, Eager, Maps, Mapped, AgreeAt, Agree
  <2>8. getTotalKeyCount(w) = getTotalKeyCount(v)
    BY <2>4, <2>5, <2>7 DEF getTotalKeyCount
  <2>9. KeysToEvict(w, t) = KeysToEvict(v, t)
    BY <2>4, <2>5, <2>6, <2>7 DEF KeysToEvict, FallbackKeys
  <2>10. ASSUME NEW z \in KeysToEvict(w, t)
         PROVE  Purged(delInternal(w, z), t) = Purged(delInternal(v, z), t)
    <3>1. z \in Key
      BY <1>1 DEF KeysToEvict, FallbackKeys, evictCandidate, StoredKeys
    <3>2. Eager(delInternal(w, z), delInternal(v, z), t)
      BY <1>1, <3>1, delInternalEager
    <3> QED
      BY <3>2, EagerPurged
  <2> QED
    BY <1>2, <2>8, <2>9, <2>10, ZenonT(60) DEF checkAndEvict, Left
<1> QED
  BY <1>3, <1>4

\* The writes up to their eviction.
LEMMA UnevictedEager ==
    ASSUME NEW d, NEW p, NEW t \in Nat, Eager(d, p, t), Tracks(d), NEW k \in Key,
           NEW v, NEW fv
    PROVE  /\ Eager(SetUnevicted(d, t, k, v, 0), SetUnevicted(p, t, k, v, 0), t)
           /\ LET d1 == DropExpired(d, t, k)
                  l == ListAt(d1.list_store, k)
              IN  /\ ListAt(p.list_store, k) = l
                  /\ \A m : Eager(ListUnevicted(d1, t, k, m), ListUnevicted(p, t, k, m), t)
           /\ Eager(HashUnevicted(d, t, k, fv), HashUnevicted(p, t, k, fv), t)
<1> DEFINE d1 == DropExpired(d, t, k)
<1>1. Eager(d1, p, t) /\ ~isExpired(d1, t, k) /\ DropExpired(p, t, k) = p
  BY DropExpiredEager
<1> HIDE DEF d1
<1>2. AgreeAt(d1, p, k)
  BY <1>1, EagerStats
<1>3. Eager(SetUnevicted(d, t, k, v, 0), SetUnevicted(p, t, k, v, 0), t)
  <2> DEFINE e == [d1 EXCEPT !.kv_store = Put(@, k, v)]
             q == [p EXCEPT !.kv_store = Put(@, k, v)]
  <2>1. Eager(e, q, t) /\ ~isExpired(e, t, k)
    BY <1>1, PutStringEager
  <2>2. SetUnevicted(d, t, k, v, 0)
          = [Touch(e, t, k) EXCEPT !.meta_store = setTTL(@, k, 0, t)]
    BY DEF SetUnevicted, d1
  <2>3. SetUnevicted(p, t, k, v, 0)
          = [Touch(q, t, k) EXCEPT !.meta_store = setTTL(@, k, 0, t)]
    BY <1>1 DEF SetUnevicted
  <2> HIDE DEF e, q
  <2>4. Eager(Touch(e, t, k), Touch(q, t, k), t) /\ ~isExpired(Touch(e, t, k), t, k)
    BY <2>1, TouchEager
  <2>5. k \in DOMAIN Touch(e, t, k).meta_store
    <3>1. Touch(e, t, k).meta_store = recordAccess(e.meta_store, k, t)
      BY <2>1, TouchMeta DEF Eager
    <3> QED
      BY <3>1 DEF recordAccess, SetStats
  <2> QED
    BY <2>2, <2>3, <2>4, <2>5, setTTLEager
<1>4. ListAt(p.list_store, k) = ListAt(d1.list_store, k)
  BY <1>2 DEF ListAt, AgreeAt, Agree
<1>5. ASSUME NEW m
      PROVE  Eager(ListUnevicted(d1, t, k, m), ListUnevicted(p, t, k, m), t)
  BY <1>1, PutListEager, TouchEager DEF ListUnevicted
<1>6. Eager(HashUnevicted(d, t, k, fv), HashUnevicted(p, t, k, fv), t)
  <2> DEFINE h == Overlay(fv, HashAt(d1.hash_store, k))
             e == [d1 EXCEPT !.hash_store = Put(@, k, h)]
             q == [p EXCEPT !.hash_store = Put(@, k, h)]
  <2>1. HashAt(p.hash_store, k) = HashAt(d1.hash_store, k)
    BY <1>2 DEF HashAt, AgreeAt, Agree, Restrict
  <2>2. HashUnevicted(d, t, k, fv) = Touch(e, t, k)
    BY DEF HashUnevicted, d1
  <2>3. HashUnevicted(p, t, k, fv) = Touch(q, t, k)
    BY <1>1, <2>1 DEF HashUnevicted
  <2> HIDE DEF h
  <2>4. Eager(e, q, t) /\ ~isExpired(e, t, k)
    BY <1>1, PutHashEager
  <2> HIDE DEF e, q
  <2> QED
    BY <2>2, <2>3, <2>4, TouchEager
<1> QED
  BY <1>3, <1>4, <1>5, <1>6 DEF d1

\* Each write leaves the same of both.
LEMMA WritesAlike ==
    ASSUME EmptyKey \notin Key, NEW d, NEW p, NEW t \in Nat, Eager(d, p, t),
           Good(d, t), Holds(d, MaxCacheSize), NEW k \in Key
    PROVE  /\ \A v \in Value :
                 /\ Left(set(d, t, k, v, 0), t) = Left(set(p, t, k, v, 0), t)
                 /\ Left(lpush(d, t, k, v), t) = Left(lpush(p, t, k, v), t)
                 /\ Left(rpush(d, t, k, v), t) = Left(rpush(p, t, k, v), t)
           /\ \A fv \in FieldValues :
                 Left(hmset(d, t, k, fv), t) = Left(hmset(p, t, k, fv), t)
<1>1. Tracks(d)
  BY DEF Good
<1>2. ASSUME NEW v \in Value
      PROVE  Left(set(d, t, k, v, 0), t) = Left(set(p, t, k, v, 0), t)
  <2> DEFINE w == SetUnevicted(d, t, k, v, 0)
             x == SetUnevicted(p, t, k, v, 0)
  <2>1. Eager(w, x, t)
    BY <1>1, UnevictedEager
  <2>2. Good(w, t) /\ Holds(w, MaxCacheSize + 1)
    BY SetUnevictedGood
  <2>3. set(d, t, k, v, 0) = checkAndEvict(w, t)
    BY DEF set, SetUnevicted
  <2>4. set(p, t, k, v, 0) = checkAndEvict(x, t)
    BY DEF set, SetUnevicted
  <2> HIDE DEF w, x
  <2> QED
    BY <2>1, <2>2, <2>3, <2>4, EvictionAlike
<1>3. ASSUME NEW l \in Seq(Value)
      PROVE  Left(StoreList(DropExpired(d, t, k), t, k, l), t)
                = Left(StoreList(p, t, k, l), t)
  <2> DEFINE d1 == DropExpired(d, t, k)
             w == ListUnevicted(d1, t, k, l)
             x == ListUnevicted(p, t, k, l)
  <2>1. Eager(w, x, t)
    BY <1>1, UnevictedEager
  <2>2. Good(d1, t) /\ Holds(d1, MaxCacheSize)
    BY DatabaseAssumption, DropExpiredGood, ShrinksHolds
  <2>3. StoreList(d1, t, k, l) = checkAndEvict(w, t)
    BY DEF StoreList, ListUnevicted
  <2>4. StoreList(p, t, k, l) = checkAndEvict(x, t)
    BY DEF StoreList, ListUnevicted
  <2> HIDE DEF d1
  <2>5. Good(w, t) /\ Holds(w, MaxCacheSize + 1)
    BY <2>2, ListUnevictedGood
  <2> HIDE DEF w, x
  <2>6. Left(StoreList(d1, t, k, l), t) = Left(StoreList(p, t, k, l), t)
    BY <2>1, <2>3, <2>4, <2>5, EvictionAlike
  <2> QED
    BY <2>6 DEF d1
<1>4. ASSUME NEW v \in Value
      PROVE  /\ Left(lpush(d, t, k, v), t) = Left(lpush(p, t, k, v), t)
             /\ Left(rpush(d, t, k, v), t) = Left(rpush(p, t, k, v), t)
  <2> DEFINE d1 == DropExpired(d, t, k)
             l == ListAt(d1.list_store, k)
  <2>1. ListAt(p.list_store, k) = l
    BY <1>1, UnevictedEager
  <2>2. DropExpired(p, t, k) = p
    BY <1>1, DropExpiredEager
  <2>3. Good(d1, t)
    BY DropExpiredGood
  <2>4. /\ lpush(d, t, k, v) = StoreList(d1, t, k, <<v>> \o l)
        /\ rpush(d, t, k, v) = StoreList(d1, t, k, Append(l, v))
    BY DEF lpush, rpush
  <2>5. /\ lpush(p, t, k, v) = StoreList(p, t, k, <<v>> \o l)
        /\ rpush(p, t, k, v) = StoreList(p, t, k, Append(l, v))
    BY <2>1, <2>2 DEF lpush, rpush
  <2> HIDE DEF d1
  <2>6. l \in Seq(Value)
    BY <2>3, ListAtTyped
  <2> HIDE DEF l
  <2>7. <<v>> \o l \in Seq(Value) /\ Append(l, v) \in Seq(Value)
    BY <2>6
  <2> QED
    BY <1>3, <2>4, <2>5, <2>7 DEF d1
<1>5. ASSUME NEW fv \in FieldValues
      PROVE  Left(hmset(d, t, k, fv), t) = Left(hmset(p, t, k, fv), t)
  <2> DEFINE w == HashUnevicted(d, t, k, fv)
             x == HashUnevicted(p, t, k, fv)
  <2>1. Eager(w, x, t)
    BY <1>1, UnevictedEager
  <2>2. IsMap(fv, Field, Value)
    BY DEF FieldValues, IsMap
  <2>3. Good(w, t) /\ Holds(w, MaxCacheSize + 1)
    BY <2>2, HashUnevictedGood
  <2>4. hmset(d, t, k, fv) = checkAndEvict(w, t)
    BY DEF hmset, HashUnevicted
  <2>5. hmset(p, t, k, fv) = checkAndEvict(x, t)
    BY DEF hmset, HashUnevicted
  <2> HIDE DEF w, x
  <2> QED
    BY <2>1, <2>3, <2>4, <2>5, EvictionAlike
<1> QED
  BY <1>2, <1>4, <1>5

\* What an operation leaves, with its reply.
Done(r, t) == {<<Purged(r.db, t), r.ret>>}

\* Operations that are alike leave the same.
LEMMA AlikeDone ==
    ASSUME NEW r, NEW s, NEW t, Alike(r, s, t)
    PROVE  Done(r, t) = Done(s, t)
BY EagerPurged DEF Alike, Done

(***************************************************************************)
(* No write can tell either: every operation that changes the database,    *)
(* asked of any key, replies and leaves, expired keys aside, exactly what  *)
(* it would if the expired keys had been removed before; the choices of    *)
(* its eviction are included.  The capacity is part of the argument: it    *)
(* bounds what a write adds, so that the eviction of an expired key makes  *)
(* room enough.  The empty string must not be a key.                       *)
(***************************************************************************)
THEOREM UpdatesIgnoreExpired ==
    ASSUME EmptyKey \notin Key
    PROVE  Spec => []LazyUpdatesInvisible
<1>1. ASSUME IInv, Full(db) PROVE LazyUpdatesInvisible
  <2> DEFINE d == db
             t == now
             p == Purged(db, now)
  <2>1. Good(d, t) /\ Holds(d, MaxCacheSize) /\ t \in Nat /\ Tracks(d)
    BY <1>1, IInvGood DEF Good, IInv
  <2>2. Eager(d, p, t)
    BY <1>1, PurgedEager
  <2>3. StoredKeys(d) \subseteq Key
    BY <2>1 DEF Good, Typed, IsDatabase, IsMap, StoredKeys
  <2>4. keys(d, t).ret = keys(p, t).ret
    BY <2>3, KeysAlike
  <2>5. \A o \in keys(d, t).ret :
           o \in StoredKeys(d) /\ o \in Key /\ ~isExpired(d, t, o)
    BY <2>3 DEF keys
  <2> SUFFICES ASSUME NEW k \in Key
               PROVE  Outcomes(d, t, k) = Outcomes(p, t, k)
    BY DEF LazyUpdatesInvisible
  <2> HIDE DEF d, t, p
  <2>6. [v \in Value |-> Left(set(d, t, k, v, 0), t)]
          = [v \in Value |-> Left(set(p, t, k, v, 0), t)]
    BY <2>1, <2>2, WritesAlike
  <2>7. [v \in Value |-> Left(lpush(d, t, k, v), t)]
          = [v \in Value |-> Left(lpush(p, t, k, v), t)]
    BY <2>1, <2>2, WritesAlike
  <2>8. [v \in Value |-> Left(rpush(d, t, k, v), t)]
          = [v \in Value |-> Left(rpush(p, t, k, v), t)]
    BY <2>1, <2>2, WritesAlike
  <2>9. [fv \in FieldValues |-> Left(hmset(d, t, k, fv), t)]
          = [fv \in FieldValues |-> Left(hmset(p, t, k, fv), t)]
    BY <2>1, <2>2, WritesAlike
  <2>10. [o \in keys(d, t).ret |-> Done(rename(d, t, o, k), t)]
           = [o \in keys(p, t).ret |-> Done(rename(p, t, o, k), t)]
    <3>1. ASSUME NEW o \in keys(d, t).ret
          PROVE  Done(rename(d, t, o, k), t) = Done(rename(p, t, o, k), t)
      BY <2>1, <2>2, <2>5, renameAlike, AlikeDone
    <3> QED
      BY <2>4, <3>1
  <2>11. /\ Done(lpop(d, t, k), t) = Done(lpop(p, t, k), t)
         /\ Done(rpop(d, t, k), t) = Done(rpop(p, t, k), t)
    BY <2>1, <2>2, ListOpsAlike, AlikeDone
  <2>12. ASSUME NEW v, NEW i
         PROVE  /\ Done(lrem(d, t, k, i, v), t) = Done(lrem(p, t, k, i, v), t)
                /\ Done(lset(d, t, k, i, v), t) = Done(lset(p, t, k, i, v), t)
    BY <2>1, <2>2, ListOpsAlike, AlikeDone
  <2>13. [v \in Value |-> [c \in Counts |-> Done(lrem(d, t, k, c, v), t)]]
           = [v \in Value |-> [c \in Counts |-> Done(lrem(p, t, k, c, v), t)]]
    BY <2>12
  <2>14. [v \in Value |-> [i \in Indexes |-> Done(lset(d, t, k, i, v), t)]]
           = [v \in Value |-> [i \in Indexes |-> Done(lset(p, t, k, i, v), t)]]
    BY <2>12
  <2>15. [f \in Field |-> Done(hdel(d, t, k, f), t)]
           = [f \in Field |-> Done(hdel(p, t, k, f), t)]
    BY <2>1, <2>2, hdelAlike, AlikeDone
  <2> QED
    BY <2>6, <2>7, <2>8, <2>9, <2>10, <2>11, <2>13, <2>14, <2>15
       DEF Outcomes, Left, Done
<1>2. IInv /\ Full(db) => LazyUpdatesInvisible
  BY <1>1
<1> QED
  BY <1>2, AlwaysFull, PTL
===============================================================================
