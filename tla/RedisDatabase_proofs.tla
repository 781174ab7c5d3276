------------------------- MODULE RedisDatabase_proofs -------------------------
(***************************************************************************)
(* Proofs about RedisDatabase, for every set of keys, fields and values,   *)
(* every capacity and every TTL: TypeOK, MetaTracksStores and              *)
(* WithinCapacity are invariants, and, in a second part, so are            *)
(* NoEmptyCollections and StatsPopulated.  One lemma per helper of the     *)
(* class says what it preserves, one per operation composes them.          *)
(***************************************************************************)
EXTENDS RedisDatabaseProperties, FiniteSetTheorems, SequenceTheorems, TLAPS

\* The state part of TypeOK, for a database d at time t.
Typed(d, t) ==
    /\ IsDatabase(d)
    /\ \A k \in DOMAIN d.meta_store :
          /\ d.meta_store[k].last_access <= t
          /\ d.meta_store[k].ttl_set_time <= t

Tracks(d) == DOMAIN d.meta_store = StoredKeys(d)

\* The inductive invariant: what every operation relies on and restores.
Good(d, t) == Typed(d, t) /\ Tracks(d)

FiniteStores(d) ==
    /\ IsFiniteSet(DOMAIN d.kv_store)
    /\ IsFiniteSet(DOMAIN d.list_store)
    /\ IsFiniteSet(DOMAIN d.hash_store)

\* At most n entries in the stores together.
Holds(d, n) == FiniteStores(d) /\ getTotalKeyCount(d) <= n

\* Database e has no key in a store where d has not.
Shrinks(e, d) ==
    /\ DOMAIN e.kv_store \subseteq DOMAIN d.kv_store
    /\ DOMAIN e.list_store \subseteq DOMAIN d.list_store
    /\ DOMAIN e.hash_store \subseteq DOMAIN d.hash_store

\* Metadata well typed and not from the future.
TypedMeta(m, t) ==
    /\ IsMap(m, Key, KeyStats)
    /\ \A k \in DOMAIN m : m[k].last_access <= t /\ m[k].ttl_set_time <= t

-------------------------------------------------------------------------------
(* The metadata.                                                             *)

\* Storing well-typed statistics keeps the metadata well typed.
LEMMA SetStatsTyped ==
    ASSUME NEW m, NEW t \in Nat, TypedMeta(m, t), NEW k \in Key,
           NEW s \in KeyStats, s.last_access <= t, s.ttl_set_time <= t
    PROVE  TypedMeta(SetStats(m, k, s), t)
BY DEF TypedMeta, IsMap, SetStats

\* The statistics found or created for a key are well typed.
LEMMA StatsOfTyped ==
    ASSUME NEW m, NEW t \in Nat, TypedMeta(m, t), NEW k
    PROVE  /\ StatsOf(m, k, t) \in KeyStats
           /\ StatsOf(m, k, t).last_access <= t
           /\ StatsOf(m, k, t).ttl_set_time <= t
BY DEF TypedMeta, IsMap, StatsOf, DefaultStats, KeyStats, contains

\* recordAccess keeps the metadata well typed.
LEMMA recordAccessTyped ==
    ASSUME NEW m, NEW t \in Nat, TypedMeta(m, t), NEW k \in Key
    PROVE  TypedMeta(recordAccess(m, k, t), t)
<1> DEFINE r == StatsOf(m, k, t)
           n == r.access_count + 1
           s == [r EXCEPT !.access_count = n, !.last_access = t]
<1>1. r \in KeyStats /\ r.ttl_set_time <= t
  BY StatsOfTyped
<1>2. recordAccess(m, k, t) = SetStats(m, k, s)
  BY DEF recordAccess
<1>3. n \in Nat
  BY <1>1 DEF KeyStats
<1> HIDE DEF r, n
<1>4. s \in KeyStats /\ s.last_access = t /\ s.ttl_set_time = r.ttl_set_time
  BY <1>1, <1>3, Zenon DEF KeyStats
<1>5. s.last_access <= t /\ s.ttl_set_time <= t
  BY <1>1, <1>4
<1> HIDE DEF s
<1>6. s \in KeyStats
  BY <1>4
<1>7. TypedMeta(SetStats(m, k, s), t)
  BY <1>5, <1>6, SetStatsTyped
<1> QED
  BY <1>2, <1>7

\* So does setTTL.
LEMMA setTTLTyped ==
    ASSUME NEW m, NEW t \in Nat, TypedMeta(m, t), NEW k \in Key, NEW ttl \in Nat
    PROVE  TypedMeta(setTTL(m, k, ttl, t), t)
<1> DEFINE r == StatsOf(m, k, t)
           s == [r EXCEPT !.ttl_initial_seconds = ttl, !.ttl_set_time = t,
                          !.last_access = t]
<1>1. r \in KeyStats
  BY StatsOfTyped
<1>2. setTTL(m, k, ttl, t) = SetStats(m, k, s)
  BY DEF setTTL
<1> HIDE DEF r
<1>3. s \in KeyStats /\ s.last_access = t /\ s.ttl_set_time = t
  BY <1>1, Zenon DEF KeyStats
<1>4. s.last_access <= t /\ s.ttl_set_time <= t
  BY <1>3
<1> HIDE DEF s
<1>5. s \in KeyStats
  BY <1>3
<1>6. s.last_access <= t /\ s.ttl_set_time <= t
  BY <1>4
<1>7. TypedMeta(SetStats(m, k, s), t)
  BY <1>5, <1>6, SetStatsTyped
<1> QED
  BY <1>2, <1>7

\* removeKey keeps the metadata well typed and removes exactly its key.
LEMMA removeKeyTyped ==
    ASSUME NEW m, NEW t, TypedMeta(m, t), NEW k
    PROVE  /\ TypedMeta(removeKey(m, k), t)
           /\ DOMAIN removeKey(m, k) = DOMAIN m \ {k}
BY DEF TypedMeta, IsMap, removeKey, Restrict

-------------------------------------------------------------------------------
(* The private helpers.                                                      *)

\* Typed(d, t) component by component.
LEMMA TypedParts ==
    ASSUME NEW d, NEW t
    PROVE  Typed(d, t) <=>
             /\ d = [kv_store |-> d.kv_store, list_store |-> d.list_store,
                     hash_store |-> d.hash_store, meta_store |-> d.meta_store]
             /\ IsMap(d.kv_store, Key, Value)
             /\ IsMap(d.list_store, Key, Seq(Value))
             /\ DOMAIN d.hash_store \subseteq Key
             /\ \A k \in DOMAIN d.hash_store : IsMap(d.hash_store[k], Field, Value)
             /\ TypedMeta(d.meta_store, t)
BY DEF Typed, IsDatabase, TypedMeta

\* delInternal keeps the types and takes the key out of every store; out of
\* the metadata as well when the metadata followed the stores.
LEMMA delInternalTyped ==
    ASSUME NEW d, NEW t, Typed(d, t), NEW k
    PROVE  LET e == delInternal(d, k)
           IN  /\ Typed(e, t)
               /\ DOMAIN e.kv_store = DOMAIN d.kv_store \ {k}
               /\ DOMAIN e.list_store = DOMAIN d.list_store \ {k}
               /\ DOMAIN e.hash_store = DOMAIN d.hash_store \ {k}
               /\ Tracks(d) => Tracks(e)
<1> DEFINE e == delInternal(d, k)
<1>1. TypedMeta(e.meta_store, t)
  BY removeKeyTyped, TypedParts DEF delInternal
<1>2. Typed(e, t)
  BY <1>1, TypedParts DEF delInternal, IsMap, Erase, Restrict
<1>3. /\ DOMAIN e.kv_store = DOMAIN d.kv_store \ {k}
      /\ DOMAIN e.list_store = DOMAIN d.list_store \ {k}
      /\ DOMAIN e.hash_store = DOMAIN d.hash_store \ {k}
  BY DEF delInternal, Erase, Restrict
<1>4. ASSUME Tracks(d) PROVE Tracks(e)
  BY <1>3, <1>4 DEF delInternal, Tracks, StoredKeys, removeKey, Restrict
<1> QED
  BY <1>2, <1>3, <1>4

\* Recording an access changes only the metadata, by at most its key.
LEMMA TouchTyped ==
    ASSUME NEW d, NEW t \in Nat, Typed(d, t), NEW k \in Key
    PROVE  LET e == Touch(d, t, k)
           IN  /\ Typed(e, t)
               /\ e.kv_store = d.kv_store
               /\ e.list_store = d.list_store
               /\ e.hash_store = d.hash_store
               /\ DOMAIN e.meta_store = DOMAIN d.meta_store \cup {k}
<1>1. TypedMeta(d.meta_store, t)
  BY TypedParts
<1>2. TypedMeta(recordAccess(d.meta_store, k, t), t)
  BY <1>1, recordAccessTyped
<1>3. DOMAIN recordAccess(d.meta_store, k, t) = DOMAIN d.meta_store \cup {k}
  BY DEF recordAccess, SetStats
<1> QED
  BY <1>2, <1>3, TypedParts DEF Touch

\* delInternal as a shrinking step.
LEMMA delInternalGood ==
    ASSUME NEW d, NEW t, Good(d, t), NEW k
    PROVE  Good(delInternal(d, k), t) /\ Shrinks(delInternal(d, k), d)
BY delInternalTyped DEF Good, Shrinks

\* An access to a key that is stored.
LEMMA TouchGood ==
    ASSUME NEW d, NEW t \in Nat, Good(d, t), NEW k \in Key, k \in StoredKeys(d)
    PROVE  Good(Touch(d, t, k), t) /\ Shrinks(Touch(d, t, k), d)
<1> DEFINE e == Touch(d, t, k)
<1>1. Typed(d, t) /\ DOMAIN d.meta_store = StoredKeys(d)
  BY DEF Good, Tracks
<1>2. /\ Typed(e, t)
      /\ e.kv_store = d.kv_store
      /\ e.list_store = d.list_store
      /\ e.hash_store = d.hash_store
      /\ DOMAIN e.meta_store = DOMAIN d.meta_store \cup {k}
  BY <1>1, TouchTyped
<1> HIDE DEF e
<1>3. Tracks(e)
  BY <1>1, <1>2 DEF Tracks, StoredKeys
<1>4. Shrinks(e, d)
  BY <1>2 DEF Shrinks
<1> QED
  BY <1>2, <1>3, <1>4 DEF Good, e

\* Dropping the expired key first.
LEMMA DropExpiredGood ==
    ASSUME NEW d, NEW t, Good(d, t), NEW k
    PROVE  Good(DropExpired(d, t, k), t) /\ Shrinks(DropExpired(d, t, k), d)
<1>1. Shrinks(d, d)
  BY DEF Shrinks
<1> QED
  BY <1>1, delInternalGood DEF DropExpired

\* Every reading operation: expired, hit or missed.
LEMMA ReadOpGood ==
    ASSUME NEW d, NEW t \in Nat, Good(d, t), NEW k \in Key,
           NEW hit, NEW found, NEW missed, hit => k \in StoredKeys(d)
    PROVE  LET e == ReadOp(d, t, k, hit, found, missed).db
           IN  Good(e, t) /\ Shrinks(e, d)
<1>1. CASE ~isExpired(d, t, k) /\ hit
  <2>1. Good(Touch(d, t, k), t) /\ Shrinks(Touch(d, t, k), d)
    BY <1>1, TouchGood
  <2> QED
    BY <1>1, <2>1 DEF ReadOp
<1>2. CASE ~(~isExpired(d, t, k) /\ hit)
  BY <1>2, DropExpiredGood DEF ReadOp
<1> QED
  BY <1>1, <1>2

-------------------------------------------------------------------------------
(* Counting.                                                                 *)

\* The total is a natural number.
LEMMA TotalType ==
    ASSUME NEW d, FiniteStores(d)
    PROVE  /\ Cardinality(DOMAIN d.kv_store) \in Nat
           /\ Cardinality(DOMAIN d.list_store) \in Nat
           /\ Cardinality(DOMAIN d.hash_store) \in Nat
           /\ getTotalKeyCount(d) \in Nat
BY FS_CardinalityType DEF FiniteStores, getTotalKeyCount

\* A shrunken database fits wherever the old one did.
LEMMA ShrinksHolds ==
    ASSUME NEW d, NEW e, NEW n \in Int, Holds(d, n), Shrinks(e, d)
    PROVE  Holds(e, n)
<1>1. FiniteStores(e)
  BY FS_Subset DEF Holds, FiniteStores, Shrinks
<1>2. /\ Cardinality(DOMAIN e.kv_store) <= Cardinality(DOMAIN d.kv_store)
      /\ Cardinality(DOMAIN e.list_store) <= Cardinality(DOMAIN d.list_store)
      /\ Cardinality(DOMAIN e.hash_store) <= Cardinality(DOMAIN d.hash_store)
  BY FS_Subset DEF Holds, FiniteStores, Shrinks
<1> QED
  BY <1>1, <1>2, TotalType DEF Holds, getTotalKeyCount

\* delInternal of a stored key makes room for at least one entry.
LEMMA delInternalMakesRoom ==
    ASSUME NEW d, NEW t, Typed(d, t), NEW n \in Int, Holds(d, n + 1),
           NEW k \in StoredKeys(d)
    PROVE  Holds(delInternal(d, k), n)
<1> DEFINE e == delInternal(d, k)
<1>1. /\ DOMAIN e.kv_store = DOMAIN d.kv_store \ {k}
      /\ DOMAIN e.list_store = DOMAIN d.list_store \ {k}
      /\ DOMAIN e.hash_store = DOMAIN d.hash_store \ {k}
  BY delInternalTyped
<1> HIDE DEF e
<1>2. FiniteStores(d)
  BY DEF Holds
<1>3. FiniteStores(e)
  BY <1>1, <1>2, FS_Subset DEF FiniteStores
<1>4. /\ Cardinality(DOMAIN e.kv_store) =
           IF k \in DOMAIN d.kv_store THEN Cardinality(DOMAIN d.kv_store) - 1
                                      ELSE Cardinality(DOMAIN d.kv_store)
      /\ Cardinality(DOMAIN e.list_store) =
           IF k \in DOMAIN d.list_store THEN Cardinality(DOMAIN d.list_store) - 1
                                        ELSE Cardinality(DOMAIN d.list_store)
      /\ Cardinality(DOMAIN e.hash_store) =
           IF k \in DOMAIN d.hash_store THEN Cardinality(DOMAIN d.hash_store) - 1
                                        ELSE Cardinality(DOMAIN d.hash_store)
  BY <1>1, <1>2, FS_RemoveElement DEF FiniteStores
<1>5. getTotalKeyCount(e) <= getTotalKeyCount(d) - 1
  BY <1>2, <1>3, <1>4, TotalType DEF getTotalKeyCount, StoredKeys
<1> QED
  BY <1>2, <1>3, <1>5, TotalType DEF Holds, e

(***************************************************************************)
(* checkAndEvict brings a database with one entry too many back within the *)
(* capacity: as every key has metadata and every metadata entry a key, the *)
(* candidate is always a stored key.                                       *)
(***************************************************************************)
LEMMA checkAndEvictGood ==
    ASSUME NEW d, NEW t, Good(d, t), Holds(d, MaxCacheSize + 1),
           NEW e \in checkAndEvict(d, t)
    PROVE  Good(e, t) /\ Holds(e, MaxCacheSize)
<1>1. MaxCacheSize \in Nat
  BY DatabaseAssumption
<1>2. CASE getTotalKeyCount(d) <= MaxCacheSize
  BY <1>2 DEF checkAndEvict, Holds
<1>3. CASE ~(getTotalKeyCount(d) <= MaxCacheSize)
  <2>1. PICK k \in KeysToEvict(d, t) : e = delInternal(d, k)
    BY <1>3 DEF checkAndEvict
  <2>2. evictCandidate(d.meta_store, t) \subseteq DOMAIN d.meta_store
    BY DEF evictCandidate
  <2>3. k \in StoredKeys(d)
    BY <2>2 DEF KeysToEvict, FallbackKeys, StoredKeys, Good, Tracks
  <2>4. Holds(e, MaxCacheSize)
    BY <1>1, <2>1, <2>3, delInternalMakesRoom DEF Good
  <2> QED
    BY <2>1, <2>4, delInternalGood
<1> QED
  BY <1>2, <1>3

\* Adding an entry to one store keeps the stores finite and adds at most one.
LEMMA PutHolds ==
    ASSUME NEW d, NEW e, NEW k, NEW n \in Int, Holds(d, n),
           \/ /\ DOMAIN e.kv_store = DOMAIN d.kv_store \cup {k}
              /\ e.list_store = d.list_store
              /\ e.hash_store = d.hash_store
           \/ /\ e.kv_store = d.kv_store
              /\ DOMAIN e.list_store = DOMAIN d.list_store \cup {k}
              /\ e.hash_store = d.hash_store
           \/ /\ e.kv_store = d.kv_store
              /\ e.list_store = d.list_store
              /\ DOMAIN e.hash_store = DOMAIN d.hash_store \cup {k}
    PROVE  Holds(e, n + 1)
<1>1. FiniteStores(d)
  BY DEF Holds
<1>2. ASSUME NEW S, IsFiniteSet(S)
      PROVE  /\ IsFiniteSet(S \cup {k})
             /\ Cardinality(S) \in Nat
             /\ Cardinality(S \cup {k}) \in Nat
             /\ Cardinality(S \cup {k}) <= Cardinality(S) + 1
  <2>1. /\ IsFiniteSet(S \cup {k})
        /\ Cardinality(S \cup {k}) =
              IF k \in S THEN Cardinality(S) ELSE Cardinality(S) + 1
    BY <1>2, FS_AddElement
  <2>2. Cardinality(S) \in Nat
    BY <1>2, FS_CardinalityType
  <2> QED
    BY <2>1, <2>2
<1>3. FiniteStores(e)
  BY <1>1, <1>2 DEF FiniteStores
<1>4. LET Grows(x, y) == Cardinality(DOMAIN y) <= Cardinality(DOMAIN x) + 1
      IN  \/ /\ Grows(d.kv_store, e.kv_store)
             /\ e.list_store = d.list_store
             /\ e.hash_store = d.hash_store
          \/ /\ e.kv_store = d.kv_store
             /\ Grows(d.list_store, e.list_store)
             /\ e.hash_store = d.hash_store
          \/ /\ e.kv_store = d.kv_store
             /\ e.list_store = d.list_store
             /\ Grows(d.hash_store, e.hash_store)
  BY <1>1, <1>2 DEF FiniteStores
<1>5. getTotalKeyCount(e) <= getTotalKeyCount(d) + 1
  BY <1>1, <1>3, <1>4, TotalType DEF getTotalKeyCount
<1> QED
  BY <1>1, <1>3, <1>5, TotalType DEF Holds

\* Put keeps a map typed.
LEMMA PutTyped ==
    ASSUME NEW f, NEW S, NEW T, IsMap(f, S, T), NEW k \in S, NEW x \in T
    PROVE  IsMap(Put(f, k, x), S, T)
BY DEF IsMap, Put

(***************************************************************************)
(* What the writing operations share: from a good database d that fits,    *)
(* drop the expired key, put an entry into one store, record the access,   *)
(* possibly set the TTL, and evict.                                        *)
(***************************************************************************)
LEMMA WriteGood ==
    ASSUME NEW d, NEW e, NEW t \in Nat, Good(d, t), Holds(d, MaxCacheSize),
           NEW k \in Key, Typed(e, t), e.meta_store = d.meta_store,
           \/ /\ DOMAIN e.kv_store = DOMAIN d.kv_store \cup {k}
              /\ e.list_store = d.list_store
              /\ e.hash_store = d.hash_store
           \/ /\ e.kv_store = d.kv_store
              /\ DOMAIN e.list_store = DOMAIN d.list_store \cup {k}
              /\ e.hash_store = d.hash_store
           \/ /\ e.kv_store = d.kv_store
              /\ e.list_store = d.list_store
              /\ DOMAIN e.hash_store = DOMAIN d.hash_store \cup {k}
    PROVE  /\ Good(Touch(e, t, k), t)
           /\ Holds(Touch(e, t, k), MaxCacheSize + 1)
           /\ k \in StoredKeys(Touch(e, t, k))
<1> DEFINE c == Touch(e, t, k)
<1>1. /\ Typed(c, t)
      /\ c.kv_store = e.kv_store
      /\ c.list_store = e.list_store
      /\ c.hash_store = e.hash_store
      /\ DOMAIN c.meta_store = DOMAIN e.meta_store \cup {k}
  BY TouchTyped
<1> HIDE DEF c
<1>2. DOMAIN d.meta_store = StoredKeys(d)
  BY DEF Good, Tracks
<1>3. StoredKeys(c) = StoredKeys(d) \cup {k}
  BY <1>1 DEF StoredKeys
<1>4. Good(c, t)
  BY <1>1, <1>2, <1>3 DEF Good, Tracks
<1>5. MaxCacheSize \in Int
  BY DatabaseAssumption
<1>6. Holds(e, MaxCacheSize + 1)
  BY <1>5, PutHolds
<1>7. Shrinks(c, e)
  BY <1>1 DEF Shrinks
<1>8. Holds(c, MaxCacheSize + 1)
  BY <1>5, <1>6, <1>7, ShrinksHolds
<1> QED
  BY <1>3, <1>4, <1>8 DEF c

\* Setting the TTL of a stored key.
LEMMA setTTLGood ==
    ASSUME NEW d, NEW t \in Nat, Good(d, t), NEW k \in Key, NEW ttl \in Nat,
           k \in StoredKeys(d)
    PROVE  LET e == [d EXCEPT !.meta_store = setTTL(@, k, ttl, t)]
           IN  Good(e, t) /\ Shrinks(e, d) /\ StoredKeys(e) = StoredKeys(d)
<1> DEFINE m == setTTL(d.meta_store, k, ttl, t)
           e == [d EXCEPT !.meta_store = m]
<1>1. Typed(d, t) /\ DOMAIN d.meta_store = StoredKeys(d)
  BY DEF Good, Tracks
<1>2. TypedMeta(d.meta_store, t)
  BY <1>1, TypedParts
<1> HIDE DEF m, e
<1>3. TypedMeta(m, t) /\ DOMAIN m = DOMAIN d.meta_store \cup {k}
  <2>1. TypedMeta(m, t)
    BY <1>2, setTTLTyped DEF m
  <2>2. DOMAIN m = DOMAIN d.meta_store \cup {k}
    BY DEF m, setTTL, SetStats
  <2> QED
    BY <2>1, <2>2
<1>4. /\ e = [kv_store |-> d.kv_store, list_store |-> d.list_store,
              hash_store |-> d.hash_store, meta_store |-> m]
      /\ e.kv_store = d.kv_store
      /\ e.list_store = d.list_store
      /\ e.hash_store = d.hash_store
      /\ e.meta_store = m
  BY <1>1, TypedParts DEF e
<1>5. Typed(e, t)
  BY <1>1, <1>3, <1>4, TypedParts
<1>6. StoredKeys(e) = StoredKeys(d) /\ Shrinks(e, d)
  BY <1>4 DEF StoredKeys, Shrinks
<1>7. Tracks(e)
  BY <1>1, <1>3, <1>4, <1>6 DEF Tracks
<1> QED
  BY <1>5, <1>6, <1>7 DEF Good, e, m

-------------------------------------------------------------------------------
(* The operations on keys and strings.                                       *)

\* What set leaves before it evicts.
SetUnevicted(d, t, k, v, ttl) ==
    LET d1 == DropExpired(d, t, k)
        d2 == Touch([d1 EXCEPT !.kv_store = Put(@, k, v)], t, k)
    IN  [d2 EXCEPT !.meta_store = setTTL(@, k, ttl, t)]

\* It has at most one entry too many.
LEMMA SetUnevictedGood ==
    ASSUME NEW d, NEW t \in Nat, Good(d, t), Holds(d, MaxCacheSize),
           NEW k \in Key, NEW v \in Value, NEW ttl \in Nat
    PROVE  LET w == SetUnevicted(d, t, k, v, ttl)
           IN  Good(w, t) /\ Holds(w, MaxCacheSize + 1)
<1> DEFINE d1 == DropExpired(d, t, k)
           p == [d1 EXCEPT !.kv_store = Put(@, k, v)]
           d2 == Touch(p, t, k)
           d3 == [d2 EXCEPT !.meta_store = setTTL(@, k, ttl, t)]
<1>1. MaxCacheSize \in Int
  BY DatabaseAssumption
<1>2. Good(d1, t) /\ Holds(d1, MaxCacheSize)
  BY <1>1, DropExpiredGood, ShrinksHolds
<1>3. SetUnevicted(d, t, k, v, ttl) = d3
  BY DEF SetUnevicted
<1> HIDE DEF d1
<1>4. /\ Typed(p, t)
      /\ DOMAIN p.kv_store = DOMAIN d1.kv_store \cup {k}
      /\ p.list_store = d1.list_store
      /\ p.hash_store = d1.hash_store
      /\ p.meta_store = d1.meta_store
  <2>1. Typed(d1, t)
    BY <1>2 DEF Good
  <2>2. IsMap(d1.kv_store, Key, Value)
    BY <2>1, TypedParts
  <2>3. IsMap(Put(d1.kv_store, k, v), Key, Value)
    BY <2>2, PutTyped
  <2>4. p = [kv_store |-> Put(d1.kv_store, k, v), list_store |-> d1.list_store,
             hash_store |-> d1.hash_store, meta_store |-> d1.meta_store]
    BY <2>1, TypedParts
  <2> QED
    BY <2>1, <2>3, <2>4, TypedParts DEF Put
<1> HIDE DEF p
<1>5. /\ Good(d2, t)
      /\ Holds(d2, MaxCacheSize + 1)
      /\ k \in StoredKeys(d2)
  BY <1>2, <1>4, WriteGood
<1> HIDE DEF d2
<1>6. Good(d3, t) /\ Shrinks(d3, d2)
  BY <1>5, setTTLGood
<1> HIDE DEF d3
<1>7. Holds(d3, MaxCacheSize + 1)
  BY <1>1, <1>5, <1>6, ShrinksHolds
<1> QED
  BY <1>3, <1>6, <1>7

\* set leaves a good database within the capacity.
LEMMA setGood ==
    ASSUME NEW d, NEW t \in Nat, Good(d, t), Holds(d, MaxCacheSize),
           NEW k \in Key, NEW v \in Value, NEW ttl \in Nat,
           NEW e \in set(d, t, k, v, ttl)
    PROVE  Good(e, t) /\ Holds(e, MaxCacheSize)
<1>1. e \in checkAndEvict(SetUnevicted(d, t, k, v, ttl), t)
  BY DEF set, SetUnevicted
<1> QED
  BY <1>1, SetUnevictedGood, checkAndEvictGood

\* An empty database is good, and holds nothing.
LEMMA EmptyGood ==
    ASSUME NEW t
    PROVE  Good(EmptyDatabase, t) /\ Holds(EmptyDatabase, 0)
<1>1. Good(EmptyDatabase, t)
  BY DEF Good, Typed, Tracks, IsDatabase, IsMap, EmptyDatabase, EmptyMap, StoredKeys
<1>2. Holds(EmptyDatabase, 0)
  BY FS_EmptySet DEF Holds, FiniteStores, getTotalKeyCount, EmptyDatabase, EmptyMap
<1> QED
  BY <1>1, <1>2

\* expire keeps a good database good and stores nothing new.
LEMMA expireGood ==
    ASSUME NEW d, NEW t \in Nat, Good(d, t), NEW k \in Key, NEW seconds \in Nat
    PROVE  Good(expire(d, t, k, seconds).db, t) /\ Shrinks(expire(d, t, k, seconds).db, d)
<1> DEFINE e == [d EXCEPT !.meta_store = setTTL(@, k, seconds, t)]
           z == [d EXCEPT !.meta_store = setTTL(@, k, 0, t)]
<1>1. CASE k \notin StoredKeys(d)
  BY <1>1 DEF expire, contains, Good, Tracks, Shrinks
<1>2. CASE k \in StoredKeys(d) /\ seconds > 0
  <2>1. expire(d, t, k, seconds).db = Touch(e, t, k)
    BY <1>2 DEF expire
  <2>2. Good(e, t) /\ Shrinks(e, d) /\ k \in StoredKeys(e)
    BY <1>2, setTTLGood
  <2> HIDE DEF e
  <2>3. Good(Touch(e, t, k), t) /\ Shrinks(Touch(e, t, k), e)
    BY <2>2, TouchGood
  <2> QED
    BY <2>1, <2>2, <2>3 DEF Shrinks
<1>3. CASE k \in StoredKeys(d) /\ ~(seconds > 0)
  <2>1. expire(d, t, k, seconds).db = delInternal(z, k)
    BY <1>3 DEF expire
  <2>2. Good(z, t) /\ Shrinks(z, d)
    BY <1>3, setTTLGood
  <2> HIDE DEF z
  <2>3. Good(delInternal(z, k), t) /\ Shrinks(delInternal(z, k), z)
    BY <2>2, delInternalGood
  <2> QED
    BY <2>1, <2>2, <2>3 DEF Shrinks
<1> QED
  BY <1>1, <1>2, <1>3

\* A key kept by KEYS is stored, so its access adds no metadata.
LEMMA keysGood ==
    ASSUME NEW d, NEW t \in Nat, Good(d, t)
    PROVE  Good(keys(d, t).db, t) /\ Shrinks(keys(d, t).db, d)
<1> DEFINE live == {k \in StoredKeys(d) : ~isExpired(d, t, k)}
           kept == Keep(d, live \cup (Key \ StoredKeys(d)))
           m == [k \in DOMAIN kept.meta_store \cup live |->
                   IF k \in live THEN recordAccess(d.meta_store, k, t)[k]
                                 ELSE kept.meta_store[k]]
           e == keys(d, t).db
<1>1. Typed(d, t) /\ DOMAIN d.meta_store = StoredKeys(d) /\ StoredKeys(d) \subseteq Key
  BY DEF Good, Tracks, Typed, IsDatabase, IsMap
<1>2. TypedMeta(d.meta_store, t)
  BY <1>1, TypedParts
<1>3. /\ e.kv_store = kept.kv_store
      /\ e.list_store = kept.list_store
      /\ e.hash_store = kept.hash_store
      /\ e.meta_store = m
      /\ e = [kv_store |-> e.kv_store, list_store |-> e.list_store,
              hash_store |-> e.hash_store, meta_store |-> e.meta_store]
  BY DEF keys, Keep
<1>4. /\ DOMAIN kept.kv_store = live \cap DOMAIN d.kv_store
      /\ DOMAIN kept.list_store = live \cap DOMAIN d.list_store
      /\ DOMAIN kept.hash_store = live \cap DOMAIN d.hash_store
      /\ DOMAIN kept.meta_store = live
      /\ DOMAIN m = live
  BY <1>1 DEF Keep, Restrict, StoredKeys
<1>5. ASSUME NEW k \in live
      PROVE  m[k] \in KeyStats /\ m[k].last_access <= t /\ m[k].ttl_set_time <= t
  <2>1. TypedMeta(recordAccess(d.meta_store, k, t), t)
    BY <1>1, <1>2, recordAccessTyped
  <2>2. k \in DOMAIN recordAccess(d.meta_store, k, t)
    BY DEF recordAccess, SetStats
  <2>3. m[k] = recordAccess(d.meta_store, k, t)[k]
    BY <1>4
  <2> HIDE DEF m
  <2> QED
    BY <2>1, <2>2, <2>3 DEF TypedMeta, IsMap
<1>6. TypedMeta(m, t)
  <2>1. \A k \in DOMAIN m :
          m[k] \in KeyStats /\ m[k].last_access <= t /\ m[k].ttl_set_time <= t
    BY <1>4, <1>5
  <2>2. m = [k \in DOMAIN m |-> m[k]] /\ DOMAIN m \subseteq Key
    BY <1>1, <1>4
  <2> HIDE DEF m
  <2> QED
    BY <2>1, <2>2 DEF TypedMeta, IsMap
<1>7. /\ IsMap(kept.kv_store, Key, Value)
      /\ IsMap(kept.list_store, Key, Seq(Value))
      /\ DOMAIN kept.hash_store \subseteq Key
      /\ \A k \in DOMAIN kept.hash_store : IsMap(kept.hash_store[k], Field, Value)
  BY <1>1, TypedParts DEF Keep, Restrict, IsMap
<1> HIDE DEF m, kept, e, live
<1>8. Typed(e, t)
  BY <1>3, <1>6, <1>7, TypedParts
<1>9. StoredKeys(e) = live
  BY <1>3, <1>4 DEF StoredKeys, live
<1>10. Tracks(e)
  BY <1>3, <1>4, <1>9 DEF Tracks
<1>11. Shrinks(e, d)
  BY <1>3, <1>4 DEF Shrinks
<1> QED
  BY <1>8, <1>10, <1>11 DEF Good, e

\* Moving an entry moves its key in the domain.
LEMMA MoveEntryDomain ==
    ASSUME NEW f, NEW o, NEW n
    PROVE  DOMAIN MoveEntry(f, o, n) =
             IF o \in DOMAIN f THEN (DOMAIN f \cup {n}) \ {o} ELSE DOMAIN f
BY DEF MoveEntry, Put, Erase, Restrict

\* Moving an entry to a key that is not there keeps the number of entries.
LEMMA MoveEntryCount ==
    ASSUME NEW f, NEW o, NEW n, n \notin DOMAIN f, IsFiniteSet(DOMAIN f)
    PROVE  /\ IsFiniteSet(DOMAIN MoveEntry(f, o, n))
           /\ Cardinality(DOMAIN MoveEntry(f, o, n)) = Cardinality(DOMAIN f)
<1> DEFINE D == DOMAIN f
<1>1. /\ IsFiniteSet(D \cup {n})
      /\ Cardinality(D \cup {n}) = Cardinality(D) + 1
  BY FS_AddElement
<1>2. Cardinality(D) \in Nat
  BY FS_CardinalityType
<1>3. CASE o \in D
  <2> DEFINE E == D \cup {n}
  <2>1. IsFiniteSet(E) /\ o \in E
    BY <1>1, <1>3
  <2> HIDE DEF E
  <2>2. /\ IsFiniteSet(E \ {o})
        /\ Cardinality(E \ {o}) = Cardinality(E) - 1
    BY <2>1, FS_RemoveElement
  <2>3. DOMAIN MoveEntry(f, o, n) = E \ {o}
    BY <1>3, MoveEntryDomain DEF E
  <2>4. Cardinality(E) = Cardinality(D) + 1
    BY <1>1 DEF E
  <2> QED
    BY <1>2, <2>2, <2>3, <2>4
<1>4. CASE o \notin D
  BY <1>4, MoveEntryDomain
<1> QED
  BY <1>3, <1>4

(***************************************************************************)
(* rename keeps a good database good and stores no more entries: the new   *)
(* key has been deleted before the old one's entries move to it.           *)
(***************************************************************************)
LEMMA renameGood ==
    ASSUME NEW d, NEW t \in Nat, Good(d, t), Holds(d, MaxCacheSize),
           NEW o \in Key, NEW n \in Key
    PROVE  LET e == rename(d, t, o, n).db
           IN  Good(e, t) /\ Holds(e, MaxCacheSize)
<1> DEFINE d1 == IF n \in StoredKeys(d) THEN delInternal(d, n) ELSE d
           meta == removeKey(d1.meta_store, o)
           hadStats == contains(d1.meta_store, o)
                         /\ d1.meta_store[o].access_count > 0
           fresh == recordAccess(meta, n, t)
           carried == IF hadStats THEN SetStats(fresh, n, d1.meta_store[o])
                                  ELSE fresh
           found == o \in StoredKeys(d1)
           e == [kv_store |-> MoveEntry(d1.kv_store, o, n),
                 list_store |-> MoveEntry(d1.list_store, o, n),
                 hash_store |-> MoveEntry(d1.hash_store, o, n),
                 meta_store |-> IF found THEN recordAccess(carried, n, t)
                                         ELSE meta]
<1>0. MaxCacheSize \in Int
  BY DatabaseAssumption
<1>1. CASE isExpired(d, t, o)
  <2>1. rename(d, t, o, n).db = delInternal(d, o)
    BY <1>1 DEF rename
  <2> QED
    BY <1>0, <2>1, delInternalGood, ShrinksHolds
<1>2. CASE ~isExpired(d, t, o)
  <2>1. rename(d, t, o, n).db = e
    BY <1>2 DEF rename
  <2>2. Good(d1, t) /\ Shrinks(d1, d)
    BY delInternalGood DEF Shrinks
  <2>3. Holds(d1, MaxCacheSize)
    BY <1>0, <2>2, ShrinksHolds
  <2>4. n \notin StoredKeys(d1)
    <3>1. Typed(d, t)
      BY DEF Good
    <3>2. /\ DOMAIN delInternal(d, n).kv_store = DOMAIN d.kv_store \ {n}
          /\ DOMAIN delInternal(d, n).list_store = DOMAIN d.list_store \ {n}
          /\ DOMAIN delInternal(d, n).hash_store = DOMAIN d.hash_store \ {n}
      BY <3>1, delInternalTyped
    <3> QED
      BY <3>2 DEF StoredKeys
  <2>5. Typed(d1, t) /\ DOMAIN d1.meta_store = StoredKeys(d1)
    BY <2>2 DEF Good, Tracks
  <2> HIDE DEF d1
  <2>6. TypedMeta(d1.meta_store, t)
    BY <2>5, TypedParts
  <2>7. TypedMeta(meta, t) /\ DOMAIN meta = StoredKeys(d1) \ {o}
    BY <2>5, <2>6, removeKeyTyped
  <2> HIDE DEF meta
  <2>8. TypedMeta(fresh, t)
    BY <2>7, recordAccessTyped
  <2>9. DOMAIN fresh = DOMAIN meta \cup {n}
    BY DEF recordAccess, SetStats
  <2> HIDE DEF fresh
  <2>10. TypedMeta(carried, t)
    <3>1. CASE hadStats
      <4> DEFINE s == d1.meta_store[o]
      <4>1. s \in KeyStats
        BY <2>6, <3>1 DEF TypedMeta, IsMap, contains
      <4>2. s.last_access <= t /\ s.ttl_set_time <= t
        BY <2>6, <3>1 DEF TypedMeta, contains
      <4> HIDE DEF s
      <4>3. TypedMeta(SetStats(fresh, n, s), t)
        BY <2>8, <4>1, <4>2, SetStatsTyped
      <4> QED
        BY <3>1, <4>3 DEF s
    <3>2. CASE ~hadStats
      BY <2>8, <3>2
    <3> QED
      BY <3>1, <3>2
  <2>11. DOMAIN carried = DOMAIN meta \cup {n}
    BY <2>9 DEF SetStats
  <2> HIDE DEF carried
  <2>12. TypedMeta(recordAccess(carried, n, t), t)
    BY <2>10, recordAccessTyped
  <2>13. DOMAIN recordAccess(carried, n, t) = DOMAIN meta \cup {n}
    BY <2>11 DEF recordAccess, SetStats
  <2>14. TypedMeta(e.meta_store, t)
    BY <2>7, <2>12
  <2>15. DOMAIN e.meta_store = IF found THEN (StoredKeys(d1) \ {o}) \cup {n}
                                        ELSE StoredKeys(d1) \ {o}
    BY <2>7, <2>13
  <2>16. Typed(e, t)
    <3>1. /\ IsMap(e.kv_store, Key, Value)
          /\ IsMap(e.list_store, Key, Seq(Value))
      BY <2>5, TypedParts DEF MoveEntry, Put, Erase, Restrict, IsMap
    <3>2. /\ DOMAIN e.hash_store \subseteq Key
          /\ \A k \in DOMAIN e.hash_store : IsMap(e.hash_store[k], Field, Value)
      BY <2>5, TypedParts DEF MoveEntry, Put, Erase, Restrict
    <3> QED
      BY <2>14, <3>1, <3>2, TypedParts
  <2>17. Tracks(e)
    <3>1. StoredKeys(e) = IF found THEN (StoredKeys(d1) \ {o}) \cup {n}
                                   ELSE StoredKeys(d1) \ {o}
      <4> DEFINE Moved(D) == IF o \in D THEN (D \cup {n}) \ {o} ELSE D
      <4>1. /\ DOMAIN e.kv_store = Moved(DOMAIN d1.kv_store)
            /\ DOMAIN e.list_store = Moved(DOMAIN d1.list_store)
            /\ DOMAIN e.hash_store = Moved(DOMAIN d1.hash_store)
        BY MoveEntryDomain
      <4> HIDE DEF e
      <4> QED
        BY <2>4, <4>1 DEF StoredKeys
    <3> QED
      BY <2>15, <3>1 DEF Tracks
  <2>18. Holds(e, MaxCacheSize)
    <3>1. FiniteStores(d1) /\ getTotalKeyCount(d1) <= MaxCacheSize
      BY <2>3 DEF Holds
    <3>2. FiniteStores(e)
      BY <2>4, <3>1, MoveEntryCount DEF FiniteStores, StoredKeys
    <3>3. /\ Cardinality(DOMAIN e.kv_store) = Cardinality(DOMAIN d1.kv_store)
          /\ Cardinality(DOMAIN e.list_store) = Cardinality(DOMAIN d1.list_store)
          /\ Cardinality(DOMAIN e.hash_store) = Cardinality(DOMAIN d1.hash_store)
      <4>1. ASSUME NEW f, n \notin DOMAIN f, IsFiniteSet(DOMAIN f)
            PROVE  Cardinality(DOMAIN MoveEntry(f, o, n)) = Cardinality(DOMAIN f)
        BY <4>1, MoveEntryCount
      <4>2. /\ n \notin DOMAIN d1.kv_store
            /\ n \notin DOMAIN d1.list_store
            /\ n \notin DOMAIN d1.hash_store
        BY <2>4 DEF StoredKeys
      <4>3. /\ IsFiniteSet(DOMAIN d1.kv_store)
            /\ IsFiniteSet(DOMAIN d1.list_store)
            /\ IsFiniteSet(DOMAIN d1.hash_store)
        BY <3>1 DEF FiniteStores
      <4> QED
        BY <4>1, <4>2, <4>3
    <3>4. getTotalKeyCount(e) = getTotalKeyCount(d1)
      BY <3>3 DEF getTotalKeyCount
    <3> QED
      BY <3>1, <3>2, <3>4 DEF Holds
  <2> QED
    BY <2>1, <2>16, <2>17, <2>18 DEF Good
<1> QED
  BY <1>1, <1>2

-------------------------------------------------------------------------------
(* The operations on lists.                                                  *)

\* What StoreList leaves before it evicts.
ListUnevicted(d, t, k, l) == Touch([d EXCEPT !.list_store = Put(@, k, l)], t, k)

\* The writing operations on one list: a typed new list for key k.
LEMMA ListUnevictedGood ==
    ASSUME NEW d, NEW t \in Nat, Good(d, t), Holds(d, MaxCacheSize),
           NEW k \in Key, NEW l \in Seq(Value)
    PROVE  LET w == ListUnevicted(d, t, k, l)
           IN  Good(w, t) /\ Holds(w, MaxCacheSize + 1)
<1> DEFINE p == [d EXCEPT !.list_store = Put(@, k, l)]
<1>1. Typed(d, t)
  BY DEF Good
<1>2. IsMap(d.list_store, Key, Seq(Value))
  BY <1>1, TypedParts
<1>3. IsMap(Put(d.list_store, k, l), Key, Seq(Value))
  BY <1>2, PutTyped
<1>4. p = [kv_store |-> d.kv_store, list_store |-> Put(d.list_store, k, l),
           hash_store |-> d.hash_store, meta_store |-> d.meta_store]
  BY <1>1, TypedParts
<1>5. /\ Typed(p, t)
      /\ p.kv_store = d.kv_store
      /\ DOMAIN p.list_store = DOMAIN d.list_store \cup {k}
      /\ p.hash_store = d.hash_store
      /\ p.meta_store = d.meta_store
  BY <1>1, <1>3, <1>4, TypedParts DEF Put
<1>6. ListUnevicted(d, t, k, l) = Touch(p, t, k)
  BY DEF ListUnevicted
<1> HIDE DEF p
<1>7. Good(Touch(p, t, k), t) /\ Holds(Touch(p, t, k), MaxCacheSize + 1)
  BY <1>5, WriteGood
<1> QED
  BY <1>6, <1>7

\* A stored list leaves a good database within the capacity.
LEMMA StoreListGood ==
    ASSUME NEW d, NEW t \in Nat, Good(d, t), Holds(d, MaxCacheSize),
           NEW k \in Key, NEW l \in Seq(Value), NEW e \in StoreList(d, t, k, l)
    PROVE  Good(e, t) /\ Holds(e, MaxCacheSize)
<1>1. e \in checkAndEvict(ListUnevicted(d, t, k, l), t)
  BY DEF StoreList, ListUnevicted
<1> QED
  BY <1>1, ListUnevictedGood, checkAndEvictGood

\* The list a push finds is a sequence of values, empty if there is none.
LEMMA ListAtTyped ==
    ASSUME NEW d, NEW t, Good(d, t), NEW k
    PROVE  ListAt(d.list_store, k) \in Seq(Value)
BY EmptySeq DEF Good, Typed, IsDatabase, IsMap, ListAt

\* lpush and rpush leave a good database within the capacity.
LEMMA pushGood ==
    ASSUME NEW d, NEW t \in Nat, Good(d, t), Holds(d, MaxCacheSize),
           NEW k \in Key, NEW v \in Value,
           NEW e \in lpush(d, t, k, v) \cup rpush(d, t, k, v)
    PROVE  Good(e, t) /\ Holds(e, MaxCacheSize)
<1> DEFINE d1 == DropExpired(d, t, k)
           l == ListAt(d1.list_store, k)
<1>1. MaxCacheSize \in Int
  BY DatabaseAssumption
<1>2. Good(d1, t) /\ Holds(d1, MaxCacheSize)
  BY <1>1, DropExpiredGood, ShrinksHolds
<1>3. \/ e \in StoreList(d1, t, k, <<v>> \o l)
      \/ e \in StoreList(d1, t, k, Append(l, v))
  BY DEF lpush, rpush
<1> HIDE DEF d1
<1>4. l \in Seq(Value)
  BY <1>2, ListAtTyped
<1> HIDE DEF l
<1>5. <<v>> \o l \in Seq(Value) /\ Append(l, v) \in Seq(Value)
  BY <1>4
<1> QED
  BY <1>2, <1>3, <1>5, StoreListGood

\* Replacing a list that is there by one that may be empty.
LEMMA ReplaceListGood ==
    ASSUME NEW d, NEW t, Good(d, t), NEW k \in DOMAIN d.list_store,
           NEW l \in Seq(Value)
    PROVE  Good(ReplaceList(d, k, l), t) /\ Shrinks(ReplaceList(d, k, l), d)
<1> DEFINE p == [d EXCEPT !.list_store = Put(@, k, l)]
<1>1. Typed(d, t) /\ DOMAIN d.meta_store = StoredKeys(d)
  BY DEF Good, Tracks
<1>2. IsMap(d.list_store, Key, Seq(Value)) /\ k \in Key
  BY <1>1, TypedParts DEF IsMap
<1>3. IsMap(Put(d.list_store, k, l), Key, Seq(Value))
  BY <1>2, PutTyped
<1>4. p = [kv_store |-> d.kv_store, list_store |-> Put(d.list_store, k, l),
           hash_store |-> d.hash_store, meta_store |-> d.meta_store]
  BY <1>1, TypedParts
<1>5. Typed(p, t)
  BY <1>1, <1>3, <1>4, TypedParts
<1>6. DOMAIN Put(d.list_store, k, l) = DOMAIN d.list_store
  BY DEF Put
<1>7. Tracks(p) /\ Shrinks(p, d)
  BY <1>1, <1>4, <1>6 DEF Tracks, StoredKeys, Shrinks
<1> QED
  BY <1>5, <1>7, delInternalGood DEF ReplaceList, Good

(***************************************************************************)
(* The changing operations on an existing list, given that the new list is *)
(* a sequence of values whenever the operation applies.                    *)
(***************************************************************************)
LEMMA UpdateListGood ==
    ASSUME NEW d, NEW t \in Nat, Good(d, t), NEW k \in Key,
           NEW hit, NEW l, NEW found, NEW missed,
           k \in DOMAIN d.list_store /\ hit => l \in Seq(Value)
    PROVE  LET e == UpdateList(d, t, k, hit, l, found, missed).db
           IN  Good(e, t) /\ Shrinks(e, d)
<1> DEFINE c == Touch(d, t, k)
           h == k \in DOMAIN d.list_store /\ hit
<1>1. CASE ~isExpired(d, t, k) /\ h
  <2>1. UpdateList(d, t, k, hit, l, found, missed).db = ReplaceList(c, k, l)
    BY <1>1 DEF UpdateList
  <2>2. k \in StoredKeys(d)
    BY <1>1 DEF StoredKeys
  <2>3. Good(c, t) /\ Shrinks(c, d)
    BY <2>2, TouchGood
  <2>4. c.list_store = d.list_store
    BY DEF Touch, Good, Typed, IsDatabase
  <2>5. k \in DOMAIN c.list_store /\ l \in Seq(Value)
    BY <1>1, <2>4
  <2> HIDE DEF c
  <2>6. Good(ReplaceList(c, k, l), t) /\ Shrinks(ReplaceList(c, k, l), c)
    BY <2>3, <2>5, ReplaceListGood
  <2> QED
    BY <2>1, <2>3, <2>6 DEF Shrinks
<1>2. CASE ~(~isExpired(d, t, k) /\ h)
  BY <1>2, DropExpiredGood DEF UpdateList
<1> QED
  BY <1>1, <1>2

(***************************************************************************)
(* A set of positions has an i-th smallest element for every i up to its   *)
(* size, and NthOf is it.  The least p with i elements below it follows    *)
(* that element: it exists because the order of the naturals is well       *)
(* founded.                                                                *)
(***************************************************************************)
LEMMA NthOfIsElement ==
    ASSUME NEW n \in Nat, NEW S, S \subseteq 1..n, NEW i \in 1..Cardinality(S)
    PROVE  /\ NthOf(S, i) \in S
           /\ Cardinality({q \in S : q < NthOf(S, i)}) = i - 1
<1> DEFINE Below(p) == {q \in S : q < p}
           T == {p \in Nat : Cardinality(Below(p)) >= i}
<1>0. \A q \in S : q \in Nat /\ 1 <= q /\ q <= n
  OBVIOUS
<1>1. IsFiniteSet(1..n)
  BY FS_Interval
<1>2. IsFiniteSet(S)
  BY <1>1, FS_Subset
<1>3. Cardinality(S) \in Nat
  BY <1>2, FS_CardinalityType
<1>4. \A p : IsFiniteSet(Below(p)) /\ Cardinality(Below(p)) \in Nat
  BY <1>2, FS_Subset, FS_CardinalityType
<1>5. n + 1 \in T
  <2>1. Below(n + 1) = S
    <3>1. \A q \in S : q < n + 1
      BY <1>0
    <3> QED
      BY <3>1
  <2> QED
    BY <1>3, <2>1
<1>6. \E p \in T : \A y \in T : ~(<<y, p>> \in OpToRel(<, Nat))
  <2>1. T \subseteq Nat /\ T # {}
    BY <1>5
  <2> HIDE DEF T
  <2> QED
    BY <2>1, WFMin, NatLessThanWellFounded
<1>7. PICK p \in T : \A y \in T : ~(y < p)
  BY <1>6 DEF OpToRel
<1>8. p \in Nat /\ Cardinality(Below(p)) >= i
  OBVIOUS
<1>9. p # 0
  <2>1. Below(0) = {}
    <3>1. \A q \in S : ~(q < 0)
      BY <1>0
    <3> QED
      BY <3>1
  <2>2. Cardinality(Below(0)) = 0
    BY <2>1, FS_EmptySet
  <2> QED
    BY <1>3, <1>8, <2>2
<1>10. p - 1 \in Nat /\ p - 1 \notin T
  BY <1>7, <1>8, <1>9
<1>11. Cardinality(Below(p - 1)) < i
  BY <1>3, <1>4, <1>10
<1>12. p - 1 \in S
  <2>1. SUFFICES ASSUME p - 1 \notin S PROVE FALSE
    OBVIOUS
  <2>2. Below(p) = Below(p - 1)
    <3>1. \A q \in S : q < p <=> q < p - 1
      BY <1>0, <1>8, <2>1
    <3> QED
      BY <3>1
  <2> QED
    BY <1>3, <1>4, <1>8, <1>11, <2>2
<1>13. Cardinality(Below(p)) = Cardinality(Below(p - 1)) + 1
  <2>1. Below(p) = Below(p - 1) \cup {p - 1}
    <3>1. \A q \in S : q < p <=> q < p - 1 \/ q = p - 1
      BY <1>0, <1>8
    <3> QED
      BY <1>12, <3>1
  <2>2. p - 1 \notin Below(p - 1)
    BY <1>8
  <2> HIDE DEF Below
  <2> QED
    BY <1>4, <2>1, <2>2, FS_AddElement
<1>14. Cardinality({q \in S : q < p - 1}) = i - 1
  BY <1>3, <1>4, <1>8, <1>11, <1>13
<1> QED
  BY <1>12, <1>14 DEF NthOf

\* The elements at a set of positions of a list form a list.
LEMMA AtPositionsTyped ==
    ASSUME NEW l \in Seq(Value), NEW S, S \subseteq 1..Len(l)
    PROVE  AtPositions(l, S) \in Seq(Value)
<1>1. Len(l) \in Nat
  OBVIOUS
<1>2. IsFiniteSet(1..Len(l))
  BY <1>1, FS_Interval
<1>3. IsFiniteSet(S)
  BY <1>2, FS_Subset
<1>4. Cardinality(S) \in Nat
  BY <1>3, FS_CardinalityType
<1>5. \A i \in 1..Cardinality(S) : NthOf(S, i) \in S
  BY <1>1, NthOfIsElement
<1>6. \A j \in 1..Len(l) : l[j] \in Value
  OBVIOUS
<1>7. \A i \in 1..Cardinality(S) : l[NthOf(S, i)] \in Value
  BY <1>5, <1>6
<1> QED
  BY <1>4, <1>7 DEF AtPositions

\* The lists that a good database stores are sequences of values.
LEMMA ListTyped ==
    ASSUME NEW d, NEW t, Good(d, t), NEW k \in DOMAIN d.list_store
    PROVE  d.list_store[k] \in Seq(Value)
BY DEF Good, Typed, IsDatabase, IsMap

\* rpop and lpop keep a good database good and store nothing new.
LEMMA popGood ==
    ASSUME NEW d, NEW t \in Nat, Good(d, t), NEW k \in Key
    PROVE  /\ Good(rpop(d, t, k).db, t) /\ Shrinks(rpop(d, t, k).db, d)
           /\ Good(lpop(d, t, k).db, t) /\ Shrinks(lpop(d, t, k).db, d)
<1> DEFINE l == d.list_store[k]
           h == l # <<>>
<1>1. ASSUME k \in DOMAIN d.list_store, h
      PROVE  SubSeq(l, 1, Len(l) - 1) \in Seq(Value) /\ Tail(l) \in Seq(Value)
  <2>1. l \in Seq(Value)
    BY <1>1, ListTyped
  <2> HIDE DEF l
  <2>2. \A i \in 1..(Len(l) - 1) : l[i] \in Value
    BY <2>1
  <2>3. SubSeq(l, 1, Len(l) - 1) \in Seq(Value)
    BY <2>1, <2>2, SubSeqProperties
  <2> QED
    BY <1>1, <2>1, <2>3
<1>2. k \in DOMAIN d.list_store /\ h => SubSeq(l, 1, Len(l) - 1) \in Seq(Value)
  BY <1>1
<1>3. k \in DOMAIN d.list_store /\ h => Tail(l) \in Seq(Value)
  BY <1>1
<1>4. /\ rpop(d, t, k) = UpdateList(d, t, k, h, SubSeq(l, 1, Len(l) - 1), {l[Len(l)]}, {})
      /\ lpop(d, t, k) = UpdateList(d, t, k, h, Tail(l), {Head(l)}, {})
  BY DEF rpop, lpop
<1> HIDE DEF l, h
<1>5. Good(rpop(d, t, k).db, t) /\ Shrinks(rpop(d, t, k).db, d)
  BY <1>2, <1>4, UpdateListGood
<1>6. Good(lpop(d, t, k).db, t) /\ Shrinks(lpop(d, t, k).db, d)
  BY <1>3, <1>4, UpdateListGood
<1> QED
  BY <1>5, <1>6

\* So does lrem, whatever the count.
LEMMA lremGood ==
    ASSUME NEW d, NEW t \in Nat, Good(d, t), NEW k \in Key, NEW c, NEW v
    PROVE  Good(lrem(d, t, k, c, v).db, t) /\ Shrinks(lrem(d, t, k, c, v).db, d)
<1> DEFINE l == d.list_store[k]
           removed == RemovedPositions(l, c, v)
           h == removed # {}
           n == AtPositions(l, (1..Len(l)) \ removed)
<1>1. lrem(d, t, k, c, v) = UpdateList(d, t, k, h, n, Cardinality(removed), 0)
  BY DEF lrem
<1> HIDE DEF removed
<1>2. k \in DOMAIN d.list_store /\ h => n \in Seq(Value)
  BY ListTyped, AtPositionsTyped
<1> HIDE DEF h, n
<1> QED
  BY <1>1, <1>2, UpdateListGood

\* And lset, whatever the index.
LEMMA lsetGood ==
    ASSUME NEW d, NEW t \in Nat, Good(d, t), NEW k \in Key, NEW x, NEW v \in Value
    PROVE  Good(lset(d, t, k, x, v).db, t) /\ Shrinks(lset(d, t, k, x, v).db, d)
<1> DEFINE l == d.list_store[k]
           p == Position(l, x)
           h == p \in 1..Len(l)
           n == [l EXCEPT ![p] = v]
<1>1. lset(d, t, k, x, v) = UpdateList(d, t, k, h, n, TRUE, FALSE)
  BY DEF lset
<1> HIDE DEF p
<1>2. ASSUME k \in DOMAIN d.list_store, h PROVE n \in Seq(Value)
  <2>1. l \in Seq(Value)
    BY <1>2, ListTyped
  <2> HIDE DEF l
  <2> QED
    BY <1>2, <2>1, ExceptSeq
<1>3. k \in DOMAIN d.list_store /\ h => n \in Seq(Value)
  BY <1>2
<1> HIDE DEF h, n
<1> QED
  BY <1>1, <1>3, UpdateListGood

-------------------------------------------------------------------------------
(* The operations on hashes.                                                 *)

\* Replacing or adding the hash of one key by a well-typed one.
LEMMA PutHashTyped ==
    ASSUME NEW d, NEW t, Typed(d, t), NEW k \in Key, NEW h, IsMap(h, Field, Value)
    PROVE  LET p == [d EXCEPT !.hash_store = Put(@, k, h)]
           IN  /\ Typed(p, t)
               /\ p.kv_store = d.kv_store
               /\ p.list_store = d.list_store
               /\ DOMAIN p.hash_store = DOMAIN d.hash_store \cup {k}
               /\ p.meta_store = d.meta_store
<1> DEFINE p == [d EXCEPT !.hash_store = Put(@, k, h)]
           hs == Put(d.hash_store, k, h)
<1>1. p = [kv_store |-> d.kv_store, list_store |-> d.list_store,
           hash_store |-> hs, meta_store |-> d.meta_store]
  BY TypedParts
<1>2. DOMAIN hs = DOMAIN d.hash_store \cup {k} /\ DOMAIN hs \subseteq Key
  BY TypedParts DEF Put
<1>3. \A j \in DOMAIN hs : IsMap(hs[j], Field, Value)
  BY TypedParts DEF Put
<1> HIDE DEF hs, p
<1> QED
  BY <1>1, <1>2, <1>3, TypedParts DEF p, hs

\* What hmset leaves before it evicts.
HashUnevicted(d, t, k, fv) ==
    LET d1 == DropExpired(d, t, k)
        h == Overlay(fv, HashAt(d1.hash_store, k))
    IN  Touch([d1 EXCEPT !.hash_store = Put(@, k, h)], t, k)

\* It has at most one entry too many.
LEMMA HashUnevictedGood ==
    ASSUME NEW d, NEW t \in Nat, Good(d, t), Holds(d, MaxCacheSize),
           NEW k \in Key, NEW fv, IsMap(fv, Field, Value)
    PROVE  LET w == HashUnevicted(d, t, k, fv)
           IN  Good(w, t) /\ Holds(w, MaxCacheSize + 1)
<1> DEFINE d1 == DropExpired(d, t, k)
           h == Overlay(fv, HashAt(d1.hash_store, k))
           p == [d1 EXCEPT !.hash_store = Put(@, k, h)]
<1>1. MaxCacheSize \in Int
  BY DatabaseAssumption
<1>2. Good(d1, t) /\ Holds(d1, MaxCacheSize)
  BY <1>1, DropExpiredGood, ShrinksHolds
<1>3. HashUnevicted(d, t, k, fv) = Touch(p, t, k)
  BY DEF HashUnevicted
<1> HIDE DEF d1
<1>4. Typed(d1, t)
  BY <1>2 DEF Good
<1>5. IsMap(HashAt(d1.hash_store, k), Field, Value)
  BY <1>4, TypedParts DEF HashAt, IsMap, Restrict
<1>6. IsMap(h, Field, Value)
  BY <1>5 DEF IsMap, Overlay
<1> HIDE DEF h
<1>7. /\ Typed(p, t)
      /\ p.kv_store = d1.kv_store
      /\ p.list_store = d1.list_store
      /\ DOMAIN p.hash_store = DOMAIN d1.hash_store \cup {k}
      /\ p.meta_store = d1.meta_store
  BY <1>4, <1>6, PutHashTyped, ZenonT(60)
<1> HIDE DEF p
<1>8. Good(Touch(p, t, k), t) /\ Holds(Touch(p, t, k), MaxCacheSize + 1)
  BY <1>2, <1>7, WriteGood
<1> QED
  BY <1>3, <1>8

\* hmset, and so hset, leaves a good database within the capacity.
LEMMA hmsetGood ==
    ASSUME NEW d, NEW t \in Nat, Good(d, t), Holds(d, MaxCacheSize),
           NEW k \in Key, NEW fv, IsMap(fv, Field, Value),
           NEW e \in hmset(d, t, k, fv)
    PROVE  Good(e, t) /\ Holds(e, MaxCacheSize)
<1>1. e \in checkAndEvict(HashUnevicted(d, t, k, fv), t)
  BY DEF hmset, HashUnevicted
<1> QED
  BY <1>1, HashUnevictedGood, checkAndEvictGood

\* Replacing a hash that is there by one that may be empty.
LEMMA ReplaceHashGood ==
    ASSUME NEW d, NEW t, Good(d, t), NEW k \in DOMAIN d.hash_store,
           NEW h, IsMap(h, Field, Value)
    PROVE  Good(ReplaceHash(d, k, h), t) /\ Shrinks(ReplaceHash(d, k, h), d)
<1> DEFINE p == [d EXCEPT !.hash_store = Put(@, k, h)]
<1>1. Typed(d, t) /\ DOMAIN d.meta_store = StoredKeys(d)
  BY DEF Good, Tracks
<1>2. k \in Key
  BY <1>1, TypedParts
<1>3. /\ Typed(p, t)
      /\ p.kv_store = d.kv_store
      /\ p.list_store = d.list_store
      /\ DOMAIN p.hash_store = DOMAIN d.hash_store \cup {k}
      /\ p.meta_store = d.meta_store
  <2>1. Typed(d, t)
    BY <1>1
  <2> QED
    BY <1>2, <2>1, PutHashTyped, ZenonT(60)
<1>4. ReplaceHash(d, k, h) \in {delInternal(d, k), p}
  BY DEF ReplaceHash
<1> HIDE DEF p
<1>5. DOMAIN p.hash_store = DOMAIN d.hash_store
  BY <1>3
<1>6. StoredKeys(p) = StoredKeys(d) /\ Shrinks(p, d)
  BY <1>3, <1>5 DEF StoredKeys, Shrinks
<1>7. Good(p, t)
  BY <1>1, <1>3, <1>6 DEF Good, Tracks
<1> QED
  BY <1>4, <1>6, <1>7, delInternalGood

\* hdel keeps a good database good and stores nothing new.
LEMMA hdelGood ==
    ASSUME NEW d, NEW t \in Nat, Good(d, t), NEW k \in Key, NEW f
    PROVE  Good(hdel(d, t, k, f).db, t) /\ Shrinks(hdel(d, t, k, f).db, d)
<1> DEFINE h == Erase(d.hash_store[k], f)
           c == Touch(d, t, k)
           hit == k \in DOMAIN d.hash_store
<1>1. CASE ~isExpired(d, t, k) /\ hit
  <2>1. hdel(d, t, k, f).db = ReplaceHash(c, k, h)
    BY <1>1 DEF hdel
  <2>2. k \in StoredKeys(d)
    BY <1>1 DEF StoredKeys
  <2>3. Good(c, t) /\ Shrinks(c, d)
    BY <2>2, TouchGood
  <2>4. c.hash_store = d.hash_store
    BY DEF Touch, Good, Typed, IsDatabase
  <2>5. IsMap(h, Field, Value)
    BY <1>1 DEF Good, Typed, IsDatabase, Erase, Restrict, IsMap
  <2> HIDE DEF c, h
  <2>6. Good(ReplaceHash(c, k, h), t) /\ Shrinks(ReplaceHash(c, k, h), c)
    BY <1>1, <2>3, <2>4, <2>5, ReplaceHashGood
  <2> QED
    BY <2>1, <2>3, <2>6 DEF Shrinks
<1>2. CASE ~(~isExpired(d, t, k) /\ hit)
  BY <1>2, DropExpiredGood DEF hdel
<1> QED
  BY <1>1, <1>2

-------------------------------------------------------------------------------
(* The theorems.                                                             *)

(***************************************************************************)
(* The inductive invariant.  WithinCapacity alone is not inductive: that a *)
(* write over the limit finds a candidate whose removal frees an entry     *)
(* needs MetaTracksStores, and that needs the types.                       *)
(***************************************************************************)
IInv == TypeOK /\ MetaTracksStores /\ Holds(db, MaxCacheSize)

\* The invariant in the terms of the lemmas.
LEMMA IInvGood ==
    IInv <=> Good(db, now) /\ now \in 0..MaxTime /\ Holds(db, MaxCacheSize)
BY DEF IInv, TypeOK, MetaTracksStores, Good, Typed, Tracks

\* An operation that leaves a good database that fits keeps the invariant.
LEMMA BecomesKeeps ==
    ASSUME IInv, NEW e, Becomes(e), Good(e, now), Holds(e, MaxCacheSize)
    PROVE  IInv'
<1>1. db' = e /\ now' = now
  BY DEF Becomes
<1>2. now \in 0..MaxTime
  BY IInvGood
<1>3. Good(db', now') /\ now' \in 0..MaxTime /\ Holds(db', MaxCacheSize)
  BY <1>1, <1>2
<1> QED
  BY <1>3 DEF IInv, TypeOK, MetaTracksStores, Good, Typed, Tracks, Holds,
              FiniteStores, getTotalKeyCount, IsDatabase, IsMap, StoredKeys

\* An operation that shrinks the stores fits if they did.
LEMMA ShrinkingKeeps ==
    ASSUME IInv, NEW e, Becomes(e), Good(e, now), Shrinks(e, db)
    PROVE  IInv'
<1>1. MaxCacheSize \in Int
  BY DatabaseAssumption
<1>2. Holds(db, MaxCacheSize)
  BY DEF IInv
<1>3. Holds(e, MaxCacheSize)
  BY <1>1, <1>2, ShrinksHolds
<1> QED
  BY <1>3, BecomesKeeps

\* A second that passes leaves every statistic in the past.
LEMMA TickKeeps ==
    ASSUME IInv, Tick
    PROVE  IInv'
<1>1. Good(db, now) /\ now \in 0..MaxTime /\ Holds(db, MaxCacheSize)
  BY IInvGood
<1>2. now' = now + 1 /\ now' \in 0..MaxTime /\ db' = db
  BY <1>1, DatabaseAssumption DEF Tick
<1>3. \A k \in DOMAIN db.meta_store :
        /\ db.meta_store[k].last_access \in Nat
        /\ db.meta_store[k].ttl_set_time \in Nat
        /\ db.meta_store[k].last_access <= now
        /\ db.meta_store[k].ttl_set_time <= now
  BY <1>1 DEF Good, Typed, IsDatabase, IsMap, KeyStats
<1>4. Good(db, now + 1)
  <2>1. \A k \in DOMAIN db.meta_store :
          /\ db.meta_store[k].last_access <= now + 1
          /\ db.meta_store[k].ttl_set_time <= now + 1
    BY <1>1, <1>3
  <2> QED
    BY <1>1, <2>1 DEF Good, Typed
<1>5. Good(db', now') /\ Holds(db', MaxCacheSize)
  BY <1>1, <1>2, <1>4
<1> QED
  BY <1>2, <1>5 DEF IInv, TypeOK, MetaTracksStores, Good, Typed, Tracks, Holds,
                    FiniteStores, getTotalKeyCount, IsDatabase, IsMap, StoredKeys

\* The initial state satisfies the invariant.
LEMMA InitIInv == Init => IInv
<1> SUFFICES ASSUME Init PROVE IInv
  OBVIOUS
<1>1. Good(db, now) /\ Holds(db, 0)
  BY EmptyGood DEF Init
<1>2. MaxCacheSize \in Nat /\ now \in 0..MaxTime
  BY DatabaseAssumption DEF Init
<1>3. Holds(db, MaxCacheSize)
  BY <1>1, <1>2, TotalType DEF Holds
<1> QED
  BY <1>1, <1>2, <1>3, IInvGood

\* Every operation on keys keeps the invariant.
LEMMA KeyStepIInv ==
    ASSUME IInv, NEW k \in Key, KeyStep(k)
    PROVE  IInv'
<1>1. Good(db, now) /\ now \in Nat /\ Holds(db, MaxCacheSize)
  BY IInvGood, DatabaseAssumption
<1>2. ASSUME NEW v \in Value, NEW ttl \in TTLs \cup {0}, Set(k, v, ttl)
      PROVE  IInv'
  <2>1. ttl \in Nat
    BY DatabaseAssumption
  <2>2. PICK e \in set(db, now, k, v, ttl) : Becomes(e)
    BY <1>2 DEF Set
  <2>3. Good(e, now) /\ Holds(e, MaxCacheSize)
    BY <1>1, <2>1, setGood
  <2> QED
    BY <2>2, <2>3, BecomesKeeps
<1>3. CASE Get(k)
  <2>1. Good(get(db, now, k).db, now) /\ Shrinks(get(db, now, k).db, db)
    <3>1. k \in DOMAIN db.kv_store => k \in StoredKeys(db)
      BY DEF StoredKeys
    <3> QED
      BY <1>1, <3>1, ReadOpGood DEF get
  <2> QED
    BY <1>3, <2>1, ShrinkingKeeps DEF Get
<1>4. CASE Type(k)
  <2>1. Good(type(db, now, k).db, now) /\ Shrinks(type(db, now, k).db, db)
    <3>1. contains(db.meta_store, k) \/ k \in StoredKeys(db) => k \in StoredKeys(db)
      BY <1>1 DEF contains, Good, Tracks
    <3> QED
      BY <1>1, <3>1, ReadOpGood DEF type
  <2> QED
    BY <1>4, <2>1, ShrinkingKeeps DEF Type
<1>5. CASE Del(k)
  BY <1>1, <1>5, delInternalGood, ShrinkingKeeps DEF Del, del
<1>6. ASSUME NEW seconds \in TTLs \cup {0}, Expire(k, seconds)
      PROVE  IInv'
  <2>1. seconds \in Nat
    BY DatabaseAssumption
  <2>2. /\ Good(expire(db, now, k, seconds).db, now)
        /\ Shrinks(expire(db, now, k, seconds).db, db)
    BY <1>1, <2>1, expireGood
  <2> QED
    BY <1>6, <2>2, ShrinkingKeeps DEF Expire
<1>7. ASSUME NEW n \in Key, Rename(k, n)
      PROVE  IInv'
  <2>1. Good(rename(db, now, k, n).db, now) /\ Holds(rename(db, now, k, n).db, MaxCacheSize)
    BY <1>1, renameGood
  <2> QED
    BY <1>7, <2>1, BecomesKeeps DEF Rename
<1> QED
  BY <1>2, <1>3, <1>4, <1>5, <1>6, <1>7 DEF KeyStep

\* Every operation on lists keeps the invariant.
LEMMA ListStepIInv ==
    ASSUME IInv, NEW k \in Key, ListStep(k)
    PROVE  IInv'
<1>1. Good(db, now) /\ now \in Nat /\ Holds(db, MaxCacheSize)
  BY IInvGood, DatabaseAssumption
<1>2. ASSUME NEW hit, NEW found, NEW missed, hit => k \in DOMAIN db.list_store,
             Becomes(ReadOp(db, now, k, hit, found, missed).db)
      PROVE  IInv'
  <2>1. hit => k \in StoredKeys(db)
    BY <1>2 DEF StoredKeys
  <2> QED
    BY <1>1, <1>2, <2>1, ReadOpGood, ShrinkingKeeps
<1>3. CASE LGet(k)
  <2> DEFINE hit == k \in DOMAIN db.list_store
             found == db.list_store[k]
  <2>1. Becomes(ReadOp(db, now, k, hit, found, <<>>).db)
    BY <1>3 DEF LGet, lget
  <2>2. hit => k \in DOMAIN db.list_store
    OBVIOUS
  <2> HIDE DEF hit, found
  <2> QED
    BY <1>2, <2>1, <2>2
<1>4. CASE LLen(k)
  <2> DEFINE hit == k \in DOMAIN db.list_store
             found == Len(db.list_store[k])
  <2>1. Becomes(ReadOp(db, now, k, hit, found, 0).db)
    BY <1>4 DEF LLen, llen
  <2>2. hit => k \in DOMAIN db.list_store
    OBVIOUS
  <2> HIDE DEF hit, found
  <2> QED
    BY <1>2, <2>1, <2>2
<1>5. ASSUME NEW v \in Value, LPush(k, v) \/ RPush(k, v)
      PROVE  IInv'
  <2>1. PICK e \in lpush(db, now, k, v) \cup rpush(db, now, k, v) : Becomes(e)
    BY <1>5 DEF LPush, RPush
  <2>2. Good(e, now) /\ Holds(e, MaxCacheSize)
    BY <1>1, pushGood
  <2> QED
    BY <2>1, <2>2, BecomesKeeps
<1>6. CASE RPop(k) \/ LPop(k)
  BY <1>1, <1>6, popGood, ShrinkingKeeps DEF RPop, LPop
<1>7. ASSUME NEW v \in Value, NEW count \in Counts, LRem(k, count, v)
      PROVE  IInv'
  BY <1>1, <1>7, lremGood, ShrinkingKeeps DEF LRem
<1>8. ASSUME NEW index \in Indexes, LIndex(k, index)
      PROVE  IInv'
  <2> DEFINE p == Position(db.list_store[k], index)
             hit == k \in DOMAIN db.list_store /\ p \in 1..Len(db.list_store[k])
             found == {db.list_store[k][p]}
  <2>1. Becomes(ReadOp(db, now, k, hit, found, {}).db)
    BY <1>8 DEF LIndex, lindex
  <2>2. hit => k \in DOMAIN db.list_store
    OBVIOUS
  <2> HIDE DEF hit, found
  <2> QED
    BY <1>2, <2>1, <2>2
<1>9. ASSUME NEW v \in Value, NEW index \in Indexes, LSet(k, index, v)
      PROVE  IInv'
  BY <1>1, <1>9, lsetGood, ShrinkingKeeps DEF LSet
<1> QED
  BY <1>3, <1>4, <1>5, <1>6, <1>7, <1>8, <1>9 DEF ListStep

\* Every operation on hashes keeps the invariant.
LEMMA HashStepIInv ==
    ASSUME IInv, NEW k \in Key, HashStep(k)
    PROVE  IInv'
<1>1. Good(db, now) /\ now \in Nat /\ Holds(db, MaxCacheSize)
  BY IInvGood, DatabaseAssumption
<1>2. ASSUME NEW hit, NEW found, NEW missed, hit => k \in DOMAIN db.hash_store,
             Becomes(ReadOp(db, now, k, hit, found, missed).db)
      PROVE  IInv'
  <2>1. hit => k \in StoredKeys(db)
    BY <1>2 DEF StoredKeys
  <2> QED
    BY <1>1, <1>2, <2>1, ReadOpGood, ShrinkingKeeps
<1>3. ASSUME NEW fv, IsMap(fv, Field, Value),
             NEW e \in hmset(db, now, k, fv), Becomes(e)
      PROVE  IInv'
  <2>1. Good(e, now) /\ Holds(e, MaxCacheSize)
    BY <1>1, <1>3, hmsetGood
  <2> QED
    BY <1>3, <2>1, BecomesKeeps
<1>4. ASSUME NEW f \in Field, NEW v \in Value, HSet(k, f, v)
      PROVE  IInv'
  <2>1. IsMap([g \in {f} |-> v], Field, Value)
    BY DEF IsMap
  <2> QED
    BY <1>3, <1>4, <2>1 DEF HSet, hset
<1>5. ASSUME NEW f \in Field, HGet(k, f)
      PROVE  IInv'
  <2> DEFINE hit == k \in DOMAIN db.hash_store /\ f \in DOMAIN db.hash_store[k]
             found == {db.hash_store[k][f]}
  <2>1. Becomes(ReadOp(db, now, k, hit, found, {}).db)
    BY <1>5 DEF HGet, hget
  <2>2. hit => k \in DOMAIN db.hash_store
    OBVIOUS
  <2> HIDE DEF hit, found
  <2> QED
    BY <1>2, <2>1, <2>2
<1>6. ASSUME NEW f \in Field, HExists(k, f)
      PROVE  IInv'
  <2> DEFINE hit == k \in DOMAIN db.hash_store
             found == f \in DOMAIN db.hash_store[k]
  <2>1. Becomes(ReadOp(db, now, k, hit, found, FALSE).db)
    BY <1>6 DEF HExists, hexists
  <2>2. hit => k \in DOMAIN db.hash_store
    OBVIOUS
  <2> HIDE DEF hit, found
  <2> QED
    BY <1>2, <2>1, <2>2
<1>7. ASSUME NEW f \in Field, HDel(k, f)
      PROVE  IInv'
  BY <1>1, <1>7, hdelGood, ShrinkingKeeps DEF HDel
<1>8. CASE HGetAll(k)
  <2> DEFINE hit == k \in DOMAIN db.hash_store
             found == db.hash_store[k]
  <2>1. Becomes(ReadOp(db, now, k, hit, found, EmptyMap).db)
    BY <1>8 DEF HGetAll, hgetall
  <2>2. hit => k \in DOMAIN db.hash_store
    OBVIOUS
  <2> HIDE DEF hit, found
  <2> QED
    BY <1>2, <2>1, <2>2
<1>9. CASE HKeys(k)
  <2> DEFINE hit == k \in DOMAIN db.hash_store
             found == DOMAIN db.hash_store[k]
  <2>1. Becomes(ReadOp(db, now, k, hit, found, {}).db)
    BY <1>9 DEF HKeys, hkeys
  <2>2. hit => k \in DOMAIN db.hash_store
    OBVIOUS
  <2> HIDE DEF hit, found
  <2> QED
    BY <1>2, <2>1, <2>2
<1>10. CASE HVals(k)
  <2> DEFINE hit == k \in DOMAIN db.hash_store
             found == {<<f, db.hash_store[k][f]>> : f \in DOMAIN db.hash_store[k]}
  <2>1. Becomes(ReadOp(db, now, k, hit, found, {}).db)
    BY <1>10 DEF HVals, hvals
  <2>2. hit => k \in DOMAIN db.hash_store
    OBVIOUS
  <2> HIDE DEF hit, found
  <2> QED
    BY <1>2, <2>1, <2>2
<1>11. CASE HLen(k)
  <2> DEFINE hit == k \in DOMAIN db.hash_store
             found == Cardinality(DOMAIN db.hash_store[k])
  <2>1. Becomes(ReadOp(db, now, k, hit, found, 0).db)
    BY <1>11 DEF HLen, hlen
  <2>2. hit => k \in DOMAIN db.hash_store
    OBVIOUS
  <2> HIDE DEF hit, found
  <2> QED
    BY <1>2, <2>1, <2>2
<1>12. ASSUME NEW fv \in FieldValues, HMSet(k, fv)
       PROVE  IInv'
  <2>1. IsMap(fv, Field, Value)
    BY DEF FieldValues, IsMap
  <2> QED
    BY <1>3, <1>12, <2>1 DEF HMSet
<1> QED
  BY <1>4, <1>5, <1>6, <1>7, <1>8, <1>9, <1>10, <1>11, <1>12 DEF HashStep

\* Every step keeps the invariant.
LEMMA NextIInv == IInv /\ [Next]_vars => IInv'
<1> SUFFICES ASSUME IInv, [Next]_vars PROVE IInv'
  OBVIOUS
<1>1. Good(db, now) /\ now \in Nat /\ Holds(db, MaxCacheSize)
  BY IInvGood, DatabaseAssumption
<1>2. CASE FlushAll
  <2>1. Good(EmptyDatabase, now) /\ Shrinks(EmptyDatabase, db)
    BY EmptyGood DEF Shrinks, EmptyDatabase, EmptyMap
  <2> QED
    BY <1>2, <2>1, ShrinkingKeeps DEF FlushAll, flushAll
<1>3. CASE Keys
  BY <1>1, <1>3, keysGood, ShrinkingKeeps DEF Keys
<1>4. CASE Tick
  BY <1>4, TickKeeps
<1>5. ASSUME NEW k \in Key, KeyStep(k) \/ ListStep(k) \/ HashStep(k)
      PROVE  IInv'
  BY <1>5, KeyStepIInv, ListStepIInv, HashStepIInv
<1>6. CASE UNCHANGED vars
  BY <1>6 DEF vars, IInv, TypeOK, MetaTracksStores, Holds, FiniteStores,
              getTotalKeyCount, IsDatabase, IsMap, StoredKeys
<1> QED
  BY <1>2, <1>3, <1>4, <1>5, <1>6 DEF Next

\* The invariant holds in every reachable state.
LEMMA AlwaysIInv == Spec => []IInv
<1> QED
  BY InitIInv, NextIInv, PTL DEF Spec

(***************************************************************************)
(* The stores and the metadata keep their types through every operation    *)
(* and eviction, and no statistic is ever later than the clock.            *)
(***************************************************************************)
THEOREM TypeCorrect == Spec => []TypeOK
<1>1. IInv => TypeOK
  BY DEF IInv
<1> QED
  BY <1>1, AlwaysIInv, PTL

(***************************************************************************)
(* A key has metadata exactly when a store holds it, so expiry and         *)
(* eviction reach every key and the fallback of checkAndEvict for keys     *)
(* without metadata is dead code.                                          *)
(***************************************************************************)
THEOREM MetadataTracksStores == Spec => []MetaTracksStores
<1>1. IInv => MetaTracksStores
  BY DEF IInv
<1> QED
  BY <1>1, AlwaysIInv, PTL

(***************************************************************************)
(* The single eviction at the end of a write is enough to keep the number  *)
(* of entries at max_cache_size or below for ever.                         *)
(***************************************************************************)
THEOREM CapacityRespected == Spec => []WithinCapacity
<1>1. IInv => WithinCapacity
  BY DEF IInv, Holds, WithinCapacity
<1> QED
  BY <1>1, AlwaysIInv, PTL

-------------------------------------------------------------------------------
(* Second part: what is stored is never empty, and hashes stay finite        *)
(* (NoEmptyCollections, StatsPopulated).  Again one lemma per helper and one *)
(* per operation.                                                            *)

\* Statistics that have counted an access.
Counted(m) == \A k \in DOMAIN m : m[k] \in KeyStats /\ m[k].access_count > 0

\* A hash with at least one field, and finitely many.
Sized(h) == DOMAIN h # {} /\ IsFiniteSet(DOMAIN h)

\* Lists and hashes that hold something.
Stuffed(d) ==
    /\ \A k \in DOMAIN d.list_store : d.list_store[k] # <<>>
    /\ \A k \in DOMAIN d.hash_store : Sized(d.hash_store[k])

IsRecord(d) == d = [kv_store |-> d.kv_store, list_store |-> d.list_store,
                    hash_store |-> d.hash_store, meta_store |-> d.meta_store]

Full(d) == IsRecord(d) /\ Stuffed(d) /\ Counted(d.meta_store)

-------------------------------------------------------------------------------
(* The metadata.                                                             *)

\* An access counts, whether or not the key had statistics.
LEMMA recordAccessCounted ==
    ASSUME NEW m, NEW t \in Nat, Counted(m), NEW k
    PROVE  Counted(recordAccess(m, k, t))
<1> DEFINE r == StatsOf(m, k, t)
           n == r.access_count + 1
           s == [r EXCEPT !.access_count = n, !.last_access = t]
<1>1. r \in KeyStats
  BY DEF StatsOf, Counted, contains, DefaultStats, KeyStats
<1>2. recordAccess(m, k, t) = SetStats(m, k, s)
  BY DEF recordAccess
<1>3. n \in Nat /\ n > 0
  BY <1>1 DEF KeyStats
<1> HIDE DEF r, n
<1>4. s \in KeyStats /\ s.access_count = n
  BY <1>1, <1>3, Zenon DEF KeyStats
<1> HIDE DEF s
<1>5. s.access_count > 0
  BY <1>3, <1>4
<1>6. Counted(SetStats(m, k, s))
  BY <1>4, <1>5 DEF Counted, SetStats
<1> QED
  BY <1>2, <1>6

\* setTTL keeps the count of a key that has one; it would give a new one 0.
LEMMA setTTLCounted ==
    ASSUME NEW m, NEW t \in Nat, Counted(m), NEW k \in DOMAIN m, NEW ttl \in Nat
    PROVE  Counted(setTTL(m, k, ttl, t))
<1> DEFINE r == m[k]
           s == [r EXCEPT !.ttl_initial_seconds = ttl, !.ttl_set_time = t,
                          !.last_access = t]
<1>1. r \in KeyStats /\ r.access_count > 0
  BY DEF Counted
<1>2. setTTL(m, k, ttl, t) = SetStats(m, k, s)
  BY DEF setTTL, StatsOf, contains
<1> HIDE DEF r
<1>3. s \in KeyStats /\ s.access_count = r.access_count
  BY <1>1, Zenon DEF KeyStats
<1>4. s.access_count > 0
  BY <1>1, <1>3
<1> HIDE DEF s
<1>5. Counted(SetStats(m, k, s))
  BY <1>3, <1>4 DEF Counted, SetStats
<1> QED
  BY <1>2, <1>5

-------------------------------------------------------------------------------
(* The helpers.                                                              *)

\* Full, part by part.
LEMMA FullParts ==
    ASSUME NEW d
    PROVE  Full(d) <=>
             /\ d = [kv_store |-> d.kv_store, list_store |-> d.list_store,
                     hash_store |-> d.hash_store, meta_store |-> d.meta_store]
             /\ \A k \in DOMAIN d.list_store : d.list_store[k] # <<>>
             /\ \A k \in DOMAIN d.hash_store : Sized(d.hash_store[k])
             /\ Counted(d.meta_store)
BY DEF Full, IsRecord, Stuffed

\* Deleting a key empties nothing else.
LEMMA delInternalFull ==
    ASSUME NEW d, Full(d), NEW k
    PROVE  Full(delInternal(d, k))
<1>1. Counted(removeKey(d.meta_store, k))
  BY FullParts DEF Counted, removeKey, Restrict
<1> QED
  BY <1>1, FullParts DEF delInternal, Erase, Restrict

\* An access.
LEMMA TouchFull ==
    ASSUME NEW d, NEW t \in Nat, Full(d), NEW k
    PROVE  Full(Touch(d, t, k))
<1>1. Counted(recordAccess(d.meta_store, k, t))
  BY FullParts, recordAccessCounted
<1> HIDE DEF Counted
<1> QED
  BY <1>1, FullParts DEF Touch

\* Dropping the expired key.
LEMMA DropExpiredFull ==
    ASSUME NEW d, NEW t, Full(d), NEW k
    PROVE  Full(DropExpired(d, t, k))
BY delInternalFull DEF DropExpired

\* Every reading operation.
LEMMA ReadOpFull ==
    ASSUME NEW d, NEW t \in Nat, Full(d), NEW k, NEW hit, NEW found, NEW missed
    PROVE  Full(ReadOp(d, t, k, hit, found, missed).db)
BY TouchFull, DropExpiredFull DEF ReadOp

\* An eviction.
LEMMA checkAndEvictFull ==
    ASSUME NEW d, NEW t, Full(d), NEW e \in checkAndEvict(d, t)
    PROVE  Full(e)
BY delInternalFull DEF checkAndEvict

-------------------------------------------------------------------------------
(* Keys and strings.                                                         *)

\* SET: the access comes before the TTL, so that the count is not 0.
LEMMA setFull ==
    ASSUME NEW d, NEW t \in Nat, Full(d), NEW k, NEW v, NEW ttl \in Nat,
           NEW e \in set(d, t, k, v, ttl)
    PROVE  Full(e)
<1> DEFINE d1 == DropExpired(d, t, k)
           q == Put(d1.kv_store, k, v)
           p == [d1 EXCEPT !.kv_store = q]
           d2 == Touch(p, t, k)
           m == setTTL(d2.meta_store, k, ttl, t)
           d3 == [d2 EXCEPT !.meta_store = m]
<1>1. e \in checkAndEvict(d3, t)
  BY DEF set
<1>2. Full(d1)
  BY DropExpiredFull
<1> HIDE DEF d1, q
<1>3. Full(p)
  <2>1. p = [kv_store |-> q, list_store |-> d1.list_store,
             hash_store |-> d1.hash_store, meta_store |-> d1.meta_store]
    BY <1>2, FullParts
  <2> HIDE DEF p
  <2> QED
    BY <1>2, <2>1, FullParts
<1> HIDE DEF p
<1>4. Full(d2)
  BY <1>3, TouchFull
<1>5. k \in DOMAIN d2.meta_store
  BY <1>3, FullParts DEF Touch, recordAccess, SetStats
<1> HIDE DEF d2
<1>6. Counted(m)
  BY <1>4, <1>5, FullParts, setTTLCounted
<1> HIDE DEF m
<1>7. Full(d3)
  BY <1>4, <1>6, FullParts
<1> QED
  BY <1>1, <1>7, checkAndEvictFull

\* EXPIRE touches the statistics of a key that has some.
LEMMA expireFull ==
    ASSUME NEW d, NEW t \in Nat, Full(d), Tracks(d), NEW k, NEW seconds \in Nat
    PROVE  Full(expire(d, t, k, seconds).db)
<1> DEFINE m == setTTL(d.meta_store, k, seconds, t)
           z == setTTL(d.meta_store, k, 0, t)
           e == [d EXCEPT !.meta_store = m]
           f == [d EXCEPT !.meta_store = z]
<1>1. CASE k \notin DOMAIN d.meta_store
  BY <1>1 DEF expire, contains, Tracks
<1>2. CASE k \in DOMAIN d.meta_store
  <2>1. Counted(m) /\ Counted(z)
    BY <1>2, FullParts, setTTLCounted
  <2>2. expire(d, t, k, seconds).db =
          IF seconds > 0 THEN Touch(e, t, k) ELSE delInternal(f, k)
    BY <1>2 DEF expire, contains
  <2> HIDE DEF m, z
  <2>3. Full(e) /\ Full(f)
    BY <2>1, FullParts
  <2> HIDE DEF e, f
  <2> QED
    BY <2>2, <2>3, TouchFull, delInternalFull
<1> QED
  BY <1>1, <1>2

\* KEYS counts an access to every key it leaves.
LEMMA keysFull ==
    ASSUME NEW d, NEW t \in Nat, Full(d), Good(d, t)
    PROVE  Full(keys(d, t).db)
<1> DEFINE live == {k \in StoredKeys(d) : ~isExpired(d, t, k)}
           kept == Keep(d, live \cup (Key \ StoredKeys(d)))
           m == [k \in DOMAIN kept.meta_store \cup live |->
                   IF k \in live THEN recordAccess(d.meta_store, k, t)[k]
                                 ELSE kept.meta_store[k]]
           e == keys(d, t).db
<1>1. /\ e.kv_store = kept.kv_store
      /\ e.list_store = kept.list_store
      /\ e.hash_store = kept.hash_store
      /\ e.meta_store = m
      /\ e = [kv_store |-> e.kv_store, list_store |-> e.list_store,
              hash_store |-> e.hash_store, meta_store |-> e.meta_store]
  BY DEF keys, Keep
<1>2. /\ \A k \in DOMAIN kept.list_store : kept.list_store[k] # <<>>
      /\ \A k \in DOMAIN kept.hash_store : Sized(kept.hash_store[k])
  BY FullParts DEF Keep, Restrict
<1>3. Counted(m)
  <2>1. Counted(d.meta_store)
    BY FullParts
  <2>2. ASSUME NEW k \in live
        PROVE  m[k] \in KeyStats /\ m[k].access_count > 0
    <3>1. Counted(recordAccess(d.meta_store, k, t))
      BY <2>1, recordAccessCounted
    <3>2. k \in DOMAIN recordAccess(d.meta_store, k, t)
      BY DEF recordAccess, SetStats
    <3>3. m[k] = recordAccess(d.meta_store, k, t)[k]
      OBVIOUS
    <3> HIDE DEF m
    <3> QED
      BY <3>1, <3>2, <3>3 DEF Counted
  <2>3. ASSUME NEW k \in DOMAIN m, k \notin live
        PROVE  m[k] \in KeyStats /\ m[k].access_count > 0
    <3>1. k \in DOMAIN d.meta_store /\ m[k] = d.meta_store[k]
      BY <2>3 DEF Keep, Restrict
    <3> HIDE DEF m
    <3> QED
      BY <2>1, <3>1 DEF Counted
  <2> HIDE DEF m, live
  <2> QED
    BY <2>2, <2>3 DEF Counted
<1> HIDE DEF m, kept, e, live
<1> QED
  BY <1>1, <1>2, <1>3, FullParts DEF e

\* RENAME, with and without statistics to carry over.
LEMMA renameFull ==
    ASSUME NEW d, NEW t \in Nat, Full(d), NEW o, NEW n
    PROVE  Full(rename(d, t, o, n).db)
<1> DEFINE d1 == IF n \in StoredKeys(d) THEN delInternal(d, n) ELSE d
           meta == removeKey(d1.meta_store, o)
           hadStats == contains(d1.meta_store, o)
                         /\ d1.meta_store[o].access_count > 0
           fresh == recordAccess(meta, n, t)
           carried == IF hadStats THEN SetStats(fresh, n, d1.meta_store[o])
                                  ELSE fresh
           found == o \in StoredKeys(d1)
           e == [kv_store |-> MoveEntry(d1.kv_store, o, n),
                 list_store |-> MoveEntry(d1.list_store, o, n),
                 hash_store |-> MoveEntry(d1.hash_store, o, n),
                 meta_store |-> IF found THEN recordAccess(carried, n, t)
                                         ELSE meta]
<1>1. rename(d, t, o, n).db = IF isExpired(d, t, o) THEN delInternal(d, o) ELSE e
  BY DEF rename
<1>2. Full(delInternal(d, o)) /\ Full(d1)
  BY delInternalFull
<1> HIDE DEF d1
<1>3. Counted(d1.meta_store)
  BY <1>2, FullParts
<1>4. Counted(meta)
  BY <1>3 DEF Counted, removeKey, Restrict
<1> HIDE DEF meta
<1>5. Counted(fresh)
  BY <1>4, recordAccessCounted
<1> HIDE DEF fresh
<1>6. Counted(carried)
  BY <1>3, <1>5 DEF Counted, SetStats, contains
<1> HIDE DEF carried
<1>7. Counted(e.meta_store)
  BY <1>4, <1>6, recordAccessCounted
<1>8. Stuffed(e)
  BY <1>2, FullParts DEF Stuffed, MoveEntry, Put, Erase, Restrict
<1>9. Full(e)
  BY <1>7, <1>8 DEF Full, IsRecord
<1> QED
  BY <1>1, <1>2, <1>9

-------------------------------------------------------------------------------
(* Lists and hashes.                                                         *)

\* A list put into the store.
LEMMA PutListFull ==
    ASSUME NEW d, Full(d), NEW k, NEW l, l # <<>>
    PROVE  Full([d EXCEPT !.list_store = Put(@, k, l)])
<1> DEFINE q == Put(d.list_store, k, l)
           p == [d EXCEPT !.list_store = q]
<1>1. \A j \in DOMAIN q : q[j] # <<>>
  BY FullParts DEF Put
<1> HIDE DEF q
<1>2. p = [kv_store |-> d.kv_store, list_store |-> q, hash_store |-> d.hash_store,
           meta_store |-> d.meta_store]
  BY FullParts
<1> HIDE DEF p
<1>3. Full(p)
  BY <1>1, <1>2, FullParts
<1> QED
  BY <1>3 DEF p, q

\* A hash put into the store.
LEMMA PutHashFull ==
    ASSUME NEW d, Full(d), NEW k, NEW h, Sized(h)
    PROVE  Full([d EXCEPT !.hash_store = Put(@, k, h)])
<1> DEFINE q == Put(d.hash_store, k, h)
           p == [d EXCEPT !.hash_store = q]
<1>1. \A j \in DOMAIN q : Sized(q[j])
  BY FullParts DEF Put
<1> HIDE DEF q
<1>2. p = [kv_store |-> d.kv_store, list_store |-> d.list_store, hash_store |-> q,
           meta_store |-> d.meta_store]
  BY FullParts
<1> HIDE DEF p
<1>3. Full(p)
  BY <1>1, <1>2, FullParts
<1> QED
  BY <1>3 DEF p, q

\* A push leaves at least the element pushed.
LEMMA pushFull ==
    ASSUME NEW d, NEW t \in Nat, Full(d), Good(d, t), NEW k \in Key, NEW v \in Value,
           NEW e \in lpush(d, t, k, v) \cup rpush(d, t, k, v)
    PROVE  Full(e)
<1> DEFINE d1 == DropExpired(d, t, k)
           l == ListAt(d1.list_store, k)
<1>1. Full(d1) /\ Good(d1, t)
  BY DropExpiredFull, DropExpiredGood
<1>2. l \in Seq(Value)
  BY <1>1, ListAtTyped
<1>3. e \in StoreList(d1, t, k, <<v>> \o l) \cup StoreList(d1, t, k, Append(l, v))
  BY DEF lpush, rpush
<1> HIDE DEF d1, l
<1>4. <<v>> \o l # <<>> /\ Append(l, v) # <<>>
  <2>1. Len(<<v>> \o l) = 1 + Len(l) /\ Len(Append(l, v)) = Len(l) + 1 /\ Len(l) \in Nat
    BY <1>2
  <2>2. Len(<<>>) = 0
    OBVIOUS
  <2> QED
    BY <2>1, <2>2
<1>5. PICK m : m # <<>> /\ e \in StoreList(d1, t, k, m)
  BY <1>3, <1>4
<1> DEFINE p == [d1 EXCEPT !.list_store = Put(@, k, m)]
<1>6. Full(p)
  BY <1>1, <1>5, PutListFull
<1>7. e \in checkAndEvict(Touch(p, t, k), t)
  BY <1>5 DEF StoreList
<1> HIDE DEF p
<1> QED
  BY <1>6, <1>7, TouchFull, checkAndEvictFull

\* The operations that change a list delete the key with its last element.
LEMMA UpdateListFull ==
    ASSUME NEW d, NEW t \in Nat, Full(d), NEW k, NEW hit, NEW l, NEW found, NEW missed
    PROVE  Full(UpdateList(d, t, k, hit, l, found, missed).db)
<1> DEFINE c == Touch(d, t, k)
<1>1. Full(c)
  BY TouchFull
<1> HIDE DEF c
<1>2. Full(ReplaceList(c, k, l))
  BY <1>1, delInternalFull, PutListFull DEF ReplaceList
<1> QED
  BY <1>2, DropExpiredFull DEF UpdateList, c

\* HSET and HMSET pass at least one pair.
LEMMA hmsetFull ==
    ASSUME NEW d, NEW t \in Nat, Full(d), NEW k, NEW fv, Sized(fv),
           NEW e \in hmset(d, t, k, fv)
    PROVE  Full(e)
<1> DEFINE d1 == DropExpired(d, t, k)
           h == Overlay(fv, HashAt(d1.hash_store, k))
           p == [d1 EXCEPT !.hash_store = Put(@, k, h)]
<1>1. Sized(h)
  <2>1. Full(d1)
    BY DropExpiredFull
  <2> HIDE DEF d1
  <2>2. IsFiniteSet(DOMAIN HashAt(d1.hash_store, k))
    <3>1. CASE k \in DOMAIN d1.hash_store
      BY <2>1, <3>1, FullParts DEF HashAt, Sized
    <3>2. CASE k \notin DOMAIN d1.hash_store
      BY <3>2, FS_EmptySet DEF HashAt, Restrict
    <3> QED
      BY <3>1, <3>2
  <2>3. DOMAIN h = DOMAIN fv \cup DOMAIN HashAt(d1.hash_store, k)
    BY DEF Overlay
  <2> HIDE DEF h
  <2> QED
    BY <2>2, <2>3, FS_Union DEF Sized
<1>2. e \in checkAndEvict(Touch(p, t, k), t)
  BY DEF hmset
<1> HIDE DEF h
<1>3. Full(p)
  BY <1>1, DropExpiredFull, PutHashFull
<1> HIDE DEF p
<1> QED
  BY <1>2, <1>3, TouchFull, checkAndEvictFull

\* HDEL deletes the key with its last field.
LEMMA hdelFull ==
    ASSUME NEW d, NEW t \in Nat, Full(d), NEW k, NEW f
    PROVE  Full(hdel(d, t, k, f).db)
<1> DEFINE c == Touch(d, t, k)
           h == Erase(d.hash_store[k], f)
<1>1. Full(c)
  BY TouchFull
<1> HIDE DEF c
<1>2. ASSUME k \in DOMAIN d.hash_store
      PROVE  Full(ReplaceHash(c, k, h))
  <2>1. IsFiniteSet(DOMAIN d.hash_store[k])
    BY <1>2, FullParts DEF Sized
  <2>2. DOMAIN h = DOMAIN d.hash_store[k] \ {f}
    BY DEF Erase, Restrict
  <2>3. IsFiniteSet(DOMAIN h)
    BY <2>1, <2>2, FS_Subset
  <2> HIDE DEF h
  <2> QED
    BY <1>1, <2>3, delInternalFull, PutHashFull DEF ReplaceHash, Sized
<1> HIDE DEF h
<1> QED
  BY <1>2, DropExpiredFull DEF hdel, c, h

-------------------------------------------------------------------------------
(* The specification.                                                        *)

\* Nothing is stored at first.
LEMMA InitFull == Init => Full(db)
BY DEF Init, Full, IsRecord, Stuffed, Counted, EmptyDatabase, EmptyMap

\* Every operation on one key.
LEMMA StepFull ==
    ASSUME IInv, Full(db), NEW k \in Key, KeyStep(k) \/ ListStep(k) \/ HashStep(k)
    PROVE  Full(db')
<1>1. Good(db, now) /\ Tracks(db) /\ now \in Nat
  BY IInvGood, DatabaseAssumption DEF Good
<1>2. TTLs \cup {0} \subseteq Nat
  BY DatabaseAssumption
<1>3. CASE KeyStep(k)
  <2>1. ASSUME NEW v \in Value, NEW ttl \in TTLs \cup {0}, Set(k, v, ttl)
        PROVE  Full(db')
    BY <1>1, <1>2, <2>1, setFull DEF Set, Becomes
  <2>2. CASE Get(k) \/ Type(k)
    BY <1>1, <2>2, ReadOpFull DEF Get, get, Type, type, Becomes
  <2>3. CASE Del(k)
    BY <2>3, delInternalFull DEF Del, del, Becomes
  <2>4. ASSUME NEW seconds \in TTLs \cup {0}, Expire(k, seconds)
        PROVE  Full(db')
    BY <1>1, <1>2, <2>4, expireFull DEF Expire, Becomes
  <2>5. ASSUME NEW n \in Key, Rename(k, n)
        PROVE  Full(db')
    BY <1>1, <2>5, renameFull DEF Rename, Becomes
  <2> QED
    BY <1>3, <2>1, <2>2, <2>3, <2>4, <2>5 DEF KeyStep
<1>4. CASE ListStep(k)
  <2>1. CASE LGet(k) \/ LLen(k) \/ \E index \in Indexes : LIndex(k, index)
    BY <1>1, <2>1, ReadOpFull DEF LGet, lget, LLen, llen, LIndex, lindex, Becomes
  <2>2. ASSUME NEW v \in Value, LPush(k, v) \/ RPush(k, v)
        PROVE  Full(db')
    BY <1>1, <2>2, pushFull DEF LPush, RPush, Becomes
  <2>3. CASE RPop(k) \/ LPop(k)
    BY <1>1, <2>3, UpdateListFull DEF RPop, rpop, LPop, lpop, Becomes
  <2>4. ASSUME NEW v \in Value, NEW count \in Counts, LRem(k, count, v)
        PROVE  Full(db')
    BY <1>1, <2>4, UpdateListFull DEF LRem, lrem, Becomes
  <2>5. ASSUME NEW v \in Value, NEW index \in Indexes, LSet(k, index, v)
        PROVE  Full(db')
    BY <1>1, <2>5, UpdateListFull DEF LSet, lset, Becomes
  <2> QED
    BY <1>4, <2>1, <2>2, <2>3, <2>4, <2>5 DEF ListStep
<1>5. CASE HashStep(k)
  <2>1. ASSUME NEW fv, Sized(fv), NEW e \in hmset(db, now, k, fv), Becomes(e)
        PROVE  Full(db')
    BY <1>1, <2>1, hmsetFull DEF Becomes
  <2>2. ASSUME NEW f \in Field, NEW v \in Value, HSet(k, f, v)
        PROVE  Full(db')
    <3>1. Sized([g \in {f} |-> v])
      BY FS_Singleton DEF Sized
    <3> QED
      BY <2>1, <2>2, <3>1 DEF HSet, hset
  <2>3. ASSUME NEW fv \in FieldValues, HMSet(k, fv)
        PROVE  Full(db')
    <3>1. Sized(fv)
      BY DEF FieldValues, Sized
    <3> QED
      BY <2>1, <2>3, <3>1 DEF HMSet
  <2>4. CASE \/ \E f \in Field : HGet(k, f) \/ HExists(k, f)
             \/ HGetAll(k) \/ HKeys(k) \/ HVals(k) \/ HLen(k)
    BY <1>1, <2>4, ReadOpFull DEF HGet, hget, HExists, hexists, HGetAll, hgetall,
       HKeys, hkeys, HVals, hvals, HLen, hlen, Becomes
  <2>5. ASSUME NEW f \in Field, HDel(k, f)
        PROVE  Full(db')
    BY <1>1, <2>5, hdelFull DEF HDel, Becomes
  <2> QED
    BY <1>5, <2>2, <2>3, <2>4, <2>5 DEF HashStep
<1> QED
  BY <1>3, <1>4, <1>5

\* Every step.
LEMMA NextFull == IInv /\ Full(db) /\ [Next]_vars => Full(db')
<1> SUFFICES ASSUME IInv, Full(db), [Next]_vars PROVE Full(db')
  OBVIOUS
<1>1. Good(db, now) /\ now \in Nat
  BY IInvGood, DatabaseAssumption
<1>2. CASE FlushAll
  BY <1>2 DEF FlushAll, flushAll, Becomes, Full, IsRecord, Stuffed, Counted,
     EmptyDatabase, EmptyMap
<1>3. CASE Keys
  BY <1>1, <1>3, keysFull DEF Keys, Becomes
<1>4. CASE Tick \/ UNCHANGED vars
  BY <1>4 DEF Tick, vars
<1> QED
  BY <1>2, <1>3, <1>4, StepFull DEF Next

\* What is stored is never empty.
LEMMA AlwaysFull == Spec => [](IInv /\ Full(db))
<1> DEFINE F == Full(db)
<1>1. Init => F
  BY InitFull
<1>2. IInv /\ F /\ [Next]_vars => F'
  BY NextFull
<1> HIDE DEF F
<1>3. Spec => [](IInv /\ F)
  BY <1>1, <1>2, AlwaysIInv, PTL DEF Spec
<1> QED
  BY <1>3 DEF F

(***************************************************************************)
(* No operation, eviction or deletion in any order leaves an empty list or *)
(* hash in the stores.                                                     *)
(***************************************************************************)
THEOREM CollectionsNeverEmpty == Spec => []NoEmptyCollections
<1>1. IInv /\ Full(db) => NoEmptyCollections
  BY FullParts DEF NoEmptyCollections, Sized
<1> QED
  BY <1>1, AlwaysFull, PTL

(***************************************************************************)
(* Every key with metadata has counted an access, so that rename, which    *)
(* takes a positive count for "had statistics", carries every TTL over.    *)
(***************************************************************************)
THEOREM StatisticsPopulated == Spec => []StatsPopulated
<1>1. IInv /\ Full(db) => StatsPopulated
  BY FullParts DEF StatsPopulated, Counted
<1> QED
  BY <1>1, AlwaysFull, PTL
================================================================================
