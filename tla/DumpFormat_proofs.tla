-------------------------- MODULE DumpFormat_proofs ---------------------------
(***************************************************************************)
(* Proof of SilentLoadLosesNothing, for every set of keys, fields and      *)
(* values, divided by white space in any way, databases of any size, and a *)
(* clock that may move between any two records.                            *)
(*                                                                         *)
(* The head of the text is the first record: a key and at least one piece  *)
(* behind it, or two in a hash, each of at least one word.  That there are *)
(* any is the database's doing: it stores no empty list and no empty hash. *)
(***************************************************************************)
EXTENDS DumpFormat, RedisDatabase_proofs

\* The pieces of a text.
Piece == Key \cup Field \cup Value

\* Text tx has a record at its head that load makes a call of.
Leads(tx) ==
    /\ tx = [letter |-> tx.letter, pieces |-> tx.pieces]
    /\ tx.letter \in Letter
    /\ tx.pieces \in Seq(Piece) /\ Len(tx.pieces) >= 2
    /\ tx.letter = "H" => Len(tx.pieces) >= 3

-------------------------------------------------------------------------------
(* What dump writes.                                                         *)

\* The stores by their letters.
LEMMA StoreOf ==
    ASSUME NEW d
    PROVE  /\ Store(d)["K"] = d.kv_store
           /\ Store(d)["L"] = d.list_store
           /\ Store(d)["H"] = d.hash_store
BY DEF Store

(***************************************************************************)
(* Behind the key there is at least one piece, in a hash at least a field   *)
(* and a value: no stored list or hash is empty.                           *)
(***************************************************************************)
LEMMA ContentsShape ==
    ASSUME NEW d, NEW t, Good(d, t), Full(d),
           NEW s \in Letter, NEW k \in DOMAIN Store(d)[s],
           NEW ws \in Contents(s, Store(d)[s][k])
    PROVE  /\ ws \in Seq(Piece) /\ Len(ws) >= 1 /\ k \in Key
           /\ s = "H" => Len(ws) >= 2
<1>1. /\ IsMap(d.kv_store, Key, Value) /\ IsMap(d.list_store, Key, Seq(Value))
      /\ DOMAIN d.hash_store \subseteq Key
      /\ \A j \in DOMAIN d.hash_store : IsMap(d.hash_store[j], Field, Value)
  BY DEF Good, Typed, IsDatabase
<1>2. Stuffed(d)
  BY DEF Full
<1>3. CASE s = "K"
  <2>1. k \in DOMAIN d.kv_store /\ ws = <<d.kv_store[k]>>
    BY <1>3, StoreOf DEF Contents
  <2>2. k \in Key /\ d.kv_store[k] \in Piece
    BY <1>1, <2>1 DEF IsMap, Piece
  <2> QED
    BY <1>3, <2>1, <2>2, StoreOf
<1>4. CASE s = "L"
  <2>1. k \in DOMAIN d.list_store /\ ws = d.list_store[k]
    BY <1>4, StoreOf DEF Contents
  <2>2. k \in Key /\ ws \in Seq(Value) /\ ws # <<>>
    BY <1>1, <1>2, <2>1 DEF IsMap, Stuffed
  <2>3. ws \in Seq(Piece) /\ Len(ws) >= 1
    BY <2>2 DEF Piece
  <2> QED
    BY <1>4, <2>1, <2>2, <2>3, StoreOf
<1>5. CASE s = "H"
  <2> DEFINE h == d.hash_store[k]
             n == Cardinality(DOMAIN h)
  <2>1. k \in DOMAIN d.hash_store /\ ws \in Entries(h)
    BY <1>5, StoreOf DEF Contents
  <2>2. k \in Key /\ IsMap(h, Field, Value) /\ Sized(h)
    BY <1>1, <1>2, <2>1 DEF Stuffed
  <2>3. n \in Nat /\ n # 0
    BY <2>2, FS_EmptySet, FS_CardinalityType DEF Sized
  <2>4. PICK o \in Bijection(1..n, DOMAIN h) :
            ws = [i \in 1..(2 * n) |->
                     IF i % 2 = 1 THEN o[i \div 2 + 1] ELSE h[o[i \div 2]]]
    BY <2>1 DEF Entries
  <2>5. o \in [1..n -> DOMAIN h]
    BY <2>4 DEF Bijection, Injection
  <2>6. \A f \in DOMAIN h : f \in Piece /\ h[f] \in Piece
    BY <2>2 DEF IsMap, Piece
  <2> HIDE DEF n, h
  <2>7. \A i \in 1..(2 * n) :
            (IF i % 2 = 1 THEN o[i \div 2 + 1] ELSE h[o[i \div 2]]) \in Piece
    <3> SUFFICES ASSUME NEW i \in 1..(2 * n)
                 PROVE  /\ i % 2 = 1 => o[i \div 2 + 1] \in Piece
                        /\ i % 2 # 1 => h[o[i \div 2]] \in Piece
      OBVIOUS
    <3>1. i % 2 = 1 => i \div 2 + 1 \in 1..n
      BY <2>3
    <3>2. i % 2 # 1 => i \div 2 \in 1..n
      BY <2>3
    <3> QED
      BY <2>5, <2>6, <3>1, <3>2
  <2>8. 2 * n \in Nat /\ 2 * n >= 2
    BY <2>3
  <2>9. ws \in Seq(Piece) /\ Len(ws) = 2 * n
    BY <2>4, <2>7, <2>8
  <2>10. Len(ws) >= 1 /\ Len(ws) >= 2
    BY <2>8, <2>9
  <2> QED
    BY <1>5, <2>2, <2>9, <2>10
<1> QED
  BY <1>3, <1>4, <1>5 DEF Letter

\* Text of one call, from its parts.
LEMMA LeadsFrom ==
    ASSUME NEW l \in Letter, NEW p \in Seq(Piece), Len(p) >= 2, l = "H" => Len(p) >= 3
    PROVE  Leads([letter |-> l, pieces |-> p])
<1> DEFINE tx == [letter |-> l, pieces |-> p]
<1>1. tx.letter = l /\ tx.pieces = p
  OBVIOUS
<1>2. tx = [letter |-> tx.letter, pieces |-> tx.pieces]
  BY <1>1
<1> HIDE DEF tx
<1>3. Leads(tx)
  BY <1>1, <1>2 DEF Leads
<1> QED
  BY <1>3 DEF tx

\* A record makes text that load makes a call of, and keeps it so.
LEMMA RecordLeads ==
    ASSUME NEW tx, tx = NoText \/ Leads(tx), NEW s \in Letter, NEW k \in Key,
           NEW ps \in Seq(Piece), Len(ps) >= 1, s = "H" => Len(ps) >= 2
    PROVE  Leads(Behind(tx, s, <<k>> \o ps))
<1> DEFINE q == <<k>> \o ps
<1>1. q \in Seq(Piece) /\ Len(q) = Len(ps) + 1
  <2>1. k \in Piece
    BY DEF Piece
  <2> QED
    BY <2>1
<1> HIDE DEF q
<1>2. Len(q) >= 2 /\ (s = "H" => Len(q) >= 3)
  <2>1. Len(ps) \in Nat
    OBVIOUS
  <2> QED
    BY <1>1, <2>1
<1>3. CASE tx = NoText
  <2>1. Behind(tx, s, q) = [letter |-> s, pieces |-> q]
    BY <1>3 DEF Behind
  <2>2. Leads([letter |-> s, pieces |-> q])
    BY <1>1, <1>2, LeadsFrom
  <2> QED
    BY <2>1, <2>2 DEF q
<1>4. CASE tx # NoText
  <2> DEFINE p == tx.pieces
  <2>1. /\ tx = [letter |-> tx.letter, pieces |-> p] /\ tx.letter \in Letter
        /\ p \in Seq(Piece) /\ Len(p) >= 2 /\ (tx.letter = "H" => Len(p) >= 3)
    BY <1>4 DEF Leads
  <2>2. Behind(tx, s, q) = [tx EXCEPT !.pieces = p \o q]
    BY <1>4 DEF Behind
  <2> HIDE DEF p
  <2>3. Behind(tx, s, q) = [letter |-> tx.letter, pieces |-> p \o q]
    BY <2>1, <2>2
  <2>4. p \o q \in Seq(Piece) /\ Len(p \o q) = Len(p) + Len(q)
    BY <1>1, <2>1
  <2>5. Len(p \o q) >= 2 /\ (tx.letter = "H" => Len(p \o q) >= 3)
    <3>1. Len(p) \in Nat /\ Len(q) \in Nat
      BY <1>1, <2>1
    <3> QED
      BY <2>1, <2>4, <3>1
  <2>6. Leads([letter |-> tx.letter, pieces |-> p \o q])
    BY <2>1, <2>4, <2>5, LeadsFrom
  <2> QED
    BY <2>3, <2>6 DEF q
<1> QED
  BY <1>3, <1>4

\* Every piece is at least one word, so load makes its call.
LEMMA LeadsCalls ==
    ASSUME NEW tx, Leads(tx)
    PROVE  MakesCall(tx)
<1> DEFINE ps == tx.pieces
           further == WordsOf(ps) \ {<<1, 1>>}
<1>1. \A i \in DOMAIN ps : <<i, 1>> \in WordsOf(ps)
  <2> SUFFICES ASSUME NEW i \in DOMAIN ps PROVE <<i, 1>> \in WordsOf(ps)
    OBVIOUS
  <2>1. ps[i] \in Piece
    BY DEF Leads
  <2>2. WordsIn[ps[i]] \in Nat \ {0}
    BY <2>1, FormatAssumption DEF Piece
  <2>3. 1 \in 1..WordsIn[ps[i]]
    BY <2>2
  <2>4. <<i, 1>> \in {i} \X (1..WordsIn[ps[i]])
    BY <2>3
  <2> QED
    BY <2>4 DEF WordsOf
<1>2. Len(ps) \in Nat /\ DOMAIN ps = 1..Len(ps)
  BY DEF Leads
<1>3. <<2, 1>> \in further
  <2>1. 2 \in DOMAIN ps
    BY <1>2 DEF Leads
  <2> QED
    BY <1>1, <2>1
<1>4. tx.letter = "H" => <<3, 1>> \in further /\ <<3, 1>> # <<2, 1>>
  <2>1. tx.letter = "H" => 3 \in DOMAIN ps
    BY <1>2 DEF Leads
  <2> QED
    BY <1>1, <2>1
<1>5. tx.letter \in {"K", "L", "H"}
  BY DEF Leads, Letter
<1> HIDE DEF further
<1>6. tx.letter = "H" => \E field, value \in further : field # value
  BY <1>3, <1>4
<1> QED
  BY <1>3, <1>5, <1>6 DEF MakesCall, further

\* What has expired stays so.
LEMMA ExpiredStays ==
    ASSUME NEW d, NEW u, Good(d, u), NEW t \in Nat, NEW t2 \in Nat, t <= t2,
           NEW k, isExpired(d, t, k)
    PROVE  isExpired(d, t2, k)
<1> DEFINE st == d.meta_store[k]
<1>1. contains(d.meta_store, k) /\ HasExpired(st, t)
  BY DEF isExpired
<1>2. st \in KeyStats
  BY <1>1 DEF Good, Typed, IsDatabase, IsMap, contains
<1>3. st.ttl_initial_seconds \in Nat /\ st.ttl_set_time \in Nat
  BY <1>2 DEF KeyStats
<1> HIDE DEF st
<1>4. HasExpired(st, t2)
  BY <1>1, <1>3 DEF HasExpired, getTTLRemaining
<1> QED
  BY <1>1, <1>4 DEF isExpired, st

-------------------------------------------------------------------------------
(* The invariant.                                                            *)

\* What the dump in progress, or the last one, has read of the database.
Snapshot ==
    /\ Good(dumped, now) /\ Full(dumped)
    /\ rest = [s \in Letter |-> rest[s]]
    /\ \A s \in Letter : rest[s] \subseteq DOMAIN Store(dumped)[s]
    /\ ~Closed => db = dumped /\ ~stuck

\* What it has written: something for load to call, or nothing, when all that
\* it has come to had expired.
Written ==
    /\ text # NoText => Leads(text)
    /\ text = NoText =>
          \A s \in Letter : \A k \in DOMAIN Store(dumped)[s] \ rest[s] :
              isExpired(dumped, now, k)

DumpInv == IInv /\ Full(db) /\ Snapshot /\ Written

\* The clock can only make more keys expired.
LEMMA WrittenStays ==
    ASSUME Snapshot, Written, now \in Nat, now' \in Nat, now <= now',
           UNCHANGED <<text, rest, dumped>>
    PROVE  Written'
<1>1. \A s \in Letter : \A k \in DOMAIN Store(dumped)[s] \ rest[s] :
          isExpired(dumped, now, k) => isExpired(dumped, now', k)
  BY ExpiredStays DEF Snapshot
<1> QED
  BY <1>1 DEF Written

\* The operations, a second passing, and a load leave a good database.
LEMMA DatabaseSteps ==
    ASSUME IInv, Full(db), \/ [Next]_vars
                           \/ db' = EmptyDatabase /\ UNCHANGED now
    PROVE  IInv' /\ Full(db') /\ now \in Nat /\ now' \in Nat /\ now <= now'
<1>1. [Next]_vars
  <2>1. WithinBounds(EmptyDatabase)
    BY DEF WithinBounds, EmptyDatabase, EmptyMap
  <2>2. db' = EmptyDatabase /\ UNCHANGED now => FlushAll
    BY <2>1 DEF FlushAll, flushAll, Becomes
  <2> QED
    BY <2>2 DEF Next
<1>2. IInv' /\ Full(db')
  BY <1>1, NextIInv, NextFull
<1>3. now \in Nat /\ now' \in Nat
  BY <1>2, DatabaseAssumption DEF IInv, TypeOK
<1>4. now' = now \/ now' = now + 1
  <2>1. CASE UNCHANGED vars
    BY <2>1 DEF vars
  <2>2. CASE Next
    BY <2>2 DEF Next, FlushAll, Keys, Tick, KeyStep, ListStep, HashStep, Becomes,
       Set, Get, Type, Del, Expire, Rename, LGet, LLen, LPush, RPush, RPop, LPop,
       LRem, LIndex, LSet, HSet, HGet, HExists, HDel, HGetAll, HKeys, HVals, HLen,
       HMSet
  <2> QED
    BY <1>1, <2>1, <2>2
<1> QED
  BY <1>2, <1>3, <1>4

\* What was good at one time is good at a later one.
LEMMA GoodStays ==
    ASSUME NEW d, NEW t \in Nat, NEW u \in Nat, t <= u, Good(d, t)
    PROVE  Good(d, u)
<1>1. \A k \in DOMAIN d.meta_store :
          d.meta_store[k].last_access \in Nat /\ d.meta_store[k].ttl_set_time \in Nat
  BY DEF Good, Typed, IsDatabase, IsMap, KeyStats
<1> QED
  BY <1>1 DEF Good, Typed

\* A command, or a second between two turns of dump.
LEMMA RunKeeps ==
    ASSUME DumpInv, Run \/ Wait
    PROVE  DumpInv'
<1>1. [Next]_vars /\ UNCHANGED <<text, stuck, rest, dumped>>
  BY DEF Run, Wait, Next
<1>2. IInv' /\ Full(db') /\ now \in Nat /\ now' \in Nat /\ now <= now'
  BY <1>1, DatabaseSteps DEF DumpInv
<1>3. Closed \/ db' = db
  BY DEF Run, Wait, Tick
<1>4. Snapshot'
  <2>1. Good(dumped, now')
    BY <1>2, GoodStays DEF DumpInv, Snapshot
  <2> QED
    BY <1>1, <1>3, <2>1 DEF DumpInv, Snapshot, Closed
<1>5. Written'
  BY <1>1, <1>2, WrittenStays DEF DumpInv
<1> QED
  BY <1>2, <1>4, <1>5 DEF DumpInv

\* A dump begins.
LEMMA BeginDumpKeeps ==
    ASSUME DumpInv, BeginDump
    PROVE  DumpInv'
<1>1. UNCHANGED vars /\ db' = db /\ now' = now /\ ~stuck' /\ text' = NoText
  BY DEF BeginDump, vars
<1>2. IInv' /\ Full(db')
  BY <1>1, DatabaseSteps DEF DumpInv
<1>3. Good(db, now)
  BY IInvGood DEF DumpInv
<1>4. dumped' = db /\ rest' = [s \in Letter |-> DOMAIN Store(db)[s]]
  BY DEF BeginDump
<1>5. Snapshot'
  <2>1. rest' = [s \in Letter |-> rest'[s]]
    BY <1>4
  <2>2. \A s \in Letter : rest'[s] \subseteq DOMAIN Store(dumped')[s]
    BY <1>4
  <2> QED
    BY <1>1, <1>2, <1>3, <1>4, <2>1, <2>2 DEF Snapshot
<1>6. Written'
  BY <1>1, <1>4 DEF Written
<1> QED
  BY <1>2, <1>5, <1>6 DEF DumpInv

\* A turn of dump: what it writes first load makes a call of.
LEMMA DumpKeyKeeps ==
    ASSUME DumpInv, NEW s \in Letter, NEW k \in Key, DumpKey(s, k)
    PROVE  DumpInv'
<1>1. db' = db /\ now' = now /\ UNCHANGED <<vars, stuck, dumped>>
  BY DEF DumpKey, vars
<1>2. IInv' /\ Full(db')
  BY <1>1, DatabaseSteps DEF DumpInv
<1>3. k \in rest[s] /\ rest' = [rest EXCEPT ![s] = @ \ {k}]
  BY DEF DumpKey
<1>4. ~Closed /\ db = dumped /\ ~stuck
  BY <1>3 DEF Closed, DumpInv, Snapshot
<1>5. /\ Good(dumped, now) /\ Full(dumped)
      /\ rest = [r \in Letter |-> rest[r]]
      /\ \A r \in Letter : rest[r] \subseteq DOMAIN Store(dumped)[r]
  BY DEF DumpInv, Snapshot
<1>6. \A r \in Letter : rest'[r] = IF r = s THEN rest[r] \ {k} ELSE rest[r]
  BY <1>3, <1>5
<1>7. Snapshot'
  <2>1. rest' = [r \in Letter |-> rest'[r]]
    BY <1>3, <1>5
  <2>2. \A r \in Letter : rest'[r] \subseteq DOMAIN Store(dumped)[r]
    BY <1>5, <1>6
  <2> QED
    BY <1>1, <1>4, <1>5, <2>1, <2>2 DEF Snapshot
<1>8. k \in DOMAIN Store(dumped)[s]
  BY <1>3, <1>5
<1>9. Written'
  <2>1. CASE Dumpable(k)
    <3>1. PICK ps \in Contents(s, Store(dumped)[s][k]) :
              text' = Behind(text, s, <<k>> \o ps)
      BY <1>4, <2>1 DEF DumpKey
    <3>2. ps \in Seq(Piece) /\ Len(ps) >= 1 /\ (s = "H" => Len(ps) >= 2)
      BY <1>5, <1>8, ContentsShape
    <3>3. text = NoText \/ Leads(text)
      BY DEF DumpInv, Written
    <3>4. Leads(text')
      BY <3>1, <3>2, <3>3, RecordLeads
    <3>5. text'.letter \in Letter /\ NoText.letter \notin Letter
      BY <3>4 DEF Leads, NoText, Letter
    <3>6. text' # NoText
      BY <3>5
    <3> QED
      BY <3>4, <3>6 DEF Written
  <2>2. CASE ~Dumpable(k)
    <3>1. text' = text
      BY <2>2 DEF DumpKey
    <3>2. isExpired(dumped, now, k)
      BY <1>4, <2>2 DEF Dumpable
    <3>3. ASSUME text = NoText, NEW r \in Letter, NEW j \in DOMAIN Store(dumped)[r] \ rest'[r]
          PROVE  isExpired(dumped, now, j)
      <4>1. j \in DOMAIN Store(dumped)[r] \ rest[r] \/ j = k
        BY <1>6, <3>3
      <4>2. j \in DOMAIN Store(dumped)[r] \ rest[r] => isExpired(dumped, now, j)
        BY <3>3 DEF DumpInv, Written
      <4> QED
        BY <3>2, <4>1, <4>2
    <3> QED
      BY <1>1, <3>1, <3>3 DEF DumpInv, Written
  <2> QED
    BY <2>1, <2>2
<1> QED
  BY <1>2, <1>7, <1>9 DEF DumpInv

\* A load.
LEMMA LoadKeeps ==
    ASSUME DumpInv, Load
    PROVE  DumpInv'
<1>1. db' = EmptyDatabase /\ Closed /\ UNCHANGED <<now, text, rest, dumped>>
  BY DEF Load
<1>2. IInv' /\ Full(db') /\ now \in Nat /\ now' \in Nat /\ now <= now'
  BY <1>1, DatabaseSteps DEF DumpInv
<1>3. Snapshot'
  BY <1>1 DEF DumpInv, Snapshot, Closed
<1>4. Written'
  BY <1>1, <1>2, WrittenStays DEF DumpInv
<1> QED
  BY <1>2, <1>3, <1>4 DEF DumpInv

\* The initial state: nothing was ever stored or dumped.
LEMMA DumpInitInv == DumpInit => DumpInv
<1> SUFFICES ASSUME DumpInit PROVE DumpInv
  OBVIOUS
<1>1. IInv /\ Full(db) /\ now = 0 /\ db = EmptyDatabase
  BY InitIInv, InitFull DEF DumpInit, Init
<1>2. Good(EmptyDatabase, now) /\ Full(EmptyDatabase)
  BY <1>1, IInvGood
<1>3. dumped = EmptyDatabase /\ rest = [s \in Letter |-> {}] /\ text = NoText
  BY DEF DumpInit
<1>4. Snapshot
  BY <1>1, <1>2, <1>3 DEF Snapshot, Closed
<1>5. Written
  <2>1. \A s \in Letter : DOMAIN Store(EmptyDatabase)[s] = {}
    BY StoreOf DEF EmptyDatabase, EmptyMap, Letter
  <2> QED
    BY <1>3, <2>1 DEF Written
<1> QED
  BY <1>1, <1>4, <1>5 DEF DumpInv

\* Every step.
LEMMA DumpInvInductive == DumpInv /\ [DumpNext]_dumpVars => DumpInv'
<1> SUFFICES ASSUME DumpInv, [DumpNext]_dumpVars PROVE DumpInv'
  OBVIOUS
<1>1. CASE UNCHANGED dumpVars
  <2>1. IInv' /\ Full(db')
    BY <1>1, DatabaseSteps DEF DumpInv, dumpVars, vars
  <2>2. Snapshot' /\ Written'
    BY <1>1 DEF DumpInv, dumpVars, vars, Snapshot, Written, Closed
  <2> QED
    BY <2>1, <2>2 DEF DumpInv
<1> QED
  BY <1>1, RunKeeps, BeginDumpKeeps, DumpKeyKeeps, LoadKeeps DEF DumpNext

(***************************************************************************)
(* A load that makes no call, the only one that returns, has read the dump *)
(* of a database in which every key has expired, whatever white space is   *)
(* in the keys, fields and values.                                         *)
(***************************************************************************)
THEOREM SilentLoadsAreEmpty == DumpSpec => []SilentLoadLosesNothing
<1>1. DumpInv => SilentLoadLosesNothing
  <2> SUFFICES ASSUME DumpInv, Closed, ~MakesCall(text), NEW k \in StoredKeys(dumped)
               PROVE  isExpired(dumped, now, k)
    BY DEF SilentLoadLosesNothing
  <2>1. text = NoText
    BY LeadsCalls DEF DumpInv, Written
  <2>2. \E s \in Letter : k \in DOMAIN Store(dumped)[s]
    BY StoreOf DEF StoredKeys, Letter
  <2> QED
    BY <2>1, <2>2 DEF DumpInv, Written, Closed
<1> QED
  BY <1>1, DumpInitInv, DumpInvInductive, PTL DEF DumpSpec
===============================================================================
