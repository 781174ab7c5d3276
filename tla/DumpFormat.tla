------------------------------- MODULE DumpFormat -------------------------------
(***************************************************************************)
(* The text that dump writes and what load takes it for.  Every record is  *)
(* a letter, a key and what is stored under it, with a space before each,  *)
(* and keys, fields and values may hold white space of their own.  load    *)
(* splits the text at white space.  It sees neither the ends of records,   *)
(* the two characters \ and n, nor the letters behind them: these stick to *)
(* the word before.  With no newline in it the whole file is one line, and *)
(* load's first call on the database is its last: it waits for the mutex   *)
(* load holds (Persistence).                                               *)
(*                                                                         *)
(* dump holds db_mutex: nothing changes the database while it goes from    *)
(* record to record, but time passes.  A dump that the end of the process  *)
(* cuts short is not modelled here.                                        *)
(***************************************************************************)
EXTENDS RedisDatabase

\* Into how many words white space divides a key, a field or a value.
CONSTANT WordsIn

\* None is empty or blank, or has a newline in it, as the CLI splits its lines.
ASSUME FormatAssumption ==
    /\ EmptyKey \notin Key \cup Field \cup Value
    /\ WordsIn \in [Key \cup Field \cup Value -> Nat \ {0}]

VARIABLES
    text,       \* the dump file: its first letter, and what stands behind it
    stuck,      \* whether load has made a call
    rest,       \* the keys of each store that dump has not come to
    dumped      \* history: the database when the last dump began

dumpVars == <<vars, text, stuck, rest, dumped>>

\* The three loops of dump by the letter they write, in this order.
Store(d) == [K |-> d.kv_store, L |-> d.list_store, H |-> d.hash_store]
Letter == {"K", "L", "H"}
Before == [K |-> {}, L |-> {"K"}, H |-> {"K", "L"}]

\* The entries of a map, in one order or another.
Entries(h) ==
    {[i \in 1..(2 * Cardinality(DOMAIN h)) |->
        IF i % 2 = 1 THEN s[i \div 2 + 1] ELSE h[s[i \div 2]]] :
            s \in Bijection(1..Cardinality(DOMAIN h), DOMAIN h)}

\* What dump may write behind the key of an entry x of a store.
Contents(letter, x) ==
    CASE letter = "K" -> {<<x>>}
      [] letter = "L" -> {x}
      [] letter = "H" -> Entries(x)

NoText == [letter |-> "", pieces |-> <<>>]

\* Text tx with one record more.
Behind(tx, letter, ps) ==
    IF tx = NoText THEN [letter |-> letter, pieces |-> ps]
                   ELSE [tx EXCEPT !.pieces = @ \o ps]


Dumpable(k) == ~isExpired(db, now, k)

-------------------------------------------------------------------------------
(* What load reads.                                                          *)

\* The words of a sequence of pieces: word j of piece i.
WordsOf(ps) == UNION {{i} \X (1..WordsIn[ps[i]]) : i \in DOMAIN ps}

(***************************************************************************)
(* Whether load makes a call.  The first word is the key.  A string is set *)
(* whatever follows; every further word is pushed on a list; every two are *)
(* a field of a hash and its value.                                        *)
(***************************************************************************)
MakesCall(tx) ==
    LET further == WordsOf(tx.pieces) \ {<<1, 1>>}
    IN  \/ tx.letter = "K"
        \/ tx.letter = "L" /\ further # {}
        \/ tx.letter = "H" /\ \E field, value \in further : field # value

-------------------------------------------------------------------------------
(* The specification.                                                        *)

Closed == \A s \in Letter : rest[s] = {}

DumpInit ==
    /\ Init
    /\ text = NoText /\ stuck = FALSE
    /\ rest = [s \in Letter |-> {}]
    /\ dumped = EmptyDatabase

\* A load that made a call stays in it, with the mutex: nothing else runs.
Run ==
    /\ Closed /\ ~stuck
    /\ Next
    /\ UNCHANGED <<text, stuck, rest, dumped>>

\* dump locks the mutex and truncates the file.
BeginDump ==
    /\ Closed /\ ~stuck
    /\ text' = NoText
    /\ rest' = [s \in Letter |-> DOMAIN Store(db)[s]]
    /\ dumped' = db
    /\ UNCHANGED <<vars, stuck>>

\* One turn of one of the loops.
DumpKey(s, k) ==
    /\ \A r \in Before[s] : rest[r] = {}
    /\ k \in rest[s]
    /\ rest' = [rest EXCEPT ![s] = @ \ {k}]
    /\ IF Dumpable(k)
       THEN \E ps \in Contents(s, Store(db)[s][k]) :
               text' = Behind(text, s, <<k>> \o ps)
       ELSE UNCHANGED text
    /\ UNCHANGED <<vars, stuck, dumped>>

\* A second passes between two turns.
Wait ==
    /\ ~Closed
    /\ Tick
    /\ UNCHANGED <<text, stuck, rest, dumped>>

\* The program starts again and loads.
Load ==
    /\ Closed
    /\ db' = EmptyDatabase
    /\ stuck' = MakesCall(text)
    /\ UNCHANGED <<now, text, rest, dumped>>

DumpNext ==
    \/ Run
    \/ BeginDump
    \/ \E s \in Letter, k \in Key : DumpKey(s, k)
    \/ Wait
    \/ Load

DumpSpec == DumpInit /\ [][DumpNext]_dumpVars

-------------------------------------------------------------------------------
(* Properties.                                                               *)

(***************************************************************************)
(* A file of which load makes no call had nothing to tell: every key that  *)
(* was stored when it was dumped has expired.  So a start that gets past   *)
(* load (Persistence) has lost nothing that a dump was to keep, however    *)
(* white space divides what was stored.                                    *)
(***************************************************************************)
SilentLoadLosesNothing ==
    Closed /\ ~MakesCall(text) =>
        \A k \in StoredKeys(dumped) : isExpired(dumped, now, k)
===============================================================================
