------------------------ MODULE AdaptivePredictiveCache ------------------------
(***************************************************************************)
(* The class AdaptivePredictiveCache: the statistics it keeps for each key *)
(* and the choice of the key to evict.  Its whole state is meta_store, a   *)
(* partial function from keys to KeyStats, so the class is a library of    *)
(* operators on such functions; RedisDatabase owns the state.              *)
(*                                                                         *)
(* Every operator takes the time t at which the member function runs, in   *)
(* whole seconds: every duration of the code goes through                  *)
(* duration_cast<seconds>, which truncates.  The field KeyStats.score is   *)
(* not kept: evictCandidate refreshes it (updateScore) before every use,   *)
(* and getScore has no caller, so it is the function Score of the others.  *)
(***************************************************************************)
EXTENDS Integers, Functions

CONSTANTS
    MaxAccess,   \* bound: greatest access_count explored between operations
    Log1p        \* n |-> log(1 + n) in units of 1/Unit

\* One operation adds at most one to an access_count before it evicts.
ASSUME Log1pAssumption ==
    /\ MaxAccess \in Nat \ {0}
    /\ Log1p \in [0..(MaxAccess + 1) -> Nat]
    /\ \A m, n \in 0..(MaxAccess + 1) : m < n => Log1p[m] < Log1p[n]

\* Factors are fixed-point numbers with this unit; the weights are in tenths.
Unit == 1000000
ALPHA == 5
BETA == 3
GAMMA == 2

KeyStats ==
    [access_count : Nat, last_access : Nat,
     ttl_initial_seconds : Nat, ttl_set_time : Nat]

\* The member initialisers of KeyStats: what meta_store[key] creates.
DefaultStats(t) ==
    [access_count |-> 0, last_access |-> t,
     ttl_initial_seconds |-> 0, ttl_set_time |-> t]

contains(m, k) == k \in DOMAIN m

removeKey(m, k) == Restrict(m, DOMAIN m \ {k})

\* meta_store[key]: the entry, created with default statistics if absent.
StatsOf(m, k, t) == IF contains(m, k) THEN m[k] ELSE DefaultStats(t)

SetStats(m, k, s) ==
    [j \in DOMAIN m \cup {k} |-> IF j = k THEN s ELSE m[j]]

\* Mutant of recordAccess: every access starts the statistics anew.
recordAccessAnew(m, k, t) ==
    SetStats(m, k, [DefaultStats(t) EXCEPT !.access_count =
                                       StatsOf(m, k, t).access_count + 1])

recordAccess(m, k, t) ==
    SetStats(m, k, [StatsOf(m, k, t) EXCEPT !.access_count = @ + 1,
                                            !.last_access = t])

\* Mutant of setTTL: ttl_set_time holds the deadline.
setTTLDeadline(m, k, ttl, t) ==
    SetStats(m, k, [StatsOf(m, k, t) EXCEPT !.ttl_initial_seconds = ttl,
                                            !.ttl_set_time = t + ttl,
                                            !.last_access = t])

setTTL(m, k, ttl, t) ==
    SetStats(m, k, [StatsOf(m, k, t) EXCEPT !.ttl_initial_seconds = ttl,
                                            !.ttl_set_time = t,
                                            !.last_access = t])

\* The seconds left to statistics s; 0 also when there is no TTL.
getTTLRemaining(s, t) ==
    LET left == s.ttl_initial_seconds - (t - s.ttl_set_time)
    IN  IF left > 0 THEN left ELSE 0

\* The test isExpired and evictCandidate both make.
HasExpired(s, t) == getTTLRemaining(s, t) <= 0 /\ s.ttl_initial_seconds > 0

\* Mutant of Score: pure recency.
ScoreRecencyOnly(s, t) == ALPHA * (Unit \div (1 + (t - s.last_access)))

\* updateScore for an entry that has not expired.
Score(s, t) ==
    LET recency_factor == Unit \div (1 + (t - s.last_access))
        frequency_factor == Log1p[s.access_count]
        ttl_factor == IF s.ttl_initial_seconds > 0
                      THEN (Unit * getTTLRemaining(s, t))
                             \div s.ttl_initial_seconds
                      ELSE 0
    IN  ALPHA * recency_factor + BETA * frequency_factor + GAMMA * ttl_factor

\* Mutant of evictCandidate: an expired entry competes like any other.
evictCandidateByScore(m, t) ==
    {k \in DOMAIN m : \A j \in DOMAIN m : Score(m[k], t) <= Score(m[j], t)}

(***************************************************************************)
(* The keys evictCandidate may return: it stops at the first expired entry *)
(* in the order of the hash table, and otherwise returns the first entry   *)
(* with the lowest score in that order.  Both orders are arbitrary.        *)
(***************************************************************************)
evictCandidate(m, t) ==
    LET expired == {k \in DOMAIN m : HasExpired(m[k], t)}
    IN  IF expired # {}
        THEN expired
        ELSE {k \in DOMAIN m :
                 \A j \in DOMAIN m : Score(m[k], t) <= Score(m[j], t)}
===============================================================================
