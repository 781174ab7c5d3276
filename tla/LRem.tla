--------------------------------- MODULE LRem ----------------------------------
(***************************************************************************)
(* The loops of RedisDatabase::lrem, one turn a step.  The vector shrinks  *)
(* under the iterator that walks it, forwards for a positive count and     *)
(* backwards for a negative one.  The count is an int: it is negated, and  *)
(* for the least int the negation overflows.                               *)
(***************************************************************************)
EXTENDS ListRemoval

CONSTANTS
    Value,
    MaxLen,     \* bound: longest list explored
    IntMax      \* the greatest int

ASSUME LRemAssumption ==
    /\ MaxLen \in Nat
    /\ IntMax \in Nat \ {0}

IntMin == -IntMax - 1

VARIABLES
    arg,        \* history: the list, the count and the value of the call
    lst,
    it,         \* the position the iterator is at; 0 is rend()
    removed,
    limit,      \* what removed is compared with
    pc

lremVars == <<arg, lst, it, removed, limit, pc>>

\* -count.  On overflow the usual build wraps around, and one that rewrites the
\* comparison does not: the standard allows both.
Negations(count) == IF count = IntMin THEN {IntMin, -IntMin} ELSE {-count}

LRemInit ==
    /\ arg \in [list : UNION {[1..n -> Value] : n \in 0..MaxLen},
                count : IntMin..IntMax, value : Value]
    /\ lst = arg.list
    /\ removed = 0
    /\ pc = CASE arg.count = 0 -> "all"
              [] arg.count > 0 -> "forward"
              [] arg.count < 0 -> "backward"
    /\ it = IF arg.count < 0 THEN Len(lst) ELSE 1
    /\ limit \in IF arg.count < 0 THEN Negations(arg.count) ELSE {arg.count}

\* lst.erase at position i: what follows moves down by one.
EraseAt(l, i) == SubSeq(l, 1, i - 1) \o SubSeq(l, i + 1, Len(l))

\* std::remove, which keeps the order of the others, and the erase of what it
\* leaves behind them.
RemoveAll ==
    /\ pc = "all"
    /\ lst' = AtPositions(lst, {i \in DOMAIN lst : lst[i] # arg.value})
    /\ removed' = Len(lst) - Len(lst')
    /\ pc' = "done"
    /\ UNCHANGED <<arg, it, limit>>

\* The test of either loop.
Continues ==
    /\ it \in 1..Len(lst)
    /\ removed < limit

\* Mutant of Turn: the iterator always moves on, past the element that has
\* just taken the place of the erased one.
TurnPastErased(next) ==
    /\ Continues
    /\ IF lst[it] = arg.value
       THEN lst' = EraseAt(lst, it) /\ removed' = removed + 1
       ELSE UNCHANGED <<lst, removed>>
    /\ it' = it + next
    /\ UNCHANGED <<arg, limit, pc>>

\* Mutant of Turn: the iterator moves only by erasing.
TurnStuck(next) ==
    /\ Continues
    /\ IF lst[it] = arg.value
       THEN /\ lst' = EraseAt(lst, it)
            /\ removed' = removed + 1
            /\ it' = IF next > 0 THEN it ELSE it - 1
       ELSE UNCHANGED <<lst, it, removed>>
    /\ UNCHANGED <<arg, limit, pc>>

\* One turn.  After an erase the iterator stays where it is when it walks
\* forwards; a reverse iterator is made anew from the position of the erased
\* element, and stands on the one before it.
Turn(next) ==
    /\ Continues
    /\ IF lst[it] = arg.value
       THEN /\ lst' = EraseAt(lst, it)
            /\ removed' = removed + 1
            /\ it' = IF next > 0 THEN it ELSE it - 1
       ELSE it' = it + next /\ UNCHANGED <<lst, removed>>
    /\ UNCHANGED <<arg, limit, pc>>

Leave ==
    /\ ~Continues
    /\ pc' = "done"
    /\ UNCHANGED <<arg, lst, it, removed, limit>>

Forward == pc = "forward" /\ (Turn(1) \/ Leave)

Backward == pc = "backward" /\ (Turn(-1) \/ Leave)

Return == pc = "done" /\ UNCHANGED lremVars

LRemNext == RemoveAll \/ Forward \/ Backward \/ Return

LRemSpec == LRemInit /\ [][LRemNext]_lremVars /\ WF_lremVars(LRemNext)

-------------------------------------------------------------------------------
(* Properties.                                                               *)

\* The call returned what the definition says.
AsDefined ==
    LET gone == RemovedPositions(arg.list, arg.count, arg.value)
    IN  /\ lst = AtPositions(arg.list, DOMAIN arg.list \ gone)
        /\ removed = Cardinality(gone)

(***************************************************************************)
(* The loops erase the elements that lrem is to erase and return their     *)
(* number, although each erase moves what the iterator has still to visit: *)
(* of equal neighbours none is skipped and none is taken twice, from       *)
(* either end and for every count.  Only with the least int, whose         *)
(* negation overflows, the call may leave the list as it is instead.       *)
(***************************************************************************)
LRemExact ==
    pc = "done" =>
        \/ AsDefined
        \/ arg.count = IntMin /\ lst = arg.list /\ removed = 0

(***************************************************************************)
(* Every turn of either loop, whether it erases or not, leaves one element *)
(* of the caller's list fewer to visit: a loop takes no more turns than    *)
(* the list had elements.                                                  *)
(***************************************************************************)
ToVisit == IF pc = "forward" THEN Len(lst) - it + 1 ELSE it

TurnsVisitOne ==
    [][pc' = pc /\ pc # "done" => /\ ToVisit \in 1..Len(arg.list)
                                 /\ ToVisit' = ToVisit - 1]_lremVars

(***************************************************************************)
(* The loops end, under the mutex that every other client waits for.       *)
(***************************************************************************)
LRemReturns == <>(pc = "done")
===============================================================================
