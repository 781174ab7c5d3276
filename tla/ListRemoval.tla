------------------------------ MODULE ListRemoval ------------------------------
(***************************************************************************)
(* What lrem does to a list, as a function of the list, the count and the  *)
(* value.  RedisDatabase uses it for the whole operation; LRem shows that  *)
(* the loops of the code compute it.                                       *)
(***************************************************************************)
EXTENDS Integers, Sequences, FiniteSets

\* The i-th smallest element of a set S of positions.
NthOf(S, i) == CHOOSE p \in S : Cardinality({q \in S : q < p}) = i - 1

\* The elements of sequence l at the positions in S, in order.
AtPositions(l, S) == [i \in 1..Cardinality(S) |-> l[NthOf(S, i)]]

(***************************************************************************)
(* The positions lrem erases: all occurrences of v for count 0, the first  *)
(* count of them for count > 0, the last -count of them for count < 0.     *)
(***************************************************************************)
RemovedPositions(l, count, v) ==
    LET occ == {i \in 1..Len(l) : l[i] = v}
    IN  {i \in occ :
            CASE count = 0 -> TRUE
              [] count > 0 -> Cardinality({j \in occ : j < i}) < count
              [] count < 0 -> Cardinality({j \in occ : j > i}) < -count}
================================================================================
