----------------------------- MODULE LRem_proofs -----------------------------
(***************************************************************************)
(* Proof that the loops of lrem erase what ListRemoval says they do, for   *)
(* lists of any length, any count and int of any width: LRemExact.         *)
(***************************************************************************)
EXTENDS LRem, FiniteSetTheorems, SequenceTheorems, TLAPS

\* The place that the element at position p has among those at the positions S.
Rank(S, p) == Cardinality({q \in S : q < p}) + 1

\* Sequence s has the elements of l at the positions S, each at its rank.
Ranked(s, l, S) ==
    /\ Len(s) = Cardinality(S)
    /\ \A p \in S : s[Rank(S, p)] = l[p]

-------------------------------------------------------------------------------
(* Ranks.                                                                    *)

\* Positions are finitely many.
LEMMA PositionsFinite ==
    ASSUME NEW n \in Nat, NEW S, S \subseteq 1..n
    PROVE  /\ IsFiniteSet(S) /\ Cardinality(S) \in Nat
           /\ \A T : T \subseteq S =>
                 /\ IsFiniteSet(T) /\ Cardinality(T) \in Nat
                 /\ Cardinality(T) <= Cardinality(S)
                 /\ T # S => Cardinality(T) < Cardinality(S)
<1>1. IsFiniteSet(S)
  <2>1. IsFiniteSet(1..n)
    BY FS_Interval
  <2> QED
    BY <2>1, FS_Subset
<1>2. Cardinality(S) \in Nat
  BY <1>1, FS_CardinalityType
<1>3. ASSUME NEW T, T \subseteq S
      PROVE  /\ IsFiniteSet(T) /\ Cardinality(T) \in Nat
             /\ Cardinality(T) <= Cardinality(S)
             /\ T # S => Cardinality(T) < Cardinality(S)
  <2>1. /\ IsFiniteSet(T) /\ Cardinality(T) <= Cardinality(S)
        /\ T # S => Cardinality(T) # Cardinality(S)
    BY <1>1, <1>3, FS_Subset
  <2>2. Cardinality(T) \in Nat
    BY <2>1, FS_CardinalityType
  <2> QED
    BY <1>2, <2>1, <2>2
<1> QED
  BY <1>1, <1>2, <1>3

\* Ranks count from 1 to the number of the positions, and grow with them.
LEMMA RankGrows ==
    ASSUME NEW n \in Nat, NEW S, S \subseteq 1..n
    PROVE  /\ \A p \in S : Rank(S, p) \in 1..Cardinality(S)
           /\ \A p, q \in S : p < q => Rank(S, p) < Rank(S, q)
<1> DEFINE Before(p) == {q \in S : q < p}
<1>1. \A p \in S : p \in Int
  OBVIOUS
<1>2. Cardinality(S) \in Nat /\ \A p : Cardinality(Before(p)) \in Nat
  BY PositionsFinite
<1>3. \A p \in S : Cardinality(Before(p)) < Cardinality(S)
  <2>1. \A p \in S : Before(p) \subseteq S /\ Before(p) # S
    BY <1>1
  <2> HIDE DEF Before
  <2> QED
    BY <2>1, PositionsFinite
<1>4. ASSUME NEW p \in S, NEW q \in S, p < q
      PROVE  Cardinality(Before(p)) < Cardinality(Before(q))
  <2>1. \A x \in S : x < p => x < q
    BY <1>1, <1>4
  <2>2. p \in Before(q) /\ p \notin Before(p)
    BY <1>1, <1>4
  <2>3. Before(p) \subseteq Before(q) /\ Before(p) # Before(q) /\ Before(q) \subseteq 1..n
    BY <2>1, <2>2
  <2> HIDE DEF Before
  <2> QED
    BY <2>3, PositionsFinite
<1>5. \A p : Rank(S, p) = Cardinality(Before(p)) + 1
  BY DEF Rank
<1> HIDE DEF Before
<1> QED
  BY <1>2, <1>3, <1>4, <1>5

\* Every number up to that of the positions is the rank of one of them: ranks
\* are as many as positions.
LEMMA RankOnto ==
    ASSUME NEW n \in Nat, NEW S, S \subseteq 1..n, NEW i \in 1..Cardinality(S)
    PROVE  \E p \in S : Rank(S, p) = i
<1> DEFINE N == 1..Cardinality(S)
           f == [p \in S |-> Rank(S, p)]
<1>1. \A p \in S : p \in Int
  OBVIOUS
<1>2. /\ \A p \in S : Rank(S, p) \in N
      /\ \A p, q \in S : p < q => Rank(S, p) < Rank(S, q)
  BY RankGrows
<1>3. IsFiniteSet(S) /\ Cardinality(S) \in Nat
  BY PositionsFinite
<1>4. IsFiniteSet(N) /\ Cardinality(N) = Cardinality(S)
  BY <1>3, FS_Interval
<1>5. \A p, q \in S : Rank(S, p) = Rank(S, q) => p = q
  BY <1>1, <1>2
<1>6. f \in Injection(S, N)
  BY <1>2, <1>5 DEF Injection, IsInjective
<1> HIDE DEF f
<1>7. f \in Surjection(S, N)
  BY <1>4, <1>6, FS_Injection
<1>8. \E p \in S : f[p] = i
  BY <1>7 DEF Surjection
<1> QED
  BY <1>8 DEF f

\* AtPositions puts each element at its rank.
LEMMA AtRank ==
    ASSUME NEW V, NEW l \in Seq(V), NEW S, S \subseteq 1..Len(l)
    PROVE  AtPositions(l, S) \in Seq(V) /\ Ranked(AtPositions(l, S), l, S)
<1> DEFINE s == AtPositions(l, S)
<1>1. Len(l) \in Nat /\ \A p \in S : p \in Int /\ l[p] \in V
  OBVIOUS
<1>2. Cardinality(S) \in Nat
  BY <1>1, PositionsFinite
<1>3. ASSUME NEW i \in 1..Cardinality(S)
      PROVE  NthOf(S, i) \in S /\ Rank(S, NthOf(S, i)) = i
  <2>1. \E p \in S : Rank(S, p) = i
    BY <1>1, RankOnto
  <2>2. \A p \in S : Cardinality({q \in S : q < p}) \in Nat
    BY <1>1, PositionsFinite
  <2>3. \A p \in S : Cardinality({q \in S : q < p}) = i - 1 <=> Rank(S, p) = i
    BY <2>2 DEF Rank
  <2> QED
    BY <2>1, <2>3 DEF NthOf
<1>4. \A i \in 1..Cardinality(S) : s[i] = l[NthOf(S, i)]
  BY DEF AtPositions
<1>5. s = [i \in 1..Cardinality(S) |-> l[NthOf(S, i)]]
  BY DEF AtPositions
<1>6. s \in Seq(V) /\ Len(s) = Cardinality(S)
  <2> DEFINE c == Cardinality(S)
             g == [i \in 1..c |-> l[NthOf(S, i)]]
  <2>1. \A i \in 1..c : l[NthOf(S, i)] \in V
    BY <1>1, <1>3
  <2>2. g \in [1..c -> V]
    BY <2>1
  <2>3. s = g
    BY <1>5
  <2> HIDE DEF s, g, c
  <2>4. c \in Nat
    BY <1>2 DEF c
  <2> QED
    BY <2>2, <2>3, <2>4 DEF c
<1> HIDE DEF s
<1>7. ASSUME NEW p \in S PROVE s[Rank(S, p)] = l[p]
  <2> DEFINE q == NthOf(S, Rank(S, p))
  <2>1. Rank(S, p) \in 1..Cardinality(S)
    BY <1>1, RankGrows
  <2>2. q \in S /\ Rank(S, q) = Rank(S, p)
    BY <1>3, <2>1
  <2> HIDE DEF q
  <2>3. \A x, y \in S : x < y => Rank(S, x) < Rank(S, y)
    BY <1>1, RankGrows
  <2>4. p = q
    BY <1>1, <2>1, <2>2, <2>3
  <2> QED
    BY <1>4, <2>1, <2>4 DEF q
<1> QED
  BY <1>6, <1>7 DEF s, Ranked

\* And no other sequence has them there.
LEMMA ByRanks ==
    ASSUME NEW V, NEW l \in Seq(V), NEW S, S \subseteq 1..Len(l),
           NEW s \in Seq(V), Ranked(s, l, S)
    PROVE  s = AtPositions(l, S)
<1> DEFINE m == AtPositions(l, S)
<1>1. m \in Seq(V) /\ Ranked(m, l, S)
  BY AtRank
<1> HIDE DEF m
<1>2. \A i \in 1..Cardinality(S) : \E p \in S : Rank(S, p) = i
  <2>1. Len(l) \in Nat
    OBVIOUS
  <2> QED
    BY <2>1, RankOnto
<1>3. \A i \in 1..Len(s) : s[i] = m[i]
  BY <1>1, <1>2 DEF Ranked
<1>4. s = m
  BY <1>1, <1>3, SeqEqual DEF Ranked
<1> QED
  BY <1>4 DEF m

\* The whole list.
LEMMA AllPositions ==
    ASSUME NEW V, NEW l \in Seq(V)
    PROVE  l = AtPositions(l, 1..Len(l))
<1> DEFINE n == Len(l)
           S == 1..n
<1>1. n \in Nat /\ \A p \in S : p \in Int
  OBVIOUS
<1>2. \A p \in S : {q \in S : q < p} = 1..(p - 1)
  BY <1>1
<1>3. Cardinality(S) = n
  <2>1. n > 0 \/ n = 0
    BY <1>1
  <2> HIDE DEF n
  <2> QED
    BY <1>1, <2>1, FS_Interval
<1>4. ASSUME NEW p \in S PROVE Rank(S, p) = p
  <2>1. Cardinality(1..(p - 1)) = p - 1
    BY <1>1, FS_Interval
  <2>2. Rank(S, p) = Cardinality(1..(p - 1)) + 1
    BY <1>2 DEF Rank
  <2> QED
    BY <1>1, <2>1, <2>2
<1>5. S \subseteq 1..Len(l) /\ Ranked(l, l, S)
  BY <1>3, <1>4 DEF Ranked
<1> HIDE DEF S, n
<1>6. l = AtPositions(l, S)
  BY <1>5, ByRanks
<1> QED
  BY <1>6 DEF S, n

\* erase leaves out one element.
LEMMA ErasedElements ==
    ASSUME NEW V, NEW l \in Seq(V), NEW i \in 1..Len(l)
    PROVE  /\ EraseAt(l, i) \in Seq(V)
           /\ Len(EraseAt(l, i)) = Len(l) - 1
           /\ \A k \in 1..(i - 1) : EraseAt(l, i)[k] = l[k]
           /\ \A k \in i..(Len(l) - 1) : EraseAt(l, i)[k] = l[k + 1]
<1> DEFINE a == SubSeq(l, 1, i - 1)
           b == SubSeq(l, i + 1, Len(l))
<1>1. Len(l) \in Nat /\ i \in Int /\ 1 <= i /\ i <= Len(l)
  OBVIOUS
<1>2. /\ a \in Seq(V) /\ Len(a) = i - 1
      /\ \A k \in 1..(i - 1) : a[k] = l[k]
  OBVIOUS
<1>3. /\ b \in Seq(V) /\ Len(b) = Len(l) - i
      /\ \A k \in 1..(Len(l) - i) : b[k] = l[k + i]
  OBVIOUS
<1>4. EraseAt(l, i) = a \o b
  BY DEF EraseAt
<1> HIDE DEF a, b
<1>5. /\ a \o b \in Seq(V) /\ Len(a \o b) = Len(l) - 1
      /\ \A k \in 1..(i - 1) : (a \o b)[k] = a[k]
      /\ \A k \in i..(Len(l) - 1) : (a \o b)[k] = b[k - (i - 1)]
  <2>1. a \o b \in Seq(V) /\ Len(a \o b) = Len(a) + Len(b)
    BY <1>2, <1>3, ConcatProperties
  <2>2. \A k \in 1..(Len(a) + Len(b)) :
           (a \o b)[k] = IF k <= Len(a) THEN a[k] ELSE b[k - Len(a)]
    BY <1>2, <1>3, ConcatProperties
  <2> HIDE DEF a, b
  <2> QED
    BY <1>1, <1>2, <1>3, <2>1, <2>2, SMTT(30)
<1>6. ASSUME NEW k \in i..(Len(l) - 1) PROVE (a \o b)[k] = l[k + 1]
  <2>1. k - (i - 1) \in 1..(Len(l) - i) /\ (k - (i - 1)) + i = k + 1
    BY <1>1
  <2> QED
    BY <1>3, <1>5, <2>1
<1> QED
  BY <1>2, <1>4, <1>5, <1>6

\* To erase what stands at the rank of a position is to drop that position.
LEMMA EraseAtRank ==
    ASSUME NEW V, NEW l \in Seq(V), NEW S, S \subseteq 1..Len(l), NEW p \in S
    PROVE  EraseAt(AtPositions(l, S), Rank(S, p)) = AtPositions(l, S \ {p})
<1> DEFINE s == AtPositions(l, S)
           i == Rank(S, p)
           e == EraseAt(s, i)
           T == S \ {p}
<1>1. Len(l) \in Nat /\ \A q \in S : q \in Int
  OBVIOUS
<1>2. s \in Seq(V) /\ Ranked(s, l, S)
  BY AtRank
<1>3. Len(s) = Cardinality(S) /\ \A q \in S : s[Rank(S, q)] = l[q]
  BY <1>2 DEF Ranked
<1>4. /\ \A q \in S : Rank(S, q) \in 1..Cardinality(S)
      /\ \A q, x \in S : q < x => Rank(S, q) < Rank(S, x)
  BY <1>1, RankGrows
<1>5. Cardinality(S) \in Nat /\ IsFiniteSet(S)
  BY <1>1, PositionsFinite
<1>6. Cardinality(T) = Cardinality(S) - 1
  BY <1>5, FS_RemoveElement
<1>7. ASSUME NEW q \in T PROVE Rank(T, q) = IF q < p THEN Rank(S, q) ELSE Rank(S, q) - 1
  <2> DEFINE B == {x \in S : x < q}
             C == {x \in T : x < q}
  <2>1. IsFiniteSet(B) /\ Cardinality(B) \in Nat
    BY <1>1, PositionsFinite
  <2>2. CASE q < p
    <3>1. B = C
      BY <1>1, <2>2
    <3> QED
      BY <2>2, <3>1 DEF Rank
  <2>3. CASE ~(q < p)
    <3>1. p \in B /\ C = B \ {p}
      BY <1>1, <2>3
    <3> HIDE DEF B, C
    <3>2. Cardinality(C) = Cardinality(B) - 1
      BY <2>1, <3>1, FS_RemoveElement
    <3>3. Rank(T, q) = Cardinality(C) + 1 /\ Rank(S, q) = Cardinality(B) + 1
      BY DEF Rank, B, C
    <3> QED
      BY <2>1, <2>3, <3>2, <3>3
  <2> QED
    BY <2>2, <2>3
<1> HIDE DEF s
<1>8. i \in 1..Len(s)
  BY <1>3, <1>4
<1> HIDE DEF i
<1>9. /\ e \in Seq(V) /\ Len(e) = Len(s) - 1
      /\ \A k \in 1..(i - 1) : e[k] = s[k]
      /\ \A k \in i..(Len(s) - 1) : e[k] = s[k + 1]
  BY <1>2, <1>8, ErasedElements
<1> HIDE DEF e
<1>10. ASSUME NEW q \in T PROVE e[Rank(T, q)] = l[q]
  <2>1. /\ q \in S /\ q # p /\ Rank(S, q) \in 1..Cardinality(S)
        /\ i = Rank(S, p) /\ i \in Int
    BY <1>4 DEF i
  <2>2. CASE q < p
    <3>1. Rank(S, q) < i
      BY <1>4, <2>1, <2>2
    <3>2. Rank(S, q) \in 1..(i - 1)
      BY <1>5, <2>1, <3>1
    <3> QED
      BY <1>3, <1>7, <1>9, <2>1, <2>2, <3>2
  <2>3. CASE ~(q < p)
    <3>1. i < Rank(S, q)
      BY <1>1, <1>4, <2>1, <2>3
    <3>2. Rank(S, q) - 1 \in i..(Len(s) - 1) /\ (Rank(S, q) - 1) + 1 = Rank(S, q)
      BY <1>3, <1>5, <2>1, <3>1
    <3>3. e[Rank(S, q) - 1] = s[Rank(S, q)]
      BY <1>9, <3>2
    <3> QED
      BY <1>3, <1>7, <2>1, <2>3, <3>3
  <2> QED
    BY <2>2, <2>3
<1>11. Ranked(e, l, T) /\ T \subseteq 1..Len(l)
  BY <1>3, <1>6, <1>9, <1>10 DEF Ranked
<1> HIDE DEF T
<1>12. e = AtPositions(l, T)
  BY <1>9, <1>11, ByRanks
<1> QED
  BY <1>12 DEF e, s, i, T

\* Where an element stands when some of those before it have been erased, and
\* when some of those behind it have.
LEMMA RankBetweenGaps ==
    ASSUME NEW n \in Nat, NEW j \in 1..n, NEW G
    PROVE  /\ G \subseteq 1..(j - 1) => Rank((1..n) \ G, j) = j - Cardinality(G)
           /\ G \subseteq (j + 1)..n => Rank((1..n) \ G, j) = j
<1> DEFINE B == {q \in (1..n) \ G : q < j}
           N == 1..(j - 1)
<1>1. IsFiniteSet(N) /\ Cardinality(N) = j - 1
  BY FS_Interval
<1>2. Rank((1..n) \ G, j) = Cardinality(B) + 1
  BY DEF Rank
<1>3. CASE G \subseteq N
  <2>1. B = N \ G
    BY <1>3
  <2> HIDE DEF B, N
  <2>2. Cardinality(B) = Cardinality(N) - Cardinality(N \cap G)
    BY <1>1, <2>1, FS_Difference
  <2>3. N \cap G = G
    BY <1>3
  <2>4. IsFiniteSet(G)
    BY <1>1, <1>3, FS_Subset
  <2>5. Cardinality(G) \in Nat
    BY <2>4, FS_CardinalityType
  <2>6. Rank((1..n) \ G, j) = j - Cardinality(G)
    <3> DEFINE x == Cardinality(B)
               y == Cardinality(G)
    <3>1. x = (j - 1) - y
      BY <1>1, <2>2, <2>3
    <3>2. y \in Nat /\ Rank((1..n) \ G, j) = x + 1
      BY <1>2, <2>5
    <3> HIDE DEF x, y
    <3>3. x + 1 = j - y
      BY <3>1, <3>2
    <3> QED
      BY <3>2, <3>3 DEF y
  <2>7. G \subseteq (j + 1)..n => G = {}
    BY <1>3 DEF N
  <2>8. G = {} => Cardinality(G) = 0
    BY FS_EmptySet
  <2> QED
    BY <2>6, <2>7, <2>8
<1>4. CASE G \subseteq (j + 1)..n
  <2>1. B = N
    BY <1>4
  <2> HIDE DEF B
  <2>2. Rank((1..n) \ G, j) = j
    BY <1>1, <1>2, <2>1
  <2>3. G \subseteq N => G = {}
    BY <1>4
  <2>4. G = {} => Cardinality(G) = 0
    BY FS_EmptySet
  <2> QED
    BY <2>2, <2>3, <2>4
<1> QED
  BY <1>3, <1>4 DEF N

-------------------------------------------------------------------------------
(* The loops.                                                                *)

Size == Len(arg.list)

\* The positions of the value, those before j of them, and those after j.
Occurrences == {p \in 1..Size : arg.list[p] = arg.value}
Before(j) == {p \in Occurrences : p < j}
After(j) == {p \in Occurrences : p > j}

\* The list of the call without what stood at the positions G.
Without(G) == AtPositions(arg.list, (1..Size) \ G)

(***************************************************************************)
(* Walking forwards, the loop is at position it + removed of the list of   *)
(* the call, and has erased the occurrences before that.                   *)
(***************************************************************************)
Forwards ==
    /\ arg.count > 0 /\ limit = arg.count
    /\ it \in Int /\ it + removed \in 1..(Size + 1)
    /\ removed = Cardinality(Before(it + removed)) /\ removed <= limit
    /\ lst = Without(Before(it + removed))

(***************************************************************************)
(* Walking backwards, what has moved is behind the iterator, so that it is *)
(* itself the position in the list of the call.  With the least int for a  *)
(* count and a limit that has not been negated, nothing happens.           *)
(***************************************************************************)
Backwards ==
    /\ arg.count < 0
    /\ it \in 0..Size
    /\ removed = Cardinality(After(it))
    /\ lst = Without(After(it))
    /\ \/ limit = -arg.count /\ removed <= limit
       \/ arg.count = IntMin /\ limit = IntMin /\ lst = arg.list /\ removed = 0

\* The inductive invariant.
IInv ==
    /\ arg.list \in Seq(Value) /\ arg.count \in Int
    /\ pc \in {"all", "forward", "backward", "done"}
    /\ pc = "all" => arg.count = 0 /\ lst = arg.list
    /\ pc = "forward" => Forwards
    /\ pc = "backward" => Backwards
    /\ LRemExact


\* How long the list is then.
LEMMA WithoutLength ==
    ASSUME arg.list \in Seq(Value), NEW G, G \subseteq 1..Size
    PROVE  /\ Cardinality(G) \in Nat
           /\ Len(Without(G)) = Size - Cardinality(G)
<1> DEFINE N == 1..Size
<1>1. Size \in Nat
  BY DEF Size
<1>2. IsFiniteSet(N) /\ Cardinality(N) = Size
  BY <1>1, FS_Interval
<1>3. Cardinality(N \ G) = Cardinality(N) - Cardinality(N \cap G)
  BY <1>2, FS_Difference
<1>4. N \cap G = G
  OBVIOUS
<1>5. Cardinality(G) \in Nat
  BY <1>1, PositionsFinite
<1>6. N \ G \subseteq 1..Len(arg.list)
  BY DEF Size
<1> HIDE DEF N
<1>7. Ranked(AtPositions(arg.list, N \ G), arg.list, N \ G)
  BY <1>6, AtRank
<1>8. Len(AtPositions(arg.list, N \ G)) = Cardinality(N \ G)
  BY <1>7 DEF Ranked
<1>9. Without(G) = AtPositions(arg.list, N \ G)
  BY DEF Without, N
<1> QED
  BY <1>2, <1>3, <1>4, <1>5, <1>8, <1>9

\* What stands at the rank of a position that is left, and what erasing it does.
LEMMA WithoutAt ==
    ASSUME arg.list \in Seq(Value), NEW G, G \subseteq 1..Size,
           NEW j \in (1..Size) \ G, NEW i, i = Rank((1..Size) \ G, j)
    PROVE  /\ Without(G)[i] = arg.list[j]
           /\ EraseAt(Without(G), i) = Without(G \cup {j})
<1> DEFINE S == (1..Size) \ G
<1>1. S \subseteq 1..Len(arg.list) /\ j \in S
  BY DEF Size
<1>2. S \ {j} = (1..Size) \ (G \cup {j})
  OBVIOUS
<1>3. Without(G) = AtPositions(arg.list, S) /\ i = Rank(S, j)
  BY DEF Without
<1>4. Without(G \cup {j}) = AtPositions(arg.list, S \ {j})
  BY <1>2 DEF Without
<1> HIDE DEF S
<1>5. Ranked(AtPositions(arg.list, S), arg.list, S)
  BY <1>1, AtRank
<1>6. AtPositions(arg.list, S)[Rank(S, j)] = arg.list[j]
  BY <1>1, <1>5 DEF Ranked
<1>7. EraseAt(AtPositions(arg.list, S), Rank(S, j)) = AtPositions(arg.list, S \ {j})
  BY <1>1, EraseAtRank
<1> QED
  BY <1>3, <1>4, <1>6, <1>7

\* Before any turn nothing has been erased.
LEMMA WithoutNone ==
    ASSUME arg.list \in Seq(Value), NEW G, G = {}
    PROVE  Without(G) = arg.list
<1>1. (1..Size) \ G = 1..Len(arg.list)
  BY DEF Size
<1>2. arg.list = AtPositions(arg.list, 1..Len(arg.list))
  BY AllPositions
<1> QED
  BY <1>1, <1>2 DEF Without

\* Each occurrence is passed once.
LEMMA Passing ==
    ASSUME arg.list \in Seq(Value), NEW j \in 1..Size
    PROVE  /\ Before(j) \subseteq 1..(j - 1) /\ After(j) \subseteq (j + 1)..Size
           /\ Before(j) \subseteq 1..Size /\ After(j) \subseteq 1..Size
           /\ j \notin Before(j) /\ j \notin After(j)
           /\ arg.list[j] = arg.value =>
                 /\ Before(j + 1) = Before(j) \cup {j}
                 /\ After(j - 1) = After(j) \cup {j}
           /\ arg.list[j] # arg.value =>
                 Before(j + 1) = Before(j) /\ After(j - 1) = After(j)
<1>1. Size \in Nat /\ j \in Int
  BY DEF Size
<1>2. \A p \in Occurrences : p \in 1..Size /\ p \in Int
  BY <1>1 DEF Occurrences
<1>3. j \in Occurrences <=> arg.list[j] = arg.value
  BY DEF Occurrences
<1>4. /\ \A p \in Occurrences : p < j + 1 <=> p < j \/ p = j
      /\ \A p \in Occurrences : p > j - 1 <=> p > j \/ p = j
  BY <1>1, <1>2
<1>5. /\ arg.list[j] = arg.value =>
            Before(j + 1) = Before(j) \cup {j} /\ After(j - 1) = After(j) \cup {j}
      /\ arg.list[j] # arg.value =>
            Before(j + 1) = Before(j) /\ After(j - 1) = After(j)
  BY <1>3, <1>4 DEF Before, After
<1> QED
  BY <1>1, <1>2, <1>5 DEF Before, After

\* One turn forwards.
LEMMA ForwardTurns ==
    ASSUME arg.list \in Seq(Value), arg.count \in Int, Forwards, Turn(1)
    PROVE  Forwards'
<1> DEFINE j == it + removed
           G == Before(j)
           N == 1..Size
<1>1. Size \in Nat /\ it \in Int /\ j \in 1..(Size + 1) /\ limit = arg.count
  BY DEF Forwards, Size
<1>2. G \subseteq 1..Size
  BY DEF Before, Occurrences
<1>3. /\ removed = Cardinality(G) /\ removed \in Nat
      /\ lst = Without(G) /\ Len(lst) = Size - removed
  BY <1>2, WithoutLength DEF Forwards
<1>4. it \in 1..Len(lst) /\ removed < limit
  BY DEF Turn, Continues
<1>5. j \in 1..Size
  BY <1>1, <1>3, <1>4
<1>6. G \subseteq 1..(j - 1) /\ j \notin G /\ j \in N
  BY <1>5, Passing
<1>7. it = Rank(N \ G, j)
  <2>1. Rank(N \ G, j) = j - Cardinality(G)
    BY <1>1, <1>5, <1>6, RankBetweenGaps
  <2> QED
    BY <1>1, <1>3, <2>1
<1>8. arg' = arg /\ limit' = limit
  BY DEF Turn
<1>9. j + 1 \in 1..(Size + 1)
  BY <1>1, <1>5
<1> HIDE DEF G, N
<1>10. lst[it] = arg.list[j] /\ EraseAt(lst, it) = Without(G \cup {j})
  <2>1. j \in (1..Size) \ G /\ it = Rank((1..Size) \ G, j)
    BY <1>6, <1>7 DEF N
  <2> HIDE DEF j
  <2>2. Without(G)[it] = arg.list[j] /\ EraseAt(Without(G), it) = Without(G \cup {j})
    BY <1>2, <2>1, WithoutAt
  <2> QED
    BY <1>3, <2>2
<1>11. CASE arg.list[j] = arg.value
  <2>1. lst' = Without(G \cup {j}) /\ removed' = removed + 1 /\ it' = it
    BY <1>10, <1>11 DEF Turn
  <2>2. Before(j + 1) = G \cup {j}
    BY <1>5, <1>11, Passing DEF G
  <2>3. Cardinality(G \cup {j}) = removed + 1
    <3>1. IsFiniteSet(G)
      BY <1>1, <1>2, PositionsFinite
    <3> QED
      BY <1>3, <1>6, <3>1, FS_AddElement
  <2>4. it' + removed' = j + 1
    BY <1>1, <1>3, <2>1
  <2>5. removed' <= limit
    BY <1>1, <1>3, <1>4, <2>1
  <2> HIDE DEF j
  <2>6. /\ removed' = Cardinality(Before(j + 1)) /\ lst' = Without(Before(j + 1))
    BY <2>1, <2>2, <2>3
  <2> QED
    BY <1>1, <1>8, <1>9, <2>1, <2>4, <2>5, <2>6
       DEF Forwards, Before, Occurrences, Without, Size
<1>12. CASE arg.list[j] # arg.value
  <2>1. lst' = lst /\ removed' = removed /\ it' = it + 1
    BY <1>10, <1>12 DEF Turn
  <2>2. Before(j + 1) = G
    BY <1>5, <1>12, Passing DEF G
  <2>3. it' + removed' = j + 1 /\ it' \in Int
    BY <1>1, <1>3, <2>1
  <2>4. removed' <= limit
    BY <1>1, <1>3, <1>4, <2>1
  <2> HIDE DEF j
  <2>5. /\ removed' = Cardinality(Before(j + 1)) /\ lst' = Without(Before(j + 1))
    BY <1>3, <2>1, <2>2
  <2> QED
    BY <1>1, <1>8, <1>9, <2>3, <2>4, <2>5
       DEF Forwards, Before, Occurrences, Without, Size
<1> QED
  BY <1>11, <1>12


\* One turn backwards.
LEMMA BackwardTurns ==
    ASSUME arg.list \in Seq(Value), arg.count \in Int, LRemAssumption,
           Backwards, Turn(-1)
    PROVE  Backwards'
<1> DEFINE G == After(it)
           N == 1..Size
<1>1. Size \in Nat /\ it \in 0..Size
  BY DEF Backwards, Size
<1>2. G \subseteq 1..Size
  BY DEF After, Occurrences
<1>3. /\ removed = Cardinality(G) /\ removed \in Nat
      /\ lst = Without(G) /\ Len(lst) = Size - removed
  BY <1>2, WithoutLength DEF Backwards
<1>4. it \in 1..Len(lst) /\ removed < limit
  BY DEF Turn, Continues
<1>5. it \in 1..Size /\ it - 1 \in 0..Size
  BY <1>1, <1>4
<1>6. G \subseteq (it + 1)..Size /\ it \notin G /\ it \in N
  BY <1>5, Passing
<1>7. it = Rank(N \ G, it)
  BY <1>1, <1>5, <1>6, RankBetweenGaps
<1>8. arg' = arg /\ limit' = limit
  BY DEF Turn
<1>9. arg.count < 0 /\ limit = -arg.count
  <2>1. IntMin < 0 /\ IntMin \in Int
    BY DEF IntMin, LRemAssumption
  <2> QED
    BY <1>3, <1>4, <2>1 DEF Backwards
<1> HIDE DEF G, N
<1>10. lst[it] = arg.list[it] /\ EraseAt(lst, it) = Without(G \cup {it})
  <2>1. it \in (1..Size) \ G /\ it = Rank((1..Size) \ G, it)
    BY <1>6, <1>7 DEF N
  <2>2. Without(G)[it] = arg.list[it] /\ EraseAt(Without(G), it) = Without(G \cup {it})
    BY <1>2, <2>1, WithoutAt
  <2> QED
    BY <1>3, <2>2
<1>11. CASE arg.list[it] = arg.value
  <2>1. lst' = Without(G \cup {it}) /\ removed' = removed + 1 /\ it' = it - 1
    BY <1>10, <1>11 DEF Turn
  <2>2. After(it - 1) = G \cup {it}
    BY <1>5, <1>11, Passing DEF G
  <2>3. Cardinality(G \cup {it}) = removed + 1
    <3>1. IsFiniteSet(G)
      BY <1>1, <1>2, PositionsFinite
    <3> QED
      BY <1>3, <1>6, <3>1, FS_AddElement
  <2>4. removed' <= limit
    BY <1>3, <1>4, <1>9, <2>1
  <2>5. removed' = Cardinality(After(it - 1)) /\ lst' = Without(After(it - 1))
    BY <2>1, <2>2, <2>3
  <2> QED
    BY <1>5, <1>8, <1>9, <2>1, <2>4, <2>5
       DEF Backwards, After, Occurrences, Without, Size
<1>12. CASE arg.list[it] # arg.value
  <2>1. lst' = lst /\ removed' = removed /\ it' = it - 1
    BY <1>5, <1>10, <1>12 DEF Turn
  <2>2. After(it - 1) = G
    BY <1>5, <1>12, Passing DEF G
  <2>3. removed' <= limit
    BY <1>3, <1>4, <1>9, <2>1
  <2>4. removed' = Cardinality(After(it - 1)) /\ lst' = Without(After(it - 1))
    BY <1>3, <2>1, <2>2
  <2> QED
    BY <1>5, <1>8, <1>9, <2>1, <2>3, <2>4
       DEF Backwards, After, Occurrences, Without, Size
<1> QED
  BY <1>11, <1>12

\* The first count occurrences, once they are passed or no more follow.
LEMMA FirstRemoved ==
    ASSUME arg.list \in Seq(Value), arg.count \in Int, arg.count > 0,
           NEW j \in 1..(Size + 1), Cardinality(Before(j)) <= arg.count,
           j = Size + 1 \/ Cardinality(Before(j)) = arg.count
    PROVE  RemovedPositions(arg.list, arg.count, arg.value) = Before(j)
<1> DEFINE E(i) == {q \in Occurrences : q < i}
<1>1. Size \in Nat /\ j \in Int
  BY DEF Size
<1>2. \A p \in Occurrences : p \in 1..Size /\ p \in Int
  BY <1>1 DEF Occurrences
<1>3. RemovedPositions(arg.list, arg.count, arg.value) =
         {p \in Occurrences : Cardinality(E(p)) < arg.count}
  <2> DEFINE C(p) ==
                CASE arg.count = 0 -> TRUE
                  [] arg.count > 0 -> Cardinality({q \in Occurrences : q < p}) < arg.count
                  [] arg.count < 0 -> Cardinality({q \in Occurrences : q > p}) < -arg.count
  <2>1. RemovedPositions(arg.list, arg.count, arg.value) = {p \in Occurrences : C(p)}
    BY DEF RemovedPositions, Occurrences, Size
  <2>2. arg.count # 0 /\ ~(arg.count < 0)
    OBVIOUS
  <2>3. \A p : C(p) <=> Cardinality(E(p)) < arg.count
    BY <2>2, Zenon
  <2> HIDE DEF C, E
  <2> QED
    BY <2>1, <2>3
<1>4. Before(j) \subseteq 1..Size /\ Cardinality(Before(j)) \in Nat
  <2>1. Before(j) \subseteq 1..Size
    BY <1>2 DEF Before
  <2> QED
    BY <1>1, <2>1, PositionsFinite
<1>5. ASSUME NEW p \in Occurrences, p < j PROVE Cardinality(E(p)) < arg.count
  <2>1. E(p) \subseteq Before(j) /\ E(p) # Before(j)
    BY <1>1, <1>2, <1>5 DEF Before
  <2> HIDE DEF E
  <2>2. Cardinality(E(p)) \in Nat /\ Cardinality(E(p)) < Cardinality(Before(j))
    BY <1>1, <1>4, <2>1, PositionsFinite
  <2> QED
    BY <1>4, <2>2
<1>6. ASSUME NEW p \in Occurrences, ~(p < j) PROVE ~(Cardinality(E(p)) < arg.count)
  <2>1. Cardinality(Before(j)) = arg.count
    BY <1>1, <1>2, <1>6
  <2>2. Before(j) \subseteq E(p) /\ E(p) \subseteq 1..Size
    BY <1>1, <1>2, <1>6 DEF Before
  <2> HIDE DEF E
  <2>3. Cardinality(E(p)) \in Nat /\ Cardinality(Before(j)) <= Cardinality(E(p))
    BY <1>1, <2>2, PositionsFinite
  <2> QED
    BY <2>1, <2>3
<1> HIDE DEF E
<1> QED
  BY <1>3, <1>5, <1>6 DEF Before

\* The last -count occurrences likewise.
LEMMA LastRemoved ==
    ASSUME arg.list \in Seq(Value), arg.count \in Int, arg.count < 0,
           NEW j \in 0..Size, Cardinality(After(j)) <= -arg.count,
           j = 0 \/ Cardinality(After(j)) = -arg.count
    PROVE  RemovedPositions(arg.list, arg.count, arg.value) = After(j)
<1> DEFINE E(i) == {q \in Occurrences : q > i}
<1>1. Size \in Nat /\ j \in Int
  BY DEF Size
<1>2. \A p \in Occurrences : p \in 1..Size /\ p \in Int
  BY <1>1 DEF Occurrences
<1>3. RemovedPositions(arg.list, arg.count, arg.value) =
         {p \in Occurrences : Cardinality(E(p)) < -arg.count}
  <2> DEFINE C(p) ==
                CASE arg.count = 0 -> TRUE
                  [] arg.count > 0 -> Cardinality({q \in Occurrences : q < p}) < arg.count
                  [] arg.count < 0 -> Cardinality({q \in Occurrences : q > p}) < -arg.count
  <2>1. RemovedPositions(arg.list, arg.count, arg.value) = {p \in Occurrences : C(p)}
    BY DEF RemovedPositions, Occurrences, Size
  <2>2. arg.count # 0 /\ ~(arg.count > 0)
    OBVIOUS
  <2>3. \A p : C(p) <=> Cardinality(E(p)) < -arg.count
    BY <2>2, Zenon
  <2> HIDE DEF C, E
  <2> QED
    BY <2>1, <2>3
<1>4. After(j) \subseteq 1..Size /\ Cardinality(After(j)) \in Nat
  <2>1. After(j) \subseteq 1..Size
    BY <1>2 DEF After
  <2> QED
    BY <1>1, <2>1, PositionsFinite
<1>5. ASSUME NEW p \in Occurrences, p > j PROVE Cardinality(E(p)) < -arg.count
  <2>1. E(p) \subseteq After(j) /\ E(p) # After(j)
    BY <1>1, <1>2, <1>5 DEF After
  <2> HIDE DEF E
  <2>2. Cardinality(E(p)) \in Nat /\ Cardinality(E(p)) < Cardinality(After(j))
    BY <1>1, <1>4, <2>1, PositionsFinite
  <2> QED
    BY <1>4, <2>2
<1>6. ASSUME NEW p \in Occurrences, ~(p > j) PROVE ~(Cardinality(E(p)) < -arg.count)
  <2>1. Cardinality(After(j)) = -arg.count
    BY <1>1, <1>2, <1>6
  <2>2. After(j) \subseteq E(p) /\ E(p) \subseteq 1..Size
    BY <1>1, <1>2, <1>6 DEF After
  <2> HIDE DEF E
  <2>3. Cardinality(E(p)) \in Nat /\ Cardinality(After(j)) <= Cardinality(E(p))
    BY <1>1, <2>2, PositionsFinite
  <2> QED
    BY <2>1, <2>3
<1> HIDE DEF E
<1> QED
  BY <1>3, <1>5, <1>6 DEF After


\* What is to be shown of the list and the number returned.
LEMMA DefinedResult ==
    ASSUME arg.list \in Seq(Value), NEW G,
           RemovedPositions(arg.list, arg.count, arg.value) = G,
           lst = Without(G), removed = Cardinality(G)
    PROVE  AsDefined
<1>1. DOMAIN arg.list = 1..Size
  BY DEF Size
<1>2. lst = AtPositions(arg.list, DOMAIN arg.list \ G)
  BY <1>1 DEF Without
<1> QED
  BY <1>2 DEF AsDefined

\* The loop that walks forwards ends with the first occurrences removed.
LEMMA ForwardLeaves ==
    ASSUME arg.list \in Seq(Value), arg.count \in Int, Forwards, ~Continues
    PROVE  AsDefined
<1> DEFINE j == it + removed
           G == Before(j)
<1>1. /\ Size \in Nat /\ it \in Int /\ j \in 1..(Size + 1)
      /\ arg.count > 0 /\ limit = arg.count /\ removed <= limit
  BY DEF Forwards, Size
<1>2. G \subseteq 1..Size
  BY DEF Before, Occurrences
<1>3. /\ removed = Cardinality(G) /\ removed \in Nat
      /\ lst = Without(G) /\ Len(lst) = Size - removed
  BY <1>2, WithoutLength DEF Forwards
<1>4. it >= 1
  <2>1. G \subseteq 1..(j - 1)
    BY <1>1, <1>2 DEF Before
  <2>2. Cardinality(1..(j - 1)) = j - 1 /\ IsFiniteSet(1..(j - 1))
    <3>1. j - 1 \in Int /\ (1 > j - 1 => j = 1)
      BY <1>1
    <3>2. /\ IsFiniteSet(1..(j - 1))
          /\ Cardinality(1..(j - 1)) = IF 1 > j - 1 THEN 0 ELSE (j - 1) - 1 + 1
      BY <3>1, FS_Interval
    <3> QED
      BY <1>1, <3>1, <3>2
  <2> HIDE DEF G
  <2>3. Cardinality(G) <= Cardinality(1..(j - 1))
    BY <2>1, <2>2, FS_Subset
  <2> QED
    BY <1>1, <1>3, <2>2, <2>3
<1>5. j = Size + 1 \/ removed = arg.count
  BY <1>1, <1>3, <1>4 DEF Continues
<1>6. RemovedPositions(arg.list, arg.count, arg.value) = G
  <2>1. Cardinality(Before(j)) <= arg.count
        /\ (j = Size + 1 \/ Cardinality(Before(j)) = arg.count)
    BY <1>1, <1>3, <1>5
  <2> HIDE DEF j
  <2> QED
    BY <1>1, <2>1, FirstRemoved
<1> HIDE DEF G
<1> QED
  BY <1>3, <1>6, DefinedResult

\* The one that walks backwards, with the last.
LEMMA BackwardLeaves ==
    ASSUME arg.list \in Seq(Value), arg.count \in Int, Backwards, ~Continues
    PROVE  \/ AsDefined
           \/ arg.count = IntMin /\ lst = arg.list /\ removed = 0
<1> DEFINE G == After(it)
<1>1. Size \in Nat /\ it \in 0..Size /\ arg.count < 0
  BY DEF Backwards, Size
<1>2. G \subseteq 1..Size
  BY DEF After, Occurrences
<1>3. /\ removed = Cardinality(G) /\ removed \in Nat
      /\ lst = Without(G) /\ Len(lst) = Size - removed
  BY <1>2, WithoutLength DEF Backwards
<1>4. CASE limit = -arg.count /\ removed <= limit
  <2>1. it = 0 \/ removed = -arg.count
    <3>1. SUFFICES ASSUME it # 0, removed # -arg.count PROVE FALSE
      OBVIOUS
    <3>2. it \in 1..Size /\ removed < limit
      BY <1>1, <1>3, <1>4, <3>1
    <3>3. it <= Len(lst)
      <4>1. G \subseteq (it + 1)..Size
        BY <3>2, Passing
      <4>2. Cardinality((it + 1)..Size) = Size - it /\ IsFiniteSet((it + 1)..Size)
        <5>1. it + 1 \in Int /\ Size \in Int /\ (it + 1 > Size => it = Size)
          BY <1>1, <3>2
        <5>2. IsFiniteSet((it + 1)..Size)
              /\ Cardinality((it + 1)..Size) =
                    IF it + 1 > Size THEN 0 ELSE Size - (it + 1) + 1
          BY <5>1, FS_Interval
        <5> QED
          BY <1>1, <5>1, <5>2
      <4> HIDE DEF G
      <4>3. Cardinality(G) <= Cardinality((it + 1)..Size)
        BY <4>1, <4>2, FS_Subset
      <4> QED
        BY <1>1, <1>3, <4>2, <4>3
    <3> QED
      BY <1>3, <3>2, <3>3 DEF Continues
  <2>2. Cardinality(After(it)) <= -arg.count
        /\ (it = 0 \/ Cardinality(After(it)) = -arg.count)
    BY <1>3, <1>4, <2>1
  <2>3. RemovedPositions(arg.list, arg.count, arg.value) = G
    BY <1>1, <2>2, LastRemoved
  <2> HIDE DEF G
  <2> QED
    BY <1>3, <2>3, DefinedResult
<1>5. CASE arg.count = IntMin /\ limit = IntMin /\ lst = arg.list /\ removed = 0
  BY <1>5
<1> QED
  BY <1>4, <1>5 DEF Backwards

\* Count 0 is one step, which removes every occurrence.
LEMMA AllRemoved ==
    ASSUME arg.list \in Seq(Value), arg.count = 0, lst = arg.list, RemoveAll
    PROVE  AsDefined'
<1> DEFINE O == Occurrences
<1>1. O \subseteq 1..Size /\ Size \in Nat
  BY DEF Occurrences, Size
<1>2. RemovedPositions(arg.list, arg.count, arg.value) = O
  BY DEF RemovedPositions, Occurrences, Size
<1>3. {i \in DOMAIN lst : lst[i] # arg.value} = (1..Size) \ O
  BY DEF Occurrences, Size
<1>4. lst' = Without(O)
  BY <1>3 DEF RemoveAll, Without
<1>5. Len(lst') = Size - Cardinality(O) /\ Cardinality(O) \in Nat
  BY <1>1, <1>4, WithoutLength
<1> HIDE DEF O
<1>6. removed' = Len(lst) - Len(lst') /\ Len(lst) = Size /\ arg' = arg
  BY DEF RemoveAll, Size
<1>7. removed' = Cardinality(O)
  BY <1>1, <1>5, <1>6
<1>8. DOMAIN arg.list = 1..Size
  BY DEF Size
<1>9. lst' = AtPositions(arg.list, DOMAIN arg.list \ O)
  BY <1>4, <1>8 DEF Without
<1> QED
  BY <1>2, <1>6, <1>7, <1>9 DEF AsDefined


-------------------------------------------------------------------------------
(* The theorem.                                                              *)

\* The call begins with the whole list, at one of its ends.
LEMMA CallBegins == LRemAssumption /\ LRemInit => IInv
<1> SUFFICES ASSUME LRemAssumption, LRemInit PROVE IInv
  OBVIOUS
<1>1. /\ arg.list \in Seq(Value) /\ arg.count \in Int /\ lst = arg.list /\ removed = 0
      /\ IntMin \in Int /\ IntMin < 0
      /\ arg.count >= IntMin
  BY DEF LRemInit, LRemAssumption, IntMin
<1>2. Size \in Nat /\ Size = Len(arg.list)
  BY <1>1 DEF Size
<1>3. \A p \in Occurrences : p \in 1..Size
  BY DEF Occurrences
<1>4. Before(1) = {} /\ After(Size) = {}
  BY <1>2, <1>3 DEF Before, After
<1>5. Cardinality({}) = 0
  BY FS_EmptySet
<1>6. Without({}) = arg.list
  BY <1>1, WithoutNone
<1>7. CASE arg.count = 0
  <2>1. pc = "all"
    BY <1>7 DEF LRemInit
  <2> QED
    BY <1>1, <1>7, <2>1 DEF IInv, LRemExact
<1>8. CASE arg.count > 0
  <2>1. pc = "forward" /\ it = 1 /\ limit = arg.count
    BY <1>1, <1>8 DEF LRemInit
  <2>2. it + removed = 1 /\ it \in Int /\ 1 \in 1..(Size + 1) /\ removed <= limit
    BY <1>1, <1>2, <1>8, <2>1
  <2>3. Forwards
    BY <1>1, <1>4, <1>5, <1>6, <1>8, <2>1, <2>2 DEF Forwards
  <2> QED
    BY <1>1, <2>1, <2>3 DEF IInv, LRemExact
<1>9. CASE arg.count < 0
  <2>1. pc = "backward" /\ it = Size /\ limit \in Negations(arg.count)
    BY <1>1, <1>2, <1>9 DEF LRemInit
  <2>2. \/ limit = -arg.count
        \/ arg.count = IntMin /\ limit = IntMin
    BY <2>1 DEF Negations
  <2>3. limit = -arg.count => removed <= limit
    BY <1>1, <1>9
  <2>4. /\ it \in 0..Size /\ After(it) = {}
        /\ removed = Cardinality(After(it)) /\ lst = Without(After(it))
    <3>1. After(it) = {} /\ it \in 0..Size
      BY <1>2, <1>4, <2>1
    <3> QED
      BY <1>1, <1>5, <1>6, <3>1
  <2>5. Backwards
    BY <1>1, <1>9, <2>2, <2>3, <2>4 DEF Backwards
  <2> QED
    BY <1>1, <2>1, <2>5 DEF IInv, LRemExact
<1> QED
  BY <1>1, <1>7, <1>8, <1>9

\* Every step of a loop keeps what it has erased in step with where it is.
LEMMA CallStep == LRemAssumption /\ IInv /\ [LRemNext]_lremVars => IInv'
<1> SUFFICES ASSUME LRemAssumption, IInv, [LRemNext]_lremVars PROVE IInv'
  OBVIOUS
<1>1. arg.list \in Seq(Value) /\ arg.count \in Int
  BY DEF IInv
<1>2. CASE RemoveAll
  <2>1. AsDefined'
    BY <1>1, <1>2, AllRemoved DEF RemoveAll, IInv
  <2>2. arg' = arg /\ pc' = "done"
    BY <1>2 DEF RemoveAll
  <2> QED
    BY <1>1, <2>1, <2>2 DEF IInv, LRemExact
<1>3. CASE Forward
  <2>1. Forwards /\ pc = "forward"
    BY <1>3 DEF Forward, IInv
  <2>2. CASE Turn(1)
    <3>1. Forwards'
      BY <1>1, <2>1, <2>2, ForwardTurns
    <3>2. arg' = arg /\ pc' = pc
      BY <2>2 DEF Turn
    <3> QED
      BY <1>1, <2>1, <3>1, <3>2 DEF IInv, LRemExact
  <2>3. CASE Leave
    <3>1. AsDefined
      BY <1>1, <2>1, <2>3, ForwardLeaves DEF Leave
    <3>2. arg' = arg /\ lst' = lst /\ removed' = removed /\ pc' = "done"
      BY <2>3 DEF Leave
    <3> QED
      BY <1>1, <3>1, <3>2 DEF IInv, LRemExact, AsDefined
  <2> QED
    BY <1>3, <2>2, <2>3 DEF Forward
<1>4. CASE Backward
  <2>1. Backwards /\ pc = "backward"
    BY <1>4 DEF Backward, IInv
  <2>2. CASE Turn(-1)
    <3>1. Backwards'
      BY <1>1, <2>1, <2>2, BackwardTurns
    <3>2. arg' = arg /\ pc' = pc
      BY <2>2 DEF Turn
    <3> QED
      BY <1>1, <2>1, <3>1, <3>2 DEF IInv, LRemExact
  <2>3. CASE Leave
    <3>1. \/ AsDefined
          \/ arg.count = IntMin /\ lst = arg.list /\ removed = 0
      <4>1. ~Continues
        BY <2>3 DEF Leave
      <4> QED
        BY <1>1, <2>1, <4>1, BackwardLeaves
    <3>2. arg' = arg /\ lst' = lst /\ removed' = removed /\ pc' = "done"
      BY <2>3 DEF Leave
    <3> QED
      BY <1>1, <3>1, <3>2 DEF IInv, LRemExact, AsDefined
  <2> QED
    BY <1>4, <2>2, <2>3 DEF Backward
<1>5. CASE Return \/ UNCHANGED lremVars
  BY <1>5 DEF Return, lremVars, IInv, LRemExact, AsDefined, Forwards, Backwards,
              Before, After, Occurrences, Without, Size
<1> QED
  BY <1>2, <1>3, <1>4, <1>5 DEF LRemNext

(***************************************************************************)
(* The loops of lrem return the list without the first or the last count   *)
(* occurrences, or without all, and how many those were, for every list,   *)
(* count and value: the erases under the iterator skip none and take none  *)
(* twice.                                                                  *)
(***************************************************************************)
THEOREM LRemErasesExactly == LRemSpec => []LRemExact
<1>1. LRemInit => IInv
  BY CallBegins, LRemAssumption
<1>2. IInv /\ [LRemNext]_lremVars => IInv'
  BY CallStep, LRemAssumption
<1>3. IInv => LRemExact
  BY DEF IInv
<1> QED
  BY <1>1, <1>2, <1>3, PTL DEF LRemSpec

-------------------------------------------------------------------------------
(* The turns.                                                                *)

\* A turn of the loop that walks forwards.
LEMMA ForwardVisits ==
    ASSUME arg.list \in Seq(Value), arg.count \in Int, Forwards, pc = "forward",
           Turn(1)
    PROVE  ToVisit \in 1..Len(arg.list) /\ ToVisit' = ToVisit - 1
<1>1. Forwards' /\ arg' = arg /\ pc' = pc
  BY ForwardTurns DEF Turn
<1>2. Size \in Nat /\ Size = Len(arg.list) /\ Size' = Size
  BY <1>1 DEF Size
<1>3. /\ it \in Int /\ it + removed \in 1..(Size + 1)
      /\ removed \in Nat /\ Len(lst) = Size - removed
  <2>1. Before(it + removed) \subseteq 1..Size
    BY DEF Before, Occurrences
  <2> QED
    BY <2>1, WithoutLength DEF Forwards
<1>4. removed' \in Nat /\ Len(lst') = Size - removed'
  <2>1. /\ Before(it + removed)' \subseteq 1..Size
        /\ removed' = Cardinality(Before(it + removed)')
        /\ lst' = Without(Before(it + removed)')
    BY <1>1, <1>2 DEF Forwards, Before, Occurrences, Without, Size
  <2> QED
    BY <2>1, WithoutLength
<1>5. it \in 1..Len(lst)
  BY DEF Turn, Continues
<1>6. \/ it' = it /\ removed' = removed + 1
      \/ it' = it + 1 /\ removed' = removed
  BY DEF Turn
<1>7. ToVisit = Len(lst) - it + 1 /\ ToVisit' = Len(lst') - it' + 1
  BY <1>1 DEF ToVisit
<1>8. ToVisit = Size - (it + removed) + 1
  BY <1>2, <1>3, <1>7
<1>9. ToVisit' = Size - (it' + removed') + 1 /\ it' + removed' = it + removed + 1
  <2>1. it' \in Int /\ it' + removed' = it + removed + 1
    BY <1>3, <1>4, <1>6
  <2>2. ToVisit' = Size - (it' + removed') + 1
    BY <1>2, <1>4, <1>7, <2>1
  <2> QED
    BY <2>1, <2>2
<1>10. it + removed \in 1..Size
  BY <1>2, <1>3, <1>5
<1>11. ToVisit' = ToVisit - 1
  BY <1>2, <1>3, <1>8, <1>9
<1>12. ToVisit \in 1..Size
  BY <1>2, <1>3, <1>8, <1>10
<1> QED
  BY <1>2, <1>11, <1>12

\* A turn of the loop that walks backwards.
LEMMA BackwardVisits ==
    ASSUME Backwards, pc = "backward", Turn(-1)
    PROVE  ToVisit \in 1..Len(arg.list) /\ ToVisit' = ToVisit - 1
<1>1. it \in 0..Size /\ Size = Len(arg.list)
  BY DEF Backwards, Size
<1>2. Size \in Nat
  BY <1>1
<1>3. it \in 1..Len(lst) /\ it' = it - 1
  BY <1>1 DEF Turn, Continues
<1>4. ToVisit = it /\ ToVisit' = it'
  BY DEF ToVisit, Turn
<1> QED
  BY <1>1, <1>2, <1>3, <1>4

(***************************************************************************)
(* Every turn of the loops of lrem visits one element that no turn before  *)
(* it has visited, though erases move those that are left: the loops end,  *)
(* whatever the list and the count.                                        *)
(***************************************************************************)
THEOREM LRemTurns == LRemSpec => TurnsVisitOne
<1>1. LRemInit => IInv
  BY CallBegins, LRemAssumption
<1>2. IInv /\ [LRemNext]_lremVars => IInv'
  BY CallStep, LRemAssumption
<1>3. IInv /\ [LRemNext]_lremVars =>
         [pc' = pc /\ pc # "done" => /\ ToVisit \in 1..Len(arg.list)
                                    /\ ToVisit' = ToVisit - 1]_lremVars
  <2> SUFFICES ASSUME IInv, LRemNext, pc' = pc, pc # "done"
               PROVE  ToVisit \in 1..Len(arg.list) /\ ToVisit' = ToVisit - 1
    OBVIOUS
  <2>1. CASE Forward
    <3>1. pc = "forward" /\ Turn(1)
      BY <2>1 DEF Forward, Leave
    <3> QED
      BY <3>1, ForwardVisits DEF IInv
  <2>2. CASE Backward
    <3>1. pc = "backward" /\ Turn(-1)
      BY <2>2 DEF Backward, Leave
    <3> QED
      BY <3>1, BackwardVisits DEF IInv
  <2>3. ~RemoveAll /\ ~Return
    BY DEF RemoveAll, Return
  <2> QED
    BY <2>1, <2>2, <2>3 DEF LRemNext
<1> QED
  BY <1>1, <1>2, <1>3, PTL DEF LRemSpec, TurnsVisitOne
===============================================================================
