--------------------------- MODULE MCRedisDatabase ----------------------------
(* Constants for model checking RedisDatabase.                               *)
EXTENDS RedisDatabaseProperties, TLC

\* log(1 + n) in millionths, for n = 0, 1, ...
MCLog1p ==
    LET table == <<0, 693147, 1098612, 1386294, 1609438, 1791759>>
    IN  [n \in 0..(MaxAccess + 1) |-> table[n + 1]]

\* Keys and values are interchangeable when none of them is "".
MCSymmetry == Permutations(Key) \cup Permutations(Value)
===============================================================================
