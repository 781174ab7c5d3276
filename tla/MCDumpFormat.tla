----------------------------- MODULE MCDumpFormat ------------------------------
(* Constants for model checking DumpFormat.                                  *)
EXTENDS DumpFormat, TLC

CONSTANTS k1, k2, f1, v1

\* log(1 + n) in millionths, for n = 0, 1, ...
MCLog1p ==
    LET table == <<0, 693147, 1098612, 1386294>>
    IN  [n \in 0..(MaxAccess + 1) |-> table[n + 1]]

\* The value has a space in it, and so has the field.
MCWordsIn == [x \in {k1, k2, f1, v1} |-> IF x \in {f1, v1} THEN 2 ELSE 1]

\* The keys are alike.
MCSymmetry == Permutations(Key)
===============================================================================
