------------------------------ MODULE RespRequest ------------------------------
(***************************************************************************)
(* Requests on the wire, and what parseRespCommand makes of the data of    *)
(* one recv, wherever in the stream that begins and ends.                  *)
(*                                                                         *)
(* The stream is a sequence of words, each with a CRLF behind it: a        *)
(* request of n words is "*n" and then, for each of them, "$length" and    *)
(* the word.  A recv may also end inside a word, or before its CRLF.       *)
(* Lengths are right and all written alike here; words hold no white       *)
(* space.                                                                  *)
(***************************************************************************)
EXTENDS Integers, Sequences

CONSTANTS
    Star,       \* the "*n" that a request begins with
    Length,     \* the "$length" before each of its words
    Starred     \* what else begins with '*': arguments, and parts of words

ASSUME RequestAssumption == Star # Length /\ Star \notin Starred

\* The client's form of a command of these words.
buildRESPcommand(said) ==
    [i \in 1..(2 * Len(said) + 1) |-> CASE i = 1 -> Star
                                        [] i > 1 /\ i % 2 = 0 -> Length
                                        [] i > 1 /\ i % 2 = 1 -> said[i \div 2]]

(***************************************************************************)
(* The data of one recv: its words, the last of which may be without its   *)
(* CRLF ("bare") or without its end ("torn"), and whether they come behind *)
(* the CRLF of a word received before.                                     *)
(***************************************************************************)
Data(behind, words, ending) == [behind |-> behind, words |-> words, ending |-> ending]

\* The data begins with a line of '*' and what should be a number.
IsArray(d) ==
    /\ ~d.behind
    /\ d.words # <<>> /\ d.words[1] \in Starred \cup {Star}
    /\ Len(d.words) > 1 \/ d.ending = "crlf"

\* How many elements can be read behind that line: a length, then a word that
\* is there to its end.
Readable(d) ==
    {m \in 0..Len(d.words) :
        /\ 2 * m + 1 < Len(d.words) \/ (2 * m + 1 = Len(d.words) /\ d.ending # "torn")
        /\ \A i \in 1..m : d.words[2 * i] = Length}

Elements(d, m) == [i \in 1..m |-> d.words[2 * i + 1]]

(***************************************************************************)
(* The tokens that parseRespCommand may return.  Without a '*' at its      *)
(* beginning everything is a token, the requests behind included; with it, *)
(* the elements are, as far as they have come, and what lies behind them   *)
(* is lost.  When the line is no request's, its number is anybody's guess. *)
(***************************************************************************)
parseRespCommand(d) ==
    IF IsArray(d)
    THEN {Elements(d, m) : m \in {n \in Readable(d) :
             d.words[1] = Star => \A l \in Readable(d) : l <= n}}
    ELSE IF ~d.behind /\ d.words # <<>> /\ d.words[1] \in Starred \cup {Star}
    THEN {<<>>}
    ELSE {d.words}

\* It throws instead: std::stoi finds no number in the line.
parseThrows(d) == IsArray(d) /\ d.words[1] \in Starred
================================================================================
