--------------------------------- MODULE Resp ----------------------------------
(***************************************************************************)
(* Replies on the wire, cut into the items a RESP parser reads at once: a  *)
(* line with its prefix byte, or the text of a bulk string with the CRLF   *)
(* after it.  A reply is a sequence of items.                              *)
(***************************************************************************)
EXTENDS Integers, Sequences

Item(prefix, val) == [prefix |-> prefix, val |-> val]

Status == <<Item("+", 0)>>
Error == <<Item("-", 0)>>
Integer(n) == <<Item(":", n)>>
Nil == <<Item("$", -1)>>

\* The lengths of texts do not matter, only that they are not -1.
BulkHeader == Item("$", 0)
Bulk(v) == <<BulkHeader, Item("text", v)>>

\* Of an array of bulk strings only the number of elements is kept.
Array(n) ==
    <<Item("*", n)>>
        \o [i \in 1..(2 * n) |-> IF i % 2 = 1 THEN BulkHeader ELSE Item("text", 0)]

\* "Error: ..." without the '-' before it: five characters that are no prefix,
\* and a colon.
Junk == [i \in 1..5 |-> Item("junk", 0)] \o Integer(0)

IsScalar(r) ==
    \/ Len(r) = 1 /\ r[1].prefix \in {"+", "-", ":"}
    \/ r = Nil
    \/ Len(r) = 2 /\ r[1] = BulkHeader /\ r[2].prefix = "text"

\* r is one RESP value, of those this server has a use for.
IsReply(r) ==
    \/ IsScalar(r)
    \/ \E n \in 0..Len(r) : r = Array(n)
================================================================================
