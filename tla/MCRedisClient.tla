----------------------------- MODULE MCRedisClient -----------------------------
(* Constants for model checking RedisClient.                                 *)
EXTENDS RedisClient, MCRedisCommandHandler

CONSTANTS junk, star1       \* an unknown word, and one that begins with '*'

\* Replies of every form, with commands that are misread.
MCTyped ==
    {Request("PING", <<>>), Request("SET", <<k1, v1>>),
     Request("SET", <<k1, star1>>), Request("GET", <<k1>>),
     Request("RPUSH", <<k1, v1, v1>>),
     Request("KEYS", <<>>), Request("LPOP", <<k1>>), Request("HGET", <<k1>>)}

\* A word may be torn into two that mean nothing.  HGET may be torn before its
\* G, and v1 ends in the name of a command.
MCTears ==
    {[word |-> w, front |-> junk, back |-> junk] : w \in {"SET", Length, k1, junk}}
    \cup {[word |-> Star, front |-> star1, back |-> junk],
          [word |-> "HGET", front |-> junk, back |-> "GET"],
          [word |-> v1, front |-> junk, back |-> "GET"]}
===============================================================================
