------------------------ MODULE MCRedisCommandHandler -------------------------
(* Constants for model checking RedisCommandHandler.                         *)
EXTENDS RedisCommandHandlerProperties, TLC

CONSTANTS
    k1, k2,                     \* keys
    f1, f2,                     \* fields
    v1, v2, e1, e2, e3, e4,     \* values
    word                        \* an argument that is no number

\* log(1 + n) in millionths, for n = 0, 1, ...
MCLog1p ==
    LET table == <<0, 693147, 1098612, 1386294, 1609437, 1791759, 1945910, 2079441,
                   2197224, 2302585, 2397895, 2484906, 2564949, 2639057, 2708050, 2772588,
                   2833213, 2890371, 2944438, 2995732, 3044522, 3091042, 3135494, 3178053,
                   3218875, 3258096, 3295836, 3332204, 3367295, 3401197, 3433987, 3465735>>
    IN  [n \in 0..(MaxAccess + 1) |-> table[n + 1]]

\* Every command as it should be called.
MCProper ==
    {Request("PING", <<>>), Request("ECHO", <<v1>>), Request("FLUSHALL", <<>>),
     Request("SET", <<k1, v1>>), Request("SET", <<k1, v1, word, 1>>),
     Request("GET", <<k1>>), Request("KEYS", <<>>), Request("TYPE", <<k1>>), Request("DEL", <<k1>>), Request("UNLINK", <<k2>>),
     Request("EXPIRE", <<k1, 1>>), Request("EXPIRE", <<k1, 0>>),
     Request("RENAME", <<k1, k2>>),
     Request("LGET", <<k1>>), Request("LLEN", <<k1>>),
     Request("LPUSH", <<k1, v1>>), Request("RPUSH", <<k1, v1, v2>>),
     Request("LPOP", <<k1>>), Request("RPOP", <<k1>>),
     Request("LREM", <<k1, 1, v1>>), Request("LINDEX", <<k1, -1>>),
     Request("LSET", <<k1, 0, v2>>),
     Request("HSET", <<k1, f1, v1>>), Request("HGET", <<k1, f1>>),
     Request("HEXISTS", <<k1, f1>>), Request("HDEL", <<k1, f1>>),
     Request("HGETALL", <<k1>>), Request("HKEYS", <<k1>>),
     Request("HVALS", <<k1>>), Request("HLEN", <<k1>>),
     Request("HMSET", <<k1, f1, v1, f1, v2>>)}

\* Commands that are refused for their name, their length or a number.
MCImproper ==
    {Request("DECR", <<k1>>), Request("ECHO", <<>>), Request("GET", <<>>),
     Request("EXPIRE", <<k1, word>>), Request("LPUSH", <<k1>>),
     Request("RPUSH", <<k1>>), Request("LREM", <<k1, word, v1>>), Request("LINDEX", <<k1, word>>),
     Request("LSET", <<k1, word, v1>>), Request("HMSET", <<k1, f1, v1, f2>>)}

MCCommands == MCProper \cup MCImproper

\* Two pushes, one at either end of a list.
MCPushes == {Request("RPUSH", <<k1, e1, e2>>), Request("LPUSH", <<k1, e3, e4>>)}

\* What other clients may do to that list meanwhile.
MCMeddling ==
    {Request("SET", <<k2, v1>>), Request("EXPIRE", <<k1, 1>>),
     Request("RENAME", <<k1, k2>>), Request("LPOP", <<k1>>),
     Request("LREM", <<k1, 0, e2>>), Request("LSET", <<k1, 0, v1>>)}

MCNone == {}

ASSUME MCRequestsFit == \A r \in Requests \cup Pushes : Fits(r)

ASSUME MCOnlyPushed == OnlyPushed
===============================================================================
