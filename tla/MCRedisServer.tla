----------------------------- MODULE MCRedisServer -----------------------------
(* Constants for model checking RedisServer.                                 *)
EXTENDS RedisServer, TLC

CONSTANTS c1, c2, c3

\* A client that may send anything, a well-behaved one, and a silent one.
MCRequests == c1 :> {"good", "bad"} @@ c2 :> {"good"} @@ c3 :> {}
===============================================================================
