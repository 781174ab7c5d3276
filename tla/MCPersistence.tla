----------------------------- MODULE MCPersistence -----------------------------
(* Constants for model checking Persistence.                                 *)
EXTENDS Persistence, TLC

CONSTANTS x, y

\* One string and one hash: dump writes them out at different times.
MCStoreOf == (x :> 1) @@ (y :> 3)
===============================================================================
