--------------------------- MODULE MCShardedMutex ---------------------------
(* A small instance of ShardedMutex for TLC. *)
EXTENDS ShardedMutex

CONSTANTS s1, s2, t1, t2, t3
=============================================================================
