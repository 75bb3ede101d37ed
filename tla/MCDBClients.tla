---------------------------- MODULE MCDBClients -----------------------------
(* Small instances of DBClients for TLC. *)
EXTENDS DBClients, TLC

CONSTANTS s1, s2, s3

Symmetry == Permutations({s1, s2, s3})
=============================================================================
