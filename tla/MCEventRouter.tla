--------------------------- MODULE MCEventRouter ----------------------------
(* Small instances of EventRouter for TLC. *)
EXTENDS EventRouter, TLC

CONSTANTS o1, o2, o3

Symmetry == Permutations({o1, o2, o3})
=============================================================================
