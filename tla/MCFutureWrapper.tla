-------------------------- MODULE MCFutureWrapper ---------------------------
(* A small instance of FutureWrapper for TLC. *)
EXTENDS FutureWrapper

CONSTANTS f1, f2
=============================================================================
