-------------------------- MODULE MCEventDelivery ---------------------------
(* A small instance of EventDelivery for TLC. *)
EXTENDS EventDelivery

CONSTANTS o1, o2, c1, c2
=============================================================================
