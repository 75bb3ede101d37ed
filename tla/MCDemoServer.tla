---------------------------- MODULE MCDemoServer ----------------------------
(* A small instance of DemoServer for TLC. *)
EXTENDS DemoServer

CONSTANTS r1, r2
=============================================================================
