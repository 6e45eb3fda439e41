------------------------------ MODULE MCAgent ------------------------------
(* RunnerAgent for TLC. *)
EXTENDS RunnerAgent
=============================================================================
