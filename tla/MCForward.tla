------------------------------ MODULE MCForward ------------------------------
(* Instances of Forward for TLC. *)
EXTENDS Forward
==============================================================================
