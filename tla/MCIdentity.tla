----------------------------- MODULE MCIdentity -----------------------------
(* Instances of Identity for TLC. *)
EXTENDS Identity

\* One address more than nodes: a node can be moved without an exchange.
MCAddresses == {[v4 |-> i, v6 |-> 10 + i] : i \in 1 .. 3}
=============================================================================
