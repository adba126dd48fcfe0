---------------------------- MODULE MCDNSServer ----------------------------
(* Instances of DNSServer for TLC. *)
EXTENDS DNSServer

MCAddresses == {[v4 |-> i, v6 |-> 10 + i] : i \in 1 .. 2}
=============================================================================
