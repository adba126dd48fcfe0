---------------------------- MODULE MCController ----------------------------
(* Instances of Controller for TLC. *)
EXTENDS Controller, TLC

\* Requests are interchangeable (safety runs only).
MCSymmetry == Permutations(Requests)

MCOctet == 8

\* Default pool: hosts 1..6, of which 2..6 may be given out.
MCDefault4 == [base |-> 0, size |-> 8]
MCDefault6 == [base |-> 0, size |-> 64]

\* The second pool is disjoint; the third has the default's base and one
\* allocatable address, so that two nodes exhaust it.
MCPools4 == {MCDefault4, [base |-> 8, size |-> 4]}
MCPools4Small == MCPools4 \cup {[base |-> 0, size |-> 4]}

MCPools6 == {MCDefault6}
MCPools6Two == {MCDefault6, [base |-> 64, size |-> 64]}

\* Callers rely on the default ipv6_prefix, or send any of three.
MCAsked6 == {MCDefault6}
MCAsked6All == MCPools6Two \cup {NoPool}
=============================================================================
