------------------------------- MODULE MCAccess -------------------------------
(* Instances of Access for TLC. *)
EXTENDS Access, TLC

MCNodes == {"n1", "n2"}
MCPackets == [src : {"n1"}, dst : {"n2"}, port : {22, 80, 443}, protocol : {"tcp"}]
    \cup [src : {"n2"}, dst : {"n1"}, port : {22}, protocol : {"tcp", "udp"}]

Rule(source, action, ports, protocols) ==
    [source |-> source, destination |-> MCNodes, action |-> action,
     ports |-> ports, protocols |-> protocols]

\* Rules that overlap in port 22; the last three cannot be expressed by the chain.
MCRuleSet == {
    Rule(MCNodes, "allow", <<22, 80>>, {}),
    Rule(MCNodes, "deny", <<22>>, {"tcp"}),
    Rule(MCNodes, "deny", <<>>, {}),
    Rule({"n1"}, "allow", <<>>, {}),
    Rule(MCNodes, "ALLOW", <<22>>, {}),
    Rule(MCNodes, "allow", <<80>>, {"udp"})}

MCSymmetry == Permutations(Requests)
==============================================================================
