----------------------------- MODULE MCTraversal -----------------------------
(* Instances of Traversal for TLC. *)
EXTENDS Traversal, TLC

MCSymmetry ==
    Permutations(Ends) \cup Permutations(RelayUses) \cup
    Permutations(ConeNats) \cup Permutations(SymmetricNats)
==============================================================================
