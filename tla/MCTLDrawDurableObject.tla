------------------------- MODULE MCTLDrawDurableObject -------------------------
(* Instances of TLDrawDurableObject for TLC. *)
EXTENDS TLDrawDurableObject, TLC

CONSTANTS s1, s2

SessionSymmetry == Permutations(SessionIds)
=============================================================================
