---------------------------- MODULE MCDurability ----------------------------
(* The event log on small instances. *)
EXTENDS Durability

CONSTANTS h1, h2, e1, e2, a1, a2

MCSymmetry == Permutations(EntityIDs) \cup Permutations(Attributes)
=============================================================================
