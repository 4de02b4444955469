------------------------------ MODULE MCEngine ------------------------------
(* The change engine on small instances. *)
EXTENDS Engine, TLC

CONSTANTS h1, h2, e1, e2, e3, p1, p2, s0, s1, a1, a2

(* One edge between two identities. *)
MCEdges == {<<h1, h2>>}

MCSymmetry == Permutations(EntityIDs) \cup Permutations(Producers)
=============================================================================
