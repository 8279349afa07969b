------------------------- MODULE MCAssertionReplay -------------------------
(* AssertionReplay for a few assertions and requests. *)
EXTENDS AssertionReplay, TLC

Symmetry == Permutations(Jtis) \cup Permutations(Reqs)
=============================================================================
