------------------------- MODULE MCEnrollmentToken -------------------------
(* Instances of EnrollmentToken for TLC. *)
EXTENDS EnrollmentToken, TLC

Symmetry == Permutations(Tokens) \cup Permutations(Keys) \cup Permutations(Reqs)
=============================================================================
