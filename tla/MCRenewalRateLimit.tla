------------------------- MODULE MCRenewalRateLimit -------------------------
(* RenewalRateLimit for a few requests at once. *)
EXTENDS RenewalRateLimit, TLC

\* Ticks of half a second: "05Z" sorts after "05.5Z".
HalfSeconds == [f \in 0..1 |-> 1 - f]

ReqSymmetry == Permutations(Reqs)
=============================================================================
