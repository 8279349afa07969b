------------------------- MODULE MCIdentityService -------------------------
(* Instances of IdentityService and IdentityOverlap for TLC. *)
EXTENDS IdentityOverlap, TLC

Symmetry == Permutations(ESIs) \cup Permutations(LDIs) \cup Permutations(Keys)
               \cup Permutations(Reqs) \cup Permutations(Tickets)

\* A device has enrolled and holds an SVID, and nothing else has happened.
EnrolledInit ==
    \E e \in ESIs, l \in LDIs, k \in Keys :
        /\ ldi = [m \in LDIs |-> IF m = l THEN "active" ELSE "absent"]
        /\ binding = [f \in ESIs |->
              IF f = e THEN [status |-> "active", ldi |-> l, ticket |-> None] ELSE Unbound]
        /\ ticket = [t \in Tickets |-> [status |-> "absent", ldi |-> None]]
        /\ svid = [s \in Serials |->
              IF s = 1 THEN [status |-> "active", ldi |-> l, key |-> k, esi |-> e]
              ELSE [status |-> "absent", ldi |-> None, key |-> None, esi |-> None]]
        /\ nextSerial = 2 /\ revoked = {} /\ expired = {}
        /\ req = [r \in Reqs |-> Idle]
        /\ beside = {} /\ raced = {} /\ disturbed = {}

\* Its behaviours in which no SVID expires meanwhile.
EnrolledSpec == EnrolledInit /\ [][HNext /\ UNCHANGED expired]_hvars
=============================================================================
