-------------------------- MODULE IdentityRegistry --------------------------
(***************************************************************************)
(* What the bindings of the identity service promise: an identity has one  *)
(* holder from its creation on; it changes hands only with a ticket that   *)
(* names it, once for each ticket; a former holder never comes back, and a *)
(* withdrawn identity stays withdrawn.                                     *)
(***************************************************************************)
CONSTANTS ESIs, LDIs, Tickets, None

VARIABLES
    holder,    \* the ESIs that hold an identity: none yet, or one
    former,    \* the ESIs that held one and were replaced
    names,     \* the identity a ticket is for, or None
    spent,     \* the tickets that an identity changed hands with
    withdrawn  \* the revoked identities

registryVars == <<holder, former, names, spent, withdrawn>>

Fresh(e) == e \notin former /\ \A l \in LDIs : e \notin holder[l]

RegistryInit ==
    /\ holder = [l \in LDIs |-> {}]
    /\ former = {}
    /\ names = [t \in Tickets |-> None]
    /\ spent = {} /\ withdrawn = {}

Create(l, e) ==
    /\ holder[l] = {} /\ Fresh(e)
    /\ holder' = [holder EXCEPT ![l] = {e}]
    /\ UNCHANGED <<former, names, spent, withdrawn>>

Entitle(t, l) ==
    /\ names[t] = None /\ holder[l] # {}
    /\ names' = [names EXCEPT ![t] = l]
    /\ UNCHANGED <<holder, former, spent, withdrawn>>

Replace(t, l, e) ==
    /\ names[t] = l /\ t \notin spent /\ Fresh(e)
    /\ holder' = [holder EXCEPT ![l] = {e}]
    /\ former' = former \cup holder[l]
    /\ spent' = spent \cup {t}
    /\ UNCHANGED <<names, withdrawn>>

Withdraw(l) ==
    /\ holder[l] # {}
    /\ withdrawn' = withdrawn \cup {l}
    /\ UNCHANGED <<holder, former, names, spent>>

RegistryNext ==
    \/ \E l \in LDIs, e \in ESIs : Create(l, e)
    \/ \E t \in Tickets, l \in LDIs : Entitle(t, l)
    \/ \E t \in Tickets, l \in LDIs, e \in ESIs : Replace(t, l, e)
    \/ \E l \in LDIs : Withdraw(l)

RegistrySpec == RegistryInit /\ [][RegistryNext]_registryVars
=============================================================================
