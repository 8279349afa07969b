----------------------------- MODULE TokenGrant -----------------------------
(***************************************************************************)
(* What single-use enrollment tokens promise: a token is worth one SVID for  *)
(* one device key, and whoever presents it again is answered with that SVID  *)
(* or not at all.                                                            *)
(***************************************************************************)
CONSTANTS Tokens, Grants, NoGrant

VARIABLES
    grant,    \* what the token was exchanged for, or NoGrant
    answered  \* the grants that were sent to a device

GrantInit == grant = [t \in Tokens |-> NoGrant] /\ answered = {}

Exchange(t, g) ==
    /\ grant[t] = NoGrant
    /\ grant' = [grant EXCEPT ![t] = g]
    /\ UNCHANGED answered

Answer(t) ==
    /\ grant[t] # NoGrant
    /\ answered' = answered \cup {<<t, grant[t]>>}
    /\ UNCHANGED grant

GrantNext ==
    \/ \E t \in Tokens, g \in Grants : Exchange(t, g)
    \/ \E t \in Tokens : Answer(t)

GrantSpec == GrantInit /\ [][GrantNext]_<<grant, answered>>
=============================================================================
