-------------------------- MODULE MCAgentCommands --------------------------
(* The constants are numbers and flags.  States are compared by what the   *)
(* runs of the two processes and the invariants depend on.  Left out are   *)
(* the scheduler (a check on request does to the rest what a check of the  *)
(* scheduler does), the serial of a renewal that is over, the memory of a  *)
(* daemon that is down, and the history of an identity that is not being   *)
(* revoked: each is set anew before it is read.                            *)
EXTENDS AgentCommands, FiniteSets

Observed ==
    <<misVars, up, cert, key, disk, op, missed, cutOff,
      IF up THEN mem ELSE disk,
      IF AtFiles THEN pending ELSE 0,
      cli, requestVars, cliCert, alone, overlap,
      raced \cap (revoking \cup withdrawn)>>

(* Bound: the operator revokes one of the device's identities at most. *)
OneRevoked == Cardinality(revoking \cup withdrawn) <= 1
=============================================================================
