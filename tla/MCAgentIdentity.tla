-------------------------- MODULE MCAgentIdentity --------------------------
(* AgentIdentity is model-checked as it stands: its constants are numbers  *)
(* and flags.                                                              *)
EXTENDS AgentIdentity
=============================================================================
