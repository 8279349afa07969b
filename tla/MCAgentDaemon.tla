--------------------------- MODULE MCAgentDaemon ---------------------------
(* AgentDaemon with a scheduler and a few socket connections.              *)
EXTENDS AgentDaemon
=============================================================================
