---------------------------- MODULE MCMISProcess ----------------------------
(* MISProcess for a few requests and processes. *)
EXTENDS MISProcess
=============================================================================
