------------------------- MODULE MCDesiredStateSync -------------------------
(* Instance of DesiredStateSync for TLC: one device, two or three deployment *)
(* ids and two specs.                                                        *)
EXTENDS DesiredStateSync
=============================================================================
