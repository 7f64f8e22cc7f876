-------------------------- MODULE MCPilotController --------------------------
(* Instances of PilotController for TLC.                                   *)
EXTENDS PilotController
=============================================================================
