------------------------------ MODULE MCPilotSync ------------------------------
(* This pilot, alone or with one peer. *)
EXTENDS PilotSync, TLC

CONSTANTS p1, p2

Alone     == p1 :> "ours"
TwoPeers  == p1 :> "ours" @@ p2 :> "ours"
================================================================================
