---------------------------- MODULE MCGenericPilot ----------------------------
(* Two PreStart hooks, of which the second may be the one that fails, and  *)
(* one hook in every other phase.                                          *)
EXTENDS GenericPilot

SomeHooks == [p \in Phases |-> IF p = "PreStart" THEN 2 ELSE 1]
================================================================================
