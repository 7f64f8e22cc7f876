---------------------------- MODULE MCDatabasePod ----------------------------
(* Instances of DatabasePod for TLC.                                       *)
EXTENDS DatabasePod
=============================================================================
