-------------------------------- MODULE MCBridge -------------------------------
(***************************************************************************)
(* Instances of the encrypted bridge for TLC.                              *)
(***************************************************************************)
EXTENDS Bridge, TLC
================================================================================
