-------------------------------- MODULE MCPortal -------------------------------
(***************************************************************************)
(* Instances of the portal's sign-in for TLC.                              *)
(***************************************************************************)
EXTENDS Portal, TLC

MCBridges == 1..3
================================================================================
