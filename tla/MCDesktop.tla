------------------------------- MODULE MCDesktop -------------------------------
(***************************************************************************)
(* Instances of the remote desktop page for TLC.                           *)
(***************************************************************************)
EXTENDS Desktop, TLC

MCTouches == 1..2
================================================================================
