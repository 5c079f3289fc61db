---------------------------- MODULE MCTerminalStream ---------------------------
(***************************************************************************)
(* Instances of the terminal stream for TLC.                               *)
(***************************************************************************)
EXTENDS TerminalStream, TLC
================================================================================
