-------------------------------- MODULE MCViewer -------------------------------
(***************************************************************************)
(* Instances of the native viewer for TLC.                                 *)
(***************************************************************************)
EXTENDS Viewer, TLC

WindowSymmetry == Permutations(Windows) \cup Permutations(Shows)
================================================================================
