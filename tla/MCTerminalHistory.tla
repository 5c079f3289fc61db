-------------------------- MODULE MCTerminalHistory ----------------------------
(***************************************************************************)
(* Instances of the saved-terminal store for TLC.                          *)
(***************************************************************************)
EXTENDS TerminalHistory, TLC

HistorySymmetry == Permutations(Sessions) \cup Permutations(Openers)
================================================================================
