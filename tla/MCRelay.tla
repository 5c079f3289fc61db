-------------------------------- MODULE MCRelay --------------------------------
(***************************************************************************)
(* Instance of the relay for TLC.                                          *)
(***************************************************************************)
EXTENDS Relay, TLC

ConnectorsMC == 1..2
ChannelsMC == 1..2
================================================================================
