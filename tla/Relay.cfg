SPECIFICATION FairSpec
CONSTANTS
  Channels <- ChannelsMC
  Connectors <- ConnectorsMC
  MAX_BROWSER_SOCKETS = 1
  MaxPackets = 2
  None = None
INVARIANTS
  BridgesBelong
  ChannelsFreed
PROPERTIES
  StaleEndHarmless
  TunnelSpec
  OrphanEnds
  GoneForgotten
CHECK_DEADLOCK FALSE
