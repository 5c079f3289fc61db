SPECIFICATION FairSpec
CONSTANTS
  MaxOut = 3
  Scrollback = 2
  QueueMax = 1
  MaxConns = 4
  MaxDrops = 2
INVARIANTS
  ScreenFaithful
  
PROPERTIES
  ComesBack
  GateReopens
CHECK_DEADLOCK FALSE
