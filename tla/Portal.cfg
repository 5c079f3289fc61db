SPECIFICATION FairSpec
CONSTANTS
  Old = Old
  New = New
  None = None
  Bridges <- MCBridges
  MaxReloads = 1
PROPERTIES
  KeptVisible
  
  LogoutEnds
