SPECIFICATION FairSpec
CONSTANTS
  Touches <- MCTouches
  None = None
  MaxFrames = 3
INVARIANTS
  ViewOnly
  NoStuckTouch
  DragFresh
PROPERTY
  NewestDrawn
