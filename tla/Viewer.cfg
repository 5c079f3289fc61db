SPECIFICATION FairSpec
CONSTANTS
  Windows = {x1, x2, x3}
  Shows = {p1}
  Hides = {h1, h2}
  Overlap = FALSE
  None = None
INVARIANTS
  TypeOK
  NoOrphanWindow
PROPERTIES
  HandleKept
  HideCloses
