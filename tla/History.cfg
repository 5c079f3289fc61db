SPECIFICATION Spec
CONSTANTS
  Sessions = {s1, s2}
  Openers = {o1}
  MaxSessions = 2
  MaxFavorites = 1
  MaxRecent = 1
  TicksPerSecond = 2
  MaxEdits = 3
  Environment = {"poll", "restart"}
  None = None
SYMMETRY HistorySymmetry
CHECK_DEADLOCK FALSE
INVARIANTS
  TypeOK
  Bounded
PROPERTIES
  ClosedOnce
  FavoritesKept
