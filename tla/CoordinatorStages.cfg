SPECIFICATION FairSpec
CONSTANTS
  w1 = w1
  w2 = w2
  repo = repo
  sub = sub
  Workflows = {w1}
  Runs = {r1, r2}
  Agents = {codex}
  Dirs = {repo}
  CwdOf <- OneCwd
  Toplevel <- OneToplevel
  MaxActive = 2
  MaxPlanned = 2
  MaxStages = 2
  Environment = {"cancel", "close"}
  None = None

CHECK_DEADLOCK FALSE
INVARIANTS
  TypeOK
  RunningStageOwned
PROPERTIES
  StagesInOrder
  CancelEndsRun
  CloseTerminates
  RunningEnds
