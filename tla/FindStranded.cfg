SPECIFICATION Spec
CONSTANTS
  w1 = w1
  w2 = w2
  repo = repo
  sub = sub
  Workflows = {w1}
  Runs = {r1, r2}
  Agents = {codex}
  Dirs = {repo}
  CwdOf <- OneCwd
  Toplevel <- OneToplevel
  MaxActive = 2
  MaxPlanned = 1
  MaxStages = 3
  Environment = {}
  None = None
SYMMETRY RunSymmetry
CHECK_DEADLOCK FALSE
INVARIANT
  NoStrandedTurn
