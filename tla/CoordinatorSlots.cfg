SPECIFICATION Spec
CONSTANTS
  w1 = w1
  w2 = w2
  repo = repo
  sub = sub
  Workflows = {w1, w2}
  Runs = {r1, r2}
  Agents = {codex}
  Dirs = {repo, sub}
  CwdOf <- SameRepoCwd
  Toplevel <- SameRepoToplevel
  MaxActive = 2
  MaxPlanned = 1
  MaxStages = 1
  Environment = {"cancel", "store"}
  None = None
SYMMETRY RunSymmetry
CHECK_DEADLOCK FALSE
INVARIANTS
  RepositoryExclusive
  SlotsAgree
