SPECIFICATION Spec
CONSTANTS
  w1 = w1
  w2 = w2
  repo = repo
  sub = sub
  Workflows = {w1, w2}
  Runs = {r1, r2}
  Agents = {codex}
  Dirs = {repo, sub}
  CwdOf <- SameRepoCwd
  Toplevel <- TwoReposToplevel
  MaxActive = 1
  MaxPlanned = 2
  MaxStages = 2
  Environment = {"crash", "close", "second"}
  None = None
SYMMETRY RepositorySymmetry
CHECK_DEADLOCK FALSE
INVARIANTS
  AgentsBounded
  CompletedHasNoQueue
