SPECIFICATION Spec
CONSTANTS
  f = f
  g = g
  Files <- OneFile
  None = None
  Kinds = {"worktree", "standalone"}
  MaxEdits = 2
  MaxFaults = 0
  MaxMounts = 0
PROPERTY OrdinarySpared
CHECK_DEADLOCK FALSE
