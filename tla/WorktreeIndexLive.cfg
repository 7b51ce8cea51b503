SPECIFICATION FairSpec
CONSTANTS
  f = f
  g = g
  Files <- OneFile
  None = None
  Kinds = {"worktree"}
  MaxEdits = 2
  MaxFaults = 2
  MaxMounts = 1
PROPERTY Heals GoneIsReaped
CHECK_DEADLOCK FALSE
