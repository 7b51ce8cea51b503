SPECIFICATION Spec
CONSTANTS
  f = f
  g = g
  Files <- TwoFiles
  None = None
  Kinds = {"worktree"}
  MaxEdits = 2
  MaxFaults = 2
  MaxMounts = 1
INVARIANT WholeOrUnserved FirstIndexIsFree Delivers
PROPERTY LivingSpared
CHECK_DEADLOCK FALSE
