SPECIFICATION FairSpec
CONSTANTS
  f = f
  g = g
  t = t
  u = u
  v = v
  Files <- TwoFiles
  Timers <- ThreeTimers
  NoTimer = NoTimer
  Callers = {"daemon", "tool"}
  MaxEdits = 3
  MaxStarts = 2
  MaxFailures = 1
INVARIANT NothingIsLost
PROPERTY DaemonCatchesUp
CHECK_DEADLOCK FALSE
