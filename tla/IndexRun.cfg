SPECIFICATION Spec
CONSTANTS
  f = f
  g = g
  Files <- TwoFiles
  Documented <- TwoFiles
  None = None
  Docstring = Docstring
  NoSource = NoSource
  Modes = {"index", "force", "flush"}
  Worlds <- SafeWorlds
  MaxEdits = 3
  MaxFaults = 3
SYMMETRY Alike
INVARIANT CoverageIsHonest HonestVector NothingPaidTwice HonestChecksum HonestSummary NoStaleChunks
PROPERTY StaleBeatsEmpty PaidSummaryKept
