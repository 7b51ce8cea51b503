SPECIFICATION FairSpec
CONSTANTS
  f = f
  g = g
  Files <- TwoFiles
  Documented <- OneFile
  None = None
  Docstring = Docstring
  NoSource = NoSource
  Modes = {"index", "flush"}
  Worlds <- HealWorlds
  MaxEdits = 2
  MaxFaults = 2
PROPERTY Heals
