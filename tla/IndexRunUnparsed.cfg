SPECIFICATION FairSpec
CONSTANTS
  f = f
  g = g
  Files <- OneFile
  Documented <- NoFile
  None = None
  Docstring = Docstring
  NoSource = NoSource
  Modes = {"index"}
  Worlds <- UnparsedWorld
  MaxEdits = 1
  MaxFaults = 1
PROPERTY Heals
