SPECIFICATION ReadSpec
CONSTANTS
  m = m
  d = d
  fn = fn
  other = other
  a = a
  b = b
  one = one
  two = two
  NoCommit = NoCommit
  Files <- TwoFiles
  Dir <- Folders
  Root = "."
  Contents = {1, 2}
  Commits <- TwoCommits
  Tree <- TwoTrees
  CacheMax = 1
  DirMax = 2
  MaxSaves = 1
  MaxMoves = 3
  MaxRuns = 1
  MaxReads = 2
  Nobody = Nobody
  Absent = Absent
  Mine <- Three
  Type <- Kinds
  Levels <- TwoLevels
  Words <- TwoWords
  Phrases <- OnePhrase
  Worlds <- SomeWorlds
  Pool = 1
  Overfetch = 1
  MinFetch = 1
  Growth = 2
  Ceiling = 3
  MaxProbed = 8
  MaxChanges = 1
  MaxFaults = 1
  StoreRows <- SixRows
  Stores <- SixStores
  Batch = 2
  ScanCap = 4
  NameScan = 2
  Limits = {1, 2}
  RowRuns = 1
  Paths = {1, 2, 3}
  Versions <- ThreeVersions
  Budget = 3
  MaxUnindexed = 2
  PageSizes = {1, 2}
  TextEdits = 1
INVARIANT PageIsTheBest AbsenceIsTrue ListingIsWhole CensusIsExact AnswersAreFresh DriftIsSaid
CHECK_DEADLOCK FALSE
