SPECIFICATION PipelineSpec
CONSTANTS
  Nobody = Nobody
  Absent = Absent
  app = app
  lib = lib
  Files <- TwoFiles
  Dir <- Home
  Root = "."
  Contents <- TwoContents
  Trees <- OneTree
  Passes <- OnePass
  Scopes <- TwoScopes
  MaxEdits = 1
  MaxFaults = 1
  MaxPrunes = 1
  Worlds <- SmallProjects
  MaxDepth = 3
  Paths <- TwoPaths
  Versions <- TwoTexts
  BodyLines = 3
  BodyOverlap = 1
  SplitSize = 3
  SplitOverlap = 1
  WindowSize = 4
  EmbedCount = 2
  EmbedChars = 5
  Gaps <- BetweenSteps
  ChunkFaults = 1
  MaxMoves = 2
  TreeNodes <- FiveNodes
  Id <- Unique
  Parent <- Below
  Dirs <- Root5
  Texts <- TwoAnswers
  BatchSize = 2
  Reorders <- NoReorder
  MaxVersion = 2
  TreeEdits = 2
  TreeFaults = 2
  Priceable <- SmallAndLarge
  Size <- Sizes
  Guess <- OneEach
  SummaryPrice = 1
  Caps <- TwoCaps
  Cap = 6
  GateEdits = 2
  MaxUpgrades = 1
  MaxRuns = 3
  GateFaults = 1
INVARIANT CallsAreHonest EveryPassageIsFound Settled PricedAndDue WithinCap StoreIsExact GraphStands
CHECK_DEADLOCK FALSE
