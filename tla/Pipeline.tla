------------------------------ MODULE Pipeline ------------------------------
(* The stages an index run goes through: calls resolved, the graph stored,    *)
(* entities summarized, files chunked, and the gates that price it all.  What *)
(* one stage hands to the next is an input of the next one's model, so they   *)
(* share no state and one specification has them together: the initial state  *)
(* picks the stage, and only its component moves.  IndexRun has the stages    *)
(* follow one another on one file's facts.  The store's model is extended,    *)
(* for its own properties to be the pipeline's; it waits in its initial state *)
(* while another stage is under way.                                          *)
EXTENDS GraphStore, Sequences

CONSTANTS
  \* Calls
  Worlds, Nobody, MaxDepth,
  \* Chunks
  Paths, Versions, BodyLines, BodyOverlap, SplitSize, SplitOverlap, WindowSize,
  EmbedCount, EmbedChars, Gaps, ChunkFaults, MaxMoves,
  \* SummaryTree
  TreeNodes, Id, Parent, Dirs, Texts, BatchSize, Reorders, MaxVersion, TreeEdits,
  TreeFaults,
  \* CostGate
  Priceable, Size, Guess, SummaryPrice, Caps, Cap, GateEdits, MaxUpgrades, MaxRuns,
  GateFaults

\* The nodes of one parse are a forest of directories, files and entities, and a
\* directory is one because there is a file below it.
ASSUME TreeAssumption ==
  /\ TreeNodes \subseteq Nat \ {0} /\ IsFiniteSet(TreeNodes)
  /\ Dirs \subseteq TreeNodes
  /\ Parent \in [TreeNodes -> TreeNodes \cup {0}]
  /\ \A S \in SUBSET TreeNodes : S # {} => \E n \in S : \A c \in S : Parent[c] # n
  /\ \A d \in Dirs : \E c \in TreeNodes : Parent[c] = d
  /\ Texts \subseteq Nat \ {0}
  /\ MaxVersion \in Nat \ {0} /\ TreeEdits \in Nat /\ TreeFaults \in Nat

\* What a parser leaves of a text: bytes that are no text have no lines, a document
\* has its node, code its module and declarations of the known kinds; the library breaks
\* a sentence longer than a chunk into parts that are not.
Declared == {"module", "class", "interface", "enum", "struct", "trait", "function",
             "method", "variable", "type_alias"}
Parsed(text) ==
  /\ text.lines \in Seq(Nat)
  /\ text.ends \subseteq 1..Len(text.lines)
  /\ SplitSize >= 1 => \A p \in 0..(Len(text.lines) - 1) :
                         \E e \in text.ends : p < e /\ e <= p + SplitSize
  /\ IsFiniteSet(text.nodes)
  /\ \A n \in text.nodes : n.name \in Nat /\ n.first \in Nat /\ n.last \in Nat
  /\ \/ text.kind = "binary" /\ text.lines = <<>>
     \/ text.kind = "document" /\ \E n \in text.nodes : n.kind = "document"
     \/ /\ text.kind = "code" /\ \A n \in text.nodes : n.kind \in Declared
        /\ \E n \in text.nodes : n.kind = "module"

\* Two windows of a body overlap by less than a window, and no file vanishes between
\* exists() and is_file().
ASSUME ChunkAssumption ==
  /\ Cardinality(Paths) \in Nat /\ Paths = 1..Cardinality(Paths)
  /\ \A f \in Paths : /\ Len(Versions[f]) \in Nat \ {0}
                       /\ \A v \in 1..Len(Versions[f]) : Parsed(Versions[f][v])
  /\ BodyLines \in Nat /\ BodyOverlap \in Nat /\ BodyOverlap < BodyLines
  /\ SplitSize \in Nat /\ SplitOverlap \in Nat
  /\ WindowSize \in Nat \ {0}
  /\ Gaps \subseteq {"idle", "exists", "read", "embed"}

\* Prices and caps are numbers.
ASSUME GateAssumption ==
  /\ IsFiniteSet(Priceable) /\ "top" \notin Priceable
  /\ Size \in [Priceable -> Nat] /\ Guess \in [Priceable -> Nat]
  /\ SummaryPrice \in Nat /\ Caps \subseteq Nat /\ Cap \in Nat

VARIABLES
  stage,
  \* Calls
  world, todo, cEdges, external, unresolved, imported, covered,
  \* Chunks
  kDisk, kAway, kGraph, kMarked, kStored, kLinked, kPc, kAt, kParsed,
  kUnreadable, kReady, kFailed, kFaults, kMoves,
  \* SummaryTree
  sSource, sStored, sStamped, sPc, sKnown, sPlan, sDraft, sAttempted, sQueue,
  sGen, sDue, sLoose, sEdits, sFaults,
  \* CostGate
  gDisk, gParser, gFormat, gReported, gKnown, gLeaf, gTop, gMarker, gPc, gRun,
  gSpent, gBlind, gEdits, gUpgrades, gRuns, gFaults

resolving == <<world, todo, cEdges, external, unresolved, imported, covered>>
chunking == <<kDisk, kAway, kGraph, kMarked, kStored, kLinked, kPc, kAt,
              kParsed, kUnreadable, kReady, kFailed, kFaults, kMoves>>
summarizing == <<sSource, sStored, sStamped, sPc, sKnown, sPlan, sDraft,
                 sAttempted, sQueue, sGen, sDue, sLoose, sEdits, sFaults>>
gating == <<gDisk, gParser, gFormat, gReported, gKnown, gLeaf, gTop, gMarker,
            gPc, gRun, gSpent, gBlind, gEdits, gUpgrades, gRuns, gFaults>>
others == <<resolving, chunking, summarizing, gating>>
-----------------------------------------------------------------------------
C == INSTANCE Calls WITH edges <- cEdges

K == INSTANCE Chunks WITH
  disk <- kDisk, away <- kAway, graph <- kGraph, marked <- kMarked,
  stored <- kStored, linked <- kLinked, pc <- kPc, at <- kAt,
  parsed <- kParsed, unreadable <- kUnreadable, ready <- kReady,
  failed <- kFailed, faults <- kFaults, moves <- kMoves, Files <- Paths,
  Texts <- Versions, MaxFaults <- ChunkFaults, Batch <- WindowSize

T == INSTANCE SummaryTree WITH
  source <- sSource, stored <- sStored, stamped <- sStamped, pc <- sPc,
  known <- sKnown, plan <- sPlan, draft <- sDraft, attempted <- sAttempted,
  queue <- sQueue, gen <- sGen, due <- sDue, loose <- sLoose, edits <- sEdits,
  faults <- sFaults, Nodes <- TreeNodes, MaxEdits <- TreeEdits, MaxFaults <- TreeFaults

G == INSTANCE CostGate WITH
  disk <- gDisk, parser <- gParser, format <- gFormat, reported <- gReported,
  known <- gKnown, leaf <- gLeaf, top <- gTop, marker <- gMarker, pc <- gPc,
  run <- gRun, spent <- gSpent, blind <- gBlind, edits <- gEdits,
  upgrades <- gUpgrades, runs <- gRuns, faults <- gFaults, Files <- Priceable,
  MaxEdits <- GateEdits, MaxFaults <- GateFaults
-----------------------------------------------------------------------------
NoResolving ==
  /\ world = 0 /\ todo = 0 /\ cEdges = 0 /\ external = 0 /\ unresolved = 0
  /\ imported = 0 /\ covered = 0
NoChunking ==
  /\ kDisk = 0 /\ kAway = 0 /\ kGraph = 0 /\ kMarked = 0 /\ kStored = 0
  /\ kLinked = 0 /\ kPc = 0 /\ kAt = 0 /\ kParsed = 0 /\ kUnreadable = 0
  /\ kReady = 0 /\ kFailed = 0 /\ kFaults = 0 /\ kMoves = 0
NoSummarizing ==
  /\ sSource = 0 /\ sStored = 0 /\ sStamped = 0 /\ sPc = 0 /\ sKnown = 0
  /\ sPlan = 0 /\ sDraft = 0 /\ sAttempted = 0 /\ sQueue = 0 /\ sGen = 0
  /\ sDue = 0 /\ sLoose = 0 /\ sEdits = 0 /\ sFaults = 0
NoGating ==
  /\ gDisk = 0 /\ gParser = 0 /\ gFormat = 0 /\ gReported = 0 /\ gKnown = 0
  /\ gLeaf = 0 /\ gTop = 0 /\ gMarker = 0 /\ gPc = 0 /\ gRun = 0 /\ gSpent = 0
  /\ gBlind = 0 /\ gEdits = 0 /\ gUpgrades = 0 /\ gRuns = 0 /\ gFaults = 0

PipelineInit ==
  /\ Init
  /\ \/ stage = "store" /\ NoResolving /\ NoChunking /\ NoSummarizing /\ NoGating
     \/ stage = "calls" /\ C!Init /\ NoChunking /\ NoSummarizing /\ NoGating
     \/ stage = "chunks" /\ K!Init /\ NoResolving /\ NoSummarizing /\ NoGating
     \/ stage = "summaries" /\ T!Init /\ NoResolving /\ NoChunking /\ NoGating
     \/ stage = "gates" /\ G!Init /\ NoResolving /\ NoChunking /\ NoSummarizing

StoringStep ==
  stage = "store" /\ Next /\ UNCHANGED <<stage, others>>
ResolvingStep ==
  stage = "calls" /\ C!Next /\ UNCHANGED <<stage, vars, chunking, summarizing, gating>>
ChunkingStep ==
  stage = "chunks" /\ K!Next /\ UNCHANGED <<stage, vars, resolving, summarizing, gating>>
SummarizingStep ==
  stage = "summaries" /\ T!Next /\ UNCHANGED <<stage, vars, resolving, chunking, gating>>
GatingStep ==
  stage = "gates" /\ G!Next /\ UNCHANGED <<stage, vars, resolving, chunking, summarizing>>
PipelineNext ==
  StoringStep \/ ResolvingStep \/ ChunkingStep \/ SummarizingStep \/ GatingStep
PipelineSpec == PipelineInit /\ [][PipelineNext]_<<stage, vars, others>>
-----------------------------------------------------------------------------
\* Calls: a call is bound to what the language means by it or to nothing, what is
\* noted as external is outside the project, a function without edges and notes
\* calls nothing, and no import of a file is lost.
CallsAreHonest ==
  stage = "calls" => /\ C!NeverGuessed /\ C!ExternalIsOutside
                     /\ C!SilenceIsALeaf /\ C!ImportsAreFound

\* Chunks: a file whose marker agrees with its bytes can be searched whole.
EveryPassageIsFound == stage = "chunks" => K!EveryPassageIsFound

\* SummaryTree: a run leaves no summary behind its children's texts, and none out.
Settled == stage = "summaries" => T!TypeOK /\ T!Settled /\ T!NothingSkipped

\* SummaryTree: what a run pays for the gate was told, and something below it had
\* changed or failed.
PricedAndDue == stage = "summaries" => T!Priced /\ T!PaysForChangesOnly

\* CostGate: a run that saw what it would pay for spends no more than its cap.
WithinCap == stage = "gates" => G!WithinCap
=============================================================================
