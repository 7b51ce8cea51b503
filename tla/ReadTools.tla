------------------------------ MODULE ReadTools ------------------------------
(* The read tools of the MCP server.  They share no state: each call reads the *)
(* store and the disk on its own, so one specification has them together.  The *)
(* initial state picks the tool, and only its component moves.  Freshness is   *)
(* extended, for its own properties to be the tools'; it waits in an initial   *)
(* state while another tool runs.                                              *)
EXTENDS Freshness, Sequences

CONSTANTS
  \* Search
  Mine, Type, Levels, Words, Phrases, Worlds, Pool, Overfetch, MinFetch, Growth,
  Ceiling, MaxProbed, MaxChanges, MaxFaults,
  \* Listing
  StoreRows, Stores, Nobody, Batch, ScanCap, NameScan, Limits, RowRuns,
  \* FindText
  Paths, Versions, Absent, Budget, MaxUnindexed, PageSizes, TextEdits

\* An index is finite; a score is a number up to that of the best match.
ASSUME SearchAssumption ==
  /\ {Pool, Overfetch, MinFetch, Growth, Ceiling} \subseteq Nat
  /\ IsFiniteSet(Words) /\ Levels \cap {"code", "summary", "symbol"} = {}
  /\ \A world \in Worlds :
       /\ world.ask.tool \in {"code", "semantic", "hybrid", "text"}
       /\ world.ask.minScore \in Int /\ world.ask.limit \in Nat /\ world.ask.offset \in Nat
       /\ DOMAIN world.index = {"code", "summary", "symbol"}
       /\ \A i \in DOMAIN world.index :
            /\ IsFiniteSet(world.index[i])
            /\ \A r \in world.index[i] : r.score \in 0..10 /\ r.words \subseteq Words

\* A file of text has a size and lines that match; paths are in order.
ASSUME TextAssumption ==
  /\ Paths \subseteq Nat /\ IsFiniteSet(Paths)
  /\ Versions \subseteq [size : Nat, hits : Nat, binary : BOOLEAN] /\ Absent \notin Versions
  /\ Budget \in Nat /\ MaxUnindexed \in Nat /\ PageSizes \subseteq Nat \ {0}

\* No two rows share a place in path order; a page, a batch and a name's candidates
\* have room for one row at least.
ASSUME RowAssumption ==
  /\ IsFiniteSet(StoreRows) /\ Nobody \notin StoreRows /\ Stores \subseteq SUBSET StoreRows
  /\ \A x \in StoreRows : /\ x.at \in Nat /\ x.scope \in BOOLEAN /\ x.test \in BOOLEAN
                          /\ \A y \in StoreRows : x.at = y.at => x = y
  /\ Batch \in Nat \ {0} /\ NameScan \in Nat \ {0} /\ ScanCap \in Nat
  /\ Limits \subseteq Nat \ {0}

VARIABLES
  tool,
  \* Search
  qIndex, qPresent, qAsk, qPc, qTodo, qFetch, qKept, qFound, qSeen, qShrunk,
  qHits, qAbsent, qRetry, qUnsure, qSkipped, qLag, qChanges, qFaults,
  \* Listing
  lStore, lTool, lAsked, lPc, lOffset, lRaw, lKept, lListed, lCut, lAnswer,
  lFirst, lRuns, lMoved,
  \* FindText
  tDisk, tIndexed, tPc, tLimit, tOffset, tUniverse, tAt, tLeft, tKept, tCounted,
  tSearched, tBinary, tUnreadable, tSkipped, tTimedOut, tPages, tGap, tEdits, tTouched,
  tBase, tBeyond

searching == <<qIndex, qPresent, qAsk, qPc, qTodo, qFetch, qKept, qFound, qSeen,
               qShrunk, qHits, qAbsent, qRetry, qUnsure, qSkipped, qLag, qChanges,
               qFaults>>
listing == <<lStore, lTool, lAsked, lPc, lOffset, lRaw, lKept, lListed, lCut,
             lAnswer, lFirst, lRuns, lMoved>>
finding == <<tDisk, tIndexed, tPc, tLimit, tOffset, tUniverse, tAt, tLeft, tKept,
             tCounted, tSearched, tBinary, tUnreadable, tSkipped, tTimedOut, tPages,
             tGap, tEdits, tTouched, tBase, tBeyond>>
others == <<searching, listing, finding>>
-----------------------------------------------------------------------------
Q == INSTANCE Search WITH
  index <- qIndex, present <- qPresent, ask <- qAsk, pc <- qPc, todo <- qTodo,
  fetch <- qFetch, kept <- qKept, found <- qFound, seen <- qSeen, shrunk <- qShrunk,
  hits <- qHits, absent <- qAbsent, retry <- qRetry, unsure <- qUnsure, skipped <- qSkipped,
  lag <- qLag, changes <- qChanges, faults <- qFaults

L == INSTANCE Listing WITH
  store <- lStore, tool <- lTool, asked <- lAsked, pc <- lPc, offset <- lOffset,
  raw <- lRaw, kept <- lKept, listed <- lListed, cut <- lCut, answer <- lAnswer,
  first <- lFirst, runs <- lRuns, moved <- lMoved, Rows <- StoreRows, MaxRuns <- RowRuns

T == INSTANCE FindText WITH
  disk <- tDisk, indexed <- tIndexed, pc <- tPc, limit <- tLimit, offset <- tOffset,
  universe <- tUniverse, at <- tAt, left <- tLeft, kept <- tKept, counted <- tCounted,
  searched <- tSearched, binary <- tBinary, unreadable <- tUnreadable,
  skipped <- tSkipped, timedOut <- tTimedOut, pages <- tPages, gap <- tGap,
  edits <- tEdits, touched <- tTouched, base <- tBase, beyond <- tBeyond, MaxEdits <- TextEdits
-----------------------------------------------------------------------------
NoSearch ==
  /\ qIndex = 0 /\ qPresent = 0 /\ qAsk = 0 /\ qPc = 0 /\ qTodo = 0 /\ qFetch = 0
  /\ qKept = 0 /\ qFound = 0 /\ qSeen = 0 /\ qShrunk = 0 /\ qHits = 0 /\ qAbsent = 0
  /\ qRetry = 0 /\ qUnsure = 0 /\ qSkipped = 0 /\ qLag = 0 /\ qChanges = 0 /\ qFaults = 0
NoListing ==
  /\ lStore = 0 /\ lTool = 0 /\ lAsked = 0 /\ lPc = 0 /\ lOffset = 0 /\ lRaw = 0
  /\ lKept = 0 /\ lListed = 0 /\ lCut = 0 /\ lAnswer = 0 /\ lFirst = 0 /\ lRuns = 0
  /\ lMoved = 0
NoFinding ==
  /\ tDisk = 0 /\ tIndexed = 0 /\ tPc = 0 /\ tLimit = 0 /\ tOffset = 0 /\ tUniverse = 0
  /\ tAt = 0 /\ tLeft = 0 /\ tKept = 0 /\ tCounted = 0 /\ tSearched = 0 /\ tBinary = 0
  /\ tUnreadable = 0 /\ tSkipped = 0 /\ tTimedOut = 0 /\ tPages = 0 /\ tEdits = 0
  /\ tTouched = 0 /\ tBase = 0 /\ tGap = 0 /\ tBeyond = 0
Waiting == Init /\ head = (CHOOSE c \in Commits : TRUE) /\ ~matched

ReadInit ==
  \/ tool = "freshness" /\ Init /\ NoSearch /\ NoListing /\ NoFinding
  \/ tool = "search" /\ Q!Init /\ NoListing /\ NoFinding /\ Waiting
  \/ tool = "list" /\ L!Init /\ NoSearch /\ NoFinding /\ Waiting
  \/ tool = "find_text" /\ T!Init /\ NoSearch /\ NoListing /\ Waiting

FreshnessStep == tool = "freshness" /\ Next /\ UNCHANGED <<tool, others>>
SearchStep == tool = "search" /\ Q!Next /\ UNCHANGED <<tool, vars, listing, finding>>
ListStep == tool = "list" /\ L!Next /\ UNCHANGED <<tool, vars, searching, finding>>
FindStep == tool = "find_text" /\ T!Next /\ UNCHANGED <<tool, vars, searching, listing>>
ReadNext == FreshnessStep \/ SearchStep \/ ListStep \/ FindStep
ReadSpec == ReadInit /\ [][ReadNext]_<<tool, vars, others>>
-----------------------------------------------------------------------------
\* Search: an answer not marked truncated ranks the project's best entities.
PageIsTheBest == tool = "search" => Q!PageIsTheBest

\* Search: unmatched_terms names a word exactly when the project does not have it.
AbsenceIsTrue == tool = "search" => Q!AbsenceIsTrue

\* Listing: a walk along next_offset misses no row that was there throughout, and a
\* name resolves to the one entity that nothing else fits as well as.
ListingIsWhole == tool = "list" => L!WalkIsComplete /\ L!NameIsTheOne

\* Listing: the same of a name while rows go (tools/graph.py: "Ambiguity is never
\* resolved by picking the first match").  It fails: the narrowing scan awaits each
\* batch, and skips a row when one before it is removed.
NameIsNeverPicked == tool = "list" => L!NameIsNoPick

\* FindText: every file read is accounted for once, and a walk through the pages of a
\* scan that says nothing was left out yields every matching line once, in order.
CensusIsExact == tool = "find_text" => T!CensusIsExact /\ T!WalkIsACensus
=============================================================================
