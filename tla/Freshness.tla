----------------------------- MODULE Freshness -----------------------------
(* What a read tool's answer says about its own age (tools/freshness.py,     *)
(* tools/gates.py, tools/coverage.py and the callers in tools/graph.py,      *)
(* find.py and search.py), while the checkout is edited, merged and switched *)
(* under it and an index run moves the stored rows between its reads.        *)
(*                                                                           *)
(* The bytes of a file, the rows parsed from them and their checksum are     *)
(* named by one number; 0 is no file, no rows, no checksum.  What a run does *)
(* inside its steps is IndexRun's: here it scans the whole tree at one       *)
(* moment, and writes rows, checksums and the commit it matched in that      *)
(* order.                                                                    *)
EXTENDS Integers, FiniteSets

CONSTANTS
  Files,      \* the admitted files of the checkout
  Dir,        \* [Files -> directories]
  Root,       \* the directory every project node names
  Contents,   \* the bytes a file may have, a set of positive numbers
  Commits,    \* the commits the checkout may be at
  Tree,       \* [Commits -> [Files -> Contents \cup {0}]]
  NoCommit,   \* HEAD could not be read, or was never recorded
  CacheMax,   \* _DRIFT_CACHE_MAX
  DirMax,     \* COVERAGE_MAX_DIRS
  MaxSaves, MaxMoves, MaxRuns, MaxReads   \* bounds of the environment

VARIABLES
  disk, head,           \* the checkout and its commit
  rows, ck, indexedHead,\* the stored rows, checksums and commit
  run,                  \* the index run under way
  cache,                \* _drift_cache of the server process
  reader,               \* the tool call under way
  saved,                \* history: files edited by hand, until their commit is indexed
  matched,              \* history: the stamp is of the commit the checksums are of
  reverted,             \* history: files put back to a checksum whose rows moved on
  saves, moves, runs, reads

checkout == <<disk, head>>
store == <<rows, ck, indexedHead>>
history == <<saved, matched, reverted>>
bounds == <<saves, moves, runs, reads>>
vars == <<checkout, store, run, cache, reader, history, bounds>>

NoFiles == [f \in Files |-> 0]
NoRun == [pc |-> "idle", snapshot |-> NoFiles, at |-> NoCommit]

\* The locals of a tool call; page, flagged and the meta block's unknown are what it
\* answers with.  The last two lines are history: the store changed between two of
\* its reads (rowsMoved, factsMoved), the checkout moved while the call hashed
\* (moved), its answer is a cached one measured over such a move (tainted), and
\* files edited by hand when they were hashed (edited).
NoCall == [pc |-> "idle", query |-> {}, page |-> NoFiles, stored |-> NoFiles,
           indexedHead |-> NoCommit, head |-> NoCommit, scanned |-> {},
           differs |-> FALSE, drift |-> FALSE, flagged |-> {}, unknown |-> {},
           uncovered |-> {}, capped |-> FALSE,
           behind |-> {}, matched |-> FALSE, disk |-> NoFiles, rows |-> NoFiles,
           rowsMoved |-> FALSE, factsMoved |-> FALSE, moved |-> FALSE,
           tainted |-> FALSE, edited |-> {}]

Stored(facts) == {f \in Files : facts[f] # 0}

\* A clean checkout, not indexed yet or as the run before left it.
Init ==
  /\ head \in Commits /\ disk = Tree[head]
  /\ matched \in BOOLEAN
  /\ rows = IF matched THEN disk ELSE NoFiles
  /\ ck = rows
  /\ indexedHead = IF matched THEN head ELSE NoCommit
  /\ run = NoRun /\ cache = {} /\ reader = NoCall
  /\ saved = {} /\ reverted = {}
  /\ saves = 0 /\ moves = 0 /\ runs = 0 /\ reads = 0

-----------------------------------------------------------------------------
(* The checkout.                                                             *)

\* Files put back to the checksum that is stored, when their rows have moved on or
\* a run is about to move them, or to the one a call has read.
Reverting(now) ==
  {f \in Files : /\ now[f] # disk[f]
                 /\ \/ now[f] = ck[f] /\ (rows[f] # ck[f] \/ run.pc = "rows")
                    \/ now[f] = reader.stored[f]}

Save(f) ==
  /\ saves < MaxSaves
  /\ \E c \in (Contents \cup {0}) \ {disk[f]} :
       /\ disk' = [disk EXCEPT ![f] = c]
       /\ reverted' = reverted \cup Reverting(disk')
  /\ saved' = saved \cup {f}
  /\ saves' = saves + 1
  /\ UNCHANGED <<head, store, run, cache, reader, matched, moves, runs, reads>>

\* A checkout, merge or rebase keeps edits in files the two commits agree on.
\* One that commits what is on disk changes no file.
Move(c) ==
  /\ moves < MaxMoves /\ c # head
  /\ \/ disk = Tree[c] /\ disk' = disk
     \/ /\ \A f \in Files : disk[f] # Tree[head][f] => Tree[c][f] = Tree[head][f]
        /\ disk' = [f \in Files |-> IF disk[f] = Tree[head][f] THEN Tree[c][f] ELSE disk[f]]
  /\ head' = c
  /\ reverted' = reverted \cup Reverting(disk')
  /\ reader' = [reader EXCEPT !.moved = @ \/ reader.pc = "hash"]
  /\ moves' = moves + 1
  /\ UNCHANGED <<store, run, cache, saved, matched, saves, runs, reads>>

-----------------------------------------------------------------------------
(* An index run.                                                             *)

\* The tool call notices nothing of a write; its history does.
Disturbed == [reader EXCEPT !.rowsMoved = @ \/ reader.pc = "facts",
                            !.factsMoved = @ \/ reader.pc \in {"stamp", "measure", "hash"}]

\* A run that finds nothing to do stamps the commit all the same, unless a
\* watcher's flush asked for it.
Scan ==
  /\ run.pc = "idle" /\ runs < MaxRuns
  /\ run' = [pc |-> IF ck = disk THEN "head" ELSE "rows", snapshot |-> disk, at |-> head]
  /\ runs' = runs + 1
  /\ UNCHANGED <<checkout, store, cache, reader, history, saves, moves, reads>>

WriteRows ==
  /\ run.pc = "rows"
  /\ rows' = [f \in Files |-> IF run.snapshot[f] = 0 /\ disk[f] # 0 THEN rows[f]
                              ELSE run.snapshot[f]]
  /\ ck' = [f \in Files |-> IF rows'[f] = 0 THEN 0 ELSE ck[f]]
  /\ run' = [run EXCEPT !.pc = "checksums"]
  /\ reader' = Disturbed
  /\ UNCHANGED <<checkout, indexedHead, cache, history, bounds>>

WriteChecksums ==
  /\ run.pc = "checksums"
  /\ ck' = [f \in Files |-> IF run.snapshot[f] = 0 THEN ck[f] ELSE run.snapshot[f]]
  /\ matched' = FALSE
  /\ run' = [run EXCEPT !.pc = "head"]
  /\ reader' = Disturbed
  /\ UNCHANGED <<checkout, rows, indexedHead, cache, saved, reverted, bounds>>

\* _stamp_indexed_head: the commit of this moment, which is not always the one
\* that was scanned.
StampHead ==
  /\ run.pc = "head"
  /\ indexedHead' = head
  /\ matched' = (head = run.at /\ \A f \in Stored(ck) : ck[f] = run.snapshot[f])
  /\ saved' = saved \ {f \in Files : disk[f] = ck[f] /\ ck[f] = Tree[head][f]}
  /\ run' = NoRun
  /\ reader' = Disturbed
  /\ UNCHANGED <<checkout, rows, ck, cache, reverted, bounds>>

\* The run dies, or a flush ends without work.
Die ==
  /\ run.pc # "idle"
  /\ run' = NoRun
  /\ UNCHANGED <<checkout, store, cache, reader, history, bounds>>

-----------------------------------------------------------------------------
(* A tool call.                                                              *)

\* ensure_indexed: without an index there is an error and no page.
Gate ==
  /\ reader.pc = "idle" /\ reads < MaxReads
  /\ Stored(rows) # {}
  /\ \E query \in SUBSET Files \ {{}} :
       reader' = [NoCall EXCEPT !.pc = "rows", !.query = query]
  /\ reads' = reads + 1
  /\ UNCHANGED <<checkout, store, run, cache, history, saves, moves, runs>>

\* The graph or vector query.
ReadRows ==
  /\ reader.pc = "rows"
  /\ reader' = [reader EXCEPT !.pc = "facts", !.rows = rows,
                  !.page = [f \in Files |-> IF f \in reader.query THEN rows[f] ELSE 0]]
  /\ UNCHANGED <<checkout, store, run, cache, history, bounds>>

\* build_checker: get_checksums, then get_indexed_head.
ReadChecksums ==
  /\ reader.pc = "facts"
  /\ reader' = [reader EXCEPT !.pc = "stamp", !.stored = ck]
  /\ UNCHANGED <<checkout, store, run, cache, history, bounds>>

ReadStamp ==
  /\ reader.pc = "stamp"
  /\ reader' = [reader EXCEPT !.pc = "measure", !.indexedHead = indexedHead]
  /\ UNCHANGED <<checkout, store, run, cache, history, bounds>>

\* Mutant: the key leaves out what the index holds.
KeyOfHeads(current) == <<current, reader.indexedHead, NoFiles>>

\* The key of _drift_cache: it holds a digest of the stored checksums.
DriftKey(current) == <<current, reader.indexedHead, reader.stored>>

Cached(key) == {entry \in cache : entry.key = key}

\* A full cache is emptied; a partial measurement is not kept.
Remember(entry, partial) ==
  IF partial THEN cache
  ELSE (IF Cardinality(cache) >= CacheMax THEN {} ELSE cache) \cup {entry}

\* The call as a measurement leaves it: said is whether its page speaks of drift.
\* History: what is behind the disk at that moment, of files not edited by hand.
Measured(call, said, edited, tainted) ==
  [call EXCEPT !.pc = "annotate", !.drift = said, !.tainted = tainted, !.matched = matched,
               !.behind = {f \in Stored(ck) \ edited : disk[f] # ck[f]}]

\* measure_drift reads HEAD and has nothing to say without a recorded or a readable
\* commit, nor at the same one; else the cached answer says it, or the hash begins.
ReadHead ==
  /\ reader.pc = "measure"
  /\ \E current \in {head, NoCommit} :
       LET call == [reader EXCEPT !.head = current]
           known == Cached(DriftKey(current))
       IN \/ /\ NoCommit \in {current, reader.indexedHead} \/ current = reader.indexedHead
             /\ reader' = Measured(call, FALSE, saved, FALSE)
          \/ /\ NoCommit \notin {current, reader.indexedHead} /\ current # reader.indexedHead
             /\ IF known = {} THEN reader' = [call EXCEPT !.pc = "hash"]
                ELSE \E entry \in known :
                       reader' = Measured(call, entry.differs, saved \cup entry.edited, entry.moved)
  /\ UNCHANGED <<checkout, store, run, cache, history, bounds>>

\* One stored file in the worker thread, while the checkout goes on.  One that
\* cannot be read differs as well.
HashFile(f) ==
  /\ reader.pc = "hash" /\ f \in Stored(reader.stored) \ reader.scanned
  /\ \E unreadable \in BOOLEAN :
       reader' = [reader EXCEPT !.scanned = @ \cup {f}, !.edited = @ \cup saved,
                                !.differs = @ \/ unreadable \/ disk[f] # reader.stored[f]]
  /\ UNCHANGED <<checkout, store, run, cache, history, bounds>>

\* Every file hashed, or the time up.  The measurement is kept under the commit that
\* was read before it.
EndHash ==
  /\ reader.pc = "hash"
  /\ LET partial == reader.scanned # Stored(reader.stored)
         entry == [key |-> DriftKey(reader.head), differs |-> reader.differs,
                   edited |-> reader.edited, moved |-> reader.moved]
     IN /\ reader' = Measured(reader, reader.differs \/ partial, saved \cup reader.edited, FALSE)
        /\ cache' = Remember(entry, partial)
  /\ UNCHANGED <<checkout, store, run, history, bounds>>

\* Mutant: a file that is there is taken for the one that was indexed.
Presence(f, unreadable) ==
  IF reader.stored[f] = 0 \/ f \in unreadable THEN "unknown"
  ELSE IF disk[f] = 0 THEN "missing" ELSE "fresh"

\* FreshnessChecker._compute: nothing stored, or a file that cannot be looked at, is
\* not judged.
Status(f, unreadable) ==
  IF reader.stored[f] = 0 \/ f \in unreadable THEN "unknown"
  ELSE IF disk[f] = reader.stored[f] THEN "fresh"
  ELSE IF disk[f] = 0 THEN "missing"
  ELSE "stale"

\* annotate_items and stamp: an entity of a stale or a missing file is flagged, an
\* unknown file is named in the meta block alone.
Annotate ==
  /\ reader.pc = "annotate"
  /\ \E unreadable \in SUBSET Stored(reader.page) :
       LET having(judged) == {f \in Stored(reader.page) : Status(f, unreadable) \in judged}
       IN reader' = [reader EXCEPT
                       !.pc = IF Stored(reader.page) = {} THEN "coverage" ELSE "done",
                       !.flagged = having({"stale", "missing"}), !.unknown = having({"unknown"}),
                       !.disk = disk]
  /\ UNCHANGED <<checkout, store, run, cache, history, bounds>>

\* The directories scan_uncovered knows: those of the indexed files, and the root.
KnownDirs == {Root} \cup {Dir[f] : f \in Stored(reader.stored)}

\* What is on disk in the directories it opens and not indexed.
Uncovered(opened) ==
  {f \in Files : disk[f] # 0 /\ Dir[f] \in opened /\ reader.stored[f] = 0}

\* note_coverage, for an empty first page: as many directories as the bound allows.
NoteCoverage ==
  /\ reader.pc = "coverage"
  /\ \E opened \in SUBSET KnownDirs :
       /\ Cardinality(opened) = IF Cardinality(KnownDirs) < DirMax
                                THEN Cardinality(KnownDirs) ELSE DirMax
       /\ reader' = [reader EXCEPT !.pc = "done", !.disk = disk,
                       !.capped = opened # KnownDirs,
                       !.uncovered = Uncovered(opened)]
  /\ UNCHANGED <<checkout, store, run, cache, history, bounds>>

Answer ==
  /\ reader.pc = "done"
  /\ reader' = NoCall
  /\ UNCHANGED <<checkout, store, run, cache, history, bounds>>

Next ==
  \/ \E f \in Files : Save(f)
  \/ \E c \in Commits : Move(c)
  \/ Scan \/ WriteRows \/ WriteChecksums \/ StampHead \/ Die
  \/ Gate \/ ReadRows \/ ReadChecksums \/ ReadStamp
  \/ ReadHead \/ (\E f \in Files : HashFile(f)) \/ EndHash
  \/ Annotate \/ NoteCoverage \/ Answer

Spec == Init /\ [][Next]_vars
-----------------------------------------------------------------------------
(* Properties.                                                               *)

\* An entity that carries no flag, of a file the meta block does not list as unknown,
\* was read from rows of the bytes that are on disk ("everything unflagged is
\* fresh"): the rows were stored before their checksum, and the file was hashed
\* afterwards.  Excused are calls that straddle a run's writes (the rows are read
\* first, the checksums last) and files put back under a run or a call, or after a
\* run that died.
UnflaggedIsFresh ==
  reader.pc = "done" /\ ~reader.rowsMoved =>
    \A f \in Stored(reader.page) \ (reader.flagged \cup reader.unknown \cup reverted) :
      reader.page[f] = reader.disk[f]

\* A call that could read both commits, says nothing of drift, and saw the checkout,
\* the stamp and the checksums stand still from its first read of them on.
Silent ==
  /\ reader.pc = "annotate" /\ reader.matched
  /\ ~reader.rowsMoved /\ ~reader.factsMoved /\ ~reader.moved
  /\ NoCommit \notin {reader.head, reader.indexedHead} /\ ~reader.drift

\* A checkout that moved on without the index is never passed over: a silent call had
\* only files behind that were edited by hand, which the flags of their pages cover.
\* Excused are calls that straddle a run or a checkout, stamps of a commit other than
\* the one indexed, edits on disk when a measurement was cached or indexed but not
\* committed, and answers cached by a measurement the checkout moved under.
DriftIsSaid == Silent /\ ~reader.tainted => reader.behind = {}

\* The same of every cached answer, as measure_drift claims (freshness.py:306-307: "the
\* re-hash is what makes the claim exact").  It fails: a checkout away and back
\* while the files are hashed leaves a count of the other commit under this one's key.
DriftIsExact == Silent => reader.behind = {}

\* An empty page that is said to be no coverage gap is none (INV-7): nothing
\* asked for was on disk, in a directory the index knows, and not in its rows.
EmptyIsExplained ==
  /\ reader.pc = "done" /\ Stored(reader.page) = {} /\ ~reader.rowsMoved
  /\ reader.uncovered = {} /\ ~reader.capped
  => \A f \in reader.query :
       reader.disk[f] # 0 /\ (Dir[f] = Root \/ \E g \in Stored(reader.stored) : Dir[g] = Dir[f])
         => reader.rows[f] # 0

\* What an answer does not flag is as it says: unflagged entities are fresh, and an
\* empty page without a coverage note is no gap.
AnswersAreFresh == UnflaggedIsFresh /\ EmptyIsExplained
=============================================================================
