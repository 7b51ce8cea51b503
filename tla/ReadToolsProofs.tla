---------------------------- MODULE ReadToolsProofs ----------------------------
(***************************************************************************)
(* What the read tools answer, for any store, disk, checkout and page      *)
(* size, and any number of edits, index runs and calls (the instance of    *)
(* module MCReadTools has two or three of each): how fresh an answer says  *)
(* it is, what a walk of find_text has read and found, what a walk of the  *)
(* listing tools has listed, which entity a name resolves to, which hits a *)
(* search ranks and which words it says match nothing.                     *)
(***************************************************************************)
EXTENDS ReadTools, FunctionTheorems, FiniteSetTheorems, SequenceTheorems, TLAPS

\* A checkout: each commit gives each file its bytes or none, and no commit is
\* taken for the one that could not be read.
Checkout == Tree \in [Commits -> [Files -> Contents \cup {0}]] /\ NoCommit \notin Commits

-----------------------------------------------------------------------------
(* The invariant.                                                          *)

Bytes == Contents \cup {0}
Facts == [Files -> Bytes]

\* The locals of a call, by type.
Calls ==
  [pc : {"idle", "rows", "facts", "stamp", "measure", "hash", "annotate", "coverage", "done"},
   query : SUBSET Files, page : Facts, stored : Facts,
   indexedHead : Commits \cup {NoCommit}, head : Commits \cup {NoCommit},
   scanned : SUBSET Files, differs : BOOLEAN, drift : BOOLEAN,
   flagged : SUBSET Files, unknown : SUBSET Files, uncovered : SUBSET Files,
   capped : BOOLEAN, behind : SUBSET Files, matched : BOOLEAN,
   disk : Facts, rows : Facts, rowsMoved : BOOLEAN, factsMoved : BOOLEAN,
   moved : BOOLEAN, tainted : BOOLEAN, edited : SUBSET Files]

\* A cached measurement.
Entries == [key : Commits \X Commits \X Facts, differs : BOOLEAN, edited : SUBSET Files,
            moved : BOOLEAN]

\* Every variable keeps its type.
Types ==
  /\ head \in Commits /\ disk \in Facts /\ rows \in Facts /\ ck \in Facts
  /\ indexedHead \in Commits \cup {NoCommit}
  /\ run \in [pc : {"idle", "rows", "checksums", "head"}, snapshot : Facts,
              at : Commits \cup {NoCommit}]
  /\ saved \subseteq Files /\ reverted \subseteq Files /\ matched \in BOOLEAN
  /\ cache \subseteq Entries
  /\ reader \in Calls

\* Rows are stored before their checksum and go with it: a file that hashes to its
\* checksum has the rows of those bytes, unless it was put back.
RowsLead ==
  /\ \A f \in Files : rows[f] = 0 => ck[f] = 0
  /\ \A f \in Files \ reverted : ck[f] # 0 /\ disk[f] = ck[f] => rows[f] = ck[f]
  /\ run.pc = "rows" =>
       \A f \in Files \ reverted : disk[f] = ck[f] => run.snapshot[f] = ck[f]
  /\ run.pc = "checksums" =>
       \A f \in Files : run.snapshot[f] # 0 => rows[f] = run.snapshot[f]

\* The page is of the rows that were read; and between the facts and the flags, so
\* is a file that hashes to the checksum that was read.
PageLeads ==
  /\ reader.pc \notin {"idle", "rows"} =>
       reader.page = [f \in Files |-> IF f \in reader.query THEN reader.rows[f] ELSE 0]
  /\ reader.pc = "facts" /\ ~reader.rowsMoved => reader.rows = rows
  /\ reader.pc \in {"stamp", "measure", "hash", "annotate"} /\ ~reader.rowsMoved =>
       \A f \in Files \ reverted :
         reader.page[f] # 0 /\ reader.stored[f] # 0 /\ disk[f] = reader.stored[f] =>
           reader.page[f] = reader.stored[f]
  /\ reader.pc \in {"stamp", "measure", "hash", "annotate", "coverage"} /\ ~reader.rowsMoved =>
       \A f \in Files : reader.rows[f] = 0 => reader.stored[f] = 0
  /\ reader.pc = "coverage" => Stored(reader.page) = {}

\* What nobody edited by hand is the commit's: on disk, in a scan, in the checksums
\* of a stamp that matches them, and in a cached measurement that found no drift
\* while the checkout stood still.
Committed ==
  /\ \A f \in Files \ saved : disk[f] = Tree[head][f]
  /\ run.pc # "idle" =>
       run.at \in Commits /\ \A f \in Files \ saved : run.snapshot[f] = Tree[run.at][f]
  /\ matched =>
       /\ indexedHead \in Commits
       /\ \A f \in Files \ saved : ck[f] # 0 => ck[f] = Tree[indexedHead][f]
  /\ \A entry \in cache : ~entry.differs /\ ~entry.moved =>
       \A f \in Files \ entry.edited :
         entry.key[3][f] # 0 => entry.key[3][f] = Tree[entry.key[1]][f]

\* A measurement is of two commits.  Until the checkout moves, the first is HEAD, and
\* a file that hashed to its checksum and that nobody had edited is of it.
Hashing ==
  /\ reader.pc \in {"rows", "facts", "stamp", "measure"} => reader.scanned = {}
  /\ reader.pc = "hash" =>
       /\ reader.head \in Commits /\ reader.indexedHead \in Commits
       /\ ~reader.moved => reader.head = head
       /\ ~reader.moved /\ ~reader.differs =>
            \A f \in reader.scanned \ reader.edited : reader.stored[f] = Tree[reader.head][f]

\* A call no run disturbed measures by the facts of the moment.
FactsStand ==
  /\ reader.pc \in {"stamp", "measure", "hash"} /\ ~reader.factsMoved => reader.stored = ck
  /\ reader.pc \in {"measure", "hash"} /\ ~reader.factsMoved => reader.indexedHead = indexedHead

\* The invariant of a checkout, its index and a call.
FreshInv ==
  /\ Types /\ RowsLead /\ PageLeads /\ Committed /\ Hashing /\ FactsStand
  /\ UnflaggedIsFresh /\ EmptyIsExplained /\ DriftIsSaid

-----------------------------------------------------------------------------
(* Every step keeps it.                                                    *)

\* What a write of a run leaves in the call.
LEMMA DisturbedCall ==
  ASSUME Types
  PROVE  Disturbed \in Calls
<1>1. ASSUME NEW r \in Calls, NEW a \in BOOLEAN, NEW b \in BOOLEAN
      PROVE  [r EXCEPT !.rowsMoved = a, !.factsMoved = b] \in Calls
  BY DEF Calls
<1>2. (reader.rowsMoved \/ reader.pc = "facts") \in BOOLEAN
      /\ (reader.factsMoved \/ reader.pc \in {"stamp", "measure", "hash"}) \in BOOLEAN
  OBVIOUS
<1>3. QED
  BY <1>1, <1>2 DEF Types, Disturbed

\* The steps of a measurement
Measure == ReadHead \/ (\E f \in Files : HashFile(f)) \/ EndHash

\* are these: HEAD is read, and answers by itself or with what the cache has of it,
LEMMA HeadIsRead ==
  ASSUME Types, ReadHead
  PROVE  /\ reader.pc = "measure" /\ cache' = cache
         /\ UNCHANGED <<checkout, store, run, history, bounds>>
         /\ \E current \in {head, NoCommit} :
              \/ \E said \in BOOLEAN, edited \in SUBSET Files, tainted \in BOOLEAN :
                   /\ reader' = Measured([reader EXCEPT !.head = current], said, edited, tainted)
                   /\ \/ /\ NoCommit \in {current, reader.indexedHead}
                            \/ current = reader.indexedHead
                         /\ edited = saved
                      \/ \E entry \in cache :
                           /\ entry.key = DriftKey(current) /\ said = entry.differs
                           /\ tainted = entry.moved /\ edited = saved \cup entry.edited
              \/ /\ NoCommit \notin {current, reader.indexedHead}
                 /\ reader' = [reader EXCEPT !.head = current, !.pc = "hash"]
<1>1. PICK current \in {head, NoCommit} :
        LET call == [reader EXCEPT !.head = current]
            known == Cached(DriftKey(current))
        IN \/ /\ NoCommit \in {current, reader.indexedHead} \/ current = reader.indexedHead
              /\ reader' = Measured(call, FALSE, saved, FALSE)
           \/ /\ NoCommit \notin {current, reader.indexedHead} /\ current # reader.indexedHead
              /\ IF known = {} THEN reader' = [call EXCEPT !.pc = "hash"]
                 ELSE \E entry \in known :
                        reader' = Measured(call, entry.differs, saved \cup entry.edited, entry.moved)
  BY DEF ReadHead
<1> DEFINE call == [reader EXCEPT !.head = current]
           known == Cached(DriftKey(current))
<1>2. CASE /\ NoCommit \in {current, reader.indexedHead} \/ current = reader.indexedHead
           /\ reader' = Measured(call, FALSE, saved, FALSE)
  <2>1. saved \in SUBSET Files
    BY DEF Types
  <2> QED
    BY <1>2, <2>1 DEF ReadHead
<1>3. CASE /\ NoCommit \notin {current, reader.indexedHead} /\ known = {}
           /\ reader' = [call EXCEPT !.pc = "hash"]
  <2>1. reader' = [reader EXCEPT !.head = current, !.pc = "hash"]
    BY <1>3 DEF Types, Calls
  <2> QED
    BY <1>3, <2>1 DEF ReadHead
<1>4. ASSUME NEW entry \in known,
             reader' = Measured(call, entry.differs, saved \cup entry.edited, entry.moved)
      PROVE  \E said \in BOOLEAN, edited \in SUBSET Files, tainted \in BOOLEAN :
               /\ reader' = Measured(call, said, edited, tainted)
               /\ \E e \in cache : /\ e.key = DriftKey(current) /\ said = e.differs
                                   /\ tainted = e.moved /\ edited = saved \cup e.edited
  <2>1. entry \in cache /\ entry.key = DriftKey(current)
    BY DEF Cached
  <2>2. entry.differs \in BOOLEAN /\ entry.moved \in BOOLEAN
        /\ saved \cup entry.edited \in SUBSET Files
    BY <2>1 DEF Types, Entries
  <2> QED
    BY <1>4, <2>1, <2>2
<1> HIDE DEF call, known
<1>5. \/ \E entry \in known :
           reader' = Measured(call, entry.differs, saved \cup entry.edited, entry.moved)
      \/ /\ NoCommit \in {current, reader.indexedHead} \/ current = reader.indexedHead
         /\ reader' = Measured(call, FALSE, saved, FALSE)
      \/ /\ NoCommit \notin {current, reader.indexedHead} /\ known = {}
         /\ reader' = [call EXCEPT !.pc = "hash"]
  BY <1>1 DEF call, known
<1>6. call = [reader EXCEPT !.head = current]
  BY DEF call
<1>7. reader.pc = "measure" /\ UNCHANGED <<checkout, store, run, cache, history, bounds>>
  BY DEF ReadHead
<1> QED
  BY <1>2, <1>3, <1>4, <1>5, <1>6, <1>7

\* and the hash ends, kept or not.
LEMMA HashIsEnded ==
  ASSUME Types, Hashing, EndHash
  PROVE  /\ reader.pc = "hash"
         /\ UNCHANGED <<checkout, store, run, history, bounds>>
         /\ \E entry \in Entries, partial \in BOOLEAN :
              /\ entry.key = DriftKey(reader.head) /\ entry.differs = reader.differs
              /\ entry.edited = reader.edited /\ entry.moved = reader.moved
              /\ partial = (reader.scanned # Stored(reader.stored))
              /\ reader' = Measured(reader, reader.differs \/ partial,
                                    saved \cup reader.edited, FALSE)
              /\ cache' \subseteq cache \cup (IF partial THEN {} ELSE {entry})
<1> DEFINE entry == [key |-> DriftKey(reader.head), differs |-> reader.differs,
                     edited |-> reader.edited, moved |-> reader.moved]
           partial == reader.scanned # Stored(reader.stored)
<1>1. /\ reader.pc = "hash" /\ UNCHANGED <<checkout, store, run, history, bounds>>
      /\ reader' = Measured(reader, reader.differs \/ partial, saved \cup reader.edited, FALSE)
      /\ cache' = Remember(entry, partial)
  BY DEF EndHash
<1>2. entry \in Entries
  BY <1>1 DEF DriftKey, Types, Calls, Entries, Hashing
<1>3. cache' \subseteq cache \cup (IF partial THEN {} ELSE {entry})
  BY <1>1 DEF Remember
<1>4. /\ entry.key = DriftKey(reader.head) /\ entry.differs = reader.differs
      /\ entry.edited = reader.edited /\ entry.moved = reader.moved
  OBVIOUS
<1> HIDE DEF entry
<1> QED
  BY <1>1, <1>2, <1>3, <1>4

\* What a measurement ends with is a call.
LEMMA MeasuredCall ==
  ASSUME Types, NEW call \in Calls, NEW said \in BOOLEAN, NEW edited, NEW tainted \in BOOLEAN
  PROVE  Measured(call, said, edited, tainted) \in Calls
<1>1. {f \in Stored(ck) \ edited : disk[f] # ck[f]} \in SUBSET Files /\ matched \in BOOLEAN
  BY DEF Stored, Types
<1> QED
  BY <1>1 DEF Measured, Calls

\* and it keeps what the call read before.
LEMMA MeasuredKeeps ==
  ASSUME NEW call \in Calls, NEW said, NEW edited, NEW tainted,
         NEW after, after = Measured(call, said, edited, tainted)
  PROVE  /\ after.pc = "annotate" /\ after.query = call.query /\ after.page = call.page
         /\ after.stored = call.stored /\ after.rows = call.rows
         /\ after.rowsMoved = call.rowsMoved /\ after.factsMoved = call.factsMoved
         /\ after.indexedHead = call.indexedHead /\ after.moved = call.moved
BY DEF Measured, Calls

\* A measurement reads nothing of the page.
LEMMA MeasureFrame ==
  ASSUME Types, Measure
  PROVE  /\ UNCHANGED <<checkout, store, run, history, bounds>>
         /\ reader.pc \in {"measure", "hash"} /\ reader'.pc \in {"hash", "annotate"}
         /\ reader'.query = reader.query /\ reader'.page = reader.page
         /\ reader'.stored = reader.stored /\ reader'.rows = reader.rows
         /\ reader'.rowsMoved = reader.rowsMoved /\ reader'.factsMoved = reader.factsMoved
         /\ reader'.indexedHead = reader.indexedHead /\ reader'.moved = reader.moved
         /\ reader' \in Calls
<1>1. CASE ReadHead
  <2>1. PICK current \in {head, NoCommit} :
          \/ \E said \in BOOLEAN, edited \in SUBSET Files, tainted \in BOOLEAN :
               reader' = Measured([reader EXCEPT !.head = current], said, edited, tainted)
          \/ reader' = [reader EXCEPT !.head = current, !.pc = "hash"]
    BY <1>1, HeadIsRead
  <2>2. [reader EXCEPT !.head = current] \in Calls
    BY DEF Types, Calls
  <2>3. CASE reader' = [reader EXCEPT !.head = current, !.pc = "hash"]
    BY <1>1, <2>3 DEF ReadHead, Types, Calls
  <2>4. ASSUME NEW said \in BOOLEAN, NEW edited \in SUBSET Files, NEW tainted \in BOOLEAN,
               reader' = Measured([reader EXCEPT !.head = current], said, edited, tainted)
        PROVE  /\ reader'.pc = "annotate"
               /\ reader'.query = reader.query /\ reader'.page = reader.page
               /\ reader'.stored = reader.stored /\ reader'.rows = reader.rows
               /\ reader'.rowsMoved = reader.rowsMoved /\ reader'.factsMoved = reader.factsMoved
               /\ reader'.indexedHead = reader.indexedHead /\ reader'.moved = reader.moved
               /\ reader' \in Calls
    <3>1. reader' \in Calls
      BY <2>2, <2>4, MeasuredCall
    <3> DEFINE call == [reader EXCEPT !.head = current]
    <3>2. /\ call.query = reader.query /\ call.page = reader.page
          /\ call.stored = reader.stored /\ call.rows = reader.rows
          /\ call.rowsMoved = reader.rowsMoved /\ call.factsMoved = reader.factsMoved
          /\ call.indexedHead = reader.indexedHead /\ call.moved = reader.moved
      BY DEF Types, Calls
    <3>3. call \in Calls /\ reader' = Measured(call, said, edited, tainted)
      BY <2>2, <2>4
    <3> HIDE DEF call
    <3> QED
      BY <3>1, <3>2, <3>3, MeasuredKeeps
  <2> QED
    BY <1>1, <2>1, <2>3, <2>4 DEF ReadHead
<1>2. CASE \E f \in Files : HashFile(f)
  <2>1. PICK f \in Files : HashFile(f)
    BY <1>2
  <2>2. PICK unreadable \in BOOLEAN :
          reader' = [reader EXCEPT !.scanned = @ \cup {f}, !.edited = @ \cup saved,
                       !.differs = @ \/ unreadable \/ disk[f] # reader.stored[f]]
    BY <2>1 DEF HashFile
  <2>3. reader' \in Calls
    BY <2>2 DEF Types, Calls
  <2> QED
    BY <2>1, <2>2, <2>3 DEF HashFile, Types, Calls
<1>3. CASE EndHash
  <2>1. /\ reader.pc = "hash" /\ UNCHANGED <<checkout, store, run, history, bounds>>
        /\ reader' = Measured(reader, reader.differs \/ reader.scanned # Stored(reader.stored),
                              saved \cup reader.edited, FALSE)
    BY <1>3 DEF EndHash
  <2>2. (reader.differs \/ reader.scanned # Stored(reader.stored)) \in BOOLEAN
    BY DEF Types, Calls
  <2>3. reader' \in Calls
    BY <2>1, <2>2, MeasuredCall DEF Types
  <2>4. reader \in Calls
    BY DEF Types
  <2>5. \A after, said, edited, tainted :
          after = Measured(reader, said, edited, tainted) =>
            /\ after.pc = "annotate" /\ after.query = reader.query /\ after.page = reader.page
            /\ after.stored = reader.stored /\ after.rows = reader.rows
            /\ after.rowsMoved = reader.rowsMoved /\ after.factsMoved = reader.factsMoved
            /\ after.indexedHead = reader.indexedHead /\ after.moved = reader.moved
    BY <2>4, MeasuredKeeps
  <2> QED
    BY <2>1, <2>3, <2>5
<1> QED
  BY <1>1, <1>2, <1>3 DEF Measure

\* What the flags and the meta block say of the page.
LEMMA AnnotatedCall ==
  ASSUME Types, Annotate
  PROVE  /\ reader' \in Calls /\ reader.pc = "annotate" /\ reader'.pc \in {"coverage", "done"}
         /\ (reader'.pc = "coverage" <=> Stored(reader.page) = {})
         /\ UNCHANGED <<checkout, store, run, cache, history, bounds>>
         /\ reader'.query = reader.query /\ reader'.page = reader.page
         /\ reader'.stored = reader.stored /\ reader'.rows = reader.rows
         /\ reader'.rowsMoved = reader.rowsMoved /\ reader'.disk = disk
         /\ reader'.uncovered = reader.uncovered /\ reader'.capped = reader.capped
         /\ \A f \in Stored(reader.page) \ (reader'.flagged \cup reader'.unknown) :
              reader.stored[f] # 0 /\ disk[f] = reader.stored[f]
<1>1. PICK unreadable \in SUBSET Stored(reader.page) :
        reader' = [reader EXCEPT
                     !.pc = IF Stored(reader.page) = {} THEN "coverage" ELSE "done",
                     !.flagged = {f \in Stored(reader.page) :
                                    Status(f, unreadable) \in {"stale", "missing"}},
                     !.unknown = {f \in Stored(reader.page) : Status(f, unreadable) \in {"unknown"}},
                     !.disk = disk]
  BY DEF Annotate
<1> DEFINE told == {f \in Stored(reader.page) : Status(f, unreadable) \in {"stale", "missing"}}
           left == {f \in Stored(reader.page) : Status(f, unreadable) \in {"unknown"}}
<1>2. told \in SUBSET Files /\ left \in SUBSET Files
  BY DEF Stored
<1>3. \A f \in Stored(reader.page) \ (told \cup left) :
        reader.stored[f] # 0 /\ disk[f] = reader.stored[f]
  BY DEF Status
<1> HIDE DEF told, left
<1>4. reader' = [reader EXCEPT
                   !.pc = IF Stored(reader.page) = {} THEN "coverage" ELSE "done",
                   !.flagged = told, !.unknown = left, !.disk = disk]
  BY <1>1 DEF told, left
<1>5. reader' \in Calls
  BY <1>2, <1>4 DEF Types, Calls
<1>6. reader'.flagged = told /\ reader'.unknown = left
  BY <1>4 DEF Types, Calls
<1>7. /\ reader'.pc = IF Stored(reader.page) = {} THEN "coverage" ELSE "done"
      /\ reader'.query = reader.query /\ reader'.page = reader.page
      /\ reader'.stored = reader.stored /\ reader'.rows = reader.rows
      /\ reader'.rowsMoved = reader.rowsMoved /\ reader'.disk = disk
      /\ reader'.uncovered = reader.uncovered /\ reader'.capped = reader.capped
  BY <1>4 DEF Types, Calls
<1>8. reader.pc = "annotate" /\ UNCHANGED <<checkout, store, run, cache, history, bounds>>
  BY DEF Annotate
<1> QED
  BY <1>3, <1>5, <1>6, <1>7, <1>8

\* Every step keeps the types.
LEMMA TypesKept ==
  ASSUME Checkout, Types, Hashing,
         Next
  PROVE  Types'
<1>1. CASE \E f \in Files : Save(f)
  BY <1>1 DEF Save, Reverting, checkout, store, history, bounds, Checkout, Types, Bytes,
     Facts, Calls
<1>2. CASE \E c \in Commits : Move(c)
  <2>1. PICK c \in Commits : Move(c)
    BY <1>2
  <2>2. reader' \in Calls
    <3>1. reader' = [reader EXCEPT !.moved = reader.moved \/ reader.pc = "hash"]
      BY <2>1 DEF Move
    <3>2. ASSUME NEW call \in Calls, NEW a \in BOOLEAN
          PROVE  [call EXCEPT !.moved = a] \in Calls
      BY DEF Calls
    <3>3. (reader.moved \/ reader.pc = "hash") \in BOOLEAN
      OBVIOUS
    <3> QED
      BY <3>1, <3>2, <3>3 DEF Types
  <2>3. disk' \in Facts
    BY <2>1 DEF Move, Checkout, Types, Facts, Bytes
  <2>4. reverted' \in SUBSET Files
    BY <2>1 DEF Move, Reverting, Types
  <2>5. head' \in Commits
        /\ UNCHANGED <<store, run, cache, saved, matched>>
    BY <2>1 DEF Move
  <2> QED
    BY <2>2, <2>3, <2>4, <2>5 DEF Types, store
<1>3. CASE Scan
  BY <1>3 DEF Scan, checkout, store, history, bounds, Checkout, Types, Bytes, Facts, Calls
<1>4. CASE WriteRows
  <2>1. reader' \in Calls
    BY <1>4, DisturbedCall DEF WriteRows
  <2>2. QED
    BY <1>4, <2>1 DEF WriteRows, checkout, store, history, bounds, Types, Facts, Bytes
<1>5. CASE WriteChecksums
  <2>1. reader' \in Calls
    BY <1>5, DisturbedCall DEF WriteChecksums
  <2>2. QED
    BY <1>5, <2>1 DEF WriteChecksums, checkout, store, history, bounds, Types, Facts, Bytes
<1>6. CASE StampHead
  <2>1. reader' \in Calls
    BY <1>6, DisturbedCall DEF StampHead
  <2>2. QED
    BY <1>6, <2>1 DEF StampHead, checkout, store, history, bounds, Types, Facts, NoRun,
       NoFiles, Bytes
<1>7. CASE Die
  BY <1>7 DEF Die, NoRun, NoFiles, checkout, store, history, bounds, Types, Facts, Bytes
<1>8. CASE Gate
  <2>1. reader' \in Calls
    <3>1. NoFiles \in Facts /\ NoCommit \in Commits \cup {NoCommit}
      BY DEF NoFiles, Facts, Bytes
    <3>2. NoCall \in Calls
      BY <3>1 DEF NoCall, Calls
    <3>3. QED
      BY <1>8, <3>2 DEF Gate, Calls
  <2>2. QED
    BY <1>8, <2>1 DEF Gate, checkout, store, history, bounds, Types
<1>9. CASE ReadRows
  BY <1>9 DEF ReadRows, checkout, store, history, bounds, Checkout, Types, Bytes, Facts,
     Calls
<1>10. CASE ReadChecksums
  BY <1>10 DEF ReadChecksums, checkout, store, history, bounds, Checkout, Types, Bytes,
     Facts, Calls
<1>11. CASE ReadStamp
  BY <1>11 DEF ReadStamp, checkout, store, history, bounds, Checkout, Types, Bytes, Facts,
     Calls
<1>12. CASE Measure
  <2>1. reader' \in Calls
    BY <1>12, MeasureFrame
  <2>2. cache' \subseteq Entries
    <3>1. CASE ReadHead \/ \E f \in Files : HashFile(f)
      BY <3>1 DEF ReadHead, HashFile, Types
    <3>2. CASE EndHash
      BY <3>2, HashIsEnded DEF Types
    <3> QED
      BY <1>12, <3>1, <3>2 DEF Measure
  <2> QED
    BY <1>12, <2>1, <2>2, MeasureFrame DEF checkout, store, history, bounds, Types
<1>13. CASE Annotate
  <2>1. reader' \in Calls
    BY <1>13, AnnotatedCall DEF Types
  <2>2. QED
    BY <1>13, <2>1 DEF Annotate, checkout, store, history, bounds, Types
<1>14. CASE NoteCoverage
  <2>1. reader' \in Calls
    <3>1. PICK opened \in SUBSET KnownDirs :
            reader' = [reader EXCEPT !.pc = "done", !.disk = disk,
                         !.capped = opened # KnownDirs, !.uncovered = Uncovered(opened)]
      BY <1>14 DEF NoteCoverage
    <3>2. Uncovered(opened) \in SUBSET Files /\ (opened # KnownDirs) \in BOOLEAN
      BY DEF Uncovered
    <3>3. QED
      BY <3>1, <3>2 DEF Calls, Types
  <2>2. QED
    BY <1>14, <2>1 DEF NoteCoverage, checkout, store, history, bounds, Types
<1>15. CASE Answer
  <2>1. reader' \in Calls
    <3>1. NoFiles \in Facts /\ NoCommit \in Commits \cup {NoCommit}
      BY DEF NoFiles, Facts, Bytes
    <3>2. NoCall \in Calls
      BY <3>1 DEF NoCall, Calls
    <3>3. QED
      BY <1>15, <3>2 DEF Answer, Calls
  <2>2. QED
    BY <1>15, <2>1 DEF Answer, checkout, store, history, bounds, Types
<1>16. QED
  BY <1>1, <1>2, <1>3, <1>4, <1>5, <1>6, <1>7, <1>8, <1>9, <1>10, <1>11, <1>12, <1>13,
     <1>14, <1>15 DEF Next, Measure

\* Rows are written before their checksum; a file that is put back while they differ
\* is noted.
LEMMA RowsLeadKept ==
  ASSUME Types, RowsLead,
         Next
  PROVE  RowsLead'
<1>1. CASE \E f \in Files : Save(f)
  BY <1>1 DEF Save, Reverting, checkout, store, history, bounds, Types, Facts, RowsLead
<1>2. CASE \E c \in Commits : Move(c)
  BY <1>2 DEF Move, Reverting, checkout, store, history, bounds, Types, Facts, RowsLead
<1>3. CASE Scan
  BY <1>3 DEF Scan, checkout, store, history, bounds, Types, Facts, RowsLead
<1>4. CASE WriteRows
  BY <1>4 DEF WriteRows, Disturbed, checkout, store, history, bounds, Types, Facts, RowsLead
<1>5. CASE WriteChecksums
  BY <1>5 DEF WriteChecksums, Disturbed, checkout, store, history, bounds, Types, Facts,
     RowsLead
<1>6. CASE StampHead
  BY <1>6 DEF StampHead, Disturbed, NoRun, checkout, store, history, bounds, Types, Facts,
     RowsLead
<1>7. CASE Die
  BY <1>7 DEF Die, NoRun, checkout, store, history, bounds, Types, Facts, RowsLead
<1>8. CASE Gate
  BY <1>8 DEF Gate, NoCall, NoFiles, checkout, store, history, bounds, Types, Facts,
     RowsLead
<1>9. CASE ReadRows
  BY <1>9 DEF ReadRows, checkout, store, history, bounds, Types, Facts, RowsLead
<1>10. CASE ReadChecksums
  BY <1>10 DEF ReadChecksums, checkout, store, history, bounds, Types, Facts, RowsLead
<1>11. CASE ReadStamp
  BY <1>11 DEF ReadStamp, checkout, store, history, bounds, Types, Facts, RowsLead
<1>12. CASE Measure
  BY <1>12, MeasureFrame DEF checkout, store, history, bounds, Types, RowsLead
<1>13. CASE Annotate
  BY <1>13, AnnotatedCall DEF checkout, store, history, bounds, Types, Facts,
     RowsLead
<1>14. CASE NoteCoverage
  BY <1>14 DEF NoteCoverage, Uncovered, KnownDirs, Stored, checkout, store, history,
     bounds, Types, Facts, RowsLead
<1>15. CASE Answer
  BY <1>15 DEF Answer, NoCall, NoFiles, checkout, store, history, bounds, Types, Facts,
     RowsLead
<1>16. QED
  BY <1>1, <1>2, <1>3, <1>4, <1>5, <1>6, <1>7, <1>8, <1>9, <1>10, <1>11, <1>12, <1>13,
     <1>14, <1>15 DEF Next, Measure

\* A call reads rows, then checksums; a run that writes between the two is noted.
LEMMA PageLeadsKept ==
  ASSUME Types, RowsLead, PageLeads,
         Next
  PROVE  PageLeads'
<1>1. CASE \E f \in Files : Save(f)
  BY <1>1 DEF Save, Reverting, checkout, store, history, bounds, Types, Calls, Facts,
     RowsLead, PageLeads
<1>2. CASE \E c \in Commits : Move(c)
  BY <1>2 DEF Move, Reverting, checkout, store, history, bounds, Types, Calls, Facts,
     RowsLead, PageLeads
<1>3. CASE Scan
  BY <1>3 DEF Scan, checkout, store, history, bounds, Types, Calls, Facts, RowsLead,
     PageLeads
<1>4. CASE WriteRows
  <2>1. disk' = disk /\ reverted' = reverted
    BY <1>4 DEF WriteRows, checkout, history
  <2>2. /\ reader'.pc = reader.pc /\ reader'.page = reader.page
        /\ reader'.query = reader.query /\ reader'.rows = reader.rows
        /\ reader'.stored = reader.stored
        /\ reader'.rowsMoved = (reader.rowsMoved \/ reader.pc = "facts")
    BY <1>4 DEF WriteRows, Disturbed, Types, Calls
  <2>3. QED
    BY <2>1, <2>2 DEF PageLeads, Stored
<1>5. CASE WriteChecksums
  BY <1>5 DEF WriteChecksums, Disturbed, checkout, store, history, bounds, Types, Calls,
     Facts, RowsLead, PageLeads
<1>6. CASE StampHead
  BY <1>6 DEF StampHead, Disturbed, NoRun, checkout, store, history, bounds, Types, Calls,
     Facts, RowsLead, PageLeads
<1>7. CASE Die
  BY <1>7 DEF Die, NoRun, checkout, store, history, bounds, Types, Calls, Facts, RowsLead,
     PageLeads
<1>8. CASE Gate
  BY <1>8 DEF Gate, NoCall, NoFiles, checkout, store, history, bounds, Types, Calls, Facts,
     RowsLead, PageLeads
<1>9. CASE ReadRows
  BY <1>9 DEF ReadRows, checkout, store, history, bounds, Types, Calls, Facts, RowsLead,
     PageLeads
<1>10. CASE ReadChecksums
  BY <1>10 DEF ReadChecksums, checkout, store, history, bounds, Types, Calls, Facts,
     RowsLead, PageLeads
<1>11. CASE ReadStamp
  BY <1>11 DEF ReadStamp, checkout, store, history, bounds, Types, Calls, Facts, RowsLead,
     PageLeads
<1>12. CASE Measure
  BY <1>12, MeasureFrame DEF checkout, store, history, bounds, Types, PageLeads
<1>13. CASE Annotate
  BY <1>13, AnnotatedCall DEF checkout, store, history, bounds, Types, Calls,
     Facts, RowsLead, PageLeads
<1>14. CASE NoteCoverage
  BY <1>14 DEF NoteCoverage, Uncovered, KnownDirs, Stored, checkout, store, history,
     bounds, Types, Calls, Facts, RowsLead, PageLeads
<1>15. CASE Answer
  BY <1>15 DEF Answer, NoCall, NoFiles, checkout, store, history, bounds, Types, Calls,
     Facts, RowsLead, PageLeads
<1>16. QED
  BY <1>1, <1>2, <1>3, <1>4, <1>5, <1>6, <1>7, <1>8, <1>9, <1>10, <1>11, <1>12, <1>13,
     <1>14, <1>15 DEF Next, Measure

\* Only an edit by hand makes a file another than its commit's, until its commit is
\* indexed.
LEMMA CommittedKept ==
  ASSUME Checkout, Types, Committed, Hashing,
         Next
  PROVE  Committed'
<1>1. CASE \E f \in Files : Save(f)
  BY <1>1 DEF Save, Reverting, checkout, store, history, bounds, Checkout, Types, Bytes,
     Facts, Committed, Stored, Entries, Calls
<1>2. CASE \E c \in Commits : Move(c)
  BY <1>2 DEF Move, Reverting, checkout, store, history, bounds, Checkout, Types, Bytes,
     Facts, Committed, Stored, Entries, Calls
<1>3. CASE Scan
  BY <1>3 DEF Scan, checkout, store, history, bounds, Checkout, Types, Bytes, Facts,
     Committed, Stored, Entries, Calls
<1>4. CASE WriteRows
  BY <1>4 DEF WriteRows, Disturbed, checkout, store, history, bounds, Checkout, Types,
     Bytes, Facts, Committed, Stored, Entries, Calls
<1>5. CASE WriteChecksums
  BY <1>5 DEF WriteChecksums, Disturbed, checkout, store, history, bounds, Checkout, Types,
     Bytes, Facts, Committed, Stored, Entries, Calls
<1>6. CASE StampHead
  <2>1. \A f \in Files : ck[f] # 0 => f \in Stored(ck)
    BY DEF Stored
  <2>2. /\ disk' = disk /\ head' = head /\ cache' = cache /\ ck' = ck /\ run'.pc = "idle"
        /\ indexedHead' = head /\ head \in Commits
    BY <1>6 DEF StampHead, checkout, NoRun, Types
  <2>3. \A f \in Files \ saved' : f \in saved => disk[f] = ck[f] /\ ck[f] = Tree[head][f]
    BY <1>6 DEF StampHead
  <2>4. matched' => head = run.at /\ \A f \in Stored(ck) : ck[f] = run.snapshot[f]
    BY <1>6 DEF StampHead
  <2>5. \A f \in Files \ saved' : disk[f] = Tree[head][f]
    BY <2>3 DEF Committed
  <2>6. matched' => \A f \in Files \ saved' : ck[f] # 0 => ck[f] = Tree[head][f]
    BY <1>6, <2>1, <2>3, <2>4 DEF StampHead, Committed
  <2>7. QED
    BY <2>2, <2>5, <2>6 DEF Committed
<1>7. CASE Die
  BY <1>7 DEF Die, NoRun, checkout, store, history, bounds, Checkout, Types, Bytes, Facts,
     Committed, Stored, Entries, Calls
<1>8. CASE Gate
  BY <1>8 DEF Gate, NoCall, NoFiles, checkout, store, history, bounds, Checkout, Types,
     Bytes, Facts, Committed, Stored, Entries, Calls
<1>9. CASE ReadRows
  BY <1>9 DEF ReadRows, checkout, store, history, bounds, Checkout, Types, Bytes, Facts,
     Committed, Stored, Entries, Calls
<1>10. CASE ReadChecksums
  BY <1>10 DEF ReadChecksums, checkout, store, history, bounds, Checkout, Types, Bytes,
     Facts, Committed, Stored, Entries, Calls
<1>11. CASE ReadStamp
  BY <1>11 DEF ReadStamp, checkout, store, history, bounds, Checkout, Types, Bytes, Facts,
     Committed, Stored, Entries, Calls
<1>12. CASE Measure
  <2>1. UNCHANGED <<head, disk, ck, indexedHead, run, saved, matched>>
    BY <1>12, MeasureFrame DEF checkout, store, history
  <2>2. \A entry \in cache' \ cache :
          /\ reader.pc = "hash" /\ reader.scanned = Stored(reader.stored)
          /\ entry.key = DriftKey(reader.head) /\ entry.differs = reader.differs
          /\ entry.edited = reader.edited /\ entry.moved = reader.moved
    <3>1. CASE ReadHead \/ \E f \in Files : HashFile(f)
      BY <3>1 DEF ReadHead, HashFile
    <3>2. CASE EndHash
      BY <3>2, HashIsEnded
    <3> QED
      BY <1>12, <3>1, <3>2 DEF Measure
  <2>3. ASSUME NEW entry \in cache', ~entry.differs, ~entry.moved,
               NEW f \in Files \ entry.edited, entry.key[3][f] # 0
        PROVE  entry.key[3][f] = Tree[entry.key[1]][f]
    <3>1. CASE entry \in cache
      BY <2>3, <3>1 DEF Committed
    <3>2. CASE entry \notin cache
      <4>1. /\ entry.key[1] = reader.head /\ entry.key[3] = reader.stored
            /\ ~reader.differs /\ ~reader.moved /\ f \notin reader.edited
            /\ f \in reader.scanned /\ reader.pc = "hash"
        BY <2>2, <2>3, <3>2 DEF DriftKey, Stored
      <4> QED
        BY <4>1 DEF Hashing
    <3> QED
      BY <3>1, <3>2
  <2> QED
    BY <2>1, <2>3 DEF Committed
<1>13. CASE Annotate
  BY <1>13, AnnotatedCall DEF checkout, store, history, bounds, Checkout, Types,
     Bytes, Facts, Committed, Stored, Entries, Calls
<1>14. CASE NoteCoverage
  BY <1>14 DEF NoteCoverage, Uncovered, KnownDirs, Stored, checkout, store, history,
     bounds, Checkout, Types, Bytes, Facts, Committed, Stored, Entries, Calls
<1>15. CASE Answer
  BY <1>15 DEF Answer, NoCall, NoFiles, checkout, store, history, bounds, Checkout, Types,
     Bytes, Facts, Committed, Stored, Entries, Calls
<1>16. QED
  BY <1>1, <1>2, <1>3, <1>4, <1>5, <1>6, <1>7, <1>8, <1>9, <1>10, <1>11, <1>12, <1>13,
     <1>14, <1>15 DEF Next, Measure

\* A file is hashed at the commit that was read, unless the checkout has moved.
LEMMA HashingKept ==
  ASSUME Checkout, Types, Committed, Hashing,
         Next
  PROVE  Hashing'
<1>1. CASE \E f \in Files : Save(f)
  BY <1>1 DEF Save, Hashing
<1>2. CASE \E c \in Commits : Move(c)
  <2>1. /\ reader'.pc = reader.pc /\ reader'.head = reader.head
        /\ reader'.scanned = reader.scanned
        /\ reader'.indexedHead = reader.indexedHead /\ (reader.pc = "hash" => reader'.moved)
    BY <1>2 DEF Move, Types, Calls
  <2> QED
    BY <2>1 DEF Hashing
<1>3. CASE Scan \/ Die
  BY <1>3 DEF Scan, Die, checkout, Hashing
<1>4. CASE WriteRows \/ WriteChecksums \/ StampHead
  <2>1. reader' = Disturbed /\ head' = head
    BY <1>4 DEF WriteRows, WriteChecksums, StampHead, checkout
  <2>2. /\ reader'.pc = reader.pc /\ reader'.head = reader.head
        /\ reader'.indexedHead = reader.indexedHead /\ reader'.moved = reader.moved
        /\ reader'.differs = reader.differs /\ reader'.scanned = reader.scanned
        /\ reader'.edited = reader.edited /\ reader'.stored = reader.stored
    BY <2>1 DEF Disturbed, Types, Calls
  <2> QED
    BY <2>1, <2>2 DEF Hashing
<1>5. CASE ReadHead
  <2>1. PICK current \in {head, NoCommit} :
          \/ \E said, edited, tainted :
               reader' = Measured([reader EXCEPT !.head = current], said, edited, tainted)
          \/ /\ NoCommit \notin {current, reader.indexedHead}
             /\ reader' = [reader EXCEPT !.head = current, !.pc = "hash"]
    BY <1>5, HeadIsRead
  <2>2. CASE \E said, edited, tainted :
               reader' = Measured([reader EXCEPT !.head = current], said, edited, tainted)
    <3>1. reader'.pc = "annotate"
      BY <2>2 DEF Measured, Types, Calls
    <3> QED
      BY <3>1 DEF Hashing
  <2>3. CASE /\ NoCommit \notin {current, reader.indexedHead}
             /\ reader' = [reader EXCEPT !.head = current, !.pc = "hash"]
    <3>1. /\ reader'.head = head /\ reader'.head \in Commits /\ reader'.indexedHead \in Commits
          /\ reader'.scanned = {} /\ reader'.pc = "hash" /\ head' = head
      BY <1>5, <2>3 DEF ReadHead, checkout, Types, Calls, Hashing
    <3> QED
      BY <3>1 DEF Hashing
  <2> QED
    BY <2>1, <2>2, <2>3
<1>6. CASE \E f \in Files : HashFile(f)
  <2>1. PICK f \in Files : HashFile(f)
    BY <1>6
  <2>2. PICK unreadable \in BOOLEAN :
          reader' = [reader EXCEPT !.scanned = @ \cup {f}, !.edited = @ \cup saved,
                       !.differs = @ \/ unreadable \/ disk[f] # reader.stored[f]]
    BY <2>1 DEF HashFile
  <2>3. /\ reader'.head = reader.head /\ reader'.indexedHead = reader.indexedHead
        /\ reader'.moved = reader.moved /\ reader'.stored = reader.stored
        /\ reader'.scanned = reader.scanned \cup {f} /\ reader'.edited = reader.edited \cup saved
        /\ (~reader'.differs => ~reader.differs /\ disk[f] = reader.stored[f])
        /\ reader.pc = "hash" /\ head' = head /\ reader'.pc = "hash"
    BY <2>1, <2>2 DEF HashFile, checkout, Types, Calls
  <2>4. ASSUME ~reader'.moved, ~reader'.differs, NEW g \in reader'.scanned \ reader'.edited
        PROVE  reader'.stored[g] = Tree[reader'.head][g]
    <3>1. CASE g = f
      BY <2>3, <2>4, <3>1 DEF Hashing, Committed
    <3>2. CASE g # f
      BY <2>3, <2>4, <3>2 DEF Hashing
    <3> QED
      BY <3>1, <3>2
  <2> QED
    BY <2>3, <2>4 DEF Hashing
<1>7. CASE EndHash
  <2>1. reader'.pc = "annotate"
    BY <1>7 DEF EndHash, Measured, Types, Calls
  <2> QED
    BY <2>1 DEF Hashing
<1>8. CASE Gate \/ ReadRows \/ ReadChecksums \/ ReadStamp \/ NoteCoverage \/ Answer
  <2>1. CASE Gate \/ Answer
    <3>1. NoCall.pc = "idle" /\ NoCall.scanned = {}
      BY DEF NoCall
    <3>2. CASE Gate
      <4>1. PICK query : reader' = [NoCall EXCEPT !.pc = "rows", !.query = query]
        BY <3>2 DEF Gate
      <4>2. reader'.pc = "rows" /\ reader'.scanned = NoCall.scanned
        BY <4>1 DEF NoCall
      <4> QED
        BY <3>1, <4>2 DEF Hashing
    <3>3. CASE Answer
      BY <3>1, <3>3 DEF Answer, Hashing
    <3> QED
      BY <2>1, <3>2, <3>3
  <2>2. CASE ReadRows \/ ReadChecksums \/ ReadStamp
    <3>1. /\ reader.pc \in {"rows", "facts", "stamp"} /\ reader'.pc # "hash"
          /\ reader'.scanned = reader.scanned
      BY <2>2 DEF ReadRows, ReadChecksums, ReadStamp, Types, Calls
    <3> QED
      BY <3>1 DEF Hashing
  <2>3. CASE NoteCoverage
    <3>1. reader'.pc = "done"
      BY <2>3 DEF NoteCoverage, Types, Calls
    <3> QED
      BY <3>1 DEF Hashing
  <2> QED
    BY <1>8, <2>1, <2>2, <2>3
<1>9. CASE Annotate
  BY <1>9, AnnotatedCall DEF Hashing
<1> QED
  BY <1>1, <1>2, <1>3, <1>4, <1>5, <1>6, <1>7, <1>8, <1>9 DEF Next

\* A run that writes after the checksums were read is noted.
LEMMA FactsKept ==
  ASSUME Types, FactsStand,
         Next
  PROVE  FactsStand'
<1>1. CASE \E f \in Files : Save(f)
  BY <1>1 DEF Save, Reverting, checkout, store, history, bounds, Types, Calls, Facts,
     FactsStand
<1>2. CASE \E c \in Commits : Move(c)
  BY <1>2 DEF Move, Reverting, checkout, store, history, bounds, Types, Calls, Facts,
     FactsStand
<1>3. CASE Scan
  BY <1>3 DEF Scan, checkout, store, history, bounds, Types, Calls, Facts, FactsStand
<1>4. CASE WriteRows
  BY <1>4 DEF WriteRows, Disturbed, checkout, store, history, bounds, Types, Calls, Facts,
     FactsStand
<1>5. CASE WriteChecksums
  BY <1>5 DEF WriteChecksums, Disturbed, checkout, store, history, bounds, Types, Calls,
     Facts, FactsStand
<1>6. CASE StampHead
  BY <1>6 DEF StampHead, Disturbed, NoRun, checkout, store, history, bounds, Types, Calls,
     Facts, FactsStand
<1>7. CASE Die
  BY <1>7 DEF Die, NoRun, checkout, store, history, bounds, Types, Calls, Facts, FactsStand
<1>8. CASE Gate
  BY <1>8 DEF Gate, NoCall, NoFiles, checkout, store, history, bounds, Types, Calls, Facts,
     FactsStand
<1>9. CASE ReadRows
  BY <1>9 DEF ReadRows, checkout, store, history, bounds, Types, Calls, Facts, FactsStand
<1>10. CASE ReadChecksums
  BY <1>10 DEF ReadChecksums, checkout, store, history, bounds, Types, Calls, Facts,
     FactsStand
<1>11. CASE ReadStamp
  BY <1>11 DEF ReadStamp, checkout, store, history, bounds, Types, Calls, Facts, FactsStand
<1>12. CASE Measure
  BY <1>12, MeasureFrame DEF checkout, store, history, bounds, Types, FactsStand
<1>13. CASE Annotate
  BY <1>13, AnnotatedCall DEF checkout, store, history, bounds, Types, Calls,
     Facts, FactsStand
<1>14. CASE NoteCoverage
  BY <1>14 DEF NoteCoverage, Uncovered, KnownDirs, Stored, checkout, store, history,
     bounds, Types, Calls, Facts, FactsStand
<1>15. CASE Answer
  BY <1>15 DEF Answer, NoCall, NoFiles, checkout, store, history, bounds, Types, Calls,
     Facts, FactsStand
<1>16. QED
  BY <1>1, <1>2, <1>3, <1>4, <1>5, <1>6, <1>7, <1>8, <1>9, <1>10, <1>11, <1>12, <1>13,
     <1>14, <1>15 DEF Next, Measure

\* Annotate hashes each file of the page after its checksum was read.
LEMMA UnflaggedKept ==
  ASSUME Types, PageLeads, UnflaggedIsFresh,
         Next
  PROVE  UnflaggedIsFresh'
<1>1. CASE \E f \in Files : Save(f)
  BY <1>1 DEF Save, Reverting, checkout, store, history, bounds, Types, Calls, Facts,
     PageLeads, UnflaggedIsFresh
<1>2. CASE \E c \in Commits : Move(c)
  BY <1>2 DEF Move, Reverting, checkout, store, history, bounds, Types, Calls, Facts,
     PageLeads, UnflaggedIsFresh
<1>3. CASE Scan
  BY <1>3 DEF Scan, checkout, store, history, bounds, Types, Calls, Facts, PageLeads,
     UnflaggedIsFresh
<1>4. CASE WriteRows
  BY <1>4 DEF WriteRows, Disturbed, checkout, store, history, bounds, Types, Calls, Facts,
     PageLeads, UnflaggedIsFresh
<1>5. CASE WriteChecksums
  BY <1>5 DEF WriteChecksums, Disturbed, checkout, store, history, bounds, Types, Calls,
     Facts, PageLeads, UnflaggedIsFresh
<1>6. CASE StampHead
  BY <1>6 DEF StampHead, Disturbed, NoRun, checkout, store, history, bounds, Types, Calls,
     Facts, PageLeads, UnflaggedIsFresh
<1>7. CASE Die
  BY <1>7 DEF Die, NoRun, checkout, store, history, bounds, Types, Calls, Facts, PageLeads,
     UnflaggedIsFresh
<1>8. CASE Gate
  BY <1>8 DEF Gate, NoCall, NoFiles, checkout, store, history, bounds, Types, Calls, Facts,
     PageLeads, UnflaggedIsFresh
<1>9. CASE ReadRows
  BY <1>9 DEF ReadRows, checkout, store, history, bounds, Types, Calls, Facts, PageLeads,
     UnflaggedIsFresh
<1>10. CASE ReadChecksums
  BY <1>10 DEF ReadChecksums, checkout, store, history, bounds, Types, Calls, Facts,
     PageLeads, UnflaggedIsFresh
<1>11. CASE ReadStamp
  BY <1>11 DEF ReadStamp, checkout, store, history, bounds, Types, Calls, Facts, PageLeads,
     UnflaggedIsFresh
<1>12. CASE Measure
  BY <1>12, MeasureFrame DEF checkout, store, history, bounds, Types, PageLeads,
     UnflaggedIsFresh
<1>13. CASE Annotate
  <2>1. ASSUME ~reader'.rowsMoved,
               NEW f \in Stored(reader'.page) \ (reader'.flagged \cup reader'.unknown \cup reverted')
        PROVE  reader'.page[f] = reader'.disk[f]
    <3>1. /\ f \in Files /\ reader'.page = reader.page /\ reader.page[f] # 0
          /\ f \notin reverted /\ reader'.disk = disk /\ ~reader.rowsMoved
      BY <1>13, <2>1, AnnotatedCall DEF Stored, history
    <3>2. reader.stored[f] # 0 /\ disk[f] = reader.stored[f] /\ reader.pc = "annotate"
      BY <1>13, <2>1, <3>1, AnnotatedCall DEF Stored
    <3> QED
      BY <3>1, <3>2 DEF PageLeads
  <2> QED
    BY <2>1 DEF UnflaggedIsFresh
<1>14. CASE NoteCoverage
  BY <1>14 DEF NoteCoverage, Uncovered, KnownDirs, Stored, checkout, store, history,
     bounds, Types, Calls, Facts, PageLeads, UnflaggedIsFresh
<1>15. CASE Answer
  BY <1>15 DEF Answer, NoCall, NoFiles, checkout, store, history, bounds, Types, Calls,
     Facts, PageLeads, UnflaggedIsFresh
<1>16. QED
  BY <1>1, <1>2, <1>3, <1>4, <1>5, <1>6, <1>7, <1>8, <1>9, <1>10, <1>11, <1>12, <1>13,
     <1>14, <1>15 DEF Next, Measure

\* A coverage note that opened every directory it knows names each file that is not
\* in the rows.
LEMMA EmptyKept ==
  ASSUME Types, PageLeads, EmptyIsExplained,
         Next
  PROVE  EmptyIsExplained'
<1>1. CASE \E f \in Files : Save(f)
  BY <1>1 DEF Save, Reverting, checkout, store, history, bounds, Types, Calls, Facts,
     PageLeads, EmptyIsExplained
<1>2. CASE \E c \in Commits : Move(c)
  BY <1>2 DEF Move, Reverting, checkout, store, history, bounds, Types, Calls, Facts,
     PageLeads, EmptyIsExplained
<1>3. CASE Scan
  BY <1>3 DEF Scan, checkout, store, history, bounds, Types, Calls, Facts, PageLeads,
     EmptyIsExplained
<1>4. CASE WriteRows
  BY <1>4 DEF WriteRows, Disturbed, checkout, store, history, bounds, Types, Calls, Facts,
     PageLeads, EmptyIsExplained
<1>5. CASE WriteChecksums
  BY <1>5 DEF WriteChecksums, Disturbed, checkout, store, history, bounds, Types, Calls,
     Facts, PageLeads, EmptyIsExplained
<1>6. CASE StampHead
  BY <1>6 DEF StampHead, Disturbed, NoRun, checkout, store, history, bounds, Types, Calls,
     Facts, PageLeads, EmptyIsExplained
<1>7. CASE Die
  BY <1>7 DEF Die, NoRun, checkout, store, history, bounds, Types, Calls, Facts, PageLeads,
     EmptyIsExplained
<1>8. CASE Gate
  BY <1>8 DEF Gate, NoCall, NoFiles, checkout, store, history, bounds, Types, Calls, Facts,
     PageLeads, EmptyIsExplained
<1>9. CASE ReadRows
  BY <1>9 DEF ReadRows, checkout, store, history, bounds, Types, Calls, Facts, PageLeads,
     EmptyIsExplained
<1>10. CASE ReadChecksums
  BY <1>10 DEF ReadChecksums, checkout, store, history, bounds, Types, Calls, Facts,
     PageLeads, EmptyIsExplained
<1>11. CASE ReadStamp
  BY <1>11 DEF ReadStamp, checkout, store, history, bounds, Types, Calls, Facts, PageLeads,
     EmptyIsExplained
<1>12. CASE Measure
  BY <1>12, MeasureFrame DEF checkout, store, history, bounds, Types, PageLeads,
     EmptyIsExplained
<1>13. CASE Annotate
  BY <1>13, AnnotatedCall DEF checkout, store, history, bounds, Types, Calls,
     Facts, PageLeads, EmptyIsExplained
<1>14. CASE NoteCoverage
  <2>1. PICK opened \in SUBSET KnownDirs :
          reader' = [reader EXCEPT !.pc = "done", !.disk = disk,
                       !.capped = opened # KnownDirs,
                       !.uncovered = Uncovered(opened)]
    BY <1>14 DEF NoteCoverage
  <2>2. SUFFICES ASSUME ~reader.rowsMoved, Uncovered(KnownDirs) = {},
                        NEW f \in reader.query, disk[f] # 0,
                        Dir[f] = Root \/ \E g \in Stored(reader.stored) : Dir[g] = Dir[f]
                 PROVE  reader.rows[f] # 0
    <3>1. /\ reader'.uncovered = Uncovered(opened) /\ reader'.capped = (opened # KnownDirs)
          /\ reader'.disk = disk /\ reader'.rowsMoved = reader.rowsMoved
          /\ reader'.query = reader.query /\ reader'.stored = reader.stored
          /\ reader'.rows = reader.rows
      BY <2>1 DEF Types, Calls
    <3>2. QED
      BY <3>1 DEF EmptyIsExplained, Stored
  <2>3. f \in Files /\ Dir[f] \in KnownDirs
    BY <2>2 DEF KnownDirs, Types, Calls
  <2>4. reader.stored[f] # 0
    BY <2>2, <2>3 DEF Uncovered
  <2>5. QED
    BY <1>14, <2>2, <2>3, <2>4 DEF NoteCoverage, PageLeads
<1>15. CASE Answer
  BY <1>15 DEF Answer, NoCall, NoFiles, checkout, store, history, bounds, Types, Calls,
     Facts, PageLeads, EmptyIsExplained
<1>16. QED
  BY <1>1, <1>2, <1>3, <1>4, <1>5, <1>6, <1>7, <1>8, <1>9, <1>10, <1>11, <1>12, <1>13,
     <1>14, <1>15 DEF Next, Measure

\* A measurement says nothing at the same commit, after one that found nothing, or
\* when it finds nothing itself.
LEMMA DriftKept ==
  ASSUME Checkout, Types, Committed, Hashing, FactsStand, DriftIsSaid,
         Next
  PROVE  DriftIsSaid'
<1>1. CASE \E f \in Files : Save(f)
  BY <1>1 DEF Save, Reverting, checkout, store, history, bounds, Types, Calls, DriftIsSaid, Silent
<1>2. CASE \E c \in Commits : Move(c)
  BY <1>2 DEF Move, Reverting, checkout, store, history, bounds, Types, Calls, DriftIsSaid, Silent
<1>3. CASE Scan
  BY <1>3 DEF Scan, checkout, store, history, bounds, Types, Calls, DriftIsSaid, Silent
<1>4. CASE WriteRows
  BY <1>4 DEF WriteRows, Disturbed, checkout, store, history, bounds, Types, Calls,
     DriftIsSaid, Silent
<1>5. CASE WriteChecksums
  BY <1>5 DEF WriteChecksums, Disturbed, checkout, store, history, bounds, Types, Calls,
     DriftIsSaid, Silent
<1>6. CASE StampHead
  BY <1>6 DEF StampHead, Disturbed, NoRun, checkout, store, history, bounds, Types, Calls,
     DriftIsSaid, Silent
<1>7. CASE Die
  BY <1>7 DEF Die, NoRun, checkout, store, history, bounds, Types, Calls, DriftIsSaid, Silent
<1>8. CASE Gate
  BY <1>8 DEF Gate, NoCall, NoFiles, checkout, store, history, bounds, Types, Calls,
     DriftIsSaid, Silent
<1>9. CASE ReadRows
  BY <1>9 DEF ReadRows, checkout, store, history, bounds, Types, Calls, DriftIsSaid, Silent
<1>10. CASE ReadChecksums
  BY <1>10 DEF ReadChecksums, checkout, store, history, bounds, Types, Calls, DriftIsSaid, Silent
<1>11. CASE ReadStamp
  BY <1>11 DEF ReadStamp, checkout, store, history, bounds, Types, Calls, DriftIsSaid, Silent
<1>12. CASE Measure
  <2>1. SUFFICES ASSUME reader'.pc = "annotate", ~reader'.factsMoved, ~reader'.moved,
                        reader'.matched, reader'.head # NoCommit, reader'.indexedHead # NoCommit,
                        ~reader'.drift, ~reader'.tainted
                 PROVE  reader'.behind = {}
    BY DEF DriftIsSaid, Silent
  <2>2. /\ reader.stored = ck /\ reader.indexedHead = indexedHead
        /\ reader'.indexedHead = reader.indexedHead /\ ~reader.moved
    BY <1>12, <2>1, MeasureFrame DEF FactsStand
  <2>3. CASE ReadHead
    <3>1. PICK current \in {head, NoCommit} :
            \/ \E said \in BOOLEAN, edited \in SUBSET Files, tainted \in BOOLEAN :
                 /\ reader' = Measured([reader EXCEPT !.head = current], said, edited, tainted)
                 /\ \/ /\ NoCommit \in {current, reader.indexedHead}
                          \/ current = reader.indexedHead
                       /\ edited = saved
                    \/ \E entry \in cache :
                         /\ entry.key = DriftKey(current) /\ said = entry.differs
                         /\ tainted = entry.moved /\ edited = saved \cup entry.edited
            \/ reader' = [reader EXCEPT !.head = current, !.pc = "hash"]
      BY <2>3, HeadIsRead
    <3>2. reader' # [reader EXCEPT !.head = current, !.pc = "hash"]
      BY <2>1 DEF Types, Calls
    <3>3. PICK said \in BOOLEAN, edited \in SUBSET Files, tainted \in BOOLEAN :
            /\ reader' = Measured([reader EXCEPT !.head = current], said, edited, tainted)
            /\ \/ /\ NoCommit \in {current, reader.indexedHead}
                     \/ current = reader.indexedHead
                  /\ edited = saved
               \/ \E entry \in cache :
                    /\ entry.key = DriftKey(current) /\ said = entry.differs
                    /\ tainted = entry.moved /\ edited = saved \cup entry.edited
      BY <3>1, <3>2
    <3>4. /\ reader'.head = current /\ reader'.drift = said /\ reader'.tainted = tainted
          /\ reader'.matched = matched
          /\ reader'.behind = {f \in Stored(ck) \ edited : disk[f] # ck[f]}
      BY <3>3 DEF Measured, Types, Calls
    <3>5. current = head /\ matched /\ ~said /\ ~tainted /\ reader.indexedHead # NoCommit
      BY <2>1, <2>2, <3>4
    <3>6. CASE current = reader.indexedHead /\ edited = saved
      BY <2>2, <3>4, <3>5, <3>6 DEF Committed, Stored
    <3>7. ASSUME NEW entry \in cache, entry.key = DriftKey(current), ~entry.differs,
                 ~entry.moved, edited = saved \cup entry.edited
          PROVE  {f \in Stored(ck) \ edited : disk[f] # ck[f]} = {}
      <4>1. \A f \in Files \ entry.edited : ck[f] # 0 => ck[f] = Tree[head][f]
        BY <2>2, <3>5, <3>7 DEF DriftKey, Committed
      <4> QED
        BY <3>7, <4>1 DEF Committed, Stored
    <3> QED
      BY <2>1, <3>3, <3>4, <3>5, <3>6, <3>7
  <2>4. CASE EndHash
    <3>1. /\ reader.pc = "hash"
          /\ reader' = Measured(reader, reader.differs \/ reader.scanned # Stored(reader.stored),
                                saved \cup reader.edited, FALSE)
      BY <2>4 DEF EndHash
    <3>2. /\ reader'.drift = (reader.differs \/ reader.scanned # Stored(reader.stored))
          /\ reader'.behind = {f \in Stored(ck) \ (saved \cup reader.edited) : disk[f] # ck[f]}
      BY <3>1 DEF Measured, Types, Calls
    <3>3. ~reader.differs /\ reader.scanned = Stored(ck) /\ reader.head = head
      BY <2>1, <2>2, <3>1, <3>2 DEF Hashing
    <3>4. \A f \in Stored(ck) \ reader.edited : ck[f] = Tree[head][f]
      BY <2>2, <3>1, <3>3 DEF Hashing
    <3> QED
      BY <3>2, <3>4 DEF Committed, Stored
  <2>5. CASE \E f \in Files : HashFile(f)
    <3>1. reader'.pc = "hash"
      BY <2>5 DEF HashFile, Types, Calls
    <3> QED
      BY <2>1, <3>1
  <2> QED
    BY <1>12, <2>3, <2>4, <2>5 DEF Measure
<1>13. CASE Annotate
  BY <1>13, AnnotatedCall DEF checkout, store, history, bounds, Types, Calls,
     DriftIsSaid, Silent
<1>14. CASE NoteCoverage
  BY <1>14 DEF NoteCoverage, Uncovered, KnownDirs, Stored, checkout, store, history,
     bounds, Types, Calls, DriftIsSaid, Silent
<1>15. CASE Answer
  BY <1>15 DEF Answer, NoCall, NoFiles, checkout, store, history, bounds, Types, Calls,
     DriftIsSaid, Silent
<1>16. QED
  BY <1>1, <1>2, <1>3, <1>4, <1>5, <1>6, <1>7, <1>8, <1>9, <1>10, <1>11, <1>12, <1>13,
     <1>14, <1>15 DEF Next, Measure

-----------------------------------------------------------------------------
(* The theorems.                                                           *)

\* A clean checkout, and an index of it or none.
LEMMA InitFresh ==
  ASSUME Checkout, Init
  PROVE  FreshInv
<1>1. NoFiles \in Facts /\ Tree[head] \in Facts
  BY DEF Checkout, Init, NoFiles, Facts, Bytes
<1>2. Types
  <2>1. NoRun \in [pc : {"idle", "rows", "checksums", "head"}, snapshot : Facts,
                   at : Commits \cup {NoCommit}]
    BY <1>1 DEF NoRun
  <2>2. NoCall \in Calls
    BY <1>1 DEF NoCall, Calls
  <2>3. QED
    BY <1>1, <2>1, <2>2 DEF Init, Types
<1>3. RowsLead /\ PageLeads /\ FactsStand
  BY <1>1 DEF Init, NoRun, NoCall, NoFiles, RowsLead, PageLeads, FactsStand
<1>4. Committed
  BY <1>1 DEF Init, NoRun, NoFiles, Committed
<1>5. Hashing /\ UnflaggedIsFresh /\ EmptyIsExplained /\ DriftIsSaid
  BY DEF Init, NoCall, Hashing, UnflaggedIsFresh, EmptyIsExplained, DriftIsSaid, Silent
<1>6. QED
  BY <1>2, <1>3, <1>4, <1>5 DEF FreshInv

\* One step, or none, keeps the invariant.
LEMMA StepFresh ==
  ASSUME Checkout
  PROVE  FreshInv /\ [Next]_vars => FreshInv'
<1>1. ASSUME FreshInv, Next
      PROVE  FreshInv'
  BY <1>1, TypesKept, RowsLeadKept, PageLeadsKept, CommittedKept, HashingKept, FactsKept,
     UnflaggedKept, EmptyKept, DriftKept DEF FreshInv
<1>2. ASSUME FreshInv, UNCHANGED vars
      PROVE  FreshInv'
  BY <1>2 DEF vars, checkout, store, history, bounds, FreshInv, Types, RowsLead, PageLeads,
     Committed, Hashing, FactsStand, UnflaggedIsFresh, EmptyIsExplained, DriftIsSaid, Silent,
     Stored
<1>3. QED
  BY <1>1, <1>2

\* Everything unflagged is fresh, for every checkout: an entity without a flag, of
\* a file the meta block does not list as unknown, was read from rows of the bytes
\* that are on disk, unless a run wrote between the page and the checksums or the
\* file was put back.  And INV-7: an empty page whose coverage note names no file had
\* nothing to show, in the directories the index knows.
THEOREM SilenceIsTrue ==
  ASSUME Checkout
  PROVE  Spec => []AnswersAreFresh
<1>1. FreshInv => AnswersAreFresh
  BY DEF FreshInv, AnswersAreFresh
<1>2. QED
  BY <1>1, InitFresh, StepFresh, PTL DEF Spec

\* No answer passes over a checkout that moved on without the index, though the files
\* are hashed one by one while it goes on moving: what is behind and not said was
\* edited by hand.  It needs the commit of the stamp to be that of the checksums, and
\* no checkout while this call hashed, or the one whose cached answer it gives.
THEOREM DriftIsNeverPassedOver ==
  ASSUME Checkout
  PROVE  Spec => []DriftIsSaid
<1>1. FreshInv => DriftIsSaid
  BY DEF FreshInv
<1>2. QED
  BY <1>1, InitFresh, StepFresh, PTL DEF Spec

-----------------------------------------------------------------------------
(* Sets in order.                                                          *)

\* R is a strict and total order of S.
Orders(R, S) ==
  /\ \A x \in S : <<x, x>> \notin R
  /\ \A x, y \in S : x # y => <<x, y>> \in R \/ <<y, x>> \in R
  /\ \A x, y, z \in S : <<x, y>> \in R /\ <<y, z>> \in R => <<x, z>> \in R

Below(R, S, x) == {y \in S : <<y, x>> \in R}

\* What is below in an order has fewer below it.
LEMMA FewerBelow ==
  ASSUME NEW S, IsFiniteSet(S), NEW R, Orders(R, S), NEW x \in S, NEW y \in S, <<x, y>> \in R
  PROVE /\ Cardinality(Below(R, S, x)) \in Nat /\ Cardinality(Below(R, S, y)) \in Nat
        /\ Cardinality(Below(R, S, x)) < Cardinality(Below(R, S, y))
<1>1. IsFiniteSet(Below(R, S, y)) /\ IsFiniteSet(Below(R, S, x))
  BY FS_Subset DEF Below
<1>2. Below(R, S, x) \subseteq Below(R, S, y) /\ x \in Below(R, S, y)
      /\ x \notin Below(R, S, x)
  BY DEF Below, Orders
<1> QED
  BY <1>1, <1>2, FS_Subset, FS_CardinalityType

\* For each place there is one element with so many below it.
LEMMA OneAtEachPlace ==
  ASSUME NEW S, IsFiniteSet(S), NEW R, Orders(R, S), NEW i \in 1..Cardinality(S)
  PROVE \E x \in S : Cardinality(Below(R, S, x)) = i - 1
<1> SUFFICES ASSUME \A x \in S : Cardinality(Below(R, S, x)) # i - 1 PROVE FALSE
  OBVIOUS
<1> DEFINE n == Cardinality(S)
           T0 == (0..(n - 1)) \ {i - 1}
           f == [x \in S |-> Cardinality(Below(R, S, x))]
<1>1. n \in Nat /\ i \in 1..n
  BY FS_CardinalityType
<1>2. \A x \in S : /\ Cardinality(Below(R, S, x)) \in Nat
                   /\ Cardinality(Below(R, S, x)) < n
  <2> TAKE x \in S
  <2>1. Below(R, S, x) \subseteq S /\ x \notin Below(R, S, x)
    BY DEF Below, Orders
  <2> QED
    BY <2>1, FS_Subset, FS_CardinalityType
<1>3. f \in [S -> T0]
  BY <1>1, <1>2
<1>4. \A x, y \in S : x # y => f[x] # f[y]
  <2> SUFFICES ASSUME NEW x \in S, NEW y \in S, x # y, f[x] = f[y] PROVE FALSE
    OBVIOUS
  <2>1. CASE <<x, y>> \in R
    BY <2>1, FewerBelow
  <2>2. CASE <<y, x>> \in R
    BY <2>2, FewerBelow
  <2> QED
    BY <2>1, <2>2 DEF Orders
<1>5. IsFiniteSet(T0) /\ Cardinality(T0) = n - 1
  <2>1. IsFiniteSet(0..(n - 1)) /\ Cardinality(0..(n - 1)) = n
    <3> HIDE DEF n
    <3>1. n - 1 \in Int /\ 0 \in Int /\ ~(0 > n - 1) /\ (n - 1) - 0 + 1 = n
      BY <1>1
    <3> QED
      BY <3>1, FS_Interval
  <2>2. i - 1 \in 0..(n - 1)
    BY <1>1
  <2>3. /\ IsFiniteSet((0..(n - 1)) \ {i - 1})
        /\ Cardinality((0..(n - 1)) \ {i - 1}) = Cardinality(0..(n - 1)) - 1
    <3> DEFINE Places == 0..(n - 1)
    <3> HIDE DEF n, T0, f, Places
    <3>1. IsFiniteSet(Places) /\ i - 1 \in Places
      BY <2>1, <2>2 DEF Places
    <3>2. IsFiniteSet(Places \ {i - 1}) /\ Cardinality(Places \ {i - 1}) = Cardinality(Places) - 1
      BY <3>1, FS_RemoveElement, Zenon
    <3> QED
      BY <3>2 DEF Places
  <2> HIDE DEF n, f
  <2> QED
    BY <2>1, <2>3 DEF T0
<1> HIDE DEF n, T0, f
<1>6. \E x, y \in S : x # y /\ f[x] = f[y]
  BY <1>1, <1>3, <1>5, FS_PigeonHole DEF n
<1> QED
  BY <1>4, <1>6

\* A sequence that has the elements of S, each once, lesser ones first.
Lists(s, S, R) ==
  /\ s \in Seq(S)
  /\ Len(s) = Cardinality(S)
  /\ \A x \in S : \E i \in 1..Len(s) : s[i] = x
  /\ \A i, j \in 1..Len(s) : i < j => <<s[i], s[j]>> \in R
  /\ \A i \in 1..Len(s) : Cardinality(Below(R, S, s[i])) = i - 1

\* Taking at each place the element with so many below it lists the set in order.
LEMMA ListedInOrder ==
  ASSUME NEW S, IsFiniteSet(S), NEW R, Orders(R, S), NEW s,
         s = [i \in 1..Cardinality(S) |->
                CHOOSE x \in S : Cardinality(Below(R, S, x)) = i - 1]
  PROVE Lists(s, S, R)
<1>1. Cardinality(S) \in Nat
  BY FS_CardinalityType
<1>2. \A i \in 1..Cardinality(S) : s[i] \in S /\ Cardinality(Below(R, S, s[i])) = i - 1
  BY OneAtEachPlace
<1>3. s \in Seq(S) /\ Len(s) = Cardinality(S)
  BY <1>1, <1>2
<1>4. \A i, j \in 1..Len(s) : i < j => <<s[i], s[j]>> \in R
  <2> SUFFICES ASSUME NEW i \in 1..Len(s), NEW j \in 1..Len(s), i < j, <<s[i], s[j]>> \notin R
               PROVE FALSE
    OBVIOUS
  <2>1. s[i] \in S /\ s[j] \in S /\ s[i] # s[j]
    BY <1>1, <1>2, <1>3
  <2>2. <<s[j], s[i]>> \in R
    BY <2>1 DEF Orders
  <2> QED
    BY <1>1, <1>2, <1>3, <2>1, <2>2, FewerBelow
<1>5. \A x \in S : \E i \in 1..Len(s) : s[i] = x
  <2> TAKE x \in S
  <2>1. Below(R, S, x) \subseteq S /\ x \notin Below(R, S, x)
    BY DEF Below, Orders
  <2>2. PICK c \in Nat : c = Cardinality(Below(R, S, x)) /\ c < Cardinality(S)
    BY <2>1, FS_Subset, FS_CardinalityType
  <2>3. c + 1 \in 1..Cardinality(S) /\ (c + 1) - 1 = c
    BY <1>1, <2>2
  <2>4. s[c + 1] \in S /\ Cardinality(Below(R, S, s[c + 1])) = c
    BY <1>2, <2>3
  <2>5. \A y \in S : y # x => Cardinality(Below(R, S, y)) # Cardinality(Below(R, S, x))
    <3> SUFFICES ASSUME NEW y \in S, y # x,
                        Cardinality(Below(R, S, y)) = Cardinality(Below(R, S, x))
                 PROVE FALSE
      OBVIOUS
    <3>1. CASE <<y, x>> \in R
      BY <3>1, FewerBelow
    <3>2. CASE <<x, y>> \in R
      BY <3>2, FewerBelow
    <3> QED
      BY <3>1, <3>2 DEF Orders
  <2>6. s[c + 1] = x
    BY <2>2, <2>4, <2>5
  <2> QED
    BY <1>3, <2>3, <2>6
<1> QED
  BY <1>1, <1>2, <1>3, <1>4, <1>5 DEF Lists

-----------------------------------------------------------------------------
(* FindText: the files in order.                                           *)

\* Both modules count alike.
LEMMA TextCardinality == \A S0 : T!Cardinality(S0) = Cardinality(S0)
BY DEF T!Cardinality, Cardinality

Less(S0) == {q \in S0 \X S0 : q[1] < q[2]}

\* The universe of a scan is its paths in order.
LEMMA FilesInOrder ==
  ASSUME NEW S0 \in SUBSET Paths
  PROVE Lists(T!InOrder(S0), S0, Less(S0))
<1>1. S0 \subseteq Nat /\ IsFiniteSet(S0)
  BY TextAssumption, FS_Subset
<1>2. Orders(Less(S0), S0)
  BY <1>1 DEF Orders, Less
<1>3. \A x \in S0 : Below(Less(S0), S0, x) = {q \in S0 : q < x}
  BY DEF Below, Less
<1>4. T!InOrder(S0) = [i \in 1..Cardinality(S0) |->
                         CHOOSE x \in S0 : Cardinality(Below(Less(S0), S0, x)) = i - 1]
  <2>1. T!InOrder(S0) = [i \in 1..Cardinality(S0) |->
                         CHOOSE x \in S0 : Cardinality({q \in S0 : q < x}) = i - 1]
    BY DEF T!InOrder, T!Cardinality, Cardinality
  <2>2. ASSUME NEW i PROVE (CHOOSE x \in S0 : Cardinality({q \in S0 : q < x}) = i - 1)
                         = (CHOOSE x \in S0 : Cardinality(Below(Less(S0), S0, x)) = i - 1)
    BY <1>3
  <2> QED
    BY <2>1, <2>2
<1> QED
  BY <1>1, <1>2, <1>4, ListedInOrder

-----------------------------------------------------------------------------
(* FindText: what a total is. *)

First(s) == CHOOSE x \in s : TRUE

\* f gives every set of U that sum.
Sums(f, price, U) ==
  f = [s \in U |-> IF s = {} THEN 0 ELSE price[First(s)] + f[s \ {First(s)}]]

SumsOf(price, S) == CHOOSE f : Sums(f, price, SUBSET S)

Total(price, S) == SumsOf(price, S)[S]

\* The sum the model takes of the matches is a total.
LEMMA HitsAreATotal == \A X : T!HitsIn(X) = Total(T!Hits, X)
BY DEF T!HitsIn, T!MapThenSumSet, T!MapThenFoldSet, Total, SumsOf, Sums, First

\* A set of numbers has a least one.
LEMMA LeastNumber ==
  ASSUME NEW N, N \subseteq Nat, N # {}
  PROVE \E n \in N : \A m \in N : n <= m
<1>1. PICK n \in N : \A m \in N : ~ (<<m, n>> \in OpToRel(<,Nat))
  BY NatLessThanWellFounded, WFMin
<1>2. \A m \in N : ~ (m < n)
  BY <1>1 DEF OpToRel
<1> QED
  BY <1>2

\* A family of a finite set's subsets has a member that no smaller one takes an element
\* from.
LEMMA LeastSet ==
  ASSUME NEW S, IsFiniteSet(S), NEW F, F \subseteq SUBSET S, F # {}
  PROVE \E s \in F : \A x \in s : s \ {x} \notin F
<1>1. IsWellFoundedOn(StrictSubsetOrdering(S), SUBSET S)
  BY FS_StrictSubsetOrderingWellFounded, FS_FiniteSubsetsOfFinite
<1>2. PICK s \in F : \A r \in F : ~ (<<r, s>> \in StrictSubsetOrdering(S))
  BY <1>1, WFMin
<1>3. ASSUME NEW x \in s, s \ {x} \in F PROVE FALSE
  <2>1. <<s \ {x}, s>> \in StrictSubsetOrdering(S)
    BY <1>3 DEF StrictSubsetOrdering
  <2> QED
    BY <1>2, <1>3, <2>1
<1> QED
  BY <1>3

\* What a sum takes out first is in the set.
LEMMA FirstIsIn == \A s : s # {} => First(s) \in s
BY DEF First

\* The sums exist: of the sets of at most k elements for every k.
LEMMA SumsExist ==
  ASSUME NEW price, NEW S, IsFiniteSet(S)
  PROVE Sums(SumsOf(price, S), price, SUBSET S)
<1> DEFINE Small(k) == {s \in SUBSET S : Cardinality(s) <= k}
           Missing == {k \in Nat : ~ \E f : Sums(f, price, Small(k))}
<1>1. \A s \in SUBSET S : IsFiniteSet(s) /\ Cardinality(s) \in Nat
                          /\ Cardinality(s) <= Cardinality(S)
  BY FS_Subset, FS_CardinalityType
<1>2. Missing = {}
  <2> SUFFICES ASSUME Missing # {} PROVE FALSE
    OBVIOUS
  <2>1. PICK k \in Missing : \A m \in Missing : k <= m
    BY LeastNumber
  <2>2. k # 0
    <3>1. Small(0) = {{}}
      BY <1>1, FS_EmptySet
    <3>2. Sums([s \in {{}} |-> 0], price, {{}})
      BY DEF Sums
    <3> QED
      BY <2>1, <3>1, <3>2
  <2>3. k - 1 \in Nat /\ k - 1 \notin Missing
    <3>1. k \in Nat /\ k - 1 \in Nat /\ ~ (k <= k - 1)
      BY <2>1, <2>2
    <3> HIDE DEF Missing
    <3> QED
      BY <2>1, <3>1
  <2>4. PICK f : Sums(f, price, Small(k - 1))
    BY <2>3
  <2> DEFINE g == [s \in Small(k) |-> IF s = {} THEN 0
                                      ELSE price[First(s)] + f[s \ {First(s)}]]
  <2>5. ASSUME NEW s \in Small(k), s # {}
        PROVE s \ {First(s)} \in Small(k - 1) /\ s \ {First(s)} \in Small(k)
    <3>1. Cardinality(s \ {First(s)}) = Cardinality(s) - 1
      BY <1>1, <2>5, FirstIsIn, FS_RemoveElement
    <3> QED
      BY <1>1, <2>1, <3>1
  <2>6. \A s \in Small(k - 1) : s \in Small(k)
    BY <1>1, <2>1
  <2>7. \A s \in Small(k - 1) : f[s] = g[s]
    BY <2>4, <2>6 DEF Sums
  <2>8. g = [s \in Small(k) |-> IF s = {} THEN 0
                                ELSE price[First(s)] + g[s \ {First(s)}]]
    <3> HIDE DEF Small
    <3>1. \A s \in Small(k) : s # {} => f[s \ {First(s)}] = g[s \ {First(s)}]
      BY <2>5, <2>7
    <3> QED
      BY <3>1
  <2>9. Sums(g, price, Small(k))
    BY <2>8 DEF Sums
  <2> QED
    BY <2>1, <2>9
<1>3. Cardinality(S) \in Nat /\ Small(Cardinality(S)) = SUBSET S
  BY <1>1, FS_CardinalityType
<1>4. \E f : Sums(f, price, SUBSET S)
  BY <1>2, <1>3
<1> QED
  BY <1>4 DEF SumsOf

\* The sums of a set's subsets are those of the subset's own.
LEMMA SumsAgree ==
  ASSUME NEW price, NEW S, IsFiniteSet(S), NEW R \in SUBSET S
  PROVE SumsOf(price, S)[R] = Total(price, R)
<1> DEFINE f == SumsOf(price, S)
           g == SumsOf(price, R)
           Odd == {s \in SUBSET R : f[s] # g[s]}
<1>1. IsFiniteSet(R) /\ SUBSET R \subseteq SUBSET S
  BY FS_Subset
<1>2. Sums(f, price, SUBSET S) /\ Sums(g, price, SUBSET R)
  BY <1>1, SumsExist
<1>3. ASSUME NEW s \in Odd, \A x \in s : s \ {x} \notin Odd PROVE FALSE
  <2> HIDE DEF f, g
  <2>1. CASE s = {}
    BY <1>1, <1>2, <1>3, <2>1 DEF Sums
  <2>2. CASE s # {}
    <3>1. First(s) \in s /\ s \ {First(s)} \in SUBSET R /\ s \in SUBSET S
      BY <1>1, <2>2, FirstIsIn
    <3>2. f[s \ {First(s)}] = g[s \ {First(s)}]
      BY <1>3, <3>1
    <3>3. /\ f[s] = price[First(s)] + f[s \ {First(s)}]
          /\ g[s] = price[First(s)] + g[s \ {First(s)}]
      BY <1>2, <2>2, <3>1 DEF Sums
    <3> QED
      BY <1>3, <3>2, <3>3
  <2> QED
    BY <2>1, <2>2
<1>4. Odd = {}
  BY <1>1, <1>3, LeastSet
<1>5. R \in SUBSET R
  OBVIOUS
<1> QED
  BY <1>4, <1>5 DEF Total

\* A total is the first price and the total of the rest.
LEMMA TotalUnfolds ==
  ASSUME NEW price, NEW S, IsFiniteSet(S)
  PROVE /\ Total(price, {}) = 0
        /\ S # {} => Total(price, S)
                       = price[First(S)] + Total(price, S \ {First(S)})
<1>1. /\ {} \in SUBSET S /\ S \in SUBSET S
      /\ S \ {First(S)} \in SUBSET S
  OBVIOUS
<1>2. Sums(SumsOf(price, S), price, SUBSET S)
  BY SumsExist
<1>3. /\ SumsOf(price, S)[{}] = Total(price, {})
      /\ SumsOf(price, S)[S] = Total(price, S)
      /\ SumsOf(price, S)[S \ {First(S)}] = Total(price, S \ {First(S)})
  BY <1>1, SumsAgree
<1>4. /\ SumsOf(price, S)[{}] = 0
      /\ S # {} => SumsOf(price, S)[S]
                     = price[First(S)] + SumsOf(price, S)[S \ {First(S)}]
  BY <1>1, <1>2 DEF Sums
<1> QED
  BY <1>3, <1>4

\* Totals are numbers.
LEMMA TotalIsANumber ==
  ASSUME NEW S, IsFiniteSet(S), NEW price \in [S -> Nat]
  PROVE \A R \in SUBSET S : Total(price, R) \in Nat
<1> DEFINE Odd == {s \in SUBSET S : Total(price, s) \notin Nat}
<1>1. ASSUME NEW s \in Odd, \A x \in s : s \ {x} \notin Odd PROVE FALSE
  <2>1. IsFiniteSet(s)
    BY FS_Subset
  <2>2. s # {}
    <3>1. Total(price, {}) = 0
      BY <2>1, TotalUnfolds
    <3> QED
      BY <1>1, <3>1
  <2>3. First(s) \in s /\ Total(price, s) = price[First(s)] + Total(price, s \ {First(s)})
    BY <2>1, <2>2, FirstIsIn, TotalUnfolds
  <2>4. Total(price, s \ {First(s)}) \in Nat
    BY <1>1, <2>3
  <2>5. price[First(s)] \in Nat
    BY <2>3
  <2> QED
    BY <1>1, <2>3, <2>4, <2>5
<1> QED
  BY <1>1, LeastSet

\* Whatever is taken out first.
LEMMA TotalWithout ==
  ASSUME NEW S, IsFiniteSet(S), NEW price \in [S -> Nat]
  PROVE \A R \in SUBSET S : \A x \in R :
          Total(price, R) = price[x] + Total(price, R \ {x})
<1> DEFINE Odd == {s \in SUBSET S : \E x \in s :
                     Total(price, s) # price[x] + Total(price, s \ {x})}
<1>1. ASSUME NEW s \in Odd, \A x \in s : s \ {x} \notin Odd PROVE FALSE
  <2>1. PICK x \in s : Total(price, s) # price[x] + Total(price, s \ {x})
    OBVIOUS
  <2> DEFINE a == First(s)
  <2>2. IsFiniteSet(s) /\ a \in s
    BY FS_Subset, FirstIsIn
  <2>3. Total(price, s) = price[a] + Total(price, s \ {a})
    BY <2>2, TotalUnfolds
  <2>4. x # a
    BY <2>1, <2>3
  <2>5. /\ Total(price, s \ {a}) = price[x] + Total(price, (s \ {a}) \ {x})
    BY <1>1, <2>2, <2>4
  <2>6. /\ Total(price, s \ {x}) = price[a] + Total(price, (s \ {x}) \ {a})
    BY <1>1, <2>2, <2>4
  <2>7. (s \ {x}) \ {a} = (s \ {a}) \ {x} /\ (s \ {a}) \ {x} \in SUBSET S
    OBVIOUS
  <2>8. /\ Total(price, (s \ {a}) \ {x}) \in Nat
        /\ price[a] \in Nat /\ price[x] \in Nat
    BY <2>2, <2>7, TotalIsANumber
  <2> HIDE DEF a
  <2> QED
    BY <2>1, <2>3, <2>5, <2>6, <2>7, <2>8
<1> QED
  BY <1>1, LeastSet

\* A larger set costs no less.
LEMMA TotalGrows ==
  ASSUME NEW S, IsFiniteSet(S), NEW price \in [S -> Nat], NEW R \in SUBSET S
  PROVE \A B \in SUBSET R : Total(price, B) <= Total(price, R)
<1> SUFFICES ASSUME NEW B \in SUBSET R, ~ Total(price, B) <= Total(price, R)
             PROVE FALSE
  OBVIOUS
<1> DEFINE Odd == {s \in SUBSET S : B \subseteq s
                                    /\ ~ Total(price, B) <= Total(price, s)}
<1>1. ASSUME NEW s \in Odd, \A x \in s : s \ {x} \notin Odd PROVE FALSE
  <2>1. Total(price, s) \in Nat /\ Total(price, B) \in Nat
    BY TotalIsANumber
  <2>2. PICK x \in s : x \notin B
    BY <1>1, <2>1
  <2>3. Total(price, B) <= Total(price, s \ {x})
    BY <1>1, <2>2
  <2>4. /\ Total(price, s) = price[x] + Total(price, s \ {x})
        /\ Total(price, s \ {x}) \in Nat /\ price[x] \in Nat
    BY TotalWithout, TotalIsANumber
  <2> QED
    BY <1>1, <2>1, <2>3, <2>4
<1>2. R \in Odd /\ Odd \subseteq SUBSET S
  OBVIOUS
<1> HIDE DEF Odd
<1> QED
  BY <1>1, <1>2, LeastSet

-----------------------------------------------------------------------------
(* Sequences put end to end.                                               *)

\* What is where in two sequences put end to end.
LEMMA CatIs ==
  ASSUME NEW X, NEW s \in Seq(X), NEW t \in Seq(X)
  PROVE /\ s \o t \in Seq(X) /\ Len(s \o t) = Len(s) + Len(t)
        /\ Len(s) \in Nat /\ Len(t) \in Nat
        /\ \A i \in 1..Len(s) : (s \o t)[i] = s[i]
        /\ \A i \in 1..(Len(s) + Len(t)) : ~ (i <= Len(s)) => (s \o t)[i] = t[i - Len(s)]
OBVIOUS

IsFlat(f, s, n) == f = [i \in 1..n |-> IF i = 1 THEN s[i] ELSE f[i - 1] \o s[i]]

\* The sequences put end to end exist, up to every n.
LEMMA FlatExists == \A s : \A n \in Nat : \E f : IsFlat(f, s, n)
<1> TAKE s
<1> DEFINE Missing == {n \in Nat : ~ \E f : IsFlat(f, s, n)}
<1>1. ASSUME NEW n \in Missing, \A m \in Missing : n <= m PROVE FALSE
  <2>1. n # 0
    <3>1. IsFlat([i \in 1..0 |-> 0], s, 0)
      BY DEF IsFlat
    <3> QED
      BY <1>1, <3>1
  <2>2. n \in Nat /\ n - 1 \in Nat /\ ~ (n <= n - 1)
    BY <1>1, <2>1
  <2>3. PICK f : IsFlat(f, s, n - 1)
    BY <1>1, <2>2
  <2> DEFINE g == [i \in 1..n |-> IF i = 1 THEN s[i] ELSE f[i - 1] \o s[i]]
  <2>4. \A i \in 1..(n - 1) : g[i] = f[i]
    <3> TAKE i \in 1..(n - 1)
    <3>1. i \in 1..n
      BY <2>2
    <3>2. f[i] = IF i = 1 THEN s[i] ELSE f[i - 1] \o s[i]
      BY <2>3 DEF IsFlat
    <3> QED
      BY <3>1, <3>2
  <2>5. \A i \in 1..n : i # 1 => f[i - 1] = g[i - 1]
    <3> TAKE i \in 1..n
    <3> HIDE DEF g
    <3>1. i # 1 => i - 1 \in 1..(n - 1)
      BY <2>2
    <3> QED
      BY <2>4, <3>1
  <2>6. IsFlat(g, s, n)
    <3> SUFFICES g = [i \in 1..n |-> IF i = 1 THEN s[i] ELSE g[i - 1] \o s[i]]
      BY DEF IsFlat
    <3>1. [i \in 1..n |-> IF i = 1 THEN s[i] ELSE g[i - 1] \o s[i]]
          = [i \in 1..n |-> IF i = 1 THEN s[i] ELSE f[i - 1] \o s[i]]
      <4> HIDE DEF g
      <4> QED
        BY <2>5
    <3> QED
      BY <3>1
  <2> QED
    BY <1>1, <2>6
<1> HIDE DEF Missing
<1>2. Missing = {}
  <2>1. Missing \subseteq Nat
    BY DEF Missing
  <2> QED
    BY <1>1, <2>1, LeastNumber
<1> QED
  BY <1>2 DEF Missing

\* The first k of them.
UpTo(s, k) == IF k = 0 THEN <<>> ELSE (CHOOSE f : IsFlat(f, s, Len(s)))[k]

\* The first k are the first k - 1 and the k-th; all of them are the flat sequence.
LEMMA UpToSteps ==
  ASSUME NEW X, NEW s \in Seq(Seq(X))
  PROVE /\ UpTo(s, 0) = <<>>
        /\ \A k \in 1..Len(s) : UpTo(s, k) = UpTo(s, k - 1) \o s[k]
        /\ \A k \in 0..Len(s) : UpTo(s, k) \in Seq(X)
        /\ T!FlattenSeq(s) = UpTo(s, Len(s))
<1> DEFINE f == CHOOSE g : IsFlat(g, s, Len(s))
<1>0. Len(s) \in Nat /\ \A k \in 1..Len(s) : s[k] \in Seq(X)
  OBVIOUS
<1>1. IsFlat(f, s, Len(s))
  BY <1>0, FlatExists
<1> HIDE DEF f
<1>2. UpTo(s, 0) = <<>> /\ \A k \in 1..Len(s) : UpTo(s, k) = f[k]
  BY <1>0 DEF UpTo, f
<1>3. \A k \in 1..Len(s) : f[k] = IF k = 1 THEN s[k] ELSE f[k - 1] \o s[k]
  BY <1>1 DEF IsFlat
<1>4. \A k \in 1..Len(s) : UpTo(s, k) = UpTo(s, k - 1) \o s[k]
  <2> TAKE k \in 1..Len(s)
  <2>1. CASE k = 1
    <3>1. <<>> \o s[k] = s[k]
      BY <1>0
    <3> QED
      BY <1>2, <1>3, <2>1, <3>1
  <2>2. CASE k # 1
    <3>1. k - 1 \in 1..Len(s)
      BY <1>0, <2>2
    <3> QED
      BY <1>2, <1>3, <2>2, <3>1
  <2> QED
    BY <2>1, <2>2
<1>5. \A k \in 0..Len(s) : UpTo(s, k) \in Seq(X)
  <2> DEFINE Odd == {k \in 0..Len(s) : UpTo(s, k) \notin Seq(X)}
  <2>1. ASSUME NEW k \in Odd, \A m \in Odd : k <= m PROVE FALSE
    <3>0. k \in 0..Len(s) /\ UpTo(s, k) \notin Seq(X)
      OBVIOUS
    <3>1. k # 0
      <4>1. <<>> \in Seq(X)
        OBVIOUS
      <4> QED
        BY <1>2, <3>0, <4>1
    <3>2. k \in 1..Len(s) /\ k - 1 \in 0..Len(s) /\ ~ (k <= k - 1)
      BY <1>0, <3>0, <3>1
    <3>3. UpTo(s, k - 1) \in Seq(X)
      BY <2>1, <3>2
    <3>4. UpTo(s, k - 1) \o s[k] \in Seq(X)
      BY <1>0, <3>2, <3>3, CatIs
    <3> QED
      BY <1>4, <3>0, <3>2, <3>4
  <2>2. Odd \subseteq Nat
    BY <1>0
  <2> HIDE DEF Odd
  <2>3. Odd = {}
    BY <2>1, <2>2, LeastNumber
  <2> QED
    BY <2>3 DEF Odd
<1>6. T!FlattenSeq(s) = UpTo(s, Len(s))
  <2>1. CASE Len(s) = 0
    BY <1>2, <2>1 DEF T!FlattenSeq
  <2>2. CASE Len(s) # 0
    <3>1. T!FlattenSeq(s) = (CHOOSE g : IsFlat(g, s, Len(s)))[Len(s)]
      BY <2>2 DEF T!FlattenSeq, IsFlat
    <3> QED
      BY <2>2, <3>1 DEF UpTo
  <2> QED
    BY <2>1, <2>2
<1> QED
  BY <1>2, <1>4, <1>5, <1>6

\* a is how b begins.
Begins(a, b) == Len(a) <= Len(b) /\ \A i \in 1..Len(a) : a[i] = b[i]

\* Fewer of them begin as more of them do.
LEMMA UpToBegins ==
  ASSUME NEW X, NEW s \in Seq(Seq(X)), NEW k \in 0..Len(s)
  PROVE \A j \in 0..k : Begins(UpTo(s, j), UpTo(s, k))
<1> DEFINE Bad(n) == \E j \in 0..n : ~Begins(UpTo(s, j), UpTo(s, n))
           Odd == {n \in 0..Len(s) : Bad(n)}
<1>0. /\ Len(s) \in Nat /\ \A i \in 1..Len(s) : s[i] \in Seq(X)
      /\ \A n \in 1..Len(s) : UpTo(s, n) = UpTo(s, n - 1) \o s[n]
      /\ \A n \in 0..Len(s) : UpTo(s, n) \in Seq(X)
  <2>1. Len(s) \in Nat /\ \A i \in 1..Len(s) : s[i] \in Seq(X)
    OBVIOUS
  <2> HIDE DEF Bad, Odd
  <2> QED
    BY <2>1, UpToSteps
<1>1. ASSUME NEW n \in 0..Len(s), Bad(n), n # 0 => ~Bad(n - 1) PROVE FALSE
  <2>1. PICK j \in 0..n : ~Begins(UpTo(s, j), UpTo(s, n))
    BY <1>1
  <2>2. j # n
    BY <2>1 DEF Begins
  <2>3. n \in 1..Len(s) /\ n - 1 \in 0..Len(s) /\ j \in 0..(n - 1) /\ j \in 0..Len(s)
    BY <1>0, <1>1, <2>1, <2>2
  <2>4. Begins(UpTo(s, j), UpTo(s, n - 1))
    BY <1>1, <2>3
  <2> HIDE DEF Bad
  <2>5. /\ UpTo(s, n) = UpTo(s, n - 1) \o s[n] /\ s[n] \in Seq(X)
        /\ UpTo(s, n - 1) \in Seq(X) /\ UpTo(s, j) \in Seq(X)
    BY <1>0, <2>3
  <2> DEFINE u == UpTo(s, n - 1)
             v == UpTo(s, n)
             w == UpTo(s, j)
             t == s[n]
  <2>6. u \in Seq(X) /\ w \in Seq(X) /\ t \in Seq(X) /\ v = u \o t /\ Begins(w, u) /\ ~Begins(w, v)
    BY <2>1, <2>4, <2>5
  <2> HIDE DEF u, v, w, t
  <2>7. /\ Len(v) = Len(u) + Len(t) /\ Len(u) \in Nat /\ Len(t) \in Nat /\ Len(w) \in Nat
        /\ \A i \in 1..Len(u) : v[i] = u[i]
    BY <2>6, CatIs
  <2> QED
    BY <2>6, <2>7 DEF Begins
<1>2. Odd \subseteq Nat /\ \A n \in Odd : n \in 0..Len(s) /\ Bad(n)
  BY <1>0
<1>3. \A n \in 0..Len(s) : Bad(n) => n \in Odd
  OBVIOUS
<1>4. Odd = {}
  <2> SUFFICES ASSUME Odd # {} PROVE FALSE
    OBVIOUS
  <2> HIDE DEF Odd
  <2>1. PICK n \in Odd : \A m \in Odd : n <= m
    BY <1>2, LeastNumber
  <2>2. n \in Nat /\ n \in 0..Len(s) /\ Bad(n)
    BY <1>2
  <2> HIDE DEF Bad
  <2>3. n # 0 => n - 1 \in 0..Len(s) /\ ~ (n <= n - 1)
    BY <1>0, <2>2
  <2> QED
    BY <1>1, <1>3, <2>1, <2>2, <2>3
<1> HIDE DEF Odd
<1>5. ~Bad(k)
  <2> HIDE DEF Bad
  <2> QED
    BY <1>3, <1>4
<1> QED
  BY <1>5

\* Its first n elements, or all.
Prefix(s, n) == SubSeq(s, 1, IF n <= Len(s) THEN n ELSE Len(s))

\* What a prefix is.
LEMMA PrefixIs ==
  ASSUME NEW X, NEW s \in Seq(X), NEW n \in Nat
  PROVE /\ Prefix(s, n) \in Seq(X)
        /\ Len(Prefix(s, n)) = (IF n <= Len(s) THEN n ELSE Len(s))
        /\ \A i \in 1..Len(Prefix(s, n)) : Prefix(s, n)[i] = s[i]
<1> DEFINE m == IF n <= Len(s) THEN n ELSE Len(s)
<1>1. m \in 0..Len(s) /\ Len(s) \in Nat
  OBVIOUS
<1> HIDE DEF m
<1>2. SubSeq(s, 1, m) \in Seq(X) /\ Len(SubSeq(s, 1, m)) = m
      /\ \A i \in 1..m : SubSeq(s, 1, m)[i] = s[i]
  BY <1>1, SubSeqProperties
<1> QED
  BY <1>2 DEF Prefix, m

\* Cutting before appending changes nothing of a cut made after it.
LEMMA PrefixOfPrefix ==
  ASSUME NEW X, NEW s \in Seq(X), NEW t \in Seq(X), NEW n \in Nat
  PROVE Prefix(Prefix(s, n) \o t, n) = Prefix(s \o t, n)
<1> DEFINE p == Prefix(s, n)
           a == Prefix(p \o t, n)
           b == Prefix(s \o t, n)
<1>1. /\ p \in Seq(X) /\ Len(p) = (IF n <= Len(s) THEN n ELSE Len(s))
      /\ \A i \in 1..Len(p) : p[i] = s[i]
  BY PrefixIs
<1> HIDE DEF p
<1>2a. /\ p \o t \in Seq(X) /\ Len(p \o t) = Len(p) + Len(t)
       /\ Len(t) \in Nat /\ Len(p) \in Nat
       /\ \A i \in 1..Len(p) : (p \o t)[i] = p[i]
       /\ \A i \in 1..(Len(p) + Len(t)) : ~ (i <= Len(p)) => (p \o t)[i] = t[i - Len(p)]
  <2>1. p \in Seq(X)
    BY <1>1
  <2> QED
    BY <2>1, CatIs
<1>2b. /\ s \o t \in Seq(X) /\ Len(s \o t) = Len(s) + Len(t)
       /\ Len(s) \in Nat
       /\ \A i \in 1..Len(s) : (s \o t)[i] = s[i]
       /\ \A i \in 1..(Len(s) + Len(t)) : ~ (i <= Len(s)) => (s \o t)[i] = t[i - Len(s)]
  BY CatIs
<1>3. /\ a \in Seq(X) /\ Len(a) = (IF n <= Len(p \o t) THEN n ELSE Len(p \o t))
      /\ \A i \in 1..Len(a) : a[i] = (p \o t)[i]
  BY <1>2a, <1>2b, PrefixIs
<1>4. /\ b \in Seq(X) /\ Len(b) = (IF n <= Len(s \o t) THEN n ELSE Len(s \o t))
      /\ \A i \in 1..Len(b) : b[i] = (s \o t)[i]
  BY <1>2a, <1>2b, PrefixIs
<1> HIDE DEF a, b
<1>5. Len(a) = Len(b)
  BY <1>1, <1>2a, <1>2b, <1>3, <1>4
<1>6. \A i \in 1..Len(a) : a[i] = b[i]
  <2> TAKE i \in 1..Len(a)
  <2>1. i \in Nat /\ i >= 1 /\ i <= n /\ i <= Len(p \o t) /\ i <= Len(s \o t)
    BY <1>2a, <1>2b, <1>3, <1>4, <1>5
  <2>2. a[i] = (p \o t)[i] /\ b[i] = (s \o t)[i]
    BY <1>3, <1>4, <1>5
  <2>3. CASE n <= Len(s)
    <3>1. i \in 1..Len(p) /\ i <= Len(s)
      BY <1>1, <2>1, <2>3
    <3> QED
      BY <1>1, <1>2a, <1>2b, <2>1, <2>2, <3>1
  <2>4. CASE ~ (n <= Len(s))
    <3>1. Len(p) = Len(s)
      BY <1>1, <2>4
    <3> QED
      BY <1>1, <1>2a, <1>2b, <2>1, <2>2, <3>1
  <2> QED
    BY <2>3, <2>4
<1>7. a = b
  BY <1>3, <1>4, <1>5, <1>6, SeqEqual
<1> QED
  BY <1>7 DEF a, b, p

-----------------------------------------------------------------------------
(* FindText: the invariant.                                                *)

Lines == Paths \X Nat
Trees == [Paths -> Versions \cup {Absent}]

\* The files of a tree and those indexed, the matches of each, and the lines of these.
InTree(known, tree) == T!InOrder(known \cup {p \in Paths : tree[p] # Absent})
HitsOf(tree) ==
  [p \in Paths |-> IF tree[p] = Absent \/ tree[p].binary THEN 0 ELSE tree[p].hits]
LinesOf(tree, u) == [i \in 1..Len(u) |-> [n \in 1..HitsOf(tree)[u[i]] |-> <<u[i], n>>]]
LinesIn(known, tree) == LET u == InTree(known, tree) IN UpTo(LinesOf(tree, u), Len(u))

\* The files nothing is claimed of: edited under the walk, or given to no scan of it.
Excused == tTouched \cup tBeyond

\* The files a scan has been at, when it is at the n-th of them.
Seen(n) == {tUniverse[i] : i \in 1..n}

\* The files of a scan, none of them twice.
FilesOf(u) == {u[i] : i \in 1..Len(u)}
Distinct(u) == \A i, j \in 1..Len(u) : u[i] = u[j] => i = j

CensusTypes ==
  /\ tDisk \in Trees /\ tBase \in Trees
  /\ tIndexed \subseteq Paths /\ tTouched \subseteq Paths /\ tBeyond \subseteq Paths
  /\ tGap \in BOOLEAN /\ (~tGap => tBeyond = {})
  /\ tPc \in {"idle", "stat", "read", "answer", "done"}
  /\ tLimit \in Nat \ {0} /\ tOffset \in Nat /\ tCounted \in Nat
  /\ tUniverse \in Seq(Paths)
  /\ Distinct(tUniverse)
  /\ tAt \in 1..(Len(tUniverse) + 1)
  /\ tPc = "read" => tAt <= Len(tUniverse)
  /\ tKept \in Seq(Lines) /\ tPages \in Seq(Lines)
  /\ tTimedOut \in BOOLEAN

\* Each of the first n files is in one class.
Accounted(n) ==
  /\ tSearched \cup tBinary \cup tUnreadable = Seen(n)
  /\ tSearched \cap tBinary = {} /\ tSearched \cap tUnreadable = {}
  /\ tBinary \cap tUnreadable = {}

Through ==
  tAt = Len(tUniverse) + 1 /\ tSkipped = {} /\ ~tTimedOut /\ Accounted(Len(tUniverse))

\* A scan that stopped has counted the file it was at among those left out.
StoppedEarly ==
  /\ tAt <= Len(tUniverse) /\ tSkipped = T!Rest
  /\ IF tTimedOut THEN Accounted(tAt) ELSE Accounted(tAt - 1)

Census ==
  /\ tPc \in {"stat", "read"} => Accounted(tAt - 1) /\ tSkipped = {} /\ ~tTimedOut
  /\ tPc = "answer" => StoppedEarly
  /\ tPc = "done" => StoppedEarly \/ Through

\* What stood still is as it was when the walk began, and in the scan if it is there.
StoodStill ==
  /\ \A p \in Paths \ Excused : tDisk[p] = tBase[p]
  /\ tPc # "idle" => \A p \in Paths \ Excused :
                       p \in Seen(Len(tUniverse)) \/ tBase[p] = Absent

Counting ==
  tPc \in {"stat", "read"} \/ (tPc = "done" /\ tSkipped = {}) =>
    /\ tCounted >= Total(HitsOf(tBase), Seen(tAt - 1) \ Excused)
    /\ Excused = {} => tCounted = Total(HitsOf(tBase), Seen(tAt - 1))

Expected == InTree(tIndexed, tBase)
AllLines == LinesIn(tIndexed, tBase)

\* When nothing moves, the pages and what a scan has kept are how all lines begin.
Walking ==
  /\ tPc # "done" => Len(tPages) = tOffset
  /\ Excused = {} =>
       /\ tPc # "idle" => tUniverse = Expected
       /\ tPc # "done" => Begins(tPages, AllLines)
       /\ tPc \in {"stat", "read"} =>
            tKept = Prefix(UpTo(LinesOf(tBase, tUniverse), tAt - 1), T!Keep)
       /\ tPc = "answer" => Begins(tKept, AllLines)
       /\ tPc = "done" /\ tSkipped = {} => tPages = AllLines

CensusInv == CensusTypes /\ Census /\ StoodStill /\ Counting /\ Walking

-----------------------------------------------------------------------------
(* FindText: what the steps need.                                          *)

\* A tree's matches are numbers.
LEMMA HitsAreNumbers ==
  ASSUME NEW tree \in Trees
  PROVE HitsOf(tree) \in [Paths -> Nat]
BY TextAssumption DEF HitsOf, Trees

\* The model's matches are those of the files the walk began with.
LEMMA HitsAreThese == T!Hits = HitsOf(tBase)
BY DEF T!Hits, HitsOf

\* What costs nothing adds nothing.
LEMMA TotalOverZeros ==
  ASSUME NEW X, IsFiniteSet(X), NEW price \in [X -> Nat], NEW R \in SUBSET X,
         NEW B \in SUBSET R, \A x \in R \ B : price[x] = 0
  PROVE Total(price, R) = Total(price, B)
<1> DEFINE Odd == {s \in SUBSET R : B \subseteq s /\ Total(price, s) # Total(price, B)}
<1>1. ASSUME NEW s \in Odd, \A x \in s : s \ {x} \notin Odd PROVE FALSE
  <2>1. PICK x \in s : x \notin B
    BY <1>1
  <2>2. Total(price, s \ {x}) = Total(price, B)
    BY <1>1, <2>1
  <2>3. /\ Total(price, s) = price[x] + Total(price, s \ {x})
        /\ Total(price, s \ {x}) \in Nat
    BY TotalWithout, TotalIsANumber
  <2>4. price[x] = 0
    BY <2>1
  <2> QED
    BY <1>1, <2>2, <2>3, <2>4
<1>2. Odd \subseteq SUBSET X
  OBVIOUS
<1>3. Odd = {}
  <2> HIDE DEF Odd
  <2> QED
    BY <1>1, <1>2, LeastSet
<1> QED
  BY <1>3

\* The lines of a universe, file by file.
LEMMA LinesAreLines ==
  ASSUME NEW tree \in Trees, NEW u \in Seq(Paths)
  PROVE /\ LinesOf(tree, u) \in Seq(Seq(Lines)) /\ Len(LinesOf(tree, u)) = Len(u)
        /\ \A i \in 1..Len(u) : LinesOf(tree, u)[i] = [n \in 1..HitsOf(tree)[u[i]] |-> <<u[i], n>>]
<1>1. \A i \in 1..Len(u) : u[i] \in Paths /\ HitsOf(tree)[u[i]] \in Nat
  BY HitsAreNumbers
<1>2. \A i \in 1..Len(u) : [n \in 1..HitsOf(tree)[u[i]] |-> <<u[i], n>>] \in Seq(Lines)
  <2> TAKE i \in 1..Len(u)
  <2>1. PICK h \in Nat : h = HitsOf(tree)[u[i]]
    BY <1>1
  <2>2. \A n \in 1..h : <<u[i], n>> \in Lines
    BY <1>1 DEF Lines
  <2>3. [n \in 1..h |-> <<u[i], n>>] \in Seq(Lines)
    BY <2>2
  <2> QED
    BY <2>1, <2>3
<1>3. Len(u) \in Nat
  OBVIOUS
<1> QED
  BY <1>2, <1>3 DEF LinesOf

\* The universe of a scan.
LEMMA UniverseIs ==
  ASSUME NEW s \in SUBSET Paths, NEW u, u = T!InOrder(s)
  PROVE u \in Seq(Paths) /\ Distinct(u) /\ s \subseteq FilesOf(u)
<1>1. Lists(u, s, Less(s))
  BY FilesInOrder
<1>2. u \in Seq(Paths)
  BY <1>1 DEF Lists
<1>3. \A i, j \in 1..Len(u) : u[i] = u[j] => i = j
  <2> SUFFICES ASSUME NEW i \in 1..Len(u), NEW j \in 1..Len(u), u[i] = u[j], i < j PROVE FALSE
    BY <1>2
  <2>1. <<u[i], u[j]>> \in Less(s)
    BY <1>1 DEF Lists
  <2>2. u[i] \in Paths
    BY <1>2
  <2>3. u[i] \in Nat
    BY <2>2, TextAssumption
  <2>4. PICK v \in Nat : v = u[i]
    BY <2>3
  <2>5. <<v, v>> \in Less(s)
    BY <2>1, <2>4
  <2>6. <<v, v>>[1] < <<v, v>>[2]
    BY <2>5 DEF Less
  <2> QED
    BY <2>6
<1>4. s \subseteq FilesOf(u)
  BY <1>1 DEF Lists, FilesOf
<1> QED
  BY <1>2, <1>3, <1>4 DEF Distinct

\* All lines are lines.
LEMMA AllLinesAre ==
  ASSUME NEW known \in SUBSET Paths, NEW tree \in Trees
  PROVE LinesIn(known, tree) \in Seq(Lines)
<1> DEFINE u == InTree(known, tree)
<1>1. u \in Seq(Paths)
  <2>1. known \cup {p \in Paths : tree[p] # Absent} \in SUBSET Paths
    OBVIOUS
  <2> QED
    BY <2>1, UniverseIs DEF InTree
<1> HIDE DEF u
<1>2. LinesOf(tree, u) \in Seq(Seq(Lines)) /\ Len(LinesOf(tree, u)) = Len(u)
  BY <1>1, LinesAreLines
<1>3. Len(u) \in 0..Len(LinesOf(tree, u))
  BY <1>1, <1>2
<1>4. UpTo(LinesOf(tree, u), Len(u)) \in Seq(Lines)
  BY <1>2, <1>3, UpToSteps
<1> QED
  BY <1>4 DEF LinesIn, u

\* One file further.
LEMMA OneFileMore ==
  ASSUME CensusTypes, tAt <= Len(tUniverse), NEW p, p = tUniverse[tAt], NEW n \in Nat,
         p \notin Excused => n = HitsOf(tBase)[p]
  PROVE /\ p \in Paths /\ p \notin Seen(tAt - 1) /\ Seen(tAt) = Seen(tAt - 1) \cup {p}
        /\ tAt \in Nat /\ tAt - 1 \in 0..Len(tUniverse) /\ (tAt + 1) - 1 = tAt
        /\ tCounted >= Total(HitsOf(tBase), Seen(tAt - 1) \ Excused)
           => tCounted + n >= Total(HitsOf(tBase), Seen(tAt) \ Excused)
        /\ Excused = {} /\ tCounted = Total(HitsOf(tBase), Seen(tAt - 1))
           => tCounted + n = Total(HitsOf(tBase), Seen(tAt))
        /\ Excused = {} => UpTo(LinesOf(tBase, tUniverse), tAt)
             = UpTo(LinesOf(tBase, tUniverse), tAt - 1) \o [k \in 1..n |-> <<p, k>>]
<1>1. /\ tAt \in 1..Len(tUniverse) /\ Len(tUniverse) \in Nat /\ p \in Paths
      /\ tUniverse \in Seq(Paths)
      /\ tAt \in Nat /\ tAt - 1 \in 0..Len(tUniverse) /\ (tAt + 1) - 1 = tAt
  BY DEF CensusTypes
<1>2. p \notin Seen(tAt - 1) /\ Seen(tAt) = Seen(tAt - 1) \cup {p}
  <2>1. \A i \in 1..(tAt - 1) : i \in 1..Len(tUniverse) /\ i # tAt
    BY <1>1
  <2>2. 1..tAt = (1..(tAt - 1)) \cup {tAt}
    BY <1>1
  <2> QED
    BY <1>1, <2>1, <2>2 DEF CensusTypes, Distinct, Seen
<1>3. HitsOf(tBase) \in [Paths -> Nat] /\ IsFiniteSet(Paths)
  BY HitsAreNumbers, TextAssumption DEF CensusTypes
<1>4. \A k \in 0..Len(tUniverse) : Seen(k) \subseteq Paths
  BY <1>1 DEF Seen
<1>5. Seen(tAt) \subseteq Paths /\ Seen(tAt - 1) \subseteq Paths
  BY <1>2, <1>4, <1>1
<1>6. p \notin Excused => Total(HitsOf(tBase), Seen(tAt) \ Excused)
                           = n + Total(HitsOf(tBase), Seen(tAt - 1) \ Excused)
  <2> SUFFICES ASSUME p \notin Excused
               PROVE Total(HitsOf(tBase), Seen(tAt) \ Excused)
                     = n + Total(HitsOf(tBase), Seen(tAt - 1) \ Excused)
    OBVIOUS
  <2>1. (Seen(tAt) \ Excused) \ {p} = Seen(tAt - 1) \ Excused /\ p \in Seen(tAt) \ Excused
    BY <1>2
  <2>2. Seen(tAt) \ Excused \in SUBSET Paths
    BY <1>5
  <2>3. Total(HitsOf(tBase), Seen(tAt) \ Excused)
        = HitsOf(tBase)[p] + Total(HitsOf(tBase), (Seen(tAt) \ Excused) \ {p})
    BY <1>3, <2>1, <2>2, TotalWithout
  <2> QED
    BY <2>1, <2>3
<1>7. p \in Excused => Seen(tAt) \ Excused = Seen(tAt - 1) \ Excused
  BY <1>2
<1>8. /\ Total(HitsOf(tBase), Seen(tAt) \ Excused) \in Nat
      /\ Total(HitsOf(tBase), Seen(tAt - 1) \ Excused) \in Nat /\ tCounted \in Nat
  <2>1. Seen(tAt) \ Excused \in SUBSET Paths /\ Seen(tAt - 1) \ Excused \in SUBSET Paths
    BY <1>5
  <2> QED
    BY <1>3, <2>1, TotalIsANumber DEF CensusTypes
<1>9. tCounted >= Total(HitsOf(tBase), Seen(tAt - 1) \ Excused)
      => tCounted + n >= Total(HitsOf(tBase), Seen(tAt) \ Excused)
  <2>1. PICK a \in Nat, b \in Nat : /\ a = Total(HitsOf(tBase), Seen(tAt) \ Excused)
                                    /\ b = Total(HitsOf(tBase), Seen(tAt - 1) \ Excused)
    BY <1>8
  <2>2. a = n + b \/ a = b
    BY <1>6, <1>7, <2>1
  <2>3. tCounted \in Nat
    BY <1>8
  <2>4. tCounted >= b => tCounted + n >= a
    BY <2>2, <2>3
  <2> QED
    BY <2>1, <2>4
<1>10. Excused = {} /\ tCounted = Total(HitsOf(tBase), Seen(tAt - 1))
       => tCounted + n = Total(HitsOf(tBase), Seen(tAt))
  <2>1. Excused = {} => Seen(tAt) \ Excused = Seen(tAt)
                         /\ Seen(tAt - 1) \ Excused = Seen(tAt - 1)
    OBVIOUS
  <2> QED
    BY <1>6, <1>8, <2>1
<1>11. Excused = {} => UpTo(LinesOf(tBase, tUniverse), tAt)
         = UpTo(LinesOf(tBase, tUniverse), tAt - 1) \o [k \in 1..n |-> <<p, k>>]
  <2>1. /\ LinesOf(tBase, tUniverse) \in Seq(Seq(Lines))
        /\ Len(LinesOf(tBase, tUniverse)) = Len(tUniverse)
        /\ LinesOf(tBase, tUniverse)[tAt] = [k \in 1..HitsOf(tBase)[p] |-> <<p, k>>]
    <3>1. tBase \in Trees
      BY DEF CensusTypes
    <3> QED
      BY <1>1, <3>1, LinesAreLines
  <2>2. UpTo(LinesOf(tBase, tUniverse), tAt)
        = UpTo(LinesOf(tBase, tUniverse), tAt - 1) \o LinesOf(tBase, tUniverse)[tAt]
    BY <1>1, <2>1, UpToSteps
  <2> QED
    BY <2>1, <2>2
<1> QED
  BY <1>1, <1>2, <1>9, <1>10, <1>11

-----------------------------------------------------------------------------
(* FindText: the steps.                                                    *)

\* The lesser of two.
LEMMA LeastOfTwo ==
  ASSUME NEW m \in Nat, NEW n \in Nat
  PROVE T!Min({m, n}) = IF m <= n THEN m ELSE n
<1> DEFINE k == IF m <= n THEN m ELSE n
<1>1. k \in {m, n} /\ \A y \in {m, n} : k <= y
  OBVIOUS
<1>2. \A x \in {m, n} : (\A y \in {m, n} : x <= y) => x = k
  BY <1>1
<1> QED
  BY <1>1, <1>2 DEF T!Min

\* Putting n lines of a file is keeping the first of the lines there are.
LEMMA PutIs ==
  ASSUME NEW lines \in Seq(Lines), NEW p \in Paths, NEW n \in Nat,
         T!Keep \in Nat
  PROVE /\ T!Put(lines, p, n) = Prefix(lines \o [k \in 1..n |-> <<p, k>>], T!Keep)
        /\ [k \in 1..n |-> <<p, k>>] \in Seq(Lines)
        /\ T!Put(lines, p, n) \in Seq(Lines)
<1> DEFINE new == [k \in 1..n |-> <<p, k>>]
<1>1. \A k \in 1..n : <<p, k>> \in Lines
  BY DEF Lines
<1>2. new \in Seq(Lines) /\ Len(new) = n
  BY <1>1
<1> HIDE DEF new
<1>3. /\ lines \o new \in Seq(Lines) /\ Len(lines \o new) = Len(lines) + n
      /\ Len(lines) \in Nat /\ Len(lines) + n \in Nat
  BY <1>2, CatIs
<1>4. T!Min({T!Keep, Len(lines) + n})
      = IF T!Keep <= Len(lines) + n THEN T!Keep ELSE Len(lines) + n
  BY <1>3, LeastOfTwo
<1>5. T!Put(lines, p, n) = SubSeq(lines \o new, 1, T!Min({T!Keep, Len(lines) + n}))
  BY DEF T!Put, new
<1>6. T!Put(lines, p, n) = Prefix(lines \o new, T!Keep)
  BY <1>3, <1>4, <1>5 DEF Prefix
<1>7. Prefix(lines \o new, T!Keep) \in Seq(Lines)
  BY <1>3, PrefixIs
<1> QED
  BY <1>2, <1>6, <1>7 DEF new

\* A step that leaves the walk's ground alone leaves what it should find.
LEMMA SameGround ==
  ASSUME UNCHANGED <<tBase, tIndexed>>
  PROVE /\ HitsOf(tBase)' = HitsOf(tBase) /\ Expected' = Expected
        /\ AllLines' = AllLines
BY DEF HitsOf, Expected, AllLines, InTree, LinesIn, LinesOf

\* A step that leaves the base and the universe alone leaves the lines expected of it.
LEMMA SameScan ==
  ASSUME UNCHANGED <<tBase, tUniverse>>
  PROVE LinesOf(tBase, tUniverse)' = LinesOf(tBase, tUniverse)
BY DEF LinesOf, HitsOf

\* Nothing begins all lines of any tree.
LEMMA EveryTreeIsATree ==
  ASSUME NEW known \in SUBSET Paths
  PROVE \A tree \in Trees : /\ LinesIn(known, tree) \in Seq(Lines)
                            /\ Begins(<<>>, LinesIn(known, tree))
<1> TAKE tree \in Trees
<1>1. LinesIn(known, tree) \in Seq(Lines)
  BY AllLinesAre
<1>2. Len(LinesIn(known, tree)) \in Nat
  BY <1>1
<1> QED
  BY <1>1, <1>2 DEF Begins

\* The first page of a walk notes the files as they are; a later one begins anew.
LEMMA ScanBegins ==
  ASSUME CensusInv, T!Begin
  PROVE CensusInv'
<1>1. PICK found \in SUBSET T!Missing, capped \in BOOLEAN :
        /\ found = T!Missing \/ capped
        /\ tUniverse' = T!InOrder(tIndexed \cup T!FirstOf(found))
        /\ tBeyond' = (IF tPages = <<>> THEN {} ELSE tBeyond) \cup (T!Missing \ T!FirstOf(found))
        /\ tGap' = (capped \/ Cardinality(found) > MaxUnindexed \/ (tPages # <<>> /\ tGap))
  BY TextCardinality DEF T!Begin
<1>2. /\ tIndexed \in SUBSET Paths /\ tDisk \in Trees /\ tBase \in Trees
      /\ tBase' \in Trees /\ tDisk' \in Trees
      /\ tTouched' \subseteq Paths /\ tBeyond' \subseteq Paths
      /\ tAt' = 1 /\ tPc' = "stat" /\ tPc = "idle"
      /\ tCounted' = 0 /\ tKept' = <<>> /\ ~tTimedOut' /\ tSkipped' = {}
      /\ tSearched' = {} /\ tBinary' = {} /\ tUnreadable' = {}
      /\ UNCHANGED <<tIndexed, tDisk, tLimit, tOffset, tPages>>
      /\ tTouched' = (IF tPages = <<>> THEN {} ELSE tTouched)
      /\ tBase' = (IF tPages = <<>> THEN tDisk ELSE tBase)
  BY <1>1 DEF CensusInv, CensusTypes, T!Begin, T!Missing
<1>3. /\ tPages # <<>> => Excused \subseteq Excused'
      /\ T!Missing \ T!FirstOf(found) \subseteq Excused'
      /\ T!FirstOf(found) \subseteq found /\ found \subseteq T!Missing /\ T!Missing \subseteq Paths
      /\ tIndexed \cup T!Missing = tIndexed \cup {p \in Paths : tDisk[p] # Absent}
  BY <1>1, <1>2 DEF Excused, T!FirstOf, T!Missing
<1>4. ~tGap' => tBeyond' = {}
  <2> SUFFICES ASSUME ~tGap' PROVE tBeyond' = {}
    OBVIOUS
  <2>1. found = T!Missing /\ (tPages = <<>> \/ tBeyond = {})
    BY <1>1 DEF CensusInv, CensusTypes
  <2>2. IsFiniteSet(found)
    <3>1. found \in SUBSET Paths /\ IsFiniteSet(Paths)
      BY <1>3, TextAssumption
    <3> QED
      BY <3>1, FS_Subset
  <2>3. Cardinality(found) \in Nat /\ MaxUnindexed \in Nat /\ Cardinality(found) <= MaxUnindexed
    <3>1. Cardinality(found) \in Nat /\ MaxUnindexed \in Nat
      BY <2>2, FS_CardinalityType, TextAssumption
    <3>2. ~(Cardinality(found) > MaxUnindexed)
      <4>1. tGap' = (capped \/ Cardinality(found) > MaxUnindexed \/ (tPages # <<>> /\ tGap))
        BY <1>1
      <4> QED
        BY <4>1, Zenon
    <3>3. PICK n \in Nat, m \in Nat : n = Cardinality(found) /\ m = MaxUnindexed
      BY <3>1
    <3> QED
      BY <3>2, <3>3
  <2>4. ASSUME NEW p \in found
        PROVE  p \in T!FirstOf(found)
    <3> DEFINE before == {q \in found : q < p}
    <3>1. p \in Nat
      BY <1>3, TextAssumption
    <3>2. before \in SUBSET found /\ before # found
      BY <2>4, <3>1
    <3>3. Cardinality(before) \in Nat /\ Cardinality(before) < Cardinality(found)
      <4> HIDE DEF before
      <4> QED
        BY <2>2, <3>2, FS_Subset, FS_CardinalityType
    <3>4. Cardinality(before) < MaxUnindexed
      BY <2>3, <3>3
    <3> QED
      BY <3>4, TextCardinality DEF T!FirstOf
  <2> QED
    BY <1>1, <1>3, <2>1, <2>4
<1>5. /\ tUniverse' \in Seq(Paths) /\ Distinct(tUniverse')
      /\ tIndexed \cup T!FirstOf(found) \subseteq FilesOf(tUniverse')
  <2>1. PICK u : u = tUniverse'
    OBVIOUS
  <2>2. tIndexed \cup T!FirstOf(found) \in SUBSET Paths
    BY <1>2, <1>3
  <2>3. u \in Seq(Paths) /\ Distinct(u) /\ tIndexed \cup T!FirstOf(found) \subseteq FilesOf(u)
    BY <1>1, <2>1, <2>2, UniverseIs
  <2> QED
    BY <2>1, <2>3
<1>6. CensusTypes'
  <2>1. Len(tUniverse') \in Nat /\ tAt' \in 1..(Len(tUniverse') + 1)
    BY <1>2, <1>5
  <2>2. tKept' \in Seq(Lines) /\ tPages' \in Seq(Lines) /\ tTimedOut' \in BOOLEAN
    <3>1. <<>> \in Seq(Lines)
      OBVIOUS
    <3>2. tTimedOut' = FALSE
      BY DEF T!Begin
    <3> QED
      BY <1>2, <3>1, <3>2 DEF CensusInv, CensusTypes
  <2>3. tGap' \in BOOLEAN
    BY <1>1 DEF CensusInv, CensusTypes
  <2> QED
    BY <1>2, <1>4, <1>5, <2>1, <2>2, <2>3 DEF CensusInv, CensusTypes
<1>7. Seen(tAt - 1)' = {}
  BY <1>2 DEF Seen
<1>8. Census'
  BY <1>2, <1>7 DEF Census, Accounted
<1>9. \A p \in Paths \ Excused' : tDisk'[p] = tBase'[p]
  BY <1>2, <1>3 DEF CensusInv, StoodStill
<1>10. StoodStill'
  <2>1. \A p \in Paths \ Excused' : p \in Seen(Len(tUniverse))' \/ tBase'[p] = Absent
    <3> SUFFICES ASSUME NEW p \in Paths \ Excused', tBase'[p] # Absent
                 PROVE  p \in Seen(Len(tUniverse))'
      OBVIOUS
    <3>1. p \in tIndexed \cup T!Missing
      BY <1>2, <1>3, <1>9
    <3>2. p \in FilesOf(tUniverse')
      BY <1>3, <1>5, <3>1
    <3> QED
      BY <3>2 DEF Seen, FilesOf
  <2> QED
    BY <1>9, <2>1 DEF StoodStill
<1>11. Counting'
  <2>1. /\ HitsOf(tBase)' \in [Paths -> Nat] /\ IsFiniteSet(Paths)
    BY <1>2, HitsAreNumbers, TextAssumption
  <2>2. Total(HitsOf(tBase)', {}) = 0
    BY TotalUnfolds, FS_EmptySet
  <2>3. Total(HitsOf(tBase)', Seen(tAt - 1)' \ Excused') = 0
        /\ Total(HitsOf(tBase)', Seen(tAt - 1)') = 0
    BY <1>7, <2>2
  <2> QED
    BY <1>2, <2>3 DEF Counting
<1>12. Walking'
  <2>1. ASSUME Excused' = {}
        PROVE tUniverse' = Expected' /\ Begins(tPages', AllLines')
    <3>1. tBase' = tDisk
      <4>1. tDisk = [p \in Paths |-> tDisk[p]] /\ tBase' = [p \in Paths |-> tBase'[p]]
        BY <1>2 DEF Trees
      <4>2. \A p \in Paths : tDisk[p] = tBase'[p]
        BY <1>2, <1>9, <2>1
      <4> QED
        BY <4>1, <4>2
    <3>2. tUniverse' = InTree(tIndexed, tDisk)
      BY <1>1, <1>3, <2>1 DEF InTree
    <3>3. CASE tPages = <<>>
      <4>1. Begins(<<>>, LinesIn(tIndexed, tBase'))
        BY <1>2, EveryTreeIsATree
      <4> QED
        BY <1>2, <3>1, <3>2, <3>3, <4>1 DEF Expected, AllLines
    <3>4. CASE tPages # <<>>
      <4>1. Excused = {} /\ tBase' = tBase
        BY <1>2, <1>3, <2>1, <3>4
      <4>2. Begins(tPages, AllLines)
        BY <1>2, <4>1 DEF CensusInv, Walking
      <4> QED
        BY <1>2, <3>1, <3>2, <4>1, <4>2 DEF Expected, AllLines
    <3> QED
      BY <3>3, <3>4
  <2>2. Len(tPages') = tOffset'
    BY <1>2 DEF CensusInv, Walking
  <2>3. ASSUME Excused' = {}
        PROVE tKept' = Prefix(UpTo(LinesOf(tBase, tUniverse)', (tAt - 1)'), T!Keep')
    <3>1. UpTo(LinesOf(tBase, tUniverse)', (tAt - 1)') = <<>>
      BY <1>2 DEF UpTo
    <3>2. T!Keep' \in Nat
      <4>1. tOffset \in Nat /\ tLimit \in Nat /\ tOffset' = tOffset /\ tLimit' = tLimit
        BY <1>2 DEF CensusInv, CensusTypes
      <4> QED
        BY <4>1 DEF T!Keep
    <3>3. Prefix(<<>>, T!Keep') = <<>>
      BY <3>2 DEF Prefix
    <3> QED
      BY <1>2, <3>1, <3>3
  <2> QED
    BY <1>2, <2>1, <2>2, <2>3 DEF Walking
<1> QED
  BY <1>6, <1>8, <1>10, <1>11, <1>12 DEF CensusInv

SameWalk ==
  UNCHANGED <<tDisk, tIndexed, tLimit, tOffset, tUniverse, tPages, tTouched, tBeyond, tGap, tBase>>

\* A step within a scan leaves what the walk should find.
LEMMA WalkIsTheSame ==
  ASSUME SameWalk
  PROVE /\ HitsOf(tBase)' = HitsOf(tBase) /\ Expected' = Expected
        /\ AllLines' = AllLines /\ T!Keep' = T!Keep
        /\ LinesOf(tBase, tUniverse)' = LinesOf(tBase, tUniverse)
        /\ Seen(Len(tUniverse))' = Seen(Len(tUniverse))
        /\ (StoodStill /\ tPc # "idle" => StoodStill')
<1>1. UNCHANGED <<tDisk, tIndexed, tLimit, tOffset, tUniverse, tPages, tTouched,
                       tBeyond, tGap, Excused, tBase>>
  BY DEF SameWalk, Excused
<1>2. Seen(Len(tUniverse))' = Seen(Len(tUniverse))
  BY <1>1 DEF Seen
<1>3. T!Keep' = T!Keep
  BY <1>1 DEF T!Keep
<1>4. StoodStill /\ tPc # "idle" => StoodStill'
  BY <1>1, <1>2 DEF StoodStill
<1> QED
  BY <1>1, <1>2, <1>3, <1>4, SameGround, SameScan

\* A prefix of a beginning is a beginning,
LEMMA PrefixBegins ==
  ASSUME NEW X, NEW s \in Seq(X), NEW t \in Seq(X), Begins(s, t), NEW n \in Nat
  PROVE Begins(Prefix(s, n), t)
<1> DEFINE a == Prefix(s, n)
<1>1. /\ a \in Seq(X) /\ Len(a) = (IF n <= Len(s) THEN n ELSE Len(s))
      /\ \A i \in 1..Len(a) : a[i] = s[i]
  BY PrefixIs
<1> HIDE DEF a
<1>2. Len(s) \in Nat /\ Len(t) \in Nat /\ Len(s) <= Len(t)
      /\ \A i \in 1..Len(s) : s[i] = t[i]
  BY DEF Begins
<1>3. Len(a) \in Nat /\ Len(a) <= Len(s)
  BY <1>1, <1>2
<1>4. Begins(a, t)
  BY <1>1, <1>2, <1>3 DEF Begins
<1> QED
  BY <1>4 DEF a

\* and so is a beginning of a beginning.
LEMMA BeginsBegins ==
  ASSUME NEW X, NEW r \in Seq(X), NEW s \in Seq(X), NEW t \in Seq(X), Begins(r, s), Begins(s, t)
  PROVE Begins(r, t)
<1>1. Len(r) \in Nat /\ Len(s) \in Nat /\ Len(t) \in Nat /\ Len(r) <= Len(s) /\ Len(s) <= Len(t)
      /\ (\A i \in 1..Len(r) : r[i] = s[i]) /\ (\A i \in 1..Len(s) : s[i] = t[i])
  BY DEF Begins
<1> QED
  BY <1>1 DEF Begins

\* What the first k files of a scan have begins all lines.
LEMMA LinesBegin ==
  ASSUME CensusTypes, tUniverse = Expected, NEW k \in 0..Len(tUniverse)
  PROVE /\ UpTo(LinesOf(tBase, tUniverse), k) \in Seq(Lines)
        /\ Begins(UpTo(LinesOf(tBase, tUniverse), k), AllLines)
        /\ AllLines \in Seq(Lines)
        /\ AllLines = UpTo(LinesOf(tBase, tUniverse), Len(tUniverse))
<1> DEFINE s == LinesOf(tBase, tUniverse)
<1>1. tUniverse \in Seq(Paths) /\ tBase \in Trees /\ Len(tUniverse) \in Nat
  BY DEF CensusTypes
<1>2. s \in Seq(Seq(Lines)) /\ Len(s) = Len(tUniverse)
  BY <1>1, LinesAreLines
<1>3. AllLines = UpTo(s, Len(s))
  BY <1>2 DEF AllLines, LinesIn, Expected
<1> HIDE DEF s
<1>4. /\ k \in 0..Len(s) /\ Len(s) \in 0..Len(s) /\ k \in 0..Len(s)
  BY <1>1, <1>2
<1>5. /\ UpTo(s, k) \in Seq(Lines) /\ UpTo(s, Len(s)) \in Seq(Lines)
      /\ Begins(UpTo(s, k), UpTo(s, Len(s)))
  BY <1>2, <1>4, UpToSteps, UpToBegins
<1> QED
  BY <1>2, <1>3, <1>5 DEF s

\* The scan goes on to the next file.
LEMMA ScanGoesOn ==
  ASSUME CensusInv, SameWalk, tPc \in {"stat", "read"}, tAt <= Len(tUniverse),
         NEW p, p = tUniverse[tAt], NEW n \in Nat, p \notin Excused => n = HitsOf(tBase)[p],
         tAt' = tAt + 1, tPc' = "stat", tCounted' = tCounted + n,
         tKept' \in Seq(Lines),
         Excused = {} => tKept' = Prefix(UpTo(LinesOf(tBase, tUniverse), tAt), T!Keep),
         tSkipped' = tSkipped, tTimedOut' = tTimedOut,
         \/ tSearched' = tSearched \cup {p} /\ UNCHANGED <<tBinary, tUnreadable>>
         \/ tBinary' = tBinary \cup {p} /\ UNCHANGED <<tSearched, tUnreadable>>
         \/ tUnreadable' = tUnreadable \cup {p} /\ UNCHANGED <<tSearched, tBinary>>
  PROVE CensusInv'
<1>1. /\ p \in Paths /\ p \notin Seen(tAt - 1) /\ Seen(tAt) = Seen(tAt - 1) \cup {p}
      /\ tAt \in Nat /\ (tAt + 1) - 1 = tAt /\ Len(tUniverse) \in Nat
      /\ tCounted >= Total(HitsOf(tBase), Seen(tAt - 1) \ Excused)
         => tCounted + n >= Total(HitsOf(tBase), Seen(tAt) \ Excused)
      /\ Excused = {} /\ tCounted = Total(HitsOf(tBase), Seen(tAt - 1))
         => tCounted + n = Total(HitsOf(tBase), Seen(tAt))
  <2>1. CensusTypes /\ Len(tUniverse) \in Nat
    BY DEF CensusInv, CensusTypes
  <2> QED
    BY <2>1, OneFileMore
<1>2. /\ UNCHANGED <<tDisk, tIndexed, tLimit, tOffset, tUniverse, tPages, tTouched,
                       tBeyond, tGap, Excused, tBase>>
  BY DEF SameWalk, Excused
<1>3. Seen(tAt - 1)' = Seen(tAt) /\ tPc # "idle" /\ tAt' = tAt + 1
  BY <1>1, <1>2 DEF Seen
<1>4. CensusTypes'
  <2>1. tAt' \in 1..(Len(tUniverse') + 1) /\ tCounted' \in Nat
    BY <1>1, <1>2 DEF CensusInv, CensusTypes
  <2> QED
    BY <1>2, <2>1 DEF CensusInv, CensusTypes
<1>5. Census'
  <2>1. /\ tSearched \cup tBinary \cup tUnreadable = Seen(tAt - 1)
        /\ tSearched \cap tBinary = {} /\ tSearched \cap tUnreadable = {}
        /\ tBinary \cap tUnreadable = {} /\ tSkipped = {} /\ ~tTimedOut
    BY DEF CensusInv, Census, Accounted
  <2>2. /\ tSearched' \cup tBinary' \cup tUnreadable' = Seen(tAt)
        /\ tSearched' \cap tBinary' = {} /\ tSearched' \cap tUnreadable' = {}
        /\ tBinary' \cap tUnreadable' = {}
    BY <1>1, <2>1
  <2>3. Accounted(tAt - 1)'
    BY <1>3, <2>2 DEF Accounted
  <2> QED
    BY <2>1, <2>3 DEF Census
<1>6. StoodStill'
  BY <1>3, WalkIsTheSame DEF CensusInv
<1>7. Counting'
  <2>1. HitsOf(tBase)' = HitsOf(tBase)
    BY WalkIsTheSame
  <2>2. /\ tCounted >= Total(HitsOf(tBase), Seen(tAt - 1) \ Excused)
        /\ Excused = {} => tCounted = Total(HitsOf(tBase), Seen(tAt - 1))
    BY DEF CensusInv, Counting
  <2>3. /\ tCounted' >= Total(HitsOf(tBase), Seen(tAt) \ Excused)
        /\ Excused = {} => tCounted' = Total(HitsOf(tBase), Seen(tAt))
    BY <1>1, <2>2
  <2> QED
    BY <1>2, <1>3, <2>1, <2>3 DEF Counting
<1>8. Walking'
  <2>1. /\ Expected' = Expected /\ AllLines' = AllLines /\ T!Keep' = T!Keep
        /\ LinesOf(tBase, tUniverse)' = LinesOf(tBase, tUniverse)
    BY WalkIsTheSame
  <2>2. Len(tPages) = tOffset
    BY <1>3 DEF CensusInv, Walking
  <2>3. Excused = {} => tUniverse = Expected /\ Begins(tPages, AllLines)
    BY <1>3 DEF CensusInv, Walking
  <2>4. UpTo(LinesOf(tBase, tUniverse)', (tAt - 1)') = UpTo(LinesOf(tBase, tUniverse), tAt)
    BY <1>1, <2>1
  <2>5. Excused = {} => tKept' = Prefix(UpTo(LinesOf(tBase, tUniverse)', (tAt - 1)'), T!Keep')
    BY <2>1, <2>4
  <2> QED
    BY <1>2, <2>1, <2>2, <2>3, <2>5 DEF Walking
<1> QED
  BY <1>4, <1>5, <1>6, <1>7, <1>8 DEF CensusInv

\* The scan ends before the file it is at, or in it.
LEMMA ScanStops ==
  ASSUME CensusInv, SameWalk, tPc \in {"stat", "read"}, tAt <= Len(tUniverse),
         tAt' = tAt, tPc' = "answer", tSkipped' = T!Rest, tCounted' \in Nat,
         tKept' \in Seq(Lines), Excused = {} => Begins(tKept', AllLines),
         UNCHANGED <<tBinary, tUnreadable>>,
         \/ UNCHANGED <<tSearched, tTimedOut>>
         \/ tSearched' = tSearched \cup {tUniverse[tAt]} /\ tTimedOut' = TRUE
  PROVE CensusInv'
<1>1. /\ UNCHANGED <<tDisk, tIndexed, tLimit, tOffset, tUniverse, tPages, tTouched,
                       tBeyond, tGap, Excused, tBase>>
      /\ tPc # "idle"
  BY DEF SameWalk, Excused
<1>2. CensusTypes'
  BY <1>1 DEF CensusInv, CensusTypes
<1>3. /\ tUniverse[tAt] \notin Seen(tAt - 1)
      /\ Seen(tAt) = Seen(tAt - 1) \cup {tUniverse[tAt]}
  <2>1. tUniverse[tAt] \in Paths
    BY DEF CensusInv, CensusTypes
  <2>2. PICK n \in Nat : n = HitsOf(tBase)[tUniverse[tAt]]
    BY <2>1, HitsAreNumbers DEF CensusInv, CensusTypes
  <2> QED
    BY <2>2, OneFileMore DEF CensusInv
<1>4. Census'
  <2>1. /\ tSearched \cup tBinary \cup tUnreadable = Seen(tAt - 1)
        /\ tSearched \cap tBinary = {} /\ tSearched \cap tUnreadable = {}
        /\ tBinary \cap tUnreadable = {} /\ tSkipped = {} /\ ~tTimedOut
    BY DEF CensusInv, Census, Accounted
  <2>2. Seen(tAt)' = Seen(tAt) /\ Seen(tAt - 1)' = Seen(tAt - 1) /\ T!Rest' = T!Rest
    BY <1>1 DEF Seen, T!Rest
  <2>3. IF tTimedOut' THEN Accounted(tAt)' ELSE Accounted(tAt - 1)'
    BY <1>3, <2>1, <2>2 DEF Accounted
  <2>4. StoppedEarly'
    BY <1>1, <2>2, <2>3 DEF StoppedEarly
  <2> QED
    BY <2>4 DEF Census
<1>5. StoodStill'
  BY <1>1, WalkIsTheSame DEF CensusInv
<1>6. Counting'
  BY DEF Counting
<1>7. Walking'
  <2>1. Expected' = Expected /\ AllLines' = AllLines
    BY WalkIsTheSame
  <2>2. Len(tPages) = tOffset
    BY <1>1 DEF CensusInv, Walking
  <2>3. Excused = {} => tUniverse = Expected /\ Begins(tPages, AllLines)
    BY <1>1 DEF CensusInv, Walking
  <2> QED
    BY <1>1, <2>1, <2>2, <2>3 DEF Walking
<1> QED
  BY <1>2, <1>4, <1>5, <1>6, <1>7 DEF CensusInv

\* Beginnings, behind the same sequence.
LEMMA AppendBegins ==
  ASSUME NEW X, NEW u \in Seq(X), NEW v \in Seq(X), NEW w \in Seq(X), Begins(v, w)
  PROVE Begins(u \o v, u \o w)
<1>1. /\ u \o v \in Seq(X) /\ Len(u \o v) = Len(u) + Len(v)
      /\ Len(u) \in Nat /\ Len(v) \in Nat
      /\ \A i \in 1..Len(u) : (u \o v)[i] = u[i]
      /\ \A i \in 1..(Len(u) + Len(v)) : ~ (i <= Len(u)) => (u \o v)[i] = v[i - Len(u)]
  BY CatIs
<1>2. /\ u \o w \in Seq(X) /\ Len(u \o w) = Len(u) + Len(w) /\ Len(w) \in Nat
      /\ \A i \in 1..Len(u) : (u \o w)[i] = u[i]
      /\ \A i \in 1..(Len(u) + Len(w)) : ~ (i <= Len(u)) => (u \o w)[i] = w[i - Len(u)]
  BY CatIs
<1>3. Len(v) <= Len(w) /\ \A i \in 1..Len(v) : v[i] = w[i]
  BY DEF Begins
<1>4. \A i \in 1..(Len(u) + Len(v)) : (u \o v)[i] = (u \o w)[i]
  <2> TAKE i \in 1..(Len(u) + Len(v))
  <2>1. CASE i <= Len(u)
    BY <1>1, <1>2, <2>1
  <2>2. CASE ~(i <= Len(u))
    <3>1. i - Len(u) \in 1..Len(v) /\ i \in 1..(Len(u) + Len(w))
      BY <1>1, <1>2, <1>3, <2>2
    <3>2. (u \o v)[i] = v[i - Len(u)] /\ (u \o w)[i] = w[i - Len(u)]
      BY <1>1, <1>2, <2>2, <3>1
    <3> QED
      BY <1>3, <3>1, <3>2
  <2> QED
    BY <2>1, <2>2
<1>5. Len(u \o v) <= Len(u \o w)
  BY <1>1, <1>2, <1>3
<1> QED
  BY <1>1, <1>4, <1>5 DEF Begins

\* What is kept of the files before begins all lines.
LEMMA KeptBegins ==
  ASSUME CensusInv, tPc \in {"stat", "read"}, Excused = {}
  PROVE Begins(tKept, AllLines)
<1>1. /\ CensusTypes /\ Len(tUniverse) \in Nat /\ tAt \in Nat /\ T!Keep \in Nat
      /\ tAt - 1 \in 0..Len(tUniverse)
  BY DEF CensusInv, CensusTypes, T!Keep
<1>2. /\ tUniverse = Expected
      /\ tKept = Prefix(UpTo(LinesOf(tBase, tUniverse), tAt - 1), T!Keep)
  BY DEF CensusInv, Walking
<1>3. /\ UpTo(LinesOf(tBase, tUniverse), tAt - 1) \in Seq(Lines) /\ AllLines \in Seq(Lines)
      /\ Begins(UpTo(LinesOf(tBase, tUniverse), tAt - 1), AllLines)
  BY <1>1, <1>2, LinesBegin
<1> QED
  BY <1>1, <1>2, <1>3, PrefixBegins

\* A file with no line that counts.
LEMMA NothingFound ==
  ASSUME CensusInv, tAt <= Len(tUniverse), tPc \in {"stat", "read"},
         NEW p, p = tUniverse[tAt], p \notin Excused => HitsOf(tBase)[p] = 0
  PROVE Excused = {} => tKept = Prefix(UpTo(LinesOf(tBase, tUniverse), tAt), T!Keep)
<1> SUFFICES ASSUME Excused = {}
             PROVE tKept = Prefix(UpTo(LinesOf(tBase, tUniverse), tAt), T!Keep)
  OBVIOUS
<1>1. /\ CensusTypes /\ Len(tUniverse) \in Nat /\ tAt \in Nat /\ tAt - 1 \in 0..Len(tUniverse)
  BY DEF CensusInv, CensusTypes
<1> DEFINE u == UpTo(LinesOf(tBase, tUniverse), tAt - 1)
<1>2. UpTo(LinesOf(tBase, tUniverse), tAt) = u \o [k \in 1..0 |-> <<p, k>>]
  <2>1. 0 \in Nat /\ (p \notin Excused => 0 = HitsOf(tBase)[p])
    OBVIOUS
  <2> HIDE DEF u
  <2>2. UpTo(LinesOf(tBase, tUniverse), tAt)
        = UpTo(LinesOf(tBase, tUniverse), tAt - 1) \o [k \in 1..0 |-> <<p, k>>]
    BY <1>1, <2>1, OneFileMore
  <2> QED
    BY <2>2 DEF u
<1>3. tUniverse = Expected /\ tKept = Prefix(u, T!Keep)
  BY DEF CensusInv, Walking
<1>4. u \in Seq(Lines)
  BY <1>1, <1>3, LinesBegin
<1> HIDE DEF u
<1>5. [k \in 1..0 |-> <<p, k>>] = <<>>
  OBVIOUS
<1>6. u \o <<>> = u
  BY <1>4
<1> QED
  BY <1>2, <1>3, <1>5, <1>6

\* The file a scan is at.
LEMMA FileIs ==
  ASSUME CensusInv, tAt <= Len(tUniverse), NEW p, p = tUniverse[tAt]
  PROVE /\ p \in Paths /\ tDisk[p] \in Versions \cup {Absent}
        /\ tBase[p] \in Versions \cup {Absent}
        /\ p \notin Excused => tDisk[p] = tBase[p]
        /\ tDisk[p] # Absent => /\ tDisk[p].hits \in Nat /\ tDisk[p].size \in Nat
                                /\ tDisk[p].binary \in BOOLEAN
<1>1. p \in Paths
  BY DEF CensusInv, CensusTypes
<1>2. tDisk[p] \in Versions \cup {Absent} /\ tBase[p] \in Versions \cup {Absent}
  BY <1>1 DEF CensusInv, CensusTypes, Trees
<1>3. p \notin Excused => tDisk[p] = tBase[p]
  BY <1>1 DEF CensusInv, StoodStill
<1>4. \A v \in Versions : v.hits \in Nat /\ v.size \in Nat /\ v.binary \in BOOLEAN
  BY TextAssumption
<1> QED
  BY <1>1, <1>2, <1>3, <1>4

\* Looking at a file's size keeps the invariant,
LEMMA ScanStats ==
  ASSUME CensusInv, T!StatFile
  PROVE CensusInv'
<1> DEFINE p == tUniverse[tAt]
<1>1. /\ tPc = "stat" /\ tAt <= Len(tUniverse) /\ SameWalk
      /\ UNCHANGED <<tKept, tCounted, tSearched, tBinary, tTimedOut>>
  BY DEF T!StatFile, SameWalk, Excused
<1>2. /\ p \in Paths /\ (p \notin Excused => tDisk[p] = tBase[p])
      /\ tKept \in Seq(Lines) /\ tCounted \in Nat
  BY <1>1, FileIs DEF CensusInv, CensusTypes
<1>3. CASE tDisk[p] = Absent /\ tUnreadable' = tUnreadable \cup {p} /\ T!Advance
           /\ tSkipped' = tSkipped
  <2>1. p \notin Excused => HitsOf(tBase)[p] = 0
    BY <1>2, <1>3 DEF HitsOf
  <2>2. tAt' = tAt + 1 /\ tPc' = "stat" /\ tCounted' = tCounted + 0
    BY <1>1, <1>2, <1>3 DEF T!Advance
  <2> HIDE DEF p
  <2>3. p = tUniverse[tAt]
    BY DEF p
  <2>4. Excused = {} => tKept' = Prefix(UpTo(LinesOf(tBase, tUniverse), tAt), T!Keep)
    BY <1>1, <2>1, <2>3, NothingFound
  <2> QED
    BY <1>1, <1>2, <1>3, <2>1, <2>2, <2>3, <2>4, ScanGoesOn
<1>4. CASE tDisk[p] # Absent /\ tSkipped' = T!Rest /\ tPc' = "answer" /\ tAt' = tAt
           /\ tUnreadable' = tUnreadable
  <2>1. Excused = {} => Begins(tKept', AllLines)
    BY <1>1, KeptBegins
  <2> QED
    BY <1>1, <1>2, <1>4, <2>1, ScanStops
<1>5. CASE tDisk[p] # Absent /\ tPc' = "read"
           /\ UNCHANGED <<tAt, tSkipped, tUnreadable>>
  <2>1. /\ UNCHANGED <<tDisk, tIndexed, tLimit, tOffset, tUniverse, tPages, tTouched,
                       tBeyond, tGap, Excused, tBase>>
        /\ UNCHANGED <<tKept, tCounted, tSearched, tBinary, tTimedOut, tAt, tSkipped,
                       tUnreadable>>
    BY <1>1, <1>5 DEF SameWalk, Excused
  <2>2. CensusTypes'
    BY <1>1, <1>5, <2>1 DEF CensusInv, CensusTypes
  <2>3. Seen(tAt - 1)' = Seen(tAt - 1)
    BY <2>1 DEF Seen
  <2>4. Census'
    BY <1>1, <1>5, <2>1, <2>3 DEF CensusInv, Census, Accounted
  <2>5. /\ HitsOf(tBase)' = HitsOf(tBase) /\ Expected' = Expected
        /\ AllLines' = AllLines /\ T!Keep' = T!Keep
        /\ LinesOf(tBase, tUniverse)' = LinesOf(tBase, tUniverse)
        /\ StoodStill'
    BY <1>1, WalkIsTheSame DEF CensusInv
  <2>6. Counting'
    BY <1>1, <1>5, <2>1, <2>3, <2>5 DEF CensusInv, Counting
  <2>7. Walking'
    BY <1>1, <1>5, <2>1, <2>5 DEF CensusInv, Walking
  <2> QED
    BY <2>2, <2>4, <2>5, <2>6, <2>7 DEF CensusInv
<1> QED
  BY <1>3, <1>4, <1>5 DEF T!StatFile

\* and so does reading the file,
LEMMA ScanReads ==
  ASSUME CensusInv, T!ReadFile
  PROVE CensusInv'
<1> DEFINE p == tUniverse[tAt]
<1>1. tPc = "read" /\ tAt <= Len(tUniverse) /\ SameWalk
  BY DEF T!ReadFile, SameWalk, CensusInv, CensusTypes
<1>2. /\ p \in Paths /\ (p \notin Excused => tDisk[p] = tBase[p])
      /\ tKept \in Seq(Lines) /\ tCounted \in Nat
      /\ tDisk[p] # Absent => tDisk[p].hits \in Nat /\ tDisk[p].binary \in BOOLEAN
  BY <1>1, FileIs DEF CensusInv, CensusTypes
<1>3. p = tUniverse[tAt]
  OBVIOUS
<1>4. CASE /\ p \notin Excused => HitsOf(tBase)[p] = 0
           /\ T!Advance /\ UNCHANGED <<tKept, tCounted, tSkipped, tTimedOut, tSearched>>
           /\ \/ tBinary' = tBinary \cup {p} /\ UNCHANGED tUnreadable
              \/ tUnreadable' = tUnreadable \cup {p} /\ UNCHANGED tBinary
  <2>1. tAt' = tAt + 1 /\ tPc' = "stat" /\ tCounted' = tCounted + 0
    BY <1>2, <1>4 DEF T!Advance
  <2> HIDE DEF p
  <2>2. Excused = {} => tKept' = Prefix(UpTo(LinesOf(tBase, tUniverse), tAt), T!Keep)
    BY <1>1, <1>3, <1>4, NothingFound
  <2> QED
    BY <1>1, <1>2, <1>3, <1>4, <2>1, <2>2, ScanGoesOn
<1>5. ASSUME tDisk[p] # Absent, ~tDisk[p].binary, NEW n \in 0..tDisk[p].hits,
             tSearched' = tSearched \cup {p}, tKept' = T!Put(tKept, p, n),
             tCounted' = tCounted + n, UNCHANGED <<tBinary, tUnreadable>>,
             \/ n = tDisk[p].hits /\ T!Advance /\ UNCHANGED <<tSkipped, tTimedOut>>
             \/ tTimedOut' = TRUE /\ tSkipped' = T!Rest /\ tPc' = "answer" /\ tAt' = tAt
      PROVE CensusInv'
  <2> DEFINE new == [k \in 1..n |-> <<p, k>>]
             u == UpTo(LinesOf(tBase, tUniverse), tAt - 1)
  <2>1. n \in Nat /\ tCounted' \in Nat /\ n <= tDisk[p].hits
    BY <1>2, <1>5
  <2>2. /\ CensusTypes /\ Len(tUniverse) \in Nat /\ tAt \in Nat /\ T!Keep \in Nat
        /\ tAt - 1 \in 0..Len(tUniverse) /\ tAt \in 0..Len(tUniverse)
    BY <1>1 DEF CensusInv, CensusTypes, T!Keep
  <2>3. /\ tKept' = Prefix(tKept \o new, T!Keep) /\ new \in Seq(Lines) /\ tKept' \in Seq(Lines)
    BY <1>2, <1>5, <2>1, <2>2, PutIs
  <2>4. p \notin Excused => HitsOf(tBase)[p] = tDisk[p].hits
    BY <1>2, <1>5 DEF HitsOf
  <2>5. ASSUME Excused = {}
        PROVE /\ tKept = Prefix(u, T!Keep) /\ u \in Seq(Lines) /\ AllLines \in Seq(Lines)
              /\ tUniverse = Expected
              /\ tKept' = Prefix(u \o new, T!Keep) /\ u \o new \in Seq(Lines)
    <3>1. tUniverse = Expected /\ tKept = Prefix(u, T!Keep)
      BY <1>1, <2>5 DEF CensusInv, Walking
    <3>2. u \in Seq(Lines) /\ AllLines \in Seq(Lines)
      BY <2>2, <3>1, LinesBegin
    <3> HIDE DEF u, new
    <3>3. Prefix(Prefix(u, T!Keep) \o new, T!Keep) = Prefix(u \o new, T!Keep)
      BY <2>2, <2>3, <3>2, PrefixOfPrefix
    <3>4. u \o new \in Seq(Lines)
      BY <2>3, <3>2, CatIs
    <3> QED
      BY <2>3, <3>1, <3>2, <3>3, <3>4
  <2>6. CASE n = tDisk[p].hits /\ T!Advance /\ UNCHANGED <<tSkipped, tTimedOut>>
    <3>1. tAt' = tAt + 1 /\ tPc' = "stat"
      BY <2>6 DEF T!Advance
    <3>2. p \notin Excused => n = HitsOf(tBase)[p]
      BY <2>4, <2>6
    <3>3. Excused = {} => UpTo(LinesOf(tBase, tUniverse), tAt) = u \o new
      BY <1>1, <2>1, <2>2, <3>2, OneFileMore
    <3>4. Excused = {} => tKept' = Prefix(UpTo(LinesOf(tBase, tUniverse), tAt), T!Keep)
      BY <2>5, <3>3
    <3> HIDE DEF p, new, u
    <3> QED
      BY <1>1, <1>3, <1>5, <2>1, <2>3, <2>6, <3>1, <3>2, <3>4, ScanGoesOn
  <2>7. CASE tTimedOut' = TRUE /\ tSkipped' = T!Rest /\ tPc' = "answer" /\ tAt' = tAt
    <3>1. ASSUME Excused = {} PROVE Begins(tKept', AllLines)
      <4> DEFINE whole == [k \in 1..tDisk[p].hits |-> <<p, k>>]
      <4>1. UpTo(LinesOf(tBase, tUniverse), tAt) = u \o whole
        <5>1. PICK h \in Nat : h = tDisk[p].hits
          BY <1>2, <1>5
        <5>2. p \notin Excused => h = HitsOf(tBase)[p]
          BY <2>4, <5>1
        <5>3. UpTo(LinesOf(tBase, tUniverse), tAt) = u \o [k \in 1..h |-> <<p, k>>]
          BY <1>1, <2>2, <3>1, <5>2, OneFileMore
        <5> QED
          BY <5>1, <5>3
      <4>2. UpTo(LinesOf(tBase, tUniverse), tAt) \in Seq(Lines)
            /\ Begins(UpTo(LinesOf(tBase, tUniverse), tAt), AllLines)
        BY <2>2, <2>5, <3>1, LinesBegin
      <4>3. whole \in Seq(Lines) /\ Len(whole) = tDisk[p].hits /\ Len(new) = n
            /\ \A k \in 1..n : new[k] = whole[k]
        <5>1. \A k \in 1..tDisk[p].hits : <<p, k>> \in Lines
          BY <1>2, <1>5 DEF Lines
        <5> QED
          BY <1>2, <1>5, <2>1, <5>1
      <4> HIDE DEF whole, new, u
      <4>4. Begins(u \o new, u \o whole)
        <5>1. n \in Nat /\ n <= tDisk[p].hits /\ u \in Seq(Lines)
          BY <2>1, <2>5, <3>1
        <5>2. Begins(new, whole)
          BY <4>3, <5>1 DEF Begins
        <5> QED
          BY <2>3, <4>3, <5>1, <5>2, AppendBegins
      <4>5. u \o whole \in Seq(Lines)
        BY <4>1, <4>2
      <4>6. Begins(u \o new, AllLines)
        BY <2>5, <3>1, <4>1, <4>2, <4>4, <4>5, BeginsBegins
      <4> QED
        BY <2>2, <2>5, <3>1, <4>6, PrefixBegins
    <3> HIDE DEF new, u
    <3> QED
      BY <1>1, <1>5, <2>1, <2>3, <2>7, <3>1, ScanStops
  <2> QED
    BY <1>5, <2>6, <2>7
<1>6. CASE tDisk[p] = Absent
  <2>1. p \notin Excused => HitsOf(tBase)[p] = 0
    BY <1>2, <1>6 DEF HitsOf
  <2>2. /\ T!Advance /\ UNCHANGED <<tKept, tCounted, tSkipped, tTimedOut, tSearched, tBinary>>
        /\ tUnreadable' = tUnreadable \cup {p}
    BY <1>6 DEF T!ReadFile
  <2> QED
    BY <1>4, <2>1, <2>2
<1>7. CASE tDisk[p] # Absent /\ tDisk[p].binary
  <2>1. p \notin Excused => HitsOf(tBase)[p] = 0
    BY <1>2, <1>7 DEF HitsOf
  <2>2. /\ T!Advance /\ UNCHANGED <<tKept, tCounted, tSkipped, tTimedOut, tSearched, tUnreadable>>
        /\ tBinary' = tBinary \cup {p}
    BY <1>7 DEF T!ReadFile
  <2> QED
    BY <1>4, <2>1, <2>2
<1>8. CASE tDisk[p] # Absent /\ ~tDisk[p].binary
  <2>1. \E n \in 0..tDisk[p].hits :
          /\ tSearched' = tSearched \cup {p} /\ tKept' = T!Put(tKept, p, n)
          /\ tCounted' = tCounted + n /\ UNCHANGED <<tBinary, tUnreadable>>
          /\ \/ n = tDisk[p].hits /\ T!Advance /\ UNCHANGED <<tSkipped, tTimedOut>>
             \/ tTimedOut' = TRUE /\ tSkipped' = T!Rest /\ tPc' = "answer" /\ tAt' = tAt
    BY <1>8 DEF T!ReadFile
  <2> QED
    BY <1>5, <1>8, <2>1
<1> QED
  BY <1>6, <1>7, <1>8

\* The page cut out of what is kept, behind the pages before.
Window(lines, n) == SubSeq(lines, n + 1, Len(lines))
Page(lines, n, most) ==
  SubSeq(Window(lines, n), 1,
         IF most <= Len(Window(lines, n)) THEN most ELSE Len(Window(lines, n)))

Turned(lines, before, most, n, after) ==
  /\ \E w, m \in Nat :
       /\ w = Len(Window(lines, n)) /\ w = (IF n <= Len(lines) THEN Len(lines) - n ELSE 0)
       /\ m = (IF most <= w THEN most ELSE w) /\ Len(after) = n + m
  /\ \A i \in 1..n : after[i] = before[i]
  /\ \A i \in 1..Len(after) : ~(i <= n) => after[i] = lines[i] /\ i <= Len(lines)

\* A page turned.
LEMMA PageIs ==
  ASSUME NEW X, NEW lines \in Seq(X), NEW before \in Seq(X), NEW most \in Nat,
         NEW n, n = Len(before), NEW after, after = before \o Page(lines, n, most)
  PROVE /\ after \in Seq(X) /\ n \in Nat /\ Len(lines) \in Nat
        /\ Turned(lines, before, most, n, after)
<1> DEFINE w == Window(lines, n)
           page == Page(lines, n, most)
           m == IF most <= Len(w) THEN most ELSE Len(w)
<1>1. n \in Nat /\ Len(lines) \in Nat
  OBVIOUS
<1>2. /\ w \in Seq(X) /\ Len(w) = (IF n <= Len(lines) THEN Len(lines) - n ELSE 0)
      /\ \A i \in 1..Len(w) : w[i] = lines[n + i]
  <2>1. CASE n + 1 <= Len(lines)
    <3>1. /\ n + 1 \in 1..Len(lines) + 1 /\ Len(lines) \in n..Len(lines)
      BY <1>1, <2>1
    <3>2. /\ SubSeq(lines, n + 1, Len(lines)) \in Seq(X)
          /\ Len(SubSeq(lines, n + 1, Len(lines)))
             = (IF n + 1 <= Len(lines) THEN Len(lines) - (n + 1) + 1 ELSE 0)
          /\ \A i \in 1..(Len(lines) - (n + 1) + 1) :
               SubSeq(lines, n + 1, Len(lines))[i] = lines[n + 1 + i - 1]
      BY <1>1, <2>1, SubSeqProperties
    <3>3. Len(lines) - (n + 1) + 1 = Len(lines) - n /\ \A i \in Nat : n + 1 + i - 1 = n + i
      BY <1>1
    <3>0. Len(lines) - n \in Nat
      BY <1>1, <2>1
    <3>4. PICK k \in Nat : k = Len(lines) - n /\ k = Len(lines) - (n + 1) + 1
      <4>1. PICK k \in Nat : k = Len(lines) - n
        BY <3>0
      <4> QED
        BY <3>3, <4>1
    <3>5. w \in Seq(X) /\ Len(w) = k
      BY <2>1, <3>2, <3>4 DEF Window
    <3>6. \A i \in 1..k : w[i] = lines[n + i]
      BY <3>2, <3>3, <3>4 DEF Window
    <3> HIDE DEF w
    <3> QED
      BY <1>1, <2>1, <3>4, <3>5, <3>6
  <2>2. CASE ~(n + 1 <= Len(lines))
    <3>1. SubSeq(lines, n + 1, Len(lines)) = <<>>
      BY <1>1, <2>2
    <3> QED
      BY <1>1, <2>2, <3>1 DEF Window
  <2> QED
    BY <2>1, <2>2
<1> HIDE DEF w
<1>3. m \in 0..Len(w) /\ Len(w) \in Nat
  BY <1>2
<1> HIDE DEF m
<1>4. SubSeq(w, 1, m) \in Seq(X) /\ Len(SubSeq(w, 1, m)) = m
      /\ \A i \in 1..m : SubSeq(w, 1, m)[i] = w[i]
  BY <1>2, <1>3, SubSeqProperties
<1>5. page \in Seq(X) /\ Len(page) = m /\ \A i \in 1..m : page[i] = w[i]
  BY <1>4 DEF Page, w, m
<1> HIDE DEF page
<1>6. /\ before \o page \in Seq(X) /\ Len(before \o page) = n + m
      /\ \A i \in 1..n : (before \o page)[i] = before[i]
      /\ \A i \in 1..(n + m) : ~ (i <= n) => (before \o page)[i] = page[i - n]
  BY <1>5, CatIs
<1>7. \A i \in 1..(n + m) : ~(i <= n) => (before \o page)[i] = lines[i] /\ i <= Len(lines)
  <2> SUFFICES ASSUME NEW i \in 1..(n + m), ~(i <= n)
               PROVE (before \o page)[i] = lines[i] /\ i <= Len(lines)
    OBVIOUS
  <2>1. i - n \in 1..m /\ i - n \in 1..Len(w) /\ n + (i - n) = i
    BY <1>1, <1>3
  <2>2. i <= Len(lines)
    BY <1>1, <1>2, <2>1
  <2> QED
    BY <1>2, <1>5, <1>6, <2>1, <2>2
<1>8. after = before \o page
  BY DEF page
<1>9. Len(w) \in Nat /\ m \in Nat /\ m = (IF most <= Len(w) THEN most ELSE Len(w))
      /\ Len(w) = Len(Window(lines, n))
  BY <1>3 DEF m, w
<1>10. \E v, k \in Nat :
         /\ v = Len(Window(lines, n)) /\ v = (IF n <= Len(lines) THEN Len(lines) - n ELSE 0)
         /\ k = (IF most <= v THEN most ELSE v) /\ Len(after) = n + k
  BY <1>2, <1>6, <1>8, <1>9
<1> QED
  BY <1>1, <1>6, <1>7, <1>8, <1>10 DEF Turned

\* A page of how all lines begin leaves the pages so.
LEMMA PagesBegin ==
  ASSUME NEW X, NEW lines \in Seq(X), NEW before \in Seq(X), NEW most \in Nat,
         NEW all \in Seq(X), Begins(before, all), Begins(lines, all)
  PROVE Begins(before \o Page(lines, Len(before), most), all)
<1>1. PICK n, b : n = Len(before) /\ b = before \o Page(lines, n, most)
  OBVIOUS
<1>2a. b \in Seq(X) /\ n \in Nat /\ Len(lines) \in Nat /\ Turned(lines, before, most, n, b)
  BY <1>1, PageIs
<1>2. /\ \E w, m \in Nat :
           /\ w = (IF n <= Len(lines) THEN Len(lines) - n ELSE 0)
           /\ m = (IF most <= w THEN most ELSE w) /\ Len(b) = n + m
      /\ \A i \in 1..n : b[i] = before[i]
      /\ \A i \in 1..Len(b) : ~(i <= n) => b[i] = lines[i] /\ i <= Len(lines)
  BY <1>2a DEF Turned
<1>3. /\ Len(all) \in Nat /\ n <= Len(all)
      /\ Len(lines) <= Len(all) /\ (\A i \in 1..n : before[i] = all[i])
      /\ \A i \in 1..Len(lines) : lines[i] = all[i]
  BY <1>1 DEF Begins
<1>4. Len(b) <= Len(all)
  BY <1>2a, <1>2, <1>3
<1>5. \A i \in 1..Len(b) : b[i] = all[i]
  <2> TAKE i \in 1..Len(b)
  <2>1. i \in Nat /\ 1 <= i
    BY <1>2a
  <2>2. CASE i <= n
    BY <1>2a, <1>2, <1>3, <2>1, <2>2
  <2>3. CASE ~(i <= n)
    BY <1>2a, <1>2, <1>3, <2>1, <2>3
  <2> QED
    BY <2>2, <2>3
<1> QED
  BY <1>1, <1>4, <1>5 DEF Begins

\* A page that has room for all there is completes them.
LEMMA LastPage ==
  ASSUME NEW X, NEW before \in Seq(X), NEW most \in Nat, NEW all \in Seq(X), NEW lines,
         Begins(before, all), lines = Prefix(all, Len(before) + most + 1),
         ~(Len(Window(lines, Len(before))) > most)
  PROVE before \o Page(lines, Len(before), most) = all
<1>1. PICK n, b : n = Len(before) /\ b = before \o Page(lines, n, most)
  OBVIOUS
<1>2. n \in Nat /\ n + most + 1 \in Nat /\ Len(all) \in Nat /\ n <= Len(all)
  BY <1>1 DEF Begins
<1>3. /\ lines \in Seq(X)
      /\ Len(lines) = (IF n + most + 1 <= Len(all) THEN n + most + 1 ELSE Len(all))
      /\ \A i \in 1..Len(lines) : lines[i] = all[i]
  BY <1>1, <1>2, PrefixIs
<1>4. b \in Seq(X) /\ Turned(lines, before, most, n, b)
  BY <1>1, <1>3, PageIs
<1>5. PICK w, m \in Nat :
        /\ w = Len(Window(lines, n)) /\ w = (IF n <= Len(lines) THEN Len(lines) - n ELSE 0)
        /\ m = (IF most <= w THEN most ELSE w) /\ Len(b) = n + m
  BY <1>4 DEF Turned
<1>6. ~(w > most)
  BY <1>1, <1>5
<1>7. Len(lines) = Len(all) /\ Len(b) = Len(all)
  BY <1>2, <1>3, <1>5, <1>6
<1>8. Begins(lines, all)
  BY <1>2, <1>3, <1>7 DEF Begins
<1>9. Begins(b, all)
  BY <1>1, <1>3, <1>8, PagesBegin
<1>10. b = all
  BY <1>4, <1>7, <1>9, SeqEqual DEF Begins
<1> QED
  BY <1>1, <1>10

\* and so does the answer,
LEMMA ScanAnswers ==
  ASSUME CensusInv, T!Answer
  PROVE CensusInv'
<1> DEFINE more == Len(Window(tKept, tOffset)) > tLimit
<1>1. /\ tPc = "answer" \/ (tPc = "stat" /\ tAt > Len(tUniverse)) 
      /\ UNCHANGED <<tDisk, tIndexed, tLimit, tUniverse, tAt, tTouched,
                     tBeyond, tGap, Excused, tBase>>
      /\ UNCHANGED <<tKept, tCounted, tSearched, tBinary, tUnreadable, tSkipped, tTimedOut>>
  BY DEF T!Answer, T!tally, Excused
<1>2. /\ tKept \in Seq(Lines) /\ tPages \in Seq(Lines) /\ tOffset = Len(tPages)
      /\ tLimit \in Nat \ {0} /\ tOffset \in Nat /\ T!Keep \in Nat
      /\ tBase \in Trees /\ tIndexed \in SUBSET Paths
      /\ T!Keep = Len(tPages) + tLimit + 1
  BY <1>1 DEF CensusInv, CensusTypes, Walking, T!Keep
<1>3. /\ tPages' = tPages \o Page(tKept, tOffset, tLimit)
      /\ tPc' = IF more THEN "idle" ELSE "done"
      /\ tOffset' = IF more THEN tOffset + tLimit ELSE tOffset
  <2> DEFINE w == SubSeq(tKept, tOffset + 1, Len(tKept))
  <2>1. /\ tPages' = tPages \o SubSeq(w, 1, T!Min({tLimit, Len(w)}))
        /\ tPc' = IF Len(w) > tLimit THEN "idle" ELSE "done"
        /\ tOffset' = IF Len(w) > tLimit THEN tOffset + tLimit ELSE tOffset
    BY DEF T!Answer
  <2>2. w = Window(tKept, tOffset)
    BY DEF Window
  <2> HIDE DEF w
  <2>3. PICK k \in Nat : k = Len(w)
    <3>1. PICK after : after = tPages \o Page(tKept, tOffset, tLimit)
      OBVIOUS
    <3>2. Turned(tKept, tPages, tLimit, tOffset, after)
      BY <1>2, <3>1, PageIs
    <3> QED
      BY <2>2, <3>2 DEF Turned
  <2>4. T!Min({tLimit, Len(w)}) = IF tLimit <= Len(w) THEN tLimit ELSE Len(w)
    BY <1>2, <2>3, LeastOfTwo
  <2> QED
    BY <2>1, <2>2, <2>4 DEF Page
<1>4. tPages' \in Seq(Lines) /\ Turned(tKept, tPages, tLimit, tOffset, tPages')
  <2>1. PICK after : after = tPages'
    OBVIOUS
  <2>2. after \in Seq(Lines) /\ Turned(tKept, tPages, tLimit, tOffset, after)
    BY <1>2, <1>3, <2>1, PageIs
  <2> QED
    BY <2>1, <2>2
<1>5. CensusTypes'
  <2>1. tOffset' \in Nat /\ tPc' \in {"idle", "done"}
    BY <1>2, <1>3
  <2> QED
    BY <1>1, <1>4, <2>1 DEF CensusInv, CensusTypes
<1>6. tPc' \in {"idle", "done"}
  BY <1>3
<1>7. (tPc = "answer" => StoppedEarly') /\ (tPc = "stat" => Through')
  <2>1. ASSUME tPc = "answer" PROVE StoppedEarly'
    <3>1. StoppedEarly
      BY <2>1 DEF CensusInv, Census
    <3>2. Seen(tAt)' = Seen(tAt) /\ Seen(tAt - 1)' = Seen(tAt - 1) /\ T!Rest' = T!Rest
      BY <1>1 DEF Seen, T!Rest
    <3> QED
      BY <1>1, <3>1, <3>2 DEF StoppedEarly, Accounted
  <2>2. ASSUME tPc = "stat" PROVE Through'
    <3>1. Accounted(tAt - 1) /\ tSkipped = {} /\ ~tTimedOut
      BY <2>2 DEF CensusInv, Census
    <3>2. tAt = Len(tUniverse) + 1 /\ tAt - 1 = Len(tUniverse)
      BY <1>1, <2>2 DEF CensusInv, CensusTypes
    <3>3. Seen(Len(tUniverse))' = Seen(Len(tUniverse))
      BY <1>1 DEF Seen
    <3> QED
      BY <1>1, <3>1, <3>2, <3>3 DEF Through, Accounted
  <2> QED
    BY <2>1, <2>2
<1>8. Census'
  BY <1>1, <1>6, <1>7 DEF Census
<1>9. StoodStill'
  <2>1. Seen(Len(tUniverse))' = Seen(Len(tUniverse))
    BY <1>1 DEF Seen
  <2> QED
    BY <1>1, <2>1 DEF CensusInv, StoodStill
<1>10. HitsOf(tBase)' = HitsOf(tBase) /\ Expected' = Expected /\ AllLines' = AllLines
  BY <1>1, SameGround
\* A scan that stopped early leaves a file out, the one it was at.
<1>11. tSkipped' = {} => tPc = "stat"
  <2>1. ASSUME tPc = "answer" PROVE tSkipped # {}
    <3>1. StoppedEarly /\ tAt \in Nat /\ Len(tUniverse) \in Nat
      BY <2>1 DEF CensusInv, Census, CensusTypes
    <3>2. tAt \in tAt..Len(tUniverse) /\ tSkipped = T!Rest
      BY <3>1 DEF StoppedEarly
    <3>3. tUniverse[tAt] \in T!Rest
      BY <3>2 DEF T!Rest
    <3> QED
      BY <3>2, <3>3
  <2> QED
    BY <1>1, <2>1
<1>12. Counting'
  <2>1. ASSUME tPc' = "done", tSkipped' = {}
        PROVE /\ tCounted' >= Total(HitsOf(tBase)', Seen(tAt - 1)' \ Excused')
              /\ Excused' = {} => tCounted' = Total(HitsOf(tBase)', Seen(tAt - 1)')
    <3>1. Seen(tAt - 1)' = Seen(tAt - 1)
      BY <1>1 DEF Seen
    <3>2. /\ tCounted >= Total(HitsOf(tBase), Seen(tAt - 1) \ Excused)
          /\ Excused = {} => tCounted = Total(HitsOf(tBase), Seen(tAt - 1))
      BY <1>11, <2>1 DEF CensusInv, Counting
    <3> QED
      BY <1>1, <1>10, <3>1, <3>2
  <2> QED
    BY <1>6, <2>1 DEF Counting
<1>13. Walking'
  <2>1. tPc' # "done" => Len(tPages') = tOffset'
    <3> SUFFICES ASSUME more PROVE Len(tPages') = tOffset + tLimit
      BY <1>3
    <3>1. PICK w, m \in Nat : /\ w = Len(Window(tKept, tOffset))
                              /\ m = (IF tLimit <= w THEN tLimit ELSE w)
                              /\ Len(tPages') = tOffset + m
      BY <1>4 DEF Turned
    <3> QED
      BY <1>2, <3>1
  <2>2. ASSUME Excused = {}
        PROVE /\ tUniverse = Expected /\ Begins(tPages, AllLines) /\ Begins(tKept, AllLines)
              /\ AllLines \in Seq(Lines)
    <3>1. tUniverse = Expected /\ Begins(tPages, AllLines)
      BY <1>1, <2>2 DEF CensusInv, Walking
    <3>2. Begins(tKept, AllLines)
      <4>1. CASE tPc = "answer"
        BY <2>2, <4>1 DEF CensusInv, Walking
      <4>2. CASE tPc = "stat"
        BY <2>2, <4>2, KeptBegins
      <4> QED
        BY <1>1, <4>1, <4>2
    <3>3. AllLines \in Seq(Lines)
      BY <1>2, AllLinesAre DEF AllLines
    <3> QED
      BY <3>1, <3>2, <3>3
  <2>3. ASSUME Excused = {} PROVE Begins(tPages', AllLines)
    <3>1. PICK all : all = AllLines
      OBVIOUS
    <3>2. Begins(tPages \o Page(tKept, Len(tPages), tLimit), all)
      BY <1>2, <2>2, <2>3, <3>1, PagesBegin
    <3> QED
      BY <1>2, <1>3, <3>1, <3>2
  <2>4. ASSUME Excused = {}, tPc' = "done", tSkipped' = {} PROVE tPages' = AllLines
    <3>1. tPc = "stat" /\ tAt = Len(tUniverse) + 1 /\ tAt - 1 = Len(tUniverse)
          /\ Len(tUniverse) \in Nat
      BY <1>1, <1>11, <2>4 DEF CensusInv, CensusTypes
    <3>2. tKept = Prefix(UpTo(LinesOf(tBase, tUniverse), Len(tUniverse)), T!Keep)
      BY <2>4, <3>1 DEF CensusInv, Walking
    <3>3. AllLines = UpTo(LinesOf(tBase, tUniverse), Len(tUniverse))
      <4>1. Len(tUniverse) \in 0..Len(tUniverse)
        BY <3>1
      <4> QED
        BY <2>2, <2>4, <4>1, LinesBegin DEF CensusInv
    <3>4. PICK all : all = AllLines
      OBVIOUS
    <3>5. tKept = Prefix(all, Len(tPages) + tLimit + 1)
      BY <1>2, <3>2, <3>3, <3>4
    <3>6. ~(Len(Window(tKept, Len(tPages))) > tLimit)
      BY <1>2, <1>3, <2>4
    <3>7. tPages \o Page(tKept, Len(tPages), tLimit) = all
      BY <1>2, <2>2, <2>4, <3>4, <3>5, <3>6, LastPage
    <3> QED
      BY <1>2, <1>3, <3>4, <3>7
  <2> QED
    BY <1>1, <1>6, <1>10, <2>1, <2>2, <2>3, <2>4 DEF Walking
<1> QED
  BY <1>5, <1>8, <1>9, <1>12, <1>13 DEF CensusInv

\* and so does an edit under the scan, which is noted.
LEMMA FilesAreEdited ==
  ASSUME CensusInv, T!EditFile
  PROVE CensusInv'
<1>1. PICK p \in Paths, v \in Versions \cup {Absent} :
        tDisk' = [tDisk EXCEPT ![p] = v] /\ tTouched' = tTouched \cup {p}
  BY DEF T!EditFile
<1>2. /\ UNCHANGED <<tIndexed, tBase, tPc, tLimit, tOffset, tUniverse, tAt, tPages>>
      /\ UNCHANGED <<tKept, tCounted, tSearched, tBinary, tUnreadable, tSkipped, tTimedOut>>
      /\ UNCHANGED <<tGap, tBeyond>>
  BY DEF T!EditFile, T!call, T!tally
<1>3. Excused' # {} /\ Excused' = Excused \cup {p}
  BY <1>1, <1>2 DEF Excused
<1>4. CensusTypes'
  <2>1. tDisk' \in Trees /\ tTouched' \subseteq Paths
    BY <1>1 DEF CensusInv, CensusTypes, Trees
  <2> QED
    BY <1>2, <2>1 DEF CensusInv, CensusTypes
<1>5. Census'
  <2>1. /\ Seen(tAt)' = Seen(tAt) /\ Seen(tAt - 1)' = Seen(tAt - 1) /\ T!Rest' = T!Rest
        /\ Seen(Len(tUniverse))' = Seen(Len(tUniverse))
    BY <1>2 DEF Seen, T!Rest
  <2> QED
    BY <1>2, <2>1 DEF CensusInv, Census, StoppedEarly, Through, Accounted
<1>6. StoodStill'
  <2>1. Seen(Len(tUniverse))' = Seen(Len(tUniverse))
    BY <1>2 DEF Seen
  <2>2. \A q \in Paths \ Excused' : tDisk'[q] = tDisk[q] /\ q \notin Excused
    BY <1>1, <1>3 DEF CensusInv, CensusTypes, Trees
  <2> QED
    BY <1>2, <2>1, <2>2 DEF CensusInv, StoodStill
<1>7. Counting'
  <2>1. ASSUME tPc \in {"stat", "read"} \/ (tPc = "done" /\ tSkipped = {})
        PROVE tCounted >= Total(HitsOf(tBase), Seen(tAt - 1) \ Excused')
    <3>1. tCounted >= Total(HitsOf(tBase), Seen(tAt - 1) \ Excused)
      BY <2>1 DEF CensusInv, Counting
    <3>2. HitsOf(tBase) \in [Paths -> Nat] /\ IsFiniteSet(Paths)
      BY HitsAreNumbers, TextAssumption DEF CensusInv, CensusTypes
    <3>3. Seen(tAt - 1) \ Excused \in SUBSET Paths
      <4>1. \A i \in 1..(tAt - 1) : tUniverse[i] \in Paths
        BY DEF CensusInv, CensusTypes
      <4> QED
        BY <4>1 DEF Seen
    <3>4. Seen(tAt - 1) \ Excused' \in SUBSET (Seen(tAt - 1) \ Excused)
      BY <1>3
    <3>5. /\ Total(HitsOf(tBase), Seen(tAt - 1) \ Excused')
             <= Total(HitsOf(tBase), Seen(tAt - 1) \ Excused)
          /\ Total(HitsOf(tBase), Seen(tAt - 1) \ Excused) \in Nat
          /\ Total(HitsOf(tBase), Seen(tAt - 1) \ Excused') \in Nat
      <4>1. Seen(tAt - 1) \ Excused' \in SUBSET Paths
        BY <3>3, <3>4
      <4> QED
        BY <3>2, <3>3, <3>4, <4>1, TotalGrows, TotalIsANumber
    <3>6. tCounted \in Nat
      BY DEF CensusInv, CensusTypes
    <3> QED
      BY <3>1, <3>5, <3>6
  <2>2. HitsOf(tBase)' = HitsOf(tBase) /\ Seen(tAt - 1)' = Seen(tAt - 1)
    BY <1>2, SameGround DEF Seen
  <2> QED
    BY <1>2, <1>3, <2>1, <2>2 DEF Counting
<1>8. Walking'
  BY <1>2, <1>3 DEF CensusInv, Walking
<1> QED
  BY <1>4, <1>5, <1>6, <1>7, <1>8 DEF CensusInv

-----------------------------------------------------------------------------
(* FindText: what the counts add up to.                                    *)

Stretch(u, m, n) == {u[i] : i \in m..n}

\* A stretch of distinct files has as many files as places.
LEMMA DistinctCount ==
  ASSUME NEW u, Distinct(u), NEW n \in Nat, n <= Len(u), NEW m \in Nat, 1 <= m, m <= n + 1
  PROVE IsFiniteSet(Stretch(u, m, n)) /\ Cardinality(Stretch(u, m, n)) = (n - m) + 1
<1> DEFINE f == [i \in m..n |-> u[i]]
<1> DEFINE G == Stretch(u, m, n)
<1>1. \A i, j \in m..n : u[i] = u[j] => i = j
  BY DEF Distinct
<1>2. f \in Bijection(m..n, G)
  BY <1>1, Fun_IsBij DEF Stretch
<1>3. IsFiniteSet(m..n) /\ Cardinality(m..n) = (n - m) + 1
  <2>1. m \in Int /\ n \in Int /\ (m > n => (n - m) + 1 = 0)
    OBVIOUS
  <2>2. IsFiniteSet(m..n) /\ Cardinality(m..n) = IF m > n THEN 0 ELSE (n - m) + 1
    BY <2>1, FS_Interval
  <2> QED
    BY <2>1, <2>2
<1>4. ExistsBijection(m..n, G)
  BY <1>2 DEF ExistsBijection
<1> QED
  BY <1>3, <1>4, FS_Bijection

\* Sets that share nothing add up.
LEMMA ApartCount ==
  ASSUME NEW G, NEW H, IsFiniteSet(G), IsFiniteSet(H), G \cap H = {}
  PROVE IsFiniteSet(G \cup H) /\ Cardinality(G \cup H) = Cardinality(G) + Cardinality(H)
<1>1. /\ IsFiniteSet(G \cup H)
      /\ Cardinality(G \cup H) = Cardinality(G) + Cardinality(H) - Cardinality(G \cap H)
  BY FS_Union
<1>2. Cardinality({}) = 0 /\ Cardinality(G) \in Nat /\ Cardinality(H) \in Nat
  BY FS_EmptySet, FS_CardinalityType
<1>3. Cardinality(G \cap H) = 0
  BY <1>2, Zenon
<1>4. Cardinality(G \cup H) = Cardinality(G) + Cardinality(H) - 0
  BY <1>1, <1>3, Zenon
<1>5. Cardinality(G) + Cardinality(H) - 0 = Cardinality(G) + Cardinality(H)
  BY <1>2
<1> QED
  BY <1>1, <1>4, <1>5, Zenon

\* The files accounted for as searched, binary or unreadable are the first n.
LEMMA AccountedCount ==
  ASSUME CensusTypes, NEW n \in 0..Len(tUniverse), Accounted(n)
  PROVE Cardinality(tSearched) + Cardinality(tBinary) + Cardinality(tUnreadable) = n
<1>1. Len(tUniverse) \in Nat /\ Distinct(tUniverse)
  BY DEF CensusTypes
<1>2. IsFiniteSet(Seen(n)) /\ Cardinality(Seen(n)) = n
  <2>1. Seen(n) = Stretch(tUniverse, 1, n)
    BY DEF Seen, Stretch
  <2>2. n \in Nat /\ n <= Len(tUniverse) /\ 1 <= n + 1
    BY <1>1
  <2>3. Cardinality(Stretch(tUniverse, 1, n)) = (n - 1) + 1 /\ IsFiniteSet(Stretch(tUniverse, 1, n))
    BY <1>1, <2>2, DistinctCount
  <2> QED
    BY <2>1, <2>2, <2>3
<1>3. /\ IsFiniteSet(tSearched) /\ IsFiniteSet(tBinary) /\ IsFiniteSet(tUnreadable)
      /\ Cardinality(tSearched) \in Nat /\ Cardinality(tBinary) \in Nat
      /\ Cardinality(tUnreadable) \in Nat
  BY <1>2, FS_Subset, FS_CardinalityType DEF Accounted
<1>4. /\ IsFiniteSet(tSearched \cup tBinary)
      /\ Cardinality(tSearched \cup tBinary) = Cardinality(tSearched) + Cardinality(tBinary)
  BY <1>3, ApartCount DEF Accounted
<1>5. (tSearched \cup tBinary) \cap tUnreadable = {}
  BY DEF Accounted
<1>6. Cardinality((tSearched \cup tBinary) \cup tUnreadable)
      = Cardinality(tSearched \cup tBinary) + Cardinality(tUnreadable)
  BY <1>3, <1>4, <1>5, ApartCount
<1> QED
  BY <1>2, <1>3, <1>4, <1>6 DEF Accounted

\* The totals are a census of what was read,
LEMMA CensusAddsUp ==
  ASSUME CensusInv, tPc = "done"
  PROVE T!CensusIsExact
<1>0. /\ CensusTypes /\ Len(tUniverse) \in Nat /\ tAt \in 1..(Len(tUniverse) + 1)
      /\ Distinct(tUniverse) /\ tUniverse \in Seq(Paths) /\ tTimedOut \in BOOLEAN
  BY DEF CensusInv, CensusTypes
<1>1. T!Range(tUniverse) = Seen(Len(tUniverse))
  BY <1>0 DEF T!Range, Seen
<1>2. /\ Seen(Len(tUniverse)) = tSearched \cup tBinary \cup tUnreadable \cup tSkipped
      /\ Cardinality(tSearched) + Cardinality(tBinary) + Cardinality(tUnreadable)
           + Cardinality(tSkipped) = Len(tUniverse) + (IF tTimedOut THEN 1 ELSE 0)
  <2>1. CASE Through
    <3>1. Len(tUniverse) \in 0..Len(tUniverse)
      BY <1>0
    <3>2. Cardinality(tSearched) + Cardinality(tBinary) + Cardinality(tUnreadable)
          = Len(tUniverse)
      BY <1>0, <2>1, <3>1, AccountedCount DEF Through
    <3>3. Cardinality(tSkipped) = 0 /\ ~tTimedOut
      BY <2>1, FS_EmptySet DEF Through
    <3> QED
      BY <1>0, <2>1, <3>2, <3>3 DEF Through, Accounted
  <2>2. CASE StoppedEarly
    <3>1. /\ tAt \in Nat /\ 1 <= tAt /\ tAt <= Len(tUniverse)
          /\ tSkipped = {tUniverse[i] : i \in tAt..Len(tUniverse)}
          /\ IF tTimedOut THEN Accounted(tAt) ELSE Accounted(tAt - 1)
      BY <1>0, <2>2 DEF StoppedEarly, T!Rest
    <3>2. IsFiniteSet(tSkipped) /\ Cardinality(tSkipped) = (Len(tUniverse) - tAt) + 1
      <4>1. tAt \in Nat /\ 1 <= tAt /\ tAt <= Len(tUniverse) + 1 /\ Len(tUniverse) <= Len(tUniverse)
        BY <1>0, <3>1
      <4>2. Distinct(tUniverse) /\ Len(tUniverse) \in Nat
        BY <1>0
      <4>3. tSkipped = Stretch(tUniverse, tAt, Len(tUniverse))
        BY <3>1 DEF Stretch
      <4> QED
        BY <4>1, <4>2, <4>3, DistinctCount
    <3>3. Seen(Len(tUniverse)) = Seen(tAt - 1) \cup tSkipped
      <4>1. 1..Len(tUniverse) = (1..(tAt - 1)) \cup (tAt..Len(tUniverse))
        BY <1>0, <3>1
      <4> QED
        BY <3>1, <4>1 DEF Seen
    <3>4. Seen(Len(tUniverse)) = Seen(tAt) \cup tSkipped
      <4>1. 1..Len(tUniverse) = (1..tAt) \cup (tAt..Len(tUniverse))
        BY <1>0, <3>1
      <4> QED
        BY <3>1, <4>1 DEF Seen
    <3>5. CASE tTimedOut
      <4>1. tAt \in 0..Len(tUniverse) /\ Accounted(tAt)
        BY <1>0, <3>1, <3>5
      <4>2. Cardinality(tSearched) + Cardinality(tBinary) + Cardinality(tUnreadable) = tAt
        BY <1>0, <4>1, AccountedCount
      <4> QED
        BY <1>0, <3>1, <3>2, <3>4, <3>5, <4>1, <4>2 DEF Accounted
    <3>6. CASE ~tTimedOut
      <4>1. tAt - 1 \in 0..Len(tUniverse) /\ Accounted(tAt - 1)
        BY <1>0, <3>1, <3>6
      <4>2. Cardinality(tSearched) + Cardinality(tBinary) + Cardinality(tUnreadable) = tAt - 1
        BY <1>0, <4>1, AccountedCount
      <4> QED
        BY <1>0, <3>1, <3>2, <3>3, <3>6, <4>1, <4>2 DEF Accounted
    <3> QED
      BY <3>5, <3>6
  <2> QED
    BY <2>1, <2>2 DEF CensusInv, Census
<1>3. ASSUME tSkipped = {}, ~tGap
      PROVE /\ tCounted >= T!HitsIn(Paths \ tTouched)
            /\ tTouched = {} => tCounted = T!HitsIn(Paths)
  <2>0. Excused = tTouched
    BY <1>0, <1>3 DEF CensusTypes, Excused
  <2>1. tAt - 1 = Len(tUniverse)
    <3>1. ASSUME StoppedEarly PROVE FALSE
      <4>1. tAt \in tAt..Len(tUniverse) /\ tSkipped = T!Rest
        BY <1>0, <3>1 DEF StoppedEarly
      <4>2. tUniverse[tAt] \in T!Rest
        BY <4>1 DEF T!Rest
      <4> QED
        BY <1>3, <4>1, <4>2
    <3> QED
      BY <1>0, <3>1 DEF CensusInv, Census, Through
  <2> DEFINE seen == Seen(Len(tUniverse))
  <2>2. /\ tCounted >= Total(HitsOf(tBase), seen \ Excused)
        /\ Excused = {} => tCounted = Total(HitsOf(tBase), seen)
    BY <1>3, <2>1 DEF CensusInv, Counting
  <2>3. /\ \A p \in Paths \ Excused : p \in seen \/ HitsOf(tBase)[p] = 0
        /\ seen \subseteq Paths
    <3>1. \A p \in Paths \ Excused : p \in seen \/ tBase[p] = Absent
      BY DEF CensusInv, StoodStill
    <3>2. seen \subseteq Paths
      BY <1>0 DEF Seen
    <3> QED
      BY <3>1, <3>2 DEF HitsOf
  <2>4. HitsOf(tBase) \in [Paths -> Nat] /\ IsFiniteSet(Paths)
    BY HitsAreNumbers, TextAssumption DEF CensusInv, CensusTypes
  <2> HIDE DEF seen
  <2>5. Total(HitsOf(tBase), Paths \ Excused) = Total(HitsOf(tBase), seen \ Excused)
    <3>1. /\ Paths \ Excused \in SUBSET Paths
          /\ seen \ Excused \in SUBSET (Paths \ Excused)
          /\ \A p \in (Paths \ Excused) \ (seen \ Excused) : HitsOf(tBase)[p] = 0
      BY <2>3
    <3> QED
      BY <2>4, <3>1, TotalOverZeros
  <2>6. Excused = {} => Paths \ Excused = Paths /\ seen \ Excused = seen
    OBVIOUS
  <2>7. /\ T!HitsIn(Paths \ Excused) = Total(HitsOf(tBase), Paths \ Excused)
        /\ T!HitsIn(Paths) = Total(HitsOf(tBase), Paths)
    BY HitsAreATotal, HitsAreThese
  <2> QED
    BY <2>0, <2>2, <2>5, <2>6, <2>7
<1> QED
  BY <1>1, <1>2, <1>3, TextCardinality DEF T!CensusIsExact, T!Truncated

\* and a walk over files that stood still has every line.
LEMMA WalkAddsUp ==
  ASSUME CensusInv
  PROVE T!WalkIsACensus
<1> SUFFICES ASSUME tPc = "done", tSkipped = {}, ~tGap, tTouched = {}
             PROVE tPages = T!FlattenSeq([i \in DOMAIN tUniverse |->
                     [n \in 1..T!Hits[tUniverse[i]] |-> <<tUniverse[i], n>>]])
  BY DEF T!WalkIsACensus, T!Truncated
<1>0. Excused = {}
  BY DEF CensusInv, CensusTypes, Excused
<1>1. /\ CensusTypes /\ tUniverse \in Seq(Paths) /\ tBase \in Trees
      /\ Len(tUniverse) \in Nat /\ tUniverse = Expected /\ tPages = AllLines
      /\ DOMAIN tUniverse = 1..Len(tUniverse)
  BY <1>0 DEF CensusInv, CensusTypes, Walking
<1> DEFINE s == LinesOf(tBase, tUniverse)
<1>2. [i \in DOMAIN tUniverse |-> [n \in 1..T!Hits[tUniverse[i]] |-> <<tUniverse[i], n>>]] = s
  BY <1>1, HitsAreThese DEF LinesOf
<1>3. s \in Seq(Seq(Lines)) /\ Len(s) = Len(tUniverse)
  BY <1>1, LinesAreLines
<1>4. AllLines = UpTo(s, Len(tUniverse))
  BY <1>1, LinesBegin
<1> HIDE DEF s
<1>5. T!FlattenSeq(s) = UpTo(s, Len(s))
  BY <1>3, UpToSteps
<1> QED
  BY <1>1, <1>2, <1>3, <1>4, <1>5
-----------------------------------------------------------------------------
(* FindText: the invariant of the specification.                           *)

\* The invariant holds at the start,
LEMMA ScanStarts ==
  ASSUME T!Init
  PROVE CensusInv
<1>1. /\ tDisk \in Trees /\ tIndexed \in SUBSET Paths /\ tPc = "idle" /\ tLimit \in Nat \ {0}
      /\ tOffset = 0 /\ tUniverse = <<>> /\ tAt = 1 /\ tKept = <<>> /\ tCounted = 0
      /\ tTimedOut = FALSE /\ tPages = <<>> /\ tTouched = {} /\ tBase = tDisk
      /\ tGap = FALSE /\ tBeyond = {} /\ Excused = {}
  BY TextAssumption DEF T!Init, Trees, Excused
<1>2. /\ <<>> \in Seq(Paths) /\ <<>> \in Seq(Lines) /\ Len(tUniverse) = 0 /\ Len(tPages) = 0
      /\ Distinct(<<>>)
  BY <1>1 DEF Distinct
<1>3. CensusTypes
  <2>1. /\ tBase \in Trees /\ tIndexed \subseteq Paths /\ tTouched \subseteq Paths
        /\ tBeyond \subseteq Paths /\ tGap \in BOOLEAN /\ tBeyond = {}
        /\ tPc \in {"idle", "stat", "read", "answer", "done"} /\ tPc # "read"
        /\ tOffset \in Nat /\ tCounted \in Nat /\ tTimedOut \in BOOLEAN
    BY <1>1
  <2>2. tAt \in 1..(Len(tUniverse) + 1)
    BY <1>1, <1>2
  <2>3. /\ tUniverse \in Seq(Paths) /\ tKept \in Seq(Lines) /\ tPages \in Seq(Lines)
        /\ Distinct(tUniverse)
    BY <1>1, <1>2
  <2> QED
    BY <1>1, <2>1, <2>2, <2>3 DEF CensusTypes
<1>4. Begins(tPages, AllLines)
  BY <1>1, EveryTreeIsATree DEF AllLines
<1> QED
  BY <1>1, <1>2, <1>3, <1>4 DEF CensusInv, Census, StoodStill, Counting, Walking

\* every step of find_text keeps it,
LEMMA ScanSteps ==
  ASSUME CensusInv, T!Next
  PROVE CensusInv'
BY ScanBegins, ScanStats, ScanReads, ScanAnswers, FilesAreEdited DEF T!Next

\* and it holds while another tool runs.
LEMMA ScanWaits ==
  ASSUME CensusInv, UNCHANGED finding
  PROVE CensusInv'
<1>1. /\ UNCHANGED <<tDisk, tIndexed, tPc, tLimit, tOffset, tUniverse, tAt, tKept, tCounted,
                     tPages, tTouched,
                       tBeyond, tGap, Excused, tBase>>
      /\ UNCHANGED <<tSearched, tBinary, tUnreadable, tSkipped, tTimedOut>>
  BY DEF finding, Excused
<1>2. CensusTypes'
  BY <1>1 DEF CensusInv, CensusTypes
<1>3. /\ Seen(tAt)' = Seen(tAt) /\ Seen(tAt - 1)' = Seen(tAt - 1) /\ T!Rest' = T!Rest
      /\ Seen(Len(tUniverse))' = Seen(Len(tUniverse)) /\ T!Keep' = T!Keep
      /\ HitsOf(tBase)' = HitsOf(tBase) /\ Expected' = Expected /\ AllLines' = AllLines
      /\ LinesOf(tBase, tUniverse)' = LinesOf(tBase, tUniverse)
  BY <1>1, SameGround, SameScan DEF Seen, T!Rest, T!Keep
<1>4. Census'
  BY <1>1, <1>3 DEF CensusInv, Census, StoppedEarly, Through, Accounted
<1>5. StoodStill'
  BY <1>1, <1>3 DEF CensusInv, StoodStill
<1>6. Counting'
  BY <1>1, <1>3 DEF CensusInv, Counting
<1>7. Walking'
  BY <1>1, <1>3 DEF CensusInv, Walking
<1> QED
  BY <1>2, <1>4, <1>5, <1>6, <1>7 DEF CensusInv

\* find_text, for any files: the totals account for every file of the universe once,
\* and a walk over files that stood still yields every matching line once, in order,
\* unless a page says what it left out, of the files or of the index.
THEOREM ReadCensus == ReadSpec => []CensusIsExact
<1> DEFINE Inv == tool = "find_text" => CensusInv
<1>1. ReadInit => Inv
  BY ScanStarts DEF ReadInit
<1>2. Inv /\ [ReadNext]_<<tool, vars, others>> => Inv'
  <2> SUFFICES ASSUME Inv, [ReadNext]_<<tool, vars, others>>, tool' = "find_text"
               PROVE CensusInv'
    OBVIOUS
  <2>1. tool' = tool
    BY DEF ReadNext, FreshnessStep, SearchStep, ListStep, FindStep
  <2>2. CensusInv
    BY <2>1
  <2>3. CASE FindStep
    BY <2>2, <2>3, ScanSteps DEF FindStep
  <2>4. CASE UNCHANGED <<tool, vars, others>>
    <3>1. UNCHANGED finding
      BY <2>4 DEF others
    <3> QED
      BY <2>2, <3>1, ScanWaits
  <2> QED
    BY <2>1, <2>3, <2>4 DEF ReadNext, FreshnessStep, SearchStep, ListStep
<1>3. Inv => CensusIsExact
  <2>1. CensusInv /\ tPc # "done" => T!CensusIsExact
    BY DEF T!CensusIsExact
  <2> QED
    BY <2>1, CensusAddsUp, WalkAddsUp DEF CensusIsExact
<1> QED
  BY <1>1, <1>2, <1>3, PTL DEF ReadSpec

-----------------------------------------------------------------------------
(* Listing: the rows in order.                                             *)

\* Path order, and for a name its exact spellings first.
RowLess(t) == {q \in StoreRows \X StoreRows :
                 IF t = "list" THEN L!Before(q[1], q[2]) ELSE L!NameBefore(q[1], q[2])}

\* The rows a query is for, and those of them the caller's filters admit.
Fitting(t, S0) == IF t = "list" THEN S0 ELSE {x \in S0 : x.fits # "no"}
Admitted(a, S0) == {x \in S0 : (a.filters => x.scope) /\ (a.tests \/ ~x.test)}
Wanted(t, a, S0) == Admitted(a, Fitting(t, S0))

\* The module counts alike.
LEMMA RowCardinality == \A S0 : L!Cardinality(S0) = Cardinality(S0)
BY DEF L!Cardinality, Cardinality

\* Ranks are numbers.
LEMMA RanksAre == \A x : L!Rank(x) \in {0, 1, 2}
BY DEF L!Rank

\* No two rows are level.
LEMMA RowsAreOrdered ==
  ASSUME NEW t, NEW S0 \in SUBSET StoreRows
  PROVE Orders(RowLess(t), S0) /\ IsFiniteSet(S0)
<1>1. IsFiniteSet(S0)
  BY RowAssumption, FS_Subset
<1>2. /\ \A x \in S0 : x.at \in Nat
      /\ \A x, y \in S0 : x.at = y.at => x = y
  BY RowAssumption
<1>3. \A x, y \in S0 : <<x, y>> \in RowLess(t)
        <=> IF t = "list" THEN x.at < y.at
            ELSE L!Rank(x) < L!Rank(y) \/ (L!Rank(x) = L!Rank(y) /\ x.at < y.at)
  BY DEF RowLess, L!Before, L!NameBefore
<1>4. CASE t = "list"
  <2>1. \A x, y \in S0 : <<x, y>> \in RowLess(t) <=> x.at < y.at
    BY <1>3, <1>4
  <2>2. \A x \in S0 : <<x, x>> \notin RowLess(t)
    BY <1>2, <2>1
  <2>3. \A x, y \in S0 : x # y => <<x, y>> \in RowLess(t) \/ <<y, x>> \in RowLess(t)
    BY <1>2, <2>1
  <2>4. \A x, y, z \in S0 : <<x, y>> \in RowLess(t) /\ <<y, z>> \in RowLess(t)
                            => <<x, z>> \in RowLess(t)
    BY <1>2, <2>1
  <2> QED
    BY <1>1, <2>2, <2>3, <2>4 DEF Orders
<1>5. CASE t # "list"
  <2>1. \A x, y \in S0 : <<x, y>> \in RowLess(t)
          <=> L!Rank(x) < L!Rank(y) \/ (L!Rank(x) = L!Rank(y) /\ x.at < y.at)
    BY <1>3, <1>5
  <2>0. \A x : L!Rank(x) \in Nat
    BY RanksAre
  <2>2. \A x \in S0 : <<x, x>> \notin RowLess(t)
    BY <1>2, <2>0, <2>1
  <2>3. \A x, y \in S0 : x # y => <<x, y>> \in RowLess(t) \/ <<y, x>> \in RowLess(t)
    BY <1>2, <2>0, <2>1
  <2>4. \A x, y, z \in S0 : <<x, y>> \in RowLess(t) /\ <<y, z>> \in RowLess(t)
                            => <<x, z>> \in RowLess(t)
    BY <1>2, <2>0, <2>1
  <2> QED
    BY <1>1, <2>2, <2>3, <2>4 DEF Orders
<1> QED
  BY <1>4, <1>5

\* A query lists the rows it is for,
LEMMA RowsInOrder ==
  ASSUME NEW S0 \in SUBSET StoreRows
  PROVE Lists(L!InOrder(S0), S0, RowLess(lTool))
<1>1. Orders(RowLess(lTool), S0) /\ IsFiniteSet(S0)
  BY RowsAreOrdered
<1>2. \A x \in S0 : Below(RowLess(lTool), S0, x) = {y \in S0 : L!Precedes(y, x)}
  BY DEF Below, RowLess, L!Precedes
<1>3. L!InOrder(S0) = [i \in 1..Cardinality(S0) |->
                         CHOOSE x \in S0 : Cardinality({y \in S0 : L!Precedes(y, x)}) = i - 1]
  BY DEF L!InOrder, L!Cardinality, Cardinality
<1>4. ASSUME NEW i
      PROVE (CHOOSE x \in S0 : Cardinality({y \in S0 : L!Precedes(y, x)}) = i - 1)
            = (CHOOSE x \in S0 : Cardinality(Below(RowLess(lTool), S0, x)) = i - 1)
  BY <1>2
<1>5. L!InOrder(S0) = [i \in 1..Cardinality(S0) |->
                         CHOOSE x \in S0 : Cardinality(Below(RowLess(lTool), S0, x)) = i - 1]
  BY <1>3, <1>4
<1> QED
  BY <1>1, <1>5, ListedInOrder

\* A query of either kind does so,
LEMMA QueryLists ==
  ASSUME NEW S0 \in SUBSET StoreRows
  PROVE Lists(L!Query(S0), Fitting(lTool, S0), RowLess(lTool))
<1>1. L!Query(S0) = L!InOrder(Fitting(lTool, S0))
  BY DEF L!Query, L!Matching, Fitting
<1>2. Fitting(lTool, S0) \in SUBSET StoreRows
  BY DEF Fitting
<1> QED
  BY <1>1, <1>2, RowsInOrder

\* and a filter those it lets through.
LEMMA FilteredLists ==
  ASSUME NEW s \in Seq(StoreRows)
  PROVE Lists(L!Filtered(s), Admitted(lAsked, Range(s)), RowLess(lTool))
<1>1. L!Filtered(s) = L!InOrder({x \in L!Range(s) : L!Keep(x)})
  BY DEF L!Filtered
<1>2. L!Range(s) = Range(s)
  BY DEF L!Range, Range
<1>3. {x \in Range(s) : L!Keep(x)} = Admitted(lAsked, Range(s))
  BY DEF L!Keep, Admitted
<1>4. Admitted(lAsked, Range(s)) \in SUBSET StoreRows
  BY DEF Admitted, Range
<1> QED
  BY <1>1, <1>2, <1>3, <1>4, RowsInOrder

\* What a slice is.
SliceLen(n, skip, limit) ==
  IF skip + limit <= n THEN limit ELSE IF skip <= n THEN n - skip ELSE 0
\* A slice has so many of a sequence, from a place on.
LEMMA SliceIs ==
  ASSUME NEW X, NEW s \in Seq(X), NEW skip \in Nat, NEW limit \in Nat
  PROVE /\ L!Slice(s, skip, limit) \in Seq(X)
        /\ Len(L!Slice(s, skip, limit)) = SliceLen(Len(s), skip, limit)
        /\ \A i \in 1..SliceLen(Len(s), skip, limit) :
             /\ L!Slice(s, skip, limit)[i] = s[skip + i]
             /\ skip + i \in 1..Len(s)
<1> DEFINE m == IF skip + limit <= Len(s) THEN skip + limit ELSE Len(s)
<1>1. Len(s) \in Nat /\ skip + limit \in Nat /\ m \in Nat
  OBVIOUS
<1>2. L!Min({skip + limit, Len(s)}) = m
  BY <1>1 DEF L!Min
<1>3. L!Slice(s, skip, limit) = SubSeq(s, skip + 1, m)
  BY <1>2 DEF L!Slice
<1>4. CASE skip + 1 <= m
  <2>1. skip + 1 \in 1..Len(s) + 1 /\ m \in skip..Len(s)
    BY <1>1, <1>4
  <2>2. /\ SubSeq(s, skip + 1, m) \in Seq(X)
        /\ Len(SubSeq(s, skip + 1, m)) = (IF skip + 1 <= m THEN m - (skip + 1) + 1 ELSE 0)
        /\ \A i \in 1..(m - (skip + 1) + 1) : SubSeq(s, skip + 1, m)[i] = s[skip + 1 + i - 1]
    BY <1>1, <1>4, <2>1, SubSeqProperties
  <2>3. m - (skip + 1) + 1 = m - skip /\ \A i \in Nat : skip + 1 + i - 1 = skip + i
    BY <1>1
  <2>4. m - skip = SliceLen(Len(s), skip, limit) /\ m - skip \in Nat
    BY <1>1, <1>4 DEF SliceLen
  <2>5. PICK k \in Nat : k = m - skip
    BY <2>4
  <2>6. \A i \in 1..k : skip + i \in 1..Len(s)
    BY <1>1, <2>5
  <2> HIDE DEF m
  <2> QED
    BY <1>3, <1>4, <2>2, <2>3, <2>4, <2>5, <2>6
<1>5. CASE ~(skip + 1 <= m)
  <2>1. SubSeq(s, skip + 1, m) = <<>>
    BY <1>1, <1>5
  <2>2. SliceLen(Len(s), skip, limit) = 0
    BY <1>1, <1>5 DEF SliceLen
  <2>3. L!Slice(s, skip, limit) = <<>> /\ Len(<<>>) = 0 /\ <<>> \in Seq(X)
    BY <1>3, <2>1
  <2>4. \A i \in 1..0 : FALSE
    OBVIOUS
  <2> QED
    BY <2>2, <2>3, <2>4
<1> QED
  BY <1>4, <1>5
\* The same, of a slice with a name.
CutOut(p, X, s, skip, m) ==
  /\ p \in Seq(X) /\ Len(p) = m
  /\ \A i \in 1..m : p[i] = s[skip + i] /\ skip + i \in 1..Len(s)
\* A slice is cut out so.
LEMMA SliceCuts ==
  ASSUME NEW X, NEW s \in Seq(X), NEW skip \in Nat, NEW limit \in Nat,
         NEW p, p = L!Slice(s, skip, limit)
  PROVE \E m \in Nat : m = SliceLen(Len(s), skip, limit) /\ CutOut(p, X, s, skip, m)
<1>1. Len(s) \in Nat
  OBVIOUS
<1>2. SliceLen(Len(s), skip, limit) \in Nat
  BY <1>1 DEF SliceLen
<1>3. CutOut(L!Slice(s, skip, limit), X, s, skip, SliceLen(Len(s), skip, limit))
  BY SliceIs DEF CutOut
<1> QED
  BY <1>2, <1>3
\* Two sequences put end to end, with a name.
Joined(b, X, s, p, n, m) ==
  /\ b \in Seq(X) /\ Len(b) = n + m
  /\ \A i \in 1..n : b[i] = s[i]
  /\ \A i \in 1..(n + m) : ~ (i <= n) => b[i] = p[i - n]
\* That is what putting them end to end does.
LEMMA JoinIs ==
  ASSUME NEW X, NEW s \in Seq(X), NEW p \in Seq(X), NEW n \in Nat, NEW m \in Nat,
         n = Len(s), m = Len(p), NEW b, b = s \o p
  PROVE Joined(b, X, s, p, n, m)
<1>1. Joined(s \o p, X, s, p, Len(s), Len(p))
  BY CatIs DEF Joined
<1> QED
  BY <1>1

\* How many are before it; the first n; those from place n to m.
Place(R, W, x) == Cardinality(Below(R, W, x))
FirstOf(R, W, n) == {x \in W : Place(R, W, x) < n}
PlacedIn(R, W, n, m) == {x \in W : n <= Place(R, W, x) /\ Place(R, W, x) < m}

\* The beginning of a listing of W.
Initial(s, W, R) == s \in Seq(W) /\ \A i \in 1..Len(s) : Place(R, W, s[i]) = i - 1

\* Places are numbers below the size, and in the order of the elements.
LEMMA PlacesAre ==
  ASSUME NEW W, IsFiniteSet(W), NEW R, Orders(R, W)
  PROVE /\ Cardinality(W) \in Nat
        /\ \A x \in W : Place(R, W, x) \in Nat /\ Place(R, W, x) < Cardinality(W)
        /\ \A x, y \in W : /\ <<x, y>> \in R => Place(R, W, x) < Place(R, W, y)
                           /\ Place(R, W, x) < Place(R, W, y) => <<x, y>> \in R
                           /\ Place(R, W, x) = Place(R, W, y) => x = y
<1>1. Cardinality(W) \in Nat
  BY FS_CardinalityType
<1>2. ASSUME NEW x \in W
      PROVE Place(R, W, x) \in Nat /\ Place(R, W, x) < Cardinality(W)
  <2>1. Below(R, W, x) \subseteq W /\ x \notin Below(R, W, x)
    BY DEF Below, Orders
  <2> QED
    BY <2>1, FS_Subset, FS_CardinalityType DEF Place
<1>3. ASSUME NEW x \in W, NEW y \in W, <<x, y>> \in R
      PROVE Place(R, W, x) < Place(R, W, y)
  BY <1>3, FewerBelow DEF Place
<1>4. ASSUME NEW x \in W, NEW y \in W, Place(R, W, x) < Place(R, W, y)
      PROVE <<x, y>> \in R
  <2> SUFFICES ASSUME <<x, y>> \notin R PROVE FALSE
    OBVIOUS
  <2>1. x # y
    BY <1>2, <1>4
  <2>2. <<y, x>> \in R
    BY <2>1 DEF Orders
  <2>3. Place(R, W, y) < Place(R, W, x)
    BY <1>3, <2>2
  <2> QED
    BY <1>2, <1>4, <2>3
<1>5. ASSUME NEW x \in W, NEW y \in W, Place(R, W, x) = Place(R, W, y), x # y
      PROVE FALSE
  <2>1. <<x, y>> \in R \/ <<y, x>> \in R
    BY <1>5 DEF Orders
  <2>2. Place(R, W, x) < Place(R, W, y) \/ Place(R, W, y) < Place(R, W, x)
    BY <1>3, <2>1
  <2> QED
    BY <1>2, <1>5, <2>2
<1> QED
  BY <1>1, <1>2, <1>3, <1>4, <1>5

\* Listing what comes first begins a listing of all.
LEMMA ListsInitial ==
  ASSUME NEW W, NEW R, NEW D \in SUBSET W, NEW s, Lists(s, D, R),
         \A x \in D : \A y \in W : <<y, x>> \in R => y \in D
  PROVE Initial(s, W, R)
<1>1. s \in Seq(D) /\ \A i \in 1..Len(s) : Place(R, D, s[i]) = i - 1
  BY DEF Lists, Place
<1>2. \A x \in D : Below(R, W, x) = Below(R, D, x)
  BY DEF Below
<1>3. \A x \in D : Place(R, W, x) = Place(R, D, x)
  BY <1>2 DEF Place
<1>4. \A i \in 1..Len(s) : s[i] \in D
  BY <1>1
<1> QED
  BY <1>1, <1>3, <1>4 DEF Initial

\* Listing what comes next goes on with a listing.
LEMMA ListsMore ==
  ASSUME NEW W, IsFiniteSet(W), NEW R, Orders(R, W), NEW D \in SUBSET W, NEW N \in SUBSET W,
         \A x \in D : \A y \in N : <<x, y>> \in R,
         NEW s, Lists(s, D, R), NEW t, Lists(t, N, R)
  PROVE Lists(s \o t, D \cup N, R)
<1> DEFINE n == Cardinality(D)
           m == Cardinality(N)
           B == D \cup N
<1>0. IsFiniteSet(D) /\ IsFiniteSet(N) /\ n \in Nat /\ m \in Nat /\ IsFiniteSet(B)
  BY FS_Subset, FS_CardinalityType
<1>1. Orders(R, D) /\ Orders(R, N) /\ Orders(R, B)
  BY DEF Orders
<1>2. D \cap N = {}
  BY DEF Orders
<1>3. Cardinality(B) = n + m
  BY <1>0, <1>2, ApartCount
<1>4. s \in Seq(B) /\ t \in Seq(B) /\ Len(s) = n /\ Len(t) = m
  <2>1. s \in Seq(D) /\ t \in Seq(N) /\ Len(s) = n /\ Len(t) = m
    BY DEF Lists
  <2>2. \A i \in 1..Len(s) : s[i] \in B
    BY <2>1
  <2>3. \A i \in 1..Len(t) : t[i] \in B
    BY <2>1
  <2> HIDE DEF B
  <2> QED
    BY <2>1, <2>2, <2>3
<1>0a. PICK u : u = s \o t
  OBVIOUS
<1>5. /\ u \in Seq(B) /\ Len(u) = n + m
      /\ \A i \in 1..n : u[i] = s[i]
      /\ \A i \in 1..(n + m) : ~ (i <= n) => u[i] = t[i - n]
  <2> HIDE DEF n, m, B
  <2> QED
    BY <1>4, <1>0a, CatIs
<1>6. \A x \in D : Below(R, B, x) = Below(R, D, x)
  <2> SUFFICES ASSUME NEW x \in D, NEW y \in N, <<y, x>> \in R PROVE FALSE
    BY DEF Below
  <2>1. <<x, y>> \in R
    OBVIOUS
  <2> QED
    BY <2>1 DEF Orders
<1>7. \A x \in N : Below(R, B, x) = D \cup Below(R, N, x)
  BY DEF Below
<1>8. \A x \in N : Place(R, B, x) = n + Place(R, N, x)
  <2> TAKE x \in N
  <2>1. IsFiniteSet(Below(R, N, x)) /\ D \cap Below(R, N, x) = {}
    BY <1>0, <1>2, FS_Subset DEF Below
  <2>2. Cardinality(Below(R, N, x)) \in Nat
    BY <2>1, FS_CardinalityType
  <2>3. Cardinality(D \cup Below(R, N, x)) = n + Cardinality(Below(R, N, x))
    BY <1>0, <2>1, ApartCount
  <2> QED
    BY <1>7, <2>3 DEF Place
<1>9. \A x \in D : Place(R, B, x) = Place(R, D, x)
  BY <1>6 DEF Place
<1>10. /\ \A i \in 1..n : s[i] \in D /\ Place(R, D, s[i]) = i - 1
       /\ \A i \in 1..m : t[i] \in N /\ Place(R, N, t[i]) = i - 1
  BY <1>4 DEF Lists, Place
<1>11. \A i \in 1..(n + m) : Place(R, B, u[i]) = i - 1
  <2> TAKE i \in 1..(n + m)
  <2> HIDE DEF n, m, B
  <2>1. CASE i <= n
    BY <1>0, <1>5, <1>9, <1>10, <2>1
  <2>2. CASE ~(i <= n)
    <3>1. i - n \in 1..m /\ n + ((i - n) - 1) = i - 1
      BY <1>0, <2>2
    <3> QED
      BY <1>5, <1>8, <1>10, <2>2, <3>1
  <2> QED
    BY <2>1, <2>2
<1>12. \A x \in B : \E i \in 1..(n + m) : u[i] = x
  <2> TAKE x \in B
  <2>1. CASE x \in D
    <3>1. PICK i \in 1..n : s[i] = x
      BY <1>4, <2>1 DEF Lists
    <3> HIDE DEF n, m, B
    <3>2. i \in 1..(n + m)
      BY <1>0
    <3> QED
      BY <1>5, <3>1, <3>2
  <2>2. CASE x \in N
    <3>1. PICK i \in 1..m : t[i] = x
      BY <1>4, <2>2 DEF Lists
    <3> HIDE DEF n, m, B
    <3>2. n + i \in 1..(n + m) /\ ~(n + i <= n) /\ (n + i) - n = i
      BY <1>0
    <3> QED
      BY <1>5, <3>1, <3>2
  <2> QED
    BY <2>1, <2>2
<1>13. \A i \in 1..(n + m) : u[i] \in B
  BY <1>4, <1>5
<1>14. \A i, j \in 1..(n + m) : i < j => <<u[i], u[j]>> \in R
  <2> TAKE i, j \in 1..(n + m)
  <2> HAVE i < j
  <2> HIDE DEF n, m, B
  <2>1. Place(R, B, u[i]) < Place(R, B, u[j])
    BY <1>0, <1>11
  <2> QED
    BY <1>0, <1>1, <1>13, <2>1, PlacesAre
<1> HIDE DEF n, m, B
<1>15. Lists(u, B, R)
  BY <1>3, <1>5, <1>11, <1>12, <1>14 DEF Lists, Place
<1> QED
  BY <1>15, <1>0a DEF B

\* A slice of a listing has what is at those places.
LEMMA SliceOfList ==
  ASSUME NEW W, IsFiniteSet(W), NEW R, Orders(R, W), NEW s, Lists(s, W, R),
         NEW skip \in Nat, NEW limit \in Nat
  PROVE Range(L!Slice(s, skip, limit)) = PlacedIn(R, W, skip, skip + limit)
<1> DEFINE p == L!Slice(s, skip, limit)
           k == SliceLen(Len(s), skip, limit)
<1>1. /\ s \in Seq(W) /\ Len(s) \in Nat /\ Len(s) = Cardinality(W)
      /\ \A x \in W : \E i \in 1..Len(s) : s[i] = x
      /\ \A i \in 1..Len(s) : Place(R, W, s[i]) = i - 1
  BY DEF Lists, Place
<1>2. /\ p \in Seq(W) /\ Len(p) = k
      /\ \A i \in 1..k : p[i] = s[skip + i] /\ skip + i \in 1..Len(s)
  BY <1>1, SliceIs
<1>3. k \in Nat /\ k <= limit
  BY <1>1 DEF SliceLen
<1>4. Range(p) = {p[i] : i \in 1..k}
  <2> HIDE DEF p, k
  <2>1. DOMAIN p = 1..k
    BY <1>2
  <2> QED
    BY <2>1 DEF Range
<1>5. ASSUME NEW i \in 1..k PROVE p[i] \in PlacedIn(R, W, skip, skip + limit)
  <2>1. skip + i \in 1..Len(s) /\ p[i] = s[skip + i] /\ (skip + i) - 1 < skip + limit
        /\ skip <= (skip + i) - 1
    BY <1>2, <1>3
  <2>2. s[skip + i] \in W /\ Place(R, W, s[skip + i]) = (skip + i) - 1
    BY <1>1, <2>1
  <2> QED
    BY <2>1, <2>2 DEF PlacedIn
<1>6. ASSUME NEW x \in PlacedIn(R, W, skip, skip + limit) PROVE \E i \in 1..k : p[i] = x
  <2>1. x \in W /\ skip <= Place(R, W, x) /\ Place(R, W, x) < skip + limit
    BY DEF PlacedIn
  <2>2. PICK j \in 1..Len(s) : s[j] = x
    BY <1>1, <2>1
  <2>3. Place(R, W, x) = j - 1
    BY <1>1, <2>2
  <2>4. j - skip \in 1..k /\ skip + (j - skip) = j
    BY <1>1, <2>1, <2>2, <2>3 DEF SliceLen
  <2> QED
    BY <1>2, <2>2, <2>4
<1> HIDE DEF p, k
<1>7. Range(p) = PlacedIn(R, W, skip, skip + limit)
  BY <1>4, <1>5, <1>6
<1> QED
  BY <1>7 DEF p

\* A slice from the start of a slice is a slice.
LEMMA SliceOfSlice ==
  ASSUME NEW X, NEW s \in Seq(X), NEW skip \in Nat, NEW limit \in Nat, NEW more \in Nat,
         limit <= more
  PROVE L!Slice(L!Slice(s, skip, more), 0, limit) = L!Slice(s, skip, limit)
<1>1. PICK p : p = L!Slice(s, skip, more)
  OBVIOUS
<1>2. PICK n \in Nat : n = Len(s)
  OBVIOUS
<1>3. PICK o \in Nat : o = SliceLen(n, skip, more) /\ CutOut(p, X, s, skip, o)
  BY <1>1, <1>2, SliceCuts
<1>4. p \in Seq(X) /\ Len(p) = o /\ \A i \in 1..o : p[i] = s[skip + i]
  BY <1>3 DEF CutOut
<1>5. PICK a : a = L!Slice(p, 0, limit)
  OBVIOUS
<1>6. PICK m \in Nat : m = SliceLen(o, 0, limit) /\ CutOut(a, X, p, 0, m)
  BY <1>4, <1>5, SliceCuts
<1>7. PICK b : b = L!Slice(s, skip, limit)
  OBVIOUS
<1>8. PICK k \in Nat : k = SliceLen(n, skip, limit) /\ CutOut(b, X, s, skip, k)
  BY <1>2, <1>7, SliceCuts
<1>9. m = k /\ k <= o
  BY <1>3, <1>6, <1>8 DEF SliceLen
<1>10. \A i \in 1..k : a[i] = b[i]
  <2> TAKE i \in 1..k
  <2>1. i \in 1..o /\ 0 + i = i
    BY <1>9
  <2>2. a[i] = p[i] /\ b[i] = s[skip + i]
    BY <1>6, <1>8, <1>9, <2>1 DEF CutOut
  <2> QED
    BY <1>4, <2>1, <2>2
<1>11. a = b
  BY <1>6, <1>8, <1>9, <1>10, SeqEqual DEF CutOut
<1> QED
  BY <1>1, <1>5, <1>7, <1>11

\* What is admitted of the first rows comes first in what is wanted.
LEMMA WantedIsFirst ==
  ASSUME NEW S0 \in SUBSET StoreRows, NEW t, NEW a, NEW n \in Nat,
         NEW s, Lists(s, Admitted(a, FirstOf(RowLess(t), Fitting(t, S0), n)), RowLess(t))
  PROVE Initial(s, Wanted(t, a, S0), RowLess(t))
<1> DEFINE F == Fitting(t, S0)
           D == Admitted(a, FirstOf(RowLess(t), F, n))
           W == Wanted(t, a, S0)
<1>1. F \in SUBSET StoreRows
  BY DEF Fitting
<1>2. Orders(RowLess(t), F) /\ IsFiniteSet(F)
  BY <1>1, RowsAreOrdered
<1>3. D \in SUBSET W /\ W \in SUBSET F
  BY DEF Admitted, FirstOf, Wanted
<1>4. \A x \in D : \A y \in W : <<y, x>> \in RowLess(t) => y \in D
  <2> SUFFICES ASSUME NEW x \in D, NEW y \in W, <<y, x>> \in RowLess(t) PROVE y \in D
    OBVIOUS
  <2>1. x \in F /\ y \in F /\ Place(RowLess(t), F, x) < n
    BY <1>3 DEF Admitted, FirstOf
  <2> HIDE DEF F
  <2>2. /\ Place(RowLess(t), F, y) < Place(RowLess(t), F, x)
        /\ Place(RowLess(t), F, y) \in Nat /\ Place(RowLess(t), F, x) \in Nat
    BY <1>2, <2>1, PlacesAre
  <2>3. Place(RowLess(t), F, y) < n
    BY <2>1, <2>2
  <2> USE DEF F
  <2> QED
    BY <2>1, <2>3 DEF Admitted, FirstOf, Wanted
<1> HIDE DEF F, D, W
<1>5. Lists(s, D, RowLess(t))
  BY DEF D, F
<1> QED
  BY <1>3, <1>4, <1>5, ListsInitial DEF W

\* A batch goes on where the batches before ended.
LEMMA BatchJoins ==
  ASSUME NEW S0 \in SUBSET StoreRows, NEW t, NEW a, NEW n \in Nat, NEW m \in Nat,
         NEW s, Lists(s, Admitted(a, FirstOf(RowLess(t), Fitting(t, S0), n)), RowLess(t)),
         NEW u, Lists(u, Admitted(a, PlacedIn(RowLess(t), Fitting(t, S0), n, n + m)), RowLess(t))
  PROVE Lists(s \o u, Admitted(a, FirstOf(RowLess(t), Fitting(t, S0), n + m)), RowLess(t))
<1> DEFINE F == Fitting(t, S0)
           R == RowLess(t)
           D == Admitted(a, FirstOf(R, F, n))
           N == Admitted(a, PlacedIn(R, F, n, n + m))
<1>1. F \in SUBSET StoreRows
  BY DEF Fitting
<1>2. Orders(R, F) /\ IsFiniteSet(F)
  BY <1>1, RowsAreOrdered
<1>3. D \in SUBSET F /\ N \in SUBSET F
  BY DEF Admitted, FirstOf, PlacedIn
<1>4. \A x \in F : Place(R, F, x) \in Nat
  <2> HIDE DEF F, R
  <2> QED
    BY <1>2, PlacesAre
<1>5. D \cup N = Admitted(a, FirstOf(R, F, n + m))
  BY <1>4 DEF Admitted, FirstOf, PlacedIn
<1>6. \A x \in D : \A y \in N : <<x, y>> \in R
  <2> TAKE x \in D
  <2> TAKE y \in N
  <2>1. x \in F /\ y \in F /\ Place(R, F, x) < n /\ n <= Place(R, F, y)
    BY DEF Admitted, FirstOf, PlacedIn
  <2>2. Place(R, F, x) < Place(R, F, y)
    BY <1>4, <2>1
  <2> HIDE DEF F, R
  <2> QED
    BY <1>2, <2>1, <2>2, PlacesAre
<1>7. Lists(s, D, R) /\ Lists(u, N, R)
  OBVIOUS
<1> HIDE DEF F, R, D, N
<1>8. Lists(s \o u, D \cup N, R)
  BY <1>2, <1>3, <1>6, <1>7, ListsMore
<1> QED
  BY <1>5, <1>8 DEF F, R

\* Nothing is listed of the first none.
LEMMA NothingListed ==
  ASSUME NEW S0 \in SUBSET StoreRows, NEW t, NEW a, NEW s, s = <<>>
  PROVE Lists(s, Admitted(a, FirstOf(RowLess(t), Fitting(t, S0), 0)), RowLess(t))
<1> DEFINE F == Fitting(t, S0)
<1>1. F \in SUBSET StoreRows
  BY DEF Fitting
<1>2. \A x \in F : Place(RowLess(t), F, x) \in Nat
  <2> HIDE DEF F
  <2> QED
    BY <1>1, RowsAreOrdered, PlacesAre
<1>3. Admitted(a, FirstOf(RowLess(t), F, 0)) = {}
  BY <1>2 DEF Admitted, FirstOf
<1>4. Lists(s, {}, RowLess(t))
  <2>1. Cardinality({}) = 0
    BY FS_EmptySet
  <2> QED
    BY <2>1 DEF Lists
<1> QED
  BY <1>3, <1>4

\* All rows are the first so many.
LEMMA AllAreFirst ==
  ASSUME NEW S0 \in SUBSET StoreRows, NEW t, NEW n \in Nat,
         Cardinality(Fitting(t, S0)) <= n
  PROVE FirstOf(RowLess(t), Fitting(t, S0), n) = Fitting(t, S0)
<1> DEFINE F == Fitting(t, S0)
<1>1. F \in SUBSET StoreRows
  BY DEF Fitting
<1>2. \A x \in F : /\ Place(RowLess(t), F, x) \in Nat /\ Cardinality(F) \in Nat
                   /\ Place(RowLess(t), F, x) < Cardinality(F)
  <2> HIDE DEF F
  <2> QED
    BY <1>1, RowsAreOrdered, PlacesAre
<1>3. \A x \in F : Place(RowLess(t), F, x) < n
  BY <1>2
<1> QED
  BY <1>3 DEF FirstOf

\* A page of the beginning of a listing goes on with what is listed,
LEMMA PageGoesOn ==
  ASSUME NEW W, NEW R, NEW s \in Seq(StoreRows), Initial(s, W, R), NEW k, Initial(k, W, R),
         NEW n \in Nat, NEW limit \in Nat,
         NEW p, p = L!Slice(k, n, limit), NEW b, b = s \o p
  PROVE Len(s) = n => Initial(b, W, R)
<1> HAVE Len(s) = n
<1>2. s \in Seq(W) /\ k \in Seq(W) /\ Len(k) \in Nat
  BY DEF Initial
<1>3. PICK m \in Nat : m = SliceLen(Len(k), n, limit) /\ CutOut(p, W, k, n, m)
  BY <1>2, SliceCuts
<1>4. /\ p \in Seq(W) /\ Len(p) = m
      /\ \A i \in 1..m : p[i] = k[n + i] /\ n + i \in 1..Len(k)
  BY <1>3 DEF CutOut
<1>5. /\ b \in Seq(W) /\ Len(b) = n + m
      /\ \A i \in 1..n : b[i] = s[i]
      /\ \A i \in 1..(n + m) : ~ (i <= n) => b[i] = p[i - n]
  <2>1. Joined(b, W, s, p, n, m)
    BY <1>2, <1>4, JoinIs
  <2> QED
    BY <2>1 DEF Joined
<1>6. \A i \in 1..(n + m) : Place(R, W, b[i]) = i - 1
  <2> TAKE i \in 1..(n + m)
  <2>1. CASE i <= n
    BY <1>5, <2>1 DEF Initial
  <2>2. CASE ~(i <= n)
    <3>1. i - n \in 1..m /\ n + (i - n) = i
      BY <2>2
    <3>2. b[i] = k[i] /\ i \in 1..Len(k)
      BY <1>4, <1>5, <2>2, <3>1
    <3> QED
      BY <3>2 DEF Initial
  <2> QED
    BY <2>1, <2>2
<1> QED
  BY <1>3, <1>5, <1>6 DEF Initial

\* and has every row whose place it covers.
LEMMA PageHas ==
  ASSUME NEW W, IsFiniteSet(W), NEW R, Orders(R, W), NEW s \in Seq(StoreRows),
         W \in SUBSET StoreRows, NEW k, Initial(k, W, R),
         NEW n \in Nat, NEW limit \in Nat,
         NEW p, p = L!Slice(k, n, limit), NEW b, b = s \o p
  PROVE /\ b \in Seq(StoreRows)
        /\ Range(s) \subseteq Range(b)
        /\ \A x \in W : /\ n <= Place(R, W, x) /\ Place(R, W, x) < n + limit
                        /\ Place(R, W, x) < Len(k)
                        => x \in Range(b)
<1>2. k \in Seq(W) /\ Len(k) \in Nat /\ \A i \in 1..Len(k) : Place(R, W, k[i]) = i - 1
  BY DEF Initial
<1>3. PICK m \in Nat : m = SliceLen(Len(k), n, limit) /\ CutOut(p, W, k, n, m)
  BY <1>2, SliceCuts
<1>4. /\ p \in Seq(W) /\ Len(p) = m
      /\ \A i \in 1..m : p[i] = k[n + i] /\ n + i \in 1..Len(k)
  BY <1>3 DEF CutOut
<1>5. PICK h \in Nat : h = Len(s)
  OBVIOUS
<1>6. p \in Seq(StoreRows)
  <2>1. \A i \in 1..Len(p) : p[i] \in StoreRows
    BY <1>4
  <2> QED
    BY <1>4, <2>1
<1>7. /\ b \in Seq(StoreRows) /\ Len(b) = h + m
      /\ \A i \in 1..h : b[i] = s[i]
      /\ \A i \in 1..(h + m) : ~ (i <= h) => b[i] = p[i - h]
  <2>1. Joined(b, StoreRows, s, p, h, m)
    BY <1>4, <1>5, <1>6, JoinIs
  <2> QED
    BY <2>1 DEF Joined
<1>8. DOMAIN b = 1..(h + m) /\ DOMAIN s = 1..h
  BY <1>5, <1>7
<1>9. Range(s) \subseteq Range(b)
  BY <1>7, <1>8 DEF Range
<1>10. ASSUME NEW x \in W, n <= Place(R, W, x), Place(R, W, x) < n + limit,
              Place(R, W, x) < Len(k)
       PROVE x \in Range(b)
  <2>1. PICK c \in Nat : c = Place(R, W, x)
    BY PlacesAre
  <2>2. c + 1 \in 1..Len(k) /\ (c + 1) - 1 = c
    BY <1>2, <1>10, <2>1
  <2>3. k[c + 1] = x
    <3>1. k[c + 1] \in W /\ Place(R, W, k[c + 1]) = Place(R, W, x)
      BY <1>2, <2>1, <2>2
    <3> QED
      BY <3>1, PlacesAre
  <2>4. PICK i \in 1..m : n + i = c + 1
    <3>1. (c + 1) - n \in 1..m /\ n + ((c + 1) - n) = c + 1
      BY <1>2, <1>3, <1>10, <2>1 DEF SliceLen
    <3> QED
      BY <3>1
  <2>5. h + i \in 1..(h + m) /\ ~(h + i <= h) /\ (h + i) - h = i
    BY <2>4
  <2>6. b[h + i] = x
    BY <1>4, <1>7, <2>3, <2>4, <2>5
  <2> QED
    BY <1>8, <2>5, <2>6 DEF Range
<1> QED
  BY <1>7, <1>9, <1>10

-----------------------------------------------------------------------------
(* Listing: the invariant.                                                 *)

\* No row that was wanted when the walk began has slipped through: it is listed, or
\* its place among those wanted now is still ahead.
NoneMissed(t, a, was, now, s, n) ==
  \A x \in Wanted(t, a, was) : x \in Range(s) \/ n <= Place(RowLess(t), Wanted(t, a, now), x)

\* No other row that fits is as good as this one.
InScope(S0) == {y \in S0 : y.scope}
Alone(t, S0, x) == {y \in Fitting(t, S0) : L!Rank(y) <= L!Rank(x)} \subseteq {x}
OnlyOne(t, a, was, now, x) ==
  Cardinality(Fitting(t, now)) <= ScanCap \/ ~a.filters =>
    /\ x \in Fitting(t, now)
    /\ Alone(t, was, x) \/ (a.filters /\ x.scope /\ Alone(t, InScope(was), x))

ListTypes ==
  /\ lStore \in SUBSET StoreRows /\ lFirst \in SUBSET StoreRows
  /\ lTool \in {"list", "search", "related_by_name"}
  /\ lAsked \in [limit : Nat, filters : BOOLEAN, tests : BOOLEAN]
  /\ lPc \in {"idle", "scan", "answer", "done"}
  /\ lOffset \in Nat /\ lRaw \in Nat
  /\ lKept \in Seq(StoreRows) /\ lListed \in Seq(StoreRows) /\ lCut \in BOOLEAN
  /\ lMoved \in {"still", "grown", "spread", "torn"}

\* A walk whose pages each saw one store, that only grew.
Turning == lTool # "related_by_name" /\ lMoved \in {"still", "grown"}

\* What a page's scan keeps is what it wants of the raw rows it has seen.
Scanned ==
  /\ lPc = "scan" /\ Turning =>
       /\ lRaw <= Cardinality(Fitting(lTool, lStore))
       /\ Lists(lKept, Admitted(lAsked, FirstOf(RowLess(lTool), Fitting(lTool, lStore), lRaw)),
                RowLess(lTool))
  /\ lPc = "answer" /\ Turning =>
       Lists(lKept, Wanted(lTool, lAsked, lStore), RowLess(lTool))

\* What a walk has listed is all that was there, as far as it got.
Paged ==
  /\ lPc = "idle" => lMoved = "still" /\ lOffset = 0 /\ lListed = <<>>
  /\ lPc \in {"scan", "answer"} /\ Turning =>
       /\ lFirst \subseteq lStore
       /\ NoneMissed(lTool, lAsked, lFirst, lStore, lListed, lOffset)
       /\ lMoved = "still" =>
            /\ lFirst = lStore /\ Len(lListed) = lOffset
            /\ Initial(lListed, Wanted(lTool, lAsked, lFirst), RowLess(lTool))
  /\ lPc = "done" /\ Turning =>
       /\ lCut \/ Wanted(lTool, lAsked, lFirst) \subseteq Range(lListed)
       /\ lMoved = "still" =>
            Initial(lListed, Wanted(lTool, lAsked, lFirst), RowLess(lTool))

\* What a narrowing scan has kept, over a store that grew from what it was at the
\* first batch: rows the caller wants, and before each of them whatever was wanted
\* then comes before it; what was wanted and is not kept is still ahead.
Gathered(t, a, was, now, kept, n) ==
  /\ was \subseteq now
  /\ \A i \in 1..Len(kept) : kept[i] \in Wanted(t, a, now)
  /\ \A i \in 1..Len(kept) : \A x \in Wanted(t, a, was) :
       <<x, kept[i]>> \in RowLess(t) => \E j \in 1..i : kept[j] = x
  /\ \A x \in Wanted(t, a, was) :
       (\E j \in 1..Len(kept) : kept[j] = x) \/ n <= Place(RowLess(t), Fitting(t, now), x)

\* A name is resolved at once, or narrowed by the caller's filters.
Narrowed ==
  lPc \in {"scan", "answer"} /\ lTool = "related_by_name" =>
    /\ lAsked.filters /\ lAsked.tests /\ lAsked.limit = NameScan + 1 /\ lOffset = 0
    /\ lPc = "scan" /\ lRaw = 0 => lKept = <<>>
    /\ lPc = "scan" /\ lRaw # 0 /\ lMoved # "torn" =>
         Gathered(lTool, lAsked, lFirst, lStore, lKept, lRaw)
    /\ lPc = "answer" /\ lMoved # "torn" =>
         /\ Gathered(lTool, lAsked, lFirst, lStore, lKept, 0)
         /\ \A x \in Wanted(lTool, lAsked, lFirst) : \E j \in 1..Len(lKept) : lKept[j] = x
Named ==
  lAnswer.row # Nobody =>
    /\ lPc = "done" /\ lTool = "related_by_name"
    /\ lMoved # "torn" => OnlyOne(lTool, lAsked, lFirst, lStore, lAnswer.row)

ListInv == ListTypes /\ Scanned /\ Paged /\ Narrowed /\ Named

\* The row picked of several looked at is the only one of its rank or better.
LEMMA PickIs ==
  ASSUME NEW s \in Seq(StoreRows), NEW p, p = L!PickByName(s), p.row # Nobody
  PROVE \E c \in 1..Len(s) :
          p.row = s[c] /\ \A i \in 1..Len(s) : L!Rank(s[i]) <= L!Rank(s[c]) => i = c
<1>1. PICK n \in Nat : n = Len(s) /\ DOMAIN s = 1..n
  OBVIOUS
<1> DEFINE Fits(f) == {i \in DOMAIN s : s[i].fits = f}
           rule == IF Fits("exact") # {} THEN "exact"
                   ELSE IF Fits("folded") # {} THEN "folded" ELSE "part"
           chosen == IF rule = "part" THEN DOMAIN s ELSE Fits(rule)
<1>2. p = [row |-> IF Cardinality(chosen) = 1 THEN s[CHOOSE i \in chosen : TRUE] ELSE Nobody,
           rule |-> rule, among |-> {s[i] : i \in chosen}]
  BY DEF L!PickByName, L!Cardinality, Cardinality
<1>3. PICK c : chosen = {c} /\ p.row = s[c]
  <2>1. Cardinality(chosen) = 1 /\ p.row = s[CHOOSE i \in chosen : TRUE]
    <3> HIDE DEF chosen, rule
    <3>1. p.row = IF Cardinality(chosen) = 1 THEN s[CHOOSE i \in chosen : TRUE] ELSE Nobody
      BY <1>2
    <3> QED
      BY <3>1
  <2>2. IsFiniteSet(chosen)
    <3>1. chosen \subseteq 1..n /\ IsFiniteSet(1..n)
      BY <1>1, FS_Interval
    <3> QED
      BY <3>1, FS_Subset
  <2> HIDE DEF chosen
  <2>3. PICK c : chosen = {c}
    BY <2>1, <2>2, FS_Singleton
  <2> QED
    BY <2>1, <2>3
<1>4. c \in 1..n
  <2>1. chosen \subseteq DOMAIN s
    OBVIOUS
  <2> HIDE DEF chosen
  <2> QED
    BY <1>1, <1>3, <2>1
<1>5. ASSUME NEW i \in 1..n, L!Rank(s[i]) <= L!Rank(s[c]) PROVE i = c
  <2>1. CASE rule = "exact"
    <3>1. s[c].fits = "exact" /\ L!Rank(s[c]) = 0
      BY <1>3, <2>1 DEF L!Rank
    <3>2. s[i].fits = "exact"
      BY <1>5, <3>1 DEF L!Rank
    <3> QED
      BY <1>1, <1>3, <2>1, <3>2
  <2>2. CASE rule = "folded"
    <3>1. s[c].fits = "folded" /\ L!Rank(s[c]) = 1 /\ s[i].fits # "exact"
      BY <1>1, <1>3, <2>2 DEF L!Rank
    <3>2. s[i].fits = "folded"
      BY <1>5, <3>1 DEF L!Rank
    <3> QED
      BY <1>1, <1>3, <2>2, <3>2
  <2>3. CASE rule = "part"
    BY <1>1, <1>3, <2>3
  <2> QED
    BY <2>1, <2>2, <2>3
<1> HIDE DEF Fits, rule, chosen
<1> QED
  BY <1>1, <1>3, <1>4, <1>5

\* Among rows in order, so of all of them, when two at least are looked at.
LEMMA PickIsTheOne ==
  ASSUME NEW t, t # "list", NEW W \in SUBSET StoreRows, NEW q, Lists(q, W, RowLess(t)),
         NEW n \in Nat, 2 <= n, NEW p, p = L!PickByName(L!Slice(q, 0, n)), p.row # Nobody
  PROVE p.row \in W /\ {y \in W : L!Rank(y) <= L!Rank(p.row)} \subseteq {p.row}
<1>1. PICK u : u = L!Slice(q, 0, n)
  OBVIOUS
<1>2. /\ q \in Seq(W) /\ Len(q) \in Nat
      /\ \A x \in W : \E i \in 1..Len(q) : q[i] = x
      /\ \A i, j \in 1..Len(q) : i < j => <<q[i], q[j]>> \in RowLess(t)
  BY DEF Lists
<1>3. PICK m \in Nat : m = SliceLen(Len(q), 0, n) /\ CutOut(u, W, q, 0, m)
  BY <1>1, <1>2, SliceCuts
<1>4. u \in Seq(W) /\ Len(u) = m /\ \A i \in 1..m : u[i] = q[i] /\ i \in 1..Len(q)
  BY <1>3 DEF CutOut
<1>5. u \in Seq(StoreRows)
  BY <1>4
<1>6. PICK c \in 1..m :
        p.row = u[c] /\ \A i \in 1..m : L!Rank(u[i]) <= L!Rank(u[c]) => i = c
  BY <1>1, <1>4, <1>5, PickIs
<1>7. p.row = q[c] /\ \A i \in 1..m : L!Rank(q[i]) <= L!Rank(q[c]) => i = c
  BY <1>4, <1>6
<1>8. ASSUME NEW y \in W, L!Rank(y) <= L!Rank(p.row) PROVE y = p.row
  <2>1. PICK k \in 1..Len(q) : q[k] = y
    BY <1>2
  <2>2. CASE k <= m
    BY <1>7, <1>8, <2>1, <2>2
  <2>3. CASE ~(k <= m)
    <3>0. m = n
      BY <1>2, <1>3, <2>1, <2>3 DEF SliceLen
    <3>a. PICK h \in Nat : h = Len(q)
      BY <1>2
    <3>b. k \in 1..h
      BY <2>1, <3>a
    <3>1. 1 \in 1..m /\ 2 \in 1..m /\ 1 < k /\ 2 < k /\ 1 \in 1..Len(q) /\ 2 \in 1..Len(q)
      BY <2>3, <3>0, <3>a, <3>b
    <3>2. <<q[1], q[k]>> \in RowLess(t) /\ <<q[2], q[k]>> \in RowLess(t)
      BY <1>2, <2>1, <3>1
    <3>3. L!Rank(q[1]) <= L!Rank(q[k]) /\ L!Rank(q[2]) <= L!Rank(q[k])
      BY <3>2, RanksAre DEF RowLess, L!NameBefore
    <3>4. L!Rank(q[1]) <= L!Rank(q[c]) /\ L!Rank(q[2]) <= L!Rank(q[c])
      BY <1>7, <1>8, <2>1, <3>3, RanksAre
    <3>5. 1 = c /\ 2 = c
      BY <1>7, <3>1, <3>4
    <3> QED
      BY <3>5
  <2> QED
    BY <2>2, <2>3
<1> QED
  BY <1>4, <1>6, <1>8

\* What the invariant says of a name is the property.
LEMMA OneIsTheOne ==
  ASSUME ListInv
  PROVE L!NameIsTheOne
<1> SUFFICES ASSUME lMoved # "torn",
                    L!Cardinality(L!Matching(lStore)) <= ScanCap \/ ~lAsked.filters,
                    lPc = "done", lAnswer.row # Nobody
             PROVE /\ lAnswer.row \in L!Matching(lStore)
                   /\ \/ L!Rivals(lFirst) \subseteq {lAnswer.row}
                      \/ /\ lAsked.filters /\ lAnswer.row.scope
                         /\ L!Rivals({x \in lFirst : x.scope}) \subseteq {lAnswer.row}
  BY DEF L!NameIsTheOne, L!NameIsNoPick
<1>1. \A S0 : L!Matching(S0) = Fitting(lTool, S0)
  BY DEF L!Matching, Fitting
<1>2. OnlyOne(lTool, lAsked, lFirst, lStore, lAnswer.row)
  BY DEF ListInv, Named
<1>3. \A S0 : Alone(lTool, S0, lAnswer.row) <=> L!Rivals(S0) \subseteq {lAnswer.row}
  BY <1>1 DEF Alone, L!Rivals
<1> QED
  BY <1>1, <1>2, <1>3, RowCardinality DEF OnlyOne, InScope

\* and what it says of a walk.
LEMMA WalkIsWhole ==
  ASSUME ListInv
  PROVE L!WalkIsComplete
<1> SUFFICES ASSUME lPc = "done", lTool # "related_by_name", lMoved \in {"still", "grown"}
             PROVE /\ lCut \/ L!Range(L!Filtered(L!Query(lFirst))) \subseteq L!Range(lListed)
                   /\ lMoved = "still" =>
                        \E n \in 0..Len(L!Filtered(L!Query(lFirst))) :
                          lListed = SubSeq(L!Filtered(L!Query(lFirst)), 1, n)
  BY DEF L!WalkIsComplete
<1> DEFINE W == Wanted(lTool, lAsked, lFirst)
           R == RowLess(lTool)
<1>1. lFirst \in SUBSET StoreRows /\ lListed \in Seq(StoreRows)
  BY DEF ListInv, ListTypes
<1>2. W \in SUBSET StoreRows
  BY <1>1 DEF Wanted, Admitted, Fitting
<1>3. PICK q : q = L!Query(lFirst) /\ Lists(q, Fitting(lTool, lFirst), R)
  BY <1>1, QueryLists
<1>4. q \in Seq(StoreRows) /\ Range(q) = Fitting(lTool, lFirst)
  <2>1. /\ q \in Seq(Fitting(lTool, lFirst))
        /\ \A x \in Fitting(lTool, lFirst) : \E i \in 1..Len(q) : q[i] = x
    BY <1>3 DEF Lists
  <2>2. Fitting(lTool, lFirst) \subseteq StoreRows
    BY <1>1 DEF Fitting
  <2>3. DOMAIN q = 1..Len(q) /\ \A i \in 1..Len(q) : q[i] \in Fitting(lTool, lFirst)
    BY <2>1
  <2> QED
    BY <2>1, <2>2, <2>3 DEF Range
<1>5. PICK w : w = L!Filtered(L!Query(lFirst)) /\ Lists(w, W, R)
  <2>1. Lists(L!Filtered(q), Admitted(lAsked, Range(q)), R)
    BY <1>4, FilteredLists
  <2> QED
    BY <1>3, <1>4, <2>1 DEF Wanted
<1> HIDE DEF W, R
<1>6. /\ w \in Seq(W) /\ \A x \in W : \E i \in 1..Len(w) : w[i] = x
      /\ \A i \in 1..Len(w) : Place(R, W, w[i]) = i - 1
  BY <1>5 DEF Lists, Place
<1>7. L!Range(w) = W
  <2>1. DOMAIN w = 1..Len(w) /\ \A i \in 1..Len(w) : w[i] \in W
    BY <1>6
  <2> QED
    BY <1>6, <2>1 DEF L!Range
<1>8. L!Range(lListed) = Range(lListed)
  BY DEF L!Range, Range
<1>9. lCut \/ W \subseteq Range(lListed)
  BY DEF ListInv, Paged, Turning, W
<1>10. ASSUME lMoved = "still"
       PROVE \E n \in 0..Len(w) : lListed = SubSeq(w, 1, n)
  <2>1. Initial(lListed, W, R)
    BY <1>10 DEF ListInv, Paged, Turning, W, R
  <2>2. PICK n \in Nat : n = Len(lListed)
    BY <1>1
  <2>3. lListed \in Seq(W) /\ \A i \in 1..n : Place(R, W, lListed[i]) = i - 1
    BY <2>1, <2>2 DEF Initial
  <2>4. Orders(R, W) /\ IsFiniteSet(W)
    BY <1>2, RowsAreOrdered DEF R
  <2>5. Len(w) = Cardinality(W)
    BY <1>5 DEF Lists
  <2>6. n <= Len(w)
    <3> SUFFICES ASSUME n # 0 PROVE n <= Len(w)
      BY <1>6
    <3>1. n \in 1..n /\ lListed[n] \in W
      BY <2>2, <2>3
    <3>2. Place(R, W, lListed[n]) < Cardinality(W) /\ Cardinality(W) \in Nat
      BY <2>4, <3>1, PlacesAre
    <3> QED
      BY <2>3, <2>5, <3>1, <3>2
  <2>7. \A i \in 1..n : lListed[i] = w[i]
    <3> TAKE i \in 1..n
    <3>0. i \in 1..Len(lListed) /\ i \in 1..Len(w)
      BY <1>6, <2>2, <2>6
    <3>a. w[i] \in W
      <4>1. w \in Seq(W)
        BY <1>6
      <4> QED
        BY <3>0, <4>1
    <3>b. lListed[i] \in W
      <4>1. lListed \in Seq(W)
        BY <2>3
      <4> QED
        BY <3>0, <4>1
    <3>1. i \in 1..Len(w) /\ lListed[i] \in W /\ w[i] \in W
      BY <3>0, <3>a, <3>b
    <3>2. Place(R, W, lListed[i]) = Place(R, W, w[i])
      BY <1>6, <2>3, <3>1
    <3> QED
      BY <2>4, <3>1, <3>2, PlacesAre
  <2>8. n \in 0..Len(w)
    BY <1>6, <2>6
  <2>9. SubSeq(w, 1, n) \in Seq(W) /\ Len(SubSeq(w, 1, n)) = n
        /\ \A i \in 1..n : SubSeq(w, 1, n)[i] = w[i]
    BY <1>6, <2>8, SubSeqProperties
  <2>10. lListed = SubSeq(w, 1, n)
    BY <2>2, <2>3, <2>7, <2>9, SeqEqual
  <2> QED
    BY <2>8, <2>10
<1> QED
  BY <1>5, <1>7, <1>8, <1>9, <1>10

-----------------------------------------------------------------------------
(* Listing: the steps.                                                     *)

\* What is wanted are rows, in order.
LEMMA WantedRows ==
  ASSUME NEW S0 \in SUBSET StoreRows, NEW t, NEW a
  PROVE /\ Fitting(t, S0) \in SUBSET StoreRows /\ Wanted(t, a, S0) \in SUBSET StoreRows
        /\ Orders(RowLess(t), Wanted(t, a, S0)) /\ IsFiniteSet(Wanted(t, a, S0))
        /\ Orders(RowLess(t), Fitting(t, S0)) /\ IsFiniteSet(Fitting(t, S0))
        /\ Cardinality(Fitting(t, S0)) \in Nat
<1>1. Fitting(t, S0) \in SUBSET StoreRows /\ Wanted(t, a, S0) \in SUBSET StoreRows
  BY DEF Fitting, Wanted, Admitted
<1>2. /\ Orders(RowLess(t), Wanted(t, a, S0)) /\ IsFiniteSet(Wanted(t, a, S0))
      /\ Orders(RowLess(t), Fitting(t, S0)) /\ IsFiniteSet(Fitting(t, S0))
  BY <1>1, RowsAreOrdered
<1> QED
  BY <1>1, <1>2, FS_CardinalityType

\* A listing of rows is a sequence of rows.
LEMMA ListedRows ==
  ASSUME NEW S0 \in SUBSET StoreRows, NEW R, NEW s, Lists(s, S0, R)
  PROVE s \in Seq(StoreRows) /\ Len(s) = Cardinality(S0) /\ Range(s) = S0
<1>1. s \in Seq(S0) /\ \A x \in S0 : \E i \in 1..Len(s) : s[i] = x
  BY DEF Lists
<1>2. DOMAIN s = 1..Len(s) /\ \A i \in 1..Len(s) : s[i] \in S0
  BY <1>1
<1>3. s \in Seq(StoreRows)
  BY <1>1, <1>2
<1> QED
  BY <1>1, <1>2, <1>3 DEF Lists, Range

\* Before the first batch of a page nothing is kept,
LEMMA FreshScan ==
  ASSUME NEW S0 \in SUBSET StoreRows, NEW t, NEW a, NEW n, n = 0, NEW s, s = <<>>
  PROVE /\ n <= Cardinality(Fitting(t, S0))
        /\ Lists(s, Admitted(a, FirstOf(RowLess(t), Fitting(t, S0), n)), RowLess(t))
<1>1. Cardinality(Fitting(t, S0)) \in Nat
  BY WantedRows
<1> QED
  BY <1>1, NothingListed

\* and before the first page nothing is listed.
LEMMA FreshWalk ==
  ASSUME NEW S0 \in SUBSET StoreRows, NEW t, NEW a, NEW s, s = <<>>, NEW n, n = 0
  PROVE /\ NoneMissed(t, a, S0, S0, s, n)
        /\ Len(s) = n /\ Initial(s, Wanted(t, a, S0), RowLess(t))
<1> DEFINE W == Wanted(t, a, S0)
<1>1. Orders(RowLess(t), W) /\ IsFiniteSet(W)
  BY WantedRows
<1> HIDE DEF W
<1>2. \A x \in W : Place(RowLess(t), W, x) \in Nat
  BY <1>1, PlacesAre
<1>3. \A x \in W : n <= Place(RowLess(t), W, x)
  BY <1>2
<1>4. NoneMissed(t, a, S0, S0, s, n)
  BY <1>3 DEF NoneMissed, W
<1>5. Initial(s, W, RowLess(t))
  BY DEF Initial
<1> QED
  BY <1>4, <1>5 DEF W

\* It begins so.
LEMMA ListStarts ==
  ASSUME L!Init
  PROVE ListInv
<1>1. ListTypes
  <2>1. lStore \in SUBSET StoreRows /\ lFirst \in SUBSET StoreRows
    BY RowAssumption DEF L!Init
  <2>2. lAsked \in [limit : Nat, filters : BOOLEAN, tests : BOOLEAN]
    BY DEF L!Init, L!Idle
  <2>3. lKept \in Seq(StoreRows) /\ lListed \in Seq(StoreRows) /\ lCut \in BOOLEAN
    <3>1. lKept = <<>> /\ lListed = <<>> /\ lCut = FALSE
      BY DEF L!Init
    <3>2. <<>> \in Seq(StoreRows)
      OBVIOUS
    <3> QED
      BY <3>1, <3>2
  <2> QED
    BY <2>1, <2>2, <2>3 DEF L!Init, L!Tools, ListTypes
<1>2. Scanned /\ Paged /\ Narrowed /\ Named
  BY DEF L!Init, Scanned, Paged, Narrowed, Named
<1> QED
  BY <1>1, <1>2 DEF ListInv

\* A walk begins.
LEMMA ListBegins ==
  ASSUME ListInv, L!ListPage
  PROVE ListInv'
<1>1. /\ lPc = "idle" /\ lTool # "related_by_name" /\ lPc' = "scan" /\ lRaw' = 0
      /\ lKept' = <<>> /\ lFirst' = lStore /\ lMoved' = lMoved
      /\ UNCHANGED <<lStore, lTool, lOffset, lListed, lCut, lAnswer>>
  BY DEF L!ListPage
<1>2. ListTypes'
  <2>1. lAsked' \in [limit : Nat, filters : BOOLEAN, tests : BOOLEAN]
    BY RowAssumption DEF L!ListPage
  <2> QED
    BY <1>1, <2>1 DEF ListInv, ListTypes
<1>3. lMoved = "still" /\ lOffset = 0 /\ lListed = <<>> /\ lAnswer.row = Nobody
      /\ lStore \in SUBSET StoreRows
  BY <1>1 DEF ListInv, Paged, Named, ListTypes
<1>4. PICK a : a = lAsked'
  OBVIOUS
<1>5. Scanned'
  <2>1. /\ 0 <= Cardinality(Fitting(lTool, lStore))
        /\ Lists(<<>>, Admitted(a, FirstOf(RowLess(lTool), Fitting(lTool, lStore), 0)),
                 RowLess(lTool))
    BY <1>3, FreshScan
  <2> QED
    BY <1>1, <1>4, <2>1 DEF Scanned, Turning
<1>6. Paged'
  <2>1. /\ NoneMissed(lTool, a, lStore, lStore, <<>>, 0)
        /\ Initial(<<>>, Wanted(lTool, a, lStore), RowLess(lTool))
    BY <1>3, FreshWalk
  <2> QED
    BY <1>1, <1>3, <1>4, <2>1 DEF Paged, Turning
<1>7. Narrowed' /\ Named'
  BY <1>1, <1>3 DEF Narrowed, Named
<1> QED
  BY <1>2, <1>5, <1>6, <1>7 DEF ListInv

\* What a query brings: the rows behind those seen, and whether they are the last.
LEMMA BatchIs ==
  ASSUME ListTypes, NEW more, more = L!Slice(L!Query(lStore), lRaw, Batch + 1),
         NEW s, s = L!Filtered(L!Slice(more, 0, Batch))
  PROVE /\ s \in Seq(StoreRows)
        /\ Lists(s, Admitted(lAsked, PlacedIn(RowLess(lTool), Fitting(lTool, lStore),
                                             lRaw, lRaw + Batch)), RowLess(lTool))
        /\ IF Len(more) <= Batch
           THEN Cardinality(Fitting(lTool, lStore)) <= lRaw + Batch
           ELSE lRaw + Batch <= Cardinality(Fitting(lTool, lStore))
<1>1. PICK F \in SUBSET StoreRows : F = Fitting(lTool, lStore)
  BY WantedRows DEF ListTypes
<1>2. Orders(RowLess(lTool), F) /\ IsFiniteSet(F) /\ Cardinality(F) \in Nat
  BY <1>1, WantedRows DEF ListTypes
<1>3. PICK q : q = L!Query(lStore) /\ Lists(q, F, RowLess(lTool))
  BY <1>1, QueryLists DEF ListTypes
<1>4. q \in Seq(StoreRows) /\ Len(q) = Cardinality(F)
  BY <1>3, ListedRows
<1>5. PICK r \in Nat, b \in Nat : r = lRaw /\ b = Batch
  BY RowAssumption DEF ListTypes
<1>6. more = L!Slice(q, r, b + 1)
  BY <1>3, <1>5
<1>7. PICK c : c = L!Slice(q, r, b) /\ Range(c) = PlacedIn(RowLess(lTool), F, r, r + b)
  BY <1>2, <1>3, <1>5, SliceOfList
<1>8. L!Slice(more, 0, Batch) = c
  BY <1>4, <1>5, <1>6, <1>7, SliceOfSlice
<1>9. c \in Seq(StoreRows)
  <2>1. \E m \in Nat : CutOut(c, StoreRows, q, r, m)
    BY <1>4, <1>7, SliceCuts
  <2> QED
    BY <2>1 DEF CutOut
<1>10. Lists(s, Admitted(lAsked, Range(c)), RowLess(lTool))
  <2>1. s = L!Filtered(c)
    BY <1>8
  <2> QED
    BY <1>9, <2>1, FilteredLists
<1>11. Admitted(lAsked, Range(c)) \in SUBSET StoreRows
  BY <1>7 DEF Admitted, PlacedIn
<1>12. s \in Seq(StoreRows)
  BY <1>10, <1>11, ListedRows
<1>13. PICK o \in Nat : o = SliceLen(Len(q), r, b + 1) /\ CutOut(more, StoreRows, q, r, o)
  BY <1>4, <1>6, SliceCuts
<1>14. Len(more) = o
  BY <1>13 DEF CutOut
<1>15. IF o <= b THEN Cardinality(F) <= r + b ELSE r + b <= Cardinality(F)
  BY <1>2, <1>4, <1>13 DEF SliceLen
<1> QED
  BY <1>1, <1>5, <1>7, <1>10, <1>12, <1>14, <1>15

\* A narrowing scan goes on with a batch,
LEMMA NameGathers ==
  ASSUME NEW t, NEW a, NEW was \in SUBSET StoreRows, NEW now \in SUBSET StoreRows,
         NEW n \in Nat, NEW m \in Nat, NEW k \in Seq(StoreRows), Gathered(t, a, was, now, k, n),
         NEW u \in Seq(StoreRows),
         Lists(u, Admitted(a, PlacedIn(RowLess(t), Fitting(t, now), n, n + m)), RowLess(t)),
         NEW b, b = k \o u
  PROVE Gathered(t, a, was, now, b, n + m)
<1> DEFINE F == Fitting(t, now)
           R == RowLess(t)
           D == Admitted(a, PlacedIn(R, F, n, n + m))
<1>1. F \in SUBSET StoreRows /\ Orders(R, F) /\ IsFiniteSet(F)
  BY WantedRows
<1>2. /\ \A x \in F : Place(R, F, x) \in Nat
      /\ \A x, y \in F : <<x, y>> \in R => Place(R, F, x) < Place(R, F, y)
  <2> HIDE DEF F, R
  <2> QED
    BY <1>1, PlacesAre
<1>3. PICK h \in Nat, l \in Nat : h = Len(k) /\ l = Len(u)
  OBVIOUS
<1>4. /\ \A i \in 1..l : u[i] \in D
      /\ \A x \in D : \E i \in 1..l : u[i] = x
      /\ \A i, j \in 1..l : i < j => <<u[i], u[j]>> \in R
  <2>1. Lists(u, D, R)
    OBVIOUS
  <2> HIDE DEF D, R
  <2> QED
    BY <1>3, <2>1 DEF Lists
<1>5. /\ b \in Seq(StoreRows) /\ Len(b) = h + l
      /\ \A i \in 1..h : b[i] = k[i]
      /\ \A i \in 1..(h + l) : ~ (i <= h) => b[i] = u[i - h]
  <2>1. Joined(b, StoreRows, k, u, h, l)
    BY <1>3, JoinIs
  <2> QED
    BY <2>1 DEF Joined
<1>6. /\ was \subseteq now
      /\ \A i \in 1..h : k[i] \in Wanted(t, a, now)
      /\ \A i \in 1..h : \A x \in Wanted(t, a, was) :
           <<x, k[i]>> \in R => \E j \in 1..i : k[j] = x
      /\ \A x \in Wanted(t, a, was) : (\E j \in 1..h : k[j] = x) \/ n <= Place(R, F, x)
  BY <1>3 DEF Gathered
<1>7. /\ \A x \in Wanted(t, a, was) : x \in F
      /\ \A x \in Wanted(t, a, was) : n <= Place(R, F, x) /\ Place(R, F, x) < n + m => x \in D
      /\ \A x \in D : x \in Wanted(t, a, now) /\ x \in F /\ Place(R, F, x) < n + m
                      /\ n <= Place(R, F, x)
  BY <1>6 DEF Wanted, Admitted, Fitting, PlacedIn
<1> HIDE DEF F, R, D
<1>8. \A i \in 1..(h + l) : b[i] \in Wanted(t, a, now)
  <2> TAKE i \in 1..(h + l)
  <2>1. CASE i <= h
    BY <1>5, <1>6, <2>1
  <2>2. CASE ~(i <= h)
    <3>1. i - h \in 1..l
      BY <2>2
    <3> QED
      BY <1>4, <1>5, <1>7, <2>2, <3>1
  <2> QED
    BY <2>1, <2>2
<1>9. ASSUME NEW i \in 1..(h + l), NEW x \in Wanted(t, a, was), <<x, b[i]>> \in R
      PROVE \E j \in 1..i : b[j] = x
  <2>1. CASE i <= h
    <3>0. i \in 1..h
      BY <2>1
    <3>1. i \in 1..h /\ <<x, k[i]>> \in R
      BY <1>5, <1>9, <3>0
    <3>2. PICK j \in 1..i : k[j] = x
      BY <1>6, <3>1
    <3>3. j \in 1..h
      BY <2>1
    <3> QED
      BY <1>5, <3>2, <3>3
  <2>2. CASE ~(i <= h)
    <3>0. i - h \in 1..l
      BY <2>2
    <3>1. PICK v \in 1..l : v = i - h /\ b[i] = u[v]
      BY <1>5, <2>2, <3>0
    <3>2. u[v] \in D /\ x \in F
      BY <1>4, <1>7
    <3>3. Place(R, F, x) < Place(R, F, u[v]) /\ Place(R, F, u[v]) < n + m
          /\ Place(R, F, x) \in Nat /\ Place(R, F, u[v]) \in Nat
      BY <1>2, <1>7, <1>9, <3>1, <3>2
    <3>4. CASE \E j \in 1..h : k[j] = x
      <4>1. PICK j \in 1..h : k[j] = x
        BY <3>4
      <4>2. j \in 1..i /\ b[j] = x
        BY <1>5, <2>2, <4>1
      <4> QED
        BY <4>2
    <3>5. CASE n <= Place(R, F, x)
      <4>1. x \in D
        <5>1. Place(R, F, x) < n + m
          BY <3>3
        <5> QED
          BY <1>7, <3>5, <5>1
      <4>2. PICK w \in 1..l : u[w] = x
        BY <1>4, <4>1
      <4>3. w < v
        <5> SUFFICES ASSUME ~(w < v) PROVE FALSE
          OBVIOUS
        <5>1. w = v \/ v < w
          OBVIOUS
        <5>2. w # v
          BY <3>3, <4>2
        <5>3. <<u[v], u[w]>> \in R
          BY <1>4, <5>1, <5>2
        <5>4. Place(R, F, u[v]) < Place(R, F, x)
          BY <1>2, <3>2, <4>2, <5>3, <1>7
        <5> QED
          BY <3>3, <5>4
      <4>4. h + w \in 1..(h + l) /\ ~(h + w <= h) /\ (h + w) - h = w /\ h + w \in 1..i
        BY <3>1, <4>3
      <4> QED
        BY <1>5, <4>2, <4>4
    <3> QED
      BY <1>6, <3>4, <3>5
  <2> QED
    BY <2>1, <2>2
<1>10. ASSUME NEW x \in Wanted(t, a, was), ~(n + m <= Place(R, F, x))
       PROVE \E j \in 1..(h + l) : b[j] = x
  <2>1. CASE \E j \in 1..h : k[j] = x
    <3>1. PICK j \in 1..h : k[j] = x
      BY <2>1
    <3>2. j \in 1..(h + l)
      OBVIOUS
    <3> QED
      BY <1>5, <3>1, <3>2
  <2>2. CASE n <= Place(R, F, x)
    <3>1. x \in D
      <4>1. Place(R, F, x) \in Nat
        BY <1>2, <1>7
      <4>2. Place(R, F, x) < n + m
        BY <1>10, <4>1
      <4> QED
        BY <1>7, <2>2, <4>2
    <3>2. PICK w \in 1..l : u[w] = x
      BY <1>4, <3>1
    <3>3. h + w \in 1..(h + l) /\ ~(h + w <= h) /\ (h + w) - h = w
      OBVIOUS
    <3> QED
      BY <1>5, <3>2, <3>3
  <2> QED
    BY <1>6, <2>1, <2>2
<1> QED
  BY <1>5, <1>6, <1>8, <1>9, <1>10 DEF Gathered, F, R

\* and begins with nothing kept.
LEMMA NothingGathered ==
  ASSUME NEW t, NEW a, NEW now \in SUBSET StoreRows
  PROVE Gathered(t, a, now, now, <<>>, 0)
<1>1. \A x \in Fitting(t, now) : 0 <= Place(RowLess(t), Fitting(t, now), x)
  BY WantedRows, PlacesAre
<1>2. Wanted(t, a, now) \subseteq Fitting(t, now)
  BY DEF Wanted, Admitted
<1>3. Len(<<>>) = 0 /\ \A i \in 1..0 : FALSE
  OBVIOUS
<1> QED
  BY <1>1, <1>2, <1>3 DEF Gathered

\* A batch is fetched.
LEMMA ListFetches ==
  ASSUME ListInv, L!FetchBatch
  PROVE ListInv'
<1>1. PICK more : more = L!Slice(L!Query(lStore), lRaw, Batch + 1)
  OBVIOUS
<1>2. PICK s : s = L!Filtered(L!Slice(more, 0, Batch))
  OBVIOUS
<1>3. /\ lPc = "scan" /\ lKept' = lKept \o s
      /\ lRaw' = IF Len(more) <= Batch THEN lRaw ELSE lRaw + Batch
      /\ lPc' = IF Len(more) <= Batch THEN "answer" ELSE "scan"
      /\ lFirst' = IF lTool = "related_by_name" /\ lRaw = 0 THEN lStore ELSE lFirst
      /\ lMoved' = IF lTool = "related_by_name" /\ lRaw = 0 THEN "still" ELSE lMoved
      /\ UNCHANGED <<lStore, lTool, lAsked, lOffset, lListed, lCut, lAnswer>>
  BY <1>1, <1>2 DEF L!FetchBatch, L!Narrowing
<1>4. ListTypes
  BY DEF ListInv
<1>a. PICK st \in SUBSET StoreRows : st = lStore
  BY <1>4 DEF ListTypes
<1>5. PICK t, a : st = lStore /\ t = lTool /\ a = lAsked
  BY <1>a
<1>b. PICK r \in Nat, b \in Nat : r = lRaw /\ b = Batch
  BY <1>4, RowAssumption DEF ListTypes
<1>6. PICK o : r = lRaw /\ b = Batch /\ o = Len(more)
  BY <1>b
<1>7. /\ s \in Seq(StoreRows)
      /\ Lists(s, Admitted(a, PlacedIn(RowLess(t), Fitting(t, st), r, r + b)), RowLess(t))
      /\ IF o <= b THEN Cardinality(Fitting(t, st)) <= r + b
                   ELSE r + b <= Cardinality(Fitting(t, st))
  BY <1>1, <1>2, <1>4, <1>5, <1>6, BatchIs
<1>8. lKept \in Seq(StoreRows) /\ lKept \o s \in Seq(StoreRows)
  BY <1>4, <1>7 DEF ListTypes
<1>9. ListTypes'
  BY <1>3, <1>4, <1>6, <1>8 DEF ListTypes
<1>10. Scanned'
  <2> SUFFICES ASSUME Turning PROVE Scanned'
    BY <1>3 DEF Scanned, Turning
  <2>0. UNCHANGED lMoved /\ Turning'
    BY <1>3 DEF Turning
  <2>1. r <= Cardinality(Fitting(t, st))
        /\ Lists(lKept, Admitted(a, FirstOf(RowLess(t), Fitting(t, st), r)), RowLess(t))
    BY <1>3, <1>5, <1>6 DEF ListInv, Scanned
  <2>2. Lists(lKept \o s, Admitted(a, FirstOf(RowLess(t), Fitting(t, st), r + b)), RowLess(t))
    BY <1>7, <2>1, BatchJoins
  <2>3. CASE o <= b
    <3>1. FirstOf(RowLess(t), Fitting(t, st), r + b) = Fitting(t, st)
      BY <1>7, <2>1, <2>3, AllAreFirst
    <3>2. Lists(lKept \o s, Wanted(t, a, st), RowLess(t))
      BY <2>2, <3>1 DEF Wanted
    <3> QED
      BY <1>3, <1>5, <1>6, <2>3, <3>2 DEF Scanned
  <2>4. CASE ~(o <= b)
    <3>1. r + b <= Cardinality(Fitting(t, st))
      BY <1>7, <2>4
    <3> QED
      BY <1>3, <1>5, <1>6, <2>2, <2>4, <3>1 DEF Scanned
  <2> QED
    BY <2>3, <2>4
<1>11. Paged'
  BY <1>3 DEF ListInv, Paged, Turning
<1>12. Narrowed'
  <2> SUFFICES ASSUME lTool = "related_by_name" PROVE Narrowed'
    BY <1>3 DEF Narrowed
  <2>1. /\ a.filters /\ a.tests /\ a.limit = NameScan + 1 /\ lOffset = 0
        /\ r = 0 => lKept = <<>>
        /\ r # 0 /\ lMoved # "torn" => Gathered(t, a, lFirst, st, lKept, r)
    BY <1>3, <1>5, <1>6 DEF ListInv, Narrowed
  <2>2. b # 0
    BY <1>6, RowAssumption
  <2>3. PICK was \in SUBSET StoreRows : was = lFirst'
    BY <1>9 DEF ListTypes
  <2> SUFFICES ASSUME lMoved' # "torn" PROVE Narrowed'
    BY <1>3, <1>5, <1>6, <2>1, <2>2 DEF Narrowed
  <2>4. Gathered(t, a, was, st, lKept, r)
    <3>1. CASE r = 0
      BY <1>3, <1>5, <1>6, <2>1, <2>3, <3>1, NothingGathered
    <3>2. CASE r # 0
      BY <1>3, <1>6, <2>1, <2>3, <3>2
    <3> QED
      BY <3>1, <3>2
  <2>5. PICK k : k = lKept \o s
    OBVIOUS
  <2>6. Gathered(t, a, was, st, k, r + b)
    BY <1>7, <1>8, <2>4, <2>5, NameGathers
  <2>7. CASE ~(o <= b)
    <3>1. r + b # 0 /\ r + b = lRaw' /\ lPc' = "scan"
      BY <1>3, <1>6, <2>2, <2>7
    <3> QED
      BY <1>3, <1>5, <2>1, <2>3, <2>5, <2>6, <3>1 DEF Narrowed
  <2>8. CASE o <= b
    <3>1. lPc' = "answer"
      BY <1>3, <1>6, <2>8
    <3>2. Cardinality(Fitting(t, st)) <= r + b
      BY <1>7, <2>8
    <3>3. \A x \in Fitting(t, st) :
            /\ Place(RowLess(t), Fitting(t, st), x) \in Nat
            /\ Cardinality(Fitting(t, st)) \in Nat
            /\ Place(RowLess(t), Fitting(t, st), x) < Cardinality(Fitting(t, st))
      BY WantedRows, PlacesAre
    <3>4. \A x \in Wanted(t, a, was) : x \in Fitting(t, st)
      BY <2>6 DEF Gathered, Wanted, Admitted, Fitting
    <3>5. \A x \in Wanted(t, a, was) : ~(r + b <= Place(RowLess(t), Fitting(t, st), x))
      BY <3>2, <3>3, <3>4
    <3>6. \A x \in Wanted(t, a, was) : \E j \in 1..Len(k) : k[j] = x
      BY <2>6, <3>5 DEF Gathered
    <3>7. \A x \in Wanted(t, a, was) : 0 <= Place(RowLess(t), Fitting(t, st), x)
      BY <3>3, <3>4
    <3>8. Gathered(t, a, was, st, k, 0)
      BY <2>6, <3>7 DEF Gathered
    <3> QED
      BY <1>3, <1>5, <2>1, <2>3, <2>5, <3>1, <3>6, <3>8 DEF Narrowed
  <2> QED
    BY <2>7, <2>8
<1>13. Named'
  BY <1>3 DEF ListInv, Named
<1> QED
  BY <1>9, <1>10, <1>11, <1>12, <1>13 DEF ListInv

\* A page is answered.
LEMMA ListResponds ==
  ASSUME ListInv, L!Respond
  PROVE ListInv'
<1>1. ListTypes
  BY DEF ListInv
<1>a. PICK st \in SUBSET StoreRows : st = lStore
  BY <1>1 DEF ListTypes
<1>b. PICK fi \in SUBSET StoreRows : fi = lFirst
  BY <1>1 DEF ListTypes
<1>c. PICK t : t = lTool
  OBVIOUS
<1>d. PICK a : a = lAsked
  OBVIOUS
<1>e. PICK k \in Seq(StoreRows) : k = lKept
  BY <1>1 DEF ListTypes
<1>f. PICK s \in Seq(StoreRows) : s = lListed
  BY <1>1 DEF ListTypes
<1>g. PICK n \in Nat : n = lOffset
  BY <1>1 DEF ListTypes
<1>h. PICK l \in Nat : l = lAsked.limit
  BY <1>1 DEF ListTypes
<1>i. PICK h \in Nat : h = Len(k)
  OBVIOUS
<1>2. st = lStore /\ fi = lFirst /\ t = lTool /\ a = lAsked /\ k = lKept /\ s = lListed
  BY <1>a, <1>b, <1>c, <1>d, <1>e, <1>f
<1>3. n = lOffset /\ l = lAsked.limit /\ h = Len(k)
  BY <1>g, <1>h, <1>i
<1>j. PICK m \in Nat : m = l + 1
  OBVIOUS
<1>4. PICK page : page = L!Slice(k, n, m)
  OBVIOUS
<1>5. L!Slice(page, 0, l) = L!Slice(k, n, l)
  <2>1. l <= m
    BY <1>j
  <2> QED
    BY <1>4, <2>1, SliceOfSlice
<1>6. Len(page) > l <=> n + l + 1 <= h
  <2>1. PICK o \in Nat : o = SliceLen(Len(k), n, m) /\ CutOut(page, StoreRows, k, n, o)
    BY <1>4, SliceCuts
  <2>2. Len(page) = o
    BY <2>1 DEF CutOut
  <2>3. o = SliceLen(h, n, l + 1)
    BY <1>3, <1>j, <2>1
  <2> QED
    BY <2>2, <2>3 DEF SliceLen
<1>p. PICK p : p = L!Slice(k, n, l)
  OBVIOUS
<1>7. PICK b : b = s \o p
  OBVIOUS
<1>8. /\ lPc = "answer" \/ (lPc = "scan" /\ ~(h < n + l + 1 /\ lRaw < ScanCap))
      /\ lListed' = b
      /\ lCut' = (lRaw >= ScanCap /\ h < n + l + 1)
      /\ IF n + l + 1 <= h
         THEN lPc' = "scan" /\ lOffset' = n + l /\ lRaw' = 0 /\ lKept' = <<>>
         ELSE lPc' = "done" /\ UNCHANGED <<lOffset, lRaw, lKept>>
      /\ UNCHANGED <<lStore, lTool, lAsked, lAnswer, lFirst, lMoved>>
  <2>1. lListed' = b
    BY <1>2, <1>3, <1>4, <1>5, <1>7, <1>j, <1>p DEF L!Respond
  <2>2. lPc = "answer" \/ (lPc = "scan" /\ ~(h < n + l + 1 /\ lRaw < ScanCap))
    BY <1>2, <1>3 DEF L!Respond, L!Scanned, L!Scanning, L!Needed
  <2>3. lCut' = (lRaw >= ScanCap /\ h < n + l + 1)
    BY <1>2, <1>3 DEF L!Respond, L!Needed
  <2>4. IF n + l + 1 <= h
        THEN lPc' = "scan" /\ lOffset' = n + l /\ lRaw' = 0 /\ lKept' = <<>>
        ELSE lPc' = "done" /\ UNCHANGED <<lOffset, lRaw, lKept>>
    BY <1>2, <1>3, <1>4, <1>6, <1>j DEF L!Respond
  <2> QED
    BY <2>1, <2>2, <2>3, <2>4 DEF L!Respond
<1> DEFINE W == Wanted(t, a, st)
           R == RowLess(t)
<1>9. Orders(R, W) /\ IsFiniteSet(W) /\ W \in SUBSET StoreRows
  BY WantedRows
<1>10. \A x \in W : /\ Place(R, W, x) \in Nat /\ Cardinality(W) \in Nat
                    /\ Place(R, W, x) < Cardinality(W)
  <2> HIDE DEF W, R
  <2> QED
    BY <1>9, PlacesAre
<1>11. ListTypes'
  <2>1. b \in Seq(StoreRows)
    <3>1. PICK c \in Nat : CutOut(p, StoreRows, k, n, c)
      BY <1>p, SliceCuts
    <3> QED
      BY <1>7, <3>1 DEF CutOut
  <2>2. lCut' \in BOOLEAN
    BY <1>8
  <2>3. lPc' \in {"idle", "scan", "answer", "done"}
    BY <1>8
  <2>4. lOffset' \in Nat /\ lRaw' \in Nat
    <3>1. lRaw \in Nat
      BY <1>1 DEF ListTypes
    <3> QED
      BY <1>3, <1>8, <3>1
  <2>5. lKept' \in Seq(StoreRows)
    <3>1. <<>> \in Seq(StoreRows)
      OBVIOUS
    <3> QED
      BY <1>2, <1>8, <3>1
  <2>6. lListed' \in Seq(StoreRows)
    BY <1>8, <2>1
  <2> QED
    BY <1>1, <1>8, <2>2, <2>3, <2>4, <2>5, <2>6 DEF ListTypes
<1>q. lTool # "related_by_name"
  BY DEF L!Respond
<1>12. Narrowed' /\ Named'
  BY <1>8, <1>q DEF ListInv, Narrowed, Named
<1>13. Scanned'
  <2>1. /\ 0 <= Cardinality(Fitting(t, st))
        /\ Lists(<<>>, Admitted(a, FirstOf(RowLess(t), Fitting(t, st), 0)), RowLess(t))
    BY FreshScan
  <2> QED
    BY <1>2, <1>8, <2>1 DEF Scanned, Turning
<1>14. Paged'
  <2> SUFFICES ASSUME Turning PROVE Paged'
    <3>1. lPc' # "idle" /\ (Turning' <=> Turning)
      BY <1>8 DEF Turning
    <3> QED
      BY <1>8, <3>1 DEF Paged
  <2>0. Turning'
    BY <1>8 DEF Turning
  <2>1. /\ fi \subseteq st /\ NoneMissed(t, a, fi, st, s, n)
        /\ lMoved = "still" => fi = st /\ Len(s) = n /\ Initial(s, W, R)
    BY <1>2, <1>3, <1>8 DEF ListInv, Paged
  <2>2. /\ Initial(k, W, R)
        /\ lPc = "answer" => h = Cardinality(W)
    <3>1. CASE lPc = "answer"
      <4>1. Lists(k, W, R)
        BY <1>2, <3>1 DEF ListInv, Scanned
      <4> HIDE DEF W, R
      <4> QED
        BY <1>3, <4>1 DEF Lists, Initial, Place
    <3>2. CASE lPc = "scan"
      <4>1. PICK r \in Nat : r = lRaw
        BY <1>1 DEF ListTypes
      <4>2. Lists(k, Admitted(a, FirstOf(RowLess(t), Fitting(t, st), r)), RowLess(t))
        BY <1>2, <3>2, <4>1 DEF ListInv, Scanned
      <4> QED
        BY <3>2, <4>2, WantedIsFirst
    <3> QED
      BY <1>8, <3>1, <3>2
  <2>3. Wanted(t, a, fi) \subseteq W
    BY <2>1 DEF Wanted, Admitted, Fitting
  <2> HIDE DEF W, R
  <2>4. /\ Range(s) \subseteq Range(b)
        /\ \A x \in W : /\ n <= Place(R, W, x) /\ Place(R, W, x) < n + l
                        /\ Place(R, W, x) < h
                        => x \in Range(b)
    <3>1. Initial(k, W, R) /\ Orders(R, W) /\ IsFiniteSet(W) /\ W \in SUBSET StoreRows
      BY <1>9, <2>2
    <3>2. /\ Range(s) \subseteq Range(b)
          /\ \A x \in W : /\ n <= Place(R, W, x) /\ Place(R, W, x) < n + l
                          /\ Place(R, W, x) < Len(k)
                          => x \in Range(b)
      BY <1>7, <1>p, <3>1, PageHas
    <3> QED
      BY <1>3, <3>2
  <2>5. \A x \in Wanted(t, a, fi) : x \in Range(s) \/ n <= Place(R, W, x)
    BY <2>1 DEF NoneMissed, W, R
  <2>6. lMoved = "still" => Initial(b, W, R) /\ Len(b) = n + SliceLen(h, n, l)
    <3> SUFFICES ASSUME lMoved = "still"
                 PROVE Initial(b, W, R) /\ Len(b) = n + SliceLen(h, n, l)
      OBVIOUS
    <3>1. Initial(s, W, R) /\ Initial(k, W, R) /\ n = Len(s)
      BY <2>1, <2>2
    <3>2. Initial(b, W, R)
      BY <1>7, <1>p, <3>1, PageGoesOn
    <3>3. PICK o \in Nat : o = SliceLen(Len(k), n, l) /\ CutOut(p, StoreRows, k, n, o)
      BY <1>p, SliceCuts
    <3>4. p \in Seq(StoreRows) /\ Len(p) = o
      BY <3>3 DEF CutOut
    <3>5. Joined(b, StoreRows, s, p, n, o)
      BY <1>7, <3>1, <3>4, JoinIs
    <3>6. Len(b) = n + o
      BY <3>5 DEF Joined
    <3> QED
      BY <1>3, <3>2, <3>3, <3>6
  <2>7. CASE n + l + 1 <= h
    <3>1. \A x \in Wanted(t, a, fi) : x \in Range(b) \/ n + l <= Place(R, W, x)
      <4> TAKE x \in Wanted(t, a, fi)
      <4>1. Place(R, W, x) \in Nat /\ x \in W
        BY <1>10, <2>3
      <4> QED
        BY <2>4, <2>5, <2>7, <4>1
    <3>2. NoneMissed(t, a, fi, st, b, n + l)
      BY <3>1 DEF NoneMissed, W, R
    <3>3. SliceLen(h, n, l) = l
      BY <2>7 DEF SliceLen
    <3>4. lPc' = "scan" /\ lOffset' = n + l
      BY <1>8, <2>7
    <3> QED
      BY <1>2, <1>8, <2>1, <2>6, <3>2, <3>3, <3>4 DEF Paged, W, R
  <2>8. CASE ~(n + l + 1 <= h)
    <3>1. lPc' = "done"
      BY <1>8, <2>8
    <3>2. lPc = "scan" => lCut'
      <4> SUFFICES ASSUME lPc = "scan" PROVE lCut'
        OBVIOUS
      <4>1. lRaw \in Nat /\ ScanCap \in Nat
        BY <1>1, RowAssumption DEF ListTypes
      <4>2. lRaw >= ScanCap /\ h < n + l + 1
        BY <1>8, <2>8, <4>1
      <4>3. lCut' = (lRaw >= ScanCap /\ h < n + l + 1)
        BY <1>8
      <4> QED
        BY <4>2, <4>3
    <3>3. lPc = "answer" => Wanted(t, a, fi) \subseteq Range(b)
      <4> SUFFICES ASSUME lPc = "answer", NEW x \in Wanted(t, a, fi) PROVE x \in Range(b)
        OBVIOUS
      <4>1. /\ x \in W /\ Place(R, W, x) \in Nat /\ Place(R, W, x) < h /\ h <= n + l
        BY <1>10, <2>2, <2>3, <2>8
      <4> QED
        BY <2>4, <2>5, <4>1
    <3>4. lCut' \/ Wanted(t, a, fi) \subseteq Range(b)
      BY <1>8, <3>2, <3>3
    <3> QED
      BY <1>2, <1>8, <2>1, <2>6, <3>1, <3>4 DEF Paged, W, R
  <2> QED
    BY <2>7, <2>8
<1> QED
  BY <1>11, <1>12, <1>13, <1>14 DEF ListInv

\* What comes first in a store keeps its place, or moves on, when rows are added.
LEMMA PlaceMovesOn ==
  ASSUME NEW t, NEW W \in SUBSET StoreRows, NEW M \in SUBSET StoreRows, W \subseteq M, NEW y
  PROVE /\ Place(RowLess(t), W, y) <= Place(RowLess(t), M, y)
        /\ Place(RowLess(t), W, y) \in Nat /\ Place(RowLess(t), M, y) \in Nat
<1>1. IsFiniteSet(M)
  BY RowsAreOrdered
<1>2. /\ Below(RowLess(t), W, y) \subseteq Below(RowLess(t), M, y)
      /\ Below(RowLess(t), M, y) \subseteq M
  BY DEF Below
<1>3. IsFiniteSet(Below(RowLess(t), M, y))
  BY <1>1, <1>2, FS_Subset
<1> QED
  BY <1>2, <1>3, FS_Subset, FS_CardinalityType DEF Place

\* A row is added under the walk,
LEMMA ListGrows ==
  ASSUME ListInv, L!AddRow
  PROVE ListInv'
<1>1. ListTypes
  BY DEF ListInv
<1>2. PICK x \in StoreRows \ lStore : lStore' = lStore \cup {x}
  BY DEF L!AddRow
<1>3. /\ lPc = "scan"
      /\ UNCHANGED <<lTool, lAsked, lPc, lOffset, lRaw, lKept, lListed, lCut, lAnswer, lFirst>>
      /\ lMoved' \in {"grown", "spread", "torn"}
      /\ lMoved' # "torn" => lMoved # "torn"
      /\ lMoved' = "grown" => lMoved \notin {"spread", "torn"} /\ lRaw = 0
  BY DEF L!AddRow, L!Between
<1>4. ListTypes'
  BY <1>1, <1>2, <1>3 DEF ListTypes
<1>5. Named'
  BY <1>3 DEF ListInv, Named
<1>a. PICK now \in SUBSET StoreRows : now = lStore'
  BY <1>4 DEF ListTypes
<1>b. PICK st \in SUBSET StoreRows : st = lStore
  BY <1>1 DEF ListTypes
<1>c. PICK fi \in SUBSET StoreRows : fi = lFirst
  BY <1>1 DEF ListTypes
<1>d. PICK n \in Nat : n = lOffset
  BY <1>1 DEF ListTypes
<1>e. PICK t, a, s : t = lTool /\ a = lAsked /\ s = lListed
  OBVIOUS
<1>6. /\ now = lStore' /\ st = lStore /\ fi = lFirst /\ t = lTool /\ a = lAsked
      /\ s = lListed /\ n = lOffset
  BY <1>a, <1>b, <1>c, <1>d, <1>e
<1>7. st \subseteq now
  BY <1>2, <1>6
<1>w. Turning' => Turning /\ lMoved' = "grown" /\ lRaw = 0
  BY <1>1, <1>3 DEF Turning, ListTypes
<1>8. Scanned'
  <2> SUFFICES ASSUME Turning' PROVE Scanned'
    BY DEF Scanned
  <2>1. lPc = "scan" /\ lRaw = 0 /\ Turning
    BY <1>3, <1>w
  <2>2. Lists(lKept, Admitted(a, FirstOf(RowLess(t), Fitting(t, st), 0)), RowLess(t))
    BY <1>6, <2>1 DEF ListInv, Scanned
  <2>3. \A S0 \in SUBSET StoreRows :
          Admitted(a, FirstOf(RowLess(t), Fitting(t, S0), 0)) = {}
    <3> TAKE S0 \in SUBSET StoreRows
    <3>1. \A y \in Fitting(t, S0) : Place(RowLess(t), Fitting(t, S0), y) \in Nat
      BY WantedRows, PlacesAre
    <3> QED
      BY <3>1 DEF Admitted, FirstOf
  <2>4. Lists(lKept, Admitted(a, FirstOf(RowLess(t), Fitting(t, now), 0)), RowLess(t))
    BY <2>2, <2>3
  <2>5. 0 <= Cardinality(Fitting(t, now))
    BY WantedRows
  <2> QED
    BY <1>3, <1>6, <2>1, <2>4, <2>5 DEF Scanned
<1>9. Paged'
  <2> SUFFICES ASSUME Turning' PROVE Paged'
    BY <1>3 DEF Paged
  <2>1. lPc = "scan" /\ Turning /\ lMoved' = "grown"
    BY <1>3, <1>w
  <2>2. fi \subseteq st /\ NoneMissed(t, a, fi, st, s, n)
    BY <1>6, <2>1 DEF ListInv, Paged
  <2>3. ASSUME NEW y \in Wanted(t, a, fi)
        PROVE y \in Range(s) \/ n <= Place(RowLess(t), Wanted(t, a, now), y)
    <3> SUFFICES ASSUME n <= Place(RowLess(t), Wanted(t, a, st), y)
                 PROVE n <= Place(RowLess(t), Wanted(t, a, now), y)
      BY <2>2 DEF NoneMissed
    <3>1. Wanted(t, a, st) \subseteq Wanted(t, a, now)
      BY <1>7 DEF Wanted, Admitted, Fitting
    <3>2. /\ Wanted(t, a, st) \in SUBSET StoreRows
          /\ Wanted(t, a, now) \in SUBSET StoreRows
      BY WantedRows
    <3>3. /\ Place(RowLess(t), Wanted(t, a, st), y) <= Place(RowLess(t), Wanted(t, a, now), y)
          /\ Place(RowLess(t), Wanted(t, a, st), y) \in Nat
          /\ Place(RowLess(t), Wanted(t, a, now), y) \in Nat
      BY <3>1, <3>2, PlaceMovesOn
    <3> QED
      BY <3>3
  <2>4. NoneMissed(t, a, fi, now, s, n)
    BY <2>3 DEF NoneMissed
  <2> QED
    BY <1>3, <1>6, <1>7, <2>1, <2>2, <2>4 DEF Paged
<1>10. Narrowed'
  <2> SUFFICES ASSUME t = "related_by_name" PROVE Narrowed'
    BY <1>3, <1>6 DEF Narrowed
  <2>1. /\ a.filters /\ a.tests /\ a.limit = NameScan + 1 /\ lOffset = 0
        /\ lRaw = 0 => lKept = <<>>
        /\ lRaw # 0 /\ lMoved # "torn" => Gathered(t, a, fi, st, lKept, lRaw)
    BY <1>3, <1>6 DEF ListInv, Narrowed
  <2> SUFFICES ASSUME lRaw # 0, lMoved # "torn"
               PROVE Gathered(t, a, fi, now, lKept, lRaw)
    BY <1>3, <1>6, <2>1 DEF Narrowed
  <2>2. Gathered(t, a, fi, st, lKept, lRaw)
    BY <2>1
  <2>3. Wanted(t, a, st) \subseteq Wanted(t, a, now) /\ Fitting(t, st) \subseteq Fitting(t, now)
    BY <1>7 DEF Wanted, Admitted, Fitting
  <2>4. Fitting(t, st) \in SUBSET StoreRows /\ Fitting(t, now) \in SUBSET StoreRows
    BY WantedRows
  <2>5. PICK r \in Nat : r = lRaw
    BY <1>1 DEF ListTypes
  <2>6. \A y : r <= Place(RowLess(t), Fitting(t, st), y)
               => r <= Place(RowLess(t), Fitting(t, now), y)
    <3> TAKE y
    <3>1. /\ Place(RowLess(t), Fitting(t, st), y) <= Place(RowLess(t), Fitting(t, now), y)
          /\ Place(RowLess(t), Fitting(t, st), y) \in Nat
          /\ Place(RowLess(t), Fitting(t, now), y) \in Nat
      BY <2>3, <2>4, PlaceMovesOn
    <3> QED
      BY <3>1
  <2> QED
    BY <1>7, <2>2, <2>3, <2>5, <2>6 DEF Gathered
<1> QED
  BY <1>4, <1>5, <1>8, <1>9, <1>10 DEF ListInv

\* or one is removed.
LEMMA ListTears ==
  ASSUME ListInv, L!RemoveRow
  PROVE ListInv'
<1>1. /\ lPc = "scan" /\ lMoved' = "torn"
      /\ UNCHANGED <<lTool, lAsked, lPc, lOffset, lRaw, lKept, lListed, lCut, lAnswer, lFirst>>
      /\ lStore' \in SUBSET lStore
  BY DEF L!RemoveRow
<1>2. ListTypes'
  BY <1>1 DEF ListInv, ListTypes
<1>3. Scanned' /\ Paged' /\ Narrowed' /\ Named'
  BY <1>1 DEF ListInv, Scanned, Paged, Narrowed, Named, Turning
<1> QED
  BY <1>2, <1>3 DEF ListInv

\* A pick from the rows of a store that fit has no rival there.
LEMMA PickIsAlone ==
  ASSUME NEW t, t # "list", NEW S0 \in SUBSET StoreRows,
         NEW q, Lists(q, Fitting(t, S0), RowLess(t)),
         NEW p, p = L!PickByName(L!Slice(q, 0, NameScan + 1)), p.row # Nobody
  PROVE p.row \in Fitting(t, S0) /\ Alone(t, S0, p.row)
<1>1. Fitting(t, S0) \in SUBSET StoreRows
  BY DEF Fitting
<1>2. NameScan + 1 \in Nat /\ 2 <= NameScan + 1
  BY RowAssumption
<1>3. /\ p.row \in Fitting(t, S0)
      /\ {y \in Fitting(t, S0) : L!Rank(y) <= L!Rank(p.row)} \subseteq {p.row}
  <2> DEFINE W == Fitting(t, S0)
             n == NameScan + 1
  <2>1. W \in SUBSET StoreRows /\ n \in Nat /\ 2 <= n /\ p = L!PickByName(L!Slice(q, 0, n))
        /\ Lists(q, W, RowLess(t))
    BY <1>1, <1>2
  <2> HIDE DEF W, n
  <2>2. p.row \in W /\ {y \in W : L!Rank(y) <= L!Rank(p.row)} \subseteq {p.row}
    BY <2>1, PickIsTheOne
  <2> QED
    BY <2>2 DEF W
<1> QED
  BY <1>3 DEF Alone

\* A name is looked up.
LEMMA NameResolves ==
  ASSUME ListInv, L!ResolveName
  PROVE ListInv'
<1>1. ListTypes
  BY DEF ListInv
<1>2. PICK st \in SUBSET StoreRows : st = lStore
  BY <1>1 DEF ListTypes
<1>3. PICK q : q = L!Query(lStore) /\ Lists(q, Fitting(lTool, st), RowLess(lTool))
  BY <1>2, QueryLists
<1>4. PICK p : p = L!PickByName(L!Slice(q, 0, NameScan + 1))
  OBVIOUS
<1>5. /\ lPc = "idle" /\ lTool = "related_by_name"
      /\ lAsked' \in [limit : Nat, filters : BOOLEAN, tests : BOOLEAN]
      /\ lAsked'.tests /\ lAsked'.limit = NameScan + 1
      /\ lAnswer' = p /\ lRaw' = 0 /\ lKept' = <<>>
      /\ lPc' \in {"scan", "done"}
      /\ lPc' = "scan" => p.row = Nobody /\ lAsked'.filters
      /\ lFirst' = lStore
      /\ UNCHANGED <<lMoved, lStore, lTool, lOffset, lListed, lCut>>
  <2>1. /\ lAsked' \in [limit : Nat, filters : BOOLEAN, tests : BOOLEAN]
        /\ lAsked'.tests /\ lAsked'.limit = NameScan + 1
    <3>1. PICK f \in BOOLEAN :
            lAsked' = [L!Idle EXCEPT !.filters = f, !.limit = NameScan + 1]
      BY DEF L!ResolveName
    <3>2. lAsked' = [limit |-> NameScan + 1, filters |-> f, tests |-> TRUE]
      BY <3>1 DEF L!Idle
    <3> QED
      BY <3>2, RowAssumption
  <2>2. /\ lPc = "idle" /\ lTool = "related_by_name" /\ lFirst' = lStore
        /\ lRaw' = 0 /\ lKept' = <<>>
        /\ UNCHANGED <<lMoved, lStore, lTool, lOffset, lListed, lCut>>
    BY DEF L!ResolveName
  <2>3. /\ lAnswer' = p
        /\ lPc' = IF p.row = Nobody /\ p.among # {} /\ lAsked'.filters
                  THEN "scan" ELSE "done"
    BY <1>3, <1>4 DEF L!ResolveName
  <2> QED
    BY <2>1, <2>2, <2>3
<1>6. ListTypes'
  <2>1. <<>> \in Seq(StoreRows)
    OBVIOUS
  <2> QED
    BY <1>1, <1>5, <2>1 DEF ListTypes
<1>7. lOffset = 0
  BY <1>5 DEF ListInv, Paged
<1>8. Scanned' /\ Paged' /\ Narrowed'
  BY <1>5, <1>7 DEF Scanned, Paged, Narrowed, Turning
<1>9. ASSUME p.row # Nobody
      PROVE p.row \in Fitting(lTool, st) /\ Alone(lTool, st, p.row)
  <2>1. lTool # "list"
    BY <1>5
  <2> QED
    BY <1>3, <1>4, <1>9, <2>1, PickIsAlone
<1>10. Named'
  BY <1>2, <1>5, <1>9 DEF Named, OnlyOne
<1> QED
  BY <1>6, <1>8, <1>10 DEF ListInv

\* The page asked for is full, or what was wanted is all kept.
Enough(t, a, was, k, m) ==
  m <= Len(k) \/ \A x \in Wanted(t, a, was) : \E j \in 1..Len(k) : k[j] = x

\* The row picked of those a narrowing scan kept has no rival the caller admits.
LEMMA NarrowedIsAlone ==
  ASSUME NEW t, t # "list", NEW a, a.filters, a.tests,
         NEW was \in SUBSET StoreRows, NEW now \in SUBSET StoreRows,
         NEW k \in Seq(StoreRows), NEW n, Gathered(t, a, was, now, k, n),
         NEW m \in Nat, m >= 2,
         Enough(t, a, was, k, m),
         NEW p, p = L!PickByName(L!Slice(k, 0, m)), p.row # Nobody
  PROVE /\ p.row \in Fitting(t, now) /\ p.row.scope
        /\ Alone(t, InScope(was), p.row)
<1>1. PICK u : u = L!Slice(k, 0, m)
  OBVIOUS
<1>2. PICK h \in Nat : h = Len(k)
  OBVIOUS
<1>3. PICK l \in Nat : l = SliceLen(h, 0, m) /\ CutOut(u, StoreRows, k, 0, l)
  BY <1>1, <1>2, SliceCuts
<1>4. u \in Seq(StoreRows) /\ Len(u) = l /\ \A i \in 1..l : u[i] = k[i] /\ i \in 1..h
  BY <1>2, <1>3 DEF CutOut
<1>5. PICK c \in 1..l :
        p.row = u[c] /\ \A i \in 1..l : L!Rank(u[i]) <= L!Rank(u[c]) => i = c
  BY <1>1, <1>4, PickIs
<1>6. p.row = k[c] /\ \A i \in 1..l : L!Rank(k[i]) <= L!Rank(k[c]) => i = c
  BY <1>4, <1>5
<1>7. /\ \A i \in 1..h : k[i] \in Wanted(t, a, now)
      /\ \A i \in 1..h : \A x \in Wanted(t, a, was) :
           <<x, k[i]>> \in RowLess(t) => \E j \in 1..i : k[j] = x
      /\ was \subseteq now
  BY <1>2 DEF Gathered
<1>8. k[c] \in Wanted(t, a, now)
  BY <1>4, <1>7
<1>9. p.row \in Fitting(t, now) /\ p.row.scope
  BY <1>6, <1>8 DEF Wanted, Admitted
<1>10. ASSUME NEW x \in Fitting(t, InScope(was)), L!Rank(x) <= L!Rank(p.row)
       PROVE x = p.row
  <2>1. x \in Wanted(t, a, was) /\ x \in StoreRows
    BY DEF Wanted, Admitted, Fitting, InScope
  <2>2. ASSUME NEW j \in 1..l, k[j] = x PROVE x = p.row
    BY <1>6, <1>10, <2>2
  <2> SUFFICES ASSUME \A j \in 1..l : k[j] # x PROVE FALSE
    BY <2>2
  <2>3. CASE m <= h
    <3>1. l = m
      BY <1>3, <2>3 DEF SliceLen
    <3>2. 1 \in 1..l /\ 2 \in 1..l /\ (1 # c \/ 2 # c)
      BY <3>1
    <3>3. PICK i \in 1..l : i # c
      BY <3>2
    <3>4. ~(L!Rank(k[i]) <= L!Rank(k[c]))
      BY <1>6, <3>3
    <3>5. L!Rank(x) < L!Rank(k[i])
      BY <1>6, <1>10, <3>4, RanksAre
    <3>6. <<x, k[i]>> \in RowLess(t)
      <4>1. k[i] \in StoreRows
        BY <1>4, <3>3
      <4> QED
        BY <2>1, <3>5, <4>1 DEF RowLess, L!NameBefore
    <3>7. PICK j \in 1..i : k[j] = x
      BY <1>4, <1>7, <2>1, <3>6
    <3>8. j \in 1..l
      OBVIOUS
    <3> QED
      BY <3>7, <3>8
  <2>4. CASE ~(m <= h)
    <3>1. l = h
      BY <1>3, <2>4 DEF SliceLen
    <3> QED
      BY <1>2, <2>1, <2>4, <3>1 DEF Enough
  <2> QED
    BY <2>3, <2>4
<1> QED
  BY <1>9, <1>10 DEF Alone

\* It is narrowed by the caller's filters.
LEMMA NameNarrows ==
  ASSUME ListInv, L!NarrowName
  PROVE ListInv'
<1>1. ListTypes
  BY DEF ListInv
<1>2. PICK st \in SUBSET StoreRows, was \in SUBSET StoreRows : st = lStore /\ was = lFirst
  BY <1>1 DEF ListTypes
<1>3. PICK k \in Seq(StoreRows), r \in Nat : k = lKept /\ r = lRaw
  BY <1>1 DEF ListTypes
<1>4. PICK t, a : t = lTool /\ a = lAsked
  OBVIOUS
<1>5. lPc \in {"scan", "answer"} /\ t = "related_by_name"
  BY <1>4 DEF L!NarrowName, L!Scanned
<1>6. /\ a.filters /\ a.tests /\ a.limit = NameScan + 1 /\ lOffset = 0
      /\ lPc = "scan" /\ r = 0 => k = <<>>
      /\ lPc = "scan" /\ r # 0 /\ lMoved # "torn" => Gathered(t, a, was, st, k, r)
      /\ lPc = "answer" /\ lMoved # "torn" =>
           /\ Gathered(t, a, was, st, k, 0)
           /\ \A x \in Wanted(t, a, was) : \E j \in 1..Len(k) : k[j] = x
      /\ lAnswer.row = Nobody
  BY <1>2, <1>3, <1>4, <1>5 DEF ListInv, Narrowed, Named
<1>7. PICK m \in Nat : m = NameScan + 2 /\ m >= 2
  BY RowAssumption
<1>8. L!Needed = m
  BY <1>4, <1>6, <1>7, RowAssumption DEF L!Needed
<1>9. PICK p : p = L!PickByName(L!Slice(k, 0, m))
  OBVIOUS
<1>10. /\ lPc = "answer" \/ (lPc = "scan" /\ ~(Len(k) < m /\ r < ScanCap))
       /\ lPc' = "done"
       /\ lAnswer' = IF L!Slice(k, 0, m) = <<>> THEN lAnswer ELSE p
       /\ UNCHANGED <<lStore, lTool, lAsked, lOffset, lRaw, lKept, lListed, lCut, lFirst, lMoved>>
  BY <1>3, <1>8, <1>9 DEF L!NarrowName, L!Scanned, L!Scanning
<1>11. ListTypes'
  BY <1>1, <1>10 DEF ListTypes
<1>12. Scanned' /\ Paged' /\ Narrowed'
  BY <1>4, <1>5, <1>10 DEF Scanned, Paged, Narrowed, Turning
<1>13. ASSUME lAnswer'.row # Nobody, lMoved # "torn", Cardinality(Fitting(t, st)) <= ScanCap
       PROVE /\ lAnswer'.row \in Fitting(t, st) /\ lAnswer'.row.scope
             /\ Alone(t, InScope(was), lAnswer'.row)
  <2>1. lAnswer' = p /\ p.row # Nobody /\ L!Slice(k, 0, m) # <<>>
    BY <1>6, <1>10, <1>13
  <2>2. CASE lPc = "answer"
    <3>1. Gathered(t, a, was, st, k, 0) /\ Enough(t, a, was, k, m)
      BY <1>6, <1>13, <2>2 DEF Enough
    <3>2. /\ p.row \in Fitting(t, st) /\ p.row.scope
          /\ Alone(t, InScope(was), p.row)
      <4>1. /\ t # "list" /\ a.filters /\ a.tests /\ m \in Nat /\ m >= 2
            /\ p = L!PickByName(L!Slice(k, 0, m)) /\ p.row # Nobody
        BY <1>5, <1>6, <1>7, <1>9, <2>1
      <4> QED
        BY <3>1, <4>1, NarrowedIsAlone
    <3> QED
      BY <2>1, <3>2
  <2>3. CASE lPc = "scan"
    <3>1. r # 0
      <4> SUFFICES ASSUME r = 0 PROVE FALSE
        OBVIOUS
      <4>1. k = <<>>
        BY <1>6, <2>3
      <4>2. \E l \in Nat : l = SliceLen(Len(k), 0, m) /\ CutOut(L!Slice(k, 0, m), StoreRows, k, 0, l)
        BY SliceCuts
      <4>3. SliceLen(Len(k), 0, m) = 0
        BY <1>7, <4>1 DEF SliceLen
      <4>4. L!Slice(k, 0, m) \in Seq(StoreRows) /\ Len(L!Slice(k, 0, m)) = 0
        BY <4>2, <4>3 DEF CutOut
      <4> QED
        BY <2>1, <4>4
    <3>2. Gathered(t, a, was, st, k, r)
      BY <1>6, <1>13, <2>3, <3>1
    <3>3. Enough(t, a, was, k, m)
      <4> SUFFICES ASSUME ~(m <= Len(k)) PROVE \A x \in Wanted(t, a, was) :
                                                  \E j \in 1..Len(k) : k[j] = x
        BY DEF Enough
      <4>1. r >= ScanCap /\ ScanCap \in Nat
        <5>1. ScanCap \in Nat /\ Len(k) \in Nat
          BY RowAssumption
        <5> QED
          BY <1>10, <2>3, <5>1
      <4>2. \A x \in Fitting(t, st) :
              /\ Place(RowLess(t), Fitting(t, st), x) \in Nat
              /\ Cardinality(Fitting(t, st)) \in Nat
              /\ Place(RowLess(t), Fitting(t, st), x) < Cardinality(Fitting(t, st))
        BY WantedRows, PlacesAre
      <4>3. \A x \in Wanted(t, a, was) : x \in Fitting(t, st)
        BY <3>2 DEF Gathered, Wanted, Admitted, Fitting
      <4>4. \A x \in Wanted(t, a, was) : ~(r <= Place(RowLess(t), Fitting(t, st), x))
        BY <1>13, <4>1, <4>2, <4>3
      <4> QED
        BY <3>2, <4>4 DEF Gathered
    <3> QED
      <4>1. /\ p.row \in Fitting(t, st) /\ p.row.scope
            /\ Alone(t, InScope(was), p.row)
        <5>1. /\ t # "list" /\ a.filters /\ a.tests /\ m \in Nat /\ m >= 2
              /\ p = L!PickByName(L!Slice(k, 0, m)) /\ p.row # Nobody
          BY <1>5, <1>6, <1>7, <1>9, <2>1
        <5> QED
          BY <3>2, <3>3, <5>1, NarrowedIsAlone
      <4> QED
        BY <2>1, <4>1
  <2> QED
    BY <1>5, <2>2, <2>3
<1>14. Named'
  BY <1>2, <1>4, <1>5, <1>6, <1>10, <1>13 DEF Named, OnlyOne
<1> QED
  BY <1>11, <1>12, <1>14 DEF ListInv

\* Every step keeps it,
LEMMA ListSteps ==
  ASSUME ListInv, L!Next
  PROVE ListInv'
BY ListBegins, ListFetches, ListResponds, NameResolves, NameNarrows, ListGrows, ListTears
   DEF L!Next

\* and so does another tool's.
LEMMA ListWaits ==
  ASSUME ListInv, UNCHANGED listing
  PROVE ListInv'
<1>1. UNCHANGED <<lStore, lTool, lAsked, lPc, lOffset, lRaw, lKept, lListed, lCut,
                  lAnswer, lFirst, lMoved>>
  BY DEF listing
<1>2. ListTypes' /\ Scanned'
  BY <1>1 DEF ListInv, ListTypes, Scanned, Turning
<1>3. Paged'
  BY <1>1 DEF ListInv, Paged, Turning
<1>4. Narrowed' /\ Named'
  BY <1>1 DEF ListInv, Narrowed, Named
<1> QED
  BY <1>2, <1>3, <1>4 DEF ListInv

\* Listing, for any rows, whatever the page size, the batch and the ceiling: a walk
\* along next_offset misses no row that was there throughout, unless a row went or
\* came within a page, or its last page says the scan was cut; and a name resolves
\* to the one row that nothing else fits as well as, though rows come between the
\* batches of a narrowing scan, unless one goes or the scan may meet its ceiling.
THEOREM ReadListing == ReadSpec => []ListingIsWhole
<1> DEFINE Inv == tool = "list" => ListInv
<1>1. ReadInit => Inv
  BY ListStarts DEF ReadInit
<1>2. Inv /\ [ReadNext]_<<tool, vars, others>> => Inv'
  <2> SUFFICES ASSUME Inv, [ReadNext]_<<tool, vars, others>>, tool' = "list"
               PROVE ListInv'
    OBVIOUS
  <2>1. tool' = tool
    BY DEF ReadNext, FreshnessStep, SearchStep, ListStep, FindStep
  <2>2. ListInv
    BY <2>1
  <2>3. CASE ListStep
    BY <2>2, <2>3, ListSteps DEF ListStep
  <2>4. CASE UNCHANGED <<tool, vars, others>>
    <3>1. UNCHANGED listing
      BY <2>4 DEF others
    <3> QED
      BY <2>2, <3>1, ListWaits
  <2> QED
    BY <2>1, <2>3, <2>4 DEF ReadNext, FreshnessStep, SearchStep, FindStep
<1>3. Inv => ListingIsWhole
  BY WalkIsWhole, OneIsTheOne DEF ListingIsWhole
<1> QED
  BY <1>1, <1>2, <1>3, PTL DEF ReadSpec

-----------------------------------------------------------------------------
(* Search: the best of a set of rows.                                      *)

\* What the search reads of a row.
Scored(group) == IsFiniteSet(group) /\ \A r \in group : r.score \in 0..10

\* The module counts alike.
LEMMA SearchCardinality == \A S0 : Q!Cardinality(S0) = Cardinality(S0)
BY DEF Q!Cardinality, Cardinality

\* An entity's best row is one of its rows that none of them outranks.
LEMMA BestIs ==
  ASSUME NEW group, Scored(group), NEW e \in Q!Owners(group)
  PROVE /\ Q!BestOf(group, e) \in 0..10
        /\ \E r \in group : r.owner = e /\ r.score = Q!BestOf(group, e)
        /\ \A r \in group : r.owner = e => r.score <= Q!BestOf(group, e)
<1> DEFINE of == {r.score : r \in {q \in group : q.owner = e}}
           below == {10 - s : s \in of}
<1>1. of \subseteq 0..10 /\ of # {}
  BY DEF Scored, Q!Owners
<1>2. below \subseteq Nat /\ below # {}
  BY <1>1
<1>3. PICK b \in below : \A c \in below : b <= c
  BY <1>2, LeastNumber
<1>4. PICK s \in of : b = 10 - s
  BY <1>3
<1>5. \A t \in of : 10 - t \in below
  OBVIOUS
<1>6. \A t \in of : t <= s
  <2> SUFFICES ASSUME NEW t \in of PROVE t <= s
    OBVIOUS
  <2>1. b <= 10 - t
    BY <1>3, <1>5
  <2> QED
    BY <1>1, <1>4, <2>1
<1>7. Q!BestOf(group, e) = CHOOSE x \in of : \A t \in of : t <= x
  BY DEF Q!BestOf
<1> HIDE DEF below, of
<1>8. Q!BestOf(group, e) \in of /\ \A t \in of : t <= Q!BestOf(group, e)
  BY <1>6, <1>7
<1> QED
  BY <1>1, <1>8 DEF of

\* The owners of a finite set of rows are finitely many.
LEMMA OwnersAre ==
  ASSUME NEW group, IsFiniteSet(group)
  PROVE /\ IsFiniteSet(Q!Owners(group)) /\ Cardinality(Q!Owners(group)) \in Nat
        /\ DOMAIN Q!Scores(group) = Q!Owners(group)
        /\ \A e \in Q!Owners(group) : Q!Scores(group)[e] = Q!BestOf(group, e)
<1>1. IsFiniteSet({r.owner : r \in group})
  <2> DEFINE f == [r \in group |-> r.owner]
             es == {r.owner : r \in group}
  <2>1. f \in Surjection(group, es)
    BY DEF Surjection
  <2> QED
    BY <2>1, FS_Surjection
<1> QED
  BY <1>1, FS_CardinalityType DEF Q!Owners, Q!Scores

\* The n that score highest: all, or n that nothing left out outranks.
LEMMA TopsAre ==
  ASSUME NEW score, IsFiniteSet(DOMAIN score), NEW n \in Nat, NEW top \in Q!Tops(score, n)
  PROVE /\ top \subseteq DOMAIN score /\ IsFiniteSet(top)
        /\ Cardinality(top) \in Nat /\ Cardinality(top) <= n
        /\ Cardinality(DOMAIN score) < n => top = DOMAIN score
        /\ Cardinality(top) < n => top = DOMAIN score
        /\ \A x \in top, y \in DOMAIN score \ top : score[y] <= score[x]
<1>1. /\ top \in SUBSET (DOMAIN score)
      /\ Cardinality(top) = IF Cardinality(DOMAIN score) < n THEN Cardinality(DOMAIN score) ELSE n
      /\ \A x \in top, y \in DOMAIN score \ top : score[y] <= score[x]
  BY SearchCardinality DEF Q!Tops
<1>2. Cardinality(DOMAIN score) \in Nat
  BY FS_CardinalityType
<1>3. IsFiniteSet(top) /\ (Cardinality(DOMAIN score) = Cardinality(top) => DOMAIN score = top)
  BY <1>1, FS_Subset
<1> QED
  BY <1>1, <1>2, <1>3

\* A window is the best of an index.
LEMMA WindowIs ==
  ASSUME NEW group, Scored(group), NEW n \in Nat, NEW window \in Q!Windows(group, n)
  PROVE /\ window \subseteq group /\ Scored(window)
        /\ Cardinality(group) < n => window = group
        /\ \A r \in window, s \in group \ window : s.score <= r.score
<1> DEFINE score == [r \in group |-> r.score]
<1>1. window \in Q!Tops(score, n) /\ DOMAIN score = group /\ IsFiniteSet(group)
  BY DEF Q!Windows, Scored
<1>2. /\ window \subseteq group /\ IsFiniteSet(window)
      /\ Cardinality(group) < n => window = group
      /\ \A x \in window, y \in group \ window : score[y] <= score[x]
  BY <1>1, TopsAre
<1> QED
  BY <1>2 DEF Scored

\* What is taken are all rows, or those of n entities; each has a row taken that no
\* row left out outranks.
LEMMA TakenAre ==
  ASSUME NEW group, Scored(group), NEW n \in Nat, NEW taken \in Q!Take(group, n)
  PROVE /\ taken \subseteq group /\ Scored(taken)
        /\ IsFiniteSet(Q!Owners(taken)) /\ Cardinality(Q!Owners(taken)) \in Nat
        /\ Cardinality(Q!Owners(taken)) <= n
        /\ Cardinality(Q!Owners(taken)) < n => taken = group
        /\ \A s \in group \ taken : \A e \in Q!Owners(taken) :
             \E r \in taken : r.owner = e /\ s.score <= r.score
<1>1. PICK first \in Q!Tops(Q!Scores(group), n) : taken = {r \in group : r.owner \in first}
  BY DEF Q!Take
<1>2. IsFiniteSet(group) /\ \A r \in group : r.score \in 0..10
  BY DEF Scored
<1>3. /\ DOMAIN Q!Scores(group) = Q!Owners(group) /\ IsFiniteSet(Q!Owners(group))
      /\ \A e \in Q!Owners(group) : Q!Scores(group)[e] = Q!BestOf(group, e)
  BY <1>2, OwnersAre
<1>4. /\ first \subseteq Q!Owners(group) /\ IsFiniteSet(first)
      /\ Cardinality(first) \in Nat /\ Cardinality(first) <= n
      /\ Cardinality(first) < n => first = Q!Owners(group)
      /\ \A x \in first, y \in Q!Owners(group) \ first : Q!Scores(group)[y] <= Q!Scores(group)[x]
  BY <1>3, TopsAre
<1>5. Q!Owners(taken) = first
  BY <1>1, <1>4 DEF Q!Owners
<1>6. taken \subseteq group /\ Scored(taken)
  BY <1>1, <1>2, FS_Subset DEF Scored
<1>7. Cardinality(first) < n => taken = group
  BY <1>1, <1>4 DEF Q!Owners
<1>8. ASSUME NEW s \in group \ taken, NEW e \in first
      PROVE \E r \in taken : r.owner = e /\ s.score <= r.score
  <2>1. s.owner \in Q!Owners(group) \ first /\ e \in Q!Owners(group)
    BY <1>1, <1>4, <1>8 DEF Q!Owners
  <2>2. Q!BestOf(group, s.owner) <= Q!BestOf(group, e)
    BY <1>3, <1>4, <1>8, <2>1
  <2>3. PICK r \in group : r.owner = e /\ r.score = Q!BestOf(group, e)
    BY <2>1, BestIs
  <2>4. s.score <= Q!BestOf(group, s.owner) /\ Q!BestOf(group, s.owner) \in 0..10
    BY <1>8, <2>1, BestIs
  <2>5. r \in taken
    BY <1>1, <1>8, <2>3
  <2>6. r.score \in 0..10 /\ s.score \in 0..10
    BY <1>2, <1>8, <2>3
  <2> QED
    BY <2>2, <2>3, <2>4, <2>5, <2>6
<1> QED
  BY <1>4, <1>5, <1>6, <1>7, <1>8

-----------------------------------------------------------------------------
(* Search: rows that cover others.                                         *)

\* n entities have a row that scores s or more.
Crowd(group, n, s) ==
  \E F \in SUBSET Q!Owners(group) :
    /\ IsFiniteSet(F) /\ Cardinality(F) = n
    /\ \A f \in F : \E r \in group : r.owner = f /\ s <= r.score

\* A row is there, or n entities that it does not outrank.
Covers(group, n, r) == r \in group \/ Crowd(group, n, r.score)

\* More rows cover more,
LEMMA MoreCover ==
  ASSUME NEW group, NEW more, group \subseteq more, NEW n, NEW r, Covers(group, n, r)
  PROVE Covers(more, n, r)
BY DEF Covers, Crowd, Q!Owners

\* and a crowd is not thinned by a lower score.
LEMMA AboveCovers ==
  ASSUME NEW group, Scored(group), NEW n, NEW r, Covers(group, n, r),
         r.score \in 0..10, NEW low \in Int, low <= r.score
  PROVE Covers({q \in group : q.score >= low}, n, r)
<1> DEFINE above == {q \in group : q.score >= low}
<1>1. CASE r \in group
  BY <1>1 DEF Covers
<1>2. CASE Crowd(group, n, r.score)
  <2>1. PICK F \in SUBSET Q!Owners(group) :
          /\ IsFiniteSet(F) /\ Cardinality(F) = n
          /\ \A f \in F : \E q \in group : q.owner = f /\ r.score <= q.score
    BY <1>2 DEF Crowd
  <2>2. ASSUME NEW f \in F
        PROVE \E q \in above : q.owner = f /\ r.score <= q.score
    <3>1. PICK q \in group : q.owner = f /\ r.score <= q.score
      BY <2>1
    <3>2. q.score \in 0..10
      BY DEF Scored
    <3> QED
      BY <3>1, <3>2
  <2>3. F \subseteq Q!Owners(above)
    BY <2>2 DEF Q!Owners
  <2> HIDE DEF above
  <2>4. Crowd(above, n, r.score)
    BY <2>1, <2>2, <2>3 DEF Crowd
  <2> QED
    BY <2>4 DEF Covers, above
<1> QED
  BY <1>1, <1>2 DEF Covers

\* What is taken covers all rows,
LEMMA TakenCover ==
  ASSUME NEW group, Scored(group), NEW n \in Nat, NEW taken \in Q!Take(group, n), NEW r \in group
  PROVE Covers(taken, n, r)
<1>1. CASE r \in taken
  BY <1>1 DEF Covers
<1>2. CASE r \notin taken
  <2>1. /\ IsFiniteSet(Q!Owners(taken)) /\ Cardinality(Q!Owners(taken)) = n
        /\ \A e \in Q!Owners(taken) : \E q \in taken : q.owner = e /\ r.score <= q.score
    BY <1>2, TakenAre
  <2> QED
    BY <2>1 DEF Covers, Crowd
<1> QED
  BY <1>1, <1>2

\* and keeps a crowd.
LEMMA TakenCrowd ==
  ASSUME NEW group, Scored(group), NEW n \in Nat, NEW taken \in Q!Take(group, n),
         NEW s \in Int, Crowd(group, n, s)
  PROVE Crowd(taken, n, s)
<1> DEFINE O == Q!Owners(taken)
<1>1. PICK F \in SUBSET Q!Owners(group) :
        /\ IsFiniteSet(F) /\ Cardinality(F) = n
        /\ \A f \in F : \E r \in group : r.owner = f /\ s <= r.score
  BY DEF Crowd
<1>2. /\ IsFiniteSet(O) /\ Cardinality(O) \in Nat /\ Cardinality(O) <= n
      /\ Cardinality(O) < n => taken = group
      /\ taken \subseteq group
      /\ \A q \in group \ taken : \A e \in O : \E r \in taken : r.owner = e /\ q.score <= r.score
  BY TakenAre
<1>3. Cardinality(O) = n
  <2>1. ASSUME Cardinality(O) < n PROVE FALSE
    <3>1. F \in SUBSET O
      BY <1>2, <2>1
    <3>2. Cardinality(F) <= Cardinality(O)
      BY <1>2, <3>1, FS_Subset
    <3> QED
      BY <1>1, <1>2, <2>1, <3>2
  <2> QED
    BY <1>2, <2>1
<1>4. ASSUME NEW e \in O
      PROVE \E r \in taken : r.owner = e /\ s <= r.score
  <2> SUFFICES ASSUME ~ \E r \in taken : r.owner = e /\ s <= r.score
               PROVE FALSE
    OBVIOUS
  <2>1. ASSUME NEW f \in F PROVE f \in O \ {e}
    <3>1. PICK q \in group : q.owner = f /\ s <= q.score
      BY <1>1
    <3>2. q \in taken
      <4>1. ASSUME q \notin taken PROVE FALSE
        <5>1. PICK r \in taken : r.owner = e /\ q.score <= r.score
          BY <1>2, <4>1
        <5>2. q.score \in 0..10 /\ r.score \in 0..10
          BY <1>2 DEF Scored
        <5> QED
          BY <3>1, <5>1, <5>2
      <4> QED
        BY <4>1
    <3> QED
      BY <3>1, <3>2 DEF Q!Owners
  <2>2. F \in SUBSET (O \ {e})
    BY <2>1
  <2>3. IsFiniteSet(O \ {e}) /\ Cardinality(O \ {e}) = Cardinality(O) - 1
    BY <1>2, FS_RemoveElement
  <2>4. Cardinality(F) <= Cardinality(O \ {e})
    BY <2>2, <2>3, FS_Subset
  <2> QED
    BY <1>1, <1>2, <1>3, <2>3, <2>4
<1> QED
  BY <1>2, <1>3, <1>4 DEF Crowd

\* A search that has taken n entities from a window has covered the index;
LEMMA EnoughCover ==
  ASSUME NEW group, Scored(group), NEW m \in Nat, NEW window \in Q!Windows(group, m),
         NEW n \in Nat, NEW taken \in Q!Take({r \in window : Q!Keep(r)}, n),
         Cardinality(Q!Owners(taken)) >= n, NEW r \in group, Q!Keep(r)
  PROVE Covers(taken, n, r)
<1> DEFINE K == {q \in window : Q!Keep(q)}
<1>1. /\ window \subseteq group /\ Scored(window)
      /\ \A q \in window, s \in group \ window : s.score <= q.score
  BY WindowIs
<1>2. Scored(K)
  <2>1. K \in SUBSET window
    OBVIOUS
  <2> QED
    BY <1>1, <2>1, FS_Subset DEF Scored
<1>3. taken \in Q!Take(K, n)
  OBVIOUS
<1> HIDE DEF K
<1>4. CASE r \in window
  <2>1. r \in K
    BY <1>4 DEF K
  <2> QED
    BY <1>2, <1>3, <2>1, TakenCover
<1>5. CASE r \notin window
  <2>1. /\ taken \subseteq K /\ IsFiniteSet(Q!Owners(taken))
        /\ Cardinality(Q!Owners(taken)) \in Nat /\ Cardinality(Q!Owners(taken)) <= n
    BY <1>2, <1>3, TakenAre
  <2>2. Cardinality(Q!Owners(taken)) = n
    BY <2>1
  <2>3. \A q \in taken : r.score <= q.score
    BY <1>1, <1>5, <2>1 DEF K
  <2>4. \A e \in Q!Owners(taken) : \E q \in taken : q.owner = e /\ r.score <= q.score
    BY <2>3 DEF Q!Owners
  <2> QED
    BY <2>1, <2>2, <2>4 DEF Covers, Crowd
<1> QED
  BY <1>4, <1>5

\* one that has not has taken all that the window holds, and of an index no larger
\* than the window all it holds.
LEMMA AllTaken ==
  ASSUME NEW group, Scored(group), NEW m \in Nat, NEW window \in Q!Windows(group, m),
         NEW n \in Nat, NEW taken \in Q!Take({r \in window : Q!Keep(r)}, n)
  PROVE /\ taken \subseteq {r \in group : Q!Keep(r)} /\ Scored(taken)
        /\ Cardinality(Q!Owners(taken)) \in Nat
        /\ Cardinality(Q!Owners(taken)) < n /\ Cardinality(group) < m =>
             taken = {r \in group : Q!Keep(r)}
<1> DEFINE K == {q \in window : Q!Keep(q)}
<1>1. /\ window \subseteq group /\ Scored(window)
      /\ Cardinality(group) < m => window = group
  BY WindowIs
<1>2. Scored(K)
  <2>1. K \in SUBSET window
    OBVIOUS
  <2> QED
    BY <1>1, <2>1, FS_Subset DEF Scored
<1>3. taken \in Q!Take(K, n)
  OBVIOUS
<1> HIDE DEF K
<1>4. /\ taken \subseteq K /\ Scored(taken) /\ Cardinality(Q!Owners(taken)) \in Nat
      /\ Cardinality(Q!Owners(taken)) < n => taken = K
  BY <1>2, <1>3, TakenAre
<1> QED
  BY <1>1, <1>4 DEF K

-----------------------------------------------------------------------------
(* Search: the page.                                                       *)

\* A ranking has every entity once, the best first.
LEMMA RankingIs ==
  ASSUME NEW score, IsFiniteSet(DOMAIN score), NEW order \in Q!Rankings(score)
  PROVE /\ Cardinality(DOMAIN score) \in Nat
        /\ order \in [1..Cardinality(DOMAIN score) -> DOMAIN score]
        /\ \A j, k \in 1..Cardinality(DOMAIN score) : j < k =>
             order[j] # order[k] /\ score[order[k]] <= score[order[j]]
        /\ \A e \in DOMAIN score : \E k \in 1..Cardinality(DOMAIN score) : order[k] = e
<1> DEFINE E == DOMAIN score
           n == Cardinality(E)
<1>1. n \in Nat
  BY FS_CardinalityType
<1>2. order \in [1..n -> E]
      /\ \A j, k \in DOMAIN order : j < k => order[j] # order[k] /\ score[order[k]] <= score[order[j]]
  BY SearchCardinality DEF Q!Rankings
<1> HIDE DEF n, E
<1>3. \A j, k \in 1..n : j < k => order[j] # order[k] /\ score[order[k]] <= score[order[j]]
  BY <1>2
<1>4. order \in Injection(1..n, E)
  <2>1. ASSUME NEW j \in 1..n, NEW k \in 1..n, order[j] = order[k] PROVE j = k
    BY <1>1, <1>3, <2>1
  <2> QED
    BY <1>2, <2>1 DEF Injection, IsInjective
<1>5. Cardinality(1..n) = n /\ IsFiniteSet(E)
  <2>1. 1 \in Int /\ n \in Int /\ (1 > n => n = 0)
    BY <1>1
  <2>2. Cardinality(1..n) = IF 1 > n THEN 0 ELSE n - 1 + 1
    BY <2>1, FS_Interval
  <2> QED
    BY <1>1, <2>1, <2>2 DEF E
<1>6. order \in Surjection(1..n, E)
  BY <1>4, <1>5, FS_Injection DEF n
<1>7. \A e \in E : \E k \in 1..n : order[k] = e
  BY <1>6 DEF Surjection
<1> QED
  BY <1>1, <1>2, <1>3, <1>7 DEF n, E

\* Hits are ranked entities, each with the score of its best row.
LEMMA HitsAre ==
  ASSUME NEW group, Scored(group), NEW fuzzy, NEW list \in Q!HitLists(group, fuzzy)
  PROVE LET n == Cardinality(Q!Owners(group))
        IN /\ n \in Nat /\ DOMAIN list = 1..n
           /\ list = [k \in 1..n |-> list[k]]
           /\ \A k \in 1..n : /\ list[k].entity \in Q!Owners(group)
                              /\ list[k].score = Q!BestOf(group, list[k].entity)
                              /\ list[k].fuzzy = fuzzy
           /\ \A j, k \in 1..n : j < k => /\ list[j].entity # list[k].entity
                                          /\ list[k].score <= list[j].score
           /\ \A e \in Q!Owners(group) : \E k \in 1..n : list[k].entity = e
<1> DEFINE score == Q!Scores(group)
           n == Cardinality(Q!Owners(group))
<1>1. PICK order \in Q!Rankings(score) :
        list = [k \in DOMAIN order |->
                  [entity |-> order[k], score |-> Q!BestOf(group, order[k]), fuzzy |-> fuzzy]]
  BY DEF Q!HitLists
<1>2. /\ DOMAIN score = Q!Owners(group) /\ IsFiniteSet(DOMAIN score)
      /\ \A e \in Q!Owners(group) : score[e] = Q!BestOf(group, e)
  BY OwnersAre DEF Scored
<1> HIDE DEF score
<1>3. /\ n \in Nat /\ order \in [1..n -> Q!Owners(group)]
      /\ \A j, k \in 1..n : j < k => order[j] # order[k] /\ score[order[k]] <= score[order[j]]
      /\ \A e \in Q!Owners(group) : \E k \in 1..n : order[k] = e
  BY <1>2, RankingIs
<1> HIDE DEF n
<1>4. DOMAIN order = 1..n /\ \A k \in 1..n : order[k] \in Q!Owners(group)
  BY <1>3
<1>5. /\ DOMAIN list = 1..n
      /\ \A k \in 1..n : /\ list[k].entity = order[k]
                         /\ list[k].score = Q!BestOf(group, order[k])
                         /\ list[k].fuzzy = fuzzy
  BY <1>1, <1>4
<1>6. list = [k \in 1..n |-> list[k]]
  BY <1>1, <1>4
<1>7. \A j, k \in 1..n : j < k => /\ list[j].entity # list[k].entity
                                  /\ list[k].score <= list[j].score
  BY <1>2, <1>3, <1>4, <1>5
<1> QED
  BY <1>3, <1>4, <1>5, <1>6, <1>7 DEF n

\* A crowd is ranked ahead of what it crowds out.
LEMMA CrowdLeads ==
  ASSUME NEW group, Scored(group), NEW fuzzy, NEW list \in Q!HitLists(group, fuzzy),
         NEW n \in Nat, NEW s \in Int, Crowd(group, n, s)
  PROVE /\ n <= Cardinality(Q!Owners(group))
        /\ \A k \in 1..Cardinality(Q!Owners(group)) : k <= n => s <= list[k].score
<1> DEFINE O == Q!Owners(group)
           m == Cardinality(O)
<1>1. /\ m \in Nat /\ DOMAIN list = 1..m
      /\ \A k \in 1..m : list[k].entity \in O /\ list[k].score = Q!BestOf(group, list[k].entity)
      /\ \A j, k \in 1..m : j < k => /\ list[j].entity # list[k].entity
                                     /\ list[k].score <= list[j].score
      /\ \A e \in O : \E k \in 1..m : list[k].entity = e
  BY HitsAre
<1>2. PICK F \in SUBSET O :
        /\ IsFiniteSet(F) /\ Cardinality(F) = n
        /\ \A f \in F : \E r \in group : r.owner = f /\ s <= r.score
  BY DEF Crowd
<1>3. IsFiniteSet(O)
  BY OwnersAre DEF Scored
<1>4. n <= m
  BY <1>2, <1>3, FS_Subset
<1>5. ASSUME NEW k \in 1..m, k <= n, ~ (s <= list[k].score)
      PROVE FALSE
  <2> DEFINE before == {list[j].entity : j \in 1..(k-1)}
  <2>1. \A j \in 1..m : list[j].score \in 0..10
    BY <1>1, BestIs
  <2>2. ASSUME NEW f \in F PROVE f \in before
    <3>1. PICK r \in group : r.owner = f /\ s <= r.score
      BY <1>2
    <3>2. PICK j \in 1..m : list[j].entity = f
      BY <1>1, <1>2
    <3>3. r.score <= list[j].score /\ r.score \in 0..10
      BY <1>1, <3>1, <3>2, BestIs DEF Scored
    <3>4. j < k
      <4>1. j \in Int /\ k \in Int /\ list[j].score \in 0..10 /\ list[k].score \in 0..10
        BY <1>1, <2>1
      <4>2. list[k].score < list[j].score
        BY <1>5, <3>1, <3>3, <4>1
      <4>3. k < j => list[j].score <= list[k].score
        BY <1>1
      <4> QED
        BY <4>1, <4>2, <4>3
    <3>5. j \in 1..(k-1)
      BY <1>1, <3>4
    <3> QED
      BY <3>2, <3>5
  <2>3. IsFiniteSet(before) /\ Cardinality(before) <= k - 1
    <3> DEFINE g == [j \in 1..(k-1) |-> list[j].entity]
    <3>1. g \in Surjection(1..(k-1), before)
      BY DEF Surjection
    <3>2. IsFiniteSet(1..(k-1)) /\ Cardinality(1..(k-1)) = k - 1
      <4>1. 1 \in Int /\ k - 1 \in Int /\ k - 1 >= 0
        BY <1>1
      <4>2. /\ IsFiniteSet(1..(k-1))
            /\ Cardinality(1..(k-1)) = IF 1 > k - 1 THEN 0 ELSE (k - 1) - 1 + 1
        BY <4>1, FS_Interval
      <4> QED
        BY <4>1, <4>2
    <3> QED
      BY <3>1, <3>2, FS_Surjection
  <2>4. F \in SUBSET before
    BY <2>2
  <2> HIDE DEF before
  <2>5. Cardinality(F) <= Cardinality(before) /\ Cardinality(before) \in Nat
    BY <2>3, <2>4, FS_Subset, FS_CardinalityType
  <2> QED
    BY <1>1, <1>2, <1>5, <2>3, <2>5
<1> QED
  BY <1>4, <1>5

\* The page of a list: its first n exact hits.
ExactHits(list) == {k \in DOMAIN list : ~list[k].fuzzy}
PageHits(list, n) == {k \in ExactHits(list) : k <= n}
ShownIn(list, n) == {list[k].entity : k \in PageHits(list, n)}

\* It has true scores, and is full where an entity of these rows is left out, which
\* then outranks none of it.
BestPage(list, group, n) ==
  /\ \A k \in PageHits(list, n) : list[k].score = Q!BestOf(group, list[k].entity)
  /\ \A e \in Q!Owners(group) \ ShownIn(list, n) :
       /\ n \in ExactHits(list)
       /\ \A f \in ShownIn(list, n) : Q!BestOf(group, e) <= Q!BestOf(group, f)

\* No entity twice, edits last, the best first.
InOrder(list) ==
  \A j, k \in DOMAIN list : j < k =>
    /\ list[j].entity # list[k].entity
    /\ list[j].fuzzy => list[k].fuzzy
    /\ ~list[k].fuzzy => list[k].score <= list[j].score

\* A list of rows that cover all has the best page of all.
LEMMA PageOfCover ==
  ASSUME NEW all, Scored(all), NEW group, group \subseteq all, NEW n \in Nat, n # 0,
         \A r \in all : Covers(group, n, r), NEW list \in Q!HitLists(group, FALSE)
  PROVE BestPage(list, all, n)
<1> DEFINE m == Cardinality(Q!Owners(group))
<1>1. Scored(group)
  <2>1. group \in SUBSET all
    OBVIOUS
  <2> QED
    BY <2>1, FS_Subset DEF Scored
<1>0. PICK fuzzy : fuzzy = FALSE
  OBVIOUS
<1> list \in Q!HitLists(group, fuzzy)
  BY <1>0
<1>2. /\ m \in Nat /\ DOMAIN list = 1..m
      /\ \A k \in 1..m : /\ list[k].entity \in Q!Owners(group)
                         /\ list[k].score = Q!BestOf(group, list[k].entity)
                         /\ list[k].fuzzy = FALSE
      /\ \A j, k \in 1..m : j < k => list[k].score <= list[j].score
      /\ \A e \in Q!Owners(group) : \E k \in 1..m : list[k].entity = e
  BY <1>0, <1>1, HitsAre
<1> HIDE DEF m
<1>3. ExactHits(list) = 1..m /\ PageHits(list, n) = {k \in 1..m : k <= n}
  BY <1>2 DEF ExactHits, PageHits
<1>4. Q!Owners(group) \subseteq Q!Owners(all)
  BY DEF Q!Owners
<1>5. \A r \in all : r.score \in 0..10
  BY DEF Scored
<1>6. ASSUME NEW r \in all, Crowd(group, n, r.score)
      PROVE n <= m /\ \A k \in 1..m : k <= n => r.score <= list[k].score
  <2>1. r.score \in Int
    BY <1>5
  <2> QED
    BY <1>1, <1>6, <2>1, CrowdLeads DEF m
<1>7. ASSUME NEW k \in 1..m, k <= n
      PROVE list[k].score = Q!BestOf(all, list[k].entity)
  <2> DEFINE e == list[k].entity
  <2>1. e \in Q!Owners(group) /\ e \in Q!Owners(all)
    BY <1>2, <1>4
  <2>2. PICK q \in group : q.owner = e /\ q.score = Q!BestOf(group, e)
    BY <1>1, <2>1, BestIs
  <2>3. PICK r \in all : r.owner = e /\ r.score = Q!BestOf(all, e)
    BY <2>1, BestIs
  <2>4. q.score <= r.score
    BY <2>1, <2>2, <2>3, BestIs
  <2>5. r.score <= q.score
    <3>1. CASE r \in group
      BY <1>1, <2>1, <2>2, <2>3, <3>1, BestIs
    <3>2. CASE Crowd(group, n, r.score)
      BY <1>2, <1>6, <1>7, <2>2, <3>2
    <3> QED
      BY <3>1, <3>2 DEF Covers
  <2> QED
    BY <1>2, <1>5, <2>2, <2>3, <2>4, <2>5
<1>8. ASSUME NEW e \in Q!Owners(all) \ ShownIn(list, n)
      PROVE /\ n \in ExactHits(list)
            /\ \A f \in ShownIn(list, n) : Q!BestOf(all, e) <= Q!BestOf(all, f)
  <2>1. PICK r \in all : r.owner = e /\ r.score = Q!BestOf(all, e)
    BY BestIs
  <2>2. n <= m /\ \A k \in 1..m : k <= n => r.score <= list[k].score
    <3>1. CASE r \in group
      <4>1. e \in Q!Owners(group)
        BY <2>1, <3>1 DEF Q!Owners
      <4>2. PICK j \in 1..m : list[j].entity = e
        BY <1>2, <4>1
      <4>3. ~ (j <= n)
        BY <1>3, <1>8, <4>2 DEF ShownIn
      <4>4. r.score <= list[j].score
        BY <1>1, <1>2, <2>1, <3>1, <4>1, <4>2, BestIs
      <4>5. ASSUME NEW k \in 1..m, k <= n PROVE r.score <= list[k].score
        <5>1. list[j].score <= list[k].score
          BY <1>2, <4>3, <4>5
        <5>2. list[j].score \in 0..10 /\ list[k].score \in 0..10
          BY <1>1, <1>2, BestIs
        <5> QED
          BY <1>5, <4>4, <5>1, <5>2
      <4> QED
        BY <1>2, <4>3, <4>5
    <3>2. CASE Crowd(group, n, r.score)
      BY <1>6, <3>2
    <3> QED
      BY <3>1, <3>2 DEF Covers
  <2>3. n \in 1..m
    BY <1>2, <2>2
  <2>4. ASSUME NEW f \in ShownIn(list, n) PROVE Q!BestOf(all, e) <= Q!BestOf(all, f)
    <3>1. PICK k \in 1..m : k <= n /\ list[k].entity = f
      BY <1>3 DEF ShownIn
    <3> QED
      BY <1>7, <2>1, <2>2, <3>1
  <2> QED
    BY <1>3, <2>3, <2>4
<1> QED
  BY <1>3, <1>7, <1>8 DEF BestPage

\* The hits of a retry come behind, and change nothing of it.
LEMMA RetryAppends ==
  ASSUME NEW S, NEW list \in Seq(S), InOrder(list), NEW group, Scored(group),
         \A r \in group : r.owner \notin {list[k].entity : k \in DOMAIN list},
         NEW more \in Q!HitLists(group, TRUE)
  PROVE /\ InOrder(list \o more) /\ \E S1 : list \o more \in Seq(S1)
        /\ ExactHits(list \o more) = ExactHits(list)
        /\ \A k \in ExactHits(list) : (list \o more)[k] = list[k]
<1> DEFINE m == Cardinality(Q!Owners(group))
           n == Len(list)
           S1 == S \cup {more[k] : k \in 1..m}
<1>0. PICK fuzzy : fuzzy = TRUE
  OBVIOUS
<1> more \in Q!HitLists(group, fuzzy)
  BY <1>0
<1>1. /\ m \in Nat /\ DOMAIN more = 1..m /\ more = [k \in 1..m |-> more[k]]
      /\ \A k \in 1..m : more[k].entity \in Q!Owners(group) /\ more[k].fuzzy = fuzzy
      /\ \A j, k \in 1..m : j < k => more[j].entity # more[k].entity
  BY HitsAre
<1>2. list \in Seq(S1)
  BY SeqMonotonic
<1>3. more \in Seq(S1) /\ Len(more) = m
  <2>1. more \in [1..m -> S1]
    BY <1>1
  <2> HIDE DEF S1, m
  <2>2. more \in Seq(S1)
    BY <1>1, <2>1
  <2>3. Len(more) \in Nat /\ DOMAIN more = 1..Len(more)
    BY <2>2
  <2> QED
    BY <1>1, <2>2, <2>3
<1> HIDE DEF S1, m
<1>4. /\ list \o more \in Seq(S1) /\ Len(list \o more) = n + m
      /\ \A i \in 1..(n + m) : (list \o more)[i] = IF i <= n THEN list[i] ELSE more[i - n]
  BY <1>2, <1>3, ConcatProperties
<1>5. n \in Nat /\ DOMAIN list = 1..n /\ DOMAIN (list \o more) = 1..(n + m)
  BY <1>1, <1>2, <1>4
<1> DEFINE both == list \o more
<1> HIDE DEF both, n
<1>6. /\ \A i \in 1..n : i \in 1..(n + m) /\ both[i] = list[i]
      /\ \A i \in 1..(n + m) : i \notin 1..n => i - n \in 1..m /\ both[i] = more[i - n]
  BY <1>1, <1>4, <1>5 DEF both
<1>7. \A k \in 1..m : more[k].entity \notin {list[i].entity : i \in 1..n}
  BY <1>1, <1>5 DEF Q!Owners
<1>8. InOrder(both)
  <2> SUFFICES ASSUME NEW j \in 1..(n + m), NEW k \in 1..(n + m), j < k
               PROVE /\ both[j].entity # both[k].entity
                     /\ both[j].fuzzy => both[k].fuzzy
                     /\ ~both[k].fuzzy => both[k].score <= both[j].score
    BY <1>5 DEF InOrder, both
  <2>1. CASE k \in 1..n
    <3>1. j \in 1..n
      BY <1>5, <2>1
    <3> QED
      BY <1>5, <1>6, <2>1, <3>1 DEF InOrder
  <2>2. CASE k \notin 1..n
    <3>1. both[k] = more[k - n] /\ k - n \in 1..m /\ both[k].fuzzy
      BY <1>0, <1>1, <1>6, <2>2
    <3>2. both[j].entity # both[k].entity
      <4>1. CASE j \in 1..n
        BY <1>6, <1>7, <3>1, <4>1
      <4>2. CASE j \notin 1..n
        <5>1. both[j] = more[j - n] /\ j - n \in 1..m
          BY <1>6, <4>2
        <5>2. j - n < k - n
          BY <1>1, <1>5
        <5> QED
          BY <1>1, <3>1, <5>1, <5>2
      <4> QED
        BY <4>1, <4>2
    <3> QED
      BY <3>1, <3>2
  <2> QED
    BY <2>1, <2>2
<1>9. ExactHits(both) = ExactHits(list)
  BY <1>0, <1>1, <1>5, <1>6 DEF ExactHits, both
<1>10. \A k \in ExactHits(list) : both[k] = list[k]
  BY <1>5, <1>6 DEF ExactHits
<1> QED
  BY <1>4, <1>8, <1>9, <1>10 DEF both

-----------------------------------------------------------------------------
(* Search: the invariant.                                                  *)

IndexKinds == {"code", "summary", "symbol"}

\* Every variable keeps its type, and the indexes stay finite.
SearchTypes ==
  /\ qAsk.tool \in Q!Tools /\ qAsk.minScore \in Int /\ qAsk.limit \in Nat /\ qAsk.offset \in Nat
  /\ DOMAIN qIndex = IndexKinds
  /\ \A i \in IndexKinds : Scored(qIndex[i]) /\ \A r \in qIndex[i] : r.words \subseteq Words
  /\ qFetch \in Nat /\ qChanges \in Nat

\* What a call may search: a kind of the tool's, or a level of its summaries.
Searchable ==
  {i \in Levels \cup IndexKinds : \E k \in DOMAIN Q!At(qAsk.tool) :
     Q!At(qAsk.tool)[k] = IF i \in Levels THEN "summary" ELSE i}

\* An index is searched once: to do, at hand, or found.
Placed ==
  /\ qTodo \subseteq Searchable /\ DOMAIN qSeen \subseteq Searchable
  /\ IsFiniteSet(DOMAIN qSeen)
  /\ qAsk.tool = "text" => (qTodo \cup DOMAIN qFound) \cap Levels = {}
  /\ DOMAIN qFound \subseteq DOMAIN qSeen /\ DOMAIN qFound \cap qTodo = {}
  /\ qPc = "plan" => DOMAIN qSeen = {}
  /\ qPc \in {"rows", "count"} => qTodo # {} /\ DOMAIN qSeen \subseteq DOMAIN qFound \cup {Q!Current}
  /\ qPc = "count" => Q!Current \in DOMAIN qSeen
  /\ qPc \notin {"rows", "count", "error"} => DOMAIN qSeen = DOMAIN qFound

\* The rows that the caller's filters keep.
Keeps(group) == {r \in group : Q!Keep(r)}

\* What was found in an index is of it, and covers it when complete.
Covered ==
  /\ \A i \in DOMAIN qSeen : Scored(qSeen[i]) /\ (qChanges = 0 => qSeen[i] = Q!Ranked(i))
  /\ \A i \in DOMAIN qFound :
       /\ qFound[i].rows \subseteq Keeps(qSeen[i])
       /\ qFound[i].complete /\ ~qShrunk =>
            \A r \in Keeps(qSeen[i]) : Covers(qFound[i].rows, Q!Needed, r)

\* Before the count, the window is all of an index that it was not filled by.
Windowed ==
  qPc = "count" =>
    /\ qKept \subseteq Keeps(qSeen[Q!Current])
    /\ Cardinality(qSeen[Q!Current]) < qFetch => Keeps(qSeen[Q!Current]) \subseteq qKept
    /\ ~qShrunk => qSeen[Q!Current] \subseteq Q!Ranked(Q!Current)

\* The hits are of rows found, and the best of all when every index is covered.
Answered ==
  qPc \in {"words", "fuzzy", "done"} =>
    /\ InOrder(qHits) /\ \E S : qHits \in Seq(S)
    /\ \A k \in ExactHits(qHits) : qHits[k].entity \in Q!Owners(Q!Above(Q!LevelRows \cup Q!OtherRows))
    /\ ~Q!Truncated /\ ~qShrunk => BestPage(qHits, Q!Truth, Q!Needed)
    /\ qPc = "words" => ExactHits(qHits) = DOMAIN qHits

\* What a probe said of a word is so while the indexes stand.
Held(w) == \E i \in IndexKinds : \E r \in qIndex[i] : r.owner \in Mine /\ w \in r.words
ProbedTrue ==
  qPc \in {"fuzzy", "done"} /\ qAsk.tool = "text" /\ qChanges = 0 =>
    \A w \in Words :
      /\ w \in qAbsent => ~Held(w)
      /\ ~Held(w) /\ w \notin qUnsure /\ w \notin qSkipped \cap Phrases => w \in qAbsent

SearchInv == SearchTypes /\ Placed /\ Covered /\ Windowed /\ Answered /\ ProbedTrue

-----------------------------------------------------------------------------
(* Search: the index at hand.                                              *)

\* The windows and the pages are numbers.
LEMMA SearchNumbers ==
  /\ Pool \in Nat /\ Overfetch \in Nat /\ MinFetch \in Nat /\ Growth \in Nat /\ Ceiling \in Nat
  /\ SearchTypes => /\ Q!Needed \in Nat /\ Q!Needed # 0 /\ Q!FirstFetch(Q!Needed) \in Nat
                    /\ Q!Wider(qFetch) \in Nat
<1>1. /\ Pool \in Nat /\ Overfetch \in Nat /\ MinFetch \in Nat /\ Growth \in Nat /\ Ceiling \in Nat
  BY SearchAssumption
<1>2. ASSUME SearchTypes PROVE Q!Needed \in Nat /\ Q!Needed # 0
  <2>1. qAsk.offset \in Nat /\ qAsk.limit \in Nat
    BY <1>2 DEF SearchTypes
  <2> QED
    BY <1>1, <2>1 DEF Q!Needed
<1>3. ASSUME NEW n \in Nat PROVE Q!FirstFetch(n) \in Nat
  <2>1. n * Overfetch \in Nat
    BY <1>1
  <2> QED
    BY <1>1, <2>1 DEF Q!FirstFetch
<1>4. ASSUME NEW n \in Nat PROVE Q!Wider(n) \in Nat
  <2>1. n * Growth \in Nat
    BY <1>1
  <2> QED
    BY <1>1, <2>1 DEF Q!Wider
<1> QED
  BY <1>1, <1>2, <1>3, <1>4 DEF SearchTypes

\* Each tool's indexes are some of the three.
LEMMA ToolIndexes ==
  ASSUME NEW t \in Q!Tools
  PROVE /\ DOMAIN Q!At(t) \subseteq {1, 2, 3} /\ 1 \in DOMAIN Q!At(t)
        /\ \A k \in DOMAIN Q!At(t) : Q!At(t)[k] \in IndexKinds
<1>1. CASE t = "code"
  BY <1>1 DEF Q!At, IndexKinds
<1>2. CASE t = "semantic"
  BY <1>2 DEF Q!At, IndexKinds
<1>3. CASE t = "hybrid"
  BY <1>3 DEF Q!At, IndexKinds
<1>4. CASE t = "text"
  BY <1>4 DEF Q!At, IndexKinds
<1> QED
  BY <1>1, <1>2, <1>3, <1>4 DEF Q!Tools

\* The index at hand is one of those to do.
LEMMA CurrentIs ==
  ASSUME SearchTypes, qTodo # {}, qTodo \subseteq Searchable
  PROVE Q!Current \in qTodo
<1> DEFINE places == {Q!Turn(i) : i \in qTodo}
<1>1. ASSUME NEW i \in qTodo PROVE Q!Turn(i) \in Nat
  <2>1. PICK k \in DOMAIN Q!At(qAsk.tool) :
          Q!At(qAsk.tool)[k] = IF i \in Levels THEN "summary" ELSE i
    BY DEF Searchable
  <2>2. Q!Turn(i) \in DOMAIN Q!At(qAsk.tool)
    BY <2>1 DEF Q!Turn
  <2>3. DOMAIN Q!At(qAsk.tool) \subseteq {1, 2, 3}
    BY ToolIndexes DEF SearchTypes
  <2> QED
    BY <2>2, <2>3
<1>2. places \subseteq Nat /\ places # {}
  BY <1>1
<1>3. PICK p \in places : \A q \in places : p <= q
  BY <1>2, LeastNumber
<1>4. PICK i \in qTodo : p = Q!Turn(i)
  BY <1>3
<1>5. \A j \in qTodo : Q!Turn(i) <= Q!Turn(j)
  BY <1>3, <1>4
<1> QED
  BY <1>5 DEF Q!Current

\* It is one of the three or a level of the summaries, and what it ranks is of it.
LEMMA RankedIs ==
  ASSUME SearchTypes, NEW i \in Searchable
  PROVE /\ Scored(Q!Ranked(i))
        /\ \E k \in IndexKinds : Q!Ranked(i) \subseteq qIndex[k]
        /\ i \notin Levels => i \in IndexKinds /\ Q!Ranked(i) \subseteq qIndex[i]
        /\ i \notin Levels /\ qAsk.tool = "text" => \A r \in Q!Ranked(i) : r.words # {}
<1>1. CASE i \in Levels
  <2>1. Q!Ranked(i) \in SUBSET qIndex["summary"]
    BY <1>1 DEF Q!Ranked
  <2>2. "summary" \in IndexKinds
    BY DEF IndexKinds
  <2> QED
    BY <1>1, <2>1, <2>2, FS_Subset DEF SearchTypes, Scored
<1>2. CASE i \notin Levels
  <2>1. i \in IndexKinds
    BY <1>2 DEF Searchable
  <2>2. Q!Ranked(i) \in SUBSET qIndex[i]
    BY <1>2 DEF Q!Ranked
  <2>3. qAsk.tool = "text" => \A r \in Q!Ranked(i) : r.words # {}
    BY <1>2 DEF Q!Ranked
  <2> QED
    BY <1>2, <2>1, <2>2, <2>3, FS_Subset DEF SearchTypes, Scored
<1> QED
  BY <1>1, <1>2

\* The call stands, so does the index at hand.
LEMMA SameCall ==
  ASSUME UNCHANGED <<qAsk, qTodo>>
  PROVE /\ Q!Current' = Q!Current /\ Searchable' = Searchable /\ Q!Needed' = Q!Needed
        /\ \A group : Keeps(group)' = Keeps(group)
        /\ \A group : Q!Above(group)' = Q!Above(group)
<1>1. \A i : Q!Turn(i)' = Q!Turn(i)
  BY DEF Q!Turn
<1>2. Q!Current' = Q!Current
  BY <1>1 DEF Q!Current
<1> QED
  BY <1>2 DEF Searchable, Q!Needed, Keeps, Q!Keep, Q!Above

-----------------------------------------------------------------------------
(* Search: the steps.                                                      *)

\* The hits stand, so does what was said of them.
LEMMA SameAnswer ==
  ASSUME SearchInv, UNCHANGED <<qAsk, qPc, qFound, qSeen, qHits>>, qShrunk => qShrunk'
  PROVE Answered'
<1>1. /\ Q!LevelRows' = Q!LevelRows /\ Q!OtherRows' = Q!OtherRows
      /\ Q!Truncated' = Q!Truncated /\ Q!Needed' = Q!Needed
  BY DEF Q!LevelRows, Q!OtherRows, Q!Truncated, Q!Needed
<1>2. Q!Truth' = Q!Truth
  BY DEF Q!Truth, Q!Keep
<1>3. Q!Above(Q!LevelRows \cup Q!OtherRows)' = Q!Above(Q!LevelRows \cup Q!OtherRows)
  BY <1>1 DEF Q!Above
<1>4. qHits' = qHits /\ qPc' = qPc
  OBVIOUS
<1> QED
  BY <1>1, <1>2, <1>3, <1>4 DEF SearchInv, Answered

\* An index changes: what was read of it stands.
LEMMA IndexChanges ==
  ASSUME SearchInv, UNCHANGED <<qAsk, qTodo, qFetch, qKept, qFound, qSeen, qHits, qPc>>,
         qChanges' = qChanges + 1, qShrunk => qShrunk',
         DOMAIN qIndex' = IndexKinds,
         \A i \in IndexKinds : Scored(qIndex'[i]) /\ \A r \in qIndex'[i] : r.words \subseteq Words,
         qPc = "count" /\ ~qShrunk' => Q!Ranked(Q!Current) \subseteq Q!Ranked(Q!Current)'
  PROVE SearchInv'
<1>1. qChanges' \in Nat /\ qChanges' # 0
  BY DEF SearchInv, SearchTypes
<1>2. SearchTypes'
  BY <1>1 DEF SearchInv, SearchTypes
<1>3. /\ Q!Current' = Q!Current /\ Searchable' = Searchable /\ Q!Needed' = Q!Needed
      /\ \A group : Keeps(group)' = Keeps(group)
  BY SameCall
<1>4. Placed'
  BY <1>3 DEF SearchInv, Placed
<1>5. Covered'
  BY <1>1, <1>3 DEF SearchInv, Covered
<1>6. Windowed'
  <2> SUFFICES ASSUME qPc = "count"
               PROVE /\ qKept \subseteq Keeps(qSeen[Q!Current])
                     /\ Cardinality(qSeen[Q!Current]) < qFetch => Keeps(qSeen[Q!Current]) \subseteq qKept
                     /\ ~qShrunk' => qSeen[Q!Current] \subseteq Q!Ranked(Q!Current)'
    BY <1>3 DEF Windowed
  <2> QED
    BY DEF SearchInv, Windowed
<1>7. Answered'
  BY SameAnswer
<1>8. ProbedTrue'
  BY <1>1 DEF ProbedTrue
<1> QED
  BY <1>2, <1>4, <1>5, <1>6, <1>7, <1>8 DEF SearchInv

\* A row is deleted.
LEMMA RowDeleted ==
  ASSUME SearchInv, NEW i \in IndexKinds, NEW r, Q!Delete(i, r)
  PROVE SearchInv'
<1>1. /\ qIndex' = [qIndex EXCEPT ![i] = @ \ {r}] /\ qChanges' = qChanges + 1
      /\ UNCHANGED <<qAsk, qTodo, qFetch, qKept, qFound, qSeen, qHits, qPc>>
      /\ qShrunk' = (qShrunk \/ (qPc = "count" /\ Q!Ranked(Q!Current)' # Q!Ranked(Q!Current)))
  BY DEF Q!Delete, Q!answer
<1>2. DOMAIN qIndex = IndexKinds
      /\ \A j \in IndexKinds : Scored(qIndex[j]) /\ \A q \in qIndex[j] : q.words \subseteq Words
  BY DEF SearchInv, SearchTypes
<1>3. DOMAIN qIndex' = IndexKinds
      /\ \A j \in IndexKinds : qIndex'[j] \in SUBSET qIndex[j]
  BY <1>1, <1>2
<1>4. \A j \in IndexKinds : Scored(qIndex'[j]) /\ \A q \in qIndex'[j] : q.words \subseteq Words
  BY <1>2, <1>3, FS_Subset DEF Scored
<1>5. (qShrunk => qShrunk') /\ (qPc = "count" /\ ~qShrunk' => Q!Ranked(Q!Current)' = Q!Ranked(Q!Current))
  BY <1>1
<1> QED
  BY <1>1, <1>3, <1>4, <1>5, IndexChanges

\* A row is stored.
LEMMA RowStored ==
  ASSUME SearchInv, NEW i \in IndexKinds, NEW e, Q!Store(i, e)
  PROVE SearchInv'
<1> DEFINE r == [id |-> -qChanges, owner |-> e, score |-> 10, words |-> Words,
                 near |-> {}, apart |-> FALSE]
<1>1. /\ qIndex' = [qIndex EXCEPT ![i] = @ \cup {r}] /\ qChanges' = qChanges + 1
      /\ UNCHANGED <<qAsk, qTodo, qFetch, qKept, qFound, qSeen, qHits, qPc, qShrunk>>
  BY DEF Q!Store, Q!call, Q!answer
<1>2. DOMAIN qIndex = IndexKinds
      /\ \A j \in IndexKinds : Scored(qIndex[j]) /\ \A q \in qIndex[j] : q.words \subseteq Words
  BY DEF SearchInv, SearchTypes
<1>3. r.score = 10 /\ r.words = Words
  OBVIOUS
<1> HIDE DEF r
<1>4. DOMAIN qIndex' = IndexKinds
      /\ \A j \in IndexKinds : qIndex'[j] = IF j = i THEN qIndex[j] \cup {r} ELSE qIndex[j]
  BY <1>1, <1>2
<1>5. IsFiniteSet(qIndex[i] \cup {r})
  BY <1>2, FS_AddElement DEF Scored
<1>6. Scored(qIndex[i] \cup {r}) /\ \A q \in qIndex[i] \cup {r} : q.words \subseteq Words
  BY <1>2, <1>3, <1>5 DEF Scored
<1>7. \A j \in IndexKinds : Scored(qIndex'[j]) /\ \A q \in qIndex'[j] : q.words \subseteq Words
  BY <1>2, <1>4, <1>6
<1>8. ASSUME qPc = "count"
      PROVE Q!Ranked(Q!Current) \subseteq Q!Ranked(Q!Current)'
  <2>1. Q!Current' = Q!Current
    BY <1>1, SameCall
  <2>2. Q!Current \in Searchable
    BY <1>8, CurrentIs DEF SearchInv, Placed
  <2>3. qAsk' = qAsk /\ \A j \in IndexKinds : qIndex[j] \subseteq qIndex'[j]
    BY <1>1, <1>4
  <2>4. CASE Q!Current \in Levels
    <3>1. "summary" \in IndexKinds
      BY DEF IndexKinds
    <3> QED
      BY <2>1, <2>3, <2>4, <3>1 DEF Q!Ranked
  <2>5. CASE Q!Current \notin Levels
    <3>1. Q!Current \in IndexKinds
      BY <2>2, <2>5 DEF Searchable
    <3> QED
      BY <2>1, <2>3, <2>5, <3>1 DEF Q!Ranked
  <2> QED
    BY <2>4, <2>5
<1> QED
  BY <1>1, <1>4, <1>7, <1>8, IndexChanges

\* The vector index is collected, or a call gives up on it.
LEMMA NothingRead ==
  ASSUME SearchInv, Q!Collected \/ Q!GiveUp
  PROVE SearchInv'
<1>1. UNCHANGED <<qIndex, qChanges, qAsk, qTodo, qFetch, qKept, qFound, qSeen, qShrunk, qHits,
                  qAbsent, qUnsure, qSkipped>>
      /\ (qPc' = qPc \/ qPc' = "error")
  BY DEF Q!Collected, Q!GiveUp, Q!call, Q!answer, Q!env
<1>2. /\ Q!Current' = Q!Current /\ Searchable' = Searchable /\ Q!Needed' = Q!Needed
      /\ \A group : Keeps(group)' = Keeps(group)
  BY <1>1, SameCall
<1>3. \A i : Q!Ranked(i)' = Q!Ranked(i)
  BY <1>1 DEF Q!Ranked
<1>4. SearchTypes' /\ Placed'
  BY <1>1, <1>2 DEF SearchInv, SearchTypes, Placed
<1>5. Covered'
  BY <1>1, <1>2, <1>3 DEF SearchInv, Covered
<1>6. Windowed'
  BY <1>1, <1>2, <1>3 DEF SearchInv, Windowed
<1>7. Answered'
  <2>1. CASE qPc' = "error"
    BY <2>1 DEF Answered
  <2>2. CASE qPc' = qPc
    BY <1>1, <2>2, SameAnswer
  <2> QED
    BY <1>1, <2>1, <2>2
<1>8. ProbedTrue'
  BY <1>1 DEF SearchInv, ProbedTrue, Held
<1> QED
  BY <1>4, <1>5, <1>6, <1>7, <1>8 DEF SearchInv

\* The indexes to search are planned.
LEMMA CallPlanned ==
  ASSUME SearchInv, Q!Plan
  PROVE SearchInv'
<1>1. /\ qPc = "plan" /\ qPc' = "rows" /\ qFetch' = Q!FirstFetch(Q!Needed)
      /\ qTodo' = UNION {Q!Searched(Q!At(qAsk.tool)[k]) : k \in DOMAIN Q!At(qAsk.tool)}
      /\ UNCHANGED <<qIndex, qChanges, qAsk, qFound, qSeen, qShrunk>>
  BY DEF Q!Plan, Q!env
<1>2. SearchTypes'
  <2>1. qFetch' \in Nat
    BY <1>1, SearchNumbers DEF SearchInv
  <2> QED
    BY <1>1, <2>1 DEF SearchInv, SearchTypes
<1>3. qAsk.tool \in Q!Tools
  BY DEF SearchInv, SearchTypes
<1>4. /\ 1 \in DOMAIN Q!At(qAsk.tool)
      /\ \A k \in DOMAIN Q!At(qAsk.tool) : Q!At(qAsk.tool)[k] \in IndexKinds
  BY <1>3, ToolIndexes
<1>5. IndexKinds \cap Levels = {}
  BY SearchAssumption DEF IndexKinds
<1>6. ASSUME NEW k \in DOMAIN Q!At(qAsk.tool)
      PROVE /\ Q!Searched(Q!At(qAsk.tool)[k]) \subseteq Searchable
            /\ Q!Searched(Q!At(qAsk.tool)[k]) # {}
            /\ qAsk.tool = "text" => Q!Searched(Q!At(qAsk.tool)[k]) \cap Levels = {}
  <2> DEFINE i == Q!At(qAsk.tool)[k]
  <2>1. CASE i = "summary" /\ qAsk.tool # "text" /\ qAsk.types # {}
             /\ qAsk.types \subseteq (Levels \cap qPresent)
    <3>1. Q!Searched(i) = qAsk.types
      BY <2>1 DEF Q!Searched
    <3> QED
      BY <2>1, <3>1 DEF Searchable
  <2>2. CASE ~ (i = "summary" /\ qAsk.tool # "text" /\ qAsk.types # {}
                /\ qAsk.types \subseteq (Levels \cap qPresent))
    <3>1. Q!Searched(i) = {i}
      BY <2>2 DEF Q!Searched
    <3>2. i \in IndexKinds /\ i \notin Levels
      BY <1>4, <1>5
    <3> QED
      BY <3>1, <3>2 DEF Searchable
  <2> QED
    BY <2>1, <2>2
<1>7. /\ qTodo' \subseteq Searchable /\ qTodo' # {}
      /\ qAsk.tool = "text" => qTodo' \cap Levels = {}
  BY <1>1, <1>4, <1>6
<1>8. DOMAIN qSeen = {} /\ DOMAIN qFound = {} /\ IsFiniteSet(DOMAIN qSeen)
  BY <1>1 DEF SearchInv, Placed
<1>9. Placed'
  <2>1. Searchable' = Searchable
    BY <1>1 DEF Searchable
  <2>2. DOMAIN qSeen' = {} /\ DOMAIN qFound' = {} /\ IsFiniteSet(DOMAIN qSeen')
    BY <1>1, <1>8
  <2>3. qAsk.tool = "text" => (qTodo' \cup DOMAIN qFound') \cap Levels = {}
    BY <1>7, <2>2
  <2> QED
    BY <1>1, <1>7, <2>1, <2>2, <2>3 DEF Placed
<1>10. Covered' /\ Windowed' /\ Answered' /\ ProbedTrue'
  BY <1>1, <1>8 DEF Covered, Windowed, Answered, ProbedTrue
<1> QED
  BY <1>2, <1>9, <1>10 DEF SearchInv

\* The search of an index returns what covers the index it read.
LEMMA IndexReturned ==
  ASSUME SearchInv, qPc \in {"rows", "count"}, NEW group, NEW complete, Q!Return(group, complete),
         UNCHANGED <<qIndex, qChanges, qAsk, qShrunk>>,
         DOMAIN qSeen' = DOMAIN qSeen \cup {Q!Current},
         \A i \in DOMAIN qFound : qSeen'[i] = qSeen[i],
         Scored(qSeen'[Q!Current]), qChanges = 0 => qSeen'[Q!Current] = Q!Ranked(Q!Current),
         group \subseteq Keeps(qSeen'[Q!Current]),
         complete /\ ~qShrunk => \A r \in Keeps(qSeen'[Q!Current]) : Covers(group, Q!Needed, r)
  PROVE SearchInv'
<1> DEFINE cur == Q!Current
<1>1. /\ qFound' = Q!With(qFound, cur, [rows |-> group, complete |-> complete])
      /\ qTodo' = qTodo \ {cur} /\ qFetch' = Q!FirstFetch(Q!Needed)
      /\ qPc' = IF qTodo = {cur} THEN "merge" ELSE "rows"
  BY DEF Q!Return
<1>2. /\ DOMAIN qFound' = DOMAIN qFound \cup {cur}
      /\ \A i \in DOMAIN qFound' :
           qFound'[i] = IF i = cur THEN [rows |-> group, complete |-> complete] ELSE qFound[i]
  BY <1>1 DEF Q!With
<1>3. /\ qTodo # {} /\ qTodo \subseteq Searchable /\ DOMAIN qSeen \subseteq DOMAIN qFound \cup {cur}
      /\ DOMAIN qFound \subseteq DOMAIN qSeen /\ DOMAIN qFound \cap qTodo = {}
      /\ IsFiniteSet(DOMAIN qSeen) /\ DOMAIN qSeen \subseteq Searchable
      /\ qAsk.tool = "text" => (qTodo \cup DOMAIN qFound) \cap Levels = {}
  BY DEF SearchInv, Placed
<1>4. cur \in qTodo
  BY <1>3, CurrentIs DEF SearchInv
<1>5. Q!Needed' = Q!Needed /\ Searchable' = Searchable /\ \A R : Keeps(R)' = Keeps(R)
  BY DEF Q!Needed, Searchable, Keeps, Q!Keep
<1>6. \A i : Q!Ranked(i)' = Q!Ranked(i)
  BY DEF Q!Ranked
<1>7. DOMAIN qSeen' = DOMAIN qFound' /\ IsFiniteSet(DOMAIN qSeen')
  BY <1>2, <1>3, FS_AddElement
<1> HIDE DEF cur
<1>8. SearchTypes'
  <2>1. qFetch' \in Nat
    BY <1>1, SearchNumbers DEF SearchInv
  <2> QED
    BY <2>1 DEF SearchInv, SearchTypes
<1>9. Placed'
  <2>1. qTodo' \subseteq Searchable /\ DOMAIN qSeen' \subseteq Searchable
    BY <1>1, <1>2, <1>3, <1>4, <1>7
  <2>2. qAsk.tool = "text" => (qTodo' \cup DOMAIN qFound') \cap Levels = {}
    BY <1>1, <1>2, <1>3, <1>4
  <2>3. DOMAIN qFound' \cap qTodo' = {}
    BY <1>1, <1>2, <1>3
  <2>4. qPc' \in {"rows", "merge"} /\ (qPc' = "rows" => qTodo' # {})
    BY <1>1, <1>3
  <2> QED
    BY <1>5, <1>7, <2>1, <2>2, <2>3, <2>4 DEF Placed
<1>10. Covered'
  <2>1. ASSUME NEW i \in DOMAIN qFound'
        PROVE /\ Scored(qSeen'[i]) /\ (qChanges = 0 => qSeen'[i] = Q!Ranked(i))
              /\ qFound'[i].rows \subseteq Keeps(qSeen'[i])
              /\ qFound'[i].complete /\ ~qShrunk =>
                   \A r \in Keeps(qSeen'[i]) : Covers(qFound'[i].rows, Q!Needed, r)
    <3>1. CASE i = cur
      <4>1. qFound'[i].rows = group /\ qFound'[i].complete = complete
        BY <1>2, <2>1, <3>1
      <4> QED
        BY <3>1, <4>1 DEF cur
    <3>2. CASE i # cur
      <4>1. i \in DOMAIN qFound /\ qFound'[i] = qFound[i] /\ i \in DOMAIN qSeen
        BY <1>2, <1>3, <2>1, <3>2
      <4>2. qSeen'[i] = qSeen[i]
        BY <4>1
      <4> QED
        BY <4>1, <4>2 DEF SearchInv, Covered
    <3> QED
      BY <3>1, <3>2
  <2> QED
    BY <1>5, <1>6, <1>7, <2>1 DEF Covered
<1>11. Windowed' /\ Answered' /\ ProbedTrue'
  BY <1>1 DEF Windowed, Answered, ProbedTrue
<1> QED
  BY <1>8, <1>9, <1>10, <1>11 DEF SearchInv

\* A window is read.
LEMMA WindowRead ==
  ASSUME SearchInv, Q!ReadWindow
  PROVE SearchInv'
<1> DEFINE cur == Q!Current
           n == Q!Needed
<1>1. /\ qPc = "rows" /\ qSeen' = Q!With(qSeen, cur, Q!Ranked(cur))
      /\ UNCHANGED <<qIndex, qChanges, qAsk, qShrunk>>
      /\ \E window \in Q!Windows(Q!Ranked(cur), qFetch) :
           \E group \in Q!Take({r \in window : Q!Keep(r)}, n) :
             IF Cardinality(Q!Owners(group)) >= n THEN Q!Return(group, TRUE)
             ELSE qKept' = group /\ qPc' = "count" /\ UNCHANGED <<qTodo, qFetch, qFound>>
  BY SearchCardinality DEF Q!ReadWindow, Q!env
<1>2. PICK window \in Q!Windows(Q!Ranked(cur), qFetch) :
           \E group \in Q!Take({r \in window : Q!Keep(r)}, n) :
             IF Cardinality(Q!Owners(group)) >= n THEN Q!Return(group, TRUE)
             ELSE qKept' = group /\ qPc' = "count" /\ UNCHANGED <<qTodo, qFetch, qFound>>
  BY <1>1
<1>3. PICK group \in Q!Take({r \in window : Q!Keep(r)}, n) :
             IF Cardinality(Q!Owners(group)) >= n THEN Q!Return(group, TRUE)
             ELSE qKept' = group /\ qPc' = "count" /\ UNCHANGED <<qTodo, qFetch, qFound>>
  BY <1>2
<1>4. /\ qTodo # {} /\ qTodo \subseteq Searchable /\ DOMAIN qSeen \subseteq DOMAIN qFound \cup {cur}
      /\ DOMAIN qFound \subseteq DOMAIN qSeen /\ DOMAIN qFound \cap qTodo = {}
      /\ IsFiniteSet(DOMAIN qSeen) /\ DOMAIN qSeen \subseteq Searchable
      /\ SearchTypes
  BY <1>1 DEF SearchInv, Placed
<1>5. cur \in qTodo
  BY <1>4, CurrentIs
<1>6. Scored(Q!Ranked(cur))
  BY <1>4, <1>5, RankedIs
<1>7. n \in Nat /\ qFetch \in Nat
  BY <1>4, SearchNumbers DEF SearchTypes
<1>8. /\ DOMAIN qSeen' = DOMAIN qSeen \cup {cur} /\ qSeen'[cur] = Q!Ranked(cur)
      /\ \A i \in DOMAIN qSeen : i # cur => qSeen'[i] = qSeen[i]
  BY <1>1 DEF Q!With
<1>9. \A i \in DOMAIN qFound : qSeen'[i] = qSeen[i] /\ i # cur
  BY <1>4, <1>5, <1>8
<1> HIDE DEF cur, n
<1>10. /\ group \subseteq Keeps(Q!Ranked(cur)) /\ Cardinality(Q!Owners(group)) \in Nat
       /\ Cardinality(Q!Owners(group)) < n /\ Cardinality(Q!Ranked(cur)) < qFetch =>
            group = Keeps(Q!Ranked(cur))
  BY <1>6, <1>7, AllTaken DEF Keeps
<1>11. CASE Cardinality(Q!Owners(group)) >= n
  <2>1. \A r \in Keeps(Q!Ranked(cur)) : Covers(group, n, r)
    BY <1>6, <1>7, <1>11, EnoughCover DEF Keeps
  <2>2. PICK complete : complete = TRUE
    OBVIOUS
  <2>3. Q!Return(group, complete)
    BY <1>3, <1>11, <2>2
  <2> QED
    BY <1>1, <1>6, <1>8, <1>9, <1>10, <2>1, <2>3, IndexReturned DEF cur, n
<1>12. CASE ~ (Cardinality(Q!Owners(group)) >= n)
  <2>1. qKept' = group /\ qPc' = "count" /\ UNCHANGED <<qTodo, qFetch, qFound>>
    BY <1>3, <1>12
  <2>2. Cardinality(Q!Owners(group)) < n
    BY <1>7, <1>10, <1>12
  <2>3. /\ Q!Current' = cur /\ Searchable' = Searchable /\ n' = n
        /\ \A R : Keeps(R)' = Keeps(R)
    BY <1>1, <2>1, SameCall DEF cur, n
  <2>4. \A i : Q!Ranked(i)' = Q!Ranked(i)
    BY <1>1 DEF Q!Ranked
  <2>5. SearchTypes'
    BY <1>1, <1>4, <2>1 DEF SearchTypes
  <2>6. Placed'
    <3>1. IsFiniteSet(DOMAIN qSeen')
      BY <1>4, <1>8, FS_AddElement
    <3>2. qAsk.tool = "text" => (qTodo \cup DOMAIN qFound) \cap Levels = {}
      BY DEF SearchInv, Placed
    <3> QED
      BY <1>1, <1>4, <1>5, <1>8, <2>1, <2>3, <3>1, <3>2 DEF Placed
  <2>7. Covered'
    <3>1. ASSUME NEW i \in DOMAIN qSeen'
          PROVE Scored(qSeen'[i]) /\ (qChanges = 0 => qSeen'[i] = Q!Ranked(i))
      BY <1>6, <1>8 DEF SearchInv, Covered
    <3>2. ASSUME NEW i \in DOMAIN qFound
          PROVE /\ qFound[i].rows \subseteq Keeps(qSeen'[i])
                /\ qFound[i].complete /\ ~qShrunk =>
                     \A r \in Keeps(qSeen'[i]) : Covers(qFound[i].rows, n, r)
      BY <1>9 DEF SearchInv, Covered, n
    <3> QED
      BY <1>1, <2>1, <2>3, <2>4, <3>1, <3>2 DEF Covered, n
  <2>8. Windowed'
    BY <1>1, <1>8, <1>10, <2>1, <2>2, <2>3, <2>4 DEF Windowed
  <2>9. Answered' /\ ProbedTrue'
    BY <2>1 DEF Answered, ProbedTrue
  <2> QED
    BY <2>5, <2>6, <2>7, <2>8, <2>9 DEF SearchInv
<1> QED
  BY <1>11, <1>12

\* Its candidates are counted.
LEMMA WindowCounted ==
  ASSUME SearchInv, Q!Count
  PROVE SearchInv'
<1> DEFINE cur == Q!Current
<1>1. /\ qPc = "count" /\ UNCHANGED <<qIndex, qChanges, qAsk, qSeen, qShrunk>>
      /\ \/ Cardinality(Q!Ranked(cur)) < qFetch /\ Q!Return(qKept, TRUE)
         \/ Q!Return(qKept, FALSE)
         \/ qFetch' = Q!Wider(qFetch) /\ qPc' = "rows" /\ UNCHANGED <<qTodo, qFound, qKept>>
  BY SearchCardinality DEF Q!Count, Q!env
<1>2. /\ qTodo # {} /\ qTodo \subseteq Searchable /\ DOMAIN qFound \subseteq DOMAIN qSeen
      /\ SearchTypes /\ cur \in DOMAIN qSeen
  BY <1>1 DEF SearchInv, Placed
<1>3. cur \in qTodo
  BY <1>2, CurrentIs
<1>4. /\ qKept \subseteq Keeps(qSeen[cur])
      /\ Cardinality(qSeen[cur]) < qFetch => Keeps(qSeen[cur]) \subseteq qKept
      /\ ~qShrunk => qSeen[cur] \subseteq Q!Ranked(cur)
      /\ Scored(qSeen[cur]) /\ (qChanges = 0 => qSeen[cur] = Q!Ranked(cur))
  BY <1>1, <1>2 DEF SearchInv, Windowed, Covered
<1>5. DOMAIN qSeen' = DOMAIN qSeen \cup {cur} /\ qSeen' = qSeen
  BY <1>1, <1>2
<1>6. CASE Cardinality(Q!Ranked(cur)) < qFetch /\ Q!Return(qKept, TRUE)
  <2>1. ASSUME ~qShrunk PROVE Cardinality(qSeen[cur]) < qFetch
    <3>1. Scored(Q!Ranked(cur))
      BY <1>2, <1>3, RankedIs
    <3>2. qSeen[cur] \in SUBSET Q!Ranked(cur)
      BY <1>4, <2>1
    <3>3. Cardinality(qSeen[cur]) <= Cardinality(Q!Ranked(cur))
          /\ Cardinality(qSeen[cur]) \in Nat /\ Cardinality(Q!Ranked(cur)) \in Nat
      BY <3>1, <3>2, FS_Subset, FS_CardinalityType DEF Scored
    <3>4. qFetch \in Nat
      BY <1>2 DEF SearchTypes
    <3> QED
      BY <1>6, <3>3, <3>4
  <2>2. ~qShrunk => \A r \in Keeps(qSeen[cur]) : Covers(qKept, Q!Needed, r)
    BY <1>4, <2>1 DEF Covers
  <2>3. PICK complete : complete = TRUE
    OBVIOUS
  <2>4. Q!Return(qKept, complete)
    BY <1>6, <2>3
  <2> QED
    BY <1>1, <1>4, <1>5, <2>2, <2>4, IndexReturned
<1>7. CASE Q!Return(qKept, FALSE)
  <2>1. PICK complete : complete = FALSE
    OBVIOUS
  <2>2. Q!Return(qKept, complete)
    BY <1>7, <2>1
  <2> QED
    BY <1>1, <1>4, <1>5, <2>1, <2>2, IndexReturned
<1>8. CASE qFetch' = Q!Wider(qFetch) /\ qPc' = "rows" /\ UNCHANGED <<qTodo, qFound, qKept>>
  <2>1. /\ Q!Current' = cur /\ Searchable' = Searchable /\ Q!Needed' = Q!Needed
        /\ \A R : Keeps(R)' = Keeps(R)
    BY <1>1, <1>8, SameCall
  <2>2. \A i : Q!Ranked(i)' = Q!Ranked(i)
    BY <1>1 DEF Q!Ranked
  <2>3. SearchTypes'
    <3>1. qFetch' \in Nat
      BY <1>2, <1>8, SearchNumbers
    <3> QED
      BY <1>1, <1>2, <3>1 DEF SearchTypes
  <2>4. Placed'
    BY <1>1, <1>8, <2>1 DEF SearchInv, Placed
  <2>5. Covered'
    BY <1>1, <1>8, <2>1, <2>2 DEF SearchInv, Covered
  <2>6. Windowed' /\ Answered' /\ ProbedTrue'
    BY <1>8 DEF Windowed, Answered, ProbedTrue
  <2> QED
    BY <2>3, <2>4, <2>5, <2>6 DEF SearchInv
<1> QED
  BY <1>1, <1>6, <1>7, <1>8

\* A family of finite sets of rows, finite itself, is a finite set of rows.
LEMMA UnionScored ==
  ASSUME NEW D, IsFiniteSet(D), NEW f, \A i \in D : Scored(f[i])
  PROVE Scored(UNION {f[i] : i \in D})
<1> DEFINE sets == {f[i] : i \in D}
           g == [i \in D |-> f[i]]
<1>1. g \in Surjection(D, sets)
  BY DEF Surjection
<1>2. IsFiniteSet(sets)
  BY <1>1, FS_Surjection
<1>3. \A U \in sets : IsFiniteSet(U)
  BY DEF Scored
<1>4. IsFiniteSet(UNION sets)
  BY <1>2, <1>3, FS_UNION
<1> QED
  BY <1>4 DEF Scored

\* What was found and what it was found in are finite sets of rows.
LEMMA FoundAre ==
  ASSUME SearchInv
  PROVE /\ Scored(Q!Truth) /\ Scored(Q!LevelRows) /\ Scored(Q!OtherRows)
        /\ \A i \in DOMAIN qFound : qFound[i].rows \subseteq Keeps(qSeen[i])
<1>1. /\ IsFiniteSet(DOMAIN qSeen) /\ DOMAIN qFound \subseteq DOMAIN qSeen
      /\ \A i \in DOMAIN qSeen : Scored(qSeen[i])
      /\ \A i \in DOMAIN qFound : qFound[i].rows \subseteq Keeps(qSeen[i])
  BY DEF SearchInv, Placed, Covered
<1> DEFINE all == UNION {qSeen[i] : i \in DOMAIN qSeen}
<1>2. Scored(all)
  BY <1>1, UnionScored
<1>3. /\ Q!Truth \in SUBSET all /\ Q!LevelRows \in SUBSET all /\ Q!OtherRows \in SUBSET all
  <2>1. \A i \in DOMAIN qFound : qFound[i].rows \subseteq all
    BY <1>1 DEF Keeps
  <2> HIDE DEF all
  <2>2. Q!LevelRows \in SUBSET all /\ Q!OtherRows \in SUBSET all
    BY <2>1 DEF Q!LevelRows, Q!OtherRows
  <2> QED
    BY <2>2 DEF Q!Truth, all
<1> HIDE DEF all
<1> QED
  BY <1>1, <1>2, <1>3, FS_Subset DEF Scored

\* The hits are ranked.
LEMMA HitsMerged ==
  ASSUME SearchInv, Q!Merge
  PROVE SearchInv'
<1> DEFINE n == Q!Needed
<1>1. /\ qPc = "merge" /\ qPc' = IF qAsk.tool = "text" THEN "words" ELSE "done"
      /\ UNCHANGED <<qIndex, qChanges, qAsk, qTodo, qFetch, qKept, qFound, qSeen, qShrunk>>
      /\ \E taken \in Q!Take(Q!LevelRows, n) :
           qHits' \in Q!HitLists(Q!Above(taken \cup Q!OtherRows), FALSE)
  BY DEF Q!Merge, Q!env, Q!call
<1>2. PICK taken \in Q!Take(Q!LevelRows, n) :
           qHits' \in Q!HitLists(Q!Above(taken \cup Q!OtherRows), FALSE)
  BY <1>1
<1>3. /\ Scored(Q!Truth) /\ Scored(Q!LevelRows) /\ Scored(Q!OtherRows)
      /\ \A i \in DOMAIN qFound : qFound[i].rows \subseteq Keeps(qSeen[i])
  BY FoundAre
<1>4. SearchTypes /\ DOMAIN qSeen = DOMAIN qFound /\ n \in Nat /\ n # 0
  BY <1>1, SearchNumbers DEF SearchInv, Placed
<1>5. taken \subseteq Q!LevelRows /\ Scored(taken)
  BY <1>2, <1>3, <1>4, TakenAre
<1> DEFINE both == taken \cup Q!OtherRows
           U == Q!Above(both)
<1>6. Scored(both)
  <2>1. IsFiniteSet(both)
    BY <1>3, <1>5, FS_Union DEF Scored
  <2> QED
    BY <1>3, <1>5, <2>1 DEF Scored
<1>7. U = {r \in both : r.score >= qAsk.minScore}
  BY DEF Q!Above
<1>8. U \subseteq Q!Truth
  <2>1. ASSUME NEW r \in both PROVE \E i \in DOMAIN qFound : r \in qFound[i].rows
    BY <1>5, <2>1 DEF Q!LevelRows, Q!OtherRows
  <2>2. ASSUME NEW r \in U PROVE r \in Q!Truth
    <3>1. PICK i \in DOMAIN qFound : r \in qFound[i].rows
      BY <1>7, <2>1, <2>2
    <3>2. r \in qSeen[i] /\ Q!Keep(r) /\ i \in DOMAIN qSeen
      BY <1>3, <1>4, <3>1 DEF Keeps
    <3> QED
      BY <1>7, <2>2, <3>2 DEF Q!Truth
  <2> QED
    BY <2>2
<1> HIDE DEF both, n
<1>9. ASSUME ~Q!Truncated, ~qShrunk, NEW r \in Q!Truth PROVE Covers(U, n, r)
  <2>1. PICK i \in DOMAIN qSeen : r \in qSeen[i] /\ Q!Keep(r) /\ r.score >= qAsk.minScore
    BY <1>9 DEF Q!Truth
  <2>2. r \in Keeps(qSeen[i]) /\ i \in DOMAIN qFound /\ qFound[i].complete
    BY <1>4, <1>9, <2>1 DEF Keeps, Q!Truncated
  <2>3. Covers(qFound[i].rows, n, r)
    BY <1>9, <2>2 DEF SearchInv, Covered, n
  <2>4. r.score \in 0..10 /\ qAsk.minScore \in Int
    BY <1>3, <1>4, <1>9 DEF Scored, SearchTypes
  <2>5. Covers(both, n, r)
    <3>1. CASE i \in Levels
      <4>1. qFound[i].rows \subseteq Q!LevelRows
        BY <2>2, <3>1 DEF Q!LevelRows
      <4>2. Covers(Q!LevelRows, n, r)
        BY <2>3, <4>1, MoreCover
      <4>3. Covers(taken, n, r)
        <5>1. CASE r \in Q!LevelRows
          BY <1>2, <1>3, <1>4, <5>1, TakenCover DEF n
        <5>2. CASE Crowd(Q!LevelRows, n, r.score)
          <6>1. r.score \in Int
            BY <2>4
          <6>2. Crowd(taken, n, r.score)
            BY <1>2, <1>3, <1>4, <5>2, <6>1, TakenCrowd DEF n
          <6> QED
            BY <6>2 DEF Covers
        <5> QED
          BY <4>2, <5>1, <5>2 DEF Covers
      <4> QED
        BY <4>3, MoreCover DEF both
    <3>2. CASE i \notin Levels
      <4>1. qFound[i].rows \subseteq both
        BY <2>2, <3>2 DEF Q!OtherRows, both
      <4> QED
        BY <2>3, <4>1, MoreCover
    <3> QED
      BY <3>1, <3>2
  <2> QED
    BY <1>6, <1>7, <2>1, <2>4, <2>5, AboveCovers
<1>10. qHits' \in Q!HitLists(U, FALSE)
  BY <1>2 DEF both
<1>11. Scored(U)
  <2>1. U \in SUBSET both
    BY <1>7
  <2> QED
    BY <1>6, <2>1, FS_Subset DEF Scored
<1> HIDE DEF U
<1>12. ~Q!Truncated /\ ~qShrunk => BestPage(qHits', Q!Truth, n)
  BY <1>3, <1>4, <1>8, <1>9, <1>10, PageOfCover DEF n
<1> DEFINE m == Cardinality(Q!Owners(U))
<1>13. PICK fuzzy : fuzzy = FALSE
  OBVIOUS
<1>14. /\ m \in Nat /\ DOMAIN qHits' = 1..m /\ qHits' = [k \in 1..m |-> qHits'[k]]
       /\ \A k \in 1..m : qHits'[k].entity \in Q!Owners(U) /\ qHits'[k].fuzzy = fuzzy
       /\ \A j, k \in 1..m : j < k => /\ qHits'[j].entity # qHits'[k].entity
                                      /\ qHits'[k].score <= qHits'[j].score
  <2>1. qHits' \in Q!HitLists(U, fuzzy)
    BY <1>10, <1>13
  <2> QED
    BY <1>11, <2>1, HitsAre
<1>15. InOrder(qHits') /\ ExactHits(qHits') = DOMAIN qHits'
  BY <1>13, <1>14 DEF InOrder, ExactHits
<1>16. \E S : qHits' \in Seq(S)
  <2> DEFINE S == {qHits'[k] : k \in 1..m}
  <2>1. qHits' \in [1..m -> S]
    BY <1>14
  <2> HIDE DEF S, m
  <2>2. qHits' \in Seq(S)
    BY <1>14, <2>1
  <2> QED
    BY <2>2
<1>17. /\ Q!LevelRows' = Q!LevelRows /\ Q!OtherRows' = Q!OtherRows
       /\ Q!Truncated' = Q!Truncated /\ Q!Needed' = n /\ Q!Truth' = Q!Truth
       /\ \A R : Q!Above(R)' = Q!Above(R)
  BY <1>1 DEF Q!LevelRows, Q!OtherRows, Q!Truncated, Q!Needed, Q!Truth, Q!Keep, Q!Above, n
<1>18. Q!Owners(U) \subseteq Q!Owners(Q!Above(Q!LevelRows \cup Q!OtherRows))
  BY <1>5 DEF Q!Owners, Q!Above, U, both
<1>19. Answered'
  <2>1. \A k \in ExactHits(qHits') :
          qHits'[k].entity \in Q!Owners(Q!Above(Q!LevelRows \cup Q!OtherRows))
    BY <1>14, <1>15, <1>18
  <2>2. Q!Above(Q!LevelRows \cup Q!OtherRows)' = Q!Above(Q!LevelRows \cup Q!OtherRows)
    BY <1>17 DEF Q!Above
  <2> HIDE DEF m
  <2> QED
    BY <1>1, <1>12, <1>15, <1>16, <1>17, <2>1, <2>2 DEF Answered
<1>20. SearchTypes' /\ Placed' /\ Covered' /\ Windowed' /\ ProbedTrue'
  <2>1. SearchTypes'
    BY <1>1, <1>4 DEF SearchTypes
  <2>2. /\ Q!Current' = Q!Current /\ Searchable' = Searchable
        /\ \A R : Keeps(R)' = Keeps(R)
    BY <1>1, SameCall
  <2>3. \A i : Q!Ranked(i)' = Q!Ranked(i)
    BY <1>1 DEF Q!Ranked
  <2>4. Placed'
    BY <1>1, <1>4, <2>2 DEF SearchInv, Placed
  <2>5. Covered'
    BY <1>1, <1>17, <2>2, <2>3 DEF SearchInv, Covered, n
  <2>6. Windowed' /\ ProbedTrue'
    BY <1>1 DEF Windowed, ProbedTrue
  <2> QED
    BY <2>1, <2>4, <2>5, <2>6
<1> QED
  BY <1>19, <1>20 DEF SearchInv

\* A search for a word says no when the index has it in no row of the project, unless
\* it found no end; and then only.
LEMMA FindsIs ==
  ASSUME SearchTypes, NEW i \in IndexKinds, NEW w
  PROVE /\ "no" \in Q!Finds(i, w) =>
             /\ Q!Finds(i, w) = {"no"}
             /\ \A r \in qIndex[i] : w \in r.words => r.owner \notin Mine
        /\ (\A r \in qIndex[i] : w \in r.words => r.owner \notin Mine) =>
             "yes" \notin Q!Finds(i, w)
<1> DEFINE group == {r \in qIndex[i] : w \in r.words}
           said(window) == IF Q!Owners(window) \cap Mine # {} THEN "yes"
                           ELSE IF Cardinality(group) < Ceiling THEN "no" ELSE "unknown"
<1>1. Q!Finds(i, w) = {said(window) : window \in Q!Windows(group, Ceiling)}
  BY SearchCardinality DEF Q!Finds
<1>2. Scored(group)
  <2>1. group \in SUBSET qIndex[i] /\ Scored(qIndex[i])
    BY DEF SearchTypes
  <2> QED
    BY <2>1, FS_Subset DEF Scored
<1>3. Ceiling \in Nat
  BY SearchNumbers
<1> HIDE DEF group
<1>4. \A window \in Q!Windows(group, Ceiling) :
        window \subseteq group /\ (Cardinality(group) < Ceiling => window = group)
  BY <1>2, <1>3, WindowIs
<1>5. ASSUME "no" \in Q!Finds(i, w)
      PROVE Q!Finds(i, w) = {"no"} /\ Q!Owners(group) \cap Mine = {}
  <2>1. PICK window \in Q!Windows(group, Ceiling) : said(window) = "no"
    BY <1>1, <1>5
  <2>2. Q!Owners(window) \cap Mine = {} /\ Cardinality(group) < Ceiling
    BY <2>1
  <2>3. \A v \in Q!Windows(group, Ceiling) : v = group
    BY <1>4, <2>2
  <2>4. Q!Owners(group) \cap Mine = {}
    BY <2>1, <2>2, <2>3
  <2>5. \A v \in Q!Windows(group, Ceiling) : said(v) = "no"
    BY <2>2, <2>3, <2>4
  <2> QED
    BY <1>1, <1>5, <2>4, <2>5
<1>6. ASSUME Q!Owners(group) \cap Mine = {}, "yes" \in Q!Finds(i, w) PROVE FALSE
  <2>1. PICK window \in Q!Windows(group, Ceiling) : said(window) = "yes"
    BY <1>1, <1>6
  <2>2. Q!Owners(window) \cap Mine # {}
    BY <2>1
  <2> QED
    BY <1>4, <1>6, <2>2 DEF Q!Owners
<1>7. (Q!Owners(group) \cap Mine = {}) <=> \A r \in qIndex[i] : w \in r.words => r.owner \notin Mine
  BY DEF Q!Owners, group
<1> QED
  BY <1>5, <1>6, <1>7

\* A probe that says no is right, and one of a word the project does not have never
\* says yes.
LEMMA ProbeIs ==
  ASSUME SearchTypes, NEW w
  PROVE /\ "no" \in Q!IsIndexed(w) => ~Held(w)
        /\ ~Held(w) => "yes" \notin Q!IsIndexed(w)
<1> DEFINE none(i) == \A r \in qIndex[i] : w \in r.words => r.owner \notin Mine
<1>1. \A i \in IndexKinds : /\ "no" \in Q!Finds(i, w) => Q!Finds(i, w) = {"no"} /\ none(i)
                            /\ none(i) => "yes" \notin Q!Finds(i, w)
  BY FindsIs
<1>2. ~Held(w) <=> none("code") /\ none("symbol") /\ none("summary")
  BY DEF Held, IndexKinds
<1> HIDE DEF none
<1>3. /\ "no" \in Q!Finds("code", w) => Q!Finds("code", w) = {"no"} /\ none("code")
      /\ none("code") => "yes" \notin Q!Finds("code", w)
  BY <1>1 DEF IndexKinds
<1>4. /\ "no" \in Q!Finds("symbol", w) => Q!Finds("symbol", w) = {"no"} /\ none("symbol")
      /\ none("symbol") => "yes" \notin Q!Finds("symbol", w)
  BY <1>1 DEF IndexKinds
<1>5. /\ "no" \in Q!Finds("summary", w) => Q!Finds("summary", w) = {"no"} /\ none("summary")
      /\ none("summary") => "yes" \notin Q!Finds("summary", w)
  BY <1>1 DEF IndexKinds
<1>6. Q!IsIndexed(w) = IF Q!Finds("code", w) # {"no"} THEN Q!Finds("code", w)
                       ELSE IF Q!Finds("symbol", w) # {"no"} THEN Q!Finds("symbol", w)
                       ELSE Q!Finds("summary", w)
  BY DEF Q!IsIndexed
<1> QED
  BY <1>2, <1>3, <1>4, <1>5, <1>6

\* A word taken for present is, or it is a phrase.
LEMMA ShownIs ==
  ASSUME SearchInv, qPc = "words", qAsk.tool = "text", qChanges = 0,
         NEW shown \in Q!Shown, NEW w \in shown
  PROVE Held(w) \/ w \in Phrases
<1>1. DOMAIN qFound \cap Levels = {} /\ DOMAIN qSeen = DOMAIN qFound /\ DOMAIN qSeen \subseteq Searchable
  BY DEF SearchInv, Placed
<1>2. ASSUME NEW r \in Q!OtherRows
      PROVE /\ r.owner \in Mine /\ r.words # {} /\ r.words \subseteq Words
            /\ w \in r.words => Held(w)
  <2>1. PICK i \in DOMAIN qFound \ Levels : r \in qFound[i].rows
    BY DEF Q!OtherRows
  <2>2. r \in Keeps(qSeen[i]) /\ qSeen[i] = Q!Ranked(i)
    BY <1>1, <2>1 DEF SearchInv, Covered
  <2>3. i \in IndexKinds /\ r \in qIndex[i] /\ r.words # {}
    BY <1>1, <2>1, <2>2, RankedIs DEF Keeps, SearchInv
  <2>4. r.owner \in Mine
    BY <2>2 DEF Keeps, Q!Keep
  <2> QED
    BY <2>3, <2>4 DEF Held, SearchInv, SearchTypes
<1>3. CASE Q!Cardinality(Words) = 1 /\ qHits # <<>>
  <2>1. shown = Words
    BY <1>3 DEF Q!Shown
  <2>2. PICK v : Words = {v}
    BY <1>3, SearchCardinality, SearchAssumption, FS_Singleton
  <2>3. /\ ExactHits(qHits) = DOMAIN qHits /\ \E S : qHits \in Seq(S)
        /\ \A k \in ExactHits(qHits) :
             qHits[k].entity \in Q!Owners(Q!Above(Q!LevelRows \cup Q!OtherRows))
    BY DEF SearchInv, Answered
  <2>4. 1 \in DOMAIN qHits
    BY <1>3, <2>3
  <2>5. PICK r \in Q!LevelRows \cup Q!OtherRows : TRUE
    BY <2>3, <2>4 DEF Q!Owners, Q!Above
  <2>6. Q!LevelRows = {}
    BY <1>1 DEF Q!LevelRows
  <2> QED
    BY <1>2, <2>1, <2>2, <2>5, <2>6
<1>4. CASE ~ (Q!Cardinality(Words) = 1 /\ qHits # <<>>)
  <2>1. PICK r \in Q!HitRows : w \in r.words \/ (w \in Phrases /\ r.apart)
    BY <1>4 DEF Q!Shown
  <2>2. r \in Q!OtherRows
    BY DEF Q!HitRows, Q!Above
  <2> QED
    BY <1>2, <2>1, <2>2
<1> QED
  BY <1>3, <1>4

\* The words are probed.
LEMMA WordsProbed ==
  ASSUME SearchInv, Q!ProbeWords
  PROVE SearchInv'
<1>1. PICK shown \in Q!Shown : \E failed \in SUBSET (Q!Probed \ shown) :
        \E says \in [Q!Probed \ (shown \cup failed) -> {"yes", "no", "unknown"}] :
          /\ \A w \in Q!Probed \ (shown \cup failed) : says[w] \in Q!IsIndexed(w)
          /\ qAbsent' = {w \in Q!Probed \ (shown \cup failed) : says[w] = "no"}
          /\ qUnsure' = failed \cup {w \in Q!Probed \ (shown \cup failed) : says[w] = "unknown"}
                               \cup (Words \ (Q!Probed \cup shown))
          /\ qSkipped' = shown
  BY DEF Q!ProbeWords
<1>2. PICK failed \in SUBSET (Q!Probed \ shown) :
        \E says \in [Q!Probed \ (shown \cup failed) -> {"yes", "no", "unknown"}] :
          /\ \A w \in Q!Probed \ (shown \cup failed) : says[w] \in Q!IsIndexed(w)
          /\ qAbsent' = {w \in Q!Probed \ (shown \cup failed) : says[w] = "no"}
          /\ qUnsure' = failed \cup {w \in Q!Probed \ (shown \cup failed) : says[w] = "unknown"}
                               \cup (Words \ (Q!Probed \cup shown))
  BY <1>1
<1> DEFINE asked == Q!Probed \ (shown \cup failed)
<1>3. PICK says \in [asked -> {"yes", "no", "unknown"}] :
          /\ \A w \in asked : says[w] \in Q!IsIndexed(w)
          /\ qAbsent' = {w \in asked : says[w] = "no"}
          /\ qUnsure' = failed \cup {w \in asked : says[w] = "unknown"}
                               \cup (Words \ (Q!Probed \cup shown))
  BY <1>2
<1> HIDE DEF asked
<1>4. /\ qPc = "words" /\ qPc' \in {"done", "fuzzy"}
      /\ UNCHANGED <<qIndex, qChanges, qAsk, qTodo, qFetch, qKept, qFound, qSeen, qShrunk, qHits>>
  BY DEF Q!ProbeWords, Q!env, Q!call
<1>5. SearchTypes' /\ Placed' /\ Covered' /\ Windowed' /\ Answered'
  <2>1. SearchTypes'
    BY <1>4 DEF SearchInv, SearchTypes
  <2>2. /\ Q!Current' = Q!Current /\ Searchable' = Searchable /\ Q!Needed' = Q!Needed
        /\ \A R : Keeps(R)' = Keeps(R)
    BY <1>4, SameCall
  <2>3. \A i : Q!Ranked(i)' = Q!Ranked(i)
    BY <1>4 DEF Q!Ranked
  <2>4. Placed'
    BY <1>4, <2>2 DEF SearchInv, Placed
  <2>5. Covered'
    BY <1>4, <2>2, <2>3 DEF SearchInv, Covered
  <2>6. Windowed'
    BY <1>4 DEF Windowed
  <2>7. /\ Q!LevelRows' = Q!LevelRows /\ Q!OtherRows' = Q!OtherRows
        /\ Q!Truncated' = Q!Truncated /\ Q!Truth' = Q!Truth
    BY <1>4 DEF Q!LevelRows, Q!OtherRows, Q!Truncated, Q!Truth, Q!Keep
  <2>8. Q!Above(Q!LevelRows \cup Q!OtherRows)' = Q!Above(Q!LevelRows \cup Q!OtherRows)
    BY <1>4, <2>7 DEF Q!Above
  <2>9. Answered'
    BY <1>4, <2>2, <2>7, <2>8 DEF SearchInv, Answered
  <2> QED
    BY <2>1, <2>4, <2>5, <2>6, <2>9
<1>6. ProbedTrue'
  <2> SUFFICES ASSUME qAsk.tool = "text", qChanges = 0, NEW w \in Words
               PROVE /\ w \in qAbsent' => ~Held(w)
                     /\ ~Held(w) /\ w \notin qUnsure' /\ w \notin qSkipped' \cap Phrases =>
                          w \in qAbsent'
    BY <1>4 DEF ProbedTrue, Held
  <2>1. /\ "no" \in Q!IsIndexed(w) => ~Held(w)
        /\ ~Held(w) => "yes" \notin Q!IsIndexed(w)
    BY ProbeIs DEF SearchInv
  <2>2. w \in qAbsent' => ~Held(w)
    BY <1>3, <2>1
  <2>3. ASSUME ~Held(w), w \notin qUnsure', w \notin qSkipped' \cap Phrases
        PROVE w \in qAbsent'
    <3>1. w \notin shown
      BY <1>1, <1>4, <2>3, ShownIs
    <3>2. w \in asked
      BY <1>3, <2>3, <3>1 DEF asked
    <3>3. says[w] \in {"no", "unknown"}
      BY <1>3, <2>1, <2>3, <3>2
    <3> QED
      BY <1>3, <2>3, <3>2, <3>3
  <2> QED
    BY <2>2, <2>3
<1> QED
  BY <1>5, <1>6 DEF SearchInv

\* An absent word is retried.
LEMMA WordRetried ==
  ASSUME SearchInv, Q!Fuzzy
  PROVE SearchInv'
<1> DEFINE n == Q!Needed
<1>1. /\ qPc = "fuzzy" /\ qPc' \in {"done", "fuzzy"}
      /\ UNCHANGED <<qIndex, qChanges, qAsk, qTodo, qFetch, qKept, qFound, qSeen, qShrunk,
                     qAbsent, qUnsure, qSkipped>>
      /\ \/ qHits' = qHits
         \/ \E w : \E window \in Q!Windows({r \in qIndex["code"] : w \in r.near}, Ceiling) :
              \E group \in Q!Take({r \in window : Q!Keep(r)}, n) :
                \E more \in Q!HitLists({r \in Q!Above(group) : r.owner \notin Q!Named}, TRUE) :
                  qHits' = qHits \o more
  BY DEF Q!Fuzzy, Q!env, Q!call
<1>2. SearchTypes /\ n \in Nat /\ Ceiling \in Nat
  BY SearchNumbers DEF SearchInv
<1>3. InOrder(qHits) /\ \E S : qHits \in Seq(S)
  BY <1>1 DEF SearchInv, Answered
<1>4. /\ InOrder(qHits') /\ \E S : qHits' \in Seq(S)
      /\ ExactHits(qHits') = ExactHits(qHits)
      /\ \A k \in ExactHits(qHits) : qHits'[k] = qHits[k]
  <2>1. CASE qHits' = qHits
    BY <1>3, <2>1
  <2>2. ASSUME NEW w, NEW window \in Q!Windows({r \in qIndex["code"] : w \in r.near}, Ceiling),
               NEW group \in Q!Take({r \in window : Q!Keep(r)}, n),
               NEW more \in Q!HitLists({r \in Q!Above(group) : r.owner \notin Q!Named}, TRUE),
               qHits' = qHits \o more
        PROVE /\ InOrder(qHits') /\ \E S : qHits' \in Seq(S)
              /\ ExactHits(qHits') = ExactHits(qHits)
              /\ \A k \in ExactHits(qHits) : qHits'[k] = qHits[k]
    <3> DEFINE near == {r \in qIndex["code"] : w \in r.near}
               new == {r \in Q!Above(group) : r.owner \notin Q!Named}
    <3>1. Scored(near)
      <4>1. near \in SUBSET qIndex["code"] /\ Scored(qIndex["code"])
        BY <1>2 DEF SearchTypes, IndexKinds
      <4> QED
        BY <4>1, FS_Subset DEF Scored
    <3>2. window \in Q!Windows(near, Ceiling)
      OBVIOUS
    <3> HIDE DEF near
    <3>3. Scored(group)
      BY <1>2, <3>1, <3>2, AllTaken
    <3>4. Scored(new)
      <4>1. new \in SUBSET group
        BY DEF Q!Above
      <4> QED
        BY <3>3, <4>1, FS_Subset DEF Scored
    <3>5. \A r \in new : r.owner \notin {qHits[k].entity : k \in DOMAIN qHits}
      BY DEF Q!Named
    <3>6. more \in Q!HitLists(new, TRUE)
      OBVIOUS
    <3> HIDE DEF new
    <3>7. PICK S : qHits \in Seq(S)
      BY <1>3
    <3> QED
      BY <1>3, <2>2, <3>4, <3>5, <3>6, <3>7, RetryAppends
  <2> QED
    BY <1>1, <2>1, <2>2
<1>5. /\ Q!Current' = Q!Current /\ Searchable' = Searchable /\ Q!Needed' = n
      /\ \A R : Keeps(R)' = Keeps(R)
  BY <1>1, SameCall
<1>6. \A i : Q!Ranked(i)' = Q!Ranked(i)
  BY <1>1 DEF Q!Ranked
<1>7. SearchTypes' /\ Placed' /\ Covered' /\ Windowed'
  <2>1. SearchTypes'
    BY <1>1, <1>2 DEF SearchTypes
  <2>2. Placed'
    BY <1>1, <1>5 DEF SearchInv, Placed
  <2>3. Covered'
    BY <1>1, <1>5, <1>6 DEF SearchInv, Covered
  <2> QED
    BY <1>1, <2>1, <2>2, <2>3 DEF Windowed
<1>8. Answered'
  <2>1. /\ Q!LevelRows' = Q!LevelRows /\ Q!OtherRows' = Q!OtherRows
        /\ Q!Truncated' = Q!Truncated /\ Q!Truth' = Q!Truth
    BY <1>1 DEF Q!LevelRows, Q!OtherRows, Q!Truncated, Q!Truth, Q!Keep
  <2>2. Q!Above(Q!LevelRows \cup Q!OtherRows)' = Q!Above(Q!LevelRows \cup Q!OtherRows)
    BY <1>1, <2>1 DEF Q!Above
  <2>3. /\ PageHits(qHits', n) = PageHits(qHits, n) /\ ShownIn(qHits', n) = ShownIn(qHits, n)
        /\ \A k \in PageHits(qHits, n) : qHits'[k] = qHits[k]
    BY <1>4 DEF PageHits, ShownIn
  <2>4. BestPage(qHits, Q!Truth, n) => BestPage(qHits', Q!Truth, n)
    BY <1>4, <2>3 DEF BestPage
  <2>5. /\ \A k \in ExactHits(qHits) :
             qHits[k].entity \in Q!Owners(Q!Above(Q!LevelRows \cup Q!OtherRows))
        /\ ~Q!Truncated /\ ~qShrunk => BestPage(qHits, Q!Truth, n)
    BY <1>1 DEF SearchInv, Answered
  <2>6. \A k \in ExactHits(qHits') :
          qHits'[k].entity \in Q!Owners(Q!Above(Q!LevelRows \cup Q!OtherRows))
    BY <1>4, <2>5
  <2>7. ~Q!Truncated' /\ ~qShrunk' => BestPage(qHits', Q!Truth, n)
    BY <1>1, <2>1, <2>4, <2>5
  <2> HIDE DEF n
  <2> QED
    BY <1>1, <1>4, <1>5, <2>1, <2>2, <2>6, <2>7 DEF Answered
<1>9. ProbedTrue'
  BY <1>1 DEF SearchInv, ProbedTrue, Held
<1> QED
  BY <1>7, <1>8, <1>9 DEF SearchInv

\* It begins so.
LEMMA SearchStarts ==
  ASSUME Q!Init
  PROVE SearchInv
<1>1. PICK world \in Worlds : /\ qIndex = world.index /\ qAsk = world.ask
  BY DEF Q!Init
<1>2. /\ qPc = "plan" /\ qTodo = {} /\ qFetch = 0 /\ DOMAIN qFound = {} /\ DOMAIN qSeen = {}
      /\ qChanges = 0
  BY DEF Q!Init
<1>3. SearchTypes
  BY <1>1, <1>2, SearchAssumption DEF SearchTypes, IndexKinds, Scored, Q!Tools
<1>4. Placed
  BY <1>2, FS_EmptySet DEF Placed
<1>5. Covered /\ Windowed /\ Answered /\ ProbedTrue
  BY <1>2 DEF Covered, Windowed, Answered, ProbedTrue
<1> QED
  BY <1>3, <1>4, <1>5 DEF SearchInv

\* Every step keeps it,
LEMMA SearchSteps ==
  ASSUME SearchInv, Q!Next
  PROVE SearchInv'
<1>1. ASSUME NEW k \in DOMAIN Q!At(qAsk.tool), NEW r, Q!Delete(Q!At(qAsk.tool)[k], r)
      PROVE SearchInv'
  BY <1>1, ToolIndexes, RowDeleted DEF SearchInv, SearchTypes
<1>2. ASSUME NEW k \in DOMAIN Q!At(qAsk.tool), NEW e, Q!Store(Q!At(qAsk.tool)[k], e)
      PROVE SearchInv'
  BY <1>2, ToolIndexes, RowStored DEF SearchInv, SearchTypes
<1> QED
  BY <1>1, <1>2, NothingRead, CallPlanned, WindowRead, WindowCounted, HitsMerged,
     WordsProbed, WordRetried DEF Q!Next

\* and so does another tool's.
LEMMA SearchWaits ==
  ASSUME SearchInv, UNCHANGED searching
  PROVE SearchInv'
<1>1. UNCHANGED <<qIndex, qChanges, qAsk, qPc, qTodo, qFetch, qKept, qFound, qSeen, qShrunk, qHits,
                  qAbsent, qUnsure, qSkipped>>
  BY DEF searching
<1>2. /\ Q!Current' = Q!Current /\ Searchable' = Searchable /\ Q!Needed' = Q!Needed
      /\ \A group : Keeps(group)' = Keeps(group)
  BY <1>1, SameCall
<1>3. \A i : Q!Ranked(i)' = Q!Ranked(i)
  BY <1>1 DEF Q!Ranked
<1>4. SearchTypes' /\ Placed'
  BY <1>1, <1>2 DEF SearchInv, SearchTypes, Placed
<1>5. Covered' /\ Windowed'
  BY <1>1, <1>2, <1>3 DEF SearchInv, Covered, Windowed
<1>6. Answered'
  BY <1>1, SameAnswer
<1>7. ProbedTrue'
  BY <1>1 DEF SearchInv, ProbedTrue, Held
<1> QED
  BY <1>4, <1>5, <1>6, <1>7 DEF SearchInv

\* An answer that covers every index it searched is the best page of them all.
LEMMA PageIsBest ==
  ASSUME SearchInv
  PROVE Q!PageIsTheBest
<1> SUFFICES ASSUME qPc = "done", ~Q!Truncated, ~qShrunk
             PROVE /\ {qHits[k].entity : k \in ExactHits(qHits)} \subseteq Q!Owners(Q!Truth)
                   /\ InOrder(qHits) /\ BestPage(qHits, Q!Truth, Q!Needed)
  BY DEF Q!PageIsTheBest, InOrder, BestPage, ExactHits, PageHits, ShownIn, Q!TruthScore
<1>1. /\ InOrder(qHits) /\ BestPage(qHits, Q!Truth, Q!Needed)
      /\ \A k \in ExactHits(qHits) : qHits[k].entity \in Q!Owners(Q!Above(Q!LevelRows \cup Q!OtherRows))
  BY DEF SearchInv, Answered
<1>2. ASSUME NEW r \in Q!Above(Q!LevelRows \cup Q!OtherRows) PROVE r \in Q!Truth
  <2>1. PICK i \in DOMAIN qFound : r \in qFound[i].rows
    BY DEF Q!Above, Q!LevelRows, Q!OtherRows
  <2>2. r \in Keeps(qSeen[i]) /\ i \in DOMAIN qSeen
    BY <2>1 DEF SearchInv, Covered, Placed
  <2> QED
    BY <2>2 DEF Keeps, Q!Truth, Q!Above
<1> QED
  BY <1>1, <1>2 DEF Q!Owners

Searching == tool = "search" => SearchInv

\* The invariant of the searches.
LEMMA SearchInvariant == ReadSpec => []Searching
<1>1. ReadInit => Searching
  BY SearchStarts DEF ReadInit, Searching
<1>2. Searching /\ [ReadNext]_<<tool, vars, others>> => Searching'
  <2> SUFFICES ASSUME Searching, [ReadNext]_<<tool, vars, others>>, tool' = "search"
               PROVE SearchInv'
    BY DEF Searching
  <2>1. tool' = tool
    BY DEF ReadNext, FreshnessStep, SearchStep, ListStep, FindStep
  <2>2. SearchInv
    BY <2>1 DEF Searching
  <2>3. CASE SearchStep
    BY <2>2, <2>3, SearchSteps DEF SearchStep
  <2>4. CASE UNCHANGED <<tool, vars, others>>
    <3>1. UNCHANGED searching
      BY <2>4 DEF others
    <3> QED
      BY <2>2, <3>1, SearchWaits
  <2> QED
    BY <2>1, <2>3, <2>4 DEF ReadNext, FreshnessStep, ListStep, FindStep
<1> QED
  BY <1>1, <1>2, PTL DEF ReadSpec

\* Search, for any indexes, windows and page, and any number of changes meanwhile: an
\* answer that is not marked truncated ranks the project's best entities, unless an
\* index shrank between a window and its count.
THEOREM ReadSearch == ReadSpec => []PageIsTheBest
<1>1. Searching => PageIsTheBest
  BY PageIsBest DEF Searching, PageIsTheBest
<1> QED
  BY <1>1, SearchInvariant, PTL

\* Search, for any query and indexes that stand meanwhile: a word is said to match nothing
\* exactly when no row of the project holds it, unless it was not probed, its probe
\* failed or found no end, or it was taken for a phrase that is there.
THEOREM ReadWords == ReadSpec => []AbsenceIsTrue
<1>1. Searching => AbsenceIsTrue
  BY DEF Searching, AbsenceIsTrue, Q!AbsenceIsTrue, SearchInv, SearchTypes, ProbedTrue, Held
<1> QED
  BY <1>1, SearchInvariant, PTL

-----------------------------------------------------------------------------
(* The read tools together.                                                *)

\* The other tools' steps are none of Freshness'.
THEOREM ToolsAreFresh == ReadSpec => Spec
<1>1. ReadInit => Init
  BY DEF ReadInit, Waiting
<1>2. [ReadNext]_<<tool, vars, others>> => [Next]_vars
  BY DEF ReadNext, FreshnessStep, SearchStep, ListStep, FindStep
<1> QED
  BY <1>1, <1>2, PTL DEF ReadSpec, Spec

\* So what holds of Freshness holds of the server's tools.
THEOREM ReadsAreFresh ==
  ASSUME Checkout
  PROVE ReadSpec => []AnswersAreFresh /\ []DriftIsSaid
BY ToolsAreFresh, SilenceIsTrue, DriftIsNeverPassedOver, PTL
=============================================================================
