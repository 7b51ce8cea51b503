------------------------------ MODULE IndexRun ------------------------------
(***************************************************************************)
(* What one project's index goes through: ProjectManager.index_directory    *)
(* and update_project, with the GraphBuilder, summarizer and RAGIndexer     *)
(* passes they call, against a working tree that changes under them and     *)
(* services that fail.                                                     *)
(*                                                                         *)
(* A file is one graph node and one chunk.  A file's bytes, the rows parsed  *)
(* from them, their checksum, the summary of them, its input hash, the      *)
(* vector of that summary and the chunk are all named by the content they   *)
(* come from, so `node[f].ck = disk[f]' reads "the stored checksum is that   *)
(* of the file on disk".  None is a file that is not there, and a property   *)
(* that is empty or NULL.                                                   *)
(*                                                                         *)
(* The project lease (module ProjectLease) lets one run in at a time.        *)
(***************************************************************************)
EXTENDS Integers, FiniteSets

CONSTANTS
  Files,         \* the indexable paths
  Documented,    \* those whose entity has a docstring
  None,          \* no file, no row, an empty property
  Docstring,     \* the docstring used in place of a summary
  NoSource,      \* the summary input hash of an empty source
  Modes,         \* the kinds of run: subset of {"index", "force", "flush"}
  Worlds,        \* what may happen to the project, one world per behaviour
  MaxEdits,      \* bound on edits in any world
  MaxFaults      \* bound on faults in any world

FaultKinds == {"preflight", "parse", "gate", "llm", "embed", "chunkread", "crash"}

\* What may fail, which files the working tree may lose, whether files change
\* while a run is under way, whether they may return to bytes they had, and how
\* many edits and mishaps there may be.
World == [faults : SUBSET FaultKinds, deletable : SUBSET Files,
          anytime : BOOLEAN, reverts : BOOLEAN,
          edits : 0..MaxEdits, mishaps : 0..MaxFaults]

ASSUME IndexRunAssumption ==
  /\ IsFiniteSet(Files)
  /\ Documented \subseteq Files
  /\ Modes \subseteq {"index", "force", "flush"}
  /\ Worlds \subseteq World
  /\ MaxEdits \in Nat /\ MaxFaults \in Nat
  /\ {None, Docstring, NoSource} \cap Nat = {}
  /\ Cardinality({None, Docstring, NoSource}) = 3

VARIABLES
  world,    \* the world of this behaviour
  disk,     \* the content of each file in the working tree
  node,     \* the :Code node of each file
  chunks,   \* its :CodeChunk rows that hang on the node by HAS_CHUNK
  loose,    \* those whose node was deleted under them
  rooted,   \* does the project have its dir:. node?
  pc,       \* what the run does next; "idle" is no run
  todo,     \* files the current loop has still to do
  run,      \* the local variables of the run
  edits,    \* edits so far
  faults    \* faults so far

store == <<node, chunks, loose, rooted>>
bounds == <<edits, faults>>
vars == <<world, disk, store, pc, todo, run, bounds>>

Content == 1..(MaxEdits + 1)
Hash == Content \cup {NoSource, None}
Text == Content \cup {Docstring, None}

Node == [rows: Content \cup {None},   \* what the stored rows were parsed from
         ck: Content \cup {None},     \* checksum
         sum: Text,                   \* summary
         hash: Hash,                  \* summary_input_hash
         vec: Text,                   \* the text summary_embedding was made of
         vecHash: Hash,               \* summary_embedding_hash
         marker: Content \cup {None}] \* chunks_checksum

NoNode == [rows |-> None, ck |-> None, sum |-> None, hash |-> None,
           vec |-> None, vecHash |-> None, marker |-> None]

Nothing == [f \in Files |-> None]
Empty == [f \in Files |-> {}]
NoDraft == [f \in Files |-> [sum |-> None, hash |-> None]]

\* The locals of a run, by the code's names where it has one.  The last three are
\* history: the files whose index was current when the run began and that were
\* not edited since, those an LLM or embedding request was made for, and those
\* off the disk at some moment of the run.
NoRun == [mode |-> "none", reported |-> {}, repairing |-> FALSE,
          snapshot |-> Nothing, parsed |-> Nothing, unchanged |-> {},
          confirmed_deleted |-> {}, reconcilable |-> {}, run_files |-> {},
          read |-> Nothing, draft |-> NoDraft, dirty |-> {}, failed |-> FALSE,
          settled |-> {}, paid |-> {}, gone |-> {}]

Steps == {"idle", "pending", "preflight", "diff", "scan", "parse", "plan", "upsert", "hash", "summarize",
          "chunk", "store", "mark", "embed", "repair", "answer", "rechunk"}

Current(f) ==
  IF disk[f] = None
    THEN node[f] = NoNode /\ chunks[f] = {} /\ loose[f] = {}
    ELSE /\ node[f] = [rows |-> disk[f], ck |-> disk[f], sum |-> disk[f], hash |-> disk[f],
                       vec |-> disk[f], vecHash |-> disk[f], marker |-> disk[f]]
         /\ chunks[f] = {disk[f]} /\ loose[f] = {}

Init ==
  /\ world \in Worlds
  /\ disk \in {d \in [Files -> {1, None}] : \A f \in Files \ world.deletable : d[f] = 1}
  /\ node = [f \in Files |-> NoNode]
  /\ chunks = Empty /\ loose = Empty
  /\ rooted = FALSE
  /\ pc = "idle" /\ todo = {} /\ run = NoRun
  /\ edits = 0 /\ faults = 0

-----------------------------------------------------------------------------
(* Helpers.                                                                *)

Present == {f \in Files : disk[f] # None}
Stored == {f \in Files : node[f].rows # None}
Produced == {f \in Files : run.parsed[f] # None}
Explicit == run.mode \in {"first", "index", "force"}

\* One more fault of this kind may happen.
May(kind) == kind \in world.faults /\ faults < world.mishaps
Fault == faults' = faults + 1 /\ UNCHANGED edits

\* Any one of S may fail to be read, or none.
Unreadable(kind, S) == {{}} \cup {{f} : f \in IF May(kind) THEN S ELSE {}}
Count(bad) == faults' = faults + Cardinality(bad) /\ UNCHANGED edits

Goto(step, files) == pc' = step /\ todo' = files
Next1(f) == pc' = pc /\ todo' = todo \ {f}
Return == Goto("idle", {}) /\ run' = NoRun

\* summary_input_hash of a leaf whose source reads as c.
InputHash(c) == IF c = None THEN NoSource ELSE c

\* What takes the place of a summary that cannot be had.
Fallback(f) == IF f \in Documented THEN Docstring ELSE None

\* Mutant: a vector that is there is good enough.
MissingVector(f) == node[f].sum # None /\ node[f].vec = None

\* GET_STALE_SUMMARY_EMBEDDINGS.
StaleVector(f) ==
  /\ node[f].sum # None
  /\ node[f].vec = None \/ node[f].vecHash # node[f].hash
-----------------------------------------------------------------------------
(* The working tree.                                                       *)

\* A file is created, changed or removed.  Unless files may revert, every edit brings
\* bytes the file never had.
Edit(f) ==
  /\ edits < world.edits
  /\ world.anytime \/ pc = "idle"
  /\ \E c \in {edits + 2} \cup (IF world.reverts THEN 1..(edits + 1) ELSE {})
              \cup (IF f \in world.deletable THEN {None} ELSE {}) :
       /\ c # disk[f]
       /\ disk' = [disk EXCEPT ![f] = c]
       /\ run' = IF pc = "idle" THEN run
                 ELSE [run EXCEPT !.settled = @ \ {f},
                                  !.gone = @ \cup (IF c = None THEN {f} ELSE {})]
  /\ edits' = edits + 1
  /\ UNCHANGED <<world, store, pc, todo, faults>>

-----------------------------------------------------------------------------
(* A run begins.                                                           *)

Begin(mode, reported, step) ==
  /\ pc = "idle"
  /\ Goto(step, {})
  /\ run' = [NoRun EXCEPT !.mode = mode, !.reported = reported,
                          !.settled = {f \in Files : Current(f)},
                          !.gone = Files \ Present]
  /\ UNCHANGED <<world, disk, store, bounds>>

\* index_directory: a project without nodes is built, any other is updated.
StartIndex ==
  /\ "index" \in Modes
  /\ Begin(IF rooted THEN "index" ELSE "first", Files, "preflight")

\* index_directory with force_rebuild.
StartForce ==
  /\ "force" \in Modes /\ rooted
  /\ Begin("force", {}, "preflight")

\* update_project with the paths a watcher reports.
StartFlush ==
  /\ "flush" \in Modes /\ rooted
  /\ \E reported \in SUBSET Files \ {{}} : Begin("flush", reported, "pending")

\* The checksum diff, over the reported paths: those that changed and those
\* that are gone.  A node without a checksum is not one it can miss.
Unchanged == {f \in Present : node[f].ck = disk[f]}
Changed == (Present \ Unchanged) \cap run.reported
Deleted == {f \in Files \ Present : node[f].ck # None} \cap run.reported

\* has_pending_changes: a flush that reports nothing new ends here.
CheckPending ==
  /\ pc = "pending"
  /\ IF Changed \cup Deleted # {} THEN Goto("preflight", {}) /\ run' = run ELSE Return
  /\ UNCHANGED <<world, disk, store, bounds>>

\* One tiny request to each paid service, and a look at the vector indexes.
Preflight ==
  /\ pc = "preflight"
  /\ Goto(IF run.mode \in {"first", "force"} THEN "scan" ELSE "diff", {})
  /\ UNCHANGED <<world, disk, store, run, bounds>>

PreflightFails ==
  /\ pc = "preflight"
  /\ May("preflight") /\ Fault
  /\ Return
  /\ UNCHANGED <<world, disk, store>>

\* update() takes the diff afresh.  Without work it ends a flush and takes an
\* explicit index to the repair pass.
Diff ==
  /\ pc = "diff"
  /\ IF Changed \cup Deleted # {}
       THEN Goto("scan", {}) /\ run' = [run EXCEPT !.unchanged = Unchanged]
       ELSE IF Explicit THEN Goto("repair", {}) /\ run' = run ELSE Return
  /\ UNCHANGED <<world, disk, store, bounds>>

-----------------------------------------------------------------------------
(* GraphBuilder.build.                                                     *)

\* The scan and the checksum snapshot, before any file is parsed.
Snapshot ==
  /\ pc = "scan"
  /\ Goto("parse", {})
  /\ run' = [run EXCEPT !.snapshot = disk]
  /\ UNCHANGED <<world, disk, store, bounds>>

\* Every scanned file is parsed as it is by now; one that cannot be read
\* produces nothing.
Parse ==
  /\ pc = "parse"
  /\ LET scanned == {f \in Files : run.snapshot[f] # None}
     IN \E bad \in Unreadable("parse", scanned) :
          /\ run' = [run EXCEPT !.parsed =
                       [f \in Files |-> IF f \in scanned \ bad THEN disk[f] ELSE None]]
          /\ Count(bad)
  /\ Goto("plan", {})
  /\ UNCHANGED <<world, disk, store>>

\* The summary gate raises before anything is written.
GateRefuses ==
  /\ pc = "plan"
  /\ May("gate") /\ Fault
  /\ Return
  /\ UNCHANGED <<world, disk, store>>

\* Mutant: what the parse did not produce is taken for deleted.
NotProduced == Stored \ Produced

\* Indexed, absent from the scan, and positively gone from disk.
ConfirmedDeleted == {f \in Stored : run.snapshot[f] = None /\ disk[f] = None}

\* Mutant: only the chunks of deleted files are pruned.
OnlyDeleted == ConfirmedDeleted

\* The files whose stale chunks this run may delete.
Reconcilable == Produced \cup ConfirmedDeleted

\* _plan_reconcile.
PlanReconcile ==
  /\ pc = "plan"
  /\ run' = [run EXCEPT !.confirmed_deleted = ConfirmedDeleted,
                        !.reconcilable = Reconcilable]
  /\ Goto("upsert", Produced)
  /\ UNCHANGED <<world, disk, store, bounds>>

\* _narrow_writes may leave out an unchanged file's row: it does when the rest
\* of the project resolves its calls as before.
AlreadyStored(f) == f \in run.unchanged \cap Stored

\* Mutant: the row is replaced, its summary with it.
FreshRow(f) == [NoNode EXCEPT !.rows = run.parsed[f], !.ck = node[f].ck]

\* UPSERT_NODES_BATCH_TEMPLATE: the empty incoming summary leaves the stored one.
Row(f) == [node[f] EXCEPT !.rows = run.parsed[f]]

\* upsert_nodes.
Upsert(f) ==
  /\ pc = "upsert" /\ f \in todo
  /\ \/ node' = [node EXCEPT ![f] = Row(f)]
     \/ AlreadyStored(f) /\ node' = node
  /\ rooted' = TRUE
  /\ Next1(f)
  /\ UNCHANGED <<world, disk, chunks, loose, run, bounds>>

\* delete_nodes_by_ids: DETACH DELETE takes the node's properties and the
\* HAS_CHUNK edges, not the chunks.
DeleteStale ==
  /\ pc = "upsert" /\ todo = {}
  /\ node' = [f \in Files |-> IF f \in run.confirmed_deleted THEN NoNode ELSE node[f]]
  /\ loose' = [f \in Files |-> IF f \in run.confirmed_deleted THEN loose[f] \cup chunks[f] ELSE loose[f]]
  /\ chunks' = [f \in Files |-> IF f \in run.confirmed_deleted THEN {} ELSE chunks[f]]
  /\ Goto("hash", {})
  /\ UNCHANGED <<world, disk, rooted, run, bounds>>

\* _reuse: the stored summary was made from the same input.
Reusable(f) == node[f].sum # None /\ node[f].hash = InputHash(disk[f])

\* The first pass of summarize_hierarchy: input hashes from the sources, and
\* reuse of every stored summary whose hash is the same.
HashInputs ==
  /\ pc = "hash"
  /\ run' = [run EXCEPT !.draft =
               [f \in Files |-> IF f \notin Produced THEN NoDraft[f]
                                ELSE [sum |-> IF Reusable(f) THEN node[f].sum ELSE None,
                                      hash |-> InputHash(disk[f])]]]
  /\ Goto("summarize", {f \in Produced : ~Reusable(f)})
  /\ UNCHANGED <<world, disk, store, bounds>>

\* node_source: every use reads the file again.
Source(f) == disk[f]

\* A leaf is summarized from its source, read again, under the hash the first
\* pass gave it, and persisted with its batch unless it is empty.
Settle(f, sum, hash, dirty) ==
  /\ node' = IF sum = None THEN node ELSE [node EXCEPT ![f].sum = sum, ![f].hash = hash]
  /\ run' = [run EXCEPT !.draft[f] = [sum |-> sum, hash |-> hash],
                        !.dirty = @ \cup dirty,
                        !.paid = @ \cup (IF Source(f) # None THEN {f} ELSE {})]
  /\ Next1(f)
  /\ UNCHANGED <<world, disk, chunks, loose, rooted>>

Summarize(f) ==
  /\ pc = "summarize" /\ f \in todo
  /\ Settle(f, IF Source(f) # None THEN Source(f) ELSE Fallback(f), run.draft[f].hash, {f})
  /\ UNCHANGED bounds

\* Mutant: a kept summary is stored under the hash of the input it failed on.
WantedHash(f) == run.draft[f].hash

\* The retry marker: an empty hash, so that the next run tries again.
RetryHash(f) == None

\* _keep_stale_on_failure: the previous summary, or the docstring.
SummarizeFails(f) ==
  /\ pc = "summarize" /\ f \in todo
  /\ Source(f) # None
  /\ May("llm") /\ Fault
  /\ IF node[f].sum # None THEN Settle(f, node[f].sum, RetryHash(f), {})
                           ELSE Settle(f, Fallback(f), RetryHash(f), {f})

\* Mutant: the checksum is taken when the run stamps it.
LateChecksum(f) == disk[f]

\* The checksum that will be stamped on f was taken before the parse.
Checksum(f) == run.snapshot[f]

\* The checksums of the snapshot, where there is a node to carry one.  A build
\* that produced no node at all ends a flush and takes an explicit re-index to
\* the repair pass.
UpdateChecksums ==
  /\ pc = "summarize" /\ todo = {}
  /\ node' = [f \in Files |->
       IF f \in Stored \ run.unchanged /\ run.snapshot[f] # None
         THEN [node[f] EXCEPT !.ck = Checksum(f)] ELSE node[f]]
  /\ IF Produced # {} \/ run.mode = "first"
       THEN Goto("chunk", {}) /\ run' = [run EXCEPT !.run_files = Produced]
       ELSE IF Explicit THEN Goto("repair", {}) /\ run' = run ELSE Return
  /\ UNCHANGED <<world, disk, chunks, loose, rooted, bounds>>

-----------------------------------------------------------------------------
(* RAGIndexer.index_code.                                                  *)

\* chunk_repository reads every file; the unreadable ones leave the run.
ReadChunks ==
  /\ pc = "chunk"
  /\ \E bad \in Unreadable("chunkread", run.run_files) :
       LET readable == (run.run_files \cap Present) \ bad
       IN /\ run' = [run EXCEPT !.read = [f \in Files |-> IF f \in readable THEN disk[f] ELSE None],
                                !.run_files = readable,
                                !.reconcilable = @ \ (run.run_files \ readable)]
          /\ Goto("store", readable)
          /\ Count(bad)
  /\ UNCHANGED <<world, disk, store>>

\* get_stored_chunk_facts: the row is there and HAS_CHUNK leads to it.
SkipChunk(f) == run.read[f] \in chunks[f]

\* A stored vector is reused for a chunk that has to be re-written.
VectorStored(f) == run.read[f] \in chunks[f] \cup loose[f]

\* A chunk is skipped, re-written with its own vector or embedded.
StoreChunk(f) ==
  /\ pc = "store" /\ f \in todo
  /\ IF SkipChunk(f)
       THEN UNCHANGED <<chunks, loose, run>>
       ELSE /\ chunks' = [chunks EXCEPT ![f] = @ \cup {run.read[f]}]
            /\ loose' = [loose EXCEPT ![f] = @ \ {run.read[f]}]
            /\ run' = IF VectorStored(f) THEN run ELSE [run EXCEPT !.paid = @ \cup {f}]
  /\ Next1(f)
  /\ UNCHANGED <<world, disk, node, rooted, bounds>>

\* Its embedding fails and it is not stored.
StoreChunkFails(f) ==
  /\ pc = "store" /\ f \in todo
  /\ ~VectorStored(f)
  /\ May("embed") /\ Fault
  /\ run' = [run EXCEPT !.failed = TRUE, !.paid = @ \cup {f}]
  /\ Next1(f)
  /\ UNCHANGED <<world, disk, store>>

\* index_summaries is handed what the build described, or in a repair what
\* GET_STALE_SUMMARY_EMBEDDINGS returns.
GotoEmbed ==
  Goto("embed", IF run.repairing THEN {f \in Files : StaleVector(f)}
                ELSE {f \in Files : run.draft[f].sum # None})

\* Mutant: what failed is left to the next run, the rest goes on.
Regardless == TRUE

\* Only a run without a failed embedding prunes and marks.
AllStored == ~run.failed

\* _prune_stale_chunks.
PruneStaleChunks ==
  /\ pc = "store" /\ todo = {}
  /\ IF ~AllStored
       THEN UNCHANGED <<chunks, loose>> /\ GotoEmbed
       ELSE /\ chunks' = [f \in Files |-> IF f \in run.reconcilable
                                            THEN chunks[f] \cap {run.read[f]} ELSE chunks[f]]
            /\ loose' = [f \in Files |-> IF f \in run.reconcilable THEN {} ELSE loose[f]]
            /\ Goto("mark", {})
  /\ UNCHANGED <<world, disk, node, rooted, run, bounds>>

\* _mark_chunks_covered: the marker is the file's stored checksum.
MarkChunksCovered ==
  /\ pc = "mark"
  /\ node' = [f \in Files |-> IF f \in run.run_files \cap Stored /\ node[f].ck # None
                                THEN [node[f] EXCEPT !.marker = node[f].ck] ELSE node[f]]
  /\ GotoEmbed
  /\ UNCHANGED <<world, disk, chunks, loose, rooted, run, bounds>>

-----------------------------------------------------------------------------
(* RAGIndexer.index_summaries.                                             *)

\* Mutant: the vector is stamped with the hash the node ought to have.
DueHash(f) == [sum |-> IF run.repairing THEN node[f].sum ELSE run.draft[f].sum,
               hash |-> InputHash(disk[f])]

\* The text and the hash a vector is made for.
Draft(f) == IF run.repairing THEN [sum |-> node[f].sum, hash |-> node[f].hash] ELSE run.draft[f]

\* Mutant: the stored summaries are not handed on.
NoStoredVectors(f) == FALSE

\* A vector is left alone when its summary was not regenerated and its hash
\* still agrees.
FreshVector(f) ==
  /\ ~run.repairing /\ f \notin run.dirty
  /\ node[f].vec # None /\ node[f].vecHash = Draft(f).hash

\* One summary is embedded, or skipped.
EmbedSummary(f) ==
  /\ pc = "embed" /\ f \in todo
  /\ IF FreshVector(f)
       THEN UNCHANGED <<node, run>>
       ELSE /\ node' = [node EXCEPT ![f].vec = Draft(f).sum, ![f].vecHash = Draft(f).hash]
            /\ run' = [run EXCEPT !.paid = @ \cup {f}]
  /\ Next1(f)
  /\ UNCHANGED <<world, disk, chunks, loose, rooted, bounds>>

\* The embedding fails; the previous one stays.
EmbedSummaryFails(f) ==
  /\ pc = "embed" /\ f \in todo
  /\ ~FreshVector(f)
  /\ May("embed") /\ Fault
  /\ run' = [run EXCEPT !.paid = @ \cup {f}]
  /\ Next1(f)
  /\ UNCHANGED <<world, disk, store>>

\* The run returns.
Finish ==
  /\ pc = "embed" /\ todo = {}
  /\ Return
  /\ UNCHANGED <<world, disk, store, bounds>>

-----------------------------------------------------------------------------
(* _repair_incomplete_index.                                               *)

\* repair_missing_summaries finds the nodes with an empty summary or an empty
\* hash, reads their sources and asks for them all.
AskForMissing ==
  /\ pc = "repair"
  /\ LET missing == {f \in Stored : node[f].sum = None \/ node[f].hash = None}
     IN /\ run' = [run EXCEPT !.repairing = TRUE, !.draft = NoDraft,
                              !.read = [f \in Files |-> IF f \in missing THEN disk[f] ELSE None],
                              !.paid = @ \cup (missing \cap Present)]
        /\ Goto("answer", missing)
  /\ UNCHANGED <<world, disk, store, bounds>>

\* An answer arrives; only now is the source read for the hash.
Answer(f) ==
  /\ pc = "answer" /\ f \in todo
  /\ run' = [run EXCEPT !.draft[f] =
               [sum |-> IF run.read[f] # None THEN run.read[f] ELSE Fallback(f),
                hash |-> InputHash(disk[f])]]
  /\ Next1(f)
  /\ UNCHANGED <<world, disk, store, bounds>>

\* Or a failure, which leaves the docstring and an empty hash.
AnswerFails(f) ==
  /\ pc = "answer" /\ f \in todo
  /\ run.read[f] # None
  /\ May("llm") /\ Fault
  /\ run' = [run EXCEPT !.draft[f] = [sum |-> Fallback(f), hash |-> None]]
  /\ Next1(f)
  /\ UNCHANGED <<world, disk, store>>

\* _store_repaired.
StoreRepaired ==
  /\ pc = "answer" /\ todo = {}
  /\ node' = [f \in Files |-> IF run.draft[f].sum = None THEN node[f]
                              ELSE [node[f] EXCEPT !.sum = run.draft[f].sum,
                                                   !.hash = run.draft[f].hash]]
  /\ Goto("rechunk", {})
  /\ UNCHANGED <<world, disk, chunks, loose, rooted, run, bounds>>

\* GET_FILES_WITH_STALE_CHUNKS, and index_code over those files alone.
RepairChunks ==
  /\ pc = "rechunk"
  /\ LET stale == {f \in Stored : node[f].marker = None \/ node[f].marker # node[f].ck}
     IN run' = [run EXCEPT !.run_files = stale, !.reconcilable = stale, !.read = Nothing]
  /\ Goto("chunk", {})
  /\ UNCHANGED <<world, disk, store, bounds>>

-----------------------------------------------------------------------------
\* The process dies, or an exception no handler takes leaves the run.
Crash ==
  /\ pc # "idle"
  /\ May("crash") /\ Fault
  /\ Return
  /\ UNCHANGED <<world, disk, store>>

FileStep(f) ==
  \/ Upsert(f) \/ Summarize(f) \/ SummarizeFails(f)
  \/ StoreChunk(f) \/ StoreChunkFails(f)
  \/ EmbedSummary(f) \/ EmbedSummaryFails(f)
  \/ Answer(f) \/ AnswerFails(f)

RunStep ==
  \/ CheckPending \/ Preflight \/ PreflightFails \/ Diff
  \/ Snapshot \/ Parse \/ GateRefuses \/ PlanReconcile \/ DeleteStale
  \/ HashInputs \/ UpdateChecksums
  \/ ReadChunks \/ PruneStaleChunks \/ MarkChunksCovered \/ Finish
  \/ AskForMissing \/ StoreRepaired \/ RepairChunks
  \/ \E f \in Files : FileStep(f)

Next ==
  \/ \E f \in Files : Edit(f)
  \/ StartIndex \/ StartForce \/ StartFlush
  \/ RunStep
  \/ Crash

Spec == Init /\ [][Next]_vars

\* A run that has begun goes on, and the project is indexed again and again.
FairSpec == Spec /\ WF_vars(RunStep) /\ SF_vars(StartIndex)
-----------------------------------------------------------------------------
(* Properties.                                                             *)

\* The locals of a run, by type.
Locals == [mode : {"none", "first", "index", "force", "flush"},
           reported : SUBSET Files, repairing : BOOLEAN,
           snapshot : [Files -> Content \cup {None}],
           parsed : [Files -> Content \cup {None}],
           unchanged : SUBSET Files,
           confirmed_deleted : SUBSET Files, reconcilable : SUBSET Files,
           run_files : SUBSET Files, read : [Files -> Content \cup {None}],
           draft : [Files -> [sum : Text, hash : Hash]],
           dirty : SUBSET Files, failed : BOOLEAN,
           settled : SUBSET Files, paid : SUBSET Files,
           gone : SUBSET Files]

\* Every variable keeps its type.
TypeOK ==
  /\ world \in Worlds
  /\ disk \in [Files -> Content \cup {None}]
  /\ node \in [Files -> Node]
  /\ chunks \in [Files -> SUBSET Content] /\ loose \in [Files -> SUBSET Content]
  /\ rooted \in BOOLEAN
  /\ pc \in Steps
  /\ todo \subseteq Files
  /\ run \in Locals
  /\ edits \in 0..world.edits /\ faults \in 0..world.mishaps

\* The stored checksum is the claim "the graph reflects these bytes"
\* (GraphBuilder.build): when it is that of the file on disk, so that no run
\* will look at the file again, the rows were parsed from those bytes.  Excused
\* are worlds in which a file may fail to be read for its parse, which stamps it
\* all the same.
HonestChecksum ==
  "parse" \notin world.faults =>
    \A f \in Present : node[f].ck = disk[f] => node[f].rows = disk[f]

\* The same of the coverage marker: a file no repair will re-chunk has the
\* chunk of its bytes, hanging on its node.
HonestCoverage ==
  \A f \in Present :
    node[f].marker = node[f].ck /\ node[f].ck = disk[f] => disk[f] \in chunks[f]

\* Coverage markers are honest, of variables that keep their types.
CoverageIsHonest == TypeOK /\ HonestCoverage

\* And it serves no chunk of bytes it no longer has.
NoStaleChunks ==
  \A f \in Present :
    pc = "idle" /\ node[f].marker = node[f].ck /\ node[f].ck = disk[f]
      => chunks[f] \cup loose[f] \subseteq {disk[f]}

\* And of the summary's input hash: a summary that will be reused for the
\* file's bytes describes them.
HonestSummary ==
  \A f \in Present : node[f].hash = disk[f] => node[f].sum = disk[f]

\* And of the vector's: one that will not be embedded again was made of the
\* summary it stands for, unless that one is itself to be regenerated.
HonestVector ==
  \A f \in Files :
    node[f].vec # None /\ node[f].vecHash = node[f].hash /\ node[f].hash \in Content
      => node[f].vec = node[f].sum

\* Paid data survives (INV-1, INV-3): a run empties a summary, a file's rows or
\* the last chunk of a file only if the file was off the disk at some moment of
\* that run.  Stale beats empty, whatever failed to be read, parsed, generated
\* or embedded.
Emptied(f) ==
  \/ node[f].rows # None /\ node'[f].rows = None
  \/ node[f].sum # None /\ node'[f].sum = None
  \/ node[f].vec # None /\ node'[f].vec = None
  \/ chunks[f] \cup loose[f] # {} /\ chunks'[f] \cup loose'[f] = {}

StaleBeatsEmpty == [][\A f \in Files : Emptied(f) => f \in run.gone]_vars

\* A summary the LLM wrote gives way only to another one (INV-3), except in the
\* repair of a summary that failed before.
Downgraded(f) == node[f].sum \in Content /\ node'[f].sum \in {Docstring, None}

PaidSummaryKept == [][\A f \in Files : Downgraded(f) => f \in run.gone \/ run.repairing]_vars

\* No change costs nothing (INV-5): whatever the other files need, a run makes
\* no LLM or embedding request for a file whose index was current when it
\* began and that nobody touched since.
NothingPaidTwice == run.settled \cap run.paid = {}

\* Once edits and faults have come to an end, re-indexing brings every file's
\* rows, checksum, summary, vector, chunk and marker to the bytes on disk, and
\* leaves nothing of a file that is gone.
Heals == <>[](pc = "idle" => \A f \in Files : Current(f))
=============================================================================
