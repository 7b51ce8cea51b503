---------------------------- MODULE SummaryTree ----------------------------
(* The bottom-up summaries of code_indexer/summarizer.py: leaves from their  *)
(* source, containers from their children's texts, reuse by input hash, the  *)
(* cascade that summarizes a container once its children are settled, a plan *)
(* that prices a run before it is paid for, failures that keep the old text, *)
(* runs that die between two batches, and the repair of what is missing.     *)
(*                                                                           *)
(* A node is a CodeNode object, numbered in parse order.  A summary is a     *)
(* number, because all that matters of a text is whether it is the old one,  *)
(* and the input hash is the input itself.  IndexRun has the other half:     *)
(* leaves whose files change under the run, and what becomes of vectors.     *)
EXTENDS Integers, FiniteSets

CONSTANTS
  Nodes,        \* the objects a parse may produce, 1..n in parse order
  Id,           \* [Nodes -> ids]: two definitions of one name share theirs
  Parent,       \* [Nodes -> Nodes \cup {0}]: CONTAINS, 0 at the root
  Dirs,         \* the directory nodes
  Texts,        \* the answers the LLM may give
  BatchSize,    \* IndexerConfig.batch_size
  Reorders,     \* directories that hold files and folders: the build lists
                \* files first, the repair query sorts by path
  MaxVersion, MaxEdits, MaxFaults   \* bounds of the environment

Empty == 0          \* an empty summary

\* An empty summary_input_hash.
None == [version |-> -1, texts |-> [i \in {} |-> Empty], listed |-> FALSE]

VARIABLES
  source,     \* [Nodes \ Dirs -> version], 0 while the entity is not in its file
  stored,     \* [ids -> row or Gone]: what the project's nodes hold
  stamped,    \* the files' checksums are those of the tree on disk
  pc,         \* where the run is; "idle" when there is none
  known,      \* the run's stored_summaries: rows as they were at its start
  plan,       \* the nodes the gate was told the run would regenerate
  draft,      \* [Nodes -> row]: the objects' summaries in memory
  attempted,  \* nodes whose summary this run has settled
  queue,      \* nodes waiting for the LLM: leaves, or containers of one drain
  gen,        \* containers found ready by the last drain
  due,        \* history: nodes with a reason to be paid for
  loose,      \* history: containers a repair left behind their children
  edits, faults

vars == <<source, stored, stamped, pc, known, plan, draft, attempted, queue, gen,
          due, loose, edits, faults>>

Ids == {Id[n] : n \in Nodes}

\* A row no node has been stored for, and one that was never summarized.
Gone == [text |-> Empty, hash |-> None, from |-> None, here |-> FALSE]
Unanswered(hash) == [text |-> Empty, hash |-> hash, from |-> None, here |-> TRUE]
Blank == Unanswered(None)

-----------------------------------------------------------------------------
(* The tree of one parse.                                                    *)

\* A directory stands for the files below it, and the files of the model stay
\* (those that go are IndexRun's).
Exists(n) == n \in Dirs \/ source[n] > 0

Tree == {n \in Nodes : Exists(n)}
Kids(n) == {c \in Nodes : Parent[c] = n /\ Exists(c)}
Containers == {n \in Tree : Kids(n) # {}}
Leaves == Tree \ Containers

\* A node and what contains it: the least set with both.
Upward(S) == \A m \in S : Parent[m] = 0 \/ Parent[m] \in S
Above == [n \in Nodes \cup {0} |->
            {m \in Nodes : n # 0 /\ \A S \in SUBSET Nodes : n \in S /\ Upward(S) => m \in S}]

\* node_map: of several objects with one id, the last one parsed.
Mapped(id) == LET those == {n \in Nodes : Id[n] = id /\ Exists(n)}
              IN CHOOSE n \in those : \A m \in those : m <= n

\* What a node's summary is made from: summary_input_hash.  text names the
\* children's texts as the caller sees them; listed tells their two orders apart.
Input(n, text, listed) ==
  IF Kids(n) = {}
  THEN [version |-> source[n], texts |-> [i \in {} |-> Empty], listed |-> FALSE]
  ELSE [version |-> 0, listed |-> listed /\ n \in Reorders,
        texts |-> [i \in {Id[c] : c \in Kids(n)} |-> text[i]]]

Drafted == [i \in {Id[n] : n \in Tree} |-> draft[Mapped(i)].text]
StoredTexts == [i \in Ids |-> stored[i].text]
Wanted(n) == Input(n, Drafted, FALSE)

\* _reuse
Reusable(n, hash) == known[Id[n]].hash = hash /\ known[Id[n]].text # Empty

-----------------------------------------------------------------------------
\* Mutant: a plan that asks each node by itself, and not what is below it.
OwnInputOnly ==
  {n \in Tree : \/ stored[Id[n]].text = Empty
                \/ stored[Id[n]].hash # Input(n, StoredTexts, FALSE)}

(* What a run would regenerate: plan_summaries runs the pass against a       *)
(* counting LLM whose answers differ from every stored text, so what is asked *)
(* about has everything above it asked about.                                *)
Redone(S) ==
  \A n \in Tree :
    \/ \E c \in Kids(n) : Mapped(Id[c]) \in S
    \/ stored[Id[n]].text = Empty
    \/ stored[Id[n]].hash # Input(n, StoredTexts, FALSE)
    => n \in S
Plan == {n \in Tree : \A S \in SUBSET Tree : Redone(S) => n \in S}

-----------------------------------------------------------------------------
Init ==
  /\ source = [n \in Nodes \ Dirs |-> 1]
  /\ stored = [i \in Ids |-> Gone]
  /\ stamped = FALSE
  /\ pc = "idle"
  /\ known = [i \in Ids |-> Gone]
  /\ plan = {} /\ attempted = {} /\ queue = {} /\ gen = {} /\ loose = {}
  /\ draft = [n \in Nodes |-> Gone]
  /\ due = Nodes
  /\ edits = 0 /\ faults = 0

\* Between runs an entity is rewritten, removed from its file or added to it.
Edit(n, v) ==
  /\ pc = "idle" /\ edits < MaxEdits
  /\ n \notin Dirs /\ v # source[n]
  /\ v = 0 => Kids(n) = {} /\ Parent[n] \notin Dirs
  /\ v > 0 => Parent[n] \in Tree \cup {0}
  /\ source' = [source EXCEPT ![n] = v]
  /\ stamped' = FALSE
  /\ due' = due \cup Above[n]
  /\ edits' = edits + 1
  /\ UNCHANGED <<stored, pc, known, plan, draft, attempted, queue, gen, loose, faults>>

\* A run: the reuse map is read, the plan priced, the skeleton stored.  A row
\* keeps its summary under an upsert that brings none; a node that is no longer
\* parsed is deleted.
Begin ==
  /\ pc = "idle" /\ ~stamped
  /\ known' = stored
  /\ plan' = Plan
  /\ stored' = [i \in Ids |-> IF i \notin {Id[n] : n \in Tree} THEN Gone
                              ELSE IF stored[i].here THEN stored[i] ELSE Blank]
  /\ draft' = [n \in Nodes |-> Blank]
  /\ attempted' = {} /\ queue' = {} /\ gen' = {}
  /\ loose' = {}
  /\ pc' = "leaves"
  /\ UNCHANGED <<source, stamped, due, edits, faults>>

\* What becomes of a set of nodes whose hashes were taken: reused, or queued
\* with the hash that is stored with the answer.
Hashed(ns) ==
  [n \in Nodes |-> IF n \notin ns THEN draft[n]
                   ELSE IF Reusable(n, Wanted(n)) THEN known[Id[n]]
                   ELSE Unanswered(Wanted(n))]

\* The leaves whose summary is settled by their hash alone.
ReusedLeaves == {n \in Leaves : Reusable(n, Wanted(n))}

HashLeaves ==
  /\ pc = "leaves"
  /\ draft' = Hashed(Leaves)
  /\ attempted' = ReusedLeaves
  /\ queue' = {n \in Leaves : ~Reusable(n, Wanted(n))}
  /\ pc' = "drain"
  /\ UNCHANGED <<source, stored, stamped, known, plan, gen, due, loose, edits, faults>>

\* all(cid in attempted or cid not in node_map)
Ready(n) == n \notin attempted /\ \A c \in Kids(n) : Mapped(Id[c]) \in attempted

\* _drain_ready_containers: ready containers count as attempted before they are
\* generated, and nothing looks until they are.
Drain ==
  /\ pc = "drain"
  /\ LET ready == {n \in Containers : Ready(n)} IN
       /\ draft' = Hashed(ready)
       /\ attempted' = attempted \cup ready
       /\ gen' = {n \in ready : ~Reusable(n, Wanted(n))}
       /\ pc' = CASE gen' # {} -> "containers"
                  [] ready # {} /\ gen' = {} -> "drain"
                  [] OTHER -> IF queue # {} THEN "batch" ELSE "stamp"
  /\ UNCHANGED <<source, stored, stamped, known, plan, queue, due, loose, edits, faults>>

\* The first BatchSize nodes of a list.
Batch(ns) == {n \in ns : Cardinality({m \in ns : m < n}) < BatchSize}

\* Mutant: the failure keeps the hash that was meant for the answer.
KeptAsAnswered(n) == [known[Id[n]] EXCEPT !.hash = draft[n].hash, !.here = TRUE]

\* _keep_stale_on_failure: the old text stays, with no hash, so that the node is
\* asked about again.  (The docstring a leaf falls back on is IndexRun's.)
KeptStale(n) ==
  [text |-> known[Id[n]].text, hash |-> None, from |-> known[Id[n]].from, here |-> TRUE]

\* What the LLM may say.  A text only matters by being the node's old one or not,
\* so a node that has none is given one fixed text.
Answers(batch, failed) ==
  {a \in [batch -> Texts] :
     \A n \in batch : n \in failed \/ known[Id[n]].text = Empty
                      => a[n] = CHOOSE t \in Texts : TRUE}

\* The answers to a batch: the nodes in failed keep what they had, the others
\* get a text made from the input their hash names.
Answered(batch, failed, answer) ==
  [n \in Nodes |->
     IF n \notin batch THEN draft[n]
     ELSE IF n \in failed THEN KeptStale(n)
     ELSE [text |-> answer[n], hash |-> draft[n].hash, from |-> Wanted(n), here |-> TRUE]]

\* on_batch: what has a text is stored; of two objects with one id the last wins.
Persisted(batch, rows) ==
  [i \in Ids |->
     LET those == {n \in batch : Id[n] = i /\ rows[n].text # Empty} IN
       IF those = {} THEN stored[i]
       ELSE rows[CHOOSE n \in those : \A m \in those : m <= n]]

\* A node is due again when it failed, or when a text below it changed.
Owed(batch, failed, rows) ==
  (due \ (batch \ failed))
    \cup (UNION {Above[Parent[n]] : n \in {m \in batch : rows[m].text # known[Id[m]].text}})
    \cup failed

Generate(batch) ==
  \E failed \in SUBSET batch : \E answer \in Answers(batch, failed) :
    /\ Cardinality(failed) <= MaxFaults - faults
    /\ faults' = faults + Cardinality(failed)
    /\ draft' = Answered(batch, failed, answer)
    /\ stored' = Persisted(batch, draft')
    /\ due' = Owed(batch, failed, draft')

GenerateLeaves ==
  /\ pc = "batch"
  /\ Generate(Batch(queue))
  /\ attempted' = attempted \cup Batch(queue)
  /\ queue' = queue \ Batch(queue)
  /\ pc' = "drain"
  /\ UNCHANGED <<source, stamped, known, plan, gen, loose, edits>>

GenerateContainers ==
  /\ pc = "containers"
  /\ Generate(Batch(gen))
  /\ gen' = gen \ Batch(gen)
  /\ pc' = IF gen' = {} THEN "drain" ELSE "containers"
  /\ UNCHANGED <<source, stamped, known, plan, attempted, queue, loose, edits>>

\* What a run held in memory is gone when it ends.
Ended ==
  /\ known' = [i \in Ids |-> Gone]
  /\ draft' = [n \in Nodes |-> Gone]
  /\ plan' = {} /\ attempted' = {} /\ queue' = {} /\ gen' = {}
  /\ pc' = "idle"

\* update_checksums: the files are the ones this run has indexed.
Stamp ==
  /\ pc = "stamp"
  /\ stamped' = TRUE
  /\ Ended
  /\ UNCHANGED <<source, stored, due, loose, edits, faults>>

-----------------------------------------------------------------------------
(* repair_missing_summaries, which an index without changes runs.            *)

Missing == {n \in Tree : /\ n = Mapped(Id[n])
                         /\ stored[Id[n]].text = Empty \/ stored[Id[n]].hash = None}

BeginRepair ==
  /\ pc = "idle" /\ stamped /\ Missing # {}
  /\ known' = stored
  /\ queue' = Missing \cap Leaves
  /\ gen' = Missing \cap Containers
  /\ draft' = [n \in Nodes |-> Blank]
  /\ plan' = Missing /\ attempted' = {}
  /\ pc' = "repair"
  /\ UNCHANGED <<source, stored, stamped, due, loose, edits, faults>>

\* One round: the leaves, then the containers below which nothing waits.  A
\* failure of an entity without a docstring leaves the row as it is.
RepairRound ==
  IF queue # {} THEN queue
  ELSE LET ready == {n \in gen : \A c \in Kids(n) : c \notin gen} IN
         IF ready # {} THEN ready ELSE gen

Repair ==
  /\ pc = "repair"
  /\ \E failed \in SUBSET RepairRound : \E answer \in Answers(RepairRound, failed) :
       /\ Cardinality(failed) <= MaxFaults - faults
       /\ faults' = faults + Cardinality(failed)
       /\ LET rows == [n \in RepairRound |->
                LET input == Input(n, StoredTexts, TRUE) IN
                  [text |-> answer[n], hash |-> input, from |-> input, here |-> TRUE]]
              done == RepairRound \ failed
          IN /\ stored' = [i \in Ids |-> IF \E n \in done : Id[n] = i
                                        THEN rows[Mapped(i)] ELSE stored[i]]
             /\ due' = (due \ done)
                         \cup UNION {Above[Parent[n]] :
                                       n \in {m \in done : answer[m] # stored[Id[m]].text}}
             /\ loose' = (loose \ done) \cup UNION {Above[Parent[n]] : n \in done}
  /\ IF gen \subseteq RepairRound
     THEN Ended
     ELSE /\ queue' = {} /\ gen' = gen \ RepairRound
          /\ UNCHANGED <<pc, known, plan, draft, attempted>>
  /\ UNCHANGED <<source, stamped, edits>>

\* The process dies, or a callback raises: what was stored stays.
Crash ==
  /\ pc # "idle" /\ faults < MaxFaults
  /\ faults' = faults + 1
  /\ Ended
  /\ UNCHANGED <<source, stored, stamped, due, loose, edits>>

Next ==
  \/ \E n \in Nodes \ Dirs : \E v \in 0..MaxVersion : Edit(n, v)
  \/ Begin \/ HashLeaves \/ Drain \/ GenerateLeaves \/ GenerateContainers \/ Stamp
  \/ BeginRepair \/ Repair \/ Crash

Spec == Init /\ [][Next]_vars
-----------------------------------------------------------------------------
(* Properties.                                                               *)

\* Types, and that every hash names the input its text was made from, whatever
\* failed or died in between (summary_input_hash is what reuse relies on).
TypeOK ==
  /\ source \in [Nodes \ Dirs -> 0..MaxVersion]
  /\ pc \in {"idle", "leaves", "drain", "batch", "containers", "stamp", "repair"}
  /\ plan \subseteq Nodes /\ attempted \subseteq Nodes /\ queue \subseteq Nodes
  /\ gen \subseteq Nodes /\ due \subseteq Nodes /\ loose \subseteq Nodes
  /\ \A i \in Ids : stored[i].text \in Texts \cup {Empty}
  /\ edits \in 0..MaxEdits /\ faults \in 0..MaxFaults
  /\ pc # "repair" => queue \subseteq Leaves \ attempted

\* When the files are stamped, every node has been settled against its children
\* as they are stored: a summary without a retry mark was made from exactly the
\* texts below it.  Excused are the ancestors of what a repair filled in.
Settled ==
  pc = "idle" /\ stamped =>
    \A n \in Tree \ loose :
      LET row == stored[Id[n]] IN
        row.text # Empty /\ row.hash # None =>
          /\ row.from = row.hash
          /\ n = Mapped(Id[n]) => \E listed \in BOOLEAN : row.hash = Input(n, StoredTexts, listed)

\* The drain leaves nothing to the safety net of phase 2, whatever fails: it ends
\* with every node generated, reused or marked for a retry.
NothingSkipped == pc = "stamp" => attempted = Tree /\ gen = {}

\* The gate priced what is paid for: a build asks the LLM about no node that
\* plan_summaries did not count, whatever the answers and failures.
Priced == pc \in {"batch", "containers"} => queue \cup gen \subseteq plan

\* A summary is paid for again only when its entity, or one below it, was
\* edited, failed, or got a new text (INV-5: cost follows the change).
PaysForChangesOnly == pc \in {"batch", "containers"} => queue \cup gen \subseteq due
=============================================================================
