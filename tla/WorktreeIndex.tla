---------------------------- MODULE WorktreeIndex ---------------------------
(***************************************************************************)
(* The index of a linked git worktree, from its first query to its end: it *)
(* is seeded from the project of the main checkout, inside the database    *)
(* (clone_project) or through the client, brought up to the worktree's own *)
(* bytes, served, updated, and reaped by the janitor once the directory is *)
(* gone. The worktree comes and goes under all of this, the disk that      *)
(* holds both checkouts may be unmounted, the main checkout is re-indexed, *)
(* and a run may die anywhere.                                             *)
(*                                                                         *)
(* As in module IndexRun a file is one node and one chunk, named by the    *)
(* content they come from; what a run does inside an update is told there, *)
(* so here it is the commits of the rows and of the chunks. A run and the  *)
(* janitor's delete exclude each other by the project's lease (module      *)
(* ProjectLease): the lease is held while pc is not "idle".                *)
(***************************************************************************)
EXTENDS Integers, FiniteSets

CONSTANTS
  Files,      \* the paths of both checkouts
  None,       \* no file, no row, no value
  Kinds,      \* what may stand at the path: subset of {"worktree", "standalone"}
  MaxEdits,   \* bound on changes to either tree
  MaxFaults,  \* bound on failures
  MaxMounts   \* bound on the times the disk is unmounted

ASSUME WorktreeAssumption ==
  /\ IsFiniteSet(Files)
  /\ None \notin Nat
  /\ Kinds \subseteq {"worktree", "standalone"}
  /\ MaxEdits \in Nat /\ MaxFaults \in Nat /\ MaxMounts \in Nat

VARIABLES
  place,       \* what stands at the path: "absent" or one of Kinds
  registered,  \* does git's registry name the path?
  mounted,     \* is the disk of both checkouts there?
  tree,        \* the content of each file at the path
  donor,       \* each file as the main checkout's project has it indexed
  node,        \* the :Code node of each file in the worktree's project
  chunk,       \* its :CodeChunk row
  linked,      \* the files whose chunk hangs on their node
  root,        \* the dir:. node: is it there, has it root_path, the worktree meta?
  clone,       \* is there a :CloneMarker for the project?
  pc, run,     \* the run that holds the lease, and its locals
  sweep,       \* where the janitor is with this project
  lastKind,    \* what the last index took the directory for (history)
  absent,      \* was it really gone since the janitor listed it? (history)
  edits, faults, mounts   \* counters

disk == <<place, registered, mounted, tree>>
rows == <<node, chunk, linked>>
project == <<rows, root, clone>>
janitor == <<sweep, absent>>
bounds == <<edits, faults, mounts>>
vars == <<disk, donor, project, pc, run, janitor, lastKind, bounds>>

Content == 1..(MaxEdits + 1)
Maybe == Content \cup {None}

Row == [ck : Maybe, sum : Maybe, marker : Maybe]
NoRow == [ck |-> None, sum |-> None, marker |-> None]
RowOf(c) == [ck |-> c, sum |-> c, marker |-> c]

Nothing == [f \in Files |-> None]
NoRows == [f \in Files |-> NoRow]

Steps == {"idle", "open", "first", "clone", "copy", "verify", "drop", "seed", "build",
          "stamp", "persist", "locate", "mark", "update", "chunks", "repair", "done"}

\* The locals of a run: `next' is what follows the stamps of the root.  The last
\* three are history: the files the donor had just as they were when the first
\* index began, those the run paid for, and those nothing happened to meanwhile.
NoRun == [worktree |-> FALSE, first |-> FALSE, cloned |-> FALSE, touched |-> {},
          seeds |-> Nothing, scan |-> Nothing, gone |-> {}, copying |-> {}, next |-> "idle",
          covered |-> {}, paid |-> {}, calm |-> Files]

\* What the locals of a run range over.
Locals ==
  [worktree : BOOLEAN, first : BOOLEAN, cloned : BOOLEAN, touched : SUBSET Files,
   seeds : [Files -> Maybe], scan : [Files -> Maybe], gone : SUBSET Files,
   copying : SUBSET ({"root", "node", "chunk"} \X (Files \cup {None})), next : Steps,
   covered : SUBSET Files, paid : SUBSET Files, calm : SUBSET Files]

Init ==
  /\ place = "absent" /\ registered = FALSE /\ mounted = TRUE
  /\ tree = Nothing
  /\ donor = [f \in Files |-> 1]
  /\ node = NoRows /\ chunk = Nothing /\ linked = {}
  /\ root = "none" /\ clone = FALSE
  /\ pc = "idle" /\ run = NoRun
  /\ sweep = "idle" /\ absent = FALSE /\ lastKind = "none"
  /\ edits = 0 /\ faults = 0 /\ mounts = 0

-----------------------------------------------------------------------------
(* What the program sees.                                                  *)

\* Path.is_dir() of the checkout.
Present == mounted /\ place # "absent"

\* A scan of it.
Scan == [f \in Files |-> IF Present THEN tree[f] ELSE None]

Has(rowOf) == {f \in Files : rowOf[f] # NoRow}
Kept(some) == {f \in Files : some[f] # None}

\* project_is_indexed: nodes, and no clone under way.
Queryable == ~clone /\ (root # "none" \/ Has(node) # {})

Goto(step) == pc' = step
Fault == faults < MaxFaults /\ faults' = faults + 1 /\ UNCHANGED <<edits, mounts>>
Return == Goto("idle") /\ run' = NoRun

-----------------------------------------------------------------------------
(* The user, git and the disk.                                             *)

Fresh == edits + 2
Edited == edits < MaxEdits /\ edits' = edits + 1 /\ UNCHANGED <<faults, mounts>>

\* Something happens to files under the run, if there is one.
Disturb(files) == run' = IF pc = "idle" THEN run ELSE [run EXCEPT !.calm = @ \ files]

\* git worktree add, or a plain clone, at the path: a tree that is the main
\* checkout's but for one file the branch changed or removed.
Create ==
  /\ place = "absent" /\ mounted
  /\ \E kind \in Kinds :
       /\ place' = kind
       /\ registered' = (kind = "worktree" \/ registered)
  /\ \E own \in SUBSET Files, c \in {Fresh, None} :
       /\ Cardinality(own) <= 1
       /\ tree' = [f \in Files |-> IF f \in own THEN c ELSE donor[f]]
  /\ Edited
  /\ Disturb(Files)
  /\ UNCHANGED <<mounted, donor, project, pc, janitor, lastKind>>

\* git worktree remove, or rm -rf, which leaves the registry's entry.
Remove ==
  /\ place # "absent" /\ mounted
  /\ place' = "absent" /\ tree' = Nothing
  /\ registered' \in {FALSE, registered}
  /\ absent' = TRUE
  /\ Disturb(Files)
  /\ UNCHANGED <<mounted, donor, project, pc, sweep, lastKind, bounds>>

Edit(f) ==
  /\ Present
  /\ \E c \in {Fresh, None} : c # tree[f] /\ tree' = [tree EXCEPT ![f] = c]
  /\ Edited
  /\ Disturb({f})
  /\ UNCHANGED <<place, registered, mounted, donor, project, pc, janitor, lastKind>>

Unmount ==
  /\ mounted /\ mounts < MaxMounts
  /\ mounted' = FALSE /\ mounts' = mounts + 1
  /\ Disturb(Files)
  /\ UNCHANGED <<place, registered, tree, donor, project, pc, janitor, lastKind, edits, faults>>

Mount ==
  /\ ~mounted /\ mounted' = TRUE
  /\ Disturb(Files)
  /\ UNCHANGED <<place, registered, tree, donor, project, pc, janitor, lastKind, bounds>>

\* The main checkout changes and its own index follows, perhaps to what the
\* branch has.  (Not while this project copies from it: nothing in the code keeps
\* the two apart, and README.md tells what comes of it.)
IndexDonor(f) ==
  /\ pc \notin {"clone", "copy", "verify"}
  /\ \E c \in {Fresh, None, tree[f]} : c # donor[f] /\ donor' = [donor EXCEPT ![f] = c]
  /\ Edited
  /\ Disturb({f})
  /\ UNCHANGED <<disk, project, pc, janitor, lastKind>>

-----------------------------------------------------------------------------
(* A run begins.                                                           *)

\* index_directory, called by the user or by the first query of a worktree
\* (ensure_indexed_for_query).  What the directory is, is read before the lock.
Start ==
  /\ pc = "idle" /\ Present
  /\ Goto("open")
  /\ run' = [NoRun EXCEPT !.worktree = (place = "worktree")]
  /\ UNCHANGED <<disk, donor, project, janitor, lastKind, bounds>>

\* delete_project.
Wipe ==
  /\ node' = NoRows /\ chunk' = Nothing /\ linked' = {}
  /\ root' = "none" /\ clone' = FALSE

\* Mutant: a half clone is updated in place.
NeverUnfinished == FALSE

\* _discard_unfinished_clone looks for the marker.
Unfinished == clone

\* An unfinished clone goes; then a project without nodes is indexed for the first
\* time and any other is updated.
Open ==
  /\ pc = "open"
  /\ IF Unfinished THEN Wipe ELSE UNCHANGED project
  /\ Goto(IF Unfinished \/ (root = "none" /\ Has(node) = {}) THEN "first" ELSE "update")
  /\ UNCHANGED <<disk, donor, run, janitor, lastKind, bounds>>

\* Mutant: what the branch removed is forgotten.
UncoveredOnly(scan) == {f \in Kept(scan) : donor[f] # scan[f]}

\* _DonorCoverage: what the donor has not got, and what it has too much.
Touched(scan) == {f \in Kept(scan) : donor[f] # scan[f]} \cup (Kept(donor) \ Kept(scan))

\* _donor_project and _donor_coverage: one scan of the tree against the donor's
\* checksums.  An ordinary directory is built in full.
First ==
  /\ pc = "first"
  /\ IF run.worktree
       THEN /\ run' = [run EXCEPT !.first = TRUE, !.touched = Touched(Scan),
                          !.covered = {f \in Kept(Scan) : donor[f] = Scan[f]}]
            /\ Goto("clone")
       ELSE run' = run /\ Goto("build")
  /\ UNCHANGED <<disk, donor, project, janitor, lastKind, bounds>>

-----------------------------------------------------------------------------
(* clone_project.                                                          *)

\* The marker goes in before the first node.
BeginClone ==
  /\ pc = "clone"
  /\ clone' = TRUE
  /\ Goto("copy")
  /\ run' = [run EXCEPT !.copying = {<<"root", None>>}
               \cup ({"node", "chunk"} \X Kept(donor))]
  /\ UNCHANGED <<disk, donor, rows, root, janitor, lastKind, bounds>>

\* _clone_groups: the labels' groups are copied side by side, in batches.
Copy(kind, f) ==
  /\ pc = "copy" /\ <<kind, f>> \in run.copying
  /\ run' = [run EXCEPT !.copying = @ \ {<<kind, f>>}]
  /\ node' = IF kind = "node" THEN [node EXCEPT ![f] = RowOf(donor[f])] ELSE node
  /\ chunk' = IF kind = "chunk" THEN [chunk EXCEPT ![f] = donor[f]] ELSE chunk
  /\ root' = IF kind = "root" THEN "located" ELSE root
  /\ UNCHANGED <<disk, donor, linked, clone, pc, janitor, lastKind, bounds>>

\* Memgraph writes fewer rows than it reports.
CopyLoses(kind, f) ==
  /\ pc = "copy" /\ <<kind, f>> \in run.copying /\ kind # "root"
  /\ Fault
  /\ run' = [run EXCEPT !.copying = @ \ {<<kind, f>>}]
  /\ UNCHANGED <<disk, donor, project, pc, janitor, lastKind>>

\* An edge is copied between ends that are found.
Joinable == Has(node) \cap Kept(chunk)

\* When every row is there the donor's identity is erased from the root and the
\* edges are copied.
CopyEdges ==
  /\ pc = "copy" /\ run.copying = {}
  /\ root' = "bare"
  /\ linked' = Joinable
  /\ Goto("verify")
  /\ UNCHANGED <<disk, donor, node, chunk, clone, run, janitor, lastKind, bounds>>

\* Mutant: the recount leaves the edges and the chunks to the writes' own numbers.
NodesCounted == Cardinality(Has(node)) = Cardinality(Kept(donor))

\* _verify_clone counts both projects again: nodes, chunks, edges.
Recounted ==
  /\ Cardinality(Has(node)) = Cardinality(Kept(donor))
  /\ Cardinality(Kept(chunk)) = Cardinality(Kept(donor))
  /\ Cardinality(linked) = Cardinality(Kept(donor))

VerifyClone ==
  /\ pc = "verify" /\ Recounted
  /\ clone' = FALSE
  /\ Goto("locate")
  /\ run' = [run EXCEPT !.cloned = TRUE,
                        !.next = IF run.touched = {} THEN "done" ELSE "update"]
  /\ UNCHANGED <<disk, donor, rows, root, janitor, lastKind, bounds>>

CloneRefused ==
  /\ pc = "verify" /\ ~Recounted
  /\ Goto("drop")
  /\ UNCHANGED <<disk, donor, project, run, janitor, lastKind, bounds>>

\* A statement of the copy fails, and its siblings are cancelled.
CloneFails ==
  /\ pc \in {"clone", "copy"}
  /\ Fault
  /\ Goto("drop")
  /\ UNCHANGED <<disk, donor, project, run, janitor, lastKind>>

\* _clone_donor_graph: the copy that failed is deleted, or stays, marked, if that
\* fails as well; the run falls back on the client.
DropClone ==
  /\ pc = "drop"
  /\ Wipe
  /\ Goto("seed")
  /\ UNCHANGED <<disk, donor, run, janitor, lastKind, bounds>>

DropFails ==
  /\ pc = "drop"
  /\ Fault
  /\ Goto("seed")
  /\ UNCHANGED <<disk, donor, project, run, janitor, lastKind>>

-----------------------------------------------------------------------------
(* The first index without a clone.                                        *)

\* Mutant: the project's own summaries, as in any other run.
OwnSummaries == [f \in Files |-> node[f].sum]

\* get_stored_summaries and get_stored_chunk_embeddings of the donor.
Seeds == donor

Seed ==
  /\ pc = "seed"
  /\ run' = [run EXCEPT !.seeds = Seeds]
  /\ Goto("build")
  /\ UNCHANGED <<disk, donor, project, janitor, lastKind, bounds>>

\* The root of a project that is written to keeps its mark.
Located == IF root = "marked" THEN "marked" ELSE "located"

Reused == {f \in Kept(run.scan) : run.seeds[f] = run.scan[f]}

\* GraphBuilder.build: rows, what is stale of a copy that stayed, the root's path,
\* and the summaries it generates.  A reused one is not written.
Build ==
  /\ pc = "build"
  /\ LET generated == {f \in Kept(Scan) : run.seeds[f] # Scan[f]}
     IN /\ node' = [f \in Files |-> CASE f \in generated -> [node[f] EXCEPT !.sum = Scan[f]]
                                        [] Scan[f] = None -> NoRow
                                        [] OTHER -> node[f]]
        /\ run' = [run EXCEPT !.scan = Scan, !.gone = Has(node) \ Kept(Scan),
                              !.paid = @ \cup generated, !.next = "chunks"]
  /\ linked' = linked \cap Kept(Scan)
  /\ root' = IF Kept(Scan) = {} THEN root ELSE Located
  /\ Goto("stamp")
  /\ UNCHANGED <<disk, donor, chunk, clone, janitor, lastKind, bounds>>

\* update_checksums.
Stamp ==
  /\ pc = "stamp"
  /\ node' = [f \in Files |-> IF f \in Kept(run.scan) THEN [node[f] EXCEPT !.ck = run.scan[f]]
                              ELSE node[f]]
  /\ Goto("persist")
  /\ UNCHANGED <<disk, donor, chunk, linked, root, clone, run, janitor, lastKind, bounds>>

\* _persist_seeded_summaries, without which the repair would pay for them.
PersistSeeded ==
  /\ pc = "persist"
  /\ node' = [f \in Files |-> IF f \in Reused THEN [node[f] EXCEPT !.sum = run.scan[f]]
                              ELSE node[f]]
  /\ Goto("locate")
  /\ UNCHANGED <<disk, donor, chunk, linked, root, clone, run, janitor, lastKind, bounds>>

-----------------------------------------------------------------------------
(* What all runs end with.                                                 *)

\* set_project_root_path, and then the mark of a worktree.
Locate ==
  /\ pc = "locate"
  /\ root' = IF root = "none" THEN root ELSE Located
  /\ Goto("mark")
  /\ UNCHANGED <<disk, donor, rows, clone, run, janitor, lastKind, bounds>>

\* _stamp_worktree_meta, which leaves the root of any other directory as it is.
Mark ==
  /\ pc = "mark"
  /\ root' = IF run.worktree /\ root # "none" THEN "marked" ELSE root
  /\ Goto(run.next)
  /\ UNCHANGED <<disk, donor, rows, clone, run, janitor, lastKind, bounds>>

Changed == {f \in Kept(Scan) : node[f].ck # Scan[f]}
Deleted == {f \in Files : Scan[f] = None /\ node[f].ck # None}

\* GraphBuilder.update, over the clone or an index that was there.  Without work it
\* writes nothing.  Otherwise files that changed are stamped, summaries that are not
\* those of the bytes are generated, and files that are gone lose their node and
\* leave their chunk hanging on nothing (one without a checksum is no work, but goes
\* with the others).  An update that is left with no node at all skips the chunks.
Update ==
  /\ pc = "update"
  /\ LET work == Changed \cup Deleted # {}
         gone == IF work THEN Files \ Kept(Scan) ELSE {}
         generated == IF work THEN {f \in Kept(Scan) : node[f].sum # Scan[f]} ELSE {}
     IN /\ node' = [f \in Files |->
             CASE f \in gone -> NoRow
               [] f \in Changed -> [node[f] EXCEPT !.ck = Scan[f], !.sum = Scan[f]]
               [] f \in generated \ Changed -> [node[f] EXCEPT !.sum = Scan[f]]
               [] OTHER -> node[f]]
        /\ linked' = linked \ gone
        /\ run' = [run EXCEPT !.scan = Scan, !.gone = gone \cap Has(node),
                     !.next = IF work /\ Kept(Scan) # {} THEN "chunks" ELSE "repair",
                     !.paid = @ \cup generated]
        /\ Goto(IF ~run.cloned THEN "locate" ELSE IF work THEN "chunks" ELSE "done")
  /\ UNCHANGED <<disk, donor, chunk, root, clone, janitor, lastKind, bounds>>

\* index_code brings the chunks of files to the scan, with the vector of one that
\* is stored or seeded, and marks the rows.
IndexCode(files, row) ==
  LET produced == Kept(run.scan) \cap files
      embedded == {f \in produced : run.scan[f] \notin {chunk[f], run.seeds[f]}}
  IN /\ chunk' = [f \in Files |-> IF f \in files THEN run.scan[f] ELSE chunk[f]]
     /\ linked' = (linked \ files) \cup produced
     /\ node' = [f \in Files |-> IF f \in produced THEN [row[f] EXCEPT !.marker = row[f].ck]
                                 ELSE row[f]]
     /\ run' = [run EXCEPT !.paid = @ \cup embedded]

\* What the run parsed or saw deleted is chunked and pruned: over a clone, only what
\* differs from the donor.
Chunks ==
  /\ pc = "chunks"
  /\ IndexCode((Kept(run.scan) \cup run.gone) \cap (IF run.cloned THEN run.touched ELSE Files), node)
  /\ Goto("done")
  /\ UNCHANGED <<disk, donor, root, clone, janitor, lastKind, bounds>>

\* _repair_incomplete_index: the summaries that are missing, and the chunks of the
\* files that have no coverage marker.
Repair ==
  /\ pc = "repair"
  /\ IndexCode({f \in Kept(run.scan) : node[f].marker # node[f].ck},
               [f \in Files |-> IF f \in Kept(run.scan) /\ node[f].sum = None
                               THEN [node[f] EXCEPT !.sum = run.scan[f]] ELSE node[f]])
  /\ Goto("done")
  /\ UNCHANGED <<disk, donor, root, clone, janitor, lastKind, bounds>>

Finish ==
  /\ pc = "done"
  /\ Return
  /\ lastKind' = IF run.worktree THEN "worktree" ELSE "standalone"
  /\ UNCHANGED <<disk, donor, project, janitor, bounds>>

\* The process dies, or something raises.
Crash ==
  /\ pc # "idle"
  /\ Fault
  /\ Return
  /\ UNCHANGED <<disk, donor, project, janitor, lastKind>>

-----------------------------------------------------------------------------
(* The janitor, on this project.                                           *)

\* Layer 1: list_projects, and the mark.
List ==
  /\ sweep = "idle" /\ root = "marked"
  /\ sweep' = "listed" /\ absent' = (place = "absent")
  /\ UNCHANGED <<disk, donor, project, pc, run, lastKind, bounds>>

Consider(layer, next, passes) ==
  /\ sweep = layer
  /\ sweep' = IF passes THEN next ELSE "idle"
  /\ UNCHANGED <<disk, donor, project, pc, run, absent, lastKind, bounds>>

\* Layer 2: the directory is gone.  Layer 3: the main checkout is not.
SeeMissing == Consider("listed", "missing", ~Present)
SeeDonor == Consider("missing", "orphan", mounted)

\* Mutant: the registry is not asked.
Unasked == FALSE

\* Mutant: whatever the registry names is alive.
NamedByGit == mounted /\ registered

\* Layer 4: git names the path, and it is there after all.
StillRegistered == mounted /\ registered /\ Present

AskRegistry == Consider("orphan", "dead", ~StillRegistered)

\* The single attempt at the lease.
LeaseIsFree == pc = "idle"

\* Layer 5, under the lease: the guarded delete looks for the mark again.
Reap ==
  /\ sweep = "dead"
  /\ sweep' = "idle"
  /\ IF LeaseIsFree /\ root = "marked" THEN Wipe ELSE UNCHANGED project
  /\ UNCHANGED <<disk, donor, pc, run, absent, lastKind, bounds>>

-----------------------------------------------------------------------------
RunStep ==
  \/ Open \/ First \/ BeginClone \/ CopyEdges \/ VerifyClone \/ CloneRefused
  \/ \E job \in run.copying : Copy(job[1], job[2])
  \/ DropClone \/ Seed \/ Build \/ Stamp \/ PersistSeeded
  \/ Locate \/ Mark \/ Update \/ Chunks \/ Repair \/ Finish

RunFault ==
  \/ \E job \in run.copying : CopyLoses(job[1], job[2])
  \/ CloneFails \/ DropFails \/ Crash

Sweep == List \/ SeeMissing \/ SeeDonor \/ AskRegistry \/ Reap

World ==
  \/ Create \/ Remove \/ Unmount \/ Mount
  \/ \E f \in Files : Edit(f) \/ IndexDonor(f)

Next == World \/ Start \/ RunStep \/ RunFault \/ Sweep

Spec == Init /\ [][Next]_vars

\* A run goes on, the worktree is asked for again and again, the janitor's sweeps
\* recur, and the disk comes back.
FairSpec ==
  Spec /\ WF_vars(RunStep) /\ SF_vars(Start) /\ SF_vars(List) /\ WF_vars(Sweep)
       /\ WF_vars(Mount)

-----------------------------------------------------------------------------
(* Properties.                                                             *)

\* Every variable keeps its type, and an edge has both its ends.
TypeOK ==
  /\ place \in {"absent"} \cup Kinds
  /\ registered \in BOOLEAN /\ mounted \in BOOLEAN
  /\ tree \in [Files -> Maybe] /\ donor \in [Files -> Maybe]
  /\ node \in [Files -> Row] /\ chunk \in [Files -> Maybe] /\ linked \subseteq Has(node) \cap Kept(chunk)
  /\ root \in {"none", "bare", "located", "marked"} /\ clone \in BOOLEAN
  /\ pc \in Steps
  /\ run \in Locals
  /\ sweep \in {"idle", "listed", "missing", "orphan", "dead"}
  /\ absent \in BOOLEAN /\ lastKind \in {"none", "worktree", "standalone"}
  /\ edits \in 0..MaxEdits /\ faults \in 0..MaxFaults /\ mounts \in 0..MaxMounts

\* A half-copied project is never served (clone_project's contract, INV-7): in a
\* project that answers queries, a file that no run will look at again has its
\* chunk, and the chunk hangs on its node.
ServedWhole ==
  Queryable =>
    \A f \in Kept(Scan) :
      node[f].ck = Scan[f] /\ node[f].marker = node[f].ck
        => chunk[f] = Scan[f] /\ f \in linked

\* A half copy is never served, nor an edge without its ends.
WholeOrUnserved == TypeOK /\ ServedWhole

\* "Pay only for what differs": the first index of a worktree asks the paid
\* services nothing about a file its main checkout has indexed with the same bytes,
\* by whichever of the two ways it goes and whatever fails on the way.
FirstIndexIsFree == run.first => run.paid \cap run.covered \cap run.calm = {}

\* What a run reports as done is there: of every file nothing happened to, the
\* index holds the bytes on disk, with summary, chunk and marker, or no checksum.
Delivers ==
  pc = "done" =>
    \A f \in run.calm :
      /\ Scan[f] = None => node[f].ck = None
      /\ Scan[f] # None => node[f] = RowOf(Scan[f]) /\ chunk[f] = Scan[f] /\ f \in linked

\* The janitor takes no index of a worktree that was there all the time, though the
\* disk dropped out once, before or between its looks (janitor.py, layers 3 and 4).
Reaped == sweep = "dead" /\ root = "marked" /\ root' = "none"
LivingSpared == [][Reaped => absent]_vars

\* "Ordinary projects never carry it": no index made of an ordinary checkout is
\* ever reaped, whatever happened to its path.
OrdinarySpared == [][Reaped => lastKind # "standalone"]_vars

\* Whatever copies, deletes and runs failed, a worktree that stays ends up with an
\* index of its own bytes that answers queries.
Heals ==
  <>[](pc = "idle" /\ Kept(Scan) # {} =>
         /\ Queryable
         /\ \A f \in Kept(Scan) : /\ node[f] = RowOf(Scan[f])
                                  /\ chunk[f] = Scan[f] /\ f \in linked
         /\ \A f \in Files \ Kept(Scan) : node[f].ck = None)

\* And the marked index of one that is gone for good is reaped.
GoneIsReaped == <>[](place = "absent") => <>[](root # "marked")
=============================================================================
