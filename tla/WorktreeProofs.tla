---------------------------- MODULE WorktreeProofs ---------------------------
(***************************************************************************)
(* What holds of the index of a linked worktree for any number of files,   *)
(* edits, faults and runs: no half of a clone is ever served, a run that   *)
(* says it is done has stored what was on the disk, a first index pays     *)
(* for nothing the main checkout already paid for, and the janitor reaps   *)
(* no worktree that lives.                                                 *)
(***************************************************************************)
EXTENDS WorktreeIndex, FiniteSetTheorems, TLAPS

-----------------------------------------------------------------------------
(* What a run knows of the rows at each of its steps.                      *)

\* The run is at a step, or it stamps the root first and takes that step then.
Toward(step) == pc = step \/ (pc \in {"locate", "mark"} /\ run.next = step)

\* The run holds a scan.
Scanned == pc \in {"stamp", "persist"} \/ Toward("chunks") \/ Toward("repair")

\* Until a scan is stored nothing is deleted and no file is looked for.
Unscanned ==
  pc \in {"open", "first", "clone", "copy", "verify", "drop", "seed", "build"}
    => run.scan = Nothing /\ run.gone = {}

\* While the clone is copied, its marker stands and every row is the donor's;
\* edges come after the rows, and the root before the recount.
CopyIsOfDonor ==
  /\ pc \in {"first", "clone"} => ~clone
  /\ pc \in {"copy", "verify"} =>
       /\ clone
       /\ run.copying \subseteq {<<"root", None>>} \cup ({"node", "chunk"} \X Kept(donor))
       /\ \A h \in Files : node[h] \in {NoRow, RowOf(donor[h])} /\ chunk[h] \in {None, donor[h]}
  /\ pc = "copy" => linked = {}
  /\ pc = "verify" => root # "none"

\* A project without a root, and one whose first index has not stored anything
\* yet, has no rows, unless a clone left them.
Blank ==
  ~clone /\ (root = "none" \/ pc \in {"first", "clone", "drop", "seed", "build"})
    => \A h \in Files : node[h] = NoRow /\ chunk[h] = None

\* The root is written with the first rows.
RootFirst ==
  /\ Toward("update") => root # "none"
  /\ Scanned /\ root = "none" => Kept(run.scan) = {}

\* Once the checksums are stored, they are those of the scan.
Stamped ==
  pc = "persist" \/ Toward("chunks") \/ Toward("repair")
    => \A h \in Kept(run.scan) : node[h].ck = run.scan[h]

\* A file the run found gone has lost its node.
GoneHaveNoNode ==
  Scanned => \A h \in run.gone : node[h] = NoRow /\ run.scan[h] = None

\* A coverage marker is the hash of the chunk that hangs on the node.
MarkerIsChunk ==
  ~clone => \A h \in Files :
    node[h].marker # None => chunk[h] = node[h].marker /\ h \in linked

\* Where the run goes once the root is stamped.
NextStands ==
  /\ pc \in {"stamp", "persist"} => run.next = "chunks"
  /\ pc \in {"locate", "mark"} => run.next \in {"chunks", "repair", "update", "done"}

RowsInv ==
  /\ TypeOK /\ NextStands /\ Unscanned /\ CopyIsOfDonor /\ Blank
  /\ RootFirst /\ Stamped /\ GoneHaveNoNode /\ MarkerIsChunk

-----------------------------------------------------------------------------
(* Why a run delivers.                                                     *)

\* No update and no repair starts under a clone that was not verified.
Unmarked == Toward("update") \/ Toward("repair") => ~clone

\* A stored summary is that of the stored checksum, or of the scan that is
\* about to be stamped.
SummaryOfRow ==
  ~clone => \A h \in Files :
    /\ node[h].ck # None => node[h].sum \in {None, node[h].ck}
    /\ pc = "stamp" /\ h \in Kept(run.scan) => node[h].sum \in {None, run.scan[h]}

\* What a build does not summarise it has a seed for, and the seeds are stored
\* before the chunks.
Summarised ==
  /\ pc \in {"stamp", "persist"} =>
       \A h \in Kept(run.scan) : run.scan[h] \in {node[h].sum, run.seeds[h]}
  /\ Toward("chunks") => \A h \in Kept(run.scan) : node[h].sum = run.scan[h]

\* No checksum is left of a file that is not in the scan.
Forgotten == Scanned => \A h \in Files : run.scan[h] = None => node[h].ck = None

\* Of a file nothing happened to, the scan is what is on the disk,
CalmScan == Scanned => \A h \in run.calm : run.scan[h] = Scan[h]

\* and the donor is, if the file is not one the clone leaves to an update.
CalmDonor ==
  pc \in {"clone", "copy", "verify"} =>
    \A h \in run.calm \ run.touched : donor[h] = Scan[h]

\* A verified clone holds every calm file it was to bring, and until the update
\* it holds nothing else.
CloneIsWhole ==
  run.cloned =>
    /\ ~Toward("repair")
    /\ pc # "done" => \A h \in run.calm \ run.touched : Scan[h] # None =>
         node[h].marker = Scan[h] /\ chunk[h] = Scan[h] /\ h \in linked
    /\ pc # "done" /\ (Toward("update") \/ Toward("done")) =>
         \A h \in Files : node[h] = RowOf(chunk[h]) /\ (chunk[h] # None => h \in linked)
    /\ pc # "done" /\ (Toward("update") \/ Toward("done")) =>
         \A h \in run.calm \ run.touched : chunk[h] = Scan[h]
    /\ pc # "done" /\ Toward("done") => run.touched = {}

\* Only a clone goes from the stamps of the root to an update or to the end.
Ways ==
  /\ pc # "done" /\ (Toward("done") \/ (Toward("update") /\ pc # "update")) => run.cloned
  /\ pc \notin {"update", "chunks", "done", "locate", "mark"} => ~run.cloned

DeliveryInv ==
  /\ Unmarked /\ SummaryOfRow /\ Summarised /\ Forgotten /\ CalmScan
  /\ CalmDonor /\ CloneIsWhole /\ Ways /\ Delivers

-----------------------------------------------------------------------------
(* Why a first index is free, and why the living are spared.               *)

\* What the donor had of the worktree when its first index began is not touched
\* by it, and comes with the clone or with the seeds.
Covered ==
  run.first =>
    /\ pc \notin {"idle", "open", "first"}
    /\ run.covered \cap run.touched = {}
    /\ \A h \in run.covered \cap run.calm : Scan[h] # None /\ donor[h] = Scan[h]
    /\ ~Toward("repair")
    /\ ~run.cloned =>
         /\ ~Toward("update")
         /\ pc \notin {"clone", "copy", "verify", "drop", "seed"} =>
              \A h \in run.covered \cap run.calm : run.seeds[h] = Scan[h]

\* A run that has looked at nothing has paid for nothing.
Unpaid == pc \in {"idle", "open", "first"} => run.paid = {}

FreeInv == Unpaid /\ Covered /\ FirstIndexIsFree

\* How far the janitor can have come with a worktree that is there: a directory
\* is missing only while its disk is, and by the time git is asked the disk is
\* back, so that the registry names it.
SweepInv ==
  /\ ~mounted => mounts >= 1
  /\ place # "absent" => registered
  /\ sweep # "idle" /\ ~absent => place # "absent"
  /\ sweep \in {"missing", "orphan"} /\ ~absent => mounts >= 1
  /\ sweep = "orphan" /\ ~absent => mounted
  /\ sweep = "dead" => absent

-----------------------------------------------------------------------------
(* Frames, types and writes.                                               *)

\* The user, git and the disk touch no row, no marker and none of what a run
\* holds but its calm files: a file they change is calm no longer.
LEMMA WorldFrame ==
  ASSUME TypeOK,
         World
  PROVE  /\ UNCHANGED <<node, chunk, linked, root, clone, pc, sweep, lastKind>>
         /\ run' \in Locals
         /\ run'.worktree = run.worktree /\ run'.first = run.first
         /\ run'.cloned = run.cloned
         /\ run'.touched = run.touched /\ run'.seeds = run.seeds /\ run'.scan = run.scan
         /\ run'.gone = run.gone /\ run'.copying = run.copying /\ run'.next = run.next
         /\ run'.covered = run.covered /\ run'.paid = run.paid
         /\ pc \in {"clone", "copy", "verify"} => donor' = donor
         /\ run'.calm \subseteq run.calm
         /\ pc # "idle" => \A h \in run'.calm : Scan'[h] = Scan[h] /\ donor'[h] = donor[h]
<1> USE DEF TypeOK, Locals, Disturb, project, rows, Present, Scan
<1>1. CASE Create
  <2>1. pc # "idle" => run'.calm = {}
    BY <1>1 DEF Create
  <2>2. QED
    BY <1>1, <2>1 DEF Create, janitor
<1>2. CASE Remove
  <2>1. pc # "idle" => run'.calm = {}
    BY <1>2 DEF Remove
  <2>2. QED
    BY <1>2, <2>1 DEF Remove
<1>3. CASE Unmount
  <2>1. pc # "idle" => run'.calm = {}
    BY <1>3 DEF Unmount
  <2>2. QED
    BY <1>3, <2>1 DEF Unmount, janitor
<1>4. CASE Mount
  <2>1. pc # "idle" => run'.calm = {}
    BY <1>4 DEF Mount
  <2>2. QED
    BY <1>4, <2>1 DEF Mount, janitor
<1>5. ASSUME NEW f \in Files, Edit(f)
      PROVE  /\ UNCHANGED <<project, pc, janitor, lastKind, donor, place, mounted>>
             /\ run' = (IF pc = "idle" THEN run ELSE [run EXCEPT !.calm = @ \ {f}])
             /\ \A h \in Files \ {f} : Scan'[h] = Scan[h]
  BY <1>5 DEF Edit
<1>6. ASSUME NEW f \in Files, IndexDonor(f)
      PROVE  /\ UNCHANGED <<project, pc, janitor, lastKind, disk>>
             /\ run' = (IF pc = "idle" THEN run ELSE [run EXCEPT !.calm = @ \ {f}])
             /\ \A h \in Files \ {f} : donor'[h] = donor[h]
             /\ pc \notin {"clone", "copy", "verify"}
  BY <1>6 DEF IndexDonor
<1>7. CASE \E f \in Files : Edit(f)
  BY <1>5, <1>7 DEF janitor
<1>8. CASE \E f \in Files : IndexDonor(f)
  BY <1>6, <1>8 DEF janitor, disk
<1>9. QED
  BY <1>1, <1>2, <1>3, <1>4, <1>7, <1>8 DEF World

\* The janitor touches neither the disk nor a run; it wipes a project only while
\* no run holds the lease.
LEMMA SweepFrame ==
  ASSUME Sweep
  PROVE  /\ UNCHANGED <<disk, donor, pc, run, lastKind, bounds>>
         /\ UNCHANGED project \/ (pc = "idle" /\ Wipe)
BY DEF Sweep, List, SeeMissing, SeeDonor, AskRegistry, Consider, Reap, LeaseIsFree

\* What a row is made of, and which row is none.
LEMMA RowTypes ==
  /\ None \notin Content /\ None \in Maybe /\ Nothing \in [Files -> Maybe]
  /\ NoRow \in Row /\ NoRows \in [Files -> Row]
  /\ \A h \in Files : NoRows[h] = NoRow /\ Nothing[h] = None
  /\ \A r \in Row : r = NoRow <=> r.ck = None /\ r.sum = None /\ r.marker = None
  /\ \A r \in Row : r.ck \in Maybe /\ r.sum \in Maybe /\ r.marker \in Maybe
<1>1. None \notin Content /\ None \in Maybe
  BY WorktreeAssumption DEF Content, Maybe
<1>2. NoRow \in Row
  BY <1>1 DEF NoRow, Row
<1>3. \A r \in Row : r = NoRow <=> r.ck = None /\ r.sum = None /\ r.marker = None
  BY <1>1 DEF NoRow, Row
<1>4. QED
  BY <1>1, <1>2, <1>3 DEF Nothing, NoRows, Row

\* A row that gets a checksum, a summary or a marker is a row.
LEMMA RowWrites ==
  ASSUME NEW r \in Row,
         NEW c \in Maybe \ {None}
  PROVE  /\ [r EXCEPT !.ck = c] \in Row \ {NoRow}
         /\ [r EXCEPT !.sum = c] \in Row \ {NoRow}
         /\ [r EXCEPT !.ck = c, !.sum = c] \in Row \ {NoRow}
         /\ [r EXCEPT !.marker = r.ck] \in Row
         /\ r.ck # None => [r EXCEPT !.marker = r.ck] # NoRow
BY RowTypes DEF Row, NoRow

\* A scan gives each path a content or nothing.
LEMMA ScanType ==
  ASSUME TypeOK
  PROVE  Scan \in [Files -> Maybe]
BY RowTypes DEF TypeOK, Scan

\* Every edit writes a content that was never there.
LEMMA FreshType ==
  ASSUME TypeOK,
         Edited
  PROVE  Fresh \in Maybe /\ edits' \in 0..MaxEdits /\ UNCHANGED <<faults, mounts>>
BY WorktreeAssumption DEF TypeOK, Edited, Fresh, Maybe, Content

\* What a clone copies is the root, a node or a chunk.
LEMMA JobTypes ==
  ASSUME TypeOK,
         NEW job \in run.copying
  PROVE  /\ job = <<job[1], job[2]>>
         /\ job[1] \in {"root", "node", "chunk"} /\ job[2] \in Files \cup {None}
BY DEF TypeOK, Locals

\* _update finds something changed or deleted.
Work == \E h \in Files : IF Scan[h] = None THEN node[h].ck # None ELSE node[h].ck # Scan[h]

\* The files whose chunks a run writes,
Chunked == {h \in Files : /\ run.scan[h] # None \/ h \in run.gone
                          /\ run.cloned => h \in run.touched}
\* and those the repair does.
Missing == {h \in Files : run.scan[h] # None /\ node[h].marker # node[h].ck}

\* Build, file by file: who is not in the scan loses its row, who is there
\* keeps its checksum and gets the summary of the scan, unless it has a seed.
LEMMA BuildRows ==
  ASSUME TypeOK,
         Build
  PROVE  /\ run' \in Locals
         /\ run'.worktree = run.worktree /\ run'.first = run.first
         /\ run'.cloned = run.cloned /\ run'.touched = run.touched
         /\ run'.seeds = run.seeds /\ run'.copying = run.copying
         /\ run'.covered = run.covered /\ run'.calm = run.calm
         /\ run'.scan = Scan /\ run'.next = "chunks" /\ pc' = "stamp"
         /\ \A h \in run'.gone : h \in Files /\ Scan[h] = None
         /\ \A h \in run'.paid : h \in run.paid \/ (Scan[h] # None /\ run.seeds[h] # Scan[h])
         /\ chunk' = chunk /\ clone' = clone /\ donor' = donor /\ Scan' = Scan
         /\ linked' \subseteq linked /\ \A h \in linked : h \in linked' <=> Scan[h] # None
         /\ root' # "none" \/ (root = "none" /\ \A h \in Files : Scan[h] = None)
         /\ node' \in [Files -> Row]
         /\ \A h \in Files : Scan[h] = None => node'[h] = NoRow
         /\ \A h \in Files : Scan[h] # None =>
              /\ node'[h].ck = node[h].ck /\ node'[h].marker = node[h].marker
              /\ run.seeds[h] = Scan[h] => node'[h].sum = node[h].sum
              /\ run.seeds[h] # Scan[h] => node'[h].sum = Scan[h]
<1> USE RowTypes, ScanType DEF TypeOK
<1>1. /\ run' \in Locals
         /\ run'.worktree = run.worktree /\ run'.first = run.first
         /\ run'.cloned = run.cloned /\ run'.touched = run.touched
         /\ run'.seeds = run.seeds /\ run'.copying = run.copying
         /\ run'.covered = run.covered /\ run'.calm = run.calm
      /\ run'.scan = Scan /\ run'.next = "chunks" /\ pc' = "stamp"
      /\ \A h \in run'.gone : h \in Files /\ Scan[h] = None
      /\ \A h \in run'.paid : h \in run.paid \/ (Scan[h] # None /\ run.seeds[h] # Scan[h])
  BY DEF Build, Goto, Locals, Steps, Kept, Has
<1>2. /\ chunk' = chunk /\ clone' = clone /\ donor' = donor /\ Scan' = Scan
      /\ linked' \subseteq linked /\ \A h \in linked : h \in linked' <=> Scan[h] # None
      /\ root' # "none" \/ (root = "none" /\ \A h \in Files : Scan[h] = None)
  BY DEF Build, Kept, Has, Located, Scan, Present, disk
<1>3. /\ node' \in [Files -> Row]
      /\ \A h \in Files : Scan[h] = None => node'[h] = NoRow
      /\ \A h \in Files : Scan[h] # None =>
           /\ node'[h].ck = node[h].ck /\ node'[h].marker = node[h].marker
           /\ run.seeds[h] = Scan[h] => node'[h].sum = node[h].sum
           /\ run.seeds[h] # Scan[h] => node'[h].sum = Scan[h]
  BY DEF Build, Kept, Row
<1>4. QED
  BY <1>1, <1>2, <1>3

\* Update, file by file: without work to do nothing is written; with it, who is
\* gone loses its row and who is there has the checksum and summary of the scan.
LEMMA UpdateRows ==
  ASSUME TypeOK,
         Update
  PROVE  /\ run' \in Locals
         /\ run'.worktree = run.worktree /\ run'.first = run.first
         /\ run'.cloned = run.cloned /\ run'.touched = run.touched
         /\ run'.seeds = run.seeds /\ run'.copying = run.copying
         /\ run'.covered = run.covered /\ run'.calm = run.calm
         /\ run'.scan = Scan
         /\ run'.next = IF Work /\ (\E h \in Files : Scan[h] # None) THEN "chunks" ELSE "repair"
         /\ pc' = IF ~run.cloned THEN "locate" ELSE IF Work THEN "chunks" ELSE "done"
         /\ \A h \in run'.gone : h \in Files /\ Scan[h] = None /\ Work
         /\ \A h \in run'.paid : h \in run.paid \/ (Scan[h] # None /\ node[h].sum # Scan[h])
         /\ chunk' = chunk /\ clone' = clone /\ root' = root /\ donor' = donor
         /\ Scan' = Scan
         /\ linked' \subseteq linked
         /\ \A h \in linked : h \in linked' <=> ~Work \/ Scan[h] # None
         /\ node' \in [Files -> Row]
         /\ ~Work => node' = node
         /\ Work => \A h \in Files : Scan[h] = None => node'[h] = NoRow
         /\ Work => \A h \in Files : Scan[h] # None =>
              /\ node'[h].ck = Scan[h] /\ node'[h].sum = Scan[h]
              /\ node'[h].marker = node[h].marker
<1> USE RowTypes, ScanType DEF TypeOK
<1>1. Work <=> Changed \cup Deleted # {}
  BY DEF Work, Changed, Deleted, Kept
<1> HIDE DEF Work
<1>2. /\ run' \in Locals
         /\ run'.worktree = run.worktree /\ run'.first = run.first
         /\ run'.cloned = run.cloned /\ run'.touched = run.touched
         /\ run'.seeds = run.seeds /\ run'.copying = run.copying
         /\ run'.covered = run.covered /\ run'.calm = run.calm
      /\ run'.scan = Scan
  BY <1>1 DEF Update, Locals, Steps, Kept, Has
<1>3. /\ run'.next = IF Work /\ (\E h \in Files : Scan[h] # None) THEN "chunks" ELSE "repair"
      /\ pc' = IF ~run.cloned THEN "locate" ELSE IF Work THEN "chunks" ELSE "done"
  BY <1>1 DEF Update, Goto, Locals, Kept
<1>4. \A h \in run'.gone : h \in Files /\ Scan[h] = None /\ Work
  BY <1>1 DEF Update, Locals, Kept
<1>5. \A h \in run'.paid : h \in run.paid \/ (Scan[h] # None /\ node[h].sum # Scan[h])
  BY <1>1 DEF Update, Locals, Kept
<1>6. /\ chunk' = chunk /\ clone' = clone /\ root' = root /\ donor' = donor /\ Scan' = Scan
      /\ linked' \subseteq linked
         /\ \A h \in linked : h \in linked' <=> ~Work \/ Scan[h] # None
  BY <1>1 DEF Update, Kept, Has, Scan, Present, disk
<1>7. /\ node' \in [Files -> Row]
      /\ ~Work => node' = node
      /\ Work => \A h \in Files : Scan[h] = None => node'[h] = NoRow
      /\ Work => \A h \in Files : Scan[h] # None =>
           /\ node'[h].ck = Scan[h] /\ node'[h].sum = Scan[h]
           /\ node'[h].marker = node[h].marker
  <2>1. node' = [h \in Files |->
           IF Work /\ Scan[h] = None THEN NoRow
           ELSE IF Scan[h] # None /\ node[h].ck # Scan[h]
             THEN [node[h] EXCEPT !.ck = Scan[h], !.sum = Scan[h]]
           ELSE IF Work /\ Scan[h] # None /\ node[h].sum # Scan[h]
             THEN [node[h] EXCEPT !.sum = Scan[h]]
           ELSE node[h]]
    BY <1>1 DEF Update, Kept, Changed
  <2>2. ~Work => \A h \in Files : Scan[h] # None => node[h].ck = Scan[h]
    BY DEF Work
  <2>3. \A h \in Files : node'[h] \in Row
    BY <2>1 DEF Row
  <2>4. ~Work => node' = node
    BY <2>1, <2>2
  <2>5. \A h \in Files : Work /\ Scan[h] # None =>
           /\ node'[h].ck = Scan[h] /\ node'[h].sum = Scan[h]
           /\ node'[h].marker = node[h].marker
    BY <2>1 DEF Row
  <2>6. QED
    BY <2>1, <2>3, <2>4, <2>5
<1>8. QED
  BY <1>2, <1>3, <1>4, <1>5, <1>6, <1>7

\* index_code on some of the files: their chunks are those of the scan, and so
\* are their markers; the others stay.
LEMMA IndexCodeRows ==
  ASSUME TypeOK,
         NEW files \in SUBSET Files,
         NEW row \in [Files -> Row],
         IndexCode(files, row)
  PROVE  /\ run' \in Locals
         /\ run'.worktree = run.worktree /\ run'.first = run.first
         /\ run'.cloned = run.cloned /\ run'.touched = run.touched
         /\ run'.seeds = run.seeds /\ run'.scan = run.scan /\ run'.gone = run.gone
         /\ run'.copying = run.copying /\ run'.next = run.next
         /\ run'.covered = run.covered /\ run'.calm = run.calm
         /\ \A h \in run'.paid : h \in run.paid \/
              (h \in files /\ run.scan[h] # None
               /\ run.scan[h] # chunk[h] /\ run.scan[h] # run.seeds[h])
         /\ node' \in [Files -> Row] /\ chunk' \in [Files -> Maybe]
         /\ linked' \subseteq Files
         /\ \A h \in Files \ files :
              node'[h] = row[h] /\ chunk'[h] = chunk[h] /\ (h \in linked' <=> h \in linked)
         /\ \A h \in files : chunk'[h] = run.scan[h] /\ (h \in linked' <=> run.scan[h] # None)
         /\ \A h \in files : run.scan[h] = None => node'[h] = row[h]
         /\ \A h \in files : run.scan[h] # None =>
              node'[h].ck = row[h].ck /\ node'[h].sum = row[h].sum /\ node'[h].marker = row[h].ck
<1> USE RowTypes DEF TypeOK
<1>1. /\ run' \in Locals
         /\ run'.worktree = run.worktree /\ run'.first = run.first
         /\ run'.cloned = run.cloned /\ run'.touched = run.touched
         /\ run'.seeds = run.seeds /\ run'.scan = run.scan /\ run'.gone = run.gone
         /\ run'.copying = run.copying /\ run'.next = run.next
         /\ run'.covered = run.covered /\ run'.calm = run.calm
      /\ \A h \in run'.paid : h \in run.paid \/
           (h \in files /\ run.scan[h] # None
            /\ run.scan[h] # chunk[h] /\ run.scan[h] # run.seeds[h])
  BY DEF IndexCode, Locals, Kept
<1>2. /\ chunk' \in [Files -> Maybe] /\ linked' \subseteq Files
      /\ \A h \in Files \ files : chunk'[h] = chunk[h] /\ (h \in linked' <=> h \in linked)
      /\ \A h \in files : chunk'[h] = run.scan[h] /\ (h \in linked' <=> run.scan[h] # None)
  BY DEF IndexCode, Locals, Kept
<1>3. /\ node' \in [Files -> Row]
      /\ \A h \in Files \ files : node'[h] = row[h]
      /\ \A h \in files : run.scan[h] = None => node'[h] = row[h]
      /\ \A h \in files : run.scan[h] # None =>
           node'[h].ck = row[h].ck /\ node'[h].sum = row[h].sum /\ node'[h].marker = row[h].ck
  BY DEF IndexCode, Locals, Kept, Row
<1>4. QED
  BY <1>1, <1>2, <1>3

\* The chunks of an index or update: index_code on the files of the scan and
\* on those that went, of a clone only on what it left to the update.
LEMMA ChunksRows ==
  ASSUME TypeOK,
         Chunks
  PROVE  /\ run' \in Locals /\ pc' = "done"
         /\ run'.worktree = run.worktree /\ run'.first = run.first
         /\ run'.cloned = run.cloned /\ run'.touched = run.touched
         /\ run'.seeds = run.seeds /\ run'.scan = run.scan /\ run'.gone = run.gone
         /\ run'.copying = run.copying /\ run'.next = run.next
         /\ run'.covered = run.covered /\ run'.calm = run.calm
         /\ clone' = clone /\ root' = root /\ donor' = donor /\ Scan' = Scan
         /\ \A h \in run'.paid : h \in run.paid \/
              (h \in Chunked /\ run.scan[h] # None
               /\ run.scan[h] # chunk[h] /\ run.scan[h] # run.seeds[h])
         /\ node' \in [Files -> Row] /\ chunk' \in [Files -> Maybe]
         /\ linked' \subseteq Files
         /\ \A h \in Files \ Chunked :
              node'[h] = node[h] /\ chunk'[h] = chunk[h] /\ (h \in linked' <=> h \in linked)
         /\ \A h \in Chunked : chunk'[h] = run.scan[h] /\ (h \in linked' <=> run.scan[h] # None)
         /\ \A h \in Chunked : run.scan[h] = None => node'[h] = node[h]
         /\ \A h \in Chunked : run.scan[h] # None =>
              node'[h].ck = node[h].ck /\ node'[h].sum = node[h].sum /\ node'[h].marker = node[h].ck
<1>1. IndexCode(Chunked, node)
  <2>1. Chunked = (Kept(run.scan) \cup run.gone) \cap (IF run.cloned THEN run.touched ELSE Files)
    BY DEF Chunked, TypeOK, Locals, Kept
  <2>2. QED
    BY <2>1 DEF Chunks
<1>2. clone' = clone /\ root' = root /\ donor' = donor /\ Scan' = Scan /\ pc' = "done"
  BY DEF Chunks, Goto, Scan, Present, disk
<1>3. Chunked \in SUBSET Files /\ node \in [Files -> Row]
  BY DEF TypeOK, Chunked
<1>4. QED
  BY <1>1, <1>2, <1>3, IndexCodeRows

\* The repair: index_code on the files without their marker, and the summaries
\* that are missing.
LEMMA RepairRows ==
  ASSUME TypeOK,
         Repair
  PROVE  /\ run' \in Locals /\ pc' = "done"
         /\ run'.worktree = run.worktree /\ run'.first = run.first
         /\ run'.cloned = run.cloned /\ run'.touched = run.touched
         /\ run'.seeds = run.seeds /\ run'.scan = run.scan /\ run'.gone = run.gone
         /\ run'.copying = run.copying /\ run'.next = run.next
         /\ run'.covered = run.covered /\ run'.calm = run.calm
         /\ clone' = clone /\ root' = root /\ donor' = donor /\ Scan' = Scan
         /\ node' \in [Files -> Row] /\ chunk' \in [Files -> Maybe]
         /\ linked' \subseteq Files
         /\ \A h \in Files \ Missing :
              /\ node'[h].ck = node[h].ck /\ node'[h].marker = node[h].marker
              /\ chunk'[h] = chunk[h] /\ (h \in linked' <=> h \in linked)
         /\ \A h \in Missing : /\ chunk'[h] = run.scan[h] /\ h \in linked'
                               /\ node'[h].ck = node[h].ck /\ node'[h].marker = node[h].ck
         /\ \A h \in Files : run.scan[h] # None /\ node[h].sum = None => node'[h].sum = run.scan[h]
         /\ \A h \in Files : node[h].sum # None => node'[h].sum = node[h].sum
         /\ \A h \in Files : run.scan[h] = None => node'[h] = node[h]
<1> DEFINE row == [f \in Files |-> IF f \in Kept(run.scan) /\ node[f].sum = None
                       THEN [node[f] EXCEPT !.sum = run.scan[f]] ELSE node[f]]
<1>1. IndexCode(Missing, row)
  <2>1. Missing = {f \in Kept(run.scan) : node[f].marker # node[f].ck}
    BY DEF Missing, Kept
  <2>2. QED
    BY <2>1 DEF Repair
<1>2. Missing \in SUBSET Files
  BY DEF Missing
<1>3. clone' = clone /\ root' = root /\ donor' = donor /\ Scan' = Scan /\ pc' = "done"
  BY DEF Repair, Goto, Scan, Present, disk
<1>4. /\ row \in [Files -> Row]
      /\ \A h \in Files : /\ row[h].ck = node[h].ck /\ row[h].marker = node[h].marker
                          /\ run.scan[h] # None /\ node[h].sum = None => row[h].sum = run.scan[h]
                          /\ node[h].sum # None => row[h].sum = node[h].sum
                          /\ run.scan[h] = None => row[h] = node[h]
  BY DEF TypeOK, Locals, Kept, Row
<1> HIDE DEF row
<1>5. /\ run' \in Locals
         /\ run'.worktree = run.worktree /\ run'.first = run.first
         /\ run'.cloned = run.cloned /\ run'.touched = run.touched
         /\ run'.seeds = run.seeds /\ run'.scan = run.scan /\ run'.gone = run.gone
         /\ run'.copying = run.copying /\ run'.next = run.next
         /\ run'.covered = run.covered /\ run'.calm = run.calm
      /\ \A h \in run'.paid : h \in run.paid \/
           (h \in Missing /\ run.scan[h] # None
            /\ run.scan[h] # chunk[h] /\ run.scan[h] # run.seeds[h])
      /\ node' \in [Files -> Row] /\ chunk' \in [Files -> Maybe] /\ linked' \subseteq Files
      /\ \A h \in Files \ Missing :
           node'[h] = row[h] /\ chunk'[h] = chunk[h] /\ (h \in linked' <=> h \in linked)
      /\ \A h \in Missing : chunk'[h] = run.scan[h] /\ (h \in linked' <=> run.scan[h] # None)
      /\ \A h \in Missing : run.scan[h] = None => node'[h] = row[h]
      /\ \A h \in Missing : run.scan[h] # None =>
           node'[h].ck = row[h].ck /\ node'[h].sum = row[h].sum /\ node'[h].marker = row[h].ck
  BY <1>1, <1>2, <1>4, IndexCodeRows
<1>6. QED
  BY <1>2, <1>3, <1>4, <1>5 DEF Missing

-----------------------------------------------------------------------------
(* Types.                                                                  *)

\* A run keeps the types of its locals.
LEMMA LocalsKept ==
  ASSUME TypeOK, RowsInv,
         Next
  PROVE  run' \in Locals /\ pc' \in Steps
<1> USE RowTypes, ScanType DEF TypeOK
<1>1. CASE World
  BY <1>1, WorldFrame DEF Locals
<1>2. CASE Start
  <2>1. NoRun \in Locals
    BY DEF NoRun, Locals, Steps
  <2>2. QED
    BY <1>2, <2>1 DEF Start, Goto, Locals, Steps
<1>3. CASE Open
  BY <1>3 DEF Open, Goto, Steps
<1>4. CASE First
  <2>1. PICK touched \in SUBSET Files, covered \in SUBSET Files :
           run' = run \/ run' = [run EXCEPT !.first = TRUE, !.touched = touched, !.covered = covered]
    BY <1>4 DEF First, Touched, Kept
  <2>2. run' \in Locals
    <3>1. CASE run' = run
      BY <3>1
    <3>2. CASE run' = [run EXCEPT !.first = TRUE, !.touched = touched, !.covered = covered]
      BY <3>2 DEF Locals
    <3>3. QED
      BY <2>1, <3>1, <3>2
  <2>3. pc' \in Steps
    BY <1>4 DEF First, Goto, Steps
  <2>4. QED
    BY <2>2, <2>3
<1>5. CASE BeginClone
  <2>1. {<<"root", None>>} \cup ({"node", "chunk"} \X Kept(donor))
            \subseteq {"root", "node", "chunk"} \X (Files \cup {None})
    BY DEF Kept
  <2>2. QED
    BY <1>5, <2>1 DEF BeginClone, Goto, Locals, Steps
<1>6. CASE CopyEdges
  BY <1>6 DEF CopyEdges, Goto, Steps
<1>7. CASE VerifyClone
  BY <1>7 DEF VerifyClone, Recounted, Goto, Locals, Steps
<1>8. CASE CloneRefused
  BY <1>8 DEF CloneRefused, Goto, Steps
<1>9. CASE \E job \in run.copying : Copy(job[1], job[2])
  <2>1. PICK job \in run.copying : Copy(job[1], job[2])
    BY <1>9
  <2>2. job[1] \in {"root", "node", "chunk"} /\ job[2] \in Files \cup {None}
    BY JobTypes
  <2>3. QED
    BY <2>1, <2>2 DEF Copy, Locals, Steps
<1>10. CASE \E job \in run.copying : CopyLoses(job[1], job[2])
  <2>1. PICK job \in run.copying : CopyLoses(job[1], job[2])
    BY <1>10
  <2>2. job[1] \in {"root", "node", "chunk"} /\ job[2] \in Files \cup {None}
    BY JobTypes
  <2>3. QED
    BY <2>1, <2>2 DEF CopyLoses, Locals, Steps
<1>11. CASE DropClone
  BY <1>11 DEF DropClone, Goto, Steps
<1>12. CASE Seed
  BY <1>12 DEF Seed, Seeds, Goto, Locals, Steps
<1>13. CASE Build
  <2>1. Has(node) \ Kept(Scan) \subseteq Files
           /\ {f \in Kept(Scan) : run.seeds[f] # Scan[f]} \subseteq Files
    BY DEF Has, Kept
  <2>2. QED
    BY <1>13, <2>1 DEF Build, Goto, Locals, Steps
<1>14. CASE Stamp
  BY <1>14 DEF Stamp, Goto, Steps
<1>15. CASE PersistSeeded
  BY <1>15 DEF PersistSeeded, Goto, Steps
<1>16. CASE Locate
  BY <1>16 DEF Locate, Goto, Steps
<1>17. CASE Mark
  BY <1>17 DEF Mark, Goto, Locals
<1>18. CASE Update
  BY <1>18, UpdateRows DEF Locals, Steps
<1>19. CASE Chunks
  BY <1>19, ChunksRows DEF Locals, Steps
<1>20. CASE Repair
  BY <1>20, RepairRows DEF Locals, Steps
<1>21. CASE Finish
  <2>1. NoRun \in Locals
    BY DEF NoRun, Locals, Steps
  <2>2. QED
    BY <1>21, <2>1 DEF Finish, Return, Goto, Steps
<1>22. CASE CloneFails
  BY <1>22 DEF CloneFails, Goto, Steps
<1>23. CASE DropFails
  BY <1>23 DEF DropFails, Goto, Steps
<1>24. CASE Crash
  <2>1. NoRun \in Locals
    BY DEF NoRun, Locals, Steps
  <2>2. QED
    BY <1>24, <2>1 DEF Crash, Return, Goto, Steps
<1>25. CASE Sweep
  BY <1>25, SweepFrame DEF Locals
<1>26. QED
  BY <1>1, <1>2, <1>3, <1>4, <1>5, <1>6, <1>7, <1>8, <1>9, <1>10, <1>11, <1>12, <1>13,
     <1>14, <1>15, <1>16, <1>17, <1>18, <1>19, <1>20, <1>21, <1>22, <1>23, <1>24, <1>25 DEF
     Next, RunStep, RunFault

\* So do the rows, the chunks, the root and the clone marker.
LEMMA RowsKept ==
  ASSUME TypeOK, RowsInv,
         Next
  PROVE  node' \in [Files -> Row] /\ chunk' \in [Files -> Maybe] /\ clone' \in BOOLEAN
         /\ root' \in {"none", "bare", "located", "marked"}
<1> USE RowTypes, RowWrites, ScanType DEF TypeOK, project, rows
<1>1. CASE World
  BY <1>1, WorldFrame DEF Locals, Kept
<1>2. CASE Start
  BY <1>2 DEF Start, NoRun, Present, Goto, Locals, Kept
<1>3. CASE Open
  BY <1>3 DEF Open, Unfinished, Wipe, Goto, Locals, Kept
<1>4. CASE First
  BY <1>4 DEF First, Touched, Scan, Present, Goto, Locals, Kept
<1>5. CASE BeginClone
  BY <1>5 DEF BeginClone, Goto, Locals, Kept
<1>6. CASE CopyEdges
  BY <1>6 DEF CopyEdges, Joinable, Goto, Locals, Kept
<1>7. CASE VerifyClone
  BY <1>7 DEF VerifyClone, Recounted, Goto, Locals, Kept
<1>8. CASE CloneRefused
  BY <1>8 DEF CloneRefused, Goto, Locals, Kept
<1>9. CASE \E job \in run.copying : Copy(job[1], job[2])
  <2>1. PICK job \in run.copying : Copy(job[1], job[2])
    BY <1>9
  <2>2. job[1] \in {"root", "node", "chunk"} /\ job[2] \in Files \cup {None}
    BY JobTypes
  <2>3. QED
    BY <2>1, <2>2 DEF Copy, Locals, Row, RowOf, Kept, RowsInv, CopyIsOfDonor
<1>10. CASE \E job \in run.copying : CopyLoses(job[1], job[2])
  BY <1>10 DEF CopyLoses, Fault, Locals, Kept
<1>11. CASE DropClone
  BY <1>11 DEF DropClone, Wipe, Goto, Locals, Kept
<1>12. CASE Seed
  BY <1>12 DEF Seed, Seeds, Goto, Locals, Kept
<1>13. CASE Build
  BY <1>13 DEF Build, Scan, Present, Located, Goto, Locals, Kept
<1>14. CASE Stamp
  BY <1>14 DEF Stamp, Goto, Locals, Kept
<1>15. CASE PersistSeeded
  BY <1>15 DEF PersistSeeded, Reused, Goto, Locals, Kept
<1>16. CASE Locate
  BY <1>16 DEF Locate, Located, Goto, Locals, Kept
<1>17. CASE Mark
  BY <1>17 DEF Mark, Goto, Locals, Kept
<1>18. CASE Update
  BY <1>18 DEF Update, Scan, Present, Changed, Deleted, Goto, Locals, Kept
<1>19. CASE Chunks
  BY <1>19 DEF Chunks, IndexCode, Goto, Locals, Kept
<1>20. CASE Repair
  BY <1>20 DEF Repair, IndexCode, Goto, Locals, Kept
<1>21. CASE Finish
  BY <1>21 DEF Finish, Return, NoRun, Goto, Locals, Kept
<1>22. CASE CloneFails
  BY <1>22 DEF CloneFails, Fault, Goto, Locals, Kept
<1>23. CASE DropFails
  BY <1>23 DEF DropFails, Fault, Goto, Locals, Kept
<1>24. CASE Crash
  BY <1>24 DEF Crash, Fault, Return, NoRun, Goto, Locals, Kept
<1>25. CASE Sweep
  BY <1>25, SweepFrame DEF Wipe
<1>26. QED
  BY <1>1, <1>2, <1>3, <1>4, <1>5, <1>6, <1>7, <1>8, <1>9, <1>10, <1>11, <1>12, <1>13,
     <1>14, <1>15, <1>16, <1>17, <1>18, <1>19, <1>20, <1>21, <1>22, <1>23, <1>24, <1>25 DEF
     Next, RunStep, RunFault

\* An edge hangs a chunk that is there on a node that is there.
LEMMA LinkedKept ==
  ASSUME TypeOK, RowsInv,
         Next
  PROVE  \A h \in linked' : h \in Files /\ node'[h] # NoRow /\ chunk'[h] # None
<1> USE RowTypes, ScanType DEF TypeOK, project, rows
<1>1. CASE World
  BY <1>1, WorldFrame DEF Locals, Kept, Has
<1>2. CASE Start
  BY <1>2 DEF Start, Kept, Has
<1>3. CASE Open
  BY <1>3 DEF Open, Wipe, Kept, Has
<1>4. CASE First
  BY <1>4 DEF First, Kept, Has
<1>5. CASE BeginClone
  BY <1>5 DEF BeginClone, Kept, Has
<1>6. CASE CopyEdges
  BY <1>6 DEF CopyEdges, Joinable, Kept, Has
<1>7. CASE VerifyClone
  BY <1>7 DEF VerifyClone, Kept, Has
<1>8. CASE CloneRefused
  BY <1>8 DEF CloneRefused, Kept, Has
<1>9. CASE \E job \in run.copying : Copy(job[1], job[2])
  <2>1. PICK job \in run.copying : Copy(job[1], job[2])
    BY <1>9
  <2>2. job[1] \in {"root", "node", "chunk"} /\ job[2] \in Files \cup {None}
    BY JobTypes
  <2>3. QED
    BY <2>1, <2>2 DEF Copy, RowsInv, CopyIsOfDonor
<1>10. CASE \E job \in run.copying : CopyLoses(job[1], job[2])
  BY <1>10 DEF CopyLoses, Kept, Has
<1>11. CASE DropClone
  BY <1>11 DEF DropClone, Wipe
<1>12. CASE Seed
  BY <1>12 DEF Seed, Kept, Has
<1>13. CASE Build
  <2>1. /\ node \in [Files -> Row] /\ node' \in [Files -> Row]
        /\ \A h \in linked : h \in Files /\ node[h] # NoRow /\ chunk[h] # None
    BY <1>13, BuildRows DEF Has, Kept
  <2>2. \A h \in linked' : h \in Files /\ chunk'[h] # None
    BY <1>13, <2>1, BuildRows
  <2>3. \A h \in linked' : node'[h].ck # None \/ (h \in linked /\ node'[h].ck = node[h].ck)
    BY <1>13, <2>1, <2>2, BuildRows
  <2>4. \A h \in linked' : node'[h].ck # None \/ node'[h].sum # None \/ node'[h].sum = node[h].sum
    BY <1>13, <2>1, BuildRows
  <2>5. \A h \in linked' :
          node'[h].ck # None \/ node'[h].marker # None \/ node'[h].marker = node[h].marker
    BY <1>13, <2>1, BuildRows
  <2>6. \A h \in linked' : node'[h] # NoRow
    BY <2>1, <2>2, <2>3, <2>4, <2>5
  <2>7. QED
    BY <2>2, <2>6
<1>14. CASE Stamp
  BY <1>14, RowWrites DEF Stamp, Goto, Locals, Kept, Has, RowsInv
<1>15. CASE PersistSeeded
  BY <1>15, RowWrites DEF PersistSeeded, Reused, Goto, Locals, Kept, Has, RowsInv
<1>16. CASE Locate
  BY <1>16 DEF Locate, Kept, Has
<1>17. CASE Mark
  BY <1>17 DEF Mark, Kept, Has
<1>18. CASE Update
  <2>1. /\ node \in [Files -> Row] /\ node' \in [Files -> Row]
        /\ \A h \in linked : h \in Files /\ node[h] # NoRow /\ chunk[h] # None
    BY <1>18, UpdateRows DEF Has, Kept
  <2>2. \A h \in linked' : h \in Files /\ chunk'[h] # None
    BY <1>18, <2>1, UpdateRows
  <2>3. \A h \in linked' : node'[h].ck # None \/ (h \in linked /\ node'[h].ck = node[h].ck)
    <3>1. CASE Work
      <4>1. \A h \in linked' : Scan[h] # None
        BY <1>18, <3>1, UpdateRows
      <4>2. \A h \in Files : Scan[h] # None => node'[h].ck = Scan[h]
        BY <1>18, <3>1, UpdateRows
      <4>3. QED
        BY <2>2, <4>1, <4>2
    <3>2. CASE ~Work
      BY <1>18, <2>1, <3>2, UpdateRows
    <3>3. QED
      BY <3>1, <3>2
  <2>4. \A h \in linked' : node'[h].ck # None \/ node'[h].sum # None \/ node'[h].sum = node[h].sum
    BY <1>18, <2>1, UpdateRows
  <2>5. \A h \in linked' :
          node'[h].ck # None \/ node'[h].marker # None \/ node'[h].marker = node[h].marker
    BY <1>18, <2>1, UpdateRows
  <2>6. \A h \in linked' : node'[h] # NoRow
    BY <2>1, <2>2, <2>3, <2>4, <2>5
  <2>7. QED
    BY <2>2, <2>6
<1>19. CASE Chunks
  <2>1. /\ node \in [Files -> Row] /\ node' \in [Files -> Row]
        /\ \A h \in linked : h \in Files /\ node[h] # NoRow /\ chunk[h] # None
    BY <1>19, ChunksRows DEF Has, Kept
  <2>2. \A h \in linked' : h \in Files /\ chunk'[h] # None
    <3>1. \A h \in linked' \ Chunked : h \in linked /\ chunk'[h] = chunk[h]
      BY <1>19, ChunksRows
    <3>2. \A h \in linked' \cap Chunked : h \in Files /\ run.scan[h] # None /\ chunk'[h] = run.scan[h]
      BY <1>19, ChunksRows DEF Chunked
    <3>3. QED
      BY <2>1, <3>1, <3>2
  <2>3. \A h \in linked' : node'[h].ck # None \/ (h \in linked /\ node'[h].ck = node[h].ck)
    BY <1>19, <2>1, <2>2, ChunksRows DEF RowsInv, Stamped, Toward, Chunks, Kept
  <2>4. \A h \in linked' : node'[h].ck # None \/ node'[h].sum # None \/ node'[h].sum = node[h].sum
    BY <1>19, <2>1, ChunksRows DEF RowsInv
  <2>5. \A h \in linked' :
          node'[h].ck # None \/ node'[h].marker # None \/ node'[h].marker = node[h].marker
    BY <1>19, <2>1, ChunksRows DEF RowsInv, Stamped, Toward, Chunks, Kept
  <2>6. \A h \in linked' : node'[h] # NoRow
    BY <2>1, <2>2, <2>3, <2>4, <2>5
  <2>7. QED
    BY <2>2, <2>6
<1>20. CASE Repair
  <2>1. /\ node \in [Files -> Row] /\ node' \in [Files -> Row]
        /\ \A h \in linked : h \in Files /\ node[h] # NoRow /\ chunk[h] # None
    BY <1>20, RepairRows DEF Has, Kept
  <2>2. \A h \in linked' : h \in Files /\ chunk'[h] # None
    <3>1. \A h \in linked' \ Missing : h \in linked /\ chunk'[h] = chunk[h]
      BY <1>20, RepairRows
    <3>2. \A h \in linked' \cap Missing : h \in Files /\ run.scan[h] # None /\ chunk'[h] = run.scan[h]
      BY <1>20, RepairRows DEF Missing
    <3>3. QED
      BY <2>1, <3>1, <3>2
  <2>3. \A h \in linked' : node'[h].ck # None \/ (h \in linked /\ node'[h].ck = node[h].ck)
    BY <1>20, <2>1, <2>2, RepairRows DEF RowsInv, Stamped, Toward, Repair, Kept, Missing
  <2>4. \A h \in linked' : node'[h].ck # None \/ node'[h].sum # None \/ node'[h].sum = node[h].sum
    BY <1>20, <2>1, RepairRows DEF RowsInv
  <2>5. \A h \in linked' :
          node'[h].ck # None \/ node'[h].marker # None \/ node'[h].marker = node[h].marker
    BY <1>20, <2>1, RepairRows DEF RowsInv, Stamped, Toward, Repair, Kept
  <2>6. \A h \in linked' : node'[h] # NoRow
    BY <2>1, <2>2, <2>3, <2>4, <2>5
  <2>7. QED
    BY <2>2, <2>6
<1>21. CASE Finish
  BY <1>21 DEF Finish, Kept, Has
<1>22. CASE CloneFails
  BY <1>22 DEF CloneFails, Kept, Has
<1>23. CASE DropFails
  BY <1>23 DEF DropFails, Kept, Has
<1>24. CASE Crash
  BY <1>24 DEF Crash, Kept, Has
<1>25. CASE Sweep
  BY <1>25, SweepFrame DEF Wipe, Has, Kept
<1>26. QED
  BY <1>1, <1>2, <1>3, <1>4, <1>5, <1>6, <1>7, <1>8, <1>9, <1>10, <1>11, <1>12, <1>13,
     <1>14, <1>15, <1>16, <1>17, <1>18, <1>19, <1>20, <1>21, <1>22, <1>23, <1>24, <1>25 DEF
     Next, RunStep, RunFault

\* The user, git and the disk keep the types of the trees and the counters.
LEMMA WorldTypes ==
  ASSUME TypeOK,
         World
  PROVE  /\ place' \in {"absent"} \cup Kinds /\ registered' \in BOOLEAN /\ mounted' \in BOOLEAN
         /\ tree' \in [Files -> Maybe] /\ donor' \in [Files -> Maybe] /\ absent' \in BOOLEAN
         /\ edits' \in 0..MaxEdits /\ faults' \in 0..MaxFaults /\ mounts' \in 0..MaxMounts
<1> USE RowTypes, FreshType DEF TypeOK, disk, janitor, bounds
<1>1. CASE Create
  <2>1. edits' \in 0..MaxEdits /\ Fresh \in Maybe /\ UNCHANGED <<faults, mounts>>
    BY <1>1 DEF Create
  <2>2. PICK own \in SUBSET Files, c \in {Fresh, None} :
          tree' = [f \in Files |-> IF f \in own THEN c ELSE donor[f]]
    BY <1>1 DEF Create
  <2>3. tree' \in [Files -> Maybe]
    BY <2>1, <2>2
  <2>4. QED
    BY <1>1, <2>1, <2>3 DEF Create
<1>2. CASE Remove
  BY <1>2 DEF Remove, Nothing
<1>3. CASE Unmount
  <2>1. mounts' \in 0..MaxMounts
    BY <1>3, WorktreeAssumption DEF Unmount
  <2>2. QED
    BY <1>3, <2>1 DEF Unmount
<1>4. CASE Mount
  BY <1>4 DEF Mount
<1>5. CASE \E f \in Files : Edit(f)
  BY <1>5 DEF Edit
<1>6. CASE \E f \in Files : IndexDonor(f)
  BY <1>6 DEF IndexDonor
<1>7. QED
  BY <1>1, <1>2, <1>3, <1>4, <1>5, <1>6 DEF World

\* The trees and the counters keep their types in every step.
LEMMA RestKept ==
  ASSUME TypeOK,
         Next
  PROVE  /\ place' \in {"absent"} \cup Kinds /\ registered' \in BOOLEAN /\ mounted' \in BOOLEAN
         /\ tree' \in [Files -> Maybe] /\ donor' \in [Files -> Maybe]
         /\ edits' \in 0..MaxEdits /\ faults' \in 0..MaxFaults /\ mounts' \in 0..MaxMounts
<1> USE WorktreeAssumption DEF TypeOK, disk, bounds
<1>1. CASE World
  BY <1>1, WorldTypes
<1>2. CASE Start
  BY <1>2 DEF Start
<1>3. CASE Open
  BY <1>3 DEF Open
<1>4. CASE First
  BY <1>4 DEF First
<1>5. CASE BeginClone
  BY <1>5 DEF BeginClone
<1>6. CASE CopyEdges
  BY <1>6 DEF CopyEdges
<1>7. CASE VerifyClone
  BY <1>7 DEF VerifyClone
<1>8. CASE CloneRefused
  BY <1>8 DEF CloneRefused
<1>9. CASE \E job \in run.copying : Copy(job[1], job[2])
  BY <1>9 DEF Copy
<1>10. CASE \E job \in run.copying : CopyLoses(job[1], job[2])
  BY <1>10 DEF CopyLoses, Fault
<1>11. CASE DropClone
  BY <1>11 DEF DropClone
<1>12. CASE Seed
  BY <1>12 DEF Seed
<1>13. CASE Build
  BY <1>13 DEF Build
<1>14. CASE Stamp
  BY <1>14 DEF Stamp
<1>15. CASE PersistSeeded
  BY <1>15 DEF PersistSeeded
<1>16. CASE Locate
  BY <1>16 DEF Locate
<1>17. CASE Mark
  BY <1>17 DEF Mark
<1>18. CASE Update
  BY <1>18 DEF Update, Scan, Present, Changed, Deleted
<1>19. CASE Chunks
  BY <1>19 DEF Chunks
<1>20. CASE Repair
  BY <1>20 DEF Repair
<1>21. CASE Finish
  BY <1>21 DEF Finish
<1>22. CASE CloneFails
  BY <1>22 DEF CloneFails, Fault
<1>23. CASE DropFails
  BY <1>23 DEF DropFails, Fault
<1>24. CASE Crash
  BY <1>24 DEF Crash, Fault
<1>25. CASE Sweep
  BY <1>25, SweepFrame
<1>26. QED
  BY <1>1, <1>2, <1>3, <1>4, <1>5, <1>6, <1>7, <1>8, <1>9, <1>10, <1>11, <1>12, <1>13,
     <1>14, <1>15, <1>16, <1>17, <1>18, <1>19, <1>20, <1>21, <1>22, <1>23, <1>24, <1>25 DEF
     Next, RunStep, RunFault

\* So does what the janitor holds.
LEMMA JanitorKept ==
  ASSUME TypeOK,
         Next
  PROVE  /\ sweep' \in {"idle", "listed", "missing", "orphan", "dead"} /\ absent' \in BOOLEAN
         /\ lastKind' \in {"none", "worktree", "standalone"}
<1>1. CASE World
  BY <1>1, WorldFrame, WorldTypes DEF TypeOK
<1>2. CASE Sweep
  BY <1>2 DEF Sweep, List, SeeMissing, SeeDonor, AskRegistry, Consider, Reap, TypeOK
<1>3. CASE Start \/ RunStep \/ RunFault
  BY <1>3 DEF Start, RunStep, RunFault, Open, First, BeginClone, Copy, CopyEdges,
     VerifyClone, CloneRefused, DropClone, Seed, Build, Stamp, PersistSeeded, Locate, Mark,
     Update, Chunks, Repair, Finish, CopyLoses, CloneFails, DropFails, Crash, janitor,
     TypeOK
<1>4. QED
  BY <1>1, <1>2, <1>3 DEF Next

\* Every step keeps every type.
LEMMA TypeKept ==
  ASSUME TypeOK,
         RowsInv,
         Next
  PROVE  TypeOK'
<1>1. linked' \subseteq Has(node)' \cap Kept(chunk)'
  BY LinkedKept DEF Has, Kept
<1>2. QED
  BY <1>1, LocalsKept, RowsKept, RestKept, JanitorKept DEF TypeOK

\* The recount of VerifyClone: rows that are each the donor's or nothing, as
\* many of them as the donor has, are the donor's.
LEMMA CloneIsVerified ==
  ASSUME TypeOK,
         RowsInv,
         VerifyClone
  PROVE  \A h \in Files : /\ node[h] = RowOf(donor[h]) /\ node[h].marker = donor[h]
                          /\ chunk[h] = donor[h] /\ (donor[h] # None => h \in linked)
<1>1. Has(node) \subseteq Kept(donor) /\ Kept(chunk) \subseteq Kept(donor) /\ linked \subseteq Kept(donor)
  BY RowTypes DEF RowsInv, TypeOK, VerifyClone, CopyIsOfDonor, Has, Kept, RowOf
<1>2. IsFiniteSet(Kept(donor))
  BY WorktreeAssumption, FS_Subset DEF Kept
<1>3. Has(node) = Kept(donor) /\ Kept(chunk) = Kept(donor) /\ linked = Kept(donor)
  BY <1>1, <1>2, FS_Subset DEF VerifyClone, Recounted
<1>4. QED
  BY <1>3 DEF RowsInv, VerifyClone, CopyIsOfDonor, Has, Kept, RowOf, NoRow

-----------------------------------------------------------------------------
(* The rows.                                                               *)

\* Every step keeps what a run knows of the rows.
LEMMA RowsInvKept ==
  ASSUME TypeOK, RowsInv, TypeOK',
         Next
  PROVE  NextStands' /\ Unscanned' /\ CopyIsOfDonor' /\ Blank' /\ RootFirst' /\ Stamped'
         /\ GoneHaveNoNode' /\ MarkerIsChunk'
<1>1. CASE World
  BY <1>1, WorldFrame DEF RowsInv, NextStands, Unscanned, CopyIsOfDonor, Blank, RootFirst,
     Stamped, GoneHaveNoNode, MarkerIsChunk, Toward, Scanned
<1>2. CASE Start
  BY <1>2 DEF Start, NoRun, RowsInv, project, rows, Goto, NextStands, Unscanned,
     CopyIsOfDonor, Blank, RootFirst, Stamped, GoneHaveNoNode, MarkerIsChunk, Toward,
     Scanned
<1>3. CASE Open
  BY <1>3, RowTypes DEF Open, Unfinished, Wipe, RowsInv, project, rows, Goto, Has,
     NextStands, Unscanned, CopyIsOfDonor, Blank, RootFirst, Stamped, GoneHaveNoNode,
     MarkerIsChunk, Toward, Scanned
<1>4. CASE First
  <2>1. /\ UNCHANGED <<donor, node, chunk, linked, root, clone>> /\ pc = "first"
        /\ pc' \in {"clone", "build"}
        /\ run'.scan = run.scan /\ run'.gone = run.gone
    BY <1>4 DEF First, Goto, project, rows, TypeOK, Locals
  <2>2. QED
    BY <2>1 DEF RowsInv, NextStands, Unscanned, CopyIsOfDonor, Blank, RootFirst, Stamped,
       GoneHaveNoNode, MarkerIsChunk, Toward, Scanned
<1>5. CASE BeginClone
  BY <1>5 DEF BeginClone, TypeOK, RowsInv, rows, Goto, Has, NextStands, Unscanned,
     CopyIsOfDonor, Blank, RootFirst, Stamped, GoneHaveNoNode, MarkerIsChunk, Toward,
     Scanned
<1>6. CASE CopyEdges
  BY <1>6 DEF CopyEdges, RowsInv, Goto, NextStands, Unscanned, CopyIsOfDonor, Blank,
     RootFirst, Stamped, GoneHaveNoNode, MarkerIsChunk, Toward
<1>7. CASE VerifyClone
  <2>4. \A h \in Files : /\ node[h] = RowOf(donor[h]) /\ node[h].marker = donor[h]
                         /\ chunk[h] = donor[h] /\ (donor[h] # None => h \in linked)
    BY <1>7, CloneIsVerified
  <2>5. /\ pc = "verify" /\ pc' = "locate" /\ root' = root /\ chunk' = chunk
        /\ linked' = linked /\ node' = node
        /\ run'.scan = run.scan /\ run'.gone = run.gone /\ run'.next \in {"done", "update"}
    BY <1>7 DEF TypeOK, Locals, rows, VerifyClone, Goto
  <2>6. NextStands'
    BY <2>4, <2>5 DEF RowsInv, NextStands
  <2>7. Unscanned'
    BY <2>4, <2>5 DEF RowsInv, Unscanned
  <2>8. CopyIsOfDonor'
    BY <2>4, <2>5 DEF RowsInv, CopyIsOfDonor
  <2>9. Blank'
    BY <2>4, <2>5 DEF RowsInv, Blank, CopyIsOfDonor
  <2>10. RootFirst'
    BY <2>4, <2>5 DEF RowsInv, RootFirst, CopyIsOfDonor
  <2>11. Stamped'
    BY <2>4, <2>5 DEF RowsInv, Stamped, Toward
  <2>12. GoneHaveNoNode'
    BY <2>4, <2>5 DEF RowsInv, GoneHaveNoNode, Toward, Scanned
  <2>13. MarkerIsChunk'
    BY <2>4, <2>5 DEF RowsInv, MarkerIsChunk, Nothing, Kept, RowOf, Unscanned, CopyIsOfDonor
  <2>14. QED
    BY <2>6, <2>7, <2>8, <2>9, <2>10, <2>11, <2>12, <2>13
<1>8. CASE CloneRefused
  BY <1>8 DEF CloneRefused, RowsInv, project, Goto, NextStands, Unscanned, CopyIsOfDonor,
     Blank, RootFirst, Stamped, GoneHaveNoNode, MarkerIsChunk, Toward
<1>9. CASE \E job \in run.copying : Copy(job[1], job[2])
  <2>1. PICK job \in run.copying : Copy(job[1], job[2])
    BY <1>9
  <2>2. (job[2] \in Kept(donor) \/ job[1] = "root") /\ clone /\ linked = {}
    BY <2>1 DEF RowsInv, Copy, CopyIsOfDonor
  <2>3. CASE job[1] = "root"
    BY <2>1, <2>2, <2>3 DEF TypeOK, RowsInv, Copy, NextStands, Unscanned, CopyIsOfDonor,
       Blank, RootFirst, Stamped, GoneHaveNoNode, MarkerIsChunk, Toward
  <2>4. CASE job[1] = "node"
    BY <2>1, <2>2, <2>4 DEF TypeOK, RowsInv, Copy, NextStands, Unscanned, CopyIsOfDonor,
       Blank, RootFirst, Stamped, GoneHaveNoNode, MarkerIsChunk, Toward, Scanned
  <2>5. CASE job[1] = "chunk"
    BY <2>1, <2>2, <2>5 DEF TypeOK, RowsInv, Copy, NextStands, Unscanned, CopyIsOfDonor,
       Blank, RootFirst, Stamped, GoneHaveNoNode, MarkerIsChunk, Toward, Scanned
  <2>6. QED
    BY <2>3, <2>4, <2>5, JobTypes
<1>10. CASE \E job \in run.copying : CopyLoses(job[1], job[2])
  BY <1>10 DEF CopyLoses, RowsInv, project, rows, NextStands, Unscanned, CopyIsOfDonor,
     Blank, RootFirst, Stamped, GoneHaveNoNode, MarkerIsChunk, Toward, Scanned
<1>11. CASE DropClone
  BY <1>11, RowTypes DEF DropClone, Wipe, RowsInv, Goto, NextStands, Unscanned,
     CopyIsOfDonor, Blank, RootFirst, Stamped, GoneHaveNoNode, MarkerIsChunk, Toward,
     Scanned
<1>12. CASE Seed
  BY <1>12 DEF Seed, RowsInv, project, rows, Goto, NextStands, Unscanned, CopyIsOfDonor,
     Blank, RootFirst, Stamped, GoneHaveNoNode, MarkerIsChunk, Toward, Scanned
<1>13. CASE Build
  <2>1. NextStands'
    BY <1>13, BuildRows DEF RowsInv, NextStands
  <2>2. Unscanned'
    BY <1>13, BuildRows DEF RowsInv, Unscanned
  <2>3. CopyIsOfDonor'
    BY <1>13, BuildRows DEF RowsInv, CopyIsOfDonor
  <2>4. Blank'
    BY <1>13, BuildRows DEF RowsInv, Blank
  <2>5. RootFirst'
    BY <1>13, BuildRows DEF RowsInv, RootFirst, Toward, Kept
  <2>6. Stamped'
    BY <1>13, BuildRows DEF RowsInv, Stamped, Toward
  <2>7. GoneHaveNoNode'
    BY <1>13, BuildRows DEF RowsInv, GoneHaveNoNode
  <2>8. MarkerIsChunk'
    BY <1>13, BuildRows, RowTypes DEF RowsInv, MarkerIsChunk
  <2>9. QED
    BY <2>1, <2>2, <2>3, <2>4, <2>5, <2>6, <2>7, <2>8
<1>14. CASE Stamp
  BY <1>14 DEF Stamp, TypeOK, RowsInv, Locals, Goto, Kept, NextStands, Unscanned,
     CopyIsOfDonor, Blank, RootFirst, Stamped, GoneHaveNoNode, MarkerIsChunk, Toward,
     Scanned
<1>15. CASE PersistSeeded
  <2>1. /\ UNCHANGED <<donor, chunk, linked, root, clone, run>> /\ pc = "persist"
        /\ pc' = "locate"
        /\ \A h \in Files : /\ node'[h].ck = node[h].ck /\ node'[h].marker = node[h].marker
                            /\ run.scan[h] = None => node'[h] = node[h]
    BY <1>15 DEF PersistSeeded, Reused, Goto, Kept
  <2>2. NextStands'
    BY <1>15, <2>1 DEF RowsInv, NextStands
  <2>3. Unscanned'
    BY <1>15, <2>1 DEF RowsInv, Unscanned
  <2>4. CopyIsOfDonor'
    BY <1>15, <2>1 DEF RowsInv, CopyIsOfDonor
  <2>5. Blank'
    BY <1>15, <2>1 DEF RowsInv, Blank, Kept, NoRow, Stamped
  <2>6. RootFirst'
    BY <1>15, <2>1 DEF RowsInv, NextStands, RootFirst, Toward, Scanned
  <2>7. Stamped'
    BY <1>15, <2>1 DEF RowsInv, Stamped, Kept
  <2>8. GoneHaveNoNode'
    BY <1>15, <2>1 DEF RowsInv, TypeOK, Locals, GoneHaveNoNode, Scanned
  <2>9. MarkerIsChunk'
    BY <1>15, <2>1 DEF RowsInv, MarkerIsChunk
  <2>10. QED
    BY <2>2, <2>3, <2>4, <2>5, <2>6, <2>7, <2>8, <2>9
<1>16. CASE Locate
  BY <1>16 DEF Locate, Located, RowsInv, rows, Goto, NextStands, Unscanned, CopyIsOfDonor,
     Blank, RootFirst, Stamped, GoneHaveNoNode, MarkerIsChunk, Toward, Scanned
<1>17. CASE Mark
  <2>1. NextStands'
    BY <1>17 DEF RowsInv, NextStands, Mark, Goto
  <2>2. Unscanned'
    BY <1>17 DEF RowsInv, Unscanned, NextStands, Mark, Goto
  <2>3. CopyIsOfDonor'
    BY <1>17 DEF RowsInv, CopyIsOfDonor, NextStands, Mark, Goto
  <2>4. Blank'
    BY <1>17 DEF RowsInv, Blank, NextStands, Mark, Goto, rows
  <2>5. RootFirst'
    BY <1>17 DEF RowsInv, RootFirst, NextStands, Mark, Goto, Toward, Scanned
  <2>6. Stamped'
    BY <1>17 DEF RowsInv, Stamped, NextStands, Mark, Goto, rows, Toward
  <2>7. GoneHaveNoNode'
    BY <1>17 DEF RowsInv, GoneHaveNoNode, NextStands, Mark, Goto, rows, Toward, Scanned
  <2>8. MarkerIsChunk'
    BY <1>17 DEF RowsInv, MarkerIsChunk, Mark, rows
  <2>9. QED
    BY <2>1, <2>2, <2>3, <2>4, <2>5, <2>6, <2>7, <2>8
<1>18. CASE Update
  <2>1. NextStands'
    BY <1>18, UpdateRows, RowTypes DEF RowsInv, NextStands, Update, Kept
  <2>2. Unscanned'
    BY <1>18, UpdateRows, RowTypes DEF RowsInv, Unscanned, Update, Kept
  <2>3. CopyIsOfDonor'
    BY <1>18, UpdateRows, RowTypes DEF RowsInv, CopyIsOfDonor, Update, Kept
  <2>4. Blank'
    BY <1>18, UpdateRows, RowTypes DEF RowsInv, Blank, Update, Toward, Scanned, Kept, NoRow,
       NoRows, RootFirst
  <2>5. RootFirst'
    BY <1>18, UpdateRows, RowTypes DEF RowsInv, RootFirst, Update, Toward, Scanned, Kept,
       Blank, NoRow, NoRows
  <2>6. Stamped'
    <3>1. \A h \in Files : Scan[h] # None => node'[h].ck = Scan[h]
      BY <1>18, UpdateRows DEF Work
    <3>2. QED
      BY <1>18, <3>1, UpdateRows DEF Stamped, Kept
  <2>7. GoneHaveNoNode'
    BY <1>18, UpdateRows DEF GoneHaveNoNode
  <2>8. MarkerIsChunk'
    <3>1. \A h \in Files : node'[h].marker # None => node'[h].marker = node[h].marker /\ (h \in linked => h \in linked')
      <4>1. CASE Work
        BY <1>18, <4>1, UpdateRows DEF NoRow
      <4>2. CASE ~Work
        BY <1>18, <4>2, UpdateRows
      <4>3. QED
        BY <4>1, <4>2
    <3>2. QED
      BY <1>18, <3>1, UpdateRows DEF RowsInv, MarkerIsChunk
  <2>9. QED
    BY <2>1, <2>2, <2>3, <2>4, <2>5, <2>6, <2>7, <2>8
<1>19. CASE Chunks
  <2>1. NextStands'
    BY <1>19, ChunksRows DEF RowsInv, NextStands
  <2>2. Unscanned'
    BY <1>19, ChunksRows DEF RowsInv, Unscanned
  <2>3. CopyIsOfDonor'
    BY <1>19, ChunksRows DEF RowsInv, CopyIsOfDonor
  <2>4. Blank'
    BY <1>19, ChunksRows, RowTypes DEF RowsInv, Blank, Chunks, Toward, Kept, Stamped
  <2>5. RootFirst'
    BY <1>19, ChunksRows DEF RowsInv, RootFirst, Toward, Scanned
  <2>6. Stamped'
    BY <1>19, ChunksRows DEF RowsInv, Stamped, Toward
  <2>7. GoneHaveNoNode'
    BY <1>19, ChunksRows DEF RowsInv, GoneHaveNoNode, Toward, Scanned
  <2>8. MarkerIsChunk'
    BY <1>19, ChunksRows, RowTypes DEF RowsInv, MarkerIsChunk, Chunks, Chunked, Toward,
       Scanned, Kept, Stamped, GoneHaveNoNode
  <2>9. QED
    BY <2>1, <2>2, <2>3, <2>4, <2>5, <2>6, <2>7, <2>8
<1>20. CASE Repair
  BY <1>20, RepairRows DEF TypeOK, RowsInv, Repair, Missing, NextStands, Unscanned,
     CopyIsOfDonor, Blank, RootFirst, Stamped, GoneHaveNoNode, MarkerIsChunk, Toward,
     Scanned, Kept
<1>21. CASE Finish
  BY <1>21 DEF Finish, Return, RowsInv, project, rows, Goto, NextStands, Unscanned,
     CopyIsOfDonor, Blank, RootFirst, Stamped, GoneHaveNoNode, MarkerIsChunk, Toward,
     Scanned
<1>22. CASE CloneFails
  BY <1>22 DEF CloneFails, RowsInv, project, rows, Goto, NextStands, Unscanned,
     CopyIsOfDonor, Blank, RootFirst, Stamped, GoneHaveNoNode, MarkerIsChunk, Toward,
     Scanned
<1>23. CASE DropFails
  BY <1>23 DEF DropFails, RowsInv, project, rows, Goto, NextStands, Unscanned,
     CopyIsOfDonor, Blank, RootFirst, Stamped, GoneHaveNoNode, MarkerIsChunk, Toward,
     Scanned
<1>24. CASE Crash
  BY <1>24 DEF Crash, Return, RowsInv, project, rows, Goto, NextStands, Unscanned,
     CopyIsOfDonor, Blank, RootFirst, Stamped, GoneHaveNoNode, MarkerIsChunk, Toward,
     Scanned
<1>25. CASE Sweep
  <2>1. CASE UNCHANGED project
    BY <1>25, <2>1, SweepFrame DEF RowsInv, project, rows, NextStands, Unscanned,
       CopyIsOfDonor, Blank, RootFirst, Stamped, GoneHaveNoNode, MarkerIsChunk, Toward,
       Scanned
  <2>2. CASE pc = "idle" /\ Wipe
    BY <1>25, <2>2, SweepFrame DEF RowsInv, Wipe, NoRows, NoRow, Nothing, NextStands,
       Unscanned, CopyIsOfDonor, Blank, RootFirst, Stamped, GoneHaveNoNode, MarkerIsChunk,
       Toward, Scanned
  <2>3. QED
    BY <1>25, <2>1, <2>2, SweepFrame
<1>26. QED
  BY <1>1, <1>2, <1>3, <1>4, <1>5, <1>6, <1>7, <1>8, <1>9, <1>10, <1>11, <1>12, <1>13,
     <1>14, <1>15, <1>16, <1>17, <1>18, <1>19, <1>20, <1>21, <1>22, <1>23, <1>24, <1>25 DEF
     Next, RunStep, RunFault

\* A scan of the same disk is the same.
LEMMA ScanStands ==
  ASSUME UNCHANGED disk
  PROVE  Scan' = Scan
BY DEF disk, Scan, Present

-----------------------------------------------------------------------------
(* Delivery.                                                               *)

\* Every step keeps what a run needs to deliver.
LEMMA DeliveryKept ==
  ASSUME TypeOK, RowsInv, DeliveryInv,
         Next
  PROVE  Unmarked' /\ SummaryOfRow' /\ Summarised' /\ Forgotten' /\ CalmScan'
         /\ CalmDonor' /\ CloneIsWhole' /\ Ways' /\ Delivers'
<1>1. CASE World
  BY <1>1, WorldFrame DEF TypeOK, Unmarked, SummaryOfRow, Summarised, Forgotten, CalmScan,
     CalmDonor, CloneIsWhole, Ways, Delivers, DeliveryInv, Toward, Scanned
<1>2. CASE Start
  BY <1>2 DEF Start, NoRun, project, rows, Goto, Unmarked, SummaryOfRow, Summarised,
     Forgotten, CalmScan, CalmDonor, CloneIsWhole, Ways, Delivers, DeliveryInv, Toward,
     Scanned
<1>3. CASE Open
  BY <1>3, RowTypes DEF Open, Unfinished, Wipe, project, rows, Goto, Unmarked, SummaryOfRow,
     Summarised, Forgotten, CalmScan, CalmDonor, CloneIsWhole, Ways, Delivers, DeliveryInv,
     Toward, Scanned
<1>4. CASE First
  <2>1. Unmarked' /\ Ways'
    BY <1>4, ScanStands, RowTypes DEF TypeOK, Locals, RowsInv, DeliveryInv, NextStands,
       Toward, Unmarked, Ways, First, Touched, Scan, Present, Goto, Nothing, project, rows,
       NoRow, Row, Kept
  <2>2. SummaryOfRow'
    BY <1>4 DEF TypeOK, DeliveryInv, SummaryOfRow, First, Goto, project, rows
  <2>3. Summarised' /\ Forgotten'
    BY <1>4 DEF TypeOK, Toward, Scanned, Summarised, Forgotten, First, Goto
  <2>4. CalmScan' /\ CalmDonor'
    <3>1. pc' = "clone" => run'.touched = Touched(Scan) /\ run'.calm = run.calm
      BY <1>4 DEF First, Goto, TypeOK, Locals
    <3>2. pc' \in {"clone", "build"} /\ donor' = donor /\ Scan' = Scan
      BY <1>4, ScanStands DEF First, Goto
    <3>3. QED
      BY <3>1, <3>2 DEF TypeOK, Locals, CalmScan, CalmDonor, Scanned, Toward, Touched, Kept
  <2>5. CloneIsWhole'
    <3>1. ~run.cloned /\ run'.cloned = run.cloned
      BY <1>4 DEF First, TypeOK, Locals, DeliveryInv, Ways
    <3>2. QED
      BY <3>1 DEF CloneIsWhole
  <2>6. Delivers'
    BY <1>4 DEF TypeOK, Delivers, First, Goto
  <2>7. QED
    BY <2>1, <2>2, <2>3, <2>4, <2>5, <2>6
<1>5. CASE BeginClone
  <2>1. Unmarked' /\ Ways'
    BY <1>5 DEF TypeOK, DeliveryInv, Toward, Unmarked, Ways, BeginClone, Goto
  <2>2. SummaryOfRow'
    BY <1>5 DEF TypeOK, SummaryOfRow, BeginClone
  <2>3. Summarised' /\ Forgotten'
    BY <1>5 DEF TypeOK, Toward, Scanned, Summarised, Forgotten, BeginClone, Goto
  <2>4. CalmScan' /\ CalmDonor'
    BY <1>5, ScanStands DEF TypeOK, DeliveryInv, Toward, Scanned, CalmScan, CalmDonor,
       BeginClone, Goto
  <2>5. CloneIsWhole'
    BY <1>5, ScanStands DEF TypeOK, DeliveryInv, Toward, CloneIsWhole, BeginClone, Goto,
       rows
  <2>6. Delivers'
    BY <1>5 DEF TypeOK, Delivers, BeginClone, Goto
  <2>7. QED
    BY <2>1, <2>2, <2>3, <2>4, <2>5, <2>6
<1>6. CASE CopyEdges
  <2>1. Unmarked' /\ Ways'
    BY <1>6 DEF TypeOK, DeliveryInv, Toward, Unmarked, Ways, CopyEdges, Goto
  <2>2. SummaryOfRow'
    BY <1>6 DEF TypeOK, DeliveryInv, SummaryOfRow, CopyEdges, Goto
  <2>3. Summarised' /\ Forgotten'
    BY <1>6 DEF TypeOK, Toward, Scanned, Summarised, Forgotten, CopyEdges, Goto
  <2>4. CalmScan' /\ CalmDonor'
    BY <1>6, ScanStands DEF TypeOK, DeliveryInv, Toward, Scanned, CalmScan, CalmDonor,
       CopyEdges, Goto
  <2>5. CloneIsWhole'
    BY <1>6, ScanStands DEF TypeOK, DeliveryInv, Toward, CloneIsWhole, CopyEdges, Joinable,
       Goto
  <2>6. Delivers'
    BY <1>6 DEF TypeOK, Delivers, CopyEdges, Goto
  <2>7. QED
    BY <2>1, <2>2, <2>3, <2>4, <2>5, <2>6
<1>7. CASE VerifyClone
  <2>1. Unmarked' /\ Ways'
    BY <1>7 DEF TypeOK, Unmarked, Ways, VerifyClone, Goto
  <2>2. SummaryOfRow'
    <3>1. node' = node /\ pc' = "locate"
      BY <1>7 DEF VerifyClone, Goto, rows
    <3>2. \A h \in Files : node[h].sum = node[h].ck
      <4>1. \A h \in Files : RowOf(donor[h]).sum = RowOf(donor[h]).ck
        BY DEF RowOf
      <4>2. QED
        BY <1>7, <4>1, CloneIsVerified
    <3>3. QED
      BY <3>1, <3>2 DEF SummaryOfRow
  <2>3. Summarised' /\ Forgotten'
    BY <1>7 DEF TypeOK, Toward, Scanned, Summarised, Forgotten, VerifyClone, Goto
  <2>4. CalmScan' /\ CalmDonor'
    BY <1>7 DEF TypeOK, Toward, Scanned, CalmScan, CalmDonor, VerifyClone, Goto
  <2>5. CloneIsWhole'
    <3>1. /\ pc = "verify" /\ pc' = "locate" /\ Scan' = Scan
          /\ UNCHANGED <<node, chunk, linked>>
          /\ run'.calm = run.calm /\ run'.touched = run.touched
          /\ run'.next = IF run.touched = {} THEN "done" ELSE "update"
      BY <1>7, ScanStands DEF VerifyClone, Goto, rows
    <3>2. \A h \in Files : node[h] = RowOf(chunk[h]) /\ node[h].marker = chunk[h] /\ (chunk[h] # None => h \in linked)
      BY <1>7, CloneIsVerified
    <3>3. \A h \in run.calm \ run.touched : h \in Files /\ chunk[h] = Scan[h]
      BY <1>7, <3>1, CloneIsVerified DEF DeliveryInv, CalmDonor, TypeOK, Locals
    <3>4. QED
      BY <3>1, <3>2, <3>3 DEF CloneIsWhole, Toward
  <2>6. Delivers'
    BY <1>7 DEF TypeOK, Delivers, VerifyClone, Goto
  <2>7. QED
    BY <2>1, <2>2, <2>3, <2>4, <2>5, <2>6
<1>8. CASE CloneRefused
  BY <1>8 DEF CloneRefused, project, rows, Goto, Unmarked, SummaryOfRow, Summarised,
     Forgotten, CalmScan, CalmDonor, CloneIsWhole, Ways, Delivers, DeliveryInv, Toward,
     Scanned
<1>9. CASE \E job \in run.copying : Copy(job[1], job[2])
  <2>1. PICK job \in run.copying : Copy(job[1], job[2])
    BY <1>9
  <2>2. /\ Scan' = Scan /\ donor' = donor /\ pc = "copy" /\ pc' = "copy" /\ clone' = clone
        /\ run' = [run EXCEPT !.copying = @ \ {job}]
    BY <2>1, JobTypes, ScanStands DEF Copy
  <2>3. QED
    BY <2>2 DEF TypeOK, RowsInv, CopyIsOfDonor, Unmarked, SummaryOfRow, Summarised,
       Forgotten, CalmScan, CalmDonor, CloneIsWhole, Ways, Delivers, DeliveryInv, Toward,
       Scanned
<1>10. CASE \E job \in run.copying : CopyLoses(job[1], job[2])
  <2>1. PICK job \in run.copying : CopyLoses(job[1], job[2])
    BY <1>10
  <2>2. /\ Scan' = Scan /\ donor' = donor /\ pc = "copy" /\ pc' = "copy" /\ clone' = clone
        /\ run' = [run EXCEPT !.copying = @ \ {job}]
    BY <2>1, JobTypes, ScanStands DEF CopyLoses, project
  <2>3. QED
    BY <2>2 DEF TypeOK, RowsInv, CopyIsOfDonor, Unmarked, SummaryOfRow, Summarised,
       Forgotten, CalmScan, CalmDonor, CloneIsWhole, Ways, Delivers, DeliveryInv, Toward,
       Scanned
<1>11. CASE DropClone
  BY <1>11, RowTypes DEF DropClone, Wipe, Goto, Unmarked, SummaryOfRow, Summarised,
     Forgotten, CalmScan, CalmDonor, CloneIsWhole, Ways, Delivers, DeliveryInv, Toward,
     Scanned
<1>12. CASE Seed
  BY <1>12 DEF Seed, project, rows, Goto, Unmarked, SummaryOfRow, Summarised, Forgotten,
     CalmScan, CalmDonor, CloneIsWhole, Ways, Delivers, DeliveryInv, Toward, Scanned
<1>13. CASE Build
  <2>1. Unmarked' /\ Ways'
    BY <1>13, BuildRows, RowTypes DEF TypeOK, Locals, RowsInv, DeliveryInv, NextStands,
       Toward, Unmarked, Ways, Build, Row, NoRow
  <2>2. SummaryOfRow'
    <3>1. ~clone => \A h \in Files : node[h].ck = None /\ node[h].sum = None
      BY <1>13, RowTypes DEF Build, RowsInv, Blank
    <3>2. ~clone => \A h \in Files : node'[h].ck = None /\ node'[h].sum \in {None, Scan[h]}
      BY <1>13, <3>1, BuildRows, RowTypes
    <3>3. QED
      BY <1>13, <3>2, BuildRows DEF SummaryOfRow
  <2>3. Summarised' /\ Forgotten'
    <3>1. \A h \in Files : Scan[h] # None => Scan[h] \in {node'[h].sum, run.seeds[h]}
      BY <1>13, BuildRows
    <3>2. \A h \in Files : Scan[h] = None => node'[h].ck = None
      BY <1>13, BuildRows DEF NoRow
    <3>3. QED
      BY <1>13, <3>1, <3>2, BuildRows DEF Summarised, Forgotten, Toward, Kept
  <2>4. CalmScan' /\ CalmDonor'
    BY <1>13, BuildRows, RowTypes DEF TypeOK, Locals, RowsInv, DeliveryInv, NextStands,
       Toward, Scanned, CalmScan, CalmDonor, Build, Row, NoRow
  <2>5. CloneIsWhole'
    BY <1>13, BuildRows, RowTypes DEF TypeOK, Locals, RowsInv, DeliveryInv, NextStands,
       Toward, CloneIsWhole, Build, Row, NoRow, Ways
  <2>6. Delivers'
    BY <1>13, BuildRows DEF TypeOK, Delivers
  <2>7. QED
    BY <2>1, <2>2, <2>3, <2>4, <2>5, <2>6
<1>14. CASE Stamp
  <2>1. Unmarked' /\ Ways'
    BY <1>14 DEF TypeOK, DeliveryInv, Toward, Unmarked, Ways, Stamp, Goto
  <2>2. SummaryOfRow'
    BY <1>14 DEF TypeOK, DeliveryInv, SummaryOfRow, Stamp
  <2>3. Summarised' /\ Forgotten'
    BY <1>14 DEF TypeOK, DeliveryInv, Toward, Scanned, Summarised, Forgotten, Stamp, Goto,
       Kept
  <2>4. CalmScan' /\ CalmDonor'
    BY <1>14, ScanStands DEF TypeOK, DeliveryInv, Scanned, CalmScan, CalmDonor, Stamp, Goto
  <2>5. CloneIsWhole'
    BY <1>14, ScanStands DEF TypeOK, DeliveryInv, Toward, CloneIsWhole, Stamp, Goto, Kept
  <2>6. Delivers'
    BY <1>14 DEF TypeOK, Delivers, Stamp, Goto
  <2>7. QED
    BY <2>1, <2>2, <2>3, <2>4, <2>5, <2>6
<1>15. CASE PersistSeeded
  <2>1. Unmarked' /\ Ways'
    BY <1>15 DEF TypeOK, RowsInv, NextStands, Toward, Unmarked, Ways, PersistSeeded, Goto
  <2>2. SummaryOfRow'
    BY <1>15 DEF TypeOK, RowsInv, DeliveryInv, SummaryOfRow, PersistSeeded, Kept, Stamped
  <2>3. Summarised' /\ Forgotten'
    BY <1>15 DEF TypeOK, DeliveryInv, Scanned, Summarised, Forgotten, PersistSeeded, Reused,
       Kept
  <2>4. CalmScan' /\ CalmDonor'
    BY <1>15, ScanStands DEF TypeOK, DeliveryInv, Scanned, CalmScan, CalmDonor,
       PersistSeeded, Goto
  <2>5. CloneIsWhole'
    BY <1>15, ScanStands DEF TypeOK, RowsInv, DeliveryInv, NextStands, Toward, CloneIsWhole,
       PersistSeeded, Goto, Kept
  <2>6. Delivers'
    BY <1>15 DEF TypeOK, Delivers, PersistSeeded, Goto
  <2>7. QED
    BY <2>1, <2>2, <2>3, <2>4, <2>5, <2>6
<1>16. CASE Locate
  <2>1. Unmarked' /\ Ways'
    BY <1>16 DEF TypeOK, DeliveryInv, Toward, Unmarked, Ways, Locate, Goto
  <2>2. SummaryOfRow'
    BY <1>16 DEF TypeOK, DeliveryInv, SummaryOfRow, Locate, Goto, rows
  <2>3. Summarised' /\ Forgotten'
    BY <1>16 DEF TypeOK, DeliveryInv, Toward, Scanned, Summarised, Forgotten, Locate, Goto,
       rows
  <2>4. CalmScan' /\ CalmDonor'
    BY <1>16, ScanStands DEF TypeOK, DeliveryInv, Toward, Scanned, CalmScan, CalmDonor,
       Locate, Goto
  <2>5. CloneIsWhole'
    BY <1>16, ScanStands DEF TypeOK, DeliveryInv, Toward, CloneIsWhole, Locate, Goto, rows
  <2>6. Delivers'
    BY <1>16 DEF TypeOK, Delivers, Locate, Goto
  <2>7. QED
    BY <2>1, <2>2, <2>3, <2>4, <2>5, <2>6
<1>17. CASE Mark
  <2>1. Unmarked' /\ Ways'
    BY <1>17 DEF TypeOK, RowsInv, DeliveryInv, NextStands, Toward, Unmarked, Ways, Mark,
       Goto, CloneIsWhole
  <2>2. SummaryOfRow'
    BY <1>17 DEF TypeOK, RowsInv, DeliveryInv, NextStands, SummaryOfRow, Mark, Goto, rows
  <2>3. Summarised' /\ Forgotten'
    BY <1>17 DEF TypeOK, RowsInv, DeliveryInv, NextStands, Toward, Scanned, Summarised,
       Forgotten, Mark, Goto, rows
  <2>4. CalmScan' /\ CalmDonor'
    BY <1>17, ScanStands DEF TypeOK, RowsInv, DeliveryInv, NextStands, Toward, Scanned,
       CalmScan, CalmDonor, Mark, Goto
  <2>5. CloneIsWhole'
    BY <1>17, ScanStands DEF TypeOK, DeliveryInv, Toward, CloneIsWhole, Mark, Goto, rows
  <2>6. Delivers'
    <3>1. /\ pc = "mark" /\ pc' = run.next /\ UNCHANGED <<node, chunk, linked, run>>
          /\ Scan' = Scan
      BY <1>17, ScanStands DEF Mark, Goto, rows
    <3>2. run.next = "done" =>
            /\ run.cloned /\ run.touched = {}
            /\ \A h \in Files : node[h] = RowOf(chunk[h]) /\ (chunk[h] # None => h \in linked)
            /\ \A h \in run.calm : chunk[h] = Scan[h]
      BY <3>1 DEF DeliveryInv, CloneIsWhole, Ways, Toward
    <3>3. \A h \in run.calm : h \in Files
      BY DEF TypeOK, Locals
    <3>4. QED
      BY <3>1, <3>2, <3>3 DEF Delivers, RowOf
  <2>7. QED
    BY <2>1, <2>2, <2>3, <2>4, <2>5, <2>6
<1>18. CASE Update
  <2>1. Unmarked' /\ Ways'
    <3>1. /\ pc = "update" /\ clone' = clone /\ run'.cloned = run.cloned
          /\ run'.next \in {"chunks", "repair"}
          /\ pc' \in {"locate", "chunks", "done"} /\ (pc' # "locate" => run.cloned)
      BY <1>18, UpdateRows DEF Update
    <3>2. QED
      BY <3>1 DEF DeliveryInv, Unmarked, Ways, Toward
  <2>2. SummaryOfRow'
    <3>1. CASE Work
      BY <1>18, <3>1, UpdateRows DEF SummaryOfRow, NoRow
    <3>2. CASE ~Work
      BY <1>18, <3>2, UpdateRows DEF DeliveryInv, SummaryOfRow
    <3>3. QED
      BY <3>1, <3>2
  <2>3. Summarised' /\ Forgotten'
    <3>1. CASE Work
      <4>1. \A h \in Files : IF Scan[h] = None THEN node'[h].ck = None ELSE node'[h].sum = Scan[h]
        BY <1>18, <3>1, UpdateRows DEF NoRow
      <4>2. QED
        BY <1>18, <4>1, UpdateRows DEF Summarised, Forgotten, Kept
    <3>2. CASE ~Work
      <4>1. \A h \in Files : Scan[h] = None => node'[h].ck = None
        BY <1>18, <3>2, UpdateRows DEF Work
      <4>2. QED
        BY <1>18, <3>2, <4>1, UpdateRows DEF Summarised, Forgotten, Toward
    <3>3. QED
      BY <3>1, <3>2
  <2>4. CalmScan' /\ CalmDonor'
    BY <1>18, UpdateRows, RowTypes DEF TypeOK, Locals, RowsInv, DeliveryInv, NextStands,
       Toward, Scanned, CalmScan, CalmDonor, Update, Row, NoRow
  <2>5. CloneIsWhole'
    <3>1. run.cloned => \A h \in run.calm \ run.touched : Scan[h] # None =>
            node[h].marker = Scan[h] /\ chunk[h] = Scan[h] /\ h \in linked
      BY <1>18 DEF DeliveryInv, CloneIsWhole, Update
    <3>2. \A h \in Files : Scan[h] # None => node'[h].marker = node[h].marker /\ (h \in linked => h \in linked')
      <4>1. CASE Work
        BY <1>18, <4>1, UpdateRows
      <4>2. CASE ~Work
        BY <1>18, <4>2, UpdateRows
      <4>3. QED
        BY <4>1, <4>2
    <3>3. /\ run'.cloned = run.cloned /\ run'.calm = run.calm /\ run'.touched = run.touched
          /\ run.cloned => pc' \in {"chunks", "done"} /\ chunk' = chunk /\ Scan' = Scan
      BY <1>18, UpdateRows
    <3>4. run.calm \subseteq Files
      BY DEF TypeOK, Locals
    <3>5. QED
      BY <3>1, <3>2, <3>3, <3>4 DEF CloneIsWhole, Toward
  <2>6. Delivers'
    <3>1. CASE pc' = "done"
      <4>1. ~Work /\ run.cloned
        BY <1>18, <3>1, UpdateRows
      <4>2. /\ node' = node /\ chunk' = chunk /\ run'.calm = run.calm /\ Scan' = Scan
            /\ \A h \in linked : h \in linked'
        BY <1>18, <4>1, UpdateRows
      <4>3. \A h \in Files : node[h].ck = Scan[h]
        BY <4>1 DEF Work
      <4>4. \A h \in Files : node[h] = RowOf(chunk[h]) /\ (chunk[h] # None => h \in linked)
        BY <1>18, <4>1 DEF DeliveryInv, CloneIsWhole, Toward, Update
      <4>5. \A h \in Files : chunk[h] = Scan[h]
        <5>1. \A h \in Files : RowOf(chunk[h]).ck = chunk[h]
          BY DEF RowOf
        <5>2. QED
          BY <4>3, <4>4, <5>1
      <4>6. \A h \in run.calm : h \in Files
        BY DEF TypeOK, Locals
      <4>7. QED
        BY <4>2, <4>3, <4>4, <4>5, <4>6 DEF Delivers
    <3>2. QED
      BY <3>1 DEF Delivers
  <2>7. QED
    BY <2>1, <2>2, <2>3, <2>4, <2>5, <2>6
<1>19. CASE Chunks
  <2>1. Unmarked' /\ Ways'
    BY <1>19, ChunksRows DEF TypeOK, Toward, Unmarked, Ways
  <2>2. SummaryOfRow'
    BY <1>19, ChunksRows DEF TypeOK, DeliveryInv, SummaryOfRow, Chunks
  <2>3. Summarised' /\ Forgotten'
    BY <1>19, ChunksRows DEF TypeOK, Toward, Scanned, Summarised, Forgotten
  <2>4. CalmScan' /\ CalmDonor'
    BY <1>19, ChunksRows DEF TypeOK, Toward, Scanned, CalmScan, CalmDonor
  <2>5. CloneIsWhole'
    BY <1>19, ChunksRows, RowTypes DEF TypeOK, Locals, RowsInv, DeliveryInv, NextStands,
       Toward, CloneIsWhole, Chunks, Chunked, Row, NoRow, Kept
  <2>6. Delivers'
    BY <1>19, ChunksRows DEF TypeOK, Locals, RowsInv, DeliveryInv, Toward, Scanned,
       Delivers, Chunks, Chunked, Row, Kept, Stamped, CloneIsWhole, Summarised, Forgotten,
       CalmScan, RowOf
  <2>7. QED
    BY <2>1, <2>2, <2>3, <2>4, <2>5, <2>6
<1>20. CASE Repair
  <2>1. Unmarked' /\ Ways'
    BY <1>20, RepairRows DEF TypeOK, Toward, Unmarked, Ways
  <2>2. SummaryOfRow'
    <3>1. \A h \in Files : node'[h].ck = node[h].ck
      BY <1>20, RepairRows
    <3>2. \A h \in Files : node[h].sum = None => node'[h].sum = None \/ (run.scan[h] # None /\ node'[h].sum = run.scan[h])
      BY <1>20, RepairRows
    <3>3. \A h \in Files : run.scan[h] # None => run.scan[h] = node[h].ck
      BY <1>20 DEF Repair, RowsInv, Stamped, Toward, Kept
    <3>4. \A h \in Files : node[h].sum # None => node'[h].sum = node[h].sum
      BY <1>20, RepairRows
    <3>5. clone' = clone /\ pc' = "done"
      BY <1>20, RepairRows
    <3>6. QED
      BY <3>1, <3>2, <3>3, <3>4, <3>5 DEF DeliveryInv, SummaryOfRow
  <2>3. Summarised' /\ Forgotten'
    BY <1>20, RepairRows DEF TypeOK, Toward, Scanned, Summarised, Forgotten
  <2>4. CalmScan' /\ CalmDonor'
    BY <1>20, RepairRows DEF TypeOK, Toward, Scanned, CalmScan, CalmDonor
  <2>5. CloneIsWhole'
    BY <1>20, RepairRows, RowTypes DEF TypeOK, Locals, RowsInv, DeliveryInv, NextStands,
       Toward, CloneIsWhole, Repair, Missing, Row, NoRow, Kept
  <2>6. Delivers'
    BY <1>20, RepairRows, RowTypes DEF TypeOK, Locals, RowsInv, DeliveryInv, NextStands,
       Toward, Scanned, Delivers, Repair, Missing, Row, NoRow, Kept, Stamped, MarkerIsChunk,
       CloneIsWhole, SummaryOfRow, Unmarked, Ways, Summarised, Forgotten, CalmScan, RowOf
  <2>7. QED
    BY <2>1, <2>2, <2>3, <2>4, <2>5, <2>6
<1>21. CASE Finish
  BY <1>21 DEF Finish, Return, NoRun, project, rows, Goto, Unmarked, SummaryOfRow,
     Summarised, Forgotten, CalmScan, CalmDonor, CloneIsWhole, Ways, Delivers, DeliveryInv,
     Toward, Scanned
<1>22. CASE CloneFails
  BY <1>22 DEF CloneFails, project, rows, Goto, Unmarked, SummaryOfRow, Summarised,
     Forgotten, CalmScan, CalmDonor, CloneIsWhole, Ways, Delivers, DeliveryInv, Toward,
     Scanned
<1>23. CASE DropFails
  BY <1>23 DEF DropFails, project, rows, Goto, Unmarked, SummaryOfRow, Summarised,
     Forgotten, CalmScan, CalmDonor, CloneIsWhole, Ways, Delivers, DeliveryInv, Toward,
     Scanned
<1>24. CASE Crash
  BY <1>24 DEF Crash, Return, NoRun, project, rows, Goto, Unmarked, SummaryOfRow,
     Summarised, Forgotten, CalmScan, CalmDonor, CloneIsWhole, Ways, Delivers, DeliveryInv,
     Toward, Scanned
<1>25. CASE Sweep
  <2>1. CASE UNCHANGED project
    BY <1>25, <2>1, SweepFrame DEF project, rows, disk, Scan, Present, Unmarked,
       SummaryOfRow, Summarised, Forgotten, CalmScan, CalmDonor, CloneIsWhole, Ways,
       Delivers, DeliveryInv, Toward, Scanned
  <2>2. CASE pc = "idle" /\ Wipe
    BY <1>25, <2>2, SweepFrame DEF Wipe, NoRows, NoRow, Unmarked, SummaryOfRow, Summarised,
       Forgotten, CalmScan, CalmDonor, CloneIsWhole, Ways, Delivers, DeliveryInv, Toward,
       Scanned
  <2>3. QED
    BY <1>25, <2>1, <2>2, SweepFrame
<1>26. QED
  BY <1>1, <1>2, <1>3, <1>4, <1>5, <1>6, <1>7, <1>8, <1>9, <1>10, <1>11, <1>12, <1>13,
     <1>14, <1>15, <1>16, <1>17, <1>18, <1>19, <1>20, <1>21, <1>22, <1>23, <1>24, <1>25 DEF
     Next, RunStep, RunFault

-----------------------------------------------------------------------------
(* The first index.                                                        *)

\* Every step keeps what the donor covers.
LEMMA FreeKept ==
  ASSUME TypeOK, RowsInv, DeliveryInv, FreeInv,
         Next
  PROVE  Unpaid' /\ Covered' /\ FirstIndexIsFree'
<1>1. CASE World
  BY <1>1, WorldFrame DEF TypeOK, Unpaid, Covered, FirstIndexIsFree, FreeInv, Toward
<1>2. CASE Start
  <2>1. Scan' = Scan /\ donor' = donor
    BY <1>2, ScanStands DEF Start
  <2>2. QED
    BY <1>2, <2>1 DEF TypeOK, Start, NoRun, Unpaid, Covered, FirstIndexIsFree
<1>3. CASE Open
  <2>1. Scan' = Scan /\ donor' = donor
    BY <1>3, ScanStands DEF Open
  <2>2. QED
    BY <1>3, <2>1 DEF TypeOK, Open, Unpaid, Covered, FirstIndexIsFree, FreeInv
<1>4. CASE First
  <2>1. /\ Scan' = Scan /\ donor' = donor /\ run'.paid = run.paid /\ pc = "first"
        /\ pc' \in {"clone", "build"}
        /\ run'.cloned = run.cloned /\ run'.calm = run.calm /\ run'.next = run.next
        /\ IF run.worktree THEN /\ run'.touched = Touched(Scan)
                                /\ run'.covered = {f \in Kept(Scan) : donor[f] = Scan[f]} /\ pc' = "clone"
           ELSE run' = run
    BY <1>4, ScanStands DEF First, Goto, TypeOK, Locals
  <2>2. ~run.first /\ ~run.cloned /\ run.paid = {}
    BY <2>1 DEF FreeInv, Covered, DeliveryInv, Ways, Unpaid
  <2>3. CASE run.worktree
    <3>1. /\ run'.covered \cap run'.touched = {}
          /\ \A h \in run'.covered : Scan[h] # None /\ donor[h] = Scan[h]
      BY <2>1, <2>3 DEF Touched, Kept
    <3>2. QED
      BY <2>1, <2>2, <2>3, <3>1 DEF Unpaid, Covered, FirstIndexIsFree, Toward
  <2>4. CASE ~run.worktree
    BY <2>1, <2>2, <2>4 DEF Unpaid, Covered, FirstIndexIsFree
  <2>5. QED
    BY <2>3, <2>4
<1>5. CASE BeginClone
  <2>1. Scan' = Scan /\ donor' = donor
    BY <1>5, ScanStands DEF BeginClone
  <2>2. QED
    BY <1>5, <2>1 DEF TypeOK, BeginClone, Goto, Unpaid, Covered, FirstIndexIsFree, FreeInv,
       Toward
<1>6. CASE CopyEdges
  <2>1. Scan' = Scan /\ donor' = donor
    BY <1>6, ScanStands DEF CopyEdges
  <2>2. QED
    BY <1>6, <2>1 DEF TypeOK, CopyEdges, Goto, Unpaid, Covered, FirstIndexIsFree, FreeInv,
       Toward
<1>7. CASE VerifyClone
  <2>1. Scan' = Scan /\ donor' = donor
    BY <1>7, ScanStands DEF VerifyClone
  <2>2. QED
    BY <1>7, <2>1 DEF TypeOK, VerifyClone, Goto, Unpaid, Covered, FirstIndexIsFree, FreeInv,
       Toward
<1>8. CASE CloneRefused
  <2>1. Scan' = Scan /\ donor' = donor
    BY <1>8, ScanStands DEF CloneRefused
  <2>2. QED
    BY <1>8, <2>1 DEF TypeOK, CloneRefused, Goto, Unpaid, Covered, FirstIndexIsFree,
       FreeInv, Toward
<1>9. CASE \E job \in run.copying : Copy(job[1], job[2])
  <2>1. PICK job \in run.copying : Copy(job[1], job[2])
    BY <1>9
  <2>2. /\ Scan' = Scan /\ donor' = donor /\ pc = "copy" /\ pc' = "copy"
        /\ run' = [run EXCEPT !.copying = @ \ {job}]
    BY <2>1, JobTypes, ScanStands DEF Copy
  <2>3. QED
    BY <2>2 DEF TypeOK, Unpaid, Covered, FirstIndexIsFree, FreeInv, Toward
<1>10. CASE \E job \in run.copying : CopyLoses(job[1], job[2])
  <2>1. PICK job \in run.copying : CopyLoses(job[1], job[2])
    BY <1>10
  <2>2. /\ Scan' = Scan /\ donor' = donor /\ pc = "copy" /\ pc' = "copy"
        /\ run' = [run EXCEPT !.copying = @ \ {job}]
    BY <2>1, JobTypes, ScanStands DEF CopyLoses, Fault, project
  <2>3. QED
    BY <2>2 DEF TypeOK, Unpaid, Covered, FirstIndexIsFree, FreeInv, Toward
<1>11. CASE DropClone
  <2>1. Scan' = Scan /\ donor' = donor
    BY <1>11, ScanStands DEF DropClone
  <2>2. QED
    BY <1>11, <2>1 DEF TypeOK, DropClone, Goto, Unpaid, Covered, FirstIndexIsFree, FreeInv,
       Toward
<1>12. CASE Seed
  <2>1. Scan' = Scan /\ donor' = donor
    BY <1>12, ScanStands DEF Seed
  <2>2. QED
    BY <1>12, <2>1 DEF TypeOK, Seed, Seeds, Goto, Unpaid, Covered, FirstIndexIsFree,
       FreeInv, Toward
<1>13. CASE Build
  <2>1. ~run.cloned /\ pc = "build"
    BY <1>13 DEF Build, DeliveryInv, Ways
  <2>2. run.first => \A h \in run.covered \cap run.calm : run.seeds[h] = Scan[h]
    BY <2>1 DEF FreeInv, Covered
  <2>3. QED
    BY <1>13, <2>1, <2>2, BuildRows DEF Unpaid, Covered, FirstIndexIsFree, FreeInv, Toward
<1>14. CASE Stamp
  <2>1. Scan' = Scan /\ donor' = donor
    BY <1>14, ScanStands DEF Stamp
  <2>2. QED
    BY <1>14, <2>1 DEF TypeOK, Stamp, Goto, Unpaid, Covered, FirstIndexIsFree, FreeInv,
       Toward
<1>15. CASE PersistSeeded
  <2>1. Scan' = Scan /\ donor' = donor
    BY <1>15, ScanStands DEF PersistSeeded
  <2>2. QED
    BY <1>15, <2>1 DEF TypeOK, PersistSeeded, Goto, NextStands, RowsInv, Unpaid, Covered,
       FirstIndexIsFree, FreeInv, Toward
<1>16. CASE Locate
  <2>1. Scan' = Scan /\ donor' = donor
    BY <1>16, ScanStands DEF Locate
  <2>2. QED
    BY <1>16, <2>1 DEF TypeOK, Locate, Goto, Unpaid, Covered, FirstIndexIsFree, FreeInv,
       Toward
<1>17. CASE Mark
  <2>1. Scan' = Scan /\ donor' = donor
    BY <1>17, ScanStands DEF Mark
  <2>2. QED
    BY <1>17, <2>1 DEF TypeOK, Mark, Goto, NextStands, RowsInv, Unpaid, Covered,
       FirstIndexIsFree, FreeInv, Toward
<1>18. CASE Update
  <2>1. run.first => run.cloned
    BY <1>18 DEF Update, FreeInv, Covered, Toward
  <2>2. run.cloned => \A h \in run.calm \ run.touched : node[h].sum = Scan[h]
    <3>1. \A h \in Files : RowOf(chunk[h]).sum = chunk[h]
      BY DEF RowOf
    <3>2. run.calm \subseteq Files
      BY DEF TypeOK, Locals
    <3>3. QED
      BY <1>18, <3>1, <3>2 DEF Update, DeliveryInv, CloneIsWhole, Toward
  <2>3. run.first => \A h \in run.covered \cap run.calm : h \notin run'.paid
    BY <2>1, <2>2, <1>18, UpdateRows DEF Unpaid, Covered, FirstIndexIsFree, FreeInv
  <2>4. run.first => pc' \in {"chunks", "done"}
    BY <1>18, <2>1, UpdateRows
  <2>5. QED
    BY <1>18, <2>1, <2>3, <2>4, UpdateRows DEF Unpaid, Covered, FirstIndexIsFree, FreeInv,
       Toward
<1>19. CASE Chunks
  <2>1. run.first => \A h \in run.covered \cap run.calm : run.scan[h] = Scan[h]
                                /\ run.scan[h] \in {chunk[h], run.seeds[h]}
    BY <1>19 DEF Chunks, DeliveryInv, CloneIsWhole, CalmScan, Scanned, Covered, FreeInv,
       Toward
  <2>2. QED
    BY <1>19, <2>1, ChunksRows DEF Chunks, Unpaid, Covered, FirstIndexIsFree, FreeInv,
       Toward
<1>20. CASE Repair
  BY <1>20, RepairRows DEF Repair, Unpaid, Covered, FirstIndexIsFree, FreeInv, Toward
<1>21. CASE Finish
  <2>1. Scan' = Scan /\ donor' = donor
    BY <1>21, ScanStands DEF Finish
  <2>2. QED
    BY <1>21, <2>1 DEF TypeOK, Finish, Return, NoRun, Unpaid, Covered, FirstIndexIsFree
<1>22. CASE CloneFails
  <2>1. Scan' = Scan /\ donor' = donor
    BY <1>22, ScanStands DEF CloneFails
  <2>2. QED
    BY <1>22, <2>1 DEF TypeOK, CloneFails, Goto, Unpaid, Covered, FirstIndexIsFree, FreeInv,
       Toward
<1>23. CASE DropFails
  <2>1. Scan' = Scan /\ donor' = donor
    BY <1>23, ScanStands DEF DropFails
  <2>2. QED
    BY <1>23, <2>1 DEF TypeOK, DropFails, Goto, Unpaid, Covered, FirstIndexIsFree, FreeInv,
       Toward
<1>24. CASE Crash
  <2>1. Scan' = Scan /\ donor' = donor
    BY <1>24, ScanStands DEF Crash
  <2>2. QED
    BY <1>24, <2>1 DEF TypeOK, Crash, Return, NoRun, Unpaid, Covered, FirstIndexIsFree
<1>25. CASE Sweep
  BY <1>25, SweepFrame, ScanStands DEF Unpaid, Covered, FirstIndexIsFree, FreeInv, Toward
<1>26. QED
  BY <1>1, <1>2, <1>3, <1>4, <1>5, <1>6, <1>7, <1>8, <1>9, <1>10, <1>11, <1>12, <1>13,
     <1>14, <1>15, <1>16, <1>17, <1>18, <1>19, <1>20, <1>21, <1>22, <1>23, <1>24, <1>25 DEF
     Next, RunStep, RunFault

-----------------------------------------------------------------------------
(* The janitor.                                                            *)

\* With one unmount at most, and with no checkout but the worktree at the path,
\* the janitor cannot take a worktree that is there for dead.
LEMMA SweepKept ==
  ASSUME MaxMounts <= 1,
         Kinds \subseteq {"worktree"},
         TypeOK,
         SweepInv,
         Next
  PROVE  SweepInv'
<1> USE DEF SweepInv
<1>1. CASE Create
  BY <1>1 DEF Create, Edited, TypeOK, janitor
<1>2. CASE Remove
  BY <1>2 DEF Remove
<1>3. CASE Unmount
  BY <1>3, WorktreeAssumption DEF Unmount, janitor, TypeOK
<1>4. CASE Mount
  BY <1>4 DEF Mount, janitor, bounds
<1>5. CASE \E f \in Files : Edit(f) \/ IndexDonor(f)
  BY <1>5 DEF Edit, IndexDonor, Edited, disk, janitor
<1>6. CASE Sweep
  BY <1>6 DEF Sweep, List, SeeMissing, SeeDonor, AskRegistry, Reap, Consider,
     StillRegistered, Present, disk, bounds, TypeOK
<1>7. CASE Start \/ RunStep \/ RunFault
  BY <1>7 DEF Start, RunStep, RunFault, Open, First, BeginClone, Copy, CopyEdges,
     VerifyClone, CloneRefused, DropClone, Seed, Build, Stamp, PersistSeeded, Locate, Mark,
     Update, Chunks, Repair, Finish, CopyLoses, CloneFails, DropFails, Crash, Fault, disk,
     janitor, bounds
<1>8. QED
  BY <1>1, <1>2, <1>3, <1>4, <1>5, <1>6, <1>7 DEF Next, World

\* The invariant of a worktree's index; SweepInv stands by itself, for it needs
\* more of the world.
WorktreeInv == RowsInv /\ DeliveryInv /\ FreeInv

\* A project nobody indexed.
LEMMA InitInv == Init => WorktreeInv
<1> SUFFICES ASSUME Init
             PROVE  WorktreeInv
  OBVIOUS
<1>1. TypeOK
  <2>1. NoRun \in Locals
    BY RowTypes DEF NoRun, Locals, Steps
  <2>2. /\ 1 \in Maybe /\ edits \in 0..MaxEdits /\ faults \in 0..MaxFaults
        /\ mounts \in 0..MaxMounts
    BY WorktreeAssumption DEF Init, Maybe, Content
  <2>3. QED
    BY <2>1, <2>2, RowTypes DEF Init, TypeOK, Steps
<1>2. RowsInv
  BY <1>1, RowTypes DEF Init, RowsInv, NextStands, Unscanned, CopyIsOfDonor, Blank,
     RootFirst, Stamped, GoneHaveNoNode, MarkerIsChunk, Toward, Scanned
<1>3. DeliveryInv /\ FreeInv
  BY RowTypes DEF Init, DeliveryInv, Unmarked, SummaryOfRow, Summarised, Forgotten,
     CalmScan, CalmDonor, CloneIsWhole, Ways, Delivers, FreeInv, Unpaid, Covered,
     FirstIndexIsFree, Toward, Scanned, NoRun
<1>4. QED
  BY <1>2, <1>3 DEF WorktreeInv

\* One step, or none, keeps the invariant.
LEMMA StepKeeps == WorktreeInv /\ [Next]_vars => WorktreeInv'
<1>1. ASSUME WorktreeInv, Next
      PROVE  WorktreeInv'
  <2>1. TypeOK /\ RowsInv /\ DeliveryInv /\ FreeInv
    BY <1>1 DEF WorktreeInv, RowsInv
  <2>2. TypeOK'
    BY <1>1, <2>1, TypeKept
  <2>3. RowsInv'
    BY <1>1, <2>1, <2>2, RowsInvKept DEF RowsInv
  <2>4. DeliveryInv'
    BY <1>1, <2>1, DeliveryKept DEF DeliveryInv
  <2>5. FreeInv'
    BY <1>1, <2>1, FreeKept DEF FreeInv
  <2>6. QED
    BY <2>3, <2>4, <2>5 DEF WorktreeInv
<1>2. ASSUME WorktreeInv, UNCHANGED vars
      PROVE  WorktreeInv'
  <2>1. /\ UNCHANGED <<donor, node, chunk, linked, root, clone, pc, run>> /\ Scan' = Scan
    BY <1>2 DEF vars, disk, project, rows, Scan, Present
  <2>2. TypeOK'
    BY <1>2 DEF vars, disk, project, rows, janitor, bounds, WorktreeInv, RowsInv, TypeOK
  <2>3. RowsInv'
    BY <1>2, <2>1, <2>2 DEF WorktreeInv, RowsInv, NextStands, Unscanned, CopyIsOfDonor,
       Blank, RootFirst, Stamped, GoneHaveNoNode, MarkerIsChunk, Toward, Scanned
  <2>4. DeliveryInv'
    BY <1>2, <2>1 DEF WorktreeInv, DeliveryInv, Unmarked, SummaryOfRow, Summarised,
       Forgotten, CalmScan, CalmDonor, CloneIsWhole, Ways, Delivers, Toward, Scanned
  <2>5. FreeInv'
    BY <1>2, <2>1 DEF WorktreeInv, FreeInv, Unpaid, Covered, FirstIndexIsFree, Toward
  <2>6. QED
    BY <2>3, <2>4, <2>5 DEF WorktreeInv
<1>3. QED
  BY <1>1, <1>2

\* The invariant holds of every behaviour.
LEMMA Invariant == Spec => []WorktreeInv
BY InitInv, StepKeeps, PTL DEF Spec

-----------------------------------------------------------------------------
(* The theorems.                                                           *)

\* No half of a clone is served, for every worktree: while a query finds the
\* project indexed, every coverage marker has its chunk, and the chunk its edge.
THEOREM HalfClonesAreNotServed == Spec => []WholeOrUnserved
<1>1. WorktreeInv => WholeOrUnserved
  <2> SUFFICES ASSUME WorktreeInv
               PROVE  TypeOK /\ ServedWhole
    BY DEF WholeOrUnserved
  <2>1. QED
    BY DEF WorktreeInv, RowsInv, MarkerIsChunk, ServedWhole, Queryable, Kept
<1>2. QED
  BY <1>1, Invariant, PTL

\* Every run that ends well has stored, for any number of files: of each file
\* nothing happened to meanwhile, the checksum, the summary, the chunk and the marker
\* are those of the bytes on the disk.
THEOREM RunsDeliver == Spec => []Delivers
<1>1. WorktreeInv => Delivers
  BY DEF WorktreeInv, DeliveryInv
<1>2. QED
  BY <1>1, Invariant, PTL

\* A first index pays for no file the main checkout had already paid for, by
\* whichever way it goes, unless something happened to that file meanwhile.
THEOREM CoveredFilesAreFree == Spec => []FirstIndexIsFree
<1>1. WorktreeInv => FirstIndexIsFree
  BY DEF WorktreeInv, FreeInv
<1>2. QED
  BY <1>1, Invariant, PTL

\* The janitor reaps only what was away since it listed the project, if the
\* disk was unmounted at most once and nothing but a worktree comes to the path.
\* With a second unmount, or an ordinary checkout, it may reap a living one: see
\* the known deviations.
THEOREM LivingAreSpared ==
  ASSUME MaxMounts <= 1,
         Kinds \subseteq {"worktree"}
  PROVE  Spec => LivingSpared
<1>1. Init => SweepInv
  BY DEF Init, SweepInv
<1>2. TypeOK /\ SweepInv /\ [Next]_vars => SweepInv'
  <2>1. TypeOK /\ SweepInv /\ Next => SweepInv'
    BY SweepKept
  <2>2. SweepInv /\ UNCHANGED vars => SweepInv'
    BY DEF vars, disk, janitor, bounds, SweepInv
  <2>3. QED
    BY <2>1, <2>2
<1>3. SweepInv => [Reaped => absent]_vars
  BY DEF SweepInv, Reaped
<1>4. WorktreeInv => TypeOK
  BY DEF WorktreeInv, RowsInv
<1>5. QED
  BY <1>1, <1>2, <1>3, <1>4, Invariant, PTL DEF Spec, LivingSpared

=============================================================================
