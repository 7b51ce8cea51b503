--------------------------- MODULE IndexRunProofs ---------------------------
(***************************************************************************)
(* What holds of every run of module IndexRun, whatever the tree does under *)
(* it and whatever fails: for any number of files, runs, edits and faults.  *)
(* A stored checksum, coverage marker, summary hash or vector hash is a     *)
(* claim about the bytes on disk: it keeps every later run from looking     *)
(* again.  The second half has the worlds in which each claim is true.      *)
(***************************************************************************)
EXTENDS IndexRun, FiniteSetTheorems, TLAPS

-----------------------------------------------------------------------------
(* The invariant of a run.                                                   *)

\* Between two runs nothing is left of the last.
IdleIsEmpty == pc = "idle" => run = NoRun /\ todo = {}

\* What the loops of a run have still to do was there when they began.
LoopsAreSound ==
  /\ pc \in {"upsert", "summarize"} => todo \subseteq Produced
  /\ pc = "store" => todo \subseteq run.run_files
  /\ pc \in {"store", "mark"} => \A f \in run.run_files : run.read[f] # None
  /\ pc = "embed" => \A f \in todo : Draft(f).sum # None
  /\ pc \in {"answer", "rechunk"} => run.repairing
  /\ pc \in {"pending", "preflight", "diff", "scan", "parse", "plan", "upsert", "hash", "summarize"} =>
       ~run.repairing

\* A run knows every file it found gone; what it is to delete is gone.
GoneIsNoted ==
  pc # "idle" => (Files \ Present) \cup run.confirmed_deleted \subseteq run.gone

\* What a prune may take from a file it leaves a chunk: that of the bytes it read.
PruneIsCovered ==
  /\ pc \in {"upsert", "hash", "summarize"} => run.reconcilable \subseteq Produced \cup run.gone
  /\ pc \in {"chunk", "store"} => run.reconcilable \subseteq run.run_files \cup run.gone
  /\ pc \in {"store", "mark"} /\ ~run.failed =>
       \A f \in run.run_files : f \in todo \/ run.read[f] \in chunks[f]

RunInv == TypeOK /\ IdleIsEmpty /\ LoopsAreSound /\ GoneIsNoted /\ PruneIsCovered

-----------------------------------------------------------------------------
(* Names and types.                                                          *)

\* What a world allows is within the bounds.
LEMMA WorldTypes ==
  ASSUME TypeOK
  PROVE  /\ world.edits \in 0..MaxEdits /\ world.mishaps \in 0..MaxFaults
         /\ world.deletable \subseteq Files /\ world \in World
<1>1. world \in World
  BY IndexRunAssumption DEF TypeOK
<1>2. QED
  BY <1>1 DEF World

\* The three names that are no content differ from every content and each other.
LEMMA Names ==
  /\ None \notin Content /\ Docstring \notin Content /\ NoSource \notin Content
  /\ None # Docstring /\ None # NoSource /\ Docstring # NoSource
<1>1. None \notin Content /\ Docstring \notin Content /\ NoSource \notin Content
  <2>1. None \notin Nat /\ Docstring \notin Nat /\ NoSource \notin Nat
    BY IndexRunAssumption
  <2>2. Content \subseteq Nat
    BY DEF Content
  <2>3. QED
    BY <2>1, <2>2
<1>2. \A a, b : Cardinality({a, b}) # 3
  <2> SUFFICES ASSUME NEW a, NEW b PROVE Cardinality({a, b}) # 3
    OBVIOUS
  <2>1. CASE a = b
    <3>1. {a, b} = {a}
      BY <2>1
    <3>2. Cardinality({a}) = 1
      BY FS_Singleton
    <3>3. QED
      BY <3>1, <3>2
  <2>2. CASE a # b
    <3>1. IsFiniteSet({a}) /\ Cardinality({a}) = 1
      BY FS_Singleton
    <3>2. {a, b} = {a} \cup {b}
      OBVIOUS
    <3>3. Cardinality({a} \cup {b}) = 2
      BY <3>1, <2>2, FS_AddElement
    <3>4. QED
      BY <3>2, <3>3
  <2>3. QED
    BY <2>1, <2>2
<1>3. ASSUME None = Docstring \/ None = NoSource \/ Docstring = NoSource
      PROVE  FALSE
  <2>1. {None, Docstring, NoSource} = {None, Docstring} \/ {None, Docstring, NoSource} = {None, NoSource}
    BY <1>3
  <2>2. QED
    BY <2>1, <1>2, IndexRunAssumption
<1>4. QED
  BY <1>1, <1>3

\* A row keeps its type when any of its parts is written.
LEMMA RowTypes ==
  ASSUME NEW n \in Node
  PROVE  /\ NoNode \in Node
         /\ \A c \in Content \cup {None} : /\ [n EXCEPT !.rows = c] \in Node
                                           /\ [n EXCEPT !.ck = c] \in Node
                                           /\ [n EXCEPT !.marker = c] \in Node
         /\ \A s \in Text, h \in Hash : /\ [n EXCEPT !.sum = s, !.hash = h] \in Node
                                        /\ [n EXCEPT !.vec = s, !.vecHash = h] \in Node
<1>1. NoNode \in Node
  BY DEF Node, NoNode, Text, Hash
<1>2. ASSUME NEW c \in Content \cup {None}
      PROVE  /\ [n EXCEPT !.rows = c] \in Node
             /\ [n EXCEPT !.ck = c] \in Node
             /\ [n EXCEPT !.marker = c] \in Node
  BY DEF Node
<1>3. ASSUME NEW s \in Text, NEW h \in Hash
      PROVE  /\ [n EXCEPT !.sum = s, !.hash = h] \in Node
             /\ [n EXCEPT !.vec = s, !.vecHash = h] \in Node
  BY DEF Node
<1>4. QED
  BY <1>1, <1>2, <1>3

\* One file's draft may be replaced.
LEMMA DraftTypes ==
  ASSUME NEW d \in [Files -> [sum : Text, hash : Hash]], NEW f \in Files,
         NEW s \in Text, NEW h \in Hash
  PROVE  [d EXCEPT ![f] = [sum |-> s, hash |-> h]] \in [Files -> [sum : Text, hash : Hash]]
OBVIOUS

\* The hash of what a file reads as, and what stands in for a summary.
LEMMA HashTypes ==
  ASSUME TypeOK, NEW f \in Files
  PROVE  /\ disk[f] \in Content \cup {None}
         /\ InputHash(disk[f]) \in Hash
         /\ Fallback(f) \in Text
         /\ disk[f] \in Text /\ node[f] \in Node
         /\ node[f].sum \in Text /\ node[f].hash \in Hash
         /\ node[f].ck \in Content \cup {None}
         /\ run.draft[f].sum \in Text /\ run.draft[f].hash \in Hash
         /\ run.draft[f] = [sum |-> run.draft[f].sum, hash |-> run.draft[f].hash]
<1>1. disk[f] \in Content \cup {None} /\ node[f] \in Node
      /\ run.draft[f] \in [sum : Text, hash : Hash]
  BY DEF TypeOK, Locals
<1>2. QED
  BY <1>1 DEF InputHash, Fallback, Hash, Text, Node

\* A run begins with typed locals, and drops them at its end.
LEMMA PaidTypes ==
  ASSUME TypeOK, NEW f \in Files
  PROVE  /\ run \in Locals
         /\ [run EXCEPT !.paid = @ \cup {f}] \in Locals
         /\ [run EXCEPT !.failed = TRUE, !.paid = @ \cup {f}] \in Locals
<1>1. run \in Locals
  BY DEF TypeOK
<1>2. QED
  BY <1>1 DEF Locals

\* The locals of no run are typed.
LEMMA NoRunTypes == NoRun \in Locals
BY DEF NoRun, Locals, Nothing, NoDraft, Hash, Text

\* Settling a file keeps the types.
LEMMA SettleTypes ==
  ASSUME TypeOK, NEW f \in Files, NEW s \in Text, NEW h \in Hash, NEW d \in SUBSET Files,
         Settle(f, s, h, d)
  PROVE  run' \in Locals /\ node' \in [Files -> Node]
<1>1. node' \in [Files -> Node]
  <2>1. CASE s = None
    BY <2>1 DEF Settle, TypeOK
  <2>2. CASE s # None
    <3>1. node' = [node EXCEPT ![f] = [node[f] EXCEPT !.sum = s, !.hash = h]]
      BY <2>2 DEF Settle, TypeOK
    <3>2. QED
      BY <3>1, RowTypes DEF TypeOK
  <2>3. QED
    BY <2>1, <2>2
<1>2. run' \in Locals
  <2> DEFINE dr == [run.draft EXCEPT ![f] = [sum |-> s, hash |-> h]]
             pd == run.paid \cup (IF Source(f) # None THEN {f} ELSE {})
  <2>1. dr \in [Files -> [sum : Text, hash : Hash]] /\ pd \in SUBSET Files
        /\ run.dirty \cup d \in SUBSET Files
    BY DEF TypeOK, Locals
  <2>2. run' = [run EXCEPT !.draft = dr, !.dirty = @ \cup d, !.paid = pd]
    BY DEF Settle
  <2>3. QED
    BY <2>1, <2>2 DEF TypeOK, Locals
<1>3. QED
  BY <1>1, <1>2

\* Every step keeps the types; a chunk that is stored was read.
LEMMA TypesKept ==
  ASSUME TypeOK, LoopsAreSound, [Next]_vars
  PROVE  TypeOK'
<1>1. ASSUME NEW f \in Files, Edit(f)
      PROVE  TypeOK'
  <2>1. run' \in Locals
    <3>1. CASE pc = "idle"
      BY <1>1, <3>1 DEF Edit, TypeOK
    <3>2. CASE pc # "idle"
      <4>1. PICK c : run' = [run EXCEPT !.settled = @ \ {f}, !.gone = @ \cup (IF c = None THEN {f} ELSE {})]
        BY <1>1, <3>2 DEF Edit
      <4>2. QED
        BY <4>1 DEF TypeOK, Locals
    <3>3. QED
      BY <3>1, <3>2
  <2>2. /\ world' \in Worlds /\ disk' \in [Files -> Content \cup {None}]
        /\ node' \in [Files -> Node]
        /\ chunks' \in [Files -> SUBSET Content] /\ loose' \in [Files -> SUBSET Content]
        /\ rooted' \in BOOLEAN
    <3>1. PICK c : /\ c \in {edits + 2} \cup (IF world.reverts THEN 1..(edits + 1) ELSE {})
                            \cup (IF f \in world.deletable THEN {None} ELSE {})
                   /\ disk' = [disk EXCEPT ![f] = c]
      BY <1>1 DEF Edit
    <3>2. edits \in Nat /\ edits < MaxEdits /\ MaxEdits \in Nat
      BY <1>1, WorldTypes, IndexRunAssumption DEF Edit, TypeOK
    <3>3. c \in Content \cup {None}
      <4>1. 1..(edits + 1) \subseteq Content /\ edits + 2 \in Content
        BY <3>2 DEF Content
      <4>2. QED
        BY <3>1, <4>1
    <3>4. disk' \in [Files -> Content \cup {None}]
      BY <3>1, <3>3 DEF TypeOK
    <3>5. QED
      BY <1>1, <3>4 DEF Edit, TypeOK, store
  <2>3. pc' \in Steps /\ todo' \subseteq Files
    BY <1>1 DEF Edit, TypeOK
  <2>4. edits' \in 0..world.edits /\ faults' \in 0..world.mishaps /\ world' = world
    BY <1>1, WorldTypes DEF Edit, TypeOK
  <2>5. QED
    BY <2>1, <2>2, <2>3, <2>4 DEF TypeOK
<1>2. CASE StartIndex
  <2>1. run' \in Locals
    BY <1>2, NoRunTypes DEF StartIndex, Begin, Locals
  <2>2. /\ world' \in Worlds /\ disk' \in [Files -> Content \cup {None}]
        /\ node' \in [Files -> Node]
        /\ chunks' \in [Files -> SUBSET Content] /\ loose' \in [Files -> SUBSET Content]
        /\ rooted' \in BOOLEAN
    BY <1>2 DEF StartIndex, Begin, TypeOK, store
  <2>3. pc' \in Steps /\ todo' \subseteq Files
    BY <1>2 DEF StartIndex, Begin, Goto, Steps
  <2>4. edits' \in 0..world.edits /\ faults' \in 0..world.mishaps /\ world' = world
    BY <1>2 DEF StartIndex, Begin, TypeOK, bounds
  <2>5. QED
    BY <2>1, <2>2, <2>3, <2>4 DEF TypeOK
<1>3. CASE StartForce
  <2>1. run' \in Locals
    BY <1>3, NoRunTypes DEF StartForce, Begin, Goto, TypeOK, Content, Hash, Text, Node,
       NoNode, Locals, NoRun, Nothing, NoDraft, Empty, LoopsAreSound
  <2>2. /\ world' \in Worlds /\ disk' \in [Files -> Content \cup {None}]
        /\ node' \in [Files -> Node]
        /\ chunks' \in [Files -> SUBSET Content] /\ loose' \in [Files -> SUBSET Content]
        /\ rooted' \in BOOLEAN
    BY <1>3 DEF StartForce, Begin, TypeOK, store
  <2>3. pc' \in Steps /\ todo' \subseteq Files
    BY <1>3 DEF StartForce, Begin, Goto, Steps
  <2>4. edits' \in 0..world.edits /\ faults' \in 0..world.mishaps /\ world' = world
    BY <1>3 DEF StartForce, Begin, TypeOK, bounds
  <2>5. QED
    BY <2>1, <2>2, <2>3, <2>4 DEF TypeOK
<1>4. CASE StartFlush
  <2>1. run' \in Locals
    <3>1. PICK reported \in SUBSET Files : Begin("flush", reported, "pending")
      BY <1>4 DEF StartFlush
    <3>2. QED
      BY <3>1, NoRunTypes DEF Begin, Locals, Present
  <2>2. /\ world' \in Worlds /\ disk' \in [Files -> Content \cup {None}]
        /\ node' \in [Files -> Node]
        /\ chunks' \in [Files -> SUBSET Content] /\ loose' \in [Files -> SUBSET Content]
        /\ rooted' \in BOOLEAN
    BY <1>4 DEF StartFlush, Begin, TypeOK, store
  <2>3. pc' \in Steps /\ todo' \subseteq Files
    BY <1>4 DEF StartFlush, Begin, Goto, Steps
  <2>4. edits' \in 0..world.edits /\ faults' \in 0..world.mishaps /\ world' = world
    BY <1>4 DEF StartFlush, Begin, TypeOK, bounds
  <2>5. QED
    BY <2>1, <2>2, <2>3, <2>4 DEF TypeOK
<1>5. CASE CheckPending
  <2>1. run' \in Locals
    BY <1>5, NoRunTypes DEF CheckPending, Return, TypeOK
  <2>2. /\ world' \in Worlds /\ disk' \in [Files -> Content \cup {None}]
        /\ node' \in [Files -> Node]
        /\ chunks' \in [Files -> SUBSET Content] /\ loose' \in [Files -> SUBSET Content]
        /\ rooted' \in BOOLEAN
    BY <1>5 DEF CheckPending, TypeOK, store
  <2>3. pc' \in Steps /\ todo' \subseteq Files
    BY <1>5 DEF CheckPending, Goto, Return, Steps
  <2>4. edits' \in 0..world.edits /\ faults' \in 0..world.mishaps /\ world' = world
    BY <1>5 DEF CheckPending, TypeOK, bounds
  <2>5. QED
    BY <2>1, <2>2, <2>3, <2>4 DEF TypeOK
<1>6. CASE Preflight
  <2>1. run' \in Locals
    BY <1>6 DEF Preflight, TypeOK
  <2>2. /\ world' \in Worlds /\ disk' \in [Files -> Content \cup {None}]
        /\ node' \in [Files -> Node]
        /\ chunks' \in [Files -> SUBSET Content] /\ loose' \in [Files -> SUBSET Content]
        /\ rooted' \in BOOLEAN
    BY <1>6 DEF Preflight, TypeOK, store
  <2>3. pc' \in Steps /\ todo' \subseteq Files
    BY <1>6 DEF Preflight, Goto, Steps
  <2>4. edits' \in 0..world.edits /\ faults' \in 0..world.mishaps /\ world' = world
    BY <1>6 DEF Preflight, TypeOK, bounds
  <2>5. QED
    BY <2>1, <2>2, <2>3, <2>4 DEF TypeOK
<1>7. CASE PreflightFails
  <2>1. run' \in Locals
    BY <1>7, NoRunTypes DEF PreflightFails, Return
  <2>2. /\ world' \in Worlds /\ disk' \in [Files -> Content \cup {None}]
        /\ node' \in [Files -> Node]
        /\ chunks' \in [Files -> SUBSET Content] /\ loose' \in [Files -> SUBSET Content]
        /\ rooted' \in BOOLEAN
    BY <1>7 DEF PreflightFails, TypeOK, store
  <2>3. pc' \in Steps /\ todo' \subseteq Files
    BY <1>7 DEF PreflightFails, Goto, Return, Steps
  <2>4. edits' \in 0..world.edits /\ faults' \in 0..world.mishaps /\ world' = world
    BY <1>7, WorldTypes DEF PreflightFails, Fault, May, TypeOK
  <2>5. QED
    BY <2>1, <2>2, <2>3, <2>4 DEF TypeOK
<1>8. CASE Diff
  <2>1. run' \in Locals
    <3>1. Unchanged \in SUBSET Files /\ run \in Locals
      BY DEF TypeOK, Unchanged, Present
    <3>2. [run EXCEPT !.unchanged = Unchanged] \in Locals
      BY <3>1 DEF Locals
    <3>3. QED
      BY <1>8, <3>1, <3>2, NoRunTypes DEF Diff, Return
  <2>2. /\ world' \in Worlds /\ disk' \in [Files -> Content \cup {None}]
        /\ node' \in [Files -> Node]
        /\ chunks' \in [Files -> SUBSET Content] /\ loose' \in [Files -> SUBSET Content]
        /\ rooted' \in BOOLEAN
    BY <1>8 DEF Diff, TypeOK, store
  <2>3. pc' \in Steps /\ todo' \subseteq Files
    BY <1>8 DEF Diff, Goto, Return, Steps
  <2>4. edits' \in 0..world.edits /\ faults' \in 0..world.mishaps /\ world' = world
    BY <1>8 DEF Diff, TypeOK, bounds
  <2>5. QED
    BY <2>1, <2>2, <2>3, <2>4 DEF TypeOK
<1>9. CASE Snapshot
  <2>1. run' \in Locals
    BY <1>9, NoRunTypes DEF Snapshot, Goto, TypeOK, Content, Hash, Text, Node, NoNode,
       Locals, NoRun, Nothing, NoDraft, Empty, LoopsAreSound
  <2>2. /\ world' \in Worlds /\ disk' \in [Files -> Content \cup {None}]
        /\ node' \in [Files -> Node]
        /\ chunks' \in [Files -> SUBSET Content] /\ loose' \in [Files -> SUBSET Content]
        /\ rooted' \in BOOLEAN
    BY <1>9 DEF Snapshot, TypeOK, store
  <2>3. pc' \in Steps /\ todo' \subseteq Files
    BY <1>9 DEF Snapshot, Goto, Steps
  <2>4. edits' \in 0..world.edits /\ faults' \in 0..world.mishaps /\ world' = world
    BY <1>9 DEF Snapshot, TypeOK, bounds
  <2>5. QED
    BY <2>1, <2>2, <2>3, <2>4 DEF TypeOK
<1>10. CASE Parse
  <2>1. run' \in Locals
    <3>1. PICK S : run' = [run EXCEPT !.parsed = [f \in Files |-> IF f \in S THEN disk[f] ELSE None]]
      BY <1>10 DEF Parse
    <3>2. [f \in Files |-> IF f \in S THEN disk[f] ELSE None] \in [Files -> Content \cup {None}]
      BY DEF TypeOK
    <3>3. QED
      BY <3>1, <3>2 DEF TypeOK, Locals
  <2>2. /\ world' \in Worlds /\ disk' \in [Files -> Content \cup {None}]
        /\ node' \in [Files -> Node]
        /\ chunks' \in [Files -> SUBSET Content] /\ loose' \in [Files -> SUBSET Content]
        /\ rooted' \in BOOLEAN
    BY <1>10 DEF Parse, TypeOK, store
  <2>3. pc' \in Steps /\ todo' \subseteq Files
    BY <1>10 DEF Parse, Goto, Steps
  <2>4. edits' \in 0..world.edits /\ faults' \in 0..world.mishaps /\ world' = world
    <3>1. PICK bad \in Unreadable("parse", {f \in Files : run.snapshot[f] # None}) : Count(bad)
      BY <1>10 DEF Parse
    <3>2. bad = {} \/ (faults < world.mishaps /\ \E f : bad = {f})
      BY <3>1 DEF Unreadable, May
    <3>3. Cardinality(bad) = 0 \/ (faults < world.mishaps /\ Cardinality(bad) = 1)
      BY <3>2, FS_EmptySet, FS_Singleton
    <3>4. QED
      BY <1>10, <3>1, <3>3, WorldTypes DEF Parse, Count, TypeOK
  <2>5. QED
    BY <2>1, <2>2, <2>3, <2>4 DEF TypeOK
<1>11. CASE GateRefuses
  <2>1. run' \in Locals
    BY <1>11, NoRunTypes DEF GateRefuses, Return
  <2>2. /\ world' \in Worlds /\ disk' \in [Files -> Content \cup {None}]
        /\ node' \in [Files -> Node]
        /\ chunks' \in [Files -> SUBSET Content] /\ loose' \in [Files -> SUBSET Content]
        /\ rooted' \in BOOLEAN
    BY <1>11 DEF GateRefuses, TypeOK, store
  <2>3. pc' \in Steps /\ todo' \subseteq Files
    BY <1>11 DEF GateRefuses, Goto, Return, Steps
  <2>4. edits' \in 0..world.edits /\ faults' \in 0..world.mishaps /\ world' = world
    BY <1>11, WorldTypes DEF GateRefuses, Fault, May, TypeOK
  <2>5. QED
    BY <2>1, <2>2, <2>3, <2>4 DEF TypeOK
<1>12. CASE PlanReconcile
  <2>1. run' \in Locals
    BY <1>12, NoRunTypes DEF PlanReconcile, Goto, ConfirmedDeleted, Reconcilable, Stored,
       Produced, TypeOK, Content, Hash, Text, Node, NoNode, Locals, NoRun, Nothing, NoDraft,
       Empty, LoopsAreSound
  <2>2. /\ world' \in Worlds /\ disk' \in [Files -> Content \cup {None}]
        /\ node' \in [Files -> Node]
        /\ chunks' \in [Files -> SUBSET Content] /\ loose' \in [Files -> SUBSET Content]
        /\ rooted' \in BOOLEAN
    BY <1>12 DEF PlanReconcile, TypeOK, store
  <2>3. pc' \in Steps /\ todo' \subseteq Files
    BY <1>12 DEF PlanReconcile, Goto, Produced, Steps
  <2>4. edits' \in 0..world.edits /\ faults' \in 0..world.mishaps /\ world' = world
    BY <1>12 DEF PlanReconcile, TypeOK, bounds
  <2>5. QED
    BY <2>1, <2>2, <2>3, <2>4 DEF TypeOK
<1>13. ASSUME NEW f \in Files, Upsert(f)
      PROVE  TypeOK'
  <2>1. run' \in Locals
    BY <1>13 DEF Upsert, TypeOK
  <2>2. /\ world' \in Worlds /\ disk' \in [Files -> Content \cup {None}]
        /\ node' \in [Files -> Node]
        /\ chunks' \in [Files -> SUBSET Content] /\ loose' \in [Files -> SUBSET Content]
        /\ rooted' \in BOOLEAN
    <3>1. run.parsed[f] \in Content \cup {None}
      BY DEF TypeOK, Locals
    <3>4. node[f] \in Node
      BY DEF TypeOK
    <3>5. Row(f) \in Node
      BY <3>1, <3>4, RowTypes DEF Row
    <3>2. node' \in [Files -> Node]
      BY <1>13, <3>5 DEF Upsert, TypeOK
    <3>3. QED
      BY <1>13, <3>2 DEF Upsert, TypeOK
  <2>3. pc' \in Steps /\ todo' \subseteq Files
    BY <1>13 DEF Upsert, Next1, TypeOK
  <2>4. edits' \in 0..world.edits /\ faults' \in 0..world.mishaps /\ world' = world
    BY <1>13 DEF Upsert, TypeOK, bounds
  <2>5. QED
    BY <2>1, <2>2, <2>3, <2>4 DEF TypeOK
<1>14. CASE DeleteStale
  <2>1. run' \in Locals
    BY <1>14 DEF DeleteStale, TypeOK
  <2>2. /\ world' \in Worlds /\ disk' \in [Files -> Content \cup {None}]
        /\ node' \in [Files -> Node]
        /\ chunks' \in [Files -> SUBSET Content] /\ loose' \in [Files -> SUBSET Content]
        /\ rooted' \in BOOLEAN
    BY <1>14 DEF DeleteStale, TypeOK, Hash, Text, Node, NoNode
  <2>3. pc' \in Steps /\ todo' \subseteq Files
    BY <1>14 DEF DeleteStale, Goto, Steps
  <2>4. edits' \in 0..world.edits /\ faults' \in 0..world.mishaps /\ world' = world
    BY <1>14 DEF DeleteStale, TypeOK, bounds
  <2>5. QED
    BY <2>1, <2>2, <2>3, <2>4 DEF TypeOK
<1>15. CASE HashInputs
  <2>1. run' \in Locals
    <3>1. \A f \in Files : /\ NoDraft[f] \in [sum : Text, hash : Hash]
                           /\ [sum |-> IF Reusable(f) THEN node[f].sum ELSE None, hash |-> InputHash(disk[f])]
                                \in [sum : Text, hash : Hash]
      BY HashTypes DEF NoDraft, Text, Hash
    <3> DEFINE d == [f \in Files |-> IF f \notin Produced THEN NoDraft[f]
                                ELSE [sum |-> IF Reusable(f) THEN node[f].sum ELSE None,
                                      hash |-> InputHash(disk[f])]]
    <3>2. d \in [Files -> [sum : Text, hash : Hash]]
      BY <3>1
    <3>3. run' = [run EXCEPT !.draft = d] /\ run \in Locals
      BY <1>15 DEF HashInputs, TypeOK
    <3> HIDE DEF d
    <3>4. QED
      BY <3>2, <3>3 DEF Locals
  <2>2. /\ world' \in Worlds /\ disk' \in [Files -> Content \cup {None}]
        /\ node' \in [Files -> Node]
        /\ chunks' \in [Files -> SUBSET Content] /\ loose' \in [Files -> SUBSET Content]
        /\ rooted' \in BOOLEAN
    BY <1>15 DEF HashInputs, TypeOK, store
  <2>3. pc' \in Steps /\ todo' \subseteq Files
    BY <1>15 DEF HashInputs, Goto, Produced, Steps
  <2>4. edits' \in 0..world.edits /\ faults' \in 0..world.mishaps /\ world' = world
    BY <1>15 DEF HashInputs, TypeOK, bounds
  <2>5. QED
    BY <2>1, <2>2, <2>3, <2>4 DEF TypeOK
<1>16. ASSUME NEW f \in Files, Summarize(f)
      PROVE  TypeOK'
  <2>1. run' \in Locals /\ node' \in [Files -> Node]
    <3>1. Settle(f, IF Source(f) # None THEN Source(f) ELSE Fallback(f), run.draft[f].hash, {f})
      BY <1>16 DEF Summarize
    <3>2. (IF Source(f) # None THEN Source(f) ELSE Fallback(f)) \in Text /\ run.draft[f].hash \in Hash
      BY HashTypes DEF Source
    <3>3. QED
      BY <3>1, <3>2, SettleTypes
  <2>2. /\ world' \in Worlds /\ disk' \in [Files -> Content \cup {None}]
        /\ node' \in [Files -> Node]
        /\ chunks' \in [Files -> SUBSET Content] /\ loose' \in [Files -> SUBSET Content]
        /\ rooted' \in BOOLEAN
    BY <1>16, <2>1 DEF Summarize, Settle, TypeOK
  <2>3. pc' \in Steps /\ todo' \subseteq Files
    BY <1>16 DEF Summarize, Settle, Next1, TypeOK
  <2>4. edits' \in 0..world.edits /\ faults' \in 0..world.mishaps /\ world' = world
    BY <1>16 DEF Summarize, Settle, TypeOK, bounds
  <2>5. QED
    BY <2>1, <2>2, <2>3, <2>4 DEF TypeOK
<1>17. ASSUME NEW f \in Files, SummarizeFails(f)
      PROVE  TypeOK'
  <2>1. run' \in Locals /\ node' \in [Files -> Node]
    <3>1. RetryHash(f) \in Hash
      BY DEF RetryHash, Hash
    <3>2. Settle(f, node[f].sum, RetryHash(f), {}) \/ Settle(f, Fallback(f), RetryHash(f), {f})
      BY <1>17 DEF SummarizeFails
    <3>4. node[f].sum \in Text /\ Fallback(f) \in Text /\ {f} \in SUBSET Files
          /\ {} \in SUBSET Files
      BY HashTypes
    <3>5. CASE Settle(f, node[f].sum, RetryHash(f), {})
      BY <3>1, <3>4, <3>5, SettleTypes
    <3>6. CASE Settle(f, Fallback(f), RetryHash(f), {f})
      BY <3>1, <3>4, <3>6, SettleTypes
    <3>7. QED
      BY <3>2, <3>5, <3>6
  <2>2. /\ world' \in Worlds /\ disk' \in [Files -> Content \cup {None}]
        /\ node' \in [Files -> Node]
        /\ chunks' \in [Files -> SUBSET Content] /\ loose' \in [Files -> SUBSET Content]
        /\ rooted' \in BOOLEAN
    BY <1>17, <2>1 DEF SummarizeFails, Settle, TypeOK
  <2>3. pc' \in Steps /\ todo' \subseteq Files
    BY <1>17 DEF SummarizeFails, Settle, Next1, TypeOK
  <2>4. edits' \in 0..world.edits /\ faults' \in 0..world.mishaps /\ world' = world
    BY <1>17, WorldTypes DEF SummarizeFails, Settle, Fault, May, TypeOK
  <2>5. QED
    BY <2>1, <2>2, <2>3, <2>4 DEF TypeOK
<1>18. CASE UpdateChecksums
  <2>1. run' \in Locals
    <3>1. Produced \in SUBSET Files /\ run \in Locals
      BY DEF TypeOK, Produced
    <3>2. [run EXCEPT !.run_files = Produced] \in Locals
      BY <3>1 DEF Locals
    <3>3. QED
      BY <1>18, <3>1, <3>2, NoRunTypes DEF UpdateChecksums, Return
  <2>2. /\ world' \in Worlds /\ disk' \in [Files -> Content \cup {None}]
        /\ node' \in [Files -> Node]
        /\ chunks' \in [Files -> SUBSET Content] /\ loose' \in [Files -> SUBSET Content]
        /\ rooted' \in BOOLEAN
    <3>1. \A f \in Files : run.snapshot[f] \in Content \cup {None} /\ node[f] \in Node
      BY DEF TypeOK, Locals
    <3>2. node' \in [Files -> Node]
      BY <1>18, <3>1, RowTypes DEF UpdateChecksums, Checksum
    <3>3. QED
      BY <1>18, <3>2 DEF UpdateChecksums, TypeOK
  <2>3. pc' \in Steps /\ todo' \subseteq Files
    BY <1>18 DEF UpdateChecksums, Goto, Return, Steps
  <2>4. edits' \in 0..world.edits /\ faults' \in 0..world.mishaps /\ world' = world
    BY <1>18 DEF UpdateChecksums, TypeOK, bounds
  <2>5. QED
    BY <2>1, <2>2, <2>3, <2>4 DEF TypeOK
<1>19. CASE ReadChunks
  <2>1. run' \in Locals
    <3>1. PICK S : /\ S \subseteq run.run_files
                   /\ run' = [run EXCEPT !.read = [f \in Files |-> IF f \in S THEN disk[f] ELSE None],
                                !.run_files = S,
                                !.reconcilable = @ \ (run.run_files \ S)]
      BY <1>19 DEF ReadChunks
    <3>2. [f \in Files |-> IF f \in S THEN disk[f] ELSE None] \in [Files -> Content \cup {None}]
      BY DEF TypeOK
    <3>3. QED
      BY <3>1, <3>2 DEF TypeOK, Locals
  <2>2. /\ world' \in Worlds /\ disk' \in [Files -> Content \cup {None}]
        /\ node' \in [Files -> Node]
        /\ chunks' \in [Files -> SUBSET Content] /\ loose' \in [Files -> SUBSET Content]
        /\ rooted' \in BOOLEAN
    BY <1>19 DEF ReadChunks, TypeOK, store
  <2>3. pc' \in Steps /\ todo' \subseteq Files
    BY <1>19 DEF ReadChunks, Goto, TypeOK, Steps, Locals
  <2>4. edits' \in 0..world.edits /\ faults' \in 0..world.mishaps /\ world' = world
    <3>1. PICK bad \in Unreadable("chunkread", run.run_files) : Count(bad)
      BY <1>19 DEF ReadChunks
    <3>2. bad = {} \/ (faults < world.mishaps /\ \E f : bad = {f})
      BY <3>1 DEF Unreadable, May
    <3>3. Cardinality(bad) = 0 \/ (faults < world.mishaps /\ Cardinality(bad) = 1)
      BY <3>2, FS_EmptySet, FS_Singleton
    <3>4. QED
      BY <1>19, <3>1, <3>3, WorldTypes DEF ReadChunks, Count, TypeOK
  <2>5. QED
    BY <2>1, <2>2, <2>3, <2>4 DEF TypeOK
<1>20. ASSUME NEW f \in Files, StoreChunk(f)
      PROVE  TypeOK'
  <2>1. run' \in Locals
    <3>1. run' = run \/ run' = [run EXCEPT !.paid = @ \cup {f}]
      BY <1>20 DEF StoreChunk
    <3>2. QED
      BY <3>1, PaidTypes
  <2>2. /\ world' \in Worlds /\ disk' \in [Files -> Content \cup {None}]
        /\ node' \in [Files -> Node]
        /\ chunks' \in [Files -> SUBSET Content] /\ loose' \in [Files -> SUBSET Content]
        /\ rooted' \in BOOLEAN
    <3>1. run.read[f] \in Content
      BY <1>20 DEF StoreChunk, LoopsAreSound, TypeOK, Locals
    <3>2. chunks' \in [Files -> SUBSET Content] /\ loose' \in [Files -> SUBSET Content]
      BY <1>20, <3>1 DEF StoreChunk, TypeOK
    <3>3. QED
      BY <1>20, <3>2 DEF StoreChunk, TypeOK
  <2>3. pc' \in Steps /\ todo' \subseteq Files
    BY <1>20 DEF StoreChunk, Next1, TypeOK
  <2>4. edits' \in 0..world.edits /\ faults' \in 0..world.mishaps /\ world' = world
    BY <1>20 DEF StoreChunk, TypeOK, bounds
  <2>5. QED
    BY <2>1, <2>2, <2>3, <2>4 DEF TypeOK
<1>21. ASSUME NEW f \in Files, StoreChunkFails(f)
      PROVE  TypeOK'
  <2>1. run' \in Locals
    BY <1>21, PaidTypes DEF StoreChunkFails
  <2>2. /\ world' \in Worlds /\ disk' \in [Files -> Content \cup {None}]
        /\ node' \in [Files -> Node]
        /\ chunks' \in [Files -> SUBSET Content] /\ loose' \in [Files -> SUBSET Content]
        /\ rooted' \in BOOLEAN
    BY <1>21 DEF StoreChunkFails, TypeOK, store
  <2>3. pc' \in Steps /\ todo' \subseteq Files
    BY <1>21 DEF StoreChunkFails, Next1, TypeOK
  <2>4. edits' \in 0..world.edits /\ faults' \in 0..world.mishaps /\ world' = world
    BY <1>21, WorldTypes DEF StoreChunkFails, Fault, May, TypeOK
  <2>5. QED
    BY <2>1, <2>2, <2>3, <2>4 DEF TypeOK
<1>22. CASE PruneStaleChunks
  <2>1. run' \in Locals
    BY <1>22 DEF PruneStaleChunks, TypeOK
  <2>2. /\ world' \in Worlds /\ disk' \in [Files -> Content \cup {None}]
        /\ node' \in [Files -> Node]
        /\ chunks' \in [Files -> SUBSET Content] /\ loose' \in [Files -> SUBSET Content]
        /\ rooted' \in BOOLEAN
    <3>1. \A f \in Files : chunks[f] \in SUBSET Content /\ loose[f] \in SUBSET Content
      BY DEF TypeOK
    <3>2. chunks' \in [Files -> SUBSET Content] /\ loose' \in [Files -> SUBSET Content]
      <4>1. CASE AllStored
        BY <1>22, <3>1, <4>1 DEF PruneStaleChunks
      <4>2. CASE ~AllStored
        BY <1>22, <4>2 DEF PruneStaleChunks, TypeOK
      <4>3. QED
        BY <4>1, <4>2
    <3>3. QED
      BY <1>22, <3>2 DEF PruneStaleChunks, TypeOK
  <2>3. pc' \in Steps /\ todo' \subseteq Files
    BY <1>22 DEF PruneStaleChunks, Goto, GotoEmbed, Steps
  <2>4. edits' \in 0..world.edits /\ faults' \in 0..world.mishaps /\ world' = world
    BY <1>22 DEF PruneStaleChunks, TypeOK, bounds
  <2>5. QED
    BY <2>1, <2>2, <2>3, <2>4 DEF TypeOK
<1>23. CASE MarkChunksCovered
  <2>1. run' \in Locals
    BY <1>23 DEF MarkChunksCovered, TypeOK
  <2>2. /\ world' \in Worlds /\ disk' \in [Files -> Content \cup {None}]
        /\ node' \in [Files -> Node]
        /\ chunks' \in [Files -> SUBSET Content] /\ loose' \in [Files -> SUBSET Content]
        /\ rooted' \in BOOLEAN
    <3>1. \A f \in Files : node[f].ck \in Content \cup {None} /\ node[f] \in Node
      BY HashTypes
    <3>2. node' \in [Files -> Node]
      BY <1>23, <3>1, RowTypes DEF MarkChunksCovered
    <3>3. QED
      BY <1>23, <3>2 DEF MarkChunksCovered, TypeOK
  <2>3. pc' \in Steps /\ todo' \subseteq Files
    BY <1>23 DEF MarkChunksCovered, Goto, GotoEmbed, Steps
  <2>4. edits' \in 0..world.edits /\ faults' \in 0..world.mishaps /\ world' = world
    BY <1>23 DEF MarkChunksCovered, TypeOK, bounds
  <2>5. QED
    BY <2>1, <2>2, <2>3, <2>4 DEF TypeOK
<1>24. ASSUME NEW f \in Files, EmbedSummary(f)
      PROVE  TypeOK'
  <2>1. run' \in Locals
    <3>1. run' = run \/ run' = [run EXCEPT !.paid = @ \cup {f}]
      BY <1>24 DEF EmbedSummary
    <3>2. QED
      BY <3>1, PaidTypes
  <2>2. /\ world' \in Worlds /\ disk' \in [Files -> Content \cup {None}]
        /\ node' \in [Files -> Node]
        /\ chunks' \in [Files -> SUBSET Content] /\ loose' \in [Files -> SUBSET Content]
        /\ rooted' \in BOOLEAN
    <3>1. Draft(f).sum \in Text /\ Draft(f).hash \in Hash /\ node[f] \in Node
      BY HashTypes DEF Draft
    <3>2. node' = node \/ node' = [node EXCEPT ![f] = [node[f] EXCEPT !.vec = Draft(f).sum, !.vecHash = Draft(f).hash]]
      BY <1>24 DEF EmbedSummary, TypeOK
    <3>5. [node[f] EXCEPT !.vec = Draft(f).sum, !.vecHash = Draft(f).hash] \in Node
      BY <3>1, RowTypes
    <3>3. node' \in [Files -> Node]
      BY <3>2, <3>5 DEF TypeOK
    <3>4. QED
      BY <1>24, <3>3 DEF EmbedSummary, TypeOK
  <2>3. pc' \in Steps /\ todo' \subseteq Files
    BY <1>24 DEF EmbedSummary, Next1, TypeOK
  <2>4. edits' \in 0..world.edits /\ faults' \in 0..world.mishaps /\ world' = world
    BY <1>24 DEF EmbedSummary, TypeOK, bounds
  <2>5. QED
    BY <2>1, <2>2, <2>3, <2>4 DEF TypeOK
<1>25. ASSUME NEW f \in Files, EmbedSummaryFails(f)
      PROVE  TypeOK'
  <2>1. run' \in Locals
    BY <1>25, PaidTypes DEF EmbedSummaryFails
  <2>2. /\ world' \in Worlds /\ disk' \in [Files -> Content \cup {None}]
        /\ node' \in [Files -> Node]
        /\ chunks' \in [Files -> SUBSET Content] /\ loose' \in [Files -> SUBSET Content]
        /\ rooted' \in BOOLEAN
    BY <1>25 DEF EmbedSummaryFails, TypeOK, store
  <2>3. pc' \in Steps /\ todo' \subseteq Files
    BY <1>25 DEF EmbedSummaryFails, Next1, TypeOK
  <2>4. edits' \in 0..world.edits /\ faults' \in 0..world.mishaps /\ world' = world
    BY <1>25, WorldTypes DEF EmbedSummaryFails, Fault, May, TypeOK
  <2>5. QED
    BY <2>1, <2>2, <2>3, <2>4 DEF TypeOK
<1>26. CASE Finish
  <2>1. run' \in Locals
    BY <1>26, NoRunTypes DEF Finish, Return
  <2>2. /\ world' \in Worlds /\ disk' \in [Files -> Content \cup {None}]
        /\ node' \in [Files -> Node]
        /\ chunks' \in [Files -> SUBSET Content] /\ loose' \in [Files -> SUBSET Content]
        /\ rooted' \in BOOLEAN
    BY <1>26 DEF Finish, TypeOK, store
  <2>3. pc' \in Steps /\ todo' \subseteq Files
    BY <1>26 DEF Finish, Goto, Return, Steps
  <2>4. edits' \in 0..world.edits /\ faults' \in 0..world.mishaps /\ world' = world
    BY <1>26 DEF Finish, TypeOK, bounds
  <2>5. QED
    BY <2>1, <2>2, <2>3, <2>4 DEF TypeOK
<1>27. CASE AskForMissing
  <2>1. run' \in Locals
    BY <1>27, NoRunTypes DEF AskForMissing, Goto, Stored, Present, TypeOK, Content, Hash,
       Text, Node, NoNode, Locals, NoRun, Nothing, NoDraft, Empty, LoopsAreSound
  <2>2. /\ world' \in Worlds /\ disk' \in [Files -> Content \cup {None}]
        /\ node' \in [Files -> Node]
        /\ chunks' \in [Files -> SUBSET Content] /\ loose' \in [Files -> SUBSET Content]
        /\ rooted' \in BOOLEAN
    BY <1>27 DEF AskForMissing, TypeOK, store
  <2>3. pc' \in Steps /\ todo' \subseteq Files
    BY <1>27 DEF AskForMissing, Goto, Stored, Steps
  <2>4. edits' \in 0..world.edits /\ faults' \in 0..world.mishaps /\ world' = world
    BY <1>27 DEF AskForMissing, TypeOK, bounds
  <2>5. QED
    BY <2>1, <2>2, <2>3, <2>4 DEF TypeOK
<1>28. ASSUME NEW f \in Files, Answer(f)
      PROVE  TypeOK'
  <2>1. run' \in Locals
    <3> DEFINE s == IF run.read[f] # None THEN run.read[f] ELSE Fallback(f)
    <3>1. s \in Text /\ InputHash(disk[f]) \in Hash
      BY HashTypes DEF TypeOK, Locals, Text
    <3>2. run' = [run EXCEPT !.draft = [run.draft EXCEPT ![f] = [sum |-> s, hash |-> InputHash(disk[f])]]]
      BY <1>28 DEF Answer
    <3>3. [run.draft EXCEPT ![f] = [sum |-> s, hash |-> InputHash(disk[f])]] \in [Files -> [sum : Text, hash : Hash]]
      BY <3>1 DEF TypeOK, Locals
    <3>4. QED
      BY <3>2, <3>3 DEF TypeOK, Locals
  <2>2. /\ world' \in Worlds /\ disk' \in [Files -> Content \cup {None}]
        /\ node' \in [Files -> Node]
        /\ chunks' \in [Files -> SUBSET Content] /\ loose' \in [Files -> SUBSET Content]
        /\ rooted' \in BOOLEAN
    BY <1>28 DEF Answer, TypeOK, store
  <2>3. pc' \in Steps /\ todo' \subseteq Files
    BY <1>28 DEF Answer, Next1, TypeOK
  <2>4. edits' \in 0..world.edits /\ faults' \in 0..world.mishaps /\ world' = world
    BY <1>28 DEF Answer, TypeOK, bounds
  <2>5. QED
    BY <2>1, <2>2, <2>3, <2>4 DEF TypeOK
<1>29. ASSUME NEW f \in Files, AnswerFails(f)
      PROVE  TypeOK'
  <2>1. run' \in Locals
    BY <1>29, NoRunTypes DEF AnswerFails, Next1, Fallback, Fault, May, TypeOK, Content,
       Hash, Text, Node, NoNode, Locals, NoRun, Nothing, NoDraft, Empty, LoopsAreSound
  <2>2. /\ world' \in Worlds /\ disk' \in [Files -> Content \cup {None}]
        /\ node' \in [Files -> Node]
        /\ chunks' \in [Files -> SUBSET Content] /\ loose' \in [Files -> SUBSET Content]
        /\ rooted' \in BOOLEAN
    BY <1>29 DEF AnswerFails, TypeOK, store
  <2>3. pc' \in Steps /\ todo' \subseteq Files
    BY <1>29 DEF AnswerFails, Next1, TypeOK
  <2>4. edits' \in 0..world.edits /\ faults' \in 0..world.mishaps /\ world' = world
    BY <1>29, WorldTypes DEF AnswerFails, Fault, May, TypeOK
  <2>5. QED
    BY <2>1, <2>2, <2>3, <2>4 DEF TypeOK
<1>30. CASE StoreRepaired
  <2>1. run' \in Locals
    BY <1>30, NoRunTypes DEF StoreRepaired, Goto, TypeOK, Content, Hash, Text, Node, NoNode,
       Locals, NoRun, Nothing, NoDraft, Empty, LoopsAreSound
  <2>2. /\ world' \in Worlds /\ disk' \in [Files -> Content \cup {None}]
        /\ node' \in [Files -> Node]
        /\ chunks' \in [Files -> SUBSET Content] /\ loose' \in [Files -> SUBSET Content]
        /\ rooted' \in BOOLEAN
    <3>1. \A f \in Files : run.draft[f].sum \in Text /\ run.draft[f].hash \in Hash /\ node[f] \in Node
      BY HashTypes
    <3>2. node' \in [Files -> Node]
      BY <1>30, <3>1, RowTypes DEF StoreRepaired
    <3>3. QED
      BY <1>30, <3>2 DEF StoreRepaired, TypeOK
  <2>3. pc' \in Steps /\ todo' \subseteq Files
    BY <1>30 DEF StoreRepaired, Goto, TypeOK, Steps, Locals
  <2>4. edits' \in 0..world.edits /\ faults' \in 0..world.mishaps /\ world' = world
    BY <1>30, WorldTypes DEF StoreRepaired, Goto, TypeOK, bounds
  <2>5. QED
    BY <2>1, <2>2, <2>3, <2>4 DEF TypeOK
<1>31. CASE RepairChunks
  <2>1. run' \in Locals
    BY <1>31, NoRunTypes DEF RepairChunks, Goto, Stored, TypeOK, Content, Hash, Text, Node,
       NoNode, Locals, NoRun, Nothing, NoDraft, Empty, LoopsAreSound
  <2>2. /\ world' \in Worlds /\ disk' \in [Files -> Content \cup {None}]
        /\ node' \in [Files -> Node]
        /\ chunks' \in [Files -> SUBSET Content] /\ loose' \in [Files -> SUBSET Content]
        /\ rooted' \in BOOLEAN
    BY <1>31 DEF RepairChunks, TypeOK, store
  <2>3. pc' \in Steps /\ todo' \subseteq Files
    BY <1>31 DEF RepairChunks, Goto, Steps
  <2>4. edits' \in 0..world.edits /\ faults' \in 0..world.mishaps /\ world' = world
    BY <1>31 DEF RepairChunks, TypeOK, bounds
  <2>5. QED
    BY <2>1, <2>2, <2>3, <2>4 DEF TypeOK
<1>32. CASE Crash
  <2>1. run' \in Locals
    BY <1>32, NoRunTypes DEF Crash, Return
  <2>2. /\ world' \in Worlds /\ disk' \in [Files -> Content \cup {None}]
        /\ node' \in [Files -> Node]
        /\ chunks' \in [Files -> SUBSET Content] /\ loose' \in [Files -> SUBSET Content]
        /\ rooted' \in BOOLEAN
    BY <1>32 DEF Crash, TypeOK, store
  <2>3. pc' \in Steps /\ todo' \subseteq Files
    BY <1>32 DEF Crash, Goto, Return, Steps
  <2>4. edits' \in 0..world.edits /\ faults' \in 0..world.mishaps /\ world' = world
    BY <1>32, WorldTypes DEF Crash, Fault, May, TypeOK
  <2>5. QED
    BY <2>1, <2>2, <2>3, <2>4 DEF TypeOK
<1>33. CASE UNCHANGED vars
  BY <1>33 DEF vars, store, bounds, TypeOK
<1>34. QED
  BY <1>1, <1>2, <1>3, <1>4, <1>5, <1>6, <1>7, <1>8, <1>9, <1>10, <1>11, <1>12, <1>13,
     <1>14, <1>15, <1>16, <1>17, <1>18, <1>19, <1>20, <1>21, <1>22, <1>23, <1>24, <1>25,
     <1>26, <1>27, <1>28, <1>29, <1>30, <1>31, <1>32, <1>33 DEF Next, RunStep, FileStep

-----------------------------------------------------------------------------
(* Every run. *)

\* A run drops its locals when it returns, fails or dies.
LEMMA IdleKept ==
  ASSUME RunInv, [Next]_vars
  PROVE  IdleIsEmpty'
<1>1. ASSUME NEW f \in Files, Edit(f)
      PROVE  IdleIsEmpty'
  BY <1>1 DEF Edit, IdleIsEmpty, RunInv
<1>2. CASE StartIndex
  BY <1>2 DEF StartIndex, Begin, Goto, IdleIsEmpty
<1>3. CASE StartForce
  BY <1>3 DEF StartForce, Begin, Goto, IdleIsEmpty
<1>4. CASE StartFlush
  BY <1>4 DEF StartFlush, Begin, Goto, IdleIsEmpty
<1>5. CASE CheckPending
  BY <1>5 DEF CheckPending, Goto, Return, IdleIsEmpty
<1>6. CASE Preflight
  BY <1>6 DEF Preflight, Goto, IdleIsEmpty
<1>7. CASE PreflightFails
  BY <1>7 DEF PreflightFails, Goto, Return, IdleIsEmpty
<1>8. CASE Diff
  BY <1>8 DEF Diff, Goto, Return, IdleIsEmpty
<1>9. CASE Snapshot
  BY <1>9 DEF Snapshot, Goto, IdleIsEmpty
<1>10. CASE Parse
  BY <1>10 DEF Parse, Goto, IdleIsEmpty
<1>11. CASE GateRefuses
  BY <1>11 DEF GateRefuses, Goto, Return, IdleIsEmpty
<1>12. CASE PlanReconcile
  BY <1>12 DEF PlanReconcile, Goto, IdleIsEmpty
<1>13. ASSUME NEW f \in Files, Upsert(f)
      PROVE  IdleIsEmpty'
  BY <1>13 DEF Upsert, Next1, IdleIsEmpty
<1>14. CASE DeleteStale
  BY <1>14 DEF DeleteStale, Goto, IdleIsEmpty
<1>15. CASE HashInputs
  BY <1>15 DEF HashInputs, Goto, IdleIsEmpty
<1>16. ASSUME NEW f \in Files, Summarize(f)
      PROVE  IdleIsEmpty'
  BY <1>16 DEF Summarize, Settle, Next1, IdleIsEmpty
<1>17. ASSUME NEW f \in Files, SummarizeFails(f)
      PROVE  IdleIsEmpty'
  BY <1>17 DEF SummarizeFails, Settle, Next1, IdleIsEmpty
<1>18. CASE UpdateChecksums
  BY <1>18 DEF UpdateChecksums, Goto, Return, IdleIsEmpty
<1>19. CASE ReadChunks
  BY <1>19 DEF ReadChunks, Goto, IdleIsEmpty
<1>20. ASSUME NEW f \in Files, StoreChunk(f)
      PROVE  IdleIsEmpty'
  BY <1>20 DEF StoreChunk, Next1, IdleIsEmpty
<1>21. ASSUME NEW f \in Files, StoreChunkFails(f)
      PROVE  IdleIsEmpty'
  BY <1>21 DEF StoreChunkFails, Next1, IdleIsEmpty
<1>22. CASE PruneStaleChunks
  BY <1>22 DEF PruneStaleChunks, Goto, GotoEmbed, IdleIsEmpty
<1>23. CASE MarkChunksCovered
  BY <1>23 DEF MarkChunksCovered, Goto, GotoEmbed, IdleIsEmpty
<1>24. ASSUME NEW f \in Files, EmbedSummary(f)
      PROVE  IdleIsEmpty'
  BY <1>24 DEF EmbedSummary, Next1, IdleIsEmpty
<1>25. ASSUME NEW f \in Files, EmbedSummaryFails(f)
      PROVE  IdleIsEmpty'
  BY <1>25 DEF EmbedSummaryFails, Next1, IdleIsEmpty
<1>26. CASE Finish
  BY <1>26 DEF Finish, Goto, Return, IdleIsEmpty
<1>27. CASE AskForMissing
  BY <1>27 DEF AskForMissing, Goto, IdleIsEmpty
<1>28. ASSUME NEW f \in Files, Answer(f)
      PROVE  IdleIsEmpty'
  BY <1>28 DEF Answer, Next1, IdleIsEmpty
<1>29. ASSUME NEW f \in Files, AnswerFails(f)
      PROVE  IdleIsEmpty'
  BY <1>29 DEF AnswerFails, Next1, IdleIsEmpty
<1>30. CASE StoreRepaired
  BY <1>30 DEF StoreRepaired, Goto, IdleIsEmpty, RunInv, store, bounds
<1>31. CASE RepairChunks
  BY <1>31 DEF RepairChunks, Goto, IdleIsEmpty
<1>32. CASE Crash
  BY <1>32 DEF Crash, Goto, Return, IdleIsEmpty
<1>33. CASE UNCHANGED vars
  BY <1>33 DEF vars, IdleIsEmpty, RunInv
<1>34. QED
  BY <1>1, <1>2, <1>3, <1>4, <1>5, <1>6, <1>7, <1>8, <1>9, <1>10, <1>11, <1>12, <1>13,
     <1>14, <1>15, <1>16, <1>17, <1>18, <1>19, <1>20, <1>21, <1>22, <1>23, <1>24, <1>25,
     <1>26, <1>27, <1>28, <1>29, <1>30, <1>31, <1>32, <1>33 DEF Next, RunStep, FileStep

\* Every loop is entered with its own files and only loses them.
LEMMA LoopsKept ==
  ASSUME RunInv, [Next]_vars
  PROVE  LoopsAreSound'
<1>1. ASSUME NEW f \in Files, Edit(f)
      PROVE  LoopsAreSound'
  BY <1>1 DEF Edit, LoopsAreSound, Draft, Produced, RunInv, store
<1>2. CASE StartIndex
  BY <1>2 DEF StartIndex, Begin, Goto, LoopsAreSound, NoRun
<1>3. CASE StartForce
  BY <1>3 DEF StartForce, Begin, Goto, LoopsAreSound, NoRun
<1>4. CASE StartFlush
  BY <1>4 DEF StartFlush, Begin, Goto, LoopsAreSound, NoRun
<1>5. CASE CheckPending
  BY <1>5 DEF CheckPending, Goto, Return, LoopsAreSound, RunInv
<1>6. CASE Preflight
  BY <1>6 DEF Preflight, Goto, LoopsAreSound, RunInv
<1>7. CASE PreflightFails
  BY <1>7 DEF PreflightFails, Goto, Return, LoopsAreSound
<1>8. CASE Diff
  BY <1>8 DEF Diff, Goto, Return, LoopsAreSound, RunInv, TypeOK, Locals
<1>9. CASE Snapshot
  BY <1>9 DEF Snapshot, Goto, LoopsAreSound, RunInv
<1>10. CASE Parse
  BY <1>10 DEF Parse, Goto, LoopsAreSound, RunInv
<1>11. CASE GateRefuses
  BY <1>11 DEF GateRefuses, Goto, Return, LoopsAreSound
<1>12. CASE PlanReconcile
  BY <1>12 DEF PlanReconcile, Goto, Produced, LoopsAreSound, Produced, RunInv
<1>13. ASSUME NEW f \in Files, Upsert(f)
      PROVE  LoopsAreSound'
  BY <1>13 DEF Upsert, Next1, LoopsAreSound, Produced, RunInv
<1>14. CASE DeleteStale
  BY <1>14 DEF DeleteStale, Goto, LoopsAreSound, RunInv
<1>15. CASE HashInputs
  BY <1>15 DEF HashInputs, Goto, Produced, LoopsAreSound, Produced, RunInv
<1>16. ASSUME NEW f \in Files, Summarize(f)
      PROVE  LoopsAreSound'
  BY <1>16 DEF Summarize, Settle, Next1, LoopsAreSound, Produced, RunInv
<1>17. ASSUME NEW f \in Files, SummarizeFails(f)
      PROVE  LoopsAreSound'
  <2>1. /\ pc = "summarize" /\ pc' = pc /\ todo' \subseteq todo
        /\ run'.parsed = run.parsed /\ run'.repairing = run.repairing
    BY <1>17 DEF SummarizeFails, Settle, Next1, RunInv, TypeOK, Locals
  <2>2. QED
    BY <2>1 DEF LoopsAreSound, Produced, RunInv
<1>18. CASE UpdateChecksums
  BY <1>18 DEF UpdateChecksums, Goto, Return, LoopsAreSound
<1>19. CASE ReadChunks
  BY <1>19 DEF ReadChunks, Goto, Present, LoopsAreSound
<1>20. ASSUME NEW f \in Files, StoreChunk(f)
      PROVE  LoopsAreSound'
  <2>1. /\ pc = "store" /\ pc' = pc /\ todo' \subseteq todo /\ run'.run_files = run.run_files
        /\ run'.read = run.read
    BY <1>20 DEF StoreChunk, Next1, RunInv, TypeOK, Locals
  <2>2. QED
    BY <2>1 DEF LoopsAreSound, RunInv
<1>21. ASSUME NEW f \in Files, StoreChunkFails(f)
      PROVE  LoopsAreSound'
  BY <1>21 DEF StoreChunkFails, Next1, LoopsAreSound, RunInv
<1>22. CASE PruneStaleChunks
  <2>1. run' = run /\ (pc' = "embed" => todo' = IF run.repairing THEN {f \in Files : StaleVector(f)}
                                                ELSE {f \in Files : run.draft[f].sum # None})
    BY <1>22 DEF PruneStaleChunks, GotoEmbed, Goto
  <2>2. pc' \in {"mark", "embed"} /\ \A f \in Files : node'[f].sum = node[f].sum
    BY <1>22 DEF PruneStaleChunks, GotoEmbed, Goto
  <2>3. ASSUME NEW f \in todo', pc' = "embed"
        PROVE  Draft(f)'.sum # None
    BY <2>1, <2>2, <2>3 DEF Draft, StaleVector
  <2>4. QED
    BY <1>22, <2>1, <2>2, <2>3 DEF PruneStaleChunks, LoopsAreSound, RunInv
<1>23. CASE MarkChunksCovered
  <2>1. run' = run /\ (pc' = "embed" => todo' = IF run.repairing THEN {f \in Files : StaleVector(f)}
                                                ELSE {f \in Files : run.draft[f].sum # None})
    BY <1>23 DEF MarkChunksCovered, GotoEmbed, Goto
  <2>2. pc' \in {"mark", "embed"} /\ \A f \in Files : node'[f].sum = node[f].sum
    BY <1>23 DEF MarkChunksCovered, GotoEmbed, Goto
  <2>3. ASSUME NEW f \in todo', pc' = "embed"
        PROVE  Draft(f)'.sum # None
    BY <2>1, <2>2, <2>3 DEF Draft, StaleVector
  <2>4. QED
    BY <1>23, <2>1, <2>2, <2>3 DEF MarkChunksCovered, LoopsAreSound, RunInv
<1>24. ASSUME NEW f \in Files, EmbedSummary(f)
      PROVE  LoopsAreSound'
  BY <1>24 DEF EmbedSummary, Next1, Draft, LoopsAreSound, Draft, Produced, RunInv, TypeOK,
     Locals, store, bounds
<1>25. ASSUME NEW f \in Files, EmbedSummaryFails(f)
      PROVE  LoopsAreSound'
  BY <1>25 DEF EmbedSummaryFails, Next1, LoopsAreSound, Draft, RunInv, store
<1>26. CASE Finish
  BY <1>26 DEF Finish, Goto, Return, LoopsAreSound
<1>27. CASE AskForMissing
  BY <1>27 DEF AskForMissing, Goto, LoopsAreSound
<1>28. ASSUME NEW f \in Files, Answer(f)
      PROVE  LoopsAreSound'
  BY <1>28 DEF Answer, Next1, LoopsAreSound, RunInv
<1>29. ASSUME NEW f \in Files, AnswerFails(f)
      PROVE  LoopsAreSound'
  BY <1>29 DEF AnswerFails, Next1, LoopsAreSound, RunInv
<1>30. CASE StoreRepaired
  BY <1>30 DEF StoreRepaired, Goto, LoopsAreSound, Draft, Produced, RunInv, TypeOK, Locals,
     store, bounds
<1>31. CASE RepairChunks
  BY <1>31 DEF RepairChunks, Goto, LoopsAreSound
<1>32. CASE Crash
  BY <1>32 DEF Crash, Goto, Return, LoopsAreSound
<1>33. CASE UNCHANGED vars
  BY <1>33 DEF vars, store, LoopsAreSound, Draft, Produced, RunInv
<1>34. QED
  BY <1>1, <1>2, <1>3, <1>4, <1>5, <1>6, <1>7, <1>8, <1>9, <1>10, <1>11, <1>12, <1>13,
     <1>14, <1>15, <1>16, <1>17, <1>18, <1>19, <1>20, <1>21, <1>22, <1>23, <1>24, <1>25,
     <1>26, <1>27, <1>28, <1>29, <1>30, <1>31, <1>32, <1>33 DEF Next, RunStep, FileStep

\* Every file that goes is noted, and only files that are gone are deleted.
LEMMA GoneKept ==
  ASSUME RunInv, [Next]_vars
  PROVE  GoneIsNoted'
<1>1. ASSUME NEW f \in Files, Edit(f)
      PROVE  GoneIsNoted'
  BY <1>1 DEF Edit, GoneIsNoted, Present, RunInv
<1>2. CASE StartIndex
  BY <1>2 DEF StartIndex, Begin, GoneIsNoted, Present, NoRun
<1>3. CASE StartForce
  BY <1>3 DEF StartForce, Begin, GoneIsNoted, Present, NoRun
<1>4. CASE StartFlush
  BY <1>4 DEF StartFlush, Begin, GoneIsNoted, Present, NoRun
<1>5. CASE CheckPending
  BY <1>5 DEF CheckPending, Goto, Return, GoneIsNoted, Present, RunInv
<1>6. CASE Preflight
  BY <1>6 DEF Preflight, GoneIsNoted, Present, RunInv
<1>7. CASE PreflightFails
  BY <1>7 DEF PreflightFails, Goto, Return, GoneIsNoted
<1>8. CASE Diff
  BY <1>8 DEF Diff, Goto, Return, GoneIsNoted, Present, RunInv, TypeOK, Locals, store,
     bounds
<1>9. CASE Snapshot
  BY <1>9 DEF Snapshot, GoneIsNoted, Present, RunInv
<1>10. CASE Parse
  BY <1>10 DEF Parse, GoneIsNoted, Present, RunInv
<1>11. CASE GateRefuses
  BY <1>11 DEF GateRefuses, Goto, Return, GoneIsNoted
<1>12. CASE PlanReconcile
  BY <1>12 DEF PlanReconcile, ConfirmedDeleted, Stored, GoneIsNoted, Present, RunInv
<1>13. ASSUME NEW f \in Files, Upsert(f)
      PROVE  GoneIsNoted'
  BY <1>13 DEF Upsert, GoneIsNoted, Present, RunInv
<1>14. CASE DeleteStale
  BY <1>14 DEF DeleteStale, GoneIsNoted, Present, RunInv
<1>15. CASE HashInputs
  BY <1>15 DEF HashInputs, GoneIsNoted, Present, RunInv
<1>16. ASSUME NEW f \in Files, Summarize(f)
      PROVE  GoneIsNoted'
  BY <1>16 DEF Summarize, Settle, GoneIsNoted, Present, RunInv
<1>17. ASSUME NEW f \in Files, SummarizeFails(f)
      PROVE  GoneIsNoted'
  BY <1>17 DEF SummarizeFails, Settle, Source, Fallback, RetryHash, Next1, Fault, May,
     GoneIsNoted, Present, RunInv, TypeOK, Locals, store, bounds
<1>18. CASE UpdateChecksums
  BY <1>18 DEF UpdateChecksums, Goto, Return, Checksum, Stored, Produced, GoneIsNoted,
     Present, RunInv, TypeOK, Locals, store, bounds
<1>19. CASE ReadChunks
  BY <1>19 DEF ReadChunks, Present, GoneIsNoted, Present, RunInv
<1>20. ASSUME NEW f \in Files, StoreChunk(f)
      PROVE  GoneIsNoted'
  BY <1>20 DEF StoreChunk, Next1, GoneIsNoted, Present, RunInv, TypeOK, Locals, store,
     bounds
<1>21. ASSUME NEW f \in Files, StoreChunkFails(f)
      PROVE  GoneIsNoted'
  BY <1>21 DEF StoreChunkFails, GoneIsNoted, Present, RunInv
<1>22. CASE PruneStaleChunks
  BY <1>22 DEF PruneStaleChunks, GoneIsNoted, Present, RunInv
<1>23. CASE MarkChunksCovered
  BY <1>23 DEF MarkChunksCovered, GoneIsNoted, Present, RunInv
<1>24. ASSUME NEW f \in Files, EmbedSummary(f)
      PROVE  GoneIsNoted'
  BY <1>24 DEF EmbedSummary, Next1, Draft, GoneIsNoted, Present, RunInv, TypeOK, Locals,
     store, bounds
<1>25. ASSUME NEW f \in Files, EmbedSummaryFails(f)
      PROVE  GoneIsNoted'
  BY <1>25 DEF EmbedSummaryFails, GoneIsNoted, Present, RunInv
<1>26. CASE Finish
  BY <1>26 DEF Finish, Goto, Return, GoneIsNoted
<1>27. CASE AskForMissing
  BY <1>27 DEF AskForMissing, Present, GoneIsNoted, Present, RunInv
<1>28. ASSUME NEW f \in Files, Answer(f)
      PROVE  GoneIsNoted'
  BY <1>28 DEF Answer, GoneIsNoted, Present, RunInv
<1>29. ASSUME NEW f \in Files, AnswerFails(f)
      PROVE  GoneIsNoted'
  BY <1>29 DEF AnswerFails, GoneIsNoted, Present, RunInv
<1>30. CASE StoreRepaired
  BY <1>30 DEF StoreRepaired, Goto, GoneIsNoted, Present, RunInv, TypeOK, Locals, store,
     bounds
<1>31. CASE RepairChunks
  BY <1>31 DEF RepairChunks, GoneIsNoted, Present, RunInv
<1>32. CASE Crash
  BY <1>32 DEF Crash, Goto, Return, GoneIsNoted
<1>33. CASE UNCHANGED vars
  BY <1>33 DEF vars, GoneIsNoted, Present, RunInv
<1>34. QED
  BY <1>1, <1>2, <1>3, <1>4, <1>5, <1>6, <1>7, <1>8, <1>9, <1>10, <1>11, <1>12, <1>13,
     <1>14, <1>15, <1>16, <1>17, <1>18, <1>19, <1>20, <1>21, <1>22, <1>23, <1>24, <1>25,
     <1>26, <1>27, <1>28, <1>29, <1>30, <1>31, <1>32, <1>33 DEF Next, RunStep, FileStep

\* A file that leaves the run leaves the prune as well, or it is gone.
LEMMA PruneKept ==
  ASSUME RunInv, [Next]_vars
  PROVE  PruneIsCovered'
<1>1. ASSUME NEW f \in Files, Edit(f)
      PROVE  PruneIsCovered'
  BY <1>1 DEF Edit, PruneIsCovered, Produced, RunInv, store
<1>2. CASE StartIndex
  BY <1>2 DEF StartIndex, Begin, Goto, PruneIsCovered
<1>3. CASE StartForce
  BY <1>3 DEF StartForce, Begin, Goto, PruneIsCovered
<1>4. CASE StartFlush
  BY <1>4 DEF StartFlush, Begin, Goto, PruneIsCovered
<1>5. CASE CheckPending
  BY <1>5 DEF CheckPending, Goto, Return, PruneIsCovered
<1>6. CASE Preflight
  BY <1>6 DEF Preflight, Goto, PruneIsCovered
<1>7. CASE PreflightFails
  BY <1>7 DEF PreflightFails, Goto, Return, PruneIsCovered
<1>8. CASE Diff
  BY <1>8 DEF Diff, Goto, Return, PruneIsCovered
<1>9. CASE Snapshot
  BY <1>9 DEF Snapshot, Goto, PruneIsCovered
<1>10. CASE Parse
  BY <1>10 DEF Parse, Goto, PruneIsCovered
<1>11. CASE GateRefuses
  BY <1>11 DEF GateRefuses, Goto, Return, PruneIsCovered
<1>12. CASE PlanReconcile
  <2>1. /\ pc' = "upsert" /\ run'.reconcilable = Produced \cup ConfirmedDeleted
        /\ run'.gone = run.gone
        /\ run'.parsed = run.parsed
    BY <1>12 DEF PlanReconcile, Goto, Reconcilable
  <2>2. ConfirmedDeleted \subseteq run.gone
    BY <1>12 DEF PlanReconcile, ConfirmedDeleted, Stored, RunInv, GoneIsNoted, Present
  <2>3. QED
    BY <2>1, <2>2 DEF PruneIsCovered, Produced
<1>13. ASSUME NEW f \in Files, Upsert(f)
      PROVE  PruneIsCovered'
  BY <1>13 DEF Upsert, Next1, PruneIsCovered, Produced, RunInv
<1>14. CASE DeleteStale
  BY <1>14 DEF DeleteStale, Goto, PruneIsCovered, Produced, RunInv
<1>15. CASE HashInputs
  BY <1>15 DEF HashInputs, Goto, Produced, PruneIsCovered, Produced, RunInv
<1>16. ASSUME NEW f \in Files, Summarize(f)
      PROVE  PruneIsCovered'
  BY <1>16 DEF Summarize, Settle, Next1, PruneIsCovered, Produced, RunInv
<1>17. ASSUME NEW f \in Files, SummarizeFails(f)
      PROVE  PruneIsCovered'
  <2>1. /\ pc = "summarize" /\ pc' = pc /\ run'.parsed = run.parsed
        /\ run'.reconcilable = run.reconcilable /\ run'.gone = run.gone
    BY <1>17 DEF SummarizeFails, Settle, Next1, RunInv, TypeOK, Locals
  <2>2. QED
    BY <2>1 DEF PruneIsCovered, Produced, RunInv
<1>18. CASE UpdateChecksums
  BY <1>18 DEF UpdateChecksums, Goto, Return, Checksum, Stored, Produced, PruneIsCovered,
     Produced, RunInv, TypeOK, Locals, store, bounds
<1>19. CASE ReadChunks
  BY <1>19 DEF ReadChunks, Goto, PruneIsCovered, RunInv
<1>20. ASSUME NEW f \in Files, StoreChunk(f)
      PROVE  PruneIsCovered'
  <2>1. pc = "store" /\ pc' = pc /\ todo' = todo \ {f}
    BY <1>20 DEF StoreChunk, Next1
  <2>2. run'.run_files = run.run_files /\ run'.read = run.read /\ run'.failed = run.failed
        /\ run'.reconcilable = run.reconcilable /\ run'.gone = run.gone
    BY <1>20 DEF StoreChunk, RunInv, TypeOK, Locals
  <2>3. run.read[f] \in chunks'[f] /\ \A g \in Files : chunks[g] \subseteq chunks'[g]
    BY <1>20 DEF StoreChunk, SkipChunk, RunInv, TypeOK
  <2>4. run.run_files \subseteq Files
    BY DEF RunInv, TypeOK, Locals
  <2>5. QED
    BY <2>1, <2>2, <2>3, <2>4 DEF PruneIsCovered, RunInv
<1>21. ASSUME NEW f \in Files, StoreChunkFails(f)
      PROVE  PruneIsCovered'
  BY <1>21 DEF StoreChunkFails, Next1, PruneIsCovered, RunInv
<1>22. CASE PruneStaleChunks
  <2>1. /\ pc = "store" /\ todo = {} /\ run' = run
        /\ pc' \in {"mark", "embed"} /\ (pc' = "mark" => ~run.failed)
    BY <1>22 DEF PruneStaleChunks, Goto, GotoEmbed, AllStored
  <2>2. ASSUME ~run.failed, NEW f \in run.run_files PROVE run.read[f] \in chunks'[f]
    <3>1. f \in Files /\ run.read[f] \in chunks[f]
      BY <2>1, <2>2 DEF RunInv, PruneIsCovered, TypeOK, Locals
    <3>2. QED
      BY <1>22, <2>2, <3>1 DEF PruneStaleChunks
  <2>3. QED
    BY <2>1, <2>2 DEF PruneIsCovered
<1>23. CASE MarkChunksCovered
  BY <1>23 DEF MarkChunksCovered, Goto, GotoEmbed, PruneIsCovered
<1>24. ASSUME NEW f \in Files, EmbedSummary(f)
      PROVE  PruneIsCovered'
  BY <1>24 DEF EmbedSummary, Next1, PruneIsCovered
<1>25. ASSUME NEW f \in Files, EmbedSummaryFails(f)
      PROVE  PruneIsCovered'
  BY <1>25 DEF EmbedSummaryFails, Next1, PruneIsCovered
<1>26. CASE Finish
  BY <1>26 DEF Finish, Goto, Return, PruneIsCovered
<1>27. CASE AskForMissing
  BY <1>27 DEF AskForMissing, Goto, PruneIsCovered
<1>28. ASSUME NEW f \in Files, Answer(f)
      PROVE  PruneIsCovered'
  BY <1>28 DEF Answer, Next1, PruneIsCovered
<1>29. ASSUME NEW f \in Files, AnswerFails(f)
      PROVE  PruneIsCovered'
  BY <1>29 DEF AnswerFails, Next1, PruneIsCovered
<1>30. CASE StoreRepaired
  BY <1>30 DEF StoreRepaired, Goto, PruneIsCovered, Produced, RunInv, TypeOK, Locals, store,
     bounds
<1>31. CASE RepairChunks
  BY <1>31 DEF RepairChunks, Goto, PruneIsCovered
<1>32. CASE Crash
  BY <1>32 DEF Crash, Goto, Return, PruneIsCovered
<1>33. CASE UNCHANGED vars
  BY <1>33 DEF vars, store, PruneIsCovered, Produced, RunInv
<1>34. QED
  BY <1>1, <1>2, <1>3, <1>4, <1>5, <1>6, <1>7, <1>8, <1>9, <1>10, <1>11, <1>12, <1>13,
     <1>14, <1>15, <1>16, <1>17, <1>18, <1>19, <1>20, <1>21, <1>22, <1>23, <1>24, <1>25,
     <1>26, <1>27, <1>28, <1>29, <1>30, <1>31, <1>32, <1>33 DEF Next, RunStep, FileStep

\* A run is sound from the beginning, and every step keeps it so.
LEMMA RunInit == Init => RunInv
<1> SUFFICES ASSUME Init PROVE RunInv
  OBVIOUS
<1>1. TypeOK
  <2>1. disk \in [Files -> Content \cup {None}]
    BY IndexRunAssumption DEF Init, Content
  <2>2. node \in [Files -> Node] /\ run \in Locals
    BY NoRunTypes DEF Init, Node, NoNode, Text, Hash
  <2>3. world \in World
    BY IndexRunAssumption DEF Init
  <2>4. edits \in 0..world.edits /\ faults \in 0..world.mishaps
    BY <2>3 DEF Init, World
  <2>5. QED
    BY <2>1, <2>2, <2>4 DEF Init, TypeOK, Empty, Steps
<1>2. IdleIsEmpty /\ LoopsAreSound /\ GoneIsNoted /\ PruneIsCovered
  BY DEF Init, IdleIsEmpty, LoopsAreSound, GoneIsNoted, PruneIsCovered
<1>3. QED
  BY <1>1, <1>2 DEF RunInv

\* Every step of a run, of the tree or of a fault keeps the run sound.
LEMMA RunKept == RunInv /\ [Next]_vars => RunInv'
BY TypesKept, IdleKept, LoopsKept, GoneKept, PruneKept DEF RunInv

\* Every variable of an index keeps its type: no step writes a name that is
\* neither a content nor one of the three that stand for something empty.
THEOREM TypeCorrect == Spec => []TypeOK
<1>1. RunInv => TypeOK
  BY DEF RunInv
<1>2. QED
  BY RunInit, RunKept, <1>1, PTL DEF Spec

-----------------------------------------------------------------------------
(* What the writing steps leave in the row of a file.                        *)

\* UPSERT_NODES_BATCH_TEMPLATE writes the rows and keeps what was paid for.
LEMMA UpsertRow ==
  ASSUME TypeOK, NEW f \in Files, NEW g \in Files, Upsert(f)
  PROVE  /\ node'[g].ck = node[g].ck /\ node'[g].sum = node[g].sum
         /\ node'[g].hash = node[g].hash /\ node'[g].vec = node[g].vec
         /\ node'[g].vecHash = node[g].vecHash /\ node'[g].marker = node[g].marker
         /\ node'[g].rows = node[g].rows \/ (g = f /\ node'[g].rows = run.parsed[g])
         /\ f \in run.unchanged \cap Stored \/ node'[f].rows = run.parsed[f]
<1>1. node[f] \in Node /\ node \in [Files -> Node]
  BY DEF TypeOK
<1>2. CASE node' = [node EXCEPT ![f] = Row(f)]
  BY <1>1, <1>2 DEF Row
<1>3. CASE AlreadyStored(f) /\ node' = node
  BY <1>1, <1>3 DEF AlreadyStored
<1>4. QED
  BY <1>2, <1>3 DEF Upsert

\* A deleted node takes its row along and leaves its chunks loose.
LEMMA DeleteStaleRow ==
  ASSUME TypeOK, NEW g \in Files, DeleteStale
  PROVE  /\ g \in run.confirmed_deleted =>
              node'[g] = NoNode /\ chunks'[g] = {} /\ loose'[g] = loose[g] \cup chunks[g]
         /\ g \notin run.confirmed_deleted =>
              node'[g] = node[g] /\ chunks'[g] = chunks[g] /\ loose'[g] = loose[g]
BY DEF DeleteStale

\* A settled summary is written with its hash, unless it is empty.
LEMMA SettleRow ==
  ASSUME TypeOK, NEW f \in Files, NEW g \in Files, NEW s, NEW h, NEW d, Settle(f, s, h, d)
  PROVE  /\ node'[g].rows = node[g].rows /\ node'[g].ck = node[g].ck
         /\ node'[g].vec = node[g].vec /\ node'[g].vecHash = node[g].vecHash
         /\ node'[g].marker = node[g].marker
         /\ g # f \/ s = None => node'[g].sum = node[g].sum /\ node'[g].hash = node[g].hash
         /\ g = f /\ s # None => node'[g].sum = s /\ node'[g].hash = h
<1>1. node[f] \in Node /\ node \in [Files -> Node]
  BY DEF TypeOK
<1>3. CASE s = None
  BY <1>1, <1>3 DEF Settle
<1>4. CASE s # None
  <2>1. node' = [node EXCEPT ![f] = [node[f] EXCEPT !.sum = s, !.hash = h]]
    BY <1>1, <1>4 DEF Settle
  <2>2. QED
    BY <1>1, <1>4, <2>1 DEF Node
<1>5. QED
  BY <1>3, <1>4

\* The draft is that of the file that was settled.
LEMMA SettleDraft ==
  ASSUME TypeOK, NEW f \in Files, NEW g \in Files, NEW s, NEW h, NEW d, Settle(f, s, h, d)
  PROVE  /\ g # f => run'.draft[g] = run.draft[g]
         /\ g = f => run'.draft[g].sum = s /\ run'.draft[g].hash = h
<1>1. run.draft \in [Files -> [sum : Text, hash : Hash]]
  BY DEF TypeOK, Locals
<1>2. run'.draft = [run.draft EXCEPT ![f] = [sum |-> s, hash |-> h]]
  BY DEF Settle
<1>3. QED
  BY <1>1, <1>2

\* The rest of the run stays.
LEMMA SettleRun ==
  ASSUME TypeOK, NEW f \in Files, NEW s, NEW h, NEW d, Settle(f, s, h, d)
  PROVE  /\ run'.snapshot = run.snapshot /\ run'.parsed = run.parsed
         /\ run'.unchanged = run.unchanged /\ run'.read = run.read
         /\ run'.confirmed_deleted = run.confirmed_deleted /\ run'.gone = run.gone
         /\ run'.reconcilable = run.reconcilable /\ run'.run_files = run.run_files
         /\ run'.settled = run.settled /\ run'.repairing = run.repairing
         /\ run'.failed = run.failed
         /\ run'.dirty = run.dirty \cup d
         /\ run'.paid \subseteq run.paid \cup {f}
BY DEF Settle

\* A checksum is stamped on a row that was parsed again, if the file was scanned.
LEMMA UpdateChecksumsRow ==
  ASSUME TypeOK, NEW g \in Files, UpdateChecksums
  PROVE  /\ node'[g].rows = node[g].rows /\ node'[g].sum = node[g].sum
         /\ node'[g].hash = node[g].hash /\ node'[g].vec = node[g].vec
         /\ node'[g].vecHash = node[g].vecHash /\ node'[g].marker = node[g].marker
         /\ node'[g].ck = IF g \in Stored \ run.unchanged /\ run.snapshot[g] # None
                            THEN run.snapshot[g] ELSE node[g].ck
BY DEF UpdateChecksums, Checksum

\* A marker is the file's stored checksum.
LEMMA MarkChunksCoveredRow ==
  ASSUME TypeOK, NEW g \in Files, MarkChunksCovered
  PROVE  /\ node'[g].rows = node[g].rows /\ node'[g].ck = node[g].ck
         /\ node'[g].sum = node[g].sum /\ node'[g].hash = node[g].hash
         /\ node'[g].vec = node[g].vec /\ node'[g].vecHash = node[g].vecHash
         /\ node'[g].marker = IF g \in run.run_files \cap Stored /\ node[g].ck # None
                                THEN node[g].ck ELSE node[g].marker
BY DEF MarkChunksCovered

\* A vector is written with the hash of its draft.
LEMMA EmbedSummaryRow ==
  ASSUME TypeOK, NEW f \in Files, NEW g \in Files, EmbedSummary(f)
  PROVE  /\ node'[g].rows = node[g].rows /\ node'[g].ck = node[g].ck
         /\ node'[g].sum = node[g].sum /\ node'[g].hash = node[g].hash
         /\ node'[g].marker = node[g].marker
         /\ g # f \/ FreshVector(f) => node'[g].vec = node[g].vec /\ node'[g].vecHash = node[g].vecHash
         /\ g = f /\ ~FreshVector(f) => node'[g].vec = Draft(g).sum /\ node'[g].vecHash = Draft(g).hash
<1>1. node[f] \in Node /\ node \in [Files -> Node]
  BY DEF TypeOK
<1>2. CASE FreshVector(f)
  BY <1>2 DEF EmbedSummary
<1>3. CASE ~FreshVector(f)
  <2>1. node' = [node EXCEPT ![f] = [node[f] EXCEPT !.vec = Draft(f).sum, !.vecHash = Draft(f).hash]]
    BY <1>1, <1>3 DEF EmbedSummary
  <2>2. QED
    BY <1>1, <1>3, <2>1 DEF Node
<1>4. QED
  BY <1>2, <1>3

\* _store_repaired writes what was answered.
LEMMA StoreRepairedRow ==
  ASSUME TypeOK, NEW g \in Files, StoreRepaired
  PROVE  /\ node'[g].rows = node[g].rows /\ node'[g].ck = node[g].ck
         /\ node'[g].vec = node[g].vec /\ node'[g].vecHash = node[g].vecHash
         /\ node'[g].marker = node[g].marker
         /\ run.draft[g].sum = None => node'[g].sum = node[g].sum /\ node'[g].hash = node[g].hash
         /\ run.draft[g].sum # None => node'[g].sum = run.draft[g].sum /\ node'[g].hash = run.draft[g].hash
BY DEF StoreRepaired, TypeOK, Node

\* A chunk is added, or found where it hangs already.
LEMMA StoreChunkRow ==
  ASSUME TypeOK, NEW f \in Files, NEW g \in Files, StoreChunk(f)
  PROVE  /\ g # f => chunks'[g] = chunks[g] /\ loose'[g] = loose[g]
         /\ SkipChunk(f) => chunks' = chunks /\ loose' = loose /\ run' = run
         /\ g = f /\ ~SkipChunk(f) => /\ chunks'[g] = chunks[g] \cup {run.read[g]}
                                      /\ loose'[g] = loose[g] \ {run.read[g]}
BY DEF StoreChunk, TypeOK

\* The prune leaves a file the chunk that was read.
LEMMA PruneStaleChunksRow ==
  ASSUME TypeOK, NEW g \in Files, PruneStaleChunks
  PROVE  /\ g \in run.reconcilable /\ AllStored => chunks'[g] = chunks[g] \cap {run.read[g]} /\ loose'[g] = {}
         /\ g \notin run.reconcilable \/ ~AllStored => chunks'[g] = chunks[g] /\ loose'[g] = loose[g]
BY DEF PruneStaleChunks

\* An answer is the draft of its file.
LEMMA AnswerDraft ==
  ASSUME TypeOK, NEW f \in Files, NEW g \in Files, Answer(f)
  PROVE  /\ g # f => run'.draft[g] = run.draft[g]
         /\ g = f => /\ run'.draft[g].sum = IF run.read[g] # None THEN run.read[g] ELSE Fallback(g)
                     /\ run'.draft[g].hash = InputHash(disk[g])
<1>1. run.draft \in [Files -> [sum : Text, hash : Hash]] /\ run \in Locals
  BY DEF TypeOK, Locals
<1>2. run'.draft = [run.draft EXCEPT ![f] =
        [sum |-> IF run.read[f] # None THEN run.read[f] ELSE Fallback(f), hash |-> InputHash(disk[f])]]
  BY <1>1 DEF Answer
<1>3. QED
  BY <1>1, <1>2

\* So is a failure.
LEMMA AnswerFailsDraft ==
  ASSUME TypeOK, NEW f \in Files, NEW g \in Files, AnswerFails(f)
  PROVE  /\ g # f => run'.draft[g] = run.draft[g]
         /\ g = f => run'.draft[g].sum = Fallback(g) /\ run'.draft[g].hash = None
<1>1. run.draft \in [Files -> [sum : Text, hash : Hash]] /\ run \in Locals
  BY DEF TypeOK, Locals
<1>2. run'.draft = [run.draft EXCEPT ![f] = [sum |-> Fallback(f), hash |-> None]]
  BY <1>1 DEF AnswerFails
<1>3. QED
  BY <1>1, <1>2

\* The steps that write to the store.
Writes ==
  \/ \E f \in Files : \/ Upsert(f) \/ Summarize(f) \/ SummarizeFails(f)
                      \/ StoreChunk(f) \/ EmbedSummary(f)
  \/ DeleteStale \/ UpdateChecksums \/ PruneStaleChunks \/ MarkChunksCovered \/ StoreRepaired

\* And only they write to the store.
LEMMA OthersOnlyLook ==
  ASSUME [Next]_vars, ~Writes
  PROVE  UNCHANGED <<node, chunks, loose>>
<1>1. ASSUME NEW f \in Files, Edit(f) \/ StoreChunkFails(f) \/ EmbedSummaryFails(f) \/ Answer(f) \/ AnswerFails(f)
      PROVE  UNCHANGED <<node, chunks, loose>>
  BY <1>1 DEF Edit, StoreChunkFails, EmbedSummaryFails, Answer, AnswerFails, store
<1>2. CASE StartIndex \/ StartForce \/ StartFlush \/ CheckPending \/ Preflight \/ PreflightFails \/ Diff \/ Snapshot \/ Parse \/ GateRefuses \/ PlanReconcile \/ HashInputs \/ ReadChunks \/ Finish \/ AskForMissing \/ RepairChunks \/ Crash
  BY <1>2 DEF StartIndex, StartForce, StartFlush, CheckPending, Preflight, PreflightFails,
     Diff, Snapshot, Parse, GateRefuses, PlanReconcile, HashInputs, ReadChunks, Finish,
     AskForMissing, RepairChunks, Crash, Begin, store
<1>3. CASE UNCHANGED vars
  BY <1>3 DEF vars, store
<1>4. QED
  BY <1>1, <1>2, <1>3 DEF Next, RunStep, FileStep, Writes

\* A step that empties something empties it of a file the run has found gone.
LEMMA EmptiedWereGone ==
  ASSUME RunInv, [Next]_vars, NEW g \in Files, Emptied(g)
  PROVE  g \in run.gone
<1> USE DEF RunInv
<1>1. ASSUME NEW f \in Files, Upsert(f)
      PROVE  g \in run.gone
  BY <1>1, UpsertRow DEF Emptied, Upsert, LoopsAreSound, Produced
<1>2. CASE DeleteStale
  BY <1>2 DEF Emptied, DeleteStale, GoneIsNoted
<1>3. ASSUME NEW f \in Files, Summarize(f)
      PROVE  g \in run.gone
  <2>1. PICK s, h, d : Settle(f, s, h, d)
    BY <1>3 DEF Summarize
  <2>2. /\ node'[g].rows = node[g].rows /\ node'[g].vec = node[g].vec
        /\ node'[g].sum = None => node[g].sum = None
    BY <2>1, SettleRow
  <2>3. chunks' = chunks /\ loose' = loose
    BY <2>1 DEF Settle
  <2>4. QED
    BY <2>2, <2>3 DEF Emptied
<1>4. ASSUME NEW f \in Files, SummarizeFails(f)
      PROVE  g \in run.gone
  <2>1. PICK s, h, d : Settle(f, s, h, d)
    BY <1>4 DEF SummarizeFails
  <2>2. /\ node'[g].rows = node[g].rows /\ node'[g].vec = node[g].vec
        /\ node'[g].sum = None => node[g].sum = None
    BY <2>1, SettleRow
  <2>3. chunks' = chunks /\ loose' = loose
    BY <2>1 DEF Settle
  <2>4. QED
    BY <2>2, <2>3 DEF Emptied
<1>5. CASE UpdateChecksums
  BY <1>5 DEF Emptied, UpdateChecksums
<1>6. ASSUME NEW f \in Files, StoreChunk(f)
      PROVE  g \in run.gone
  BY <1>6, StoreChunkRow DEF Emptied, StoreChunk
<1>7. CASE PruneStaleChunks
  <2>1. pc = "store" /\ todo = {} /\ node' = node
    BY <1>7 DEF PruneStaleChunks
  <2>2. g \in run.reconcilable /\ AllStored /\ chunks'[g] = chunks[g] \cap {run.read[g]}
    BY <1>7, <2>1, PruneStaleChunksRow DEF Emptied
  <2>3. g \in run.run_files => run.read[g] \in chunks[g]
    BY <2>1, <2>2 DEF PruneIsCovered, AllStored
  <2>4. QED
    BY <1>7, <2>1, <2>2, <2>3 DEF PruneIsCovered, Emptied
<1>8. CASE MarkChunksCovered
  BY <1>8 DEF Emptied, MarkChunksCovered
<1>9. ASSUME NEW f \in Files, EmbedSummary(f)
      PROVE  g \in run.gone
  <2>1. Draft(f).sum # None
    BY <1>9 DEF EmbedSummary, LoopsAreSound
  <2>2. QED
    BY <1>9, <2>1, EmbedSummaryRow DEF Emptied, EmbedSummary
<1>10. CASE StoreRepaired
  BY <1>10, StoreRepairedRow DEF Emptied, StoreRepaired
<1>11. CASE ~Writes
  BY <1>11, OthersOnlyLook DEF Emptied
<1>12. QED
  BY <1>1, <1>2, <1>3, <1>4, <1>5, <1>6, <1>7, <1>8, <1>9, <1>10, <1>11 DEF Writes

\* So is a generated summary lost, but for a repair.
LEMMA DowngradedWereGone ==
  ASSUME RunInv, [Next]_vars, NEW g \in Files, Downgraded(g)
  PROVE  g \in run.gone \/ run.repairing
<1> USE DEF RunInv
<1>a. node[g].sum \notin {Docstring, None} /\ node'[g].sum \in {Docstring, None}
  BY Names DEF Downgraded
<1>1. ASSUME NEW f \in Files, Upsert(f)
      PROVE  g \in run.gone \/ run.repairing
  BY <1>1, UpsertRow, <1>a DEF LoopsAreSound
<1>2. CASE DeleteStale
  BY <1>2, <1>a DEF DeleteStale, GoneIsNoted
<1>3. ASSUME NEW f \in Files, Summarize(f)
      PROVE  g \in run.gone \/ run.repairing
  <2>1. disk[f] # None => disk[f] \notin {Docstring, None}
    BY HashTypes, Names
  <2>2. disk[f] = None => f \in run.gone
    BY <1>3 DEF Summarize, GoneIsNoted, Present
  <2>3. Settle(f, IF disk[f] # None THEN disk[f] ELSE Fallback(f), run.draft[f].hash, {f})
    BY <1>3 DEF Summarize, Source
  <2>4. g = f /\ node'[g].sum = IF disk[f] # None THEN disk[f] ELSE Fallback(f)
    BY <2>3, SettleRow, <1>a
  <2>5. QED
    BY <2>1, <2>2, <2>4, <1>a
<1>4. ASSUME NEW f \in Files, SummarizeFails(f)
      PROVE  g \in run.gone \/ run.repairing
  <2>1. CASE Settle(f, node[f].sum, RetryHash(f), {})
    BY <2>1, SettleRow, <1>a
  <2>2. CASE node[f].sum = None /\ Settle(f, Fallback(f), RetryHash(f), {f})
    BY <2>2, SettleRow, <1>a
  <2>3. QED
    BY <1>4, <2>1, <2>2 DEF SummarizeFails
<1>5. CASE UpdateChecksums
  BY <1>5, UpdateChecksumsRow, <1>a DEF LoopsAreSound
<1>6. ASSUME NEW f \in Files, StoreChunk(f)
      PROVE  g \in run.gone \/ run.repairing
  BY <1>6, <1>a DEF LoopsAreSound, StoreChunk
<1>7. CASE PruneStaleChunks
  BY <1>7, <1>a DEF LoopsAreSound, PruneStaleChunks
<1>8. CASE MarkChunksCovered
  BY <1>8, MarkChunksCoveredRow, <1>a DEF LoopsAreSound
<1>9. ASSUME NEW f \in Files, EmbedSummary(f)
      PROVE  g \in run.gone \/ run.repairing
  BY <1>9, EmbedSummaryRow, <1>a DEF LoopsAreSound
<1>10. CASE StoreRepaired
  BY <1>10, StoreRepairedRow, <1>a DEF LoopsAreSound, StoreRepaired
<1>11. CASE ~Writes
  BY <1>11, OthersOnlyLook, <1>a
<1>12. QED
  BY <1>1, <1>2, <1>3, <1>4, <1>5, <1>6, <1>7, <1>8, <1>9, <1>10, <1>11 DEF Writes

\* INV-1 and INV-3 for every project: no scan, parse, LLM call or embedding
\* that fails, and no crash, makes a run empty a row, a summary, a vector or the
\* chunks of a file that was on the disk all through that run.
THEOREM StaleBeatsEmptyAlways == Spec => StaleBeatsEmpty
<1>1. RunInv /\ [Next]_vars => [\A f \in Files : Emptied(f) => f \in run.gone]_vars
  BY EmptiedWereGone
<1>2. QED
  BY RunInit, RunKept, <1>1, PTL DEF Spec, StaleBeatsEmpty

\* INV-3 for every project: outside the repair a generated summary is replaced
\* by a docstring or by nothing only when its file was off the disk.
THEOREM PaidSummaryKeptAlways == Spec => PaidSummaryKept
<1>1. RunInv /\ [Next]_vars => [\A f \in Files : Downgraded(f) => f \in run.gone \/ run.repairing]_vars
  BY DowngradedWereGone
<1>2. QED
  BY RunInit, RunKept, <1>1, PTL DEF Spec, PaidSummaryKept

-----------------------------------------------------------------------------
(* No change costs nothing.                                                  *)

\* What a run holds of a file that was current when it began, and is so still.
Untouched(f) ==
  /\ Current(f)
  /\ f \notin run.paid \cup run.dirty \cup run.confirmed_deleted
  /\ pc \in {"parse", "plan", "upsert", "hash", "summarize"} => run.snapshot[f] = disk[f]
  /\ pc \in {"plan", "upsert", "hash", "summarize"} => run.parsed[f] \in {disk[f], None}
  /\ pc \in {"upsert", "hash", "summarize"} /\ f \in run.reconcilable => f \in Produced
  /\ pc \in {"summarize", "answer"} => f \notin todo
  /\ pc \in {"summarize", "chunk", "store", "mark", "embed"} /\ ~run.repairing =>
       run.draft[f] \in {NoDraft[f], [sum |-> disk[f], hash |-> disk[f]]}
  /\ pc = "answer" => run.draft[f] = NoDraft[f]
  /\ pc = "embed" /\ run.repairing => f \notin todo
  /\ pc = "chunk" /\ f \in run.reconcilable => f \in run.run_files
  /\ pc = "store" /\ f \in run.reconcilable \cup todo => run.read[f] = disk[f]

SettledInv == pc # "idle" => \A f \in run.settled : Untouched(f)

\* Rows are the same when their parts are.
LEMMA SameRow ==
  ASSUME NEW m \in Node, NEW n \in Node,
         m.rows = n.rows, m.ck = n.ck, m.sum = n.sum, m.hash = n.hash,
         m.vec = n.vec, m.vecHash = n.vecHash, m.marker = n.marker
  PROVE  m = n
BY DEF Node

\* A file that is current has nothing left to do.
LEMMA CurrentRow ==
  ASSUME NEW g \in Files, Current(g)
  PROVE  /\ node[g].rows = disk[g] /\ node[g].ck = disk[g] /\ node[g].sum = disk[g]
         /\ node[g].hash = disk[g] /\ node[g].vec = disk[g] /\ node[g].vecHash = disk[g]
         /\ node[g].marker = disk[g] /\ loose[g] = {}
         /\ chunks[g] = IF disk[g] = None THEN {} ELSE {disk[g]}
BY DEF Current, NoNode

\* Nor has it anything for the repair.
LEMMA CurrentIsDone ==
  ASSUME NEW g \in Files, Current(g)
  PROVE  /\ ~StaleVector(g)
         /\ g \notin {h \in Stored : node[h].sum = None \/ node[h].hash = None}
<1>1. /\ node[g].rows = disk[g] /\ node[g].sum = disk[g] /\ node[g].hash = disk[g]
      /\ node[g].vec = disk[g] /\ node[g].vecHash = disk[g]
  BY CurrentRow
<1>2. QED
  BY <1>1 DEF StaleVector, Stored

\* A file that was current when the run began, and was left alone since, is
\* passed over by every step.
LEMMA SettledKept ==
  ASSUME RunInv, RunInv', SettledInv, [Next]_vars
  PROVE  SettledInv'
<1> USE DEF RunInv
<1> SUFFICES ASSUME pc' # "idle", NEW g \in Files, g \in run'.settled PROVE Untouched(g)'
  BY DEF SettledInv, TypeOK, Locals
<1>t. node[g] \in Node /\ node'[g] \in Node
  BY DEF TypeOK
<1>1. ASSUME NEW f \in Files, Edit(f)
      PROVE  Untouched(g)'
  <2>1. CASE pc = "idle"
    BY <1>1, <2>1 DEF Edit
  <2>2. CASE pc # "idle"
    <3>1. PICK c : /\ disk' = [disk EXCEPT ![f] = c]
                   /\ run' = [run EXCEPT !.settled = @ \ {f}, !.gone = @ \cup (IF c = None THEN {f} ELSE {})]
      BY <1>1, <2>2 DEF Edit
    <3>2. run'.settled = run.settled \ {f}
      BY <3>1 DEF TypeOK
    <3>3. g # f /\ g \in run.settled /\ Untouched(g)
      BY <2>2, <3>2 DEF SettledInv
    <3>4. disk'[g] = disk[g] /\ node' = node /\ chunks' = chunks /\ loose' = loose
          /\ pc' = pc /\ todo' = todo
      BY <1>1, <3>1, <3>3 DEF Edit, store
    <3>5. Current(g)'
      BY <3>3, <3>4 DEF Untouched, Current
    <3>6. /\ run'.snapshot = run.snapshot /\ run'.parsed = run.parsed
          /\ run'.reconcilable = run.reconcilable
          /\ run'.confirmed_deleted = run.confirmed_deleted
          /\ run'.repairing = run.repairing
          /\ run'.draft = run.draft /\ run'.dirty = run.dirty /\ run'.paid = run.paid
          /\ run'.run_files = run.run_files /\ run'.read = run.read
      BY <3>1 DEF TypeOK
    <3>7. QED
      BY <3>3, <3>4, <3>5, <3>6 DEF Untouched, Produced
  <2>3. QED
    BY <2>1, <2>2
<1>2. CASE StartIndex
  <2>1. PICK mode, reported : Begin(mode, reported, "preflight")
    BY <1>2 DEF StartIndex
  <2>2. /\ pc' = "preflight" /\ run' = [NoRun EXCEPT !.mode = mode, !.reported = reported,
                                       !.settled = {h \in Files : Current(h)}, !.gone = Files \ Present]
        /\ node' = node /\ chunks' = chunks /\ loose' = loose /\ disk' = disk
    BY <2>1 DEF Begin, Goto, store
  <2>3. run'.paid = {} /\ run'.dirty = {} /\ run'.confirmed_deleted = {}
        /\ run'.settled = {h \in Files : Current(h)}
    BY <2>2 DEF NoRun
  <2>4. Current(g)'
    BY <2>2, <2>3 DEF Current
  <2>5. QED
    BY <2>2, <2>3, <2>4 DEF Untouched
<1>3. CASE StartForce
  <2>1. PICK mode, reported : Begin(mode, reported, "preflight")
    BY <1>3 DEF StartForce
  <2>2. /\ pc' = "preflight" /\ run' = [NoRun EXCEPT !.mode = mode, !.reported = reported,
                                       !.settled = {h \in Files : Current(h)}, !.gone = Files \ Present]
        /\ node' = node /\ chunks' = chunks /\ loose' = loose /\ disk' = disk
    BY <2>1 DEF Begin, Goto, store
  <2>3. run'.paid = {} /\ run'.dirty = {} /\ run'.confirmed_deleted = {}
        /\ run'.settled = {h \in Files : Current(h)}
    BY <2>2 DEF NoRun
  <2>4. Current(g)'
    BY <2>2, <2>3 DEF Current
  <2>5. QED
    BY <2>2, <2>3, <2>4 DEF Untouched
<1>4. CASE StartFlush
  <2>1. PICK mode, reported : Begin(mode, reported, "pending")
    BY <1>4 DEF StartFlush
  <2>2. /\ pc' = "pending" /\ run' = [NoRun EXCEPT !.mode = mode, !.reported = reported,
                                       !.settled = {h \in Files : Current(h)}, !.gone = Files \ Present]
        /\ node' = node /\ chunks' = chunks /\ loose' = loose /\ disk' = disk
    BY <2>1 DEF Begin, Goto, store
  <2>3. run'.paid = {} /\ run'.dirty = {} /\ run'.confirmed_deleted = {}
        /\ run'.settled = {h \in Files : Current(h)}
    BY <2>2 DEF NoRun
  <2>4. Current(g)'
    BY <2>2, <2>3 DEF Current
  <2>5. QED
    BY <2>2, <2>3, <2>4 DEF Untouched
<1>5. CASE CheckPending
  <2>1. pc # "idle" /\ g \in run.settled /\ Untouched(g)
    BY <1>5 DEF CheckPending, Goto, Return, SettledInv
  <2>2. disk'[g] = disk[g] /\ node'[g] = node[g] /\ chunks'[g] = chunks[g]
        /\ loose'[g] = loose[g]
    BY <1>5, <2>1 DEF CheckPending, store
  <2>3. Current(g)'
    BY <2>1, <2>2 DEF Current, Untouched
  <2>4. QED
    BY <1>5, <2>1, <2>2, <2>3 DEF CheckPending, Goto, Return, Untouched
<1>6. CASE Preflight
  <2>1. pc # "idle" /\ g \in run.settled /\ Untouched(g)
    BY <1>6 DEF Preflight, SettledInv
  <2>2. disk'[g] = disk[g] /\ node'[g] = node[g] /\ chunks'[g] = chunks[g]
        /\ loose'[g] = loose[g]
    BY <1>6, <2>1 DEF Preflight, store
  <2>3. Current(g)'
    BY <2>1, <2>2 DEF Current, Untouched
  <2>4. QED
    BY <1>6, <2>1, <2>2, <2>3 DEF Preflight, Goto, Untouched
<1>7. CASE PreflightFails
  <2>1. pc # "idle" /\ g \in run.settled /\ Untouched(g)
    BY <1>7 DEF PreflightFails, Goto, Return
  <2>2. disk'[g] = disk[g] /\ node'[g] = node[g] /\ chunks'[g] = chunks[g]
        /\ loose'[g] = loose[g]
    BY <1>7, <2>1 DEF PreflightFails, store
  <2>3. Current(g)'
    BY <2>1, <2>2 DEF Current, Untouched
  <2>4. QED
    BY <1>7, <2>1, <2>2, <2>3 DEF PreflightFails, Goto, Return
<1>8. CASE Diff
  <2>1. pc # "idle" /\ g \in run.settled /\ Untouched(g)
    BY <1>8 DEF Diff, Goto, Return, SettledInv, TypeOK, Locals
  <2>2. disk'[g] = disk[g] /\ node'[g] = node[g] /\ chunks'[g] = chunks[g]
        /\ loose'[g] = loose[g]
    BY <1>8, <2>1 DEF Diff, store
  <2>3. Current(g)'
    BY <2>1, <2>2 DEF Current, Untouched
  <2>4. /\ pc' \in {"scan", "repair"}
        /\ run'.paid = run.paid /\ run'.dirty = run.dirty
        /\ run'.confirmed_deleted = run.confirmed_deleted
    BY <1>8 DEF Diff, Goto, Return, TypeOK, Locals
  <2>5. QED
    BY <2>1, <2>3, <2>4 DEF Untouched
<1>9. CASE Snapshot
  <2>1. pc # "idle" /\ g \in run.settled /\ Untouched(g)
    BY <1>9 DEF Snapshot, SettledInv
  <2>2. disk'[g] = disk[g] /\ node'[g] = node[g] /\ chunks'[g] = chunks[g]
        /\ loose'[g] = loose[g]
    BY <1>9, <2>1 DEF Snapshot, store
  <2>3. Current(g)'
    BY <2>1, <2>2 DEF Current, Untouched
  <2>4. QED
    BY <1>9, <2>1, <2>2, <2>3 DEF Snapshot, Goto, Untouched
<1>10. CASE Parse
  <2>1. pc # "idle" /\ g \in run.settled /\ Untouched(g)
    BY <1>10 DEF Parse, SettledInv
  <2>2. disk'[g] = disk[g] /\ node'[g] = node[g] /\ chunks'[g] = chunks[g]
        /\ loose'[g] = loose[g]
    BY <1>10, <2>1 DEF Parse, store
  <2>3. Current(g)'
    BY <2>1, <2>2 DEF Current, Untouched
  <2>4. QED
    BY <1>10, <2>1, <2>2, <2>3 DEF Parse, Goto, Untouched
<1>11. CASE GateRefuses
  <2>1. pc # "idle" /\ g \in run.settled /\ Untouched(g)
    BY <1>11 DEF GateRefuses, Goto, Return
  <2>2. disk'[g] = disk[g] /\ node'[g] = node[g] /\ chunks'[g] = chunks[g]
        /\ loose'[g] = loose[g]
    BY <1>11, <2>1 DEF GateRefuses, store
  <2>3. Current(g)'
    BY <2>1, <2>2 DEF Current, Untouched
  <2>4. QED
    BY <1>11, <2>1, <2>2, <2>3 DEF GateRefuses, Goto, Return
<1>12. CASE PlanReconcile
  <2>1. pc # "idle" /\ g \in run.settled /\ Untouched(g)
    BY <1>12 DEF PlanReconcile, Goto, ConfirmedDeleted, Reconcilable, Stored, Produced,
       SettledInv, TypeOK, Locals
  <2>2. disk'[g] = disk[g] /\ node'[g] = node[g] /\ chunks'[g] = chunks[g]
        /\ loose'[g] = loose[g]
    BY <1>12, <2>1 DEF PlanReconcile, store
  <2>3. Current(g)'
    BY <2>1, <2>2 DEF Current, Untouched
  <2>4. QED
    BY <1>12, <2>1, <2>2, <2>3, CurrentRow DEF PlanReconcile, Goto, ConfirmedDeleted,
       Reconcilable, Stored, Produced, Untouched, NoDraft, TypeOK, Locals
<1>13. ASSUME NEW f \in Files, Upsert(f)
      PROVE  Untouched(g)'
  <2>1. pc # "idle" /\ g \in run.settled /\ Untouched(g)
    BY <1>13 DEF Upsert, SettledInv
  <2>2. disk'[g] = disk[g] /\ node'[g] = node[g] /\ chunks'[g] = chunks[g]
        /\ loose'[g] = loose[g]
    <3>1. g = f => run.parsed[g] = disk[g]
      BY <1>13, <2>1 DEF Upsert, LoopsAreSound, Produced, Untouched
    <3>2. node[g].rows = disk[g]
      BY <2>1, CurrentRow DEF Untouched
    <3>8. /\ node'[g].rows = node[g].rows /\ node'[g].ck = node[g].ck
          /\ node'[g].sum = node[g].sum
          /\ node'[g].hash = node[g].hash /\ node'[g].vec = node[g].vec
          /\ node'[g].vecHash = node[g].vecHash /\ node'[g].marker = node[g].marker
      BY <1>13, <3>1, <3>2, UpsertRow
    <3>9. QED
      BY <1>13, <3>8, <1>t, SameRow DEF Upsert
  <2>3. Current(g)'
    BY <2>1, <2>2 DEF Current, Untouched
  <2>4. pc = "upsert" /\ pc' = pc /\ run' = run /\ disk'[g] = disk[g]
    BY <1>13, <2>2 DEF Upsert, Next1
  <2>5. QED
    BY <2>1, <2>3, <2>4 DEF Untouched, Produced
<1>14. CASE DeleteStale
  <2>1. pc # "idle" /\ g \in run.settled /\ Untouched(g)
    BY <1>14 DEF DeleteStale, SettledInv
  <2>2. disk'[g] = disk[g] /\ node'[g] = node[g] /\ chunks'[g] = chunks[g]
        /\ loose'[g] = loose[g]
    BY <1>14, <2>1 DEF DeleteStale, Untouched
  <2>3. Current(g)'
    BY <2>1, <2>2 DEF Current, Untouched
  <2>4. pc = "upsert" /\ pc' = "hash" /\ run' = run /\ disk'[g] = disk[g]
    BY <1>14, <2>2 DEF DeleteStale, Goto
  <2>5. QED
    BY <2>1, <2>3, <2>4 DEF Untouched, Produced
<1>15. CASE HashInputs
  <2>1. pc # "idle" /\ g \in run.settled /\ Untouched(g)
    BY <1>15 DEF HashInputs, Goto, Produced, Reusable, InputHash, SettledInv, TypeOK, Locals
  <2>2. disk'[g] = disk[g] /\ node'[g] = node[g] /\ chunks'[g] = chunks[g]
        /\ loose'[g] = loose[g]
    BY <1>15, <2>1 DEF HashInputs, store
  <2>3. Current(g)'
    BY <2>1, <2>2 DEF Current, Untouched
  <2>4. QED
    BY <1>15, <2>1, <2>2, <2>3, CurrentRow DEF HashInputs, Goto, Produced, Reusable,
       InputHash, Untouched, NoDraft, TypeOK, Locals
<1>16. ASSUME NEW f \in Files, Summarize(f)
      PROVE  Untouched(g)'
  <2>1. pc # "idle" /\ g \in run.settled /\ Untouched(g)
    BY <1>16 DEF Summarize, Settle, SettledInv
  <2>2. disk'[g] = disk[g] /\ node'[g] = node[g] /\ chunks'[g] = chunks[g]
        /\ loose'[g] = loose[g]
    <3>1. g # f
      BY <1>16, <2>1 DEF Summarize, Untouched
    <3>2. PICK s, h, d : Settle(f, s, h, d)
      BY <1>16 DEF Summarize
    <3>8. /\ node'[g].rows = node[g].rows /\ node'[g].ck = node[g].ck
          /\ node'[g].sum = node[g].sum
          /\ node'[g].hash = node[g].hash /\ node'[g].vec = node[g].vec
          /\ node'[g].vecHash = node[g].vecHash /\ node'[g].marker = node[g].marker
      BY <3>1, <3>2, SettleRow
    <3>9. QED
      BY <1>16, <3>8, <1>t, SameRow DEF Summarize, Settle
  <2>3. Current(g)'
    BY <2>1, <2>2 DEF Current, Untouched
  <2>4. g # f /\ pc = "summarize" /\ pc' = pc /\ todo' \subseteq todo
    BY <1>16, <2>1 DEF Summarize, Untouched, Settle, Next1
  <2>5. PICK s, h, d : Settle(f, s, h, d) /\ d \subseteq {f}
    BY <1>16 DEF Summarize
  <2>6. /\ run'.snapshot = run.snapshot /\ run'.parsed = run.parsed
        /\ run'.reconcilable = run.reconcilable
        /\ run'.confirmed_deleted = run.confirmed_deleted /\ run'.repairing = run.repairing
        /\ run'.dirty = run.dirty \cup d /\ run'.paid \subseteq run.paid \cup {f}
    BY <2>5, SettleRun
  <2>a. run'.draft[g] = run.draft[g]
    BY <2>4, <2>5, SettleDraft
  <2>7. disk'[g] = disk[g]
    BY <2>2
  <2>8. QED
    BY <2>1, <2>3, <2>4, <2>5, <2>6, <2>a, <2>7 DEF Untouched, Produced
<1>17. ASSUME NEW f \in Files, SummarizeFails(f)
      PROVE  Untouched(g)'
  <2>1. pc # "idle" /\ g \in run.settled /\ Untouched(g)
    BY <1>17 DEF SummarizeFails, Settle, Source, Fallback, RetryHash, Next1, Fault, May,
       SettledInv, TypeOK, Locals
  <2>2. disk'[g] = disk[g] /\ node'[g] = node[g] /\ chunks'[g] = chunks[g]
        /\ loose'[g] = loose[g]
    <3>1. g # f
      BY <1>17, <2>1 DEF SummarizeFails, Untouched
    <3>2. PICK s, h, d : Settle(f, s, h, d)
      BY <1>17 DEF SummarizeFails
    <3>8. /\ node'[g].rows = node[g].rows /\ node'[g].ck = node[g].ck
          /\ node'[g].sum = node[g].sum
          /\ node'[g].hash = node[g].hash /\ node'[g].vec = node[g].vec
          /\ node'[g].vecHash = node[g].vecHash /\ node'[g].marker = node[g].marker
      BY <3>1, <3>2, SettleRow
    <3>9. QED
      BY <1>17, <3>8, <1>t, SameRow DEF SummarizeFails, Settle
  <2>3. Current(g)'
    BY <2>1, <2>2 DEF Current, Untouched
  <2>4. g # f /\ pc = "summarize" /\ pc' = pc /\ todo' \subseteq todo
    BY <1>17, <2>1 DEF SummarizeFails, Untouched, Settle, Next1
  <2>5. PICK s, h, d : Settle(f, s, h, d) /\ d \subseteq {f}
    BY <1>17 DEF SummarizeFails
  <2>6. /\ run'.snapshot = run.snapshot /\ run'.parsed = run.parsed
        /\ run'.reconcilable = run.reconcilable
        /\ run'.confirmed_deleted = run.confirmed_deleted /\ run'.repairing = run.repairing
        /\ run'.dirty = run.dirty \cup d /\ run'.paid \subseteq run.paid \cup {f}
    BY <2>5, SettleRun
  <2>a. run'.draft[g] = run.draft[g]
    BY <2>4, <2>5, SettleDraft
  <2>7. disk'[g] = disk[g]
    BY <2>2
  <2>8. QED
    BY <2>1, <2>3, <2>4, <2>5, <2>6, <2>a, <2>7 DEF Untouched, Produced
<1>18. CASE UpdateChecksums
  <2>1. pc # "idle" /\ g \in run.settled /\ Untouched(g)
    BY <1>18 DEF UpdateChecksums, Goto, Return, Checksum, Stored, Produced, SettledInv,
       TypeOK, Locals
  <2>2. disk'[g] = disk[g] /\ node'[g] = node[g] /\ chunks'[g] = chunks[g]
        /\ loose'[g] = loose[g]
    <3>1. run.snapshot[g] = disk[g] /\ node[g].ck = disk[g]
      BY <1>18, <2>1, CurrentRow DEF UpdateChecksums, Untouched
    <3>8. /\ node'[g].rows = node[g].rows /\ node'[g].ck = node[g].ck
          /\ node'[g].sum = node[g].sum
          /\ node'[g].hash = node[g].hash /\ node'[g].vec = node[g].vec
          /\ node'[g].vecHash = node[g].vecHash /\ node'[g].marker = node[g].marker
      BY <1>18, <3>1, UpdateChecksumsRow
    <3>9. QED
      BY <1>18, <3>8, <1>t, SameRow DEF UpdateChecksums
  <2>3. Current(g)'
    BY <2>1, <2>2 DEF Current, Untouched
  <2>4. pc = "summarize" /\ disk'[g] = disk[g] /\ ~run.repairing
    BY <1>18, <2>2 DEF UpdateChecksums, LoopsAreSound
  <2>5. CASE pc' = "repair" /\ run' = run
    BY <2>1, <2>3, <2>4, <2>5 DEF Untouched
  <2>6. CASE pc' = "chunk" /\ run' = [run EXCEPT !.run_files = Produced]
    <3>1. /\ run'.run_files = Produced /\ run'.reconcilable = run.reconcilable
          /\ run'.draft = run.draft
          /\ run'.repairing = run.repairing /\ run'.paid = run.paid
          /\ run'.dirty = run.dirty
          /\ run'.confirmed_deleted = run.confirmed_deleted
      BY <2>6 DEF TypeOK
    <3>2. QED
      BY <2>1, <2>3, <2>4, <2>6, <3>1 DEF Untouched
  <2>7. QED
    BY <1>18, <2>5, <2>6 DEF UpdateChecksums, Goto, Return
<1>19. CASE ReadChunks
  <2>1. pc # "idle" /\ g \in run.settled /\ Untouched(g)
    BY <1>19 DEF ReadChunks, SettledInv, TypeOK, Locals
  <2>2. disk'[g] = disk[g] /\ node'[g] = node[g] /\ chunks'[g] = chunks[g]
        /\ loose'[g] = loose[g]
    BY <1>19, <2>1 DEF ReadChunks, store
  <2>3. Current(g)'
    BY <2>1, <2>2 DEF Current, Untouched
  <2>4. PICK S \in SUBSET run.run_files :
          /\ run' = [run EXCEPT !.read = [h \in Files |-> IF h \in S THEN disk[h] ELSE None],
                                !.run_files = S, !.reconcilable = @ \ (run.run_files \ S)]
          /\ pc = "chunk" /\ pc' = "store" /\ todo' = S
    BY <1>19 DEF ReadChunks, Goto
  <2>5. /\ run'.read[g] = IF g \in S THEN disk[g] ELSE None
        /\ run'.reconcilable = run.reconcilable \ (run.run_files \ S)
        /\ run'.draft = run.draft /\ run'.repairing = run.repairing
        /\ run'.paid = run.paid /\ run'.dirty = run.dirty
        /\ run'.confirmed_deleted = run.confirmed_deleted
    BY <2>4 DEF TypeOK, Locals
  <2>6. QED
    BY <2>1, <2>2, <2>3, <2>4, <2>5 DEF Untouched
<1>20. ASSUME NEW f \in Files, StoreChunk(f)
      PROVE  Untouched(g)'
  <2>1. pc # "idle" /\ g \in run.settled /\ Untouched(g)
    BY <1>20 DEF StoreChunk, Next1, SettledInv, TypeOK, Locals
  <2>2. disk'[g] = disk[g] /\ node'[g] = node[g] /\ chunks'[g] = chunks[g]
        /\ loose'[g] = loose[g]
    <3>1. g = f => SkipChunk(f)
      <4>1. g = f => run.read[g] = disk[g] /\ run.read[g] # None
        BY <1>20, <2>1 DEF StoreChunk, Untouched, LoopsAreSound
      <4>2. chunks[g] = IF disk[g] = None THEN {} ELSE {disk[g]}
        BY <2>1, CurrentRow DEF Untouched
      <4>3. QED
        BY <4>1, <4>2 DEF SkipChunk
    <3>2. QED
      BY <1>20, <3>1, StoreChunkRow DEF StoreChunk
  <2>3. Current(g)'
    BY <2>1, <2>2 DEF Current, Untouched
  <2>4. pc = "store" /\ pc' = pc /\ todo' \subseteq todo
    BY <1>20 DEF StoreChunk, Next1
  <2>5. /\ run'.confirmed_deleted = run.confirmed_deleted /\ run'.repairing = run.repairing
        /\ run'.draft[g] = run.draft[g] /\ run'.dirty = run.dirty
        /\ run'.read = run.read /\ run'.reconcilable = run.reconcilable
        /\ run'.paid \subseteq run.paid \cup {f}
    BY <1>20 DEF StoreChunk, TypeOK, Locals
  <2>6. g # f \/ run' = run
    <3>1. g = f => SkipChunk(f)
      <4>1. g = f => run.read[g] = disk[g] /\ run.read[g] # None
        BY <1>20, <2>1 DEF StoreChunk, Untouched, LoopsAreSound
      <4>2. chunks[g] = IF disk[g] = None THEN {} ELSE {disk[g]}
        BY <2>1, CurrentRow DEF Untouched
      <4>3. QED
        BY <4>1, <4>2 DEF SkipChunk
    <3>2. QED
      BY <1>20, <3>1, StoreChunkRow
  <2>7. disk'[g] = disk[g]
    BY <2>2
  <2>8. QED
    BY <2>1, <2>3, <2>4, <2>5, <2>6, <2>7 DEF Untouched
<1>21. ASSUME NEW f \in Files, StoreChunkFails(f)
      PROVE  Untouched(g)'
  <2>1. pc # "idle" /\ g \in run.settled /\ Untouched(g)
    BY <1>21 DEF StoreChunkFails, SettledInv
  <2>2. disk'[g] = disk[g] /\ node'[g] = node[g] /\ chunks'[g] = chunks[g]
        /\ loose'[g] = loose[g]
    BY <1>21, <2>1 DEF StoreChunkFails, store
  <2>3. Current(g)'
    BY <2>1, <2>2 DEF Current, Untouched
  <2>4. g # f
    <3>1. f \in todo /\ pc = "store" /\ ~(run.read[f] \in chunks[f])
      BY <1>21 DEF StoreChunkFails, VectorStored
    <3>2. g = f => run.read[g] = disk[g] /\ run.read[g] # None
      BY <3>1, <2>1 DEF Untouched, LoopsAreSound
    <3>3. chunks[g] = IF disk[g] = None THEN {} ELSE {disk[g]}
      BY <2>1, CurrentRow DEF Untouched
    <3>4. QED
      BY <3>1, <3>2, <3>3
  <2>5. QED
    BY <1>21, <2>1, <2>2, <2>3, <2>4 DEF StoreChunkFails, Next1, Untouched
<1>22. CASE PruneStaleChunks
  <2>1. pc # "idle" /\ g \in run.settled /\ Untouched(g)
    BY <1>22 DEF PruneStaleChunks, SettledInv
  <2>2. disk'[g] = disk[g] /\ node'[g] = node[g] /\ chunks'[g] = chunks[g]
        /\ loose'[g] = loose[g]
    <3>1. pc = "store" /\ disk' = disk /\ node' = node
      BY <1>22 DEF PruneStaleChunks
    <3>2. g \in run.reconcilable => run.read[g] = disk[g]
      BY <3>1, <2>1 DEF Untouched
    <3>3. loose[g] = {} /\ chunks[g] = IF disk[g] = None THEN {} ELSE {disk[g]}
      BY <2>1, CurrentRow DEF Untouched
    <3>4. QED
      BY <1>22, <3>1, <3>2, <3>3, PruneStaleChunksRow
  <2>3. Current(g)'
    BY <2>1, <2>2 DEF Current, Untouched
  <2>4. run' = run /\ pc' \in {"mark", "embed"}
        /\ (pc' = "embed" /\ run.repairing => todo' = {h \in Files : StaleVector(h)})
    BY <1>22 DEF PruneStaleChunks, GotoEmbed, Goto
  <2>5. ~StaleVector(g)
    BY <2>1, CurrentIsDone DEF Untouched
  <2>6. pc \in {"store", "mark"} /\ disk'[g] = disk[g]
    BY <1>22, <2>2 DEF PruneStaleChunks
  <2>7. QED
    BY <2>1, <2>3, <2>4, <2>5, <2>6 DEF Untouched
<1>23. CASE MarkChunksCovered
  <2>1. pc # "idle" /\ g \in run.settled /\ Untouched(g)
    BY <1>23 DEF MarkChunksCovered, SettledInv
  <2>2. disk'[g] = disk[g] /\ node'[g] = node[g] /\ chunks'[g] = chunks[g]
        /\ loose'[g] = loose[g]
    <3>1. node[g].ck = node[g].marker
      BY <2>1, CurrentRow DEF Untouched
    <3>8. /\ node'[g].rows = node[g].rows /\ node'[g].ck = node[g].ck
          /\ node'[g].sum = node[g].sum
          /\ node'[g].hash = node[g].hash /\ node'[g].vec = node[g].vec
          /\ node'[g].vecHash = node[g].vecHash /\ node'[g].marker = node[g].marker
      BY <1>23, <3>1, MarkChunksCoveredRow
    <3>9. QED
      BY <1>23, <3>8, <1>t, SameRow DEF MarkChunksCovered
  <2>3. Current(g)'
    BY <2>1, <2>2 DEF Current, Untouched
  <2>4. run' = run /\ pc' \in {"mark", "embed"}
        /\ (pc' = "embed" /\ run.repairing => todo' = {h \in Files : StaleVector(h)})
    BY <1>23 DEF MarkChunksCovered, GotoEmbed, Goto
  <2>5. ~StaleVector(g)
    BY <2>1, CurrentIsDone DEF Untouched
  <2>6. pc \in {"store", "mark"} /\ disk'[g] = disk[g]
    BY <1>23, <2>2 DEF MarkChunksCovered
  <2>7. QED
    BY <2>1, <2>3, <2>4, <2>5, <2>6 DEF Untouched
<1>24. ASSUME NEW f \in Files, EmbedSummary(f)
      PROVE  Untouched(g)'
  <2>1. pc # "idle" /\ g \in run.settled /\ Untouched(g)
    BY <1>24 DEF EmbedSummary, Next1, Draft, SettledInv, TypeOK, Locals
  <2>2. disk'[g] = disk[g] /\ node'[g] = node[g] /\ chunks'[g] = chunks[g]
        /\ loose'[g] = loose[g]
    <3>1. g # f \/ FreshVector(f)
      <4>1. CASE run.repairing
        BY <1>24, <2>1, <4>1 DEF EmbedSummary, Untouched
      <4>2. CASE ~run.repairing /\ g = f
        <5>1. Draft(g) = run.draft[g] /\ run.draft[g].sum # None
          BY <1>24, <4>2 DEF EmbedSummary, LoopsAreSound, Draft
        <5>2. run.draft[g].hash = disk[g] /\ disk[g] # None
          BY <1>24, <2>1, <4>2, <5>1 DEF EmbedSummary, Untouched, NoDraft
        <5>3. QED
          BY <2>1, <4>2, <5>1, <5>2, CurrentRow DEF FreshVector, Untouched
      <4>3. QED
        BY <4>1, <4>2
    <3>8. /\ node'[g].rows = node[g].rows /\ node'[g].ck = node[g].ck
          /\ node'[g].sum = node[g].sum
          /\ node'[g].hash = node[g].hash /\ node'[g].vec = node[g].vec
          /\ node'[g].vecHash = node[g].vecHash /\ node'[g].marker = node[g].marker
      BY <1>24, <3>1, EmbedSummaryRow
    <3>9. QED
      BY <1>24, <3>8, <1>t, SameRow DEF EmbedSummary
  <2>3. Current(g)'
    BY <2>1, <2>2 DEF Current, Untouched
  <2>4. g # f \/ run' = run
    <3>1. g # f \/ FreshVector(f)
      <4>1. CASE run.repairing
        BY <1>24, <2>1, <4>1 DEF EmbedSummary, Untouched
      <4>2. CASE ~run.repairing /\ g = f
        <5>1. Draft(g) = run.draft[g] /\ run.draft[g].sum # None
          BY <1>24, <4>2 DEF EmbedSummary, LoopsAreSound, Draft
        <5>2. run.draft[g].hash = disk[g] /\ disk[g] # None
          BY <1>24, <2>1, <4>2, <5>1 DEF EmbedSummary, Untouched, NoDraft
        <5>3. QED
          BY <2>1, <4>2, <5>1, <5>2, CurrentRow DEF FreshVector, Untouched
      <4>3. QED
        BY <4>1, <4>2
    <3>2. QED
      BY <1>24, <3>1 DEF EmbedSummary
  <2>5. /\ pc = "embed" /\ pc' = pc /\ todo' \subseteq todo
        /\ run'.dirty = run.dirty /\ run'.confirmed_deleted = run.confirmed_deleted
        /\ run'.repairing = run.repairing /\ run'.draft = run.draft
        /\ g \in run'.paid => g \in run.paid
    BY <1>24, <2>4 DEF EmbedSummary, Next1, TypeOK, Locals
  <2>6. QED
    BY <2>1, <2>2, <2>3, <2>5 DEF Untouched, NoDraft
<1>25. ASSUME NEW f \in Files, EmbedSummaryFails(f)
      PROVE  Untouched(g)'
  <2>1. pc # "idle" /\ g \in run.settled /\ Untouched(g)
    BY <1>25 DEF EmbedSummaryFails, SettledInv
  <2>2. disk'[g] = disk[g] /\ node'[g] = node[g] /\ chunks'[g] = chunks[g]
        /\ loose'[g] = loose[g]
    BY <1>25, <2>1 DEF EmbedSummaryFails, store
  <2>3. Current(g)'
    BY <2>1, <2>2 DEF Current, Untouched
  <2>4. g # f
    <3>1. f \in todo /\ pc = "embed" /\ ~FreshVector(f)
      BY <1>25 DEF EmbedSummaryFails
    <3>2. CASE run.repairing
      BY <3>1, <3>2, <2>1 DEF Untouched
    <3>3. CASE ~run.repairing /\ g = f
      <4>1. Draft(g) = run.draft[g] /\ run.draft[g].sum # None
        BY <3>1, <3>3 DEF LoopsAreSound, Draft
      <4>2. run.draft[g].hash = disk[g] /\ disk[g] # None
        BY <3>1, <2>1, <3>3, <4>1 DEF Untouched, NoDraft
      <4>3. QED
        BY <2>1, <3>1, <3>3, <4>1, <4>2, CurrentRow DEF FreshVector, Untouched
    <3>4. QED
      BY <3>2, <3>3
  <2>5. QED
    BY <1>25, <2>1, <2>2, <2>3, <2>4 DEF EmbedSummaryFails, Next1, Untouched
<1>26. CASE Finish
  <2>1. pc # "idle" /\ g \in run.settled /\ Untouched(g)
    BY <1>26 DEF Finish, Goto, Return
  <2>2. disk'[g] = disk[g] /\ node'[g] = node[g] /\ chunks'[g] = chunks[g]
        /\ loose'[g] = loose[g]
    BY <1>26, <2>1 DEF Finish, store
  <2>3. Current(g)'
    BY <2>1, <2>2 DEF Current, Untouched
  <2>4. QED
    BY <1>26, <2>1, <2>2, <2>3 DEF Finish, Goto, Return
<1>27. CASE AskForMissing
  <2>1. pc # "idle" /\ g \in run.settled /\ Untouched(g)
    BY <1>27 DEF AskForMissing, Goto, Stored, Present, SettledInv, TypeOK, Locals
  <2>2. disk'[g] = disk[g] /\ node'[g] = node[g] /\ chunks'[g] = chunks[g]
        /\ loose'[g] = loose[g]
    BY <1>27, <2>1 DEF AskForMissing, store
  <2>3. Current(g)'
    BY <2>1, <2>2 DEF Current, Untouched
  <2>4. g \notin {h \in Stored : node[h].sum = None \/ node[h].hash = None}
    BY <2>1, CurrentIsDone DEF Untouched
  <2>5. /\ pc' = "answer" /\ g \notin todo' /\ run'.draft = NoDraft /\ run'.repairing
        /\ g \notin run'.paid /\ run'.dirty = run.dirty
        /\ run'.confirmed_deleted = run.confirmed_deleted
    BY <1>27, <2>1, <2>4 DEF AskForMissing, Goto, Untouched, TypeOK, Locals
  <2>6. QED
    BY <2>1, <2>3, <2>5 DEF Untouched
<1>28. ASSUME NEW f \in Files, Answer(f)
      PROVE  Untouched(g)'
  <2>1. pc # "idle" /\ g \in run.settled /\ Untouched(g)
    BY <1>28 DEF Answer, SettledInv
  <2>2. disk'[g] = disk[g] /\ node'[g] = node[g] /\ chunks'[g] = chunks[g]
        /\ loose'[g] = loose[g]
    BY <1>28, <2>1 DEF Answer, store
  <2>3. Current(g)'
    BY <2>1, <2>2 DEF Current, Untouched
  <2>4. QED
    BY <1>28, <2>1, <2>2, <2>3 DEF Answer, Next1, Untouched
<1>29. ASSUME NEW f \in Files, AnswerFails(f)
      PROVE  Untouched(g)'
  <2>1. pc # "idle" /\ g \in run.settled /\ Untouched(g)
    BY <1>29 DEF AnswerFails, SettledInv
  <2>2. disk'[g] = disk[g] /\ node'[g] = node[g] /\ chunks'[g] = chunks[g]
        /\ loose'[g] = loose[g]
    BY <1>29, <2>1 DEF AnswerFails, store
  <2>3. Current(g)'
    BY <2>1, <2>2 DEF Current, Untouched
  <2>4. QED
    BY <1>29, <2>1, <2>2, <2>3 DEF AnswerFails, Next1, Untouched
<1>30. CASE StoreRepaired
  <2>1. pc # "idle" /\ g \in run.settled /\ Untouched(g)
    BY <1>30 DEF StoreRepaired, Goto, SettledInv, TypeOK, Locals
  <2>2. disk'[g] = disk[g] /\ node'[g] = node[g] /\ chunks'[g] = chunks[g]
        /\ loose'[g] = loose[g]
    <3>1. run.draft[g] = NoDraft[g]
      BY <1>30, <2>1 DEF StoreRepaired, Untouched
    <3>2. run.draft[g].sum = None
      BY <3>1 DEF NoDraft
    <3>8. /\ node'[g].rows = node[g].rows /\ node'[g].ck = node[g].ck
          /\ node'[g].sum = node[g].sum
          /\ node'[g].hash = node[g].hash /\ node'[g].vec = node[g].vec
          /\ node'[g].vecHash = node[g].vecHash /\ node'[g].marker = node[g].marker
      BY <1>30, <3>2, StoreRepairedRow
    <3>9. QED
      BY <1>30, <3>8, <1>t, SameRow DEF StoreRepaired
  <2>3. Current(g)'
    BY <2>1, <2>2 DEF Current, Untouched
  <2>4. QED
    BY <1>30, <2>1, <2>2, <2>3, CurrentRow DEF StoreRepaired, Goto, Untouched, NoDraft,
       TypeOK, Locals
<1>31. CASE RepairChunks
  <2>1. pc # "idle" /\ g \in run.settled /\ Untouched(g)
    BY <1>31 DEF RepairChunks, Goto, Stored, SettledInv, TypeOK, Locals
  <2>2. disk'[g] = disk[g] /\ node'[g] = node[g] /\ chunks'[g] = chunks[g]
        /\ loose'[g] = loose[g]
    BY <1>31, <2>1 DEF RepairChunks, store
  <2>3. Current(g)'
    BY <2>1, <2>2 DEF Current, Untouched
  <2>4. ~(node[g].marker = None \/ node[g].marker # node[g].ck) \/ g \notin Stored
    <3>1. node[g].marker = disk[g] /\ node[g].ck = disk[g] /\ node[g].rows = disk[g]
      BY <2>1, CurrentRow DEF Untouched
    <3>2. QED
      BY <3>1 DEF Stored
  <2>5. /\ pc' = "chunk" /\ g \notin run'.reconcilable /\ run'.repairing = run.repairing
        /\ run'.paid = run.paid /\ run'.dirty = run.dirty
        /\ run'.confirmed_deleted = run.confirmed_deleted
    BY <1>31, <2>4 DEF RepairChunks, Goto, TypeOK, Locals
  <2>6. run.repairing
    BY <1>31 DEF RepairChunks, LoopsAreSound
  <2>7. QED
    BY <2>1, <2>3, <2>5, <2>6 DEF Untouched
<1>32. CASE Crash
  <2>1. pc # "idle" /\ g \in run.settled /\ Untouched(g)
    BY <1>32 DEF Crash, Goto, Return
  <2>2. disk'[g] = disk[g] /\ node'[g] = node[g] /\ chunks'[g] = chunks[g]
        /\ loose'[g] = loose[g]
    BY <1>32, <2>1 DEF Crash, store
  <2>3. Current(g)'
    BY <2>1, <2>2 DEF Current, Untouched
  <2>4. QED
    BY <1>32, <2>1, <2>2, <2>3 DEF Crash, Goto, Return
<1>33. CASE UNCHANGED vars
  BY <1>33 DEF vars, store, SettledInv, Untouched, Current, Produced
<1>34. QED
  BY <1>1, <1>2, <1>3, <1>4, <1>5, <1>6, <1>7, <1>8, <1>9, <1>10, <1>11, <1>12, <1>13,
     <1>14, <1>15, <1>16, <1>17, <1>18, <1>19, <1>20, <1>21, <1>22, <1>23, <1>24, <1>25,
     <1>26, <1>27, <1>28, <1>29, <1>30, <1>31, <1>32, <1>33 DEF Next, RunStep, FileStep

\* INV-5 for every project: a run asks nothing of a paid service for a file that
\* was current when it began and that nobody touched since, whatever the other
\* files need and whatever fails.
THEOREM NothingIsPaidTwice == Spec => []NothingPaidTwice
<1>1. Init => SettledInv
  BY DEF Init, SettledInv
<1>2. RunInv /\ SettledInv => NothingPaidTwice
  <2> SUFFICES ASSUME RunInv, SettledInv PROVE NothingPaidTwice
    OBVIOUS
  <2>1. CASE pc = "idle"
    BY <2>1 DEF RunInv, IdleIsEmpty, NoRun, NothingPaidTwice
  <2>2. CASE pc # "idle"
    BY <2>2 DEF SettledInv, Untouched, NothingPaidTwice
  <2>3. QED
    BY <2>1, <2>2
<1>3. QED
  BY RunInit, RunKept, SettledKept, <1>1, <1>2, PTL DEF Spec


-----------------------------------------------------------------------------
(* A tree that stands still.                                                 *)

\* While the tree stands still, a hash is of the text it stands for.
ExactOf(f) ==
  /\ node[f].hash \in Content => node[f].sum = node[f].hash
  /\ node[f].vecHash \in Content => node[f].vec = node[f].vecHash
  /\ run.draft[f].hash \in Content /\ run.draft[f].sum # None => run.draft[f].sum = run.draft[f].hash
  /\ pc = "summarize" /\ f \in todo => run.draft[f].hash = InputHash(disk[f])
  /\ pc = "answer" /\ f \in todo => run.read[f] = disk[f]

\* Every hash is written beside the text it is of, for the source reads the same
\* at both times.
LEMMA ExactKept ==
  ASSUME RunInv, ~world.anytime, NEW g \in Files, ExactOf(g), [Next]_vars
  PROVE  ExactOf(g)'
<1>0. TypeOK
  BY DEF RunInv
<1>t. /\ None \notin Content /\ NoSource \notin Content
      /\ disk[g] \in Content \cup {None}
  BY Names, HashTypes DEF RunInv
<1>1. ASSUME NEW f \in Files, Edit(f)
      PROVE  ExactOf(g)'
  BY <1>1, <1>t DEF Edit, ExactOf, store, bounds
<1>2. CASE StartIndex
  BY <1>2, <1>t DEF StartIndex, Begin, Goto, ExactOf, Locals, NoDraft, NoRun, store, bounds
<1>3. CASE StartForce
  BY <1>3, <1>t DEF StartForce, Begin, Goto, ExactOf, Locals, NoDraft, NoRun, store, bounds
<1>4. CASE StartFlush
  BY <1>4, <1>t DEF StartFlush, Begin, Goto, ExactOf, Locals, NoDraft, NoRun, store, bounds
<1>5. CASE CheckPending
  BY <1>5, <1>t DEF CheckPending, Goto, Return, ExactOf, Locals, NoDraft, NoRun, store,
     bounds
<1>6. CASE Preflight
  BY <1>6, <1>t DEF Preflight, Goto, ExactOf, store, bounds
<1>7. CASE PreflightFails
  BY <1>7, <1>t DEF PreflightFails, Goto, Return, ExactOf, RunInv, TypeOK, Locals, NoDraft,
     NoRun, store, bounds
<1>8. CASE Diff
  BY <1>8, <1>t DEF Diff, Goto, Return, ExactOf, RunInv, TypeOK, Locals, NoDraft, NoRun,
     store, bounds
<1>9. CASE Snapshot
  BY <1>9, <1>t DEF Snapshot, Goto, ExactOf, store, bounds
<1>10. CASE Parse
  BY <1>10, <1>t DEF Parse, Goto, ExactOf, RunInv, TypeOK, Locals, NoDraft, store, bounds
<1>11. CASE GateRefuses
  BY <1>11, <1>t DEF GateRefuses, Goto, Return, ExactOf, RunInv, TypeOK, Locals, NoDraft,
     NoRun, store, bounds
<1>12. CASE PlanReconcile
  BY <1>12, <1>t DEF PlanReconcile, Goto, ExactOf, RunInv, TypeOK, Locals, NoDraft, store,
     bounds
<1>13. ASSUME NEW f \in Files, Upsert(f)
      PROVE  ExactOf(g)'
  <2>1. pc = "upsert" /\ pc' = pc /\ f \in todo /\ todo' = todo \ {f}
        /\ UNCHANGED <<world, disk, chunks, loose, run, bounds>>
    BY <1>13 DEF Upsert, Next1
  <2>9. QED
    BY <1>13, <2>1, UpsertRow, <1>0 DEF ExactOf
<1>14. CASE DeleteStale
  <2>1. pc = "upsert" /\ todo = {} /\ pc' = "hash" /\ todo' = {}
        /\ UNCHANGED <<world, disk, run, bounds>>
    BY <1>14 DEF DeleteStale, Goto
  <2>9. QED
    BY <1>14, <2>1, DeleteStaleRow, <1>0, <1>t DEF ExactOf, NoNode
<1>15. CASE HashInputs
  BY <1>15, <1>t DEF HashInputs, Goto, Reusable, ExactOf, RunInv, TypeOK, Locals, NoDraft,
     store, bounds
<1>16. ASSUME NEW f \in Files, Summarize(f)
      PROVE  ExactOf(g)'
  <2>1. Settle(f, IF disk[f] # None THEN disk[f] ELSE Fallback(f), run.draft[f].hash, {f})
    BY <1>16 DEF Summarize, Source
  <2>2. pc = "summarize" /\ pc' = pc /\ f \in todo /\ todo' = todo \ {f}
        /\ UNCHANGED <<world, disk, chunks, loose, bounds>>
    BY <1>16 DEF Summarize, Settle, Next1
  <2>3. /\ node'[g].rows = node[g].rows /\ node'[g].ck = node[g].ck
        /\ node'[g].vec = node[g].vec
        /\ node'[g].vecHash = node[g].vecHash /\ node'[g].marker = node[g].marker
        /\ run'.snapshot = run.snapshot /\ run'.parsed = run.parsed
        /\ run'.unchanged = run.unchanged
        /\ run'.confirmed_deleted = run.confirmed_deleted
        /\ run'.reconcilable = run.reconcilable
        /\ run'.run_files = run.run_files /\ run'.read = run.read
        /\ run'.repairing = run.repairing
    BY <2>1, <1>0, SettleRow, SettleRun
  <2>4. CASE g # f
    <3>1. node'[g].sum = node[g].sum /\ node'[g].hash = node[g].hash
          /\ run'.draft[g] = run.draft[g]
      BY <2>1, <2>4, <1>0, SettleRow, SettleDraft
    <3>2. QED
      BY <2>2, <2>3, <2>4, <3>1 DEF ExactOf
  <2>5. CASE g = f
    <3>1. run'.draft[g].sum = (IF disk[g] # None THEN disk[g] ELSE Fallback(g)) /\ run'.draft[g].hash = run.draft[g].hash
      BY <2>1, <2>5, <1>0, SettleDraft
    <3>2. /\ run'.draft[g].sum = None => node'[g].sum = node[g].sum /\ node'[g].hash = node[g].hash
          /\ run'.draft[g].sum # None => node'[g].sum = run'.draft[g].sum /\ node'[g].hash = run.draft[g].hash
      BY <2>1, <2>5, <3>1, <1>0, SettleRow
    <3>3. QED
      BY <2>2, <2>3, <2>5, <3>1, <3>2, <1>t DEF ExactOf, InputHash
  <2>6. QED
    BY <2>4, <2>5
<1>17. ASSUME NEW f \in Files, SummarizeFails(f)
      PROVE  ExactOf(g)'
  <2>1. PICK sum \in Text, dirty \in SUBSET Files : Settle(f, sum, None, dirty)
    BY <1>17, HashTypes DEF SummarizeFails, RetryHash, RunInv
  <2>2. pc = "summarize" /\ pc' = pc /\ f \in todo /\ todo' = todo \ {f}
        /\ UNCHANGED <<world, disk, chunks, loose, edits>>
    BY <1>17 DEF SummarizeFails, Settle, Next1, Fault
  <2>3. /\ node'[g].rows = node[g].rows /\ node'[g].ck = node[g].ck
        /\ node'[g].vec = node[g].vec
        /\ node'[g].vecHash = node[g].vecHash /\ node'[g].marker = node[g].marker
        /\ run'.snapshot = run.snapshot /\ run'.parsed = run.parsed
        /\ run'.unchanged = run.unchanged
        /\ run'.confirmed_deleted = run.confirmed_deleted
        /\ run'.reconcilable = run.reconcilable
        /\ run'.run_files = run.run_files /\ run'.read = run.read
        /\ run'.repairing = run.repairing
    BY <2>1, <1>0, SettleRow, SettleRun
  <2>4. CASE g # f
    <3>1. node'[g].sum = node[g].sum /\ node'[g].hash = node[g].hash
          /\ run'.draft[g] = run.draft[g]
      BY <2>1, <2>4, <1>0, SettleRow, SettleDraft
    <3>2. QED
      BY <2>2, <2>3, <2>4, <3>1 DEF ExactOf
  <2>5. CASE g = f
    <3>1. run'.draft[g].sum = sum /\ run'.draft[g].hash = None
      BY <2>1, <2>5, <1>0, SettleDraft
    <3>2. /\ run'.draft[g].sum = None => node'[g].sum = node[g].sum /\ node'[g].hash = node[g].hash
          /\ run'.draft[g].sum # None => node'[g].sum = run'.draft[g].sum /\ node'[g].hash = None
      BY <2>1, <2>5, <3>1, <1>0, SettleRow
    <3>3. QED
      BY <2>2, <2>3, <2>5, <3>1, <3>2, <1>t DEF ExactOf
  <2>6. QED
    BY <2>4, <2>5
<1>18. CASE UpdateChecksums
  <2>1. pc = "summarize" /\ todo = {} /\ todo' = {} /\ ~run.repairing
        /\ \/ pc' = "idle" /\ run' = NoRun
           \/ pc' = "repair" /\ run' = run
           \/ /\ pc' = "chunk" /\ run'.run_files = Produced
              /\ run'.snapshot = run.snapshot /\ run'.parsed = run.parsed
              /\ run'.unchanged = run.unchanged
              /\ run'.confirmed_deleted = run.confirmed_deleted
              /\ run'.reconcilable = run.reconcilable /\ run'.read = run.read
              /\ run'.draft = run.draft /\ run'.dirty = run.dirty
              /\ run'.failed = run.failed
              /\ run'.settled = run.settled /\ run'.gone = run.gone
              /\ run'.repairing = run.repairing
              /\ run'.mode = run.mode
        /\ UNCHANGED <<world, disk, chunks, loose, bounds>>
    BY <1>18 DEF UpdateChecksums, Goto, Return, RunInv, LoopsAreSound, TypeOK, Locals,
       bounds
  <2>9. QED
    BY <1>18, <2>1, UpdateChecksumsRow, <1>0, <1>t DEF ExactOf, NoDraft, NoRun
<1>19. CASE ReadChunks
  BY <1>19, <1>t DEF ReadChunks, Goto, ExactOf, RunInv, TypeOK, Locals, NoDraft, store,
     bounds
<1>20. ASSUME NEW f \in Files, StoreChunk(f)
      PROVE  ExactOf(g)'
  <2>1. pc = "store" /\ pc' = pc /\ f \in todo /\ todo' = todo \ {f}
        /\ run'.snapshot = run.snapshot /\ run'.parsed = run.parsed
        /\ run'.unchanged = run.unchanged
        /\ run'.confirmed_deleted = run.confirmed_deleted
        /\ run'.reconcilable = run.reconcilable /\ run'.run_files = run.run_files
        /\ run'.read = run.read /\ run'.draft = run.draft /\ run'.dirty = run.dirty
        /\ run'.failed = run.failed /\ run'.settled = run.settled /\ run'.gone = run.gone
        /\ run'.repairing = run.repairing /\ run'.mode = run.mode
        /\ UNCHANGED <<world, disk, node, bounds>>
    BY <1>20 DEF StoreChunk, Next1, RunInv, TypeOK, Locals
  <2>9. QED
    BY <1>20, <2>1 DEF ExactOf
<1>21. ASSUME NEW f \in Files, StoreChunkFails(f)
      PROVE  ExactOf(g)'
  BY <1>21, <1>t DEF StoreChunkFails, Next1, ExactOf, RunInv, TypeOK, Locals, NoDraft,
     store, bounds
<1>22. CASE PruneStaleChunks
  <2>1. pc = "store" /\ todo = {} /\ pc' = (IF AllStored THEN "mark" ELSE "embed")
        /\ UNCHANGED <<world, disk, node, run, bounds>>
    BY <1>22 DEF PruneStaleChunks, Goto, GotoEmbed
  <2>9. QED
    BY <1>22, <2>1 DEF ExactOf
<1>23. CASE MarkChunksCovered
  <2>1. pc = "mark" /\ pc' = "embed"
        /\ UNCHANGED <<world, disk, chunks, loose, run, bounds>>
    BY <1>23 DEF MarkChunksCovered, Goto, GotoEmbed
  <2>9. QED
    BY <1>23, <2>1, MarkChunksCoveredRow, <1>0 DEF ExactOf
<1>24. ASSUME NEW f \in Files, EmbedSummary(f)
      PROVE  ExactOf(g)'
  <2>1. pc = "embed" /\ pc' = pc /\ f \in todo /\ todo' = todo \ {f}
        /\ run'.snapshot = run.snapshot /\ run'.parsed = run.parsed
        /\ run'.unchanged = run.unchanged
        /\ run'.confirmed_deleted = run.confirmed_deleted
        /\ run'.reconcilable = run.reconcilable /\ run'.run_files = run.run_files
        /\ run'.read = run.read /\ run'.draft = run.draft /\ run'.dirty = run.dirty
        /\ run'.failed = run.failed /\ run'.settled = run.settled /\ run'.gone = run.gone
        /\ run'.repairing = run.repairing /\ run'.mode = run.mode
        /\ UNCHANGED <<world, disk, chunks, loose, bounds>>
    BY <1>24 DEF EmbedSummary, Next1, RunInv, TypeOK, Locals
  <2>2. /\ node'[g].rows = node[g].rows /\ node'[g].ck = node[g].ck
        /\ node'[g].sum = node[g].sum
        /\ node'[g].hash = node[g].hash /\ node'[g].marker = node[g].marker
    BY <1>24, <1>0, EmbedSummaryRow
  <2>3. CASE g # f \/ FreshVector(f)
    <3>1. node'[g].vec = node[g].vec /\ node'[g].vecHash = node[g].vecHash
      BY <1>24, <2>3, <1>0, EmbedSummaryRow
    <3>2. QED
      BY <2>1, <2>2, <3>1 DEF ExactOf
  <2>4. CASE g = f /\ ~FreshVector(f)
    <3>1. node'[g].vec = Draft(g).sum /\ node'[g].vecHash = Draft(g).hash
      BY <1>24, <2>4, <1>0, EmbedSummaryRow
    <3>2. Draft(g).sum # None
      BY <2>1, <2>4 DEF RunInv, LoopsAreSound
    <3>3. QED
      BY <2>1, <2>2, <3>1, <3>2 DEF ExactOf, Draft
  <2>5. QED
    BY <2>3, <2>4
<1>25. ASSUME NEW f \in Files, EmbedSummaryFails(f)
      PROVE  ExactOf(g)'
  BY <1>25, <1>t DEF EmbedSummaryFails, Next1, ExactOf, RunInv, TypeOK, Locals, NoDraft,
     store, bounds
<1>26. CASE Finish
  BY <1>26, <1>t DEF Finish, Goto, Return, ExactOf, Locals, NoDraft, NoRun, store, bounds
<1>27. CASE AskForMissing
  BY <1>27, <1>t DEF AskForMissing, Goto, ExactOf, RunInv, TypeOK, Locals, NoDraft, store,
     bounds
<1>28. ASSUME NEW f \in Files, Answer(f)
      PROVE  ExactOf(g)'
  BY <1>28, AnswerDraft, <1>t DEF Answer, Next1, InputHash, ExactOf, RunInv, TypeOK, Locals,
     NoDraft, store, bounds
<1>29. ASSUME NEW f \in Files, AnswerFails(f)
      PROVE  ExactOf(g)'
  BY <1>29, AnswerFailsDraft, <1>t DEF AnswerFails, Next1, ExactOf, RunInv, TypeOK, Locals,
     NoDraft, store, bounds
<1>30. CASE StoreRepaired
  <2>1. pc = "answer" /\ todo = {} /\ pc' = "rechunk" /\ todo' = {}
        /\ UNCHANGED <<world, disk, chunks, loose, run, bounds>>
    BY <1>30 DEF StoreRepaired, Goto, bounds
  <2>9. QED
    BY <1>30, <2>1, StoreRepairedRow, <1>0 DEF ExactOf
<1>31. CASE RepairChunks
  BY <1>31, <1>t DEF RepairChunks, Goto, ExactOf, Locals, NoDraft, store, bounds
<1>32. CASE Crash
  BY <1>32, <1>t DEF Crash, Goto, Return, ExactOf, RunInv, TypeOK, Locals, NoDraft, NoRun,
     store, bounds
<1>33. CASE UNCHANGED vars
  BY <1>33 DEF vars, store, ExactOf
<1>34. QED
  BY <1>1, <1>2, <1>3, <1>4, <1>5, <1>6, <1>7, <1>8, <1>9, <1>10, <1>11, <1>12, <1>13,
     <1>14, <1>15, <1>16, <1>17, <1>18, <1>19, <1>20, <1>21, <1>22, <1>23, <1>24, <1>25,
     <1>26, <1>27, <1>28, <1>29, <1>30, <1>31, <1>32, <1>33 DEF Next, RunStep, FileStep

-----------------------------------------------------------------------------
(* Names that are old.                                                       *)

\* The world of a behaviour is chosen once.
LEMMA WorldStands == [Next]_vars => world' = world
<1>1. ASSUME NEW f \in Files, Edit(f) \/ FileStep(f)
      PROVE  world' = world
  BY <1>1 DEF FileStep, Settle, Edit, Upsert, Summarize, SummarizeFails, StoreChunk,
     StoreChunkFails, EmbedSummary, EmbedSummaryFails, Answer, AnswerFails
<1>2. CASE StartIndex \/ StartForce \/ StartFlush \/ Crash
  BY <1>2 DEF StartIndex, StartForce, StartFlush, Crash, Begin
<1>3. CASE RunStep /\ ~\E f \in Files : FileStep(f)
  BY <1>3 DEF RunStep, CheckPending, Preflight, PreflightFails, Diff, Snapshot, Parse,
     GateRefuses, PlanReconcile, DeleteStale, HashInputs, UpdateChecksums, ReadChunks,
     PruneStaleChunks, MarkChunksCovered, Finish, AskForMissing, StoreRepaired, RepairChunks
<1>4. CASE UNCHANGED vars
  BY <1>4 DEF vars
<1>5. QED
  BY <1>1, <1>2, <1>3, <1>4 DEF Next

\* The names in use: no edit will bring back any of them where files never revert.
Old == 1..(edits + 1) \cup {None, NoSource}

OldNames(f) ==
  /\ disk[f] \in Old /\ node[f].rows \in Old /\ node[f].ck \in Old /\ node[f].marker \in Old
  /\ node[f].hash \in Old /\ node[f].vecHash \in Old
  /\ run.snapshot[f] \in Old /\ run.parsed[f] \in Old /\ run.read[f] \in Old
  /\ run.draft[f].hash \in Old
  /\ chunks[f] \cup loose[f] \subseteq Old

\* Whatever a run writes, it read from a file or found in the index.
LEMMA NamesKept ==
  ASSUME RunInv, NEW g \in Files, OldNames(g), [Next]_vars
  PROVE  OldNames(g)'
<1>0. TypeOK
  BY DEF RunInv
<1>t. None \in Old /\ NoSource \in Old /\ None \in Old' /\ (edits' = edits => Old' = Old)
  BY DEF Old
<1>u. /\ edits' = edits => Old' = Old
      /\ edits' = edits + 1 => edits + 2 \in Old' /\ 1..(edits + 1) \subseteq Old' /\ Old \subseteq Old'
  BY DEF Old, RunInv, TypeOK
<1>1. ASSUME NEW f \in Files, Edit(f)
      PROVE  OldNames(g)'
  <2>1. PICK c : /\ c \in {edits + 2} \cup (IF world.reverts THEN 1..(edits + 1) ELSE {})
                            \cup (IF f \in world.deletable THEN {None} ELSE {})
                 /\ disk' = [disk EXCEPT ![f] = c]
    BY <1>1 DEF Edit
  <2>2. edits' = edits + 1 /\ UNCHANGED <<node, chunks, loose>>
    BY <1>1 DEF Edit, store
  <2>3. disk'[g] \in Old'
    <3>1. c \in Old'
      BY <2>1, <2>2, <1>t, <1>u
    <3>2. QED
      BY <2>1, <2>2, <3>1, <1>u DEF OldNames
  <2>4. /\ run'.snapshot = run.snapshot /\ run'.parsed = run.parsed
        /\ run'.read = run.read /\ run'.draft = run.draft
    BY <1>1 DEF Edit
  <2>5. QED
    BY <2>2, <2>3, <2>4, <1>u DEF OldNames
<1>2. CASE StartIndex
  BY <1>2, <1>t DEF StartIndex, Begin, OldNames, NoDraft, Nothing, InputHash, NoRun, store,
     bounds
<1>3. CASE StartForce
  BY <1>3, <1>t DEF StartForce, Begin, OldNames, NoDraft, Nothing, InputHash, NoRun, store,
     bounds
<1>4. CASE StartFlush
  BY <1>4, <1>t DEF StartFlush, Begin, OldNames, NoDraft, Nothing, InputHash, NoRun, store,
     bounds
<1>5. CASE CheckPending
  BY <1>5, <1>t DEF CheckPending, Return, OldNames, NoDraft, Nothing, InputHash, NoRun,
     store, bounds
<1>6. CASE Preflight
  BY <1>6, <1>t DEF Preflight, OldNames, store, bounds
<1>7. CASE PreflightFails
  BY <1>7, <1>t DEF PreflightFails, Return, Fault, May, OldNames, RunInv, TypeOK, Locals,
     NoDraft, Nothing, InputHash, NoRun, store, bounds
<1>8. CASE Diff
  <2>1. /\ edits' = edits /\ UNCHANGED <<disk, node, chunks, loose>>
        /\ \/ run' = [run EXCEPT !.unchanged = Unchanged]
           \/ run' = run \/ run' = NoRun
    BY <1>8 DEF Diff, Return, store, bounds
  <2>2. \/ /\ run'.snapshot = run.snapshot /\ run'.parsed = run.parsed
           /\ run'.read = run.read /\ run'.draft = run.draft
        \/ run' = NoRun
    BY <2>1, <1>0 DEF TypeOK, Locals
  <2>3. QED
    BY <2>1, <2>2, <1>t DEF OldNames, NoRun, NoDraft, Nothing
<1>9. CASE Snapshot
  BY <1>9, <1>t DEF Snapshot, OldNames, store, bounds
<1>10. CASE Parse
  BY <1>10, <1>t DEF Parse, Count, May, OldNames, RunInv, TypeOK, Locals, NoDraft, Nothing,
     InputHash, store, bounds
<1>11. CASE GateRefuses
  BY <1>11, <1>t DEF GateRefuses, Return, Fault, May, OldNames, RunInv, TypeOK, Locals,
     NoDraft, Nothing, InputHash, NoRun, store, bounds
<1>12. CASE PlanReconcile
  BY <1>12, <1>t DEF PlanReconcile, OldNames, TypeOK, Locals, NoDraft, Nothing, InputHash,
     store, bounds
<1>13. ASSUME NEW f \in Files, Upsert(f)
      PROVE  OldNames(g)'
  <2>1. pc = "upsert" /\ pc' = pc /\ f \in todo /\ todo' = todo \ {f}
        /\ UNCHANGED <<world, disk, chunks, loose, run, bounds>>
    BY <1>13 DEF Upsert, Next1
  <2>9. QED
    BY <1>13, <2>1, UpsertRow, <1>0, <1>t DEF OldNames, bounds
<1>14. CASE DeleteStale
  <2>1. pc = "upsert" /\ todo = {} /\ pc' = "hash" /\ todo' = {}
        /\ UNCHANGED <<world, disk, run, bounds>>
    BY <1>14 DEF DeleteStale, Goto
  <2>9. QED
    BY <1>14, <2>1, DeleteStaleRow, <1>0, <1>t DEF OldNames, NoNode, bounds, NoNode
<1>15. CASE HashInputs
  BY <1>15, <1>t DEF HashInputs, InputHash, OldNames, Locals, NoDraft, Nothing, InputHash,
     store, bounds
<1>16. ASSUME NEW f \in Files, Summarize(f)
      PROVE  OldNames(g)'
  <2>1. Settle(f, IF disk[f] # None THEN disk[f] ELSE Fallback(f), run.draft[f].hash, {f})
    BY <1>16 DEF Summarize, Source
  <2>2. pc = "summarize" /\ pc' = pc /\ f \in todo /\ todo' = todo \ {f}
        /\ UNCHANGED <<world, disk, chunks, loose, bounds>>
    BY <1>16 DEF Summarize, Settle, Next1
  <2>3. /\ node'[g].rows = node[g].rows /\ node'[g].ck = node[g].ck
        /\ node'[g].vec = node[g].vec
        /\ node'[g].vecHash = node[g].vecHash /\ node'[g].marker = node[g].marker
        /\ run'.snapshot = run.snapshot /\ run'.parsed = run.parsed
        /\ run'.unchanged = run.unchanged
        /\ run'.confirmed_deleted = run.confirmed_deleted
        /\ run'.reconcilable = run.reconcilable
        /\ run'.run_files = run.run_files /\ run'.read = run.read
        /\ run'.repairing = run.repairing
    BY <2>1, <1>0, SettleRow, SettleRun
  <2>4. CASE g # f
    <3>1. node'[g].sum = node[g].sum /\ node'[g].hash = node[g].hash
          /\ run'.draft[g] = run.draft[g]
      BY <2>1, <2>4, <1>0, SettleRow, SettleDraft
    <3>2. QED
      BY <2>2, <2>3, <2>4, <3>1, <1>t DEF OldNames, bounds
  <2>5. CASE g = f
    <3>1. run'.draft[g].sum = (IF disk[g] # None THEN disk[g] ELSE Fallback(g)) /\ run'.draft[g].hash = run.draft[g].hash
      BY <2>1, <2>5, <1>0, SettleDraft
    <3>2. /\ run'.draft[g].sum = None => node'[g].sum = node[g].sum /\ node'[g].hash = node[g].hash
          /\ run'.draft[g].sum # None => node'[g].sum = run'.draft[g].sum /\ node'[g].hash = run.draft[g].hash
      BY <2>1, <2>5, <3>1, <1>0, SettleRow
    <3>3. QED
      BY <2>2, <2>3, <2>5, <3>1, <3>2, <1>t DEF OldNames, bounds
  <2>6. QED
    BY <2>4, <2>5
<1>17. ASSUME NEW f \in Files, SummarizeFails(f)
      PROVE  OldNames(g)'
  <2>1. PICK sum \in Text, dirty \in SUBSET Files : Settle(f, sum, None, dirty)
    BY <1>17, HashTypes DEF SummarizeFails, RetryHash, RunInv
  <2>2. pc = "summarize" /\ pc' = pc /\ f \in todo /\ todo' = todo \ {f}
        /\ UNCHANGED <<world, disk, chunks, loose, edits>>
    BY <1>17 DEF SummarizeFails, Settle, Next1, Fault
  <2>3. /\ node'[g].rows = node[g].rows /\ node'[g].ck = node[g].ck
        /\ node'[g].vec = node[g].vec
        /\ node'[g].vecHash = node[g].vecHash /\ node'[g].marker = node[g].marker
        /\ run'.snapshot = run.snapshot /\ run'.parsed = run.parsed
        /\ run'.unchanged = run.unchanged
        /\ run'.confirmed_deleted = run.confirmed_deleted
        /\ run'.reconcilable = run.reconcilable
        /\ run'.run_files = run.run_files /\ run'.read = run.read
        /\ run'.repairing = run.repairing
    BY <2>1, <1>0, SettleRow, SettleRun
  <2>4. CASE g # f
    <3>1. node'[g].sum = node[g].sum /\ node'[g].hash = node[g].hash
          /\ run'.draft[g] = run.draft[g]
      BY <2>1, <2>4, <1>0, SettleRow, SettleDraft
    <3>2. QED
      BY <2>2, <2>3, <2>4, <3>1, <1>t DEF OldNames
  <2>5. CASE g = f
    <3>1. run'.draft[g].sum = sum /\ run'.draft[g].hash = None
      BY <2>1, <2>5, <1>0, SettleDraft
    <3>2. /\ run'.draft[g].sum = None => node'[g].sum = node[g].sum /\ node'[g].hash = node[g].hash
          /\ run'.draft[g].sum # None => node'[g].sum = run'.draft[g].sum /\ node'[g].hash = None
      BY <2>1, <2>5, <3>1, <1>0, SettleRow
    <3>3. QED
      BY <2>2, <2>3, <2>5, <3>1, <3>2, <1>t DEF OldNames
  <2>6. QED
    BY <2>4, <2>5
<1>18. CASE UpdateChecksums
  <2>1. pc = "summarize" /\ todo = {} /\ todo' = {} /\ ~run.repairing
        /\ \/ pc' = "idle" /\ run' = NoRun
           \/ pc' = "repair" /\ run' = run
           \/ /\ pc' = "chunk" /\ run'.run_files = Produced
              /\ run'.snapshot = run.snapshot /\ run'.parsed = run.parsed
              /\ run'.unchanged = run.unchanged
              /\ run'.confirmed_deleted = run.confirmed_deleted
              /\ run'.reconcilable = run.reconcilable /\ run'.read = run.read
              /\ run'.draft = run.draft /\ run'.dirty = run.dirty
              /\ run'.failed = run.failed
              /\ run'.settled = run.settled /\ run'.gone = run.gone
              /\ run'.repairing = run.repairing
              /\ run'.mode = run.mode
        /\ UNCHANGED <<world, disk, chunks, loose, bounds>>
    BY <1>18 DEF UpdateChecksums, Goto, Return, RunInv, LoopsAreSound, TypeOK, Locals,
       bounds
  <2>9. QED
    BY <1>18, <2>1, UpdateChecksumsRow, <1>0, <1>t DEF OldNames, NoDraft, Nothing, bounds,
       NoRun
<1>19. CASE ReadChunks
  BY <1>19, <1>t DEF ReadChunks, Count, OldNames, RunInv, TypeOK, Locals, NoDraft, Nothing,
     InputHash, store, bounds
<1>20. ASSUME NEW f \in Files, StoreChunk(f)
      PROVE  OldNames(g)'
  <2>1. pc = "store" /\ pc' = pc /\ f \in todo /\ todo' = todo \ {f}
        /\ run'.snapshot = run.snapshot /\ run'.parsed = run.parsed
        /\ run'.unchanged = run.unchanged
        /\ run'.confirmed_deleted = run.confirmed_deleted
        /\ run'.reconcilable = run.reconcilable /\ run'.run_files = run.run_files
        /\ run'.read = run.read /\ run'.draft = run.draft /\ run'.dirty = run.dirty
        /\ run'.failed = run.failed /\ run'.settled = run.settled /\ run'.gone = run.gone
        /\ run'.repairing = run.repairing /\ run'.mode = run.mode
        /\ UNCHANGED <<world, disk, node, bounds>>
    BY <1>20 DEF StoreChunk, Next1, RunInv, TypeOK, Locals
  <2>9. QED
    BY <1>20, <2>1, StoreChunkRow, <1>0, <1>t DEF OldNames, bounds
<1>21. ASSUME NEW f \in Files, StoreChunkFails(f)
      PROVE  OldNames(g)'
  BY <1>21, <1>t DEF StoreChunkFails, Fault, OldNames, RunInv, TypeOK, Locals, NoDraft,
     Nothing, InputHash, store, bounds
<1>22. CASE PruneStaleChunks
  <2>1. pc = "store" /\ todo = {} /\ pc' = (IF AllStored THEN "mark" ELSE "embed")
        /\ UNCHANGED <<world, disk, node, run, bounds>>
    BY <1>22 DEF PruneStaleChunks, Goto, GotoEmbed
  <2>9. QED
    BY <1>22, <2>1, PruneStaleChunksRow, <1>0, <1>t DEF OldNames, bounds
<1>23. CASE MarkChunksCovered
  <2>1. pc = "mark" /\ pc' = "embed"
        /\ UNCHANGED <<world, disk, chunks, loose, run, bounds>>
    BY <1>23 DEF MarkChunksCovered, Goto, GotoEmbed
  <2>9. QED
    BY <1>23, <2>1, MarkChunksCoveredRow, <1>0, <1>t DEF OldNames, bounds
<1>24. ASSUME NEW f \in Files, EmbedSummary(f)
      PROVE  OldNames(g)'
  <2>1. pc = "embed" /\ pc' = pc /\ f \in todo /\ todo' = todo \ {f}
        /\ run'.snapshot = run.snapshot /\ run'.parsed = run.parsed
        /\ run'.unchanged = run.unchanged
        /\ run'.confirmed_deleted = run.confirmed_deleted
        /\ run'.reconcilable = run.reconcilable /\ run'.run_files = run.run_files
        /\ run'.read = run.read /\ run'.draft = run.draft /\ run'.dirty = run.dirty
        /\ run'.failed = run.failed /\ run'.settled = run.settled /\ run'.gone = run.gone
        /\ run'.repairing = run.repairing /\ run'.mode = run.mode
        /\ UNCHANGED <<world, disk, chunks, loose, bounds>>
    BY <1>24 DEF EmbedSummary, Next1, RunInv, TypeOK, Locals
  <2>2. /\ node'[g].rows = node[g].rows /\ node'[g].ck = node[g].ck
        /\ node'[g].sum = node[g].sum
        /\ node'[g].hash = node[g].hash /\ node'[g].marker = node[g].marker
    BY <1>24, <1>0, EmbedSummaryRow
  <2>3. CASE g # f \/ FreshVector(f)
    <3>1. node'[g].vec = node[g].vec /\ node'[g].vecHash = node[g].vecHash
      BY <1>24, <2>3, <1>0, EmbedSummaryRow
    <3>2. QED
      BY <2>1, <2>2, <3>1, <1>t DEF OldNames, bounds
  <2>4. CASE g = f /\ ~FreshVector(f)
    <3>1. node'[g].vec = Draft(g).sum /\ node'[g].vecHash = Draft(g).hash
      BY <1>24, <2>4, <1>0, EmbedSummaryRow
    <3>2. Draft(g).sum # None
      BY <2>1, <2>4 DEF RunInv, LoopsAreSound
    <3>3. QED
      BY <2>1, <2>2, <3>1, <3>2, <1>t DEF OldNames, bounds, Draft
  <2>5. QED
    BY <2>3, <2>4
<1>25. ASSUME NEW f \in Files, EmbedSummaryFails(f)
      PROVE  OldNames(g)'
  BY <1>25, <1>t DEF EmbedSummaryFails, Fault, OldNames, RunInv, TypeOK, Locals, NoDraft,
     Nothing, InputHash, store, bounds
<1>26. CASE Finish
  BY <1>26, <1>t DEF Finish, Return, OldNames, NoDraft, Nothing, InputHash, NoRun, store,
     bounds
<1>27. CASE AskForMissing
  BY <1>27, <1>t DEF AskForMissing, OldNames, NoDraft, Nothing, InputHash, store, bounds
<1>28. ASSUME NEW f \in Files, Answer(f)
      PROVE  OldNames(g)'
  BY <1>28, AnswerDraft, <1>t DEF Answer, InputHash, OldNames, RunInv, TypeOK, Locals,
     NoDraft, Nothing, InputHash, store, bounds
<1>29. ASSUME NEW f \in Files, AnswerFails(f)
      PROVE  OldNames(g)'
  BY <1>29, AnswerFailsDraft, <1>t DEF AnswerFails, Fault, May, OldNames, RunInv, TypeOK,
     Locals, NoDraft, Nothing, InputHash, store, bounds
<1>30. CASE StoreRepaired
  <2>1. pc = "answer" /\ todo = {} /\ pc' = "rechunk" /\ todo' = {}
        /\ UNCHANGED <<world, disk, chunks, loose, run, bounds>>
    BY <1>30 DEF StoreRepaired, Goto, bounds
  <2>9. QED
    BY <1>30, <2>1, StoreRepairedRow, <1>0, <1>t DEF OldNames, bounds
<1>31. CASE RepairChunks
  BY <1>31, <1>t DEF RepairChunks, OldNames, NoDraft, Nothing, InputHash, store, bounds
<1>32. CASE Crash
  BY <1>32, <1>t DEF Crash, Return, Fault, May, OldNames, RunInv, TypeOK, Locals, NoDraft,
     Nothing, InputHash, NoRun, store, bounds
<1>33. CASE UNCHANGED vars
  BY <1>33, <1>t DEF vars, store, bounds, OldNames
<1>34. QED
  BY <1>1, <1>2, <1>3, <1>4, <1>5, <1>6, <1>7, <1>8, <1>9, <1>10, <1>11, <1>12, <1>13,
     <1>14, <1>15, <1>16, <1>17, <1>18, <1>19, <1>20, <1>21, <1>22, <1>23, <1>24, <1>25,
     <1>26, <1>27, <1>28, <1>29, <1>30, <1>31, <1>32, <1>33 DEF Next, RunStep, FileStep

\* Nothing of a file is left that a stamp could be put on.
Erased(f) == node[f].rows = None /\ node[f].ck = None /\ node[f].marker = None

\* What a build writes, what it deletes and what it may prune.
PlanIsApart(f) ==
  /\ pc \in {"plan", "upsert", "hash", "summarize"} /\ f \in Produced => run.snapshot[f] # None
  /\ pc \in {"upsert", "hash", "summarize"} =>
       /\ f \in run.confirmed_deleted => run.snapshot[f] = None
       /\ f \in run.reconcilable => f \in Produced \cup run.confirmed_deleted
       /\ f \in Produced => f \in run.reconcilable
  /\ pc \in {"hash", "summarize"} /\ f \in run.confirmed_deleted => Erased(f)
  /\ pc \in {"chunk", "store"} =>
       /\ f \in run.run_files => f \in run.reconcilable
       /\ f \in run.reconcilable \ run.run_files => Erased(f)

\* A summary the run settled is the stored one.
DraftIsStored(f) ==
  /\ ~run.repairing /\ pc \in {"summarize", "chunk", "store", "mark", "embed"}
  /\ run.draft[f].sum # None /\ ~(pc = "summarize" /\ f \in todo)
  => node[f].sum = run.draft[f].sum /\ node[f].hash = run.draft[f].hash

\* A vector is of a summary.
VectorHasSummary(f) ==
  /\ node[f].vec = None => node[f].vecHash = None
  /\ node[f].vec # None => node[f].sum # None

\* The plan of a build stands until its chunks are pruned.
LEMMA PlanKept ==
  ASSUME RunInv, NEW g \in Files, PlanIsApart(g), [Next]_vars
  PROVE  PlanIsApart(g)'
<1>0. TypeOK
  BY DEF RunInv
<1>1. ASSUME NEW f \in Files, Edit(f)
      PROVE  PlanIsApart(g)'
  BY <1>1 DEF Edit, PlanIsApart, Erased, Produced, TypeOK, Locals, store, store, bounds
<1>2. CASE StartIndex
  BY <1>2 DEF StartIndex, Begin, Goto, PlanIsApart
<1>3. CASE StartForce
  BY <1>3 DEF StartForce, Begin, Goto, PlanIsApart
<1>4. CASE StartFlush
  BY <1>4 DEF StartFlush, Begin, Goto, PlanIsApart
<1>5. CASE CheckPending
  BY <1>5 DEF CheckPending, Goto, Return, PlanIsApart
<1>6. CASE Preflight
  BY <1>6 DEF Preflight, Goto, PlanIsApart
<1>7. CASE PreflightFails
  BY <1>7 DEF PreflightFails, Goto, Return, May, PlanIsApart, Erased, Produced, Stored,
     RunInv, TypeOK, Locals, store, NoRun, store, bounds
<1>8. CASE Diff
  BY <1>8 DEF Diff, Goto, Return, PlanIsApart
<1>9. CASE Snapshot
  BY <1>9 DEF Snapshot, Goto, PlanIsApart
<1>10. CASE Parse
  BY <1>10 DEF Parse, Goto, PlanIsApart, Erased, Produced, Stored, RunInv, TypeOK, Locals,
     store, store, bounds
<1>11. CASE GateRefuses
  BY <1>11 DEF GateRefuses, Goto, Return, May, PlanIsApart, Erased, Produced, Stored,
     RunInv, TypeOK, Locals, store, NoRun, store, bounds
<1>12. CASE PlanReconcile
  BY <1>12 DEF PlanReconcile, Goto, ConfirmedDeleted, Reconcilable, Stored, Produced,
     PlanIsApart, Erased, Produced, Stored, RunInv, TypeOK, Locals, store, store, bounds
<1>13. ASSUME NEW f \in Files, Upsert(f)
      PROVE  PlanIsApart(g)'
  <2>1. pc = "upsert" /\ pc' = pc /\ f \in todo /\ todo' = todo \ {f}
        /\ UNCHANGED <<world, disk, chunks, loose, run, bounds>>
    BY <1>13 DEF Upsert, Next1
  <2>9. QED
    BY <1>13, <2>1 DEF PlanIsApart, Produced
<1>14. CASE DeleteStale
  <2>1. pc = "upsert" /\ todo = {} /\ pc' = "hash" /\ todo' = {}
        /\ UNCHANGED <<world, disk, run, bounds>>
    BY <1>14 DEF DeleteStale, Goto
  <2>9. QED
    BY <1>14, <2>1, DeleteStaleRow, <1>0 DEF PlanIsApart, Erased, Produced, NoNode
<1>15. CASE HashInputs
  BY <1>15 DEF HashInputs, Goto, Produced, InputHash, PlanIsApart, Erased, Produced, Stored,
     RunInv, TypeOK, Locals, store, store, bounds
<1>16. ASSUME NEW f \in Files, Summarize(f)
      PROVE  PlanIsApart(g)'
  <2>1. Settle(f, IF disk[f] # None THEN disk[f] ELSE Fallback(f), run.draft[f].hash, {f})
    BY <1>16 DEF Summarize, Source
  <2>2. pc = "summarize" /\ pc' = pc /\ f \in todo /\ todo' = todo \ {f}
        /\ UNCHANGED <<world, disk, chunks, loose, bounds>>
    BY <1>16 DEF Summarize, Settle, Next1
  <2>3. /\ node'[g].rows = node[g].rows /\ node'[g].ck = node[g].ck
        /\ node'[g].vec = node[g].vec
        /\ node'[g].vecHash = node[g].vecHash /\ node'[g].marker = node[g].marker
        /\ run'.snapshot = run.snapshot /\ run'.parsed = run.parsed
        /\ run'.unchanged = run.unchanged
        /\ run'.confirmed_deleted = run.confirmed_deleted
        /\ run'.reconcilable = run.reconcilable
        /\ run'.run_files = run.run_files /\ run'.read = run.read
        /\ run'.repairing = run.repairing
    BY <2>1, <1>0, SettleRow, SettleRun
  <2>4. CASE g # f
    <3>1. node'[g].sum = node[g].sum /\ node'[g].hash = node[g].hash
          /\ run'.draft[g] = run.draft[g]
      BY <2>1, <2>4, <1>0, SettleRow, SettleDraft
    <3>2. QED
      BY <2>2, <2>3, <2>4, <3>1 DEF PlanIsApart, Erased, Produced
  <2>5. CASE g = f
    <3>1. run'.draft[g].sum = (IF disk[g] # None THEN disk[g] ELSE Fallback(g)) /\ run'.draft[g].hash = run.draft[g].hash
      BY <2>1, <2>5, <1>0, SettleDraft
    <3>2. /\ run'.draft[g].sum = None => node'[g].sum = node[g].sum /\ node'[g].hash = node[g].hash
          /\ run'.draft[g].sum # None => node'[g].sum = run'.draft[g].sum /\ node'[g].hash = run.draft[g].hash
      BY <2>1, <2>5, <3>1, <1>0, SettleRow
    <3>3. QED
      BY <2>2, <2>3, <2>5, <3>1, <3>2 DEF PlanIsApart, Erased, Produced
  <2>6. QED
    BY <2>4, <2>5
<1>17. ASSUME NEW f \in Files, SummarizeFails(f)
      PROVE  PlanIsApart(g)'
  <2>1. PICK sum \in Text, dirty \in SUBSET Files : Settle(f, sum, None, dirty)
    BY <1>17, HashTypes DEF SummarizeFails, RetryHash, RunInv
  <2>2. pc = "summarize" /\ pc' = pc /\ f \in todo /\ todo' = todo \ {f}
        /\ UNCHANGED <<world, disk, chunks, loose, edits>>
    BY <1>17 DEF SummarizeFails, Settle, Next1, Fault
  <2>3. /\ node'[g].rows = node[g].rows /\ node'[g].ck = node[g].ck
        /\ node'[g].vec = node[g].vec
        /\ node'[g].vecHash = node[g].vecHash /\ node'[g].marker = node[g].marker
        /\ run'.snapshot = run.snapshot /\ run'.parsed = run.parsed
        /\ run'.unchanged = run.unchanged
        /\ run'.confirmed_deleted = run.confirmed_deleted
        /\ run'.reconcilable = run.reconcilable
        /\ run'.run_files = run.run_files /\ run'.read = run.read
        /\ run'.repairing = run.repairing
    BY <2>1, <1>0, SettleRow, SettleRun
  <2>4. CASE g # f
    <3>1. node'[g].sum = node[g].sum /\ node'[g].hash = node[g].hash
          /\ run'.draft[g] = run.draft[g]
      BY <2>1, <2>4, <1>0, SettleRow, SettleDraft
    <3>2. QED
      BY <2>2, <2>3, <2>4, <3>1 DEF PlanIsApart, Erased, Produced
  <2>5. CASE g = f
    <3>1. run'.draft[g].sum = sum /\ run'.draft[g].hash = None
      BY <2>1, <2>5, <1>0, SettleDraft
    <3>2. /\ run'.draft[g].sum = None => node'[g].sum = node[g].sum /\ node'[g].hash = node[g].hash
          /\ run'.draft[g].sum # None => node'[g].sum = run'.draft[g].sum /\ node'[g].hash = None
      BY <2>1, <2>5, <3>1, <1>0, SettleRow
    <3>3. QED
      BY <2>2, <2>3, <2>5, <3>1, <3>2 DEF PlanIsApart, Erased, Produced
  <2>6. QED
    BY <2>4, <2>5
<1>18. CASE UpdateChecksums
  <2>1. pc = "summarize" /\ todo = {} /\ todo' = {} /\ ~run.repairing
        /\ \/ pc' = "idle" /\ run' = NoRun
           \/ pc' = "repair" /\ run' = run
           \/ /\ pc' = "chunk" /\ run'.run_files = Produced
              /\ run'.snapshot = run.snapshot /\ run'.parsed = run.parsed
              /\ run'.unchanged = run.unchanged
              /\ run'.confirmed_deleted = run.confirmed_deleted
              /\ run'.reconcilable = run.reconcilable /\ run'.read = run.read
              /\ run'.draft = run.draft /\ run'.dirty = run.dirty
              /\ run'.failed = run.failed
              /\ run'.settled = run.settled /\ run'.gone = run.gone
              /\ run'.repairing = run.repairing
              /\ run'.mode = run.mode
        /\ UNCHANGED <<world, disk, chunks, loose, bounds>>
    BY <1>18 DEF UpdateChecksums, Goto, Return, RunInv, LoopsAreSound, TypeOK, Locals,
       bounds
  <2>9. QED
    BY <1>18, <2>1, UpdateChecksumsRow, <1>0 DEF PlanIsApart, Erased
<1>19. CASE ReadChunks
  BY <1>19 DEF ReadChunks, Goto, PlanIsApart, Erased, Produced, Stored, RunInv, TypeOK,
     Locals, store, store, bounds
<1>20. ASSUME NEW f \in Files, StoreChunk(f)
      PROVE  PlanIsApart(g)'
  <2>1. pc = "store" /\ pc' = pc /\ f \in todo /\ todo' = todo \ {f}
        /\ run'.snapshot = run.snapshot /\ run'.parsed = run.parsed
        /\ run'.unchanged = run.unchanged
        /\ run'.confirmed_deleted = run.confirmed_deleted
        /\ run'.reconcilable = run.reconcilable /\ run'.run_files = run.run_files
        /\ run'.read = run.read /\ run'.draft = run.draft /\ run'.dirty = run.dirty
        /\ run'.failed = run.failed /\ run'.settled = run.settled /\ run'.gone = run.gone
        /\ run'.repairing = run.repairing /\ run'.mode = run.mode
        /\ UNCHANGED <<world, disk, node, bounds>>
    BY <1>20 DEF StoreChunk, Next1, RunInv, TypeOK, Locals
  <2>9. QED
    BY <1>20, <2>1 DEF PlanIsApart, Erased
<1>21. ASSUME NEW f \in Files, StoreChunkFails(f)
      PROVE  PlanIsApart(g)'
  BY <1>21 DEF StoreChunkFails, Next1, PlanIsApart, Erased, Produced, Stored, RunInv,
     TypeOK, Locals, store, store, bounds
<1>22. CASE PruneStaleChunks
  <2>1. pc = "store" /\ todo = {} /\ pc' = (IF AllStored THEN "mark" ELSE "embed")
        /\ UNCHANGED <<world, disk, node, run, bounds>>
    BY <1>22 DEF PruneStaleChunks, Goto, GotoEmbed
  <2>9. QED
    BY <1>22, <2>1 DEF PlanIsApart
<1>23. CASE MarkChunksCovered
  <2>1. pc = "mark" /\ pc' = "embed"
        /\ UNCHANGED <<world, disk, chunks, loose, run, bounds>>
    BY <1>23 DEF MarkChunksCovered, Goto, GotoEmbed
  <2>9. QED
    BY <1>23, <2>1 DEF PlanIsApart
<1>24. ASSUME NEW f \in Files, EmbedSummary(f)
      PROVE  PlanIsApart(g)'
  <2>1. pc = "embed" /\ pc' = pc /\ f \in todo /\ todo' = todo \ {f}
        /\ run'.snapshot = run.snapshot /\ run'.parsed = run.parsed
        /\ run'.unchanged = run.unchanged
        /\ run'.confirmed_deleted = run.confirmed_deleted
        /\ run'.reconcilable = run.reconcilable /\ run'.run_files = run.run_files
        /\ run'.read = run.read /\ run'.draft = run.draft /\ run'.dirty = run.dirty
        /\ run'.failed = run.failed /\ run'.settled = run.settled /\ run'.gone = run.gone
        /\ run'.repairing = run.repairing /\ run'.mode = run.mode
        /\ UNCHANGED <<world, disk, chunks, loose, bounds>>
    BY <1>24 DEF EmbedSummary, Next1, RunInv, TypeOK, Locals
  <2>2. /\ node'[g].rows = node[g].rows /\ node'[g].ck = node[g].ck
        /\ node'[g].sum = node[g].sum
        /\ node'[g].hash = node[g].hash /\ node'[g].marker = node[g].marker
    BY <1>24, <1>0, EmbedSummaryRow
  <2>3. CASE g # f \/ FreshVector(f)
    <3>1. node'[g].vec = node[g].vec /\ node'[g].vecHash = node[g].vecHash
      BY <1>24, <2>3, <1>0, EmbedSummaryRow
    <3>2. QED
      BY <2>1, <2>2, <3>1 DEF PlanIsApart
  <2>4. CASE g = f /\ ~FreshVector(f)
    <3>1. node'[g].vec = Draft(g).sum /\ node'[g].vecHash = Draft(g).hash
      BY <1>24, <2>4, <1>0, EmbedSummaryRow
    <3>2. Draft(g).sum # None
      BY <2>1, <2>4 DEF RunInv, LoopsAreSound
    <3>3. QED
      BY <2>1, <2>2, <3>1, <3>2 DEF PlanIsApart
  <2>5. QED
    BY <2>3, <2>4
<1>25. ASSUME NEW f \in Files, EmbedSummaryFails(f)
      PROVE  PlanIsApart(g)'
  BY <1>25 DEF EmbedSummaryFails, Next1, PlanIsApart
<1>26. CASE Finish
  BY <1>26 DEF Finish, Goto, Return, PlanIsApart
<1>27. CASE AskForMissing
  BY <1>27 DEF AskForMissing, Goto, PlanIsApart
<1>28. ASSUME NEW f \in Files, Answer(f)
      PROVE  PlanIsApart(g)'
  BY <1>28, AnswerDraft DEF Answer, Next1, PlanIsApart, Produced, Stored, RunInv, TypeOK,
     Locals, store, store, bounds
<1>29. ASSUME NEW f \in Files, AnswerFails(f)
      PROVE  PlanIsApart(g)'
  BY <1>29, AnswerFailsDraft DEF AnswerFails, Next1, PlanIsApart, Erased, Produced, Stored,
     RunInv, TypeOK, Locals, store, store, bounds
<1>30. CASE StoreRepaired
  <2>1. pc = "answer" /\ todo = {} /\ pc' = "rechunk" /\ todo' = {}
        /\ UNCHANGED <<world, disk, chunks, loose, run, bounds>>
    BY <1>30 DEF StoreRepaired, Goto, bounds
  <2>9. QED
    BY <1>30, <2>1 DEF PlanIsApart
<1>31. CASE RepairChunks
  BY <1>31 DEF RepairChunks, Goto, PlanIsApart
<1>32. CASE Crash
  BY <1>32 DEF Crash, Goto, Return, May, PlanIsApart, Erased, Produced, Stored, RunInv,
     TypeOK, Locals, store, NoRun, store, bounds
<1>33. CASE UNCHANGED vars
  BY <1>33 DEF vars, store, PlanIsApart, Erased, Produced
<1>34. QED
  BY <1>1, <1>2, <1>3, <1>4, <1>5, <1>6, <1>7, <1>8, <1>9, <1>10, <1>11, <1>12, <1>13,
     <1>14, <1>15, <1>16, <1>17, <1>18, <1>19, <1>20, <1>21, <1>22, <1>23, <1>24, <1>25,
     <1>26, <1>27, <1>28, <1>29, <1>30, <1>31, <1>32, <1>33 DEF Next, RunStep, FileStep

\* A summary is stored in the step that settles it.
LEMMA DraftKept ==
  ASSUME RunInv, NEW g \in Files, DraftIsStored(g), [Next]_vars
  PROVE  DraftIsStored(g)'
<1>0. TypeOK
  BY DEF RunInv
<1>1. ASSUME NEW f \in Files, Edit(f)
      PROVE  DraftIsStored(g)'
  BY <1>1 DEF Edit, DraftIsStored, store, store, bounds
<1>2. CASE StartIndex
  BY <1>2 DEF StartIndex, Begin, DraftIsStored, Locals, NoDraft, store, NoRun, store, bounds
<1>3. CASE StartForce
  BY <1>3 DEF StartForce, Begin, DraftIsStored, Locals, NoDraft, store, NoRun, store, bounds
<1>4. CASE StartFlush
  BY <1>4 DEF StartFlush, Begin, DraftIsStored, Locals, NoDraft, store, NoRun, store, bounds
<1>5. CASE CheckPending
  BY <1>5 DEF CheckPending, Goto, Return, DraftIsStored
<1>6. CASE Preflight
  BY <1>6 DEF Preflight, Goto, DraftIsStored
<1>7. CASE PreflightFails
  BY <1>7 DEF PreflightFails, Return, May, DraftIsStored, RunInv, LoopsAreSound, TypeOK,
     Locals, NoDraft, store, NoRun, store, bounds
<1>8. CASE Diff
  BY <1>8 DEF Diff, Goto, Return, DraftIsStored
<1>9. CASE Snapshot
  BY <1>9 DEF Snapshot, Goto, DraftIsStored
<1>10. CASE Parse
  BY <1>10 DEF Parse, Goto, DraftIsStored, RunInv, LoopsAreSound, TypeOK, Locals, NoDraft,
     store, store, bounds
<1>11. CASE GateRefuses
  BY <1>11 DEF GateRefuses, Return, May, DraftIsStored, RunInv, LoopsAreSound, TypeOK,
     Locals, NoDraft, store, NoRun, store, bounds
<1>12. CASE PlanReconcile
  BY <1>12 DEF PlanReconcile, Goto, DraftIsStored, RunInv, LoopsAreSound, TypeOK, Locals,
     NoDraft, store, store, bounds
<1>13. ASSUME NEW f \in Files, Upsert(f)
      PROVE  DraftIsStored(g)'
  <2>1. pc = "upsert" /\ pc' = pc /\ f \in todo /\ todo' = todo \ {f}
        /\ UNCHANGED <<world, disk, chunks, loose, run, bounds>>
    BY <1>13 DEF Upsert, Next1
  <2>9. QED
    BY <1>13, <2>1 DEF DraftIsStored
<1>14. CASE DeleteStale
  <2>1. pc = "upsert" /\ todo = {} /\ pc' = "hash" /\ todo' = {}
        /\ UNCHANGED <<world, disk, run, bounds>>
    BY <1>14 DEF DeleteStale, Goto
  <2>9. QED
    BY <1>14, <2>1 DEF DraftIsStored
<1>15. CASE HashInputs
  BY <1>15 DEF HashInputs, Reusable, DraftIsStored, RunInv, LoopsAreSound, TypeOK, Locals,
     NoDraft, store, store, bounds
<1>16. ASSUME NEW f \in Files, Summarize(f)
      PROVE  DraftIsStored(g)'
  <2>1. Settle(f, IF disk[f] # None THEN disk[f] ELSE Fallback(f), run.draft[f].hash, {f})
    BY <1>16 DEF Summarize, Source
  <2>2. pc = "summarize" /\ pc' = pc /\ f \in todo /\ todo' = todo \ {f}
        /\ UNCHANGED <<world, disk, chunks, loose, bounds>>
    BY <1>16 DEF Summarize, Settle, Next1
  <2>3. /\ node'[g].rows = node[g].rows /\ node'[g].ck = node[g].ck
        /\ node'[g].vec = node[g].vec
        /\ node'[g].vecHash = node[g].vecHash /\ node'[g].marker = node[g].marker
        /\ run'.snapshot = run.snapshot /\ run'.parsed = run.parsed
        /\ run'.unchanged = run.unchanged
        /\ run'.confirmed_deleted = run.confirmed_deleted
        /\ run'.reconcilable = run.reconcilable
        /\ run'.run_files = run.run_files /\ run'.read = run.read
        /\ run'.repairing = run.repairing
    BY <2>1, <1>0, SettleRow, SettleRun
  <2>4. CASE g # f
    <3>1. node'[g].sum = node[g].sum /\ node'[g].hash = node[g].hash
          /\ run'.draft[g] = run.draft[g]
      BY <2>1, <2>4, <1>0, SettleRow, SettleDraft
    <3>2. QED
      BY <2>2, <2>3, <2>4, <3>1 DEF DraftIsStored
  <2>5. CASE g = f
    <3>1. run'.draft[g].sum = (IF disk[g] # None THEN disk[g] ELSE Fallback(g)) /\ run'.draft[g].hash = run.draft[g].hash
      BY <2>1, <2>5, <1>0, SettleDraft
    <3>2. /\ run'.draft[g].sum = None => node'[g].sum = node[g].sum /\ node'[g].hash = node[g].hash
          /\ run'.draft[g].sum # None => node'[g].sum = run'.draft[g].sum /\ node'[g].hash = run.draft[g].hash
      BY <2>1, <2>5, <3>1, <1>0, SettleRow
    <3>3. QED
      BY <2>2, <2>3, <2>5, <3>1, <3>2 DEF DraftIsStored
  <2>6. QED
    BY <2>4, <2>5
<1>17. ASSUME NEW f \in Files, SummarizeFails(f)
      PROVE  DraftIsStored(g)'
  <2>1. PICK sum \in Text, dirty \in SUBSET Files : Settle(f, sum, None, dirty)
    BY <1>17, HashTypes DEF SummarizeFails, RetryHash, RunInv
  <2>2. pc = "summarize" /\ pc' = pc /\ f \in todo /\ todo' = todo \ {f}
        /\ UNCHANGED <<world, disk, chunks, loose, edits>>
    BY <1>17 DEF SummarizeFails, Settle, Next1, Fault
  <2>3. /\ node'[g].rows = node[g].rows /\ node'[g].ck = node[g].ck
        /\ node'[g].vec = node[g].vec
        /\ node'[g].vecHash = node[g].vecHash /\ node'[g].marker = node[g].marker
        /\ run'.snapshot = run.snapshot /\ run'.parsed = run.parsed
        /\ run'.unchanged = run.unchanged
        /\ run'.confirmed_deleted = run.confirmed_deleted
        /\ run'.reconcilable = run.reconcilable
        /\ run'.run_files = run.run_files /\ run'.read = run.read
        /\ run'.repairing = run.repairing
    BY <2>1, <1>0, SettleRow, SettleRun
  <2>4. CASE g # f
    <3>1. node'[g].sum = node[g].sum /\ node'[g].hash = node[g].hash
          /\ run'.draft[g] = run.draft[g]
      BY <2>1, <2>4, <1>0, SettleRow, SettleDraft
    <3>2. QED
      BY <2>2, <2>3, <2>4, <3>1 DEF DraftIsStored
  <2>5. CASE g = f
    <3>1. run'.draft[g].sum = sum /\ run'.draft[g].hash = None
      BY <2>1, <2>5, <1>0, SettleDraft
    <3>2. /\ run'.draft[g].sum = None => node'[g].sum = node[g].sum /\ node'[g].hash = node[g].hash
          /\ run'.draft[g].sum # None => node'[g].sum = run'.draft[g].sum /\ node'[g].hash = None
      BY <2>1, <2>5, <3>1, <1>0, SettleRow
    <3>3. QED
      BY <2>2, <2>3, <2>5, <3>1, <3>2 DEF DraftIsStored
  <2>6. QED
    BY <2>4, <2>5
<1>18. CASE UpdateChecksums
  <2>1. pc = "summarize" /\ todo = {} /\ todo' = {} /\ ~run.repairing
        /\ \/ pc' = "idle" /\ run' = NoRun
           \/ pc' = "repair" /\ run' = run
           \/ /\ pc' = "chunk" /\ run'.run_files = Produced
              /\ run'.snapshot = run.snapshot /\ run'.parsed = run.parsed
              /\ run'.unchanged = run.unchanged
              /\ run'.confirmed_deleted = run.confirmed_deleted
              /\ run'.reconcilable = run.reconcilable /\ run'.read = run.read
              /\ run'.draft = run.draft /\ run'.dirty = run.dirty
              /\ run'.failed = run.failed
              /\ run'.settled = run.settled /\ run'.gone = run.gone
              /\ run'.repairing = run.repairing
              /\ run'.mode = run.mode
        /\ UNCHANGED <<world, disk, chunks, loose, bounds>>
    BY <1>18 DEF UpdateChecksums, Goto, Return, RunInv, LoopsAreSound, TypeOK, Locals,
       bounds
  <2>9. QED
    BY <1>18, <2>1, UpdateChecksumsRow, <1>0 DEF DraftIsStored
<1>19. CASE ReadChunks
  BY <1>19 DEF ReadChunks, DraftIsStored, LoopsAreSound, TypeOK, Locals, NoDraft, store,
     store, bounds
<1>20. ASSUME NEW f \in Files, StoreChunk(f)
      PROVE  DraftIsStored(g)'
  <2>1. pc = "store" /\ pc' = pc /\ f \in todo /\ todo' = todo \ {f}
        /\ run'.snapshot = run.snapshot /\ run'.parsed = run.parsed
        /\ run'.unchanged = run.unchanged
        /\ run'.confirmed_deleted = run.confirmed_deleted
        /\ run'.reconcilable = run.reconcilable /\ run'.run_files = run.run_files
        /\ run'.read = run.read /\ run'.draft = run.draft /\ run'.dirty = run.dirty
        /\ run'.failed = run.failed /\ run'.settled = run.settled /\ run'.gone = run.gone
        /\ run'.repairing = run.repairing /\ run'.mode = run.mode
        /\ UNCHANGED <<world, disk, node, bounds>>
    BY <1>20 DEF StoreChunk, Next1, RunInv, TypeOK, Locals
  <2>9. QED
    BY <1>20, <2>1 DEF DraftIsStored
<1>21. ASSUME NEW f \in Files, StoreChunkFails(f)
      PROVE  DraftIsStored(g)'
  BY <1>21 DEF StoreChunkFails, DraftIsStored, store, store, bounds
<1>22. CASE PruneStaleChunks
  <2>1. pc = "store" /\ todo = {} /\ pc' = (IF AllStored THEN "mark" ELSE "embed")
        /\ UNCHANGED <<world, disk, node, run, bounds>>
    BY <1>22 DEF PruneStaleChunks, Goto, GotoEmbed
  <2>9. QED
    BY <1>22, <2>1 DEF DraftIsStored
<1>23. CASE MarkChunksCovered
  <2>1. pc = "mark" /\ pc' = "embed"
        /\ UNCHANGED <<world, disk, chunks, loose, run, bounds>>
    BY <1>23 DEF MarkChunksCovered, Goto, GotoEmbed
  <2>9. QED
    BY <1>23, <2>1, MarkChunksCoveredRow, <1>0 DEF DraftIsStored
<1>24. ASSUME NEW f \in Files, EmbedSummary(f)
      PROVE  DraftIsStored(g)'
  <2>1. pc = "embed" /\ pc' = pc /\ f \in todo /\ todo' = todo \ {f}
        /\ run'.snapshot = run.snapshot /\ run'.parsed = run.parsed
        /\ run'.unchanged = run.unchanged
        /\ run'.confirmed_deleted = run.confirmed_deleted
        /\ run'.reconcilable = run.reconcilable /\ run'.run_files = run.run_files
        /\ run'.read = run.read /\ run'.draft = run.draft /\ run'.dirty = run.dirty
        /\ run'.failed = run.failed /\ run'.settled = run.settled /\ run'.gone = run.gone
        /\ run'.repairing = run.repairing /\ run'.mode = run.mode
        /\ UNCHANGED <<world, disk, chunks, loose, bounds>>
    BY <1>24 DEF EmbedSummary, Next1, RunInv, TypeOK, Locals
  <2>2. /\ node'[g].rows = node[g].rows /\ node'[g].ck = node[g].ck
        /\ node'[g].sum = node[g].sum
        /\ node'[g].hash = node[g].hash /\ node'[g].marker = node[g].marker
    BY <1>24, <1>0, EmbedSummaryRow
  <2>3. CASE g # f \/ FreshVector(f)
    <3>1. node'[g].vec = node[g].vec /\ node'[g].vecHash = node[g].vecHash
      BY <1>24, <2>3, <1>0, EmbedSummaryRow
    <3>2. QED
      BY <2>1, <2>2, <3>1 DEF DraftIsStored
  <2>4. CASE g = f /\ ~FreshVector(f)
    <3>1. node'[g].vec = Draft(g).sum /\ node'[g].vecHash = Draft(g).hash
      BY <1>24, <2>4, <1>0, EmbedSummaryRow
    <3>2. Draft(g).sum # None
      BY <2>1, <2>4 DEF RunInv, LoopsAreSound
    <3>3. QED
      BY <2>1, <2>2, <3>1, <3>2 DEF DraftIsStored
  <2>5. QED
    BY <2>3, <2>4
<1>25. ASSUME NEW f \in Files, EmbedSummaryFails(f)
      PROVE  DraftIsStored(g)'
  BY <1>25 DEF EmbedSummaryFails, DraftIsStored, store, store, bounds
<1>26. CASE Finish
  BY <1>26 DEF Finish, Return, DraftIsStored, Locals, NoDraft, store, NoRun, store, bounds
<1>27. CASE AskForMissing
  BY <1>27 DEF AskForMissing, DraftIsStored
<1>28. ASSUME NEW f \in Files, Answer(f)
      PROVE  DraftIsStored(g)'
  BY <1>28 DEF Answer, DraftIsStored, RunInv, LoopsAreSound
<1>29. ASSUME NEW f \in Files, AnswerFails(f)
      PROVE  DraftIsStored(g)'
  BY <1>29, AnswerFailsDraft DEF AnswerFails, DraftIsStored, RunInv, LoopsAreSound, TypeOK,
     Locals, NoDraft, store, store, bounds
<1>30. CASE StoreRepaired
  <2>1. pc = "answer" /\ todo = {} /\ pc' = "rechunk" /\ todo' = {}
        /\ UNCHANGED <<world, disk, chunks, loose, run, bounds>>
    BY <1>30 DEF StoreRepaired, Goto, bounds
  <2>9. QED
    BY <1>30, <2>1 DEF DraftIsStored
<1>31. CASE RepairChunks
  BY <1>31 DEF RepairChunks, DraftIsStored, RunInv, LoopsAreSound
<1>32. CASE Crash
  BY <1>32 DEF Crash, Return, May, DraftIsStored, RunInv, LoopsAreSound, TypeOK, Locals,
     NoDraft, store, NoRun, store, bounds
<1>33. CASE UNCHANGED vars
  BY <1>33 DEF vars, store, DraftIsStored
<1>34. QED
  BY <1>1, <1>2, <1>3, <1>4, <1>5, <1>6, <1>7, <1>8, <1>9, <1>10, <1>11, <1>12, <1>13,
     <1>14, <1>15, <1>16, <1>17, <1>18, <1>19, <1>20, <1>21, <1>22, <1>23, <1>24, <1>25,
     <1>26, <1>27, <1>28, <1>29, <1>30, <1>31, <1>32, <1>33 DEF Next, RunStep, FileStep

\* A vector is only ever made of a summary, and only DETACH DELETE removes one.
LEMMA VectorHasSummaryKept ==
  ASSUME RunInv, NEW g \in Files, DraftIsStored(g), VectorHasSummary(g), [Next]_vars
  PROVE  VectorHasSummary(g)'
<1>0. TypeOK
  BY DEF RunInv
<1>1. ASSUME NEW f \in Files, Edit(f)
      PROVE  VectorHasSummary(g)'
  BY <1>1 DEF Edit, VectorHasSummary, store, store, bounds
<1>2. CASE StartIndex
  BY <1>2 DEF StartIndex, Begin, VectorHasSummary, Locals, store, NoRun, store, bounds
<1>3. CASE StartForce
  BY <1>3 DEF StartForce, Begin, VectorHasSummary, Locals, store, NoRun, store, bounds
<1>4. CASE StartFlush
  BY <1>4 DEF StartFlush, Begin, VectorHasSummary, Locals, store, NoRun, store, bounds
<1>5. CASE CheckPending
  BY <1>5 DEF CheckPending, VectorHasSummary, store, NoRun, store, bounds
<1>6. CASE Preflight
  BY <1>6 DEF Preflight, VectorHasSummary, store, store, bounds
<1>7. CASE PreflightFails
  BY <1>7 DEF PreflightFails, VectorHasSummary, TypeOK, Locals, store, NoRun, store, bounds
<1>8. CASE Diff
  BY <1>8 DEF Diff, VectorHasSummary, store, NoRun, store, bounds
<1>9. CASE Snapshot
  BY <1>9 DEF Snapshot, VectorHasSummary, store, store, bounds
<1>10. CASE Parse
  BY <1>10 DEF Parse, VectorHasSummary, RunInv, TypeOK, Locals, store, store, bounds
<1>11. CASE GateRefuses
  BY <1>11 DEF GateRefuses, VectorHasSummary, TypeOK, Locals, store, NoRun, store, bounds
<1>12. CASE PlanReconcile
  BY <1>12 DEF PlanReconcile, VectorHasSummary, RunInv, TypeOK, Locals, store, store, bounds
<1>13. ASSUME NEW f \in Files, Upsert(f)
      PROVE  VectorHasSummary(g)'
  <2>1. pc = "upsert" /\ pc' = pc /\ f \in todo /\ todo' = todo \ {f}
        /\ UNCHANGED <<world, disk, chunks, loose, run, bounds>>
    BY <1>13 DEF Upsert, Next1
  <2>9. QED
    BY <1>13, <2>1, UpsertRow, <1>0 DEF VectorHasSummary
<1>14. CASE DeleteStale
  <2>1. pc = "upsert" /\ todo = {} /\ pc' = "hash" /\ todo' = {}
        /\ UNCHANGED <<world, disk, run, bounds>>
    BY <1>14 DEF DeleteStale, Goto
  <2>9. QED
    BY <1>14, <2>1, DeleteStaleRow, <1>0 DEF VectorHasSummary, NoNode
<1>15. CASE HashInputs
  BY <1>15 DEF HashInputs, VectorHasSummary, RunInv, TypeOK, Locals, store, store, bounds
<1>16. ASSUME NEW f \in Files, Summarize(f)
      PROVE  VectorHasSummary(g)'
  <2>1. Settle(f, IF disk[f] # None THEN disk[f] ELSE Fallback(f), run.draft[f].hash, {f})
    BY <1>16 DEF Summarize, Source
  <2>2. pc = "summarize" /\ pc' = pc /\ f \in todo /\ todo' = todo \ {f}
        /\ UNCHANGED <<world, disk, chunks, loose, bounds>>
    BY <1>16 DEF Summarize, Settle, Next1
  <2>3. /\ node'[g].rows = node[g].rows /\ node'[g].ck = node[g].ck
        /\ node'[g].vec = node[g].vec
        /\ node'[g].vecHash = node[g].vecHash /\ node'[g].marker = node[g].marker
        /\ run'.snapshot = run.snapshot /\ run'.parsed = run.parsed
        /\ run'.unchanged = run.unchanged
        /\ run'.confirmed_deleted = run.confirmed_deleted
        /\ run'.reconcilable = run.reconcilable
        /\ run'.run_files = run.run_files /\ run'.read = run.read
        /\ run'.repairing = run.repairing
    BY <2>1, <1>0, SettleRow, SettleRun
  <2>4. CASE g # f
    <3>1. node'[g].sum = node[g].sum /\ node'[g].hash = node[g].hash
          /\ run'.draft[g] = run.draft[g]
      BY <2>1, <2>4, <1>0, SettleRow, SettleDraft
    <3>2. QED
      BY <2>2, <2>3, <2>4, <3>1 DEF VectorHasSummary
  <2>5. CASE g = f
    <3>1. run'.draft[g].sum = (IF disk[g] # None THEN disk[g] ELSE Fallback(g)) /\ run'.draft[g].hash = run.draft[g].hash
      BY <2>1, <2>5, <1>0, SettleDraft
    <3>2. /\ run'.draft[g].sum = None => node'[g].sum = node[g].sum /\ node'[g].hash = node[g].hash
          /\ run'.draft[g].sum # None => node'[g].sum = run'.draft[g].sum /\ node'[g].hash = run.draft[g].hash
      BY <2>1, <2>5, <3>1, <1>0, SettleRow
    <3>3. QED
      BY <2>2, <2>3, <2>5, <3>1, <3>2 DEF VectorHasSummary
  <2>6. QED
    BY <2>4, <2>5
<1>17. ASSUME NEW f \in Files, SummarizeFails(f)
      PROVE  VectorHasSummary(g)'
  <2>1. PICK sum \in Text, dirty \in SUBSET Files : Settle(f, sum, None, dirty)
    BY <1>17, HashTypes DEF SummarizeFails, RetryHash, RunInv
  <2>2. pc = "summarize" /\ pc' = pc /\ f \in todo /\ todo' = todo \ {f}
        /\ UNCHANGED <<world, disk, chunks, loose, edits>>
    BY <1>17 DEF SummarizeFails, Settle, Next1, Fault
  <2>3. /\ node'[g].rows = node[g].rows /\ node'[g].ck = node[g].ck
        /\ node'[g].vec = node[g].vec
        /\ node'[g].vecHash = node[g].vecHash /\ node'[g].marker = node[g].marker
        /\ run'.snapshot = run.snapshot /\ run'.parsed = run.parsed
        /\ run'.unchanged = run.unchanged
        /\ run'.confirmed_deleted = run.confirmed_deleted
        /\ run'.reconcilable = run.reconcilable
        /\ run'.run_files = run.run_files /\ run'.read = run.read
        /\ run'.repairing = run.repairing
    BY <2>1, <1>0, SettleRow, SettleRun
  <2>4. CASE g # f
    <3>1. node'[g].sum = node[g].sum /\ node'[g].hash = node[g].hash
          /\ run'.draft[g] = run.draft[g]
      BY <2>1, <2>4, <1>0, SettleRow, SettleDraft
    <3>2. QED
      BY <2>2, <2>3, <2>4, <3>1 DEF VectorHasSummary
  <2>5. CASE g = f
    <3>1. run'.draft[g].sum = sum /\ run'.draft[g].hash = None
      BY <2>1, <2>5, <1>0, SettleDraft
    <3>2. /\ run'.draft[g].sum = None => node'[g].sum = node[g].sum /\ node'[g].hash = node[g].hash
          /\ run'.draft[g].sum # None => node'[g].sum = run'.draft[g].sum /\ node'[g].hash = None
      BY <2>1, <2>5, <3>1, <1>0, SettleRow
    <3>3. QED
      BY <2>2, <2>3, <2>5, <3>1, <3>2 DEF VectorHasSummary
  <2>6. QED
    BY <2>4, <2>5
<1>18. CASE UpdateChecksums
  <2>1. pc = "summarize" /\ todo = {} /\ todo' = {} /\ ~run.repairing
        /\ \/ pc' = "idle" /\ run' = NoRun
           \/ pc' = "repair" /\ run' = run
           \/ /\ pc' = "chunk" /\ run'.run_files = Produced
              /\ run'.snapshot = run.snapshot /\ run'.parsed = run.parsed
              /\ run'.unchanged = run.unchanged
              /\ run'.confirmed_deleted = run.confirmed_deleted
              /\ run'.reconcilable = run.reconcilable /\ run'.read = run.read
              /\ run'.draft = run.draft /\ run'.dirty = run.dirty
              /\ run'.failed = run.failed
              /\ run'.settled = run.settled /\ run'.gone = run.gone
              /\ run'.repairing = run.repairing
              /\ run'.mode = run.mode
        /\ UNCHANGED <<world, disk, chunks, loose, bounds>>
    BY <1>18 DEF UpdateChecksums, Goto, Return, RunInv, LoopsAreSound, TypeOK, Locals,
       bounds
  <2>9. QED
    BY <1>18, <2>1, UpdateChecksumsRow, <1>0 DEF VectorHasSummary
<1>19. CASE ReadChunks
  BY <1>19 DEF ReadChunks, VectorHasSummary, RunInv, TypeOK, Locals, store, store, bounds
<1>20. ASSUME NEW f \in Files, StoreChunk(f)
      PROVE  VectorHasSummary(g)'
  <2>1. pc = "store" /\ pc' = pc /\ f \in todo /\ todo' = todo \ {f}
        /\ run'.snapshot = run.snapshot /\ run'.parsed = run.parsed
        /\ run'.unchanged = run.unchanged
        /\ run'.confirmed_deleted = run.confirmed_deleted
        /\ run'.reconcilable = run.reconcilable /\ run'.run_files = run.run_files
        /\ run'.read = run.read /\ run'.draft = run.draft /\ run'.dirty = run.dirty
        /\ run'.failed = run.failed /\ run'.settled = run.settled /\ run'.gone = run.gone
        /\ run'.repairing = run.repairing /\ run'.mode = run.mode
        /\ UNCHANGED <<world, disk, node, bounds>>
    BY <1>20 DEF StoreChunk, Next1, RunInv, TypeOK, Locals
  <2>9. QED
    BY <1>20, <2>1 DEF VectorHasSummary
<1>21. ASSUME NEW f \in Files, StoreChunkFails(f)
      PROVE  VectorHasSummary(g)'
  BY <1>21 DEF StoreChunkFails, VectorHasSummary, TypeOK, Locals, store, store, bounds
<1>22. CASE PruneStaleChunks
  <2>1. pc = "store" /\ todo = {} /\ pc' = (IF AllStored THEN "mark" ELSE "embed")
        /\ UNCHANGED <<world, disk, node, run, bounds>>
    BY <1>22 DEF PruneStaleChunks, Goto, GotoEmbed
  <2>9. QED
    BY <1>22, <2>1 DEF VectorHasSummary
<1>23. CASE MarkChunksCovered
  <2>1. pc = "mark" /\ pc' = "embed"
        /\ UNCHANGED <<world, disk, chunks, loose, run, bounds>>
    BY <1>23 DEF MarkChunksCovered, Goto, GotoEmbed
  <2>9. QED
    BY <1>23, <2>1, MarkChunksCoveredRow, <1>0 DEF VectorHasSummary
<1>24. ASSUME NEW f \in Files, EmbedSummary(f)
      PROVE  VectorHasSummary(g)'
  <2>1. pc = "embed" /\ pc' = pc /\ f \in todo /\ todo' = todo \ {f}
        /\ run'.snapshot = run.snapshot /\ run'.parsed = run.parsed
        /\ run'.unchanged = run.unchanged
        /\ run'.confirmed_deleted = run.confirmed_deleted
        /\ run'.reconcilable = run.reconcilable /\ run'.run_files = run.run_files
        /\ run'.read = run.read /\ run'.draft = run.draft /\ run'.dirty = run.dirty
        /\ run'.failed = run.failed /\ run'.settled = run.settled /\ run'.gone = run.gone
        /\ run'.repairing = run.repairing /\ run'.mode = run.mode
        /\ UNCHANGED <<world, disk, chunks, loose, bounds>>
    BY <1>24 DEF EmbedSummary, Next1, RunInv, TypeOK, Locals
  <2>2. /\ node'[g].rows = node[g].rows /\ node'[g].ck = node[g].ck
        /\ node'[g].sum = node[g].sum
        /\ node'[g].hash = node[g].hash /\ node'[g].marker = node[g].marker
    BY <1>24, <1>0, EmbedSummaryRow
  <2>a. ~run.repairing /\ run.draft[g].sum # None => node[g].sum # None
    BY <2>1 DEF DraftIsStored
  <2>3. CASE g # f \/ FreshVector(f)
    <3>1. node'[g].vec = node[g].vec /\ node'[g].vecHash = node[g].vecHash
      BY <1>24, <2>3, <1>0, EmbedSummaryRow
    <3>2. QED
      BY <2>1, <2>2, <3>1 DEF VectorHasSummary
  <2>4. CASE g = f /\ ~FreshVector(f)
    <3>1. node'[g].vec = Draft(g).sum /\ node'[g].vecHash = Draft(g).hash
      BY <1>24, <2>4, <1>0, EmbedSummaryRow
    <3>2. Draft(g).sum # None
      BY <2>1, <2>4 DEF RunInv, LoopsAreSound
    <3>3. QED
      BY <2>1, <2>2, <2>a, <3>1, <3>2 DEF VectorHasSummary, Draft
  <2>5. QED
    BY <2>3, <2>4
<1>25. ASSUME NEW f \in Files, EmbedSummaryFails(f)
      PROVE  VectorHasSummary(g)'
  BY <1>25 DEF EmbedSummaryFails, VectorHasSummary, TypeOK, Locals, store, store, bounds
<1>26. CASE Finish
  BY <1>26 DEF Finish, VectorHasSummary, store, NoRun, store, bounds
<1>27. CASE AskForMissing
  BY <1>27 DEF AskForMissing, VectorHasSummary, TypeOK, Locals, store, store, bounds
<1>28. ASSUME NEW f \in Files, Answer(f)
      PROVE  VectorHasSummary(g)'
  BY <1>28, AnswerDraft DEF Answer, VectorHasSummary, TypeOK, Locals, store, store, bounds
<1>29. ASSUME NEW f \in Files, AnswerFails(f)
      PROVE  VectorHasSummary(g)'
  BY <1>29, AnswerFailsDraft DEF AnswerFails, VectorHasSummary, TypeOK, Locals, store,
     store, bounds
<1>30. CASE StoreRepaired
  <2>1. pc = "answer" /\ todo = {} /\ pc' = "rechunk" /\ todo' = {}
        /\ UNCHANGED <<world, disk, chunks, loose, run, bounds>>
    BY <1>30 DEF StoreRepaired, Goto, bounds
  <2>9. QED
    BY <1>30, <2>1, StoreRepairedRow, <1>0 DEF VectorHasSummary
<1>31. CASE RepairChunks
  BY <1>31 DEF RepairChunks, VectorHasSummary, store, store, bounds
<1>32. CASE Crash
  BY <1>32 DEF Crash, VectorHasSummary, TypeOK, Locals, store, NoRun, store, bounds
<1>33. CASE UNCHANGED vars
  BY <1>33 DEF vars, store, VectorHasSummary
<1>34. QED
  BY <1>1, <1>2, <1>3, <1>4, <1>5, <1>6, <1>7, <1>8, <1>9, <1>10, <1>11, <1>12, <1>13,
     <1>14, <1>15, <1>16, <1>17, <1>18, <1>19, <1>20, <1>21, <1>22, <1>23, <1>24, <1>25,
     <1>26, <1>27, <1>28, <1>29, <1>30, <1>31, <1>32, <1>33 DEF Next, RunStep, FileStep

-----------------------------------------------------------------------------
(* Bytes that are new.                                                       *)

\* Where files never return to bytes they had, an edited file has a name that is
\* nowhere in the index or in the run.
LEMMA NewBytes ==
  ASSUME TypeOK, ~world.reverts, NEW f \in Files, Edit(f), NEW g \in Files
  PROVE  disk'[g] = disk[g] \/ disk'[g] = None \/ disk'[g] \notin Old
<1>1. PICK c : /\ c \in {edits + 2} \cup (IF f \in world.deletable THEN {None} ELSE {})
               /\ disk' = [disk EXCEPT ![f] = c]
  BY DEF Edit
<1>2. edits + 2 \notin Old
  <2>1. edits \in Nat
    BY DEF TypeOK
  <2>2. edits + 2 \in Nat /\ edits + 2 \notin 1..(edits + 1)
    BY <2>1
  <2>3. None \notin Nat /\ NoSource \notin Nat
    BY IndexRunAssumption
  <2>4. QED
    BY <2>2, <2>3 DEF Old
<1>3. QED
  BY <1>1, <1>2 DEF TypeOK

\* What an edit leaves alone.
LEMMA EditFrame ==
  ASSUME TypeOK, NEW f \in Files, Edit(f)
  PROVE  /\ UNCHANGED <<node, chunks, loose, pc, todo>>
         /\ run'.snapshot = run.snapshot /\ run'.parsed = run.parsed /\ run'.read = run.read
         /\ run'.draft = run.draft /\ run'.unchanged = run.unchanged
         /\ run'.run_files = run.run_files /\ run'.reconcilable = run.reconcilable
BY DEF Edit, store

-----------------------------------------------------------------------------
(* The checksum.                                                             *)

\* A checksum that is the file's is that of the rows, now or when they are written.
RowsOf(f) ==
  /\ node[f].ck = disk[f] => node[f].rows = disk[f]
  /\ pc \in {"parse", "plan", "upsert", "hash", "summarize"} /\ node[f].ck = disk[f] =>
       run.snapshot[f] = disk[f]
  /\ pc \in {"plan", "upsert", "hash", "summarize"} /\ run.snapshot[f] = disk[f] =>
       run.parsed[f] = disk[f]

\* The rows of a file that is to be stamped are written before the stamp.
RowsWritten(f) ==
  /\ pc \in {"upsert", "hash", "summarize"} /\ ~(pc = "upsert" /\ f \in todo)
  /\ f \in Produced \ run.unchanged
  => node[f].rows = run.parsed[f]

RowsAreStamped(f) == (disk[f] # None => RowsOf(f)) /\ RowsWritten(f)

\* The snapshot is older than the parse and the rows are older than the stamp.
LEMMA RowsKept ==
  ASSUME RunInv, ~world.reverts, "parse" \notin world.faults, NEW g \in Files,
         OldNames(g), PlanIsApart(g), RowsAreStamped(g), [Next]_vars
  PROVE  RowsAreStamped(g)'
<1>0. TypeOK
  BY DEF RunInv
<1>1. ASSUME NEW f \in Files, Edit(f)
      PROVE  RowsAreStamped(g)'
  <2>1. disk'[g] = disk[g] \/ disk'[g] = None \/ disk'[g] \notin Old
    BY <1>1, <1>0, NewBytes
  <2>2. /\ UNCHANGED <<node, chunks, loose, pc, todo>>
        /\ run'.snapshot = run.snapshot /\ run'.parsed = run.parsed
        /\ run'.unchanged = run.unchanged
    BY <1>1, <1>0, EditFrame
  <2>3. QED
    BY <2>1, <2>2 DEF RowsAreStamped, RowsOf, RowsWritten, Produced, OldNames
<1>2. CASE StartIndex
  BY <1>2 DEF StartIndex, Begin, Goto, RowsAreStamped, RowsOf, RowsWritten, Produced,
     RunInv, TypeOK, Locals, store, NoRun, store, bounds
<1>3. CASE StartForce
  BY <1>3 DEF StartForce, Begin, Goto, RowsAreStamped, RowsOf, RowsWritten, Produced,
     RunInv, TypeOK, Locals, store, NoRun, store, bounds
<1>4. CASE StartFlush
  BY <1>4 DEF StartFlush, Begin, Goto, RowsAreStamped, RowsOf, RowsWritten, Produced,
     RunInv, TypeOK, Locals, store, NoRun, store, bounds
<1>5. CASE CheckPending
  BY <1>5 DEF CheckPending, Goto, Return, RowsAreStamped, RowsOf, RowsWritten, Produced,
     RunInv, TypeOK, Locals, store, NoRun, store, bounds
<1>6. CASE Preflight
  BY <1>6 DEF Preflight, Goto, RowsAreStamped, RowsOf, RowsWritten, Produced, RunInv,
     TypeOK, Locals, store, store, bounds
<1>7. CASE PreflightFails
  BY <1>7 DEF PreflightFails, Goto, Return, May, RowsAreStamped, RowsOf, RowsWritten,
     Produced, RunInv, TypeOK, Locals, store, NoRun, store, bounds
<1>8. CASE Diff
  BY <1>8 DEF Diff, Goto, Return, RowsAreStamped, RowsOf, RowsWritten, Produced, RunInv,
     TypeOK, Locals, store, NoRun, store, bounds
<1>9. CASE Snapshot
  BY <1>9 DEF Snapshot, Goto, RowsAreStamped, RowsOf, RowsWritten, Produced, RunInv, TypeOK,
     Locals, store, store, bounds
<1>10. CASE Parse
  <2>1. /\ pc = "parse" /\ pc' = "plan" /\ UNCHANGED <<disk, node>>
        /\ run' = [run EXCEPT !.parsed = [h \in Files |-> IF run.snapshot[h] # None THEN disk[h] ELSE None]]
    BY <1>10 DEF Parse, Goto, Unreadable, May, store
  <2>2. /\ run'.snapshot = run.snapshot /\ run'.unchanged = run.unchanged
        /\ run'.parsed[g] = IF run.snapshot[g] # None THEN disk[g] ELSE None
    BY <2>1 DEF TypeOK
  <2>3. QED
    BY <2>1, <2>2 DEF RowsAreStamped, RowsOf, RowsWritten
<1>11. CASE GateRefuses
  BY <1>11 DEF GateRefuses, Goto, Return, May, RowsAreStamped, RowsOf, RowsWritten,
     Produced, RunInv, TypeOK, Locals, store, NoRun, store, bounds
<1>12. CASE PlanReconcile
  BY <1>12 DEF PlanReconcile, Goto, Produced, RowsAreStamped, RowsOf, RowsWritten, Produced,
     RunInv, TypeOK, Locals, store, store, bounds
<1>13. ASSUME NEW f \in Files, Upsert(f)
      PROVE  RowsAreStamped(g)'
  <2>1. pc = "upsert" /\ pc' = pc /\ f \in todo /\ todo' = todo \ {f}
        /\ UNCHANGED <<world, disk, chunks, loose, run, bounds>>
    BY <1>13 DEF Upsert, Next1
  <2>2. node'[g].ck = node[g].ck /\ (node'[g].rows = node[g].rows \/ (g = f /\ node'[g].rows = run.parsed[g]))
        /\ (g = f => g \in run.unchanged \/ node'[g].rows = run.parsed[g])
    BY <1>13, <1>0, UpsertRow
  <2>3. RowsWritten(g)'
    BY <2>1, <2>2 DEF RowsAreStamped, RowsWritten, Produced
  <2>4. disk[g] # None => RowsOf(g)'
    BY <2>1, <2>2 DEF RowsAreStamped, RowsOf
  <2>5. QED
    BY <2>1, <2>3, <2>4 DEF RowsAreStamped
<1>14. CASE DeleteStale
  <2>1. pc = "upsert" /\ todo = {} /\ pc' = "hash" /\ todo' = {}
        /\ UNCHANGED <<world, disk, run, bounds>>
    BY <1>14 DEF DeleteStale, Goto
  <2>2. CASE g \in run.confirmed_deleted
    <3>1. node'[g].ck = None /\ node'[g].rows = None
      BY <1>14, <2>2, <1>0, DeleteStaleRow DEF NoNode
    <3>2. g \notin Produced
      BY <2>1, <2>2 DEF PlanIsApart
    <3>3. QED
      BY <2>1, <3>1, <3>2 DEF RowsAreStamped, RowsOf, RowsWritten, Produced
  <2>3. CASE g \notin run.confirmed_deleted
    <3>1. node'[g] = node[g]
      BY <1>14, <2>3, <1>0, DeleteStaleRow
    <3>2. QED
      BY <2>1, <3>1 DEF RowsAreStamped, RowsOf, RowsWritten, Produced
  <2>4. QED
    BY <2>2, <2>3
<1>15. CASE HashInputs
  BY <1>15 DEF HashInputs, Produced, InputHash, RowsAreStamped, RowsOf, RowsWritten,
     Produced, RunInv, TypeOK, Locals, store, store, bounds
<1>16. ASSUME NEW f \in Files, Summarize(f)
      PROVE  RowsAreStamped(g)'
  <2>1. Settle(f, IF disk[f] # None THEN disk[f] ELSE Fallback(f), run.draft[f].hash, {f})
    BY <1>16 DEF Summarize, Source
  <2>2. pc = "summarize" /\ pc' = pc /\ f \in todo /\ todo' = todo \ {f}
        /\ UNCHANGED <<world, disk, chunks, loose, bounds>>
    BY <1>16 DEF Summarize, Settle, Next1
  <2>3. /\ node'[g].rows = node[g].rows /\ node'[g].ck = node[g].ck
        /\ node'[g].vec = node[g].vec
        /\ node'[g].vecHash = node[g].vecHash /\ node'[g].marker = node[g].marker
        /\ run'.snapshot = run.snapshot /\ run'.parsed = run.parsed
        /\ run'.unchanged = run.unchanged
        /\ run'.confirmed_deleted = run.confirmed_deleted
        /\ run'.reconcilable = run.reconcilable
        /\ run'.run_files = run.run_files /\ run'.read = run.read
        /\ run'.repairing = run.repairing
    BY <2>1, <1>0, SettleRow, SettleRun
  <2>4. CASE g # f
    <3>1. node'[g].sum = node[g].sum /\ node'[g].hash = node[g].hash
          /\ run'.draft[g] = run.draft[g]
      BY <2>1, <2>4, <1>0, SettleRow, SettleDraft
    <3>2. QED
      BY <2>2, <2>3, <2>4, <3>1 DEF RowsAreStamped, RowsOf, RowsWritten, Produced
  <2>5. CASE g = f
    <3>1. run'.draft[g].sum = (IF disk[g] # None THEN disk[g] ELSE Fallback(g)) /\ run'.draft[g].hash = run.draft[g].hash
      BY <2>1, <2>5, <1>0, SettleDraft
    <3>2. /\ run'.draft[g].sum = None => node'[g].sum = node[g].sum /\ node'[g].hash = node[g].hash
          /\ run'.draft[g].sum # None => node'[g].sum = run'.draft[g].sum /\ node'[g].hash = run.draft[g].hash
      BY <2>1, <2>5, <3>1, <1>0, SettleRow
    <3>3. QED
      BY <2>2, <2>3, <2>5, <3>1, <3>2 DEF RowsAreStamped, RowsOf, RowsWritten, Produced
  <2>6. QED
    BY <2>4, <2>5
<1>17. ASSUME NEW f \in Files, SummarizeFails(f)
      PROVE  RowsAreStamped(g)'
  <2>1. PICK sum \in Text, dirty \in SUBSET Files : Settle(f, sum, None, dirty)
    BY <1>17, HashTypes DEF SummarizeFails, RetryHash, RunInv
  <2>2. pc = "summarize" /\ pc' = pc /\ f \in todo /\ todo' = todo \ {f}
        /\ UNCHANGED <<world, disk, chunks, loose, edits>>
    BY <1>17 DEF SummarizeFails, Settle, Next1, Fault
  <2>3. /\ node'[g].rows = node[g].rows /\ node'[g].ck = node[g].ck
        /\ node'[g].vec = node[g].vec
        /\ node'[g].vecHash = node[g].vecHash /\ node'[g].marker = node[g].marker
        /\ run'.snapshot = run.snapshot /\ run'.parsed = run.parsed
        /\ run'.unchanged = run.unchanged
        /\ run'.confirmed_deleted = run.confirmed_deleted
        /\ run'.reconcilable = run.reconcilable
        /\ run'.run_files = run.run_files /\ run'.read = run.read
        /\ run'.repairing = run.repairing
    BY <2>1, <1>0, SettleRow, SettleRun
  <2>4. CASE g # f
    <3>1. node'[g].sum = node[g].sum /\ node'[g].hash = node[g].hash
          /\ run'.draft[g] = run.draft[g]
      BY <2>1, <2>4, <1>0, SettleRow, SettleDraft
    <3>2. QED
      BY <2>2, <2>3, <2>4, <3>1 DEF RowsAreStamped, RowsOf, RowsWritten, Produced
  <2>5. CASE g = f
    <3>1. run'.draft[g].sum = sum /\ run'.draft[g].hash = None
      BY <2>1, <2>5, <1>0, SettleDraft
    <3>2. /\ run'.draft[g].sum = None => node'[g].sum = node[g].sum /\ node'[g].hash = node[g].hash
          /\ run'.draft[g].sum # None => node'[g].sum = run'.draft[g].sum /\ node'[g].hash = None
      BY <2>1, <2>5, <3>1, <1>0, SettleRow
    <3>3. QED
      BY <2>2, <2>3, <2>5, <3>1, <3>2 DEF RowsAreStamped, RowsOf, RowsWritten, Produced
  <2>6. QED
    BY <2>4, <2>5
<1>18. CASE UpdateChecksums
  <2>1. pc = "summarize" /\ todo = {} /\ todo' = {} /\ ~run.repairing
        /\ \/ pc' = "idle" /\ run' = NoRun
           \/ pc' = "repair" /\ run' = run
           \/ /\ pc' = "chunk" /\ run'.run_files = Produced
              /\ run'.snapshot = run.snapshot /\ run'.parsed = run.parsed
              /\ run'.unchanged = run.unchanged
              /\ run'.confirmed_deleted = run.confirmed_deleted
              /\ run'.reconcilable = run.reconcilable /\ run'.read = run.read
              /\ run'.draft = run.draft /\ run'.dirty = run.dirty
              /\ run'.failed = run.failed
              /\ run'.settled = run.settled /\ run'.gone = run.gone
              /\ run'.repairing = run.repairing
              /\ run'.mode = run.mode
        /\ UNCHANGED <<world, disk, chunks, loose, bounds>>
    BY <1>18 DEF UpdateChecksums, Goto, Return, RunInv, LoopsAreSound, TypeOK, Locals,
       bounds
  <2>2. /\ node'[g].rows = node[g].rows
        /\ node'[g].ck = IF g \in Stored \ run.unchanged /\ run.snapshot[g] # None
                            THEN run.snapshot[g] ELSE node[g].ck
    BY <1>18, <1>0, UpdateChecksumsRow
  <2>3. pc = "summarize" /\ pc' \in {"idle", "repair", "chunk"} /\ todo = {} /\ disk' = disk
    BY <2>1
  <2>4. QED
    BY <2>2, <2>3 DEF RowsAreStamped, RowsOf, RowsWritten, Produced
<1>19. CASE ReadChunks
  BY <1>19 DEF ReadChunks, Goto, RowsAreStamped, RowsOf, RowsWritten, Produced, RunInv,
     TypeOK, Locals, store, store, bounds
<1>20. ASSUME NEW f \in Files, StoreChunk(f)
      PROVE  RowsAreStamped(g)'
  <2>1. pc = "store" /\ pc' = pc /\ f \in todo /\ todo' = todo \ {f}
        /\ run'.snapshot = run.snapshot /\ run'.parsed = run.parsed
        /\ run'.unchanged = run.unchanged
        /\ run'.confirmed_deleted = run.confirmed_deleted
        /\ run'.reconcilable = run.reconcilable /\ run'.run_files = run.run_files
        /\ run'.read = run.read /\ run'.draft = run.draft /\ run'.dirty = run.dirty
        /\ run'.failed = run.failed /\ run'.settled = run.settled /\ run'.gone = run.gone
        /\ run'.repairing = run.repairing /\ run'.mode = run.mode
        /\ UNCHANGED <<world, disk, node, bounds>>
    BY <1>20 DEF StoreChunk, Next1, RunInv, TypeOK, Locals
  <2>9. QED
    BY <1>20, <2>1 DEF RowsAreStamped, RowsOf, RowsWritten
<1>21. ASSUME NEW f \in Files, StoreChunkFails(f)
      PROVE  RowsAreStamped(g)'
  BY <1>21 DEF StoreChunkFails, Next1, RowsAreStamped, RowsOf, RowsWritten, Produced,
     RunInv, TypeOK, Locals, store, store, bounds
<1>22. CASE PruneStaleChunks
  <2>1. pc = "store" /\ todo = {} /\ pc' = (IF AllStored THEN "mark" ELSE "embed")
        /\ UNCHANGED <<world, disk, node, run, bounds>>
    BY <1>22 DEF PruneStaleChunks, Goto, GotoEmbed
  <2>9. QED
    BY <1>22, <2>1 DEF RowsAreStamped, RowsOf, RowsWritten
<1>23. CASE MarkChunksCovered
  <2>1. pc = "mark" /\ pc' = "embed"
        /\ UNCHANGED <<world, disk, chunks, loose, run, bounds>>
    BY <1>23 DEF MarkChunksCovered, Goto, GotoEmbed
  <2>9. QED
    BY <1>23, <2>1, MarkChunksCoveredRow, <1>0 DEF RowsAreStamped, RowsOf, RowsWritten
<1>24. ASSUME NEW f \in Files, EmbedSummary(f)
      PROVE  RowsAreStamped(g)'
  <2>1. pc = "embed" /\ pc' = pc /\ f \in todo /\ todo' = todo \ {f}
        /\ run'.snapshot = run.snapshot /\ run'.parsed = run.parsed
        /\ run'.unchanged = run.unchanged
        /\ run'.confirmed_deleted = run.confirmed_deleted
        /\ run'.reconcilable = run.reconcilable /\ run'.run_files = run.run_files
        /\ run'.read = run.read /\ run'.draft = run.draft /\ run'.dirty = run.dirty
        /\ run'.failed = run.failed /\ run'.settled = run.settled /\ run'.gone = run.gone
        /\ run'.repairing = run.repairing /\ run'.mode = run.mode
        /\ UNCHANGED <<world, disk, chunks, loose, bounds>>
    BY <1>24 DEF EmbedSummary, Next1, RunInv, TypeOK, Locals
  <2>2. /\ node'[g].rows = node[g].rows /\ node'[g].ck = node[g].ck
        /\ node'[g].sum = node[g].sum
        /\ node'[g].hash = node[g].hash /\ node'[g].marker = node[g].marker
    BY <1>24, <1>0, EmbedSummaryRow
  <2>3. CASE g # f \/ FreshVector(f)
    <3>1. node'[g].vec = node[g].vec /\ node'[g].vecHash = node[g].vecHash
      BY <1>24, <2>3, <1>0, EmbedSummaryRow
    <3>2. QED
      BY <2>1, <2>2, <3>1 DEF RowsAreStamped, RowsOf, RowsWritten
  <2>4. CASE g = f /\ ~FreshVector(f)
    <3>1. node'[g].vec = Draft(g).sum /\ node'[g].vecHash = Draft(g).hash
      BY <1>24, <2>4, <1>0, EmbedSummaryRow
    <3>2. Draft(g).sum # None
      BY <2>1, <2>4 DEF RunInv, LoopsAreSound
    <3>3. QED
      BY <2>1, <2>2, <3>1, <3>2 DEF RowsAreStamped, RowsOf, RowsWritten
  <2>5. QED
    BY <2>3, <2>4
<1>25. ASSUME NEW f \in Files, EmbedSummaryFails(f)
      PROVE  RowsAreStamped(g)'
  BY <1>25 DEF EmbedSummaryFails, Next1, RowsAreStamped, RowsOf, RowsWritten, Produced,
     RunInv, TypeOK, Locals, store, store, bounds
<1>26. CASE Finish
  BY <1>26 DEF Finish, Goto, Return, RowsAreStamped, RowsOf, RowsWritten, Produced, RunInv,
     TypeOK, Locals, store, NoRun, store, bounds
<1>27. CASE AskForMissing
  BY <1>27 DEF AskForMissing, Goto, RowsAreStamped, RowsOf, RowsWritten, Produced, RunInv,
     TypeOK, Locals, store, store, bounds
<1>28. ASSUME NEW f \in Files, Answer(f)
      PROVE  RowsAreStamped(g)'
  BY <1>28, AnswerDraft DEF Answer, Next1, RowsAreStamped, RowsOf, RowsWritten, Produced,
     RunInv, TypeOK, Locals, store, store, bounds
<1>29. ASSUME NEW f \in Files, AnswerFails(f)
      PROVE  RowsAreStamped(g)'
  BY <1>29, AnswerFailsDraft DEF AnswerFails, Next1, RowsAreStamped, RowsOf, RowsWritten,
     Produced, RunInv, TypeOK, Locals, store, store, bounds
<1>30. CASE StoreRepaired
  <2>1. pc = "answer" /\ todo = {} /\ pc' = "rechunk" /\ todo' = {}
        /\ UNCHANGED <<world, disk, chunks, loose, run, bounds>>
    BY <1>30 DEF StoreRepaired, Goto, bounds
  <2>9. QED
    BY <1>30, <2>1, StoreRepairedRow, <1>0 DEF RowsAreStamped, RowsOf, RowsWritten
<1>31. CASE RepairChunks
  BY <1>31 DEF RepairChunks, Goto, RowsAreStamped, RowsOf, RowsWritten, Produced, RunInv,
     TypeOK, Locals, store, store, bounds
<1>32. CASE Crash
  BY <1>32 DEF Crash, Goto, Return, May, RowsAreStamped, RowsOf, RowsWritten, Produced,
     RunInv, TypeOK, Locals, store, NoRun, store, bounds
<1>33. CASE UNCHANGED vars
  BY <1>33 DEF vars, store, RowsAreStamped, RowsOf, RowsWritten, Produced
<1>34. QED
  BY <1>1, <1>2, <1>3, <1>4, <1>5, <1>6, <1>7, <1>8, <1>9, <1>10, <1>11, <1>12, <1>13,
     <1>14, <1>15, <1>16, <1>17, <1>18, <1>19, <1>20, <1>21, <1>22, <1>23, <1>24, <1>25,
     <1>26, <1>27, <1>28, <1>29, <1>30, <1>31, <1>32, <1>33 DEF Next, RunStep, FileStep

-----------------------------------------------------------------------------
(* The coverage marker.                                                      *)

\* A marker that is the file's is that of its one chunk; a run that might renew
\* it has read those bytes.
ChunksOf(f) ==
  /\ node[f].marker = disk[f] => chunks[f] = {disk[f]} /\ loose[f] \subseteq {disk[f]}
  /\ pc \in {"store", "mark"} /\ f \in run.run_files /\ disk[f] \in {node[f].marker, node[f].ck} =>
       run.read[f] = disk[f]

\* Files are marked when each has the chunk that was read, and no other.
ChunksPruned(f) ==
  pc = "mark" /\ f \in run.run_files => chunks[f] = {run.read[f]} /\ loose[f] = {}

ChunksAreMarked(f) == (disk[f] # None => ChunksOf(f)) /\ ChunksPruned(f)

\* A marker is renewed only on chunks that were pruned to the bytes read.
LEMMA ChunksKept ==
  ASSUME RunInv, ~world.reverts, NEW g \in Files,
         OldNames(g), PlanIsApart(g), ChunksAreMarked(g), [Next]_vars
  PROVE  ChunksAreMarked(g)'
<1>0. TypeOK
  BY DEF RunInv
<1>1. ASSUME NEW f \in Files, Edit(f)
      PROVE  ChunksAreMarked(g)'
  <2>1. disk'[g] = disk[g] \/ disk'[g] = None \/ disk'[g] \notin Old
    BY <1>1, <1>0, NewBytes
  <2>2. /\ UNCHANGED <<node, chunks, loose, pc, todo>>
        /\ run'.run_files = run.run_files /\ run'.read = run.read
    BY <1>1, <1>0, EditFrame
  <2>3. QED
    BY <2>1, <2>2 DEF ChunksAreMarked, ChunksOf, ChunksPruned, OldNames
<1>2. CASE StartIndex
  BY <1>2 DEF StartIndex, Begin, ChunksAreMarked, ChunksOf, ChunksPruned, RunInv, TypeOK,
     Locals, store, NoRun, store, bounds
<1>3. CASE StartForce
  BY <1>3 DEF StartForce, Begin, ChunksAreMarked, ChunksOf, ChunksPruned, RunInv, TypeOK,
     Locals, store, NoRun, store, bounds
<1>4. CASE StartFlush
  BY <1>4 DEF StartFlush, Begin, ChunksAreMarked, ChunksOf, ChunksPruned, RunInv, TypeOK,
     Locals, store, NoRun, store, bounds
<1>5. CASE CheckPending
  BY <1>5 DEF CheckPending, Goto, Return, ChunksAreMarked, ChunksOf, ChunksPruned, RunInv,
     TypeOK, Locals, store, NoRun, store, bounds
<1>6. CASE Preflight
  BY <1>6 DEF Preflight, Goto, ChunksAreMarked, ChunksOf, ChunksPruned, RunInv, TypeOK,
     Locals, store, store, bounds
<1>7. CASE PreflightFails
  BY <1>7 DEF PreflightFails, Return, May, ChunksAreMarked, ChunksOf, ChunksPruned, RunInv,
     TypeOK, Locals, store, NoRun, store, bounds
<1>8. CASE Diff
  BY <1>8 DEF Diff, Goto, Return, ChunksAreMarked, ChunksOf, ChunksPruned, RunInv, TypeOK,
     Locals, store, NoRun, store, bounds
<1>9. CASE Snapshot
  BY <1>9 DEF Snapshot, Goto, ChunksAreMarked, ChunksOf, ChunksPruned, RunInv, TypeOK,
     Locals, store, store, bounds
<1>10. CASE Parse
  BY <1>10 DEF Parse, Goto, ChunksAreMarked, ChunksOf, ChunksPruned, RunInv, TypeOK, Locals,
     store, store, bounds
<1>11. CASE GateRefuses
  BY <1>11 DEF GateRefuses, Return, May, ChunksAreMarked, ChunksOf, ChunksPruned, RunInv,
     TypeOK, Locals, store, NoRun, store, bounds
<1>12. CASE PlanReconcile
  BY <1>12 DEF PlanReconcile, Goto, ChunksAreMarked, ChunksOf, ChunksPruned, RunInv, TypeOK,
     Locals, store, store, bounds
<1>13. ASSUME NEW f \in Files, Upsert(f)
      PROVE  ChunksAreMarked(g)'
  <2>1. pc = "upsert" /\ pc' = pc /\ f \in todo /\ todo' = todo \ {f}
        /\ UNCHANGED <<world, disk, chunks, loose, run, bounds>>
    BY <1>13 DEF Upsert, Next1
  <2>9. QED
    BY <1>13, <2>1, UpsertRow, <1>0 DEF ChunksAreMarked, ChunksOf, ChunksPruned
<1>14. CASE DeleteStale
  <2>1. pc = "upsert" /\ todo = {} /\ pc' = "hash" /\ todo' = {}
        /\ UNCHANGED <<world, disk, run, bounds>>
    BY <1>14 DEF DeleteStale, Goto
  <2>9. QED
    BY <1>14, <2>1, DeleteStaleRow, <1>0 DEF ChunksAreMarked, ChunksOf, ChunksPruned, NoNode
<1>15. CASE HashInputs
  BY <1>15 DEF HashInputs, Goto, ChunksAreMarked, ChunksOf, ChunksPruned, RunInv, TypeOK,
     Locals, store, store, bounds
<1>16. ASSUME NEW f \in Files, Summarize(f)
      PROVE  ChunksAreMarked(g)'
  <2>1. Settle(f, IF disk[f] # None THEN disk[f] ELSE Fallback(f), run.draft[f].hash, {f})
    BY <1>16 DEF Summarize, Source
  <2>2. pc = "summarize" /\ pc' = pc /\ f \in todo /\ todo' = todo \ {f}
        /\ UNCHANGED <<world, disk, chunks, loose, bounds>>
    BY <1>16 DEF Summarize, Settle, Next1
  <2>3. /\ node'[g].rows = node[g].rows /\ node'[g].ck = node[g].ck
        /\ node'[g].vec = node[g].vec
        /\ node'[g].vecHash = node[g].vecHash /\ node'[g].marker = node[g].marker
        /\ run'.snapshot = run.snapshot /\ run'.parsed = run.parsed
        /\ run'.unchanged = run.unchanged
        /\ run'.confirmed_deleted = run.confirmed_deleted
        /\ run'.reconcilable = run.reconcilable
        /\ run'.run_files = run.run_files /\ run'.read = run.read
        /\ run'.repairing = run.repairing
    BY <2>1, <1>0, SettleRow, SettleRun
  <2>4. CASE g # f
    <3>1. node'[g].sum = node[g].sum /\ node'[g].hash = node[g].hash
          /\ run'.draft[g] = run.draft[g]
      BY <2>1, <2>4, <1>0, SettleRow, SettleDraft
    <3>2. QED
      BY <2>2, <2>3, <2>4, <3>1 DEF ChunksAreMarked, ChunksOf, ChunksPruned
  <2>5. CASE g = f
    <3>1. run'.draft[g].sum = (IF disk[g] # None THEN disk[g] ELSE Fallback(g)) /\ run'.draft[g].hash = run.draft[g].hash
      BY <2>1, <2>5, <1>0, SettleDraft
    <3>2. /\ run'.draft[g].sum = None => node'[g].sum = node[g].sum /\ node'[g].hash = node[g].hash
          /\ run'.draft[g].sum # None => node'[g].sum = run'.draft[g].sum /\ node'[g].hash = run.draft[g].hash
      BY <2>1, <2>5, <3>1, <1>0, SettleRow
    <3>3. QED
      BY <2>2, <2>3, <2>5, <3>1, <3>2 DEF ChunksAreMarked, ChunksOf, ChunksPruned
  <2>6. QED
    BY <2>4, <2>5
<1>17. ASSUME NEW f \in Files, SummarizeFails(f)
      PROVE  ChunksAreMarked(g)'
  <2>1. PICK sum \in Text, dirty \in SUBSET Files : Settle(f, sum, None, dirty)
    BY <1>17, HashTypes DEF SummarizeFails, RetryHash, RunInv
  <2>2. pc = "summarize" /\ pc' = pc /\ f \in todo /\ todo' = todo \ {f}
        /\ UNCHANGED <<world, disk, chunks, loose, edits>>
    BY <1>17 DEF SummarizeFails, Settle, Next1, Fault
  <2>3. /\ node'[g].rows = node[g].rows /\ node'[g].ck = node[g].ck
        /\ node'[g].vec = node[g].vec
        /\ node'[g].vecHash = node[g].vecHash /\ node'[g].marker = node[g].marker
        /\ run'.snapshot = run.snapshot /\ run'.parsed = run.parsed
        /\ run'.unchanged = run.unchanged
        /\ run'.confirmed_deleted = run.confirmed_deleted
        /\ run'.reconcilable = run.reconcilable
        /\ run'.run_files = run.run_files /\ run'.read = run.read
        /\ run'.repairing = run.repairing
    BY <2>1, <1>0, SettleRow, SettleRun
  <2>4. CASE g # f
    <3>1. node'[g].sum = node[g].sum /\ node'[g].hash = node[g].hash
          /\ run'.draft[g] = run.draft[g]
      BY <2>1, <2>4, <1>0, SettleRow, SettleDraft
    <3>2. QED
      BY <2>2, <2>3, <2>4, <3>1 DEF ChunksAreMarked, ChunksOf, ChunksPruned
  <2>5. CASE g = f
    <3>1. run'.draft[g].sum = sum /\ run'.draft[g].hash = None
      BY <2>1, <2>5, <1>0, SettleDraft
    <3>2. /\ run'.draft[g].sum = None => node'[g].sum = node[g].sum /\ node'[g].hash = node[g].hash
          /\ run'.draft[g].sum # None => node'[g].sum = run'.draft[g].sum /\ node'[g].hash = None
      BY <2>1, <2>5, <3>1, <1>0, SettleRow
    <3>3. QED
      BY <2>2, <2>3, <2>5, <3>1, <3>2 DEF ChunksAreMarked, ChunksOf, ChunksPruned
  <2>6. QED
    BY <2>4, <2>5
<1>18. CASE UpdateChecksums
  <2>1. pc = "summarize" /\ todo = {} /\ todo' = {} /\ ~run.repairing
        /\ \/ pc' = "idle" /\ run' = NoRun
           \/ pc' = "repair" /\ run' = run
           \/ /\ pc' = "chunk" /\ run'.run_files = Produced
              /\ run'.snapshot = run.snapshot /\ run'.parsed = run.parsed
              /\ run'.unchanged = run.unchanged
              /\ run'.confirmed_deleted = run.confirmed_deleted
              /\ run'.reconcilable = run.reconcilable /\ run'.read = run.read
              /\ run'.draft = run.draft /\ run'.dirty = run.dirty
              /\ run'.failed = run.failed
              /\ run'.settled = run.settled /\ run'.gone = run.gone
              /\ run'.repairing = run.repairing
              /\ run'.mode = run.mode
        /\ UNCHANGED <<world, disk, chunks, loose, bounds>>
    BY <1>18 DEF UpdateChecksums, Goto, Return, RunInv, LoopsAreSound, TypeOK, Locals,
       bounds
  <2>9. QED
    BY <1>18, <2>1, UpdateChecksumsRow, <1>0 DEF ChunksAreMarked, ChunksOf, ChunksPruned
<1>19. CASE ReadChunks
  <2>1. PICK S \in SUBSET run.run_files :
          run' = [run EXCEPT !.read = [h \in Files |-> IF h \in S THEN disk[h] ELSE None],
                             !.run_files = S, !.reconcilable = @ \ (run.run_files \ S)]
    BY <1>19 DEF ReadChunks
  <2>2. pc' = "store" /\ UNCHANGED <<disk, node, chunks, loose>>
    BY <1>19 DEF ReadChunks, Goto, store
  <2>3. run'.run_files = S /\ (g \in S => run'.read[g] = disk[g])
    BY <2>1 DEF TypeOK
  <2>4. QED
    BY <2>2, <2>3 DEF ChunksAreMarked, ChunksOf, ChunksPruned
<1>20. ASSUME NEW f \in Files, StoreChunk(f)
      PROVE  ChunksAreMarked(g)'
  <2>1. pc = "store" /\ pc' = pc /\ f \in todo /\ todo' = todo \ {f}
        /\ run'.snapshot = run.snapshot /\ run'.parsed = run.parsed
        /\ run'.unchanged = run.unchanged
        /\ run'.confirmed_deleted = run.confirmed_deleted
        /\ run'.reconcilable = run.reconcilable /\ run'.run_files = run.run_files
        /\ run'.read = run.read /\ run'.draft = run.draft /\ run'.dirty = run.dirty
        /\ run'.failed = run.failed /\ run'.settled = run.settled /\ run'.gone = run.gone
        /\ run'.repairing = run.repairing /\ run'.mode = run.mode
        /\ UNCHANGED <<world, disk, node, bounds>>
    BY <1>20 DEF StoreChunk, Next1, RunInv, TypeOK, Locals
  <2>2. ChunksPruned(g)'
    BY <2>1 DEF ChunksPruned
  <2>3. ASSUME disk[g] # None PROVE ChunksOf(g)'
    <3>1. CASE node[g].marker = disk[g]
      <4>1. g = f => SkipChunk(f)
        <5>1. g = f => run.read[g] = disk[g] /\ chunks[g] = {disk[g]}
          BY <2>1, <2>3, <3>1 DEF ChunksAreMarked, ChunksOf, RunInv, LoopsAreSound
        <5>2. QED
          BY <5>1 DEF SkipChunk
      <4>2. chunks'[g] = chunks[g] /\ loose'[g] = loose[g]
        BY <1>20, <1>0, <4>1, StoreChunkRow
      <4>3. QED
        BY <2>1, <2>3, <4>2 DEF ChunksAreMarked, ChunksOf
    <3>2. CASE node[g].marker # disk[g]
      BY <2>1, <2>3, <3>2 DEF ChunksAreMarked, ChunksOf
    <3>3. QED
      BY <3>1, <3>2
  <2>4. QED
    BY <2>1, <2>2, <2>3 DEF ChunksAreMarked
<1>21. ASSUME NEW f \in Files, StoreChunkFails(f)
      PROVE  ChunksAreMarked(g)'
  BY <1>21 DEF StoreChunkFails, Next1, ChunksAreMarked, ChunksOf, ChunksPruned, RunInv,
     TypeOK, Locals, store, store, bounds
<1>22. CASE PruneStaleChunks
  <2>1. pc = "store" /\ todo = {} /\ pc' = (IF AllStored THEN "mark" ELSE "embed")
        /\ UNCHANGED <<world, disk, node, run, bounds>>
    BY <1>22 DEF PruneStaleChunks, Goto, GotoEmbed
  <2>2. CASE ~AllStored
    <3>1. chunks'[g] = chunks[g] /\ loose'[g] = loose[g]
      BY <1>22, <2>2, <1>0, PruneStaleChunksRow
    <3>2. QED
      BY <2>1, <2>2, <3>1 DEF ChunksAreMarked, ChunksOf, ChunksPruned
  <2>3. CASE AllStored /\ g \in run.run_files
    <3>1. g \in run.reconcilable
      BY <2>1, <2>3 DEF PlanIsApart
    <3>2. chunks'[g] = chunks[g] \cap {run.read[g]} /\ loose'[g] = {}
      BY <1>22, <2>3, <3>1, <1>0, PruneStaleChunksRow
    <3>3. run.read[g] \in chunks[g]
      BY <2>1, <2>3 DEF RunInv, PruneIsCovered, AllStored
    <3>4. chunks'[g] = {run.read[g]}
      BY <3>2, <3>3
    <3>5. QED
      BY <2>1, <2>3, <3>2, <3>4 DEF ChunksAreMarked, ChunksOf, ChunksPruned
  <2>4. CASE AllStored /\ g \in run.reconcilable \ run.run_files
    <3>1. node[g].marker = None
      BY <2>1, <2>4 DEF PlanIsApart, Erased
    <3>2. QED
      BY <2>1, <2>4, <3>1 DEF ChunksAreMarked, ChunksOf, ChunksPruned
  <2>5. CASE AllStored /\ g \notin run.reconcilable /\ g \notin run.run_files
    <3>1. chunks'[g] = chunks[g] /\ loose'[g] = loose[g]
      BY <1>22, <2>5, <1>0, PruneStaleChunksRow
    <3>2. QED
      BY <2>1, <2>5, <3>1 DEF ChunksAreMarked, ChunksOf, ChunksPruned
  <2>6. QED
    BY <2>2, <2>3, <2>4, <2>5
<1>23. CASE MarkChunksCovered
  <2>1. pc = "mark" /\ pc' = "embed"
        /\ UNCHANGED <<world, disk, chunks, loose, run, bounds>>
    BY <1>23 DEF MarkChunksCovered, Goto, GotoEmbed
  <2>9. QED
    BY <1>23, <2>1, MarkChunksCoveredRow, <1>0 DEF ChunksAreMarked, ChunksOf, ChunksPruned
<1>24. ASSUME NEW f \in Files, EmbedSummary(f)
      PROVE  ChunksAreMarked(g)'
  <2>1. pc = "embed" /\ pc' = pc /\ f \in todo /\ todo' = todo \ {f}
        /\ run'.snapshot = run.snapshot /\ run'.parsed = run.parsed
        /\ run'.unchanged = run.unchanged
        /\ run'.confirmed_deleted = run.confirmed_deleted
        /\ run'.reconcilable = run.reconcilable /\ run'.run_files = run.run_files
        /\ run'.read = run.read /\ run'.draft = run.draft /\ run'.dirty = run.dirty
        /\ run'.failed = run.failed /\ run'.settled = run.settled /\ run'.gone = run.gone
        /\ run'.repairing = run.repairing /\ run'.mode = run.mode
        /\ UNCHANGED <<world, disk, chunks, loose, bounds>>
    BY <1>24 DEF EmbedSummary, Next1, RunInv, TypeOK, Locals
  <2>2. /\ node'[g].rows = node[g].rows /\ node'[g].ck = node[g].ck
        /\ node'[g].sum = node[g].sum
        /\ node'[g].hash = node[g].hash /\ node'[g].marker = node[g].marker
    BY <1>24, <1>0, EmbedSummaryRow
  <2>3. CASE g # f \/ FreshVector(f)
    <3>1. node'[g].vec = node[g].vec /\ node'[g].vecHash = node[g].vecHash
      BY <1>24, <2>3, <1>0, EmbedSummaryRow
    <3>2. QED
      BY <2>1, <2>2, <3>1 DEF ChunksAreMarked, ChunksOf, ChunksPruned
  <2>4. CASE g = f /\ ~FreshVector(f)
    <3>1. node'[g].vec = Draft(g).sum /\ node'[g].vecHash = Draft(g).hash
      BY <1>24, <2>4, <1>0, EmbedSummaryRow
    <3>2. Draft(g).sum # None
      BY <2>1, <2>4 DEF RunInv, LoopsAreSound
    <3>3. QED
      BY <2>1, <2>2, <3>1, <3>2 DEF ChunksAreMarked, ChunksOf, ChunksPruned
  <2>5. QED
    BY <2>3, <2>4
<1>25. ASSUME NEW f \in Files, EmbedSummaryFails(f)
      PROVE  ChunksAreMarked(g)'
  BY <1>25 DEF EmbedSummaryFails, Next1, ChunksAreMarked, ChunksOf, ChunksPruned, RunInv,
     TypeOK, Locals, store, store, bounds
<1>26. CASE Finish
  BY <1>26 DEF Finish, Return, ChunksAreMarked, ChunksOf, ChunksPruned, RunInv, TypeOK,
     Locals, store, NoRun, store, bounds
<1>27. CASE AskForMissing
  BY <1>27 DEF AskForMissing, Goto, ChunksAreMarked, ChunksOf, ChunksPruned, RunInv, TypeOK,
     Locals, store, store, bounds
<1>28. ASSUME NEW f \in Files, Answer(f)
      PROVE  ChunksAreMarked(g)'
  BY <1>28, AnswerDraft DEF Answer, Next1, ChunksAreMarked, ChunksOf, ChunksPruned, RunInv,
     TypeOK, Locals, store, store, bounds
<1>29. ASSUME NEW f \in Files, AnswerFails(f)
      PROVE  ChunksAreMarked(g)'
  BY <1>29, AnswerFailsDraft DEF AnswerFails, Next1, ChunksAreMarked, ChunksOf,
     ChunksPruned, RunInv, TypeOK, Locals, store, store, bounds
<1>30. CASE StoreRepaired
  <2>1. pc = "answer" /\ todo = {} /\ pc' = "rechunk" /\ todo' = {}
        /\ UNCHANGED <<world, disk, chunks, loose, run, bounds>>
    BY <1>30 DEF StoreRepaired, Goto, bounds
  <2>9. QED
    BY <1>30, <2>1, StoreRepairedRow, <1>0 DEF ChunksAreMarked, ChunksOf, ChunksPruned
<1>31. CASE RepairChunks
  BY <1>31 DEF RepairChunks, Goto, ChunksAreMarked, ChunksOf, ChunksPruned, RunInv, TypeOK,
     Locals, store, store, bounds
<1>32. CASE Crash
  BY <1>32 DEF Crash, Return, May, ChunksAreMarked, ChunksOf, ChunksPruned, RunInv, TypeOK,
     Locals, store, NoRun, store, bounds
<1>33. CASE UNCHANGED vars
  BY <1>33 DEF vars, store, ChunksAreMarked, ChunksOf, ChunksPruned
<1>34. QED
  BY <1>1, <1>2, <1>3, <1>4, <1>5, <1>6, <1>7, <1>8, <1>9, <1>10, <1>11, <1>12, <1>13,
     <1>14, <1>15, <1>16, <1>17, <1>18, <1>19, <1>20, <1>21, <1>22, <1>23, <1>24, <1>25,
     <1>26, <1>27, <1>28, <1>29, <1>30, <1>31, <1>32, <1>33 DEF Next, RunStep, FileStep

-----------------------------------------------------------------------------
(* The vector.                                                               *)

\* A vector whose hash is that of the stored summary was made of it.  One that
\* is kept by its hash through a new summary has not that summary's hash.
VectorIsOfSummary(f) ==
  /\ node[f].vec # None /\ node[f].vecHash = node[f].hash /\ node[f].hash \in Content =>
       node[f].vec = node[f].sum
  /\ node[f].vecHash \in Content /\ node[f].vecHash = disk[f] => node[f].hash = disk[f]
  /\ pc = "summarize" /\ f \in todo /\ node[f].vecHash \in Content =>
       node[f].vecHash # run.draft[f].hash /\ node[f].vecHash # disk[f]
  /\ pc = "answer" /\ (f \in todo \/ run.draft[f].sum # None) =>
       node[f].sum = None \/ node[f].hash = None
  /\ pc = "answer" /\ f \notin todo /\ node[f].vecHash \in Content =>
       node[f].vecHash # run.draft[f].hash

\* A new summary takes the hash of the old vector only where the vector is the
\* summary's own.
LEMMA VectorKept ==
  ASSUME RunInv, ~world.reverts, NEW g \in Files,
         OldNames(g), DraftIsStored(g), VectorHasSummary(g), VectorIsOfSummary(g), [Next]_vars
  PROVE  VectorIsOfSummary(g)'
<1>0. TypeOK
  BY DEF RunInv
<1>t. /\ None \notin Content /\ NoSource \notin Content
      /\ disk[g] \in Content \cup {None}
  BY Names, HashTypes, <1>0
<1>1. ASSUME NEW f \in Files, Edit(f)
      PROVE  VectorIsOfSummary(g)'
  <2>1. disk'[g] = disk[g] \/ disk'[g] = None \/ disk'[g] \notin Old
    BY <1>1, <1>0, NewBytes
  <2>2. UNCHANGED <<node, pc, todo>> /\ run'.draft = run.draft
    BY <1>1, <1>0, EditFrame
  <2>3. QED
    BY <2>1, <2>2, <1>t DEF VectorIsOfSummary, OldNames
<1>2. CASE StartIndex
  BY <1>2, <1>t DEF StartIndex, Begin, Goto, VectorIsOfSummary, Locals, store, NoRun, store,
     bounds
<1>3. CASE StartForce
  BY <1>3, <1>t DEF StartForce, Begin, Goto, VectorIsOfSummary, Locals, store, NoRun, store,
     bounds
<1>4. CASE StartFlush
  BY <1>4, <1>t DEF StartFlush, Begin, Goto, VectorIsOfSummary, Locals, store, NoRun, store,
     bounds
<1>5. CASE CheckPending
  BY <1>5, <1>t DEF CheckPending, Goto, Return, VectorIsOfSummary, Locals, store, NoRun,
     store, bounds
<1>6. CASE Preflight
  BY <1>6, <1>t DEF Preflight, Goto, VectorIsOfSummary, store, store, bounds
<1>7. CASE PreflightFails
  BY <1>7, <1>t DEF PreflightFails, Goto, Return, VectorIsOfSummary, RunInv, TypeOK, Locals,
     store, NoRun, store, bounds
<1>8. CASE Diff
  BY <1>8, <1>t DEF Diff, Goto, Return, VectorIsOfSummary, Locals, store, NoRun, store,
     bounds
<1>9. CASE Snapshot
  BY <1>9, <1>t DEF Snapshot, Goto, VectorIsOfSummary, store, store, bounds
<1>10. CASE Parse
  BY <1>10, <1>t DEF Parse, Goto, VectorIsOfSummary, RunInv, TypeOK, Locals, store, store,
     bounds
<1>11. CASE GateRefuses
  BY <1>11, <1>t DEF GateRefuses, Goto, Return, VectorIsOfSummary, RunInv, TypeOK, Locals,
     store, NoRun, store, bounds
<1>12. CASE PlanReconcile
  BY <1>12, <1>t DEF PlanReconcile, Goto, VectorIsOfSummary, RunInv, TypeOK, Locals, store,
     store, bounds
<1>13. ASSUME NEW f \in Files, Upsert(f)
      PROVE  VectorIsOfSummary(g)'
  <2>1. pc = "upsert" /\ pc' = pc /\ f \in todo /\ todo' = todo \ {f}
        /\ UNCHANGED <<world, disk, chunks, loose, run, bounds>>
    BY <1>13 DEF Upsert, Next1
  <2>9. QED
    BY <1>13, <2>1, UpsertRow, <1>0 DEF VectorIsOfSummary
<1>14. CASE DeleteStale
  <2>1. pc = "upsert" /\ todo = {} /\ pc' = "hash" /\ todo' = {}
        /\ UNCHANGED <<world, disk, run, bounds>>
    BY <1>14 DEF DeleteStale, Goto
  <2>9. QED
    BY <1>14, <2>1, DeleteStaleRow, <1>0 DEF VectorIsOfSummary, NoNode
<1>15. CASE HashInputs
  <2>1. /\ pc' = "summarize" /\ todo' = {h \in Produced : ~Reusable(h)}
        /\ UNCHANGED <<disk, node>>
        /\ run' = [run EXCEPT !.draft =
             [h \in Files |-> IF h \notin Produced THEN NoDraft[h]
                              ELSE [sum |-> IF Reusable(h) THEN node[h].sum ELSE None,
                                    hash |-> InputHash(disk[h])]]]
    BY <1>15 DEF HashInputs, Goto, store
  <2>2. g \in todo' => ~Reusable(g) /\ run'.draft[g].hash = InputHash(disk[g])
    BY <2>1 DEF TypeOK
  <2>3. ASSUME g \in todo', node[g].vecHash \in Content
        PROVE  node[g].vecHash # InputHash(disk[g]) /\ node[g].vecHash # disk[g]
    <3>1. node[g].sum # None
      BY <2>3, <1>t DEF VectorHasSummary
    <3>2. node[g].hash # InputHash(disk[g])
      BY <2>2, <2>3, <3>1 DEF Reusable
    <3>3. QED
      BY <2>3, <3>2, <1>t DEF VectorIsOfSummary, InputHash
  <2>4. QED
    BY <2>1, <2>2, <2>3 DEF VectorIsOfSummary
<1>16. ASSUME NEW f \in Files, Summarize(f)
      PROVE  VectorIsOfSummary(g)'
  <2>1. Settle(f, IF disk[f] # None THEN disk[f] ELSE Fallback(f), run.draft[f].hash, {f})
    BY <1>16 DEF Summarize, Source
  <2>2. pc = "summarize" /\ pc' = pc /\ f \in todo /\ todo' = todo \ {f}
        /\ UNCHANGED <<world, disk, chunks, loose, bounds>>
    BY <1>16 DEF Summarize, Settle, Next1
  <2>3. /\ node'[g].rows = node[g].rows /\ node'[g].ck = node[g].ck
        /\ node'[g].vec = node[g].vec
        /\ node'[g].vecHash = node[g].vecHash /\ node'[g].marker = node[g].marker
        /\ run'.snapshot = run.snapshot /\ run'.parsed = run.parsed
        /\ run'.unchanged = run.unchanged
        /\ run'.confirmed_deleted = run.confirmed_deleted
        /\ run'.reconcilable = run.reconcilable
        /\ run'.run_files = run.run_files /\ run'.read = run.read
        /\ run'.repairing = run.repairing
    BY <2>1, <1>0, SettleRow, SettleRun
  <2>4. CASE g # f
    <3>1. node'[g].sum = node[g].sum /\ node'[g].hash = node[g].hash
          /\ run'.draft[g] = run.draft[g]
      BY <2>1, <2>4, <1>0, SettleRow, SettleDraft
    <3>2. QED
      BY <2>2, <2>3, <2>4, <3>1 DEF VectorIsOfSummary
  <2>5. CASE g = f
    <3>1. run'.draft[g].sum = (IF disk[g] # None THEN disk[g] ELSE Fallback(g)) /\ run'.draft[g].hash = run.draft[g].hash
      BY <2>1, <2>5, <1>0, SettleDraft
    <3>2. /\ run'.draft[g].sum = None => node'[g].sum = node[g].sum /\ node'[g].hash = node[g].hash
          /\ run'.draft[g].sum # None => node'[g].sum = run'.draft[g].sum /\ node'[g].hash = run.draft[g].hash
      BY <2>1, <2>5, <3>1, <1>0, SettleRow
    <3>3. QED
      BY <2>2, <2>3, <2>5, <3>1, <3>2 DEF VectorIsOfSummary
  <2>6. QED
    BY <2>4, <2>5
<1>17. ASSUME NEW f \in Files, SummarizeFails(f)
      PROVE  VectorIsOfSummary(g)'
  <2>1. PICK sum \in Text, dirty \in SUBSET Files : Settle(f, sum, None, dirty)
    BY <1>17, HashTypes DEF SummarizeFails, RetryHash, RunInv
  <2>2. pc = "summarize" /\ pc' = pc /\ f \in todo /\ todo' = todo \ {f}
        /\ UNCHANGED <<world, disk, chunks, loose, edits>>
    BY <1>17 DEF SummarizeFails, Settle, Next1, Fault
  <2>3. /\ node'[g].rows = node[g].rows /\ node'[g].ck = node[g].ck
        /\ node'[g].vec = node[g].vec
        /\ node'[g].vecHash = node[g].vecHash /\ node'[g].marker = node[g].marker
        /\ run'.snapshot = run.snapshot /\ run'.parsed = run.parsed
        /\ run'.unchanged = run.unchanged
        /\ run'.confirmed_deleted = run.confirmed_deleted
        /\ run'.reconcilable = run.reconcilable
        /\ run'.run_files = run.run_files /\ run'.read = run.read
        /\ run'.repairing = run.repairing
    BY <2>1, <1>0, SettleRow, SettleRun
  <2>4. CASE g # f
    <3>1. node'[g].sum = node[g].sum /\ node'[g].hash = node[g].hash
          /\ run'.draft[g] = run.draft[g]
      BY <2>1, <2>4, <1>0, SettleRow, SettleDraft
    <3>2. QED
      BY <2>2, <2>3, <2>4, <3>1 DEF VectorIsOfSummary
  <2>5. CASE g = f
    <3>1. run'.draft[g].sum = sum /\ run'.draft[g].hash = None
      BY <2>1, <2>5, <1>0, SettleDraft
    <3>2. /\ run'.draft[g].sum = None => node'[g].sum = node[g].sum /\ node'[g].hash = node[g].hash
          /\ run'.draft[g].sum # None => node'[g].sum = run'.draft[g].sum /\ node'[g].hash = None
      BY <2>1, <2>5, <3>1, <1>0, SettleRow
    <3>3. QED
      BY <2>2, <2>3, <2>5, <3>1, <3>2, <1>t DEF VectorIsOfSummary
  <2>6. QED
    BY <2>4, <2>5
<1>18. CASE UpdateChecksums
  <2>1. pc = "summarize" /\ todo = {} /\ todo' = {} /\ ~run.repairing
        /\ \/ pc' = "idle" /\ run' = NoRun
           \/ pc' = "repair" /\ run' = run
           \/ /\ pc' = "chunk" /\ run'.run_files = Produced
              /\ run'.snapshot = run.snapshot /\ run'.parsed = run.parsed
              /\ run'.unchanged = run.unchanged
              /\ run'.confirmed_deleted = run.confirmed_deleted
              /\ run'.reconcilable = run.reconcilable /\ run'.read = run.read
              /\ run'.draft = run.draft /\ run'.dirty = run.dirty
              /\ run'.failed = run.failed
              /\ run'.settled = run.settled /\ run'.gone = run.gone
              /\ run'.repairing = run.repairing
              /\ run'.mode = run.mode
        /\ UNCHANGED <<world, disk, chunks, loose, bounds>>
    BY <1>18 DEF UpdateChecksums, Goto, Return, RunInv, LoopsAreSound, TypeOK, Locals,
       bounds
  <2>9. QED
    BY <1>18, <2>1, UpdateChecksumsRow, <1>0 DEF VectorIsOfSummary
<1>19. CASE ReadChunks
  BY <1>19, <1>t DEF ReadChunks, Goto, VectorIsOfSummary, RunInv, TypeOK, Locals, store,
     store, bounds
<1>20. ASSUME NEW f \in Files, StoreChunk(f)
      PROVE  VectorIsOfSummary(g)'
  <2>1. pc = "store" /\ pc' = pc /\ f \in todo /\ todo' = todo \ {f}
        /\ run'.snapshot = run.snapshot /\ run'.parsed = run.parsed
        /\ run'.unchanged = run.unchanged
        /\ run'.confirmed_deleted = run.confirmed_deleted
        /\ run'.reconcilable = run.reconcilable /\ run'.run_files = run.run_files
        /\ run'.read = run.read /\ run'.draft = run.draft /\ run'.dirty = run.dirty
        /\ run'.failed = run.failed /\ run'.settled = run.settled /\ run'.gone = run.gone
        /\ run'.repairing = run.repairing /\ run'.mode = run.mode
        /\ UNCHANGED <<world, disk, node, bounds>>
    BY <1>20 DEF StoreChunk, Next1, RunInv, TypeOK, Locals
  <2>9. QED
    BY <1>20, <2>1 DEF VectorIsOfSummary
<1>21. ASSUME NEW f \in Files, StoreChunkFails(f)
      PROVE  VectorIsOfSummary(g)'
  BY <1>21, <1>t DEF StoreChunkFails, Next1, VectorIsOfSummary, RunInv, TypeOK, Locals,
     store, store, bounds
<1>22. CASE PruneStaleChunks
  <2>1. pc = "store" /\ todo = {} /\ pc' = (IF AllStored THEN "mark" ELSE "embed")
        /\ UNCHANGED <<world, disk, node, run, bounds>>
    BY <1>22 DEF PruneStaleChunks, Goto, GotoEmbed
  <2>9. QED
    BY <1>22, <2>1 DEF VectorIsOfSummary
<1>23. CASE MarkChunksCovered
  <2>1. pc = "mark" /\ pc' = "embed"
        /\ UNCHANGED <<world, disk, chunks, loose, run, bounds>>
    BY <1>23 DEF MarkChunksCovered, Goto, GotoEmbed
  <2>9. QED
    BY <1>23, <2>1, MarkChunksCoveredRow, <1>0 DEF VectorIsOfSummary
<1>24. ASSUME NEW f \in Files, EmbedSummary(f)
      PROVE  VectorIsOfSummary(g)'
  <2>1. pc = "embed" /\ pc' = pc /\ f \in todo /\ todo' = todo \ {f}
        /\ run'.snapshot = run.snapshot /\ run'.parsed = run.parsed
        /\ run'.unchanged = run.unchanged
        /\ run'.confirmed_deleted = run.confirmed_deleted
        /\ run'.reconcilable = run.reconcilable /\ run'.run_files = run.run_files
        /\ run'.read = run.read /\ run'.draft = run.draft /\ run'.dirty = run.dirty
        /\ run'.failed = run.failed /\ run'.settled = run.settled /\ run'.gone = run.gone
        /\ run'.repairing = run.repairing /\ run'.mode = run.mode
        /\ UNCHANGED <<world, disk, chunks, loose, bounds>>
    BY <1>24 DEF EmbedSummary, Next1, RunInv, TypeOK, Locals
  <2>2. /\ node'[g].rows = node[g].rows /\ node'[g].ck = node[g].ck
        /\ node'[g].sum = node[g].sum
        /\ node'[g].hash = node[g].hash /\ node'[g].marker = node[g].marker
    BY <1>24, <1>0, EmbedSummaryRow
  <2>a. ~run.repairing /\ run.draft[g].sum # None =>
          node[g].sum = run.draft[g].sum /\ node[g].hash = run.draft[g].hash
    BY <2>1 DEF DraftIsStored
  <2>3. CASE g # f \/ FreshVector(f)
    <3>1. node'[g].vec = node[g].vec /\ node'[g].vecHash = node[g].vecHash
      BY <1>24, <2>3, <1>0, EmbedSummaryRow
    <3>2. QED
      BY <2>1, <2>2, <3>1 DEF VectorIsOfSummary
  <2>4. CASE g = f /\ ~FreshVector(f)
    <3>1. node'[g].vec = Draft(g).sum /\ node'[g].vecHash = Draft(g).hash
      BY <1>24, <2>4, <1>0, EmbedSummaryRow
    <3>2. Draft(g).sum # None
      BY <2>1, <2>4 DEF RunInv, LoopsAreSound
    <3>3. QED
      BY <2>1, <2>2, <2>a, <3>1, <3>2 DEF VectorIsOfSummary, Draft
  <2>5. QED
    BY <2>3, <2>4
<1>25. ASSUME NEW f \in Files, EmbedSummaryFails(f)
      PROVE  VectorIsOfSummary(g)'
  BY <1>25, <1>t DEF EmbedSummaryFails, Next1, VectorIsOfSummary, RunInv, TypeOK, Locals,
     store, store, bounds
<1>26. CASE Finish
  BY <1>26, <1>t DEF Finish, Goto, Return, VectorIsOfSummary, Locals, store, NoRun, store,
     bounds
<1>27. CASE AskForMissing
  <2>1. /\ pc' = "answer" /\ UNCHANGED <<disk, node>>
        /\ todo' = {h \in Stored : node[h].sum = None \/ node[h].hash = None}
    BY <1>27 DEF AskForMissing, Goto, store
  <2>2. run'.draft[g].sum = None /\ run'.draft[g].hash = None
    BY <1>27 DEF AskForMissing, NoDraft
  <2>3. QED
    BY <2>1, <2>2, <1>t DEF VectorIsOfSummary
<1>28. ASSUME NEW f \in Files, Answer(f)
      PROVE  VectorIsOfSummary(g)'
  <2>1. /\ pc = "answer" /\ pc' = pc /\ f \in todo /\ todo' = todo \ {f}
        /\ UNCHANGED <<disk, node>>
    BY <1>28 DEF Answer, Next1, store
  <2>2. CASE g # f
    <3>1. run'.draft[g] = run.draft[g]
      BY <1>28, <2>2, <1>0, AnswerDraft
    <3>2. QED
      BY <2>1, <2>2, <3>1 DEF VectorIsOfSummary
  <2>3. CASE g = f
    <3>1. run'.draft[g].hash = InputHash(disk[g])
      BY <1>28, <2>3, <1>0, AnswerDraft
    <3>2. node[g].vecHash \in Content => node[g].vecHash # InputHash(disk[g])
      <4>1. node[g].sum = None \/ node[g].hash = None
        BY <2>1, <2>3 DEF VectorIsOfSummary
      <4>2. QED
        BY <4>1, <1>t DEF VectorIsOfSummary, VectorHasSummary, InputHash
    <3>3. QED
      BY <2>1, <2>3, <3>1, <3>2 DEF VectorIsOfSummary
  <2>4. QED
    BY <2>2, <2>3
<1>29. ASSUME NEW f \in Files, AnswerFails(f)
      PROVE  VectorIsOfSummary(g)'
  <2>1. /\ pc = "answer" /\ pc' = pc /\ f \in todo /\ todo' = todo \ {f}
        /\ UNCHANGED <<disk, node>>
    BY <1>29 DEF AnswerFails, Next1, store
  <2>2. CASE g # f
    <3>1. run'.draft[g] = run.draft[g]
      BY <1>29, <2>2, <1>0, AnswerFailsDraft
    <3>2. QED
      BY <2>1, <2>2, <3>1 DEF VectorIsOfSummary
  <2>3. CASE g = f
    <3>1. run'.draft[g].hash = None
      BY <1>29, <2>3, <1>0, AnswerFailsDraft
    <3>2. QED
      BY <2>1, <2>3, <3>1, <1>t DEF VectorIsOfSummary
  <2>4. QED
    BY <2>2, <2>3
<1>30. CASE StoreRepaired
  <2>1. pc = "answer" /\ todo = {} /\ pc' = "rechunk" /\ todo' = {}
        /\ UNCHANGED <<world, disk, chunks, loose, run, bounds>>
    BY <1>30 DEF StoreRepaired, Goto, bounds
  <2>2. node'[g].vec = node[g].vec /\ node'[g].vecHash = node[g].vecHash
    BY <1>30, <1>0, StoreRepairedRow
  <2>3. CASE run.draft[g].sum = None
    <3>1. node'[g].sum = node[g].sum /\ node'[g].hash = node[g].hash
      BY <1>30, <2>3, <1>0, StoreRepairedRow
    <3>2. QED
      BY <2>1, <2>2, <3>1 DEF VectorIsOfSummary
  <2>4. CASE run.draft[g].sum # None
    <3>1. node'[g].sum = run.draft[g].sum /\ node'[g].hash = run.draft[g].hash
      BY <1>30, <2>4, <1>0, StoreRepairedRow
    <3>2. node[g].sum = None \/ node[g].hash = None
      BY <2>1, <2>4 DEF VectorIsOfSummary
    <3>3. node[g].vecHash \in Content => node[g].vecHash # run.draft[g].hash /\ node[g].vecHash # disk[g]
      BY <2>1, <3>2, <1>t DEF VectorIsOfSummary, VectorHasSummary
    <3>4. QED
      BY <2>1, <2>2, <3>1, <3>3 DEF VectorIsOfSummary
  <2>5. QED
    BY <2>3, <2>4
<1>31. CASE RepairChunks
  BY <1>31, <1>t DEF RepairChunks, Goto, VectorIsOfSummary, Locals, store, store, bounds
<1>32. CASE Crash
  BY <1>32, <1>t DEF Crash, Goto, Return, VectorIsOfSummary, RunInv, TypeOK, Locals, store,
     NoRun, store, bounds
<1>33. CASE UNCHANGED vars
  BY <1>33 DEF vars, store, VectorIsOfSummary
<1>34. QED
  BY <1>1, <1>2, <1>3, <1>4, <1>5, <1>6, <1>7, <1>8, <1>9, <1>10, <1>11, <1>12, <1>13,
     <1>14, <1>15, <1>16, <1>17, <1>18, <1>19, <1>20, <1>21, <1>22, <1>23, <1>24, <1>25,
     <1>26, <1>27, <1>28, <1>29, <1>30, <1>31, <1>32, <1>33 DEF Next, RunStep, FileStep

-----------------------------------------------------------------------------
(* Every stamp is honest.                                                    *)

\* All of it together.
StampsInv ==
  /\ RunInv
  /\ \A f \in Files : OldNames(f) /\ PlanIsApart(f) /\ DraftIsStored(f) /\ VectorHasSummary(f)
  /\ ~world.anytime => \A f \in Files : ExactOf(f)
  /\ ~world.reverts => \A f \in Files : ChunksAreMarked(f) /\ VectorIsOfSummary(f)
  /\ ~world.reverts /\ "parse" \notin world.faults => \A f \in Files : RowsAreStamped(f)

\* An empty index makes no claims.
LEMMA StampsInit == Init => StampsInv
<1> SUFFICES ASSUME Init PROVE StampsInv
  OBVIOUS
<1>1. RunInv
  BY RunInit
<1>2. ASSUME NEW f \in Files
      PROVE  /\ OldNames(f) /\ PlanIsApart(f) /\ DraftIsStored(f) /\ VectorHasSummary(f)
             /\ ExactOf(f) /\ ChunksAreMarked(f) /\ VectorIsOfSummary(f)
             /\ RowsAreStamped(f)
  <2>1. /\ node[f] = NoNode /\ chunks[f] = {} /\ loose[f] = {} /\ run = NoRun /\ pc = "idle"
        /\ disk[f] \in {1, None} /\ edits = 0
    BY DEF Init, Empty
  <2>2. /\ run.snapshot[f] = None /\ run.parsed[f] = None /\ run.read[f] = None
        /\ run.draft[f].sum = None /\ run.draft[f].hash = None
    BY <2>1 DEF NoRun, Nothing, NoDraft
  <2>3. None \notin Content /\ None \in Old /\ disk[f] \in Old
    BY <2>1, Names DEF Old
  <2>4. OldNames(f)
    BY <2>1, <2>2, <2>3 DEF OldNames, NoNode
  <2>5. PlanIsApart(f) /\ DraftIsStored(f) /\ VectorHasSummary(f)
    BY <2>1, <2>2 DEF PlanIsApart, DraftIsStored, VectorHasSummary, NoNode
  <2>6. ExactOf(f) /\ VectorIsOfSummary(f)
    BY <2>1, <2>2, <2>3 DEF ExactOf, VectorIsOfSummary, NoNode
  <2>7. ChunksAreMarked(f) /\ RowsAreStamped(f)
    BY <2>1, <2>2 DEF ChunksAreMarked, ChunksOf, ChunksPruned, RowsAreStamped, RowsOf,
       RowsWritten, NoNode
  <2>8. QED
    BY <2>4, <2>5, <2>6, <2>7
<1>3. QED
  BY <1>1, <1>2 DEF StampsInv

\* No step makes a claim that does not hold, or takes the truth from one.
LEMMA StampsKept == StampsInv /\ [Next]_vars => StampsInv'
<1> SUFFICES ASSUME StampsInv, [Next]_vars PROVE StampsInv'
  OBVIOUS
<1>1. RunInv' /\ world' = world
  BY RunKept, WorldStands DEF StampsInv
<1>2. ASSUME NEW g \in Files
      PROVE  (OldNames(g) /\ PlanIsApart(g) /\ DraftIsStored(g) /\ VectorHasSummary(g))'
  BY NamesKept, PlanKept, DraftKept, VectorHasSummaryKept DEF StampsInv
<1>3. ASSUME ~world.anytime, NEW g \in Files
      PROVE  ExactOf(g)'
  BY <1>3, ExactKept DEF StampsInv
<1>4. ASSUME ~world.reverts, NEW g \in Files
      PROVE  (ChunksAreMarked(g) /\ VectorIsOfSummary(g))'
  BY <1>4, ChunksKept, VectorKept DEF StampsInv
<1>5. ASSUME ~world.reverts, "parse" \notin world.faults, NEW g \in Files
      PROVE  RowsAreStamped(g)'
  BY <1>5, RowsKept DEF StampsInv
<1>6. QED
  BY <1>1, <1>2, <1>3, <1>4, <1>5 DEF StampsInv

\* The invariant holds throughout.
LEMMA StampsHold == Spec => []StampsInv
BY StampsInit, StampsKept, PTL DEF Spec

\* Where files never return to bytes they had: a stored checksum that is the
\* file's, so that no diff reports the file, is on the rows of those bytes,
\* though files change under the run and the run fails or dies anywhere.
THEOREM ChecksumsAreHonest == Spec => [](~world.reverts => HonestChecksum)
<1>1. StampsInv => (~world.reverts => HonestChecksum)
  BY DEF StampsInv, HonestChecksum, RowsAreStamped, RowsOf, Present
<1>2. QED
  BY StampsHold, <1>1, PTL

\* There too a file whose marker agrees with its checksum, which no repair will
\* re-chunk, has the chunk of its bytes.
THEOREM CoverageMarkersAreHonest == Spec => [](~world.reverts => CoverageIsHonest)
<1>1. StampsInv => (~world.reverts => CoverageIsHonest)
  BY DEF StampsInv, RunInv, CoverageIsHonest, HonestCoverage, ChunksAreMarked, ChunksOf,
     Present
<1>2. QED
  BY StampsHold, <1>1, PTL

\* And between runs it has no chunk of other bytes.
THEOREM NoChunkIsStale == Spec => [](~world.reverts => NoStaleChunks)
<1>1. StampsInv => (~world.reverts => NoStaleChunks)
  BY DEF StampsInv, NoStaleChunks, ChunksAreMarked, ChunksOf, Present
<1>2. QED
  BY StampsHold, <1>1, PTL

\* Where the tree stands still during runs: a summary whose input hash is that
\* of the file on disk, which every later run reuses, was made of those bytes.
THEOREM SummariesAreHonest == Spec => [](~world.anytime => HonestSummary)
<1>1. StampsInv => (~world.anytime => HonestSummary)
  BY HashTypes DEF StampsInv, RunInv, HonestSummary, ExactOf, Present
<1>2. QED
  BY StampsHold, <1>1, PTL

\* Where files do not both change under a run and return to bytes they had: a
\* vector that will not be embedded again was made of the stored summary.
THEOREM VectorsAreHonest == Spec => [](~(world.anytime /\ world.reverts) => HonestVector)
<1>1. StampsInv => (~(world.anytime /\ world.reverts) => HonestVector)
  <2> SUFFICES ASSUME StampsInv, ~(world.anytime /\ world.reverts), NEW f \in Files,
                      node[f].vec # None, node[f].vecHash = node[f].hash, node[f].hash \in Content
               PROVE  node[f].vec = node[f].sum
    BY DEF HonestVector
  <2>1. CASE ~world.anytime
    BY <2>1 DEF StampsInv, ExactOf
  <2>2. CASE ~world.reverts
    BY <2>2 DEF StampsInv, VectorIsOfSummary
  <2>3. QED
    BY <2>1, <2>2
<1>2. QED
  BY StampsHold, <1>1, PTL

==============================================================================
