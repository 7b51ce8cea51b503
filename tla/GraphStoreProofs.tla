-------------------------- MODULE GraphStoreProofs --------------------------
(***************************************************************************)
(* However little an update writes and however many rows it deletes, the   *)
(* graph is what a full build would have stored: for any set of files, any *)
(* contents, any number of edits, faults and prunes.  The instance of      *)
(* MCPipeline has two files and a fault.                                   *)
(***************************************************************************)
EXTENDS GraphStore, TLAPS

\* A project: bounded edits, files whose calls are made by their own definitions, and
\* trees made of them.
Project ==
  /\ MaxEdits \in Nat
  /\ \A c \in Contents : \A q \in c.calls : q[1] \in c.defs
  /\ Trees \subseteq [Files -> Contents]

\* No file defines an id twice.
Single == \A c \in Contents : c.twins = {}

-----------------------------------------------------------------------------
(* The invariant.                                                          *)

IsFunction(f) == f = [x \in DOMAIN f |-> f[x]]

IsNode(id) == id[1] \in {"mod", "def", "dir"}

\* A row of a file or of a folder, whose id tells which.
Shaped(id, row) ==
  /\ IsNode(id)
  /\ row = [file |-> row.file, v |-> row.v, outside |-> row.outside, by |-> row.by,
            twin |-> row.twin]
  /\ row.file = id[2]
  /\ id[1] # "def" => row.outside = {} /\ row.twin = 2
  /\ id[1] # "mod" => row.by = ""
  /\ id[1] = "dir" => row.v = 0
  /\ id[1] # "dir" => id[2] \in Files
  /\ Single => row.twin = 2

\* What is stored is of its type, and an edge leads from a node to what is stored.
Stored ==
  /\ IsFunction(rows)
  /\ \A id \in DOMAIN rows : Shaped(id, rows[id])
  /\ IsFunction(edges)
  /\ \A k \in DOMAIN edges : /\ k[1] \in DOMAIN rows
                             /\ k[3] \in DOMAIN rows \cup externals
                             /\ k[2] = "CONTAINS" => edges[k] = 0
  /\ \A x \in externals : x[1] = "ext"
  /\ stamp \in [Files -> 0..edits + 1]
  /\ \A f \in Files : stamp[f] # 0 => Mod(f) \in DOMAIN rows
  /\ chunks \subseteq Files /\ stuck \subseteq Files
  /\ pruned \subseteq Files /\ exposed \subseteq Files
  /\ edits \in 0..MaxEdits
  /\ DOMAIN disk = Files
  /\ \A f \in Present : disk[f].v \in 1..edits + 1 /\ disk[f].c \in Contents

\* Bytes that hash to the checksum have their rows, but for those that no run could parse.
StampIsOfRows ==
  \A id \in DOMAIN rows :
    ~IsFolder(id) /\ id[2] \in Present \ stuck /\ stamp[id[2]] = disk[id[2]].v =>
      rows[id].v = disk[id[2]].v

Fields == {"rows", "edges", "refs", "staleNodes", "staleEdges", "stamps", "produced",
           "gone", "asked", "explicit", "fullRows", "fullEdges", "before"}

\* A plan drops nothing that the build would store, and what it writes is the build's.
PlanIsSafe ==
  Building =>
    /\ DOMAIN run = Fields
    /\ \A id \in DOMAIN run.fullRows : Shaped(id, run.fullRows[id])
    /\ DOMAIN run.rows \subseteq DOMAIN run.fullRows
    /\ \A id \in DOMAIN run.rows : /\ Shaped(id, run.rows[id])
                                   /\ Single => run.rows[id] = run.fullRows[id]
    /\ \A id \in run.staleNodes : /\ id \notin DOMAIN run.fullRows /\ IsNode(id)
                                   /\ id # Folder(Root)
    /\ DOMAIN run.edges \subseteq DOMAIN run.fullEdges
    /\ \A k \in DOMAIN run.edges : run.edges[k] = run.fullEdges[k]
    /\ \A k \in DOMAIN run.fullEdges : /\ k[1] \in DOMAIN run.fullRows
                                       /\ k[3] \in DOMAIN run.fullRows \cup run.refs
                                       /\ k[2] = "CONTAINS" => run.fullEdges[k] = 0
    /\ \A k \in run.staleEdges : k \notin DOMAIN run.fullEdges
    /\ \A x \in run.refs : x[1] = "ext"

\* What a plan leaves out is stored as the build would store it, or as already_stored
\* compares it where no run could parse the bytes; it drops every other
\* node but those of the files that were not read, and every other edge it can judge.
Matches(id, old, new) ==
  /\ Alike(old[id], new[id])
  /\ IsFolder(id) \/ id[2] \notin stuck => old[id] = new[id]

PlanIsExact ==
  Building /\ run.before # NoRun =>
    /\ IsFunction(run.before.rows) /\ IsFunction(run.before.edges)
    /\ \A id \in DOMAIN run.fullRows \ DOMAIN run.rows :
         id \in DOMAIN run.before.rows /\ (Single => Matches(id, run.before.rows, run.fullRows))
    /\ \A id \in DOMAIN run.before.rows \ DOMAIN run.fullRows :
         id \in run.staleNodes <=> id \notin DOMAIN KeptRows
    /\ \A k \in DOMAIN run.fullEdges \ DOMAIN run.edges :
         k \in DOMAIN run.before.edges /\ run.before.edges[k] = run.fullEdges[k]
    /\ \A k \in DOMAIN run.before.edges :
         k \in run.staleEdges <=> /\ k \notin DOMAIN run.fullEdges
                                  /\ {k[1], k[3]} \subseteq DOMAIN run.fullRows \cup run.refs

Closing == {"checksums", "scope", "chunks"}
Late == {"drop_edges", "sweep", "checksums", "scope", "chunks"}
Writing == {"nodes", "externals", "edges", "drop_nodes", "drop_edges", "sweep", "checksums",
            "scope", "chunks"}
Pruning == {"prune_nodes", "prune_chunks", "prune_scope"}

\* The tree of a run is the one it read: what it writes and stamps are the files' bytes.
RunIsOfTree ==
  /\ pc \in {"idle"} \cup Writing \cup Pruning
  /\ pc # "idle" => ~whole
  /\ pc \in Writing =>
       /\ Building
       /\ run.produced \subseteq Present \cap Admitted(run.asked)
       /\ DOMAIN run.stamps \subseteq Present
       /\ \A f \in DOMAIN run.stamps : run.stamps[f] = disk[f].v
       /\ \A id \in DOMAIN run.fullRows : ~IsFolder(id) => id[2] \in run.produced
       /\ \A id \in DOMAIN run.rows : ~IsFolder(id) => run.rows[id].v = disk[id[2]].v
       /\ \A id \in DOMAIN run.fullRows :
            ~IsFolder(id) /\ id[2] \in DOMAIN run.stamps => id \in DOMAIN run.rows
       /\ \A id \in DOMAIN rows :
            ~IsFolder(id) /\ id[2] \in run.produced =>
              id \in DOMAIN run.fullRows \cup run.staleNodes
  /\ pc \in Writing \ {"nodes"} =>
       \A id \in DOMAIN rows \cap DOMAIN run.fullRows :
         ~IsFolder(id) /\ id[2] \in DOMAIN run.stamps => rows[id].v = disk[id[2]].v
  /\ pc \in Late => DOMAIN rows \cap run.staleNodes = {}

\* Where the writes have got to, while no row was lost.
Landed == Over(run.rows, run.before.rows)
Merged == Over(run.edges, run.before.edges)
NotDropped(k) == {k[1], k[3]} \cap run.staleNodes = {}

WritesLand ==
  pc \in Writing /\ run.before # NoRun =>
    /\ pc = "nodes" => rows = run.before.rows
    /\ pc \in {"externals", "edges", "drop_nodes"} => rows = Landed
    /\ pc \in Late =>
         rows = RestrictTo(Landed, DOMAIN Landed \ run.staleNodes)
    /\ pc \in {"nodes", "externals", "edges"} => edges = run.before.edges
    /\ pc = "edges" => run.refs \subseteq externals
    /\ pc = "drop_nodes" => edges = Merged
    /\ pc = "drop_edges" => edges = RestrictTo(Merged, {k \in DOMAIN Merged : NotDropped(k)})
    /\ pc \in {"sweep"} \cup Closing =>
         edges = RestrictTo(Merged, {k \in DOMAIN Merged : NotDropped(k)} \ run.staleEdges)

\* What was dropped by a prune is out of the store and of every scope that a caller has in
\* hand, and is off the store before it is reported; but for the exposed files.
Out == pruned \ exposed

NoneOf(out, ids, held) == /\ \A id \in ids : ~IsFolder(id) => id[2] \notin out
                          /\ held \cap out = {}
                          /\ Folder(Root) \notin ids => out = {}

PruneStands ==
  /\ NoneOf(Out, DOMAIN rows, chunks)
  /\ \A s \in {scope} \cup daemon : Admitted(s) \cap Out = {}
  /\ pc \in Writing => Admitted(run.asked) \cap Out = {}
  /\ pc \in Pruning =>
       /\ ~Building
       /\ \A id \in run.nodes : IsNode(id) /\ id # Folder(Root)
       /\ run.files \cap Admitted(run.kept) = {} /\ run.files \subseteq Files
       /\ \A id \in DOMAIN rows :
            ~IsFolder(id) /\ id[2] \in run.files => pc = "prune_nodes" /\ id \in run.nodes
       /\ \A f \in chunks \cap run.files : pc # "prune_scope" /\ f \in run.chunks

StoreInv ==
  /\ Stored /\ StampIsOfRows /\ PlanIsSafe /\ PlanIsExact /\ RunIsOfTree /\ WritesLand
  /\ PruneStands /\ StandingEdgesStand /\ (Single => ReconcileIsExact)
-----------------------------------------------------------------------------
(* Functions.                                                              *)

\* What Over and RestrictTo hold, point by point.
LEMMA OverIs ==
  ASSUME NEW f, NEW g
  PROVE  /\ DOMAIN Over(f, g) = (DOMAIN f) \cup DOMAIN g
         /\ \A x \in DOMAIN f : Over(f, g)[x] = f[x]
         /\ \A x \in (DOMAIN g) \ DOMAIN f : Over(f, g)[x] = g[x]
BY DEF Over

\* The same of a restriction.
LEMMA RestrictIs ==
  ASSUME NEW f, NEW S
  PROVE  /\ DOMAIN RestrictTo(f, S) = (DOMAIN f) \cap S
         /\ \A x \in (DOMAIN f) \cap S : RestrictTo(f, S)[x] = f[x]
BY DEF RestrictTo

\* What is put over a function, and what is left of one, is one.
LEMMA AreFunctions ==
  ASSUME NEW f, NEW g
  PROVE  IsFunction(Over(f, g)) /\ IsFunction(RestrictTo(f, g))
BY DEF Over, RestrictTo, IsFunction

\* Two functions with one domain and the same values are one.
LEMMA SameFunction ==
  ASSUME NEW f, NEW g, NEW D,
         IsFunction(f), IsFunction(g),
         DOMAIN f = D, DOMAIN g = D, \A x \in D : f[x] = g[x]
  PROVE  f = g
BY DEF IsFunction

\* All of a function put over another is the function over it.
LEMMA OverAll ==
  ASSUME NEW f, NEW g
  PROVE  Over(RestrictTo(f, DOMAIN f), g) = Over(f, g)
BY DEF Over, RestrictTo

-----------------------------------------------------------------------------
(* The graph of a parse.                                                   *)

\* What the nodes of a parse are.
LEMMA NodesAre ==
  ASSUME NEW P
  PROVE  /\ \A f \in P : /\ Mod(f) \in NodesOf(P)
                         /\ \A s \in disk[f].c.defs : Def(f, s) \in NodesOf(P)
                         /\ Folder(Dir[f]) \in NodesOf(P) /\ Folder(Root) \in NodesOf(P)
         /\ \A id \in NodesOf(P) :
              \/ \E f \in P : id = Mod(f) \/ (\E s \in disk[f].c.defs : id = Def(f, s))
              \/ \E d : id = Folder(d)
<1> DEFINE mods == {Mod(f) : f \in P}
           defs == UNION {{Def(f, s) : s \in disk[f].c.defs} : f \in P}
           dirs == {Folder(d) : d \in {Dir[f] : f \in P} \cup (IF P = {} THEN {} ELSE {Root})}
<1>1. NodesOf(P) = mods \cup defs \cup dirs
  BY DEF NodesOf
<1>2. ASSUME NEW f \in P
      PROVE  Mod(f) \in mods /\ Folder(Dir[f]) \in dirs /\ Folder(Root) \in dirs
  OBVIOUS
<1>3. ASSUME NEW f \in P, NEW s \in disk[f].c.defs
      PROVE  Def(f, s) \in defs
  OBVIOUS
<1>4. ASSUME NEW id \in mods
      PROVE  \E f \in P : id = Mod(f)
  OBVIOUS
<1>5. ASSUME NEW id \in defs
      PROVE  \E f \in P : \E s \in disk[f].c.defs : id = Def(f, s)
  OBVIOUS
<1>6. ASSUME NEW id \in dirs
      PROVE  \E d : id = Folder(d)
  OBVIOUS
<1> HIDE DEF mods, defs, dirs
<1> QED
  BY <1>1, <1>2, <1>3, <1>4, <1>5, <1>6

\* A file's nodes are its module and the folders it is in.
LEMMA ModuleIn ==
  ASSUME NEW P, NEW f \in P
  PROVE  Mod(f) \in NodesOf(P) /\ Folder(Dir[f]) \in NodesOf(P) /\ Folder(Root) \in NodesOf(P)
<1>1. Mod(f) \in NodesOf(P)
  BY NodesAre
<1>2. Folder(Dir[f]) \in {Folder(d) : d \in {Dir[g] : g \in P} \cup (IF P = {} THEN {} ELSE {Root})}
  OBVIOUS
<1>3. Folder(Root) \in {Folder(d) : d \in {Dir[g] : g \in P} \cup (IF P = {} THEN {} ELSE {Root})}
  OBVIOUS
<1> QED
  BY <1>1, <1>2, <1>3 DEF NodesOf

\* A node of a parse is a folder or in one of its files.
LEMMA NodesAreParsed ==
  ASSUME NEW P, NEW id \in NodesOf(P)
  PROVE  /\ IsNode(id)
         /\ ~IsFolder(id) => id[2] \in P
         /\ IsFolder(id) <=> id[1] = "dir"
BY NodesAre DEF Mod, Def, Folder, IsNode, IsFolder

\* The rows of a parse are shaped, and the first of two is the second only of an id
\* that its file defines twice.
LEMMA RowIsShaped ==
  ASSUME NEW P, P \subseteq Files, NEW pass, NEW id \in NodesOf(P)
  PROVE  /\ Shaped(id, Row(id, 2, P, pass))
         /\ id[1] = "def" /\ ~Single => Shaped(id, Row(id, 1, P, pass))
         /\ ~IsFolder(id) => \A t \in {1, 2} : Row(id, t, P, pass).v = disk[id[2]].v
<1>1. CASE id[1] = "dir"
  BY <1>1, NodesAreParsed DEF Row, Shaped, IsFolder
<1>2. CASE id[1] = "mod"
  BY <1>2, NodesAreParsed DEF Row, Shaped, IsFolder
<1>3. CASE id[1] = "def"
  BY <1>3, NodesAreParsed DEF Row, Shaped, IsFolder
<1> QED
  BY <1>1, <1>2, <1>3, NodesAreParsed DEF IsNode

\* An edge of a parse has its ends among the parse's nodes and the dependencies it names.
LEMMA EdgesAreParsed ==
  ASSUME Project, Stored, NEW P, P \subseteq Present, NEW pass, NEW k \in DOMAIN FullEdges(P, pass)
  PROVE  /\ k[1] \in NodesOf(P) /\ k[3] \in NodesOf(P) \cup Refs(P)
         /\ k[2] = "CONTAINS" => FullEdges(P, pass)[k] = 0
         /\ k[2] \in {"CONTAINS", "CALLS", "IMPORTS"}
<1>1. k \in Contains(P) \cup Calls(P) \cup Imports(P)
  BY DEF FullEdges
<1>5. k[2] = "CONTAINS" => FullEdges(P, pass)[k] = 0
  BY DEF FullEdges
<1>2. CASE k \in Contains(P)
  <2>1. CASE \E f \in P : \E s \in disk[f].c.defs : k = <<Mod(f), "CONTAINS", Def(f, s)>>
    BY <2>1, <1>5, NodesAre
  <2>2. CASE \E f \in P : k = <<Folder(Dir[f]), "CONTAINS", Mod(f)>>
    <3>1. PICK f \in P : k = <<Folder(Dir[f]), "CONTAINS", Mod(f)>>
      BY <2>2
    <3>2. Folder(Dir[f]) \in NodesOf(P) /\ Mod(f) \in NodesOf(P)
      BY ModuleIn
    <3> QED
      BY <3>1, <3>2, <1>5
  <2>3. CASE \E f \in P : k = <<Folder(Root), "CONTAINS", Folder(Dir[f])>>
    <3>1. PICK f \in P : k = <<Folder(Root), "CONTAINS", Folder(Dir[f])>>
      BY <2>3
    <3>2. Folder(Root) \in NodesOf(P) /\ Folder(Dir[f]) \in NodesOf(P)
      BY ModuleIn
    <3> QED
      BY <3>1, <3>2, <1>5
  <2> QED
    BY <1>2, <2>1, <2>2, <2>3 DEF Contains
<1>3. CASE k \in Calls(P)
  <2>1. PICK f \in P : \E c \in disk[f].c.calls : \E t \in Callee(c[2], P) :
                        k = <<Def(f, c[1]), "CALLS", t>>
    BY <1>3 DEF Calls
  <2>2. PICK c \in disk[f].c.calls : \E t \in Callee(c[2], P) : k = <<Def(f, c[1]), "CALLS", t>>
    BY <2>1
  <2>6. PICK t \in Callee(c[2], P) : k = <<Def(f, c[1]), "CALLS", t>>
    BY <2>2
  <2>3. t \in NodesOf(P)
    BY <2>6, NodesAre DEF Callee
  <2>4. c[1] \in disk[f].c.defs
    BY DEF Project, Stored
  <2>5. Def(f, c[1]) \in NodesOf(P)
    BY <2>4, NodesAre
  <2> QED
    BY <2>6, <2>3, <2>5
<1>4. CASE k \in Imports(P)
  <2>1. PICK f \in P : \E n \in disk[f].c.imports :
          k = <<Mod(f), "IMPORTS", IF n \in P THEN Mod(n) ELSE Ext(n)>>
    BY <1>4 DEF Imports
  <2>2. k[1] \in NodesOf(P) /\ k[2] = "IMPORTS"
    BY <2>1, NodesAre
  <2>3. k[3] \in NodesOf(P) \cup Refs(P)
    BY <1>4 DEF Refs
  <2> QED
    BY <2>2, <2>3
<1> QED
  BY <1>1, <1>2, <1>3, <1>4

\* A dependency is no node.
LEMMA RefsAreExternal ==
  ASSUME NEW P, NEW x \in Refs(P)
  PROVE  x[1] = "ext"
<1>1. PICK k \in Imports(P) : x = k[3]
  BY DEF Refs
<1>2. x \notin NodesOf(P)
  BY DEF Refs
<1>3. PICK f \in P : \E n \in disk[f].c.imports :
        k = <<Mod(f), "IMPORTS", IF n \in P THEN Mod(n) ELSE Ext(n)>>
  BY DEF Imports
<1>4. PICK n \in disk[f].c.imports :
        k = <<Mod(f), "IMPORTS", IF n \in P THEN Mod(n) ELSE Ext(n)>>
  BY <1>3
<1>5. n \notin P
  BY <1>1, <1>2, <1>4, NodesAre
<1> QED
  BY <1>1, <1>4, <1>5 DEF Ext
-----------------------------------------------------------------------------
(* The plan of a build.                                                    *)

\* The files a run reads, those it proves unchanged and those it takes for gone.
LEMMA ReadOrGone ==
  ASSUME Stored, NEW asked, NEW m
  PROVE  /\ Produced(asked, m) \subseteq Present \cap Admitted(asked)
         /\ Produced(asked, m) \cap ConfirmedDeleted(asked, m) = {}
         /\ ConfirmedDeleted(asked, m) \subseteq IndexedFiles
         /\ Did(asked, m, "snapshot") \subseteq Present
         /\ \A f \in Unchanged(asked, m) : f \in Present /\ stamp[f] = disk[f].v
BY DEF Produced, Did, Scanned, Unchanged, ConfirmedDeleted

\* A stored node of a file names it.
LEMMA StoredNamesFile ==
  ASSUME Stored, NEW id \in DOMAIN rows
  PROVE  /\ Shaped(id, rows[id]) /\ IsNode(id) /\ rows[id].file = id[2]
         /\ IsFolder(id) <=> id[1] = "dir"
         /\ ~IsFolder(id) => id[2] \in Files /\ id[2] \in IndexedFiles
<1>1. Shaped(id, rows[id])
  BY DEF Stored
<1>2. IsNode(id) /\ rows[id].file = id[2] /\ (id[1] # "dir" => id[2] \in Files)
  BY <1>1 DEF Shaped
<1>3. ~IsFolder(id) => rows[id].file \in IndexedFiles
  BY DEF IndexedFiles
<1> QED
  BY <1>1, <1>2, <1>3 DEF IsFolder

\* No node of the parse is stale.
LEMMA StaleIsNotParsed ==
  ASSUME Stored, NEW P, NEW gone, P \cap gone = {}, NEW id \in StaleNodes(P, gone)
  PROVE  id \notin NodesOf(P) /\ id \in DOMAIN rows /\ IsNode(id) /\ id # Folder(Root)
BY StoredNamesFile, NodesAreParsed DEF StaleNodes, NeededDirs, Folder, IsFolder

\* A row that is written is shaped, of the bytes on disk, and, where no id is defined
\* twice, the build's.
LEMMA WrittenRows ==
  ASSUME Project, Stored, NEW P, P \subseteq Present, NEW U, NEW pass,
         NEW id \in DOMAIN ToUpsert(P, U, pass)
  PROVE  /\ id \in NodesOf(P)
         /\ Shaped(id, ToUpsert(P, U, pass)[id])
         /\ ~IsFolder(id) => ToUpsert(P, U, pass)[id].v = disk[id[2]].v
         /\ Single => ToUpsert(P, U, pass)[id] = FullRows(P, pass)[id]
<1> DEFINE Written == {t \in 1..2 : /\ t = 2 \/ (id[1] = "def" /\ id[3] \in disk[id[2]].c.twins)
                                    /\ ~AlreadyStored(id, Row(id, t, P, pass), U)}
<1>1. /\ id \in NodesOf(P) /\ Written # {}
      /\ ToUpsert(P, U, pass)[id] = Row(id, IF 2 \in Written THEN 2 ELSE 1, P, pass)
  BY DEF ToUpsert
<1>2. FullRows(P, pass)[id] = Row(id, 2, P, pass)
  BY <1>1 DEF FullRows
<1>3. P \subseteq Files
  BY DEF Present
<1>4. 2 \notin Written => id[1] = "def" /\ id[3] \in disk[id[2]].c.twins
  BY <1>1
<1>5. id[1] = "def" => ~IsFolder(id)
  BY DEF IsFolder
<1>6. 2 \notin Written => ~Single
  <2> SUFFICES ASSUME 2 \notin Written, Single
               PROVE  FALSE
    OBVIOUS
  <2>1. id[2] \in P
    BY <1>1, <1>4, <1>5, NodesAreParsed
  <2>2. disk[id[2]].c \in Contents
    BY <2>1 DEF Stored
  <2> QED
    BY <2>2, <1>4 DEF Single
<1> HIDE DEF Written
<1> QED
  BY <1>1, <1>2, <1>3, <1>4, <1>5, <1>6, RowIsShaped

\* Two shaped rows of one id that agree where a narrowed write compares them and on the
\* version are one.
LEMMA ShapedIsDecided ==
  ASSUME NEW id, NEW r, NEW s, Shaped(id, r), Shaped(id, s), Single,
         r.v = s.v, r.outside = s.outside, r.by = s.by
  PROVE  r = s
BY DEF Shaped

\* A row that is not written is stored as the build would store it.
LEMMA UnwrittenRows ==
  ASSUME Project, Stored, StampIsOfRows, NEW P, P \subseteq Present, NEW U, NEW pass,
         \A f \in U : f \in Present /\ stamp[f] = disk[f].v,
         NEW id \in NodesOf(P), id \notin DOMAIN ToUpsert(P, U, pass)
  PROVE  /\ id \in DOMAIN rows
         /\ Row(id, 2, P, pass).file \in U
         /\ Single => Matches(id, rows, FullRows(P, pass))
<1> DEFINE Written == {t \in 1..2 : /\ t = 2 \/ (id[1] = "def" /\ id[3] \in disk[id[2]].c.twins)
                                    /\ ~AlreadyStored(id, Row(id, t, P, pass), U)}
<1>1. Written = {}
  BY DEF ToUpsert
<1>2. AlreadyStored(id, Row(id, 2, P, pass), U)
  BY <1>1
<1> HIDE DEF Written
<1>3. /\ id \in DOMAIN rows /\ Row(id, 2, P, pass).file \in U
      /\ Alike(rows[id], Row(id, 2, P, pass))
  BY <1>2 DEF AlreadyStored
<1>4. P \subseteq Files
  BY DEF Present
<1>5. Shaped(id, rows[id]) /\ Shaped(id, Row(id, 2, P, pass))
  BY <1>3, <1>4, StoredNamesFile, RowIsShaped
<1>6. IsFolder(id) \/ id[2] \notin stuck => rows[id].v = Row(id, 2, P, pass).v
  <2>1. CASE IsFolder(id)
    BY <1>5, <2>1 DEF Shaped, IsFolder
  <2>2. CASE ~IsFolder(id) /\ id[2] \notin stuck
    <3>1. Row(id, 2, P, pass).file = id[2]
      BY <1>5 DEF Shaped
    <3>2. id[2] \in Present /\ stamp[id[2]] = disk[id[2]].v
      BY <1>3, <3>1
    <3>3. rows[id].v = disk[id[2]].v
      BY <1>3, <2>2, <3>2 DEF StampIsOfRows
    <3> QED
      BY <3>3, <2>2, <1>4, RowIsShaped
  <2> QED
    BY <2>1, <2>2
<1>7. FullRows(P, pass)[id] = Row(id, 2, P, pass)
  BY DEF FullRows
<1>8. Single /\ (IsFolder(id) \/ id[2] \notin stuck) => rows[id] = Row(id, 2, P, pass)
  BY <1>3, <1>5, <1>6, ShapedIsDecided DEF Alike
<1> QED
  BY <1>3, <1>7, <1>8 DEF Matches

\* A row of a file that changed is written.
LEMMA UnwrittenRowIsUnchanged ==
  ASSUME NEW P, NEW U, NEW pass, NEW id \in NodesOf(P), Row(id, 2, P, pass).file \notin U
  PROVE  id \in DOMAIN ToUpsert(P, U, pass)
BY DEF ToUpsert, AlreadyStored

\* What is written of the edges is the build's, and what is not is stored so.
LEMMA WrittenEdges ==
  ASSUME Project, Stored, NEW P, P \subseteq Present, NEW pass
  PROVE  /\ DOMAIN ToMerge(P, pass) \subseteq DOMAIN FullEdges(P, pass)
         /\ \A k \in DOMAIN ToMerge(P, pass) : ToMerge(P, pass)[k] = FullEdges(P, pass)[k]
         /\ \A k \in (DOMAIN FullEdges(P, pass)) \ DOMAIN ToMerge(P, pass) :
              k \in DOMAIN edges /\ edges[k] = FullEdges(P, pass)[k]
<1> DEFINE full == FullEdges(P, pass)
           due == {k \in DOMAIN full : NeedsWrite(k, full[k])}
<1>1. ToMerge(P, pass) = RestrictTo(full, due)
  BY DEF ToMerge
<1>2. \A k \in DOMAIN full : /\ k[2] = "CONTAINS" => full[k] = 0
                             /\ k[2] \in {"CONTAINS", "CALLS", "IMPORTS"}
  BY EdgesAreParsed
<1>5. due \subseteq DOMAIN full
  OBVIOUS
<1> HIDE DEF full, due
<1>3. DOMAIN ToMerge(P, pass) = due /\ \A k \in due : ToMerge(P, pass)[k] = full[k]
  BY <1>1, <1>5 DEF RestrictTo
<1>4. ASSUME NEW k \in (DOMAIN full) \ due
      PROVE  k \in DOMAIN edges /\ edges[k] = full[k]
  BY <1>2 DEF NeedsWrite, Stored, due
<1> QED
  BY <1>3, <1>4, <1>5 DEF full

\* A new plan is safe.
LEMMA StartIsSafe ==
  ASSUME Project, Stored, NEW asked, NEW explicit, NEW m, NEW pass,
         run' = Plan(asked, explicit, m, pass)
  PROVE  PlanIsSafe'
<1> DEFINE P == Produced(asked, m)
           U == Unchanged(asked, m)
           gone == ConfirmedDeleted(asked, m)
<1>1. P \subseteq Present /\ P \subseteq Files /\ P \cap gone = {}
  BY ReadOrGone DEF Present
<1>2. /\ DOMAIN run' = Fields
      /\ run'.rows = ToUpsert(P, U, pass) /\ run'.edges = ToMerge(P, pass) /\ run'.refs = Refs(P)
      /\ run'.staleNodes = StaleNodes(P, gone) /\ run'.staleEdges = StaleEdges(P, pass)
      /\ run'.fullRows = FullRows(P, pass) /\ run'.fullEdges = FullEdges(P, pass)
  BY DEF Plan, Fields
<1> HIDE DEF P, U, gone
<1>3. /\ DOMAIN FullRows(P, pass) = NodesOf(P)
      /\ \A id \in NodesOf(P) : Shaped(id, FullRows(P, pass)[id])
  BY <1>1, RowIsShaped DEF FullRows
<1>4. /\ DOMAIN ToUpsert(P, U, pass) \subseteq NodesOf(P)
      /\ \A id \in DOMAIN ToUpsert(P, U, pass) :
           /\ Shaped(id, ToUpsert(P, U, pass)[id])
           /\ Single => ToUpsert(P, U, pass)[id] = FullRows(P, pass)[id]
  BY <1>1, WrittenRows
<1>5. \A id \in StaleNodes(P, gone) : id \notin NodesOf(P) /\ IsNode(id) /\ id # Folder(Root)
  BY <1>1, StaleIsNotParsed
<1>6. /\ DOMAIN ToMerge(P, pass) \subseteq DOMAIN FullEdges(P, pass)
      /\ \A k \in DOMAIN ToMerge(P, pass) : ToMerge(P, pass)[k] = FullEdges(P, pass)[k]
  BY <1>1, WrittenEdges
<1>7. \A k \in DOMAIN FullEdges(P, pass) :
        /\ k[1] \in NodesOf(P) /\ k[3] \in NodesOf(P) \cup Refs(P)
        /\ k[2] = "CONTAINS" => FullEdges(P, pass)[k] = 0
  BY <1>1, EdgesAreParsed
<1>8. \A k \in StaleEdges(P, pass) : k \notin DOMAIN FullEdges(P, pass)
  BY DEF StaleEdges
<1>9. \A x \in Refs(P) : x[1] = "ext"
  BY RefsAreExternal
<1> QED
  BY <1>2, <1>3, <1>4, <1>5, <1>6, <1>7, <1>8, <1>9 DEF PlanIsSafe

\* A stored node that no parse of this run gave is dropped, or it is a row to be kept.
LEMMA StaleOrKept ==
  ASSUME Stored, NEW P, NEW gone, P \cap gone = {}, gone \subseteq IndexedFiles,
         NEW kept, kept = IndexedFiles \ (P \cup gone),
         NEW id \in DOMAIN rows, id \notin NodesOf(P)
  PROVE  id \in StaleNodes(P, gone) <=>
           ~ (IF IsFolder(id) THEN id[2] \in NeededDirs(kept \cup P) ELSE rows[id].file \in kept)
<1>1. (IndexedFiles \ gone) \cup P = kept \cup P
  BY DEF NeededDirs
<1>2. CASE IsFolder(id)
  BY <1>1, <1>2 DEF StaleNodes
<1>3. CASE ~IsFolder(id)
  <2>1. rows[id].file \in IndexedFiles
    BY <1>3, StoredNamesFile
  <2> QED
    BY <1>3, <2>1 DEF StaleNodes
<1> QED
  BY <1>2, <1>3

\* A new plan is exact.
LEMMA StartIsExact ==
  ASSUME Project, Stored, StampIsOfRows, NEW asked, NEW explicit, NEW m, NEW pass,
         run' = Plan(asked, explicit, m, pass), stuck' = stuck
  PROVE  PlanIsExact'
<1> DEFINE P == Produced(asked, m)
           U == Unchanged(asked, m)
           gone == ConfirmedDeleted(asked, m)
           kept == IndexedFiles \ (P \cup gone)
<1>1. /\ P \subseteq Present /\ P \cap gone = {} /\ gone \subseteq IndexedFiles
      /\ \A f \in U : f \in Present /\ stamp[f] = disk[f].v
  BY ReadOrGone
<1>2. /\ run'.rows = ToUpsert(P, U, pass) /\ run'.edges = ToMerge(P, pass) /\ run'.refs = Refs(P)
      /\ run'.staleNodes = StaleNodes(P, gone) /\ run'.staleEdges = StaleEdges(P, pass)
      /\ run'.fullRows = FullRows(P, pass) /\ run'.fullEdges = FullEdges(P, pass)
      /\ run'.produced = P /\ run'.gone = gone
      /\ run'.before = [rows |-> rows, edges |-> edges]
  BY DEF Plan
<1>3. run'.before.rows = rows /\ run'.before.edges = edges
  BY <1>2
<1>4. Kept' = kept
  BY <1>2, <1>3 DEF Kept, IndexedFiles
<1> DEFINE keep(id) ==
             IF IsFolder(id) THEN id[2] \in NeededDirs(kept \cup P) ELSE rows[id].file \in kept
<1>12. KeptRows' = RestrictTo(rows, {id \in DOMAIN rows : keep(id)})
  BY <1>2, <1>3, <1>4 DEF KeptRows
<1>5. DOMAIN KeptRows' = {id \in DOMAIN rows : keep(id)}
  BY <1>12 DEF RestrictTo
<1> HIDE DEF P, U, gone
<1>6. DOMAIN FullRows(P, pass) = NodesOf(P)
  BY DEF FullRows
<1>7. \A id \in NodesOf(P) \ DOMAIN ToUpsert(P, U, pass) :
        id \in DOMAIN rows /\ (Single => Matches(id, rows, FullRows(P, pass)))
  BY <1>1, UnwrittenRows
<1>13. \A id : Matches(id, rows, FullRows(P, pass)) => Matches(id, run.before.rows, run.fullRows)'
  BY <1>2, <1>3 DEF Matches
<1>8. \A id \in (DOMAIN rows) \ NodesOf(P) : id \in StaleNodes(P, gone) <=> id \notin DOMAIN KeptRows'
  BY <1>1, <1>5, StaleOrKept
<1>9. \A k \in (DOMAIN FullEdges(P, pass)) \ DOMAIN ToMerge(P, pass) :
        k \in DOMAIN edges /\ edges[k] = FullEdges(P, pass)[k]
  BY <1>1, WrittenEdges
<1>10. \A k \in DOMAIN edges :
         k \in StaleEdges(P, pass) <=> /\ k \notin DOMAIN FullEdges(P, pass)
                                       /\ {k[1], k[3]} \subseteq NodesOf(P) \cup Refs(P)
  BY DEF StaleEdges
<1>11. IsFunction(rows) /\ IsFunction(edges)
  BY DEF Stored
<1> QED
  BY <1>2, <1>3, <1>6, <1>7, <1>8, <1>9, <1>10, <1>11, <1>13 DEF PlanIsExact
-----------------------------------------------------------------------------
(* What the writes do, point by point.                                     *)

\* The environment stands while a run writes.
Stands == UNCHANGED <<disk, edits, scopes, whole>>

\* A write ends the phase, or the run, and then its plan is gone.
Dies == pc' = "idle" /\ run' = NoRun
Ends(part, all, next) == (part = all /\ pc' = next /\ run' = run) \/ Dies

\* A batch is made of what is written.
LEMMA BatchIsPart ==
  ASSUME NEW all, NEW K
  PROVE  /\ \A part \in Batches(all, Label) : part \subseteq all
         /\ \A part \in Batches(all, Type) : part \subseteq all
         /\ \A part \in Batches(all, Itself) : part \subseteq all
BY DEF Batches

\* UpsertNodes puts some of the plan's rows over the stored ones.
LEMMA UpsertNodesIs ==
  ASSUME UpsertNodes
  PROVE  /\ pc = "nodes" /\ Stands /\ UNCHANGED <<edges, externals, stamp, chunks, stuck>>
         /\ \E part : /\ part \subseteq DOMAIN run.rows /\ Ends(part, DOMAIN run.rows, "externals")
                      /\ rows' = Over(RestrictTo(run.rows, part), rows)
<1>1. PICK part \in Batches(DOMAIN run.rows, Label) :
        /\ Lands(part, DOMAIN run.rows, "externals")
        /\ rows' = Over(RestrictTo(run.rows, part), rows)
  BY DEF UpsertNodes
<1>2. part \subseteq DOMAIN run.rows
  BY BatchIsPart
<1>3. Ends(part, DOMAIN run.rows, "externals") /\ Stands
  BY <1>1 DEF Lands, Ends, Dies, Stands
<1>4. pc = "nodes" /\ UNCHANGED <<edges, externals, stamp, chunks, stuck>>
  BY DEF UpsertNodes
<1> QED
  BY <1>1, <1>2, <1>3, <1>4

\* UpsertExternals adds some of the plan's dependencies.
LEMMA UpsertExternalsIs ==
  ASSUME UpsertExternals
  PROVE  /\ pc = "externals" /\ Stands /\ UNCHANGED <<rows, edges, stamp, chunks, stuck>>
         /\ \E part : /\ part \subseteq run.refs /\ Ends(part, run.refs, "edges")
                      /\ externals' = externals \cup part
<1>1. PICK part \in Batches(run.refs, Label) :
        Lands(part, run.refs, "edges") /\ externals' = externals \cup part
  BY DEF UpsertExternals
<1>2. part \subseteq run.refs
  BY BatchIsPart
<1>3. Ends(part, run.refs, "edges") /\ Stands
  BY <1>1 DEF Lands, Ends, Dies, Stands
<1>4. pc = "externals" /\ UNCHANGED <<rows, edges, stamp, chunks, stuck>>
  BY DEF UpsertExternals
<1> QED
  BY <1>1, <1>2, <1>3, <1>4

\* UpsertEdges puts some of the plan's edges over the stored ones.
LEMMA UpsertEdgesIs ==
  ASSUME UpsertEdges
  PROVE  /\ pc = "edges" /\ Stands /\ UNCHANGED <<rows, externals, stamp, chunks, stuck>>
         /\ \E part : /\ part \subseteq DOMAIN run.edges /\ Ends(part, DOMAIN run.edges, "drop_nodes")
                      /\ edges' = Over(Joined(RestrictTo(run.edges, part)), edges)
<1>1. PICK part \in Batches(DOMAIN run.edges, Type) :
        /\ Lands(part, DOMAIN run.edges, "drop_nodes")
        /\ edges' = Over(Joined(RestrictTo(run.edges, part)), edges)
  BY DEF UpsertEdges
<1>2. part \subseteq DOMAIN run.edges
  BY BatchIsPart
<1>3. Ends(part, DOMAIN run.edges, "drop_nodes") /\ Stands
  BY <1>1 DEF Lands, Ends, Dies, Stands
<1>4. pc = "edges" /\ UNCHANGED <<rows, externals, stamp, chunks, stuck>>
  BY DEF UpsertEdges
<1> QED
  BY <1>1, <1>2, <1>3, <1>4

\* DeleteNodes detaches some of the stale nodes.
LEMMA DeleteNodesIs ==
  ASSUME DeleteNodes
  PROVE  /\ pc = "drop_nodes" /\ Stands /\ UNCHANGED <<externals, chunks, stuck>>
         /\ \E part : /\ part \subseteq run.staleNodes /\ Ends(part, run.staleNodes, "drop_edges")
                      /\ Detached(part)
<1>1. PICK part \in Batches(run.staleNodes, Label) :
        Lands(part, run.staleNodes, "drop_edges") /\ Detached(part)
  BY DEF DeleteNodes
<1>2. part \subseteq run.staleNodes
  BY BatchIsPart
<1>3. Ends(part, run.staleNodes, "drop_edges") /\ Stands
  BY <1>1 DEF Lands, Ends, Dies, Stands
<1>4. pc = "drop_nodes" /\ UNCHANGED <<externals, chunks, stuck>>
  BY DEF DeleteNodes
<1> QED
  BY <1>1, <1>2, <1>3, <1>4

\* DeleteEdges removes some of the stale edges.
LEMMA DeleteEdgesIs ==
  ASSUME DeleteEdges
  PROVE  /\ pc = "drop_edges" /\ Stands /\ UNCHANGED <<rows, externals, stamp, chunks, stuck>>
         /\ \E part : /\ part \subseteq run.staleEdges /\ Ends(part, run.staleEdges, "sweep")
                      /\ edges' = RestrictTo(edges, DOMAIN edges \ part)
<1>1. PICK part \in Batches(run.staleEdges, Type) :
        /\ Lands(part, run.staleEdges, "sweep")
        /\ edges' = RestrictTo(edges, DOMAIN edges \ part)
  BY DEF DeleteEdges
<1>2. part \subseteq run.staleEdges
  BY BatchIsPart
<1>3. Ends(part, run.staleEdges, "sweep") /\ Stands
  BY <1>1 DEF Lands, Ends, Dies, Stands
<1>4. pc = "drop_edges" /\ UNCHANGED <<rows, externals, stamp, chunks, stuck>>
  BY DEF DeleteEdges
<1> QED
  BY <1>1, <1>2, <1>3, <1>4

\* Sweep removes dependencies no edge leads to.
LEMMA SweepIs ==
  ASSUME Sweep
  PROVE  /\ pc = "sweep" /\ Stands /\ UNCHANGED <<rows, edges, stamp, chunks, stuck>>
         /\ Dies \/ (pc' = "checksums" /\ run' = run)
         /\ externals' \subseteq externals
         /\ \A x \in externals \ externals' : \A k \in DOMAIN edges : k[3] # x
<1> DEFINE orphans == {x \in externals : \A k \in DOMAIN edges : k[3] # x}
<1>1. PICK part \in Batches(orphans, Label) :
        Lands(part, orphans, "checksums") /\ externals' = externals \ part
  BY DEF Sweep
<1>2. part \subseteq orphans
  BY BatchIsPart
<1>3. (Dies \/ (pc' = "checksums" /\ run' = run)) /\ Stands
  BY <1>1 DEF Lands, Dies, Stands
<1>4. pc = "sweep" /\ UNCHANGED <<rows, edges, stamp, chunks, stuck>>
  BY DEF Sweep
<1> QED
  BY <1>1, <1>2, <1>3, <1>4

\* PruneNodes detaches some of the refused files' nodes.
LEMMA PruneNodesIs ==
  ASSUME PruneNodes
  PROVE  /\ pc = "prune_nodes" /\ Stands /\ UNCHANGED <<externals, chunks, stuck>>
         /\ \E part : /\ part \subseteq run.nodes /\ Ends(part, run.nodes, "prune_chunks")
                      /\ Detached(part)
<1>1. PICK part \in Batches(run.nodes, Label) :
        Lands(part, run.nodes, "prune_chunks") /\ Detached(part)
  BY DEF PruneNodes
<1>2. part \subseteq run.nodes
  BY BatchIsPart
<1>3. Ends(part, run.nodes, "prune_chunks") /\ Stands
  BY <1>1 DEF Lands, Ends, Dies, Stands
<1>4. pc = "prune_nodes" /\ UNCHANGED <<externals, chunks, stuck>>
  BY DEF PruneNodes
<1> QED
  BY <1>1, <1>2, <1>3, <1>4

\* PruneChunks removes some of the refused files' chunks.
LEMMA PruneChunksIs ==
  ASSUME PruneChunks
  PROVE  /\ pc = "prune_chunks" /\ Stands /\ UNCHANGED <<rows, edges, externals, stamp, stuck>>
         /\ \E part : /\ part \subseteq run.chunks /\ Ends(part, run.chunks, "prune_scope")
                      /\ chunks' = chunks \ part
<1>1. PICK part \in Batches(run.chunks, Itself) :
        Lands(part, run.chunks, "prune_scope") /\ chunks' = chunks \ part
  BY DEF PruneChunks
<1>2. part \subseteq run.chunks
  BY BatchIsPart
<1>3. Ends(part, run.chunks, "prune_scope") /\ Stands
  BY <1>1 DEF Lands, Ends, Dies, Stands
<1>4. pc = "prune_chunks" /\ UNCHANGED <<rows, edges, externals, stamp, stuck>>
  BY DEF PruneChunks
<1> QED
  BY <1>1, <1>2, <1>3, <1>4

\* A row that was lost took its edges and its checksum, the root's the scope; or an edge
\* was lost.
LEMMA LoseRowIs ==
  ASSUME LoseRow
  PROVE  /\ pc \in {"externals", "drop_nodes"}
         /\ UNCHANGED <<disk, edits, daemon, externals, chunks, whole, pruned, pc, stuck>>
         /\ run' = [run EXCEPT !.before = NoRun]
         /\ \/ \E id \in DOMAIN run.rows :
                 /\ Detached({id})
                 /\ \/ id = Folder(Root) /\ exposed' = exposed \cup pruned
                    \/ id # Folder(Root) /\ UNCHANGED <<scope, exposed>>
            \/ (\E S : edges' = RestrictTo(edges, S)) /\ UNCHANGED <<rows, stamp, scope, exposed>>
<1>1. CASE pc = "externals"
  BY <1>1 DEF LoseRow
<1>2. CASE pc = "drop_nodes"
  BY <1>2 DEF LoseRow
<1> QED
  BY <1>1, <1>2 DEF LoseRow

\* Checksums puts the planned checksum on some of the files with a module node, and
\* remembers those of them that were not parsed.
LEMMA ChecksumsIs ==
  ASSUME Checksums
  PROVE  /\ pc = "checksums" /\ Stands /\ UNCHANGED <<rows, edges, externals, chunks>>
         /\ Dies \/ (pc' \in {"scope", "chunks"} /\ run' = run)
         /\ \E stamped :
              /\ stamped \subseteq DOMAIN run.stamps /\ \A f \in stamped : Mod(f) \in DOMAIN rows
              /\ stamp' = [f \in Files |-> IF f \in stamped THEN run.stamps[f] ELSE stamp[f]]
              /\ stuck' = (stuck \ stamped) \cup (stamped \ run.produced)
<1>1. PICK part \in Batches(DOMAIN run.stamps, Itself) :
        LET stamped == {f \in part : Mod(f) \in DOMAIN rows} IN
          /\ Lands(part, DOMAIN run.stamps, IF run.explicit THEN "scope" ELSE "chunks")
          /\ stamp' = [f \in Files |-> IF f \in stamped THEN run.stamps[f] ELSE stamp[f]]
          /\ stuck' = (stuck \ stamped) \cup (stamped \ run.produced)
  BY DEF Checksums
<1> DEFINE stamped == {f \in part : Mod(f) \in DOMAIN rows}
<1>2. stamped \subseteq DOMAIN run.stamps /\ \A f \in stamped : Mod(f) \in DOMAIN rows
  BY BatchIsPart
<1>3. /\ Lands(part, DOMAIN run.stamps, IF run.explicit THEN "scope" ELSE "chunks")
      /\ stamp' = [f \in Files |-> IF f \in stamped THEN run.stamps[f] ELSE stamp[f]]
      /\ stuck' = (stuck \ stamped) \cup (stamped \ run.produced)
  BY <1>1
<1>4. (Dies \/ (pc' \in {"scope", "chunks"} /\ run' = run)) /\ Stands
  BY <1>3 DEF Lands, Dies, Stands
<1>5. pc = "checksums" /\ UNCHANGED <<rows, edges, externals, chunks>>
  BY DEF Checksums
<1> QED
  BY <1>2, <1>3, <1>4, <1>5

\* IndexChunks ends the run, whole if it lost nothing on the way.
LEMMA IndexChunksIs ==
  ASSUME IndexChunks
  PROVE  /\ pc = "chunks" /\ pc' = "idle"
         /\ UNCHANGED <<disk, edits, scopes, rows, edges, externals, stamp, stuck>>
         /\ chunks' \subseteq chunks \cup run.produced
         /\ \/ run' = run /\ whole' = (run.before # NoRun)
            \/ run' = NoRun /\ whole' = FALSE
BY DEF IndexChunks

\* Nodes that are detached take their edges and checksums with them, and nothing else.
LEMMA DetachedIs ==
  ASSUME NEW ids, Detached(ids)
  PROVE  /\ DOMAIN rows' = (DOMAIN rows) \ ids
         /\ \A id \in DOMAIN rows' : rows'[id] = rows[id]
         /\ DOMAIN edges' = {k \in DOMAIN edges : k[1] \notin ids /\ k[3] \notin ids}
         /\ \A k \in DOMAIN edges' : edges'[k] = edges[k]
         /\ \A f \in Files : stamp'[f] = IF Mod(f) \in ids THEN 0 ELSE stamp[f]
         /\ IsFunction(rows') /\ IsFunction(edges') /\ IsFunction(stamp') /\ DOMAIN stamp' = Files
<1>1. /\ rows' = RestrictTo(rows, (DOMAIN rows) \ ids)
      /\ edges' = RestrictTo(edges, {k \in DOMAIN edges : {k[1], k[3]} \cap ids = {}})
      /\ stamp' = [f \in Files |-> IF Mod(f) \in ids THEN 0 ELSE stamp[f]]
  BY DEF Detached
<1>2. DOMAIN rows' = (DOMAIN rows) \ ids /\ \A id \in DOMAIN rows' : rows'[id] = rows[id]
  BY <1>1 DEF RestrictTo
<1>3. /\ DOMAIN edges' = {k \in DOMAIN edges : k[1] \notin ids /\ k[3] \notin ids}
      /\ \A k \in DOMAIN edges' : edges'[k] = edges[k]
  BY <1>1 DEF RestrictTo
<1>4. IsFunction(rows') /\ IsFunction(edges')
  BY <1>1, AreFunctions
<1>5. /\ \A f \in Files : stamp'[f] = IF Mod(f) \in ids THEN 0 ELSE stamp[f]
      /\ IsFunction(stamp') /\ DOMAIN stamp' = Files
  BY <1>1 DEF IsFunction
<1> QED
  BY <1>2, <1>3, <1>4, <1>5

\* A run is planned, loses a row, ends or goes on.
LEMMA WhatChangesTheRun ==
  ASSUME Next
  PROVE  Start \/ StartPrune \/ LoseRow \/ run' = run \/ run' = NoRun
BY UpsertNodesIs, UpsertExternalsIs, UpsertEdgesIs, DeleteNodesIs, DeleteEdgesIs, SweepIs,
   PruneNodesIs, PruneChunksIs, ChecksumsIs, IndexChunksIs DEF Next, Ends, Dies, Edit, ReadScope,
   PersistAsked, Reuse, PersistScope

\* A run that has ended is none that builds.
LEMMA NoRunIsNoBuild ==
  ASSUME run' = NoRun
  PROVE  ~Building'
BY DEF Building, NoRun

\* Which checksums vouch for unparsed bytes changes when checksums are written.
LEMMA OnlyChecksumsStick ==
  ASSUME Next
  PROVE  Checksums \/ stuck' = stuck
BY UpsertNodesIs, UpsertExternalsIs, UpsertEdgesIs, DeleteNodesIs, DeleteEdgesIs, SweepIs,
   PruneNodesIs, PruneChunksIs, IndexChunksIs, LoseRowIs DEF Next, Edit, ReadScope, Start,
   PersistAsked, Reuse, StartPrune, PersistScope

-----------------------------------------------------------------------------
(* Types and ends.                                                         *)

\* The rows, by type.
RowsTyped(r) == IsFunction(r) /\ \A id \in DOMAIN r : Shaped(id, r[id])

\* The edges have their ends.
EdgesJoined(es, r, ext) ==
  /\ IsFunction(es)
  /\ \A k \in DOMAIN es : /\ k[1] \in DOMAIN r
                          /\ k[3] \in (DOMAIN r) \cup ext
                          /\ k[2] = "CONTAINS" => es[k] = 0

\* The checksums, by type.
StampsTyped(s, n, r) ==
  /\ s \in [Files -> 0..n + 1]
  /\ \A f \in Files : s[f] # 0 => Mod(f) \in DOMAIN r

\* The tree, by type.
TreeTyped(d, n) ==
  /\ n \in 0..MaxEdits /\ DOMAIN d = Files
  /\ \A f \in Files : d[f] # Absent => d[f].v \in 1..n + 1 /\ d[f].c \in Contents

\* The sets of files.
FilesTyped(c, s, p, e) ==
  c \subseteq Files /\ s \subseteq Files /\ p \subseteq Files /\ e \subseteq Files

\* Stored, in the parts that an action disturbs one at a time.
LEMMA StoredParts ==
  /\ Stored <=> /\ RowsTyped(rows) /\ EdgesJoined(edges, rows, externals)
                /\ \A x \in externals : x[1] = "ext"
                /\ StampsTyped(stamp, edits, rows) /\ TreeTyped(disk, edits)
                /\ FilesTyped(chunks, stuck, pruned, exposed)
  /\ Stored' <=> /\ RowsTyped(rows') /\ EdgesJoined(edges', rows', externals')
                 /\ \A x \in externals' : x[1] = "ext"
                 /\ StampsTyped(stamp', edits', rows') /\ TreeTyped(disk', edits')
                 /\ FilesTyped(chunks', stuck', pruned', exposed')
BY DEF Stored, RowsTyped, EdgesJoined, StampsTyped, TreeTyped, FilesTyped, Present

\* Rows put over rows stay rows.
LEMMA OverIsTyped ==
  ASSUME NEW new, NEW old, NEW part, RowsTyped(old),
         \A id \in DOMAIN new : Shaped(id, new[id])
  PROVE  /\ RowsTyped(Over(RestrictTo(new, part), old))
         /\ DOMAIN old \subseteq DOMAIN Over(RestrictTo(new, part), old)
<1> DEFINE r == RestrictTo(new, part)
           o == Over(r, old)
<1>1. DOMAIN r \subseteq DOMAIN new /\ \A id \in DOMAIN r : r[id] = new[id]
  BY RestrictIs
<1> HIDE DEF r
<1>2. /\ DOMAIN o = (DOMAIN r) \cup DOMAIN old
      /\ \A x \in DOMAIN r : o[x] = r[x]
      /\ \A x \in (DOMAIN old) \ DOMAIN r : o[x] = old[x]
  BY OverIs
<1>4. IsFunction(o)
  BY AreFunctions
<1> HIDE DEF o
<1>3. RowsTyped(o) /\ DOMAIN old \subseteq DOMAIN o
  BY <1>1, <1>2, <1>4 DEF RowsTyped
<1> QED
  BY <1>3 DEF o, r

\* Nodes that are detached leave types and ends.
LEMMA DetachedIsStored ==
  ASSUME Stored, NEW ids, Detached(ids), edits' = edits, externals' = externals,
         \A x \in externals : x \notin ids
  PROVE  RowsTyped(rows') /\ EdgesJoined(edges', rows', externals') /\ StampsTyped(stamp', edits', rows')
<1>1. /\ DOMAIN rows' = (DOMAIN rows) \ ids
      /\ \A id \in DOMAIN rows' : rows'[id] = rows[id]
      /\ DOMAIN edges' = {k \in DOMAIN edges : k[1] \notin ids /\ k[3] \notin ids}
      /\ \A k \in DOMAIN edges' : edges'[k] = edges[k]
      /\ \A f \in Files : stamp'[f] = IF Mod(f) \in ids THEN 0 ELSE stamp[f]
      /\ IsFunction(rows') /\ IsFunction(edges') /\ IsFunction(stamp') /\ DOMAIN stamp' = Files
  BY DetachedIs
<1>2. RowsTyped(rows')
  BY <1>1 DEF RowsTyped, Stored
<1>3. EdgesJoined(edges', rows', externals')
  BY <1>1 DEF EdgesJoined, Stored
<1>4. StampsTyped(stamp', edits', rows')
  BY <1>1 DEF StampsTyped, Stored, IsFunction
<1> QED
  BY <1>2, <1>3, <1>4
\* EdgesJoined, said of an edge.
LEMMA JoinedIs ==
  ASSUME NEW es, NEW r, NEW ext, IsFunction(es),
         \A k \in DOMAIN es : /\ k[1] \in DOMAIN r
                              /\ k[3] \in (DOMAIN r) \cup ext
                              /\ k[2] = "CONTAINS" => es[k] = 0
  PROVE  EdgesJoined(es, r, ext)
BY DEF EdgesJoined

\* Fewer edges have their ends.
LEMMA FewerAreJoined ==
  ASSUME NEW S, EdgesJoined(edges, rows, externals), edges' = RestrictTo(edges, S)
  PROVE  EdgesJoined(edges', rows, externals)
<1>1. /\ DOMAIN edges' \subseteq DOMAIN edges
      /\ \A k \in DOMAIN edges' : edges'[k] = edges[k]
  BY DEF RestrictTo
<1>2. IsFunction(edges')
  BY AreFunctions
<1> QED
  BY <1>1, <1>2 DEF EdgesJoined

\* A repair adds edges between stored nodes, and chunks of files with a stored module.
LEMMA ReuseIs ==
  ASSUME Reuse
  PROVE  /\ pc = "idle" /\ pc' = "idle" /\ whole' = FALSE /\ run' = NoRun
         /\ UNCHANGED <<disk, edits, rows, externals, stamp, stuck>>
         /\ DOMAIN edges \subseteq DOMAIN edges' /\ IsFunction(edges')
         /\ \A k \in (DOMAIN edges') \ DOMAIN edges :
              /\ k[1] \in DOMAIN rows /\ k[3] \in DOMAIN rows
              /\ edges'[k] = 0
         /\ \A k \in DOMAIN edges : edges'[k] = edges[k]
         /\ \A f \in chunks' : f \in chunks \/ (f \in Files /\ Mod(f) \in DOMAIN rows)
<1> DEFINE among == UNION {{<<p, "CONTAINS", id>> : p \in ParentOf(id) \cap DOMAIN rows} : id \in DOMAIN rows}
           missing == among \ DOMAIN edges
           new == [k \in missing |-> 0]
<1>1. edges' = Over(new, edges)
  BY DEF Reuse, MissingContains
<1>2. \A k \in among : k[1] \in DOMAIN rows /\ k[3] \in DOMAIN rows
  OBVIOUS
<1> HIDE DEF among
<1>3. DOMAIN new = missing /\ \A k \in missing : new[k] = 0
  OBVIOUS
<1> HIDE DEF new
<1>4. /\ DOMAIN edges' = (DOMAIN new) \cup DOMAIN edges
      /\ \A k \in DOMAIN new : edges'[k] = new[k]
      /\ \A k \in (DOMAIN edges) \ DOMAIN new : edges'[k] = edges[k]
  BY <1>1 DEF Over
<1>5. IsFunction(edges')
  BY <1>1, AreFunctions
<1>6. \A f \in chunks' : f \in chunks \/ (f \in Files /\ Mod(f) \in DOMAIN rows)
  BY DEF Reuse, Present
<1>7. /\ pc = "idle" /\ pc' = "idle" /\ whole' = FALSE /\ run' = NoRun
      /\ UNCHANGED <<disk, edits, rows, externals, stamp, stuck>>
  BY DEF Reuse
<1> QED
  BY <1>2, <1>3, <1>4, <1>5, <1>6, <1>7

\* Who asks for a scope may ask for pruned files again, which are then pruned no longer,
\* and asks for no others.
LEMMA AskedIs ==
  ASSUME NEW by, NEW asked, Asked(by, asked), PruneStands
  PROVE  /\ pruned' \subseteq pruned /\ exposed' = exposed /\ daemon' \subseteq daemon
         /\ Out' \subseteq Out /\ Admitted(asked) \cap Out' = {}
<1>1. CASE by = "caller"
  BY <1>1 DEF Asked, Out
<1>2. CASE by = "daemon"
  BY <1>2 DEF Asked, Out, PruneStands
<1>3. CASE by = "watcher"
  BY <1>3 DEF Asked, Out, PruneStands
<1> QED
  BY <1>1, <1>2, <1>3 DEF Asked

\* The types and the ends stand under every action.
LEMMA StoredStep ==
  ASSUME Project, Stored, PlanIsSafe, RunIsOfTree, PruneStands, Next
  PROVE  Stored'
<1>0. /\ RowsTyped(rows) /\ EdgesJoined(edges, rows, externals)
      /\ \A x \in externals : x[1] = "ext"
      /\ StampsTyped(stamp, edits, rows) /\ TreeTyped(disk, edits)
      /\ FilesTyped(chunks, stuck, pruned, exposed)
  BY StoredParts
<1>00. MaxEdits \in Nat /\ edits \in 0..MaxEdits
  BY DEF Project, Stored
<1>1. CASE Edit
  <2>1. edits' = edits + 1 /\ edits < MaxEdits /\ UNCHANGED <<scopes, rows, edges, externals, stamp, chunks, stuck>>
    BY <1>1 DEF Edit, store
  <2>2. PICK f \in Files, new \in {[v |-> edits + 2, c |-> c] : c \in Contents} \cup {Absent} :
          disk' = [disk EXCEPT ![f] = new]
    BY <1>1 DEF Edit
  <2>3. new # Absent => new.v = edits + 2 /\ new.c \in Contents
    OBVIOUS
  <2>4. \A g \in Files : disk'[g] # Absent =>
           \/ disk'[g].v = edits + 2 /\ disk'[g].c \in Contents
           \/ disk[g] # Absent /\ disk'[g] = disk[g]
    <3> SUFFICES ASSUME NEW g \in Files, disk'[g] # Absent
                 PROVE  \/ disk'[g].v = edits + 2 /\ disk'[g].c \in Contents
                        \/ disk[g] # Absent /\ disk'[g] = disk[g]
      OBVIOUS
    <3>1. CASE g = f
      BY <3>1, <2>2, <2>3 DEF TreeTyped
    <3>2. CASE g # f
      BY <3>2, <2>2 DEF TreeTyped
    <3> QED
      BY <3>1, <3>2
  <2>5. TreeTyped(disk', edits')
    BY <1>0, <1>00, <2>1, <2>2, <2>4 DEF TreeTyped
  <2>6. StampsTyped(stamp', edits', rows')
    BY <1>0, <2>1 DEF StampsTyped
  <2> QED
    BY <1>0, <2>1, <2>5, <2>6, StoredParts DEF scopes
<1>16. CASE ReadScope
  BY <1>16, StoredParts DEF ReadScope, store
<1>2. CASE Start
  <2>1. /\ UNCHANGED <<disk, edits, rows, edges, externals, stamp, chunks, stuck>>
        /\ pruned' \subseteq pruned /\ exposed' = exposed
    BY <1>2, AskedIs DEF Start, store
  <2> QED
    BY <1>0, <2>1, StoredParts DEF FilesTyped
<1>3. CASE UpsertNodes
  <2>1. /\ UNCHANGED <<edges, externals, stamp, chunks, stuck, disk, edits, scopes>>
        /\ pc = "nodes"
    BY <1>3, UpsertNodesIs DEF Stands
  <2>2. PICK part : rows' = Over(RestrictTo(run.rows, part), rows)
    BY <1>3, UpsertNodesIs
  <2>3. \A id \in DOMAIN run.rows : Shaped(id, run.rows[id])
    BY <2>1 DEF RunIsOfTree, PlanIsSafe, Writing
  <2>4. RowsTyped(rows') /\ DOMAIN rows \subseteq DOMAIN rows'
    BY <1>0, <2>2, <2>3, OverIsTyped
  <2>5. EdgesJoined(edges', rows', externals') /\ StampsTyped(stamp', edits', rows')
    BY <1>0, <2>1, <2>4 DEF EdgesJoined, StampsTyped
  <2> QED
    BY <1>0, <2>1, <2>4, <2>5, StoredParts DEF scopes
<1>4. CASE UpsertExternals
  <2>1. /\ UNCHANGED <<rows, edges, stamp, chunks, stuck, disk, edits, scopes>>
        /\ pc = "externals"
    BY <1>4, UpsertExternalsIs DEF Stands
  <2>2. PICK part : part \subseteq run.refs /\ externals' = externals \cup part
    BY <1>4, UpsertExternalsIs
  <2>3. \A x \in run.refs : x[1] = "ext"
    BY <2>1 DEF RunIsOfTree, PlanIsSafe, Writing
  <2>4. EdgesJoined(edges', rows', externals')
    BY <1>0, <2>1, <2>2 DEF EdgesJoined
  <2> QED
    BY <1>0, <2>1, <2>2, <2>3, <2>4, StoredParts DEF scopes
<1>5. CASE UpsertEdges
  <2>1. /\ UNCHANGED <<rows, externals, stamp, chunks, stuck, disk, edits, scopes>>
        /\ pc = "edges"
    BY <1>5, UpsertEdgesIs DEF Stands
  <2>2. PICK part : edges' = Over(Joined(RestrictTo(run.edges, part)), edges)
    BY <1>5, UpsertEdgesIs
  <2>3. \A k \in DOMAIN run.edges : /\ k[1] \in DOMAIN run.fullRows
                                    /\ k[2] = "CONTAINS" => run.edges[k] = 0
    BY <2>1 DEF RunIsOfTree, PlanIsSafe, Writing
  <2>4. \A k \in DOMAIN run.edges : IsNode(k[1])
    BY <2>1, <2>3 DEF RunIsOfTree, PlanIsSafe, Writing, Shaped
  <2> DEFINE new == Joined(RestrictTo(run.edges, part))
  <2>5. \A k \in DOMAIN new : /\ k \in DOMAIN run.edges /\ new[k] = run.edges[k]
                              /\ k[1] \in (DOMAIN rows) \cup externals
                              /\ k[3] \in (DOMAIN rows) \cup externals
    BY DEF Joined, RestrictTo
  <2> HIDE DEF new
  <2>6. \A k \in DOMAIN new : /\ k[1] \in DOMAIN rows
                              /\ k[3] \in (DOMAIN rows) \cup externals
                              /\ k[2] = "CONTAINS" => new[k] = 0
    <3>1. \A k \in DOMAIN new : k[1] \notin externals
      BY <1>0, <2>4, <2>5 DEF IsNode
    <3> QED
      BY <2>3, <2>5, <3>1
  <2>7. edges' = Over(new, edges)
    BY <2>2 DEF new
  <2>8. /\ DOMAIN edges' = (DOMAIN new) \cup DOMAIN edges
        /\ \A k \in DOMAIN new : edges'[k] = new[k]
        /\ \A k \in (DOMAIN edges) \ DOMAIN new : edges'[k] = edges[k]
    BY <2>7 DEF Over
  <2>9. IsFunction(edges')
    BY <2>7, AreFunctions
  <2>10. EdgesJoined(edges', rows', externals')
    <3>1. \A k \in DOMAIN edges' : /\ k[1] \in DOMAIN rows
                                   /\ k[3] \in (DOMAIN rows) \cup externals
                                   /\ k[2] = "CONTAINS" => edges'[k] = 0
      BY <1>0, <2>6, <2>8 DEF EdgesJoined
    <3> QED
      BY <2>1, <2>9, <3>1, JoinedIs
  <2> QED
    BY <1>0, <2>1, <2>10, StoredParts DEF scopes
<1>6. CASE DeleteNodes
  <2>1. /\ UNCHANGED <<externals, chunks, stuck, disk, edits, scopes>>
        /\ pc = "drop_nodes"
    BY <1>6, DeleteNodesIs DEF Stands
  <2>2. PICK part : part \subseteq run.staleNodes /\ Detached(part)
    BY <1>6, DeleteNodesIs
  <2>3. \A x \in externals : x \notin part
    BY <1>0, <2>1, <2>2 DEF RunIsOfTree, PlanIsSafe, Writing, IsNode
  <2>4. RowsTyped(rows') /\ EdgesJoined(edges', rows', externals') /\ StampsTyped(stamp', edits', rows')
    BY <2>1, <2>2, <2>3, DetachedIsStored
  <2> QED
    BY <1>0, <2>1, <2>4, StoredParts DEF scopes
<1>7. CASE DeleteEdges
  <2>1. /\ UNCHANGED <<rows, externals, stamp, chunks, stuck, disk, edits, scopes>>
    BY <1>7, DeleteEdgesIs DEF Stands
  <2>2. PICK S : edges' = RestrictTo(edges, S)
    BY <1>7, DeleteEdgesIs
  <2>3. EdgesJoined(edges', rows', externals')
    BY <1>0, <2>1, <2>2, FewerAreJoined
  <2> QED
    BY <1>0, <2>1, <2>3, StoredParts DEF scopes
<1>8. CASE Sweep
  <2>1. /\ UNCHANGED <<rows, edges, stamp, chunks, stuck, disk, edits, scopes>>
        /\ externals' \subseteq externals
        /\ \A x \in externals \ externals' : \A k \in DOMAIN edges : k[3] # x
    BY <1>8, SweepIs DEF Stands
  <2>2. EdgesJoined(edges', rows', externals')
    BY <1>0, <2>1 DEF EdgesJoined
  <2> QED
    BY <1>0, <2>1, <2>2, StoredParts DEF scopes
<1>9. CASE LoseRow
  <2>1. UNCHANGED <<disk, edits, externals, chunks, pruned, stuck>>
    BY <1>9, LoseRowIs
  <2>4. FilesTyped(chunks', stuck', pruned', exposed')
    BY <1>0, <1>9, <2>1, LoseRowIs DEF FilesTyped
  <2>2. CASE \E id \in DOMAIN run.rows : Detached({id})
    <3>1. PICK id \in DOMAIN run.rows : Detached({id})
      BY <2>2
    <3>2. IsNode(id)
      BY <1>9, LoseRowIs DEF RunIsOfTree, PlanIsSafe, Writing, Shaped
    <3>3. \A x \in externals : x \notin {id}
      BY <1>0, <3>2 DEF IsNode
    <3>4. RowsTyped(rows') /\ EdgesJoined(edges', rows', externals') /\ StampsTyped(stamp', edits', rows')
      BY <2>1, <3>1, <3>3, DetachedIsStored
    <3> QED
      BY <1>0, <2>1, <2>4, <3>4, StoredParts
  <2>3. CASE (\E S : edges' = RestrictTo(edges, S)) /\ UNCHANGED <<rows, stamp>>
    <3>1. PICK S : edges' = RestrictTo(edges, S)
      BY <2>3
    <3>2. EdgesJoined(edges', rows', externals')
      BY <1>0, <2>1, <2>3, <3>1, FewerAreJoined
    <3> QED
      BY <1>0, <2>1, <2>3, <2>4, <3>2, StoredParts
  <2> QED
    BY <1>9, <2>2, <2>3, LoseRowIs
<1>10. CASE Checksums
  <2>1. UNCHANGED <<disk, edits, scopes, rows, edges, externals, chunks>> /\ pc = "checksums"
    BY <1>10, ChecksumsIs DEF Stands
  <2>2. PICK stamped :
          /\ stamped \subseteq DOMAIN run.stamps /\ \A f \in stamped : Mod(f) \in DOMAIN rows
          /\ stamp' = [f \in Files |-> IF f \in stamped THEN run.stamps[f] ELSE stamp[f]]
          /\ stuck' = (stuck \ stamped) \cup (stamped \ run.produced)
    BY <1>10, ChecksumsIs
  <2>3. /\ DOMAIN run.stamps \subseteq Present
        /\ \A f \in DOMAIN run.stamps : run.stamps[f] = disk[f].v
    BY <2>1 DEF RunIsOfTree, Writing
  <2>4. \A f \in DOMAIN run.stamps : f \in Files /\ run.stamps[f] \in 1..edits + 1
    BY <1>0, <2>3 DEF TreeTyped, Present
  <2>5. StampsTyped(stamp', edits', rows')
    BY <1>0, <2>1, <2>2, <2>4 DEF StampsTyped
  <2>6. FilesTyped(chunks', stuck', pruned', exposed')
    BY <1>0, <2>1, <2>2, <2>4 DEF FilesTyped, scopes
  <2> QED
    BY <1>0, <2>1, <2>5, <2>6, StoredParts
<1>17. CASE PersistAsked
  BY <1>17, StoredParts DEF PersistAsked, store
<1>18. CASE IndexChunks
  <2>1. /\ pc = "chunks" /\ chunks' \subseteq chunks \cup run.produced
        /\ UNCHANGED <<disk, edits, scopes, rows, edges, externals, stamp, stuck>>
    BY <1>18, IndexChunksIs
  <2>2. run.produced \subseteq Files
    BY <2>1 DEF RunIsOfTree, Writing, Present
  <2> QED
    BY <1>0, <2>1, <2>2, StoredParts DEF FilesTyped, scopes
<1>11. CASE Reuse
  <2>1. UNCHANGED <<disk, edits, rows, externals, stamp, stuck>>
    BY <1>11, ReuseIs
  <2>2. /\ \A k \in DOMAIN edges' : /\ k[1] \in DOMAIN rows /\ k[3] \in (DOMAIN rows) \cup externals
                                    /\ k[2] = "CONTAINS" => edges'[k] = 0
        /\ IsFunction(edges')
    BY <1>0, <1>11, ReuseIs DEF EdgesJoined
  <2>3. EdgesJoined(edges', rows', externals')
    <3> rows' = rows /\ externals' = externals
      BY <2>1
    <3> QED
      BY <2>2, JoinedIs
  <2>4. pruned' \subseteq pruned /\ exposed' = exposed
    BY <1>11, AskedIs DEF Reuse
  <2>5. chunks' \subseteq Files
    BY <1>0, <1>11, ReuseIs DEF FilesTyped
  <2> QED
    BY <1>0, <2>1, <2>3, <2>4, <2>5, StoredParts DEF FilesTyped
<1>12. CASE StartPrune
  BY <1>12, StoredParts DEF StartPrune, store, scopes
<1>13. CASE PruneNodes
  <2>1. /\ UNCHANGED <<externals, chunks, stuck, disk, edits, scopes>>
        /\ pc = "prune_nodes"
    BY <1>13, PruneNodesIs DEF Stands
  <2>2. PICK part : part \subseteq run.nodes /\ Detached(part)
    BY <1>13, PruneNodesIs
  <2>3. \A x \in externals : x \notin part
    BY <1>0, <2>1, <2>2 DEF PruneStands, Pruning, IsNode
  <2>4. RowsTyped(rows') /\ EdgesJoined(edges', rows', externals') /\ StampsTyped(stamp', edits', rows')
    BY <2>1, <2>2, <2>3, DetachedIsStored
  <2> QED
    BY <1>0, <2>1, <2>4, StoredParts DEF scopes
<1>14. CASE PruneChunks
  <2>1. /\ UNCHANGED <<rows, edges, externals, stamp, stuck, disk, edits, scopes>>
        /\ chunks' \subseteq chunks
    BY <1>14, PruneChunksIs DEF Stands
  <2> QED
    BY <1>0, <2>1, StoredParts DEF FilesTyped, scopes
<1>15. CASE PersistScope
  <2>1. /\ pc = "prune_scope" /\ pruned' \subseteq pruned \cup run.files
        /\ exposed' \subseteq exposed \cup run.files
        /\ UNCHANGED <<disk, edits, rows, edges, externals, stamp, chunks, stuck>>
    BY <1>15 DEF PersistScope, NotHeld, store
  <2>2. run.files \subseteq Files
    BY <2>1 DEF PruneStands, Pruning
  <2> QED
    BY <1>0, <2>1, <2>2, StoredParts DEF FilesTyped
<1> QED
  BY <1>1, <1>2, <1>3, <1>4, <1>5, <1>6, <1>7, <1>8, <1>9, <1>10, <1>11, <1>12, <1>13,
     <1>14, <1>15, <1>16, <1>17, <1>18 DEF Next
-----------------------------------------------------------------------------
(* The plan and the tree it was made of.                                   *)

\* Losing a row changes nothing of the plan but that it is no longer compared.
LEMMA LoseRowKeepsPlan ==
  ASSUME PlanIsSafe, RunIsOfTree, LoseRow
  PROVE  /\ Building /\ Building' /\ DOMAIN run' = Fields /\ pc \in Writing
         /\ run'.rows = run.rows /\ run'.edges = run.edges /\ run'.refs = run.refs
         /\ run'.staleNodes = run.staleNodes /\ run'.staleEdges = run.staleEdges
         /\ run'.stamps = run.stamps /\ run'.produced = run.produced /\ run'.gone = run.gone
         /\ run'.asked = run.asked /\ run'.fullRows = run.fullRows /\ run'.fullEdges = run.fullEdges
         /\ run'.before = NoRun
<1>1. pc \in {"externals", "drop_nodes"} /\ run' = [run EXCEPT !.before = NoRun]
  BY LoseRowIs
<1>2. Building /\ DOMAIN run = Fields /\ pc \in Writing
  BY <1>1 DEF RunIsOfTree, PlanIsSafe, Writing
<1>3. DOMAIN run' = Fields /\ Building'
  BY <1>1, <1>2 DEF Building
<1> QED
  BY <1>1, <1>2, <1>3 DEF Fields

\* A plan for a prune is none for a build.
LEMMA PruneIsNoBuild ==
  ASSUME StartPrune
  PROVE  ~Building'
BY DEF StartPrune, PrunePlan, Building

\* PlanIsSafe is about the plan alone.
LEMMA PlanSafeStep ==
  ASSUME Project, Stored, PlanIsSafe, RunIsOfTree, Next
  PROVE  PlanIsSafe'
<1>5. CASE run' = NoRun
  BY <1>5, NoRunIsNoBuild DEF PlanIsSafe
<1>1. CASE Start
  <2>1. \E asked, explicit, m, pass : run' = Plan(asked, explicit, m, pass)
    BY <1>1 DEF Start
  <2> QED
    BY <2>1, StartIsSafe
<1>2. CASE StartPrune
  BY <1>2, PruneIsNoBuild DEF PlanIsSafe
<1>3. CASE LoseRow
  BY <1>3, LoseRowKeepsPlan DEF PlanIsSafe
<1>4. CASE run' = run
  BY <1>4 DEF PlanIsSafe, Building
<1> QED
  BY <1>1, <1>2, <1>3, <1>4, <1>5, WhatChangesTheRun

\* So is PlanIsExact, and a plan that is not compared has nothing to be exact about.
LEMMA PlanExactStep ==
  ASSUME Project, Stored, StampIsOfRows, PlanIsSafe, PlanIsExact, RunIsOfTree, Next
  PROVE  PlanIsExact'
<1>1. CASE Start
  <2>1. /\ \E asked, explicit, m, pass : run' = Plan(asked, explicit, m, pass)
        /\ stuck' = stuck
    BY <1>1 DEF Start
  <2> QED
    BY <2>1, StartIsExact
<1>5. CASE run' = NoRun
  BY <1>5, NoRunIsNoBuild DEF PlanIsExact
<1>2. CASE StartPrune
  BY <1>2, PruneIsNoBuild DEF PlanIsExact
<1>3. CASE LoseRow
  BY <1>3, LoseRowKeepsPlan DEF PlanIsExact
<1>4. CASE run' = run
  <2>1. KeptRows' = KeptRows
    BY <1>4 DEF KeptRows, Kept
  <2>2. (Building' <=> Building) /\ run'.before = run.before
    BY <1>4 DEF Building
  <2>3. CASE stuck' = stuck
    <3>1. \A id : Matches(id, run.before.rows, run.fullRows)' = Matches(id, run.before.rows, run.fullRows)
      BY <1>4, <2>3 DEF Matches
    <3> QED
      BY <1>4, <2>1, <2>2, <3>1 DEF PlanIsExact
  <2>4. CASE Checksums
    <3>1. pc = "checksums"
      BY <2>4, ChecksumsIs
    <3>2. PICK stamped : /\ stamped \subseteq DOMAIN run.stamps
                         /\ stuck' = (stuck \ stamped) \cup (stamped \ run.produced)
      BY <2>4, ChecksumsIs
    <3>3. \A id \in DOMAIN run.fullRows \ DOMAIN run.rows : IsFolder(id) \/ id[2] \notin DOMAIN run.stamps
      BY <3>1 DEF RunIsOfTree, Writing
    <3>4. \A id \in DOMAIN run.fullRows \ DOMAIN run.rows :
            Matches(id, run.before.rows, run.fullRows) => Matches(id, run.before.rows, run.fullRows)'
      BY <1>4, <3>2, <3>3 DEF Matches
    <3> QED
      BY <1>4, <2>1, <2>2, <3>4 DEF PlanIsExact
  <2> QED
    BY <2>3, <2>4, OnlyChecksumsStick
<1> QED
  BY <1>1, <1>2, <1>3, <1>4, <1>5, WhatChangesTheRun

\* Rows that are upserted have the bytes on disk.
LEMMA UpsertedRows ==
  ASSUME Stored, PlanIsSafe, RunIsOfTree, UpsertNodes
  PROVE  /\ \A id \in DOMAIN rows' :
              \/ id \in DOMAIN run.rows /\ rows'[id] = run.rows[id]
              \/ id \in DOMAIN rows /\ rows'[id] = rows[id]
         /\ \A id \in DOMAIN run.rows : ~IsFolder(id) => run.rows[id].v = disk[id[2]].v
<1>1. PICK part : rows' = Over(RestrictTo(run.rows, part), rows)
  BY UpsertNodesIs
<1>2. \A id \in DOMAIN rows' : \/ id \in DOMAIN run.rows /\ rows'[id] = run.rows[id]
                               \/ id \in DOMAIN rows /\ rows'[id] = rows[id]
  BY <1>1 DEF Over, RestrictTo
<1>3. pc = "nodes"
  BY UpsertNodesIs
<1> QED
  BY <1>2, <1>3 DEF RunIsOfTree, Writing

\* Detached rows take their checksum along.
LEMMA DetachedKeepsStamp ==
  ASSUME Stored, StampIsOfRows, NEW ids, Detached(ids), UNCHANGED <<disk, stuck>>
  PROVE  StampIsOfRows'
<1>1. /\ \A id \in DOMAIN rows' : id \in DOMAIN rows /\ rows'[id] = rows[id]
      /\ \A f \in Files : stamp'[f] \in {0, stamp[f]}
  BY DetachedIs
<1>2. \A f \in Present : disk[f].v # 0
  BY DEF Stored
<1>3. Present' = Present
  BY DEF Present
<1> QED
  BY <1>1, <1>2, <1>3 DEF StampIsOfRows, Present

\* Bytes that hash to the checksum have their rows, under every action.
LEMMA StampStep ==
  ASSUME Project, Stored, StampIsOfRows, PlanIsSafe, RunIsOfTree, Next
  PROVE  StampIsOfRows'
<1>1. CASE Edit
  <2>1. UNCHANGED <<rows, stamp, stuck>>
    BY <1>1 DEF Edit, store
  <2>2. PICK f \in Files, new \in {[v |-> edits + 2, c |-> c] : c \in Contents} \cup {Absent} :
          disk' = [disk EXCEPT ![f] = new]
    BY <1>1 DEF Edit
  <2>3. new # Absent => new.v = edits + 2
    OBVIOUS
  <2>4. disk'[f] = new /\ \A g \in Files : g # f => disk'[g] = disk[g]
    BY <2>2 DEF Stored
  <2>5. stamp[f] # edits + 2
    BY DEF Stored
  <2> QED
    BY <2>1, <2>3, <2>4, <2>5 DEF StampIsOfRows, Present
<1>2. CASE UpsertNodes
  <2>1. UNCHANGED <<disk, stamp, stuck>>
    BY <1>2, UpsertNodesIs DEF Stands
  <2> QED
    BY <1>2, <2>1, UpsertedRows DEF StampIsOfRows, Present
<1>3. CASE DeleteNodes \/ PruneNodes \/ (LoseRow /\ \E id \in DOMAIN run.rows : Detached({id}))
  <2>1. UNCHANGED <<disk, stuck>>
    BY <1>3, DeleteNodesIs, PruneNodesIs, LoseRowIs DEF Stands
  <2>2. \E ids : Detached(ids)
    BY <1>3, DeleteNodesIs, PruneNodesIs
  <2> QED
    BY <2>1, <2>2, DetachedKeepsStamp
<1>4. CASE Checksums
  <2>1. UNCHANGED <<disk, rows>> /\ pc = "checksums"
    BY <1>4, ChecksumsIs DEF Stands
  <2>5. PICK stamped :
          /\ stamped \subseteq DOMAIN run.stamps
          /\ stamp' = [f \in Files |-> IF f \in stamped THEN run.stamps[f] ELSE stamp[f]]
          /\ stuck' = (stuck \ stamped) \cup (stamped \ run.produced)
    BY <1>4, ChecksumsIs
  <2>2. /\ \A id \in DOMAIN rows :
             ~IsFolder(id) /\ id[2] \in run.produced => id \in DOMAIN run.fullRows \cup run.staleNodes
        /\ DOMAIN rows \cap run.staleNodes = {}
        /\ \A id \in DOMAIN rows \cap DOMAIN run.fullRows :
             ~IsFolder(id) /\ id[2] \in DOMAIN run.stamps => rows[id].v = disk[id[2]].v
    BY <2>1 DEF RunIsOfTree, Writing, Late
  <2>3. \A id \in DOMAIN rows :
          ~IsFolder(id) /\ id[2] \in stamped /\ id[2] \notin stuck' => rows[id].v = disk[id[2]].v
    BY <2>2, <2>5
  <2>4. \A f \in Files : f \in stamped \/ (stamp'[f] = stamp[f] /\ (f \in stuck' <=> f \in stuck))
    BY <2>5
  <2> QED
    BY <2>1, <2>3, <2>4 DEF StampIsOfRows, Present
<1>5. CASE UNCHANGED <<disk, rows, stamp, stuck>>
  BY <1>5 DEF StampIsOfRows, Present
<1>6. CASE ReadScope \/ Start \/ PersistAsked \/ IndexChunks \/ Reuse \/ StartPrune \/ PersistScope
  <2>1. UNCHANGED <<disk, rows, stamp, stuck>>
    BY <1>6, IndexChunksIs, ReuseIs DEF ReadScope, Start, PersistAsked, StartPrune, PersistScope, store
  <2> QED
    BY <1>5, <2>1
<1>7. CASE UpsertExternals \/ UpsertEdges \/ DeleteEdges \/ Sweep \/ PruneChunks
  <2>1. UNCHANGED <<disk, rows, stamp, stuck>>
    BY <1>7, UpsertExternalsIs, UpsertEdgesIs, DeleteEdgesIs, SweepIs, PruneChunksIs DEF Stands
  <2> QED
    BY <1>5, <2>1
<1>8. CASE LoseRow /\ UNCHANGED <<rows, stamp>>
  BY <1>5, <1>8, LoseRowIs
<1> QED
  BY <1>1, <1>2, <1>3, <1>4, <1>6, <1>7, <1>8, LoseRowIs DEF Next

\* The plan of a new build is of the tree that is on disk.
LEMMA StartIsOfTree ==
  ASSUME Project, Stored, PlanIsSafe, RunIsOfTree, Start
  PROVE  RunIsOfTree'
<1>1. PICK asked, explicit, m, pass : run' = Plan(asked, explicit, m, pass)
  BY DEF Start
<1> DEFINE P == Produced(asked, m)
           U == Unchanged(asked, m)
           seen == Did(asked, m, "snapshot")
           gone == ConfirmedDeleted(asked, m)
<1>2. P \subseteq Present \cap Admitted(asked) /\ P \cap gone = {} /\ seen \subseteq Present
  BY ReadOrGone
<1>3. /\ DOMAIN run' = Fields
      /\ run'.rows = ToUpsert(P, U, pass) /\ run'.staleNodes = StaleNodes(P, gone)
      /\ run'.stamps = [f \in seen \ U |-> disk[f].v] /\ run'.produced = P
      /\ run'.fullRows = FullRows(P, pass) /\ run'.asked = asked
  BY <1>1 DEF Plan, Fields
<1>4. /\ pc' = "nodes" /\ whole' = FALSE /\ UNCHANGED <<disk, rows>>
  BY DEF Start, store
<1> HIDE DEF P, U, seen, gone
<1>5. DOMAIN FullRows(P, pass) = NodesOf(P)
  BY DEF FullRows
<1>6. Building' /\ Present' = Present
  BY <1>3, <1>4 DEF Building, Fields, Present
<1>7. /\ DOMAIN run'.stamps = seen \ U
      /\ \A f \in DOMAIN run'.stamps : run'.stamps[f] = disk[f].v
  BY <1>3
<1>8. \A id \in NodesOf(P) : ~IsFolder(id) => id[2] \in P
  BY NodesAreParsed
<1>9. \A id \in DOMAIN ToUpsert(P, U, pass) : ~IsFolder(id) => ToUpsert(P, U, pass)[id].v = disk[id[2]].v
  BY <1>2, WrittenRows
<1>10. ASSUME NEW id \in NodesOf(P), ~IsFolder(id), id[2] \notin U
       PROVE  id \in DOMAIN ToUpsert(P, U, pass)
  <2>1. P \subseteq Files
    BY <1>2 DEF Present
  <2>2. Row(id, 2, P, pass).file = id[2]
    <3>1. Shaped(id, Row(id, 2, P, pass))
      BY <2>1, RowIsShaped
    <3> QED
      BY <3>1 DEF Shaped
  <2> QED
    BY <1>10, <2>2, UnwrittenRowIsUnchanged
<1>11. ASSUME NEW id \in DOMAIN rows, ~IsFolder(id), id[2] \in P
       PROVE  id \in NodesOf(P) \cup StaleNodes(P, gone)
  <2>1. rows[id].file = id[2]
    BY <1>11, StoredNamesFile
  <2> QED
    BY <1>11, <2>1 DEF StaleNodes
<1>12. /\ run'.produced \subseteq Present' \cap Admitted(run'.asked)
       /\ DOMAIN run'.stamps \subseteq Present'
       /\ \A f \in DOMAIN run'.stamps : run'.stamps[f] = disk'[f].v
  BY <1>2, <1>3, <1>4, <1>6, <1>7
<1>13. /\ \A id \in DOMAIN run'.fullRows : ~IsFolder(id) => id[2] \in run'.produced
       /\ \A id \in DOMAIN run'.rows : ~IsFolder(id) => run'.rows[id].v = disk'[id[2]].v
  BY <1>3, <1>4, <1>5, <1>8, <1>9
<1>14. \A id \in DOMAIN run'.fullRows :
         ~IsFolder(id) /\ id[2] \in DOMAIN run'.stamps => id \in DOMAIN run'.rows
  BY <1>3, <1>5, <1>7, <1>10
<1>15. \A id \in DOMAIN rows' :
         ~IsFolder(id) /\ id[2] \in run'.produced => id \in DOMAIN run'.fullRows \cup run'.staleNodes
  BY <1>3, <1>4, <1>5, <1>11
<1>16. pc' = "nodes" /\ ~whole' /\ Building'
  BY <1>4, <1>6
<1> QED
  BY <1>12, <1>13, <1>14, <1>15, <1>16 DEF RunIsOfTree, Writing, Late

\* What RunIsOfTree says of a phase, and of the rows in it.
Planned(d, r) ==
  /\ r.produced \subseteq {f \in Files : d[f] # Absent} \cap Admitted(r.asked)
  /\ DOMAIN r.stamps \subseteq {f \in Files : d[f] # Absent}
  /\ \A f \in DOMAIN r.stamps : r.stamps[f] = d[f].v
  /\ \A id \in DOMAIN r.fullRows : ~IsFolder(id) => id[2] \in r.produced
  /\ \A id \in DOMAIN r.rows : ~IsFolder(id) => r.rows[id].v = d[id[2]].v
  /\ \A id \in DOMAIN r.fullRows :
       ~IsFolder(id) /\ id[2] \in DOMAIN r.stamps => id \in DOMAIN r.rows

Read(r, ns) ==
  \A id \in DOMAIN ns :
    ~IsFolder(id) /\ id[2] \in r.produced => id \in DOMAIN r.fullRows \cup r.staleNodes

Written(d, r, ns) ==
  \A id \in DOMAIN ns \cap DOMAIN r.fullRows :
    ~IsFolder(id) /\ id[2] \in DOMAIN r.stamps => ns[id].v = d[id[2]].v

\* RunIsOfTree, in those parts.
LEMMA TreeParts ==
  /\ RunIsOfTree <=>
       /\ pc \in {"idle"} \cup Writing \cup Pruning
       /\ pc # "idle" => ~whole
       /\ pc \in Writing => Building /\ Planned(disk, run) /\ Read(run, rows)
       /\ pc \in Writing \ {"nodes"} => Written(disk, run, rows)
       /\ pc \in Late => DOMAIN rows \cap run.staleNodes = {}
  /\ RunIsOfTree' <=>
       /\ pc' \in {"idle"} \cup Writing \cup Pruning
       /\ pc' # "idle" => ~whole'
       /\ pc' \in Writing => Building' /\ Planned(disk', run') /\ Read(run', rows')
       /\ pc' \in Writing \ {"nodes"} => Written(disk', run', rows')
       /\ pc' \in Late => DOMAIN rows' \cap run'.staleNodes = {}
BY DEF RunIsOfTree, Planned, Read, Written, Present

\* Fewer rows are still those of the plan.
LEMMA FewerRowsStand ==
  ASSUME NEW ids, Detached(ids), NEW d, NEW r
  PROVE  /\ Read(r, rows) => Read(r, rows')
         /\ Written(d, r, rows) => Written(d, r, rows')
         /\ DOMAIN rows \cap r.staleNodes = {} => DOMAIN rows' \cap r.staleNodes = {}
         /\ ids = r.staleNodes => DOMAIN rows' \cap r.staleNodes = {}
<1>1. /\ DOMAIN rows' = (DOMAIN rows) \ ids
      /\ \A id \in DOMAIN rows' : rows'[id] = rows[id]
  BY DetachedIs
<1>2. Read(r, rows) => Read(r, rows')
  BY <1>1 DEF Read
<1>3. Written(d, r, rows) => Written(d, r, rows')
  BY <1>1 DEF Written
<1> QED
  BY <1>1, <1>2, <1>3

\* The tree of a run is the one it read, under every action.
LEMMA TreeStep ==
  ASSUME Project, Stored, PlanIsSafe, RunIsOfTree, Next
  PROVE  RunIsOfTree'
<1>0. /\ pc \in {"idle"} \cup Writing \cup Pruning
      /\ pc # "idle" => ~whole
      /\ pc \in Writing => Building /\ Planned(disk, run) /\ Read(run, rows)
      /\ pc \in Writing \ {"nodes"} => Written(disk, run, rows)
      /\ pc \in Late => DOMAIN rows \cap run.staleNodes = {}
  BY TreeParts
<1>1. CASE pc' = "idle"
  BY <1>1, TreeParts DEF Writing, Late
<1>2. CASE Start
  BY <1>2, StartIsOfTree
<1>3. CASE UpsertNodes /\ pc' # "idle"
  <2>1. pc = "nodes" /\ pc' = "externals" /\ UNCHANGED <<disk, run, whole>>
    BY <1>3, UpsertNodesIs DEF Stands, Ends, Dies
  <2>2. rows' = Over(RestrictTo(run.rows, DOMAIN run.rows), rows)
    BY <1>3, UpsertNodesIs DEF Ends, Dies
  <2>3. /\ DOMAIN rows' = (DOMAIN run.rows) \cup DOMAIN rows
        /\ \A id \in DOMAIN run.rows : rows'[id] = run.rows[id]
        /\ \A id \in (DOMAIN rows) \ DOMAIN run.rows : rows'[id] = rows[id]
    BY <2>2, OverAll DEF Over
  <2>4. DOMAIN run.rows \subseteq DOMAIN run.fullRows
    BY <2>1, <1>0 DEF PlanIsSafe, Writing
  <2>5. Planned(disk, run) /\ Read(run, rows) /\ Building
    BY <2>1, <1>0 DEF Writing
  <2>6. Read(run, rows')
    BY <2>3, <2>4, <2>5 DEF Read
  <2>7. Written(disk, run, rows')
    BY <2>3, <2>5 DEF Written, Planned
  <2>8. Building'
    BY <2>1, <2>5 DEF Building
  <2>9. ~whole
    BY <1>0, <2>1
  <2> QED
    BY <2>1, <2>5, <2>6, <2>7, <2>8, <2>9, TreeParts DEF Writing, Late
<1>4. CASE (UpsertExternals \/ UpsertEdges \/ DeleteEdges \/ Sweep \/ Checksums \/ PersistAsked)
           /\ pc' # "idle"
  <2>1. /\ UNCHANGED <<disk, run, whole, rows>>
        /\ \/ pc = "externals" /\ pc' = "edges"
           \/ pc = "edges" /\ pc' = "drop_nodes"
           \/ pc = "drop_edges" /\ pc' = "sweep"
           \/ pc = "sweep" /\ pc' = "checksums"
           \/ pc = "checksums" /\ pc' = "scope"
           \/ pc = "checksums" /\ pc' = "chunks"
           \/ pc = "scope" /\ pc' = "chunks"
    BY <1>4, UpsertExternalsIs, UpsertEdgesIs, DeleteEdgesIs, SweepIs, ChecksumsIs DEF
       PersistAsked, Stands, Ends, Dies, store
  <2>2. Building' <=> Building
    BY <2>1 DEF Building
  <2> QED
    BY <1>0, <2>1, <2>2, TreeParts DEF Writing, Late
<1>5. CASE DeleteNodes /\ pc' # "idle"
  <2>1. pc = "drop_nodes" /\ pc' = "drop_edges" /\ UNCHANGED <<disk, run, whole>>
    BY <1>5, DeleteNodesIs DEF Stands, Ends, Dies
  <2>2. Detached(run.staleNodes)
    BY <1>5, <2>1, DeleteNodesIs DEF Ends, Dies
  <2>3. Planned(disk, run) /\ Read(run, rows) /\ Building /\ Written(disk, run, rows)
    BY <2>1, <1>0 DEF Writing
  <2>4. Read(run, rows') /\ Written(disk, run, rows') /\ DOMAIN rows' \cap run.staleNodes = {}
    BY <2>2, <2>3, FewerRowsStand
  <2>5. Building' /\ ~whole
    BY <1>0, <2>1, <2>3 DEF Building
  <2> QED
    BY <2>1, <2>3, <2>4, <2>5, TreeParts DEF Writing, Late
<1>6. CASE LoseRow
  <2>1. pc \in {"externals", "drop_nodes"} /\ UNCHANGED <<disk, whole, pc>>
    BY <1>6, LoseRowIs
  <2>2. Planned(disk, run) /\ Read(run, rows) /\ Building /\ Written(disk, run, rows)
    BY <2>1, <1>0 DEF Writing
  <2>3. Read(run, rows') /\ Written(disk, run, rows')
    BY <1>6, <2>2, LoseRowIs, FewerRowsStand
  <2>4. Read(run', rows') /\ Written(disk, run', rows') /\ Planned(disk, run') /\ Building'
    BY <1>6, <2>2, <2>3, LoseRowKeepsPlan DEF Read, Written, Planned
  <2> QED
    BY <1>0, <2>1, <2>4, TreeParts DEF Writing, Late
<1>7. CASE Edit \/ IndexChunks \/ Reuse \/ PersistScope
  <2>1. pc' = "idle"
    BY <1>7, IndexChunksIs, ReuseIs DEF Edit, PersistScope
  <2> QED
    BY <1>1, <2>1
<1>10. CASE ReadScope
  <2>1. UNCHANGED <<disk, run, whole, rows, pc>>
    BY <1>10 DEF ReadScope, store
  <2>2. Building' <=> Building
    BY <2>1 DEF Building
  <2> QED
    BY <1>0, <2>1, <2>2, TreeParts
<1>8. CASE StartPrune
  <2>1. pc' = "prune_nodes" /\ whole' = FALSE
    BY <1>8 DEF StartPrune
  <2> QED
    BY <2>1, TreeParts DEF Writing, Pruning, Late
<1>9. CASE PruneNodes \/ PruneChunks
  <2>1. pc' \in {"idle", "prune_chunks", "prune_scope"} /\ whole' = whole /\ pc # "idle"
    BY <1>9, PruneNodesIs, PruneChunksIs DEF Stands, Ends, Dies
  <2> QED
    BY <1>0, <2>1, TreeParts DEF Writing, Pruning, Late
<1> QED
  BY <1>1, <1>2, <1>3, <1>4, <1>5, <1>6, <1>7, <1>8, <1>9, <1>10 DEF Next
-----------------------------------------------------------------------------
(* The writes, the edges that stand, and the prune.                        *)

\* An edge of the build is in no write's way.
LEMMA EdgesOfTheBuildStay ==
  ASSUME PlanIsSafe, Building, NEW k \in DOMAIN run.fullEdges
  PROVE  /\ k[1] \notin run.staleNodes /\ k[3] \notin run.staleNodes
         /\ k \notin run.staleEdges
<1>1. /\ \A id \in DOMAIN run.fullRows : Shaped(id, run.fullRows[id])
      /\ \A id \in run.staleNodes : id \notin DOMAIN run.fullRows /\ IsNode(id)
      /\ k[1] \in DOMAIN run.fullRows
      /\ k[3] \in DOMAIN run.fullRows \cup run.refs
      /\ \A e \in run.staleEdges : e \notin DOMAIN run.fullEdges
      /\ \A x \in run.refs : x[1] = "ext"
  BY DEF PlanIsSafe
<1>2. \A x \in run.refs : ~IsNode(x)
  BY <1>1 DEF IsNode
<1> QED
  BY <1>1, <1>2

\* An edge that is there before and after a run is there throughout, under every action.
LEMMA StandingStep ==
  ASSUME Project, PlanIsSafe, RunIsOfTree, PruneStands, StandingEdgesStand, Next
  PROVE  StandingEdgesStand'
<1>1. CASE Start
  <2>1. run'.before = [rows |-> rows, edges |-> edges] /\ edges' = edges
    BY <1>1 DEF Start, Plan, store
  <2> QED
    BY <2>1 DEF StandingEdgesStand
<1>2. CASE StartPrune
  BY <1>2, PruneIsNoBuild DEF StandingEdgesStand
<1>3. CASE LoseRow
  BY <1>3, LoseRowKeepsPlan DEF StandingEdgesStand
<1>11. CASE run' = NoRun
  BY <1>11, NoRunIsNoBuild DEF StandingEdgesStand
<1>4. ASSUME run' = run, DOMAIN edges \subseteq DOMAIN edges'
      PROVE  StandingEdgesStand'
  BY <1>4 DEF StandingEdgesStand, Building
<1>5. ASSUME run' = run, Building, \A k \in DOMAIN run.fullEdges : k \in DOMAIN edges => k \in DOMAIN edges'
      PROVE  StandingEdgesStand'
  BY <1>5 DEF StandingEdgesStand
<1>6. CASE UpsertEdges /\ run' = run
  <2>1. PICK new : edges' = Over(new, edges)
    BY <1>6, UpsertEdgesIs
  <2>2. DOMAIN edges \subseteq DOMAIN edges'
    BY <2>1 DEF Over
  <2> QED
    BY <1>4, <1>6, <2>2
<1>7. CASE DeleteNodes /\ run' = run
  <2>1. pc = "drop_nodes" /\ run' = run
    BY <1>7, DeleteNodesIs
  <2>2. Building
    BY <2>1 DEF RunIsOfTree, Writing
  <2>3. PICK part : part \subseteq run.staleNodes /\ Detached(part)
    BY <1>7, DeleteNodesIs
  <2>4. DOMAIN edges' = {k \in DOMAIN edges : k[1] \notin part /\ k[3] \notin part}
    BY <2>3, DetachedIs
  <2>5. \A k \in DOMAIN run.fullEdges : k[1] \notin run.staleNodes /\ k[3] \notin run.staleNodes
    BY <2>2, EdgesOfTheBuildStay
  <2> QED
    BY <1>5, <2>1, <2>2, <2>3, <2>4, <2>5
<1>8. CASE DeleteEdges /\ run' = run
  <2>1. pc = "drop_edges" /\ run' = run
    BY <1>8, DeleteEdgesIs
  <2>2. Building
    BY <2>1 DEF RunIsOfTree, Writing
  <2>3. PICK part : part \subseteq run.staleEdges /\ edges' = RestrictTo(edges, DOMAIN edges \ part)
    BY <1>8, DeleteEdgesIs
  <2>4. DOMAIN edges' = (DOMAIN edges) \ part
    BY <2>3 DEF RestrictTo
  <2>5. \A k \in DOMAIN run.fullEdges : k \notin run.staleEdges
    BY <2>2, EdgesOfTheBuildStay
  <2> QED
    BY <1>5, <2>1, <2>2, <2>3, <2>4, <2>5
<1>9. CASE PruneNodes /\ run' = run
  <2>1. pc = "prune_nodes" /\ run' = run
    BY <1>9, PruneNodesIs
  <2>2. ~Building
    BY <2>1 DEF PruneStands, Pruning
  <2>3. ~Building'
    BY <2>1, <2>2 DEF Building
  <2> QED
    BY <2>3 DEF StandingEdgesStand
<1>10. CASE (\/ ReadScope \/ UpsertNodes \/ UpsertExternals \/ Sweep \/ Checksums \/ PersistAsked
             \/ IndexChunks \/ PruneChunks) /\ run' = run
  <2>1. edges' = edges
    BY <1>10, UpsertNodesIs, UpsertExternalsIs, SweepIs, PruneChunksIs, ChecksumsIs, IndexChunksIs
       DEF ReadScope, PersistAsked, store
  <2> QED
    BY <1>4, <1>10, <2>1
<1>12. CASE Edit \/ Reuse \/ PersistScope
  <2>1. run' = NoRun
    BY <1>12, ReuseIs DEF Edit, PersistScope
  <2> QED
    BY <1>11, <2>1
<1> QED
  BY <1>1, <1>2, <1>3, <1>6, <1>7, <1>8, <1>9, <1>10, <1>11, <1>12, WhatChangesTheRun DEF Next

\* What a prune plans to drop is all that is stored of the files it refuses.
LEMMA PrunePlanIs ==
  ASSUME Stored, StartPrune
  PROVE  /\ run'.files \cap Admitted(run'.kept) = {} /\ run'.files \subseteq Files
         /\ \A id \in run'.nodes : IsNode(id) /\ id # Folder(Root)
         /\ \A id \in DOMAIN rows : ~IsFolder(id) /\ id[2] \in run'.files => id \in run'.nodes
         /\ chunks \cap run'.files \subseteq run'.chunks
<1>1. PICK kept : run' = PrunePlan(kept)
  BY DEF StartPrune
<1>2. /\ run'.nodes = {id \in DOMAIN rows :
                         IF IsFolder(id) THEN id[2] \notin NeededDirs(IndexedFiles \ Refused(kept))
                                         ELSE rows[id].file \in Refused(kept)}
      /\ run'.files = Refused(kept) /\ run'.chunks = chunks \cap Refused(kept) /\ run'.kept = kept
  BY <1>1 DEF PrunePlan
<1>3. \A f \in IndexedFiles : f \in Files
  <2> SUFFICES ASSUME NEW id \in DOMAIN rows, ~IsFolder(id)
               PROVE  rows[id].file \in Files
    BY DEF IndexedFiles
  <2> QED
    BY StoredNamesFile
<1>4. Refused(kept) \cap Admitted(kept) = {} /\ Refused(kept) \subseteq Files
  BY <1>3 DEF Refused
<1>5. \A id \in run'.nodes : IsNode(id) /\ id # Folder(Root)
  BY <1>2, StoredNamesFile DEF NeededDirs, Folder, IsFolder
<1>6. \A id \in DOMAIN rows : ~IsFolder(id) /\ id[2] \in run'.files => id \in run'.nodes
  BY <1>2, StoredNamesFile
<1> QED
  BY <1>2, <1>4, <1>5, <1>6

\* PruneStands, in its parts.
Held(scs, out) == \A s \in scs : Admitted(s) \cap out = {}

Pruner(p, r, ids, held) ==
  p \in Pruning =>
    /\ "fullRows" \notin DOMAIN r
    /\ \A id \in r.nodes : IsNode(id) /\ id # Folder(Root)
    /\ r.files \cap Admitted(r.kept) = {} /\ r.files \subseteq Files
    /\ \A id \in ids : ~IsFolder(id) /\ id[2] \in r.files => p = "prune_nodes" /\ id \in r.nodes
    /\ \A f \in held \cap r.files : p # "prune_scope" /\ f \in r.chunks

\* They are.
LEMMA PruneParts ==
  /\ PruneStands <=> /\ NoneOf(Out, DOMAIN rows, chunks) /\ Held({scope} \cup daemon, Out)
                     /\ pc \in Writing => Admitted(run.asked) \cap Out = {}
                     /\ Pruner(pc, run, DOMAIN rows, chunks)
  /\ PruneStands' <=> /\ NoneOf(Out', DOMAIN rows', chunks') /\ Held({scope'} \cup daemon', Out')
                      /\ pc' \in Writing => Admitted(run'.asked) \cap Out' = {}
                      /\ Pruner(pc', run', DOMAIN rows', chunks')
BY DEF PruneStands, Held, Pruner, Building, NoneOf

\* Less is pruned, and less is stored but for the root.
LEMMA NoneOfLess ==
  ASSUME NEW out, NEW out2, NEW ids, NEW ids2, NEW held, NEW held2, NoneOf(out, ids, held),
         out2 \subseteq out,
         \A id \in ids2 : id \in ids \/ IsFolder(id) \/ id[2] \notin out2,
         \A f \in held2 : f \in held \/ f \notin out2,
         Folder(Root) \in ids => Folder(Root) \in ids2 \/ out2 = {}
  PROVE  NoneOf(out2, ids2, held2)
BY DEF NoneOf

\* What was dropped stays out, under every action.
LEMMA PruneStep ==
  ASSUME Project, Stored, PlanIsSafe, RunIsOfTree, PruneStands, Next
  PROVE  PruneStands'
<1>0. /\ NoneOf(Out, DOMAIN rows, chunks) /\ Held({scope} \cup daemon, Out)
      /\ pc \in Writing => Admitted(run.asked) \cap Out = {}
      /\ Pruner(pc, run, DOMAIN rows, chunks)
  BY PruneParts
<1> USE DEF Writing, Pruning
<1>1. CASE Edit
  <2>1. /\ pc' = "idle" /\ UNCHANGED <<rows, chunks, scope, daemon, pruned, exposed>>
    BY <1>1 DEF Edit, store, scopes
  <2> QED
    BY <1>0, <2>1, PruneParts DEF Out, Pruner
<1>2. CASE ReadScope
  <2>1. UNCHANGED <<rows, chunks, scope, pruned, exposed, pc, run>> /\ daemon' = {scope}
    BY <1>2 DEF ReadScope, store
  <2>2. Out' = Out /\ Held({scope} \cup {scope}, Out)
    BY <1>0, <2>1 DEF Out, Held
  <2> QED
    BY <1>0, <2>1, <2>2, PruneParts
<1>3. CASE Start
  <2>1. PICK by, asked, explicit, m, pass : Asked(by, asked) /\ run' = Plan(asked, explicit, m, pass)
    BY <1>3 DEF Start
  <2>2. pc' = "nodes" /\ UNCHANGED <<rows, chunks, scope>> /\ run'.asked = asked
    BY <1>3, <2>1 DEF Start, store, Plan
  <2>3. daemon' \subseteq daemon /\ Out' \subseteq Out /\ Admitted(asked) \cap Out' = {}
    BY <2>1, AskedIs
  <2>4. NoneOf(Out', DOMAIN rows', chunks')
    BY <1>0, <2>2, <2>3 DEF NoneOf
  <2>5. Held({scope'} \cup daemon', Out')
    BY <1>0, <2>2, <2>3 DEF Held
  <2> QED
    BY <2>2, <2>3, <2>4, <2>5, PruneParts DEF Pruner
<1>4. CASE UpsertNodes
  <2>1. /\ pc = "nodes" /\ UNCHANGED <<chunks, scope, daemon, pruned, exposed>>
        /\ (pc' = "externals" /\ run' = run) \/ pc' = "idle"
    BY <1>4, UpsertNodesIs DEF Stands, Ends, Dies, scopes
  <2>2. \A id \in DOMAIN rows' : id \in DOMAIN run.rows \/ id \in DOMAIN rows
    BY <1>4, UpsertedRows
  <2>3. \A id \in DOMAIN run.rows : ~IsFolder(id) => id[2] \in Admitted(run.asked)
    BY <2>1 DEF RunIsOfTree, PlanIsSafe
  <2>4. Admitted(run.asked) \cap Out = {} /\ Out' = Out
    BY <1>0, <2>1 DEF Out
  <2>5. DOMAIN rows \subseteq DOMAIN rows'
    <3>1. PICK part : rows' = Over(RestrictTo(run.rows, part), rows)
      BY <1>4, UpsertNodesIs
    <3> QED
      BY <3>1 DEF Over
  <2>6. NoneOf(Out', DOMAIN rows', chunks')
    BY <1>0, <2>1, <2>2, <2>3, <2>4, <2>5, NoneOfLess
  <2> QED
    BY <1>0, <2>1, <2>4, <2>6, PruneParts DEF Pruner
<1>5. CASE UpsertExternals \/ UpsertEdges \/ DeleteEdges \/ Sweep \/ Checksums
  <2>1. /\ UNCHANGED <<rows, chunks, scope, daemon, pruned, exposed>>
        /\ (pc \in Writing /\ pc' \in Writing /\ run' = run) \/ pc' = "idle"
    BY <1>5, UpsertExternalsIs, UpsertEdgesIs, DeleteEdgesIs, SweepIs, ChecksumsIs DEF Stands,
       Ends, Dies, scopes
  <2>2. Out' = Out
    BY <2>1 DEF Out
  <2> QED
    BY <1>0, <2>1, <2>2, PruneParts DEF Pruner
<1>6. CASE DeleteNodes
  <2>1. /\ pc = "drop_nodes" /\ UNCHANGED <<chunks, scope, daemon, pruned, exposed>>
        /\ (pc' = "drop_edges" /\ run' = run) \/ pc' = "idle"
    BY <1>6, DeleteNodesIs DEF Stands, Ends, Dies, scopes
  <2>2. PICK part : part \subseteq run.staleNodes /\ Detached(part)
    BY <1>6, DeleteNodesIs
  <2>3. \A id \in run.staleNodes : id # Folder(Root)
    BY <2>1 DEF RunIsOfTree, PlanIsSafe
  <2>4. DOMAIN rows' = (DOMAIN rows) \ part
    BY <2>2, DetachedIs
  <2>5. Out' = Out
    BY <2>1 DEF Out
  <2>6. NoneOf(Out', DOMAIN rows', chunks')
    BY <1>0, <2>1, <2>2, <2>3, <2>4, <2>5, NoneOfLess
  <2> QED
    BY <1>0, <2>1, <2>5, <2>6, PruneParts DEF Pruner
<1>7. CASE LoseRow
  <2>1. /\ pc \in {"externals", "drop_nodes"} /\ UNCHANGED <<chunks, daemon, pruned, pc>>
        /\ run'.asked = run.asked
    BY <1>7, LoseRowIs, LoseRowKeepsPlan
  <2>2. CASE exposed' = exposed \cup pruned
    <3>1. Out' = {}
      BY <2>1, <2>2 DEF Out
    <3> QED
      BY <2>1, <3>1, PruneParts DEF Pruner, NoneOf, Held
  <2>3. CASE UNCHANGED <<scope, exposed>>
    <3>1. Out' = Out
      BY <2>1, <2>3 DEF Out
    <3>2. \/ DOMAIN rows' = DOMAIN rows
          \/ \E id : id # Folder(Root) /\ DOMAIN rows' = (DOMAIN rows) \ {id}
          \/ Out' = {}
      <4>1. CASE \E id \in DOMAIN run.rows : /\ Detached({id})
                                             /\ \/ id = Folder(Root) /\ exposed' = exposed \cup pruned
                                                \/ id # Folder(Root) /\ UNCHANGED <<scope, exposed>>
        <5>1. PICK id \in DOMAIN run.rows : /\ Detached({id})
                                           /\ \/ id = Folder(Root) /\ exposed' = exposed \cup pruned
                                              \/ id # Folder(Root)
          BY <4>1
        <5>2. DOMAIN rows' = (DOMAIN rows) \ {id}
          BY <5>1, DetachedIs
        <5> QED
          BY <2>1, <5>1, <5>2 DEF Out
      <4>2. CASE UNCHANGED rows
        BY <4>2
      <4> QED
        BY <1>7, <4>1, <4>2, LoseRowIs
    <3>3. NoneOf(Out', DOMAIN rows', chunks')
      BY <1>0, <2>1, <3>1, <3>2 DEF NoneOf
    <3> QED
      BY <1>0, <2>1, <2>3, <3>1, <3>3, PruneParts DEF Pruner
  <2> QED
    BY <1>7, <2>2, <2>3, LoseRowIs
<1>8. CASE PersistAsked
  <2>1. /\ pc = "scope" /\ pc' = "chunks" /\ UNCHANGED <<rows, chunks, daemon, pruned, exposed, run>>
        /\ scope' \in {run.asked, scope}
    BY <1>8 DEF PersistAsked, Carried, store
  <2>2. Out' = Out
    BY <2>1 DEF Out
  <2>3. Held({scope'} \cup daemon', Out')
    BY <1>0, <2>1, <2>2 DEF Held
  <2> QED
    BY <1>0, <2>1, <2>2, <2>3, PruneParts DEF Pruner
<1>9. CASE IndexChunks
  <2>1. /\ pc = "chunks" /\ pc' = "idle" /\ UNCHANGED <<rows, scope, daemon, pruned, exposed>>
        /\ chunks' \subseteq chunks \cup run.produced
    BY <1>9, IndexChunksIs DEF scopes
  <2>2. run.produced \subseteq Admitted(run.asked)
    BY <2>1 DEF RunIsOfTree
  <2>3. Out' = Out
    BY <2>1 DEF Out
  <2>4. NoneOf(Out', DOMAIN rows', chunks')
    BY <1>0, <2>1, <2>2, <2>3 DEF NoneOf
  <2> QED
    BY <1>0, <2>1, <2>3, <2>4, PruneParts DEF Pruner
<1>10. CASE Reuse
  <2>1. PICK by, asked : Asked(by, asked) /\ scope' = Carried(asked)
    BY <1>10 DEF Reuse
  <2>2. daemon' \subseteq daemon /\ Out' \subseteq Out /\ Admitted(asked) \cap Out' = {}
    BY <2>1, AskedIs
  <2>3. /\ pc' = "idle" /\ rows' = rows
        /\ \A f \in chunks' : f \in chunks \/ (f \in Files /\ Mod(f) \in DOMAIN rows)
    BY <1>10, ReuseIs
  <2>4. scope' \in {asked, scope}
    BY <2>1 DEF Carried
  <2>5. \A f : Mod(f) \in DOMAIN rows => f \notin Out
    <3>1. \A f : ~IsFolder(Mod(f)) /\ Mod(f)[2] = f
      BY DEF Mod, IsFolder
    <3> QED
      BY <1>0, <3>1 DEF NoneOf
  <2>6. NoneOf(Out', DOMAIN rows', chunks')
    BY <1>0, <2>2, <2>3, <2>5 DEF NoneOf
  <2>7. Held({scope'} \cup daemon', Out')
    BY <1>0, <2>2, <2>4 DEF Held
  <2> QED
    BY <2>3, <2>6, <2>7, PruneParts DEF Pruner
<1>11. CASE StartPrune
  <2>1. pc' = "prune_nodes" /\ UNCHANGED <<rows, chunks, scope, daemon, pruned, exposed>>
    BY <1>11 DEF StartPrune, store, scopes
  <2>2. "fullRows" \notin DOMAIN run'
    BY <1>11, PruneIsNoBuild DEF Building
  <2>3. /\ run'.files \cap Admitted(run'.kept) = {} /\ run'.files \subseteq Files
        /\ \A id \in run'.nodes : IsNode(id) /\ id # Folder(Root)
        /\ \A id \in DOMAIN rows : ~IsFolder(id) /\ id[2] \in run'.files => id \in run'.nodes
        /\ chunks \cap run'.files \subseteq run'.chunks
    BY <1>11, PrunePlanIs
  <2>4. Pruner(pc', run', DOMAIN rows', chunks')
    BY <2>1, <2>2, <2>3 DEF Pruner
  <2>5. Out' = Out
    BY <2>1 DEF Out
  <2> QED
    BY <1>0, <2>1, <2>4, <2>5, PruneParts
<1>12. CASE PruneNodes
  <2>1. /\ pc = "prune_nodes" /\ UNCHANGED <<chunks, scope, daemon, pruned, exposed>>
    BY <1>12, PruneNodesIs DEF Stands, scopes
  <2>2. PICK part : part \subseteq run.nodes /\ Ends(part, run.nodes, "prune_chunks") /\ Detached(part)
    BY <1>12, PruneNodesIs
  <2>3. DOMAIN rows' = (DOMAIN rows) \ part
    BY <2>2, DetachedIs
  <2>4. /\ "fullRows" \notin DOMAIN run
        /\ \A id \in run.nodes : IsNode(id) /\ id # Folder(Root)
        /\ run.files \cap Admitted(run.kept) = {} /\ run.files \subseteq Files
        /\ \A id \in DOMAIN rows : ~IsFolder(id) /\ id[2] \in run.files => id \in run.nodes
        /\ \A f \in chunks \cap run.files : f \in run.chunks
    BY <1>0, <2>1 DEF Pruner
  <2>5. Out' = Out
    BY <2>1 DEF Out
  <2>6. NoneOf(Out', DOMAIN rows', chunks')
    BY <1>0, <2>1, <2>2, <2>3, <2>4, <2>5, NoneOfLess
  <2>7. CASE pc' = "idle"
    BY <1>0, <2>1, <2>5, <2>6, <2>7, PruneParts DEF Pruner
  <2>8. CASE pc' = "prune_chunks" /\ part = run.nodes /\ run' = run
    <3>1. \A id \in DOMAIN rows' : ~IsFolder(id) => id[2] \notin run.files
      BY <2>3, <2>4, <2>8
    <3>2. Pruner(pc', run', DOMAIN rows', chunks')
      BY <2>1, <2>4, <2>8, <3>1 DEF Pruner
    <3> QED
      BY <1>0, <2>1, <2>5, <2>6, <2>8, <3>2, PruneParts
  <2> QED
    BY <2>2, <2>7, <2>8 DEF Ends, Dies
<1>13. CASE PruneChunks
  <2>1. /\ pc = "prune_chunks" /\ UNCHANGED <<rows, scope, daemon, pruned, exposed>>
    BY <1>13, PruneChunksIs DEF Stands, scopes
  <2>2. PICK part : Ends(part, run.chunks, "prune_scope") /\ chunks' = chunks \ part
    BY <1>13, PruneChunksIs
  <2>4. /\ "fullRows" \notin DOMAIN run
        /\ \A id \in run.nodes : IsNode(id) /\ id # Folder(Root)
        /\ run.files \cap Admitted(run.kept) = {} /\ run.files \subseteq Files
        /\ \A id \in DOMAIN rows : ~ (~IsFolder(id) /\ id[2] \in run.files)
        /\ \A f \in chunks \cap run.files : f \in run.chunks
    BY <1>0, <2>1 DEF Pruner
  <2>5. Out' = Out
    BY <2>1 DEF Out
  <2>6. NoneOf(Out', DOMAIN rows', chunks')
    BY <1>0, <2>1, <2>2, <2>5 DEF NoneOf
  <2>7. CASE pc' = "idle"
    BY <1>0, <2>1, <2>5, <2>6, <2>7, PruneParts DEF Pruner
  <2>8. CASE pc' = "prune_scope" /\ part = run.chunks /\ run' = run
    <3>1. chunks' \cap run.files = {}
      BY <2>2, <2>4, <2>8
    <3>2. Pruner(pc', run', DOMAIN rows', chunks')
      BY <2>1, <2>4, <2>8, <3>1 DEF Pruner
    <3> QED
      BY <1>0, <2>1, <2>5, <2>6, <2>8, <3>2, PruneParts
  <2> QED
    BY <2>2, <2>7, <2>8 DEF Ends, Dies
<1>14. CASE PersistScope
  <2>1. /\ pc = "prune_scope" /\ pc' = "idle" /\ scope' \in {run.kept, scope}
        /\ pruned' = (pruned \ Admitted(run.kept)) \cup run.files
        /\ exposed' = (exposed \ run.files) \cup NotHeld(run.files)
        /\ UNCHANGED <<rows, chunks, daemon>>
        /\ Folder(Root) \in DOMAIN rows => scope' = run.kept
    BY <1>14 DEF PersistScope, Carried, store
  <2>2. /\ run.files \cap Admitted(run.kept) = {}
        /\ \A id \in DOMAIN rows : ~ (~IsFolder(id) /\ id[2] \in run.files)
        /\ \A f \in chunks : f \notin run.files
    BY <1>0, <2>1 DEF Pruner
  <2>3. \A f \in Out' :
          \/ /\ f \in run.files /\ Folder(Root) \in DOMAIN rows
             /\ \A s \in daemon : f \notin Admitted(s)
          \/ f \in Out /\ f \notin Admitted(run.kept)
    BY <2>1 DEF Out, NotHeld
  <2>4. NoneOf(Out', DOMAIN rows', chunks')
    <3>1. Folder(Root) \notin DOMAIN rows => Out' = {}
      BY <1>0, <2>3 DEF NoneOf
    <3>2. \A id \in DOMAIN rows : ~IsFolder(id) => id[2] \notin Out'
      BY <1>0, <2>2, <2>3 DEF NoneOf
    <3>3. chunks \cap Out' = {}
      BY <1>0, <2>2, <2>3 DEF NoneOf
    <3> QED
      BY <2>1, <3>1, <3>2, <3>3 DEF NoneOf
  <2>5. Held({scope'} \cup daemon', Out')
    <3>1. \A f \in Out' : f \notin Admitted(run.kept)
      BY <2>2, <2>3
    <3>2. \A f \in Out' : f \notin Admitted(scope')
      BY <1>0, <2>1, <2>3, <3>1 DEF Held
    <3>3. \A f \in Out' : \A s \in daemon : f \notin Admitted(s)
      BY <1>0, <2>3 DEF Held
    <3> QED
      BY <2>1, <3>2, <3>3 DEF Held
  <2> QED
    BY <2>1, <2>4, <2>5, PruneParts DEF Pruner
<1> QED
  BY <1>1, <1>2, <1>3, <1>4, <1>5, <1>6, <1>7, <1>8, <1>9, <1>10, <1>11, <1>12, <1>13, <1>14
     DEF Next

\* All edges of a plan whose ends are stored join.
LEMMA AllJoin ==
  ASSUME NEW es, \A k \in DOMAIN es : {k[1], k[3]} \subseteq DOMAIN rows \cup externals
  PROVE  Over(Joined(RestrictTo(es, DOMAIN es)), edges) = Over(es, edges)
<1>1. DOMAIN RestrictTo(es, DOMAIN es) = DOMAIN es
  BY DEF RestrictTo
<1>2. {k \in DOMAIN es : {k[1], k[3]} \subseteq DOMAIN rows \cup externals} = DOMAIN es
  OBVIOUS
<1>3. Joined(RestrictTo(es, DOMAIN es)) = RestrictTo(RestrictTo(es, DOMAIN es), DOMAIN es)
  BY <1>1, <1>2 DEF Joined
<1>4. RestrictTo(RestrictTo(es, DOMAIN es), DOMAIN es) = RestrictTo(es, DOMAIN es)
  BY DEF RestrictTo
<1> QED
  BY <1>3, <1>4, OverAll

\* What is left of a part.
LEMMA RestrictTwice ==
  ASSUME NEW f, NEW S, NEW T, NEW U, \A x \in DOMAIN f : x \in U <=> x \in S /\ x \in T
  PROVE  RestrictTo(RestrictTo(f, S), T) = RestrictTo(f, U)
<1>1. DOMAIN RestrictTo(f, S) = (DOMAIN f) \cap S
  BY DEF RestrictTo
<1>2. (DOMAIN RestrictTo(f, S)) \cap T = (DOMAIN f) \cap U
  BY <1>1
<1>3. \A x \in (DOMAIN f) \cap U : RestrictTo(f, S)[x] = f[x]
  BY DEF RestrictTo
<1> QED
  BY <1>2, <1>3 DEF RestrictTo

\* How far the writes have got, under every action.
LEMMA WritesStep ==
  ASSUME Project, Stored, PlanIsSafe, PlanIsExact, RunIsOfTree, WritesLand, Next
  PROVE  WritesLand'
<1>1. CASE Start
  <2>1. pc' = "nodes" /\ UNCHANGED <<rows, edges>> /\ run'.before = [rows |-> rows, edges |-> edges]
    BY <1>1 DEF Start, Plan, store
  <2> QED
    BY <2>1 DEF WritesLand, Late, Closing
<1>2. CASE pc' \notin Writing
  BY <1>2 DEF WritesLand
<1>3. CASE Edit \/ IndexChunks \/ Reuse \/ StartPrune \/ PersistScope \/ PruneNodes \/ PruneChunks
  <2>1. pc' \notin Writing
    BY <1>3, PruneNodesIs, PruneChunksIs, IndexChunksIs, ReuseIs DEF Edit, StartPrune,
       PersistScope, Ends, Dies, Writing
  <2> QED
    BY <1>2, <2>1
<1>4. CASE LoseRow
  BY <1>4, LoseRowKeepsPlan DEF WritesLand
<1>5. ASSUME run' = run
      PROVE  /\ run.before = run'.before /\ Landed' = Landed /\ Merged' = Merged
             /\ \A k : NotDropped(k)' = NotDropped(k)
  BY <1>5 DEF Landed, Merged, NotDropped
<1>6. CASE UpsertNodes /\ pc' # "idle" /\ run'.before # NoRun
  <2>1. pc = "nodes" /\ pc' = "externals" /\ UNCHANGED <<edges, run>>
    BY <1>6, UpsertNodesIs DEF Stands, Ends, Dies
  <2>2. rows' = Over(RestrictTo(run.rows, DOMAIN run.rows), rows)
    BY <1>6, UpsertNodesIs DEF Ends, Dies
  <2>3. rows = run.before.rows /\ edges = run.before.edges
    BY <1>6, <2>1 DEF WritesLand, Writing, Late, Closing
  <2>4. rows' = Landed
    BY <2>2, <2>3, OverAll DEF Landed
  <2> QED
    BY <2>1, <2>3, <2>4, <1>5 DEF WritesLand, Late, Closing
<1>7. CASE UpsertExternals /\ pc' # "idle" /\ run'.before # NoRun
  <2>1. pc = "externals" /\ pc' = "edges" /\ UNCHANGED <<rows, edges, run>> /\ run.refs \subseteq externals'
    BY <1>7, UpsertExternalsIs DEF Stands, Ends, Dies
  <2>2. rows = Landed /\ edges = run.before.edges
    BY <1>7, <2>1 DEF WritesLand, Writing, Late, Closing
  <2> QED
    BY <2>1, <2>2, <1>5 DEF WritesLand, Late, Closing
<1>8. CASE UpsertEdges /\ pc' # "idle" /\ run'.before # NoRun
  <2>1. pc = "edges" /\ pc' = "drop_nodes" /\ UNCHANGED <<rows, run>>
    BY <1>8, UpsertEdgesIs DEF Stands, Ends, Dies
  <2>2. edges' = Over(Joined(RestrictTo(run.edges, DOMAIN run.edges)), edges)
    BY <1>8, UpsertEdgesIs DEF Ends, Dies
  <2>3. rows = Landed /\ edges = run.before.edges /\ run.refs \subseteq externals
    BY <1>8, <2>1 DEF WritesLand, Writing, Late, Closing
  <2>4. Building
    BY <2>1 DEF RunIsOfTree, Writing
  <2>5. DOMAIN run.fullRows \subseteq DOMAIN rows
    <3>1. DOMAIN Landed = (DOMAIN run.rows) \cup DOMAIN run.before.rows
      BY DEF Landed, Over
    <3>2. \A id \in DOMAIN run.fullRows \ DOMAIN run.rows : id \in DOMAIN run.before.rows
      BY <1>8, <2>1, <2>4 DEF PlanIsExact
    <3> QED
      BY <2>3, <3>1, <3>2
  <2>6. \A k \in DOMAIN run.edges : {k[1], k[3]} \subseteq DOMAIN rows \cup externals
    <3>1. \A k \in DOMAIN run.edges : /\ k[1] \in DOMAIN run.fullRows
                                      /\ k[3] \in DOMAIN run.fullRows \cup run.refs
      BY <2>4 DEF PlanIsSafe
    <3> QED
      BY <2>3, <2>5, <3>1
  <2>7. edges' = Merged
    BY <2>2, <2>3, <2>6, AllJoin DEF Merged
  <2> QED
    BY <2>1, <2>3, <2>7, <1>5 DEF WritesLand, Late, Closing
<1>9. CASE DeleteNodes /\ pc' # "idle" /\ run'.before # NoRun
  <2>1. pc = "drop_nodes" /\ pc' = "drop_edges" /\ UNCHANGED run
    BY <1>9, DeleteNodesIs DEF Stands, Ends, Dies
  <2>2. Detached(run.staleNodes)
    BY <1>9, <2>1, DeleteNodesIs DEF Ends, Dies
  <2>3. rows = Landed /\ edges = Merged
    BY <1>9, <2>1 DEF WritesLand, Writing, Late, Closing
  <2>4. rows' = RestrictTo(Landed, DOMAIN Landed \ run.staleNodes)
    BY <2>2, <2>3 DEF Detached
  <2>5. edges' = RestrictTo(Merged, {k \in DOMAIN Merged : NotDropped(k)})
    BY <2>2, <2>3 DEF Detached, NotDropped
  <2> QED
    BY <2>1, <2>4, <2>5 DEF WritesLand, Landed, Merged, NotDropped, Late, Closing
<1>10. CASE DeleteEdges /\ pc' # "idle" /\ run'.before # NoRun
  <2>1. pc = "drop_edges" /\ pc' = "sweep" /\ UNCHANGED <<rows, run>>
    BY <1>10, DeleteEdgesIs DEF Stands, Ends, Dies
  <2>2. edges' = RestrictTo(edges, DOMAIN edges \ run.staleEdges)
    BY <1>10, <2>1, DeleteEdgesIs DEF Ends, Dies
  <2>3. /\ rows = RestrictTo(Landed, DOMAIN Landed \ run.staleNodes)
        /\ edges = RestrictTo(Merged, {k \in DOMAIN Merged : NotDropped(k)})
    BY <1>10, <2>1 DEF WritesLand, Writing, Late, Closing
  <2> DEFINE S == {k \in DOMAIN Merged : NotDropped(k)}
  <2>4. edges = RestrictTo(Merged, S)
    BY <2>3
  <2> HIDE DEF S
  <2> DEFINE T == (DOMAIN edges) \ run.staleEdges
             U == S \ run.staleEdges
  <2>5. \A k \in DOMAIN Merged : k \in U <=> k \in S /\ k \in T
    BY <2>4 DEF RestrictTo
  <2> HIDE DEF T, U
  <2>6. edges' = RestrictTo(Merged, U)
    <3>1. edges' = RestrictTo(RestrictTo(Merged, S), T)
      BY <2>2, <2>4 DEF T
    <3> QED
      BY <3>1, <2>5, RestrictTwice
  <2> QED
    BY <2>1, <2>3, <2>6 DEF WritesLand, Landed, Merged, NotDropped, Late, Closing, S, U
<1>11. CASE Sweep /\ pc' # "idle" /\ run'.before # NoRun
  <2>1. pc = "sweep" /\ pc' = "checksums" /\ UNCHANGED <<rows, edges, run>>
    BY <1>11, SweepIs DEF Stands, Dies
  <2>2. /\ rows = RestrictTo(Landed, DOMAIN Landed \ run.staleNodes)
        /\ edges = RestrictTo(Merged, {k \in DOMAIN Merged : NotDropped(k)} \ run.staleEdges)
    BY <1>11, <2>1 DEF WritesLand, Writing, Late, Closing
  <2> QED
    BY <2>1, <2>2 DEF WritesLand, Landed, Merged, NotDropped, Late, Closing
<1>12. CASE pc' = "idle" \/ run'.before = NoRun
  BY <1>12 DEF WritesLand, Writing, Late, Closing
<1>13. CASE (Checksums \/ PersistAsked) /\ pc' # "idle" /\ run'.before # NoRun
  <2>1. /\ pc \in {"checksums", "scope"} /\ pc' \in {"scope", "chunks"}
        /\ UNCHANGED <<rows, edges, run>>
    BY <1>13, ChecksumsIs DEF PersistAsked, Dies, store
  <2>2. /\ rows = RestrictTo(Landed, DOMAIN Landed \ run.staleNodes)
        /\ edges = RestrictTo(Merged, {k \in DOMAIN Merged : NotDropped(k)} \ run.staleEdges)
    BY <1>13, <2>1 DEF WritesLand, Writing, Late, Closing
  <2> QED
    BY <2>1, <2>2 DEF WritesLand, Landed, Merged, NotDropped, Late, Closing
<1>14. CASE ReadScope
  <2>1. UNCHANGED <<rows, edges, externals, run, pc>>
    BY <1>14 DEF ReadScope, store
  <2> QED
    BY <2>1 DEF WritesLand, Landed, Merged, NotDropped, Late, Closing
<1> QED
  BY <1>1, <1>3, <1>4, <1>6, <1>7, <1>8, <1>9, <1>10, <1>11, <1>12, <1>13, <1>14 DEF Next

-----------------------------------------------------------------------------
(* What a run that lost nothing leaves.                                    *)

\* The rows after the last write: those it did not write are, as far as already_stored
\* compares them, those it would have written, and the others it either dropped or could
\* not read.
LEMMA FinalRows ==
  ASSUME PlanIsSafe, PlanIsExact, Building, run.before # NoRun, Single,
         rows = RestrictTo(Landed, DOMAIN Landed \ run.staleNodes)
  PROVE  /\ DOMAIN rows = DOMAIN run.fullRows \cup DOMAIN KeptRows
         /\ \A id \in DOMAIN run.fullRows : Faithful(id)
         /\ \A id \in DOMAIN KeptRows \ DOMAIN run.fullRows : rows[id] = KeptRows[id]
<1>1. /\ DOMAIN Landed = (DOMAIN run.rows) \cup DOMAIN run.before.rows
      /\ \A id \in DOMAIN run.rows : Landed[id] = run.rows[id]
      /\ \A id \in DOMAIN run.before.rows \ DOMAIN run.rows : Landed[id] = run.before.rows[id]
  BY DEF Landed, Over
<1>2. /\ DOMAIN run.rows \subseteq DOMAIN run.fullRows
      /\ \A id \in DOMAIN run.rows : run.rows[id] = run.fullRows[id]
      /\ \A id \in run.staleNodes : id \notin DOMAIN run.fullRows
  BY DEF PlanIsSafe
<1>3. \A id \in DOMAIN run.fullRows \ DOMAIN run.rows :
        id \in DOMAIN run.before.rows /\ Matches(id, run.before.rows, run.fullRows)
  BY DEF PlanIsExact
<1>4. \A id \in DOMAIN KeptRows :
        id \in DOMAIN run.before.rows /\ KeptRows[id] = run.before.rows[id]
  BY DEF KeptRows, RestrictTo
<1>5. \A id \in DOMAIN run.before.rows \ DOMAIN run.fullRows :
        id \in run.staleNodes <=> id \notin DOMAIN KeptRows
  BY DEF PlanIsExact
<1>6. /\ DOMAIN rows = DOMAIN Landed \ run.staleNodes
      /\ \A id \in DOMAIN rows : rows[id] = Landed[id]
  BY DEF RestrictTo
<1>7. DOMAIN run.fullRows \subseteq DOMAIN rows
  BY <1>1, <1>2, <1>3, <1>6
<1>8. DOMAIN rows = DOMAIN run.fullRows \cup DOMAIN KeptRows
  <2>1. \A id \in DOMAIN rows : id \in DOMAIN run.fullRows \cup DOMAIN KeptRows
    BY <1>1, <1>2, <1>5, <1>6
  <2>2. \A id \in DOMAIN KeptRows \ DOMAIN run.fullRows : id \in DOMAIN rows
    BY <1>1, <1>4, <1>5, <1>6
  <2> QED
    BY <1>7, <2>1, <2>2
<1>9. ASSUME NEW id \in DOMAIN run.fullRows
      PROVE  Faithful(id)
  <2>1. CASE id \in DOMAIN run.rows
    <3>1. rows[id] = run.fullRows[id]
      BY <1>1, <1>2, <1>6, <1>7, <2>1
    <3> QED
      BY <3>1 DEF Faithful, Alike
  <2>2. CASE id \notin DOMAIN run.rows
    <3>1. rows[id] = run.before.rows[id] /\ Matches(id, run.before.rows, run.fullRows)
      BY <1>1, <1>3, <1>6, <1>7, <2>2
    <3> QED
      BY <3>1 DEF Faithful, Matches
  <2> QED
    BY <2>1, <2>2
<1>10. \A id \in DOMAIN KeptRows \ DOMAIN run.fullRows : rows[id] = KeptRows[id]
  BY <1>1, <1>2, <1>4, <1>6, <1>8
<1> QED
  BY <1>8, <1>9, <1>10

\* The edges after the last write: which are left, and with what properties.
LEMMA FinalEdges ==
  ASSUME PlanIsSafe, PlanIsExact, Building, run.before # NoRun,
         edges = RestrictTo(Merged, {k \in DOMAIN Merged : NotDropped(k)} \ run.staleEdges)
  PROVE  /\ \A k \in DOMAIN run.fullEdges : k \in DOMAIN edges /\ edges[k] = run.fullEdges[k]
         /\ \A k \in (DOMAIN edges) \ DOMAIN run.fullEdges :
              /\ k \in DOMAIN run.before.edges
              /\ edges[k] = run.before.edges[k]
              /\ ~ {k[1], k[3]} \subseteq DOMAIN run.fullRows \cup run.refs
         /\ \A k \in DOMAIN run.before.edges :
              /\ k \notin DOMAIN run.fullEdges
              /\ NotDropped(k)
              /\ ~ {k[1], k[3]} \subseteq DOMAIN run.fullRows \cup run.refs
              => k \in DOMAIN edges
<1>1. /\ DOMAIN run.edges \subseteq DOMAIN run.fullEdges
      /\ \A k \in DOMAIN run.edges : run.edges[k] = run.fullEdges[k]
  BY DEF PlanIsSafe
<1>2. /\ \A k \in DOMAIN run.fullEdges \ DOMAIN run.edges :
           k \in DOMAIN run.before.edges /\ run.before.edges[k] = run.fullEdges[k]
      /\ \A k \in DOMAIN run.before.edges :
           k \in run.staleEdges <=> /\ k \notin DOMAIN run.fullEdges
                                    /\ {k[1], k[3]} \subseteq DOMAIN run.fullRows \cup run.refs
  BY DEF PlanIsExact
<1>3. DOMAIN Merged = (DOMAIN run.edges) \cup DOMAIN run.before.edges
  BY DEF Merged, Over
<1>4. \A k \in DOMAIN Merged :
        Merged[k] = IF k \in DOMAIN run.edges THEN run.edges[k] ELSE run.before.edges[k]
  BY <1>3 DEF Merged, Over
<1>5. \A k : k \in DOMAIN edges <=> k \in DOMAIN Merged /\ NotDropped(k) /\ k \notin run.staleEdges
  BY DEF RestrictTo
<1>6. \A k \in DOMAIN edges : edges[k] = Merged[k]
  BY DEF RestrictTo
<1>7. \A k \in DOMAIN run.fullEdges : NotDropped(k) /\ k \notin run.staleEdges
  BY EdgesOfTheBuildStay DEF NotDropped
<1>8. ASSUME NEW k \in DOMAIN run.fullEdges
      PROVE  k \in DOMAIN edges /\ edges[k] = run.fullEdges[k]
  <2>1. k \in DOMAIN Merged /\ Merged[k] = run.fullEdges[k]
    BY <1>1, <1>2, <1>3, <1>4
  <2> QED
    BY <2>1, <1>5, <1>6, <1>7
<1>9. ASSUME NEW k \in DOMAIN edges, k \notin DOMAIN run.fullEdges
      PROVE  /\ k \in DOMAIN run.before.edges
             /\ edges[k] = run.before.edges[k]
             /\ ~ {k[1], k[3]} \subseteq DOMAIN run.fullRows \cup run.refs
  <2>1. k \in DOMAIN Merged /\ k \notin DOMAIN run.edges /\ k \notin run.staleEdges
    BY <1>1, <1>5, <1>9
  <2>2. k \in DOMAIN run.before.edges
    BY <2>1, <1>3
  <2> QED
    BY <2>1, <2>2, <1>2, <1>4, <1>6, <1>9
<1>10. \A k \in DOMAIN run.before.edges :
         /\ k \notin DOMAIN run.fullEdges
         /\ NotDropped(k)
         /\ ~ {k[1], k[3]} \subseteq DOMAIN run.fullRows \cup run.refs
         => k \in DOMAIN edges
  BY <1>2, <1>3, <1>5
<1> QED
  BY <1>8, <1>9, <1>10

\* What ReconcileIsExact says of a whole run.
Exact ==
  /\ DOMAIN rows = DOMAIN run.fullRows \cup DOMAIN KeptRows
  /\ \A id \in DOMAIN run.fullRows : Faithful(id)
  /\ \A id \in DOMAIN KeptRows \ DOMAIN run.fullRows : rows[id] = KeptRows[id]
  /\ Inner(edges) = Inner(run.fullEdges) \cup
       {k \in Inner(run.before.edges) : /\ {k[1], k[3]} \subseteq DOMAIN rows
                                        /\ ~ {k[1], k[3]} \subseteq DOMAIN run.fullRows}
  /\ \A k \in DOMAIN run.fullEdges : k \in DOMAIN edges /\ edges[k] = run.fullEdges[k]
  /\ \A k \in Inner(edges) \ DOMAIN run.fullEdges : edges[k] = run.before.edges[k]

\* ReconcileIsExact is about the rows, the edges, the plan and the unparsed bytes alone.
LEMMA ReconcileParts ==
  /\ ReconcileIsExact <=> (whole => Exact)
  /\ ReconcileIsExact' <=> (whole' => Exact')
  /\ UNCHANGED <<rows, edges, run, stuck>> => (Exact' <=> Exact)
<1>1. UNCHANGED run => KeptRows' = KeptRows
  BY DEF KeptRows, Kept
<1>2. UNCHANGED <<rows, run, stuck>> => \A id : Faithful(id)' <=> Faithful(id)
  BY DEF Faithful
<1>3. UNCHANGED <<rows, edges, run, stuck>> => (Exact' <=> Exact)
  BY <1>1, <1>2 DEF Exact
<1>4. ReconcileIsExact <=> (whole => Exact)
  BY DEF ReconcileIsExact, Exact
<1>5. ReconcileIsExact' <=> (whole' => Exact')
  BY DEF ReconcileIsExact, Exact
<1> QED
  BY <1>3, <1>4, <1>5

\* What a run that lost nothing leaves is what a full build would have stored, with what
\* the run could not read.
LEMMA FinalIsExact ==
  ASSUME Stored, PlanIsSafe, PlanIsExact, Building, run.before # NoRun, Single,
         rows = RestrictTo(Landed, DOMAIN Landed \ run.staleNodes),
         edges = RestrictTo(Merged, {k \in DOMAIN Merged : NotDropped(k)} \ run.staleEdges)
  PROVE  Exact
<1>1. /\ DOMAIN rows = DOMAIN run.fullRows \cup DOMAIN KeptRows
      /\ \A id \in DOMAIN run.fullRows : Faithful(id)
      /\ \A id \in DOMAIN KeptRows \ DOMAIN run.fullRows : rows[id] = KeptRows[id]
  BY FinalRows
<1>2. /\ \A k \in DOMAIN run.fullEdges : k \in DOMAIN edges /\ edges[k] = run.fullEdges[k]
      /\ \A k \in (DOMAIN edges) \ DOMAIN run.fullEdges :
           /\ k \in DOMAIN run.before.edges
           /\ edges[k] = run.before.edges[k]
           /\ ~ {k[1], k[3]} \subseteq DOMAIN run.fullRows \cup run.refs
      /\ \A k \in DOMAIN run.before.edges :
           /\ k \notin DOMAIN run.fullEdges
           /\ NotDropped(k)
           /\ ~ {k[1], k[3]} \subseteq DOMAIN run.fullRows \cup run.refs
           => k \in DOMAIN edges
  BY FinalEdges
<1>3. \A id \in DOMAIN rows : id \notin run.staleNodes /\ IsNode(id)
  BY DEF RestrictTo, Stored, Shaped
<1>4. \A x \in run.refs : x[1] = "ext"
  BY DEF PlanIsSafe
<1> DEFINE stays == {k \in Inner(run.before.edges) : /\ {k[1], k[3]} \subseteq DOMAIN rows
                                                     /\ ~ {k[1], k[3]} \subseteq DOMAIN run.fullRows}
<1>5. ASSUME NEW k \in Inner(edges)
      PROVE  k \in Inner(run.fullEdges) \cup stays
  <2>1. k \in DOMAIN edges /\ k[3][1] # "ext"
    BY <1>5 DEF Inner
  <2>2. CASE k \in DOMAIN run.fullEdges
    BY <2>1, <2>2 DEF Inner
  <2>3. CASE k \notin DOMAIN run.fullEdges
    <3>1. k[1] \in DOMAIN rows /\ k[3] \in DOMAIN rows
      BY <2>1 DEF Stored
    <3>2. k \in DOMAIN run.before.edges
      BY <1>2, <2>1, <2>3
    <3>3. ~ {k[1], k[3]} \subseteq DOMAIN run.fullRows
      BY <1>2, <2>1, <2>3
    <3> QED
      BY <3>1, <3>2, <3>3, <2>1 DEF Inner
  <2> QED
    BY <2>2, <2>3
<1>6. ASSUME NEW k \in Inner(run.fullEdges)
      PROVE  k \in Inner(edges)
  BY <1>2, <1>6 DEF Inner
<1>7. ASSUME NEW k \in stays
      PROVE  k \in Inner(edges)
  <2>1. k \in DOMAIN run.before.edges /\ k[3][1] # "ext"
    BY <1>7 DEF Inner
  <2>2. k[1] \in DOMAIN rows /\ k[3] \in DOMAIN rows
    BY <1>7
  <2>3. NotDropped(k)
    BY <2>2, <1>3 DEF NotDropped
  <2>4. k[1] \notin run.refs /\ k[3] \notin run.refs
    BY <2>2, <1>3, <1>4 DEF IsNode
  <2>5. ~ {k[1], k[3]} \subseteq DOMAIN run.fullRows \cup run.refs
    BY <2>4, <1>7
  <2>6. k \in DOMAIN edges
    BY <1>2, <2>1, <2>3, <2>5
  <2> QED
    BY <2>1, <2>6 DEF Inner
<1>8. Inner(edges) = Inner(run.fullEdges) \cup stays
  <2> HIDE DEF stays
  <2> QED
    BY <1>5, <1>6, <1>7
<1>9. \A k \in Inner(edges) \ DOMAIN run.fullEdges : edges[k] = run.before.edges[k]
  BY <1>2 DEF Inner
<1> QED
  BY <1>1, <1>2, <1>8, <1>9 DEF Exact

\* Only a build that ended says that it was whole, and what it says stands while the rows,
\* the edges and the plan do.
LEMMA ExactStep ==
  ASSUME Project, Stored, PlanIsSafe, PlanIsExact, RunIsOfTree, WritesLand, Single,
         ReconcileIsExact, Next
  PROVE  ReconcileIsExact'
<1>1. CASE IndexChunks
  <2>1. /\ pc = "chunks" /\ UNCHANGED <<rows, edges, stuck>>
        /\ (run' = run /\ whole' = (run.before # NoRun)) \/ whole' = FALSE
    BY <1>1, IndexChunksIs
  <2>2. CASE ~whole'
    BY <2>2 DEF ReconcileIsExact
  <2>3. CASE run' = run /\ run.before # NoRun
    <3>1. Building
      BY <2>1 DEF RunIsOfTree, Writing
    <3>2. /\ rows = RestrictTo(Landed, DOMAIN Landed \ run.staleNodes)
          /\ edges = RestrictTo(Merged, {k \in DOMAIN Merged : NotDropped(k)} \ run.staleEdges)
      BY <2>1, <2>3 DEF WritesLand, Writing, Late, Closing
    <3>3. Exact
      BY <3>1, <3>2, <2>3, FinalIsExact
    <3> QED
      BY <3>3, <2>1, <2>3, ReconcileParts
  <2> QED
    BY <2>1, <2>2, <2>3
<1>2. CASE Start \/ StartPrune \/ Reuse \/ Edit
  <2>1. ~whole'
    BY <1>2, ReuseIs DEF Start, StartPrune, Edit
  <2> QED
    BY <2>1 DEF ReconcileIsExact
<1>3. CASE ReadScope
  <2>1. UNCHANGED <<rows, edges, run, stuck, whole>>
    BY <1>3 DEF ReadScope, store
  <2> QED
    BY <2>1, ReconcileParts
<1>4. CASE pc # "idle" /\ whole' = whole
  <2>1. ~whole'
    BY <1>4 DEF RunIsOfTree
  <2> QED
    BY <2>1 DEF ReconcileIsExact
<1>5. CASE UpsertNodes \/ UpsertExternals \/ UpsertEdges \/ DeleteNodes \/ DeleteEdges \/ Sweep
           \/ PruneNodes \/ PruneChunks \/ Checksums
  <2>1. pc # "idle" /\ Stands
    BY <1>5, UpsertNodesIs, UpsertExternalsIs, UpsertEdgesIs, DeleteNodesIs, DeleteEdgesIs,
       SweepIs, PruneNodesIs, PruneChunksIs, ChecksumsIs
  <2> QED
    BY <2>1, <1>4 DEF Stands
<1>6. CASE LoseRow
  BY <1>6, <1>4, LoseRowIs
<1>7. CASE PersistScope \/ PersistAsked
  BY <1>7, <1>4 DEF PersistScope, PersistAsked
<1> QED
  BY <1>1, <1>2, <1>3, <1>5, <1>6, <1>7 DEF Next

-----------------------------------------------------------------------------
(* The invariant holds, and what follows from it.                          *)

\* An empty store keeps the invariant.
LEMMA InitIsStored ==
  ASSUME Project, Init
  PROVE  StoreInv
<1>1. /\ rows = << >> /\ edges = << >> /\ externals = {} /\ chunks = {} /\ pruned = {}
      /\ stuck = {} /\ exposed = {} /\ daemon = {} /\ edits = 0 /\ stamp = [f \in Files |-> 0]
      /\ pc = "idle" /\ run = NoRun /\ whole = FALSE
  BY DEF Init
<1>2. PICK tree \in Trees : disk = [f \in Files |-> [v |-> 1, c |-> tree[f]]]
  BY DEF Init
<1>3. DOMAIN rows = {} /\ DOMAIN edges = {} /\ IsFunction(rows) /\ IsFunction(edges)
  BY <1>1 DEF IsFunction
<1>4. tree \in [Files -> Contents]
  BY <1>2 DEF Project
<1>5. \A f \in Files : disk[f].v = 1 /\ disk[f].c \in Contents
  BY <1>2, <1>4
<1>6. Stored
  <2>1. stamp \in [Files -> 0..edits + 1] /\ \A f \in Files : stamp[f] = 0
    BY <1>1
  <2>2. edits \in 0..MaxEdits
    BY <1>1 DEF Project
  <2>3. DOMAIN disk = Files
    BY <1>2
  <2>4. \A f \in Present : disk[f].v \in 1..edits + 1 /\ disk[f].c \in Contents
    BY <1>1, <1>5 DEF Present
  <2> QED
    BY <1>1, <1>3, <2>1, <2>2, <2>3, <2>4 DEF Stored
<1>7. ~Building
  BY <1>1 DEF Building, NoRun
<1>8. StampIsOfRows /\ PruneStands
  <2>1. Out = {}
    BY <1>1 DEF Out
  <2> QED
    BY <1>1, <1>3, <2>1 DEF StampIsOfRows, PruneStands, NoneOf, Pruning, Writing
<1>9. PlanIsSafe /\ PlanIsExact /\ StandingEdgesStand
  BY <1>7 DEF PlanIsSafe, PlanIsExact, StandingEdgesStand
<1>10. RunIsOfTree /\ WritesLand
  BY <1>1 DEF RunIsOfTree, WritesLand, Writing, Late
<1>11. ReconcileIsExact
  BY <1>1 DEF ReconcileIsExact
<1> QED
  BY <1>6, <1>8, <1>9, <1>10, <1>11 DEF StoreInv

\* So does a step that changes nothing.
LEMMA StutterIsStored ==
  ASSUME StoreInv, UNCHANGED vars
  PROVE  StoreInv'
<1>1. UNCHANGED <<disk, edits, scope, daemon, rows, edges, externals, stamp, chunks, pc, run,
                  whole, stuck, pruned, exposed>>
  BY DEF vars, store, scopes
<1>2. Stored' /\ StampIsOfRows'
  BY <1>1 DEF StoreInv, Stored, StampIsOfRows, Present, Shaped
<1>3. PlanIsSafe' /\ StandingEdgesStand'
  BY <1>1 DEF StoreInv, PlanIsSafe, StandingEdgesStand, Building
<1>4. PlanIsExact'
  <2>1. KeptRows' = KeptRows
    BY <1>1 DEF KeptRows, Kept
  <2>2. \A id : Matches(id, run.before.rows, run.fullRows)' = Matches(id, run.before.rows, run.fullRows)
    BY <1>1 DEF Matches
  <2> QED
    BY <1>1, <2>1, <2>2 DEF StoreInv, PlanIsExact, Building
<1>5. RunIsOfTree'
  BY <1>1 DEF StoreInv, RunIsOfTree, Building, Present
<1>6. WritesLand'
  BY <1>1 DEF StoreInv, WritesLand, Landed, Merged, NotDropped
<1>7. PruneStands'
  BY <1>1 DEF StoreInv, PruneStands, NoneOf, Out, Building
<1>8. Single => ReconcileIsExact'
  BY <1>1, ReconcileParts DEF StoreInv
<1> QED
  BY <1>2, <1>3, <1>4, <1>5, <1>6, <1>7, <1>8 DEF StoreInv

\* Every step keeps the invariant.
LEMMA StoreInvStep ==
  ASSUME Project, StoreInv, [Next]_vars
  PROVE  StoreInv'
<1>1. CASE Next
  <2>1. /\ Stored /\ StampIsOfRows /\ PlanIsSafe /\ PlanIsExact /\ RunIsOfTree /\ WritesLand
        /\ PruneStands /\ StandingEdgesStand /\ (Single => ReconcileIsExact)
    BY DEF StoreInv
  <2>2. Stored'
    BY <1>1, <2>1, StoredStep
  <2>3. StampIsOfRows'
    BY <1>1, <2>1, StampStep
  <2>4. PlanIsSafe'
    BY <1>1, <2>1, PlanSafeStep
  <2>5. PlanIsExact'
    BY <1>1, <2>1, PlanExactStep
  <2>6. RunIsOfTree'
    BY <1>1, <2>1, TreeStep
  <2>7. WritesLand'
    BY <1>1, <2>1, WritesStep
  <2>8. PruneStands'
    BY <1>1, <2>1, PruneStep
  <2>9. StandingEdgesStand'
    BY <1>1, <2>1, StandingStep
  <2>10. Single => ReconcileIsExact'
    BY <1>1, <2>1, ExactStep
  <2> QED
    BY <2>2, <2>3, <2>4, <2>5, <2>6, <2>7, <2>8, <2>9, <2>10 DEF StoreInv
<1>2. CASE UNCHANGED vars
  BY <1>2, StutterIsStored
<1> QED
  BY <1>1, <1>2

\* The whole invariant holds of every behaviour of every project.
THEOREM StoreStands == ASSUME Project PROVE Spec => []StoreInv
<1>1. Init => StoreInv
  BY InitIsStored
<1>2. StoreInv /\ [Next]_vars => StoreInv'
  BY StoreInvStep
<1> QED
  BY <1>1, <1>2, PTL DEF Spec

\* An edge has both its ends, a checksum is on the module node of its file and is one the
\* tree has had, and chunks, scope and prunes are of the project's files.
THEOREM TypeCorrect == ASSUME Project PROVE Spec => []TypeOK
<1>1. StoreInv => TypeOK
  <2> SUFFICES ASSUME Stored
               PROVE  TypeOK
    BY DEF StoreInv
  <2>1. \A k \in DOMAIN edges : {k[1], k[3]} \subseteq Ids
    BY DEF Stored, Ids
  <2>2. stamp \in Indexed
    <3>1. 0..edits + 1 \subseteq 0..MaxEdits + 1
      BY DEF Stored, Project
    <3> QED
      BY <3>1 DEF Stored, Indexed
  <2> QED
    BY <2>1, <2>2 DEF Stored, TypeOK
<1> QED
  BY <1>1, StoreStands, PTL

\* A reader, or a crash at any write, never meets the graph without an edge that was there
\* before the run and is there after it: build writes before it deletes, and deletes
\* nothing of the build (graph_builder.py).
\* With TypeCorrect, every edge it meets has both its ends.
THEOREM GraphAlwaysStands == ASSUME Project PROVE Spec => []GraphStands
<1>1. StoreInv => StandingEdgesStand
  BY DEF StoreInv
<1>2. TypeOK /\ StandingEdgesStand => GraphStands
  BY DEF GraphStands
<1> QED
  BY <1>1, <1>2, StoreStands, TypeCorrect, PTL

\* What a prune has reported as dropped stays out of every later update, though each of
\* them scans the tree again, until a caller asks for it; but for the files whose narrowed
\* scope had no root node to stand on or was overtaken by a catch-up
\* (project_manager.py, prune_out_of_scope and _persist_scope; watch_daemon.py).
THEOREM PrunedFilesStayOut == ASSUME Project PROVE Spec => []PrunedStaysOut
<1>1. StoreInv => PrunedStaysOut
  <2> SUFFICES ASSUME Stored, PruneStands, NEW f \in Out
               PROVE  f \notin IndexedFiles /\ f \notin chunks
    BY DEF StoreInv, PrunedStaysOut, Out
  <2>1. f \notin chunks
    BY DEF PruneStands, NoneOf
  <2>2. \A id \in DOMAIN rows : ~IsFolder(id) => rows[id].file # f
    BY StoredNamesFile DEF PruneStands, NoneOf
  <2> QED
    BY <2>1, <2>2 DEF IndexedFiles
<1> QED
  BY <1>1, StoreStands, PTL

\* However little an update wrote, it leaves the graph that a full build of the tree would
\* have stored, with the rows of the files it could not read, and of files whose checksum
\* vouches for bytes that no run could parse what already_stored compares; in a project no
\* file of which defines an id twice (graph_builder.py, _narrow_writes and
\* _plan_reconcile); and it brings back nothing that a prune has dropped.
THEOREM UpdatesAreExact ==
  ASSUME Project, Single
  PROVE  Spec => []StoreIsExact
<1>1. StoreInv => ReconcileIsExact
  BY DEF StoreInv
<1>2. ReconcileIsExact /\ PrunedStaysOut => StoreIsExact
  BY DEF StoreIsExact
<1> QED
  BY <1>1, <1>2, StoreStands, PrunedFilesStayOut, PTL
=============================================================================
