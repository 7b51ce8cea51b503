----------------------------- MODULE GraphStore -----------------------------
(***************************************************************************)
(* How an update brings the stored graph to the tree (GraphBuilder.build   *)
(* from the resolution on, _narrow_writes, _plan_reconcile, the writes of  *)
(* db/repository.py) and how a narrowed scope is pruned                    *)
(* (ProjectManager.prune_out_of_scope).                                    *)
(*                                                                         *)
(* Every update parses and resolves the whole tree, because what a file is *)
(* recorded as calling depends on the others, but it writes only what it   *)
(* can prove to differ from the store and deletes only what it can prove   *)
(* gone.  IndexRun knows one row per file and has the files change in      *)
(* mid-run; here a file has several rows, edges lead from file to file and *)
(* the tree stands still during a run.  Three callers run it: an explicit  *)
(* index, whose scope becomes the project's; the daemon's catch-up, which  *)
(* is one with the scope it read before it got the lease; and a watcher's  *)
(* flush, which reads the scope under the lease.                           *)
(***************************************************************************)
EXTENDS Naturals, FiniteSets

CONSTANTS Files,      \* paths; a path is also the name under which it is imported
          Dir,        \* [Files -> directories]
          Root,       \* the tree's root directory
          Contents,   \* what a file may hold: [defs, twins, calls, imports]
          Trees,      \* the trees a first index may find: [Files -> Contents]
          Absent,     \* the "content" of a file that is not there
          Passes,     \* {"heuristic"} or with "semantic": how CALLS were derived
          Scopes,     \* the scopes a caller may give: [include, exclude], sets of files
          MaxEdits,   \* bound: edits of the tree
          MaxFaults,  \* bound: obstructed files, lost rows, runs that die
          MaxPrunes   \* bound: prunes

VARIABLES disk,       \* [Files -> [v, c]] or Absent; v is the bytes' checksum
          edits, faults, prunes,
          scope,      \* the scope on the project's root node
          daemon,     \* the scope an adopting daemon has read for its catch-up, or {}
          rows,       \* [id -> [file, v, outside, by, twin]]: the :Code nodes
          edges,      \* [<<source, TYPE, target>> -> properties]
          externals,  \* the :External nodes
          stamp,      \* [Files -> v]: the checksum on a file's module node, 0 if none
          chunks,     \* files with stored chunks
          pc, run,    \* the phase and the plan of the run that holds the lease, or ended whole
          whole,      \* history: the last run was a build that ended and lost nothing
          stuck,      \* history: files stamped by a run that could not parse them
          pruned,     \* history: files a prune has dropped and no caller has asked for since
          exposed     \* history: those of them whose narrowed scope could not hold

store == <<rows, edges, externals, stamp, chunks>>
scopes == <<scope, daemon, pruned, exposed>>
vars == <<disk, edits, faults, prunes, scopes, store, pc, run, whole, stuck>>

RestrictTo(fn, S) == [x \in (DOMAIN fn) \cap S |-> fn[x]]
Over(new, old) ==
  [x \in (DOMAIN new) \cup DOMAIN old |-> IF x \in DOMAIN new THEN new[x] ELSE old[x]]
-----------------------------------------------------------------------------
(* The parsed and resolved graph of the files P that gave nodes.           *)

Mod(f) == <<"mod", f>>
Def(f, s) == <<"def", f, s>>
Folder(d) == <<"dir", d>>
Ext(n) == <<"ext", n>>
IsFolder(id) == id[1] = "dir"

NodesOf(P) ==
  {Mod(f) : f \in P} \cup (UNION {{Def(f, s) : s \in disk[f].c.defs} : f \in P})
  \cup {Folder(d) : d \in {Dir[f] : f \in P} \cup (IF P = {} THEN {} ELSE {Root})}

\* A callee name resolves to the one definition it can mean, or to nothing (Calls.tla).
Callee(s, P) ==
  LET meant == {Def(f, s) : f \in {g \in P : s \in disk[g].c.defs}}
  IN IF Cardinality(meant) = 1 THEN meant ELSE {}

Outside(f, s, P) ==
  {n \in {c[2] : c \in {d \in disk[f].c.calls : d[1] = s}} : Callee(n, P) = {}}

\* An id a file defines twice (an overload, a property and its setter) has two
\* rows in the list; the calls are recorded on the last of them only.
Row(id, twin, P, pass) ==
  CASE id[1] = "dir" -> [file |-> id[2], v |-> 0, outside |-> {}, by |-> "", twin |-> 2]
    [] id[1] = "mod" -> [file |-> id[2], v |-> disk[id[2]].v, outside |-> {}, by |-> pass, twin |-> 2]
    [] id[1] = "def" -> [file |-> id[2], v |-> disk[id[2]].v, by |-> "", twin |-> twin,
                         outside |-> IF twin = 1 THEN {} ELSE Outside(id[2], id[3], P)]

FullRows(P, pass) == [id \in NodesOf(P) |-> Row(id, 2, P, pass)]

Contains(P) ==
  (UNION {{<<Mod(f), "CONTAINS", Def(f, s)>> : s \in disk[f].c.defs} : f \in P})
  \cup {<<Folder(Dir[f]), "CONTAINS", Mod(f)>> : f \in P}
  \cup {<<Folder(Root), "CONTAINS", Folder(Dir[f])>> : f \in {g \in P : Dir[g] # Root}}

Calls(P) ==
  UNION {UNION {{<<Def(f, c[1]), "CALLS", t>> : t \in Callee(c[2], P)}
                : c \in disk[f].c.calls} : f \in P}

\* _resolve_external_edges: an import of no file of the project is repointed at an
\* :External node.
Imports(P) ==
  UNION {{<<Mod(f), "IMPORTS", IF n \in P THEN Mod(n) ELSE Ext(n)>> : n \in disk[f].c.imports}
         : f \in P}

FullEdges(P, pass) ==
  [k \in Contains(P) \cup Calls(P) \cup Imports(P) |->
     CASE k[2] = "CONTAINS" -> 0
       [] k[2] = "CALLS" -> pass
       [] k[2] = "IMPORTS" -> disk[k[1][2]].v]

Refs(P) == {k[3] : k \in Imports(P)} \ NodesOf(P)
-----------------------------------------------------------------------------
(* _scan_for_changes, _plan_reconcile and _narrow_writes: all reads, under *)
(* the project's lease.  A file is looked at four times, and each may      *)
(* fail: it is listed, and what is listed is hashed for the diff, hashed   *)
(* for the snapshot, and parsed.                                           *)

Moments == {"list", "hash", "snapshot", "parse"}
Missed == {{"list"}} \cup SUBSET (Moments \ {"list"})
Misses == {m \in [Files -> Missed] : Cardinality({f \in Files : m[f] # {}}) <= MaxFaults}

Everything == [include |-> Files, exclude |-> {}]
Admitted(s) == s.include \ s.exclude

Present == {f \in Files : disk[f] # Absent}
Scanned(asked, m) == {f \in Present \cap Admitted(asked) : "list" \notin m[f]}
Did(asked, m, moment) == {f \in Scanned(asked, m) : moment \notin m[f]}
Produced(asked, m) == Did(asked, m, "parse")
Unchanged(asked, m) == {f \in Did(asked, m, "hash") : stamp[f] = disk[f].v}
HasChanges(asked, m) ==
  \/ Unchanged(asked, m) # Did(asked, m, "hash")
  \/ {f \in Files : stamp[f] # 0} \ Scanned(asked, m) # {}

\* An empty store is built, whether or not the tree has anything for it.
HasWork(asked, m) == DOMAIN rows = {} \/ HasChanges(asked, m)

\* What cannot be listed is not confirmed to be gone.
IndexedFiles == {rows[id].file : id \in {i \in DOMAIN rows : ~IsFolder(i)}}
ConfirmedDeleted(asked, m) ==
  (IndexedFiles \ Scanned(asked, m)) \ (Present \cup {f \in Files : "list" \in m[f]})

NeededDirs(survivors) == {Root} \cup {Dir[f] : f \in survivors}

StaleNodes(P, gone) ==
  {id \in DOMAIN rows :
     IF IsFolder(id)
       THEN /\ id \notin NodesOf(P)
            /\ id[2] \notin NeededDirs((IndexedFiles \ gone) \cup P)
       ELSE \/ rows[id].file \in gone
            \/ rows[id].file \in P /\ id \notin NodesOf(P)}

\* Mutant: the edges are wiped, for the build writes them all.
WholeSet(P, pass) == DOMAIN edges

\* Deleted only when both ends were parsed in this run; the ends of this run are its
\* nodes and the dependencies its own edges name.
StaleEdges(P, pass) ==
  {k \in DOMAIN edges : /\ k \notin DOMAIN FullEdges(P, pass)
                        /\ {k[1], k[3]} \subseteq NodesOf(P) \cup Refs(P)}

\* Mutant: the row of an unchanged file is taken to be what the parse would give.
SameBytes(id, row, unchanged) ==
  /\ id \in DOMAIN rows
  /\ row.file \in unchanged

Alike(old, new) == old.file = new.file /\ old.outside = new.outside /\ old.by = new.by
AlreadyStored(id, row, unchanged) ==
  /\ id \in DOMAIN rows
  /\ row.file \in unchanged
  /\ Alike(rows[id], row)

\* Later rows of a batch are merged over earlier ones of the same id.
ToUpsert(P, unchanged, pass) ==
  LET Written(id) == {t \in 1..2 : /\ t = 2 \/ (id[1] = "def" /\ id[3] \in disk[id[2]].c.twins)
                                   /\ ~AlreadyStored(id, Row(id, t, P, pass), unchanged)}
  IN [id \in {i \in NodesOf(P) : Written(i) # {}} |->
        Row(id, IF 2 \in Written(id) THEN 2 ELSE 1, P, pass)]

NeedsWrite(k, prop) ==
  \/ k[2] = "CALLS"
  \/ k \notin DOMAIN edges
  \/ k[2] = "IMPORTS" /\ edges[k] # prop

ToMerge(P, pass) ==
  LET full == FullEdges(P, pass)
  IN RestrictTo(full, {k \in DOMAIN full : NeedsWrite(k, full[k])})

NoRun == [rows |-> << >>]

\* Every file of the snapshot is stamped but those proved unchanged: also one that
\* gave no nodes.
Plan(asked, explicit, m, pass) ==
  LET P == Produced(asked, m)
      U == Unchanged(asked, m)
      gone == ConfirmedDeleted(asked, m)
  IN [rows |-> ToUpsert(P, U, pass), edges |-> ToMerge(P, pass), refs |-> Refs(P),
      staleNodes |-> StaleNodes(P, gone), staleEdges |-> StaleEdges(P, pass),
      stamps |-> [f \in Did(asked, m, "snapshot") \ U |-> disk[f].v],
      produced |-> P, gone |-> gone, asked |-> asked, explicit |-> explicit,
      fullRows |-> FullRows(P, pass), fullEdges |-> FullEdges(P, pass),
      before |-> [rows |-> rows, edges |-> edges]]

Init ==
  /\ \E tree \in Trees : disk = [f \in Files |-> [v |-> 1, c |-> tree[f]]]
  /\ edits = 0 /\ faults = 0 /\ prunes = 0
  /\ scope = Everything /\ daemon = {}
  /\ rows = << >> /\ edges = << >> /\ externals = {}
  /\ stamp = [f \in Files |-> 0] /\ chunks = {}
  /\ pc = "idle" /\ run = NoRun /\ whole = FALSE
  /\ stuck = {} /\ pruned = {} /\ exposed = {}

\* A file is written, created or removed between two runs; its bytes are new ones
\* (bytes that come back are IndexRun's subject).
Edit ==
  /\ pc = "idle" /\ edits < MaxEdits
  /\ edits' = edits + 1
  /\ \E f \in Files, new \in {[v |-> edits + 2, c |-> c] : c \in Contents} \cup {Absent} :
       disk[f] # new /\ disk' = [disk EXCEPT ![f] = new]
  /\ run' = NoRun /\ whole' = FALSE
  /\ UNCHANGED <<faults, prunes, scopes, store, pc, stuck>>

\* The daemon, having adopted the project, reads the scope: before its catch-up has the
\* lease, so at any moment of another's run.
ReadScope ==
  /\ daemon = {} /\ daemon' = {scope}
  /\ UNCHANGED <<disk, edits, faults, prunes, scope, pruned, exposed, store, pc, run, whole, stuck>>

Obstructed(m) ==
  LET hit == Cardinality({f \in Files : m[f] # {}})
  IN faults + hit <= MaxFaults /\ faults' = faults + hit

\* An explicit index defines the scope: what it admits is pruned no longer.
Asked(by, asked) ==
  \/ /\ by = "caller" /\ asked \in Scopes
     /\ pruned' = pruned \ Admitted(asked) /\ UNCHANGED <<daemon, exposed>>
  \/ /\ by = "daemon" /\ asked \in daemon
     /\ daemon' = {} /\ UNCHANGED <<pruned, exposed>>
  \/ /\ by = "watcher" /\ asked = scope /\ DOMAIN rows # {}
     /\ UNCHANGED <<daemon, pruned, exposed>>
Callers == {"caller", "daemon", "watcher"}

\* GraphBuilder.update, up to the first write; a first index is an update of nothing.
Start ==
  /\ pc = "idle"
  /\ \E by \in Callers, asked \in Scopes \cup daemon \cup {scope}, m \in Misses :
       /\ Asked(by, asked)
       /\ Obstructed(m)
       /\ HasWork(asked, m)
       /\ \E pass \in Passes : run' = Plan(asked, by # "watcher", m, pass)
  /\ pc' = "nodes" /\ whole' = FALSE
  /\ UNCHANGED <<disk, edits, prunes, scope, store, stuck>>

\* The rows of a write go label by label, the edges type by type; when the process dies
\* in it, the batches of some of these have landed.
Batches(all, kind(_)) == {{x \in all : kind(x) \in K} : K \in SUBSET {kind(x) : x \in all}}
Label(id) == id[1]
Type(k) == k[2]
Itself(f) == f

Lands(part, all, next) ==
  /\ \/ part = all /\ pc' = next /\ UNCHANGED <<faults, run>>
     \/ faults < MaxFaults /\ pc' = "idle" /\ faults' = faults + 1 /\ run' = NoRun
  /\ UNCHANGED <<disk, edits, prunes, scopes, whole>>

\* upsert_nodes; the summaries an upsert preserves are IndexRun's.
UpsertNodes ==
  /\ pc = "nodes"
  /\ \E part \in Batches(DOMAIN run.rows, Label) :
       /\ Lands(part, DOMAIN run.rows, "externals")
       /\ rows' = Over(RestrictTo(run.rows, part), rows)
  /\ UNCHANGED <<edges, externals, stamp, chunks, stuck>>

\* upsert_external_nodes
UpsertExternals ==
  /\ pc = "externals"
  /\ \E part \in Batches(run.refs, Label) :
       /\ Lands(part, run.refs, "edges")
       /\ externals' = externals \cup part
  /\ UNCHANGED <<rows, edges, stamp, chunks, stuck>>

\* upsert_edges: the MATCHes drop an edge with an end that is not stored.
Joined(es) ==
  RestrictTo(es, {k \in DOMAIN es : {k[1], k[3]} \subseteq DOMAIN rows \cup externals})

UpsertEdges ==
  /\ pc = "edges"
  /\ \E part \in Batches(DOMAIN run.edges, Type) :
       /\ Lands(part, DOMAIN run.edges, "drop_nodes")
       /\ edges' = Over(Joined(RestrictTo(run.edges, part)), edges)
  /\ UNCHANGED <<rows, externals, stamp, chunks, stuck>>

\* DETACH DELETE: the edges and the checksum go with the node.
Detached(ids) ==
  /\ rows' = RestrictTo(rows, DOMAIN rows \ ids)
  /\ edges' = RestrictTo(edges, {k \in DOMAIN edges : {k[1], k[3]} \cap ids = {}})
  /\ stamp' = [f \in Files |-> IF Mod(f) \in ids THEN 0 ELSE stamp[f]]

DeleteNodes ==
  /\ pc = "drop_nodes"
  /\ \E part \in Batches(run.staleNodes, Label) :
       /\ Lands(part, run.staleNodes, "drop_edges")
       /\ Detached(part)
  /\ UNCHANGED <<externals, chunks, stuck>>

DeleteEdges ==
  /\ pc = "drop_edges"
  /\ \E part \in Batches(run.staleEdges, Type) :
       /\ Lands(part, run.staleEdges, "sweep")
       /\ edges' = RestrictTo(edges, DOMAIN edges \ part)
  /\ UNCHANGED <<rows, externals, stamp, chunks, stuck>>

\* delete_orphan_external_nodes
Sweep ==
  /\ pc = "sweep"
  /\ LET orphans == {x \in externals : \A k \in DOMAIN edges : k[3] # x} IN
       \E part \in Batches(orphans, Label) :
         /\ Lands(part, orphans, "checksums")
         /\ externals' = externals \ part
  /\ UNCHANGED <<rows, edges, stamp, chunks, stuck>>

\* A row the database lost while it reported it written: the root's takes the scope along.
LoseRow ==
  /\ pc \in {"externals", "drop_nodes"} /\ faults < MaxFaults
  /\ faults' = faults + 1
  /\ \/ /\ pc = "externals"
        /\ \E id \in DOMAIN run.rows :
             /\ Detached({id})
             /\ IF id = Folder(Root) THEN scope' = Everything /\ exposed' = exposed \cup pruned
                                     ELSE UNCHANGED <<scope, exposed>>
     \/ /\ pc = "drop_nodes"
        /\ \E k \in DOMAIN run.edges : edges' = RestrictTo(edges, DOMAIN edges \ {k})
        /\ UNCHANGED <<rows, stamp, scope, exposed>>
  /\ pc' = pc
  /\ run' = [run EXCEPT !.before = NoRun]
  /\ UNCHANGED <<disk, edits, prunes, daemon, pruned, externals, chunks, whole, stuck>>

\* update_checksums, of the files whose module node is there.
Checksums ==
  /\ pc = "checksums"
  /\ \E part \in Batches(DOMAIN run.stamps, Itself) :
       LET stamped == {f \in part : Mod(f) \in DOMAIN rows} IN
         /\ Lands(part, DOMAIN run.stamps, IF run.explicit THEN "scope" ELSE "chunks")
         /\ stamp' = [f \in Files |-> IF f \in stamped THEN run.stamps[f] ELSE stamp[f]]
         /\ stuck' = (stuck \ stamped) \cup (stamped \ run.produced)
  /\ UNCHANGED <<rows, edges, externals, chunks>>

\* Mutant: the narrowed scope is not written back.
Unsaved(s) == scope

\* The scope is a property of the root's node, and set on nothing while that is not there.
Carried(s) == IF Folder(Root) \in DOMAIN rows THEN s ELSE scope

\* _persist_scope, by an explicit index or a catch-up; a watcher's flush leaves the scope.
PersistAsked ==
  /\ pc = "scope" /\ pc' = "chunks"
  /\ scope' = Carried(run.asked)
  /\ UNCHANGED <<disk, edits, faults, prunes, daemon, pruned, exposed, store, run, whole, stuck>>

\* index_code, of a file's presence alone.
IndexChunks ==
  /\ pc = "chunks" /\ pc' = "idle"
  /\ \/ /\ chunks' = (chunks \ run.gone) \cup run.produced
        /\ whole' = (run.before # NoRun) /\ UNCHANGED <<faults, run>>
     \/ /\ faults < MaxFaults /\ faults' = faults + 1
        /\ \E part \in SUBSET run.produced : chunks' = chunks \cup part
        /\ whole' = FALSE /\ run' = NoRun
  /\ UNCHANGED <<disk, edits, prunes, scopes, rows, edges, externals, stamp, stuck>>

\* An index without changes persists its scope and repairs: the chunks of files without,
\* and the CONTAINS edges that parent_id says are missing.
ParentOf(id) ==
  CASE id[1] = "def" -> {Mod(id[2])}
    [] id[1] = "mod" -> {Folder(Dir[id[2]])}
    [] id[1] = "dir" -> IF id[2] = Root THEN {} ELSE {Folder(Root)}

MissingContains ==
  (UNION {{<<p, "CONTAINS", id>> : p \in ParentOf(id) \cap DOMAIN rows} : id \in DOMAIN rows})
  \ DOMAIN edges

Reuse ==
  /\ pc = "idle"
  /\ \E by \in Callers \ {"watcher"}, asked \in Scopes \cup daemon, m \in Misses :
       /\ Asked(by, asked)
       /\ Obstructed(m)
       /\ ~HasWork(asked, m)
       /\ scope' = Carried(asked)
  /\ chunks' = chunks \cup {f \in Present : Mod(f) \in DOMAIN rows}
  /\ edges' = Over([k \in MissingContains |-> 0], edges)
  /\ whole' = FALSE /\ run' = NoRun
  /\ UNCHANGED <<disk, edits, prunes, rows, externals, stamp, pc, stuck>>
-----------------------------------------------------------------------------
(* prune_out_of_scope: planned from the stored nodes alone; the narrowed   *)
(* scope is persisted after the deletes.                                   *)

\* New excludes are merged into the stored ones; an include that is given replaces it.
Narrowings ==
  {[include |-> i, exclude |-> scope.exclude \cup x] :
     i \in {scope.include} \cup {s.include : s \in Scopes}, x \in {s.exclude : s \in Scopes}}

Refused(kept) == IndexedFiles \ Admitted(kept)

PrunePlan(kept) ==
  [nodes |-> {id \in DOMAIN rows :
                IF IsFolder(id) THEN id[2] \notin NeededDirs(IndexedFiles \ Refused(kept))
                                ELSE rows[id].file \in Refused(kept)},
   files |-> Refused(kept), chunks |-> chunks \cap Refused(kept), kept |-> kept, rows |-> << >>]

StartPrune ==
  /\ pc = "idle" /\ prunes < MaxPrunes
  /\ prunes' = prunes + 1
  /\ \E kept \in Narrowings : Refused(kept) # {} /\ run' = PrunePlan(kept)
  /\ pc' = "prune_nodes" /\ whole' = FALSE
  /\ UNCHANGED <<disk, edits, faults, scopes, store, stuck>>

PruneNodes ==
  /\ pc = "prune_nodes"
  /\ \E part \in Batches(run.nodes, Label) :
       /\ Lands(part, run.nodes, "prune_chunks")
       /\ Detached(part)
  /\ UNCHANGED <<externals, chunks, stuck>>

PruneChunks ==
  /\ pc = "prune_chunks"
  /\ \E part \in Batches(run.chunks, Itself) :
       /\ Lands(part, run.chunks, "prune_scope")
       /\ chunks' = chunks \ part
  /\ UNCHANGED <<rows, edges, externals, stamp, stuck>>

\* The narrowing holds unless there is no root's node to carry it, or a daemon has the
\* wider scope in hand.
NotHeld(files) ==
  {f \in files : Folder(Root) \notin DOMAIN rows \/ \E s \in daemon : f \in Admitted(s)}

PersistScope ==
  /\ pc = "prune_scope" /\ pc' = "idle"
  /\ scope' = Carried(run.kept)
  /\ pruned' = (pruned \ Admitted(run.kept)) \cup run.files
  /\ exposed' = (exposed \ run.files) \cup NotHeld(run.files)
  /\ run' = NoRun
  /\ UNCHANGED <<disk, edits, faults, prunes, daemon, store, whole, stuck>>

Next ==
  \/ Edit \/ ReadScope \/ Start \/ UpsertNodes \/ UpsertExternals \/ UpsertEdges \/ DeleteNodes
  \/ DeleteEdges \/ Sweep \/ LoseRow \/ Checksums \/ PersistAsked \/ IndexChunks \/ Reuse
  \/ StartPrune \/ PruneNodes \/ PruneChunks \/ PersistScope

Spec == Init /\ [][Next]_vars
-----------------------------------------------------------------------------
(* What a finished update leaves, said without the store it started from   *)
(* being read row by row.                                                  *)

Ids == DOMAIN rows \cup externals
Indexed == [Files -> 0..MaxEdits + 1]

\* Every edge has its two ends, and only the module node of a file carries its checksum.
TypeOK ==
  /\ \A k \in DOMAIN edges : {k[1], k[3]} \subseteq Ids
  /\ stamp \in Indexed
  /\ \A f \in Files : stamp[f] # 0 => Mod(f) \in DOMAIN rows
  /\ chunks \subseteq Files /\ stuck \subseteq Files
  /\ pruned \subseteq Files /\ exposed \subseteq Files

Building == "fullRows" \in DOMAIN run
Inner(es) == {k \in DOMAIN es : k[3][1] # "ext"}

\* What the run could neither parse nor confirm gone.
Kept == {f \in {run.before.rows[id].file : id \in {i \in DOMAIN run.before.rows : ~IsFolder(i)}} :
           f \notin run.produced \cup run.gone}
KeptRows ==
  RestrictTo(run.before.rows,
             {id \in DOMAIN run.before.rows :
                IF IsFolder(id) THEN id[2] \in NeededDirs(Kept \cup run.produced)
                                ELSE run.before.rows[id].file \in Kept})

\* A row is the full build's; of a file whose checksum vouches for bytes that no run could
\* parse, it is what already_stored compares of it.
Faithful(id) ==
  IF ~IsFolder(id) /\ id[2] \in stuck
    THEN Alike(rows[id], run.fullRows[id])
    ELSE rows[id] = run.fullRows[id]

\* However little an update wrote, the nodes it leaves are those a full build of the tree
\* would have written and, untouched, those of the files it could not read; the edges
\* among them are the full build's and those an unread file was an end of
\* (graph_builder.py, _narrow_writes and _plan_reconcile).
ReconcileIsExact ==
  whole =>
    /\ DOMAIN rows = DOMAIN run.fullRows \cup DOMAIN KeptRows
    /\ \A id \in DOMAIN run.fullRows : Faithful(id)
    /\ \A id \in DOMAIN KeptRows \ DOMAIN run.fullRows : rows[id] = KeptRows[id]
    /\ Inner(edges) = Inner(run.fullEdges) \cup
         {k \in Inner(run.before.edges) : /\ {k[1], k[3]} \subseteq DOMAIN rows
                                          /\ ~ {k[1], k[3]} \subseteq DOMAIN run.fullRows}
    /\ \A k \in DOMAIN run.fullEdges : k \in DOMAIN edges /\ edges[k] = run.fullEdges[k]
    /\ \A k \in Inner(edges) \ DOMAIN run.fullEdges : edges[k] = run.before.edges[k]

\* A reader, or a crash at any write, never meets the graph without an edge that was
\* there before the run and is there after it (the order of build's writes).
StandingEdgesStand ==
  Building /\ run.before # NoRun =>
    (DOMAIN run.before.edges) \cap (DOMAIN run.fullEdges) \subseteq DOMAIN edges

\* What a prune has dropped stays out of every later update, whoever starts it, until a
\* caller asks for it again (project_manager.py, prune_out_of_scope: the narrowed scope is
\* persisted); but for files whose narrowed scope could not hold.
PrunedStaysOut == (pruned \ exposed) \cap (IndexedFiles \cup chunks) = {}

\* Without that exception, as prune_out_of_scope says it (project_manager.py:761-762):
\* "a background watcher update stops re-admitting the pruned paths and the narrowing
\* survives the next explicit index of the same scope".  It fails: a daemon that read the
\* wider scope before the prune writes it back.
PruneHolds == pruned \cap (IndexedFiles \cup chunks) = {}

\* What an update leaves is what a full build of the tree would, and no update brings
\* back what a prune has dropped.
StoreIsExact == ReconcileIsExact /\ PrunedStaysOut

\* Every edge has its ends, whatever a crash or a reader meets, and none that is there
\* before and after a run is missing in between.
GraphStands == TypeOK /\ StandingEdgesStand
=============================================================================
