# Inflorescence, specified

Inflorescence turns a source tree into a graph in Memgraph: nodes for files and
the entities in them, LLM summaries of every node, vectors of the summaries and
of the code's chunks. Runs that build and update it are long, cost money, can
die at any await, and read a working tree that keeps changing. This directory
holds TLA+ models of the parts where that matters, the TLC instances that check
them, and TLAPS proofs. Paths below are relative to `src/src/inflorescence/`.

## The system

| Component | State | Operations | Meets |
|---|---|---|---|
| Project lease, `db/lease.py` | one `:IndexLock` node per project: holder, expiry | acquire by compare-and-set, heartbeat task, release | every other process that indexes, watches or reaps the project |
| Index and update runs, `project_manager.py` | asyncio lock and lease per project, the run's locals, root/scope/head/worktree stamps on the project's root node | `index_directory`, `update_project`, `prune_out_of_scope`, `ensure_indexed_for_query`, cost gates, repair pass | graph builder, RAG indexer, lease, repository, working tree |
| Graph builder, `code_indexer/graph_builder.py` | the build's nodes and edges, checksum snapshot, reconcile plan | `build`, `update`, `has_pending_changes`, `repair_missing_summaries`, `prune_scope` | parser, resolver, summarizer, repository |
| Summarizer, `code_indexer/summarizer.py` | draft summaries and input hashes | bottom-up hierarchy, reuse, map-reduce, kept-stale failure | LLM, repository (persist callback) |
| RAG indexer, `rag/indexer.py`, `rag/chunker.py` | chunk rows, coverage markers, vectors | `index_code`, `index_summaries`, prune, mark | embedding service, repository |
| Repository, `db/repository.py`, `db/queries.py` | everything stored | batched upserts, deletes, clone of a project, search | Memgraph |
| Watcher, `watcher.py` | `_changed_files`, `_timer`, observer thread | handle event, debounce, flush, start, stop | event loop, `update_project` |
| Watch daemon, `watch_daemon.py` | watched projects, claims (leases of their own) | refresh, adopt, reconcile, drop | watcher, repository, lease |
| Worktrees and janitor, `worktree.py`, `janitor.py` | git's registry, worktree marker of a project | seed or clone from the main checkout; reap the index of a removed worktree | runs, repository, lease |
| Cost gates, `cost.py`, `project_manager.py` | none: an estimate and a cap per run | price a run before it starts, refuse it, price the summaries once the files are parsed | runs, the MCP preview |
| Search, `tools/search.py`, `db/repository.py` | none across calls | windows over global indexes, fusion, pages, probes for words, fuzzy names | repository, embedding service |
| Graph and find tools, `tools/graph.py`, `tools/find.py` | none across calls | filtered pages, names to entities, an exhaustive scan of the files | repository, working tree |
| Freshness and coverage, `tools/freshness.py`, `gates.py`, `coverage.py` | a cache of drift scans | flags and notices on every answer | repository, git, working tree |
| Resolver and SCIP pass, `code_indexer/parser/`, `scip_semantic.py` | none across runs | calls and imports to nodes | graph builder |
| Parsers, LLM and embedding clients, driver | none | source text to entities, HTTP, Bolt | everything above |
| Dashboard, CLI, server, Docker, feedback | process wiring | | everything |

### Where it is hard

- **Concurrency.** Several server processes and one watch daemon mutate one
  database. Inside a process there are one event loop (every `await` is an
  interleaving point, and a synchronous HTTP request holds all of it), watchdog's
  observer thread and one timer thread per debounce window. Two runs of one
  project exclude each other by an asyncio lock and the lease; readers and the
  working tree exclude nobody.
- **Failure.** There is no transaction over a run: rows, summaries, checksums,
  chunks, markers and vectors are committed in separate batches. A run may be
  killed between any two, or stopped by a cost gate; one LLM or embedding call
  may fail; a file may be unreadable.
- **Ordering and staleness.** Files change between a run's scan, its checksum
  snapshot, the parse, the read for the summary and the read for the chunks.
- **Money.** Summaries and vectors are paid for. What is current must not be paid
  for again, and what was paid for must not be lost to a failure.
- **Answers under change.** A read tool makes several queries and reads of the disk;
  a run or an editor may come between any two, and the answer says of itself how
  fresh and how complete it is.
- **Shared indexes.** The vector and text indexes are global: a project's hits have to
  be dug out from under its neighbours' within a bounded window.
- **Other checkouts.** A worktree's first index is a copy of another project made
  while both live, and a background job deletes indexes of worktrees it takes for
  dead.

What must be true, component by component: one holder per lease, and no zombie
disturbs its successor; a run's stamps (checksum, input hash, coverage marker,
vector hash) never claim more than what is stored; whatever failed, running again
heals the index; an update that writes little leaves what a full build would; a
container's summary is that of its children's; no edit is lost between watcher, timer,
queue and run, and a registered project has one follower; a partial copy is never
served; nothing that lives is reaped, and what is dead goes; a search that stops
looking says so; pages do not skip rows; a chunking covers its file; a call resolves to
the reference's target or to nothing; a gate prices what will be spent; what is not
flagged is fresh.

## The modules

| Module | Models | Run |
|---|---|---|
| `ProjectMutex` | what the lease promises: a project that at most one run mutates | (abstract specification) |
| `ProjectLease` | `db/lease.py` | `lease`, `lease_stalled` |
| `ProjectLeaseProofs` | theorems about `ProjectLease` | (TLAPS) |
| `IndexRun` | one project's files through `index_directory`, `update_project`, `GraphBuilder`, summarizer leaves, `RAGIndexer`, repair | `index`, `index_heals`, `index_unparsed` |
| `IndexRunProofs` | theorems about `IndexRun`: what a run never does, what its stamps mean | (TLAPS) |
| `Calls` | the calls and imports left by the parsers, the ladders of `resolver.py`, the merge of `scip_semantic.py` | `pipeline` |
| `GraphStore` | `GraphBuilder.build` from the resolution on, `_narrow_writes`, `_plan_reconcile`, the writes, `prune_out_of_scope` | `pipeline` |
| `GraphStoreProofs` | theorems about `GraphStore` | (TLAPS) |
| `SummaryTree` | `summarizer.py` over a tree of entities, `plan_summaries`, `repair_missing_summaries` | `pipeline` |
| `Chunks` | `rag/chunker.py` and `index_code` of `rag/indexer.py` | `pipeline` |
| `CostGate` | the estimates of `cost.py` and `project_manager.py`, the two gates, what a run then spends | `pipeline` |
| `Pipeline` | the five models above as the stages of a run, and what each stage promises | `pipeline` |
| `PipelineProofs` | theorems about `Pipeline`: its summaries, chunks and gates | (TLAPS) |
| `Search` | the four searches of `tools/search.py` over the widening windows of `db/repository.py` | `read_tools` |
| `Listing` | `list_entities`, `search_entities` and the name resolution of `tools/graph.py` | `read_tools` |
| `FindText` | `tools/find.py` | `read_tools` |
| `Freshness` | `tools/freshness.py`, `gates.py`, `coverage.py` against runs and checkouts | `read_tools` |
| `ReadTools` | the four models above as the read tools of one server, and what each promises | `read_tools` |
| `ReadToolsProofs` | theorems about `ReadTools`: its freshness, searches, listings and text scans | (TLAPS) |
| `Watcher` | `watcher.py` with its threads, the adoption of a tree by `watch_daemon.py`, the `index_directory` tool, the update queue | `watcher` |
| `WatcherProofs` | the theorem about `Watcher` | (TLAPS) |
| `WatchRegistry` | the registry of followed projects, `watch_daemon.py` over it, the watcher line of an answer | `watch_registry` |
| `WatchRegistryProofs` | theorems about `WatchRegistry` | (TLAPS) |
| `WorktreeIndex` | the worktree fast path of `project_manager.py`, `clone_project`, `janitor.py` | `worktree`, `worktree_live`, `janitor_ordinary` |
| `WorktreeProofs` | theorems about `WorktreeIndex` | (TLAPS) |

The `MC*` modules give the constants values; `CallWorlds`, `ChunkTexts` and
`SearchWorlds` hold the small projects, texts and indexes used for it. `Pipeline` and
`ReadTools` put several components in one specification. The components of a suite share no
state: what one stage of a run hands to the next is an input of the next one's model,
and every read tool reads the store for itself. The initial state picks the stage or
the tool, and only its component moves, so the states add up instead of multiplying.
`Pipeline` extends `GraphStore` and `ReadTools` extends `Freshness`, whose properties
are checked as the theorems state them; while another component moves they wait in an
initial state. What the constants of a component may be is assumed in `Pipeline` and
`ReadTools`; `MCPipeline` and `MCReadTools` only give them values.

The modules compose by assumption. `ProjectLease` implements `ProjectMutex` (checked and
proved) and every other module takes its promise for granted: one run at a time. A run
is opened to a different depth in each, and what one shows another assumes:

- `IndexRun` opens it commit by commit, with one row and one chunk per file and no edge
  between files; `GraphStore` gives a file several rows and edges to others, `SummaryTree`
  puts containers over the leaves, `Chunks` cuts a file into many. In these three the
  tree stands still during a run, because `IndexRun` is about the files that do not.
- `Watcher` sees a run as one scan that takes in the files as they are, which is what
  `IndexRun` shows of runs that finish; `WatchRegistry` sees a watcher as a project
  that is followed or not, which is what `Watcher` shows of one.
- `Freshness` sees a run as a scan and three commits (rows, checksums, stamped head), in
  the order in which `IndexRun` has them. `WorktreeIndex` has the commits of rows and of
  chunks.

### ProjectLease

State: the lock node (`holder`, and its expiry as a distance `ttl` from now), and
of each `ProjectLease` object where it is in `__aenter__`, body or `__aexit__`
(`pc`), the time since it last attended to the lease (`timer`), the renewals missed
in a row, what is left of its timeout. `TryAcquire` is the compare-and-set of
`_ACQUIRE`, with the request stamped up to `MaxDelay` before it commits;
`TryRefused`, `AcquireFails`, `Enter`, `Renew`, `MissBeat`, `Leave`, `Release`,
`ReleaseFails` and `Crash` follow `_try_acquire`, `_heartbeat`, `__aexit__` and
`_release`. `Tick` moves time for everybody and stops at a deadline an instance
must meet: an event loop is at most `MaxStall` late.

### IndexRun

A file is one entity with one chunk, and content is a number that grows with each
edit, so every stored value (`rows`, checksum `ck`, `sum`, its input `hash`, vector,
markers, chunks and the `loose` chunks that lost their node) is named by the bytes it was
made from. A run (`run`, `pc`, `todo`) goes through preflight, diff, snapshot, parse,
gate, reconcile plan, upserts in any order, deletes, hash pass, summaries (each a
success or a failure that keeps the old value), checksums, chunks, prune, markers
and summary vectors, or through the repair pass; each commit is an action.
`world`, chosen at the start, says which failures may strike, which files may be
removed, whether files change under a run and whether bytes may come back.

### Calls

A name is a sequence of identifiers. A behaviour resolves one `world`: the nodes of a
small project, what its files import and bind, its calls and imports, and, for some,
the occurrences a SCIP indexer saw. Each step resolves one call or import through its
language's ladder (`ResolvePython`, `ResolveGo`, `ResolveTs`, the default) to an edge, an
external name or the unresolved list, or merges the compiler's answer, which has an edge
for every occurrence in a function that defines nothing: its calls and its mentions, a function
passed as a value or a class in an annotation (`Occurrences`). The reference
next to it says what the language means by the name, by scope and not by ladder:
an edge that is there must be the reference's, of a call or, on the compiler's word, of a
mention (`NeverGuessed`), a name noted as external
must not be one of the project (`ExternalIsOutside`), a call that leaves no trace at all
is none (`SilenceIsALeaf`), and an import of a file of the project reaches it
(`ImportsAreFound`).

### GraphStore

State: the tree (`disk`), the stored `rows`, `edges`, `externals`, per-file checksums
(`stamp`) and `chunks`, and a run's plan. `Start` parses, diffs and plans
(`ToUpsert`, `ToMerge`, `StaleNodes`, `StaleEdges`); the commits follow one by one:
nodes, externals, edges, deletes, sweep, checksums, scope, chunks. An index without changes
(`Reuse`) persists its scope and repairs chunks and containment. A run may die between any
two or in any of them, and lose rows. It looks at a file four times, to list it, to hash it for the
diff, to hash it for the snapshot and to parse it (`Moments`), and each may fail: every file of the
snapshot is stamped, so one that was hashed and not parsed keeps its old rows under a new
checksum (`stuck`). Three callers run it (`Asked`): an explicit index, whose scope becomes the
project's; the daemon's catch-up, one with the scope the daemon read before it had the lease
(`ReadScope`, `daemon`); and a watcher's flush, which reads it under the lease. `StartPrune` to
`PersistScope` narrow the scope, a property of the root's node (`Carried`). `pruned` are the files
a prune dropped and no caller asked for since, `exposed` those whose narrowed scope could not
hold: no root's node carries it, or the daemon has the wider one in hand.
A call resolves here when its name has one definition. `ReconcileIsExact` compares
what is stored after a run that finished with `FullRows` and `FullEdges` of the same tree.
`whole` is history: the last run was a build that ended and lost nothing. `PrunedStaysOut` is
about what was pruned and is not exposed.

### SummaryTree

A node is a `CodeNode` object; a hash is the input itself, so that reuse is comparing
inputs. `HashLeaves`, `Drain` (containers whose children are settled), batches that
succeed or fail node by node, `Stamp`, and `Repair` follow `summarizer.py`. A run that dies
loses its drafts and keeps the rows of its last batch. `due` and `plan` are what `PricedAndDue`
compares with what is asked of the LLM.

### Chunks

A text has lines and nodes with spans. `Windows`, `Owner`, `Runs` and `ChunksOf` are the
arithmetic of `rag/chunker.py`. A document is counted in characters or tokens, not in lines: it
is cut by the library's splitter, which packs whole sentences (`SentenceSpans`, external), or by its
fallback `_simple_split`, which cuts anywhere (`SplitSpans`); a run may meet either. The actions are the passes of `index_code` over a
window of files: probe, read, embed in requests of at most `EmbedCount` texts and
`EmbedChars` lines, store, link, prune, mark. `EveryPassageIsFound`: of a file
whose marker agrees with its bytes, every passage that its chunks promise stands whole, verbatim and
at its place in one stored chunk. The promise (`Promises`) is, of code, a passage of one owner that is
no longer than the overlap and a line; of a document, a passage of one sentence under the
library, and one no longer than the overlap and a character under the fallback. That every line
or character is in some chunk is its case of length one.

### CostGate

Prices are small numbers. A run estimates (`Estimate` over reported or changed files and
the chunk backlog), is refused or not, parses, prices the summaries (`PlanPrice`), is
refused or not, and spends as it goes. A new release may read or chunk files differently.
`blind` remembers that something was hidden from the estimate: `WithinCap` is about the others.

### Search

An index is a set of scored rows of all projects; it gives its best ones, rows of one score in
any order (`Windows`). A call reads a window of one index after the other (`ReadWindow`), keeps
the rows of as many entities as it needs (`Take`), counts the window (`Count`), widens
(`Wider`), stops at the ceiling or at the index's end, fuses the rows into one ranking (`Merge`),
probes for the words of a text query (`ProbeWords`) and searches again for each absent
one with edits (`Fuzzy`). Rows come and go between two queries, vectors of deleted nodes linger
(`lag`), and a probe may fail. `PageIsTheBest` compares the page with the project's own ranking.

### Listing and FindText

`Listing` cuts pages out of raw batches that pass the caller's filters, with offsets in
the filtered order, a scan cap, and rows that runs add or remove between pages;
`ResolveName` picks one entity for a name from a single query, and `NarrowName`
after a filtered scan of its own, batch by batch like that of a page; `Query` has the rows in the
order of the `ORDER BY`, which is total because no two rows share a place. `FindText` reads the files one
after the other within a budget while they change; every file ends in one class
(searched, binary, unreadable, skipped), and the pages together are a census. It reads what is
indexed and the first `MaxUnindexed` files of what the coverage scan found beyond; that there were
more, or that the scan was stopped, is said (`gap`), and the files left out are `beyond`.

### Freshness

A checkout is edited, switched and put back, a run scans and writes, and a tool call
reads rows, checksums and the stamped head, and then the HEAD of the checkout (`ReadHead`). Drift it
takes from the cache, or hashes one stored file after the other in a thread (`HashFile`) while
the checkout goes on, and `EndHash` keeps the result under the key of the HEAD it read before. Then
it hashes the files it names and annotates: a stale or missing file flags its entities, one that
cannot be read is `unknown` and named in the answer's meta block only. `saved`, `matched` and `reverted` are history that the
properties need to say what is excused: the files edited by hand since the commit they are of
was indexed, that every checksum is of the commit in the stamp, the files put back under a run;
a cached measurement remembers what was `edited` while it was made and whether the checkout
`moved` under it, which makes a call that uses it `tainted`. `EmptyIsExplained` is the coverage block of an
empty page.

### Watcher

State: which files the index is behind on (`stale`), the paths and timers of
`_DebouncedHandler`, the queue of flushed updates before the project's lock, the run
that holds it, and whether an observer or a claim exists. Timer threads have
identities, because a window that has expired cannot be cancelled and runs beside
the next one. `caller` is the daemon, which adopts by watching first and indexing
second, or the MCP tool, which does it the other way round.

### WatchRegistry

State: the registry (`registered`, `onDisk`), a claim per project and one per host
(`claim`, `single`: who has it, and whether somebody renews it), and each daemon's pass.
`ReadRegistry`, `StopWatching`, `Release`, `Adopt`, `Refuse`, `Start`, `Reconcile`,
`Settle` and `Wake` are `refresh` with `_drop`, `_adopt` and `_reconcile`, an action per
await; each call that may raise has its failing twin. A claim nobody renews may expire at
any time (`ExpireClaim`); that one that is renewed does not is what `ProjectLease` shows. An edit is
heard when the project is followed. `Notice` is the watcher line of the freshness block.

### WorktreeIndex

State: the checkout (`place`, git's `registered`, `mounted`, `tree`), the main
checkout's project (`donor`, always fully indexed), and the worktree's project: rows,
chunks, the edges between them (`linked`), the root with its path and mark, the
clone marker. A run diffs against the donor, copies row by row in any order
(`Copy`, or `CopyLoses` where Memgraph stores fewer rows than it reports), recounts,
and updates what differs; or falls back (`DropClone`, `DropFails`) on the client-side
seed. The janitor's five layers are five steps, with anything in between. The
commits of rows, summaries and checksums are merged where `IndexRun` tells them
apart.

## The runs

| Run | Instance | Shows |
|---|---|---|
| `lease` | 2 objects, one of them impatient, one renewal may fail; 68 k states | the inductive invariant `LeaseInv`, `MutualExclusion`, `LiveHolderNeverLapses`, `SuccessorUndisturbed` (a holder is displaced only by its release or by a waiter that saw it expired), `ImplementsMutex`, `PatientTakeover`, `WaiterAnswered` |
| `lease_stalled` | event loops held for longer than the TTL | `MutualExclusion` fails (finding) |
| `index` | 2 files, three worlds: 2 edits between runs and 3 faults anywhere; 3 edits at any moment and one fault; bytes that come back between runs. First, forced, incremental and flush runs; 3.1 M | `CoverageIsHonest` (with the types), `HonestVector`, `HonestChecksum`, `HonestSummary`, `NoStaleChunks`: no stamp claims more than is stored; `NothingPaidTwice`, `PaidSummaryKept`, `StaleBeatsEmpty`: nothing current is paid for again, nothing paid for is emptied |
| `index_heals` | 2 files, 2 edits, 2 faults, or edits and a deletion under the run; 290 k | `Heals`: running again ends with every file current |
| `index_unparsed` | one file that fails to be read for its parse | `Heals` fails (finding) |
| `pipeline` | five stages: every subset of the optional declarations of projects in Python, Go, TypeScript and a language without a ladder; 2 files with an edit, a fault, a prune, 2 scopes and the daemon; 5 entities with 2 edits and 2 faults; 2 files of at most ten lines with 2 moves and a fault; 2 files, 2 caps, 3 runs; 0.95 M | `CallsAreHonest`, `StoreIsExact` (`ReconcileIsExact`, `PrunedStaysOut`), `GraphStands` (`TypeOK`, and `StandingEdgesStand`: no reader misses an edge in mid-run that stands before and after), `Settled`, `PricedAndDue`, `EveryPassageIsFound`, `WithinCap` |
| `read_tools` | four tools: 3 entities and a neighbour's rows in windows of 1, 2, 3; every subset of 6 rows in batches of 2; 3 files in a budget of 3; 2 files in 2 commits; 1.6 M | `PageIsTheBest`, `AbsenceIsTrue`, `ListingIsWhole`, `CensusIsExact`, `AnswersAreFresh` (`UnflaggedIsFresh`, `EmptyIsExplained`), `DriftIsSaid` |
| `watcher` | 2 files, 3 timers, 3 edits, 2 starts, 1 failure; 179 k | `NothingIsLost`: no path waits where nothing will flush it, and no edit falls into a gap of the daemon's; `DaemonCatchesUp` |
| `watch_registry` | 2 daemons on 2 hosts, 2 projects of which one was renamed, 3 operations, 1 edit, 2 faults; 529 k | `OneFollower`, `FollowedIsCurrent`, `RegisteredIsFollowed` |
| `worktree` | 2 files, 2 changes, 2 faults, 1 unmount; 4.0 M | `WholeOrUnserved`, `FirstIndexIsFree`, `Delivers`, `LivingSpared` |
| `worktree_live` | 1 file, same bounds; 341 k | `Heals`, `GoneIsReaped` |
| `janitor_ordinary` | an ordinary checkout made where a worktree was | `OrdinarySpared` fails (finding) |

Every property of a passing run is also shown to depend on the code: `PROJECT.json`
names, for each, a plausible slip in one definition (a dropped guard, a stamp taken
too late, a recount that counts less, a reset forgotten) under which TLC finds it
violated. The slips are the definitions with a "Mutant:" comment, or one that begins
"as if".

### Bounds

- *Lease.* The unit of time is 15 s, so `TTL = 8` and `Heartbeat = 2` are the code's
  120 s and 30 s. Delay, stall and missed renewals add up to exactly what `Punctual`
  (below) allows. A zombie's successor needs no third object, because the first acquires
  again; for more objects and for clocks that differ the theorems stand.
- *IndexRun.* Every hazard is about one file's stamps, with the second file as the
  neighbour that failed, or that made an update have work. Two edits give an old, a
  current and a newer content; three faults a failed run, a failed repair and a
  crash. `MaxEdits` and `MaxFaults` only appear in the guards of the environment.
- *Calls.* A caller's file, the file it imports and one that should not matter. What a
  name may mean is varied as subsets of declarations: present and absent, twice, nested,
  inherited, re-exported, shadowed. Inheritance is followed 3 levels instead of 8.
- *GraphStore.* Two files, because what matters is one file's stored facts that depend on
  another's content. The edit takes a name away, defines one twice or removes a file; the
  scopes are the whole tree and all but the imported file, so that a prune, a wider index and the
  daemon's old scope disagree about it. Theorems stand for more files, edits, faults and prunes, and for
  the compiler's pass beside the heuristic one.
- *SummaryTree.* Three levels (functions, their module, the directory), a document beside
  the module, and batches of two: a container may be in one batch with a leaf of another.
- *Chunks.* A window of 3 lines with overlap 1 cuts a method of four lines and the residue more
  than once; so do spans of 3 characters with overlap 1 a document of four sentences, at other
  places than its sentences end. Requests of two texts divide a file's.
- *CostGate.* A small and a large file, a cap that both together pass and one they do not.
- *Search.* Windows 1, 2, 3 let an index be shorter than the window, longer, and longer
  than the ceiling. *Listing.* Six rows in batches of two against a cap of four: a page
  may be filled by one batch or two, or cut. *FindText.* Files of one and two bytes against
  three. *Freshness.* One cache entry, two commits and two calls, so that the second
  meets the first's cached answer, for a tree that has moved. Larger
  instances of it were checked once (one file with 2 saves and 3 moves; 7.1 M states), and theorems
  stand for the rest.
- *Watcher.* Three timers let an expired window, its flush and a new window coexist;
  two starts make a stop and a restart. A theorem for more.
- *WatchRegistry.* With two daemons on two hosts the claims, and not the host's singleton,
  keep them apart. Three operations register a project, take it away and bring it back, or
  move its root; two faults kill a daemon and fail its release. Theorems for more.
- *WorktreeIndex.* Making the worktree is the first change, so a tree or donor change
  is left under the run or between runs. Two faults make the copy fail and its delete
  fail as well. With one unmount the disk may be away at any one of the janitor's
  looks, or at any step of a run. Theorems for more files, changes, faults and, where
  the property survives them, unmounts.

Every `Max` constant of edits, moves, faults, operations and runs bounds the environment
and appears in its guards only. `CHECK_DEADLOCK FALSE` stands where a bounded
environment lets a system come to rest.

### Fairness

- *Lease.* Time passes (`Tick`), and a task that is alive is scheduled. Nothing is
  assumed of a crashed one.
- *IndexRun.* A run goes on (weak), and somebody indexes again (strong: a request may
  find a run under way). Failures, edits and crashes have none.
- *Watcher.* Timer threads and the loop's callbacks run (weak); the lock's queue moves
  (strong: the lock is taken and released in between). Edits have none.
- *WatchRegistry.* A daemon that runs goes on with its pass (`DaemonStep`, weak: one
  coroutine), and a claim nobody renews runs out (weak). Nobody has to start a daemon,
  register a project or fail: `RegisteredIsFollowed` excuses the times without a daemon.
- *WorktreeIndex.* A run goes on, the worktree is queried or indexed again and again,
  sweeps recur (`_janitor_loop`), and a disk that went away comes back. Strong for the
  start of a run and of a sweep, because others disable them time and again.
- `pipeline`, `read_tools` and `index` check safety only: a stage or a call that stops has
  shown nothing false.

## What is proved

`ProjectLeaseProofs` proves, for every set of instances and every value of the timing
constants, with no assumption but `LeaseAssumption` (their types) unless stated:

- `TypeCorrect`: `Spec => []TypeOK`;
- `ZombiesAreHarmless`: `Spec => SuccessorUndisturbed`, in every timing regime: the
  token comparison in `_RENEW` and `_RELEASE` suffices;
- under `Punctual`, that a beat, the delays, the stalls, the renewals allowed to fail
  and the skew fit together into the TTL: `LeaseInvariant` (`[]LeaseInv`),
  `NeverLapses`, `Exclusive` (`[]MutualExclusion`) and `Refinement`
  (`Spec => ImplementsMutex`).

Mutual exclusion is not inductive: that a second object cannot take the lease
follows from how much of its TTL the first has used. `LeaseInv` says exactly that: the
owner is the node's holder, and its `ttl` is at least what it was last stamped with,
less the `timer` and what each missed renewal cost. `Tick` keeps it because a
deadline bounds `timer`, and `TryAcquire` because under `Punctual` an owner's node is
expired on no clock. Each action has a step; the exclusion theorems follow from the
invariant alone.

`WatchRegistryProofs` proves, for every set of projects, daemons and hosts and every number
of operations, edits and faults, with `WatchRegistryAssumption` (the sets are finite,
`Nobody` is neither a daemon nor a project):

- `RegistryInvariant`: `Spec => []RegistryInv`;
- `AtMostOneFollower`: `Spec => []OneFollower`;
- `FollowedStaysCurrent`: `Spec => []FollowedIsCurrent`.

Neither property is inductive. That a project has one follower follows from a claim per
follower, and a claim stays with its daemon only because it is claimed before the observer
starts, given back after the observer stopped, and stops being renewed when the process
is gone. `RegistryInv` says of a daemon what it follows it has claimed (`ClaimStands`), of the
project it is busy with that it is claimed, and observed between `Start` and `Settle`
(`AtWork`), that a process gone follows nothing and one that runs has its host's claim
(`Alive`), that nothing is behind a catch-up (`UpToDate`), and that only a process past its
preflight renews, and only a failure leaves a renewed claim nobody follows (`Renewed`). One
lemma is the frame: a step of one daemon that touches no claim another one renews
(`MayTouch`) disturbs no other daemon. The actions then fall into quiet steps, which change
neither claims nor what is followed, those that give a claim back, those that end a
process, and five with a lemma of their own.

`WatcherProofs` proves for every number of files, threads, edits, restarts and failed runs
`WatcherLosesNothing`, `Spec => []NothingIsLost`. That a stale file is on its way to a run is not
inductive: a file that waits in a handler reaches the queue only if a live timer of that handler
will flush it. `WatcherInv` adds that a handler remembers a timer only while it holds paths (the
early return of `_flush` keeps the timer, and must find none to keep), that threads belong to
handlers, and that from the moment the daemon asks for its index every file behind is noticed,
held, queued, being read or dropped by a failure (`CatchUpMissesNone`). That last part is why the
daemon watches first and indexes second.

`IndexRunProofs` proves about a project's index, for every set of files and every number of
runs, edits and faults:

- `TypeCorrect`; `StaleBeatsEmptyAlways` and `PaidSummaryKeptAlways`, the action properties of
  INV-1 and INV-3; `NothingIsPaidTwice` (INV-5);
- `ChecksumsAreHonest`, `CoverageMarkersAreHonest`, `NoChunkIsStale`, where files never return to
  bytes they had; `SummariesAreHonest`, where the tree stands still during runs;
  `VectorsAreHonest`, outside the worlds with both.

The restrictions are formulas over `world`, which a behaviour keeps, and not assumptions on
constants. Deviations 4, 5 and 11 are the reason: outside them the claims are false. `RunInv`
says what the locals of a run mean: its loops do what was there when they began
(`LoopsAreSound`), what it deletes it found gone (`GoneIsNoted`), what it prunes from a file
leaves the chunk of the bytes it read (`PruneIsCovered`). `NothingIsPaidTwice` also carries a file
through the run that nobody touches: it is out of the build's sets, or settled by reuse before
anybody is asked. A checksum says nothing of a row by itself, so `StampsInv` follows a file's
names through the run: which bytes can be in the snapshot, the parse and the read (`OldNames`: an
edit brings bytes that nothing stored or held by a run is named by, so no stale stamp comes to
agree), that the plan's sets stay apart and what is deleted is erased (`PlanIsApart`, `Erased`), that a
draft is the stored summary once it is settled (`DraftIsStored`), and from these that rows, chunks
and vectors are of the stamp beside them (`RowsAreStamped`, `ChunksAreMarked`,
`VectorIsOfSummary`). That the same stamps are honest where bytes come back between healthy runs,
the third world of run `index`, is only model-checked.

`GraphStoreProofs` proves for every project, every set of files and contents and every number of
edits, faults and prunes, under `Project` (the bound of edits is a number, the trees are made of
the contents, and a call is made by a definition of its file, as the parsers record them):

- `TypeCorrect`, in which every edge has both its ends;
- `GraphAlwaysStands`, `Spec => []GraphStands`: the order of the writes suffices, wherever the run
  dies, as long as the database loses no row;
- `PrunedFilesStayOut`, `Spec => []PrunedStaysOut`, whoever runs an update and whatever scope it
  writes back;
- `UpdatesAreExact`, `Spec => []StoreIsExact` (`ReconcileIsExact` and `PrunedStaysOut`), under
  `Single` as well: no file defines an id twice. With twins a narrowed update may flip a row
  (deviation 9). Of a file stamped without a parse it says what `already_stored` compares
  (`Faithful`, deviation 2).

`StoreInv` judges a plan when it is made: what it drops the build does not store (`PlanIsSafe`); what it leaves unwritten is stored
as the build would store it, and what it leaves undropped is the build's or of a file it did
not read (`PlanIsExact`). The second is about a row that is skipped because its file's
checksum agrees, and so needs that the checksum on a module node is of the bytes of all the
file's rows (`StampIsOfRows`), which a crash between upsert and checksums must not break: it
leaves newer rows under an older checksum, which agrees with nothing on the disk (`RunIsOfTree`).
`WritesLand` says where the writes have got to, as an equation over the store the run started from; after the last
one, merging what was written over what was there and taking away what was dropped gives the
full build (`FinalIsExact`). `PruneStands` keeps the scope and what was dropped apart: the stored scope does not admit a pruned
file that is not exposed, nor does a scope in the daemon's hand or that of the run, for a
flush reads the scope under the lease and a prune takes the lease as well.

`WorktreeProofs` proves for every number of files, changes, faults and runs, with
`WorktreeAssumption`: `HalfClonesAreNotServed`, `RunsDeliver`, `CoveredFilesAreFree`, and, with at
most one unmount and only worktrees at the path, `LivingAreSpared`; without these two hypotheses
the janitor may reap a living worktree (deviations 3 and 19). `RowsInv` says that a clone's rows
are the donor's while its marker stands, and that a marker is the hash of a chunk that hangs on its
node; `DeliveryInv` that the scan is the disk's for the files nothing happened to (`CalmScan`) and
a verified clone is whole (`CloneIsWhole`: the recount compares numbers of rows, and a part of the
donor with as many rows is the donor, which is where the finite cardinalities come in); `FreeInv`
that what the donor had comes with the clone or as a seed; `SweepInv` how far the janitor gets
with a worktree that is there.

`ReadToolsProofs` proves about the read tools, together as the run checks them:

- for every checkout (`Checkout`: a commit gives each file bytes or none), every number of commits,
  edits, runs and calls `SilenceIsTrue`, `Spec => []AnswersAreFresh` (what is neither flagged nor
  listed as unknown is fresh, and INV-7), and `DriftIsNeverPassedOver` (`[]DriftIsSaid`, though the files
  are hashed one by one while the checkout moves on); `ToolsAreFresh` (`ReadSpec => Spec`: no other tool's step
  is one of freshness') takes both to the whole server, `ReadsAreFresh`;
- `ReadCensus` (`ReadSpec => []CensusIsExact`), for any files, sizes, budgets, page sizes and edits
  (`TextAssumption`: paths are numbers, in order; a page has room for a line);
- `ReadListing` (`ReadSpec => []ListingIsWhole`), for any rows, filters, limits, batches, ceilings and
  runs (`RowAssumption`: no two rows share a place; pages, batches and the candidates of a name
  have room for a row);
- `ReadSearch` (`ReadSpec => []PageIsTheBest`) and `ReadWords` (`ReadSpec => []AbsenceIsTrue`), for
  any indexes, filters, pages, windows, changes and failed probes (`SearchAssumption`: finite
  indexes and queries, no score above that of a row stored last).

`RowsLead` is what the order of a run's commits gives: a file
that hashes to its checksum has the rows of those bytes. `PageLeads` carries it into the locals of
a call, `FactsStand` says which of them a run may have overtaken, and `Committed` that what nobody
edited by hand is the commit's, on disk, in the checksums and in every cached measurement.

`Hashing` says of a measurement what it has seen so far: a file whose hash agreed is as the index
has it, unless it was edited by hand or the checkout moved since.
`CensusInv` says of `find_text` that each file before `at` is in one class (`Census`), what a file
nobody touched has counted (`Counting`), and that what is kept begins with the lines of the
files read so far, up to as many as the page needs (`Walking`): a page is then the next stretch of
all lines, although each page scans anew. `ListInv` says of a listing that what the scan of a page keeps is
what it wants of the raw rows it has seen (`Scanned`), whatever the batches, and of the walk that
a row that was there when it began is listed, or its place among those wanted now is still ahead
(`NoneMissed`, in `Paged`): added rows only push it back, which is why `grown` loses nothing and
`torn` is excused. A name's pick is the one row of its rank or better (`PickIsTheOne`), because the query puts
better ranks first and looks at two rows at least, or because the narrowing scan has kept the
first two wanted rows of all it has passed, as long as no row went meanwhile. TLC has checked both on the instance of run
`read_tools`.

`SearchInv` is about a row that a search left out although the index had it and the filters keep
it. If the search is complete, there are as many entities as the page needs that it does
not outrank (`Covered`); if the loop is not done, the row is outside the window, which was full
(`Windowed`: a window that its count finds short had everything, unless the index shrank in
between). Such a crowd of entities outlives what follows: the second take of the level indexes
keeps as many that score no less (`TakenCrowd`), the caller's least score takes away none of
the crowd unless it takes the row as well (`AboveCovers`), fusion only adds rows (`MoreCover`), and an entity that a page's worth of others outranks or equals is on no
page it could be missed from (`CrowdLeads`, `PageOfCover`). That the order inside an index is not
known, nor the one among entities of one score, costs nothing: every step speaks of what
outranks, never of places. For words, a window of the size of the ceiling with no row of the project
is all there is unless it is full (`FindsIs`), a word is in no index only when all three say so
(`ProbeIs`), and a word that a hit shows is in a row of the project (`ShownIs`).

`PipelineProofs` proves about the stages of a run that have a model of their own, for every value
of the constants of `Pipeline` its assumptions allow:

- `PipelineSettled` (`PipelineSpec => []Settled`) and `PipelinePricedAndDue`, for any forest of
  directories, files and entities (`TreeAssumption`), where no two definitions share an id
  (`UniqueIds`; twins overwrite the row they share, deviation 9). That nothing is paid for without
  a change also needs that a directory's children have one order (`OneOrder`; deviation 11);
- `PipelineWithinCap`, for any prices and caps that are numbers (`GateAssumption`);
- `PipelineEveryPassage`, for any texts with nodes a parser may leave (`Parsed`), any windows that
  overlap by less than a window (12 lines of 80 in the code), any batches and any number of edits,
  faults and crashes, as long as no file vanishes between `exists()` and `is_file()`
  (`ChunkAssumption`; deviation 8).

`TreeInv` (`TreeInvariant`) says how far a run is down the tree: a node that is not settled is stored
as the run found it (`AsFound`), a settled one as the run holds it, made from the texts of children
that are settled too (`AsDrafted`, `Cascade`), and once the files are stamped every text is made from
the texts stored below it (`StampedIsSettled`), which is `Settled`. The gate's plan is made
before any text is known, so that `PricedAndDue` needs what a node outside the plan will find when
its turn comes: the row it has, and no child in the plan (`Unplanned`, `PlanIsClosed`).
`GateInv` (`GateInvariant`) says that the price of the chunks covers what will be embedded and the
cap what has been spent and is still to do (`Covered`), unless something was hidden from the estimate.
`ChunkInv` (`ChunkInvariant`): what the chunker has passed is listed (`Gathered`), what was listed
and asked for is stored if no request failed (`Embedded`), so what is marked is stored
(`MarkedIsStored`); that what is stored covers the file is `ChunksCover`, about one file and no
state at all: the lines of a passage of one owner are in one of its runs (`OwnerIsAround`,
`RunAround`), and a chain of windows, of spans or of sentences leaves no passage out that its
splitter promises. TLC has checked `ChunkInv` on the instance of run `pipeline`.

The provers have no induction over data: its theorems take an operator as a parameter. Where these proofs
need one, about a sum over a set, a chain of windows or spans, an order of a set, sequences put
end to end, or the requests of a batch, they take the least counterexample instead: `LeastNumber` and `LeastSet` give it,
and from it that the recursive function exists at all (`SumsExist`, `ChainExists`,
`OrderExists`, `BatchesExist`) and what it returns.

The proofs corrected the models in three places. `DriftIsSaid` and `ReconcileIsExact` held only
because the instances were small: with three moves, a call may meet the situations of deviation
21, and with two faults the containment repair after a whole run adds edges of files that run
could not read. Their history variables now say what they were meant to (`saved`, `matched`,
`edited`; `whole` ends with the next run, a repair included). Guards of a few `CASE`s overlapped,
which TLC resolves by order and the semantics leaves open.

Only model-checked are:

- every liveness property (`PatientTakeover`, `WaiterAnswered`, `Heals` in both models,
  `DaemonCatchesUp`, `RegisteredIsFollowed`, `GoneIsReaped`): fairness and ENABLED are out of the
  prover's reach;
- `CallsAreHonest`: the ladders and their reference are two definitions over the same world, and that they
  agree is a matter of which worlds there are;
- the stamps of `IndexRun` where bytes come back between healthy runs.

## Known deviations

Where the code does otherwise than it, or its documents, say. The first three are runs.

1. *`lease_stalled`.* `index_code` and `index_summaries` embed synchronously on the
   event loop (`rag/indexer.py:225`, `395`, retries in `rag/embeddings.py`). Held for
   more than the TTL, the loop renews nothing, a waiter takes the lease over and both
   runs mutate the project. This is why the theorems need `Punctual`.
2. *`index_unparsed`.* A file that cannot be read for its parse is stamped with the
   others (`graph_builder.py:619`); no later run looks at it again. When the next build parses it
   after all, because another file changed, `already_stored` takes its checksum for proof and
   compares only what it does not cover (`GraphStore`'s `stuck` and `Faithful`).
3. *`janitor_ordinary`.* Nothing clears the worktree mark of a root
   (`project_manager.py:378`): an ordinary checkout made where a worktree was keeps
   it, and the janitor may reap its index.

The others were met while modelling. The models contain them and the properties excuse
them by name, or the environment leaves them out; either way the module says so.

Runs and their stamps:

4. A file edited between snapshot (`graph_builder.py:448`) and parse and then put
   back has the edit's rows under a checksum that matches the disk; so has one whose run
   died between upsert (`553`) and checksums (`624`) and was then put back.
   `HonestChecksum` is therefore checked with reverts between healthy runs, and with
   edits at any time that bring new bytes.
5. A failed embedding skips the prune for every file of the run
   (`rag/indexer.py:257`). The chunks of a file deleted in it are never named again,
   and those of a version visited in it stay if the file returns to its earlier bytes.
   When the last file goes, the early return (`project_manager.py:923`) skips the
   prune as well.
6. A file stored by a run that died before the checksums, and then removed, is
   invisible to the diff (`graph_builder.py:905`) until something else changes:
   `Heals` and `Delivers` only ask that what is gone has no checksum.
7. A run pings the LLM and the embedding service before it looks for changes
   (`project_manager.py:871`), so a run without changes is not free of calls.
8. A file that vanishes between `exists()` (`rag/chunker.py:285`) and `is_file()` (`291`)
   is taken for one without chunks: they are pruned under a fresh marker, and come back at
   its next change. `Gaps` leaves that moment out. "A passage the window boundary cuts in half
   still appears whole inside its neighbour" (`557-563`) holds of passages as `Promises` has them, and
   not of every line: documents are cut by tokens or characters, and a line longer than the
   overlap may be astride a cut of the fallback, or hold a sentence end at which the library
   cuts, and stand whole in no chunk. Abstracted are the size that a document's title takes
   away, the blanks stripped from a span, sentences longer than a chunk (which the library
   divides again), and the line numbers: `_find_line_number` takes the first occurrence of a
   text for its place.
9. Two definitions with one id (`@overload`, a property and its setter, a repeated `def`)
   share a row and a hash. Each update finds the hash of the other one and pays again,
   against INV-5 (`README.md:1069`), and a narrowed update may flip the row between them.
   `SummaryTree` and `GraphStore` can be given twins; the instances of `pipeline` have none.
10. The edge to a dropped dependency lingers (`graph_builder.py:785`, and the comment of the
    sweep at `573`). A prune that died cannot be told to go on
    (`project_manager.py:808`), one with nothing stored does not persist its scope, and the
    facts of callers outside it are refreshed by the next build only. "A background watcher update stops
    re-admitting the pruned paths and the narrowing survives the next explicit index of the
    same scope" (`761`): not when the daemon read the wider scope before the prune
    (`watch_daemon.py:289`) and its catch-up, waiting for the lease, indexes and persists that scope
    (`project_manager.py:1021`), nor when the root's node is not there to carry the scope. `PruneHolds`
    is the sentence; TLC refutes it as an invariant of `pipeline`, so `PrunedStaysOut` excepts the
    `exposed` files. An explicit index with a scope of its own asks for the files again.

Summaries and money:

11. `repair_missing_summaries` hashes the source it reads after the LLM answered
    (`graph_builder.py:1130`), and on failure stores the docstring over a stale summary
    (`1119`). The parent of a repaired child is not made again until its next change
    (`1101`; `Settled` excuses it as `loose`), and the repair lists children in another
    order than the build (`db/queries.py:376`, `graph_builder.py:1898`).
12. The repair passes no gate, though `MAX_INDEX_COST_USD` is said to gate every run that
    would spend (`README.md:323`, `config.py:264`). Files that changed and were not reported are
    chunked by a flush without having been priced; reported ones that did not change are
    priced. `WithinCap` is about runs that saw what they would pay for.

Watching:

13. The tool `index_directory` watches after it has indexed (`tools/indexing.py:181`): a
    save in between is indexed by nobody. `NothingIsLost` and `DaemonCatchesUp` promise
    otherwise of the daemon only.
14. `FileWatcher.stop` cancels the timer before it stops the observer
    (`watcher.py:231`); an event in between arms a new one, whose update comes after
    the claim was released.
15. An observer that cannot be started (`watch_daemon.py:248`) leaves its claim renewed
    and the project unfollowed until the daemon ends, and the answer's watcher line says
    `live`. `get_project_scope` is read outside the `try` of `_reconcile` (`289`): it ends the
    pass, and the project, already held, is not caught up. No failed catch-up is tried
    again.

Worktrees and the janitor:

16. The donor is not leased while it is cloned: if it is re-indexed in mid-copy the
    counts may agree over a copy that mixes two of its versions. `IndexDonor` is
    disabled from `BeginClone` to `VerifyClone`.
17. An unmounted disk that is seen by a scan, or by a flush, is a tree without files:
    `_confirmed_absent` takes ENOENT for proof, and the rows go. `Delivers` excuses the
    files it happened to.
18. A client-side first index that is killed is continued by an update, which does not
    consult the donor and pays for all summaries that are missing. `FirstIndexIsFree` is
    about the first run.
19. A janitor that looked before a worktree was re-created reaps it, and one whose disk
    drops out at layer 2, returns at layer 3 and drops out again at layer 4 reaps a living one
    (`registered_worktree_paths` answers the empty set for a registry it cannot read).
    `LivingSpared` is about a worktree that was there all the time, and one drop-out.
20. A project whose first run died before its mark, and whose worktree is then removed,
    is never reaped: `GoneIsReaped` is about marked ones.

Answers:

21. The commit a run stamps is the head when it ends (`project_manager.py:393`), not the one
    it scanned; after a run that died between checksums and stamp, and a checkout back, drift is
    silent. So it is when files were indexed before they were committed, and the indexed commit is
    checked out again: the commits agree, the files do not. So it is after a deletion a run could not
    confirm, because the file was back when the run looked again and gone when it stamped. Drift
    that was measured while a file was edited by hand stays in the cache after the edit is
    discarded. `DriftIsSaid` excuses these through `saved`, `matched` and `edited`. A checkout that goes back to
    the indexed commit while the files are hashed (`tools/freshness.py:321`), and away again, leaves a
    count of that commit in the cache under the key of the one read before (`314`), and later answers pass
    over a real drift, against "the re-hash is what makes the claim exact" (`306`). `DriftIsExact` is that
    claim, which TLC refutes; `DriftIsSaid` excepts `tainted` answers. "Everything unflagged is
    fresh" is not so of a file that cannot be read (`427`): its entities carry no flag, and it is
    named in the meta block as unknown. An exception while measuring is swallowed, and such a call
    is not modelled. Every tool reads rows first and checksums last, so a run in
    between makes old rows look fresh. `scan_uncovered` does not know the persisted scope.
22. A search reads rows and count at two moments. A hit outside the caller's filters is
    reported also after a probe that failed or stopped at its ceiling, with a minimum score,
    and for queries of more than eight words. `_words_seen_in_hits` accepts the pieces of
    a phrase apart. `lstrip("./")` makes `.github` of a path filter `github`.
23. `find_text` counts a file twice when its pattern times out in it.
24. A page of a listing is made of several queries: a row that is added between two of them is
    repeated or hides another, and a row that is removed shifts the offsets of the walk.
    `_resolve_name` drops the mark of a narrowed scan that was cut (`tools/graph.py:205`): with more
    matching names than `MAX_FILTER_SCAN_ROWS` it may take one of several for the only one, though
    "ambiguity is never resolved by picking the first match" (`184`). `NameIsNoPick` is that
    sentence, and fails then; and when a run removes a row between two awaited batches of that
    scan (`256`), for a second fitting row may move behind the offset unseen. TLC refutes
    `NameIsNeverPicked`. `NameIsTheOne`, which is checked and proved, leaves both cases out.
25. The resolver's Python target of a chained call is its last segment
    (`parser/ast_parser.py:339`, against `docs/calls-resolution.md:46`); `handlers[k](x)` and
    `f()(x)` are recorded nowhere; a diamond is searched depth first; names bound by a
    `lambda`, a nested function or `except` do not shadow; a name both imported and defined is
    the import's; relative imports in a `src` layout miss (`resolver.py:165`). In Go a builtin comes before
    a function of the package that has its name (`README.md:739`), a receiver that was bound again is
    still taken for itself, and a field's alias is looked up in the caller's file. The worlds of
    `CallWorlds` leave out what binds wrongly.
26. `derive_semantic_calls` draws a CALLS edge for every occurrence of a node's symbol in a function
    that is no definition (`scip_semantic.py:603`), also where the function is passed as a value or
    the class stands in an annotation or an `isinstance`; `README.md:17` says of CALLS "a call site".
    `EdgesAreCallSites` is that claim, and TLC refutes it. SCIP spans come from the parse and occurrences from a later read. Files it covers lose
    recursive calls and calls through local values; functions of files it does not cover are listed as
    external.

## What is not modelled, and the plan

`PROJECT.json` has a row for each component. Not modelled, because nothing in them is
stateful or concurrent: the database driver, retries of transient errors and DDL (their effect, that a batch is
written whole or not, is what the models assume), the Docker start-up, the feedback file, and the
dashboard, which is one query and its layout per view. Of the parsers only what they
leave for the resolver is modelled: the rest is extraction directed by a grammar. Inside modelled
components these are abstracted: patterns and ignore rules (a set of admitted files), texts
and prompts, tokens and model prices, chunk headers and the tokens a splitter counts,
facets and path filters (a set of rows), the traversals and overviews of `tools/graph.py`, the
`INHERITS` and `IMPLEMENTS` edges, the preview of an index, `delete_project`.

Next, in this order:

1. Theorems: the stamps of `IndexRun` where bytes come back between healthy runs.
2. `Freshness` refined from `IndexRun`: that rows precede checksums in every run is an
   assumption of the one and a fact of the other.
3. `INHERITS` edges and the traversals that follow them, as a reference closure against the
   bounded expansion.
