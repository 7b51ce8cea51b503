------------------------------- MODULE Chunks -------------------------------
(* From files to searchable chunks: the chunker (rag/chunker.py) and the run  *)
(* that stores what it made (RAGIndexer.index_code, rag/indexer.py).          *)
(* IndexRun gives a file one chunk; here a file has lines, its nodes have     *)
(* spans, and every chunk is kept, reused, paid for or pruned on its own.     *)
(*                                                                            *)
(* A text is [kind, lines, nodes, ends].  Its lines are what its chunker      *)
(* counts - the lines of code, the characters or tokens of a document - each   *)
(* a number, 0 a blank one; ends are where a sentence of it ends.  A node is   *)
(* [name, kind, first, last, parent], its name a number.  Versions of a file   *)
(* only move on: bytes that come back in mid-run are IndexRun's matter.       *)
EXTENDS Integers, Sequences, FiniteSets, SequencesExt, FiniteSetsExt

CONSTANTS Files,          \* file paths, numbers: their order is the run's
          Texts,          \* [Files -> Seq of the texts a file goes through]
          BodyLines,      \* _BODY_WINDOW_LINES
          BodyOverlap,    \* _BODY_WINDOW_OVERLAP
          SplitSize,      \* document_chunk_size
          SplitOverlap,   \* document_chunk_overlap
          Batch,          \* rag_index_batch_size
          EmbedCount,     \* texts per request
          EmbedChars,     \* and their length together, here in lines
          Gaps,           \* the phases in which a file may go away
          MaxFaults, MaxMoves

VARIABLES disk, away, graph, marked, stored, linked,
          pc, at, parsed, unreadable, ready, failed, faults, moves
vars == <<disk, away, graph, marked, stored, linked,
          pc, at, parsed, unreadable, ready, failed, faults, moves>>
tree == <<disk, away, moves>>
db == <<graph, marked, stored, linked>>

-----------------------------------------------------------------------------
(* The chunker.                                                              *)

Verbatim == {"function_body", "type_body", "module_body", "document"}
TypeKinds == {"class", "interface", "enum", "struct", "trait"}
Declarations == {"variable", "type_alias"}
Blank(lines) == \A i \in DOMAIN lines : lines[i] = 0

Abutting(first, end) == end + 1             \* as if windows did not overlap
NextWindow(first, end) == Max({end - BodyOverlap + 1, first + 1})
Windows(first, last, total) ==
  LET start == Max({first, 1})
      stop == Min({last, total})
      from[c \in start..stop] ==
        LET end == Min({c + BodyLines - 1, stop})
        IN <<<<c, end>>>> \o (IF end = stop THEN <<>> ELSE from[NextWindow(c, end)])
  IN IF start <= stop THEN from[start] ELSE <<>>

(* A document is cut by the library's splitter: whole sentences as far as the *)
(* size holds them, the last of them repeated as far as the overlap does and  *)
(* the next one still fits.                                                   *)
EndOf(ends, p) == Max({e \in ends : p < e /\ e <= p + SplitSize})
Following(ends, end) == Min({e \in ends : end < e})
Restart(ends, p, end) ==
  Min({s \in ends : /\ p < s /\ s <= end /\ end - s <= SplitOverlap
                    /\ Following(ends, end) - s <= SplitSize})
SentenceSpans(ends, total) ==
  LET from[p \in 0..(total - 1)] ==
        LET end == EndOf(ends, p)
        IN <<<<p + 1, end>>>> \o (IF end = total THEN <<>> ELSE from[Restart(ends, p, end)])
  IN IF total = 0 THEN <<>> ELSE from[0]

(* Its fallback counts characters, over any size and overlap it may be given. *)
SplitSpans(total) ==
  LET size == Max({1, SplitSize})
      overlap == Min({SplitOverlap, size - 1})
      from[p \in 0..(total - 1)] ==
        <<<<p + 1, Min({p + size, total})>>>>
          \o (IF p + size - overlap >= total THEN <<>> ELSE from[p + size - overlap])
  IN IF total = 0 THEN <<>> ELSE from[0]

(* The library refuses an overlap longer than the size, and may fail on its own. *)
Splittable == SplitSize >= 1 /\ SplitOverlap <= SplitSize
Splits(text) ==
  {SplitSpans(Len(text.lines))}
    \cup (IF Splittable THEN {SentenceSpans(text.ends, Len(text.lines))} ELSE {})

Owner(nodes, i) ==
  LET claims == {n \in nodes : n.kind \notin {"module"} \cup Declarations /\ i \in n.first..n.last}
      Wins(n, m) == LET wn == n.last - n.first
                        wm == m.last - m.first
                    IN \/ wn < wm
                       \/ wn = wm /\ n.first > m.first
                       \/ wn = wm /\ n.first = m.first /\ n.name >= m.name
  IN IF claims = {} THEN CHOOSE n \in nodes : n.kind = "module"
     ELSE CHOOSE n \in claims : \A m \in claims : Wins(n, m)

Runs(nodes, total) ==
  {r \in (1..total) \X (1..total) :
     /\ r[1] <= r[2]
     /\ \A i \in r[1]..r[2] : Owner(nodes, i) = Owner(nodes, r[1])
     /\ r[1] = 1 \/ Owner(nodes, r[1] - 1) # Owner(nodes, r[1])
     /\ r[2] = total \/ Owner(nodes, r[2] + 1) # Owner(nodes, r[1])}

InSomeOrder(S) == FoldSet(LAMBDA e, seq : Append(seq, e), <<>>, S)
Piece(f, node, kind, span, lines) ==
  [file |-> f, node |-> node.name, kind |-> kind, span |-> span,
   text |-> SubSeq(lines, span[1], span[2])]
Pieces(f, node, kind, spans, lines) ==
  {Piece(f, node, kind, spans[i], lines) : i \in DOMAIN spans}
Listing(f, node, kind, nodes) ==
  [file |-> f, node |-> node.name, kind |-> kind, span |-> <<node.first, node.last>>,
   text |-> InSomeOrder({n.name : n \in {m \in nodes : m.parent = node.name}})]

Bodies(f, nodes, lines) ==
  UNION {Pieces(f, n, "function_body", Windows(n.first, n.last, Len(lines)), lines) :
           n \in {m \in nodes : m.kind \in {"function", "method"}}}
Residue(f, nodes, lines) ==
  UNION {LET owner == Owner(nodes, r[1])
             kind == IF owner.kind \in TypeKinds THEN "type_body" ELSE "module_body"
         IN IF owner.kind \in TypeKinds \cup {"module"} /\ ~Blank(SubSeq(lines, r[1], r[2]))
            THEN Pieces(f, owner, kind, Windows(r[1], r[2], Len(lines)), lines)
            ELSE {} : r \in Runs(nodes, Len(lines))}
Contexts(f, nodes) ==
  {Listing(f, n, "module_context", nodes) : n \in {m \in nodes : m.kind = "module"}}
  \cup {Listing(f, n, "class_context", nodes) : n \in {m \in nodes : m.kind = "class"}}

(* chunk_repository for one file: the nodes are the parse's, the lines are   *)
(* those read now, and so are the spans a document is cut into.              *)
ChunksOf(f, nodes, lines, spans) ==
  LET document == {n \in nodes : n.kind = "document"}
      made == IF document # {}
              THEN UNION {Pieces(f, n, "document", spans, lines) : n \in document}
              ELSE Contexts(f, nodes) \cup Bodies(f, nodes, lines) \cup Residue(f, nodes, lines)
  IN {c \in made : c.kind \in Verbatim => ~Blank(c.text)}

-----------------------------------------------------------------------------
Init ==
  /\ disk = [f \in Files |-> 1] /\ away = {}
  /\ graph = [f \in Files |-> 0] /\ marked = [f \in Files |-> 0]
  /\ stored = {} /\ linked = {}
  /\ pc = "idle" /\ at = 1 /\ parsed = [f \in Files |-> 0]
  /\ unreadable = {} /\ ready = <<>> /\ failed = FALSE
  /\ faults = 0 /\ moves = 0

Text(f, v) == Texts[f][v]
NodesOf(f, v) == IF v = 0 THEN {} ELSE Text(f, v).nodes
Fault == faults < MaxFaults /\ faults' = faults + 1

(* The graph is built before the chunks: rows of every file that is there,   *)
(* none of one that is gone; a row that goes takes its HAS_CHUNK edges.      *)
Begin ==
  /\ pc = "idle"
  /\ parsed' = [f \in Files |-> IF f \in away THEN 0 ELSE disk[f]]
  /\ graph' = parsed'
  /\ linked' = {c \in linked : \E n \in NodesOf(c.file, parsed'[c.file]) : n.name = c.node}
  /\ marked' = [f \in Files |-> IF parsed'[f] = 0 THEN 0 ELSE marked[f]]
  /\ pc' = "exists" /\ at' = 1
  /\ unreadable' = {} /\ ready' = <<>> /\ failed' = FALSE
  /\ UNCHANGED <<stored, faults>> /\ UNCHANGED tree

NextFile == IF at = Cardinality(Files) THEN pc' = "embed" /\ at' = 1
                                       ELSE pc' = "exists" /\ at' = at + 1
Skip == NextFile /\ UNCHANGED <<ready, unreadable, faults>>
Unreadable(f) == unreadable' = unreadable \cup {f} /\ NextFile /\ UNCHANGED ready
Chunking == UNCHANGED <<parsed, failed>> /\ UNCHANGED db /\ UNCHANGED tree

Exists ==
  /\ pc = "exists"
  /\ \/ parsed[at] = 0 /\ Skip
     \/ parsed[at] # 0 /\ at \in away /\ Unreadable(at) /\ UNCHANGED faults
     \/ /\ parsed[at] # 0 /\ at \notin away
        /\ pc' = "probe" /\ UNCHANGED <<at, ready, unreadable, faults>>
  /\ Chunking

(* is_file answers no for a file that is gone by now; the probe of its first *)
(* bytes raises.                                                             *)
Probe ==
  /\ pc = "probe"
  /\ \/ at \in away /\ Skip
     \/ /\ at \notin away /\ Text(at, disk[at]).kind = "binary"
        /\ NextFile
        /\ UNCHANGED <<ready, unreadable, faults>>
     \/ /\ at \notin away /\ Text(at, disk[at]).kind # "binary"
        /\ pc' = "read" /\ UNCHANGED <<at, ready, unreadable, faults>>
     \/ at \notin away /\ Fault /\ Unreadable(at)
  /\ Chunking

Read ==
  /\ pc = "read"
  /\ \/ at \in away /\ Unreadable(at) /\ UNCHANGED faults
     \/ at \notin away /\ Fault /\ Unreadable(at)
     \/ /\ at \notin away
        /\ LET text == Text(at, disk[at])
           IN \E spans \in Splits(text) :
                ready' = ready \o InSomeOrder(ChunksOf(at, NodesOf(at, parsed[at]), text.lines, spans))
        /\ NextFile /\ UNCHANGED <<unreadable, faults>>
  /\ Chunking

(* A window's texts without a vector go out in requests limited in number    *)
(* and in length; a text too long for one goes alone.                        *)
Unembedded(c) == c \notin stored
Chars(batch) == Len(FlattenSeq([i \in DOMAIN batch |-> batch[i].text]))
Ask(done, c) ==
  IF ~Unembedded(c) THEN done
  ELSE IF /\ done # <<>> /\ Len(Last(done)) < EmbedCount
          /\ Chars(Last(done)) + Len(c.text) <= EmbedChars
       THEN Append(Front(done), Append(Last(done), c))
       ELSE Append(done, <<c>>)
SplitBatches(window) == FoldLeft(Ask, <<>>, window)

(* A request that fails for good leaves its texts without a vector, and the  *)
(* others go on.                                                             *)
Embed(batches, failing) ==
  UNION {ToSet(batches[i]) : i \in (DOMAIN batches) \ failing}

(* One window: what the database holds as it would be written is skipped;    *)
(* what it holds without its edge is written again with its own vector; the  *)
(* rest is paid for, and what fails is not stored.                           *)
AlreadyStored(c) == c \in stored /\ c \in linked
EmbedWindow ==
  /\ pc = "embed" /\ at <= Len(ready)
  /\ LET window == SubSeq(ready, at, Min({at + Batch - 1, Len(ready)}))
         batches == SplitBatches(window)
         reused == {c \in ToSet(window) : ~AlreadyStored(c) /\ ~Unembedded(c)}
     IN \E failing \in SUBSET DOMAIN batches :
          /\ IF failing = {} THEN UNCHANGED <<faults, failed>> ELSE Fault /\ failed' = TRUE
          /\ stored' = stored \cup reused \cup Embed(batches, failing)
          /\ linked' = linked \cup reused \cup Embed(batches, failing)
  /\ at' = at + Batch
  /\ UNCHANGED <<graph, marked, pc, parsed, unreadable, ready>> /\ UNCHANGED tree

Reconcilable == Files \ unreadable
Finish ==
  /\ pc = "embed" /\ at > Len(ready)
  /\ IF failed THEN UNCHANGED <<stored, linked, marked>>
     ELSE LET kept == {c \in stored : c \in Range(ready) \/ c.file \notin Reconcilable}
          IN /\ stored' = kept /\ linked' = linked \cap kept
             /\ marked' = [f \in Files |-> IF parsed[f] # 0 /\ f \notin unreadable
                                           THEN graph[f] ELSE marked[f]]
  /\ pc' = "idle"
  /\ UNCHANGED <<graph, at, parsed, unreadable, ready, failed, faults>>
  /\ UNCHANGED tree

Crash ==
  /\ pc # "idle" /\ Fault /\ pc' = "idle"
  /\ UNCHANGED <<at, parsed, unreadable, ready, failed>>
  /\ UNCHANGED db /\ UNCHANGED tree

(* A file is edited at any moment, or goes away and returns as it was: a     *)
(* branch switched, or a stash.                                              *)
TreeMoves == moves < MaxMoves /\ moves' = moves + 1
Run == <<pc, at, parsed, unreadable, ready, failed, faults>>
Edit(f) == /\ TreeMoves /\ disk[f] < Len(Texts[f]) /\ f \notin away
           /\ disk' = [disk EXCEPT ![f] = @ + 1]
           /\ UNCHANGED away /\ UNCHANGED db /\ UNCHANGED Run
Leave(f) == /\ TreeMoves /\ pc \in Gaps /\ f \notin away /\ away' = away \cup {f}
            /\ UNCHANGED disk /\ UNCHANGED db /\ UNCHANGED Run
Return(f) == /\ f \in away /\ away' = away \ {f}
             /\ UNCHANGED <<disk, moves>> /\ UNCHANGED db /\ UNCHANGED Run

Next == \/ Begin \/ Exists \/ Probe \/ Read \/ EmbedWindow \/ Finish \/ Crash
        \/ \E f \in Files : Edit(f) \/ Leave(f) \/ Return(f)
Spec == Init /\ [][Next]_vars

-----------------------------------------------------------------------------
(* What a file's chunks promise: of code, every passage of one owner that is  *)
(* no longer than the overlap and a line; of a document, either every passage *)
(* of one sentence, or every one no longer than the fallback's overlap and a  *)
(* character.                                                                 *)
Passages(text) == LET places == DOMAIN text.lines IN {r \in places \X places : r[1] <= r[2]}
Reaching(text, overlap) == {r \in Passages(text) : r[2] <= r[1] + overlap}
OfOneOwner(text) ==
  {r \in Reaching(text, BodyOverlap) :
     \A k \in r[1]..r[2] : Owner(text.nodes, k) = Owner(text.nodes, r[1])}
OfOneSentence(text) == {r \in Passages(text) : \A e \in text.ends : ~(r[1] <= e /\ e < r[2])}
Promises(text) ==
  CASE text.kind = "code" -> {OfOneOwner(text)}
    [] text.kind = "document" ->
         {OfOneSentence(text), Reaching(text, Min({SplitOverlap, Max({1, SplitSize}) - 1}))}
    [] OTHER -> {}

(* A file whose marker agrees with its bytes can be searched whole: every     *)
(* passage with text on it that its chunks promise stands in one stored chunk,*)
(* verbatim and at its place ("a passage the window boundary cuts in half     *)
(* still appears whole inside its neighbour", _document_chunks).              *)
Stands(f, lines, r) ==
  \E c \in stored : /\ c.file = f /\ c.kind \in Verbatim
                    /\ c.span[1] <= r[1] /\ r[2] <= c.span[2]
                    /\ c.text = SubSeq(lines, c.span[1], c.span[2])
EveryPassageIsFound ==
  \A f \in Files :
    LET text == Text(f, disk[f])
    IN marked[f] = disk[f] /\ text.kind # "binary" =>
         \E promised \in Promises(text) : \A r \in promised :
           ~Blank(SubSeq(text.lines, r[1], r[2])) => Stands(f, text.lines, r)
=============================================================================
