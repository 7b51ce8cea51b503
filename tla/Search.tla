------------------------------- MODULE Search -------------------------------
(* The ranked searches of tools/search.py over the widening windows of       *)
(* db/repository.py: search_code, search_semantic, search_hybrid and         *)
(* search_text.  Every index is global, so a search asks for a window of     *)
(* candidates of all projects, keeps its own, and widens the window until    *)
(* they suffice or the index has no more; several indexes are then fused     *)
(* into one ranking of entities.                                             *)
(*                                                                           *)
(* An index is a set of rows.  A row is a chunk or a node with its score for *)
(* the query; the best come first, and rows of one score in any order.  In   *)
(* the text indexes a row also says which of the query's words it holds.     *)
(* Only one tool is called here at a time, so one "code" and one "summary"   *)
(* index stand for the vector and for the text index of that kind.           *)
EXTENDS Integers, Sequences, FiniteSets

CONSTANTS
  Mine,          \* the entities of the project that is searched
  Type,          \* [Mine -> node types]
  Levels,        \* node types with a summary index of their own
  Words,         \* the words of a text query
  Phrases,       \* those that the tokenizer cuts into several pieces
  Worlds,        \* what an index may hold and a caller ask for, see Init
  Pool,          \* SEARCH_CANDIDATE_POOL
  Overfetch, MinFetch, Growth, Ceiling,  \* the windows' sizes
  MaxProbed,     \* _MAX_WORDS_PROBED
  MaxChanges, MaxFaults   \* bounds of the environment

VARIABLES
  index,    \* [index name -> set of rows]
  present,  \* the level indexes this database has
  ask,      \* the call: tool, types, allowed, minScore, limit, offset
  pc, todo, \* where the call is, and the indexes it has still to search
  fetch,    \* the window of the index being searched
  kept,     \* its rows in that window that the filters keep
  found,    \* [searched index -> its ProjectHits]
  seen,     \* history: [searched index -> the index when its rows were read]
  shrunk,   \* history: a row went between a window and its count
  hits,     \* the ranked entities
  absent,   \* the words a probe found nowhere
  retry,    \* those to search for again, with edits
  unsure,   \* history: words whose probe failed or found no end
  skipped,  \* history: words taken for present without a probe
  lag,      \* the vector index still holds entries of deleted nodes
  changes, faults

env == <<index, present, lag, changes>>
call == <<ask, todo, fetch, kept, found, seen, shrunk>>
answer == <<hits, absent, retry, unsure, skipped>>
vars == <<env, call, answer, pc, faults>>

Tools == {"code", "semantic", "hybrid", "text"}
At(tool) == CASE tool = "code" -> <<"code">>
              [] tool = "semantic" -> <<"summary">>
              [] tool = "hybrid" -> <<"code", "summary">>
              [] tool = "text" -> <<"summary", "symbol", "code">>

Init ==
  \E world \in Worlds :
    /\ index = world.index /\ present = world.present /\ ask = world.ask
    /\ pc = "plan" /\ todo = {} /\ fetch = 0 /\ kept = {}
    /\ found = [i \in {} |-> {}] /\ seen = [i \in {} |-> {}] /\ shrunk = FALSE
    /\ hits = <<>> /\ absent = {} /\ retry = {} /\ unsure = {} /\ skipped = {}
    /\ lag = FALSE /\ changes = 0 /\ faults = 0

\* The rows an index ranks for this query: a level index ranks its own type.
Ranked(i) ==
  IF i \in Levels
  THEN {r \in index["summary"] : r.owner \in Mine => Type[r.owner] = i}
  ELSE {r \in index[i] : ask.tool = "text" => r.words # {}}

\* The indexes are searched in order, those of the levels in their names' order.
Turn(i) ==
  LET kind == IF i \in Levels THEN "summary" ELSE i
  IN CHOOSE k \in DOMAIN At(ask.tool) : At(ask.tool)[k] = kind
Current == CHOOSE i \in todo : \A j \in todo : Turn(i) <= Turn(j)

-----------------------------------------------------------------------------
(* The database.                                                             *)

\* A row of another project or of this one is deleted; the vector index fails
\* until the garbage collector has been there.
Delete(i, r) ==
  /\ changes < MaxChanges /\ pc \notin {"done", "error"}
  /\ index' = [index EXCEPT ![i] = @ \ {r}]
  /\ lag' = (ask.tool # "text")
  /\ changes' = changes + 1
  /\ UNCHANGED <<present, ask, todo, fetch, kept, found, seen, answer, pc, faults>>
  /\ shrunk' = (shrunk \/ (pc = "count" /\ Ranked(Current)' # Ranked(Current)))

\* A run stores a row that ranks first.
Store(i, e) ==
  /\ changes < MaxChanges /\ pc \notin {"done", "error"}
  /\ index' = [index EXCEPT ![i] =
       @ \cup {[id |-> -changes, owner |-> e, score |-> 10, words |-> Words,
                near |-> {}, apart |-> FALSE]}]
  /\ changes' = changes + 1
  /\ UNCHANGED <<present, lag, call, answer, pc, faults>>

Collected ==
  /\ lag /\ lag' = FALSE
  /\ UNCHANGED <<index, present, changes, call, answer, pc, faults>>

-----------------------------------------------------------------------------
(* One index: _widening_search.                                              *)

\* _row_filter: node types, and paths and tests as the set they leave.
Keep(row) == /\ row.owner \in Mine /\ row.owner \in ask.allowed
             /\ ask.types = {} \/ Type[row.owner] \in ask.types

Owners(rows) == {r.owner : r \in rows}
BestOf(rows, e) ==
  LET of == {r.score : r \in {q \in rows : q.owner = e}}
  IN CHOOSE s \in of : \A t \in of : t <= s
Scores(rows) == [e \in Owners(rows) |-> BestOf(rows, e)]

\* The n that score highest, in every way that ties allow.
Tops(score, n) ==
  {top \in SUBSET (DOMAIN score) :
     /\ Cardinality(top) = IF Cardinality(DOMAIN score) < n THEN Cardinality(DOMAIN score) ELSE n
     /\ \A x \in top, y \in DOMAIN score \ top : score[y] <= score[x]}

\* The first rows of an index.
Windows(rows, n) == Tops([r \in rows |-> r.score], n)

\* Mutant: the request counts rows.
TakeRows(rows, needed) == Windows(rows, needed)

\* _take_entities: every row of the first needed entities.
Take(rows, needed) ==
  {{r \in rows : r.owner \in first} : first \in Tops(Scores(rows), needed)}

\* _overfetch
Needed == LET page == ask.offset + ask.limit + 1 IN IF page > Pool THEN page ELSE Pool

\* _vector_fetch_k, _text_fetch_k
FirstFetch(needed) == IF needed * Overfetch > MinFetch THEN needed * Overfetch ELSE MinFetch
Wider(n) == IF n * Growth < Ceiling THEN n * Growth ELSE Ceiling

\* vector_hits: the level indexes when every requested type has one and the
\* database has them all, else the shared index.
Searched(i) ==
  IF i = "summary" /\ ask.tool # "text" /\ ask.types # {} /\ ask.types \subseteq (Levels \cap present)
  THEN ask.types ELSE {i}

Plan ==
  /\ pc = "plan"
  /\ todo' = UNION {Searched(At(ask.tool)[k]) : k \in DOMAIN At(ask.tool)}
  /\ fetch' = FirstFetch(Needed)
  /\ pc' = "rows"
  /\ UNCHANGED <<env, ask, kept, found, seen, shrunk, answer, faults>>

With(f, i, value) == [j \in DOMAIN f \cup {i} |-> IF j = i THEN value ELSE f[j]]

\* What the loop returns for the index at hand.
Return(rows, complete) ==
  /\ found' = With(found, Current, [rows |-> rows, complete |-> complete])
  /\ todo' = todo \ {Current}
  /\ fetch' = FirstFetch(Needed)
  /\ kept' = {}
  /\ pc' = IF todo = {Current} THEN "merge" ELSE "rows"

\* run_rows: a window of candidates of every project, filtered.
ReadWindow ==
  /\ pc = "rows"
  /\ ask.tool # "text" => ~lag
  /\ \E window \in Windows(Ranked(Current), fetch) :
       \E rows \in Take({r \in window : Keep(r)}, Needed) :
         IF Cardinality(Owners(rows)) >= Needed THEN Return(rows, TRUE)
         ELSE /\ kept' = rows /\ pc' = "count"
              /\ UNCHANGED <<todo, fetch, found>>
  /\ seen' = With(seen, Current, Ranked(Current))
  /\ UNCHANGED <<env, ask, shrunk, answer, faults>>

\* _vector_search_with_retry runs out of its budget: the call ends in an error.
GiveUp ==
  /\ pc \in {"rows", "count"} /\ ask.tool # "text" /\ lag
  /\ pc' = "error"
  /\ UNCHANGED <<env, call, answer, faults>>

\* run_count: the window comes back short when the index holds no more.
Count ==
  /\ pc = "count"
  /\ ask.tool # "text" => ~lag
  /\ IF Cardinality(Ranked(Current)) < fetch THEN Return(kept, TRUE)
     ELSE IF fetch >= Ceiling THEN Return(kept, FALSE)
     ELSE /\ fetch' = Wider(fetch) /\ pc' = "rows"
          /\ UNCHANGED <<todo, found, kept>>
  /\ UNCHANGED <<env, ask, seen, shrunk, answer, faults>>

-----------------------------------------------------------------------------
(* Fusion.                                                                   *)

Above(rows) == {r \in rows : r.score >= ask.minScore}

\* Highest score first.
Rankings(score) ==
  {order \in [1..Cardinality(DOMAIN score) -> DOMAIN score] :
     \A j, k \in DOMAIN order : j < k => /\ order[j] # order[k]
                                         /\ score[order[k]] <= score[order[j]]}

\* _code_hits, _summary_hits and their merges: one hit per entity, scored by its
\* best row.
HitLists(rows, fuzzy) ==
  {[k \in DOMAIN order |-> [entity |-> order[k], score |-> BestOf(rows, order[k]), fuzzy |-> fuzzy]] :
     order \in Rankings(Scores(rows))}

\* vector_hits over several level indexes merges and takes again.
LevelRows == UNION {found[i].rows : i \in DOMAIN found \cap Levels}
OtherRows == UNION {found[i].rows : i \in DOMAIN found \ Levels}

Merge ==
  /\ pc = "merge"
  /\ \E taken \in Take(LevelRows, Needed) :
       hits' \in HitLists(Above(taken \cup OtherRows), FALSE)
  /\ pc' = IF ask.tool = "text" THEN "words" ELSE "done"
  /\ UNCHANGED <<env, call, absent, retry, unsure, skipped, faults>>

-----------------------------------------------------------------------------
(* search_text: which words the project does not have.                       *)

Named == {hits[k].entity : k \in DOMAIN hits}
HitRows == {r \in Above(OtherRows) : r.owner \in Named}

\* _words_seen_in_hits: one word with hits is present; of several, those a name,
\* a summary or a quoted line shows.  A phrase counts when its pieces are there.
Shown ==
  IF Cardinality(Words) = 1 /\ hits # <<>> THEN {Words}
  ELSE SUBSET {w \in Words : \E r \in HitRows : w \in r.words \/ (w \in Phrases /\ r.apart)}

\* The first of the words, in the query's order.
Probed == {w \in Words : Cardinality({v \in Words : v < w}) < MaxProbed}

\* text_hits for one word and one entity, without filters: the window widens until
\* one of this project's rows is in it, or no more rows match.
Finds(i, w) ==
  LET rows == {r \in index[i] : w \in r.words}
      said(window) == IF Owners(window) \cap Mine # {} THEN "yes"
                      ELSE IF Cardinality(rows) < Ceiling THEN "no" ELSE "unknown"
  IN {said(window) : window \in Windows(rows, Ceiling)}

\* Mutant: only the chunks are asked.
CodeKnows(w) == Finds("code", w)

\* _word_is_indexed: the first index that does not say no.
IsIndexed(w) ==
  IF Finds("code", w) # {"no"} THEN Finds("code", w)
  ELSE IF Finds("symbol", w) # {"no"} THEN Finds("symbol", w)
  ELSE Finds("summary", w)

\* A probe that fails says nothing.
ProbeWords ==
  /\ pc = "words"
  /\ \E shown \in Shown : \E failed \in SUBSET (Probed \ shown) :
       LET asked == Probed \ (shown \cup failed)
       IN \E says \in [asked -> {"yes", "no", "unknown"}] :
            /\ \A w \in asked : says[w] \in IsIndexed(w)
            /\ Cardinality(failed) <= MaxFaults - faults
            /\ faults' = faults + Cardinality(failed)
            /\ absent' = {w \in asked : says[w] = "no"}
            /\ unsure' = failed \cup {w \in asked : says[w] = "unknown"} \cup (Words \ (Probed \cup shown))
            /\ skipped' = shown
  /\ retry' = absent' \ Phrases
  /\ pc' = IF retry' = {} THEN "done" ELSE "fuzzy"
  /\ UNCHANGED <<env, call, hits>>

\* The retry of the absent words in turn, at a distance of their length; a word cut
\* into pieces is not retried, one whose search fails is passed over.  _fuzzy_hits:
\* entities no hit names yet.
Fuzzy ==
  /\ pc = "fuzzy"
  /\ \E w \in retry :
       /\ \A v \in retry : w <= v
       /\ \/ /\ faults < MaxFaults /\ faults' = faults + 1
             /\ UNCHANGED hits
          \/ /\ \E window \in Windows({r \in index["code"] : w \in r.near}, Ceiling) :
                  \E rows \in Take({r \in window : Keep(r)}, Needed) :
                    \E more \in HitLists({r \in Above(rows) : r.owner \notin Named}, TRUE) :
                      hits' = hits \o more
             /\ UNCHANGED faults
       /\ retry' = retry \ {w}
       /\ pc' = IF retry = {w} THEN "done" ELSE "fuzzy"
  /\ UNCHANGED <<env, call, absent, unsure, skipped>>

Next ==
  \/ \E k \in DOMAIN At(ask.tool) :
       LET i == At(ask.tool)[k]
       IN \/ \E r \in index[i] : Delete(i, r)
          \/ \E e \in Mine : Store(i, e)
  \/ Collected
  \/ Plan \/ ReadWindow \/ GiveUp \/ Count \/ Merge \/ ProbeWords \/ Fuzzy

Spec == Init /\ [][Next]_vars
-----------------------------------------------------------------------------
(* The answer.                                                               *)

Truncated == \E i \in DOMAIN found : ~found[i].complete

\* What the call should rank: every row of this project that passes the filters,
\* in the indexes as they were read.
Truth == {r \in UNION {seen[i] : i \in DOMAIN seen} : Keep(r) /\ r.score >= ask.minScore}
TruthScore(e) == BestOf(Truth, e)
-----------------------------------------------------------------------------
(* Properties.                                                               *)

\* An answer that is not marked truncated ranks the project's best entities
\* (ProjectHits.complete, "no more matches" is not guessed): each with its best
\* score, none that outranks the page left out, and none at all when the page is
\* the last.  Excused is an index that shrank between a window and its count.
PageIsTheBest ==
  pc = "done" /\ ~Truncated /\ ~shrunk =>
    LET exact == {k \in DOMAIN hits : ~hits[k].fuzzy}
        page == {k \in exact : k <= Needed}
        shown == {hits[k].entity : k \in page}
    IN /\ {hits[k].entity : k \in exact} \subseteq Owners(Truth)
       /\ \A j, k \in DOMAIN hits : j < k =>
            /\ hits[j].entity # hits[k].entity
            /\ hits[j].fuzzy => hits[k].fuzzy
            /\ ~hits[k].fuzzy => hits[k].score <= hits[j].score
       /\ \A k \in page : hits[k].score = TruthScore(hits[k].entity)
       /\ \A e \in Owners(Truth) \ shown :
            /\ Needed \in exact
            /\ \A f \in shown : TruthScore(e) <= TruthScore(f)

\* meta.unmatched_terms: a word is said to match nothing only when no row of the
\* project holds it, and a probed word that no row holds is said so.  Excused are
\* phrases whose pieces a hit shows apart, and indexes that change meanwhile.
AbsenceIsTrue ==
  pc = "done" /\ ask.tool = "text" /\ changes = 0 =>
    \A w \in Words :
      LET held == \E i \in DOMAIN index : \E r \in index[i] : r.owner \in Mine /\ w \in r.words
      IN /\ w \in absent => ~held
         /\ ~held /\ w \notin unsure /\ w \notin skipped \cap Phrases => w \in absent
=============================================================================
