------------------------------ MODULE Listing ------------------------------
(* The listing tools of the graph (tools/graph.py over repository.py): a page *)
(* is filled from raw batches until enough rows pass the caller's filters, a  *)
(* caller walks pages by next_offset, and a name is resolved to one entity.   *)
(* Index runs add and remove rows between any two queries.                    *)
(*                                                                            *)
(* A row is [at, fits, scope, test]: its place in path order, how the name    *)
(* asked for fits its own, whether the path filters admit it, whether its     *)
(* path looks like a test.                                                    *)
EXTENDS Naturals, Sequences, FiniteSets, Functions, FiniteSetsExt

CONSTANTS Rows,        \* every row the store may ever hold
          Stores,      \* its contents to begin with
          Nobody,      \* no row
          Batch,       \* raw rows per query (MAX_GRAPH_LIMIT)
          ScanCap,     \* raw rows scanned for one page (MAX_FILTER_SCAN_ROWS)
          NameScan,    \* candidates looked at for a name (_NAME_CANDIDATE_SCAN)
          Limits,      \* page sizes asked for
          MaxRuns      \* rows added or removed by runs

VARIABLES store, tool, asked, pc, offset, raw, kept, listed, cut, answer,
          first,       \* the store when the walk, or the narrowing of a name, began
          runs,        \* changes to it
          moved        \* and their kind since: still, grown (rows added between pages),
                       \* spread (also between batches), torn (rows removed)
vars == <<store, tool, asked, pc, offset, raw, kept, listed, cut, answer, first, runs, moved>>

Tools == {"list", "search", "related_by_name"}
Idle == [limit |-> 0, filters |-> FALSE, tests |-> TRUE]
Init ==
  /\ store \in Stores /\ tool \in Tools
  /\ asked = Idle /\ pc = "idle"
  /\ offset = 0 /\ raw = 0 /\ kept = <<>>
  /\ listed = <<>> /\ cut = FALSE /\ answer = [row |-> Nobody, rule |-> "", among |-> {}]
  /\ first = store /\ runs = 0 /\ moved = "still"

-----------------------------------------------------------------------------
(* The queries: path order, and for a name its exact spellings first.        *)
Before(x, y) == x.at < y.at
Rank(x) == CASE x.fits = "exact" -> 0 [] x.fits = "folded" -> 1 [] OTHER -> 2
NameBefore(x, y) == Rank(x) < Rank(y) \/ (Rank(x) = Rank(y) /\ Before(x, y))
Precedes(x, y) == IF tool = "list" THEN Before(x, y) ELSE NameBefore(x, y)
InOrder(S) ==
  [i \in 1..Cardinality(S) |-> CHOOSE x \in S : Cardinality({y \in S : Precedes(y, x)}) = i - 1]
Matching(S) == IF tool = "list" THEN S ELSE {x \in S : x.fits # "no"}
Query(S) == InOrder(Matching(S))
Slice(rows, skip, limit) == SubSeq(rows, skip + 1, Min({skip + limit, Len(rows)}))

Keep(x) == (asked.filters => x.scope) /\ (asked.tests \/ ~x.test)
Filtered(rows) == InOrder({x \in Range(rows) : Keep(x)})
NeededForPage == offset + asked.limit   \* as if no row beyond the page were asked for
Needed == offset + asked.limit + 1

-----------------------------------------------------------------------------
(* A page, batch by batch.                                                   *)

ListPage ==
  /\ pc = "idle" /\ tool # "related_by_name"
  /\ \E limit \in Limits, filters \in BOOLEAN, tests \in BOOLEAN :
        asked' = [limit |-> limit, filters |-> filters, tests |-> tests]
  /\ pc' = "scan" /\ raw' = 0 /\ kept' = <<>>
  /\ first' = store /\ UNCHANGED <<runs, moved>>
  /\ UNCHANGED <<store, tool, offset, listed, cut, answer>>

Scanning == Len(kept) < Needed /\ raw < ScanCap
Narrowing == tool = "related_by_name" /\ raw = 0   \* its first batch is still to come
FetchBatch ==
  /\ pc = "scan" /\ Scanning
  /\ LET rows == Slice(Query(store), raw, Batch + 1)
         last == Len(rows) <= Batch
     IN /\ kept' = kept \o Filtered(Slice(rows, 0, Batch))
        /\ raw' = IF last THEN raw ELSE raw + Batch
        /\ pc' = IF last THEN "answer" ELSE "scan"
  /\ first' = IF Narrowing THEN store ELSE first
  /\ moved' = IF Narrowing THEN "still" ELSE moved
  /\ UNCHANGED <<store, tool, asked, offset, listed, cut, answer, runs>>

Scanned == pc = "answer" \/ (pc = "scan" /\ ~Scanning)

(* The page is trimmed by one row that only says there is a next page; a     *)
(* scan that stopped at its ceiling short of a page says so.                 *)
Respond ==
  /\ Scanned /\ tool # "related_by_name"
  /\ LET page == Slice(kept, offset, asked.limit + 1)
     IN /\ listed' = listed \o Slice(page, 0, asked.limit)
        /\ cut' = (raw >= ScanCap /\ Len(kept) < Needed)
        /\ IF Len(page) > asked.limit
           THEN pc' = "scan" /\ offset' = offset + asked.limit /\ raw' = 0 /\ kept' = <<>>
           ELSE pc' = "done" /\ UNCHANGED <<offset, raw, kept>>
  /\ UNCHANGED <<store, tool, asked, answer, first, runs, moved>>

-----------------------------------------------------------------------------
(* A name, resolved to one entity or to its candidates.                      *)

(* Exactly spelled, else ignoring case, else every match; one row resolves.  *)
(* A row that two batches both held counts twice.                            *)
PickByName(rows) ==
  LET Fitting(f) == {i \in DOMAIN rows : rows[i].fits = f}
      rule == IF Fitting("exact") # {} THEN "exact"
              ELSE IF Fitting("folded") # {} THEN "folded" ELSE "part"
      chosen == IF rule = "part" THEN DOMAIN rows ELSE Fitting(rule)
  IN [row |-> IF Cardinality(chosen) = 1 THEN rows[CHOOSE i \in chosen : TRUE] ELSE Nobody,
      rule |-> rule, among |-> {rows[i] : i \in chosen}]

ResolveName ==
  /\ pc = "idle" /\ tool = "related_by_name"
  /\ \E filters \in BOOLEAN :
       asked' = [Idle EXCEPT !.filters = filters, !.limit = NameScan + 1]
  /\ LET picked == PickByName(Slice(Query(store), 0, NameScan + 1))
     IN /\ answer' = picked
        /\ pc' = IF picked.row = Nobody /\ picked.among # {} /\ asked'.filters
                 THEN "scan" ELSE "done"
  /\ first' = store /\ raw' = 0 /\ kept' = <<>> /\ UNCHANGED <<runs, moved>>
  /\ UNCHANGED <<store, tool, offset, listed, cut>>

(* Path filters narrow what the rules left ambiguous: the page scanned for    *)
(* them, batch by batch, is judged by the same rules.                        *)
NarrowName ==
  /\ Scanned /\ tool = "related_by_name"
  /\ LET scoped == Slice(kept, 0, Needed)
     IN answer' = IF scoped = <<>> THEN answer ELSE PickByName(scoped)
  /\ pc' = "done"
  /\ UNCHANGED <<store, tool, asked, offset, raw, kept, listed, cut, first, runs, moved>>

-----------------------------------------------------------------------------
(* An index run writes a row, or removes one, between two queries.           *)
Between == pc = "scan" /\ raw = 0      \* between pages, not between batches
AddRow ==
  /\ pc = "scan" /\ runs < MaxRuns
  /\ \E x \in Rows \ store : store' = store \cup {x}
  /\ runs' = runs + 1
  /\ moved' = IF moved = "torn" THEN "torn"
              ELSE IF Between /\ moved # "spread" THEN "grown" ELSE "spread"
  /\ UNCHANGED <<tool, asked, pc, offset, raw, kept, listed, cut, answer, first>>
RemoveRow ==
  /\ pc = "scan" /\ runs < MaxRuns
  /\ \E x \in store : store' = store \ {x}
  /\ runs' = runs + 1 /\ moved' = "torn"
  /\ UNCHANGED <<tool, asked, pc, offset, raw, kept, listed, cut, answer, first>>

Next == \/ ListPage \/ FetchBatch \/ Respond
        \/ ResolveName \/ NarrowName
        \/ AddRow \/ RemoveRow
Spec == Init /\ [][Next]_vars

-----------------------------------------------------------------------------
(* A walk along next_offset lists every row the caller's filters admit: all  *)
(* of them, once and in order, when the store stood still; none that was     *)
(* there throughout is missed when rows were added between pages only.  A    *)
(* walk whose last page says the scan was cut short promises no more than    *)
(* what it lists (INV-7).                                                    *)
WalkIsComplete ==
  pc = "done" /\ tool # "related_by_name" /\ moved \in {"still", "grown"} =>
     LET wanted == Filtered(Query(first))
     IN /\ cut \/ Range(wanted) \subseteq Range(listed)
        /\ moved = "still" => \E n \in 0..Len(wanted) : listed = SubSeq(wanted, 1, n)

(* A name is never resolved by picking the first of several matches: the row *)
(* answered matches, and no other that was in the store, or in the caller's  *)
(* paths, when the scan began fits as well or better.                        *)
Rivals(S) == {x \in Matching(S) : Rank(x) <= Rank(answer.row)}
NameIsNoPick ==
  pc = "done" /\ answer.row # Nobody =>
     \/ Rivals(first) \subseteq {answer.row}
     \/ asked.filters /\ answer.row.scope /\ Rivals({x \in first : x.scope}) \subseteq {answer.row}

(* That far, when the rows that match are no more than a narrowing scan goes *)
(* through (it drops the mark of a scan that was cut), and no row went while *)
(* it did: what follows a removed row moves back behind its offset, unseen.  *)
NameIsTheOne ==
  moved # "torn" /\ (Cardinality(Matching(store)) <= ScanCap \/ ~asked.filters) =>
     NameIsNoPick /\ (pc = "done" /\ answer.row # Nobody => answer.row \in Matching(store))
=============================================================================
