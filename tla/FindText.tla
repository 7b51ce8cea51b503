------------------------------ MODULE FindText ------------------------------
(* find_text (tools/find.py): every line of the project's files that holds a  *)
(* pattern, read from disk one file after the other while files change, with  *)
(* a budget of bytes and of time.  A file is [size, hits, binary]: its bytes, *)
(* how many of its lines match, and whether it is text.  Paths are of         *)
(* directories the index knows: it opens no other.                            *)
EXTENDS Naturals, Sequences, FiniteSets, SequencesExt, FiniteSetsExt

CONSTANTS Paths,       \* paths, in order
          Versions,    \* contents a file may have
          Absent,      \* no file there
          Budget,      \* FIND_MAX_BYTES
          MaxUnindexed,\* FIND_MAX_UNINDEXED
          PageSizes, MaxEdits

VARIABLES disk, indexed, pc, limit, offset, universe, at, left, kept, counted,
          searched, binary, unreadable, skipped, timedOut, pages,
          gap,         \* an answer said that files are missing from the index (files_not_in_index)
          edits, touched, base,
          beyond       \* history: the files on disk that no scan of the walk was given
vars == <<disk, indexed, pc, limit, offset, universe, at, left, kept, counted, searched,
          binary, unreadable, skipped, timedOut, pages, gap, edits, touched, base, beyond>>
tally == <<left, kept, counted, searched, binary, unreadable, skipped, timedOut>>
call == <<pc, limit, offset, universe, at, pages, gap, beyond>>

Init ==
  /\ disk \in [Paths -> Versions \cup {Absent}]
  /\ indexed \in SUBSET Paths
  /\ pc = "idle" /\ limit \in PageSizes /\ offset = 0
  /\ universe = <<>> /\ at = 1 /\ left = Budget
  /\ kept = <<>> /\ counted = 0 /\ searched = {} /\ binary = {} /\ unreadable = {}
  /\ skipped = {} /\ timedOut = FALSE /\ pages = <<>>
  /\ edits = 0 /\ touched = {} /\ base = disk
  /\ gap = FALSE /\ beyond = {}

(* The files on disk the index does not hold, and those of them that a call  *)
(* reads: the first of what the coverage scan came to.                       *)
Missing == {p \in Paths \ indexed : disk[p] # Absent}
FirstOf(found) == {p \in found : Cardinality({q \in found : q < p}) < MaxUnindexed}

InOrder(S) ==
  [i \in 1..Cardinality(S) |-> CHOOSE p \in S : Cardinality({q \in S : q < p}) = i - 1]
RestAfter == {universe[i] : i \in (at + 1)..Len(universe)}     \* a mutant of Rest
Rest == {universe[i] : i \in at..Len(universe)}
Keep == offset + limit + 1
Put(lines, p, n) == LET new == [i \in 1..n |-> <<p, i>>]
                    IN SubSeq(lines \o new, 1, Min({Keep, Len(lines) + n}))

(* Every indexed file and the unindexed ones; a coverage scan that was       *)
(* stopped, or came to more than are read, is told.                          *)
Begin ==
  /\ pc = "idle" /\ at' = 1 /\ pc' = "stat"
  /\ \E found \in SUBSET Missing, capped \in BOOLEAN :
       /\ found = Missing \/ capped
       /\ universe' = InOrder(indexed \cup FirstOf(found))
       /\ beyond' = (IF pages = <<>> THEN {} ELSE beyond) \cup (Missing \ FirstOf(found))
       /\ gap' = (capped \/ Cardinality(found) > MaxUnindexed \/ (pages # <<>> /\ gap))
  /\ left' = Budget /\ kept' = <<>> /\ counted' = 0
  /\ searched' = {} /\ binary' = {} /\ unreadable' = {} /\ skipped' = {} /\ timedOut' = FALSE
  /\ touched' = IF pages = <<>> THEN {} ELSE touched
  /\ base' = IF pages = <<>> THEN disk ELSE base
  /\ UNCHANGED <<disk, indexed, limit, offset, pages, edits>>

(* The size is looked at before the file is read; the scan stops at the      *)
(* first file over the budget, or late, and counts that file and the rest.   *)
Advance == at' = at + 1 /\ pc' = "stat"
StatFile ==
  /\ pc = "stat" /\ at <= Len(universe)
  /\ LET f == disk[universe[at]]
     IN \/ /\ f = Absent
           /\ unreadable' = unreadable \cup {universe[at]} /\ Advance
           /\ UNCHANGED skipped
        \/ /\ f # Absent
           /\ \E late \in BOOLEAN :
                IF late \/ f.size > left
                THEN skipped' = Rest /\ pc' = "answer" /\ UNCHANGED at
                ELSE pc' = "read" /\ UNCHANGED <<at, skipped>>
           /\ UNCHANGED unreadable
  /\ UNCHANGED <<disk, indexed, limit, offset, universe, left, kept, counted, searched,
                 binary, timedOut, pages, gap, edits, touched, base, beyond>>

(* The bytes are those of the moment of the read; a regex that backtracks    *)
(* past the deadline ends the scan inside the file.                          *)
ReadFile ==
  /\ pc = "read"
  /\ LET p == universe[at]
         f == disk[p]
     IN CASE f = Absent ->
               /\ unreadable' = unreadable \cup {p} /\ Advance
               /\ UNCHANGED <<left, kept, counted, searched, binary, skipped, timedOut>>
          [] f # Absent ->
               /\ left' = IF f.size > left THEN 0 ELSE left - f.size
               /\ IF f.binary
                  THEN /\ binary' = binary \cup {p} /\ Advance
                       /\ UNCHANGED <<kept, counted, searched, skipped, timedOut>>
                  ELSE /\ searched' = searched \cup {p}
                       /\ \E n \in 0..f.hits :
                            /\ kept' = Put(kept, p, n) /\ counted' = counted + n
                            /\ \/ n = f.hits /\ Advance /\ UNCHANGED <<skipped, timedOut>>
                               \/ /\ timedOut' = TRUE /\ skipped' = Rest
                                  /\ pc' = "answer" /\ UNCHANGED at
                       /\ UNCHANGED binary
               /\ UNCHANGED unreadable
  /\ UNCHANGED <<disk, indexed, limit, offset, universe, pages, gap, edits, touched, base, beyond>>

Truncated == skipped # {}
Answer ==
  /\ pc = "answer" \/ (pc = "stat" /\ at > Len(universe))
  /\ LET window == SubSeq(kept, offset + 1, Len(kept))
         more == Len(window) > limit
     IN /\ pages' = pages \o SubSeq(window, 1, Min({limit, Len(window)}))
        /\ pc' = IF more THEN "idle" ELSE "done"
        /\ offset' = IF more THEN offset + limit ELSE offset
  /\ UNCHANGED <<disk, indexed, limit, universe, at, gap, edits, touched, base, beyond>>
  /\ UNCHANGED tally

(* Files are written and removed under the scan.                             *)
EditFile ==
  /\ pc # "done" /\ edits < MaxEdits
  /\ \E p \in Paths, v \in Versions \cup {Absent} :
       /\ v # disk[p]
       /\ disk' = [disk EXCEPT ![p] = v] /\ touched' = touched \cup {p}
  /\ edits' = edits + 1
  /\ UNCHANGED <<indexed, base>> /\ UNCHANGED call /\ UNCHANGED tally

Next == Begin \/ StatFile \/ ReadFile \/ Answer \/ EditFile
Spec == Init /\ [][Next]_vars

-----------------------------------------------------------------------------
Hits == [p \in Paths |-> IF base[p] = Absent \/ base[p].binary THEN 0 ELSE base[p].hits]
HitsIn(S) == MapThenSumSet(LAMBDA p : Hits[p], S)

(* The totals are a census of what was read: every file of the universe is   *)
(* counted once, as searched, binary, unreadable or not searched - except    *)
(* the file a regex was stopped in, which is both - and a scan that says     *)
(* nothing was left out, of its files or of the index, has counted every     *)
(* match of every file that stood still.                                     *)
CensusIsExact ==
  pc = "done" =>
     /\ Range(universe) = searched \cup binary \cup unreadable \cup skipped
     /\ Cardinality(searched) + Cardinality(binary) + Cardinality(unreadable)
          + Cardinality(skipped) = Len(universe) + (IF timedOut THEN 1 ELSE 0)
     /\ ~Truncated /\ ~gap => /\ counted >= HitsIn(Paths \ touched)
                              /\ touched = {} => counted = HitsIn(Paths)

(* Walking next_offset over files that stand still yields every matching     *)
(* line once, in path and line order, unless the last page says the scan     *)
(* stopped early or a page says that files are missing from the index.       *)
WalkIsACensus ==
  pc = "done" /\ ~Truncated /\ ~gap /\ touched = {} =>
     pages = FlattenSeq([i \in DOMAIN universe |->
               [n \in 1..Hits[universe[i]] |-> <<universe[i], n>>]])
=============================================================================
