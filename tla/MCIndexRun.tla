----------------------------- MODULE MCIndexRun -----------------------------
(* Instances of IndexRun for TLC.                                          *)
EXTENDS IndexRun, TLC

CONSTANTS f, g

TwoFiles == {f, g}
OneFile == {f}
NoFile == {}

Frozen(faulty, removable, edited, failed) ==
  [faults |-> faulty, deletable |-> removable, anytime |-> FALSE, reverts |-> FALSE,
   edits |-> edited, mishaps |-> failed]
Live(w) == [w EXCEPT !.anytime = TRUE]
Branches(w) == [w EXCEPT !.reverts = TRUE]

\* Everything a run does may fail, and the process may die, but the tree holds
\* still while a run is under way; or files change under the run; or they change
\* back between the runs.
SafeWorlds == {Frozen({"crash", "llm", "embed", "chunkread", "parse"}, Files, 2, 3),
               Live(Frozen({"preflight", "embed", "chunkread", "gate"}, Files, 3, 1)),
               Branches(Frozen({"llm"}, Files, 3, 1))}

\* What indexing again heals.
HealWorlds == {Frozen({"crash", "llm", "embed", "chunkread"}, {}, 2, 2),
               Live(Frozen({"chunkread", "gate"}, {f}, 2, 2))}

\* A file that failed to be parsed.
UnparsedWorld == {Frozen({"parse"}, {}, 1, 1)}

\* The files of a run are alike when the same holds of all of them.
Alike == Permutations(Files)
=============================================================================
