---------------------------- MODULE MCReadTools ----------------------------
(* The read tools on small instances.                                         *)
EXTENDS ReadTools, Sequences

CONSTANTS
  m, d, fn, other,      \* Search: a module, a directory, a function; another project's row
  a, b, one, two       \* Freshness: two files, two commits

\* The windows grow 1, 2, 3, so that an index may be shorter, longer, or cut off.
SW == INSTANCE SearchWorlds
Three == SW!Three
Kinds == SW!Kinds
TwoLevels == SW!TwoLevels
TwoWords == SW!TwoWords
OnePhrase == SW!OnePhrase
SomeWorlds == SW!SomeWorlds

\* Six rows in path order: every way a name fits, in and out of scope, and one
\* spelling shared by three rows, the first of them out of scope.
Entity(at, fits, scope, test) == [at |-> at, fits |-> fits, scope |-> scope, test |-> test]
SixRows == {Entity(1, "part", TRUE, FALSE), Entity(2, "folded", FALSE, FALSE),
            Entity(3, "exact", FALSE, FALSE), Entity(4, "exact", TRUE, TRUE),
            Entity(5, "exact", TRUE, FALSE), Entity(6, "no", TRUE, FALSE)}
SixStores == SUBSET SixRows

\* A small file with a match, one over half the budget with two, a binary one.
Text(size, lines) == [size |-> size, hits |-> lines, binary |-> FALSE]
ThreeVersions == {Text(1, 1), Text(2, 2), [Text(1, 1) EXCEPT !.binary = TRUE]}

\* A checkout of two commits: a in lib/ is rewritten by the second, b at the root
\* is added by it.
TwoFiles == {a, b}
TwoCommits == {one, two}
Folders == [x \in {a, b} |-> IF x = a THEN "lib" ELSE "."]
TwoTrees == [c \in {one, two} |-> [x \in {a, b} |->
            IF x = a THEN (IF c = one THEN 1 ELSE 2) ELSE (IF c = one THEN 0 ELSE 1)]]
=============================================================================
