---------------------------- MODULE SearchWorlds ----------------------------
(* What a small index may hold and a caller ask of it: three entities of the *)
(* project that is searched, and rows of another one between them.           *)
EXTENDS Naturals, Sequences, TLC

CONSTANTS m, d, fn, other

Three == {m, d, fn}
Kinds == m :> "module" @@ d :> "directory" @@ fn :> "function"
TwoLevels == {"module", "directory"}

\* Word 2 is a phrase.
TwoWords == {1, 2}
OnePhrase == {2}

Row(k, o, s, ws, n, p) == [id |-> k, owner |-> o, score |-> s, words |-> ws, near |-> n, apart |-> p]
Empty == [i \in {"code", "summary", "symbol"} |-> {}]

\* Scores of the two vector indexes interleave, and tie within one and across.
CodeScore == <<9, 6, 6, 2>>
SummaryScore == <<8, 6, 3, 1>>
Rows(owners, scores) == {Row(k, owners[k], scores[k], {1}, {}, FALSE) : k \in DOMAIN owners}
Lists4(es) == UNION {[1..n -> es] : n \in 0..4}
Lists2(es) == UNION {[1..n -> es] : n \in 0..2}
Lists3(es) == UNION {[1..n -> es] : n \in 0..3}

Ask(tool, types, allowed, minScore, limit, offset) ==
  [tool |-> tool, types |-> types, allowed |-> allowed, minScore |-> minScore,
   limit |-> limit, offset |-> offset]

CodeWorlds ==
  {[index |-> [Empty EXCEPT !["code"] = Rows(l, CodeScore)], present |-> {},
    ask |-> Ask("code", {}, a, 3, 1, o)] :
     l \in Lists4({m, fn, other}), a \in {Three, {fn}}, o \in {0, 1}}

SemanticWorlds ==
  {[index |-> [Empty EXCEPT !["summary"] = Rows(l, SummaryScore)], present |-> p,
    ask |-> Ask("semantic", TwoLevels, Three, 0, 1, o)] :
     l \in Lists3({m, d, other}), p \in {TwoLevels, {"module"}}, o \in {0, 1}}

HybridWorlds ==
  {[index |-> [Empty EXCEPT !["code"] = Rows(l, CodeScore), !["summary"] = Rows(k, SummaryScore)],
    present |-> {}, ask |-> Ask("hybrid", {}, Three, 0, 1, 0)] :
     l \in Lists2({m, fn, other}), k \in Lists2({m, fn, other})}

\* A chunk may hold either word, hold a word nearly, or the phrase's pieces apart; a
\* symbol holds words.
TextRows == {{}} \cup
  {{Row(1, o, 5, ws, n, p)} :
     o \in {m, other}, ws \in SUBSET TwoWords, n \in {{}, {1}}, p \in BOOLEAN}

SymbolRows == {rows \in TextRows : \A r \in rows : r.near = {} /\ ~r.apart}

TextWorlds ==
  {[index |-> [code |-> c, summary |-> Rows(l, <<4>>), symbol |-> y], present |-> {},
    ask |-> Ask("text", {}, a, 0, 1, 0)] :
     c \in TextRows, y \in SymbolRows, l \in {<<>>, <<fn>>}, a \in {Three, {fn}}}

SomeWorlds == CodeWorlds \cup SemanticWorlds \cup HybridWorlds \cup TextWorlds
=============================================================================
