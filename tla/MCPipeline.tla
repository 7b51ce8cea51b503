----------------------------- MODULE MCPipeline -----------------------------
(* The pipeline on small instances of its stages.                             *)
EXTENDS Pipeline, Sequences, TLC

CONSTANTS app, lib

\* Small projects in four languages: every subset of the declarations that a file's
\* calls and imports may mean.
CW == INSTANCE CallWorlds
SmallProjects == CW!WellFormed

\* A code file whose method goes and comes back, and a document of four sentences that
\* turns into bytes that are no text.
CT == INSTANCE ChunkTexts
TwoPaths == {1, 2}
TwoTexts == CT!TwoFiles
BetweenSteps == {"idle", "exists", "read", "embed"}

\* In parse order 1 is a module, 2 and 3 its functions, 4 a document beside it and 5
\* their directory.
FiveNodes == 1..5
Below == <<5, 1, 1, 5, 0>>
Unique == [n \in 1..5 |-> n]
Root5 == {5}
TwoAnswers == {1, 2}
NoReorder == {}

\* The store: a file calls and imports another, and imports a library; either may get
\* the text of the other, or go. The project is the whole tree, or all but lib.
Home == (app :> "pkg") @@ (lib :> ".")
Lib == [defs |-> {"g"}, twins |-> {}, calls |-> {}, imports |-> {}]
App == [defs |-> {"f"}, twins |-> {}, calls |-> {<<"f", "g">>}, imports |-> {lib, "os"}]
TwoFiles == {app, lib}
TwoContents == {Lib, App}
OneTree == {(app :> App) @@ (lib :> Lib)}
OnePass == {"heuristic"}
TwoScopes == {Everything, [include |-> TwoFiles, exclude |-> {lib}]}

\* The caps stop both files' first index, and let it pass.
SmallAndLarge == {"small", "large"}
Sizes == ("small" :> 1) @@ ("large" :> 2)
OneEach == ("small" :> 1) @@ ("large" :> 1)
TwoCaps == {2, 6}
=============================================================================
