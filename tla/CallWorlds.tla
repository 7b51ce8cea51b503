----------------------------- MODULE CallWorlds -----------------------------
(* Small projects in Python, Go and TypeScript: a caller's file, the file it  *)
(* imports, and every subset of the declarations the calls may mean.          *)
EXTENDS Integers, Sequences, FiniteSets, SequencesExt, TLC

CONSTANT Nobody     \* no node

At(dir, stem, ext) == [dir |-> dir, stem |-> stem, ext |-> ext]
Node(file, kind, name, first, last) ==
  [file |-> file, kind |-> kind, name |-> name, first |-> first, last |-> last]
Call(caller, line, path, bound) ==
  [op |-> "call", caller |-> caller, line |-> line, root |-> "name", path |-> path, bound |-> bound]
Mention(caller, line, path, bound) ==
  [Call(caller, line, path, bound) EXCEPT !.op = "mention"]
Chained(caller, line, path) ==
  [Call(caller, line, path, {}) EXCEPT !.root = "chain"]
From(file, of, spec, names, line) ==
  [op |-> "import", file |-> file, of |-> of, spec |-> spec, names |-> names, line |-> line,
   dynamic |-> FALSE, typeOnly |-> FALSE, reexport |-> FALSE]
Dots(level, path) == [level |-> level, path |-> path]

\* Python: pkg/main.py calls into pkg/util.py, by absolute or relative imports.
Main == At(<<"pkg">>, "main", "py")
Util == At(<<"pkg", "sub">>, "util", "py")
PyMain == Node(Main, "module", <<"main">>, 1, 40)
PyUtil == Node(Util, "module", <<"util">>, 1, 40)
Run == Node(Main, "function", <<"run">>, 2, 9)
C == Node(Main, "class", <<"C">>, 20, 30)
Go == Node(Main, "method", <<"C", "go">>, 21, 25)
Base == Node(Main, "class", <<"B">>, 31, 35)
D == Node(Util, "class", <<"D">>, 10, 15)
PyFixed == {PyMain, PyUtil, Run, C, Go, Base, D}
PyOptional == {Node(Main, "function", <<"help">>, 10, 12), Node(Util, "function", <<"help">>, 2, 4),
               Node(Main, "method", <<"C", "m">>, 26, 28), Node(Main, "method", <<"B", "m">>, 32, 33),
               Node(Util, "method", <<"D", "m">>, 11, 13)}
PyImports == {
  ("json" :> Dots(0, <<"json">>) @@ "D" :> Dots(0, <<"pkg", "sub", "util", "D">>)),
  ("help" :> Dots(1, <<"sub", "util", "help">>) @@ "util" :> Dots(0, <<"pkg", "sub", "util">>)),
  ("util" :> Dots(1, <<"sub", "util">>) @@ "D" :> Dots(1, <<"sub", "util", "D">>))}
PySites == <<Call(Run, 3, <<"help">>, {"cb"}), Call(Run, 4, <<"util", "help">>, {"cb"}),
             Call(Run, 5, <<"json", "dumps">>, {"cb"}), Call(Run, 6, <<"len">>, {"cb"}),
             Call(Run, 7, <<"cb">>, {"cb"}), Call(Run, 8, <<"C", "m">>, {"cb"}),
             Call(Go, 22, <<"self", "m">>, {"help"}), Call(Go, 23, <<"help">>, {"self", "help"}),
             Call(PyMain, 40, <<"help">>, {})>>
\* A class in an annotation, a function of the file and one of a library as values.
PyMentions == {Mention(Run, 2, <<"C">>, {"cb"}), Mention(Go, 24, <<"run">>, {"self", "help"}),
               Mention(Go, 25, <<"json", "loads">>, {"self", "help"})}
PyStmts == <<From(Main, Util, Dots(1, <<"sub", "util">>), {"util"}, 1),
             From(Main, Util, Dots(0, <<"pkg", "sub", "util", "D">>), {"D"}, 2),
             From(Util, Main, Dots(2, <<"main", "run">>), {"run"}, 1),
             From(Main, Nobody, Dots(0, <<"json">>), {"*"}, 3)>>
PyWorld(more, imports, bases, compiled, sites) ==
  LET nodes == PyFixed \cup more
  IN [lang |-> "py", nodes |-> nodes, sites |-> sites, mentions |-> PyMentions,
      stmts |-> PyStmts,
      imports |-> Main :> imports @@ Util :> <<>>,
      locals |-> [n \in nodes |-> UNION {s.bound : s \in {t \in Range(sites) : t.caller = n}}],
      bases |-> [n \in {C, Base, D} |-> IF n = C THEN bases ELSE <<>>],
      builtins |-> {"len"}, compiled |-> compiled]
Unclashing(more, imports) ==    \* a name is bound once in a module
  ~("help" \in DOMAIN imports /\ \E n \in more : n.file = Main /\ n.name = <<"help">>)
PyWorlds == {PyWorld(more, imports, bases, compiled, PySites) :
               more \in SUBSET PyOptional, imports \in PyImports,
               bases \in {<<>>, <<<<"B">>>>, <<<<"B">>, <<"D">>>>, <<<<"util", "D">>>>},
               compiled \in {{}, {Main, Util}}}
\* Go: package svc calls into package store of the same module, or outside it.
Svc == At(<<"svc">>, "svc", "go")
Tagged == At(<<"svc">>, "tagged", "go")
Store == At(<<"store">>, "store", "go")
GoRun == Node(Svc, "function", <<"run">>, 2, 9)
GoDo == Node(Svc, "method", <<"S", "Do">>, 12, 20)
GoFixed == {Node(Svc, "module", <<"svc">>, 1, 40), GoRun, GoDo}
GoOptional == {Node(Svc, "function", <<"help">>, 22, 24), Node(Tagged, "function", <<"help">>, 2, 4),
               Node(Store, "function", <<"help">>, 2, 4), Node(Svc, "method", <<"S", "Get">>, 26, 28),
               Node(Store, "method", <<"Repo", "Get">>, 6, 8), Node(Svc, "method", <<"Repo", "Get">>, 30, 32)}
GoSites == <<Call(GoRun, 3, <<"help">>, {"cb"}), Call(GoRun, 4, <<"store", "help">>, {"cb"}),
             Call(GoRun, 5, <<"fmt", "Println">>, {"cb"}), Call(GoRun, 6, <<"cb">>, {"cb"}),
             Chained(GoRun, 7, <<"close">>),
             Call(GoDo, 13, <<"s", "Get">>, {"help"}), Call(GoDo, 14, <<"s", "repo", "Get">>, {"help"}),
             Call(GoDo, 15, <<"help">>, {"help"}), Call(GoDo, 16, <<"len">>, {"help"})>>
Field(file, opaque, alias, name) ==
  [file |-> file, opaque |-> opaque, alias |-> alias, name |-> name]
GoWorld(more, field, compiled) ==
  LET nodes == GoFixed \cup more
  IN [lang |-> "go", nodes |-> nodes, sites |-> GoSites, stmts |-> <<>>,
      mentions |-> {Mention(GoDo, 17, <<"run">>, {"help"})},
      imports |-> Svc :> ("store" :> <<"app", "store">> @@ "fmt" :> <<"fmt">>)
                  @@ Tagged :> ("db" :> <<"app", "store">>) @@ Store :> <<>>,
      gomod |-> [f \in {Svc, Tagged, Store} |-> [path |-> <<"app">>, root |-> <<>>]],
      fields |-> <<<<"svc">>, "S", "repo">> :> field,
      receivers |-> [n \in {m \in nodes : m.kind = "method"} |-> "s"],
      locals |-> [n \in nodes |-> UNION {s.bound : s \in {t \in Range(GoSites) : t.caller = n}}],
      builtins |-> {"len"}, compiled |-> compiled]
GoWorlds == {GoWorld(more, field, compiled) :
               more \in SUBSET GoOptional, compiled \in {{}, {Svc, Store}},
               field \in {Field(Svc, FALSE, Nobody, "Repo"), Field(Svc, FALSE, "store", "Repo"),
                          Field(Tagged, FALSE, "db", "Repo"), Field(Svc, TRUE, Nobody, "Repo"),
                          Field(Svc, FALSE, "fmt", "Repo")}}

\* A compiler covers the package only when the untagged file has the function.
Buildable(nodes) == \A n \in nodes : n.file = Tagged =>
                       \E m \in nodes : m.file = Svc /\ m.name = n.name

\* TypeScript: src/ui/App.tsx imports by path, folders by their index file.
App == At(<<"src", "ui">>, "App", "tsx")
Lib == At(<<"src", "lib">>, "util", "ts")
Barrel == At(<<"src", "lib">>, "index", "ts")
Style == At(<<"src", "ui">>, "App", "css")
TsApp == Node(App, "module", <<"App">>, 1, 40)
TsRun == Node(App, "function", <<"run">>, 2, 9)
TsGo == Node(App, "method", <<"V", "go">>, 12, 20)
TsFixed == {TsApp, TsRun, TsGo, Node(App, "class", <<"V">>, 11, 30), Node(Style, "document", <<"App">>, 1, 9),
            Node(Lib, "module", <<"util">>, 1, 40), Node(Barrel, "module", <<"index">>, 1, 40)}
TsOptional == {Node(App, "function", <<"help">>, 31, 33), Node(Lib, "function", <<"help">>, 2, 4),
               Node(Barrel, "function", <<"help">>, 2, 4), Node(App, "method", <<"V", "m">>, 22, 24)}
Spec_(relative, path, ext) == [relative |-> relative, path |-> path, ext |-> ext]
ToLib == Spec_(TRUE, <<"..", "lib", "util">>, Nobody)
ToBarrel == Spec_(TRUE, <<"..", "..", "src", "lib">>, Nobody)
ToStyle == Spec_(TRUE, <<".", "App">>, "css")
Outside == Spec_(FALSE, <<"react">>, Nobody)
Named(spec, orig) == [spec |-> spec, orig |-> orig]
TsImports == {("help" :> Named(ToLib, "help") @@ "react" :> Named(Outside, "*")),
              ("util" :> Named(ToLib, "*") @@ "lib" :> Named(ToBarrel, "*")),
              ("util" :> Named(ToBarrel, "help"))}
TsSites == <<Call(TsRun, 3, <<"help">>, {"cb"}), Call(TsRun, 4, <<"util", "help">>, {"cb"}),
             Call(TsRun, 5, <<"lib", "help">>, {"cb"}), Call(TsRun, 6, <<"react", "use">>, {"cb"}),
             Call(TsRun, 7, <<"cb">>, {"cb"}), Chained(TsRun, 8, <<"then">>), Call(TsRun, 9, <<"util">>, {"cb"}),
             Call(TsGo, 13, <<"this", "m">>, {"help"}), Call(TsGo, 14, <<"help">>, {"help"}),
             Call(TsGo, 15, <<"fetch">>, {"help"})>>
TsStmts == <<From(App, Lib, ToLib, {"help"}, 1), From(App, Barrel, ToBarrel, {"*"}, 2),
             From(App, Style, ToStyle, {}, 3), From(App, Nobody, Outside, {"react"}, 4)>>
TsAgain == {[From(App, Lib, spec, {"other"}, line) EXCEPT !.dynamic = d, !.typeOnly = t, !.reexport = r] :
              spec \in {ToLib, Spec_(TRUE, <<"..", "lib", "util">>, "ts")}, line \in {0, 9},
              d \in BOOLEAN, t \in BOOLEAN, r \in BOOLEAN}
TsWorld(more, imports, stmts, compiled) ==
  LET nodes == TsFixed \cup more
  IN [lang |-> "ts", nodes |-> nodes, sites |-> TsSites, stmts |-> stmts,
      mentions |-> {Mention(TsGo, 12, <<"V">>, {"help"}), Mention(TsGo, 16, <<"run">>, {"help"})},
      imports |-> App :> imports @@ Lib :> <<>> @@ Barrel :> <<>> @@ Style :> <<>>,
      locals |-> [n \in nodes |-> UNION {s.bound : s \in {t \in Range(TsSites) : t.caller = n}}],
      builtins |-> {"fetch"}, compiled |-> compiled]
TsWorlds == {TsWorld(more, imports, TsStmts, compiled) :
               more \in SUBSET TsOptional, imports \in TsImports, compiled \in {{}, {App, Lib, Barrel}}}
            \cup {TsWorld(TsOptional, <<>>, Append(TsStmts, again), {}) : again \in TsAgain}

Other == At(<<"src">>, "main", "rs")
RsRun == Node(Other, "function", <<"run">>, 2, 9)
RsSites == <<Call(RsRun, 3, <<"help">>, {}), Call(RsRun, 4, <<"std", "drop">>, {})>>
RsWorlds == {[lang |-> "rs", nodes |-> {RsRun} \cup more, sites |-> RsSites, stmts |-> <<>>,
              mentions |-> {},
              imports |-> Other :> <<>>, locals |-> [n \in {RsRun} |-> {}], builtins |-> {},
              compiled |-> {}] : more \in SUBSET {Node(Other, "function", <<"help">>, 11, 13)}}

WellFormed == {w \in PyWorlds : Unclashing(w.nodes, w.imports[Main])}
              \cup {w \in TsWorlds : ~("help" \in DOMAIN w.imports[App]
                                       /\ \E n \in w.nodes : n.file = App /\ n.name = <<"help">>)}
              \cup {w \in GoWorlds : w.compiled = {} \/ Buildable(w.nodes)} \cup RsWorlds
=============================================================================
