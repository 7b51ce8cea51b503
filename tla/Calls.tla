------------------------------- MODULE Calls -------------------------------
(* How the edges of the code graph are bound: what the parsers leave of a     *)
(* call or an import (parser/*_parser.py), the per-language ladder that binds *)
(* it to a node of the project (parser/resolver.py), and the compiler's       *)
(* answer laid over it where a SCIP indexer ran (scip_semantic.py,            *)
(* graph_builder._merge_semantic_calls).                                      *)
(*                                                                            *)
(* A name is a sequence of identifiers, a file [dir, stem, ext], a node       *)
(* [file, kind, name, first, last].  One behaviour resolves one world: the    *)
(* nodes and the name-binding facts of a project, its calls, its imports and  *)
(* what else it mentions: a function passed as a value, a class annotated.    *)
EXTENDS Integers, Sequences, FiniteSets, SequencesExt, FiniteSetsExt

CONSTANTS Worlds,     \* the projects resolved
          Nobody,     \* no node
          MaxDepth    \* inheritance levels followed (the code: 8)

VARIABLES world, todo, edges, external, unresolved, imported, covered
vars == <<world, todo, edges, external, unresolved, imported, covered>>

Nodes == world.nodes
In(file, kinds, name) == {n \in Nodes : n.file = file /\ n.kind \in kinds /\ n.name = name}
InDir(dir, kind, name) == {n \in Nodes : n.file.dir = dir /\ n.kind = kind /\ n.name = name}
Fact(f, key) == IF key \in DOMAIN f THEN f[key] ELSE Nobody
ImportOf(file, name) == Fact(world.imports[file], name)
NeverShadowed(caller, name) == FALSE        \* as if the shadow guard were not there
Shadowed(caller, name) == name \in world.locals[caller]

-----------------------------------------------------------------------------
(* What the parsers leave of a call: a dotted name, or nothing.              *)

PyTarget(site) == site.path                 \* f().g() and xs[0].g() leave "g"
JsTarget(site) == IF site.root = "name" THEN site.path ELSE <<>>
GoTarget(site) == IF site.root = "name" THEN site.path ELSE <<"(">> \o site.path
Target(site) == CASE world.lang = "py" -> PyTarget(site)
                  [] world.lang = "ts" -> JsTarget(site)
                  [] world.lang = "go" -> GoTarget(site)
                  [] OTHER -> site.path

-----------------------------------------------------------------------------
(* The ladder.  An outcome is an edge to a node, or the list it goes to.     *)

Listed(where) == [to |-> Nobody, rung |-> where]
Edge(n, rung) == [to |-> n, rung |-> rung]
AnyOf(hits, rung) == IF hits = {} THEN Listed("unresolved")
                     ELSE Edge(CHOOSE n \in hits : TRUE, rung)
OnlyOf(hits, rung) == IF Cardinality(hits) = 1 THEN AnyOf(hits, rung)
                      ELSE Listed("unresolved")
Callables == {"function", "class"}

Stripped(path) == IF Len(path) > 1 /\ path[1] = "src" THEN Tail(path) ELSE path
PyModule(f) == LET p == Stripped(Append(f.dir, f.stem))
               IN IF Last(p) = "__init__" THEN Front(p) ELSE p
PyAbsolute(f, imp) == IF imp.level = 0 THEN imp.path
                      ELSE SubSeq(f.dir, 1, Len(f.dir) - (imp.level - 1)) \o imp.path
PySymbol(path) == {n \in Nodes : n.file.ext = "py" /\ n.kind \in {"function", "class", "method"}
                                 /\ PyModule(n.file) \o n.name = path}
TopPackages == {PyModule(n.file)[1] : n \in {m \in Nodes : m.file.ext = "py"}}

(* The class's own method, else the first base, depth first, that has it.    *)
PyFindMethod(file, cls, meth) ==
  LET SourceFiles == {n.file : n \in Nodes}
      find[f \in SourceFiles, c \in STRING, depth \in 0..(MaxDepth + 1)] ==
        LET own == In(f, {"method"}, <<c, meth>>)
            Through(base) ==
              LET imp == ImportOf(f, base[1])
                  found == PySymbol(PyAbsolute(f, imp) \o Tail(base))
                  b == CHOOSE n \in found : TRUE
              IN IF imp = Nobody THEN find[f, Last(base), depth + 1]
                 ELSE IF found = {} THEN {}
                 ELSE find[b.file, Last(b.name), depth + 1]
            class == In(f, {"class"}, <<c>>)
            bases == IF class = {} THEN <<>> ELSE world.bases[CHOOSE k \in class : TRUE]
            lucky == {i \in DOMAIN bases : Through(bases[i]) # {}}
        IN CASE depth > MaxDepth -> {}
             [] depth <= MaxDepth /\ own # {} -> own
             [] depth <= MaxDepth /\ own = {} ->
                  IF lucky = {} THEN {} ELSE Through(bases[Min(lucky)])
  IN find[file, cls, 0]

ResolvePython(caller, target) ==
  LET file == caller.file
      first == target[1]
      imp == ImportOf(file, first)
      full == PyAbsolute(file, imp) \o Tail(target)
      hidden == Shadowed(caller, first)
      here == In(file, Callables, target)
  IN   IF first \in {"self", "cls"} /\ caller.kind = "method" THEN
            AnyOf(IF Len(target) = 2 THEN PyFindMethod(file, caller.name[1], target[2]) ELSE {},
                  "self")
       ELSE IF imp # Nobody /\ ~hidden THEN
            IF PySymbol(full) = {} /\ full[1] \notin TopPackages THEN Listed("external")
            ELSE AnyOf(PySymbol(full), "import")
       ELSE IF Len(target) = 1 /\ (imp = Nobody \/ hidden) THEN
            IF ~hidden /\ here = {} /\ first \in world.builtins THEN Listed("skip")
            ELSE AnyOf(IF hidden THEN {} ELSE here, "same-module")
       ELSE AnyOf(IF Len(target) = 2 /\ ~hidden THEN In(file, {"method"}, target) ELSE {},
                         "same-module")

GoDir(file, path) == LET mod == world.gomod[file]
                     IN IF IsPrefix(mod.path, path)
                        THEN mod.root \o SubSeq(path, Len(mod.path) + 1, Len(path))
                        ELSE Nobody
(* A field's type, its alias read in the caller's file, then anywhere in the *)
(* package.                                                                  *)
GoType(file, type) ==
  LET sibling == {g \in DOMAIN world.imports : g.dir = file.dir /\ ImportOf(g, type.alias) # Nobody}
      path == IF ImportOf(file, type.alias) # Nobody THEN ImportOf(file, type.alias)
              ELSE ImportOf(CHOOSE g \in sibling : TRUE, type.alias)
      known == ImportOf(file, type.alias) # Nobody \/ sibling # {}
  IN   IF type.opaque THEN [dir |-> Nobody, outside |-> FALSE]
       ELSE IF type.alias = Nobody THEN [dir |-> file.dir, outside |-> FALSE]
       ELSE IF ~known THEN [dir |-> Nobody, outside |-> FALSE]
       ELSE [dir |-> GoDir(file, path), outside |-> GoDir(file, path) = Nobody]

GoFieldCall(file, recv, target) ==
  LET type == Fact(world.fields, <<file.dir, recv, target[2]>>)
      at == GoType(file, type)
  IN CASE type = Nobody -> Listed("unresolved")
       [] type # Nobody /\ at.outside -> Listed("external")
       [] OTHER -> OnlyOf(InDir(at.dir, "method", <<type.name, target[3]>>), "field-type")

ResolveGo(caller, target) ==
  LET file == caller.file
      first == target[1]
      imp == ImportOf(file, first)
      dir == GoDir(file, imp)
      receiver == caller.kind = "method" /\ first = world.receivers[caller]
  IN   IF Len(target) = 1 /\ first \in world.builtins THEN Listed("skip")
       ELSE IF Len(target) = 1 /\ first \notin world.builtins THEN
            OnlyOf(IF Shadowed(caller, first) THEN {} ELSE InDir(file.dir, "function", target),
                   "same-package")
       ELSE IF Len(target) > 1 /\ imp # Nobody /\ ~Shadowed(caller, first) THEN
            IF dir = Nobody THEN Listed("external")
            ELSE OnlyOf(InDir(dir, IF Len(target) = 2 THEN "function" ELSE "method", Tail(target)),
                        "import")
       ELSE IF Len(target) = 2 /\ receiver THEN
            OnlyOf(InDir(file.dir, "method", <<caller.name[1], target[2]>>), "self")
       ELSE IF Len(target) = 3 /\ receiver THEN GoFieldCall(file, caller.name[1], target)
       ELSE Listed("unresolved")

(* A relative specifier, joined and normalised lexically, then the exact key, *)
(* each extension, each index file.                                          *)
Normal(path) == FoldLeft(LAMBDA done, part :
                   CASE part = "." -> done
                     [] part = ".." /\ done # <<>> /\ Last(done) # ".." -> Front(done)
                     [] OTHER -> Append(done, part), <<>>, path)
Extensions == <<"js", "jsx", "ts", "tsx">>
Scripts == Range(Extensions)
ModuleKeys(n) == LET bare == Append(n.file.dir, n.file.stem)
                 IN CASE n.kind = "document" -> {<<bare, n.file.ext>>}
                      [] n.kind = "module" /\ n.file.ext \in Scripts ->
                           {<<bare, n.file.ext>>, <<bare, Nobody>>}
                      [] OTHER -> {}
Keyed(path, ext) == {n \in Nodes : <<path, ext>> \in ModuleKeys(n)}
JsModule(file, spec) ==
  LET path == Normal(file.dir \o spec.path)
      ladder == <<Keyed(path, spec.ext)>>
                \o FlattenSeq([i \in 1..4 |-> <<Keyed(path, Extensions[i]),
                                                Keyed(Append(path, "index"), Extensions[i])>>])
      hits == {i \in DOMAIN ladder : ladder[i] # {}}
  IN IF ~spec.relative \/ hits = {} THEN {} ELSE ladder[Min(hits)]

ResolveJs(caller, target) ==
  LET file == caller.file
      first == target[1]
      imp == ImportOf(file, first)
      hidden == Shadowed(caller, first)
      module == JsModule(file, imp.spec)
      there == (CHOOSE n \in module : TRUE).file
      here == In(file, Callables, target)
  IN   IF first = "this" /\ caller.kind = "method" /\ Len(target) = 2 THEN
            AnyOf(In(file, {"method"}, <<caller.name[1], target[2]>>), "self")
       ELSE IF imp # Nobody /\ ~hidden THEN
            IF module = {} THEN Listed("external")
              ELSE IF Len(target) = 1 /\ imp.orig # "*" THEN AnyOf(In(there, Callables, <<imp.orig>>), "import")
              ELSE IF Len(target) = 2 /\ imp.orig = "*" THEN AnyOf(In(there, Callables, Tail(target)), "import")
              ELSE Listed("unresolved")
       ELSE IF Len(target) = 1 /\ (imp = Nobody \/ hidden) /\ (hidden \/ here # {}) THEN
            AnyOf(IF hidden THEN {} ELSE here, "same-module")
       ELSE Listed(IF first \in world.builtins THEN "skip" ELSE "unresolved")

Resolve(caller, target) == IF "(" \in Range(target) THEN Listed("unresolved")
                             ELSE IF world.lang = "py" THEN ResolvePython(caller, target)
                             ELSE IF world.lang = "go" THEN ResolveGo(caller, target)
                             ELSE IF world.lang = "ts" THEN ResolveJs(caller, target)
                             ELSE AnyOf(In(caller.file, {"function"}, target), "same-module")

-----------------------------------------------------------------------------
(* The binding of imports, and the fold of the statements that share a       *)
(* source and a target.                                                      *)

(* Every node under its module and last name, a package's module also under  *)
(* the package; the longest prefix that names something wins.                *)
PyIndexed(path) ==
  {n \in Nodes : /\ n.file.ext = "py"
                 /\ IF n.kind = "module"
                    THEN path \in {Stripped(Append(n.file.dir, n.file.stem)), PyModule(n.file)}
                    ELSE path = Append(Stripped(Append(n.file.dir, n.file.stem)), Last(n.name))}
PyImported(stmt) ==
  LET path == PyAbsolute(stmt.file, stmt.spec)
      known == {k \in DOMAIN path : PyIndexed(SubSeq(path, 1, k)) # {}}
  IN IF known = {} THEN {} ELSE PyIndexed(SubSeq(path, 1, Max(known)))

JsImported(stmt) ==
  LET module == JsModule(stmt.file, stmt.spec)
  IN module \cup {n \in Nodes : /\ n.kind \notin {"module", "document"}
                               /\ n.file \in {m.file : m \in module}
                               /\ Len(n.name) = 1 /\ n.name[1] \in stmt.names \ {"*", "default"}}

Imported(stmt) == IF world.lang = "py" THEN PyImported(stmt) ELSE JsImported(stmt)

ImportEdge(stmt, n) ==
  [from |-> stmt.file, to |-> n, line |-> stmt.line, spec |-> stmt.spec,
   names |-> IF world.lang = "py" \/ n.kind \in {"module", "document"}
             THEN stmt.names ELSE {n.name[1]},
   dynamic |-> stmt.dynamic, typeOnly |-> stmt.typeOnly, reexport |-> stmt.reexport]
Folded(first, edge) ==
  LET earlier == IF first.line <= edge.line THEN first ELSE edge
  IN [earlier EXCEPT !.names = first.names \cup edge.names,
                     !.dynamic = first.dynamic /\ edge.dynamic,
                     !.typeOnly = first.typeOnly /\ edge.typeOnly,
                     !.reexport = first.reexport \/ edge.reexport]
SameKey(e, d) == e.from = d.from /\ e.to = d.to
MergeInto(out, edge) ==
  {d \in out : ~SameKey(d, edge)}
    \cup {IF \E d \in out : SameKey(d, edge)
          THEN Folded(CHOOSE d \in out : SameKey(d, edge), edge) ELSE edge}

-----------------------------------------------------------------------------
(* What a call really denotes, and so what a compiler reports: the nodes it  *)
(* may reach, none when it leaves the project or is a local value.           *)

PyPackage(f) == IF f.dir # <<>> /\ f.dir[1] = "src" THEN Tail(f.dir) ELSE f.dir
PyTrue(f, imp) == IF imp.level = 0 THEN imp.path
                  ELSE SubSeq(PyPackage(f), 1, Len(PyPackage(f)) + 1 - imp.level) \o imp.path
PyBases(c) ==
  UNION {LET b == world.bases[c][i]
             imp == ImportOf(c.file, b[1])
         IN IF imp = Nobody THEN In(c.file, {"class"}, b)
            ELSE PySymbol(PyTrue(c.file, imp) \o Tail(b)) :
         i \in DOMAIN world.bases[c]}
Ancestors(S) ==
  LET up[k \in Nat] == IF k = 0 THEN S
                       ELSE LET below == up[k - 1]
                            IN below \cup UNION {PyBases(c) : c \in below}
  IN up[Cardinality({n \in Nodes : n.kind = "class"})]
(* The definitions of a method that no other ancestor overrides.             *)
PyNearest(c, meth) ==
  LET Own(k) == In(k.file, {"method"}, <<k.name[1], meth>>)
      having == {k \in Ancestors({c}) : Own(k) # {}}
  IN UNION {Own(k) : k \in {h \in having : \A j \in having \ {h} : h \notin Ancestors({j})}}

PyMeans(site) ==
  LET file == site.caller.file
      imp == ImportOf(file, site.path[1])
  IN CASE site.path[1] = "self" ->
            UNION {PyNearest(c, site.path[2]) : c \in In(file, {"class"}, <<site.caller.name[1]>>)}
       [] site.path[1] # "self" /\ imp # Nobody ->
            PySymbol(PyTrue(file, imp) \o Tail(site.path))
       [] OTHER -> In(file, {"function", "class", "method"}, site.path)
GoMeans(site) ==
  LET file == site.caller.file
      imp == ImportOf(file, site.path[1])
      type == Fact(world.fields, <<file.dir, site.caller.name[1], site.path[2]>>)
      home == IF type.alias = Nobody THEN file.dir
              ELSE GoDir(type.file, ImportOf(type.file, type.alias))
  IN CASE Len(site.path) = 1 -> InDir(file.dir, "function", site.path)
       [] Len(site.path) > 1 /\ imp # Nobody ->
            UNION {InDir(GoDir(file, imp), k, Tail(site.path)) : k \in {"function", "method"}}
       [] Len(site.path) = 2 /\ imp = Nobody ->
            InDir(file.dir, "method", <<site.caller.name[1], site.path[2]>>)
       [] OTHER -> IF type = Nobody \/ type.opaque THEN {}
                   ELSE InDir(home, "method", <<type.name, site.path[3]>>)
JsMeans(site) ==
  LET file == site.caller.file
      imp == ImportOf(file, site.path[1])
      there == {n.file : n \in JsModule(file, imp.spec)}
      name == IF imp.orig = "*" THEN Tail(site.path) ELSE <<imp.orig>>
  IN CASE site.path[1] = "this" ->
            In(file, {"method"}, <<site.caller.name[1], site.path[2]>>)
       [] site.path[1] # "this" /\ imp # Nobody ->
            UNION {In(g, Callables, name) : g \in there}
       [] OTHER -> In(file, Callables, site.path)
Means(site) == CASE site.root # "name" \/ site.path[1] \in site.bound -> {}
                 [] OTHER -> CASE world.lang = "py" -> PyMeans(site)
                               [] world.lang = "go" -> GoMeans(site)
                               [] world.lang = "ts" -> JsMeans(site)
                               [] OTHER -> In(site.caller.file, {"function"}, site.path)

-----------------------------------------------------------------------------
(* The semantic pass: the occurrences an indexer reports, mapped to the nodes *)
(* by file and line.  It reports every mention of a name, a call or not.     *)

Occurrences == Range(world.sites) \cup world.mentions

(* The node of a pool a line lies in, the innermost by its first line.       *)
Innermost(kinds, file, line) ==
  {n \in Nodes : /\ n.file = file /\ n.kind \in kinds /\ n.first <= line /\ line <= n.last
                 /\ \A m \in Nodes : (/\ m.file = file /\ m.kind \in kinds
                                      /\ m.first <= line /\ line <= m.last) => m.first <= n.first}
Targets == {"function", "method", "class", "struct"}
(* The node a symbol's definition falls on, when it may be called.           *)
DefinedAt(n) ==
  IF n.file \notin world.compiled THEN {}
  ELSE {m \in Innermost(Targets, n.file, n.first) :
          IF n.kind = "class" THEN m.kind = "class" /\ m.file.ext = "py"
          ELSE m.kind \in {"function", "method"}}
CallersOf(o) == IF o.caller.file \notin world.compiled THEN {}
                ELSE Innermost({"function", "method"}, o.caller.file, o.line)
Bound(o) == UNION {DefinedAt(n) : n \in Means(o)}
SemanticEdges ==
  UNION {{[from |-> c, to |-> m, rung |-> "semantic", text |-> <<>>] :
            c \in CallersOf(o), m \in Bound(o)} : o \in Occurrences}
(* A class that is bound to no node is not told, a function is.              *)
SemanticExternal ==
  UNION {{<<c, o.path>> : c \in CallersOf(o)} :
         o \in {s \in Occurrences : /\ s.path[1] \notin s.bound /\ Bound(s) = {}
                                   /\ \A n \in Means(s) : n.kind # "class"}}
Answered(n) == n.file \in world.compiled /\ n.kind \in {"function", "method"}

-----------------------------------------------------------------------------
Init ==
  /\ world \in Worlds
  /\ todo = world.sites \o world.stmts
  /\ edges = {} /\ external = {} /\ unresolved = {} /\ imported = {}
  /\ covered = FALSE

(* A parser emits no call without a name; one edge per caller and callee.    *)
ResolveCall ==
  /\ todo # <<>> /\ todo[1].op = "call"
  /\ LET site == todo[1]
         target == Target(site)
         out == Resolve(site.caller, target)
         told == target # <<>> /\ out.to = Nobody
     IN /\ edges' = IF target = <<>> \/ out.to = Nobody
                        \/ \E e \in edges : e.from = site.caller /\ e.to = out.to
                    THEN edges
                    ELSE edges \cup {[from |-> site.caller, to |-> out.to,
                                     rung |-> out.rung, text |-> target]}
        /\ external' = external \cup (IF told /\ out.rung = "external"
                                      THEN {<<site.caller, target>>} ELSE {})
        /\ unresolved' = unresolved \cup (IF told /\ out.rung = "unresolved"
                                          THEN {<<site.caller, target>>} ELSE {})
  /\ todo' = Tail(todo)
  /\ UNCHANGED <<world, imported, covered>>

ResolveImport ==
  /\ todo # <<>> /\ todo[1].op = "import"
  /\ imported' = FoldSet(LAMBDA n, out : MergeInto(out, ImportEdge(todo[1], n)),
                         imported, Imported(todo[1]))
  /\ todo' = Tail(todo)
  /\ UNCHANGED <<world, edges, external, unresolved, covered>>

(* For a compiled file the compiler's answer replaces the ladder's.          *)
MergeSemantic ==
  /\ todo = <<>> /\ ~covered /\ world.compiled # {}
  /\ LET kept == {e \in edges : ~Answered(e.from)}
         fresh == {e \in SemanticEdges : /\ e.from # e.to
                                         /\ \A k \in kept : k.from # e.from \/ k.to # e.to}
     IN edges' = kept \cup fresh
  /\ external' = {x \in external : ~Answered(x[1])} \cup SemanticExternal
  /\ unresolved' = {x \in unresolved : ~Answered(x[1])}
  /\ covered' = TRUE
  /\ UNCHANGED <<world, todo, imported>>

Next == ResolveCall \/ ResolveImport \/ MergeSemantic
Spec == Init /\ [][Next]_vars

-----------------------------------------------------------------------------
SitesOf(n) == {s \in Range(world.sites) : s.caller = n}
Finished == todo = <<>> /\ (covered \/ world.compiled = {})

(* A CALLS edge is never guessed (docs/calls-resolution.md:46): the caller   *)
(* has a call that denotes the node, whichever rung placed the edge, or, on  *)
(* a compiler's word, a mention that does.                                   *)
NeverGuessed ==
  \A e \in edges :
     IF e.rung = "semantic"
     THEN \E o \in Occurrences : o.caller = e.from /\ e.to \in Means(o)
     ELSE \E s \in SitesOf(e.from) : e.to \in Means(s) /\ Target(s) = e.text

(* "CALLS: a call site, resolved to the entity it reaches" (README.md:17):   *)
(* the caller of every edge has a call that reaches the node.  It fails: a   *)
(* compiler's word makes an edge of a mention too.                           *)
EdgesAreCallSites ==
  \A e \in edges : \E s \in SitesOf(e.from) : e.to \in Means(s)

(* external_calls lists what leaves the project: nothing it names denotes a  *)
(* node of the project.                                                      *)
ExternalIsOutside ==
  \A x \in external : \E o \in Occurrences : o.caller = x[1] /\ o.path = x[2] /\ Means(o) = {}

(* A node with no CALLS edge and two empty lists calls nothing (README): of  *)
(* every call that names something, an edge, a list entry or a compiler that *)
(* called it local remains; language builtins alone go unsaid.               *)
SilenceIsALeaf ==
  Finished => \A s \in Range(world.sites) :
     \/ Target(s) = <<>>
     \/ Means(s) = {} /\ s.path[1] \in world.builtins
     \/ \E e \in edges : e.from = s.caller /\ e.to \in Means(s)
     \/ \E x \in external \cup unresolved : x[1] = s.caller
     \/ Answered(s.caller) /\ (s.path[1] \in s.bound \/ s.caller \in Means(s))

(* Who imports this file is never a confident nobody: a statement written to *)
(* import an indexed file yields an edge to that file, and the statements of *)
(* one pair are told as one - static, valued or re-exporting if any is, at   *)
(* the line of the first.                                                    *)
ImportsAreFound ==
  todo = <<>> =>
     \A s \in Range(world.stmts) :
        /\ s.of # Nobody => \E e \in imported : e.from = s.file /\ e.to.file = s.of
        /\ \A e \in imported :
             LET same == {t \in Range(world.stmts) : t.file = e.from /\ e.to \in Imported(t)}
             IN /\ e.dynamic = (\A t \in same : t.dynamic)
                /\ e.typeOnly = (\A t \in same : t.typeOnly)
                /\ e.reexport = (\E t \in same : t.reexport)
                /\ \E t \in same : /\ t.line = e.line /\ t.spec = e.spec
                                    /\ \A u \in same : t.line <= u.line
                /\ e.names \subseteq UNION {t.names : t \in same}
                /\ e.to.kind = "module" => e.names = UNION {t.names : t \in same}
=============================================================================
