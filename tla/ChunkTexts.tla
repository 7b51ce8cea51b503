----------------------------- MODULE ChunkTexts -----------------------------
(* A code file whose method goes and comes back where it was, and a document  *)
(* of four sentences that turns into bytes that are no text.                  *)
EXTENDS Naturals, Sequences

None == 99      \* no parent

Node(name, kind, first, last, parent) ==
  [name |-> name, kind |-> kind, first |-> first, last |-> last, parent |-> parent]
Code(lines, nodes) ==
  [kind |-> "code", lines |-> lines, ends |-> DOMAIN lines,
   nodes |-> nodes \cup {Node(0, "module", 1, Len(lines), None)}]
Binary == [kind |-> "binary", lines |-> <<>>, ends |-> {},
           nodes |-> {Node(0, "document", 1, 1, None)}]
Document(lines, ends) == [kind |-> "document", lines |-> lines, ends |-> ends,
                          nodes |-> {Node(0, "document", 1, Len(lines), None)}]

(* An import, a blank line, a class with a field, a method of four lines     *)
(* with a function in it, and a table after the class.                       *)
ClassAndMethod == {Node(1, "class", 3, 8, 0), Node(2, "method", 5, 8, 1),
                   Node(3, "function", 6, 7, 2), Node(4, "variable", 9, 9, 0)}
CodeTexts == <<Code(<<1, 0, 2, 3, 4, 5, 6, 7, 8, 9>>, ClassAndMethod),
               Code(<<1, 0, 2, 3>>, {Node(1, "class", 3, 4, 0)}),
               Code(<<1, 0, 2, 3, 4, 5, 6, 7>>, {Node(1, "class", 3, 8, 0),
                                                 Node(2, "method", 5, 8, 1)})>>
DocTexts == <<Document(<<1, 2, 3, 0, 4, 5, 6>>, {2, 3, 5, 7}), Binary>>
TwoFiles == <<CodeTexts, DocTexts>>
=============================================================================
