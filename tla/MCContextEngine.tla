-------------------------- MODULE MCContextEngine ---------------------------
(* Two small repositories and a pull request on each, for TLC. *)
EXTENDS ContextEngine

N(type, name, up, first, last) ==
  [type |-> type, name |-> name, up |-> up, first |-> first, last |-> last,
   callee |-> NoName, sources |-> <<>>]
Call(of, name, type, up, line) ==
  [N(type, "", up, line, line) EXCEPT !.callee = [of |-> of, name |-> name]]
Imp(source, type) == [N(type, "", 0, 1, 1) EXCEPT !.sources = <<source>>]

Same(n) == [i \in 1 .. n |-> " "]
SourceFile(path, lang, tree) ==
  [path |-> path, lang |-> lang, tree |-> tree, status |-> "same", edit |-> Same(4), since |-> Same(4),
   text |-> TRUE, size |-> 1, skip |-> FALSE]
Ts(path, tree) == SourceFile(path, "typescript", tree)
Py(path, tree) == SourceFile(path, "python", tree)

\* Four lines in the head, at most one removed, and lines that look like headers.
FourKept == {e \in [1 .. 4 -> {" ", "+"}] : Touched(e)}
Edits == FourKept
  \cup {SubSeq(e, 1, n) \o <<"-">> \o SubSeq(e, n + 1, 4) : e \in [1 .. 4 -> {" ", "+"}], n \in {0, 2, 4}}
  \cup {<<"---", "+", " ", " ", " ">>, <<" ", "+++", " ", "+">>}

\* app/a.ts: import of b; a function, a class with two methods, one of which
\* calls from a callback.
A(edit, size) == [Ts(<<"app", "a", ".ts">>, <<
    Imp(<<".", "/", "b">>, "import_statement"),
    N("export_statement", "", 0, 1, 2),
    N("function_declaration", "f", 2, 1, 2),
    Call("", "g", "call_expression", 3, 2),
    N("class_declaration", "K", 0, 3, 4),
    N("class_body", "", 5, 3, 4),
    N("method_definition", "m", 6, 3, 3),
    Call("this", "n", "call_expression", 7, 3),
    N("method_definition", "n", 6, 4, 4),
    N("arrow_function", "", 9, 4, 4),
    N("function_declaration", "inner", 10, 4, 4),
    Call("", "f", "call_expression", 10, 4) >>) EXCEPT !.status = "modified", !.edit = edit, !.since = edit,
                        !.size = size]

\* app/b.ts: imports up, down, back to a; a hidden caller; a call at top level.
B == Ts(<<"app", "b", ".ts">>, <<
    Imp(<<".", "/", "a">>, "import_statement"),
    Imp(<<".", ".", "/", "lib", "/", "c">>, "import_statement"),
    Imp(<<".", "/", "sub">>, "export_statement"),
    Imp(<<"react">>, "import_statement"),
    N("export_statement", "", 0, 2, 3),
    N("function_declaration", "g", 5, 2, 3),
    Call("", "h", "call_expression", 6, 2),
    N("function_declaration", "hidden", 0, 4, 4),
    Call("", "f", "call_expression", 8, 4),
    Call("x", "g", "call_expression", 0, 4) >>)

\* app/sub/index.ts: the second "../" is lost, so this import is of app/lib/c.
Index == Ts(<<"app", "sub", "index", ".ts">>, <<
    Imp(<<".", ".", "/", ".", ".", "/", "lib", "/", "c">>, "import_statement"),
    Imp(<<".", "/", "deep">>, "import_statement"),
    N("export_statement", "", 0, 1, 4),
    N("class_declaration", "P", 3, 1, 4),
    N("class_body", "", 4, 1, 4),
    N("method_definition", "q", 5, 2, 2),
    Call("", "hidden", "call_expression", 6, 2),
    Call("K", "m", "call_expression", 6, 2) >>)

Deep == Ts(<<"app", "sub", "deep", ".ts">>, << N("function_declaration", "z", 0, 1, 1) >>)

\* lib/c.ts has two classes with a method r; the second ends its symbols.
C(since) == [Ts(<<"lib", "c", ".ts">>, <<
    Imp(<<".", "/", "u">>, "import_statement"),
    Imp(<<".", ".", "/", "app", "/", "sub">>, "import_statement"),
    N("class_declaration", "C1", 0, 1, 2),
    N("class_body", "", 3, 1, 2),
    N("method_definition", "r", 4, 2, 2),
    N("class_declaration", "C2", 0, 3, 4),
    N("class_body", "", 6, 3, 4),
    N("method_definition", "r", 7, 4, 4),
    N("export_statement", "", 0, 4, 4),
    N("function_declaration", "h", 9, 4, 4) >>) EXCEPT !.since = since]

Unparsable == Ts(<<"lib", "u", ".ts">>, <<>>)

Old(status) == [Ts(<<"old", ".ts">>, << N("function_declaration", "o", 0, 1, 2) >>) EXCEPT
    !.status = status, !.edit = IF status = "deleted" THEN <<"-", "-">> ELSE Same(2),
    !.since = IF status = "deleted" THEN <<"-", "-">> ELSE Same(2)]

Lock == [SourceFile(<<"yarn", ".lock">>, "none", <<>>) EXCEPT !.status = "modified", !.skip = TRUE,
    !.edit = <<" ", "+">>, !.since = <<" ", "+">>]

\* app/a.ts may be read as a changed file and then be too large as a source.
TsRepositories ==
  {<<A(e, IF status = "same" THEN 2 ELSE 1), B, Deep, Index, C(since), Unparsable, Old(status), Lock>> :
     e \in Edits, since \in {Same(4), <<" ", "+", " ", " ", " ">>}, status \in {"same", "renamed", "deleted"}}

\* pkg/__init__.py, pkg/m.py (changed), pkg/sub/n.py, util.py (binary or large)
PyRepositories ==
  {<< Py(<<"pkg", "__init__", ".py">>, << N("function_definition", "setup", 0, 1, 2) >>),
      [Py(<<"pkg", "m", ".py">>, <<
          Imp(<<".">>, "import_from_statement"),
          Imp(<<".", "sub", ".", "n">>, "import_from_statement"),
          Imp(<<"util">>, "import_statement"),
          N("function_definition", "run", 0, 1, 2),
          Call("", "T", "call", 4, 2),
          N("function_definition", "_private", 0, 3, 4) >>) EXCEPT
         !.status = status, !.edit = edit, !.since = edit, !.size = size],
      Py(<<"pkg", "sub", "n", ".py">>, <<
          Imp(<<".", ".", "m">>, "import_from_statement"),
          N("class_definition", "T", 0, 1, 4),
          N("block", "", 2, 2, 4),
          N("function_definition", "p", 3, 2, 2),
          Call("", "run", "call", 4, 2),
          N("decorated_definition", "", 3, 3, 4),
          N("function_definition", "q", 6, 4, 4),
          Call("", "run", "call", 7, 4),
          Call("", "setup", "call", 3, 2) >>),
      [Py(<<"util", ".py">>, << N("function_definition", "v", 0, 1, 1) >>) EXCEPT
         !.text = util # "binary", !.size = IF util = "large" THEN 2 ELSE 1] >> :
     status \in {"modified", "added"}, edit \in {<<"+", "+", "+", "+">>, <<" ", "+", " ", " ">>},
     size \in {1, 3}, util \in {"binary", "large", "small"}}

MCRepositories == TsRepositories \cup PyRepositories

Wide == [maxDependencyDepth |-> 2, maxTraversalDepth |-> 2, maxSymbolsPerFile |-> 9, maxNodes |-> 99,
         maxEdges |-> 99, maxRelevantSymbols |-> 99, maxRelevantFiles |-> 99, maxSourceLinesPerSymbol |-> 99,
         maxSourceBytesPerFile |-> 2, maxParseFiles |-> 99, maxHistoryItems |-> 2, maxHistoryComments |-> 2, maxHistoryFiles |-> 9]
Tight == [Wide EXCEPT !.maxSymbolsPerFile = 3, !.maxNodes = 6, !.maxEdges = 6, !.maxRelevantSymbols = 3,
            !.maxRelevantFiles = 1, !.maxSourceLinesPerSymbol = 1, !.maxSourceBytesPerFile = 1, !.maxParseFiles = 3,
            !.maxTraversalDepth = 1, !.maxHistoryItems = 1, !.maxHistoryComments = 1, !.maxHistoryFiles = 1]
MCLimits == {Wide, Tight}

\* Pull request 9 is under review.  Its first file has two commits, which share
\* pull request 3; that one has comments on two files and a reply.
MCCommitsOf == [f \in 1 .. 8 |-> IF f = 1 THEN <<"c1", "c2">> ELSE <<"c2">>]
MCPullsOf == [c \in {"c1", "c2"} |->
  IF c = "c1" THEN << [number |-> 9, at |-> 5], [number |-> 3, at |-> 3] >>
  ELSE << [number |-> 3, at |-> 3], [number |-> 4, at |-> 4] >>]
OnFile(f, reply, at) == [file |-> f, reply |-> reply, at |-> at]
MCCommentsOn == [p \in {3, 4} |->
  IF p = 3 THEN << OnFile(1, FALSE, 8), OnFile(1, TRUE, 7), OnFile(2, FALSE, 6) >>
  ELSE << OnFile(1, FALSE, 9), OnFile(1, FALSE, 8) >>]
MCPrivateNames == {"_private"}
=============================================================================
