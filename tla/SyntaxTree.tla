----------------------------- MODULE SyntaxTree -----------------------------
(***************************************************************************)
(* What the context engine reads out of a syntax tree (ast.ts): symbols,   *)
(* imports and call sites.                                                 *)
(*                                                                         *)
(* A tree is the sequence of its nodes in the order visit reaches them:    *)
(*   [type, name, up, first, last, callee, sources]                        *)
(* with the tree-sitter type, the text of the name field ("" for none),    *)
(* the index of the parent (0 under the root), the lines, the callee of a  *)
(* call (NoName when it is no plain name) and the modules an import names. *)
(* A name is [of, name]: `of' is what stands before the last dot, or "".   *)
(***************************************************************************)
EXTENDS Arrays, FiniteSetsExt

CONSTANT PrivateNames  \* the names that start with an underscore

NoName == [of |-> "", name |-> ""]
Name == [of : STRING, name : STRING]
SyntaxNode == [type : STRING, name : STRING, up : Nat, first : Nat, last : Nat, callee : Name,
               sources : Seq(Seq(STRING))]

Functions_ == {"function_declaration", "generator_function_declaration",
               "method_definition", "function_definition"}
Classes_ == {"class_declaration", "class_definition"}
Arrows == {"arrow_function", "lambda"}

\* The enclosing nodes of node n, up to the root.
Above(t, n) ==
  LET above[m \in 0 .. Len(t)] == IF m = 0 THEN {} ELSE {m} \cup above[t[m].up]
  IN above[t[n].up]

\* The nearest of them that satisfies P, 0 if none does.
Nearest(t, n, P(_)) == Max({m \in Above(t, n) : P(m)} \cup {0})

IsExported(t, n) == \E m \in Above(t, n) : t[m].type = "export_statement"
IsNestedInFunction(t, n) == \E m \in Above(t, n) : t[m].type \in Functions_ \cup Arrows
WithinClassOnly(t, n) ==
  LET m == Nearest(t, n, LAMBDA k : t[k].type \in Functions_ \cup Classes_)
  IN m # 0 /\ t[m].type \in Classes_

\* The function, method or class a call stands in.  A method is Class.method if
\* the class is exactly two nodes up: a Python decorator in between hides it.
ResolveCaller(t, n) ==
  LET m == Nearest(t, n, LAMBDA k : t[k].type \in Functions_ \cup Classes_ /\ t[k].name # "")
      owner == IF m = 0 \/ t[m].up = 0 THEN 0 ELSE t[t[m].up].up
  IN IF m = 0 THEN NoName
     ELSE [of |-> IF /\ t[m].type \in Functions_ /\ owner # 0
                     /\ t[owner].type \in Classes_ /\ t[owner].name # t[m].name
                  THEN t[owner].name ELSE "",
           name |-> t[m].name]

DeclaresFunction(lang, n) ==
  IF lang = "python" THEN n.type = "function_definition"
  ELSE n.type \in Functions_ \ {"function_definition"}
DeclaresClass(lang, n) ==
  n.type = (IF lang = "python" THEN "class_definition" ELSE "class_declaration")

IsSymbol(lang, t, n) ==
  /\ t[n].name # ""
  /\ \/ DeclaresFunction(lang, t[n]) /\ (t[n].type = "method_definition" \/ ~IsNestedInFunction(t, n))
     \/ DeclaresClass(lang, t[n]) /\ ~IsNestedInFunction(t, n)

Kind(lang, t, n) ==
  IF DeclaresClass(lang, t[n]) THEN "class"
  ELSE IF t[n].type = "method_definition" \/ WithinClassOnly(t, n) THEN "method" ELSE "function"

\* In Python whatever a module defines without a leading underscore.
Exported(lang, t, n) ==
  \/ IsExported(t, n)
  \/ lang = "python" /\ Kind(lang, t, n) # "method" /\ t[n].name \notin PrivateNames

Symbol(file, lang, t, n) ==
  [name |-> t[n].name, kind |-> Kind(lang, t, n), file |-> file, first |-> t[n].first, last |-> t[n].last,
   exported |-> Exported(lang, t, n)]

IsCall(lang, n) ==
  n.type = (IF lang = "python" THEN "call" ELSE "call_expression") /\ n.callee # NoName
IsImport(lang, n) ==
  n.type \in IF lang = "python" THEN {"import_statement", "import_from_statement"}
             ELSE {"import_statement", "export_statement"}

Nodes(t, P(_)) == Kept([n \in DOMAIN t |-> n], {n \in DOMAIN t : P(n)})

NoParse == [parsed |-> FALSE]

\* parseSourceFile: no grammar for the language, or a parser that gives up (an
\* empty tree), is no parse; surplus symbols are cut off.
ParseSourceFile(file, lang, t, maxSymbolsPerFile) ==
  IF lang = "none" \/ t = <<>> THEN NoParse
  ELSE LET at == Nodes(t, LAMBDA n : IsSymbol(lang, t, n))
           calls == Nodes(t, LAMBDA n : IsCall(lang, t[n]))
           imports == Nodes(t, LAMBDA n : IsImport(lang, t[n]))
       IN [parsed |-> TRUE, file |-> file,
           symbols |-> [i \in 1 .. Min({Len(at), maxSymbolsPerFile}) |-> Symbol(file, lang, t, at[i])],
           imports |-> FlattenSeq([i \in DOMAIN imports |-> t[imports[i]].sources]),
           calls |-> [i \in DOMAIN calls |-> [caller |-> ResolveCaller(t, calls[i]),
                                              callee |-> t[calls[i]].callee]]]
=============================================================================
