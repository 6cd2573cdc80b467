---------------------------- MODULE ImportPaths -----------------------------
(***************************************************************************)
(* Which file of the checkout an import names (imports.ts).                *)
(*                                                                         *)
(* A path is the sequence of its segments, its extension the last one:     *)
(* <<"app", "a", ".ts">>.  A specifier is the sequence of its dots,        *)
(* slashes and names: "../b" is <<".", ".", "/", "b">>.                    *)
(***************************************************************************)
EXTENDS Arrays

TS_EXTENSIONS == <<".ts", ".mts", ".cts", ".tsx", ".js", ".mjs", ".cjs", ".jsx", ".d.ts">>
PYTHON_EXTENSIONS == <<".py">>

IsPython(path) == Last(path) = ".py"
Dir(path) == SubSeq(path, 1, Len(path) - 2)

Dots(source) == Cardinality({i \in DOMAIN source : \A j \in 1 .. i : source[j] = "."})
\* Dots become slashes, and path.join collapses those.
Names(source) == Kept(source, ToSet(source) \ {".", "/"})

\* dirname, n times; the root is its own parent.
Up(dir, n) == SubSeq(dir, 1, IF n < Len(dir) THEN Len(dir) - n ELSE 0)

\* One dot is the importer's directory, every further one goes up from it.  A
\* "../" after the first one is among the dots that become slashes: it is lost.
MutBases(source, from) == << Up(Dir(from), Dots(source)) \o Names(source) >>
Bases(source, from) ==
  LET names == Names(source) IN
  IF Dots(source) > 0 THEN << Up(Dir(from), Dots(source) - 1) \o names >>
  ELSE IF source[1] = "/" THEN <<names>>
  ELSE << Dir(from) \o names, names >>

\* With its dots gone the specifier never has an extension of its own.
Candidates(source, from) ==
  LET extensions == IF IsPython(from) THEN PYTHON_EXTENSIONS ELSE TS_EXTENSIONS
      of(base) ==
        [i \in DOMAIN extensions |-> base \o <<extensions[i]>>] \o
        IF IsPython(from) THEN << base \o <<"__init__", ".py">> >>
        ELSE [i \in DOMAIN TS_EXTENSIONS |-> base \o <<"index", TS_EXTENSIONS[i]>>]
      bases == Bases(source, from)
  IN FlattenSeq([i \in DOMAIN bases |-> of(bases[i])])

\* resolveImportPath: the first candidate that is a file, <<>> for null.
ResolveImportPath(source, from, files) ==
  LET there == Kept(Candidates(source, from), files)
  IN IF there = <<>> THEN <<>> ELSE there[1]

-----------------------------------------------------------------------------
(* The reference: what the languages mean by a specifier.                  *)

\* Segment by segment, as Node does; dot by dot, as Python does.
Parents(source) ==
  Cardinality({i \in 1 .. Len(source) - 1 : /\ source[i] = "." /\ source[i + 1] = "."
                                            /\ i = 1 \/ source[i - 1] = "/"})
Meant(source, from) ==
  IF IsPython(from)
  THEN Up(Dir(from), IF Dots(source) = 0 THEN 0 ELSE Dots(source) - 1) \o Names(source)
  ELSE Up(Dir(from), Parents(source)) \o Names(source)

\* Specifiers the rule of Bases is right for: no dot after the first slash, so
\* neither "../../b" nor "./b.js".
Plain(source) == \A i \in DOMAIN source : \A j \in 1 .. i - 1 : source[j] = "/" => source[i] # "."
=============================================================================
