--------------------------- MODULE ContextEngine ----------------------------
(***************************************************************************)
(* One build of the review context: the temporary checkout (workspace.ts), *)
(* the diff (diff.ts, filter.ts), the walk over the imports, the graph and *)
(* the relevant symbols (index.ts), the history.                           *)
(*                                                                         *)
(* A file of the repository is                                             *)
(*   [path, lang, tree, status, edit, since, text, size, skip]             *)
(* with its syntax tree at the head, what the pull request did to it since *)
(* the merge base (status, edit), how the head differs from the tip of the *)
(* base branch (since), whether it is text, its bytes in some unit, and    *)
(* whether its name is one of SKIP_PATTERNS.  Files are numbered in the    *)
(* order of paths.                                                         *)
(***************************************************************************)
EXTENDS PrHistory, ImportPaths

CONSTANTS
  Repositories,  \* checkouts a build may meet: sequences of files
  LimitSets,     \* values of ContextEngineLimits
  DiffContext,   \* lines of context git shows: --unified=3
  MaxCalls,      \* call sites looked at per file: 1000
  MAX_CONTENT_BYTES, \* of a changed file the diff reads, in the unit of size
  MaxFaults      \* bound on failures of git, the file system and GitHub

File == [path : Seq(STRING) \ {<<>>}, lang : STRING, tree : Seq(SyntaxNode), status : STRING,
         edit : Seq(Ops), since : Seq(Ops), text : BOOLEAN, size : Nat, skip : BOOLEAN]
LimitNames == {"maxDependencyDepth", "maxTraversalDepth", "maxSymbolsPerFile", "maxNodes", "maxEdges",
               "maxRelevantSymbols", "maxRelevantFiles", "maxSourceLinesPerSymbol",
               "maxSourceBytesPerFile", "maxParseFiles",
               "maxHistoryItems", "maxHistoryComments", "maxHistoryFiles"}

ASSUME EngineAssumption ==
  /\ DiffContext \in Nat /\ MaxCalls \in Nat /\ MaxFaults \in Nat /\ MAX_CONTENT_BYTES \in Nat
  /\ \A r \in Repositories :
       /\ r \in Seq(File) /\ DOMAIN r \subseteq DOMAIN CommitsOf
       /\ \A f \in DOMAIN r : r[f].status = "same" => ~Touched(r[f].edit)
  /\ LimitSets \subseteq [LimitNames -> Nat]

VARIABLES
  repo, limits,
  build,    \* pc; ok once the context is complete; dir while the checkout exists
  ctx,      \* the context as far as it is built
  leaked,   \* the removal of the checkout failed
  faults

vars == <<repo, limits, build, ctx, leaked, faults, hist>>
inputs == <<repo, limits>>

NoContext == [base |-> "none", files |-> <<>>, parsed |-> <<>>, symbols |-> <<>>, parseCount |-> 0,
              level |-> [depth |-> 0, files |-> <<>>], resolved |-> <<>>, dependencies |-> <<>>,
              graph |-> EmptyGraph, source |-> [symbols |-> <<>>, files |-> {}]]

Init ==
  /\ repo \in Repositories
  /\ limits \in LimitSets
  /\ build = [pc |-> "init", ok |-> FALSE, dir |-> FALSE]
  /\ ctx = NoContext
  /\ leaked = FALSE
  /\ faults = 0
  /\ hist = NoHistory

At(pc) == build.pc = pc
Goto(pc) == build' = [build EXCEPT !.pc = pc]

\* An await that may fail: a failure is counted.
Succeeds == UNCHANGED faults
Fails == faults < MaxFaults /\ faults' = faults + 1

-----------------------------------------------------------------------------
(* createRepoWorkspace                                                     *)

MakeDirectory ==
  /\ At("init")
  /\ \/ Succeeds /\ build' = [build EXCEPT !.pc = "fetch", !.dir = TRUE]
     \/ Fails /\ build' = [build EXCEPT !.pc = "failed"]                      \* mkdtemp
     \/ Fails /\ build' = [build EXCEPT !.pc = "abandon", !.dir = TRUE]       \* init, remote add
  /\ UNCHANGED <<inputs, ctx, leaked, hist>>

\* Both commits by their SHA; if that is refused or fails, the ref of the pull
\* request, which may have been rewritten since and not lead to the head.
Fetch ==
  /\ At("fetch") /\ Succeeds
  /\ Goto("checkout") \/ Goto("fetchRef")
  /\ UNCHANGED <<inputs, ctx, leaked, hist>>

FetchRef ==
  /\ At("fetchRef") /\ Succeeds
  /\ Goto("checkout") \/ Goto("abandon")
  /\ UNCHANGED <<inputs, ctx, leaked, hist>>

\* checkout --detach headSha, and rev-parse agrees: no other commit is reviewed.
Checkout ==
  /\ At("checkout")
  /\ \/ Succeeds /\ Goto("diff")
     \/ Fails /\ Goto("abandon")
  /\ UNCHANGED <<inputs, ctx, leaked, hist>>

\* The failed creation removes the directory; an error of that is swallowed.
MutRemoved(b) == IF b.pc = "abandon" THEN b.dir ELSE FALSE
Removed(b) == FALSE
RemoveCheckout ==
  /\ build.pc \in {"abandon", "cleanup"}
  /\ \/ /\ Succeeds
        /\ build' = [build EXCEPT !.pc = IF build.ok THEN "done" ELSE "failed", !.dir = Removed(build)]
        /\ UNCHANGED leaked
     \/ /\ Fails
        /\ build' = [build EXCEPT !.pc = "failed"]
        /\ leaked' = TRUE
  /\ UNCHANGED <<inputs, ctx, hist>>

-----------------------------------------------------------------------------
(* extractChangedFiles                                                     *)

EditOf(f, base) == IF base = "mergeBase" THEN repo[f].edit ELSE repo[f].since
StatusOf(f, base) ==
  IF repo[f].status = "same" /\ Touched(EditOf(f, base)) THEN "modified" ELSE repo[f].status

\* git is asked for the new path alone, and so shows a renamed file as new.
PatchOf(f, base) ==
  GitDiff(IF StatusOf(f, base) = "renamed" THEN AllAdded(EditOf(f, base)) ELSE EditOf(f, base), DiffContext)

\* readWorkspaceSource: a file whose content is null or empty has no lines.
Exists(f) == repo[f].status # "deleted"
LinesUpTo(f, maxBytes) == IF repo[f].text /\ Exists(f) /\ repo[f].size <= maxBytes
                          THEN HeadLine(repo[f].edit, Len(repo[f].edit)) ELSE 0
\* A changed file, as the diff reads it; any file, as the engine reads it later.
LinesOf(f) == LinesUpTo(f, MAX_CONTENT_BYTES)
SourceLines(f) == LinesUpTo(f, limits.maxSourceBytesPerFile)

ChangedFile(f, base) ==
  LET patch == PatchOf(f, base) IN
  [file |-> f, status |-> StatusOf(f, base), changedLines |-> ParseChangedLines(patch),
   additions |-> Additions(patch), deletions |-> Deletions(patch)]

\* filterReviewableFiles drops lock files, build output and generated code.
ChangedFiles(base) ==
  LET changed == Kept([f \in DOMAIN repo |-> f],
                      {f \in DOMAIN repo : StatusOf(f, base) # "same" /\ ~repo[f].skip})
  IN [i \in DOMAIN changed |-> ChangedFile(changed[i], base)]

MutDiffBase == "baseTip"
DiffBase == "mergeBase"

\* No merge base: the tip of the base branch stands in for it.
Diff ==
  /\ At("diff")
  /\ \/ Succeeds /\ Goto("parse") /\ ctx' = [ctx EXCEPT !.base = DiffBase, !.files = ChangedFiles(DiffBase)]
     \/ Fails /\ Goto("parse") /\ ctx' = [ctx EXCEPT !.base = "baseTip", !.files = ChangedFiles("baseTip")]
     \/ Fails /\ Goto("cleanup") /\ UNCHANGED ctx
  /\ UNCHANGED <<inputs, leaked, hist>>

-----------------------------------------------------------------------------
(* buildContextInWorkspace                                                 *)

Parse(f) == ParseSourceFile(f, repo[f].lang, repo[f].tree, limits.maxSymbolsPerFile)

\* parseFile: every parse counts, whatever comes of it; past the limit, none.
Budget(c) == c.parseCount < limits.maxParseFiles

ParseOne(c, changed) ==
  IF changed.status = "deleted" \/ LinesOf(changed.file) = 0 \/ ~Budget(c) THEN c
  ELSE LET counted == [c EXCEPT !.parseCount = @ + 1]
           p == Parse(changed.file)
       IN IF ~p.parsed THEN counted
          ELSE [counted EXCEPT !.parsed = Append(@, p),
                               !.symbols = @ \o ChangedSymbols(p, changed.changedLines)]

\* A grammar that cannot be loaded throws.
ParseChanged ==
  /\ At("parse")
  /\ \/ /\ Succeeds /\ Goto("walk")
        /\ ctx' = LET c == FoldLeft(ParseOne, ctx, ctx.files)
                  IN [c EXCEPT !.level = [depth |-> 1, files |-> c.parsed]]
     \/ Fails /\ Goto("cleanup") /\ UNCHANGED ctx
  /\ UNCHANGED <<inputs, leaked, hist>>

Listed(c) == {c.files[i].file : i \in DOMAIN c.files}
ParsedFiles(c) == {c.parsed[i].file : i \in DOMAIN c.parsed}
Dependencies(c) == {c.dependencies[i].file : i \in DOMAIN c.dependencies}

\* The file at a path of the head, 0 for null.
FileAt(path) ==
  IF \E f \in DOMAIN repo : repo[f].path = path /\ Exists(f)
  THEN CHOOSE f \in DOMAIN repo : repo[f].path = path /\ Exists(f) ELSE 0
Resolve(source, from) ==
  FileAt(ResolveImportPath(source, repo[from].path, {repo[f].path : f \in {g \in DOMAIN repo : Exists(g)}}))

\* One import: nothing for a file that is parsed or changed, or is no text; a
\* file that does not parse is tried, and counted, again by its next importer.
Import(acc, i) ==
  LET f == i.target
      c == [acc.c EXCEPT !.resolved = Append(@, i)]
      p == Parse(f)
  IN IF f = 0 \/ f \in ParsedFiles(c) \cup Dependencies(c) \cup Listed(c)
          \/ SourceLines(f) = 0 \/ ~Budget(c)
     THEN [acc EXCEPT !.c = c]
     ELSE LET counted == [c EXCEPT !.parseCount = @ + 1] IN
          IF ~p.parsed THEN [acc EXCEPT !.c = counted]
          ELSE [c |-> [counted EXCEPT !.dependencies =
                         Append(@, [file |-> f, depth |-> c.level.depth, parsed |-> p])],
                next |-> Append(acc.next, p)]

ImportsOf(p) ==
  [i \in DOMAIN p.imports |-> [file |-> p.file, target |-> Resolve(p.imports[i], p.file)]]

\* One job of the breadth-first search.  Here, too, a grammar may not load.
WalkLevel ==
  /\ At("walk") /\ ctx.level.files # <<>> /\ ctx.level.depth <= limits.maxDependencyDepth
  /\ LET imports == FlattenSeq([i \in DOMAIN ctx.level.files |-> ImportsOf(ctx.level.files[i])])
         acc == FoldLeft(Import, [c |-> ctx, next |-> <<>>], imports)
     IN \/ /\ Succeeds /\ UNCHANGED build
           /\ ctx' = [acc.c EXCEPT !.level = [depth |-> ctx.level.depth + 1,
                                              files |-> Sorted(acc.next, ByFile(acc.next))]]
        \/ Fails /\ Goto("cleanup") /\ UNCHANGED ctx
  /\ UNCHANGED <<inputs, leaked, hist>>

\* What was parsed: the changed files, then the dependencies.
AllParsed == ctx.parsed \o [i \in DOMAIN ctx.dependencies |-> ctx.dependencies[i].parsed]

\* The graph, and the symbols and source worth showing.
Relate ==
  /\ At("walk") /\ (ctx.level.files = <<>> \/ ctx.level.depth > limits.maxDependencyDepth)
  /\ Goto("history")
  /\ LET deps == ctx.dependencies
         graph == BuildCodeGraph(AllParsed, ctx.resolved, MaxCalls, limits)
     IN ctx' = [ctx EXCEPT !.graph = graph,
                  !.source = CollectRelevantContext(ctx.symbols, graph, deps,
                                                    [f \in DOMAIN repo |-> SourceLines(f)], limits)]
  /\ hist' = StartHistory(Listed(ctx), limits)
  /\ UNCHANGED <<inputs, leaked, faults>>

\* A request that fails costs its answer and nothing else.
History ==
  /\ At("history") /\ hist.pc # "done"
  /\ \/ Succeeds /\ HistoryStep(limits, FALSE)
     \/ Fails /\ HistoryStep(limits, TRUE)
  /\ UNCHANGED <<inputs, build, ctx, leaked>>

Finish ==
  /\ At("history") /\ hist.pc = "done"
  /\ build' = [build EXCEPT !.pc = "cleanup", !.ok = TRUE]
  /\ UNCHANGED <<inputs, ctx, leaked, faults, hist>>

Next ==
  \/ MakeDirectory \/ Fetch \/ FetchRef \/ Checkout \/ RemoveCheckout
  \/ Diff \/ ParseChanged \/ WalkLevel \/ Relate \/ History \/ Finish

Spec == Init /\ [][Next]_vars

-----------------------------------------------------------------------------
(* Properties.                                                             *)

\* The checkout is there as long as the build reads it, and gone afterwards on
\* every path, unless its removal is what failed (workspace.ts: "callers must
\* always cleanup() in a finally block").
CheckoutRemoved ==
  /\ build.pc \in {"fetch", "fetchRef", "checkout", "diff", "parse", "walk", "history"} => build.dir
  /\ build.pc \in {"done", "failed"} /\ build.dir => leaked
  /\ leaked => build.pc = "failed"

Built == At("cleanup") /\ build.ok

\* An edit without a line that reads like the header of a file.
Unmistakable(edit) == \A i \in DOMAIN edit : edit[i] \notin HeaderLike

\* The files are those the pull request changed, whatever the base branch got in
\* the meantime, and the changed symbols those with a line in a hunk: none that
\* was edited is missed, none is named for lines that moved.
ChangesAreThePrs ==
  Built /\ faults = 0 =>
    /\ Listed(ctx) = {f \in DOMAIN repo : repo[f].status # "same" /\ ~repo[f].skip}
    /\ \A p \in ToSet(ctx.parsed) :
         LET edit == repo[p.file].edit IN
         repo[p.file].status # "renamed" /\ Unmistakable(edit) =>
           \A s \in ToSet(p.symbols) :
             s \in ToSet(ctx.symbols) <=>
               \E i \in DOMAIN edit : /\ InHead(edit[i]) /\ Shown(edit, DiffContext, i)
                                      /\ HeadLine(edit, i) \in s.first .. s.last

\* The file a specifier means; for bare names and those Plain leaves out, what
\* the engine makes of it.
Means(source, from) ==
  LET at == repo[from].path
      ends == IF IsPython(at) THEN {<<".py">>, <<"__init__", ".py">>}
              ELSE {<<e>> : e \in ToSet(TS_EXTENSIONS)} \cup {<<"index", e>> : e \in ToSet(TS_EXTENSIONS)}
      meant == {f \in DOMAIN repo : Exists(f) /\ \E e \in ends : repo[f].path = Meant(source, at) \o e}
  IN IF Dots(source) = 0 \/ ~Plain(source) THEN {Resolve(source, from)} \ {0} ELSE meant

Usable(f) == f \notin Listed(ctx) /\ SourceLines(f) > 0 /\ Parse(f).parsed
Imported(f) == {g \in UNION {Means(i, f) : i \in ToSet(Parse(f).imports)} : Usable(g)}

\* The parsed files and those a chain of at most n imports leads to from them.
Within[n \in Nat] == IF n = 0 THEN ParsedFiles(ctx)
                     ELSE Within[n - 1] \cup UNION {Imported(f) : f \in Within[n - 1]}

\* A relative import means one file at most: a directory with both a b.ts and a
\* b/index.ts leaves the choice to the order of the candidates.
Clear(source, from) ==
  Dots(source) > 0 /\ Plain(source) =>
    /\ IsPython(repo[from].path) \/ Dots(source) <= 2
    /\ \A g, h \in Means(source, from) : g = h
Unambiguous ==
  \A f \in DOMAIN repo : Parse(f).parsed => \A source \in ToSet(Parse(f).imports) : Clear(source, f)

\* Unless the budget of parses ran out, the dependencies are the readable files
\* that a chain of at most maxDependencyDepth imports leads to, each at the
\* length of the shortest.
DependenciesNearest ==
  Built /\ Budget(ctx) /\ Unambiguous =>
    {<<d.file, d.depth>> : d \in ToSet(ctx.dependencies)} =
      UNION {(Within[n] \ Within[n - 1]) \X {n} : n \in 1 .. limits.maxDependencyDepth}

\* What the agents are shown: every symbol once, changed ones first, then their
\* callers, then dependencies.
Place(relevance) == CHOOSE n \in DOMAIN Relevances : Relevances[n] = relevance
InOrder ==
  LET shown == ctx.source.symbols IN
  \A i, j \in DOMAIN shown :
    i < j => Place(shown[i].relevance) <= Place(shown[j].relevance) /\ shown[i].id # shown[j].id

\* A changed symbol is left out only for others that changed.
ChangedShown ==
  LET shown == ctx.source.symbols
      first == {i \in DOMAIN shown : shown[i].relevance = "changed"}
  IN \/ {Id(s) : s \in ToSet(ctx.symbols)} = {shown[i].id : i \in first}
     \/ Cardinality(first) = limits.maxRelevantSymbols
     \/ Cardinality({shown[i].id.file : i \in first}) = limits.maxRelevantFiles

\* No limit was met, and no file has two symbols of one kind and name.
Room ==
  /\ Len(ctx.source.symbols) < limits.maxRelevantSymbols
  /\ Cardinality(ctx.source.files) < limits.maxRelevantFiles
  /\ Len(ctx.graph.nodes) < limits.maxNodes /\ Len(ctx.graph.edges) < limits.maxEdges
  /\ \A p \in ToSet(AllParsed) :
       /\ Len(p.calls) <= MaxCalls
       /\ \A i, j \in DOMAIN p.symbols : Id(p.symbols[i]) = Id(p.symbols[j]) => i = j

\* While there is room, a caller of a changed symbol is shown, if no other symbol
\* has the name of either.
Symbols == UNION {ToSet(p.symbols) : p \in ToSet(AllParsed)}
Sole(s) == \A r \in Symbols : r.name = s.name => r = s
Calls(s, r) == \E p \in ToSet(AllParsed) : \E c \in ToSet(p.calls) :
                 c.caller.name = s.name /\ c.callee.name = r.name
CallersShown ==
  Room => \A s, r \in Symbols :
    /\ Id(r) \in {Id(x) : x \in ToSet(ctx.symbols)} /\ s # r
    /\ Sole(s) /\ Sole(r) /\ Calls(s, r)
    => \E t \in ToSet(ctx.source.symbols) : t.id = Id(s) /\ t.relevance \in {"changed", "caller"}

RelevantFirst == Built => InOrder /\ ChangedShown /\ CallersShown

\* Every phase stops at its limit (limits.ts), the history at its budget of
\* answers but one, and the pull request under review is not its own history.
WithinBudgets ==
  /\ hist.apiCalls <= MAX_API_CALLS + 1
  /\ Cardinality(hist.knownPrs) <= limits.maxHistoryItems /\ PrNumber \notin hist.knownPrs
  /\ Comments(hist.items) <= limits.maxHistoryComments
  /\ Built =>
       /\ ctx.parseCount <= limits.maxParseFiles
       /\ Len(ctx.graph.nodes) <= limits.maxNodes /\ Len(ctx.graph.edges) <= limits.maxEdges
       /\ Len(ctx.source.symbols) <= limits.maxRelevantSymbols
       /\ Cardinality(ctx.source.files) <= limits.maxRelevantFiles
       /\ \A s \in ToSet(ctx.source.symbols) :
            s.source # NoSlice => s.source[2] - s.source[1] < limits.maxSourceLinesPerSymbol
       /\ \A i, j \in DOMAIN hist.items :
            hist.items[i].type = "pull_request" /\ hist.items[j].type = "pull_request" /\ i # j =>
              hist.items[i].pr # hist.items[j].pr
=============================================================================
