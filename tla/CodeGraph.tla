----------------------------- MODULE CodeGraph ------------------------------
(***************************************************************************)
(* The in-memory graph over the parsed files (graph.ts) and the symbols    *)
(* worth showing to the agents (relevant.ts).                              *)
(*                                                                         *)
(* Files are numbered in the order of their paths.  A node's id is its     *)
(* kind, file and name; "file" nodes have no name.                         *)
(***************************************************************************)
EXTENDS SyntaxTree, DiffLines

Id(s) == [kind |-> s.kind, file |-> s.file, name |-> s.name]
FileId(file) == [kind |-> "file", file |-> file, name |-> ""]
Null == FileId(0)

EmptyGraph == [nodes |-> <<>>, edges |-> <<>>]

Has(g, id) == \E n \in DOMAIN g.nodes : g.nodes[n].id = id

CanAddNode(g, id, limits) == ~Has(g, id) /\ Len(g.nodes) < limits.maxNodes
AddNode(g, id, first, last, limits) ==
  IF CanAddNode(g, id, limits)
  THEN [g EXCEPT !.nodes = Append(@, [id |-> id, first |-> first, last |-> last])] ELSE g
AddFile(g, file, limits) == AddNode(g, FileId(file), 0, 0, limits)

AddEdge(g, source, target, type, limits) ==
  LET edge == [source |-> source, target |-> target, type |-> type] IN
  IF Has(g, source) /\ Has(g, target) /\ Len(g.edges) < limits.maxEdges /\ edge \notin ToSet(g.edges)
  THEN [g EXCEPT !.edges = Append(@, edge)] ELSE g

\* The symbols of a file up to the first that cannot be added: at the limit of
\* nodes, and at a second symbol of one kind and name, which ends the file too.
AddSymbol(acc, s, limits) ==
  IF acc.stop \/ ~CanAddNode(acc.graph, Id(s), limits) THEN [acc EXCEPT !.stop = TRUE]
  ELSE LET g1 == AddNode(acc.graph, Id(s), s.first, s.last, limits)
           g2 == AddEdge(g1, FileId(s.file), Id(s), "FILE_CONTAINS_SYMBOL", limits)
       IN [acc EXCEPT !.graph = IF s.exported
             THEN AddEdge(g2, FileId(s.file), Id(s), "FILE_EXPORTS_SYMBOL", limits) ELSE g2]
AddSymbols(g, parsed, limits) ==
  FoldLeft(LAMBDA acc, s : AddSymbol(acc, s, limits),
           [graph |-> AddFile(g, parsed.file, limits), stop |-> FALSE], parsed.symbols).graph

NodesOf(g, kind) == Kept(g.nodes, {n \in ToSet(g.nodes) : n.id.kind = kind})

\* Pairs of a class and a method inside it, class by class.
Members(g) ==
  LET classes == NodesOf(g, "class")
      inside(c) == Kept(NodesOf(g, "method"), {m \in ToSet(g.nodes) :
                     m.id.file = c.id.file /\ m.first >= c.first /\ m.last <= c.last})
  IN FlattenSeq([i \in DOMAIN classes |->
       [j \in DOMAIN inside(classes[i]) |-> <<classes[i].id, inside(classes[i])[j].id>>]])

AddMembers(g, limits) ==
  FoldLeft(LAMBDA acc, p : AddEdge(acc, p[1], p[2], "CLASS_CONTAINS_METHOD", limits), g, Members(g))

AddImport(g, i, limits) ==
  IF i.target = 0 THEN g
  ELSE AddEdge(AddFile(AddFile(g, i.file, limits), i.target, limits),
               FileId(i.file), FileId(i.target), "FILE_IMPORTS_FILE", limits)
AddImports(g, resolved, limits) == FoldLeft(LAMBDA acc, i : AddImport(acc, i, limits), g, resolved)

\* lookupSymbol: Class.method first, then any symbol of the name, the caller's
\* own file first.  Behind a dot the file does not count.
LookupSymbol(g, name, file) ==
  LET member == Kept(Members(g), {p \in ToSet(Members(g)) :
                  name.of # "" /\ p[1].name = name.of /\ p[2].name = name.name})
      named == Kept(g.nodes, {n \in ToSet(g.nodes) : n.id.kind # "file" /\ n.id.name = name.name})
      own == Kept(named, {n \in ToSet(named) : name.of = "" /\ n.id.file = file})
  IN IF member # <<>> THEN member[1][2]
     ELSE IF named = <<>> THEN Null
     ELSE IF own # <<>> THEN own[1].id ELSE named[1].id

AddCall(acc, c, g, file, limits) ==
  LET caller == IF c.caller = NoName THEN Null ELSE LookupSymbol(g, c.caller, file)
      callee == LookupSymbol(g, c.callee, file)
  IN IF caller # Null /\ callee # Null /\ caller # callee
     THEN AddEdge(acc, caller, callee, "FUNCTION_CALLS_FUNCTION", limits) ELSE acc
AddCalls(g, parsed, maxCalls, limits) ==
  FoldLeft(LAMBDA acc, c : AddCall(acc, c, g, parsed.file, limits), g,
           SubSeq(parsed.calls, 1, Min({maxCalls, Len(parsed.calls)})))

ByFile(parsed) == {p \in ToSet(parsed) \X ToSet(parsed) : p[1].file < p[2].file}

BuildCodeGraph(parsedFiles, resolved, maxCalls, limits) ==
  LET ordered == Sorted(parsedFiles, ByFile(parsedFiles))
      withSymbols == FoldLeft(LAMBDA g, p : AddSymbols(g, p, limits), EmptyGraph, ordered)
      linked == AddImports(AddMembers(withSymbols, limits), resolved, limits)
  IN FoldLeft(LAMBDA g, p : AddCalls(g, p, maxCalls, limits), linked, ordered)

-----------------------------------------------------------------------------
(* collectRelevantContext                                                  *)

Relevances == <<"changed", "caller", "direct-dependency", "secondary-dependency">>
MutPriority(relevance) == IF relevance = "direct-dependency" THEN 0 ELSE
  CHOOSE n \in DOMAIN Relevances : Relevances[n] = relevance
Priority(relevance) == CHOOSE n \in DOMAIN Relevances : Relevances[n] = relevance

Candidate(relevance, s) ==
  [relevance |-> relevance, id |-> Id(s), first |-> s.first, last |-> s.last]

\* The callers of changed symbols in the order of the edges, and theirs.
Callers(g, changedIds, limits) ==
  LET into(ids) == Kept(g.edges, {e \in ToSet(g.edges) :
                                   e.type = "FUNCTION_CALLS_FUNCTION" /\ e.target \in ids})
      of(e) == <<e.source>> \o
               IF limits.maxTraversalDepth > 1
               THEN [i \in DOMAIN into({e.source}) |-> into({e.source})[i].source] ELSE <<>>
      direct == into(changedIds)
  IN FlattenSeq([i \in DOMAIN direct |-> of(direct[i])])

\* Exported symbols of the dependencies.  Methods of a class count only if they
\* are exported themselves, which in Python they never are.
DependencyCandidates(dependencies) ==
  LET of(dep) ==
        LET relevance == IF dep.depth <= 1 THEN "direct-dependency" ELSE "secondary-dependency"
            exported == Kept(dep.parsed.symbols, {s \in ToSet(dep.parsed.symbols) : s.exported})
        IN [i \in DOMAIN exported |-> Candidate(relevance, exported[i])]
  IN FlattenSeq([i \in DOMAIN dependencies |-> of(dependencies[i])])

\* The first of each id.
Distinct(candidates) ==
  LET first == Kept([i \in DOMAIN candidates |-> i], {i \in DOMAIN candidates :
                 \A j \in 1 .. i - 1 : candidates[j].id # candidates[i].id})
  IN [n \in DOMAIN first |-> candidates[first[n]]]

Before(a, b) ==
  \/ Priority(a.relevance) < Priority(b.relevance)
  \/ /\ a.relevance = b.relevance
     /\ a.id.file < b.id.file \/ (a.id.file = b.id.file /\ a.first < b.first)

Ranked(changed, g, dependencies, limits) ==
  LET node(id) == CHOOSE n \in ToSet(g.nodes) : n.id = id
      callers == Callers(g, {Id(s) : s \in ToSet(changed)}, limits)
      candidates == Distinct(
       [i \in DOMAIN changed |-> Candidate("changed", changed[i])] \o
       [i \in DOMAIN callers |-> [relevance |-> "caller", id |-> callers[i],
                                  first |-> node(callers[i]).first, last |-> node(callers[i]).last]] \o
       DependencyCandidates(dependencies))
  IN Sorted(candidates, {p \in ToSet(candidates) \X ToSet(candidates) : Before(p[1], p[2])})

\* Source is taken file by file: lines[f] is the length of a file, 0 if it cannot
\* be read, and then its first symbol has none and the others that of an empty file.
Take(acc, c, lines, limits) ==
  IF \/ Len(acc.symbols) >= limits.maxRelevantSymbols
     \/ c.id.file \notin acc.files /\ Cardinality(acc.files) >= limits.maxRelevantFiles THEN acc
  ELSE LET source == IF lines[c.id.file] > 0
                     THEN SliceSourceLines(lines[c.id.file], c.first, c.last, limits.maxSourceLinesPerSymbol)
                     ELSE IF c.id.file \in acc.files
                     THEN SliceSourceLines(1, c.first, c.last, limits.maxSourceLinesPerSymbol) ELSE NoSlice
       IN [symbols |-> Append(acc.symbols, [relevance |-> c.relevance, id |-> c.id, first |-> c.first,
                                            last |-> c.last, source |-> source]),
           files |-> acc.files \cup {c.id.file}]

CollectRelevantContext(changed, g, dependencies, lines, limits) ==
  FoldLeft(LAMBDA acc, c : Take(acc, c, lines, limits), [symbols |-> <<>>, files |-> {}],
           Ranked(changed, g, dependencies, limits))
=============================================================================
