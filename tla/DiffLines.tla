----------------------------- MODULE DiffLines ------------------------------
(***************************************************************************)
(* From a unified diff to the lines and symbols it touches (diff.ts,       *)
(* symbols.ts) and back to source text (source.ts).                        *)
(*                                                                         *)
(* A line of a patch is [kind, at]: its first character, "@@" with the     *)
(* line of the head file it starts at, or "header".  A removed line whose  *)
(* text starts with "--", or an added one with "++", looks like the header *)
(* of a file: "---", "+++".                                                *)
(***************************************************************************)
EXTENDS Arrays

L(kind) == [kind |-> kind, at |-> 0]

HeaderLike == {"header", "---", "+++"}

\* parseChangedLines.  A context line counts as changed like an added one.
PatchLine(acc, line) ==
  CASE line.kind \in HeaderLike \cup {"other"} -> [acc EXCEPT !.inHunk = FALSE]
    [] line.kind = "@@" -> [acc EXCEPT !.inHunk = TRUE, !.newLine = line.at]
    [] line.kind \in {"+", " "} /\ acc.inHunk ->
         [acc EXCEPT !.newLine = @ + 1,
                     !.changed = IF acc.newLine > 0 THEN Append(@, acc.newLine) ELSE @]
    [] OTHER -> acc

ParseChangedLines(patch) ==
  FoldLeft(PatchLine, [inHunk |-> FALSE, newLine |-> 0, changed |-> <<>>], patch).changed

\* countAdditionsAndDeletions
Additions(patch) == Len(SelectSeq(patch, LAMBDA l : l.kind = "+"))
Deletions(patch) == Len(SelectSeq(patch, LAMBDA l : l.kind = "-"))

\* linesIntersectRange: a binary search, the lines are in ascending order.
LinesIntersectRange(lines, first, last) ==
  LET search[range \in (1 .. Len(lines) + 1) \X (0 .. Len(lines))] ==
        LET lo == range[1]
            hi == range[2]
            mid == (lo + hi) \div 2
        IN IF lo > hi THEN FALSE
           ELSE IF lines[mid] < first THEN search[<<mid + 1, hi>>]
           ELSE IF lines[mid] > last THEN search[<<lo, mid - 1>>] ELSE TRUE
  IN search[<<1, Len(lines)>>]

ChangedSymbols(parsed, changedLines) ==
  Kept(parsed.symbols, {s \in ToSet(parsed.symbols) : LinesIntersectRange(changedLines, s.first, s.last)})

\* sliceSourceLines: the lines of the file the slice consists of, NoSlice for null.
NoSlice == <<0, 0>>
SliceSourceLines(total, first, last, maxLines) ==
  LET from == IF first < total THEN first ELSE total
      to == IF last < total THEN last ELSE total
  IN IF first < 1 \/ last < first \/ to - from + 1 > maxLines THEN NoSlice ELSE <<from, to>>

-----------------------------------------------------------------------------
(* git diff (external).  An edit lists what becomes of the lines of a file *)
(* in order: " " kept, "-" or "---" removed, "+" or "+++" added.           *)

HeadOps == {" ", "+", "+++"}
Ops == HeadOps \cup {"-", "---"}
InHead(op) == op \in HeadOps
HeadLine(edit, i) == Len(Kept(SubSeq(edit, 1, i), HeadOps))
Touched(edit) == \E i \in DOMAIN edit : edit[i] # " "

\* Lines at most `context' away from a change, in hunks of adjacent lines.
Shown(edit, context, i) ==
  \E j \in DOMAIN edit : edit[j] # " " /\ i <= j + context /\ j <= i + context

\* Of line i: nothing, the line, or the line as the first one of its hunk.  A hunk
\* without a line of the head file starts at the line before it.
DiffLine(edit, context, i) ==
  LET before == HeadLine(edit, i - 1)
      any == \E j \in i .. Len(edit) : InHead(edit[j]) /\ \A k \in i .. j : Shown(edit, context, k)
  IN IF ~Shown(edit, context, i) THEN <<>>
     ELSE IF i > 1 /\ Shown(edit, context, i - 1) THEN <<L(edit[i])>>
     ELSE <<[kind |-> "@@", at |-> IF any THEN before + 1 ELSE before], L(edit[i])>>

GitDiff(edit, context) ==
  <<L("header"), L("header"), L("header")>> \o
  FlattenSeq([i \in DOMAIN edit |-> DiffLine(edit, context, i)]) \o <<L("other")>>

\* The diff of a file git sees as new: all of its lines.
AllAdded(edit) == [i \in 1 .. HeadLine(edit, Len(edit)) |-> "+"]
=============================================================================
