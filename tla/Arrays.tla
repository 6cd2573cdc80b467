------------------------------- MODULE Arrays -------------------------------
(***************************************************************************)
(* Array.prototype.filter and sort, as functions and folds that provers    *)
(* unfold: filter with a set for its predicate, sort with a relation for   *)
(* its comparison and stable, as it is specified.                          *)
(***************************************************************************)
EXTENDS Naturals, Sequences, SequencesExt, FiniteSets

\* The elements of s that are in S, in their order.
Kept(s, S) ==
  LET kept[n \in 0 .. Len(s)] ==
        IF n = 0 THEN <<>>
        ELSE IF s[n] \in S THEN Append(kept[n - 1], s[n]) ELSE kept[n - 1]
  IN kept[Len(s)]

\* x at its place in t: behind the elements it does not come before.
Insert(t, x, R) == InsertAt(t, Cardinality({i \in DOMAIN t : <<x, t[i]>> \notin R}) + 1, x)

\* R has the pairs of elements of which the first comes before the second.
Sorted(s, R) == FoldLeft(LAMBDA t, x : Insert(t, x, R), <<>>, s)
=============================================================================
