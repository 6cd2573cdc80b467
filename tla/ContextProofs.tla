---------------------------- MODULE ContextProofs ---------------------------
(***************************************************************************)
(* The temporary checkout is gone after every build, whatever fails and    *)
(* however often.  What is built keeps to the limits (limits.ts) and so    *)
(* does the history: each phase of the build folds over a sequence, and    *)
(* each element that it takes keeps its part of the context within them.   *)
(* Nothing is told twice and no edge dangles; the changes are those of the *)
(* pull request, each dependency is at its least depth, and what is shown  *)
(* comes in its order with the callers of what changed.                    *)
(***************************************************************************)
EXTENDS ContextEngine, SequenceFacts, FiniteSetTheorems, TLAPS

Working == {"fetch", "fetchRef", "checkout", "diff", "parse", "walk", "history"}

CheckoutInv ==
  /\ DOMAIN build = {"pc", "ok", "dir"}
  /\ build.pc \in Working => build.dir
  /\ build.pc \in {"init", "done"} => ~leaked /\ ~build.dir
  /\ build.pc \in Working \cup {"abandon", "cleanup"} => ~leaked
  /\ build.pc = "failed" /\ build.dir => leaked
  /\ build.pc \in {"init", "abandon", "cleanup", "done", "failed"} \cup Working
  /\ build.dir \in BOOLEAN

LEMMA CheckoutInit == Init => CheckoutInv
BY DEF Init, CheckoutInv, Working

\* A step from one phase of the build to another one.
LEMMA PhaseKeeps ==
  ASSUME CheckoutInv, build.pc \in Working, NEW pc \in Working \cup {"abandon", "cleanup"},
         build' = [build EXCEPT !.pc = pc], UNCHANGED leaked
  PROVE  CheckoutInv'
BY DEF CheckoutInv, Working

LEMMA CheckoutNext ==
  ASSUME CheckoutInv, [Next]_vars
  PROVE  CheckoutInv'
<1>1. CASE MakeDirectory
  BY <1>1 DEF MakeDirectory, At, CheckoutInv, Working
<1>2. CASE Fetch \/ FetchRef
  BY <1>2, PhaseKeeps DEF Fetch, FetchRef, At, Goto, Working
<1>3. CASE Checkout
  BY <1>3, PhaseKeeps DEF Checkout, At, Goto, Working
<1>4. CASE RemoveCheckout
  <2> DEFINE end == IF build.ok THEN "done" ELSE "failed"
  <2>1. CASE build' = [build EXCEPT !.pc = end, !.dir = FALSE] /\ UNCHANGED leaked
    <3>1. end \in {"done", "failed"}
      OBVIOUS
    <3> HIDE DEF end
    <3> QED
      BY <1>4, <2>1, <3>1 DEF RemoveCheckout, CheckoutInv, Working
  <2>2. CASE build' = [build EXCEPT !.pc = "failed"] /\ leaked' = TRUE
    BY <2>2 DEF CheckoutInv, Working
  <2> QED
    BY <1>4, <2>1, <2>2 DEF RemoveCheckout, Removed
<1>5. CASE Diff
  BY <1>5, PhaseKeeps DEF Diff, At, Goto, Working
<1>6. CASE ParseChanged
  BY <1>6, PhaseKeeps DEF ParseChanged, At, Goto, Working
<1>7. CASE Relate
  BY <1>7, PhaseKeeps DEF Relate, At, Goto, Working
<1>8. CASE Finish
  BY <1>8 DEF Finish, At, CheckoutInv, Working
<1>9. CASE WalkLevel
  <2>1. At("walk") /\ leaked' = leaked /\ (build' = build \/ Goto("cleanup"))
    BY <1>9, Zenon DEF WalkLevel
  <2>2. CASE Goto("cleanup")
    BY <2>1, <2>2, PhaseKeeps DEF At, Goto, Working
  <2>3. CASE build' = build
    BY <2>1, <2>3 DEF CheckoutInv
  <2> QED
    BY <2>1, <2>2, <2>3
<1>10. CASE History \/ UNCHANGED vars
  <2>1. UNCHANGED <<build, leaked>>
    BY <1>10 DEF History, vars
  <2> QED
    BY <2>1 DEF CheckoutInv
<1> QED
  BY <1>1, <1>2, <1>3, <1>4, <1>5, <1>6, <1>7, <1>8, <1>9, <1>10 DEF Next

\* A level of the walk leaves the build where it is, or fails.
LEMMA WalkOutcome ==
  ASSUME CheckoutInv, WalkLevel, build.ok => build.pc \in {"cleanup", "done", "failed"}
  PROVE  /\ build.pc = "walk" /\ ~build.ok /\ build'.ok = build.ok /\ UNCHANGED inputs
         /\ \/ build' = build /\ faults' = faults
            \/ build'.pc = "cleanup" /\ ctx' = ctx /\ faults' = faults + 1
<1>1. /\ At("walk") /\ UNCHANGED inputs
      /\ \/ build' = build /\ faults' = faults
         \/ Goto("cleanup") /\ ctx' = ctx /\ faults' = faults + 1
  BY Zenon DEF WalkLevel, Succeeds, Fails
<1>2. DOMAIN build = {"pc", "ok", "dir"} /\ build.pc = "walk" /\ ~build.ok
  BY <1>1 DEF CheckoutInv, At, Working
<1> QED
  BY <1>1, <1>2 DEF Goto

\* The checkout is there while it is read and removed on every way out of the
\* build, unless the removal itself fails (workspace.ts:54).
THEOREM CheckoutAlwaysRemoved == Spec => []CheckoutRemoved
<1>1. Spec => []CheckoutInv
  BY CheckoutInit, CheckoutNext, PTL DEF Spec
<1>2. CheckoutInv => CheckoutRemoved
  BY DEF CheckoutInv, CheckoutRemoved, Working
<1> QED
  BY <1>1, <1>2, PTL

-----------------------------------------------------------------------------
(***************************************************************************)
(* Sorting permutes: each element that is inserted adds its index to a     *)
(* permutation of those before it.                                         *)
(***************************************************************************)
\* g permutes the first n naturals.
IsPermutation(g, n) ==
  /\ g \in [1 .. n -> 1 .. n]
  /\ \A i, j \in 1 .. n : g[i] = g[j] => i = j
  /\ \A m \in 1 .. n : \E i \in 1 .. n : g[i] = m

\* The permutation g of n with n + 1 in front of its place k.
Widened(g, n, k) == [i \in 1 .. n + 1 |-> IF i < k THEN g[i] ELSE IF i = k THEN n + 1 ELSE g[i - 1]]

\* One more element at place k of a permutation.
LEMMA WidenedPermutes ==
  ASSUME NEW n \in Nat, NEW g, IsPermutation(g, n), NEW k \in 1 .. n + 1
  PROVE  IsPermutation(Widened(g, n, k), n + 1)
<1> DEFINE h == Widened(g, n, k)
           back(i) == IF i < k THEN i ELSE i - 1
<1>1. ASSUME NEW i \in 1 .. n + 1, i # k PROVE back(i) \in 1 .. n /\ h[i] = g[back(i)]
  <2>1. back(i) \in 1 .. n
    BY <1>1
  <2> QED
    BY <1>1, <2>1 DEF Widened
<1>2. h[k] = n + 1
  BY DEF Widened
<1>3. \A i \in 1 .. n : g[i] \in 1 .. n /\ g[i] # n + 1
  BY DEF IsPermutation
<1>4. DOMAIN h = 1 .. n + 1 /\ h = [i \in 1 .. n + 1 |-> h[i]]
  BY DEF Widened
<1>5. \A i \in 1 .. n + 1 : h[i] \in 1 .. n + 1
  <2> TAKE i \in 1 .. n + 1
  <2>1. CASE i = k
    BY <1>2, <2>1
  <2>2. CASE i # k
    <3> HIDE DEF h, back
    <3>1. h[i] \in 1 .. n
      BY <1>1, <1>3, <2>2
    <3> QED
      BY <3>1
  <2> QED
    BY <2>1, <2>2
<1>6. h \in [1 .. n + 1 -> 1 .. n + 1]
  <2> HIDE DEF h
  <2> QED
    BY <1>4, <1>5
<1>7. ASSUME NEW i \in 1 .. n + 1, NEW j \in 1 .. n + 1, h[i] = h[j] PROVE i = j
  <2>1. CASE i = k \/ j = k
    <3> HIDE DEF h, back
    <3> QED
      BY <1>1, <1>2, <1>3, <1>7, <2>1
  <2>2. CASE i # k /\ j # k
    <3>1. g[back(i)] = g[back(j)] /\ back(i) \in 1 .. n /\ back(j) \in 1 .. n
      <4> HIDE DEF h, back
      <4> QED
        BY <1>1, <1>7, <2>2
    <3>2. back(i) = back(j)
      <4> HIDE DEF back
      <4> QED
        BY <3>1 DEF IsPermutation
    <3> QED
      BY <2>2, <3>2
  <2> QED
    BY <2>1, <2>2
<1>8. ASSUME NEW m \in 1 .. n + 1 PROVE \E i \in 1 .. n + 1 : h[i] = m
  <2>1. CASE m = n + 1
    BY <1>2, <2>1
  <2>2. CASE m # n + 1
    <3>1. m \in 1 .. n
      BY <2>2
    <3>2. PICK i \in 1 .. n : g[i] = m
      BY <3>1 DEF IsPermutation
    <3> DEFINE j == IF i < k THEN i ELSE i + 1
    <3>3. j \in 1 .. n + 1 /\ j # k /\ back(j) = i
      OBVIOUS
    <3> HIDE DEF j, h, back
    <3> QED
      BY <1>1, <3>2, <3>3
  <2> QED
    BY <2>1, <2>2
<1> HIDE DEF h
<1> QED
  BY <1>6, <1>7, <1>8 DEF IsPermutation, h

\* After n elements t is a permutation of them.
InsertOp(p, t, x) == Insert(t, x, p.order)
SortGood(p, n, t) == \E g : IsPermutation(g, n) /\ t = [i \in 1 .. n |-> p.of[g[i]]]
Sort == INSTANCE FoldFacts WITH Op <- InsertOp, Good <- SortGood

\* The fold that sorts: what is inserted next permutes one element more.
LEMMA InsertWidens ==
  ASSUME NEW S, NEW s \in Seq(S), NEW R, NEW n \in 1 .. Len(s), NEW t,
         SortGood([of |-> s, order |-> R], n - 1, t)
  PROVE  SortGood([of |-> s, order |-> R], n, Insert(t, s[n], R))
<1>1. PICK g : IsPermutation(g, n - 1) /\ t = [i \in 1 .. n - 1 |-> s[g[i]]]
  BY DEF SortGood
<1>2. n - 1 \in Nat /\ n = (n - 1) + 1 /\ Len(s) \in Nat
  OBVIOUS
<1>3. t \in Seq(S) /\ Len(t) = n - 1
  <2>1. \A i \in 1 .. n - 1 : g[i] \in 1 .. n - 1
    BY <1>1 DEF IsPermutation
  <2>2. \A i \in 1 .. n - 1 : s[g[i]] \in S
    BY <1>2, <2>1
  <2>3. t \in [1 .. n - 1 -> S]
    BY <1>1, <2>2
  <2> QED
    BY <1>2, <2>3
<1> DEFINE behind == {i \in DOMAIN t : <<s[n], t[i]>> \notin R}
<1>0. PICK k : k = Cardinality(behind) + 1
  OBVIOUS
<1>4. k \in 1 .. (n - 1) + 1
  <2>1. IsFiniteSet(1 .. n - 1) /\ Cardinality(1 .. n - 1) = n - 1
    BY <1>2, FS_Interval
  <2>2. behind \subseteq 1 .. n - 1
    BY <1>3
  <2>3. Cardinality(behind) \in Nat /\ Cardinality(behind) <= n - 1
    BY <2>1, <2>2, FS_Subset, FS_CardinalityType
  <2> QED
    BY <1>0, <1>2, <2>3
<1>5. Insert(t, s[n], R) = InsertAt(t, k, s[n])
  BY <1>0 DEF Insert
<1> HIDE DEF behind
<1>6. PICK u : u = Insert(t, s[n], R)
  OBVIOUS
<1>7. /\ u \in Seq(S) /\ Len(u) = n
      /\ \A i \in 1 .. n : u[i] = IF i < k THEN t[i] ELSE IF i = k THEN s[n] ELSE t[i - 1]
  <2>1. s[n] \in S
    OBVIOUS
  <2>2. k \in 1 .. Len(t) + 1 /\ Len(t) + 1 = n
    BY <1>2, <1>3, <1>4
  <2>3. /\ InsertAt(t, k, s[n]) \in Seq(S) /\ Len(InsertAt(t, k, s[n])) = Len(t) + 1
        /\ \A i \in 1 .. Len(t) + 1 :
             InsertAt(t, k, s[n])[i] = IF i < k THEN t[i] ELSE IF i = k THEN s[n] ELSE t[i - 1]
    <3>1. t \in Seq(S) /\ k \in 1 .. Len(t) + 1 /\ s[n] \in S
      BY <1>3, <2>1, <2>2
    <3>2. PICK x : x = s[n]
      OBVIOUS
    <3>3. /\ InsertAt(t, k, x) \in Seq(S) /\ Len(InsertAt(t, k, x)) = Len(t) + 1
          /\ \A i \in 1 .. Len(t) + 1 :
               InsertAt(t, k, x)[i] = IF i < k THEN t[i] ELSE IF i = k THEN x ELSE t[i - 1]
      <4>1. t \in Seq(S) /\ k \in 1 .. Len(t) + 1 /\ x \in S
        BY <3>1, <3>2
      <4> QED
        BY <4>1, InsertElements
    <3> QED
      BY <3>2, <3>3
  <2> QED
    BY <1>5, <1>6, <2>2, <2>3
<1> DEFINE h == Widened(g, n - 1, k)
<1>8. IsPermutation(h, n)
  BY <1>1, <1>2, <1>4, WidenedPermutes
<1>9. ASSUME NEW i \in 1 .. n PROVE u[i] = s[h[i]]
  <2>1. h[i] = IF i < k THEN g[i] ELSE IF i = k THEN n ELSE g[i - 1]
    BY <1>2 DEF Widened
  <2>2. i < k => i \in 1 .. n - 1
    BY <1>4
  <2>3. i > k => i - 1 \in 1 .. n - 1
    BY <1>4
  <2> HIDE DEF h
  <2>4. \A j \in 1 .. n - 1 : t[j] = s[g[j]]
    BY <1>1
  <2>5. i \in Nat /\ k \in Nat
    BY <1>4
  <2>6. CASE i < k
    BY <1>7, <2>1, <2>2, <2>4, <2>5, <2>6
  <2>7. CASE i = k
    BY <1>7, <2>1, <2>5, <2>7
  <2>8. CASE i > k
    BY <1>7, <2>1, <2>3, <2>4, <2>5, <2>8
  <2> QED
    BY <2>5, <2>6, <2>7, <2>8
<1>10. u = [i \in 1 .. n |-> s[h[i]]]
  <2> HIDE DEF h
  <2>1. DOMAIN u = 1 .. n /\ u = [i \in 1 .. n |-> u[i]]
    BY <1>7
  <2> QED
    BY <1>9, <2>1
<1> HIDE DEF h
<1> QED
  BY <1>6, <1>8, <1>10 DEF SortGood

\* Array.prototype.sort keeps every element, once.
LEMMA SortedPermutes ==
  ASSUME NEW S, NEW s \in Seq(S), NEW R
  PROVE  /\ Sorted(s, R) \in Seq(S) /\ Len(Sorted(s, R)) = Len(s)
         /\ \E g : IsPermutation(g, Len(s)) /\ Sorted(s, R) = [i \in 1 .. Len(s) |-> s[g[i]]]
<1> DEFINE p == [of |-> s, order |-> R]
<1>1. SortGood(p, 0, <<>>)
  <2> DEFINE none == [i \in 1 .. 0 |-> i]
  <2>1. IsPermutation(none, 0) /\ <<>> = [i \in 1 .. 0 |-> s[none[i]]]
    BY DEF IsPermutation
  <2> HIDE DEF none
  <2> QED
    BY <2>1 DEF SortGood
<1>2. DOMAIN s = 1 .. Len(s) /\ Len(s) \in Nat
  OBVIOUS
<1>3. Sort!Fold(p, <<>>, s) = Sorted(s, R)
  BY DEF Sort!Fold, InsertOp, Sorted, FoldLeft, MapThenFoldSet, Sort!IsFold, Sort!Step, Sort!Largest, Max
<1>4. ASSUME NEW n \in 1 .. Len(s), NEW t, SortGood(p, n - 1, t)
      PROVE  SortGood(p, n, InsertOp(p, t, s[n]))
  BY <1>4, InsertWidens DEF InsertOp
<1>5. SortGood(p, Len(s), Sort!Fold(p, <<>>, s))
  <2> HIDE DEF p
  <2> QED
    BY <1>1, <1>2, <1>4, Sort!FoldKeeps, InductionOverNat DEF Sort!Inductive
<1>6. PICK g : IsPermutation(g, Len(s)) /\ Sorted(s, R) = [i \in 1 .. Len(s) |-> s[g[i]]]
  BY <1>3, <1>5 DEF SortGood
<1>7. Sorted(s, R) \in Seq(S) /\ Len(Sorted(s, R)) = Len(s)
  <2>1. \A i \in 1 .. Len(s) : g[i] \in 1 .. Len(s)
    BY <1>6 DEF IsPermutation
  <2>2. \A i \in 1 .. Len(s) : s[g[i]] \in S
    BY <1>2, <2>1
  <2>3. Sorted(s, R) \in [1 .. Len(s) -> S]
    BY <1>6, <2>2
  <2> QED
    BY <1>2, <2>3
<1> QED
  BY <1>6, <1>7

-----------------------------------------------------------------------------
(* The comments among the items of the history.                            *)

\* A pull request or a comment, as it is shown.
Item == [type : {"pull_request", "review_comment"}, pr : Nat, file : Nat, at : Nat]
CommentsIn(items) == {i \in DOMAIN items : items[i].type = "review_comment"}

\* The comments among the items are finitely many.
LEMMA CommentsCounted ==
  ASSUME NEW items \in Seq(Item)
  PROVE  /\ IsFiniteSet(CommentsIn(items)) /\ Comments(items) = Cardinality(CommentsIn(items))
         /\ Comments(items) \in Nat
<1>1. IsFiniteSet(1 .. Len(items)) /\ CommentsIn(items) \subseteq 1 .. Len(items)
  <2>1. Len(items) \in Nat /\ DOMAIN items = 1 .. Len(items)
    OBVIOUS
  <2> QED
    BY <2>1, FS_Interval DEF CommentsIn
<1>2. IsFiniteSet(CommentsIn(items))
  BY <1>1, FS_Subset
<1> QED
  BY <1>2, FS_CardinalityType DEF Comments, CommentsIn

\* Items that are added have at most so many comments.
LEMMA CommentsConcat ==
  ASSUME NEW s \in Seq(Item), NEW t \in Seq(Item)
  PROVE  s \o t \in Seq(Item) /\ Comments(s \o t) <= Comments(s) + Len(t)
<1>0. s \o t \in Seq(Item)
  OBVIOUS
<1>1. PICK u \in Seq(Item) : u = s \o t
  BY <1>0
<1>2. /\ Len(u) = Len(s) + Len(t) /\ Len(s) \in Nat /\ Len(t) \in Nat
      /\ DOMAIN u = 1 .. Len(u) /\ DOMAIN s = 1 .. Len(s)
      /\ \A i \in 1 .. Len(s) : u[i] = s[i]
  BY <1>1
<1> DEFINE rest == Len(s) + 1 .. Len(u)
<1>3. CommentsIn(u) \subseteq CommentsIn(s) \cup rest
  BY <1>2 DEF CommentsIn
<1>4. IsFiniteSet(rest) /\ Cardinality(rest) = Len(t)
  <2>1. PICK a \in Int, b \in Int : a = Len(s) + 1 /\ b = Len(u)
    BY <1>2
  <2>2. IsFiniteSet(a .. b) /\ Cardinality(a .. b) = IF a > b THEN 0 ELSE b - a + 1
    BY FS_Interval
  <2> QED
    BY <1>2, <2>1, <2>2
<1> HIDE DEF rest
<1>5. IsFiniteSet(CommentsIn(s)) /\ Comments(s) = Cardinality(CommentsIn(s)) /\ Comments(s) \in Nat
  BY CommentsCounted
<1>6. IsFiniteSet(CommentsIn(s) \cap rest) /\ Cardinality(CommentsIn(s) \cap rest) \in Nat
  BY <1>5, FS_Intersection, FS_CardinalityType
<1>7. /\ IsFiniteSet(CommentsIn(s) \cup rest)
      /\ Cardinality(CommentsIn(s) \cup rest) = Cardinality(CommentsIn(s)) + Cardinality(rest)
                                               - Cardinality(CommentsIn(s) \cap rest)
  BY <1>4, <1>5, FS_Union
<1>8. Comments(u) = Cardinality(CommentsIn(u)) /\ Comments(u) \in Nat
  BY CommentsCounted
<1>9. Cardinality(CommentsIn(u)) <= Cardinality(CommentsIn(s) \cup rest)
  BY <1>3, <1>7, FS_Subset
<1> QED
  BY <1>1, <1>2, <1>4, <1>5, <1>6, <1>7, <1>8, <1>9

\* A pull request that is added is no comment.
LEMMA CommentsAppend ==
  ASSUME NEW s \in Seq(Item), NEW x \in Item, x.type = "pull_request"
  PROVE  Append(s, x) \in Seq(Item) /\ Comments(Append(s, x)) = Comments(s)
<1>0. Append(s, x) \in Seq(Item)
  OBVIOUS
<1>1. PICK u \in Seq(Item) : u = Append(s, x)
  BY <1>0
<1>2. /\ Len(u) = Len(s) + 1 /\ Len(s) \in Nat /\ u[Len(s) + 1] = x
      /\ DOMAIN u = 1 .. Len(s) + 1 /\ DOMAIN s = 1 .. Len(s)
      /\ \A i \in 1 .. Len(s) : u[i] = s[i]
  BY <1>1
<1>3. CommentsIn(u) = CommentsIn(s)
  BY <1>2 DEF CommentsIn
<1>4. Comments(u) = Comments(s)
  BY <1>3 DEF Comments, CommentsIn
<1> QED
  BY <1>1, <1>4

\* The pull requests among the items, each once.
ListedOnce(items) ==
  \A i, j \in DOMAIN items :
    items[i].type = "pull_request" /\ items[j].type = "pull_request" /\ items[i].pr = items[j].pr => i = j

\* Sorting the items keeps the comments and the pull requests.
LEMMA SortedItems ==
  ASSUME NEW s \in Seq(Item), NEW R
  PROVE  LET t == Sorted(s, R) IN
         /\ t \in Seq(Item) /\ Comments(t) <= Comments(s)
         /\ ListedOnce(s) => ListedOnce(t)
         /\ \A i \in DOMAIN t : \E j \in DOMAIN s : t[i] = s[j]
<1>1. PICK t : t = Sorted(s, R)
  OBVIOUS
<1>2. PICK g : IsPermutation(g, Len(s)) /\ t = [i \in 1 .. Len(s) |-> s[g[i]]]
  BY <1>1, SortedPermutes
<1>3. t \in Seq(Item) /\ Len(t) = Len(s)
  BY <1>1, SortedPermutes
<1>4. /\ DOMAIN s = 1 .. Len(s) /\ DOMAIN t = 1 .. Len(s)
      /\ \A i \in 1 .. Len(s) : t[i] = s[g[i]] /\ g[i] \in 1 .. Len(s)
  BY <1>2, <1>3 DEF IsPermutation
<1> DEFINE f == [i \in CommentsIn(t) |-> g[i]]
<1>5. f \in Injection(CommentsIn(t), CommentsIn(s))
  <2>1. \A i \in CommentsIn(t) : g[i] \in CommentsIn(s)
    BY <1>4 DEF CommentsIn
  <2>2. \A i, j \in CommentsIn(t) : g[i] = g[j] => i = j
    BY <1>2, <1>4 DEF CommentsIn, IsPermutation
  <2> QED
    BY <2>1, <2>2 DEF Injection, IsInjective
<1>6. IsFiniteSet(CommentsIn(s)) /\ Comments(s) = Cardinality(CommentsIn(s))
  BY CommentsCounted
<1>7. Comments(t) = Cardinality(CommentsIn(t))
  BY <1>3, CommentsCounted
<1>8. Cardinality(CommentsIn(t)) <= Cardinality(CommentsIn(s))
  <2> HIDE DEF f
  <2> QED
    BY <1>5, <1>6, FS_Injection
<1>9. ListedOnce(s) => ListedOnce(t)
  BY <1>2, <1>4 DEF ListedOnce, IsPermutation
<1> QED
  BY <1>1, <1>3, <1>4, <1>6, <1>7, <1>8, <1>9

-----------------------------------------------------------------------------
(* The history.                                                            *)

\* The checkout and the limits the build was started with.
InputsOk == /\ repo \in Seq(File) /\ DOMAIN repo \subseteq DOMAIN CommitsOf
            /\ limits \in [LimitNames -> Nat]

\* The pull requests to list are known ones, each there once, and none is an item.
Numbers(h) == \A i \in DOMAIN h.prs : h.prs[i].number \in h.knownPrs /\ h.prs[i].number \in DOMAIN CommentsOn
ToListOnce(h) == \A i, j \in DOMAIN h.prs : h.prs[i].number = h.prs[j].number => i = j
Unlisted(h) ==
  \A i \in DOMAIN h.items : h.items[i].type = "pull_request" =>
    h.items[i].pr \in h.knownPrs /\ \A j \in DOMAIN h.prs : h.prs[j].number # h.items[i].pr

\* A file is under way while its commits or pull requests are, the budget not spent
\* by then: the answer that exceeds it is the last one that counts.
Pcs == {"off", "file", "commit", "pull", "done"}
HistoryTypes ==
  [pc : Pcs, files : Seq(DOMAIN repo), commits : Seq(DOMAIN PullsOf), prs : Seq(PullRequest),
   apiCalls : Nat, knownPrs : SUBSET Nat, items : Seq(Item)]

HistoryOk(h) ==
  /\ h \in HistoryTypes
  /\ h.pc \in {"commit", "pull"} => h.files # <<>> /\ h.apiCalls <= MAX_API_CALLS
  /\ h.apiCalls <= MAX_API_CALLS + 1
  /\ IsFiniteSet(h.knownPrs) /\ Cardinality(h.knownPrs) <= limits.maxHistoryItems
  /\ PrNumber \notin h.knownPrs
  /\ Numbers(h) /\ ToListOnce(h) /\ Unlisted(h)
  /\ Comments(h.items) <= limits.maxHistoryComments
  /\ ListedOnce(h.items)

\* The fields of the history.
LEMMA HistoryFields ==
  ASSUME NEW h \in HistoryTypes
  PROVE  /\ h.pc \in Pcs /\ h.files \in Seq(DOMAIN repo) /\ h.commits \in Seq(DOMAIN PullsOf)
         /\ h.prs \in Seq(PullRequest) /\ h.apiCalls \in Nat /\ h.knownPrs \in SUBSET Nat
         /\ h.items \in Seq(Item)
         /\ h = [pc |-> h.pc, files |-> h.files, commits |-> h.commits, prs |-> h.prs,
                 apiCalls |-> h.apiCalls, knownPrs |-> h.knownPrs, items |-> h.items]
BY DEF HistoryTypes

\* The next file: the pull requests to list are dropped.
LEMMA NextFileOk ==
  ASSUME InputsOk, NEW h, HistoryOk(h), h.files # <<>>
  PROVE  HistoryOk(NextFileOf(h))
<1>0. h \in HistoryTypes
  BY DEF HistoryOk
<1>1. PICK files \in Seq(DOMAIN repo) : files = Tail(h.files)
  BY <1>0, HistoryFields, TailTypes
<1>2. PICK k : k = [h EXCEPT !.pc = "file", !.files = files, !.commits = <<>>, !.prs = <<>>]
  OBVIOUS
<1> DEFINE none == <<>>
<1>9. none \in Seq(DOMAIN PullsOf) /\ none \in Seq(PullRequest)
  OBVIOUS
<1>3. k = NextFileOf(h)
  BY <1>1, <1>2 DEF NextFileOf
<1>4. /\ k \in HistoryTypes /\ k.pc = "file" /\ k.prs = <<>>
      /\ k.apiCalls = h.apiCalls /\ k.knownPrs = h.knownPrs /\ k.items = h.items
  <2>1. k = [h EXCEPT !.pc = "file", !.files = files, !.commits = none, !.prs = none]
    BY <1>2
  <2> HIDE DEF none
  <2>2. /\ k \in HistoryTypes /\ k.pc = "file" /\ k.prs = none
        /\ k.apiCalls = h.apiCalls /\ k.knownPrs = h.knownPrs /\ k.items = h.items
    BY <1>0, <1>9, <2>1 DEF HistoryTypes, Pcs
  <2> QED
    BY <2>2 DEF none
<1>5. \A i \in DOMAIN k.prs : FALSE
  BY <1>4
<1>6. HistoryOk(k)
  BY <1>4, <1>5 DEF HistoryOk, Numbers, ToListOnce, Unlisted
<1> QED
  BY <1>3, <1>6

\* The end: the items are sorted.
LEMMA FinishOk ==
  ASSUME InputsOk, NEW h, HistoryOk(h)
  PROVE  HistoryOk(FinishHistory(h))
<1>1. h.items \in Seq(Item)
  BY DEF HistoryOk, HistoryTypes
<1>2. PICK items : items = Sorted(h.items, Later(h.items))
  OBVIOUS
<1>3. /\ items \in Seq(Item) /\ Comments(items) <= Comments(h.items)
      /\ ListedOnce(h.items) => ListedOnce(items)
      /\ \A i \in DOMAIN items : \E j \in DOMAIN h.items : items[i] = h.items[j]
  BY <1>1, <1>2, SortedItems
<1>4. PICK k : k = [h EXCEPT !.pc = "done", !.items = items]
  OBVIOUS
<1>5. k = FinishHistory(h)
  BY <1>2, <1>4 DEF FinishHistory
<1>6. /\ k \in HistoryTypes /\ k.pc = "done" /\ k.items = items
      /\ k.apiCalls = h.apiCalls /\ k.knownPrs = h.knownPrs /\ k.prs = h.prs
  <2>1. h \in HistoryTypes
    BY DEF HistoryOk
  <2> QED
    BY <1>3, <1>4, <2>1 DEF HistoryTypes, Pcs
<1>7. Numbers(k) /\ ToListOnce(k)
  BY <1>6 DEF HistoryOk, Numbers, ToListOnce
<1>8. Unlisted(k)
  BY <1>3, <1>6 DEF HistoryOk, Unlisted
<1>9. Comments(items) <= limits.maxHistoryComments
  <2>1. Comments(items) \in Nat /\ Comments(h.items) \in Nat
    BY <1>1, <1>3, CommentsCounted
  <2>2. Comments(h.items) <= limits.maxHistoryComments /\ limits.maxHistoryComments \in Nat
    BY DEF HistoryOk, InputsOk, LimitNames
  <2> QED
    BY <1>3, <2>1, <2>2
<1>10. HistoryOk(k)
  BY <1>3, <1>6, <1>7, <1>8, <1>9 DEF HistoryOk
<1> QED
  BY <1>5, <1>10

\* Any change that leaves the pull requests and the items alone.
LEMMA StaysOk ==
  ASSUME InputsOk, NEW h, HistoryOk(h), NEW k \in HistoryTypes,
         k.prs = h.prs, k.knownPrs = h.knownPrs, k.items = h.items,
         k.pc \in {"commit", "pull"} => k.files # <<>> /\ k.apiCalls <= MAX_API_CALLS,
         k.apiCalls <= MAX_API_CALLS + 1
  PROVE  HistoryOk(k)
BY DEF HistoryOk, Numbers, ToListOnce, Unlisted

\* Enough is known, or no file is left.
LEMMA EndHistoryOk ==
  ASSUME InputsOk, HistoryOk(hist), EndHistory(limits)
  PROVE  HistoryOk(hist')
BY FinishOk DEF EndHistory

\* While not enough is known, a request may be spent.
LEMMA KnowsTypes ==
  ASSUME InputsOk, HistoryOk(hist)
  PROVE  /\ Cardinality(hist.knownPrs) \in Nat /\ hist.apiCalls \in Nat /\ MAX_API_CALLS \in Nat
         /\ ~KnowsEnough(limits) => hist.apiCalls < MAX_API_CALLS
<1>1. /\ Cardinality(hist.knownPrs) \in Nat /\ hist.apiCalls \in Nat /\ MAX_API_CALLS \in Nat
  BY FS_CardinalityType, HistoryAssumption DEF HistoryOk, HistoryTypes
<1>2. ~KnowsEnough(limits) => ~(hist.apiCalls >= MAX_API_CALLS)
  BY DEF KnowsEnough
<1> QED
  BY <1>1, <1>2

\* The commits of a file.
LEMMA ListCommitsOk ==
  ASSUME InputsOk, HistoryOk(hist), NEW fails \in BOOLEAN, ListCommits(limits, fails)
  PROVE  HistoryOk(hist')
<1>1. hist.files # <<>> /\ hist.apiCalls < MAX_API_CALLS
  BY KnowsTypes DEF ListCommits
<1>2. CASE hist' = NextFileOf(hist)
  BY <1>1, <1>2, NextFileOk
<1>3. CASE hist' = FinishHistory([hist EXCEPT !.apiCalls = Spent])
  <2>1. PICK k : k = [hist EXCEPT !.apiCalls = Spent]
    OBVIOUS
  <2>2. hist \in HistoryTypes /\ Spent \in Nat /\ Spent <= MAX_API_CALLS
    BY <1>1, HistoryAssumption DEF HistoryOk, HistoryTypes, Spent
  <2>3. /\ k \in HistoryTypes /\ k.pc = hist.pc /\ k.apiCalls = Spent /\ k.files = hist.files
        /\ k.prs = hist.prs /\ k.knownPrs = hist.knownPrs /\ k.items = hist.items
    BY <2>1, <2>2 DEF HistoryTypes, Pcs
  <2>4. Spent <= MAX_API_CALLS + 1
    BY <2>2, HistoryAssumption
  <2>5. HistoryOk(k)
    BY <1>1, <2>2, <2>3, <2>4, StaysOk
  <2> QED
    BY <1>3, <2>1, <2>5, FinishOk
<1>4. CASE ~Spends /\ ~fails
  <2>1. PICK commits \in Seq(DOMAIN PullsOf) : commits = CommitsOf[Head(hist.files)]
    <3>1. Head(hist.files) \in DOMAIN repo
      BY <1>1, TailTypes DEF HistoryOk, HistoryTypes
    <3> QED
      BY <3>1, HistoryAssumption DEF InputsOk
  <2>2. PICK n \in Nat : n = Max({1, limits.maxHistoryItems})
    <3>1. limits.maxHistoryItems \in Nat
      BY DEF InputsOk, LimitNames
    <3>2. Max({1, limits.maxHistoryItems}) = IF 1 >= limits.maxHistoryItems THEN 1 ELSE limits.maxHistoryItems
      BY <3>1 DEF Max
    <3> QED
      BY <3>1, <3>2
  <2>3. PICK first \in Seq(DOMAIN PullsOf) : first = SubSeq(commits, 1, Min({Len(commits), n}))
    BY PrefixOf
  <2>4. hist' = [hist EXCEPT !.pc = "commit", !.apiCalls = Spent, !.commits = first]
    BY <1>4, <2>1, <2>2, <2>3 DEF ListCommits
  <2>5. /\ hist' \in HistoryTypes /\ hist'.files = hist.files /\ hist'.apiCalls = Spent
        /\ hist'.prs = hist.prs /\ hist'.knownPrs = hist.knownPrs /\ hist'.items = hist.items
    <3>1. hist \in HistoryTypes
      BY DEF HistoryOk
    <3>2. Spent \in Nat
      BY <3>1 DEF Spent, HistoryTypes
    <3> QED
      BY <2>4, <3>1, <3>2 DEF HistoryTypes, Pcs
  <2>6. Spent <= MAX_API_CALLS /\ Spent <= MAX_API_CALLS + 1
    BY <1>1, HistoryAssumption DEF HistoryOk, HistoryTypes, Spent
  <2>7. PICK k \in HistoryTypes : k = hist'
    BY <2>5
  <2>8. HistoryOk(k)
    BY <1>1, <2>5, <2>6, <2>7, StaysOk
  <2> QED
    BY <2>7, <2>8
<1> QED
  BY <1>2, <1>3, <1>4 DEF ListCommits

\* No commit is left, or enough is known.
LEMMA EndCommitsOk ==
  ASSUME InputsOk, HistoryOk(hist), EndCommits(limits)
  PROVE  HistoryOk(hist')
<1>1. PICK k : k = [hist EXCEPT !.pc = "pull"]
  OBVIOUS
<1>2. /\ k \in HistoryTypes /\ k.files = hist.files /\ k.apiCalls = hist.apiCalls
      /\ k.prs = hist.prs /\ k.knownPrs = hist.knownPrs /\ k.items = hist.items
  <2>1. hist \in HistoryTypes
    BY DEF HistoryOk
  <2> QED
    BY <1>1, <2>1 DEF HistoryTypes, Pcs
<1>3. hist.files # <<>> /\ hist.apiCalls <= MAX_API_CALLS /\ hist.apiCalls <= MAX_API_CALLS + 1
  BY DEF HistoryOk, EndCommits
<1>4. HistoryOk(k)
  BY <1>2, <1>3, StaysOk
<1> QED
  BY <1>1, <1>4 DEF EndCommits

\* No pull request is left to list.
LEMMA EndPullsOk ==
  ASSUME InputsOk, HistoryOk(hist), EndPulls
  PROVE  HistoryOk(hist')
BY NextFileOk DEF EndPulls, HistoryOk

\* One more pull request that is not known yet.
LEMMA AddPullOk ==
  ASSUME InputsOk, NEW h, HistoryOk(h), NEW p \in PullRequest,
         p.number # PrNumber => p.number \in DOMAIN CommentsOn
  PROVE  HistoryOk(AddPull(h, p, limits)) /\ AddPull(h, p, limits).pc = h.pc
<1>0. h \in HistoryTypes /\ limits.maxHistoryItems \in Nat
  BY DEF HistoryOk, InputsOk, LimitNames
<1>1. CASE \/ p.number = PrNumber \/ p.number \in h.knownPrs
           \/ Cardinality(h.knownPrs) >= limits.maxHistoryItems
  BY <1>1 DEF AddPull
<1>2. CASE ~ (\/ p.number = PrNumber \/ p.number \in h.knownPrs
              \/ Cardinality(h.knownPrs) >= limits.maxHistoryItems)
  <2>1. PICK prs : prs = Append(h.prs, p)
    OBVIOUS
  <2>2. PICK known : known = h.knownPrs \cup {p.number}
    OBVIOUS
  <2>3. /\ prs \in Seq(PullRequest) /\ Len(prs) = Len(h.prs) + 1 /\ prs[Len(h.prs) + 1] = p
        /\ DOMAIN prs = 1 .. Len(h.prs) + 1 /\ DOMAIN h.prs = 1 .. Len(h.prs) /\ Len(h.prs) \in Nat
        /\ \A i \in 1 .. Len(h.prs) : prs[i] = h.prs[i]
    <3>1. PICK old \in Seq(PullRequest) : old = h.prs
      BY <1>0 DEF HistoryTypes
    <3> QED
      BY <2>1, <3>1
  <2>4. known \in SUBSET Nat
    BY <1>0, <2>2 DEF HistoryTypes, PullRequest
  <2>5. PICK k : k = [h EXCEPT !.prs = prs, !.knownPrs = known]
    OBVIOUS
  <2>6. k = AddPull(h, p, limits)
    BY <1>2, <2>1, <2>2, <2>5 DEF AddPull
  <2>7. /\ k \in HistoryTypes /\ k.pc = h.pc /\ k.files = h.files /\ k.apiCalls = h.apiCalls
        /\ k.prs = prs /\ k.knownPrs = known /\ k.items = h.items
    BY <1>0, <2>3, <2>4, <2>5 DEF HistoryTypes, Pcs
  <2>8. /\ IsFiniteSet(known) /\ Cardinality(known) <= limits.maxHistoryItems /\ PrNumber \notin known
    <3>1. IsFiniteSet(h.knownPrs) /\ PrNumber \notin h.knownPrs
      BY DEF HistoryOk
    <3>2. IsFiniteSet(known) /\ Cardinality(known) = Cardinality(h.knownPrs) + 1
      BY <1>2, <2>2, <3>1, FS_AddElement
    <3>3. Cardinality(h.knownPrs) \in Nat
      BY <3>1, FS_CardinalityType
    <3> QED
      BY <1>0, <1>2, <2>2, <3>1, <3>2, <3>3
  <2>9. \A i \in DOMAIN prs : i = Len(h.prs) + 1 \/ i \in DOMAIN h.prs
    BY <2>3
  <2>10. \A i \in DOMAIN h.prs : h.prs[i].number \in h.knownPrs /\ h.prs[i].number \in DOMAIN CommentsOn
    BY DEF HistoryOk, Numbers
  <2>11. Numbers(k)
    BY <1>2, <2>2, <2>3, <2>7, <2>9, <2>10 DEF Numbers
  <2>12. ToListOnce(k)
    <3>1. \A i, j \in DOMAIN h.prs : h.prs[i].number = h.prs[j].number => i = j
      BY DEF HistoryOk, ToListOnce
    <3> QED
      BY <1>2, <2>3, <2>7, <2>9, <2>10, <3>1 DEF ToListOnce
  <2>13. Unlisted(k)
    <3>1. \A i \in DOMAIN h.items : h.items[i].type = "pull_request" =>
            h.items[i].pr \in h.knownPrs /\ \A j \in DOMAIN h.prs : h.prs[j].number # h.items[i].pr
      BY DEF HistoryOk, Unlisted
    <3> QED
      BY <1>2, <2>2, <2>3, <2>7, <2>9, <3>1 DEF Unlisted
  <2>14. HistoryOk(k)
    BY <2>7, <2>8, <2>11, <2>12, <2>13 DEF HistoryOk
  <2> QED
    BY <2>6, <2>7, <2>14
<1> QED
  BY <1>1, <1>2

\* The pull requests of a commit.
AddPullOp(p, h, x) == AddPull(h, x, p)
AddPullGood(p, n, h) == HistoryOk(h)
AddPullFold == INSTANCE FoldFacts WITH Op <- AddPullOp, Good <- AddPullGood

\* The pull requests of a commit, each added while there is room.
LEMMA ListPullsOk ==
  ASSUME InputsOk, HistoryOk(hist), NEW fails \in BOOLEAN, ListPulls(limits, fails)
  PROVE  HistoryOk(hist')
<1>1. hist.apiCalls < MAX_API_CALLS /\ hist \in HistoryTypes /\ hist.pc = "commit" /\ hist.commits # <<>>
  BY KnowsTypes DEF ListPulls, HistoryOk
<1>2. PICK rest \in Seq(DOMAIN PullsOf) : rest = Tail(hist.commits)
  BY <1>1, TailTypes DEF HistoryTypes
<1>3. Spent \in Nat /\ Spent <= MAX_API_CALLS /\ Spent <= MAX_API_CALLS + 1
  BY <1>1, HistoryAssumption DEF HistoryTypes, Spent
<1>4. hist.files # <<>> /\ hist.apiCalls <= MAX_API_CALLS + 1 /\ hist.apiCalls <= MAX_API_CALLS
  BY <1>1 DEF HistoryOk
<1>5. CASE hist' = [hist EXCEPT !.commits = rest]
  <2>1. PICK k : k = [hist EXCEPT !.commits = rest]
    OBVIOUS
  <2>2. /\ k \in HistoryTypes /\ k.files = hist.files /\ k.apiCalls = hist.apiCalls
        /\ k.prs = hist.prs /\ k.knownPrs = hist.knownPrs /\ k.items = hist.items
    BY <1>1, <2>1 DEF HistoryTypes, Pcs
  <2>3. HistoryOk(k)
    BY <1>4, <2>2, StaysOk
  <2> QED
    BY <1>5, <2>1, <2>3
<1>6. ~Spends
  <2>1. ~ (Spent > MAX_API_CALLS)
    BY <1>3, HistoryAssumption
  <2> QED
    BY <2>1 DEF Spends
<1>7. CASE ~fails
  <2>1. PICK b : b = [hist EXCEPT !.commits = rest, !.apiCalls = Spent]
    OBVIOUS
  <2>2. /\ b \in HistoryTypes /\ b.files = hist.files /\ b.apiCalls = Spent
        /\ b.prs = hist.prs /\ b.knownPrs = hist.knownPrs /\ b.items = hist.items
    BY <1>1, <1>2, <1>3, <2>1 DEF HistoryTypes, Pcs
  <2>3. HistoryOk(b)
    BY <1>3, <1>4, <2>2, StaysOk
  <2>4. PICK pulls : pulls = PullsOf[Head(hist.commits)]
    OBVIOUS
  <2>5. /\ pulls \in Seq(PullRequest)
        /\ \A p \in ToSet(pulls) : p.number # PrNumber => p.number \in DOMAIN CommentsOn
    <3>1. Head(hist.commits) \in DOMAIN PullsOf
      BY <1>1, TailTypes DEF HistoryTypes
    <3> QED
      BY <2>4, <3>1, HistoryAssumption
  <2>6. DOMAIN pulls = 1 .. Len(pulls) /\ Len(pulls) \in Nat
    BY <2>5
  <2>7. ASSUME NEW n \in 1 .. Len(pulls), NEW h, AddPullGood(limits, n - 1, h)
        PROVE  AddPullGood(limits, n, AddPullOp(limits, h, pulls[n]))
    <3>1. PICK p : p = pulls[n]
      OBVIOUS
    <3>2. p \in PullRequest /\ p \in ToSet(pulls)
      BY <2>5, <2>6, <3>1 DEF ToSet
    <3>3. HistoryOk(AddPull(h, p, limits))
      BY <2>5, <2>7, <3>2, AddPullOk DEF AddPullGood
    <3> QED
      BY <3>1, <3>3 DEF AddPullGood, AddPullOp
  <2>8. AddPullGood(limits, 0, b)
    BY <2>3 DEF AddPullGood
  <2>9. AddPullGood(limits, Len(pulls), AddPullFold!Fold(limits, b, pulls))
    BY <2>6, <2>7, <2>8, AddPullFold!FoldKeeps, InductionOverNat DEF AddPullFold!Inductive
  <2>10. hist' = FoldLeft(LAMBDA h, p : AddPull(h, p, limits), b, pulls)
    BY <1>2, <1>6, <1>7, <2>1, <2>4 DEF ListPulls
  <2>11. AddPullFold!Fold(limits, b, pulls) = FoldLeft(LAMBDA h, p : AddPull(h, p, limits), b, pulls)
    BY DEF AddPullFold!Fold, AddPullOp, FoldLeft, MapThenFoldSet, AddPullFold!IsFold, AddPullFold!Step, AddPullFold!Largest, Max
  <2> QED
    BY <2>9, <2>10, <2>11 DEF AddPullGood
<1> QED
  BY <1>2, <1>5, <1>7 DEF ListPulls

\* The first pull request to list becomes an item.
LEMMA ListedOk ==
  ASSUME InputsOk, NEW h, HistoryOk(h), h.prs # <<>>, NEW item \in Item,
         item.type = "pull_request", item.pr = Head(h.prs).number,
         NEW k, k = [h EXCEPT !.prs = Tail(@), !.items = Append(@, item)]
  PROVE  HistoryOk(k) /\ k.files = h.files /\ k.apiCalls = h.apiCalls /\ k.pc = h.pc
<1>0. h \in HistoryTypes /\ h.prs \in Seq(PullRequest) /\ h.items \in Seq(Item)
  BY DEF HistoryOk, HistoryTypes
<1>1. PICK prs \in Seq(PullRequest) : prs = Tail(h.prs)
  BY <1>0, TailTypes
<1>2. PICK items \in Seq(Item) : items = Append(h.items, item)
  BY <1>0, CommentsAppend
<1>3. /\ k \in HistoryTypes /\ k.pc = h.pc /\ k.files = h.files /\ k.apiCalls = h.apiCalls
      /\ k.prs = prs /\ k.knownPrs = h.knownPrs /\ k.items = items
  <2>1. k = [h EXCEPT !.prs = prs, !.items = items]
    BY <1>1, <1>2
  <2> QED
    BY <1>0, <2>1 DEF HistoryTypes, Pcs
<1>4. /\ Head(h.prs) = h.prs[1] /\ 1 \in DOMAIN h.prs
      /\ \A i \in DOMAIN prs : i + 1 \in DOMAIN h.prs /\ i + 1 # 1 /\ prs[i] = h.prs[i + 1]
      /\ \A i, j \in DOMAIN prs : i + 1 = j + 1 => i = j
  BY <1>0, <1>1, TailTypes
<1>5. /\ \A i \in DOMAIN h.prs : h.prs[i].number \in h.knownPrs /\ h.prs[i].number \in DOMAIN CommentsOn
      /\ \A i, j \in DOMAIN h.prs : h.prs[i].number = h.prs[j].number => i = j
      /\ \A i \in DOMAIN h.items : h.items[i].type = "pull_request" =>
           h.items[i].pr \in h.knownPrs /\ \A j \in DOMAIN h.prs : h.prs[j].number # h.items[i].pr
      /\ ListedOnce(h.items)
  BY DEF HistoryOk, Numbers, ToListOnce, Unlisted
<1>6. Numbers(k)
  BY <1>3, <1>4, <1>5 DEF Numbers
<1>7. ToListOnce(k)
  <2>1. ASSUME NEW i \in DOMAIN prs, NEW j \in DOMAIN prs, prs[i].number = prs[j].number PROVE i = j
    <3>1. h.prs[i + 1].number = h.prs[j + 1].number /\ i + 1 \in DOMAIN h.prs /\ j + 1 \in DOMAIN h.prs
      BY <1>4, <2>1
    <3>2. i + 1 = j + 1
      BY <1>5, <3>1
    <3> QED
      BY <1>4, <3>2
  <2>2. \A i, j \in DOMAIN prs : prs[i].number = prs[j].number => i = j
    BY <2>1
  <2>3. PICK rest : rest = prs /\ rest = k.prs
    BY <1>3
  <2>4. \A i, j \in DOMAIN rest : rest[i].number = rest[j].number => i = j
    BY <2>2, <2>3
  <2> QED
    BY <2>3, <2>4 DEF ToListOnce
<1>8. /\ \A i \in DOMAIN items : i = Len(h.items) + 1 \/ (i \in DOMAIN h.items /\ items[i] = h.items[i])
      /\ items[Len(h.items) + 1] = item
  <2>1. PICK old \in Seq(Item) : old = h.items
    BY <1>0
  <2> QED
    BY <1>2, <2>1
<1>9. Unlisted(k)
  <2>1. item.pr \in h.knownPrs /\ \A j \in DOMAIN prs : prs[j].number # item.pr
    BY <1>4, <1>5
  <2>2. ASSUME NEW i \in DOMAIN items, items[i].type = "pull_request"
        PROVE  items[i].pr \in h.knownPrs /\ \A j \in DOMAIN prs : prs[j].number # items[i].pr
    <3>1. CASE i = Len(h.items) + 1
      BY <1>8, <2>1, <3>1
    <3>2. CASE i \in DOMAIN h.items /\ items[i] = h.items[i]
      BY <1>4, <1>5, <2>2, <3>2
    <3> QED
      BY <1>8, <3>1, <3>2
  <2>3. \A i \in DOMAIN k.items : k.items[i].type = "pull_request" =>
          k.items[i].pr \in k.knownPrs /\ \A j \in DOMAIN k.prs : k.prs[j].number # k.items[i].pr
    BY <1>3, <2>2
  <2> QED
    BY <2>3 DEF Unlisted
<1>10. ListedOnce(items)
  <2>1. \A i \in DOMAIN h.items : h.items[i].type = "pull_request" => h.items[i].pr # item.pr
    BY <1>4, <1>5
  <2>2. ASSUME NEW i \in DOMAIN items, NEW j \in DOMAIN items, items[i].type = "pull_request",
               items[j].type = "pull_request", items[i].pr = items[j].pr
        PROVE  i = j
    BY <1>5, <1>8, <2>1, <2>2 DEF ListedOnce
  <2> QED
    BY <2>2 DEF ListedOnce
<1>11. Comments(items) <= limits.maxHistoryComments
  BY <1>0, <1>2, CommentsAppend DEF HistoryOk
<1>12. HistoryOk(k)
  BY <1>3, <1>6, <1>7, <1>9, <1>10, <1>11 DEF HistoryOk
<1> QED
  BY <1>3, <1>12

\* Comments, as many as there is room for.
LEMMA CommentedOk ==
  ASSUME InputsOk, NEW h, HistoryOk(h), NEW new \in Seq(Item), \A i \in DOMAIN new : new[i].type = "review_comment",
         Comments(h.items) + Len(new) <= limits.maxHistoryComments, NEW n \in Nat,
         n <= MAX_API_CALLS,
         NEW k, k = [h EXCEPT !.apiCalls = n, !.items = @ \o new]
  PROVE  HistoryOk(k)
<1>0. h \in HistoryTypes /\ h.items \in Seq(Item)
  BY DEF HistoryOk, HistoryTypes
<1>1. PICK items \in Seq(Item) : items = h.items \o new
  BY <1>0, CommentsConcat
<1>2. /\ k \in HistoryTypes /\ k.pc = h.pc /\ k.files = h.files /\ k.apiCalls = n
      /\ k.prs = h.prs /\ k.knownPrs = h.knownPrs /\ k.items = items
  <2>1. k = [h EXCEPT !.apiCalls = n, !.items = items]
    BY <1>1
  <2> QED
    BY <1>0, <2>1 DEF HistoryTypes, Pcs
<1>3. \A i \in DOMAIN items : items[i].type = "review_comment" \/ (i \in DOMAIN h.items /\ items[i] = h.items[i])
  <2>1. PICK old \in Seq(Item) : old = h.items
    BY <1>0
  <2>2. /\ DOMAIN items = 1 .. Len(old) + Len(new) /\ DOMAIN old = 1 .. Len(old) /\ DOMAIN new = 1 .. Len(new)
        /\ Len(old) \in Nat /\ Len(new) \in Nat
        /\ \A i \in 1 .. Len(old) : items[i] = old[i]
        /\ \A i \in 1 .. Len(new) : items[Len(old) + i] = new[i]
    <3>1. items = old \o new
      BY <1>1, <2>1
    <3>2. Len(items) = Len(old) + Len(new) /\ Len(old) \in Nat /\ Len(new) \in Nat
      BY <3>1, ConcatAt
    <3>3. DOMAIN items = 1 .. Len(items) /\ DOMAIN old = 1 .. Len(old) /\ DOMAIN new = 1 .. Len(new)
      OBVIOUS
    <3>4. /\ \A i \in 1 .. Len(old) : items[i] = old[i]
          /\ \A i \in 1 .. Len(new) : items[Len(old) + i] = new[i]
      BY <3>1, ConcatAt
    <3> QED
      BY <3>2, <3>3, <3>4
  <2>3. ASSUME NEW i \in DOMAIN items, i \notin DOMAIN old PROVE items[i].type = "review_comment"
    <3>1. i - Len(old) \in 1 .. Len(new) /\ Len(old) + (i - Len(old)) = i
      BY <2>2, <2>3
    <3> QED
      BY <2>2, <3>1
  <2> QED
    BY <2>1, <2>2, <2>3
<1>4. Unlisted(k)
  BY <1>2, <1>3 DEF HistoryOk, Unlisted
<1>5. ListedOnce(items)
  <2>1. ListedOnce(h.items)
    BY DEF HistoryOk
  <2> QED
    BY <1>3, <2>1 DEF ListedOnce
<1>6. Comments(items) <= limits.maxHistoryComments
  <2>1. Comments(items) <= Comments(h.items) + Len(new) /\ Comments(items) \in Nat /\ Comments(h.items) \in Nat
    BY <1>0, <1>1, CommentsConcat, CommentsCounted
  <2>2. limits.maxHistoryComments \in Nat /\ Len(new) \in Nat
    BY DEF InputsOk, LimitNames
  <2> QED
    BY <2>1, <2>2
<1>7. n <= MAX_API_CALLS + 1
  BY HistoryAssumption
<1>8. Numbers(k) /\ ToListOnce(k)
  BY <1>2 DEF HistoryOk, Numbers, ToListOnce
<1>9. HistoryOk(k)
  BY <1>2, <1>4, <1>5, <1>6, <1>7, <1>8 DEF HistoryOk
<1> QED
  BY <1>9

\* How many comments are still wanted, and those that a pull request adds.
CommentRoom == limits.maxHistoryComments - Comments(hist.items)

NewComments(pr, file) ==
  LET page == SubSeq(CommentsOn[pr.number], 1, Min({CommentRoom, Len(CommentsOn[pr.number])}))
      kept == Kept(page, {c \in ToSet(page) : ~c.reply /\ c.file = file})
  IN  [i \in DOMAIN kept |-> [type |-> "review_comment", pr |-> pr.number, file |-> file, at |-> kept[i].at]]

\* The history with a pull request listed.
WithPull(pr, file) ==
  [hist EXCEPT !.prs = Tail(@),
               !.items = Append(@, [type |-> "pull_request", pr |-> pr.number, file |-> file, at |-> pr.at])]

\* What listing the comments on a pull request comes to.
LEMMA CommentsListed ==
  ASSUME NEW fails, ListComments(limits, fails)
  PROVE  LET pr == Head(hist.prs)
             file == Head(hist.files)
         IN  hist' = IF CommentRoom <= 0 \/ fails THEN WithPull(pr, file)
                     ELSE IF Spends THEN NextFileOf([WithPull(pr, file) EXCEPT !.apiCalls = Spent])
                     ELSE [WithPull(pr, file) EXCEPT !.apiCalls = Spent, !.items = @ \o NewComments(pr, file)]
BY ZenonT(30) DEF ListComments, CommentRoom, NewComments, WithPull

\* The comments on a pull request.
LEMMA ListCommentsOk ==
  ASSUME InputsOk, HistoryOk(hist), NEW fails \in BOOLEAN, ListComments(limits, fails)
  PROVE  HistoryOk(hist')
<1>0. /\ hist \in HistoryTypes /\ hist.prs \in Seq(PullRequest) /\ hist.items \in Seq(Item)
      /\ hist.prs # <<>> /\ hist.files # <<>> /\ hist.files \in Seq(DOMAIN repo) /\ hist.pc = "pull"
      /\ hist.apiCalls \in Nat /\ hist.apiCalls <= MAX_API_CALLS /\ MAX_API_CALLS \in Nat
  BY HistoryAssumption DEF HistoryOk, HistoryTypes, ListComments
<1>1. PICK pr \in PullRequest : pr = Head(hist.prs)
  BY <1>0, TailTypes
<1>2. PICK file \in Nat : file = Head(hist.files)
  <2>1. Head(hist.files) \in DOMAIN repo
    BY <1>0, TailTypes
  <2> QED
    BY <2>1 DEF InputsOk
<1>3. PICK item : item = [type |-> "pull_request", pr |-> pr.number, file |-> file, at |-> pr.at]
  OBVIOUS
<1>4. item \in Item /\ item.type = "pull_request" /\ item.pr = Head(hist.prs).number
  BY <1>1, <1>3 DEF Item, PullRequest
<1>5. PICK listed : listed = [hist EXCEPT !.prs = Tail(@), !.items = Append(@, item)]
  OBVIOUS
<1>6. /\ HistoryOk(listed) /\ listed.files = hist.files /\ listed.apiCalls = hist.apiCalls
      /\ listed.pc = "pull"
  BY <1>0, <1>4, <1>5, ListedOk
<1>7. listed \in HistoryTypes
  BY <1>6 DEF HistoryOk
<1>8. Spent \in Nat /\ Spent <= MAX_API_CALLS + 1 /\ (~Spends => Spent <= MAX_API_CALLS)
  <2>1. Spent = hist.apiCalls + 1 /\ (Spends <=> Spent > MAX_API_CALLS)
    BY DEF Spent, Spends
  <2> QED
    BY <1>0, <2>1
<1>9. CASE hist' = NextFileOf([listed EXCEPT !.apiCalls = Spent])
  <2>1. PICK n \in Nat : n = Spent
    BY <1>8
  <2>2. HistoryOk(NextFileOf(listed))
    BY <1>0, <1>6, NextFileOk
  <2>3. PICK b : b = NextFileOf(listed)
    OBVIOUS
  <2>4. b \in HistoryTypes /\ b.pc = "file" /\ hist' = [b EXCEPT !.apiCalls = n]
    <3>1. b \in HistoryTypes
      BY <2>2, <2>3 DEF HistoryOk
    <3>2. b.pc = "file" /\ hist' = [b EXCEPT !.apiCalls = n]
      BY <1>7, <1>9, <2>1, <2>3 DEF NextFileOf, HistoryTypes
    <3> QED
      BY <3>1, <3>2
  <2>5. PICK k : k = [b EXCEPT !.apiCalls = n]
    OBVIOUS
  <2>6. /\ k \in HistoryTypes /\ k.pc = "file" /\ k.apiCalls = n
        /\ k.prs = b.prs /\ k.knownPrs = b.knownPrs /\ k.items = b.items
    BY <2>4, <2>5 DEF HistoryTypes, Pcs
  <2>7. HistoryOk(k)
    BY <1>8, <2>1, <2>2, <2>3, <2>6, StaysOk
  <2> QED
    BY <2>4, <2>5, <2>7
<1> DEFINE take == limits.maxHistoryComments - Comments(hist.items)
           page == SubSeq(CommentsOn[pr.number], 1, Min({take, Len(CommentsOn[pr.number])}))
           kept == Kept(page, {c \in ToSet(page) : ~c.reply /\ c.file = file})
           new == [i \in DOMAIN kept |-> [type |-> "review_comment", pr |-> pr.number,
                                          file |-> file, at |-> kept[i].at]]
<1>10. CASE /\ ~ (CommentRoom <= 0) /\ ~Spends
            /\ hist' = [listed EXCEPT !.apiCalls = Spent, !.items = @ \o NewComments(pr, file)]
  <2>0. take = CommentRoom /\ new = NewComments(pr, file)
    BY DEF CommentRoom, NewComments
  <2>1. Comments(listed.items) = Comments(hist.items) /\ Comments(hist.items) \in Nat
    <3>1. listed.items = Append(hist.items, item)
      BY <1>0, <1>5 DEF HistoryTypes
    <3> QED
      BY <1>0, <1>4, <3>1, CommentsAppend, CommentsCounted
  <2>2. take \in Nat /\ Comments(listed.items) + take = limits.maxHistoryComments
    <3>1. limits.maxHistoryComments \in Nat
      BY DEF InputsOk, LimitNames
    <3>2. PICK c \in Nat : c = Comments(hist.items) /\ c = Comments(listed.items)
      BY <2>1
    <3>3. PICK most \in Nat : most = limits.maxHistoryComments
      BY <3>1
    <3>4. take = most - c /\ ~ (take <= 0)
      BY <1>10, <2>0, <3>2, <3>3
    <3> HIDE DEF take
    <3>5. take \in Nat /\ c + take = most
      BY <3>4
    <3> QED
      BY <3>2, <3>3, <3>5
  <2>3. CommentsOn[pr.number] \in Seq(Comment)
    <3>1. pr.number \in DOMAIN CommentsOn
      BY <1>0, <1>1, TailTypes DEF HistoryOk, Numbers
    <3> QED
      BY <3>1, HistoryAssumption
  <2>4. page \in Seq(Comment) /\ Len(page) <= take
    <3> HIDE DEF take
    <3> QED
      BY <2>2, <2>3, PrefixOf
  <2>5. kept \in Seq(Comment) /\ Len(kept) <= take
    <3> HIDE DEF take, page
    <3>1. kept \in Seq(Comment) /\ Len(kept) <= Len(page)
      BY <2>4, KeptNoLonger
    <3>2. Len(kept) \in Nat /\ Len(page) \in Nat
      BY <2>4, <3>1
    <3> QED
      BY <2>2, <2>4, <3>1, <3>2
  <2> HIDE DEF kept, take
  <2>6. new \in Seq(Item) /\ Len(new) = Len(kept) /\ \A i \in DOMAIN new : new[i].type = "review_comment"
    <3>1. \A i \in 1 .. Len(kept) : [type |-> "review_comment", pr |-> pr.number,
                                     file |-> file, at |-> kept[i].at] \in Item
      <4> TAKE i \in 1 .. Len(kept)
      <4>1. kept[i] \in Comment
        BY <2>5
      <4>2. PICK x : x = kept[i]
        OBVIOUS
      <4>3. x.at \in Nat /\ pr.number \in Nat
        BY <4>1, <4>2 DEF Comment, PullRequest
      <4>4. [type |-> "review_comment", pr |-> pr.number, file |-> file, at |-> x.at] \in Item
        BY <4>3 DEF Item
      <4> QED
        BY <4>2, <4>4
    <3>2. DOMAIN kept = 1 .. Len(kept) /\ Len(kept) \in Nat
      BY <2>5
    <3>3. new \in [1 .. Len(kept) -> Item]
      BY <3>1, <3>2
    <3>4. \A i \in DOMAIN new : new[i].type = "review_comment"
      OBVIOUS
    <3> HIDE DEF new
    <3> QED
      BY <3>2, <3>3, <3>4
  <2> HIDE DEF new
  <2>7. Comments(listed.items) + Len(new) <= limits.maxHistoryComments
    <3>1. Len(kept) \in Nat /\ Comments(listed.items) \in Nat
      BY <2>1, <2>5
    <3> QED
      BY <2>2, <2>5, <2>6, <3>1
  <2>8. PICK k : k = [listed EXCEPT !.apiCalls = Spent, !.items = @ \o new]
    OBVIOUS
  <2>9. HistoryOk(k)
    BY <1>6, <1>8, <1>10, <2>6, <2>7, <2>8, CommentedOk
  <2> QED
    BY <1>10, <2>0, <2>8, <2>9
<1> QED
  <2>1. hist' = IF CommentRoom <= 0 \/ fails THEN listed
                ELSE IF Spends THEN NextFileOf([listed EXCEPT !.apiCalls = Spent])
                ELSE [listed EXCEPT !.apiCalls = Spent, !.items = @ \o NewComments(pr, file)]
    <3>1. listed = WithPull(pr, file)
      BY <1>3, <1>5 DEF WithPull
    <3> QED
      BY <1>1, <1>2, <3>1, CommentsListed
  <2> QED
    BY <1>6, <1>9, <1>10, <2>1

\* Every step of the history.
LEMMA HistoryStepOk ==
  ASSUME InputsOk, HistoryOk(hist), NEW fails \in BOOLEAN, HistoryStep(limits, fails)
  PROVE  HistoryOk(hist')
BY EndHistoryOk, EndCommitsOk, EndPullsOk, ListCommitsOk, ListPullsOk, ListCommentsOk DEF HistoryStep

\* The start of the history.
LEMMA StartHistoryOk ==
  ASSUME InputsOk, NEW files \in SUBSET DOMAIN repo
  PROVE  HistoryOk(StartHistory(files, limits)) /\ StartHistory(files, limits).pc = "file"
<1>1. SetToSeq(files) \in Seq(DOMAIN repo)
  <2>1. Len(repo) \in Nat /\ DOMAIN repo = 1 .. Len(repo)
    BY DEF InputsOk
  <2>2. IsFiniteSet(files)
    BY <2>1, UpTo, FS_Subset
  <2>3. PICK n \in Nat : n = Cardinality(files)
    BY <2>2, FS_CardinalityType
  <2>4. \E f \in [1 .. n -> files] : IsInjective(f)
    <3>1. ExistsBijection(1 .. n, files)
      BY <2>2, <2>3, FS_CardinalityType
    <3> QED
      BY <3>1 DEF ExistsBijection, Bijection, Injection
  <2>5. SetToSeq(files) \in [1 .. n -> files]
    BY <2>3, <2>4 DEF SetToSeq
  <2> QED
    BY <2>5
<1>2. PICK R : R = {p \in files \X files : p[1] < p[2]}
  OBVIOUS
<1>3. PICK paths \in Seq(DOMAIN repo) : paths = Sorted(SetToSeq(files), R)
  BY <1>1, SortedPermutes
<1>4. PICK first \in Seq(DOMAIN repo) : first = SubSeq(paths, 1, Min({Len(paths), limits.maxHistoryFiles}))
  <2>1. limits.maxHistoryFiles \in Nat
    BY DEF InputsOk, LimitNames
  <2> QED
    BY <2>1, PrefixOf
<1> DEFINE none == <<>>
<1>5. PICK k : k = [pc |-> "file", files |-> first, commits |-> none, prs |-> none,
                    apiCalls |-> 0, knownPrs |-> {}, items |-> none]
  OBVIOUS
<1>6. StartHistory(files, limits) = k
  <2>1. StartHistory(files, limits) =
          [NoHistory EXCEPT !.pc = "file", !.files = SubSeq(paths, 1, Min({Len(paths), limits.maxHistoryFiles}))]
    BY <1>2, <1>3, Zenon DEF StartHistory
  <2>2. StartHistory(files, limits) = [NoHistory EXCEPT !.pc = "file", !.files = first]
    BY <1>4, <2>1
  <2> QED
    BY <1>5, <2>2 DEF NoHistory
<1>7. none \in Seq(DOMAIN PullsOf) /\ none \in Seq(PullRequest) /\ none \in Seq(Item) /\ DOMAIN none = {}
  OBVIOUS
<1>8. Comments(none) = 0
  BY <1>7, FS_EmptySet DEF Comments
<1> HIDE DEF none
<1>9. k \in HistoryTypes
  BY <1>5, <1>7 DEF HistoryTypes, Pcs
<1>10. /\ k.pc = "file" /\ k.apiCalls = 0 /\ k.prs = none /\ k.items = none /\ k.knownPrs = {}
  BY <1>5
<1>11. IsFiniteSet(k.knownPrs) /\ Cardinality(k.knownPrs) <= limits.maxHistoryItems
  BY <1>10, FS_EmptySet DEF InputsOk, LimitNames
<1>12. Comments(k.items) <= limits.maxHistoryComments /\ 0 <= MAX_API_CALLS + 1
  BY <1>8, <1>10, HistoryAssumption DEF InputsOk, LimitNames
<1>13. Numbers(k) /\ ToListOnce(k) /\ Unlisted(k) /\ ListedOnce(k.items)
  BY <1>7, <1>10 DEF Numbers, ToListOnce, Unlisted, ListedOnce
<1>14. HistoryOk(k)
  BY <1>9, <1>10, <1>11, <1>12, <1>13 DEF HistoryOk
<1> QED
  BY <1>6, <1>10, <1>14

-----------------------------------------------------------------------------
(* What is parsed: symbols, imports and calls of the files of the          *)
(* repository.                                                             *)

\* Files are nodes of the graph as symbols are; their names are empty.
Kinds == {"class", "method", "function", "file"}
Ids == [kind : Kinds, file : DOMAIN repo, name : STRING \cup {""}]
Syms == UNION {{Symbol(f, repo[f].lang, repo[f].tree, n) : n \in DOMAIN repo[f].tree} : f \in DOMAIN repo}
Parses == {p \in {Parse(f) : f \in DOMAIN repo} : p.parsed}

\* A file of the repository.
LEMMA FileTypes ==
  ASSUME InputsOk, NEW f \in DOMAIN repo
  PROVE  /\ repo[f].tree \in Seq(SyntaxNode) /\ repo[f].edit \in Seq(Ops)
         /\ f \in Nat
         /\ \A n \in DOMAIN repo[f].tree : repo[f].tree[n] \in SyntaxNode
<1>1. repo[f] \in File /\ f \in Nat
  BY DEF InputsOk
<1>2. PICK x \in File : x = repo[f]
  BY <1>1
<1>3. x.tree \in Seq(SyntaxNode) /\ x.edit \in Seq(Ops)
  BY DEF File
<1>4. PICK t \in Seq(SyntaxNode) : t = x.tree
  BY <1>3
<1>5. \A n \in DOMAIN t : t[n] \in SyntaxNode
  OBVIOUS
<1> QED
  BY <1>1, <1>2, <1>3, <1>4, <1>5

\* A symbol of a syntax tree.
LEMMA SymbolTypes ==
  ASSUME InputsOk, NEW f \in DOMAIN repo, NEW t \in Seq(SyntaxNode), NEW n \in DOMAIN t, NEW lang
  PROVE  LET s == Symbol(f, lang, t, n) IN
         /\ s.kind \in {"class", "method", "function"} /\ s.file = f /\ s.name \in STRING
         /\ s.first \in Nat /\ s.last \in Nat
<1>1. t[n] \in SyntaxNode
  OBVIOUS
<1>2. PICK x \in SyntaxNode : x = t[n]
  BY <1>1
<1>3. x.name \in STRING /\ x.first \in Nat /\ x.last \in Nat
  BY DEF SyntaxNode
<1>4. Kind(lang, t, n) \in {"class", "method", "function"}
  BY DEF Kind
<1>5. Symbol(f, lang, t, n) = [name |-> x.name, kind |-> Kind(lang, t, n), file |-> f, first |-> x.first,
                               last |-> x.last, exported |-> Exported(lang, t, n)]
  BY <1>2 DEF Symbol
<1> QED
  BY <1>3, <1>4, <1>5

\* A symbol of some file.
LEMMA SymsTypes ==
  ASSUME InputsOk, NEW s \in Syms
  PROVE  /\ s.kind \in {"class", "method", "function"} /\ s.file \in DOMAIN repo /\ s.name \in STRING
         /\ s.first \in Nat /\ s.last \in Nat
<1>1. PICK f \in DOMAIN repo : \E n \in DOMAIN repo[f].tree : s = Symbol(f, repo[f].lang, repo[f].tree, n)
  BY DEF Syms
<1>2. PICK n \in DOMAIN repo[f].tree : s = Symbol(f, repo[f].lang, repo[f].tree, n)
  BY <1>1
<1>3. PICK lang : lang = repo[f].lang
  OBVIOUS
<1>4. PICK t \in Seq(SyntaxNode) : t = repo[f].tree
  BY FileTypes
<1>5. n \in DOMAIN t /\ s = Symbol(f, lang, t, n)
  BY <1>2, <1>3, <1>4
<1> QED
  BY <1>5, SymbolTypes

\* A file that parses: its symbols, imports and calls.
IsParse(p) ==
  /\ p.parsed /\ p.file \in DOMAIN repo /\ p.symbols \in Seq(Syms) /\ p.imports \in Seq(Seq(STRING))
  /\ Len(p.calls) \in Nat /\ p.calls \in Seq(ToSet(p.calls))

\* What parsing a file returns.
LEMMA ParseTypes ==
  ASSUME InputsOk, NEW f \in DOMAIN repo, Parse(f).parsed
  PROVE  IsParse(Parse(f)) /\ Parse(f).file = f
<1>1. PICK t \in Seq(SyntaxNode) : t = repo[f].tree
  BY FileTypes
<1>2. PICK lang : lang = repo[f].lang
  OBVIOUS
<1>3. PICK max \in Nat : max = limits.maxSymbolsPerFile
  BY DEF InputsOk, LimitNames
<1>4. Parse(f) = ParseSourceFile(f, lang, t, max)
  BY <1>1, <1>2, <1>3 DEF Parse
<1>5. ~(lang = "none" \/ t = <<>>)
  BY <1>4 DEF ParseSourceFile, NoParse
<1> DEFINE S == {n \in DOMAIN t : IsSymbol(lang, t, n)}
           C == {n \in DOMAIN t : IsCall(lang, t[n])}
           I == {n \in DOMAIN t : IsImport(lang, t[n])}
           at == Kept([n \in DOMAIN t |-> n], S)
           callsAt == Kept([n \in DOMAIN t |-> n], C)
           importsAt == Kept([n \in DOMAIN t |-> n], I)
           symbols == [i \in 1 .. Min({Len(at), max}) |-> Symbol(f, lang, t, at[i])]
           sources == [i \in DOMAIN importsAt |-> t[importsAt[i]].sources]
           calls == [i \in DOMAIN callsAt |-> [caller |-> ResolveCaller(t, callsAt[i]),
                                               callee |-> t[callsAt[i]].callee]]
<1>6. Parse(f) = [parsed |-> TRUE, file |-> f, symbols |-> symbols, imports |-> FlattenSeq(sources),
                  calls |-> calls]
  BY <1>4, <1>5, Zenon DEF ParseSourceFile, Nodes
<1>7. at \in Seq(DOMAIN t) /\ callsAt \in Seq(DOMAIN t) /\ importsAt \in Seq(DOMAIN t)
  <2> HIDE DEF S, C, I
  <2> QED
    BY Indices
<1> HIDE DEF at, callsAt, importsAt
<1>8. symbols \in Seq(Syms)
  <2>1. PICK n \in Nat : n = Min({Len(at), max}) /\ n <= Len(at)
    <3>1. Len(at) \in Nat
      BY <1>7
    <3>2. Min({Len(at), max}) = IF Len(at) <= max THEN Len(at) ELSE max
      BY <3>1 DEF Min
    <3> QED
      BY <3>1, <3>2
  <2>2. ASSUME NEW i \in 1 .. n PROVE Symbol(f, lang, t, at[i]) \in Syms
    <3>1. at[i] \in DOMAIN t
      BY <1>7, <2>1
    <3> QED
      BY <1>1, <1>2, <3>1 DEF Syms
  <2>3. symbols \in [1 .. n -> Syms]
    BY <2>1, <2>2
  <2> HIDE DEF symbols
  <2> QED
    BY <2>3
<1>9. FlattenSeq(sources) \in Seq(Seq(STRING))
  <2>1. \A i \in DOMAIN importsAt : importsAt[i] \in DOMAIN t
    BY <1>7
  <2>2. \A n \in DOMAIN t : t[n].sources \in Seq(Seq(STRING))
    <3> TAKE n \in DOMAIN t
    <3>1. PICK x \in SyntaxNode : x = t[n]
      OBVIOUS
    <3>2. x.sources \in Seq(Seq(STRING))
      BY DEF SyntaxNode
    <3> QED
      BY <3>1, <3>2
  <2>3. PICK m \in Nat : DOMAIN importsAt = 1 .. m
    BY <1>7
  <2>4. sources \in [1 .. m -> Seq(Seq(STRING))]
    BY <2>1, <2>2, <2>3
  <2> HIDE DEF sources
  <2>5. sources \in Seq(Seq(Seq(STRING)))
    BY <2>4
  <2> QED
    BY <2>5, FlattenElements
<1>10. Len(calls) \in Nat /\ calls \in Seq(ToSet(calls))
  <2>1. PICK m \in Nat : DOMAIN callsAt = 1 .. m
    BY <1>7
  <2>2. calls = [i \in 1 .. m |-> calls[i]]
    BY <2>1
  <2> HIDE DEF calls
  <2> QED
    BY <2>1, <2>2, SequenceOf
<1> HIDE DEF symbols, sources, calls
<1> QED
  BY <1>6, <1>8, <1>9, <1>10 DEF IsParse

-----------------------------------------------------------------------------
(* The context as it is built.                                             *)

\* The changed files, the imports, the dependencies; the graph; what is shown.
Changes == {ChangedFile(f, base) : f \in DOMAIN repo, base \in {"mergeBase", "baseTip"}}
Imports == [file : DOMAIN repo, target : DOMAIN repo \cup {0}]
Deps == [file : DOMAIN repo, depth : Nat, parsed : Parses]

GraphNode == [id : Ids, first : Nat, last : Nat]
EdgeTypes == {"FILE_CONTAINS_SYMBOL", "FILE_EXPORTS_SYMBOL", "CLASS_CONTAINS_METHOD", "FILE_IMPORTS_FILE",
              "FUNCTION_CALLS_FUNCTION"}
GraphEdge == [source : Ids, target : Ids, type : EdgeTypes]
Graphs == [nodes : Seq(GraphNode), edges : Seq(GraphEdge)]
GraphFits(g) == Len(g.nodes) <= limits.maxNodes /\ Len(g.edges) <= limits.maxEdges

ShownSymbol == [relevance : {"changed", "caller", "direct-dependency", "secondary-dependency"}, id : Ids,
           first : Nat, last : Nat, source : Nat \X Nat]
Sources == [symbols : Seq(ShownSymbol), files : SUBSET DOMAIN repo]
SourceFits(s) ==
  /\ Len(s.symbols) <= limits.maxRelevantSymbols
  /\ Cardinality(s.files) <= limits.maxRelevantFiles
  /\ \A i \in DOMAIN s.symbols : s.symbols[i].source # NoSlice =>
       s.symbols[i].source[2] - s.symbols[i].source[1] < limits.maxSourceLinesPerSymbol

ContextTypes ==
  [base : {"none", "mergeBase", "baseTip"}, files : Seq(Changes), parsed : Seq(Parses), symbols : Seq(Syms),
   parseCount : Nat, level : [depth : Nat, files : Seq(Parses)], resolved : Seq(Imports),
   dependencies : Seq(Deps), graph : Graphs, source : Sources]

ContextOk(c) ==
  /\ c \in ContextTypes
  /\ c.parseCount <= limits.maxParseFiles
  /\ GraphFits(c.graph)
  /\ SourceFits(c.source)

\* The changed files, whatever they are compared with.
LEMMA ChangedFilesTypes ==
  ASSUME InputsOk, NEW base \in {"mergeBase", "baseTip"}
  PROVE  ChangedFiles(base) \in Seq(Changes)
<1> DEFINE K == {f \in DOMAIN repo : StatusOf(f, base) # "same" /\ ~repo[f].skip}
           changed == Kept([f \in DOMAIN repo |-> f], K)
<1>1. changed \in Seq(DOMAIN repo)
  <2>1. repo \in Seq(File)
    BY DEF InputsOk
  <2> HIDE DEF K
  <2> QED
    BY <2>1, Indices
<1>2. ChangedFiles(base) = [i \in DOMAIN changed |-> ChangedFile(changed[i], base)]
  BY DEF ChangedFiles
<1> HIDE DEF changed
<1>3. \A i \in DOMAIN changed : ChangedFile(changed[i], base) \in Changes
  BY <1>1 DEF Changes
<1>4. PICK n \in Nat : DOMAIN changed = 1 .. n
  BY <1>1
<1>5. ChangedFiles(base) \in [1 .. n -> Changes]
  BY <1>2, <1>3, <1>4
<1> QED
  BY <1>5

\* A changed file is one of the repository.
LEMMA ChangeFile ==
  ASSUME NEW x \in Changes
  PROVE  x.file \in DOMAIN repo
BY DEF Changes, ChangedFile

\* The parses are parses.
LEMMA ParsesAre ==
  ASSUME InputsOk, NEW p \in Parses
  PROVE  IsParse(p)
BY ParseTypes DEF Parses

\* One changed file.
LEMMA ParseOneOk ==
  ASSUME InputsOk, NEW c, ContextOk(c), NEW x \in Changes
  PROVE  ContextOk(ParseOne(c, x))
<1>1. c \in ContextTypes /\ x.file \in DOMAIN repo /\ limits.maxParseFiles \in Nat
  BY ChangeFile DEF ContextOk, InputsOk, LimitNames
<1>2. CASE x.status = "deleted" \/ LinesOf(x.file) = 0 \/ ~Budget(c)
  BY <1>2 DEF ParseOne
<1>3. CASE ~(x.status = "deleted" \/ LinesOf(x.file) = 0 \/ ~Budget(c))
  <2>1. PICK n : n = c.parseCount + 1
    OBVIOUS
  <2>2. n \in Nat /\ n <= limits.maxParseFiles
    BY <1>1, <1>3, <2>1 DEF Budget, ContextTypes
  <2>3. PICK k : k = [c EXCEPT !.parseCount = n]
    OBVIOUS
  <2>4. /\ k \in ContextTypes /\ k.parseCount = n /\ k.graph = c.graph /\ k.source = c.source
        /\ k.parsed = c.parsed /\ k.symbols = c.symbols
    BY <1>1, <2>2, <2>3 DEF ContextTypes
  <2>5. ContextOk(k)
    BY <2>2, <2>4 DEF ContextOk
  <2>6. PICK p : p = Parse(x.file)
    OBVIOUS
  <2>7. CASE ~p.parsed
    <3>1. ParseOne(c, x) = k
      BY <1>3, <2>1, <2>3, <2>6, <2>7 DEF ParseOne
    <3> QED
      BY <2>5, <3>1
  <2>8. CASE p.parsed
    <3>1. p \in Parses /\ IsParse(p)
      BY <1>1, <2>6, <2>8, ParseTypes DEF Parses
    <3>2. PICK parsed \in Seq(Parses) : parsed = Append(k.parsed, p)
      <4>1. k.parsed \in Seq(Parses)
        BY <2>4 DEF ContextTypes
      <4>2. Append(k.parsed, p) \in Seq(Parses)
        BY <3>1, <4>1
      <4> QED
        BY <4>2
    <3>3. PICK touched \in Seq(Syms) : touched = ChangedSymbols(p, x.changedLines)
      <4>1. p.symbols \in Seq(Syms)
        BY <3>1 DEF IsParse
      <4> QED
        BY <4>1, KeptNoLonger DEF ChangedSymbols
    <3>4. PICK symbols \in Seq(Syms) : symbols = k.symbols \o touched
      <4>1. k.symbols \in Seq(Syms)
        BY <2>4 DEF ContextTypes
      <4> QED
        BY <4>1, ConcatAt
    <3>5. PICK m : m = [k EXCEPT !.parsed = parsed, !.symbols = symbols]
      OBVIOUS
    <3>6. ParseOne(c, x) = m
      BY <1>3, <2>1, <2>3, <2>6, <2>8, <3>2, <3>3, <3>4, <3>5 DEF ParseOne
    <3>7. m \in ContextTypes /\ m.parseCount = k.parseCount /\ m.graph = k.graph /\ m.source = k.source
      BY <2>4, <3>5 DEF ContextTypes
    <3>8. ContextOk(m)
      BY <2>5, <3>7 DEF ContextOk
    <3> QED
      BY <3>6, <3>8
  <2> QED
    BY <2>7, <2>8
<1> QED
  BY <1>2, <1>3

\* The changed files in turn.
ParseOp(p, c, x) == ParseOne(c, x)
ParseGood(p, n, c) == ContextOk(c)
ParseFold == INSTANCE FoldFacts WITH Op <- ParseOp, Good <- ParseGood

\* All changed files.
LEMMA ParseChangedOk ==
  ASSUME InputsOk, ContextOk(ctx), NEW c, c = FoldLeft(ParseOne, ctx, ctx.files)
  PROVE  ContextOk([c EXCEPT !.level = [depth |-> 1, files |-> c.parsed]])
<1>1. PICK files \in Seq(Changes) : files = ctx.files
  BY DEF ContextOk, ContextTypes
<1>2. DOMAIN files = 1 .. Len(files) /\ Len(files) \in Nat
  OBVIOUS
<1>3. ASSUME NEW n \in 1 .. Len(files), NEW a, ParseGood(0, n - 1, a)
      PROVE  ParseGood(0, n, ParseOp(0, a, files[n]))
  <2>1. PICK x \in Changes : x = files[n]
    OBVIOUS
  <2>2. ContextOk(ParseOne(a, x))
    BY <1>3, ParseOneOk DEF ParseGood
  <2> QED
    BY <2>1, <2>2 DEF ParseGood, ParseOp
<1>4. ParseGood(0, 0, ctx)
  BY DEF ParseGood
<1>5. ParseGood(0, Len(files), ParseFold!Fold(0, ctx, files))
  BY <1>2, <1>3, <1>4, ParseFold!FoldKeeps, InductionOverNat DEF ParseFold!Inductive
<1>6. ParseFold!Fold(0, ctx, files) = FoldLeft(ParseOne, ctx, files)
  BY DEF ParseFold!Fold, ParseOp, FoldLeft, MapThenFoldSet, ParseFold!IsFold, ParseFold!Step, ParseFold!Largest, Max
<1>7. ContextOk(c)
  BY <1>1, <1>5, <1>6 DEF ParseGood
<1>8. PICK level : level = [depth |-> 1, files |-> c.parsed]
  OBVIOUS
<1>9. c \in ContextTypes /\ level \in [depth : Nat, files : Seq(Parses)]
  BY <1>7, <1>8 DEF ContextOk, ContextTypes
<1>10. PICK k : k = [c EXCEPT !.level = level]
  OBVIOUS
<1>11. k \in ContextTypes /\ k.parseCount = c.parseCount /\ k.graph = c.graph /\ k.source = c.source
  BY <1>9, <1>10 DEF ContextTypes
<1>12. ContextOk(k)
  BY <1>7, <1>11 DEF ContextOk
<1> QED
  BY <1>8, <1>10, <1>12

\* The context and the files of the next level.
WalkTypes == [c : ContextTypes, next : Seq(Parses)]
WalkOk(acc) == acc \in WalkTypes /\ ContextOk(acc.c)

\* What a specifier is resolved to: a file, or nothing.
LEMMA ResolveTypes ==
  ASSUME NEW source, NEW from
  PROVE  Resolve(source, from) \in DOMAIN repo \cup {0}
<1>1. \A path : FileAt(path) \in DOMAIN repo \cup {0}
  <2> TAKE path
  <2>1. CASE \E f \in DOMAIN repo : repo[f].path = path /\ Exists(f)
    BY <2>1 DEF FileAt
  <2>2. CASE ~\E f \in DOMAIN repo : repo[f].path = path /\ Exists(f)
    BY <2>2 DEF FileAt
  <2> QED
    BY <2>1, <2>2
<1> QED
  BY <1>1 DEF Resolve

\* The imports of a file that is parsed.
LEMMA ImportsOfTypes ==
  ASSUME InputsOk, NEW p \in Parses
  PROVE  ImportsOf(p) \in Seq(Imports)
<1>1. p.file \in DOMAIN repo /\ p.imports \in Seq(Seq(STRING))
  BY ParsesAre DEF IsParse
<1>2. PICK n \in Nat : DOMAIN p.imports = 1 .. n
  BY <1>1
<1>3. \A i \in 1 .. n : [file |-> p.file, target |-> Resolve(p.imports[i], p.file)] \in Imports
  BY <1>1, ResolveTypes DEF Imports
<1>4. ImportsOf(p) \in [1 .. n -> Imports]
  BY <1>2, <1>3 DEF ImportsOf
<1> QED
  BY <1>4

\* One import.
LEMMA ImportOk ==
  ASSUME InputsOk, NEW acc, WalkOk(acc), NEW i \in Imports
  PROVE  WalkOk(Import(acc, i))
<1>1. acc \in WalkTypes /\ ContextOk(acc.c) /\ acc.c \in ContextTypes /\ acc.next \in Seq(Parses)
  BY DEF WalkOk, WalkTypes
<1>2. PICK resolved \in Seq(Imports) : resolved = Append(acc.c.resolved, i)
  <2>1. acc.c.resolved \in Seq(Imports)
    BY <1>1 DEF ContextTypes
  <2>2. Append(acc.c.resolved, i) \in Seq(Imports)
    BY <2>1
  <2> QED
    BY <2>2
<1>3. PICK c : c = [acc.c EXCEPT !.resolved = resolved]
  OBVIOUS
<1>4. PICK a \in ContextTypes : a = acc.c
  BY <1>1
<1>5. /\ c \in ContextTypes /\ c.parseCount = a.parseCount /\ c.graph = a.graph /\ c.source = a.source
      /\ c.level = a.level
  BY <1>3, <1>4 DEF ContextTypes
<1>6. ContextOk(c)
  BY <1>1, <1>4, <1>5 DEF ContextOk
<1> DEFINE skip == \/ i.target = 0 \/ i.target \in ParsedFiles(c) \cup Dependencies(c) \cup Listed(c)
                   \/ SourceLines(i.target) = 0 \/ ~Budget(c)
<1>7. c = [acc.c EXCEPT !.resolved = Append(@, i)]
  BY <1>2, <1>3
<1>8. CASE skip
  <2>1. Import(acc, i) = [acc EXCEPT !.c = c]
    BY <1>7, <1>8 DEF Import
  <2>2. PICK m : m = [acc EXCEPT !.c = c]
    OBVIOUS
  <2>3. m \in WalkTypes /\ m.c = c
    BY <1>1, <1>5, <2>2 DEF WalkTypes
  <2> QED
    BY <1>6, <2>1, <2>2, <2>3 DEF WalkOk
<1>9. CASE ~skip
  <2>1. i.target \in DOMAIN repo
    BY <1>9 DEF Imports
  <2>2. PICK n \in Nat : n = c.parseCount + 1
    BY <1>5 DEF ContextTypes
  <2>3. n <= limits.maxParseFiles
    <3>1. c.parseCount < limits.maxParseFiles /\ c.parseCount \in Nat /\ limits.maxParseFiles \in Nat
      BY <1>5, <1>9 DEF Budget, ContextTypes, InputsOk, LimitNames
    <3> QED
      BY <2>2, <3>1
  <2>4. PICK k : k = [c EXCEPT !.parseCount = n]
    OBVIOUS
  <2>5. /\ k \in ContextTypes /\ k.parseCount = n /\ k.graph = c.graph /\ k.source = c.source
        /\ k.dependencies = c.dependencies
    BY <1>5, <2>4 DEF ContextTypes
  <2>6. ContextOk(k)
    BY <1>6, <2>3, <2>5 DEF ContextOk
  <2>7. PICK p : p = Parse(i.target)
    OBVIOUS
  <2>8. Import(acc, i) =
          IF ~p.parsed THEN [acc EXCEPT !.c = k]
          ELSE [c |-> [k EXCEPT !.dependencies =
                          Append(@, [file |-> i.target, depth |-> c.level.depth, parsed |-> p])],
                next |-> Append(acc.next, p)]
    BY <1>7, <1>9, <2>2, <2>4, <2>7, Zenon DEF Import
  <2>9. CASE ~p.parsed
    <3>1. PICK m : m = [acc EXCEPT !.c = k]
      OBVIOUS
    <3>2. m \in WalkTypes /\ m.c = k
      BY <1>1, <2>5, <3>1 DEF WalkTypes
    <3> QED
      BY <2>6, <2>8, <2>9, <3>1, <3>2 DEF WalkOk
  <2>10. CASE p.parsed
    <3>1. p \in Parses
      BY <2>1, <2>7, <2>10 DEF Parses
    <3>2. PICK d \in Deps : d = [file |-> i.target, depth |-> c.level.depth, parsed |-> p]
      <4>1. c.level.depth \in Nat
        BY <1>5 DEF ContextTypes
      <4> QED
        BY <2>1, <3>1, <4>1 DEF Deps
    <3>3. PICK deps \in Seq(Deps) : deps = Append(k.dependencies, d)
      <4>1. k.dependencies \in Seq(Deps)
        BY <2>5 DEF ContextTypes
      <4>2. Append(k.dependencies, d) \in Seq(Deps)
        BY <4>1
      <4> QED
        BY <4>2
    <3>4. PICK next \in Seq(Parses) : next = Append(acc.next, p)
      <4>1. Append(acc.next, p) \in Seq(Parses)
        BY <1>1, <3>1
      <4> QED
        BY <4>1
    <3>5. PICK m : m = [k EXCEPT !.dependencies = deps]
      OBVIOUS
    <3>6. m \in ContextTypes /\ m.parseCount = k.parseCount /\ m.graph = k.graph /\ m.source = k.source
      BY <2>5, <3>5 DEF ContextTypes
    <3>7. ContextOk(m)
      BY <2>6, <3>6 DEF ContextOk
    <3>8. Import(acc, i) = [c |-> m, next |-> next]
      BY <2>8, <2>10, <3>2, <3>3, <3>4, <3>5
    <3>9. [c |-> m, next |-> next] \in WalkTypes /\ [c |-> m, next |-> next].c = m
      BY <3>6 DEF WalkTypes
    <3> QED
      BY <3>7, <3>8, <3>9 DEF WalkOk
  <2> QED
    BY <2>9, <2>10
<1> QED
  BY <1>8, <1>9

\* The imports of a level in turn.
ImportOp(p, acc, i) == Import(acc, i)
ImportGood(p, n, acc) == WalkOk(acc)
ImportFold == INSTANCE FoldFacts WITH Op <- ImportOp, Good <- ImportGood

\* The imports of the files of a level.
LEMMA LevelImports ==
  ASSUME InputsOk, NEW files \in Seq(Parses)
  PROVE  FlattenSeq([i \in DOMAIN files |-> ImportsOf(files[i])]) \in Seq(Imports)
<1> DEFINE each == [i \in DOMAIN files |-> ImportsOf(files[i])]
<1>1. PICK n \in Nat : DOMAIN files = 1 .. n
  OBVIOUS
<1>2. \A i \in 1 .. n : ImportsOf(files[i]) \in Seq(Imports)
  <2> TAKE i \in 1 .. n
  <2>1. PICK p \in Parses : p = files[i]
    BY <1>1
  <2> QED
    BY <2>1, ImportsOfTypes
<1>3. each \in [1 .. n -> Seq(Imports)]
  BY <1>1, <1>2
<1> HIDE DEF each
<1>4. each \in Seq(Seq(Imports))
  BY <1>3
<1>5. FlattenSeq(each) \in Seq(Imports)
  BY <1>4, FlattenElements
<1> QED
  BY <1>5 DEF each

\* One level of the walk.
LEMMA WalkLevelOk ==
  ASSUME InputsOk, ContextOk(ctx), WalkLevel
  PROVE  ContextOk(ctx')
<1> SUFFICES ASSUME ctx' # ctx PROVE ContextOk(ctx')
  OBVIOUS
<1> DEFINE each == [i \in DOMAIN ctx.level.files |-> ImportsOf(ctx.level.files[i])]
<1>0. ctx \in ContextTypes
  BY DEF ContextOk
<1>1. PICK imports \in Seq(Imports) : imports = FlattenSeq(each)
  <2>1. ctx.level \in [depth : Nat, files : Seq(Parses)]
    BY <1>0 DEF ContextTypes
  <2>2. PICK files \in Seq(Parses) : files = ctx.level.files
    BY <2>1
  <2> QED
    BY <2>2, LevelImports
<1>2. DOMAIN imports = 1 .. Len(imports) /\ Len(imports) \in Nat
  OBVIOUS
<1>3. PICK b : b = [c |-> ctx, next |-> <<>>]
  OBVIOUS
<1>4. ImportGood(0, 0, b)
  <2> DEFINE none == <<>>
  <2>1. none \in Seq(Parses) /\ b = [c |-> ctx, next |-> none]
    BY <1>3
  <2> HIDE DEF none
  <2>2. b \in WalkTypes /\ b.c = ctx
    BY <1>0, <2>1 DEF WalkTypes
  <2> QED
    BY <2>2 DEF ImportGood, WalkOk
<1>5. ASSUME NEW n \in 1 .. Len(imports), NEW a, ImportGood(0, n - 1, a)
      PROVE  ImportGood(0, n, ImportOp(0, a, imports[n]))
  <2>1. PICK i \in Imports : i = imports[n]
    OBVIOUS
  <2>2. WalkOk(Import(a, i))
    BY <1>5, ImportOk DEF ImportGood
  <2> QED
    BY <2>1, <2>2 DEF ImportGood, ImportOp
<1>6. ImportGood(0, Len(imports), ImportFold!Fold(0, b, imports))
  BY <1>2, <1>4, <1>5, ImportFold!FoldKeeps, InductionOverNat DEF ImportFold!Inductive
<1>7. ImportFold!Fold(0, b, imports) = FoldLeft(Import, b, imports)
  BY DEF ImportFold!Fold, ImportOp, FoldLeft, MapThenFoldSet, ImportFold!IsFold, ImportFold!Step, ImportFold!Largest, Max
<1>8. PICK acc : acc = FoldLeft(Import, b, imports)
  OBVIOUS
<1>9. acc \in WalkTypes /\ ContextOk(acc.c)
  BY <1>6, <1>7, <1>8 DEF ImportGood, WalkOk
<1>10. PICK files \in Seq(Parses) : files = Sorted(acc.next, ByFile(acc.next))
  <2>1. acc.next \in Seq(Parses)
    BY <1>9 DEF WalkTypes
  <2>2. Sorted(acc.next, ByFile(acc.next)) \in Seq(Parses)
    BY <2>1, SortedPermutes
  <2> QED
    BY <2>2
<1>11. PICK level \in [depth : Nat, files : Seq(Parses)] : level = [depth |-> ctx.level.depth + 1, files |-> files]
  <2>1. ctx.level.depth + 1 \in Nat
    BY <1>0 DEF ContextTypes
  <2> QED
    BY <2>1
<1>12. PICK c \in ContextTypes : c = acc.c
  BY <1>9 DEF ContextOk
<1>13. PICK k : k = [c EXCEPT !.level = level]
  OBVIOUS
<1>14. k \in ContextTypes /\ k.parseCount = c.parseCount /\ k.graph = c.graph /\ k.source = c.source
  BY <1>13 DEF ContextTypes
<1>15. ContextOk(k)
  BY <1>9, <1>12, <1>14 DEF ContextOk
<1>16. ctx' = k
  <2>1. ctx' = [acc.c EXCEPT !.level = [depth |-> ctx.level.depth + 1, files |-> Sorted(acc.next, ByFile(acc.next))]]
    BY <1>1, <1>3, <1>8 DEF WalkLevel
  <2> QED
    BY <1>10, <1>11, <1>12, <1>13, <2>1
<1> QED
  BY <1>15, <1>16

-----------------------------------------------------------------------------
(* The graph.                                                              *)

\* No edge dangles.
Linked(g) == \A i \in DOMAIN g.edges : Has(g, g.edges[i].source) /\ Has(g, g.edges[i].target)
GraphOk(g) == g \in Graphs /\ GraphFits(g) /\ Linked(g)

\* The limits of the graph.
LEMMA GraphLimits ==
  ASSUME InputsOk
  PROVE  limits.maxNodes \in Nat /\ limits.maxEdges \in Nat
BY DEF InputsOk, LimitNames

\* A node is added while there is room.
LEMMA AddNodeOk ==
  ASSUME InputsOk, NEW g, GraphOk(g), NEW id \in Ids, NEW first \in Nat, NEW last \in Nat
  PROVE  GraphOk(AddNode(g, id, first, last, limits))
<1>1. CASE ~CanAddNode(g, id, limits)
  BY <1>1 DEF AddNode
<1>2. CASE CanAddNode(g, id, limits)
  <2>1. g \in Graphs /\ g.nodes \in Seq(GraphNode) /\ Len(g.nodes) < limits.maxNodes
    BY <1>2 DEF GraphOk, Graphs, CanAddNode
  <2>2. PICK x \in GraphNode : x = [id |-> id, first |-> first, last |-> last]
    BY DEF GraphNode
  <2>3. PICK nodes : nodes = Append(g.nodes, x)
    OBVIOUS
  <2>4. nodes \in Seq(GraphNode) /\ Len(nodes) = Len(g.nodes) + 1 /\ Len(g.nodes) \in Nat
    BY <2>1, <2>3
  <2>5. Len(nodes) <= limits.maxNodes
    BY <2>1, <2>4, GraphLimits
  <2>6. PICK k : k = [g EXCEPT !.nodes = nodes]
    OBVIOUS
  <2>7. k = AddNode(g, id, first, last, limits)
    BY <1>2, <2>2, <2>3, <2>6 DEF AddNode
  <2>8. k \in Graphs /\ k.nodes = nodes /\ k.edges = g.edges
    BY <2>1, <2>4, <2>6 DEF Graphs
  <2>9. \A n \in DOMAIN g.nodes : n \in DOMAIN nodes /\ nodes[n] = g.nodes[n]
    BY <2>1, <2>3
  <2>10. Linked(k)
    BY <2>8, <2>9 DEF GraphOk, Linked, Has
  <2> QED
    BY <2>5, <2>7, <2>8, <2>10 DEF GraphOk, GraphFits
<1> QED
  BY <1>1, <1>2

\* The nodes of a graph are files and symbols.
LEMMA HasIds ==
  ASSUME NEW g \in Graphs, NEW id, Has(g, id)
  PROVE  id \in Ids
<1>1. PICK nodes \in Seq(GraphNode) : nodes = g.nodes
  BY DEF Graphs
<1>2. PICK n \in DOMAIN nodes : nodes[n].id = id
  BY <1>1 DEF Has
<1>3. PICK x \in GraphNode : x = nodes[n]
  OBVIOUS
<1> QED
  BY <1>2, <1>3 DEF GraphNode

\* An edge is added between nodes while there is room.
LEMMA AddEdgeOk ==
  ASSUME InputsOk, NEW g, GraphOk(g), NEW source, NEW target, NEW type \in EdgeTypes
  PROVE  GraphOk(AddEdge(g, source, target, type, limits))
<1> DEFINE e == [source |-> source, target |-> target, type |-> type]
           can == Has(g, source) /\ Has(g, target) /\ Len(g.edges) < limits.maxEdges /\ e \notin ToSet(g.edges)
<1>1. CASE ~can
  BY <1>1 DEF AddEdge
<1>2. CASE can
  <2>1. g \in Graphs /\ g.edges \in Seq(GraphEdge) /\ Len(g.edges) < limits.maxEdges
    BY <1>2 DEF GraphOk, Graphs
  <2>2. PICK x \in GraphEdge : x = e
    BY <1>2, <2>1, HasIds DEF GraphEdge
  <2>3. PICK edges : edges = Append(g.edges, x)
    OBVIOUS
  <2>4. edges \in Seq(GraphEdge) /\ Len(edges) = Len(g.edges) + 1 /\ Len(g.edges) \in Nat
    BY <2>1, <2>3
  <2>5. Len(edges) <= limits.maxEdges
    BY <2>1, <2>4, GraphLimits
  <2>6. PICK k : k = [g EXCEPT !.edges = edges]
    OBVIOUS
  <2>7. k = AddEdge(g, source, target, type, limits)
    BY <1>2, <2>2, <2>3, <2>6 DEF AddEdge
  <2>8. k \in Graphs /\ k.edges = edges /\ k.nodes = g.nodes
    BY <2>1, <2>4, <2>6 DEF Graphs
  <2>9. \A i \in DOMAIN edges : edges[i] = x \/ (i \in DOMAIN g.edges /\ edges[i] = g.edges[i])
    BY <2>1, <2>3
  <2>10. Has(g, x.source) /\ Has(g, x.target)
    BY <1>2, <2>2
  <2>11. Linked(k)
    BY <2>8, <2>9, <2>10 DEF GraphOk, Linked, Has
  <2> QED
    BY <2>5, <2>7, <2>8, <2>11 DEF GraphOk, GraphFits
<1> QED
  BY <1>1, <1>2

\* The node of a file.
LEMMA AddFileOk ==
  ASSUME InputsOk, NEW g, GraphOk(g), NEW file \in DOMAIN repo
  PROVE  GraphOk(AddFile(g, file, limits))
<1>1. FileId(file) \in Ids
  BY DEF FileId, Ids, Kinds
<1>2. PICK id \in Ids : id = FileId(file)
  BY <1>1
<1>3. GraphOk(AddNode(g, id, 0, 0, limits))
  BY AddNodeOk
<1> QED
  BY <1>2, <1>3 DEF AddFile

\* The node of a symbol.
LEMMA IdTypes ==
  ASSUME InputsOk, NEW s \in Syms
  PROVE  Id(s) \in Ids
BY SymsTypes DEF Id, Ids, Kinds

-----------------------------------------------------------------------------
\* The symbols of a file in turn.
AddSymbolOp(p, acc, s) == AddSymbol(acc, s, limits)
AddSymbolGood(p, n, acc) == acc \in [graph : Graphs, stop : BOOLEAN] /\ GraphOk(acc.graph)
AddSymbolFold == INSTANCE FoldFacts WITH Op <- AddSymbolOp, Good <- AddSymbolGood

\* A symbol: a node, and the edges from the file.
LEMMA AddSymbolOk ==
  ASSUME InputsOk, NEW acc, AddSymbolGood(0, 0, acc), NEW s \in Syms
  PROVE  AddSymbolGood(0, 0, AddSymbol(acc, s, limits))
<1>1. CASE acc.stop \/ ~CanAddNode(acc.graph, Id(s), limits)
  <2>1. PICK k : k = [acc EXCEPT !.stop = TRUE]
    OBVIOUS
  <2>2. k \in [graph : Graphs, stop : BOOLEAN] /\ k.graph = acc.graph
    BY <2>1 DEF AddSymbolGood
  <2>3. AddSymbol(acc, s, limits) = k
    BY <1>1, <2>1 DEF AddSymbol
  <2> QED
    BY <2>2, <2>3 DEF AddSymbolGood
<1>2. CASE ~(acc.stop \/ ~CanAddNode(acc.graph, Id(s), limits))
  <2>1. PICK id \in Ids : id = Id(s)
    BY IdTypes
  <2>2. PICK first \in Nat, last \in Nat : first = s.first /\ last = s.last
    BY SymsTypes
  <2>3. PICK g1 : g1 = AddNode(acc.graph, id, first, last, limits)
    OBVIOUS
  <2>4. GraphOk(g1)
    BY <2>3, AddNodeOk DEF AddSymbolGood
  <2>5. PICK g2 : g2 = AddEdge(g1, FileId(s.file), id, "FILE_CONTAINS_SYMBOL", limits)
    OBVIOUS
  <2>6. GraphOk(g2)
    <3>1. "FILE_CONTAINS_SYMBOL" \in EdgeTypes
      BY DEF EdgeTypes
    <3> QED
      BY <2>4, <2>5, <3>1, AddEdgeOk
  <2>7. PICK g3 : g3 = IF s.exported THEN AddEdge(g2, FileId(s.file), id, "FILE_EXPORTS_SYMBOL", limits) ELSE g2
    OBVIOUS
  <2>8. GraphOk(g3)
    <3>1. "FILE_EXPORTS_SYMBOL" \in EdgeTypes
      BY DEF EdgeTypes
    <3>2. GraphOk(AddEdge(g2, FileId(s.file), id, "FILE_EXPORTS_SYMBOL", limits))
      BY <2>6, <3>1, AddEdgeOk
    <3> QED
      BY <2>6, <2>7, <3>2
  <2>9. PICK k : k = [acc EXCEPT !.graph = g3]
    OBVIOUS
  <2>10. AddSymbol(acc, s, limits) = k
    BY <1>2, <2>1, <2>2, <2>3, <2>5, <2>7, <2>9 DEF AddSymbol
  <2>11. k \in [graph : Graphs, stop : BOOLEAN] /\ k.graph = g3
    <3>1. g3 \in Graphs
      BY <2>8 DEF GraphOk
    <3> QED
      BY <2>9, <3>1 DEF AddSymbolGood
  <2> QED
    BY <2>8, <2>10, <2>11 DEF AddSymbolGood
<1> QED
  BY <1>1, <1>2

\* The symbols of a file, until the graph is full.
LEMMA AddSymbolsOk ==
  ASSUME InputsOk, NEW g, GraphOk(g), NEW p \in Parses
  PROVE  GraphOk(AddSymbols(g, p, limits))
<1>1. PICK symbols \in Seq(Syms) : symbols = p.symbols
  BY ParsesAre DEF IsParse
<1>2. GraphOk(AddFile(g, p.file, limits))
  BY ParsesAre, AddFileOk DEF IsParse
<1>3. PICK b : b = [graph |-> AddFile(g, p.file, limits), stop |-> FALSE]
  OBVIOUS
<1>4. AddSymbolGood(0, 0, b)
  <2>1. AddFile(g, p.file, limits) \in Graphs
    BY <1>2 DEF GraphOk
  <2>2. b \in [graph : Graphs, stop : BOOLEAN] /\ b.graph = AddFile(g, p.file, limits)
    BY <1>3, <2>1
  <2> QED
    BY <1>2, <2>2 DEF AddSymbolGood
<1>5. DOMAIN symbols = 1 .. Len(symbols) /\ Len(symbols) \in Nat
  OBVIOUS
<1>6. ASSUME NEW n \in 1 .. Len(symbols), NEW a, AddSymbolGood(0, n - 1, a)
      PROVE  AddSymbolGood(0, n, AddSymbolOp(0, a, symbols[n]))
  <2>1. PICK s \in Syms : s = symbols[n]
    OBVIOUS
  <2>2. AddSymbolGood(0, 0, a)
    BY <1>6 DEF AddSymbolGood
  <2>3. AddSymbolGood(0, 0, AddSymbol(a, s, limits))
    BY <2>2, AddSymbolOk
  <2> QED
    BY <2>1, <2>3 DEF AddSymbolGood, AddSymbolOp
<1>7. AddSymbolGood(0, Len(symbols), AddSymbolFold!Fold(0, b, symbols))
  BY <1>4, <1>5, <1>6, AddSymbolFold!FoldKeeps, InductionOverNat DEF AddSymbolFold!Inductive
<1>8. AddSymbolFold!Fold(0, b, symbols) = FoldLeft(LAMBDA acc, s : AddSymbol(acc, s, limits), b, symbols)
  BY DEF AddSymbolFold!Fold, AddSymbolOp, FoldLeft, MapThenFoldSet, AddSymbolFold!IsFold, AddSymbolFold!Step, AddSymbolFold!Largest, Max
<1>9. AddSymbols(g, p, limits) = AddSymbolFold!Fold(0, b, symbols).graph
  <2>1. AddSymbols(g, p, limits) = FoldLeft(LAMBDA acc, s : AddSymbol(acc, s, limits), b, symbols).graph
    BY <1>1, <1>3 DEF AddSymbols
  <2> QED
    BY <1>8, <2>1
<1> QED
  BY <1>7, <1>9 DEF AddSymbolGood

\* A member of a class joins the graph.
MemberOp(p, g, x) == AddEdge(g, x[1], x[2], "CLASS_CONTAINS_METHOD", limits)
GraphGood(p, n, g) == GraphOk(g)
MemberFold == INSTANCE FoldFacts WITH Op <- MemberOp, Good <- GraphGood

\* The pairs of a class and a method of it.
LEMMA MembersTypes ==
  ASSUME NEW g \in Graphs
  PROVE  Members(g) \in Seq(Ids \X Ids)
<1>1. PICK nodes \in Seq(GraphNode) : nodes = g.nodes
  BY DEF Graphs
<1>2. PICK classes \in Seq(GraphNode) : classes = NodesOf(g, "class")
  <2>1. NodesOf(g, "class") \in Seq(GraphNode)
    BY <1>1, KeptNoLonger DEF NodesOf
  <2> QED
    BY <2>1
<1>3. PICK methods \in Seq(GraphNode) : methods = NodesOf(g, "method")
  <2>1. NodesOf(g, "method") \in Seq(GraphNode)
    BY <1>1, KeptNoLonger DEF NodesOf
  <2> QED
    BY <2>1
<1> DEFINE inside(c) == Kept(methods, {m \in ToSet(g.nodes) :
                     m.id.file = c.id.file /\ m.first >= c.first /\ m.last <= c.last})
           pairs(c) == [j \in DOMAIN inside(c) |-> <<c.id, inside(c)[j].id>>]
           each == [i \in DOMAIN classes |-> pairs(classes[i])]
<1>4. Members(g) = FlattenSeq(each)
  BY <1>2, <1>3 DEF Members
<1>5. ASSUME NEW c \in GraphNode PROVE pairs(c) \in Seq(Ids \X Ids)
  <2>1. inside(c) \in Seq(GraphNode)
    BY KeptNoLonger
  <2>2. PICK s \in Seq(GraphNode) : s = inside(c)
    BY <2>1
  <2>3. PICK n \in Nat : DOMAIN s = 1 .. n
    OBVIOUS
  <2>4. \A j \in 1 .. n : <<c.id, s[j].id>> \in Ids \X Ids
    <3> TAKE j \in 1 .. n
    <3>1. PICK m \in GraphNode : m = s[j]
      BY <2>3
    <3> QED
      BY <3>1 DEF GraphNode
  <2>5. pairs(c) = [j \in 1 .. n |-> <<c.id, s[j].id>>]
    BY <2>2, <2>3
  <2>6. pairs(c) \in [1 .. n -> Ids \X Ids]
    <3> HIDE DEF pairs
    <3> QED
      BY <2>4, <2>5
  <2> HIDE DEF pairs
  <2> QED
    BY <2>6
<1> HIDE DEF pairs
<1>6. PICK n \in Nat : DOMAIN classes = 1 .. n
  OBVIOUS
<1>7. \A i \in 1 .. n : pairs(classes[i]) \in Seq(Ids \X Ids)
  <2> TAKE i \in 1 .. n
  <2>1. PICK c \in GraphNode : c = classes[i]
    BY <1>6
  <2> QED
    BY <1>5, <2>1
<1>8. each \in [1 .. n -> Seq(Ids \X Ids)]
  BY <1>6, <1>7
<1> HIDE DEF each
<1>9. each \in Seq(Seq(Ids \X Ids))
  BY <1>8
<1> QED
  BY <1>4, <1>9, FlattenElements

\* The members of all classes.
LEMMA AddMembersOk ==
  ASSUME InputsOk, NEW g, GraphOk(g)
  PROVE  GraphOk(AddMembers(g, limits))
<1>1. PICK pairs \in Seq(Ids \X Ids) : pairs = Members(g)
  BY MembersTypes DEF GraphOk
<1>2. DOMAIN pairs = 1 .. Len(pairs) /\ Len(pairs) \in Nat
  OBVIOUS
<1>3. "CLASS_CONTAINS_METHOD" \in EdgeTypes
  BY DEF EdgeTypes
<1>4. ASSUME NEW n \in 1 .. Len(pairs), NEW a, GraphGood(0, n - 1, a)
      PROVE  GraphGood(0, n, MemberOp(0, a, pairs[n]))
  BY <1>3, <1>4, AddEdgeOk DEF GraphGood, MemberOp
<1>5. GraphGood(0, 0, g)
  BY DEF GraphGood
<1>6. GraphGood(0, Len(pairs), MemberFold!Fold(0, g, pairs))
  BY <1>2, <1>4, <1>5, MemberFold!FoldKeeps, InductionOverNat DEF MemberFold!Inductive
<1>7. MemberFold!Fold(0, g, pairs) =
        FoldLeft(LAMBDA acc, p : AddEdge(acc, p[1], p[2], "CLASS_CONTAINS_METHOD", limits), g, pairs)
  BY DEF MemberFold!Fold, MemberOp, FoldLeft, MapThenFoldSet, MemberFold!IsFold, MemberFold!Step, MemberFold!Largest, Max
<1> QED
  BY <1>1, <1>6, <1>7 DEF GraphGood, AddMembers

\* The imports in turn.
AddImportOp(p, g, i) == AddImport(g, i, limits)
AddImportFold == INSTANCE FoldFacts WITH Op <- AddImportOp, Good <- GraphGood

\* An import joins two files.
LEMMA AddImportOk ==
  ASSUME InputsOk, NEW g, GraphOk(g), NEW i \in Imports
  PROVE  GraphOk(AddImport(g, i, limits))
<1>1. CASE i.target = 0
  BY <1>1 DEF AddImport
<1>2. CASE i.target # 0
  <2>1. i.file \in DOMAIN repo /\ i.target \in DOMAIN repo
    BY <1>2 DEF Imports
  <2>2. PICK h : h = AddFile(AddFile(g, i.file, limits), i.target, limits)
    OBVIOUS
  <2>3. GraphOk(h)
    BY <2>1, <2>2, AddFileOk
  <2>4. "FILE_IMPORTS_FILE" \in EdgeTypes
    BY DEF EdgeTypes
  <2>5. GraphOk(AddEdge(h, FileId(i.file), FileId(i.target), "FILE_IMPORTS_FILE", limits))
    BY <2>3, <2>4, AddEdgeOk
  <2> QED
    BY <1>2, <2>2, <2>5 DEF AddImport
<1> QED
  BY <1>1, <1>2

\* All imports.
LEMMA AddImportsOk ==
  ASSUME InputsOk, NEW g, GraphOk(g), NEW resolved \in Seq(Imports)
  PROVE  GraphOk(AddImports(g, resolved, limits))
<1>1. DOMAIN resolved = 1 .. Len(resolved) /\ Len(resolved) \in Nat
  OBVIOUS
<1>2. ASSUME NEW n \in 1 .. Len(resolved), NEW a, GraphGood(0, n - 1, a)
      PROVE  GraphGood(0, n, AddImportOp(0, a, resolved[n]))
  <2>1. PICK i \in Imports : i = resolved[n]
    OBVIOUS
  <2>2. GraphOk(AddImport(a, i, limits))
    BY <1>2, AddImportOk DEF GraphGood
  <2> QED
    BY <2>1, <2>2 DEF GraphGood, AddImportOp
<1>3. GraphGood(0, 0, g)
  BY DEF GraphGood
<1>4. GraphGood(0, Len(resolved), AddImportFold!Fold(0, g, resolved))
  BY <1>1, <1>2, <1>3, AddImportFold!FoldKeeps, InductionOverNat DEF AddImportFold!Inductive
<1>5. AddImportFold!Fold(0, g, resolved) = AddImports(g, resolved, limits)
  BY DEF AddImportFold!Fold, AddImportOp, AddImports, FoldLeft, MapThenFoldSet, AddImportFold!IsFold, AddImportFold!Step, AddImportFold!Largest, Max
<1> QED
  BY <1>4, <1>5 DEF GraphGood

\* The calls of a file, looked up in a graph g.
AddCallOp(p, acc, c) == AddCall(acc, c, p.g, p.file, limits)
AddCallFold == INSTANCE FoldFacts WITH Op <- AddCallOp, Good <- GraphGood

\* A call joins two symbols.
LEMMA AddCallOk ==
  ASSUME InputsOk, NEW acc, GraphOk(acc), NEW c, NEW g, NEW file
  PROVE  GraphOk(AddCall(acc, c, g, file, limits))
<1>1. PICK caller : caller = IF c.caller = NoName THEN Null ELSE LookupSymbol(g, c.caller, file)
  OBVIOUS
<1>2. PICK callee : callee = LookupSymbol(g, c.callee, file)
  OBVIOUS
<1>3. "FUNCTION_CALLS_FUNCTION" \in EdgeTypes
  BY DEF EdgeTypes
<1>4. GraphOk(AddEdge(acc, caller, callee, "FUNCTION_CALLS_FUNCTION", limits))
  BY <1>3, AddEdgeOk
<1>5. AddCall(acc, c, g, file, limits) =
        IF caller # Null /\ callee # Null /\ caller # callee
        THEN AddEdge(acc, caller, callee, "FUNCTION_CALLS_FUNCTION", limits) ELSE acc
  BY <1>1, <1>2, Zenon DEF AddCall
<1> QED
  BY <1>4, <1>5

\* The calls of a file.
LEMMA AddCallsOk ==
  ASSUME InputsOk, NEW g, GraphOk(g), NEW p \in Parses
  PROVE  GraphOk(AddCalls(g, p, MaxCalls, limits))
<1>0. PICK S : S = ToSet(p.calls)
  OBVIOUS
<1>1. PICK all \in Seq(S) : all = p.calls
  BY <1>0, ParsesAre DEF IsParse
<1>2. PICK calls \in Seq(S) : calls = SubSeq(all, 1, Min({MaxCalls, Len(all)}))
  BY EngineAssumption, PrefixOf
<1>3. PICK q : q = [g |-> g, file |-> p.file]
  OBVIOUS
<1>4. DOMAIN calls = 1 .. Len(calls) /\ Len(calls) \in Nat
  OBVIOUS
<1>5. ASSUME NEW n \in 1 .. Len(calls), NEW a, GraphGood(q, n - 1, a)
      PROVE  GraphGood(q, n, AddCallOp(q, a, calls[n]))
  BY <1>5, AddCallOk DEF GraphGood, AddCallOp
<1>6. GraphGood(q, 0, g)
  BY DEF GraphGood
<1>7. GraphGood(q, Len(calls), AddCallFold!Fold(q, g, calls))
  BY <1>4, <1>5, <1>6, AddCallFold!FoldKeeps, InductionOverNat DEF AddCallFold!Inductive
<1>8. AddCallFold!Fold(q, g, calls) = FoldLeft(LAMBDA acc, c : AddCall(acc, c, q.g, q.file, limits), g, calls)
  BY DEF AddCallFold!Fold, AddCallOp, FoldLeft, MapThenFoldSet, AddCallFold!IsFold, AddCallFold!Step, AddCallFold!Largest, Max
<1>9. AddCalls(g, p, MaxCalls, limits) = FoldLeft(LAMBDA acc, c : AddCall(acc, c, q.g, q.file, limits), g, calls)
  <2>1. q.g = g /\ q.file = p.file
    BY <1>3
  <2> QED
    BY <1>1, <1>2, <2>1 DEF AddCalls
<1> QED
  BY <1>7, <1>8, <1>9 DEF GraphGood

\* The files in turn.
SymbolsOp(p, g, x) == AddSymbols(g, x, limits)
SymbolsFold == INSTANCE FoldFacts WITH Op <- SymbolsOp, Good <- GraphGood
CallsOp(p, g, x) == AddCalls(g, x, MaxCalls, limits)
CallsFold == INSTANCE FoldFacts WITH Op <- CallsOp, Good <- GraphGood

\* The graph has room for its nodes and edges, and no edge dangles.
LEMMA BuildOk ==
  ASSUME InputsOk, NEW parsed \in Seq(Parses), NEW resolved \in Seq(Imports)
  PROVE  GraphOk(BuildCodeGraph(parsed, resolved, MaxCalls, limits))
<1>1. PICK ordered \in Seq(Parses) : ordered = Sorted(parsed, ByFile(parsed))
  BY SortedPermutes
<1>2. DOMAIN ordered = 1 .. Len(ordered) /\ Len(ordered) \in Nat
  OBVIOUS
<1>3. GraphOk(EmptyGraph)
  <2> DEFINE none == <<>>
  <2>1. /\ none \in Seq(GraphNode) /\ none \in Seq(GraphEdge) /\ Len(none) = 0 /\ DOMAIN none = {}
        /\ EmptyGraph = [nodes |-> none, edges |-> none]
    BY DEF EmptyGraph
  <2> HIDE DEF none
  <2> QED
    BY <2>1, GraphLimits DEF GraphOk, Graphs, GraphFits, Linked
<1>4. PICK withSymbols : withSymbols = FoldLeft(LAMBDA g, p : AddSymbols(g, p, limits), EmptyGraph, ordered)
  OBVIOUS
<1>5. GraphOk(withSymbols)
  <2>1. ASSUME NEW n \in 1 .. Len(ordered), NEW a, GraphGood(0, n - 1, a)
        PROVE  GraphGood(0, n, SymbolsOp(0, a, ordered[n]))
    <3>1. PICK p \in Parses : p = ordered[n]
      OBVIOUS
    <3>2. GraphOk(AddSymbols(a, p, limits))
      BY <2>1, AddSymbolsOk DEF GraphGood
    <3> QED
      BY <3>1, <3>2 DEF GraphGood, SymbolsOp
  <2>2. GraphGood(0, 0, EmptyGraph)
    BY <1>3 DEF GraphGood
  <2>3. GraphGood(0, Len(ordered), SymbolsFold!Fold(0, EmptyGraph, ordered))
    BY <1>2, <2>1, <2>2, SymbolsFold!FoldKeeps, InductionOverNat DEF SymbolsFold!Inductive
  <2>4. SymbolsFold!Fold(0, EmptyGraph, ordered) = withSymbols
    BY <1>4 DEF SymbolsFold!Fold, SymbolsOp, FoldLeft, MapThenFoldSet, SymbolsFold!IsFold, SymbolsFold!Step, SymbolsFold!Largest, Max
  <2> QED
    BY <2>3, <2>4 DEF GraphGood
<1>6. PICK linked : linked = AddImports(AddMembers(withSymbols, limits), resolved, limits)
  OBVIOUS
<1>7. GraphOk(linked)
  BY <1>5, <1>6, AddMembersOk, AddImportsOk
<1>8. ASSUME NEW n \in 1 .. Len(ordered), NEW a, GraphGood(0, n - 1, a)
      PROVE  GraphGood(0, n, CallsOp(0, a, ordered[n]))
  <2>1. PICK p \in Parses : p = ordered[n]
    OBVIOUS
  <2>2. GraphOk(AddCalls(a, p, MaxCalls, limits))
    BY <1>8, AddCallsOk DEF GraphGood
  <2> QED
    BY <2>1, <2>2 DEF GraphGood, CallsOp
<1>9. GraphGood(0, 0, linked)
  BY <1>7 DEF GraphGood
<1>10. GraphGood(0, Len(ordered), CallsFold!Fold(0, linked, ordered))
  BY <1>2, <1>8, <1>9, CallsFold!FoldKeeps, InductionOverNat DEF CallsFold!Inductive
<1>11. CallsFold!Fold(0, linked, ordered) = FoldLeft(LAMBDA g, p : AddCalls(g, p, MaxCalls, limits), linked, ordered)
  BY DEF CallsFold!Fold, CallsOp, FoldLeft, MapThenFoldSet, CallsFold!IsFold, CallsFold!Step, CallsFold!Largest, Max
<1>12. BuildCodeGraph(parsed, resolved, MaxCalls, limits) =
         FoldLeft(LAMBDA g, p : AddCalls(g, p, MaxCalls, limits), linked, ordered)
  BY <1>1, <1>4, <1>6 DEF BuildCodeGraph
<1> QED
  BY <1>10, <1>11, <1>12 DEF GraphGood

-----------------------------------------------------------------------------
(* What the agents are shown.                                              *)

\* A candidate has the reason it may be shown for.
Ranks == {"changed", "caller", "direct-dependency", "secondary-dependency"}
Cands == [relevance : Ranks, id : Ids, first : Nat, last : Nat]

\* A symbol as a candidate.
LEMMA CandidateTypes ==
  ASSUME InputsOk, NEW r \in Ranks, NEW s \in Syms
  PROVE  Candidate(r, s) \in Cands
<1>1. Id(s) \in Ids /\ s.first \in Nat /\ s.last \in Nat
  BY IdTypes, SymsTypes
<1> QED
  BY <1>1 DEF Candidate, Cands

\* Some symbols as candidates.
LEMMA CandidatesOf ==
  ASSUME InputsOk, NEW r \in Ranks, NEW s \in Seq(Syms)
  PROVE  [i \in DOMAIN s |-> Candidate(r, s[i])] \in Seq(Cands)
<1>1. PICK n \in Nat : DOMAIN s = 1 .. n
  OBVIOUS
<1>2. \A i \in 1 .. n : Candidate(r, s[i]) \in Cands
  <2> TAKE i \in 1 .. n
  <2>1. PICK x \in Syms : x = s[i]
    BY <1>1
  <2> QED
    BY <2>1, CandidateTypes
<1>3. [i \in DOMAIN s |-> Candidate(r, s[i])] \in [1 .. n -> Cands]
  BY <1>1, <1>2
<1> QED
  BY <1>3

\* The nodes of a graph.
Known(g) == {id \in Ids : Has(g, id)}

\* The callers are nodes, and the source of every call of one of the symbols is one.
LEMMA CallersTypes ==
  ASSUME NEW g, GraphOk(g), NEW ids, NEW lims
  PROVE  /\ Callers(g, ids, lims) \in Seq(Known(g))
         /\ \A e \in ToSet(g.edges) : e.type = "FUNCTION_CALLS_FUNCTION" /\ e.target \in ids =>
              e.source \in ToSet(Callers(g, ids, lims))
<1> DEFINE into(S) == Kept(g.edges, {e \in ToSet(g.edges) : e.type = "FUNCTION_CALLS_FUNCTION" /\ e.target \in S})
           E == {e \in GraphEdge : e.source \in Known(g)}
<1>1. g.edges \in Seq(E)
  <2>1. PICK edges \in Seq(GraphEdge) : edges = g.edges
    BY DEF GraphOk, Graphs
  <2>2. \A i \in DOMAIN edges : edges[i] \in E
    <3> TAKE i \in DOMAIN edges
    <3>1. PICK e \in GraphEdge : e = edges[i]
      OBVIOUS
    <3>2. Has(g, e.source)
      BY <2>1, <3>1 DEF GraphOk, Linked
    <3> QED
      BY <3>1, <3>2 DEF GraphEdge, Known
  <2> HIDE DEF E
  <2>3. PICK n \in Nat : DOMAIN edges = 1 .. n
    OBVIOUS
  <2>4. edges \in [1 .. n -> E]
    BY <2>2, <2>3
  <2> QED
    BY <2>1, <2>4
<1>2. \A e \in E : e.source \in Known(g)
  OBVIOUS
<1> HIDE DEF E
<1>3. \A S : into(S) \in Seq(E)
  BY <1>1, KeptNoLonger
<1>11. \A e \in ToSet(g.edges) : e.type = "FUNCTION_CALLS_FUNCTION" /\ e.target \in ids => e \in ToSet(into(ids))
  BY <1>1, KeptSet
<1> HIDE DEF into
<1> DEFINE second(e) == [i \in DOMAIN into({e.source}) |-> into({e.source})[i].source]
           of(e) == <<e.source>> \o IF lims.maxTraversalDepth > 1 THEN second(e) ELSE <<>>
           direct == into(ids)
           each == [i \in DOMAIN direct |-> of(direct[i])]
<1>4. Callers(g, ids, lims) = FlattenSeq(each)
  BY DEF Callers, into
<1>5. ASSUME NEW e \in E PROVE of(e) \in Seq(Known(g)) /\ e.source \in ToSet(of(e))
  <2>1. PICK s \in Seq(E) : s = into({e.source})
    BY <1>3
  <2>2. PICK n \in Nat : DOMAIN s = 1 .. n
    OBVIOUS
  <2>3. \A i \in 1 .. n : s[i].source \in Known(g)
    BY <1>2, <2>2
  <2>4. second(e) = [i \in 1 .. n |-> s[i].source]
    BY <2>1, <2>2
  <2>5. second(e) \in [1 .. n -> Known(g)]
    <3> HIDE DEF second
    <3> QED
      BY <2>3, <2>4
  <2> HIDE DEF second
  <2>6. second(e) \in Seq(Known(g))
    BY <2>5
  <2>7. e.source \in Known(g)
    BY <1>2
  <2>8. <<e.source>> \in Seq(Known(g)) /\ <<>> \in Seq(Known(g))
    BY <2>7
  <2>9. PICK t \in Seq(Known(g)) : t = IF lims.maxTraversalDepth > 1 THEN second(e) ELSE <<>>
    BY <2>6, <2>8
  <2>10. PICK one \in Seq(Known(g)) : one = <<e.source>> /\ e.source \in ToSet(one)
    <3>1. ToSet(<<e.source>>) = {e.source}
      BY DEF ToSet
    <3> QED
      BY <2>8, <3>1
  <2>11. one \o t \in Seq(Known(g)) /\ ToSet(one \o t) = ToSet(one) \cup ToSet(t)
    BY ConcatSet
  <2>12. of(e) = one \o t
    BY <2>9, <2>10
  <2> HIDE DEF of
  <2> QED
    BY <2>10, <2>11, <2>12
<1> HIDE DEF of
<1>6. direct \in Seq(E)
  BY <1>3
<1> HIDE DEF direct
<1>7. PICK n \in Nat : DOMAIN direct = 1 .. n
  BY <1>6
<1>8. \A i \in 1 .. n : of(direct[i]) \in Seq(Known(g))
  <2> TAKE i \in 1 .. n
  <2>1. PICK e \in E : e = direct[i]
    BY <1>6, <1>7
  <2> QED
    BY <1>5, <2>1
<1>9. each \in [1 .. n -> Seq(Known(g))]
  BY <1>7, <1>8
<1> HIDE DEF each
<1>10. each \in Seq(Seq(Known(g)))
  BY <1>9
<1>12. ASSUME NEW e \in ToSet(g.edges), e.type = "FUNCTION_CALLS_FUNCTION", e.target \in ids
       PROVE  e.source \in ToSet(Callers(g, ids, lims))
  <2>1. PICK i \in 1 .. n : direct[i] = e
    BY <1>7, <1>11, <1>12 DEF direct, ToSet
  <2>2. e \in E
    BY <1>6, <1>7, <2>1
  <2>3. i \in DOMAIN each /\ each[i] = of(e)
    BY <1>7, <2>1 DEF each
  <2>4. ToSet(each[i]) \subseteq ToSet(FlattenSeq(each))
    BY <1>10, <2>3, FlattenElements
  <2> QED
    BY <1>4, <1>5, <2>2, <2>3, <2>4
<1>13. FlattenSeq(each) \in Seq(Known(g))
  BY <1>10, FlattenElements
<1> QED
  BY <1>4, <1>12, <1>13

\* The exported symbols of the dependencies.
LEMMA DependenciesTypes ==
  ASSUME InputsOk, NEW deps \in Seq(Deps)
  PROVE  DependencyCandidates(deps) \in Seq(Cands)
<1> DEFINE relevance(dep) == IF dep.depth <= 1 THEN "direct-dependency" ELSE "secondary-dependency"
           exported(dep) == Kept(dep.parsed.symbols, {s \in ToSet(dep.parsed.symbols) : s.exported})
           of(dep) == [i \in DOMAIN exported(dep) |-> Candidate(relevance(dep), exported(dep)[i])]
           each == [i \in DOMAIN deps |-> of(deps[i])]
<1>1. DependencyCandidates(deps) = FlattenSeq(each)
  BY DEF DependencyCandidates
<1>2. ASSUME NEW dep \in Deps PROVE of(dep) \in Seq(Cands)
  <2>1. relevance(dep) \in Ranks
    BY DEF Ranks
  <2>2. dep.parsed.symbols \in Seq(Syms)
    BY ParsesAre DEF Deps, IsParse
  <2>3. exported(dep) \in Seq(Syms)
    BY <2>2, KeptNoLonger
  <2> HIDE DEF relevance, exported
  <2> QED
    BY <2>1, <2>3, CandidatesOf
<1> HIDE DEF of
<1>3. PICK n \in Nat : DOMAIN deps = 1 .. n
  OBVIOUS
<1>4. \A i \in 1 .. n : of(deps[i]) \in Seq(Cands)
  <2> TAKE i \in 1 .. n
  <2>1. PICK dep \in Deps : dep = deps[i]
    BY <1>3
  <2> QED
    BY <1>2, <2>1
<1>5. each \in [1 .. n -> Seq(Cands)]
  BY <1>3, <1>4
<1> HIDE DEF each
<1>6. each \in Seq(Seq(Cands))
  BY <1>5
<1> QED
  BY <1>1, <1>6, FlattenElements

\* Each candidate once.
LEMMA DistinctTypes ==
  ASSUME NEW s \in Seq(Cands)
  PROVE  Distinct(s) \in Seq(Cands)
<1> DEFINE K == {i \in DOMAIN s : \A j \in 1 .. i - 1 : s[j].id # s[i].id}
           first == Kept([i \in DOMAIN s |-> i], K)
<1>1. first \in Seq(DOMAIN s)
  <2> HIDE DEF K
  <2> QED
    BY Indices
<1>2. Distinct(s) = [n \in DOMAIN first |-> s[first[n]]]
  BY DEF Distinct
<1> HIDE DEF first
<1>3. PICK n \in Nat : DOMAIN first = 1 .. n
  BY <1>1
<1>4. \A i \in 1 .. n : s[first[i]] \in Cands
  BY <1>1, <1>3
<1>5. Distinct(s) \in [1 .. n -> Cands]
  BY <1>2, <1>3, <1>4
<1> QED
  BY <1>5

\* A set of indices that has with each one all before it is an interval.
LEMMA InitialInterval ==
  ASSUME NEW n \in Nat, NEW S, S \subseteq 1 .. n, \A j \in S : \A i \in 1 .. j : i \in S
  PROVE  Cardinality(S) \in 0 .. n /\ S = 1 .. Cardinality(S)
<1> DEFINE T == (1 .. n) \ S
<1>1. CASE T = {}
  <2>1. S = 1 .. n
    BY <1>1
  <2>2. Cardinality(1 .. n) = n
    BY UpTo
  <2> QED
    BY <2>1, <2>2
<1>2. CASE T # {}
  <2>1. PICK m \in T : \A i \in T : m <= i
    <3>1. T \subseteq Nat
      OBVIOUS
    <3> HIDE DEF T
    <3> QED
      BY <1>2, <3>1, LeastNat
  <2>2. m \in 1 .. n /\ m \notin S
    BY <2>1
  <2>3. PICK k \in Nat : k = m - 1 /\ k <= n
    BY <2>2
  <2>4. S = 1 .. k
    <3>1. ASSUME NEW i \in 1 .. k PROVE i \in S
      <4>1. i \in 1 .. n /\ ~ (m <= i)
        BY <2>2, <2>3
      <4> QED
        BY <2>1, <4>1
    <3>2. ASSUME NEW i \in S PROVE i \in 1 .. k
      <4>1. i \in 1 .. n
        OBVIOUS
      <4>2. ~ (m <= i)
        BY <2>2, <4>1
      <4> QED
        BY <2>2, <2>3, <4>1, <4>2
    <3> QED
      BY <3>1, <3>2
  <2>5. Cardinality(1 .. k) = k
    BY UpTo
  <2> QED
    BY <2>3, <2>4, <2>5
<1> QED
  BY <1>1, <1>2

\* No element comes before one in front of it.
InOrderOf(t, R) == \A i, j \in DOMAIN t : i < j => <<t[j], t[i]>> \notin R
\* R is a strict weak order on X.
Comparison(X, R) ==
  /\ \A x, y \in X : <<x, y>> \in R => <<y, x>> \notin R
  /\ \A x, y, z \in X : <<x, y>> \notin R /\ <<y, z>> \notin R => <<x, z>> \notin R

\* An element that is inserted leaves the others in order.
LEMMA InsertInOrder ==
  ASSUME NEW X, NEW R, Comparison(X, R), NEW t \in Seq(X), InOrderOf(t, R), NEW x \in X
  PROVE  Insert(t, x, R) \in Seq(X) /\ InOrderOf(Insert(t, x, R), R)
<1> DEFINE S == {i \in DOMAIN t : <<x, t[i]>> \notin R}
<1>1. PICK n \in Nat : n = Len(t) /\ DOMAIN t = 1 .. n
  OBVIOUS
<1>2. \A i \in 1 .. n : t[i] \in X
  BY <1>1
<1>3. \A j \in S : \A i \in 1 .. j : i \in S
  <2> SUFFICES ASSUME NEW j \in S, NEW i \in 1 .. j PROVE i \in S
    OBVIOUS
  <2>1. i \in 1 .. n /\ j \in 1 .. n /\ (i < j \/ i = j)
    BY <1>1
  <2>2. CASE i = j
    BY <2>2
  <2>3. CASE i < j
    <3>1. <<t[j], t[i]>> \notin R /\ <<x, t[j]>> \notin R
      BY <1>1, <2>1, <2>3 DEF InOrderOf
    <3>2. <<x, t[i]>> \notin R
      BY <1>2, <2>1, <3>1 DEF Comparison
    <3> QED
      BY <1>1, <2>1, <3>2
  <2> QED
    BY <2>1, <2>2, <2>3
<1>4. S \subseteq 1 .. n
  BY <1>1
<1>5. \A i \in 1 .. n : i \in S <=> <<x, t[i]>> \notin R
  BY <1>1
<1>6. Insert(t, x, R) = InsertAt(t, Cardinality(S) + 1, x)
  BY DEF Insert
<1> HIDE DEF S
<1>7. Cardinality(S) \in 0 .. n /\ S = 1 .. Cardinality(S)
  BY <1>3, <1>4, InitialInterval
<1>8. PICK k \in 1 .. n + 1 : k = Cardinality(S) + 1
  BY <1>7
<1>9. \A i \in 1 .. n : i < k <=> <<x, t[i]>> \notin R
  BY <1>5, <1>7, <1>8
<1>10. PICK u : u = Insert(t, x, R)
  OBVIOUS
<1>11. /\ u \in Seq(X) /\ Len(u) = n + 1
       /\ \A i \in 1 .. n + 1 : u[i] = IF i < k THEN t[i] ELSE IF i = k THEN x ELSE t[i - 1]
  <2>1. k \in 1 .. Len(t) + 1
    BY <1>1
  <2>2. u = InsertAt(t, k, x)
    BY <1>6, <1>8, <1>10
  <2>3. /\ u \in Seq(X) /\ Len(u) = Len(t) + 1
        /\ \A i \in 1 .. Len(t) + 1 : u[i] = IF i < k THEN t[i] ELSE IF i = k THEN x ELSE t[i - 1]
    <3>1. /\ InsertAt(t, k, x) \in Seq(X) /\ Len(InsertAt(t, k, x)) = Len(t) + 1
          /\ \A i \in 1 .. Len(t) + 1 :
               InsertAt(t, k, x)[i] = IF i < k THEN t[i] ELSE IF i = k THEN x ELSE t[i - 1]
      BY ONLY <2>1, InsertElements, t \in Seq(X), x \in X
    <3> QED
      BY ONLY <2>2, <3>1
  <2> QED
    BY <1>1, <2>3
<1>12. ASSUME NEW i \in 1 .. n + 1, NEW j \in 1 .. n + 1, i < j PROVE <<u[j], u[i]>> \notin R
  <2>0. i \in Nat /\ j \in Nat /\ k \in Nat
    OBVIOUS
  <2>1. CASE j < k
    <3>1. u[j] = t[j] /\ u[i] = t[i] /\ i \in 1 .. n /\ j \in 1 .. n
      BY <1>11, <1>12, <2>0, <2>1
    <3> QED
      BY <1>1, <1>12, <3>1 DEF InOrderOf
  <2>2. CASE j = k
    <3>1. u[j] = x /\ u[i] = t[i] /\ i \in 1 .. n /\ i < k
      BY <1>11, <1>12, <2>0, <2>2
    <3> QED
      BY <1>9, <3>1
  <2>3. CASE j > k /\ i < k
    <3>1. u[j] = t[j - 1] /\ u[i] = t[i] /\ i \in 1 .. n /\ j - 1 \in 1 .. n /\ i < j - 1
      BY <1>11, <1>12, <2>0, <2>3
    <3> QED
      BY <1>1, <3>1 DEF InOrderOf
  <2>4. CASE j > k /\ i = k
    <3>1. u[j] = t[j - 1] /\ u[i] = x /\ j - 1 \in 1 .. n /\ ~ (j - 1 < k)
      BY <1>11, <1>12, <2>0, <2>4
    <3>2. <<x, t[j - 1]>> \in R
      BY <1>9, <3>1
    <3> QED
      BY <1>2, <3>1, <3>2 DEF Comparison
  <2>5. CASE j > k /\ i > k
    <3>1. u[j] = t[j - 1] /\ u[i] = t[i - 1] /\ i - 1 \in 1 .. n /\ j - 1 \in 1 .. n /\ i - 1 < j - 1
      BY <1>11, <1>12, <2>0, <2>5
    <3> QED
      BY <1>1, <3>1 DEF InOrderOf
  <2> QED
    BY <2>0, <2>1, <2>2, <2>3, <2>4, <2>5
<1>13. DOMAIN u = 1 .. n + 1
  BY <1>11
<1> QED
  BY <1>10, <1>11, <1>12, <1>13 DEF InOrderOf

\* Array.prototype.sort sorts.
LEMMA SortedInOrder ==
  ASSUME NEW X, NEW R, Comparison(X, R), NEW s \in Seq(X)
  PROVE  InOrderOf(Sorted(s, R), R)
<1> DEFINE p == [of |-> s, order |-> R]
           none == <<>>
<1>1. PICK N \in Nat : N = Len(s) /\ DOMAIN s = 1 .. N
  OBVIOUS
<1>2. Sort!Fold(p, none, s) = Sorted(s, R)
  BY DEF Sort!Fold, InsertOp, Sorted, FoldLeft, MapThenFoldSet, Sort!IsFold, Sort!Step, Sort!Largest, Max
<1>3. p.order = R
  OBVIOUS
<1>4. none \in Seq(X) /\ DOMAIN none = {}
  OBVIOUS
<1> HIDE DEF p, none
<1>5. PICK v : Sort!Results(p, none, s, v, N) /\ Sort!Fold(p, none, s) = v[N]
  <2>1. Sort!Inductive
    BY InductionOverNat DEF Sort!Inductive
  <2> QED
    BY <1>1, <2>1, Sort!FoldSteps
<1>6. v[0] = none /\ \A n \in 1 .. N : v[n] = Insert(v[n - 1], s[n], R)
  BY <1>3, <1>5 DEF Sort!Results, InsertOp
<1> DEFINE M == {n \in Nat : n <= N => v[n] \in Seq(X) /\ InOrderOf(v[n], R)}
<1>7. 0 \in M
  BY <1>4, <1>6 DEF InOrderOf
<1>8. ASSUME NEW n \in Nat, n \in M PROVE n + 1 \in M
  <2> SUFFICES ASSUME n + 1 <= N PROVE v[n + 1] \in Seq(X) /\ InOrderOf(v[n + 1], R)
    OBVIOUS
  <2>1. n + 1 \in 1 .. N /\ (n + 1) - 1 = n /\ n <= N
    BY <1>1
  <2>2. v[n] \in Seq(X) /\ InOrderOf(v[n], R)
    BY <1>8, <2>1
  <2>3. s[n + 1] \in X
    BY <1>1, <2>1
  <2>4. v[n + 1] = Insert(v[n], s[n + 1], R)
    BY <1>6, <2>1
  <2> QED
    BY <2>2, <2>3, <2>4, InsertInOrder
<1>9. Nat \subseteq M
  <2> HIDE DEF M
  <2> QED
    BY <1>7, <1>8, SetInduction
<1>10. InOrderOf(v[N], R)
  BY <1>9
<1> QED
  BY <1>2, <1>5, <1>10

\* The places of the reasons.
LEMMA Places ==
  /\ Place("changed") = 1 /\ Place("caller") = 2 /\ Place("direct-dependency") = 3
  /\ Place("secondary-dependency") = 4
  /\ \A r \in Ranks : Priority(r) = Place(r) /\ Place(r) \in Nat
<1>1. /\ DOMAIN Relevances = 1 .. 4 /\ Relevances[1] = "changed" /\ Relevances[2] = "caller"
      /\ Relevances[3] = "direct-dependency" /\ Relevances[4] = "secondary-dependency"
  BY DEF Relevances
<1>2. \A n \in 1 .. 4 : n = 1 \/ n = 2 \/ n = 3 \/ n = 4
  OBVIOUS
<1>3. \A n \in 1 .. 4 : Relevances[n] = "changed" <=> n = 1
  BY <1>1, <1>2
<1>4. \A n \in 1 .. 4 : Relevances[n] = "caller" <=> n = 2
  BY <1>1, <1>2
<1>5. \A n \in 1 .. 4 : Relevances[n] = "direct-dependency" <=> n = 3
  BY <1>1, <1>2
<1>6. \A n \in 1 .. 4 : Relevances[n] = "secondary-dependency" <=> n = 4
  BY <1>1, <1>2
<1>7. Place("changed") = 1
  BY <1>1, <1>3 DEF Place
<1>8. Place("caller") = 2
  BY <1>1, <1>4 DEF Place
<1>9. Place("direct-dependency") = 3
  BY <1>1, <1>5 DEF Place
<1>10. Place("secondary-dependency") = 4
  BY <1>1, <1>6 DEF Place
<1>11. \A r : Priority(r) = Place(r)
  BY DEF Place, Priority
<1> QED
  BY <1>7, <1>8, <1>9, <1>10, <1>11 DEF Ranks

\* The order of the candidates.
Earlier(T) == {p \in T \X T : Before(p[1], p[2])}
LEMMA BeforeCompares ==
  ASSUME InputsOk, NEW T, T \subseteq Cands
  PROVE  /\ Comparison(T, Earlier(T))
         /\ \A x, y \in T : <<y, x>> \notin Earlier(T) => Place(x.relevance) <= Place(y.relevance)
<1>1. \A x \in T : /\ x.relevance \in Ranks /\ x.id.file \in Nat /\ x.first \in Nat
                   /\ Priority(x.relevance) = Place(x.relevance) /\ Place(x.relevance) \in Nat
  <2> TAKE x \in T
  <2>1. x \in Cands
    OBVIOUS
  <2>2. x.relevance \in Ranks /\ x.id \in Ids /\ x.first \in Nat
    BY <2>1 DEF Cands
  <2>3. x.id.file \in DOMAIN repo
    BY <2>2 DEF Ids
  <2>4. x.id.file \in Nat
    BY <2>3, FileTypes
  <2> QED
    BY <2>2, <2>4, Places
<1>2. \A r, q \in Ranks : Place(r) = Place(q) => r = q
  BY Places DEF Ranks
<1>3. \A x, y \in T : <<x, y>> \in Earlier(T) <=> Before(x, y)
  BY DEF Earlier
<1>4. \A x, y \in T : Before(x, y) <=>
        \/ Place(x.relevance) < Place(y.relevance)
        \/ /\ Place(x.relevance) = Place(y.relevance)
           /\ x.id.file < y.id.file \/ (x.id.file = y.id.file /\ x.first < y.first)
  BY <1>1, <1>2, Zenon DEF Before
<1>5. ASSUME NEW x \in T, NEW y \in T, Before(x, y) PROVE ~ Before(y, x)
  <2>1. PICK a \in Nat, b \in Nat : a = Place(x.relevance) /\ b = Place(y.relevance)
    BY <1>1
  <2>2. PICK c \in Nat, d \in Nat : c = x.id.file /\ d = y.id.file
    BY <1>1
  <2>3. PICK e \in Nat, f \in Nat : e = x.first /\ f = y.first
    BY <1>1
  <2>4. a < b \/ (a = b /\ (c < d \/ (c = d /\ e < f)))
    BY <1>4, <1>5, <2>1, <2>2, <2>3
  <2>5. ~ (b < a \/ (b = a /\ (d < c \/ (d = c /\ f < e))))
    BY <2>4
  <2> QED
    BY <1>4, <2>1, <2>2, <2>3, <2>5
<1>6. ASSUME NEW x \in T, NEW y \in T, NEW z \in T, ~ Before(x, y), ~ Before(y, z) PROVE ~ Before(x, z)
  <2>1. PICK a \in Nat, b \in Nat, g \in Nat :
          a = Place(x.relevance) /\ b = Place(y.relevance) /\ g = Place(z.relevance)
    BY <1>1
  <2>2. PICK c \in Nat, d \in Nat, h \in Nat : c = x.id.file /\ d = y.id.file /\ h = z.id.file
    BY <1>1
  <2>3. PICK e \in Nat, f \in Nat, i \in Nat : e = x.first /\ f = y.first /\ i = z.first
    BY <1>1
  <2>4. ~ (a < b \/ (a = b /\ (c < d \/ (c = d /\ e < f))))
    BY <1>4, <1>6, <2>1, <2>2, <2>3
  <2>5. ~ (b < g \/ (b = g /\ (d < h \/ (d = h /\ f < i))))
    BY <1>4, <1>6, <2>1, <2>2, <2>3
  <2>6. ~ (a < g \/ (a = g /\ (c < h \/ (c = h /\ e < i))))
    BY <2>4, <2>5
  <2> QED
    BY <1>4, <2>1, <2>2, <2>3, <2>6
<1>7. ASSUME NEW x \in T, NEW y \in T, ~ Before(y, x) PROVE Place(x.relevance) <= Place(y.relevance)
  <2>1. PICK a \in Nat, b \in Nat : a = Place(x.relevance) /\ b = Place(y.relevance)
    BY <1>1
  <2>2. ~ (b < a)
    BY <1>4, <1>7, <2>1
  <2> QED
    BY <2>1, <2>2
<1>8. Comparison(T, Earlier(T))
  <2> HIDE DEF Earlier
  <2> QED
    BY <1>3, <1>5, <1>6, Zenon DEF Comparison
<1> QED
  BY <1>3, <1>7, <1>8

\* Of each id the first candidate is kept, and no other.
LEMMA DistinctFirst ==
  ASSUME NEW s \in Seq(Cands), NEW d, d = Distinct(s)
  PROVE  /\ d \in Seq(Cands)
         /\ \A i, j \in DOMAIN d : d[i].id = d[j].id => i = j
         /\ \A i \in DOMAIN s : \E j \in 1 .. i, k \in DOMAIN d : j \in DOMAIN s /\ d[k] = s[j] /\ s[j].id = s[i].id
         /\ \A k \in DOMAIN d : \E j \in DOMAIN s : d[k] = s[j] /\ \A i \in 1 .. j - 1 : s[i].id # s[j].id
<1> DEFINE K == {i \in DOMAIN s : \A j \in 1 .. i - 1 : s[j].id # s[i].id}
           at == [i \in DOMAIN s |-> i]
           first == Kept(at, K)
<1>1. PICK N \in Nat : N = Len(s) /\ DOMAIN s = 1 .. N
  OBVIOUS
<1>2. at \in Seq(1 .. N) /\ Len(at) = N /\ \A i \in 1 .. N : at[i] = i
  BY <1>1
<1>3. d = [n \in DOMAIN first |-> s[first[n]]]
  BY DEF Distinct
<1>4. \A i \in 1 .. N : i \in K <=> \A j \in 1 .. i - 1 : s[j].id # s[i].id
  BY <1>1
<1> HIDE DEF at, K
<1>5. PICK h : first \in Seq(1 .. N) /\ Embeds(h, first, at, N, K)
  BY <1>2, KeptFacts
<1>6. PICK m \in Nat : DOMAIN first = 1 .. m /\ Len(first) = m
  BY <1>5
<1>7. /\ \A k \in 1 .. m : h[k] \in 1 .. N /\ first[k] = h[k] /\ h[k] \in K
      /\ \A j, k \in 1 .. m : j < k => h[j] < h[k]
      /\ \A i \in 1 .. N : i \in K => \E k \in 1 .. m : h[k] = i
  BY <1>2, <1>5, <1>6 DEF Embeds
<1> HIDE DEF first
<1>8. DOMAIN d = 1 .. m /\ \A k \in 1 .. m : d[k] = s[h[k]]
  BY <1>3, <1>6, <1>7
<1>9. d \in Seq(Cands)
  BY DistinctTypes
<1>10. ASSUME NEW i \in 1 .. m, NEW j \in 1 .. m, d[i].id = d[j].id PROVE i = j
  <2>1. \A a, b \in 1 .. m : a < b => d[a].id # d[b].id
    <3> SUFFICES ASSUME NEW a \in 1 .. m, NEW b \in 1 .. m, a < b PROVE d[a].id # d[b].id
      OBVIOUS
    <3>1. h[a] \in 1 .. N /\ h[b] \in 1 .. N /\ h[a] < h[b] /\ h[b] \in K
      BY <1>7
    <3>2. h[a] \in 1 .. h[b] - 1
      BY <3>1
    <3>3. s[h[a]].id # s[h[b]].id
      BY <1>4, <3>1, <3>2
    <3> QED
      BY <1>8, <3>3
  <2>2. i < j \/ j < i \/ i = j
    OBVIOUS
  <2> QED
    BY <1>10, <2>1, <2>2
<1>11. ASSUME NEW i \in 1 .. N
       PROVE  \E j \in 1 .. i, k \in 1 .. m : j \in 1 .. N /\ d[k] = s[j] /\ s[j].id = s[i].id
  <2> DEFINE T == {j \in 1 .. i : s[j].id = s[i].id}
  <2>1. T \subseteq Nat /\ i \in T
    OBVIOUS
  <2>2. PICK j \in T : \A n \in T : j <= n
    <3> HIDE DEF T
    <3> QED
      BY <2>1, LeastNat
  <2>3. j \in 1 .. i /\ j \in 1 .. N /\ s[j].id = s[i].id
    OBVIOUS
  <2>4. \A n \in 1 .. j - 1 : s[n].id # s[j].id
    <3> SUFFICES ASSUME NEW n \in 1 .. j - 1, s[n].id = s[j].id PROVE FALSE
      OBVIOUS
    <3>1. n \in 1 .. i /\ ~ (j <= n) /\ s[n].id = s[i].id
      BY <2>3
    <3>2. n \in T
      BY <3>1
    <3> HIDE DEF T
    <3> QED
      BY <2>2, <3>1, <3>2
  <2>5. PICK k \in 1 .. m : h[k] = j
    BY <1>4, <1>7, <2>3, <2>4
  <2> QED
    BY <1>8, <2>3, <2>5
<1>12. ASSUME NEW k \in 1 .. m
       PROVE  \E j \in 1 .. N : d[k] = s[j] /\ \A i \in 1 .. j - 1 : s[i].id # s[j].id
  BY <1>4, <1>7, <1>8
<1>13. DOMAIN s = 1 .. N /\ DOMAIN d = 1 .. m
  BY <1>1, <1>8
<1>14. \A i, j \in DOMAIN d : d[i].id = d[j].id => i = j
  BY <1>10, <1>13
<1>15. \A i \in DOMAIN s : \E j \in 1 .. i, k \in DOMAIN d : j \in DOMAIN s /\ d[k] = s[j] /\ s[j].id = s[i].id
  <2> SUFFICES ASSUME NEW i \in 1 .. N
               PROVE  \E j \in 1 .. i, k \in DOMAIN d : j \in DOMAIN s /\ d[k] = s[j] /\ s[j].id = s[i].id
    BY <1>13
  <2>1. PICK j \in 1 .. i, k \in 1 .. m : j \in 1 .. N /\ d[k] = s[j] /\ s[j].id = s[i].id
    BY <1>11
  <2> QED
    BY <1>13, <2>1
<1>16. \A k \in DOMAIN d : \E j \in DOMAIN s : d[k] = s[j] /\ \A i \in 1 .. j - 1 : s[i].id # s[j].id
  BY <1>12, <1>13
<1> QED
  BY <1>9, <1>14, <1>15, <1>16

\* The candidates in the order of their reasons, each id once.
Placed(t) == \A i, j \in DOMAIN t : i < j => Place(t[i].relevance) <= Place(t[j].relevance)
Once(t) == \A i, j \in DOMAIN t : t[i].id = t[j].id => i = j

\* For one of these reasons only, for neither of the first two, and with what
\* these candidates show.
Reasons(a, R) == \A i \in DOMAIN a : a[i].relevance \in R
NotFirst(a) == \A i \in DOMAIN a : a[i].relevance \notin {"changed", "caller"}
Holds(t, a, R) == \A i \in DOMAIN a : \E k \in DOMAIN t : t[k].id = a[i].id /\ t[k].relevance \in R
ChangedFrom(t, a) == \A k \in DOMAIN t : t[k].relevance = "changed" => \E i \in DOMAIN a : a[i].id = t[k].id

\* Of candidates that start with the changed symbols and the callers, each once.
LEMMA DistinctReasons ==
  ASSUME InputsOk, NEW a \in Seq(Cands), NEW b \in Seq(Cands), NEW d \in Seq(Cands),
         NEW t, t = Distinct(a \o b \o d),
         Reasons(a, {"changed"}), Reasons(b, {"caller"}), NotFirst(d)
  PROVE  /\ t \in Seq(Cands) /\ Once(t)
         /\ Holds(t, a, {"changed"}) /\ Holds(t, b, {"changed", "caller"}) /\ ChangedFrom(t, a)
<1>1. PICK e \in Seq(Cands) : /\ e = a \o b /\ Len(e) = Len(a) + Len(b) /\ Len(a) \in Nat /\ Len(b) \in Nat
                              /\ \A i \in 1 .. Len(a) : e[i] = a[i]
                              /\ \A i \in 1 .. Len(b) : e[Len(a) + i] = b[i]
  <2>1. PICK e \in Seq(Cands) : e = a \o b
    BY ConcatAt
  <2>2. /\ Len(e) = Len(a) + Len(b) /\ Len(a) \in Nat /\ Len(b) \in Nat
        /\ \A i \in 1 .. Len(a) : e[i] = a[i]
        /\ \A i \in 1 .. Len(b) : e[Len(a) + i] = b[i]
    BY <2>1, ConcatAt
  <2> QED
    BY <2>1, <2>2
<1>2. PICK s \in Seq(Cands) : /\ s = e \o d /\ Len(s) = Len(e) + Len(d) /\ Len(d) \in Nat
                              /\ \A i \in 1 .. Len(e) : s[i] = e[i]
                              /\ \A i \in 1 .. Len(d) : s[Len(e) + i] = d[i]
  <2>1. PICK s \in Seq(Cands) : s = e \o d
    BY ConcatAt
  <2>2. /\ Len(s) = Len(e) + Len(d) /\ Len(d) \in Nat
        /\ \A i \in 1 .. Len(e) : s[i] = e[i]
        /\ \A i \in 1 .. Len(d) : s[Len(e) + i] = d[i]
    BY <2>1, ConcatAt
  <2> QED
    BY <2>1, <2>2
<1>3. t = Distinct(s)
  BY <1>1, <1>2
<1>4. PICK A \in Nat, B \in Nat, D \in Nat : A = Len(a) /\ B = Len(b) /\ D = Len(d)
  BY <1>1, <1>2
<1>5. /\ DOMAIN a = 1 .. A /\ DOMAIN b = 1 .. B /\ DOMAIN d = 1 .. D /\ DOMAIN s = 1 .. A + B + D
      /\ \A i \in 1 .. A : s[i] = a[i]
      /\ \A i \in 1 .. B : s[A + i] = b[i]
      /\ \A i \in 1 .. D : s[A + B + i] = d[i]
  <2>1. DOMAIN a = 1 .. A /\ DOMAIN b = 1 .. B /\ DOMAIN d = 1 .. D /\ DOMAIN s = 1 .. A + B + D /\ Len(e) = A + B
    BY <1>1, <1>2, <1>4
  <2>2. \A i \in 1 .. A : i \in 1 .. Len(e)
    BY <2>1
  <2>3. \A i \in 1 .. B : A + i \in 1 .. Len(e)
    BY <2>1
  <2> QED
    BY <1>1, <1>2, <1>4, <2>1, <2>2, <2>3
<1>6. \A i \in 1 .. A : s[i].relevance = "changed"
  BY <1>5 DEF Reasons
<1>7. \A i \in 1 .. A + B : s[i].relevance \in {"changed", "caller"}
  <2> TAKE i \in 1 .. A + B
  <2>1. CASE i <= A
    BY <1>6, <2>1
  <2>2. CASE i > A
    <3>1. PICK j \in 1 .. B : i = A + j
      <4>1. i - A \in 1 .. B /\ i = A + (i - A)
        BY <2>2
      <4> QED
        BY <4>1
    <3>2. s[i] = b[j] /\ j \in DOMAIN b
      BY <1>5, <3>1
    <3> QED
      BY <3>2 DEF Reasons
  <2> QED
    BY <2>1, <2>2
<1>8. \A i \in DOMAIN s : s[i].relevance = "changed" => i \in 1 .. A
  <2> SUFFICES ASSUME NEW i \in DOMAIN s, ~ (i \in 1 .. A) PROVE s[i].relevance # "changed"
    OBVIOUS
  <2>1. i \in 1 .. A + B + D /\ i > A
    BY <1>5
  <2>2. CASE i <= A + B
    <3>1. PICK j \in 1 .. B : i = A + j
      <4>1. i - A \in 1 .. B /\ i = A + (i - A)
        BY <2>1, <2>2
      <4> QED
        BY <4>1
    <3>2. s[i] = b[j] /\ j \in DOMAIN b
      BY <1>5, <3>1
    <3> QED
      BY <3>2 DEF Reasons
  <2>3. CASE i > A + B
    <3>1. PICK j \in 1 .. D : i = A + B + j
      <4>1. i - (A + B) \in 1 .. D /\ i = A + B + (i - (A + B))
        BY <2>1, <2>3
      <4> QED
        BY <4>1
    <3>2. s[i] = d[j] /\ j \in DOMAIN d
      BY <1>5, <3>1
    <3> QED
      BY <3>2 DEF NotFirst
  <2> QED
    BY <2>1, <2>2, <2>3
<1>9. /\ t \in Seq(Cands)
      /\ \A i, j \in DOMAIN t : t[i].id = t[j].id => i = j
      /\ \A i \in DOMAIN s : \E j \in 1 .. i, k \in DOMAIN t : j \in DOMAIN s /\ t[k] = s[j] /\ s[j].id = s[i].id
      /\ \A k \in DOMAIN t : \E j \in DOMAIN s : t[k] = s[j]
  <2>1. /\ t \in Seq(Cands)
        /\ \A i, j \in DOMAIN t : t[i].id = t[j].id => i = j
        /\ \A i \in DOMAIN s : \E j \in 1 .. i, k \in DOMAIN t : j \in DOMAIN s /\ t[k] = s[j] /\ s[j].id = s[i].id
        /\ \A k \in DOMAIN t : \E j \in DOMAIN s : t[k] = s[j] /\ \A i \in 1 .. j - 1 : s[i].id # s[j].id
    BY <1>3, DistinctFirst
  <2>2. \A k \in DOMAIN t : \E j \in DOMAIN s : t[k] = s[j]
    BY <2>1
  <2> QED
    BY <2>1, <2>2
<1>10. ASSUME NEW i \in DOMAIN a
       PROVE  \E k \in DOMAIN t : t[k].id = a[i].id /\ t[k].relevance = "changed"
  <2>1. i \in 1 .. A /\ i \in DOMAIN s
    BY <1>5
  <2>2. PICK j \in 1 .. i, k \in DOMAIN t : t[k] = s[j] /\ s[j].id = s[i].id
    BY <1>9, <2>1
  <2>3. j \in 1 .. A
    BY <2>1
  <2> QED
    BY <1>5, <1>6, <2>1, <2>2, <2>3
<1>11. ASSUME NEW i \in DOMAIN b
       PROVE  \E k \in DOMAIN t : t[k].id = b[i].id /\ t[k].relevance \in {"changed", "caller"}
  <2>1. i \in 1 .. B /\ A + i \in DOMAIN s /\ s[A + i] = b[i]
    BY <1>5
  <2>2. PICK j \in 1 .. A + i, k \in DOMAIN t : t[k] = s[j] /\ s[j].id = s[A + i].id
    BY <1>9, <2>1
  <2>3. j \in 1 .. A + B
    BY <2>1
  <2> QED
    BY <1>7, <2>1, <2>2, <2>3
<1>12. ASSUME NEW k \in DOMAIN t, t[k].relevance = "changed" PROVE \E i \in DOMAIN a : a[i].id = t[k].id
  <2>1. PICK j \in DOMAIN s : t[k] = s[j]
    BY <1>9
  <2>2. j \in 1 .. A
    BY <1>8, <1>12, <2>1
  <2> QED
    BY <1>5, <2>1, <2>2
<1> QED
  BY <1>9, <1>10, <1>11, <1>12 DEF Once, Holds, ChangedFrom

\* The candidates of dependencies have neither of the first two reasons.
LEMMA DependencyReasons ==
  ASSUME InputsOk, NEW deps \in Seq(Deps)
  PROVE  NotFirst(DependencyCandidates(deps))
<1> DEFINE relevance(dep) == IF dep.depth <= 1 THEN "direct-dependency" ELSE "secondary-dependency"
           exported(dep) == Kept(dep.parsed.symbols, {s \in ToSet(dep.parsed.symbols) : s.exported})
           of(dep) == [j \in DOMAIN exported(dep) |-> Candidate(relevance(dep), exported(dep)[j])]
           each == [j \in DOMAIN deps |-> of(deps[j])]
           X == {c \in Cands : c.relevance \notin {"changed", "caller"}}
<1>1. DependencyCandidates(deps) = FlattenSeq(each)
  BY DEF DependencyCandidates
<1>2. ASSUME NEW dep \in Deps PROVE of(dep) \in Seq(X)
  <2>1. relevance(dep) \in Ranks /\ relevance(dep) \notin {"changed", "caller"}
    BY DEF Ranks
  <2>2. dep.parsed.symbols \in Seq(Syms)
    BY ParsesAre DEF Deps, IsParse
  <2>3. exported(dep) \in Seq(Syms)
    BY <2>2, KeptNoLonger
  <2> HIDE DEF relevance, exported
  <2>4. PICK u \in Seq(Syms) : u = exported(dep)
    BY <2>3
  <2>5. PICK r : r = relevance(dep)
    OBVIOUS
  <2>6. PICK n \in Nat : DOMAIN u = 1 .. n
    OBVIOUS
  <2>7. \A j \in 1 .. n : Candidate(r, u[j]) \in X
    <3> TAKE j \in 1 .. n
    <3>1. PICK s \in Syms : s = u[j]
      BY <2>6
    <3>2. Candidate(r, s) \in Cands
      BY <2>1, <2>5, CandidateTypes
    <3>3. Candidate(r, s).relevance = r
      BY DEF Candidate
    <3> QED
      BY <2>1, <2>5, <3>1, <3>2, <3>3
  <2>8. of(dep) = [j \in 1 .. n |-> Candidate(r, u[j])]
    BY <2>4, <2>5, <2>6
  <2> HIDE DEF of, X
  <2>9. of(dep) \in [1 .. n -> X]
    BY <2>7, <2>8
  <2> QED
    BY <2>9
<1>3. PICK n \in Nat : DOMAIN deps = 1 .. n
  OBVIOUS
<1> HIDE DEF of, X
<1>4. \A j \in 1 .. n : of(deps[j]) \in Seq(X)
  <2> TAKE j \in 1 .. n
  <2>1. PICK dep \in Deps : dep = deps[j]
    BY <1>3
  <2> QED
    BY <1>2, <2>1
<1>5. each \in [1 .. n -> Seq(X)]
  BY <1>3, <1>4
<1> HIDE DEF each
<1>6. each \in Seq(Seq(X))
  BY <1>5
<1>7. DependencyCandidates(deps) \in Seq(X)
  BY <1>1, <1>6, FlattenElements
<1>8. PICK d \in Seq(X) : d = DependencyCandidates(deps)
  BY <1>7
<1>9. \A i \in DOMAIN d : d[i] \in X
  OBVIOUS
<1> QED
  BY <1>8, <1>9 DEF X, NotFirst

\* The node of an id.
LEMMA NodeTypes ==
  ASSUME NEW g, GraphOk(g), NEW id \in Known(g)
  PROVE  (CHOOSE n \in ToSet(g.nodes) : n.id = id) \in GraphNode
<1>1. PICK nodes \in Seq(GraphNode) : nodes = g.nodes
  BY DEF GraphOk, Graphs
<1>2. PICK i \in DOMAIN nodes : nodes[i].id = id
  BY <1>1 DEF Known, Has
<1>3. ToSet(nodes) \subseteq GraphNode /\ nodes[i] \in ToSet(nodes)
  BY DEF ToSet
<1>4. (CHOOSE n \in ToSet(g.nodes) : n.id = id) \in ToSet(nodes)
  BY <1>1, <1>2, <1>3
<1> QED
  BY <1>3, <1>4

\* The candidates sorted: the same ones, in the order of their reasons.
LEMMA SortedCandidates ==
  ASSUME InputsOk, NEW all \in Seq(Cands), Once(all), NEW r, r = Sorted(all, Earlier(ToSet(all)))
  PROVE  /\ r \in Seq(Cands) /\ Placed(r) /\ Once(r)
         /\ \A m \in DOMAIN all : \E k \in DOMAIN r : r[k] = all[m]
         /\ \A k \in DOMAIN r : \E m \in DOMAIN all : r[k] = all[m]
<1>1. PICK p : IsPermutation(p, Len(all)) /\ r = [i \in 1 .. Len(all) |-> all[p[i]]]
  BY SortedPermutes
<1>2. r \in Seq(Cands)
  BY SortedPermutes
<1>3. PICK N \in Nat : N = Len(all) /\ DOMAIN all = 1 .. N /\ DOMAIN r = 1 .. N
  BY <1>1
<1>4. /\ \A i \in 1 .. N : p[i] \in 1 .. N /\ r[i] = all[p[i]]
      /\ \A i, j \in 1 .. N : p[i] = p[j] => i = j
      /\ \A m \in 1 .. N : \E i \in 1 .. N : p[i] = m
  BY <1>1, <1>3 DEF IsPermutation
<1>5. \A m \in 1 .. N : \E i \in 1 .. N : r[i] = all[m]
  <2> TAKE m \in 1 .. N
  <2>1. PICK i \in 1 .. N : p[i] = m
    BY <1>4
  <2>2. r[i] = all[m]
    BY <1>4, <2>1
  <2> QED
    BY <2>2
<1>6. Once(r)
  <2> SUFFICES ASSUME NEW i \in 1 .. N, NEW j \in 1 .. N, r[i].id = r[j].id PROVE i = j
    BY <1>3 DEF Once
  <2>1. all[p[i]].id = all[p[j]].id /\ p[i] \in DOMAIN all /\ p[j] \in DOMAIN all
    BY <1>3, <1>4
  <2>2. p[i] = p[j]
    BY <2>1 DEF Once
  <2> QED
    BY <1>4, <2>2
<1>7. PICK T : T = ToSet(all)
  OBVIOUS
<1>8. T \subseteq Cands /\ all \in Seq(T)
  <2>1. \A i \in 1 .. N : all[i] \in Cands /\ all[i] \in T
    BY <1>3, <1>7 DEF ToSet
  <2>2. T \subseteq Cands
    BY <1>3, <1>7, <2>1 DEF ToSet
  <2>3. all \in [1 .. N -> T]
    BY <1>3, <2>1
  <2> QED
    BY <2>2, <2>3
<1>9. /\ Comparison(T, Earlier(T))
      /\ \A x, y \in T : <<y, x>> \notin Earlier(T) => Place(x.relevance) <= Place(y.relevance)
  BY <1>8, BeforeCompares
<1>10. InOrderOf(r, Earlier(T))
  BY <1>7, <1>8, <1>9, SortedInOrder
<1>11. \A i \in 1 .. N : r[i] \in T
  <2> TAKE i \in 1 .. N
  <2>1. r[i] = all[p[i]] /\ p[i] \in DOMAIN all
    BY <1>3, <1>4
  <2> QED
    BY <1>7, <2>1 DEF ToSet
<1>12. Placed(r)
  <2> SUFFICES ASSUME NEW i \in 1 .. N, NEW j \in 1 .. N, i < j
               PROVE  Place(r[i].relevance) <= Place(r[j].relevance)
    BY <1>3 DEF Placed
  <2>1. <<r[j], r[i]>> \notin Earlier(T)
    BY <1>3, <1>10 DEF InOrderOf
  <2>2. PICK x \in T, y \in T : x = r[i] /\ y = r[j]
    BY <1>11
  <2> QED
    BY <1>9, <2>1, <2>2
<1>13. DOMAIN all = 1 .. N /\ DOMAIN r = 1 .. N
  BY <1>3
<1>14. \A m \in DOMAIN all : \E k \in DOMAIN r : r[k] = all[m]
  <2> TAKE m \in DOMAIN all
  <2>1. PICK k \in 1 .. N : r[k] = all[m]
    BY <1>5, <1>13
  <2> QED
    BY <1>13, <2>1
<1>15. \A k \in DOMAIN r : \E m \in DOMAIN all : r[k] = all[m]
  <2> TAKE k \in DOMAIN r
  <2>1. r[k] = all[p[k]] /\ p[k] \in DOMAIN all
    BY <1>4, <1>13
  <2> QED
    BY <2>1
<1> QED
  BY <1>2, <1>6, <1>12, <1>14, <1>15

\* The candidates that callers are.
LEMMA CallerCandidates ==
  ASSUME NEW g, GraphOk(g), NEW callers \in Seq(Known(g))
  PROVE  LET node(id) == CHOOSE n \in ToSet(g.nodes) : n.id = id
         IN  [i \in DOMAIN callers |-> [relevance |-> "caller", id |-> callers[i],
                                        first |-> node(callers[i]).first, last |-> node(callers[i]).last]]
               \in Seq(Cands)
<1> DEFINE node(id) == CHOOSE n \in ToSet(g.nodes) : n.id = id
           of(id) == [relevance |-> "caller", id |-> id, first |-> node(id).first, last |-> node(id).last]
<1>1. ASSUME NEW id \in Known(g) PROVE of(id) \in Cands
  <2>1. PICK n \in GraphNode : n = node(id)
    BY NodeTypes
  <2>2. n.first \in Nat /\ n.last \in Nat /\ id \in Ids
    BY DEF GraphNode, Known
  <2>3. [relevance |-> "caller", id |-> id, first |-> n.first, last |-> n.last] \in Cands
    BY <2>2 DEF Cands, Ranks
  <2> QED
    BY <2>1, <2>3
<1>2. PICK n \in Nat : DOMAIN callers = 1 .. n
  OBVIOUS
<1> HIDE DEF of
<1>3. \A i \in 1 .. n : callers[i] \in Known(g)
  BY <1>2
<1>4. [i \in DOMAIN callers |-> of(callers[i])] \in [1 .. n -> Cands]
  BY <1>1, <1>2, <1>3
<1>5. [i \in DOMAIN callers |-> of(callers[i])] \in Seq(Cands)
  BY <1>4
<1> QED
  BY <1>5 DEF of

\* Everything worth showing, in order: the changed symbols, the callers and what
\* the dependencies export.
LEMMA RankedFacts ==
  ASSUME InputsOk, NEW changed \in Seq(Syms), NEW g, GraphOk(g), NEW deps \in Seq(Deps),
         NEW r, r = Ranked(changed, g, deps, limits),
         NEW callers, callers = Callers(g, {Id(s) : s \in ToSet(changed)}, limits)
  PROVE  /\ r \in Seq(Cands) /\ Placed(r) /\ Once(r)
         /\ \A s \in ToSet(changed) : \E k \in DOMAIN r : r[k].id = Id(s) /\ r[k].relevance = "changed"
         /\ \A c \in ToSet(callers) : \E k \in DOMAIN r : r[k].id = c /\ r[k].relevance \in {"changed", "caller"}
         /\ \A k \in DOMAIN r : r[k].relevance = "changed" => \E s \in ToSet(changed) : r[k].id = Id(s)
<1> DEFINE node(id) == CHOOSE n \in ToSet(g.nodes) : n.id = id
           a == [i \in DOMAIN changed |-> Candidate("changed", changed[i])]
           b == [i \in DOMAIN callers |-> [relevance |-> "caller", id |-> callers[i],
                                           first |-> node(callers[i]).first, last |-> node(callers[i]).last]]
           d == DependencyCandidates(deps)
<1>1. a \in Seq(Cands)
  <2>1. "changed" \in Ranks
    BY DEF Ranks
  <2> QED
    BY <2>1, CandidatesOf
<1>2. b \in Seq(Cands)
  <2>1. PICK t : t = callers /\ t \in Seq(Known(g))
    BY CallersTypes
  <2> QED
    BY <2>1, CallerCandidates
<1>3. d \in Seq(Cands)
  BY DependenciesTypes
<1>4. PICK all : all = Distinct(a \o b \o d)
  OBVIOUS
<1>5. r = Sorted(all, Earlier(ToSet(all)))
  BY <1>4 DEF Ranked, Earlier
<1> HIDE DEF node
<1>6. \A i \in DOMAIN a : a[i].relevance = "changed" /\ a[i].id = Id(changed[i])
  BY DEF Candidate
<1>7. \A i \in DOMAIN b : b[i].relevance = "caller" /\ b[i].id = callers[i]
  OBVIOUS
<1>8. DOMAIN a = DOMAIN changed /\ DOMAIN b = DOMAIN callers
  OBVIOUS
<1>9. NotFirst(d)
  BY DependencyReasons
<1> HIDE DEF a, b, d
<1>10. /\ all \in Seq(Cands) /\ Once(all)
       /\ Holds(all, a, {"changed"}) /\ Holds(all, b, {"changed", "caller"}) /\ ChangedFrom(all, a)
  <2>1. Reasons(a, {"changed"}) /\ Reasons(b, {"caller"})
    BY <1>6, <1>7 DEF Reasons
  <2> QED
    BY <1>1, <1>2, <1>3, <1>4, <1>9, <2>1, DistinctReasons
<1>11. /\ r \in Seq(Cands) /\ Placed(r) /\ Once(r)
       /\ \A m \in DOMAIN all : \E k \in DOMAIN r : r[k] = all[m]
       /\ \A k \in DOMAIN r : \E m \in DOMAIN all : r[k] = all[m]
  BY <1>5, <1>10, SortedCandidates
<1>12. ASSUME NEW s \in ToSet(changed)
       PROVE  \E k \in DOMAIN r : r[k].id = Id(s) /\ r[k].relevance = "changed"
  <2>1. PICK i \in DOMAIN changed : changed[i] = s
    BY DEF ToSet
  <2>2. i \in DOMAIN a /\ a[i].id = Id(s)
    BY <1>6, <1>8, <2>1
  <2>3. PICK m \in DOMAIN all : all[m].id = a[i].id /\ all[m].relevance = "changed"
    BY <1>10, <2>2 DEF Holds
  <2>4. PICK k \in DOMAIN r : r[k] = all[m]
    BY <1>11
  <2> QED
    BY <2>2, <2>3, <2>4
<1>13. ASSUME NEW c \in ToSet(callers)
       PROVE  \E k \in DOMAIN r : r[k].id = c /\ r[k].relevance \in {"changed", "caller"}
  <2>1. PICK i \in DOMAIN callers : callers[i] = c
    BY DEF ToSet
  <2>2. i \in DOMAIN b /\ b[i].id = c
    BY <1>7, <1>8, <2>1
  <2>3. PICK m \in DOMAIN all : all[m].id = b[i].id /\ all[m].relevance \in {"changed", "caller"}
    BY <1>10, <2>2 DEF Holds
  <2>4. PICK k \in DOMAIN r : r[k] = all[m]
    BY <1>11
  <2> QED
    BY <2>2, <2>3, <2>4
<1>14. ASSUME NEW k \in DOMAIN r, r[k].relevance = "changed"
       PROVE  \E s \in ToSet(changed) : r[k].id = Id(s)
  <2>1. PICK m \in DOMAIN all : r[k] = all[m]
    BY <1>11
  <2>2. PICK i \in DOMAIN a : a[i].id = all[m].id
    BY <1>10, <1>14, <2>1 DEF ChangedFrom
  <2>3. a[i].id = Id(changed[i]) /\ changed[i] \in ToSet(changed)
    BY <1>6, <1>8 DEF ToSet
  <2> QED
    BY <2>1, <2>2, <2>3
<1> QED
  BY <1>11, <1>12, <1>13, <1>14

\* The lines of the files at the head.
LEMMA LinesTypes ==
  ASSUME InputsOk
  PROVE  [f \in DOMAIN repo |-> SourceLines(f)] \in [DOMAIN repo -> Nat]
<1>1. ASSUME NEW f \in DOMAIN repo PROVE SourceLines(f) \in Nat
  <2>1. PICK edit \in Seq(Ops) : edit = repo[f].edit
    BY FileTypes
  <2>2. SubSeq(edit, 1, Len(edit)) \in Seq(Ops)
    OBVIOUS
  <2>3. PICK s \in Seq(Ops) : s = SubSeq(edit, 1, Len(edit))
    BY <2>2
  <2>4. Kept(s, HeadOps) \in Seq(Ops)
    BY KeptNoLonger
  <2>5. Len(Kept(s, HeadOps)) \in Nat
    BY <2>4
  <2>6. SourceLines(f) \in {Len(Kept(s, HeadOps)), 0}
    BY <2>1, <2>3 DEF SourceLines, LinesUpTo, HeadLine
  <2> QED
    BY <2>5, <2>6
<1> QED
  BY <1>1

\* A slice is shorter than its limit.
LEMMA SliceTypes ==
  ASSUME NEW total \in Nat, NEW first \in Nat, NEW last \in Nat, NEW max \in Nat
  PROVE  LET s == SliceSourceLines(total, first, last, max) IN
         s \in Nat \X Nat /\ (s # NoSlice => s[2] - s[1] < max)
<1> DEFINE from == IF first < total THEN first ELSE total
           to == IF last < total THEN last ELSE total
<1>1. from \in Nat /\ to \in Nat
  OBVIOUS
<1>2. SliceSourceLines(total, first, last, max) =
        IF first < 1 \/ last < first \/ to - from + 1 > max THEN NoSlice ELSE <<from, to>>
  BY DEF SliceSourceLines
<1> HIDE DEF from, to
<1> QED
  BY <1>1, <1>2 DEF NoSlice

\* The candidates in turn; lines are those of the files.
TakeOp(p, acc, c) == Take(acc, c, p, limits)
TakeGood(p, n, acc) == acc \in Sources /\ SourceFits(acc)
TakeFold == INSTANCE FoldFacts WITH Op <- TakeOp, Good <- TakeGood

\* One more candidate, while there is room for it and its file.
LEMMA TakeOk ==
  ASSUME InputsOk, NEW lines \in [DOMAIN repo -> Nat], NEW acc, TakeGood(lines, 0, acc), NEW c \in Cands
  PROVE  TakeGood(lines, 0, Take(acc, c, lines, limits))
<1> DEFINE full == \/ Len(acc.symbols) >= limits.maxRelevantSymbols
                   \/ c.id.file \notin acc.files /\ Cardinality(acc.files) >= limits.maxRelevantFiles
<1>0. /\ limits.maxRelevantSymbols \in Nat /\ limits.maxRelevantFiles \in Nat
      /\ limits.maxSourceLinesPerSymbol \in Nat
      /\ acc \in Sources /\ acc.symbols \in Seq(ShownSymbol) /\ acc.files \in SUBSET DOMAIN repo
      /\ SourceFits(acc)
  BY DEF InputsOk, LimitNames, TakeGood, Sources
<1>1. CASE full
  BY <1>1 DEF Take
<1>2. CASE ~full
  <2>1. /\ c.id \in Ids /\ c.first \in Nat /\ c.last \in Nat /\ c.relevance \in Ranks
        /\ c.id.file \in DOMAIN repo
    BY DEF Cands, Ids
  <2>2. PICK max \in Nat : max = limits.maxSourceLinesPerSymbol
    BY <1>0
  <2>3. PICK total \in Nat : total = lines[c.id.file]
    BY <2>1
  <2>4. PICK first \in Nat, last \in Nat : first = c.first /\ last = c.last
    BY <2>1
  <2> DEFINE source == IF total > 0 THEN SliceSourceLines(total, first, last, max)
                       ELSE IF c.id.file \in acc.files THEN SliceSourceLines(1, first, last, max) ELSE NoSlice
  <2>5. source \in Nat \X Nat /\ (source # NoSlice => source[2] - source[1] < max)
    <3>1. NoSlice \in Nat \X Nat /\ 1 \in Nat
      BY DEF NoSlice
    <3>2. PICK s1 : s1 = SliceSourceLines(total, first, last, max)
      OBVIOUS
    <3>3. PICK s2 : s2 = SliceSourceLines(1, first, last, max)
      OBVIOUS
    <3>4. s1 \in Nat \X Nat /\ (s1 # NoSlice => s1[2] - s1[1] < max)
      BY <3>2, SliceTypes
    <3>5. s2 \in Nat \X Nat /\ (s2 # NoSlice => s2[2] - s2[1] < max)
      BY <3>1, <3>3, SliceTypes
    <3> QED
      BY <3>1, <3>2, <3>3, <3>4, <3>5
  <2>6. PICK x : x = [relevance |-> c.relevance, id |-> c.id, first |-> c.first, last |-> c.last, source |-> source]
    OBVIOUS
  <2>7. x \in ShownSymbol /\ x.source = source
    <3> HIDE DEF source
    <3> QED
      BY <2>1, <2>5, <2>6 DEF ShownSymbol, Ranks
  <2>8. PICK symbols : symbols = Append(acc.symbols, x)
    OBVIOUS
  <2>9. PICK files : files = acc.files \cup {c.id.file}
    OBVIOUS
  <2>10. Take(acc, c, lines, limits) = [symbols |-> symbols, files |-> files]
    BY <1>2, <2>2, <2>3, <2>4, <2>6, <2>8, <2>9 DEF Take
  <2> HIDE DEF source
  <2>11. /\ symbols \in Seq(ShownSymbol) /\ Len(symbols) = Len(acc.symbols) + 1 /\ Len(acc.symbols) \in Nat
         /\ \A i \in DOMAIN symbols : symbols[i] = x \/ (i \in DOMAIN acc.symbols /\ symbols[i] = acc.symbols[i])
    <3>1. PICK old \in Seq(ShownSymbol) : old = acc.symbols
      BY <1>0
    <3>2. symbols = Append(old, x)
      BY <2>8, <3>1
    <3>3. /\ symbols \in Seq(ShownSymbol) /\ Len(symbols) = Len(old) + 1 /\ Len(old) \in Nat
          /\ \A i \in DOMAIN symbols : symbols[i] = x \/ (i \in DOMAIN old /\ symbols[i] = old[i])
      BY <2>7, <3>2
    <3> QED
      BY <3>1, <3>3
  <2>12. Len(symbols) <= limits.maxRelevantSymbols
    BY <1>0, <1>2, <2>11
  <2>13. files \in SUBSET DOMAIN repo /\ Cardinality(files) <= limits.maxRelevantFiles
    <3>1. IsFiniteSet(acc.files)
      <4>1. DOMAIN repo = 1 .. Len(repo) /\ Len(repo) \in Nat
        BY DEF InputsOk
      <4> QED
        BY <1>0, <4>1, UpTo, FS_Subset
    <3>2. Cardinality(acc.files) \in Nat /\ Cardinality(acc.files) <= limits.maxRelevantFiles
      BY <1>0, <3>1, FS_CardinalityType DEF SourceFits
    <3>3. Cardinality(files) = IF c.id.file \in acc.files THEN Cardinality(acc.files) ELSE Cardinality(acc.files) + 1
      BY <2>9, <3>1, FS_AddElement
    <3> QED
      BY <1>0, <1>2, <2>1, <2>9, <3>2, <3>3
  <2>14. \A i \in DOMAIN symbols : symbols[i].source # NoSlice =>
           symbols[i].source[2] - symbols[i].source[1] < limits.maxSourceLinesPerSymbol
    <3>1. \A i \in DOMAIN acc.symbols : acc.symbols[i].source # NoSlice =>
            acc.symbols[i].source[2] - acc.symbols[i].source[1] < limits.maxSourceLinesPerSymbol
      BY <1>0 DEF SourceFits
    <3> QED
      BY <2>2, <2>5, <2>7, <2>11, <3>1
  <2>15. PICK k : k = [symbols |-> symbols, files |-> files]
    OBVIOUS
  <2>16. k \in Sources /\ k.symbols = symbols /\ k.files = files
    BY <2>11, <2>13, <2>15 DEF Sources
  <2>17. SourceFits(k)
    BY <2>12, <2>13, <2>14, <2>16 DEF SourceFits
  <2> QED
    BY <2>10, <2>15, <2>16, <2>17 DEF TakeGood
<1> QED
  BY <1>1, <1>2

\* Nothing is shown yet.
LEMMA NothingTaken ==
  ASSUME InputsOk, NEW acc, acc = [symbols |-> <<>>, files |-> {}]
  PROVE  acc \in Sources /\ SourceFits(acc)
<1> DEFINE none == <<>>
<1>1. none \in Seq(ShownSymbol) /\ Len(none) = 0 /\ DOMAIN none = {}
  OBVIOUS
<1>2. acc = [symbols |-> none, files |-> {}]
  OBVIOUS
<1> HIDE DEF none
<1>3. acc \in Sources /\ acc.symbols = none /\ acc.files = {}
  BY <1>1, <1>2 DEF Sources
<1>4. limits.maxRelevantSymbols \in Nat /\ limits.maxRelevantFiles \in Nat
  BY DEF InputsOk, LimitNames
<1> QED
  BY <1>1, <1>3, <1>4, FS_EmptySet DEF SourceFits

\* What is shown of the context.
LEMMA CollectOk ==
  ASSUME InputsOk, NEW changed \in Seq(Syms), NEW g, GraphOk(g), NEW deps \in Seq(Deps),
         NEW lines \in [DOMAIN repo -> Nat]
  PROVE  LET s == CollectRelevantContext(changed, g, deps, lines, limits) IN s \in Sources /\ SourceFits(s)
<1>1. PICK ranked \in Seq(Cands) : ranked = Ranked(changed, g, deps, limits)
  <2>1. PICK r : r = Ranked(changed, g, deps, limits)
    OBVIOUS
  <2> QED
    BY <2>1, RankedFacts
<1>2. DOMAIN ranked = 1 .. Len(ranked) /\ Len(ranked) \in Nat
  OBVIOUS
<1>3. PICK b : b = [symbols |-> <<>>, files |-> {}]
  OBVIOUS
<1>4. TakeGood(lines, 0, b)
  BY <1>3, NothingTaken DEF TakeGood
<1>5. ASSUME NEW n \in 1 .. Len(ranked), NEW a, TakeGood(lines, n - 1, a)
      PROVE  TakeGood(lines, n, TakeOp(lines, a, ranked[n]))
  <2>1. PICK c \in Cands : c = ranked[n]
    OBVIOUS
  <2>2. TakeGood(lines, 0, a)
    BY <1>5 DEF TakeGood
  <2>3. TakeGood(lines, 0, Take(a, c, lines, limits))
    BY <2>2, TakeOk
  <2> QED
    BY <2>1, <2>3 DEF TakeGood, TakeOp
<1>6. TakeGood(lines, Len(ranked), TakeFold!Fold(lines, b, ranked))
  BY <1>2, <1>4, <1>5, TakeFold!FoldKeeps, InductionOverNat DEF TakeFold!Inductive
<1>7. TakeFold!Fold(lines, b, ranked) = FoldLeft(LAMBDA acc, c : Take(acc, c, lines, limits), b, ranked)
  BY DEF TakeFold!Fold, TakeOp, FoldLeft, MapThenFoldSet, TakeFold!IsFold, TakeFold!Step, TakeFold!Largest, Max
<1>8. CollectRelevantContext(changed, g, deps, lines, limits) = TakeFold!Fold(lines, b, ranked)
  BY <1>1, <1>3, <1>7 DEF CollectRelevantContext
<1> QED
  BY <1>6, <1>8 DEF TakeGood

-----------------------------------------------------------------------------
(* The build.                                                              *)

\* The parses of the dependencies come after those of the changed files.
LEMMA RelateOk ==
  ASSUME InputsOk, ContextOk(ctx), Relate
  PROVE  ContextOk(ctx') /\ HistoryOk(hist') /\ hist'.pc = "file"
<1>1. /\ ctx \in ContextTypes /\ ctx.parseCount <= limits.maxParseFiles
  BY DEF ContextOk
<1>2. PICK deps \in Seq(Deps) : deps = ctx.dependencies
  BY <1>1 DEF ContextTypes
<1>3. PICK parsed \in Seq(Parses) : parsed = ctx.parsed
  BY <1>1 DEF ContextTypes
<1>4. PICK resolved \in Seq(Imports) : resolved = ctx.resolved
  BY <1>1 DEF ContextTypes
<1>5. PICK changed \in Seq(Syms) : changed = ctx.symbols
  BY <1>1 DEF ContextTypes
<1> DEFINE read == [i \in DOMAIN deps |-> deps[i].parsed]
<1>6. read \in Seq(Parses)
  <2>1. PICK n \in Nat : DOMAIN deps = 1 .. n
    OBVIOUS
  <2>2. \A i \in 1 .. n : deps[i].parsed \in Parses
    <3> TAKE i \in 1 .. n
    <3>1. PICK d \in Deps : d = deps[i]
      BY <2>1
    <3> QED
      BY <3>1 DEF Deps
  <2>3. read \in [1 .. n -> Parses]
    BY <2>1, <2>2
  <2> HIDE DEF read
  <2> QED
    BY <2>3
<1>7. PICK all \in Seq(Parses) : all = parsed \o read
  <2> HIDE DEF read
  <2> QED
    BY <1>6, ConcatAt
<1>8. PICK graph : graph = BuildCodeGraph(all, resolved, MaxCalls, limits)
  OBVIOUS
<1>9. GraphOk(graph)
  BY <1>8, BuildOk
<1>10. PICK lines \in [DOMAIN repo -> Nat] : lines = [f \in DOMAIN repo |-> SourceLines(f)]
  BY LinesTypes
<1>11. PICK source : source = CollectRelevantContext(changed, graph, deps, lines, limits)
  OBVIOUS
<1>12. source \in Sources /\ SourceFits(source)
  BY <1>9, <1>11, CollectOk
<1>13. PICK k : k = [ctx EXCEPT !.graph = graph, !.source = source]
  OBVIOUS
<1>14. ctx' = k
  BY <1>2, <1>3, <1>4, <1>5, <1>7, <1>8, <1>10, <1>11, <1>13 DEF Relate, AllParsed
<1>15. graph \in Graphs /\ GraphFits(graph)
  BY <1>9 DEF GraphOk
<1>16. k \in ContextTypes /\ k.parseCount = ctx.parseCount /\ k.graph = graph /\ k.source = source
  BY <1>1, <1>12, <1>13, <1>15 DEF ContextTypes
<1>17. ContextOk(k)
  BY <1>1, <1>12, <1>15, <1>16 DEF ContextOk
<1>18. Listed(ctx) \in SUBSET DOMAIN repo
  <2>1. PICK files \in Seq(Changes) : files = ctx.files
    BY <1>1 DEF ContextTypes
  <2>2. \A i \in DOMAIN files : files[i].file \in DOMAIN repo
    <3> TAKE i \in DOMAIN files
    <3>1. PICK x \in Changes : x = files[i]
      OBVIOUS
    <3> QED
      BY <3>1, ChangeFile
  <2> QED
    BY <2>1, <2>2 DEF Listed
<1>19. PICK files \in SUBSET DOMAIN repo : files = Listed(ctx)
  BY <1>18
<1>20. hist' = StartHistory(files, limits)
  BY <1>19 DEF Relate
<1> QED
  BY <1>14, <1>17, <1>20, StartHistoryOk

\* The diff lists changed files, and no more.
LEMMA DiffOk ==
  ASSUME InputsOk, ContextOk(ctx), Diff
  PROVE  ContextOk(ctx')
<1>1. ASSUME NEW base \in {"mergeBase", "baseTip"},
             ctx' = [ctx EXCEPT !.base = base, !.files = ChangedFiles(base)]
      PROVE  ContextOk(ctx')
  <2>1. PICK files \in Seq(Changes) : files = ChangedFiles(base)
    BY ChangedFilesTypes
  <2>2. PICK k : k = [ctx EXCEPT !.base = base, !.files = files]
    OBVIOUS
  <2>3. ctx \in ContextTypes
    BY DEF ContextOk
  <2>4. k \in ContextTypes /\ k.parseCount = ctx.parseCount /\ k.graph = ctx.graph /\ k.source = ctx.source
    BY <2>2, <2>3 DEF ContextTypes
  <2>5. ContextOk(k)
    BY <2>4 DEF ContextOk
  <2> QED
    BY <1>1, <2>1, <2>2, <2>5
<1>2. CASE ctx' = ctx
  BY <1>2
<1>3. \/ ctx' = [ctx EXCEPT !.base = "mergeBase", !.files = ChangedFiles("mergeBase")]
      \/ ctx' = [ctx EXCEPT !.base = "baseTip", !.files = ChangedFiles("baseTip")]
      \/ ctx' = ctx
  BY DEF Diff, DiffBase
<1> QED
  BY <1>1, <1>2, <1>3

\* The invariant: the context and the history have their types and fit their limits.
BudgetInv == InputsOk /\ ContextOk(ctx) /\ HistoryOk(hist)

\* What is meant by the limits and the files stays the same while these do.
LEMMA SameTypes ==
  ASSUME UNCHANGED inputs
  PROVE  InputsOk' = InputsOk /\ HistoryTypes' = HistoryTypes /\ ContextTypes' = ContextTypes
<1>1. repo' = repo /\ limits' = limits
  BY DEF inputs
<1>2. Syms' = Syms
  BY <1>1 DEF Syms
<1>3. Parses' = Parses
  BY <1>1 DEF Parses, Parse
<1>4. Changes' = Changes
  BY <1>1 DEF Changes, ChangedFile, PatchOf, StatusOf, EditOf
<1>5. Graphs' = Graphs
  BY <1>1 DEF Graphs, GraphNode, GraphEdge, Ids
<1>6. Sources' = Sources
  BY <1>1 DEF Sources, ShownSymbol, Ids
<1>7. Imports' = Imports /\ Deps' = Deps
  BY <1>1, <1>3 DEF Imports, Deps
<1>8. InputsOk' = InputsOk /\ HistoryTypes' = HistoryTypes
  BY <1>1 DEF InputsOk, HistoryTypes
<1>9. ContextTypes' = ContextTypes
  BY <1>1, <1>2, <1>3, <1>4, <1>5, <1>6, <1>7 DEF ContextTypes
<1> QED
  BY <1>8, <1>9

\* Before the build there is no context and no history.
LEMMA NothingYet ==
  ASSUME InputsOk
  PROVE  ContextOk(NoContext) /\ HistoryOk(NoHistory)
<1> DEFINE none == <<>>
<1>1. /\ none \in Seq(Changes) /\ none \in Seq(Parses) /\ none \in Seq(Syms) /\ none \in Seq(Imports)
      /\ none \in Seq(Deps) /\ none \in Seq(DOMAIN PullsOf) /\ none \in Seq(PullRequest)
      /\ none \in Seq(Item) /\ none \in Seq(DOMAIN repo) /\ DOMAIN none = {} /\ none \in Seq(GraphNode)
      /\ none \in Seq(GraphEdge) /\ Len(none) = 0
  OBVIOUS
<1>2. NoHistory = [pc |-> "off", files |-> none, commits |-> none, prs |-> none,
                   apiCalls |-> 0, knownPrs |-> {}, items |-> none]
  BY DEF NoHistory
<1>3. PICK source : source = [symbols |-> <<>>, files |-> {}]
  OBVIOUS
<1>4. PICK graph : graph = [nodes |-> none, edges |-> none]
  OBVIOUS
<1>5. NoContext = [base |-> "none", files |-> none, parsed |-> none, symbols |-> none, parseCount |-> 0,
                   level |-> [depth |-> 0, files |-> none], resolved |-> none, dependencies |-> none,
                   graph |-> graph, source |-> source]
  BY <1>3, <1>4 DEF NoContext, EmptyGraph
<1>6. Comments(none) = 0
  BY <1>1, FS_EmptySet DEF Comments
<1> HIDE DEF none
<1>7. source \in Sources /\ SourceFits(source)
  BY <1>3, NothingTaken
<1>8. graph \in Graphs /\ GraphFits(graph)
  BY <1>1, <1>4, GraphLimits DEF Graphs, GraphFits
<1>9. PICK k : k = NoContext
  OBVIOUS
<1>10. PICK level \in [depth : Nat, files : Seq(Parses)] : level = [depth |-> 0, files |-> none]
  BY <1>1
<1>11. k \in ContextTypes /\ k.parseCount = 0 /\ k.graph = graph /\ k.source = source
  BY <1>1, <1>5, <1>7, <1>8, <1>9, <1>10 DEF ContextTypes
<1>12. ContextOk(NoContext)
  BY <1>7, <1>8, <1>9, <1>11 DEF ContextOk, InputsOk, LimitNames
<1>13. PICK h : h = NoHistory
  OBVIOUS
<1>14. /\ h \in HistoryTypes /\ h.pc = "off" /\ h.apiCalls = 0 /\ h.prs = none /\ h.items = none
       /\ h.knownPrs = {}
  BY <1>1, <1>2, <1>13 DEF HistoryTypes, Pcs
<1>15. IsFiniteSet(h.knownPrs) /\ Cardinality(h.knownPrs) <= limits.maxHistoryItems
  BY <1>14, FS_EmptySet DEF InputsOk, LimitNames
<1>16. Comments(h.items) <= limits.maxHistoryComments /\ 0 <= MAX_API_CALLS + 1
  BY <1>6, <1>14, HistoryAssumption DEF InputsOk, LimitNames
<1>17. Numbers(h) /\ ToListOnce(h) /\ Unlisted(h) /\ ListedOnce(h.items)
  BY <1>1, <1>14 DEF Numbers, ToListOnce, Unlisted, ListedOnce
<1>18. HistoryOk(NoHistory)
  BY <1>13, <1>14, <1>15, <1>16, <1>17 DEF HistoryOk
<1> QED
  BY <1>12, <1>18

\* The initial state.
LEMMA BudgetInit == Init => BudgetInv
<1> SUFFICES ASSUME Init PROVE BudgetInv
  OBVIOUS
<1>1. InputsOk
  BY EngineAssumption DEF Init, InputsOk
<1> QED
  BY <1>1, NothingYet DEF Init, BudgetInv

\* Every step of the build.
LEMMA BudgetNext ==
  ASSUME BudgetInv, [Next]_vars
  PROVE  BudgetInv'
<1>0. InputsOk /\ ContextOk(ctx) /\ HistoryOk(hist)
  BY DEF BudgetInv
<1>1. SUFFICES ContextOk(ctx') /\ HistoryOk(hist')
  <2>1. UNCHANGED inputs
    BY DEF Next, vars, inputs, MakeDirectory, Fetch, FetchRef, Checkout, RemoveCheckout, Diff, ParseChanged,
           WalkLevel, Relate, History, Finish
  <2>2. limits' = limits
    BY <2>1 DEF inputs
  <2>3. ContextOk(ctx)' = ContextOk(ctx')
    BY <2>1, <2>2, SameTypes DEF ContextOk, GraphFits, SourceFits
  <2>4. HistoryOk(hist)' = HistoryOk(hist')
    BY <2>1, <2>2, SameTypes DEF HistoryOk, Numbers, ToListOnce, Unlisted, Comments, ListedOnce
  <2> QED
    BY <1>0, <1>1, <2>1, <2>3, <2>4, SameTypes DEF BudgetInv
<1>2. CASE MakeDirectory \/ Fetch \/ FetchRef \/ Checkout \/ RemoveCheckout \/ Finish \/ UNCHANGED vars
  <2>1. ctx' = ctx /\ hist' = hist
    BY <1>2 DEF vars, MakeDirectory, Fetch, FetchRef, Checkout, RemoveCheckout, Finish
  <2> QED
    BY <1>0, <2>1
<1>3. CASE Diff
  <2>1. hist' = hist
    BY <1>3 DEF Diff
  <2> QED
    BY <1>0, <1>3, <2>1, DiffOk
<1>4. CASE ParseChanged
  <2>1. hist' = hist
    BY <1>4 DEF ParseChanged
  <2>2. PICK c : c = FoldLeft(ParseOne, ctx, ctx.files)
    OBVIOUS
  <2>3. ctx' = [c EXCEPT !.level = [depth |-> 1, files |-> c.parsed]] \/ ctx' = ctx
    BY <1>4, <2>2 DEF ParseChanged
  <2> QED
    BY <1>0, <2>1, <2>2, <2>3, ParseChangedOk
<1>5. CASE WalkLevel
  <2>1. hist' = hist
    BY <1>5 DEF WalkLevel
  <2> QED
    BY <1>0, <1>5, <2>1, WalkLevelOk
<1>6. CASE Relate
  BY <1>0, <1>6, RelateOk
<1>7. CASE History
  <2>1. ctx' = ctx /\ (HistoryStep(limits, FALSE) \/ HistoryStep(limits, TRUE))
    BY <1>7 DEF History
  <2> QED
    BY <1>0, <2>1, HistoryStepOk
<1> QED
  BY <1>2, <1>3, <1>4, <1>5, <1>6, <1>7 DEF Next

\* The invariant is what is promised.
LEMMA BudgetsKept == BudgetInv => WithinBudgets
<1> SUFFICES ASSUME BudgetInv PROVE WithinBudgets
  OBVIOUS
<1>1. ContextOk(ctx) /\ HistoryOk(hist)
  BY DEF BudgetInv
<1>2. PICK symbols \in Seq(ShownSymbol) : symbols = ctx.source.symbols
  BY <1>1 DEF ContextOk, ContextTypes, Sources
<1>3. \A s \in ToSet(ctx.source.symbols) :
        s.source # NoSlice => s.source[2] - s.source[1] < limits.maxSourceLinesPerSymbol
  BY <1>1 DEF ContextOk, SourceFits, ToSet
<1>4. \A i, j \in DOMAIN hist.items :
        hist.items[i].type = "pull_request" /\ hist.items[j].type = "pull_request" /\ i # j =>
          hist.items[i].pr # hist.items[j].pr
  BY <1>1 DEF HistoryOk, ListedOnce
<1> QED
  BY <1>1, <1>3, <1>4 DEF WithinBudgets, HistoryOk, ContextOk, GraphFits, SourceFits

\* Every limit of limits.ts holds of what is built, for every checkout, every set of
\* limits and whatever fails: the parses, the nodes and edges, the symbols, files and
\* lines that are shown, the pull requests and comments of the history and the
\* requests for them; no pull request is listed twice or is the one under review.
THEOREM BudgetsHold == Spec => []WithinBudgets
<1>1. BudgetInv /\ [Next]_vars => BudgetInv'
  BY BudgetNext
<1> QED
  BY <1>1, BudgetInit, BudgetsKept, PTL DEF Spec

\* The ends of the paths a specifier may stand for.
Ends(at) ==
  IF IsPython(at) THEN {<<".py">>, <<"__init__", ".py">>}
  ELSE {<<e>> : e \in ToSet(TS_EXTENSIONS)} \cup {<<"index", e>> : e \in ToSet(TS_EXTENSIONS)}

\* The candidates for a specifier that starts with a dot.
LEMMA CandidatePaths ==
  ASSUME NEW source, NEW at, Dots(source) > 0
  PROVE  LET base == Up(Dir(at), Dots(source) - 1) \o Names(source)
             X == {base \o e : e \in Ends(at)}
         IN Candidates(source, at) \in Seq(X) /\ ToSet(Candidates(source, at)) = X
<1> DEFINE base == Up(Dir(at), Dots(source) - 1) \o Names(source)
           X == {base \o e : e \in Ends(at)}
           extensions == IF IsPython(at) THEN PYTHON_EXTENSIONS ELSE TS_EXTENSIONS
           of(b) == [i \in DOMAIN extensions |-> b \o <<extensions[i]>>] \o
                    IF IsPython(at) THEN << b \o <<"__init__", ".py">> >>
                    ELSE [i \in DOMAIN TS_EXTENSIONS |-> b \o <<"index", TS_EXTENSIONS[i]>>]
           bases == Bases(source, at)
           all == [i \in DOMAIN bases |-> of(bases[i])]
<1>1. bases = <<base>>
  BY DEF Bases
<1>2. Candidates(source, at) = FlattenSeq(all)
  BY Zenon DEF Candidates
<1>3. Candidates(source, at) = of(base)
  <2> HIDE DEF of, base, bases
  <2>1. Len(all) = 1 /\ all[1] = of(base)
    BY <1>1
  <2> HIDE DEF all
  <2> QED
    BY <1>2, <2>1, FlattenOne
<1> HIDE DEF base, all
<1>4. CASE IsPython(at)
  <2>1. of(base) = << base \o <<".py">> >> \o << base \o <<"__init__", ".py">> >>
    <3>1. extensions = <<".py">> /\ DOMAIN extensions = 1 .. 1 /\ extensions[1] = ".py"
      BY <1>4 DEF PYTHON_EXTENSIONS
    <3> HIDE DEF extensions
    <3>2. [i \in DOMAIN extensions |-> base \o <<extensions[i]>>] = << base \o <<".py">> >>
      BY <3>1
    <3> QED
      BY <1>4, <3>2
  <2>2. X = {base \o <<".py">>, base \o <<"__init__", ".py">>}
    BY <1>4 DEF Ends
  <2> HIDE DEF X, of
  <2>3. PICK a, b : a = base \o <<".py">> /\ b = base \o <<"__init__", ".py">>
    OBVIOUS
  <2>4. a \in {a, b} /\ b \in {a, b}
    OBVIOUS
  <2>5. Candidates(source, at) = <<a>> \o <<b>> /\ X = {a, b}
    BY <1>3, <2>1, <2>2, <2>3
  <2>6. <<a>> \o <<b>> \in Seq({a, b}) /\ ToSet(<<a>> \o <<b>>) = {a, b}
    BY <2>4, PairElements
  <2>7. Candidates(source, at) \in Seq(X) /\ ToSet(Candidates(source, at)) = X
    BY <2>5, <2>6
  <2> QED
    BY <2>7 DEF X, base
<1>5. CASE ~IsPython(at)
  <2> DEFINE n == Len(TS_EXTENSIONS)
             x(i) == base \o <<TS_EXTENSIONS[i]>>
             y(i) == base \o <<"index", TS_EXTENSIONS[i]>>
             u == [i \in 1 .. n |-> x(i)]
             v == [i \in 1 .. n |-> y(i)]
  <2>1. n = 9 /\ DOMAIN TS_EXTENSIONS = 1 .. n
    BY DEF TS_EXTENSIONS
  <2>2. of(base) = u \o v
    BY <1>5, <2>1
  <2>3. X = {x(i) : i \in 1 .. n} \cup {y(i) : i \in 1 .. n}
    <3>1. ToSet(TS_EXTENSIONS) = {TS_EXTENSIONS[i] : i \in 1 .. n}
      BY <2>1 DEF ToSet
    <3>2. Ends(at) = {<<TS_EXTENSIONS[i]>> : i \in 1 .. n} \cup {<<"index", TS_EXTENSIONS[i]>> : i \in 1 .. n}
      <4> HIDE DEF n
      <4> QED
        BY <1>5, <3>1 DEF Ends
    <3> HIDE DEF n
    <3> QED
      BY <3>2
  <2>4. n \in Nat
    BY <2>1
  <2> HIDE DEF X, of, n, x, y
  <2>5. u \in Seq(X) /\ v \in Seq(X) /\ Len(u) = n /\ Len(v) = n
    <3>1. u \in [1 .. n -> X] /\ v \in [1 .. n -> X]
      BY <2>3
    <3> QED
      BY <2>4, <3>1
  <2>6. \A i \in 1 .. n : u[i] = x(i) /\ v[i] = y(i)
    OBVIOUS
  <2> HIDE DEF u, v
  <2>7. PICK w \in Seq(X) : w = u \o v
    BY <2>5, ConcatAt
  <2>8. /\ Len(w) = n + n /\ DOMAIN w = 1 .. n + n
        /\ \A i \in 1 .. n : w[i] = x(i) /\ w[n + i] = y(i)
    <3>0. PICK a \in Seq(X), b \in Seq(X) : a = u /\ b = v
      BY <2>5
    <3>1. /\ Len(a \o b) = Len(a) + Len(b) /\ \A i \in 1 .. Len(a) : (a \o b)[i] = a[i]
          /\ \A i \in 1 .. Len(b) : (a \o b)[Len(a) + i] = b[i]
      OBVIOUS
    <3>2. Len(w) = n + n /\ DOMAIN w = 1 .. n + n
      <4>1. Len(a) = n /\ Len(b) = n /\ w = a \o b
        BY <2>5, <2>7, <3>0
      <4>2. Len(w) = n + n
        BY <3>1, <4>1
      <4>3. DOMAIN w = 1 .. Len(w)
        OBVIOUS
      <4> QED
        BY <4>2, <4>3
    <3>3. \A i \in 1 .. n : w[i] = x(i)
      BY <2>5, <2>6, <2>7, <3>0, <3>1
    <3>4. \A i \in 1 .. n : w[n + i] = y(i)
      BY <2>5, <2>6, <2>7, <3>0, <3>1
    <3> QED
      BY <3>2, <3>3, <3>4
  <2>9. \A z \in X : \E i \in DOMAIN w : w[i] = z
    <3> TAKE z \in X
    <3>1. CASE \E i \in 1 .. n : z = x(i)
      BY <2>4, <2>8, <3>1
    <3>2. CASE \E i \in 1 .. n : z = y(i)
      <4>1. PICK i \in 1 .. n : z = y(i)
        BY <3>2
      <4>2. n + i \in DOMAIN w
        BY <2>4, <2>8
      <4> QED
        BY <2>8, <4>1, <4>2
    <3> QED
      BY <2>3, <3>1, <3>2
  <2>10. ToSet(w) = X
    BY <2>9 DEF ToSet
  <2> QED
    BY <1>3, <2>2, <2>7, <2>10 DEF X, base
<1> QED
  BY <1>4, <1>5

\* Of one dot the parent is the importer's directory, of two the one above it.
LEMMA ParentsOfPlain ==
  ASSUME NEW S, NEW source \in Seq(S), Dots(source) > 0, Dots(source) <= 2, Plain(source)
  PROVE  Parents(source) = Dots(source) - 1
<1> DEFINE D == {i \in DOMAIN source : \A j \in 1 .. i : source[j] = "."}
           P == {i \in 1 .. Len(source) - 1 : /\ source[i] = "." /\ source[i + 1] = "."
                                              /\ i = 1 \/ source[i - 1] = "/"}
<1>0. Len(source) \in Nat /\ DOMAIN source = 1 .. Len(source)
  OBVIOUS
<1>1. IsFiniteSet(D)
  BY <1>0, UpTo, FS_Subset
<1>2. 1 \in D
  <2>1. D # {}
    BY <1>1, FS_EmptySet DEF Dots
  <2>2. PICK i \in D : TRUE
    BY <2>1
  <2>3. 1 \in 1 .. i /\ 1 \in DOMAIN source
    BY <1>0
  <2> QED
    BY <2>2, <2>3
<1>3. P \subseteq {1}
  <2> SUFFICES ASSUME NEW i \in P, i # 1 PROVE FALSE
    OBVIOUS
  <2>1. i \in DOMAIN source /\ i - 1 \in 1 .. i - 1 /\ source[i - 1] = "/" /\ source[i] = "."
    BY <1>0
  <2> QED
    BY <2>1 DEF Plain
<1>4. CASE 2 \in D
  <2>1. 1 \in P
    <3>1. 2 \in DOMAIN source /\ \A j \in 1 .. 2 : source[j] = "."
      BY <1>4
    <3>2. 1 \in 1 .. Len(source) - 1 /\ 1 \in 1 .. 2 /\ 1 + 1 \in 1 .. 2
      BY <1>0, <3>1
    <3> QED
      BY <3>1, <3>2
  <2>2. P = {1} /\ Cardinality(P) = 1
    <3> HIDE DEF P
    <3>1. P = {1}
      BY <1>3, <2>1
    <3> QED
      BY <3>1, FS_Singleton
  <2>3. \E two : two \subseteq D /\ Cardinality(two) = 2
    <3>1. PICK one : one = {1} /\ IsFiniteSet(one) /\ Cardinality(one) = 1
      BY FS_Singleton
    <3> HIDE DEF D, P
    <3>2. 2 \notin one
      BY <3>1
    <3>3. Cardinality(one \cup {2}) = Cardinality(one) + 1
      BY <3>1, <3>2, FS_AddElement
    <3>4. Cardinality(one \cup {2}) = 2
      <4>1. PICK c \in Nat : c = 1
        OBVIOUS
      <4>2. Cardinality(one) = c
        BY <3>1, <4>1
      <4>3. Cardinality(one \cup {2}) = c + 1
        BY <3>3, <4>2, Zenon
      <4>4. c + 1 = 2
        BY <4>1
      <4> QED
        BY <4>3, <4>4
    <3>5. 1 \in D /\ 2 \in D
      BY <1>2, <1>4
    <3>6. one \cup {2} \subseteq D
      BY <3>1, <3>5
    <3> QED
      BY <3>4, <3>6
  <2>4. Cardinality(D) >= 2
    BY <1>1, <2>3, FS_Subset, FS_CardinalityType
  <2>5. Cardinality(D) \in Nat
    BY <1>1, FS_CardinalityType
  <2> HIDE DEF D, P
  <2>6. Dots(source) = Cardinality(D) /\ Parents(source) = Cardinality(P)
    BY DEF Dots, Parents, D, P
  <2> QED
    BY <2>2, <2>4, <2>5, <2>6
<1>5. CASE 2 \notin D
  <2>1. D = {1}
    <3> SUFFICES ASSUME NEW i \in D, i # 1 PROVE FALSE
      BY <1>2
    <3>1. i >= 2 /\ 2 \in DOMAIN source /\ \A j \in 1 .. 2 : j \in 1 .. i
      BY <1>0
    <3> QED
      BY <1>5, <3>1
  <2>2. Cardinality(D) = 1
    BY <2>1, FS_Singleton
  <2>3. 1 \notin P
    <3> SUFFICES ASSUME 1 \in P PROVE FALSE
      OBVIOUS
    <3>1. 2 \in DOMAIN source /\ source[1] = "." /\ source[1 + 1] = "." /\ 1 + 1 = 2
      BY <1>0
    <3>2. \A j \in 1 .. 2 : j = 1 \/ j = 2
      OBVIOUS
    <3> QED
      BY <1>5, <3>1, <3>2
  <2>4. P = {} /\ Cardinality(P) = 0
    BY <1>3, <2>3, FS_EmptySet
  <2> HIDE DEF D, P
  <2>6. Dots(source) = Cardinality(D) /\ Parents(source) = Cardinality(P)
    BY DEF Dots, Parents, D, P
  <2> QED
    BY <2>2, <2>4, <2>6
<1> QED
  BY <1>4, <1>5

\* The path that is returned is the first candidate that is there.
LEMMA FirstCandidate ==
  ASSUME NEW source, NEW at, Dots(source) > 0, NEW files, NEW base,
         base = Up(Dir(at), Dots(source) - 1) \o Names(source)
  PROVE  LET path == ResolveImportPath(source, at, files) IN
         \/ path \in files /\ \E e \in Ends(at) : path = base \o e
         \/ path = <<>> /\ \A e \in Ends(at) : base \o e \notin files
<1> DEFINE X == {base \o e : e \in Ends(at)}
<1>1. PICK c \in Seq(X) : c = Candidates(source, at) /\ ToSet(c) = X
  <2> DEFINE u == Up(Dir(at), Dots(source) - 1) \o Names(source)
             Y == {u \o e : e \in Ends(at)}
  <2>1. Candidates(source, at) \in Seq(Y) /\ ToSet(Candidates(source, at)) = Y
    BY CandidatePaths
  <2>2. base = u
    OBVIOUS
  <2> HIDE DEF u
  <2>3. X = Y
    BY <2>2
  <2> QED
    BY <2>1, <2>3
<1> HIDE DEF X
<1>2. PICK there \in Seq(X) : there = Kept(c, files)
  BY KeptElements
<1>3. /\ \A k \in DOMAIN there : there[k] \in files
      /\ \A i \in DOMAIN c : c[i] \in files => there # <<>>
  BY <1>2, KeptElements
<1>4. CASE there = <<>>
  <2>1. ResolveImportPath(source, at, files) = <<>>
    BY <1>1, <1>2, <1>4 DEF ResolveImportPath
  <2>2. \A x \in X : x \notin files
    BY <1>1, <1>3, <1>4 DEF ToSet
  <2> QED
    BY <2>1, <2>2 DEF X
<1>5. CASE there # <<>>
  <2>1. ResolveImportPath(source, at, files) = there[1]
    BY <1>1, <1>2, <1>5 DEF ResolveImportPath
  <2>2. 1 \in DOMAIN there /\ there[1] \in X
    BY <1>5
  <2>3. there[1] \in files
    BY <1>3, <2>2
  <2> QED
    BY <2>1, <2>2, <2>3 DEF X
<1> QED
  BY <1>4, <1>5

\* A specifier is resolved to the file it means.
LEMMA ResolvesToMeant ==
  ASSUME InputsOk, NEW f \in DOMAIN repo, NEW source \in Seq(STRING), Clear(source, f)
  PROVE  Means(source, f) = {Resolve(source, f)} \ {0}
<1>1. CASE Dots(source) = 0 \/ ~Plain(source)
  BY <1>1 DEF Means
<1>2. CASE ~(Dots(source) = 0 \/ ~Plain(source))
  <2> DEFINE at == repo[f].path
             files == {repo[g].path : g \in {h \in DOMAIN repo : Exists(h)}}
             base == Up(Dir(at), Dots(source) - 1) \o Names(source)
             meant == {g \in DOMAIN repo : Exists(g) /\ \E e \in Ends(at) : repo[g].path = base \o e}
  <2>1. Dots(source) \in Nat
    <3>1. {i \in DOMAIN source : \A j \in 1 .. i : source[j] = "."} \subseteq 1 .. Len(source) /\ Len(source) \in Nat
      OBVIOUS
    <3>2. IsFiniteSet({i \in DOMAIN source : \A j \in 1 .. i : source[j] = "."})
      BY <3>1, UpTo, FS_Subset
    <3> QED
      BY <3>2, FS_CardinalityType DEF Dots
  <2>2. Dots(source) > 0 /\ Plain(source)
    BY <1>2, <2>1
  <2>3. Meant(source, at) = base
    <3>1. CASE IsPython(at)
      BY <2>2, <3>1 DEF Meant
    <3>2. CASE ~IsPython(at)
      <4>1. Parents(source) = Dots(source) - 1
        BY <2>2, <3>2, ParentsOfPlain DEF Clear
      <4> QED
        BY <3>2, <4>1 DEF Meant
    <3> QED
      BY <3>1, <3>2
  <2>4. Means(source, f) = meant
    <3>1. Means(source, f) =
            {g \in DOMAIN repo : Exists(g) /\ \E e \in Ends(at) : repo[g].path = Meant(source, at) \o e}
      BY <1>2 DEF Means, Ends
    <3> HIDE DEF base
    <3> QED
      BY <2>3, <3>1
  <2>5. \A g, h \in meant : g = h
    <3> HIDE DEF meant
    <3> QED
      BY <2>2, <2>4 DEF Clear
  <2>6. PICK path : path = ResolveImportPath(source, at, files)
    OBVIOUS
  <2>7. Resolve(source, f) = FileAt(path)
    BY <2>6 DEF Resolve
  <2>8. \/ path \in files /\ \E e \in Ends(at) : path = base \o e
        \/ path = <<>> /\ \A e \in Ends(at) : base \o e \notin files
    <3> HIDE DEF files, base, at
    <3>1. base = Up(Dir(at), Dots(source) - 1) \o Names(source)
      BY DEF base
    <3> QED
      BY <2>2, <2>6, <3>1, FirstCandidate
  <2> HIDE DEF base
  <2>9. CASE path \in files /\ \E e \in Ends(at) : path = base \o e
    <3>1. PICK g \in DOMAIN repo : repo[g].path = path /\ Exists(g)
      BY <2>9
    <3>2. FileAt(path) \in DOMAIN repo /\ repo[FileAt(path)].path = path /\ Exists(FileAt(path))
      BY <3>1 DEF FileAt
    <3>3. FileAt(path) \in meant
      BY <2>9, <3>2
    <3>4. 0 \notin DOMAIN repo
      BY DEF InputsOk
    <3>5. meant = {FileAt(path)}
      <4> HIDE DEF meant
      <4> QED
        BY <2>5, <3>3
    <3> QED
      BY <2>4, <2>7, <3>2, <3>4, <3>5
  <2>10. CASE path = <<>> /\ \A e \in Ends(at) : base \o e \notin files
    <3>1. \A g \in DOMAIN repo : repo[g].path # <<>>
      <4> TAKE g \in DOMAIN repo
      <4>1. PICK x \in File : x = repo[g]
        BY DEF InputsOk
      <4> QED
        BY <4>1 DEF File
    <3>2. FileAt(path) = 0
      BY <2>10, <3>1 DEF FileAt
    <3>3. meant = {}
      BY <2>10
    <3> QED
      BY <2>4, <2>7, <3>2, <3>3
  <2> QED
    BY <2>8, <2>9, <2>10
<1> QED
  BY <1>1, <1>2

\* The dependencies with their depths; the files whose imports are next.
Pairs(c) == {<<d.file, d.depth>> : d \in ToSet(c.dependencies)}
FilesIn(parsed) == {p.file : p \in ToSet(parsed)}

\* An import that adds no dependency to acc, and one that adds its target.
PassesOver(f, acc, u) ==
  /\ u.next = acc.next /\ u.c.dependencies = acc.c.dependencies
  /\ \/ f = 0 \/ f \in ParsedFiles(acc.c) \cup Dependencies(acc.c) \cup Listed(acc.c)
     \/ SourceLines(f) = 0 \/ ~Budget(acc.c) \/ ~Parse(f).parsed
Adds(f, acc, u) ==
  /\ f \in DOMAIN repo /\ f \notin ParsedFiles(acc.c) \cup Dependencies(acc.c) \cup Listed(acc.c)
  /\ SourceLines(f) # 0 /\ Parse(f).parsed /\ u.next = Append(acc.next, Parse(f))
  /\ u.c.dependencies =
       Append(acc.c.dependencies, [file |-> f, depth |-> acc.c.level.depth, parsed |-> Parse(f)])

\* What an import does: nothing to the dependencies, or it adds its target.
LEMMA ImportCases ==
  ASSUME InputsOk, NEW acc, WalkOk(acc), NEW i \in Imports, NEW f, f = i.target, NEW u, u = Import(acc, i)
  PROVE  /\ u.c.files = acc.c.files /\ u.c.parsed = acc.c.parsed /\ u.c.level = acc.c.level
         /\ acc.c.parseCount <= u.c.parseCount
         /\ PassesOver(f, acc, u) \/ Adds(f, acc, u)
<1>1. acc \in WalkTypes /\ acc.c \in ContextTypes
  BY DEF WalkOk, WalkTypes
<1>2. PICK a \in ContextTypes : a = acc.c
  BY <1>1
<1>3. PICK resolved : resolved = Append(a.resolved, i)
  OBVIOUS
<1>4. PICK c : c = [a EXCEPT !.resolved = resolved]
  OBVIOUS
<1>5. /\ c.parseCount = a.parseCount /\ c.level = a.level /\ c.files = a.files /\ c.parsed = a.parsed
      /\ c.dependencies = a.dependencies /\ a.parseCount \in Nat
  BY <1>4 DEF ContextTypes
<1>6. /\ ParsedFiles(c) = ParsedFiles(a) /\ Dependencies(c) = Dependencies(a) /\ Listed(c) = Listed(a)
      /\ Budget(c) = Budget(a)
  BY <1>5 DEF ParsedFiles, Dependencies, Listed, Budget
<1>7. c = [acc.c EXCEPT !.resolved = Append(@, i)]
  BY <1>2, <1>3, <1>4
<1> DEFINE skip == \/ f = 0 \/ f \in ParsedFiles(c) \cup Dependencies(c) \cup Listed(c)
                   \/ SourceLines(f) = 0 \/ ~Budget(c)
<1>8. PICK next : next = acc.next
  OBVIOUS
<1>9. acc = [c |-> a, next |-> next]
  BY <1>1, <1>2, <1>8 DEF WalkTypes
<1>10. CASE skip
  <2>1. Import(acc, i) = [acc EXCEPT !.c = c]
    BY <1>7, <1>10 DEF Import
  <2>2. u.c = c /\ u.next = next
    BY <1>9, <2>1
  <2> QED
    BY <1>2, <1>5, <1>6, <1>8, <1>10, <2>2 DEF PassesOver
<1>11. CASE ~skip
  <2>1. f \in DOMAIN repo
    BY <1>11 DEF Imports
  <2>2. PICK n \in Nat : n = c.parseCount + 1
    BY <1>5
  <2>3. PICK k : k = [c EXCEPT !.parseCount = n]
    OBVIOUS
  <2>4. /\ k.parseCount = n /\ k.files = a.files /\ k.parsed = a.parsed /\ k.level = a.level
        /\ k.dependencies = a.dependencies
    BY <1>4, <2>3 DEF ContextTypes
  <2>5. PICK p : p = Parse(f)
    OBVIOUS
  <2>6. PICK d : d = [file |-> f, depth |-> c.level.depth, parsed |-> p]
    OBVIOUS
  <2>7. PICK deps : deps = Append(k.dependencies, d)
    OBVIOUS
  <2>8. Import(acc, i) =
          IF ~p.parsed THEN [acc EXCEPT !.c = k]
          ELSE [c |-> [k EXCEPT !.dependencies =
                          Append(@, [file |-> f, depth |-> c.level.depth, parsed |-> p])],
                next |-> Append(acc.next, p)]
    BY <1>7, <1>11, <2>2, <2>3, <2>5, Zenon DEF Import
  <2>9. CASE ~p.parsed
    <3>1. u.c = k /\ u.next = next
      BY <1>9, <2>8, <2>9
    <3> QED
      BY <1>2, <1>5, <1>8, <2>2, <2>4, <2>5, <2>9, <3>1 DEF PassesOver
  <2>10. CASE p.parsed
    <3>1. PICK m : m = [k EXCEPT !.dependencies = deps]
      OBVIOUS
    <3>2. m.dependencies = deps /\ m.parseCount = n /\ m.files = a.files /\ m.parsed = a.parsed /\ m.level = a.level
      BY <1>4, <2>3, <2>4, <3>1 DEF ContextTypes
    <3>3. u.c = m /\ u.next = Append(next, p)
      BY <1>8, <2>6, <2>7, <2>8, <2>10, <3>1
    <3>4. deps = Append(acc.c.dependencies, [file |-> f, depth |-> acc.c.level.depth, parsed |-> Parse(f)])
      BY <1>2, <1>5, <2>4, <2>5, <2>6, <2>7
    <3>5. f \notin ParsedFiles(acc.c) \cup Dependencies(acc.c) \cup Listed(acc.c) /\ SourceLines(f) # 0
      BY <1>2, <1>6, <1>11
    <3>6. u.c.dependencies = deps /\ u.next = Append(acc.next, Parse(f)) /\ Parse(f).parsed
      BY <1>8, <2>5, <2>10, <3>2, <3>3
    <3>7. /\ u.c.files = acc.c.files /\ u.c.parsed = acc.c.parsed /\ u.c.level = acc.c.level
          /\ acc.c.parseCount <= u.c.parseCount
      BY <1>2, <1>5, <2>2, <3>2, <3>3
    <3> QED
      BY <2>1, <3>4, <3>5, <3>6, <3>7 DEF Adds
  <2> QED
    BY <2>9, <2>10
<1> QED
  BY <1>10, <1>11

\* Of the first n imports, the targets that are new.
Fresh(imports, n) ==
  {g \in DOMAIN repo : /\ \E k \in 1 .. n : imports[k].target = g
                       /\ Usable(g) /\ g \notin ParsedFiles(ctx) \cup Dependencies(ctx)}

\* After n imports the dependencies are those of the levels before and the new ones.
Took(imports, n, acc) ==
  /\ FilesIn(acc.next) = Fresh(imports, n)
  /\ Pairs(acc.c) = Pairs(ctx) \cup (Fresh(imports, n) \X {ctx.level.depth})
  /\ Dependencies(acc.c) = Dependencies(ctx) \cup Fresh(imports, n)

NearGood(imports, n, acc) ==
  /\ WalkOk(acc)
  /\ acc.c.files = ctx.files /\ acc.c.parsed = ctx.parsed /\ acc.c.level = ctx.level
  /\ ctx.parseCount <= acc.c.parseCount
  /\ Budget(acc.c) => Took(imports, n, acc)
NearOp(imports, acc, i) == Import(acc, i)
NearFold == INSTANCE FoldFacts WITH Op <- NearOp, Good <- NearGood

\* One import more.
LEMMA NearStep ==
  ASSUME InputsOk, ContextOk(ctx), NEW imports \in Seq(Imports), NEW n \in 1 .. Len(imports), NEW acc,
         NearGood(imports, n - 1, acc)
  PROVE  NearGood(imports, n, Import(acc, imports[n]))
<1>1. PICK i \in Imports : i = imports[n]
  OBVIOUS
<1>2. PICK f \in DOMAIN repo \cup {0} : f = i.target
  BY DEF Imports
<1>3. PICK u : u = Import(acc, i)
  OBVIOUS
<1>4. WalkOk(acc) /\ WalkOk(u)
  BY <1>3, ImportOk DEF NearGood
<1>5. /\ acc.c.files = ctx.files /\ acc.c.parsed = ctx.parsed /\ acc.c.level = ctx.level
      /\ Budget(acc.c) => Took(imports, n - 1, acc)
  BY DEF NearGood
<1>6. Listed(acc.c) = Listed(ctx) /\ ParsedFiles(acc.c) = ParsedFiles(ctx)
  BY <1>5 DEF Listed, ParsedFiles
<1>7. /\ u.c.files = acc.c.files /\ u.c.parsed = acc.c.parsed /\ u.c.level = acc.c.level
      /\ acc.c.parseCount <= u.c.parseCount
      /\ PassesOver(f, acc, u) \/ Adds(f, acc, u)
  BY <1>1, <1>2, <1>3, <1>4, ImportCases
<1>8. SUFFICES ASSUME Budget(u.c) PROVE Took(imports, n, u)
  <2>1. ctx.parseCount <= u.c.parseCount
    <3>1. /\ acc.c.parseCount \in Nat /\ u.c.parseCount \in Nat /\ ctx.parseCount \in Nat
          /\ ctx.parseCount <= acc.c.parseCount
      BY <1>4 DEF WalkOk, ContextOk, ContextTypes, NearGood
    <3> QED
      BY <1>7, <3>1
  <2> QED
    BY <1>1, <1>3, <1>4, <1>5, <1>7, <1>8, <2>1 DEF NearGood
<1>9. Budget(acc.c)
  <2>1. acc.c.parseCount \in Nat /\ u.c.parseCount \in Nat /\ limits.maxParseFiles \in Nat
    BY <1>4 DEF WalkOk, ContextOk, ContextTypes, InputsOk, LimitNames
  <2> QED
    BY <1>7, <1>8, <2>1 DEF Budget
<1>10. /\ FilesIn(acc.next) = Fresh(imports, n - 1)
       /\ Pairs(acc.c) = Pairs(ctx) \cup (Fresh(imports, n - 1) \X {ctx.level.depth})
       /\ Dependencies(acc.c) = Dependencies(ctx) \cup Fresh(imports, n - 1)
  BY <1>5, <1>9 DEF Took
<1>11. \A k : k \in 1 .. n <=> k \in 1 .. n - 1 \/ k = n
  OBVIOUS
<1>12. CASE PassesOver(f, acc, u)
  <2>1. Fresh(imports, n) = Fresh(imports, n - 1)
    <3>1. Fresh(imports, n - 1) \subseteq Fresh(imports, n)
      BY <1>11 DEF Fresh
    <3>2. ASSUME NEW g \in Fresh(imports, n) PROVE g \in Fresh(imports, n - 1)
      <4>1. CASE g # f
        BY <1>1, <1>2, <1>11, <3>2, <4>1 DEF Fresh
      <4>2. CASE g = f
        <5>1. /\ f \in DOMAIN repo /\ Usable(f) /\ f \notin ParsedFiles(ctx) \cup Dependencies(ctx)
          BY <3>2, <4>2 DEF Fresh
        <5>2. f # 0 /\ f \notin Listed(ctx) /\ SourceLines(f) > 0 /\ Parse(f).parsed
          BY <5>1 DEF Usable, InputsOk
        <5>3. f \in Dependencies(acc.c)
          BY <1>6, <1>9, <1>12, <5>1, <5>2 DEF PassesOver
        <5> QED
          BY <1>10, <4>2, <5>1, <5>3
      <4> QED
        BY <4>1, <4>2
    <3> QED
      BY <3>1, <3>2
  <2>2. u.next = acc.next /\ Pairs(u.c) = Pairs(acc.c) /\ Dependencies(u.c) = Dependencies(acc.c)
    BY <1>12 DEF PassesOver, Pairs, Dependencies
  <2> QED
    BY <1>10, <2>1, <2>2 DEF Took
<1>13. CASE Adds(f, acc, u)
  <2>1. PICK p \in Parses : p = Parse(f) /\ p.file = f
    BY <1>13, ParseTypes DEF Adds, Parses
  <2>2. PICK depth \in Nat : depth = acc.c.level.depth /\ depth = ctx.level.depth
    BY <1>4, <1>5 DEF WalkOk, ContextOk, ContextTypes
  <2>3. PICK d \in Deps : d = [file |-> f, depth |-> depth, parsed |-> p]
    BY <1>13, <2>1 DEF Adds, Deps
  <2>4. PICK old \in Seq(Deps) : old = acc.c.dependencies
    BY <1>4 DEF WalkOk, ContextOk, ContextTypes
  <2>5. PICK next \in Seq(Parses) : next = acc.next
    BY <1>4 DEF WalkOk, WalkTypes
  <2>6. u.next = Append(next, p) /\ u.c.dependencies = Append(old, d)
    BY <1>13, <2>1, <2>2, <2>3, <2>4, <2>5 DEF Adds
  <2>7. ToSet(u.next) = ToSet(next) \cup {p} /\ ToSet(u.c.dependencies) = ToSet(old) \cup {d}
    BY <2>6, AppendElements
  <2>8. FilesIn(u.next) = FilesIn(acc.next) \cup {f}
    BY <2>1, <2>5, <2>7 DEF FilesIn
  <2>9. d.file = f /\ d.depth = depth
    BY <2>3
  <2>10. Pairs(u.c) = Pairs(acc.c) \cup {<<f, depth>>}
    BY <2>4, <2>7, <2>9 DEF Pairs
  <2>11. Dependencies(u.c) = Dependencies(acc.c) \cup {f}
    <3>1. Dependencies(u.c) = {e.file : e \in ToSet(u.c.dependencies)}
      BY DEF Dependencies, ToSet
    <3>2. Dependencies(acc.c) = {e.file : e \in ToSet(acc.c.dependencies)}
      BY DEF Dependencies, ToSet
    <3> QED
      BY <2>4, <2>7, <2>9, <3>1, <3>2
  <2>12. Fresh(imports, n) = Fresh(imports, n - 1) \cup {f}
    <3>1. f \in DOMAIN repo /\ f \notin ParsedFiles(ctx) \cup Dependencies(ctx) /\ Usable(f)
      <4>1. f \in DOMAIN repo /\ f \notin ParsedFiles(ctx) /\ f \notin Dependencies(acc.c) /\ f \notin Listed(ctx)
            /\ SourceLines(f) # 0 /\ Parse(f).parsed
        BY <1>6, <1>13 DEF Adds
      <4>2. SourceLines(f) \in Nat
        <5>1. PICK lines \in [DOMAIN repo -> Nat] : lines = [g \in DOMAIN repo |-> SourceLines(g)]
          BY LinesTypes
        <5> QED
          BY <4>1, <5>1
      <4> QED
        BY <1>10, <4>1, <4>2 DEF Usable
    <3> QED
      BY <1>1, <1>2, <1>11, <3>1 DEF Fresh
  <2>13. Fresh(imports, n) \X {depth} = (Fresh(imports, n - 1) \X {depth}) \cup {<<f, depth>>}
    BY <2>12
  <2> QED
    BY <1>10, <2>2, <2>8, <2>10, <2>11, <2>12, <2>13 DEF Took
<1> QED
  BY <1>7, <1>12, <1>13

\* One import further than the files before.
Further(W, n) == IF n = 0 THEN ParsedFiles(ctx) ELSE W[n - 1] \cup UNION {Imported(f) : f \in W[n - 1]}
IsWithin(W) == W = [n \in Nat |-> Further(W, n)]

\* Within is what its definition says.
LEMMA WithinExists == IsWithin(Within)
<1> DEFINE Is(f, m) == f = [n \in 0 .. m |-> Further(f, n)]
<1>1. \A m \in Nat : \E f : Is(f, m)
  <2> DEFINE M == {m \in Nat : \E f : Is(f, m)}
  <2>1. 0 \in M
    <3> DEFINE f == [n \in 0 .. 0 |-> ParsedFiles(ctx)]
    <3>1. \A n \in 0 .. 0 : Further(f, n) = ParsedFiles(ctx)
      BY DEF Further
    <3>2. Is(f, 0)
      BY <3>1
    <3> HIDE DEF f, Is
    <3> QED
      BY <3>2
  <2>2. ASSUME NEW m \in Nat, m \in M PROVE m + 1 \in M
    <3>1. PICK f : Is(f, m)
      BY <2>2
    <3> DEFINE g == [n \in 0 .. m + 1 |-> IF n = m + 1 THEN f[m] \cup UNION {Imported(x) : x \in f[m]} ELSE f[n]]
    <3>2. ASSUME NEW n \in 0 .. m + 1 PROVE g[n] = Further(g, n)
      <4>1. CASE n = m + 1
        <5>1. n # 0 /\ n - 1 = m /\ m \in 0 .. m + 1 /\ m # m + 1
          BY <4>1
        <5>2. g[m] = f[m]
          BY <5>1
        <5>3. g[n] = f[m] \cup UNION {Imported(x) : x \in f[m]}
          BY <4>1
        <5> HIDE DEF g
        <5> QED
          BY <5>1, <5>2, <5>3 DEF Further
      <4>2. CASE n # m + 1
        <5>1. n \in 0 .. m /\ (n # 0 => n - 1 \in 0 .. m + 1 /\ n - 1 # m + 1)
          BY <4>2
        <5>2. g[n] = f[n] /\ (n # 0 => g[n - 1] = f[n - 1])
          BY <4>2, <5>1
        <5>3. f[n] = Further(f, n)
          BY <3>1, <5>1
        <5> HIDE DEF g
        <5> QED
          BY <5>2, <5>3 DEF Further
      <4> QED
        BY <4>1, <4>2
    <3>3. g = [n \in 0 .. m + 1 |-> g[n]]
      OBVIOUS
    <3> HIDE DEF g
    <3>4. [n \in 0 .. m + 1 |-> g[n]] = [n \in 0 .. m + 1 |-> Further(g, n)]
      BY <3>2
    <3>5. Is(g, m + 1) /\ m + 1 \in Nat
      BY <3>3, <3>4
    <3> HIDE DEF Is
    <3> QED
      BY <3>5
  <2> HIDE DEF M
  <2>3. Nat \subseteq M
    BY <2>1, <2>2, SetInduction
  <2> QED
    BY <2>3 DEF M
<1>2. ASSUME NEW f, NEW g, NEW a \in Nat, NEW b \in Nat, Is(f, a), Is(g, b)
      PROVE  \A n \in Nat : n <= a /\ n <= b => f[n] = g[n]
  <2> DEFINE M == {n \in Nat : n <= a /\ n <= b => f[n] = g[n]}
  <2>1. 0 \in M
    <3>1. 0 \in 0 .. a /\ 0 \in 0 .. b
      OBVIOUS
    <3>2. f[0] = Further(f, 0) /\ g[0] = Further(g, 0)
      BY <1>2, <3>1
    <3> QED
      BY <3>2 DEF Further
  <2>2. ASSUME NEW n \in Nat, n \in M PROVE n + 1 \in M
    <3> SUFFICES ASSUME n + 1 <= a, n + 1 <= b PROVE f[n + 1] = g[n + 1]
      OBVIOUS
    <3>1. n + 1 \in 0 .. a /\ n + 1 \in 0 .. b /\ n + 1 # 0 /\ (n + 1) - 1 = n
      OBVIOUS
    <3>2. f[n + 1] = Further(f, n + 1) /\ g[n + 1] = Further(g, n + 1)
      BY <1>2, <3>1
    <3>3. f[n] = g[n]
      BY <2>2
    <3> QED
      BY <3>1, <3>2, <3>3 DEF Further
  <2> HIDE DEF M
  <2>3. Nat \subseteq M
    BY <2>1, <2>2, SetInduction
  <2> QED
    BY <2>3 DEF M
<1> DEFINE part(m) == CHOOSE f : Is(f, m)
           W == [n \in Nat |-> part(n)[n]]
<1>3. \A m \in Nat : Is(part(m), m)
  <2> HIDE DEF Is
  <2> QED
    BY <1>1
<1>4. ASSUME NEW n \in Nat PROVE W[n] = Further(W, n)
  <2>1. n \in 0 .. n
    OBVIOUS
  <2>2. part(n)[n] = Further(part(n), n)
    <3> HIDE DEF part
    <3> QED
      BY <1>3, <2>1
  <2>3. CASE n = 0
    BY <2>2, <2>3 DEF Further
  <2>4. CASE n # 0
    <3>1. n - 1 \in Nat /\ n - 1 <= n - 1 /\ n - 1 <= n
      BY <2>4
    <3>2. Is(part(n), n) /\ Is(part(n - 1), n - 1)
      BY <1>3, <3>1
    <3>3. part(n)[n - 1] = part(n - 1)[n - 1]
      <4> HIDE DEF Is, part
      <4> QED
        BY <1>2, <3>1, <3>2
    <3>4. W[n - 1] = part(n)[n - 1] /\ W[n] = part(n)[n]
      <4> HIDE DEF part
      <4> QED
        BY <3>1, <3>3
    <3> HIDE DEF W, part
    <3> QED
      BY <2>2, <2>4, <3>4 DEF Further
  <2> QED
    BY <2>3, <2>4
<1>5. IsWithin(W)
  <2>1. W = [n \in Nat |-> W[n]]
    OBVIOUS
  <2> HIDE DEF W
  <2>2. [n \in Nat |-> W[n]] = [n \in Nat |-> Further(W, n)]
    BY <1>4
  <2> QED
    BY <2>1, <2>2 DEF IsWithin
<1>6. Within = CHOOSE f : IsWithin(f)
  BY DEF Within, IsWithin, Further
<1> HIDE DEF W
<1> QED
  BY <1>5, <1>6

\* There is one such function.
LEMMA WithinUnique ==
  ASSUME NEW V, NEW W, IsWithin(V), IsWithin(W)
  PROVE  V = W
<1>1. \A n \in Nat : V[n] = Further(V, n) /\ W[n] = Further(W, n)
  BY DEF IsWithin
<1> DEFINE M == {n \in Nat : V[n] = W[n]}
<1>2. 0 \in M
  BY <1>1 DEF Further
<1>3. ASSUME NEW n \in Nat, n \in M PROVE n + 1 \in M
  <2>1. n + 1 \in Nat /\ n + 1 # 0 /\ (n + 1) - 1 = n /\ V[n] = W[n]
    BY <1>3
  <2>2. V[n + 1] = Further(V, n + 1) /\ W[n + 1] = Further(W, n + 1)
    BY <1>1, <2>1
  <2>3. V[n + 1] = W[n + 1]
    BY <2>1, <2>2 DEF Further
  <2> QED
    BY <2>1, <2>3
<1> HIDE DEF M
<1>4. Nat \subseteq M
  BY <1>2, <1>3, SetInduction
<1>5. V = [n \in Nat |-> V[n]] /\ W = [n \in Nat |-> W[n]]
  BY DEF IsWithin
<1>6. [n \in Nat |-> V[n]] = [n \in Nat |-> W[n]]
  BY <1>4 DEF M
<1> QED
  BY <1>5, <1>6

\* The files at exactly n - 1 imports: those whose imports level n follows.
Ring(W, n) == IF n = 1 THEN W[0] ELSE W[n - 1] \ W[n - 2]

\* A level adds what its own files import.
LEMMA NextRing ==
  ASSUME NEW W, IsWithin(W), NEW n \in Nat \ {0}
  PROVE  W[n] = W[n - 1] \cup UNION {Imported(f) : f \in Ring(W, n)}
<1>1. \A m \in Nat : W[m] = Further(W, m)
  BY DEF IsWithin
<1>2. W[n] = W[n - 1] \cup UNION {Imported(f) : f \in W[n - 1]}
  BY <1>1 DEF Further
<1>3. CASE n = 1
  BY <1>2, <1>3 DEF Ring
<1>4. CASE n # 1
  <2>1. n - 1 \in Nat /\ n - 1 # 0 /\ (n - 1) - 1 = n - 2
    BY <1>4
  <2>2. W[n - 1] = W[n - 2] \cup UNION {Imported(f) : f \in W[n - 2]}
    BY <1>1, <2>1 DEF Further
  <2>3. Ring(W, n) = W[n - 1] \ W[n - 2]
    BY <1>4 DEF Ring
  <2> QED
    BY <1>2, <2>2, <2>3
<1> QED
  BY <1>3, <1>4

\* After a level without files there are no further files.
LEMMA RingsEnd ==
  ASSUME NEW W, IsWithin(W), NEW n \in Nat \ {0}, Ring(W, n) = {}
  PROVE  \A k \in Nat : k >= n => W[k] \ W[k - 1] = {}
<1>1. \A m \in Nat : W[m] = Further(W, m)
  BY DEF IsWithin
<1> DEFINE M == {k \in Nat : W[(n - 1) + k] = W[n - 1]}
<1>2. 0 \in M
  <2>1. (n - 1) + 0 = n - 1
    OBVIOUS
  <2> QED
    BY <2>1
<1>3. W[n] = W[n - 1]
  <2>1. W[n] = W[n - 1] \cup UNION {Imported(f) : f \in Ring(W, n)}
    BY NextRing
  <2> QED
    BY <2>1
<1>4. ASSUME NEW k \in Nat, k \in M PROVE k + 1 \in M
  <2>1. PICK m \in Nat : m = (n - 1) + (k + 1) /\ m # 0 /\ m - 1 = (n - 1) + k
    OBVIOUS
  <2>2. W[m - 1] = W[n - 1]
    BY <1>4, <2>1
  <2>3. W[m] = W[m - 1] \cup UNION {Imported(f) : f \in W[m - 1]}
    BY <1>1, <2>1 DEF Further
  <2>4. W[n] = W[n - 1] \cup UNION {Imported(f) : f \in W[n - 1]}
    BY <1>1 DEF Further
  <2>5. W[m] = W[n - 1]
    BY <1>3, <2>2, <2>3, <2>4
  <2> QED
    BY <2>1, <2>5
<1>5. Nat \subseteq M
  <2> HIDE DEF M
  <2> QED
    BY <1>2, <1>4, SetInduction
<1>6. ASSUME NEW k \in Nat, k >= n PROVE W[k] \ W[k - 1] = {}
  <2>1. k - n + 1 \in Nat /\ k - n \in Nat /\ (n - 1) + (k - n + 1) = k /\ (n - 1) + (k - n) = k - 1
    BY <1>6
  <2>2. k - n + 1 \in M /\ k - n \in M
    BY <1>5, <2>1
  <2>3. W[k] = W[n - 1] /\ W[k - 1] = W[n - 1]
    BY <2>1, <2>2
  <2> QED
    BY <2>3
<1> QED
  BY <1>6

\* The files at each depth up to m.
Rings(W, m) == UNION {(W[k] \ W[k - 1]) \X {k} : k \in 1 .. m}

\* Before level n the dependencies are the files at fewer imports, each at its depth.
Walked(c, W) ==
  /\ c.level.depth >= 1 /\ c.level.depth - 1 <= limits.maxDependencyDepth
  /\ Pairs(c) = Rings(W, c.level.depth - 1)
  /\ ParsedFiles(c) \cup Dependencies(c) = W[c.level.depth - 1]
  /\ FilesIn(c.level.files) = Ring(W, c.level.depth)

\* A parse is that of its file.
LEMMA ParseOfFile ==
  ASSUME InputsOk, NEW p \in Parses
  PROVE  p = Parse(p.file) /\ p.file \in DOMAIN repo /\ p.parsed /\ p.imports \in Seq(Seq(STRING))
BY ParseTypes DEF Parses, IsParse

\* What the imports of a file lead to is what they mean.
LEMMA TargetsOf ==
  ASSUME InputsOk, Unambiguous, NEW p \in Parses, NEW g \in DOMAIN repo
  PROVE  (\E i \in ToSet(ImportsOf(p)) : i.target = g) <=>
         \E s \in ToSet(Parse(p.file).imports) : g \in Means(s, p.file)
<1>1. PICK f \in DOMAIN repo : f = p.file /\ p = Parse(f) /\ p.parsed
  BY ParseOfFile
<1>2. PICK imports \in Seq(Seq(STRING)) : imports = p.imports
  BY ParseOfFile
<1>3. PICK t : t = ImportsOf(p)
  OBVIOUS
<1>4. DOMAIN t = DOMAIN imports /\ \A i \in DOMAIN imports : t[i].target = Resolve(imports[i], f)
  BY <1>1, <1>2, <1>3 DEF ImportsOf
<1>5. \A i \in DOMAIN imports : Means(imports[i], f) = {Resolve(imports[i], f)} \ {0}
  <2> TAKE i \in DOMAIN imports
  <2>1. imports[i] \in Seq(STRING)
    OBVIOUS
  <2>2. Clear(imports[i], f)
    BY <1>1, <1>2 DEF Unambiguous, ToSet
  <2> QED
    BY <2>1, <2>2, ResolvesToMeant
<1>6. g # 0
  BY DEF InputsOk
<1>7. (\E i \in ToSet(t) : i.target = g) <=> \E i \in DOMAIN imports : Resolve(imports[i], f) = g
  BY <1>4 DEF ToSet
<1>8. (\E s \in ToSet(imports) : g \in Means(s, f)) <=> \E i \in DOMAIN imports : g \in Means(imports[i], f)
  BY DEF ToSet
<1>9. (\E i \in ToSet(t) : i.target = g) <=> \E s \in ToSet(imports) : g \in Means(s, f)
  BY <1>5, <1>6, <1>7, <1>8
<1> QED
  BY <1>1, <1>2, <1>3, <1>9

\* What an import means is a file.
LEMMA MeantFiles ==
  ASSUME InputsOk, NEW source, NEW f
  PROVE  Means(source, f) \subseteq DOMAIN repo
BY ResolveTypes DEF Means

\* The imports of a level.
LEMMA ImportsOfLevel ==
  ASSUME InputsOk, Unambiguous, NEW files \in Seq(Parses), NEW imports,
         imports = FlattenSeq([i \in DOMAIN files |-> ImportsOf(files[i])])
  PROVE  /\ imports \in Seq(Imports)
         /\ \A g \in DOMAIN repo :
              (\E i \in ToSet(imports) : i.target = g) <=>
              \E f \in FilesIn(files) : \E s \in ToSet(Parse(f).imports) : g \in Means(s, f)
<1> DEFINE each == [i \in DOMAIN files |-> ImportsOf(files[i])]
<1>1. PICK n \in Nat : DOMAIN files = 1 .. n
  OBVIOUS
<1>2. \A i \in 1 .. n : files[i] \in Parses
  BY <1>1
<1>3. \A i \in 1 .. n : ImportsOf(files[i]) \in Seq(Imports)
  BY <1>2, ImportsOfTypes
<1>4. each \in [1 .. n -> Seq(Imports)]
  BY <1>1, <1>3
<1>5. \A i \in 1 .. n : each[i] = ImportsOf(files[i])
  BY <1>1
<1>0. imports = FlattenSeq(each)
  OBVIOUS
<1> HIDE DEF each
<1>6. each \in Seq(Seq(Imports)) /\ DOMAIN each = 1 .. n
  BY <1>4
<1>7. PICK all : all = UNION {ToSet(each[i]) : i \in DOMAIN each}
  OBVIOUS
<1>8. imports \in Seq(Imports) /\ ToSet(imports) = all
  BY <1>0, <1>6, <1>7, FlattenUnion
<1>9. ASSUME NEW g \in DOMAIN repo
      PROVE  (\E x \in all : x.target = g) <=>
             \E f \in FilesIn(files) : \E s \in ToSet(Parse(f).imports) : g \in Means(s, f)
  <2>1. \A i \in 1 .. n : (\E x \in ToSet(each[i]) : x.target = g) <=>
                           \E s \in ToSet(Parse(files[i].file).imports) : g \in Means(s, files[i].file)
    <3> TAKE i \in 1 .. n
    <3>1. PICK p \in Parses : p = files[i] /\ each[i] = ImportsOf(p)
      BY <1>2, <1>5
    <3>2. (\E x \in ToSet(ImportsOf(p)) : x.target = g) <=>
            \E s \in ToSet(Parse(p.file).imports) : g \in Means(s, p.file)
      BY TargetsOf
    <3> QED
      BY <3>1, <3>2
  <2>2. (\E x \in all : x.target = g) <=> \E i \in 1 .. n : \E x \in ToSet(each[i]) : x.target = g
    BY <1>6, <1>7
  <2>3. FilesIn(files) = {files[i].file : i \in 1 .. n}
    BY <1>1 DEF FilesIn, ToSet
  <2> QED
    BY <2>1, <2>2, <2>3
<1> QED
  BY <1>8, <1>9

\* Sorting keeps the files.
LEMMA SortedFiles ==
  ASSUME NEW S, NEW s \in Seq(S), NEW R
  PROVE  Sorted(s, R) \in Seq(S) /\ ToSet(Sorted(s, R)) = ToSet(s)
<1>1. PICK t \in Seq(S) : t = Sorted(s, R) /\ Len(t) = Len(s)
  BY SortedPermutes
<1>2. PICK g : IsPermutation(g, Len(s)) /\ t = [i \in 1 .. Len(s) |-> s[g[i]]]
  BY <1>1, SortedPermutes
<1>3. DOMAIN s = 1 .. Len(s) /\ DOMAIN t = 1 .. Len(s)
  BY <1>1
<1>4. ToSet(t) \subseteq ToSet(s)
  BY <1>2, <1>3 DEF IsPermutation, ToSet
<1>5. ToSet(s) \subseteq ToSet(t)
  <2> SUFFICES ASSUME NEW m \in DOMAIN s PROVE s[m] \in ToSet(t)
    BY DEF ToSet
  <2>1. PICK i \in 1 .. Len(s) : g[i] = m
    BY <1>2, <1>3 DEF IsPermutation
  <2>2. t[i] = s[m]
    BY <1>2, <2>1
  <2> QED
    BY <1>3, <2>2 DEF ToSet
<1> QED
  BY <1>1, <1>4, <1>5

\* One level: what is added is at the next depth.
LEMMA LevelStep ==
  ASSUME InputsOk, ContextOk(ctx), Unambiguous, NEW W, IsWithin(W), WalkLevel,
         Budget(ctx) => Walked(ctx, W)
  PROVE  /\ ctx'.files = ctx.files /\ ctx'.parsed = ctx.parsed
         /\ Budget(ctx') => Walked(ctx', W)
<1> SUFFICES ASSUME ctx' # ctx
             PROVE  /\ ctx'.files = ctx.files /\ ctx'.parsed = ctx.parsed
                    /\ Budget(ctx') => Walked(ctx', W)
  OBVIOUS
<1>1. ctx \in ContextTypes /\ ctx.level \in [depth : Nat, files : Seq(Parses)]
  BY DEF ContextOk, ContextTypes
<1>2. PICK files \in Seq(Parses) : files = ctx.level.files
  BY <1>1
<1>3. PICK n \in Nat : n = ctx.level.depth
  BY <1>1
<1>4. PICK imports : imports = FlattenSeq([i \in DOMAIN files |-> ImportsOf(files[i])])
  OBVIOUS
<1>5. imports \in Seq(Imports) /\ DOMAIN imports = 1 .. Len(imports) /\ Len(imports) \in Nat
  BY <1>4, ImportsOfLevel
<1>22. \A g \in DOMAIN repo :
         (\E i \in ToSet(imports) : i.target = g) <=>
         \E f \in FilesIn(files) : \E s \in ToSet(Parse(f).imports) : g \in Means(s, f)
  BY <1>4, ImportsOfLevel
<1>6. PICK b : b = [c |-> ctx, next |-> <<>>]
  OBVIOUS
<1>7. NearGood(imports, 0, b)
  <2> DEFINE none == <<>>
  <2>1. none \in Seq(Parses) /\ b = [c |-> ctx, next |-> none] /\ ToSet(none) = {}
    BY <1>6 DEF ToSet
  <2> HIDE DEF none
  <2>2. b \in WalkTypes /\ b.c = ctx /\ b.next = none
    BY <1>1, <2>1 DEF WalkTypes
  <2>3. Fresh(imports, 0) = {} /\ FilesIn(none) = {}
    BY <2>1 DEF Fresh, FilesIn
  <2>4. ctx.parseCount \in Nat
    BY <1>1 DEF ContextTypes
  <2> QED
    BY <2>2, <2>3, <2>4 DEF NearGood, WalkOk, Took
<1>8. ASSUME NEW m \in 1 .. Len(imports), NEW a, NearGood(imports, m - 1, a)
      PROVE  NearGood(imports, m, NearOp(imports, a, imports[m]))
  BY <1>5, <1>8, NearStep DEF NearOp
<1>9. NearGood(imports, Len(imports), NearFold!Fold(imports, b, imports))
  BY <1>5, <1>7, <1>8, NearFold!FoldKeeps, InductionOverNat DEF NearFold!Inductive
<1>10. NearFold!Fold(imports, b, imports) = FoldLeft(Import, b, imports)
  BY DEF NearFold!Fold, NearOp, FoldLeft, MapThenFoldSet, NearFold!IsFold, NearFold!Step, NearFold!Largest, Max
<1>11. PICK acc : acc = FoldLeft(Import, b, imports)
  OBVIOUS
<1>12. NearGood(imports, Len(imports), acc)
  BY <1>9, <1>10, <1>11
<1>13. PICK a \in ContextTypes : a = acc.c
  BY <1>12 DEF NearGood, WalkOk, ContextOk
<1>14. PICK next \in Seq(Parses) : next = acc.next
  BY <1>12 DEF NearGood, WalkOk, WalkTypes
<1>15. PICK sorted \in Seq(Parses) : sorted = Sorted(next, ByFile(next)) /\ ToSet(sorted) = ToSet(next)
  BY SortedFiles
<1>16. PICK level : level = [depth |-> n + 1, files |-> sorted]
  OBVIOUS
<1>17. PICK k : k = [a EXCEPT !.level = level]
  OBVIOUS
<1>18. ctx' = k
  <2>1. ctx' = [acc.c EXCEPT !.level = [depth |-> ctx.level.depth + 1, files |-> Sorted(acc.next, ByFile(acc.next))]]
    BY <1>2, <1>4, <1>6, <1>11 DEF WalkLevel
  <2> QED
    BY <1>3, <1>13, <1>14, <1>15, <1>16, <1>17, <2>1
<1>19. /\ k.level = level /\ k.files = a.files /\ k.parsed = a.parsed /\ k.dependencies = a.dependencies
       /\ k.parseCount = a.parseCount /\ level.depth = n + 1 /\ level.files = sorted
  BY <1>16, <1>17 DEF ContextTypes
<1>20. a.files = ctx.files /\ a.parsed = ctx.parsed
  BY <1>12, <1>13 DEF NearGood
<1>21. ASSUME Budget(k) PROVE Walked(k, W)
  <2>1. Budget(ctx) /\ Took(imports, Len(imports), acc)
    <3>1. Budget(a) /\ ctx.parseCount <= a.parseCount
      BY <1>12, <1>13, <1>19, <1>21 DEF NearGood, Budget
    <3>2. ctx.parseCount \in Nat /\ a.parseCount \in Nat /\ limits.maxParseFiles \in Nat
      BY <1>1 DEF ContextTypes, InputsOk, LimitNames
    <3>3. Budget(ctx)
      BY <3>1, <3>2 DEF Budget
    <3> QED
      BY <1>12, <1>13, <3>1, <3>3 DEF NearGood
  <2>2. /\ n >= 1 /\ Pairs(ctx) = Rings(W, n - 1)
        /\ ParsedFiles(ctx) \cup Dependencies(ctx) = W[n - 1] /\ FilesIn(files) = Ring(W, n)
    BY <1>2, <1>3, <2>1 DEF Walked
  <2>3. n \in Nat \ {0}
    BY <2>2
  <2>4. W[n] = W[n - 1] \cup UNION {Imported(f) : f \in Ring(W, n)}
    BY <2>3, NextRing
  <2> DEFINE new == Fresh(imports, Len(imports))
  <2>5. new = W[n] \ W[n - 1]
    <3>1. ASSUME NEW g \in new PROVE g \in W[n] \ W[n - 1]
      <4>1. g \in DOMAIN repo /\ Usable(g) /\ g \notin W[n - 1] /\ \E i \in ToSet(imports) : i.target = g
        BY <1>5, <2>2, <3>1 DEF Fresh, ToSet
      <4>2. PICK f \in Ring(W, n) : \E s \in ToSet(Parse(f).imports) : g \in Means(s, f)
        BY <1>22, <2>2, <4>1
      <4>3. g \in Imported(f)
        BY <4>1, <4>2 DEF Imported
      <4> QED
        BY <2>4, <4>1, <4>3
    <3>2. ASSUME NEW g \in W[n], g \notin W[n - 1] PROVE g \in new
      <4>1. PICK f \in Ring(W, n) : g \in Imported(f)
        BY <2>4, <3>2
      <4>2. PICK s \in ToSet(Parse(f).imports) : g \in Means(s, f) /\ Usable(g)
        BY <4>1 DEF Imported
      <4>3. g \in DOMAIN repo
        BY <4>2, MeantFiles
      <4>4. \E i \in ToSet(imports) : i.target = g
        BY <1>22, <2>2, <4>2, <4>3
      <4>5. \E i \in 1 .. Len(imports) : imports[i].target = g
        BY <1>5, <4>4 DEF ToSet
      <4> QED
        BY <2>2, <3>2, <4>2, <4>3, <4>5 DEF Fresh
    <3> QED
      BY <3>1, <3>2
  <2>6. /\ FilesIn(next) = new /\ Pairs(a) = Pairs(ctx) \cup (new \X {n})
        /\ Dependencies(a) = Dependencies(ctx) \cup new
    BY <1>3, <1>13, <1>14, <2>1 DEF Took
  <2> HIDE DEF new
  <2>7. Pairs(k) = Pairs(a) /\ Dependencies(k) = Dependencies(a) /\ ParsedFiles(k) = ParsedFiles(ctx)
    BY <1>19, <1>20 DEF Pairs, Dependencies, ParsedFiles
  <2>8. Rings(W, n) = Rings(W, n - 1) \cup (new \X {n})
    <3>1. \A m : m \in 1 .. n <=> m \in 1 .. n - 1 \/ m = n
      BY <2>3
    <3>2. Rings(W, n) = Rings(W, n - 1) \cup ((W[n] \ W[n - 1]) \X {n})
      BY <3>1 DEF Rings
    <3> QED
      BY <2>5, <3>2
  <2>9. FilesIn(sorted) = new
    BY <1>15, <2>6 DEF FilesIn
  <2>10. Ring(W, n + 1) = new
    <3>1. n + 1 # 1 /\ (n + 1) - 1 = n /\ (n + 1) - 2 = n - 1
      BY <2>3
    <3> QED
      BY <2>5, <3>1 DEF Ring
  <2>11. ParsedFiles(k) \cup Dependencies(k) = W[n]
    BY <2>2, <2>4, <2>5, <2>6, <2>7
  <2>12. k.level.depth = n + 1 /\ (n + 1) - 1 = n /\ n + 1 >= 1 /\ k.level.files = sorted
    <3>1. (n + 1) - 1 = n /\ n + 1 >= 1
      OBVIOUS
    <3> QED
      BY <1>19, <3>1, Zenon
  <2>13. n <= limits.maxDependencyDepth
    BY <1>3 DEF WalkLevel
  <2>14. Pairs(k) = Rings(W, n)
    BY <2>2, <2>6, <2>7, <2>8
  <2> QED
    BY <2>9, <2>10, <2>11, <2>12, <2>13, <2>14 DEF Walked
<1> QED
  BY <1>18, <1>19, <1>20, <1>21

\* What an import means stays the same while the checkout and the changed files do.
LEMMA SameImports ==
  ASSUME UNCHANGED inputs
  PROVE  /\ Unambiguous' = Unambiguous
         /\ ctx'.files = ctx.files => \A f : Imported(f)' = Imported(f)
<1>1. repo' = repo /\ limits' = limits
  BY DEF inputs
<1>2. \A f : Parse(f)' = Parse(f) /\ SourceLines(f)' = SourceLines(f) /\ Exists(f)' = Exists(f)
  BY <1>1 DEF Parse, SourceLines, LinesUpTo, Exists
<1>3. \A path : FileAt(path)' = FileAt(path)
  BY <1>1, <1>2 DEF FileAt
<1>4. \A s, f : Resolve(s, f)' = Resolve(s, f)
  <2>1. {repo[f].path : f \in {g \in DOMAIN repo : Exists(g)}}' =
          {repo[f].path : f \in {g \in DOMAIN repo : Exists(g)}}
    BY <1>1, <1>2
  <2> QED
    BY <1>1, <1>3, <2>1 DEF Resolve
<1>5. \A s, f : Means(s, f)' = Means(s, f)
  BY <1>1, <1>2, <1>4 DEF Means
<1>6. \A s, f : Clear(s, f)' = Clear(s, f)
  BY <1>1, <1>5 DEF Clear
<1>7. Unambiguous' = Unambiguous
  BY <1>1, <1>2, <1>6 DEF Unambiguous
<1>8. ASSUME ctx'.files = ctx.files PROVE \A f : Imported(f)' = Imported(f)
  <2>1. \A f : Usable(f)' = Usable(f)
    BY <1>2, <1>8 DEF Usable, Listed
  <2> QED
    BY <1>2, <1>5, <2>1 DEF Imported
<1> QED
  BY <1>7, <1>8

\* And so do the files within reach.
LEMMA SameWithin ==
  ASSUME UNCHANGED inputs, ctx'.files = ctx.files, ctx'.parsed = ctx.parsed
  PROVE  Within' = Within
<1>1. IsWithin(Within)'
  BY WithinExists, PTL
<1>2. PICK V : V = Within'
  OBVIOUS
<1>3. ParsedFiles(ctx)' = ParsedFiles(ctx) /\ \A f : Imported(f)' = Imported(f)
  BY SameImports DEF ParsedFiles
<1>4. V = [n \in Nat |-> IF n = 0 THEN ParsedFiles(ctx)' ELSE V[n - 1] \cup UNION {Imported(f)' : f \in V[n - 1]}]
  BY <1>1, <1>2 DEF IsWithin, Further
<1>5. IsWithin(V)
  <2>1. \A n \in Nat : UNION {Imported(f)' : f \in V[n - 1]} = UNION {Imported(f) : f \in V[n - 1]}
    BY <1>3
  <2>2. \A n \in Nat : (IF n = 0 THEN ParsedFiles(ctx)' ELSE V[n - 1] \cup UNION {Imported(f)' : f \in V[n - 1]})
                       = Further(V, n)
    BY <1>3, <2>1 DEF Further
  <2>3. V = [n \in Nat |-> Further(V, n)]
    BY <1>4, <2>2, Zenon
  <2> QED
    BY <2>3 DEF IsWithin
<1> QED
  BY <1>2, <1>5, WithinExists, WithinUnique

\* The first files.
LEMMA WithinFirst == Within[0] = ParsedFiles(ctx)
BY WithinExists DEF IsWithin, Further

\* The changed files in turn: none adds a dependency.
KeptOp(p, c, x) == ParseOne(c, x)
KeptGood(p, n, c) ==
  /\ c \in ContextTypes /\ ContextOk(c)
  /\ c.dependencies = p.dependencies /\ c.files = p.files /\ c.base = p.base
KeptFold == INSTANCE FoldFacts WITH Op <- KeptOp, Good <- KeptGood

\* One changed file.
LEMMA ParseOneKeeps ==
  ASSUME NEW c \in ContextTypes, NEW x
  PROVE  /\ ParseOne(c, x).dependencies = c.dependencies /\ ParseOne(c, x).files = c.files
         /\ ParseOne(c, x).base = c.base
<1>1. PICK k : k = [c EXCEPT !.parseCount = @ + 1]
  OBVIOUS
<1>2. k.dependencies = c.dependencies /\ k.files = c.files /\ k.base = c.base
  BY <1>1 DEF ContextTypes
<1>3. PICK p : p = Parse(x.file)
  OBVIOUS
<1>4. PICK parsed, symbols : parsed = Append(k.parsed, p) /\ symbols = k.symbols \o ChangedSymbols(p, x.changedLines)
  OBVIOUS
<1>5. PICK m : m = [k EXCEPT !.parsed = parsed, !.symbols = symbols]
  OBVIOUS
<1>6. m.dependencies = c.dependencies /\ m.files = c.files /\ m.base = c.base
  BY <1>1, <1>2, <1>5 DEF ContextTypes
<1>7. ParseOne(c, x) = c \/ ParseOne(c, x) = k \/ ParseOne(c, x) = m
  BY <1>1, <1>3, <1>4, <1>5 DEF ParseOne
<1> QED
  BY <1>2, <1>6, <1>7

\* All of them.
LEMMA ParseKeeps ==
  ASSUME InputsOk, ContextOk(ctx), NEW c, c = FoldLeft(ParseOne, ctx, ctx.files)
  PROVE  KeptGood(ctx, Len(ctx.files), c)
<1>1. PICK files \in Seq(Changes) : files = ctx.files
  BY DEF ContextOk, ContextTypes
<1>2. DOMAIN files = 1 .. Len(files) /\ Len(files) \in Nat
  OBVIOUS
<1>3. ASSUME NEW n \in 1 .. Len(files), NEW a, KeptGood(ctx, n - 1, a)
      PROVE  KeptGood(ctx, n, KeptOp(ctx, a, files[n]))
  <2>1. PICK x \in Changes : x = files[n]
    OBVIOUS
  <2>2. PICK u : u = ParseOne(a, x)
    OBVIOUS
  <2>3. ContextOk(u)
    BY <1>3, <2>2, ParseOneOk DEF KeptGood
  <2>4. u.dependencies = a.dependencies /\ u.files = a.files /\ u.base = a.base
    BY <1>3, <2>2, ParseOneKeeps DEF KeptGood
  <2> QED
    BY <1>3, <2>1, <2>2, <2>3, <2>4 DEF KeptGood, KeptOp, ContextOk
<1>4. KeptGood(ctx, 0, ctx)
  BY DEF KeptGood, ContextOk
<1>5. KeptGood(ctx, Len(files), KeptFold!Fold(ctx, ctx, files))
  BY <1>2, <1>3, <1>4, KeptFold!FoldKeeps, InductionOverNat DEF KeptFold!Inductive
<1>6. KeptFold!Fold(ctx, ctx, files) = FoldLeft(ParseOne, ctx, files)
  BY DEF KeptFold!Fold, KeptOp, FoldLeft, MapThenFoldSet, KeptFold!IsFold, KeptFold!Step, KeptFold!Largest, Max
<1> QED
  BY <1>1, <1>5, <1>6

\* While the walk lasts, and once it is over, the dependencies are the nearest.
Early == {"init", "fetch", "fetchRef", "checkout", "diff", "parse"}
WalkIsOver == At("history") \/ (At("cleanup") /\ build.ok)
NearSoFar ==
  Unambiguous /\ Budget(ctx) =>
    /\ At("walk") => Walked(ctx, Within)
    /\ WalkIsOver => Pairs(ctx) = Rings(Within, limits.maxDependencyDepth)
NearInv ==
  /\ BudgetInv /\ CheckoutInv /\ NearSoFar
  /\ build.ok => build.pc \in {"cleanup", "done", "failed"}
  /\ build.pc \in Early => ctx.dependencies = <<>>

\* At the start nothing is built.
LEMMA NearInit == Init => NearInv
<1> SUFFICES ASSUME Init PROVE NearInv
  OBVIOUS
<1>1. BudgetInv /\ CheckoutInv
  BY BudgetInit, CheckoutInit
<1>2. build.pc = "init" /\ ~build.ok /\ ctx.dependencies = <<>>
  BY DEF Init, NoContext
<1> QED
  BY <1>1, <1>2 DEF NearInv, NearSoFar, At, WalkIsOver

\* What was promised of the walk still is while no part of it changes.
LEMMA NearSoFarStays ==
  ASSUME NearInv, UNCHANGED inputs, ctx'.files = ctx.files, ctx'.parsed = ctx.parsed,
         ctx'.dependencies = ctx.dependencies, ctx'.parseCount = ctx.parseCount, ctx'.level = ctx.level,
         At("walk")' => At("walk"), WalkIsOver' => WalkIsOver
  PROVE  NearSoFar'
<1>1. repo' = repo /\ limits' = limits /\ Within' = Within /\ Unambiguous' = Unambiguous
  BY SameWithin, SameImports DEF inputs
<1>2. /\ Budget(ctx)' = Budget(ctx) /\ Pairs(ctx)' = Pairs(ctx)
      /\ ParsedFiles(ctx)' = ParsedFiles(ctx) /\ Dependencies(ctx)' = Dependencies(ctx)
  BY <1>1 DEF Budget, Pairs, ParsedFiles, Dependencies
<1>3. \A m : Rings(Within, m)' = Rings(Within, m) /\ Ring(Within, m)' = Ring(Within, m)
  BY <1>1 DEF Rings, Ring
<1>4. FilesIn(ctx.level.files)' = FilesIn(ctx.level.files)
  BY DEF FilesIn
<1>5. Walked(ctx, Within)' = Walked(ctx, Within)
  BY <1>1, <1>2, <1>3, <1>4 DEF Walked
<1>6. Rings(Within, limits.maxDependencyDepth)' = Rings(Within, limits.maxDependencyDepth)
  BY <1>1 DEF Rings
<1> QED
  BY <1>1, <1>2, <1>5, <1>6 DEF NearInv, NearSoFar

\* A step that leaves the context alone.
LEMMA NearSame ==
  ASSUME NearInv, BudgetInv', CheckoutInv', UNCHANGED inputs, ctx' = ctx,
         At("walk")' => At("walk"), WalkIsOver' => WalkIsOver, build'.pc \in Early => build.pc \in Early,
         build'.ok => build'.pc \in {"cleanup", "done", "failed"}
  PROVE  NearInv'
<1>1. NearSoFar'
  BY NearSoFarStays
<1>2. build'.pc \in Early => ctx'.dependencies = <<>>
  BY DEF NearInv
<1> QED
  BY <1>1, <1>2 DEF NearInv, Early

\* The walk starts at the parsed files.
LEMMA NearParse ==
  ASSUME NearInv, BudgetInv', CheckoutInv', ParseChanged, build'.pc = "walk"
  PROVE  NearInv'
<1>1. InputsOk /\ ContextOk(ctx) /\ ctx.dependencies = <<>> /\ DOMAIN build = {"pc", "ok", "dir"} /\ ~build.ok
  BY DEF NearInv, BudgetInv, CheckoutInv, ParseChanged, At, Early
<1>2. PICK c : c = FoldLeft(ParseOne, ctx, ctx.files)
  OBVIOUS
<1>3. KeptGood(ctx, Len(ctx.files), c)
  BY <1>1, <1>2, ParseKeeps
<1>4. c \in ContextTypes /\ c.dependencies = <<>>
  BY <1>1, <1>3 DEF KeptGood
<1>5. PICK level : level = [depth |-> 1, files |-> c.parsed]
  OBVIOUS
<1>6. PICK k : k = [c EXCEPT !.level = level]
  OBVIOUS
<1>7. ctx' = k /\ build' = [build EXCEPT !.pc = "walk"] /\ UNCHANGED inputs
  BY <1>1, <1>2, <1>5, <1>6 DEF ParseChanged, Goto
<1>8. k.level = level /\ k.parsed = c.parsed /\ k.dependencies = <<>>
  BY <1>4, <1>6 DEF ContextTypes
<1>9. build'.pc = "walk" /\ build'.ok = build.ok
  BY <1>1, <1>7
<1>10. limits'.maxDependencyDepth \in Nat
  BY <1>1, <1>7 DEF inputs, InputsOk, LimitNames
<1>11. Within'[0] = ParsedFiles(ctx)'
  <2>1. (Within[0] = ParsedFiles(ctx))'
    BY WithinFirst, PTL
  <2> QED
    BY <2>1
<1>12. Walked(ctx, Within)'
  <2>1. ctx'.level.depth = 1 /\ ctx'.level.files = ctx'.parsed
    BY <1>5, <1>7, <1>8
  <2>2. Pairs(ctx)' = {} /\ Dependencies(ctx)' = {}
    BY <1>7, <1>8 DEF Pairs, Dependencies, ToSet
  <2>3. Rings(Within, 0)' = {}
    BY DEF Rings
  <2>4. FilesIn(ctx.level.files)' = ParsedFiles(ctx)'
    <3>1. FilesIn(ctx'.parsed) = ParsedFiles(ctx')
      BY DEF FilesIn, ParsedFiles, ToSet
    <3> QED
      BY <2>1, <3>1 DEF FilesIn, ParsedFiles
  <2>5. Ring(Within, 1)' = Within'[0]
    BY DEF Ring
  <2>6. 1 - 1 = 0 /\ 1 >= 1 /\ 0 <= limits'.maxDependencyDepth
    BY <1>10
  <2> QED
    BY <1>11, <2>1, <2>2, <2>3, <2>4, <2>5, <2>6 DEF Walked
<1>13. NearSoFar'
  BY <1>9, <1>12 DEF NearSoFar, At, WalkIsOver
<1> QED
  BY <1>1, <1>9, <1>13 DEF NearInv, Early

\* A level of the walk.
LEMMA NearWalk ==
  ASSUME NearInv, BudgetInv', CheckoutInv', WalkLevel, build' = build
  PROVE  NearInv'
<1>1. InputsOk /\ ContextOk(ctx) /\ build.pc = "walk" /\ build' = build /\ UNCHANGED inputs
  BY WalkOutcome DEF NearInv, BudgetInv
<1>2. IsWithin(Within)
  BY WithinExists
<1>3. ASSUME Unambiguous, Budget(ctx)' PROVE Walked(ctx, Within)'
  <2>1. Budget(ctx) => Walked(ctx, Within)
    BY <1>1, <1>3 DEF NearInv, NearSoFar, At
  <2>2. PICK W : W = Within
    OBVIOUS
  <2>3. IsWithin(W) /\ (Budget(ctx) => Walked(ctx, W))
    BY <1>2, <2>1, <2>2
  <2>4. ctx'.files = ctx.files /\ ctx'.parsed = ctx.parsed /\ (Budget(ctx') => Walked(ctx', W))
    BY <1>1, <1>3, <2>3, LevelStep
  <2>5. Within' = W /\ limits' = limits
    BY <1>1, <2>2, <2>4, SameWithin DEF inputs
  <2>6. Budget(ctx')
    BY <1>3, <2>5 DEF Budget
  <2>7. Walked(ctx', W) <=> Walked(ctx, Within)'
    BY <2>5 DEF Walked, Rings, Ring, Pairs, ParsedFiles, Dependencies, FilesIn
  <2> QED
    BY <2>4, <2>6, <2>7
<1>4. Unambiguous' = Unambiguous
  BY <1>1, SameImports
<1>5. NearSoFar'
  BY <1>1, <1>3, <1>4 DEF NearSoFar, At, WalkIsOver
<1> QED
  BY <1>1, <1>5 DEF NearInv, Early

\* After the last level, or one without files, nothing further is near enough.
LEMMA NearRelate ==
  ASSUME NearInv, BudgetInv', CheckoutInv', Relate
  PROVE  NearInv'
<1>1. /\ InputsOk /\ ContextOk(ctx) /\ build.pc = "walk" /\ UNCHANGED inputs
      /\ DOMAIN build = {"pc", "ok", "dir"} /\ ~build.ok
      /\ build' = [build EXCEPT !.pc = "history"]
  BY DEF NearInv, BudgetInv, CheckoutInv, Relate, At, Goto
<1>2. build'.pc = "history" /\ build'.ok = build.ok
  BY <1>1
<1>3. PICK graph, source : ctx' = [ctx EXCEPT !.graph = graph, !.source = source]
  BY DEF Relate
<1>4. ctx \in ContextTypes /\ ctx.level \in [depth : Nat, files : Seq(Parses)]
  BY <1>1 DEF ContextOk, ContextTypes
<1>5. /\ ctx'.files = ctx.files /\ ctx'.parsed = ctx.parsed /\ ctx'.dependencies = ctx.dependencies
      /\ ctx'.parseCount = ctx.parseCount
  BY <1>3, <1>4 DEF ContextTypes
<1>6. repo' = repo /\ limits' = limits /\ Within' = Within /\ Unambiguous' = Unambiguous
  BY <1>1, <1>5, SameWithin, SameImports DEF inputs
<1>7. PICK m \in Nat : m = limits.maxDependencyDepth
  BY <1>1 DEF InputsOk, LimitNames
<1>8. PICK n \in Nat : n = ctx.level.depth
  BY <1>4
<1>9. ASSUME Unambiguous, Budget(ctx) PROVE Pairs(ctx) = Rings(Within, m)
  <2>1. Walked(ctx, Within)
    BY <1>1, <1>9 DEF NearInv, NearSoFar, At
  <2>2. /\ n >= 1 /\ n - 1 <= m /\ Pairs(ctx) = Rings(Within, n - 1)
        /\ FilesIn(ctx.level.files) = Ring(Within, n)
    BY <1>7, <1>8, <2>1 DEF Walked
  <2>3. CASE n > m
    <3>1. n - 1 = m
      BY <2>2, <2>3
    <3> QED
      BY <2>2, <3>1
  <2>4. CASE ctx.level.files = <<>>
    <3>1. Ring(Within, n) = {}
      BY <2>2, <2>4 DEF FilesIn, ToSet
    <3>2. PICK W : W = Within /\ IsWithin(W)
      BY WithinExists
    <3>3. n \in Nat \ {0} /\ Ring(W, n) = {}
      BY <2>2, <3>1, <3>2
    <3>4. \A k \in Nat : k >= n => W[k] \ W[k - 1] = {}
      BY <3>2, <3>3, RingsEnd
    <3>5. \A k \in 1 .. m : k \notin 1 .. n - 1 => (W[k] \ W[k - 1]) \X {k} = {}
      <4> TAKE k \in 1 .. m
      <4> HAVE k \notin 1 .. n - 1
      <4>1. k \in Nat /\ k >= n
        BY <2>2
      <4>2. W[k] \ W[k - 1] = {}
        BY <3>4, <4>1
      <4> QED
        BY <4>2
    <3>6. \A k \in 1 .. n - 1 : k \in 1 .. m
      BY <2>2
    <3>7. \A t : t \in Rings(W, m) <=> t \in Rings(W, n - 1)
      BY <3>5, <3>6 DEF Rings
    <3>8. Rings(W, m) = Rings(W, n - 1)
      BY <3>7
    <3> QED
      BY <2>2, <3>2, <3>8
  <2>5. ctx.level.files = <<>> \/ n > m
    BY <1>7, <1>8 DEF Relate
  <2> QED
    BY <2>3, <2>4, <2>5
<1>10. /\ Budget(ctx)' = Budget(ctx) /\ Pairs(ctx)' = Pairs(ctx)
       /\ Rings(Within, limits.maxDependencyDepth)' = Rings(Within, m)
  BY <1>5, <1>6, <1>7 DEF Budget, Pairs, Rings
<1>11. NearSoFar'
  BY <1>2, <1>6, <1>9, <1>10 DEF NearSoFar, At
<1> QED
  BY <1>1, <1>2, <1>11 DEF NearInv, Early

\* Every step of the build.
LEMMA NearNext ==
  ASSUME NearInv, [Next]_vars
  PROVE  NearInv'
<1>1. BudgetInv' /\ CheckoutInv'
  BY BudgetNext, CheckoutNext DEF NearInv
<1>2. UNCHANGED inputs
  BY DEF Next, vars, inputs, MakeDirectory, Fetch, FetchRef, Checkout, RemoveCheckout, Diff, ParseChanged,
         WalkLevel, Relate, History, Finish
<1>3. DOMAIN build = {"pc", "ok", "dir"} /\ (build.ok => build.pc \in {"cleanup", "done", "failed"})
  BY DEF NearInv, CheckoutInv
<1>4. CASE MakeDirectory
  <2>1. /\ build.pc = "init" /\ ctx' = ctx /\ build'.pc \in {"fetch", "failed", "abandon"}
        /\ build'.ok = build.ok
    BY <1>3, <1>4 DEF MakeDirectory, At
  <2> QED
    BY <1>1, <1>2, <1>3, <2>1, NearSame DEF At, WalkIsOver, Early
<1>5. CASE Fetch \/ FetchRef \/ Checkout
  <2>1. /\ build.pc \in {"fetch", "fetchRef", "checkout"} /\ ctx' = ctx
        /\ build'.pc \in {"checkout", "fetchRef", "abandon", "diff"} /\ build'.ok = build.ok
    BY <1>3, <1>5 DEF Fetch, FetchRef, Checkout, At, Goto
  <2> QED
    BY <1>1, <1>2, <1>3, <2>1, NearSame DEF At, WalkIsOver, Early
<1>6. CASE RemoveCheckout
  <2>1. ctx' = ctx /\ build'.pc \in {"done", "failed"}
    BY <1>3, <1>6 DEF RemoveCheckout
  <2> QED
    BY <1>1, <1>2, <1>3, <2>1, NearSame DEF At, WalkIsOver, Early
<1>7. CASE Diff
  <2>1. ~build.ok /\ build'.ok = build.ok /\ build'.pc \in {"parse", "cleanup"} /\ build.pc = "diff"
    BY <1>3, <1>7 DEF Diff, At, Goto
  <2>2. PICK base, files : ctx' = ctx \/ ctx' = [ctx EXCEPT !.base = base, !.files = files]
    BY <1>7 DEF Diff
  <2>3. ctx'.dependencies = <<>>
    <3>1. ctx.dependencies = <<>> /\ ctx \in ContextTypes
      BY <2>1 DEF NearInv, Early, BudgetInv, ContextOk
    <3> QED
      BY <2>2, <3>1 DEF ContextTypes
  <2>4. NearSoFar'
    BY <2>1 DEF NearSoFar, At, WalkIsOver
  <2> QED
    BY <1>1, <2>1, <2>3, <2>4 DEF NearInv
<1>8. CASE ParseChanged
  <2>1. ~build.ok /\ build'.ok = build.ok /\ build'.pc \in {"walk", "cleanup"} /\ build.pc = "parse"
    BY <1>3, <1>8 DEF ParseChanged, At, Goto
  <2>2. CASE build'.pc = "cleanup"
    <3>1. ctx' = ctx
      BY <1>3, <1>8, <2>2 DEF ParseChanged, Goto
    <3> QED
      BY <1>1, <1>2, <2>1, <2>2, <3>1, NearSame DEF At, WalkIsOver, Early
  <2> QED
    BY <1>1, <1>8, <2>1, <2>2, NearParse
<1>9. CASE WalkLevel
  <2>1. CASE build' = build
    BY <1>1, <1>9, <2>1, NearWalk
  <2>2. CASE build'.pc = "cleanup" /\ ctx' = ctx
    <3>1. build.pc = "walk" /\ ~build'.ok
      BY <1>9, WalkOutcome DEF NearInv
    <3> QED
      BY <1>1, <1>2, <2>2, <3>1, NearSame DEF At, WalkIsOver, Early
  <2> QED
    BY <1>9, <2>1, <2>2, WalkOutcome DEF NearInv
<1>10. CASE Relate
  BY <1>1, <1>10, NearRelate
<1>11. CASE History \/ UNCHANGED vars
  <2>1. ctx' = ctx /\ build' = build
    BY <1>11 DEF History, vars
  <2> QED
    BY <1>1, <1>2, <1>3, <2>1, NearSame DEF At, WalkIsOver, Early
<1>12. CASE Finish
  <2>1. ctx' = ctx /\ build.pc = "history" /\ build'.pc = "cleanup"
    BY <1>3, <1>12 DEF Finish, At
  <2> QED
    BY <1>1, <1>2, <1>3, <2>1, NearSame DEF At, WalkIsOver, Early
<1> QED
  BY <1>4, <1>5, <1>6, <1>7, <1>8, <1>9, <1>10, <1>11, <1>12 DEF Next

\* For every checkout and every limits: unless the budget of parses runs out or an
\* import of a parsed file could mean several files, the dependencies are the
\* readable files within maxDependencyDepth imports of a changed one, each at the
\* length of the shortest chain, however the imports run in circles or meet again.
THEOREM DependenciesAlwaysNearest == Spec => []DependenciesNearest
<1>1. NearInv => DependenciesNearest
  <2> SUFFICES ASSUME NearInv, Built, Budget(ctx), Unambiguous
               PROVE  Pairs(ctx) = Rings(Within, limits.maxDependencyDepth)
    BY DEF DependenciesNearest, Pairs, Rings
  <2> QED
    BY DEF NearInv, NearSoFar, Built, WalkIsOver
<1>2. NearInv /\ [Next]_vars => NearInv'
  BY NearNext
<1> QED
  BY <1>1, <1>2, NearInit, PTL DEF Spec

-----------------------------------------------------------------------------
(* A diff is read back at the lines it shows.                              *)

\* The lines of a patch; the state of its reader.
PatchLines == [kind : Ops \cup {"header", "other", "@@"}, at : Nat]
Readers == [inHunk : BOOLEAN, newLine : Nat, changed : Seq(Nat)]

\* The line of the head that a line of the edit is, or comes after.
LEMMA HeadLineNext ==
  ASSUME NEW edit \in Seq(Ops), NEW i \in 1 .. Len(edit)
  PROVE  /\ HeadLine(edit, i - 1) \in Nat
         /\ HeadLine(edit, i) = HeadLine(edit, i - 1) + IF InHead(edit[i]) THEN 1 ELSE 0
<1>1. PICK s \in Seq(Ops) : s = SubSeq(edit, 1, i - 1)
  <2>1. SubSeq(edit, 1, i - 1) \in Seq(Ops)
    OBVIOUS
  <2> QED
    BY <2>1
<1>2. PICK x \in Ops : x = edit[i]
  OBVIOUS
<1>3. SubSeq(edit, 1, i) = Append(s, x)
  BY <1>1, <1>2
<1>4. PICK k \in Seq(Ops) : k = Kept(s, HeadOps)
  BY KeptElements
<1>5. Kept(SubSeq(edit, 1, i), HeadOps) = Longer(k, x, HeadOps)
  BY <1>3, <1>4, KeptAppend
<1>6. Len(Longer(k, x, HeadOps)) = Len(k) + IF x \in HeadOps THEN 1 ELSE 0
  BY DEF Longer
<1>7. Len(k) \in Nat
  OBVIOUS
<1> QED
  BY <1>1, <1>2, <1>4, <1>5, <1>6, <1>7 DEF HeadLine, InHead

\* A line of the head comes in the hunk from line i on.
AnyLeft(edit, context, i) ==
  \E j \in i .. Len(edit) : InHead(edit[j]) /\ \A k \in i .. j : Shown(edit, context, k)

\* The reader is in a hunk and counts the line of the head that comes next, if any does.
Ready(edit, context, i, a) ==
  /\ a.inHunk
  /\ \/ a.newLine = HeadLine(edit, i - 1) + 1
     \/ a.newLine = HeadLine(edit, i - 1) /\ ~AnyLeft(edit, context, i)

\* The lines of the head that are shown of the first m of an edit, in ascending order.
ShownLines(edit, context, m) ==
  {HeadLine(edit, i) : i \in {j \in 1 .. m : InHead(edit[j]) /\ Shown(edit, context, j)}}
Ascending(lines) == \A j, k \in DOMAIN lines : j < k => lines[j] < lines[k]
Reads(edit, context, m, a) ==
  /\ a \in Readers
  /\ Ascending(a.changed)
  /\ ToSet(a.changed) = ShownLines(edit, context, m)
  /\ \A l \in ToSet(a.changed) : l <= HeadLine(edit, m)
HasRead(edit, context, m, a) ==
  /\ Reads(edit, context, m, a)
  /\ m > 0 /\ Shown(edit, context, m) => Ready(edit, context, m + 1, a)

\* Of one more line of the edit, the line of the head if it is one that is shown.
LEMMA ShownLinesNext ==
  ASSUME NEW edit, NEW context, NEW i \in Nat \ {0}
  PROVE  ShownLines(edit, context, i) = ShownLines(edit, context, i - 1) \cup
           IF InHead(edit[i]) /\ Shown(edit, context, i) THEN {HeadLine(edit, i)} ELSE {}
<1>1. \A j : j \in 1 .. i <=> j \in 1 .. i - 1 \/ j = i
  OBVIOUS
<1> QED
  BY <1>1 DEF ShownLines

\* One more line, larger than the ones before.
LEMMA AscendingNext ==
  ASSUME NEW lines \in Seq(Nat), Ascending(lines), NEW l \in Nat, \A k \in ToSet(lines) : k < l
  PROVE  Ascending(Append(lines, l))
<1>1. PICK n \in Nat : n = Len(lines) /\ DOMAIN lines = 1 .. n
  OBVIOUS
<1>2. PICK u \in Seq(Nat) : u = Append(lines, l)
  <2>1. Append(lines, l) \in Seq(Nat)
    OBVIOUS
  <2> QED
    BY <2>1
<1>3. DOMAIN u = 1 .. n + 1 /\ u[n + 1] = l /\ \A j \in 1 .. n : u[j] = lines[j]
  BY <1>1, <1>2
<1>4. \A j \in 1 .. n : lines[j] < l
  BY <1>1 DEF ToSet
<1>5. ASSUME NEW j \in 1 .. n + 1, NEW k \in 1 .. n + 1, j < k PROVE u[j] < u[k]
  <2>1. j \in 1 .. n
    BY <1>5
  <2>2. CASE k = n + 1
    BY <1>3, <1>4, <2>1, <2>2
  <2>3. CASE k # n + 1
    <3>1. k \in 1 .. n
      BY <2>3
    <3>2. lines[j] < lines[k]
      BY <1>1, <1>5, <2>1, <3>1 DEF Ascending
    <3> QED
      BY <1>3, <2>1, <3>1, <3>2
  <2> QED
    BY <2>2, <2>3
<1> QED
  BY <1>2, <1>3, <1>5 DEF Ascending

\* A line of a hunk.
LEMMA ReadLine ==
  ASSUME NEW edit \in Seq(Ops), Unmistakable(edit), NEW context, NEW i \in 1 .. Len(edit),
         Shown(edit, context, i), NEW a, Reads(edit, context, i - 1, a), Ready(edit, context, i, a)
  PROVE  HasRead(edit, context, i, PatchLine(a, L(edit[i])))
<1>1. PICK n \in Nat : n = HeadLine(edit, i - 1)
  BY HeadLineNext
<1>2. HeadLine(edit, i) = n + IF InHead(edit[i]) THEN 1 ELSE 0
  BY <1>1, HeadLineNext
<1>3. PICK x \in Ops : x = edit[i] /\ x \notin HeaderLike
  BY DEF Unmistakable
<1>4. x \in {" ", "+", "-"}
  BY <1>3 DEF Ops, HeadOps, HeaderLike
<1>5. PICK line : line = L(x) /\ line.kind = x
  <2>1. L(x).kind = x
    BY DEF L
  <2> QED
    BY <2>1
<1>6. a \in Readers /\ a.inHunk
  BY DEF Reads, Ready
<1>7. i \in Nat \ {0} /\ (i + 1) - 1 = i /\ i > 0
  OBVIOUS
<1>8. CASE InHead(x)
  <2>1. AnyLeft(edit, context, i)
    <3>1. i \in i .. Len(edit) /\ \A k \in i .. i : k = i
      OBVIOUS
    <3> QED
      BY <1>3, <1>8, <3>1 DEF AnyLeft
  <2>2. a.newLine = n + 1
    BY <1>1, <2>1 DEF Ready
  <2>3. PICK u : u = Append(a.changed, n + 1)
    OBVIOUS
  <2>4. PICK c : c = [a EXCEPT !.newLine = n + 2, !.changed = u]
    OBVIOUS
  <2>5. x \in {"+", " "} /\ x \notin HeaderLike \cup {"other"} /\ x # "@@"
    BY <1>4, <1>8 DEF InHead, HeadOps, HeaderLike
  <2>6. PatchLine(a, line) = c
    <3>1. a.newLine + 1 = n + 2 /\ a.newLine > 0
      BY <2>2
    <3>2. PatchLine(a, line) = [a EXCEPT !.newLine = @ + 1,
                                  !.changed = IF a.newLine > 0 THEN Append(@, a.newLine) ELSE @]
      BY <1>5, <1>6, <2>5 DEF PatchLine
    <3> QED
      BY <1>6, <2>2, <2>3, <2>4, <3>1, <3>2 DEF Readers
  <2>7. PICK lines \in Seq(Nat) : lines = a.changed
    BY <1>6 DEF Readers
  <2>8. u \in Seq(Nat) /\ ToSet(u) = ToSet(lines) \cup {n + 1}
    <3>1. n + 1 \in Nat
      OBVIOUS
    <3> QED
      BY <2>3, <2>7, <3>1, AppendElements
  <2>9. c \in Readers /\ c.inHunk /\ c.newLine = n + 2 /\ c.changed = u
    <3>1. PICK r \in Readers : r = a /\ r.inHunk
      BY <1>6
    <3>2. PICK m \in Nat : m = n + 2
      OBVIOUS
    <3>3. c = [r EXCEPT !.newLine = m, !.changed = u]
      BY <2>4, <3>1, <3>2
    <3>4. c \in Readers
      BY <2>8, <3>3 DEF Readers
    <3>5. c.inHunk = r.inHunk /\ c.newLine = m /\ c.changed = u
      BY <3>3 DEF Readers
    <3> QED
      BY <3>1, <3>2, <3>4, <3>5
  <2>10. \A l \in ToSet(lines) : l \in Nat /\ l <= n
    <3>1. \A l \in ToSet(lines) : l <= n
      BY <1>1, <2>7 DEF Reads
    <3>2. \A l \in ToSet(lines) : l \in Nat
      BY <2>7 DEF ToSet
    <3> QED
      BY <3>1, <3>2
  <2>11. Ascending(u)
    <3>1. n + 1 \in Nat /\ \A k \in ToSet(lines) : k < n + 1
      BY <2>10
    <3>2. Ascending(lines)
      BY <2>7 DEF Reads
    <3>3. Ascending(Append(lines, n + 1))
      BY <3>1, <3>2, AscendingNext
    <3> QED
      BY <2>3, <2>7, <3>3
  <2>12. HeadLine(edit, i) = n + 1
    BY <1>2, <1>3, <1>8
  <2>13. ToSet(u) = ShownLines(edit, context, i)
    <3>1. ShownLines(edit, context, i) = ShownLines(edit, context, i - 1) \cup {HeadLine(edit, i)}
      BY <1>3, <1>7, <1>8, ShownLinesNext
    <3>2. ToSet(lines) = ShownLines(edit, context, i - 1)
      BY <2>7 DEF Reads
    <3> QED
      BY <2>8, <2>12, <3>1, <3>2
  <2>14. \A l \in ToSet(u) : l <= HeadLine(edit, i)
    BY <2>8, <2>10, <2>12
  <2>15. Ready(edit, context, i + 1, c)
    BY <1>7, <2>9, <2>12 DEF Ready
  <2> QED
    BY <1>3, <1>5, <2>6, <2>9, <2>11, <2>13, <2>14, <2>15 DEF HasRead, Reads
<1>9. CASE ~InHead(x)
  <2>1. x = "-"
    BY <1>4, <1>9 DEF InHead, HeadOps
  <2>2. PatchLine(a, line) = a
    BY <1>5, <2>1 DEF PatchLine, HeaderLike
  <2>3. HeadLine(edit, i) = n
    BY <1>2, <1>3, <1>9
  <2>4. ShownLines(edit, context, i) = ShownLines(edit, context, i - 1)
    <3>1. ~ (InHead(edit[i]) /\ Shown(edit, context, i))
      BY <1>3, <1>9
    <3>2. ShownLines(edit, context, i) = ShownLines(edit, context, i - 1) \cup {}
      BY <1>7, <3>1, ShownLinesNext
    <3> QED
      BY <3>2
  <2>5. AnyLeft(edit, context, i + 1) => AnyLeft(edit, context, i)
    <3> SUFFICES ASSUME NEW j \in i + 1 .. Len(edit), InHead(edit[j]), \A k \in i + 1 .. j : Shown(edit, context, k)
                 PROVE  j \in i .. Len(edit) /\ \A k \in i .. j : Shown(edit, context, k)
      BY DEF AnyLeft
    <3>1. \A k \in i .. j : k = i \/ k \in i + 1 .. j
      OBVIOUS
    <3> QED
      BY <3>1
  <2>6. Ready(edit, context, i + 1, a)
    BY <1>1, <1>7, <2>3, <2>5 DEF Ready
  <2> QED
    BY <1>1, <1>3, <1>5, <2>2, <2>3, <2>4, <2>6 DEF HasRead, Reads
<1> QED
  BY <1>8, <1>9

\* The lines of a patch in turn.
PatchOp(p, a, x) == PatchLine(a, x)
PatchGood(p, n, a) == a \in Readers
PatchFold == INSTANCE FoldFacts WITH Op <- PatchOp, Good <- PatchGood

\* No line, and one line more.
LEMMA PatchFoldsNothing ==
  ASSUME NEW b, NEW s \in Seq(PatchLines), DOMAIN s = {}
  PROVE  PatchFold!Fold(0, b, s) = b
<1>1. PatchFold!Inductive
  BY InductionOverNat DEF PatchFold!Inductive
<1> QED
  BY <1>1, PatchFold!FoldNothing

LEMMA PatchFoldsAppend ==
  ASSUME NEW b, NEW s \in Seq(PatchLines), NEW x \in PatchLines
  PROVE  PatchFold!Fold(0, b, Append(s, x)) = PatchOp(0, PatchFold!Fold(0, b, s), x)
<1>1. PatchFold!Inductive
  BY InductionOverNat DEF PatchFold!Inductive
<1> QED
  BY <1>1, PatchFold!FoldAppend

\* What the diff shows of a line.
LEMMA DiffLineCases ==
  ASSUME NEW edit \in Seq(Ops), NEW context, NEW i \in 1 .. Len(edit)
  PROVE  /\ L(edit[i]) \in PatchLines
         /\ DiffLine(edit, context, i) \in Seq(PatchLines)
         /\ ~Shown(edit, context, i) => DiffLine(edit, context, i) = <<>>
         /\ Shown(edit, context, i) /\ i > 1 /\ Shown(edit, context, i - 1) =>
              DiffLine(edit, context, i) = << L(edit[i]) >>
         /\ Shown(edit, context, i) /\ ~ (i > 1 /\ Shown(edit, context, i - 1)) =>
              \E at \in PatchLines :
                /\ at.kind = "@@" /\ DiffLine(edit, context, i) = << at, L(edit[i]) >>
                /\ \/ at.at = HeadLine(edit, i - 1) + 1
                   \/ at.at = HeadLine(edit, i - 1) /\ ~AnyLeft(edit, context, i)
<1>1. PICK l \in PatchLines : l = L(edit[i])
  <2>1. edit[i] \in Ops /\ 0 \in Nat
    OBVIOUS
  <2>2. L(edit[i]) \in PatchLines
    BY <2>1 DEF L, PatchLines
  <2> QED
    BY <2>2
<1>2. PICK n \in Nat : n = HeadLine(edit, i - 1)
  BY HeadLineNext
<1>3. PICK at : at = [kind |-> "@@", at |-> IF AnyLeft(edit, context, i) THEN n + 1 ELSE n]
  OBVIOUS
<1>4. at \in PatchLines /\ at.kind = "@@" /\ at.at = IF AnyLeft(edit, context, i) THEN n + 1 ELSE n
  BY <1>3 DEF PatchLines
<1>5. DiffLine(edit, context, i) =
        IF ~Shown(edit, context, i) THEN <<>>
        ELSE IF i > 1 /\ Shown(edit, context, i - 1) THEN <<l>> ELSE <<at, l>>
  BY <1>1, <1>2, <1>3 DEF DiffLine, AnyLeft
<1>6. <<l>> \in Seq(PatchLines) /\ <<at, l>> \in Seq(PatchLines)
  BY <1>4
<1> DEFINE none == <<>>
<1>7. none \in Seq(PatchLines)
  OBVIOUS
<1>8. DiffLine(edit, context, i) \in Seq(PatchLines)
  BY <1>5, <1>6, <1>7
<1>9. Shown(edit, context, i) /\ ~ (i > 1 /\ Shown(edit, context, i - 1)) => DiffLine(edit, context, i) = <<at, l>>
  BY <1>5
<1>10. at.at = n + 1 \/ (at.at = n /\ ~AnyLeft(edit, context, i))
  BY <1>4
<1> QED
  BY <1>1, <1>2, <1>4, <1>5, <1>8, <1>9, <1>10

\* The start of a hunk.
LEMMA ReadStart ==
  ASSUME NEW edit, NEW context, NEW i \in Nat \ {0}, NEW a, Reads(edit, context, i - 1, a),
         NEW at \in PatchLines, at.kind = "@@",
         \/ at.at = HeadLine(edit, i - 1) + 1
         \/ at.at = HeadLine(edit, i - 1) /\ ~AnyLeft(edit, context, i)
  PROVE  Reads(edit, context, i - 1, PatchLine(a, at)) /\ Ready(edit, context, i, PatchLine(a, at))
<1>1. PICK r \in Readers : r = a
  BY DEF Reads
<1>2. PICK m \in Nat : m = at.at
  BY DEF PatchLines
<1>3. PICK c : c = [r EXCEPT !.inHunk = TRUE, !.newLine = m]
  OBVIOUS
<1>4. PatchLine(a, at) = c
  BY <1>1, <1>2, <1>3 DEF PatchLine, HeaderLike
<1>5. c \in Readers
  BY <1>3 DEF Readers
<1>6. c.inHunk /\ c.newLine = m /\ c.changed = r.changed
  BY <1>3 DEF Readers
<1> QED
  BY <1>1, <1>2, <1>4, <1>5, <1>6 DEF Reads, Ready

\* A line outside of the hunks.
LEMMA ReadOther ==
  ASSUME NEW a \in Readers, NEW kind \in {"header", "other"}
  PROVE  /\ L(kind) \in PatchLines
         /\ PatchLine(a, L(kind)) \in Readers /\ PatchLine(a, L(kind)).changed = a.changed
<1>1. L(kind) \in PatchLines /\ L(kind).kind = kind
  BY DEF L, PatchLines
<1>2. PICK c : c = [a EXCEPT !.inHunk = FALSE]
  OBVIOUS
<1>3. PatchLine(a, L(kind)) = c
  BY <1>1, <1>2 DEF PatchLine, HeaderLike
<1>4. c \in Readers
  BY <1>2 DEF Readers
<1>5. c.changed = a.changed
  BY <1>2 DEF Readers
<1> QED
  BY <1>1, <1>3, <1>4, <1>5

\* The header of the diff.
LEMMA ReadHeader ==
  ASSUME NEW start, start = [inHunk |-> FALSE, newLine |-> 0, changed |-> <<>>],
         NEW header, header = <<L("header"), L("header"), L("header")>>
  PROVE  /\ header \in Seq(PatchLines) /\ PatchFold!Fold(0, start, header) \in Readers
         /\ PatchFold!Fold(0, start, header).changed = <<>>
<1> DEFINE none == <<>>
<1>1. start \in Readers /\ start.changed = none
  <2>1. none \in Seq(Nat)
    OBVIOUS
  <2>2. start = [inHunk |-> FALSE, newLine |-> 0, changed |-> none]
    OBVIOUS
  <2> HIDE DEF none
  <2> QED
    BY <2>1, <2>2 DEF Readers
<1>2. PICK h \in PatchLines : h = L("header")
  BY <1>1, ReadOther
<1>3. PICK s0 \in Seq(PatchLines) : s0 = none /\ DOMAIN s0 = {}
  <2>1. none \in Seq(PatchLines) /\ DOMAIN none = {}
    OBVIOUS
  <2> QED
    BY <2>1
<1>4. PICK s1 \in Seq(PatchLines) : s1 = Append(s0, h)
  <2>1. Append(s0, h) \in Seq(PatchLines)
    OBVIOUS
  <2> QED
    BY <2>1
<1>5. PICK s2 \in Seq(PatchLines) : s2 = Append(s1, h)
  <2>1. Append(s1, h) \in Seq(PatchLines)
    OBVIOUS
  <2> QED
    BY <2>1
<1>6. PICK s3 \in Seq(PatchLines) : s3 = Append(s2, h)
  <2>1. Append(s2, h) \in Seq(PatchLines)
    OBVIOUS
  <2> QED
    BY <2>1
<1>7. header = s3
  <2>1. Len(s3) = 3 /\ s3[1] = h /\ s3[2] = h /\ s3[3] = h
    BY <1>3, <1>4, <1>5, <1>6
  <2> QED
    BY <1>2, <2>1
<1> HIDE DEF none
<1>8. \A r \in Readers : PatchOp(0, r, h) \in Readers /\ PatchOp(0, r, h).changed = r.changed
  BY <1>2, ReadOther DEF PatchOp
<1>9. PatchFold!Fold(0, start, s0) = start
  BY <1>3, PatchFoldsNothing
<1>10. PatchFold!Fold(0, start, s1) = PatchOp(0, PatchFold!Fold(0, start, s0), h)
  BY <1>4, PatchFoldsAppend
<1>11. PatchFold!Fold(0, start, s2) = PatchOp(0, PatchFold!Fold(0, start, s1), h)
  BY <1>5, PatchFoldsAppend
<1>12. PatchFold!Fold(0, start, s3) = PatchOp(0, PatchFold!Fold(0, start, s2), h)
  BY <1>6, PatchFoldsAppend
<1>13. PatchFold!Fold(0, start, s1) \in Readers /\ PatchFold!Fold(0, start, s1).changed = none
  BY <1>1, <1>8, <1>9, <1>10
<1>14. PatchFold!Fold(0, start, s2) \in Readers /\ PatchFold!Fold(0, start, s2).changed = none
  BY <1>8, <1>11, <1>13
<1>15. PatchFold!Fold(0, start, s3) \in Readers /\ PatchFold!Fold(0, start, s3).changed = none
  BY <1>8, <1>12, <1>14
<1> QED
  BY <1>7, <1>15 DEF none

\* What is known before a line of the edit and the lines of the diff for it.
LEMMA ReadNext ==
  ASSUME NEW edit \in Seq(Ops), Unmistakable(edit), NEW context, NEW start, NEW before \in Seq(PatchLines),
         NEW i \in 1 .. Len(edit), HasRead(edit, context, i - 1, PatchFold!Fold(0, start, before)),
         NEW after, after = before \o DiffLine(edit, context, i)
  PROVE  HasRead(edit, context, i, PatchFold!Fold(0, start, after))
<1>1. PICK a : a = PatchFold!Fold(0, start, before)
  OBVIOUS
<1>2. HasRead(edit, context, i - 1, a) /\ Reads(edit, context, i - 1, a)
  BY <1>1 DEF HasRead
<1>3. PICK l \in PatchLines : l = L(edit[i])
  BY DiffLineCases
<1>4. i \in Nat \ {0} /\ (i - 1) + 1 = i
  OBVIOUS
<1>5. PatchFold!Fold(0, start, Append(before, l)) = PatchLine(a, l)
  <2>1. PatchFold!Fold(0, start, Append(before, l)) = PatchOp(0, PatchFold!Fold(0, start, before), l)
    BY PatchFoldsAppend
  <2> QED
    BY <1>1, <2>1 DEF PatchOp
<1>6. CASE ~Shown(edit, context, i)
  <2>1. after = before
    BY <1>6, DiffLineCases, ConcatAppend
  <2>2. PICK n \in Nat, m \in Nat : n = HeadLine(edit, i - 1) /\ m = HeadLine(edit, i) /\ n <= m
    <3>1. PICK n \in Nat : n = HeadLine(edit, i - 1)
      BY HeadLineNext
    <3>2. HeadLine(edit, i) = n + IF InHead(edit[i]) THEN 1 ELSE 0
      BY <3>1, HeadLineNext
    <3>3. PICK m \in Nat : m = (n + IF InHead(edit[i]) THEN 1 ELSE 0) /\ n <= m
      OBVIOUS
    <3> QED
      BY <3>1, <3>2, <3>3
  <2>3. \A k \in ToSet(a.changed) : k \in Nat /\ k <= n
    <3>1. PICK changed \in Seq(Nat) : changed = a.changed
      BY <1>2 DEF Reads, Readers
    <3>2. \A k \in ToSet(changed) : k \in Nat
      BY DEF ToSet
    <3>3. \A k \in ToSet(changed) : k <= n
      BY <1>2, <2>2, <3>1 DEF Reads
    <3> QED
      BY <3>1, <3>2, <3>3
  <2>4. \A k \in ToSet(a.changed) : k <= HeadLine(edit, i)
    BY <2>2, <2>3
  <2>5. ShownLines(edit, context, i) = ShownLines(edit, context, i - 1) \cup {}
    <3>1. ~ (InHead(edit[i]) /\ Shown(edit, context, i)) /\ i \in Nat \ {0}
      BY <1>4, <1>6
    <3> QED
      BY <3>1, ShownLinesNext
  <2>6. ToSet(a.changed) = ShownLines(edit, context, i)
    BY <1>2, <2>5 DEF Reads
  <2> QED
    BY <1>1, <1>2, <1>6, <2>1, <2>4, <2>6 DEF HasRead, Reads
<1>7. CASE Shown(edit, context, i) /\ i > 1 /\ Shown(edit, context, i - 1)
  <2>1. DiffLine(edit, context, i) = <<l>>
    BY <1>3, <1>7, DiffLineCases
  <2>2. after = Append(before, l)
    BY <2>1, ConcatAppend
  <2>3. Ready(edit, context, i, a)
    BY <1>2, <1>4, <1>7 DEF HasRead
  <2>4. HasRead(edit, context, i, PatchLine(a, l))
    BY <1>2, <1>3, <1>7, <2>3, ReadLine
  <2> QED
    BY <1>5, <2>2, <2>4
<1>8. CASE Shown(edit, context, i) /\ ~ (i > 1 /\ Shown(edit, context, i - 1))
  <2>1. PICK at \in PatchLines :
          /\ at.kind = "@@" /\ DiffLine(edit, context, i) = <<at, l>>
          /\ \/ at.at = HeadLine(edit, i - 1) + 1
             \/ at.at = HeadLine(edit, i - 1) /\ ~AnyLeft(edit, context, i)
    BY <1>3, <1>8, DiffLineCases
  <2>2. PICK first \in Seq(PatchLines) : first = Append(before, at)
    <3>1. Append(before, at) \in Seq(PatchLines)
      OBVIOUS
    <3> QED
      BY <3>1
  <2>3. after = Append(first, l)
    <3>1. <<at>> \in Seq(PatchLines) /\ <<at, l>> = Append(<<at>>, l)
      OBVIOUS
    <3>2. before \o Append(<<at>>, l) = Append(before \o <<at>>, l)
      BY <3>1, ConcatAppend
    <3>3. before \o <<at>> = Append(before, at)
      BY ConcatAppend
    <3>4. after = before \o <<at, l>>
      BY <2>1
    <3> QED
      BY <2>2, <3>1, <3>2, <3>3, <3>4
  <2>4. PatchFold!Fold(0, start, first) = PatchLine(a, at)
    <3>1. PatchFold!Fold(0, start, Append(before, at)) = PatchOp(0, PatchFold!Fold(0, start, before), at)
      BY PatchFoldsAppend
    <3> QED
      BY <1>1, <2>2, <3>1 DEF PatchOp
  <2>5. PICK b : b = PatchLine(a, at)
    OBVIOUS
  <2>6. Reads(edit, context, i - 1, b) /\ Ready(edit, context, i, b)
    BY <1>2, <1>4, <2>1, <2>5, ReadStart
  <2>7. HasRead(edit, context, i, PatchLine(b, l))
    BY <1>3, <1>8, <2>6, ReadLine
  <2>8. PatchFold!Fold(0, start, Append(first, l)) = PatchLine(b, l)
    <3>1. PatchFold!Fold(0, start, Append(first, l)) = PatchOp(0, PatchFold!Fold(0, start, first), l)
      BY PatchFoldsAppend
    <3> QED
      BY <2>4, <2>5, <3>1 DEF PatchOp
  <2> QED
    BY <2>3, <2>7, <2>8
<1> QED
  BY <1>6, <1>7, <1>8

\* The lines that are read from a diff are the lines of the head that it shows.
LEMMA ReadDiff ==
  ASSUME NEW edit \in Seq(Ops), Unmistakable(edit), NEW context, NEW lines,
         lines = ParseChangedLines(GitDiff(edit, context))
  PROVE  /\ lines \in Seq(Nat) /\ Ascending(lines)
         /\ ToSet(lines) = ShownLines(edit, context, Len(edit))
<1>1. PICK start : start = [inHunk |-> FALSE, newLine |-> 0, changed |-> <<>>]
  OBVIOUS
<1>2. PICK header : header = <<L("header"), L("header"), L("header")>>
  OBVIOUS
<1>3. /\ header \in Seq(PatchLines) /\ PatchFold!Fold(0, start, header) \in Readers
      /\ PatchFold!Fold(0, start, header).changed = <<>>
  BY <1>1, <1>2, ReadHeader
<1>4. PICK N \in Nat : N = Len(edit) /\ DOMAIN edit = 1 .. N
  OBVIOUS
<1>5. PICK ss : ss = [i \in DOMAIN edit |-> DiffLine(edit, context, i)]
  OBVIOUS
<1>6. ss \in Seq(Seq(PatchLines)) /\ Len(ss) = N /\ \A i \in 1 .. N : ss[i] = DiffLine(edit, context, i)
  <2>1. \A i \in 1 .. N : DiffLine(edit, context, i) \in Seq(PatchLines)
    BY <1>4, DiffLineCases
  <2>2. ss \in [1 .. N -> Seq(PatchLines)]
    BY <1>4, <1>5, <2>1
  <2> QED
    BY <1>4, <1>5, <2>2
<1>7. PICK f : /\ f[0] = <<>> /\ FlattenSeq(ss) = f[N]
               /\ \A n \in 1 .. N : f[n - 1] \in Seq(PatchLines) /\ f[n] = f[n - 1] \o ss[n]
  <2>1. \E f : /\ f[0] = <<>> /\ FlattenSeq(ss) = f[Len(ss)]
               /\ \A n \in 1 .. Len(ss) : f[n - 1] \in Seq(PatchLines) /\ f[n] = f[n - 1] \o ss[n]
    BY <1>6, FlattenSteps
  <2> QED
    BY <1>6, <2>1
<1> DEFINE M == {m \in Nat : m <= N => /\ header \o f[m] \in Seq(PatchLines) /\ f[m] \in Seq(PatchLines)
                                       /\ HasRead(edit, context, m, PatchFold!Fold(0, start, header \o f[m]))}
<1>8. 0 \in M
  <2> DEFINE none == <<>>
  <2>1. header \o none = header /\ none \in Seq(PatchLines)
    BY <1>3, ConcatAppend
  <2>2. Ascending(none) /\ ToSet(none) = {}
    BY DEF Ascending, ToSet
  <2>3. f[0] = none /\ PatchFold!Fold(0, start, header).changed = none
    BY <1>3, <1>7
  <2> HIDE DEF none
  <2>4. ShownLines(edit, context, 0) = {}
    BY DEF ShownLines
  <2>5. HasRead(edit, context, 0, PatchFold!Fold(0, start, header))
    <3>1. PICK a : a = PatchFold!Fold(0, start, header)
      OBVIOUS
    <3>2. a \in Readers /\ a.changed = none
      BY <1>3, <2>3, <3>1
    <3>3. Reads(edit, context, 0, a)
      BY <2>2, <2>4, <3>2 DEF Reads
    <3>4. ~ (0 > 0)
      OBVIOUS
    <3>5. HasRead(edit, context, 0, a)
      BY <3>3, <3>4 DEF HasRead
    <3> QED
      BY <3>1, <3>5
  <2> QED
    BY <1>3, <2>1, <2>3, <2>5
<1>9. ASSUME NEW m \in Nat, m \in M PROVE m + 1 \in M
  <2> SUFFICES ASSUME m + 1 <= N
               PROVE  /\ header \o f[m + 1] \in Seq(PatchLines) /\ f[m + 1] \in Seq(PatchLines)
                      /\ HasRead(edit, context, m + 1, PatchFold!Fold(0, start, header \o f[m + 1]))
    OBVIOUS
  <2>1. PICK i \in 1 .. N : i = m + 1 /\ i - 1 = m
    OBVIOUS
  <2>0. /\ header \o f[m] \in Seq(PatchLines) /\ f[m] \in Seq(PatchLines)
        /\ HasRead(edit, context, m, PatchFold!Fold(0, start, header \o f[m]))
    <3>1. m <= N
      OBVIOUS
    <3> QED
      BY <1>9, <3>1, Zenon
  <2>2. PICK before \in Seq(PatchLines) : before = header \o f[m] /\ f[m] \in Seq(PatchLines)
    <3> HIDE DEF M
    <3> QED
      BY <2>0
  <2>3. HasRead(edit, context, i - 1, PatchFold!Fold(0, start, before))
    <3> HIDE DEF M
    <3> QED
      BY <2>0, <2>1, <2>2
  <2>4. PICK t \in Seq(PatchLines) : t = DiffLine(edit, context, i)
    BY <1>4, DiffLineCases
  <2>5. f[m + 1] = f[m] \o t
    BY <1>6, <1>7, <2>1, <2>4
  <2>6. PICK g \in Seq(PatchLines) : g = f[m]
    BY <2>2
  <2>7. header \o (g \o t) = (header \o g) \o t /\ g \o t \in Seq(PatchLines) /\ before \o t \in Seq(PatchLines)
    <3>1. PICK top \in Seq(PatchLines) : top = header
      BY <1>3
    <3>2. top \o (g \o t) = (top \o g) \o t
      <4>1. top \in Seq(PatchLines) /\ g \in Seq(PatchLines) /\ t \in Seq(PatchLines)
        OBVIOUS
      <4> QED
        BY ONLY <4>1
    <3>3. g \o t \in Seq(PatchLines)
      BY ConcatAt, Zenon
    <3>4. before \o t \in Seq(PatchLines)
      BY ConcatAt, Zenon
    <3>5. header \o (g \o t) = (header \o g) \o t
      BY <3>1, <3>2, Zenon
    <3> QED
      BY <3>3, <3>4, <3>5, Zenon
  <2>8. PICK after : after = before \o DiffLine(edit, context, i)
    OBVIOUS
  <2>9. header \o f[m + 1] = after
    BY <2>2, <2>4, <2>5, <2>6, <2>7, <2>8
  <2>10. HasRead(edit, context, i, PatchFold!Fold(0, start, after))
    BY <1>4, <2>3, <2>8, ReadNext
  <2> QED
    BY <2>1, <2>4, <2>5, <2>6, <2>7, <2>8, <2>9, <2>10
<1>10. Nat \subseteq M
  <2> HIDE DEF M
  <2> QED
    BY <1>8, <1>9, SetInduction
<1>11. PICK body \in Seq(PatchLines) :
         body = header \o f[N] /\ HasRead(edit, context, N, PatchFold!Fold(0, start, body))
  <2>1. N \in M
    <3> HIDE DEF M
    <3> QED
      BY <1>10
  <2>2. N <= N
    OBVIOUS
  <2>3. header \o f[N] \in Seq(PatchLines) /\ HasRead(edit, context, N, PatchFold!Fold(0, start, header \o f[N]))
    BY <2>1, <2>2, Zenon
  <2> HIDE DEF M
  <2> QED
    BY <2>3
<1> HIDE DEF M
<1>12. PICK a \in Readers : a = PatchFold!Fold(0, start, body) /\ HasRead(edit, context, N, a)
  BY <1>11 DEF HasRead, Reads
<1>13. PICK other \in PatchLines : other = L("other")
  BY <1>12, ReadOther
<1>14. GitDiff(edit, context) = Append(body, other)
  <2>1. GitDiff(edit, context) = body \o <<other>>
    BY <1>2, <1>5, <1>7, <1>11, <1>13 DEF GitDiff
  <2> QED
    BY <2>1, ConcatAppend
<1>15. PatchFold!Fold(0, start, Append(body, other)) = PatchLine(a, other)
  <2>1. PatchFold!Fold(0, start, Append(body, other)) = PatchOp(0, PatchFold!Fold(0, start, body), other)
    BY PatchFoldsAppend
  <2> QED
    BY <1>12, <2>1 DEF PatchOp
<1>16. \A p : PatchFold!Fold(0, start, p) = FoldLeft(PatchLine, start, p)
  BY DEF PatchFold!Fold, PatchOp, FoldLeft, MapThenFoldSet, PatchFold!IsFold, PatchFold!Step, PatchFold!Largest, Max
<1>17. lines = PatchLine(a, other).changed
  BY <1>1, <1>14, <1>15, <1>16 DEF ParseChangedLines
<1>18. lines = a.changed
  BY <1>13, <1>17, ReadOther
<1> QED
  BY <1>4, <1>12, <1>18 DEF HasRead, Reads, Readers

\* One look of the binary search.
Look(lines, first, last, f, lo, hi) ==
  LET mid == (lo + hi) \div 2 IN
  IF lo > hi THEN FALSE
  ELSE IF lines[mid] < first THEN f[<<mid + 1, hi>>]
  ELSE IF lines[mid] > last THEN f[<<lo, mid - 1>>] ELSE TRUE
InRange(lines, first, last, lo, hi) == \E k \in lo .. hi : first <= lines[k] /\ lines[k] <= last
\* Where fewer than d lines more are left, f says whether one is in the range.
Sought(lines, first, last, n, f, d) ==
  \A a \in 1 .. n + 1 : \A b \in 0 .. n : b - a < d => f[<<a, b>>] = InRange(lines, first, last, a, b)

\* A look leaves the lines in the range where they are searched.
LEMMA LookFinds ==
  ASSUME NEW lines \in Seq(Nat), Ascending(lines), NEW first \in Nat, NEW last \in Nat,
         NEW n \in Nat, n = Len(lines), NEW f, NEW lo \in 1 .. n + 1, NEW hi \in 0 .. n,
         Sought(lines, first, last, n, f, hi - lo)
  PROVE  Look(lines, first, last, f, lo, hi) = InRange(lines, first, last, lo, hi)
<1>1. DOMAIN lines = 1 .. n
  OBVIOUS
<1>2. \A j \in 1 .. n, k \in 1 .. n : lines[j] \in Nat /\ (j < k => lines[j] < lines[k])
  <2>1. \A j \in 1 .. n : lines[j] \in Nat
    BY <1>1
  <2>2. \A j \in 1 .. n, k \in 1 .. n : j < k => lines[j] < lines[k]
    BY <1>1, Zenon DEF Ascending
  <2> QED
    BY <2>1, <2>2
<1>3. CASE lo > hi
  BY <1>3 DEF Look, InRange
<1>4. CASE lo <= hi
  <2>1. PICK mid \in lo .. hi : mid = (lo + hi) \div 2
    <3>1. (lo + hi) \div 2 \in lo .. hi
      BY <1>4
    <3> QED
      BY <3>1
  <2>2. mid \in 1 .. n /\ lo \in 1 .. n + 1 /\ hi \in 0 .. n /\ mid + 1 \in 1 .. n + 1 /\ mid - 1 \in 0 .. n
    BY <1>1
  <2>3. hi - (mid + 1) < hi - lo /\ (mid - 1) - lo < hi - lo
    BY <2>2
  <2>4. PICK m \in Nat : m = lines[mid]
    BY <1>2, <2>2
  <2>5. Look(lines, first, last, f, lo, hi) =
          IF m < first THEN f[<<mid + 1, hi>>] ELSE IF m > last THEN f[<<lo, mid - 1>>] ELSE TRUE
    <3>1. ~ (lo > hi)
      BY <1>4
    <3>2. Look(lines, first, last, f, lo, hi) =
            IF lines[mid] < first THEN f[<<mid + 1, hi>>]
            ELSE IF lines[mid] > last THEN f[<<lo, mid - 1>>] ELSE TRUE
      BY <2>1, <3>1, Zenon DEF Look
    <3> QED
      BY <2>4, <3>2, Zenon
  <2>6. CASE m < first
    <3>1. f[<<mid + 1, hi>>] = InRange(lines, first, last, mid + 1, hi)
      BY <2>2, <2>3 DEF Sought
    <3>2. \A k \in lo .. hi : first <= lines[k] => k \in mid + 1 .. hi
      <4> SUFFICES ASSUME NEW k \in lo .. hi, first <= lines[k], k <= mid PROVE FALSE
        BY <2>2
      <4>1. k \in 1 .. n
        BY <2>2
      <4>2. lines[k] \in Nat
        BY <1>2, <4>1
      <4>3. CASE k = mid
        BY <2>4, <2>6, <4>3
      <4>4. CASE k < mid
        <5>1. lines[k] < m
          BY <1>2, <2>2, <2>4, <4>1, <4>4
        <5> QED
          BY <2>6, <4>2, <5>1
      <4> QED
        BY <2>2, <4>1, <4>3, <4>4
    <3>3. \A k \in mid + 1 .. hi : k \in lo .. hi
      BY <2>2
    <3>4. InRange(lines, first, last, mid + 1, hi) = InRange(lines, first, last, lo, hi)
      BY <3>2, <3>3 DEF InRange
    <3> QED
      BY <2>5, <2>6, <3>1, <3>4
  <2>7. CASE ~ (m < first) /\ m > last
    <3>1. f[<<lo, mid - 1>>] = InRange(lines, first, last, lo, mid - 1)
      BY <2>2, <2>3 DEF Sought
    <3>2. \A k \in lo .. hi : lines[k] <= last => k \in lo .. mid - 1
      <4> SUFFICES ASSUME NEW k \in lo .. hi, lines[k] <= last, k >= mid PROVE FALSE
        BY <2>2
      <4>1. k \in 1 .. n
        BY <2>2
      <4>2. lines[k] \in Nat
        BY <1>2, <4>1
      <4>3. CASE k = mid
        BY <2>4, <2>7, <4>3
      <4>4. CASE k > mid
        <5>1. lines[k] > m
          BY <1>2, <2>2, <2>4, <4>1, <4>4
        <5> QED
          BY <2>7, <4>2, <5>1
      <4> QED
        BY <2>2, <4>1, <4>3, <4>4
    <3>3. \A k \in lo .. mid - 1 : k \in lo .. hi
      BY <2>2
    <3>4. InRange(lines, first, last, lo, mid - 1) = InRange(lines, first, last, lo, hi)
      BY <3>2, <3>3 DEF InRange
    <3> QED
      BY <2>5, <2>7, <3>1, <3>4
  <2>8. CASE ~ (m < first) /\ ~ (m > last)
    <3>1. first <= lines[mid] /\ lines[mid] <= last
      BY <2>4, <2>8
    <3>2. InRange(lines, first, last, lo, hi)
      BY <3>1 DEF InRange
    <3> QED
      BY <2>5, <2>8, <3>2
  <2> QED
    BY <2>6, <2>7, <2>8
<1> QED
  BY <1>3, <1>4

\* The binary search finds a line in the range if there is one.
LEMMA SearchFinds ==
  ASSUME NEW lines \in Seq(Nat), Ascending(lines), NEW first \in Nat, NEW last \in Nat
  PROVE  LinesIntersectRange(lines, first, last) = InRange(lines, first, last, 1, Len(lines))
<1>1. PICK n \in Nat : n = Len(lines)
  OBVIOUS
<1> DEFINE A == 1 .. n + 1
           B == 0 .. n
           Is(f) == f = [r \in A \X B |-> Look(lines, first, last, f, r[1], r[2])]
           g == [r \in A \X B |-> InRange(lines, first, last, r[1], r[2])]
           search == CHOOSE f : Is(f)
<1>2. LinesIntersectRange(lines, first, last) = search[<<1, n>>]
  BY <1>1 DEF LinesIntersectRange, Look
<1>3. \A lo \in A : \A hi \in B : <<lo, hi>> \in A \X B /\ <<lo, hi>>[1] = lo /\ <<lo, hi>>[2] = hi
  OBVIOUS
<1>4. \A lo \in A : \A hi \in B : g[<<lo, hi>>] = InRange(lines, first, last, lo, hi)
  BY <1>3
<1>5. ASSUME NEW f, NEW lo \in A, NEW hi \in B,
             \A a \in A : \A b \in B : b - a < hi - lo => f[<<a, b>>] = InRange(lines, first, last, a, b)
      PROVE  Look(lines, first, last, f, lo, hi) = InRange(lines, first, last, lo, hi)
  <2> HIDE DEF g, search, Is
  <2>1. lo \in 1 .. n + 1 /\ hi \in 0 .. n
    OBVIOUS
  <2>2. Sought(lines, first, last, n, f, hi - lo)
    BY <1>5 DEF Sought
  <2> HIDE DEF A, B
  <2> QED
    BY <1>1, <2>1, <2>2, LookFinds
<1>6. Is(g)
  <2>1. ASSUME NEW r \in A \X B
        PROVE  Look(lines, first, last, g, r[1], r[2]) = InRange(lines, first, last, r[1], r[2])
    <3>1. r[1] \in A /\ r[2] \in B
      OBVIOUS
    <3> HIDE DEF A, B, g
    <3> QED
      BY <1>4, <1>5, <3>1
  <2> HIDE DEF A, B
  <2>2. [r \in A \X B |-> Look(lines, first, last, g, r[1], r[2])] =
          [r \in A \X B |-> InRange(lines, first, last, r[1], r[2])]
    <3> HIDE DEF g
    <3> QED
      BY <2>1
  <2> QED
    BY <2>2
<1>7. ASSUME NEW f, Is(f) PROVE f[<<1, n>>] = InRange(lines, first, last, 1, n)
  <2> DEFINE M == {m \in Nat : \A lo \in A : \A hi \in B : hi + n + 2 - lo <= m =>
                                 f[<<lo, hi>>] = InRange(lines, first, last, lo, hi)}
  <2>0. f = [r \in A \X B |-> Look(lines, first, last, f, r[1], r[2])]
    BY <1>7
  <2> HIDE DEF g, search, Is
  <2>1. \A lo \in A : \A hi \in B : f[<<lo, hi>>] = Look(lines, first, last, f, lo, hi)
    <3> HIDE DEF A, B
    <3> TAKE lo \in A
    <3> TAKE hi \in B
    <3>1. PICK r \in A \X B : r = <<lo, hi>>
      OBVIOUS
    <3>2. f[r] = Look(lines, first, last, f, r[1], r[2])
      BY <2>0
    <3>3. r[1] = lo /\ r[2] = hi
      BY <3>1
    <3> QED
      BY <3>1, <3>2, <3>3
  <2>2. 0 \in M
    <3>1. \A lo \in A : \A hi \in B : ~ (hi + n + 2 - lo <= 0)
      OBVIOUS
    <3> QED
      BY <3>1
  <2>3. ASSUME NEW m \in Nat, m \in M PROVE m + 1 \in M
    <3> SUFFICES ASSUME NEW lo \in A, NEW hi \in B, hi + n + 2 - lo <= m + 1
                 PROVE  f[<<lo, hi>>] = InRange(lines, first, last, lo, hi)
      OBVIOUS
    <3>1. \A a \in A : \A b \in B : b - a < hi - lo => b + n + 2 - a <= m
      OBVIOUS
    <3>2. \A a \in A : \A b \in B : b - a < hi - lo => f[<<a, b>>] = InRange(lines, first, last, a, b)
      BY <2>3, <3>1
    <3> HIDE DEF M
    <3>3. Look(lines, first, last, f, lo, hi) = InRange(lines, first, last, lo, hi)
      BY <1>5, <3>2
    <3> QED
      BY <2>1, <3>3
  <2>4. Nat \subseteq M
    <3> HIDE DEF M
    <3> QED
      BY <2>2, <2>3, SetInduction
  <2>5. PICK m \in Nat : m = n + n + 2 - 1
    OBVIOUS
  <2>6. 1 \in A /\ n \in B /\ n + n + 2 - 1 <= m
    BY <2>5
  <2>7. m \in M
    <3> HIDE DEF M
    <3> QED
      BY <2>4
  <2>8. \A lo \in A : \A hi \in B : hi + n + 2 - lo <= m => f[<<lo, hi>>] = InRange(lines, first, last, lo, hi)
    BY <2>7
  <2> HIDE DEF M, A, B
  <2> QED
    BY <2>6, <2>8, Zenon
<1>8. Is(search)
  <2> HIDE DEF Is, g
  <2> QED
    BY <1>6
<1> HIDE DEF search, Is, g
<1> QED
  BY <1>1, <1>2, <1>7, <1>8

-----------------------------------------------------------------------------
(* The files and symbols of the diff are those of the pull request.        *)

\* A file the pull request left alone has no edit; the files it changed.
Untouched == \A f \in DOMAIN repo : repo[f].status = "same" => ~Touched(repo[f].edit)
PrFiles == {f \in DOMAIN repo : repo[f].status # "same" /\ ~repo[f].skip}

\* The diff with the merge base lists them.
LEMMA ListedFiles ==
  ASSUME InputsOk, Untouched, NEW files, files = ChangedFiles("mergeBase")
  PROVE  /\ {files[i].file : i \in DOMAIN files} = PrFiles
         /\ files \in Seq(Changes)
         /\ \A i \in DOMAIN files : files[i] = ChangedFile(files[i].file, "mergeBase")
<1> DEFINE K == {f \in DOMAIN repo : StatusOf(f, "mergeBase") # "same" /\ ~repo[f].skip}
           at == [f \in DOMAIN repo |-> f]
           changed == Kept(at, K)
<1>1. K = PrFiles
  <2>1. ASSUME NEW f \in DOMAIN repo PROVE StatusOf(f, "mergeBase") = repo[f].status
    BY DEF StatusOf, EditOf, Untouched
  <2> QED
    BY <2>1 DEF PrFiles
<1>2. at \in Seq(DOMAIN repo) /\ ToSet(at) = DOMAIN repo
  <2>1. PICK n \in Nat : DOMAIN repo = 1 .. n
    BY DEF InputsOk
  <2>2. at \in [1 .. n -> DOMAIN repo]
    BY <2>1
  <2>3. ToSet(at) = DOMAIN repo
    BY DEF ToSet
  <2> HIDE DEF at
  <2> QED
    BY <2>2, <2>3
<1>3. files = [i \in DOMAIN changed |-> ChangedFile(changed[i], "mergeBase")]
  BY DEF ChangedFiles
<1>4. PrFiles \subseteq DOMAIN repo
  BY DEF PrFiles
<1> HIDE DEF at, K
<1>5. ToSet(changed) = PrFiles
  <2>1. PICK s \in Seq(DOMAIN repo) : s = at
    BY <1>2
  <2>2. ToSet(Kept(s, K)) = ToSet(s) \cap K
    BY KeptSet
  <2> QED
    BY <1>1, <1>2, <1>4, <2>1, <2>2
<1> HIDE DEF changed
<1>6. \A i \in DOMAIN files : files[i].file = changed[i] /\ files[i] = ChangedFile(changed[i], "mergeBase")
  BY <1>3 DEF ChangedFile
<1>7. DOMAIN files = DOMAIN changed
  BY <1>3
<1>8. files \in Seq(Changes)
  BY ChangedFilesTypes
<1> QED
  BY <1>5, <1>6, <1>7, <1>8 DEF ToSet

\* The symbols of a file that the diff touches; the changed symbols are those of
\* the files parsed so far.
ChangedOf(p) == ToSet(ChangedSymbols(p, ChangedFile(p.file, "mergeBase").changedLines))
SymbolsRead(c) == \A s : s \in ToSet(c.symbols) <=> \E p \in ToSet(c.parsed) : s \in ChangedOf(p)

\* One more changed file.
LEMMA ParseOneReads ==
  ASSUME InputsOk, NEW c, ContextOk(c), SymbolsRead(c), NEW x \in Changes,
         x = ChangedFile(x.file, "mergeBase"), NEW u, u = ParseOne(c, x)
  PROVE  SymbolsRead(u) /\ u.files = c.files
<1>1. c \in ContextTypes /\ x.file \in DOMAIN repo
  BY ChangeFile DEF ContextOk
<1>2. PICK k : k = [c EXCEPT !.parseCount = @ + 1]
  OBVIOUS
<1>3. k.parsed = c.parsed /\ k.symbols = c.symbols /\ k.files = c.files
  BY <1>1, <1>2 DEF ContextTypes
<1>4. PICK p : p = Parse(x.file)
  OBVIOUS
<1>5. PICK touched : touched = ChangedSymbols(p, x.changedLines)
  OBVIOUS
<1>6. PICK parsed, symbols : parsed = Append(k.parsed, p) /\ symbols = k.symbols \o touched
  OBVIOUS
<1>7. PICK m : m = [k EXCEPT !.parsed = parsed, !.symbols = symbols]
  OBVIOUS
<1>8. m.parsed = parsed /\ m.symbols = symbols /\ m.files = c.files
  BY <1>1, <1>2, <1>7 DEF ContextTypes
<1>9. u = c \/ u = k \/ (u = m /\ p.parsed)
  BY <1>2, <1>4, <1>5, <1>6, <1>7 DEF ParseOne
<1>10. CASE u = m /\ p.parsed
  <2>1. p \in Parses /\ IsParse(p) /\ p.file = x.file
    BY <1>1, <1>4, <1>10, ParseTypes DEF Parses
  <2>2. PICK ps \in Seq(Parses) : ps = c.parsed
    BY <1>1 DEF ContextTypes
  <2>3. PICK ss \in Seq(Syms) : ss = c.symbols
    BY <1>1 DEF ContextTypes
  <2>4. touched \in Seq(Syms)
    <3>1. p.symbols \in Seq(Syms)
      BY <2>1 DEF IsParse
    <3> QED
      BY <1>5, <3>1, KeptNoLonger DEF ChangedSymbols
  <2>5. parsed = Append(ps, p) /\ symbols = ss \o touched
    BY <1>3, <1>6, <2>2, <2>3
  <2>6. ToSet(parsed) = ToSet(ps) \cup {p}
    BY <2>1, <2>5, AppendElements
  <2>7. ToSet(symbols) = ToSet(ss) \cup ToSet(touched)
    BY <2>4, <2>5, ConcatSet
  <2>8. ToSet(touched) = ChangedOf(p)
    BY <1>5, <2>1 DEF ChangedOf
  <2>9. \A s : s \in ToSet(ss) <=> \E q \in ToSet(ps) : s \in ChangedOf(q)
    BY <2>2, <2>3 DEF SymbolsRead
  <2>10. \A s : s \in ToSet(symbols) <=> \E q \in ToSet(parsed) : s \in ChangedOf(q)
    BY <2>6, <2>7, <2>8, <2>9, Zenon
  <2> QED
    BY <1>8, <1>10, <2>10 DEF SymbolsRead
<1>11. CASE u = c \/ u = k
  BY <1>3, <1>11 DEF SymbolsRead
<1> QED
  BY <1>9, <1>10, <1>11

\* The changed files in turn, with what is read of them.
ReadOp(p, c, x) == ParseOne(c, x)
ReadGood(p, n, c) == ContextOk(c) /\ SymbolsRead(c) /\ c.files = p.files
ReadFold == INSTANCE FoldFacts WITH Op <- ReadOp, Good <- ReadGood

\* All of them.
LEMMA ParseReads ==
  ASSUME InputsOk, ContextOk(ctx), SymbolsRead(ctx), NEW files \in Seq(Changes), files = ctx.files,
         \A i \in DOMAIN files : files[i] = ChangedFile(files[i].file, "mergeBase"),
         NEW c, c = FoldLeft(ParseOne, ctx, ctx.files)
  PROVE  ContextOk(c) /\ SymbolsRead(c) /\ c.files = files
<1>2. DOMAIN files = 1 .. Len(files) /\ Len(files) \in Nat
  OBVIOUS
<1>3. ASSUME NEW n \in 1 .. Len(files), NEW a, ReadGood(ctx, n - 1, a)
      PROVE  ReadGood(ctx, n, ReadOp(ctx, a, files[n]))
  <2>1. PICK x \in Changes : x = files[n] /\ x = ChangedFile(x.file, "mergeBase")
    BY <1>2
  <2>2. PICK u : u = ParseOne(a, x)
    OBVIOUS
  <2>3. ContextOk(a) /\ SymbolsRead(a) /\ a.files = ctx.files
    BY <1>3 DEF ReadGood
  <2>4. ContextOk(u)
    BY <2>2, <2>3, ParseOneOk
  <2>5. SymbolsRead(u) /\ u.files = a.files
    BY <2>1, <2>2, <2>3, ParseOneReads
  <2> QED
    BY <2>1, <2>2, <2>3, <2>4, <2>5 DEF ReadGood, ReadOp
<1>4. ReadGood(ctx, 0, ctx)
  BY DEF ReadGood
<1>5. ReadGood(ctx, Len(files), ReadFold!Fold(ctx, ctx, files))
  BY <1>2, <1>3, <1>4, ReadFold!FoldKeeps, InductionOverNat DEF ReadFold!Inductive
<1>6. ReadFold!Fold(ctx, ctx, files) = FoldLeft(ParseOne, ctx, files)
  BY DEF ReadFold!Fold, ReadOp, FoldLeft, MapThenFoldSet, ReadFold!IsFold, ReadFold!Step, ReadFold!Largest, Max
<1> QED
  BY <1>5, <1>6 DEF ReadGood

\* The same was read of the pull request.
SameRead(c, d) == c.files = d.files /\ c.parsed = d.parsed /\ c.symbols = d.symbols

\* An import leaves it alone.
LEMMA ImportSame ==
  ASSUME NEW acc \in WalkTypes, NEW i
  PROVE  SameRead(Import(acc, i).c, acc.c)
<1>1. PICK a \in ContextTypes : a = acc.c
  BY DEF WalkTypes
<1>2. PICK next : next = acc.next
  OBVIOUS
<1>3. acc = [c |-> a, next |-> next]
  BY <1>1, <1>2 DEF WalkTypes
<1>4. PICK c : c = [a EXCEPT !.resolved = Append(@, i)]
  OBVIOUS
<1>5. PICK k : k = [c EXCEPT !.parseCount = @ + 1]
  OBVIOUS
<1>6. PICK f, p : f = i.target /\ p = Parse(f)
  OBVIOUS
<1>7. PICK d : d = [file |-> f, depth |-> c.level.depth, parsed |-> p]
  OBVIOUS
<1>8. PICK deps : deps = Append(k.dependencies, d)
  OBVIOUS
<1>9. PICK m : m = [k EXCEPT !.dependencies = deps]
  OBVIOUS
<1>10. SameRead(c, a) /\ SameRead(k, a) /\ SameRead(m, a)
  BY <1>4, <1>5, <1>9 DEF SameRead, ContextTypes
<1>11. PICK u : u = Import(acc, i)
  OBVIOUS
<1>12. \/ u = [acc EXCEPT !.c = c] \/ u = [acc EXCEPT !.c = k]
       \/ u = [c |-> m, next |-> Append(next, p)]
  BY <1>1, <1>2, <1>4, <1>5, <1>6, <1>7, <1>8, <1>9, <1>11 DEF Import
<1>13. u.c = c \/ u.c = k \/ u.c = m
  BY <1>3, <1>12
<1> QED
  BY <1>1, <1>10, <1>11, <1>13

\* The imports in turn, with what was read before.
LevelOp(p, acc, i) == Import(acc, i)
LevelGood(p, n, acc) == WalkOk(acc) /\ SameRead(acc.c, p)
LevelFold == INSTANCE FoldFacts WITH Op <- LevelOp, Good <- LevelGood

\* So does a level of the walk.
LEMMA WalkSame ==
  ASSUME InputsOk, ContextOk(ctx), WalkLevel
  PROVE  SameRead(ctx', ctx)
<1> SUFFICES ASSUME ctx' # ctx PROVE SameRead(ctx', ctx)
  BY DEF SameRead
<1>1. PICK files \in Seq(Parses) : files = ctx.level.files
  BY DEF ContextOk, ContextTypes
<1>2. PICK imports \in Seq(Imports) : imports = FlattenSeq([i \in DOMAIN files |-> ImportsOf(files[i])])
  BY LevelImports
<1>3. PICK start : start = [c |-> ctx, next |-> <<>>]
  OBVIOUS
<1>4. DOMAIN imports = 1 .. Len(imports) /\ Len(imports) \in Nat
  OBVIOUS
<1>5. ASSUME NEW n \in 1 .. Len(imports), NEW acc, LevelGood(ctx, n - 1, acc)
      PROVE  LevelGood(ctx, n, LevelOp(ctx, acc, imports[n]))
  <2>1. PICK i \in Imports : i = imports[n]
    OBVIOUS
  <2>2. PICK u : u = Import(acc, i)
    OBVIOUS
  <2>3. WalkOk(acc) /\ acc \in WalkTypes /\ SameRead(acc.c, ctx)
    BY <1>5 DEF LevelGood, WalkOk
  <2>4. WalkOk(u)
    BY <2>2, <2>3, ImportOk
  <2>5. SameRead(u.c, acc.c)
    BY <2>2, <2>3, ImportSame
  <2>6. SameRead(u.c, ctx)
    BY <2>3, <2>5 DEF SameRead
  <2> QED
    BY <2>1, <2>2, <2>4, <2>6 DEF LevelGood, LevelOp
<1>6. LevelGood(ctx, 0, start)
  <2>1. <<>> \in Seq(Parses) /\ ctx \in ContextTypes
    BY DEF ContextOk
  <2>2. start \in WalkTypes /\ start.c = ctx
    BY <1>3, <2>1 DEF WalkTypes
  <2> QED
    BY <2>2 DEF LevelGood, WalkOk, SameRead
<1>7. LevelGood(ctx, Len(imports), LevelFold!Fold(ctx, start, imports))
  BY <1>4, <1>5, <1>6, LevelFold!FoldKeeps, InductionOverNat DEF LevelFold!Inductive
<1>8. LevelFold!Fold(ctx, start, imports) = FoldLeft(Import, start, imports)
  BY DEF LevelFold!Fold, LevelOp, FoldLeft, MapThenFoldSet, LevelFold!IsFold, LevelFold!Step, LevelFold!Largest, Max
<1>9. PICK acc : acc = FoldLeft(Import, start, imports)
  OBVIOUS
<1>10. acc.c \in ContextTypes /\ SameRead(acc.c, ctx)
  BY <1>7, <1>8, <1>9 DEF LevelGood, WalkOk, WalkTypes
<1>11. PICK level : ctx' = [acc.c EXCEPT !.level = level]
  <2>1. PICK i, a : /\ i = FlattenSeq([n \in DOMAIN ctx.level.files |-> ImportsOf(ctx.level.files[n])])
                    /\ a = FoldLeft(Import, [c |-> ctx, next |-> <<>>], i)
    OBVIOUS
  <2>2. ctx' = [a.c EXCEPT !.level = [depth |-> ctx.level.depth + 1, files |-> Sorted(a.next, ByFile(a.next))]]
    BY <2>1, Zenon DEF WalkLevel
  <2>3. i = imports
    BY <1>1, <1>2, <2>1
  <2> QED
    BY <1>3, <1>9, <2>1, <2>2, <2>3
<1> QED
  BY <1>10, <1>11 DEF SameRead, ContextTypes

\* Until something fails: the files from the diff on, the symbols from the parse on.
DiffIsOver == At("parse") \/ At("walk") \/ WalkIsOver
ReadSoFar ==
  faults = 0 =>
    /\ DiffIsOver => ctx.files = ChangedFiles("mergeBase")
    /\ At("walk") \/ WalkIsOver => SymbolsRead(ctx)
PrsInv ==
  /\ BudgetInv /\ CheckoutInv /\ ReadSoFar /\ Untouched /\ faults \in Nat
  /\ build.ok => build.pc \in {"cleanup", "done", "failed"}
  /\ build.pc \in Early => ctx.parsed = <<>> /\ ctx.symbols = <<>>

\* At the start nothing is read.
LEMMA PrsInit == Init => PrsInv
<1> SUFFICES ASSUME Init PROVE PrsInv
  OBVIOUS
<1>1. BudgetInv /\ CheckoutInv
  BY BudgetInit, CheckoutInit
<1>2. build.pc = "init" /\ ~build.ok /\ ctx.parsed = <<>> /\ ctx.symbols = <<>> /\ faults = 0
  BY DEF Init, NoContext
<1>3. Untouched
  BY EngineAssumption DEF Init, Untouched
<1> QED
  BY <1>1, <1>2, <1>3 DEF PrsInv, ReadSoFar, DiffIsOver, At, WalkIsOver

\* What the inputs say of the diff stays the same.
LEMMA SameDiff ==
  ASSUME UNCHANGED inputs
  PROVE  /\ Untouched' = Untouched /\ ChangedFiles("mergeBase")' = ChangedFiles("mergeBase")
         /\ \A p : ChangedOf(p)' = ChangedOf(p)
<1>1. repo' = repo
  BY DEF inputs
<1>2. Untouched' = Untouched
  BY <1>1 DEF Untouched
<1>3. \A f : ChangedFile(f, "mergeBase")' = ChangedFile(f, "mergeBase")
  BY <1>1 DEF ChangedFile, PatchOf, StatusOf, EditOf
<1>4. \A p : ChangedOf(p)' = ChangedOf(p)
  BY <1>3 DEF ChangedOf
<1>5. ChangedFiles("mergeBase")' = ChangedFiles("mergeBase")
  BY <1>1, <1>3 DEF ChangedFiles, StatusOf, EditOf
<1> QED
  BY <1>2, <1>4, <1>5

\* A step after which the same was read.
LEMMA PrsSame ==
  ASSUME PrsInv, BudgetInv', CheckoutInv', UNCHANGED inputs, SameRead(ctx', ctx),
         faults' = 0 => /\ faults = 0 /\ (DiffIsOver' => DiffIsOver)
                        /\ At("walk")' \/ WalkIsOver' => At("walk") \/ WalkIsOver,
         faults' \in Nat, build'.pc \in Early => build.pc \in Early,
         build'.ok => build'.pc \in {"cleanup", "done", "failed"}
  PROVE  PrsInv'
<1>1. ctx'.files = ctx.files /\ ctx'.parsed = ctx.parsed /\ ctx'.symbols = ctx.symbols
  BY DEF SameRead
<1>2. SymbolsRead(ctx)' = SymbolsRead(ctx)
  BY <1>1, SameDiff DEF SymbolsRead
<1>3. ReadSoFar'
  BY <1>1, <1>2, SameDiff DEF PrsInv, ReadSoFar
<1>4. Untouched'
  BY SameDiff DEF PrsInv
<1>5. build'.pc \in Early => ctx'.parsed = <<>> /\ ctx'.symbols = <<>>
  BY <1>1 DEF PrsInv
<1> QED
  BY <1>3, <1>4, <1>5 DEF PrsInv, Early

\* The diff.
LEMMA PrsDiff ==
  ASSUME PrsInv, BudgetInv', CheckoutInv', UNCHANGED inputs, Diff
  PROVE  PrsInv'
<1>1. /\ DOMAIN build = {"pc", "ok", "dir"} /\ ~build.ok /\ build.pc = "diff"
      /\ ctx \in ContextTypes /\ ctx.parsed = <<>> /\ ctx.symbols = <<>> /\ faults \in Nat
  BY DEF PrsInv, CheckoutInv, BudgetInv, ContextOk, Diff, At, Early
<1>2. build'.ok = build.ok /\ build'.pc \in {"parse", "cleanup"}
  BY <1>1 DEF Diff, Goto
<1>3. PICK base, files : ctx' = ctx \/ ctx' = [ctx EXCEPT !.base = base, !.files = files]
  BY DEF Diff
<1>4. ctx'.parsed = <<>> /\ ctx'.symbols = <<>>
  BY <1>1, <1>3 DEF ContextTypes
<1>5. faults' \in Nat /\ (faults' = 0 => Succeeds)
  BY <1>1 DEF Diff, Succeeds, Fails
<1>6. faults' = 0 => ctx'.files = ChangedFiles("mergeBase")
  <2>1. SUFFICES ASSUME faults' = 0 PROVE ctx'.files = ChangedFiles("mergeBase")
    OBVIOUS
  <2>2. ctx' = [ctx EXCEPT !.base = "mergeBase", !.files = ChangedFiles("mergeBase")]
    BY <1>1, <2>1 DEF Diff, Fails, DiffBase
  <2> QED
    BY <1>1, <2>2 DEF ContextTypes
<1>7. ReadSoFar'
  BY <1>1, <1>2, <1>6, SameDiff DEF ReadSoFar, DiffIsOver, At, WalkIsOver
<1>8. Untouched'
  BY SameDiff DEF PrsInv
<1> QED
  BY <1>1, <1>2, <1>4, <1>5, <1>7, <1>8 DEF PrsInv

\* The parse of what the diff lists.
LEMMA PrsParse ==
  ASSUME PrsInv, BudgetInv', CheckoutInv', UNCHANGED inputs, ParseChanged, build'.pc = "walk"
  PROVE  PrsInv'
<1>1. /\ DOMAIN build = {"pc", "ok", "dir"} /\ ~build.ok /\ build.pc = "parse" /\ InputsOk /\ ContextOk(ctx)
      /\ ctx \in ContextTypes /\ ctx.parsed = <<>> /\ ctx.symbols = <<>> /\ faults \in Nat /\ Untouched
  BY DEF PrsInv, CheckoutInv, BudgetInv, ContextOk, ParseChanged, At, Early
<1>2. build' = [build EXCEPT !.pc = "walk"] /\ faults' = faults
  BY <1>1 DEF ParseChanged, Goto, Succeeds
<1>3. build'.ok = build.ok
  BY <1>1, <1>2
<1>4. PICK c : c = FoldLeft(ParseOne, ctx, ctx.files)
  OBVIOUS
<1>5. ctx' = [c EXCEPT !.level = [depth |-> 1, files |-> c.parsed]]
  BY <1>1, <1>2, <1>4 DEF ParseChanged, Goto
<1>6. ASSUME faults' = 0
      PROVE  ctx'.files = ChangedFiles("mergeBase") /\ SymbolsRead(ctx)'
  <2>1. PICK files : files = ChangedFiles("mergeBase") /\ files = ctx.files
    BY <1>1, <1>2, <1>6 DEF PrsInv, ReadSoFar, DiffIsOver, At
  <2>2. files \in Seq(Changes) /\ \A i \in DOMAIN files : files[i] = ChangedFile(files[i].file, "mergeBase")
    BY <1>1, <2>1, ListedFiles
  <2>3. SymbolsRead(ctx)
    BY <1>1 DEF SymbolsRead, ToSet
  <2>4. ContextOk(c) /\ SymbolsRead(c) /\ c.files = files
    BY <1>1, <1>4, <2>1, <2>2, <2>3, ParseReads
  <2>5. c \in ContextTypes
    BY <2>4 DEF ContextOk
  <2>6. ctx'.files = files /\ ctx'.parsed = c.parsed /\ ctx'.symbols = c.symbols
    BY <1>5, <2>4, <2>5 DEF ContextTypes
  <2>7. SymbolsRead(ctx)' <=> SymbolsRead(c)
    BY <2>6, SameDiff DEF SymbolsRead
  <2> QED
    BY <2>1, <2>4, <2>6, <2>7
<1>7. ReadSoFar'
  BY <1>6, SameDiff DEF ReadSoFar
<1>8. Untouched'
  BY SameDiff DEF PrsInv
<1> QED
  BY <1>1, <1>2, <1>3, <1>7, <1>8 DEF PrsInv, Early

\* Every step of the build.
LEMMA PrsNext ==
  ASSUME PrsInv, [Next]_vars
  PROVE  PrsInv'
<1>1. BudgetInv' /\ CheckoutInv'
  BY BudgetNext, CheckoutNext DEF PrsInv
<1>2. UNCHANGED inputs
  BY DEF Next, vars, inputs, MakeDirectory, Fetch, FetchRef, Checkout, RemoveCheckout, Diff, ParseChanged,
         WalkLevel, Relate, History, Finish
<1>3. /\ DOMAIN build = {"pc", "ok", "dir"} /\ (build.ok => build.pc \in {"cleanup", "done", "failed"})
      /\ faults \in Nat /\ InputsOk /\ ContextOk(ctx)
  BY DEF PrsInv, CheckoutInv, BudgetInv
<1>4. SameRead(ctx, ctx)
  BY DEF SameRead
<1>5. CASE MakeDirectory
  <2>1. /\ build.pc = "init" /\ ctx' = ctx /\ build'.pc \in {"fetch", "failed", "abandon"}
        /\ build'.ok = build.ok
    BY <1>3, <1>5 DEF MakeDirectory, At
  <2>2. faults' \in Nat /\ (faults' = 0 => faults = 0)
    BY <1>3, <1>5 DEF MakeDirectory, Succeeds, Fails
  <2> QED
    BY <1>1, <1>2, <1>3, <1>4, <2>1, <2>2, PrsSame DEF At, DiffIsOver, WalkIsOver, Early
<1>6. CASE Fetch \/ FetchRef \/ Checkout
  <2>1. /\ build.pc \in {"fetch", "fetchRef", "checkout"} /\ ctx' = ctx
        /\ build'.pc \in {"checkout", "fetchRef", "abandon", "diff"} /\ build'.ok = build.ok
    BY <1>3, <1>6 DEF Fetch, FetchRef, Checkout, At, Goto
  <2>2. faults' \in Nat /\ (faults' = 0 => faults = 0)
    BY <1>3, <1>6 DEF Fetch, FetchRef, Checkout, Succeeds, Fails
  <2> QED
    BY <1>1, <1>2, <1>3, <1>4, <2>1, <2>2, PrsSame DEF At, DiffIsOver, WalkIsOver, Early
<1>7. CASE RemoveCheckout
  <2>1. ctx' = ctx /\ build'.pc \in {"done", "failed"}
    BY <1>3, <1>7 DEF RemoveCheckout
  <2>2. faults' \in Nat /\ (faults' = 0 => faults = 0)
    BY <1>3, <1>7 DEF RemoveCheckout, Succeeds, Fails
  <2> QED
    BY <1>1, <1>2, <1>3, <1>4, <2>1, <2>2, PrsSame DEF At, DiffIsOver, WalkIsOver, Early
<1>8. CASE Diff
  BY <1>1, <1>2, <1>8, PrsDiff
<1>9. CASE ParseChanged
  <2>1. ~build.ok /\ build'.ok = build.ok /\ build'.pc \in {"walk", "cleanup"} /\ build.pc = "parse"
    BY <1>3, <1>9 DEF ParseChanged, At, Goto
  <2>2. CASE build'.pc = "cleanup"
    <3>1. ctx' = ctx
      BY <1>3, <1>9, <2>2 DEF ParseChanged, Goto
    <3>2. faults' \in Nat /\ (faults' = 0 => faults = 0)
      BY <1>3, <1>9 DEF ParseChanged, Succeeds, Fails
    <3> QED
      BY <1>1, <1>2, <1>3, <1>4, <2>1, <2>2, <3>1, <3>2, PrsSame DEF At, DiffIsOver, WalkIsOver, Early
  <2> QED
    BY <1>1, <1>2, <1>9, <2>1, <2>2, PrsParse
<1>10. CASE WalkLevel
  <2>1. SameRead(ctx', ctx)
    BY <1>3, <1>10, WalkSame
  <2>2. /\ build.pc = "walk" /\ ~build.ok /\ build'.ok = build.ok
        /\ \/ build' = build /\ faults' = faults
           \/ build'.pc = "cleanup" /\ faults' = faults + 1
    BY <1>10, WalkOutcome DEF PrsInv
  <2>3. CASE build' = build /\ faults' = faults
    BY <1>1, <1>2, <1>3, <2>1, <2>3, PrsSame DEF At, DiffIsOver, WalkIsOver
  <2>4. CASE build'.pc = "cleanup" /\ faults' = faults + 1
    <3>1. faults' \in Nat /\ faults' # 0
      BY <1>3, <2>4
    <3> QED
      BY <1>1, <1>2, <2>1, <2>2, <2>4, <3>1, PrsSame DEF Early
  <2> QED
    BY <2>2, <2>3, <2>4
<1>11. CASE Relate
  <2>1. PICK graph, source : ctx' = [ctx EXCEPT !.graph = graph, !.source = source]
    BY <1>11 DEF Relate
  <2>2. SameRead(ctx', ctx)
    <3>1. ctx \in ContextTypes
      BY <1>3 DEF ContextOk
    <3> QED
      BY <2>1, <3>1 DEF SameRead, ContextTypes
  <2>3. build.pc = "walk" /\ build'.pc = "history" /\ build'.ok = build.ok /\ faults' = faults
    BY <1>3, <1>11 DEF Relate, At, Goto
  <2> QED
    BY <1>1, <1>2, <1>3, <2>2, <2>3, PrsSame DEF At, DiffIsOver, WalkIsOver, Early
<1>12. CASE History \/ UNCHANGED vars
  <2>1. /\ ctx' = ctx /\ build' = build
        /\ faults' = faults \/ faults' = faults + 1
    BY <1>12, Zenon DEF History, vars, Succeeds, Fails
  <2>2. faults' \in Nat /\ (faults' = 0 => faults = 0)
    BY <1>3, <2>1
  <2> QED
    BY <1>1, <1>2, <1>3, <1>4, <2>1, <2>2, PrsSame DEF At, DiffIsOver, WalkIsOver, Early
<1>13. CASE Finish
  <2>1. ctx' = ctx /\ build.pc = "history" /\ build'.pc = "cleanup" /\ faults' = faults
    BY <1>3, <1>13 DEF Finish, At
  <2> QED
    BY <1>1, <1>2, <1>3, <1>4, <2>1, PrsSame DEF At, DiffIsOver, WalkIsOver, Early
<1> QED
  BY <1>5, <1>6, <1>7, <1>8, <1>9, <1>10, <1>11, <1>12, <1>13 DEF Next

\* The symbols of a parse are of its file.
LEMMA SymbolsOfFile ==
  ASSUME InputsOk, NEW p \in Parses, NEW s \in ToSet(p.symbols)
  PROVE  /\ p = Parse(p.file) /\ p.file \in DOMAIN repo /\ s.file = p.file
         /\ s.first \in Nat /\ s.last \in Nat
<1>1. PICK f \in DOMAIN repo : p = Parse(f) /\ p.parsed
  BY DEF Parses
<1>2. p.file = f /\ IsParse(p)
  BY <1>1, ParseTypes
<1>3. p.symbols \in Seq(Syms)
  BY <1>2 DEF IsParse
<1>4. PICK i \in DOMAIN p.symbols : s = p.symbols[i]
  BY DEF ToSet
<1>5. s \in Syms
  BY <1>3, <1>4
<1>6. s.first \in Nat /\ s.last \in Nat
  BY <1>5, SymsTypes
<1>7. PICK lang, tree, max, at : /\ lang = repo[f].lang /\ tree = repo[f].tree /\ max = limits.maxSymbolsPerFile
                                 /\ at = Nodes(tree, LAMBDA n : IsSymbol(lang, tree, n))
  OBVIOUS
<1>8. p.symbols = [n \in 1 .. Min({Len(at), max}) |-> Symbol(f, lang, tree, at[n])]
  <2>1. p = ParseSourceFile(f, lang, tree, max) /\ p.parsed
    BY <1>1, <1>7 DEF Parse
  <2>2. ~(lang = "none" \/ tree = <<>>)
    BY <2>1 DEF ParseSourceFile, NoParse
  <2>3. PICK calls, imports :
          p = [parsed |-> TRUE, file |-> f,
               symbols |-> [n \in 1 .. Min({Len(at), max}) |-> Symbol(f, lang, tree, at[n])],
               imports |-> imports, calls |-> calls]
    BY <1>7, <2>1, <2>2, Zenon DEF ParseSourceFile
  <2> QED
    BY <2>3
<1>9. s.file = f
  BY <1>4, <1>8 DEF Symbol
<1> QED
  BY <1>1, <1>2, <1>6, <1>9

\* What of a file the diff touches is what has a line in it.
LEMMA ChangedLine ==
  ASSUME InputsOk, Untouched, NEW p \in Parses, NEW s \in ToSet(p.symbols), NEW edit,
         edit = repo[p.file].edit, repo[p.file].status # "renamed", Unmistakable(edit)
  PROVE  s \in ChangedOf(p) <=>
           \E i \in DOMAIN edit : /\ InHead(edit[i]) /\ Shown(edit, DiffContext, i)
                                  /\ HeadLine(edit, i) \in s.first .. s.last
<1>1. p.file \in DOMAIN repo /\ s.first \in Nat /\ s.last \in Nat
  BY SymbolsOfFile
<1>2. edit \in Seq(Ops)
  BY <1>1, FileTypes
<1>3. StatusOf(p.file, "mergeBase") = repo[p.file].status
  BY <1>1 DEF StatusOf, EditOf, Untouched
<1>4. PICK lines : lines = ParseChangedLines(GitDiff(edit, DiffContext))
  OBVIOUS
<1>5. ChangedFile(p.file, "mergeBase").changedLines = lines
  BY <1>3, <1>4 DEF ChangedFile, PatchOf, EditOf
<1>6. /\ lines \in Seq(Nat) /\ Ascending(lines)
      /\ ToSet(lines) = ShownLines(edit, DiffContext, Len(edit))
  BY <1>2, <1>4, ReadDiff
<1>7. LinesIntersectRange(lines, s.first, s.last) = InRange(lines, s.first, s.last, 1, Len(lines))
  BY <1>1, <1>6, SearchFinds
<1>8. s \in ChangedOf(p) <=> LinesIntersectRange(lines, s.first, s.last)
  <2>1. IsParse(p)
    BY ParsesAre
  <2>2. PICK symbols \in Seq(Syms) : symbols = p.symbols
    BY <2>1 DEF IsParse
  <2>3. PICK S : S = {r \in ToSet(symbols) : LinesIntersectRange(lines, r.first, r.last)}
    OBVIOUS
  <2>4. ToSet(Kept(symbols, S)) = ToSet(symbols) \cap S
    BY KeptSet
  <2>5. ChangedOf(p) = ToSet(Kept(symbols, S))
    BY <1>5, <2>2, <2>3 DEF ChangedOf, ChangedSymbols
  <2> QED
    BY <2>2, <2>3, <2>4, <2>5
<1>9. InRange(lines, s.first, s.last, 1, Len(lines)) <=> \E l \in ToSet(lines) : l \in s.first .. s.last
  <2>1. DOMAIN lines = 1 .. Len(lines) /\ \A k \in DOMAIN lines : lines[k] \in Nat
    BY <1>6
  <2> QED
    BY <1>1, <2>1 DEF InRange, ToSet
<1>10. DOMAIN edit = 1 .. Len(edit)
  BY <1>2
<1>11. (\E l \in ToSet(lines) : l \in s.first .. s.last) <=>
         \E i \in DOMAIN edit : /\ InHead(edit[i]) /\ Shown(edit, DiffContext, i)
                                /\ HeadLine(edit, i) \in s.first .. s.last
  BY <1>6, <1>10 DEF ShownLines
<1> QED
  BY <1>7, <1>8, <1>9, <1>11

\* For every checkout and every limits: a build in which nothing failed has listed
\* the files the pull request changed, whatever came to the base branch since, and
\* of the files it parsed found the symbols that a line of the diff lies in, and no
\* others: the hunks are read back at the lines they stand at, those that only
\* remove lines too, and the binary search finds every one of them.
THEOREM ChangesAreAlwaysThePrs == Spec => []ChangesAreThePrs
<1>1. PrsInv => ChangesAreThePrs
  <2> SUFFICES ASSUME PrsInv, Built, faults = 0 PROVE ChangesAreThePrs
    BY DEF ChangesAreThePrs
  <2>1. InputsOk /\ ContextOk(ctx) /\ Untouched /\ ctx \in ContextTypes
    BY DEF PrsInv, BudgetInv, ContextOk
  <2>2. ctx.files = ChangedFiles("mergeBase") /\ SymbolsRead(ctx)
    BY DEF PrsInv, ReadSoFar, DiffIsOver, WalkIsOver, Built
  <2>3. Listed(ctx) = {f \in DOMAIN repo : repo[f].status # "same" /\ ~repo[f].skip}
    BY <2>1, <2>2, ListedFiles DEF Listed, PrFiles
  <2>4. ASSUME NEW p \in ToSet(ctx.parsed), NEW edit, edit = repo[p.file].edit,
               repo[p.file].status # "renamed", Unmistakable(edit), NEW s \in ToSet(p.symbols)
        PROVE  s \in ToSet(ctx.symbols) <=>
                 \E i \in DOMAIN edit : /\ InHead(edit[i]) /\ Shown(edit, DiffContext, i)
                                        /\ HeadLine(edit, i) \in s.first .. s.last
    <3>1. \A q \in ToSet(ctx.parsed) : q \in Parses
      <4>1. ctx.parsed \in Seq(Parses)
        BY <2>1 DEF ContextTypes
      <4> QED
        BY <4>1 DEF ToSet
    <3>2. p \in Parses
      BY <3>1
    <3>3. s \in ToSet(ctx.symbols) <=> \E q \in ToSet(ctx.parsed) : s \in ChangedOf(q)
      BY <2>2 DEF SymbolsRead
    <3>4. ASSUME NEW q \in ToSet(ctx.parsed), s \in ChangedOf(q) PROVE q = p
      <4>1. q \in Parses
        BY <3>1
      <4>2. PICK symbols \in Seq(Syms) : symbols = q.symbols
        BY <2>1, <4>1, ParsesAre DEF IsParse
      <4>3. \A S : ToSet(Kept(symbols, S)) \subseteq ToSet(symbols)
        BY KeptSet
      <4>4. s \in ToSet(q.symbols)
        BY <3>4, <4>2, <4>3 DEF ChangedOf, ChangedSymbols
      <4>5. s.file = q.file /\ q = Parse(q.file)
        BY <2>1, <4>1, <4>4, SymbolsOfFile
      <4>6. s.file = p.file /\ p = Parse(p.file)
        BY <2>1, <2>4, <3>2, SymbolsOfFile
      <4> QED
        BY <4>5, <4>6
    <3>5. s \in ToSet(ctx.symbols) <=> s \in ChangedOf(p)
      BY <3>3, <3>4
    <3>6. s \in ChangedOf(p) <=>
            \E i \in DOMAIN edit : /\ InHead(edit[i]) /\ Shown(edit, DiffContext, i)
                                   /\ HeadLine(edit, i) \in s.first .. s.last
      BY <2>1, <2>4, <3>2, ChangedLine
    <3> QED
      BY <3>5, <3>6
  <2> QED
    BY <2>3, <2>4 DEF ChangesAreThePrs
<1>2. PrsInv /\ [Next]_vars => PrsInv'
  BY PrsNext
<1> QED
  BY <1>1, <1>2, PrsInit, PTL DEF Spec

-----------------------------------------------------------------------------
(* What is shown of what was parsed.                                       *)

\* The files are finitely many; the limits of what is shown are numbers.
LEMMA InputFacts ==
  ASSUME InputsOk
  PROVE  /\ IsFiniteSet(DOMAIN repo)
         /\ limits.maxRelevantSymbols \in Nat /\ limits.maxRelevantFiles \in Nat
<1>1. PICK N \in Nat : DOMAIN repo = 1 .. N
  <2>1. PICK r \in Seq(File) : r = repo
    BY DEF InputsOk
  <2> QED
    BY <2>1
<1>2. {"maxRelevantSymbols", "maxRelevantFiles"} \subseteq LimitNames
  BY DEF LimitNames
<1>3. limits \in [LimitNames -> Nat]
  BY DEF InputsOk
<1> QED
  BY <1>1, <1>2, <1>3, UpTo

\* The candidate is among those that are shown.
InView(t, c) == \E i \in DOMAIN t : t[i].id = c.id /\ t[i].relevance = c.relevance
\* The changed symbols among those that are shown, and their files.
First(t) == {i \in DOMAIN t : t[i].relevance = "changed"}
FilesOf(t, I) == {t[i].id.file : i \in I}
\* Nothing but changed symbols, or files of these, meets its limit.
FirstFull(t) == \/ Cardinality(First(t)) >= limits.maxRelevantSymbols
                \/ Cardinality(FilesOf(t, First(t))) >= limits.maxRelevantFiles
AllFull(acc) == \/ Len(acc.symbols) >= limits.maxRelevantSymbols
                \/ Cardinality(acc.files) >= limits.maxRelevantFiles
\* After n candidates in order.
Taken(r, n, acc) ==
  /\ acc \in Sources /\ SourceFits(acc)
  /\ \A i \in DOMAIN acc.symbols : \E k \in 1 .. n :
       acc.symbols[i].id = r[k].id /\ acc.symbols[i].relevance = r[k].relevance
  /\ Placed(acc.symbols) /\ Once(acc.symbols)
  /\ acc.files = FilesOf(acc.symbols, DOMAIN acc.symbols)
  /\ \A k \in 1 .. n : InView(acc.symbols, r[k]) \/ AllFull(acc)
  /\ \A k \in 1 .. n : r[k].relevance = "changed" => InView(acc.symbols, r[k]) \/ FirstFull(acc.symbols)

\* More elements, no smaller a number.
LEMMA SubsetCounts ==
  ASSUME NEW T, IsFiniteSet(T), NEW S, S \subseteq T, NEW m \in Nat, Cardinality(S) >= m
  PROVE  Cardinality(T) >= m
<1>1. IsFiniteSet(S) /\ Cardinality(S) <= Cardinality(T)
  BY FS_Subset
<1>2. Cardinality(S) \in Nat /\ Cardinality(T) \in Nat
  BY <1>1, FS_CardinalityType
<1> QED
  BY <1>1, <1>2

\* Indices and files are finitely many.
LEMMA FinitelyMany ==
  ASSUME NEW X, NEW t \in Seq(X), NEW I, I \subseteq DOMAIN t
  PROVE  IsFiniteSet(I) /\ IsFiniteSet(FilesOf(t, I))
<1>1. IsFiniteSet(DOMAIN t)
  BY UpTo
<1>2. IsFiniteSet(I)
  BY <1>1, FS_Subset
<1>3. IsFiniteSet(FilesOf(t, I))
  <2> DEFINE f == [i \in I |-> t[i].id.file]
  <2>1. \A y \in FilesOf(t, I) : \E i \in I : f[i] = y
    BY DEF FilesOf
  <2>2. f \in [I -> FilesOf(t, I)]
    BY DEF FilesOf
  <2> HIDE DEF f
  <2>3. f \in Surjection(I, FilesOf(t, I))
    BY <2>1, <2>2 DEF Surjection
  <2> QED
    BY <1>2, <2>3, FS_Surjection
<1> QED
  BY <1>2, <1>3

\* The candidate is behind the others.
Behind(acc, c, new) ==
  \E x : /\ new.symbols = Append(acc.symbols, x) /\ new.files = acc.files \cup {c.id.file}
         /\ x.id = c.id /\ x.relevance = c.relevance

\* A candidate is taken behind the others, or there is no room for it.
LEMMA TakeCases ==
  ASSUME InputsOk, NEW lines \in [DOMAIN repo -> Nat], NEW acc \in Sources, SourceFits(acc), NEW c \in Cands,
         NEW new, new = Take(acc, c, lines, limits)
  PROVE  /\ new \in Sources /\ SourceFits(new)
         /\ (new = acc /\ AllFull(acc)) \/ Behind(acc, c, new)
<1>1. new \in Sources /\ SourceFits(new)
  BY TakeOk DEF TakeGood
<1> DEFINE full == \/ Len(acc.symbols) >= limits.maxRelevantSymbols
                   \/ c.id.file \notin acc.files /\ Cardinality(acc.files) >= limits.maxRelevantFiles
<1>2. CASE full
  BY <1>1, <1>2 DEF Take, AllFull
<1>3. CASE ~full
  <2> DEFINE source == IF lines[c.id.file] > 0
                       THEN SliceSourceLines(lines[c.id.file], c.first, c.last, limits.maxSourceLinesPerSymbol)
                       ELSE IF c.id.file \in acc.files
                       THEN SliceSourceLines(1, c.first, c.last, limits.maxSourceLinesPerSymbol) ELSE NoSlice
             x == [relevance |-> c.relevance, id |-> c.id, first |-> c.first, last |-> c.last, source |-> source]
  <2>1. new = [symbols |-> Append(acc.symbols, x), files |-> acc.files \cup {c.id.file}]
    BY <1>3 DEF Take
  <2>2. x.id = c.id /\ x.relevance = c.relevance
    OBVIOUS
  <2> HIDE DEF x
  <2>3. new.symbols = Append(acc.symbols, x) /\ new.files = acc.files \cup {c.id.file}
    BY <2>1
  <2>4. Behind(acc, c, new)
    BY <2>2, <2>3 DEF Behind
  <2> QED
    BY <1>1, <2>4
<1> QED
  BY <1>2, <1>3

\* One candidate more.
LEMMA TakenStep ==
  ASSUME InputsOk, NEW lines \in [DOMAIN repo -> Nat], NEW r \in Seq(Cands), Placed(r), Once(r),
         NEW n \in DOMAIN r, NEW acc, Taken(r, n - 1, acc), NEW new, new = Take(acc, r[n], lines, limits)
  PROVE  Taken(r, n, new)
<1>0. /\ limits.maxRelevantSymbols \in Nat /\ limits.maxRelevantFiles \in Nat
      /\ n \in Nat /\ n >= 1 /\ 1 .. n = 1 .. n - 1 \cup {n}
  <2>1. n \in Nat /\ n >= 1
    OBVIOUS
  <2>2. 1 .. n = 1 .. n - 1 \cup {n}
    BY <2>1
  <2> QED
    BY <2>1, <2>2, InputFacts
<1>1. PICK c \in Cands : c = r[n]
  OBVIOUS
<1>2. PICK N \in Nat : DOMAIN r = 1 .. N
  OBVIOUS
<1>3. acc \in Sources /\ SourceFits(acc)
  BY DEF Taken
<1>4. PICK t \in Seq(ShownSymbol) : t = acc.symbols
  BY <1>3 DEF Sources
<1>5. PICK w \in Nat : w = Len(t) /\ DOMAIN t = 1 .. w
  OBVIOUS
<1>6. \A i \in 1 .. w : \E k \in 1 .. n - 1 : t[i].id = r[k].id /\ t[i].relevance = r[k].relevance
  BY <1>4, <1>5 DEF Taken
<1>7. /\ Placed(t) /\ Once(t) /\ acc.files = FilesOf(t, 1 .. w)
      /\ \A k \in 1 .. n - 1 : InView(t, r[k]) \/ AllFull(acc)
      /\ \A k \in 1 .. n - 1 : r[k].relevance = "changed" => InView(t, r[k]) \/ FirstFull(t)
  BY <1>4, <1>5 DEF Taken
<1>8. new \in Sources /\ SourceFits(new)
  BY <1>1, <1>3, TakeCases
<1>9. CASE new = acc /\ AllFull(acc)
  <2>1. ASSUME r[n].relevance = "changed" PROVE FirstFull(t)
    <3>1. \A i \in 1 .. w : t[i].relevance = "changed"
      <4> TAKE i \in 1 .. w
      <4>1. PICK k \in 1 .. n - 1 : t[i].relevance = r[k].relevance
        BY <1>6
      <4>2. k \in DOMAIN r /\ k < n
        BY <1>0, <1>2
      <4>3. Place(r[k].relevance) <= Place(r[n].relevance)
        BY <4>2 DEF Placed
      <4>4. r[k] \in Cands
        BY <4>2
      <4>5. r[k].relevance \in Ranks
        BY <4>4 DEF Cands
      <4> QED
        BY <2>1, <4>1, <4>3, <4>5, Places DEF Ranks
    <3>2. First(t) = 1 .. w
      BY <1>5, <3>1 DEF First
    <3>3. Cardinality(1 .. w) = w
      BY UpTo
    <3> QED
      BY <1>4, <1>5, <1>7, <1>9, <3>2, <3>3 DEF FirstFull, AllFull
  <2>2. \A i \in 1 .. w : \E k \in 1 .. n : t[i].id = r[k].id /\ t[i].relevance = r[k].relevance
    <3> TAKE i \in 1 .. w
    <3>1. PICK k \in 1 .. n - 1 : t[i].id = r[k].id /\ t[i].relevance = r[k].relevance
      BY <1>6
    <3> QED
      BY <1>0, <3>1
  <2>3. \A k \in 1 .. n : InView(t, r[k]) \/ AllFull(acc)
    BY <1>9
  <2>4. \A k \in 1 .. n : r[k].relevance = "changed" => InView(t, r[k]) \/ FirstFull(t)
    BY <1>0, <1>7, <2>1
  <2>5. acc.symbols = t /\ new = acc /\ DOMAIN t = 1 .. w
    BY <1>4, <1>5, <1>9
  <2>6. /\ \A i \in DOMAIN t : \E k \in 1 .. n : t[i].id = r[k].id /\ t[i].relevance = r[k].relevance
        /\ acc.files = FilesOf(t, DOMAIN t)
    BY <1>7, <2>2, <2>5
  <2>7. Placed(t) /\ Once(t)
    BY <1>7
  <2>8. Taken(r, n, acc)
    BY <1>3, <2>3, <2>4, <2>5, <2>6, <2>7 DEF Taken
  <2> QED
    BY <2>5, <2>8
<1>10. ASSUME NEW x, new.symbols = Append(acc.symbols, x), new.files = acc.files \cup {c.id.file},
              x.id = c.id, x.relevance = c.relevance
       PROVE  Taken(r, n, new)
  <2>1. PICK u \in Seq(ShownSymbol) : u = new.symbols
    BY <1>8 DEF Sources
  <2>2. DOMAIN u = 1 .. w + 1 /\ Len(u) = w + 1 /\ u[w + 1] = x /\ \A i \in 1 .. w : u[i] = t[i]
    <3>1. PICK X : X = ShownSymbol \cup {x}
      OBVIOUS
    <3>2. t \in Seq(X) /\ x \in X
      <4>1. \A i \in 1 .. w : t[i] \in X
        BY <1>5, <3>1
      <4> QED
        BY <1>5, <3>1, <4>1
    <3>3. u = Append(t, x)
      BY <1>4, <1>10, <2>1
    <3> QED
      BY <1>5, <3>2, <3>3
  <2>3. \A i \in 1 .. w + 1 : i \in 1 .. w \/ i = w + 1
    OBVIOUS
  <2>4. \A i \in 1 .. w + 1 : \E k \in 1 .. n : u[i].id = r[k].id /\ u[i].relevance = r[k].relevance
    <3> TAKE i \in 1 .. w + 1
    <3>1. CASE i \in 1 .. w
      <4>1. PICK k \in 1 .. n - 1 : t[i].id = r[k].id /\ t[i].relevance = r[k].relevance
        BY <1>6, <3>1
      <4> QED
        BY <1>0, <2>2, <3>1, <4>1
    <3>2. CASE i = w + 1
      BY <1>0, <1>1, <1>10, <2>2, <3>2
    <3> QED
      BY <2>3, <3>1, <3>2
  <2>5. Placed(u)
    <3> SUFFICES ASSUME NEW i \in 1 .. w + 1, NEW j \in 1 .. w + 1, i < j
                 PROVE  Place(u[i].relevance) <= Place(u[j].relevance)
      BY <2>2 DEF Placed
    <3>1. i \in 1 .. w
      OBVIOUS
    <3>2. CASE j \in 1 .. w
      BY <1>5, <1>7, <2>2, <3>1, <3>2 DEF Placed
    <3>3. CASE j = w + 1
      <4>1. PICK k \in 1 .. n - 1 : t[i].relevance = r[k].relevance
        BY <1>6, <3>1
      <4>2. k \in DOMAIN r /\ k < n
        BY <1>0, <1>2
      <4>3. Place(r[k].relevance) <= Place(r[n].relevance)
        BY <4>2 DEF Placed
      <4> QED
        BY <1>1, <1>10, <2>2, <3>1, <3>3, <4>1, <4>3
    <3> QED
      BY <2>3, <3>2, <3>3
  <2>6. Once(u)
    <3>1. ASSUME NEW i \in 1 .. w PROVE u[i].id # u[w + 1].id
      <4>1. PICK k \in 1 .. n - 1 : t[i].id = r[k].id
        BY <1>6
      <4>2. k \in DOMAIN r /\ k # n
        BY <1>0, <1>2
      <4>3. r[k].id # r[n].id
        BY <4>2 DEF Once
      <4> QED
        BY <1>1, <1>10, <2>2, <4>1, <4>3
    <3>2. \A i, j \in 1 .. w : u[i].id = u[j].id => i = j
      <4>1. \A i, j \in 1 .. w : t[i].id = t[j].id => i = j
        BY <1>5, <1>7 DEF Once
      <4> QED
        BY <2>2, <4>1
    <3> QED
      BY <2>2, <2>3, <3>1, <3>2 DEF Once
  <2>7. new.files = FilesOf(u, 1 .. w + 1)
    <3>1. FilesOf(u, 1 .. w + 1) = FilesOf(t, 1 .. w) \cup {x.id.file}
      <4>1. ASSUME NEW f \in FilesOf(u, 1 .. w + 1) PROVE f \in FilesOf(t, 1 .. w) \cup {x.id.file}
        <5>1. PICK i \in 1 .. w + 1 : f = u[i].id.file
          BY DEF FilesOf
        <5> QED
          BY <2>2, <2>3, <5>1 DEF FilesOf
      <4>2. ASSUME NEW f \in FilesOf(t, 1 .. w) PROVE f \in FilesOf(u, 1 .. w + 1)
        <5>1. PICK i \in 1 .. w : f = t[i].id.file
          BY DEF FilesOf
        <5>2. i \in 1 .. w + 1 /\ f = u[i].id.file
          BY <2>2, <5>1
        <5> QED
          BY <5>2 DEF FilesOf
      <4>3. x.id.file \in FilesOf(u, 1 .. w + 1)
        <5>1. w + 1 \in 1 .. w + 1 /\ x.id.file = u[w + 1].id.file
          BY <2>2
        <5> QED
          BY <5>1 DEF FilesOf
      <4> QED
        BY <4>1, <4>2, <4>3
    <3> QED
      BY <1>7, <1>10, <3>1
  <2>8. \A k \in 1 .. n - 1 : InView(t, r[k]) => InView(u, r[k])
    <3> SUFFICES ASSUME NEW k \in 1 .. n - 1, NEW i \in 1 .. w, t[i].id = r[k].id, t[i].relevance = r[k].relevance
                 PROVE  InView(u, r[k])
      BY <1>5 DEF InView
    <3>1. i \in DOMAIN u /\ u[i] = t[i]
      BY ONLY <2>2, w \in Nat, i \in 1 .. w
    <3> QED
      BY <3>1 DEF InView
  <2>9. InView(u, r[n])
    <3>1. w + 1 \in DOMAIN u
      BY <2>2
    <3> QED
      BY <1>1, <1>10, <2>2, <3>1 DEF InView
  <2>10. AllFull(acc) => AllFull(new)
    <3>1. Len(t) >= limits.maxRelevantSymbols => Len(u) >= limits.maxRelevantSymbols
      BY <1>0, <1>5, <2>2
    <3>2. IsFiniteSet(new.files) /\ acc.files \subseteq new.files
      <4>1. IsFiniteSet(FilesOf(u, 1 .. w + 1))
        BY <2>2, FinitelyMany
      <4> QED
        BY <1>10, <2>7, <4>1
    <3>3. Cardinality(acc.files) >= limits.maxRelevantFiles => Cardinality(new.files) >= limits.maxRelevantFiles
      BY <1>0, <3>2, SubsetCounts
    <3> QED
      BY <1>4, <2>1, <3>1, <3>3 DEF AllFull
  <2>11. FirstFull(t) => FirstFull(u)
    <3>1. First(t) \subseteq First(u) /\ First(u) \subseteq DOMAIN u
      BY <1>5, <2>2 DEF First
    <3>2. FilesOf(t, First(t)) \subseteq FilesOf(u, First(u))
      <4> SUFFICES ASSUME NEW i \in First(t) PROVE t[i].id.file \in FilesOf(u, First(u))
        BY DEF FilesOf
      <4>1. i \in 1 .. w /\ i \in First(u)
        BY <1>5, <3>1 DEF First
      <4> QED
        BY <2>2, <4>1 DEF FilesOf
    <3>3. IsFiniteSet(First(u)) /\ IsFiniteSet(FilesOf(u, First(u)))
      BY <3>1, FinitelyMany
    <3>4. Cardinality(First(t)) >= limits.maxRelevantSymbols => Cardinality(First(u)) >= limits.maxRelevantSymbols
      BY <1>0, <3>1, <3>3, SubsetCounts
    <3>5. Cardinality(FilesOf(t, First(t))) >= limits.maxRelevantFiles =>
            Cardinality(FilesOf(u, First(u))) >= limits.maxRelevantFiles
      BY <1>0, <3>2, <3>3, SubsetCounts
    <3> QED
      BY <3>4, <3>5 DEF FirstFull
  <2>12. \A k \in 1 .. n : InView(u, r[k]) \/ AllFull(new)
    BY <1>0, <1>7, <2>8, <2>9, <2>10
  <2>13. \A k \in 1 .. n : r[k].relevance = "changed" => InView(u, r[k]) \/ FirstFull(u)
    BY <1>0, <1>7, <2>8, <2>9, <2>11
  <2> QED
    BY <1>8, <2>1, <2>2, <2>4, <2>5, <2>6, <2>7, <2>12, <2>13 DEF Taken
<1>11. (new = acc /\ AllFull(acc)) \/ Behind(acc, c, new)
  <2>1. new = Take(acc, c, lines, limits)
    BY <1>1
  <2> QED
    BY <1>3, <2>1, TakeCases
<1> QED
  BY <1>9, <1>10, <1>11 DEF Behind

\* All candidates in order.
LEMMA TakenAll ==
  ASSUME InputsOk, NEW changed \in Seq(Syms), NEW g, GraphOk(g), NEW deps \in Seq(Deps),
         NEW lines \in [DOMAIN repo -> Nat], NEW r, r = Ranked(changed, g, deps, limits)
  PROVE  r \in Seq(Cands) /\ Taken(r, Len(r), CollectRelevantContext(changed, g, deps, lines, limits))
<1>1. r \in Seq(Cands) /\ Placed(r) /\ Once(r)
  BY RankedFacts
<1>2. PICK N \in Nat : N = Len(r) /\ DOMAIN r = 1 .. N
  BY <1>1
<1>3. PICK b : b = [symbols |-> <<>>, files |-> {}]
  OBVIOUS
<1>4. Taken(r, 0, b)
  <2> DEFINE none == <<>>
  <2>1. b.symbols = none /\ b.files = {} /\ DOMAIN none = {}
    BY <1>3
  <2>2. b \in Sources /\ SourceFits(b)
    BY <1>3, NothingTaken
  <2> HIDE DEF none
  <2>3. Placed(none) /\ Once(none) /\ FilesOf(none, DOMAIN none) = {}
    BY <2>1 DEF Placed, Once, FilesOf
  <2>4. \A k \in 1 .. 0 : FALSE
    OBVIOUS
  <2> QED
    BY <2>1, <2>2, <2>3, <2>4 DEF Taken
<1>5. PICK v : TakeFold!Results(lines, b, r, v, N) /\ TakeFold!Fold(lines, b, r) = v[N]
  <2>1. TakeFold!Inductive
    BY InductionOverNat DEF TakeFold!Inductive
  <2> QED
    BY <1>2, <2>1, TakeFold!FoldSteps
<1>6. v[0] = b /\ \A n \in 1 .. N : v[n] = Take(v[n - 1], r[n], lines, limits)
  BY <1>5 DEF TakeFold!Results, TakeOp
<1> DEFINE M == {n \in Nat : n <= N => Taken(r, n, v[n])}
<1>7. 0 \in M
  BY <1>4, <1>6
<1>8. ASSUME NEW n \in Nat, n \in M PROVE n + 1 \in M
  <2> SUFFICES ASSUME n + 1 <= N PROVE Taken(r, n + 1, v[n + 1])
    OBVIOUS
  <2>1. n + 1 \in DOMAIN r /\ (n + 1) - 1 = n /\ n <= N
    BY <1>2
  <2>2. Taken(r, (n + 1) - 1, v[n])
    BY <1>8, <2>1
  <2>3. v[n + 1] = Take(v[n], r[n + 1], lines, limits)
    BY <1>2, <1>6, <2>1
  <2> HIDE DEF M
  <2>4. PICK m \in DOMAIN r : m = n + 1
    BY <2>1
  <2>5. Taken(r, m - 1, v[n]) /\ v[m] = Take(v[n], r[m], lines, limits)
    BY <2>2, <2>3, <2>4
  <2>6. Taken(r, m, v[m])
    BY <1>1, <2>5, TakenStep
  <2> QED
    BY <2>4, <2>6
<1>9. Nat \subseteq M
  <2> HIDE DEF M
  <2> QED
    BY <1>7, <1>8, SetInduction
<1>10. Taken(r, N, v[N])
  BY <1>9
<1>11. TakeFold!Fold(lines, b, r) = FoldLeft(LAMBDA acc, c : Take(acc, c, lines, limits), b, r)
  BY DEF TakeFold!Fold, TakeOp, FoldLeft, MapThenFoldSet, TakeFold!IsFold, TakeFold!Step, TakeFold!Largest, Max
<1>12. CollectRelevantContext(changed, g, deps, lines, limits) = v[N]
  BY <1>3, <1>5, <1>11 DEF CollectRelevantContext
<1> QED
  BY <1>1, <1>2, <1>10, <1>12

\* A graph grows: it never loses a node or an edge.
Grows(g, h) == /\ Known(g) \subseteq Known(h) /\ Len(g.nodes) <= Len(h.nodes)
               /\ ToSet(g.edges) \subseteq ToSet(h.edges) /\ Len(g.edges) <= Len(h.edges)
NoNodeLeft(g) == Len(g.nodes) >= limits.maxNodes
NoEdgeLeft(g) == Len(g.edges) >= limits.maxEdges

\* The numbers of nodes and edges.
LEMMA GraphSizes ==
  ASSUME InputsOk, NEW g, GraphOk(g)
  PROVE  /\ Len(g.nodes) \in Nat /\ Len(g.edges) \in Nat /\ limits.maxNodes \in Nat /\ limits.maxEdges \in Nat
         /\ g \in Graphs /\ g.nodes \in Seq(GraphNode) /\ g.edges \in Seq(GraphEdge) /\ Grows(g, g)
<1>1. g \in Graphs
  BY DEF GraphOk
<1>2. g.nodes \in Seq(GraphNode) /\ g.edges \in Seq(GraphEdge)
  BY <1>1 DEF Graphs
<1>3. Len(g.nodes) \in Nat /\ Len(g.edges) \in Nat
  BY <1>2
<1> QED
  BY <1>1, <1>2, <1>3, GraphLimits DEF Grows

\* Growing further.
LEMMA GrowsOn ==
  ASSUME InputsOk, NEW f, GraphOk(f), NEW g, GraphOk(g), NEW h, GraphOk(h), Grows(f, g), Grows(g, h)
  PROVE  /\ Grows(f, h)
         /\ NoNodeLeft(f) => NoNodeLeft(h)
         /\ NoEdgeLeft(f) => NoEdgeLeft(h)
<1>1. /\ Len(f.nodes) \in Nat /\ Len(g.nodes) \in Nat /\ Len(h.nodes) \in Nat /\ limits.maxNodes \in Nat
      /\ Len(f.edges) \in Nat /\ Len(g.edges) \in Nat /\ Len(h.edges) \in Nat /\ limits.maxEdges \in Nat
  BY GraphSizes
<1>2. Len(f.nodes) <= Len(h.nodes) /\ Len(f.edges) <= Len(h.edges)
  BY <1>1 DEF Grows
<1> QED
  BY <1>1, <1>2 DEF Grows, NoNodeLeft, NoEdgeLeft

\* A node more.
LEMMA AddNodeGrows ==
  ASSUME InputsOk, NEW g, GraphOk(g), NEW id \in Ids, NEW first \in Nat, NEW last \in Nat,
         NEW h, h = AddNode(g, id, first, last, limits)
  PROVE  /\ GraphOk(h) /\ Grows(g, h) /\ Known(h) \subseteq Known(g) \cup {id}
         /\ id \in Known(h) \/ NoNodeLeft(h)
<1>1. GraphOk(h)
  BY AddNodeOk
<1>2. /\ Len(g.nodes) \in Nat /\ Len(g.edges) \in Nat /\ limits.maxNodes \in Nat
      /\ g \in Graphs /\ g.nodes \in Seq(GraphNode) /\ Grows(g, g)
  BY GraphSizes
<1>3. CASE ~CanAddNode(g, id, limits)
  <2>1. h = g
    BY <1>3 DEF AddNode
  <2>2. id \in Known(h) \/ NoNodeLeft(h)
    BY <1>2, <1>3, <2>1 DEF CanAddNode, Known, NoNodeLeft
  <2> QED
    BY <1>1, <1>2, <2>1, <2>2
<1>4. CASE CanAddNode(g, id, limits)
  <2>1. PICK x \in GraphNode : x = [id |-> id, first |-> first, last |-> last]
    BY DEF GraphNode
  <2>2. h = [g EXCEPT !.nodes = Append(g.nodes, x)]
    BY <1>4, <2>1 DEF AddNode
  <2>3. h.nodes = Append(g.nodes, x) /\ h.edges = g.edges
    BY <1>2, <2>2 DEF Graphs
  <2>4. PICK s \in Seq(GraphNode), t \in Seq(GraphNode) : s = g.nodes /\ t = h.nodes /\ t = Append(s, x)
    <3>1. PICK s \in Seq(GraphNode) : s = g.nodes
      BY <1>2
    <3>2. Append(s, x) \in Seq(GraphNode)
      OBVIOUS
    <3> QED
      BY <2>3, <3>1, <3>2
  <2>5. PICK N \in Nat : /\ DOMAIN s = 1 .. N /\ DOMAIN t = 1 .. N + 1 /\ Len(s) = N /\ Len(t) = N + 1
                         /\ t[N + 1] = x /\ \A i \in 1 .. N : t[i] = s[i]
    BY <2>4
  <2>6. x.id = id
    BY <2>1
  <2>7. \A i \in 1 .. N + 1 : i \in 1 .. N \/ i = N + 1
    OBVIOUS
  <2>8. \A j : Has(h, j) <=> Has(g, j) \/ j = id
    <3>1. \A j : Has(g, j) <=> \E n \in 1 .. N : s[n].id = j
      BY <2>4, <2>5 DEF Has
    <3>2. \A j : Has(h, j) <=> \E n \in 1 .. N + 1 : t[n].id = j
      BY <2>4, <2>5 DEF Has
    <3>3. \A n \in 1 .. N : n \in 1 .. N + 1
      OBVIOUS
    <3>4. N + 1 \in 1 .. N + 1
      OBVIOUS
    <3> QED
      BY <2>5, <2>6, <2>7, <3>1, <3>2, <3>3, <3>4
  <2>9. Known(h) = Known(g) \cup {id}
    BY <2>8 DEF Known
  <2>10. Len(g.nodes) <= Len(h.nodes)
    BY <2>4, <2>5
  <2> QED
    BY <1>1, <1>2, <2>3, <2>9, <2>10 DEF Grows
<1> QED
  BY <1>3, <1>4

\* An edge more, between nodes.
LEMMA AddEdgeGrows ==
  ASSUME InputsOk, NEW g, GraphOk(g), NEW source, NEW target, NEW type \in EdgeTypes,
         NEW h, h = AddEdge(g, source, target, type, limits)
  PROVE  /\ GraphOk(h) /\ Grows(g, h) /\ h.nodes = g.nodes /\ Known(h) = Known(g)
         /\ Has(g, source) /\ Has(g, target) =>
              [source |-> source, target |-> target, type |-> type] \in ToSet(h.edges) \/ NoEdgeLeft(h)
<1> DEFINE e == [source |-> source, target |-> target, type |-> type]
           can == Has(g, source) /\ Has(g, target) /\ Len(g.edges) < limits.maxEdges /\ e \notin ToSet(g.edges)
<1>1. GraphOk(h)
  BY AddEdgeOk
<1>2. /\ Len(g.nodes) \in Nat /\ Len(g.edges) \in Nat /\ limits.maxEdges \in Nat
      /\ g \in Graphs /\ g.edges \in Seq(GraphEdge) /\ Grows(g, g)
  BY GraphSizes
<1>3. CASE ~can
  <2>1. h = g
    BY <1>3 DEF AddEdge
  <2>2. Has(g, source) /\ Has(g, target) => e \in ToSet(h.edges) \/ NoEdgeLeft(h)
    BY <1>2, <1>3, <2>1 DEF NoEdgeLeft
  <2> QED
    BY <1>1, <1>2, <2>1, <2>2
<1>4. CASE can
  <2>1. h = [g EXCEPT !.edges = Append(g.edges, e)]
    BY <1>4 DEF AddEdge
  <2> HIDE DEF e
  <2>2. h.edges = Append(g.edges, e) /\ h.nodes = g.nodes
    BY <1>2, <2>1 DEF Graphs
  <2>3. e \in GraphEdge
    BY <1>2, <1>4, HasIds DEF GraphEdge, e
  <2>4. /\ Len(h.edges) = Len(g.edges) + 1 /\ ToSet(h.edges) = ToSet(g.edges) \cup {e}
    BY <1>2, <2>2, <2>3, AppendElements
  <2>5. Known(h) = Known(g)
    BY <2>2 DEF Known, Has
  <2>6. Grows(g, h)
    BY <1>2, <2>2, <2>4, <2>5 DEF Grows
  <2> QED
    BY <1>1, <2>2, <2>4, <2>5, <2>6 DEF e
<1> QED
  BY <1>3, <1>4

\* A symbol more, unless those of the file are at an end.
LEMMA AddSymbolGrows ==
  ASSUME InputsOk, NEW acc, AddSymbolGood(0, 0, acc), NEW s \in Syms, NEW new, new = AddSymbol(acc, s, limits)
  PROVE  /\ AddSymbolGood(0, 0, new) /\ Grows(acc.graph, new.graph)
         /\ Known(new.graph) \subseteq Known(acc.graph) \cup {Id(s)}
         /\ Has(acc.graph, Id(s)) => Known(new.graph) = Known(acc.graph)
         /\ ~acc.stop /\ ~Has(acc.graph, Id(s)) =>
              NoNodeLeft(new.graph) \/ (~new.stop /\ Id(s) \in Known(new.graph))
<1>1. AddSymbolGood(0, 0, new)
  BY AddSymbolOk
<1>2. GraphOk(acc.graph) /\ acc \in [graph : Graphs, stop : BOOLEAN]
  BY DEF AddSymbolGood
<1>3. CASE acc.stop \/ ~CanAddNode(acc.graph, Id(s), limits)
  <2>1. new = [acc EXCEPT !.stop = TRUE]
    BY <1>3 DEF AddSymbol
  <2>2. new.graph = acc.graph
    BY <1>2, <2>1
  <2>3. Grows(acc.graph, acc.graph)
    BY <1>2, GraphSizes
  <2>4. ~acc.stop /\ ~Has(acc.graph, Id(s)) => NoNodeLeft(acc.graph)
    <3>1. Len(acc.graph.nodes) \in Nat /\ limits.maxNodes \in Nat
      BY <1>2, GraphSizes
    <3> QED
      BY <1>3, <3>1 DEF CanAddNode, NoNodeLeft
  <2> QED
    BY <1>1, <2>2, <2>3, <2>4
<1>4. CASE ~(acc.stop \/ ~CanAddNode(acc.graph, Id(s), limits))
  <2>1. PICK id \in Ids : id = Id(s)
    BY IdTypes
  <2>2. PICK first \in Nat, last \in Nat : first = s.first /\ last = s.last
    BY SymsTypes
  <2>3. PICK g1 : g1 = AddNode(acc.graph, id, first, last, limits)
    OBVIOUS
  <2>4. /\ GraphOk(g1) /\ Grows(acc.graph, g1) /\ Known(g1) \subseteq Known(acc.graph) \cup {id}
        /\ id \in Known(g1) \/ NoNodeLeft(g1)
    BY <1>2, <2>3, AddNodeGrows
  <2>5. PICK g2 : g2 = AddEdge(g1, FileId(s.file), id, "FILE_CONTAINS_SYMBOL", limits)
    OBVIOUS
  <2>6. GraphOk(g2) /\ Grows(g1, g2) /\ g2.nodes = g1.nodes /\ Known(g2) = Known(g1)
    <3>1. PICK type \in EdgeTypes : type = "FILE_CONTAINS_SYMBOL"
      BY DEF EdgeTypes
    <3>2. PICK file : file = FileId(s.file)
      OBVIOUS
    <3>3. GraphOk(g1) /\ g2 = AddEdge(g1, file, id, type, limits)
      BY <2>4, <2>5, <3>1, <3>2
    <3> QED
      BY ONLY InputsOk, <3>3, AddEdgeGrows, type \in EdgeTypes
  <2>7. PICK g3 : g3 = IF s.exported THEN AddEdge(g2, FileId(s.file), id, "FILE_EXPORTS_SYMBOL", limits) ELSE g2
    OBVIOUS
  <2>8. GraphOk(g3) /\ Grows(g2, g3) /\ g3.nodes = g2.nodes /\ Known(g3) = Known(g2)
    <3>1. PICK type \in EdgeTypes : type = "FILE_EXPORTS_SYMBOL"
      BY DEF EdgeTypes
    <3>5. PICK file : file = FileId(s.file)
      OBVIOUS
    <3>2. PICK x : x = AddEdge(g2, file, id, type, limits)
      OBVIOUS
    <3>3. GraphOk(x) /\ Grows(g2, x) /\ x.nodes = g2.nodes /\ Known(x) = Known(g2)
      <4>1. GraphOk(g2)
        BY <2>6
      <4> QED
        BY <3>2, <4>1, AddEdgeGrows
    <3>4. Grows(g2, g2)
      BY <2>6, GraphSizes
    <3> QED
      BY <2>6, <2>7, <3>1, <3>2, <3>3, <3>4, <3>5
  <2>9. new = [acc EXCEPT !.graph = g3]
    BY <1>4, <2>1, <2>2, <2>3, <2>5, <2>7 DEF AddSymbol
  <2>10. new.graph = g3 /\ new.stop = acc.stop
    BY <1>2, <2>9
  <2>11. Grows(acc.graph, g2)
    BY <1>2, <2>4, <2>6, GrowsOn
  <2>12. Grows(acc.graph, g3)
    BY <1>2, <2>6, <2>8, <2>11, GrowsOn
  <2>13. Known(g3) = Known(g1) /\ (NoNodeLeft(g1) => NoNodeLeft(g3))
    BY <2>6, <2>8 DEF NoNodeLeft
  <2> QED
    BY <1>1, <1>4, <2>1, <2>4, <2>10, <2>12, <2>13 DEF CanAddNode
<1> QED
  BY <1>3, <1>4

\* The ids of the symbols of a file, and whether each is the id of one only.
IdsOf(p) == {Id(s) : s \in ToSet(p.symbols)}
OnceIn(p) == \A i, j \in DOMAIN p.symbols : Id(p.symbols[i]) = Id(p.symbols[j]) => i = j

\* A file more.
LEMMA AddFileGrows ==
  ASSUME InputsOk, NEW g, GraphOk(g), NEW file \in DOMAIN repo, NEW h, h = AddFile(g, file, limits)
  PROVE  /\ GraphOk(h) /\ Grows(g, h) /\ Known(h) \subseteq Known(g) \cup {FileId(file)}
         /\ FileId(file) \in Ids
<1>1. FileId(file) \in Ids
  BY DEF FileId, Ids, Kinds
<1>2. PICK id \in Ids : id = FileId(file)
  BY <1>1
<1>3. h = AddNode(g, id, 0, 0, limits)
  BY <1>2 DEF AddFile
<1>4. GraphOk(h) /\ Grows(g, h) /\ Known(h) \subseteq Known(g) \cup {id}
  BY <1>3, AddNodeGrows
<1> QED
  BY <1>1, <1>2, <1>4

\* The id of a symbol is not that of a file.
LEMMA NoFile ==
  ASSUME InputsOk, NEW s \in Syms, NEW file
  PROVE  Id(s) # FileId(file) /\ Id(s).kind # "file" /\ Id(s) \in Ids /\ Id(s).file = s.file
<1>1. Id(s).kind = s.kind /\ Id(s).file = s.file
  BY DEF Id
<1>2. s.kind # "file"
  BY SymsTypes
<1>3. FileId(file).kind = "file"
  BY DEF FileId
<1> QED
  BY <1>1, <1>2, <1>3, IdTypes

\* The symbols of a file become nodes, unless the graph is full: those that come
\* after a symbol that is one already do not.
LEMMA SymbolsGrow ==
  ASSUME InputsOk, NEW g, GraphOk(g), NEW p \in Parses, NEW h, h = AddSymbols(g, p, limits)
  PROVE  /\ GraphOk(h) /\ Grows(g, h)
         /\ Known(h) \subseteq Known(g) \cup {FileId(p.file)} \cup IdsOf(p)
         /\ OnceIn(p) /\ (IdsOf(p) \subseteq Known(g) \/ IdsOf(p) \cap Known(g) = {}) =>
              NoNodeLeft(h) \/ IdsOf(p) \subseteq Known(h)
<1>1. PICK symbols \in Seq(Syms) : symbols = p.symbols
  BY ParsesAre DEF IsParse
<1>2. PICK f : f = AddFile(g, p.file, limits)
  OBVIOUS
<1>3. GraphOk(f) /\ Grows(g, f) /\ Known(f) \subseteq Known(g) \cup {FileId(p.file)}
  <2>1. p.file \in DOMAIN repo
    BY ParsesAre DEF IsParse
  <2> QED
    BY <1>2, <2>1, AddFileGrows
<1>4. PICK b : b = [graph |-> f, stop |-> FALSE]
  OBVIOUS
<1>5. AddSymbolGood(0, 0, b) /\ b.graph = f /\ b.stop = FALSE
  BY <1>3, <1>4 DEF AddSymbolGood, GraphOk
<1>6. PICK N \in Nat : DOMAIN symbols = 1 .. N /\ Len(symbols) = N
  OBVIOUS
<1>7. PICK v : AddSymbolFold!Results(0, b, symbols, v, N) /\ AddSymbolFold!Fold(0, b, symbols) = v[N]
  <2>1. AddSymbolFold!Inductive
    BY InductionOverNat DEF AddSymbolFold!Inductive
  <2> QED
    BY <1>6, <2>1, AddSymbolFold!FoldSteps
<1>8. v[0] = b /\ \A n \in 1 .. N : v[n] = AddSymbol(v[n - 1], symbols[n], limits)
  BY <1>7 DEF AddSymbolFold!Results, AddSymbolOp
<1>9. \A i \in 1 .. N : /\ symbols[i] \in Syms /\ Id(symbols[i]) \in IdsOf(p)
                        /\ Id(symbols[i]) \in Ids /\ Id(symbols[i]) # FileId(p.file)
  <2> TAKE i \in 1 .. N
  <2>1. symbols[i] \in Syms
    BY <1>6
  <2>2. symbols[i] \in ToSet(p.symbols)
    BY <1>1, <1>6 DEF ToSet
  <2> QED
    BY <2>1, <2>2, NoFile DEF IdsOf
<1>10. IdsOf(p) = {Id(symbols[i]) : i \in 1 .. N}
  BY <1>1, <1>6 DEF IdsOf, ToSet
<1> DEFINE New == OnceIn(p) /\ IdsOf(p) \cap Known(g) = {}
           Upto(n) == \A k \in 1 .. N : Id(symbols[k]) \in Known(v[n].graph) <=> k <= n
           M == {n \in Nat : n <= N =>
                  /\ AddSymbolGood(0, 0, v[n]) /\ Grows(g, v[n].graph)
                  /\ Known(v[n].graph) \subseteq Known(g) \cup {FileId(p.file)} \cup IdsOf(p)
                  /\ New => NoNodeLeft(v[n].graph) \/ (~v[n].stop /\ Upto(n))}
<1>11. 0 \in M
  <2>1. v[0] = b
    BY <1>8
  <2>2. Known(v[0].graph) \subseteq Known(g) \cup {FileId(p.file)}
    BY <1>3, <1>5, <2>1
  <2>3. ASSUME New PROVE Upto(0)
    <3> SUFFICES ASSUME NEW k \in 1 .. N PROVE Id(symbols[k]) \notin Known(v[0].graph)
      BY <1>6
    <3> QED
      BY <1>9, <2>2, <2>3
  <2> QED
    BY <1>3, <1>5, <2>1, <2>2, <2>3
<1>12. ASSUME NEW n \in Nat, n \in M PROVE n + 1 \in M
  <2> SUFFICES ASSUME n + 1 <= N
               PROVE  /\ AddSymbolGood(0, 0, v[n + 1]) /\ Grows(g, v[n + 1].graph)
                      /\ Known(v[n + 1].graph) \subseteq Known(g) \cup {FileId(p.file)} \cup IdsOf(p)
                      /\ New => NoNodeLeft(v[n + 1].graph) \/ (~v[n + 1].stop /\ Upto(n + 1))
    OBVIOUS
  <2>1. n + 1 \in 1 .. N /\ (n + 1) - 1 = n /\ n <= N
    BY <1>6
  <2>2. /\ AddSymbolGood(0, 0, v[n]) /\ Grows(g, v[n].graph)
        /\ Known(v[n].graph) \subseteq Known(g) \cup {FileId(p.file)} \cup IdsOf(p)
        /\ New => NoNodeLeft(v[n].graph) \/ (~v[n].stop /\ Upto(n))
    BY <1>12, <2>1
  <2> HIDE DEF M, New, Upto
  <2>3. PICK acc : acc = v[n]
    OBVIOUS
  <2>4. PICK new : new = v[n + 1]
    OBVIOUS
  <2>5. PICK s \in Syms : s = symbols[n + 1]
    BY <1>9, <2>1
  <2>6. new = AddSymbol(acc, s, limits)
    BY <1>8, <2>1, <2>3, <2>4, <2>5
  <2>7. /\ AddSymbolGood(0, 0, new) /\ Grows(acc.graph, new.graph)
        /\ Known(new.graph) \subseteq Known(acc.graph) \cup {Id(s)}
        /\ Has(acc.graph, Id(s)) => Known(new.graph) = Known(acc.graph)
        /\ ~acc.stop /\ ~Has(acc.graph, Id(s)) =>
             NoNodeLeft(new.graph) \/ (~new.stop /\ Id(s) \in Known(new.graph))
    <3>1. AddSymbolGood(0, 0, acc)
      BY <2>2, <2>3
    <3> QED
      BY <2>6, <3>1, AddSymbolGrows
  <2>8. GraphOk(acc.graph) /\ GraphOk(new.graph)
    BY <2>2, <2>3, <2>7 DEF AddSymbolGood
  <2>9. Grows(g, new.graph) /\ (NoNodeLeft(acc.graph) => NoNodeLeft(new.graph))
    <3>1. Grows(g, acc.graph) /\ Grows(acc.graph, acc.graph)
      BY <2>2, <2>3, <2>8, GraphSizes
    <3>2. Grows(g, new.graph)
      BY <2>7, <2>8, <3>1, GrowsOn
    <3>3. NoNodeLeft(acc.graph) => NoNodeLeft(new.graph)
      BY <2>7, <2>8, <3>1, GrowsOn
    <3> QED
      BY <3>2, <3>3
  <2>10. Known(new.graph) \subseteq Known(g) \cup {FileId(p.file)} \cup IdsOf(p)
    BY <1>9, <2>1, <2>2, <2>3, <2>5, <2>7
  <2>11. ASSUME New, ~NoNodeLeft(new.graph) PROVE ~new.stop /\ Upto(n + 1)
    <3>1. ~acc.stop /\ Upto(n)
      BY <2>2, <2>3, <2>9, <2>11
    <3>2. \A k \in 1 .. N : Id(symbols[k]) \in Known(acc.graph) <=> k <= n
      BY <2>3, <3>1 DEF Upto
    <3>3. Id(s) \notin Known(acc.graph)
      BY <2>1, <2>5, <3>2
    <3>4. ~Has(acc.graph, Id(s))
      BY <3>3, IdTypes DEF Known
    <3>5. ~new.stop /\ Id(s) \in Known(new.graph)
      BY <2>7, <2>11, <3>1, <3>4
    <3>6. Known(acc.graph) \subseteq Known(new.graph)
      BY <2>7 DEF Grows
    <3>7. \A k \in 1 .. N : Id(symbols[k]) = Id(s) => k = n + 1
      BY <1>1, <1>6, <2>1, <2>5, <2>11 DEF New, OnceIn
    <3>8. ASSUME NEW k \in 1 .. N PROVE Id(symbols[k]) \in Known(new.graph) <=> k <= n + 1
      <4>1. CASE k = n + 1
        BY <2>5, <3>5, <4>1
      <4>2. CASE k <= n
        BY <3>2, <3>6, <4>2
      <4>3. CASE k > n + 1
        <5>1. Id(symbols[k]) \notin Known(acc.graph) /\ Id(symbols[k]) # Id(s)
          BY <3>2, <3>7, <4>3
        <5> QED
          BY <2>7, <4>3, <5>1
      <4> QED
        BY <4>1, <4>2, <4>3
    <3> QED
      BY <2>4, <3>5, <3>8 DEF Upto
  <2> QED
    BY <2>4, <2>7, <2>9, <2>10, <2>11
<1>13. Nat \subseteq M
  <2> HIDE DEF M
  <2> QED
    BY <1>11, <1>12, SetInduction
<1>14. /\ AddSymbolGood(0, 0, v[N]) /\ Grows(g, v[N].graph)
       /\ Known(v[N].graph) \subseteq Known(g) \cup {FileId(p.file)} \cup IdsOf(p)
       /\ New => NoNodeLeft(v[N].graph) \/ (~v[N].stop /\ Upto(N))
  BY <1>13
<1>15. AddSymbolFold!Fold(0, b, symbols) = FoldLeft(LAMBDA acc, s : AddSymbol(acc, s, limits), b, symbols)
  BY DEF AddSymbolFold!Fold, AddSymbolOp, FoldLeft, MapThenFoldSet, AddSymbolFold!IsFold, AddSymbolFold!Step, AddSymbolFold!Largest, Max
<1>16. h = v[N].graph
  <2>1. AddSymbols(g, p, limits) = FoldLeft(LAMBDA acc, s : AddSymbol(acc, s, limits), b, symbols).graph
    BY <1>1, <1>2, <1>4 DEF AddSymbols
  <2> QED
    BY <1>7, <1>15, <2>1
<1>17. ASSUME New PROVE NoNodeLeft(h) \/ IdsOf(p) \subseteq Known(h)
  <2>1. Upto(N) => \A k \in 1 .. N : Id(symbols[k]) \in Known(h)
    BY <1>16
  <2> HIDE DEF Upto
  <2> QED
    BY <1>10, <1>14, <1>16, <1>17, <2>1
<1>18. GraphOk(h) /\ Grows(g, h)
  BY <1>14, <1>16 DEF AddSymbolGood
<1>19. IdsOf(p) \subseteq Known(g) => IdsOf(p) \subseteq Known(h)
  BY <1>18 DEF Grows
<1> QED
  BY <1>14, <1>16, <1>17, <1>18, <1>19

\* The ids of the files, those of the symbols of the first n files, all of which the
\* graph has.
FileIds == {FileId(f) : f \in DOMAIN repo}
IdsUpto(ordered, n) == UNION {IdsOf(ordered[k]) : k \in 1 .. n}
HasUpto(ordered, n, g) == \A k \in 1 .. n : IdsOf(ordered[k]) \subseteq Known(g)
EachOnce(ordered) == \A p \in ToSet(ordered) : OnceIn(p)
WithSymbols(ordered) == FoldLeft(LAMBDA g, p : AddSymbols(g, p, limits), EmptyGraph, ordered)
\* The graph with the symbols of the first n files.
SymbolsGood(ordered, n, g) ==
  /\ GraphOk(g) /\ Known(g) \subseteq FileIds \cup IdsUpto(ordered, n)
  /\ EachOnce(ordered) => NoNodeLeft(g) \/ HasUpto(ordered, n, g)

\* No nodes and no edges.
LEMMA EmptyOk ==
  ASSUME InputsOk
  PROVE  GraphOk(EmptyGraph) /\ Known(EmptyGraph) = {}
<1> DEFINE none == <<>>
<1>1. /\ none \in Seq(GraphNode) /\ none \in Seq(GraphEdge) /\ Len(none) = 0 /\ DOMAIN none = {}
      /\ EmptyGraph = [nodes |-> none, edges |-> none]
  BY DEF EmptyGraph
<1> HIDE DEF none
<1>2. GraphOk(EmptyGraph)
  BY <1>1, GraphLimits DEF GraphOk, Graphs, GraphFits, Linked
<1>3. Known(EmptyGraph) = {}
  BY <1>1 DEF Known, Has
<1> QED
  BY <1>2, <1>3

\* The symbols of one file more.  A file that is there twice parses the same.
LEMMA FileOfSymbols ==
  ASSUME InputsOk, NEW ordered \in Seq(Parses), NEW n \in DOMAIN ordered,
         NEW g, GraphOk(g), NEW h, h = AddSymbols(g, ordered[n], limits),
         Known(g) \subseteq FileIds \cup IdsUpto(ordered, n - 1), OnceIn(ordered[n]),
         NoNodeLeft(g) \/ HasUpto(ordered, n - 1, g)
  PROVE  NoNodeLeft(h) \/ HasUpto(ordered, n, h)
<1>0. PICK N \in Nat : DOMAIN ordered = 1 .. N
  OBVIOUS
<1>1. \A k \in 1 .. n : k \in 1 .. n - 1 \/ k = n
  BY <1>0
<1>2. PICK p \in Parses : p = ordered[n]
  OBVIOUS
<1>3. /\ GraphOk(h) /\ Grows(g, h)
      /\ IdsOf(p) \subseteq Known(g) \/ IdsOf(p) \cap Known(g) = {} => NoNodeLeft(h) \/ IdsOf(p) \subseteq Known(h)
  BY <1>2, SymbolsGrow
<1>4. NoNodeLeft(g) => NoNodeLeft(h)
  <2>1. Grows(g, g)
    BY GraphSizes
  <2> QED
    BY <1>3, <2>1, GrowsOn
<1>5. ASSUME \A k \in 1 .. n - 1 : IdsOf(ordered[k]) \subseteq Known(g),
             ~ (IdsOf(p) \cap Known(g) = {})
      PROVE  IdsOf(p) \subseteq Known(g)
  <2>1. PICK id \in IdsOf(p) : id \in Known(g)
    BY <1>5
  <2>2. PICK s \in ToSet(p.symbols) : id = Id(s)
    BY <2>1 DEF IdsOf
  <2>3. s \in Syms /\ s.file = p.file
    <3>1. p.symbols \in Seq(Syms)
      BY ParsesAre DEF IsParse
    <3> QED
      BY <3>1, SymbolsOfFile DEF ToSet
  <2>4. id \notin FileIds /\ id.file = p.file
    BY <2>2, <2>3, NoFile DEF FileIds
  <2>5. PICK k \in 1 .. n - 1 : id \in IdsOf(ordered[k])
    BY <2>1, <2>4 DEF IdsUpto
  <2>6. k \in DOMAIN ordered
    BY <1>0
  <2>7. PICK q \in Parses : q = ordered[k]
    BY <2>6
  <2>8. PICK r \in ToSet(q.symbols) : id = Id(r)
    BY <2>5, <2>7 DEF IdsOf
  <2>9. r \in Syms /\ r.file = q.file
    <3>1. q.symbols \in Seq(Syms)
      BY ParsesAre DEF IsParse
    <3> QED
      BY <3>1, SymbolsOfFile DEF ToSet
  <2>10. id.file = q.file
    BY <2>8, <2>9, NoFile
  <2>11. p = Parse(p.file) /\ q = Parse(q.file)
    BY ParseOfFile
  <2>12. p = q
    BY <2>4, <2>10, <2>11
  <2> QED
    BY <1>5, <2>7, <2>12
<1>6. ASSUME ~NoNodeLeft(h) PROVE \A k \in 1 .. n : IdsOf(ordered[k]) \subseteq Known(h)
  <2>1. \A k \in 1 .. n - 1 : IdsOf(ordered[k]) \subseteq Known(g)
    BY <1>4, <1>6 DEF HasUpto
  <2>2. IdsOf(p) \subseteq Known(h)
    BY <1>3, <1>5, <1>6, <2>1
  <2>3. Known(g) \subseteq Known(h)
    BY <1>3 DEF Grows
  <2> QED
    BY <1>1, <1>2, <2>1, <2>2, <2>3
<1> QED
  BY <1>6 DEF HasUpto

\* The symbols of the next file.
LEMMA SymbolsStep ==
  ASSUME InputsOk, NEW ordered \in Seq(Parses), NEW n \in DOMAIN ordered,
         NEW g, SymbolsGood(ordered, n - 1, g), NEW h, h = AddSymbols(g, ordered[n], limits)
  PROVE  SymbolsGood(ordered, n, h)
<1>1. PICK N \in Nat : DOMAIN ordered = 1 .. N
  OBVIOUS
<1>2. PICK p \in Parses : p = ordered[n]
  OBVIOUS
<1>3. GraphOk(g) /\ Known(g) \subseteq FileIds \cup IdsUpto(ordered, n - 1)
  BY DEF SymbolsGood
<1>4. GraphOk(h) /\ Known(h) \subseteq Known(g) \cup {FileId(p.file)} \cup IdsOf(p)
  BY <1>2, <1>3, SymbolsGrow
<1>5. FileId(p.file) \in FileIds
  BY ParsesAre DEF IsParse, FileIds
<1>6. IdsUpto(ordered, n - 1) \subseteq IdsUpto(ordered, n) /\ IdsOf(p) \subseteq IdsUpto(ordered, n)
  <2>1. \A k \in 1 .. n - 1 : k \in 1 .. n
    BY <1>1
  <2>2. n \in 1 .. n
    BY <1>1
  <2> QED
    BY <1>2, <2>1, <2>2 DEF IdsUpto
<1>7. ASSUME EachOnce(ordered) PROVE NoNodeLeft(h) \/ HasUpto(ordered, n, h)
  <2>1. OnceIn(ordered[n])
    BY <1>7 DEF EachOnce, ToSet
  <2>2. NoNodeLeft(g) \/ HasUpto(ordered, n - 1, g)
    BY <1>7 DEF SymbolsGood
  <2> QED
    BY <1>3, <2>1, <2>2, FileOfSymbols
<1> QED
  BY <1>3, <1>4, <1>5, <1>6, <1>7 DEF SymbolsGood

\* The graph with the symbols of all files.
LEMMA AllSymbols ==
  ASSUME InputsOk, NEW ordered \in Seq(Parses), NEW w, w = WithSymbols(ordered)
  PROVE  /\ GraphOk(w) /\ Known(w) \subseteq FileIds \cup UNION {IdsOf(p) : p \in ToSet(ordered)}
         /\ EachOnce(ordered) => NoNodeLeft(w) \/ \A p \in ToSet(ordered) : IdsOf(p) \subseteq Known(w)
<1>1. PICK N \in Nat : DOMAIN ordered = 1 .. N
  OBVIOUS
<1>2. PICK v : SymbolsFold!Results(0, EmptyGraph, ordered, v, N) /\ SymbolsFold!Fold(0, EmptyGraph, ordered) = v[N]
  <2>1. SymbolsFold!Inductive
    BY InductionOverNat DEF SymbolsFold!Inductive
  <2> QED
    BY <1>1, <2>1, SymbolsFold!FoldSteps
<1>3. v[0] = EmptyGraph /\ \A n \in 1 .. N : v[n] = AddSymbols(v[n - 1], ordered[n], limits)
  BY <1>2 DEF SymbolsFold!Results, SymbolsOp
<1> DEFINE M == {n \in Nat : n <= N => SymbolsGood(ordered, n, v[n])}
<1>4. 0 \in M
  <2>1. GraphOk(v[0]) /\ Known(v[0]) = {}
    BY <1>3, EmptyOk
  <2>2. HasUpto(ordered, 0, v[0])
    BY DEF HasUpto
  <2> QED
    BY <2>1, <2>2 DEF SymbolsGood
<1>5. ASSUME NEW n \in Nat, n \in M PROVE n + 1 \in M
  <2> SUFFICES ASSUME n + 1 <= N PROVE SymbolsGood(ordered, n + 1, v[n + 1])
    OBVIOUS
  <2>1. n + 1 \in 1 .. N /\ (n + 1) - 1 = n /\ n <= N
    BY <1>1
  <2>2. SymbolsGood(ordered, n, v[n])
    BY <1>5, <2>1
  <2> HIDE DEF M
  <2>3. PICK m \in DOMAIN ordered : m = n + 1 /\ m - 1 = n
    BY <1>1, <2>1
  <2>4. SymbolsGood(ordered, m - 1, v[n])
    BY <2>2, <2>3
  <2>5. v[m] = AddSymbols(v[n], ordered[m], limits)
    BY <1>3, <2>1, <2>3
  <2>6. SymbolsGood(ordered, m, v[m])
    BY <2>4, <2>5, SymbolsStep
  <2> QED
    BY <2>3, <2>6
<1>6. Nat \subseteq M
  <2> HIDE DEF M
  <2> QED
    BY <1>4, <1>5, SetInduction
<1>7. SymbolsGood(ordered, N, v[N])
  BY <1>6
<1>8. SymbolsFold!Fold(0, EmptyGraph, ordered) = WithSymbols(ordered)
  BY DEF SymbolsFold!Fold, SymbolsOp, FoldLeft, MapThenFoldSet, SymbolsFold!IsFold, SymbolsFold!Step, SymbolsFold!Largest, Max, WithSymbols
<1>9. w = v[N]
  BY <1>2, <1>8
<1>10. \A k \in 1 .. N : ordered[k] \in ToSet(ordered)
  BY <1>1 DEF ToSet
<1>11. \A p \in ToSet(ordered) : \E k \in 1 .. N : ordered[k] = p
  BY <1>1 DEF ToSet
<1>12. IdsUpto(ordered, N) \subseteq UNION {IdsOf(p) : p \in ToSet(ordered)}
  BY <1>10 DEF IdsUpto
<1>13. HasUpto(ordered, N, w) => \A p \in ToSet(ordered) : IdsOf(p) \subseteq Known(w)
  BY <1>11 DEF HasUpto
<1> HIDE DEF M
<1> QED
  BY <1>7, <1>9, <1>12, <1>13 DEF SymbolsGood

\* The members of classes are no new nodes.
LEMMA MembersGrow ==
  ASSUME InputsOk, NEW g, GraphOk(g), NEW h, h = AddMembers(g, limits)
  PROVE  GraphOk(h) /\ Grows(g, h) /\ Known(h) = Known(g) /\ (NoNodeLeft(g) => NoNodeLeft(h))
<1>1. PICK pairs \in Seq(Ids \X Ids) : pairs = Members(g)
  BY MembersTypes DEF GraphOk
<1>2. PICK N \in Nat : DOMAIN pairs = 1 .. N
  OBVIOUS
<1>3. PICK type \in EdgeTypes : type = "CLASS_CONTAINS_METHOD"
  BY DEF EdgeTypes
<1>4. PICK v : MemberFold!Results(0, g, pairs, v, N) /\ MemberFold!Fold(0, g, pairs) = v[N]
  <2>1. MemberFold!Inductive
    BY InductionOverNat DEF MemberFold!Inductive
  <2> QED
    BY <1>2, <2>1, MemberFold!FoldSteps
<1>5. v[0] = g /\ \A n \in 1 .. N : v[n] = AddEdge(v[n - 1], pairs[n][1], pairs[n][2], "CLASS_CONTAINS_METHOD", limits)
  BY <1>4 DEF MemberFold!Results, MemberOp
<1> DEFINE M == {n \in Nat : n <= N => GraphOk(v[n]) /\ Grows(g, v[n]) /\ v[n].nodes = g.nodes}
<1>6. 0 \in M
  BY <1>5, GraphSizes
<1>7. ASSUME NEW n \in Nat, n \in M PROVE n + 1 \in M
  <2> SUFFICES ASSUME n + 1 <= N
               PROVE  GraphOk(v[n + 1]) /\ Grows(g, v[n + 1]) /\ v[n + 1].nodes = g.nodes
    OBVIOUS
  <2>1. n + 1 \in 1 .. N /\ (n + 1) - 1 = n /\ n <= N
    BY <1>2
  <2>2. GraphOk(v[n]) /\ Grows(g, v[n]) /\ v[n].nodes = g.nodes
    BY <1>7, <2>1
  <2>3. PICK source, target : source = pairs[n + 1][1] /\ target = pairs[n + 1][2]
    OBVIOUS
  <2>4. v[n + 1] = AddEdge(v[n], source, target, type, limits)
    BY <1>3, <1>5, <2>1, <2>3
  <2> HIDE DEF M
  <2>5. GraphOk(v[n + 1]) /\ Grows(v[n], v[n + 1]) /\ v[n + 1].nodes = v[n].nodes
    <3>1. PICK c, d : c = v[n] /\ d = v[n + 1]
      OBVIOUS
    <3>2. GraphOk(c) /\ d = AddEdge(c, source, target, type, limits)
      BY <2>2, <2>4, <3>1
    <3>3. GraphOk(d) /\ Grows(c, d) /\ d.nodes = c.nodes /\ Known(d) = Known(c)
      BY <3>2, AddEdgeGrows
    <3> QED
      BY <3>1, <3>3
  <2>6. Grows(g, v[n + 1])
    BY <2>2, <2>5, GrowsOn
  <2> QED
    BY <2>2, <2>5, <2>6
<1>8. Nat \subseteq M
  <2> HIDE DEF M
  <2> QED
    BY <1>6, <1>7, SetInduction
<1>9. GraphOk(v[N]) /\ Grows(g, v[N]) /\ v[N].nodes = g.nodes
  BY <1>8
<1>10. MemberFold!Fold(0, g, pairs) =
        FoldLeft(LAMBDA acc, p : AddEdge(acc, p[1], p[2], "CLASS_CONTAINS_METHOD", limits), g, pairs)
  BY DEF MemberFold!Fold, MemberOp, FoldLeft, MapThenFoldSet, MemberFold!IsFold, MemberFold!Step, MemberFold!Largest, Max
<1>11. h = v[N]
  BY <1>1, <1>4, <1>10 DEF AddMembers
<1>12. Known(v[N]) = Known(g)
  BY <1>9 DEF Known, Has
<1> QED
  BY <1>9, <1>11, <1>12 DEF NoNodeLeft

\* An import adds files, and no other node.
LEMMA ImportGrows ==
  ASSUME InputsOk, NEW g, GraphOk(g), NEW i \in Imports, NEW h, h = AddImport(g, i, limits)
  PROVE  GraphOk(h) /\ Grows(g, h) /\ Known(h) \subseteq Known(g) \cup FileIds
<1>1. CASE i.target = 0
  <2>1. h = g
    BY <1>1 DEF AddImport
  <2> QED
    BY <2>1, GraphSizes
<1>2. CASE i.target # 0
  <2>1. i.file \in DOMAIN repo /\ i.target \in DOMAIN repo
    BY <1>2 DEF Imports
  <2>2. PICK g1 : g1 = AddFile(g, i.file, limits)
    OBVIOUS
  <2>3. GraphOk(g1) /\ Grows(g, g1) /\ Known(g1) \subseteq Known(g) \cup {FileId(i.file)}
    BY <2>1, <2>2, AddFileGrows
  <2>4. PICK g2 : g2 = AddFile(g1, i.target, limits)
    OBVIOUS
  <2>5. GraphOk(g2) /\ Grows(g1, g2) /\ Known(g2) \subseteq Known(g1) \cup {FileId(i.target)}
    BY <2>1, <2>3, <2>4, AddFileGrows
  <2>7. PICK type \in EdgeTypes : type = "FILE_IMPORTS_FILE"
    BY DEF EdgeTypes
  <2>6. h = AddEdge(g2, FileId(i.file), FileId(i.target), type, limits)
    BY <1>2, <2>2, <2>4, <2>7 DEF AddImport
  <2>8. GraphOk(h) /\ Grows(g2, h) /\ Known(h) = Known(g2)
    <3>1. PICK source, target : source = FileId(i.file) /\ target = FileId(i.target)
      OBVIOUS
    <3>2. PICK x : x = AddEdge(g2, source, target, type, limits)
      OBVIOUS
    <3>3. GraphOk(g2)
      BY <2>5
    <3>4. GraphOk(x) /\ Grows(g2, x) /\ x.nodes = g2.nodes /\ Known(x) = Known(g2)
      BY <3>2, <3>3, AddEdgeGrows
    <3>5. x = h
      BY <2>6, <3>1, <3>2
    <3> QED
      BY <3>4, <3>5
  <2>9. Grows(g, g2)
    BY <2>3, <2>5, GrowsOn
  <2>10. Grows(g, h)
    BY <2>5, <2>8, <2>9, GrowsOn
  <2>11. FileId(i.file) \in FileIds /\ FileId(i.target) \in FileIds
    BY <2>1 DEF FileIds
  <2> QED
    BY <2>3, <2>5, <2>8, <2>10, <2>11
<1> QED
  BY <1>1, <1>2

\* All imports.
LEMMA ImportsGrow ==
  ASSUME InputsOk, NEW g, GraphOk(g), NEW resolved \in Seq(Imports), NEW h, h = AddImports(g, resolved, limits)
  PROVE  /\ GraphOk(h) /\ Grows(g, h) /\ Known(h) \subseteq Known(g) \cup FileIds
         /\ NoNodeLeft(g) => NoNodeLeft(h)
<1>1. PICK N \in Nat : DOMAIN resolved = 1 .. N
  OBVIOUS
<1>2. PICK v : AddImportFold!Results(0, g, resolved, v, N) /\ AddImportFold!Fold(0, g, resolved) = v[N]
  <2>1. AddImportFold!Inductive
    BY InductionOverNat DEF AddImportFold!Inductive
  <2> QED
    BY <1>1, <2>1, AddImportFold!FoldSteps
<1>3. v[0] = g /\ \A n \in 1 .. N : v[n] = AddImport(v[n - 1], resolved[n], limits)
  BY <1>2 DEF AddImportFold!Results, AddImportOp
<1> DEFINE M == {n \in Nat : n <= N => GraphOk(v[n]) /\ Grows(g, v[n]) /\ Known(v[n]) \subseteq Known(g) \cup FileIds}
<1>4. 0 \in M
  BY <1>3, GraphSizes
<1>5. ASSUME NEW n \in Nat, n \in M PROVE n + 1 \in M
  <2> SUFFICES ASSUME n + 1 <= N
               PROVE  GraphOk(v[n + 1]) /\ Grows(g, v[n + 1]) /\ Known(v[n + 1]) \subseteq Known(g) \cup FileIds
    OBVIOUS
  <2>1. n + 1 \in 1 .. N /\ (n + 1) - 1 = n /\ n <= N
    BY <1>1
  <2>2. GraphOk(v[n]) /\ Grows(g, v[n]) /\ Known(v[n]) \subseteq Known(g) \cup FileIds
    BY <1>5, <2>1
  <2>3. PICK i \in Imports : i = resolved[n + 1]
    BY <1>1, <2>1
  <2>4. v[n + 1] = AddImport(v[n], i, limits)
    BY <1>3, <2>1, <2>3
  <2> HIDE DEF M
  <2>5. GraphOk(v[n + 1]) /\ Grows(v[n], v[n + 1]) /\ Known(v[n + 1]) \subseteq Known(v[n]) \cup FileIds
    BY <2>2, <2>4, ImportGrows
  <2>6. Grows(g, v[n + 1])
    BY <2>2, <2>5, GrowsOn
  <2> QED
    BY <2>2, <2>5, <2>6
<1>6. Nat \subseteq M
  <2> HIDE DEF M
  <2> QED
    BY <1>4, <1>5, SetInduction
<1>7. GraphOk(v[N]) /\ Grows(g, v[N]) /\ Known(v[N]) \subseteq Known(g) \cup FileIds
  BY <1>6
<1>8. AddImportFold!Fold(0, g, resolved) = AddImports(g, resolved, limits)
  BY DEF AddImportFold!Fold, AddImportOp, AddImports, FoldLeft, MapThenFoldSet, AddImportFold!IsFold, AddImportFold!Step, AddImportFold!Largest, Max
<1>9. h = v[N]
  BY <1>2, <1>8
<1>10. NoNodeLeft(g) => NoNodeLeft(h)
  BY <1>7, <1>9, GraphSizes, GrowsOn
<1> QED
  BY <1>7, <1>9, <1>10

\* The members of a class are methods among the nodes.
LEMMA MembersAre ==
  ASSUME NEW g, GraphOk(g), NEW Y, Y = {id \in Known(g) : id.kind = "method"}
  PROVE  Members(g) \in Seq(Ids \X Y)
<1>1. PICK nodes \in Seq(GraphNode) : nodes = g.nodes
  BY DEF GraphOk, Graphs
<1>2. PICK classes \in Seq(GraphNode) : classes = NodesOf(g, "class")
  <2>1. NodesOf(g, "class") \in Seq(GraphNode)
    BY <1>1, KeptNoLonger DEF NodesOf
  <2> QED
    BY <2>1
<1>3. PICK Z : Z = {m \in GraphNode : m.id \in Y}
  OBVIOUS
<1>4. PICK methods \in Seq(Z) : methods = NodesOf(g, "method")
  <2>1. PICK t : t = NodesOf(g, "method")
    OBVIOUS
  <2>2. PICK S : S = {n \in ToSet(g.nodes) : n.id.kind = "method"}
    OBVIOUS
  <2>3. t = Kept(nodes, S)
    BY <1>1, <2>1, <2>2 DEF NodesOf
  <2>4. /\ t \in Seq(GraphNode)
        /\ \A k \in DOMAIN t : t[k] \in S /\ \E i \in DOMAIN nodes : nodes[i] = t[k]
    BY <2>3, KeptElements
  <2>5. PICK n \in Nat : DOMAIN t = 1 .. n
    BY <2>4
  <2>6. \A k \in 1 .. n : t[k] \in Z
    <3> TAKE k \in 1 .. n
    <3>1. PICK m \in GraphNode : m = t[k]
      BY <2>4, <2>5
    <3>2. m.id.kind = "method"
      BY <2>2, <2>4, <2>5, <3>1
    <3>3. Has(g, m.id)
      BY <1>1, <2>4, <2>5, <3>1 DEF Has
    <3>4. m.id \in Y
      BY <3>2, <3>3 DEF GraphNode, Known
    <3> QED
      BY <1>3, <3>1, <3>4
  <2>7. t \in [1 .. n -> Z]
    BY <2>4, <2>5, <2>6
  <2>8. t \in Seq(Z)
    BY <2>7
  <2> QED
    BY <2>1, <2>8
<1> DEFINE inside(c) == Kept(methods, {m \in ToSet(g.nodes) :
                     m.id.file = c.id.file /\ m.first >= c.first /\ m.last <= c.last})
           pairs(c) == [j \in DOMAIN inside(c) |-> <<c.id, inside(c)[j].id>>]
           each == [i \in DOMAIN classes |-> pairs(classes[i])]
<1>5. Members(g) = FlattenSeq(each)
  BY <1>2, <1>4 DEF Members
<1>6. ASSUME NEW c \in GraphNode PROVE pairs(c) \in Seq(Ids \X Y)
  <2>1. inside(c) \in Seq(Z)
    BY KeptNoLonger
  <2>2. PICK s \in Seq(Z) : s = inside(c)
    BY <2>1
  <2>3. PICK n \in Nat : DOMAIN s = 1 .. n
    OBVIOUS
  <2>4. \A j \in 1 .. n : <<c.id, s[j].id>> \in Ids \X Y
    <3> TAKE j \in 1 .. n
    <3>1. s[j].id \in Y
      BY <1>3, <2>3
    <3> QED
      BY <3>1 DEF GraphNode
  <2>5. pairs(c) = [j \in 1 .. n |-> <<c.id, s[j].id>>]
    BY <2>2, <2>3
  <2>6. pairs(c) \in [1 .. n -> Ids \X Y]
    <3> HIDE DEF pairs
    <3> QED
      BY <2>4, <2>5
  <2> HIDE DEF pairs
  <2> QED
    BY <2>6
<1> HIDE DEF pairs
<1>7. PICK n \in Nat : DOMAIN classes = 1 .. n
  OBVIOUS
<1>8. \A i \in 1 .. n : pairs(classes[i]) \in Seq(Ids \X Y)
  <2> TAKE i \in 1 .. n
  <2>1. PICK c \in GraphNode : c = classes[i]
    BY <1>7
  <2> QED
    BY <1>6, <2>1
<1>9. each \in [1 .. n -> Seq(Ids \X Y)]
  BY <1>7, <1>8
<1> HIDE DEF each
<1>10. each \in Seq(Seq(Ids \X Y))
  BY <1>9
<1> QED
  BY <1>5, <1>10, FlattenElements

\* A sequence that keeps something is not empty.
LEMMA FirstKept ==
  ASSUME NEW X, NEW s \in Seq(X), NEW S, NEW t, t = Kept(s, S)
  PROVE  /\ t # <<>> => t[1] \in S /\ t[1] \in X /\ \E i \in DOMAIN s : s[i] = t[1]
         /\ t \in Seq(X)
         /\ (\E i \in DOMAIN s : s[i] \in S) => t # <<>>
<1>1. /\ t \in Seq(X)
      /\ \A k \in DOMAIN t : t[k] \in S /\ \E i \in DOMAIN s : s[i] = t[k]
      /\ \A i \in DOMAIN s : s[i] \in S => \E k \in DOMAIN t : t[k] = s[i]
  BY KeptElements
<1>2. t # <<>> => 1 \in DOMAIN t /\ t[1] \in X
  BY <1>1, TailTypes
<1>3. (\E i \in DOMAIN s : s[i] \in S) => t # <<>>
  BY <1>1
<1> QED
  BY <1>1, <1>2, <1>3

\* The only node of a name is what looking the name up returns.
LEMMA LookupSole ==
  ASSUME InputsOk, NEW g, GraphOk(g), NEW name, NEW file,
         NEW id \in Known(g), id.kind # "file", id.name = name.name,
         \A x \in Known(g) : x.kind # "file" /\ x.name = name.name => x = id
  PROVE  LookupSymbol(g, name, file) = id
<1>1. PICK nodes \in Seq(GraphNode) : nodes = g.nodes
  BY DEF GraphOk, Graphs
<1>2. \A i \in DOMAIN nodes : nodes[i].id \in Known(g)
  <2> TAKE i \in DOMAIN nodes
  <2>1. nodes[i] \in GraphNode
    OBVIOUS
  <2>2. nodes[i].id \in Ids
    BY <2>1 DEF GraphNode
  <2> QED
    BY <1>1, <2>2 DEF Known, Has
<1>3. PICK Y : Y = {x \in Known(g) : x.kind = "method"}
  OBVIOUS
<1>4. PICK pairs \in Seq(Ids \X Y) : pairs = Members(g)
  BY <1>3, MembersAre
<1>5. PICK S1 : S1 = {p \in ToSet(pairs) : name.of # "" /\ p[1].name = name.of /\ p[2].name = name.name}
  OBVIOUS
<1>6. PICK member : member = Kept(pairs, S1)
  OBVIOUS
<1>7. PICK S2 : S2 = {n \in ToSet(g.nodes) : n.id.kind # "file" /\ n.id.name = name.name}
  OBVIOUS
<1>8. PICK named : named = Kept(nodes, S2)
  OBVIOUS
<1>9. PICK S3 : S3 = {n \in ToSet(named) : name.of = "" /\ n.id.file = file}
  OBVIOUS
<1>10. PICK own : own = Kept(named, S3)
  OBVIOUS
<1>11. LookupSymbol(g, name, file) =
         IF member # <<>> THEN member[1][2] ELSE IF named = <<>> THEN Null
         ELSE IF own # <<>> THEN own[1].id ELSE named[1].id
  BY <1>1, <1>4, <1>5, <1>6, <1>7, <1>8, <1>9, <1>10, Zenon DEF LookupSymbol
<1>12. ASSUME member # <<>> PROVE member[1][2] = id
  <2>1. member[1] \in S1 /\ member[1] \in Ids \X Y
    BY <1>6, <1>12, FirstKept
  <2>2. member[1][2].name = name.name /\ member[1][2] \in Y
    BY <1>5, <2>1
  <2>3. member[1][2] \in Known(g) /\ member[1][2].kind = "method"
    BY <1>3, <2>2
  <2> QED
    BY <2>2, <2>3
<1>13. named # <<>>
  <2>1. PICK i \in DOMAIN nodes : nodes[i].id = id
    BY <1>1 DEF Known, Has
  <2>2. nodes[i] \in S2
    BY <1>1, <1>7, <2>1 DEF ToSet
  <2> QED
    BY <1>8, <2>1, <2>2, FirstKept
<1>14. named \in Seq(GraphNode) /\ \A k \in DOMAIN named : named[k].id = id
  <2>1. /\ named \in Seq(GraphNode)
        /\ \A k \in DOMAIN named : named[k] \in S2 /\ \E i \in DOMAIN nodes : nodes[i] = named[k]
    BY <1>8, KeptElements
  <2>2. ASSUME NEW k \in DOMAIN named PROVE named[k].id = id
    <3>1. named[k].id \in Known(g)
      BY <1>2, <2>1
    <3>2. named[k].id.kind # "file" /\ named[k].id.name = name.name
      BY <1>7, <2>1
    <3> QED
      BY <3>1, <3>2
  <2> QED
    BY <2>1, <2>2
<1>15. named[1].id = id
  <2>1. 1 \in DOMAIN named
    BY <1>13, <1>14, TailTypes
  <2> QED
    BY <1>14, <2>1
<1>16. ASSUME own # <<>> PROVE own[1].id = id
  <2>1. PICK k \in DOMAIN named : named[k] = own[1]
    BY <1>10, <1>14, <1>16, FirstKept
  <2> QED
    BY <1>14, <2>1
<1> QED
  BY <1>11, <1>12, <1>13, <1>15, <1>16

\* A call between two symbols.
CallEdge(source, target) == [source |-> source, target |-> target, type |-> "FUNCTION_CALLS_FUNCTION"]

\* The call is an edge of the graph if both names mean symbols that it has.
Drawn(acc, c, g, file, h) ==
  \A source, target :
    /\ c.caller # NoName /\ LookupSymbol(g, c.caller, file) = source
    /\ LookupSymbol(g, c.callee, file) = target
    /\ source # Null /\ target # Null /\ source # target /\ Has(acc, source) /\ Has(acc, target)
    => CallEdge(source, target) \in ToSet(h.edges) \/ NoEdgeLeft(h)

\* A call adds an edge, and no node.
LEMMA CallGrows ==
  ASSUME InputsOk, NEW acc, GraphOk(acc), NEW c, NEW g, NEW file, NEW h, h = AddCall(acc, c, g, file, limits)
  PROVE  /\ GraphOk(h) /\ Grows(acc, h) /\ h.nodes = acc.nodes
         /\ Drawn(acc, c, g, file, h)
<1>1. PICK caller : caller = IF c.caller = NoName THEN Null ELSE LookupSymbol(g, c.caller, file)
  OBVIOUS
<1>2. PICK callee : callee = LookupSymbol(g, c.callee, file)
  OBVIOUS
<1>3. "FUNCTION_CALLS_FUNCTION" \in EdgeTypes
  BY DEF EdgeTypes
<1>4. PICK x : x = AddEdge(acc, caller, callee, "FUNCTION_CALLS_FUNCTION", limits)
  OBVIOUS
<1>5. /\ GraphOk(x) /\ Grows(acc, x) /\ x.nodes = acc.nodes
      /\ Has(acc, caller) /\ Has(acc, callee) => CallEdge(caller, callee) \in ToSet(x.edges) \/ NoEdgeLeft(x)
  BY <1>3, <1>4, AddEdgeGrows DEF CallEdge
<1>6. Grows(acc, acc)
  BY GraphSizes
<1>7. h = IF caller # Null /\ callee # Null /\ caller # callee THEN x ELSE acc
  BY <1>1, <1>2, <1>4, Zenon DEF AddCall
<1>8. GraphOk(h) /\ Grows(acc, h) /\ h.nodes = acc.nodes
  BY <1>5, <1>6, <1>7
<1>9. ASSUME NEW source, NEW target,
             c.caller # NoName, LookupSymbol(g, c.caller, file) = source, LookupSymbol(g, c.callee, file) = target,
             source # Null, target # Null, source # target, Has(acc, source), Has(acc, target)
      PROVE  CallEdge(source, target) \in ToSet(h.edges) \/ NoEdgeLeft(h)
  <2>1. caller = source /\ callee = target
    BY <1>1, <1>2, <1>9
  <2>2. h = x
    BY <1>7, <1>9, <2>1
  <2> QED
    BY <1>5, <1>9, <2>1, <2>2
<1>10. Drawn(acc, c, g, file, h)
  BY <1>9, Zenon DEF Drawn
<1> QED
  BY <1>8, <1>10

\* The symbols that a call joins, whatever the file.
Joins(c, g, source, target) ==
  /\ c.caller # NoName /\ source # Null /\ target # Null /\ source # target
  /\ Has(g, source) /\ Has(g, target)
  /\ \A file : LookupSymbol(g, c.caller, file) = source /\ LookupSymbol(g, c.callee, file) = target

\* The calls of a file join these symbols, and all that they join is in the graph.
Calling(p, g, source, target) ==
  Len(p.calls) <= MaxCalls /\ \E c \in ToSet(p.calls) : Joins(c, g, source, target)
HasCalls(p, g, h) ==
  \A source, target : Calling(p, g, source, target) =>
    CallEdge(source, target) \in ToSet(h.edges) \/ NoEdgeLeft(h)

\* The first of no more than n elements are all of them.
LEMMA WholePrefix ==
  ASSUME NEW S, NEW s \in Seq(S), NEW n \in Nat, Len(s) <= n
  PROVE  SubSeq(s, 1, Min({n, Len(s)})) = s
<1>1. Len(s) \in Nat
  OBVIOUS
<1>2. Min({n, Len(s)}) = Len(s)
  BY <1>1 DEF Min
<1>3. SubSeq(s, 1, Len(s)) = s
  OBVIOUS
<1> QED
  BY <1>2, <1>3

\* The calls of a file in turn.
LEMMA CallsFolded ==
  ASSUME NEW g, NEW p, NEW q, q = [g |-> g, file |-> p.file],
         NEW calls, calls = SubSeq(p.calls, 1, Min({MaxCalls, Len(p.calls)}))
  PROVE  AddCalls(g, p, MaxCalls, limits) = AddCallFold!Fold(q, g, calls)
<1>1. AddCallFold!Fold(q, g, calls) = FoldLeft(LAMBDA acc, c : AddCall(acc, c, q.g, q.file, limits), g, calls)
  BY DEF AddCallFold!Fold, AddCallOp, FoldLeft, MapThenFoldSet, AddCallFold!IsFold, AddCallFold!Step, AddCallFold!Largest, Max
<1>2. AddCalls(g, p, MaxCalls, limits) = FoldLeft(LAMBDA acc, c : AddCall(acc, c, q.g, q.file, limits), g, calls)
  <2>1. q.g = g /\ q.file = p.file
    OBVIOUS
  <2> QED
    BY <2>1 DEF AddCalls
<1> QED
  BY <1>1, <1>2

\* The calls of a file.
LEMMA CallsGrow ==
  ASSUME InputsOk, NEW g, GraphOk(g), NEW p \in Parses, NEW h, h = AddCalls(g, p, MaxCalls, limits)
  PROVE  GraphOk(h) /\ Grows(g, h) /\ h.nodes = g.nodes /\ HasCalls(p, g, h)
<1>0. PICK S : S = ToSet(p.calls)
  OBVIOUS
<1>1. PICK all \in Seq(S) : all = p.calls
  BY <1>0, ParsesAre DEF IsParse
<1>2. PICK calls \in Seq(S) : calls = SubSeq(all, 1, Min({MaxCalls, Len(all)}))
  BY EngineAssumption, PrefixOf
<1>3. PICK q : q = [g |-> g, file |-> p.file]
  OBVIOUS
<1>4. PICK N \in Nat : DOMAIN calls = 1 .. N
  OBVIOUS
<1>5. PICK v : AddCallFold!Results(q, g, calls, v, N) /\ AddCallFold!Fold(q, g, calls) = v[N]
  <2>1. AddCallFold!Inductive
    BY InductionOverNat DEF AddCallFold!Inductive
  <2> QED
    BY <1>4, <2>1, AddCallFold!FoldSteps
<1>6. v[0] = g /\ \A n \in 1 .. N : v[n] = AddCall(v[n - 1], calls[n], g, p.file, limits)
  <2>1. q.g = g /\ q.file = p.file
    BY <1>3
  <2> QED
    BY <1>5, <2>1 DEF AddCallFold!Results, AddCallOp
<1> DEFINE Edge(n, source, target) == CallEdge(source, target) \in ToSet(v[n].edges) \/ NoEdgeLeft(v[n])
           M == {n \in Nat : n <= N =>
                  /\ GraphOk(v[n]) /\ Grows(g, v[n]) /\ v[n].nodes = g.nodes
                  /\ \A k \in 1 .. n : \A source, target :
                       Joins(calls[k], g, source, target) => Edge(n, source, target)}
<1>7. 0 \in M
  <2>1. v[0] = g /\ Grows(g, g)
    BY <1>6, GraphSizes
  <2> QED
    BY <2>1
<1>8. ASSUME NEW n \in Nat, n \in M PROVE n + 1 \in M
  <2> SUFFICES ASSUME n + 1 <= N
               PROVE  /\ GraphOk(v[n + 1]) /\ Grows(g, v[n + 1]) /\ v[n + 1].nodes = g.nodes
                      /\ \A k \in 1 .. n + 1 : \A source, target :
                           Joins(calls[k], g, source, target) => Edge(n + 1, source, target)
    OBVIOUS
  <2>1. n + 1 \in 1 .. N /\ (n + 1) - 1 = n /\ n <= N
    BY <1>4
  <2>2. /\ GraphOk(v[n]) /\ Grows(g, v[n]) /\ v[n].nodes = g.nodes
        /\ \A k \in 1 .. n : \A source, target :
             Joins(calls[k], g, source, target) => Edge(n, source, target)
    BY <1>8, <2>1
  <2> HIDE DEF M
  <2>3. PICK c : c = calls[n + 1]
    OBVIOUS
  <2>4. PICK acc, new : acc = v[n] /\ new = v[n + 1]
    OBVIOUS
  <2>5. new = AddCall(acc, c, g, p.file, limits)
    BY <1>6, <2>1, <2>3, <2>4
  <2>6. /\ GraphOk(new) /\ Grows(acc, new) /\ new.nodes = acc.nodes
        /\ Drawn(acc, c, g, p.file, new)
    <3> HIDE DEF Edge
    <3>1. GraphOk(acc)
      BY <2>2, <2>4
    <3>2. PICK file : file = p.file
      OBVIOUS
    <3>3. new = AddCall(acc, c, g, file, limits)
      BY <2>5, <3>2
    <3>4. GraphOk(new) /\ Grows(acc, new) /\ new.nodes = acc.nodes /\ Drawn(acc, c, g, file, new)
      BY <3>1, <3>3, CallGrows
    <3> QED
      BY <3>2, <3>4
  <2>7. Grows(g, new) /\ (NoEdgeLeft(acc) => NoEdgeLeft(new))
    <3> HIDE DEF Edge
    <3>1. GraphOk(acc) /\ GraphOk(new) /\ Grows(g, acc) /\ Grows(acc, new)
      BY <2>2, <2>4, <2>6
    <3>2. Grows(g, new)
      BY <3>1, GrowsOn
    <3>3. Grows(acc, acc)
      BY <3>1, GraphSizes
    <3>4. NoEdgeLeft(acc) => NoEdgeLeft(new)
      BY <3>1, <3>3, GrowsOn
    <3> QED
      BY <3>2, <3>4
  <2>8. ASSUME NEW k \in 1 .. n + 1, NEW source, NEW target, Joins(calls[k], g, source, target)
        PROVE  CallEdge(source, target) \in ToSet(new.edges) \/ NoEdgeLeft(new)
    <3>1. CASE k \in 1 .. n
      <4>1. CallEdge(source, target) \in ToSet(acc.edges) \/ NoEdgeLeft(acc)
        BY <2>2, <2>4, <2>8, <3>1
      <4>2. ToSet(acc.edges) \subseteq ToSet(new.edges)
        BY <2>6 DEF Grows
      <4> QED
        BY <2>7, <4>1, <4>2
    <3>2. CASE k = n + 1
      <4>1. Joins(c, g, source, target)
        BY <2>3, <2>8, <3>2
      <4>2. Has(acc, source) /\ Has(acc, target)
        BY <2>2, <2>4, <4>1 DEF Joins, Has
      <4>3. /\ c.caller # NoName /\ LookupSymbol(g, c.caller, p.file) = source
            /\ LookupSymbol(g, c.callee, p.file) = target
            /\ source # Null /\ target # Null /\ source # target
        BY <4>1, Zenon DEF Joins
      <4> QED
        BY <2>6, <4>2, <4>3, Zenon DEF Drawn
    <3>3. k \in 1 .. n \/ k = n + 1
      OBVIOUS
    <3> QED
      BY <3>1, <3>2, <3>3
  <2>9. new.nodes = g.nodes
    BY <2>2, <2>4, <2>6
  <2> QED
    BY <2>4, <2>6, <2>7, <2>8, <2>9
<1>9. Nat \subseteq M
  <2> HIDE DEF M
  <2> QED
    BY <1>7, <1>8, SetInduction
<1>10. /\ GraphOk(v[N]) /\ Grows(g, v[N]) /\ v[N].nodes = g.nodes
       /\ \A k \in 1 .. N : \A source, target :
            Joins(calls[k], g, source, target) => Edge(N, source, target)
  BY <1>9
<1>11. AddCalls(g, p, MaxCalls, limits) = AddCallFold!Fold(q, g, calls)
  <2>1. calls = SubSeq(p.calls, 1, Min({MaxCalls, Len(p.calls)}))
    BY <1>1, <1>2
  <2> QED
    BY <1>3, <2>1, CallsFolded
<1>13. h = v[N]
  BY <1>5, <1>11
<1>14. ASSUME Len(p.calls) <= MaxCalls, NEW source, NEW target,
              NEW c \in ToSet(p.calls), Joins(c, g, source, target)
       PROVE  CallEdge(source, target) \in ToSet(h.edges) \/ NoEdgeLeft(h)
  <2>1. calls = all
    BY <1>1, <1>2, <1>14, EngineAssumption, WholePrefix
  <2>2. PICK k \in 1 .. N : c = calls[k]
    BY <1>1, <1>4, <2>1 DEF ToSet
  <2> QED
    BY <1>10, <1>13, <1>14, <2>2
<1> HIDE DEF M
<1>15. HasCalls(p, g, h)
  BY <1>14 DEF HasCalls, Calling
<1> QED
  BY <1>10, <1>13, <1>15

\* What a call joins depends on the nodes alone.
LEMMA JoinsSame ==
  ASSUME NEW g, NEW h, h.nodes = g.nodes, NEW c, NEW source, NEW target, Joins(c, g, source, target)
  PROVE  Joins(c, h, source, target)
<1>1. Members(h) = Members(g)
  BY DEF Members, NodesOf
<1>2. \A name, file : LookupSymbol(h, name, file) = LookupSymbol(g, name, file)
  <2> TAKE name, file
  <2> QED
    BY <1>1, Zenon DEF LookupSymbol
<1>3. \A id : Has(h, id) <=> Has(g, id)
  BY DEF Has
<1> QED
  BY <1>2, <1>3, Zenon DEF Joins

\* The graph with the calls of all files, and with those of the first n.
WithCalls(g, ordered) == FoldLeft(LAMBDA h, p : AddCalls(h, p, MaxCalls, limits), g, ordered)
CallsGood(g, ordered, n, h) ==
  /\ GraphOk(h) /\ Grows(g, h) /\ h.nodes = g.nodes
  /\ \A k \in 1 .. n : HasCalls(ordered[k], g, h)

\* The calls of the next file: those of the files before it stay.
LEMMA CallsStep ==
  ASSUME InputsOk, NEW ordered \in Seq(Parses), NEW n \in DOMAIN ordered, NEW g, GraphOk(g),
         NEW acc, CallsGood(g, ordered, n - 1, acc), NEW new, new = AddCalls(acc, ordered[n], MaxCalls, limits)
  PROVE  CallsGood(g, ordered, n, new)
<1>1. PICK N \in Nat : DOMAIN ordered = 1 .. N
  OBVIOUS
<1>2. PICK p \in Parses : p = ordered[n]
  OBVIOUS
<1>3. GraphOk(acc) /\ Grows(g, acc) /\ acc.nodes = g.nodes
  BY DEF CallsGood
<1>4. GraphOk(new) /\ Grows(acc, new) /\ new.nodes = acc.nodes /\ HasCalls(p, acc, new)
  BY <1>2, <1>3, CallsGrow
<1>5. Grows(g, new) /\ new.nodes = g.nodes
  BY <1>3, <1>4, GrowsOn
<1>6. NoEdgeLeft(acc) => NoEdgeLeft(new)
  <2>1. Grows(acc, acc)
    BY <1>3, GraphSizes
  <2> QED
    BY <1>3, <1>4, <2>1, GrowsOn
<1>7. ToSet(acc.edges) \subseteq ToSet(new.edges)
  BY <1>4 DEF Grows
<1>8. ASSUME NEW k \in 1 .. n - 1 PROVE HasCalls(ordered[k], g, new)
  <2>1. HasCalls(ordered[k], g, acc)
    BY DEF CallsGood
  <2> QED
    BY <1>6, <1>7, <2>1 DEF HasCalls
<1>9. HasCalls(p, g, new)
  <2> SUFFICES ASSUME NEW source, NEW target, Calling(p, g, source, target)
               PROVE  CallEdge(source, target) \in ToSet(new.edges) \/ NoEdgeLeft(new)
    BY DEF HasCalls
  <2>1. PICK c \in ToSet(p.calls) : Joins(c, g, source, target)
    BY DEF Calling
  <2>2. Joins(c, acc, source, target)
    BY <1>3, <2>1, JoinsSame
  <2>3. Calling(p, acc, source, target)
    BY <2>2 DEF Calling
  <2> QED
    BY <1>4, <2>3 DEF HasCalls
<1>10. \A k \in 1 .. n : k \in 1 .. n - 1 \/ k = n
  BY <1>1
<1> QED
  BY <1>2, <1>4, <1>5, <1>8, <1>9, <1>10 DEF CallsGood

\* The calls of all files.
LEMMA AllCalls ==
  ASSUME InputsOk, NEW ordered \in Seq(Parses), NEW g, GraphOk(g), NEW w, w = WithCalls(g, ordered)
  PROVE  GraphOk(w) /\ Grows(g, w) /\ w.nodes = g.nodes /\ \A p \in ToSet(ordered) : HasCalls(p, g, w)
<1>1. PICK N \in Nat : DOMAIN ordered = 1 .. N
  OBVIOUS
<1>2. PICK v : CallsFold!Results(0, g, ordered, v, N) /\ CallsFold!Fold(0, g, ordered) = v[N]
  <2>1. CallsFold!Inductive
    BY InductionOverNat DEF CallsFold!Inductive
  <2> QED
    BY <1>1, <2>1, CallsFold!FoldSteps
<1>3. v[0] = g /\ \A n \in 1 .. N : v[n] = AddCalls(v[n - 1], ordered[n], MaxCalls, limits)
  BY <1>2 DEF CallsFold!Results, CallsOp
<1> DEFINE M == {n \in Nat : n <= N => CallsGood(g, ordered, n, v[n])}
<1>4. 0 \in M
  <2>1. v[0] = g /\ Grows(g, g)
    BY <1>3, GraphSizes
  <2> QED
    BY <2>1 DEF CallsGood
<1>5. ASSUME NEW n \in Nat, n \in M PROVE n + 1 \in M
  <2> SUFFICES ASSUME n + 1 <= N PROVE CallsGood(g, ordered, n + 1, v[n + 1])
    OBVIOUS
  <2>1. n + 1 \in 1 .. N /\ (n + 1) - 1 = n /\ n <= N
    BY <1>1
  <2>2. CallsGood(g, ordered, n, v[n])
    BY <1>5, <2>1
  <2> HIDE DEF M
  <2>3. PICK m \in DOMAIN ordered : m = n + 1 /\ m - 1 = n
    BY <1>1, <2>1
  <2>4. CallsGood(g, ordered, m - 1, v[n])
    BY <2>2, <2>3
  <2>5. v[m] = AddCalls(v[n], ordered[m], MaxCalls, limits)
    BY <1>3, <2>1, <2>3
  <2>6. CallsGood(g, ordered, m, v[m])
    BY <2>4, <2>5, CallsStep
  <2> QED
    BY <2>3, <2>6
<1>6. Nat \subseteq M
  <2> HIDE DEF M
  <2> QED
    BY <1>4, <1>5, SetInduction
<1>7. CallsGood(g, ordered, N, v[N])
  BY <1>6
<1>8. CallsFold!Fold(0, g, ordered) = WithCalls(g, ordered)
  BY DEF CallsFold!Fold, CallsOp, FoldLeft, MapThenFoldSet, CallsFold!IsFold, CallsFold!Step, CallsFold!Largest, Max, WithCalls
<1>9. w = v[N]
  BY <1>2, <1>8
<1>10. \A p \in ToSet(ordered) : \E k \in 1 .. N : ordered[k] = p
  BY <1>1 DEF ToSet
<1> HIDE DEF M
<1> QED
  BY <1>7, <1>9, <1>10 DEF CallsGood

\* A symbol has a name.
LEMMA NamedSymbols ==
  ASSUME InputsOk, NEW p \in Parses, NEW s \in ToSet(p.symbols)
  PROVE  s.name # "" /\ s \in Syms
<1>1. PICK f \in DOMAIN repo : p = Parse(f) /\ p.parsed
  BY DEF Parses
<1>2. p.symbols \in Seq(Syms)
  BY ParsesAre DEF IsParse
<1>3. PICK i \in DOMAIN p.symbols : s = p.symbols[i]
  BY DEF ToSet
<1>4. PICK lang, tree, max : lang = repo[f].lang /\ tree = repo[f].tree /\ max = limits.maxSymbolsPerFile
  OBVIOUS
<1>18. PICK at : at = Nodes(tree, LAMBDA n : IsSymbol(lang, tree, n))
  OBVIOUS
<1>5. p.symbols = [n \in 1 .. Min({Len(at), max}) |-> Symbol(f, lang, tree, at[n])]
  <2>1. p = ParseSourceFile(f, lang, tree, max) /\ p.parsed
    BY <1>1, <1>4 DEF Parse
  <2>2. ~(lang = "none" \/ tree = <<>>)
    BY <2>1 DEF ParseSourceFile, NoParse
  <2>3. PICK calls, imports :
          p = [parsed |-> TRUE, file |-> f,
               symbols |-> [n \in 1 .. Min({Len(at), max}) |-> Symbol(f, lang, tree, at[n])],
               imports |-> imports, calls |-> calls]
    BY <1>18, <2>1, <2>2, Zenon DEF ParseSourceFile
  <2> QED
    BY <2>3
<1>6. PICK w \in Nat : DOMAIN tree = 1 .. w
  <2>1. tree \in Seq(SyntaxNode)
    BY <1>4, FileTypes
  <2> QED
    BY <2>1
<1>7. PICK all \in Seq(1 .. w) : all = [n \in DOMAIN tree |-> n]
  <2>1. [n \in 1 .. w |-> n] \in [1 .. w -> 1 .. w]
    OBVIOUS
  <2>2. [n \in 1 .. w |-> n] \in Seq(1 .. w)
    BY <2>1
  <2> QED
    BY <1>6, <2>2
<1>8. PICK S : S = {n \in DOMAIN tree : IsSymbol(lang, tree, n)}
  OBVIOUS
<1>9. at = Kept(all, S)
  BY <1>7, <1>8, <1>18 DEF Nodes
<1>10. at \in Seq(1 .. w) /\ \A k \in DOMAIN at : at[k] \in S
  BY <1>9, KeptElements
<1>11. PICK m \in Nat : DOMAIN at = 1 .. m /\ Len(at) = m
  BY <1>10
<1>12. max \in Nat
  BY <1>4 DEF InputsOk, LimitNames
<1>13. Min({Len(at), max}) \in Nat /\ Min({Len(at), max}) <= m
  <2>1. PICK u \in Nat : u = max
    BY <1>12
  <2>2. Min({m, u}) \in {m, u} /\ Min({m, u}) <= m
    <3>1. \E x \in {m, u} : \A y \in {m, u} : x <= y
      <4>1. CASE m <= u
        BY <4>1
      <4>2. CASE u <= m
        BY <4>2
      <4> QED
        BY <4>1, <4>2
    <3> QED
      BY <3>1 DEF Min
  <2> QED
    BY <1>11, <2>1, <2>2
<1>14. i \in 1 .. m
  BY <1>3, <1>5, <1>13
<1>15. s.name = tree[at[i]].name
  BY <1>3, <1>5 DEF Symbol
<1>16. at[i] \in S
  BY <1>10, <1>11, <1>14
<1>17. s.name # ""
  BY <1>8, <1>15, <1>16 DEF IsSymbol
<1>19. s \in Syms
  <2>1. PICK symbols \in Seq(Syms) : symbols = p.symbols
    BY <1>2
  <2> QED
    BY <1>3, <2>1
<1> QED
  BY <1>17, <1>19

\* A call between two symbols that alone have their names is an edge, unless a
\* limit was met or a symbol left out for another of its id.
LEMMA CallEdgeThere ==
  ASSUME InputsOk, NEW parsed \in Seq(Parses), NEW resolved \in Seq(Imports),
         NEW g, g = BuildCodeGraph(parsed, resolved, MaxCalls, limits), ~NoNodeLeft(g), ~NoEdgeLeft(g),
         \A p \in ToSet(parsed) : Len(p.calls) <= MaxCalls /\ OnceIn(p),
         NEW all, all = UNION {ToSet(p.symbols) : p \in ToSet(parsed)},
         NEW s \in all, NEW r \in all, s # r,
         \A x \in all : (x.name = s.name => x = s) /\ (x.name = r.name => x = r),
         NEW p \in ToSet(parsed), NEW c \in ToSet(p.calls), c.caller.name = s.name, c.callee.name = r.name
  PROVE  CallEdge(Id(s), Id(r)) \in ToSet(g.edges)
<1>1. PICK ordered \in Seq(Parses) : ordered = Sorted(parsed, ByFile(parsed)) /\ ToSet(ordered) = ToSet(parsed)
  BY SortedFiles
<1>2. PICK w : w = WithSymbols(ordered)
  OBVIOUS
<1>3. PICK m : m = AddMembers(w, limits)
  OBVIOUS
<1>4. PICK linked : linked = AddImports(m, resolved, limits)
  OBVIOUS
<1>5. g = WithCalls(linked, ordered)
  BY <1>1, <1>2, <1>3, <1>4 DEF BuildCodeGraph, WithSymbols, WithCalls
<1>6. /\ GraphOk(w) /\ Known(w) \subseteq FileIds \cup UNION {IdsOf(q) : q \in ToSet(ordered)}
      /\ EachOnce(ordered) => NoNodeLeft(w) \/ \A q \in ToSet(ordered) : IdsOf(q) \subseteq Known(w)
  BY <1>2, AllSymbols
<1>7. GraphOk(m) /\ Grows(w, m) /\ Known(m) = Known(w) /\ (NoNodeLeft(w) => NoNodeLeft(m))
  BY <1>3, <1>6, MembersGrow
<1>8. /\ GraphOk(linked) /\ Grows(m, linked) /\ Known(linked) \subseteq Known(m) \cup FileIds
      /\ NoNodeLeft(m) => NoNodeLeft(linked)
  BY <1>4, <1>7, ImportsGrow
<1>9. /\ GraphOk(g) /\ Grows(linked, g) /\ g.nodes = linked.nodes
      /\ \A q \in ToSet(ordered) : HasCalls(q, linked, g)
  BY <1>5, <1>8, AllCalls
<1>10. NoNodeLeft(linked) => NoNodeLeft(g)
  <2>1. Grows(linked, linked)
    BY <1>8, GraphSizes
  <2> QED
    BY <1>8, <1>9, <2>1, GrowsOn
<1>11. ~NoNodeLeft(w)
  BY <1>7, <1>8, <1>10
<1>12. \A q \in ToSet(ordered) : IdsOf(q) \subseteq Known(w)
  BY <1>1, <1>6, <1>11 DEF EachOnce
<1>13. Known(w) \subseteq Known(linked)
  BY <1>7, <1>8 DEF Grows
<1>14. ToSet(parsed) \subseteq Parses
  BY DEF ToSet
<1>15. \A x \in all : x \in Syms /\ x.name # "" /\ Id(x) \in Known(linked) /\ Id(x).name = x.name
  <2> SUFFICES ASSUME NEW x \in all
               PROVE  x \in Syms /\ x.name # "" /\ Id(x) \in Known(linked) /\ Id(x).name = x.name
    OBVIOUS
  <2>1. PICK q \in ToSet(parsed) : x \in ToSet(q.symbols)
    OBVIOUS
  <2>2. x \in Syms /\ x.name # ""
    BY <1>14, <2>1, NamedSymbols
  <2>3. Id(x) \in IdsOf(q)
    BY <2>1 DEF IdsOf
  <2>4. Id(x).name = x.name
    BY DEF Id
  <2> QED
    BY <1>1, <1>12, <1>13, <2>1, <2>2, <2>3, <2>4
<1>16. \A id \in Known(linked) : id.kind # "file" => \E x \in all : id = Id(x)
  <2> SUFFICES ASSUME NEW id \in Known(linked), id.kind # "file" PROVE \E x \in all : id = Id(x)
    OBVIOUS
  <2>1. id \notin FileIds
    <3>1. \A f \in DOMAIN repo : FileId(f).kind = "file"
      BY DEF FileId
    <3> QED
      BY <3>1, Zenon DEF FileIds
  <2>2. id \in Known(w)
    BY <1>7, <1>8, <2>1
  <2>3. PICK q \in ToSet(ordered) : id \in IdsOf(q)
    BY <1>6, <2>1, <2>2
  <2>4. PICK x \in ToSet(q.symbols) : id = Id(x)
    BY <2>3 DEF IdsOf
  <2>5. x \in all
    BY <1>1, <2>3, <2>4
  <2> QED
    BY <2>4, <2>5
<1>17. ASSUME NEW x \in all, \A y \in all : y.name = x.name => y = x, NEW name, name.name = x.name, NEW file
       PROVE  LookupSymbol(linked, name, file) = Id(x)
  <2>1. PICK id \in Known(linked) : id = Id(x)
    BY <1>15
  <2>2. id.kind # "file" /\ id.name = name.name
    BY <1>15, <1>17, <2>1, NoFile
  <2>3. ASSUME NEW y \in Known(linked), y.kind # "file", y.name = name.name PROVE y = id
    <3>1. PICK z \in all : y = Id(z)
      BY <1>16, <2>3
    <3>2. z.name = x.name
      BY <1>15, <1>17, <2>3, <3>1
    <3> QED
      BY <1>17, <2>1, <3>1, <3>2
  <2>4. LookupSymbol(linked, name, file) = id
    BY <1>8, <2>2, <2>3, LookupSole
  <2> QED
    BY <2>1, <2>4
<1>18. Joins(c, linked, Id(s), Id(r))
  <2>1. \A file : LookupSymbol(linked, c.caller, file) = Id(s)
    BY <1>17
  <2>2. \A file : LookupSymbol(linked, c.callee, file) = Id(r)
    BY <1>17
  <2>3. Id(s) # Null /\ Id(r) # Null
    BY <1>15, NoFile DEF Null
  <2>4. Id(s) # Id(r)
    <3>1. Id(s).name = s.name /\ Id(r).name = r.name
      BY <1>15
    <3>2. s.name # r.name
      OBVIOUS
    <3> QED
      BY <3>1, <3>2
  <2>5. Has(linked, Id(s)) /\ Has(linked, Id(r))
    BY <1>15 DEF Known
  <2>6. c.caller # NoName
    <3>1. NoName.name = ""
      BY DEF NoName
    <3> QED
      BY <1>15, <3>1
  <2> QED
    BY <2>1, <2>2, <2>3, <2>4, <2>5, <2>6, Zenon DEF Joins
<1>19. Calling(p, linked, Id(s), Id(r))
  BY <1>18 DEF Calling
<1> QED
  BY <1>1, <1>9, <1>19 DEF HasCalls

-----------------------------------------------------------------------------
(* The callers of the changed symbols are shown.                           *)

\* Once the walk is over, graph and source are those of what was parsed.
IsShown ==
  /\ ctx.graph = BuildCodeGraph(AllParsed, ctx.resolved, MaxCalls, limits)
  /\ ctx.source = CollectRelevantContext(ctx.symbols, ctx.graph, ctx.dependencies,
                                         [f \in DOMAIN repo |-> SourceLines(f)], limits)
ShownInv ==
  /\ BudgetInv /\ CheckoutInv
  /\ build.ok => build.pc \in {"cleanup", "done", "failed"}
  /\ WalkIsOver => IsShown

\* At the start nothing is shown.
LEMMA ShownInit == Init => ShownInv
<1> SUFFICES ASSUME Init PROVE ShownInv
  OBVIOUS
<1>1. BudgetInv /\ CheckoutInv
  BY BudgetInit, CheckoutInit
<1>2. build.pc = "init" /\ ~build.ok
  BY DEF Init
<1> QED
  BY <1>1, <1>2 DEF ShownInv, At, WalkIsOver

\* A step that leaves the context alone.
LEMMA ShownSame ==
  ASSUME ShownInv, BudgetInv', CheckoutInv', UNCHANGED inputs, ctx' = ctx, WalkIsOver' => WalkIsOver,
         build'.ok => build'.pc \in {"cleanup", "done", "failed"}
  PROVE  ShownInv'
<1>1. repo' = repo /\ limits' = limits
  BY DEF inputs
<1>2. IsShown' = IsShown
  BY <1>1 DEF IsShown, AllParsed, SourceLines, LinesUpTo, Exists
<1> QED
  BY <1>2 DEF ShownInv

\* Graph and source are made of what was parsed.
LEMMA ShownRelate ==
  ASSUME ShownInv, BudgetInv', CheckoutInv', UNCHANGED inputs, Relate
  PROVE  ShownInv'
<1>1. ctx \in ContextTypes
  BY DEF ShownInv, BudgetInv, ContextOk
<1>2. repo' = repo /\ limits' = limits
  BY DEF inputs
<1>3. build.pc = "walk" /\ build'.pc = "history" /\ build'.ok = build.ok
  BY DEF Relate, At, Goto, ShownInv, CheckoutInv
<1>4. PICK graph : graph = BuildCodeGraph(AllParsed, ctx.resolved, MaxCalls, limits)
  OBVIOUS
<1>5. PICK source : source = CollectRelevantContext(ctx.symbols, graph, ctx.dependencies,
                                                     [f \in DOMAIN repo |-> SourceLines(f)], limits)
  OBVIOUS
<1>6. ctx' = [ctx EXCEPT !.graph = graph, !.source = source]
  BY <1>4, <1>5 DEF Relate
<1>7. /\ ctx'.graph = graph /\ ctx'.source = source /\ ctx'.resolved = ctx.resolved
      /\ ctx'.symbols = ctx.symbols /\ ctx'.dependencies = ctx.dependencies /\ ctx'.parsed = ctx.parsed
  BY <1>1, <1>6 DEF ContextTypes
<1>8. AllParsed' = AllParsed
  BY <1>7 DEF AllParsed
<1>9. [f \in DOMAIN repo |-> SourceLines(f)]' = [f \in DOMAIN repo |-> SourceLines(f)]
  BY <1>2 DEF SourceLines, LinesUpTo, Exists
<1>10. BuildCodeGraph(AllParsed, ctx.resolved, MaxCalls, limits)' = graph
  BY <1>2, <1>4, <1>7, <1>8
<1>11. IsShown'
  BY <1>2, <1>5, <1>7, <1>9, <1>10 DEF IsShown
<1> QED
  BY <1>3, <1>11 DEF ShownInv

\* Every step of the build.
LEMMA ShownNext ==
  ASSUME ShownInv, [Next]_vars
  PROVE  ShownInv'
<1>1. BudgetInv' /\ CheckoutInv'
  BY BudgetNext, CheckoutNext DEF ShownInv
<1>2. UNCHANGED inputs
  BY DEF Next, vars, inputs, MakeDirectory, Fetch, FetchRef, Checkout, RemoveCheckout, Diff, ParseChanged,
         WalkLevel, Relate, History, Finish
<1>3. DOMAIN build = {"pc", "ok", "dir"} /\ (build.ok => build.pc \in {"cleanup", "done", "failed"})
  BY DEF ShownInv, CheckoutInv
<1>4. CASE MakeDirectory \/ Fetch \/ FetchRef \/ Checkout \/ Diff \/ ParseChanged \/ WalkLevel
  <2>1. CASE MakeDirectory \/ Fetch \/ FetchRef \/ Checkout
    <3>1. ~build.ok /\ build'.ok = build.ok /\ build'.pc \notin {"history", "cleanup"}
      BY <1>3, <2>1 DEF MakeDirectory, Fetch, FetchRef, Checkout, At, Goto
    <3> QED
      BY <1>1, <3>1 DEF ShownInv, WalkIsOver, At
  <2>2. CASE Diff \/ ParseChanged \/ WalkLevel
    <3>1. ~build.ok /\ build'.ok = build.ok /\ build'.pc # "history"
      <4>1. CASE Diff \/ ParseChanged
        BY <1>3, <4>1 DEF Diff, ParseChanged, At, Goto
      <4>2. CASE WalkLevel
        BY <4>2, WalkOutcome DEF ShownInv
      <4> QED
        BY <2>2, <4>1, <4>2
    <3> QED
      BY <1>1, <3>1 DEF ShownInv, WalkIsOver, At
  <2> QED
    BY <1>4, <2>1, <2>2
<1>5. CASE Relate
  BY <1>1, <1>2, <1>5, ShownRelate
<1>6. CASE RemoveCheckout
  <2>1. ctx' = ctx /\ build'.pc \in {"done", "failed"}
    BY <1>3, <1>6 DEF RemoveCheckout
  <2> QED
    BY <1>1, <1>2, <2>1, ShownSame DEF At, WalkIsOver
<1>7. CASE History \/ UNCHANGED vars
  <2>1. ctx' = ctx /\ build' = build
    BY <1>7 DEF History, vars
  <2> QED
    BY <1>1, <1>2, <1>3, <2>1, ShownSame DEF At, WalkIsOver
<1>8. CASE Finish
  <2>1. ctx' = ctx /\ build.pc = "history" /\ build'.pc = "cleanup"
    BY <1>3, <1>8 DEF Finish, At
  <2> QED
    BY <1>1, <1>2, <2>1, ShownSame DEF At, WalkIsOver
<1> QED
  BY <1>4, <1>5, <1>6, <1>7, <1>8 DEF Next

\* What is parsed.
LEMMA AllParsedTypes ==
  ASSUME ctx \in ContextTypes
  PROVE  AllParsed \in Seq(Parses)
<1>1. PICK deps \in Seq(Deps) : deps = ctx.dependencies
  BY DEF ContextTypes
<1>2. PICK parsed \in Seq(Parses) : parsed = ctx.parsed
  BY DEF ContextTypes
<1> DEFINE read == [i \in DOMAIN deps |-> deps[i].parsed]
<1>3. read \in Seq(Parses)
  <2>1. PICK n \in Nat : DOMAIN deps = 1 .. n
    OBVIOUS
  <2>2. \A i \in 1 .. n : deps[i].parsed \in Parses
    <3> TAKE i \in 1 .. n
    <3>1. PICK d \in Deps : d = deps[i]
      BY <2>1
    <3> QED
      BY <3>1 DEF Deps
  <2>3. read \in [1 .. n -> Parses]
    BY <2>1, <2>2
  <2> HIDE DEF read
  <2> QED
    BY <2>3
<1>4. AllParsed = parsed \o read
  BY <1>1, <1>2 DEF AllParsed
<1> HIDE DEF read
<1> QED
  BY <1>3, <1>4, ConcatAt

\* The invariant is what is promised of the order and of the changed symbols.
LEMMA ShownFirst ==
  ASSUME ShownInv, Built
  PROVE  /\ InOrder /\ ChangedShown
         /\ \A c \in ToSet(Callers(ctx.graph, {Id(s) : s \in ToSet(ctx.symbols)}, limits)) :
              \/ \E t \in ToSet(ctx.source.symbols) : t.id = c /\ t.relevance \in {"changed", "caller"}
              \/ AllFull(ctx.source)
<1>1. InputsOk /\ ctx \in ContextTypes /\ IsShown
  BY DEF ShownInv, BudgetInv, ContextOk, Built, WalkIsOver
<1>2. PICK deps \in Seq(Deps) : deps = ctx.dependencies
  BY <1>1 DEF ContextTypes
<1>3. PICK changed \in Seq(Syms) : changed = ctx.symbols
  BY <1>1 DEF ContextTypes
<1>4. PICK resolved \in Seq(Imports) : resolved = ctx.resolved
  BY <1>1 DEF ContextTypes
<1>5. PICK g : g = ctx.graph
  OBVIOUS
<1>6. GraphOk(g)
  <2>1. PICK all \in Seq(Parses) : all = AllParsed
    BY <1>1, AllParsedTypes
  <2>2. g = BuildCodeGraph(all, resolved, MaxCalls, limits)
    BY <1>1, <1>4, <1>5, <2>1 DEF IsShown
  <2> QED
    BY <1>1, <2>2, BuildOk
<1>7. PICK lines \in [DOMAIN repo -> Nat] : lines = [f \in DOMAIN repo |-> SourceLines(f)]
  BY <1>1, LinesTypes
<1>8. PICK source : source = ctx.source
  OBVIOUS
<1>9. source = CollectRelevantContext(changed, g, deps, lines, limits)
  BY <1>1, <1>2, <1>3, <1>5, <1>7, <1>8 DEF IsShown
<1>10. PICK r : r = Ranked(changed, g, deps, limits)
  OBVIOUS
<1>11. r \in Seq(Cands) /\ Taken(r, Len(r), source)
  BY <1>1, <1>6, <1>9, <1>10, TakenAll
<1>12. PICK callers : callers = Callers(g, {Id(s) : s \in ToSet(changed)}, limits)
  OBVIOUS
<1>13. /\ \A s \in ToSet(changed) : \E k \in DOMAIN r : r[k].id = Id(s) /\ r[k].relevance = "changed"
       /\ \A c \in ToSet(callers) : \E k \in DOMAIN r : r[k].id = c /\ r[k].relevance \in {"changed", "caller"}
       /\ \A k \in DOMAIN r : r[k].relevance = "changed" => \E s \in ToSet(changed) : r[k].id = Id(s)
  BY <1>1, <1>6, <1>10, <1>12, RankedFacts
<1>14. PICK N \in Nat : N = Len(r) /\ DOMAIN r = 1 .. N
  BY <1>11
<1>15. PICK t : t = source.symbols
  OBVIOUS
<1>16. /\ t \in Seq(ShownSymbol) /\ source \in Sources /\ SourceFits(source)
       /\ \A i \in DOMAIN t : \E k \in 1 .. N : t[i].id = r[k].id /\ t[i].relevance = r[k].relevance
       /\ Placed(t) /\ Once(t)
       /\ \A k \in 1 .. N : InView(t, r[k]) \/ AllFull(source)
       /\ \A k \in 1 .. N : r[k].relevance = "changed" => InView(t, r[k]) \/ FirstFull(t)
  BY <1>11, <1>14, <1>15 DEF Taken, Sources
<1>17. PICK w \in Nat : DOMAIN t = 1 .. w /\ Len(t) = w
  BY <1>16
<1>18. InOrder
  <2> SUFFICES ASSUME NEW i \in 1 .. w, NEW j \in 1 .. w, i < j
               PROVE  Place(t[i].relevance) <= Place(t[j].relevance) /\ t[i].id # t[j].id
    BY <1>8, <1>15, <1>17 DEF InOrder
  <2>1. i # j
    OBVIOUS
  <2> QED
    BY <1>16, <1>17, <2>1 DEF Placed, Once
<1>19. {t[i].id : i \in First(t)} \subseteq {Id(s) : s \in ToSet(changed)}
  <2> SUFFICES ASSUME NEW i \in First(t) PROVE \E s \in ToSet(changed) : t[i].id = Id(s)
    OBVIOUS
  <2>1. i \in DOMAIN t /\ t[i].relevance = "changed"
    BY DEF First
  <2>2. PICK k \in 1 .. N : t[i].id = r[k].id /\ t[i].relevance = r[k].relevance
    BY <1>16, <2>1
  <2> QED
    BY <1>13, <1>14, <2>1, <2>2
<1>20. ASSUME ~FirstFull(t) PROVE {Id(s) : s \in ToSet(changed)} \subseteq {t[i].id : i \in First(t)}
  <2> SUFFICES ASSUME NEW s \in ToSet(changed) PROVE \E i \in First(t) : t[i].id = Id(s)
    OBVIOUS
  <2>1. PICK k \in 1 .. N : r[k].id = Id(s) /\ r[k].relevance = "changed"
    BY <1>13, <1>14
  <2>2. InView(t, r[k])
    BY <1>16, <1>20, <2>1
  <2>3. PICK i \in DOMAIN t : t[i].id = r[k].id /\ t[i].relevance = r[k].relevance
    BY <2>2 DEF InView
  <2> QED
    BY <2>1, <2>3 DEF First
<1>21. ASSUME FirstFull(t)
       PROVE  Cardinality(First(t)) = limits.maxRelevantSymbols
              \/ Cardinality(FilesOf(t, First(t))) = limits.maxRelevantFiles
  <2>1. /\ IsFiniteSet(First(t)) /\ IsFiniteSet(FilesOf(t, First(t)))
        /\ IsFiniteSet(DOMAIN t) /\ IsFiniteSet(FilesOf(t, DOMAIN t)) /\ First(t) \subseteq DOMAIN t
    <3>1. First(t) \subseteq DOMAIN t
      BY DEF First
    <3> QED
      BY <1>16, <3>1, FinitelyMany
  <2>2. /\ Cardinality(First(t)) <= Cardinality(DOMAIN t)
        /\ Cardinality(FilesOf(t, First(t))) <= Cardinality(FilesOf(t, DOMAIN t))
    <3>1. FilesOf(t, First(t)) \subseteq FilesOf(t, DOMAIN t)
      BY <2>1 DEF FilesOf
    <3> QED
      BY <2>1, <3>1, FS_Subset
  <2>3. Cardinality(DOMAIN t) = w
    BY <1>17, UpTo
  <2>4. w <= limits.maxRelevantSymbols /\ Cardinality(FilesOf(t, DOMAIN t)) <= limits.maxRelevantFiles
    <3>1. source.files = FilesOf(t, DOMAIN t)
      BY <1>11, <1>15 DEF Taken
    <3> QED
      BY <1>15, <1>16, <1>17, <3>1 DEF SourceFits
  <2>5. /\ Cardinality(First(t)) \in Nat /\ Cardinality(FilesOf(t, First(t))) \in Nat
        /\ Cardinality(FilesOf(t, DOMAIN t)) \in Nat
        /\ limits.maxRelevantSymbols \in Nat /\ limits.maxRelevantFiles \in Nat
    BY <1>1, <2>1, FS_CardinalityType DEF InputsOk, LimitNames
  <2> QED
    BY <1>17, <1>21, <2>2, <2>3, <2>4, <2>5 DEF FirstFull
<1>22. ChangedShown
  <2>1. \/ {Id(s) : s \in ToSet(changed)} = {t[i].id : i \in First(t)}
        \/ Cardinality(First(t)) = limits.maxRelevantSymbols
        \/ Cardinality(FilesOf(t, First(t))) = limits.maxRelevantFiles
    BY <1>19, <1>20, <1>21
  <2> QED
    BY <1>3, <1>8, <1>15, <2>1 DEF ChangedShown, First, FilesOf
<1>23. ASSUME NEW c \in ToSet(callers), ~AllFull(source)
       PROVE  \E x \in ToSet(t) : x.id = c /\ x.relevance \in {"changed", "caller"}
  <2>1. PICK k \in 1 .. N : r[k].id = c /\ r[k].relevance \in {"changed", "caller"}
    BY <1>13, <1>14
  <2>2. InView(t, r[k])
    BY <1>16, <1>23
  <2>3. PICK i \in DOMAIN t : t[i].id = r[k].id /\ t[i].relevance = r[k].relevance
    BY <2>2 DEF InView
  <2>4. t[i] \in ToSet(t)
    BY <2>3 DEF ToSet
  <2> QED
    BY <2>1, <2>3, <2>4
<1> QED
  BY <1>3, <1>5, <1>8, <1>12, <1>15, <1>18, <1>22, <1>23

\* While there is room, the callers of changed symbols are shown.
LEMMA ShownCallers ==
  ASSUME ShownInv, Built, Room,
         NEW s \in Symbols, NEW r \in Symbols, Id(r) \in {Id(x) : x \in ToSet(ctx.symbols)}, s # r,
         Sole(s), Sole(r), Calls(s, r)
  PROVE  \E t \in ToSet(ctx.source.symbols) : t.id = Id(s) /\ t.relevance \in {"changed", "caller"}
<1>1. InputsOk /\ ctx \in ContextTypes /\ IsShown
  BY DEF ShownInv, BudgetInv, ContextOk, Built, WalkIsOver
<1>2. PICK all \in Seq(Parses) : all = AllParsed
  BY <1>1, AllParsedTypes
<1>3. PICK resolved \in Seq(Imports) : resolved = ctx.resolved
  BY <1>1 DEF ContextTypes
<1>4. PICK g : g = ctx.graph
  OBVIOUS
<1>5. g = BuildCodeGraph(all, resolved, MaxCalls, limits)
  BY <1>1, <1>2, <1>3, <1>4 DEF IsShown
<1>6. GraphOk(g)
  BY <1>1, <1>5, BuildOk
<1>7. ~NoNodeLeft(g) /\ ~NoEdgeLeft(g)
  <2>1. Len(g.nodes) \in Nat /\ Len(g.edges) \in Nat /\ limits.maxNodes \in Nat /\ limits.maxEdges \in Nat
    BY <1>1, <1>6, GraphSizes
  <2> QED
    BY <1>4, <2>1 DEF Room, NoNodeLeft, NoEdgeLeft
<1>8. \A p \in ToSet(all) : Len(p.calls) <= MaxCalls /\ OnceIn(p)
  BY <1>2 DEF Room, OnceIn
<1>9. PICK S : S = Symbols
  OBVIOUS
<1>10. S = UNION {ToSet(p.symbols) : p \in ToSet(all)}
  BY <1>2, <1>9 DEF Symbols
<1>11. \A x \in S : (x.name = s.name => x = s) /\ (x.name = r.name => x = r)
  BY <1>9 DEF Sole
<1>12. PICK p \in ToSet(all) : \E c \in ToSet(p.calls) : c.caller.name = s.name /\ c.callee.name = r.name
  BY <1>2 DEF Calls
<1>13. CallEdge(Id(s), Id(r)) \in ToSet(g.edges)
  <2>1. s \in S /\ r \in S
    BY <1>9
  <2> HIDE DEF Symbols
  <2> QED
    BY <1>1, <1>5, <1>7, <1>8, <1>10, <1>11, <1>12, <2>1, CallEdgeThere
<1>14. PICK ids : ids = {Id(x) : x \in ToSet(ctx.symbols)}
  OBVIOUS
<1>15. Id(s) \in ToSet(Callers(g, ids, limits))
  <2>1. PICK e : e = CallEdge(Id(s), Id(r))
    OBVIOUS
  <2>2. e.type = "FUNCTION_CALLS_FUNCTION" /\ e.target = Id(r) /\ e.source = Id(s)
    BY <2>1 DEF CallEdge
  <2>3. e \in ToSet(g.edges) /\ e.target \in ids
    BY <1>13, <1>14, <2>1, <2>2
  <2> QED
    BY <1>6, <2>2, <2>3, CallersTypes
<1>16. ~AllFull(ctx.source)
  <2>1. ctx.source \in Sources
    BY <1>1 DEF ContextTypes
  <2>2. Len(ctx.source.symbols) \in Nat
    <3>1. PICK t \in Seq(ShownSymbol) : t = ctx.source.symbols
      BY <2>1 DEF Sources
    <3> QED
      BY <3>1
  <2>3. Cardinality(ctx.source.files) \in Nat
    <3>1. IsFiniteSet(DOMAIN repo)
      BY <1>1, InputFacts
    <3>2. IsFiniteSet(ctx.source.files)
      BY <2>1, <3>1, FS_Subset DEF Sources
    <3> QED
      BY <3>2, FS_CardinalityType
  <2>4. limits.maxRelevantSymbols \in Nat /\ limits.maxRelevantFiles \in Nat
    BY <1>1 DEF InputsOk, LimitNames
  <2> QED
    BY <2>2, <2>3, <2>4 DEF Room, AllFull
<1> QED
  BY <1>4, <1>14, <1>15, <1>16, ShownFirst

\* For every checkout, every limits and whatever fails: no symbol is shown twice;
\* changed symbols come first, then their callers, then dependencies; a changed
\* symbol is left out only when changed ones fill the limit of symbols or of files;
\* and while no limit was met, the caller of a changed symbol is shown, if the name
\* of neither is that of another symbol too.
THEOREM RelevantAlwaysFirst == Spec => []RelevantFirst
<1>1. ShownInv => RelevantFirst
  <2> SUFFICES ASSUME ShownInv, Built PROVE InOrder /\ ChangedShown /\ CallersShown
    BY DEF RelevantFirst
  <2> QED
    BY ShownFirst, ShownCallers, Zenon DEF CallersShown
<1>2. ShownInv /\ [Next]_vars => ShownInv'
  BY ShownNext
<1> QED
  BY <1>1, <1>2, ShownInit, PTL DEF Spec
====
