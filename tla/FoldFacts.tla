----------------------------- MODULE FoldFacts ------------------------------
(***************************************************************************)
(* Induction over a fold from the left.  Op takes the parameters of the    *)
(* fold, the result so far and the next element; Good says of the          *)
(* parameters, the number of elements folded and the result what holds.    *)
(***************************************************************************)
EXTENDS Naturals, Sequences

CONSTANTS Op(_, _, _), Good(_, _, _)

\* Induction over the naturals, a theorem of SequenceFacts.  The lemmas take it
\* as a hypothesis, so that this module, which is instantiated for every fold
\* the proofs reason about, extends no library.
Inductive == \A S : 0 \in S /\ (\A n \in Nat : n \in S => n + 1 \in S) => Nat \subseteq S

\* The result of a fold over the elements of s with an index in a set, by set.
Largest(I) == CHOOSE i \in I : \A j \in I : i >= j
Step(p, b, s, f, I) == IF I = {} THEN b ELSE Op(p, f[I \ {Largest(I)}], s[Largest(I)])
IsFold(p, b, s, f, D) == f = [I \in SUBSET D |-> Step(p, b, s, f, I)]

\* FoldLeft(LAMBDA a, x : Op(p, a, x), b, s), as FoldLeft is defined.
Fold(p, b, s) == (CHOOSE f : IsFold(p, b, s, f, DOMAIN s))[DOMAIN s]

LEMMA LargestIndex ==
  ASSUME NEW n \in Nat, NEW I, I \subseteq 1 .. n, n \in I
  PROVE  Largest(I) = n
<1>1. \A i \in I : i \in Nat /\ n >= i
  OBVIOUS
<1>2. \A x \in I : (\A y \in I : x >= y) => x = n
  BY <1>1
<1> QED
  BY <1>1, <1>2 DEF Largest

LEMMA FoldExists ==
  ASSUME Inductive, NEW p, NEW b, NEW s, NEW N \in Nat
  PROVE  \E f : IsFold(p, b, s, f, 1 .. N)
<1> DEFINE M == {m \in Nat : \E f : IsFold(p, b, s, f, 1 .. m)}
<1>1. 0 \in M
  <2> DEFINE f == [I \in SUBSET {} |-> b]
  <2>1. SUBSET (1 .. 0) = SUBSET {} /\ \A I \in SUBSET {} : I = {}
    OBVIOUS
  <2>2. \A I \in SUBSET {} : Step(p, b, s, f, I) = b
    BY <2>1 DEF Step
  <2>3. IsFold(p, b, s, f, 1 .. 0)
    BY <2>1, <2>2 DEF IsFold
  <2> QED
    BY <2>3
<1>2. ASSUME NEW m \in Nat, m \in M PROVE m + 1 \in M
  <2>1. PICK f : IsFold(p, b, s, f, 1 .. m)
    BY <1>2
  <2> DEFINE g == [I \in SUBSET (1 .. m + 1) |->
                     IF m + 1 \in I THEN Op(p, f[I \ {m + 1}], s[m + 1]) ELSE f[I]]
  <2>2. ASSUME NEW I \in SUBSET (1 .. m + 1) PROVE g[I] = Step(p, b, s, g, I)
    <3>1. CASE m + 1 \in I
      <4>1. Largest(I) = m + 1 /\ I # {}
        <5>1. m + 1 \in Nat /\ I \subseteq 1 .. m + 1
          OBVIOUS
        <5> HIDE DEF M
        <5> QED
          BY <3>1, <5>1, LargestIndex
      <4>2. I \ {m + 1} \in SUBSET (1 .. m + 1) /\ m + 1 \notin I \ {m + 1}
        OBVIOUS
      <4>3. g[I \ {m + 1}] = f[I \ {m + 1}]
        BY <4>2
      <4> HIDE DEF g
      <4>4. g[I] = Op(p, f[I \ {m + 1}], s[m + 1])
        BY <3>1 DEF g
      <4> QED
        BY <4>1, <4>3, <4>4 DEF Step
    <3>2. CASE m + 1 \notin I
      <4>1. I \in SUBSET (1 .. m)
        BY <3>2
      <4>2. g[I] = f[I]
        BY <3>2
      <4>3. f[I] = Step(p, b, s, f, I)
        BY <2>1, <4>1 DEF IsFold
      <4>4. I \ {Largest(I)} \in SUBSET (1 .. m + 1) /\ m + 1 \notin I \ {Largest(I)}
        BY <3>2
      <4>5. g[I \ {Largest(I)}] = f[I \ {Largest(I)}]
        BY <4>4
      <4> HIDE DEF g
      <4> QED
        BY <4>2, <4>3, <4>5 DEF Step
    <3> QED
      BY <3>1, <3>2
  <2>3. g = [I \in SUBSET (1 .. m + 1) |-> g[I]]
    OBVIOUS
  <2>4. IsFold(p, b, s, g, 1 .. m + 1)
    <3> HIDE DEF g
    <3>1. [I \in SUBSET (1 .. m + 1) |-> g[I]] = [I \in SUBSET (1 .. m + 1) |-> Step(p, b, s, g, I)]
      BY <2>2
    <3> QED
      BY <2>3, <3>1 DEF IsFold
  <2> HIDE DEF g
  <2>5. m + 1 \in Nat
    OBVIOUS
  <2> QED
    BY <2>4, <2>5
<1>3. Nat \subseteq M
  <2> HIDE DEF M
  <2> QED
    BY <1>1, <1>2, Inductive DEF Inductive
<1> QED
  BY <1>3

\* What holds of the base, and is kept by every element, holds of the fold.
THEOREM FoldKeeps ==
  ASSUME Inductive, NEW p, NEW b, NEW s, NEW N \in Nat, DOMAIN s = 1 .. N,
         Good(p, 0, b),
         \A n \in 1 .. N : \A a : Good(p, n - 1, a) => Good(p, n, Op(p, a, s[n]))
  PROVE  Good(p, N, Fold(p, b, s))
<1> DEFINE f == CHOOSE g : IsFold(p, b, s, g, 1 .. N)
<1>1. IsFold(p, b, s, f, 1 .. N)
  BY FoldExists
<1>2. Fold(p, b, s) = f[1 .. N]
  BY DEF Fold
<1> HIDE DEF f
<1> DEFINE M == {m \in Nat : m <= N => Good(p, m, f[1 .. m])}
<1>3. 0 \in M
  <2>1. 1 .. 0 = {} /\ {} \in SUBSET (1 .. N)
    OBVIOUS
  <2>2. f[{}] = b
    BY <1>1, <2>1 DEF IsFold, Step
  <2> QED
    BY <2>1, <2>2
<1>4. ASSUME NEW m \in Nat, m \in M PROVE m + 1 \in M
  <2> SUFFICES ASSUME m + 1 <= N PROVE Good(p, m + 1, f[1 .. m + 1])
    OBVIOUS
  <2>1. m + 1 \in 1 .. N /\ (m + 1) - 1 = m /\ m <= N
    OBVIOUS
  <2>2. Good(p, m, f[1 .. m])
    BY <1>4, <2>1
  <2>3. Good(p, m + 1, Op(p, f[1 .. m], s[m + 1]))
    BY <2>1, <2>2
  <2>4. 1 .. m + 1 \in SUBSET (1 .. N) /\ 1 .. m + 1 # {} /\ m + 1 \in 1 .. m + 1
    OBVIOUS
  <2>5. Largest(1 .. m + 1) = m + 1
    BY <2>4, LargestIndex
  <2>6. (1 .. m + 1) \ {m + 1} = 1 .. m
    OBVIOUS
  <2>7. f[1 .. m + 1] = Step(p, b, s, f, 1 .. m + 1)
    BY <1>1, <2>4 DEF IsFold
  <2>8. f[1 .. m + 1] = Op(p, f[1 .. m], s[m + 1])
    BY <2>4, <2>5, <2>6, <2>7 DEF Step
  <2> QED
    BY <2>3, <2>8
<1>5. Nat \subseteq M
  <2> HIDE DEF M
  <2> QED
    BY <1>3, <1>4, Inductive DEF Inductive
<1> QED
  BY <1>2, <1>5
\* v has the results so far, one after another.
Results(p, b, s, v, N) == v[0] = b /\ \A n \in 1 .. N : v[n] = Op(p, v[n - 1], s[n])

LEMMA FoldSteps ==
  ASSUME Inductive, NEW p, NEW b, NEW s, NEW N \in Nat, DOMAIN s = 1 .. N
  PROVE  \E v : Results(p, b, s, v, N) /\ Fold(p, b, s) = v[N]
<1> DEFINE f == CHOOSE g : IsFold(p, b, s, g, 1 .. N)
           v == [n \in 0 .. N |-> f[1 .. n]]
<1>1. IsFold(p, b, s, f, 1 .. N)
  BY FoldExists
<1>2. Fold(p, b, s) = f[1 .. N]
  BY DEF Fold
<1> HIDE DEF f
<1>3. v[0] = b
  <2>1. 1 .. 0 = {} /\ {} \in SUBSET (1 .. N) /\ 0 \in 0 .. N
    OBVIOUS
  <2>2. f[{}] = b
    BY <1>1, <2>1 DEF IsFold, Step
  <2> QED
    BY <2>1, <2>2
<1>4. ASSUME NEW n \in 1 .. N PROVE v[n] = Op(p, v[n - 1], s[n])
  <2>1. 1 .. n \in SUBSET (1 .. N) /\ 1 .. n # {} /\ n \in 1 .. n /\ n \in Nat
    <3> HIDE DEF v
    <3>1. n \in Nat /\ 1 <= n /\ n <= N
      OBVIOUS
    <3> QED
      BY <3>1
  <2>2. Largest(1 .. n) = n
    BY <2>1, LargestIndex
  <2>3. (1 .. n) \ {n} = 1 .. n - 1
    OBVIOUS
  <2>4. f[1 .. n] = Step(p, b, s, f, 1 .. n)
    BY <1>1, <2>1 DEF IsFold
  <2>5. f[1 .. n] = Op(p, f[1 .. n - 1], s[n])
    BY <2>1, <2>2, <2>3, <2>4 DEF Step
  <2>6. n \in 0 .. N /\ n - 1 \in 0 .. N
    OBVIOUS
  <2> QED
    BY <2>5, <2>6
<1>5. v[N] = f[1 .. N]
  OBVIOUS
<1> HIDE DEF v
<1> QED
  BY <1>2, <1>3, <1>4, <1>5 DEF Results

\* One element more at the end is one step more.
LEMMA FoldAppend ==
  ASSUME Inductive, NEW p, NEW b, NEW X, NEW s \in Seq(X), NEW x \in X
  PROVE  Fold(p, b, Append(s, x)) = Op(p, Fold(p, b, s), x)
<1>1. PICK t : t = Append(s, x)
  OBVIOUS
<1>2. PICK N \in Nat : N = Len(s) /\ DOMAIN s = 1 .. N
  OBVIOUS
<1>3. /\ DOMAIN t = 1 .. N + 1 /\ t[N + 1] = x /\ \A i \in 1 .. N : t[i] = s[i]
  BY <1>1, <1>2
<1>4. PICK v : Results(p, b, s, v, N) /\ Fold(p, b, s) = v[N]
  BY <1>2, FoldSteps
<1>5. PICK w : Results(p, b, t, w, N + 1) /\ Fold(p, b, t) = w[N + 1]
  <2>1. N + 1 \in Nat
    OBVIOUS
  <2> QED
    BY <1>3, <2>1, FoldSteps
<1> DEFINE M == {n \in Nat : n <= N => v[n] = w[n]}
<1>6. 0 \in M
  BY <1>4, <1>5 DEF Results
<1>7. ASSUME NEW n \in Nat, n \in M PROVE n + 1 \in M
  <2> SUFFICES ASSUME n + 1 <= N PROVE v[n + 1] = w[n + 1]
    OBVIOUS
  <2>1. n + 1 \in 1 .. N /\ n + 1 \in 1 .. N + 1 /\ (n + 1) - 1 = n /\ v[n] = w[n]
    BY <1>7
  <2>2. v[n + 1] = Op(p, v[n], s[n + 1]) /\ w[n + 1] = Op(p, w[n], t[n + 1])
    BY <1>4, <1>5, <2>1 DEF Results
  <2> QED
    BY <1>3, <2>1, <2>2
<1>8. Nat \subseteq M
  <2> HIDE DEF M
  <2> QED
    BY <1>6, <1>7, Inductive DEF Inductive
<1>9. v[N] = w[N]
  BY <1>8
<1>10. N + 1 \in 1 .. N + 1 /\ (N + 1) - 1 = N
  OBVIOUS
<1>11. w[N + 1] = Op(p, w[N], x)
  BY <1>3, <1>5, <1>10 DEF Results
<1> QED
  BY <1>1, <1>4, <1>5, <1>9, <1>11

\* Nothing to fold.
LEMMA FoldNothing ==
  ASSUME Inductive, NEW p, NEW b, NEW s, DOMAIN s = {}
  PROVE  Fold(p, b, s) = b
<1>1. 0 \in Nat /\ DOMAIN s = 1 .. 0
  OBVIOUS
<1> QED
  BY <1>1, FoldSteps DEF Results
=============================================================================
