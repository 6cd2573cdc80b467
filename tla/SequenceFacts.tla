---------------------------- MODULE SequenceFacts ---------------------------
(***************************************************************************)
(* What the helpers on sequences keep, for sequences of any length.        *)
(***************************************************************************)
EXTENDS Arrays, SequencesExt, WellFoundedInduction, FiniteSetTheorems, TLAPS

\* Induction over the naturals, with the set of those the claim holds of.
LEMMA LeastNat ==
  ASSUME NEW T, T \subseteq Nat, T # {}
  PROVE  \E m \in T : \A n \in T : m <= n
<1>1. PICK m \in T : \A n \in T : ~ (<<n, m>> \in OpToRel(<, Nat))
  BY NatLessThanWellFounded, WFMin
<1>2. \A n \in T : ~ (n < m)
  BY <1>1 DEF OpToRel
<1> QED
  BY <1>2

LEMMA SetInduction ==
  ASSUME NEW S, 0 \in S, \A n \in Nat : n \in S => n + 1 \in S
  PROVE  Nat \subseteq S
<1> SUFFICES ASSUME Nat \ S # {} PROVE FALSE
  OBVIOUS
<1>1. PICK m \in Nat \ S : \A n \in Nat \ S : m <= n
  BY LeastNat
<1>2. m # 0 /\ m - 1 \in Nat /\ m - 1 \notin Nat \ S
  BY <1>1
<1>3. m - 1 \in S /\ (m - 1) + 1 = m
  BY <1>2
<1> QED
  BY <1>2, <1>3

\* Induction over the naturals, as FoldFacts takes it.
LEMMA InductionOverNat ==
  \A S : 0 \in S /\ (\A n \in Nat : n \in S => n + 1 \in S) => Nat \subseteq S
BY SetInduction

\* One more element.
Longer(t, x, S) == IF x \in S THEN Append(t, x) ELSE t

LEMMA KeptExists ==
  ASSUME NEW s, NEW S, NEW N \in Nat
  PROVE  \E f : f = [n \in 0 .. N |-> IF n = 0 THEN <<>> ELSE Longer(f[n - 1], s[n], S)]
<1> DEFINE Is(f, m) == f = [n \in 0 .. m |-> IF n = 0 THEN <<>> ELSE Longer(f[n - 1], s[n], S)]
           M == {m \in Nat : \E f : Is(f, m)}
<1>1. 0 \in M
  <2>1. Is([n \in 0 .. 0 |-> <<>>], 0)
    OBVIOUS
  <2> QED
    BY <2>1
<1>2. ASSUME NEW m \in Nat, m \in M PROVE m + 1 \in M
  <2>1. PICK f : Is(f, m)
    BY <1>2
  <2> DEFINE g == [n \in 0 .. m + 1 |-> IF n = m + 1 THEN Longer(f[m], s[m + 1], S) ELSE f[n]]
  <2>2. ASSUME NEW n \in 0 .. m + 1
        PROVE  g[n] = IF n = 0 THEN <<>> ELSE Longer(g[n - 1], s[n], S)
    <3>1. CASE n = m + 1
      <4>1. n - 1 = m /\ n - 1 \in 0 .. m + 1 /\ n # 0 /\ n - 1 # m + 1
        BY <3>1
      <4> QED
        BY <3>1, <4>1
    <3>2. CASE n # m + 1 /\ n # 0
      <4>1. n \in 0 .. m /\ n - 1 \in 0 .. m + 1 /\ n - 1 # m + 1
        BY <3>2
      <4>2. f[n] = Longer(f[n - 1], s[n], S)
        BY <2>1, <3>2, <4>1
      <4> QED
        BY <3>2, <4>1, <4>2
    <3>3. CASE n = 0
      <4>1. n # m + 1 /\ n \in 0 .. m
        BY <3>3
      <4> QED
        BY <2>1, <3>3, <4>1
    <3> QED
      BY <3>1, <3>2, <3>3
  <2>3. g = [n \in 0 .. m + 1 |-> g[n]]
    OBVIOUS
  <2> HIDE DEF g
  <2>4. Is(g, m + 1)
    BY <2>2, <2>3, Zenon
  <2> QED
    BY <2>4
<1> HIDE DEF M
<1>3. N \in M
  BY <1>1, <1>2, SetInduction
<1> QED
  BY <1>3 DEF M

LEMMA KeptFunction ==
  ASSUME NEW s, NEW S, Len(s) \in Nat
  PROVE  \E f : /\ f[0] = <<>> /\ Kept(s, S) = f[Len(s)]
                /\ \A n \in 1 .. Len(s) : f[n] = Longer(f[n - 1], s[n], S)
<1> DEFINE F == CHOOSE f : f = [n \in 0 .. Len(s) |-> IF n = 0 THEN <<>> ELSE Longer(f[n - 1], s[n], S)]
<1>1. Kept(s, S) = F[Len(s)]
  BY DEF Kept, Longer
<1>2. F = [n \in 0 .. Len(s) |-> IF n = 0 THEN <<>> ELSE Longer(F[n - 1], s[n], S)]
  BY KeptExists
<1> HIDE DEF F
<1>3. F[0] = <<>> /\ \A n \in 1 .. Len(s) : F[n] = Longer(F[n - 1], s[n], S)
  BY <1>2
<1> QED
  BY <1>1, <1>3

\* h takes the places of t to those, among the first n of s, whose elements are in S.
Embeds(h, t, s, n, S) ==
  /\ h \in [1 .. Len(t) -> 1 .. n]
  /\ \A k \in 1 .. Len(t) : t[k] = s[h[k]] /\ s[h[k]] \in S
  /\ \A j, k \in 1 .. Len(t) : j < k => h[j] < h[k]
  /\ \A i \in 1 .. n : s[i] \in S => \E k \in 1 .. Len(t) : h[k] = i

LEMMA EmbedsLonger ==
  ASSUME NEW X, NEW s \in Seq(X), NEW S, NEW t \in Seq(X), NEW n \in Nat, n + 1 \in 1 .. Len(s),
         NEW h, Embeds(h, t, s, n, S)
  PROVE  LET u == Longer(t, s[n + 1], S) IN u \in Seq(X) /\ \E g : Embeds(g, u, s, n + 1, S)
<1>0. Len(t) \in Nat /\ s[n + 1] \in X
  OBVIOUS
<1>1. CASE s[n + 1] \in S
  <2> DEFINE u == Append(t, s[n + 1])
             g == [k \in 1 .. Len(t) + 1 |-> IF k = Len(t) + 1 THEN n + 1 ELSE h[k]]
  <2>1. /\ u \in Seq(X) /\ Len(u) = Len(t) + 1 /\ u[Len(t) + 1] = s[n + 1]
        /\ \A k \in 1 .. Len(t) : u[k] = t[k]
    BY <1>0
  <2>2. \A k \in 1 .. Len(t) : k \in 1 .. Len(t) + 1 /\ k # Len(t) + 1
    BY <1>0
  <2>3. \A k \in 1 .. Len(t) : g[k] = h[k] /\ h[k] \in 1 .. n
    BY <2>2 DEF Embeds
  <2>4. g[Len(t) + 1] = n + 1 /\ Len(t) + 1 \in 1 .. Len(t) + 1
    BY <1>0
  <2>5. \A k \in 1 .. Len(t) + 1 : k = Len(t) + 1 \/ k \in 1 .. Len(t)
    BY <1>0
  <2>6. g \in [1 .. Len(u) -> 1 .. n + 1]
    <3>1. ASSUME NEW k \in 1 .. Len(t) + 1
          PROVE  (IF k = Len(t) + 1 THEN n + 1 ELSE h[k]) \in 1 .. n + 1
      <4>1. CASE k = Len(t) + 1
        BY <4>1
      <4>2. CASE k # Len(t) + 1
        <5>1. h[k] \in 1 .. n
          BY <2>3, <2>5, <4>2
        <5> QED
          BY <4>2, <5>1
      <4> QED
        BY <4>1, <4>2
    <3> QED
      BY <2>1, <3>1
  <2> HIDE DEF g, u
  <2>7. \A k \in 1 .. Len(u) : u[k] = s[g[k]] /\ s[g[k]] \in S
    BY <1>1, <2>1, <2>3, <2>4, <2>5 DEF Embeds
  <2>8. ASSUME NEW j \in 1 .. Len(u), NEW k \in 1 .. Len(u), j < k PROVE g[j] < g[k]
    <3>1. j \in 1 .. Len(t)
      BY <1>0, <2>1, <2>8
    <3>2. CASE k \in 1 .. Len(t)
      BY <2>3, <2>8, <3>1, <3>2 DEF Embeds
    <3>3. CASE k = Len(t) + 1
      BY <2>3, <2>4, <3>1, <3>3
    <3> QED
      BY <2>1, <2>5, <3>2, <3>3
  <2>9. ASSUME NEW i \in 1 .. n + 1, s[i] \in S PROVE \E k \in 1 .. Len(u) : g[k] = i
    <3>1. CASE i = n + 1
      BY <2>1, <2>4, <3>1
    <3>2. CASE i # n + 1
      <4>0. i \in 1 .. n
        BY <3>2
      <4>1. PICK k \in 1 .. Len(t) : h[k] = i
        BY <2>9, <4>0 DEF Embeds
      <4> QED
        BY <2>1, <2>2, <2>3, <4>1
    <3> QED
      BY <3>1, <3>2
  <2>10. Embeds(g, u, s, n + 1, S)
    BY <2>6, <2>7, <2>8, <2>9 DEF Embeds
  <2> QED
    BY <1>1, <2>1, <2>10 DEF Longer, u
<1>2. CASE s[n + 1] \notin S
  <2>1. h \in [1 .. Len(t) -> 1 .. n + 1]
    <3>1. \A k \in 1 .. Len(t) : h[k] \in 1 .. n + 1
      BY DEF Embeds
    <3> QED
      BY <3>1 DEF Embeds
  <2>2. \A i \in 1 .. n + 1 : i = n + 1 \/ i \in 1 .. n
    OBVIOUS
  <2>3. Embeds(h, t, s, n + 1, S)
    BY <1>2, <2>1, <2>2 DEF Embeds
  <2> QED
    BY <1>2, <2>3 DEF Longer
<1> QED
  BY <1>1, <1>2

\* Kept(s, S) has the elements of s in S, all of them and in their order.
LEMMA KeptFacts ==
  ASSUME NEW X, NEW s \in Seq(X), NEW S
  PROVE  Kept(s, S) \in Seq(X) /\ \E h : Embeds(h, Kept(s, S), s, Len(s), S)
<1>0. Len(s) \in Nat
  OBVIOUS
<1>1. PICK f : /\ f[0] = <<>> /\ Kept(s, S) = f[Len(s)]
               /\ \A n \in 1 .. Len(s) : f[n] = Longer(f[n - 1], s[n], S)
  BY <1>0, KeptFunction
<1> DEFINE M == {n \in Nat : n \in 0 .. Len(s) => f[n] \in Seq(X) /\ \E h : Embeds(h, f[n], s, n, S)}
<1>2. 0 \in M
  <2>1. f[0] \in Seq(X) /\ Len(f[0]) = 0
    BY <1>1
  <2>2. \A h : h = [k \in 1 .. 0 |-> 1] => Embeds(h, f[0], s, 0, S)
    BY <2>1 DEF Embeds
  <2>3. \E h : Embeds(h, f[0], s, 0, S)
    BY <2>2
  <2> QED
    BY <2>1, <2>3
<1>3. ASSUME NEW n \in Nat, n \in M PROVE n + 1 \in M
  <2> SUFFICES ASSUME n + 1 \in 0 .. Len(s)
               PROVE  f[n + 1] \in Seq(X) /\ \E h : Embeds(h, f[n + 1], s, n + 1, S)
    OBVIOUS
  <2>1. n \in 0 .. Len(s) /\ n + 1 \in 1 .. Len(s) /\ (n + 1) - 1 = n
    BY <1>0
  <2>2. f[n] \in Seq(X) /\ \E h : Embeds(h, f[n], s, n, S)
    BY <1>3, <2>1
  <2>3. f[n + 1] = Longer(f[n], s[n + 1], S)
    BY <1>1, <2>1
  <2> QED
    BY <2>1, <2>2, <2>3, EmbedsLonger
<1> HIDE DEF M
<1>4. Len(s) \in M
  BY <1>0, <1>2, <1>3, SetInduction
<1>5. Len(s) \in 0 .. Len(s)
  BY <1>0
<1> QED
  BY <1>1, <1>4, <1>5 DEF M

\* The same, without the places.
LEMMA KeptElements ==
  ASSUME NEW X, NEW s \in Seq(X), NEW S
  PROVE  /\ Kept(s, S) \in Seq(X)
         /\ \A k \in DOMAIN Kept(s, S) : Kept(s, S)[k] \in S /\ \E i \in DOMAIN s : s[i] = Kept(s, S)[k]
         /\ \A i \in DOMAIN s : s[i] \in S => \E k \in DOMAIN Kept(s, S) : Kept(s, S)[k] = s[i]
<1> DEFINE t == Kept(s, S)
<1>1. t \in Seq(X) /\ \E h : Embeds(h, t, s, Len(s), S)
  BY KeptFacts
<1>2. PICK h : Embeds(h, t, s, Len(s), S)
  BY <1>1
<1> HIDE DEF t
<1>3. DOMAIN t = 1 .. Len(t) /\ DOMAIN s = 1 .. Len(s)
  BY <1>1
<1>4. ASSUME NEW k \in DOMAIN t PROVE t[k] \in S /\ \E i \in DOMAIN s : s[i] = t[k]
  BY <1>2, <1>3 DEF Embeds
<1>5. ASSUME NEW i \in DOMAIN s, s[i] \in S PROVE \E k \in DOMAIN t : t[k] = s[i]
  BY <1>2, <1>3, <1>5 DEF Embeds
<1> QED
  BY <1>1, <1>4, <1>5 DEF t

-----------------------------------------------------------------------------
(* Sequences of sequences, one after the other.                            *)

LEMMA ConcatElements ==
  ASSUME NEW X, NEW s \in Seq(X), NEW t \in Seq(X)
  PROVE  s \o t \in Seq(X) /\ ToSet(s) \subseteq ToSet(s \o t) /\ ToSet(t) \subseteq ToSet(s \o t)
<1>1. /\ s \o t \in Seq(X) /\ Len(s) \in Nat /\ Len(t) \in Nat
      /\ DOMAIN s = 1 .. Len(s) /\ DOMAIN t = 1 .. Len(t) /\ DOMAIN (s \o t) = 1 .. Len(s) + Len(t)
  OBVIOUS
<1>2. ASSUME NEW i \in 1 .. Len(s) PROVE i \in DOMAIN (s \o t) /\ (s \o t)[i] = s[i]
  BY <1>1
<1>3. ASSUME NEW i \in 1 .. Len(t)
      PROVE  Len(s) + i \in DOMAIN (s \o t) /\ (s \o t)[Len(s) + i] = t[i]
  BY <1>1
<1> QED
  BY <1>1, <1>2, <1>3 DEF ToSet

LEMMA FlattenExists ==
  ASSUME NEW ss, NEW N \in Nat
  PROVE  \E f : f = [n \in 1 .. N |-> IF n = 1 THEN ss[n] ELSE f[n - 1] \o ss[n]]
<1> DEFINE Is(f, m) == f = [n \in 1 .. m |-> IF n = 1 THEN ss[n] ELSE f[n - 1] \o ss[n]]
           M == {m \in Nat : \E f : Is(f, m)}
<1>1. 0 \in M
  <2>1. \A n : n \notin 1 .. 0
    OBVIOUS
  <2>2. Is([n \in 1 .. 0 |-> <<>>], 0)
    BY <2>1
  <2> QED
    BY <2>2
<1>2. ASSUME NEW m \in Nat, m \in M PROVE m + 1 \in M
  <2>1. PICK f : Is(f, m)
    BY <1>2
  <2> DEFINE g == [n \in 1 .. m + 1 |->
                     IF n = m + 1 THEN IF m = 0 THEN ss[1] ELSE f[m] \o ss[m + 1] ELSE f[n]]
  <2>2. ASSUME NEW n \in 1 .. m + 1
        PROVE  g[n] = IF n = 1 THEN ss[n] ELSE g[n - 1] \o ss[n]
    <3>1. CASE n = m + 1 /\ m = 0
      BY <3>1
    <3>2. CASE n = m + 1 /\ m # 0
      <4>1. n - 1 = m /\ n - 1 \in 1 .. m + 1 /\ n # 1 /\ n - 1 # m + 1
        BY <3>2
      <4> QED
        BY <3>2, <4>1
    <3>3. CASE n # m + 1
      <4>1. n \in 1 .. m
        BY <3>3
      <4>2. f[n] = IF n = 1 THEN ss[n] ELSE f[n - 1] \o ss[n]
        BY <2>1, <4>1, Zenon
      <4>3. n # 1 => n - 1 \in 1 .. m + 1 /\ n - 1 # m + 1
        BY <3>3
      <4> QED
        BY <3>3, <4>2, <4>3
    <3> QED
      BY <3>1, <3>2, <3>3
  <2>3. g = [n \in 1 .. m + 1 |-> g[n]]
    OBVIOUS
  <2> HIDE DEF g
  <2>4. Is(g, m + 1)
    BY <2>2, <2>3, Zenon
  <2>5. m + 1 \in Nat
    OBVIOUS
  <2> QED
    BY <2>4, <2>5, Zenon
<1> HIDE DEF M
<1>3. N \in M
  BY <1>1, <1>2, SetInduction
<1> QED
  BY <1>3 DEF M

LEMMA FlattenElements ==
  ASSUME NEW X, NEW ss \in Seq(Seq(X))
  PROVE  /\ FlattenSeq(ss) \in Seq(X)
         /\ \A i \in DOMAIN ss : ToSet(ss[i]) \subseteq ToSet(FlattenSeq(ss))
<1>0. Len(ss) \in Nat /\ DOMAIN ss = 1 .. Len(ss) /\ \A i \in 1 .. Len(ss) : ss[i] \in Seq(X)
  OBVIOUS
<1>1. CASE Len(ss) = 0
  <2>1. FlattenSeq(ss) = ss /\ ss = <<>> /\ DOMAIN ss = {}
    BY <1>1 DEF FlattenSeq
  <2>2. <<>> \in Seq(X)
    OBVIOUS
  <2> QED
    BY <2>1, <2>2
<1>2. CASE Len(ss) # 0
  <2> DEFINE F == CHOOSE f : f = [n \in 1 .. Len(ss) |-> IF n = 1 THEN ss[n] ELSE f[n - 1] \o ss[n]]
  <2>1. FlattenSeq(ss) = F[Len(ss)]
    BY <1>2 DEF FlattenSeq
  <2>2. F = [n \in 1 .. Len(ss) |-> IF n = 1 THEN ss[n] ELSE F[n - 1] \o ss[n]]
    BY <1>0, FlattenExists
  <2> HIDE DEF F
  <2> DEFINE M == {n \in Nat : n + 1 \in 1 .. Len(ss) =>
                     /\ F[n + 1] \in Seq(X)
                     /\ \A i \in 1 .. n + 1 : ToSet(ss[i]) \subseteq ToSet(F[n + 1])}
  <2>3. 0 \in M
    <3>1. 1 \in 1 .. Len(ss) => F[1] = ss[1]
      BY <2>2
    <3>2. \A i \in 1 .. 0 + 1 : i = 1
      OBVIOUS
    <3>3. 0 + 1 = 1
      OBVIOUS
    <3>4. 0 + 1 \in 1 .. Len(ss) => /\ F[0 + 1] \in Seq(X)
                                    /\ \A i \in 1 .. 0 + 1 : ToSet(ss[i]) \subseteq ToSet(F[0 + 1])
      BY <1>0, <3>1, <3>2, <3>3, Zenon
    <3> QED
      BY <3>4
  <2>4. ASSUME NEW n \in Nat, n \in M PROVE n + 1 \in M
    <3> SUFFICES ASSUME (n + 1) + 1 \in 1 .. Len(ss)
                 PROVE  /\ F[(n + 1) + 1] \in Seq(X)
                        /\ \A i \in 1 .. (n + 1) + 1 : ToSet(ss[i]) \subseteq ToSet(F[(n + 1) + 1])
      OBVIOUS
    <3> DEFINE m == (n + 1) + 1
    <3>1. n + 1 \in 1 .. Len(ss) /\ m # 1 /\ m - 1 = n + 1 /\ \A i \in 1 .. m : i = m \/ i \in 1 .. n + 1
      BY <1>0
    <3>2. F[n + 1] \in Seq(X) /\ \A i \in 1 .. n + 1 : ToSet(ss[i]) \subseteq ToSet(F[n + 1])
      BY <2>4, <3>1
    <3>3. F[m] = F[n + 1] \o ss[m] /\ ss[m] \in Seq(X)
      BY <1>0, <2>2, <3>1
    <3> HIDE DEF m
    <3>4. F[m] \in Seq(X) /\ ToSet(F[n + 1]) \subseteq ToSet(F[m]) /\ ToSet(ss[m]) \subseteq ToSet(F[m])
      BY <3>2, <3>3, ConcatElements
    <3>5. \A i \in 1 .. m : ToSet(ss[i]) \subseteq ToSet(F[m])
      BY <3>1, <3>2, <3>4
    <3> QED
      BY <3>4, <3>5 DEF m
  <2> HIDE DEF M
  <2>5. Len(ss) - 1 \in Nat /\ (Len(ss) - 1) + 1 = Len(ss) /\ Len(ss) \in 1 .. Len(ss)
    BY <1>0, <1>2
  <2>6. Len(ss) - 1 \in M
    BY <2>3, <2>4, <2>5, SetInduction
  <2> QED
    BY <1>0, <2>1, <2>5, <2>6 DEF M
<1> QED
  BY <1>1, <1>2

-----------------------------------------------------------------------------
(* Two filters of one sequence.                                            *)

\* A narrower filter keeps no more, and as many only if it keeps the same.
LEMMA KeptFewer ==
  ASSUME NEW X, NEW s \in Seq(X), NEW S, NEW T, \A i \in DOMAIN s : s[i] \in S => s[i] \in T
  PROVE  /\ Len(Kept(s, S)) <= Len(Kept(s, T))
         /\ Len(Kept(s, S)) = Len(Kept(s, T)) => \A i \in DOMAIN s : s[i] \in T => s[i] \in S
<1>0. Len(s) \in Nat /\ DOMAIN s = 1 .. Len(s) /\ \A i \in 1 .. Len(s) : s[i] \in X
  OBVIOUS
<1>1. PICK f : /\ f[0] = <<>> /\ Kept(s, S) = f[Len(s)]
               /\ \A n \in 1 .. Len(s) : f[n] = Longer(f[n - 1], s[n], S)
  BY <1>0, KeptFunction
<1>2. PICK g : /\ g[0] = <<>> /\ Kept(s, T) = g[Len(s)]
               /\ \A n \in 1 .. Len(s) : g[n] = Longer(g[n - 1], s[n], T)
  BY <1>0, KeptFunction
<1> DEFINE Fewer(n) == /\ f[n] \in Seq(X) /\ g[n] \in Seq(X)
                       /\ Len(f[n]) <= Len(g[n])
                       /\ Len(f[n]) = Len(g[n]) => \A i \in 1 .. n : s[i] \in T => s[i] \in S
           M == {n \in Nat : n \in 0 .. Len(s) => Fewer(n)}
<1>3. 0 \in M
  <2>1. f[0] \in Seq(X) /\ g[0] \in Seq(X) /\ f[0] = g[0]
    BY <1>1, <1>2
  <2>2. Len(f[0]) <= Len(g[0])
    BY <2>1
  <2>3. \A i : i \notin 1 .. 0
    OBVIOUS
  <2> QED
    BY <2>1, <2>2, <2>3
<1>4. ASSUME NEW n \in Nat, n \in M PROVE n + 1 \in M
  <2> SUFFICES ASSUME n + 1 \in 0 .. Len(s) PROVE Fewer(n + 1)
    OBVIOUS
  <2>1. n \in 0 .. Len(s) /\ n + 1 \in 1 .. Len(s) /\ (n + 1) - 1 = n
    BY <1>0
  <2>2. Fewer(n)
    BY <1>4, <2>1
  <2> DEFINE x == s[n + 1]
             m == n + 1
  <2>3. f[m] = Longer(f[n], x, S) /\ g[m] = Longer(g[n], x, T) /\ x \in X /\ (x \in S => x \in T)
    BY <1>0, <1>1, <1>2, <2>1
  <2>4. /\ Append(f[n], x) \in Seq(X) /\ Len(Append(f[n], x)) = Len(f[n]) + 1
        /\ Append(g[n], x) \in Seq(X) /\ Len(Append(g[n], x)) = Len(g[n]) + 1
        /\ Len(f[n]) \in Nat /\ Len(g[n]) \in Nat
    BY <2>2, <2>3
  <2>5. \A i \in 1 .. m : i = m \/ i \in 1 .. n
    BY <2>1
  <2> HIDE DEF x
  <2>6. CASE x \in S
    BY <2>2, <2>3, <2>4, <2>5, <2>6 DEF Longer, x
  <2>7. CASE x \notin S /\ x \in T
    BY <2>2, <2>3, <2>4, <2>5, <2>7 DEF Longer, x
  <2>8. CASE x \notin T
    BY <2>2, <2>3, <2>4, <2>5, <2>8 DEF Longer, x
  <2> QED
    BY <2>6, <2>7, <2>8
<1> HIDE DEF M
<1>5. Len(s) \in M
  BY <1>0, <1>3, <1>4, SetInduction
<1>6. Len(s) \in 0 .. Len(s)
  BY <1>0
<1> QED
  BY <1>0, <1>1, <1>2, <1>5, <1>6 DEF M

-----------------------------------------------------------------------------
(* One element more, in the middle.                                        *)

LEMMA ConcatAt ==
  ASSUME NEW X, NEW s \in Seq(X), NEW t \in Seq(X)
  PROVE  /\ s \o t \in Seq(X) /\ Len(s \o t) = Len(s) + Len(t)
         /\ Len(s) \in Nat /\ Len(t) \in Nat
         /\ \A i \in 1 .. Len(s) : (s \o t)[i] = s[i]
         /\ \A i \in 1 .. Len(t) : (s \o t)[Len(s) + i] = t[i]
OBVIOUS

LEMMA InsertBetween ==
  ASSUME NEW S, NEW a \in Seq(S), NEW x \in S, NEW c \in Seq(S)
  PROVE  /\ a \o <<x>> \o c \in Seq(S) /\ Len(a \o <<x>> \o c) = Len(a) + 1 + Len(c)
         /\ Len(a) \in Nat /\ Len(c) \in Nat
         /\ \A i \in 1 .. Len(a) : (a \o <<x>> \o c)[i] = a[i]
         /\ (a \o <<x>> \o c)[Len(a) + 1] = x
         /\ \A i \in 1 .. Len(c) : (a \o <<x>> \o c)[Len(a) + 1 + i] = c[i]
<1>1. <<x>> \in Seq(S) /\ Len(<<x>>) = 1 /\ <<x>>[1] = x
  OBVIOUS
<1>2. PICK b \in Seq(S) : b = a \o <<x>>
  BY <1>1, ConcatAt
<1>3. /\ Len(b) = Len(a) + 1 /\ Len(a) \in Nat /\ b[Len(a) + 1] = x
      /\ \A i \in 1 .. Len(a) : b[i] = a[i]
  <2>1. 1 \in 1 .. Len(<<x>>)
    BY <1>1
  <2> QED
    BY <1>1, <1>2, <2>1, ConcatAt
<1>4. PICK d \in Seq(S) : d = b \o c
  BY ConcatAt
<1>5. /\ Len(d) = Len(a) + 1 + Len(c) /\ Len(c) \in Nat
      /\ \A i \in 1 .. Len(a) + 1 : d[i] = b[i]
      /\ \A i \in 1 .. Len(c) : d[Len(a) + 1 + i] = c[i]
  <2>1. /\ Len(b \o c) = Len(b) + Len(c) /\ Len(c) \in Nat
        /\ \A i \in 1 .. Len(b) : (b \o c)[i] = b[i]
        /\ \A i \in 1 .. Len(c) : (b \o c)[Len(b) + i] = c[i]
    BY ConcatAt
  <2> QED
    BY <1>3, <1>4, <2>1
<1>6. d = a \o <<x>> \o c
  BY <1>2, <1>4
<1>7. d[Len(a) + 1] = x /\ \A i \in 1 .. Len(a) : d[i] = a[i]
  BY <1>3, <1>5
<1> QED
  BY <1>3, <1>5, <1>6, <1>7

\* Where InsertAt puts the elements.
LEMMA InsertElements ==
  ASSUME NEW S, NEW t \in Seq(S), NEW k \in 1 .. Len(t) + 1, NEW x \in S
  PROVE  /\ InsertAt(t, k, x) \in Seq(S) /\ Len(InsertAt(t, k, x)) = Len(t) + 1
         /\ \A i \in 1 .. Len(t) + 1 :
              InsertAt(t, k, x)[i] = IF i < k THEN t[i] ELSE IF i = k THEN x ELSE t[i - 1]
<1>0. SubSeq(t, 1, k - 1) \in Seq(S) /\ SubSeq(t, k, Len(t)) \in Seq(S)
  OBVIOUS
<1>1. PICK a \in Seq(S) : a = SubSeq(t, 1, k - 1)
  BY <1>0
<1>2. PICK c \in Seq(S) : c = SubSeq(t, k, Len(t))
  BY <1>0
<1>3. Len(a) = k - 1 /\ \A i \in 1 .. k - 1 : a[i] = t[i]
  BY <1>1
<1>4. Len(c) = Len(t) - k + 1 /\ \A i \in 1 .. Len(t) - k + 1 : c[i] = t[k + i - 1]
  BY <1>2
<1>5. PICK u \in Seq(S) : u = a \o <<x>> \o c
  BY InsertBetween
<1>6. u = InsertAt(t, k, x)
  BY <1>1, <1>2, <1>5 DEF InsertAt
<1>7. /\ Len(u) = Len(t) + 1 /\ \A i \in 1 .. k - 1 : u[i] = t[i]
      /\ u[k] = x
      /\ \A i \in 1 .. Len(c) : u[k + i] = c[i]
  <2>1. /\ Len(u) = Len(a) + 1 + Len(c) /\ u[Len(a) + 1] = x
        /\ \A i \in 1 .. Len(a) : u[i] = a[i]
        /\ \A i \in 1 .. Len(c) : u[Len(a) + 1 + i] = c[i]
    BY <1>5, InsertBetween
  <2>2. Len(a) + 1 = k /\ Len(a) = k - 1
    BY <1>3
  <2> QED
    BY <1>3, <1>4, <2>1, <2>2
<1>8. ASSUME NEW i \in 1 .. Len(t) + 1, i > k PROVE u[i] = t[i - 1]
  <2>1. i - k \in 1 .. Len(c) /\ k + (i - k) = i /\ k + (i - k) - 1 = i - 1
    BY <1>4, <1>8
  <2> QED
    BY <1>4, <1>7, <2>1
<1>9. \A i \in 1 .. Len(t) + 1 : u[i] = IF i < k THEN t[i] ELSE IF i = k THEN x ELSE t[i - 1]
  BY <1>7, <1>8
<1> QED
  BY <1>6, <1>7, <1>9

\* The first n naturals.
LEMMA UpTo ==
  ASSUME NEW n \in Nat
  PROVE  IsFiniteSet(1 .. n) /\ Cardinality(1 .. n) = n
<1>1. 1 \in Int /\ n \in Int /\ (IF 1 > n THEN 0 ELSE n - 1 + 1) = n
  OBVIOUS
<1>2. IsFiniteSet(1 .. n) /\ Cardinality(1 .. n) = IF 1 > n THEN 0 ELSE n - 1 + 1
  BY <1>1, FS_Interval
<1> QED
  BY <1>1, <1>2

\* What is kept of a sequence is no longer than it.
LEMMA KeptNoLonger ==
  ASSUME NEW X, NEW s \in Seq(X), NEW S
  PROVE  Kept(s, S) \in Seq(X) /\ Len(Kept(s, S)) <= Len(s)
<1>1. PICK h : Embeds(h, Kept(s, S), s, Len(s), S)
  BY KeptFacts
<1>2. Kept(s, S) \in Seq(X) /\ Len(s) \in Nat
  BY KeptFacts
<1>3. PICK n \in Nat : n = Len(Kept(s, S))
  BY <1>2
<1>4. h \in [1 .. n -> 1 .. Len(s)] /\ \A i, j \in 1 .. n : i < j => h[i] < h[j]
  BY <1>1, <1>3 DEF Embeds
<1>5. \A i, j \in 1 .. n : h[i] = h[j] => i = j
  <2> SUFFICES ASSUME NEW i \in 1 .. n, NEW j \in 1 .. n, h[i] = h[j] PROVE i = j
    OBVIOUS
  <2>1. h[i] \in 1 .. Len(s) /\ h[j] \in 1 .. Len(s)
    BY <1>4
  <2>2. ~(i < j) /\ ~(j < i)
    BY <1>4, <2>1
  <2> QED
    BY <2>2
<1>6. h \in Injection(1 .. n, 1 .. Len(s))
  BY <1>4, <1>5 DEF Injection, IsInjective
<1>7. /\ IsFiniteSet(1 .. Len(s)) /\ Cardinality(1 .. Len(s)) = Len(s)
      /\ Cardinality(1 .. n) = n
  BY <1>2, UpTo
<1> QED
  BY <1>2, <1>3, <1>6, <1>7, FS_Injection

\* Of the indices of a sequence, those of some elements.
LEMMA Indices ==
  ASSUME NEW S, NEW s \in Seq(S), NEW X
  PROVE  /\ Kept([n \in DOMAIN s |-> n], X) \in Seq(DOMAIN s)
         /\ Len(Kept([n \in DOMAIN s |-> n], X)) \in Nat
<1>1. [n \in DOMAIN s |-> n] \in Seq(DOMAIN s)
  OBVIOUS
<1>2. PICK at \in Seq(DOMAIN s) : at = [n \in DOMAIN s |-> n]
  BY <1>1
<1>3. Kept(at, X) \in Seq(DOMAIN s)
  BY KeptNoLonger
<1>4. PICK k \in Seq(DOMAIN s) : k = Kept(at, X)
  BY <1>3
<1> QED
  BY <1>2, <1>4

\* The first n elements, however many there are.
LEMMA PrefixOf ==
  ASSUME NEW S, NEW s \in Seq(S), NEW n \in Nat
  PROVE  /\ SubSeq(s, 1, Min({n, Len(s)})) \in Seq(S) /\ Len(SubSeq(s, 1, Min({n, Len(s)}))) <= n
         /\ SubSeq(s, 1, Min({Len(s), n})) \in Seq(S) /\ Len(SubSeq(s, 1, Min({Len(s), n}))) <= n
<1>1. Min({n, Len(s)}) = IF n <= Len(s) THEN n ELSE Len(s)
  BY DEF Min
<1>2. Min({Len(s), n}) = IF n <= Len(s) THEN n ELSE Len(s)
  BY DEF Min
<1>3. PICK m : m = IF n <= Len(s) THEN n ELSE Len(s)
  OBVIOUS
<1>4. m \in Nat /\ m <= n /\ m <= Len(s)
  BY <1>3
<1>5. SubSeq(s, 1, m) \in Seq(S) /\ Len(SubSeq(s, 1, m)) = m
  BY <1>4
<1> QED
  BY <1>1, <1>2, <1>3, <1>4, <1>5

\* The first element and the others.
LEMMA TailTypes ==
  ASSUME NEW S, NEW s \in Seq(S), s # <<>>
  PROVE  /\ Tail(s) \in Seq(S) /\ Head(s) \in S /\ Head(s) = s[1] /\ 1 \in DOMAIN s
         /\ \A i \in DOMAIN Tail(s) : i + 1 \in DOMAIN s /\ i + 1 # 1 /\ Tail(s)[i] = s[i + 1]
         /\ \A i, j \in DOMAIN Tail(s) : i + 1 = j + 1 => i = j
OBVIOUS

\* A function on the first n naturals is a sequence of its own values.
LEMMA SequenceOf ==
  ASSUME NEW n \in Nat, NEW s, s = [i \in 1 .. n |-> s[i]]
  PROVE  Len(s) = n /\ s \in Seq(ToSet(s)) /\ DOMAIN s = 1 .. n
<1>1. DOMAIN s = 1 .. n
  OBVIOUS
<1>2. s \in [1 .. n -> ToSet(s)]
  BY <1>1 DEF ToSet
<1> QED
  BY <1>1, <1>2

\* One sequence alone.
LEMMA FlattenOne ==
  ASSUME NEW ss, Len(ss) = 1
  PROVE  FlattenSeq(ss) = ss[1]
<1> DEFINE F == CHOOSE f : f = [n \in 1 .. Len(ss) |-> IF n = 1 THEN ss[n] ELSE f[n - 1] \o ss[n]]
<1>1. FlattenSeq(ss) = F[1]
  BY DEF FlattenSeq
<1>2. F = [n \in 1 .. Len(ss) |-> IF n = 1 THEN ss[n] ELSE F[n - 1] \o ss[n]]
  BY FlattenExists
<1> HIDE DEF F
<1>3. 1 \in 1 .. Len(ss)
  OBVIOUS
<1> QED
  BY <1>1, <1>2, <1>3

\* Two elements.
LEMMA PairElements ==
  ASSUME NEW X, NEW a \in X, NEW b \in X
  PROVE  <<a>> \o <<b>> \in Seq(X) /\ ToSet(<<a>> \o <<b>>) = {a, b}
<1>0. <<a>> \in Seq(X) /\ <<b>> \in Seq(X)
  OBVIOUS
<1>1. PICK s \in Seq(X), t \in Seq(X) : s = <<a>> /\ t = <<b>>
  BY <1>0
<1>5. Len(s) = 1 /\ Len(t) = 1 /\ s[1] = a /\ t[1] = b
  BY <1>1
<1>2. PICK w \in Seq(X) : w = s \o t
  BY ConcatAt
<1>3. Len(w) = 2 /\ w[1] = a /\ w[2] = b /\ DOMAIN w = 1 .. 2
  <2>1. Len(w) = Len(s) + Len(t) /\ w[1] = s[1] /\ w[Len(s) + 1] = t[1]
    <3>1. 1 \in 1 .. Len(s) /\ 1 \in 1 .. Len(t)
      BY <1>5
    <3> QED
      BY <1>2, <3>1, ConcatAt
  <2> QED
    BY <1>5, <2>1
<1>4. \A i \in 1 .. 2 : i = 1 \/ i = 2
  OBVIOUS
<1>6. ToSet(w) = {a, b}
  BY <1>3, <1>4 DEF ToSet
<1> QED
  BY <1>1, <1>2, <1>6

\* One element more.
LEMMA AppendElements ==
  ASSUME NEW X, NEW s \in Seq(X), NEW x \in X
  PROVE  /\ Append(s, x) \in Seq(X) /\ Len(Append(s, x)) = Len(s) + 1
         /\ ToSet(Append(s, x)) = ToSet(s) \cup {x}
<1>0. Append(s, x) \in Seq(X)
  OBVIOUS
<1>1. PICK t \in Seq(X) : t = Append(s, x)
  BY <1>0
<1>2. /\ Len(t) = Len(s) + 1 /\ DOMAIN t = 1 .. Len(s) + 1 /\ t[Len(s) + 1] = x
      /\ DOMAIN s = 1 .. Len(s) /\ Len(s) \in Nat /\ \A i \in 1 .. Len(s) : t[i] = s[i]
  BY <1>1
<1>3. ToSet(t) \subseteq ToSet(s) \cup {x}
  BY <1>2 DEF ToSet
<1>4. x \in ToSet(t)
  <2>1. Len(s) + 1 \in DOMAIN t
    BY <1>2
  <2> QED
    BY <1>2, <2>1 DEF ToSet
<1>5. ToSet(s) \subseteq ToSet(t)
  <2>1. \A i \in DOMAIN s : i \in DOMAIN t /\ t[i] = s[i]
    BY <1>2
  <2> QED
    BY <2>1 DEF ToSet
<1> QED
  BY <1>1, <1>2, <1>3, <1>4, <1>5

\* The elements of sequences put together are those of each of them.
LEMMA FlattenUnion ==
  ASSUME NEW X, NEW ss \in Seq(Seq(X)), NEW Y, Y = UNION {ToSet(ss[i]) : i \in DOMAIN ss}
  PROVE  FlattenSeq(ss) \in Seq(X) /\ ToSet(FlattenSeq(ss)) = Y
<1>1. \A i \in DOMAIN ss : ss[i] \in Seq(Y)
  <2> TAKE i \in DOMAIN ss
  <2>1. PICK s \in Seq(X) : s = ss[i]
    OBVIOUS
  <2>2. \A j \in 1 .. Len(s) : s[j] \in Y
    BY <2>1 DEF ToSet
  <2>3. PICK n \in Nat : n = Len(s) /\ s = [j \in 1 .. n |-> s[j]]
    OBVIOUS
  <2>4. s \in [1 .. n -> Y]
    BY <2>2, <2>3
  <2>5. s \in Seq(Y)
    BY <2>4
  <2> QED
    BY <2>1, <2>5
<1>2. PICK n \in Nat : DOMAIN ss = 1 .. n
  OBVIOUS
<1>3. ss \in Seq(Seq(Y))
  <2>1. ss \in [1 .. n -> Seq(Y)]
    BY <1>1, <1>2
  <2> QED
    BY <2>1
<1>4. PICK all \in Seq(Y) : all = FlattenSeq(ss) /\ \A i \in DOMAIN ss : ToSet(ss[i]) \subseteq ToSet(all)
  BY <1>3, FlattenElements
<1>5. ToSet(all) \subseteq Y
  BY DEF ToSet
<1>6. Y \subseteq ToSet(all)
  BY <1>4
<1>7. FlattenSeq(ss) \in Seq(X)
  BY FlattenElements
<1> QED
  BY <1>4, <1>5, <1>6, <1>7

\* One element more, at the end.
LEMMA KeptAppend ==
  ASSUME NEW X, NEW s \in Seq(X), NEW x \in X, NEW S
  PROVE  Kept(Append(s, x), S) = Longer(Kept(s, S), x, S)
<1>1. PICK t : t = Append(s, x)
  OBVIOUS
<1>2. PICK N \in Nat : N = Len(s)
  OBVIOUS
<1>3. Len(t) = N + 1 /\ t[N + 1] = x /\ \A i \in 1 .. N : t[i] = s[i]
  BY <1>1, <1>2
<1>4. PICK v : /\ v[0] = <<>> /\ Kept(s, S) = v[N]
               /\ \A n \in 1 .. N : v[n] = Longer(v[n - 1], s[n], S)
  <2>1. \E v : /\ v[0] = <<>> /\ Kept(s, S) = v[Len(s)]
               /\ \A n \in 1 .. Len(s) : v[n] = Longer(v[n - 1], s[n], S)
    BY <1>2, KeptFunction
  <2> QED
    BY <1>2, <2>1
<1>5. PICK w : /\ w[0] = <<>> /\ Kept(t, S) = w[N + 1]
               /\ \A n \in 1 .. N + 1 : w[n] = Longer(w[n - 1], t[n], S)
  <2>1. Len(t) \in Nat
    BY <1>3
  <2>2. \E w : /\ w[0] = <<>> /\ Kept(t, S) = w[Len(t)]
               /\ \A n \in 1 .. Len(t) : w[n] = Longer(w[n - 1], t[n], S)
    BY <2>1, KeptFunction
  <2> QED
    BY <1>3, <2>2
<1> DEFINE M == {n \in Nat : n <= N => v[n] = w[n]}
<1>6. 0 \in M
  BY <1>4, <1>5
<1>7. ASSUME NEW n \in Nat, n \in M PROVE n + 1 \in M
  <2> SUFFICES ASSUME n + 1 <= N PROVE v[n + 1] = w[n + 1]
    OBVIOUS
  <2>1. n + 1 \in 1 .. N /\ n + 1 \in 1 .. N + 1 /\ (n + 1) - 1 = n /\ v[n] = w[n]
    BY <1>7
  <2>2. v[n + 1] = Longer(v[n], s[n + 1], S) /\ w[n + 1] = Longer(w[n], t[n + 1], S)
    BY <1>4, <1>5, <2>1
  <2> QED
    BY <1>3, <2>1, <2>2
<1>8. Nat \subseteq M
  <2> HIDE DEF M
  <2> QED
    BY <1>6, <1>7, SetInduction
<1>9. v[N] = w[N]
  BY <1>8
<1>10. N + 1 \in 1 .. N + 1 /\ (N + 1) - 1 = N
  OBVIOUS
<1>11. w[N + 1] = Longer(w[N], x, S)
  BY <1>3, <1>5, <1>10
<1> QED
  BY <1>1, <1>4, <1>5, <1>9, <1>11

\* The flattened sequence grows by one sequence after another.
LEMMA FlattenSteps ==
  ASSUME NEW X, NEW ss \in Seq(Seq(X))
  PROVE  \E f : /\ f[0] = <<>> /\ FlattenSeq(ss) = f[Len(ss)]
                /\ \A n \in 1 .. Len(ss) : f[n - 1] \in Seq(X) /\ f[n] = f[n - 1] \o ss[n]
<1> DEFINE none == <<>>
<1>0. none \in Seq(X) /\ \A t \in Seq(X) : none \o t = t
  OBVIOUS
<1>1. PICK N \in Nat : N = Len(ss) /\ DOMAIN ss = 1 .. N
  OBVIOUS
<1>2. \A n \in 1 .. N : ss[n] \in Seq(X)
  BY <1>1
<1>3. CASE N = 0
  <2> DEFINE f == [n \in 0 .. 0 |-> none]
  <2>1. ss = none
    BY <1>1, <1>3
  <2>2. FlattenSeq(ss) = none
    BY <1>1, <1>3, <2>1 DEF FlattenSeq
  <2>3. f[0] = none
    OBVIOUS
  <2>4. 1 .. N = {}
    BY <1>3
  <2> HIDE DEF f
  <2> QED
    BY <1>1, <1>3, <2>2, <2>3, <2>4
<1>4. CASE N # 0
  <2> DEFINE Is(g) == g = [n \in 1 .. N |-> IF n = 1 THEN ss[n] ELSE g[n - 1] \o ss[n]]
             h == CHOOSE g : Is(g)
  <2>1. \E g : Is(g)
    BY FlattenExists
  <2>2. Is(h)
    <3> HIDE DEF Is
    <3> QED
      BY <2>1
  <2>3. FlattenSeq(ss) = h[N]
    <3>1. FlattenSeq(ss) = (CHOOSE g : g = [n \in 1 .. Len(ss) |-> IF n = 1 THEN ss[n] ELSE g[n - 1] \o ss[n]])[Len(ss)]
      BY <1>1, <1>4 DEF FlattenSeq
    <3> QED
      BY <1>1, <3>1
  <2> HIDE DEF h
  <2>4. h[1] = ss[1]
    <3>1. 1 \in 1 .. N
      BY <1>4
    <3> QED
      BY <2>2, <3>1
  <2>5. \A n \in 1 .. N : n # 1 => h[n] = h[n - 1] \o ss[n]
    BY <2>2
  <2> DEFINE f == [n \in 0 .. N |-> IF n = 0 THEN none ELSE h[n]]
             M == {n \in Nat : n <= N => f[n] \in Seq(X)}
  <2>6. \A n \in 1 .. N : f[n] = f[n - 1] \o ss[n]
    <3> TAKE n \in 1 .. N
    <3>1. n \in 0 .. N /\ n - 1 \in 0 .. N /\ n # 0
      OBVIOUS
    <3>2. f[n] = h[n] /\ f[n - 1] = IF n = 1 THEN none ELSE h[n - 1]
      BY <3>1
    <3> HIDE DEF f, none
    <3>3. CASE n = 1
      BY <1>0, <1>2, <2>4, <3>2, <3>3
    <3>4. CASE n # 1
      BY <2>5, <3>2, <3>4
    <3> QED
      BY <3>3, <3>4
  <2>7. f[0] = none /\ f[N] = h[N]
    BY <1>4
  <2> HIDE DEF f, none, Is
  <2>8. 0 \in M
    BY <1>0, <2>7
  <2>9. ASSUME NEW n \in Nat, n \in M PROVE n + 1 \in M
    <3> SUFFICES ASSUME n + 1 <= N PROVE f[n + 1] \in Seq(X)
      OBVIOUS
    <3>1. n + 1 \in 1 .. N /\ (n + 1) - 1 = n /\ f[n] \in Seq(X)
      BY <2>9
    <3>2. f[n + 1] = f[n] \o ss[n + 1] /\ ss[n + 1] \in Seq(X)
      BY <1>2, <2>6, <3>1
    <3> QED
      BY <3>1, <3>2
  <2>10. Nat \subseteq M
    <3> HIDE DEF M
    <3> QED
      BY <2>8, <2>9, SetInduction
  <2>11. \A n \in 1 .. N : f[n - 1] \in Seq(X)
    <3> TAKE n \in 1 .. N
    <3>1. n - 1 \in Nat /\ n - 1 <= N
      OBVIOUS
    <3> QED
      BY <2>10, <3>1
  <2> QED
    BY <1>1, <2>3, <2>6, <2>7, <2>11 DEF none
<1> QED
  BY <1>3, <1>4

\* Concatenation is associative, and that of a single element appends it.
LEMMA ConcatAppend ==
  ASSUME NEW X, NEW s \in Seq(X), NEW t \in Seq(X), NEW x \in X
  PROVE  /\ s \o <<>> = s /\ s \o <<x>> = Append(s, x)
         /\ s \o Append(t, x) = Append(s \o t, x)
<1>1. s \o <<>> = s
  OBVIOUS
<1>2. s \o <<x>> = Append(s, x)
  OBVIOUS
<1>3. s \o Append(t, x) = Append(s \o t, x)
  OBVIOUS
<1> QED
  BY <1>1, <1>2, <1>3

\* What is kept of a sequence.
LEMMA KeptSet ==
  ASSUME NEW X, NEW s \in Seq(X), NEW S
  PROVE  ToSet(Kept(s, S)) = ToSet(s) \cap S
<1>1. PICK t : t = Kept(s, S)
  OBVIOUS
<1>2. /\ \A k \in DOMAIN t : t[k] \in S /\ \E i \in DOMAIN s : s[i] = t[k]
      /\ \A i \in DOMAIN s : s[i] \in S => \E k \in DOMAIN t : t[k] = s[i]
  BY <1>1, KeptElements
<1>3. ToSet(t) = ToSet(s) \cap S
  BY <1>2 DEF ToSet
<1> QED
  BY <1>1, <1>3

\* What two sequences have together.
LEMMA ConcatSet ==
  ASSUME NEW X, NEW s \in Seq(X), NEW t \in Seq(X)
  PROVE  s \o t \in Seq(X) /\ ToSet(s \o t) = ToSet(s) \cup ToSet(t)
<1>1. PICK u : u = s \o t
  OBVIOUS
<1>2. ToSet(s) \subseteq ToSet(u) /\ ToSet(t) \subseteq ToSet(u) /\ u \in Seq(X)
  BY <1>1, ConcatElements
<1>3. PICK m \in Nat : m = Len(s) /\ DOMAIN s = 1 .. m
  OBVIOUS
<1>4. PICK n \in Nat : n = Len(t) /\ DOMAIN t = 1 .. n
  OBVIOUS
<1>5. DOMAIN u = 1 .. m + n /\ \A i \in 1 .. m + n : u[i] = IF i <= m THEN s[i] ELSE t[i - m]
  BY <1>1, <1>3, <1>4
<1>6. ASSUME NEW i \in DOMAIN u PROVE u[i] \in ToSet(s) \cup ToSet(t)
  <2>1. CASE i <= m
    <3>1. i \in DOMAIN s /\ u[i] = s[i]
      BY <1>3, <1>5, <2>1
    <3> QED
      BY <3>1 DEF ToSet
  <2>2. CASE ~(i <= m)
    <3>1. i - m \in DOMAIN t /\ u[i] = t[i - m]
      BY <1>4, <1>5, <2>2
    <3> QED
      BY <3>1 DEF ToSet
  <2> QED
    BY <2>1, <2>2
<1>7. ToSet(u) \subseteq ToSet(s) \cup ToSet(t)
  BY <1>6 DEF ToSet
<1> QED
  BY <1>1, <1>2, <1>7
=============================================================================
