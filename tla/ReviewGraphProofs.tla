------------------------- MODULE ReviewGraphProofs --------------------------
(***************************************************************************)
(* For any number of providers, files, calls under way and findings: a     *)
(* worker that boots has a provider; whoever answers a call was asked for  *)
(* it after everybody before it in the chain had failed, although requests *)
(* that timed out are still going on; and the merge loses nothing.         *)
(***************************************************************************)
EXTENDS ReviewGraph, SequenceFacts

\* A call has gone down the chain without leaving anybody out.
InOrder(c) ==
  /\ DOMAIN call[c] = {"pc", "failures", "provider", "content"}
  /\ call[c].failures \in Seq({Chain[n] : n \in Nat})
  /\ \A n \in DOMAIN call[c].failures : call[c].failures[n] = Chain[n]
  /\ call[c].pc = "served" => call[c].provider = Asked(c)

OrderInv ==
  /\ DOMAIN call = Callers
  /\ \A c \in Callers : InOrder(c)

\* What every step but the chain's leaves of the calls.
Fresh(c) == call'[c] = call[c] \/ call'[c] = NoCall \/ call'[c] = Calling
            \/ call'[c] = [NoCall EXCEPT !.pc = "failed"]

LEMMA FreshInOrder ==
  ASSUME OrderInv, NEW c \in Callers, Fresh(c), env' = env
  PROVE  InOrder(c)'
<1>1. Chain' = Chain
  BY DEF Chain
<1>2. <<>> \in Seq({Chain[n] : n \in Nat})
  OBVIOUS
<1>3. CASE call'[c] = call[c]
  BY <1>1, <1>3 DEF OrderInv, InOrder, Asked
<1>4. CASE call'[c] # call[c]
  <2>1. /\ DOMAIN call'[c] = {"pc", "failures", "provider", "content"}
        /\ call'[c].failures = <<>> /\ call'[c].pc # "served"
    BY <1>4 DEF Fresh, NoCall, Calling
  <2>2. DOMAIN call'[c].failures = {}
    BY <2>1
  <2> QED
    BY <1>1, <1>2, <2>1, <2>2 DEF InOrder
<1> QED
  BY <1>3, <1>4

LEMMA AppendFacts ==
  ASSUME NEW S, NEW fs \in Seq(S), NEW x \in S
  PROVE  /\ Append(fs, x) \in Seq(S)
         /\ Len(fs) \in Nat /\ DOMAIN fs = 1 .. Len(fs)
         /\ DOMAIN Append(fs, x) = 1 .. Len(fs) + 1
         /\ Append(fs, x)[Len(fs) + 1] = x
         /\ \A n \in 1 .. Len(fs) : Append(fs, x)[n] = fs[n]
OBVIOUS

LEMMA FailedInOrder ==
  ASSUME OrderInv, NEW c \in Callers, NEW pc, pc # "served", env' = env,
         DOMAIN call' = Callers, DOMAIN call'[c] = DOMAIN call[c],
         call'[c].pc = pc, call'[c].failures = Append(call[c].failures, Asked(c)),
         \A d \in Callers \ {c} : call'[d] = call[d]
  PROVE  OrderInv'
<1> DEFINE fs == call[c].failures
           Chained == {Chain[n] : n \in Nat}
<1>1. Chain' = Chain
  BY DEF Chain
<1>2. fs \in Seq(Chained) /\ \A n \in DOMAIN fs : fs[n] = Chain[n]
  BY DEF OrderInv, InOrder
<1>3. Asked(c) = Chain[Len(fs) + 1] /\ Asked(c) \in Chained
  BY <1>2 DEF Asked
<1> HIDE DEF Chained
<1>4. /\ Append(fs, Asked(c)) \in Seq(Chained)
      /\ DOMAIN fs = 1 .. Len(fs) /\ Len(fs) \in Nat
      /\ DOMAIN Append(fs, Asked(c)) = 1 .. Len(fs) + 1
      /\ Append(fs, Asked(c))[Len(fs) + 1] = Asked(c)
      /\ \A n \in 1 .. Len(fs) : Append(fs, Asked(c))[n] = fs[n]
  BY <1>2, <1>3, AppendFacts
<1>5. InOrder(c)'
  BY <1>1, <1>2, <1>3, <1>4 DEF OrderInv, InOrder, Chained
<1>6. \A d \in Callers \ {c} : InOrder(d)'
  BY <1>1 DEF OrderInv, InOrder, Asked
<1> QED
  BY <1>5, <1>6 DEF OrderInv

LEMMA OrderInit == Init => OrderInv
<1> SUFFICES ASSUME Init, NEW c \in Callers PROVE InOrder(c)
  BY DEF Init, OrderInv
<1>1. call[c] = NoCall
  BY DEF Init
<1>2. /\ DOMAIN call[c] = {"pc", "failures", "provider", "content"}
      /\ call[c].failures = <<>> /\ call[c].pc # "served"
  BY <1>1 DEF NoCall
<1>3. DOMAIN call[c].failures = {} /\ <<>> \in Seq({Chain[n] : n \in Nat})
  BY <1>2
<1> QED
  BY <1>2, <1>3 DEF InOrder

LEMMA ChainStep ==
  ASSUME OrderInv, NEW c \in Callers, Respond(c) \/ TimesOut(c)
  PROVE  OrderInv'
<1>0. /\ DOMAIN call = Callers
      /\ DOMAIN call[c] = {"pc", "failures", "provider", "content"}
      /\ \A d \in Callers : InOrder(d)
  BY DEF OrderInv, InOrder
<1>1. CASE Answers(c)
  <2>1. PICK x \in Contents : Served(c, Asked(c), x)
    BY <1>1 DEF Answers
  <2> DEFINE r == [call[c] EXCEPT !.pc = "served", !.provider = Asked(c), !.content = x]
  <2>2. DOMAIN call' = Callers /\ call'[c] = r /\ \A d \in Callers \ {c} : call'[d] = call[d]
    BY <1>0, <2>1 DEF Served
  <2>3. DOMAIN r = DOMAIN call[c] /\ r.failures = call[c].failures /\ r.provider = Asked(c)
    BY <1>0
  <2>4. Chain' = Chain
    BY <1>1 DEF Answers, Chain
  <2> HIDE DEF r
  <2>5. InOrder(c)'
    <3>1. Asked(c)' = Asked(c) /\ InOrder(c)
      BY <1>0, <2>2, <2>3, <2>4 DEF Asked
    <3>2. call'[c].failures = call[c].failures /\ DOMAIN call'[c] = DOMAIN call[c]
      BY <2>2, <2>3
    <3>3. call'[c].provider = Asked(c)
      BY <2>2, <2>3
    <3> QED
      BY <2>4, <3>1, <3>2, <3>3 DEF InOrder
  <2>6. \A d \in Callers \ {c} : InOrder(d)'
    <3>1. env' = env /\ \A d \in Callers \ {c} : Fresh(d)
      BY <1>1, <2>2 DEF Answers, Fresh
    <3> QED
      BY <3>1, FreshInOrder
  <2> QED
    BY <2>2, <2>5, <2>6 DEF OrderInv
<1>2. CASE Errs(c) \/ TimesOut(c)
  <2> DEFINE failures == Append(call[c].failures, Asked(c))
             pc == IF Len(failures) < Len(Chain) THEN "asking" ELSE "failed"
             r == [call[c] EXCEPT !.failures = failures, !.pc = pc]
  <2>1. DOMAIN call' = Callers /\ call'[c] = r /\ \A d \in Callers \ {c} : call'[d] = call[d]
    BY <1>0, <1>2 DEF Errs, TimesOut, FailOver
  <2>2. DOMAIN r = DOMAIN call[c] /\ r.failures = failures /\ r.pc = pc /\ pc # "served"
    BY <1>0
  <2>3. env' = env
    BY <1>2 DEF Errs, TimesOut
  <2> HIDE DEF r, pc
  <2> QED
    BY <2>1, <2>2, <2>3, FailedInOrder
<1>3. CASE Rejects(c)
  <2> DEFINE failures == Append(call[c].failures, Asked(c))
             r == [call[c] EXCEPT !.pc = "failed", !.failures = failures]
  <2>1. DOMAIN call' = Callers /\ call'[c] = r /\ \A d \in Callers \ {c} : call'[d] = call[d]
    BY <1>0, <1>3 DEF Rejects
  <2>2. DOMAIN r = DOMAIN call[c] /\ r.failures = failures /\ r.pc = "failed"
    BY <1>0
  <2>3. env' = env
    BY <1>3 DEF Rejects
  <2> HIDE DEF r
  <2> QED
    BY <2>1, <2>2, <2>3, FailedInOrder
<1>4. CASE \E p \in Providers : LateAnswer(c, p)
  <2>1. UNCHANGED <<env, call>>
    BY <1>4 DEF LateAnswer
  <2> QED
    BY <1>0, <2>1, FreshInOrder DEF Fresh, OrderInv
<1> QED
  BY <1>1, <1>2, <1>3, <1>4 DEF Respond

LEMMA OrderNext ==
  ASSUME OrderInv, [Next]_vars
  PROVE  OrderInv'
<1>1. CASE Chains
  BY <1>1, ChainStep DEF Chains
<1>2. CASE HandlerStep \/ UNCHANGED vars
  <2>1. env' = env
    BY <1>2 DEF HandlerStep, Boot, NextFile, MergeFindings, SummaryReturns, AgentReturns, CallThrows, chainVars, vars
  <2>2. DOMAIN call' = Callers /\ \A c \in Callers : Fresh(c)
    <3>1. CASE NextFile
      BY <3>1 DEF NextFile, Fresh, Invoked, OrderInv
    <3>2. CASE SummaryReturns
      BY <3>2 DEF SummaryReturns, Fresh, OrderInv
    <3>3. CASE \E a \in ToSet(Agents) : AgentReturns(a)
      BY <3>3 DEF AgentReturns, Fresh, OrderInv
    <3>4. CASE Boot \/ MergeFindings \/ (\E c \in Callers : CallThrows(c)) \/ UNCHANGED vars
      BY <3>4 DEF Boot, MergeFindings, CallThrows, Fresh, OrderInv, chainVars, vars
    <3> QED
      BY <1>2, <3>1, <3>2, <3>3, <3>4 DEF HandlerStep
  <2> QED
    BY <2>1, <2>2, FreshInOrder DEF OrderInv
<1> QED
  BY <1>1, <1>2 DEF Next

\* The answer of a call is from the first provider of the chain that gave one in
\* time (llmProvider.ts:155), whatever earlier requests are still under way.
THEOREM AnswersInOrder == Spec => []ServedInOrder
<1>1. Spec => []OrderInv
  BY OrderInit, OrderNext, PTL DEF Spec
<1>2. OrderInv => ServedInOrder
  BY DEF OrderInv, InOrder, ServedInOrder
<1> QED
  BY <1>1, <1>2, PTL

-----------------------------------------------------------------------------
(***************************************************************************)
(* The environment.  Validation and resolver filter the order separately:  *)
(* that no more tokens are recognised than are not blank, and as many,     *)
(* says that nothing else is named.                                        *)
(***************************************************************************)
LEMMA OrderTyped ==
  ASSUME NEW e \in Environments
  PROVE  /\ e.keys \subseteq Providers
         /\ e.ordered => e.order \in Seq(OrderTokens)
         /\ ~e.ordered => e.order = <<>>
<1>1. CASE e \in [keys : SUBSET Providers, ordered : {FALSE}, order : {<<>>}]
  BY <1>1
<1>2. CASE e \in [keys : SUBSET Providers, ordered : {TRUE},
                  order : UNION {[1 .. n -> OrderTokens] : n \in 1 .. MaxOrder}]
  <2>1. PICK n \in 1 .. MaxOrder : e.order \in [1 .. n -> OrderTokens]
    BY <1>2
  <2>2. n \in Nat
    BY <2>1, ChainAssumption
  <2>3. e.order \in Seq(OrderTokens)
    BY <2>1, <2>2
  <2>4. e.keys \subseteq Providers /\ e.ordered
    BY <1>2
  <2> QED
    BY <2>3, <2>4
<1> QED
  BY <1>1, <1>2 DEF Environments

LEMMA ValidOrderNamesProviders ==
  ASSUME NEW order \in Seq(OrderTokens), OrderValid(order)
  PROVE  ToSet(order) \subseteq Providers \cup {Blank}
<1>1. \A i \in DOMAIN order : order[i] \in OrderTokens
  OBVIOUS
<1>2. \A i \in DOMAIN order : order[i] \in Providers => order[i] \in OrderTokens \ {Blank}
  BY <1>1, ChainAssumption
<1>3. \A i \in DOMAIN order : order[i] \in OrderTokens \ {Blank} => order[i] \in Providers
  BY <1>2, KeptFewer DEF OrderValid, Recognised
<1> QED
  BY <1>1, <1>3 DEF ToSet

\* A provider that is resolved and has a key is in the chain.
LEMMA KeyedInChain ==
  ASSUME NEW e, NEW X, ResolveOrder(e) \in Seq(X), NEW p \in e.keys, p \in ToSet(ResolveOrder(e))
  PROVE  AvailableProviders(e) # <<>>
<1> DEFINE s == ResolveOrder(e)
<1>1. PICK i \in DOMAIN s : s[i] = p
  BY DEF ToSet
<1>2. \E k \in DOMAIN Kept(s, e.keys) : Kept(s, e.keys)[k] = s[i]
  BY <1>1, KeptElements
<1>3. DOMAIN <<>> = {}
  OBVIOUS
<1> QED
  BY <1>2, <1>3 DEF AvailableProviders

LEMMA ValidWorks ==
  ASSUME env \in Environments
  PROVE  ValidEnvironmentWorks
<1> SUFFICES ASSUME Valid(env)
             PROVE  /\ Chain # <<>>
                    /\ ToSet(env.order) \subseteq Providers \cup {Blank}
                    /\ ToSet(Chain) \subseteq env.keys
  BY DEF ValidEnvironmentWorks
<1>1. /\ env.keys \subseteq Providers /\ env.keys # {}
      /\ env.ordered => /\ env.order \in Seq(OrderTokens) /\ OrderValid(env.order)
                        /\ \E p \in ToSet(Recognised(env.order)) : p \in env.keys
      /\ ~env.ordered => env.order = <<>>
  BY OrderTyped DEF Valid
<1>2. PROVIDERS \in Seq(Providers) /\ Blank \notin Providers
  BY ChainAssumption
<1>3. env.ordered => /\ Wanted(env.order) \in Seq(OrderTokens)
                     /\ Kept(Wanted(env.order), Providers) \in Seq(OrderTokens)
                     /\ \A k \in DOMAIN Recognised(env.order) :
                          \E i \in DOMAIN env.order : env.order[i] = Recognised(env.order)[k]
  BY <1>1, KeptElements DEF Recognised, Wanted
<1>4. PICK p \in env.keys : p \in ToSet(ResolveOrder(env))
  <2>1. CASE ~env.ordered
    <3>1. ResolveOrder(env) = PROVIDERS /\ ToSet(PROVIDERS) = Providers
      BY <2>1 DEF ResolveOrder, Providers
    <3> QED
      BY <1>1, <3>1
  <2>2. CASE env.ordered
    <3>1. PICK p \in ToSet(Recognised(env.order)) : p \in env.keys
      BY <1>1, <2>2
    <3>2. PICK k \in DOMAIN Recognised(env.order) : Recognised(env.order)[k] = p
      BY <3>1 DEF ToSet
    <3>3. PICK i \in DOMAIN env.order : env.order[i] = p
      BY <1>3, <2>2, <3>2
    <3>4. p # Blank /\ p \in Providers /\ p \in OrderTokens \ {Blank}
      BY <1>1, <1>2, <3>1, ChainAssumption
    <3>5. env.order # <<Blank>>
      BY <3>3, <3>4
    <3>6. ResolveOrder(env) = Kept(Wanted(env.order), Providers)
      BY <2>2, <3>5 DEF ResolveOrder
    <3>7. PICK n \in DOMAIN Wanted(env.order) : Wanted(env.order)[n] = p
      <4> DEFINE T == OrderTokens \ {Blank}
      <4>1. env.order \in Seq(OrderTokens) /\ p \in T /\ Wanted(env.order) = Kept(env.order, T)
        BY <1>1, <2>2, <3>4 DEF Wanted
      <4> HIDE DEF T
      <4> QED
        BY <3>3, <4>1, KeptElements
    <3>8. \E m \in DOMAIN Kept(Wanted(env.order), Providers) : Kept(Wanted(env.order), Providers)[m] = p
      BY <1>3, <2>2, <3>4, <3>7, KeptElements
    <3> QED
      BY <3>1, <3>6, <3>8 DEF ToSet
  <2> QED
    BY <2>1, <2>2
<1>5. \E X : ResolveOrder(env) \in Seq(X)
  BY <1>2, <1>3 DEF ResolveOrder
<1>6. Chain # <<>>
  BY <1>4, <1>5, KeyedInChain DEF Chain
<1>7. \A k \in DOMAIN Chain : Chain[k] \in env.keys
  BY <1>5, KeptElements DEF Chain, AvailableProviders
<1>8. ToSet(Chain) \subseteq env.keys
  BY <1>7 DEF ToSet
<1>9. ToSet(env.order) \subseteq Providers \cup {Blank}
  <2>1. ToSet(<<>>) = {}
    BY DEF ToSet
  <2> QED
    BY <1>1, <2>1, ValidOrderNamesProviders
<1> QED
  BY <1>6, <1>8, <1>9

\* A worker that has booted has a provider for every call, and nothing it was
\* given as an order is dropped, for any providers and any order (env.schema.ts
\* validates what llmProvider.ts:92 resolves).
THEOREM BootedWorkerHasProviders == Spec => []ValidEnvironmentWorks
<1>1. Init => env \in Environments
  BY DEF Init
<1>2. env \in Environments /\ [Next]_vars => (env \in Environments)'
  <2>1. [Next]_vars => env' = env
    BY DEF Next, HandlerStep, Boot, NextFile, MergeFindings, SummaryReturns, AgentReturns, CallThrows,
           Chains, Respond, Answers, Errs, Rejects, TimesOut, LateAnswer, chainVars, vars
  <2> QED
    BY <2>1
<1>3. env \in Environments => ValidEnvironmentWorks
  BY ValidWorks
<1> QED
  BY <1>1, <1>2, <1>3, PTL DEF Spec

-----------------------------------------------------------------------------
(***************************************************************************)
(* The merge.  The first finding of a line opens its group; the group has  *)
(* a first of its most severe; and no two openings are on one line.        *)
(***************************************************************************)
LEMMA PlaceIsEquivalence ==
  ASSUME NEW f, NEW g, NEW h
  PROVE  /\ SamePlace(f, f)
         /\ SamePlace(f, g) => SamePlace(g, f)
         /\ SamePlace(f, g) /\ SamePlace(g, h) => SamePlace(f, h)
BY DEF SamePlace

LEMMA RankBounds == \A f : Rank(f) \in 0 .. 5
<1> TAKE f
<1> DEFINE N == {n \in DOMAIN Severities : Severities[n] = f.severity}
<1>1. DOMAIN Severities = 1 .. 5
  BY DEF Severities
<1>2. CASE \E n \in DOMAIN Severities : Severities[n] = f.severity
  <2>1. (CHOOSE n \in DOMAIN Severities : Severities[n] = f.severity) \in DOMAIN Severities
    BY <1>2
  <2> QED
    BY <1>1, <1>2, <2>1 DEF Rank
<1>3. CASE ~ \E n \in DOMAIN Severities : Severities[n] = f.severity
  BY <1>3 DEF Rank
<1> QED
  BY <1>2, <1>3

LEMMA WorstFacts ==
  ASSUME NEW fs \in Seq(Finding), NEW group \in SUBSET DOMAIN fs, group # {}
  PROVE  /\ Worst(fs, group) \in group
         /\ \A j \in group : Rank(fs[j]) <= Rank(fs[Worst(fs, group)])
<1> DEFINE rank(j) == Rank(fs[j])
           Is(i) == \A j \in group : IF j < i THEN rank(j) < rank(i) ELSE rank(j) <= rank(i)
           gaps == {g \in 0 .. 5 : \E j \in group : rank(j) = 5 - g}
<1>0. DOMAIN fs \subseteq Nat /\ \A j : rank(j) \in 0 .. 5
  BY RankBounds
<1>1. gaps # {} /\ gaps \subseteq Nat
  <2>1. PICK j \in group : TRUE
    OBVIOUS
  <2>2. 5 - rank(j) \in 0 .. 5 /\ rank(j) = 5 - (5 - rank(j))
    BY <1>0
  <2> QED
    BY <2>1, <2>2
<1>2. PICK gap \in gaps : \A g \in gaps : gap <= g
  BY <1>1, LeastNat
<1>3. \A j \in group : rank(j) <= 5 - gap
  <2> TAKE j \in group
  <2>1. 5 - rank(j) \in gaps
    <3>1. 5 - rank(j) \in 0 .. 5 /\ rank(j) = 5 - (5 - rank(j))
      BY <1>0
    <3> QED
      BY <3>1
  <2>2. gap <= 5 - rank(j) /\ gap \in 0 .. 5
    BY <1>2, <2>1
  <2> QED
    BY <1>0, <2>2
<1> DEFINE top == {j \in group : rank(j) = 5 - gap}
<1>4. top # {} /\ top \subseteq Nat
  BY <1>0, <1>2
<1>5. PICK i \in top : \A j \in top : i <= j
  BY <1>4, LeastNat
<1>6. Is(i)
  <2> SUFFICES ASSUME NEW j \in group
               PROVE  IF j < i THEN rank(j) < rank(i) ELSE rank(j) <= rank(i)
    OBVIOUS
  <2>1. rank(j) <= rank(i) /\ rank(i) = 5 - gap
    BY <1>3, <1>5
  <2>2. rank(j) = rank(i) => ~ (j < i)
    <3>1. rank(j) = rank(i) => j \in top
      BY <2>1
    <3>2. i \in Nat /\ j \in Nat
      BY <1>0, <1>4
    <3> QED
      BY <1>5, <3>1, <3>2
  <2> QED
    BY <1>0, <2>1, <2>2
<1>7. \E k \in group : Is(k)
  BY <1>5, <1>6
<1>8. Worst(fs, group) = CHOOSE k \in group : Is(k)
  BY DEF Worst
<1>9. Worst(fs, group) \in group /\ Is(Worst(fs, group))
  BY <1>7, <1>8
<1>10. ASSUME NEW j \in group PROVE rank(j) <= rank(Worst(fs, group))
  <2> DEFINE w == Worst(fs, group)
  <2>1. IF j < w THEN rank(j) < rank(w) ELSE rank(j) <= rank(w)
    BY <1>9
  <2>2. rank(j) \in 0 .. 5 /\ rank(w) \in 0 .. 5
    BY <1>0
  <2> HIDE DEF rank
  <2> QED
    BY <2>1, <2>2
<1> QED
  BY <1>9, <1>10

\* A merged finding stands where its group does and leaves nothing of it out.
LEMMA MergedFacts ==
  ASSUME NEW fs \in Seq(Finding), NEW i \in DOMAIN fs
  PROVE  LET m == Merged(fs, Group(fs, i)) IN
         /\ SamePlace(m, fs[i])
         /\ \A j \in Group(fs, i) : /\ Rank(fs[j]) <= Rank(m)
                                    /\ fs[j].blocking => m.blocking
                                    /\ ToSet(fs[j].messages) \subseteq ToSet(m.messages)
<1> DEFINE group == Group(fs, i)
           w == Worst(fs, group)
           lists == [j \in DOMAIN fs |-> IF j \in group THEN fs[j].messages ELSE <<>>]
           messages == FlattenSeq(lists)
           blocking == \E j \in group : fs[j].blocking
           m == [fs[w] EXCEPT !.messages = messages, !.blocking = blocking]
<1>1. group \in SUBSET DOMAIN fs /\ i \in group
  BY PlaceIsEquivalence DEF Group
<1>2. w \in group /\ \A j \in group : Rank(fs[j]) <= Rank(fs[w])
  BY <1>1, WorstFacts
<1>3. \A j \in DOMAIN fs : fs[j] \in Finding
  OBVIOUS
<1>4. fs[w] \in Finding /\ SamePlace(fs[w], fs[i])
  BY <1>1, <1>2, <1>3 DEF Group
<1>5. lists \in Seq(Seq(STRING))
  <2>1. Len(fs) \in Nat /\ DOMAIN fs = 1 .. Len(fs)
    OBVIOUS
  <2>2. \A j \in 1 .. Len(fs) : fs[j].messages \in Seq(STRING)
    BY <1>3, <2>1 DEF Finding
  <2>3. <<>> \in Seq(STRING)
    OBVIOUS
  <2>4. lists \in [1 .. Len(fs) -> Seq(STRING)]
    BY <2>1, <2>2, <2>3
  <2> HIDE DEF lists
  <2> QED
    BY <2>1, <2>4
<1>6. ASSUME NEW j \in group PROVE ToSet(fs[j].messages) \subseteq ToSet(messages)
  <2>1. j \in DOMAIN lists /\ lists[j] = fs[j].messages
    BY <1>1
  <2> HIDE DEF lists
  <2> QED
    BY <1>5, <2>1, FlattenElements
<1> HIDE DEF messages, blocking, group, w, lists
<1>7. /\ m.file = fs[w].file /\ m.line = fs[w].line /\ m.severity = fs[w].severity
      /\ m.messages = messages /\ m.blocking = blocking
  BY <1>4 DEF Finding
<1>8. m = Merged(fs, Group(fs, i))
  BY DEF Merged, messages, blocking, group, w, lists
<1> HIDE DEF m
<1>9. SamePlace(m, fs[i])
  BY <1>4, <1>7 DEF SamePlace
<1>10. Rank(m) = Rank(fs[w])
  BY <1>7 DEF Rank
<1>11. \A j \in group : fs[j].blocking => m.blocking
  BY <1>7 DEF blocking
<1> QED
  BY <1>2, <1>6, <1>7, <1>8, <1>9, <1>10, <1>11 DEF group

\* Every finding has an opening on its line, and that line has one.
LEMMA OpeningFacts ==
  ASSUME NEW fs \in Seq(Finding), NEW i \in DOMAIN fs
  PROVE  /\ \E o \in DOMAIN fs : Opens(fs, o) /\ SamePlace(fs[o], fs[i])
         /\ \A o, p \in DOMAIN fs :
              Opens(fs, o) /\ Opens(fs, p) /\ SamePlace(fs[o], fs[i]) /\ SamePlace(fs[p], fs[i]) => o = p
<1>0. Len(fs) \in Nat /\ DOMAIN fs = 1 .. Len(fs)
  OBVIOUS
<1>1. Group(fs, i) # {} /\ Group(fs, i) \subseteq Nat /\ Group(fs, i) \subseteq DOMAIN fs
  BY <1>0, PlaceIsEquivalence DEF Group
<1>2. PICK o \in Group(fs, i) : \A j \in Group(fs, i) : o <= j
  BY <1>1, LeastNat
<1>3. o \in DOMAIN fs /\ SamePlace(fs[o], fs[i])
  BY <1>1, <1>2 DEF Group
<1>4. Opens(fs, o)
  <2> SUFFICES ASSUME NEW j \in 1 .. o - 1, SamePlace(fs[j], fs[o]) PROVE FALSE
    BY DEF Opens
  <2>1. j \in DOMAIN fs /\ j < o
    BY <1>0, <1>3
  <2>2. SamePlace(fs[j], fs[i])
    BY <1>3, PlaceIsEquivalence
  <2>3. j \in Group(fs, i)
    BY <2>1, <2>2 DEF Group
  <2> QED
    BY <1>0, <1>2, <1>3, <2>1, <2>3
<1>5. ASSUME NEW p \in DOMAIN fs, NEW q \in DOMAIN fs, Opens(fs, q), p < q,
             SamePlace(fs[p], fs[i]), SamePlace(fs[q], fs[i])
      PROVE  FALSE
  <2>1. p \in 1 .. q - 1
    BY <1>0, <1>5
  <2>2. SamePlace(fs[p], fs[q])
    BY <1>5, PlaceIsEquivalence
  <2> QED
    BY <1>5, <2>1, <2>2 DEF Opens
<1>6. ASSUME NEW p \in DOMAIN fs, NEW q \in DOMAIN fs, Opens(fs, p), Opens(fs, q),
             SamePlace(fs[p], fs[i]), SamePlace(fs[q], fs[i])
      PROVE  p = q
  <2>1. p < q \/ q < p \/ p = q
    BY <1>0
  <2> QED
    BY <1>5, <1>6, <2>1
<1> QED
  BY <1>3, <1>4, <1>6

\* Merge over the openings, each of them once.
LEMMA MergeOpenings ==
  ASSUME NEW fs \in Seq(Finding)
  PROVE  \E at :
           /\ \A n \in DOMAIN Merge[fs] : /\ at[n] \in DOMAIN fs /\ Opens(fs, at[n])
                                          /\ Merge[fs][n] = Merged(fs, Group(fs, at[n]))
           /\ \A m, n \in DOMAIN Merge[fs] : at[m] = at[n] => m = n
           /\ \A i \in DOMAIN fs : Opens(fs, i) => \E n \in DOMAIN Merge[fs] : at[n] = i
<1> DEFINE places == [i \in DOMAIN fs |-> i]
           chosen == {i \in DOMAIN fs : Opens(fs, i)}
           at == Kept(places, chosen)
<1>1. Len(fs) \in Nat /\ DOMAIN fs = 1 .. Len(fs)
  OBVIOUS
<1>2. places \in Seq(DOMAIN fs) /\ Len(places) = Len(fs) /\ \A i \in DOMAIN fs : places[i] = i
  <2>1. places \in [1 .. Len(fs) -> DOMAIN fs]
    BY <1>1
  <2> QED
    BY <1>1, <2>1
<1>3. Merge[fs] = [n \in DOMAIN at |-> Merged(fs, Group(fs, at[n]))]
  BY DEF Merge
<1> HIDE DEF places
<1>4. at \in Seq(DOMAIN fs) /\ \E h : Embeds(h, at, places, Len(places), chosen)
  BY <1>2, KeptFacts
<1> HIDE DEF at
<1>5. PICK h : Embeds(h, at, places, Len(places), chosen)
  BY <1>4
<1>6. DOMAIN at = 1 .. Len(at) /\ Len(at) \in Nat
  BY <1>4
<1>7. \A n \in DOMAIN at : at[n] = h[n] /\ h[n] \in DOMAIN fs /\ at[n] \in chosen
  BY <1>1, <1>2, <1>5, <1>6 DEF Embeds
<1>8. \A m, n \in DOMAIN at : m < n => at[m] < at[n]
  BY <1>5, <1>6, <1>7 DEF Embeds
<1>9. \A m, n \in DOMAIN at : at[m] = at[n] => m = n
  <2> SUFFICES ASSUME NEW m \in DOMAIN at, NEW n \in DOMAIN at, at[m] = at[n] PROVE m = n
    OBVIOUS
  <2>1. at[m] \in Nat /\ (m < n \/ n < m \/ m = n)
    BY <1>1, <1>6, <1>7
  <2>2. ~ (m < n) /\ ~ (n < m)
    BY <1>8, <2>1
  <2> QED
    BY <2>1, <2>2
<1>10. \A i \in DOMAIN fs : Opens(fs, i) => \E n \in DOMAIN at : at[n] = i
  BY <1>1, <1>2, <1>5, <1>6, <1>7 DEF Embeds
<1>11. DOMAIN Merge[fs] = DOMAIN at /\ \A n \in DOMAIN at : Merge[fs][n] = Merged(fs, Group(fs, at[n]))
  BY <1>3
<1> QED
  BY <1>7, <1>9, <1>10, <1>11

LEMMA MergeFacts ==
  ASSUME NEW fs \in Seq(Finding), NEW f \in ToSet(fs)
  PROVE  LET merged == Merge[fs] IN
         \E n \in DOMAIN merged :
           /\ SamePlace(merged[n], f)
           /\ \A m \in DOMAIN merged : SamePlace(merged[m], f) => m = n
           /\ Rank(merged[n]) >= Rank(f)
           /\ f.blocking => merged[n].blocking
           /\ ToSet(f.messages) \subseteq ToSet(merged[n].messages)
<1> DEFINE merged == Merge[fs]
<1>1. PICK i \in DOMAIN fs : fs[i] = f
  BY DEF ToSet
<1>2. PICK at :
        /\ \A n \in DOMAIN merged : /\ at[n] \in DOMAIN fs /\ Opens(fs, at[n])
                                    /\ merged[n] = Merged(fs, Group(fs, at[n]))
        /\ \A m, n \in DOMAIN merged : at[m] = at[n] => m = n
        /\ \A j \in DOMAIN fs : Opens(fs, j) => \E n \in DOMAIN merged : at[n] = j
  BY MergeOpenings
<1> HIDE DEF merged
<1>3. PICK o \in DOMAIN fs : Opens(fs, o) /\ SamePlace(fs[o], fs[i])
  BY OpeningFacts
<1>4. PICK n \in DOMAIN merged : at[n] = o
  BY <1>2, <1>3
<1>5. merged[n] = Merged(fs, Group(fs, o)) /\ i \in Group(fs, o)
  BY <1>2, <1>3, <1>4, PlaceIsEquivalence DEF Group
<1>6. /\ SamePlace(merged[n], fs[o])
      /\ Rank(f) <= Rank(merged[n])
      /\ f.blocking => merged[n].blocking
      /\ ToSet(f.messages) \subseteq ToSet(merged[n].messages)
  BY <1>1, <1>5, MergedFacts
<1>7. SamePlace(merged[n], f)
  BY <1>1, <1>3, <1>6, PlaceIsEquivalence
<1>8. ASSUME NEW m \in DOMAIN merged, SamePlace(merged[m], f) PROVE m = n
  <2>1. at[m] \in DOMAIN fs /\ Opens(fs, at[m]) /\ SamePlace(merged[m], fs[at[m]])
    BY <1>2, MergedFacts
  <2>2. SamePlace(fs[at[m]], fs[i])
    BY <1>1, <1>8, <2>1, PlaceIsEquivalence
  <2>3. at[m] = o
    BY <1>3, <2>1, <2>2, OpeningFacts
  <2> QED
    BY <1>2, <1>4, <2>3
<1>9. Rank(merged[n]) >= Rank(f)
  BY <1>6, RankBounds
<1> QED
  BY <1>6, <1>7, <1>8, <1>9 DEF merged

-----------------------------------------------------------------------------
(* What the agents report are findings, whatever the model answered.       *)

FoundInv ==
  /\ \A a \in ToSet(Agents) : found[a] \in Seq(Finding)
  /\ DOMAIN found = ToSet(Agents)
  /\ \A c \in Callers : call[c].pc = "served" => call[c].content \in Contents

LEMMA ParsedFindings ==
  ASSUME NEW x \in Contents
  PROVE  Parsed(x) \in Seq(Finding)
<1>1. <<>> \in Seq(Finding)
  OBVIOUS
<1> QED
  BY <1>1, GraphAssumption DEF Parsed

LEMMA ReportedFindings ==
  ASSUME FoundInv
  PROVE  Reported \in Seq(Finding)
<1> DEFINE lists == [n \in DOMAIN Agents |-> found[Agents[n]]]
<1>1. DOMAIN Agents = 1 .. 3 /\ \A n \in 1 .. 3 : Agents[n] \in ToSet(Agents)
  BY DEF Agents, ToSet
<1>2. lists \in [1 .. 3 -> Seq(Finding)]
  BY <1>1 DEF FoundInv
<1> HIDE DEF lists
<1>3. \A S : \A n \in Nat : [1 .. n -> S] \subseteq Seq(S)
  OBVIOUS
<1>4. lists \in Seq(Seq(Finding))
  <2>1. 3 \in Nat
    OBVIOUS
  <2> QED
    BY <1>2, <1>3, <2>1, Zenon
<1> QED
  BY <1>4, FlattenElements DEF Reported, lists

LEMMA FoundInit == Init => FoundInv
<1>1. <<>> \in Seq(Finding)
  OBVIOUS
<1> QED
  BY <1>1 DEF Init, FoundInv, NoFindings, NoCall

LEMMA FoundNext ==
  ASSUME OrderInv, FoundInv, [Next]_vars
  PROVE  FoundInv'
<1>0. <<>> \in Seq(Finding)
  OBVIOUS
<1>1. CASE Chains
  <2>1. UNCHANGED found
    BY <1>1 DEF Chains
  <2>2. PICK c \in Callers : Respond(c) \/ TimesOut(c)
    BY <1>1 DEF Chains
  <2>3. DOMAIN call = Callers /\ DOMAIN call[c] = {"pc", "failures", "provider", "content"}
    BY DEF OrderInv, InOrder
  <2>4. \A d \in Callers : call'[d] = call[d] \/ call'[d].pc # "served" \/ call'[d].content \in Contents
    <3>1. CASE Answers(c)
      <4>1. PICK x \in Contents : Served(c, Asked(c), x)
        BY <3>1 DEF Answers
      <4> QED
        BY <2>3, <4>1 DEF Served
    <3>2. CASE Errs(c) \/ TimesOut(c)
      BY <2>3, <3>2 DEF Errs, TimesOut, FailOver
    <3>3. CASE Rejects(c)
      BY <2>3, <3>3 DEF Rejects
    <3>4. CASE \E p \in Providers : LateAnswer(c, p)
      BY <3>4 DEF LateAnswer
    <3> QED
      BY <2>2, <3>1, <3>2, <3>3, <3>4 DEF Respond
  <2> QED
    BY <2>1, <2>4 DEF FoundInv
<1>2. CASE Boot \/ (\E c \in Callers : CallThrows(c)) \/ UNCHANGED vars
  <2>1. UNCHANGED <<call, found>>
    BY <1>2 DEF Boot, CallThrows, chainVars, vars
  <2> QED
    BY <2>1 DEF FoundInv
<1>3. CASE MergeFindings
  BY <1>0, <1>3 DEF MergeFindings, NoFindings, FoundInv, chainVars
<1>4. CASE NextFile
  <2>1. UNCHANGED found
    BY <1>4 DEF NextFile
  <2>2. \A c \in Callers : call'[c] = call[c] \/ call'[c].pc # "served"
    <3>1. \A c \in Callers : Invoked(c).pc # "served"
      BY DEF Invoked, NoCall, Calling
    <3> QED
      BY <1>4, <3>1 DEF NextFile, OrderInv
  <2> QED
    BY <2>1, <2>2 DEF FoundInv
<1>5. CASE SummaryReturns
  <2>1. UNCHANGED found /\ \A c \in Callers : call'[c] = call[c] \/ call'[c] = NoCall
    BY <1>5 DEF SummaryReturns, OrderInv
  <2> QED
    BY <2>1 DEF FoundInv, NoCall
<1>6. ASSUME NEW a \in ToSet(Agents), AgentReturns(a) PROVE FoundInv'
  <2>1. a \in Callers
    BY GraphAssumption
  <2>2. \A c \in Callers : call'[c] = call[c] \/ call'[c] = NoCall
    BY <1>6 DEF AgentReturns, OrderInv
  <2>3. Parsed(call[a].content) \in Seq(Finding)
    BY <1>6, <2>1, ParsedFindings DEF AgentReturns, FoundInv
  <2>4. found' = [found EXCEPT ![a] = Parsed(call[a].content)]
    BY <1>6 DEF AgentReturns
  <2> QED
    BY <2>2, <2>3, <2>4 DEF FoundInv, NoCall
<1> QED
  BY <1>1, <1>2, <1>3, <1>4, <1>5, <1>6 DEF Next, HandlerStep

\* What the agents say of a file reaches the author once per line, no less
\* severe, no less blocking and with every message, however many findings there
\* are and in whatever order the agents answered (review.graph.ts:20).
THEOREM NothingLostInMerge == Spec => []FindingsMerged
<1>1. Spec => []OrderInv
  BY OrderInit, OrderNext, PTL DEF Spec
<1>2. Spec => []FoundInv
  BY <1>1, FoundInit, FoundNext, PTL DEF Spec
<1>3. FoundInv => FindingsMerged
  BY ReportedFindings, MergeFacts DEF FindingsMerged
<1> QED
  BY <1>2, <1>3, PTL
=============================================================================
