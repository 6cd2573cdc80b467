------------------------------ MODULE LlmChain ------------------------------
(***************************************************************************)
(* The failover chain every model call of the review worker goes through   *)
(* (llmProvider.ts), and the environment it is built from (env.schema.ts,  *)
(* env.ts): which environments the worker boots with, which providers they *)
(* yield, and what becomes of a call.                                      *)
(*                                                                         *)
(* A request that times out is not cancelled: it stays under way, and its  *)
(* answer may arrive while a later provider is being asked.                *)
(***************************************************************************)
EXTENDS Arrays, SequencesExt, FiniteSets

CONSTANTS
  PROVIDERS,  \* the providers, in their default order
  OrderTokens,\* what LLM_PROVIDER_ORDER may name: providers, a misspelling, Blank
  MaxOrder,   \* bound on the entries of LLM_PROVIDER_ORDER
  Callers,    \* call sites that may have a call under way at the same time
  Contents,   \* answers of the model
  NoContent

Providers == ToSet(PROVIDERS)
Blank == "blank"  \* an entry of spaces

ASSUME ChainAssumption ==
  /\ PROVIDERS \in Seq(Providers) /\ Len(PROVIDERS) > 0
  /\ Providers \subseteq OrderTokens /\ Blank \notin Providers
  /\ MaxOrder \in Nat
  /\ NoContent \notin Contents

VARIABLES
  env,   \* the environment as read: the keys set, LLM_PROVIDER_ORDER if set
  call,  \* the current call of each caller
  late   \* requests that timed out and have not been answered: caller and provider

chainVars == <<env, call, late>>

Environments ==
  [keys : SUBSET Providers, ordered : {FALSE}, order : {<<>>}]
    \cup [keys : SUBSET Providers, ordered : {TRUE},
          order : UNION {[1 .. n -> OrderTokens] : n \in 1 .. MaxOrder}]

-----------------------------------------------------------------------------
(* env.schema.ts and the resolver of llmProvider.ts, each with its own     *)
(* reading of the variable.  An entry is what both make of it first,       *)
(* trimmed and in lower case.                                              *)

\* orderedProviders of the validation.
Recognised(order) == Kept(order, Providers)

\* A misspelling is an error, whatever else the order names.
MutOrderValid(order) == TRUE
OrderValid(order) ==
  Len(Recognised(order)) = Len(Kept(order, OrderTokens \ {Blank}))

\* workerEnvSchema: some key, and one for the order if there is one.
Valid(e) ==
  /\ e.keys # {}
  /\ e.ordered => /\ OrderValid(e.order)
                  /\ \E p \in ToSet(Recognised(e.order)) : p \in e.keys

\* resolveOrder trims the variable before it looks whether it is empty, and
\* drops what it does not find among PROVIDERS.
Wanted(order) == Kept(order, OrderTokens \ {Blank})
ResolveOrder(e) ==
  IF ~e.ordered \/ e.order = <<Blank>> THEN PROVIDERS ELSE Kept(Wanted(e.order), Providers)

AvailableProviders(e) == Kept(ResolveOrder(e), e.keys)

Chain == AvailableProviders(env)

-----------------------------------------------------------------------------
(* runChain.  `failures` is the code's list of who was asked in vain.      *)

NoCall == [pc |-> "idle", failures |-> <<>>, provider |-> NoContent, content |-> NoContent]
Calling == [NoCall EXCEPT !.pc = "asking"]

CallType ==
  [pc : {"idle", "asking", "served", "failed"}, failures : Seq(Providers),
   provider : Providers \cup {NoContent}, content : Contents \cup {NoContent}]

Asking(c) == call[c].pc = "asking"
Asked(c)  == Chain[Len(call[c].failures) + 1]

\* An empty chain fails at once, with AllProvidersFailedError.
Invoked(c) == IF Chain = <<>> THEN [NoCall EXCEPT !.pc = "failed"] ELSE Calling

Served(c, provider, content) ==
  call' = [call EXCEPT ![c] = [@ EXCEPT !.pc = "served", !.provider = provider, !.content = content]]

Answers(c) ==
  /\ Asking(c)
  /\ \E x \in Contents : Served(c, Asked(c), x)
  /\ UNCHANGED <<env, late>>

\* The next provider, or AllProvidersFailedError after the last.
FailOver(c) ==
  LET failures == Append(call[c].failures, Asked(c)) IN
  call' = [call EXCEPT ![c] =
             [@ EXCEPT !.failures = failures,
                       !.pc = IF Len(failures) < Len(Chain) THEN "asking" ELSE "failed"]]

\* A rate limit, a refused key, a server error, a broken connection.
Errs(c) ==
  /\ Asking(c)
  /\ FailOver(c)
  /\ UNCHANGED <<env, late>>

\* 400 and 422 end the chain: "fails the same way on every provider".
Rejects(c) ==
  /\ Asking(c)
  /\ call' = [call EXCEPT ![c] = [@ EXCEPT !.pc = "failed", !.failures = Append(call[c].failures, Asked(c))]]
  /\ UNCHANGED <<env, late>>

\* No timer.
MutNoTimeout(c) == Asking(c) /\ UNCHANGED chainVars
\* LLM_TIMEOUT_MS have passed; the request goes on.
TimesOut(c) ==
  /\ Asking(c)
  /\ FailOver(c)
  /\ late' = late \cup {<<c, Asked(c)>>}
  /\ UNCHANGED env

\* The race was lost: a late answer goes nowhere.  (As a slip: it is taken
\* for the answer that is being waited for.)
MutLateAnswer(c, p) ==
  /\ <<c, p>> \in late
  /\ late' = late \ {<<c, p>>}
  /\ IF Asking(c) THEN \E x \in Contents : Served(c, p, x) ELSE UNCHANGED call
  /\ UNCHANGED env
LateAnswer(c, p) ==
  /\ <<c, p>> \in late
  /\ late' = late \ {<<c, p>>}
  /\ UNCHANGED <<env, call>>

\* What the providers do with a call, and the timer.
Respond(c) == Answers(c) \/ Errs(c) \/ Rejects(c) \/ (\E p \in Providers : LateAnswer(c, p))

-----------------------------------------------------------------------------
(* Properties.                                                             *)

\* A worker that has booted has a provider for every call, and has not
\* dropped a name of the order it was given: validation and resolver are
\* separate code (env.schema.ts:92, llmProvider.ts:92).
ValidEnvironmentWorks ==
  Valid(env) =>
    /\ Chain # <<>>
    /\ ToSet(env.order) \subseteq Providers \cup {Blank}
    /\ ToSet(Chain) \subseteq env.keys

\* The answer of a call is from the first provider of the chain that gave one
\* in time, although earlier requests may still be under way.
ServedInOrder ==
  \A c \in Callers : call[c].pc = "served" =>
    /\ call[c].provider = Asked(c)
    /\ \A n \in DOMAIN call[c].failures : call[c].failures[n] = Chain[n]
=============================================================================
