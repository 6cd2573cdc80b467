---------------------------- MODULE ReviewGraph ----------------------------
(***************************************************************************)
(* What the review worker does between its claim and its first write to    *)
(* GitHub: boot, one run of the review graph per file (three agents at     *)
(* once, then the merge), the summary, and the verdicts computed from the  *)
(* findings.  Its model calls go through LlmChain.                         *)
(*                                                                         *)
(* An answer is the list of findings it parses to, or Unparsable.          *)
(***************************************************************************)
EXTENDS LlmChain, TLC

CONSTANTS
  Files,      \* reviewable files, TRUE for those with a patch
  Spots,      \* what an answer gives as a file or a line: nothing checks them
  Unparsable  \* an answer that is not a JSON array

Agents == <<"code", "security", "performance">>  \* in the order the merge lists them
Summary == "summary"
\* What runAgent makes of an item of the array.
Finding == [file : Spots, line : Spots, severity : STRING, blocking : BOOLEAN, messages : Seq(STRING)]

ASSUME GraphAssumption ==
  /\ Callers = ToSet(Agents) \cup {Summary}
  /\ Files \in Seq(BOOLEAN)
  /\ Contents \ {Unparsable} \subseteq Seq(Finding)

VARIABLES
  review,   \* where the handler is: step and file
  found,    \* findings of the agents on the current file, by agent
  all,      \* allFindings
  verdict   \* event of the review, conclusion of the check run, badge of the summary

vars == <<chainVars, review, found, all, verdict>>

Severities == <<"info", "low", "medium", "high", "critical">>
\* indexOf: a severity the agent made up comes before all others.
Rank(f) == IF \E n \in DOMAIN Severities : Severities[n] = f.severity
           THEN CHOOSE n \in DOMAIN Severities : Severities[n] = f.severity ELSE 0

NoVerdict == [event |-> "none", conclusion |-> "none", badge |-> "none"]
NoFindings == [a \in ToSet(Agents) |-> <<>>]

TypeOK ==
  /\ env \in Environments
  /\ call \in [Callers -> CallType]
  /\ late \subseteq Callers \X Providers
  /\ review \in [pc : {"boot", "file", "agents", "merge", "summary", "done", "failed", "refused"},
                 file : 1 .. Len(Files) + 1]
  /\ DOMAIN found = ToSet(Agents)

Init ==
  /\ env \in Environments
  /\ call = [c \in Callers |-> NoCall]
  /\ late = {}
  /\ review = [pc |-> "boot", file |-> 1]
  /\ found = NoFindings
  /\ all = <<>>
  /\ verdict = NoVerdict

At(pc) == review.pc = pc
Goto(pc) == review' = [review EXCEPT !.pc = pc]

\* env.ts: an environment that is not valid ends the process at once.
Boot ==
  /\ At("boot")
  /\ Goto(IF Valid(env) THEN "file" ELSE "refused")
  /\ UNCHANGED <<chainVars, found, all, verdict>>

\* The next file: a file without a patch is skipped; the agents start together.
NextFile ==
  /\ At("file")
  /\ \/ /\ review.file > Len(Files)
        /\ Goto("summary")
        /\ call' = [call EXCEPT ![Summary] = Invoked(Summary)]
     \/ /\ review.file <= Len(Files) /\ ~Files[review.file]
        /\ review' = [review EXCEPT !.file = @ + 1]
        /\ UNCHANGED call
     \/ /\ review.file <= Len(Files) /\ Files[review.file]
        /\ Goto("agents")
        /\ call' = [c \in Callers |-> IF c = Summary THEN call[c] ELSE Invoked(c)]
  /\ UNCHANGED <<env, late, found, all, verdict>>

\* runAgent: an answer that does not parse is no findings.
Parsed(answer) == IF answer = Unparsable THEN <<>> ELSE answer

AgentReturns(a) ==
  /\ At("agents")
  /\ call[a].pc = "served"
  /\ found' = [found EXCEPT ![a] = Parsed(call[a].content)]
  /\ call' = [call EXCEPT ![a] = NoCall]
  /\ Goto(IF \A b \in ToSet(Agents) \ {a} : call'[b].pc = "idle" THEN "merge" ELSE "agents")
  /\ UNCHANGED <<env, late, all, verdict>>

\* One agent that throws ends the review.  The calls of the others go on,
\* request after request, and nobody waits for them.
CallThrows(c) ==
  /\ review.pc \in {"agents", "summary"}
  /\ call[c].pc = "failed"
  /\ Goto("failed")
  /\ UNCHANGED <<chainVars, found, all, verdict>>

\* The merge node.
SamePlace(f, g) == f.file = g.file /\ f.line = g.line
\* A finding opens a group unless an earlier one is on the same line.
Opens(fs, i) == \A j \in 1 .. i - 1 : ~SamePlace(fs[j], fs[i])
Group(fs, i) == {j \in DOMAIN fs : SamePlace(fs[j], fs[i])}

\* The first of the most severe.
MutWorst(fs, group) == CHOOSE i \in group : \A j \in group : i <= j
Worst(fs, group) ==
  CHOOSE i \in group : \A j \in group :
    IF j < i THEN Rank(fs[j]) < Rank(fs[i]) ELSE Rank(fs[j]) <= Rank(fs[i])

Merged(fs, group) ==
  [fs[Worst(fs, group)] EXCEPT
     !.messages = FlattenSeq([j \in DOMAIN fs |-> IF j \in group THEN fs[j].messages ELSE <<>>]),
     !.blocking = \E j \in group : fs[j].blocking]

Merge[fs \in Seq(Finding)] ==
  LET opening == Kept([i \in DOMAIN fs |-> i], {i \in DOMAIN fs : Opens(fs, i)})
  IN [n \in DOMAIN opening |-> Merged(fs, Group(fs, opening[n]))]

Reported == FlattenSeq([n \in DOMAIN Agents |-> found[Agents[n]]])

MergeFindings ==
  /\ At("merge")
  /\ all' = all \o Merge[Reported]
  /\ found' = NoFindings
  /\ review' = [pc |-> "file", file |-> review.file + 1]
  /\ UNCHANGED <<chainVars, verdict>>

Blocking(fs) == Cardinality({n \in DOMAIN fs : fs[n].blocking})

\* buildReviewSummary (badge), the review's event, upsertCheckRun (conclusion).
SummaryReturns ==
  /\ At("summary")
  /\ call[Summary].pc = "served"
  /\ verdict' = [
       badge |-> IF Blocking(all) > 0 THEN "changes requested"
                 ELSE IF Len(all) > 0 THEN "minor issues" ELSE "looks good",
       event |-> IF Blocking(all) > 0 THEN "REQUEST_CHANGES"
                 ELSE IF Len(all) = 0 THEN "APPROVE" ELSE "COMMENT",
       conclusion |-> IF Blocking(all) > 0 THEN "failure"
                      ELSE IF Len(all) = 0 THEN "success" ELSE "neutral"]
  /\ call' = [call EXCEPT ![Summary] = NoCall]
  /\ Goto("done")
  /\ UNCHANGED <<env, late, found, all>>

HandlerStep ==
  \/ Boot \/ NextFile \/ MergeFindings \/ SummaryReturns
  \/ \E a \in ToSet(Agents) : AgentReturns(a)
  \/ \E c \in Callers : CallThrows(c)

Chains == /\ \E c \in Callers : Respond(c) \/ TimesOut(c)
          /\ UNCHANGED <<review, found, all, verdict>>

Next == HandlerStep \/ Chains

Spec == Init /\ [][Next]_vars

\* The handler goes on and timers fire.  Providers owe nothing.
FairSpec ==
  /\ Spec
  /\ WF_vars(HandlerStep)
  /\ \A c \in Callers : WF_vars(TimesOut(c) /\ UNCHANGED <<review, found, all, verdict>>)

-----------------------------------------------------------------------------
(* Properties.                                                             *)

\* What the agents say of one file reaches the author once per line, no less
\* severe, no less blocking and with every agent's message, in whatever order
\* the agents answered (README.md: "the highest severity wins, messages are
\* combined, and blocking is OR'd").
FindingsMerged ==
  At("merge") =>
    LET merged == Merge[Reported] IN
    \A f \in ToSet(Reported) :
      \E n \in DOMAIN merged :
        /\ SamePlace(merged[n], f)
        /\ \A m \in DOMAIN merged : SamePlace(merged[m], f) => m = n
        /\ Rank(merged[n]) >= Rank(f)
        /\ f.blocking => merged[n].blocking
        /\ ToSet(f.messages) \subseteq ToSet(merged[n].messages)

\* A review ends although no provider ever answers.
ReviewEnds == <>(review.pc \in {"done", "failed", "refused"})
=============================================================================
