----------------------------- MODULE PrHistory ------------------------------
(***************************************************************************)
(* The pull requests that touched the changed files before, and what was   *)
(* said on them (history.ts): one action per request to GitHub, any of     *)
(* which may fail.                                                         *)
(***************************************************************************)
EXTENDS CodeGraph

CONSTANTS
  PrNumber,       \* the pull request under review
  CommitsOf,      \* GitHub: the commits of a file, latest first
  PullsOf,        \* GitHub: the pull requests of a commit
  CommentsOn,     \* GitHub: the review comments of a pull request, latest first
  MAX_API_CALLS

\* What is read of GitHub's answers.
PullRequest == [number : Nat, at : Nat]
Comment == [file : Nat, reply : BOOLEAN, at : Nat]

ASSUME HistoryAssumption ==
  /\ MAX_API_CALLS \in Nat
  /\ \A f \in DOMAIN CommitsOf : CommitsOf[f] \in Seq(DOMAIN PullsOf)
  /\ \A c \in DOMAIN PullsOf :
       /\ PullsOf[c] \in Seq(PullRequest)
       /\ \A p \in ToSet(PullsOf[c]) : p.number # PrNumber => p.number \in DOMAIN CommentsOn
  /\ \A n \in DOMAIN CommentsOn : CommentsOn[n] \in Seq(Comment)

VARIABLE hist  \* pc, files, commits and prs to go, apiCalls, knownPrs, items

NoHistory == [pc |-> "off", files |-> <<>>, commits |-> <<>>, prs |-> <<>>,
              apiCalls |-> 0, knownPrs |-> {}, items |-> <<>>]

StartHistory(files, limits) ==
  LET paths == Sorted(SetToSeq(files), {p \in files \X files : p[1] < p[2]}) IN
  [NoHistory EXCEPT !.pc = "file",
     !.files = SubSeq(paths, 1, Min({Len(paths), limits.maxHistoryFiles}))]

Comments(items) == Cardinality({i \in DOMAIN items : items[i].type = "review_comment"})
KnowsEnough(limits) ==
  Cardinality(hist.knownPrs) >= limits.maxHistoryItems \/ hist.apiCalls >= MAX_API_CALLS

\* Only an answer is counted.
Spent == hist.apiCalls + 1
Spends == Spent > MAX_API_CALLS

Later(items) ==
  {p \in ToSet(items) \X ToSet(items) :
     p[1].file < p[2].file \/ (p[1].file = p[2].file /\ p[1].at > p[2].at)}
FinishHistory(h) == [h EXCEPT !.pc = "done", !.items = Sorted(@, Later(@))]
NextFileOf(h) == [h EXCEPT !.pc = "file", !.files = Tail(@), !.commits = <<>>, !.prs = <<>>]

EndHistory(limits) ==
  /\ hist.pc = "file" /\ (hist.files = <<>> \/ KnowsEnough(limits))
  /\ hist' = FinishHistory(hist)

ListCommits(limits, fails) ==
  /\ hist.pc = "file" /\ hist.files # <<>> /\ ~KnowsEnough(limits)
  /\ LET commits == CommitsOf[Head(hist.files)] IN
     hist' = IF fails THEN NextFileOf(hist)
             ELSE IF Spends THEN FinishHistory([hist EXCEPT !.apiCalls = Spent])
             ELSE [hist EXCEPT !.pc = "commit", !.apiCalls = Spent,
                     !.commits = SubSeq(commits, 1, Min({Len(commits), Max({1, limits.maxHistoryItems})}))]

EndCommits(limits) ==
  /\ hist.pc = "commit" /\ (hist.commits = <<>> \/ KnowsEnough(limits))
  /\ hist' = [hist EXCEPT !.pc = "pull"]

\* A pull request that is not known yet and not under review, up to the limit.
MutAddPull(h, p, limits) ==
  IF p.number = PrNumber \/ p.number \in h.knownPrs THEN h
  ELSE [h EXCEPT !.prs = Append(@, p), !.knownPrs = @ \cup {p.number}]
AddPull(h, p, limits) ==
  IF \/ p.number = PrNumber \/ p.number \in h.knownPrs
     \/ Cardinality(h.knownPrs) >= limits.maxHistoryItems
  THEN h ELSE [h EXCEPT !.prs = Append(@, p), !.knownPrs = @ \cup {p.number}]

ListPulls(limits, fails) ==
  /\ hist.pc = "commit" /\ hist.commits # <<>> /\ ~KnowsEnough(limits)
  /\ hist' = IF fails THEN [hist EXCEPT !.commits = Tail(@)]
             ELSE IF Spends THEN [hist EXCEPT !.pc = "pull", !.apiCalls = Spent]
             ELSE FoldLeft(LAMBDA h, p : AddPull(h, p, limits),
                           [hist EXCEPT !.commits = Tail(@), !.apiCalls = Spent],
                           PullsOf[Head(hist.commits)])

EndPulls ==
  /\ hist.pc = "pull" /\ hist.prs = <<>>
  /\ hist' = NextFileOf(hist)

\* The pull request is an item, and so are its comments on the file.  GitHub
\* returns the latest `take', replies and other files included.
ListComments(limits, fails) ==
  /\ hist.pc = "pull" /\ hist.prs # <<>>
  /\ LET pr == Head(hist.prs)
         file == Head(hist.files)
         take == limits.maxHistoryComments - Comments(hist.items)
         page == SubSeq(CommentsOn[pr.number], 1, Min({take, Len(CommentsOn[pr.number])}))
         kept == Kept(page, {c \in ToSet(page) : ~c.reply /\ c.file = file})
         listed == [hist EXCEPT !.prs = Tail(@),
                      !.items = Append(@, [type |-> "pull_request", pr |-> pr.number,
                                           file |-> file, at |-> pr.at])]
     IN hist' =
          IF take <= 0 \/ fails THEN listed
          ELSE IF Spends THEN NextFileOf([listed EXCEPT !.apiCalls = Spent])
          ELSE [listed EXCEPT !.apiCalls = Spent,
                  !.items = @ \o [i \in DOMAIN kept |-> [type |-> "review_comment", pr |-> pr.number,
                                                         file |-> file, at |-> kept[i].at]]]

HistoryStep(limits, fails) ==
  \/ ~fails /\ (EndHistory(limits) \/ EndCommits(limits) \/ EndPulls)
  \/ ListCommits(limits, fails)
  \/ ListPulls(limits, fails)
  \/ ListComments(limits, fails)
=============================================================================
