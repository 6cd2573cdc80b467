------------------------------ MODULE CITriage ------------------------------
(***************************************************************************)
(* The CI triage worker (apps/ci-worker): the handler of ci-triage jobs,   *)
(* its `failed` listener, the log fetches and the retries on rate limits,  *)
(* over one CIRun row, its job and the pull request's comments.            *)
(*                                                                         *)
(* There is no lease here: a job that BullMQ runs again runs beside the    *)
(* handler it was taken from.  One action per await.                       *)
(***************************************************************************)
EXTENDS Naturals, Sequences, FiniteSets

CONSTANTS
  Workers,     \* worker processes, one job each
  NoWorker,
  Attempts,    \* attempts of a job (queue.ts)
  MaxRetries,  \* retries of a rate-limited call
  MaxStalledCount, \* how often BullMQ runs a stalled job again (its default: 1)
  FailedJobs,  \* how many failed jobs a workflow run may have
  Verdicts,    \* classifications the model may answer, "UNKNOWN" among them
  FaultKinds,  \* faults considered
  MaxFaults    \* bound on their number

ASSUME TriageAssumption ==
  /\ IsFiniteSet(Workers) /\ NoWorker \notin Workers
  /\ Attempts \in Nat \ {0}
  /\ MaxRetries \in Nat
  /\ MaxStalledCount \in Nat
  /\ FailedJobs \subseteq Nat
  /\ "UNKNOWN" \in Verdicts
  /\ MaxFaults \in Nat

VARIABLES
  row,       \* the CIRun row
  job,       \* its job on the ci-triage queue
  handler,   \* each process: where its handler is, and its local variables
  failing,   \* the process whose failed listener is about to write FAILED
  comments,  \* verdicts of the comments on the pull request; a comment's id is its index
  calls,     \* model calls made
  stalls,    \* times the job was put back although an attempt of it had not ended
  suffered,  \* kinds of faults so far
  faults     \* and their number

vars == <<row, job, handler, failing, comments, calls, stalls, suffered, faults>>
calm == <<suffered, faults>>

NoVerdict == "none"
Verdict == Verdicts \cup {NoVerdict}
Unset == "unset"  \* a null column

\* left: failed jobs whose log is to be fetched; logs: whether one was had;
\* tries: retries of the call; posted: the comment's id; fits: whether the row
\* can take the summary, which nobody checks to be a string.
\* pullNumber decides where the result goes; a workflow run without an open
\* pull request gets a check run, whose id is not recorded.
Row == [status : {"QUEUED", "RUNNING", "COMPLETED", "FAILED", "GONE"},
        classification : Verdicts \cup {Unset}, postedCommentId : Nat, pullNumber : BOOLEAN]

Idle == [pc |-> "idle", left |-> 0, logs |-> FALSE, tries |-> 0, verdict |-> NoVerdict,
         posted |-> 0, fits |-> TRUE]
PCs  == {"idle", "running", "jobs", "log", "load", "noLogs", "ask", "post", "complete", "settle"}

TypeOK ==
  /\ row \in Row
  /\ job \in [state : {"waiting", "active", "delayed", "completed", "failed"},
              attemptsMade : 0 .. Attempts, owner : Workers \cup {NoWorker}]
  /\ handler \in [Workers -> [pc : PCs, left : Nat, logs : BOOLEAN, tries : Nat,
                              verdict : Verdict, posted : Nat, fits : BOOLEAN]]
  /\ failing \in Workers \cup {NoWorker}
  /\ comments \in Seq(Verdicts)
  /\ calls \in Nat /\ stalls \in Nat /\ faults \in Nat
  /\ suffered \subseteq FaultKinds

Init ==
  /\ row \in [status : {"QUEUED"}, classification : {Unset}, postedCommentId : {0}, pullNumber : BOOLEAN]
  /\ job = [state |-> "waiting", attemptsMade |-> 0, owner |-> NoWorker]
  /\ handler = [w \in Workers |-> Idle]
  /\ failing = NoWorker
  /\ comments = <<>>
  /\ calls = 0 /\ stalls = 0 /\ faults = 0
  /\ suffered = {}

Fault(kind) ==
  /\ kind \in FaultKinds
  /\ faults < MaxFaults
  /\ suffered' = suffered \cup {kind}
  /\ faults' = faults + 1

At(w, pc) == handler[w].pc = pc
Goto(w, pc) == handler' = [handler EXCEPT ![w] = [@ EXCEPT !.pc = pc]]
Gone == row.status = "GONE"

-----------------------------------------------------------------------------
(* The queue, and how a run of the handler ends: only the process that     *)
(* holds the job's lock settles the job.                                   *)

Take(w) ==
  /\ At(w, "idle")
  /\ job.state = "waiting" /\ stalls <= MaxStalledCount
  /\ job' = [job EXCEPT !.state = "active", !.owner = w]
  /\ Goto(w, "running")
  /\ UNCHANGED <<row, failing, comments, calls, stalls, calm>>

OwnsJob(w) == job.state = "active" /\ job.owner = w

Return(w) ==
  /\ handler' = [handler EXCEPT ![w] = Idle]
  /\ job' = IF OwnsJob(w) THEN [job EXCEPT !.state = "completed", !.owner = NoWorker] ELSE job
  /\ UNCHANGED failing

Exhausted(made) == made >= Attempts

Unowned(made) == [state |-> IF Exhausted(made) THEN "failed" ELSE "delayed",
                  attemptsMade |-> made, owner |-> NoWorker]

\* The listener does not ask whether attempts are left.
MutThrow(w) ==
  /\ handler' = [handler EXCEPT ![w] = Idle]
  /\ IF OwnsJob(w) THEN job' = Unowned(job.attemptsMade + 1) /\ failing' = w
                   ELSE UNCHANGED <<job, failing>>
\* The listener counts the failing attempt as one more.
MutThrowLate(w) ==
  LET made == job.attemptsMade + 1 IN
  /\ handler' = [handler EXCEPT ![w] = Idle]
  /\ IF OwnsJob(w) THEN job' = Unowned(made) /\ failing' = IF made > Attempts THEN w ELSE failing
                   ELSE UNCHANGED <<job, failing>>
\* The failed listener has something to do for an exhausted job only.
Throw(w) ==
  LET made == job.attemptsMade + 1 IN
  /\ handler' = [handler EXCEPT ![w] = Idle]
  /\ IF OwnsJob(w) THEN job' = Unowned(made) /\ failing' = IF Exhausted(made) THEN w ELSE failing
                   ELSE UNCHANGED <<job, failing>>

\* A job that stalled too often is not given to the handler any more: BullMQ
\* fails it, for good, in the process that would have run it.
FailStalled(w) ==
  LET made == job.attemptsMade + 1 IN
  /\ At(w, "idle")
  /\ job.state = "waiting" /\ stalls > MaxStalledCount
  /\ job' = [state |-> "failed", attemptsMade |-> made, owner |-> NoWorker]
  /\ failing' = IF Exhausted(made) THEN w ELSE failing
  /\ UNCHANGED <<row, handler, comments, calls, stalls, calm>>

\* The job of a dead process, or of one that lost its lock, is put back.
Redeliver ==
  /\ job.state = "active"
  /\ \/ job.owner = NoWorker /\ UNCHANGED calm
     \/ job.owner # NoWorker /\ Fault("lockLost")
  /\ job' = [job EXCEPT !.state = "waiting", !.owner = NoWorker]
  /\ stalls' = stalls + 1
  /\ UNCHANGED <<row, handler, failing, comments, calls>>

BackoffOver ==
  /\ job.state = "delayed"
  /\ job' = [job EXCEPT !.state = "waiting"]
  /\ UNCHANGED <<row, handler, failing, comments, calls, stalls, calm>>

Crash(w) ==
  /\ ~At(w, "idle")
  /\ Fault("crash")
  /\ handler' = [handler EXCEPT ![w] = Idle]
  /\ job' = IF job.owner = w THEN [job EXCEPT !.owner = NoWorker] ELSE job
  /\ UNCHANGED <<row, failing, comments, calls, stalls>>

-----------------------------------------------------------------------------
(* The handler.  A write of the row throws when an uninstall has deleted   *)
(* it, the last one also when it does not fit.                             *)

SetRunning(w) ==
  /\ At(w, "running")
  /\ IF Gone
     THEN Throw(w) /\ UNCHANGED row
     ELSE /\ row' = [row EXCEPT !.status = "RUNNING"]
          /\ Goto(w, "jobs")
          /\ UNCHANGED <<job, failing>>
  /\ UNCHANGED <<comments, calls, stalls, calm>>

\* getFailedJobLogs: the list of the run's jobs, then the log of each one
\* that failed.  A log that cannot be had is skipped.
ListJobs(w) ==
  /\ At(w, "jobs")
  /\ \E n \in FailedJobs : handler' = [handler EXCEPT ![w] = [@ EXCEPT !.pc = "log", !.left = n]]
  /\ UNCHANGED <<row, job, failing, comments, calls, stalls, calm>>

FetchLog(w) ==
  /\ At(w, "log")
  /\ IF handler[w].left = 0 THEN Goto(w, "load")
     ELSE \E got \in BOOLEAN :
            handler' = [handler EXCEPT ![w] =
                          [@ EXCEPT !.left = handler[w].left - 1, !.logs = handler[w].logs \/ got]]
  /\ UNCHANGED <<row, job, failing, comments, calls, stalls, calm>>

LoadRun(w) ==
  /\ At(w, "load")
  /\ IF Gone THEN Throw(w)
     ELSE Goto(w, IF handler[w].logs THEN "ask" ELSE "noLogs") /\ UNCHANGED <<job, failing>>
  /\ UNCHANGED <<row, comments, calls, stalls, calm>>

\* invokeWithRetry: one call of the model.
MutMayRetry(w) == handler[w].tries <= MaxRetries
MayRetry(w) == handler[w].tries < MaxRetries

RateLimited(w) ==
  IF MayRetry(w) THEN /\ handler' = [handler EXCEPT ![w] = [@ EXCEPT !.tries = handler[w].tries + 1]]
                      /\ UNCHANGED <<job, failing>>
                 ELSE Throw(w)

\* What triageFailure makes of an answer: JSON that does not parse is
\* UNKNOWN; JSON without a classification breaks the comment's title.
Answered(w) ==
  \E answer \in Verdicts \cup {"unparsable", "noClassification"} :
    IF answer = "noClassification" THEN Throw(w)
    ELSE /\ handler' = [handler EXCEPT ![w] =
                          [@ EXCEPT !.pc = "post", !.verdict = IF answer = "unparsable" THEN "UNKNOWN" ELSE answer]]
         /\ UNCHANGED <<job, failing>>

AskModel(w) ==
  /\ At(w, "ask")
  /\ calls' = calls + 1
  /\ RateLimited(w) \/ Answered(w) \/ Throw(w)
  /\ UNCHANGED <<row, comments, stalls, calm>>

\* An answer whose summary is not a string: a comment can be made of it.
UnfitAnswer(w) ==
  /\ At(w, "ask")
  /\ Fault("badSummary")
  /\ calls' = calls + 1
  /\ \E answer \in Verdicts :
       handler' = [handler EXCEPT ![w] = [@ EXCEPT !.pc = "post", !.verdict = answer, !.fits = FALSE]]
  /\ UNCHANGED <<row, job, failing, comments, stalls>>

\* The comment, or the check run of a workflow run without a pull request.
\* An error here is logged and forgotten, even when the request was carried out.
Comment(w) == comments' = IF row.pullNumber THEN Append(comments, handler[w].verdict) ELSE comments

\* The error of the request is thrown on.
MutPost(w) ==
  /\ At(w, "post")
  /\ \/ /\ Comment(w)
        /\ handler' = [handler EXCEPT ![w] = [@ EXCEPT !.pc = "complete",
                         !.posted = IF row.pullNumber THEN Len(comments) + 1 ELSE 0]]
        /\ UNCHANGED <<job, failing>>
     \/ (Comment(w) \/ UNCHANGED comments) /\ Throw(w)
  /\ UNCHANGED <<row, calls, stalls, calm>>
Post(w) ==
  /\ At(w, "post")
  /\ \/ /\ Comment(w)
        /\ handler' = [handler EXCEPT ![w] = [@ EXCEPT !.pc = "complete",
                         !.posted = IF row.pullNumber THEN Len(comments) + 1 ELSE 0]]
     \/ (Comment(w) \/ UNCHANGED comments) /\ Goto(w, "complete")
  /\ UNCHANGED <<row, job, failing, calls, stalls, calm>>

\* The classification left out of the update.
MutCompleted(c, id) ==
  [row EXCEPT !.status = "COMPLETED", !.postedCommentId = IF id = 0 THEN row.postedCommentId ELSE id]
\* `postedCommentId: undefined` leaves the column as it is.
Completed(c, id) ==
  [row EXCEPT !.status = "COMPLETED", !.classification = c,
              !.postedCommentId = IF id = 0 THEN row.postedCommentId ELSE id]

StoreResult(w) ==
  row' = IF At(w, "noLogs") THEN Completed("UNKNOWN", 0)
                            ELSE Completed(handler[w].verdict, handler[w].posted)

\* No return after "no logs could be retrieved".
MutComplete(w) ==
  /\ handler[w].pc \in {"noLogs", "complete"}
  /\ IF Gone \/ ~handler[w].fits THEN Throw(w) /\ UNCHANGED row
     ELSE /\ StoreResult(w)
          /\ handler' = [handler EXCEPT ![w] = [Idle EXCEPT !.pc = IF At(w, "noLogs") THEN "ask" ELSE "settle"]]
          /\ UNCHANGED <<job, failing>>
  /\ UNCHANGED <<comments, calls, stalls, calm>>
Complete(w) ==
  /\ handler[w].pc \in {"noLogs", "complete"}
  /\ IF Gone \/ ~handler[w].fits THEN Throw(w) /\ UNCHANGED row
     ELSE /\ StoreResult(w)
          /\ handler' = [handler EXCEPT ![w] = [Idle EXCEPT !.pc = "settle"]]
          /\ UNCHANGED <<job, failing>>
  /\ UNCHANGED <<comments, calls, stalls, calm>>

SettleJob(w) ==
  /\ At(w, "settle")
  /\ Return(w)
  /\ UNCHANGED <<row, comments, calls, stalls, calm>>

HandlerStep(w) ==
  SetRunning(w) \/ ListJobs(w) \/ FetchLog(w) \/ LoadRun(w) \/ AskModel(w) \/ Post(w) \/ Complete(w) \/ SettleJob(w)

\* A request of GitHub or the database throws ...
AwaitThrows(w) ==
  /\ handler[w].pc \in {"running", "jobs", "load", "noLogs", "complete"}
  /\ Fault("throws")
  /\ Throw(w)
  /\ UNCHANGED <<row, comments, calls, stalls>>

\* ... or the last write lands and its answer is lost.
AnswerLost(w) ==
  /\ handler[w].pc \in {"noLogs", "complete"} /\ ~Gone /\ handler[w].fits
  /\ Fault("answerLost")
  /\ StoreResult(w)
  /\ Throw(w)
  /\ UNCHANGED <<comments, calls, stalls>>

-----------------------------------------------------------------------------
(* The failed listener of an exhausted job.  Its update is unconditional;  *)
(* it throws when the row is gone, in an event handler.                    *)

Listener ==
  /\ failing # NoWorker
  /\ row' = IF Gone THEN row ELSE [row EXCEPT !.status = "FAILED"]
  /\ failing' = NoWorker
  /\ UNCHANGED <<job, handler, comments, calls, stalls, calm>>

\* Its update throws, or its process dies.
ListenerLost ==
  /\ failing # NoWorker
  /\ Fault("listenerLost")
  /\ failing' = NoWorker
  /\ UNCHANGED <<row, job, handler, comments, calls, stalls>>

Uninstall ==
  /\ ~Gone
  /\ row' = [row EXCEPT !.status = "GONE", !.classification = Unset, !.postedCommentId = 0]
  /\ UNCHANGED <<job, handler, failing, comments, calls, stalls, calm>>

Next ==
  \/ \E w \in Workers : \/ Take(w) \/ FailStalled(w) \/ HandlerStep(w) \/ UnfitAnswer(w)
                        \/ AwaitThrows(w) \/ AnswerLost(w) \/ Crash(w)
  \/ Redeliver \/ BackoffOver \/ Listener \/ ListenerLost \/ Uninstall

Spec == Init /\ [][Next]_vars

\* BullMQ keeps handing out the job while it waits and notices that it stalled
\* (as often as MaxStalledCount allows the handler sees it again), and every
\* await settles.  Nothing is assumed of a lock that is lost.
Fairness ==
  /\ \A w \in Workers : WF_vars(Take(w) \/ FailStalled(w)) /\ WF_vars(HandlerStep(w))
  /\ WF_vars(job.owner = NoWorker /\ Redeliver)
  /\ WF_vars(BackoffOver) /\ WF_vars(Listener)

FairSpec == Spec /\ Fairness

-----------------------------------------------------------------------------
(* Properties.                                                             *)

\* Some run of the handler may have begun, or gone on, after another one, or
\* after the result was stored.
RunAgain == suffered \cap {"answerLost", "crash", "lockLost"} # {}

\* A second comment takes a fault after the first: the handler never starts
\* over by itself once it has posted (index.ts:43 to 71).
PostsCostFaults == Len(comments) <= 1 + faults

\* The classification the dashboard shows beside a comment is the one the
\* comment gives, although retries may end differently and leave the id alone.
RowShowsItsComment ==
  row.postedCommentId # 0 /\ ~RunAgain => row.classification = comments[row.postedCommentId]

\* FAILED is written for an exhausted job, and without faults only for one
\* that never told anybody a result.
FailedMeansExhausted ==
  row.status = "FAILED" =>
    /\ job.state = "failed" /\ job.attemptsMade = Attempts
    /\ faults = 0 => comments = <<>>

\* Rate limits multiply: retries of a call, by the attempts of a job and the
\* runs it gets for having stalled, whatever happens to it.
CallsBounded == calls <= (MaxRetries + 1) * (Attempts + MaxStalledCount)

\* COMPLETED is final as long as no second run of the handler can be about:
\* SetRunning and the listener write unconditionally.
CompletedStays ==
  [][row.status = "COMPLETED" => row'.status \in {"COMPLETED", "GONE"} \/ RunAgain']_vars

\* The queue gave the job up while attempts of it were left: the listener,
\* which compares the attempts only, does not write FAILED then.
StalledOut == job.state = "failed" /\ job.attemptsMade < Attempts

\* The job ends, and the row leaves QUEUED and RUNNING for good, unless the job
\* stalled out, the listener was lost, or a handler that has lost its job
\* restarts the row and then throws.
Settles ==
  <>[](/\ job.state \in {"completed", "failed"}
       /\ \/ row.status \in {"COMPLETED", "FAILED", "GONE"}
          \/ StalledOut
          \/ "listenerLost" \in suffered /\ job.state = "failed"
          \/ "lockLost" \in suffered)
=============================================================================
