---------------------------- MODULE TriageProofs ----------------------------
(***************************************************************************)
(* The triage worker for any number of processes, attempts, retries and    *)
(* faults: types, what a comment costs, and what FAILED means.             *)
(***************************************************************************)
EXTENDS CITriage, FiniteSetTheorems, TLAPS

Handler == [pc : PCs, left : Nat, logs : BOOLEAN, tries : Nat, verdict : Verdict, posted : Nat,
            fits : BOOLEAN]
Job == [state : {"waiting", "active", "delayed", "completed", "failed"},
        attemptsMade : 0 .. Attempts, owner : Workers \cup {NoWorker}]

\* A handler that posts or stores has a verdict.
TypeInv ==
  /\ TypeOK
  /\ \A w \in Workers : handler[w].pc \in {"post", "complete"} => handler[w].verdict \in Verdicts
  /\ job.state \in {"waiting", "active", "delayed"} => job.attemptsMade < Attempts

-----------------------------------------------------------------------------
(* What the pieces of the actions do.                                      *)

LEMMA IdleType == Idle \in Handler /\ Idle.pc = "idle" /\ Idle.fits
BY DEF Idle, Handler, PCs, Verdict

LEMMA GotoFacts ==
  ASSUME TypeInv, NEW w \in Workers, NEW pc \in PCs, Goto(w, pc)
  PROVE  /\ handler'[w] \in Handler /\ handler'[w].pc = pc /\ handler'[w].verdict = handler[w].verdict
         /\ handler'[w].fits <=> handler[w].fits
         /\ handler' = [handler EXCEPT ![w] = handler'[w]]
<1>1. handler \in [Workers -> Handler]
  BY DEF TypeInv, TypeOK, Handler
<1>2. handler[w] \in Handler
  BY <1>1
<1>3. handler'[w] = [handler[w] EXCEPT !.pc = pc] /\ handler' = [handler EXCEPT ![w] = [handler[w] EXCEPT !.pc = pc]]
  BY <1>1 DEF Goto
<1>4. ASSUME NEW h \in Handler
      PROVE  LET q == [h EXCEPT !.pc = pc]
             IN  q \in Handler /\ q.pc = pc /\ q.verdict = h.verdict /\ (q.fits <=> h.fits)
  BY DEF Handler
<1> QED
  BY <1>2, <1>3, <1>4

\* A step of the handler of w, by what it leaves there.
LEMMA HandlerType ==
  ASSUME TypeInv, NEW w \in Workers, NEW h \in Handler, handler' = [handler EXCEPT ![w] = h],
         h.pc \in {"post", "complete"} => h.verdict \in Verdicts
  PROVE  /\ handler' \in [Workers -> Handler]
         /\ handler'[w] = h /\ \A v \in Workers \ {w} : handler'[v] = handler[v]
         /\ \A v \in Workers : handler'[v].pc \in {"post", "complete"} => handler'[v].verdict \in Verdicts
<1>1. handler \in [Workers -> Handler]
  BY DEF TypeInv, TypeOK, Handler
<1>2. /\ handler' \in [Workers -> Handler]
      /\ handler'[w] = h /\ \A v \in Workers \ {w} : handler'[v] = handler[v]
  BY <1>1
<1> QED
  BY <1>2 DEF TypeInv

JobOK(j) ==
  /\ j \in Job
  /\ j.state \in {"waiting", "active", "delayed"} => j.attemptsMade < Attempts

LEMMA TypeInvParts ==
  TypeInv <=> /\ row \in Row
              /\ JobOK(job)
              /\ handler \in [Workers -> Handler]
              /\ \A w \in Workers : handler[w].pc \in {"post", "complete"} => handler[w].verdict \in Verdicts
              /\ failing \in Workers \cup {NoWorker}
              /\ comments \in Seq(Verdicts)
              /\ calls \in Nat /\ stalls \in Nat /\ faults \in Nat
              /\ suffered \subseteq FaultKinds
BY DEF TypeInv, TypeOK, Job, JobOK, Handler

LEMMA TypeInvPartsNext ==
  ASSUME row' \in Row, JobOK(job'), handler' \in [Workers -> Handler],
         \A w \in Workers : handler'[w].pc \in {"post", "complete"} => handler'[w].verdict \in Verdicts,
         failing' \in Workers \cup {NoWorker}, comments' \in Seq(Verdicts),
         calls' \in Nat, stalls' \in Nat, faults' \in Nat, suffered' \subseteq FaultKinds
  PROVE  TypeInv'
BY DEF TypeInv, TypeOK, Job, JobOK, Handler

LEMMA JobSteps ==
  ASSUME NEW j, JobOK(j)
  PROVE  /\ \A w \in Workers \cup {NoWorker} : JobOK([j EXCEPT !.owner = w])
         /\ \A w \in Workers : j.state = "waiting" => JobOK([j EXCEPT !.state = "active", !.owner = w])
         /\ j.state = "active" => JobOK([j EXCEPT !.state = "waiting", !.owner = NoWorker])
         /\ j.state = "delayed" => JobOK([j EXCEPT !.state = "waiting"])
         /\ JobOK([j EXCEPT !.state = "completed", !.owner = NoWorker])
         /\ j.state = "active" => JobOK(Unowned(j.attemptsMade + 1))
<1>1. Attempts \in Nat
  BY TriageAssumption
<1>2. \A w \in Workers \cup {NoWorker} : JobOK([j EXCEPT !.owner = w])
  BY DEF JobOK, Job
<1>3. \A w \in Workers : j.state = "waiting" => JobOK([j EXCEPT !.state = "active", !.owner = w])
  BY DEF JobOK, Job
<1>4. j.state = "active" => JobOK([j EXCEPT !.state = "waiting", !.owner = NoWorker])
  BY DEF JobOK, Job
<1>5. j.state = "delayed" => JobOK([j EXCEPT !.state = "waiting"])
  BY DEF JobOK, Job
<1>6. JobOK([j EXCEPT !.state = "completed", !.owner = NoWorker])
  BY DEF JobOK, Job
<1>7. j.state = "active" => JobOK(Unowned(j.attemptsMade + 1))
  <2>1. ASSUME j.state = "active", NEW made, made = j.attemptsMade + 1
        PROVE  JobOK(Unowned(made))
    <3>1. made \in 0 .. Attempts /\ (made < Attempts \/ made >= Attempts)
      BY <1>1, <2>1 DEF JobOK, Job
    <3>2. /\ Unowned(made) \in Job
          /\ Unowned(made).state = "delayed" => ~Exhausted(made)
          /\ Unowned(made).state \in {"failed", "delayed"} /\ Unowned(made).attemptsMade = made
      BY <3>1 DEF Unowned, Job
    <3> QED
      BY <1>1, <3>1, <3>2 DEF JobOK, Exhausted
  <2> QED
    BY <2>1
<1> QED
  BY <1>2, <1>3, <1>4, <1>5, <1>6, <1>7

\* The end of a job that stalled too often.
LEMMA StalledFacts ==
  ASSUME TypeInv, NEW w \in Workers, FailStalled(w)
  PROVE  /\ JobOK(job') /\ job.state = "waiting" /\ job'.state = "failed"
         /\ job'.attemptsMade = job.attemptsMade + 1
         /\ \/ job'.attemptsMade = Attempts /\ failing' = w
            \/ UNCHANGED failing
         /\ UNCHANGED <<row, handler, comments, calls, stalls, calm>>
<1>1. JobOK(job) /\ Attempts \in Nat
  BY TypeInvParts, TriageAssumption
<1>2. /\ job.state = "waiting"
      /\ job' = [state |-> "failed", attemptsMade |-> job.attemptsMade + 1, owner |-> NoWorker]
      /\ failing' = IF Exhausted(job.attemptsMade + 1) THEN w ELSE failing
      /\ UNCHANGED <<row, handler, comments, calls, stalls, calm>>
  BY DEF FailStalled
<1>3. job.attemptsMade \in 0 .. Attempts /\ job.attemptsMade < Attempts
  BY <1>1, <1>2 DEF JobOK, Job
<1>4. JobOK(job')
  BY <1>1, <1>2, <1>3 DEF JobOK, Job
<1> QED
  BY <1>1, <1>2, <1>3, <1>4 DEF Exhausted

\* The end of a run by an error.
LEMMA ThrowFacts ==
  ASSUME TypeInv, NEW w \in Workers, Throw(w)
  PROVE  /\ handler' = [handler EXCEPT ![w] = Idle]
         /\ JobOK(job')
         /\ failing' \in Workers \cup {NoWorker}
         /\ \/ /\ OwnsJob(w) /\ job.state = "active" /\ job.owner = w
               /\ job'.state \in {"failed", "delayed"} /\ job'.owner = NoWorker
               /\ failing' # failing => job'.state = "failed" /\ job'.attemptsMade = Attempts
               /\ job'.state = "failed" => job'.attemptsMade = Attempts
            \/ UNCHANGED <<job, failing>>
<1>1. JobOK(job) /\ failing \in Workers \cup {NoWorker} /\ Attempts \in Nat
  BY TypeInvParts, TriageAssumption
<1>2. CASE OwnsJob(w)
  <2> DEFINE made == job.attemptsMade + 1
  <2>1. job' = Unowned(made) /\ failing' = IF Exhausted(made) THEN w ELSE failing
    BY <1>2 DEF Throw
  <2>2. job.state = "active" /\ job.owner = w /\ job.attemptsMade \in 0 .. Attempts /\ job.attemptsMade < Attempts
    BY <1>1, <1>2 DEF OwnsJob, JobOK, Job
  <2>3. JobOK(Unowned(made))
    BY <1>1, <2>2, JobSteps
  <2>4. Exhausted(made) <=> made = Attempts
    BY <1>1, <2>2 DEF Exhausted
  <2>5. /\ Unowned(made).state = IF Exhausted(made) THEN "failed" ELSE "delayed"
        /\ Unowned(made).attemptsMade = made /\ Unowned(made).owner = NoWorker
    BY DEF Unowned
  <2> HIDE DEF made
  <2> QED
    BY <1>1, <1>2, <2>1, <2>2, <2>3, <2>4, <2>5 DEF Throw
<1>3. CASE ~OwnsJob(w)
  BY <1>1, <1>3 DEF Throw
<1> QED
  BY <1>2, <1>3

-----------------------------------------------------------------------------
(***************************************************************************)
(* A step of a handler, by kind.                                           *)
(***************************************************************************)
PrePosting == {"running", "jobs", "log", "load", "ask", "post"}
\* Whether w may yet post: once the row is gone only a handler past its look at it.
PrePost(w) == handler[w].pc \in IF Gone THEN {"ask", "post"} ELSE PrePosting

InHandler(w) ==
  /\ \E h \in Handler : /\ handler' = [handler EXCEPT ![w] = h]
                        /\ h.pc \in {"post", "complete"} => h.verdict \in Verdicts
  /\ row' \in Row /\ (Gone' <=> Gone) /\ (row'.status = "FAILED" => row.status = "FAILED")
  /\ calls' \in Nat /\ stalls' = stalls
  /\ \/ UNCHANGED calm
     \/ suffered' \subseteq FaultKinds /\ faults' = faults + 1

Advances(w) ==
  /\ PrePost(w)' => PrePost(w)
  /\ (handler[w].fits => handler'[w].fits) \/ faults' = faults + 1
  /\ ~At(w, "idle")
  /\ UNCHANGED <<job, failing, comments>>
Throws(w) ==
  /\ PrePost(w) \/ Gone \/ ~handler[w].fits \/ faults' = faults + 1
  /\ ~At(w, "idle") /\ Throw(w)
  /\ UNCHANGED comments
Posts(w) ==
  /\ At(w, "post") /\ handler'[w].pc = "complete" /\ (handler[w].fits => handler'[w].fits)
  /\ \E v \in Verdicts : comments' = comments \/ comments' = Append(comments, v)
  /\ UNCHANGED <<job, failing>>
Ends(w) ==
  /\ At(w, "settle") /\ Return(w)
  /\ UNCHANGED comments

LEMMA RowSteps ==
  ASSUME row \in Row, NEW c \in Verdicts, NEW id \in Nat, ~Gone
  PROVE  /\ Completed(c, id) \in Row /\ Completed(c, id).status = "COMPLETED"
         /\ [row EXCEPT !.status = "RUNNING"] \in Row /\ [row EXCEPT !.status = "RUNNING"].status = "RUNNING"
<1>1. row.postedCommentId \in Nat
  BY DEF Row
<1>2. ASSUME NEW n \in Nat
      PROVE  LET q == [row EXCEPT !.status = "COMPLETED", !.classification = c, !.postedCommentId = n]
             IN q \in Row /\ q.status = "COMPLETED"
  BY DEF Row
<1>3. [row EXCEPT !.status = "RUNNING"] \in Row /\ [row EXCEPT !.status = "RUNNING"].status = "RUNNING"
  BY DEF Row
<1> QED
  BY <1>1, <1>2, <1>3 DEF Completed

LEMMA ThrowStep ==
  ASSUME TypeInv, NEW w \in Workers, ~At(w, "idle"), Throw(w), UNCHANGED <<row, comments, stalls>>, calls' \in Nat,
         UNCHANGED calm \/ (suffered' \subseteq FaultKinds /\ faults' = faults + 1),
         PrePost(w) \/ Gone \/ ~handler[w].fits \/ faults' = faults + 1
  PROVE  InHandler(w) /\ Throws(w)
<1>1. handler' = [handler EXCEPT ![w] = Idle] /\ Idle \in Handler /\ Idle.pc = "idle"
  BY IdleType DEF Throw
<1>2. row' \in Row
  BY TypeInvParts
<1> QED
  BY <1>1, <1>2 DEF InHandler, Throws, Gone

\* A handler that goes on without touching the row.
LEMMA OnStep ==
  ASSUME TypeInv, NEW w \in Workers, NEW h \in Handler, handler' = [handler EXCEPT ![w] = h],
         h.pc \in {"post", "complete"} => h.verdict \in Verdicts,
         UNCHANGED <<row, stalls, calm>>, calls' \in Nat
  PROVE  InHandler(w) /\ handler'[w] = h /\ (Gone' <=> Gone)
<1>1. row' \in Row
  BY TypeInvParts
<1>2. handler'[w] = h
  BY HandlerType
<1> QED
  BY <1>1, <1>2 DEF InHandler, Gone

LEMMA StoreFacts ==
  ASSUME TypeInv, NEW w \in Workers, handler[w].pc \in {"noLogs", "complete"}, ~Gone, StoreResult(w)
  PROVE  row' \in Row /\ row'.status = "COMPLETED"
<1>1. handler[w] \in Handler /\ row \in Row
  BY TypeInvParts
<1>2. handler[w].posted \in Nat /\ 0 \in Nat /\ "UNKNOWN" \in Verdicts
  BY <1>1, TriageAssumption DEF Handler
<1>3. ~At(w, "noLogs") => handler[w].verdict \in Verdicts
  BY DEF TypeInv, At
<1> QED
  BY <1>1, <1>2, <1>3, RowSteps DEF StoreResult

Kinds(w) == InHandler(w) /\ (Advances(w) \/ Throws(w) \/ Posts(w) \/ Ends(w))

LEMMA HandlerKinds ==
  ASSUME TypeInv, NEW w \in Workers, HandlerStep(w)
  PROVE  Kinds(w)
<1>0. /\ handler[w] \in Handler /\ calls \in Nat /\ row \in Row /\ comments \in Seq(Verdicts)
      /\ failing \in Workers \cup {NoWorker}
  BY TypeInvParts
<1>1. CASE SetRunning(w)
  <2>0. At(w, "running") /\ UNCHANGED <<comments, calls, stalls, calm>>
    BY <1>1 DEF SetRunning
  <2>1. CASE Gone
    BY <1>0, <1>1, <2>0, <2>1, ThrowStep DEF SetRunning, Kinds, At
  <2>2. CASE ~Gone
    <3>1. row' = [row EXCEPT !.status = "RUNNING"] /\ Goto(w, "jobs") /\ UNCHANGED <<job, failing>>
      BY <1>1, <2>2 DEF SetRunning
    <3>2. row' \in Row /\ row'.status = "RUNNING"
      BY <1>0, <3>1 DEF Row
    <3>3. /\ handler'[w] \in Handler /\ handler'[w].pc = "jobs" /\ (handler[w].fits => handler'[w].fits)
          /\ handler' = [handler EXCEPT ![w] = handler'[w]]
      BY <3>1, GotoFacts DEF PCs
    <3>4. InHandler(w)
      BY <1>0, <2>0, <2>2, <3>2, <3>3 DEF InHandler, Gone
    <3>5. Advances(w)
      BY <2>0, <2>2, <3>1, <3>2, <3>3 DEF Advances, PrePost, PrePosting, Gone, At
    <3> QED
      BY <3>4, <3>5 DEF Kinds
  <2> QED
    BY <2>1, <2>2
<1>2. CASE ListJobs(w)
  <2>1. PICK n \in FailedJobs : handler' = [handler EXCEPT ![w] = [handler[w] EXCEPT !.pc = "log", !.left = n]]
    BY <1>2 DEF ListJobs
  <2>2. n \in Nat
    BY TriageAssumption
  <2> DEFINE h == [handler[w] EXCEPT !.pc = "log", !.left = n]
  <2>3. h \in Handler /\ h.pc = "log" /\ (handler[w].fits => h.fits)
    BY <1>0, <2>2 DEF Handler, PCs
  <2> HIDE DEF h
  <2>4. InHandler(w) /\ handler'[w] = h /\ (Gone' <=> Gone)
    BY <1>0, <1>2, <2>1, <2>3, OnStep DEF ListJobs, h
  <2> QED
    BY <1>2, <2>3, <2>4 DEF ListJobs, Kinds, Advances, PrePost, PrePosting, At
<1>3. CASE FetchLog(w)
  <2>0. /\ At(w, "log") /\ UNCHANGED <<row, job, failing, comments, calls, stalls, calm>>
    BY <1>3 DEF FetchLog
  <2>1. CASE handler[w].left = 0
    <3>1. Goto(w, "load")
      BY <1>3, <2>1 DEF FetchLog
    <3>2. /\ handler'[w] \in Handler /\ handler'[w].pc = "load" /\ (handler[w].fits => handler'[w].fits)
          /\ handler' = [handler EXCEPT ![w] = handler'[w]]
      BY <3>1, GotoFacts DEF PCs
    <3>3. InHandler(w) /\ (Gone' <=> Gone)
      BY <1>0, <2>0, <3>2, OnStep
    <3> QED
      BY <2>0, <3>2, <3>3 DEF Kinds, Advances, PrePost, PrePosting, At
  <2>2. CASE handler[w].left # 0
    <3>1. PICK got \in BOOLEAN : handler' = [handler EXCEPT ![w] =
            [handler[w] EXCEPT !.left = handler[w].left - 1, !.logs = handler[w].logs \/ got]]
      BY <1>3, <2>2 DEF FetchLog
    <3> DEFINE left == handler[w].left - 1
               logs == handler[w].logs \/ got
               h == [handler[w] EXCEPT !.left = left, !.logs = logs]
    <3>2. left \in Nat
      BY <1>0, <2>2 DEF Handler
    <3>3. logs \in BOOLEAN
      BY <1>0 DEF Handler
    <3> HIDE DEF left, logs
    <3>4. h \in Handler /\ h.pc = "log" /\ (handler[w].fits => h.fits)
      BY <1>0, <2>0, <3>2, <3>3 DEF Handler, PCs, At
    <3>5. handler' = [handler EXCEPT ![w] = h]
      BY <3>1 DEF left, logs
    <3> HIDE DEF h
    <3>6. InHandler(w) /\ handler'[w] = h /\ (Gone' <=> Gone)
      BY <1>0, <2>0, <3>4, <3>5, OnStep
    <3> QED
      BY <2>0, <3>4, <3>6 DEF Kinds, Advances, PrePost, PrePosting, At
  <2> QED
    BY <2>1, <2>2
<1>4. CASE LoadRun(w)
  <2>0. At(w, "load") /\ UNCHANGED <<row, comments, calls, stalls, calm>>
    BY <1>4 DEF LoadRun
  <2>1. CASE Gone
    BY <1>0, <1>4, <2>0, <2>1, ThrowStep DEF LoadRun, Kinds, At
  <2>2. CASE ~Gone
    <3>1. /\ UNCHANGED <<job, failing>>
          /\ \E pc \in {"ask", "noLogs"} : Goto(w, pc)
      BY <1>4, <2>2 DEF LoadRun
    <3>2. PICK pc \in {"ask", "noLogs"} : Goto(w, pc)
      BY <3>1
    <3>3. /\ handler'[w] \in Handler /\ handler'[w].pc = pc /\ (handler[w].fits => handler'[w].fits)
          /\ handler' = [handler EXCEPT ![w] = handler'[w]]
      BY <3>2, GotoFacts DEF PCs
    <3>4. InHandler(w) /\ (Gone' <=> Gone)
      BY <1>0, <2>0, <3>3, OnStep
    <3> QED
      BY <2>0, <2>2, <3>1, <3>3, <3>4 DEF Kinds, Advances, PrePost, PrePosting, At
  <2> QED
    BY <2>1, <2>2
<1>5. CASE AskModel(w)
  <2>0. /\ At(w, "ask") /\ calls' \in Nat /\ UNCHANGED <<row, comments, stalls, calm>>
    BY <1>0, <1>5 DEF AskModel
  <2>1. PrePost(w)
    BY <2>0 DEF PrePost, PrePosting, At
  <2>2. CASE Throw(w)
    BY <2>0, <2>1, <2>2, ThrowStep DEF Kinds, At
  <2>3. CASE RateLimited(w) /\ ~Throw(w)
    <3>1. handler' = [handler EXCEPT ![w] = [handler[w] EXCEPT !.tries = handler[w].tries + 1]] /\ UNCHANGED <<job, failing>>
      BY <2>3 DEF RateLimited
    <3> DEFINE tries == handler[w].tries + 1
               h == [handler[w] EXCEPT !.tries = tries]
    <3>2. tries \in Nat
      BY <1>0 DEF Handler
    <3> HIDE DEF tries
    <3>3. h \in Handler /\ h.pc = "ask" /\ (handler[w].fits => h.fits)
      BY <1>0, <2>0, <3>2 DEF Handler, PCs, At
    <3>4. handler' = [handler EXCEPT ![w] = h]
      BY <3>1 DEF tries
    <3> HIDE DEF h
    <3>5. InHandler(w) /\ handler'[w] = h
      BY <2>0, <3>3, <3>4, OnStep
    <3> QED
      BY <2>0, <2>1, <3>1, <3>3, <3>5 DEF Kinds, Advances, At
  <2>4. CASE Answered(w) /\ ~Throw(w)
    <3>1. PICK answer \in Verdicts \cup {"unparsable", "noClassification"} :
            /\ handler' = [handler EXCEPT ![w] = [handler[w] EXCEPT !.pc = "post",
                             !.verdict = IF answer = "unparsable" THEN "UNKNOWN" ELSE answer]]
            /\ answer # "noClassification"
            /\ UNCHANGED <<job, failing>>
      BY <2>4 DEF Answered
    <3> DEFINE verdict == IF answer = "unparsable" THEN "UNKNOWN" ELSE answer
               h == [handler[w] EXCEPT !.pc = "post", !.verdict = verdict]
    <3>2. verdict \in Verdicts
      BY <3>1, TriageAssumption
    <3>3. handler' = [handler EXCEPT ![w] = h]
      BY <3>1
    <3> HIDE DEF verdict
    <3>4. h \in Handler /\ h.pc = "post" /\ h.verdict = verdict /\ (handler[w].fits => h.fits)
      BY <1>0, <3>2 DEF Handler, PCs, Verdict
    <3> HIDE DEF h
    <3>5. InHandler(w) /\ handler'[w] = h
      BY <2>0, <3>2, <3>3, <3>4, OnStep
    <3> QED
      BY <2>0, <2>1, <3>1, <3>4, <3>5 DEF Kinds, Advances, At
  <2> QED
    BY <1>5, <2>2, <2>3, <2>4 DEF AskModel
<1>6. CASE Post(w)
  <2>0. /\ At(w, "post") /\ UNCHANGED <<row, job, failing, calls, stalls, calm>>
        /\ handler[w].verdict \in Verdicts
    BY <1>6 DEF Post, TypeInv, At
  <2>1. \E v \in Verdicts : comments' = comments \/ comments' = Append(comments, v)
    BY <1>6, <2>0 DEF Post, Comment
  <2>2. CASE Goto(w, "complete")
    <3>1. /\ handler'[w] \in Handler /\ handler'[w].pc = "complete" /\ handler'[w].verdict = handler[w].verdict
          /\ handler[w].fits => handler'[w].fits
          /\ handler' = [handler EXCEPT ![w] = handler'[w]]
      BY <2>2, GotoFacts DEF PCs
    <3>2. InHandler(w)
      BY <1>0, <2>0, <3>1, OnStep
    <3> QED
      BY <2>0, <2>1, <3>1, <3>2 DEF Kinds, Posts
  <2>3. CASE ~Goto(w, "complete")
    <3> DEFINE posted == IF row.pullNumber THEN Len(comments) + 1 ELSE 0
               h == [handler[w] EXCEPT !.pc = "complete", !.posted = posted]
    <3>1. handler' = [handler EXCEPT ![w] = h]
      BY <1>6, <2>3 DEF Post
    <3>2. posted \in Nat
      BY <1>0
    <3> HIDE DEF posted
    <3>3. h \in Handler /\ h.pc = "complete" /\ h.verdict = handler[w].verdict /\ (handler[w].fits => h.fits)
      BY <1>0, <3>2 DEF Handler, PCs
    <3> HIDE DEF h
    <3>4. InHandler(w) /\ handler'[w] = h
      BY <1>0, <2>0, <3>1, <3>3, OnStep
    <3> QED
      BY <2>0, <2>1, <3>3, <3>4 DEF Kinds, Posts
  <2> QED
    BY <2>2, <2>3
<1>7. CASE Complete(w)
  <2>0. /\ handler[w].pc \in {"noLogs", "complete"} /\ UNCHANGED <<comments, calls, stalls, calm>>
    BY <1>7 DEF Complete
  <2>1. CASE Gone \/ ~handler[w].fits
    BY <1>0, <1>7, <2>0, <2>1, ThrowStep DEF Complete, Kinds, At
  <2>2. CASE ~Gone /\ handler[w].fits
    <3> DEFINE h == [Idle EXCEPT !.pc = "settle"]
    <3>1. StoreResult(w) /\ handler' = [handler EXCEPT ![w] = h] /\ UNCHANGED <<job, failing>>
      BY <1>7, <2>2 DEF Complete
    <3>2. row' \in Row /\ row'.status = "COMPLETED"
      BY <2>0, <2>2, <3>1, StoreFacts
    <3>3. h \in Handler /\ h.pc = "settle" /\ h.fits
      BY DEF Idle, Handler, PCs, Verdict
    <3> HIDE DEF h
    <3>4. handler'[w] = h
      BY <3>1, <3>3, HandlerType
    <3>5. InHandler(w)
      BY <1>0, <2>0, <2>2, <3>1, <3>2, <3>3 DEF InHandler, Gone
    <3> QED
      BY <2>0, <3>1, <3>3, <3>4, <3>5 DEF Kinds, Advances, PrePost, PrePosting, At
  <2> QED
    BY <2>1, <2>2
<1>8. CASE SettleJob(w)
  <2>1. InHandler(w)
    BY <1>0, <1>8, IdleType, OnStep DEF SettleJob, Return
  <2> QED
    BY <1>8, <2>1 DEF SettleJob, Kinds, Ends
<1> QED
  BY <1>1, <1>2, <1>3, <1>4, <1>5, <1>6, <1>7, <1>8 DEF HandlerStep

LEMMA FaultKindsOfStep ==
  ASSUME TypeInv, NEW w \in Workers, AwaitThrows(w) \/ AnswerLost(w) \/ UnfitAnswer(w)
  PROVE  Kinds(w)
<1>0. calls \in Nat /\ row \in Row /\ suffered \subseteq FaultKinds /\ handler[w] \in Handler
  BY TypeInvParts
<1>1. ASSUME NEW kind, Fault(kind) PROVE suffered' \subseteq FaultKinds /\ faults' = faults + 1
  BY <1>0, <1>1 DEF Fault
<1>2. CASE AwaitThrows(w)
  BY <1>0, <1>1, <1>2, ThrowStep DEF AwaitThrows, Kinds, At
<1>3. CASE AnswerLost(w)
  <2>1. /\ StoreResult(w) /\ ~Gone /\ handler[w].pc \in {"noLogs", "complete"} /\ Throw(w)
        /\ suffered' \subseteq FaultKinds /\ faults' = faults + 1 /\ UNCHANGED <<comments, calls, stalls>>
    BY <1>1, <1>3 DEF AnswerLost
  <2>2. row' \in Row /\ row'.status = "COMPLETED"
    BY <2>1, StoreFacts
  <2>3. handler' = [handler EXCEPT ![w] = Idle] /\ Idle \in Handler /\ Idle.pc = "idle"
    BY <2>1, IdleType DEF Throw
  <2>4. InHandler(w)
    BY <1>0, <2>1, <2>2, <2>3 DEF InHandler, Gone
  <2> QED
    BY <2>1, <2>4 DEF Kinds, Throws, At
<1>4. CASE UnfitAnswer(w)
  <2>1. PICK verdict \in Verdicts : handler' = [handler EXCEPT ![w] =
          [handler[w] EXCEPT !.pc = "post", !.verdict = verdict, !.fits = FALSE]]
    BY <1>4 DEF UnfitAnswer
  <2> DEFINE h == [handler[w] EXCEPT !.pc = "post", !.verdict = verdict, !.fits = FALSE]
  <2>2. h \in Handler /\ h.verdict \in Verdicts
    BY <1>0 DEF Handler, PCs, Verdict
  <2>3. handler' = [handler EXCEPT ![w] = h]
    BY <2>1
  <2> HIDE DEF h
  <2>4. /\ At(w, "ask") /\ calls' \in Nat /\ UNCHANGED <<row, job, failing, comments, stalls>>
        /\ suffered' \subseteq FaultKinds /\ faults' = faults + 1
    <3>1. /\ At(w, "ask") /\ UNCHANGED <<row, job, failing, comments, stalls>> /\ faults' = faults + 1
          /\ calls' = calls + 1 /\ suffered' = suffered \cup {"badSummary"} /\ "badSummary" \in FaultKinds
      BY <1>4, Zenon DEF UnfitAnswer, Fault
    <3>2. calls \in Nat /\ suffered \subseteq FaultKinds
      BY <1>0, TypeInvParts
    <3> QED
      BY <3>1, <3>2
  <2>5. InHandler(w)
    BY <1>0, <2>2, <2>3, <2>4 DEF InHandler, Gone
  <2>6. Advances(w)
    BY <2>4 DEF Advances, PrePost, PrePosting, At
  <2> QED
    BY <2>5, <2>6 DEF Kinds
<1> QED
  BY <1>2, <1>3, <1>4

-----------------------------------------------------------------------------
(***************************************************************************)
(* Types.                                                                  *)
(***************************************************************************)
LEMMA TypeInit == Init => TypeInv
<1> SUFFICES ASSUME Init PROVE TypeInv
  OBVIOUS
<1>1. row \in Row
  BY DEF Init, Row
<1>2. JobOK(job)
  BY TriageAssumption DEF Init, JobOK, Job
<1>3. handler \in [Workers -> Handler] /\ \A w \in Workers : handler[w].pc = "idle"
  BY IdleType DEF Init
<1>4. /\ failing \in Workers \cup {NoWorker} /\ comments \in Seq(Verdicts)
      /\ calls \in Nat /\ stalls \in Nat /\ faults \in Nat /\ suffered \subseteq FaultKinds
  BY DEF Init
<1> QED
  BY <1>1, <1>2, <1>3, <1>4, TypeInvParts

\* The verdict condition and the types of all handlers after w's has become h.
LEMMA KindsType ==
  ASSUME TypeInv, NEW w \in Workers, Kinds(w)
  PROVE  TypeInv'
<1>0. /\ JobOK(job) /\ failing \in Workers \cup {NoWorker} /\ comments \in Seq(Verdicts)
      /\ stalls \in Nat /\ faults \in Nat /\ suffered \subseteq FaultKinds
  BY TypeInvParts
<1>1. PICK h \in Handler : /\ handler' = [handler EXCEPT ![w] = h]
                           /\ h.pc \in {"post", "complete"} => h.verdict \in Verdicts
  BY DEF Kinds, InHandler
<1>2. /\ handler' \in [Workers -> Handler]
      /\ \A v \in Workers : handler'[v].pc \in {"post", "complete"} => handler'[v].verdict \in Verdicts
  BY <1>1, HandlerType
<1>3. row' \in Row /\ calls' \in Nat /\ stalls' \in Nat /\ faults' \in Nat /\ suffered' \subseteq FaultKinds
  BY <1>0 DEF Kinds, InHandler, calm
<1>4. JobOK(job') /\ failing' \in Workers \cup {NoWorker}
  <2>1. CASE Advances(w) \/ Posts(w)
    BY <1>0, <2>1 DEF Advances, Posts
  <2>2. CASE Throws(w)
    BY <2>2, ThrowFacts DEF Throws
  <2>3. CASE Ends(w)
    BY <1>0, <2>3, JobSteps DEF Ends, Return
  <2> QED
    BY <2>1, <2>2, <2>3 DEF Kinds
<1>5. comments' \in Seq(Verdicts)
  BY <1>0 DEF Kinds, Advances, Throws, Posts, Ends
<1> QED
  BY <1>2, <1>3, <1>4, <1>5, TypeInvParts, TypeInvPartsNext

LEMMA TakeFacts ==
  ASSUME TypeInv, NEW w \in Workers, Take(w)
  PROVE  /\ TypeInv' /\ handler'[w].pc = "running" /\ \A v \in Workers \ {w} : handler'[v] = handler[v]
         /\ job.state = "waiting" /\ job'.state = "active" /\ job'.owner = w /\ job'.attemptsMade = job.attemptsMade
<1>0. JobOK(job)
  BY TypeInvParts
<1>1. /\ handler'[w] \in Handler /\ handler'[w].pc = "running"
      /\ handler' = [handler EXCEPT ![w] = handler'[w]]
  BY GotoFacts DEF Take, PCs
<1>2. /\ handler' \in [Workers -> Handler] /\ \A v \in Workers \ {w} : handler'[v] = handler[v]
      /\ \A v \in Workers : handler'[v].pc \in {"post", "complete"} => handler'[v].verdict \in Verdicts
  BY <1>1, HandlerType
<1>3. JobOK(job')
  BY <1>0, JobSteps DEF Take
<1>4. /\ job.state = "waiting" /\ job'.state = "active" /\ job'.owner = w /\ job'.attemptsMade = job.attemptsMade
      /\ UNCHANGED <<row, failing, comments, calls, stalls, calm>>
  BY <1>0 DEF Take, JobOK, Job
<1> QED
  BY <1>1, <1>2, <1>3, <1>4, TypeInvParts, TypeInvPartsNext DEF calm

LEMMA CrashFacts ==
  ASSUME TypeInv, NEW w \in Workers, Crash(w)
  PROVE  /\ TypeInv' /\ handler'[w].pc = "idle" /\ \A v \in Workers \ {w} : handler'[v] = handler[v]
         /\ job'.state = job.state /\ job'.attemptsMade = job.attemptsMade
         /\ job'.owner = IF job.owner = w THEN NoWorker ELSE job.owner
         /\ faults' = faults + 1 /\ UNCHANGED <<row, comments, failing>>
<1>0. JobOK(job) /\ suffered \subseteq FaultKinds /\ faults \in Nat
  BY TypeInvParts
<1>1. /\ handler' \in [Workers -> Handler] /\ handler'[w].pc = "idle" /\ \A v \in Workers \ {w} : handler'[v] = handler[v]
      /\ \A v \in Workers : handler'[v].pc \in {"post", "complete"} => handler'[v].verdict \in Verdicts
  BY IdleType, HandlerType DEF Crash
<1>2. JobOK(job') /\ job'.state = job.state /\ job'.attemptsMade = job.attemptsMade
      /\ job'.owner = IF job.owner = w THEN NoWorker ELSE job.owner
  BY <1>0, JobSteps DEF Crash, JobOK, Job
<1>3. faults' = faults + 1 /\ suffered' \subseteq FaultKinds /\ UNCHANGED <<row, comments, failing, calls, stalls>>
  BY <1>0 DEF Crash, Fault
<1> QED
  BY <1>0, <1>1, <1>2, <1>3, TypeInvParts, TypeInvPartsNext

LEMMA RedeliverFacts ==
  ASSUME TypeInv, Redeliver
  PROVE  /\ TypeInv' /\ job.state = "active" /\ job'.state = "waiting" /\ job'.attemptsMade = job.attemptsMade
         /\ \/ job.owner = NoWorker /\ faults' = faults
            \/ faults' = faults + 1
         /\ UNCHANGED <<row, handler, comments, failing>>
<1>0. JobOK(job) /\ stalls \in Nat /\ suffered \subseteq FaultKinds /\ faults \in Nat
  BY TypeInvParts
<1>1. JobOK(job') /\ job.state = "active" /\ job'.state = "waiting" /\ job'.attemptsMade = job.attemptsMade
  BY <1>0, JobSteps DEF Redeliver, JobOK, Job
<1>2. /\ suffered' \subseteq FaultKinds
      /\ \/ job.owner = NoWorker /\ faults' = faults
         \/ faults' = faults + 1
  BY <1>0 DEF Redeliver, Fault, calm
<1>3. stalls' \in Nat /\ UNCHANGED <<row, handler, failing, comments, calls>>
  BY <1>0 DEF Redeliver
<1> QED
  BY <1>0, <1>1, <1>2, <1>3, TypeInvParts, TypeInvPartsNext

\* The listener, an uninstall and the end of a back-off.
LEMMA OtherFacts ==
  ASSUME TypeInv, BackoffOver \/ Listener \/ ListenerLost \/ Uninstall
  PROVE  /\ TypeInv' /\ UNCHANGED <<handler, comments>>
         /\ \/ /\ job.state = "delayed" /\ job'.state = "waiting"
               /\ UNCHANGED <<row, failing, faults>>
            \/ /\ UNCHANGED <<job, failing, faults>> /\ Gone'
            \/ /\ failing # NoWorker /\ failing' = NoWorker /\ UNCHANGED job
               /\ (Gone' <=> Gone) /\ faults' \in {faults, faults + 1}
<1>0. /\ JobOK(job) /\ row \in Row /\ failing \in Workers \cup {NoWorker}
      /\ suffered \subseteq FaultKinds /\ faults \in Nat
  BY TypeInvParts
<1>1. CASE BackoffOver
  <2>1. JobOK(job') /\ job.state = "delayed" /\ job'.state = "waiting"
    BY <1>0, <1>1, JobSteps DEF BackoffOver, JobOK, Job
  <2> QED
    BY <1>1, <2>1, TypeInvParts, TypeInvPartsNext DEF BackoffOver, calm
<1>2. CASE Listener
  <2>1. row' \in Row /\ (Gone' <=> Gone)
    BY <1>0, <1>2 DEF Listener, Row, Gone
  <2> QED
    BY <1>2, <2>1, TypeInvParts, TypeInvPartsNext DEF Listener, calm
<1>3. CASE ListenerLost
  <2>1. suffered' \subseteq FaultKinds /\ faults' = faults + 1
    BY <1>0, <1>3 DEF ListenerLost, Fault
  <2>2. failing # NoWorker /\ failing' = NoWorker /\ UNCHANGED <<row, job, handler, comments, calls, stalls>>
    BY <1>3 DEF ListenerLost
  <2> QED
    BY <1>0, <2>1, <2>2, TypeInvParts, TypeInvPartsNext DEF Gone
<1>4. CASE Uninstall
  <2>1. row' \in Row /\ Gone'
    BY <1>0, <1>4 DEF Uninstall, Row, Gone
  <2> QED
    BY <1>4, <2>1, TypeInvParts, TypeInvPartsNext DEF Uninstall, calm
<1> QED
  BY <1>1, <1>2, <1>3, <1>4

LEMMA TypeNext ==
  ASSUME TypeInv, [Next]_vars
  PROVE  TypeInv'
<1>1. CASE \E w \in Workers : HandlerStep(w) \/ AwaitThrows(w) \/ AnswerLost(w) \/ UnfitAnswer(w)
  BY <1>1, HandlerKinds, FaultKindsOfStep, KindsType
<1>5. ASSUME NEW w \in Workers, FailStalled(w) PROVE TypeInv'
  <2>1. /\ JobOK(job') /\ (failing' = w \/ UNCHANGED failing)
        /\ UNCHANGED <<row, handler, comments, calls, stalls, calm>>
    BY <1>5, StalledFacts
  <2> QED
    BY <2>1, TypeInvParts, TypeInvPartsNext DEF calm
<1>2. CASE \E w \in Workers : Take(w) \/ Crash(w)
  BY <1>2, TakeFacts, CrashFacts
<1>3. CASE Redeliver \/ BackoffOver \/ Listener \/ ListenerLost \/ Uninstall
  BY <1>3, RedeliverFacts, OtherFacts
<1>4. CASE UNCHANGED vars
  BY <1>4, TypeInvParts, TypeInvPartsNext DEF vars, calm
<1> QED
  BY <1>1, <1>2, <1>3, <1>4, <1>5 DEF Next

\* No null verdict is stored or posted, and the worker's state has its types.
THEOREM TriageTypeCorrect == Spec => []TypeOK
<1>1. Spec => []TypeInv
  BY TypeInit, TypeNext, PTL DEF Spec
<1>2. TypeInv => TypeOK
  BY DEF TypeInv
<1> QED
  BY <1>1, <1>2, PTL

-----------------------------------------------------------------------------
(***************************************************************************)
(* What a comment costs.  Comments, handlers that may still post, handlers *)
(* that will throw after they posted, and a job that will be run again     *)
(* without a fault are counted together: every one of them but the first   *)
(* took a fault.                                                           *)
(***************************************************************************)
Pending == {w \in Workers : PrePost(w)}
Rerun == IF ~Gone /\ (job.state \in {"waiting", "delayed"} \/ (job.state = "active" /\ job.owner = NoWorker))
         THEN 1 ELSE 0
\* Their last write will be refused.
Unfit == {w \in Workers : ~handler[w].fits}
Due == Cardinality(Pending) + Cardinality(Unfit) + Rerun
PostInv ==
  /\ TypeInv
  /\ Len(comments) + Due <= 1 + faults

LEMMA PendingFinite ==
  /\ IsFiniteSet(Pending) /\ Cardinality(Pending) \in Nat
  /\ IsFiniteSet(Unfit) /\ Cardinality(Unfit) \in Nat
  /\ Rerun \in {0, 1} /\ Rerun' \in {0, 1}
<1>1. IsFiniteSet(Pending) /\ IsFiniteSet(Unfit)
  BY TriageAssumption, FS_Subset DEF Pending, Unfit
<1> QED
  BY <1>1, FS_CardinalityType DEF Rerun

\* Pending changes by w alone.
LEMMA PendingStep ==
  ASSUME NEW w \in Workers, \A v \in Workers \ {w} : handler'[v] = handler[v], Gone' <=> Gone
  PROVE  /\ Cardinality(Pending') \in Nat
         /\ (PrePost(w)' <=> PrePost(w)) => Cardinality(Pending') = Cardinality(Pending)
         /\ ~PrePost(w)' => Cardinality(Pending') <= Cardinality(Pending)
         /\ ~PrePost(w)' /\ PrePost(w) => Cardinality(Pending') = Cardinality(Pending) - 1
         /\ PrePost(w)' /\ ~PrePost(w) => Cardinality(Pending') = Cardinality(Pending) + 1
<1>1. \A v \in Workers \ {w} : PrePost(v)' <=> PrePost(v)
  BY DEF PrePost
<1>2. /\ (PrePost(w)' <=> PrePost(w)) => Pending' = Pending
      /\ ~PrePost(w)' => Pending' = Pending \ {w}
      /\ PrePost(w)' => Pending' = Pending \cup {w}
      /\ w \in Pending <=> PrePost(w)
  BY <1>1 DEF Pending
<1>3. /\ IsFiniteSet(Pending) /\ Cardinality(Pending) \in Nat
  BY PendingFinite
<1>4. /\ Cardinality(Pending \ {w}) = IF w \in Pending THEN Cardinality(Pending) - 1 ELSE Cardinality(Pending)
      /\ IsFiniteSet(Pending \ {w})
  BY <1>3, FS_RemoveElement
<1>5. /\ Cardinality(Pending \cup {w}) = IF w \in Pending THEN Cardinality(Pending) ELSE Cardinality(Pending) + 1
      /\ IsFiniteSet(Pending \cup {w})
  BY <1>3, FS_AddElement
<1>6. Cardinality(Pending \ {w}) \in Nat /\ Cardinality(Pending \cup {w}) \in Nat
  BY <1>4, <1>5, FS_CardinalityType
<1>7. CASE ~PrePost(w)'
  <2>1. /\ Pending' = Pending \ {w}
        /\ PrePost(w) => Cardinality(Pending \ {w}) = Cardinality(Pending) - 1
        /\ ~PrePost(w) => Cardinality(Pending \ {w}) = Cardinality(Pending)
    BY <1>2, <1>4, <1>7
  <2> QED
    BY <1>3, <1>6, <1>7, <2>1
<1>8. CASE PrePost(w)'
  <2>1. /\ Pending' = Pending \cup {w}
        /\ PrePost(w) => Cardinality(Pending \cup {w}) = Cardinality(Pending)
        /\ ~PrePost(w) => Cardinality(Pending \cup {w}) = Cardinality(Pending) + 1
    BY <1>2, <1>5, <1>8
  <2> QED
    BY <1>3, <1>6, <1>8, <2>1
<1> QED
  BY <1>7, <1>8

\* Unfit changes by w alone.
LEMMA UnfitStep ==
  ASSUME NEW w \in Workers, \A v \in Workers \ {w} : handler'[v] = handler[v]
  PROVE  /\ Cardinality(Unfit') \in Nat /\ Cardinality(Unfit') <= Cardinality(Unfit) + 1
         /\ (handler[w].fits => handler'[w].fits) => Cardinality(Unfit') <= Cardinality(Unfit)
         /\ handler'[w].fits /\ ~handler[w].fits => Cardinality(Unfit') + 1 <= Cardinality(Unfit)
<1>1. /\ Unfit' \subseteq Unfit \cup {w}
      /\ (handler[w].fits => handler'[w].fits) => Unfit' \subseteq Unfit
      /\ handler'[w].fits => Unfit' \subseteq Unfit \ {w}
      /\ ~handler[w].fits => w \in Unfit
  BY DEF Unfit
<1>2. IsFiniteSet(Unfit) /\ Cardinality(Unfit) \in Nat
  BY PendingFinite
<1>3. /\ Cardinality(Unfit \ {w}) = IF w \in Unfit THEN Cardinality(Unfit) - 1 ELSE Cardinality(Unfit)
      /\ IsFiniteSet(Unfit \ {w})
  BY <1>2, FS_RemoveElement
<1>4. /\ Cardinality(Unfit \cup {w}) = IF w \in Unfit THEN Cardinality(Unfit) ELSE Cardinality(Unfit) + 1
      /\ IsFiniteSet(Unfit \cup {w})
  BY <1>2, FS_AddElement
<1>5. \A S, T : IsFiniteSet(T) /\ S \subseteq T => /\ Cardinality(S) \in Nat /\ Cardinality(T) \in Nat
                                                /\ Cardinality(S) <= Cardinality(T)
  BY FS_Subset, FS_CardinalityType
<1>6. Cardinality(Unfit') \in Nat /\ Cardinality(Unfit') <= Cardinality(Unfit) + 1
  <2>1. Cardinality(Unfit') \in Nat /\ Cardinality(Unfit \cup {w}) \in Nat
        /\ Cardinality(Unfit') <= Cardinality(Unfit \cup {w})
    BY <1>1, <1>4, <1>5
  <2> QED
    BY <1>2, <1>4, <2>1
<1>7. ASSUME handler[w].fits => handler'[w].fits PROVE Cardinality(Unfit') <= Cardinality(Unfit)
  BY <1>1, <1>2, <1>5, <1>7
<1>8. ASSUME handler'[w].fits, ~handler[w].fits PROVE Cardinality(Unfit') + 1 <= Cardinality(Unfit)
  <2>1. Cardinality(Unfit') <= Cardinality(Unfit \ {w}) /\ Cardinality(Unfit \ {w}) = Cardinality(Unfit) - 1
    BY <1>1, <1>3, <1>5, <1>8
  <2> QED
    BY <1>2, <1>6, <2>1
<1> QED
  BY <1>6, <1>7, <1>8

LEMMA PostInit == Init => PostInv
<1> SUFFICES ASSUME Init PROVE PostInv
  OBVIOUS
<1>1. Pending = {}
  BY DEF Init, Pending, PrePost, PrePosting, Idle
<1>2. Cardinality(Pending) = 0 /\ Cardinality(Unfit) = 0
  <2>1. Unfit = {}
    BY IdleType DEF Init, Unfit
  <2> QED
    BY <1>1, <2>1, FS_EmptySet
<1>3. Len(comments) = 0 /\ faults = 0
  BY DEF Init
<1> QED
  BY <1>2, <1>3, TypeInit, PendingFinite DEF PostInv, Due

LEMMA LenAppend ==
  ASSUME NEW S, NEW s \in Seq(S), NEW x \in S
  PROVE  Len(s) \in Nat /\ Len(Append(s, x)) = Len(s) + 1
OBVIOUS

\* The sums of the invariant: what a throw and a post may move, and the rest.
LEMMA ThrowSum ==
  ASSUME NEW p \in Nat, NEW u \in Nat, NEW r \in Nat, NEW f \in Nat,
         NEW p2 \in Nat, NEW u2 \in Nat, NEW r2 \in Nat, NEW f2 \in Nat,
         r <= 1, r2 <= 1, f <= f2, p2 <= p, u2 <= u, r = 0 \/ r2 = r,
         r2 = 0 \/ p2 + 1 <= p \/ u2 + 1 <= u \/ f2 = f + 1
  PROVE  (p2 + u2 + r2) + 0 + f <= (p + u + r) + f2
OBVIOUS

LEMMA StepSum ==
  ASSUME NEW p \in Nat, NEW u \in Nat, NEW r \in Nat, NEW f \in Nat,
         NEW p2 \in Nat, NEW u2 \in Nat, NEW r2 \in Nat, NEW f2 \in Nat,
         r2 <= r, p2 <= p, (u2 <= u /\ f <= f2) \/ (u2 <= u + 1 /\ f2 = f + 1)
  PROVE  (p2 + u2 + r2) + 0 + f <= (p + u + r) + f2
OBVIOUS

LEMMA PostsSum ==
  ASSUME NEW p \in Nat, NEW u \in Nat, NEW r \in Nat, NEW f \in Nat,
         NEW p2 \in Nat, NEW u2 \in Nat, NEW r2 \in Nat, NEW f2 \in Nat,
         p2 + 1 <= p, u2 <= u, r2 = r, f <= f2
  PROVE  (p2 + u2 + r2) + 1 + f <= (p + u + r) + f2
OBVIOUS

\* A step that owes no more afterwards than the comments and faults it adds.
LEMMA DueSum ==
  ASSUME NEW c \in Nat, NEW d \in Nat, NEW f \in Nat, NEW c2 \in Nat, NEW d2 \in Nat, NEW f2 \in Nat,
         NEW k \in Nat, c + d <= 1 + f, c2 <= c + k, d2 + k + f <= d + f2
  PROVE  c2 + d2 <= 1 + f2
OBVIOUS

LEMMA DueStep ==
  ASSUME PostInv, TypeInv', NEW k \in Nat, Due' \in Nat, faults' \in Nat, Len(comments') \in Nat,
         Len(comments') <= Len(comments) + k, Due' + k + faults <= Due + faults'
  PROVE  PostInv'
<1>1. Len(comments) + Due <= 1 + faults
  BY DEF PostInv
<1>2. Len(comments) \in Nat /\ faults \in Nat
  BY TypeInvParts DEF PostInv
<1>4. Due \in Nat
  BY PendingFinite DEF Due
<1>3. Len(comments') + Due' <= 1 + faults'
  BY <1>1, <1>2, <1>4, DueSum
<1> QED
  BY <1>3 DEF PostInv

LEMMA PostNext ==
  ASSUME PostInv, [Next]_vars
  PROVE  PostInv'
<1>0. /\ TypeInv /\ TypeInv' /\ faults \in Nat /\ comments \in Seq(Verdicts) /\ Len(comments) \in Nat
      /\ Cardinality(Pending) \in Nat /\ Cardinality(Unfit) \in Nat
      /\ Rerun \in {0, 1} /\ Rerun' \in {0, 1} /\ NoWorker \notin Workers
      /\ Rerun \in Nat /\ Rerun' \in Nat /\ Rerun <= 1 /\ Rerun' <= 1
      /\ Len(comments) + Due <= 1 + faults /\ Due = Cardinality(Pending) + Cardinality(Unfit) + Rerun
      /\ Due \in Nat
  BY TypeNext, TypeInvParts, PendingFinite, TriageAssumption DEF PostInv, Due
<1>1. ASSUME NEW w \in Workers, Kinds(w) PROVE PostInv'
  <2>0. \A v \in Workers \ {w} : handler'[v] = handler[v]
    BY <1>0, <1>1, HandlerType DEF Kinds, InHandler
  <2>1. /\ Gone' <=> Gone
        /\ faults' \in {faults, faults + 1} /\ faults' \in Nat /\ faults <= faults'
    BY <1>0, <1>1 DEF Kinds, InHandler, calm
  <2>2. CASE Advances(w)
    <3>1. Cardinality(Pending') \in Nat /\ Cardinality(Pending') <= Cardinality(Pending)
      BY <1>0, <2>0, <2>1, <2>2, PendingStep DEF Advances
    <3>2. comments' = comments /\ Rerun' = Rerun
      BY <2>1, <2>2 DEF Advances, Rerun
    <3>3. /\ Cardinality(Unfit') \in Nat
          /\ \/ Cardinality(Unfit') <= Cardinality(Unfit)
             \/ faults' = faults + 1 /\ Cardinality(Unfit') <= Cardinality(Unfit) + 1
      BY <2>0, <2>2, UnfitStep DEF Advances
    <3>7. Cardinality(Unfit') \in Nat /\ Rerun' <= Rerun
      BY <1>0, <3>2, <3>3
    <3>4. Due' \in Nat
      BY <1>0, <3>1, <3>7 DEF Due
    <3>5. CASE Cardinality(Unfit') <= Cardinality(Unfit)
      <4>1. (Cardinality(Pending') + Cardinality(Unfit') + Rerun') + 0 + faults
              <= (Cardinality(Pending) + Cardinality(Unfit) + Rerun) + faults'
        BY <1>0, <2>1, <3>1, <3>5, <3>7, StepSum
      <4>2. Due' + 0 + faults <= Due + faults'
        BY <4>1, Zenon DEF Due
      <4> QED
        BY <1>0, <2>1, <3>2, <3>4, <4>2, DueStep
    <3>6. CASE faults' = faults + 1 /\ Cardinality(Unfit') <= Cardinality(Unfit) + 1
      <4>1. (Cardinality(Pending') + Cardinality(Unfit') + Rerun') + 0 + faults
              <= (Cardinality(Pending) + Cardinality(Unfit) + Rerun) + faults'
        BY <1>0, <2>1, <3>1, <3>6, <3>7, StepSum
      <4>2. Due' + 0 + faults <= Due + faults'
        BY <4>1, Zenon DEF Due
      <4> QED
        BY <1>0, <2>1, <3>2, <3>4, <4>2, DueStep
    <3> QED
      BY <3>3, <3>5, <3>6
  <2>3. CASE Throws(w)
    <3>1. handler'[w].pc = "idle" /\ handler'[w].fits
      BY <1>0, <2>3, HandlerType, IdleType, ThrowFacts DEF Throws
    <3>2. ~PrePost(w)'
      BY <3>1 DEF PrePost, PrePosting
    <3>3. /\ Cardinality(Pending') \in Nat /\ Cardinality(Pending') <= Cardinality(Pending)
          /\ PrePost(w) => Cardinality(Pending') = Cardinality(Pending) - 1
      BY <1>0, <2>0, <2>1, <3>2, PendingStep
    <3>4. Gone => Rerun' = 0
      BY <2>1 DEF Rerun
    <3>5. comments' = comments
      BY <2>3 DEF Throws
    <3>6. PrePost(w) \/ Gone \/ ~handler[w].fits \/ faults' = faults + 1
      BY <2>3 DEF Throws
    <3>8. /\ Cardinality(Unfit') \in Nat /\ Cardinality(Unfit') <= Cardinality(Unfit)
          /\ ~handler[w].fits => Cardinality(Unfit') + 1 <= Cardinality(Unfit)
      BY <2>0, <3>1, UnfitStep
    <3>7. Rerun = 0 \/ Rerun' = Rerun
      <4>1. CASE UNCHANGED <<job, failing>>
        BY <2>1, <4>1 DEF Rerun
      <4>2. CASE job.state = "active" /\ job.owner = w
        BY <1>0, <4>2 DEF Rerun
      <4> QED
        BY <1>0, <2>3, <4>1, <4>2, ThrowFacts DEF Throws
    <3>9. \/ Rerun' = 0 \/ Cardinality(Pending') + 1 <= Cardinality(Pending)
          \/ Cardinality(Unfit') + 1 <= Cardinality(Unfit) \/ faults' = faults + 1
      <4>1. CASE PrePost(w)
        BY <1>0, <3>3, <4>1
      <4> QED
        BY <3>4, <3>6, <3>8, <4>1
    <3>10. (Cardinality(Pending') + Cardinality(Unfit') + Rerun') + 0 + faults
             <= (Cardinality(Pending) + Cardinality(Unfit) + Rerun) + faults'
      BY <1>0, <2>1, <3>3, <3>7, <3>8, <3>9, ThrowSum
    <3>11. Due' + 0 + faults <= Due + faults'
      BY <3>10, Zenon DEF Due
    <3>12. Due' \in Nat
      BY <1>0, <3>3, <3>8 DEF Due
    <3> QED
      BY <1>0, <2>1, <3>5, <3>11, <3>12, DueStep
  <2>4. CASE Posts(w)
    <3>1. PrePost(w) /\ ~PrePost(w)'
      BY <2>4 DEF Posts, PrePost, PrePosting, At
    <3>2. Cardinality(Pending') \in Nat /\ Cardinality(Pending') = Cardinality(Pending) - 1
      BY <1>0, <2>0, <2>1, <3>1, PendingStep
    <3>3. Len(comments') \in {Len(comments), Len(comments) + 1} /\ Rerun' = Rerun
      BY <1>0, <2>1, <2>4, LenAppend DEF Posts, Rerun
    <3>4. Cardinality(Unfit') \in Nat /\ Cardinality(Unfit') <= Cardinality(Unfit)
      BY <2>0, <2>4, UnfitStep DEF Posts
    <3>5. Len(comments') \in Nat /\ Len(comments') <= Len(comments) + 1
      BY <1>0, <3>3
    <3>6. Cardinality(Pending') + 1 <= Cardinality(Pending)
      BY <1>0, <3>2
    <3>7. (Cardinality(Pending') + Cardinality(Unfit') + Rerun') + 1 + faults
            <= (Cardinality(Pending) + Cardinality(Unfit) + Rerun) + faults'
      BY <1>0, <2>1, <3>2, <3>3, <3>4, <3>6, PostsSum
    <3>8. Due' + 1 + faults <= Due + faults'
      BY <3>7, Zenon DEF Due
    <3>9. Due' \in Nat
      BY <1>0, <3>2, <3>3, <3>4 DEF Due
    <3> QED
      BY <1>0, <2>1, <3>5, <3>8, <3>9, DueStep
  <2>5. CASE Ends(w)
    <3>1. handler'[w].pc = "idle" /\ handler'[w].fits /\ comments' = comments
      BY <1>0, <2>5, IdleType, HandlerType DEF Ends, Return
    <3>2. ~PrePost(w)'
      BY <3>1 DEF PrePost, PrePosting
    <3>3. Cardinality(Pending') \in Nat /\ Cardinality(Pending') <= Cardinality(Pending)
      BY <2>0, <2>1, <3>2, PendingStep
    <3>4. Rerun' <= Rerun
      <4>1. CASE job' = job
        BY <1>0, <2>1, <4>1 DEF Rerun
      <4>2. CASE OwnsJob(w)
        <5>1. job' = [job EXCEPT !.state = "completed", !.owner = NoWorker] /\ JobOK(job)
          BY <1>0, <2>5, <4>2, TypeInvParts DEF Ends, Return
        <5>2. job'.state = "completed"
          BY <5>1 DEF JobOK, Job
        <5> QED
          BY <1>0, <5>2 DEF Rerun
      <4> QED
        BY <2>5, <4>1, <4>2 DEF Ends, Return
    <3>5. Cardinality(Unfit') \in Nat /\ Cardinality(Unfit') <= Cardinality(Unfit)
      BY <2>0, <3>1, UnfitStep
    <3>6. Due' \in Nat
      BY <1>0, <3>3, <3>5 DEF Due
    <3>7. (Cardinality(Pending') + Cardinality(Unfit') + Rerun') + 0 + faults
            <= (Cardinality(Pending) + Cardinality(Unfit) + Rerun) + faults'
      BY <1>0, <2>1, <3>3, <3>4, <3>5, StepSum
    <3>8. Due' + 0 + faults <= Due + faults'
      BY <3>7, Zenon DEF Due
    <3> QED
      BY <1>0, <2>1, <3>1, <3>6, <3>8, DueStep
  <2> QED
    BY <1>1, <2>2, <2>3, <2>4, <2>5 DEF Kinds
<1>2. ASSUME NEW w \in Workers, Take(w) PROVE PostInv'
  <2>1. /\ handler'[w].pc = "running" /\ \A v \in Workers \ {w} : handler'[v] = handler[v]
        /\ job.state = "waiting" /\ job'.state = "active" /\ job'.owner = w
    BY <1>0, <1>2, TakeFacts
  <2>2. UNCHANGED <<row, comments, faults>> /\ At(w, "idle")
    BY <1>2 DEF Take, calm
  <2>3. (Gone' <=> Gone) /\ ~PrePost(w) /\ (PrePost(w)' <=> ~Gone)
    BY <2>1, <2>2 DEF Gone, PrePost, PrePosting, At
  <2>4. Cardinality(Pending') \in Nat /\ Cardinality(Pending') = Cardinality(Pending) + (IF Gone THEN 0 ELSE 1)
    BY <1>0, <2>1, <2>3, PendingStep
  <2>5. Rerun' = 0 /\ Rerun = IF Gone THEN 0 ELSE 1
    BY <1>0, <2>1, <2>3 DEF Rerun
  <2>6. Cardinality(Unfit') \in Nat /\ Cardinality(Unfit') <= Cardinality(Unfit)
    BY <1>0, <1>2, <2>1, GotoFacts, UnfitStep DEF Take, PCs
  <2> QED
    BY <1>0, <2>2, <2>4, <2>5, <2>6 DEF PostInv, Due
<1>3. ASSUME NEW w \in Workers, Crash(w) PROVE PostInv'
  <2>1. /\ handler'[w].pc = "idle" /\ \A v \in Workers \ {w} : handler'[v] = handler[v]
        /\ faults' = faults + 1 /\ UNCHANGED <<row, comments>>
    BY <1>0, <1>3, CrashFacts
  <2>2. (Gone' <=> Gone) /\ ~PrePost(w)'
    BY <2>1 DEF Gone, PrePost, PrePosting
  <2>3. Cardinality(Pending') \in Nat /\ Cardinality(Pending') <= Cardinality(Pending)
    BY <2>1, <2>2, PendingStep
  <2>4. handler'[w].fits
    BY <1>0, <1>3, IdleType, HandlerType DEF Crash
  <2>5. Cardinality(Unfit') \in Nat /\ Cardinality(Unfit') <= Cardinality(Unfit)
    BY <2>1, <2>4, UnfitStep
  <2> QED
    BY <1>0, <2>1, <2>3, <2>5 DEF PostInv, Due
<1>4. CASE Redeliver
  <2>1. /\ job.state = "active" /\ job'.state = "waiting"
        /\ (job.owner = NoWorker /\ faults' = faults) \/ faults' = faults + 1
        /\ UNCHANGED <<row, handler, comments, failing>>
    BY <1>0, <1>4, RedeliverFacts
  <2>2. Pending' = Pending /\ Unfit' = Unfit
    BY <2>1 DEF Pending, PrePost, Gone, Unfit
  <2>3. job.owner = NoWorker => Rerun' = Rerun
    BY <2>1 DEF Rerun, Gone
  <2> QED
    BY <1>0, <2>1, <2>2, <2>3 DEF PostInv, Due
<1>5. CASE BackoffOver \/ Listener \/ ListenerLost \/ Uninstall
  <2>1. UNCHANGED <<handler, comments>> /\ faults' \in {faults, faults + 1}
    BY <1>0, <1>5, OtherFacts
  <2>2. (Gone' <=> Gone) \/ Gone'
    BY <1>0, <1>5, OtherFacts DEF Gone
  <2>3. Pending' \subseteq Pending
    BY <2>1, <2>2 DEF Pending, PrePost, PrePosting
  <2>4. Cardinality(Pending') \in Nat /\ Cardinality(Pending') <= Cardinality(Pending)
    BY <2>3, PendingFinite, FS_Subset, FS_CardinalityType
  <2>5. Rerun' <= Rerun
    BY <1>0, <1>5, OtherFacts DEF Rerun, Gone
  <2>6. Unfit' = Unfit
    BY <2>1 DEF Unfit
  <2> QED
    BY <1>0, <2>1, <2>4, <2>5, <2>6 DEF PostInv, Due
<1>6. CASE UNCHANGED vars
  <2>1. /\ Pending' = Pending /\ Unfit' = Unfit /\ Rerun' = Rerun
        /\ comments' = comments /\ faults' = faults
    BY <1>6 DEF Pending, PrePost, Gone, Unfit, Rerun, vars, calm
  <2> QED
    BY <1>0, <2>1 DEF PostInv, Due
<1>7. ASSUME NEW w \in Workers, FailStalled(w) PROVE PostInv'
  <2>1. job'.state = "failed" /\ UNCHANGED <<row, handler, comments, faults>>
    BY <1>0, <1>7, StalledFacts DEF calm
  <2>2. Pending' = Pending /\ Unfit' = Unfit
    BY <2>1 DEF Pending, PrePost, Gone, Unfit
  <2>3. Rerun' = 0
    BY <2>1 DEF Rerun
  <2> QED
    BY <1>0, <2>1, <2>2, <2>3 DEF PostInv, Due
<1> QED
  BY <1>0, <1>1, <1>2, <1>3, <1>4, <1>5, <1>6, <1>7, HandlerKinds, FaultKindsOfStep DEF Next

\* Every comment beyond the first took a fault of its own: with nothing failing a
\* pull request is commented once, however often the model is rate-limited and
\* the job retried (index.ts:43 to 71).
THEOREM CommentsCostFaults == Spec => []PostsCostFaults
<1>1. Spec => []PostInv
  BY PostInit, PostNext, PTL DEF Spec
<1>2. PostInv => PostsCostFaults
  <2> SUFFICES ASSUME PostInv PROVE PostsCostFaults
    OBVIOUS
  <2>1. Len(comments) \in Nat /\ faults \in Nat /\ Due \in Nat /\ Len(comments) + Due <= 1 + faults
    BY TypeInvParts, PendingFinite DEF PostInv, Due
  <2> QED
    BY <2>1 DEF PostsCostFaults
<1> QED
  BY <1>1, <1>2, PTL

-----------------------------------------------------------------------------
(***************************************************************************)
(* What FAILED means.                                                      *)
(***************************************************************************)
Given == job.state = "failed" /\ job.attemptsMade = Attempts
\* Without faults the process at work is the one that has the job.
Alone == faults = 0 => \A w \in Workers : At(w, "idle") \/ OwnsJob(w)
\* A result that was told is not followed by a failure of the job.
Told == faults = 0 /\ comments # <<>> /\ job.state = "failed" => Gone

FailInv == /\ PostInv
           /\ failing # NoWorker \/ row.status = "FAILED" => Given
           /\ Alone /\ Told

LEMMA FailInit == Init => FailInv
<1>1. Init => /\ job.state = "waiting" /\ failing = NoWorker /\ row.status = "QUEUED"
              /\ \A w \in Workers : At(w, "idle")
  BY IdleType DEF Init, At
<1> QED
  BY <1>1, PostInit DEF FailInv, Alone, Told

LEMMA KindsFail ==
  ASSUME FailInv, NEW w \in Workers, Kinds(w), PostInv'
  PROVE  FailInv'
<1>0. /\ TypeInv /\ faults \in Nat /\ comments \in Seq(Verdicts) /\ Len(comments) \in Nat
      /\ failing \in Workers \cup {NoWorker} /\ NoWorker \notin Workers
      /\ Cardinality(Pending) \in Nat /\ Cardinality(Unfit) \in Nat /\ Rerun \in {0, 1}
      /\ Len(comments) + (Cardinality(Pending) + Cardinality(Unfit) + Rerun) <= 1 + faults
  BY TypeInvParts, PendingFinite, TriageAssumption DEF FailInv, PostInv, Due
<1>1. /\ \A v \in Workers \ {w} : handler'[v] = handler[v]
      /\ (Gone' <=> Gone) /\ faults' \in {faults, faults + 1}
      /\ row'.status = "FAILED" => row.status = "FAILED"
  BY <1>0, HandlerType DEF Kinds, InHandler, calm
<1>2. ~At(w, "idle")
  BY DEF Kinds, Advances, Throws, Posts, Ends, At
<1>3. faults' = 0 => faults = 0 /\ OwnsJob(w) /\ \A v \in Workers \ {w} : At(v, "idle") /\ At(v, "idle")'
  BY <1>0, <1>1, <1>2 DEF FailInv, Alone, OwnsJob, At
<1>4. CASE Advances(w)
  BY <1>0, <1>1, <1>3, <1>4 DEF FailInv, Advances, Given, Alone, Told, OwnsJob, At
<1>5. CASE Posts(w)
  <2>1. UNCHANGED <<job, failing>>
    BY <1>5 DEF Posts
  <2> QED
    BY <1>0, <1>1, <1>3, <2>1 DEF FailInv, Given, Alone, Told, OwnsJob, At
<1>6. CASE Throws(w)
  <2>1. At(w, "idle")' /\ comments' = comments
    BY <1>0, <1>6, HandlerType, IdleType, ThrowFacts DEF Throws, At
  <2>2. \/ UNCHANGED <<job, failing>>
        \/ /\ job.state = "active" /\ job'.state \in {"failed", "delayed"}
           /\ failing' # failing => Given'
           /\ job'.state = "failed" => Given'
    BY <1>0, <1>6, ThrowFacts DEF Throws, Given
  <2>3. (failing # NoWorker \/ row.status = "FAILED" => Given)'
    BY <1>1, <2>2 DEF FailInv, Given
  <2>4. Alone'
    BY <1>3, <2>1 DEF Alone
  <2>5. ASSUME faults' = 0, ~Gone PROVE comments' = <<>>
    <3>1. (PrePost(w) \/ ~handler[w].fits) /\ ~PrePost(w)'
      BY <1>0, <1>3, <1>6, <2>1, <2>5 DEF Throws, PrePost, PrePosting, At
    <3>2. PrePost(w) => Cardinality(Pending') \in Nat /\ Cardinality(Pending') = Cardinality(Pending) - 1
      BY <1>0, <1>1, <3>1, PendingStep
    <3>4. handler'[w].fits
      BY <1>0, <1>6, HandlerType, IdleType, ThrowFacts DEF Throws
    <3>5. ~handler[w].fits => Cardinality(Unfit') \in Nat /\ Cardinality(Unfit') + 1 <= Cardinality(Unfit)
      BY <1>1, <3>4, UnfitStep
    <3>3. Len(comments) = 0
      BY <1>0, <1>3, <2>5, <3>1, <3>2, <3>5
    <3> QED
      BY <1>0, <2>1, <3>3
  <2>6. Told'
    BY <1>1, <2>5 DEF Told
  <2> QED
    BY <2>3, <2>4, <2>6 DEF FailInv
<1>7. CASE Ends(w)
  <2>1. At(w, "idle")' /\ comments' = comments /\ failing' = failing
    BY <1>0, <1>7, HandlerType, IdleType DEF Ends, Return, At
  <2>2. job' = job \/ (job.state = "active" /\ job'.state = "completed")
    <3>1. JobOK(job)
      BY <1>0, TypeInvParts
    <3>2. OwnsJob(w) => job.state = "active" /\ [job EXCEPT !.state = "completed", !.owner = NoWorker].state = "completed"
      BY <3>1 DEF OwnsJob, JobOK, Job
    <3> QED
      BY <1>7, <3>2 DEF Ends, Return
  <2> QED
    BY <1>1, <1>3, <2>1, <2>2 DEF FailInv, Given, Alone, Told
<1> QED
  BY <1>4, <1>5, <1>6, <1>7 DEF Kinds

LEMMA FailNext ==
  ASSUME FailInv, [Next]_vars
  PROVE  FailInv'
<1>0. /\ TypeInv /\ PostInv' /\ faults \in Nat /\ failing \in Workers \cup {NoWorker} /\ row \in Row
  BY TypeInvParts, PostNext DEF FailInv, PostInv
<1>1. ASSUME NEW w \in Workers, Kinds(w) PROVE FailInv'
  BY <1>0, <1>1, KindsFail
<1>2. ASSUME NEW w \in Workers, Take(w) PROVE FailInv'
  <2>1. /\ handler'[w].pc = "running" /\ \A v \in Workers \ {w} : handler'[v] = handler[v]
        /\ job.state = "waiting" /\ job'.state = "active" /\ job'.owner = w
    BY <1>0, <1>2, TakeFacts
  <2>2. UNCHANGED <<row, failing, comments, faults>>
    BY <1>2 DEF Take, calm
  <2> QED
    BY <1>0, <2>1, <2>2 DEF FailInv, Given, Alone, Told, OwnsJob, At
<1>3. ASSUME NEW w \in Workers, Crash(w) PROVE FailInv'
  <2>1. /\ faults' = faults + 1 /\ UNCHANGED <<row, comments, failing>>
        /\ job'.state = job.state /\ job'.attemptsMade = job.attemptsMade
    BY <1>0, <1>3, CrashFacts
  <2> QED
    BY <1>0, <2>1 DEF FailInv, Given, Alone, Told
<1>4. CASE Redeliver
  <2>1. /\ job.state = "active" /\ job'.state = "waiting"
        /\ (job.owner = NoWorker /\ faults' = faults) \/ faults' = faults + 1
        /\ UNCHANGED <<row, handler, comments, failing>>
    BY <1>0, <1>4, RedeliverFacts
  <2>2. job.owner = NoWorker => \A w \in Workers : ~OwnsJob(w)
    BY TriageAssumption DEF OwnsJob
  <2> QED
    BY <1>0, <2>1, <2>2 DEF FailInv, Given, Alone, Told, At
<1>5. CASE BackoffOver \/ Uninstall
  <2>1. UNCHANGED <<handler, comments, faults, failing>>
    BY <1>5 DEF BackoffOver, Uninstall, calm
  <2>2. \/ job.state = "delayed" /\ job'.state = "waiting" /\ row' = row
        \/ job' = job /\ Gone'
    BY <1>0, <1>5, OtherFacts DEF BackoffOver, Uninstall
  <2> QED
    BY <1>0, <2>1, <2>2 DEF FailInv, Given, Alone, Told, OwnsJob, At, Gone
<1>6. CASE Listener \/ ListenerLost
  <2>1. /\ failing # NoWorker /\ failing' = NoWorker /\ UNCHANGED <<job, handler, comments>>
    BY <1>6 DEF Listener, ListenerLost
  <2>2. (Gone' <=> Gone) /\ faults' \in {faults, faults + 1}
    BY <1>0, <1>6, OtherFacts, <2>1
  <2> QED
    BY <1>0, <2>1, <2>2 DEF FailInv, Given, Alone, Told, OwnsJob, At
<1>7. CASE UNCHANGED vars
  BY <1>0, <1>7 DEF FailInv, Given, Alone, Told, OwnsJob, At, Gone, vars, calm
<1>8. ASSUME NEW w \in Workers, FailStalled(w) PROVE FailInv'
  <2>1. /\ job.state = "waiting" /\ job'.state = "failed"
        /\ (job'.attemptsMade = Attempts /\ failing' = w) \/ UNCHANGED failing
        /\ UNCHANGED <<row, handler, comments, faults>>
    BY <1>0, <1>8, StalledFacts DEF calm
  <2>2. failing = NoWorker /\ row.status # "FAILED"
    BY <2>1 DEF FailInv, Given
  <2>3. (failing # NoWorker \/ row.status = "FAILED" => Given)'
    BY <2>1, <2>2 DEF Given
  <2>4. Alone'
    BY <2>1 DEF FailInv, Alone, OwnsJob, At
  <2>5. ASSUME faults = 0, ~Gone PROVE comments = <<>>
    <3>1. Rerun = 1
      BY <2>1, <2>5 DEF Rerun
    <3>2. Len(comments) + (Cardinality(Pending) + Cardinality(Unfit) + Rerun) <= 1 + faults
      BY DEF FailInv, PostInv, Due
    <3>3. comments \in Seq(Verdicts) /\ Len(comments) \in Nat
      BY <1>0, TypeInvParts
    <3>4. Len(comments) = 0
      BY <2>5, <3>1, <3>2, <3>3, PendingFinite
    <3> QED
      BY <3>3, <3>4
  <2>6. Told'
    BY <2>1, <2>5 DEF Told, Gone
  <2> QED
    BY <1>0, <2>3, <2>4, <2>6 DEF FailInv
<1> QED
  BY <1>0, <1>1, <1>2, <1>3, <1>4, <1>5, <1>6, <1>7, <1>8, HandlerKinds, FaultKindsOfStep DEF Next

\* FAILED is only ever written for a job that has used up its attempts, and
\* without faults only for one that never told anybody a result (index.ts:86).
THEOREM FailedWhenExhausted == Spec => []FailedMeansExhausted
<1>1. Spec => []FailInv
  BY FailInit, FailNext, PTL DEF Spec
<1>2. FailInv => FailedMeansExhausted
  BY DEF FailInv, Given, Told, Gone, FailedMeansExhausted
<1> QED
  BY <1>1, <1>2, PTL

-----------------------------------------------------------------------------
(***************************************************************************)
(* A stored result.  While no run of the handler can have begun or gone on *)
(* beside or after another (RunAgain), a result is stored as the last      *)
(* thing before the job is settled, so nothing can be written over it.     *)
(***************************************************************************)
Owned == \A w \in Workers : At(w, "idle") \/ OwnsJob(w)
Stored == row.status = "COMPLETED" =>
            job.state = "completed" \/ \E w \in Workers : OwnsJob(w) /\ At(w, "settle")
PostedVerdict ==
  \A w \in Workers : handler[w].posted # 0 =>
    /\ At(w, "complete") /\ handler[w].posted \in 1 .. Len(comments)
    /\ comments[handler[w].posted] = handler[w].verdict
Shown == row.postedCommentId # 0 =>
           /\ row.status = "COMPLETED" /\ row.postedCommentId \in 1 .. Len(comments)
           /\ row.classification = comments[row.postedCommentId]

ShownInv == FailInv /\ (~RunAgain => Owned /\ Stored /\ PostedVerdict /\ Shown)

LEMMA ShownInit == Init => ShownInv
<1> SUFFICES ASSUME Init PROVE ShownInv
  OBVIOUS
<1>1. /\ \A w \in Workers : handler[w].pc = "idle" /\ handler[w].posted = 0
      /\ row.status = "QUEUED" /\ row.postedCommentId = 0
  BY DEF Init, Idle
<1> QED
  BY <1>1, FailInit DEF ShownInv, Owned, Stored, PostedVerdict, Shown, At

\* A step that is no part of another run leaves the faults of RunAgain alone.
LEMMA RunAgainGrows ==
  ASSUME TypeInv, [Next]_vars
  PROVE  RunAgain => RunAgain'
<1>1. ASSUME NEW kind, Fault(kind) PROVE suffered \subseteq suffered'
  BY <1>1 DEF Fault
<1>2. suffered \subseteq suffered'
  <2>1. CASE \E w \in Workers : Take(w) \/ FailStalled(w)
    BY <2>1 DEF Take, FailStalled, calm
  <2>2. CASE \E w \in Workers : HandlerStep(w)
    BY <2>2 DEF HandlerStep, SetRunning, ListJobs, FetchLog, LoadRun, AskModel, Post, Complete, SettleJob, calm
  <2>3. CASE \E w \in Workers : AwaitThrows(w) \/ AnswerLost(w) \/ UnfitAnswer(w) \/ Crash(w)
    BY <1>1, <2>3 DEF AwaitThrows, AnswerLost, UnfitAnswer, Crash
  <2>4. CASE Redeliver
    BY <1>1, <2>4 DEF Redeliver, calm
  <2>5. CASE BackoffOver \/ Listener \/ Uninstall \/ UNCHANGED vars
    BY <2>5 DEF BackoffOver, Listener, Uninstall, vars, calm
  <2>6. CASE ListenerLost
    BY <1>1, <2>6 DEF ListenerLost
  <2> QED
    BY <2>1, <2>2, <2>3, <2>4, <2>5, <2>6 DEF Next
<1> QED
  BY <1>2 DEF RunAgain

LEMMA AloneFacts ==
  ASSUME ShownInv, NEW w \in Workers, ~At(w, "idle"), ~RunAgain
  PROVE  /\ OwnsJob(w) /\ \A v \in Workers \ {w} : At(v, "idle") /\ ~OwnsJob(v)
         /\ job.state = "active" /\ (row.status = "COMPLETED" => At(w, "settle"))
         /\ \A v \in Workers \ {w} : handler[v].posted = 0
         /\ ~At(w, "complete") => handler[w].posted = 0
BY DEF ShownInv, Owned, Stored, PostedVerdict, OwnsJob, At
\* A step of w that neither posts nor stores.
LEMMA QuietStep ==
  ASSUME ShownInv, FailInv', NEW w \in Workers, ~At(w, "idle"), ~RunAgain,
         \A v \in Workers \ {w} : handler'[v] = handler[v],
         handler'[w].posted = 0, At(w, "idle")' \/ (OwnsJob(w)' /\ ~At(w, "settle")),
         UNCHANGED comments, row'.postedCommentId = row.postedCommentId,
         row' = row \/ (row'.status = "RUNNING" /\ ~At(w, "settle")),
         At(w, "settle") => job'.state = "completed"
  PROVE  ShownInv'
<1>1. /\ \A v \in Workers \ {w} : At(v, "idle") /\ handler[v].posted = 0
      /\ row.status = "COMPLETED" => At(w, "settle")
      /\ Shown
  BY AloneFacts DEF ShownInv
<1>2. Owned' /\ PostedVerdict' /\ Stored'
  BY <1>1 DEF Owned, PostedVerdict, Stored, At
<1>3. Shown'
  BY <1>1 DEF Shown
<1> QED
  BY <1>2, <1>3 DEF ShownInv

LEMMA ThrowShown ==
  ASSUME ShownInv, FailInv', NEW w \in Workers, ~At(w, "idle"), ~At(w, "settle"), ~RunAgain, Throw(w),
         UNCHANGED <<row, comments>>
  PROVE  ShownInv'
<1>1. TypeInv
  BY DEF ShownInv, FailInv, PostInv
<1>2. handler' = [handler EXCEPT ![w] = Idle] /\ Idle \in Handler /\ Idle.pc = "idle" /\ Idle.posted = 0
  BY IdleType DEF Throw, Idle
<1>3. handler'[w] = Idle /\ \A v \in Workers \ {w} : handler'[v] = handler[v]
  BY <1>1, <1>2, HandlerType
<1> QED
  BY <1>2, <1>3, QuietStep DEF At

LEMMA OnShown ==
  ASSUME ShownInv, FailInv', NEW w \in Workers, ~At(w, "idle"), ~At(w, "settle"), ~At(w, "complete"), ~RunAgain,
         InHandler(w), handler'[w].posted = handler[w].posted, UNCHANGED <<job, comments>>,
         row'.postedCommentId = row.postedCommentId, row' = row \/ row'.status = "RUNNING"
  PROVE  ShownInv'
<1>1. TypeInv
  BY DEF ShownInv, FailInv, PostInv
<1>2. \A v \in Workers \ {w} : handler'[v] = handler[v]
  BY <1>1, HandlerType DEF InHandler
<1>3. handler[w].posted = 0 /\ OwnsJob(w)
  BY AloneFacts
<1> QED
  BY <1>2, <1>3, QuietStep DEF OwnsJob

LEMMA PostShown ==
  ASSUME ShownInv, FailInv', NEW w \in Workers, ~RunAgain, Post(w)
  PROVE  ShownInv'
<1>0. /\ TypeInv /\ At(w, "post") /\ UNCHANGED <<row, job>> /\ handler[w] \in Handler
      /\ handler[w].verdict \in Verdicts /\ comments \in Seq(Verdicts) /\ Len(comments) \in Nat
      /\ handler \in [Workers -> Handler]
  BY TypeInvParts DEF ShownInv, FailInv, PostInv, Post, TypeInv, At
<1>1. /\ OwnsJob(w) /\ \A v \in Workers \ {w} : At(v, "idle") /\ handler[v].posted = 0
      /\ row.status # "COMPLETED" /\ handler[w].posted = 0 /\ Shown
  BY <1>0, AloneFacts DEF ShownInv, At
<1>2. row.postedCommentId = 0
  BY <1>1 DEF Shown
<1>3. /\ \A v \in Workers \ {w} : handler'[v] = handler[v]
      /\ handler'[w].pc = "complete"
      /\ \/ handler'[w].posted = 0
         \/ /\ handler'[w].posted = Len(comments) + 1 /\ handler'[w].verdict = handler[w].verdict
            /\ comments' = Append(comments, handler[w].verdict)
  <2>1. CASE Goto(w, "complete")
    <3>1. handler' = [handler EXCEPT ![w] = [handler[w] EXCEPT !.pc = "complete"]]
      BY <2>1 DEF Goto
    <3>2. handler'[w] = [handler[w] EXCEPT !.pc = "complete"] /\ \A v \in Workers \ {w} : handler'[v] = handler[v]
      BY <1>0, <3>1
    <3>3. handler'[w].pc = "complete" /\ handler'[w].posted = handler[w].posted
      BY <1>0, <3>2 DEF Handler
    <3> QED
      BY <1>1, <3>2, <3>3
  <2>2. CASE ~Goto(w, "complete")
    <3> DEFINE posted == IF row.pullNumber THEN Len(comments) + 1 ELSE 0
               h == [handler[w] EXCEPT !.pc = "complete", !.posted = posted]
    <3>1. handler' = [handler EXCEPT ![w] = h] /\ Comment(w)
      BY <2>2 DEF Post
    <3>2. handler'[w] = h /\ \A v \in Workers \ {w} : handler'[v] = handler[v]
      BY <1>0, <3>1
    <3> HIDE DEF posted
    <3>3. h.pc = "complete" /\ h.posted = posted /\ h.verdict = handler[w].verdict
      BY <1>0 DEF Handler
    <3> QED
      BY <3>1, <3>2, <3>3 DEF Comment, posted
  <2> QED
    BY <2>1, <2>2
<1>4. Owned'
  BY <1>0, <1>1, <1>3 DEF Owned, OwnsJob, At
<1>5. Stored' /\ Shown'
  BY <1>0, <1>1, <1>2 DEF Stored, Shown
<1>6. PostedVerdict'
  <2>1. /\ Len(Append(comments, handler[w].verdict)) = Len(comments) + 1
        /\ Append(comments, handler[w].verdict)[Len(comments) + 1] = handler[w].verdict
    BY <1>0
  <2> QED
    BY <1>0, <1>1, <1>3, <2>1 DEF PostedVerdict, At
<1> QED
  BY <1>4, <1>5, <1>6 DEF ShownInv

LEMMA CompleteShown ==
  ASSUME ShownInv, FailInv', NEW w \in Workers, ~RunAgain, Complete(w), ~Gone, handler[w].fits
  PROVE  ShownInv'
<1>0. /\ TypeInv /\ handler[w].pc \in {"noLogs", "complete"} /\ UNCHANGED <<job, comments>>
      /\ row \in Row /\ handler \in [Workers -> Handler] /\ StoreResult(w)
  BY TypeInvParts DEF ShownInv, FailInv, PostInv, Complete
<1>1. /\ OwnsJob(w) /\ \A v \in Workers \ {w} : At(v, "idle") /\ handler[v].posted = 0
      /\ row.status # "COMPLETED" /\ Shown /\ PostedVerdict
      /\ ~At(w, "complete") => handler[w].posted = 0
  BY <1>0, AloneFacts DEF ShownInv, At
<1>2. row.postedCommentId = 0
  BY <1>1 DEF Shown
<1>3. /\ handler'[w].pc = "settle" /\ handler'[w].posted = 0
      /\ \A v \in Workers \ {w} : handler'[v] = handler[v]
  BY <1>0 DEF Complete, Idle
<1>4. /\ At(w, "noLogs") => row'.postedCommentId = 0
      /\ ~At(w, "noLogs") => /\ row'.postedCommentId = handler[w].posted
                             /\ row'.classification = handler[w].verdict
      /\ row'.status = "COMPLETED"
  BY <1>0, <1>2 DEF StoreResult, Completed, Row
<1>5. Owned' /\ Stored'
  BY <1>0, <1>1, <1>3 DEF Owned, Stored, OwnsJob, At
<1>6. Shown'
  BY <1>0, <1>1, <1>4 DEF Shown, PostedVerdict
<1>7. PostedVerdict'
  BY <1>1, <1>3 DEF PostedVerdict, At
<1> QED
  BY <1>5, <1>6, <1>7 DEF ShownInv
LEMMA HandlerShown ==
  ASSUME ShownInv, FailInv', NEW w \in Workers, ~RunAgain, HandlerStep(w)
  PROVE  ShownInv'
<1>0. /\ TypeInv /\ InHandler(w) /\ handler \in [Workers -> Handler] /\ handler[w] \in Handler /\ row \in Row
  BY TypeInvParts, HandlerKinds DEF ShownInv, FailInv, PostInv, Kinds
<1>1. CASE SetRunning(w)
  <2>1. CASE Gone
    BY <1>1, <2>1, ThrowShown DEF SetRunning, At
  <2>2. CASE ~Gone
    <3>1. /\ handler' = [handler EXCEPT ![w] = [handler[w] EXCEPT !.pc = "jobs"]]
          /\ row' = [row EXCEPT !.status = "RUNNING"] /\ UNCHANGED <<job, comments>> /\ At(w, "running")
      BY <1>1, <2>2 DEF SetRunning, Goto
    <3>2. handler'[w].posted = handler[w].posted
      BY <1>0, <3>1 DEF Handler
    <3>3. row'.postedCommentId = row.postedCommentId /\ row'.status = "RUNNING"
      BY <1>0, <3>1 DEF Row
    <3> QED
      BY <1>0, <3>1, <3>2, <3>3, OnShown DEF At
  <2> QED
    BY <2>1, <2>2
<1>2. CASE ListJobs(w)
  <2>1. PICK n \in FailedJobs : handler' = [handler EXCEPT ![w] = [handler[w] EXCEPT !.pc = "log", !.left = n]]
    BY <1>2 DEF ListJobs
  <2>2. handler'[w].posted = handler[w].posted
    BY <1>0, <2>1 DEF Handler
  <2> QED
    BY <1>0, <1>2, <2>2, OnShown DEF ListJobs, At
<1>3. CASE FetchLog(w)
  <2>1. CASE handler[w].left = 0
    <3>1. handler' = [handler EXCEPT ![w] = [handler[w] EXCEPT !.pc = "load"]]
      BY <1>3, <2>1 DEF FetchLog, Goto
    <3>2. handler'[w].posted = handler[w].posted
      BY <1>0, <3>1 DEF Handler
    <3> QED
      BY <1>0, <1>3, <3>2, OnShown DEF FetchLog, At
  <2>2. CASE handler[w].left # 0
    <3>1. PICK got \in BOOLEAN : handler' = [handler EXCEPT ![w] =
            [handler[w] EXCEPT !.left = handler[w].left - 1, !.logs = handler[w].logs \/ got]]
      BY <1>3, <2>2 DEF FetchLog
    <3> DEFINE logs == handler[w].logs \/ got
    <3>2. handler' = [handler EXCEPT ![w] = [handler[w] EXCEPT !.left = handler[w].left - 1, !.logs = logs]]
      BY <3>1
    <3> HIDE DEF logs
    <3>3. handler'[w].posted = handler[w].posted
      BY <1>0, <3>2 DEF Handler
    <3> QED
      BY <1>0, <1>3, <3>3, OnShown DEF FetchLog, At
  <2> QED
    BY <2>1, <2>2
<1>4. CASE LoadRun(w)
  <2>1. CASE Gone
    BY <1>4, <2>1, ThrowShown DEF LoadRun, At
  <2>2. CASE ~Gone
    <3>1. PICK pc : handler' = [handler EXCEPT ![w] = [handler[w] EXCEPT !.pc = pc]]
      BY <1>4, <2>2 DEF LoadRun, Goto
    <3>2. handler'[w].posted = handler[w].posted
      BY <1>0, <3>1 DEF Handler
    <3> QED
      BY <1>0, <1>4, <2>2, <3>2, OnShown DEF LoadRun, At
  <2> QED
    BY <2>1, <2>2
<1>5. CASE AskModel(w)
  <2>0. At(w, "ask") /\ UNCHANGED <<row, comments>>
    BY <1>5 DEF AskModel
  <2>1. CASE Throw(w)
    BY <2>0, <2>1, ThrowShown DEF At
  <2>2. CASE RateLimited(w) /\ ~Throw(w)
    <3>1. /\ handler' = [handler EXCEPT ![w] = [handler[w] EXCEPT !.tries = handler[w].tries + 1]]
          /\ UNCHANGED job
      BY <2>2 DEF RateLimited
    <3>2. handler'[w].posted = handler[w].posted
      BY <1>0, <3>1 DEF Handler
    <3> QED
      BY <1>0, <2>0, <3>1, <3>2, OnShown DEF At
  <2>3. CASE Answered(w) /\ ~Throw(w)
    <3>1. PICK verdict : handler' = [handler EXCEPT ![w] = [handler[w] EXCEPT !.pc = "post", !.verdict = verdict]]
      BY <2>3 DEF Answered
    <3>2. handler'[w].posted = handler[w].posted /\ UNCHANGED job
      BY <1>0, <2>3, <3>1 DEF Handler, Answered
    <3> QED
      BY <1>0, <2>0, <3>2, OnShown DEF At
  <2> QED
    BY <1>5, <2>1, <2>2, <2>3 DEF AskModel
<1>6. CASE Post(w)
  BY <1>6, PostShown
<1>7. CASE Complete(w)
  <2>1. CASE Gone \/ ~handler[w].fits
    BY <1>7, <2>1, ThrowShown DEF Complete, At
  <2> QED
    BY <1>7, <2>1, CompleteShown
<1>8. CASE SettleJob(w)
  <2>1. At(w, "settle") /\ OwnsJob(w) /\ UNCHANGED <<row, comments>>
    BY <1>8, AloneFacts DEF SettleJob, At
  <2>2. handler' = [handler EXCEPT ![w] = Idle] /\ job' = [job EXCEPT !.state = "completed", !.owner = NoWorker]
    BY <1>8, <2>1 DEF SettleJob, Return
  <2>3. job'.state = "completed"
    BY <1>0, <2>2, TypeInvParts DEF JobOK, Job
  <2>4. /\ handler'[w].pc = "idle" /\ handler'[w].posted = 0
        /\ \A v \in Workers \ {w} : handler'[v] = handler[v]
    BY <1>0, <2>2 DEF Idle
  <2> QED
    BY <2>1, <2>3, <2>4, QuietStep DEF At
<1> QED
  BY <1>1, <1>2, <1>3, <1>4, <1>5, <1>6, <1>7, <1>8 DEF HandlerStep

LEMMA ShownNext ==
  ASSUME ShownInv, [Next]_vars
  PROVE  ShownInv'
<1>0. TypeInv /\ FailInv /\ FailInv' /\ row \in Row
  BY FailNext, TypeInvParts DEF ShownInv, FailInv, PostInv
<1> SUFFICES ASSUME ~RunAgain' PROVE ShownInv'
  BY <1>0 DEF ShownInv
<1>1. ~RunAgain /\ Owned /\ Stored /\ PostedVerdict /\ Shown
  BY <1>0, RunAgainGrows DEF ShownInv
<1>2. ASSUME NEW w \in Workers, HandlerStep(w) PROVE ShownInv'
  BY <1>0, <1>1, <1>2, HandlerShown
<1>3. ASSUME NEW w \in Workers, AwaitThrows(w) PROVE ShownInv'
  BY <1>0, <1>1, <1>3, ThrowShown DEF AwaitThrows, At
<1>4. ASSUME NEW kind \in {"answerLost", "crash", "lockLost"}, Fault(kind) PROVE FALSE
  BY <1>4 DEF Fault, RunAgain
<1>5. ASSUME NEW w \in Workers, AnswerLost(w) \/ Crash(w) PROVE ShownInv'
  BY <1>4, <1>5 DEF AnswerLost, Crash
<1>6. ASSUME NEW w \in Workers, Take(w) PROVE ShownInv'
  <2>1. /\ handler'[w].pc = "running" /\ \A v \in Workers \ {w} : handler'[v] = handler[v]
        /\ job.state = "waiting" /\ job'.state = "active" /\ job'.owner = w
    BY <1>0, <1>6, TakeFacts
  <2>2. UNCHANGED <<row, comments>> /\ At(w, "idle") /\ handler' = [handler EXCEPT ![w] = [handler[w] EXCEPT !.pc = "running"]]
    BY <1>6 DEF Take, Goto
  <2>3. \A v \in Workers : At(v, "idle") /\ handler[v].posted = 0
    BY <1>1, <2>1 DEF Owned, OwnsJob, PostedVerdict, At
  <2>4. row.status # "COMPLETED"
    BY <1>1, <2>1 DEF Stored, OwnsJob
  <2>5. handler'[w].posted = 0
    <3>1. handler \in [Workers -> Handler]
      BY <1>0, TypeInvParts
    <3> QED
      BY <2>2, <2>3, <3>1 DEF Handler
  <2> QED
    BY <1>0, <1>1, <2>1, <2>2, <2>3, <2>4, <2>5 DEF ShownInv, Owned, Stored, PostedVerdict, Shown, OwnsJob, At
<1>7. CASE Redeliver
  <2>1. job.state = "active" /\ job.owner = NoWorker
    BY <1>4, <1>7 DEF Redeliver
  <2>2. job'.state = "waiting" /\ UNCHANGED <<row, handler, comments>>
    BY <1>0, <1>7, RedeliverFacts
  <2>3. \A w \in Workers : At(w, "idle") /\ handler[w].posted = 0
    BY <1>1, <2>1, TriageAssumption DEF Owned, OwnsJob, PostedVerdict, At
  <2>4. row.status # "COMPLETED"
    BY <1>1, <2>1, TriageAssumption DEF Stored, OwnsJob
  <2> QED
    BY <1>0, <1>1, <2>2, <2>3, <2>4 DEF ShownInv, Owned, Stored, PostedVerdict, Shown, At
<1>8. CASE BackoffOver
  <2>1. job.state = "delayed" /\ UNCHANGED <<row, handler, comments>>
    BY <1>8 DEF BackoffOver
  <2>2. \A w \in Workers : At(w, "idle") /\ handler[w].posted = 0
    BY <1>1, <2>1 DEF Owned, OwnsJob, PostedVerdict, At
  <2>3. row.status # "COMPLETED"
    BY <1>1, <2>1 DEF Stored, OwnsJob
  <2> QED
    BY <1>0, <1>1, <2>1, <2>2, <2>3 DEF ShownInv, Owned, Stored, PostedVerdict, Shown, At
<1>9. CASE Listener
  <2>1. /\ row' = IF Gone THEN row ELSE [row EXCEPT !.status = "FAILED"]
        /\ UNCHANGED <<job, handler, comments>> /\ job.state = "failed"
    BY <1>0, <1>9 DEF Listener, FailInv, Given
  <2>2. row.status # "COMPLETED"
    BY <1>1, <2>1 DEF Stored, OwnsJob
  <2>3. row'.status # "COMPLETED" /\ row'.postedCommentId = row.postedCommentId
    BY <1>0, <2>1, <2>2 DEF Row
  <2> QED
    BY <1>0, <1>1, <2>1, <2>2, <2>3 DEF ShownInv, Owned, Stored, PostedVerdict, Shown, OwnsJob, At
<1>10. CASE ListenerLost \/ UNCHANGED vars
  <2>1. UNCHANGED <<row, job, handler, comments>>
    BY <1>10 DEF ListenerLost, vars
  <2> QED
    BY <1>0, <1>1, <2>1 DEF ShownInv, Owned, Stored, PostedVerdict, Shown, OwnsJob, At
<1>11. CASE Uninstall
  <2>1. UNCHANGED <<job, handler, comments>> /\ row'.status = "GONE" /\ row'.postedCommentId = 0
    BY <1>0, <1>11 DEF Uninstall, Row
  <2> QED
    BY <1>0, <1>1, <2>1 DEF ShownInv, Owned, Stored, PostedVerdict, Shown, OwnsJob, At
<1>12. ASSUME NEW w \in Workers, UnfitAnswer(w) PROVE ShownInv'
  <2>1. InHandler(w) /\ At(w, "ask") /\ UNCHANGED <<row, job, comments>>
    BY <1>0, <1>12, FaultKindsOfStep DEF Kinds, UnfitAnswer
  <2>2. handler \in [Workers -> Handler]
    BY <1>0, TypeInvParts
  <2>3. PICK verdict : handler' = [handler EXCEPT ![w] =
          [handler[w] EXCEPT !.pc = "post", !.verdict = verdict, !.fits = FALSE]]
    BY <1>12 DEF UnfitAnswer
  <2>4. handler'[w].posted = handler[w].posted
    BY <2>2, <2>3 DEF Handler
  <2> QED
    BY <1>0, <1>1, <2>1, <2>4, OnShown DEF At
<1>13. ASSUME NEW w \in Workers, FailStalled(w) PROVE ShownInv'
  <2>1. /\ job.state = "waiting" /\ UNCHANGED <<row, handler, comments>>
    BY <1>0, <1>13, StalledFacts
  <2>2. \A v \in Workers : At(v, "idle") /\ handler[v].posted = 0
    BY <1>1, <2>1 DEF Owned, OwnsJob, PostedVerdict, At
  <2>3. row.status # "COMPLETED"
    BY <1>1, <2>1 DEF Stored, OwnsJob
  <2> QED
    BY <1>0, <1>1, <2>1, <2>2, <2>3 DEF ShownInv, Owned, Stored, PostedVerdict, Shown, At
<1> QED
  BY <1>2, <1>3, <1>5, <1>6, <1>7, <1>8, <1>9, <1>10, <1>11, <1>12, <1>13 DEF Next

\* The classification stored beside a comment's id is the one the comment gives
\* (index.ts:62), although attempts may end differently.
THEOREM CommentsShown == Spec => []RowShowsItsComment
<1>1. Spec => []ShownInv
  BY ShownInit, ShownNext, PTL DEF Spec
<1>2. ShownInv => RowShowsItsComment
  BY DEF ShownInv, Shown, RowShowsItsComment
<1> QED
  BY <1>1, <1>2, PTL

\* No step takes COMPLETED back but an uninstall or a second run of the handler
\* (index.ts:19, index.ts:86, whose writes are unconditional).
THEOREM CompletedIsFinal == Spec => CompletedStays
<1>1. ASSUME ShownInv, [Next]_vars, row.status = "COMPLETED", ~RunAgain'
      PROVE  row'.status \in {"COMPLETED", "GONE"}
  <2>1. TypeInv /\ FailInv /\ ~RunAgain /\ Stored /\ row \in Row
    BY <1>1, RunAgainGrows, TypeInvParts DEF ShownInv, FailInv, PostInv
  <2>2. ASSUME NEW w \in Workers, ~At(w, "idle"), ~At(w, "settle") PROVE FALSE
    BY <1>1, <2>1, <2>2, AloneFacts
  <2>3. ASSUME NEW kind \in {"answerLost", "crash", "lockLost"}, Fault(kind) PROVE FALSE
    BY <1>1, <2>3 DEF Fault, RunAgain
  <2>4. CASE \E w \in Workers : HandlerStep(w)
    <3>1. PICK w \in Workers : HandlerStep(w)
      BY <2>4
    <3>2. SettleJob(w)
      BY <2>2, <3>1 DEF HandlerStep, SetRunning, ListJobs, FetchLog, LoadRun, AskModel, Post, Complete, At
    <3> QED
      BY <1>1, <3>2 DEF SettleJob
  <2>5. CASE \E w \in Workers : \/ Take(w) \/ FailStalled(w) \/ UnfitAnswer(w) \/ AwaitThrows(w)
                               \/ AnswerLost(w) \/ Crash(w)
    BY <1>1, <2>3, <2>5 DEF Take, FailStalled, UnfitAnswer, AwaitThrows, AnswerLost, Crash
  <2>6. CASE Redeliver \/ BackoffOver \/ ListenerLost \/ UNCHANGED vars
    BY <1>1, <2>6 DEF Redeliver, BackoffOver, ListenerLost, vars
  <2>7. CASE Listener
    <3>1. job.state = "failed"
      BY <2>1, <2>7 DEF Listener, FailInv, Given
    <3> QED
      BY <1>1, <2>1, <3>1 DEF Stored, OwnsJob
  <2>8. CASE Uninstall
    BY <2>1, <2>8 DEF Uninstall, Row
  <2> QED
    BY <1>1, <2>4, <2>5, <2>6, <2>7, <2>8 DEF Next
<1>2. ShownInv /\ [Next]_vars => [row.status = "COMPLETED" => row'.status \in {"COMPLETED", "GONE"} \/ RunAgain']_vars
  BY <1>1
<1> QED
  BY <1>2, ShownInit, ShownNext, PTL DEF Spec, CompletedStays

-----------------------------------------------------------------------------
(***************************************************************************)
(* What the model is paid.  Every run of the handler brings at most Budget *)
(* calls; the calls made and the calls the runs at work may still make are *)
(* counted together.                                                       *)
(***************************************************************************)
Budget == MaxRetries + 1
Asking == {"running", "jobs", "log", "load", "ask"}
\* The calls w may still make, by number.
Owed == {p \in Workers \X (1 .. Budget) : handler[p[1]].pc \in Asking /\ handler[p[1]].tries < p[2]}
\* Runs of the handler the job has seen begin, those that were stalls apart.
RunsOf(j) == j.attemptsMade + IF j.state \in {"active", "completed"} THEN 1 ELSE 0
\* Stalls that got the job another run: not the one it was failed for.
Reruns == IF job.state = "failed" /\ stalls > MaxStalledCount THEN MaxStalledCount ELSE stalls
Runs == RunsOf(job) + Reruns
StallsCounted ==
  /\ stalls <= MaxStalledCount + 1
  /\ stalls > MaxStalledCount => job.state \in {"waiting", "failed"}

TriesBounded == \A w \in Workers : handler[w].tries <= MaxRetries
CompletedInTime == job.state = "completed" => job.attemptsMade < Attempts
CallsInv ==
  /\ TypeInv /\ TriesBounded /\ CompletedInTime /\ StallsCounted
  /\ calls + Cardinality(Owed) <= Budget * Runs

LEMMA BudgetType == Budget \in Nat /\ MaxRetries \in Nat /\ MaxRetries < Budget /\ 1 .. Budget \subseteq Nat
BY TriageAssumption DEF Budget

LEMMA OwedFinite == IsFiniteSet(Owed) /\ Cardinality(Owed) \in Nat
<1>1. IsFiniteSet(1 .. Budget) /\ IsFiniteSet(Workers)
  BY BudgetType, FS_Interval, TriageAssumption
<1>2. IsFiniteSet(Workers \X (1 .. Budget))
  BY <1>1, FS_Product
<1>3. Owed \in SUBSET (Workers \X (1 .. Budget))
  BY DEF Owed
<1>4. IsFiniteSet(Owed)
  BY <1>2, <1>3, FS_Subset
<1> QED
  BY <1>4, FS_CardinalityType

LEMMA OwnCalls ==
  ASSUME NEW w
  PROVE  IsFiniteSet({w} \X (1 .. Budget)) /\ Cardinality({w} \X (1 .. Budget)) = Budget
<1>1. IsFiniteSet(1 .. Budget) /\ Cardinality(1 .. Budget) = Budget
  BY BudgetType, FS_Interval
<1>2. IsFiniteSet({w}) /\ Cardinality({w}) = 1
  BY FS_Singleton
<1>3. IsFiniteSet({w} \X (1 .. Budget)) /\ Cardinality({w} \X (1 .. Budget)) = 1 * Budget
  BY <1>1, <1>2, FS_Product
<1> QED
  BY <1>3, BudgetType

\* What the handler of w does to what it owes.
Begins(w) == /\ handler[w].pc = "idle" /\ handler'[w].pc = "running" /\ UNCHANGED calls
             /\ handler'[w].tries = handler[w].tries
Goes(w) == /\ handler'[w].pc \in Asking => handler[w].pc \in Asking /\ handler'[w].tries = handler[w].tries
           /\ UNCHANGED calls
Spends(w) == /\ handler[w].pc = "ask" /\ calls' = calls + 1
             /\ handler'[w].pc \in Asking => handler'[w].tries = handler[w].tries + 1

LEMMA OwedGrows ==
  ASSUME CallsInv, NEW w \in Workers, \A v \in Workers \ {w} : handler'[v] = handler[v]
  PROVE  Cardinality(Owed') \in Nat /\ Cardinality(Owed') <= Cardinality(Owed) + Budget
<1>1. Owed' \subseteq Owed \cup ({w} \X (1 .. Budget))
  BY DEF Owed, Budget
<1>2. IsFiniteSet(Owed) /\ Cardinality(Owed) \in Nat
  BY OwedFinite
<1>3. IsFiniteSet({w} \X (1 .. Budget)) /\ Cardinality({w} \X (1 .. Budget)) = Budget
  BY OwnCalls
<1>4. Cardinality(Owed \cap ({w} \X (1 .. Budget))) \in Nat
  BY <1>2, FS_Intersection, FS_CardinalityType
<1>5. /\ IsFiniteSet(Owed \cup ({w} \X (1 .. Budget)))
      /\ Cardinality(Owed \cup ({w} \X (1 .. Budget))) <= Cardinality(Owed) + Budget
  BY <1>2, <1>3, <1>4, BudgetType, FS_Union
<1>6. /\ IsFiniteSet(Owed') /\ Cardinality(Owed') <= Cardinality(Owed \cup ({w} \X (1 .. Budget)))
  BY <1>1, <1>5, FS_Subset
<1>7. Cardinality(Owed') \in Nat /\ Cardinality(Owed \cup ({w} \X (1 .. Budget))) \in Nat
  BY <1>5, <1>6, FS_CardinalityType
<1> QED
  BY <1>2, <1>5, <1>6, <1>7, BudgetType

LEMMA OwedShrinks ==
  ASSUME CallsInv, NEW w \in Workers, \A v \in Workers \ {w} : handler'[v] = handler[v], Goes(w)
  PROVE  Cardinality(Owed') \in Nat /\ Cardinality(Owed') <= Cardinality(Owed)
<1>1. Owed' \subseteq Owed
  BY DEF Owed, Goes, Budget
<1>2. IsFiniteSet(Owed') /\ Cardinality(Owed') <= Cardinality(Owed)
  BY <1>1, OwedFinite, FS_Subset
<1> QED
  BY <1>2, FS_CardinalityType

LEMMA OwedSpent ==
  ASSUME CallsInv, NEW w \in Workers, \A v \in Workers \ {w} : handler'[v] = handler[v], Spends(w)
  PROVE  Cardinality(Owed') \in Nat /\ Cardinality(Owed') + 1 <= Cardinality(Owed)
<1> DEFINE spent == <<w, handler[w].tries + 1>>
<1>1. handler[w].tries \in Nat /\ handler[w].tries <= MaxRetries
  <2>1. handler[w] \in Handler
    BY TypeInvParts DEF CallsInv
  <2> QED
    BY <2>1 DEF CallsInv, TriesBounded, Handler
<1>2. spent \in Owed
  <2>1. spent \in Workers \X (1 .. Budget)
    BY <1>1, BudgetType DEF Budget
  <2>2. handler[w].pc \in Asking /\ handler[w].tries < handler[w].tries + 1
    BY <1>1 DEF Spends, Asking
  <2> QED
    BY <2>1, <2>2 DEF Owed
<1>3. Owed' \subseteq Owed \ {spent}
  <2> SUFFICES ASSUME NEW v \in Workers, NEW n \in 1 .. Budget,
                      handler'[v].pc \in Asking, handler'[v].tries < n
               PROVE  <<v, n>> \in Owed \ {spent}
    BY DEF Owed, Budget
  <2>1. CASE v # w
    BY <2>1 DEF Owed
  <2>2. CASE v = w
    <3>1. handler[w].tries + 1 < n /\ handler[w].pc \in Asking
      BY <2>2 DEF Spends, Asking
    <3>2. handler[w].tries < n /\ n # handler[w].tries + 1
      BY <1>1, <3>1, BudgetType
    <3> QED
      BY <2>2, <3>1, <3>2 DEF Owed
  <2> QED
    BY <2>1, <2>2
<1> HIDE DEF spent
<1>4. IsFiniteSet(Owed) /\ Cardinality(Owed) \in Nat
  BY OwedFinite
<1>5. IsFiniteSet(Owed \ {spent}) /\ Cardinality(Owed \ {spent}) = Cardinality(Owed) - 1
  BY <1>2, <1>4, FS_RemoveElement
<1>6. IsFiniteSet(Owed') /\ Cardinality(Owed') <= Cardinality(Owed \ {spent})
  BY <1>3, <1>5, FS_Subset
<1>7. Cardinality(Owed') \in Nat
  BY <1>6, FS_CardinalityType
<1> QED
  BY <1>4, <1>5, <1>6, <1>7

\* The end of a run is counted already.
LEMMA ThrowRuns ==
  ASSUME TypeInv, CompletedInTime, NEW w \in Workers, Throw(w)
  PROVE  RunsOf(job') = RunsOf(job) /\ CompletedInTime' /\ (job' = job \/ job.state = "active")
<1>1. JobOK(job) /\ Attempts \in Nat
  BY TypeInvParts, TriageAssumption
<1>2. CASE OwnsJob(w)
  <2> DEFINE made == job.attemptsMade + 1
  <2>1. job' = Unowned(made) /\ job.state = "active" /\ made \in Nat
    BY <1>1, <1>2 DEF Throw, OwnsJob, JobOK, Job
  <2>2. job'.attemptsMade = made /\ job'.state \in {"failed", "delayed"}
    BY <2>1 DEF Unowned
  <2> QED
    BY <1>1, <2>1, <2>2 DEF RunsOf, CompletedInTime, JobOK, Job
<1>3. CASE ~OwnsJob(w)
  BY <1>3 DEF Throw, CompletedInTime
<1> QED
  BY <1>2, <1>3

LEMMA ReturnRuns ==
  ASSUME TypeInv, CompletedInTime, NEW w \in Workers, Return(w)
  PROVE  RunsOf(job') = RunsOf(job) /\ CompletedInTime' /\ (job' = job \/ job.state = "active")
<1>1. JobOK(job)
  BY TypeInvParts
<1>2. CASE OwnsJob(w)
  <2>1. job' = [job EXCEPT !.state = "completed", !.owner = NoWorker] /\ job.state = "active"
    BY <1>2 DEF Return, OwnsJob
  <2>2. job'.state = "completed" /\ job'.attemptsMade = job.attemptsMade
    BY <1>1, <2>1 DEF JobOK, Job
  <2> QED
    BY <1>1, <2>1, <2>2 DEF RunsOf, CompletedInTime, JobOK
<1>3. CASE ~OwnsJob(w)
  BY <1>3 DEF Return, CompletedInTime
<1> QED
  BY <1>2, <1>3

\* A run ends while its job has stalls to spare.
LEMMA RunsKept ==
  ASSUME TypeInv, StallsCounted, RunsOf(job') = RunsOf(job), job' = job \/ job.state = "active",
         UNCHANGED stalls
  PROVE  Runs' = Runs /\ StallsCounted'
<1>1. stalls \in Nat /\ MaxStalledCount \in Nat
  BY TypeInvParts, TriageAssumption
<1>2. CASE job' = job
  BY <1>2 DEF Runs, RunsOf, Reruns, StallsCounted
<1>3. CASE job.state = "active"
  <2>1. ~(stalls > MaxStalledCount)
    BY <1>3 DEF StallsCounted
  <2>2. Reruns = stalls /\ Reruns' = stalls /\ StallsCounted'
    BY <1>1, <2>1 DEF Reruns, StallsCounted
  <2> QED
    BY <2>2 DEF Runs, RunsOf
<1> QED
  BY <1>2, <1>3

JobEnds(w) == UNCHANGED job \/ Throw(w) \/ Return(w)

\* A handler that is idle afterwards owes nothing.
LEMMA IdleCalls ==
  ASSUME TypeInv, NEW w \in Workers, handler' = [handler EXCEPT ![w] = Idle]
  PROVE  /\ handler'[w].pc = "idle" /\ handler'[w].pc \notin Asking /\ handler'[w].tries <= MaxRetries
         /\ \A v \in Workers \ {w} : handler'[v] = handler[v]
<1>1. handler \in [Workers -> Handler]
  BY TypeInvParts
<1>2. handler'[w] = Idle /\ \A v \in Workers \ {w} : handler'[v] = handler[v]
  BY <1>1
<1> QED
  BY <1>2, BudgetType DEF Idle, Asking

\* A step of a handler makes at most one call, and that one was owed.
LEMMA HandlerCalls ==
  ASSUME TypeInv, TriesBounded, NEW w \in Workers, HandlerStep(w)
  PROVE  /\ Goes(w) \/ Spends(w)
         /\ handler'[w].tries <= MaxRetries
         /\ JobEnds(w)
         /\ UNCHANGED stalls
<1>0. /\ handler \in [Workers -> Handler] /\ handler[w] \in Handler /\ handler[w].tries <= MaxRetries
      /\ MaxRetries \in Nat
  BY TypeInvParts, BudgetType DEF TriesBounded
<1>1. ASSUME Throw(w) \/ Return(w)
      PROVE  handler'[w].pc \notin Asking /\ handler'[w].tries <= MaxRetries /\ JobEnds(w)
  BY <1>1, IdleCalls DEF Throw, Return, JobEnds
<1>2. ASSUME NEW pc, Goto(w, pc)
      PROVE  handler'[w].pc = pc /\ handler'[w].tries = handler[w].tries
  <2>1. handler'[w] = [handler[w] EXCEPT !.pc = pc]
    BY <1>0, <1>2 DEF Goto
  <2> QED
    BY <1>0, <2>1 DEF Handler
<1>3. CASE SetRunning(w)
  <2>1. UNCHANGED <<calls, stalls>> /\ At(w, "running") /\ (Throw(w) \/ (Goto(w, "jobs") /\ UNCHANGED job))
    BY <1>3 DEF SetRunning
  <2> QED
    BY <1>0, <1>1, <1>2, <2>1 DEF Goes, At, Asking, JobEnds
<1>4. CASE ListJobs(w)
  <2>1. PICK n \in FailedJobs : handler' = [handler EXCEPT ![w] = [handler[w] EXCEPT !.pc = "log", !.left = n]]
    BY <1>4 DEF ListJobs
  <2>2. handler'[w].pc = "log" /\ handler'[w].tries = handler[w].tries
    BY <1>0, <2>1 DEF Handler
  <2> QED
    BY <1>0, <1>4, <2>2 DEF ListJobs, Goes, At, Asking, JobEnds
<1>5. CASE FetchLog(w)
  <2>1. At(w, "log") /\ UNCHANGED <<job, calls, stalls>>
    BY <1>5 DEF FetchLog
  <2>2. CASE Goto(w, "load")
    BY <1>0, <1>2, <2>1, <2>2 DEF Goes, At, Asking, JobEnds
  <2>3. CASE ~Goto(w, "load")
    <3>1. PICK got \in BOOLEAN : handler' = [handler EXCEPT ![w] =
            [handler[w] EXCEPT !.left = handler[w].left - 1, !.logs = handler[w].logs \/ got]]
      BY <1>5, <2>3 DEF FetchLog
    <3> DEFINE logs == handler[w].logs \/ got
    <3>2. handler' = [handler EXCEPT ![w] = [handler[w] EXCEPT !.left = handler[w].left - 1, !.logs = logs]]
      BY <3>1
    <3> HIDE DEF logs
    <3>3. handler'[w].tries = handler[w].tries /\ handler'[w].pc = handler[w].pc
      BY <1>0, <3>2 DEF Handler
    <3> QED
      BY <1>0, <2>1, <3>3 DEF Goes, At, Asking, JobEnds
  <2> QED
    BY <2>2, <2>3
<1>6. CASE LoadRun(w)
  <2>1. /\ UNCHANGED <<calls, stalls>> /\ At(w, "load")
        /\ Throw(w) \/ (UNCHANGED job /\ \E pc \in {"ask", "noLogs"} : Goto(w, pc))
    BY <1>6 DEF LoadRun
  <2> QED
    BY <1>0, <1>1, <1>2, <2>1 DEF Goes, At, Asking, JobEnds
<1>7. CASE AskModel(w)
  <2>0. At(w, "ask") /\ calls' = calls + 1 /\ UNCHANGED stalls
    BY <1>7 DEF AskModel
  <2>1. CASE Throw(w)
    BY <1>1, <2>0, <2>1 DEF Spends, At
  <2>2. CASE RateLimited(w) /\ ~Throw(w)
    <3>1. /\ handler' = [handler EXCEPT ![w] = [handler[w] EXCEPT !.tries = handler[w].tries + 1]]
          /\ handler[w].tries < MaxRetries /\ UNCHANGED job
      BY <2>2 DEF RateLimited, MayRetry
    <3> DEFINE tries == handler[w].tries + 1
    <3>2. tries <= MaxRetries
      BY <1>0, <3>1 DEF Handler
    <3>3. handler'[w].tries = tries
      BY <1>0, <3>1 DEF Handler
    <3> QED
      BY <2>0, <3>1, <3>2, <3>3 DEF Spends, At, JobEnds
  <2>3. CASE Answered(w) /\ ~Throw(w)
    <3>1. PICK verdict : handler' = [handler EXCEPT ![w] = [handler[w] EXCEPT !.pc = "post", !.verdict = verdict]]
      BY <2>3 DEF Answered
    <3>2. handler'[w].pc = "post" /\ handler'[w].tries = handler[w].tries /\ UNCHANGED job
      BY <1>0, <2>3, <3>1 DEF Handler, Answered
    <3> QED
      BY <1>0, <2>0, <3>2 DEF Spends, At, Asking, JobEnds
  <2> QED
    BY <1>7, <2>1, <2>2, <2>3 DEF AskModel
<1>8. CASE Post(w)
  <2>1. UNCHANGED <<job, calls, stalls>>
    BY <1>8 DEF Post
  <2>2. \E posted : handler' = [handler EXCEPT ![w] = [handler[w] EXCEPT !.pc = "complete", !.posted = posted]]
    <3>1. CASE Goto(w, "complete")
      <4>1. handler' = [handler EXCEPT ![w] = [handler[w] EXCEPT !.pc = "complete"]]
        BY <3>1 DEF Goto
      <4>2. [handler[w] EXCEPT !.pc = "complete"] = [handler[w] EXCEPT !.pc = "complete", !.posted = handler[w].posted]
        BY <1>0 DEF Handler
      <4> QED
        BY <4>1, <4>2
    <3>2. CASE ~Goto(w, "complete")
      BY <1>8, <3>2 DEF Post
    <3> QED
      BY <3>1, <3>2
  <2>3. handler'[w].pc = "complete" /\ handler'[w].tries = handler[w].tries
    BY <1>0, <2>2 DEF Handler
  <2> QED
    BY <1>0, <2>1, <2>3 DEF Goes, Asking, JobEnds
<1>9. CASE Complete(w)
  <2>1. UNCHANGED <<calls, stalls>>
    BY <1>9 DEF Complete
  <2>2. CASE Throw(w)
    BY <1>1, <2>1, <2>2 DEF Goes
  <2>3. CASE ~Throw(w)
    <3>1. handler' = [handler EXCEPT ![w] = [Idle EXCEPT !.pc = "settle"]] /\ UNCHANGED job
      BY <1>9, <2>3 DEF Complete
    <3>2. handler'[w].pc = "settle" /\ handler'[w].tries = 0
      BY <1>0, <3>1 DEF Idle
    <3> QED
      BY <1>0, <2>1, <3>1, <3>2 DEF Goes, Asking, JobEnds
  <2> QED
    BY <2>2, <2>3
<1>10. CASE SettleJob(w)
  BY <1>1, <1>10 DEF SettleJob, Goes
<1> QED
  BY <1>3, <1>4, <1>5, <1>6, <1>7, <1>8, <1>9, <1>10 DEF HandlerStep

LEMMA CallsInit == Init => CallsInv
<1> SUFFICES ASSUME Init PROVE CallsInv
  OBVIOUS
<1>1. TypeInv
  BY TypeInit
<1>2. Owed = {} /\ TriesBounded
  BY BudgetType DEF Init, Owed, Asking, Idle, TriesBounded
<1>3. Cardinality(Owed) = 0
  BY <1>2, FS_EmptySet
<1>4. calls = 0 /\ Runs = 0 /\ CompletedInTime /\ StallsCounted
  BY TriageAssumption DEF Init, Runs, RunsOf, Reruns, CompletedInTime, StallsCounted
<1> QED
  BY <1>1, <1>2, <1>3, <1>4, BudgetType DEF CallsInv

LEMMA BudgetTimes ==
  ASSUME NEW m \in Nat, NEW n \in Nat
  PROVE  /\ Budget * (m + 1) = Budget * m + Budget /\ Budget * m \in Nat
         /\ m <= n => Budget * m <= Budget * n
<1>1. Budget \in Nat
  BY BudgetType
<1> QED
  BY <1>1

\* One handler moves.
LEMMA RunsType ==
  ASSUME TypeInv PROVE Runs \in Nat /\ Reruns \in Nat /\ RunsOf(job) \in Nat
<1>1. JobOK(job) /\ stalls \in Nat /\ MaxStalledCount \in Nat
  BY TypeInvParts, TriageAssumption
<1>2. Reruns \in Nat
  BY <1>1 DEF Reruns
<1>3. RunsOf(job) \in Nat
  BY <1>1 DEF RunsOf, JobOK, Job
<1> QED
  BY <1>2, <1>3 DEF Runs

LEMMA OneMoves ==
  ASSUME CallsInv, TypeInv', CompletedInTime', StallsCounted', NEW w \in Workers, \A v \in Workers \ {w} : handler'[v] = handler[v],
         handler'[w].tries <= MaxRetries, Goes(w) \/ Spends(w), Runs' = Runs
  PROVE  CallsInv'
<1>1. TriesBounded'
  BY DEF CallsInv, TriesBounded
<1>2. Runs \in Nat /\ Budget * Runs \in Nat /\ calls \in Nat
  <2>1. calls \in Nat
    BY TypeInvParts DEF CallsInv
  <2>2. Runs \in Nat
    BY RunsType DEF CallsInv
  <2> QED
    BY <2>1, <2>2, BudgetTimes
<1>3. Cardinality(Owed) \in Nat /\ calls + Cardinality(Owed) <= Budget * Runs
  BY OwedFinite DEF CallsInv
<1>4. Budget' * Runs' = Budget * Runs
  BY DEF Budget
<1>5. CASE Goes(w)
  <2>1. Cardinality(Owed') \in Nat /\ Cardinality(Owed') <= Cardinality(Owed) /\ calls' = calls
    BY <1>5, OwedShrinks DEF Goes
  <2> QED
    BY <1>1, <1>2, <1>3, <1>4, <2>1 DEF CallsInv
<1>6. CASE Spends(w)
  <2>1. Cardinality(Owed') \in Nat /\ Cardinality(Owed') + 1 <= Cardinality(Owed) /\ calls' = calls + 1
    BY <1>6, OwedSpent DEF Spends
  <2> QED
    BY <1>1, <1>2, <1>3, <1>4, <2>1 DEF CallsInv
<1> QED
  BY <1>5, <1>6

LEMMA CallsNext ==
  ASSUME CallsInv, [Next]_vars
  PROVE  CallsInv'
<1>0. /\ TypeInv /\ TypeInv' /\ TriesBounded /\ CompletedInTime /\ StallsCounted
      /\ JobOK(job) /\ stalls \in Nat /\ calls \in Nat
      /\ handler \in [Workers -> Handler] /\ Attempts \in Nat /\ MaxStalledCount \in Nat
  BY TypeNext, TypeInvParts, TriageAssumption DEF CallsInv
<1>1. ASSUME NEW w \in Workers, HandlerStep(w) PROVE CallsInv'
  <2>1. \A v \in Workers \ {w} : handler'[v] = handler[v]
    BY <1>0, <1>1, HandlerKinds, HandlerType DEF Kinds, InHandler
  <2>2. /\ Goes(w) \/ Spends(w)
        /\ handler'[w].tries <= MaxRetries /\ JobEnds(w) /\ UNCHANGED stalls
    BY <1>0, <1>1, HandlerCalls
  <2>3. RunsOf(job') = RunsOf(job) /\ CompletedInTime' /\ (job' = job \/ job.state = "active")
    BY <1>0, <2>2, ThrowRuns, ReturnRuns DEF JobEnds, CompletedInTime
  <2>4. Runs' = Runs /\ StallsCounted'
    BY <1>0, <2>2, <2>3, RunsKept
  <2> QED
    BY <1>0, <2>1, <2>2, <2>3, <2>4, OneMoves
<1>2. ASSUME NEW w \in Workers, AwaitThrows(w) \/ AnswerLost(w) PROVE CallsInv'
  <2>1. Throw(w) /\ UNCHANGED <<calls, stalls>>
    BY <1>2 DEF AwaitThrows, AnswerLost
  <2>2. /\ handler'[w].pc \notin Asking /\ handler'[w].tries <= MaxRetries
        /\ \A v \in Workers \ {w} : handler'[v] = handler[v]
    BY <1>0, <2>1, IdleCalls DEF Throw
  <2>3. RunsOf(job') = RunsOf(job) /\ CompletedInTime' /\ (job' = job \/ job.state = "active")
    BY <1>0, <2>1, ThrowRuns
  <2>4. Runs' = Runs /\ StallsCounted' /\ Goes(w)
    BY <1>0, <2>1, <2>2, <2>3, RunsKept DEF Goes
  <2> QED
    BY <1>0, <2>2, <2>3, <2>4, OneMoves
<1>3. ASSUME NEW w \in Workers, Crash(w) PROVE CallsInv'
  <2>1. /\ handler'[w].pc \notin Asking /\ handler'[w].tries <= MaxRetries
        /\ \A v \in Workers \ {w} : handler'[v] = handler[v]
        /\ UNCHANGED <<calls, stalls>>
    BY <1>0, <1>3, IdleCalls DEF Crash
  <2>2. job'.state = job.state /\ job'.attemptsMade = job.attemptsMade
    BY <1>0, <1>3, CrashFacts
  <2>3. Runs' = Runs /\ CompletedInTime' /\ StallsCounted' /\ Goes(w)
    BY <1>0, <2>1, <2>2 DEF Runs, RunsOf, Reruns, StallsCounted, CompletedInTime, Goes
  <2> QED
    BY <1>0, <2>1, <2>3, OneMoves
<1>4. ASSUME NEW w \in Workers, Take(w) PROVE CallsInv'
  <2>1. /\ \A v \in Workers \ {w} : handler'[v] = handler[v]
        /\ job.state = "waiting" /\ job'.state = "active" /\ job'.attemptsMade = job.attemptsMade
    BY <1>0, <1>4, TakeFacts
  <2>2. UNCHANGED <<calls, stalls>> /\ handler'[w].tries = handler[w].tries
    <3>1. handler' = [handler EXCEPT ![w] = [handler[w] EXCEPT !.pc = "running"]] /\ UNCHANGED <<calls, stalls>>
      BY <1>4 DEF Take, Goto
    <3> QED
      BY <1>0, <3>1 DEF Handler
  <2>3. TriesBounded' /\ CompletedInTime' /\ StallsCounted'
    BY <1>0, <1>4, <2>1, <2>2 DEF TriesBounded, CompletedInTime, StallsCounted, Take
  <2>4. Runs \in Nat /\ Runs' = Runs + 1
    BY <1>0, <2>1, <2>2 DEF Runs, RunsOf, Reruns, JobOK, Job
  <2>5. Budget' * Runs' = Budget * Runs + Budget /\ Budget * Runs \in Nat /\ Budget \in Nat
    <3>1. Budget' = Budget
      BY DEF Budget
    <3> QED
      BY <2>4, <3>1, BudgetTimes, BudgetType
  <2>6. Cardinality(Owed') \in Nat /\ Cardinality(Owed') <= Cardinality(Owed) + Budget
    BY <2>1, OwedGrows
  <2> QED
    BY <1>0, <2>2, <2>3, <2>5, <2>6, OwedFinite DEF CallsInv
<1>5. ASSUME UNCHANGED <<handler, calls>>, Runs' = Runs, CompletedInTime', StallsCounted' PROVE CallsInv'
  BY <1>0, <1>5 DEF CallsInv, TriesBounded, Owed, Budget
<1>6. CASE Redeliver
  <2>1. /\ job.state = "active" /\ job'.state = "waiting" /\ job'.attemptsMade = job.attemptsMade
        /\ UNCHANGED <<handler, calls>> /\ stalls' = stalls + 1
    BY <1>0, <1>6, RedeliverFacts DEF Redeliver
  <2>2. Runs' = Runs /\ CompletedInTime' /\ StallsCounted'
    BY <1>0, <2>1 DEF Runs, RunsOf, Reruns, StallsCounted, CompletedInTime, JobOK, Job
  <2> QED
    BY <1>5, <2>1, <2>2
<1>7. CASE BackoffOver
  <2>1. /\ job.state = "delayed" /\ job'.state = "waiting" /\ job'.attemptsMade = job.attemptsMade
        /\ UNCHANGED <<handler, calls, stalls>>
    BY <1>0, <1>7 DEF BackoffOver, JobOK, Job
  <2>2. Runs' = Runs /\ CompletedInTime' /\ StallsCounted'
    BY <1>0, <2>1 DEF Runs, RunsOf, Reruns, StallsCounted, CompletedInTime
  <2> QED
    BY <1>5, <2>1, <2>2
<1>8. CASE Listener \/ ListenerLost \/ Uninstall \/ UNCHANGED vars
  <2>1. UNCHANGED <<job, handler, calls, stalls>>
    BY <1>8 DEF Listener, ListenerLost, Uninstall, vars
  <2>2. Runs' = Runs /\ CompletedInTime' /\ StallsCounted'
    BY <1>0, <2>1 DEF Runs, RunsOf, Reruns, StallsCounted, CompletedInTime
  <2> QED
    BY <1>5, <2>1, <2>2
<1>9. ASSUME NEW w \in Workers, FailStalled(w) PROVE CallsInv'
  <2>1. /\ job.state = "waiting" /\ job'.state = "failed" /\ job'.attemptsMade = job.attemptsMade + 1
        /\ UNCHANGED <<handler, calls, stalls>>
    BY <1>0, <1>9, StalledFacts
  <2>2. stalls = MaxStalledCount + 1
    BY <1>0, <1>9 DEF FailStalled, StallsCounted
  <2>3. Runs' = Runs /\ CompletedInTime' /\ StallsCounted'
    BY <1>0, <2>1, <2>2 DEF Runs, RunsOf, Reruns, StallsCounted, CompletedInTime, JobOK, Job
  <2> QED
    BY <1>5, <2>1, <2>3
<1>10. ASSUME NEW w \in Workers, UnfitAnswer(w) PROVE CallsInv'
  <2>1. \A v \in Workers \ {w} : handler'[v] = handler[v]
    BY <1>0, <1>10, FaultKindsOfStep, HandlerType DEF Kinds, InHandler
  <2>2. PICK verdict : handler' = [handler EXCEPT ![w] =
          [handler[w] EXCEPT !.pc = "post", !.verdict = verdict, !.fits = FALSE]]
    BY <1>10 DEF UnfitAnswer
  <2>3. handler'[w].pc = "post" /\ handler'[w].tries = handler[w].tries
    BY <1>0, <2>2 DEF Handler
  <2>4. Spends(w) /\ UNCHANGED <<job, stalls>>
    BY <1>10, <2>3 DEF UnfitAnswer, Spends, At, Asking
  <2>5. Runs' = Runs /\ CompletedInTime' /\ StallsCounted' /\ handler'[w].tries <= MaxRetries
    BY <1>0, <2>3, <2>4 DEF Runs, RunsOf, Reruns, StallsCounted, CompletedInTime, TriesBounded
  <2> QED
    BY <1>0, <2>1, <2>4, <2>5, OneMoves
<1> QED
  BY <1>1, <1>2, <1>3, <1>4, <1>6, <1>7, <1>8, <1>9, <1>10 DEF Next

\* Retries of a rate-limited call multiply with the runs of the job, of which
\* each attempt and each allowed stall gives one, and nothing else does
\* (rateLimit.ts:30, queue.ts): whatever fails, the calls stay bounded.
THEOREM CallsAreBounded == Spec => []CallsBounded
<1>1. Spec => []CallsInv
  BY CallsInit, CallsNext, PTL DEF Spec
<1>2. CallsInv => CallsBounded
  <2> SUFFICES ASSUME CallsInv PROVE CallsBounded
    OBVIOUS
  <2>1. /\ JobOK(job) /\ stalls \in Nat /\ calls \in Nat /\ Attempts \in Nat
        /\ Cardinality(Owed) \in Nat /\ calls + Cardinality(Owed) <= Budget * Runs
    BY TypeInvParts, TriageAssumption, OwedFinite DEF CallsInv
  <2>2. Runs \in Nat /\ Runs <= Attempts + MaxStalledCount
    <3>1. Runs \in Nat
      BY RunsType DEF CallsInv
    <3>2. MaxStalledCount \in Nat /\ StallsCounted
      BY TriageAssumption DEF CallsInv
    <3>3. RunsOf(job) <= Attempts /\ (job.state = "waiting" => RunsOf(job) + 1 <= Attempts)
      BY <2>1 DEF CallsInv, RunsOf, CompletedInTime, JobOK, Job
    <3>4. Reruns <= MaxStalledCount \/ (job.state = "waiting" /\ Reruns = MaxStalledCount + 1)
      BY <2>1, <3>2 DEF Reruns, StallsCounted
    <3>5. RunsOf(job) \in Nat /\ Reruns \in Nat
      BY RunsType DEF CallsInv
    <3> QED
      BY <2>1, <3>1, <3>2, <3>3, <3>4, <3>5 DEF Runs
  <2>3. Budget * Runs <= Budget * (Attempts + MaxStalledCount)
    <3>1. Attempts + MaxStalledCount \in Nat
      BY TriageAssumption
    <3> QED
      BY <2>2, <3>1, BudgetTimes
  <2>4. Budget * Runs \in Nat /\ Budget * (Attempts + MaxStalledCount) \in Nat
    <3>1. Attempts + MaxStalledCount \in Nat
      BY TriageAssumption
    <3> QED
      BY <2>2, <3>1, BudgetTimes
  <2>5. calls <= Budget * (Attempts + MaxStalledCount)
    BY <2>1, <2>3, <2>4
  <2> QED
    BY <2>5 DEF CallsBounded, Budget
<1> QED
  BY <1>1, <1>2, PTL
=============================================================================
