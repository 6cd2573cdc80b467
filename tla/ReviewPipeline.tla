--------------------------- MODULE ReviewPipeline ---------------------------
(***************************************************************************)
(* The review worker: the BullMQ handler and its `failed` listener         *)
(* (apps/worker/src/index.ts), the session lease (lease.ts) and the        *)
(* recovery sweep (recovery.ts), over the ReviewSession table, the         *)
(* pr-review queue and GitHub.                                             *)
(*                                                                         *)
(* Every await of the code is a step boundary: a database write, a queue   *)
(* write or a GitHub call is one action, and any other process may act     *)
(* between two of them.  BullMQ, PostgreSQL and GitHub are external; they  *)
(* are modelled by what the code in src/ relies on.                        *)
(*                                                                         *)
(* Time only enters the code as heartbeatAt < cutoff.  A RUNNING row's     *)
(* heartbeat becomes "quiet" when LEASE_TIMEOUT_MS have passed since it    *)
(* was written.  A sweep fixes its cutoff once, before it reads the table; *)
(* `behind` is the set of sessions whose heartbeat is older than that      *)
(* cutoff.  It is the set of quiet sessions when the sweep starts, and     *)
(* every later write of heartbeatAt takes its session out of it.           *)
(***************************************************************************)
EXTENDS ReviewLease, FiniteSets

CONSTANTS
  Workers,        \* worker processes (BullMQ concurrency 1: one job each)
  Sweeps,         \* runs of the sweep loop that may overlap
  Sessions,       \* rows of ReviewSession
  NoBaseSha,      \* the sessions recorded without a baseSha
  MaxAttempts,    \* MAX_REVIEW_ATTEMPTS
  QueueAttempts,  \* attempts of a job the server adds
  MaxStalledCount, \* how often BullMQ runs a stalled job again (its default: 1)
  NoWorker, NoSession,
  FaultKinds,     \* the faults that may happen
  MaxFaults       \* bound on how many of them happen in a behaviour

ASSUME ConstantsAssumption ==
  /\ MaxAttempts \in Nat \ {0}
  /\ QueueAttempts \in Nat \ {0}
  /\ MaxStalledCount \in Nat
  /\ MaxFaults \in Nat
  /\ NoWorker \notin Workers
  /\ NoSession \notin Sessions
  /\ NoBaseSha \subseteq Sessions

VARIABLES
  row,      \* the ReviewSession table
  issued,   \* number of lease ids drawn so far
  jobs,     \* the pr-review queue
  handler,  \* where each worker is in the handler, and its local variables
  held,     \* heldLeases of each worker process
  failing,  \* runs of the `failed` listener that have not finished
  sweep,    \* local variables of each sweep
  comments, \* leases under which inline comments reached GitHub
  reviews,  \* leases under which a review summary reached GitHub
  checks,   \* number of check runs named CHECK_NAME on the head commit
  stored,   \* leases under which ReviewComment rows were written
  faults,   \* number of faults so far
  suffered  \* kinds of the faults so far

github == <<comments, reviews, checks>>
calm   == <<faults, suffered>>
vars   == <<row, issued, jobs, handler, held, failing, sweep, comments,
            reviews, checks, stored, faults, suffered>>

(***************************************************************************)
(* The server adds job 0 of a session with QueueAttempts attempts; the     *)
(* sweep adds recovery:<session>:<n> with no options, hence one attempt.   *)
(***************************************************************************)
JobIds     == [session : Sessions, nth : 0 .. MaxAttempts - 1]
MutAttempts(j) == QueueAttempts
Attempts(j)    == IF j.nth = 0 THEN QueueAttempts ELSE 1
RecoveryJob(s, n) == [session |-> s, nth |-> n]

Job == [state : {"absent", "waiting", "active", "delayed", "completed", "failed"},
        attemptsMade : Nat,
        stalls : Nat,
        owner : Workers \cup {NoWorker}]
NewJob(st) == [state |-> st, attemptsMade |-> 0, stalls |-> 0, owner |-> NoWorker]

NoJob == [session |-> NoSession, nth |-> 0]
Idle  == [pc |-> "idle", job |-> NoJob, lease |-> NoLease]
PCs   == {"idle", "claim", "review", "renew", "comment", "summary", "findCheck",
          "createCheck", "updateCheck", "persist", "complete"}
PostingPCs == {"comment", "summary", "findCheck", "createCheck", "updateCheck"}
Handler  == [pc : PCs, job : JobIds \cup {NoJob}, lease : Nat]
Listener == [worker : Workers, job : JobIds, lease : Nat, last : BOOLEAN,
             pc : {"write", "forget"}]
IdleSweep == [pc |-> "idle", todo |-> {}, at |-> NoSession,
              seen |-> [s \in Sessions |-> 0], behind |-> {}]
Sweep == [pc : {"idle", "loop", "flip"}, todo : SUBSET Sessions,
          at : Sessions \cup {NoSession}, seen : [Sessions -> Nat],
          behind : SUBSET Sessions]

Init ==
  /\ row      = [s \in Sessions |-> NewRow]
  /\ issued   = 0
  /\ jobs     = [j \in JobIds |-> NewJob(IF j.nth = 0 THEN "waiting" ELSE "absent")]
  /\ handler  = [w \in Workers |-> Idle]
  /\ held     = [w \in Workers |-> [j \in JobIds |-> NoLease]]
  /\ failing  = {}
  /\ sweep    = [x \in Sweeps |-> IdleSweep]
  /\ comments = [s \in Sessions |-> {}]
  /\ reviews  = [s \in Sessions |-> {}]
  /\ checks   = [s \in Sessions |-> 0]
  /\ stored   = [s \in Sessions |-> {}]
  /\ faults   = 0
  /\ suffered = {}

Fault(kind) == /\ kind \in FaultKinds
               /\ faults < MaxFaults
               /\ faults' = faults + 1
               /\ suffered' = suffered \cup {kind}

At(w, pc)  == handler[w].pc = pc
JobOf(w)   == handler[w].job
SessionOf(w) == handler[w].job.session
LeaseOf(w) == handler[w].lease
Goto(w, pc) == handler' = [handler EXCEPT ![w] = [@ EXCEPT !.pc = pc]]
SetJob(j, st, o) == jobs' = [jobs EXCEPT ![j] = [@ EXCEPT !.state = st, !.owner = o]]

Write(s, r) == row' = [row EXCEPT ![s] = r]

\* A write of heartbeatAt is newer than the cutoff of every running sweep.
MutBeat(s) == UNCHANGED sweep
Beat(s)    == sweep' = [x \in Sweeps |-> [sweep[x] EXCEPT !.behind = @ \ {s}]]

-----------------------------------------------------------------------------
(***************************************************************************)
(* How a run of the handler ends.  BullMQ settles the job only for the     *)
(* worker that still holds its lock; for any other it reports an `error`,  *)
(* and no `failed` event.                                                  *)
(***************************************************************************)
OwnsJob(w) == /\ jobs[JobOf(w)].state = "active"
              /\ jobs[JobOf(w)].owner = w

Return(w) ==
  /\ handler' = [handler EXCEPT ![w] = Idle]
  /\ IF OwnsJob(w) THEN SetJob(JobOf(w), "completed", NoWorker) ELSE UNCHANGED jobs

\* BullMQ books a failed attempt of job j, to be retried unless it is the last
\* or final says so, and emits `failed` in worker w.  The listener reads
\* heldLeases as the event is emitted, before it awaits.
FailAttempt(w, j, final) ==
  LET made == jobs[j].attemptsMade + 1
      last == made >= Attempts(j)
  IN  /\ jobs' = [jobs EXCEPT ![j] =
                    [state |-> IF last \/ final THEN "failed" ELSE "delayed",
                     attemptsMade |-> made, stalls |-> jobs[j].stalls,
                     owner |-> NoWorker]]
      /\ failing' = failing \cup {[worker |-> w, job |-> j, lease |-> held[w][j],
                                   last |-> last, pc |-> "write"]}

Throw(w) ==
  /\ handler' = [handler EXCEPT ![w] = Idle]
  /\ IF OwnsJob(w) THEN FailAttempt(w, JobOf(w), FALSE) ELSE UNCHANGED <<jobs, failing>>

-----------------------------------------------------------------------------
(***************************************************************************)
(* The handler                                                             *)
(***************************************************************************)
TooStalled(j) == jobs[j].stalls > MaxStalledCount

Take(w) ==
  /\ At(w, "idle")
  /\ \E j \in JobIds :
       /\ jobs[j].state = "waiting" /\ ~ TooStalled(j)
       /\ SetJob(j, "active", w)
       /\ handler' = [handler EXCEPT ![w] = [pc |-> "claim", job |-> j, lease |-> NoLease]]
  /\ UNCHANGED <<row, issued, held, failing, sweep, github, stored, calm>>

\* A job that stalled too often is not given to the handler any more: BullMQ
\* fails it, for good, in the worker that would have run it.
FailStalled(w) ==
  /\ handler[w] = Idle
  /\ \E j \in JobIds : /\ jobs[j].state = "waiting" /\ TooStalled(j)
                       /\ FailAttempt(w, j, TRUE)
  /\ UNCHANGED <<row, issued, handler, held, sweep, github, stored, calm>>

\* The update of claimSession lands.
ClaimWrite(s) ==
  /\ CanClaim(row[s])
  /\ issued' = issued + 1
  /\ Write(s, Claimed(row[s], issued + 1))
  /\ Beat(s)

\* heldLeases.set(job.id, lease)
MutRegister(w, l) == UNCHANGED held
Register(w, l)    == held' = [held EXCEPT ![w][JobOf(w)] = l]

Claim(w) ==
  /\ At(w, "claim")
  /\ \/ /\ ClaimWrite(SessionOf(w))
        /\ handler' = [handler EXCEPT ![w] = [@ EXCEPT !.pc = "review", !.lease = issued + 1]]
        /\ Register(w, issued + 1)
        /\ UNCHANGED jobs
     \/ /\ ~ CanClaim(row[SessionOf(w)])
        /\ Return(w)
        /\ UNCHANGED <<row, issued, held, sweep>>
  /\ UNCHANGED <<failing, github, stored, calm>>

\* The call throws, before the update or after it (the answer was lost).
ClaimError(w) ==
  /\ At(w, "claim")
  /\ Fault("dbError")
  /\ \/ ClaimWrite(SessionOf(w))
     \/ UNCHANGED <<row, issued, sweep>>
  /\ Throw(w)
  /\ UNCHANGED <<held, github, stored>>

\* Clone, context, agents and summary: they finish, or one of them throws.
Review(w) ==
  /\ At(w, "review")
  /\ \/ Goto(w, "renew") /\ UNCHANGED <<jobs, failing>>
     \/ Throw(w)
  /\ UNCHANGED <<row, issued, held, sweep, github, stored, calm>>

\* The check before anything is sent to GitHub.
Renew(w) ==
  LET s == SessionOf(w) IN
  /\ At(w, "renew")
  /\ \/ /\ Holds(row[s], LeaseOf(w))
        /\ Write(s, Renewed(row[s]))
        /\ Beat(s)
        /\ Goto(w, "comment")
        /\ UNCHANGED jobs
     \/ /\ ~ Holds(row[s], LeaseOf(w))
        /\ Return(w)
        /\ UNCHANGED <<row, sweep>>
  /\ UNCHANGED <<issued, held, failing, github, stored, calm>>

\* The inline comments and the review, as GitHub takes them: see GithubError.
SendComments(w) ==
  /\ At(w, "comment")
  /\ comments' = [comments EXCEPT ![SessionOf(w)] = @ \cup {LeaseOf(w)}]
  /\ UNCHANGED <<reviews, checks>>
PostComments(w) ==
  /\ SendComments(w)
  /\ Goto(w, "summary")
  /\ UNCHANGED <<row, issued, jobs, held, failing, sweep, stored, calm>>

SendSummary(w) ==
  /\ At(w, "summary")
  /\ reviews' = [reviews EXCEPT ![SessionOf(w)] = @ \cup {LeaseOf(w)}]
  /\ UNCHANGED <<comments, checks>>
PostSummary(w) ==
  /\ SendSummary(w)
  /\ Goto(w, "findCheck")
  /\ UNCHANGED <<row, issued, jobs, held, failing, sweep, stored, calm>>

\* upsertCheckRun: look for the run, then create or update it.
MutFindCheck(w) ==
  /\ At(w, "findCheck")
  /\ Goto(w, "createCheck")
  /\ UNCHANGED <<row, issued, jobs, held, failing, sweep, github, stored, calm>>
FindCheck(w) ==
  /\ At(w, "findCheck")
  /\ Goto(w, IF checks[SessionOf(w)] > 0 THEN "updateCheck" ELSE "createCheck")
  /\ UNCHANGED <<row, issued, jobs, held, failing, sweep, github, stored, calm>>

CreateCheck(w) ==
  /\ At(w, "createCheck")
  /\ checks' = [checks EXCEPT ![SessionOf(w)] = @ + 1]
  /\ UNCHANGED <<comments, reviews>>
WriteCheck(w) ==
  /\ \/ CreateCheck(w)
     \/ At(w, "updateCheck") /\ UNCHANGED github
  /\ Goto(w, "persist")
  /\ UNCHANGED <<row, issued, jobs, held, failing, sweep, stored, calm>>

\* ReviewComment rows: their foreign key needs the session's row.
MutStoreComments(w) ==
  row[SessionOf(w)].status # "GONE" /\ UNCHANGED stored
StoreComments(w) ==
  /\ row[SessionOf(w)].status # "GONE"
  /\ stored' = [stored EXCEPT ![SessionOf(w)] = @ \cup {LeaseOf(w)}]

Persist(w) ==
  /\ At(w, "persist")
  /\ \/ /\ StoreComments(w)
        /\ Goto(w, "complete")
        /\ UNCHANGED <<jobs, failing>>
     \/ /\ row[SessionOf(w)].status = "GONE"
        /\ \/ Throw(w)
           \/ Goto(w, "complete") /\ UNCHANGED <<jobs, failing>> \* no findings
        /\ UNCHANGED stored
  /\ UNCHANGED <<row, issued, held, sweep, github, calm>>

CompleteWrite(w) ==
  LET s == SessionOf(w) IN
  /\ Holds(row[s], LeaseOf(w))
  /\ Write(s, Completed(row[s], LeaseOf(w)))

Complete(w) ==
  /\ At(w, "complete")
  /\ \/ /\ CompleteWrite(w)
        /\ held' = [held EXCEPT ![w][JobOf(w)] = NoLease]
     \/ /\ ~ Holds(row[SessionOf(w)], LeaseOf(w))
        /\ UNCHANGED <<row, held>>
  /\ Return(w)
  /\ UNCHANGED <<issued, failing, sweep, github, stored, calm>>

\* A database call after the claim throws; completeSession's update, or some
\* of the comment rows, may have landed all the same.
LaterDbError(w) ==
  /\ handler[w].pc \in {"renew", "persist", "complete"}
  /\ Fault("dbError")
  /\ \/ At(w, "complete") /\ CompleteWrite(w) /\ UNCHANGED stored
     \/ At(w, "persist") /\ StoreComments(w) /\ UNCHANGED row
     \/ UNCHANGED <<row, stored>>
  /\ Throw(w)
  /\ UNCHANGED <<issued, held, sweep, github>>

\* A call to GitHub fails and is caught: the handler goes on to the next one.
\* GitHub refused it, or carried it out and the answer was lost; of the inline
\* comments, each a call of its own, some may have got through.
AfterGithub(pc) == CASE pc = "comment" -> "summary"
                     [] pc = "summary" -> "findCheck"
                     [] OTHER          -> "persist"
GithubError(w) ==
  /\ handler[w].pc \in PostingPCs
  /\ Fault("githubError")
  /\ SendComments(w) \/ SendSummary(w) \/ CreateCheck(w) \/ UNCHANGED github
  /\ Goto(w, AfterGithub(handler[w].pc))
  /\ UNCHANGED <<row, issued, jobs, held, failing, sweep, stored>>

\* The interval of startHeartbeat, from the claim to the finally block.
Heartbeat(w) ==
  LET s == SessionOf(w) IN
  /\ handler[w].pc \notin {"idle", "claim"}
  /\ Holds(row[s], LeaseOf(w))
  /\ Write(s, Renewed(row[s]))
  /\ Beat(s)
  /\ UNCHANGED <<issued, jobs, handler, held, failing, github, stored, calm>>

-----------------------------------------------------------------------------
(***************************************************************************)
(* The `failed` listener: one write, then heldLeases.delete(job.id)        *)
(***************************************************************************)
ListenerWrite(f) ==
  LET s == f.job.session IN
  /\ f.pc = "write"
  /\ \/ /\ f.last
        /\ CanFail(row[s], f.lease)
        /\ Write(s, Unowned(row[s], "FAILED"))
     \/ /\ ~ f.last
        /\ f.lease # NoLease
        /\ CanRelease(row[s], f.lease)
        /\ Write(s, Unowned(row[s], "RETRYING"))
     \/ /\ IF f.last THEN ~ CanFail(row[s], f.lease)
                     ELSE f.lease # NoLease => ~ CanRelease(row[s], f.lease)
        /\ UNCHANGED row
  /\ failing' = (failing \ {f}) \cup {[f EXCEPT !.pc = "forget"]}
  /\ UNCHANGED <<issued, jobs, handler, held, sweep, github, stored, calm>>

ListenerForget(f) ==
  /\ f.pc = "forget"
  /\ held' = [held EXCEPT ![f.worker][f.job] = NoLease]
  /\ failing' = failing \ {f}
  /\ UNCHANGED <<row, issued, jobs, handler, sweep, github, stored, calm>>

-----------------------------------------------------------------------------
(***************************************************************************)
(* The recovery sweep                                                      *)
(***************************************************************************)
IsStalled(s) == Stalled(row[s], row[s].heartbeatAt = "quiet")

Scan(x) ==
  /\ sweep[x].pc = "idle"
  /\ \E s \in Sessions : IsStalled(s)
  /\ sweep' = [sweep EXCEPT ![x] =
       [pc     |-> "loop",
        todo   |-> {s \in Sessions : IsStalled(s)},
        at     |-> NoSession,
        seen   |-> [s \in Sessions |-> IF IsStalled(s) THEN row[s].attemptCount ELSE 0],
        behind |-> {s \in Sessions : row[s].heartbeatAt = "quiet"}]]
  /\ UNCHANGED <<row, issued, jobs, handler, held, failing, github, stored, calm>>

MutGivesUp(x, s) == sweep[x].seen[s] >= MaxAttempts - 1 \/ s \in NoBaseSha
GivesUp(x, s)    == sweep[x].seen[s] >= MaxAttempts \/ s \in NoBaseSha

\* The next stalled session: the job goes onto the queue first.  Adding a
\* job id the queue knows already is a no-op.
Requeue(x) ==
  /\ sweep[x].pc = "loop"
  /\ \E s \in sweep[x].todo :
       LET j == RecoveryJob(s, sweep[x].seen[s]) IN
       /\ sweep' = [sweep EXCEPT ![x] =
                      [sweep[x] EXCEPT !.pc = "flip", !.at = s, !.todo = @ \ {s}]]
       /\ jobs' = IF ~ GivesUp(x, s) /\ jobs[j].state = "absent"
                  THEN [jobs EXCEPT ![j] = NewJob("waiting")]
                  ELSE jobs
  /\ UNCHANGED <<row, issued, handler, held, failing, github, stored, calm>>

\* The conditional status write, and on to the next session or the end.
Flip(x) ==
  LET s == sweep[x].at IN
  /\ sweep[x].pc = "flip"
  /\ row' = IF Stalled(row[s], s \in sweep[x].behind)
            THEN [row EXCEPT ![s] = Unowned(@, IF GivesUp(x, s) THEN "FAILED" ELSE "RETRYING")]
            ELSE row
  /\ sweep' = [sweep EXCEPT ![x] = IF @.todo = {} THEN IdleSweep
                                   ELSE [@ EXCEPT !.pc = "loop", !.at = NoSession]]
  /\ UNCHANGED <<issued, jobs, handler, held, failing, github, stored, calm>>

\* The queue or the database throws, or the process dies: the rest of the
\* batch is dropped until another sweep.
SweepError(x) ==
  /\ sweep[x].pc # "idle"
  /\ Fault("sweepError")
  /\ sweep' = [sweep EXCEPT ![x] = IdleSweep]
  /\ UNCHANGED <<row, issued, jobs, handler, held, failing, github, stored>>

-----------------------------------------------------------------------------
(***************************************************************************)
(* The environment                                                         *)
(***************************************************************************)
\* Somebody still acts under lease l: a handler, or a listener about to write.
Alive(l) == \/ \E w \in Workers : LeaseOf(w) = l
            \/ \E f \in failing : f.lease = l /\ f.pc = "write"

Quieten(s) ==
  /\ row[s].heartbeatAt = "recent"
  /\ Write(s, [row[s] EXCEPT !.heartbeatAt = "quiet"])
  /\ UNCHANGED <<issued, jobs, handler, held, failing, sweep, github, stored>>

\* LEASE_TIMEOUT_MS after the last heartbeat of a lease nobody renews.
LeaseExpires(s) == ~ Alive(row[s].leaseId) /\ Quieten(s) /\ UNCHANGED calm

\* A live worker misses its heartbeats (blocked, or cut off from the database).
Wedge(s) == Alive(row[s].leaseId) /\ Fault("wedge") /\ Quieten(s)

\* The process dies (also when a listener rejects); a new one takes its slot.
Crash(w) ==
  /\ \/ handler[w] # Idle
     \/ \E f \in failing : f.worker = w
  /\ Fault("crash")
  /\ handler' = [handler EXCEPT ![w] = Idle]
  /\ held' = [held EXCEPT ![w] = [j \in JobIds |-> NoLease]]
  /\ failing' = {f \in failing : f.worker # w}
  /\ jobs' = [j \in JobIds |-> IF jobs[j].owner = w
                               THEN [jobs[j] EXCEPT !.owner = NoWorker] ELSE jobs[j]]
  /\ UNCHANGED <<row, issued, sweep, github, stored>>

\* BullMQ: the lock of an active job expires and the job, stalled once more,
\* is put back.  The lock of a worker that lives is lost only by a fault.
Redeliver(j) ==
  /\ jobs[j].state = "active"
  /\ \/ jobs[j].owner = NoWorker /\ UNCHANGED calm
     \/ jobs[j].owner # NoWorker /\ Fault("lockLost")
  /\ jobs' = [jobs EXCEPT ![j] = [state |-> "waiting", attemptsMade |-> jobs[j].attemptsMade,
                                  stalls |-> jobs[j].stalls + 1, owner |-> NoWorker]]
  /\ UNCHANGED <<row, issued, handler, held, failing, sweep, github, stored>>

\* The 5 s backoff is over.  The listener has finished by then, save when
\* its database call is slower than the backoff.
BackoffOver(j) ==
  /\ jobs[j].state = "delayed"
  /\ IF \E f \in failing : f.job = j THEN Fault("slowListener") ELSE UNCHANGED calm
  /\ SetJob(j, "waiting", NoWorker)
  /\ UNCHANGED <<row, issued, handler, held, failing, sweep, github, stored>>

\* The installation.deleted webhook deletes the installation's sessions.
Uninstall(s) ==
  /\ row[s].status # "GONE"
  /\ Fault("uninstall")
  /\ Write(s, Unowned(row[s], "GONE"))
  /\ UNCHANGED <<issued, jobs, handler, held, failing, sweep, github, stored>>

-----------------------------------------------------------------------------
HandlerStep(w) ==
  \/ Claim(w) \/ Review(w) \/ Renew(w) \/ PostComments(w) \/ PostSummary(w)
  \/ FindCheck(w) \/ WriteCheck(w) \/ Persist(w) \/ Complete(w)
ListenerStep == \E f \in failing : ListenerWrite(f) \/ ListenerForget(f)
SweepStep(x) == Scan(x) \/ Requeue(x) \/ Flip(x)

Next ==
  \/ \E w \in Workers : \/ Take(w) \/ FailStalled(w) \/ HandlerStep(w) \/ Heartbeat(w)
                        \/ Crash(w) \/ ClaimError(w) \/ LaterDbError(w) \/ GithubError(w)
  \/ ListenerStep
  \/ \E x \in Sweeps : SweepStep(x) \/ SweepError(x)
  \/ \E s \in Sessions : LeaseExpires(s) \/ Wedge(s) \/ Uninstall(s)
  \/ \E j \in JobIds : Redeliver(j) \/ BackoffOver(j)

Spec == Init /\ [][Next]_vars

(***************************************************************************)
(* Fairness: BullMQ keeps handing out the jobs that wait and notices those *)
(* that stalled (as often as MaxStalledCount allows the handler sees them  *)
(* again), every await of a handler, listener or sweep settles (all        *)
(* clients have timeouts), the sweep's interval keeps firing, and 90 s     *)
(* without a heartbeat pass.  Nothing is assumed of the faults or of a     *)
(* live worker's heartbeats.                                               *)
(***************************************************************************)
Fairness ==
  /\ \A w \in Workers : /\ WF_vars(Take(w) \/ FailStalled(w))
                       /\ WF_vars(HandlerStep(w))
  /\ WF_vars(ListenerStep)
  /\ \A x \in Sweeps : WF_vars(SweepStep(x))
  /\ \A s \in Sessions : WF_vars(LeaseExpires(s))
  /\ \A j \in JobIds : /\ WF_vars(jobs[j].owner = NoWorker /\ Redeliver(j))
                       /\ WF_vars(BackoffOver(j))

FairSpec == Spec /\ Fairness

\* The type of every variable.
TypeOK ==
  /\ row \in [Sessions -> Row]
  /\ issued \in Nat
  /\ jobs \in [JobIds -> Job]
  /\ handler \in [Workers -> Handler]
  /\ held \in [Workers -> [JobIds -> Nat]]
  /\ failing \subseteq Listener
  /\ sweep \in [Sweeps -> Sweep]
  /\ comments \in [Sessions -> SUBSET Nat]
  /\ reviews \in [Sessions -> SUBSET Nat]
  /\ checks \in [Sessions -> Nat]
  /\ stored \in [Sessions -> SUBSET Nat]
  /\ faults \in 0 .. MaxFaults
  /\ suffered \subseteq FaultKinds
=============================================================================
