-------------------------- MODULE ReviewProperties --------------------------
(***************************************************************************)
(* What the review pipeline must, and must not, do.  Properties that hold  *)
(* under every fault come first, then those that hold as long as some      *)
(* kinds of fault stay away, then liveness, then what a comment or the     *)
(* README says and the code does not do.                                   *)
(***************************************************************************)
EXTENDS ReviewPipeline

\* A row is RUNNING exactly when it has a lease and a heartbeat: every write
\* that leaves RUNNING clears the lease columns.  completeSession relies on
\* it, its only guard is the lease.
RowCoherent ==
  \A s \in Sessions :
    /\ row[s].status = "RUNNING" <=> row[s].leaseId # NoLease
    /\ row[s].status = "RUNNING" <=> row[s].heartbeatAt # "none"

\* A COMPLETED or FAILED session keeps its status and its summary, whatever
\* late completion, listener, heartbeat, claim or sweep arrives, until its
\* installation is deleted.
SettledForGood ==
  [][\A s \in Sessions : row[s].status \in {"COMPLETED", "FAILED"}
       => row'[s] = row[s] \/ row'[s].status = "GONE"]_vars

\* A lease is taken from a session only by the attempt that holds it (its
\* completion, or its own `failed` listener), by a sweep that read the
\* session after its last heartbeat and claim, by a last attempt of a process
\* that never had a lease for the job, or by the deletion of the row.
LeaseEndsByRight ==
  [][\A s \in Sessions :
       LET l == row[s].leaseId IN
       l # NoLease /\ row'[s].leaseId # l =>
         \/ \E w \in Workers : At(w, "complete") /\ LeaseOf(w) = l /\ handler'[w] = Idle
         \/ \E f \in failing \ failing' : f.lease = l \/ (f.lease = NoLease /\ f.last)
         \/ \E x \in Sweeps : /\ sweep[x].at = s /\ sweep'[x].at # s
                              /\ sweep[x].seen[s] = row[s].attemptCount
                              /\ row[s].heartbeatAt = "quiet"
         \/ row'[s].status = "GONE"]_vars

\* What a sweep decided from the attemptCount it read (give up, or requeue
\* under which job id) still fits the row whenever its conditional write
\* can land, however long the sweep took and whoever acted meanwhile.
SweepDecidesOnCurrentRow ==
  \A x \in Sweeps, s \in Sessions :
    /\ sweep[x].pc # "idle"
    /\ s \in sweep[x].todo \cup {sweep[x].at}
    /\ Stalled(row[s], s \in sweep[x].behind)
    => sweep[x].seen[s] = row[s].attemptCount /\ row[s].heartbeatAt = "quiet"

\* The summary of a COMPLETED session belongs to an attempt that stored its
\* findings.  The handler completes also when GitHub refused its comments or
\* its review; unless a call to GitHub failed, that attempt's got there.
CompletedWasDelivered ==
  \A s \in Sessions : row[s].status = "COMPLETED" =>
    /\ row[s].summary \in stored[s]
    /\ "githubError" \notin suffered => row[s].summary \in comments[s] \cap reviews[s]

\* FAILED is the last word only when a job failed (out of attempts, or
\* stalled too often), when MAX_REVIEW_ATTEMPTS claims were made, or without
\* a commit to clone.
FailedOnlyWhenExhausted ==
  \A s \in Sessions : row[s].status = "FAILED" =>
    \/ \E j \in JobIds : j.session = s /\ jobs[j].state = "failed"
    \/ row[s].attemptCount >= MaxAttempts
    \/ s \in NoBaseSha

\* The bound on the claims of a session that does hold: MAX_REVIEW_ATTEMPTS
\* stops only the sweep, and each attempt of the server's job but the last
\* may put the session back once more (releaseForRetry).
ClaimsBounded ==
  \A s \in Sessions : row[s].attemptCount <= MaxAttempts + QueueAttempts - 1

\* The session's life cycle is the one of ReviewSession.
Lifecycle == INSTANCE ReviewSession WITH
  status   <- [s \in Sessions |-> row[s].status],
  owner    <- [s \in Sessions |-> row[s].leaseId],
  attempts <- [s \in Sessions |-> row[s].attemptCount],
  summary  <- [s \in Sessions |-> row[s].summary],
  drawn    <- issued
ImplementsLifecycle == Lifecycle!Spec

Only(kinds) == suffered \subseteq kinds

\* Unless a live worker goes quiet, one attempt at a time writes to the pull
\* request of a session: leases are only lost by attempts that have ended.
OneWriterAtATime ==
  "wedge" \notin suffered =>
    \A v, w \in Workers :
      handler[v].pc \in PostingPCs /\ handler[w].pc \in PostingPCs
        /\ SessionOf(v) = SessionOf(w) => v = w

\* Then upsertCheckRun leaves one check run on the commit, also when an
\* attempt that already wrote it is retried.
OneCheckRun ==
  "wedge" \notin suffered => \A s \in Sessions : checks[s] <= 1

\* heldLeases, "Leases of jobs in flight": a handler past its claim finds its
\* own lease there if it throws, so that the listener's write is fenced.  The
\* listener must not still be at work when the backoff of its job is over.
InFlightLeaseRegistered ==
  "slowListener" \notin suffered =>
    \A w \in Workers : LeaseOf(w) # NoLease => held[w][JobOf(w)] = LeaseOf(w)

\* "A second delivery of the same session loses this race and exits without
\* touching GitHub": redelivered jobs, refused claims and broken sweeps
\* never make two attempts of a session send comments.
PostedOnce(s) == Cardinality(comments[s]) <= 1
RedeliveryPostsOnce ==
  Only({"lockLost", "slowListener", "sweepError", "githubError"}) =>
    \A s \in Sessions : PostedOnce(s)

-----------------------------------------------------------------------------
\* A session whose worker died is taken off it.
OrphanIsReleased ==
  \A s \in Sessions :
    LET Orphan == row[s].status = "RUNNING" /\ ~ Alive(row[s].leaseId) IN
    Orphan ~> ~ Orphan

\* As long as nothing breaks, every session is settled in the end: what a
\* throwing review gives back is claimed again until its attempts run out.
SettledUnlessFault ==
  \A s \in Sessions : <>(row[s].status \in Terminal \/ faults > 0)

\* A session that waits to be claimed has a job on the queue that will do it.
Outstanding(s) == \E j \in JobIds :
  j.session = s /\ jobs[j].state \in {"waiting", "active", "delayed"}
Stranded(s) == row[s].status \in Claimable /\ ~ Outstanding(s)

\* After faults a session is settled for good, or it is one that waits in
\* QUEUED or RETRYING for a job that is not there, as it does once its job
\* stalled too often: nothing else keeps a session from being settled.
SettledOrStranded ==
  \A s \in Sessions : <>[](row[s].status \in Terminal \/ Stranded(s))

-----------------------------------------------------------------------------
\* recovery.ts on its order of writes: no session is stranded in RETRYING.
NeverStranded == \A s \in Sessions : row[s].status = "RETRYING" => Outstanding(s)

\* README: "at most 3 attempts, then FAILED".
AttemptsBounded == \A s \in Sessions : row[s].attemptCount <= MaxAttempts

\* README: a worker that comes back to life "can't double-post a review the
\* retry has already taken over".
NoDoublePost == \A s \in Sessions : PostedOnce(s)

\* lease.ts on failSession: a session that a worker is retrying, whose lease
\* that worker holds and heartbeats, is not marked FAILED.
LiveRetryNotFailed ==
  [][\A s \in Sessions, w \in Workers :
       row[s].attemptCount > 1 /\ LeaseOf(w) # NoLease
         /\ LeaseOf(w) = row[s].leaseId /\ row[s].heartbeatAt = "recent"
         => row'[s].status # "FAILED"]_vars
=============================================================================
