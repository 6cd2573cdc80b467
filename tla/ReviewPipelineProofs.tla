----------------------- MODULE ReviewPipelineProofs -----------------------
(***************************************************************************)
(* What ReviewPipeline guarantees for any number of workers, sweeps and    *)
(* sessions, any MAX_REVIEW_ATTEMPTS and queue attempts, and any faults:   *)
(* types, leases, claims, what a settled session shows, who writes to the  *)
(* pull request and how often.                                             *)
(***************************************************************************)
EXTENDS ReviewProperties, FiniteSetTheorems, TLAPS

-----------------------------------------------------------------------------
(***************************************************************************)
(* Types.  Local variables are only read where they have a value: a busy   *)
(* handler has a job, a flipping sweep has a session.                      *)
(***************************************************************************)
Busy ==
  /\ \A w \in Workers : handler[w].pc # "idle" => handler[w].job \in JobIds
  /\ \A x \in Sweeps : sweep[x].pc = "flip" => sweep[x].at \in Sessions
TypeInv == TypeOK /\ Busy

\* Each write of the table leaves a row.
LEMMA RowTypes ==
  ASSUME NEW r \in Row, NEW l \in Nat
  PROVE  /\ Claimed(r, l) \in Row
         /\ Renewed(r) \in Row
         /\ Completed(r, l) \in Row
         /\ \A st \in Statuses : Unowned(r, st) \in Row
         /\ [r EXCEPT !.heartbeatAt = "quiet"] \in Row
<1> USE DEF Row, Statuses, Claimable, Terminal, NoLease
<1>1. Claimed(r, l) \in Row
  <2>1. r.attemptCount + 1 \in Nat
    OBVIOUS
  <2> QED
    BY <2>1 DEF Claimed
<1>2. Renewed(r) \in Row /\ [r EXCEPT !.heartbeatAt = "quiet"] \in Row
  BY DEF Renewed
<1>3. ASSUME NEW st \in Statuses PROVE Unowned(r, st) \in Row
  BY DEF Unowned
<1>4. Completed(r, l) \in Row
  <2>1. Unowned(r, "COMPLETED") \in Row
    BY <1>3
  <2> QED
    BY <2>1 DEF Completed
<1> QED
  BY <1>1, <1>2, <1>3, <1>4

LEMMA WriteType ==
  ASSUME TypeOK, NEW s \in Sessions, NEW r \in Row, Write(s, r)
  PROVE  row' \in [Sessions -> Row]
BY DEF TypeOK, Write

LEMMA GotoType ==
  ASSUME TypeInv, NEW w \in Workers, NEW pc \in PCs, handler[w].pc # "idle", Goto(w, pc)
  PROVE  /\ handler' \in [Workers -> Handler]
         /\ \A v \in Workers : handler'[v].pc # "idle" => handler'[v].job \in JobIds
BY DEF TypeInv, TypeOK, Busy, Goto, Handler

LEMMA SetJobType ==
  ASSUME TypeOK, NEW j \in JobIds, NEW o \in Workers \cup {NoWorker},
         NEW st \in {"absent", "waiting", "active", "delayed", "completed", "failed"},
         SetJob(j, st, o)
  PROVE  jobs' \in [JobIds -> Job]
BY DEF TypeOK, SetJob, Job

LEMMA BeatType ==
  ASSUME TypeInv, NEW s \in Sessions, Beat(s)
  PROVE  /\ sweep' \in [Sweeps -> Sweep]
         /\ \A x \in Sweeps : sweep'[x].pc = "flip" => sweep'[x].at \in Sessions
<1>1. ASSUME NEW x \in Sweeps PROVE [sweep[x] EXCEPT !.behind = @ \ {s}] \in Sweep
  <2>1. sweep[x] \in Sweep
    BY DEF TypeInv, TypeOK
  <2>2. sweep[x].behind \ {s} \in SUBSET Sessions
    BY <2>1 DEF Sweep
  <2> QED
    BY <2>1, <2>2 DEF Sweep
<1>2. \A x \in Sweeps : /\ sweep'[x] = [sweep[x] EXCEPT !.behind = @ \ {s}]
                        /\ sweep[x] \in Sweep
  BY DEF Beat, TypeInv, TypeOK
<1>3. \A x \in Sweeps : sweep'[x].pc = sweep[x].pc /\ sweep'[x].at = sweep[x].at
  BY <1>2 DEF Sweep
<1> QED
  BY <1>1, <1>3 DEF Beat, TypeInv, Busy

LEMMA IdleType ==
  ASSUME TypeInv, NEW w \in Workers, handler' = [handler EXCEPT ![w] = Idle]
  PROVE  /\ handler' \in [Workers -> Handler]
         /\ \A v \in Workers : handler'[v].pc # "idle" => handler'[v].job \in JobIds
BY DEF TypeInv, TypeOK, Busy, Idle, Handler, PCs, NoLease, NoJob

LEMMA ReturnType ==
  ASSUME TypeInv, NEW w \in Workers, handler[w].pc # "idle", Return(w)
  PROVE  /\ handler' \in [Workers -> Handler]
         /\ \A v \in Workers : handler'[v].pc # "idle" => handler'[v].job \in JobIds
         /\ jobs' \in [JobIds -> Job]
<1>1. JobOf(w) \in JobIds
  BY DEF TypeInv, Busy, JobOf
<1>2. jobs' \in [JobIds -> Job]
  BY <1>1, SetJobType DEF Return, TypeInv, TypeOK
<1> QED
  BY <1>2, IdleType DEF Return

\* A failed attempt leaves its job in the queue and starts a listener.
LEMMA FailAttemptType ==
  ASSUME TypeInv, NEW w \in Workers, NEW j \in JobIds, NEW final \in BOOLEAN,
         FailAttempt(w, j, final)
  PROVE  jobs' \in [JobIds -> Job] /\ failing' \subseteq Listener
<1> DEFINE made == jobs[j].attemptsMade + 1
           last == made >= Attempts(j)
           new  == [state |-> IF last \/ final THEN "failed" ELSE "delayed",
                    attemptsMade |-> made, stalls |-> jobs[j].stalls, owner |-> NoWorker]
           f    == [worker |-> w, job |-> j, lease |-> held[w][j], last |-> last, pc |-> "write"]
<1>1. jobs' = [jobs EXCEPT ![j] = new] /\ failing' = failing \cup {f}
  BY DEF FailAttempt
<1>2. jobs[j] \in Job /\ held[w][j] \in Nat
  BY DEF TypeInv, TypeOK
<1>3. made \in Nat /\ last \in BOOLEAN
  BY <1>2 DEF Job
<1>4. new \in Job
  BY <1>2, <1>3 DEF Job
<1>5. f \in Listener
  BY <1>2, <1>3 DEF Listener
<1> HIDE DEF made, last, new, f
<1> QED
  BY <1>1, <1>4, <1>5 DEF TypeInv, TypeOK

LEMMA ThrowType ==
  ASSUME TypeInv, NEW w \in Workers, handler[w].pc # "idle", Throw(w)
  PROVE  /\ handler' \in [Workers -> Handler]
         /\ \A v \in Workers : handler'[v].pc # "idle" => handler'[v].job \in JobIds
         /\ jobs' \in [JobIds -> Job]
         /\ failing' \subseteq Listener
<1>1. JobOf(w) \in JobIds
  BY DEF TypeInv, Busy, JobOf
<1>2. handler' = [handler EXCEPT ![w] = Idle]
  BY DEF Throw
<1>3. CASE ~ OwnsJob(w)
  BY <1>2, <1>3, IdleType DEF Throw, TypeInv, TypeOK
<1>4. CASE OwnsJob(w)
  <2>1. FailAttempt(w, JobOf(w), FALSE)
    BY <1>4 DEF Throw
  <2> QED
    BY <1>1, <1>2, <2>1, IdleType, FailAttemptType
<1> QED
  BY <1>3, <1>4

\* A busy handler reads its job's session.
LEMMA SessionType ==
  ASSUME TypeInv, NEW w \in Workers, handler[w].pc # "idle"
  PROVE  /\ JobOf(w) \in JobIds
         /\ SessionOf(w) \in Sessions
         /\ LeaseOf(w) \in Nat
         /\ row[SessionOf(w)] \in Row
<1>1. JobOf(w) \in JobIds
  BY DEF TypeInv, Busy, JobOf
<1>2. SessionOf(w) \in Sessions
  BY <1>1 DEF JobOf, SessionOf, JobIds
<1>3. handler[w] \in Handler
  BY DEF TypeInv, TypeOK
<1>4. LeaseOf(w) \in Nat
  BY <1>3 DEF Handler, LeaseOf
<1> QED
  BY <1>1, <1>2, <1>4 DEF TypeInv, TypeOK

\* Where a call to GitHub starts and, when it is caught, where it goes on.
LEMMA GithubPcs ==
  ASSUME NEW w
  PROVE  /\ PostComments(w) => handler[w].pc = "comment"
         /\ PostSummary(w) => handler[w].pc = "summary"
         /\ WriteCheck(w) => handler[w].pc \in {"createCheck", "updateCheck"}
         /\ GithubError(w) => /\ handler[w].pc \in PostingPCs
                              /\ \E pc \in {"summary", "findCheck", "persist"} : Goto(w, pc)
BY DEF PostComments, SendComments, PostSummary, SendSummary, WriteCheck, CreateCheck, GithubError,
       AfterGithub, PostingPCs, At

\* What GitHub shows keeps its type.
LEMMA GithubType ==
  ASSUME TypeInv, NEW w \in Workers, handler[w].pc # "idle",
         SendComments(w) \/ SendSummary(w) \/ CreateCheck(w) \/ UNCHANGED github
  PROVE  /\ comments' \in [Sessions -> SUBSET Nat]
         /\ reviews' \in [Sessions -> SUBSET Nat]
         /\ checks' \in [Sessions -> Nat]
<1>1. SessionOf(w) \in Sessions /\ LeaseOf(w) \in Nat
  BY SessionType
<1>2. /\ comments \in [Sessions -> SUBSET Nat]
      /\ reviews \in [Sessions -> SUBSET Nat]
      /\ checks \in [Sessions -> Nat]
  BY DEF TypeInv, TypeOK
<1>3. CASE SendComments(w)
  BY <1>1, <1>2, <1>3 DEF SendComments
<1>4. CASE SendSummary(w)
  BY <1>1, <1>2, <1>4 DEF SendSummary
<1>5. CASE CreateCheck(w)
  BY <1>1, <1>2, <1>5 DEF CreateCheck
<1>6. CASE UNCHANGED github
  BY <1>2, <1>6 DEF github
<1> QED
  BY <1>3, <1>4, <1>5, <1>6

\* The faults are counted up to MaxFaults.
LEMMA FaultType ==
  ASSUME TypeOK, NEW k, Fault(k)
  PROVE  faults' \in 0 .. MaxFaults /\ suffered' \subseteq FaultKinds
BY ConstantsAssumption DEF TypeOK, Fault

LEMMA ClaimWriteType ==
  ASSUME TypeInv, NEW s \in Sessions, ClaimWrite(s)
  PROVE  /\ row' \in [Sessions -> Row]
         /\ issued' \in Nat
         /\ sweep' \in [Sweeps -> Sweep]
         /\ \A x \in Sweeps : sweep'[x].pc = "flip" => sweep'[x].at \in Sessions
<1>1. issued + 1 \in Nat /\ row[s] \in Row
  BY DEF TypeInv, TypeOK
<1>2. Claimed(row[s], issued + 1) \in Row
  BY <1>1, RowTypes
<1>3. row' \in [Sessions -> Row]
  BY <1>2, WriteType DEF ClaimWrite, TypeInv
<1> QED
  BY <1>1, <1>3, BeatType DEF ClaimWrite

LEMMA RenewType ==
  ASSUME TypeInv, NEW s \in Sessions, Write(s, Renewed(row[s])), Beat(s)
  PROVE  /\ row' \in [Sessions -> Row]
         /\ sweep' \in [Sweeps -> Sweep]
         /\ \A x \in Sweeps : sweep'[x].pc = "flip" => sweep'[x].at \in Sessions
<1>1. row[s] \in Row
  BY DEF TypeInv, TypeOK
<1>2. Renewed(row[s]) \in Row
  BY <1>1, RowTypes
<1> QED
  BY <1>2, WriteType, BeatType DEF TypeInv

LEMMA CompleteType ==
  ASSUME TypeInv, NEW w \in Workers, handler[w].pc # "idle", CompleteWrite(w)
  PROVE  row' \in [Sessions -> Row]
<1>1. /\ SessionOf(w) \in Sessions
      /\ LeaseOf(w) \in Nat
      /\ row[SessionOf(w)] \in Row
  BY SessionType
<1>2. Completed(row[SessionOf(w)], LeaseOf(w)) \in Row
  BY <1>1, RowTypes
<1> QED
  BY <1>1, <1>2, WriteType DEF CompleteWrite, TypeInv

LEMMA QuietenType ==
  ASSUME TypeInv, NEW s \in Sessions, Quieten(s)
  PROVE  row' \in [Sessions -> Row]
<1>1. row[s] \in Row
  BY DEF TypeInv, TypeOK
<1>2. [row[s] EXCEPT !.heartbeatAt = "quiet"] \in Row
  BY <1>1, RowTypes
<1> QED
  BY <1>2, WriteType DEF Quieten, TypeInv

LEMMA UnownedType ==
  ASSUME TypeInv, NEW s \in Sessions, NEW st \in Statuses, Write(s, Unowned(row[s], st))
  PROVE  row' \in [Sessions -> Row]
<1>1. row[s] \in Row
  BY DEF TypeInv, TypeOK
<1>2. Unowned(row[s], st) \in Row
  BY <1>1, RowTypes
<1> QED
  BY <1>2, WriteType DEF TypeInv

\* Every step keeps the types.
LEMMA TypeStep == TypeInv /\ [Next]_vars => TypeInv'
<1> SUFFICES ASSUME TypeInv, [Next]_vars PROVE TypeInv'
  OBVIOUS
<1> USE DEF calm, github
<1>1. ASSUME NEW w \in Workers, Take(w) PROVE TypeInv'
  <2>1. PICK j \in JobIds : /\ SetJob(j, "active", w)
                            /\ handler' = [handler EXCEPT ![w] =
                                 [pc |-> "claim", job |-> j, lease |-> NoLease]]
    BY <1>1 DEF Take
  <2>2. [pc |-> "claim", job |-> j, lease |-> NoLease] \in Handler
    BY DEF Handler, PCs, NoLease
  <2>3. /\ handler' \in [Workers -> Handler]
        /\ \A v \in Workers : handler'[v].pc # "idle" => handler'[v].job \in JobIds
    BY <2>1, <2>2 DEF TypeInv, TypeOK, Busy
  <2>4. jobs' \in [JobIds -> Job]
    BY <2>1, SetJobType DEF TypeInv
  <2> QED
    BY <1>1, <2>3, <2>4 DEF Take, TypeInv, TypeOK, Busy
<1>2. ASSUME NEW w \in Workers, Claim(w) PROVE TypeInv'
  <2>1. handler[w].pc # "idle"
    BY <1>2 DEF Claim, At
  <2>2. SessionOf(w) \in Sessions /\ JobOf(w) \in JobIds
    BY <2>1, SessionType
  <2>3. CASE CanClaim(row[SessionOf(w)])
    <3>1. /\ ClaimWrite(SessionOf(w))
          /\ handler' = [handler EXCEPT ![w] = [@ EXCEPT !.pc = "review", !.lease = issued + 1]]
          /\ held' = [held EXCEPT ![w][JobOf(w)] = issued + 1]
          /\ UNCHANGED jobs
      BY <1>2, <2>3 DEF Claim, Register
    <3>2. issued + 1 \in Nat
      BY DEF TypeInv, TypeOK
    <3>3. /\ handler' \in [Workers -> Handler]
          /\ \A v \in Workers : handler'[v].pc # "idle" => handler'[v].job \in JobIds
      BY <2>1, <3>1, <3>2 DEF TypeInv, TypeOK, Busy, Handler, PCs
    <3>4. held' \in [Workers -> [JobIds -> Nat]]
      BY <2>2, <3>1, <3>2 DEF TypeInv, TypeOK
    <3> QED
      BY <1>2, <2>2, <3>1, <3>3, <3>4, ClaimWriteType DEF Claim, TypeInv, TypeOK, Busy
  <2>4. CASE ~ CanClaim(row[SessionOf(w)])
    <3>1. Return(w) /\ UNCHANGED <<row, issued, held, sweep>>
      BY <1>2, <2>4 DEF Claim, ClaimWrite
    <3> QED
      BY <1>2, <2>1, <3>1, ReturnType DEF Claim, TypeInv, TypeOK, Busy
  <2> QED
    BY <2>3, <2>4
<1>3. ASSUME NEW w \in Workers, ClaimError(w) PROVE TypeInv'
  <2>1. handler[w].pc # "idle" /\ Throw(w)
    BY <1>3 DEF ClaimError, At
  <2>2. SessionOf(w) \in Sessions
    BY <2>1, SessionType
  <2>3. /\ row' \in [Sessions -> Row]
        /\ issued' \in Nat
        /\ sweep' \in [Sweeps -> Sweep]
        /\ \A x \in Sweeps : sweep'[x].pc = "flip" => sweep'[x].at \in Sessions
    BY <1>3, <2>2, ClaimWriteType DEF ClaimError, TypeInv, TypeOK, Busy
  <2>4. faults' \in 0 .. MaxFaults /\ suffered' \subseteq FaultKinds
    BY <1>3, FaultType DEF ClaimError, TypeInv
  <2> QED
    BY <1>3, <2>1, <2>3, <2>4, ThrowType DEF ClaimError, TypeInv, TypeOK, Busy
<1>4. ASSUME NEW w \in Workers, Review(w) PROVE TypeInv'
  <2>1. handler[w].pc # "idle"
    BY <1>4 DEF Review, At
  <2>2. CASE Goto(w, "renew") /\ UNCHANGED <<jobs, failing>>
    BY <1>4, <2>1, <2>2, GotoType DEF Review, TypeInv, TypeOK, Busy, PCs
  <2>3. CASE Throw(w)
    BY <1>4, <2>1, <2>3, ThrowType DEF Review, TypeInv, TypeOK, Busy
  <2> QED
    BY <1>4, <2>2, <2>3 DEF Review
<1>5. ASSUME NEW w \in Workers, Renew(w) PROVE TypeInv'
  <2>1. handler[w].pc # "idle"
    BY <1>5 DEF Renew, At
  <2>2. SessionOf(w) \in Sessions /\ LeaseOf(w) \in Nat
    BY <2>1, SessionType
  <2>3. CASE Holds(row[SessionOf(w)], LeaseOf(w))
    <3>1. /\ Write(SessionOf(w), Renewed(row[SessionOf(w)]))
          /\ Beat(SessionOf(w))
          /\ Goto(w, "comment")
          /\ UNCHANGED jobs
      BY <1>5, <2>3 DEF Renew
    <3> QED
      BY <1>5, <2>1, <2>2, <3>1, RenewType, GotoType DEF Renew, TypeInv, TypeOK, Busy, PCs
  <2>4. CASE ~ Holds(row[SessionOf(w)], LeaseOf(w))
    <3>1. Return(w) /\ UNCHANGED <<row, sweep>>
      BY <1>5, <2>4 DEF Renew
    <3> QED
      BY <1>5, <2>1, <3>1, ReturnType DEF Renew, TypeInv, TypeOK, Busy
  <2> QED
    BY <2>3, <2>4
<1>6. ASSUME NEW w \in Workers, PostComments(w) PROVE TypeInv'
  <2>1. handler[w].pc # "idle" /\ SendComments(w) /\ Goto(w, "summary")
    BY <1>6, GithubPcs DEF PostComments
  <2> QED
    BY <1>6, <2>1, GithubType, GotoType DEF PostComments, TypeInv, TypeOK, Busy, PCs
<1>7. ASSUME NEW w \in Workers, PostSummary(w) PROVE TypeInv'
  <2>1. handler[w].pc # "idle" /\ SendSummary(w) /\ Goto(w, "findCheck")
    BY <1>7, GithubPcs DEF PostSummary
  <2> QED
    BY <1>7, <2>1, GithubType, GotoType DEF PostSummary, TypeInv, TypeOK, Busy, PCs
<1>8. ASSUME NEW w \in Workers, FindCheck(w) PROVE TypeInv'
  <2>1. handler[w].pc # "idle"
    BY <1>8 DEF FindCheck, At
  <2>2. PICK pc \in {"updateCheck", "createCheck"} : Goto(w, pc)
    BY <1>8 DEF FindCheck
  <2> QED
    BY <1>8, <2>1, <2>2, GotoType DEF FindCheck, TypeInv, TypeOK, Busy, PCs
<1>9. ASSUME NEW w \in Workers, WriteCheck(w) PROVE TypeInv'
  <2>1. handler[w].pc # "idle" /\ (CreateCheck(w) \/ UNCHANGED github) /\ Goto(w, "persist")
    BY <1>9, GithubPcs DEF WriteCheck
  <2> QED
    BY <1>9, <2>1, GithubType, GotoType DEF WriteCheck, TypeInv, TypeOK, Busy, PCs
<1>10. ASSUME NEW w \in Workers, Persist(w) PROVE TypeInv'
  <2>1. handler[w].pc # "idle"
    BY <1>10 DEF Persist, At
  <2>2. SessionOf(w) \in Sessions /\ LeaseOf(w) \in Nat
    BY <2>1, SessionType
  <2>3. CASE StoreComments(w) /\ Goto(w, "complete") /\ UNCHANGED <<jobs, failing>>
    <3>1. stored' \in [Sessions -> SUBSET Nat]
      BY <2>2, <2>3 DEF StoreComments, TypeInv, TypeOK
    <3> QED
      BY <1>10, <2>1, <2>3, <3>1, GotoType DEF Persist, TypeInv, TypeOK, Busy, PCs
  <2>4. CASE Throw(w) /\ UNCHANGED stored
    BY <1>10, <2>1, <2>4, ThrowType DEF Persist, TypeInv, TypeOK, Busy
  <2>5. CASE Goto(w, "complete") /\ UNCHANGED <<jobs, failing, stored>>
    BY <1>10, <2>1, <2>5, GotoType DEF Persist, TypeInv, TypeOK, Busy, PCs
  <2> QED
    BY <1>10, <2>3, <2>4, <2>5 DEF Persist
<1>11. ASSUME NEW w \in Workers, Complete(w) PROVE TypeInv'
  <2>1. handler[w].pc # "idle" /\ Return(w)
    BY <1>11 DEF Complete, At
  <2>2. JobOf(w) \in JobIds
    BY <2>1, SessionType
  <2>3. CASE CompleteWrite(w) /\ held' = [held EXCEPT ![w][JobOf(w)] = NoLease]
    <3>1. row' \in [Sessions -> Row]
      BY <2>1, <2>3, CompleteType
    <3>2. held' \in [Workers -> [JobIds -> Nat]]
      BY <2>2, <2>3 DEF TypeInv, TypeOK, NoLease
    <3> QED
      BY <1>11, <2>1, <3>1, <3>2, ReturnType DEF Complete, TypeInv, TypeOK, Busy
  <2>4. CASE UNCHANGED <<row, held>>
    BY <1>11, <2>1, <2>4, ReturnType DEF Complete, TypeInv, TypeOK, Busy
  <2> QED
    BY <1>11, <2>3, <2>4 DEF Complete
<1>12. ASSUME NEW w \in Workers, LaterDbError(w) PROVE TypeInv'
  <2>1. handler[w].pc # "idle"
    BY <1>12 DEF LaterDbError, At
  <2>2. SessionOf(w) \in Sessions /\ LeaseOf(w) \in Nat
    BY <2>1, SessionType
  <2>3. row' \in [Sessions -> Row]
    BY <1>12, <2>1, CompleteType DEF LaterDbError, TypeInv, TypeOK
  <2>4. stored' \in [Sessions -> SUBSET Nat]
    BY <1>12, <2>2 DEF LaterDbError, StoreComments, TypeInv, TypeOK
  <2>5. faults' \in 0 .. MaxFaults /\ suffered' \subseteq FaultKinds /\ Throw(w)
    BY <1>12, FaultType DEF LaterDbError, TypeInv
  <2> QED
    BY <1>12, <2>1, <2>3, <2>4, <2>5, ThrowType DEF LaterDbError, TypeInv, TypeOK, Busy
<1>13. ASSUME NEW w \in Workers, GithubError(w) PROVE TypeInv'
  <2>1. /\ handler[w].pc # "idle"
        /\ SendComments(w) \/ SendSummary(w) \/ CreateCheck(w) \/ UNCHANGED github
    BY <1>13 DEF GithubError, PostingPCs
  <2>2. PICK pc \in {"summary", "findCheck", "persist"} : Goto(w, pc)
    BY <1>13, GithubPcs
  <2>3. /\ handler' \in [Workers -> Handler]
        /\ \A v \in Workers : handler'[v].pc # "idle" => handler'[v].job \in JobIds
    BY <2>1, <2>2, GotoType DEF PCs
  <2>4. faults' \in 0 .. MaxFaults /\ suffered' \subseteq FaultKinds
    BY <1>13, FaultType DEF GithubError, TypeInv
  <2> QED
    BY <1>13, <2>1, <2>3, <2>4, GithubType DEF GithubError, TypeInv, TypeOK, Busy
<1>14. ASSUME NEW w \in Workers, Heartbeat(w) PROVE TypeInv'
  <2>1. handler[w].pc # "idle"
    BY <1>14 DEF Heartbeat, At
  <2>2. SessionOf(w) \in Sessions /\ LeaseOf(w) \in Nat
    BY <2>1, SessionType
  <2> QED
    BY <1>14, <2>1, <2>2, RenewType DEF Heartbeat, TypeInv, TypeOK, Busy
<1>15. ASSUME NEW w \in Workers, Crash(w) PROVE TypeInv'
  <2>1. handler' = [handler EXCEPT ![w] = Idle]
    BY <1>15 DEF Crash
  <2>2. held' \in [Workers -> [JobIds -> Nat]] /\ failing' \subseteq Listener
    BY <1>15 DEF Crash, TypeInv, TypeOK, NoLease
  <2>3. jobs' \in [JobIds -> Job]
    <3>1. \A j \in JobIds : jobs[j] \in Job
      BY DEF TypeInv, TypeOK
    <3>2. \A j \in JobIds : [jobs[j] EXCEPT !.owner = NoWorker] \in Job
      BY <3>1 DEF Job
    <3> QED
      BY <1>15, <3>1, <3>2 DEF Crash
  <2>4. faults' \in 0 .. MaxFaults /\ suffered' \subseteq FaultKinds
    BY <1>15, FaultType DEF Crash, TypeInv
  <2> QED
    BY <1>15, <2>1, <2>2, <2>3, <2>4, IdleType DEF Crash, TypeInv, TypeOK, Busy
<1>16. ASSUME NEW f \in failing, ListenerWrite(f) PROVE TypeInv'
  <2>1. f \in Listener /\ f.job.session \in Sessions
    BY DEF TypeInv, TypeOK, Listener, JobIds
  <2>2. row' \in [Sessions -> Row]
    BY <1>16, <2>1, UnownedType DEF ListenerWrite, TypeInv, TypeOK, Statuses, Claimable, Terminal
  <2>3. [f EXCEPT !.pc = "forget"] \in Listener
    BY <2>1 DEF Listener
  <2>4. failing' \subseteq Listener
    BY <1>16, <2>3 DEF ListenerWrite, TypeInv, TypeOK
  <2> QED
    BY <1>16, <2>2, <2>4 DEF ListenerWrite, TypeInv, TypeOK, Busy
<1>17. ASSUME NEW f \in failing, ListenerForget(f) PROVE TypeInv'
  <2>1. f.worker \in Workers /\ f.job \in JobIds
    BY DEF TypeInv, TypeOK, Listener
  <2>2. held' \in [Workers -> [JobIds -> Nat]] /\ failing' \subseteq Listener
    BY <1>17, <2>1 DEF ListenerForget, TypeInv, TypeOK, NoLease
  <2> QED
    BY <1>17, <2>2 DEF ListenerForget, TypeInv, TypeOK, Busy
<1>18. ASSUME NEW x \in Sweeps, Scan(x) PROVE TypeInv'
  <2> DEFINE seen == [s \in Sessions |-> IF IsStalled(s) THEN row[s].attemptCount ELSE 0]
             new  == [pc |-> "loop", todo |-> {s \in Sessions : IsStalled(s)},
                      at |-> NoSession, seen |-> seen,
                      behind |-> {s \in Sessions : row[s].heartbeatAt = "quiet"}]
  <2>1. sweep' = [sweep EXCEPT ![x] = new]
    BY <1>18 DEF Scan
  <2>2. \A s \in Sessions : row[s].attemptCount \in Nat
    BY DEF TypeInv, TypeOK, Row
  <2>3. seen \in [Sessions -> Nat]
    BY <2>2
  <2>4. new \in Sweep
    BY <2>3 DEF Sweep
  <2>5. /\ sweep' \in [Sweeps -> Sweep]
        /\ \A y \in Sweeps : sweep'[y].pc = "flip" => sweep'[y].at \in Sessions
    BY <2>1, <2>4 DEF TypeInv, TypeOK, Busy
  <2> QED
    BY <1>18, <2>5 DEF Scan, TypeInv, TypeOK, Busy
<1>19. ASSUME NEW x \in Sweeps, Requeue(x) PROVE TypeInv'
  <2>1. PICK s \in sweep[x].todo :
          /\ sweep' = [sweep EXCEPT ![x] =
                        [sweep[x] EXCEPT !.pc = "flip", !.at = s, !.todo = @ \ {s}]]
          /\ jobs' = IF /\ ~ GivesUp(x, s)
                       /\ jobs[RecoveryJob(s, sweep[x].seen[s])].state = "absent"
                    THEN [jobs EXCEPT ![RecoveryJob(s, sweep[x].seen[s])] = NewJob("waiting")]
                    ELSE jobs
    BY <1>19 DEF Requeue
  <2>2. sweep[x] \in Sweep
    BY DEF TypeInv, TypeOK
  <2>3. s \in Sessions /\ sweep[x].todo \ {s} \in SUBSET Sessions
    BY <2>2 DEF Sweep
  <2>4. [sweep[x] EXCEPT !.pc = "flip", !.at = s, !.todo = @ \ {s}] \in Sweep
    BY <2>2, <2>3 DEF Sweep
  <2>5. [sweep[x] EXCEPT !.pc = "flip", !.at = s, !.todo = @ \ {s}].at = s
    BY <2>2 DEF Sweep
  <2> DEFINE next == [sweep[x] EXCEPT !.pc = "flip", !.at = s, !.todo = @ \ {s}]
  <2>8. /\ sweep' \in [Sweeps -> Sweep]
        /\ \A y \in Sweeps : sweep'[y].pc = "flip" => sweep'[y].at \in Sessions
    <3>1. sweep' = [sweep EXCEPT ![x] = next] /\ next \in Sweep /\ next.at \in Sessions
      BY <2>1, <2>3, <2>4, <2>5
    <3> HIDE DEF next
    <3> QED
      BY <3>1 DEF TypeInv, TypeOK, Busy
  <2>6. NewJob("waiting") \in Job
    BY DEF NewJob, Job
  <2>7. jobs' \in [JobIds -> Job]
    BY <2>1, <2>6 DEF TypeInv, TypeOK
  <2> QED
    BY <1>19, <2>7, <2>8 DEF Requeue, TypeInv, TypeOK, Busy
<1>20. ASSUME NEW x \in Sweeps, Flip(x) PROVE TypeInv'
  <2> DEFINE s == sweep[x].at
  <2>1. s \in Sessions
    BY <1>20 DEF Flip, TypeInv, Busy
  <2>2. row[s] \in Row /\ {"FAILED", "RETRYING"} \subseteq Statuses
    BY <2>1 DEF TypeInv, TypeOK, Statuses, Claimable, Terminal
  <2>3. Unowned(row[s], IF GivesUp(x, s) THEN "FAILED" ELSE "RETRYING") \in Row
    BY <2>2, RowTypes
  <2>4. row' \in [Sessions -> Row]
    BY <1>20, <2>1, <2>3 DEF Flip, TypeInv, TypeOK
  <2> DEFINE next == [sweep[x] EXCEPT !.pc = "loop", !.at = NoSession]
  <2>5. IdleSweep \in Sweep /\ IdleSweep.pc = "idle"
    BY DEF IdleSweep, Sweep
  <2>6. sweep[x] \in Sweep
    BY DEF TypeInv, TypeOK
  <2>7. next \in Sweep /\ next.pc = "loop"
    BY <2>6 DEF Sweep
  <2>8. sweep' = [sweep EXCEPT ![x] = IF sweep[x].todo = {} THEN IdleSweep ELSE next]
    BY <1>20 DEF Flip
  <2>9. /\ sweep' \in [Sweeps -> Sweep]
        /\ \A y \in Sweeps : sweep'[y].pc = "flip" => sweep'[y].at \in Sessions
    BY <2>5, <2>7, <2>8 DEF TypeInv, TypeOK, Busy
  <2> QED
    BY <1>20, <2>4, <2>9 DEF Flip, TypeInv, TypeOK, Busy
<1>21. ASSUME NEW x \in Sweeps, SweepError(x) PROVE TypeInv'
  <2>1. IdleSweep \in Sweep /\ IdleSweep.pc = "idle"
    BY DEF IdleSweep, Sweep
  <2>2. /\ sweep' \in [Sweeps -> Sweep]
        /\ \A y \in Sweeps : sweep'[y].pc = "flip" => sweep'[y].at \in Sessions
    BY <1>21, <2>1 DEF SweepError, TypeInv, TypeOK, Busy
  <2>3. faults' \in 0 .. MaxFaults /\ suffered' \subseteq FaultKinds
    BY <1>21, FaultType DEF SweepError, TypeInv
  <2> QED
    BY <1>21, <2>2, <2>3 DEF SweepError, TypeInv, TypeOK, Busy
<1>22. ASSUME NEW s \in Sessions, LeaseExpires(s) PROVE TypeInv'
  BY <1>22, QuietenType DEF LeaseExpires, Quieten, TypeInv, TypeOK, Busy
<1>23. ASSUME NEW s \in Sessions, Wedge(s) PROVE TypeInv'
  <2>1. faults' \in 0 .. MaxFaults /\ suffered' \subseteq FaultKinds /\ Quieten(s)
    BY <1>23, FaultType DEF Wedge, TypeInv
  <2> QED
    BY <2>1, QuietenType DEF Quieten, TypeInv, TypeOK, Busy
<1>24. ASSUME NEW s \in Sessions, Uninstall(s) PROVE TypeInv'
  <2>1. faults' \in 0 .. MaxFaults /\ suffered' \subseteq FaultKinds
    BY <1>24, FaultType DEF Uninstall, TypeInv
  <2>2. row' \in [Sessions -> Row]
    BY <1>24, UnownedType DEF Uninstall, Statuses, Terminal
  <2> QED
    BY <1>24, <2>1, <2>2 DEF Uninstall, TypeInv, TypeOK, Busy
<1>25. ASSUME NEW j \in JobIds, Redeliver(j) PROVE TypeInv'
  <2>1. faults' \in 0 .. MaxFaults /\ suffered' \subseteq FaultKinds
    BY <1>25, FaultType DEF Redeliver, TypeInv, TypeOK
  <2> DEFINE new == [state |-> "waiting", attemptsMade |-> jobs[j].attemptsMade,
                     stalls |-> jobs[j].stalls + 1, owner |-> NoWorker]
  <2>2. jobs[j] \in Job
    BY DEF TypeInv, TypeOK
  <2>3. new \in Job
    BY <2>2 DEF Job
  <2>4. jobs' = [jobs EXCEPT ![j] = new]
    BY <1>25 DEF Redeliver
  <2> HIDE DEF new
  <2>5. jobs' \in [JobIds -> Job]
    BY <2>3, <2>4 DEF TypeInv, TypeOK
  <2> QED
    BY <1>25, <2>1, <2>5 DEF Redeliver, TypeInv, TypeOK, Busy
<1>26. ASSUME NEW j \in JobIds, BackoffOver(j) PROVE TypeInv'
  <2>1. faults' \in 0 .. MaxFaults /\ suffered' \subseteq FaultKinds
    BY <1>26, FaultType DEF BackoffOver, TypeInv, TypeOK
  <2> QED
    BY <1>26, <2>1, SetJobType DEF BackoffOver, TypeInv, TypeOK, Busy
<1>27. ASSUME NEW w \in Workers, FailStalled(w) PROVE TypeInv'
  <2>1. PICK j \in JobIds : FailAttempt(w, j, TRUE)
    BY <1>27 DEF FailStalled
  <2>2. jobs' \in [JobIds -> Job] /\ failing' \subseteq Listener
    BY <2>1, FailAttemptType
  <2> QED
    BY <1>27, <2>2 DEF FailStalled, TypeInv, TypeOK, Busy
<1>28. CASE UNCHANGED vars
  BY <1>28 DEF vars, TypeInv, TypeOK, Busy
<1> QED
  BY <1>1, <1>2, <1>3, <1>4, <1>5, <1>6, <1>7, <1>8, <1>9, <1>10, <1>11, <1>12, <1>13,
     <1>14, <1>15, <1>16, <1>17, <1>18, <1>19, <1>20, <1>21, <1>22, <1>23, <1>24, <1>25,
     <1>26, <1>27, <1>28
  DEF Next, HandlerStep, ListenerStep, SweepStep

\* The initial state is well typed.
LEMMA TypeInit == Init => TypeInv
<1> SUFFICES ASSUME Init PROVE TypeInv
  OBVIOUS
<1>1. NewRow \in Row
  BY DEF NewRow, Row, Statuses, Claimable, Terminal, NoLease
<1>2. Idle \in Handler /\ Idle.pc = "idle"
  BY DEF Idle, Handler, PCs, NoLease, NoJob
<1>3. IdleSweep \in Sweep /\ IdleSweep.pc = "idle"
  BY DEF IdleSweep, Sweep
<1>4. NewJob("waiting") \in Job /\ NewJob("absent") \in Job
  BY DEF NewJob, Job
<1>5. jobs \in [JobIds -> Job]
  BY <1>4 DEF Init
<1> QED
  BY <1>1, <1>2, <1>3, <1>5, ConstantsAssumption DEF Init, TypeInv, TypeOK, Busy, NoLease

\* Type correctness of the pipeline.
THEOREM TypeCorrect == Spec => []TypeOK
<1>1. TypeInv => TypeOK
  BY DEF TypeInv
<1> QED
  BY <1>1, TypeInit, TypeStep, PTL DEF Spec

-----------------------------------------------------------------------------
(***************************************************************************)
(* The moves of a row.  Every step leaves the table and the lease counter  *)
(* alone or is one of the moves below on one session; what follows about   *)
(* rows is proved from the moves, not from the actions.                    *)
(***************************************************************************)
BeatMove(s) ==
  /\ row[s].leaseId # NoLease
  /\ Write(s, Renewed(row[s])) /\ Beat(s) /\ UNCHANGED issued
CompleteMove(s) ==
  /\ row[s].leaseId # NoLease
  /\ Write(s, Completed(row[s], row[s].leaseId)) /\ UNCHANGED issued
QuietMove(s) ==
  /\ row[s].heartbeatAt = "recent"
  /\ Write(s, [row[s] EXCEPT !.heartbeatAt = "quiet"]) /\ UNCHANGED <<issued, sweep>>
ReleaseMove(s) ==
  /\ row[s].status = "RUNNING"
  /\ Write(s, Unowned(row[s], "RETRYING")) /\ UNCHANGED issued
FailMove(s) ==
  /\ row[s].status \in Claimable \cup {"RUNNING"}
  /\ Write(s, Unowned(row[s], "FAILED")) /\ UNCHANGED issued
GoneMove(s) ==
  /\ row[s].status # "GONE"
  /\ Write(s, Unowned(row[s], "GONE")) /\ UNCHANGED issued
Move(s) == \/ ClaimWrite(s) \/ BeatMove(s) \/ CompleteMove(s) \/ QuietMove(s)
           \/ ReleaseMove(s) \/ FailMove(s) \/ GoneMove(s)

\* A handler past its claim has a lease.
LeaseAfterClaim ==
  \A w \in Workers : handler[w].pc \notin {"idle", "claim"} => LeaseOf(w) # NoLease

LEMMA LeaseAfterClaimStep ==
  TypeInv /\ LeaseAfterClaim /\ [Next]_vars => LeaseAfterClaim'
<1> SUFFICES ASSUME TypeInv, LeaseAfterClaim, [Next]_vars PROVE LeaseAfterClaim'
  OBVIOUS
<1>1. handler \in [Workers -> Handler] /\ issued + 1 # NoLease
  BY DEF TypeInv, TypeOK, NoLease
<1>2. ASSUME NEW w \in Workers, NEW pc, handler[w].pc \notin {"idle", "claim"}, Goto(w, pc)
      PROVE LeaseAfterClaim'
  BY <1>1, <1>2 DEF Goto, LeaseAfterClaim, LeaseOf, Handler
<1>3. ASSUME NEW w \in Workers, handler' = [handler EXCEPT ![w] = Idle] PROVE LeaseAfterClaim'
  BY <1>1, <1>3 DEF LeaseAfterClaim, LeaseOf, Idle
<1>4. ASSUME UNCHANGED handler PROVE LeaseAfterClaim'
  BY <1>4 DEF LeaseAfterClaim, LeaseOf
<1>5. ASSUME NEW w \in Workers, Take(w) PROVE LeaseAfterClaim'
  <2>1. PICK j \in JobIds : handler' = [handler EXCEPT ![w] =
                               [pc |-> "claim", job |-> j, lease |-> NoLease]]
    BY <1>5 DEF Take
  <2> QED
    BY <1>1, <2>1 DEF LeaseAfterClaim, LeaseOf
<1>6. ASSUME NEW w \in Workers, Claim(w) PROVE LeaseAfterClaim'
  <2>1. CASE handler' = [handler EXCEPT ![w] = [@ EXCEPT !.pc = "review", !.lease = issued + 1]]
    BY <1>1, <2>1 DEF LeaseAfterClaim, LeaseOf, Handler
  <2>2. CASE Return(w)
    BY <1>3, <2>2 DEF Return
  <2> QED
    BY <1>6, <2>1, <2>2 DEF Claim
<1>7. ASSUME NEW w \in Workers, HandlerStep(w) \/ GithubError(w) PROVE LeaseAfterClaim'
  <2>1. CASE Review(w)
    BY <1>2, <1>3, <2>1 DEF Review, Throw, At
  <2>2. CASE Renew(w)
    BY <1>2, <1>3, <2>2 DEF Renew, Return, At
  <2>3. CASE PostComments(w) \/ PostSummary(w)
    BY <1>2, <2>3, GithubPcs DEF PostComments, PostSummary
  <2>4. CASE FindCheck(w) \/ WriteCheck(w)
    BY <1>2, <2>4, GithubPcs DEF FindCheck, WriteCheck, At
  <2>5. CASE Persist(w)
    BY <1>2, <1>3, <2>5 DEF Persist, Throw, At
  <2>6. CASE Complete(w)
    BY <1>3, <2>6 DEF Complete, Return
  <2>7. CASE GithubError(w)
    BY <1>2, <2>7, GithubPcs DEF PostingPCs
  <2> QED
    BY <1>6, <1>7, <2>1, <2>2, <2>3, <2>4, <2>5, <2>6, <2>7 DEF HandlerStep
<1>8. ASSUME NEW w \in Workers,
             \/ Heartbeat(w) \/ Crash(w) \/ ClaimError(w) \/ LaterDbError(w) \/ FailStalled(w)
      PROVE LeaseAfterClaim'
  BY <1>3, <1>4, <1>8 DEF Heartbeat, Crash, ClaimError, LaterDbError, Throw, FailStalled
<1>9. CASE ListenerStep
  BY <1>4, <1>9 DEF ListenerStep, ListenerWrite, ListenerForget
<1>10. ASSUME NEW x \in Sweeps, SweepStep(x) \/ SweepError(x) PROVE LeaseAfterClaim'
  BY <1>4, <1>10 DEF SweepStep, Scan, Requeue, Flip, SweepError
<1>11. ASSUME NEW s \in Sessions, LeaseExpires(s) \/ Wedge(s) \/ Uninstall(s)
       PROVE LeaseAfterClaim'
  BY <1>4, <1>11 DEF LeaseExpires, Wedge, Uninstall, Quieten
<1>12. ASSUME NEW j \in JobIds, Redeliver(j) \/ BackoffOver(j) PROVE LeaseAfterClaim'
  BY <1>4, <1>12 DEF Redeliver, BackoffOver
<1>13. CASE UNCHANGED vars
  BY <1>4, <1>13 DEF vars
<1> QED
  BY <1>5, <1>7, <1>8, <1>9, <1>10, <1>11, <1>12, <1>13 DEF Next

\* Every step is a move of one row, or leaves rows and leases alone.
LEMMA RowMoves ==
  ASSUME TypeInv, LeaseAfterClaim, [Next]_vars
  PROVE  UNCHANGED <<row, issued>> \/ \E s \in Sessions : Move(s)
<1>1. ASSUME NEW w \in Workers, CompleteWrite(w), LeaseOf(w) # NoLease, handler[w].pc # "idle",
             UNCHANGED issued
      PROVE \E s \in Sessions : Move(s)
  BY <1>1, SessionType DEF CompleteWrite, Holds, Move, CompleteMove
<1>2. ASSUME NEW w \in Workers, handler[w].pc # "idle", LeaseOf(w) # NoLease,
             Holds(row[SessionOf(w)], LeaseOf(w)), UNCHANGED issued,
             Write(SessionOf(w), Renewed(row[SessionOf(w)])), Beat(SessionOf(w))
      PROVE \E s \in Sessions : Move(s)
  BY <1>2, SessionType DEF Holds, Move, BeatMove
<1>3. ASSUME NEW w \in Workers, handler[w].pc # "idle", ClaimWrite(SessionOf(w))
      PROVE \E s \in Sessions : Move(s)
  BY <1>3, SessionType DEF Move
<1>4. ASSUME NEW w \in Workers, Claim(w) \/ ClaimError(w)
      PROVE UNCHANGED <<row, issued>> \/ \E s \in Sessions : Move(s)
  BY <1>3, <1>4 DEF Claim, ClaimError, At
<1>5. ASSUME NEW w \in Workers, Renew(w) \/ Heartbeat(w)
      PROVE UNCHANGED <<row, issued>> \/ \E s \in Sessions : Move(s)
  BY <1>2, <1>5 DEF Renew, Heartbeat, At, LeaseAfterClaim
<1>6. ASSUME NEW w \in Workers, Complete(w) \/ LaterDbError(w)
      PROVE UNCHANGED <<row, issued>> \/ \E s \in Sessions : Move(s)
  BY <1>1, <1>6 DEF Complete, LaterDbError, At, LeaseAfterClaim
<1>7. ASSUME NEW f \in failing, ListenerWrite(f)
      PROVE UNCHANGED <<row, issued>> \/ \E s \in Sessions : Move(s)
  <2>1. f.job.session \in Sessions
    BY DEF TypeInv, TypeOK, Listener, JobIds
  <2> QED
    BY <1>7, <2>1 DEF ListenerWrite, CanFail, CanRelease, Move, FailMove, ReleaseMove
<1>8. ASSUME NEW x \in Sweeps, Flip(x)
      PROVE UNCHANGED <<row, issued>> \/ \E s \in Sessions : Move(s)
  <2> DEFINE s == sweep[x].at
  <2>1. s \in Sessions
    BY <1>8 DEF Flip, TypeInv, Busy
  <2>2. CASE ~ Stalled(row[s], s \in sweep[x].behind)
    BY <1>8, <2>2 DEF Flip
  <2>3. CASE Stalled(row[s], s \in sweep[x].behind) /\ GivesUp(x, s)
    <3>1. FailMove(s)
      BY <1>8, <2>3 DEF Flip, FailMove, Stalled, Write
    <3> QED
      BY <2>1, <3>1 DEF Move
  <2>4. CASE Stalled(row[s], s \in sweep[x].behind) /\ ~ GivesUp(x, s)
    <3>1. ReleaseMove(s)
      BY <1>8, <2>4 DEF Flip, ReleaseMove, Stalled, Write
    <3> QED
      BY <2>1, <3>1 DEF Move
  <2> QED
    BY <2>2, <2>3, <2>4
<1>9. ASSUME NEW s \in Sessions, LeaseExpires(s) \/ Wedge(s) \/ Uninstall(s)
      PROVE Move(s)
  BY <1>9 DEF LeaseExpires, Wedge, Uninstall, Quieten, Move, QuietMove, GoneMove
<1>10. ASSUME NEW w \in Workers,
              \/ Take(w) \/ Review(w) \/ PostComments(w) \/ PostSummary(w) \/ FindCheck(w)
              \/ WriteCheck(w) \/ Persist(w) \/ GithubError(w) \/ Crash(w) \/ FailStalled(w)
       PROVE UNCHANGED <<row, issued>>
  BY <1>10 DEF Take, FailStalled, Review, PostComments, PostSummary, FindCheck, WriteCheck, Persist,
               GithubError, Crash
<1>11. ASSUME NEW f \in failing, ListenerForget(f) PROVE UNCHANGED <<row, issued>>
  BY <1>11 DEF ListenerForget
<1>12. ASSUME NEW x \in Sweeps, Scan(x) \/ Requeue(x) \/ SweepError(x)
       PROVE UNCHANGED <<row, issued>>
  BY <1>12 DEF Scan, Requeue, SweepError
<1>13. ASSUME NEW j \in JobIds, Redeliver(j) \/ BackoffOver(j) PROVE UNCHANGED <<row, issued>>
  BY <1>13 DEF Redeliver, BackoffOver
<1>14. CASE UNCHANGED vars
  BY <1>14 DEF vars
<1> QED
  BY <1>4, <1>5, <1>6, <1>7, <1>8, <1>9, <1>10, <1>11, <1>12, <1>13, <1>14
  DEF Next, HandlerStep, ListenerStep, SweepStep

-----------------------------------------------------------------------------
(***************************************************************************)
(* Rows: coherent lease columns, final statuses, the life cycle.           *)
(***************************************************************************)
RowInv == TypeInv /\ LeaseAfterClaim /\ RowCoherent

\* A move keeps every row coherent.
LEMMA MoveCoherent ==
  ASSUME TypeInv, RowCoherent, NEW s \in Sessions, Move(s) PROVE RowCoherent'
<1>1. row \in [Sessions -> Row] /\ row[s] \in Row /\ issued + 1 # NoLease
  BY DEF TypeInv, TypeOK, NoLease
<1>2. SUFFICES ASSUME NEW r, Write(s, r),
                      /\ r.status = "RUNNING" <=> r.leaseId # NoLease
                      /\ r.status = "RUNNING" <=> r.heartbeatAt # "none"
               PROVE  RowCoherent'
  <2> USE DEF Row
  <2>1. CASE ClaimWrite(s)
    BY <1>1, <1>2, <2>1 DEF ClaimWrite, Claimed
  <2>2. CASE BeatMove(s)
    BY <1>1, <1>2, <2>2 DEF BeatMove, Renewed, RowCoherent
  <2>3. CASE CompleteMove(s)
    BY <1>1, <1>2, <2>3 DEF CompleteMove, Completed, Unowned
  <2>4. CASE QuietMove(s)
    BY <1>1, <1>2, <2>4 DEF QuietMove, RowCoherent
  <2>5. CASE ReleaseMove(s)
    BY <1>1, <1>2, <2>5 DEF ReleaseMove, Unowned
  <2>6. CASE FailMove(s)
    BY <1>1, <1>2, <2>6 DEF FailMove, Unowned
  <2>7. CASE GoneMove(s)
    BY <1>1, <1>2, <2>7 DEF GoneMove, Unowned
  <2> QED
    BY <2>1, <2>2, <2>3, <2>4, <2>5, <2>6, <2>7 DEF Move
<1> QED
  BY <1>1, <1>2 DEF Write, RowCoherent

LEMMA RowStep == RowInv /\ [Next]_vars => RowInv'
<1> SUFFICES ASSUME RowInv, [Next]_vars PROVE RowInv'
  OBVIOUS
<1>1. CASE UNCHANGED <<row, issued>>
  BY <1>1, TypeStep, LeaseAfterClaimStep DEF RowInv, RowCoherent
<1>2. CASE \E s \in Sessions : Move(s)
  BY <1>2, TypeStep, LeaseAfterClaimStep, MoveCoherent DEF RowInv
<1> QED
  BY <1>1, <1>2, RowMoves DEF RowInv

LEMMA RowInit == Init => RowInv
<1> SUFFICES ASSUME Init PROVE RowInv
  OBVIOUS
<1>1. LeaseAfterClaim
  BY DEF Init, LeaseAfterClaim, Idle
<1>2. RowCoherent
  BY DEF Init, RowCoherent, NewRow, NoLease
<1> QED
  BY <1>1, <1>2, TypeInit DEF RowInv

LEMMA RowAlways == Spec => []RowInv
BY RowInit, RowStep, PTL DEF Spec

\* The lease columns and the status of a row always agree.
THEOREM RowsCoherent == Spec => []RowCoherent
<1>1. RowInv => RowCoherent
  BY DEF RowInv
<1> QED
  BY <1>1, RowAlways, PTL

\* A settled row has no lease and no heartbeat for a late write to match.
LEMMA SettledRow ==
  ASSUME RowInv, [Next]_vars, NEW t \in Sessions, row[t].status \in Terminal
  PROVE  row'[t] = row[t] \/ row'[t].status = "GONE"
<1>1. row \in [Sessions -> Row] /\ row[t] \in Row
  BY DEF RowInv, TypeInv, TypeOK
<1>2. row[t].leaseId = NoLease /\ row[t].heartbeatAt = "none"
  BY DEF RowInv, RowCoherent, Terminal
<1>3. ASSUME NEW s \in Sessions, Move(s), s # t PROVE row'[t] = row[t]
  BY <1>1, <1>3 DEF Move, ClaimWrite, BeatMove, CompleteMove, QuietMove, ReleaseMove,
                    FailMove, GoneMove, Write
<1>4. ASSUME Move(t) PROVE row'[t].status = "GONE"
  <2>1. GoneMove(t)
    BY <1>2, <1>4 DEF Move, ClaimWrite, CanClaim, Claimable, Terminal, BeatMove, CompleteMove,
                      QuietMove, ReleaseMove, FailMove
  <2> QED
    BY <1>1, <2>1 DEF GoneMove, Write, Unowned, Row
<1> QED
  BY <1>3, <1>4, RowMoves DEF RowInv

\* COMPLETED and FAILED are final: no late write of any process undoes them.
\* completeSession and the heartbeat look at the lease only, so this rests on
\* RowCoherent.
THEOREM SettledStaysSettled == Spec => SettledForGood
<1>1. RowInv /\ [Next]_vars =>
        [\A s \in Sessions : row[s].status \in {"COMPLETED", "FAILED"}
           => row'[s] = row[s] \/ row'[s].status = "GONE"]_vars
  BY SettledRow DEF Terminal
<1> QED
  BY <1>1, RowAlways, PTL DEF Spec, SettledForGood

\* The pipeline implements the life cycle of ReviewSession.
THEOREM PipelineImplementsLifecycle == Spec => ImplementsLifecycle
<1> USE DEF Lifecycle!vars
<1>1. Init => Lifecycle!Init
  BY DEF Init, Lifecycle!Init, NewRow, NoLease
<1>2. ASSUME RowInv, [Next]_vars PROVE [Lifecycle!Next]_Lifecycle!vars
  <2>1. CASE UNCHANGED <<row, issued>>
    BY <2>1
  <2>2. ASSUME NEW s \in Sessions, Move(s) PROVE [Lifecycle!Next]_Lifecycle!vars
    <3>1. row \in [Sessions -> Row] /\ row[s] \in Row
      BY <1>2 DEF RowInv, TypeInv, TypeOK
    <3> USE DEF Row, Write
    <3>2. CASE ClaimWrite(s)
      <4>1. Lifecycle!Begin(s)
        BY <3>1, <3>2 DEF Lifecycle!Begin, ClaimWrite, CanClaim, Claimable, Claimed
      <4> QED
        BY <4>1 DEF Lifecycle!Next
    <3>3. CASE BeatMove(s) \/ QuietMove(s)
      BY <3>1, <3>3 DEF BeatMove, QuietMove, Renewed
    <3>4. CASE CompleteMove(s)
      <4>1. row[s].status = "RUNNING"
        BY <1>2, <3>4 DEF CompleteMove, RowInv, RowCoherent
      <4>2. Lifecycle!Finish(s)
        BY <3>1, <3>4, <4>1
        DEF Lifecycle!Finish, Lifecycle!Leave, CompleteMove, Completed, Unowned, NoLease
      <4> QED
        BY <4>2 DEF Lifecycle!Next
    <3>5. CASE ReleaseMove(s)
      <4>1. Lifecycle!GiveBack(s)
        BY <3>1, <3>5 DEF Lifecycle!GiveBack, Lifecycle!Leave, ReleaseMove, Unowned, NoLease
      <4> QED
        BY <4>1 DEF Lifecycle!Next
    <3>6. CASE FailMove(s)
      <4>1. Lifecycle!Abandon(s)
        BY <3>1, <3>6 DEF Lifecycle!Abandon, Lifecycle!Leave, FailMove, Claimable, Unowned, NoLease
      <4> QED
        BY <4>1 DEF Lifecycle!Next
    <3>7. CASE GoneMove(s)
      <4>1. Lifecycle!Remove(s)
        BY <3>1, <3>7 DEF Lifecycle!Remove, Lifecycle!Leave, GoneMove, Unowned, NoLease
      <4> QED
        BY <4>1 DEF Lifecycle!Next
    <3> QED
      BY <2>2, <3>2, <3>3, <3>4, <3>5, <3>6, <3>7 DEF Move
  <2> QED
    BY <1>2, <2>1, <2>2, RowMoves DEF RowInv
<1> QED
  BY <1>1, <1>2, RowAlways, PTL DEF Spec, Lifecycle!Spec, ImplementsLifecycle

-----------------------------------------------------------------------------
(***************************************************************************)
(* The sweep against everybody else.  A sweep reads the table once and     *)
(* writes much later; what it read is still true of every session whose    *)
(* conditional write can still land, because the only writes that would    *)
(* make it false (a claim, a heartbeat) also move the heartbeat past the   *)
(* sweep's cutoff.                                                         *)
(***************************************************************************)
Pending(x) == sweep[x].todo \cup {sweep[x].at}
SweepCurrent ==
  \A x \in Sweeps, s \in Sessions :
    s \in sweep[x].behind /\ row[s].status = "RUNNING" =>
      /\ row[s].heartbeatAt = "quiet"
      /\ s \in Pending(x) => sweep[x].seen[s] = row[s].attemptCount
SweepInv == RowInv /\ SweepCurrent

\* A move touches one row; it moves the heartbeat past every cutoff, or it
\* ends the attempt, or it lets a recent heartbeat go quiet.
LEMMA MoveEffect ==
  ASSUME TypeInv, NEW s \in Sessions, Move(s)
  PROVE  /\ \A t \in Sessions \ {s} : row'[t] = row[t]
         /\ Beat(s) \/ row'[s].status # "RUNNING" \/ QuietMove(s)
<1>1. row \in [Sessions -> Row] /\ row[s] \in Row
  BY DEF TypeInv, TypeOK
<1>2. \A t \in Sessions \ {s} : row'[t] = row[t]
  BY <1>1 DEF Move, ClaimWrite, BeatMove, CompleteMove, QuietMove, ReleaseMove, FailMove,
              GoneMove, Write
<1>3. CASE ClaimWrite(s) \/ BeatMove(s) \/ QuietMove(s)
  BY <1>2, <1>3 DEF ClaimWrite, BeatMove
<1>4. CASE CompleteMove(s)
  BY <1>1, <1>2, <1>4 DEF CompleteMove, Write, Completed, Unowned, Row
<1>5. CASE ReleaseMove(s) \/ FailMove(s) \/ GoneMove(s)
  BY <1>1, <1>2, <1>5 DEF ReleaseMove, FailMove, GoneMove, Write, Unowned, Row
<1> QED
  BY <1>3, <1>4, <1>5 DEF Move

\* What becomes of a sweep's variables in a step.
LEMMA SweepMoves ==
  ASSUME TypeInv, LeaseAfterClaim, [Next]_vars
  PROVE  \/ UNCHANGED sweep
         \/ \E s \in Sessions : ClaimWrite(s) \/ BeatMove(s)
         \/ \E x \in Sweeps : SweepStep(x) \/ SweepError(x)
<1>1. ASSUME NEW w \in Workers, Claim(w) \/ ClaimError(w)
      PROVE UNCHANGED sweep \/ \E s \in Sessions : ClaimWrite(s)
  BY <1>1, SessionType DEF Claim, ClaimError, At
<1>2. ASSUME NEW w \in Workers, Renew(w) \/ Heartbeat(w)
      PROVE UNCHANGED sweep \/ \E s \in Sessions : BeatMove(s)
  BY <1>2, SessionType DEF Renew, Heartbeat, At, LeaseAfterClaim, Holds, BeatMove
<1>3. ASSUME NEW w \in Workers,
             \/ Take(w) \/ Review(w) \/ PostComments(w) \/ PostSummary(w) \/ FindCheck(w)
             \/ WriteCheck(w) \/ Persist(w) \/ Complete(w)
             \/ LaterDbError(w) \/ GithubError(w) \/ Crash(w) \/ FailStalled(w)
      PROVE UNCHANGED sweep
  BY <1>3 DEF Take, FailStalled, Review, PostComments, PostSummary, FindCheck, WriteCheck, Persist,
              Complete, LaterDbError, GithubError, Crash
<1>4. CASE ListenerStep
  BY <1>4 DEF ListenerStep, ListenerWrite, ListenerForget
<1>5. ASSUME NEW s \in Sessions, LeaseExpires(s) \/ Wedge(s) \/ Uninstall(s)
      PROVE UNCHANGED sweep
  BY <1>5 DEF LeaseExpires, Wedge, Uninstall, Quieten
<1>6. ASSUME NEW j \in JobIds, Redeliver(j) \/ BackoffOver(j) PROVE UNCHANGED sweep
  BY <1>6 DEF Redeliver, BackoffOver
<1>7. CASE UNCHANGED vars
  BY <1>7 DEF vars
<1> QED
  BY <1>1, <1>2, <1>3, <1>4, <1>5, <1>6, <1>7 DEF Next, HandlerStep

\* A step of the sweep itself: it reads the table, or its work only shrinks.
LEMMA SweepShrinks ==
  ASSUME TypeInv, NEW x \in Sweeps, Requeue(x) \/ Flip(x) \/ SweepError(x)
  PROVE  \A y \in Sweeps :
           /\ sweep'[y].behind \subseteq sweep[y].behind
           /\ sweep'[y].behind # {} => sweep'[y].seen = sweep[y].seen
           /\ Pending(y)' \cap Sessions \subseteq Pending(y)
<1>1. sweep \in [Sweeps -> Sweep] /\ sweep[x] \in Sweep
  BY DEF TypeInv, TypeOK
<1>2. IdleSweep.behind = {} /\ IdleSweep.todo = {} /\ IdleSweep.at \notin Sessions
  BY ConstantsAssumption DEF IdleSweep
<1>3. CASE SweepError(x)
  BY <1>1, <1>2, <1>3 DEF SweepError, Pending
<1>4. CASE Requeue(x)
  <2>1. PICK s \in sweep[x].todo : sweep' = [sweep EXCEPT ![x] =
                     [sweep[x] EXCEPT !.pc = "flip", !.at = s, !.todo = @ \ {s}]]
    BY <1>4 DEF Requeue
  <2> DEFINE next == [sweep[x] EXCEPT !.pc = "flip", !.at = s, !.todo = @ \ {s}]
  <2>2. /\ next.behind = sweep[x].behind
        /\ next.seen = sweep[x].seen
        /\ next.todo \cup {next.at} \subseteq sweep[x].todo
    BY <1>1 DEF Sweep
  <2>3. sweep' = [sweep EXCEPT ![x] = next]
    BY <2>1
  <2> HIDE DEF next
  <2> QED
    BY <1>1, <2>2, <2>3 DEF Pending
<1>5. CASE Flip(x)
  <2> DEFINE next == [sweep[x] EXCEPT !.pc = "loop", !.at = NoSession]
  <2>1. /\ next.behind = sweep[x].behind
        /\ next.seen = sweep[x].seen
        /\ next.todo = sweep[x].todo
        /\ next.at \notin Sessions
    BY <1>1, ConstantsAssumption DEF Sweep
  <2>2. sweep' = [sweep EXCEPT ![x] = IF sweep[x].todo = {} THEN IdleSweep ELSE next]
    BY <1>5 DEF Flip
  <2> HIDE DEF next
  <2> QED
    BY <1>1, <1>2, <2>1, <2>2 DEF Pending
<1> QED
  BY <1>3, <1>4, <1>5

LEMMA SweepInvStep == SweepInv /\ [Next]_vars => SweepInv'
<1> SUFFICES ASSUME SweepInv, [Next]_vars PROVE SweepCurrent'
  BY RowStep DEF SweepInv
<1>1. TypeInv /\ LeaseAfterClaim /\ SweepCurrent
  BY DEF SweepInv, RowInv
<1>2. sweep \in [Sweeps -> Sweep] /\ row \in [Sessions -> Row]
  BY <1>1 DEF TypeInv, TypeOK
\* The rows move while the sweeps stand still or see the heartbeat go by.
<1>3. ASSUME NEW s \in Sessions, Move(s), UNCHANGED sweep \/ Beat(s) PROVE SweepCurrent'
  <2>1. \A y \in Sweeps : /\ sweep'[y].behind \subseteq sweep[y].behind
                          /\ sweep'[y].seen = sweep[y].seen
                          /\ Pending(y)' = Pending(y)
                          /\ Beat(s) => s \notin sweep'[y].behind
    <3>1. CASE UNCHANGED sweep /\ ~ Beat(s)
      BY <3>1 DEF Pending
    <3>2. CASE Beat(s)
      <4>1. ASSUME NEW y \in Sweeps
            PROVE  /\ sweep'[y].behind = sweep[y].behind \ {s}
                   /\ sweep'[y].seen = sweep[y].seen
                   /\ sweep'[y].todo = sweep[y].todo
                   /\ sweep'[y].at = sweep[y].at
        <5>1. sweep[y] \in Sweep /\ sweep'[y] = [sweep[y] EXCEPT !.behind = @ \ {s}]
          BY <1>2, <3>2 DEF Beat
        <5> QED
          BY <5>1 DEF Sweep
      <4> QED
        BY <4>1 DEF Pending
    <3> QED
      BY <1>3, <3>1, <3>2
  <2>2. \A t \in Sessions \ {s} : row'[t] = row[t]
    BY <1>1, <1>3, MoveEffect
  <2>3. CASE Beat(s) \/ row'[s].status # "RUNNING"
    BY <1>1, <2>1, <2>2, <2>3 DEF SweepCurrent
  <2>4. CASE QuietMove(s)
    <3>1. /\ row[s].heartbeatAt = "recent"
          /\ row'[s].status = row[s].status
      BY <1>2, <2>4 DEF QuietMove, Write, Row
    <3> QED
      BY <1>1, <2>1, <2>2, <3>1 DEF SweepCurrent
  <2> QED
    BY <1>1, <1>3, <2>3, <2>4, MoveEffect
<1>4. ASSUME NEW x \in Sweeps, Scan(x) PROVE SweepCurrent'
  <2> DEFINE new == [pc |-> "loop", todo |-> {s \in Sessions : IsStalled(s)}, at |-> NoSession,
                     seen |-> [s \in Sessions |-> IF IsStalled(s) THEN row[s].attemptCount ELSE 0],
                     behind |-> {s \in Sessions : row[s].heartbeatAt = "quiet"}]
  <2>1. sweep' = [sweep EXCEPT ![x] = new] /\ UNCHANGED row
    BY <1>4 DEF Scan
  <2>2. \A s \in Sessions : /\ s \in new.behind => row[s].heartbeatAt = "quiet"
                            /\ s \in new.todo \cup {new.at} => new.seen[s] = row[s].attemptCount
    BY ConstantsAssumption
  <2> HIDE DEF new
  <2> QED
    BY <1>1, <1>2, <2>1, <2>2 DEF SweepCurrent, Pending
<1>5. ASSUME NEW x \in Sweeps, Requeue(x) \/ Flip(x) \/ SweepError(x) PROVE SweepCurrent'
  <2>1. \A t \in Sessions : row'[t] = row[t] \/ row'[t].status # "RUNNING"
    <3>1. CASE Requeue(x) \/ SweepError(x)
      BY <3>1 DEF Requeue, SweepError
    <3>2. CASE Flip(x)
      BY <1>2, <3>2 DEF Flip, Unowned, Row
    <3> QED
      BY <1>5, <3>1, <3>2
  <2> QED
    BY <1>1, <1>5, <2>1, SweepShrinks DEF SweepCurrent
<1>6. ASSUME UNCHANGED sweep PROVE SweepCurrent'
  <2>1. CASE UNCHANGED <<row, issued>>
    BY <1>1, <1>6, <2>1 DEF SweepCurrent, Pending
  <2> QED
    BY <1>1, <1>3, <1>6, <2>1, RowMoves
<1>7. ASSUME NEW s \in Sessions, ClaimWrite(s) \/ BeatMove(s) PROVE SweepCurrent'
  BY <1>3, <1>7 DEF Move, ClaimWrite, BeatMove
<1> QED
  BY <1>1, <1>4, <1>5, <1>6, <1>7, SweepMoves DEF SweepStep

LEMMA SweepAlways == Spec => []SweepInv
<1>1. Init => SweepInv
  BY RowInit DEF Init, SweepInv, SweepCurrent, IdleSweep
<1> QED
  BY <1>1, SweepInvStep, PTL DEF Spec

\* Whenever a sweep's conditional write can land, the attempt count it read
\* is still the row's.
THEOREM SweepsDecideOnCurrentRow == Spec => []SweepDecidesOnCurrentRow
<1>1. SweepInv => SweepDecidesOnCurrentRow
  BY DEF SweepInv, RowInv, RowCoherent, SweepCurrent, SweepDecidesOnCurrentRow, Stalled, Pending
<1> QED
  BY <1>1, SweepAlways, PTL

\* Nobody takes a lease from an attempt but that attempt, a sweep that is
\* right about it, a last attempt without a lease, or the deletion of the row.
THEOREM LeasesEndByRight == Spec => LeaseEndsByRight
<1> DEFINE Right(s) ==
       LET l == row[s].leaseId IN
       l # NoLease /\ row'[s].leaseId # l =>
         \/ \E w \in Workers : At(w, "complete") /\ LeaseOf(w) = l /\ handler'[w] = Idle
         \/ \E f \in failing \ failing' : f.lease = l \/ (f.lease = NoLease /\ f.last)
         \/ \E x \in Sweeps : /\ sweep[x].at = s /\ sweep'[x].at # s
                              /\ sweep[x].seen[s] = row[s].attemptCount
                              /\ row[s].heartbeatAt = "quiet"
         \/ row'[s].status = "GONE"
<1>1. ASSUME SweepInv, [Next]_vars, NEW s \in Sessions PROVE Right(s)
  <2> SUFFICES ASSUME row[s].leaseId # NoLease, row'[s].leaseId # row[s].leaseId
               PROVE  Right(s)
    OBVIOUS
  <2>1. /\ TypeInv /\ LeaseAfterClaim /\ RowCoherent
        /\ row \in [Sessions -> Row] /\ row[s].status = "RUNNING"
    BY <1>1 DEF SweepInv, RowInv, TypeInv, TypeOK, RowCoherent
  <2>2. ASSUME NEW w \in Workers, ClaimWrite(SessionOf(w)) PROVE FALSE
    BY <2>1, <2>2 DEF ClaimWrite, CanClaim, Claimable, Write
  <2>3. ASSUME NEW t, Write(t, Renewed(row[t])) PROVE FALSE
    BY <2>1, <2>3 DEF Write, Renewed, Row
  <2>4. ASSUME NEW t, Quieten(t) PROVE FALSE
    BY <2>1, <2>4 DEF Quieten, Write, Row
  <2>5. ASSUME NEW w \in Workers, CompleteWrite(w), At(w, "complete"), handler' = [handler EXCEPT ![w] = Idle]
        PROVE Right(s)
    <3>1. SessionOf(w) = s
      BY <2>1, <2>5 DEF CompleteWrite, Write
    <3>2. LeaseOf(w) = row[s].leaseId
      BY <2>5, <3>1 DEF CompleteWrite, Holds
    <3>3. handler'[w] = Idle
      BY <2>1, <2>5 DEF TypeInv, TypeOK
    <3> QED
      BY <2>5, <3>2, <3>3
  <2>6. ASSUME NEW f \in failing, ListenerWrite(f) PROVE Right(s)
    <3>1. f.job.session = s
      BY <2>1, <2>6 DEF ListenerWrite, Write
    <3>2. f.lease = row[s].leaseId \/ (f.lease = NoLease /\ f.last)
      BY <2>6, <3>1 DEF ListenerWrite, CanFail, CanRelease
    <3>3. f \notin failing'
      <4>1. f \in Listener /\ f.pc = "write"
        BY <2>1, <2>6 DEF ListenerWrite, TypeInv, TypeOK
      <4>2. [f EXCEPT !.pc = "forget"] # f
        BY <4>1 DEF Listener
      <4> QED
        BY <2>6, <4>2 DEF ListenerWrite
    <3> QED
      BY <3>2, <3>3
  <2>7. ASSUME NEW x \in Sweeps, Flip(x) PROVE Right(s)
    <3>1. sweep[x].at = s /\ Stalled(row[s], s \in sweep[x].behind)
      BY <2>1, <2>7 DEF Flip
    <3>2. s \in sweep[x].behind
      BY <2>1, <3>1 DEF Stalled, RowCoherent
    <3>3. sweep[x].seen[s] = row[s].attemptCount /\ row[s].heartbeatAt = "quiet"
      BY <1>1, <2>1, <3>1, <3>2 DEF SweepInv, SweepCurrent, Pending
    <3>4. sweep'[x].at # s
      BY <2>1, <2>7, ConstantsAssumption DEF Flip, IdleSweep, TypeInv, TypeOK, Sweep
    <3> QED
      BY <3>1, <3>3, <3>4
  <2>8. ASSUME NEW t \in Sessions, Uninstall(t) PROVE Right(s)
    BY <2>1, <2>8 DEF Uninstall, Write, Unowned, Row
  <2>9. ASSUME NEW w \in Workers, HandlerStep(w) PROVE Right(s)
    BY <2>2, <2>3, <2>5, <2>9
    DEF HandlerStep, Claim, Review, Renew, PostComments, PostSummary, FindCheck, WriteCheck,
        Persist, Complete, Return
  <2>10. ASSUME NEW w \in Workers, ClaimError(w) \/ LaterDbError(w) PROVE Right(s)
    BY <2>2, <2>5, <2>10 DEF ClaimError, LaterDbError, Throw
  <2>11. ASSUME NEW w \in Workers,
                Take(w) \/ FailStalled(w) \/ Heartbeat(w) \/ Crash(w) \/ GithubError(w)
         PROVE Right(s)
    BY <2>3, <2>11 DEF Take, FailStalled, Heartbeat, Crash, GithubError
  <2>12. CASE ListenerStep
    BY <2>6, <2>12 DEF ListenerStep, ListenerForget
  <2>13. ASSUME NEW x \in Sweeps, SweepStep(x) \/ SweepError(x) PROVE Right(s)
    BY <2>7, <2>13 DEF SweepStep, Scan, Requeue, SweepError
  <2>14. ASSUME NEW t \in Sessions, LeaseExpires(t) \/ Wedge(t) PROVE Right(s)
    BY <2>4, <2>14 DEF LeaseExpires, Wedge
  <2>15. ASSUME NEW j \in JobIds, Redeliver(j) \/ BackoffOver(j) PROVE Right(s)
    BY <2>15 DEF Redeliver, BackoffOver
  <2> QED
    BY <1>1, <2>8, <2>9, <2>10, <2>11, <2>12, <2>13, <2>14, <2>15 DEF Next, vars
<1>2. SweepInv /\ [Next]_vars => [\A s \in Sessions : Right(s)]_vars
  BY <1>1
<1> QED
  BY <1>2, SweepAlways, PTL DEF Spec, LeaseEndsByRight

-----------------------------------------------------------------------------
(***************************************************************************)
(* The queue.  A step books a failed attempt (a handler throws, or a job   *)
(* stalled too often), or it leaves the jobs' counts and the listeners'    *)
(* reasons alone.                                                          *)
(***************************************************************************)
Books(w, j) == /\ handler'[w] = Idle
               /\ jobs[j].state \in {"active", "waiting"}
               /\ \E final \in BOOLEAN : FailAttempt(w, j, final)
BookMove == \E w \in Workers, j \in JobIds : Books(w, j)
QuietQueue ==
  /\ \A j \in JobIds :
       /\ jobs[j].state # "absent" => /\ jobs'[j].state # "absent"
                                      /\ jobs'[j].attemptsMade = jobs[j].attemptsMade
       /\ jobs[j].state = "failed" => jobs'[j].state = "failed"
  /\ \A f \in failing' : \/ f \in failing
                         \/ /\ f.pc = "forget"
                            /\ \E g \in failing : f.job = g.job /\ f.last = g.last
                                                  /\ f.lease = g.lease

LEMMA QuietWithoutChange == UNCHANGED <<jobs, failing>> => QuietQueue
BY DEF QuietQueue

LEMMA QuietSetJob ==
  ASSUME TypeInv, NEW j \in JobIds, jobs[j].state \notin {"absent", "failed"},
         NEW st \in {"waiting", "active", "delayed", "completed", "failed"},
         NEW o, SetJob(j, st, o), UNCHANGED failing
  PROVE  QuietQueue
<1>1. jobs \in [JobIds -> Job] /\ jobs[j] \in Job
  BY DEF TypeInv, TypeOK
<1>2. /\ jobs'[j].state = st
      /\ jobs'[j].attemptsMade = jobs[j].attemptsMade
      /\ \A k \in JobIds : k # j => jobs'[k] = jobs[k]
  BY <1>1 DEF SetJob, Job
<1> QED
  BY <1>1, <1>2 DEF QuietQueue

LEMMA QuietReturn ==
  ASSUME TypeInv, NEW w \in Workers, handler[w].pc # "idle", Return(w), UNCHANGED failing
  PROVE  QuietQueue
<1>1. JobOf(w) \in JobIds
  BY SessionType
<1>2. CASE OwnsJob(w)
  BY <1>1, <1>2, QuietSetJob DEF Return, OwnsJob
<1>3. CASE ~ OwnsJob(w)
  BY <1>3, QuietWithoutChange DEF Return
<1> QED
  BY <1>2, <1>3

\* A handler that throws books an attempt, unless it lost its job.
LEMMA ThrowBooks ==
  ASSUME TypeInv, NEW w \in Workers, handler[w].pc # "idle", Throw(w)
  PROVE  /\ handler'[w] = Idle
         /\ JobOf(w) \in JobIds
         /\ UNCHANGED <<jobs, failing>> \/ Books(w, JobOf(w))
<1>1. JobOf(w) \in JobIds
  BY SessionType
<1>2. handler'[w] = Idle
  BY DEF Throw, TypeInv, TypeOK
<1>3. UNCHANGED <<jobs, failing>>
        \/ (jobs[JobOf(w)].state = "active" /\ FailAttempt(w, JobOf(w), FALSE))
  BY DEF Throw, OwnsJob
<1> QED
  BY <1>1, <1>2, <1>3 DEF Books

LEMMA StalledBooks ==
  ASSUME NEW w \in Workers, FailStalled(w)
  PROVE  \E j \in JobIds : Books(w, j)
BY DEF FailStalled, Books

LEMMA QueueMoves ==
  ASSUME TypeInv, [Next]_vars
  PROVE  BookMove \/ QuietQueue
<1>1. ASSUME NEW w \in Workers, Take(w) PROVE QuietQueue
  <2>1. PICK j \in JobIds : jobs[j].state = "waiting" /\ SetJob(j, "active", w)
    BY <1>1 DEF Take
  <2> QED
    BY <1>1, <2>1, QuietSetJob DEF Take
<1>2. ASSUME NEW w \in Workers, Claim(w) \/ Renew(w) \/ Complete(w) PROVE QuietQueue
  <2>1. handler[w].pc # "idle" /\ UNCHANGED failing
    BY <1>2 DEF Claim, Renew, Complete, At
  <2>2. UNCHANGED jobs \/ Return(w)
    BY <1>2 DEF Claim, Renew, Complete
  <2> QED
    BY <2>1, <2>2, QuietReturn, QuietWithoutChange
<1>3. ASSUME NEW w \in Workers, Review(w) \/ Persist(w) \/ ClaimError(w) \/ LaterDbError(w)
      PROVE BookMove \/ QuietQueue
  <2>1. handler[w].pc # "idle"
    BY <1>3 DEF Review, Persist, ClaimError, LaterDbError, At
  <2>2. Throw(w) \/ UNCHANGED <<jobs, failing>>
    BY <1>3 DEF Review, Persist, ClaimError, LaterDbError
  <2> QED
    BY <2>1, <2>2, ThrowBooks, QuietWithoutChange DEF BookMove
<1>4. ASSUME NEW w \in Workers,
             \/ PostComments(w) \/ PostSummary(w) \/ FindCheck(w) \/ WriteCheck(w)
             \/ GithubError(w) \/ Heartbeat(w)
      PROVE QuietQueue
  BY <1>4, QuietWithoutChange
  DEF PostComments, PostSummary, FindCheck, WriteCheck, GithubError, Heartbeat
<1>5. ASSUME NEW w \in Workers, Crash(w) PROVE QuietQueue
  <2>1. \A j \in JobIds : jobs[j] \in Job
    BY DEF TypeInv, TypeOK
  <2>2. \A j \in JobIds : /\ jobs'[j].state = jobs[j].state
                          /\ jobs'[j].attemptsMade = jobs[j].attemptsMade
    BY <1>5, <2>1 DEF Crash, Job
  <2>3. failing' \subseteq failing
    BY <1>5 DEF Crash
  <2> QED
    BY <2>2, <2>3 DEF QuietQueue
<1>6. ASSUME NEW f \in failing, ListenerWrite(f) \/ ListenerForget(f) PROVE QuietQueue
  <2>1. f \in Listener
    BY DEF TypeInv, TypeOK
  <2>2. CASE ListenerWrite(f)
    <3> DEFINE g == [f EXCEPT !.pc = "forget"]
    <3>1. g.pc = "forget" /\ g.job = f.job /\ g.last = f.last /\ g.lease = f.lease
      BY <2>1 DEF Listener
    <3>2. failing' = (failing \ {f}) \cup {g} /\ UNCHANGED jobs
      BY <2>2 DEF ListenerWrite
    <3> HIDE DEF g
    <3> QED
      BY <3>1, <3>2 DEF QuietQueue
  <2>3. CASE ListenerForget(f)
    BY <2>3 DEF ListenerForget, QuietQueue
  <2> QED
    BY <1>6, <2>2, <2>3
<1>7. ASSUME NEW x \in Sweeps, Scan(x) \/ Flip(x) \/ SweepError(x) PROVE QuietQueue
  BY <1>7, QuietWithoutChange DEF Scan, Flip, SweepError
<1>8. ASSUME NEW x \in Sweeps, Requeue(x) PROVE QuietQueue
  <2>1. UNCHANGED failing
    BY <1>8 DEF Requeue
  <2>2. \A j \in JobIds : jobs[j].state # "absent" => jobs'[j] = jobs[j]
    BY <1>8 DEF Requeue, TypeInv, TypeOK
  <2> QED
    BY <2>1, <2>2 DEF QuietQueue
<1>9. ASSUME NEW s \in Sessions, LeaseExpires(s) \/ Wedge(s) \/ Uninstall(s) PROVE QuietQueue
  BY <1>9, QuietWithoutChange DEF LeaseExpires, Wedge, Uninstall, Quieten
<1>10. ASSUME NEW j \in JobIds, BackoffOver(j) PROVE QuietQueue
  BY <1>10, QuietSetJob DEF BackoffOver
<1>11. ASSUME NEW j \in JobIds, Redeliver(j) PROVE QuietQueue
  <2>1. jobs[j].state = "active" /\ UNCHANGED failing
    BY <1>11 DEF Redeliver
  <2>2. jobs \in [JobIds -> Job] /\ jobs[j] \in Job
    BY DEF TypeInv, TypeOK
  <2>3. /\ jobs'[j].state = "waiting"
        /\ jobs'[j].attemptsMade = jobs[j].attemptsMade
        /\ \A k \in JobIds : k # j => jobs'[k] = jobs[k]
    BY <1>11, <2>2 DEF Redeliver, Job
  <2> QED
    BY <2>1, <2>3 DEF QuietQueue
<1>12. ASSUME NEW w \in Workers, FailStalled(w) PROVE BookMove
  BY <1>12, StalledBooks DEF BookMove
<1>13. CASE UNCHANGED vars
  BY <1>13, QuietWithoutChange DEF vars
<1> QED
  BY <1>1, <1>2, <1>3, <1>4, <1>5, <1>6, <1>7, <1>8, <1>9, <1>10, <1>11, <1>12, <1>13
  DEF Next, HandlerStep, ListenerStep, SweepStep

\* What a failed attempt leaves.
LEMMA BookEffect ==
  ASSUME TypeInv, NEW w \in Workers, NEW j \in JobIds, Books(w, j)
  PROVE  LET made == jobs[j].attemptsMade + 1
             last == made >= Attempts(j)
             f == [worker |-> w, job |-> j, lease |-> held[w][j], last |-> last, pc |-> "write"]
         IN  /\ \A k \in JobIds \ {j} : jobs'[k] = jobs[k]
             /\ jobs[j].state \notin {"absent", "failed", "delayed"}
             /\ jobs'[j].state \in {"failed", "delayed"}
             /\ last => jobs'[j].state = "failed"
             /\ jobs'[j].attemptsMade = made
             /\ failing' = failing \cup {f}
<1>1. PICK final \in BOOLEAN : FailAttempt(w, j, final)
  BY DEF Books
<1>2. jobs \in [JobIds -> Job] /\ jobs[j].state \in {"active", "waiting"}
  BY DEF TypeInv, TypeOK, Books
<1> QED
  BY <1>1, <1>2 DEF FailAttempt

\* A listener that speaks the last word belongs to a job that failed; only
\* the server's job has attempts to spare.
QueueInv ==
  /\ \A j \in JobIds : j.nth = 0 => jobs[j].state # "absent"
  /\ \A f \in failing : /\ f.last => jobs[f.job].state = "failed"
                        /\ ~ f.last => f.job.nth = 0

LEMMA QueueInvStep == TypeInv /\ QueueInv /\ [Next]_vars => QueueInv'
<1> SUFFICES ASSUME TypeInv, QueueInv, [Next]_vars PROVE QueueInv'
  OBVIOUS
<1>1. \A f \in failing : f.job \in JobIds
  BY DEF TypeInv, TypeOK, Listener
<1>2. CASE QuietQueue
  BY <1>1, <1>2 DEF QuietQueue, QueueInv
<1>3. CASE BookMove
  <2>1. PICK w \in Workers, j \in JobIds : Books(w, j)
    BY <1>3 DEF BookMove
  <2> DEFINE made == jobs[j].attemptsMade + 1
             last == made >= Attempts(j)
             f == [worker |-> w, job |-> j, lease |-> held[w][j], last |-> last, pc |-> "write"]
  <2>2. /\ \A k \in JobIds \ {j} : jobs'[k] = jobs[k]
        /\ jobs[j].state \notin {"absent", "failed", "delayed"}
        /\ jobs'[j].state \in {"failed", "delayed"}
        /\ last => jobs'[j].state = "failed"
        /\ failing' = failing \cup {f}
    BY <2>1, BookEffect
  <2>3. j.nth # 0 => last
    BY DEF Attempts, TypeInv, TypeOK, Job
  <2>4. f.job = j /\ f.last = last
    OBVIOUS
  <2> HIDE DEF f, last, made
  <2> QED
    BY <1>1, <2>2, <2>3, <2>4 DEF QueueInv
<1> QED
  BY <1>2, <1>3, QueueMoves

LEMMA QueueInvInit == Init => QueueInv
BY DEF Init, QueueInv, NewJob

-----------------------------------------------------------------------------
(***************************************************************************)
(* FAILED is the last word only of something that was exhausted.           *)
(***************************************************************************)
FailureInv == SweepInv /\ QueueInv /\ FailedOnlyWhenExhausted

\* Who changes the status of a session, and to what.
StatusMove(s) ==
  \/ row'[s] = Claimed(row[s], issued + 1)
  \/ \E f \in failing :
       /\ ListenerWrite(f) /\ f.job.session = s
       /\ \/ f.last /\ row'[s] = Unowned(row[s], "FAILED")
          \/ /\ ~ f.last /\ f.lease # NoLease /\ CanRelease(row[s], f.lease)
             /\ row'[s] = Unowned(row[s], "RETRYING")
  \/ \E x \in Sweeps :
       /\ sweep[x].at = s /\ sweep[x].pc = "flip"
       /\ Stalled(row[s], s \in sweep[x].behind)
       /\ row'[s] = Unowned(row[s], IF GivesUp(x, s) THEN "FAILED" ELSE "RETRYING")
  \/ \E w \in Workers :
       /\ handler[w].pc = "complete" /\ SessionOf(w) = s
       /\ Holds(row[s], LeaseOf(w)) /\ LeaseOf(w) # NoLease
       /\ row'[s] = Completed(row[s], LeaseOf(w))
  \/ row'[s] = Unowned(row[s], "GONE")

LEMMA StatusMoves ==
  ASSUME RowInv, [Next]_vars, NEW s \in Sessions, row'[s].status # row[s].status
  PROVE  StatusMove(s)
<1>1. TypeInv /\ LeaseAfterClaim /\ row \in [Sessions -> Row] /\ row[s] \in Row
  BY DEF RowInv, TypeInv, TypeOK
<1>changed. row'[s].status # row[s].status
  OBVIOUS
<1>2. ASSUME NEW w \in Workers, At(w, "complete"), CompleteWrite(w) PROVE StatusMove(s)
  <2>1. SessionOf(w) = s
    BY <1>1, <1>2, <1>changed DEF CompleteWrite, Write
  <2>2. row'[s] = Completed(row[s], LeaseOf(w)) /\ Holds(row[s], LeaseOf(w))
    BY <1>1, <1>2, <2>1 DEF CompleteWrite, Write
  <2>3. handler[w].pc = "complete" /\ LeaseOf(w) # NoLease
    BY <1>1, <1>2 DEF At, LeaseAfterClaim
  <2> QED
    BY <2>1, <2>2, <2>3 DEF StatusMove
<1>3. ASSUME NEW t, Write(t, Renewed(row[t])) PROVE FALSE
  <2>1. t = s /\ row'[s] = Renewed(row[s])
    BY <1>1, <1>3, <1>changed DEF Write
  <2> QED
    BY <1>1, <1>changed, <2>1 DEF Renewed, Row
<1>4. ASSUME NEW t, Quieten(t) PROVE FALSE
  <2>1. t = s /\ row'[s] = [row[s] EXCEPT !.heartbeatAt = "quiet"]
    BY <1>1, <1>4, <1>changed DEF Quieten, Write
  <2> QED
    BY <1>1, <1>changed, <2>1 DEF Row
<1>5. ASSUME NEW t, ClaimWrite(t) PROVE StatusMove(s)
  BY <1>1, <1>5, <1>changed DEF ClaimWrite, Write, StatusMove
<1>6. ASSUME NEW f \in failing, ListenerWrite(f) PROVE StatusMove(s)
  <2>1. f.job.session = s
    BY <1>1, <1>6, <1>changed DEF ListenerWrite, Write
  <2>2. \/ f.last /\ row'[s] = Unowned(row[s], "FAILED")
        \/ /\ ~ f.last /\ f.lease # NoLease /\ CanRelease(row[s], f.lease)
           /\ row'[s] = Unowned(row[s], "RETRYING")
    BY <1>1, <1>6, <1>changed, <2>1 DEF ListenerWrite, Write
  <2> QED
    BY <1>6, <2>1, <2>2 DEF StatusMove
<1>7. ASSUME NEW x \in Sweeps, Flip(x) PROVE StatusMove(s)
  <2>1. /\ sweep[x].at = s /\ sweep[x].pc = "flip"
        /\ Stalled(row[s], s \in sweep[x].behind)
        /\ row'[s] = Unowned(row[s], IF GivesUp(x, s) THEN "FAILED" ELSE "RETRYING")
    BY <1>1, <1>7, <1>changed DEF Flip
  <2> QED
    BY <2>1 DEF StatusMove
<1>8. ASSUME NEW t, Uninstall(t) PROVE StatusMove(s)
  BY <1>1, <1>8, <1>changed DEF Uninstall, Write, StatusMove
<1>9. ASSUME NEW w \in Workers, HandlerStep(w) \/ ClaimError(w) \/ LaterDbError(w) PROVE StatusMove(s)
  BY <1>2, <1>3, <1>5, <1>9, <1>changed
  DEF HandlerStep, ClaimError, LaterDbError, Claim, Review, Renew, PostComments, PostSummary,
      FindCheck, WriteCheck, Persist, Complete
<1>10. ASSUME NEW w \in Workers,
              Take(w) \/ FailStalled(w) \/ Heartbeat(w) \/ Crash(w) \/ GithubError(w)
       PROVE FALSE
  BY <1>3, <1>10, <1>changed DEF Take, FailStalled, Heartbeat, Crash, GithubError
<1>11. ASSUME NEW t \in Sessions, LeaseExpires(t) \/ Wedge(t) \/ Uninstall(t) PROVE StatusMove(s)
  BY <1>4, <1>8, <1>11 DEF LeaseExpires, Wedge
<1> QED
  BY <1>6, <1>7, <1>9, <1>10, <1>11, <1>changed
  DEF Next, ListenerStep, ListenerForget, SweepStep, Scan, Requeue, SweepError, Redeliver,
      BackoffOver, vars

\* Who sets FAILED: a listener's last word, or a sweep that gives up.
LEMMA FailReason ==
  ASSUME SweepInv, QueueInv, [Next]_vars, NEW s \in Sessions,
         row[s].status # "FAILED", row'[s].status = "FAILED"
  PROVE  \/ \E j \in JobIds : j.session = s /\ jobs'[j].state = "failed"
         \/ row'[s].attemptCount >= MaxAttempts
         \/ s \in NoBaseSha
<1>1. RowInv /\ row[s] \in Row /\ row'[s].status # row[s].status
  BY DEF SweepInv, RowInv, TypeInv, TypeOK
<1>2. /\ Claimed(row[s], issued + 1).status # "FAILED"
      /\ \A l : Completed(row[s], l).status # "FAILED"
      /\ \A st : /\ Unowned(row[s], st).status = st
                 /\ Unowned(row[s], st).attemptCount = row[s].attemptCount
  BY <1>1 DEF Claimed, Completed, Unowned, Row
<1>3. CASE \E f \in failing : ListenerWrite(f) /\ f.job.session = s /\ f.last
  <2>1. PICK f \in failing : ListenerWrite(f) /\ f.job.session = s /\ f.last
    BY <1>3
  <2>2. f.job \in JobIds /\ jobs'[f.job].state = "failed"
    BY <1>1, <2>1 DEF ListenerWrite, QueueInv, RowInv, TypeInv, TypeOK, Listener
  <2> QED
    BY <2>1, <2>2
<1>4. ASSUME NEW x \in Sweeps, sweep[x].at = s, Stalled(row[s], s \in sweep[x].behind),
             row'[s] = Unowned(row[s], IF GivesUp(x, s) THEN "FAILED" ELSE "RETRYING")
      PROVE  row'[s].attemptCount >= MaxAttempts \/ s \in NoBaseSha
  <2>1. GivesUp(x, s) /\ row'[s].attemptCount = row[s].attemptCount
    BY <1>2, <1>4
  <2>2. sweep[x].seen[s] = row[s].attemptCount
    BY <1>4 DEF SweepInv, RowInv, RowCoherent, SweepCurrent, Stalled, Pending
  <2> QED
    BY <2>1, <2>2 DEF GivesUp
<1> QED
  BY <1>1, <1>2, <1>3, <1>4, StatusMoves DEF StatusMove

LEMMA FailureStep == FailureInv /\ [Next]_vars => FailureInv'
<1> SUFFICES ASSUME FailureInv, [Next]_vars PROVE FailureInv'
  OBVIOUS
<1>1. SweepInv /\ QueueInv /\ FailedOnlyWhenExhausted /\ TypeInv /\ RowInv
  BY DEF FailureInv, SweepInv, RowInv
<1>2. SweepInv' /\ QueueInv'
  BY <1>1, SweepInvStep, QueueInvStep
\* A failed job stays failed.
<1>3. ASSUME NEW j \in JobIds, jobs[j].state = "failed" PROVE jobs'[j].state = "failed"
  <2>1. CASE QuietQueue
    BY <1>3, <2>1 DEF QuietQueue
  <2>2. CASE BookMove
    <3>1. PICK w \in Workers, i \in JobIds : Books(w, i)
      BY <2>2 DEF BookMove
    <3>2. jobs'[j] = jobs[j]
      BY <1>1, <1>3, <3>1, BookEffect
    <3> QED
      BY <1>3, <3>2
  <2> QED
    BY <1>1, <2>1, <2>2, QueueMoves
<1>4. ASSUME NEW s \in Sessions, row'[s].status = "FAILED"
      PROVE  \/ \E j \in JobIds : j.session = s /\ jobs'[j].state = "failed"
             \/ row'[s].attemptCount >= MaxAttempts
             \/ s \in NoBaseSha
  <2>1. CASE row[s].status # "FAILED"
    BY <1>1, <1>4, <2>1, FailReason
  <2>2. CASE row[s].status = "FAILED"
    <3>1. row'[s] = row[s]
      BY <1>1, <1>4, <2>2, SettledRow DEF Terminal
    <3>2. \/ \E j \in JobIds : j.session = s /\ jobs[j].state = "failed"
          \/ row[s].attemptCount >= MaxAttempts
          \/ s \in NoBaseSha
      BY <1>1, <2>2 DEF FailedOnlyWhenExhausted
    <3> QED
      BY <1>3, <3>1, <3>2
  <2> QED
    BY <2>1, <2>2
<1> QED
  BY <1>1, <1>2, <1>4 DEF FailureInv, FailedOnlyWhenExhausted

\* A session is FAILED only when something was exhausted: the attempts of a
\* job, the claims of MAX_REVIEW_ATTEMPTS, or the hope for a commit to clone.
THEOREM FailedWhenExhausted == Spec => []FailedOnlyWhenExhausted
<1>1. Init => FailureInv
  <2>1. Init => SweepInv
    BY RowInit DEF Init, SweepInv, SweepCurrent, IdleSweep
  <2>2. Init => FailedOnlyWhenExhausted
    BY DEF Init, FailedOnlyWhenExhausted, NewRow
  <2> QED
    BY <2>1, <2>2, QueueInvInit DEF FailureInv
<1>2. FailureInv => FailedOnlyWhenExhausted
  BY DEF FailureInv
<1> QED
  BY <1>1, <1>2, FailureStep, PTL DEF Spec

-----------------------------------------------------------------------------
(***************************************************************************)
(* A completed session was delivered.  A handler that got past a step has  *)
(* done it under its own lease, unless a call to GitHub failed and was     *)
(* caught, or the row was deleted under it.                                *)
(***************************************************************************)
Posted(w) ==
  LET s == SessionOf(w)
      l == LeaseOf(w)
  IN  /\ "githubError" \notin suffered =>
           /\ handler[w].pc \in (PostingPCs \ {"comment"}) \cup {"persist", "complete"}
                => l \in comments[s]
           /\ handler[w].pc \in (PostingPCs \ {"comment", "summary"}) \cup {"persist", "complete"}
                => l \in reviews[s]
      /\ handler[w].pc = "complete" => l \in stored[s] \/ row[s].status = "GONE"
DeliveryInv == RowInv /\ (\A w \in Workers : Posted(w)) /\ CompletedWasDelivered

\* Faults are remembered.
LEMMA SufferedGrows ==
  ASSUME [Next]_vars PROVE suffered \subseteq suffered'
BY DEF Next, vars, calm, Fault, HandlerStep, ListenerStep, SweepStep, Take, FailStalled, Claim,
       Review, Renew, PostComments, PostSummary, FindCheck, WriteCheck, Persist, Complete,
       Heartbeat, Crash, ClaimError, LaterDbError, GithubError, ListenerWrite, ListenerForget,
       Scan, Requeue, Flip, SweepError, LeaseExpires, Wedge, Uninstall, Redeliver, BackoffOver

\* What was sent or stored stays; so does GONE.
LEMMA DeliveriesStay ==
  ASSUME RowInv, [Next]_vars, NEW s \in Sessions
  PROVE  /\ comments[s] \subseteq comments'[s]
         /\ reviews[s] \subseteq reviews'[s]
         /\ stored[s] \subseteq stored'[s]
         /\ row[s].status = "GONE" => row'[s].status = "GONE"
<1>1. /\ comments \in [Sessions -> SUBSET Nat] /\ reviews \in [Sessions -> SUBSET Nat]
      /\ stored \in [Sessions -> SUBSET Nat]
  BY DEF RowInv, TypeInv, TypeOK
<1>2. row[s].status = "GONE" => row'[s].status = "GONE"
  BY SettledRow DEF Terminal
<1>3. ASSUME NEW w \in Workers,
             HandlerStep(w) \/ ClaimError(w) \/ LaterDbError(w) \/ GithubError(w)
      PROVE  /\ comments[s] \subseteq comments'[s]
             /\ reviews[s] \subseteq reviews'[s]
             /\ stored[s] \subseteq stored'[s]
  <2>1. \/ UNCHANGED github
        \/ SendComments(w) \/ SendSummary(w) \/ CreateCheck(w)
    BY <1>3 DEF HandlerStep, ClaimError, LaterDbError, GithubError, Claim, Review, Renew,
                PostComments, PostSummary, FindCheck, WriteCheck, Persist, Complete
  <2>2. /\ comments' = comments \/ comments' = [comments EXCEPT ![SessionOf(w)] = @ \cup {LeaseOf(w)}]
        /\ reviews' = reviews \/ reviews' = [reviews EXCEPT ![SessionOf(w)] = @ \cup {LeaseOf(w)}]
    BY <2>1 DEF github, SendComments, SendSummary, CreateCheck
  <2>3. stored' = stored \/ stored' = [stored EXCEPT ![SessionOf(w)] = @ \cup {LeaseOf(w)}]
    BY <1>3 DEF HandlerStep, ClaimError, LaterDbError, GithubError, Claim, Review, Renew,
                PostComments, PostSummary, FindCheck, WriteCheck, Persist, Complete,
                StoreComments
  <2> QED
    BY <1>1, <2>2, <2>3
<1>4. \/ \E w \in Workers : HandlerStep(w) \/ ClaimError(w) \/ LaterDbError(w) \/ GithubError(w)
      \/ UNCHANGED <<comments, reviews, stored>>
  BY DEF Next, vars, github, ListenerStep, SweepStep, Take, FailStalled, Heartbeat, Crash, ListenerWrite,
         ListenerForget, Scan, Requeue, Flip, SweepError, LeaseExpires, Wedge, Uninstall,
         Quieten, Redeliver, BackoffOver
<1> QED
  BY <1>2, <1>3, <1>4

\* What becomes of one handler in a step.
LEMMA HandlerMoves ==
  ASSUME TypeInv, [Next]_vars, NEW w \in Workers
  PROVE  \/ handler'[w] = handler[w]
         \/ handler'[w].pc \in {"idle", "claim", "review", "renew", "comment"}
         \/ PostComments(w) \/ PostSummary(w) \/ FindCheck(w) \/ WriteCheck(w)
         \/ GithubError(w)
         \/ /\ At(w, "persist") /\ Goto(w, "complete")
            /\ StoreComments(w) \/ row[SessionOf(w)].status = "GONE"
<1> DEFINE Moved == handler'[w] = handler[w]
                    \/ handler'[w].pc \in {"idle", "claim", "review", "renew", "comment"}
<1>1. handler \in [Workers -> Handler]
  BY DEF TypeInv, TypeOK
<1>2. ASSUME NEW v \in Workers, handler' = [handler EXCEPT ![v] = Idle] PROVE Moved
  BY <1>1, <1>2 DEF Idle
<1>3. ASSUME NEW v \in Workers, v # w, NEW pc, Goto(v, pc) PROVE Moved
  BY <1>1, <1>3 DEF Goto
<1>4. ASSUME NEW v \in Workers, Take(v) PROVE Moved
  BY <1>1, <1>4 DEF Take
<1>5. ASSUME NEW v \in Workers, Claim(v) PROVE Moved
  <2>1. CASE Return(v)
    BY <1>2, <2>1 DEF Return
  <2>2. CASE handler' = [handler EXCEPT ![v] = [@ EXCEPT !.pc = "review", !.lease = issued + 1]]
    BY <1>1, <2>2 DEF Handler
  <2> QED
    BY <1>5, <2>1, <2>2 DEF Claim
<1>6. ASSUME NEW v \in Workers, NEW pc \in {"renew", "comment"}, Goto(v, pc) PROVE Moved
  BY <1>1, <1>6 DEF Goto, Handler
<1>7. ASSUME NEW v \in Workers, Throw(v) \/ Return(v) PROVE Moved
  BY <1>2, <1>7 DEF Throw, Return
<1>8. ASSUME NEW v \in Workers, Review(v) \/ Renew(v) \/ Complete(v) \/ ClaimError(v)
                                \/ LaterDbError(v) \/ Crash(v)
      PROVE Moved
  BY <1>2, <1>6, <1>7, <1>8 DEF Review, Renew, Complete, ClaimError, LaterDbError, Crash
<1>9. ASSUME NEW v \in Workers, v # w,
             \/ PostComments(v) \/ PostSummary(v) \/ FindCheck(v) \/ WriteCheck(v)
             \/ GithubError(v) \/ Persist(v)
      PROVE Moved
  BY <1>3, <1>7, <1>9
  DEF PostComments, PostSummary, FindCheck, WriteCheck, GithubError, Persist
<1>10. CASE Persist(w)
  BY <1>7, <1>10 DEF Persist
<1>11. CASE \E v \in Workers : \/ Take(v) \/ HandlerStep(v) \/ Heartbeat(v) \/ Crash(v)
                               \/ ClaimError(v) \/ LaterDbError(v) \/ GithubError(v)
  BY <1>4, <1>5, <1>8, <1>9, <1>10, <1>11 DEF HandlerStep, Heartbeat
<1>12. CASE UNCHANGED handler
  BY <1>12
<1> QED
  BY <1>11, <1>12
  DEF Next, vars, FailStalled, ListenerStep, SweepStep, ListenerWrite, ListenerForget, Scan,
      Requeue, Flip, SweepError, LeaseExpires, Wedge, Uninstall, Quieten, Redeliver, BackoffOver

LEMMA PostedStep ==
  ASSUME RowInv, [Next]_vars, NEW w \in Workers, Posted(w)
  PROVE  Posted(w)'
<1>1. /\ TypeInv /\ handler \in [Workers -> Handler] /\ handler[w] \in Handler
      /\ comments \in [Sessions -> SUBSET Nat] /\ reviews \in [Sessions -> SUBSET Nat]
      /\ stored \in [Sessions -> SUBSET Nat]
  BY DEF RowInv, TypeInv, TypeOK
<1> DEFINE s == SessionOf(w)
           l == LeaseOf(w)
<1>2. CASE handler[w].pc \in {"idle", "claim", "review", "renew", "comment"} /\ handler'[w] = handler[w]
  BY <1>2 DEF Posted, PostingPCs
<1>3. CASE handler'[w].pc \in {"idle", "claim", "review", "renew", "comment"}
  BY <1>3 DEF Posted, PostingPCs
<1>4. ASSUME handler[w].pc # "idle"
      PROVE  /\ s \in Sessions
             /\ comments[s] \subseteq comments'[s]
             /\ reviews[s] \subseteq reviews'[s]
             /\ stored[s] \subseteq stored'[s]
             /\ row[s].status = "GONE" => row'[s].status = "GONE"
             /\ "githubError" \in suffered => "githubError" \in suffered'
  <2>1. s \in Sessions
    BY <1>1, <1>4, SessionType
  <2> HIDE DEF s
  <2> QED
    BY <2>1, DeliveriesStay, SufferedGrows
<1>5. CASE handler'[w] = handler[w] /\ handler[w].pc # "idle"
  BY <1>4, <1>5 DEF Posted, SessionOf, LeaseOf
<1>6. ASSUME NEW pc \in PCs, Goto(w, pc), handler[w].pc # "idle"
      PROVE  handler'[w].pc = pc /\ SessionOf(w)' = s /\ LeaseOf(w)' = l
  <2>1. handler'[w] = [handler[w] EXCEPT !.pc = pc]
    BY <1>1, <1>6 DEF Goto
  <2> QED
    BY <1>1, <2>1 DEF Handler, SessionOf, LeaseOf
<1>7. CASE PostComments(w)
  <2>1. Goto(w, "summary") /\ handler[w].pc # "idle"
    BY <1>7, GithubPcs DEF PostComments
  <2>2. handler'[w].pc = "summary" /\ SessionOf(w)' = s /\ LeaseOf(w)' = l
    BY <1>6, <2>1 DEF PCs
  <2>3. l \in comments'[s]
    BY <1>1, <1>4, <1>7, <2>1 DEF PostComments, SendComments
  <2> QED
    BY <2>2, <2>3 DEF Posted, PostingPCs
<1>8. CASE PostSummary(w)
  <2>1. Goto(w, "findCheck") /\ handler[w].pc = "summary"
    BY <1>8, GithubPcs DEF PostSummary
  <2>2. handler'[w].pc = "findCheck" /\ SessionOf(w)' = s /\ LeaseOf(w)' = l
    BY <1>6, <2>1 DEF PCs
  <2>3. "githubError" \notin suffered' => l \in comments'[s] /\ l \in reviews'[s]
    BY <1>1, <1>4, <1>8, <2>1 DEF PostSummary, SendSummary, Posted, PostingPCs
  <2> QED
    BY <2>2, <2>3 DEF Posted, PostingPCs
<1>9. CASE FindCheck(w) \/ WriteCheck(w)
  <2>1. PICK pc \in {"createCheck", "updateCheck", "persist"} : Goto(w, pc)
    BY <1>9 DEF FindCheck, WriteCheck
  <2>2. handler[w].pc \in {"findCheck", "createCheck", "updateCheck"}
    BY <1>9, GithubPcs DEF FindCheck, At
  <2>3. handler'[w].pc = pc /\ SessionOf(w)' = s /\ LeaseOf(w)' = l
    BY <1>6, <2>1, <2>2 DEF PCs
  <2>4. "githubError" \notin suffered' => l \in comments'[s] /\ l \in reviews'[s]
    BY <1>4, <2>2 DEF Posted, PostingPCs
  <2> QED
    BY <2>3, <2>4 DEF Posted
<1>11. CASE GithubError(w)
  <2>1. PICK pc \in {"summary", "findCheck", "persist"} : Goto(w, pc)
    BY <1>11, GithubPcs
  <2>2. handler[w].pc # "idle" /\ "githubError" \in suffered'
    BY <1>11 DEF GithubError, PostingPCs, Fault
  <2>3. handler'[w].pc = pc
    BY <1>6, <2>1, <2>2 DEF PCs
  <2> QED
    BY <2>2, <2>3 DEF Posted
<1>10. CASE /\ At(w, "persist") /\ Goto(w, "complete")
            /\ StoreComments(w) \/ row[s].status = "GONE"
  <2>1. handler[w].pc = "persist"
    BY <1>10 DEF At
  <2>2. handler'[w].pc = "complete" /\ SessionOf(w)' = s /\ LeaseOf(w)' = l
    BY <1>6, <1>10, <2>1 DEF PCs
  <2>3. "githubError" \notin suffered' => l \in comments'[s] /\ l \in reviews'[s]
    BY <1>4, <2>1 DEF Posted, PostingPCs
  <2>4. l \in stored'[s] \/ row'[s].status = "GONE"
    BY <1>1, <1>4, <1>10, <2>1 DEF StoreComments
  <2> QED
    BY <2>2, <2>3, <2>4 DEF Posted
<1> QED
  BY <1>1, <1>2, <1>3, <1>5, <1>7, <1>8, <1>9, <1>10, <1>11, HandlerMoves

\* Only a handler about to complete under the row's lease completes it.
LEMMA CompleteReason ==
  ASSUME RowInv, [Next]_vars, NEW s \in Sessions,
         row[s].status # "COMPLETED", row'[s].status = "COMPLETED"
  PROVE  \E w \in Workers : /\ handler[w].pc = "complete"
                            /\ SessionOf(w) = s
                            /\ row[s].leaseId = LeaseOf(w) /\ LeaseOf(w) # NoLease
                            /\ row'[s].summary = LeaseOf(w)
<1>1. row[s] \in Row /\ row'[s].status # row[s].status
  BY DEF RowInv, TypeInv, TypeOK
<1>2. /\ Claimed(row[s], issued + 1).status # "COMPLETED"
      /\ \A l : Completed(row[s], l).summary = l
      /\ \A st : Unowned(row[s], st).status = st
  BY <1>1 DEF Claimed, Completed, Unowned, Row
<1> QED
  BY <1>1, <1>2, StatusMoves DEF StatusMove, Holds

LEMMA DeliveryStep == DeliveryInv /\ [Next]_vars => DeliveryInv'
<1> SUFFICES ASSUME DeliveryInv, [Next]_vars PROVE DeliveryInv'
  OBVIOUS
<1>1. RowInv /\ (\A w \in Workers : Posted(w)) /\ CompletedWasDelivered
  BY DEF DeliveryInv
<1>2. RowInv' /\ \A w \in Workers : Posted(w)'
  BY <1>1, RowStep, PostedStep
<1>3. ASSUME NEW s \in Sessions, row'[s].status = "COMPLETED"
      PROVE  /\ row'[s].summary \in stored'[s]
             /\ "githubError" \notin suffered' => row'[s].summary \in comments'[s] \cap reviews'[s]
  <2>1. /\ row'[s].summary \in stored[s]
        /\ "githubError" \notin suffered => row'[s].summary \in comments[s] \cap reviews[s]
    <3>1. CASE row[s].status = "COMPLETED"
      <4>1. row'[s] = row[s]
        BY <1>1, <1>3, <3>1, SettledRow DEF Terminal
      <4> QED
        BY <1>1, <3>1, <4>1 DEF CompletedWasDelivered
    <3>2. CASE row[s].status # "COMPLETED"
      <4>1. PICK w \in Workers : /\ handler[w].pc = "complete"
                                /\ SessionOf(w) = s
                                /\ row[s].leaseId = LeaseOf(w) /\ LeaseOf(w) # NoLease
                                /\ row'[s].summary = LeaseOf(w)
        BY <1>1, <1>3, <3>2, CompleteReason
      <4>2. row[s].status = "RUNNING"
        BY <1>1, <4>1 DEF RowInv, RowCoherent
      <4> QED
        BY <1>1, <4>1, <4>2 DEF Posted
    <3> QED
      BY <3>1, <3>2
  <2> QED
    BY <1>1, <2>1, DeliveriesStay, SufferedGrows
<1> QED
  BY <1>2, <1>3 DEF DeliveryInv, CompletedWasDelivered

\* The summary a completed session shows is that of an attempt that stored
\* its findings; unless a call to GitHub failed, which the handler catches and
\* completes all the same, that attempt's comments and review reached GitHub.
THEOREM CompletedMeansDelivered == Spec => []CompletedWasDelivered
<1>1. Init => DeliveryInv
  BY RowInit DEF Init, DeliveryInv, Posted, CompletedWasDelivered, PostingPCs, Idle, NewRow
<1>2. DeliveryInv => CompletedWasDelivered
  BY DEF DeliveryInv
<1> QED
  BY <1>1, <1>2, DeliveryStep, PTL DEF Spec

-----------------------------------------------------------------------------
(***************************************************************************)
(* How often a session is claimed.  MAX_REVIEW_ATTEMPTS stops the sweep;   *)
(* beyond it, each further claim costs an attempt of the server's job,     *)
(* whose listener put the session back.                                    *)
(***************************************************************************)
First(s) == [session |-> s, nth |-> 0]
Spent(s) == IF jobs[First(s)].attemptsMade < QueueAttempts
            THEN jobs[First(s)].attemptsMade ELSE QueueAttempts - 1
\* A listener is about to put the session back.
Releasing(s) == \E f \in failing : /\ f.job.session = s /\ ~ f.last /\ f.pc = "write"
                                   /\ f.lease # NoLease /\ f.lease = row[s].leaseId
Counted(s) ==
  /\ row[s].attemptCount <= MaxAttempts + Spent(s)
  /\ row[s].status \in Claimable \/ Releasing(s) => row[s].attemptCount < MaxAttempts + Spent(s)
\* Nobody knows a lease before it is issued.
LeasesIssued == /\ \A w \in Workers, j \in JobIds : held[w][j] <= issued
                /\ \A f \in failing : f.lease <= issued
CountInv == SweepInv /\ QueueInv /\ LeasesIssued /\ \A s \in Sessions : Counted(s)

LEMMA HeldMoves ==
  ASSUME TypeInv, [Next]_vars
  PROVE  /\ issued' \in {issued, issued + 1}
         /\ \A w \in Workers, j \in JobIds :
              \/ held'[w][j] \in {held[w][j], NoLease}
              \/ held'[w][j] = issued + 1 /\ issued' = issued + 1
<1>1. held \in [Workers -> [JobIds -> Nat]]
  BY DEF TypeInv, TypeOK
<1>2. ASSUME NEW w \in Workers, Claim(w)
      PROVE  /\ issued' \in {issued, issued + 1}
             /\ \A v \in Workers, j \in JobIds :
                  \/ held'[v][j] = held[v][j]
                  \/ held'[v][j] = issued + 1 /\ issued' = issued + 1
  BY <1>1, <1>2 DEF Claim, ClaimWrite, Register
<1>3. ASSUME NEW w \in Workers, NEW k, held' = [held EXCEPT ![w][k] = NoLease]
      PROVE  \A v \in Workers, j \in JobIds : held'[v][j] \in {held[v][j], NoLease}
  BY <1>1, <1>3
<1>4. ASSUME NEW w \in Workers, Complete(w) \/ Crash(w)
      PROVE  /\ UNCHANGED issued
             /\ \A v \in Workers, j \in JobIds : held'[v][j] \in {held[v][j], NoLease}
  BY <1>1, <1>3, <1>4 DEF Complete, Crash
<1>5. ASSUME NEW f \in failing, ListenerForget(f)
      PROVE  /\ UNCHANGED issued
             /\ \A v \in Workers, j \in JobIds : held'[v][j] \in {held[v][j], NoLease}
  <2>1. f.worker \in Workers
    BY DEF TypeInv, TypeOK, Listener
  <2> QED
    BY <1>3, <1>5, <2>1 DEF ListenerForget
<1>6. ASSUME NEW w \in Workers, ClaimError(w) PROVE UNCHANGED held /\ issued' \in {issued, issued + 1}
  BY <1>6 DEF ClaimError, ClaimWrite
<1>7. \/ \E w \in Workers : Claim(w) \/ Complete(w) \/ Crash(w) \/ ClaimError(w)
      \/ \E f \in failing : ListenerForget(f)
      \/ UNCHANGED <<issued, held>>
  BY DEF Next, vars, HandlerStep, Take, FailStalled, Review, Renew, PostComments, PostSummary,
         FindCheck, WriteCheck, Persist, Heartbeat, LaterDbError, GithubError, ListenerStep, ListenerWrite,
         SweepStep, Scan, Requeue, Flip, SweepError, LeaseExpires, Wedge, Uninstall, Quieten,
         Redeliver, BackoffOver
<1> QED
  BY <1>2, <1>4, <1>5, <1>6, <1>7

\* A listener never has the lease that is being issued.
LEMMA ListenerLeases ==
  ASSUME TypeInv, LeasesIssued, [Next]_vars
  PROVE  \A f \in failing' : f.lease <= issued
<1>1. CASE QuietQueue
  BY <1>1 DEF QuietQueue, LeasesIssued
<1>2. CASE BookMove
  <2>1. PICK w \in Workers, j \in JobIds : Books(w, j)
    BY <1>2 DEF BookMove
  <2>2. \A f \in failing' : f \in failing \/ f.lease = held[w][j]
    BY <2>1, BookEffect
  <2> QED
    BY <2>2 DEF LeasesIssued
<1> QED
  BY <1>1, <1>2, QueueMoves

LEMMA LeasesIssuedStep ==
  ASSUME TypeInv, LeasesIssued, [Next]_vars
  PROVE  LeasesIssued'
<1>1. /\ issued \in Nat /\ failing' \subseteq Listener
      /\ held \in [Workers -> [JobIds -> Nat]] /\ held' \in [Workers -> [JobIds -> Nat]]
  BY TypeStep DEF TypeInv, TypeOK
<1>2. issued <= issued' /\ issued' \in Nat
  BY <1>1, HeldMoves
<1>3. ASSUME NEW f \in failing' PROVE f.lease <= issued'
  <2>1. f.lease \in Nat /\ f.lease <= issued
    BY <1>1, ListenerLeases DEF Listener
  <2> QED
    BY <1>1, <1>2, <2>1
<1>4. ASSUME NEW w \in Workers, NEW j \in JobIds PROVE held'[w][j] <= issued'
  <2>1. held[w][j] \in Nat /\ held[w][j] <= issued
    BY <1>1 DEF LeasesIssued
  <2>2. held'[w][j] \in {held[w][j], NoLease, issued'}
    BY HeldMoves
  <2> QED
    BY <1>1, <1>2, <2>1, <2>2 DEF NoLease
<1> QED
  BY <1>3, <1>4 DEF LeasesIssued

\* The server's job uses up its attempts, one for each time its listener is
\* called before the last.
LEMMA SpentStep ==
  ASSUME TypeInv, QueueInv, [Next]_vars, NEW s \in Sessions
  PROVE  /\ Spent(s) \in Nat /\ Spent(s)' \in Nat /\ Spent(s) <= Spent(s)'
         /\ Spent(s) <= QueueAttempts - 1
         /\ \A f \in failing' \ failing :
              f.pc = "write" /\ ~ f.last /\ f.job.session = s => Spent(s) < Spent(s)'
<1> DEFINE k == First(s)
<1>1. QueueAttempts \in Nat /\ QueueAttempts > 0
  BY ConstantsAssumption
<1>2. MaxAttempts - 1 \in Nat
  BY ConstantsAssumption
<1>3. k \in JobIds /\ k.nth = 0
  BY <1>2 DEF First, JobIds
<1>4. /\ jobs[k].state # "absent" /\ jobs[k].attemptsMade \in Nat
      /\ jobs'[k].attemptsMade \in Nat
  BY <1>3, TypeStep DEF QueueInv, TypeInv, TypeOK, Job
<1> HIDE DEF k
<1>5. CASE QuietQueue
  BY <1>1, <1>3, <1>4, <1>5 DEF QuietQueue, Spent, k
<1>6. CASE BookMove
  <2>1. PICK w \in Workers, j \in JobIds : Books(w, j)
    BY <1>6 DEF BookMove
  <2> DEFINE made == jobs[j].attemptsMade + 1
             last == made >= Attempts(j)
             f == [worker |-> w, job |-> j, lease |-> held[w][j], last |-> last, pc |-> "write"]
  <2>2. /\ \A i \in JobIds \ {j} : jobs'[i] = jobs[i]
        /\ jobs'[j].attemptsMade = made
        /\ failing' = failing \cup {f}
    BY <2>1, BookEffect
  <2>3. CASE j # k
    <3>1. jobs'[k] = jobs[k]
      BY <1>3, <2>2, <2>3
    <3>2. j # k => ~ (~ f.last /\ f.job.session = s)
      <4>1. j.nth # 0 => last
        BY <2>2 DEF Attempts, TypeInv, TypeOK, Job
      <4>2. j.nth = 0 /\ j.session = s => j = k
        BY <2>2 DEF JobIds, First, k
      <4> QED
        BY <4>1, <4>2
    <3> HIDE DEF f
    <3> QED
      BY <1>1, <1>4, <2>2, <2>3, <3>1, <3>2 DEF Spent, k
  <2>4. CASE j = k
    <3>1. ~ f.last => jobs[k].attemptsMade + 1 < QueueAttempts
      <4>1. f.last = last
        OBVIOUS
      <4>2. made = jobs[k].attemptsMade + 1 /\ Attempts(j) = QueueAttempts
        BY <1>3, <2>4 DEF Attempts
      <4>3. ~ last => made < QueueAttempts
        BY <1>1, <1>4, <4>2
      <4> HIDE DEF f, last, made
      <4> QED
        BY <4>1, <4>2, <4>3
    <3> HIDE DEF f
    <3>2. jobs'[k].attemptsMade = jobs[k].attemptsMade + 1
      BY <2>2, <2>4
    <3>3. Spent(s) = IF jobs[k].attemptsMade < QueueAttempts
                     THEN jobs[k].attemptsMade ELSE QueueAttempts - 1
      BY DEF Spent, k
    <3>4. Spent(s)' = IF jobs[k].attemptsMade + 1 < QueueAttempts
                      THEN jobs[k].attemptsMade + 1 ELSE QueueAttempts - 1
      BY <3>2 DEF Spent, k
    <3>5. \A g \in failing' \ failing : ~ g.last => jobs[k].attemptsMade + 1 < QueueAttempts
      BY <2>2, <3>1
    <3> QED
      BY <1>1, <1>4, <3>3, <3>4, <3>5
  <2> QED
    BY <2>3, <2>4
<1> QED
  BY <1>5, <1>6, QueueMoves

\* A step claims a session, or leaves its count and issues it no lease.
LEMMA CountMoves ==
  ASSUME RowInv, [Next]_vars, NEW s \in Sessions
  PROVE  \/ /\ row[s].status \in Claimable
            /\ row'[s].status = "RUNNING"
            /\ row'[s].leaseId = issued + 1
            /\ row'[s].attemptCount = row[s].attemptCount + 1
         \/ /\ row'[s].attemptCount = row[s].attemptCount
            /\ row'[s].leaseId \in {row[s].leaseId, NoLease}
<1>1. row \in [Sessions -> Row] /\ row[s] \in Row
  BY DEF RowInv, TypeInv, TypeOK
<1>2. ASSUME NEW t \in Sessions, Move(t), t # s PROVE row'[s] = row[s]
  BY <1>1, <1>2, MoveEffect DEF RowInv
<1>3. CASE ClaimWrite(s)
  BY <1>1, <1>3 DEF ClaimWrite, CanClaim, Claimed, Write, Row
<1>4. CASE BeatMove(s) \/ QuietMove(s)
  BY <1>1, <1>4 DEF BeatMove, QuietMove, Renewed, Write, Row
<1>5. CASE CompleteMove(s)
  BY <1>1, <1>5 DEF CompleteMove, Completed, Unowned, Write, Row
<1>6. CASE ReleaseMove(s) \/ FailMove(s) \/ GoneMove(s)
  <2>1. \E st : row'[s] = Unowned(row[s], st)
    BY <1>1, <1>6 DEF ReleaseMove, FailMove, GoneMove, Write
  <2> QED
    BY <1>1, <2>1 DEF Unowned, Row
<1>7. CASE Move(s)
  BY <1>3, <1>4, <1>5, <1>6, <1>7 DEF Move
<1>8. CASE UNCHANGED row
  BY <1>8
<1> QED
  BY <1>2, <1>7, <1>8, RowMoves DEF RowInv

\* Who puts a session back: a listener that was about to, or a sweep that
\* has not seen MAX_REVIEW_ATTEMPTS claims.
LEMMA RetryReason ==
  ASSUME SweepInv, [Next]_vars, NEW s \in Sessions,
         row[s].status \notin Claimable, row'[s].status \in Claimable
  PROVE  Releasing(s) \/ row[s].attemptCount < MaxAttempts
<1>1. RowInv /\ row[s] \in Row /\ row'[s].status # row[s].status
  BY DEF SweepInv, RowInv, TypeInv, TypeOK
<1>2. /\ Claimed(row[s], issued + 1).status \notin Claimable
      /\ \A l : Completed(row[s], l).status \notin Claimable
      /\ \A st : Unowned(row[s], st).status = st
  BY <1>1 DEF Claimed, Completed, Unowned, Row, Claimable
<1>3. ASSUME NEW f \in failing, ListenerWrite(f), f.job.session = s,
             ~ f.last, f.lease # NoLease, CanRelease(row[s], f.lease)
      PROVE  Releasing(s)
  BY <1>3 DEF ListenerWrite, CanRelease, Releasing
<1>4. ASSUME NEW x \in Sweeps, sweep[x].at = s, Stalled(row[s], s \in sweep[x].behind),
             row'[s] = Unowned(row[s], IF GivesUp(x, s) THEN "FAILED" ELSE "RETRYING")
      PROVE  row[s].attemptCount < MaxAttempts
  <2>1. ~ GivesUp(x, s)
    BY <1>2, <1>4 DEF Claimable
  <2>2. sweep[x].seen[s] = row[s].attemptCount
    BY <1>4 DEF SweepInv, RowInv, RowCoherent, SweepCurrent, Stalled, Pending
  <2>3. row[s].attemptCount \in Nat /\ MaxAttempts \in Nat
    BY <1>1, ConstantsAssumption DEF Row
  <2> QED
    BY <2>1, <2>2, <2>3 DEF GivesUp
<1>5. ~ ("FAILED" \in Claimable) /\ ~ ("GONE" \in Claimable)
  BY DEF Claimable
<1> QED
  BY <1>1, <1>2, <1>3, <1>4, <1>5, StatusMoves DEF StatusMove

LEMMA CountStep == CountInv /\ [Next]_vars => CountInv'
<1> SUFFICES ASSUME CountInv, [Next]_vars PROVE CountInv'
  OBVIOUS
<1>1. SweepInv /\ QueueInv /\ LeasesIssued /\ RowInv /\ TypeInv
  BY DEF CountInv, SweepInv, RowInv
<1>2. SweepInv' /\ QueueInv' /\ LeasesIssued'
  BY <1>1, SweepInvStep, QueueInvStep, LeasesIssuedStep
<1>3. ASSUME NEW s \in Sessions PROVE Counted(s)'
  <2>1. /\ row[s] \in Row /\ row[s].attemptCount \in Nat
        /\ issued \in Nat /\ MaxAttempts \in Nat
        /\ failing' \subseteq Listener
    BY <1>1, TypeStep, ConstantsAssumption DEF TypeInv, TypeOK, Row
  <2>2. /\ Spent(s) \in Nat /\ Spent(s)' \in Nat /\ Spent(s) <= Spent(s)'
        /\ \A f \in failing' \ failing :
             f.pc = "write" /\ ~ f.last /\ f.job.session = s => Spent(s) < Spent(s)'
    BY <1>1, SpentStep
  <2>3. /\ row[s].attemptCount <= MaxAttempts + Spent(s)
        /\ row[s].status \in Claimable \/ Releasing(s)
             => row[s].attemptCount < MaxAttempts + Spent(s)
    BY DEF CountInv, Counted
  <2>4. CASE /\ row[s].status \in Claimable
             /\ row'[s].status = "RUNNING"
             /\ row'[s].leaseId = issued + 1
             /\ row'[s].attemptCount = row[s].attemptCount + 1
    <3>1. ~ Releasing(s)'
      <4>1. \A f \in failing' : f.lease \in Nat /\ f.lease <= issued
        BY <1>1, <2>1, ListenerLeases DEF Listener
      <4>2. \A f \in failing' : f.lease # issued + 1
        BY <2>1, <4>1
      <4> QED
        BY <2>4, <4>2 DEF Releasing
    <3>2. row'[s].status \notin Claimable
      BY <2>4 DEF Claimable
    <3>3. row'[s].attemptCount <= MaxAttempts + Spent(s)'
      BY <2>1, <2>2, <2>3, <2>4
    <3> QED
      BY <3>1, <3>2, <3>3 DEF Counted
  <2>5. CASE /\ row'[s].attemptCount = row[s].attemptCount
             /\ row'[s].leaseId \in {row[s].leaseId, NoLease}
    <3>1. row'[s].attemptCount <= MaxAttempts + Spent(s)'
      BY <2>1, <2>2, <2>3, <2>5
    <3>2. CASE row'[s].status \in Claimable
      <4>1. Releasing(s) \/ row[s].status \in Claimable \/ row[s].attemptCount < MaxAttempts
        BY <1>1, <3>2, RetryReason
      <4> QED
        BY <2>1, <2>2, <2>3, <2>5, <3>1, <4>1 DEF Counted
    <3>3. CASE Releasing(s)'
      <4>1. PICK f \in failing' : /\ f.job.session = s /\ ~ f.last /\ f.pc = "write"
                                  /\ f.lease # NoLease /\ f.lease = row'[s].leaseId
        BY <3>3 DEF Releasing
      <4>2. f \in failing => Releasing(s)
        BY <2>5, <4>1 DEF Releasing
      <4>3. f \notin failing => Spent(s) < Spent(s)'
        BY <2>2, <4>1
      <4>4. row[s].attemptCount < MaxAttempts + Spent(s)'
        BY <2>1, <2>2, <2>3, <4>2, <4>3
      <4> QED
        BY <2>5, <3>1, <4>4 DEF Counted
    <3> QED
      BY <3>1, <3>2, <3>3 DEF Counted
  <2> QED
    BY <1>1, <2>4, <2>5, CountMoves
<1> QED
  BY <1>2, <1>3 DEF CountInv

\* However the sweep, the queue and the faults conspire, a session is claimed
\* at most MAX_REVIEW_ATTEMPTS + QueueAttempts - 1 times.
THEOREM ClaimsStayBounded == Spec => []ClaimsBounded
<1>1. Init => CountInv
  <2>1. Init => SweepInv
    BY RowInit DEF Init, SweepInv, SweepCurrent, IdleSweep
  <2>2. Init => LeasesIssued
    BY DEF Init, LeasesIssued, NoLease
  <2>3. ASSUME Init, NEW s \in Sessions PROVE Counted(s)
    <3>1. First(s) \in JobIds
      BY ConstantsAssumption DEF First, JobIds
    <3>2. Spent(s) = 0
      BY <2>3, <3>1, ConstantsAssumption DEF Init, Spent, NewJob
    <3>3. row[s].attemptCount = 0 /\ MaxAttempts > 0
      BY <2>3, ConstantsAssumption DEF Init, NewRow
    <3> QED
      BY <3>2, <3>3, ConstantsAssumption DEF Counted
  <2> QED
    BY <2>1, <2>2, <2>3, QueueInvInit DEF CountInv
<1>2. CountInv /\ [Next]_vars => ClaimsBounded
  <2> SUFFICES ASSUME CountInv, [Next]_vars, NEW s \in Sessions
               PROVE  row[s].attemptCount <= MaxAttempts + QueueAttempts - 1
    BY DEF ClaimsBounded
  <2>1. /\ row[s].attemptCount \in Nat /\ MaxAttempts \in Nat /\ QueueAttempts \in Nat
        /\ row[s].attemptCount <= MaxAttempts + Spent(s)
    BY ConstantsAssumption DEF CountInv, SweepInv, RowInv, TypeInv, TypeOK, Row, Counted
  <2>2. Spent(s) \in Nat /\ Spent(s) <= QueueAttempts - 1
    BY SpentStep DEF CountInv, SweepInv, RowInv
  <2> QED
    BY <2>1, <2>2
<1> QED
  BY <1>1, <1>2, CountStep, PTL DEF Spec

-----------------------------------------------------------------------------
(***************************************************************************)
(* Who may write to a pull request: an attempt that holds a lease is alone *)
(* on its session as long as no live worker goes quiet, its lease is in    *)
(* heldLeases when it throws, and a session is posted once however often   *)
(* its job is delivered.                                                   *)
(***************************************************************************)
\* A handler between its claim and its end.
Leased(w) == LeaseOf(w) # NoLease

-----------------------------------------------------------------------------
(***************************************************************************)
(* Steps seen from one handler.                                            *)
(***************************************************************************)
\* The claim of w is answered with a new lease.
NewLease(w) ==
  /\ At(w, "claim")
  /\ ClaimWrite(SessionOf(w))
  /\ handler' = [handler EXCEPT ![w] = [@ EXCEPT !.pc = "review", !.lease = issued + 1]]
  /\ Register(w, issued + 1)
  /\ UNCHANGED <<jobs, failing>>

\* A leased handler goes on under its lease; it never goes back to work that
\* comes before what it has sent.
GoesOn(w) ==
  /\ Leased(w)
  /\ LeaseOf(w)' = LeaseOf(w) /\ JobOf(w)' = JobOf(w)
  /\ \A pcs \in {{"idle", "claim"}, {"review", "renew", "comment"}} :
       handler'[w].pc \in pcs => handler[w].pc \in pcs

LEMMA GotoGoesOn ==
  ASSUME TypeInv, NEW v \in Workers, NEW w \in Workers, Leased(w), NEW pc, Goto(v, pc),
         pc \notin {"idle", "claim", "review"},
         pc \in {"renew", "comment"} => handler[v].pc \in {"review", "renew"}
  PROVE  GoesOn(w)
BY DEF TypeInv, TypeOK, Goto, Handler, GoesOn, LeaseOf, JobOf

\* Only a claim gives a handler a lease; a leased handler keeps its lease
\* and its job until it ends.
LEMMA LeaseMoves ==
  ASSUME TypeInv, LeaseAfterClaim, [Next]_vars, NEW w \in Workers, Leased(w)'
  PROVE  GoesOn(w) \/ NewLease(w)
<1>1. handler \in [Workers -> Handler] /\ handler[w] \in Handler
  BY DEF TypeInv, TypeOK
<1>2. Idle.lease = NoLease
  BY DEF Idle
<1>3. ASSUME UNCHANGED handler PROVE GoesOn(w)
  BY <1>3 DEF GoesOn, Leased, LeaseOf, JobOf
<1>4. ASSUME NEW v \in Workers, v # w, NEW h, handler' = [handler EXCEPT ![v] = h] PROVE GoesOn(w)
  BY <1>1, <1>4 DEF GoesOn, Leased, LeaseOf, JobOf
<1>5. ASSUME NEW v \in Workers, handler' = [handler EXCEPT ![v] = Idle] PROVE GoesOn(w)
  <2>1. v # w
    BY <1>1, <1>2, <1>5 DEF Leased, LeaseOf
  <2> QED
    BY <1>4, <1>5, <2>1
<1>6. ASSUME NEW v \in Workers, NEW pc, Goto(v, pc), pc \notin {"idle", "claim", "review"},
             pc \in {"renew", "comment"} => handler[v].pc \in {"review", "renew"}
      PROVE  GoesOn(w)
  <2>1. Leased(w)
    BY <1>1, <1>6 DEF Goto, Leased, LeaseOf, Handler
  <2> QED
    BY <1>6, <2>1, GotoGoesOn
<1>7. ASSUME NEW v \in Workers, Take(v) PROVE GoesOn(w)
  <2>1. PICK j \in JobIds : handler' = [handler EXCEPT ![v] =
                               [pc |-> "claim", job |-> j, lease |-> NoLease]]
    BY <1>7 DEF Take
  <2>2. v # w
    BY <1>1, <2>1 DEF Leased, LeaseOf
  <2> QED
    BY <1>4, <2>1, <2>2
<1>8. ASSUME NEW v \in Workers, Claim(v) PROVE GoesOn(w) \/ NewLease(w)
  <2>1. CASE Return(v)
    BY <1>5, <2>1 DEF Return
  <2>2. CASE /\ ClaimWrite(SessionOf(v))
             /\ handler' = [handler EXCEPT ![v] = [@ EXCEPT !.pc = "review", !.lease = issued + 1]]
             /\ Register(v, issued + 1)
             /\ UNCHANGED jobs
    <3>1. At(v, "claim") /\ UNCHANGED failing
      BY <1>8 DEF Claim
    <3>2. CASE v = w
      BY <2>2, <3>1, <3>2 DEF NewLease
    <3>3. CASE v # w
      BY <1>4, <2>2, <3>3
    <3> QED
      BY <3>2, <3>3
  <2> QED
    BY <1>8, <2>1, <2>2 DEF Claim
<1>9. ASSUME NEW v \in Workers, Throw(v) \/ Return(v) \/ Crash(v) PROVE GoesOn(w)
  BY <1>5, <1>9 DEF Throw, Return, Crash
<1>10. ASSUME NEW v \in Workers, HandlerStep(v) \/ GithubError(v)
       PROVE GoesOn(w) \/ NewLease(w)
  <2>1. CASE Review(v)
    BY <1>6, <1>9, <2>1 DEF Review, At
  <2>2. CASE Renew(v)
    BY <1>6, <1>9, <2>2 DEF Renew, At
  <2>3. CASE PostComments(v) \/ PostSummary(v) \/ FindCheck(v) \/ WriteCheck(v) \/ GithubError(v)
    BY <1>6, <2>3, GithubPcs DEF PostComments, PostSummary, FindCheck, WriteCheck
  <2>4. CASE Persist(v)
    BY <1>6, <1>9, <2>4 DEF Persist
  <2>5. CASE Complete(v)
    BY <1>9, <2>5 DEF Complete
  <2> QED
    BY <1>8, <1>10, <2>1, <2>2, <2>3, <2>4, <2>5 DEF HandlerStep
<1>11. ASSUME NEW v \in Workers, Heartbeat(v) \/ Crash(v) \/ ClaimError(v) \/ LaterDbError(v)
       PROVE GoesOn(w)
  BY <1>3, <1>9, <1>11 DEF Heartbeat, ClaimError, LaterDbError
<1>12. CASE \A v \in Workers : ~ \/ Take(v) \/ HandlerStep(v) \/ Heartbeat(v) \/ Crash(v)
                                 \/ ClaimError(v) \/ LaterDbError(v) \/ GithubError(v)
  <2>1. UNCHANGED handler
    BY <1>12
    DEF Next, vars, FailStalled, ListenerStep, SweepStep, ListenerWrite, ListenerForget, Scan, Requeue, Flip,
        SweepError, LeaseExpires, Wedge, Uninstall, Quieten, Redeliver, BackoffOver
  <2> QED
    BY <1>3, <2>1
<1> QED
  BY <1>7, <1>10, <1>11, <1>12

-----------------------------------------------------------------------------
(***************************************************************************)
(* Leases.  A lease is known to one handler, under one job of heldLeases,  *)
(* on one row; a `failed` listener only ever has the lease of an attempt   *)
(* that has ended.  All of it under every fault.                           *)
(***************************************************************************)
PastClaim == \A w \in Workers : Leased(w) => handler[w].pc \notin {"idle", "claim"}
Issued == /\ LeasesIssued
          /\ \A s \in Sessions : row[s].leaseId <= issued
          /\ \A w \in Workers : LeaseOf(w) <= issued
OwnLease(w) ==
  Leased(w) =>
    /\ \A v \in Workers : LeaseOf(v) = LeaseOf(w) => v = w
    /\ \A v \in Workers, j \in JobIds : held[v][j] = LeaseOf(w) => v = w /\ j = JobOf(w)
    /\ \A f \in failing : f.lease # LeaseOf(w)
    /\ \A s \in Sessions : row[s].leaseId = LeaseOf(w) => s = SessionOf(w)
LeaseInv == SweepInv /\ PastClaim /\ Issued /\ \A w \in Workers : OwnLease(w)

LEMMA LeaseNumbers ==
  ASSUME TypeInv
  PROVE  /\ issued \in Nat
         /\ \A s \in Sessions : row[s].leaseId \in Nat
         /\ \A w \in Workers : LeaseOf(w) \in Nat
         /\ \A w \in Workers, j \in JobIds : held[w][j] \in Nat
         /\ \A f \in failing : f.lease \in Nat
BY DEF TypeInv, TypeOK, Row, Handler, Listener, LeaseOf

\* A claim writes a lease nobody knows yet.
LEMMA NewLeaseIsNew ==
  ASSUME TypeInv, Issued, [Next]_vars
  PROVE  /\ \A s \in Sessions : row[s].leaseId # issued + 1
         /\ \A w \in Workers : LeaseOf(w) # issued + 1
         /\ \A w \in Workers, j \in JobIds : held[w][j] # issued + 1
         /\ \A f \in failing' : f.lease # issued + 1
<1>1. \A m, n \in Nat : m <= n => m # n + 1
  OBVIOUS
<1>2. \A f \in failing' : f.lease \in Nat
  BY TypeStep DEF TypeInv, TypeOK, Listener
<1>3. \A f \in failing' : f.lease <= issued
  BY ListenerLeases DEF Issued
<1> QED
  BY <1>1, <1>2, <1>3, LeaseNumbers DEF Issued, LeasesIssued

\* What a step makes of the lease of a row.
LEMMA RowLeaseMoves ==
  ASSUME TypeInv, LeaseAfterClaim, [Next]_vars, NEW s \in Sessions
  PROVE  \/ row'[s].leaseId \in {row[s].leaseId, NoLease}
         \/ ClaimWrite(s) /\ row'[s].leaseId = issued + 1 /\ issued' = issued + 1
<1>1. row \in [Sessions -> Row] /\ row[s] \in Row
  BY DEF TypeInv, TypeOK
<1>2. ASSUME NEW t \in Sessions, Move(t), t # s PROVE row'[s] = row[s]
  BY <1>1, <1>2, MoveEffect
<1>3. CASE ClaimWrite(s)
  BY <1>1, <1>3 DEF ClaimWrite, CanClaim, Claimed, Write, Row
<1>4. CASE BeatMove(s) \/ QuietMove(s)
  BY <1>1, <1>4 DEF BeatMove, QuietMove, Renewed, Write, Row
<1>5. CASE CompleteMove(s) \/ ReleaseMove(s) \/ FailMove(s) \/ GoneMove(s)
  <2>1. \/ \E st : row'[s] = Unowned(row[s], st)
        \/ \E l : row'[s] = Completed(row[s], l)
    BY <1>1, <1>5 DEF CompleteMove, ReleaseMove, FailMove, GoneMove, Write
  <2> QED
    BY <1>1, <2>1 DEF Completed, Unowned, Row
<1>6. CASE Move(s)
  BY <1>3, <1>4, <1>5, <1>6 DEF Move
<1>7. CASE UNCHANGED row
  BY <1>7
<1> QED
  BY <1>2, <1>6, <1>7, RowMoves

LEMMA IssuedStep ==
  ASSUME TypeInv, LeaseAfterClaim, Issued, [Next]_vars
  PROVE  Issued'
<1>1. LeasesIssued'
  BY LeasesIssuedStep DEF Issued
<1>2. /\ issued \in Nat /\ issued' \in {issued, issued + 1}
      /\ NoLease <= issued
      /\ \A n \in Nat : n <= issued => n <= issued'
  BY LeaseNumbers, HeldMoves DEF NoLease
<1>3. ASSUME NEW s \in Sessions PROVE row'[s].leaseId <= issued'
  <2>1. row[s].leaseId \in Nat /\ row[s].leaseId <= issued
    BY LeaseNumbers DEF Issued
  <2> QED
    BY <1>2, <2>1, RowLeaseMoves DEF NoLease
<1>4. ASSUME NEW w \in Workers PROVE LeaseOf(w)' <= issued'
  <2>1. LeaseOf(w) \in Nat /\ LeaseOf(w) <= issued
    BY LeaseNumbers DEF Issued
  <2>2. CASE LeaseOf(w)' = NoLease
    BY <1>2, <2>2 DEF NoLease
  <2>3. CASE GoesOn(w)
    BY <1>2, <2>1, <2>3 DEF GoesOn
  <2>4. CASE NewLease(w)
    <3>1. LeaseOf(w)' = issued + 1
      BY <2>4 DEF NewLease, LeaseOf, TypeInv, TypeOK, Handler
    <3>2. issued' = issued + 1
      BY <2>4 DEF NewLease, ClaimWrite
    <3> QED
      BY <1>2, <3>1, <3>2
  <2> QED
    BY <2>2, <2>3, <2>4, LeaseMoves DEF Leased
<1> QED
  BY <1>1, <1>3, <1>4 DEF Issued

\* What the handlers' variables are after a claim.
LEMMA NewLeaseEffect ==
  ASSUME TypeInv, NEW w \in Workers, NewLease(w)
  PROVE  /\ LeaseOf(w)' = issued + 1 /\ JobOf(w)' = JobOf(w) /\ handler'[w].pc = "review"
         /\ issued' = issued + 1
         /\ \A v \in Workers : v # w => handler'[v] = handler[v]
         /\ SessionOf(w) \in Sessions /\ JobOf(w) \in JobIds
         /\ CanClaim(row[SessionOf(w)])
         /\ row'[SessionOf(w)] = Claimed(row[SessionOf(w)], issued + 1)
         /\ \A s \in Sessions : s # SessionOf(w) => row'[s] = row[s]
         /\ held'[w][JobOf(w)] = issued + 1
         /\ \A v \in Workers, j \in JobIds :
              v # w \/ j # JobOf(w) => held'[v][j] = held[v][j]
<1>1. /\ handler \in [Workers -> Handler] /\ row \in [Sessions -> Row]
      /\ held \in [Workers -> [JobIds -> Nat]]
  BY DEF TypeInv, TypeOK
<1>2. SessionOf(w) \in Sessions /\ JobOf(w) \in JobIds
  BY SessionType DEF NewLease, At
<1>3. /\ LeaseOf(w)' = issued + 1 /\ JobOf(w)' = JobOf(w) /\ handler'[w].pc = "review"
      /\ \A v \in Workers : v # w => handler'[v] = handler[v]
  BY <1>1 DEF NewLease, LeaseOf, JobOf, Handler
<1>4. /\ CanClaim(row[SessionOf(w)]) /\ issued' = issued + 1
      /\ row'[SessionOf(w)] = Claimed(row[SessionOf(w)], issued + 1)
      /\ \A s \in Sessions : s # SessionOf(w) => row'[s] = row[s]
  BY <1>1, <1>2 DEF NewLease, ClaimWrite, Write
<1>5. /\ held'[w][JobOf(w)] = issued + 1
      /\ \A v \in Workers, j \in JobIds :
           v # w \/ j # JobOf(w) => held'[v][j] = held[v][j]
  BY <1>1, <1>2 DEF NewLease, Register
<1> QED
  BY <1>2, <1>3, <1>4, <1>5

LEMMA PastClaimStep ==
  ASSUME TypeInv, LeaseAfterClaim, PastClaim, [Next]_vars
  PROVE  PastClaim'
<1> SUFFICES ASSUME NEW w \in Workers, Leased(w)' PROVE handler'[w].pc \notin {"idle", "claim"}
  BY DEF PastClaim
<1>1. CASE NewLease(w)
  BY <1>1, NewLeaseEffect
<1>2. CASE GoesOn(w)
  BY <1>2 DEF GoesOn, PastClaim
<1> QED
  BY <1>1, <1>2, LeaseMoves

\* The lease of a handler that goes on is not issued again.
LEMMA OthersLease ==
  ASSUME TypeInv, LeaseAfterClaim, Issued, [Next]_vars,
         NEW v \in Workers, NEW w \in Workers, GoesOn(w), LeaseOf(v)' = LeaseOf(w)'
  PROVE  LeaseOf(v) = LeaseOf(w)
<1>1. LeaseOf(w)' = LeaseOf(w) /\ Leased(w) /\ Leased(v)'
  BY DEF GoesOn, Leased
<1>2. CASE GoesOn(v)
  BY <1>1, <1>2 DEF GoesOn
<1>3. CASE NewLease(v)
  BY <1>1, <1>3, NewLeaseEffect, NewLeaseIsNew
<1> QED
  BY <1>1, <1>2, <1>3, LeaseMoves

LEMMA OwnLeaseStep ==
  ASSUME TypeInv, LeaseAfterClaim, Issued, [Next]_vars, NEW w \in Workers,
         \A v \in Workers : OwnLease(v)
  PROVE  OwnLease(w)'
<1> SUFFICES ASSUME Leased(w)' PROVE OwnLease(w)'
  BY DEF OwnLease
<1>1. CASE NewLease(w)
  <2>1. /\ LeaseOf(w)' = issued + 1 /\ JobOf(w)' = JobOf(w) /\ SessionOf(w)' = SessionOf(w)
        /\ \A v \in Workers : v # w => LeaseOf(v)' = LeaseOf(v)
    BY <1>1, NewLeaseEffect DEF LeaseOf, JobOf, SessionOf
  <2>2. \A v \in Workers : LeaseOf(v)' = issued + 1 => v = w
    BY <2>1, NewLeaseIsNew
  <2>3. \A v \in Workers, j \in JobIds : held'[v][j] = issued + 1 => v = w /\ j = JobOf(w)
    BY <1>1, NewLeaseEffect, NewLeaseIsNew
  <2>4. \A f \in failing' : f.lease # issued + 1
    BY NewLeaseIsNew
  <2>5. \A s \in Sessions : row'[s].leaseId = issued + 1 => s = SessionOf(w)
    BY <1>1, NewLeaseEffect, NewLeaseIsNew
  <2> QED
    BY <2>1, <2>2, <2>3, <2>4, <2>5 DEF OwnLease
<1>2. CASE GoesOn(w)
  <2>1. /\ Leased(w) /\ LeaseOf(w)' = LeaseOf(w)
        /\ JobOf(w)' = JobOf(w) /\ SessionOf(w)' = SessionOf(w)
    BY <1>2 DEF GoesOn, JobOf, SessionOf
  <2>2. /\ \A v \in Workers : LeaseOf(v) = LeaseOf(w) => v = w
        /\ \A v \in Workers, j \in JobIds : held[v][j] = LeaseOf(w) => v = w /\ j = JobOf(w)
        /\ \A f \in failing : f.lease # LeaseOf(w)
        /\ \A s \in Sessions : row[s].leaseId = LeaseOf(w) => s = SessionOf(w)
    BY <2>1 DEF OwnLease
  <2>3. LeaseOf(w) # issued + 1 /\ LeaseOf(w) # NoLease
    BY <2>1, NewLeaseIsNew DEF Leased
  <2>4. \A v \in Workers : LeaseOf(v)' = LeaseOf(w) => v = w
    BY <1>2, <2>1, <2>2, OthersLease
  <2>5. \A v \in Workers, j \in JobIds : held'[v][j] = LeaseOf(w) => v = w /\ j = JobOf(w)
    BY <2>2, <2>3, HeldMoves
  <2>6. ASSUME NEW f \in failing' PROVE f.lease # LeaseOf(w)
    <3>1. CASE QuietQueue
      BY <2>2, <3>1 DEF QuietQueue
    <3>2. CASE BookMove
      <4>1. PICK v \in Workers, j \in JobIds : Books(v, j)
        BY <3>2 DEF BookMove
      <4>2. f \in failing \/ f.lease = held[v][j]
        BY <4>1, BookEffect
      <4>3. v # w
        <5>1. handler'[v] = Idle
          BY <4>1 DEF Books
        <5> QED
          BY <2>1, <2>3, <5>1 DEF LeaseOf, Idle
      <4> QED
        BY <2>2, <4>2, <4>3
    <3> QED
      BY <3>1, <3>2, QueueMoves
  <2>7. \A s \in Sessions : row'[s].leaseId = LeaseOf(w) => s = SessionOf(w)
    BY <2>2, <2>3, RowLeaseMoves
  <2> QED
    BY <2>1, <2>4, <2>5, <2>6, <2>7 DEF OwnLease
<1> QED
  BY <1>1, <1>2, LeaseMoves

LEMMA LeaseInvStep == LeaseInv /\ [Next]_vars => LeaseInv'
<1> SUFFICES ASSUME LeaseInv, [Next]_vars PROVE LeaseInv'
  OBVIOUS
<1>1. /\ SweepInv /\ TypeInv /\ LeaseAfterClaim /\ PastClaim /\ Issued
      /\ \A w \in Workers : OwnLease(w)
  BY DEF LeaseInv, SweepInv, RowInv
<1> QED
  BY <1>1, SweepInvStep, PastClaimStep, IssuedStep, OwnLeaseStep DEF LeaseInv

LEMMA LeaseInvInit == Init => LeaseInv
<1> SUFFICES ASSUME Init PROVE LeaseInv
  OBVIOUS
<1>1. SweepInv
  BY RowInit DEF Init, SweepInv, SweepCurrent, IdleSweep
<1>2. \A w \in Workers : LeaseOf(w) = NoLease
  BY DEF Init, LeaseOf, Idle
<1>3. Issued
  BY <1>2 DEF Init, Issued, LeasesIssued, NewRow, NoLease
<1> QED
  BY <1>1, <1>2, <1>3 DEF LeaseInv, PastClaim, OwnLease, Leased

-----------------------------------------------------------------------------
(***************************************************************************)
(* heldLeases.  A failed run sets its job aside (failed, or delayed until  *)
(* the backoff is over), so unless the listener outlives the backoff, its  *)
(* delete cannot hit the entry of a later run of the same job.             *)
(***************************************************************************)
SetAside ==
  "slowListener" \notin suffered =>
    /\ \A f \in failing : jobs[f.job].state \in {"delayed", "failed"}
    /\ \A f \in failing, w \in Workers : f.worker = w => f.job # JobOf(w)
    /\ \A w \in Workers : Leased(w) => held[w][JobOf(w)] = LeaseOf(w)

\* A job that was set aside stays so until its backoff is over.
LEMMA AsideStays ==
  ASSUME TypeInv, [Next]_vars, NEW j \in JobIds, jobs[j].state \in {"delayed", "failed"}
  PROVE  jobs'[j].state = jobs[j].state \/ BackoffOver(j)
<1>1. jobs \in [JobIds -> Job] /\ \A i \in JobIds : jobs[i] \in Job
  BY DEF TypeInv, TypeOK
<1>2. ASSUME NEW i \in JobIds, i # j \/ jobs[i].state \notin {"delayed", "failed"},
             NEW st, NEW o, SetJob(i, st, o)
      PROVE  jobs'[j] = jobs[j]
  BY <1>1, <1>2 DEF SetJob
<1>3. ASSUME NEW w \in Workers, Take(w) \/ FailStalled(w) PROVE jobs'[j] = jobs[j]
  BY <1>1, <1>2, <1>3 DEF Take, FailStalled, FailAttempt
<1>4. ASSUME NEW w \in Workers, handler[w].pc # "idle", Return(w) \/ Throw(w) \/ UNCHANGED jobs
      PROVE  jobs'[j] = jobs[j]
  <2>1. JobOf(w) \in JobIds
    BY <1>4, SessionType
  <2>2. OwnsJob(w) => JobOf(w) # j
    BY <2>1 DEF OwnsJob
  <2>3. CASE Return(w)
    BY <1>2, <2>1, <2>2, <2>3 DEF Return
  <2>4. CASE Throw(w)
    BY <1>1, <2>1, <2>2, <2>4 DEF Throw, FailAttempt
  <2> QED
    BY <1>4, <2>3, <2>4
<1>5. ASSUME NEW w \in Workers, HandlerStep(w) \/ ClaimError(w) \/ LaterDbError(w) \/ GithubError(w)
      PROVE  jobs'[j] = jobs[j]
  <2>1. handler[w].pc # "idle"
    BY <1>5, GithubPcs
    DEF HandlerStep, Claim, Review, Renew, FindCheck, Persist, Complete, ClaimError, LaterDbError,
        PostingPCs, At
  <2>2. Return(w) \/ Throw(w) \/ UNCHANGED jobs
    BY <1>5 DEF HandlerStep, Claim, Review, Renew, PostComments, PostSummary, FindCheck, WriteCheck,
                Persist, Complete, ClaimError, LaterDbError, GithubError
  <2> QED
    BY <1>4, <2>1, <2>2
<1>6. ASSUME NEW w \in Workers, Crash(w) PROVE jobs'[j].state = jobs[j].state
  BY <1>1, <1>6 DEF Crash, Job
<1>7. ASSUME NEW x \in Sweeps, Requeue(x) PROVE jobs'[j] = jobs[j]
  BY <1>1, <1>7 DEF Requeue
<1>8. ASSUME NEW i \in JobIds, Redeliver(i) PROVE jobs'[j] = jobs[j]
  BY <1>1, <1>8 DEF Redeliver
<1>9. ASSUME NEW i \in JobIds, BackoffOver(i), i # j PROVE jobs'[j] = jobs[j]
  BY <1>2, <1>9 DEF BackoffOver
<1>10. CASE UNCHANGED jobs
  BY <1>10
<1> QED
  BY <1>3, <1>5, <1>6, <1>7, <1>8, <1>9, <1>10
  DEF Next, vars, Heartbeat, ListenerStep, ListenerWrite, ListenerForget, SweepStep, Scan, Flip,
      SweepError, LeaseExpires, Wedge, Uninstall, Quieten

\* A listener goes on, or starts with a failed attempt of its job.
LEMMA ListenerMoves ==
  ASSUME TypeInv, [Next]_vars, NEW f \in failing'
  PROVE  \/ \E g \in failing : f.worker = g.worker /\ f.job = g.job
         \/ /\ handler'[f.worker] = Idle
            /\ jobs'[f.job].state \in {"delayed", "failed"}
<1>1. CASE failing' \subseteq failing
  BY <1>1
<1>2. ASSUME NEW w \in Workers, NEW j \in JobIds, Books(w, j)
      PROVE  \/ f \in failing
             \/ /\ handler'[f.worker] = Idle
                /\ jobs'[f.job].state \in {"delayed", "failed"}
  <2> DEFINE g == [worker |-> w, job |-> j, lease |-> held[w][j],
                   last |-> jobs[j].attemptsMade + 1 >= Attempts(j), pc |-> "write"]
  <2>1. failing' = failing \cup {g} /\ jobs'[j].state \in {"delayed", "failed"}
    BY <1>2, BookEffect
  <2>2. g.worker = w /\ g.job = j /\ handler'[w] = Idle
    BY <1>2 DEF Books
  <2> HIDE DEF g
  <2> QED
    BY <2>1, <2>2
<1>3. ASSUME NEW w \in Workers, HandlerStep(w) \/ ClaimError(w) \/ LaterDbError(w) \/ GithubError(w)
      PROVE  failing' \subseteq failing \/ (Books(w, JobOf(w)) /\ JobOf(w) \in JobIds)
  <2>1. failing' \subseteq failing \/ (handler[w].pc # "idle" /\ Throw(w))
    BY <1>3 DEF HandlerStep, Claim, Review, Renew, PostComments, PostSummary, FindCheck, WriteCheck,
                Persist, Complete, ClaimError, LaterDbError, GithubError, At
  <2> QED
    BY <2>1, ThrowBooks
<1>4. ASSUME NEW g \in failing, ListenerWrite(g)
      PROVE  \E h \in failing : f.worker = h.worker /\ f.job = h.job
  <2> DEFINE next == [g EXCEPT !.pc = "forget"]
  <2>1. next.worker = g.worker /\ next.job = g.job
    BY DEF TypeInv, TypeOK, Listener
  <2>2. failing' = (failing \ {g}) \cup {next}
    BY <1>4 DEF ListenerWrite
  <2> HIDE DEF next
  <2> QED
    BY <2>1, <2>2
<1>5. \/ failing' \subseteq failing
      \/ \E w \in Workers : HandlerStep(w) \/ ClaimError(w) \/ LaterDbError(w) \/ GithubError(w)
      \/ \E w \in Workers : FailStalled(w)
      \/ \E g \in failing : ListenerWrite(g)
  BY DEF Next, vars, Take, Heartbeat, Crash, ListenerStep, ListenerForget, SweepStep, Scan, Requeue,
         Flip, SweepError, LeaseExpires, Wedge, Uninstall, Quieten, Redeliver, BackoffOver
<1> QED
  BY <1>1, <1>2, <1>3, <1>4, <1>5, StalledBooks

\* A handler keeps its job, ends, or takes a job that waits.
LEMMA JobMoves ==
  ASSUME TypeInv, [Next]_vars, NEW w \in Workers
  PROVE  \/ JobOf(w)' \in {JobOf(w), NoJob}
         \/ /\ JobOf(w)' \in JobIds /\ jobs[JobOf(w)'].state = "waiting"
            /\ UNCHANGED failing
<1>1. handler \in [Workers -> Handler]
  BY DEF TypeInv, TypeOK
<1>2. ASSUME NEW v \in Workers, NEW pc, Goto(v, pc) PROVE JobOf(w)' = JobOf(w)
  BY <1>1, <1>2 DEF Goto, JobOf, Handler
<1>3. ASSUME NEW v \in Workers, handler' = [handler EXCEPT ![v] = Idle]
      PROVE  JobOf(w)' \in {JobOf(w), NoJob}
  BY <1>1, <1>3 DEF JobOf, Idle
<1>4. ASSUME NEW v \in Workers, Take(v)
      PROVE  \/ JobOf(w)' = JobOf(w)
             \/ /\ JobOf(w)' \in JobIds /\ jobs[JobOf(w)'].state = "waiting"
                /\ UNCHANGED failing
  <2>1. PICK j \in JobIds : /\ jobs[j].state = "waiting"
                            /\ handler' = [handler EXCEPT ![v] =
                                 [pc |-> "claim", job |-> j, lease |-> NoLease]]
    BY <1>4 DEF Take
  <2>2. UNCHANGED failing
    BY <1>4 DEF Take
  <2> QED
    BY <1>1, <2>1, <2>2 DEF JobOf
<1>5. ASSUME NEW v \in Workers, Claim(v) PROVE JobOf(w)' \in {JobOf(w), NoJob}
  <2>1. CASE Return(v)
    BY <1>3, <2>1 DEF Return
  <2>2. CASE handler' = [handler EXCEPT ![v] = [@ EXCEPT !.pc = "review", !.lease = issued + 1]]
    BY <1>1, <2>2 DEF JobOf, Handler
  <2> QED
    BY <1>5, <2>1, <2>2 DEF Claim
<1>6. ASSUME NEW v \in Workers,
             HandlerStep(v) \/ ClaimError(v) \/ LaterDbError(v) \/ GithubError(v) \/ Crash(v)
      PROVE  JobOf(w)' \in {JobOf(w), NoJob}
  BY <1>2, <1>3, <1>5, <1>6
  DEF HandlerStep, Review, Renew, PostComments, PostSummary, FindCheck, WriteCheck, Persist,
      Complete, ClaimError, LaterDbError, GithubError, Crash, Throw, Return
<1>7. CASE UNCHANGED handler
  BY <1>7 DEF JobOf
<1> QED
  BY <1>4, <1>6, <1>7
  DEF Next, vars, FailStalled, Heartbeat, ListenerStep, ListenerWrite, ListenerForget, SweepStep, Scan, Requeue,
      Flip, SweepError, LeaseExpires, Wedge, Uninstall, Quieten, Redeliver, BackoffOver

\* An entry of heldLeases changes when its worker claims, ends or dies, or
\* when a listener of the entry's worker and job deletes it.
LEMMA HeldChanges ==
  ASSUME TypeInv, [Next]_vars, NEW w \in Workers, NEW j \in JobIds, Leased(w),
         held'[w][j] # held[w][j]
  PROVE  ~ GoesOn(w) \/ \E f \in failing : f.worker = w /\ f.job = j
<1>1. /\ held \in [Workers -> [JobIds -> Nat]] /\ handler \in [Workers -> Handler]
      /\ held'[w][j] # held[w][j]
  BY DEF TypeInv, TypeOK
<1>2. ASSUME NEW v \in Workers, NEW k, NEW l, held' = [held EXCEPT ![v][k] = l]
      PROVE  v = w /\ k = j
  BY <1>1, <1>2
<1>3. ASSUME handler' = [handler EXCEPT ![w] = Idle] PROVE ~ GoesOn(w)
  BY <1>1, <1>3 DEF GoesOn, Leased, LeaseOf, Idle
<1>4. ASSUME NEW v \in Workers, Claim(v) PROVE ~ GoesOn(w)
  <2>1. CASE /\ handler' = [handler EXCEPT ![v] = [@ EXCEPT !.pc = "review", !.lease = issued + 1]]
             /\ Register(v, issued + 1)
    <3>1. v = w
      BY <1>2, <2>1 DEF Register
    <3>2. handler[w].pc = "claim" /\ handler'[w].pc = "review"
      BY <1>1, <1>4, <2>1, <3>1 DEF Claim, At, Handler
    <3> QED
      BY <3>2 DEF GoesOn
  <2> QED
    BY <1>1, <1>4, <2>1 DEF Claim
<1>5. ASSUME NEW v \in Workers, Complete(v) PROVE ~ GoesOn(w)
  BY <1>1, <1>2, <1>3, <1>5 DEF Complete, Return
<1>6. ASSUME NEW v \in Workers, Crash(v) PROVE ~ GoesOn(w)
  BY <1>1, <1>3, <1>6 DEF Crash
<1>7. ASSUME NEW f \in failing, ListenerForget(f) PROVE f.worker = w /\ f.job = j
  <2>1. f.worker \in Workers
    BY DEF TypeInv, TypeOK, Listener
  <2> QED
    BY <1>2, <1>7, <2>1 DEF ListenerForget
<1> QED
  BY <1>1, <1>4, <1>5, <1>6, <1>7
  DEF Next, vars, HandlerStep, Take, FailStalled, Review, Renew, PostComments, PostSummary,
      FindCheck, WriteCheck, Persist, Heartbeat, ClaimError, LaterDbError, GithubError, ListenerStep, ListenerWrite,
      SweepStep, Scan, Requeue, Flip, SweepError, LeaseExpires, Wedge, Uninstall, Quieten,
      Redeliver, BackoffOver

LEMMA SetAsideStep ==
  ASSUME TypeInv, LeaseAfterClaim, PastClaim, SetAside, [Next]_vars
  PROVE  SetAside'
<1> SUFFICES ASSUME "slowListener" \notin suffered' PROVE SetAside'
  BY DEF SetAside
<1>1. /\ \A f \in failing : f.job \in JobIds /\ f.worker \in Workers
      /\ \A f \in failing' : f.job \in JobIds /\ f.worker \in Workers
  BY TypeStep DEF TypeInv, TypeOK, Listener
<1>2. /\ \A f \in failing : jobs[f.job].state \in {"delayed", "failed"}
      /\ \A f \in failing, w \in Workers : f.worker = w => f.job # JobOf(w)
      /\ \A w \in Workers : Leased(w) => held[w][JobOf(w)] = LeaseOf(w)
  BY SufferedGrows DEF SetAside
<1>3. NoJob \notin JobIds
  BY ConstantsAssumption DEF NoJob, JobIds
<1>4. ASSUME NEW f \in failing' PROVE jobs'[f.job].state \in {"delayed", "failed"}
  <2>1. ASSUME NEW g \in failing, f.job = g.job
        PROVE  jobs'[f.job].state \in {"delayed", "failed"}
    <3>1. ~ BackoffOver(g.job)
      BY DEF BackoffOver, Fault
    <3> QED
      BY <1>1, <1>2, <2>1, <3>1, AsideStays
  <2> QED
    BY <2>1, ListenerMoves
<1>5. ASSUME NEW f \in failing', f.job = JobOf(f.worker)' PROVE FALSE
  <2>1. f.worker \in Workers /\ f.job # NoJob
    BY <1>1, <1>3
  <2>2. ASSUME NEW g \in failing, f.worker = g.worker, f.job = g.job PROVE FALSE
    <3>1. f.job # JobOf(f.worker) /\ jobs[f.job].state # "waiting"
      BY <1>1, <1>2, <2>2
    <3> QED
      BY <1>5, <2>1, <3>1, JobMoves
  <2>3. ASSUME handler'[f.worker] = Idle PROVE FALSE
    BY <1>5, <2>1, <2>3 DEF JobOf, Idle
  <2> QED
    BY <2>2, <2>3, ListenerMoves
<1>6. ASSUME NEW w \in Workers, Leased(w)' PROVE held'[w][JobOf(w)'] = LeaseOf(w)'
  <2>1. CASE NewLease(w)
    BY <2>1, NewLeaseEffect
  <2>2. CASE GoesOn(w)
    <3>1. Leased(w) /\ LeaseOf(w)' = LeaseOf(w) /\ JobOf(w)' = JobOf(w)
      BY <2>2 DEF GoesOn
    <3>2. JobOf(w) \in JobIds
      <4>1. handler[w].pc # "idle"
        BY <3>1 DEF PastClaim
      <4> QED
        BY <4>1, SessionType
    <3>3. held'[w][JobOf(w)] = held[w][JobOf(w)]
      BY <1>2, <2>2, <3>1, <3>2, HeldChanges
    <3> QED
      BY <1>2, <3>1, <3>3
  <2> QED
    BY <1>6, <2>1, <2>2, LeaseMoves
<1> QED
  BY <1>1, <1>4, <1>5, <1>6 DEF SetAside

\* heldLeases has the lease of every job in flight: a handler that throws
\* after its claim hands its own lease to the listener, which is what fences
\* the listener's write.
THEOREM LeaseRegisteredInFlight == Spec => []InFlightLeaseRegistered
<1> DEFINE Inv == LeaseInv /\ SetAside
<1>1. Init => Inv
  <2> SUFFICES ASSUME Init PROVE Inv
    OBVIOUS
  <2>1. \A w \in Workers : ~ Leased(w)
    BY DEF Init, Leased, LeaseOf, Idle
  <2>2. SetAside
    BY <2>1 DEF Init, SetAside
  <2> QED
    BY <2>2, LeaseInvInit
<1>2. Inv /\ [Next]_vars => Inv'
  BY LeaseInvStep, SetAsideStep DEF LeaseInv, SweepInv, RowInv
<1>3. Inv => InFlightLeaseRegistered
  BY DEF SetAside, InFlightLeaseRegistered, Leased
<1> QED
  BY <1>1, <1>2, <1>3, PTL DEF Spec

-----------------------------------------------------------------------------
(***************************************************************************)
(* One writer per session.  Unless a live worker goes quiet, the lease of  *)
(* a handler stays on its row, with a recent heartbeat, until the handler  *)
(* ends or the row is settled; either way nobody else can claim the        *)
(* session.  A sweep needs a quiet heartbeat; a listener has the lease of  *)
(* an attempt that ended; a last attempt without a lease settles the row.  *)
(***************************************************************************)
Guarded(w) ==
  LET s == SessionOf(w) IN
  Leased(w) =>
    /\ row[s].status \in Terminal \/ (row[s].leaseId = LeaseOf(w) /\ row[s].heartbeatAt = "recent")
    /\ \A v \in Workers : Leased(v) /\ SessionOf(v) = s => v = w
Alone == "wedge" \notin suffered => \A w \in Workers : Guarded(w)

\* Who lets a heartbeat go quiet.
LEMMA QuietReason ==
  ASSUME TypeInv, [Next]_vars, NEW s \in Sessions,
         row[s].heartbeatAt # "quiet", row'[s].heartbeatAt = "quiet"
  PROVE  LeaseExpires(s) \/ Wedge(s)
<1>1. row \in [Sessions -> Row] /\ row[s] \in Row /\ row'[s] # row[s]
      /\ row'[s].heartbeatAt = "quiet"
  BY DEF TypeInv, TypeOK
<1>2. /\ Claimed(row[s], issued + 1).heartbeatAt # "quiet"
      /\ Renewed(row[s]).heartbeatAt # "quiet"
      /\ \A st : Unowned(row[s], st).heartbeatAt # "quiet"
      /\ \A l : Completed(row[s], l).heartbeatAt # "quiet"
  BY <1>1 DEF Claimed, Renewed, Unowned, Completed, Row
<1>3. ASSUME NEW t, NEW r, Write(t, r) PROVE t = s /\ row'[s] = r
  BY <1>1, <1>3 DEF Write
<1>4. ASSUME NEW t, \/ ClaimWrite(t) \/ Write(t, Renewed(row[t]))
                    \/ \E st : Write(t, Unowned(row[t], st))
                    \/ \E l : Write(t, Completed(row[t], l))
      PROVE  FALSE
  BY <1>1, <1>2, <1>3, <1>4 DEF ClaimWrite
<1>5. ASSUME NEW w \in Workers, HandlerStep(w) \/ ClaimError(w) \/ LaterDbError(w) PROVE FALSE
  BY <1>1, <1>4, <1>5
  DEF HandlerStep, Claim, Review, Renew, PostComments, PostSummary, FindCheck, WriteCheck, Persist,
      Complete, CompleteWrite, ClaimError, LaterDbError
<1>6. ASSUME NEW w \in Workers,
             Take(w) \/ FailStalled(w) \/ Heartbeat(w) \/ Crash(w) \/ GithubError(w)
      PROVE FALSE
  BY <1>1, <1>4, <1>6 DEF Take, FailStalled, Heartbeat, Crash, GithubError
<1>7. ASSUME ListenerStep PROVE FALSE
  BY <1>1, <1>4, <1>7 DEF ListenerStep, ListenerWrite, ListenerForget
<1>8. ASSUME NEW x \in Sweeps, SweepStep(x) \/ SweepError(x) PROVE FALSE
  <2>1. CASE Flip(x)
    <3>1. row'[s] = row[s] \/ \E st : row'[s] = Unowned(row[s], st)
      BY <1>1, <2>1 DEF Flip
    <3> QED
      BY <1>1, <1>2, <3>1
  <2> QED
    BY <1>1, <1>8, <2>1 DEF SweepStep, Scan, Requeue, SweepError
<1>9. ASSUME NEW t \in Sessions, LeaseExpires(t) \/ Wedge(t) \/ Uninstall(t)
      PROVE  LeaseExpires(s) \/ Wedge(s)
  BY <1>3, <1>4, <1>9 DEF LeaseExpires, Wedge, Quieten, Uninstall
<1> QED
  BY <1>1, <1>5, <1>6, <1>7, <1>8, <1>9 DEF Next, vars, Redeliver, BackoffOver

\* A guarded session is claimed by nobody.
LEMMA GuardedNotClaimed ==
  ASSUME RowCoherent, NEW w \in Workers, Leased(w), Guarded(w), SessionOf(w) \in Sessions
  PROVE  ~ CanClaim(row[SessionOf(w)])
BY DEF Guarded, Leased, CanClaim, Claimable, Terminal, RowCoherent

\* What ends the lease of a row that a live handler heartbeats.
LEMMA GuardedRowStep ==
  ASSUME LeaseInv, [Next]_vars, "wedge" \notin suffered', NEW w \in Workers, Leased(w),
         NEW s \in Sessions, row[s].leaseId = LeaseOf(w), row[s].heartbeatAt = "recent"
  PROVE  \/ row'[s].status \in Terminal
         \/ row'[s].leaseId = LeaseOf(w) /\ row'[s].heartbeatAt = "recent"
<1>1. /\ SweepInv /\ RowInv /\ TypeInv /\ LeaseAfterClaim /\ RowCoherent /\ RowCoherent'
      /\ OwnLease(w) /\ row[s] \in Row /\ row'[s] \in Row
  BY SweepInvStep DEF LeaseInv, SweepInv, RowInv, TypeInv, TypeOK
<1>2. row[s].status = "RUNNING"
  BY <1>1 DEF RowCoherent, Leased
<1>3. CASE row'[s].status # row[s].status
  <2>1. /\ Claimed(row[s], issued + 1).status = "RUNNING"
        /\ \A l : Completed(row[s], l).status = "COMPLETED"
        /\ \A st : Unowned(row[s], st).status = st
    BY <1>1 DEF Claimed, Completed, Unowned, Row
  <2>2. ASSUME NEW f \in failing, CanRelease(row[s], f.lease) PROVE FALSE
    BY <1>1, <2>2 DEF OwnLease, CanRelease
  <2>3. ASSUME NEW x \in Sweeps, Stalled(row[s], s \in sweep[x].behind) PROVE FALSE
    BY <1>1, <1>2, <2>3 DEF Stalled, SweepInv, SweepCurrent
  <2> QED
    BY <1>1, <1>2, <1>3, <2>1, <2>2, <2>3, StatusMoves DEF StatusMove, Terminal
<1>4. CASE row'[s].status = row[s].status
  <2>1. row'[s].leaseId # NoLease /\ row'[s].heartbeatAt # "none"
    BY <1>1, <1>2, <1>4 DEF RowCoherent
  <2>2. ~ ClaimWrite(s)
    BY <1>2 DEF ClaimWrite, CanClaim, Claimable
  <2>3. row'[s].leaseId = LeaseOf(w)
    BY <1>1, <2>1, <2>2, RowLeaseMoves
  <2>4. ~ LeaseExpires(s) /\ ~ Wedge(s)
    BY DEF LeaseExpires, Alive, Wedge, Fault
  <2>5. row'[s].heartbeatAt # "quiet"
    BY <1>1, <2>4, QuietReason
  <2> QED
    BY <1>1, <2>1, <2>3, <2>5 DEF Row
<1> QED
  BY <1>3, <1>4

LEMMA AloneStep ==
  ASSUME LeaseInv, Alone, [Next]_vars PROVE Alone'
<1> SUFFICES ASSUME "wedge" \notin suffered', NEW w \in Workers, Leased(w)' PROVE Guarded(w)'
  BY DEF Alone, Guarded
<1>1. /\ RowInv /\ TypeInv /\ LeaseAfterClaim /\ RowCoherent /\ PastClaim
      /\ \A v \in Workers : Guarded(v)
  BY SufferedGrows DEF LeaseInv, SweepInv, RowInv, Alone
<1>2. \A v \in Workers : Leased(v) => SessionOf(v) \in Sessions
  BY <1>1, SessionType DEF PastClaim
\* A claim and a live handler exclude each other on a session.
<1>3. ASSUME NEW u \in Workers, NEW v \in Workers, NewLease(u), GoesOn(v), SessionOf(u) = SessionOf(v)
      PROVE  FALSE
  <2>1. CanClaim(row[SessionOf(u)]) /\ Leased(v)
    BY <1>1, <1>3, NewLeaseEffect DEF GoesOn
  <2> QED
    BY <1>1, <1>2, <1>3, <2>1, GuardedNotClaimed
<1>4. ASSUME NEW u \in Workers, GoesOn(u) \/ NewLease(u) PROVE SessionOf(u)' = SessionOf(u)
  BY <1>1, <1>4, NewLeaseEffect DEF GoesOn, JobOf, SessionOf
<1>5. ASSUME NEW v \in Workers, Leased(v)', SessionOf(v)' = SessionOf(w)' PROVE v = w
  <2>1. (GoesOn(v) \/ NewLease(v)) /\ (GoesOn(w) \/ NewLease(w))
    BY <1>1, <1>5, LeaseMoves
  <2>2. SessionOf(v) = SessionOf(w)
    BY <1>4, <1>5, <2>1
  <2>3. CASE GoesOn(v) /\ GoesOn(w)
    BY <1>1, <2>2, <2>3 DEF GoesOn, Guarded
  <2>4. CASE NewLease(v) /\ NewLease(w)
    <3>1. v # w => handler'[w] = handler[w]
      BY <1>1, <2>4, NewLeaseEffect
    <3>2. LeaseOf(w) = NoLease
      BY <1>1, <2>4 DEF NewLease, At, PastClaim, Leased
    <3> QED
      BY <3>1, <3>2 DEF Leased, LeaseOf
  <2> QED
    BY <1>3, <2>1, <2>2, <2>3, <2>4
<1>6. LET s == SessionOf(w)' IN
      row'[s].status \in Terminal \/ (row'[s].leaseId = LeaseOf(w)' /\ row'[s].heartbeatAt = "recent")
  <2> DEFINE s == SessionOf(w)
  <2>1. CASE NewLease(w)
    <3>1. row[s] \in Row /\ row'[s] = Claimed(row[s], issued + 1) /\ LeaseOf(w)' = issued + 1
      BY <1>1, <2>1, NewLeaseEffect DEF TypeInv, TypeOK
    <3> QED
      BY <1>4, <2>1, <3>1 DEF Claimed, Row
  <2>2. CASE GoesOn(w)
    <3>1. Leased(w) /\ LeaseOf(w)' = LeaseOf(w) /\ s \in Sessions /\ SessionOf(w)' = s
      BY <1>2, <1>4, <2>2 DEF GoesOn
    <3>2. CASE row[s].status \in Terminal
      BY <1>1, <3>1, <3>2, SettledRow DEF Terminal
    <3>3. CASE row[s].leaseId = LeaseOf(w) /\ row[s].heartbeatAt = "recent"
      BY <3>1, <3>3, GuardedRowStep
    <3> QED
      BY <1>1, <3>1, <3>2, <3>3 DEF Guarded
  <2> QED
    BY <1>1, <2>1, <2>2, LeaseMoves
<1> QED
  BY <1>5, <1>6 DEF Guarded

LEMMA AloneInit == Init => Alone
BY DEF Init, Alone, Guarded, Leased, LeaseOf, Idle

\* Unless a live worker goes quiet, one attempt at a time writes to the pull
\* request of a session, whatever crashes, redeliveries and errors happen.
THEOREM OneAttemptWrites == Spec => []OneWriterAtATime
<1> DEFINE Inv == LeaseInv /\ Alone
<1>1. Inv /\ [Next]_vars => Inv'
  BY LeaseInvStep, AloneStep
<1>2. Inv => OneWriterAtATime
  <2> SUFFICES ASSUME Inv, "wedge" \notin suffered, NEW v \in Workers, NEW w \in Workers,
                      handler[v].pc \in PostingPCs, handler[w].pc \in PostingPCs,
                      SessionOf(v) = SessionOf(w)
               PROVE  v = w
    BY DEF OneWriterAtATime
  <2>1. Leased(v) /\ Leased(w)
    BY DEF LeaseInv, SweepInv, RowInv, LeaseAfterClaim, PostingPCs, Leased
  <2> QED
    BY <2>1 DEF Alone, Guarded
<1> QED
  BY <1>1, <1>2, LeaseInvInit, AloneInit, PTL DEF Spec

-----------------------------------------------------------------------------
(***************************************************************************)
(* One check run.  The look-up and the create of upsertCheckRun are two    *)
(* calls; nobody creates the run in between, since the handler is alone.   *)
(***************************************************************************)
CreateIsFirst(w) == At(w, "createCheck") => checks[SessionOf(w)] = 0
ChecksInv ==
  "wedge" \notin suffered =>
    /\ \A s \in Sessions : checks[s] <= 1
    /\ \A w \in Workers : CreateIsFirst(w)

LEMMA CheckMoves ==
  ASSUME [Next]_vars
  PROVE  \/ UNCHANGED checks
         \/ \E w \in Workers : /\ At(w, "createCheck") /\ Goto(w, "persist")
                               /\ checks' = [checks EXCEPT ![SessionOf(w)] = @ + 1]
<1>1. ASSUME NEW w \in Workers, WriteCheck(w) \/ GithubError(w)
      PROVE  UNCHANGED checks \/ /\ At(w, "createCheck") /\ Goto(w, "persist")
                                 /\ checks' = [checks EXCEPT ![SessionOf(w)] = @ + 1]
  <2>1. CASE WriteCheck(w)
    BY <2>1 DEF WriteCheck, CreateCheck, github
  <2>2. CASE GithubError(w)
    BY <2>2 DEF GithubError, SendComments, SendSummary, CreateCheck, AfterGithub, At, github
  <2> QED
    BY <1>1, <2>1, <2>2
<1> QED
  BY <1>1
  DEF Next, vars, github, HandlerStep, Take, FailStalled, Claim, Review, Renew, PostComments,
      SendComments, PostSummary, SendSummary, FindCheck, Persist, Complete, Heartbeat, Crash,
      ClaimError, LaterDbError,
      ListenerStep, ListenerWrite, ListenerForget, SweepStep, Scan, Requeue, Flip, SweepError,
      LeaseExpires, Wedge, Uninstall, Quieten, Redeliver, BackoffOver

\* A handler comes to the create from a look-up that found no check run.
LEMMA CreateReason ==
  ASSUME TypeInv, [Next]_vars, NEW w \in Workers, At(w, "createCheck")'
  PROVE  \/ handler'[w] = handler[w]
         \/ /\ handler[w].pc = "findCheck" /\ checks[SessionOf(w)] = 0
            /\ SessionOf(w)' = SessionOf(w) /\ UNCHANGED checks
<1>1. handler \in [Workers -> Handler] /\ handler[w] \in Handler
      /\ checks \in [Sessions -> Nat] /\ handler'[w].pc = "createCheck"
  BY DEF TypeInv, TypeOK, At
<1>2. ASSUME NEW pc, Goto(w, pc)
      PROVE  handler'[w] = [handler[w] EXCEPT !.pc = pc]
  BY <1>1, <1>2 DEF Goto
<1>3. ASSUME NEW pc, Goto(w, pc), pc # "createCheck" PROVE FALSE
  <2>1. [handler[w] EXCEPT !.pc = pc].pc = pc
    BY <1>1 DEF Handler
  <2> QED
    BY <1>1, <1>2, <1>3, <2>1
<1>4. CASE FindCheck(w)
  <2>1. SessionOf(w) \in Sessions
    BY <1>4, SessionType DEF FindCheck, At
  <2>2. checks[SessionOf(w)] = 0 /\ Goto(w, "createCheck")
    <3>1. checks[SessionOf(w)] \in Nat
      BY <1>1, <2>1
    <3>2. ~ (checks[SessionOf(w)] > 0)
      BY <1>3, <1>4 DEF FindCheck
    <3> QED
      BY <1>4, <3>1, <3>2 DEF FindCheck
  <2>3. SessionOf(w)' = SessionOf(w)
    BY <1>1, <1>2, <2>2 DEF SessionOf, Handler
  <2> QED
    BY <1>4, <2>2, <2>3 DEF FindCheck, At, github
<1> QED
  BY <1>1, <1>3, <1>4, HandlerMoves, GithubPcs
  DEF PostComments, PostSummary, WriteCheck

LEMMA ChecksStep ==
  ASSUME LeaseInv, Alone, ChecksInv, [Next]_vars PROVE ChecksInv'
<1> SUFFICES ASSUME "wedge" \notin suffered'
             PROVE  /\ \A s \in Sessions : checks'[s] <= 1
                    /\ \A w \in Workers : CreateIsFirst(w)'
  BY DEF ChecksInv
<1>1. /\ TypeInv /\ LeaseAfterClaim /\ checks \in [Sessions -> Nat]
      /\ \A v \in Workers : Guarded(v)
      /\ \A s \in Sessions : checks[s] <= 1
      /\ \A w \in Workers : CreateIsFirst(w)
  BY SufferedGrows DEF LeaseInv, SweepInv, RowInv, TypeInv, TypeOK, Alone, ChecksInv
<1>2. CASE UNCHANGED checks
  BY <1>1, <1>2, CreateReason DEF CreateIsFirst, At, SessionOf
<1>3. ASSUME NEW v \in Workers, At(v, "createCheck"), Goto(v, "persist"),
             checks' = [checks EXCEPT ![SessionOf(v)] = @ + 1]
      PROVE  /\ \A s \in Sessions : checks'[s] <= 1
             /\ \A w \in Workers : CreateIsFirst(w)'
  <2>1. SessionOf(v) \in Sessions /\ checks[SessionOf(v)] = 0
    BY <1>1, <1>3, SessionType DEF At, CreateIsFirst
  <2>2. \A s \in Sessions : checks'[s] = IF s = SessionOf(v) THEN 1 ELSE checks[s]
    BY <1>1, <1>3, <2>1
  <2>3. ASSUME NEW w \in Workers, At(w, "createCheck")' PROVE checks'[SessionOf(w)'] = 0
    <3>1. handler'[v].pc = "persist"
      BY <1>1, <1>3 DEF Goto, TypeInv, TypeOK, Handler
    <3>2. checks' # checks
      BY <1>1, <2>1, <2>2
    <3>3. handler'[w] = handler[w] /\ At(w, "createCheck") /\ w # v
      BY <1>1, <2>3, <3>1, <3>2, CreateReason DEF At
    <3>4. Leased(v) /\ Leased(w)
      BY <1>1, <1>3, <3>3 DEF LeaseAfterClaim, Leased, At
    <3>5. SessionOf(w) # SessionOf(v) /\ SessionOf(w) \in Sessions
      BY <1>1, <3>3, <3>4, SessionType DEF Guarded, At
    <3> QED
      BY <1>1, <2>2, <3>3, <3>5 DEF CreateIsFirst, SessionOf
  <2> QED
    BY <1>1, <2>2, <2>3 DEF CreateIsFirst
<1> QED
  BY <1>2, <1>3, CheckMoves

\* Unless a live worker goes quiet, a commit has one check run, also when an
\* attempt that already wrote it is retried.
THEOREM CheckRunsUnique == Spec => []OneCheckRun
<1> DEFINE Inv == LeaseInv /\ Alone /\ ChecksInv
<1>1. Init => ChecksInv
  BY DEF Init, ChecksInv, CreateIsFirst, At, Idle
<1>2. Inv /\ [Next]_vars => Inv'
  BY LeaseInvStep, AloneStep, ChecksStep
<1>3. Inv => OneCheckRun
  BY DEF ChecksInv, OneCheckRun
<1> QED
  BY <1>1, <1>2, <1>3, LeaseInvInit, AloneInit, PTL DEF Spec

-----------------------------------------------------------------------------
(***************************************************************************)
(* Posted once.  Without a crash, a database error, a deletion or a wedge, *)
(* an attempt that sent its comments is not retried: until it ends, it is  *)
(* alone on its session, and it ends by settling the row.                  *)
(***************************************************************************)
HarmlessFaults == {"lockLost", "slowListener", "sweepError", "githubError"}
BeforePosting == {"review", "renew", "comment"}
Sent(s) ==
  /\ \A k, l \in comments[s] : k = l
  /\ comments[s] # {} =>
       /\ row[s].status \in Terminal \/ \E w \in Workers : Leased(w) /\ SessionOf(w) = s
       /\ \A w \in Workers : Leased(w) /\ SessionOf(w) = s => handler[w].pc \notin BeforePosting
SentInv == Only(HarmlessFaults) => \A s \in Sessions : Sent(s)

\* How an attempt ends that was alone on its session.
LEMMA EndReason ==
  ASSUME TypeInv, PastClaim, [Next]_vars, Only(HarmlessFaults)', NEW w \in Workers,
         Leased(w), ~ GoesOn(w)
  PROVE  handler[w].pc \in BeforePosting \/ row[SessionOf(w)].status = "GONE" \/ Complete(w)
<1>1. handler \in [Workers -> Handler] /\ handler[w].pc \notin {"idle", "claim"}
  BY DEF TypeInv, TypeOK, PastClaim
<1>2. ~ Crash(w) /\ ~ ClaimError(w) /\ ~ LaterDbError(w)
  BY DEF Crash, ClaimError, LaterDbError, Fault, Only, HarmlessFaults
<1>3. ASSUME UNCHANGED handler PROVE GoesOn(w)
  BY <1>3 DEF GoesOn, LeaseOf, JobOf
<1>4. ASSUME NEW v \in Workers, v # w, NEW h, handler' = [handler EXCEPT ![v] = h] PROVE GoesOn(w)
  BY <1>1, <1>4 DEF GoesOn, LeaseOf, JobOf
<1>5. ASSUME NEW v \in Workers, v # w,
             \/ Take(v) \/ HandlerStep(v) \/ Crash(v) \/ ClaimError(v) \/ LaterDbError(v)
             \/ GithubError(v)
      PROVE  GoesOn(w)
  <2>1. UNCHANGED handler \/ \E h : handler' = [handler EXCEPT ![v] = h]
    BY <1>5 DEF Take, HandlerStep, Claim, Review, Renew, PostComments, PostSummary, FindCheck,
                WriteCheck, Persist, Complete, Crash, ClaimError, LaterDbError, GithubError, Goto,
                Return, Throw
  <2> QED
    BY <1>3, <1>4, <1>5, <2>1
<1>6. ASSUME NEW pc, Goto(w, pc), pc \notin {"idle", "claim", "review", "renew", "comment"} PROVE GoesOn(w)
  BY <1>6, GotoGoesOn
<1>7. CASE Take(w) \/ Claim(w)
  BY <1>1, <1>7 DEF Take, Claim, At
<1>8. CASE Review(w) \/ Renew(w)
  BY <1>8 DEF Review, Renew, At, BeforePosting
<1>9. CASE PostComments(w) \/ PostSummary(w) \/ FindCheck(w) \/ WriteCheck(w) \/ GithubError(w)
  BY <1>6, <1>9, GithubPcs DEF PostComments, PostSummary, FindCheck, WriteCheck
<1>10. CASE Persist(w)
  BY <1>6, <1>10 DEF Persist
<1>11. \/ \E v \in Workers : \/ Take(v) \/ HandlerStep(v) \/ Crash(v) \/ ClaimError(v)
                             \/ LaterDbError(v) \/ GithubError(v)
       \/ UNCHANGED handler
  BY DEF Next, vars, FailStalled, Heartbeat, ListenerStep, ListenerWrite, ListenerForget, SweepStep, Scan,
         Requeue, Flip, SweepError, LeaseExpires, Wedge, Uninstall, Quieten, Redeliver, BackoffOver
<1> QED
  BY <1>2, <1>3, <1>5, <1>7, <1>8, <1>9, <1>10, <1>11 DEF HandlerStep

LEMMA CommentMoves ==
  ASSUME [Next]_vars
  PROVE  \/ UNCHANGED comments
         \/ \E w \in Workers : SendComments(w) /\ Goto(w, "summary")
<1>1. ASSUME NEW w \in Workers, GithubError(w)
      PROVE  UNCHANGED comments \/ (SendComments(w) /\ Goto(w, "summary"))
  <2>1. CASE SendComments(w)
    BY <1>1, <2>1 DEF GithubError, SendComments, AfterGithub, At
  <2> QED
    BY <1>1, <2>1 DEF GithubError, SendSummary, CreateCheck, github
<1>2. ASSUME NEW w \in Workers, HandlerStep(w)
      PROVE  UNCHANGED comments \/ (SendComments(w) /\ Goto(w, "summary"))
  BY <1>2 DEF HandlerStep, Claim, Review, Renew, PostComments, PostSummary, SendSummary, FindCheck,
              WriteCheck, CreateCheck, Persist, Complete, github
<1> QED
  BY <1>1, <1>2
  DEF Next, vars, github, Take, FailStalled, Heartbeat, Crash, ClaimError, LaterDbError,
      ListenerStep, ListenerWrite, ListenerForget, SweepStep, Scan, Requeue, Flip, SweepError,
      LeaseExpires, Wedge, Uninstall, Quieten, Redeliver, BackoffOver

\* A session that was posted, in a step that posts nothing on it.
LEMMA SentStays ==
  ASSUME LeaseInv, Alone, [Next]_vars, Only(HarmlessFaults)', NEW s \in Sessions,
         Sent(s), comments[s] # {}
  PROVE  /\ row'[s].status \in Terminal \/ \E w \in Workers : Leased(w)' /\ SessionOf(w)' = s
         /\ \A w \in Workers : Leased(w)' /\ SessionOf(w)' = s => handler'[w].pc \notin BeforePosting
<1>1. /\ SweepInv /\ RowInv /\ TypeInv /\ LeaseAfterClaim /\ RowCoherent /\ PastClaim
      /\ row[s] \in Row /\ row \in [Sessions -> Row]
  BY DEF LeaseInv, SweepInv, RowInv, TypeInv, TypeOK
<1>2. \A w \in Workers : Guarded(w)
  BY SufferedGrows DEF Alone, Only, HarmlessFaults
<1>3. /\ row[s].status \in Terminal \/ \E w \in Workers : Leased(w) /\ SessionOf(w) = s
      /\ \A w \in Workers : Leased(w) /\ SessionOf(w) = s => handler[w].pc \notin BeforePosting
  BY DEF Sent
<1>4. ASSUME NEW w \in Workers, Leased(w)', SessionOf(w)' = s PROVE handler'[w].pc \notin BeforePosting
  <2>1. CASE GoesOn(w)
    BY <1>3, <1>4, <2>1 DEF GoesOn, JobOf, SessionOf, BeforePosting
  <2>2. CASE NewLease(w)
    <3>1. SessionOf(w) = s /\ CanClaim(row[s])
      BY <1>1, <1>4, <2>2, NewLeaseEffect DEF JobOf, SessionOf
    <3>2. row[s].status \notin Terminal
      BY <3>1 DEF CanClaim, Claimable, Terminal
    <3> QED
      BY <1>1, <1>2, <1>3, <3>1, <3>2, GuardedNotClaimed
  <2> QED
    BY <1>1, <1>4, <2>1, <2>2, LeaseMoves
<1>5. CASE row[s].status \in Terminal
  BY <1>1, <1>4, <1>5, SettledRow DEF Terminal
<1>6. ASSUME row[s].status \notin Terminal, NEW w \in Workers, Leased(w), SessionOf(w) = s
      PROVE  row'[s].status \in Terminal \/ (Leased(w)' /\ SessionOf(w)' = s)
  <2>1. row[s].leaseId = LeaseOf(w)
    BY <1>2, <1>6 DEF Guarded
  <2>2. CASE GoesOn(w)
    BY <1>6, <2>2 DEF GoesOn, Leased, JobOf, SessionOf
  <2>3. CASE Complete(w)
    <3>1. CompleteWrite(w)
      BY <1>6, <2>1, <2>3 DEF Complete, Holds
    <3>2. row'[s] = Completed(row[s], LeaseOf(w))
      BY <1>1, <1>6, <3>1 DEF CompleteWrite, Write
    <3> QED
      BY <1>1, <3>2 DEF Completed, Unowned, Row, Terminal
  <2> QED
    BY <1>1, <1>3, <1>6, <2>2, <2>3, EndReason DEF Terminal
<1> QED
  BY <1>3, <1>4, <1>5, <1>6

LEMMA SentStep ==
  ASSUME LeaseInv, Alone, SentInv, [Next]_vars PROVE SentInv'
<1> SUFFICES ASSUME Only(HarmlessFaults)', NEW s \in Sessions PROVE Sent(s)'
  BY DEF SentInv
<1>1. Sent(s)
  BY SufferedGrows DEF SentInv, Only
<1>2. /\ TypeInv /\ LeaseAfterClaim /\ comments \in [Sessions -> SUBSET Nat] /\ PastClaim
      /\ handler \in [Workers -> Handler]
  BY DEF LeaseInv, SweepInv, RowInv, TypeInv, TypeOK
<1>3. CASE comments'[s] = comments[s]
  <2>1. CASE comments[s] = {}
    BY <1>3, <2>1 DEF Sent
  <2>2. CASE comments[s] # {}
    BY <1>1, <1>3, <2>2, SentStays DEF Sent
  <2> QED
    BY <2>1, <2>2
<1>4. ASSUME NEW v \in Workers, SendComments(v), Goto(v, "summary"), comments'[s] # comments[s]
      PROVE  Sent(s)'
  <2>1. /\ SessionOf(v) = s /\ handler[v].pc = "comment" /\ Goto(v, "summary")
        /\ comments'[s] = comments[s] \cup {LeaseOf(v)}
    BY <1>2, <1>4 DEF SendComments, At
  <2>2. Leased(v)
    BY <1>2, <2>1 DEF LeaseAfterClaim, Leased
  <2>3. comments[s] = {}
    BY <1>1, <2>1, <2>2 DEF Sent, BeforePosting
  <2>4. handler'[v] = [handler[v] EXCEPT !.pc = "summary"] /\ handler[v] \in Handler
    BY <1>2, <2>1 DEF Goto
  <2>5. Leased(v)' /\ SessionOf(v)' = s /\ handler'[v].pc = "summary"
    BY <2>1, <2>2, <2>4 DEF Leased, LeaseOf, SessionOf, Handler
  <2>6. Guarded(v)'
    BY AloneStep DEF Alone, Only, HarmlessFaults
  <2>7. \A w \in Workers : Leased(w)' /\ SessionOf(w)' = s => w = v
    BY <2>5, <2>6 DEF Guarded
  <2> QED
    BY <2>1, <2>3, <2>5, <2>7 DEF Sent, BeforePosting
<1>5. CASE UNCHANGED comments
  BY <1>3, <1>5
<1> QED
  BY <1>3, <1>4, <1>5, CommentMoves

\* Redelivered jobs, slow listeners, failed calls to GitHub and broken sweeps
\* never make two attempts of a session send comments.
THEOREM PostedOnceOnRedelivery == Spec => []RedeliveryPostsOnce
<1> DEFINE Inv == LeaseInv /\ Alone /\ SentInv
<1>1. Init => SentInv
  BY DEF Init, SentInv, Sent
<1>2. Inv /\ [Next]_vars => Inv'
  BY LeaseInvStep, AloneStep, SentStep
<1>3. Inv => RedeliveryPostsOnce
  <2> SUFFICES ASSUME Inv, Only(HarmlessFaults), NEW s \in Sessions PROVE PostedOnce(s)
    BY DEF RedeliveryPostsOnce, HarmlessFaults
  <2>1. \A k, l \in comments[s] : k = l
    BY DEF SentInv, Sent
  <2>2. CASE comments[s] = {}
    BY <2>2, FS_EmptySet DEF PostedOnce
  <2>3. CASE comments[s] # {}
    <3>1. PICK l \in comments[s] : comments[s] = {l}
      BY <2>1, <2>3
    <3>2. Cardinality({l}) = 1
      BY FS_Singleton
    <3> QED
      BY <3>1, <3>2 DEF PostedOnce
  <2> QED
    BY <2>2, <2>3
<1> QED
  BY <1>1, <1>2, <1>3, LeaseInvInit, AloneInit, PTL DEF Spec
=============================================================================
