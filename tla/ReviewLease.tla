---------------------------- MODULE ReviewLease ----------------------------
(***************************************************************************)
(* The conditional writes of apps/worker/src/lease.ts and of the recovery  *)
(* sweep on one row of the ReviewSession table.  Each is one updateMany:   *)
(* a predicate on the row (its `where`) and the row it leaves (its         *)
(* `data`).  A row that does not match is left alone and the count is 0.   *)
(*                                                                         *)
(* A lease id (a random UUID in the code) is a positive number that is     *)
(* issued once; NoLease stands for null.  heartbeatAt keeps only what the  *)
(* code compares it for: "recent", or "quiet" once it is older than        *)
(* LEASE_TIMEOUT_MS.  workerId is written with leaseId and read for log    *)
(* lines only, so it is left out.  summary is the lease of the attempt     *)
(* whose summary was stored.  "GONE" stands for a row that was deleted.    *)
(***************************************************************************)
EXTENDS Naturals

NoLease == 0

Claimable == {"QUEUED", "RETRYING"}
Terminal  == {"COMPLETED", "FAILED", "GONE"}
Statuses  == Claimable \cup {"RUNNING"} \cup Terminal

Row == [status       : Statuses,
        leaseId      : Nat,
        heartbeatAt  : {"none", "recent", "quiet"},
        attemptCount : Nat,
        summary      : Nat]

\* Definitions named Mut... are slips a change of the code could make in the
\* definition that follows them; no specification uses them.

\* The row the webhook creates (the schema's defaults).
MutNewRow == [status |-> "PENDING", leaseId |-> NoLease, heartbeatAt |-> "none",
              attemptCount |-> 0, summary |-> NoLease]
NewRow == [status |-> "QUEUED", leaseId |-> NoLease, heartbeatAt |-> "none",
           attemptCount |-> 0, summary |-> NoLease]

\* Status st with the lease columns set to null.
MutUnowned(r, st) == [r EXCEPT !.status = st, !.heartbeatAt = "none"]
Unowned(r, st) ==
  [r EXCEPT !.status = st, !.leaseId = NoLease, !.heartbeatAt = "none"]

\* claimSession
MutCanClaim(r) == r.status \in Claimable \cup {"RUNNING"}
CanClaim(r)    == r.status \in Claimable

MutClaimed(r, l) == [r EXCEPT !.status = "RUNNING", !.leaseId = l,
                              !.heartbeatAt = "recent"]
Claimed(r, l)    == [r EXCEPT !.status = "RUNNING", !.leaseId = l,
                              !.heartbeatAt = "recent", !.attemptCount = @ + 1]

\* renewLease
MutHolds(r, l) == r.status \notin {"GONE"}
Holds(r, l)    == r.leaseId = l
Renewed(r)     == [r EXCEPT !.heartbeatAt = "recent"]

\* completeSession: guarded by the lease alone, see Holds.
Completed(r, l)    == [Unowned(r, "COMPLETED") EXCEPT !.summary = l]

\* releaseForRetry
MutCanRelease(r, l) == r.leaseId = l /\ r.status = "RETRYING"
CanRelease(r, l)    == r.leaseId = l /\ r.status = "RUNNING"

\* failSession: without a lease only the status guards the write.
MutCanFail(r, l) == l # NoLease => r.leaseId = l
CanFail(r, l)    == /\ r.status \in Claimable \cup {"RUNNING"}
                    /\ l # NoLease => r.leaseId = l

\* stalledWhere: behind says whether heartbeatAt < cutoff.
MutStalled(r, behind)         == r.status = "RUNNING"
MutStalledNullOnly(r, behind) == r.status = "RUNNING" /\ r.heartbeatAt = "none"
Stalled(r, behind) == /\ r.status = "RUNNING"
                      /\ r.heartbeatAt = "none" \/ behind
=============================================================================
