---------------------------- MODULE ReviewSession ----------------------------
(***************************************************************************)
(* What the worker promises about one review session, whatever the number  *)
(* of workers, jobs and sweeps: the life cycle the dashboard shows.        *)
(* An attempt has one owner, an owner is never seen twice, every attempt   *)
(* is counted, a settled session never changes again, and the summary of a *)
(* completed session is the one of the attempt that owned it at the end.   *)
(***************************************************************************)
EXTENDS Naturals

CONSTANT Sessions

VARIABLES
  status,    \* status of each session
  owner,     \* the lease that owns the session, 0 for none
  attempts,  \* number of attempts begun
  summary,   \* the attempt whose summary is stored, 0 for none
  drawn      \* number of owners so far

vars == <<status, owner, attempts, summary, drawn>>

Init ==
  /\ status   = [s \in Sessions |-> "QUEUED"]
  /\ owner    = [s \in Sessions |-> 0]
  /\ attempts = [s \in Sessions |-> 0]
  /\ summary  = [s \in Sessions |-> 0]
  /\ drawn    = 0

Leave(s, st) == /\ status' = [status EXCEPT ![s] = st]
                /\ owner'  = [owner EXCEPT ![s] = 0]

Begin(s) ==
  /\ status[s] \in {"QUEUED", "RETRYING"}
  /\ drawn'    = drawn + 1
  /\ status'   = [status EXCEPT ![s] = "RUNNING"]
  /\ owner'    = [owner EXCEPT ![s] = drawn + 1]
  /\ attempts' = [attempts EXCEPT ![s] = @ + 1]
  /\ UNCHANGED summary

GiveBack(s) ==
  /\ status[s] = "RUNNING"
  /\ Leave(s, "RETRYING")
  /\ UNCHANGED <<attempts, summary, drawn>>

Finish(s) ==
  /\ status[s] = "RUNNING"
  /\ Leave(s, "COMPLETED")
  /\ summary' = [summary EXCEPT ![s] = owner[s]]
  /\ UNCHANGED <<attempts, drawn>>

Abandon(s) ==
  /\ status[s] \in {"QUEUED", "RETRYING", "RUNNING"}
  /\ Leave(s, "FAILED")
  /\ UNCHANGED <<attempts, summary, drawn>>

Remove(s) ==
  /\ status[s] # "GONE"
  /\ Leave(s, "GONE")
  /\ UNCHANGED <<attempts, summary, drawn>>

Next == \E s \in Sessions :
          Begin(s) \/ GiveBack(s) \/ Finish(s) \/ Abandon(s) \/ Remove(s)

Spec == Init /\ [][Next]_vars
=============================================================================
