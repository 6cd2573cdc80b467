--------------------------- MODULE WebhookIntake ---------------------------
(***************************************************************************)
(* The server's webhook endpoint: GitHub's deliveries, which may be late,  *)
(* repeated, reordered and handled at the same time, become installation,  *)
(* ReviewSession and CIRun rows and jobs on the two queues.  One action    *)
(* per await of the handler; a request is used for one delivery.           *)
(*                                                                         *)
(* A subject is what a row is unique about: a commit of a pull request or  *)
(* a workflow run.  Row ids are drawn from one counter, 0 is "no row".     *)
(***************************************************************************)
EXTENDS Naturals, FiniteSets

CONSTANTS Installations,  \* installations of the GitHub App, numbered as GitHub lists them
          Commits, Runs,  \* subjects of review sessions and of CI triage
          InstallationOf, \* the installation a subject's repository belongs to
          Requests,       \* webhook requests, numbered as GitHub sends them: the bound on deliveries
          FaultKinds,     \* faults considered, out of {"throws", "answerLost", "crash"}
          MaxFaults       \* bound on the number of faults

Subjects == Commits \cup Runs

ASSUME IntakeAssumption ==
  /\ Installations \subseteq Nat \ {0}
  /\ Commits \cap Runs = {}
  /\ InstallationOf \in [Subjects -> Installations]
  /\ Requests \subseteq Nat
  /\ FaultKinds \subseteq {"throws", "answerLost", "crash"}
  /\ MaxFaults \in Nat

VARIABLES
  installed,    \* at GitHub: where the App is installed
  installation, \* Installation table: id of the row of each installation
  rows,         \* ReviewSession and CIRun tables
  nextId,       \* ids given out so far
  jobs,         \* jobs added to the queues
  request,      \* the handler's runs
  faults        \* faults so far

tableVars  == <<installation, rows, nextId>>
intakeVars == <<installed, tableVars, jobs, request, faults>>

NoSubject == "none"
InstallationEvents ==
  [type : {"created", "deleted"}, inst : Installations, subject : {NoSubject}]
SubjectEvents ==
  [type : {"pull_request", "failed_run", "other_run"}, inst : Installations, subject : Subjects]
Events == InstallationEvents \cup SubjectEvents
NoEvent == [type |-> "none", inst |-> 0, subject |-> NoSubject]

Unused == [pc |-> "unused", event |-> NoEvent, install |-> 0, row |-> 0]
Awaiting == {"created", "deleted", "find", "upsert", "create", "add"}
Answers  == {"200", "error"}

IntakeTypeOK ==
  /\ installed \subseteq Installations
  /\ installation \in [Installations -> Nat]
  /\ rows \subseteq [subject : Subjects, id : Nat, installationId : Nat]
  /\ nextId \in Nat
  /\ jobs \subseteq [subject : Subjects, row : Nat]
  /\ request \in [Requests -> [pc : {"unused"} \cup Awaiting \cup Answers,
                               event : Events \cup {NoEvent}, install : Nat, row : Nat]]
  /\ faults \in Nat

IntakeInit ==
  /\ installed \in SUBSET Installations
  /\ installation = [i \in Installations |-> 0]
  /\ rows = {}
  /\ nextId = 0
  /\ jobs = {}
  /\ request = [r \in Requests |-> Unused]
  /\ faults = 0

Suffer(kind) ==
  /\ kind \in FaultKinds
  /\ faults < MaxFaults
  /\ faults' = faults + 1

At(r, pc) == request[r].pc = pc
\* The next await of a request, or its answer, which ends its local variables.
Goto(r, pc) ==
  request' = [request EXCEPT ![r] =
                IF pc \in Answers THEN [Unused EXCEPT !.event = request[r].event, !.pc = pc] ELSE [@ EXCEPT !.pc = pc]]

-----------------------------------------------------------------------------
(* GitHub.  A request that was sent may arrive at any later time; what the *)
(* code relies on is only that events about a repository are first sent    *)
(* while the App is installed there.                                       *)

\* Which branch a delivery takes: a run that did not fail is answered at once.
Branch(type) ==
  CASE type \in {"created", "deleted"} -> type
    [] type \in {"pull_request", "failed_run"} -> "find"
    [] OTHER -> "200"

Send(r, type, i, s) ==
  /\ At(r, "unused")
  /\ \A q \in Requests : q < r => ~At(q, "unused")
  /\ request' = [request EXCEPT ![r].event = [type |-> type, inst |-> i, subject |-> s],
                               ![r].pc = Branch(type)]

Install(i, r) ==
  /\ i \notin installed
  /\ installed' = installed \cup {i}
  /\ Send(r, "created", i, NoSubject)
  /\ UNCHANGED <<tableVars, jobs, faults>>

Uninstall(i, r) ==
  /\ i \in installed
  /\ installed' = installed \ {i}
  /\ Send(r, "deleted", i, NoSubject)
  /\ UNCHANGED <<tableVars, jobs, faults>>

\* A push to a pull request, or a workflow run that ends.
Happen(s, r) ==
  /\ InstallationOf[s] \in installed
  /\ \E t \in IF s \in Commits THEN {"pull_request"} ELSE {"failed_run", "other_run"} :
       Send(r, t, InstallationOf[s], s)
  /\ UNCHANGED <<installed, tableVars, jobs, faults>>

\* A delivery is repeated, for whatever reason and however late.
Redeliver(r, q) ==
  /\ ~At(q, "unused")
  /\ LET e == request[q].event IN Send(r, e.type, e.inst, e.subject)
  /\ UNCHANGED <<installed, tableVars, jobs, faults>>

-----------------------------------------------------------------------------
(* The handler.                                                            *)

\* prisma.installation.upsert: one INSERT ... ON CONFLICT of the database.
UpsertRow(i) ==
  /\ installation' = IF installation[i] = 0 THEN [installation EXCEPT ![i] = nextId + 1] ELSE installation
  /\ nextId' = IF installation[i] = 0 THEN nextId + 1 ELSE nextId

InstallationCreated(r, after) ==
  /\ At(r, "created")
  /\ UpsertRow(request[r].event.inst)
  /\ Goto(r, after)
  /\ UNCHANGED <<installed, rows, jobs>>

\* A schema that cascades to the sessions only.
MutCascade(id) == {x \in rows : x.installationId = id /\ x.subject \in Commits}
\* What ON DELETE CASCADE takes with an Installation row.
Cascade(id) == {x \in rows : x.installationId = id}

\* A delete that finds no row throws and is swallowed: the answer is 200.
InstallationDeleted(r, after) ==
  /\ At(r, "deleted")
  /\ LET i == request[r].event.inst IN
       /\ installation' = [installation EXCEPT ![i] = 0]
       /\ rows' = rows \ Cascade(installation[i])
  /\ Goto(r, after)
  /\ UNCHANGED <<installed, nextId, jobs>>

\* findUnique on the subject's unique key.
Find(r, subjects) ==
  /\ At(r, "find")
  /\ request[r].event.subject \in subjects
  /\ Goto(r, IF \E x \in rows : x.subject = request[r].event.subject THEN "200" ELSE "upsert")
  /\ UNCHANGED <<installed, tableVars, jobs>>

Upsert(r, subjects, after) ==
  /\ At(r, "upsert")
  /\ request[r].event.subject \in subjects
  /\ UpsertRow(request[r].event.inst)
  /\ IF after = "create"
     THEN request' = [request EXCEPT ![r].pc = after, ![r].install = installation'[request[r].event.inst]]
     ELSE Goto(r, after)
  /\ UNCHANGED <<installed, rows, jobs>>

\* No unique key: the look-up alone is to keep a second row out.
MutUnique(s) == TRUE
\* The schema's unique key and foreign key.
Unique(s) == \A x \in rows : x.subject # s
LivesOn(id) == id # 0 /\ \E i \in Installations : installation[i] = id

\* The insert is refused, and the request answered with 500, when another
\* delivery was faster or the installation has been deleted.
Create(r, subjects, after) ==
  LET s == request[r].event.subject IN
  /\ At(r, "create")
  /\ s \in subjects
  /\ IF Unique(s) /\ LivesOn(request[r].install)
     THEN /\ rows' = rows \cup {[subject |-> s, id |-> nextId + 1, installationId |-> request[r].install]}
          /\ nextId' = nextId + 1
          /\ IF after = "add"
             THEN request' = [request EXCEPT ![r].pc = after, ![r].row = nextId + 1]
             ELSE Goto(r, after)
     ELSE /\ Goto(r, "error")
          /\ UNCHANGED <<rows, nextId>>
  /\ UNCHANGED <<installed, installation, jobs>>

\* The job carries the wrong one of the two ids at hand.
MutAdd(r, subjects, after) ==
  /\ At(r, "add")
  /\ request[r].event.subject \in subjects
  /\ jobs' = jobs \cup {[subject |-> request[r].event.subject, row |-> request[r].install]}
  /\ Goto(r, after)
  /\ UNCHANGED <<installed, tableVars>>
Add(r, subjects, after) ==
  /\ At(r, "add")
  /\ request[r].event.subject \in subjects
  /\ jobs' = jobs \cup {[subject |-> request[r].event.subject, row |-> request[r].row]}
  /\ Goto(r, after)
  /\ UNCHANGED <<installed, tableVars>>

FindReview(r) == Find(r, Commits)
UpsertForReview(r, after) == Upsert(r, Commits, after)
CreateReview(r, after) == Create(r, Commits, after)
AddReview(r, after) == Add(r, Commits, after)

FindRun(r) == Find(r, Runs)
UpsertForRun(r, after) == Upsert(r, Runs, after)
CreateRun(r, after) == Create(r, Runs, after)
AddTriage(r, after) == Add(r, Runs, after)

Step(r) ==
  /\ \/ InstallationCreated(r, "200") \/ InstallationDeleted(r, "200")
     \/ FindReview(r) \/ UpsertForReview(r, "create") \/ CreateReview(r, "add") \/ AddReview(r, "200")
     \/ FindRun(r) \/ UpsertForRun(r, "create") \/ CreateRun(r, "add") \/ AddTriage(r, "200")
  /\ UNCHANGED faults

\* An await throws before anything is written; only a delete is caught.
AwaitThrows(r) ==
  /\ request[r].pc \in Awaiting
  /\ Suffer("throws")
  /\ Goto(r, IF At(r, "deleted") THEN "200" ELSE "error")
  /\ UNCHANGED <<installed, tableVars, jobs>>

\* The write is done and its answer lost.
AnswerLost(r) ==
  /\ \/ InstallationCreated(r, "error") \/ InstallationDeleted(r, "200")
     \/ UpsertForReview(r, "error") \/ CreateReview(r, "error") \/ AddReview(r, "error")
     \/ UpsertForRun(r, "error") \/ CreateRun(r, "error") \/ AddTriage(r, "error")
  /\ Suffer("answerLost")

ServerCrash ==
  /\ \E r \in Requests : request[r].pc \in Awaiting
  /\ Suffer("crash")
  /\ request' = [r \in Requests |-> IF request[r].pc \in Awaiting
                                    THEN [Unused EXCEPT !.event = request[r].event, !.pc = "error"]
                                    ELSE request[r]]
  /\ UNCHANGED <<installed, tableVars, jobs>>

IntakeNext ==
  \/ \E r \in Requests :
       \/ \E i \in Installations : Install(i, r) \/ Uninstall(i, r)
       \/ \E s \in Subjects : Happen(s, r)
       \/ \E q \in Requests : Redeliver(r, q)
       \/ Step(r) \/ AwaitThrows(r) \/ AnswerLost(r)
  \/ ServerCrash
=============================================================================
