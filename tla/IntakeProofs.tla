---------------------------- MODULE IntakeProofs ----------------------------
(***************************************************************************)
(* What the webhook endpoint and the login guarantee of their tables, for  *)
(* any installations, subjects, deliveries, logins, page size and faults.  *)
(***************************************************************************)
EXTENDS GithubLogin, TLAPS, FiniteSetTheorems

-----------------------------------------------------------------------------
(***************************************************************************)
(* Types.  A request that was sent has an event, and a login that is about *)
(* to write has an installation to link: without that the rows they write  *)
(* would have no owner.                                                    *)
(***************************************************************************)
RequestType == [pc : {"unused"} \cup Awaiting \cup Answers,
                event : Events \cup {NoEvent}, install : Nat, row : Nat]
Known == \A r \in Requests : request[r].pc # "unused" => request[r].event \in Events
Listing == \A l \in Logins : login[l].pc = "write" => login[l].listed # {}
TypeInv == TypeOK /\ Known /\ Listing

LEMMA SmallestOf ==
  ASSUME NEW S, S \subseteq Nat, S # {}
  PROVE  \E i \in S : \A j \in S : i <= j
<1>1. PICK i \in S : \A j \in S : ~(<<j, i>> \in OpToRel(<, Nat))
  BY NatLessThanWellFounded, WFMin
<1>2. ASSUME NEW j \in S PROVE i <= j
  <2>1. ~(j < i)
    BY <1>1 DEF OpToRel
  <2> QED
    BY <2>1
<1> QED
  BY <1>2

LEMMA EventTypes ==
  ASSUME NEW e \in Events
  PROVE  /\ e = [type |-> e.type, inst |-> e.inst, subject |-> e.subject]
         /\ e.inst \in Installations
         /\ Branch(e.type) \in {"created", "deleted", "find", "200"}
BY DEF Events, InstallationEvents, SubjectEvents, Branch

LEMMA SendType ==
  ASSUME IntakeTypeOK, Known, NEW r \in Requests, NEW t, NEW i, NEW s,
         [type |-> t, inst |-> i, subject |-> s] \in Events, Send(r, t, i, s)
  PROVE  request' \in [Requests -> RequestType] /\ Known'
<1> DEFINE e == [type |-> t, inst |-> i, subject |-> s]
           new == [request[r] EXCEPT !.event = e, !.pc = Branch(t)]
<1>1. Branch(t) \in Awaiting \cup Answers
  BY EventTypes DEF Awaiting, Answers
<1>2. request[r] \in RequestType /\ request \in [Requests -> RequestType]
  BY DEF IntakeTypeOK, RequestType
<1>3. new \in RequestType /\ new.event = e
  BY <1>1, <1>2 DEF RequestType
<1>4. request' = [request EXCEPT ![r] = new]
  BY <1>2 DEF Send, RequestType
<1> HIDE DEF new
<1> QED
  BY <1>2, <1>3, <1>4 DEF Known

LEMMA GotoType ==
  ASSUME IntakeTypeOK, Known, NEW r \in Requests, request[r].pc # "unused",
         NEW pc \in Awaiting \cup Answers, Goto(r, pc)
  PROVE  request' \in [Requests -> RequestType] /\ Known'
<1>1. request \in [Requests -> RequestType] /\ request[r] \in RequestType
  BY DEF IntakeTypeOK, RequestType
<1>2. request[r].event \in Events
  BY DEF Known
<1>3. CASE pc \in Answers
  <2> DEFINE new == [Unused EXCEPT !.event = request[r].event, !.pc = pc]
  <2>1. request' = [request EXCEPT ![r] = new]
    BY <1>3 DEF Goto
  <2>2. new \in RequestType /\ new.event = request[r].event
    BY <1>2, <1>3 DEF RequestType, Unused
  <2> HIDE DEF new
  <2> QED
    BY <1>1, <1>2, <2>1, <2>2 DEF Known
<1>4. CASE pc \notin Answers
  <2> DEFINE new == [request[r] EXCEPT !.pc = pc]
  <2>1. request' = [request EXCEPT ![r] = new]
    BY <1>4 DEF Goto
  <2>2. new \in RequestType /\ new.event = request[r].event
    BY <1>1 DEF RequestType
  <2> HIDE DEF new
  <2> QED
    BY <1>1, <1>2, <2>1, <2>2 DEF Known
<1> QED
  BY <1>3, <1>4

\* What an upsert does to the installations.
LEMMA UpsertFacts ==
  ASSUME IntakeTypeOK, NEW i \in Installations, UpsertRow(i)
  PROVE  /\ installation' \in [Installations -> Nat]
         /\ nextId' \in Nat /\ nextId <= nextId'
         /\ installation'[i] \in Nat
         /\ \A id : LivesOn(id) => LivesOn(id)'
<1> USE DEF IntakeTypeOK, UpsertRow
<1>1. installation' \in [Installations -> Nat] /\ nextId' \in Nat /\ nextId <= nextId'
  OBVIOUS
<1>2. \A j \in Installations : installation[j] # 0 => installation'[j] = installation[j]
  OBVIOUS
<1> QED
  BY <1>1, <1>2 DEF LivesOn

Ends == {"200", "error", "create", "add"}

LEMMA HandlerType ==
  ASSUME IntakeTypeOK, Known, NEW r \in Requests, NEW after \in Ends, NEW S \in SUBSET Subjects,
         \/ InstallationCreated(r, after) \/ InstallationDeleted(r, after) \/ Find(r, S)
         \/ Upsert(r, S, after) \/ Create(r, S, after) \/ Add(r, S, after),
         faults' \in Nat
  PROVE  IntakeTypeOK' /\ Known'
<1>0. /\ request \in [Requests -> RequestType] /\ request[r] \in RequestType
      /\ installed \subseteq Installations /\ installation \in [Installations -> Nat] /\ nextId \in Nat
      /\ rows \subseteq [subject : Subjects, id : Nat, installationId : Nat]
      /\ jobs \subseteq [subject : Subjects, row : Nat]
  BY DEF IntakeTypeOK, RequestType
<1>e. after \in Awaiting \cup Answers /\ {"200", "error", "upsert"} \subseteq Awaiting \cup Answers
  BY DEF Ends, Awaiting, Answers
<1>f. request[r].pc # "unused" => request[r].event \in Events /\ request[r].event.inst \in Installations
  BY EventTypes DEF Known
<1>q. SUFFICES /\ request' \in [Requests -> RequestType] /\ Known'
               /\ installed' = installed /\ installation' \in [Installations -> Nat] /\ nextId' \in Nat
               /\ rows' \subseteq [subject : Subjects, id : Nat, installationId : Nat]
               /\ jobs' \subseteq [subject : Subjects, row : Nat]
  BY <1>0 DEF IntakeTypeOK, RequestType
<1>1. CASE InstallationCreated(r, after)
  BY <1>0, <1>1, <1>e, <1>f, UpsertFacts, GotoType DEF InstallationCreated, At
<1>2. CASE InstallationDeleted(r, after)
  BY <1>0, <1>2, <1>e, <1>f, GotoType DEF InstallationDeleted, At
<1>3. CASE Find(r, S)
  BY <1>0, <1>3, <1>e, GotoType DEF Find, At, tableVars
<1>4. CASE Upsert(r, S, after)
  <2>1. /\ installation' \in [Installations -> Nat] /\ nextId' \in Nat
        /\ installation'[request[r].event.inst] \in Nat
        /\ installed' = installed /\ rows' = rows /\ jobs' = jobs /\ request[r].pc = "upsert"
    BY <1>4, <1>f, UpsertFacts DEF Upsert, At
  <2>2. CASE after = "create"
    <3> DEFINE new == [request[r] EXCEPT !.pc = after, !.install = installation'[request[r].event.inst]]
    <3>1. request' = [request EXCEPT ![r] = new]
      BY <1>4, <2>2, <1>0 DEF Upsert, RequestType
    <3>2. new \in RequestType /\ new.event = request[r].event
      BY <1>0, <1>e, <2>1 DEF RequestType
    <3> HIDE DEF new
    <3> QED
      BY <1>0, <2>1, <3>1, <3>2, <1>f DEF Known
  <2>3. CASE after # "create"
    BY <1>0, <1>4, <2>1, <2>3, <1>e, GotoType DEF Upsert
  <2> QED
    BY <2>2, <2>3
<1>5. CASE Create(r, S, after)
  <2>1. request[r].pc = "create" /\ request[r].event.subject \in Subjects
        /\ installed' = installed /\ installation' = installation /\ jobs' = jobs
    BY <1>5 DEF Create, At
  <2>2. CASE Unique(request[r].event.subject) /\ LivesOn(request[r].install)
    <3>1. rows' \subseteq [subject : Subjects, id : Nat, installationId : Nat] /\ nextId' \in Nat
      BY <1>0, <1>5, <2>1, <2>2 DEF Create, RequestType
    <3>2. CASE after = "add"
      <4> DEFINE new == [request[r] EXCEPT !.pc = after, !.row = nextId + 1]
      <4>1. request' = [request EXCEPT ![r] = new]
        BY <1>0, <1>5, <2>2, <3>2 DEF Create, RequestType
      <4>2. new \in RequestType /\ new.event = request[r].event
        <5>1. nextId + 1 \in Nat /\ after \in Awaiting \cup Answers
          BY <1>0, <1>e
        <5> QED
          BY <1>0, <5>1 DEF RequestType
      <4> HIDE DEF new
      <4> QED
        BY <1>0, <2>1, <3>1, <4>1, <4>2, <1>f DEF Known
    <3>3. CASE after # "add"
      BY <1>0, <1>5, <2>1, <2>2, <3>1, <3>3, <1>e, GotoType DEF Create
    <3> QED
      BY <3>2, <3>3
  <2>3. CASE ~(Unique(request[r].event.subject) /\ LivesOn(request[r].install))
    BY <1>0, <1>5, <2>1, <2>3, <1>e, GotoType DEF Create
  <2> QED
    BY <2>2, <2>3
<1>6. CASE Add(r, S, after)
  <2>1. jobs' \subseteq [subject : Subjects, row : Nat]
    BY <1>0, <1>6 DEF Add, RequestType
  <2> QED
    BY <1>0, <1>6, <2>1, <1>e, GotoType DEF Add, At, tableVars
<1> QED
  BY <1>1, <1>2, <1>3, <1>4, <1>5, <1>6

LEMMA SendsType ==
  ASSUME IntakeTypeOK, Known, NEW r \in Requests,
         \/ \E i \in Installations : Install(i, r) \/ Uninstall(i, r)
         \/ \E s \in Subjects : Happen(s, r)
         \/ \E q \in Requests : Redeliver(r, q)
  PROVE  IntakeTypeOK' /\ Known'
<1>q. SUFFICES /\ request' \in [Requests -> RequestType] /\ Known'
               /\ installed' \subseteq Installations
               /\ UNCHANGED <<tableVars, jobs, faults>>
  BY DEF IntakeTypeOK, RequestType, tableVars
<1>1. CASE \E i \in Installations : Install(i, r) \/ Uninstall(i, r)
  <2>1. PICK i \in Installations : Install(i, r) \/ Uninstall(i, r)
    BY <1>1
  <2>2. \A t \in {"created", "deleted"} : [type |-> t, inst |-> i, subject |-> NoSubject] \in Events
    BY DEF Events, InstallationEvents
  <2> QED
    BY <2>1, <2>2, SendType DEF Install, Uninstall, IntakeTypeOK, tableVars
<1>2. CASE \E s \in Subjects : Happen(s, r)
  <2>1. PICK s \in Subjects : Happen(s, r)
    BY <1>2
  <2>2. \A t \in {"pull_request", "failed_run", "other_run"} :
          [type |-> t, inst |-> InstallationOf[s], subject |-> s] \in Events
    BY IntakeAssumption DEF Events, SubjectEvents
  <2> QED
    BY <2>1, <2>2, SendType DEF Happen, IntakeTypeOK, tableVars
<1>3. CASE \E q \in Requests : Redeliver(r, q)
  <2>1. PICK q \in Requests : Redeliver(r, q)
    BY <1>3
  <2>2. [type |-> request[q].event.type, inst |-> request[q].event.inst,
         subject |-> request[q].event.subject] \in Events
    BY <2>1, EventTypes DEF Redeliver, At, Known
  <2> QED
    BY <2>1, <2>2, SendType DEF Redeliver, IntakeTypeOK, tableVars
<1> QED
  BY <1>1, <1>2, <1>3

LEMMA CrashType ==
  ASSUME IntakeTypeOK, Known, ServerCrash
  PROVE  IntakeTypeOK' /\ Known'
<1>1. ASSUME NEW r \in Requests
      PROVE  /\ request'[r] \in RequestType
             /\ request'[r].pc # "unused" => request'[r].event \in Events
  <2>1. request[r] \in RequestType /\ (request[r].pc # "unused" => request[r].event \in Events)
    BY DEF IntakeTypeOK, RequestType, Known
  <2>2. CASE request[r].pc \in Awaiting
    <3>1. request'[r] = [Unused EXCEPT !.event = request[r].event, !.pc = "error"]
      BY <2>2 DEF ServerCrash
    <3>2. request[r].event \in Events /\ "error" \in Answers
      BY <2>1, <2>2 DEF Awaiting, Answers
    <3>3. request'[r] = [pc |-> "error", event |-> request[r].event, install |-> 0, row |-> 0]
      BY <3>1 DEF Unused
    <3> QED
      BY <3>2, <3>3 DEF RequestType
  <2>3. CASE request[r].pc \notin Awaiting
    BY <2>1, <2>3 DEF ServerCrash
  <2> QED
    BY <2>2, <2>3
<1>2. request' \in [Requests -> RequestType]
  BY <1>1 DEF ServerCrash
<1>3. Known'
  BY <1>1 DEF Known
<1>4. faults' \in Nat /\ UNCHANGED <<installed, tableVars, jobs>>
  <2>1. Suffer("crash") /\ UNCHANGED <<installed, tableVars, jobs>>
    BY DEF ServerCrash
  <2> QED
    BY <2>1 DEF Suffer, IntakeTypeOK
<1>5. IntakeTypeOK'
  BY <1>2, <1>4 DEF IntakeTypeOK, RequestType, tableVars
<1> QED
  BY <1>3, <1>5

LEMMA WebhookType ==
  ASSUME IntakeTypeOK, Known, IntakeNext
  PROVE  IntakeTypeOK' /\ Known'
<1>1. CASE ServerCrash
  BY <1>1, CrashType
<1>2. ASSUME NEW r \in Requests, Step(r)
      PROVE  IntakeTypeOK' /\ Known'
  <2>1. faults' \in Nat /\ Commits \subseteq Subjects /\ Runs \subseteq Subjects
    BY <1>2 DEF Step, IntakeTypeOK, Subjects
  <2> QED
    BY <1>2, <2>1, HandlerType
       DEF Step, FindReview, UpsertForReview, CreateReview, AddReview, FindRun, UpsertForRun, CreateRun, AddTriage, Ends
<1>3. ASSUME NEW r \in Requests, AnswerLost(r)
      PROVE  IntakeTypeOK' /\ Known'
  <2>1. faults' \in Nat /\ Commits \subseteq Subjects /\ Runs \subseteq Subjects
    BY <1>3 DEF AnswerLost, Suffer, IntakeTypeOK, Subjects
  <2> QED
    BY <1>3, <2>1, HandlerType
       DEF AnswerLost, UpsertForReview, CreateReview, AddReview, UpsertForRun, CreateRun, AddTriage, Ends
<1>4. ASSUME NEW r \in Requests, AwaitThrows(r)
      PROVE  IntakeTypeOK' /\ Known'
  <2>1. request' \in [Requests -> RequestType] /\ Known'
    BY <1>4, GotoType DEF AwaitThrows, Awaiting, Answers
  <2> QED
    BY <1>4, <2>1 DEF AwaitThrows, Suffer, IntakeTypeOK, RequestType, tableVars
<1> QED
  BY <1>1, <1>2, <1>3, <1>4, SendsType DEF IntakeNext

\* The login's own types, without those of the webhook.
LoginType == [pc : {"new", "github", "fetch", "lookup", "write", "sign"} \cup Ended,
              state : Logins \cup {NoLogin}, page : Nat \ {0},
              listed : SUBSET Installations, found : Nat, steady : BOOLEAN]

LEMMA UnsteadyType ==
  ASSUME LoginTypeOK, Listing, login' = Unsteady
  PROVE  login' \in [Logins -> LoginType] /\ Listing'
<1>1. ASSUME NEW l \in Logins
      PROVE  /\ login'[l] \in LoginType
             /\ login'[l].pc = login[l].pc /\ login'[l].listed = login[l].listed
  BY DEF LoginTypeOK, LoginType, Unsteady
<1> QED
  BY <1>1 DEF Unsteady, Listing

\* A login that is replaced by a well-typed record, all others as they were.
LEMMA LoginStepType ==
  ASSUME LoginTypeOK, Listing, NEW l \in Logins, NEW new \in LoginType,
         new.pc = "write" => new.listed # {},
         login' = [login EXCEPT ![l] = new]
  PROVE  login' \in [Logins -> LoginType] /\ Listing'
<1>1. login \in [Logins -> LoginType]
  BY DEF LoginTypeOK, LoginType
<1>2. login' \in [Logins -> LoginType]
  BY <1>1
<1>3. \A k \in Logins : login'[k] = IF k = l THEN new ELSE login[k]
  BY <1>1
<1> QED
  BY <1>2, <1>3 DEF Listing

LEMMA OverType ==
  ASSUME NEW pc \in Ended
  PROVE  Over(pc) \in LoginType /\ Over(pc).pc # "write"
<1>1. NewLogin \in LoginType
  BY DEF NewLogin, LoginType
<1> QED
  BY <1>1 DEF Over, LoginType, Ended

LEMMA PageType ==
  ASSUME NEW r \in LoginType, r.pc = "fetch", NEW n \in Nat \ {0}, NEW S \in SUBSET Installations
  PROVE  /\ [r EXCEPT !.pc = "lookup", !.page = n, !.listed = S] \in LoginType
         /\ [r EXCEPT !.pc = "lookup", !.page = n, !.listed = S].pc = "lookup"
         /\ [r EXCEPT !.page = n, !.listed = S] \in LoginType
         /\ [r EXCEPT !.page = n, !.listed = S].pc = "fetch"
<1>1. [r EXCEPT !.pc = "lookup", !.page = n, !.listed = S] \in LoginType
  BY DEF LoginType
<1>2. [r EXCEPT !.page = n, !.listed = S] \in LoginType
  BY DEF LoginType
<1>3. /\ [r EXCEPT !.pc = "lookup", !.page = n, !.listed = S].pc = "lookup"
      /\ [r EXCEPT !.page = n, !.listed = S].pc = "fetch"
  BY DEF LoginType
<1> QED
  BY <1>1, <1>2, <1>3

LEMMA UpcomingType ==
  ASSUME LoginTypeOK, Listing, NEW l \in Logins, login[l].listed # {}
  PROVE  Upcoming(l) \in login[l].listed /\ Upcoming(l) \in Installations
<1>1. login[l].listed \subseteq Installations /\ Installations \subseteq Nat
  BY IntakeAssumption DEF LoginTypeOK
<1>2. \E i \in login[l].listed : \A j \in login[l].listed : i <= j
  BY <1>1, SmallestOf
<1> QED
  BY <1>1, <1>2 DEF Upcoming

\* GitHub's webhook, with what it means for links and lists.
LEMMA WebhookLoginType ==
  ASSUME TypeInv, Webhook
  PROVE  TypeInv'
<1>1. IntakeTypeOK' /\ Known'
  BY WebhookType DEF TypeInv, TypeOK, Webhook
<1>2. login' \in [Logins -> LoginType] /\ Listing'
  <2>1. CASE login' = login
    BY <2>1 DEF TypeInv, TypeOK, LoginTypeOK, LoginType, Listing
  <2>2. CASE login' = Unsteady
    BY <2>2, UnsteadyType DEF TypeInv, TypeOK
  <2> QED
    BY <2>1, <2>2 DEF Webhook
<1>3. grants' \subseteq Installations /\ links' \subseteq Nat /\ stateCookie' = stateCookie
  BY DEF Webhook, TypeInv, TypeOK, LoginTypeOK
<1> QED
  BY <1>1, <1>2, <1>3 DEF TypeInv, TypeOK, LoginTypeOK, LoginType

LEMMA LoginStepsType ==
  ASSUME TypeInv, NEW l \in Logins,
         StartLogin(l) \/ StartInstallFlow(l) \/ LoginStep(l) \/ CallbackThrows(l)
  PROVE  TypeInv'
<1> DEFINE r == login[l]
<1>0. /\ login \in [Logins -> LoginType] /\ r \in LoginType
      /\ LoginTypeOK /\ Listing /\ IntakeTypeOK /\ Known
  BY DEF TypeInv, TypeOK, LoginTypeOK, LoginType
<1>l. Logins \subseteq Nat \ {0, 1}
  BY LoginAssumption
<1>q. SUFFICES /\ login' \in [Logins -> LoginType] /\ Listing'
               /\ links' \subseteq Nat /\ stateCookie' \in Logins \cup {NoLogin, Abandoned}
               /\ grants' = grants /\ installed' = installed /\ rows' = rows /\ jobs' = jobs
               /\ request' = request /\ faults' \in Nat
               /\ installation' \in [Installations -> Nat] /\ nextId' \in Nat
  BY <1>0 DEF TypeInv, TypeOK, LoginTypeOK, LoginType, IntakeTypeOK, Known
<1>u. ASSUME UNCHANGED intakeVars
      PROVE  /\ installed' = installed /\ rows' = rows /\ jobs' = jobs /\ request' = request
             /\ faults' \in Nat /\ installation' \in [Installations -> Nat] /\ nextId' \in Nat
  BY <1>0, <1>u DEF intakeVars, tableVars, IntakeTypeOK
<1>1. CASE StartLogin(l)
  <2> DEFINE new == [r EXCEPT !.pc = "github", !.state = l]
  <2>1. login' = [login EXCEPT ![l] = new]
    BY <1>0, <1>1 DEF StartLogin, LoginType
  <2>2. new \in LoginType /\ new.pc # "write"
    BY <1>0 DEF LoginType
  <2> HIDE DEF new
  <2> QED
    BY <1>0, <1>1, <1>u, <2>1, <2>2, LoginStepType DEF StartLogin, LoginTypeOK
<1>2. CASE StartInstallFlow(l)
  <2> DEFINE new == [r EXCEPT !.pc = "github"]
  <2>1. login' = [login EXCEPT ![l] = new]
    BY <1>0, <1>2 DEF StartInstallFlow, LoginType
  <2>2. new \in LoginType /\ new.pc # "write"
    BY <1>0 DEF LoginType
  <2> HIDE DEF new
  <2> QED
    BY <1>0, <1>2, <1>u, <2>1, <2>2, LoginStepType DEF StartInstallFlow, LoginTypeOK
<1>3. CASE Callback(l)
  <2> DEFINE new == IF StateMatches(l) THEN [NewLogin EXCEPT !.pc = "fetch"] ELSE Over("failed")
  <2>1. login' = [login EXCEPT ![l] = new]
    BY <1>3 DEF Callback
  <2>2. new \in LoginType /\ new.pc # "write"
    <3>1. NewLogin \in LoginType
      BY DEF NewLogin, LoginType
    <3>2. [NewLogin EXCEPT !.pc = "fetch"] \in LoginType /\ [NewLogin EXCEPT !.pc = "fetch"].pc # "write"
      BY <3>1 DEF LoginType
    <3> QED
      BY <3>2, OverType DEF Ended
  <2> HIDE DEF new
  <2> QED
    BY <1>0, <1>3, <1>u, <2>1, <2>2, LoginStepType DEF Callback, LoginTypeOK
<1>4. CASE FetchPage(l)
  <2> DEFINE page == Page(r.page)
             all == r.listed \cup page
             new == IF Cardinality(page) < PerPage
                    THEN [r EXCEPT !.pc = "lookup", !.page = 1, !.listed = all]
                    ELSE [r EXCEPT !.page = r.page + 1, !.listed = all]
  <2>1. login' = [login EXCEPT ![l] = new] /\ r.pc = "fetch"
    <3>1. CASE Cardinality(page) < PerPage
      BY <1>0, <1>4, <3>1 DEF FetchPage
    <3>2. CASE ~(Cardinality(page) < PerPage)
      <4>1. r.page \in Nat
        BY <1>0 DEF LoginType
      <4> QED
        BY <1>0, <1>4, <3>2, <4>1 DEF FetchPage
    <3> QED
      BY <3>1, <3>2
  <2>2. all \subseteq Installations
    BY <1>0 DEF LoginType, Page, LoginTypeOK
  <2>3. r.page + 1 \in Nat \ {0}
    BY <1>0 DEF LoginType
  <2>5. 1 \in Nat \ {0}
    OBVIOUS
  <2>4. new \in LoginType /\ new.pc # "write"
    <3> HIDE DEF page, all
    <3> QED
      BY <1>0, <2>1, <2>2, <2>3, <2>5, PageType
  <2> HIDE DEF new
  <2> QED
    BY <1>0, <1>4, <1>u, <2>1, <2>4, LoginStepType DEF FetchPage, LoginTypeOK
<1>5. CASE LookupInstallation(l)
  <2> DEFINE new == IF r.listed = {} THEN [r EXCEPT !.pc = "sign"]
                    ELSE [r EXCEPT !.pc = "write", !.found = installation[Upcoming(l)]]
  <2>1. login' = [login EXCEPT ![l] = new]
    BY <1>0, <1>5 DEF LookupInstallation
  <2>2. new \in LoginType /\ (new.pc = "write" => new.listed # {})
    <3>1. CASE r.listed = {}
      BY <1>0, <3>1 DEF LoginType
    <3>2. CASE r.listed # {}
      <4>1. installation[Upcoming(l)] \in Nat
        BY <1>0, <3>2, UpcomingType DEF IntakeTypeOK
      <4> QED
        BY <1>0, <3>2, <4>1 DEF LoginType
    <3> QED
      BY <3>1, <3>2
  <2> HIDE DEF new
  <2> QED
    BY <1>0, <1>5, <1>u, <2>1, <2>2, LoginStepType DEF LookupInstallation, LoginTypeOK
<1>6. CASE LinkInstallation(l)
  <2> DEFINE i == Upcoming(l)
             id == IF r.found = 0 THEN nextId + 1 ELSE r.found
             new == [r EXCEPT !.pc = "lookup", !.listed = r.listed \ {i}, !.found = 0]
  <2>0. id \in Nat /\ nextId + 1 \in Nat /\ nextId \in Nat
    BY <1>0 DEF LoginType, IntakeTypeOK
  <2>1. /\ installed' = installed /\ rows' = rows /\ jobs' = jobs /\ request' = request
        /\ faults' \in Nat /\ grants' = grants /\ stateCookie' = stateCookie
    BY <1>0, <1>6 DEF LinkInstallation, IntakeTypeOK
  <2>2. CASE installation[i] = r.found
    <3>1. /\ login' = [login EXCEPT ![l] = new]
          /\ installation' = [installation EXCEPT ![i] = id]
          /\ nextId' = IF r.found = 0 THEN id ELSE nextId
          /\ links' = links \cup {id}
      BY <1>0, <1>6, <2>2 DEF LinkInstallation, LoginType
    <3>2. new \in LoginType /\ new.pc # "write"
      BY <1>0 DEF LoginType
    <3>3. links' \subseteq Nat /\ nextId' \in Nat /\ installation' \in [Installations -> Nat]
      <4> HIDE DEF id
      <4> QED
        BY <1>0, <2>0, <3>1 DEF LoginTypeOK, IntakeTypeOK
    <3> HIDE DEF new
    <3> QED
      BY <1>0, <2>1, <3>1, <3>2, <3>3, LoginStepType DEF LoginTypeOK
  <2>3. CASE installation[i] # r.found
    <3>1. login' = [login EXCEPT ![l] = Over("failed")] /\ UNCHANGED <<installation, nextId, links>>
      BY <1>6, <2>3 DEF LinkInstallation
    <3> QED
      BY <1>0, <2>1, <3>1, OverType, LoginStepType DEF LoginTypeOK, IntakeTypeOK, Ended
  <2> QED
    BY <2>2, <2>3
<1>7. CASE SignSession(l)
  BY <1>0, <1>7, <1>u, OverType, LoginStepType DEF SignSession, LoginTypeOK, Ended
<1>8. CASE CallbackThrows(l)
  <2>1. faults' \in Nat
    BY <1>0, <1>8 DEF CallbackThrows, Suffer, IntakeTypeOK
  <2> QED
    BY <1>0, <1>8, <2>1, OverType, LoginStepType DEF CallbackThrows, LoginTypeOK, IntakeTypeOK, Ended, tableVars
<1> QED
  BY <1>1, <1>2, <1>3, <1>4, <1>5, <1>6, <1>7, <1>8 DEF LoginStep

LEMMA InitType == Init => TypeInv
<1> SUFFICES ASSUME Init PROVE TypeInv
  OBVIOUS
<1> USE DEF Init, IntakeInit
<1>1. IntakeTypeOK
  BY DEF IntakeTypeOK, Unused, NoEvent
<1>2. NewLogin \in LoginType /\ NewLogin.pc = "new"
  BY DEF NewLogin, LoginType
<1>3. LoginTypeOK
  BY <1>2 DEF LoginTypeOK, LoginType
<1>4. Known /\ Listing
  BY <1>2 DEF Known, Listing, Unused
<1> QED
  BY <1>1, <1>3, <1>4 DEF TypeInv, TypeOK

LEMMA NextType ==
  ASSUME TypeInv, [Next]_vars
  PROVE  TypeInv'
<1>1. CASE Webhook
  BY <1>1, WebhookLoginType
<1>2. CASE \E l \in Logins : StartLogin(l) \/ StartInstallFlow(l) \/ LoginStep(l) \/ CallbackThrows(l)
  BY <1>2, LoginStepsType
<1>3. CASE GrantsChange
  <2>1. login' \in [Logins -> LoginType] /\ Listing'
    BY <1>3, UnsteadyType DEF GrantsChange, TypeInv, TypeOK
  <2>2. grants' \subseteq Installations /\ UNCHANGED <<intakeVars, links, stateCookie>>
    BY <1>3 DEF GrantsChange, TypeInv, TypeOK, IntakeTypeOK
  <2> QED
    BY <2>1, <2>2 DEF TypeInv, TypeOK, IntakeTypeOK, LoginTypeOK, LoginType, Known, intakeVars, tableVars
<1>4. CASE StateExpires
  BY <1>4 DEF StateExpires, TypeInv, TypeOK, IntakeTypeOK, LoginTypeOK, Known, Listing, intakeVars, tableVars
<1>5. CASE UNCHANGED vars
  BY <1>5 DEF vars, loginVars, TypeInv, TypeOK, IntakeTypeOK, LoginTypeOK, Known, Listing, intakeVars, tableVars
<1> QED
  BY <1>1, <1>2, <1>3, <1>4, <1>5 DEF Next

\* Every table, request and login keeps its type (the handler of /webhook and the
\* OAuth callback, which share the Installation rows).
THEOREM IntakeTypeCorrect == Spec => []TypeOK
<1>1. Spec => []TypeInv
  BY InitType, NextType, PTL DEF Spec
<1>2. TypeInv => TypeOK
  BY DEF TypeInv
<1> QED
  BY <1>1, <1>2, PTL

-----------------------------------------------------------------------------
(***************************************************************************)
(* What the steps do to the rows.                                          *)
(***************************************************************************)

\* One operation of a request's handler; "error" is the answer that was lost.
Operation(r, S, after) ==
  /\ \/ InstallationCreated(r, after) /\ after \in {"200", "error"}
     \/ InstallationDeleted(r, after) /\ after = "200"
     \/ Find(r, S) /\ after = "200"
     \/ Upsert(r, S, after) /\ after \in {"create", "error"}
     \/ Create(r, S, after) /\ after \in {"add", "error"}
     \/ Add(r, S, after) /\ after \in {"200", "error"}
  /\ (faults' = faults /\ after # "error") \/ faults' = faults + 1

\* Every step of the system is an operation of one request, or leaves rows and
\* jobs alone and takes no request further.
Elsewhere ==
  /\ rows' = rows /\ jobs' = jobs /\ nextId <= nextId' /\ nextId' \in Nat
  /\ \A id : LivesOn(id) => LivesOn(id)'
  /\ \A r \in Requests :
       \/ request'[r].pc = "add" /\ request'[r] = request[r]
       \/ request'[r].pc # "add" /\ (faults' = 0 => request[r].pc # "add")

LEMMA WebhookSteps ==
  ASSUME TypeInv, IntakeNext
  PROVE  \/ \E r \in Requests, S \in SUBSET Subjects, after \in Ends : Operation(r, S, after)
         \/ Elsewhere /\ nextId' = nextId /\ installation' = installation
<1>0. /\ nextId \in Nat /\ faults \in Nat /\ request \in [Requests -> RequestType]
      /\ Commits \in SUBSET Subjects /\ Runs \in SUBSET Subjects
  BY DEF TypeInv, TypeOK, IntakeTypeOK, RequestType, Subjects
<1>s. ASSUME rows' = rows, jobs' = jobs, nextId' = nextId, installation' = installation,
             \A r \in Requests : \/ request'[r] = request[r]
                                 \/ request'[r].pc # "add" /\ (faults' = 0 => request[r].pc # "add")
      PROVE  Elsewhere /\ nextId' = nextId /\ installation' = installation
  <2>1. ASSUME NEW r \in Requests
        PROVE  \/ request'[r].pc = "add" /\ request'[r] = request[r]
               \/ request'[r].pc # "add" /\ (faults' = 0 => request[r].pc # "add")
    BY <1>s
  <2> QED
    BY <1>0, <1>s, <2>1 DEF Elsewhere, LivesOn
<1>1. ASSUME NEW r \in Requests, Step(r)
      PROVE  \E S \in SUBSET Subjects, after \in Ends : Operation(r, S, after)
  BY <1>0, <1>1 DEF Step, Operation, FindReview, UpsertForReview, CreateReview, AddReview,
                    FindRun, UpsertForRun, CreateRun, AddTriage, Ends
<1>2. ASSUME NEW r \in Requests, AnswerLost(r)
      PROVE  \E S \in SUBSET Subjects, after \in Ends : Operation(r, S, after)
  BY <1>0, <1>2 DEF AnswerLost, Suffer, Operation, UpsertForReview, CreateReview, AddReview,
                    UpsertForRun, CreateRun, AddTriage, Ends
<1>3. ASSUME NEW r \in Requests, AwaitThrows(r)
      PROVE  Elsewhere /\ nextId' = nextId /\ installation' = installation
  <2>1. \A q \in Requests \ {r} : request'[q] = request[q]
    BY <1>0, <1>3 DEF AwaitThrows, Goto
  <2>2. request'[r].pc # "add"
    <3>1. PICK pc \in Answers : Goto(r, pc)
      BY <1>3 DEF AwaitThrows, Answers
    <3>2. request' = [request EXCEPT ![r] = [Unused EXCEPT !.event = request[r].event, !.pc = pc]]
      BY <3>1 DEF Goto
    <3> QED
      BY <1>0, <3>1, <3>2 DEF Answers, Unused
  <2>3. faults' # 0
    BY <1>0, <1>3 DEF AwaitThrows, Suffer
  <2> QED
    BY <1>3, <1>s, <2>1, <2>2, <2>3 DEF AwaitThrows, tableVars
<1>4. ASSUME ServerCrash
      PROVE  Elsewhere /\ nextId' = nextId /\ installation' = installation
  <2>1. ASSUME NEW q \in Requests
        PROVE  request'[q] = request[q] \/ request'[q].pc # "add"
    <3>1. request'[q] = IF request[q].pc \in Awaiting
                        THEN [Unused EXCEPT !.event = request[q].event, !.pc = "error"] ELSE request[q]
      BY <1>4 DEF ServerCrash
    <3>2. [Unused EXCEPT !.event = request[q].event, !.pc = "error"].pc = "error"
      BY DEF Unused
    <3> QED
      BY <3>1, <3>2
  <2>2. faults' # 0
    <3>1. Suffer("crash")
      BY <1>4 DEF ServerCrash
    <3> QED
      BY <1>0, <3>1 DEF Suffer
  <2> QED
    BY <1>4, <1>s, <2>1, <2>2 DEF ServerCrash, tableVars
<1>5. ASSUME NEW r \in Requests,
             \/ \E i \in Installations : Install(i, r) \/ Uninstall(i, r)
             \/ \E s \in Subjects : Happen(s, r)
             \/ \E q \in Requests : Redeliver(r, q)
      PROVE  Elsewhere /\ nextId' = nextId /\ installation' = installation
  <2>1. /\ \E t, i, s : Send(r, t, i, s)
        /\ UNCHANGED <<tableVars, jobs, faults>>
    BY <1>5 DEF Install, Uninstall, Happen, Redeliver
  <2>2. PICK t, i, s : Send(r, t, i, s)
    BY <2>1
  <2>3. Branch(t) # "add"
    BY DEF Branch
  <2>4. request'[r].pc # "add" /\ request[r].pc # "add" /\ \A q \in Requests \ {r} : request'[q] = request[q]
    BY <1>0, <2>2, <2>3 DEF Send, At, RequestType
  <2> QED
    BY <1>s, <2>1, <2>4 DEF tableVars
<1> QED
  BY <1>1, <1>2, <1>3, <1>4, <1>5 DEF IntakeNext

LEMMA LoginSteps ==
  ASSUME TypeInv, [Next]_vars, ~Webhook
  PROVE  Elsewhere
<1>0. /\ nextId \in Nat /\ installation \in [Installations -> Nat] /\ request \in [Requests -> RequestType]
  BY DEF TypeInv, TypeOK, IntakeTypeOK, RequestType
<1>1. ASSUME UNCHANGED <<rows, jobs, request>>, nextId <= nextId', nextId' \in Nat,
             \A i \in Installations : installation[i] # 0 => installation'[i] = installation[i]
      PROVE  Elsewhere
  BY <1>1 DEF Elsewhere, LivesOn
<1>2. ASSUME UNCHANGED tableVars, UNCHANGED <<jobs, request>>
      PROVE  Elsewhere
  BY <1>0, <1>1, <1>2 DEF tableVars
<1>3. ASSUME NEW l \in Logins, LinkInstallation(l)
      PROVE  Elsewhere
  <2>1. login[l].found \in Nat
    BY DEF TypeInv, TypeOK, LoginTypeOK
  <2> QED
    BY <1>0, <1>1, <1>3, <2>1 DEF LinkInstallation
<1>4. \/ UNCHANGED tableVars /\ UNCHANGED <<jobs, request>>
      \/ \E l \in Logins : LinkInstallation(l)
  BY DEF Next, GrantsChange, StateExpires, StartLogin, StartInstallFlow, LoginStep, Callback, FetchPage,
         LookupInstallation, SignSession, CallbackThrows, intakeVars, vars
<1> QED
  BY <1>2, <1>3, <1>4

-----------------------------------------------------------------------------
(***************************************************************************)
(* A row has one subject, and a job.  Ids are drawn in order, so the       *)
(* number a request holds for its new row is never that of another: what   *)
(* it adds is a job of its own subject.                                    *)
(***************************************************************************)
Numbered ==
  /\ \A x \in rows : x.id <= nextId
  /\ \A r \in Requests : At(r, "add") =>
       /\ request[r].row <= nextId
       /\ \A x \in rows : x.id = request[r].row => x.subject = request[r].event.subject

RowInv == TypeInv /\ Numbered /\ OneRowPerSubject /\ RowHasJob

\* One operation that is neither Create nor Add leaves what RowInv is about.
LEMMA OtherOperations ==
  ASSUME RowInv, NEW r \in Requests, NEW S \in SUBSET Subjects, NEW after \in Ends,
         InstallationCreated(r, after) \/ InstallationDeleted(r, after) \/ Find(r, S) \/ Upsert(r, S, after),
         after = "200" \/ after = "error" \/ after = "create"
  PROVE  /\ rows' \subseteq rows /\ jobs' = jobs /\ nextId <= nextId' /\ nextId' \in Nat
         /\ request[r].pc # "add" /\ request'[r].pc # "add"
         /\ \A q \in Requests \ {r} : request'[q] = request[q]
<1>0. /\ request \in [Requests -> RequestType] /\ nextId \in Nat
      /\ installation \in [Installations -> Nat]
  BY DEF RowInv, TypeInv, TypeOK, IntakeTypeOK, RequestType
<1>1. ASSUME NEW pc \in {"200", "error", "create", "upsert"}, Goto(r, pc)
      PROVE  request'[r].pc # "add" /\ \A q \in Requests \ {r} : request'[q] = request[q]
  <2>1. request' = [request EXCEPT ![r] = IF pc \in Answers THEN [Unused EXCEPT !.event = request[r].event, !.pc = pc]
                                                          ELSE [request[r] EXCEPT !.pc = pc]]
    BY <1>1 DEF Goto
  <2>2. /\ [Unused EXCEPT !.event = request[r].event, !.pc = pc].pc = pc
        /\ [request[r] EXCEPT !.pc = pc].pc = pc
    BY <1>0 DEF Unused, RequestType
  <2> QED
    BY <1>0, <2>1, <2>2
<1>2. ASSUME NEW i, UpsertRow(i)
      PROVE  nextId <= nextId' /\ nextId' \in Nat
  BY <1>0, <1>2 DEF UpsertRow
<1>3. CASE InstallationCreated(r, after)
  BY <1>1, <1>2, <1>3 DEF InstallationCreated, At
<1>4. CASE InstallationDeleted(r, after)
  BY <1>0, <1>1, <1>4 DEF InstallationDeleted, At
<1>5. CASE Find(r, S)
  BY <1>0, <1>1, <1>5 DEF Find, At, tableVars
<1>6. CASE Upsert(r, S, after)
  <2>1. CASE after = "create"
    BY <1>0, <1>2, <1>6, <2>1 DEF Upsert, At, RequestType
  <2>2. CASE after # "create"
    BY <1>1, <1>2, <1>6, <2>2 DEF Upsert, At
  <2> QED
    BY <2>1, <2>2
<1> QED
  BY <1>3, <1>4, <1>5, <1>6

\* Rows that only go, jobs that stay: nothing to lose.
LEMMA FewerRows ==
  ASSUME RowInv, rows' \subseteq rows, jobs' = jobs, nextId <= nextId', nextId' \in Nat,
         faults' \in Nat, faults' = 0 => faults = 0,
         \A r \in Requests : \/ request'[r].pc = "add" /\ request'[r] = request[r]
                             \/ request'[r].pc # "add" /\ (faults' = 0 => request[r].pc # "add")
  PROVE  (Numbered /\ OneRowPerSubject /\ RowHasJob)'
<1>0. /\ nextId \in Nat /\ request \in [Requests -> RequestType]
      /\ rows \subseteq [subject : Subjects, id : Nat, installationId : Nat]
  BY DEF RowInv, TypeInv, TypeOK, IntakeTypeOK, RequestType
<1>1. OneRowPerSubject'
  BY DEF RowInv, OneRowPerSubject
<1>2. Numbered'
  <2>1. \A x \in rows' : x.id \in Nat /\ x.id <= nextId
    BY <1>0 DEF RowInv, Numbered
  <2>2. ASSUME NEW r \in Requests, request'[r].pc = "add"
        PROVE  /\ request'[r].row <= nextId'
               /\ \A x \in rows' : x.id = request'[r].row => x.subject = request'[r].event.subject
    <3>1. request'[r] = request[r] /\ request[r].row \in Nat
      BY <1>0, <2>2 DEF RequestType
    <3>2. request[r].row <= nextId
      BY <2>2, <3>1 DEF RowInv, Numbered, At
    <3> QED
      BY <1>0, <2>2, <3>1, <3>2 DEF RowInv, Numbered, At
  <2> QED
    BY <1>0, <2>1, <2>2 DEF Numbered, At
<1>3. RowHasJob'
  <2> SUFFICES ASSUME faults' = 0, NEW x \in rows'
               PROVE  \/ [subject |-> x.subject, row |-> x.id] \in jobs'
                      \/ \E r \in Requests : request'[r].pc = "add" /\ request'[r].row = x.id
    BY DEF RowHasJob, At
  <2>1. \/ [subject |-> x.subject, row |-> x.id] \in jobs
        \/ \E r \in Requests : request[r].pc = "add" /\ request[r].row = x.id
    BY DEF RowInv, RowHasJob, At
  <2> QED
    BY <2>1
<1> QED
  BY <1>1, <1>2, <1>3

LEMMA CreateKeeps ==
  ASSUME RowInv, NEW r \in Requests, NEW S \in SUBSET Subjects, NEW after \in {"add", "error"},
         Create(r, S, after), faults' \in Nat, faults' = 0 => faults = 0 /\ after = "add"
  PROVE  (Numbered /\ OneRowPerSubject /\ RowHasJob)'
<1> DEFINE s == request[r].event.subject
           x == [subject |-> s, id |-> nextId + 1, installationId |-> request[r].install]
<1>0. /\ nextId \in Nat /\ request \in [Requests -> RequestType]
      /\ rows \subseteq [subject : Subjects, id : Nat, installationId : Nat]
  BY DEF RowInv, TypeInv, TypeOK, IntakeTypeOK, RequestType
<1>1. CASE ~(Unique(s) /\ LivesOn(request[r].install))
  <2>1. Goto(r, "error") /\ rows' = rows /\ nextId' = nextId /\ jobs' = jobs /\ request[r].pc = "create"
    BY <1>1 DEF Create, At
  <2>2. request' = [request EXCEPT ![r] = [Unused EXCEPT !.event = request[r].event, !.pc = "error"]]
    BY <2>1 DEF Goto, Answers
  <2>3. request'[r].pc = "error" /\ \A q \in Requests \ {r} : request'[q] = request[q]
    BY <1>0, <2>2 DEF Unused
  <2> QED
    BY <1>0, <2>1, <2>3, FewerRows
<1>2. CASE Unique(s) /\ LivesOn(request[r].install)
  <2>1. /\ rows' = rows \cup {x} /\ nextId' = nextId + 1 /\ jobs' = jobs /\ request[r].pc = "create"
    BY <1>2 DEF Create, At
  <2>2. \A q \in Requests \ {r} : request'[q] = request[q]
    BY <1>0, <1>2 DEF Create, Goto
  <2>3. after = "add" => request'[r].pc = "add" /\ request'[r].row = nextId + 1 /\ request'[r].event.subject = s
    BY <1>0, <1>2 DEF Create, RequestType
  <2>4. after = "error" => request'[r].pc # "add"
    <3>1. ASSUME after = "error"
          PROVE  request' = [request EXCEPT ![r] = [Unused EXCEPT !.event = request[r].event, !.pc = "error"]]
      BY <1>2, <3>1 DEF Create, Goto, Answers
    <3> QED
      BY <1>0, <3>1 DEF Unused
  <2>5. OneRowPerSubject'
    BY <1>2, <2>1 DEF RowInv, OneRowPerSubject, Unique
  <2>6. \A y \in rows : y.id \in Nat /\ y.id <= nextId
    BY <1>0 DEF RowInv, Numbered
  <2>7. ASSUME NEW q \in Requests, request'[q].pc = "add"
        PROVE  /\ request'[q].row <= nextId'
               /\ \A y \in rows' : y.id = request'[q].row => y.subject = request'[q].event.subject
    <3>1. CASE q = r
      BY <1>0, <2>1, <2>3, <2>4, <2>6, <2>7, <3>1
    <3>2. CASE q # r
      <4>1. request'[q] = request[q] /\ request[q].row \in Nat
        BY <1>0, <2>2, <3>2 DEF RequestType
      <4>2. /\ request[q].row <= nextId
            /\ \A y \in rows : y.id = request[q].row => y.subject = request[q].event.subject
        BY <2>7, <4>1 DEF RowInv, Numbered, At
      <4> QED
        BY <1>0, <2>1, <4>1, <4>2
    <3> QED
      BY <3>1, <3>2
  <2>8. \A y \in rows' : y.id <= nextId'
    BY <1>0, <2>1, <2>6
  <2>9. RowHasJob'
    <3> SUFFICES ASSUME faults' = 0, NEW y \in rows'
                 PROVE  \/ [subject |-> y.subject, row |-> y.id] \in jobs'
                        \/ \E q \in Requests : request'[q].pc = "add" /\ request'[q].row = y.id
      BY DEF RowHasJob, At
    <3>1. CASE y = x
      BY <2>3, <3>1
    <3>2. CASE y \in rows
      <4>1. \/ [subject |-> y.subject, row |-> y.id] \in jobs
            \/ \E q \in Requests : request[q].pc = "add" /\ request[q].row = y.id
        BY <3>2 DEF RowInv, RowHasJob, At
      <4> QED
        BY <2>1, <2>2, <4>1
    <3> QED
      BY <2>1, <3>1, <3>2
  <2> QED
    BY <2>5, <2>7, <2>8, <2>9 DEF Numbered, At
<1> QED
  BY <1>1, <1>2

LEMMA AddKeeps ==
  ASSUME RowInv, NEW r \in Requests, NEW S \in SUBSET Subjects, NEW after \in {"200", "error"},
         Add(r, S, after), faults' \in Nat, faults' = 0 => faults = 0
  PROVE  (Numbered /\ OneRowPerSubject /\ RowHasJob)'
<1>0. /\ nextId \in Nat /\ request \in [Requests -> RequestType]
      /\ rows \subseteq [subject : Subjects, id : Nat, installationId : Nat]
  BY DEF RowInv, TypeInv, TypeOK, IntakeTypeOK, RequestType
<1>1. /\ rows' = rows /\ nextId' = nextId /\ request[r].pc = "add"
      /\ jobs' = jobs \cup {[subject |-> request[r].event.subject, row |-> request[r].row]}
  BY DEF Add, At, tableVars
<1>2. request' = [request EXCEPT ![r] = [Unused EXCEPT !.event = request[r].event, !.pc = after]]
  BY DEF Add, Goto, Answers
<1>3. request'[r].pc # "add" /\ \A q \in Requests \ {r} : request'[q] = request[q]
  BY <1>0, <1>2 DEF Unused
<1>4. OneRowPerSubject' /\ Numbered'
  BY <1>1, <1>3 DEF RowInv, OneRowPerSubject, Numbered, At
<1>5. RowHasJob'
  <2> SUFFICES ASSUME faults' = 0, NEW y \in rows
               PROVE  \/ [subject |-> y.subject, row |-> y.id] \in jobs'
                      \/ \E q \in Requests : request'[q].pc = "add" /\ request'[q].row = y.id
    BY <1>1 DEF RowHasJob, At
  <2>1. \/ [subject |-> y.subject, row |-> y.id] \in jobs
        \/ \E q \in Requests : request[q].pc = "add" /\ request[q].row = y.id
    BY DEF RowInv, RowHasJob, At
  <2>2. CASE request[r].row = y.id
    BY <1>1, <2>2 DEF RowInv, Numbered, At
  <2> QED
    BY <1>1, <1>3, <2>1, <2>2
<1> QED
  BY <1>4, <1>5

LEMMA RowsInit == Init => RowInv
<1> SUFFICES ASSUME Init PROVE RowInv
  OBVIOUS
<1>1. rows = {} /\ \A r \in Requests : request[r].pc = "unused"
  BY DEF Init, IntakeInit, Unused
<1> QED
  BY <1>1, InitType DEF RowInv, Numbered, OneRowPerSubject, RowHasJob, At

LEMMA FaultsGrow ==
  ASSUME faults \in Nat, Next
  PROVE  faults <= faults'
<1>1. ASSUME NEW kind, Suffer(kind) PROVE faults <= faults'
  BY <1>1 DEF Suffer
<1>2. CASE IntakeNext
  <2>1. CASE \E r \in Requests, i \in Installations : Install(i, r) \/ Uninstall(i, r)
    BY <2>1 DEF Install, Uninstall
  <2>2. CASE \E r \in Requests, s \in Subjects : Happen(s, r)
    BY <2>2 DEF Happen
  <2>3. CASE \E r, q \in Requests : Redeliver(r, q)
    BY <2>3 DEF Redeliver
  <2>4. CASE \E r \in Requests : Step(r)
    BY <2>4 DEF Step
  <2>5. CASE \E r \in Requests : AwaitThrows(r)
    BY <1>1, <2>5 DEF AwaitThrows
  <2>6. CASE \E r \in Requests : AnswerLost(r)
    BY <1>1, <2>6 DEF AnswerLost
  <2>7. CASE ServerCrash
    BY <1>1, <2>7 DEF ServerCrash
  <2> QED
    BY <1>2, <2>1, <2>2, <2>3, <2>4, <2>5, <2>6, <2>7 DEF IntakeNext
<1>3. CASE \E l \in Logins : CallbackThrows(l)
  BY <1>1, <1>3 DEF CallbackThrows
<1>4. CASE GrantsChange \/ StateExpires
  BY <1>4 DEF GrantsChange, StateExpires, intakeVars
<1>5. CASE \E l \in Logins : StartLogin(l) \/ StartInstallFlow(l) \/ Callback(l) \/ FetchPage(l)
                              \/ LookupInstallation(l) \/ SignSession(l)
  BY <1>5 DEF StartLogin, StartInstallFlow, Callback, FetchPage, LookupInstallation, SignSession, intakeVars
<1>6. CASE \E l \in Logins : LinkInstallation(l)
  BY <1>6 DEF LinkInstallation
<1> QED
  BY <1>2, <1>3, <1>4, <1>5, <1>6 DEF Next, Webhook, LoginStep

LEMMA RowsNext ==
  ASSUME RowInv, [Next]_vars
  PROVE  RowInv'
<1>0. TypeInv /\ TypeInv' /\ faults \in Nat /\ faults' \in Nat
  BY NextType DEF RowInv, TypeInv, TypeOK, IntakeTypeOK
<1>1. CASE Elsewhere /\ faults <= faults'
  BY <1>0, <1>1, FewerRows DEF Elsewhere, RowInv
<1>2. ASSUME NEW r \in Requests, NEW S \in SUBSET Subjects, NEW after \in Ends, Operation(r, S, after)
      PROVE  (Numbered /\ OneRowPerSubject /\ RowHasJob)'
  <2>0. faults' = 0 => faults = 0 /\ after # "error"
    BY <1>0, <1>2 DEF Operation
  <2>1. CASE Create(r, S, after) /\ after \in {"add", "error"}
    BY <1>0, <2>0, <2>1, CreateKeeps
  <2>2. CASE Add(r, S, after) /\ after \in {"200", "error"}
    BY <1>0, <2>0, <2>2, AddKeeps
  <2>3. CASE /\ InstallationCreated(r, after) \/ InstallationDeleted(r, after) \/ Find(r, S) \/ Upsert(r, S, after)
             /\ after = "200" \/ after = "error" \/ after = "create"
    <3>1. /\ rows' \subseteq rows /\ jobs' = jobs /\ nextId <= nextId' /\ nextId' \in Nat
          /\ request[r].pc # "add" /\ request'[r].pc # "add"
          /\ \A q \in Requests \ {r} : request'[q] = request[q]
      BY <2>3, OtherOperations
    <3> QED
      BY <1>0, <2>0, <3>1, FewerRows
  <2> QED
    BY <1>2, <2>1, <2>2, <2>3 DEF Operation
<1>3. CASE Webhook
  <2>1. CASE Elsewhere /\ nextId' = nextId /\ installation' = installation
    <3>1. faults <= faults'
      BY <1>0, <1>3, FaultsGrow DEF Next
    <3> QED
      BY <1>0, <1>1, <2>1, <3>1 DEF RowInv
  <2>2. CASE \E r \in Requests, S \in SUBSET Subjects, after \in Ends : Operation(r, S, after)
    BY <1>0, <1>2, <2>2 DEF RowInv
  <2> QED
    BY <1>0, <1>3, <2>1, <2>2, WebhookSteps DEF Webhook
<1>4. CASE ~Webhook
  <2>1. Elsewhere
    BY <1>0, <1>4, LoginSteps
  <2>2. faults <= faults'
    BY <1>0, FaultsGrow DEF vars, intakeVars
  <2> QED
    BY <1>0, <1>1, <2>1, <2>2 DEF RowInv
<1> QED
  BY <1>0, <1>3, <1>4 DEF RowInv

\* A commit has one session and a workflow run one CIRun, however many deliveries
\* of it are handled at once (index.ts:85, index.ts:139, the unique keys).
THEOREM OneRow == Spec => []OneRowPerSubject
<1>1. Spec => []RowInv
  BY RowsInit, RowsNext, PTL DEF Spec
<1>2. RowInv => OneRowPerSubject
  BY DEF RowInv
<1> QED
  BY <1>1, <1>2, PTL

\* As long as nothing fails, a row that makes later deliveries turn away has its
\* job, or will (index.ts:111, index.ts:166).
THEOREM EveryRowHasJob == Spec => []RowHasJob
<1>1. Spec => []RowInv
  BY RowsInit, RowsNext, PTL DEF Spec
<1>2. RowInv => RowHasJob
  BY DEF RowInv
<1> QED
  BY <1>1, <1>2, PTL

-----------------------------------------------------------------------------
(***************************************************************************)
(* The rows and links of an installation go with it.                       *)
(***************************************************************************)
LivingInv == TypeInv /\ NothingOutlivesInstallation

LEMMA WebhookLiving ==
  ASSUME LivingInv, Webhook
  PROVE  \A x \in rows' : LivesOn(x.installationId)'
<1>0. TypeInv /\ IntakeTypeOK /\ Known /\ \A x \in rows : LivesOn(x.installationId)
  BY DEF LivingInv, TypeInv, TypeOK, NothingOutlivesInstallation
<1>1. CASE Elsewhere
  BY <1>0, <1>1 DEF Elsewhere
<1>2. ASSUME NEW r \in Requests, NEW S \in SUBSET Subjects, NEW after \in Ends, Operation(r, S, after)
      PROVE  \A x \in rows' : LivesOn(x.installationId)'
  <2> DEFINE i == request[r].event.inst
  <2>f. request[r].pc # "unused" => i \in Installations
    BY <1>0, EventTypes DEF Known
  <2>1. CASE InstallationCreated(r, after) \/ Upsert(r, S, after)
    <3>1. UpsertRow(i) /\ i \in Installations /\ rows' = rows
      BY <2>1, <2>f DEF InstallationCreated, Upsert, At
    <3> QED
      BY <1>0, <3>1, UpsertFacts
  <2>2. CASE InstallationDeleted(r, after)
    <3>1. /\ i \in Installations /\ installation' = [installation EXCEPT ![i] = 0]
          /\ rows' = rows \ Cascade(installation[i])
      BY <2>2, <2>f DEF InstallationDeleted, At
    <3>2. ASSUME NEW x \in rows' PROVE LivesOn(x.installationId)'
      <4>1. x.installationId # installation[i] /\ LivesOn(x.installationId)
        BY <1>0, <3>1 DEF Cascade
      <4> QED
        BY <1>0, <3>1, <4>1 DEF LivesOn, IntakeTypeOK
    <3> QED
      BY <3>2
  <2>3. CASE Find(r, S) \/ Add(r, S, after)
    BY <1>0, <2>3 DEF Find, Add, tableVars, LivesOn
  <2>4. CASE Create(r, S, after)
    <3>1. \A x \in rows' : x \in rows \/ (x.installationId = request[r].install /\ LivesOn(request[r].install))
      BY <2>4 DEF Create
    <3>2. installation' = installation
      BY <2>4 DEF Create
    <3> QED
      BY <1>0, <3>1, <3>2 DEF LivesOn
  <2> QED
    BY <1>2, <2>1, <2>2, <2>3, <2>4 DEF Operation
<1> QED
  BY <1>0, <1>1, <1>2, WebhookSteps DEF Webhook

LEMMA LivingNext ==
  ASSUME LivingInv, [Next]_vars
  PROVE  LivingInv'
<1>0. TypeInv /\ TypeInv' /\ NothingOutlivesInstallation
  BY NextType DEF LivingInv
<1>1. CASE Webhook
  <2>1. \A id \in links' : LivesOn(id)'
    <3>1. \A id \in links' : id # 0 /\ \E i \in Installations : installation'[i] = id
      BY <1>0, <1>1 DEF Webhook, NothingOutlivesInstallation, LivesOn
    <3> QED
      BY <3>1 DEF LivesOn
  <2> QED
    BY <1>0, <1>1, <2>1, WebhookLiving DEF LivingInv, NothingOutlivesInstallation
<1>2. CASE ~Webhook
  <2>1. Elsewhere
    BY <1>0, <1>2, LoginSteps
  <2>2. ASSUME NEW id \in links' PROVE id \in links \/ LivesOn(id)'
    <3>1. CASE \E l \in Logins : LinkInstallation(l)
      <4>1. PICK l \in Logins : LinkInstallation(l)
        BY <3>1
      <4> DEFINE i == Upcoming(l)
                 new == IF login[l].found = 0 THEN nextId + 1 ELSE login[l].found
      <4>2. CASE installation[i] # login[l].found
        BY <4>1, <4>2 DEF LinkInstallation
      <4>3. CASE installation[i] = login[l].found
        <5>1. /\ installation' = [installation EXCEPT ![i] = new] /\ links' = links \cup {new}
              /\ login[l].pc = "write"
          BY <4>1, <4>3 DEF LinkInstallation
        <5>2. i \in Installations
          BY <1>0, <5>1, UpcomingType DEF TypeInv, TypeOK, Listing
        <5>3. new # 0 /\ installation'[i] = new
          BY <1>0, <5>1, <5>2 DEF TypeInv, TypeOK, IntakeTypeOK
        <5> QED
          BY <5>1, <5>2, <5>3 DEF LivesOn
      <4> QED
        BY <4>2, <4>3
    <3>2. CASE ~ \E l \in Logins : LinkInstallation(l)
      BY <1>2, <3>2 DEF Next, GrantsChange, StateExpires, StartLogin, StartInstallFlow, LoginStep, Callback,
             FetchPage, LookupInstallation, SignSession, CallbackThrows, vars, loginVars
    <3> QED
      BY <3>1, <3>2
  <2> QED
    BY <1>0, <2>1, <2>2 DEF LivingInv, NothingOutlivesInstallation, Elsewhere
<1> QED
  BY <1>1, <1>2

\* No session, CI run or link of a user outlives the Installation row it belongs
\* to, although requests and logins hold its id across awaits (callback/route.ts:49,
\* schema.prisma's cascades).
THEOREM NothingOutlives == Spec => []NothingOutlivesInstallation
<1>1. Init => LivingInv
  BY InitType DEF Init, IntakeInit, LivingInv, NothingOutlivesInstallation
<1>2. Spec => []LivingInv
  BY <1>1, LivingNext, PTL DEF Spec
<1>3. LivingInv => NothingOutlivesInstallation
  BY DEF LivingInv
<1> QED
  BY <1>2, <1>3, PTL

-----------------------------------------------------------------------------
(***************************************************************************)
(* Who signs in has seen every page.  GitHub's pages cut the list of       *)
(* installations by place: the n-th has the places from (n - 1) * PerPage. *)
(***************************************************************************)
Below(G, i) == {j \in G : j < i}
Place(G, i) == Cardinality(Below(G, i))
Slice(G, first, size) == {i \in G : Place(G, i) \in first .. first + size - 1}

LEMMA BelowFacts ==
  ASSUME NEW G, G \subseteq Nat, NEW i \in Nat
  PROVE  IsFiniteSet(Below(G, i)) /\ Place(G, i) \in Nat
<1>1. \A j \in Below(G, i) : j \in Nat /\ j < i
  BY DEF Below
<1>2. \A j \in Below(G, i) : j <= i
  BY <1>1
<1>3. Below(G, i) \in SUBSET Nat
  BY <1>1
<1>4. IsFiniteSet(Below(G, i))
  BY <1>2, <1>3, FS_BoundedSetOfNaturals
<1> QED
  BY <1>4, FS_CardinalityType DEF Place

LEMMA PlaceFacts ==
  ASSUME NEW G, G \subseteq Nat, NEW i \in Nat
  PROVE  /\ \A k \in G : k < i => Place(G, k) < Place(G, i)
         /\ \A k \in Nat : i <= k => Place(G, i) <= Place(G, k)
<1>1. ASSUME NEW k \in Nat, NEW m \in Nat, k <= m
      PROVE  Below(G, k) \subseteq Below(G, m) /\ Place(G, k) <= Place(G, m)
  <2>1. ASSUME NEW j, j \in Below(G, k) PROVE j \in Below(G, m)
    <3>1. j \in G /\ j < k /\ j \in Nat
      BY <2>1 DEF Below
    <3>2. j < m
      BY <1>1, <3>1
    <3> QED
      BY <3>1, <3>2 DEF Below
  <2>2. Below(G, k) \subseteq Below(G, m)
    BY <2>1
  <2> QED
    BY <2>2, BelowFacts, FS_Subset DEF Place
<1>2. ASSUME NEW k \in G, k < i PROVE Place(G, k) < Place(G, i)
  <2>1. k \in Nat /\ k <= i
    BY <1>2
  <2>2. k \in Below(G, i) /\ k \notin Below(G, k)
    BY <1>2, <2>1 DEF Below
  <2>3. Below(G, k) \subseteq Below(G, i) /\ Below(G, k) # Below(G, i)
    BY <1>1, <2>1, <2>2
  <2>4. Place(G, k) <= Place(G, i) /\ Place(G, k) # Place(G, i)
    BY <2>1, <2>3, BelowFacts, FS_Subset DEF Place
  <2>5. Place(G, k) \in Nat /\ Place(G, i) \in Nat
    BY <2>1, BelowFacts
  <2> QED
    BY <2>4, <2>5
<1> QED
  BY <1>1, <1>2

\* A slice with something behind it is full.
LEMMA FullSlice ==
  ASSUME NEW G, G \subseteq Nat, NEW first \in Nat, NEW size \in Nat \ {0},
         NEW i \in G, Place(G, i) >= first + size
  PROVE  Cardinality(Slice(G, first, size)) >= size /\ Cardinality(Slice(G, first, size)) \in Nat
<1> DEFINE B == Below(G, i)
           n == Cardinality(B)
           f == [j \in B |-> Place(G, j)]
           P == first .. first + size - 1
           Q == Slice(G, first, size)
           g == [j \in Q |-> Place(G, j)]
<1>0. i \in Nat /\ \A j \in B : j \in Nat /\ j \in G /\ j < i
  BY DEF Below
<1>1. IsFiniteSet(B) /\ n \in Nat /\ n = Place(G, i)
  BY <1>0, BelowFacts DEF Place
<1>2. ASSUME NEW j \in B PROVE Place(G, j) \in 0 .. n - 1
  <2>1. Place(G, j) < Place(G, i) /\ Place(G, j) \in Nat
    BY <1>0, PlaceFacts, BelowFacts
  <2> QED
    BY <1>1, <2>1
<1>3. \A j, k \in B : Place(G, j) = Place(G, k) => j = k
  <2> SUFFICES ASSUME NEW j \in B, NEW k \in B, j < k PROVE Place(G, j) # Place(G, k)
    BY <1>0
  <2>1. Place(G, j) < Place(G, k) /\ Place(G, j) \in Nat /\ Place(G, k) \in Nat
    BY <1>0, PlaceFacts, BelowFacts
  <2> QED
    BY <2>1
<1>4. f \in Injection(B, 0 .. n - 1)
  <2>1. f \in [B -> 0 .. n - 1]
    BY <1>2
  <2>2. \A j, k \in B : f[j] = f[k] => j = k
    BY <1>3
  <2> QED
    BY <2>1, <2>2 DEF Injection, IsInjective
<1>5. IsFiniteSet(0 .. n - 1) /\ Cardinality(0 .. n - 1) = n
  <2>1. 0 \in Int /\ n - 1 \in Int /\ (0 > n - 1 <=> n = 0) /\ n - 1 - 0 + 1 = n
    BY <1>1
  <2> QED
    BY <1>1, <2>1, FS_Interval
<1>6. f \in Surjection(B, 0 .. n - 1)
  BY <1>1, <1>4, <1>5, FS_Injection
<1>7. ASSUME NEW p \in P PROVE \E j \in Q : g[j] = p
  <2>1. p \in 0 .. n - 1
    BY <1>1
  <2>2. PICK j \in B : f[j] = p
    BY <1>6, <2>1 DEF Surjection
  <2>3. j \in G /\ Place(G, j) = p
    BY <1>0, <2>2
  <2>4. j \in Q /\ g[j] = p
    BY <1>7, <2>3 DEF Slice
  <2> QED
    BY <2>4
<1>8. Q \subseteq B
  <2> SUFFICES ASSUME NEW j \in Q, ~(j < i) PROVE FALSE
    BY DEF Slice, Below
  <2>1. j \in Nat /\ i <= j /\ Place(G, j) \in P
    BY <1>0 DEF Slice, Below
  <2>2. Place(G, i) <= Place(G, j) /\ Place(G, j) \in Nat /\ Place(G, i) \in Nat
    BY <1>0, <2>1, PlaceFacts, BelowFacts
  <2> QED
    BY <2>1, <2>2
<1>9. IsFiniteSet(Q) /\ Cardinality(Q) \in Nat
  BY <1>1, <1>8, FS_Subset, FS_CardinalityType
<1>10. g \in Surjection(Q, P)
  <2>1. g \in [Q -> P]
    BY DEF Slice
  <2> QED
    BY <1>7, <2>1 DEF Surjection
<1>11. Cardinality(P) = size
  BY FS_Interval
<1>12. Cardinality(P) <= Cardinality(Q)
  BY <1>9, <1>10, FS_Surjection
<1> QED
  BY <1>9, <1>11, <1>12

\* After a page the list has all places up to its end; after one that is not full, all.
LEMMA PagesAddUp ==
  ASSUME TypeInv, NEW n \in Nat \ {0}, NEW listed,
         \A i \in grants : Place(grants, i) < (n - 1) * PerPage => i \in listed
  PROVE  /\ \A i \in grants : Place(grants, i) < n * PerPage => i \in listed \cup Page(n)
         /\ Cardinality(Page(n)) < PerPage => \A i \in grants : i \in listed \cup Page(n)
<1> DEFINE first == (n - 1) * PerPage
<1>1. grants \subseteq Nat /\ PerPage \in Nat \ {0}
  BY LoginAssumption, IntakeAssumption DEF TypeInv, TypeOK, LoginTypeOK
<1>2. first \in Nat /\ n * PerPage = first + PerPage
  BY <1>1
<1>3. Page(n) = Slice(grants, first, PerPage)
  <2>1. n * PerPage - 1 = first + PerPage - 1
    BY <1>1, <1>2
  <2>2. Page(n) = {i \in grants : Place(grants, i) \in first .. n * PerPage - 1}
    BY DEF Page, Place, Below
  <2> QED
    BY <2>1, <2>2 DEF Slice
<1> HIDE DEF first
<1>4. \A i \in grants : Place(grants, i) < first + PerPage => i \in listed \cup Page(n)
  <2> SUFFICES ASSUME NEW i \in grants, Place(grants, i) < first + PerPage, ~(Place(grants, i) < first)
               PROVE  i \in Page(n)
    BY DEF first
  <2>1. Place(grants, i) \in Nat
    BY <1>1, BelowFacts
  <2>2. Place(grants, i) \in first .. first + PerPage - 1
    BY <1>1, <1>2, <2>1
  <2> QED
    BY <1>3, <2>2 DEF Slice
<1>5. ASSUME Cardinality(Page(n)) < PerPage, NEW i \in grants PROVE i \in listed \cup Page(n)
  <2>1. ~(Place(grants, i) >= first + PerPage)
    <3> SUFFICES ASSUME Place(grants, i) >= first + PerPage PROVE FALSE
      OBVIOUS
    <3>1. /\ Cardinality(Slice(grants, first, PerPage)) >= PerPage
          /\ Cardinality(Slice(grants, first, PerPage)) \in Nat
      BY <1>1, <1>2, FullSlice
    <3> QED
      BY <1>1, <1>3, <1>5, <3>1
  <2>2. Place(grants, i) \in Nat
    BY <1>1, BelowFacts
  <2> QED
    BY <1>1, <1>2, <1>4, <2>1, <2>2
<1> QED
  BY <1>2, <1>4, <1>5

\* While an attempt's list is in use and still right, every installation the user
\* may see is on a page to come, waiting in the list, or linked.
Linked(i) == installation[i] # 0 /\ installation[i] \in links
Seen(l) ==
  /\ login[l].pc = "fetch" =>
       \A i \in grants : Place(grants, i) < (login[l].page - 1) * PerPage => i \in login[l].listed
  /\ login[l].pc \in {"lookup", "write"} => \A i \in grants : i \in login[l].listed \/ Linked(i)
  /\ login[l].pc = "sign" => \A i \in grants : Linked(i)
SeenInv == TypeInv /\ \A l \in Logins : login[l].steady => Seen(l)

StaysLinked == \A i \in Installations : Linked(i) => Linked(i)'

\* An attempt that is left alone keeps what it has seen ...
LEMMA SeenKeeps ==
  ASSUME TypeInv, NEW l \in Logins, Seen(l), login'[l] = login[l], grants' = grants, StaysLinked
  PROVE  Seen(l)'
<1>1. \A i \in grants : Linked(i) => Linked(i)'
  BY DEF TypeInv, TypeOK, LoginTypeOK, StaysLinked
<1> QED
  BY <1>1 DEF Seen

\* ... one whose list is not in use has nothing to keep ...
LEMMA SeenNothing ==
  ASSUME NEW l \in Logins, login'[l].pc \notin Open
  PROVE  Seen(l)'
BY DEF Seen, Open

\* ... and that is every one still steady after the list may have changed.
LEMMA SeenUnsteady ==
  ASSUME TypeInv, login' = Unsteady, NEW l \in Logins, login'[l].steady
  PROVE  Seen(l)'
<1>1. login'[l] = [login[l] EXCEPT !.steady = login[l].steady /\ login[l].pc \notin Open]
  BY DEF Unsteady
<1>2. login[l] \in LoginType
  BY DEF TypeInv, TypeOK, LoginTypeOK, LoginType
<1>3. login'[l].pc = login[l].pc /\ login'[l].steady = (login[l].steady /\ login[l].pc \notin Open)
  BY <1>1, <1>2 DEF LoginType
<1> QED
  BY <1>3, SeenNothing

\* A webhook that takes no row away changes none.
LEMMA WebhookLinks ==
  ASSUME TypeInv, Webhook, \A i \in Installations : installation[i] # 0 => installation'[i] # 0
  PROVE  StaysLinked
<1>0. installation \in [Installations -> Nat] /\ Known
  BY DEF TypeInv, TypeOK, IntakeTypeOK
<1>1. ASSUME NEW r \in Requests, NEW S \in SUBSET Subjects, NEW after \in Ends, Operation(r, S, after)
      PROVE  \A i \in Installations : installation[i] # 0 => installation'[i] = installation[i]
  <2>1. CASE InstallationCreated(r, after) \/ Upsert(r, S, after)
    BY <1>0, <2>1 DEF InstallationCreated, Upsert, UpsertRow
  <2>2. CASE InstallationDeleted(r, after)
    <3>1. installation' = [installation EXCEPT ![request[r].event.inst] = 0]
      BY <2>2 DEF InstallationDeleted
    <3> QED
      BY <1>0, <3>1
  <2>3. CASE Find(r, S) \/ Create(r, S, after) \/ Add(r, S, after)
    BY <2>3 DEF Find, Create, Add, tableVars
  <2> QED
    BY <1>1, <2>1, <2>2, <2>3 DEF Operation
<1>2. \A i \in Installations : installation[i] # 0 => installation'[i] = installation[i]
  BY <1>1, WebhookSteps DEF Webhook
<1>3. ASSUME NEW i \in Installations, Linked(i) PROVE Linked(i)'
  <2>1. installation'[i] = installation[i] /\ installation[i] # 0 /\ installation[i] \in links
    BY <1>2, <1>3 DEF Linked
  <2>2. installation'[i] \in links'
    BY <2>1 DEF Webhook
  <2> QED
    BY <2>1, <2>2 DEF Linked
<1> QED
  BY <1>3 DEF StaysLinked

LEMMA LinkFacts ==
  ASSUME TypeInv, NEW l \in Logins, LinkInstallation(l),
         NEW i, i = Upcoming(l), installation[i] = login[l].found
  PROVE  i \in login[l].listed /\ Linked(i)' /\ StaysLinked
<1> DEFINE id == IF login[l].found = 0 THEN nextId + 1 ELSE login[l].found
<1>0. installation \in [Installations -> Nat] /\ nextId \in Nat /\ login[l].found \in Nat
  BY DEF TypeInv, TypeOK, IntakeTypeOK, LoginTypeOK
<1>1. i \in login[l].listed /\ i \in Installations
  BY UpcomingType DEF TypeInv, TypeOK, Listing, LinkInstallation
<1>2. installation' = [installation EXCEPT ![i] = id] /\ links' = links \cup {id}
  BY DEF LinkInstallation
<1>3. id # 0
  BY <1>0
<1>4. Linked(i)'
  BY <1>0, <1>1, <1>2, <1>3 DEF Linked
<1>5. ASSUME NEW j \in Installations, Linked(j), j # i PROVE Linked(j)'
  BY <1>0, <1>2, <1>5 DEF Linked
<1> QED
  BY <1>1, <1>4, <1>5 DEF StaysLinked

\* The steps of an attempt, for the attempt itself.
LEMMA SeenStep ==
  ASSUME TypeInv, NEW l \in Logins, LoginStep(l), login[l].steady => Seen(l)
  PROVE  login'[l].steady => Seen(l)'
<1> DEFINE r == login[l]
<1>0. /\ login \in [Logins -> LoginType] /\ r \in LoginType
      /\ grants \subseteq Nat /\ grants \subseteq Installations /\ PerPage \in Nat \ {0}
  BY LoginAssumption, IntakeAssumption DEF TypeInv, TypeOK, LoginTypeOK, LoginType
<1>t. r.page \in Nat \ {0} /\ r.listed \subseteq Installations
  BY <1>0 DEF LoginType
<1>1. CASE Callback(l)
  <2>1. CASE StateMatches(l)
    <3>1. login'[l] = [NewLogin EXCEPT !.pc = "fetch"]
      BY <1>0, <1>1, <2>1 DEF Callback
    <3>2. login'[l].pc = "fetch" /\ login'[l].page = 1
      BY <3>1 DEF NewLogin
    <3>3. grants' = grants /\ \A i \in grants : ~(Place(grants, i) < 0)
      BY <1>0, <1>1, BelowFacts DEF Callback
    <3>4. (login'[l].page - 1) * PerPage = 0
      BY <1>0, <3>2
    <3> QED
      BY <3>2, <3>3, <3>4 DEF Seen
  <2>2. CASE ~StateMatches(l)
    <3>1. login'[l].pc = "failed"
      BY <1>0, <1>1, <2>2 DEF Callback, Over, NewLogin
    <3> QED
      BY <3>1, SeenNothing DEF Open
  <2> QED
    BY <2>1, <2>2
<1>2. CASE FetchPage(l)
  <2> DEFINE all == r.listed \cup Page(r.page)
  <2>0. r.pc = "fetch" /\ grants' = grants /\ links' = links /\ installation' = installation
    BY <1>2 DEF FetchPage, intakeVars, tableVars
  <2>1. CASE Cardinality(Page(r.page)) < PerPage
    <3>1. login'[l] = [r EXCEPT !.pc = "lookup", !.page = 1, !.listed = all]
      BY <1>0, <1>2, <2>1 DEF FetchPage
    <3>2. login'[l].pc = "lookup" /\ login'[l].listed = all /\ login'[l].steady = r.steady
      BY <1>0, <3>1 DEF LoginType
    <3>3. r.steady => \A i \in grants : i \in all
      BY <1>t, <2>0, <2>1, PagesAddUp DEF Seen
    <3> QED
      BY <2>0, <3>2, <3>3 DEF Seen
  <2>2. CASE ~(Cardinality(Page(r.page)) < PerPage)
    <3>1. login'[l] = [r EXCEPT !.page = r.page + 1, !.listed = all]
      BY <1>0, <1>2, <2>2 DEF FetchPage
    <3>2. /\ login'[l].pc = "fetch" /\ login'[l].listed = all /\ login'[l].steady = r.steady
          /\ login'[l].page = r.page + 1
      BY <1>0, <2>0, <3>1 DEF LoginType
    <3>3. r.steady => \A i \in grants : Place(grants, i) < r.page * PerPage => i \in all
      BY <1>t, <2>0, PagesAddUp DEF Seen
    <3>4. (login'[l].page - 1) * PerPage = r.page * PerPage
      BY <1>t, <3>2
    <3> QED
      BY <2>0, <3>2, <3>3, <3>4 DEF Seen
  <2> QED
    BY <2>1, <2>2
<1>3. CASE LookupInstallation(l)
  <2>0. r.pc = "lookup" /\ grants' = grants /\ links' = links /\ installation' = installation
    BY <1>3 DEF LookupInstallation, intakeVars, tableVars
  <2>1. CASE r.listed = {}
    <3>1. login'[l].pc = "sign" /\ login'[l].steady = r.steady
      BY <1>0, <1>3, <2>1 DEF LookupInstallation, LoginType
    <3>2. r.steady => \A i \in grants : Linked(i)
      BY <2>0, <2>1 DEF Seen
    <3> QED
      BY <2>0, <3>1, <3>2 DEF Seen, Linked
  <2>2. CASE r.listed # {}
    <3>1. login'[l] = [r EXCEPT !.pc = "write", !.found = installation[Upcoming(l)]]
      BY <1>0, <1>3, <2>2 DEF LookupInstallation
    <3>2. login'[l].pc = "write" /\ login'[l].listed = r.listed /\ login'[l].steady = r.steady
      BY <1>0, <3>1 DEF LoginType
    <3>3. r.steady => \A i \in grants : i \in r.listed \/ Linked(i)
      BY <2>0 DEF Seen
    <3> QED
      BY <2>0, <3>2, <3>3 DEF Seen, Linked
  <2> QED
    BY <2>1, <2>2
<1>4. CASE LinkInstallation(l)
  <2>i. PICK i : i = Upcoming(l)
    OBVIOUS
  <2>0. r.pc = "write" /\ grants' = grants
    BY <1>4 DEF LinkInstallation
  <2>1. CASE installation[i] = r.found
    <3>1. login' = [login EXCEPT ![l] = [r EXCEPT !.pc = "lookup", !.listed = r.listed \ {i}, !.found = 0]]
      BY <1>0, <1>4, <2>1, <2>i DEF LinkInstallation, LoginType
    <3>2. login'[l].pc = "lookup" /\ login'[l].listed = r.listed \ {i} /\ login'[l].steady = r.steady
      BY <1>0, <3>1 DEF LoginType
    <3>3. r.steady => \A j \in grants : j \in r.listed \/ Linked(j)
      BY <2>0 DEF Seen
    <3>4. r.steady => \A j \in grants : j \in r.listed \ {i} \/ Linked(j)'
      BY <1>0, <1>4, <2>1, <2>i, <3>3, LinkFacts DEF StaysLinked
    <3> QED
      BY <2>0, <3>2, <3>4 DEF Seen
  <2>2. CASE installation[i] # r.found
    <3>1. login'[l].pc = "failed"
      BY <1>0, <1>4, <2>2, <2>i DEF LinkInstallation, Over, NewLogin
    <3> QED
      BY <3>1, SeenNothing DEF Open
  <2> QED
    BY <2>1, <2>2
<1>5. CASE SignSession(l)
  <2>1. login'[l].pc = "done"
    BY <1>0, <1>5 DEF SignSession, Over, NewLogin
  <2> QED
    BY <2>1, SeenNothing DEF Open
<1> QED
  BY <1>1, <1>2, <1>3, <1>4, <1>5 DEF LoginStep

LEMMA SeenNext ==
  ASSUME SeenInv, [Next]_vars
  PROVE  SeenInv'
<1>0. TypeInv /\ TypeInv' /\ login \in [Logins -> LoginType]
  BY NextType DEF SeenInv, TypeInv, TypeOK, LoginTypeOK, LoginType
<1>q. SUFFICES ASSUME NEW k \in Logins, login'[k].steady PROVE Seen(k)'
  BY <1>0 DEF SeenInv
<1>k. ASSUME login'[k] = login[k], grants' = grants, StaysLinked PROVE Seen(k)'
  BY <1>0, <1>k, <1>q, SeenKeeps DEF SeenInv
<1>s. ASSUME UNCHANGED <<intakeVars, links>> PROVE StaysLinked
  BY <1>s DEF StaysLinked, Linked, intakeVars, tableVars
<1>1. CASE Webhook
  <2>1. CASE login' = Unsteady
    BY <1>0, <1>q, <2>1, SeenUnsteady
  <2>2. CASE login' # Unsteady
    BY <1>0, <1>1, <1>k, <2>2, WebhookLinks DEF Webhook
  <2> QED
    BY <2>1, <2>2
<1>2. CASE GrantsChange
  BY <1>0, <1>2, <1>q, SeenUnsteady DEF GrantsChange
<1>3. CASE StateExpires \/ UNCHANGED vars
  BY <1>3, <1>k, <1>s DEF StateExpires, vars, loginVars
<1>4. ASSUME NEW l \in Logins, LoginStep(l) PROVE Seen(k)'
  <2>1. CASE k = l
    BY <1>0, <1>4, <1>q, <2>1, SeenStep DEF SeenInv
  <2>2. CASE k # l
    <3>1. login'[k] = login[k] /\ grants' = grants
      BY <1>0, <1>4, <2>2
         DEF LoginStep, Callback, FetchPage, LookupInstallation, LinkInstallation, SignSession
    <3>2. StaysLinked
      <4>1. CASE LinkInstallation(l) /\ installation[Upcoming(l)] = login[l].found
        BY <1>0, <4>1, LinkFacts
      <4>2. CASE LinkInstallation(l) /\ installation[Upcoming(l)] # login[l].found
        BY <4>2 DEF LinkInstallation, StaysLinked, Linked
      <4>3. CASE ~LinkInstallation(l)
        BY <1>4, <1>s, <4>3 DEF LoginStep, Callback, FetchPage, LookupInstallation, SignSession
      <4> QED
        BY <4>1, <4>2, <4>3
    <3> QED
      BY <1>k, <3>1, <3>2
  <2> QED
    BY <2>1, <2>2
<1>5. ASSUME NEW l \in Logins, StartLogin(l) \/ StartInstallFlow(l) \/ CallbackThrows(l) PROVE Seen(k)'
  <2>0. login[l] \in LoginType
    BY <1>0
  <2>1. CASE k = l
    <3>1. login'[k].pc \in {"github", "failed"}
      BY <1>0, <1>5, <2>0, <2>1 DEF StartLogin, StartInstallFlow, CallbackThrows, Over, NewLogin, LoginType
    <3> QED
      BY <3>1, SeenNothing DEF Open
  <2>2. CASE k # l
    <3>1. login'[k] = login[k] /\ grants' = grants /\ UNCHANGED <<installation, links>>
      BY <1>0, <1>5, <2>2 DEF StartLogin, StartInstallFlow, CallbackThrows, intakeVars, tableVars
    <3>2. StaysLinked
      BY <3>1 DEF StaysLinked, Linked
    <3> QED
      BY <1>k, <3>1, <3>2
  <2> QED
    BY <2>1, <2>2
<1> QED
  BY <1>1, <1>2, <1>3, <1>4, <1>5 DEF Next

\* Whoever is about to be signed in is linked to every installation GitHub lists for
\* them, on however many pages and whatever other logins and the webhook do
\* meanwhile, unless their access or the rows changed since the list was begun
\* (github-oauth.ts:66 the pages, callback/route.ts:48 the upserts).
THEOREM SignedInSeesAllPages == Spec => []SignedInSeesAll
<1>1. Init => SeenInv
  BY InitType DEF Init, SeenInv, Seen, NewLogin
<1>2. Spec => []SeenInv
  BY <1>1, SeenNext, PTL DEF Spec
<1>3. SeenInv => SignedInSeesAll
  BY DEF SeenInv, SignedInSeesAll, Seen, Linked
<1> QED
  BY <1>2, <1>3, PTL
=============================================================================
