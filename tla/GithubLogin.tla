---------------------------- MODULE GithubLogin ----------------------------
(***************************************************************************)
(* One user's browser logging in to the dashboard while the webhook        *)
(* endpoint (WebhookIntake) works on the same tables: the state cookie     *)
(* shared by the browser's tabs, the OAuth callback that lists the user's  *)
(* installations page by page and links each of them.                      *)
(* Users share nothing but the Installation rows, so one is enough.        *)
(***************************************************************************)
EXTENDS WebhookIntake

CONSTANTS Logins,   \* login attempts (tabs), numbered as they are started
          PerPage   \* installations on one page of GitHub's answer

ASSUME LoginAssumption == PerPage \in Nat \ {0} /\ Logins \subseteq Nat \ {0, 1}

VARIABLES
  grants,       \* at GitHub: installations the user has access to
  links,        \* User.installations: ids of Installation rows
  stateCookie,  \* gh_oauth_state: the login it was set for, or NoLogin
  login         \* the attempts

loginVars == <<links, stateCookie, login>>
vars == <<intakeVars, grants, loginVars>>

NoLogin == 0
Abandoned == 1  \* an attempt that was started before and never finished

\* Pages counted from 0.
MutNewLogin == [pc |-> "new", state |-> NoLogin, page |-> 0, listed |-> {},
                found |-> 0, steady |-> TRUE]
NewLogin == [pc |-> "new", state |-> NoLogin, page |-> 1, listed |-> {},
             found |-> 0, steady |-> TRUE]
Ended == {"done", "failed"}
Open == {"fetch", "lookup", "write", "sign"}  \* the list of installations is in use
Over(pc) == [NewLogin EXCEPT !.pc = pc]

LoginTypeOK ==
  /\ grants \subseteq Installations
  /\ links \subseteq Nat
  /\ stateCookie \in Logins \cup {NoLogin, Abandoned}
  /\ login \in [Logins -> [pc : {"new", "github", "fetch", "lookup", "write", "sign"} \cup Ended,
                           state : Logins \cup {NoLogin}, page : Nat \ {0},
                           listed : SUBSET Installations, found : Nat, steady : BOOLEAN]]

TypeOK == IntakeTypeOK /\ LoginTypeOK

Init ==
  /\ IntakeInit
  /\ grants = {}
  /\ links = {}
  /\ stateCookie \in {NoLogin, Abandoned}
  /\ login = [l \in Logins |-> NewLogin]

-----------------------------------------------------------------------------
(* GitHub and the browser.                                                 *)

Unsteady == [l \in Logins |-> [login[l] EXCEPT !.steady = @ /\ login[l].pc \notin Open]]

\* Access given or taken.  `steady` is FALSE once an attempt's list may be
\* out of date; it is a history variable.
GrantsChange ==
  /\ \E g \in SUBSET installed : g # grants /\ grants' = g
  /\ login' = Unsteady
  /\ UNCHANGED <<intakeVars, links, stateCookie>>

Fresh(l) == login[l].pc = "new" /\ \A k \in Logins : k < l => login[k].pc # "new"

\* GET /login: a fresh state in the URL and in the browser's one cookie.
StartLogin(l) ==
  /\ Fresh(l)
  /\ login' = [login EXCEPT ![l].pc = "github", ![l].state = l]
  /\ stateCookie' = l
  /\ UNCHANGED <<intakeVars, grants, links>>

\* GitHub's install page comes to the callback by itself, without a state.
StartInstallFlow(l) ==
  /\ Fresh(l)
  /\ login' = [login EXCEPT ![l].pc = "github"]
  /\ UNCHANGED <<intakeVars, grants, links, stateCookie>>

\* The state cookie lives ten minutes.
StateExpires ==
  /\ stateCookie # NoLogin
  /\ stateCookie' = NoLogin
  /\ UNCHANGED <<intakeVars, grants, links, login>>

-----------------------------------------------------------------------------
(* The callback.                                                           *)

StateMatches(l) == stateCookie = NoLogin \/ stateCookie = login[l].state

Callback(l) ==
  /\ login[l].pc = "github"
  /\ login' = [login EXCEPT ![l] = IF StateMatches(l) THEN [NewLogin EXCEPT !.pc = "fetch"] ELSE Over("failed")]
  /\ UNCHANGED <<intakeVars, grants, links, stateCookie>>

\* The installations GitHub has on page n, in the order of their numbers.
Page(n) ==
  LET Before(i) == Cardinality({j \in grants : j < i})
  IN {i \in grants : Before(i) \in (n - 1) * PerPage .. n * PerPage - 1}

\* A full page taken for the last one.
MutFetchPage(l) ==
  /\ login[l].pc = "fetch"
  /\ LET page == Page(login[l].page)
         all == login[l].listed \cup page IN
       login' = [login EXCEPT ![l] =
                   IF Cardinality(page) <= PerPage
                   THEN [@ EXCEPT !.pc = "lookup", !.page = 1, !.listed = all]
                   ELSE [@ EXCEPT !.page = login[l].page + 1, !.listed = all]]
  /\ UNCHANGED <<intakeVars, grants, links, stateCookie>>
\* One page; a page that is not full is the last.
FetchPage(l) ==
  /\ login[l].pc = "fetch"
  /\ LET page == Page(login[l].page)
         all == login[l].listed \cup page IN
       login' = [login EXCEPT ![l] =
                   IF Cardinality(page) < PerPage
                   THEN [@ EXCEPT !.pc = "lookup", !.page = 1, !.listed = all]
                   ELSE [@ EXCEPT !.page = login[l].page + 1, !.listed = all]]
  /\ UNCHANGED <<intakeVars, grants, links, stateCookie>>

\* `listed` loses what has been linked.
Upcoming(l) == CHOOSE i \in login[l].listed : \A j \in login[l].listed : i <= j

\* The upsert connects a relation, which Prisma does by looking the row up ...
LookupInstallation(l) ==
  /\ login[l].pc = "lookup"
  /\ login' = [login EXCEPT ![l] =
       IF login[l].listed = {} THEN [@ EXCEPT !.pc = "sign"]
       ELSE [@ EXCEPT !.pc = "write", !.found = installation[Upcoming(l)]]]
  /\ UNCHANGED <<intakeVars, grants, links, stateCookie>>

\* ... and writing what it found, or a new row.  Either fails when a webhook
\* has deleted or created the row in between.
LinkInstallation(l) ==
  LET i == Upcoming(l)
      id == IF login[l].found = 0 THEN nextId + 1 ELSE login[l].found IN
  /\ login[l].pc = "write"
  /\ IF installation[i] = login[l].found
     THEN /\ installation' = [installation EXCEPT ![i] = id]
          /\ nextId' = IF login[l].found = 0 THEN id ELSE nextId
          /\ links' = links \cup {id}
          /\ login' = [login EXCEPT ![l].pc = "lookup", ![l].listed = @ \ {i}, ![l].found = 0]
     ELSE /\ login' = [login EXCEPT ![l] = Over("failed")]
          /\ UNCHANGED <<installation, nextId, links>>
  /\ UNCHANGED <<installed, rows, jobs, request, faults, grants, stateCookie>>

\* The session cookie, which nothing here reads, and the end of the state cookie.
SignSession(l) ==
  /\ login[l].pc = "sign"
  /\ stateCookie' = NoLogin
  /\ login' = [login EXCEPT ![l] = Over("done")]
  /\ UNCHANGED <<intakeVars, grants, links>>

\* The code, a page of GitHub or the database fails: back to the landing
\* page, without a session, with the links made so far.
CallbackThrows(l) ==
  /\ login[l].pc \in {"fetch", "lookup", "write"}
  /\ Suffer("throws")
  /\ login' = [login EXCEPT ![l] = Over("failed")]
  /\ UNCHANGED <<installed, tableVars, jobs, request, grants, links, stateCookie>>

-----------------------------------------------------------------------------
(* Composition: the webhook's deletes cascade to the links, and access to  *)
(* an App that is not installed is no access.                              *)

Webhook ==
  /\ IntakeNext
  /\ grants' = grants \cap installed'
  /\ links' = {id \in links : \E i \in Installations : installation'[i] = id}
  /\ login' = IF grants' = grants /\ \A i \in Installations : installation[i] # 0 => installation'[i] # 0
              THEN login ELSE Unsteady
  /\ UNCHANGED <<stateCookie>>

LoginStep(l) ==
  Callback(l) \/ FetchPage(l) \/ LookupInstallation(l) \/ LinkInstallation(l) \/ SignSession(l)

Next ==
  \/ Webhook
  \/ GrantsChange \/ StateExpires
  \/ \E l \in Logins : StartLogin(l) \/ StartInstallFlow(l) \/ LoginStep(l) \/ CallbackThrows(l)

Spec == Init /\ [][Next]_vars

-----------------------------------------------------------------------------
(* Properties.                                                             *)

\* However many deliveries of one event look before any of them writes, a
\* commit or a run has one row (schema.prisma: "same commit won't be
\* reviewed twice").
OneRowPerSubject == \A x, y \in rows : x.subject = y.subject => x = y

\* A session that exists has a job, or the request that made it is about to
\* add one: later deliveries skip the commit, so nobody else would.
RowHasJob ==
  faults = 0 =>
    \A x \in rows : \/ [subject |-> x.subject, row |-> x.id] \in jobs
                    \/ \E r \in Requests : At(r, "add") /\ request[r].row = x.id

\* A session, a CI run or a user's link to an installation never outlives
\* the installation's row, although requests hold ids across awaits.
NothingOutlivesInstallation ==
  /\ \A x \in rows : LivesOn(x.installationId)
  /\ \A id \in links : LivesOn(id)

\* Who is about to be signed in is linked to every installation GitHub lists,
\* over all pages, unless access or the rows changed since the list began.
SignedInSeesAll ==
  \A l \in Logins : login[l].pc = "sign" /\ login[l].steady =>
    \A i \in grants : installation[i] # 0 /\ installation[i] \in links
=============================================================================
