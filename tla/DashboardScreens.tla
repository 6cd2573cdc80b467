-------------------------- MODULE DashboardScreens --------------------------
(***************************************************************************)
(* One dashboard screen over the API: the load of its effect, which a      *)
(* change of page cancels, and the loads of its buttons and of its poll,   *)
(* which nothing cancels.  Answers arrive in any order.                    *)
(***************************************************************************)
EXTENDS DashboardApi

CONSTANTS
  Slots,      \* requests that may be under way at once
  MaxPage,    \* bound on the page asked for
  Screens     \* the screens to look at

\* Every screen asks an endpoint the server has.
ASSUME ScreensAssumption == \A s \in Screens : s.endpoint \in DOMAIN Queries

VARIABLES
  screen, page,
  data,       \* the answer shown, status 0 before the first
  error, loading, refreshing,
  requests,   \* the request of each slot
  gone,       \* navigated to the login page
  crossed     \* a load that nothing cancels was under way when the page changed

screenVars == <<screen, page, data, error, loading, refreshing, requests, gone, crossed>>
vars == <<apiVars, screenVars>>

\* An endpoint, whether its rows come in pages, whether it has a refresh button,
\* and the statuses it polls in, every five seconds.
Screen(endpoint, paged, refreshes, active) ==
  [endpoint |-> endpoint, paged |-> paged, refreshes |-> refreshes, active |-> active]

ReviewsScreen == Screen("list", TRUE, TRUE, {})
CIRunsScreen == Screen("list", TRUE, TRUE, {})
MutReviewDetailScreen == Screen("detail", FALSE, TRUE, {"QUEUED", "RUNNING"})
ReviewDetailScreen == Screen("detail", FALSE, TRUE, {"QUEUED", "RUNNING", "RETRYING"})
CIOverview == Screen("stats", FALSE, TRUE, {})
DashboardOverview == Screen("overview", FALSE, TRUE, {})
RepositoriesScreen == Screen("overview", FALSE, TRUE, {})
SettingsScreen == Screen("overview", FALSE, FALSE, {})

NoRequest == [page |-> 1, effect |-> FALSE, cancelled |-> FALSE, stage |-> "none", ids |-> {}, got |-> {},
              answer |-> NoAnswer]
Sent(p, effect) == [NoRequest EXCEPT !.page = p, !.effect = effect, !.stage = "sent"]

Busy == {s \in Slots : requests[s].stage # "none"}
\* The slot the next request takes.
Free(slot) == slot \notin Busy /\ slot = CHOOSE s \in Slots \ Busy : TRUE

Init ==
  /\ ApiInit
  /\ screen \in Screens
  /\ page = 1 /\ data = NoAnswer /\ error = FALSE /\ loading = TRUE /\ refreshing = FALSE
  /\ requests = [s \in Slots |-> IF s = CHOOSE first \in Slots : TRUE THEN Sent(1, TRUE) ELSE NoRequest]
  /\ gone = FALSE /\ crossed = FALSE

\* A load of a button or of the poll: it asks for the page of the moment.
Load(slot, isRefresh) ==
  /\ ~gone /\ Free(slot)
  /\ requests' = [requests EXCEPT ![slot] = Sent(page, FALSE)]
  /\ refreshing' = (refreshing \/ isRefresh)
  /\ UNCHANGED <<apiVars, screen, page, data, error, loading, gone, crossed>>

Loaded == data.status # 0
Active == Loaded /\ screen.endpoint = "detail" /\ \E v \in data.rows : v.status \in screen.active

Refresh(slot) == Loaded /\ screen.refreshes /\ ~refreshing /\ Load(slot, TRUE)
TryAgain(slot) == ~Loaded /\ ~loading /\ error /\ Load(slot, FALSE)
Poll(slot) == Active /\ Load(slot, TRUE)

\* The clean-up of the effect: its load will be dropped.
MutCancelled(r) == r
Cancelled(r) == IF r.effect THEN [r EXCEPT !.cancelled = TRUE] ELSE r

\* The pager goes by the page shown, and moves the page asked for.
TurnPage(slot, p) ==
  /\ ~gone /\ screen.paged /\ Loaded /\ data.pages > 1 /\ Free(slot)
  /\ \/ data.page > 1 /\ p = IF page > 1 THEN page - 1 ELSE 1
     \/ data.page < data.pages /\ p = page + 1
  /\ p # page /\ p <= MaxPage
  /\ page' = p
  /\ requests' = [s \in Slots |-> IF s = slot THEN Sent(p, TRUE) ELSE Cancelled(requests[s])]
  /\ crossed' = (crossed \/ \E s \in Busy : ~requests[s].effect)
  /\ UNCHANGED <<apiVars, screen, data, error, loading, refreshing, gone>>

\* One step of the server on a request.
Serve(slot) ==
  /\ LET r == requests[slot]
         queries == Queries[screen.endpoint]
     IN \/ r.stage = "sent" /\ requests' = [requests EXCEPT ![slot] = Authorise(r)]
        \/ /\ r.stage = "querying"
           /\ \E q \in queries \ r.got :
                requests' = [requests EXCEPT ![slot] = Respond(Run(r, q), screen.endpoint)]
  /\ UNCHANGED <<apiVars, screen, page, data, error, loading, refreshing, gone, crossed>>

Breaks(slot) ==
  /\ Trouble
  /\ requests[slot].stage \in {"sent", "querying"}
  /\ requests' = [requests EXCEPT ![slot] = Break(@)]
  /\ UNCHANGED <<rows, written, linked, session, steps, screen, page, data, error, loading, refreshing, gone, crossed>>

\* apiFetch: a 401 leaves for the login page, and the screen with all its loads
\* is no more.  Otherwise the answer is shown, or the error beside what was
\* shown before; a cancelled load changes nothing.
Arrive(slot) ==
  LET r == requests[slot]
      ok == r.answer.status = 200
  IN /\ r.stage = "answered"
     /\ \/ /\ r.answer.status = 401
           /\ gone' = TRUE
           /\ requests' = [s \in Slots |-> NoRequest]
           /\ page' = 1 /\ data' = NoAnswer /\ error' = FALSE /\ loading' = TRUE /\ refreshing' = FALSE
        \/ /\ r.answer.status # 401
           /\ IF r.cancelled THEN UNCHANGED <<data, error, loading, refreshing>>
              ELSE /\ data' = IF ok THEN r.answer ELSE data
                   /\ error' = ~ok
                   /\ loading' = FALSE /\ refreshing' = FALSE
           /\ requests' = [requests EXCEPT ![slot] = NoRequest]
           /\ UNCHANGED <<page, gone>>
     /\ UNCHANGED <<apiVars, screen, crossed>>

User == \E s \in Slots : Refresh(s) \/ TryAgain(s) \/ \E p \in 1 .. MaxPage : TurnPage(s, p)

Next ==
  \/ Meanwhile /\ UNCHANGED screenVars
  \/ User
  \/ \E s \in Slots : Poll(s) \/ Serve(s) \/ Breaks(s) \/ Arrive(s)

Spec == Init /\ [][Next]_vars

\* The timer of the poll fires and requests end.  Nobody has to press a button.
FairSpec ==
  /\ Spec
  /\ WF_vars(\E s \in Slots : Poll(s))
  /\ \A s \in Slots : WF_vars(Serve(s)) /\ WF_vars(Arrive(s))

-----------------------------------------------------------------------------
(* Properties.                                                             *)

\* Nothing is shown of an installation the user was never connected to, whatever
\* is asked for and whenever a connection ends (api.ts: "every query is scoped
\* to req.user.installationIds").
OwnRowsOnly == \A v \in data.rows : v.installation \in Connected

\* With nothing under way a list shows the page it asked for, unless the load
\* failed or a refresh was under way when the page was turned: loads of pages
\* left meanwhile are dropped, however late their answers.
ListShowsItsPage ==
  Busy = {} /\ Loaded /\ ~error /\ ~gone /\ ~crossed /\ screen.paged => data.page = page

\* Once the row a detail screen looks at is settled, so is what the screen
\* shows, although answers overtake each other; unless the screen never loaded,
\* or the user has to sign in again.
RowOne == {r \in rows : r.id = 1 /\ r.installation \in linked}
Settled == \E r \in RowOne : Flow[r.status] = {}
ShowsIt == \E v \in data.rows, r \in RowOne : v.status = r.status
DetailCatchesUp ==
  <>[]Settled => <>[](screen.endpoint = "detail" => ShowsIt \/ ~Loaded \/ gone)
=============================================================================
