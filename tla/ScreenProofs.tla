---------------------------- MODULE ScreenProofs ----------------------------
(***************************************************************************)
(* A list shows the page it asked for, however many loads are under way    *)
(* and in whatever order their answers arrive, and no screen ever shows a  *)
(* row of an installation that is not the user's: for any number of slots, *)
(* pages, rows, installations and screens.                                 *)
(***************************************************************************)
EXTENDS DashboardScreens, TLAPS

RequestFields == {"page", "effect", "cancelled", "stage", "ids", "got", "answer"}
AnswerFields == {"status", "rows", "total", "byStatus", "page", "pages"}

\* An answer that succeeded echoes the page of its request.
Shaped(r) ==
  /\ DOMAIN r = RequestFields /\ DOMAIN r.answer = AnswerFields
  /\ r.page \in Nat \ {0}
  /\ r.effect \in BOOLEAN /\ r.cancelled \in BOOLEAN
  /\ r.answer.status = 200 => r.answer.page = r.page

\* What a step of the server leaves of a request.
SameRequest(r, q) ==
  /\ Shaped(q)
  /\ q.page = r.page /\ q.effect = r.effect /\ q.cancelled = r.cancelled
  /\ q.stage # "none"

LEMMA SentShaped ==
  ASSUME NEW p \in Nat \ {0}, NEW effect \in BOOLEAN
  PROVE  /\ Shaped(NoRequest) /\ NoRequest.stage = "none" /\ ~NoRequest.cancelled
         /\ Shaped(Sent(p, effect)) /\ Sent(p, effect).page = p /\ Sent(p, effect).effect = effect
         /\ Sent(p, effect).stage = "sent" /\ ~Sent(p, effect).cancelled
BY DEF Shaped, NoRequest, Sent, NoAnswer, RequestFields, AnswerFields

LEMMA AuthoriseShaped ==
  ASSUME NEW r, Shaped(r), r.stage = "sent"
  PROVE  SameRequest(r, Authorise(r))
BY DEF Shaped, SameRequest, Authorise, RequestFields, AnswerFields

LEMMA BreakShaped ==
  ASSUME NEW r, Shaped(r)
  PROVE  SameRequest(r, Break(r))
BY DEF Shaped, SameRequest, Break, RequestFields, AnswerFields

LEMMA RunShaped ==
  ASSUME NEW r, Shaped(r), r.stage = "querying", NEW query
  PROVE  SameRequest(r, Run(r, query)) /\ Run(r, query).stage = "querying"
<1> DEFINE got == r.got \cup {query}
           total == Len(Owned(r.ids))
<1>1. ASSUME NEW x, NEW y, NEW z
      PROVE  LET q == [r EXCEPT !.got = z, !.answer.total = x, !.answer.pages = y]
             IN SameRequest(r, q) /\ q.stage = "querying"
  BY DEF Shaped, SameRequest, RequestFields, AnswerFields
<1>2. ASSUME NEW x, NEW z
      PROVE  LET q == [r EXCEPT !.got = z, !.answer.byStatus = x]
             IN SameRequest(r, q) /\ q.stage = "querying"
  BY DEF Shaped, SameRequest, RequestFields, AnswerFields
<1>3. ASSUME NEW x, NEW z
      PROVE  LET q == [r EXCEPT !.got = z, !.answer.rows = x]
             IN SameRequest(r, q) /\ q.stage = "querying"
  BY DEF Shaped, SameRequest, RequestFields, AnswerFields
<1> QED
  BY <1>1, <1>2, <1>3 DEF Run

LEMMA RespondShaped ==
  ASSUME NEW r, Shaped(r), r.stage = "querying", NEW endpoint
  PROVE  SameRequest(r, Respond(r, endpoint))
<1>1. PageParam(r.page) = r.page
  BY DEF PageParam, Shaped
<1> QED
  BY <1>1 DEF Shaped, SameRequest, Respond, RequestFields, AnswerFields

-----------------------------------------------------------------------------
(***************************************************************************)
(* The inductive invariant.  A load under way that is not cancelled asks   *)
(* for the page of the moment, unless loads crossed a turn of the page; a  *)
(* page shown that is another one is about to be replaced.                 *)
(***************************************************************************)
Awaited(s) == requests[s].stage # "none" /\ ~requests[s].cancelled

RequestsShaped ==
  /\ DOMAIN requests = Slots
  /\ \A s \in Slots : Shaped(requests[s])
  /\ page \in Nat \ {0}
  /\ screen \in Screens

OnPage == ~crossed => \A s \in Slots : Awaited(s) => requests[s].page = page

ShownOrAwaited ==
  ~crossed /\ Loaded /\ ~error /\ screen.paged => data.page = page \/ \E s \in Slots : Awaited(s)

PageInv == RequestsShaped /\ OnPage /\ (~gone => ShownOrAwaited)

LEMMA PageInit == Init => PageInv
<1> SUFFICES ASSUME Init PROVE PageInv
  OBVIOUS
<1>1. /\ DOMAIN requests = Slots /\ page = 1 /\ screen \in Screens /\ data = NoAnswer
      /\ \A s \in Slots : requests[s] = Sent(1, TRUE) \/ requests[s] = NoRequest
  BY DEF Init
<1>4. 1 \in Nat \ {0}
  OBVIOUS
<1>2. \A s \in Slots : Shaped(requests[s]) /\ (Awaited(s) => requests[s].page = 1)
  <2>1. /\ Shaped(NoRequest) /\ NoRequest.stage = "none"
        /\ Shaped(Sent(1, TRUE)) /\ Sent(1, TRUE).page = 1
    BY <1>4, SentShaped
  <2> QED
    BY <1>1, <2>1 DEF Awaited
<1>3. ~Loaded
  BY <1>1 DEF Loaded, NoAnswer
<1> QED
  BY <1>1, <1>2, <1>3, <1>4 DEF PageInv, RequestsShaped, OnPage, ShownOrAwaited

LEMMA LoadKeeps ==
  ASSUME PageInv, NEW slot \in Slots, NEW isRefresh, Load(slot, isRefresh)
  PROVE  PageInv'
<1>1. page \in Nat \ {0} /\ DOMAIN requests' = Slots /\ requests'[slot] = Sent(page, FALSE)
      /\ \A s \in Slots \ {slot} : requests'[s] = requests[s]
  BY DEF Load, PageInv, RequestsShaped
<1>2. Shaped(requests'[slot]) /\ requests'[slot].page = page
      /\ requests'[slot].stage = "sent" /\ ~requests'[slot].cancelled
  BY <1>1, SentShaped
<1>3. UNCHANGED <<screen, page, data, error, gone, crossed>>
  BY DEF Load
<1>4. RequestsShaped'
  BY <1>1, <1>2, <1>3 DEF PageInv, RequestsShaped
<1>5. OnPage'
  BY <1>1, <1>2, <1>3 DEF PageInv, OnPage, Awaited
<1>6. ShownOrAwaited'
  BY <1>1, <1>2, <1>3 DEF ShownOrAwaited, Awaited
<1> QED
  BY <1>4, <1>5, <1>6 DEF PageInv

LEMMA TurnPageKeeps ==
  ASSUME PageInv, NEW slot \in Slots, NEW p \in Nat \ {0}, TurnPage(slot, p)
  PROVE  PageInv'
<1>1. /\ DOMAIN requests' = Slots /\ requests'[slot] = Sent(p, TRUE)
      /\ \A s \in Slots \ {slot} : requests'[s] = Cancelled(requests[s])
      /\ page' = p /\ screen' = screen
  BY DEF TurnPage
<1>2. Shaped(requests'[slot]) /\ requests'[slot].page = p
      /\ requests'[slot].stage = "sent" /\ ~requests'[slot].cancelled
  BY <1>1, SentShaped
<1>3. ASSUME NEW s \in Slots \ {slot}
      PROVE  /\ Shaped(requests'[s])
             /\ requests'[s].stage = requests[s].stage
             /\ requests[s].effect => requests'[s].cancelled
  <2> DEFINE r == requests[s]
  <2>1. Shaped(r) /\ requests'[s] = IF r.effect THEN [r EXCEPT !.cancelled = TRUE] ELSE r
    BY <1>1, <1>3 DEF Cancelled, PageInv, RequestsShaped
  <2> HIDE DEF r
  <2>2. /\ Shaped([r EXCEPT !.cancelled = TRUE]) /\ [r EXCEPT !.cancelled = TRUE].cancelled
        /\ [r EXCEPT !.cancelled = TRUE].stage = r.stage
    BY <2>1 DEF Shaped, RequestFields, AnswerFields
  <2> QED
    BY <2>1, <2>2 DEF r
<1>4. RequestsShaped'
  BY <1>1, <1>2, <1>3 DEF PageInv, RequestsShaped
<1>5. OnPage'
  <2> SUFFICES ASSUME ~crossed', NEW s \in Slots, Awaited(s)' PROVE requests'[s].page = page'
    BY DEF OnPage
  <2>1. requests[s].stage # "none" => requests[s].effect
    BY DEF TurnPage, Busy
  <2>2. s = slot
    BY <1>3, <2>1 DEF Awaited
  <2> QED
    BY <1>1, <1>2, <2>2
<1>6. ShownOrAwaited'
  BY <1>1, <1>2 DEF ShownOrAwaited, Awaited
<1> QED
  BY <1>4, <1>5, <1>6 DEF PageInv

LEMMA ServerKeeps ==
  ASSUME PageInv, NEW slot \in Slots, requests[slot].stage # "none", NEW r,
         SameRequest(requests[slot], r), requests' = [requests EXCEPT ![slot] = r],
         UNCHANGED <<screen, page, data, error, gone, crossed>>
  PROVE  PageInv'
<1>1. /\ DOMAIN requests' = Slots /\ requests'[slot] = r
      /\ \A s \in Slots \ {slot} : requests'[s] = requests[s]
  BY DEF PageInv, RequestsShaped
<1>2. \A s \in Slots : /\ Awaited(s)' <=> Awaited(s)
                      /\ requests'[s].page = requests[s].page
                      /\ Shaped(requests'[s])
  BY <1>1 DEF Awaited, SameRequest, PageInv, RequestsShaped
<1> QED
  BY <1>1, <1>2 DEF PageInv, RequestsShaped, OnPage, ShownOrAwaited, Loaded

LEMMA ArriveKeeps ==
  ASSUME PageInv, NEW slot \in Slots, Arrive(slot)
  PROVE  PageInv'
<1>1. CASE requests[slot].answer.status = 401
  <2>1. /\ requests' = [s \in Slots |-> NoRequest] /\ page' = 1 /\ gone' /\ screen' = screen
    BY <1>1 DEF Arrive
  <2>2. 1 \in Nat \ {0}
    OBVIOUS
  <2>3. \A s \in Slots : Shaped(requests'[s]) /\ requests'[s].stage = "none"
    BY <2>1, <2>2, SentShaped
  <2> QED
    BY <2>1, <2>2, <2>3 DEF PageInv, RequestsShaped, OnPage, Awaited
<1>2. CASE requests[slot].answer.status # 401
  <2> DEFINE r == requests[slot]
  <2>1. /\ DOMAIN requests' = Slots /\ requests'[slot] = NoRequest
        /\ \A s \in Slots \ {slot} : requests'[s] = requests[s]
        /\ UNCHANGED <<screen, page, gone, crossed>>
    BY <1>2 DEF Arrive, PageInv, RequestsShaped
  <2>2. RequestsShaped' /\ ~Awaited(slot)' /\ \A s \in Slots \ {slot} : Awaited(s)' <=> Awaited(s)
    BY <2>1, SentShaped DEF PageInv, RequestsShaped, Awaited
  <2>3. OnPage'
    BY <2>1, <2>2 DEF PageInv, OnPage, Awaited
  <2>4. CASE r.cancelled
    <3>1. UNCHANGED <<data, error>> /\ ~Awaited(slot)
      BY <1>2, <2>4 DEF Arrive, Awaited
    <3> QED
      BY <2>1, <2>2, <2>3, <3>1 DEF PageInv, ShownOrAwaited, Loaded
  <2>5. CASE ~r.cancelled /\ r.answer.status = 200
    <3>1. data' = r.answer /\ Awaited(slot)
      BY <1>2, <2>5 DEF Arrive, Awaited
    <3>2. ~crossed => data'.page = page
      BY <2>5, <3>1 DEF PageInv, OnPage, RequestsShaped, Shaped
    <3> QED
      BY <2>1, <2>2, <2>3, <3>2 DEF PageInv, ShownOrAwaited
  <2>6. CASE ~r.cancelled /\ r.answer.status # 200
    <3>1. error'
      BY <1>2, <2>6 DEF Arrive
    <3> QED
      BY <2>2, <2>3, <3>1 DEF PageInv, ShownOrAwaited
  <2> QED
    BY <2>4, <2>5, <2>6
<1> QED
  BY <1>1, <1>2

LEMMA PageNext ==
  ASSUME PageInv, [Next]_vars
  PROVE  PageInv'
<1>1. CASE UNCHANGED screenVars
  BY <1>1 DEF PageInv, RequestsShaped, OnPage, ShownOrAwaited, Awaited, Loaded, screenVars
<1>2. ASSUME NEW s \in Slots, Refresh(s) \/ TryAgain(s) \/ Poll(s) PROVE PageInv'
  BY <1>2, LoadKeeps DEF Refresh, TryAgain, Poll
<1>3. ASSUME NEW s \in Slots, NEW p \in 1 .. MaxPage, TurnPage(s, p) PROVE PageInv'
  BY <1>3, TurnPageKeeps
<1>4. ASSUME NEW s \in Slots, Serve(s) PROVE PageInv'
  <2>1. Shaped(requests[s])
    BY DEF PageInv, RequestsShaped
  <2>2. CASE requests[s].stage = "sent" /\ requests' = [requests EXCEPT ![s] = Authorise(requests[s])]
    BY <1>4, <2>1, <2>2, AuthoriseShaped, ServerKeeps DEF Serve
  <2>3. ASSUME NEW q, requests[s].stage = "querying",
               requests' = [requests EXCEPT ![s] = Respond(Run(requests[s], q), screen.endpoint)]
        PROVE  PageInv'
    <3>1. SameRequest(requests[s], Run(requests[s], q)) /\ Run(requests[s], q).stage = "querying"
      BY <2>1, <2>3, RunShaped
    <3>2. SameRequest(Run(requests[s], q), Respond(Run(requests[s], q), screen.endpoint))
      BY <3>1, RespondShaped DEF SameRequest
    <3>3. SameRequest(requests[s], Respond(Run(requests[s], q), screen.endpoint))
      BY <3>1, <3>2 DEF SameRequest
    <3> QED
      BY <1>4, <2>3, <3>3, ServerKeeps DEF Serve
  <2> QED
    BY <1>4, <2>2, <2>3 DEF Serve
<1>5. ASSUME NEW s \in Slots, Breaks(s) PROVE PageInv'
  <2>1. SameRequest(requests[s], Break(requests[s]))
    BY BreakShaped DEF PageInv, RequestsShaped
  <2>2. requests' = [requests EXCEPT ![s] = Break(requests[s])]
    BY <1>5 DEF Breaks
  <2> QED
    BY <1>5, <2>1, <2>2, ServerKeeps DEF Breaks
<1>6. ASSUME NEW s \in Slots, Arrive(s) PROVE PageInv'
  BY <1>6, ArriveKeeps
<1> QED
  BY <1>1, <1>2, <1>3, <1>4, <1>5, <1>6 DEF Next, User, vars

\* Once nothing is under way a list shows the page it asked for, whatever order
\* the answers of overlapping loads came in: the effect's clean-up drops those
\* of pages left (ReviewsScreen.tsx:43).
THEOREM ListOnItsPage == Spec => []ListShowsItsPage
<1>1. Spec => []PageInv
  BY PageInit, PageNext, PTL DEF Spec
<1>2. PageInv => ListShowsItsPage
  BY DEF PageInv, ShownOrAwaited, Awaited, Busy, ListShowsItsPage
<1> QED
  BY <1>1, <1>2, PTL

-----------------------------------------------------------------------------
(***************************************************************************)
(* Whose rows are shown.  A request goes on with the installations it      *)
(* found when it was authorised, which the user may have lost since; each  *)
(* of its queries is scoped to them, and what an answer carries is shown   *)
(* however late it comes.                                                  *)
(***************************************************************************)
Permitted(views) == \A v \in views : v.installation \in Connected
Scoped(r) == r.ids \subseteq Connected /\ Permitted(r.answer.rows)

OwnInv ==
  /\ linked \subseteq Connected
  /\ Permitted(data.rows)
  /\ \A s \in Slots : Scoped(requests[s])

LEMMA SentScoped ==
  ASSUME NEW p, NEW effect
  PROVE  Scoped(NoRequest) /\ Scoped(Sent(p, effect)) /\ Permitted(NoAnswer.rows)
BY DEF Scoped, Permitted, NoRequest, Sent, NoAnswer

\* What any query selects belongs to the installations of the request.
LEMMA FoundOwned ==
  ASSUME NEW query \in {"page", "one", "recent", "all"}, NEW ids, NEW p
  PROVE  Found(query, ids, p) \subseteq Owned(ids)
<1>1. \A skip, take : FindMany(ids, skip, take) \subseteq Owned(ids)
  BY DEF FindMany
<1>2. FindOne(ids) \subseteq Owned(ids)
  BY DEF FindOne
<1>3. FindPage(ids, p) \subseteq Owned(ids)
  BY <1>1 DEF FindPage
<1> QED
  BY <1>1, <1>2, <1>3 DEF Found

LEMMA ViewsPermitted ==
  ASSUME NEW ids \in SUBSET Connected, NEW selected \in SUBSET Owned(ids)
  PROVE  Permitted(Views(selected))
<1> SUFFICES ASSUME NEW v \in Views(selected) PROVE v.installation \in Connected
  BY DEF Permitted
<1>1. PICK r \in selected : v = View(r)
  BY DEF Views
<1>2. r.installation \in ids /\ v.installation = r.installation
  BY <1>1 DEF Owned, View
<1> QED
  BY <1>2

LEMMA RunScoped ==
  ASSUME NEW r, Shaped(r), Scoped(r), NEW query \in {"page", "total", "one", "recent", "byStatus", "all"}
  PROVE  Scoped(Run(r, query))
<1>1. ASSUME NEW x, NEW y, NEW z
      PROVE  Scoped([r EXCEPT !.got = z, !.answer.total = x, !.answer.pages = y])
  BY DEF Shaped, Scoped, RequestFields, AnswerFields
<1>2. ASSUME NEW x, NEW z
      PROVE  Scoped([r EXCEPT !.got = z, !.answer.byStatus = x])
  BY DEF Shaped, Scoped, RequestFields, AnswerFields
<1>3. ASSUME NEW x, NEW z, Permitted(x)
      PROVE  Scoped([r EXCEPT !.got = z, !.answer.rows = x])
  BY <1>3 DEF Shaped, Scoped, RequestFields, AnswerFields
<1>4. CASE query = "total"
  BY <1>1, <1>4 DEF Run
<1>5. CASE query = "byStatus"
  BY <1>2, <1>5 DEF Run
<1>6. CASE query \in {"page", "one", "recent", "all"}
  <2>1. Permitted(Views(Found(query, r.ids, r.page)))
    BY <1>6, FoundOwned, ViewsPermitted DEF Scoped
  <2> QED
    BY <1>3, <1>6, <2>1 DEF Run
<1> QED
  BY <1>4, <1>5, <1>6

LEMMA RespondScoped ==
  ASSUME NEW r, Shaped(r), Scoped(r), NEW endpoint
  PROVE  Scoped(Respond(r, endpoint))
BY DEF Shaped, Scoped, Respond, RequestFields, AnswerFields

LEMMA AuthoriseScoped ==
  ASSUME NEW r, Shaped(r), Scoped(r), linked \subseteq Connected
  PROVE  Scoped(Authorise(r))
BY DEF Shaped, Scoped, Authorise, RequestFields, AnswerFields

LEMMA BreakScoped ==
  ASSUME NEW r, Shaped(r), Scoped(r)
  PROVE  Scoped(Break(r))
BY DEF Shaped, Scoped, Break, RequestFields, AnswerFields

LEMMA OwnInit == Init => OwnInv
<1> SUFFICES ASSUME Init PROVE OwnInv
  OBVIOUS
<1>1. /\ linked = Connected /\ data = NoAnswer
      /\ \A s \in Slots : requests[s] = Sent(1, TRUE) \/ requests[s] = NoRequest
  BY DEF Init, ApiInit
<1> QED
  BY <1>1, SentScoped DEF OwnInv

\* A query of the screen's endpoint is one Found knows, or a count.
LEMMA QueriesKnown ==
  ASSUME PageInv, NEW q \in Queries[screen.endpoint]
  PROVE  q \in {"page", "total", "one", "recent", "byStatus", "all"}
<1>1. screen.endpoint \in {"list", "detail", "stats", "overview"}
  BY ScreensAssumption DEF PageInv, RequestsShaped, Queries
<1> QED
  BY <1>1 DEF Queries

\* What a step of the server leaves in one slot.
LEMMA SlotScoped ==
  ASSUME PageInv, OwnInv, NEW slot \in Slots, NEW r, Scoped(r),
         requests' = [requests EXCEPT ![slot] = r], UNCHANGED <<linked, data>>
  PROVE  OwnInv'
<1>1. \A s \in Slots : requests'[s] = IF s = slot THEN r ELSE requests[s]
  BY DEF PageInv, RequestsShaped
<1> QED
  BY <1>1 DEF OwnInv, Scoped, Permitted

LEMMA OwnNext ==
  ASSUME PageInv, OwnInv, [Next]_vars
  PROVE  OwnInv'
<1>1. CASE UNCHANGED vars
  BY <1>1 DEF OwnInv, Scoped, Permitted, vars, apiVars, screenVars
<1>2. CASE Meanwhile /\ UNCHANGED screenVars
  <2>1. linked' \subseteq linked
    BY <1>2 DEF Meanwhile, NewRow, Progress, Expire, Disconnect
  <2> QED
    BY <1>2, <2>1 DEF OwnInv, Scoped, Permitted, screenVars
<1>3. ASSUME NEW s \in Slots, Refresh(s) \/ TryAgain(s) \/ Poll(s) PROVE OwnInv'
  <2>1. requests' = [requests EXCEPT ![s] = Sent(page, FALSE)] /\ UNCHANGED <<linked, data>>
    BY <1>3 DEF Refresh, TryAgain, Poll, Load, apiVars
  <2> QED
    BY <2>1, SentScoped, SlotScoped
<1>4. ASSUME NEW s \in Slots, NEW p \in 1 .. MaxPage, TurnPage(s, p) PROVE OwnInv'
  <2>1. /\ UNCHANGED <<linked, data>>
        /\ \A t \in Slots : requests'[t] = IF t = s THEN Sent(p, TRUE) ELSE Cancelled(requests[t])
    BY <1>4 DEF TurnPage, apiVars
  <2>2. ASSUME NEW t \in Slots PROVE Scoped(Cancelled(requests[t]))
    <3> DEFINE r == requests[t]
    <3>1. Shaped(r) /\ Scoped(r)
      BY DEF PageInv, RequestsShaped, OwnInv
    <3> HIDE DEF r
    <3>2. Scoped([r EXCEPT !.cancelled = TRUE])
      BY <3>1 DEF Shaped, Scoped, RequestFields
    <3>3. Scoped(Cancelled(r))
      BY <3>1, <3>2 DEF Cancelled
    <3> QED
      BY <3>3 DEF r
  <2>3. ASSUME NEW t \in Slots PROVE Scoped(requests'[t])
    BY <2>1, <2>2, SentScoped
  <2> QED
    BY <2>1, <2>3 DEF OwnInv, Scoped, Permitted
<1>5. ASSUME NEW s \in Slots, Serve(s) PROVE OwnInv'
  <2>1. Shaped(requests[s]) /\ Scoped(requests[s]) /\ linked \subseteq Connected
    BY DEF PageInv, RequestsShaped, OwnInv
  <2>2. UNCHANGED <<linked, data>>
    BY <1>5 DEF Serve, apiVars
  <2>3. CASE requests[s].stage = "sent" /\ requests' = [requests EXCEPT ![s] = Authorise(requests[s])]
    BY <2>1, <2>2, <2>3, AuthoriseScoped, SlotScoped
  <2>4. ASSUME NEW q \in Queries[screen.endpoint], requests[s].stage = "querying",
               requests' = [requests EXCEPT ![s] = Respond(Run(requests[s], q), screen.endpoint)]
        PROVE  OwnInv'
    <3>1. Scoped(Run(requests[s], q))
      BY <2>1, QueriesKnown, RunScoped
    <3>2. Shaped(Run(requests[s], q))
      BY <2>1, <2>4, RunShaped DEF SameRequest
    <3>3. Scoped(Respond(Run(requests[s], q), screen.endpoint))
      BY <3>1, <3>2, RespondScoped
    <3> QED
      BY <2>2, <2>4, <3>3, SlotScoped
  <2> QED
    BY <1>5, <2>3, <2>4 DEF Serve
<1>6. ASSUME NEW s \in Slots, Breaks(s) PROVE OwnInv'
  <2>1. Scoped(Break(requests[s]))
    BY BreakScoped DEF PageInv, RequestsShaped, OwnInv
  <2>2. requests' = [requests EXCEPT ![s] = Break(requests[s])] /\ UNCHANGED <<linked, data>>
    BY <1>6 DEF Breaks
  <2> QED
    BY <2>1, <2>2, SlotScoped
<1>7. ASSUME NEW s \in Slots, Arrive(s) PROVE OwnInv'
  <2>1. CASE requests[s].answer.status = 401
    <3>1. requests' = [t \in Slots |-> NoRequest] /\ data' = NoAnswer /\ linked' = linked
      BY <1>7, <2>1 DEF Arrive, apiVars
    <3> QED
      BY <3>1, SentScoped DEF OwnInv
  <2>2. CASE requests[s].answer.status # 401
    <3>1. /\ requests' = [requests EXCEPT ![s] = NoRequest] /\ linked' = linked
          /\ data' = data \/ data' = requests[s].answer
      BY <1>7, <2>2 DEF Arrive, apiVars
    <3>2. \A t \in Slots : requests'[t] = IF t = s THEN NoRequest ELSE requests[t]
      BY <3>1 DEF PageInv, RequestsShaped
    <3>3. Permitted(data'.rows)
      BY <3>1 DEF OwnInv, Scoped
    <3> QED
      BY <3>1, <3>2, <3>3, SentScoped DEF OwnInv, Scoped, Permitted
  <2> QED
    BY <2>1, <2>2
<1> QED
  BY <1>1, <1>2, <1>3, <1>4, <1>5, <1>6, <1>7 DEF Next, User

\* No screen shows a row of an installation the user was never connected to,
\* whatever is asked for, in whatever order the answers come, and although a
\* connection may end between the authorisation of a request and its queries
\* (auth.ts:24, every query's where on installationId).
THEOREM OnlyOwnRows == Spec => []OwnRowsOnly
<1>1. Spec => []PageInv
  BY PageInit, PageNext, PTL DEF Spec
<1>2. Spec => []OwnInv
  BY <1>1, OwnInit, OwnNext, PTL DEF Spec
<1>3. OwnInv => OwnRowsOnly
  BY DEF OwnInv, Permitted, OwnRowsOnly
<1> QED
  BY <1>2, <1>3, PTL
=============================================================================
