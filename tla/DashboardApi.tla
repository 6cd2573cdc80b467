---------------------------- MODULE DashboardApi ----------------------------
(***************************************************************************)
(* The dashboard API of the server: who asks, what the queries select, and *)
(* the answer, one database read per step, while the rows change.          *)
(*                                                                         *)
(* A row is [id, installation, status, files]: a review session with the   *)
(* files of its comments, or a CI run; ids count up.                       *)
(***************************************************************************)
EXTENDS Naturals, Sequences, SequencesExt, FiniteSets

CONSTANTS
  Installations,
  Connected,      \* those the user has been connected to
  PAGE_LIMIT,     \* rows of a page: 20
  RECENT,         \* rows beside the statistics: 7
  MaxRows,        \* bound on the rows ever written
  MaxSteps,       \* bound on the steps of the workers
  MaxTroubles,    \* bound on requests that break, sessions that expire, installations deleted
  Flow,           \* the workers: next statuses of a status
  Terminal        \* REVIEW_TERMINAL_STATUSES

ASSUME ApiAssumption ==
  /\ Connected \subseteq Installations
  /\ PAGE_LIMIT \in Nat \ {0} /\ RECENT \in Nat /\ MaxRows \in Nat /\ MaxTroubles \in Nat /\ MaxSteps \in Nat

VARIABLES
  rows,     \* the set of the ReviewSession or CIRun rows
  written,  \* rows ever written
  linked,   \* installations the user is connected to
  session,  \* whether the session cookie is good
  steps, troubles

apiVars == <<rows, written, linked, session, steps, troubles>>

Statuses == DOMAIN Flow

\* Row 1 is the one a detail screen looks at.
ApiInit ==
  /\ \E i \in Installations : rows = {[id |-> 1, installation |-> i, status |-> "QUEUED", files |-> <<>>]}
  /\ written = 1
  /\ linked = Connected
  /\ session = TRUE
  /\ steps = 0 /\ troubles = 0

-----------------------------------------------------------------------------
(* Meanwhile (external): the webhook adds rows, a worker moves them on and *)
(* stores comments, an installation is deleted with its rows, the session  *)
(* expires.                                                                *)

Trouble == troubles < MaxTroubles /\ troubles' = troubles + 1

NewRow ==
  /\ written < MaxRows /\ written' = written + 1
  /\ \E i \in Installations :
       rows' = rows \cup {[id |-> written', installation |-> i, status |-> "QUEUED", files |-> <<>>]}
  /\ UNCHANGED <<linked, session, steps, troubles>>

Progress ==
  /\ steps < MaxSteps /\ steps' = steps + 1
  /\ \E r \in rows : \E s \in Flow[r.status] :
       rows' = (rows \ {r}) \cup
               {[r EXCEPT !.status = s, !.files = IF s = "COMPLETED" THEN <<"f", "f">> ELSE @]}
  /\ UNCHANGED <<written, linked, session, troubles>>

Disconnect(i) ==
  /\ Trouble
  /\ i \in linked
  /\ linked' = linked \ {i}
  /\ rows' = {r \in rows : r.installation # i}
  /\ UNCHANGED <<written, session, steps>>

Expire ==
  /\ Trouble
  /\ session /\ session' = FALSE
  /\ UNCHANGED <<rows, written, linked, steps>>

Meanwhile == NewRow \/ Progress \/ Expire \/ \E i \in Installations : Disconnect(i)

-----------------------------------------------------------------------------
(* A request is [page, effect, cancelled, stage, ids, got, answer].  The    *)
(* rows of an answer are a set: their order is that of the ids.            *)

NoAnswer == [status |-> 0, rows |-> {}, total |-> 0, byStatus |-> [s \in Statuses |-> 0], page |-> 1, pages |-> 1]

\* paginationQuery: whatever is no page number is page 1.
PageParam(page) == IF page \in Nat \ {0} THEN page ELSE 1

\* buildPagination: an empty list has one page.  The page asked for is echoed,
\* also when it is past the last.
Pages(total) == IF total = 0 THEN 1 ELSE (total + PAGE_LIMIT - 1) \div PAGE_LIMIT

\* mapReviewSession
View(r) == [id |-> r.id, installation |-> r.installation, status |-> r.status,
            totalComments |-> Len(r.files), filesReviewed |-> Cardinality(ToSet(r.files)),
            completed |-> r.status \in Terminal]

Views(selected) == {View(r) : r \in selected}

\* The ownership filter: rows of the installations requireAuth found.
Owned(ids) == {r \in rows : r.installation \in ids}

\* orderBy createdAt desc, with skip and take.
Newer(r, ids) == Cardinality({q \in Owned(ids) : q.id > r.id})
FindMany(ids, skip, take) == {r \in Owned(ids) : Newer(r, ids) \in skip .. skip + take - 1}

FindPage(ids, page) == FindMany(ids, (PageParam(page) - 1) * PAGE_LIMIT, PAGE_LIMIT)
MutFindOne(ids) == {r \in rows : r.id = 1}
FindOne(ids) == {r \in Owned(ids) : r.id = 1}
CountByStatus(ids) == [s \in Statuses |-> Cardinality({r \in Owned(ids) : r.status = s})]

\* The queries of an endpoint, which run at once and end in any order.  The other
\* counts of the statistics are read as byStatus is.
Queries == [list |-> {"page", "total"}, detail |-> {"one"},
            stats |-> {"recent", "byStatus"}, overview |-> {"all"}]

Found(query, ids, page) ==
  CASE query = "page" -> FindPage(ids, page)
    [] query = "one" -> FindOne(ids)
    [] query = "recent" -> FindMany(ids, 0, RECENT)
    [] query = "all" -> Owned(ids)

\* requireAuth: the installations are those connected now.
Authorise(r) ==
  IF ~session THEN [r EXCEPT !.stage = "answered", !.answer.status = 401]
  ELSE [r EXCEPT !.stage = "querying", !.ids = linked]

Run(r, query) ==
  LET got == r.got \cup {query}
      total == Cardinality(Owned(r.ids))
  IN CASE query = "total" -> [r EXCEPT !.got = got, !.answer.total = total, !.answer.pages = Pages(total)]
       [] query = "byStatus" -> [r EXCEPT !.got = got, !.answer.byStatus = CountByStatus(r.ids)]
       [] OTHER -> [r EXCEPT !.got = got, !.answer.rows = Views(Found(query, r.ids, r.page))]

\* After the last query.  A foreign row and a missing one are the same 404.
Respond(r, endpoint) ==
  IF r.got # Queries[endpoint] THEN r
  ELSE [r EXCEPT !.stage = "answered", !.answer.page = PageParam(r.page),
                 !.answer.status = IF endpoint = "detail" /\ r.answer.rows = {} THEN 404 ELSE 200]

\* errorHandler: anything thrown is a 500.
Break(r) == [r EXCEPT !.stage = "answered", !.answer.status = 500]
=============================================================================
