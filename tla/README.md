# A TLA+ model of Merg

Merg is a GitHub App that reviews pull requests and triages failed CI runs. This directory
holds TLA+ modules that model its core, TLC configurations that check them on small instances,
and theorems about them that TLAPS proves for every instance.

## 1. The system

| Part | Source | State it keeps | Operations |
|---|---|---|---|
| Webhook intake | `apps/server/src/index.ts`, `queue.ts` | `Installation`, `ReviewSession`, `CIRun` rows; jobs on two BullMQ queues | `installation` created/deleted, `pull_request` opened/synchronize, `workflow_run` completed |
| Session lease | `apps/worker/src/lease.ts` | `status`, `leaseId`, `heartbeatAt`, `attemptCount` of a session | claim, renew, complete, release for retry, fail |
| Review handler | `apps/worker/src/index.ts` | `heldLeases` per process; comments and reviews on GitHub; `ReviewComment` rows | the job handler, the `failed` listener |
| Check run | `apps/worker/src/checkRun.ts` | a check run on GitHub | look up, then create or update |
| Recovery sweep | `apps/worker/src/recovery.ts` | none of its own | scan, re-queue, flip |
| LLM chain | `apps/worker/src/llmProvider.ts` | client cache | try providers in order, with a timeout each |
| Review graph and agents | `apps/worker/src/graph`, `agents` | findings of one file | three agents, merge by line, summary and verdict |
| Context engine | `apps/worker/src/context` | a checkout in a temporary directory, a code graph, budgets | diff, changed symbols, import walk, relevance, PR history |
| CI triage | `apps/ci-worker/src` | `CIRun` status; a comment or a check run | fetch logs, classify, post, store |
| Dashboard API | `apps/server/src/{api,controllers,mappers,middleware,schema}` | none | list and detail of reviews and CI runs, statistics |
| Login | `apps/web/app/api/auth`, `apps/web/src/lib` | session cookie; which user sees which installation | OAuth callback, logout |
| Screens | `apps/web/src/components/dashboard` | page state in the browser | load, refresh, poll |

The parts meet in three places. The server and the workers share the **database**: a review is
one `ReviewSession` row from webhook to verdict. They share the **queues**: the server adds a job
per session (three attempts, exponential backoff), the sweep adds one more per recovery. And they
share **GitHub**, where nothing can be taken back. What is hard is all in the overlap: a BullMQ
job may be delivered again while its first worker still runs, the sweep reads the table and
writes much later, several workers sweep at once, the `failed` listener runs after the handler
and beside its retry, and a process may die between any two writes.

What makes each part correct:

- *lease, handler, sweep*: one attempt at a time owns a session; only its owner, or a sweep that
  has good reason to think it dead, ends it; settled sessions stay settled; every session is
  settled in the end; a pull request is reviewed once.
- *intake*: one session and one job per commit, whatever is redelivered; a session that exists has
  a job; deletion of an installation wins.
- *CI triage*: one comment per failed run; a COMPLETED run stays COMPLETED.
- *LLM chain*: the first provider that answers in order serves; no provider is skipped unless an
  error says the request itself is wrong.
- *review graph*: the merged finding does not depend on the order of the agents.
- *context engine*: budgets hold, walks end, every changed line that can be attributed is, and the
  checkout is removed on every path.
- *dashboard and login*: a user sees the rows of their installations, all of them, each page once.
- *screens*: what is shown answers the latest question asked.

## 2. Modules

| Module | What it is |
|---|---|
| `ReviewLease` | The conditional writes on one `ReviewSession` row, as predicates (the `where`) and rows (the `data`). |
| `ReviewPipeline` | Workers, `failed` listeners, sweeps, queue, table and GitHub; fairness; the type invariant. |
| `ReviewProperties` | The properties of the pipeline. |
| `ReviewSession` | The abstract life cycle of a session: one owner at a time, every attempt counted, final statuses. |
| `WebhookIntake` | The webhook endpoint: deliveries in flight, the three tables they write, the jobs they add. |
| `GithubLogin` | A browser logging in, composed with `WebhookIntake` on the same tables. |
| `CITriage` | The triage worker: its handler, its `failed` listener, its job and one `CIRun` row. |
| `Arrays` | `Array.prototype.filter` and `sort`, as a function and a fold the provers unfold. |
| `LlmChain` | Which environments the worker boots with, which providers they yield, what becomes of a call. |
| `ReviewGraph` | Boot, the review graph per file, the summary and the verdicts, on top of `LlmChain`. |
| `DiffLines` | The unified diff git shows of an edit, and the parser that reads the changed lines back. |
| `SyntaxTree` | Symbols, imports and call sites of a syntax tree. |
| `ImportPaths` | From a module specifier to a file, and what the languages mean by it. |
| `CodeGraph` | The graph over the parsed files, and the symbols and source worth showing. |
| `PrHistory` | The requests for earlier pull requests and their comments, under their budgets. |
| `ContextEngine` | One build of the context: checkout, diff, walk, graph, history, clean-up. |
| `DashboardApi` | The queries of the API over rows that change. |
| `DashboardScreens` | One screen of the dashboard over the API: loads, refreshes, polls, the pager. |
| `MCReviewPipeline`, `MCIntake`, `MCCITriage`, `MCReviewGraph`, `MCContextEngine`, `MCDashboard` | Instances for TLC. |
| `ReviewPipelineProofs` | Theorems about rows, leases, sweeps and how a session ends; about who writes to the pull request, and how often. |
| `IntakeProofs`, `TriageProofs`, `ReviewGraphProofs`, `ContextProofs`, `ScreenProofs` | Theorems about the other components. |
| `SequenceFacts` | Lemmas about filters, concatenations and induction over sets, for the proofs about data. |
| `FoldFacts` | What a fold keeps, for an operator and an invariant that are parameters of the module; that induction over the naturals is sound is a hypothesis of its theorem, which `InductionOverNat` of `SequenceFacts` discharges. |

The compositions are `GithubLogin` (webhook and login share the installation rows), `ReviewPipeline` (lease,
handler, sweep, queue, GitHub), `ReviewGraph` (agents on the failover chain), `ContextEngine` (everything of the
context) and `DashboardScreens` (browser and API). The pipeline takes over where the intake ends, at a row
and its job, and treats graph and context as one step, because neither touches anything shared.

### How the models correspond to the code

Every `await` is a step boundary. A database write is one `updateMany`, atomic in PostgreSQL, so it
is one action; a GitHub request is one action; what happens between two awaits belongs to one of
them.

**The review pipeline** (`ReviewLease`, `ReviewPipeline`).

| Code | Model |
|---|---|
| row of `ReviewSession` | `row[s]`, a record; `leaseId` is a number drawn from `issued` instead of a UUID, 0 is `null`; `heartbeatAt` is `"recent"`, `"quiet"` or `"none"`; `summary` is the lease of the attempt that wrote it; a deleted row is `"GONE"` |
| `pr-review` queue | `jobs[j]`; `nth` 0 is the server's job, `nth` n is `recovery:<session>:<n>`; a job id the queue knows is not added twice, also when it is completed |
| handler of a worker process | `handler[w].pc`: `claim`, `review`, `renew`, `comment`, `summary`, `findCheck`, `createCheck`/`updateCheck`, `persist`, `complete`; `lease` is the local variable |
| `heldLeases` | `held[w][j]` |
| a run of the `failed` listener | an element of `failing`; it reads `heldLeases` as it starts, then `ListenerWrite`, then `ListenerForget` |
| `sweepStalledSessions` | `Scan` (cutoff and `findMany`), then per session `Requeue` (enqueue) and `Flip` (the conditional update) |
| `startHeartbeat` | `Heartbeat`, enabled from the claim to the `finally` block |
| inline comments, review, check runs on GitHub | `comments[s]`, `reviews[s]`, the leases under which they got there; `checks[s]`, a count. A request that fails and is swallowed is `GithubError`: it was carried out, in part or not at all, and the handler goes on |

Clone, context, agents and summary are one action, `Review`, that finishes or throws: they touch no
shared state. The order of findings, the texts, the check run's conclusion and `workerId` (written
for log lines only) are left out.

**Time.** The code only ever asks whether `heartbeatAt < cutoff`. A heartbeat becomes `"quiet"` when
90 s have passed since it was written (`LeaseExpires` when nobody is alive under the lease, the fault
`Wedge` when somebody is). A sweep computes its cutoff once, before it reads the table; `behind` is
the set of sessions whose heartbeat is older than *that* cutoff, and each later write of
`heartbeatAt` takes its session out of it. So a sweep that is slow does not find sessions stalled
that went quiet only after it began, exactly as in the code.

**Faults** are counted (`faults`, at most `MaxFaults`) and remembered (`suffered`), so that a property
can say which ones it survives:

| Kind | What happens |
|---|---|
| `crash` | a worker process dies, with its handler, its listeners and `heldLeases` |
| `wedge` | a live worker writes no heartbeat for 90 s |
| `lockLost` | BullMQ delivers a job again although its worker lives |
| `dbError` | a database call throws, its write lost or applied |
| `githubError` | an inline comment, the review or a check-run call fails, carried out or not, and is swallowed |
| `sweepError` | a sweep breaks off |
| `slowListener` | the `failed` listener takes longer than the retry's backoff |
| `uninstall` | the installation, and with it the row, is deleted |

A review that throws is not a fault: it may happen any number of times, as far as the queue's
attempts go.

**Queue, database and GitHub** are external. What the model takes from BullMQ is what the code relies
on: one job per worker, a job whose worker died is delivered again, only the holder of a job's lock
settles it, `failed` is emitted by that worker after `attemptsMade` was raised, and a job id known to
the queue is not added again. Each redelivery counts as a stall; a job that stalled more than
`MaxStalledCount` times (1, BullMQ's default, which neither worker changes) is not run any more but failed
by the worker that picks it up (`FailStalled`), with one attempt booked and no retry. The `failed` listener of that
worker then has no lease, and, for the server's job, is not told that the attempts are used up: a session
whose worker died twice before its claim stays QUEUED, with no job. A heartbeat that is in flight when the
handler ends is not modelled: it can only refresh a row the listener is about to write.

**Webhook intake and login** (`WebhookIntake`, `GithubLogin`).

| Code | Model |
|---|---|
| one run of `POST /webhook` | `request[r]`: `pc` is the await it is at (`created`, `deleted`, `find`, `upsert`, `create`, `add`) or its answer; `install`, `row` are its local variables |
| a commit of a pull request, a workflow run | a *subject*: what `findUnique` and the unique keys are about. Reviews and CI runs go through the same actions, once with `Commits` and once with `Runs` |
| `Installation`, `ReviewSession`, `CIRun`, the relation to users | `installation[i]` (0 is no row), `rows` (each with the id of its installation's row), `links`; ids come from one counter, so that a row that was deleted and created again is a different one |
| `ON DELETE CASCADE` | `Cascade`, in the action that deletes; links go with it |
| `gh_oauth_state` | `stateCookie`, one for all tabs; `Abandoned` is a login that was begun earlier and never finished |
| the callback | `login[l]`: token and pages (`fetch`), then for each installation Prisma's look-up and write (`lookup`, `write`), then the session |
| GitHub | `installed`, `grants`; a delivery may be sent once its event happened, arrive at any later time and be repeated |

Prisma turns the webhook's upsert into one `INSERT … ON CONFLICT`, hence one action. The callback's upsert
connects a relation, which Prisma cannot do natively: it reads, then writes, and fails when the row came or
went in between.

**CI triage** (`CITriage`). `handler[w].pc` follows the awaits of the handler: set RUNNING, list jobs, fetch each log,
load the row, ask the model, post, store. `invokeWithRetry` is `AskModel` with its counter `tries`. `Post` covers the
comment and the check run, and the `catch` around them: an error is swallowed whether the request was carried
out or not. The answer is cast, not checked: one whose summary is no string is posted and then refused by the update of the
row (`UnfitAnswer`, `fits`). `failing` is the listener between an exhausted attempt and its update. The queue is modelled as for
the pipeline, with its limit on stalls (`stalls`, `FailStalled`). Unlike there, nothing fences the row, so a run of the job that lost its lock goes on beside the next.

**Failover chain and review graph** (`LlmChain`, `ReviewGraph`). `env` is the environment as it was read; `Valid` is
`workerEnvSchema`, `AvailableProviders` the resolver, each with its own reading of `LLM_PROVIDER_ORDER`
(`Recognised`, `Wanted`) because they are separate code. `call[c]` is
one `invoke` of a caller; the provider asked is the one after `failures`. `late` holds the requests that timed out and
were not cancelled. `ReviewGraph` starts the three agents of a file together, joins them, merges by line and goes
on to the next file; the summary is one more call. The merge has one finding for each that opens a line, with the
fields of the first of the most severe on that line. An answer of the model is the list of findings it parses to,
or `Unparsable`.

**Context engine**. A repository is a sequence of files; a file has its path, its syntax tree (the sequence of its
nodes in the order `visit` reaches them), the edit the pull request made (`" "`, `"+"`, `"-"`, and lines that look
like file headers), and the edit against the tip of the base branch. `DiffLines` first makes of an edit what
`git diff --unified` prints and then parses that as `diff.ts` does. `ImportPaths` works on paths and specifiers
as sequences of tokens. A file has a size: the diff reads a changed file up to `MAX_CONTENT_BYTES` (`LinesOf`), the walk and the
relevant source up to `maxSourceBytesPerFile` (`SourceLines`), so that a changed file may be parsed and then have no
source to show. The walk is one action per level of the search: a level has no await anyone can
interfere with. A grammar that cannot be loaded throws out of `ParseChanged` or in the middle of `WalkLevel`. `PrHistory` has one action per request. `build.dir` and `leaked` follow the temporary directory.
The git commands and GitHub are external.

**API and screens** (`DashboardApi`, `DashboardScreens`). A request is authorised in one step, runs its queries one by
one in any order while `rows` change, and is answered. `rows` is a set: a page is the `PAGE_LIMIT` rows that have
`(page - 1) * PAGE_LIMIT` newer ones before them, which is what `orderBy`, `skip` and `take` select. The screens are records that differ in endpoint,
paging, refresh and the statuses that poll. The load of the effect is cancelled when the page turns; those of the
buttons and of the poll are not. Answers arrive in any order.

## 3. Properties

**Review pipeline**. *Under every fault*: `TypeOK`; `RowCoherent` (status, lease and heartbeat agree; the lease-only guards
rest on it); `SettledForGood`; `LeaseEndsByRight` (who may end an attempt, and that a sweep that does is
right about the row it writes); `SweepDecidesOnCurrentRow`; `CompletedWasDelivered` (a COMPLETED row
shows the summary of an attempt that stored its findings, and whose comments and review are on GitHub unless a call to
GitHub failed: the handler swallows that and completes);
`FailedOnlyWhenExhausted` (a job failed, the claims are used up, or there is no commit); `ClaimsBounded`; `ImplementsLifecycle` (refinement of `ReviewSession`).
*As long as some faults stay away*: `OneWriterAtATime` and `OneCheckRun` (no live worker goes quiet),
`InFlightLeaseRegistered` (the listener finishes within the backoff), `RedeliveryPostsOnce` (a job that
is delivered twice is reviewed once, also when calls to GitHub fail; no crash, no lost database answer, no quiet worker).
*Liveness*: `OrphanIsReleased`, `SettledUnlessFault`, `SettledOrStranded` (in the end a session is settled, or it waits in
QUEUED or RETRYING for a job that is not on the queue: `ReviewStranded` shows one way to get there, a job that stalled too
often another. Nothing in the code looks for such sessions; that no other kind is left is what the property says).

**Intake and login**: `OneRowPerSubject` (the unique key, not the look-up, keeps a second row out); `RowHasJob` (without
faults: with a crash between `create` and `add` a row does stay without a job, and later deliveries skip it);
`NothingOutlivesInstallation` (ids held over an await never end up in a row or link of a deleted installation);
`SignedInSeesAll` (over all pages, unless access or rows changed meanwhile).

**CI triage**: `PostsCostFaults` (one comment, and one more per fault at most); `RowShowsItsComment`;
`FailedMeansExhausted`; `CallsBounded` (retries × runs of the job, which are its attempts and the stalls it is allowed);
`CompletedStays`; `Settles`. The last two name what they do not survive: there is no lease here, so a job that lost its lock
may set a COMPLETED row back to RUNNING and leave it there; a job that stalled too often fails with attempts left, and then,
as when the listener's own update is lost, nobody writes FAILED.

**Chain and graph**: `ValidEnvironmentWorks` (validation and resolver agree); `ServedInOrder` (an answer is from the
first provider that gave one in time; a late answer is never taken for another's); `FindingsMerged` (once per
line, no less severe, no less blocking, every message, whatever the order of the agents); `ReviewEnds`.

**Context engine**: `CheckoutRemoved`; `ChangesAreThePrs` (the changed symbols are exactly those with a line in a
hunk, for files that are not renamed and have no line that reads like a header); `DependenciesNearest` (against a reference
definition of what the languages mean by an import, and of distance); `RelevantFirst` (what is shown is in the order of its
reasons, without repetition: `InOrder`; a changed symbol gives way to changed ones only: `ChangedShown`; while no limit is met,
`Room`, the callers of changed symbols are there: `CallersShown`); `WithinBudgets`.

**Dashboard**: `OwnRowsOnly` (also over a disconnection in the middle of a request); `ListShowsItsPage`;
`DetailCatchesUp` (once a row is settled, a polling screen ends up showing that).

*What the documentation says and the code does not do* is in section 5.

## 4. Runs

`CHECK_DEADLOCK FALSE` throughout: when every job is settled, every request answered and every bound used up,
the system rests.

| Run | Instance | What it shows |
|---|---|---|
| `ReviewSafety` | 2 workers, 2 sweeps, 1 session, 2 attempts each, any 2 of the 8 faults (328 000 states) | the safety properties |
| `ReviewLiveness` | 2 workers, 1 sweep, 1 session, any 2 faults, `FairSpec` | the liveness properties |
| `ReviewBatch` | 1 worker, 1 sweep, 2 sessions (one without `baseSha`), crash and broken sweep, `FairSpec` | a sweep over several sessions that breaks off; the give-up branch for a session without a base commit |
| `ReviewStranded`, `ReviewAttempts`, `ReviewDoublePost`, `ReviewClobber` | 2 workers, 1 sweep, 1 session, 3 attempts each as deployed, 1 or 2 faults | a counterexample each |
| `Intake` | 2 installations of which one owns a commit and a run, 2 deliveries, 1 login, 1 installation per page, 1 fault (320 000 states) | the tables under late, repeated and concurrent deliveries beside a login |
| `Triage` | 2 workers, 1 run with up to 1 failed job, 2 attempts, 1 retry, any 2 of the 6 faults, `FairSpec` (452 000 states) | what is posted, what the row says, that it settles |
| `Review` | 2 providers, every order of up to 2 entries out of both, a misspelling and a blank; 2 files, one without a patch; 3 agents and 3 answers; `FairSpec` (148 000 states) | the environment, the chain, the merge, the end |
| `Context` | a TypeScript repository of 8 files and a Python one of 4, 65 edits of a file, with and without commits on the base branch, wide and tight limits, 1 failure (58 000 states) | every phase of a build |
| `Dashboard` | every screen; 2 installations, 2 rows, 2 pages, 2 requests at once, 1 trouble, `FairSpec` (505 000 states) | whose rows, which page, what a poll ends up showing |

Why the bounds are enough.

- *Pipeline*: sessions share nothing but the worker that runs them and the sweep that
  lists them, so one session with two workers and two sweeps has all the races on a row, and two
  sessions are needed only for the batch. Two attempts have a first, a last and a retry between
  them; `ClaimsBounded` and the theorems do not depend on the number. Two faults allow a crash
  followed by a second disturbance of the recovery, and with one stall allowed they are enough for a job to stall out. Workers and sweeps are interchangeable, hence the
  symmetry in `ReviewSafety`; the liveness runs use none.
- *Intake*: a race needs two requests, or a request and a login; two deliveries can be a pair for one
  commit, an event and the deletion of its installation, or an event and its repetition. Pages of one
  installation make a list of two installations three requests long.
- *Triage*: rows share nothing. Two workers and two attempts give a second run beside the first and a
  retry after it; `Verdicts` has one value beside `UNKNOWN`, enough to tell two answers apart.
- *Review*: two providers have a first, a next and a last; three answers cover no finding, several on a line,
  a severity the model made up. The file without a patch comes first, so that it is skipped on the way.
- *Context*: the repositories have a cycle, a diamond, imports up and down, an index file, two methods of one
  name, a call in a callback, a file that does not parse and one that is not text; a changed file may be small enough for the diff and too large as a source; the tight limits make each
  budget run out, the wide ones none. An edit has at most five lines and one line of context (the code asks
  for three), so that hunks split and join.
- *Dashboard*: one row per page (`PAGE_LIMIT` is 20 in the code) makes two rows two pages. `MCFlow` is a coarse
  life of a row: two statuses that poll, then the end. `CIRunDetailScreen` polls in QUEUED and RUNNING and is
  otherwise `ReviewDetailScreen`.

**Fairness** is weak everywhere. *Pipeline*: a worker takes a waiting job and its handler's next await settles
(the database, GitHub and LLM clients all time out or throw); a listener finishes; the sweep's
interval keeps firing and its awaits settle; 90 s without a heartbeat pass; BullMQ notices that the job of a dead worker
stalled, puts it back and hands it out or, past `MaxStalledCount`, fails it, and ends its backoffs. No fault is fair, and neither are heartbeats: nothing
relies on a live worker's renewals to make progress. *Triage*: the same queue and awaits, and the listener;
nothing of a lock that is lost. *Review*: the handler goes on and timers fire; providers owe nothing, so
`ReviewEnds` rests on the timeout alone. *Dashboard*: the timer of the poll fires and requests end
(the browser fails them in the end); nobody has to press a button.

## 5. Where the code and its documentation disagree

- `ReviewStranded`: `recovery.ts:86-89` explains that the job goes onto the queue *before* the status is
  flipped so that no session is stranded in RETRYING. That order has the same defect: a worker
  takes the job at once, finds the row still RUNNING, skips it and completes the job; the flip lands
  after, and the session is RETRYING with no job. The sweep reads RUNNING rows only.
- `ReviewAttempts`: `README.md:79` promises at most 3 attempts. The queue's attempts and the sweep's are
  bounded separately and add up; the bound that holds is `MaxAttempts + QueueAttempts - 1`.
- `ReviewDoublePost`: `README.md:79` says a worker that comes back cannot double-post. The lease is checked
  once before the requests to GitHub, none of which is fenced.
- `ReviewClobber`: `lease.ts:131-133` says the status guard keeps a job that died before claiming from
  clobbering a session another worker is retrying. RUNNING is among the statuses it accepts.

Without a run of its own:

- `imports.ts:25` says that relative imports "navigate up `dots` directories from the importer". `dots` counts the
  leading dots only: of `../../lib/c` the second `../` is among the dots that become slashes, and the import is
  looked for one directory too low. `DependenciesNearest` leaves such specifiers out (`Plain`); the instance has one.
- `diff.ts:97-102` says that changed lines always refer to the head file and are all that a diff touches. A line of the file
  that starts with `--` or `++` is shown as `---` or `+++` when it is removed or added, is taken for a file header and ends the hunk: the
  changed lines after it are lost. `ChangesAreThePrs` leaves such files out (`Unmistakable`); the instance has them.
- `--find-renames` is passed to the diff of a single file (`diff.ts:81`), but with the new path alone git has no old file to compare
  with: a renamed file is shown as new, and every symbol of it as changed. `ChangesAreThePrs` leaves renamed files out; the
  instance has one.
- `limits.ts:30` documents the comment budget per pull request; it is counted over all of them.
- A list that is refreshed while its page is turned may end up showing the page that was left
  (`ReviewsScreen.tsx:43`): `ListShowsItsPage` excludes it.
- The comment on `heldLeases` (`index.ts:31-33`, "leases of jobs in flight") does
  not hold when the listener is slower than the backoff and the retry runs in the same process: the
  listener's `delete` removes the retry's lease. `InFlightLeaseRegistered` excludes that fault.

## 6. Proofs

### Review pipeline

`ReviewPipelineProofs` proves, for any sets of workers, sweeps and sessions, any `MaxAttempts`,
`QueueAttempts` and `MaxFaults` and any set of fault kinds (`ConstantsAssumption` in `ReviewPipeline` is all
that is assumed):

| Theorem | Statement |
|---|---|
| `TypeCorrect` | `Spec => []TypeOK` |
| `RowsCoherent` | `Spec => []RowCoherent` |
| `SettledStaysSettled` | `Spec => SettledForGood` |
| `PipelineImplementsLifecycle` | `Spec => ImplementsLifecycle` |
| `SweepsDecideOnCurrentRow` | `Spec => []SweepDecidesOnCurrentRow` |
| `LeasesEndByRight` | `Spec => LeaseEndsByRight` |
| `FailedWhenExhausted` | `Spec => []FailedOnlyWhenExhausted` |
| `CompletedMeansDelivered` | `Spec => []CompletedWasDelivered` |
| `ClaimsStayBounded` | `Spec => []ClaimsBounded` |
| `LeaseRegisteredInFlight` | `Spec => []InFlightLeaseRegistered` |
| `OneAttemptWrites` | `Spec => []OneWriterAtATime` |
| `CheckRunsUnique` | `Spec => []OneCheckRun` |
| `PostedOnceOnRedelivery` | `Spec => []RedeliveryPostsOnce` |

The argument about rows goes in three layers, each an
inductive invariant that includes the one before.

1. `TypeInv` is `TypeOK` and the fact that local variables are read only where they have a value.
2. `RowMoves` shows that every step of the pipeline is one of seven *moves* of one row (claim, beat,
   complete, go quiet, release, fail, delete) or leaves rows and leases alone. It needs
   `LeaseAfterClaim`: a handler past its claim has a lease, so that a guard `leaseId = lease` cannot match a
   row whose lease is null. What is said about rows is then proved from the moves: `RowInv` adds
   `RowCoherent`, and finality and the refinement follow, since a settled row has no lease for
   `completeSession`, which looks at nothing else, to match.
3. `SweepInv` adds `SweepCurrent`: if a sweep's cutoff still lies after the heartbeat of a RUNNING
   session, then nobody has claimed it since the scan. It is inductive because the only writes
   that change `attemptCount` or make a row RUNNING also write `heartbeatAt`.

How a session ends rests on two decompositions of a step. `QueueMoves`: a handler throws, or the jobs'
counts and the listeners' reasons stay what they are. `StatusMoves`: who changed a status is a claim,
a listener, a sweep, a completing handler or the deletion, each with the guard it passed. Then

* `FailureInv` adds `QueueInv` (a listener with the last word belongs to a job that has failed, any other to
  the server's job). A failed job stays failed, and a sweep gives up on a count that is the row's
  (`SweepCurrent`).
* `DeliveryInv` follows each handler: past its findings its lease is among those stored, unless the
  row was deleted under it, and then `completeSession` matches nothing; past a request to GitHub it is among those that got
  through, unless some request failed, which `suffered` remembers (`SufferedGrows`).
* `CountInv` counts claims against `MaxAttempts + Spent(s)`, `Spent` being the attempts the server's job has
  used up before its last, and strictly below it while the session may be claimed or a listener is
  about to put it back. Such a listener appears only with one more attempt spent, and a sweep puts
  a session back only below `MaxAttempts`. `LeasesIssued` keeps a listener from holding the lease of a
  claim that comes after it.

Who writes to the pull request rests on what is known of leases. `LeaseInv` holds under every fault: a lease is one
handler's; it is in `heldLeases` under that handler's job and nowhere else, on the row of its session and no other, and
a `failed` listener only ever has the lease of an attempt that has ended. `LeaseMoves` says when a handler's lease changes: it
is the number just issued, it is given up, or it stays. On top of it,

* `SetAside`: unless a listener outlives the backoff, its job is `delayed` or `failed` until it is done, so nobody runs the
  job meanwhile and its `delete` on `heldLeases` cannot take the entry of a later run.
* `Alone`: unless a live worker goes quiet, a handler past its claim has its lease on the row, with a recent heartbeat, or
  the row is settled; either way nobody else can claim. A sweep needs a quiet heartbeat; a listener writes under the lease of an
  attempt that ended, or, without one, writes FAILED. Two writers are thereby one.
* `ChecksInv`: a handler about to create the check run found none, and being alone, still finds none.
* `SentInv`: an attempt that sent its comments is alone on its session until it ends, and under the faults the property allows
  it ends by settling the row.

TLC checked these strengthenings on the instance of `ReviewSafety` before they were proved.

### Webhook intake and login

`IntakeProofs`, from `IntakeAssumption` and `LoginAssumption`:

| Theorem | Statement |
|---|---|
| `IntakeTypeCorrect` | `Spec => []TypeOK` |
| `OneRow` | `Spec => []OneRowPerSubject` |
| `EveryRowHasJob` | `Spec => []RowHasJob` |
| `NothingOutlives` | `Spec => []NothingOutlivesInstallation` |
| `SignedInSeesAllPages` | `Spec => []SignedInSeesAll` |

Steps are first sorted into the operations of one request and everything else (`WebhookSteps`, `LoginSteps`).
`RowInv` adds `Numbered` (ids given out are at most `nextId`, so a new row's id is nobody else's) to the two properties:
a row is created only under the unique key, by a request that is then at `add`. `LivingInv` is the property of
deletion itself with the types: what is inserted is checked against the foreign key in the same step, and a
delete takes everything of its row along.

`SeenInv` follows a login that nothing disturbs. While it fetches, the installations on the pages it is past are listed: an
installation's place is the number of those the user has access to before it, and a page lists the places from
`(page - 1) * PerPage` on. A page that is not full is the last one: with an installation after it, it would be full, which
takes counting (`FullSlice`). While it links, an installation is still listed or linked; once it signs, all are linked.

### CI triage

`TriageProofs`, from `TriageAssumption`:

| Theorem | Statement |
|---|---|
| `TriageTypeCorrect` | `Spec => []TypeOK` |
| `CommentsCostFaults` | `Spec => []PostsCostFaults` |
| `FailedWhenExhausted` | `Spec => []FailedMeansExhausted` |
| `CommentsShown` | `Spec => []RowShowsItsComment` |
| `CompletedIsFinal` | `Spec => CompletedStays` |
| `CallsAreBounded` | `Spec => []CallsBounded` |

`HandlerKinds` sorts what a handler can do into throwing, going on, posting and storing. Three invariants follow,
each including the one before.

* `PostInv` counts. Comments, handlers that may still post (`Pending`), handlers whose last write will be refused (`Unfit`) and a job
  that will run again without a fault (`Rerun`) together are at most one more than the faults: each step that adds to one of the
  four takes from another or is a fault. An answer that does not fit counts twice, as one that will post and as one that makes
  the job run again.
* `FailInv`: a job whose failure is being written, or has been, has used up its attempts (`Given`); without faults the process at
  work is the one that has the job (`Alone`), and a job that has posted does not fail (`Told`).
* `ShownInv`, as long as no second run can be about: whoever works owns the job (`Owned`); a COMPLETED row has a
  job that is completed or about to be (`Stored`); the id a handler carries is that of a comment with its verdict
  (`PostedVerdict`), and so is that of the row (`Shown`).

`CallsInv` counts the calls made and those the runs at work may still make (`Owed`, pairs of a worker and a try it has not
used): together they are at most `MaxRetries + 1` for each run of the handler the job has seen begin. A run that begins adds as many to
both sides; a call moves one from what is owed to what was made; a run that ends gives up what it has left. The runs are the
attempts and the stalls that led to another run (`Reruns`); the one stall too many is followed by `FailStalled` and no run (`StallsCounted`).

### Chain and review graph

`ReviewGraphProofs`, from `ChainAssumption` and `GraphAssumption`:

| Theorem | Statement |
|---|---|
| `AnswersInOrder` | `Spec => []ServedInOrder` |
| `BootedWorkerHasProviders` | `Spec => []ValidEnvironmentWorks` |
| `NothingLostInMerge` | `Spec => []FindingsMerged` |

`OrderInv` says of every call, served or not, that the providers asked in vain are the first of the chain, in order; the
chain does not change while the process lives.

The other two are about what filters and concatenations compute. `SequenceFacts` has what they need: a filter keeps the elements of the set,
in their order (`KeptFacts`, `KeptElements`); a filter that keeps more is longer (`KeptFewer`); the elements of a concatenation
are those of its parts (`FlattenElements`). They are proved by least counterexample, with the predicate of the induction given
as a set (`SetInduction`).

* `ValidWorks`: validation asks that every name of the order is known and that one of them, or of all names, has a key. The resolver
  drops blanks and names without a key, and what validation found is in what is left.
* `FoundInv`: the findings at the merge are findings (a served call has a content, which parses to findings or to none). `MergeFacts` is about any
  sequence of findings: being on one line is an equivalence, each class has one member that opens it (`OpeningFacts`), the finding
  merged of a class is on its line, at least as severe as each member (`WorstFacts`, since `Rank` is bounded) and has the
  messages and the blocking of all (`MergedFacts`), and no two merged findings are on one line.

The assumptions on constants say what the code has: providers are among the entries an order can have and a blank is none of them;
an answer is unparsable or a list of findings, with strings and lists of strings where `runAgent` puts them.

### Context engine

`ContextProofs`, from `EngineAssumption` and `HistoryAssumption`:

| Theorem | Statement |
|---|---|
| `CheckoutAlwaysRemoved` | `Spec => []CheckoutRemoved` |
| `BudgetsHold` | `Spec => []WithinBudgets` |
| `DependenciesAlwaysNearest` | `Spec => []DependenciesNearest` |
| `ChangesAreAlwaysThePrs` | `Spec => []ChangesAreThePrs` |
| `RelevantAlwaysFirst` | `Spec => []RelevantFirst` |

`CheckoutInv` follows `dir` and `leaked` through the phases of a build.

`BudgetInv` has three parts. `InputsOk`: checkout and limits are as `EngineAssumption` has them. `ContextOk`: the context has
its type, what is parsed so far keeps to `maxParseFiles`, graph and source fit their limits. `HistoryOk`: what was asked
and found is within `MAX_API_CALLS`, `maxHistoryItems` and `maxHistoryComments`; a pull request is to be listed, or is an item, only if it
is known, and never both or twice (`ToListOnce`, `Unlisted`), which is what keeps the items apart; while a file is under way the
budget is not exceeded yet, so one answer more exceeds it by one at most.

All but the history is computed in single steps that fold over sequences: changed files, imports of a level, symbols, calls, candidates. Such a
fold keeps a property if each element does (`FoldKeeps` in `FoldFacts`). The provers cannot instantiate a theorem that
takes the property as a parameter, but they can use one of an instance of a module: `FoldFacts` has the operator and the property as constants, proves
the property of a fold once, over the library's definition of it and from induction as a hypothesis (`InductionOverNat`), and `ContextProofs` instantiates it for every fold of the
engine (`ParseFold`, `ImportFold`, `AddSymbolFold`, `TakeFold`...). One lemma per element then says that a parse is counted (`ParseOneOk`,
`ImportOk`), that a node or an edge is added while there is room and an edge only between nodes (`AddNodeOk`, `AddEdgeOk`), and that a symbol is shown while
there is room for it and its file, with a slice below its limit (`TakeOk`). `BuildOk` adds that no edge of the graph dangles, which `CallersTypes`
needs: a caller is looked up by the source of an edge. `SortedPermutes` shows that sorting loses and repeats nothing: the items
that `FinishHistory` sorts are as many as before and as distinct.

The other three say what is chosen, each over `BudgetInv` and an invariant that follows one part of the context through the phases.

* `NearInv`: while the walk lasts, and once it is over, the dependencies are the files at distance 1, 2, … up to the level reached.
  `Within[n]` is defined by recursion over the naturals (`WithinExists`, `WithinUnique`); a level takes exactly the files that the
  level before imports and that nobody has yet (`ImportsOfLevel`, `NearStep`, `LevelStep`), and a level that finds nothing ends the walk
  for good (`RingsEnd`). That an import leads to what the language means by it is `ResolvesToMeant`: the first candidate that exists
  (`FirstCandidate`) is the only one that does, if the specifier is `Clear`. The budget of parses must not run out (`Budget`), since a
  file that was not parsed hides what it imports.
* `PrsInv`: unless something failed, the files are those of the diff from the merge base and the symbols those of the lines read
  from it. `ReadDiff` is the round trip: the patch git shows of an edit, read back line by line (`ReadLine`, `ReadHeader`, `ReadOther`), gives
  the lines of the head in a hunk, in ascending order, as long as no line reads like a header. `SearchFinds` is the binary
  search over them: it finds a line of the symbol if there is one. Files of the base that the pull request left alone have an
  untouched edit (`EngineAssumption`) and are not listed (`Untouched`).
* `ShownInv`: once the walk is over, graph and source are those of what was parsed. For the order, the insertion sort
  keeps what is in order (`InsertInOrder`, `SortedInOrder`) and candidates of a later kind are dropped when an earlier one has the
  symbol (`DistinctReasons`). For what is left out, `TakenAll` follows the fold of `Take`: a candidate is not shown only if a limit is met,
  and a limit once met stays met, so that what comes first goes first. For the callers, the graph only grows (`GrowsOn`): while
  `Room` lasts every symbol has its node (`AllSymbols`) and every call between names that occur once its edge (`CallEdgeThere`).

The assumptions say what the inputs are: `EngineAssumption` that files have syntax trees and edits as tree-sitter and git return them, that
GitHub can be asked for the commits of any of them, that a file the pull request left alone has an untouched edit, and that limits are natural numbers, zero included; `HistoryAssumption` that GitHub's lists
contain what it can be asked about next.

### Screens

| Module | Theorem | Statement |
|---|---|---|
| `ScreenProofs` | `ListOnItsPage` | `Spec => []ListShowsItsPage` |
| `ScreenProofs` | `OnlyOwnRows` | `Spec => []OwnRowsOnly` |

`PageInv` has three parts: requests have the shape their stage promises; a request that is awaited (under
way and not cancelled) asks for the page of the moment, unless a refresh crossed a turn; and a list that
does not show its page, without an error, still awaits a request. `OwnInv` says that a request goes on with installations the user
was connected to when it was authorised, that what its queries found is of those, and so is what is shown; `ScreensAssumption` (a screen asks an
endpoint the server has) makes every query one of the four forms, each scoped.

### Only model-checked

Liveness: `OrphanIsReleased`, `SettledUnlessFault`, `SettledOrStranded`, `Settles`, `ReviewEnds`, `DetailCatchesUp`. The prover has no
rules for fairness or `ENABLED`. Every other property of a passing run is proved. The runs of section 5 are counterexamples and have no theorem.

## 7. State of the plan

The intake, the triage worker, the chain, the review graph, the context engine, the API and the screens were
planned as modules beside the pipeline and are there; every safety property and action property of a passing run is proved. What is
left: a larger instance of the dashboard with three requests at once, and properties for the hazards that `PROJECT.json` lists
with a note instead of one, most of which are what the code does today.

## 8. Not modelled

- *Landing page, docs, legal pages, animation, UI kit, lint and TypeScript settings*: no state that anything else reads.
- *Texts*: prompts, comment bodies, log excerpts, dates, labels, log lines.
- *Intake*: the signature check and the columns of a delivery that are only stored. A request with a bad signature is answered
  401 before anything is read.
- *Queues*: BullMQ's clean-up of old jobs.
- *Triage*: how long the waits of `invokeWithRetry` are; BullMQ renews a job's lock in the background, so they cost time and nothing else.
- *Syntax trees*: the tree-sitter grammars and bindings; `importedNames`, which nothing reads.
- *Sessions*: what is in the JWT and its signature; `/me`; logout, which clears a cookie.
- *Screens*: what the browser derives from an answer (search, filters, charts, grouping by repository). Where a
  screen loads a list and the dashboard with `Promise.all`, the two are one request: they are shown together or
  not at all.
- *Statistics*: the counts beside `byStatus` are read the same way and left out.

## 9. Running

```
tlc -config ReviewSafety.cfg MCReviewPipeline     # and the other Review*.cfg but Review.cfg
tlc -config Intake.cfg       MCIntake
tlc -config Triage.cfg       MCCITriage
tlc -config Review.cfg       MCReviewGraph
tlc -config Context.cfg      MCContextEngine
tlc -config Dashboard.cfg    MCDashboard

for m in ReviewPipelineProofs IntakeProofs TriageProofs SequenceFacts FoldFacts \
         ReviewGraphProofs ContextProofs ScreenProofs; do tlapm $m.tla; done
```
