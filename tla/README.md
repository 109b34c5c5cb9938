# A verification project for the reporting agent

The system turns a customer's cloud usage into a verified report. A Next.js
application stores *runs* in Postgres; a scheduler tick claims them and invokes a
Python agent; the agent collects, compiles, renders and verifies a document and
reports its phases back over HTTP. This directory holds TLA+ models of the parts
of it where a mistake is hard to see and hard to test: the life of a run, from
the request for it to what a browser shows of it, under overlapping ticks, lost
and late callbacks, dying processes and schedules edited while they are being
started; what the agent does inside a run with requests in flight at once; and
the stores that several people and processes write at once.

| file | what it is |
|---|---|
| `RunStates.tla` | the vocabulary: statuses, `DRIVEN`, accepted targets, error codes by writer |
| `RunMachine.tla` | the abstract specification: what a run's row promises whoever writes it |
| `Reaper.tla`, `MCReaper.{tla,cfg}`, `ReaperProofs.tla` | the scheduler tick over many runs; implements `RunMachine` |
| `RunCallbacks.tla`, `MCRunCallbacks*.{tla,cfg}`, `RunCallbacksProofs.tla` | one run seen from its agent's callbacks; implements `RunMachine` |
| `Submission.tla`, `MCSubmission.{tla,cfg}`, `SubmissionProofs.tla` | how runs come to be inserted: `enqueueRun`, the dedupe key, the monthly schedule |
| `RunEvents.tla` | the abstract specification of one event stream: what a connection may say, in which order |
| `RunStream.tla`, `MCRunStream.cfg`, `RunStreamProofs.tla` | the relay and the browser's hook; implements `RunEvents` |
| `MetricBatches.tla` | the agent's metric requests: batches, halves, splits, throttling, the fallback, the archive |
| `Heartbeat.tla` | the agent's merge of its events with keep-alives |
| `TrendSelection.tla` | which prior runs a report's trend plots, and what a re-verification finds |
| `CloudWatch.tla` | the agent's metric requests to AWS: calls of whole resources, region by region |
| `SeriesFold.tla` | one metric of one resource, from the response to its statistics |
| `Calendar.tla` | zones, windows, grain, day buckets and the months of a trend; pure |
| `Periods.tla` | the period of a run, from the preset's rule to the windows the agent collects |
| `Agent.tla`, `MCAgent.{tla,cfg}` | what is promised of the parts of the agent; these, one at a time |
| `AgentProofs.tla` | what is proved of them and of `Credential` |
| `Credential.tla`, `MCCredential.{tla,cfg}` | one credential shared by the calls of an invocation, over threads and the event loop |
| `ActionRegister.tla`, `MCActionRegister.{tla,cfg}` | the items a connector's reports open and resolve, edited by people |
| `PresetEditor.tla`, `MCPresetEditor.{tla,cfg}`, `PresetEditorProofs.tla` | a preset edited, saved and published in several tabs |
| `Conversation.tla`, `MCConversation.{tla,cfg}`, `ConversationProofs.tla` | a chat thread, its deletion, and the reports it proposes |
| `Membership.tla` | the members and invitations of a workspace |
| `Delivery.tla` | contacts, approve and send, the customer's visits |
| `Feedback.tla` | feedback saved, mailed to the team, sent again |
| `Connector.tla` | a connector's rotations and verifications, and its cached inventory |
| `Collections.tla` | the scans and live pulls that run inside a request |
| `Stores.tla`, `MCStores.{tla,cfg}` | what is promised of these five; these, one at a time |
| `StoresProofs.tla` | what is proved of these five and of `ActionRegister` |
| `PROJECT.json` | components, runs, mutants, the map from definitions to code, findings, hazards, theorems |

Run a configuration with `tlc -workers 2 -config MCReaper.cfg MCReaper`, and the
proofs with `tlapm ReaperProofs.tla`.

## 1. Inventory

| component | code | state | operations | what makes it correct | modelled in |
|---|---|---|---|---|---|
| Run vocabulary | `app/lib/runs/state.ts`, `db/schema.ts` | `report_runs.status`, `error_code`, `phase_deadline`, progress columns | `DRIVEN`, `acceptedTargets`, guarded writes | one path through the phases, terminal is for ever, an error code exactly while failed, a deadline exactly while live | `RunStates`, `RunMachine` |
| Scheduler tick | `app/api/cron/tick`, `runs/claim.ts` | row locks, the claimed rows in memory | sweep, claim, start | disjoint claims; on-time runs are not swept; every run ends | `Reaper` |
| Invocation gate | `runs/invoke.ts` | none of its own | gate, credentials, re-read, pinned version, invoke | never invoked twice, never after a refusal | `Reaper` |
| Callback endpoints | `api/internal/runs/[runId]/progress`, `verification`, `runs/progress.ts`, `verifications/store.ts` | the row, `report_verifications` | decide on a read, write if the status is unchanged; completion with its proof in one transaction | stale decisions never land; no unproved completion | `RunCallbacks` |
| Agent progress reporter | `agent/.../progress.py` | a chain of tasks, the last phase, the throttle | report, report_terminal, report_verification, aclose | order kept; shutdown bounded; the outcome reported is the outcome reached | `RunCallbacks` |
| Agent pipeline and router | `report_pipeline.py`, `collect/pipeline.py`, `main.py` | the snapshot, the document, the verdict | phases in order, raise, cancel | nothing uploaded before a pass | `RunCallbacks` (the order of effects) |
| Enqueue | `actions/runs.ts`, `runs/dedupe.ts` | `report_runs`, `dedupe_key` unique | validate, number the revision, insert or answer with the held row | one run per intent; the answer covers the request | `Submission` |
| Monthly schedules | `schedules/due.ts`, `schedules/store.ts` | `run_schedules` | save, stop, claim the month, record | once a month, at its slot, with a trace | `Submission` |
| Event relay and run stream | `runs/relay.ts`, `api/runs/[runId]/stream`, `hooks/useRunStream.ts` | a cursor per connection; what the browser shows | derive events from snapshots, idle close, apply, reopen, re-read | every step opened is closed, once; the outcome last; the status shown never goes back; an end is shown | `RunStream` over `RunEvents` |
| Heartbeat | `agent/.../heartbeat.py` | queue, pump, ticker | merge, cancel | order kept, nothing after `done`, no gap longer than promised | `Heartbeat` |
| Action register | `action-register/*.ts` | `action_items` | sync after a completion, edit | an item rests on what a committed run saw | `ActionRegister` |
| Presets and versions | `templates/store.ts`, `report-profiles/[id]`, `builder/use-autosave.ts`, `top-bar.tsx` | draft, `draft_revision`, versions; the tab's revision, timer, call in flight | save, publish, delete | no edit lost to another tab; no version without a change | `PresetEditor` |
| Chat and its proposals | `chat/store.ts`, the thread's routes | a thread's item, its messages, proposal state | append, delete, confirm, dismiss | the count is the messages'; one closes a proposal; one run per proposal | `Conversation` |
| Metric collection | `agent/.../azure/metrics.py`, `regions.py`, `collect/archive.py` | the batches of a group, the locations known to refuse, accumulators, gaps, the archive | plan, request, halve, split, wait, fall back, archive, fold | each resource's metric is folded or reported once; a replay folds the same | `MetricBatches` |
| AWS metric collection | `agent/.../aws/metrics.py`, `aws/provider.py` | a region's calls, the regions that did not answer, the archive | plan, call, archive, fold | calls within the limit; each pair once; a replay folds the same | `CloudWatch` |
| Accumulation | `collect/accumulate.py`, `dayfold.py`, `finalize.py`, `azure/metrics.py` | accumulators of the window, the days, the hours; gaps | screen, fold, finalize, derive | the folds agree in any order; what is absent is explained | `SeriesFold` |
| Periods and calendars | `templates/period.ts`, `collect/buckets.py`, `collect/pipeline.py` | the days on the row; the agent's window, grain and months | resolve, plan, collect the trend | days are past, whole, and mean the same on both sides | `Periods` over `Calendar` |
| Credential | `agent/.../azure/credential.py` | a token cache and a lock per audience, the executor's workers | acquire on the loop or from a thread, expire, retry on a challenge | a burst asks once; only a starved executor hangs | `Credential` |
| Trends | `compile/historical.py`, `verify/historical.py`, `report_pipeline.py` | the candidates, the snapshots read, the selection | load, select, compile, re-verify | the newest of overlapping runs; the gate accepts the selection | `TrendSelection` |
| Workspaces | `workspaces/store.ts` | members, invitations | invite, accept, revoke, change, remove, transfer | one owner; an invitation ends once | `Membership` |
| Delivery | `delivery/store.ts` | `customer_contacts`, `report_deliveries`, mailed tokens | add and remove contacts, approve and send, open the link | the record of a send is true; visits are counted | `Delivery` |
| Feedback | `feedback/store.ts` | `feedback` | submit, email, send again, mark done | nothing saved is lost to the team | `Feedback` |
| Connectors | `subscriptions/store.ts`, `inventory-cache.ts`, the routes `secret`, `verify`, `inventory` | `connected_subscriptions`, a cache per process | rotate, verify, list | active means proved; no listing from an earlier credential | `Connector` |
| Scans and live pulls | `scans/execute.ts`, `live-metrics/execute.ts` and their routes | `subscription_scans`, `live_metric_pulls` | create, run, read events, write the end | complete means complete; a running row ends once the runtime lets go | `Collections` |
| Sessions and lockout | `auth/*.ts`, `actions/auth.ts` | sessions, login attempts | sign in, roll, revoke, lock out | access control | not modelled: section 10 |
| Inventory collectors, sketches, compilation, rendering, verification, UI, administration, infrastructure | the rest | caches, documents, pages | mostly I/O and pure data | content | not modelled: section 10 |

How they interact: a person, a chat proposal and the tick's schedules call
`enqueueRun`; the tick claims what was enqueued and invokes the agent with the
run's id and token; the agent collects with one credential, and calls the two internal endpoints, and streams its
events merged with heartbeats; the endpoints and the sweep write one row, which
the relay reads for the browsers that watch; a verified completion syncs the
action register, and its report may be sent to the customer and be plotted in
later ones. The only shared state is the databases, and the only mutual
exclusion is what each statement does for itself (row locks, `SKIP LOCKED`,
unique keys, a `WHERE` on the status or the revision that was read, DynamoDB's
condition expressions).

What is proved for every value of the constants (section 9) is not checked again
by a run unless the run is where a mutation of the code shows it broken: the type
invariants of the proved modules, `GatedNeverInvoked`, `RevisionsWithinHistory`,
`FailedLeavesNoTrace`, `CountAgrees` and `OneAcquisition` are in no configuration.

Every hard behaviour we know of is a row of `hazards` in `PROJECT.json`, at the
line where it bites, with the properties that cover it or the reason none does.

## 2. The abstract specification: `RunMachine`

A reader of a run's row relies on a promise that no single function makes. It
enters once, moves along `DRIVEN`, stays where it is once terminal, names an error
code exactly while failed (the CHECK constraint of the table) and has a deadline
exactly while live (or the sweep can never find it). `RunMachine` states it as a
state machine over any set of rows, because one statement may move several rows.
Its two corollaries, `ErrorIffFailed` and `ArmedIffLive`, are proved once
(`RowsConsistent`, in `ReaperProofs`), and both detailed modules are shown to implement it
(`Refines`), by TLC on instances and by proof for all.

An account starts before the row's insert (`Reaper`) or at its claim
(`RunCallbacks`).

## 3. `Reaper`: the tick

State: for each run its status, error code and `left`, the time to its deadline
(negative when passed); for each tick what it is doing, the rows its open
statement has locked (`batch`) and how far it has brought each claimed run
(`job`); how often a run was invoked and which runs have an agent.

| code | action |
|---|---|
| `enqueueRun`'s insert | `Enqueue` |
| `sweepExpiredRuns` | `SweepSelect`, `SweepCommit` |
| `claimQueuedRuns` | `ClaimSelect`, `ClaimCommit` |
| `startRunInvocation` | `Gate`, `Reread`, `ReadPinned`, `Invoke` |
| `failClaimedRun` | the operator `FailClaimedRun`, inside `Gate` and `ReadPinned` |
| the request dies | `CrashTick` |
| a progress callback that is accepted | `AgentReports` |
| time | `Elapse` |

A statement that locks rows is two actions, the selection and the commit; between
them readers see the old row, writers wait (`Locked`), other locking selections
skip. Where `startRunInvocation` lets an error escape, the row is left for the
sweep, as `Promise.allSettled` leaves it. An invocation may have started an agent
whatever the tick was told.

`MCReaper.cfg` has two runs and two ticks, a claim limit of two and a sweep limit
of one, so that a sweep leaves a row behind and a claim takes both rows at once;
two accepted callbacks and one crash; the queue's budget is longer than a phase's,
and a row is told apart up to one unit past its deadline. Two ticks make every
overlap of two statements, and two rows suffice for one to be locked while the
other is free; the proofs are for any number. There is no symmetry, because the
run checks liveness too. What it shows (72,615 states):

* `AtMostOneInvocation`, `ReapedOnlyWhenOverdue`, `Refines`.
* `EventuallyTerminal`: a submitted run ends. Fairness: the clock advances; each
  tick request makes progress and is called again. The code justifies it: the
  schedule is external and unconditional, each step of a tick is bounded by a
  timeout, and no agent is relied upon. Nothing is assumed of agents, submissions
  or crashes (which are bounded in number).

## 4. `RunCallbacks`: one run and its agent

State: the row (status, error code, `progress_current`, whether its deadline is
absent, ahead or past), the stored proof, the agent's place in its pipeline, its
verdict and its terminal phase, the chain of callbacks not yet sent, the request
in flight on the chain and on the awaited path, and requests the agent has given
up on while the app has not (`late`).

A request is answered in two actions, `Read` and `Answer`, with anything in
between; the answer may be lost after the write; a request may time out before,
between or after. `Lands` is the guarded write: the decision on the row as read,
the status unchanged, and for `verifying -> completed` a passing proof in the
transaction. The reporter's discipline is there in full: `Dispatch` waits for the
predecessor's completion, `NextAttempt` is the single retry, `ReportTerminal`
waits for the chain within its budget, `Resend` asks again after an answered
refusal of `completed` only, `Close` cancels what is pending.

Two settings of one constant: `Lossy = TRUE` (requests lost, late, cut off, the
agent's container may die) for safety, `Lossy = FALSE` (every request is answered
in time) for the promises that only make sense then. With one late request at a
time a straggler of any phase, its first attempt or its retry, meets every later
state; the count takes the values absent, none and all. The lossy run repeats no
terminal callback after a refusal (a repeat adds no request that the retry within
each delivery does not already produce, and the proofs hold for any number); the
reliable run has the code's two repeats.

* Lossy: `OutcomeAgrees` (the row ends as the agent ended, or as `TIMEOUT`; a
  failed verification is never completed), `ProofBeforeVerifiedCompletion`,
  `Refines`.
* Reliable: `NextInLine` (no callback is refused for skipping a link),
  `SuccessLands`, `ProgressMonotonic`, and under fairness `RunAndAgentEnd`: the row
  becomes terminal and the agent exits. Fairness: a live agent keeps working and its requests end by
  their timeout (`asyncio.timeout` in `_deliver`); the clock runs; ticks keep
  sweeping. Late requests get none.
* Deadlock checking is off: a run that has ended, stops.

`PartialCoverageError`, the one non-terminal error, is raised after everything
else is done, so `Raise` is faithful in treating a raise as the failure of the run.

## 5. `Submission`: enqueue and schedules

One customer, two presets that ask for the same scope (so that they share a
dedupe key), a person and two overlapping ticks. One unit of the clock is one
bucket of the key and one hour of the schedule, two units are a month, and the
clock covers two months; the schedule may be saved twice and one tick may die.

`Prepare` is everything `enqueueRun` reads before its insert: any of its checks
may refuse, or the issues so far are counted. `Insert` is the insert under the
unique key: a row, or the row that holds the key; the reply may be lost. A tick
reads the schedule (`ReadSchedule`), claims the month with the statement's own
`WHERE` (`ClaimMatches`), enqueues what it *read*, and records what came of it.
`Save` and `Stop` may come between any two of these.

`Advance` lets no enqueue outlive a unit of the clock, which is what a minute
against a request is. `Straddling` says whether a tick may outlive the month it
began in; the run has `FALSE`, and section 11 says what `TRUE` shows.

* `OneRunPerIntent`, `AnswerCoversRequest`, `OneClaimPerMonth`, `ClaimLeavesATrace` (unless a tick died) and, with ticks
  that keep coming, `DueIsClaimed`. Fairness: a tick that has begun goes on, and
  another comes after it, as in section 3.

## 6. `RunStream`: what a browser shows

The row moves by itself (`RowMoves`, `RowCounts`), as section 4 leaves it moving:
counts may fall, for a late callback lowers them. The relay reads *snapshots*; it
says what changed since its cursor (`LiveEvents`, `TerminalEvents`), closes after
an idle window, and may throw (`RelayStops`); the connection may be cut
(`ConnectionLost`), with what was in flight. The hook applies what it receives,
and after every end of a stream waits, re-reads the row and only then opens
another (`TimerFires`, `RowRead`, `FetchArrives`, `FetchFails`): a re-read is
answered when it is answered, so it may be overtaken by frames.

`RunEvents` is the contract of one connection: a step opened is ended before the
next one, ranks go up, progress belongs to the open step and does not fall, the
outcome comes once no step is open, `done` is last. `heard` records what the
client has been told on this connection, and `SaysInOrder` is the refinement: a
phase skipped between two polls, an end said twice or never, and the idle close
in the middle of a step are all within it.

`MCRunStream.cfg` (193,000 states): one resource counted or not (absent, none,
all), one idle poll, the relay at most one poll ahead of the browser. The window
of one makes every close possible at every phase; frames in flight are bounded by
two polls' worth.

* `ShownNeverGoesBack`, over any number of reconnects and late re-reads. It needs
  the order in `TimerFires`: were the stream opened while the re-read is still on
  its way, the answer could undo what a frame has shown.
* `EndIsShown`: a run that has ended is at last shown as ended. Fairness: the
  relay's loop and the browser's event loop go on; re-reads asked for again and
  again are not all lost (strong fairness, as each failure is followed by another
  stream, another close and another re-read). Nothing is assumed of the
  connection.

## 7. The agent

`MCAgent.cfg` (1,205,000 states) explores all but the last, which share no state: a
behaviour is about one of them (`part`) and the others stay as they start.
Deadlock is not checked, as each of them ends.

### `MetricBatches`

A task is a leaf of the tree of requests a group's gather has spawned: resources,
the metrics still to ask for, and where the request is. `Request` takes a permit of
the semaphore and chooses the road; `BatchAnswers` is every answer of the data plane
(`Answered`, `Throttled`, `TooLarge`, `Refused`, `Failed`), `DnsFails` and
`TransportFails` the exceptions; `FallbackAnswers` asks for each resource by itself;
`Fold` is the archive's write, which may fail, and the fold behind it. An exception
leaves the gathers while their other requests go on (`Raise`). The instance has
two resources of two metrics in one location, asked for in one batch, and one resource
elsewhere whose two metrics ask for different aggregations, in two batches; two permits,
and a limit of two throttled answers in a row: halving, splitting beside the other half,
giving up, a location turned to the fallback by another request and the change of group
all happen, with two requests in flight. That a group's resources are cut into chunks is
left to the proof.

* `PairsAccounted`: every resource's metric is folded or reported as a gap exactly
  once, or a request that can still do so is there, unless the run has raised; an
  archive that does not call itself incomplete replays what was folded.
* `CollectionEnds`, under weak fairness of the whole: requests have timeouts, waits
  are bounded and there is one loop.

### `Heartbeat`

Pump, ticker and consumer are tasks of one event loop. A task that is ready runs
some time later, at most `Lag`; time does not pass beyond it. The queue is
unbounded in the code and bounded here by the number of events and the clock. The
ticker's deadlines are those of the code: `TickerTurn` sleeps to the deadline or
beats, catches up at most `MaxCatchUp` in a row and then gives up the intervals it
has missed. Its failure only stops the beats; the pipeline's is kept and raised
after the queue has drained; a client that leaves cancels both. The instance has an
interval of two, a lag of one, two events and eight units of time, so that beats
fall before, between and behind the events, and a catch-up limit of one, so that
giving up happens.

* `ToldInTime`: while the ticker lives, a waiting client is told something within
  the interval and three turns of the loop (the ticker's waking, its turn, the
  consumer's). It is the gap from which the relay's inactivity window is computed.
* `ForwardedInOrder`: every event, once, in order, none after `done`; a failure is
  raised after the events before it.

### `TrendSelection`

The candidates come in the app's order. For each trend block the agent loads the
newest verified ones (`Read`, `SelectBlock`), reads the selected ones again to
compile (`Compile`) and a later `verify_report` reads them a third time
(`Recompile`); any read may fail. `Sweep`, `Retained` and `Select` are the functions
of `compile/historical.py`. The instance has every set of three runs within three
days, in any standing, two blocks that look back one and two runs, and one failed
read.

* `FiguresAreSound`: of the runs that hang together by overlapping periods, the newest
  is retained and the others are excluded for it, which compares the one-pass sweep
  with the runs that overlap it directly or through others; and the verifier's gate, whose periods
  are half-open and which takes all blocks together, accepts whatever was selected.

### `CloudWatch`

The groups of a region and a type run at once, each group's calls one after the other. A
call has as many resources as fit below `MaxQueries`, each with all its series; a resource
whose ARN names no dimension is in none. `Answers` is all pages of a call and the document
made of them, `Folds` the archive's write, which may fail, and the fold; `Fails` is a call
that is refused or unanswered, whose region counts as silent; `Gate` is what the pipeline
makes of it. The instance has two groups in one region, one of two calls and one whose
single resource fills a call, and one group in another.

* `PairsAccounted`: as for Azure; and no call is above the limit unless one resource
  alone is.

### `SeriesFold`

One metric of one resource. `Unanswered`, `Screen` and `Fold` take the intervals in any
order, as batches answer in any order; an interval goes into the window, its local day
and its hour of the week (`FoldInterval`, three times); `FinalizeNothing` and `Finalize`
make statistics of the window and derive the share of a capacity, where the least of what
is available makes the most of what is used. Decimals are integers, an average is its
total and its count, and rounding and the percentile sketch are left out. The instance has
three intervals, of which the first two fall into one repeated hour, each any of seven: with
all its leaves, without samples, without a count, without totals, counting down, or with
no readable start; metrics that ask for all aggregations, for totals or for extremes; and
a capacity that is absent, zero, or small enough for a share to be out of range.

Of the platform's numbers `LeafFits` asks that an interval has both extremes or neither,
in their order, and that an average lies between them.

* `FiguresAreSound`: the window, each day and each hour hold what the intervals that belong
  to them come to; derived values are shares and in their order.
* `PairsAccounted`: a pair without a statistic has a gap that says why, unless it asks
  for extremes only; a pair of an excluded resource has neither.

### `Periods`

The app resolves a rule to days at the enqueue (`Enqueue`), with its own calendar
arithmetic; the agent turns the days into a window of instants and a grain (`Start`) and,
later, by its clock, collects the trend month by month: from the period's own values
(`Reuse`), the workspace (`AskWorkspace`) or the metrics API (`AskLive`). The two share
only the days and the name of the zone. What `zoneinfo` and `Intl` make of a zone is one
definition (`UtcOffset`, `UtcOf`), on which they are taken to agree. The calendar has five
months of two or three days of eight hours, in quarters of an hour; the zones are of whole
hours, of an hour and a quarter, with changes in the small hours, at midnight
(one midnight is skipped and one repeated), and by half an hour. Runs are enqueued at every
second quarter of a month and a half, with every rule and eight custom ranges, and the agent
looks at its clock at once or after more than a day. Spans of 7, 30 and 31 days are 2, 3
and 3. The length of the day matters only against the offsets, which are smaller.
`ZoneFits` is what is asked of a zone: changes at least two days apart, offsets smaller than
a day, no clock changed across a midnight or a noon, none set forward at midnight by a part
of an hour. The zones in use today are such; zones of the past are not all (Apia skipped a
day in 2011, St John's changed its clocks at a minute past midnight until then).

* `FiguresAreSound`: the window is past when the period is accepted; each slot lies in one
  local day and each day has as many as its length, be it short or long; the offset shown
  is that of noon; a report of a whole month reuses what it measured; months meet.

### `Credential`

A call runs on a worker of the loop's executor and comes back to the loop for its
token, where the lock of its audience admits one at a time; the one admitted sends
the acquisition to the same executor. `Start`, `AcquireTokenSync`, `EnterLock`,
`Resume` and the blocking path are the steps of `credential.py`; a token may expire
between any two, an acquisition be refused, an answer be a challenge that renews the
token once. `MCCredential.cfg` (69,000 states): three calls on workers, one made by
a coroutine, two audiences, three workers, the credential constructed on the loop or
before it. Deadlock is not checked: each call is made once, and the executor may starve.

The code guarantees no spare worker: the default executor has `min(32, cpu + 4)`, and
eight requests may be in flight. So the configuration has as many workers as there are
calls that keep one, the fewest calls that can starve it; both the behaviours that do and
those that do not are explored. (With one worker, with two, and with four, where nothing
can starve, the same properties hold.)

* `BurstCollapses`: no acquisition is made for a cache that finds a fresh token there.
* `HangsOnlyStarved`: while a call is unfinished something it waits for can go on, or the
  executor is `Starved`: every worker is kept by a call that waits for its token behind an
  acquisition that no worker has begun. `acquire_token_sync` waits without a bound for
  what it calls "a hang that cannot happen"; this is the one way it does happen (section
  11), and what the property adds is that the locks of the two kinds, the cache, refusals
  and challenges add no other.
* `EndsUnlessStarved`: a call that is made ends, or the executor is starved from then on for
  good. Fairness is of `Progress`, the executor and the loop going on.

## 8. Stores with several writers

### `ActionRegister`

A completion's sync is one transaction at READ COMMITTED: `Read` plans on what is
committed; `Write` is one row of the statement that runs (inserts, then rows seen
again, then rows resolved), each waiting for the row's lock; `Commit` or `Fail`
ends it. What a run says of a finding (found, checked and clear, not checked) is
fixed before. An edit is `EditRead` and `EditWrite`, the second by id alone.
`MCActionRegister.cfg` (325,000 states): three completions, two findings, one
edit, so that two syncs overlap before or behind a third.

* `OnEvidence`: an item resolved cites a committed run that checked it and found it
  clear; one that is seen names a run that found it.
* `FoundIsNotResolved`: what the last sync found is not resolved, if that sync
  overlapped no other. Without the last condition it is false (section 11).

### `PresetEditor`

A tab of the builder saves its draft a moment after a change, with the revision it
holds; `Save` is the hook's `save()`, with the calls that wait for one in flight,
all of which go out at once when it is answered (`Answer`); `Publish` saves and
then posts (`PostArrives`, in a transaction that locks the row, and `PostReads`,
the revision the answer carries, read after it). `Lost` loses a request or its
answer; `Delete` removes the preset. A definition is the set of edits it has taken
in, which is all the properties need: an edit is lost when a saved draft no longer
contains it. `MCPresetEditor.cfg` (568,000 states): two tabs, two unfinished calls
each, one edit and one publication each; two calls are what it takes to overtake
each other.

* `VersionsDiffer`: no version without a change, whichever answers are lost.
* `OverwrittenOnlyAfterPublishing`: an edit made elsewhere is overwritten only by
  a save sent with the revision of a publication. Section 11 has that exception.

### `Conversation`

Turns append a question and an answer, each with the thread's count in one
transaction conditional on the thread; the author's deletion queries the messages,
deletes them in batches of which DynamoDB may leave some (`DeleteSome`,
`DeleteFails`), and deletes the thread's item last. An answer may propose a report;
members read the proposal, enqueue a run under its dedupe key (`Enqueue`,
`InsertRun`, as in `Submission`) and close it conditionally (`Close`).
`MCConversation.cfg` (145,000 states): two turns, two members, two scopes, two
buckets, one deletion.

* `OrphansAreLate`: what outlives a deleted thread was appended behind its
  deletion's query.
* `OneCloses`: one member at most is told that it closed a proposal, and a
  requested proposal names the run its request got.

None of these three promises liveness (a request that fails is told to a person),
and their runs do not check deadlock, since their budgets end.

### `Membership`, `Delivery`, `Feedback`, `Connector`, `Collections`

`MCStores.cfg` (239,000 states) explores these five one at a time, like `MCAgent`.
Deadlock is not checked: requests end and budgets run out.

`Membership` is one workspace. Every request is a transaction that first takes the
lock of the workspace's row (`lockRole`), then checks what it read under it, then
writes (`Lock`, `Check`, `Commit`), and may be rolled back at any point. Three users,
two invitations and two open transactions: everything that could overlap is asked of
the lock by two requests of different kinds.

* `TeamIsSound`: one owner, through transfers, removals and role changes; an
  invitation admits one user or is revoked, never both.

`Delivery`: `CountContacts` and `InsertContact` are the two statements of
`addContact`; `Approve` takes the contacts there are, `Mail` sends one message, whose
answer may be lost, `Record` inserts the row behind the last; a visit reads the row
(`Follow`) and writes what it read of the first opening, while the database counts
(`Count`). `Feedback`: a message is saved, mailed, and its row updated by id; an
administrator sends again what does not read as sent; refusals, lost answers and dying
requests are bounded by `MaxLosses`. Two of each, of contacts and of visitors are what
it takes for any two to overlap.

* `MailIsTrue`: a delivery names everyone who was mailed, `ok` means mailed, `sent`
  leaves nobody out, every visit is counted and the first opening is set exactly when
  there was one; no feedback was mailed that is not saved, and `sent` was mailed.
* `SavedReachesTheTeam`: saved feedback comes to be mailed and to read so for good.
  Fairness: a request that runs goes on, and somebody presses "Send again" on what was
  not sent, which is what the page is for; losses are finite.

`Connector`: `Ask`, `Answer` or `Fail`, and `Record` are a rotation (Azure, a new
secret each) or a verification (AWS), the last one statement that writes the verdict
whatever the row has become; `ReadRow`, `Serve`, `Resolve`, `Store` are a listing and
its cache, keyed by the `updated_at` that was read first. It is explored twice: with
two writers, a lister and a clock for the cache, and as `verify` with three writers, two
changes of the customer's role and two refusals, without the clock, for liveness alone
(`ConnectorIsSound` is proved for any number of each). Two
writes of a row are taken to have different instants where the cache is concerned
(`Distinct`): they are milliseconds, and each is preceded by a preflight of seconds.

* `ConnectorIsSound`: an active connector holds a secret that a preflight has passed
  with; no listing is served that an earlier credential produced.
* `FixedRoleActivates`: once the role stays granted the connector is active for good at
  last, although a refusal still in flight may overwrite a newer pass. Fairness: a
  request goes on, since its preflight has a deadline over the invocation and the reads
  (`preflight.ts:432-442`), and the stream it leaves is released, which is assumed: `finally`
  awaits that without a deadline (line 527). Whoever finds the connector pending verifies
  again.

`Collections`: a pull resolves its credentials and then creates its row, a scan the
other way round. Both then write `running` and await the invocation (`invoking`, left by
`Invoked` or `InvokeFails`); read events to `done`, to a break or to their deadline
(`reading`); await the release of the stream in `finally` (`releasing`, left by `Release`);
and write the end; a request may die. One scan and one pull, two events before the last.

Fairness is of the request's own steps (`Own`), and its deadline is one of them: `Break` is
always possible while it reads. What it waits for from the runtime (`Answer`) is not fair:
the deadline is raced against `iterator.next()` alone (`scans/execute.ts:227`,
`live-metrics/execute.ts:196`), the client has no request timeout (`agentcore.ts:506`), and
`preflight.ts:432-440` races the same invocation because it may never answer. The release
is awaited without one too, and a stream released while a read is outstanding may let go
only when that read is answered.

* `CompleteIsTrue`: complete rows are those the runtime completed, with the snapshot a
  pull cites.
* `RunningEnds`: a running row comes to its end, unless its request dies or stays for ever
  where only the runtime moves it (`AwaitsRuntime`): at the invocation or the release. No
  event, no lack of one, and no failure on the stream keeps a row `running`.

## 9. What is proved

All proofs are for every value of the constants (any number of runs, ticks, tabs,
turns, findings and people, any budgets, limits and bounds), from the named
assumptions of the modules, and from the hypotheses given below where a theorem has
some. `AgentProofs` and `StoresProofs` prove about components that share no state, one
section each. Their theorems are of each component's own behaviours, whatever the others
do, and have its `ConstantsFit` as hypothesis, which `MCAgent` and `MCStores` assume; the
properties are those of `Agent` and `Stores`, which the runs check.

* `ReaperProofs`: `RowsConsistent` of the abstract machine; `TypeCorrectness`,
  `Invariance`, `OneInvocation`, `GateHolds`, `ReapsOnlyOverdue`, `Refinement`. The inductive invariant `Inv` says why:
  locks exclude and what a statement selected stays true of the rows it holds
  (`LocksExclude`); a claimed run has exactly one starter, and while it is being
  started no agent exists for it and only the sweep can have failed it
  (`OneStarter`); nothing is invoked before the claim (`InvokedAfterClaim`).
  `AtMostOneInvocation` alone is not inductive: nothing in it says that the tick
  about to invoke is the only one, or that it has not invoked already.
* `RunCallbacksProofs`: `TypeCorrectness`, `Invariance`, `Agreement`,
  `NoUnprovedCompletion`, `Refinement`. Here the strengthening is
  `TerminalIsTheOutcome`: every request anywhere in the system that presents a
  terminal phase presents the agent's one decision, and the chain never holds
  one. Without it a late `completed` could contradict a `failed`. With every request
  answered in time (`Lossy = FALSE`, the hypothesis of the run `callbacks_reliable`):
  `LineInvariance`, `CallbacksInLine`, `FinishedIsCompleted`, `CountsRise`. Then a request
  holds the row as it is, unless it has ended (`SeenIsCurrent`), and the callbacks that
  are ahead of the row, being sent or in the chain, follow each other phase by phase up to
  the agent's (`InLine`), so that the next to arrive is one the row accepts.
* `SubmissionProofs`: `SubmissionTypes`, `OneRunForOneIntent`,
  `AnswersCoverRequests`, `RevisionsStayWithinHistory`, over an invariant that adds
  that keys differ and that what a caller has counted is at most one ahead of the
  history (`Numbered`); the lemma behind it is that a run adds one to the issues of
  its own preset and month. Under `Straddling = FALSE`, stated as an assumption of
  the theorems: `MonthsClaimedOnce`, `ClaimsAreTraced`. A month's claim is safe
  because the mark on the row only moves forward (`Marked`, `Passed`), which is
  exactly what a straddling tick breaks.
* `RunStreamProofs`: `StreamInvariance`, `StatusShownNeverGoesBack`, `StreamTypes`,
  and the refinement `ConnectionsSayInOrder`. Nothing that
  can still reach the browser is behind what it shows: frames in flight, the
  cursor and answered re-reads all lie between the status shown and the row's, at
  most one re-read reopens, and one asked for at `done` finds the row where it
  ended. For the refinement, each frame in flight may follow the one before it
  (`Orderly`), and the cursor of an open relay stands where the last one leads
  (`CursorFits`).
* `PresetEditorProofs`: `PresetTypes`, `VersionsAlwaysDiffer`, `RevisionKeepsEdits`.
  The strengthening says what a revision is worth: whoever holds the row's own,
  not from a publication, has seen the whole draft.
* `ConversationProofs`: `ConversationTypes`, `CountNeverDisagrees`, `OnlyLateOrphans`,
  `OnlyOneCloses`.
* `StoresProofs`, of `ActionRegister`: `RegisterInvariance`, `ResolvedOnEvidence`,
  `NothingOfFailedSyncs`. The strengthening speaks of rows written and not yet committed
  (`PendingRest`), and rests on the row lock: a row read under it is the row the update
  replaces. `FoundInvariance`, `FoundStaysOpen`: to a sync that met no other, what it read
  as open stays open (`StillAsRead`), since two that are open at once have met
  (`Meeting`) and an edit never resolves; so what it has written for what it found is
  open when it commits (`FoundPending`).
* `StoresProofs`, of the five others. `TeamInvariance`, `TeamSoundness`: whoever holds the
  workspace's row is alone (`HeldAlone`), so what a request was allowed by still holds
  when it writes (`StillAllowed`); without it, two transfers could each pass their check.
  `DeliveryInvariance`, `DeliverySoundness`: while a send goes on, what it has recorded
  bounds what was mailed (`Bounded`), and a row is written once, behind the last message.
  `FeedbackInvariance`, `FeedbackSoundness`: who mails does so for a saved message, and
  who has been answered "sent" has mailed it (`ToldIsMailed`). `MailSoundness` is both.
  `ConnectorInvariance`, `ConnectorSoundness`: a verdict that passed, also one that is
  still to be written over a newer row, is of a secret that passed (`VerdictsAreProven`);
  a listing's credential is no older than the row it read first, and the cache keeps that
  order (`ListsForward`). `CollectionInvariance`, `CompleteOnlyWhenDone`: what a request
  has heard is never better than what the runtime did (`Knows`).
* `AgentProofs`, of `Credential`: `CredentialInvariance`, `CredentialTypes`,
  `AcquisitionsSerialized`, `BurstsCollapse`, `OnlyStarvationHangs`. The invariant says who holds
  each lock (`OneHolder`), that an acquisition exists exactly for the call that awaits it
  (`Asked`), and what the executor's queue holds (`Queues`). `OnlyStarvationHangs` is
  `HangsOnlyStarved`, whatever the number of calls and of workers: where nothing can move,
  no lock has a holder, so every call waits in a queue, behind an acquisition that waits
  for a worker (`UnmovedWaits`), and no worker is free to begin it.
* `AgentProofs`, of `Heartbeat`: `HeartbeatInvariance`, `ClientsAreTold`. A client that
  waits on an empty queue waits for a deadline at most an interval after it asked, and
  the ticker's turn comes at most `Lag` behind its deadline; one that waits on a queue
  that is not empty has had an item no later than an interval and two lags after it asked
  (`ToldSoon`). The third lag is the consumer's own turn. `EventsInOrder`: the queue holds
  exactly what was yielded and not yet given, in order, the end behind it (`InOrder`).
* `AgentProofs`, of `CloudWatch`: `CallsInvariance`, `CallsAccounted`. That the calls of a
  group hold each of its resources once and keep the limit (`CallFacts`) is arithmetic: a
  resource's rank among those that can be asked for, divided by what fits a call, is its
  call, and ranks that share a quotient are no more than the divisor. From there a pair
  is counted by the one call that is behind it.
* `AgentProofs`, of `MetricBatches`: `BatchesInvariance`, `BatchesAccountedFor`. The
  strengthening `PairsHeld` says that no two requests hold one pair and that a request
  holds only pairs that are neither folded nor reported. Every step but the change of
  group takes one request and turns it into requests that share out some of its pairs
  while the rest are folded or reported (`TurnsInto`, `StepOf`), be it halved, split,
  throttled, refused or answered; a group's batches, chunks of its resources crossed with
  sets of metrics that ask for the same aggregations, share out its pairs.
* `AgentProofs`, of `SeriesFold`: `SeriesInvariance`, `AbsencesExplained`. An average that
  was folded at all has a positive count, so that whatever has no statistic had nothing
  to fold and is reported by `FinalizeNothing`. `PairsAreAccounted` is the three together.
  `SeriesIsSummed` is the other half: the invariant `SumsInv` says that every accumulator
  holds the sums and the extremes of exactly the intervals folded so far that belong to it
  (`AddsUp`), whichever these are, so that the order they were folded in leaves no trace.
  `SumOf` takes up the indices one after the other, and its one fact is that a sum grows by
  the interval that is added. That derived values keep their order rests on `LeafFits`,
  summed over the intervals (`Between`).
* `AgentProofs`, of `Periods`: `PeriodsAreSound`. The lemmas before it are about zones. By
  `ZoneFits` the local time at an instant and the instant of a local time are each the offset
  of the latest change that is behind (`Since`, `Read`), a day's first instant is the first
  that is read in it, days do not go back (`DaysGoOn`), and from one midnight to the next
  the offsets fill whole slots of the grain that was chosen for the window (`Filled`).
  `PeriodsInv` adds what a resolved period is of its rule and its instant (`Accepted`), and
  that each month dealt with has the window of that month on the agent's day, which is the
  report's own exactly where it was reused.
* `AgentProofs`, of `TrendSelection`: `TrendIsSound`. The sweep keeps a run for each group of
  overlapping runs it has met. `SweepInv` says, of the runs kept and those left, that nothing
  left starts before what has been swept; that every kept run but the last is the newest of a
  set that nothing outside overlaps (`Stands`); that the last is the newest of the runs that
  nothing before them reaches (`Lead`); and that whatever was dropped hangs together with a
  newer run (`Beaten`). Newer means ending later, before anything else
  (`_overlap_winner`), so the last one kept ends behind everything swept (`LeadEndsLast`),
  and a run that does not overlap it overlaps nothing of its group: this is why one pass that
  compares with the last alone is enough.
* `FiguresSound`: `FiguresAreSound`, from these three.

Three lemmas stand in for the library's induction theorems, which take an operator as a
parameter: `LeastNat` (a set of numbers that is not empty has a least), `Induction` (a set that
holds 0 and the successor of what it holds is all of them) and `Recursion` (what a recursive
function on numbers satisfies). The last proves `Retained` and `SumOf` to be what their
definitions say.

The hypotheses that are not plain types: the resources of a CloudWatch group and the
metrics of a batch's group are named once. The inventory keeps the first of two rows of
one resource (`azure/inventory.py:1125`), and metrics are the keys of a catalog. What zones
and intervals are asked to be is `ZoneFits` and `LeafFits` (section 7); the calendar is any
finite stretch of months that holds the runs' days and those of custom ranges.

Only model-checked is liveness, which is out of the prover's reach, like everything that
speaks of `ENABLED`: `EventuallyTerminal`, `RunAndAgentEnd`,
`DueIsClaimed`, `EndIsShown`, `EndsUnlessStarved`, `CollectionEnds`, `SavedReachesTheTeam`,
`FixedRoleActivates`, `RunningEnds`.

Every invariant and every action property of a run is proved. No module uses a `RECURSIVE`
operator: recursion is by recursive functions on numbers.

## 10. Not modelled

* Token and bearer checks, sign-in, sessions and lockout: access control. Of
  workspaces: projects, the closing day, names, the audit rows.
* Body validation and the construction of payloads: they decide whether a request
  exists, not what it does. The contents of snapshots, figures, documents and mails.
  The progress throttle is a choice to drop or send. A deadline is time left.
* Of delivery: the expiry of a link and the downloads behind it. Of connectors: their
  creation, `disableConnectedSubscription` (`subscriptions/store.ts:945`), which nothing
  calls although `secret/route.ts:97-98` mentions it, and two writes of a row within one
  millisecond, which would let the cache take one for the other.
* Of the cloud collectors: the pages of the inventory, facts, guest counters, and the
  history of a workspace. Of accumulation: the percentile sketches, rounding, and the
  serialization of the snapshot. Compilation, rendering and verification of documents
  beyond the trends, which are sequential and share no state. Where `zoneinfo` and `Intl`
  hold different versions of the zones.
* Of presets: renaming, archiving, duplicating, validation, seeding, and the pinning of
  versions by runs. Of chats: the rate limit, titles, attachments, the runtime's
  answer, the second page of a long thread's deletion. The damage a deletion does
  is bounded by the properties of section 8 but not undone: one that fails halfway
  leaves a thread whose count its messages no longer have, and messages appended
  behind its query outlive the thread.
* Pages, wording, migrations, deployment.

Most of the source is in these parts (definitions of blocks, message catalogues,
the builder's canvas, renderers, views), which is why the map covers a small share
of its lines.

## 11. Where the code and its comments disagree

One run ends in a counterexample. `callbacks_proof`: "no ordering exists in which a
run reports success before its proof is stored" (`runs/state.ts:92-94`) holds from
`verifying` only. If `compiling` is lost, the row stays `collecting`, the later phases
are refused, and `completed` is then accepted along the edge meant for runs with no
template.

The following statements are defined beside the properties and are in no run. With the
configuration named, its own properties replaced by the statement, TLC ends in a
counterexample. (`INV` and `PROP` say whether it is an invariant or a temporal property.)

| statement | configuration | what happens |
|---|---|---|
| `ExpiredQueuedNeverClaimed` | `MCReaper.cfg`, PROP | "a `queued` row past its deadline must be failed rather than claimed" (`claim.ts:296-298`): it expires between the sweep and the claim, or lies beyond `SWEEP_LIMIT` |
| `CountNeverFalls` | `MCRunCallbacksLossy.cfg`, PROP | "the row enforces monotonicity" (`progress.ts:328-330`): the read does, and a late callback read long ago |
| `AnsweredWithItsPreset` | `MCSubmission.cfg`, INV | "distinct requests, distinct keys" (`dedupe.ts:42-44`): the key leaves out the preset, so a second preset of one scope is answered with the first one's run |
| `ClaimedAtItsSlot` | `MCSubmission.cfg`, PROP | "the first run is the next slot still ahead" (`schedules/store.ts:52-53`): a tick that read the schedule before it was saved starts it under its old timing |
| `OneClaimPerMonth` | `MCSubmission.cfg` with `Straddling = TRUE`, `MaxTime = 5`, INV | "a month already claimed is never due again" (`due.ts:8-9`): months are compared for inequality, so a tick that began in the last second of a month writes the old month over the new one's mark |
| `FoundReopens` | `MCActionRegister.cfg`, INV | "one that was resolved reopens" (`action-register/sync.ts`): a sync that read the item open does not reopen one that an overlapping sync resolved |
| `ReopensByItself` | `MCActionRegister.cfg`, PROP | "reopens by itself" (`action-register/store.ts:92`): an edit that read the item before it was resolved sets it open, with the resolving run still cited |
| `EditElsewhereKept` | `MCPresetEditor.cfg`, PROP | "an edit made elsewhere is refused rather than overwritten" (`use-autosave.ts:8-10`): a publication answers with the revision read after its transaction (`report-profiles/[id]/route.ts:285`), which may be another tab's save's; the publishing tab takes it for its own and its next save removes the other's edit |
| `OneRunPerProposal` | `MCConversation.cfg`, INV | "two teammates confirming the same proposal at once enqueue one run between them" (`chat/store.ts:441-442`): the enqueue comes before the conditional close, so two who choose presets of different scopes, or press on either side of a minute, get two runs |
| `NeverStuck` | `MCCredential.cfg`, INV | "a hang that cannot happen" (`credential.py:381-382`): with as many first requests of an audience as the executor has workers, none is left to run the acquisition they wait for (`credential.py:344`). The default executor has `min(32, cpu + 4)` workers, against eight requests at once |
| `FallbackIsFolded` | `MCAgent.cfg`, INV | "archive and fold every per-resource ARM fallback response" (`metrics.py:1250`): a split calls `_handle_fallback` without the `day_fold` it requires (`metrics.py:1124`), which raises `TypeError` and ends the run |
| `UnreachableFoldedNothing` | `MCAgent.cfg`, INV | "so no statistic was collected" (`collect/pipeline.py:566-568`): a location is unreachable by its most recent request alone (`regions.py:426`), although earlier ones were folded; "at most one request per location" (`regions.py:241-243`) is not so |
| `RefusalIsNoGap` | `MCAgent.cfg`, PROP | "treating it as a gap instead ... turns a collectable subscription into `NO_STATISTICS`" (`metrics.py:1026-1028`): a split takes a refusal for an error, and records the gap |
| `EveryEligibleSelected` | `MCAgent.cfg`, INV | "SHALL select every eligible run" (`requirements.md:2008-2010` of reporting-agent-breadth-and-document): loading stops at the lookback before overlaps are resolved (`report_pipeline.py:794`), so an older run that becomes selectable was never loaded |
| `ReplayReproduces` | `MCAgent.cfg`, INV | "a compile is a pure function of (template version, snapshot, prose bundle, historical selection)" (`report_pipeline.py:1927-1928`): a selected snapshot whose read fails is passed over (line 416), in one compile and not in the other |
| `SilentFoldedNothing` | `MCAgent.cfg`, INV | "a refused or unreachable region folds nothing" (`aws/metrics.py:379`): one of a region's calls that fails marks the region (line 411), whose other calls are folded |
| `UnreachableHasNothing` | `MCAgent.cfg`, INV | "so no statistic was collected" (`collect/pipeline.py:566-568`): likewise of AWS, a run whose every region had one failed call ends as unreachable |
| `SomethingIsSaid` | `MCAgent.cfg`, INV | "`folded_intervals` counts the intervals that actually contributed" (`collect/accumulate.py:242`): a metric of extremes counts intervals that hold none, and then has neither a statistic nor `no_samples` |
| `ExcludedHasNoDays` | `MCAgent.cfg`, INV | "a resource already carrying a `deallocated` or `power_state_unknown` gap folds nothing here either" (`collect/dayfold.py:77-79`): nothing passes `excluded` to `DayFold` (`azure/provider.py:692`, `aws/provider.py:630`, `verify/replay.py:317`) |
| `ExcludedIsSilent` | `MCAgent.cfg`, INV | "an excluded pair does not even get the chance to look malformed" (`collect/accumulate.py:282-284`): the screen for missing counts comes first (`azure/metrics.py:631`) |
| `TrendIsPast` | `MCAgent.cfg`, INV | "a window extending into the future is one Azure answers with empty intervals" (`collect/buckets.py:452-453`): an unfinished month is clipped to the end of today, which is ahead |
| `MonthDaysAreWhole` | `MCAgent.cfg`, INV | "at the same grain the period pass uses — one alignment" (`collect/pipeline.py:1688-1689`): the grain fits the offsets of the period, and a month with an offset of half an hour has hours that straddle its midnights |
| `OffsetsAgree` | `MCAgent.cfg`, INV | "the offset in effect on start" (`templates/period.ts:439`) is that of its noon, and the snapshot's that of the window's first instant (`collect/pipeline.py:2101-2105`): on a day that changes its clocks they differ |
| `OwnPointIsThePeriods` | `MCAgent.cfg`, INV | "lets the trend's figure for the report's own month equal the figure printed for the period" (`collect/buckets.py:411-413`): a month to date ends yesterday and its trend's month today, so it is collected again and holds more |
| `AtMostMaxContacts` | `MCStores.cfg`, INV | "a customer has at most ... contacts" (`delivery/store.ts:99`): counted, then inserted, with nothing between to exclude another request |
| `MailedIsRecorded` | `MCStores.cfg`, INV | "approving and sending are one act, recorded" (`delivery/store.ts:29`): the messages go out before the row is inserted (line 224), and their links open nothing if it is not |
| `FailedReachedNobody` | `MCStores.cfg`, INV | a delivery that reads `failed`: a message the provider took may count as refused when its answer is late (`mailtrap.ts:99-101`) |
| `FirstOpeningStays` | `MCStores.cfg`, PROP | `firstOpenedAt` is written as it was read (`delivery/store.ts:278`): two visits that overlap both write it, the later one last |
| `HourlyLimit` | `MCStores.cfg`, INV | "one account sends at most the hourly limit" (`feedback.integration.test.ts:128`): counted, then inserted (`feedback/store.ts:117`) |
| `SentStays` | `MCStores.cfg`, PROP | a row that reads `sent` stays so: the status is updated by id alone, so an attempt that failed may be noted behind one that did not |
| `LatestFinishes` | `MCStores.cfg`, PROP | "the scan is still running. Its counts appear here when it finishes" (`connector-inventory.tsx:90`): the row is created before the credentials are resolved (`scan/route.ts:100`), and an unreadable secret leaves it `queued` |
| `NeverLeftRunning` | `MCStores.cfg`, with `Mortal` either way, PROP | "a failure MUST write the row to `failed` and NEVER leave it `running`" (`scans/execute.ts:150`, `live-metrics/execute.ts:100`). A request that lives leaves it so if the runtime never answers the invocation (`scans/execute.ts:196`, `live-metrics/execute.ts:157`), which no deadline covers, although "a cap that only covered the read would leave a runtime that never answers holding the consultant's browser open indefinitely" (`preflight.ts:153-155`), or if the stream is not released (line 287). So does one that dies, and nothing sweeps these rows |

## 12. What is left

* The composition of `Submission` and `Reaper`, so that a schedule's month is
  followed to a terminal run; today they meet in the assumption that a submitted
  row is `queued` with its deadline.
* Whichever of the statements of section 11 the code is changed to keep becomes a
  property of the run named there.
