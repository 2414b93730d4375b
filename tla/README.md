# Verification of the AI Wall Street flow scorer

TLA+ modules for the program under `src/app/`: an options-flow scanner that ingests
prints from a provider, puts them on a Redis stream, scores them in replicas of a
consumer, stores and broadcasts them, sends alerts, and keeps background jobs
(watchlist monitor, trade journal, labelling and retraining). Every definition is
translated from the source; `PROJECT.json` names the lines of each.

1. Inventory — 2. Plan — 3. Modules — 4. Runs, bounds, fairness — 5. Proofs —
6. Disagreements found — 7. What is not modelled

## 1. Inventory

| Component | State | Operations | Hard part | What makes it correct |
|---|---|---|---|---|
| Durable queue, `core/queue.py` | Redis stream, consumer group, pending entries | `enqueue`, `consume` ("0" then ">"), `ack`, `reclaim_stale` | who owns an entry, redelivery, replicas with different fates | at-least-once: nothing is acknowledged before it was stored and shown |
| Scoring consumer, `pipeline/consumer.py` | buffer, ids to acknowledge, time of the last flush | `handle`, `_flush` = commit, publish, alert, record, ack | a crash between two effects, time tested only after an event | rows, broadcasts, alerts and alert rows in that order; bounded latency |
| Worker, `worker.py` | the asyncio tasks | `gather` | an exception that escapes one task ends the process | — (appears as Crash) |
| Ingest, `pipeline/ingest.py` | none | provider stream to `enqueue` | provider selection, restart | polls only a vendor whose key it has |
| Flow providers, `providers/polygon_flow.py`, `unusual_whales.py` | volume seen per contract, ids seen | poll, test, mark, emit the delta | marks set before the premium is tested, a new trading day, one bad row | no volume reported twice; a burst hidden only by a fallen price or an old mark (which section 6 lists) |
| Rate limiter, `core/ratelimit.py` | tokens, last refill, lock | `acquire` | callers that overtake each other, late wake-ups | budget of every window; no needless sleep |
| Alerts, `alerts/*` | `AlertGate._last`, start time; no state in the rules | `should_alert`, `allow`, `dispatch`, `_record_alert` | mark set before delivery, answers in any order, one gate per process | spacing, quiet start, a true audit row, monotone rules |
| Watchlist monitor, `jobs/watch_monitor.py` | last price, last alert | poll, levels, `_check` | two kinds of message with one cooldown each, failing requests, bars that move with the price | no crossing missed but for the bar of today (section 6), none repeated |
| Journal, `jobs/journal_fill.py`, `api/routes/journal.py` | `JournalEntry` rows, the session's copies | create, delete, fill the follow-up prices | rows deleted under a fill, late bars, one bad ticker | right sessions, written once, resolved in the end |
| Flywheel, `jobs/backfill.py`, `retrain.py`, `nightly.py`, `ml/*` | labels, artifacts on disk, what the scorer loaded of them | label, train, save, hot reload | one failing ticker, half-written artifacts, open sessions | a label for every finished horizon, true but for a session still open (section 6); the scorer ends up with what was trained |
| Scoring, `scoring/*` | none (artifacts are cached) | `build_features`, `score`, `_apply_regime`, `_confidence`, `_label` | thresholds, unknown inputs, many factors that lift or damp | one strong leg cannot trigger; unknown is no evidence; more evidence never takes an alert away |
| Lite pipeline, `pipeline/realtime.py`, `scoring/sequence.py` | rolling windows | take, look up, score, persist, publish, alert | window edges, order of append and evict, a step that fails | signals are those of the flow before the print |
| Context providers, `providers/polygon.py`, `regime.py`, `earnings.py` | TTL caches, one inside the other | look up, fetch, store | stale values, slow fetches | as old as the times to live and the fetches allow, never older |
| Live channel, `core/redis_client.py`, `api/routes/ws.py` | a queue per subscriber | publish, subscribe, unsubscribe | clients that vanish, unbounded queues | a client hears everything from when it joined, in order; queues drain |
| Charts, `analysis/support_resistance.py`, `screener.py` | none | levels, playbook, setup | zones, projections, rounding | stop, entry and target in the right order |
| Views of the stored flow, `api/routes/flow.py`, `scoring/smart_money.py`, `jobs/digest.py`, `ai_scanner.py`, `screener_scan.py` | none (tables and a window of time) | feed, roll-up, leaderboard, shortlists | limits before and after dropping repeats | a list is the top of its day; the views agree on what is bullish |
| Other analysis and reports, `analysis/*`, `alerts/summary.py` | none | trade idea, levels of analysts, text of a language model | external services | — |
| Other routes, `api/routes/*`, `main.py` | requests over the database | read, create, delete | one transaction each | — |
| Database, `db/*` | tables | schema | which columns are unique | — |

How they meet: the ingest process selects a provider and enqueues what it yields; the
stream feeds the replicas of the consumer through one group; a replica writes the
database, publishes on the live channel (which the WebSocket route forwards), asks the
alert rules and its own gate, and calls the dispatcher. The jobs run in the worker
beside the consumer: the monitor reads the watchlist table and sends messages, the
journal job reads and writes rows that the API creates and deletes, the nightly job
labels stored events, trains, and leaves artifacts on disk that the scoring engine
reloads; its reports, like the read API, select from the stored flow. The lite mode puts
provider, scoring, alerts and live channel into one task over an in-memory broker.
Everything runs in asyncio tasks: a task is sequential, other tasks and processes
interleave at every `await`.

`PROJECT.json` lists the hazards of this code with the line where each bites and the
property that watches it.

## 2. Plan

Order: what loses or repeats data first, then what is silently wrong, then pure
algorithms.

| # | Modules | Subject | State |
|---|---|---|---|
| 1 | `AtLeastOnce`, `ScoringConsumer`, `_proofs` | consumer group, replicas, crash; refinement of an abstract at-least-once queue | checked, proved |
| 2 | `TokenBucket`, `Providers_proofs` | rate limiter | checked, proved |
| 3 | `AlertGate`, `_proofs` | gate, dispatch, audit | checked, proved |
| 4 | `WatchMonitor`, `_proofs` | watchlist monitor | checked, proved |
| 5 | `JournalFill`, `_proofs` | journal rows under the API and the job | checked, proved |
| 6 | `FlowIngest`, `Providers_proofs` | provider selection, polls and marks | checked, proved |
| 7 | `Normalize`, `Scoring`, `AlertRules`, `ScoredAlerts`, `_proofs` | from a print to the alert decision | checked, proved |
| 8 | `Flywheel`, `Nightly_proofs` | labels, training, artifacts, hot reload | checked; labels proved |
| 9 | `Trackers`, `LiveFeed`, `LitePipeline`, `_proofs` | the lite mode: trackers, caches, gate, live channel; refinement of the live feed | checked; signals, caches and live feed proved |
| 10 | `Charts`, `Tape`, `Nightly_proofs` | what is read off charts and off the stored flow | checked, proved |

What composes what: `LitePipeline` extends `Trackers` and instantiates `AlertGate` (this
process as the only replica) and `LiveFeed` (as what it implements); `ScoredAlerts`
extends `AlertRules` and `Scoring`, and turns what `Scoring` says into the event
`AlertRules` decides on; `ScoringConsumer` instantiates `AtLeastOnce`; `Scoring`,
`Trackers`, `Charts` and `Tape` use the arithmetic of `Normalize`.

Every safety property of a passing run is a theorem, except `StrongerStillAlerts` for
scored prints (section 5). What could be added next is in section 7: the recovery of
pending entries beyond a replica's start, and the parts that are only text or library code.

## 3. Modules

**`ScoringConsumer`** (`core/queue.py`, `pipeline/consumer.py`). The state is the
stream (`produced`), the group (`lastDelivered`, `pel`, `stale`, `deliveries`), the
outside (`rows`, `published`, `alerted`, `audit`, `dropped`) and, per replica, its
program counter and memory (`cursor` = `backlog_id`, `inbox`, `buf`, `pendingIds`,
`written`). `run()` is `ReclaimStale`, `HandleReclaimed`*, then `ReadBacklog` /
`ReadNew` and `Handle` or `HandleFailed` for each event; `_flush()` is `WriteBatch`,
then `Publish`, `Dispatch`, `RecordAlert` per row, then `AckBatch`. There is a step
boundary at every await to Redis or the database, so that a `Crash` falls between any
two. An error of Redis or the database escapes `run()`, which is such a crash. Two
differences between loops in the code are kept: the recovery loop has no `try` and
does not look at the flush conditions.
Abstracted: the event is its stream id, scoring returns or raises, the 60 s idle time
is a set of stale entries, the flush interval has elapsed or not, the gate answers
either way (it is the subject of `AlertGate`), the MAXLEN of the stream is not reached.

**`AtLeastOnce`**. What queue and replicas promise together: events are sent, stored,
shown, given up and settled; settled only once stored and shown, or given up.
`ScoringConsumer` implements it with `settled` = delivered and no longer pending.

**`AlertGate`** (`alerts/base.py`, `_flush`, `_record_alert`). One gate per replica
run (`started`, `last`). `Ask` is `allow()`: grace period first, then the cooldown, and
the mark is set at once. `Send` is the answer of one channel, in any order; an error
may or may not have delivered the message. `Record` stores the answers. `Stop` may
fall in the middle of a dispatch, `Start` begins with an empty gate.

**`TokenBucket`** (`core/ratelimit.py`). One round of `acquire()`'s loop is one step,
because nothing is awaited between taking and releasing the lock. `Take` or `Sleep`;
`Wake` at the end of the sleep or any time later. Tokens are divided into grains, time
into ticks, and the arithmetic is exact where the code uses floating point.
A caller that sleeps is overtaken by any other: the model has no queue, as the code
has none.

**`WatchMonitor`** (`jobs/watch_monitor.py`, two levels of `analysis/technicals.py`,
watchlist routes). `StartCycle` reads the table, `ReadPrice` takes the price and moves
the baseline, `FetchLevels` collects the levels of chart and analyst, and `CheckLevel`
compares the next of them and tells of it, one level per step, since each message is
awaited and the marks of one level are seen by the next. `lastAlert` has the code's keys
taken apart into ticker, level and kind of message. The market moves between any two
steps. The daily bars end yesterday until the bar of today comes up (`live`), and from then on
follow the price, as `technicals.py` asks for bars up to now. `shown` remembers the levels
of the chart at the reading before, for the properties. `PriceFails`, the chart half of
`FetchLevels` and `LevelsFail` are the failing requests; the last ends the cycle.

**`JournalFill`** (`jobs/journal_fill.py`, journal routes). A price is represented by
where it comes from: a quote by its time, an open or close by its session.
`Select` copies the unfilled rows into a session, `Quote` and `Bars` are the halves of
`_fill_one` around its second await, `BarsFail` is the exception `run_once` catches,
`Commit` writes everything that is dirty in one transaction and rolls back when a
dirty row was deleted meanwhile. The API creates and deletes in between.

**`FlowIngest`** (`pipeline/ingest.py`, both providers). Vendors: `Trade`, `NewDay`,
`List`. Process: `Start` selects the feed, `Crash` forgets the marks, `Refused` is
the 401 or 403 that turns Polygon into made-up prints. A poll (`PollContracts`,
`FetchAlerts`) fills a batch, and each row is converted in a step of its own,
because `enqueue` is awaited between rows. A row that raises ends the poll. A
failing poll is a stutter. Every trade has a size and a price; a row has the volume of
the day and the price of the last trade, and `BigEnough` multiplies what came since the
mark by that price, after the mark was set. The event carries the range of volume it
stands for. A snapshot is the head of some ranking of the contracts by volume
(`Rankings`, `Snapshots`): which of two equals comes first is left open. Only the
contracts of the first pages are ranked (`Paged`, for `polygon_flow_max_pages`): what
lies behind them is never seen, however much it trades. `burst`, `checked` and `carried`
are history: the last big trade of a contract, what was looked at, and the mark that is
of an earlier day.

**`Normalize`** (`scoring/normalize.py`). `clamp`, `ramp` and the soft AND (a geometric
mean: the cube root is the largest integer whose cube does not exceed the product) per
mille, rounded down where the code has floating point.

**`Scoring`** (`scoring/features.py`, `engine.py`, `regime.py`, `classifier.py`). One
operator per component score, then the damping, the two probabilities, the regime's
multipliers, the confidence and the label. A print is a record of its evidence; absent
evidence is what `MarketContext` and `FlowEvent` default to. Weights and thresholds are
those of the code; the parts that only word reasons are left out.

**`AlertRules`** (`should_alert`). No state in the code: behaviours start at any event
under any settings, and a step makes the event stronger in one measure, which turns
monotonicity into an action property. A measure matters only through the one threshold
it is compared with, so it is below, at or above it.

**`ScoredAlerts`** (`classify()` and `should_alert()` together). The event is what
`Scoring` makes of a print, and a step gives the print more evidence of one kind. Where
the code itself takes more of something for a sign of a hedge (premium or attention on
a print that looks passive, `Ambiguous`), or of noise, the evidence is part of the print
from the start and is not a step.

**`Trackers`** (`SweepTracker`, `IVRankTracker`, `FollowThroughTracker` of
`realtime.py`, `SequenceTracker` of `sequence.py`). The four windows as sequences of
timed entries, with the code's order of append, evict and answer: some count the print
itself, some answer from what came before it.

**`LitePipeline`** (`realtime.py`, `redis_client.py`, `ws.py`, the caches of
`polygon.py`, `earnings.py`, `regime.py`). `stage` is where `process()` is:
`Take`, the three look-ups with their fetches (`FetchEnds`, time passes meanwhile),
`Priors`, `Score`, `Persist`, `Announce`, and the alert through `AlertGate`. `Priors`,
`Persist` and `RecordFails` may raise: `Abandon` is the `except` of `run()`. The mode
has one task, so nothing else touches the caches. Clients `Subscribe`, `HangUp`, are
served (`Serve`) and removed (`Unsubscribe`); that one is gone is noticed when
something is sent to it, as in the code. Which prints qualify for an alert is a
constant (the rules are the subject of `ScoredAlerts`). One ticker (`OneTicker`):
caches are per ticker.

**`LiveFeed`**. What a listener is promised: everything published after it joined, in
order, nothing twice, until its connection ends.

**`Flywheel`** (`backfill.py`, `labeling.py`, `retrain.py`, `nightly.py`, the hot reload
of `classifier.py` and `priors.py`, `PriceHistoryProvider`). A day has two times, its
session open and closed. `StartRun` selects the unlabelled prints past the cutoff,
`Fetch` labels those of one ticker in the session, `Commit`, `LoadFrame` (which gives up
on too few rows or positives), and per artifact `BeginSave` and `EndSave`: between them
the file is a part of itself. `Break` is a failing request or a dying job, `Restart` a
dying scorer; `CheckFile` is its look at the file's time.

**`Charts`** (`support_resistance.py`, `screener.py`). Operators on one sequence of
bars: swings, tolerance, zones, the 52-week extremes, the levels per side, the four
plays, and the screener's proximity, score, label and trade. Prices are in cents and
rounded as in the code. How an indicator is computed is left out: `Readings` are what
they may say.

**`Tape`** (`routes/flow.py`, `smart_money.py`, `digest.py`, `ai_scanner.py`,
`screener_scan.py`). The stored prints in order, and the start of the window of time;
every view is an operator on them, with its filter, grouping, order and limit. The
inflection points of the smart-money score are in units of 250 000 dollars, and its
logistic term is replaced by a rising table of it. `Setups` stands for what `Charts`
scores.

MC modules give values to constants. Three of them put parts together that share no
variable: `MCStoredFlow` (`ScoringConsumer`, `Charts`, `Tape`), `MCAlerts` (`ScoredAlerts`,
`AlertGate`) and `MCWatchMonitor` (`WatchMonitor`, `TokenBucket`). No property relates these
parts, so the run explores them one at a time, each beside an initial state of the others:
all behaviours of each, and no product of them.

## 4. Runs, bounds, fairness

| Run | Question | Result |
|---|---|---|
| `stored_flow` | Are the group and its replicas an at-least-once queue, whatever crashes and whoever reclaims, and does a running replica get to every event? | `NoAckedEventLost`, `LiveHoldsItsPending`, `RowsPerDelivery`, `SeenInOrder`, `UnauditedOnlyByCrash`, the refinement and `EventuallyDelivered` hold |
| | Of what is read off stored prints and charts: do trades point the right way, are shortlists the top, does a strong print ever demote its ticker? | `TradesPointTheRightWay`, `ShortlistIsTheTop`, `StrongPrintNeverDemotes` hold |
| `consumer_quiet_stream` | Is the latency of a handled event bounded? | no: `BufferIsFlushed` is violated |
| `alerts` | Does one leg trigger, does not knowing count against a print, does more evidence take an alert away? | no, no, no: `OneLegIsNotEnough`, `UnknownIsNoEvidence`, `StrongerStillAlerts` hold |
| | Spacing, grace, cause of silence, audit | `ApartInOneRun`, `QuietAfterStart`, `SilencedByAnAlert`, `AuditIsTrue` hold |
| `watch_monitor` | Is every crossing announced, none repeated, and what hides one? | `AnalystCrossingAnnounced`, `SpacedMessages` hold; only today's bar hides a crossing of a chart level (`OnlyTodaysBarHides`) |
| | Budget of every window; needless sleep | `WindowBudget`, `NoNeedlessSleep` hold |
| `watch_todays_bar` | Is every crossing of a chart level announced? | no: `ChartCrossingAnnounced` is violated |
| `journal_fill` | Sessions neither too early nor too late, written once, resolved in the end | `RightSessions`, `WrittenOnce`, `EveryIdeaResolved` hold |
| `journal_third_session` | Is the last price of about the third session? | no: `AboutThreeSessions` is violated |
| `flow_ingest` | Is volume reported once per run, what hides a big trade that was looked at, and do bad rows keep an alert from the stream? | `ReportedOncePerRun` holds; only a fall of the price or a mark of an earlier day hides one (`BurstsAreReported`); no: `AlertsGetThrough` holds |
| `flow_next_day` | Is every burst reported? | no: `EveryBurstReported` is violated |
| `flywheel` | Which labels may be wrong; are they written for every finished horizon, and served once trained? | `OnlyOpenSessionsMislead`, `EveryHorizonLabelled`, `LatestIsServed` hold |
| `flywheel_open_session` | Is a label what the closes of its horizon say? | no: `LabelsHold` is violated |
| `lite_pipeline` | Do trackers and broker give what the scorer and the clients rely on, and how old may what the scorer uses be? | `SignalsFromArrivals`, `ImplementsLiveFeed`, `QueuesDrain`, `ContextFresh`, `EarningsFresh`, `RegimeFresh` hold |

Bounds, and why they are enough:

- `stored_flow`, the consumer: two events, two replicas, batch and reclaim size 1 for 50
  and 100, buffer size 2 for 50. So two pending entries are a backlog of more than one
  read, the buffer outlives a batch, and a reclaim does not get all; one event may be
  refused and one may alert; one crash makes redelivery, and a reclaim while the owner
  still runs makes a second one without a crash. The theorems remove these bounds.
- `stored_flow`, the views: charts of up to five bars out of five (a stock at a hundred
  dollars) or four (below a dollar), swing window 1, a year of four bars; tapes of up to
  four prints of three tickers with limits of one to three, so that every limit is
  exceeded, and a window that leaves prints behind. The theorems remove these bounds too.
- `alerts`, the rules: every event under every setting, three levels per measure; and under
  the default settings every print with two levels of nine kinds of evidence (three for
  the company), four sides, two contract structures and four markets. The levels lie
  on both sides of the thresholds of the components. Companies are ordered from a big,
  unshorted one over one whose float is not known to a squeezed one: a big float is a
  sign of a hedge, so that knowing it may weaken a put near the money.
- `alerts`, the gate: one replica started twice. Gates of different replicas share nothing,
  so a second replica would add interleavings and no behaviour; the clock leaves room
  for a grace period and a cooldown after each start.
- `watch_monitor`: five prices with levels at the rim and in the middle, a level that
  is both chart's and analyst's, four cycles and a cooldown of three: a crossing can
  happen before, in and after the cooldown, with the bar of today or before it. Tickers
  do not share state, except that a failure ends the cycle, so one ticker is enough for
  the properties stated. The rate limiter has three callers with costs that find the
  bucket empty, short by one or two grains, and with a wait that is rounded up.
- `journal_fill`: a week of four sessions around a weekend, entries on Thursday or
  Friday, two rows of which one never gets bars, one failing request or crash.
  A day is one tick, so that an entry and the job's pass may fall on any day.
- `flow_ingest`: a contract that is unusual from a volume of three on, in trades of one
  and two contracts at two prices, so that a trade is big at one price and not at the
  other, small ones add up, and volume is marked and refused; one without open interest
  that cannot be converted, and one that the pages do not reach; three alerts of which two
  are listed and one is broken; two days and two starts; every selection of provider and
  key that leads to a different feed.
- `flywheel`: Thursday to Thursday over a weekend, three prints of two tickers, a horizon
  of two sessions and a look-back of seven days; closes that hit the target, the stop
  and then the target, or neither, and a ticker that stops trading. One fault, which
  may be a failing request, a job that dies between any two steps, or a restart of the
  scorer.
- `lite_pipeline`: three prints of two contracts of one ticker, in any order, one of
  which alerts; windows of one and two ticks and two entries; one abandoned print; one
  start and crash; one client. Clients share nothing but the publisher. The times to live
  are three, two and one tick, in the order of those of the code, fetches take at most one
  tick, and the clock runs to nine, past the greatest age that is allowed (seven, of the
  earnings). Each of the three bounds is reached: with one tick less it is violated. Only
  the caches need so long a clock: from the fourth tick on (`FeedTime`) the run follows
  the behaviours in which nobody connected, no alert went out and nothing failed
  (`FocusedSpec`). Until then everything happens, and that is long enough for eviction by
  age and by number, and for the cooldown.

The runs that show a violation use the smallest instance that has it, and the code as it is:
nothing in them is configured against the program.

Fairness. `WF(Work(c))` for the consumer: asyncio runs a task that is not waiting, and
Redis and the database answer or the process dies (`Crash`, which is not fair; and
neither is the start of a process, so that no property relies on a restart). `JournalFill` takes
weak fairness of the clock, of the publication of bars and of the job's loop, which
sleeps and repeats for ever; failures are bounded (`MaxOutages`), which says that
requests succeed in the end. `FlowIngest` takes weak fairness of the polling loop,
which means that polls do not fail for ever. `Flywheel` takes weak fairness of the clock,
of a run that has begun, and of the scorer's look at each file (it looks whenever a
print is scored after its interval, and prints keep coming). `LitePipeline` takes weak
fairness of the coroutines that serve and remove a client, which the event loop runs when
their queue has something. Nothing is fair about users, clients, markets, crashes or
alerts.

Each property has a mutant in `PROJECT.json`: a plausible mistake in one mapped
definition (named `Mutant_...` beside it) that violates it.

## 5. Proofs

`ScoringConsumer_proofs` proves, for every set of replicas, any number of events and
crashes, any batch, buffer and reclaim size and any sets of refused and alertable
events (`ConstantsAssumption`):

- `TypeCorrect`: `Spec => []TypeOK`.
- `NothingLost`: `Spec => []NoAckedEventLost`.
- `RefinesAtLeastOnce`: `Spec => ImplementsAtLeastOnce`.

`NoAckedEventLost` is not inductive: an ack step needs to know that the ids in
`pendingIds` were committed and broadcast, which depends on where in `_flush()` the
replica is. `IInv` adds (a) `HeldIsDelivered`: what is pending or held by a process was
delivered, so a settled id is not one that was never handed out; (b)
`BufferMatchesPending`: outside `_flush()` the ids to acknowledge are exactly those in
the buffer, inside it the buffer is empty; (c) `FlushProgress`: inside `_flush()` the
ids to acknowledge are stored, and those not yet broadcast are still in `written`. One
lemma per action shows that `IInv` is preserved; lemmas about `First`, `Occurrences`
and the range of a sequence carry the data. The refinement maps `WriteBatch` to
`Store`, `Publish` to `Show`, `AckBatch` to `Settle`, `HandleFailed` to `GiveUp`,
`Enqueue` to `Send`, and everything else to a stutter.

Three more invariants are inductive together with `IInv`:

- `EffectsInOrder` and `AlertsAreAudited`: `Spec => []SeenInOrder` and
  `Spec => []UnauditedOnlyByCrash`, with `EffectsInv` (the alert whose row is being
  written was sent). A step that has no effect outside and moves no process into or out
  of "record" keeps it (`QuietStep`); the steps of `_flush()` and the crash have a lemma
  each.
- `NothingForgotten`: `Spec => []LiveHoldsItsPending`, with `BacklogInv` (a process that
  reads has empty hands). The switch from "0" to ">" rests on `ShortAnswerIsAll`: an
  answer shorter than asked for leaves nothing out, by the least id it would leave out
  (`LeastExists`, from the well-foundedness of the naturals).

- `EveryRowHasItsDelivery`: `Spec => []RowsPerDelivery`, with `DeliveryInv`. The property
  counts the copies of an event that are still on their way (`Copies`: places in the
  inboxes and buffers) as a finite set, together with the stored rows; so a lemma says by
  how much each action changes that set, and `PlacesAreOccurrences` says that the copies in
  a buffer are as many as `_flush()` turns into rows.

`Providers_proofs` proves about `TokenBucket`, for any callers, costs, rate and capacity
(`BucketAssumption`):

- `BucketTypeCorrect`: the bucket is never overdrawn or overfull.
- `WindowIsBounded`: `Spec => []WindowBudget`, with `WindowInv` (what the bucket holds
  counts against the window from its first refill in it).
- `SleepIsNeeded`: `Spec => []NoNeedlessSleep`, with `SleepInv` (at no time before it
  wakes will the bucket hold enough for a sleeper, if nobody takes anything).

`AlertGate_proofs` proves the properties of the gate in `alerts`, for any replicas, contracts,
channels, grace period and cooldown (`GateAssumption`): `GateTypeCorrect`,
`AlertsAreApart`, `GraceIsQuiet`, `SilenceHasACause`, `TableIsTrue`. That two
messages of a run are apart says nothing about the marks, by which the gate
decides; `MarkInv` relates the two: a mark is as new as anything heard in the run about
the contract, and what is older is older by a cooldown. `RunInv` separates the runs
(a start number that was never heard of), `RecordInv` says that only the alert in
flight has a mark without a row, and `AnswerInv` that the answers collected so far are
true of it.

`WatchMonitor_proofs` proves, for any tickers, prices, swings, levels, approach band and
cooldown (`MonitorAssumption`: levels are prices): `MonitorTypes`; `MessagesAreSpaced`;
`AnalystLevelsAreAnnounced`; and `ChartLevelsAreAnnounced`: `Spec => OnlyTodaysBarHides`,
for all bars, those of today included. `MonitorInv` relates the marks, by which the
monitor decides, to the messages (`MarksInv`: a mark is the cycle of the last message about
its key, and every mark has one), says how far the loop got (`LoopInv`) and that the levels
it has passed are announced or cooled down (`ComparedInv`), that it runs over the analyst's
levels (`AnalystsAreThere`), and that bars which end yesterday do not move under it
(`ChartsStand`): so a level that was shown is listed, unless the bar of today came up.

`JournalFill_proofs` proves, for any calendar of sessions, any rows, waits and failing
requests (`JournalAssumption`): `JournalTypes`,
`PricesAreOfTheRightSessions`, `IdeasAreMeasuredAlike` and `PricesAreFinal`. The first two of the
prices follow from what `_fill_one` aims at (`OfItsSessions`: the first session after the
entry, and the first from three calendar days after it on). That is not what the
properties say: `AtMostThree` shows that no more than three sessions lie between entry and
last price, and a later idea is measured in no earlier session, whenever the job saw either,
because the first session from a later day on is no earlier one. The last is an action
property about the table, but the job writes copies it read before: `SessionInv` says that
the copy of a row that still exists has all prices of that row (`Extends`), and that those
it adds are of the right sessions. That rests on bars being published in order (the first
session after a day is known once a later day is).

`Providers_proofs` proves about `FlowIngest`, for any contracts, trades, prices,
thresholds, pages, depth and selection of feeds (`IngestAssumption`): `IngestTypes`,
`NothingIsReportedTwice` and `NoBurstIsLost`.
`ReportInv` adds what is in hand (`InHand`) and that the marks are above everything this
run reported (`MarksCover`). For the bursts `BurstInv` says
what the marks are (`MarksOfToday`: what was looked at today once that is unusual and above
the mark of the days before, and that one until then), that a volume seen before the last
big trade lies at least such a trade below it (`Clear`), that this trade was worth the
minimum at every price since (`Worth`), and that the rows in hand are of one poll
(`RowsInHand`): so the size gate cannot swallow it. That is so for all days and prices;
the two things that do hide a burst are in the statement, and `EveryBurstReported`, which
does not allow for them, fails (section 6).

`LitePipeline_proofs` proves, for any prints, clients, caches, windows and times
(`LiteAssumption`, `TrackersAssumption`):

- `SignalsAreFromScratch`: `Spec => []SignalsFromArrivals`. Each window is shown to be the
  newest of the arrivals it is kept of, cut off where they are too old or too many
  (`SignalsInv`): appending keeps that, and evicting from the front of what is in order of
  time removes exactly what is too old. So what a tracker answers from its window is what
  counting all arrivals from scratch gives.
- `ContextIsFresh`: `Spec => [](ContextFresh /\ EarningsFresh /\ RegimeFresh)`, by an age
  for every stage of `process()` (`FreshByStage`) and for every entry of the caches
  (`EntriesFresh`), as the context that is cached contains earnings that were cached.
- `RefinesLiveFeed`. `ClientsInv` says that what a connected client got and what waits in
  its queue are together what was published since it joined. The feed's own bound on the
  number of flows is met because a print is recorded at most once in a run
  (`ArrivalsInv`).

`ScoredAlerts_proofs` is about every print there may be (`Prints`), not only those made of
the evidence of the run; `ScoredAssumption` says that the evidence a behaviour adds is of
its type, and `RulesAssumption` that the absent vector is no vector.

- `OneLegNeverTriggers`: `ScoredSpec => []OneLegIsNotEnough`. An explosion of 0.7 after a
  regime that lifts by at most 1.12 was 0.625 before (`ScaledNeeds`); damping and boost only
  lower the geometric mean of the legs; and a mean of 0.625 needs 0.24 of each
  (`SoftAndNeedsAll`: the cube of 0.625 is 0.244, were the other two legs full).
- `UnknownIsNotHeldAgainst`: `ScoredSpec => []UnknownIsNoEvidence`. Of two prints that
  differ in the side only (`LessBought`), the components move one way (`ComponentsGrow`),
  so do the probabilities (`ProbsGrow`), the confidence (`ConfidenceGrows`), the label
  (`ScoreGrows`) and the alert (`AlertsGrow`). Each step is a lemma on the monotonicity of
  an operator of `Normalize` or `Scoring`.
- `RulesAreMonotone`: `RulesSpec => StrongerStillAlerts`, for the events of `AlertRules`.
  With prints (`ScoredSpec`) the property depends on what evidence the constants offer as
  "more", and stays with TLC.

`Nightly_proofs` is about what the jobs and the read API make of what is stored:

- `LabelsAreTrue`: `Spec => []OnlyOpenSessionsMislead` of `Flywheel`, for any closes, prints, horizon and
  look-back (`FlywheelAssumption`: a path is the closes of finitely many days).
  The label is computed from a filtered enumeration of sessions; `DayOf` names the k-th day
  of a finite set, and lemmas say that the first touch in the enumeration is the first in
  time. `LabelsInv` adds that what is fetched but not committed is as true as what is
  committed, and `HoldsLater` that a later session does not make a true label false.
- `ShortlistsAreTheTop`: `TapeSpec => []ShortlistIsTheTop`, for any prints, limits and
  thresholds (`TapeAssumption`). A listing is the enumeration of a finite, strictly ordered
  set by place (`Place`, `Nth`); the first of every key keeps that order, and the first
  tickers of the first contracts are the first tickers (`FirstsNested`), which is why
  digest and AI scan agree although one drops repeated contracts and the other tickers.
- `StrongPrintsPromote`: `TapeSpec => StrongPrintNeverDemotes`. One more value that is not
  below a weighted mean does not lower it (`MeanHolds`), one not above an average does not
  raise it (`AverageHolds`), and a share grows with its part and its whole (`ShareGrows`),
  all rounded down as computed; so no part of the score falls (`ScoreGrows`). The others
  keep their score, their row and their flow, so those ahead become no more. For the AI scan,
  `ScanReaches` says without the listing when a ticker is written up: one of its rows is
  within the limit and behind rows of few other tickers. After the step that is so of the
  old row or of the new one, whichever comes first. `TapeInv` adds that the window does not
  begin after the end of the tape.
- `TradesAreRight`: `ChartSpec => []TradesPointTheRightWay`, for any bars whose close is
  between a positive low and the high, and any lengths and windows (`ChartAssumption`). A
  level is a rounded weighted mean of its zone and so within it (`WeightedSum`,
  `RoundedMean`); zones are disjoint, so levels have prices of their own and their ranking is
  total (`ZonesApart`, `RankedIs`); the buffers are at least half a cent above $1.25; and
  without a level above, the highest bar is itself a swing (`BlueSky`).

The sums of `Charts` and `Tape` (`MapThenSumSet`) are recursive over finite sets, and an
induction theorem of the library takes an operator, which the provers cannot instantiate.
`LeastSubset` replaces it: of the subsets of which a claim fails, one has no such part, and
taking a member out of it is a contradiction.

The bounds (`MaxTime`, `MaxEvents`, `MaxCrashes`, `MaxBoots`, `MaxCycles`, `MaxDay`,
`MaxOutages`, `MaxFaults`) are constants of the theorems, which hold for all their values.

Only model-checked:

- Liveness (`EventuallyDelivered`, `EveryIdeaResolved`, `AlertsGetThrough`,
  `EveryHorizonLabelled`, `LatestIsServed`, `QueuesDrain`), which is out of the prover's
  reach.
- `StrongerStillAlerts` for scored prints, as said above.

The type invariants of `AlertGate`, `JournalFill`, `WatchMonitor` (proved) and of
`LitePipeline` are in no run: they say least of what these runs ask. `MeasuredAlike` (proved) is in no run either: it is about two
ideas that are both filled, and `journal_fill` gives one of its two tickers no bars.

## 6. Disagreements found

With a run that shows the behaviour:

- **A quiet stream holds events back** (`consumer_quiet_stream`). "bound alert latency"
  (`consumer.py:36`) is tested only after an event came out of `consume()`, which
  yields nothing while the stream is empty.
- **A breakout level moves away from the price** (`watch_todays_bar`). "pings you when its
  price crosses a key level" (`watch_monitor.py:3-5`). The daily bars are fetched up to now
  (`technicals.py:111-114`); once the bar of today is among them, the level just crossed is
  behind the last close and no longer among those compared.
- **Yesterday's volume hides today's** (`flow_next_day`). "emit a normalised FlowEvent per
  fresh burst of volume" (`polygon_flow.py:7`). The marks are never reset, while the volume
  starts at zero every day.
- **"~3 sessions later" may be one** (`journal_third_session`). `journal_fill.py:4-5`; the code
  takes the first session from three *calendar* days on: for an idea of a Friday that is
  Monday, the same session as its next close.
- **A label of an open session** (`flywheel_open_session`). "whose horizon has fully elapsed"
  (`backfill.py:55`). The cutoff counts calendar days from the time of the print: on the day
  a horizon ends, a run before the close labels it by the price so far, for good.

To be seen by a change of a configuration:

- **Only a starting replica re-claims.** README:273-274 and `consumer.py:154`:
  `reclaim_stale` runs once, at the start. Check `DeadEntriesReclaimed` in
  `consumer_quiet_stream.cfg` with `MaxCrashes = 1`.
- **A falling price hides a burst** (`polygon_flow.py:7`, as above). The mark is set before
  the premium is tested (`polygon_flow.py:140`), and the premium takes the price of the
  last trade: a trade that was big enough is refused at a lower price, and being marked
  never comes again. Check `EveryBurstReported` in `flow_next_day.cfg` with `MaxDay = 1`,
  prices 1 and 2, trades of one and two contracts and a volume of three.

Noticed while modelling, without a run:

- `ratelimit.py:5-6` says `acquire()` is "fair (FIFO via the event loop)". A caller
  that sleeps has given up the lock; one that comes later may take the token first.
- `config.py:99` says "don't re-alert a contract for 6h". The gate lives in the memory
  of one replica: another replica, or a restart after its grace period, alerts again.
- `config.py:74` says "Only alert on out-of-the-money calls". A call in the money
  alerts through the unusual-activity gate, which does not look at moneyness.
- `queue.py:4-5` says "each event delivered once". An entry idle for 60 s with a
  replica that is merely slow is claimed by one that starts: it is stored twice
  without any crash (`RowsPerDelivery` accounts for it).
- `config.py:125-127` promises the heads-up "before it actually crosses". A price that
  jumped over the level into the band beyond it gets it too, if the crossing itself
  is cooled down; the guard is the position before, not the side.
- `watch_monitor.py:80` advances the baseline before the levels are fetched: when the
  database fails in between, that crossing is never compared again. A ticker that is
  removed and added again is compared with its last price from before.
- The intraday snapshot of the journal ("+N hours, same day",
  `models.py:202`) is whatever quote comes first after the wait, if need be on a later
  day, and a row whose third day is filled is not visited again to take it.
- `digest.py:27` promises the "Top-N unusual opening setups in the window, deduped per
  contract". The 200 largest prints are taken (line 38) before repeated contracts are
  dropped: a day with one contract printed 200 times has a digest of one setup.
  `ShortlistIsTheTop` allows for it and for no other omission.
- `ingest.py:29` maps `synthetic` to the Unusual Whales provider, which polls the
  vendor when a key is set.
- `support_resistance.py:220-223` says that breakout and breakdown trades "stop on a failed
  move (a tight buffer back inside the level), not at the far next level". The stop is
  a buffer beyond the *whole zone*: under a wide zone it is further away than the
  nearest support. The target of a breakdown, `trig - (r1 - trig)` (line 263), is zero
  or negative when the resistance is twice the support or more.
- `screener_scan.py:29-31` says the boost is "capped so flow can't fully override the
  technical read". Line 80 sorts by the flow flag first: any setup with flow comes
  before every setup without, whatever the scores.
- `screener.py` calls a setup imminent by a proximity that fades "by ~15%"; a 52-week high
  that is no swing high (it lies at the rim of the year) adds its bonus to a ceiling
  further off, so imminent reaches to 7.5 % (7.51 % where the score is rounded up) and
  not to the 6 % the comment names.
- A ticker without further bars (`backfill.py`) stays unlabelled for ever.
- `polygon_flow.py:98-100` pages through the chain "to surface the *most active* contracts". A
  chain longer than `polygon_flow_max_pages` is cut before it is ranked by volume, so that
  its busiest contract may never be looked at.
- `retrain.py:66` orders the frame by row, and `train()` splits it as if it were ordered
  by time; rows stored late (a redelivery) are then on the wrong side.
- The engine is built without a calibrator (`engine.py:70`), so the one `retrain()` writes
  has no reader, like the classifier `ml/inference.py` would load; the weights that
  make up `base` (`engine.py:275-282`) have no effect on a score.
- The artifacts are written in place: a scorer may read a part of one, which raises in
  the print it is scoring; a crash leaves the part there until the next night.
- `realtime.py:258`: in the lite mode a print whose processing fails is not tried again,
  while the trackers have counted it and the provider will not list it again.

## 7. What is not modelled, and why

- `analysis/llm_analyst.py`, `glossary.py`, `trade_idea.py`, `analyst_levels.py`,
  `alerts/summary.py`, `links.py`: text, and prompts to an external model, assembled from
  what other parts own.
- `analysis/levels.py` (the block of the dashboard, one more reading of the bars), the
  routes for positions, journal statistics, alerts and the analysis page: queries and
  writes of single rows, one transaction each.
- The dashboard, schema and migrations: declarations. The constraints that matter appear
  in the models that write.
- The similarity query, calibration and training: numerics of libraries; and the
  indicators (RSI, MACD, Bollinger width, moving averages), which enter as readings.
- `backtest/engine.py`: a sequential replay without state.
- Trimming of the stream (MAXLEN): a million entries are beyond any bound of a run.
- The interplay of redelivery and the gate after a restart: `ScoringConsumer` lets the
  gate answer either way, `AlertGate` keeps its grace period; together they say that
  an event committed before a crash may never alert.
- Redis as the live channel (`redis_client.py`, its pub/sub): the broker of the lite mode, and
  the websocket over it, are modelled; that a subscriber of Redis hears what is published
  after it subscribed is Redis's promise.
- Inside modelled components: the wording of messages, the retries within a request
  (they end in an answer or an error, which is what the models have), the sending of
  the nightly reports, logging, and the fields of an event that no property looks at.
