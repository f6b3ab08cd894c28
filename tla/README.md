# Formal model of the live signal service

This directory holds TLA+ models of `smcsignal`, a Python service that polls
closed candles of one market, runs a deterministic analysis chain over them,
keeps a ledger of published BUY signals and their outcomes, sends each BUY
signal to Telegram, and lets a researcher replay declared histories. The models
are translated from the sources under `src/smcsignal`; `PROJECT.json` names, for
each definition, the lines it stands for. Paths below are relative to
`src/smcsignal`.

## 1. The system

| Component | State it keeps | Operations | What makes it correct |
|---|---|---|---|
| Market feed (`live/market_feed.py`, `gap_aware_feed.py`, `gap.py`) | a cursor per timeframe | poll: fetch the primary timeframe, then the higher ones, keep what is newer than the cursor | nothing twice; no gap passes unnoticed in the gap-aware variant |
| Live service (`live/service.py`, `gap_aware_service.py`) | candle windows, runtime, ledger session, stores | start (checkpoint, window or first poll), `run_cycle` | analysis, ledger, window, checkpoint, delivery in that order; a restart reproduces the ledger |
| Checkpoint, retention (`live/checkpoint.py`, `live/retention.py`) | recovery history on disk, bounded window | save, load, bound | the checkpoint holds the full history whatever the window drops; one that cannot be trusted stops the start |
| Runtime (`live/runtime.py`) | analyser chain, higher-timeframe context, dirty flag | update, extend_higher, export | fast-forward and replay give the same frames |
| Poll loop (`live/poll_loop.py`, `poll_loop_retry_after.py`, `retry_after.py`) | stop flag, failure counter, next target, Retry-After holder | wait, cycle, classify, schedule, stop | no poll twice on a boundary, bounded backoff, a stop is honoured, fatal errors surface |
| Operator, health (`live/operator.py`, `live/health.py`) | none: derived | snapshot, classify | a snapshot fits the loop at the moment it is taken |
| Outbox (`delivery/outbox/`, `live/outbox_wiring.py`) | one durable record per delivery id, activation marker, quarantine | deliver, drain, recover, reconcile | no intent lost, attempts counted ahead, records that tell the truth |
| Delivery coordinator (`delivery/orchestrator.py`, ...) | deduplication registry, counters | project, render, split, deliver | nothing accepted is sent again; a text arrives whole |
| Telegram transport (`delivery/telegram/`) | token bucket, bound payload, counters | send with retries, chart after the text | receipts say what is known; requests stay within the rate |
| Analysis chain (`analysis/`) | swings, structure, zones, sweeps, ranges, setups, fences | `update(candle)` per analyser | no look-ahead, one-way life cycles, a setup is published once |
| Outcomes and ledger (`analysis/outcome_tracking/`, `analytics/`, `sessions/`, `persistence/`) | observations, finals, one ledger file | follow each BUY, snapshot, restore, save | finals are what the market did; the ledger never goes back |
| Declared runs (`declarations/`, `datasets/`, `configurations/`, `materialization/`, `composition/`, `runs/`) | three input files | load, verify, run | a run uses exactly what its binding pinned |
| Market data (`data/`) | none | fetch, normalise, audit | nothing dropped without a count |
| Monitoring (`monitoring/`) | events, health map, metrics of one run | observe, record, end | health is the worst that was seen; the report adds up |
| Research reports (`analysis/backtest/`, `setup_attribution/`, `performance/`, `review/`, `robustness/`, `intelligence/`) | none | replay, window, diagnose, rank | validation does not see its own future; the reports agree |
| Controlled experiments (`analysis/improvement/`) | immutable records in the hands of a researcher | evaluate, confirm, create, compare, review, decide | a comparison rests on samples, a hypothesis on losses, a decision on a human and a review |
| Configuration binding, visualization, command line | none | validate, draw, print | not modelled, see section 6 |

Interaction: the poll loop calls the draining cycle runner; the runner calls
`run_cycle` of the service and then always one drain of the outbox. `run_cycle`
polls the feed, pushes candles through the runtime, persists ledger and window,
and hands BUY frames to delivery, whose sink is the outbox, whose inner sink is
the Telegram transport. The research side replays stored datasets through the
same chain and the same outcome tracker. Everything runs on one thread: the hard
behaviours are not data races but deaths between durable writes, exceptions in
the middle of a cycle, answers that never arrive, files found damaged or
replaced, cursors that move although the work they stand for failed, a clock
that is set back, and a stop request from a signal handler at any statement.
`PROJECT.json` lists them as hazards, each at its line.

## 2. Modules

| Module | What it models |
|---|---|
| `OutboxRecord` | the durable record (`delivery/outbox/models.py`) and the pure transitions T1..T10 of the sink |
| `Outbox` | store, sink, reconciliation and draining runner: one action per durable write or transport call |
| `DeliveryPromise` | the abstract specification: what the outbox promises its callers |
| `OutboxMC` | instances for TLC |
| `OutboxProofs` | inductive invariant and safety; what records say of their messages; `Outbox` implements `DeliveryPromise` |
| `LiveCycle`, `LiveCycleMC` | feed cursor, one poll cycle, durable writes, startup and verified ledger open of the three live services |
| `PollLoop` | the poll loop with its Retry-After wrapper, one action per look at the stop flag or the clock, sleep, cycle, counter update, plan and way out |
| `OperatorHealth` | validity of an operator snapshot and its classification, as operators on one snapshot |
| `LiveOperator`, `LiveOperatorMC` | the snapshot derived from `PollLoop` at any moment, and the properties of both |
| `LiveProofs` | inductive invariants and theorems of `LiveCycle` and `LiveOperator` |
| `MarketStructure` | swings, trend and structure breaks (`analysis/swings.py`, `trend.py`, `structure.py`) |
| `Liquidity` | pools and sweeps (`analysis/liquidity/`) |
| `Displacement` | displacement candles and fair value gaps (`analysis/displacement/`, `analysis/fvg/`) |
| `OrderBlocks` | order blocks and the wait for a gap (`analysis/order_blocks/`) |
| `DealingRange` | dealing range, premium and discount, OTE zone (`analysis/premium_discount/`, `analysis/ote/`) |
| `ZoneLifecycle` | market structure shift, breaker and mitigation blocks (`analysis/mss/`, `breaker_blocks/`, `mitigation_blocks/`) |
| `EvidenceChecks` | what the constructors of the analysis records insist on |
| `AnalysisChain`, `AnalysisChainMC` | the chain of these analysers over one series of candles, and what its frames must say of the whole history |
| `AnalysisChainProofs` | windows, candidates and evidence as functions of the whole history, and the inductive invariant and theorems of `AnalysisChain` |
| `SetupScore` | higher-timeframe confluence, setup score, quality, eligibility, bias and signal status, as operators on what the frame of a candle says |
| `Runtime`, `RuntimeMC` | the live runtime and the service around it: higher-timeframe join, duplicate fence, fast-forward or rebuild, checkpoint and restart |
| `RuntimeProofs` | the inductive invariant of `Runtime` and the theorems that follow from it |
| `Presentation` | from a BUY frame to text: projection, caption, split into parts, chart |
| `Delivery`, `DeliveryMC` | the delivery stack of one process: coordinator, retry loop, bridge, Telegram sink, token bucket |
| `DeliveryProofs` | the parts of a split caption; inductive invariant and theorems of `Delivery` |
| `Selection` | the ascending order of a set of numbers, and what is picked of a sequence by its indices |
| `OutcomeTracking` | outcomes of signals, the observer's ledger, its snapshot and statistics, as functions of values |
| `DeclaredRun`, `DeclaredRunMC` | the stores of declared inputs and of the ledger, verification, run, session, save |
| `OutcomeProofs` | what a history makes of the lifecycle and the ledger, and the inductive invariants and theorems of `DeclaredRun` |
| `ResearchProofs` | the reports over those lifecycles, and the inductive invariants and theorems of `Improvement` |
| `MarketData` | how rows of an exchange become a batch and what the observer says of it, as operators |
| `Monitoring`, `MonitoringMC` | a monitored run: session, health, aggregates, report, and the caller who fetches |
| `MonitoringProofs` | what is said of a batch and what the session keeps of it, and the inductive invariant and theorems of `Monitoring` |
| `Research` | backtest, attribution, performance report and monthly reviews, as operators on datasets |
| `WalkForward` | windows, regimes, robustness, cells of strategy intelligence |
| `Improvement`, `ResearchMC` | the controlled experiments of a researcher over recorded series that grow meanwhile |

`Outbox` and `LiveCycle` meet at the durable window: `LiveCycle` shows what the
window holds and when a frame is handed over, `Outbox` takes "a poll persists
new BUY frames and then delivers them" as one action `Poll` and models what
happens after it in detail. `Delivery` models where the `Answers` of `Outbox`
come from. `Runtime` takes the end of a cycle (ledger, checkpoint, delivery) as
one step, for what a death between those writes does is the subject of
`LiveCycle`; in return it says what `LiveCycle` leaves out: what a frame contains
when higher candles arrive at any time. `Runtime` takes the facts of a frame as
given, `AnalysisChain` models where they come from. `DeclaredRun` and `Research`
share the tracker and the ledger of `OutcomeTracking`, which `LiveCycle` reduces
to which candles carry an observation or a final. `Improvement` drives the
reports of `Research` and `WalkForward`.

### 2.1 Outbox

State and code: `disk` is the `records/` directory (one document per delivery
id, or ABSENT, or CORRUPT), `quarantined` the `corrupt/` directory, `marker` the
activation marker, `before` the signals whose candle opened before
`activated_at`, `window` the BUY frames that the durable window regenerates.
`pc` walks through startup (`boot`: quarantine and recovery in the constructor
of the sink; `marker`; `reconcile`), the cycle (`pick` in mode `inline`), the
drain (`pick` in mode `drain`) and an attempt (`begin`, `call`, `settle`).
Receipts are folded into the five classes that the sink tells apart.

`calls`, `accepts` and `undone` are invisible to the code: what really reached
the transport. They let the properties compare what the records say with what
happened. The answers of the transport follow `delivery/telegram/sink.py`: a
success confirms the message, a timeout says nothing about it, an error status
is taken for a refusal.

Three things worth knowing when reading the model against the code:

* A drain reads the clock once and `all_records` once; the set `todo` is fixed
  by both when the pass begins. What a pass itself does to a record does not
  change whether it visits another one.
* The branch of the sink that settles a live record without budget
  (`_settle_budget_exhausted`) is modelled but cannot be reached: the lemma
  `LiveHasBudget` in `OutboxProofs` shows that a QUEUED or WAITING record always
  has budget. It is a defence, as its docstring says.
* `os.replace` without a sync of file and directory: with `PowerLoss` a crash
  may undo the last window write of the cycle. Without it a write is durable.

One process per store is assumed: nothing in the code locks it.

### 2.2 Live cycle

A candle is its position on the grid, a window the set of its candles. A frame
is the candle together with everything consumed up to it: after a different
history the same candle has another signal id, as in the code, where identities
are hashes over the chain. `LedgerOf` gives the ledger of a history, and
`Verified` is the verified open: the first prefix of the warm-up whose counts
are those of the stored ledger has to equal it. The three services are one
model: they share the order of a cycle and differ in gap checks (gap-aware) and
checkpoint and retention (checkpointed). Whether a candle's frame is a BUY is a
constant of the instance and does not depend on the history.

The checkpoint file may be lost, or become untrusted (damaged, of another
configuration or version). A start that meets an untrusted checkpoint is refused
before anything else is opened, and so is every later one until the operator
removes the file; only then does the service start from its window. Which of the
checks of `load_checkpoint_bytes` fails is not told apart: each raises.

Higher-timeframe candles are left out except for their fetch, which comes after
the primary one and may fail. A death stands for a kill and for a write or a
delivery that raises, which the poll loop treats as fatal.

### 2.3 Poll loop and operator

Time is a number of ticks from the anchor of the candle grid. `place` names the
place in `run()`: `wait` before the look at the stop flag, `look` before the
look at the clock, `sleep`, `begin` when the target is due, `cycle` inside
`run_cycle`, then `count` (counters and budget), `plan` (next target), `record`
(history), `observe` (the `on_cycle` callback, which may take time and raise).
`RequestStop` is enabled everywhere, for a signal handler runs at any statement.
A cycle ends in success, in a recoverable error or in a fatal one, and either
error comes with or without a Retry-After. `exit` tells how the last `run()` ended; the locals of `run`
are reset there and when the loop waits again, where the code no longer reads
them. `asked`, `served` and `late` are not in the code: they remember when the
last cycle ended and what its server asked for, the candle of the last success,
and what the loop did after a stop request.

The clock does not go back (a wall clock that is set back can make the loop
poll a candle again, which the code does not try to exclude), but it may stand
still, as it does for good at the bound `Horizon`; the code then counts stalled
waits and raises. KeyboardInterrupt and SystemExit, which bypass
`except Exception`, are left out.

`LiveOperator` derives the snapshot of `live/operator.py` from the loop and
checks it at every moment. Between the counters and the history entry of a cycle
a snapshot would be rejected (for example one failure and no last outcome);
`SnapshotIsAccepted` says that these two steps are the only ones, so a snapshot
has to be taken by `on_cycle` or between cycles, not by another thread at any
time. `LastPersistSuccess` looks only at results that are still in the bounded
history: after more failures than `history_limit` it is unset again although a
cycle produced a report.

### 2.4 Analysis chain

Each analyser is a module that extends the one it reads from: its variables are
the fields that the Python object keeps, its `...Update` is the `update` method.
One step of `AnalysisChain` is one closed candle through all of them, as in
`LiveRuntime._push_primary`. `frames`, the list of what was published, is not
kept by the code: the properties use it to say from the whole history what the
code finds out with windows and candidates.

The time unit is one candle: candle `i` opens at `i` and is available at `i + 1`
or later (`lag`), as `LiquidityAnalyzer.update` takes it. The live runtime uses
the close itself; with lag the rules "known at the open" differ from "has a
smaller index", and that is what `NothingFromTheFuture` is about. Prices are
positive integers; bands, thresholds and averages are compared on cross
products, positions in the dealing range counted in 1/20000 and retracements in
percent, so they are as exact as the Decimals of the code. `config` is a
variable with a fixed value, so that one run covers several configurations of
the order blocks. The active pools are a set: their order in the code is that of
their first swings, so the oldest of a side is the one with the earliest anchor.

The records of the chain are frozen dataclasses that judge their evidence in
`__post_init__`; a check that fails would raise in the middle of a candle and
stop the series for good. `EvidenceChecks` has one operator for each constructor
and `EvidenceIsAccepted` is their conjunction. Left out: provenance hashes and
evidence ids (an element of evidence is its record), price units, the checks
that a frame belongs to the replay (one chain feeds itself), the relationships
that a shift quotes of older zones, and ratios that only describe.

`BlocksBreakOnce` says as well that two of the six reasons of
`rejection_reason` cannot occur in the chain: "previous close already beyond"
(the candle before would have settled the block) and "wrong MSS direction" (a
shift has the direction of the displacement, which was compared before).

### 2.5 Live runtime

`frames`, `higher`, `dirty`, `frameCount`, `latest` and `built` are the fields
`_ote_frames`, `_higher_candles`, `_higher_dirty`, `_frame_count`, `_latest` and
`_built_higher_counts` of `LiveRuntime`; `mtf` is the `MTFAnalyzer` (the lengths
of the histories it was built over, its cursors, what it has published, its
count) and `engine` the `SignalEngineAnalyzer` (published setups, latest
snapshot, count). `pc` is the place in `update`: `build` when a pushed candle
finds new higher candles, `replay` inside the full replay, `advance` when only
the pushed candle goes through the join; `verify` is the end of the startup, and
`refused_checkpoint` and `refused_ledger` are the two ways it can fail.
`pending`, `warming` and `fresh` belong to the service, `recorded`, `saved` and
`delivered` are what the ledger, the checkpoint and the delivery have been given.

A primary candle is its position `p` on the grid; candle `n` of a higher
timeframe is available at `n * Ratio`, in the units of the primary grid. The
constant `Markets` says what the frames of each candle publish, the trend label
of each higher frame, the threshold and whether the symbol is allowed. What
depends on the order of arrivals (context, identity of a setup, status) is
computed by the model; the rest of a frame is data.

`FullFrame` and `Setups` are the reference: the snapshot of each candle, and the
setups that qualified, if every higher candle had been there from the start.

Left out of the score: shift, breaker and mitigation, which the code never
scores, so that 80 of the 100 points can be reached. The branch of the engine
that refuses a BUY without evidence is left out too: the references of the frame
at hand always count as evidence. Frames of the warm-up go to the ledger and not
to delivery.

### 2.6 Delivery

`call` is the delivery in progress with its `step` (the attempt before any
network call, the look at the bucket, the backoff, the request, its answer, the
chart, the way out of an exception), `registry` the
delivery ids of `DeliveryRegistry`, `tokens`, `last` and `clock` the token
bucket in units of 1 / `Unit` of a token, `bound` the payload that the bridge
holds. `requests` and `results`, the calls that ended, are history variables. Two retry
loops are nested: `deliver_message` tries again after FAILED up to
`MaxAttempts`, and within one attempt the sink repeats a request after a
retryable status up to `RetryMaxAttempts`, with a token and a backoff for each.
Answers of the network are an HTTP status with or without `ok`, a timeout, an
error that urllib wraps, or a connection that breaks in a way urllib does not
wrap, which nothing on the way out catches: the call is left by an exception,
the bridge releases its payload in `finally`, and no receipt exists.

`Presentation` keeps of a text its lines, each the field it shows and its
length, and of a part the pieces of lines it holds; "nothing is lost, torn or
reordered" is said without characters. Left out: the persisted-message mode of
the coordinator, audit records, the bytes of a request.

### 2.7 Outcomes, ledger and declared runs

`OutcomeTracking` follows each BUY for `horizon` candles as functions of values:
the evaluator (`OutcomeTrackingAnalyzer`), the observer with its ledger
(`AnalyticsObserver`), the lifecycle that feeds both, the snapshot and the views
restored from it, and the checks of the constructors. An identity is the content
it is a digest of; a return is an integer in units of 1 / `RatioUnit`.

`DeclaredRun` has the four stores as files, which a caller may save anew, and
which may be damaged, while a run is under way. `phase` of `run` walks through
the three loads, the verification, the replay against the stored ledger, the
save and the open session. The save of the ledger is two steps, the `.partial`
file and the swap; a death between them leaves a file that nothing reads. The
ledger may also be edited by hand into a document with a correct digest. The
check at the first match of the counts in `open_ledger_session` is shown to
decide as a search for a reproducing prefix would (`ResumesIffReproduced`).

### 2.8 Research and experiments

`Research`, `WalkForward` and the evaluation in `Improvement` are pure: each
report is a value computed from datasets and a configuration, and each has the
predicate its constructor checks. What the chain says of a candle is an operator
of the instance (`Score`, `Labels`). Rates stay exact fractions where the code
rounds to 50 digits. Names are strings whose order is their place in `Names`, and
`DatasetsAt` lists the datasets by key, as `run_backtest` sorts them.

The package stores nothing: the state of `Improvement` is the set of values the
researcher holds, old versions of a candidate included. She calls the functions
the package exports, in any order: `generate_hypotheses` and `build_hypothesis`,
`create_candidate_from_confirmed_hypothesis` and `build_candidate` (several deltas
too), `transition` with any version and any target, `start_experiment`,
`finish_experiment`, `build_decision`, `apply_human_decision`. Nothing ties the
versions of a candidate together: one that has failed may still be walked to
approval from an older version. She makes no record by calling its class, which
could carry any status. `Grow` records one more candle of a series, at any time
between two steps. The properties judge the
market without frames, trackers or reports: a candle is a BUY by the score of
its window, and its verdict is the close one horizon on, within that window.
Comparison and review are values, so they are quantified over rather than
steps. One comparison protocol is used, and hypotheses are generated in one
batch.

### 2.9 Market data and monitoring

`MarketData` has the normalisation, the cutoff of a fetch and what the observer
says of a batch. `Monitoring` has the session with its health map, retained
events, dropped count, aggregates and the report of `end()`. The caller hands
over one event or metric at a time, as the docstring of the observer leaves to
her. The monitor may raise at each call, and the clock may be set forward and
back between two. A fetch of the live exchange always contains the candle in
progress, so that `DATA_INCOMPLETE_ROWS_DROPPED` is normal there. The identity
of an event is its condition and its detail. Left out: HTTP, the parsing of a
row, the CSV file, label validation, serialization.

## 3. Runs

| Run | Checks | Bounds |
|---|---|---|
| `outbox` | `NoIntentIsLost`, `DrainRespectsCooldown`, `EverySignalSettles`, refinement `KeepsThePromise` | 2 signals, 2 attempts, 1 record per drain, fair; restarts through exceptions |
| `outbox_faults` | `CallsAreWrittenAhead`, `RecordTellsTheTruth`, `SettledForever` | 1 signal, 3 attempts, 2 crashes with power loss, 2 damaged files |
| `live_cycle` | `HandedOverIsDurable`, `SentOnceInOrder`, `GapAwareIsContiguous`, `RestartIsFaithful` | 7 candles, BUYs at 2, 4 and 5, a hole at 3 or none, history limit 3, local bound 3, horizon 2, 2 deaths, a checkpoint lost or untrusted |
| `live_cycle_torn` | violated: `RestartIsNeverRefused` | plain service, 5 candles, 1 death |
| `live_operator` | `OperatorSeesTheLoop`, `OnePollPerCandle`, `RetryAfterIsHonoured`, `StopIsPrompt`, `WaitEnds` | interval 4, jitter up to 1, backoff 1 to 2, Retry-After capped at 5, budget 3, history limit 2, clock up to 11, fair |
| `analysis_chain` | `LevelsEndOnce`, `RangeFollowsThePivots`, `NothingFromTheFuture`, `BlocksLiveOnce`, `EvidenceIsAccepted` | 9 candles, fractal length 3, ATR period 2, tolerance 5 %, lookback 2 for sweeps and 3 for candidates, equilibrium 10 %, OTE 62 to 79 %, three configurations, some candles one candle late |
| `runtime` | `ChainFollowsHistory`, `OneBuyPerSetup`, `RefusedOnlyAfterLateCandle` | 5 primary candles, two higher timeframes (2 and 4 primary candles each) with 2 candles each, 8 markets, 1 restart |
| `delivery` | `ReceiptTellsTheTruth`, `SettledOnce`, `RequestRateIsBounded`, `CallCarriesItsMessage` | 2 calls, 5 configurations, 3 frames, 3 drawings, 6 kinds of answer, 2 attempts of 2 requests, bucket of 2, no call later than 6 |
| `delivery_chart` | violated: `ChartNeverInvalidatesText` | one call |
| `ledger` | `LedgerTellsTheMarket`, `RunUsesDeclaredInputs`, `ResumesIffReproduced`, `LedgerNeverGoesBack` | 3 histories of 6 candles, 5 datasets, 3 configurations, horizons 1 and 2 |
| `monitoring` | `HealthFollowsObservations`, `EndedRunAddsUp`, `ObservationMatchesFeed` | 2 fetches, 12 payloads, 1 error, 2 readings of the clock, 3 retained events, 1 failure of the monitor |
| `research` | `EvaluationFollowsMarket`, `ConclusiveIsSampled`, `HypothesesAreFounded`, `DecidedAfterReview`, `WindowsIgnoreTheFuture` | 2 series of 6 candles, 3 markets, windows of 2 + 2 candles, 1 candidate; 2 evidence records, or 1 with a finish or a confirmation, or 1 built and confirmed hypothesis, or 5 versions and 2 decisions |

Some properties are conjunctions of named parts, each with its own comment:

| Property | Parts |
|---|---|
| `RecordTellsTheTruth` | `SuccessIsConfirmed`, `DuplicateRiskIsVisible` |
| `RestartIsFaithful` | `RestartReproduces`, `RefusedOnlyWhenTorn`, `UntrustedStopsTheService` |
| `OperatorSeesTheLoop` | `SnapshotIsAccepted`, `HealthTracksLoop` |
| `LevelsEndOnce` | `BreaksAreFirstCrossings`, `PoolsEndAtFirstBreach` |
| `BlocksLiveOnce` | `BlocksAreLastOpposing`, `BlocksBreakOnce`, `MitigatedOnFirstReturn` |
| `ChainFollowsHistory` | `EitherPathIsEquivalent`, `CheckpointIsReproduced` |
| `SettledOnce` | `AcceptedIsFinal`, `NoSilentRetry` |
| `CallCarriesItsMessage` | `BoundToItsCall`, `PartsCarryTheCaption` |
| `LedgerTellsTheMarket` | `FinalsMatchTheMarket`, `ReportsSurviveTheStore` |
| `EvaluationFollowsMarket` | `EachSignalJudgedOnce`, `ReportsAgree`, `RefusedOnlyForCause` |

`TypeOK` and `LoopTypeOK`, `LogIsComplete` and `DefaultBuyTakesEverything` are stated and proved
(section 5) and need no run.

Why the bounds are enough.

* Outbox: records do not interact except through the shared drain pass, its
  bound and its order, for which two signals and a bound of one are the smallest
  case: the second record waits behind the first. Within one record three
  attempts give a first, a middle and a last one; two crashes and two damaged
  files allow a fault in the recovery from a fault.
* Live cycle: seven candles exceed history limit, local bound and horizon
  together, so that a window is trimmed, a history limit overrun and an outcome
  finalised before and after a restart; two deaths allow one during the startup
  after another.
* Poll loop: a cycle of five ticks overruns an interval of four, so that
  boundaries are missed; the clock covers two boundaries after the first cycle;
  the cap of Retry-After lies beyond a boundary, that of the backoff before it;
  a budget of three gives a first retry, a retry at the cap and the exhaustion;
  the history forgets results.
* Analysis chain: five candles build the first trend, upwards or downwards, and
  four more may go on, turn, or fall back; within them every kind of event was
  seen to occur: breaks of both kinds, sweeps and pools that end for each reason,
  late candles that are not yet known, displacements with and without a break,
  blocks that wait for a gap, shifts, breakers, rejected violations, mitigations,
  closes in every location of a range, and two live blocks at a time.
* Live runtime: five primary candles contain the first candle of the longer
  higher timeframe and two of the shorter one, each of which may come before,
  exactly at, or after the candle that needs it, in either order and more than
  one in a cycle; one restart allows a replay from the checkpoint followed by new
  arrivals. The markets are quiet and busy ones with steady, turning and split
  higher trends, an opposed structure, a decline, and a symbol that is not
  allowed; thresholds 0, 25, 40 and 75.
* Delivery: two calls are enough for what one call leaves to the next (registry,
  bucket, bound payload); the captions have one part, several with a torn line,
  and none (no BUY); a bucket of two runs empty within one call.
* Ledger: the base market has two overlapping BUYs, a weak one, a gain, a loss
  and an equal extreme; one revision changes a candle inside the first window,
  the other only an extreme at the end, so that counts agree and ledgers do not.
* Monitoring: the payloads are an empty one and one for each defect a row, a pair
  of rows or a whole answer can have; three retained events make the fourth drop.
* Research: the three markets mostly lose, win and lose, and hold a BUY without
  a label; three of six candles of one series are recorded at the start, so
  that windows appear while the researcher works. What she holds stays within one
  of five bounds (`Bounds`): an evaluation does not depend on how far a
  candidate has come, nor a transition on what was evaluated, so that no bound has
  much of both.
  Two decisions may be built before, during or after the way of a candidate, and
  old versions taken up again; two candidates at once are left to the proof.

Deadlock is checked in every run except those of systems that really stop:
`analysis_chain` and `runtime` (the feed ends, a startup may refuse), `delivery`
and `delivery_chart` (the calls are bounded), `ledger` (a run ends refused or
closed with nothing left to save) and `research` (the researcher is done).

Fairness is assumed in `outbox` and `live_operator` only. The loops of the code
always go on: a supervisor restarts a process that stopped, the poll loop runs
the next cycle, every transport call has a timeout. In `outbox` this is weak
fairness of the process as a whole, and cooldowns end (strong fairness per
record, for a new attempt starts a new cooldown). In `live_operator` it is weak
fairness of the loop's own steps: `run_cycle` and the callback return, a sleep
ends; nothing says that the clock advances, nor that anyone calls `run()` or
stops it. No fault, no candle and no answer of the transport is fair: signals
settle even if every attempt is unanswered, because the budget is finite.

## 4. Disagreements between code and comments

Two are checked by a run that expects a violation:

1. `live/poll_loop.py` says a supervisor restarts the process after a fatal
   failure through the persisted window and the verified ledger. If the fatal
   failure was the window write (the ledger had been written), the warm-up is
   shorter than the ledger and the verified open refuses at every restart
   (`live_cycle_torn`). `RestartIsFaithful` says that this, and a fault of the
   checkpoint, are the only ways to be refused.
2. `delivery/telegram/sink.py` says that a chart failure never invalidates the
   delivered text. If the connection breaks while the answer to the chart is
   read, the exception is not one that the HTTP client wraps or the sink
   catches: the confirmed text has no receipt and its id is not registered
   (`delivery_chart`).

The following were met while the models were written; the models contain the
behaviour and no run is spent on the sentence:

* `docs/self-improvement-methodology.md` says that a candidate "is created ONLY
  from a CONFIRMED hypothesis". `create_candidate_from_confirmed_hypothesis` keeps
  to that; `build_candidate`, exported beside it, asks for no hypothesis, and
  `transition` takes what it made to the human review without any evidence, as
  `tests/improvement/test_state.py` does. What holds of every decided candidate
  is `DecidedAfterReview`.
* `delivery/outbox/sink.py` says that any attempt ending in UNKNOWN sets
  `ambiguous_attempt_seen`. The last attempt of the budget does not: the record
  becomes AMBIGUOUS with `possibly_duplicated`, without the flag.
* `delivery/outbox/store.py` says never to guess an activation time. A damaged
  marker makes one startup run without reconciliation; the next one finds no
  marker and writes a new one, and signals persisted in between that have no
  record are excluded as older than the activation.
* `live/gap.py` and `live/gap_aware_service.py` call a gap recoverable while the
  exchange still serves what is missing. The cursor of the feed has moved behind
  the lost candles and is never set back, so the running process meets the gap in
  every later poll; only a restart heals it.
* `live/runtime.py` says that fast-forward and rebuild are "frame-for-frame
  equivalent to having held the full HTF history from the start". After a late
  higher candle the rebuilt chain is (`EitherPathIsEquivalent`), but the frames
  that `update` has already returned are not: they are in the ledger and were
  delivered, and no later step corrects them. A restart regenerates other frames,
  and if the BUYs differ the verified open of the ledger refuses it;
  `RefusedOnlyAfterLateCandle` says that nothing else makes it refuse.
* `analysis/improvement/surfaces.py` lists the two publication thresholds as
  surfaces of the allow-list, but a backtest configuration refuses thresholds that
  differ, already between two deltas, so an experiment with a delta on either is
  always refused. `RefusedOnlyForCause` names this cause.
* `monitoring/report.py` says that building a report must not fail on data that
  was merely observed. `end()` closes the run before it builds the report, and
  two metrics of one name, which a caller gets who observes two batches in a run,
  make the constructor raise: the report is lost. `EndedRunAddsUp` names this as
  the only way to lose one.

`DuplicateRiskIsVisible` excludes one case on purpose: a power loss takes the
last window write back and also damages the record. The signal then comes back
through the feed as if it were new, and `deliver_payload`, unlike
reconciliation, does not look at the quarantine.

## 5. Proofs

The theorems hold for every value of the constants; `PROJECT.json` lists them.
TLC checked each inductive invariant on the instances above before its proof.

`OutboxProofs` proves, for every set of delivery ids, budget, drain bound and
number of faults:

* `TypeCorrect`: `Spec => []TypeOK`
* `WrittenAhead`: `Spec => []CallsAreWrittenAhead`
* `LogComplete`: `Spec => []LogIsComplete`
* `NoLoss`: `Spec => []NoIntentIsLost`
* `TerminalIsFrozen`: `Spec => SettledForever`

None of them is inductive alone. The invariant `IInv` adds four parts:
`RecordOK` relates the fields of one document (the log has one entry less than
the attempts used exactly when IN_FLIGHT; a live record that is not IN_FLIGHT
has budget left; an untouched record is blank), `ControlInv` relates `pc` to the
record at hand (at `begin` it is QUEUED or WAITING, at `call` and `settle`
IN_FLIGHT) and to the mode of the process, `CallsAreWrittenAhead` counts the
calls, and `IntentInv` says which signals of the window may lack a record: only
those still to be handed over in this cycle, or all of them while the process
has not reconciled or stops. The proof that a step keeps `IInv` goes through
the actions; lemmas state once what each transition of `OutboxRecord` does to
`RecordOK`.

On top of it are proved:

* `RecordsTellTheTruth`: `Spec => []RecordTellsTheTruth`
* `DrainsKeepTheCooldown`: `Spec => DrainRespectsCooldown`

Its invariant `TruthInv` relates what the transport took to the marks of the
records. `TakenInv`: a DELIVERED record was confirmed; a message that was taken
shows on a record that waits, ended otherwise, or was taken twice; what is
neither in the window nor taken out of it by a power loss has no record.
`AttemptInv`: what was taken before the attempt at hand left its mark before it,
which is what makes the mark of its outcome right. `UnrecordedInv`: a message
without a record is one whose record was quarantined, and the cycle at hand has
it to deliver only if a power loss took its candle back; this is why
reconciliation marks what it recreates from the quarantine, and why the property
has its one exception. `ColdInv`: what a drain has still to visit is cold or has
to be recovered. Lemmas state what each step that writes a record does to its
marks, so that the cases need no record arithmetic.

The module ends with `PromiseKept`: while no document is damaged
(`MaxCorruptions = 0`), every step of `Outbox` is a step of `DeliveryPromise` or
a stutter, under the mapping that takes QUEUED, IN_FLIGHT and WAITING to "owed",
DELIVERED to "delivered", FAILED_TERMINAL to "failed", EXHAUSTED and AMBIGUOUS to
"unresolved", and the attempts used to the tries. `RecordStepMaps` shows it for
one document and each transition, `PromiseStep` lifts it to the state.

`LiveProofs` proves about the cycle, for every market, set of BUYs, history limit,
horizon, local bound, service, number of deaths and fault of the checkpoint:

* `CycleTypeOK`: `Spec => []TypeOK`
* `DurableBeforeDelivery`: `Spec => []HandedOverIsDurable`
* `HandedOverOnce`: `Spec => []SentOnceInOrder`
* `NoGapGetsIn`: `Spec => []GapAwareIsContiguous`
* `RestartsAreFaithful`: `Spec => []RestartIsFaithful`
* `CycleInvariant`: `Spec => []IInv`, from which these follow

A death leaves ledger, window, checkpoint and history at different candles, so
the invariant says how they lie to each other. `WindowInv`: the window ends
where the history ends, and is the history in the services that do not trim.
`LedgerInv`: the ledger is that of the history except while it waits to be
written, when it is contained in it. `OrderInv`: what is pending comes after
everything that was sent. `GapInv`: history and fetched batch of the gap-aware
service are contiguous. `SourceInv`: unless a write was torn or the checkpoint
lost, the recovery source is the history whose ledger is stored. The verified
open compares counts; that equal counts mean equal ledgers (`SameCountsSameLedger`)
follows from `LedgerGrows` (the ledger of a prefix is contained in that of the
whole) and the finiteness of ledgers. `ContiguousBetween` and `ContiguousJoin`
carry the gap check, which looks at neighbours only, to whole histories.

Its second part proves about the poll loop and its operator, for every grid, jitter
below the interval, backoff, budget, history limit, and any durations and delays:

* `LoopTypeCorrect`: `LoopSpec => []LoopTypeOK`
* `NoCandlePolledTwice`: `LoopSpec => []OnePollPerCandle`, from `GridInv`: the target
  lies in a later candle than the last success in every place that waits, and so
  does the clock from `begin` until the cycle ends; after a failure the retry
  cannot fall back behind it. `NextCandle` is the arithmetic of the grid.
* `StopIsHonoured`: `LoopSpec => []StopIsPrompt`
* `RetryAfterHonoured`: `LoopSpec => []RetryAfterIsHonoured`, from `RetryInv`: the
  target and the follow-up at hand fit the last failure, and the holder is what
  that failure asked for when the follow-up is planned
* `OperatorIsTold`: `LoopSpec => []OperatorSeesTheLoop`, from `CountInv`, which
  relates counters, outcome at hand and newest result, and `HealthInv`, which
  says what the newest result tells of the failure counter and the holder
* `HealthIsEarned`: for every valid snapshot the fail-closed branch of
  `classify_health` is unreachable and HEALTHY means that no requirement is unmet

`AnalysisChainProofs` proves, for every feed (lag included), fractal length,
tolerance, period, lookback, gap, band, retracement and configuration of the
order blocks:

* `ChainInvariant`: `Spec => []IInv`, from which these follow
* `LevelsEndOnceHolds`: `Spec => []LevelsEndOnce`
* `RangeFollowsThePivotsHolds`: `Spec => []RangeFollowsThePivots`
* `BlocksLiveOnceHolds`: `Spec => []BlocksLiveOnce`
* `NothingFromTheFutureHolds`: `Spec => []NothingFromTheFuture`
* `EvidenceIsAcceptedHolds`: `Spec => []EvidenceIsAccepted`

The properties speak of the whole history, the analysers keep a few candles, so
the invariant says what each field is as a function of the history `h` of
candles. `LinkInv`: the newest frame is a copy of what the analysers hold.
`StructureInv`: the window is the end of the history, the two newest swings of a
kind are its two newest pivots, levels and trend are what the history makes of
them, a level spent exactly if a close after its confirmation has crossed it.
`PoolsInv`: each active pool is a chronological
list of confirmed swings in one band that no candle has breached since its first
pivot, each ended one was breached by its last candle and by none before, and
active and ended pools together hold every swing once. `DisplacementInv`: the
running sum over the window and the sweeps that may still precede a
displacement. `BlocksInv`: the block that waits for its gap is the one that the
newest candle makes, and what its past selects is the `Source` of the history.
`RangeInv`: the endpoints are the newest pivots, the range is that which they
span since the later one was confirmed. `ZoneInv`: candidates are the published
blocks without a close beyond them, unmitigated ones those without a return and
not converted. `SidecarInv`: the arrays of a frame are annotated where the frame
publishes them.

For each part one section shows what one candle more does to the history
(`PivotsGrow`, `CrossedGrows`, `PoolsAge`, `MakesStays`, `ReturnsGrow`), and that
the update of the analyser does the same to its fields. The last sections derive
the properties from the invariant, among them the checks of the
constructors. Two facts there are less obvious than they look. One candle breaks
at most one level (`EventsAreOne`): the newest high and low are crossed from one
previous close, upwards and downwards. And the sum of the true ranges is defined
(`TotalIs`), by an induction over the window, so that the average with which a
displacement is compared is no stand-in for a missing one.

`RuntimeProofs` proves, for every set of higher timeframes, every ratio, market,
arrival order and number of restarts:

* `HistoryIsFollowed`: `Spec => []ChainFollowsHistory`
* `SetupsAreDeliveredOnce`: `Spec => []OneBuyPerSetup`
* `RefusalsHaveAReason`: `Spec => []RefusedOnlyAfterLateCandle`
* `DefaultBuyIsComplete`: `Spec => []DefaultBuyTakesEverything`
* `RuntimeTypeOK`: `Spec => []TypeOK`
* `RuntimeInvariant`: `Spec => []IInv`, from which these follow

`IInv` has four parts. `HistoryInv`: primary and higher histories increase.
`SeenInv`: the join and the engine are those of the candles they have seen. Its
half `JoinOK` says that after a candle each cursor counts exactly the higher
candles eligible at its open, so that what was published is `Known`; the loop of
the cursor is a least number, which `CursorStops` shows to exist. Its half
`EngineOK` says that the fence is `Setups` and the latest snapshot `FullFrame`.
`PlaceInv` says what holds at each place of `update`: counts that agree, a
pushed candle that is not yet seen, and while higher candles have been added
since the last build, which ones. `SavedInv` says that the checkpoint holds the
fence and the signal that its own histories regenerate. The heart is
`FastForwardKeeps`: if no new higher candle was eligible at the last open, the
contexts of all candles seen are the same over the longer histories, so cursors,
fence and snapshots may be kept. From `PlaceInv` follows as well that the count
check in `export_checkpoint_state` cannot fail when `update` has returned.

The two theorems about what leaves the runtime need `OutInv` on top of it.
`FreshInv`: within one cycle no higher candle comes between two primary ones, so
its frames are those of the histories as they are. `RecordedInv`: each frame in
the ledger is the frame of its candle over the higher histories of its time, and
those only grow along the ledger. `DeliveredInv`: each delivered BUY is founded
in one of the candles and in histories known at its time, and no two share an
identity. `RefusedInv`: a refused startup had regenerated everything before it
compared. A restart that regenerates a different frame therefore had a higher
candle that was eligible at the open of an old primary candle and came after it.

`DeliveryProofs` proves, for every configuration, set of frames and
destinations, budget, bucket, limit of a part, and any answers and durations:

* `DeliveryTypes`: `Spec => []TypeOK`
* `ReceiptsTellTheTruth`: `Spec => []ReceiptTellsTheTruth`
* `MessagesSettleOnce`: `Spec => []SettledOnce`
* `RequestsAreRationed`: `Spec => []RequestRateIsBounded`
* `MessagesAreCarriedWhole`: `Spec => []CallCarriesItsMessage`
* `SplitReads`: for every non-empty sequence of lines and every limit, the parts
  of a split, read one after the other, give every line from its first to its
  last character, in order and without a gap, and each part is neither empty nor
  longer than the limit

The split is a recursive function over the lines; `SplitReads` is an induction
over them that carries the state of the split (parts sent, buffer) along.

The rate is bounded by a potential, `BucketInv`: from any request on, what was
requested since, the token that is held between the bucket and the request, and
what is left in the bucket are together covered by a full bucket and its refill.
`AskedInv` relates the step of a call to the answers it got, `RegistryInv` says
that an id is registered only after a call reported it, `OwnerInv` to which call
each request belongs, `QuietInv` that while a call may still send its text none
of its texts was settled, `TakenInv` where the knowledge is that a text was
accepted: on the call itself, in the registry, or in the exception that left it.

`MonitoringProofs` proves, for every interval, limit, policy, payloads, clock
readings, number of retained events and failures of the monitor:

* `HealthIsTheWorstSeen`: `Spec => []HealthFollowsObservations`
* `ReportsAddUp`: `Spec => []EndedRunAddsUp`
* `SilenceMeansAnIdealFeed`: `Spec => []ObservationMatchesFeed`

The invariant follows an observation on its way: `FetchedInv` (the batch is what
the exchange answered at the cutoff), `ObservedInv` (events and metrics are what
the observer says of that batch), `PendingInv` (what is still to be recorded are
conditions seen at an instant), `SessionInv` (aggregates, retained events,
dropped count and health map of the session against the log of everything it was
given while it is open, the report against them once it has ended). The
aggregates are folds over the events: lemmas say what one event more does to
them, and what the merge of the retained and the dropped ones gives. About a batch
the work is in the other direction: that no event at all means that each row of
the answer was whole, in order, on the grid and recent.

`OutcomeProofs` proves about declared runs, for every market, declaration, binding,
threshold and horizon, and whatever is done to the stores:

* `RunsUseTheirInputs`: `Spec => []RunUsesDeclaredInputs`
* `TheFirstMatchDecides`: `Spec => []ResumesIffReproduced`
* `TheFinalsAreTrue`: `Spec => []FinalsMatchTheMarket`
* `TheStoreReportsTheSame`: `Spec => []ReportsSurviveTheStore`; the two are the
  conjuncts of `LedgerTellsTheMarket` (`LedgersAreTrue`)
* `TheLedgerIsKept`: `Spec => LedgerNeverGoesBack`

Half of it is about the lifecycle as a function of the history. `Shape` says
what it holds after any history (a record and an observation of one identity per
publication; the finals are the records that are final), `Grows` that a longer
history leaves earlier observations and finals as they are, `TellsTheMarket`
that each record tracks its publication through the candles after it, extremes
at their first occurrence included. Each is an induction over the candles of the
history. From `Grows` follows that of two prefixes with the same counts the
ledgers are equal, which is why the check at the first match decides as a search
would. The reports need that what is picked of a list is counted once
(`PickedCounts`) and that the months of a report partition its versions
(`MonthsCountOnce`). The other half is the run: `FilesInv` (a store is readable or
not, and what is readable is of the right kind), `InputsInv` (from the
verification on the run holds what its binding pins), `LifecycleInv` (the candles
told so far go forward and are a prefix of a history, and the lifecycle is the
one after them), `StoreInv` (what is in the store is what was loaded, and later
something the run extends), `VerifyInv` (while nothing is verified, no prefix told
so far reproduces the stored ledger).

`ResearchProofs` proves about the research, for every market, set of
series, baseline, allow-list, protocol and scoring function, and any order of the
researcher's calls:

* `ResearchIsSound`: `ResearchSpec => []ResearchInv`, the inductive invariant:
  what was evaluated and what is evidence are the reports of candles that were
  recorded at the time (`EvaluationInv`, `EvidenceInv`), each version of a candidate
  has the states before its own behind it (`VersionsInv`), and a generated weakness
  is a finding of reports that are still in evidence (`FoundedInv`)
* `WindowsStay`: `ResearchSpec => WindowsIgnoreTheFuture`
* `SignalsAreJudgedOnce`: `ResearchSpec => []EachSignalJudgedOnce`, the first conjunct
  of `EvaluationFollowsMarket`
* `OneStory`: `ResearchSpec => []ReportsAgree`, the second
* `DecisionsFollowReviews`: `ResearchSpec => []DecidedAfterReview`
* `ConclusiveMeansSampled`: `ResearchSpec => []ConclusiveIsSampled`
* `GeneratedAreFounded`: `ResearchSpec => []HypothesesAreFounded`

A dataset of fewer candles is a prefix of one of more (`PartOfAPart`), a window is
planned exactly where its candles are recorded (`WindowsAre`, from the arithmetic
of the quotient in `plan_windows`), and what is computed of a window is a function
of the candles it contains and of the regimes at its two ends (`ResultsStay`).

`DecidedAfterReview` needs the state alone. The other four compare what the engines
compute with what the candles show. The engine of a window is the lifecycle of `OutcomeProofs` over a slice, so that `Shape`
and `TellsTheMarket` say what its records are; `JudgeWindow` and `JudgeGroup` carry
this to the rows of all validation periods, and `JudgedOnce` says that no candle is
in two of them. Together they give a bijection between the rows of a report and the
signals counted on the candles (`AreAbout`), which is the first theorem. For the
second, a sum over all rows is the sum, over the names in use, of the sums over the
rows of a name, whatever the rows are grouped by, and the ranking of cells leaves
their sums alone (`TheCellsAre`, `TheReportsAgree`). For the third, the sample of a
metric counts, through the bijection, the signals of its group that the market
decided (`SampleIsDecided`), a row of a comparison being no more than two of them.
For the fourth, a finding is a cell of the same kind, and one that is a weakness has
a loss among the signals it counts (`FindingsAreLosing`).

Assumptions: those of the modules, each named and evaluated by TLC. They give the
constants the types the code gives them (positive budgets, bounds, intervals and
limits; finite sets of positive delivery ids; BUYs and holes that are candles; a
jitter smaller than the interval; positive ratios between timeframes; datasets
that are sequences of candles and begin some history; a frame with at least one
line of evidence), and say that the model value `None` is not one of the values
it is told from (`NoneAssumption`, `FilesAssumption`). `DoublingAssumption` says
that the powers of two in use are natural numbers, which the provers do not know.

Only model-checked:

* the liveness properties (`EverySignalSettles`, `WaitEnds`) and the fairness
  part of the refinement, which are outside the reach of the prover;
* of `EvaluationFollowsMarket` the conjunct `RefusedOnlyForCause`: that no constructor
  of a report refuses what the engines computed, over all of their checks of orders,
  ranks and rates.

## 6. Not modelled, and plan

Not modelled:

* configuration and its binding (`live/config.py`, `configuration_binding.py`):
  chains of checks that raise or return a value;
* visualization: layout from finished frames, no state and no decision;
* the command line, which prints the version;
* indicators: arithmetic that nothing in the chain reads;
* the halal classification, which enters as an input.

Partly modelled, with what is left out: the checkpoint (which of its checks
fails), delivery in persisted-message mode and its audit records, HTTP and CSV
parsing, texts and display rounding of the reports, hashes (an identity is the
content it is a digest of).

What could be added next: a composition of `Delivery` and `Outbox` in one module, in which the
answers of the transport are computed instead of assumed.
