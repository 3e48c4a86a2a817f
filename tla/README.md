# A TLA+ verification project for the AgentBot platform

The platform (`src/`) is one asyncio process around a live trading bot.  It
receives what the bot reports over REST, captures raw market data from two
exchanges, computes features and regimes, runs a simulated trading engine for
research, audits itself, and shows all of it on a dashboard.  This directory
holds TLA+ modules translated from its code, TLC configurations that check them
on small instances, and TLAPS proofs of the properties that matter most.

Paths below are relative to the repository's root (`src/...` is its package).

## 1. Inventory

For each component: the state it keeps, its operations, how it meets the
others, what is hard about it, and what makes it correct.

| Component | State | Operations | Interacts with | Hard |
|---|---|---|---|---|
| **Bot ingest endpoints** `src/ingestion/rest/bot_receiver.py`, `create_marker` in `src/quant/markers/marker_service.py` | rows of five tables, `trade_outcome_id` links, the latest gate stats | `/signal`, `/signals`, `/trade`, `/snapshot`, `/marker`, `/regime`, `/gate-stats` | the bot's outbox retries until it reads an ok reply; PostgreSQL; the allow-list of the auth middleware | one event delivered several times at once; lost confirmations; rollback and redo of a batch; transactions that wait for each other |
| **Event bus** `src/ingestion/event_bus.py` | a bounded queue, subscribers, counters | `publish`, `start` (dispatch loop), `stop` | exchange clients publish; the Parquet writer and the feature store subscribe | full queue, one slow subscriber stalls the loop, events in the queue at shutdown |
| **Parquet writer** `src/storage/parquet/writer.py` | a buffer per event type and coin, `_running` | `handle_event`, periodic `start`, `stop`, `flush_all`, `_write_parquet` on executor threads | called from the bus loop, its own loop and the shutdown | three tasks flush the same buffers; writes fail half-way |
| **Platform runner** `src/core/runner.py`, `main.py` | the components, their tasks, the shutdown event | `build`, `run`, `stop`, signal handler | starts and stops every service in a fixed order | what is in flight when it stops |
| **Exchange clients** `src/ingestion/ws/*.py` | socket, subscribed coins, last-message times | connect with back-off, subscription sync, stale detection | publish to the bus; coins updated by the dashboard | a subscription change between two sends, or across a reconnect |
| **Feature store and features** `src/features/` | per-coin trade and book windows, a cache with TTL | `on_event`, `get_features` | subscribes to the bus; read by the regime detector, the snapshot service, replay | a cached vector read as a new one; wall clock in a replay |
| **Snapshot service** `src/features/snapshot_service.py` | last snapshot counters | periodic insert of one row per coin | feature store, PostgreSQL | a failing coin in the middle of a cycle |
| **Regime detector** `src/regime/` | the last readings of each coin | `detect`, persistence filter, evaluator | reads the feature store; its regime gates the signal engine | flapping, restarts with an empty history |
| **Engine** `src/engine/` | open positions, exposure, cooldowns, daily losses | signal, policy, sizing, risk, position, execution | called in a fixed order by replay and backtest | exposure and cooldown bookkeeping over long runs |
| **Signal evaluation service** `src/engine/signal/evaluation_service.py` | a buffer of evaluations | `record`, `flush` | constructed by nothing in the repository | |
| **Replay and backtest** `src/replay/`, `src/backtest/` | positions and counters of one run | replay a day of Parquet through the engine | feature store, engine | determinism: the same input must give the same trades |
| **Active users cache** `src/dashboard/_active_users_cache.py` | user set, time of last refresh, a lock | `get`, refresh over HTTP, override | decides the allow-list of the ingest endpoints | refresh failing or slow while requests wait for it |
| **Dashboard API** `src/dashboard/api.py`, `server.py` | login attempts per address, sessions | login, read-only queries | everything | the limiter's window |
| **Audit** `src/audit/` | last result per check, running tasks | scheduled and on-demand execution | PostgreSQL, dashboard | two executions of a check finishing out of order |
| **Alerts, summary, metrics** `src/observability/` | next run of the daily summary | daily summary, alerts, counters (the last two constructed by nothing) | Telegram, PostgreSQL | the daily schedule over a change of the clock; trades no summary tells of |
| **Bot token** `src/observability/health/_bot_auth.py` | one cached token and its age | `get_bot_token` | the bot's login; shared by two audit checks | a cached token the bot refuses |
| **Change marker impact** `src/quant/markers/marker_service.py` | impact rows | measure before and after windows | trades of the ingest | windows not complete yet |
| **Quant analysis** `src/quant/` | none (reports over SQL) | enriched dataset, metrics, analyses, decisions, score parity, executive summary, validation, experiments | PostgreSQL while the ingest writes to it | several queries that make one report; engines with thresholds of their own that judge the same trades |
| **Research, schema, settings** `src/research/`, `src/storage/postgres/`, `alembic/`, `config/` | table definitions, reports | queries | all | constraints the ingest relies on |

The five properties the rest of the platform stands on, in the order in which
they are modelled: an event of the bot is stored exactly once and never
forgotten by both sides; raw data that was accepted is written exactly once or
counted as lost; every request, flush and shutdown ends; a regime, position or
exposure derived from the data is what the data says; the guards in front
(allow-list, login limit, cooldown) hold under concurrency; what the reports say
of the trades agrees with itself and leaves none out.

## 2. Modules

| Module | What it is |
|---|---|
| `BotReceiver` | the ingest endpoints, their transactions, PostgreSQL as far as they rely on it, the bot's outbox |
| `ExactlyOnceIngest` | what the endpoints promise the outbox: the abstract specification `BotReceiver` implements |
| `BotReceiverProofs` | TLAPS proofs about `BotReceiver` |
| `MCBotReceiver` | small instances: single deliveries and batches, trades racing for signals |
| `EventPipeline` | event bus, Parquet writer, thread pool and shutdown composed |
| `EventPipelineProofs` | proofs about it |
| `MCEventPipeline` | small instances of it |
| `RegimeDetector` | feature cache, classification and persistence filter: a component without a next-state relation, extended by the two below |
| `RegimePersistence` | the detector asked again and again, beside a reference that follows its docstring |
| `MCRegimePersistence` | markets it may see |
| `FullReplay` | a replay of recorded events through signal, policy, sizing, risk and position engines |
| `EngineProofs` | proofs about the detector and the replay |
| `MCFullReplay` | feeds of one and of two coins |
| `ActiveUsersCache` | the allow-list of the ingest requests: cache, lock, queue, failing refreshes, override |
| `LoginLimiter` | the sliding window of login attempts of one address |
| `AccessGate` | the two composed under one clock |
| `AccessGateProofs` | proofs about both parts |
| `MCAccessGate` | three requests, one user |
| `ExchangeFeed` | the Hyperliquid client: its connection, subscriptions and stop, with the exchange |
| `ExchangeFeedProofs` | the proof about its subscriptions |
| `MCExchangeFeed` | three coins |
| `Validation` | the validation of configurations: filters, simulated exits, metrics, verdicts |
| `MCValidation` | histories of up to five trades of seven kinds |
| `QuantReports` | dataset, `MetricsEngine`, `AnalysisEngine`, `DecisionEngine` as operators over bags of trades |
| `ScoreParity` | the score parity analyzer: its queries and its report; extends `QuantReports` |
| `ExecutiveSummary` | one build of the summary, read by read, while rows arrive; extends `ScoreParity` |
| `MCExecutiveSummary` | seven kinds of trades and three of signals, in numbers on both sides of the thresholds |
| `AuditChecks` | what each of the four audit checks makes of what it saw |
| `AuditRunner` | the loops of the checks, on-demand executions, score and shared bot token; extends `AuditChecks` |
| `MCAuditRunner` | lists of one and of two checks |
| `ReportProofs` | proofs about what the platform reports: the audit's score, a validation's verdicts, the executive summary |
| `BackgroundTasks` | the daily summary and the feature snapshots, with a trade both are about |
| `BackgroundTasksProofs` | proofs about both tasks |
| `MCBackgroundTasks` | a short day, its clock changes |
| `FoldLemmas` | induction over sets, and what folds and sums do: shared by the proofs |

### BotReceiver

A request is a slot of `Requests`; it takes one body through one handler.
Python code between two awaits cannot be interrupted, so an action is what runs
from one database round trip to the next, and `phase[r]` names the await the
handler is suspended at.

| Code | Action |
|---|---|
| `_check_user_id`, `_session_factory`, `_parse_event_id`: everything before the first await | `ReceiveRequest` |
| `_find_by_event_id` in `receive_signal`, `receive_trade`, `receive_regime` | `LookupOne` |
| the `IN` query of `receive_signals` and the list of new records | `LookupBatch` |
| `session.add` .. flush; `INSERT .. ON CONFLICT` of a marker | `InsertRow`, `InsertConflict` |
| second session of `receive_trade`, `SELECT` of `create_marker` | `Refetch` |
| the subquery and the row lock of the back-link `UPDATE` | `PickSignal`, `UpdateLink` |
| `session.commit()` | `Commit` |
| the record-by-record loop of `receive_signals` | `FallbackInsert`, `FallbackSkip`, `FallbackCommit` |
| `except Exception` -> 500 | `DbError`, `DeadlockVictim`, `CommitUnconfirmed` |
| process death and start | `Crash`, `Start` |

The database is PostgreSQL at READ COMMITTED.  `rows` and `link` are what is
committed, `own[r]` what the open transaction of `r` has inserted.  An INSERT of
an event_id that an open transaction holds waits for it (`WaitsFor`), then
conflicts or goes on; waiting requests can form a circle, which the server's
detector breaks (`Deadlocked`, `DeadlockVictim`).  The subquery of the back-link
reads the snapshot of its statement and the UPDATE, once it has the row lock,
checks nothing but the row's id again; that is why selecting and updating are
two actions.  A commit can become durable although the handler sees an error.
The bot's side is one action, `AckReply`, and the guard of `ReceiveRequest`: it
posts bodies that hold an event it has not seen an ok for.  `up` is
`_session_factory` being set, so a request before the start is a 503.

Left out: payload columns other than those the guards and the back-link read,
`/gate-stats` (overwrites one in-memory entry), logging, the 400 for a trade's
timestamps (same effect as a malformed event_id).

### EventPipeline

Three tasks flush buffers: the bus loop when `handle_event` fills one, the
periodic loop, and `PlatformRunner.stop`.  Each is suspended only while its write
job is in the thread pool.  `task[f]` is where a task is, `keys[f]` what its
`flush_all` has still to visit, `job[f]` its write: queued, running, done, raised,
or cancelled by the closing event loop.  `WriteParquet` writes one hour's
partition at a time, so a write can fail with part of its rows on disk.
`entries` are the keys the `defaultdict` holds; `flush_all` lists them when it
starts and pops buffers while others append.

| Code | Action |
|---|---|
| `EventBus.publish` | `Publish` |
| `get` .. `_dispatch` -> `handle_event` | `BusDispatch`, `BusResume`, `BusTimeout` |
| `ParquetWriter.start`, `flush_all` | `PeriodicFlush`, `PeriodicResume` |
| executor and `_write_parquet` | `StartJob`, `WriteParquet`, `WriteFails` |
| signal handler, `stop()` in its order | `ShutdownRequested`, `StopIngestion`, `StopWriter`, `StopResume`, `StopEnds` |
| the end of `asyncio.run` | `Close` (queued jobs are cancelled, running ones finish) |
| the process is killed | `Kill` |

Over-approximated: `flush_all` visits its keys and `_write_parquet` its hours in
any order (the code uses insertion order, which depends on the arrival of
events).  Left out: several subscribers per event, statistics, file names.

### RegimeDetector and RegimePersistence

`market[c]` is the feature vector that would be computed from the events received
so far; `Snapshot(c)` is what `get_snapshot` returns, the cached one while it is
`Fresh`.  `Reading` is `_classify`, `Push` and `Confirmed` are
`_apply_persistence`.  A call of `detect` is `Remember(c, OneReading(c))` together
with the answer `Confirmed(OneReading(c))`.

`RegimePersistence` interleaves `Detect` with `MarketMoves` and `TimePasses`, the
wall clock.
Beside the detector it keeps a reference without a history: the current run of
equal readings, the last regime whose run reached three, and how many readings
ago that was.  A reading is a call of `detect`, as the docstring has it, not a new
snapshot: one cached snapshot, which every scan reads twice, can confirm a switch.

### FullReplay

| Code | Action or operator |
|---|---|
| `on_event`: bus, feature store, `update_price` | `ReceiveEvent` |
| the loop over `to_close`: `close`, `register_exit`, `record_trade_result`, `detect`, `record_trade` | `ClosePosition` |
| `event_count % scan_every_n`, `is_sl_guard_active` | `BeginScan` |
| `SignalEngine.scan`, one coin: LONG, then SHORT | `ScanCoin`, `SignalOf` |
| the loop over `signals[:3]`: `evaluate` | `Decide`, `Accepts`, `Skip` |
| `calculate`, `detect`, `calculate_levels`, `open`, `register_entry` | `Enter` |
| the end of the loop | `EndScan` |
| after `ReplayEngine.run`: `END_OF_DATA` | `EndOfData` |
| wall clock | `Tick` |

One task runs all of it, so nothing interleaves but the clock, by which the code
measures the cache, the cooldowns and the window of the stop-loss guard; it may
advance between any two actions.  What is hard here are the two books (the
`PolicyEngine`'s coins and exposure, the `PositionManager`'s list) that only the
order of calls keeps together, and the detector, which changes with every read.

Integers are exact where the code has floats: prices are whole, levels are in
ten-thousandths of a price, scores in ten-thousandths.  An event brings what the
features show after it (a trade those computed from trades, a book update those of
the book) because the computers are numerical.  `scan` reads the coins in any
order and signals of equal score are taken in any order.  Left out: `_daily_pnl`
(written but read nowhere in a replay), the `ExecutionSimulator` (not used by it),
statistics per coin, the summary numbers.  `close` removes the position equal to
the one given, as `list.remove` does on a dataclass.

### ActiveUsersCache, LoginLimiter, AccessGate

A request of the bot is suspended at two awaits: in the queue of `_refresh_lock`
(`phase[r] = "queued"`) and while it asks the bot (`"fetching"`).  `Arrive` is
`auth_middleware` and `ensure_fresh` up to the first suspension, `Acquire` the
second check under the lock, `Store` and `RefreshFails` the two ways a query
ends; the middleware reads `_cached_ids` without another await, so the request's
list is fixed in the same step (`Admit`).  `Prime` is the startup hook, which
refreshes without the lock but before any request is served.  The bot's users
change at any time (`UserChanges`), and its answer holds those of some moment
during the query (`BotAnswers`).  `since[u]` is history: when a user last
changed.

`LoginLimiter` keeps the deque of one address; beside it `passed[d]` counts the
attempts let through `d` ticks ago, which the deque must agree with after any
pruning.  `Tick` of `AccessGate` moves the clock, but never past the timeout of
a query and not while a request could run.  `HttpTimeout` bounds a whole query; httpx
applies its timeout to each operation (connecting, each read), so an answer that trickles
in can take longer, and `AllowListFresh` is relative to this bound.

Left out: the branch for a missing bot key (refresh returns None at once), the
JWT path (no state), the dictionary of addresses (one limiter per address).

### ExchangeFeed

| Code | Action |
|---|---|
| `start`: connect, fail, back off | `Connect`, `ConnectFails`, `BackoffEnds` |
| `_subscribe_coin`, `_unsubscribe_coin` | `PickCoin`, `Send` (one message), `CoinDone`, `SendFails` |
| the initial subscriptions are through | `Listen` |
| `_periodic_sync`, `_sync_subscriptions` | `SyncWakes`, `SyncRests` around the sends |
| `async for raw_msg in ws` | `ReadMessage`, `ReadClose` |
| `finally`, leaving `async with` | `LeaveLoop`, `CloseSocket` |
| `update_coins`, `stop` | `UpdateCoins`, `Stop` |
| the exchange | `ServerTakes`, `LinkCloses` |

The initial subscriptions and the sync task share `job`: what is left to add and
to remove, the coin being sent and how many of its two messages are out.
`wire` holds the messages the exchange has not read, `server` the subscriptions
it holds for this connection.  `_ws` keeps pointing to a connection that was left;
closing it again does nothing, so `Stop` acts on an open link only.

Left out: the length of the back-off, parsing and publishing (`EventPipeline`
starts there), the health counters, `BinanceWsClient` (the same loop with nothing
to subscribe).  `update_coins` never asks for no coin at all: a client without
data reads no message after which it could notice a stop by itself, and nothing
in the repository calls it that way.

### Validation

A validation has one task and no awaits; what is hard is the arithmetic and the
order of checks.  `RunExperiment` is one pass of the loop in `_run_batch`,
with the experiment it reads; `EndBatch` the flags, the blockers, the verdict (`Verdict`) and
the next batch.  Numbers are integers in the code's own last decimal (see the
head of the module) and are rounded where it rounds.  `RaisesTypeError` is the
`TypeError` of `None - x` and `round(None)`.

The decisions of the module were compared with those of the Python code (with
`MIN_TRADES` and the minimum of accepted trades set to the model's) on all 2801
histories of up to four trades of these kinds: there is no difference.

Left out: reasons, risk flags, confidence, the combination suggestion,
`run_single_batch`, the mode that builds trades from Parquet, breakdowns.

### QuantReports, ScoreParity, ExecutiveSummary

`QuantReports` and `ScoreParity` have no next-state relation: they hold one
operator per method, named like it (`_micro_value`, `_check_side_bias`,
`generate`).  No report depends on the order of the trades, so a dataset is a
bag, a function from kinds of trades to their number; that reaches the
thresholds of 30 and 100 trades with few states.  Groups, buckets and thresholds
are the code's; percentages are rounded as it rounds them.

`ExecutiveSummary` is `ExecutiveSummaryBuilder.build`: `ReadTrades`,
`ReadSignals` and the four queries of the analyzer that decide something are
actions (`ReadRow`), since each has a session of its own and sees what is stored by
then;
`Arrive` stores a trade or a signal at any moment between them; `Finish` is all
that follows, or the exception it ends with.  What a summary says is kept as a set
of names (`works`, `fails`, `keep`, `issues`), not as text.

The three modules were compared with the Python code as a whole: on 4200 random
bags of trades and signals of random kinds, with the queries of the analyzer run by
a database over the same rows, `Summary` says what `build` says, and raises when it
raises.  The only difference is in one bag whose gross profits and losses cancel out
exactly: there the code's sum of floats leaves a residue, by which it divides the
fees.

Left out: wording, breakdowns which no summary reads (by hour, regime, exit
reason beyond stop-losses), the two queries on rows before diagnostics, which
decide nothing, and the contents of the replay's files: only whether they exist
matters.

### AuditChecks, AuditRunner

| Code | Action |
|---|---|
| `run()` of a check up to its first await, `get_bot_token` with a young token | `Begin` |
| the login of `get_bot_token` | `LoggedIn`, `LoginFails` |
| `GET /api/hl/trading/history` | `AskBot` |
| the queries of the check, `last_result = result` | `Query`, `QueryFails` |
| `_persist`, `_update_global_score` | `Persist` |
| `_run_loop` after its sleep; `stop` | `Wake`; `Stop` |
| `run_all_now` | `RunAllNow`, and the same steps for each check in turn |
| the token's 50 minutes pass; the bot refuses old tokens | `TokenAges`, `BotRefuses` |

A loop and a request execute the same check without knowing of each other.
`began`, `overtaken` and `outdated` are history: which execution began before
which, and whether the result shown is older than the one it replaced.  What a
query returns is any member of `Observed`.  Left out: the stored runs and
findings, which the code only shows, and messages.

### BackgroundTasks

| Code | Action |
|---|---|
| `TelegramSummaryService.start`: the sleep is over, `_send_summary` up to the trade's user | `Wake` |
| `_gather_data` for the trade's user, or its exception | `Gather` |
| the rest of the messages, the next wait | `RoundEnds` |
| `SnapshotService.start`, `_take_snapshots` to its await | `TakeSnapshots` |
| its commit, or the exception | `Commit` |
| the feature store gets a trade or a book | `MarketEvent` |
| the bot enters, leaves, posts a trade | `Enter`, `Leave`, `PostTrade` |
| `PlatformRunner.stop`, the cancellation at its end | `Stop`, `CancelTasks` |

Time is in units, of which `Hour` make an hour and `Day` a day.  `now` is elapsed
time, which a sleep waits for; `Wall(now)` is what the local clock shows, from which
`_seconds_until_next_run` computes the wait.  A clock change is one jump of the wall
clock, in a sleep or in the middle of a round.  How long an await takes is chosen when it
begins, so a round has three moments: when it was due, when the query of the trade's
user runs (after the lookups and the messages to the users before) and when it ends and
the next wait is computed.  `rounds` keeps when each was due, `queries` what each
query saw of the trade.  `InWindow` is the 24 hours before the moment of the query, not
before the hour.  `FeaturesAtEntry` is the lateral join of the enriched dataset.

Left out: the message's text and figures, and the recipients but one; the messages to the
others are the time that a round takes.

## 3. Runs

| Run | Question | Distinct states |
|---|---|---|
| `bot` | overlapping deliveries of single events of every kind and of batches, allowed or not, with errors, lost confirmations and crashes: one row per identified event, ok only for what is stored, duplicates name their row, `ExactlyOnceIngest` is implemented; every request ends, also in a deadlock of two batches | 81 k |
| `bot_link` | trades and retries racing for the same signals: at most one signal per trade, links only inside the window and the scope | 0.5 M |
| `bot_link_kept` | violation, see Findings | |
| `pipeline` | three flushing tasks, failed writes, shutdown at any point: no row twice, none lost uncounted, what was buffered at stop is flushed; accepted events drain while the periodic loop lives; a shutdown ends | 0.2 M |
| `regime` | the search through a cut history answers what the reference remembers, as far back as the history reaches; neither cache nor persistence keeps an old regime for ever once the market rests | 30 k |
| `replay` | two coins, both directions: positions lie between their levels, stops only tighten, cooldowns and the stop-loss guard hold by the recorded times, the two books agree and so do the results counted beside them, the limits hold of the real positions | 1.2 M |
| `gate` | requests that share one refresh, while it fails, answers late or is shared by others and the bot's users change: a list let through is never older than its time-to-live plus one query, refreshes are a time-to-live apart, whoever queues gets through; logins never pass the limit in any window, and refused ones do not count | 0.3 M |
| `feed` | connections that close at any moment, coins updated in the middle of a round, stop at any point: the book of subscriptions is what the exchange serves, a lasting connection ends up with the desired coins, `start` returns after `stop` | 39 k |
| `validation` | all histories through all batches: stricter filters let fewer trades through; ADOPT means the best admissible experiment, better than the current one and above every threshold | 0.27 M |
| `summary` | trades and signals that arrive between the reads of one summary: conclusions, advice and lists do not contradict each other, no decision of high confidence is cut off, missing scores are reported only where the bot's own trades lack them, and a history with a loss of the bot's own is always summarised | 72 k |
| `audit` | executions of one check that overlap, overtake each other, fail and share a token the bot begins to refuse: the score is that of the worst finding, an outdated result and a dead token do not stay | 33 k |
| `services` | the clock put forward or back while the summary's task sleeps or sends, rounds that take their time, queries and writes that fail, trades posted late, commits that come late: an ordinary day has exactly one round at its hour, the days around a change none or two; a trade posted in time is missed only in the moments by which a query comes later after its hour than the one before; features joined to a trade are known at its entry and settle | 6.7 M |

Each property of a passing run has a mutant in `PROJECT.json`: an operator of the
module (commented "Mutant of ...") that replaces one definition the way a
plausible bug would, and under which TLC finds the property violated.

**Bounds.**  Two deliveries make the races of the receiver: both looking an event
up before one inserts it, two batches in opposite orders, a retry after a failed
or lost commit.  More of them are covered by the proofs, which hold for any
number.  `bot_link` has three: the delivery of two signals and two of trades, which
compete or are one and its retry.  A batch holds a new, a repeated and a refused
payload.  `MaxTime` is 1 in the link runs, so signals lie inside and outside the
window (`Before` = 1, `After` = 0) of trades at times 1 and 2; it is 0 where no
action reads the clock.  `MaxQueue` = `FlushSize` = 2: four events fill the queue,
fill a buffer, leave one half full and cross an hour.  Requests are symmetric in
`bot_link`; runs with liveness use no symmetry.  `MaxHistory` is 6 in
`regime` and 5 in `replay` instead of the code's 20, so that the history is cut
within the run: two runs of three fit in six.  A replay has at most five events and `ScanEvery` is 1, so a
position is entered, trailed, stopped and entered again after its cooldown of one
tick; two stop-losses within `SlWindow` = 2 close the engine; `MaxExposure` is
reached by two positions.  In `gate`, `Ttl` = 2 and `HttpTimeout` = 1, so within
`MaxTime` = 3 a list is fresh, expires, is renewed or not; three requests are one
that asks the bot and two that queue, the least with an order; the list is about
one user, since nothing in the code relates two; `RateMax` = 2 in a window of 1
is reached, left and reached again.  In `feed`, three coins are one that stays,
one that is added and one that is removed in one round, and `MaxWire` = 2 is one
coin's two messages.  In `validation`, the minima of trades are 3 and 2 instead of
10 and 5, and histories are up to five trades long: with them each of the five
decisions occurs in each batch it can occur in.  In `summary`, the numbers of
each kind of trade (0, 3, 4, 6, 30, 31, 61, 70, 101) lie on both sides of 3, 5, 10,
30 and 100, alone and together; one row arrives, since a second that falls between
the same two reads is another history.  In `audit`, one check with a loop and one
request are the two executions that can overtake each other (a loop never
overlaps itself); one refusal makes a token dead, which is renewed or not; lists of
two checks make the request's order and the minimum of two scores matter.  In
`services`, a day has four units and an hour two; the summary is due at the last
unit, and `MaxSend` = 1 is the least by which two queries can differ.  The platform
starts before or at that hour, so that the change of the clock, at 5 by an hour forward,
back or not at all, falls into a sleep or into a round; `MaxTime` = 8 reaches the second
summary and the midnight after it.  A snapshot is taken every four units and committed
within `MaxDelay` = 1, so that one lies before and one after a trade's entry.
Reachable are a day with two summaries, a day with none, a trade in the moments between
two windows, which none tells of, one that is posted too late, and a row committed after
the entry it lies before.  That a round ends within the hour (`MaxSend < Hour`) is an
idealisation: a message has a timeout of 10 s per operation, but the recipients are not
counted and the queries have none.

**Deadlock.**  Every request slot of `BotReceiver` ends, but `Crash`, `Start` and
acknowledgement keep a step enabled, so deadlock is checked there.  The pipeline
run switches the check off: the process exits; so do `replay` (a replay returns),
`feed` (`start` returns), `validation` and `summary` (a report is done), `audit` and
`services` (the loops end after a stop).

**Fairness.**  `BotReceiver`: weak fairness of a request's own steps (the event
loop resumes a task whose statement returned; a request that waits for another
transaction is not enabled) and of the deadlock detector.  None for the bot, for
errors, crashes or the start.  `EventPipeline`: weak fairness of the bus loop,
the periodic loop, the pool's threads and the steps of a shutdown that has begun;
none for publishing, signals and failures.  `RegimePersistence`: the clock ticks
and the engine, which scans for ever, asks for every coin again; none for the
market.  `AccessGate`: the startup hook runs, a query of the bot ends (the HTTP
client's timeout) and a request woken by the lock goes on; none for the bot,
for arrivals, logins or the clock.  `ExchangeFeed`: each of the tasks goes on when
it can, timers expire, an attempt to connect ends, the exchange reads what is
sent, and a subscribed client receives data; none for updates, stop or closes.
`AuditRunner`: weak fairness of a loop's steps (a sleep ends, a query returns or
raises) and of the token's age; strong fairness of its queries and logins, that is,
of a query repeated for ever not every one fails; none for requests, refusals or
stop.  `ExecutiveSummary`, `BackgroundTasks`, `FullReplay` and `Validation` are
checked for safety only and state none.

## 4. Proofs

Each theorem holds for every value of the constants that satisfies the named
assumptions of the component's module: any sets of requests, events, coins or
users, any queue size, and any value of the bounds of section 3.  TLC evaluates
the assumptions in the runs.

| Module | Theorem | Statement |
|---|---|---|
| `BotReceiverProofs` | `TypeCorrect` | `Spec => []TypeOK` |
| | `ExactlyOnce` | `Spec => []UniqueEventId` |
| | `OkRepliesAreStored` | `Spec => []OkReplyStored` |
| | `DuplicatesNameTheirRow` | `Spec => []DuplicateNamesRow` |
| | `ImplementsIngest` | `Spec => IngestSpec` |
| | `TradeExplainsOneSignal` | `Spec => []OneSignalPerTrade` |
| | `LinksAreSound` | `Spec => []LinkSound` |
| `EventPipelineProofs` | `EventsInOnePlace` | `Spec => []OnePlace` |
| | `NoEventVanishes` | `Spec => NothingVanishes` |
| | `ShutdownFlushes` | `Spec => []StopFlushes` |
| `AccessGateProofs` | `ServedListIsFresh` | `Spec => AllowListFresh` |
| | `OneRefreshPerTtl` | `Spec => RefreshesApart` |
| | `LoginsAreLimited` | `Spec => []LoginsLimited` |
| `EngineProofs` | `OpenPositionsLieBetweenLevels` | `Spec => []LevelsHeld` |
| | `StopsOnlyTighten` | `Spec => StopNeverLoosens` |
| | `CooldownsAreKept` | `Spec => []CooldownKept` |
| | `GuardIsKept` | `Spec => GuardKept` |
| | `PolicyLimitsHold` | `Spec => []WithinLimits` |
| | `TheBooksAgree` | `Spec => []BooksAgree` |
| | `AnswersAreConfirmed` | `PersistenceSpec => []AnswersConfirmed` |
| `ExchangeFeedProofs` | `SubscribedCoinsAreServed` | `Spec => []SubscribedIsServed` |
| `BackgroundTasksProofs` | `MissedTradesAreBetween` | `Spec => []MissedOnlyBetweenWindows` |
| | `SummariesAreDaily` | `Spec => []OncePerDay` |
| | `FeaturesSettle` | `Spec => EntryFeaturesSettle` |
| `ReportProofs` | `GlobalScoreIsWorst` | `AuditSpec => []ScoreIsWorst` |
| | `ThresholdsNest` | `ValidationSpec => []FiltersNest` |
| | `AdoptedIsSound` | `ValidationSpec => AdoptIsSound` |
| | `ConclusionsDoAgree` | `SummarySpec => []ConclusionsAgree` |
| | `AdviceDoesAgree` | `SummarySpec => []AdviceAgrees` |
| | `HighDecisionsAreKept` | `SummarySpec => []NothingHighIsCut` |
| | `LossesGiveSummaries` | `SummarySpec => []LossesAreSummarised` |
| | `IssuesAreReal` | `SummarySpec => []IssuesMeanMissingScores` |

With them every safety and every action property that a passing run checks is a
theorem; `bot_link_kept` is the one that shows a violation.

**Receiver.**  `IInv` has three parts, each a lemma chain `...Init`, `...Step`.

* `TypeInv`: the types, that a request that arrived holds a body (one payload
  unless it is a batch), that only an ended handler has replied, and that the
  records left are positions of the body.  `RequestFrame` states once what all
  steps of a request have in common.
* `UniqueInv`: `UniqueEventId` alone is not inductive, since a commit could
  bring a second row.  `OwnUnique` says that an identified event is in at most
  one open transaction and not in one once it is stored.  An INSERT establishes
  it because it neither waits nor conflicts (`UniqueInsert`), and a commit uses
  it (`UniquePersist`).
* `ReplyInv`: until a handler ends, each event of its body is stored, in its open
  transaction or still to be inserted (`Accounted`), and each phase says which
  of these can be empty: nothing is left at the commit, nothing is open in the
  fallback, and a request that lost the race finds its event.  The subtle step
  is `InsertConflict`: the rollback of a batch empties the transaction, and the
  records must go back to `left`.

The refinement uses these: a step that changes `rows` is `Store`, because
uniqueness holds afterwards, and an acknowledgement is `Forget`, because of
`ReplyInv`.  The back-links need `LinkInv` besides: the timestamp of a stored row
no longer changes, what a request selected stays a signal its trade explains
until the commit (`PickSound`), and a link names a request that has ended
(`LinksOnce`).  With `UniqueEventId` it follows that a trade explains one signal.

**Pipeline.**  `PlacesApart` alone is not inductive: a flush could put into its job
what another holds.  `JobsMatchTasks` says that a task which is not suspended in a
write has no job, so none is overwritten; `BuffersByKey` that a buffer's events are
of its key, so that buffers are disjoint and `flush_all` lists every one with events.
`StopVisits` is what the final flush still owes: what was buffered at the stop and
still is lies under a key it has yet to visit.

**Gate.**  `CacheInv`: one query at a time, the unlocked one at startup included,
because nothing is served before it returns; a query's answer is the bot's users
of a moment after it was sent, and it ends within its timeout; so a list is
as old as its `cachedAt` and one query at most.  `LimiterInv`: the deque holds the
attempts that passed, sorted, and for each age within the window as many as
`passed` counts.

**Replay.**  The invariants build on each other.  `BookInv`: the two books name the
same coins, one position each, `to_close` holds at most the one position that hit
a level and nothing outside the handling of an event, every other position
lies between its levels.  `CooldownInv` and `GuardInv` tie the recorded exits to the
policy's cooldowns and to the list of the `RiskManager`, for every later moment,
which is why trimming and expiring entries lose nothing.  `MoneyInv` carries the sum
of sizes through marks, entries and closes; `StatsInv` the counts and results per
regime; `EnteredInv` that an accepted signal has a price to enter at, since its
trend comes from trades (`FeedAssumption`).

**Regimes.**  Per coin, `Counts` ties the reference's run to the end of the history and
`Remembers` puts the confirmed regime as many places before the end as the reference
counts; cutting the history shifts both.

**Feed.**  `OneSender`: initial subscriptions and sync task never send at once, and a
job is not replaced while a message is out; `OnItsWay`: what the exchange will hold
once it has read the wire, for the coin in the hand of the sender too.

**Background tasks.**  `ChainInv`: there are moments `from`, the ends of the rounds, such
that each round was due when the wait computed at the end of the one before was over,
and ended within `MaxSend`.  From it the days follow by arithmetic: a wait ends at the
next moment the clock would show the hour (`TargetIsFirst`), is wrong by the change only
if it crosses it (`AfterIs`), and that happens within a day of the change
(`CrossedNear`).  The rounds of a day are before the change, waited for across it or
since (`OneOfAKind`), and never of all three kinds (`NotAllKinds`).  Two rounds are due at most a
day of elapsed time apart (`WithinADay`), though the wait is computed up to `MaxSend`
after the hour.  `QueryInv`: the queries are those of the rounds, and a trade that was
open at the last is left after it; so a query's 24 hours hold it unless it was left in the
moments by which the query is later than the one before.
`SnapshotInv`: rows are committed in the order of their times.

**Audit.**  `AuditInv`: the results shown are `Graded`, their status and score being
those of their worst finding, which the fold over a check's findings keeps however they
are ordered (`AddGrades`, `ResultGraded`); and whenever the executions are `Settled`, the
score is the minimum of the results shown (`ScoreOK`).  Between `Store` and `Persist` it
need not be, which is why the property speaks of settled states: a step that could settle
them computes the score (`CountsScore`), from the results of all checks and not only of
its own, and any other that stores a result leaves them unsettled (`AwaitsScore`).

**Validation.**  A stricter filter accepts a subset of the trades (`Stricter`), given
that the thresholds rise along their batches (`ScoreRises`, `RatioRises`) and that the
results are those of the batch's configurations on one and the same history.
`AdoptIsSound` is about the moment a batch ends and needs `ValidationInv`: the results
are those of the experiments run so far (`ResultsOK`), and `best` is the first maximum
among the admissible ones, 0 only if none is (`BestOK`), although the loop compares
each experiment with the best one so far and not with all.

**Executive summary.**  `SummaryInv` has two halves.  Rows are only added, so what a
query returned keeps telling something of what is stored now: a complete row without
missing scores of a table in which none lacks one, a total above zero of a dataset with a
loss of the bot's own (`RowsOK`, which arrivals keep by `FactsKept` and reads extend by
`FactsGrow`).  And a summary that is built is a function of the dataset and these rows
(`EndOK`).  What is left are facts about the pure functions, for every bag of trades:
sums over kinds of trades (`SumPositive`: one loss makes the total of losses positive, so
the profit factor exists), the thresholds of four engines against each other
(`Agreement`), and how many decisions of high confidence the checks can find: three for
the coins and one each of five other checks, eight together (`FoundIs`), so that the lists
cut at eight and at ten keep them all.

**How.**  `FoldLemmas` states induction about sets (`StepInduction`: a set of numbers
that holds 0 and each successor; `SubsetInduction`), because a theorem over operators
cannot be instantiated; existence and values of folds, of the community modules' sums
and of filters are derived from it.  Some operators of the models are written so that
they can be reasoned about: filters whose results matter are folds (`Only` of
`FullReplay`, `Selected` of `QuantReports`), since `SelectSeq` is recursive and opaque to
the provers, and `LoginLimiter` prunes with `SubSeq`.  The detector, the validation, the
summary and the audit name their `Init`, `Next` and `Spec` after themselves, because
one proof module extends several of them.

The assumptions say what the configurations satisfy and the code justifies.
`FeedAssumption`: the shape of recorded events.  `NoneAssumption`: no regime is called
none.  `ScheduleAssumption`: the clock changes by an hour, after the
start, a round ends within the hour, and an hour and a round are less than a day.  `AuditAssumption`: the registered checks are some of the four, and at least
one (`PlatformRunner.build` registers all).  `ValidationAssumption`: a history is a
sequence of trades with numbers for fields, and the two minima are positive.
`SummaryAssumption`: a history is a finite bag of typed rows.

**Model-checked only.**  Liveness and everything about ENABLED is out of the
prover's reach: `RequestsEnd`, `EventsDrain`, `ShutdownEnds`, `AnswerCatchesUp`,
`RequestsPass`, `DesiredIsServed`, `StopEnds`, `OutdatedIsReplaced`,
`DeadTokenReplaced`.  That the recursive sums and folds compute what the code's
loops do is checked on bounded inputs and, for the reports and the validation, by the
comparison with the Python code described in section 2.

## 5. Findings

* **A link can be taken over** (`bot_link_kept`).  The comment on the back-link
  says "only if not already linked (idempotent)" (`bot_receiver.py:545`).  Two
  trades of the same user, coin and side can select the same signal, each in its
  own snapshot; the second waits for the first one's row lock and then
  overwrites its link.

Seen while reading or modelling, without a run of its own:

* A shutdown drops what the bus holds.  The storage subscription is "critical --
  data must not be lost" (`runner.py:75`), but `EventBus.stop` leaves the queue as
  it is and the writer is flushed at once (`runner.py:183`).  `NothingVanishes`
  therefore speaks of the running platform.  A write that fails in the final flush
  ends the shutdown with the other buffers unflushed (`runner.py:184`).
* A position can be opened in a blocked regime: `on_event` calls `detect` again
  after the decision (`full_replay.py:191`), which can confirm `quiet`, although
  `regime_blocks` says "block entries in these regimes" (`policy_engine.py:35`).
* A validation with an experiment that filters all losing trades out ends with a
  `TypeError`: the profit factor is None (`metrics/engine.py:52`) and `_run_batch`
  does arithmetic on it (`validation/runner.py:164`, `:175`).  `RaisesTypeError` models
  it.
* `run_single_batch` gives no `profit_factor` in its baseline, so `pf_change` is 0
  and it can never say ADOPT; `_extract_changed_params` does not know the ratio
  filter, so an adopted one is missing from the combination suggestion;
  `trailing_distance_pct` varies in a batch but is simulated nowhere.
* The persistence filter forgets a confirmed regime once noise has filled its
  history (`detector.py:163`), after which each reading switches the regime.
* An executive summary of a history without a trade of the bot's own raises
  `KeyError`: the anomaly of the missing row formats a key the row does not have
  (`score_parity.py:280`), so the branches for an empty database are never
  reached.  One without a loss raises `TypeError`, since `_extract_what_works`
  compares a profit factor of None (`executive_summary.py:232`).
  `LossesAreSummarised` says that nothing else raises.
* Confidence HIGH asks for a replay status that `_build_replay_evidence` never
  gives, and a status "ERROR" counts as data that exists.  `real_status`,
  described as "post-diagnostics only" (`score_parity.py:357`), uses the critical
  anomalies of all rows.  Data quality can be GOOD while the joint conclusion is
  BLOCKED_BY_DATA_QUALITY.
* Without a single trade that moved enough to measure it, the efficiency of exits
  is read as 0 and `_check_trailing` advises a tighter trailing stop with high
  confidence (`decision/engine.py:116`).
* `invalidate_cache` of the bot token is described for use "on 401" and called by
  nothing; a refused token is used until it is 50 minutes old.  That it is not used
  longer is `DeadTokenReplaced`.
* `run_all_now` does not store its results; they are shown until the next
  scheduled execution.
* On the day the clock is put forward the daily summary comes an hour late, after
  midnight, and on the day it is put back twice, an hour apart
  (`telegram_summary.py:43`).
  Computing the wait in elapsed time instead, with the same window of 24 hours,
  would leave the trades of an hour out of every summary in autumn: this is the
  mutant of `MissedOnlyBetweenWindows`.
* The window of a summary begins 24 hours before the query runs (`now() - interval
  '24 hours'`, `telegram_summary.py:107`), which is after the recipients are looked
  up and the users before got their messages.  When that takes seconds longer than the day
  before, a trade left in these seconds is told of by no summary; when it takes less, one
  is told of twice.  `MissedOnlyBetweenWindows` says that nothing else is missed of what
  was posted in time.
* A trade that is posted after its window is in no summary, and one that a failed
  query or message should have told of is in no later one: a round is never
  repeated (`telegram_summary.py:89`).
* `AlertManager`, `MetricsCollector`, `EvaluationService` and `BacktestRunner` are
  constructed by nothing; the last would end at its first event, since it awaits
  the bus's `SubscriberInfo` objects as handlers (`backtest_runner.py:116`).

## 6. Plan

Done: the models of `BotReceiver`; `EventPipeline`; `RegimeDetector`,
`RegimePersistence`; `FullReplay`; `ActiveUsersCache`, `LoginLimiter`,
`AccessGate`; `ExchangeFeed`; `Validation`; the chain of reports up to
`ExecutiveSummary`; `AuditRunner`; `BackgroundTasks`; and the proofs of section 4.

Left to model:

1. Determinism of a replay: two replays of the same events in lockstep under
   different clocks, which squares the states of the `replay` run.
2. `run_single_batch` and the combination suggestion of the validation.
3. The replay builder of the datasets and the verdict of the trade analyzer, pure
   functions of one trade.

Left to prove: the liveness properties, with a prover that has rules for fairness
and ENABLED.

### Not modelled

* The floating-point feature computers: a market's features are an input.
* The signal evaluation service, the alert manager, the metrics collector, the
  backtest runner and the daily audit script: nothing in the repository runs them
  beside the platform.
* The daily report of the audit, the impact of change markers and the research
  reports: one read-only query after another, whose results are formatted and
  shown; they keep no state, and nothing decides by them.
* The remaining endpoints of the dashboard: read-only SQL.  The JWT path of the
  middleware keeps no state.
