# TLA+ specifications of qantyrex

Specifications of the parts of this trading system whose behaviour is more than
arithmetic: what may be traded, how an open position is protected, how orders
reach an exchange, and how a backtest keeps its books.  Each module is a
translation of the Python source; `PROJECT.json` names the lines each definition
stands for.  Run `tlc -config X.cfg MCModule` to check a model and
`tlapm ModuleProofs.tla` to check the proofs.

## The system

qantyrex looks for trade signals in crypto candles, sizes and gates them by
risk, executes them on paper or through ccxt, manages stops, and is operated
over Telegram.  A second half of the code validates strategies: simulator,
walk-forward, sample gates, promotion, reports.  `main.py:91-95` names the steps of
the production loop and leaves the loop out, so the caller of the risk manager, of
the stop manager and of the order manager is external in every module here.

| Component | State | Operations | Interacts with | What is hard |
|---|---|---|---|---|
| Position sizer `risk/position_sizer.py` | none | `size_position` | risk manager calls it | rounding, caps, boundaries |
| Risk manager `risk/*.py` | equity (four copies), day start, streak, breakers, exposure registry, correlations | `evaluate_signal`, `on_trade_closed`, `update_equity`, `rollover_day`, `reset` | asked by the loop and the tracer; owns its monitors | operations that raise halfway, limits that must compose, locks without an exit |
| Stop management `execution/sl_tp.py` | the positions it is given, `_moved_be` | `update` per bar | caller opens and closes | restarts, failed exits, entries beyond the stop, a zero taken for None |
| Backtest simulator `backtest/simulator.py` | running equity, day, positions, journal, rejections | `run`, `_manage`, `_exit` | pipeline, tracer | order of events in time, double bookings, end of data |
| Order manager, executors `execution/order_manager.py`, `executor.py` | registry of orders, open set; the exchange's book | `submit`, `cancel`, `modify`, polls, `close_all` | exchange through ccxt | lost answers, races with fills, restarts, replaced orders |
| Lifecycle `core/state_machine.py`, `startup.py`, `execution/execution_guard.py`, `telegram/` | system state, configuration | start checks, `transition`, Telegram commands, `can_trade_live` | operator, loop | ways out of the risk lock, commands between steps of the loop, three copies of what LIVE needs |
| Paper executor `execution/executor.py` | balance, positions, last prices | `create_order`, `close_position`, `get_positions` | loop, reconciliation | what a close pays back, orders that overwrite positions |
| Reconciliation `execution/reconciliation.py` | none | `reconcile` | exchange, local positions | positions that hide each other, orders sent before a difference is found |
| Monitoring `monitoring/` | window of results, health checks | `add_trade`, `evaluate`, `all_healthy` | loop | locks that must stop the trading |
| Signal engine, strategies `strategy/`, `indicators/` | none | `evaluate`; diagnostics beside it | indicators | order of gates, two copies of the gates |
| Signal tracer `execution/signal_tracer.py` | counters, journal of verdicts | `run_trace` | engine, risk manager, simulator | counters that only grow, signals without a verdict |
| Historical ingestor `data/historical_ingestor.py` | pages, cursor, cache files | `ingest` with retries | exchange | failed pages, resuming, no progress |
| Data checks `data/validator.py`, `*_audit.py` | none | `validate`, `audit`, `audit_timestamps` | pipelines | three checks that must agree |
| Engine, walk-forward, holding analysis `backtest/` | windows | `split_data`, `run`, replay | simulator | overlapping windows, a copy of the stop rules |
| Promotion `research/`, `pipeline.py` | asset results | sample gates, readiness, `run_real_pipeline`, `aggregate_report` | reports | two sets of gates on one evidence, skipped assets, exceptions |
| Feature store, cache `data/feature_store.py`, `cache.py` | LRU map under a lock | `get`, `put` | | |
| Storage, reports, statistics | database rows | | | pure I/O or statistics |

`PROJECT.json` lists every component with what is modelled of it, and under
`hazards` what in the code a test would hardly reach, each at its line.

## Modules

| Module | Models | Notes |
|---|---|---|
| `PositionSizer` | `risk/position_sizer.py` | pure operators on exact integers |
| `RiskManager` | `risk/risk_manager.py` and the monitors it owns | EXTENDS `PositionSizer` |
| `ProtectiveStop` | the promise of `execution/sl_tp.py:3-4` | abstract specification |
| `SlTpManager` | `execution/sl_tp.py` | implements `ProtectiveStop` |
| `Simulator` | `backtest/simulator.py` | |
| `HoldingAnalysis` | the replay of `backtest/holding_analysis.py` | EXTENDS `Simulator` |
| `OrderManager` | `execution/order_manager.py`, `LiveExecutor`, the exchange | |
| `HistoricalIngestor` | `data/historical_ingestor.py`, the exchange's candles, the cache file | |
| `SignalEngine` | `strategy/signal_engine.py`, the classifiers, `strategy/diagnostic.py` | pure operators on a feature row |
| `SignalTracer` | `execution/signal_tracer.py`, `Backtester.run` | composes `SignalEngine`, `PositionSizer`, `Simulator` |
| `DataQuality` | validator, quality audit, timestamp audit | pure operators on a frame |
| `Promotion` | sample gates, strategy selector, edge, stress verdict, aggregate | pure operators on evidence |
| `WalkForward` | `backtest/walk_forward.py` | EXTENDS `Promotion` |
| `ResearchPipeline` | `research/real_pipeline.py` | composes `WalkForward`, `DataQuality` |
| `Lifecycle` | state machine, start, Telegram commands, execution guard | |
| `PaperExecutor` | the paper account | |
| `Reconciliation` | `reconcile` and `has_issues` | pure operators on lists |
| `Monitoring` | results window, degradation verdict, health | pure operators |
| `TradingDesk` | the loop and the exchange around it | composes the four above |
| `MC*` | instances for TLC | |
| `*Proofs` | theorems | each EXTENDS the modules it is about |
| `SumTheorems` | laws of sums over finite sets | used by the proofs about journals, windows and registries |

Definitions whose name begins with `Bug` are wrong variants of the definition
below them; they are used by no specification and exist to see that each
property notices its own kind of fault.

### RiskManager

One action is one call of the manager, or one step of the loop around it.
`evaluate_signal` is three actions, by how it ends: `RefuseAtGates` (breakers,
position count, risk factor, size), `RefuseExposure`, and `Approve`.  All three
store the breakers it has evaluated.  `on_trade_closed` is `CloseTrade`: streak,
then the equities, then the monitor, which raises on a negative equity and
leaves its own equity as it was; the verdict is the enum the method returns or
the exception it raises, `RISK_LOCK`, `RiskLimitBreached` or `ValueError`.
`UpdateEquity`, `RolloverDay`, `ResetBreakers` and `SetCorrelation` are the
methods of those names.  Equity in the manager, in the portfolio and in the
exposure monitor always change together and are the one variable `equity`; the
drawdown monitor's is `cur`, because it does not.

External: `book` (open trades), `pending` (an approval that is not filled) and
the order of calls.  Three things are assumed of the loop: it passes the number
of its open trades, it asks about one signal at a time and only about symbols it
holds nothing in, and it re-registers its positions after each fill and each
close that did not raise.  Everything else is free: days roll over and equity is
re-marked between an approval and its fill, approvals lapse, closes lose more
than was budgeted.

Money is a small integer unit, limits are basis points, risk factors per cent.
All comparisons of the code are then exact.  The default tiers of
`drawdown.py:34-40` are written out.

### SlTpManager and ProtectiveStop

`update` is `UpdateExits` or `UpdateMoves`, by whether it returns a reason.  The
caller closes a trade only after a reason was returned, but need not:
`UpdateMoves` after an exit is an exit that failed.  `Restart` empties
`_moved_be` and keeps the positions.  Buy and sell are one definition over
*levels*, the price in the direction of the trade.  `ProtectiveStop` says that a
stop's level never falls; the refinement maps the stop of every position to its
level.

### Simulator

`run` with `phase = "signal"`, `_manage` with `phase = "manage"`.  One action is
one signal refused (`RejectSignal`) or filled (`FillSignal`), one candle of
`_manage` (`ManageExit`, `ManageMove`), its end (`ManageEnds`), one exit at the
end of the data (`TimeoutExit`), or the return (`Finish`).  Candles and signals
are chosen by `Init`.  A draw against a probability is a choice.  Percentages
(slippage, spread, fees) are fixed amounts, and half the quantity stands for all
partial fills.

### HoldingAnalysis

`_replay_position` walks a closed trade once more with a copy of the stop rules of
`_manage`: `Replay` is a recursive function of the bars, one `ReplayBar` each, and
`Analyses` what `analyze_holding_period` reports of each trade's stop.  What a bar is
described with beside its stop is left out.

### OrderManager

`LiveExecutor` calls ccxt synchronously inside its coroutines, so each coroutine
of the manager is one action and only the exchange comes between two of them.
`create_order` has three outcomes: taken (`Submit`), refused (`SubmitRefused`),
and taken with the answer lost (`SubmitLost`), which the code cannot tell from
the second.  `Poll` copies status and fills, or the status is missing and becomes
PENDING.  `Modify` edits in place, or the exchange cancels and replaces.
`ExchangeFill` and `ExchangeEnd` are the exchange by itself.  `Restart` empties
the registry.  A call that raises `ExchangeError` with no effect is a stutter.

`uncertain` is history: the signals of which the manager has missed an event (a
lost answer, a replaced order, a missing status, a restart).

### HistoricalIngestor

One action is one attempt of `_fetch_page` with what `ingest` does with its
outcome: `FetchFails` (another attempt follows), `GiveUp` (the page is recorded and
skipped), `FetchEmpty`, `FetchPage` for a page of up to `Limit` candles, and
`FetchStale` for an exchange that answers a request beyond its newest candle with
that candle.  `Ingest` reads the cache, `Save` writes it, `Crash` ends the process
anywhere and may spoil the file during `Save`.  Time is counted in candles.  `lost`
is history: the candles of pages that were given up.

### SignalEngine and SignalTracer

A row of the feature table says what the gates compare: the signs of price and
EMAs against each other, of the slope and of the moves of RSI and MACD, the values of
ADX, rank, RSI and ATR, and the distances to the nearest levels; any of them may
be NaN.  `EngineRefusal` is `evaluate` as the first gate that refuses, in the code's
order; the score is exact, in units that make every component an integer.
The diagnostics repeat these gates in code of their own (`ConditionHolds`,
`IsCandidate`) and are translated separately.

`run_trace` is `EngineRejects`, `RiskRejects` or `Accept` for each bar, `Simulate` the
hand-over to the actions of `Simulator`, `Merge` the classification of what the
simulator did.  `BacktestSignals` is what `Backtester.run` would hand over from the
same table.  The risk manager enters as its breakers' verdict and its risk factor,
because a scan does not change it.

### DataQuality, Promotion, WalkForward and ResearchPipeline

`run_real_pipeline` takes one symbol after the other through one action per step,
`Skip` (the ingest raised or returned too little), or `Raise`: only the ingest is
guarded, so an exception behind it leaves the call with the results of the assets
that were done.  Backtests, Monte Carlo and stress test compute statistics over
floats: each answers with any of a small set of outcomes that its inputs allow (a run
of n bars has fewer than n trades).  Metrics are gross amounts, so that profit
factors and expectancies compare exactly.  The audit, the windows, their aggregates
and all gates are computed.  `run_pipeline` applies other gates to the same
evidence; its verdicts are `PipelineReadiness` and `StatisticalEdge`.

### Lifecycle, PaperExecutor, Reconciliation, Monitoring and TradingDesk

`TradingDesk` is the loop, in the order `main.py:91-92` gives: prices and health
checks (`FetchData`), at most one order (`PaperEntry`, `LiveEntry` or `NoEntry`),
`Reconcile`, `Monitor`.  That each step makes the calls the code offers for it is
external and assumed: is_trading_active or the guard is asked before an order,
with no await between the answer and the sending; a mismatch locks
(`tests/test_recovery.py:33-34`); a severe verdict locks (`degradation.py:3`);
failed health checks lead to ERROR.  Between any two steps the operator sends a
command, an order is polled, a position is closed, the exchange fills, cancels or
closes, and the process ends, crashes and starts anew (`Restart`): the machine's
state and the paper account are gone, the exchange is not, and the book is
reloaded, lost, or reloaded without stops.  A deployment keeps its mode; the rest of
its configuration is read again at each start, and may have been spoilt meanwhile.

`Boot` is the start to its verdict, `Dispatch` a command that has an effect: others
are denied, or answered only.  `Transition` leaves the state when it is illegal,
as every caller catches the exception.  A live close is taken at once or refused,
and either way leaves the book: `close_position` swallows the exception.  The
exchange nets the lots of a symbol; prices of live orders are left out.

`word` is the last word on trading: "run" once the operator or a passed start asked
for it, "stop" after a pause, a stop or a lock.  It survives the process, and a start that
fails its checks does not change it.  `blind` counts the orders sent, since the last
start, while book and exchange differ in what they hold.  Both are history.

## Runs

| Run | States | What it shows |
|---|---|---|
| `risk` | 276,168 | below |
| `sltp` | 58,564 | below |
| `simulator` | 508,570 | below |
| `orders` | 5,790,375 | below |
| `ingest` | 1,215,635 | below |
| `signals` | 42,586 | below |
| `promotion` | 904,711 | below |
| `desk` | 4,164,652 | below |
| `sim_stop`, `sim_limit`, `sim_lookahead`, `orders_duplicate` | | what the code or a test says and the code does not do |

**risk.**  `EmergencyNeedsShock`: sizing, tiers, daily lock and position limit
leave so much room that losing all open trades at their stops never reaches the
emergency drawdown; only a loss beyond the budget, a re-marked equity or a day
restarted at another equity does.  `OpenWithinLimit`: the position limit holds
with approvals still to be filled.  `RegistryCoversBook`: hypothetical positions
are undone, and a report that raises leaves the registry on the safe side.
`ApprovalsSeeTrueEquity`: no approval on an equity the drawdown monitor refused.
`ApprovalsKeepLeverage`: an approval keeps the whole real book within the
equity.  `CloseVerdictMatchesBreakers`: a close says RUNNING exactly when the
breakers, evaluated next, let a signal through.  `StreakLockIsTerminal`: a flat
manager in a streak lock never trades again, whatever is reset or rolled over;
the code has no way out and an operator should know.

*Bounds.*  Three symbols, so that two can be linked and a third be free; two open
trades; four closes: enough for the streak limit (2), a win that ends it, and a
second streak; four signals so that sizing, leverage and correlation each refuse
some; outcomes from a win to a loss of more than the account, so that every
verdict occurs.  `MaxCloses` is the only bound in a guard.

**sltp.**  `StopNeverLoosens`: the refinement of `ProtectiveStop`.
`BreakEvenIsSafe`: whoever is flagged `break_even` can no longer lose at its
stop, also when a restarted manager moves it a second time.  `StopBehindMarket`:
a stop is never beyond the best price seen.  *Bounds*: two trades over three kinds
of opening (long, short, long whose entry gapped below its stop), seven prices,
bars at most three wide, with and without ATR.  No guard is bounded; the state
space is finite because prices are.

**simulator.**  `AuditIsComplete`: the audit starts at the initial stop, each
entry continues the one before, and the last is the stop in force, also with two
moves on a bar.  `EquityFollowsJournal`: the equity behind the daily
limit is the journal's less each entry fee a second time (the fee is taken at the
fill, line 145, and again inside the pnl, line 273): it understates and never
overstates.  `EverySignalIsAccounted`: when `run` returns, every signal was refused or
has exactly one row in the journal, which opens behind its signal's candle and
closes no earlier.  `ReplayFollowsTheJournal`: the holding analysis, with its own copy of
the stop rules, arrives at the journal's stop, but for three cases in which the
copies differ and which the property names: a stop that trailed before it broke
even, an entry filled beyond its stop, and an ATR of zero.  `Terminates`.  *Bounds*: four candles
of five shapes over two days, up to two signals of eight kinds, latency 0.  Two
signals are the fewest that interact; four candles allow a move, a second move on
the same or the next bar, and an exit or the end of data.  Deadlock is not checked:
`run` returns.

**orders.**  For signals of which nothing was missed: at most one live order at
the exchange (`OneLiveOrderPerSignal`), through retries, cancels, and races; and
`open_orders()` covers all that is open (`OpenOrdersAreCovered`).  For all
signals: what the registry holds for final is final at the exchange, and it never
counts fills that were not made (`RegistryTellsTheTruth`).  *Bounds*: two
interchangeable signals (symmetry), orders of one or two lots, two orders in the
registry between restarts, three at the exchange.  `MaxAttempts` and `MaxOrders`
bound guards.

**ingest.**  `OnlyFailuresLeaveHoles`: between the first and the last candle of
the download and of the cache nothing is missing but pages that were given up,
whatever the sizes of pages, the resumes and the order of failures.
`CleanReportIsComplete`: a report without errors of an ingest that did not resume
is of a download without a missing candle; both conditions are needed, as the
report of a resumed ingest says nothing of pages an earlier one skipped, nor of
the candles before a cache that begins later.  `CacheNeverShrinks`, but for a crash
while the file is written.  `IngestReturns`.  *Bounds*: pages of up to two candles,
three pages, two attempts, six candles (`MaxTip`), three ingests (`MaxIngests`)
with and without a start and an end.  Three pages allow one to fail before, between
and behind others; three ingests let one resume after a resumed one.  Deadlock is
not checked: after the last ingest nothing is left to do.

**signals.**  `EveryBarIsTracedOnce`: no bar is left without a classification or has
two, across the hand-over to the simulator and back, and the classes agree with
its journal.  `TracerTakesAPrefix`: the tracer counts every accepted signal as open
for ever, so it follows the backtest it explains for `max_open_positions`
signals and no further; what it takes is a prefix and nothing else.
`SimulatorRefusesForTheMarket`: a signal that passed the engine and the risk manager
is refused by the simulator for the end of the data or the daily limit only.
`BaselineIsTheEngine`: the diagnostics' copies of the gates promise nothing
the engine refuses, and miss only signals whose stop the structure tightens.
*Bounds*: four bars.  Wide charts hold every row that differs in up to two columns
from a good buy or sell row, in a perfect and a poor market, so each gate refuses
alone and before any other; deep charts every sequence of four kinds of rows on
three kinds of candles; managed charts every verdict of the risk manager.

**promotion.**  `EveryBarIsTestedOnce`: windows fit the frame, train before they
test, share no tested bar and leave none out.  `AggregateNeverFlatters`: the
aggregate leaves windows without a loss out of the profit factor, and that
never makes it better than the trades are.  `EligibilityIsBacked`: the report has every
symbol in order, and an aggregate PAPER_TRADING_ELIGIBLE rests, asset by asset, on
as many trades and tested bars as the sample gates ask for.  `ReadinessNeedsEdge`: the
two verdicts that `main.py:77-79` prints one below the other do not contradict each
other: readiness is PAPER_TRADING at most, and then the edge is there.  It says nothing
of the stress test, which readiness does not ask for (see the disagreements below).
`FramesKeepTheirGrade`: on every ingested frame the audits pass exactly
what the validator accepts and finds no gap in; of an accepted frame only the number of
gaps worsens the grade.  It may worsen it to FAIL: the validator tolerates each gap
by itself, so a frame with regular gaps of the tolerated length is accepted by the one and
failed by the other (`quality_audit.py:123`, from ten gaps; from three in the run).
*Bounds*: two symbols, so that one can be skipped or fail beside the other;
frames of one, two and three windows; every field of a candle spoiled in every way a
check asks about; gaps of each length, at one place and everywhere, below and at the
limit of the audit; outcomes on both sides of each gate.

**desk.**  `OrdersNeedAStart`: an order is sent only if since the last pause, stop or lock
the operator has started the trading or a new process has passed the checks of its
start, and if the configuration in force passes them: no way through RISK_LOCK,
ERROR and READY ends in trading by itself.  What a pause does *not* do is outlive its
process; a restart that passes its checks trades again, as the state is kept nowhere.
`GuardAgreesWithStartup`: configuration, start checks and guard agree on who trades
live.  `AtMostOneBlindOrder`: orders are sent before the books are reconciled, yet
a difference in what is held costs one order at most after each start.
No property speaks of the paper balance: what a close leaves is read off one operation and
listed below.
*Bounds*: two symbols (one right beside one wrong), two prices, one lot sold and two
bought, ten configurations that fail each check by one field, three orders
(`MaxEntries`: entry, close and entry again, or a second order into a difference), one
order of a symbol at the exchange at a time (a guard of `LiveEntry` that the code does not
have), a window of two results.

### Disagreements between code and what is said of it

- `sim_stop`: `simulator.py:199` moves a stop to the entry wherever it was; an
  entry that gapped through its stop, or a stop that trailed beyond the entry, then
  moves against the trade (`_phase26_run.py:262` verifies the opposite).
- `sim_limit`: `simulator.py:91` counts positions that are closed;
  after `max_open_positions` trades a backtest refuses everything
  (`tests/test_backtest.py:140-141`).
- `sim_lookahead`: `simulator.py:85,148`: a loss booked on a later candle refuses
  an earlier signal (`simulator.py:6`, "never with look-ahead").
- `orders_duplicate`: `executor.py:132`: a submission whose answer is lost counts
  as rejected, and a retry makes a second order (`order_manager.py:4-5`).

Without a run of their own, as no property is lost by them or the models name them
in a property:

- `historical_ingestor.py:162-168`: pages that bring nothing newer are counted, and
  asked for again until `max_pages` (lines 99-100 say the ingest stops).
- `strategy_selector.py:30-41`: readiness does not ask for the stress test.  A strategy
  that failed it is still promoted to PAPER_TRADING, against `pipeline.py:5-6` ("if a gate
  fails, the readiness is REJECTED or RESEARCH_ONLY") and `README.md:26-27` (no promotion
  without passing "Monte Carlo / walk-forward / sensitivity / stress gates"): the
  outcome only lowers `execution_robustness` (`pipeline.py:125`) in the composite, which is
  informational.  The sensitivity (`param_stability`) is not asked for either; it is one
  float of that composite and not modelled.  `final_classification` asks neither
  for the consistency of the walk-forward nor for the sensitivity.
- `quality_audit.py:123`: gaps the validator tolerates one by one add up to a FAIL.
- `executor.py:91-94`: a paper close books the result but not the entry's cost, and
  takes the entry fee a second time, so it leaves another balance than the opposite order
  that closes a live position (`executor.py:33`, "same logic as live").  Paper positions
  have no symbol (`get_positions`, line 98), so reconciling an account that holds one
  always finds a mismatch (`executor.py:7`, "All executors share the same interface").
  `cancel_order` (line 77) marks filled orders CANCELLED.
- `reconciliation.py:58`: positions are compared by symbol and size, not by side, and
  two of one symbol hide each other.
- `execution_guard.py:57`: without evidence the acceptance gates are skipped.
- A start does not reconcile, and a pause or a lock does not survive a restart.
  `tests/test_recovery.py:24` calls a transition from RUNNING to SHUTDOWN illegal that the
  table allows.
- `degradation.py`: `pf_below_one` cannot be reached behind the expectancy's check; a
  flat desk never leaves the severe verdict, as no trade enters the window.
- `real_pipeline.py`: an exception behind the ingest loses the results of all assets;
  `aggregate_report` ignores assets that were skipped.  `strategy_selector.py:50-52`:
  a verified micro live stage is enough, paper trading verified or not.
- `support_resistance.py:51`: among several levels the farthest support is called the
  nearest.  A sell in a BEARISH trend scores like one in STRONG_BEARISH.  "shock" is
  asked for behind "too_high" and never answered.
- `signal_tracer.py:264-285`: the counterfactual without the daily limit changes nothing.
- `feature_store.py:33-40`: a frame with future rows is said to raise and is filtered.
- `holding_analysis.py:130,140`: the count of stop moves includes the exit bar, and the
  final stop of the replay is not used.

## Fairness

`Simulator` and `HistoricalIngestor` claim liveness.  `WF_vars(Next)` of the first
says that a function that is running goes on, which is all `run` needs: it waits
for nothing.  `WF_vars(Running)` of the second says the same of a call of `ingest`
and no more: that `fetch_ohlcv` returns or raises (ccxt has a timeout of its own),
not that it ever succeeds.  The other modules
are driven by callers of which nothing is known, so their specifications are
`Init /\ [][Next]_vars` and their properties safety.

## Proofs

Proved for all values of the constants that satisfy the modules' assumptions.

- `RiskManagerProofs`: a size is natural, and its expected loss stays within the
  risk fraction of the equity, through rounding and the cap (two theorems about the
  sizer alone).  Of the manager: the type invariant; position limit (`PositionInv` adds that
  a pending approval is for a symbol not in the book, without which a fill could
  replace a trade and the count would say nothing); the registry; the equity of
  approvals (`MonitorInv`: the equities differ only when the manager's is
  negative, and sizing refuses that); the leverage of
  approvals (the registry holds at least the book, and a new trade adds its own
  notional to the sum over it); verdict and breakers; the terminal streak
  lock; and `EmergencyLimit`.  The last assumes `LimitsCompose`: one
  open position, a positive daily limit, a risk cap of at most the equity, and
  `daily_max_drawdown + max_risk_percent <= emergency_drawdown`; the defaults of
  `config.py` satisfy it.  Its invariant
  `LossInv` says that after losing everything open the day is still above the
  floor `daily + one risk`, because an approval needs the daily limit not to be
  reached and sizing bounds the loss.
- `SlTpManagerProofs`: types; break-even (`movedBe` is not needed, the flag is
  only ever set with a stop at the entry or beyond); and the refinement, step by
  step: `OpenTrade` protects, `UpdateMoves` tightens, all others stutter.  `BehindInv`, that a stop is
  behind the best price or the initial stop and the entry is behind the best price,
  gives `StopBehindMarket`; the entry's part is what a break-even move needs.
- `OrderManagerProofs`: types and all three properties of the run.  The invariant
  is their conjunction with `SignalsAgree` (a local order and the exchange order it
  names carry the same signal) and `LiveIsKnown` (a live order of a certain signal
  is in the registry under a status that blocks the signal): without it nothing
  would say why `submit` may place an order.  TLC checked it before it was proved.

- `SimulatorProofs`, of the simulator: types, `AuditIsComplete`, `EverySignalIsAccounted` and
  `EquityFollowsJournal`.  `BooksInv`
  says that the journal has one row for each closed position and none for an open
  one, in the order of time; `AccountInv` that refusals and positions together are the
  signals behind `k`.  At the end nothing is open, so rows and positions are in
  bijection.  `AuditInv` is the chain of one position, kept by each move of a stop
  (`MovesChain`) and by an exit.  The running equity adds a row's result, or takes a
  position's fee, at the same step at which the row or the position is appended.

  Of the diagnostics: `BaselineIsTheEngine`, gate by gate, for every row of every table.
  The case left open in the property is the only one in which baseline and engine look at
  different stops.

  Of the tracer: its three properties.  `TracerInv` joins the simulator's invariant to
  `ScanInv` (nothing is simulated before all bars are scanned, and as many are counted
  open as were accepted), `TakenInv` (each accepted signal is one of the backtest, in
  order, and one is passed over only when all slots are taken by earlier ones),
  `TracesInv` (a scanned bar has a trace or an accepted signal, and not both) and
  `FateInv` (a position is of an accepted signal behind `k`, and no two are of one).
  The traces added at the end are in bijection with the signals, those not opened with
  the refusals.

  Of the holding analysis: `ReplayFollowsTheJournal`.  `ReplayIs` is the recursion's
  equation, `FollowInv` says of every position, open or closed, that the replay up to the
  last bar the simulator has managed it on is at its stop, with its moves counted, and
  `Knows` what the simulator must know of a managed position for the two rules to go
  on agreeing: its flag is in the audit, a stop that has only trailed is no looser than
  the initial one, and before the first move the price has not been a break-even distance
  ahead.  It is needed because the replay judges break-even by the initial risk and the
  simulator by the present one.
- `TradingDeskProofs`: that only a process that passed its checks trades (`StartedInv`),
  `GuardAgreesWithStartup`, `OrdersNeedAStart` (`WordInv`: a machine is RUNNING only on
  the word of a start that passed its checks or of the operator) and `AtMostOneBlindOrder`.  For the last, `BlindInv`
  says that a blind order is still to be reconciled or was answered by a lock, and
  `BookInv` that the book lists symbols only, from which follows that books and exchange
  that differ in what they hold always make a mismatch.  For any configurations, symbols,
  prices, chats and number of orders.
- `ResearchPipelineProofs`: all five properties of the run.  `EveryBarIsTestedOnce`, for every length of frame and size of
  window.  `RollInv` gives each window's first row, from which two windows' distance
  follows; `CoverInv` says what the windows so far have tested, so that no division
  is needed; `FreshInv` that the next symbol starts without windows.
  `AggregateNeverFlatters` compares the sum over all windows with that over the windows
  that count for the factor, from which only profits are missing.  For
  `EligibilityIsBacked`, `SampleInv` bounds the sample's trades by the bars tested,
  `EvidenceInv` keeps what was found out of an asset until it is reported, and
  `ReportInv` says that the report has one backed result for each symbol so far.
  `ReadinessNeedsEdge` needs the same evidence.  `FramesKeepTheirGrade` is about one frame, in
  both directions: each fault of a candle that a check of the audit looks for is an
  issue to the validator and the reverse, and where the audit counts no gap there is none
  that the validator could refuse (`GapsCounted`).
- `HistoricalIngestorProofs`: types and all three safety properties of the run.
  `PagingInv` says that from each downloaded candle to the cursor everything is
  there or was given up; `KeepInv` that a running ingest has taken over the cache;
  `CleanInv` that without errors everything from the start to the cursor is there.

- `SumTheorems`: `SumFunctionOnSet` chooses an element at each step, so that even its
  recursion equation has to be proved.  The library states induction with a predicate as a
  parameter; here the induction is over a *set* (of numbers, `SetOfAllNaturals`; of finite
  sets, `SetOfAllFiniteSets`), which is a value: the least number missing from it gives the
  contradiction.  `ReplayIs` is proved in the same way.

The proofs assume what the modules assume of their constants, and TLC evaluates every
assumption in the runs.  Those that are about the code and not only about types:

- `DrawsAssumption` (tracer): `run_trace` and `Backtester` leave the simulator's rejection
  and partial-fill draws off;
- `ChartsAssumption` (tracer): the feature table gives the trend of the timeframe above from
  its own columns, as `build_features` of one frame does, and has a row for each candle;
- `ReplayAssumption` (holding analysis): the simulator's trail factor is 2, the default that
  `analyze_holding_period` leaves alone and that the replay has built in, and
  `break_even_r`, 1.0 by default, is positive.  With another factor the two copies differ at once.
- `LimitsCompose` (the theorem on the emergency drawdown only), above.

Every safety property of the passing runs is thus proved, invariants and action properties
alike.  Only model-checked is liveness (`Terminates`, `IngestReturns`), which is out of the
prover's reach.

## Not modelled, and the plan

What is left, in the order in which it would be done:

1. `verify_sl_tp` and `run_pipeline` as a procedure of its own; the queries of the
   order manager; the paper executor's `cancel_order` and `modify_order`, once
   something calls them.
2. `PortfolioRisk.allowed_to_trade` and its counters, once something calls them.

Left out for good:

- caches and feature store: each method is one critical section of one lock, and no
  module that is modelled uses them;
- market data and order book (thin wrappers), storage (an ORM over SQL), report
  scripts and entry points that only print, execution assumptions and configuration
  tables;
- indicators, Monte Carlo, sensitivity, research tools and statistics: floating-point
  formulas without state.  Where a gate reads them, the reading is modelled.
