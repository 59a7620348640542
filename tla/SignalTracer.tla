---------------------------- MODULE SignalTracer ----------------------------
(***************************************************************************)
(* The signal tracer (execution/signal_tracer.py): run_trace scans the     *)
(* feature table bar by bar through the signal engine and the risk         *)
(* manager, hands the accepted signals to the simulator, and merges what   *)
(* became of them, so that every bar has a classification.  Backtester.run *)
(* (backtest/engine.py) is the same without the traces and asks the risk   *)
(* manager about each signal as if no position were open.                  *)
(*                                                                         *)
(* The risk manager does not change during a scan: evaluate_signal undoes  *)
(* what it registers.  It enters as the verdict of its breakers and its    *)
(* risk factor.  The trace of a bar is its number and its code.            *)
(***************************************************************************)
EXTENDS Simulator, SignalEngine, PositionSizer

CONSTANTS
  Charts,        \* [rows, candles, market, manager]: what a trace runs on
  InitialRisk, MaxRisk   \* millionths of the equity

ASSUME RiskAssumption == InitialRisk \in Nat /\ MaxRisk \in Nat

\* The table that both build (build_features of one frame) has its own trend
\* for that of the timeframe above.
ASSUME ChartsAssumption ==
  \A c \in Charts :
    /\ c.candles \in [Bars -> Candle]
    /\ \A b \in Bars : IsRow(c.rows[b]) /\ c.rows[b].trendTf = TrendOf(c.rows[b])
    /\ c.market \in Market /\ c.manager \in [locked : BOOLEAN, factor : Nat]

\* run_trace and Backtester.run leave the simulator's draws off.
ASSUME DrawsAssumption == ~Rejections /\ ~PartialFills

VARIABLES
  chart,         \* one of Charts
  scan,          \* i, the bar that run_trace looks at
  openPositions, \* open_positions, which only grows
  traces         \* [bar, code]

tracer == <<chart, scan, openPositions, traces>>
traceVars == <<vars, tracer>>

Close(b) == chart.candles[b].close
Row(b) == chart.rows[b]

-----------------------------------------------------------------------------
(* Classification of refusals. *)

EngineCode(refusal) ==
  CASE refusal = "regime"            -> "REGIME_NO_TRADE"
    [] refusal = "volatility"        -> "VOLATILITY_REJECTED"
    [] refusal = "trend_neutral"     -> "TREND_NEUTRAL"
    [] refusal = "momentum"          -> "MOMENTUM_FAILED"
    [] refusal = "spread_too_high"   -> "SPREAD_TOO_HIGH"
    [] refusal = "liquidity_too_low" -> "LIQUIDITY_TOO_LOW"
    [] refusal = "no_valid_sl"       -> "NO_VALID_SL"
    [] refusal = "structure_blocks"  -> "STRUCTURE_BLOCKS_TP"
    [] refusal = "score"             -> "SCORE_BELOW_MIN"

EffectiveRisk ==
  LET risk == (InitialRisk * chart.manager.factor) \div 100
  IN  IF risk < MaxRisk THEN risk ELSE MaxRisk

Sizing(s) ==
  SizePosition([equity |-> InitialEquity, risk |-> EffectiveRisk, entry |-> s.entry,
                priceRisk |-> Level(s.side, s.entry) - Level(s.side, s.stop),
                cost |-> 2 * (Fee + EntrySlip), lotStep |-> 1, minQty |-> 1,
                minNotional |-> 0, maxQty |-> NoCap], MaxRisk)

\* A bug: one position too many.
BugSlotFree(open) == open <= MaxOpen

SlotFree(open) == open < MaxOpen

\* evaluate_signal with an empty registry, as a code of the taxonomy.  A risk
\* of zero at a factor above zero has no code of its own.
RiskCode(s, open) ==
  IF chart.manager.locked THEN "BREAKER_STATE"
  ELSE IF ~SlotFree(open) THEN "MAX_OPEN_POSITIONS"
  ELSE IF chart.manager.factor = 0 THEN "RISK_FACTOR_ZERO"
  ELSE IF EffectiveRisk = 0 THEN "UNKNOWN"
  ELSE IF Sizing(s).quantity = 0 THEN "SIZING_REJECTED"
  ELSE IF Sizing(s).notional > InitialEquity THEN "EXPOSURE_VIOLATION"
  ELSE "none"

-----------------------------------------------------------------------------
(* Backtester.run: the bars whose signals it hands to the simulator. *)

HasSignal(b) == IsSignal(Row(b), Close(b), chart.market)
SignalAt(b) == SignalOf(Row(b), Close(b))

BacktestSignals == {b \in Bars : HasSignal(b) /\ RiskCode(SignalAt(b), 0) = "none"}

-----------------------------------------------------------------------------
TraceInit ==
  /\ chart \in Charts
  /\ candles = chart.candles
  /\ signals = <<>> /\ k = 1 /\ phase = "scan" /\ bar = 1 /\ movedBe = FALSE
  /\ equity = InitialEquity /\ startOfDay = InitialEquity /\ lastDay = Days[1]
  /\ positions = <<>> /\ trades = <<>> /\ rejections = <<>>
  /\ scan = 1 /\ openPositions = 0 /\ traces = <<>>

Scanning == phase = "scan" /\ scan <= LastBar

Trace(b, code) == traces' = Append(traces, [bar |-> b, code |-> code])

\* The engine or the risk manager refuses the bar, which is traced at once.
EngineRejects ==
  /\ Scanning /\ ~HasSignal(scan)
  /\ Trace(scan, EngineCode(EngineRefusal(Row(scan), Close(scan), chart.market)))
  /\ scan' = scan + 1
  /\ UNCHANGED <<vars, chart, openPositions>>

RiskRejects ==
  /\ Scanning /\ HasSignal(scan)
  /\ RiskCode(SignalAt(scan), openPositions) # "none"
  /\ Trace(scan, RiskCode(SignalAt(scan), openPositions))
  /\ scan' = scan + 1
  /\ UNCHANGED <<vars, chart, openPositions>>

\* A bug: the risk manager is never told of what has been accepted.
BugOpenAfter(open) == open

OpenAfter(open) == open + 1

\* The signal carries its sized quantity to the simulator; no trace of it yet.
Accept ==
  LET s == SignalAt(scan)
  IN  /\ Scanning /\ HasSignal(scan)
      /\ RiskCode(s, openPositions) = "none"
      /\ signals' = Append(signals,
           [bar |-> scan, side |-> s.side, entry |-> s.entry, stop |-> s.stop,
            target |-> s.target, quantity |-> Sizing(s).quantity])
      /\ openPositions' = OpenAfter(openPositions)
      /\ scan' = scan + 1
      /\ UNCHANGED <<candles, k, phase, bar, movedBe, equity, day, positions, trades,
                     rejections, chart, traces>>

\* All bars are scanned: the simulator runs on the accepted signals.
Simulate ==
  /\ phase = "scan" /\ scan > LastBar
  /\ phase' = "signal"
  /\ UNCHANGED <<inputs, k, bar, movedBe, equity, day, positions, trades, rejections, tracer>>

IsTraded(s) == \E n \in DOMAIN trades : trades[n].signalAt = s.bar

\* A bug: what the simulator refused is not traced.
BugMerged ==
  LET opened == SelectSeq(signals, IsTraded)
  IN  [n \in DOMAIN opened |-> [bar |-> opened[n].bar, code |-> "ACCEPTED_OPENED"]]

\* The traces of the accepted signals, by the simulator's trade rows.
Merged ==
  [n \in DOMAIN signals |->
     [bar |-> signals[n].bar,
      code |-> IF IsTraded(signals[n]) THEN "ACCEPTED_OPENED" ELSE "ACCEPTED_NOT_OPENED"]]

Merge ==
  /\ phase = "done"
  /\ traces' = traces \o Merged
  /\ phase' = "traced"
  /\ UNCHANGED <<inputs, k, bar, movedBe, equity, day, positions, trades, rejections,
                 chart, scan, openPositions>>

TraceNext ==
  \/ EngineRejects \/ RiskRejects \/ Accept
  \/ Simulate
  \/ Next /\ UNCHANGED tracer
  \/ Merge

TraceSpec == TraceInit /\ [][TraceNext]_traceVars

-----------------------------------------------------------------------------
(* Properties. *)

\* "every signal has exactly one terminal classification" and none "is
\* silently discarded" (signal_tracer.py:9-10): at the end every bar has one
\* trace, opened exactly if the journal has its trade, and as many are not
\* opened as the simulator refused.
EveryBarIsTracedOnce ==
  phase = "traced" =>
    /\ Len(traces) = LastBar
    /\ {traces[n].bar : n \in DOMAIN traces} = Bars
    /\ \A n \in DOMAIN traces :
         traces[n].code = "ACCEPTED_OPENED" <=>
           \E m \in DOMAIN trades : trades[m].signalAt = traces[n].bar
    /\ Cardinality({n \in DOMAIN traces : traces[n].code = "ACCEPTED_NOT_OPENED"}) = Len(rejections)

\* Counting every accepted signal as open for ever, the tracer follows the
\* first MaxOpen signals of the backtest it explains, and no later one.
TracerTakesAPrefix ==
  phase # "scan" =>
    LET taken == {signals[n].bar : n \in DOMAIN signals}
    IN  /\ taken \subseteq BacktestSignals /\ Len(signals) <= MaxOpen
        /\ \A m, n \in DOMAIN signals : m < n => signals[m].bar < signals[n].bar
        /\ \A b \in BacktestSignals \ taken :
             Len(signals) = MaxOpen /\ \A earlier \in taken : earlier < b

\* What passed the engine and the risk manager has a stop on its side and a
\* slot: the simulator refuses it for the market's sake alone.
SimulatorRefusesForTheMarket ==
  \A n \in DOMAIN rejections :
    rejections[n].reason \in {"LATENCY_OVERFLOW", "DAILY_DD_LIMIT"}

\* The diagnostics' "full baseline" and its funnel have code of their own for
\* the engine's gates: the baseline never promises what the engine refuses in a
\* perfect market, the funnel ends with it, and it misses only signals whose
\* stop the structure has tightened.
BaselineIsTheEngine ==
  \A b \in Bars :
    LET full == IsCandidate("D_full_baseline", Row(b), Close(b))
        engine == IsSignal(Row(b), Close(b), PerfectMarket)
    IN  /\ full => engine /\ IsFinal(Row(b), Close(b), PerfectMarket)
        /\ engine /\ ~full => StopDistance(Row(b)) < AtrStop(Row(b))
=============================================================================
