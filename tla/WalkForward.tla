---------------------------- MODULE WalkForward ----------------------------
(***************************************************************************)
(* Walk-forward analysis (backtest/walk_forward.py): windows roll over a   *)
(* frame, each trained on TrainSize bars and tested on the OosSize bars    *)
(* behind them, and the report aggregates the tests.  What the runner      *)
(* returns for a window is Promotion's metrics; rows count from zero.      *)
(***************************************************************************)
EXTENDS Promotion, FiniteSetsExt

CONSTANTS
  TrainSize, OosSize, StepSize,
  WindowMetrics   \* what the runner may return

ASSUME SizesAssumption == {TrainSize, OosSize, StepSize} \subseteq Nat \ {0}
ASSUME WindowMetricsAssumption == \A m \in WindowMetrics : IsMetrics(m)

VARIABLES
  rows,     \* n, the length of the frame
  windows   \* [start, metrics]: report.windows, with the row it starts at

walk == <<rows, windows>>

\* A bug: the next window starts behind what the last one has tested.
BugNextStart == Len(windows) * (StepSize + 1)

\* start of the loop.
NextStart == Len(windows) * StepSize

HasWindow == NextStart + TrainSize + OosSize <= rows

TrainedBy(w) == w.start .. w.start + TrainSize - 1
TestedBy(w) == w.start + TrainSize .. w.start + TrainSize + OosSize - 1

\* A signal is filled on the bar behind it, so a window of n bars has fewer trades.
RollWindow(metrics) ==
  /\ HasWindow
  /\ metrics.trades < OosSize
  /\ windows' = Append(windows, [start |-> NextStart, metrics |-> metrics])
  /\ UNCHANGED rows

-----------------------------------------------------------------------------
(* The report. *)

Passing(w) ==
  ExpectsProfit(w.metrics) /\ ProfitFactorAbove(w.metrics, 1, 1) /\ w.metrics.trades > 0

PassingWindows == Cardinality({n \in DOMAIN windows : Passing(windows[n])})

Total(field, counted) ==
  SumFunctionOnSet([n \in DOMAIN windows |-> windows[n].metrics[field]], counted)

TotalOosTrades == Total("trades", DOMAIN windows)

\* A bug: the windows without a profit are left out.
BugCountsForFactor(m) == m.profit > 0

\* Windows without a loss do not count for the profit factor.
CountsForFactor(m) == m.loss > 0

\* aggregate_oos_pf > 1.
AggregateFactorAboveOne ==
  LET counted == {n \in DOMAIN windows : CountsForFactor(windows[n].metrics)}
      profit == Total("profit", counted)
      loss == Total("loss", counted)
  IN  IF loss > 0 THEN profit > loss ELSE profit > 0

\* aggregate_oos_expectancy > 0: the expectancies weighted with their trades.
AggregateExpectsProfit ==
  TotalOosTrades > 0 /\ Total("profit", DOMAIN windows) > Total("loss", DOMAIN windows)

-----------------------------------------------------------------------------
(* Properties. *)

Tested == UNION {TestedBy(windows[n]) : n \in DOMAIN windows}

\* Every window is within the frame and trains on the bars before its test.
WindowsFit ==
  \A n \in DOMAIN windows :
    TrainedBy(windows[n]) \cup TestedBy(windows[n]) \subseteq 0 .. rows - 1

\* Windows that are a test or more apart share no tested bar.
TestsAreDisjoint ==
  StepSize >= OosSize =>
    \A m, n \in DOMAIN windows :
      m < n => \A i \in TestedBy(windows[m]), j \in TestedBy(windows[n]) : i < j

\* Rolled by a test each, the windows leave no bar out between the first
\* training set and a rest that is shorter than a test.
NoBarIsLeftOut ==
  StepSize = OosSize /\ ~HasWindow /\ windows # <<>> =>
    /\ Tested = TrainSize .. TrainSize + Len(windows) * OosSize - 1
    /\ rows - (TrainSize + Len(windows) * OosSize) < OosSize

\* Rolling windows (walk_forward.py:1): with the steps of the pipelines every
\* bar behind the first training set is tested once, so that no trade enters
\* the sample twice and none is left out.
EveryBarIsTestedOnce == WindowsFit /\ TestsAreDisjoint /\ NoBarIsLeftOut

\* "We aggregate EVERY OOS period's metrics" (walk_forward.py:46), but windows
\* without a loss miss from the profit factor: that never makes it better than
\* the trades are.
AggregateNeverFlatters == AggregateFactorAboveOne => AggregateExpectsProfit
=============================================================================
