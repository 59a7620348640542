----------------------------- MODULE Promotion -----------------------------
(***************************************************************************)
(* The gates between a backtest and trading: sample gates and the final    *)
(* classification (research/sample_gates.py), the readiness of a strategy  *)
(* (research/strategy_selector.py), the edge of pipeline.py, the stress    *)
(* test's verdict and the aggregate over assets (research/real_pipeline.py)*)
(* as operators on evidence.                                               *)
(*                                                                         *)
(* Metrics are [trades, profit, loss, drawdown]: gross amounts, and the    *)
(* drawdown in per cent, as is the probability of ruin.                    *)
(***************************************************************************)
EXTENDS Integers, Sequences, FiniteSets

CONSTANTS MinFullTrades, MinOosTrades, MinWfTrades

ASSUME GatesAssumption == {MinFullTrades, MinOosTrades, MinWfTrades} \subseteq Nat

\* compute_metrics of no trades.
NoTrades == [trades |-> 0, profit |-> 0, loss |-> 0, drawdown |-> 0]

\* What compute_metrics may return.
IsMetrics(m) ==
  /\ m \in [trades : Nat, profit : Nat, loss : Nat, drawdown : Nat]
  /\ m.trades = 0 => m = NoTrades

Net(m) == m.profit - m.loss

\* profit_factor > num / den; without a loss it is infinite or zero.
ProfitFactorAbove(m, num, den) ==
  IF m.loss > 0 THEN m.profit * den > num * m.loss ELSE m.profit > 0

\* expectancy > 0: the mean of the results.
ExpectsProfit(m) == m.trades > 0 /\ Net(m) > 0

-----------------------------------------------------------------------------
(* sample_gates. *)

FullSample(m) == IF m.trades < MinFullTrades THEN "INSUFFICIENT_SAMPLE" ELSE "PASS"

OosSample(m) ==
  IF m.trades = 0 THEN "INCONCLUSIVE_NO_TRADES"
  ELSE IF m.trades < MinOosTrades THEN "INSUFFICIENT_SAMPLE" ELSE "PASS"

WfSample(trades) == IF trades < MinWfTrades THEN "INSUFFICIENT_SAMPLE" ELSE "PASS"

\* A bug: the walk-forward sample is not asked for.
BugFinalClassification(e) ==
  IF ~e.dataOk THEN "INSUFFICIENT_DATA"
  ELSE IF FullSample(e.full) # "PASS" THEN "INSUFFICIENT_SAMPLE"
  ELSE IF OosSample(e.oos) # "PASS" THEN "INSUFFICIENT_SAMPLE"
  ELSE "PAPER_TRADING_ELIGIBLE"

\* final_classification of evidence e, the first gate that applies.
FinalClassification(e) ==
  IF ~e.dataOk THEN "INSUFFICIENT_DATA"
  ELSE IF FullSample(e.full) # "PASS" THEN "INSUFFICIENT_SAMPLE"
  ELSE IF OosSample(e.oos) = "INCONCLUSIVE_NO_TRADES" THEN "NO_VERIFIED_EDGE"
  ELSE IF OosSample(e.oos) # "PASS" THEN "INSUFFICIENT_SAMPLE"
  ELSE IF WfSample(e.wfTrades) # "PASS" THEN "INSUFFICIENT_SAMPLE"
  ELSE IF ~ExpectsProfit(e.oos) \/ ~ProfitFactorAbove(e.oos, 1, 1) THEN "NO_VERIFIED_EDGE"
  ELSE IF ~e.mc.executed THEN "NO_VERIFIED_EDGE"
  ELSE IF ~(e.mc.ruin < 10 /\ e.mc.gains) THEN "REJECTED"
  ELSE IF ~e.stressOk THEN "REJECTED"
  ELSE "PAPER_TRADING_ELIGIBLE"

\* stress_passes with the thresholds of the pipelines, over all scenarios.
StressPasses(outcomes) ==
  \A m \in outcomes : ProfitFactorAbove(m, 1, 2) /\ m.drawdown <= 60

-----------------------------------------------------------------------------
(* strategy_selector and pipeline.run_pipeline. *)

\* report.consistency >= num / den.
ConsistencyAtLeast(e, num, den) == e.windows > 0 /\ e.passing * den >= num * e.windows

\* A bug: a consistency of exactly the half is good enough.
BugHardGates(e) ==
  /\ ExpectsProfit(e.oos) /\ ProfitFactorAbove(e.oos, 1, 1)
  /\ e.oos.drawdown <= 25
  /\ ConsistencyAtLeast(e, 1, 2)
  /\ 100 - e.mc.ruin >= 85

HardGates(e) ==
  /\ ExpectsProfit(e.oos) /\ ProfitFactorAbove(e.oos, 1, 1)
  /\ e.oos.drawdown <= 25
  /\ ConsistencyAtLeast(e, 3, 5)
  /\ 100 - e.mc.ruin >= 85

\* evaluate_readiness: the composite score is informational, and a verified
\* micro live stage is enough, whether paper trading was verified or not.
Readiness(e, paperVerified, microLiveVerified) ==
  IF ~HardGates(e) THEN "REJECTED"
  ELSE IF microLiveVerified THEN "PRODUCTION_CANDIDATE"
  ELSE IF paperVerified THEN "MICRO_LIVE"
  ELSE IF ExpectsProfit(e.oos) /\ ProfitFactorAbove(e.oos, 1, 1) THEN "PAPER_TRADING"
  ELSE "BACKTEST_VERIFIED"

\* run_pipeline asks with neither stage verified.
PipelineReadiness(e) == Readiness(e, FALSE, FALSE)

StatisticalEdge(e) ==
  /\ ExpectsProfit(e.oos) /\ ProfitFactorAbove(e.oos, 1, 1)
  /\ e.passing * 2 > e.windows
  /\ e.mc.ruin < 50

-----------------------------------------------------------------------------
\* aggregate_report: the assets that were skipped do not count.
Overall(results) ==
  LET classes == {results[n].class : n \in {m \in DOMAIN results : results[m].available}}
  IN  IF classes = {} THEN "INSUFFICIENT_DATA"
      ELSE IF classes = {"PAPER_TRADING_ELIGIBLE"} THEN "PAPER_TRADING_ELIGIBLE"
      ELSE IF "PAPER_TRADING_ELIGIBLE" \in classes THEN "MIXED"
      ELSE "NO_VERIFIED_EDGE"
=============================================================================
