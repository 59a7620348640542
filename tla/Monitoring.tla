----------------------------- MODULE Monitoring -----------------------------
(***************************************************************************)
(* The monitors (monitoring/): the rolling results of the closed trades,   *)
(* the verdict on them, and the health checks.  Results are whole numbers, *)
(* and the verdict's comparisons are made on their sums.                   *)
(***************************************************************************)
EXTENDS Integers, Sequences, SequencesExt

CONSTANTS
  Window,               \* window of RollingPerformance
  MinTradesToEvaluate,
  OosExpectancy,        \* of the baseline
  OosFactorAboveOne     \* its profit factor is above one

ASSUME MonitoringAssumption == Window \in Nat /\ MinTradesToEvaluate \in Nat \ {0}

Total(pnls) == FoldSeq(LAMBDA x, y : x + y, 0, pnls)
Wins(pnls) == [i \in DOMAIN pnls |-> IF pnls[i] > 0 THEN pnls[i] ELSE 0]

\* add_trade: the oldest results leave the window.
AddTrades(pnls, new) ==
  LET all == pnls \o new
  IN  SubSeq(all, IF Len(all) > Window THEN Len(all) - Window + 1 ELSE 1, Len(all))

\* profit_factor < 1: there are losses, and the wins are less, or there is nothing.
FactorBelowOne(pnls) == LET won == Total(Wins(pnls)) IN won < won - Total(pnls) \/ won = 0

\* evaluate: severe, reduced twice over, or ok.
Verdict(pnls) ==
  IF Len(pnls) < MinTradesToEvaluate THEN "insufficient_trades"
  ELSE IF Total(pnls) <= 0 THEN "live_expectancy_non_positive"
  ELSE IF OosExpectancy > 0 /\ 2 * Total(pnls) < OosExpectancy * Len(pnls)
    THEN "expectancy_below_oos_fraction"
  ELSE IF OosFactorAboveOne /\ FactorBelowOne(pnls) THEN "pf_below_one" ELSE "ok"

Severe(pnls) == Verdict(pnls) = "live_expectancy_non_positive"

\* all_healthy: checks maps the names of the checks to their last result.
AllHealthy(checks) == DOMAIN checks # {} /\ \A n \in DOMAIN checks : checks[n]
=============================================================================
