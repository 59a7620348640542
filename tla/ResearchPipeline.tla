-------------------------- MODULE ResearchPipeline --------------------------
(***************************************************************************)
(* The research pipeline (research/real_pipeline.py): run_real_pipeline    *)
(* takes one symbol after the other through ingest, audit, backtests,      *)
(* walk-forward, Monte Carlo and stress test to a classification, and      *)
(* aggregate_report sums the assets up.  Only the ingest is guarded: what  *)
(* raises behind it ends the call, and the assets done are lost.           *)
(*                                                                         *)
(* The steps compute statistics over floats; here each answers with any    *)
(* outcome of a small set that its inputs allow.  pipeline.run_pipeline    *)
(* judges the same evidence by gates of its own, which Promotion states.   *)
(***************************************************************************)
EXTENDS WalkForward, DataQuality

CONSTANTS
  Symbols,          \* the symbols asked for, a sequence
  Frames,           \* what an ingest may return: in order, without duplicates
  BacktestMetrics,  \* what a backtest may return
  Ruins,            \* probabilities of ruin, in per cent
  StressOutcomes    \* the sets of metrics a stress test may return

ASSUME FramesAssumption == \A df \in Frames : IsFrame(df)
ASSUME InputsAssumption ==
  /\ Symbols \in Seq(STRING) /\ Ruins \subseteq Nat
  /\ \A m \in BacktestMetrics : IsMetrics(m)

VARIABLES
  step,     \* what the pipeline does next with its symbol
  frame,    \* df
  evidence, \* the AssetResult under construction, and what it rests on
  results   \* the asset results, with the number of bars tested and of OOS trades

pipeline == <<step, frame, evidence, results>>
vars == <<walk, pipeline>>

Sym == Symbols[Len(results) + 1]

NoEvidence ==
  [dataOk |-> FALSE, full |-> NoTrades, oos |-> NoTrades, wfTrades |-> 0, windows |-> 0,
   passing |-> 0, mc |-> [executed |-> FALSE, ruin |-> 0, gains |-> FALSE],
   stressOk |-> FALSE]

\* split_data by 0.6 and 0.2: what is left for the out-of-sample test.
OosRows(n) == n - (n * 6) \div 10 - (n * 2) \div 10

Init ==
  /\ rows = 0 /\ windows = <<>>
  /\ step = "ingest" /\ frame = <<>> /\ evidence = NoEvidence /\ results = <<>>

Working == Len(results) < Len(Symbols)

\* The asset is done with this result, and the next symbol has its turn.
Report(available, class) ==
  /\ results' = Append(results,
       [symbol |-> Sym, available |-> available, class |-> class,
        tested |-> Cardinality(Tested), oos |-> evidence.oos.trades])
  /\ step' = "ingest" /\ frame' = <<>> /\ evidence' = NoEvidence
  /\ rows' = 0 /\ windows' = <<>>

\* The ingest raises, or returns too little for one window.
Skip == Working /\ step = "ingest" /\ Report(FALSE, "")

Ingest(df) ==
  /\ Working /\ step = "ingest"
  /\ Len(df) >= TrainSize + OosSize
  /\ frame' = df /\ rows' = Len(df)
  /\ step' = "audit"
  /\ UNCHANGED <<windows, evidence, results>>

AuditData ==
  /\ step = "audit"
  /\ evidence' = [evidence EXCEPT !.dataOk = Audit(frame) \in {"PASS", "WARNING"}]
  /\ frame' = <<>> /\ step' = "backtest"
  /\ UNCHANGED <<walk, results>>

\* On the whole frame, then on the last fifth of it.
BacktestFull(m) ==
  /\ step = "backtest" /\ m.trades < rows
  /\ evidence' = [evidence EXCEPT !.full = m]
  /\ step' = "oos"
  /\ UNCHANGED <<walk, frame, results>>

BacktestOos(m) ==
  /\ step = "oos" /\ m.trades < OosRows(rows)
  /\ evidence' = [evidence EXCEPT !.oos = m]
  /\ step' = "walk"
  /\ UNCHANGED <<walk, frame, results>>

Walk(m) == step = "walk" /\ RollWindow(m) /\ UNCHANGED pipeline

WalkReport ==
  /\ step = "walk" /\ ~HasWindow
  /\ evidence' = [evidence EXCEPT !.wfTrades = TotalOosTrades, !.windows = Len(windows),
                                  !.passing = PassingWindows]
  /\ step' = "monte_carlo"
  /\ UNCHANGED <<walk, frame, results>>

\* Only with enough trades; run_pipeline makes it without that condition.
MonteCarlo(ruin, gains) ==
  /\ step = "monte_carlo"
  /\ evidence.oos.trades = 0 => ruin = 0 /\ ~gains
  /\ evidence' = [evidence EXCEPT !.mc =
       [executed |-> evidence.oos.trades >= MinOosTrades, ruin |-> ruin, gains |-> gains]]
  /\ step' = "stress"
  /\ UNCHANGED <<walk, frame, results>>

Stress(outcomes) ==
  /\ step = "stress"
  /\ evidence' = [evidence EXCEPT !.stressOk = StressPasses(outcomes)]
  /\ step' = "classify"
  /\ UNCHANGED <<walk, frame, results>>

Classify == step = "classify" /\ Report(TRUE, FinalClassification(evidence))

\* An exception behind the ingest leaves run_real_pipeline with all results.
Raise ==
  /\ step \notin {"ingest", "returned", "raised"}
  /\ step' = "raised" /\ results' = <<>>
  /\ UNCHANGED <<walk, frame, evidence>>

Return ==
  /\ step = "ingest" /\ ~Working
  /\ step' = "returned"
  /\ UNCHANGED <<walk, frame, evidence, results>>

Next ==
  \/ Skip \/ \E df \in Frames : Ingest(df)
  \/ AuditData
  \/ \E m \in BacktestMetrics : BacktestFull(m) \/ BacktestOos(m)
  \/ \E m \in WindowMetrics : Walk(m)
  \/ WalkReport
  \/ \E ruin \in Ruins, gains \in BOOLEAN : MonteCarlo(ruin, gains)
  \/ \E outcomes \in StressOutcomes : Stress(outcomes)
  \/ Classify \/ Raise \/ Return

Spec == Init /\ [][Next]_vars

-----------------------------------------------------------------------------
(* Properties. *)

\* Every symbol asked for is in the report, in order; and where the aggregate
\* says "PAPER_TRADING_ELIGIBLE", each asset that was available was tested on
\* as many bars as the sample gate asks for trades, none of them twice.
EligibilityIsBacked ==
  step = "returned" =>
    /\ [n \in DOMAIN results |-> results[n].symbol] = Symbols
    /\ Overall(results) = "PAPER_TRADING_ELIGIBLE" =>
         \A n \in DOMAIN results :
           results[n].available =>
             /\ results[n].oos >= MinOosTrades
             /\ StepSize >= OosSize => results[n].tested >= MinWfTrades

\* main.py:77-79 prints two verdicts below each other, the readiness and, without a
\* statistical edge, "STRATEGY REJECTED :: NO VERIFIED EDGE".  They come from gates
\* of their own (strategy_selector.py, pipeline.py:135-136) and never contradict
\* each other: whatever is not REJECTED is PAPER_TRADING, and has its edge.
ReadinessNeedsEdge ==
  step = "classify" /\ PipelineReadiness(evidence) # "REJECTED" =>
    PipelineReadiness(evidence) = "PAPER_TRADING" /\ StatisticalEdge(evidence)

\* Validator and audits agree on every ingested frame, as far as GradesAgreeOn
\* says: no fault of a candle passes one and fails the other.
FramesKeepTheirGrade == step = "audit" => GradesAgreeOn(frame)
=============================================================================
