------------------------- MODULE MCResearchPipeline -------------------------
(***************************************************************************)
(* Two symbols on frames of one, two and three windows for TLC.            *)
(***************************************************************************)
EXTENDS ResearchPipeline

MCSymbols == <<"BTC", "ETH">>

Candle == [ts |-> 0, open |-> 5, high |-> 6, low |-> 4, close |-> 5, volume |-> 1]

Regular(n) == [i \in 1 .. n |-> [Candle EXCEPT !.ts = 2 * i]]

\* A frame with one candle that is out of order in some way.
BadValues ==
  [open |-> {NaN, 0, 3, 7}, high |-> {NaN, 0, 3}, low |-> {NaN, -1, 0, 7},
   close |-> {NaN, 3, 7}, volume |-> {NaN, -1, 0}]
Corrupted(n) ==
  UNION {{[Regular(n) EXCEPT ![2][f] = v] : v \in BadValues[f]} : f \in DOMAIN BadValues}

\* Gaps before the sixth candle, and before each one.
Gapped(n) ==
  {[i \in 1 .. n |-> [Candle EXCEPT !.ts = 2 * i + (IF i < 6 THEN 0 ELSE g)]] : g \in 1 .. 4}
    \cup {[i \in 1 .. n |-> [Candle EXCEPT !.ts = g * i]] : g \in {1, 4, 6}}

MCFrames == {Regular(n) : n \in {8, 12, 14}} \cup Corrupted(8) \cup Gapped(8)

Outcome(trades, profit, loss, drawdown) ==
  [trades |-> trades, profit |-> profit, loss |-> loss, drawdown |-> drawdown]

MCBacktestMetrics ==
  {NoTrades, Outcome(1, 2, 0, 0), Outcome(2, 3, 1, 20), Outcome(2, 3, 1, 30), Outcome(2, 2, 2, 20)}

MCWindowMetrics == {NoTrades, Outcome(2, 3, 1, 20), Outcome(1, 0, 4, 30), Outcome(1, 2, 0, 0)}

MCStressOutcomes ==
  {{Outcome(2, 3, 1, 20), Outcome(2, 2, 3, 60)}, {Outcome(2, 3, 1, 20), Outcome(2, 2, 4, 20)}}
=============================================================================
