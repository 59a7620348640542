--------------------------- MODULE MCRiskManager ---------------------------
(***************************************************************************)
(* A small risk manager for TLC: three symbols, two open trades at most,   *)
(* an equity of 2000 units (one unit is 0.05 %), and signals chosen so     *)
(* that sizing, the leverage limit and the correlation limit refuse some.  *)
(***************************************************************************)
EXTENDS RiskManager

\* At 1 % risk (20 units): s1 is sized to 1 lot worth 300, s2 to 2 lots worth
\* 600.  s3 has two signals: 2 lots worth 1900, which fit the equity alone, and
\* 2 lots worth 1100, too much beside a correlated s1.  Half the risk or less
\* leaves s1 no lot.
MCSymbols == {"s1", "s2", "s3"}
MCSignals ==
  {[symbol |-> "s1", entry |-> 300, priceRisk |-> 19, cost |-> 1],
   [symbol |-> "s2", entry |-> 300, priceRisk |-> 9, cost |-> 1],
   [symbol |-> "s3", entry |-> 950, priceRisk |-> 10, cost |-> 0],
   [symbol |-> "s3", entry |-> 550, priceRisk |-> 10, cost |-> 0]}

MCLinks == {{}, {{"s1", "s3"}}}

\* A win, a break-even close, a loss through the stop that trips the emergency
\* limit, and one that exceeds the whole account.
MCOutcomes == {30, 0, -110, -2100}
MCMarks == {1960}
=============================================================================
