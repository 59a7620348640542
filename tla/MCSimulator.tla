---------------------------- MODULE MCSimulator ----------------------------
(***************************************************************************)
(* A small simulator for TLC: four candles over two days at prices around  *)
(* 10, two signals at most, and an equity of 100 of which 3 is the daily   *)
(* limit.                                                                  *)
(***************************************************************************)
EXTENDS HoldingAnalysis

\* Quiet, up, further up with a gap, down through the stops, and a candle that
\* opens beyond a long stop and recovers: an entry there is past its own stop.
MCCandles ==
  {[open |-> 10, high |-> 11, low |-> 9, close |-> 10, atr |-> NoValue],
   [open |-> 10, high |-> 14, low |-> 10, close |-> 13, atr |-> 1],
   [open |-> 14, high |-> 14, low |-> 13, close |-> 13, atr |-> 1],
   [open |-> 10, high |-> 10, low |-> 5, close |-> 6, atr |-> 1],
   [open |-> 6, high |-> 10, low |-> 6, close |-> 10, atr |-> 0]}

MCDays == <<1, 1, 1, 2>>

\* Long and short, a signal without a candle, and one with its stop on the
\* wrong side.
MCSignals ==
  {[bar |-> 1, side |-> "BUY", entry |-> 10, stop |-> 7, target |-> 16, quantity |-> 2],
   [bar |-> 1, side |-> "SELL", entry |-> 10, stop |-> 12, target |-> 4, quantity |-> 2],
   [bar |-> 2, side |-> "BUY", entry |-> 10, stop |-> 7, target |-> 16, quantity |-> 2],
   [bar |-> 3, side |-> "SELL", entry |-> 10, stop |-> 12, target |-> 4, quantity |-> 2],
   [bar |-> 2, side |-> "SELL", entry |-> 10, stop |-> 9, target |-> 4, quantity |-> 2],
   [bar |-> 2, side |-> "BUY", entry |-> 10, stop |-> 10, target |-> 14, quantity |-> 2],
   [bar |-> 4, side |-> "BUY", entry |-> 10, stop |-> 7, target |-> 16, quantity |-> 2],
   [bar |-> 0, side |-> "BUY", entry |-> 10, stop |-> 7, target |-> 16, quantity |-> 2]}
=============================================================================
