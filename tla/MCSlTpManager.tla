--------------------------- MODULE MCSlTpManager ---------------------------
(***************************************************************************)
(* A small stop manager for TLC: a long trade, a short one and a long one  *)
(* whose entry gapped below its stop, on prices 1 to 7.  One unit of ATR   *)
(* trails two units behind the market, so that a stop trails beyond the    *)
(* entry both before and after it is moved to break-even.                  *)
(***************************************************************************)
EXTENDS SlTpManager

MCPrices == 1 .. 7

MCOpenings ==
  {[side |-> "BUY", entry |-> 3, stop |-> 1, target |-> 7],
   [side |-> "SELL", entry |-> 5, stop |-> 7, target |-> 1],
   [side |-> "BUY", entry |-> 2, stop |-> 3, target |-> 7]}

MCBars ==
  {bar \in [low : MCPrices, high : MCPrices, atr : 0 .. 1] :
     bar.low <= bar.high /\ bar.high - bar.low <= 3}
=============================================================================
