--------------------------- MODULE MCTradingDesk ---------------------------
(***************************************************************************)
(* A small desk for TLC: two symbols at two prices, orders of one and two  *)
(* lots and both sides, and configurations that fail each check of the     *)
(* start by one field beside those that pass it.                           *)
(***************************************************************************)
EXTENDS TradingDesk

Default ==
  [mode |-> "PAPER", enabled |-> FALSE, keys |-> FALSE, registered |-> TRUE,
   initialRisk |-> 5, maxRisk |-> 10, daily |-> 3, emergency |-> 5, minRr |-> 200, maxLosses |-> 4,
   token |-> TRUE, whitelist |-> {"owner"}]

Live == [Default EXCEPT !.mode = "LIVE", !.enabled = TRUE, !.keys = TRUE]

MCConfigs ==
  {Default, Live,
   [Default EXCEPT !.maxRisk = 4], [Default EXCEPT !.emergency = 3], [Default EXCEPT !.minRr = 99],
   [Default EXCEPT !.maxLosses = 0], [Default EXCEPT !.registered = FALSE],
   [Live EXCEPT !.enabled = FALSE], [Live EXCEPT !.keys = FALSE],
   [Default EXCEPT !.mode = "BACKTEST", !.whitelist = {}]}

MCPrices == {10, 12}
MCLotSizes == {-1, 2}
MCLiveResults == {-1}
=============================================================================
