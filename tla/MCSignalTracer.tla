--------------------------- MODULE MCSignalTracer ---------------------------
(***************************************************************************)
(* Small traces for TLC, on candles around 1000 over two days with an      *)
(* equity of 10000.  Wide charts try every row that differs from a good    *)
(* one in up to two columns; deep charts try every sequence of a few rows  *)
(* and candles, and every state of the risk manager.                       *)
(***************************************************************************)
EXTENDS SignalTracer

MCDays == <<1, 1, 1, 2>>

\* Quiet, a gap up that falls through the stops, and a dip that recovers.
Shapes ==
  {[open |-> 1000, high |-> 1005, low |-> 995, close |-> 1000],
   [open |-> 1080, high |-> 1080, low |-> 960, close |-> 1000],
   [open |-> 950, high |-> 1070, low |-> 950, close |-> 1000]}
Quiet == CHOOSE c \in Shapes : c.open = 1000

BuyRow ==
  [emaReady |-> TRUE, price |-> 1, fast |-> 1, slope |-> 1, adx |-> 30, rank |-> 50,
   atr |-> 20, rsi |-> 50, rsiMove |-> 1, macd |-> 1, support |-> NaN,
   resistance |-> NaN, supportStrength |-> 0, resistanceStrength |-> 0]
SellRow == [BuyRow EXCEPT !.price = -1, !.fast = -1, !.slope = -1, !.rsiMove = -1, !.macd = -1]
TightRow == [BuyRow EXCEPT !.support = 10]
IdleRow == [BuyRow EXCEPT !.price = 0]

Others ==
  [emaReady |-> {FALSE}, price |-> {-1, 0, 1}, fast |-> {-1, 1}, slope |-> {0},
   adx |-> {NaN, 15, 22, 60}, rank |-> {NaN, 15, 85}, atr |-> {NaN, 0, 2, 40},
   rsi |-> {NaN, 20, 80}, rsiMove |-> {NaN, 0}, macd |-> {NaN, 0, 1},
   support |-> {10, 40, 64, 65}, resistance |-> {10, 40, 64, 65},
   supportStrength |-> {3}, resistanceStrength |-> {4}]

Near(row) ==
  UNION {{[row EXCEPT ![f] = v, ![g] = w] : v \in Others[f], w \in Others[g]} :
           f, g \in DOMAIN Others}

\* The backtest's timeframe above is that of the entries.
Table(rows) ==
  [b \in DOMAIN rows |->
     [n \in DOMAIN rows[b] \cup {"trendTf"} |->
        IF n = "trendTf" THEN TrendOf(rows[b]) ELSE rows[b][n]]]

\* The candles of a table carry its ATR.
Chart(rows, shapes, market, manager) ==
  [rows |-> Table(rows), market |-> market, manager |-> manager,
   candles |-> [b \in DOMAIN rows |->
     [open |-> shapes[b].open, high |-> shapes[b].high, low |-> shapes[b].low,
      close |-> shapes[b].close, atr |-> rows[b].atr]]]

Sound == [locked |-> FALSE, factor |-> 100]
Managers == {[locked |-> l, factor |-> f] : l \in BOOLEAN, f \in {0, 1, 50, 100}}

AllQuiet == [b \in 1 .. 4 |-> Quiet]

WideCharts ==
  {Chart(<<row, IdleRow, IdleRow, IdleRow>>, AllQuiet, market, Sound) :
     row \in Near(BuyRow) \cup Near(SellRow),
     market \in {PerfectMarket, [spread |-> 8, liquid |-> TRUE]}}

DeepCharts ==
  {Chart(<<r[1], r[2], r[3], BuyRow>>, <<Quiet, s[1], s[2], s[3]>>, PerfectMarket, Sound) :
     r \in [1 .. 3 -> {BuyRow, SellRow, TightRow, IdleRow}], s \in [1 .. 3 -> Shapes]}

ManagedCharts ==
  {Chart(r, AllQuiet, market, manager) :
     r \in [1 .. 4 -> {BuyRow, SellRow}], manager \in Managers,
     market \in {PerfectMarket, [spread |-> 11, liquid |-> TRUE],
                 [spread |-> 0, liquid |-> FALSE]}}

MCCharts == WideCharts \cup DeepCharts \cup ManagedCharts
=============================================================================
