--------------------------- MODULE PaperExecutor ---------------------------
(***************************************************************************)
(* Paper trading (execution/executor.py, PaperExecutor): orders fill whole *)
(* and at once at the last price, and the account is a number.             *)
(*                                                                         *)
(* Lots are signed: a buy is positive.  Money is counted in such parts of  *)
(* a unit that fees come out whole.  The order's own fields are left out.  *)
(***************************************************************************)
EXTENDS Integers, FiniteSetsExt, Functions

CONSTANTS
  Symbols, NoPrice,   \* model value: no price seen yet
  StartingBalance,    \* in units
  Slip,               \* slippage of a fill
  Unit, FeeRate       \* parts of a unit; parts of the cost that are the fee

ASSUME PaperAssumption == NoPrice \notin Int /\ {StartingBalance, Slip, Unit, FeeRate} \subseteq Nat

VARIABLES
  cash,        \* balance["USDT"]
  positions,   \* lots held per symbol, 0 where the dictionary has none
  price        \* _last_prices

paperVars == <<cash, positions, price>>

Sign(lots) == IF lots > 0 THEN 1 ELSE -1
Size(lots) == Sign(lots) * lots

Fill(lots, p) == p + Sign(lots) * Slip

Fee(lots, fill) == FeeRate * Size(lots) * fill

PaperInit ==
  /\ cash = Unit * StartingBalance
  /\ positions = [s \in Symbols |-> 0]
  /\ price = [s \in Symbols |-> NoPrice]

\* A new executor in a new process.
NewAccount ==
  /\ cash' = Unit * StartingBalance
  /\ positions' = [s \in Symbols |-> 0]
  /\ price' = [s \in Symbols |-> NoPrice]

SetMarketPrices(prices) ==
  /\ price' = prices
  /\ UNCHANGED <<cash, positions>>

\* What the balance is after a fill, bought or sold.
CashAfter(lots, fill) == cash - Unit * lots * fill - Fee(lots, fill)

\* create_order: a buy replaces the position there was, a sale removes it.
\* Without a price it is rejected.
CreateOrder(s, lots) ==
  LET fill == Fill(lots, price[s])
  IN  /\ price[s] # NoPrice
      /\ cash' = CashAfter(lots, fill)
      /\ positions' = [positions EXCEPT ![s] = IF lots > 0 THEN lots ELSE 0]
      /\ UNCHANGED price

\* close_position for each of some positions of a list: the account books the
\* result less the fees of the entry, which it has paid before; what the position
\* had cost is not returned.
Exit(p) == Fill(-p.lots, price[p.symbol])
Pnl(p) == Unit * p.lots * (Exit(p) - p.entry)

ClosePositions(list, closed) ==
  /\ \A i \in closed : price[list[i].symbol] # NoPrice
  /\ cash' = cash + SumFunctionOnSet([i \in closed |-> Pnl(list[i]) - list[i].fees], closed)
  /\ positions' = [s \in Symbols |-> IF \E i \in closed : list[i].symbol = s THEN 0 ELSE positions[s]]
  /\ UNCHANGED price
=============================================================================
