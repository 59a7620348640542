--------------------------- MODULE PositionSizer ---------------------------
(***************************************************************************)
(* Risk-based position sizing (risk/position_sizer.py).                    *)
(*                                                                         *)
(* The code computes with floats; here every amount is an integer, so that *)
(* its inequalities are exact.  Money and prices are in one small unit,    *)
(* quantities in the smallest tradable unit, and a risk fraction r is the  *)
(* number of millionths r (risk 5000 = 0.5 %).  Fees and slippage enter as *)
(* "cost", the round-trip cost of one unit.                                *)
(***************************************************************************)
EXTENDS Integers

\* A risk fraction of Scale is 100 %.
Scale == 1000000

\* max_qty = inf, the default of SizingInputs.
NoCap == -1

\* SizingInputs, with price_risk = |entry - stop_loss| and
\* cost = entry * 2 * (fee_rate + slippage) already worked out.
SizingInputs ==
  [equity : Int, risk : Int, entry : Nat, priceRisk : Nat, cost : Nat,
   lotStep : Nat \ {0}, minQty : Nat, minNotional : Nat, maxQty : Nat \cup {NoCap}]

\* The worst-case loss of one unit: the distance to the stop plus the costs.
UnitLoss(inp) == inp.priceRisk + inp.cost

\* floor(qty / lot_step) * lot_step
FloorToLot(qty, step) == (qty \div step) * step

\* min(raw_qty, cost_aware_qty), which is the second as cost >= 0.
AffordableQty(inp) == (inp.equity * inp.risk) \div (UnitLoss(inp) * Scale)

LotQty(inp) == FloorToLot(AffordableQty(inp), inp.lotStep)

Rejected == [quantity |-> 0, notional |-> 0, expectedLoss |-> 0]

\* The early returns of size_position, in the order of the code.
SizingRefuses(inp, maxRisk) ==
  \/ inp.risk <= 0
  \/ inp.risk > maxRisk
  \/ inp.priceRisk <= 0
  \/ LotQty(inp) < inp.minQty
  \/ inp.minNotional > 0 /\ LotQty(inp) * inp.entry < inp.minNotional

CappedQty(inp) ==
  IF inp.maxQty # NoCap /\ LotQty(inp) > inp.maxQty
  THEN FloorToLot(inp.maxQty, inp.lotStep)
  ELSE LotQty(inp)

\* SizingResult.  The notional is that of the quantity before max_qty caps it.
SizePosition(inp, maxRisk) ==
  IF SizingRefuses(inp, maxRisk)
  THEN Rejected
  ELSE [quantity     |-> CappedQty(inp),
        notional     |-> LotQty(inp) * inp.entry,
        expectedLoss |-> CappedQty(inp) * UnitLoss(inp)]
=============================================================================
