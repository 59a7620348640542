------------------------- MODULE RiskManagerProofs -------------------------
(***************************************************************************)
(* Theorems about the position sizer and the risk manager that calls it,   *)
(* for every value of their constants.                                     *)
(***************************************************************************)
EXTENDS RiskManager, SumTheorems, FiniteSetTheorems, TLAPS

-----------------------------------------------------------------------------
(* What size_position guarantees for every input.                          *)

\* Integer division by a positive number rounds down.
LEMMA DivRoundsDown ==
  ASSUME NEW a \in Int, NEW b \in Nat \ {0}
  PROVE  (a \div b) \in Int /\ (a \div b) * b <= a
OBVIOUS

\* Rounding to a lot gives a quantity no larger, and none below zero from one
\* that is not.
LEMMA FloorToLotRoundsDown ==
  ASSUME NEW q \in Int, NEW step \in Nat \ {0}
  PROVE  FloorToLot(q, step) \in Int /\ FloorToLot(q, step) <= q
BY DivRoundsDown DEF FloorToLot

\* Rounding to a lot never makes a nonnegative quantity negative.
LEMMA FloorToLotKeepsSign ==
  ASSUME NEW q \in Nat, NEW step \in Nat \ {0}
  PROVE  FloorToLot(q, step) \in Nat
BY DEF FloorToLot

\* A larger quantity is worth more: the product with a natural is monotonic.
LEMMA TimesIsMonotonic ==
  ASSUME NEW a \in Int, NEW b \in Int, NEW k \in Nat, a <= b
  PROVE  a * k <= b * k
OBVIOUS

\* A product with a positive factor has the sign of the other factor.
LEMMA PositiveFactor ==
  ASSUME NEW a \in Int, NEW k \in Nat \ {0}, a * k > 0
  PROVE  a > 0
OBVIOUS

\* The quantity that size_position sizes to, capped or not, costs at most the
\* risk capital when it is lost (position_sizer.py:64-65).
LEMMA LotQtyWithinBudget ==
  ASSUME NEW inp \in SizingInputs, inp.priceRisk > 0
  PROVE  /\ LotQty(inp) \in Int
         /\ LotQty(inp) * (UnitLoss(inp) * Scale) <= inp.equity * inp.risk
<1> DEFINE b == UnitLoss(inp) * Scale
<1>1. b \in Nat \ {0} /\ inp.equity * inp.risk \in Int
  BY DEF SizingInputs, UnitLoss, Scale
<1>2. AffordableQty(inp) \in Int /\ AffordableQty(inp) * b <= inp.equity * inp.risk
  BY <1>1, DivRoundsDown DEF AffordableQty
<1>3. LotQty(inp) \in Int /\ LotQty(inp) <= AffordableQty(inp)
  BY <1>2, FloorToLotRoundsDown DEF LotQty, SizingInputs
<1>4. LotQty(inp) * b <= AffordableQty(inp) * b
  BY <1>1, <1>2, <1>3, TimesIsMonotonic
<1>5. LotQty(inp) * b \in Int /\ AffordableQty(inp) * b \in Int
  BY <1>1, <1>2, <1>3
<1>. QED  BY <1>1, <1>2, <1>3, <1>4, <1>5

\* What size_position returns is a size: no negative quantity, notional or
\* loss, and a notional that covers the quantity even when max_qty caps it.
THEOREM SizeIsNatural ==
  ASSUME NEW inp \in SizingInputs, NEW maxRisk \in Int
  PROVE  /\ SizePosition(inp, maxRisk) \in [quantity : Nat, notional : Nat, expectedLoss : Nat]
         /\ SizePosition(inp, maxRisk).notional
              >= SizePosition(inp, maxRisk).quantity * inp.entry
<1>1. CASE SizingRefuses(inp, maxRisk)
  BY <1>1 DEF SizePosition, Rejected, SizingInputs
<1>2. CASE ~SizingRefuses(inp, maxRisk)
  <2>1. inp.priceRisk > 0 /\ inp.entry \in Nat /\ UnitLoss(inp) \in Nat
    BY <1>2 DEF SizingRefuses, SizingInputs, UnitLoss
  <2>2. LotQty(inp) \in Nat
    BY <1>2, <2>1, LotQtyWithinBudget DEF SizingRefuses, SizingInputs
  <2>3. CappedQty(inp) \in Nat /\ CappedQty(inp) <= LotQty(inp)
    <3>1. CASE inp.maxQty # NoCap /\ LotQty(inp) > inp.maxQty
      <4>1. inp.maxQty \in Nat /\ inp.lotStep \in Nat \ {0}
        BY <3>1 DEF SizingInputs
      <4>2. /\ FloorToLot(inp.maxQty, inp.lotStep) \in Nat
            /\ FloorToLot(inp.maxQty, inp.lotStep) <= inp.maxQty
        BY <4>1, FloorToLotRoundsDown, FloorToLotKeepsSign
      <4>. QED  BY <2>2, <3>1, <4>1, <4>2 DEF CappedQty
    <3>. QED  BY <2>2, <3>1 DEF CappedQty
  <2>4. CappedQty(inp) * inp.entry <= LotQty(inp) * inp.entry
    BY <2>1, <2>2, <2>3, TimesIsMonotonic
  <2>5. /\ LotQty(inp) * inp.entry \in Nat
        /\ CappedQty(inp) * UnitLoss(inp) \in Nat
    BY <2>1, <2>2, <2>3
  <2>. QED  BY <1>2, <2>3, <2>4, <2>5 DEF SizePosition
<1>. QED  BY <1>1, <1>2

\* "Final expected loss must remain within risk budget" (position_sizer.py:7):
\* for every equity, stop distance, cost, lot and cap, a positive size needs a
\* positive equity, and its expected loss is at most equity * risk_percent.
THEOREM ExpectedLossWithinBudget ==
  ASSUME NEW inp \in SizingInputs, NEW maxRisk \in Int,
         SizePosition(inp, maxRisk).quantity > 0
  PROVE  /\ inp.equity > 0
         /\ inp.risk <= maxRisk
         /\ SizePosition(inp, maxRisk).expectedLoss * Scale <= inp.equity * inp.risk
<1> DEFINE q == CappedQty(inp)
           u == UnitLoss(inp)
<1>1. ~SizingRefuses(inp, maxRisk)
  BY DEF SizePosition, Rejected
<1>2. /\ inp.priceRisk > 0 /\ inp.risk > 0 /\ inp.risk <= maxRisk
      /\ inp.equity \in Int /\ inp.risk \in Int
      /\ u \in Nat \ {0} /\ u * Scale \in Nat \ {0}
  BY <1>1 DEF SizingRefuses, SizingInputs, UnitLoss, Scale
<1>3. /\ LotQty(inp) \in Int
      /\ LotQty(inp) * (u * Scale) <= inp.equity * inp.risk
  BY <1>2, LotQtyWithinBudget
<1>4. q \in Nat /\ q > 0 /\ q <= LotQty(inp)
  <2>1. q = SizePosition(inp, maxRisk).quantity
    BY <1>1 DEF SizePosition
  <2>2. q \in Nat
    BY <2>1, SizeIsNatural
  <2>3. CASE inp.maxQty # NoCap /\ LotQty(inp) > inp.maxQty
    <3>1. inp.maxQty \in Int /\ inp.lotStep \in Nat \ {0}
      BY <2>3 DEF SizingInputs
    <3>2. FloorToLot(inp.maxQty, inp.lotStep) <= inp.maxQty
      BY <3>1, FloorToLotRoundsDown
    <3>. QED  BY <1>3, <2>1, <2>2, <2>3, <3>1, <3>2 DEF CappedQty
  <2>. QED  BY <1>3, <2>1, <2>2, <2>3 DEF CappedQty
<1>5. q * (u * Scale) <= LotQty(inp) * (u * Scale)
  BY <1>2, <1>3, <1>4, TimesIsMonotonic
<1>6. q * (u * Scale) = (q * u) * Scale
  BY <1>2, <1>4 DEF Scale
<1>7. /\ q * (u * Scale) \in Int /\ q * (u * Scale) > 0
      /\ LotQty(inp) * (u * Scale) \in Int /\ inp.equity * inp.risk \in Int
  BY <1>2, <1>3, <1>4 DEF Scale
<1>8. inp.equity * inp.risk > 0
  BY <1>3, <1>5, <1>7
<1>9. inp.equity > 0
  BY <1>2, <1>8, PositiveFactor
<1>10. SizePosition(inp, maxRisk).expectedLoss = q * u
  BY <1>1 DEF SizePosition
<1>. QED  BY <1>2, <1>3, <1>5, <1>6, <1>7, <1>9, <1>10

-----------------------------------------------------------------------------
(* Lemmas about the operators of evaluate_signal.                          *)

\* The tier lookup returns one of the four factors of the table.
LEMMA DrawdownFactorType == DrawdownFactor \in {100, 70, 50, 0}
<1> DEFINE reached == {i \in 1 .. 4 : Reaches(RiskTiers[i][1])}
<1>1. 1 \in reached
  BY DEF Reaches, ReachesFrom, RiskTiers
<1>2. \E i \in reached : \A j \in reached : j <= i
  <2>1. CASE 4 \in reached  BY <2>1
  <2>2. CASE 4 \notin reached /\ 3 \in reached  BY <2>2
  <2>3. CASE 4 \notin reached /\ 3 \notin reached /\ 2 \in reached  BY <2>3
  <2>4. CASE reached = {1}  BY <2>4
  <2>. QED  BY <1>1, <2>1, <2>2, <2>3, <2>4
<1> DEFINE last == CHOOSE i \in reached : \A j \in reached : j <= i
<1>3. last \in {1, 2, 3, 4}
  BY <1>2
<1>4. \A i \in {1, 2, 3, 4} : RiskTiers[i][2] \in {100, 70, 50, 0}
  BY DEF RiskTiers
<1>5. DrawdownFactor = RiskTiers[last][2]
  BY DEF DrawdownFactor
<1>. QED  BY <1>3, <1>4, <1>5

\* The effective risk is a fraction within the configured maximum.
LEMMA EffectiveRiskType ==
  ASSUME streak \in Nat
  PROVE  RiskFactor \in Nat /\ EffectiveRisk \in Nat /\ EffectiveRisk <= MaxRisk * 100
BY LimitsAssumption, DrawdownFactorType DEF RiskFactor, EffectiveRisk, MinOf, MaxOf

\* What an approvable signal is sized to: its notional and budget are naturals,
\* the equity is positive and the budget is within max_risk_percent of it.
LEMMA SizingOfSignal ==
  ASSUME NEW sig \in Signals, equity \in Int, streak \in Nat
  PROVE  /\ SizingOf(sig) \in [quantity : Nat, notional : Nat, expectedLoss : Nat]
         /\ HasSize(sig) =>
              /\ equity > 0
              /\ SizingOf(sig).expectedLoss * Scale <= equity * (MaxRisk * 100)
<1> DEFINE inp == [equity |-> equity, risk |-> EffectiveRisk, entry |-> sig.entry,
                   priceRisk |-> sig.priceRisk, cost |-> sig.cost, lotStep |-> 1,
                   minQty |-> 1, minNotional |-> 0, maxQty |-> NoCap]
<1>1. inp \in SizingInputs /\ MaxRisk * 100 \in Int
  BY SignalsAssumption, LimitsAssumption, EffectiveRiskType DEF SizingInputs
<1>2. SizingOf(sig) = SizePosition(inp, MaxRisk * 100)
  BY DEF SizingOf
<1>3. SizingOf(sig) \in [quantity : Nat, notional : Nat, expectedLoss : Nat]
  BY <1>1, <1>2, SizeIsNatural
<1>4. ASSUME HasSize(sig)
      PROVE  /\ equity > 0
             /\ SizingOf(sig).expectedLoss * Scale <= equity * (MaxRisk * 100)
  <2>1. SizePosition(inp, MaxRisk * 100).quantity > 0
    BY <1>2, <1>4 DEF HasSize
  <2>2. /\ inp.equity > 0
        /\ SizePosition(inp, MaxRisk * 100).expectedLoss * Scale <= inp.equity * inp.risk
    BY <1>1, <2>1, ExpectedLossWithinBudget
  <2>3. /\ equity > 0
        /\ SizingOf(sig).expectedLoss * Scale <= equity * EffectiveRisk
    BY <1>2, <2>2
  <2>4. EffectiveRisk * equity <= (MaxRisk * 100) * equity
    BY <1>1, <2>3, EffectiveRiskType, TimesIsMonotonic
  <2>5. /\ SizingOf(sig).expectedLoss * Scale \in Int
        /\ equity * EffectiveRisk = EffectiveRisk * equity
        /\ equity * (MaxRisk * 100) = (MaxRisk * 100) * equity
    BY <1>1, <1>3, EffectiveRiskType DEF Scale
  <2>. QED  BY <2>3, <2>4, <2>5, <1>1, EffectiveRiskType
<1>. QED  BY <1>3, <1>4

-----------------------------------------------------------------------------
(* Type correctness.                                                       *)

\* The types of what SetEquity assigns.
LEMMA SetEquityType ==
  ASSUME NEW e \in Int, SetEquity(e), equity \in Int, sod \in Int, cur \in Nat
  PROVE  equity' \in Int /\ sod' \in Int /\ cur' \in Nat
BY DEF SetEquity

\* Registering a well-typed book gives a well-typed registry.
LEMMA RegistryOfType ==
  ASSUME NEW b \in [Symbols -> Trade \cup {NoTrade}]
  PROVE  RegistryOf(b) \in [Symbols -> Nat]
BY DEF RegistryOf, Trade

\* Every reachable state of the manager and its loop is well-typed.
THEOREM TypeCorrect == Spec => []TypeOK
<1> USE SignalsAssumption, MoneyAssumption, LimitsAssumption, BoundAssumption
<1>1. ASSUME Init  PROVE TypeOK
  <2>1. equity \in Int /\ sod \in Int /\ cur \in Nat /\ streak \in Nat /\ closes \in 0 .. MaxCloses
    BY <1>1 DEF Init
  <2>2. registry \in [Symbols -> Nat] /\ book \in [Symbols -> Trade \cup {NoTrade}]
    BY <1>1 DEF Init
  <2>3. tripped \subseteq Breakers /\ linked \subseteq Pairs /\ verdict \in Verdicts
    BY <1>1 DEF Init, Verdicts
  <2>. QED  BY <1>1, <2>1, <2>2, <2>3 DEF Init, TypeOK
<1>2. TypeOK /\ [Next]_vars => TypeOK'
  <2> SUFFICES ASSUME TypeOK, [Next]_vars
               PROVE  TypeOK'
    OBVIOUS
  <2>0. TrippedNow \subseteq Breakers
    BY DEF TrippedNow
  <2>1. ASSUME NEW sig \in Signals, RefuseAtGates(sig)  PROVE TypeOK'
    BY <2>0, <2>1 DEF RefuseAtGates, TypeOK, monitor, loop
  <2>2. ASSUME NEW sig \in Signals, RefuseExposure(sig)  PROVE TypeOK'
    BY <2>0, <2>2 DEF RefuseExposure, Restored, TypeOK, monitor, loop
  <2>3. ASSUME NEW sig \in Signals, Approve(sig)  PROVE TypeOK'
    <3>1. SizingOf(sig) \in [quantity : Nat, notional : Nat, expectedLoss : Nat]
      BY SizingOfSignal DEF TypeOK
    <3>2. pending' \in [symbol : Symbols, notional : Nat, risk : Nat]
      BY <2>3, <3>1 DEF Approve
    <3>. QED  BY <2>0, <2>3, <3>2 DEF Approve, Restored, TypeOK, monitor
  <2>4. CASE Fill
    <3>1. pending \in [symbol : Symbols, notional : Nat, risk : Nat]
      BY <2>4 DEF Fill, TypeOK
    <3>2. book' \in [Symbols -> Trade \cup {NoTrade}]
      BY <2>4, <3>1 DEF Fill, TypeOK, Trade
    <3>3. registry' \in [Symbols -> Nat]
      BY <2>4, <3>2, RegistryOfType DEF Fill
    <3>. QED  BY <2>4, <3>2, <3>3 DEF Fill, TypeOK, monitor
  <2>5. CASE Lapse
    BY <2>5 DEF Lapse, TypeOK, monitor
  <2>6. ASSUME NEW s \in Open, NEW pnl \in Outcomes \cup {-book[s].risk}, CloseTrade(s, pnl)
        PROVE  TypeOK'
    <3>1. s \in Symbols /\ book[s] \in Trade
      BY <2>6 DEF Open, TypeOK
    <3>10. book[s].risk \in Nat
      BY <3>1 DEF Trade
    <3>2. pnl \in Int /\ equity + pnl \in Int
      <4>1. CASE pnl = -book[s].risk
        BY <3>10, <4>1 DEF TypeOK
      <4>2. CASE pnl \in Outcomes
        BY <4>2 DEF TypeOK
      <4>. QED  BY <4>1, <4>2
    <3>3. equity' \in Int /\ sod' \in Int /\ cur' \in Nat
      BY <2>6, <3>2, SetEquityType DEF CloseTrade, TypeOK
    <3>4. book' \in [Symbols -> Trade \cup {NoTrade}]
      BY <2>6, <3>1 DEF CloseTrade, TypeOK
    <3>5. registry' \in [Symbols -> Nat]
      BY <2>6, <3>4, RegistryOfType DEF CloseTrade, TypeOK
    <3>6. verdict' \in Verdicts
      BY <2>6 DEF CloseTrade, CloseVerdict, CheckAt, Verdicts
    <3>7. streak' \in Nat
      BY <2>6 DEF CloseTrade, StreakAfter, TypeOK
    <3>8. closes' \in 0 .. MaxCloses /\ shocked' \in BOOLEAN
      BY <2>6, <3>1, <3>2 DEF CloseTrade, TypeOK, Trade
    <3>9. UNCHANGED <<tripped, linked, pending>>
      BY <2>6 DEF CloseTrade
    <3>. QED
      BY <3>3, <3>4, <3>5, <3>6, <3>7, <3>8, <3>9 DEF TypeOK
  <2>7. ASSUME NEW e \in Marks, UpdateEquity(e)  PROVE TypeOK'
    <3>1. equity' \in Int /\ sod' \in Int /\ cur' \in Nat
      BY <2>7, SetEquityType DEF UpdateEquity, TypeOK
    <3>2. verdict' \in Verdicts
      BY <2>7 DEF UpdateEquity, CheckAt, Verdicts
    <3>. QED  BY <2>7, <3>1, <3>2 DEF UpdateEquity, TypeOK, loop
  <2>8. ASSUME NEW e \in Marks \cup {cur}, RolloverDay(e)  PROVE TypeOK'
    <3>1. e \in Int
      BY <2>8 DEF TypeOK
    <3>2. shocked' \in BOOLEAN
      BY <2>8 DEF RolloverDay, TypeOK
    <3>. QED  BY <2>8, <3>1, <3>2 DEF RolloverDay, TypeOK, loop
  <2>9. ASSUME NEW names, ResetBreakers(names)  PROVE TypeOK'
    BY <2>9 DEF ResetBreakers, TypeOK, monitor, loop
  <2>10. ASSUME NEW pairs \in Links, SetCorrelation(pairs)  PROVE TypeOK'
    BY <2>10, LinksAssumption DEF SetCorrelation, TypeOK, monitor, loop
  <2>11. CASE UNCHANGED vars
    BY <2>11 DEF vars, TypeOK, monitor, loop
  <2>. QED
    BY <2>1, <2>2, <2>3, <2>4, <2>5, <2>6, <2>7, <2>8, <2>9, <2>10, <2>11 DEF Next
<1>. QED  BY <1>1, <1>2, PTL DEF Spec

-----------------------------------------------------------------------------
(* The position limit.                                                     *)

\* The symbol of an approved trade has no open trade yet, so that the fill
\* adds a trade instead of replacing one.
PendingIsNew == pending # NoTrade => book[pending.symbol] = NoTrade

PositionInv == OpenWithinLimit /\ PendingIsNew

\* Open is finite, and adding a trade adds one to its size at most.
LEMMA OpenCount ==
  ASSUME NEW b, NEW x, NEW c, b \subseteq Symbols, c \subseteq b \cup {x}, x \in Symbols
  PROVE  /\ IsFiniteSet(b) /\ Cardinality(b) \in Nat
         /\ Cardinality(c) \in Nat /\ Cardinality(c) <= Cardinality(b) + 1
<1>1. IsFiniteSet(b) /\ Cardinality(b) \in Nat
  BY SymbolsAssumption, FS_Subset, FS_CardinalityType
<1>2. IsFiniteSet(b \cup {x})
  BY <1>1, FS_AddElement
<1>3. Cardinality(b \cup {x}) \in Nat /\ Cardinality(b \cup {x}) <= Cardinality(b) + 1
  <2>1. CASE x \in b
    <3>1. Cardinality(b \cup {x}) = Cardinality(b)
      BY <1>1, <2>1, FS_AddElement
    <3>. QED  BY <1>1, <3>1
  <2>2. CASE x \notin b
    <3>1. Cardinality(b \cup {x}) = Cardinality(b) + 1
      BY <1>1, <2>2, FS_AddElement
    <3>. QED  BY <1>1, <3>1
  <2>. QED  BY <2>1, <2>2
<1>4. Cardinality(c) \in Nat /\ Cardinality(c) <= Cardinality(b \cup {x})
  BY <1>2, FS_Subset, FS_CardinalityType
<1>. QED  BY <1>1, <1>3, <1>4

\* A subset of the open trades is no larger.
LEMMA FewerOpen ==
  ASSUME NEW b, NEW c, b \subseteq Symbols, c \subseteq b
  PROVE  /\ Cardinality(b) \in Nat /\ Cardinality(c) \in Nat
         /\ Cardinality(c) <= Cardinality(b)
BY SymbolsAssumption, FS_Subset, FS_CardinalityType

\* Whatever order approvals, fills, lapses and closes come in, open trades and
\* the approved one never exceed max_open_positions.
LEMMA PositionInvHolds == Spec => []PositionInv
<1> USE LimitsAssumption
<1>1. ASSUME Init  PROVE PositionInv
  <2>1. Open = {} /\ pending = NoTrade
    BY <1>1 DEF Init, Open
  <2>. QED  BY <2>1, FS_EmptySet DEF PositionInv, OpenWithinLimit, PendingIsNew
<1>2. TypeOK /\ PositionInv /\ [Next]_vars => PositionInv'
  <2> SUFFICES ASSUME TypeOK, PositionInv, [Next]_vars  PROVE PositionInv'
    OBVIOUS
  <2>0. Open \subseteq Symbols /\ Cardinality(Open) \in Nat
    BY FewerOpen DEF Open
  <2>1. ASSUME NEW sig \in Signals, Approve(sig)  PROVE PositionInv'
    <3>1. Open' = Open /\ Cardinality(Open) < MaxOpen
      BY <2>1 DEF Approve, PassesGates, SlotFree, Open
    <3>2. book'[pending'.symbol] = NoTrade
      BY <2>1 DEF Approve, Asks
    <3>. QED  BY <2>0, <3>1, <3>2 DEF PositionInv, OpenWithinLimit, PendingIsNew
  <2>2. CASE Fill
    <3>1. pending.symbol \in Symbols /\ pending # NoTrade
      BY <2>2 DEF Fill, TypeOK
    <3>2. Open' \subseteq Open \cup {pending.symbol}
      BY <2>2, <3>1 DEF Fill, Open, TypeOK
    <3>3. Cardinality(Open') \in Nat /\ Cardinality(Open') <= Cardinality(Open) + 1
      BY <2>0, <3>1, <3>2, OpenCount
    <3>4. pending' = NoTrade
      BY <2>2 DEF Fill
    <3>. QED
      BY <2>0, <3>1, <3>3, <3>4 DEF PositionInv, OpenWithinLimit, PendingIsNew
  <2>3. CASE Lapse
    <3>1. Open' = Open /\ pending' = NoTrade
      BY <2>3 DEF Lapse, Open
    <3>. QED  BY <2>0, <3>1 DEF PositionInv, OpenWithinLimit, PendingIsNew
  <2>4. ASSUME NEW s \in Open, NEW pnl, CloseTrade(s, pnl)  PROVE PositionInv'
    <3>1. s \in Symbols /\ book' = [book EXCEPT ![s] = NoTrade] /\ pending' = pending
      BY <2>4 DEF CloseTrade, Open
    <3>2. Open' \subseteq Open
      BY <3>1 DEF Open, TypeOK
    <3>3. Cardinality(Open') \in Nat /\ Cardinality(Open') <= Cardinality(Open)
      BY <2>0, <3>2, FewerOpen
    <3>4. PendingIsNew'
      <4>1. SUFFICES ASSUME pending # NoTrade PROVE book'[pending.symbol] = NoTrade
        BY <3>1 DEF PendingIsNew
      <4>2. pending.symbol \in Symbols /\ book[pending.symbol] = NoTrade
        BY <4>1 DEF TypeOK, PositionInv, PendingIsNew
      <4>. QED  BY <3>1, <4>2 DEF TypeOK
    <3>. QED  BY <2>0, <3>1, <3>3, <3>4 DEF PositionInv, OpenWithinLimit
  <2>5. CASE UNCHANGED <<book, pending>>
    BY <2>5 DEF PositionInv, OpenWithinLimit, PendingIsNew, Open
  <2>6. \/ \E sig \in Signals : Approve(sig)
        \/ Fill \/ Lapse
        \/ \E s \in Open : \E pnl \in Outcomes \cup {-book[s].risk} : CloseTrade(s, pnl)
        \/ UNCHANGED <<book, pending>>
    BY DEF Next, vars, loop, RefuseAtGates, RefuseExposure, UpdateEquity, RolloverDay,
                ResetBreakers, SetCorrelation
  <2>. QED  BY <2>1, <2>2, <2>3, <2>4, <2>5, <2>6
<1>. QED  BY <1>1, <1>2, TypeCorrect, PTL DEF Spec

\* The documented limit (config max_open_positions) holds for every limit, set
\* of symbols and signals, and every order of calls.
THEOREM PositionLimit == Spec => []OpenWithinLimit
<1>1. PositionInv => OpenWithinLimit
  BY DEF PositionInv
<1>. QED  BY <1>1, PositionInvHolds, PTL
-----------------------------------------------------------------------------
(* The exposure registry.                                                  *)

\* However evaluate_signal, fills and reports that raise interleave, no open
\* trade is missing from the registry or registered at less than its notional.
THEOREM RegistryNeverForgets == Spec => []RegistryCoversBook
<1>1. Init => RegistryCoversBook
  BY DEF Init, RegistryCoversBook, Open
<1>2. TypeOK /\ RegistryCoversBook /\ [Next]_vars => RegistryCoversBook'
  <2> SUFFICES ASSUME TypeOK, RegistryCoversBook, [Next]_vars
               PROVE  RegistryCoversBook'
    OBVIOUS
  <2>1. CASE Fill
    <3>1. book' \in [Symbols -> Trade \cup {NoTrade}] /\ registry' = RegistryOf(book')
      BY <2>1 DEF Fill, TypeOK, Trade
    <3>. QED  BY <3>1 DEF RegistryOf, RegistryCoversBook, Open, Trade
  <2>2. ASSUME NEW s \in Open, NEW pnl, CloseTrade(s, pnl)
        PROVE  RegistryCoversBook'
    <3>1. book' = [book EXCEPT ![s] = NoTrade] /\ s \in Symbols
      BY <2>2 DEF CloseTrade, Open
    <3>2. book' \in [Symbols -> Trade \cup {NoTrade}]
      BY <3>1 DEF TypeOK
    <3>3. CASE registry' = RegistryOf(book')
      BY <3>2, <3>3 DEF RegistryOf, RegistryCoversBook, Open, Trade
    <3>4. CASE registry' = registry
      BY <3>1, <3>4 DEF RegistryCoversBook, Open, TypeOK
    <3>. QED  BY <2>2, <3>3, <3>4 DEF CloseTrade
  <2>3. CASE UNCHANGED <<book, registry>>
    BY <2>3 DEF RegistryCoversBook, Open
  <2>4. \/ Fill
        \/ \E s \in Open : \E pnl \in Outcomes \cup {-book[s].risk} : CloseTrade(s, pnl)
        \/ UNCHANGED <<book, registry>>
    BY DEF Next, vars, loop, RefuseAtGates, RefuseExposure, Approve, Restored, Lapse,
           UpdateEquity, RolloverDay, ResetBreakers, SetCorrelation
  <2>. QED  BY <2>1, <2>2, <2>3, <2>4
<1>. QED  BY <1>1, <1>2, TypeCorrect, PTL DEF Spec

-----------------------------------------------------------------------------
(* The equity behind an approval.                                          *)

\* The manager and the drawdown monitor disagree only after a negative equity,
\* which the monitor refused.
MonitorInv == equity >= 0 => cur = equity

\* MonitorInv is an invariant.
LEMMA MonitorInvHolds == Spec => []MonitorInv
<1>1. Init => MonitorInv
  BY DEF Init, MonitorInv
<1>2. TypeOK /\ MonitorInv /\ [Next]_vars => MonitorInv'
  <2> SUFFICES ASSUME TypeOK, MonitorInv, [Next]_vars
               PROVE  MonitorInv'
    OBVIOUS
  <2>1. ASSUME NEW e \in Int, SetEquity(e)  PROVE MonitorInv'
    BY <2>1 DEF SetEquity, MonitorInv
  <2>2. ASSUME NEW s \in Open, NEW pnl \in Outcomes \cup {-book[s].risk}, CloseTrade(s, pnl)
        PROVE  MonitorInv'
    <3>1. book[s].risk \in Nat
      BY DEF Open, TypeOK, Trade
    <3>2. equity + pnl \in Int
      BY <3>1, MoneyAssumption DEF TypeOK
    <3>. QED  BY <2>1, <2>2, <3>2 DEF CloseTrade
  <2>3. ASSUME NEW e \in Marks, UpdateEquity(e)  PROVE MonitorInv'
    BY <2>1, <2>3, MoneyAssumption DEF UpdateEquity
  <2>4. CASE UNCHANGED <<equity, cur>>
    BY <2>4 DEF MonitorInv
  <2>5. \/ \E s \in Open : \E pnl \in Outcomes \cup {-book[s].risk} : CloseTrade(s, pnl)
        \/ \E e \in Marks : UpdateEquity(e)
        \/ UNCHANGED <<equity, cur>>
    BY DEF Next, vars, monitor, RefuseAtGates, RefuseExposure, Approve, Fill, Lapse,
           RolloverDay, ResetBreakers, SetCorrelation
  <2>. QED  BY <2>2, <2>3, <2>4, <2>5
<1>. QED  BY <1>1, <1>2, TypeCorrect, PTL DEF Spec

\* No approval is ever sized on an equity that is not positive or that the
\* drawdown checks have not seen, even after a report that raised ValueError.
THEOREM ApprovalEquity == Spec => ApprovalsSeeTrueEquity
<1>1. TypeOK /\ MonitorInv /\ [Next]_vars
        => [\A sig \in Signals : Approve(sig) => equity > 0 /\ cur = equity]_vars
  <2> SUFFICES ASSUME TypeOK, MonitorInv, NEW sig \in Signals, Approve(sig)
               PROVE  equity > 0 /\ cur = equity
    OBVIOUS
  <2>1. HasSize(sig) /\ equity \in Int /\ streak \in Nat
    BY DEF Approve, PassesGates, TypeOK
  <2>2. equity > 0
    BY <2>1, SizingOfSignal
  <2>. QED  BY <2>1, <2>2 DEF MonitorInv
<1>. QED  BY <1>1, TypeCorrect, MonitorInvHolds, PTL DEF Spec, ApprovalsSeeTrueEquity

\* What a registry that covers the book is worth with one symbol set anew is no
\* less than the book and the new notional.
LEMMA NotionalOfBook ==
  ASSUME TypeOK, RegistryCoversBook, NEW new \in Symbols, book[new] = NoTrade, NEW n \in Nat
  PROVE  Notional(RegistryOf(book), Symbols) + n <= Notional([registry EXCEPT ![new] = n], Symbols)
<1> DEFINE held == RegistryOf(book)
           with == [registry EXCEPT ![new] = n]
           rest == Symbols \ {new}
<1>1. held \in [Symbols -> Nat] /\ held[new] = 0
  BY RegistryOfType DEF TypeOK, RegistryOf
<1>2. with \in [Symbols -> Nat] /\ with[new] = n
  BY DEF TypeOK
<1>3. \A s \in rest : held[s] <= with[s]
  <2> SUFFICES ASSUME NEW s \in rest PROVE held[s] <= registry[s]
    BY DEF TypeOK
  <2>1. CASE book[s] = NoTrade
    BY <2>1 DEF RegistryOf, TypeOK
  <2>2. CASE book[s] # NoTrade
    BY <2>2 DEF RegistryOf, RegistryCoversBook, Open
  <2>. QED  BY <2>1, <2>2
<1> HIDE DEF held, with
<1>4. /\ SumFunctionOnSet(held, Symbols) = held[new] + SumFunctionOnSet(held, rest)
      /\ SumFunctionOnSet(with, Symbols) = with[new] + SumFunctionOnSet(with, rest)
  BY <1>1, <1>2, SymbolsAssumption, SumOfOneMore
<1>5. IsFiniteSet(rest)
  BY SymbolsAssumption, FS_Subset
<1>6. /\ SumFunctionOnSet(held, rest) <= SumFunctionOnSet(with, rest)
      /\ SumFunctionOnSet(held, rest) \in Int /\ SumFunctionOnSet(with, rest) \in Int
  BY <1>1, <1>2, <1>3, <1>5, SumIsMonotonic, SumIsInt
<1>7. SumFunctionOnSet(held, Symbols) + n <= SumFunctionOnSet(with, Symbols)
  BY <1>1, <1>2, <1>4, <1>6
<1>. QED  BY <1>7 DEF Notional, held, with

\* An approval keeps the whole book, the new trade included, within the equity,
\* for any number of symbols and whatever else is registered.
THEOREM ApprovalLeverage == Spec => ApprovalsKeepLeverage
<1>1. TypeOK /\ RegistryCoversBook /\ MonitorInv /\ [Next]_vars
        => [\A sig \in Signals : Approve(sig) =>
              Notional(RegistryOf(book), Symbols) + pending'.notional <= equity]_vars
  <2> SUFFICES ASSUME TypeOK, RegistryCoversBook, NEW sig \in Signals, Approve(sig)
               PROVE  Notional(RegistryOf(book), Symbols) + pending'.notional <= equity
    OBVIOUS
  <2> DEFINE n == SizingOf(sig).notional
             whole == Notional(Hypothetical(sig), Symbols)
  <2>1. HasSize(sig) /\ equity \in Int /\ streak \in Nat /\ sig.symbol \in Symbols
    BY SignalsAssumption DEF Approve, PassesGates, TypeOK
  <2>2. equity > 0 /\ n \in Nat
    BY <2>1, SizingOfSignal
  <2>3. ~(whole > equity) /\ pending'.notional = n /\ book[sig.symbol] = NoTrade
    BY <2>2 DEF Approve, Violates, Asks
  <2>4. Hypothetical(sig) = [registry EXCEPT ![sig.symbol] = n]
    BY DEF Hypothetical
  <2>5. Notional(RegistryOf(book), Symbols) + n <= whole
    BY <2>1, <2>2, <2>3, <2>4, NotionalOfBook
  <2>6. whole \in Int /\ Notional(RegistryOf(book), Symbols) \in Int
    <3>1. Hypothetical(sig) \in [Symbols -> Nat] /\ RegistryOf(book) \in [Symbols -> Nat]
      BY <2>2, <2>4, RegistryOfType DEF TypeOK
    <3>. QED  BY <3>1, SymbolsAssumption, SumIsInt DEF Notional
  <2> HIDE DEF n, whole
  <2>. QED  BY <2>1, <2>2, <2>3, <2>5, <2>6
<1>. QED  BY <1>1, TypeCorrect, RegistryNeverForgets, MonitorInvHolds, PTL DEF Spec, ApprovalsKeepLeverage

-----------------------------------------------------------------------------
(* Reports and breakers.                                                   *)

\* For every limit, streak and profit: a report answers RUNNING exactly when
\* the breakers evaluated afterwards would all stay closed.
THEOREM VerdictMatchesBreakers == Spec => CloseVerdictMatchesBreakers
<1>1. TypeOK /\ [Next]_vars =>
        [\A s \in Open : \A pnl \in Outcomes \cup {-book[s].risk} :
           CloseTrade(s, pnl) /\ verdict' # "ValueError"
             => (verdict' = "RUNNING" <=> TrippedNow' = {})]_vars
  <2> SUFFICES ASSUME TypeOK, NEW s \in Open, NEW pnl \in Outcomes \cup {-book[s].risk},
                      CloseTrade(s, pnl), verdict' # "ValueError"
               PROVE  verdict' = "RUNNING" <=> TrippedNow' = {}
    OBVIOUS
  <2>1. verdict' = CloseVerdict(pnl) /\ streak' = StreakAfter(pnl) /\ SetEquity(equity + pnl)
    BY DEF CloseTrade
  <2>2. cur' = equity + pnl /\ sod' = sod
    BY <2>1 DEF CloseVerdict, SetEquity
  <2>3. TrippedNow' = {} <=> /\ ~ReachesFrom(sod, equity + pnl, DailyMaxDD)
                             /\ ~ReachesFrom(sod, equity + pnl, EmergencyDD)
                             /\ ~StreakExceeded(StreakAfter(pnl))
    BY <2>1, <2>2 DEF TrippedNow, Breakers, Reaches, ReachesFrom, StreakExceeded
  <2>4. verdict' = "RUNNING" <=> /\ ~ReachesFrom(sod, equity + pnl, DailyMaxDD)
                                 /\ ~ReachesFrom(sod, equity + pnl, EmergencyDD)
                                 /\ ~StreakExceeded(StreakAfter(pnl))
    BY <2>1 DEF CloseVerdict, CheckAt
  <2>. QED  BY <2>3, <2>4
<1>. QED  BY <1>1, TypeCorrect, PTL DEF Spec, CloseVerdictMatchesBreakers

\* A manager that is flat and locked by its losing streak stays so for ever:
\* only a winning close resets the streak, and it has nothing left to close.
THEOREM StreakLockHasNoExit == Spec => StreakLockIsTerminal
<1>1. [Next]_vars =>
        [StreakExceeded(streak) /\ Open = {} /\ pending = NoTrade
           => StreakExceeded(streak') /\ Open' = {} /\ pending' = NoTrade]_vars
  <2> SUFFICES ASSUME Next, StreakExceeded(streak), Open = {}, pending = NoTrade
               PROVE  StreakExceeded(streak') /\ Open' = {} /\ pending' = NoTrade
    OBVIOUS
  <2>1. "consecutive_losses" \in TrippedNow
    BY DEF TrippedNow, Breakers
  <2>2. \A sig \in Signals : ~Approve(sig)
    BY <2>1 DEF Approve, PassesGates
  <2>3. UNCHANGED <<streak, book, pending>>
    BY <2>2 DEF Next, Fill, Lapse, loop, RefuseAtGates, RefuseExposure,
                UpdateEquity, RolloverDay, ResetBreakers, SetCorrelation
  <2>. QED  BY <2>3 DEF Open
<1>. QED  BY <1>1, PTL DEF Spec, StreakLockIsTerminal
-----------------------------------------------------------------------------
(* The emergency drawdown, for the default position limit of one trade.    *)

\* The configuration for which the limits compose: one trade at a time (the
\* default), a risk of at most the whole equity, and an emergency limit at
\* least one full risk beyond the daily one (defaults: 300 + 100 <= 500).
LimitsCompose ==
  /\ MaxOpen = 1
  /\ DailyMaxDD > 0
  /\ MaxRisk <= 10000
  /\ DailyMaxDD + MaxRisk <= EmergencyDD

\* The loss, in money, that the day may still reach.
Floor(start) == (DailyMaxDD + MaxRisk) * 100 * start

\* A trade that is open or approved: its loss at the stop is within the maximum
\* risk of the present equity and keeps the day above the floor.
Affordable(eq, now, start, risk) ==
  /\ eq = now
  /\ risk * Scale <= now * (MaxRisk * 100)
  /\ start > 0 => (start - now + risk) * Scale < Floor(start)

\* Without a shock the day is above the floor and every trade is affordable.
LossInv ==
  ~shocked =>
    /\ sod > 0 => (sod - cur) * Scale < Floor(sod)
    /\ \A s \in Open : Affordable(equity, cur, sod, book[s].risk)
    /\ pending # NoTrade => Affordable(equity, cur, sod, pending.risk)

\* The algebra of one approval: below the daily limit there is room for one
\* loss of the maximum risk, whether the day is up or down.
LEMMA RoomForOneLoss ==
  ASSUME NEW start \in Nat, start > 0, NEW now \in Nat, NEW risk \in Nat,
         NEW D \in Nat, D > 0, NEW R \in Nat, R * 100 <= Scale,
         (start - now) * Scale < D * 100 * start,
         risk * Scale <= now * (R * 100)
  PROVE  (start - now + risk) * Scale < (D + R) * 100 * start
<1>0. R * 100 \in Nat /\ Scale - R * 100 \in Nat
  BY SMT DEF Scale
<1>1. CASE now <= start
  <2>1. now * (R * 100) <= start * (R * 100)
    BY <1>0, <1>1, TimesIsMonotonic
  <2>. QED  BY SMT, <2>1 DEF Scale
<1>2. CASE start <= now
  <2>1. start * (Scale - R * 100) <= now * (Scale - R * 100)
    BY <1>0, <1>2, TimesIsMonotonic
  <2>2. D * start > 0
    OBVIOUS
  <2>. QED  BY SMT, <2>1, <2>2 DEF Scale
<1>. QED  BY <1>1, <1>2

\* LossInv is inductive when the limits compose.
LEMMA LossInvHolds == ASSUME LimitsCompose PROVE Spec => []LossInv
<1> USE LimitsAssumption
<1>1. Init => LossInv
  <2> SUFFICES ASSUME Init PROVE LossInv
    OBVIOUS
  <2>1. Open = {} /\ pending = NoTrade /\ sod = cur /\ sod \in Nat
    BY MoneyAssumption DEF Init, Open
  <2>2. sod > 0 => (sod - cur) * Scale < Floor(sod)
    BY SMT, <2>1 DEF Floor, Scale, LimitsCompose
  <2>. QED  BY <2>1, <2>2 DEF LossInv
<1>2. TypeOK /\ PositionInv /\ MonitorInv /\ LossInv /\ [Next]_vars => LossInv'
  <2> SUFFICES ASSUME TypeOK, PositionInv, MonitorInv, LossInv, [Next]_vars
               PROVE  LossInv'
    OBVIOUS
  <2> USE DEF TypeOK
  <2>0. \A s \in Open : book[s].risk \in Nat
    BY DEF Open, Trade
  <2>1. ASSUME NEW sig \in Signals, Approve(sig)  PROVE LossInv'
    <3> DEFINE r == SizingOf(sig).expectedLoss
    <3>1. HasSize(sig) /\ TrippedNow = {} /\ pending'.risk = r /\ UNCHANGED <<book, equity, sod, cur, shocked>>
      BY <2>1 DEF Approve, PassesGates, monitor
    <3>2. r \in Nat /\ equity > 0 /\ r * Scale <= equity * (MaxRisk * 100)
      BY <3>1, SizingOfSignal
    <3>3. equity = cur
      BY <3>2 DEF MonitorInv
    <3>4. sod > 0 => (sod - cur) * 10000 < DailyMaxDD * sod
      <4>1. "daily_dd" \notin TrippedNow /\ "daily_dd" \in Breakers
        BY <3>1 DEF Breakers
      <4>2. ~Reaches(DailyMaxDD)
        BY <4>1 DEF TrippedNow
      <4> HIDE DEF TypeOK
      <4>3. sod \in Int /\ cur \in Nat
        BY DEF TypeOK
      <4>. QED  BY SMT, <4>2, <4>3 DEF Reaches, ReachesFrom
    <3>5. sod > 0 => (sod - cur + r) * Scale < Floor(sod)
      <4> SUFFICES ASSUME sod > 0 PROVE (sod - cur + r) * Scale < Floor(sod)
        OBVIOUS
      <4>1. /\ sod \in Nat /\ cur \in Nat /\ DailyMaxDD > 0 /\ MaxRisk * 100 <= Scale
            /\ (sod - cur) * Scale < DailyMaxDD * 100 * sod
            /\ r * Scale <= cur * (MaxRisk * 100)
        BY SMT, <3>2, <3>3, <3>4 DEF LimitsCompose, Scale
      <4>2. (sod - cur + r) * Scale < (DailyMaxDD + MaxRisk) * 100 * sod
        <5> HIDE DEF r
        <5>1. DailyMaxDD \in Nat /\ MaxRisk \in Nat /\ sod > 0 /\ r \in Nat
          BY <3>2
        <5>. QED  BY <4>1, <5>1, RoomForOneLoss
      <4>. QED  BY <4>2 DEF Floor
    <3>6. Affordable(equity', cur', sod', pending'.risk)
      BY <3>1, <3>2, <3>3, <3>5 DEF Affordable
    <3>. QED  BY <3>1, <3>6 DEF LossInv, Open
  <2>2. CASE Fill
    <3>1. /\ book' = [book EXCEPT ![pending.symbol] =
                        [notional |-> pending.notional, risk |-> pending.risk]]
          /\ pending # NoTrade /\ pending' = NoTrade
          /\ UNCHANGED <<equity, sod, cur, shocked>>
      BY <2>2 DEF Fill, monitor
    <3>2. ASSUME ~shocked, NEW s \in Open'
          PROVE  Affordable(equity, cur, sod, book[s].risk)'
      <4>1. CASE s = pending.symbol
        BY <3>1, <3>2, <4>1 DEF LossInv, Open
      <4>2. CASE s # pending.symbol
        <5>1. s \in Open /\ book'[s] = book[s]
          BY <3>1, <3>2, <4>2 DEF Open
        <5>. QED  BY <3>1, <3>2, <5>1 DEF LossInv
      <4>. QED  BY <4>1, <4>2
    <3>. QED  BY <3>1, <3>2 DEF LossInv
  <2>3. ASSUME NEW s \in Open, NEW pnl \in Outcomes \cup {-book[s].risk}, CloseTrade(s, pnl)
        PROVE  LossInv'
    <3> SUFFICES ASSUME ~shocked'
                 PROVE  LossInv'
      BY DEF LossInv
    <3> DEFINE r == book[s].risk
    <3>1. /\ book' = [book EXCEPT ![s] = NoTrade] /\ pending' = pending
          /\ SetEquity(equity + pnl) /\ ~shocked /\ ~(pnl < -r)
      BY <2>3 DEF CloseTrade
    <3>2. r \in Nat /\ s \in Symbols
      BY <2>0 DEF Open
    <3>3. pnl \in Int
      BY <3>2, MoneyAssumption
    <3>4. Open' = {} /\ pending' = NoTrade
      <4>1. Open \in SUBSET Symbols /\ {s} \subseteq Open
        BY DEF Open
      <4>2. Cardinality({s}) = 1 /\ Cardinality({s}) <= Cardinality(Open) /\ Cardinality(Open) \in Nat
        BY <4>1, FewerOpen, FS_Singleton
      <4>3. Cardinality(Open) = 1 /\ pending = NoTrade
        BY <4>2 DEF PositionInv, OpenWithinLimit, LimitsCompose
      <4>4. IsFiniteSet(Open)
        BY <4>1, SymbolsAssumption, FS_Subset
      <4>5. Open = {s}
        BY <4>1, <4>2, <4>3, <4>4, FS_Subset
      <4>. QED  BY <3>1, <4>3, <4>5 DEF Open
    <3>5. Affordable(equity, cur, sod, r) /\ (sod > 0 => (sod - cur) * Scale < Floor(sod))
      BY <3>1 DEF LossInv
    <3>6. sod' = sod /\ cur' \in Nat /\ (cur' = cur \/ cur' >= cur - r)
      BY <3>1, <3>2, <3>3, <3>5 DEF SetEquity, Affordable
    <3>7. sod' > 0 => (sod' - cur') * Scale < Floor(sod')
      <4>1. CASE cur' = cur
        BY <3>5, <3>6, <4>1
      <4>2. CASE cur' >= cur - r
        <5>1. (sod - cur') * Scale <= (sod - cur + r) * Scale
          BY SMT, <3>2, <3>6, <4>2 DEF Scale
        <5>2. sod > 0 => (sod - cur + r) * Scale < Floor(sod)
          BY <3>5 DEF Affordable
        <5>3. /\ Floor(sod) \in Int /\ (sod - cur') * Scale \in Int
              /\ (sod - cur + r) * Scale \in Int
          BY SMT, <3>2, <3>6 DEF Floor, Scale
        <5>. QED  BY <3>6, <5>1, <5>2, <5>3
      <4>. QED  BY <3>6, <4>1, <4>2
    <3>. QED  BY <3>4, <3>7 DEF LossInv, Floor
  <2>4. ASSUME NEW e \in Marks \cup {cur}, RolloverDay(e)  PROVE LossInv'
    <3> SUFFICES ASSUME ~shocked'
                 PROVE  LossInv'
      BY DEF LossInv
    <3>1. /\ e = cur /\ sod' = e /\ UNCHANGED <<cur, equity, book, pending>>
          /\ ~shocked \/ (Open = {} /\ pending = NoTrade)
      BY <2>4 DEF RolloverDay, loop
    <3>2. sod' > 0 => (sod' - cur') * Scale < Floor(sod')
      BY SMT, <3>1 DEF Floor, Scale, LimitsCompose
    <3>3. ASSUME NEW risk \in Nat, Affordable(equity, cur, sod, risk)
          PROVE  Affordable(equity', cur', sod', risk)
      BY SMT, <3>1, <3>3 DEF Affordable, Floor, Scale, LimitsCompose
    <3>4. ~shocked /\ pending # NoTrade => Affordable(equity', cur', sod', pending.risk)
      BY <3>3 DEF LossInv
    <3>5. ~shocked => \A s \in Open : Affordable(equity', cur', sod', book[s].risk)
      BY <2>0, <3>3 DEF LossInv
    <3>. QED  BY <3>1, <3>2, <3>4, <3>5 DEF LossInv, Open
  <2>5. ASSUME NEW e \in Marks, UpdateEquity(e)  PROVE LossInv'
    BY <2>5 DEF UpdateEquity, LossInv
  <2>6. CASE Lapse
    BY <2>6 DEF Lapse, LossInv, Open, Affordable, Floor, monitor
  <2>7. CASE UNCHANGED <<equity, sod, cur, book, pending, shocked>>
    BY <2>7 DEF LossInv, Open
  <2>8. \/ \E sig \in Signals : Approve(sig)
        \/ Fill \/ Lapse
        \/ \E s \in Open : \E pnl \in Outcomes \cup {-book[s].risk} : CloseTrade(s, pnl)
        \/ \E e \in Marks : UpdateEquity(e)
        \/ \E e \in Marks \cup {cur} : RolloverDay(e)
        \/ UNCHANGED <<equity, sod, cur, book, pending, shocked>>
    BY DEF Next, vars, monitor, loop, RefuseAtGates, RefuseExposure, ResetBreakers,
           SetCorrelation
  <2>. QED  BY <2>1, <2>2, <2>3, <2>4, <2>5, <2>6, <2>7, <2>8
<1>. QED  BY <1>1, <1>2, TypeCorrect, PositionInvHolds, MonitorInvHolds, PTL DEF Spec

\* The limits compose: with one trade at a time, and an emergency limit one
\* full risk beyond the daily one, only a shock brings the day to the emergency
\* drawdown, whatever the signals, the equity and the order of calls.
THEOREM EmergencyLimit == ASSUME LimitsCompose PROVE Spec => []EmergencyNeedsShock
<1>1. TypeOK /\ LossInv => EmergencyNeedsShock
  <2> SUFFICES ASSUME TypeOK, LossInv, ~shocked, sod > 0
               PROVE  (sod - cur) * 10000 < EmergencyDD * sod
    BY DEF EmergencyNeedsShock
  <2>1. (sod - cur) * Scale < Floor(sod) /\ sod \in Nat /\ cur \in Nat
    BY DEF LossInv, TypeOK
  <2>2. (DailyMaxDD + MaxRisk) * sod <= EmergencyDD * sod
    BY <2>1, LimitsAssumption, TimesIsMonotonic DEF LimitsCompose
  <2>3. Floor(sod) = 100 * ((DailyMaxDD + MaxRisk) * sod)
    BY <2>1, LimitsAssumption DEF Floor
  <2>4. (DailyMaxDD + MaxRisk) * sod \in Nat /\ EmergencyDD * sod \in Nat
    BY <2>1, LimitsAssumption
  <2>. QED  BY SMT, <2>1, <2>2, <2>3, <2>4 DEF Scale
<1>. QED  BY <1>1, TypeCorrect, LossInvHolds, PTL
=============================================================================
