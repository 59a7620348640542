----------------------------- MODULE Simulator -----------------------------
(***************************************************************************)
(* The backtest simulator (backtest/simulator.py): run takes the signals   *)
(* one by one, gates each, fills it on a later candle, and manages the     *)
(* position to its exit or to the end of the candles before it looks at    *)
(* the next signal, which may be earlier than that exit.                   *)
(*                                                                         *)
(* Candles and signals are the inputs: Init chooses them, nothing changes  *)
(* them.  A timestamp is the index of its candle, 0 if it has none.        *)
(* Slippage and spread are a fixed amount per price, fees a fixed amount   *)
(* per unit, so that money stays integer.  The two sides of _manage mirror *)
(* each other and are written once, as levels in the trade's direction.    *)
(***************************************************************************)
EXTENDS Integers, Sequences, FiniteSets, FiniteSetsExt, SequencesExt

CONSTANTS
  Candles,      \* [open, high, low, close, atr], atr NoValue if NaN or absent
  Days,         \* the day of each candle, a sequence
  Signals,      \* [bar, side, entry, stop, target, quantity]
  MaxSignals,   \* bound: signals of a run
  LatencyBars, MaxOpen, BreakEvenR, TrailMult, InitialEquity,
  EntrySlip,    \* slippage and half the spread of a fill
  ExitSlip,     \* slippage of an exit, 0 unless apply_slippage_on_exit
  Fee,          \* fee of one unit, charged on both sides
  Rejections,   \* rejection_prob > 0
  PartialFills, \* partial_fill_prob > 0: half the quantity is filled
  NoValue       \* model value: None, NaN

ASSUME FactorsAssumption ==
  /\ {LatencyBars, MaxOpen, BreakEvenR, TrailMult, EntrySlip, ExitSlip, Fee} \subseteq Nat
  /\ InitialEquity \in Nat /\ Len(Days) > 0
  /\ Rejections \in BOOLEAN /\ PartialFills \in BOOLEAN

Candle == [open : Int, high : Int, low : Int, close : Int, atr : Int \cup {NoValue}]
Sides == {"BUY", "SELL"}
Signal ==
  [bar : Int, side : Sides, entry : Int, stop : Int, target : Int, quantity : Int]

ASSUME InputsAssumption ==
  /\ Days \in Seq(Int) /\ NoValue \notin Int
  /\ Candles \subseteq Candle /\ Signals \subseteq Signal

Bars == DOMAIN Days
LastBar == Len(Days)

VARIABLES
  candles, signals,   \* the inputs
  k,                  \* the signal that run looks at
  phase,              \* where run is: "signal", "manage" or "done"
  bar,                \* i of _manage
  movedBe,            \* moved_be of _manage
  equity,             \* equity_ref[0]
  startOfDay, lastDay,
  positions,          \* open_positions, which keeps the closed ones too
  trades,             \* trade_rows
  rejections          \* signal_rejections

inputs == <<candles, signals>>
day == <<startOfDay, lastDay>>
vars == <<inputs, k, phase, bar, movedBe, equity, day, positions, trades, rejections>>

Reasons == {"NO_CANDLE", "LATENCY_OVERFLOW", "DAILY_DD_LIMIT", "MAX_OPEN_POSITIONS",
            "REJECTION_SIMULATED", "ZERO_RISK", "INVALID_STOP_SIDE"}

Direction(side) == IF side = "BUY" THEN 1 ELSE -1
Level(side, price) == Direction(side) * price
Favorable(side, c) == IF side = "BUY" THEN c.high ELSE c.low
Adverse(side, c) == IF side = "BUY" THEN c.low ELSE c.high

-----------------------------------------------------------------------------
(* Gates. *)

\* A bug: the signal is filled on the candle it was computed from.
BugFillBar(s) == s.bar + LatencyBars

FillBar(s) == s.bar + 1 + LatencyBars

HasCandle(s) == s.bar > 0
HasFillBar(s) == HasCandle(s) /\ FillBar(s) <= LastBar

\* start_of_day after the rollover that the fill bar of s may bring.
StartOfDay(s) == IF Days[FillBar(s)] # lastDay THEN equity ELSE startOfDay

DailyLimit(s) ==
  StartOfDay(s) > 0 /\ (StartOfDay(s) - equity) * 100 >= 3 * StartOfDay(s)

RiskAhead(s) == Level(s.side, s.entry) - Level(s.side, s.stop)

\* The reason of the first gate that refuses s, "none" if all let it pass.
\* unlucky: the draw against rejection_prob.
Refusal(s, unlucky) ==
  IF ~HasCandle(s) THEN "NO_CANDLE"
  ELSE IF ~HasFillBar(s) THEN "LATENCY_OVERFLOW"
  ELSE IF DailyLimit(s) THEN "DAILY_DD_LIMIT"
  ELSE IF Len(positions) >= MaxOpen THEN "MAX_OPEN_POSITIONS"
  ELSE IF unlucky THEN "REJECTION_SIMULATED"
  ELSE IF RiskAhead(s) = 0 THEN "ZERO_RISK"
  ELSE IF RiskAhead(s) < 0 THEN "INVALID_STOP_SIDE"
  ELSE "none"

Draws == IF Rejections THEN BOOLEAN ELSE {FALSE}
Quantities(s) == IF PartialFills THEN {s.quantity, s.quantity \div 2} ELSE {s.quantity}

-----------------------------------------------------------------------------
(* Position management. *)

Current == positions[Len(positions)]

\* pos.max_favorable or -1e18: a zero counts as not set.
MaxFavorable(p, c) ==
  LET fav == Level(p.side, Favorable(p.side, c)) - Level(p.side, p.entry)
  IN  IF p.maxFavorable \in {NoValue, 0} \/ fav >= p.maxFavorable THEN fav ELSE p.maxFavorable

\* The current position once _manage has seen the extremes of candle c.
Seen(c) == [Current EXCEPT !.maxFavorable = MaxFavorable(Current, c)]

StopHit(p, c) == Level(p.side, Adverse(p.side, c)) <= Level(p.side, p.stop)
TargetHit(p, c) == Level(p.side, Favorable(p.side, c)) >= Level(p.side, p.target)

Audit(old, new, reason) == [old |-> old, new |-> new, reason |-> reason]

\* The stop goes to the entry, wherever it was.  A maximum of zero is falsy.
ReachesBreakEven(p, c) ==
  /\ ~movedBe
  /\ MaxFavorable(p, c) # 0
  /\ MaxFavorable(p, c) >= (Level(p.side, p.entry) - Level(p.side, p.stop)) * BreakEvenR

BreakEven(p, c) ==
  IF ReachesBreakEven(p, c)
  THEN [p EXCEPT !.stop = p.entry,
                 !.audit = Append(@, Audit(p.stop, p.entry, "BREAK_EVEN"))]
  ELSE p

\* A bug: a stop that trails is not written to the audit.
BugTrailing(p, c) ==
  LET trail == Favorable(p.side, c) - Direction(p.side) * TrailMult * c.atr
  IN  IF c.atr # NoValue /\ Level(p.side, trail) > Level(p.side, p.stop)
      THEN [p EXCEPT !.stop = trail]
      ELSE p

Trailing(p, c) ==
  LET trail == Favorable(p.side, c) - Direction(p.side) * TrailMult * c.atr
  IN  IF c.atr # NoValue /\ Level(p.side, trail) > Level(p.side, p.stop)
      THEN [p EXCEPT !.stop = trail,
                     !.audit = Append(@, Audit(p.stop, trail, "TRAILING"))]
      ELSE p

\* A bug: only losses are booked before the end.
BugBooked(pnl) == IF pnl < 0 THEN equity + pnl ELSE equity

\* The running equity after a result.
Booked(pnl) == equity + pnl

\* _exit of p, position number n, at this price and bar.
Exit(n, p, price, at, reason) ==
  LET exit == price - Direction(p.side) * ExitSlip
      fees == p.fees + p.quantity * Fee
      pnl == (Level(p.side, exit) - Level(p.side, p.entry)) * p.quantity - fees
  IN  /\ equity' = Booked(pnl)
      /\ positions' = [positions EXCEPT ![n] = [p EXCEPT !.closedAt = at, !.fees = fees]]
      /\ trades' = Append(trades,
           [position |-> n, signalAt |-> p.signalAt, openedAt |-> p.openedAt,
            closedAt |-> at, pnl |-> pnl, reason |-> reason])

-----------------------------------------------------------------------------
\* candles sorted by time, signals sorted by time.
Init ==
  /\ candles \in [Bars -> Candles]
  /\ signals \in {ss \in SeqOf(Signals, MaxSignals) :
                    \A i, j \in DOMAIN ss : i < j => ss[i].bar <= ss[j].bar}
  /\ k = 1 /\ phase = "signal" /\ bar = 1 /\ movedBe = FALSE
  /\ equity = InitialEquity
  /\ startOfDay = InitialEquity /\ lastDay = Days[1]
  /\ positions = <<>> /\ trades = <<>> /\ rejections = <<>>

Considering == phase = "signal" /\ k <= Len(signals)

\* The signal is refused; the day has rolled over if it got that far.
RejectSignal(unlucky) ==
  LET s == signals[k]
      reason == Refusal(s, unlucky)
  IN  /\ Considering /\ reason # "none"
      /\ rejections' = Append(rejections,
           [reason |-> reason, fillBar |-> IF HasFillBar(s) THEN FillBar(s) ELSE 0])
      /\ IF HasFillBar(s)
         THEN startOfDay' = StartOfDay(s) /\ lastDay' = Days[FillBar(s)]
         ELSE UNCHANGED day
      /\ k' = k + 1
      /\ UNCHANGED <<inputs, phase, bar, movedBe, equity, positions, trades>>

\* The signal is filled at the open of its fill bar, and _manage starts.
FillSignal(quantity) ==
  LET s == signals[k]
      entry == candles[FillBar(s)].open + Direction(s.side) * EntrySlip
  IN  /\ Considering
      /\ \E unlucky \in Draws : Refusal(s, unlucky) = "none"
      /\ startOfDay' = StartOfDay(s) /\ lastDay' = Days[FillBar(s)]
      /\ positions' = Append(positions,
           [side |-> s.side, quantity |-> quantity, entry |-> entry, initial |-> s.stop,
            stop |-> s.stop, target |-> s.target, fees |-> quantity * Fee,
            signalAt |-> s.bar, openedAt |-> FillBar(s), closedAt |-> NoValue,
            maxFavorable |-> NoValue, audit |-> <<Audit(NoValue, s.stop, "INITIAL")>>])
      /\ equity' = equity - quantity * Fee
      /\ phase' = "manage" /\ bar' = FillBar(s) + 1 /\ movedBe' = FALSE
      /\ UNCHANGED <<inputs, k, trades, rejections>>

NextSignal == phase' = "signal" /\ k' = k + 1

\* The bar hits the stop, looked at first, or the target.
ManageExit ==
  LET c == candles[bar]
      p == Seen(c)
  IN  /\ phase = "manage" /\ bar <= LastBar
      /\ StopHit(p, c) \/ TargetHit(p, c)
      /\ IF StopHit(p, c) THEN Exit(Len(positions), p, p.stop, bar, "SL")
                          ELSE Exit(Len(positions), p, p.target, bar, "TP")
      /\ NextSignal
      /\ UNCHANGED <<inputs, bar, movedBe, day, rejections>>

\* The position survives the bar; its stop may move to break-even and trail.
ManageMove ==
  LET c == candles[bar]
      p == Seen(c)
  IN  /\ phase = "manage" /\ bar <= LastBar
      /\ ~StopHit(p, c) /\ ~TargetHit(p, c)
      /\ positions' = [positions EXCEPT ![Len(positions)] = Trailing(BreakEven(p, c), c)]
      /\ movedBe' = (movedBe \/ ReachesBreakEven(p, c))
      /\ bar' = bar + 1
      /\ UNCHANGED <<inputs, k, phase, equity, day, trades, rejections>>

\* A bug: _manage runs out of candles and the signal is never passed.
BugManageEnds ==
  /\ phase = "manage" /\ bar > LastBar
  /\ k' = k + 1
  /\ UNCHANGED <<inputs, phase, bar, movedBe, equity, day, positions, trades, rejections>>

\* A bug: _manage goes on until the position has an exit.
BugManageWaits ==
  /\ phase = "manage" /\ bar > LastBar /\ Current.closedAt # NoValue
  /\ NextSignal
  /\ UNCHANGED <<inputs, bar, movedBe, equity, day, positions, trades, rejections>>

\* The candles end with the position open.
ManageEnds ==
  /\ phase = "manage" /\ bar > LastBar
  /\ NextSignal
  /\ UNCHANGED <<inputs, bar, movedBe, equity, day, positions, trades, rejections>>

Unclosed == {n \in DOMAIN positions : positions[n].closedAt = NoValue}

\* After the signals, positions still open leave at the last close, in order.
TimeoutExit ==
  /\ phase = "signal" /\ k > Len(signals) /\ Unclosed # {}
  /\ Exit(Min(Unclosed), positions[Min(Unclosed)], candles[LastBar].close, LastBar, "TIMEOUT")
  /\ UNCHANGED <<inputs, k, phase, bar, movedBe, day, rejections>>

Finish ==
  /\ phase = "signal" /\ k > Len(signals) /\ Unclosed = {}
  /\ phase' = "done"
  /\ UNCHANGED <<inputs, k, bar, movedBe, equity, day, positions, trades, rejections>>

Next ==
  \/ \E unlucky \in Draws : RejectSignal(unlucky)
  \/ Considering /\ \E quantity \in Quantities(signals[k]) : FillSignal(quantity)
  \/ ManageExit \/ ManageMove \/ ManageEnds
  \/ TimeoutExit \/ Finish

\* run is one function call: it keeps running until it returns.
Spec == Init /\ [][Next]_vars /\ WF_vars(Next)

-----------------------------------------------------------------------------
(* Properties.                                                             *)

\* Counters stay within the inputs, and the journal refers to positions.
TypeOK ==
  /\ k \in 1 .. Len(signals) + 1
  /\ phase \in {"signal", "manage", "done"}
  /\ bar \in 1 .. LastBar + 1 /\ movedBe \in BOOLEAN
  /\ equity \in Int /\ startOfDay \in Int /\ lastDay \in {Days[b] : b \in Bars}
  /\ \A n \in DOMAIN positions :
       /\ positions[n].side \in {"BUY", "SELL"} /\ positions[n].stop \in Int
       /\ positions[n].openedAt \in Bars /\ positions[n].closedAt \in Bars \cup {NoValue}
  /\ \A n \in DOMAIN trades : trades[n].position \in DOMAIN positions
  /\ \A n \in DOMAIN rejections : rejections[n].reason \in Reasons

\* "There are no SL mutations outside the audit trail"
\* (tests/test_phase25.py:172): the audit starts with the initial stop, each
\* entry starts where the one before ended, and the last is the present stop.
AuditIsComplete ==
  \A n \in DOMAIN positions :
    LET a == positions[n].audit
    IN  /\ a[1] = Audit(NoValue, positions[n].initial, "INITIAL")
        /\ \A i \in 2 .. Len(a) : a[i].old = a[i - 1].new
        /\ positions[n].stop = a[Len(a)].new

\* The running equity behind the daily limit is the equity of the journal less
\* every entry fee a second time: it never overstates, and misses nothing else.
Results == [n \in DOMAIN trades |-> trades[n].pnl]
EntryFees == [n \in DOMAIN positions |-> positions[n].quantity * Fee]

EquityFollowsJournal ==
  equity = InitialEquity + SumFunctionOnSet(Results, DOMAIN trades)
             - SumFunctionOnSet(EntryFees, DOMAIN positions)

\* When run returns, every signal was refused or traded, and every position
\* has exactly one row in the journal, opened after the candle of its signal and
\* closed no earlier than opened, whatever the latency and the end of the candles.
EverySignalIsAccounted ==
  phase = "done" =>
    /\ Len(rejections) + Len(positions) = Len(signals)
    /\ Len(trades) = Len(positions)
    /\ {trades[n].position : n \in DOMAIN trades} = DOMAIN positions
    /\ \A n \in DOMAIN trades :
         trades[n].signalAt < trades[n].openedAt /\ trades[n].openedAt <= trades[n].closedAt

\* run returns for all candles and signals.
Terminates == <>(phase = "done")

(* Claims that do not hold. *)

\* "Verify SL never moves in a risk-increasing direction"
\* (_phase26_run.py:262), of the audits the simulator writes.
StopNeverLoosens ==
  \A n \in DOMAIN positions :
    \A i \in 2 .. Len(positions[n].audit) :
      Level(positions[n].side, positions[n].audit[i].new)
        >= Level(positions[n].side, positions[n].audit[i].old)

\* "depending on TP timing the 2nd may fill after first closes"
\* (tests/test_backtest.py:141): max_open_positions refuses a signal only
\* while that many positions are open at its fill bar.
LimitCountsOpenPositions ==
  \A i \in DOMAIN rejections :
    rejections[i].reason = "MAX_OPEN_POSITIONS" =>
      Cardinality({n \in DOMAIN positions :
                     \/ positions[n].closedAt = NoValue
                     \/ positions[n].closedAt >= rejections[i].fillBar}) >= MaxOpen

\* "never with look-ahead" (simulator.py:6): the daily limit refuses a signal
\* because of results that are known when it would be filled.
NoLookAhead ==
  Considering /\ Refusal(signals[k], FALSE) = "DAILY_DD_LIMIT" =>
    \A n \in DOMAIN trades : trades[n].closedAt <= FillBar(signals[k])
=============================================================================
