---------------------------- MODULE SlTpManager ----------------------------
(***************************************************************************)
(* Stop-loss and take-profit management of open trades                     *)
(* (execution/sl_tp.py), called with every bar of every open trade.        *)
(*                                                                         *)
(* The caller is external: it opens trades, passes bars, and closes a      *)
(* trade when update returns an exit reason, unless closing fails, and     *)
(* then it may pass more bars.  A restart makes a new manager, which has   *)
(* forgotten whose stop it moved to break-even; the positions survive.     *)
(*                                                                         *)
(* The two branches of update mirror each other.  They are written once,   *)
(* in the direction of the trade: Ahead(d, x, y) reads "x is at least as   *)
(* favourable as y".                                                       *)
(***************************************************************************)
EXTENDS Integers, FiniteSets

CONSTANTS
  Trades,       \* trade ids
  Openings,     \* [side, entry, stop, target]: how trades are opened
  Bars,         \* [low, high, atr]: what update is called with, atr 0 if None
  BreakEvenR,   \* break_even_r
  TrailMult,    \* trail_atr_mult
  NoTrade,      \* model value: a trade not opened yet
  Unset         \* model value: None

Side == {"BUY", "SELL"}

ASSUME OpeningsAssumption ==
  Openings \subseteq [side : Side, entry : Int, stop : Int, target : Int]
ASSUME BarsAssumption ==
  \A bar \in Bars : bar \in [low : Int, high : Int, atr : Nat] /\ bar.low <= bar.high
ASSUME FactorsAssumption == BreakEvenR \in Nat /\ TrailMult \in Nat

\* exit is the last answer of update, open is is_open, and best is history:
\* the most favourable price of the bars seen since the trade was opened.
Position ==
  [side : Side, entry : Int, initial : Int, stop : Int, target : Int,
   breakEven : BOOLEAN, maxFavorable : Int \cup {Unset},
   exit : {"none", "SL", "TP"}, open : BOOLEAN, best : Int]

ASSUME ModelValuesAssumption ==
  NoTrade \notin Int /\ Unset \notin Int /\ NoTrade \notin Position

VARIABLES
  position,    \* the Position of each trade
  movedBe      \* SlTpManager._moved_be

vars == <<position, movedBe>>

-----------------------------------------------------------------------------
Direction(side) == IF side = "BUY" THEN 1 ELSE -1

\* A price as a level, see ProtectiveStop.
Level(side, price) == Direction(side) * price

Favorable(side, bar) == IF side = "BUY" THEN bar.high ELSE bar.low
Adverse(side, bar) == IF side = "BUY" THEN bar.low ELSE bar.high

\* The better of two prices for a trade of this side: max or min in the code.
Better(side, x, y) == IF Level(side, x) >= Level(side, y) THEN x ELSE y

\* pos.max_favorable or -1e18: a zero counts as not set.
MaxFavorable(p, bar) ==
  LET fav == Level(p.side, Favorable(p.side, bar)) - Level(p.side, p.entry)
  IN  IF p.maxFavorable \in {Unset, 0} \/ fav >= p.maxFavorable THEN fav ELSE p.maxFavorable

StopHit(p, bar) == Level(p.side, Adverse(p.side, bar)) <= Level(p.side, p.stop)
TargetHit(p, bar) == Level(p.side, Favorable(p.side, bar)) >= Level(p.side, p.target)

\* The risk that is left at the present stop, zero or less beyond the entry.
RiskLeft(p) == Level(p.side, p.entry) - Level(p.side, p.stop)

ReachesBreakEven(t, bar) ==
  /\ t \notin movedBe
  /\ MaxFavorable(position[t], bar) >= RiskLeft(position[t]) * BreakEvenR

\* A bug: the stop goes to the entry even if it is beyond it already.
BugBreakEvenStop(p) == p.entry

BreakEvenStop(p) == Better(p.side, p.stop, p.entry)

\* A bug: the stop trails on the wrong side of the market.
BugTrail(p, bar) ==
  Favorable(p.side, bar) + Direction(p.side) * TrailMult * bar.atr

Trail(p, bar) == Favorable(p.side, bar) - Direction(p.side) * TrailMult * bar.atr

\* Trailing from stop s, if the bar comes with an ATR.
Trailed(p, bar, s) == IF bar.atr > 0 THEN Better(p.side, s, Trail(p, bar)) ELSE s

-----------------------------------------------------------------------------
Init ==
  /\ position = [t \in Trades |-> NoTrade]
  /\ movedBe = {}

IsOpen(t) == position[t] # NoTrade /\ position[t].open

OpenTrade(t, o) ==
  /\ position[t] = NoTrade
  /\ position' = [position EXCEPT ![t] =
       [side |-> o.side, entry |-> o.entry, initial |-> o.stop, stop |-> o.stop,
        target |-> o.target, breakEven |-> FALSE, maxFavorable |-> Unset,
        exit |-> "none", open |-> TRUE, best |-> o.entry]]
  /\ UNCHANGED movedBe

\* What update writes before it returns, whatever it returns.
Seen(p, bar) ==
  [p EXCEPT !.maxFavorable = MaxFavorable(p, bar),
            !.best = Better(p.side, p.best, Favorable(p.side, bar))]

\* A bug: the position is dropped while its id stays in _moved_be.
BugCloseTrade(t) ==
  /\ IsOpen(t) /\ position[t].exit # "none"
  /\ position' = [position EXCEPT ![t] = NoTrade]
  /\ UNCHANGED movedBe

\* update returns an exit reason.  The stop is looked at first.
UpdateExits(t, bar) ==
  /\ IsOpen(t)
  /\ StopHit(position[t], bar) \/ TargetHit(position[t], bar)
  /\ position' = [position EXCEPT ![t] =
       [Seen(position[t], bar) EXCEPT
          !.exit = IF StopHit(position[t], bar) THEN "SL" ELSE "TP"]]
  /\ UNCHANGED movedBe

\* A bug: the move to break-even is noted before the bar is known to reach it.
BugUpdateMoves(t, bar) ==
  LET p == position[t]
      s == IF ReachesBreakEven(t, bar) THEN BreakEvenStop(p) ELSE p.stop
  IN  /\ IsOpen(t)
      /\ ~StopHit(p, bar) /\ ~TargetHit(p, bar)
      /\ position' = [position EXCEPT ![t] =
           [Seen(p, bar) EXCEPT !.exit = "none", !.stop = Trailed(p, bar, s),
                                !.breakEven = TRUE]]
      /\ movedBe' = movedBe \cup {t}

\* update moves the stop, or leaves it, and returns None.
UpdateMoves(t, bar) ==
  LET p == position[t]
      moves == ReachesBreakEven(t, bar)
      s == IF moves THEN BreakEvenStop(p) ELSE p.stop
  IN  /\ IsOpen(t)
      /\ ~StopHit(p, bar) /\ ~TargetHit(p, bar)
      /\ position' = [position EXCEPT ![t] =
           [Seen(p, bar) EXCEPT !.exit = "none", !.stop = Trailed(p, bar, s),
                                !.breakEven = (p.breakEven \/ moves)]]
      /\ movedBe' = IF moves THEN movedBe \cup {t} ELSE movedBe

\* External: the caller closes a trade that update wants out of.
CloseTrade(t) ==
  /\ IsOpen(t) /\ position[t].exit # "none"
  /\ position' = [position EXCEPT ![t].open = FALSE]
  /\ UNCHANGED movedBe

\* A new process: __init__ of a new manager.
Restart ==
  /\ movedBe' = {}
  /\ UNCHANGED position

Next ==
  \/ \E t \in Trades :
       \/ \E o \in Openings : OpenTrade(t, o)
       \/ \E bar \in Bars : UpdateExits(t, bar) \/ UpdateMoves(t, bar)
       \/ CloseTrade(t)
  \/ Restart

Spec == Init /\ [][Next]_vars

-----------------------------------------------------------------------------
(* Properties.                                                             *)

\* Positions keep their types, and only opened trades were ever moved.
TypeOK ==
  /\ position \in [Trades -> Position \cup {NoTrade}]
  /\ movedBe \subseteq {t \in Trades : position[t] # NoTrade}

\* A position flagged break_even can no longer lose at its stop, also when a
\* restarted manager moves it to break-even again after trailing beyond it.
BreakEvenIsSafe ==
  \A t \in Trades : position[t] # NoTrade /\ position[t].breakEven
    => RiskLeft(position[t]) <= 0

\* A stop is never placed where the market has not been: it stays at or behind
\* the initial stop, the entry or the best price of the bars so far.
StopBehindMarket ==
  \A t \in Trades : position[t] # NoTrade =>
    LET p == position[t]
    IN  Level(p.side, p.stop) <= Level(p.side, Better(p.side, p.best, p.initial))

\* "It moves SL only in the favorable direction (never backwards)"
\* (sl_tp.py:3-4): the manager implements ProtectiveStop, through restarts,
\* exits that were not carried out and gaps of the entry beyond the stop.
NoStop == NoTrade
StopLevels ==
  [t \in Trades |-> IF position[t] = NoTrade THEN NoStop
                    ELSE Level(position[t].side, position[t].stop)]
Promise == INSTANCE ProtectiveStop WITH level <- StopLevels
StopNeverLoosens == Promise!Spec
=============================================================================
