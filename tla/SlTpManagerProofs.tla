------------------------- MODULE SlTpManagerProofs -------------------------
(***************************************************************************)
(* The stop manager keeps its promise for every set of trades, every bar,  *)
(* every break-even and trailing factor, and across restarts.              *)
(***************************************************************************)
EXTENDS SlTpManager, TLAPS

-----------------------------------------------------------------------------
(* Lemmas about the price operators.                                       *)

\* The better of two prices is one of them, and at least as good as both.
LEMMA BetterIsBest ==
  ASSUME NEW side \in Side, NEW x \in Int, NEW y \in Int
  PROVE  /\ Better(side, x, y) \in {x, y}
         /\ Level(side, Better(side, x, y)) >= Level(side, x)
         /\ Level(side, Better(side, x, y)) >= Level(side, y)
BY DEF Better, Level, Direction, Side

\* What update writes keeps a position a position, and does not touch its stop.
LEMMA SeenType ==
  ASSUME NEW p \in Position, NEW bar \in Bars
  PROVE  /\ Seen(p, bar) \in Position
         /\ Seen(p, bar).side = p.side /\ Seen(p, bar).entry = p.entry
         /\ Seen(p, bar).stop = p.stop /\ Seen(p, bar).initial = p.initial
         /\ Seen(p, bar).breakEven = p.breakEven
         /\ Seen(p, bar).best = Better(p.side, p.best, Favorable(p.side, bar))
<1>1. bar.low \in Int /\ bar.high \in Int
  BY BarsAssumption
<1>2. /\ p.side \in Side /\ p.entry \in Int /\ p.best \in Int
      /\ p.maxFavorable \in Int \cup {Unset}
  BY DEF Position
<1>3. Favorable(p.side, bar) \in Int
  BY <1>1 DEF Favorable
<1>4. Better(p.side, p.best, Favorable(p.side, bar)) \in Int
  BY <1>2, <1>3, BetterIsBest
<1>5. MaxFavorable(p, bar) \in Int
  <2>1. Level(p.side, Favorable(p.side, bar)) - Level(p.side, p.entry) \in Int
    BY <1>2, <1>3 DEF Level, Direction
  <2>. QED  BY <1>2, <2>1 DEF MaxFavorable
<1>. QED  BY <1>4, <1>5 DEF Seen, Position

\* The stop that an update leaves is a price no worse than the one before, no
\* worse than the entry if it moves to break-even, and nowhere ahead of the
\* better of the stop, the entry and the bar's favourable extreme.
LEMMA TrailedIsBetter ==
  ASSUME NEW side \in Side, NEW s \in Int, NEW p, p.side = side, NEW bar \in Bars
  PROVE  /\ Trailed(p, bar, s) \in Int
         /\ Level(side, Trailed(p, bar, s)) >= Level(side, s)
         /\ \/ Level(side, Trailed(p, bar, s)) <= Level(side, s)
            \/ Level(side, Trailed(p, bar, s)) <= Level(side, Favorable(side, bar))
<1>1. bar.low \in Int /\ bar.high \in Int /\ bar.atr \in Nat
  BY BarsAssumption
<1>2. TrailMult * bar.atr \in Nat
  BY <1>1, FactorsAssumption
<1>3. Favorable(side, bar) \in Int
  BY <1>1 DEF Favorable
<1>4. Trail(p, bar) \in Int /\ Level(side, Trail(p, bar)) <= Level(side, Favorable(side, bar))
  <2> DEFINE k == TrailMult * bar.atr
             f == Favorable(side, bar)
  <2>1. Direction(side) \in {1, -1}
    BY DEF Direction
  <2>2. Trail(p, bar) = f - Direction(side) * k
    BY <1>1, <2>1, FactorsAssumption DEF Trail
  <2>3. k \in Nat /\ f \in Int
    BY <1>2, <1>3
  <2> HIDE DEF k, f
  <2>4. f - Direction(side) * k \in Int
    BY <2>1, <2>3
  <2>5. Direction(side) * (f - Direction(side) * k) <= Direction(side) * f
    BY <2>1, <2>3
  <2>. QED  BY <2>2, <2>4, <2>5 DEF Level, f
<1>5. CASE bar.atr > 0
  <2>1. Trailed(p, bar, s) = Better(side, s, Trail(p, bar))
    BY <1>5 DEF Trailed
  <2>. QED  BY <1>3, <1>4, <2>1, BetterIsBest
<1>6. CASE ~(bar.atr > 0)
  <2>1. Trailed(p, bar, s) = s
    BY <1>6 DEF Trailed
  <2>2. Level(side, s) \in Int
    BY DEF Level, Direction
  <2>. QED  BY <2>1, <2>2
<1>. QED  BY <1>5, <1>6

-----------------------------------------------------------------------------
(* What one call of update does to the stop.                               *)

\* update moves a stop forward or leaves it, flags break_even only once the
\* stop is at the entry, and never puts it ahead of the market.
LEMMA MoveEffect ==
  ASSUME TypeOK, NEW t \in Trades, NEW bar \in Bars, UpdateMoves(t, bar)
  PROVE  /\ position[t] \in Position /\ position'[t] \in Position
         /\ position' = [position EXCEPT ![t] = position'[t]]
         /\ position'[t].side = position[t].side
         /\ position'[t].entry = position[t].entry
         /\ position'[t].initial = position[t].initial
         /\ position'[t].best
              = Better(position[t].side, position[t].best, Favorable(position[t].side, bar))
         /\ Level(position[t].side, position'[t].stop)
              >= Level(position[t].side, position[t].stop)
         /\ position'[t].breakEven /\ ~position[t].breakEven
              => Level(position[t].side, position'[t].stop)
                   >= Level(position[t].side, position[t].entry)
         /\ LET L == Level(position[t].side, position'[t].stop)
            IN  \/ L <= Level(position[t].side, position[t].stop)
                \/ L <= Level(position[t].side, position[t].entry)
                \/ L <= Level(position[t].side, Favorable(position[t].side, bar))
<1> DEFINE p == position[t]
           moves == ReachesBreakEven(t, bar)
           s == IF moves THEN BreakEvenStop(p) ELSE p.stop
           q == [Seen(p, bar) EXCEPT !.exit = "none", !.stop = Trailed(p, bar, s),
                                     !.breakEven = (p.breakEven \/ moves)]
<1>1. position[t] \in Position
  BY DEF UpdateMoves, IsOpen, TypeOK
<1>2. p.side \in Side /\ p.entry \in Int /\ p.stop \in Int /\ p.breakEven \in BOOLEAN
  BY <1>1 DEF Position
<1>3. position' = [position EXCEPT ![t] = q] /\ position'[t] = q
  BY DEF UpdateMoves, TypeOK
<1>4. /\ s \in Int
      /\ Level(p.side, s) >= Level(p.side, p.stop)
      /\ moves => Level(p.side, s) >= Level(p.side, p.entry)
      /\ s \in {p.stop, p.entry}
  <2>1. CASE moves
    BY <1>2, <2>1, BetterIsBest DEF BreakEvenStop
  <2>2. CASE ~moves
    BY <1>2, <2>2 DEF Level, Direction
  <2>. QED  BY <2>1, <2>2
<1> HIDE DEF s, moves
<1>5. /\ Trailed(p, bar, s) \in Int
      /\ Level(p.side, Trailed(p, bar, s)) >= Level(p.side, s)
      /\ \/ Level(p.side, Trailed(p, bar, s)) <= Level(p.side, s)
         \/ Level(p.side, Trailed(p, bar, s)) <= Level(p.side, Favorable(p.side, bar))
  BY <1>2, <1>4, TrailedIsBetter
<1>6. moves \in BOOLEAN
  BY DEF moves, ReachesBreakEven
<1>7. /\ q \in Position
      /\ q.side = p.side /\ q.entry = p.entry /\ q.initial = p.initial
      /\ q.best = Better(p.side, p.best, Favorable(p.side, bar))
      /\ q.stop = Trailed(p, bar, s)
      /\ q.breakEven = (p.breakEven \/ moves)
  <2>1. Seen(p, bar) \in Position
    BY <1>1, SeenType
  <2>2. q \in Position
    BY <1>2, <1>5, <1>6, <2>1 DEF Position
  <2>. QED  BY <1>1, <2>1, <2>2, SeenType DEF Position
<1>8. /\ Level(p.side, s) \in Int /\ Level(p.side, p.stop) \in Int
      /\ Level(p.side, p.entry) \in Int /\ Level(p.side, Trailed(p, bar, s)) \in Int
  BY <1>2, <1>4, <1>5 DEF Level, Direction
<1> HIDE DEF q
<1>9. Level(p.side, q.stop) >= Level(p.side, p.stop)
  <2>1. /\ Level(p.side, Trailed(p, bar, s)) >= Level(p.side, s)
        /\ Level(p.side, s) >= Level(p.side, p.stop)
    BY <1>4, <1>5
  <2>2. Level(p.side, Trailed(p, bar, s)) >= Level(p.side, p.stop)
    BY <1>8, <2>1
  <2>. QED  BY <1>7, <2>2
<1>10. q.breakEven /\ ~p.breakEven => Level(p.side, q.stop) >= Level(p.side, p.entry)
  <2>1. q.breakEven /\ ~p.breakEven => moves
    BY <1>7, Zenon
  <2>2. moves => Level(p.side, Trailed(p, bar, s)) >= Level(p.side, p.entry)
    BY <1>4, <1>5, <1>8
  <2>. QED  BY <1>7, <2>1, <2>2
<1>11. \/ Level(p.side, q.stop) <= Level(p.side, p.stop)
       \/ Level(p.side, q.stop) <= Level(p.side, p.entry)
       \/ Level(p.side, q.stop) <= Level(p.side, Favorable(p.side, bar))
  BY <1>4, <1>5, <1>7, <1>8
<1>. QED  BY <1>1, <1>3, <1>7, <1>9, <1>10, <1>11

\* An update that answers with an exit leaves the stop and the flag alone.
LEMMA ExitEffect ==
  ASSUME TypeOK, NEW t \in Trades, NEW bar \in Bars, UpdateExits(t, bar)
  PROVE  /\ position[t] \in Position /\ position'[t] \in Position
         /\ position' = [position EXCEPT ![t] = position'[t]]
         /\ position'[t].side = position[t].side
         /\ position'[t].entry = position[t].entry
         /\ position'[t].initial = position[t].initial
         /\ position'[t].stop = position[t].stop
         /\ position'[t].breakEven = position[t].breakEven
         /\ position'[t].best
              = Better(position[t].side, position[t].best, Favorable(position[t].side, bar))
<1> DEFINE p == position[t]
           e == IF StopHit(p, bar) THEN "SL" ELSE "TP"
           q == [Seen(p, bar) EXCEPT !.exit = e]
<1>1. position[t] \in Position
  BY DEF UpdateExits, IsOpen, TypeOK
<1>2. position' = [position EXCEPT ![t] = q] /\ position'[t] = q
  BY DEF UpdateExits, TypeOK
<1>3. e \in {"none", "SL", "TP"}
  OBVIOUS
<1> HIDE DEF e
<1>4. Seen(p, bar) \in Position
  BY <1>1, SeenType
<1>5. q \in Position
  BY <1>3, <1>4 DEF Position
<1>6. /\ q.side = Seen(p, bar).side /\ q.entry = Seen(p, bar).entry
      /\ q.initial = Seen(p, bar).initial /\ q.stop = Seen(p, bar).stop
      /\ q.breakEven = Seen(p, bar).breakEven /\ q.best = Seen(p, bar).best
  BY <1>4 DEF Position
<1> HIDE DEF q
<1>. QED  BY <1>1, <1>2, <1>5, <1>6, SeenType

-----------------------------------------------------------------------------
(* Theorems.                                                               *)

\* Every reachable position is well-typed, and _moved_be holds opened trades.
THEOREM TypeCorrect == Spec => []TypeOK
<1>1. Init => TypeOK
  BY DEF Init, TypeOK
<1>2. TypeOK /\ [Next]_vars => TypeOK'
  <2> SUFFICES ASSUME TypeOK, [Next]_vars
               PROVE  TypeOK'
    OBVIOUS
  <2>1. ASSUME NEW t \in Trades, NEW o \in Openings, OpenTrade(t, o)  PROVE TypeOK'
    <3> DEFINE q == [side |-> o.side, entry |-> o.entry, initial |-> o.stop, stop |-> o.stop,
                     target |-> o.target, breakEven |-> FALSE, maxFavorable |-> Unset,
                     exit |-> "none", open |-> TRUE, best |-> o.entry]
    <3>1. q \in Position
      BY OpeningsAssumption DEF Position
    <3>2. position' = [position EXCEPT ![t] = q] /\ movedBe' = movedBe /\ position[t] = NoTrade
      BY <2>1 DEF OpenTrade
    <3> HIDE DEF q
    <3>. QED  BY <3>1, <3>2, ModelValuesAssumption DEF TypeOK
  <2>2. ASSUME NEW t \in Trades, NEW bar \in Bars, UpdateExits(t, bar)  PROVE TypeOK'
    <3>1. position[t] \in Position /\ position'[t] \in Position
          /\ position' = [position EXCEPT ![t] = position'[t]]
      BY <2>2, ExitEffect
    <3>. QED  BY <2>2, <3>1, ModelValuesAssumption DEF TypeOK, UpdateExits
  <2>3. ASSUME NEW t \in Trades, NEW bar \in Bars, UpdateMoves(t, bar)  PROVE TypeOK'
    <3>1. position[t] \in Position /\ position'[t] \in Position
          /\ position' = [position EXCEPT ![t] = position'[t]]
      BY <2>3, MoveEffect
    <3>2. movedBe' \subseteq movedBe \cup {t}
      BY <2>3 DEF UpdateMoves
    <3>. QED  BY <3>1, <3>2, ModelValuesAssumption DEF TypeOK
  <2>4. ASSUME NEW t \in Trades, CloseTrade(t)  PROVE TypeOK'
    <3>1. position[t] \in Position
      BY <2>4 DEF CloseTrade, IsOpen, TypeOK
    <3>2. [position[t] EXCEPT !.open = FALSE] \in Position
      BY <3>1 DEF Position
    <3>. QED  BY <2>4, <3>1, <3>2, ModelValuesAssumption DEF TypeOK, CloseTrade
  <2>5. CASE Restart
    BY <2>5 DEF Restart, TypeOK
  <2>6. CASE UNCHANGED vars
    BY <2>6 DEF vars, TypeOK
  <2>. QED  BY <2>1, <2>2, <2>3, <2>4, <2>5, <2>6 DEF Next
<1>. QED  BY <1>1, <1>2, PTL DEF Spec

\* What any step does to one trade: nothing, open it, close it, or update it.
LEMMA StepOfTrade ==
  ASSUME TypeOK, [Next]_vars, NEW t \in Trades
  PROVE  \/ position'[t] = position[t]
         \/ \E o \in Openings : OpenTrade(t, o)
         \/ \E bar \in Bars : UpdateExits(t, bar) \/ UpdateMoves(t, bar)
         \/ CloseTrade(t)
<1>1. ASSUME NEW u \in Trades, u # t, NEW q, position' = [position EXCEPT ![u] = q]
      PROVE  position'[t] = position[t]
  BY <1>1 DEF TypeOK
<1>2. ASSUME NEW u \in Trades, u # t,
             \/ \E o \in Openings : OpenTrade(u, o)
             \/ \E bar \in Bars : UpdateExits(u, bar) \/ UpdateMoves(u, bar)
             \/ CloseTrade(u)
      PROVE  position'[t] = position[t]
  <2>1. \E q : position' = [position EXCEPT ![u] = q]
    BY <1>2 DEF OpenTrade, UpdateExits, UpdateMoves, CloseTrade
  <2>. QED  BY <1>1, <1>2, <2>1
<1>3. CASE Restart \/ UNCHANGED vars
  BY <1>3 DEF Restart, vars
<1>. QED  BY <1>2, <1>3 DEF Next

\* A trade moved to break-even can no longer lose at its stop, whatever the
\* bars, the factors and the restarts.
THEOREM BreakEvenStaysSafe == Spec => []BreakEvenIsSafe
<1>1. Init => BreakEvenIsSafe
  BY DEF Init, BreakEvenIsSafe
<1>2. TypeOK /\ BreakEvenIsSafe /\ [Next]_vars => BreakEvenIsSafe'
  <2> SUFFICES ASSUME TypeOK, BreakEvenIsSafe, [Next]_vars, NEW t \in Trades,
                      position'[t] # NoTrade, position'[t].breakEven
               PROVE  RiskLeft(position'[t]) <= 0
    BY DEF BreakEvenIsSafe
  <2>1. CASE position'[t] = position[t]
    BY <2>1 DEF BreakEvenIsSafe
  <2>2. ASSUME NEW o \in Openings, OpenTrade(t, o)  PROVE FALSE
    BY <2>2 DEF OpenTrade, TypeOK
  <2>3. ASSUME NEW bar \in Bars, UpdateExits(t, bar)  PROVE RiskLeft(position'[t]) <= 0
    <3>1. position[t] # NoTrade
      BY <2>3 DEF UpdateExits, IsOpen
    <3>. QED  BY <2>3, <3>1, ExitEffect DEF BreakEvenIsSafe, RiskLeft
  <2>4. ASSUME NEW bar \in Bars, UpdateMoves(t, bar)  PROVE RiskLeft(position'[t]) <= 0
    <3> DEFINE L(x) == Level(position[t].side, x)
    <3>1. /\ position[t] # NoTrade /\ position[t] \in Position /\ position'[t] \in Position
          /\ RiskLeft(position'[t]) = L(position[t].entry) - L(position'[t].stop)
          /\ RiskLeft(position[t]) = L(position[t].entry) - L(position[t].stop)
          /\ L(position'[t].stop) >= L(position[t].stop)
      BY <2>4, MoveEffect DEF RiskLeft, UpdateMoves, IsOpen
    <3>2. /\ L(position[t].entry) \in Int /\ L(position[t].stop) \in Int
          /\ L(position'[t].stop) \in Int
      BY <3>1 DEF Position, Level, Direction
    <3>3. CASE position[t].breakEven
      <4>1. RiskLeft(position[t]) <= 0
        BY <3>1, <3>3 DEF BreakEvenIsSafe
      <4>. QED  BY <3>1, <3>2, <4>1
    <3>4. CASE ~position[t].breakEven
      <4>1. L(position'[t].stop) >= L(position[t].entry)
        BY <2>4, <3>4, MoveEffect
      <4>. QED  BY <3>1, <3>2, <4>1
    <3>. QED  BY <3>3, <3>4
  <2>5. CASE CloseTrade(t)
    <3>1. position[t] \in Position /\ position[t] # NoTrade
      BY <2>5 DEF CloseTrade, IsOpen, TypeOK
    <3>2. /\ position'[t].breakEven = position[t].breakEven
          /\ position'[t].side = position[t].side
          /\ position'[t].entry = position[t].entry /\ position'[t].stop = position[t].stop
      BY <2>5, <3>1 DEF CloseTrade, TypeOK, Position
    <3>. QED  BY <3>1, <3>2 DEF BreakEvenIsSafe, RiskLeft
  <2>. QED  BY <2>1, <2>2, <2>3, <2>4, <2>5, StepOfTrade
<1>. QED  BY <1>1, <1>2, TypeCorrect, PTL DEF Spec

\* The stop manager implements ProtectiveStop: every step of the manager leaves
\* the levels alone, gives a trade its first stop, or tightens one stop.
THEOREM StopsOnlyTighten == Spec => StopNeverLoosens
<1>1. Init => Promise!Init
  BY DEF Init, Promise!Init, StopLevels, NoStop
<1>2. TypeOK /\ [Next]_vars => [Promise!Next]_StopLevels
  <2> SUFFICES ASSUME TypeOK, [Next]_vars, NEW t \in Trades,
                      position' # position,
                      \/ \E o \in Openings : OpenTrade(t, o)
                      \/ \E bar \in Bars : UpdateExits(t, bar) \/ UpdateMoves(t, bar)
                      \/ CloseTrade(t)
               PROVE  Promise!Protect(t) \/ Promise!Tighten(t)
    <3>1. CASE UNCHANGED position
      BY <3>1 DEF StopLevels
    <3>2. CASE position' # position
      BY <3>2 DEF Next, Restart, vars, Promise!Next
    <3>. QED  BY <3>1, <3>2
  <2>1. \E q : position' = [position EXCEPT ![t] = q]
    BY DEF OpenTrade, UpdateExits, UpdateMoves, CloseTrade
  <2>2. Promise!Others(t)
    BY <2>1 DEF Promise!Others, StopLevels, TypeOK
  <2>3. ASSUME NEW o \in Openings, OpenTrade(t, o)  PROVE Promise!Protect(t)
    <3>1. /\ position[t] = NoTrade /\ position'[t].side = o.side
          /\ position'[t].stop = o.stop /\ position'[t] \in Position
      BY <2>3, OpeningsAssumption DEF OpenTrade, TypeOK, Position
    <3>2. StopLevels[t] = NoStop /\ StopLevels'[t] = Level(o.side, o.stop)
      BY <3>1, ModelValuesAssumption DEF StopLevels, NoStop
    <3>3. Level(o.side, o.stop) \in Int
      BY OpeningsAssumption DEF Level, Direction
    <3>. QED  BY <2>2, <3>2, <3>3 DEF Promise!Protect
  <2>4. ASSUME position[t] \in Position, position'[t] \in Position,
               position'[t].side = position[t].side,
               Level(position[t].side, position'[t].stop)
                 >= Level(position[t].side, position[t].stop)
        PROVE  Promise!Tighten(t)
    <3>1. /\ StopLevels[t] = Level(position[t].side, position[t].stop)
          /\ StopLevels'[t] = Level(position[t].side, position'[t].stop)
      BY <2>4, ModelValuesAssumption DEF StopLevels
    <3>2. StopLevels[t] \in Int /\ StopLevels'[t] \in Int
      BY <2>4, <3>1 DEF Position, Level, Direction
    <3>. QED  BY <2>2, <2>4, <3>1, <3>2, ModelValuesAssumption DEF Promise!Tighten, NoStop
  <2>5. ASSUME position[t] \in Position, position'[t] \in Position,
               position'[t].side = position[t].side,
               position'[t].stop = position[t].stop
        PROVE  Promise!Tighten(t)
    <3>1. Level(position[t].side, position[t].stop) \in Int
      BY <2>5 DEF Position, Level, Direction
    <3>. QED  BY <2>4, <2>5, <3>1
  <2>6. ASSUME NEW bar \in Bars, UpdateExits(t, bar)  PROVE Promise!Tighten(t)
    BY <2>5, <2>6, ExitEffect
  <2>7. ASSUME NEW bar \in Bars, UpdateMoves(t, bar)  PROVE Promise!Tighten(t)
    BY <2>4, <2>7, MoveEffect
  <2>8. CASE CloseTrade(t)
    <3>1. position[t] \in Position
      BY <2>8 DEF CloseTrade, IsOpen, TypeOK
    <3>2. /\ position'[t] \in Position /\ position'[t].side = position[t].side
          /\ position'[t].stop = position[t].stop
      BY <2>8, <3>1 DEF CloseTrade, TypeOK, Position
    <3>. QED  BY <2>5, <3>1, <3>2
  <2>. QED  BY <2>3, <2>6, <2>7, <2>8
<1>. QED  BY <1>1, <1>2, TypeCorrect, PTL DEF Spec, StopNeverLoosens, Promise!Spec

-----------------------------------------------------------------------------
(* Where a stop may be.                                                    *)

\* The stop of position p is no further ahead than where the market has been,
\* which includes the entry, or than the initial stop.
Behind(p) ==
  /\ Level(p.side, p.entry) <= Level(p.side, p.best)
  /\ \/ Level(p.side, p.stop) <= Level(p.side, p.best)
     \/ Level(p.side, p.stop) <= Level(p.side, p.initial)

BehindInv == \A t \in Trades : position[t] # NoTrade => Behind(position[t])

\* Seeing a better price keeps a position behind the market.
LEMMA SeeingKeepsBehind ==
  ASSUME NEW p \in Position, NEW q \in Position, NEW fav \in Int, Behind(p),
         q.side = p.side, q.entry = p.entry, q.initial = p.initial,
         q.best = Better(p.side, p.best, fav),
         \/ Level(p.side, q.stop) <= Level(p.side, p.stop)
         \/ Level(p.side, q.stop) <= Level(p.side, p.entry)
         \/ Level(p.side, q.stop) <= Level(p.side, fav)
  PROVE  Behind(q)
<1> DEFINE L(x) == Level(p.side, x)
<1>1. /\ p.side \in Side /\ p.best \in Int /\ p.entry \in Int /\ p.stop \in Int
      /\ p.initial \in Int /\ q.stop \in Int /\ q.best \in Int
  BY DEF Position
<1>2. /\ L(p.best) \in Int /\ L(p.entry) \in Int /\ L(p.stop) \in Int /\ L(p.initial) \in Int
      /\ L(q.stop) \in Int /\ L(q.best) \in Int /\ L(fav) \in Int
  BY <1>1 DEF Level, Direction
<1>3. L(q.best) >= L(p.best) /\ L(q.best) >= L(fav)
  BY <1>1, BetterIsBest
<1>4. /\ L(p.entry) <= L(p.best)
      /\ L(p.stop) <= L(p.best) \/ L(p.stop) <= L(p.initial)
      /\ L(q.stop) <= L(p.stop) \/ L(q.stop) <= L(p.entry) \/ L(q.stop) <= L(fav)
  BY DEF Behind
<1>5. /\ L(p.entry) <= L(q.best)
      /\ L(q.stop) <= L(q.best) \/ L(q.stop) <= L(p.initial)
  <2> HIDE DEF L
  <2>. QED  BY <1>2, <1>3, <1>4
<1>. QED  BY <1>5 DEF Behind

\* BehindInv is an invariant.
LEMMA BehindInvHolds == Spec => []BehindInv
<1>1. Init => BehindInv
  BY DEF Init, BehindInv
<1>2. TypeOK /\ BehindInv /\ [Next]_vars => BehindInv'
  <2> SUFFICES ASSUME TypeOK, BehindInv, [Next]_vars, NEW t \in Trades,
                      position'[t] # NoTrade
               PROVE  Behind(position'[t])
    BY DEF BehindInv
  <2>1. CASE position'[t] = position[t]
    BY <2>1 DEF BehindInv
  <2>2. ASSUME NEW o \in Openings, OpenTrade(t, o)
        PROVE  Behind(position'[t])
    <3>1. /\ position'[t].side = o.side /\ position'[t].entry = o.entry
          /\ position'[t].initial = o.stop /\ position'[t].stop = o.stop
          /\ position'[t].best = o.entry
      BY <2>2 DEF OpenTrade, TypeOK
    <3>2. o.entry \in Int /\ o.stop \in Int
      BY OpeningsAssumption
    <3>. QED  BY <3>1, <3>2 DEF Behind, Level, Direction
  <2>3. ASSUME NEW bar \in Bars, UpdateExits(t, bar)
        PROVE  Behind(position'[t])
    <3>1. position[t] # NoTrade /\ position[t] \in Position /\ position'[t] \in Position
      BY <2>3, ExitEffect DEF UpdateExits, IsOpen
    <3>2. Favorable(position[t].side, bar) \in Int
      BY BarsAssumption DEF Favorable
    <3>3. Level(position[t].side, position'[t].stop) <= Level(position[t].side, position[t].stop)
      <4>1. position'[t].stop = position[t].stop /\ position[t].stop \in Int
        BY <2>3, <3>1, ExitEffect DEF Position
      <4>. QED  BY <4>1 DEF Level, Direction
    <3>. QED  BY <2>3, <3>1, <3>2, <3>3, ExitEffect, SeeingKeepsBehind DEF BehindInv
  <2>4. ASSUME NEW bar \in Bars, UpdateMoves(t, bar)
        PROVE  Behind(position'[t])
    <3>1. position[t] # NoTrade /\ position[t] \in Position /\ position'[t] \in Position
      BY <2>4, MoveEffect DEF UpdateMoves, IsOpen
    <3>2. Favorable(position[t].side, bar) \in Int
      BY BarsAssumption DEF Favorable
    <3>. QED  BY <2>4, <3>1, <3>2, MoveEffect, SeeingKeepsBehind DEF BehindInv
  <2>5. CASE CloseTrade(t)
    <3>1. position[t] \in Position /\ position[t] # NoTrade
      BY <2>5 DEF CloseTrade, IsOpen, TypeOK
    <3>2. /\ position'[t].side = position[t].side /\ position'[t].entry = position[t].entry
          /\ position'[t].initial = position[t].initial /\ position'[t].stop = position[t].stop
          /\ position'[t].best = position[t].best
      BY <2>5, <3>1 DEF CloseTrade, TypeOK, Position
    <3>. QED  BY <3>1, <3>2 DEF BehindInv, Behind
  <2>. QED  BY <2>1, <2>2, <2>3, <2>4, <2>5, StepOfTrade
<1>. QED  BY <1>1, <1>2, TypeCorrect, PTL DEF Spec

\* No stop is ever placed where the market has not been, for all bars, factors
\* and restarts.
THEOREM StopsStayBehind == Spec => []StopBehindMarket
<1>1. TypeOK /\ BehindInv => StopBehindMarket
  <2> SUFFICES ASSUME TypeOK, BehindInv, NEW t \in Trades, position[t] # NoTrade
               PROVE  Level(position[t].side, position[t].stop)
                        <= Level(position[t].side, Better(position[t].side, position[t].best,
                                                          position[t].initial))
    BY DEF StopBehindMarket
  <2> DEFINE p == position[t]
             L(x) == Level(p.side, x)
             b == Better(p.side, p.best, p.initial)
  <2>1. p.side \in Side /\ p.best \in Int /\ p.initial \in Int /\ p.stop \in Int
    BY DEF TypeOK, Position
  <2>2. b \in {p.best, p.initial} /\ L(b) >= L(p.best) /\ L(b) >= L(p.initial)
    BY <2>1, BetterIsBest
  <2>3. L(p.stop) \in Int /\ L(p.best) \in Int /\ L(p.initial) \in Int /\ L(b) \in Int
    BY <2>1, <2>2 DEF Level, Direction
  <2>4. L(p.stop) <= L(p.best) \/ L(p.stop) <= L(p.initial)
    BY DEF BehindInv, Behind
  <2>5. L(p.stop) <= L(b)
    <3> HIDE DEF L, b
    <3>. QED  BY <2>2, <2>3, <2>4
  <2>. QED  BY <2>5
<1>. QED  BY <1>1, TypeCorrect, BehindInvHolds, PTL
=============================================================================
