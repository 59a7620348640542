-------------------------- MODULE SimulatorProofs --------------------------
(***************************************************************************)
(* The simulator, proved for all candles, signals and days: types, the     *)
(* audit of the stops, the account of the signals and the running equity.  *)
(* Then what explains its runs, for all charts: the diagnostics' copy of   *)
(* the gates, the signal tracer, and the replay of the holding analysis.   *)
(***************************************************************************)
EXTENDS SignalTracer, HoldingAnalysis, SumTheorems, FiniteSetTheorems, WellFoundedInduction, TLAPS

AuditEntry ==
  [old : Int \cup {NoValue}, new : Int, reason : {"INITIAL", "BREAK_EVEN", "TRAILING"}]

Position ==
  [side : Sides, quantity : Int, entry : Int, initial : Int, stop : Int, target : Int,
   fees : Int, signalAt : Int, openedAt : Bars, closedAt : Bars \cup {NoValue},
   maxFavorable : Int \cup {NoValue}, audit : Seq(AuditEntry)]

Trade ==
  [position : Nat, signalAt : Int, openedAt : Bars, closedAt : Bars, pnl : Int,
   reason : {"SL", "TP", "TIMEOUT"}]

Rejection == [reason : Reasons, fillBar : Nat]

\* A position is managed only while it is the signal's that run looks at.
TypeInv ==
  /\ candles \in [Bars -> Candle] /\ signals \in Seq(Signal)
  /\ k \in 1 .. Len(signals) + 1
  /\ bar \in 1 .. LastBar + 1 /\ movedBe \in BOOLEAN
  /\ equity \in Int /\ startOfDay \in Int /\ lastDay \in {Days[b] : b \in Bars}
  /\ positions \in Seq(Position) /\ trades \in Seq(Trade) /\ rejections \in Seq(Rejection)
  /\ \A n \in DOMAIN trades : trades[n].position \in DOMAIN positions
  /\ phase = "manage" => k <= Len(signals) /\ positions # <<>> /\ Current.closedAt = NoValue

\* The chain of one position's stops.
Chained(p) ==
  /\ Len(p.audit) >= 1
  /\ p.audit[1] = Audit(NoValue, p.initial, "INITIAL")
  /\ \A i \in 2 .. Len(p.audit) : p.audit[i].old = p.audit[i - 1].new
  /\ p.stop = p.audit[Len(p.audit)].new

AuditInv == \A n \in DOMAIN positions : Chained(positions[n])

\* The journal has one row for each closed position and none for an open one.
BooksInv ==
  /\ \A n \in DOMAIN positions :
       /\ positions[n].signalAt < positions[n].openedAt
       /\ positions[n].closedAt = NoValue <=> \A m \in DOMAIN trades : trades[m].position # n
  /\ \A m, n \in DOMAIN trades : trades[m].position = trades[n].position => m = n
  /\ \A n \in DOMAIN trades :
       trades[n].signalAt < trades[n].openedAt /\ trades[n].openedAt <= trades[n].closedAt

\* Each signal behind k was refused or filled.
AccountInv ==
  /\ Len(rejections) + Len(positions) = (IF phase = "manage" THEN k ELSE k - 1)
  /\ phase = "manage" => Current.openedAt < bar
  /\ phase = "done" => k = Len(signals) + 1 /\ Unclosed = {}

IInv == TypeInv /\ AuditInv /\ BooksInv /\ AccountInv

\* What a bar may change of a position while it is open.
SamePosition(q, p) ==
  /\ q.side = p.side /\ q.initial = p.initial /\ q.signalAt = p.signalAt
  /\ q.quantity = p.quantity /\ q.entry = p.entry
  /\ q.openedAt = p.openedAt /\ q.closedAt = p.closedAt

-----------------------------------------------------------------------------
LEMMA BarsAre == Bars = 1 .. LastBar /\ LastBar \in Nat \ {0} /\ LastBar \in Bars
<1>1. Days \in Seq(Int) /\ Len(Days) > 0
  BY FactorsAssumption, InputsAssumption
<1>2. DOMAIN Days = 1 .. Len(Days) /\ Len(Days) \in Nat
  BY <1>1
<1> QED
  BY <1>1, <1>2 DEF Bars, LastBar

LEMMA SizeOfInterval ==
  ASSUME NEW m \in Nat PROVE IsFiniteSet(1 .. m) /\ Cardinality(1 .. m) = m
<1>1. IsFiniteSet(1 .. m) /\ Cardinality(1 .. m) = IF 1 > m THEN 0 ELSE m - 1 + 1
  BY FS_Interval
<1> QED
  BY <1>1

LEMMA SizeOfRest ==
  ASSUME NEW S, IsFiniteSet(S), NEW T \in SUBSET S
  PROVE  Cardinality(S \ T) = Cardinality(S) - Cardinality(T)
<1>1. S \cap T = T
  OBVIOUS
<1>2. Cardinality(S \ T) = Cardinality(S) - Cardinality(S \cap T)
  BY FS_Difference
<1> QED
  BY <1>1, <1>2

LEMMA LevelType == ASSUME NEW side \in Sides, NEW price \in Int PROVE Level(side, price) \in Int
BY DEF Level, Direction

LEMMA FactorsType ==
  /\ LatencyBars \in Nat /\ MaxOpen \in Nat /\ BreakEvenR \in Nat /\ TrailMult \in Nat
  /\ EntrySlip \in Nat /\ ExitSlip \in Nat /\ Fee \in Nat /\ InitialEquity \in Nat
  /\ NoValue \notin Int
BY FactorsAssumption, InputsAssumption

\* A stop that moves adds its move to the end of the chain.
LEMMA MovesChain ==
  ASSUME NEW p \in Position, Chained(p), NEW new \in Int, NEW reason \in {"BREAK_EVEN", "TRAILING"},
         NEW q, q = [p EXCEPT !.stop = new, !.audit = Append(@, Audit(p.stop, new, reason))]
  PROVE  q \in Position /\ Chained(q) /\ SamePosition(q, p)
<1>1. Audit(p.stop, new, reason) \in AuditEntry
  BY DEF Audit, AuditEntry, Position
<1>2. p.audit \in Seq(AuditEntry) /\ q.audit = Append(p.audit, Audit(p.stop, new, reason))
  BY DEF Position
<1>a. q.audit \in Seq(AuditEntry)
  BY <1>1, <1>2
<1>3. q \in Position /\ SamePosition(q, p)
  BY <1>2, <1>a DEF Position, SamePosition
<1>4. Len(q.audit) = Len(p.audit) + 1 /\ q.audit[Len(q.audit)] = Audit(p.stop, new, reason)
  BY <1>1, <1>2
<1>5. \A i \in 1 .. Len(p.audit) : q.audit[i] = p.audit[i]
  BY <1>1, <1>2
<1>6. q.stop = new /\ q.initial = p.initial
  BY DEF Position
<1>7. q.audit[1] = Audit(NoValue, q.initial, "INITIAL")
  BY <1>2, <1>5, <1>6 DEF Chained
<1>8. \A i \in 2 .. Len(q.audit) : q.audit[i].old = q.audit[i - 1].new
  <2> TAKE i \in 2 .. Len(q.audit)
  <2>1. CASE i = Len(q.audit)
    <3>1. q.audit[i].old = p.stop
      BY <2>1, <1>4 DEF Audit
    <3>2. i - 1 = Len(p.audit) /\ q.audit[i - 1] = p.audit[Len(p.audit)]
      BY <2>1, <1>2, <1>4, <1>5 DEF Chained
    <3> QED
      BY <3>1, <3>2 DEF Chained
  <2>2. CASE i # Len(q.audit)
    <3>1. i \in 2 .. Len(p.audit) /\ i - 1 \in 1 .. Len(p.audit)
      BY <2>2, <1>2, <1>4
    <3> QED
      BY <3>1, <1>5 DEF Chained
  <2> QED
    BY <2>1, <2>2
<1>9. q.stop = q.audit[Len(q.audit)].new
  BY <1>4, <1>6 DEF Audit
<1> QED
  BY <1>2, <1>3, <1>4, <1>7, <1>8, <1>9 DEF Chained

LEMMA TrailingKeeps ==
  ASSUME NEW p \in Position, Chained(p), NEW c \in Candle
  PROVE  Trailing(p, c) \in Position /\ Chained(Trailing(p, c)) /\ SamePosition(Trailing(p, c), p)
<1> DEFINE trail == Favorable(p.side, c) - Direction(p.side) * TrailMult * c.atr
<1>1. CASE c.atr # NoValue /\ Level(p.side, trail) > Level(p.side, p.stop)
  <2>1. trail \in Int
    BY <1>1, FactorsType DEF Favorable, Direction, Candle, Position
  <2>2. Trailing(p, c) = [p EXCEPT !.stop = trail, !.audit = Append(@, Audit(p.stop, trail, "TRAILING"))]
    BY <1>1 DEF Trailing
  <2> QED
    BY <2>1, <2>2, MovesChain
<1>2. CASE ~(c.atr # NoValue /\ Level(p.side, trail) > Level(p.side, p.stop))
  <2>1. Trailing(p, c) = p
    BY <1>2 DEF Trailing
  <2> QED
    BY <2>1 DEF SamePosition
<1> QED
  BY <1>1, <1>2

LEMMA BreakEvenKeeps ==
  ASSUME NEW p \in Position, Chained(p), NEW c \in Candle
  PROVE  BreakEven(p, c) \in Position /\ Chained(BreakEven(p, c)) /\ SamePosition(BreakEven(p, c), p)
<1>1. CASE ReachesBreakEven(p, c)
  <2>1. p.entry \in Int
    BY DEF Position
  <2>2. BreakEven(p, c) =
          [p EXCEPT !.stop = p.entry, !.audit = Append(@, Audit(p.stop, p.entry, "BREAK_EVEN"))]
    BY <1>1 DEF BreakEven
  <2> QED
    BY <2>1, <2>2, MovesChain
<1>2. CASE ~ReachesBreakEven(p, c)
  <2>1. BreakEven(p, c) = p
    BY <1>2 DEF BreakEven
  <2> QED
    BY <2>1 DEF SamePosition
<1> QED
  BY <1>1, <1>2

LEMMA SeenKeeps ==
  ASSUME NEW c \in Candle, Current \in Position, Chained(Current)
  PROVE  Seen(c) \in Position /\ Chained(Seen(c)) /\ SamePosition(Seen(c), Current)
<1> DEFINE fav == Level(Current.side, Favorable(Current.side, c)) - Level(Current.side, Current.entry)
<1>a. Current.side \in Sides /\ Current.entry \in Int /\ Current.maxFavorable \in Int \cup {NoValue}
  BY DEF Position
<1>b. Favorable(Current.side, c) \in Int
  BY DEF Favorable, Candle
<1>c. fav \in Int
  BY <1>a, <1>b, LevelType
<1>d. MaxFavorable(Current, c) = fav \/ MaxFavorable(Current, c) = Current.maxFavorable
  BY DEF MaxFavorable
<1>1. MaxFavorable(Current, c) \in Int \cup {NoValue}
  BY <1>a, <1>c, <1>d
<1>2. Seen(c) \in Position /\ SamePosition(Seen(c), Current)
  BY <1>1 DEF Seen, Position, SamePosition
<1>3. Seen(c).audit = Current.audit /\ Seen(c).stop = Current.stop /\ Seen(c).initial = Current.initial
  BY DEF Seen, Position
<1> QED
  BY <1>2, <1>3 DEF Chained

\* What an exit does: the position is closed, and the journal has its row.
LEMMA ExitEffect ==
  ASSUME TypeInv, NEW n \in DOMAIN positions, NEW p \in Position, NEW price \in Int,
         NEW at \in Bars, NEW reason \in {"SL", "TP", "TIMEOUT"}, Exit(n, p, price, at, reason)
  PROVE  /\ equity' \in Int
         /\ positions' \in Seq(Position) /\ Len(positions') = Len(positions)
         /\ \A m \in DOMAIN positions : m # n => positions'[m] = positions[m]
         /\ positions'[n].closedAt = at /\ positions'[n].signalAt = p.signalAt
         /\ positions'[n].openedAt = p.openedAt /\ positions'[n].quantity = p.quantity
         /\ Chained(p) => Chained(positions'[n])
         /\ trades' \in Seq(Trade) /\ Len(trades') = Len(trades) + 1
         /\ \A m \in DOMAIN trades : trades'[m] = trades[m]
         /\ trades'[Len(trades) + 1].position = n
         /\ trades'[Len(trades) + 1].signalAt = p.signalAt
         /\ trades'[Len(trades) + 1].openedAt = p.openedAt
         /\ trades'[Len(trades) + 1].closedAt = at
         /\ equity' = equity + trades'[Len(trades) + 1].pnl
<1> DEFINE exit == price - Direction(p.side) * ExitSlip
           fees == p.fees + p.quantity * Fee
           pnl == (Level(p.side, exit) - Level(p.side, p.entry)) * p.quantity - fees
           q == [p EXCEPT !.closedAt = at, !.fees = fees]
           row == [position |-> n, signalAt |-> p.signalAt, openedAt |-> p.openedAt,
                   closedAt |-> at, pnl |-> pnl, reason |-> reason]
<1>1. p.side \in Sides /\ p.fees \in Int /\ p.quantity \in Int /\ p.entry \in Int
  BY DEF Position
<1>2. exit \in Int
  BY <1>1, FactorsType DEF Direction
<1>3. fees \in Int
  BY <1>1, FactorsType
<1>4. Level(p.side, exit) \in Int /\ Level(p.side, p.entry) \in Int
  BY <1>1, <1>2, LevelType
<1>5. pnl \in Int
  BY <1>1, <1>3, <1>4
<1>6. q \in Position
  BY <1>3 DEF Position
<1>7. q.closedAt = at /\ q.signalAt = p.signalAt /\ q.openedAt = p.openedAt /\ q.audit = p.audit
      /\ q.stop = p.stop /\ q.initial = p.initial /\ q.quantity = p.quantity
  BY DEF Position
<1>8. positions \in Seq(Position) /\ trades \in Seq(Trade) /\ equity \in Int
  BY DEF TypeInv
<1>9. equity' = equity + pnl /\ positions' = [positions EXCEPT ![n] = q] /\ trades' = Append(trades, row)
  BY DEF Exit, Booked
<1>10. row \in Trade
  <2>1. n \in Nat
    BY <1>8
  <2>2. p.signalAt \in Int /\ p.openedAt \in Bars
    BY DEF Position
  <2> HIDE DEF pnl
  <2> QED
    BY <1>5, <2>1, <2>2 DEF Trade
<1>15. row.position = n /\ row.signalAt = p.signalAt /\ row.openedAt = p.openedAt /\ row.closedAt = at
       /\ row.pnl = pnl
  OBVIOUS
<1> HIDE DEF q, row
<1>11. trades' \in Seq(Trade) /\ Len(trades') = Len(trades) + 1
       /\ trades'[Len(trades) + 1] = row /\ \A m \in DOMAIN trades : trades'[m] = trades[m]
  <2>1. Len(trades) \in Nat /\ DOMAIN trades = 1 .. Len(trades) /\ trades' = Append(trades, row)
    BY <1>8, <1>9
  <2> QED
    BY <1>8, <1>10, <2>1
<1>12. positions' \in Seq(Position) /\ Len(positions') = Len(positions) /\ positions'[n] = q
       /\ \A m \in DOMAIN positions : m # n => positions'[m] = positions[m]
  BY <1>6, <1>8, <1>9
<1>13. equity' \in Int
  BY <1>5, <1>8, <1>9
<1>14. Chained(p) => Chained(q)
  BY <1>7 DEF Chained
<1>16. equity' = equity + row.pnl
  BY <1>9, <1>15
<1> QED
  BY <1>7, <1>11, <1>12, <1>13, <1>14, <1>15, <1>16

\* The first open position is one.
LEMMA FirstUnclosed ==
  ASSUME TypeInv, Unclosed # {}
  PROVE  Min(Unclosed) \in Unclosed /\ Min(Unclosed) \in DOMAIN positions
<1>1. Unclosed \subseteq DOMAIN positions /\ DOMAIN positions \subseteq Nat
  BY DEF Unclosed, TypeInv
<1>2. PICK x \in Unclosed : \A y \in Unclosed : <<y, x>> \notin OpToRel(<, Nat)
  BY <1>1, NatLessThanWellFounded, WFMin, Zenon
<1>3. \A y \in Unclosed : x <= y
  <2> TAKE y \in Unclosed
  <2>1. <<y, x>> \in Nat \X Nat /\ <<y, x>>[1] = y /\ <<y, x>>[2] = x
    BY <1>1
  <2>2. ~(<<y, x>>[1] < <<y, x>>[2])
    BY <1>2, <2>1, Zenon DEF OpToRel
  <2> QED
    BY <1>1, <2>1, <2>2
<1>4. Min(Unclosed) \in Unclosed
  BY <1>3, Zenon DEF Min
<1> QED
  BY <1>1, <1>4

\* A signal that no gate refuses has a fill bar, behind the candle of its computation.
LEMMA NotRefused ==
  ASSUME NEW s \in Signal, NEW unlucky \in Draws, Refusal(s, unlucky) = "none"
  PROVE  FillBar(s) \in Bars /\ s.bar < FillBar(s)
<1>1. HasCandle(s) /\ HasFillBar(s)
  BY DEF Refusal
<1> QED
  BY <1>1, BarsAre, FactorsType DEF HasFillBar, HasCandle, FillBar, Signal

LEMMA RefusalType ==
  ASSUME NEW s, NEW unlucky PROVE Refusal(s, unlucky) \in Reasons \cup {"none"}
BY DEF Refusal, Reasons

LEMMA HasFillBarType ==
  ASSUME NEW s \in Signal, HasFillBar(s) PROVE FillBar(s) \in Bars
BY BarsAre, FactorsType DEF HasFillBar, HasCandle, FillBar, Signal

LEMMA TypeInit == Init => TypeInv /\ AuditInv
<1> SUFFICES ASSUME Init PROVE TypeInv /\ AuditInv
  OBVIOUS
<1>1. candles \in [Bars -> Candle]
  BY InputsAssumption DEF Init, Candle
<1>2. signals \in SeqOf(Signals, MaxSignals)
  BY DEF Init
<1>3. PICK m \in 0 .. MaxSignals : signals \in [1 .. m -> Signals]
  BY <1>2 DEF SeqOf
<1>4. signals \in Seq(Signal)
  <2>1. m \in Nat /\ Signals \subseteq Signal
    BY InputsAssumption DEF Signal, Sides
  <2> QED
    BY <1>3, <2>1
<1>5. 1 \in 1 .. Len(signals) + 1
  BY <1>4
<1>6. 1 \in Bars /\ 1 \in 1 .. LastBar + 1
  BY BarsAre
<1>7. positions = <<>> /\ trades = <<>> /\ rejections = <<>> /\ phase = "signal" /\ k = 1 /\ bar = 1
      /\ movedBe = FALSE /\ equity = InitialEquity /\ startOfDay = InitialEquity
      /\ lastDay = Days[1]
  BY DEF Init
<1>8. positions \in Seq(Position) /\ trades \in Seq(Trade) /\ rejections \in Seq(Rejection)
      /\ DOMAIN positions = {} /\ DOMAIN trades = {}
  BY <1>7
<1>9. lastDay \in {Days[b] : b \in Bars} /\ equity \in Int /\ startOfDay \in Int
  BY <1>6, <1>7, FactorsType
<1> QED
  BY <1>1, <1>4, <1>5, <1>6, <1>7, <1>8, <1>9 DEF TypeInv, AuditInv

\* The day that a signal's fill bar brings.
LEMMA DayType ==
  ASSUME TypeInv, NEW s \in Signal, HasFillBar(s)
  PROVE  StartOfDay(s) \in Int /\ Days[FillBar(s)] \in {Days[b] : b \in Bars}
<1>1. FillBar(s) \in Bars
  BY HasFillBarType
<1> QED
  BY <1>1 DEF StartOfDay, TypeInv

LEMMA RejectStep ==
  ASSUME TypeInv, AuditInv, NEW unlucky \in Draws, RejectSignal(unlucky)
  PROVE  /\ TypeInv' /\ AuditInv'
         /\ k' = k + 1 /\ phase' = "signal" /\ Len(rejections') = Len(rejections) + 1
         /\ UNCHANGED <<positions, trades>> /\ k <= Len(signals)
<1> DEFINE s == signals[k]
           row == [reason |-> Refusal(s, unlucky), fillBar |-> IF HasFillBar(s) THEN FillBar(s) ELSE 0]
<1>1. phase = "signal" /\ k \in 1 .. Len(signals) /\ signals \in Seq(Signal)
  BY DEF RejectSignal, Considering, TypeInv
<1>2. s \in Signal
  BY <1>1
<1>3. row \in Rejection
  <2>1. Refusal(s, unlucky) \in Reasons
    BY RefusalType DEF RejectSignal
  <2>2. HasFillBar(s) => FillBar(s) \in Nat
    BY <1>2, HasFillBarType, BarsAre
  <2> QED
    BY <2>1, <2>2 DEF Rejection
<1>4. rejections' = Append(rejections, row)
  BY DEF RejectSignal
<1> HIDE DEF row
<1>5. rejections' \in Seq(Rejection) /\ Len(rejections') = Len(rejections) + 1
  <2>1. rejections \in Seq(Rejection)
    BY DEF TypeInv
  <2> QED
    BY <1>3, <1>4, <2>1
<1>6. startOfDay' \in Int /\ lastDay' \in {Days[b] : b \in Bars}
  <2>1. CASE HasFillBar(s)
    <3>1. startOfDay' = StartOfDay(s) /\ lastDay' = Days[FillBar(s)]
      BY <2>1 DEF RejectSignal
    <3> QED
      BY <2>1, <3>1, <1>2, DayType
  <2>2. CASE ~HasFillBar(s)
    <3>1. UNCHANGED day
      BY <2>2 DEF RejectSignal
    <3> QED
      BY <3>1 DEF day, TypeInv
  <2> QED
    BY <2>1, <2>2
<1>7. k' = k + 1 /\ UNCHANGED <<candles, signals, phase, bar, movedBe, equity, positions, trades>>
  BY DEF RejectSignal, inputs
<1>8. k' \in 1 .. Len(signals') + 1
  BY <1>1, <1>7
<1>9. TypeInv'
  BY <1>1, <1>5, <1>6, <1>7, <1>8 DEF TypeInv
<1>10. AuditInv'
  BY <1>7 DEF AuditInv
<1> QED
  BY <1>1, <1>5, <1>7, <1>9, <1>10

LEMMA FillStep ==
  ASSUME TypeInv, AuditInv, Considering, NEW quantity \in Quantities(signals[k]), FillSignal(quantity)
  PROVE  /\ TypeInv' /\ AuditInv'
         /\ k' = k /\ k <= Len(signals) /\ phase = "signal" /\ phase' = "manage"
         /\ Len(positions') = Len(positions) + 1
         /\ \A n \in DOMAIN positions : positions'[n] = positions[n]
         /\ Current'.signalAt < Current'.openedAt /\ Current'.closedAt = NoValue
         /\ bar' = Current'.openedAt + 1
         /\ UNCHANGED <<trades, rejections>>
<1> DEFINE s == signals[k]
           entry == candles[FillBar(s)].open + Direction(s.side) * EntrySlip
           new == [side |-> s.side, quantity |-> quantity, entry |-> entry, initial |-> s.stop,
                   stop |-> s.stop, target |-> s.target, fees |-> quantity * Fee,
                   signalAt |-> s.bar, openedAt |-> FillBar(s), closedAt |-> NoValue,
                   maxFavorable |-> NoValue, audit |-> <<Audit(NoValue, s.stop, "INITIAL")>>]
<1>1. phase = "signal" /\ k \in 1 .. Len(signals) /\ signals \in Seq(Signal)
  BY DEF Considering, TypeInv
<1>2. s \in Signal
  BY <1>1
<1>3. FillBar(s) \in Bars /\ s.bar < FillBar(s) /\ HasFillBar(s)
  <2>1. PICK unlucky \in Draws : Refusal(s, unlucky) = "none"
    BY DEF FillSignal
  <2>2. HasFillBar(s)
    BY <2>1 DEF Refusal
  <2> QED
    BY <1>2, <2>1, <2>2, NotRefused
<1>4. quantity \in Int
  BY <1>2 DEF Quantities, Signal
<1>5. entry \in Int
  <2>1. candles[FillBar(s)].open \in Int
    BY <1>3 DEF TypeInv, Candle
  <2> QED
    BY <1>2, <2>1, FactorsType DEF Direction, Signal
<1>6. new.audit \in Seq(AuditEntry) /\ Len(new.audit) = 1
      /\ new.audit[1] = Audit(NoValue, s.stop, "INITIAL")
  <2>1. Audit(NoValue, s.stop, "INITIAL") \in AuditEntry
    BY <1>2 DEF Audit, AuditEntry, Signal
  <2> QED
    BY <2>1
<1>7. new \in Position
  <2>1. s.side \in Sides /\ s.stop \in Int /\ s.target \in Int /\ s.bar \in Int
    BY <1>2 DEF Signal
  <2>2. quantity * Fee \in Int
    BY <1>4, FactorsType
  <2> HIDE DEF s, entry
  <2>3. new.audit \in Seq(AuditEntry)
    BY <1>6
  <2> QED
    BY <1>3, <1>4, <1>5, <2>1, <2>2, <2>3 DEF Position
<1>8. Chained(new)
  <2>1. new.stop = s.stop /\ new.initial = s.stop
    OBVIOUS
  <2> HIDE DEF new
  <2> QED
    BY <1>6, <2>1 DEF Chained, Audit
<1>9. positions' = Append(positions, new)
  BY DEF FillSignal
<1>10. new.signalAt = s.bar /\ new.openedAt = FillBar(s) /\ new.closedAt = NoValue
  OBVIOUS
<1>11. startOfDay' \in Int /\ lastDay' \in {Days[b] : b \in Bars}
  BY <1>2, <1>3, DayType DEF FillSignal
<1>12. equity' \in Int
  BY <1>4, FactorsType DEF FillSignal, TypeInv
<1>13. k' = k /\ phase' = "manage" /\ bar' = FillBar(s) + 1 /\ movedBe' = FALSE
       /\ UNCHANGED <<candles, signals, trades, rejections>>
  BY DEF FillSignal, inputs
<1> HIDE DEF new, s
<1>14. positions \in Seq(Position)
  BY DEF TypeInv
<1>15. /\ positions' \in Seq(Position) /\ Len(positions') = Len(positions) + 1
       /\ positions'[Len(positions')] = new
       /\ \A n \in DOMAIN positions : n \in DOMAIN positions' /\ positions'[n] = positions[n]
       /\ \A n \in DOMAIN positions' : n \in DOMAIN positions \/ n = Len(positions')
  <2>1. Len(positions) \in Nat /\ DOMAIN positions = 1 .. Len(positions)
    BY <1>14
  <2> QED
    BY <1>7, <1>9, <1>14, <2>1
<1>16. Current' = new
  BY <1>15 DEF Current
<1>17. bar' \in 1 .. LastBar' + 1
  BY <1>3, <1>13, BarsAre
<1>18. AuditInv'
  <2>1. \A n \in DOMAIN positions : Chained(positions[n])
    BY DEF AuditInv
  <2>2. \A n \in DOMAIN positions' : Chained(positions'[n])
    BY <1>8, <1>15, <2>1
  <2> QED
    BY <2>2 DEF AuditInv
<1>19. positions' # <<>>
  BY <1>14, <1>15
<1>20. TypeInv'
  <2>1. \A n \in DOMAIN trades' : trades'[n].position \in DOMAIN positions'
    BY <1>13, <1>15 DEF TypeInv
  <2>2. candles' \in [Bars -> Candle] /\ signals' \in Seq(Signal) /\ k' \in 1 .. Len(signals') + 1
        /\ trades' \in Seq(Trade) /\ rejections' \in Seq(Rejection)
    BY <1>13 DEF TypeInv
  <2>3. movedBe' \in BOOLEAN
    BY <1>13
  <2>4. k' <= Len(signals')
    BY <1>1, <1>13
  <2>5. Current'.closedAt = NoValue
    BY <1>10, <1>16
  <2> QED
    BY <1>11, <1>12, <1>15, <1>17, <1>19, <1>13, <2>1, <2>2, <2>3, <2>4, <2>5 DEF TypeInv
<1> QED
  BY <1>1, <1>3, <1>10, <1>13, <1>15, <1>16, <1>18, <1>20

\* The position that a bar looks at, and its candle.
LEMMA Managed ==
  ASSUME TypeInv, AuditInv, phase = "manage", bar <= LastBar
  PROVE  /\ bar \in Bars /\ candles[bar] \in Candle
         /\ Len(positions) \in DOMAIN positions /\ Current \in Position /\ Chained(Current)
         /\ Seen(candles[bar]) \in Position /\ Chained(Seen(candles[bar]))
         /\ SamePosition(Seen(candles[bar]), Current)
<1>1. bar \in 1 .. LastBar + 1 /\ candles \in [Bars -> Candle]
  BY DEF TypeInv
<1>2. bar \in Bars
  BY <1>1, BarsAre
<1>3. candles[bar] \in Candle
  BY <1>1, <1>2
<1>4. positions \in Seq(Position) /\ positions # <<>>
  BY DEF TypeInv
<1>5. Len(positions) \in DOMAIN positions
  BY <1>4
<1>6. Current \in Position /\ Chained(Current)
  BY <1>4, <1>5 DEF Current, AuditInv
<1> QED
  BY <1>2, <1>3, <1>5, <1>6, SeenKeeps

\* An exit closes an open position and keeps the books.
LEMMA ExitKeeps ==
  ASSUME TypeInv, AuditInv, BooksInv, NEW n \in DOMAIN positions, positions[n].closedAt = NoValue,
         NEW p \in Position, Chained(p), SamePosition(p, positions[n]), NEW price \in Int,
         NEW at \in Bars, positions[n].openedAt <= at, NEW reason \in {"SL", "TP", "TIMEOUT"},
         Exit(n, p, price, at, reason)
  PROVE  /\ equity' \in Int /\ positions' \in Seq(Position) /\ trades' \in Seq(Trade)
         /\ \A m \in DOMAIN trades' : trades'[m].position \in DOMAIN positions'
         /\ Len(positions') = Len(positions) /\ AuditInv' /\ BooksInv'
<1>1. positions \in Seq(Position) /\ trades \in Seq(Trade)
  BY DEF TypeInv
<1>2. equity' \in Int /\ positions' \in Seq(Position) /\ Len(positions') = Len(positions)
      /\ trades' \in Seq(Trade) /\ Len(trades') = Len(trades) + 1
  BY ExitEffect
<1>3. /\ \A m \in DOMAIN positions : m # n => positions'[m] = positions[m]
      /\ positions'[n].closedAt = at /\ positions'[n].signalAt = p.signalAt
      /\ positions'[n].openedAt = p.openedAt /\ Chained(positions'[n])
  BY ExitEffect
<1>4. /\ \A m \in DOMAIN trades : trades'[m] = trades[m]
      /\ trades'[Len(trades) + 1].position = n
      /\ trades'[Len(trades) + 1].signalAt = p.signalAt
      /\ trades'[Len(trades) + 1].openedAt = p.openedAt
      /\ trades'[Len(trades) + 1].closedAt = at
  BY ExitEffect
<1>5. DOMAIN positions' = DOMAIN positions
  BY <1>1, <1>2
<1>6. /\ \A m \in DOMAIN trades' : m \in DOMAIN trades \/ m = Len(trades) + 1
      /\ \A m \in DOMAIN trades : m \in DOMAIN trades'
      /\ Len(trades) + 1 \in DOMAIN trades'
  BY <1>1, <1>2
<1>7. at # NoValue
  BY BarsAre, FactorsType
<1>8. \A m \in DOMAIN trades : trades[m].position # n
  BY DEF BooksInv
<1>9. positions[n].signalAt < positions[n].openedAt /\ p.signalAt = positions[n].signalAt
      /\ p.openedAt = positions[n].openedAt
  BY DEF BooksInv, SamePosition
<1>10. \A m \in DOMAIN trades' : trades'[m].position \in DOMAIN positions'
  BY <1>4, <1>5, <1>6 DEF TypeInv
<1>11. AuditInv'
  BY <1>3, <1>5 DEF AuditInv
<1>12. ASSUME NEW m \in DOMAIN positions'
       PROVE  /\ positions'[m].signalAt < positions'[m].openedAt
              /\ positions'[m].closedAt = NoValue
                   <=> \A t \in DOMAIN trades' : trades'[t].position # m
  <2>1. CASE m = n
    BY <2>1, <1>3, <1>4, <1>6, <1>7, <1>9
  <2>2. CASE m # n
    <3>1. positions'[m] = positions[m]
      BY <2>2, <1>3, <1>5
    <3>2. (\A t \in DOMAIN trades' : trades'[t].position # m)
            <=> (\A t \in DOMAIN trades : trades[t].position # m)
      BY <2>2, <1>4, <1>6
    <3> QED
      BY <3>1, <3>2, <1>5 DEF BooksInv
  <2> QED
    BY <2>1, <2>2
<1>13. \A i, j \in DOMAIN trades' : trades'[i].position = trades'[j].position => i = j
  BY <1>4, <1>6, <1>8 DEF BooksInv
<1>14. \A m \in DOMAIN trades' :
         trades'[m].signalAt < trades'[m].openedAt /\ trades'[m].openedAt <= trades'[m].closedAt
  BY <1>4, <1>6, <1>9 DEF BooksInv
<1>15. BooksInv'
  BY <1>12, <1>13, <1>14 DEF BooksInv
<1> QED
  BY <1>2, <1>10, <1>11, <1>15

LEMMA ManageExitStep == ASSUME IInv, ManageExit PROVE IInv'
<1> DEFINE c == candles[bar]
           p == Seen(c)
           n == Len(positions)
<1>1. TypeInv /\ AuditInv /\ BooksInv /\ AccountInv
  BY DEF IInv
<1>2. phase = "manage" /\ bar <= LastBar
  BY DEF ManageExit
<1>3. bar \in Bars /\ n \in DOMAIN positions /\ p \in Position /\ Chained(p)
      /\ SamePosition(p, positions[n])
  BY <1>1, <1>2, Managed DEF Current
<1>4. positions[n].closedAt = NoValue /\ positions[n].openedAt \in Int /\ positions[n].openedAt < bar
  <2>1. Current \in Position
    BY <1>1, <1>2, Managed
  <2>2. Current.openedAt \in Int
    BY <2>1, BarsAre DEF Position
  <2> QED
    BY <1>1, <1>2, <2>2 DEF TypeInv, AccountInv, Current
<1>5. positions[n].openedAt <= bar
  BY <1>3, <1>4, BarsAre
<1>6. PICK price \in Int, reason \in {"SL", "TP", "TIMEOUT"} : Exit(n, p, price, bar, reason)
  <2>1. p.stop \in Int /\ p.target \in Int
    BY <1>3 DEF Position
  <2> QED
    BY <2>1 DEF ManageExit
<1> HIDE DEF p, n
<1>7. /\ equity' \in Int /\ positions' \in Seq(Position) /\ trades' \in Seq(Trade)
      /\ \A m \in DOMAIN trades' : trades'[m].position \in DOMAIN positions'
      /\ Len(positions') = Len(positions) /\ AuditInv' /\ BooksInv'
  BY <1>1, <1>3, <1>4, <1>5, <1>6, ExitKeeps
<1>8. phase' = "signal" /\ k' = k + 1
      /\ UNCHANGED <<candles, signals, bar, movedBe, startOfDay, lastDay, rejections>>
  BY DEF ManageExit, NextSignal, inputs, day
<1>9. k \in 1 .. Len(signals) + 1 /\ k <= Len(signals) /\ signals \in Seq(Signal)
  BY <1>1, <1>2 DEF TypeInv
<1>10. k' \in 1 .. Len(signals') + 1
  BY <1>8, <1>9
<1>11. TypeInv'
  BY <1>1, <1>7, <1>8, <1>10 DEF TypeInv
<1>12. AccountInv'
  <2>1. Len(rejections) + Len(positions) = k
    BY <1>1, <1>2 DEF AccountInv
  <2> QED
    BY <1>7, <1>8, <1>9, <2>1 DEF AccountInv
<1> QED
  BY <1>7, <1>11, <1>12 DEF IInv

LEMMA ManageMoveStep == ASSUME IInv, ManageMove PROVE IInv'
<1> DEFINE c == candles[bar]
           p == Seen(c)
           n == Len(positions)
           q == Trailing(BreakEven(p, c), c)
<1>1. TypeInv /\ AuditInv /\ BooksInv /\ AccountInv
  BY DEF IInv
<1>2. phase = "manage" /\ bar <= LastBar
  BY DEF ManageMove
<1>3. bar \in Bars /\ c \in Candle /\ n \in DOMAIN positions /\ p \in Position /\ Chained(p)
      /\ SamePosition(p, positions[n])
  BY <1>1, <1>2, Managed DEF Current
<1>4. q \in Position /\ Chained(q) /\ SamePosition(q, positions[n])
  <2>1. BreakEven(p, c) \in Position /\ Chained(BreakEven(p, c)) /\ SamePosition(BreakEven(p, c), p)
    BY <1>3, BreakEvenKeeps
  <2>2. q \in Position /\ Chained(q) /\ SamePosition(q, BreakEven(p, c))
    BY <1>3, <2>1, TrailingKeeps
  <2> QED
    BY <1>3, <2>1, <2>2 DEF SamePosition
<1>5. positions' = [positions EXCEPT ![n] = q] /\ bar' = bar + 1
      /\ movedBe' = (movedBe \/ ReachesBreakEven(p, c))
      /\ UNCHANGED <<candles, signals, k, phase, equity, startOfDay, lastDay, trades, rejections>>
  BY DEF ManageMove, inputs, day
<1> HIDE DEF p, q
<1>6. positions \in Seq(Position) /\ n \in Nat
  BY <1>1 DEF TypeInv
<1>7. positions' \in Seq(Position) /\ Len(positions') = n /\ DOMAIN positions' = DOMAIN positions
      /\ positions'[n] = q /\ \A m \in DOMAIN positions : m # n => positions'[m] = positions[m]
  BY <1>3, <1>4, <1>5, <1>6
<1>8. AuditInv'
  <2>1. \A m \in DOMAIN positions' : Chained(positions'[m])
    BY <1>1, <1>4, <1>7 DEF AuditInv
  <2> QED
    BY <2>1 DEF AuditInv
<1>9. \A m \in DOMAIN positions :
        /\ positions'[m].signalAt = positions[m].signalAt
        /\ positions'[m].openedAt = positions[m].openedAt
        /\ positions'[m].closedAt = positions[m].closedAt
  BY <1>4, <1>7 DEF SamePosition
<1>10. BooksInv'
  BY <1>1, <1>5, <1>7, <1>9 DEF BooksInv
<1>11. bar' \in 1 .. LastBar' + 1
  BY <1>3, <1>5, BarsAre
<1>12. movedBe' \in BOOLEAN
  BY <1>1, <1>5, Zenon DEF TypeInv, ReachesBreakEven
<1>13. Current'.closedAt = Current.closedAt /\ Current'.openedAt = Current.openedAt
  BY <1>3, <1>7, <1>9 DEF Current
<1>14. positions' # <<>>
  BY <1>3, <1>7
<1>15. TypeInv'
  <2>1. \A m \in DOMAIN trades' : trades'[m].position \in DOMAIN positions'
    BY <1>1, <1>5, <1>7 DEF TypeInv
  <2> QED
    BY <1>1, <1>2, <1>5, <1>7, <1>11, <1>12, <1>13, <1>14, <2>1 DEF TypeInv
<1>16. AccountInv'
  <2>1. Current.openedAt \in Int /\ bar \in Int /\ Current.openedAt < bar
    <3>1. Current \in Position
      BY <1>1, <1>2, Managed
    <3> QED
      BY <1>1, <1>2, <1>3, <3>1, BarsAre DEF Position, AccountInv
  <2>2. Current'.openedAt < bar'
    BY <1>5, <1>13, <2>1
  <2>3. Len(rejections') + Len(positions') = k'
    BY <1>1, <1>2, <1>5, <1>7 DEF AccountInv
  <2> QED
    BY <1>2, <1>5, <2>2, <2>3 DEF AccountInv
<1> QED
  BY <1>8, <1>10, <1>15, <1>16 DEF IInv

LEMMA ManageEndsStep == ASSUME IInv, ManageEnds PROVE IInv'
<1>1. TypeInv /\ AuditInv /\ BooksInv /\ AccountInv
  BY DEF IInv
<1>2. phase = "manage" /\ phase' = "signal" /\ k' = k + 1
      /\ UNCHANGED <<candles, signals, bar, movedBe, equity, startOfDay, lastDay, positions,
                     trades, rejections>>
  BY DEF ManageEnds, NextSignal, inputs, day
<1>3. k \in 1 .. Len(signals) + 1 /\ k <= Len(signals) /\ signals \in Seq(Signal)
  BY <1>1, <1>2 DEF TypeInv
<1>4. k' \in 1 .. Len(signals') + 1
  BY <1>2, <1>3
<1>5. TypeInv' /\ AuditInv' /\ BooksInv'
  BY <1>1, <1>2, <1>4 DEF TypeInv, AuditInv, BooksInv
<1>6. AccountInv'
  BY <1>1, <1>2, <1>3 DEF AccountInv
<1> QED
  BY <1>5, <1>6 DEF IInv

LEMMA TimeoutStep == ASSUME IInv, TimeoutExit PROVE IInv'
<1> DEFINE n == Min(Unclosed)
           p == positions[n]
<1>1. TypeInv /\ AuditInv /\ BooksInv /\ AccountInv
  BY DEF IInv
<1>2. phase = "signal" /\ k > Len(signals) /\ Unclosed # {}
      /\ UNCHANGED <<candles, signals, k, phase, bar, movedBe, startOfDay, lastDay, rejections>>
  BY DEF TimeoutExit, inputs, day
<1>3. n \in Unclosed /\ n \in DOMAIN positions
  BY <1>1, <1>2, FirstUnclosed
<1>4. p.closedAt = NoValue
  BY <1>3 DEF Unclosed
<1>5. p \in Position /\ Chained(p) /\ SamePosition(p, positions[n])
  BY <1>1, <1>3 DEF TypeInv, AuditInv, SamePosition
<1>6. LastBar \in Bars /\ p.openedAt <= LastBar
  BY <1>5, BarsAre DEF Position
<1>7. candles[LastBar].close \in Int
  BY <1>1, <1>6 DEF TypeInv, Candle
<1>8. Exit(n, p, candles[LastBar].close, LastBar, "TIMEOUT")
  BY DEF TimeoutExit
<1> HIDE DEF n
<1>9. /\ equity' \in Int /\ positions' \in Seq(Position) /\ trades' \in Seq(Trade)
      /\ \A m \in DOMAIN trades' : trades'[m].position \in DOMAIN positions'
      /\ Len(positions') = Len(positions) /\ AuditInv' /\ BooksInv'
  BY <1>1, <1>3, <1>4, <1>5, <1>6, <1>7, <1>8, ExitKeeps
<1>10. TypeInv'
  BY <1>1, <1>2, <1>9 DEF TypeInv
<1>11. AccountInv'
  BY <1>1, <1>2, <1>9 DEF AccountInv
<1> QED
  BY <1>9, <1>10, <1>11 DEF IInv

LEMMA FinishStep == ASSUME IInv, Finish PROVE IInv'
<1>1. TypeInv /\ AuditInv /\ BooksInv /\ AccountInv
  BY DEF IInv
<1>2. phase = "signal" /\ k > Len(signals) /\ Unclosed = {} /\ phase' = "done"
      /\ UNCHANGED <<candles, signals, k, bar, movedBe, equity, startOfDay, lastDay, positions,
                     trades, rejections>>
  BY DEF Finish, inputs, day
<1>3. TypeInv' /\ AuditInv' /\ BooksInv'
  BY <1>1, <1>2 DEF TypeInv, AuditInv, BooksInv
<1>4. k = Len(signals) + 1
  BY <1>1, <1>2 DEF TypeInv
<1>5. Unclosed' = {}
  BY <1>2 DEF Unclosed
<1>6. AccountInv'
  BY <1>1, <1>2, <1>4, <1>5 DEF AccountInv
<1> QED
  BY <1>3, <1>6 DEF IInv

LEMMA RejectKeeps == ASSUME IInv, NEW unlucky \in Draws, RejectSignal(unlucky) PROVE IInv'
<1>1. TypeInv /\ AuditInv /\ BooksInv /\ AccountInv
  BY DEF IInv
<1>2. /\ TypeInv' /\ AuditInv'
      /\ k' = k + 1 /\ phase' = "signal" /\ Len(rejections') = Len(rejections) + 1
      /\ UNCHANGED <<positions, trades>> /\ k <= Len(signals)
  BY <1>1, RejectStep
<1>3. BooksInv'
  BY <1>1, <1>2 DEF BooksInv
<1>4. phase = "signal" /\ k \in Int /\ Len(rejections) \in Int /\ Len(positions) \in Int
  BY <1>1 DEF RejectSignal, Considering, TypeInv
<1>5. AccountInv'
  BY <1>1, <1>2, <1>4 DEF AccountInv
<1> QED
  BY <1>2, <1>3, <1>5 DEF IInv

LEMMA FillKeeps ==
  ASSUME IInv, Considering, NEW quantity \in Quantities(signals[k]), FillSignal(quantity)
  PROVE  IInv'
<1> DEFINE n == Len(positions) + 1
<1>1. TypeInv /\ AuditInv /\ BooksInv /\ AccountInv
  BY DEF IInv
<1>2. /\ TypeInv' /\ AuditInv'
      /\ k' = k /\ phase = "signal" /\ phase' = "manage"
      /\ Len(positions') = n /\ \A m \in DOMAIN positions : positions'[m] = positions[m]
      /\ Current'.signalAt < Current'.openedAt /\ Current'.closedAt = NoValue
      /\ bar' = Current'.openedAt + 1
      /\ UNCHANGED <<trades, rejections>>
  BY <1>1, FillStep
<1>3. positions \in Seq(Position) /\ positions' \in Seq(Position)
  BY <1>1, <1>2 DEF TypeInv
<1>4. DOMAIN positions' = DOMAIN positions \cup {n} /\ n \notin DOMAIN positions
  BY <1>2, <1>3
<1>5. positions'[n].signalAt < positions'[n].openedAt /\ positions'[n].closedAt = NoValue
      /\ Current' = positions'[n]
  BY <1>2 DEF Current
<1>6. \A m \in DOMAIN trades : trades[m].position # n
  BY <1>1, <1>4 DEF TypeInv
<1>7. BooksInv'
  BY <1>1, <1>2, <1>4, <1>5, <1>6 DEF BooksInv
<1>8. Current'.openedAt < bar'
  <2>1. positions'[n] \in Position
    BY <1>3, <1>4
  <2>2. Current'.openedAt \in Int
    BY <1>5, <2>1, BarsAre DEF Position
  <2> QED
    BY <1>2, <2>2
<1>9. Len(rejections') + Len(positions') = k'
  <2>1. Len(rejections) \in Int /\ Len(positions) \in Int /\ k \in Int
    BY <1>1 DEF TypeInv
  <2> QED
    BY <1>1, <1>2, <2>1 DEF AccountInv
<1>10. AccountInv'
  BY <1>2, <1>8, <1>9 DEF AccountInv
<1> QED
  BY <1>2, <1>7, <1>10 DEF IInv

LEMMA StutterKeeps == ASSUME IInv, UNCHANGED vars PROVE IInv'
BY DEF IInv, TypeInv, AuditInv, BooksInv, AccountInv, Unclosed, Current, vars, inputs, day

-----------------------------------------------------------------------------
\* Every step of a run keeps the books.
LEMMA BooksStep == ASSUME IInv, [Next]_vars PROVE IInv'
<1>1. ASSUME NEW unlucky \in Draws, RejectSignal(unlucky) PROVE IInv'
  BY <1>1, RejectKeeps
<1>2. ASSUME Considering, NEW quantity \in Quantities(signals[k]), FillSignal(quantity)
      PROVE  IInv'
  BY <1>2, FillKeeps
<1>3. CASE ManageExit
  BY <1>3, ManageExitStep
<1>4. CASE ManageMove
  BY <1>4, ManageMoveStep
<1>5. CASE ManageEnds
  BY <1>5, ManageEndsStep
<1>6. CASE TimeoutExit
  BY <1>6, TimeoutStep
<1>7. CASE Finish
  BY <1>7, FinishStep
<1>8. CASE UNCHANGED vars
  BY <1>8, StutterKeeps
<1> QED
  BY <1>1, <1>2, <1>3, <1>4, <1>5, <1>6, <1>7, <1>8 DEF Next

\* The books hold in every state of a run: types, the chains of stops, one row
\* of the journal for each closed position, and the count of the signals.
THEOREM BooksHold == Init /\ [][Next]_vars => []IInv
<1>1. Init => IInv
  <2> SUFFICES ASSUME Init PROVE IInv
    OBVIOUS
  <2>1. TypeInv /\ AuditInv
    BY TypeInit
  <2>2. positions = <<>> /\ trades = <<>> /\ rejections = <<>> /\ k = 1 /\ phase = "signal"
    BY DEF Init
  <2>3. BooksInv /\ AccountInv
    BY <2>2 DEF BooksInv, AccountInv
  <2> QED
    BY <2>1, <2>3 DEF IInv
<1>2. IInv /\ [Next]_vars => IInv'
  BY BooksStep
<1> QED
  BY <1>1, <1>2, PTL

\* A run goes through its three phases only.
PhaseInv == phase \in {"signal", "manage", "done"}

LEMMA PhasesHold == Spec => []PhaseInv
<1>1. Init => PhaseInv
  BY DEF Init, PhaseInv
<1>2. PhaseInv /\ [Next]_vars => PhaseInv'
  BY DEF PhaseInv, Next, vars, RejectSignal, FillSignal, ManageExit, ManageMove, ManageEnds, NextSignal,
         TimeoutExit, Finish
<1> QED
  BY <1>1, <1>2, PTL DEF Spec

\* Counters stay within the inputs, and the journal refers to positions
\* (backtest/simulator.py, run).
THEOREM TypeCorrect == Spec => []TypeOK
<1>1. IInv /\ PhaseInv => TypeOK
  <2> SUFFICES ASSUME IInv, PhaseInv PROVE TypeOK
    OBVIOUS
  <2>1. TypeInv
    BY DEF IInv
  <2>2. \A n \in DOMAIN positions :
          /\ positions[n].side \in {"BUY", "SELL"} /\ positions[n].stop \in Int
          /\ positions[n].openedAt \in Bars /\ positions[n].closedAt \in Bars \cup {NoValue}
    <3>1. \A n \in DOMAIN positions : positions[n] \in Position
      BY <2>1 DEF TypeInv
    <3> QED
      BY <3>1 DEF Position, Sides
  <2>3. \A n \in DOMAIN rejections : rejections[n].reason \in Reasons
    <3>1. \A n \in DOMAIN rejections : rejections[n] \in Rejection
      BY <2>1 DEF TypeInv
    <3> QED
      BY <3>1 DEF Rejection
  <2> QED
    BY <2>1, <2>2, <2>3 DEF TypeOK, TypeInv, PhaseInv
<1> QED
  BY <1>1, BooksHold, PhasesHold, PTL DEF Spec

\* Every move of a stop is in the audit of its position, in one unbroken chain
\* from the initial stop to the present one (backtest/simulator.py, _manage).
THEOREM AuditComplete == Spec => []AuditIsComplete
<1>1. IInv => AuditIsComplete
  BY DEF IInv, AuditInv, Chained, AuditIsComplete
<1> QED
  BY <1>1, BooksHold, PTL DEF Spec

\* When run returns, every signal was refused or traded, and the journal has
\* one row for each position, in the order of time (backtest/simulator.py, run).
THEOREM SignalsAccounted == Spec => []EverySignalIsAccounted
<1>1. IInv => EverySignalIsAccounted
  <2> SUFFICES ASSUME IInv, phase = "done"
               PROVE  /\ Len(rejections) + Len(positions) = Len(signals)
                      /\ Len(trades) = Len(positions)
                      /\ {trades[n].position : n \in DOMAIN trades} = DOMAIN positions
                      /\ \A n \in DOMAIN trades :
                           trades[n].signalAt < trades[n].openedAt
                             /\ trades[n].openedAt <= trades[n].closedAt
    BY DEF EverySignalIsAccounted
  <2> DEFINE booked == [n \in DOMAIN trades |-> trades[n].position]
  <2>1. TypeInv /\ BooksInv /\ AccountInv
    BY DEF IInv
  <2>2. k = Len(signals) + 1 /\ Unclosed = {} /\ Len(rejections) + Len(positions) = k - 1
    BY <2>1 DEF AccountInv
  <2>3. Len(rejections) + Len(positions) = Len(signals)
    <3>1. Len(rejections) \in Int /\ Len(positions) \in Int /\ Len(signals) \in Int
      BY <2>1 DEF TypeInv
    <3> QED
      BY <3>1, <2>2
  <2>4. \A n \in DOMAIN positions : \E m \in DOMAIN trades : trades[m].position = n
    BY <2>1, <2>2 DEF Unclosed, BooksInv
  <2>5. \A m \in DOMAIN trades : trades[m].position \in DOMAIN positions
    BY <2>1 DEF TypeInv
  <2>6. {trades[n].position : n \in DOMAIN trades} = DOMAIN positions
    BY <2>4, <2>5
  <2>7. booked \in Bijection(DOMAIN trades, DOMAIN positions)
    <3>1. booked \in Injection(DOMAIN trades, DOMAIN positions)
      BY <2>1, <2>5 DEF BooksInv, Injection, IsInjective
    <3>2. booked \in Surjection(DOMAIN trades, DOMAIN positions)
      BY <2>4, <2>5 DEF Surjection
    <3> QED
      BY <3>1, <3>2 DEF Bijection
  <2>8. /\ Len(trades) \in Nat /\ DOMAIN trades = 1 .. Len(trades)
        /\ Len(positions) \in Nat /\ DOMAIN positions = 1 .. Len(positions)
    BY <2>1 DEF TypeInv
  <2>9. /\ IsFiniteSet(DOMAIN trades) /\ Cardinality(DOMAIN trades) = Len(trades)
        /\ IsFiniteSet(DOMAIN positions) /\ Cardinality(DOMAIN positions) = Len(positions)
    BY <2>8, SizeOfInterval
  <2>10. Cardinality(DOMAIN trades) = Cardinality(DOMAIN positions)
    BY <2>7, <2>9, FS_Bijection DEF ExistsBijection
  <2> QED
    BY <2>1, <2>3, <2>6, <2>9, <2>10 DEF BooksInv
<1> QED
  BY <1>1, BooksHold, PTL DEF Spec

-----------------------------------------------------------------------------
(* The running equity.                                                     *)

\* What is summed up are finitely many amounts.
LEMMA AmountsType ==
  ASSUME NEW t \in Seq(Trade), NEW ps \in Seq(Position)
  PROVE  /\ IsFiniteSet(DOMAIN t) /\ IsFiniteSet(DOMAIN ps)
         /\ \A n \in DOMAIN t : t[n].pnl \in Int
         /\ \A n \in DOMAIN ps : ps[n].quantity * Fee \in Int
<1>1. /\ DOMAIN t = 1 .. Len(t) /\ Len(t) \in Nat
      /\ DOMAIN ps = 1 .. Len(ps) /\ Len(ps) \in Nat
      /\ \A n \in DOMAIN t : t[n] \in Trade
      /\ \A n \in DOMAIN ps : ps[n] \in Position
  OBVIOUS
<1>2. IsFiniteSet(1 .. Len(t)) /\ IsFiniteSet(1 .. Len(ps))
  BY <1>1, FS_Interval
<1>3. \A n \in DOMAIN t : t[n].pnl \in Int
  BY <1>1 DEF Trade
<1>4. \A n \in DOMAIN ps : ps[n].quantity \in Int
  BY <1>1 DEF Position
<1>5. \A n \in DOMAIN ps : ps[n].quantity * Fee \in Int
  BY <1>4, FactorsType
<1> QED
  BY <1>1, <1>2, <1>3, <1>5

LEMMA AmountsOfBooks ==
  ASSUME TypeInv
  PROVE  /\ IsFiniteSet(DOMAIN trades) /\ IsFiniteSet(DOMAIN positions)
         /\ \A n \in DOMAIN trades : Results[n] = trades[n].pnl /\ Results[n] \in Int
         /\ \A n \in DOMAIN positions :
              EntryFees[n] = positions[n].quantity * Fee /\ EntryFees[n] \in Int
BY AmountsType DEF TypeInv, Results, EntryFees

LEMMA AmountsOfNextBooks ==
  ASSUME TypeInv'
  PROVE  /\ \A n \in DOMAIN trades' : Results'[n] = trades'[n].pnl /\ Results'[n] \in Int
         /\ \A n \in DOMAIN positions' :
              EntryFees'[n] = positions'[n].quantity * Fee /\ EntryFees'[n] \in Int
BY AmountsType DEF TypeInv, Results, EntryFees

\* An exit books its row, and no entry fee.
LEMMA ExitFollows ==
  ASSUME TypeInv, TypeInv', EquityFollowsJournal,
         NEW n \in DOMAIN positions, NEW p \in Position, p.quantity = positions[n].quantity,
         NEW price \in Int, NEW at \in Bars, NEW reason \in {"SL", "TP", "TIMEOUT"},
         Exit(n, p, price, at, reason)
  PROVE  EquityFollowsJournal'
<1> DEFINE e == Len(trades) + 1
<1>1. /\ Len(positions') = Len(positions)
      /\ \A m \in DOMAIN positions : m # n => positions'[m] = positions[m]
      /\ positions'[n].quantity = p.quantity
      /\ Len(trades') = Len(trades) + 1 /\ \A m \in DOMAIN trades : trades'[m] = trades[m]
      /\ equity' = equity + trades'[e].pnl
  BY ExitEffect
<1>2. /\ DOMAIN trades' = DOMAIN trades \cup {e} /\ e \notin DOMAIN trades
      /\ DOMAIN positions' = DOMAIN positions
  <2>1. trades \in Seq(Trade) /\ trades' \in Seq(Trade)
        /\ positions \in Seq(Position) /\ positions' \in Seq(Position)
    BY DEF TypeInv
  <2>2. Len(trades) \in Nat /\ DOMAIN trades = 1 .. Len(trades)
        /\ DOMAIN trades' = 1 .. Len(trades) + 1
    BY <1>1, <2>1
  <2> QED
    BY <1>1, <2>1, <2>2
<1>3. /\ IsFiniteSet(DOMAIN trades) /\ IsFiniteSet(DOMAIN positions)
      /\ \A m \in DOMAIN trades : Results[m] = trades[m].pnl /\ Results[m] \in Int
      /\ \A m \in DOMAIN positions :
           EntryFees[m] = positions[m].quantity * Fee /\ EntryFees[m] \in Int
  BY AmountsOfBooks
<1>4. /\ \A m \in DOMAIN trades' : Results'[m] = trades'[m].pnl /\ Results'[m] \in Int
      /\ \A m \in DOMAIN positions' : EntryFees'[m] = positions'[m].quantity * Fee
  BY AmountsOfNextBooks
<1> HIDE DEF e
<1>5. SumFunctionOnSet(Results', DOMAIN trades \cup {e})
        = SumFunctionOnSet(Results, DOMAIN trades) + trades'[e].pnl
  <2>1. e \in DOMAIN trades' /\ Results'[e] \in Int /\ Results'[e] = trades'[e].pnl
    BY <1>2, <1>4
  <2>2. \A m \in DOMAIN trades : Results[m] \in Int /\ Results'[m] = Results[m]
    BY <1>1, <1>2, <1>3, <1>4
  <2>3. SumFunctionOnSet(Results', DOMAIN trades \cup {e})
          = SumFunctionOnSet(Results, DOMAIN trades) + Results'[e]
    BY <1>2, <1>3, <2>1, <2>2, SumGrows
  <2> QED
    BY <2>1, <2>3
<1>6. SumFunctionOnSet(Results', DOMAIN trades')
        = SumFunctionOnSet(Results, DOMAIN trades) + trades'[e].pnl
  BY <1>2, <1>5, Zenon
<1>7. SumFunctionOnSet(EntryFees, DOMAIN positions) = SumFunctionOnSet(EntryFees', DOMAIN positions)
  <2>1. \A m \in DOMAIN positions : EntryFees[m] = EntryFees'[m]
    BY <1>1, <1>2, <1>3, <1>4
  <2> QED
    BY <1>3, <2>1, SumOfSame
<1>8. SumFunctionOnSet(EntryFees', DOMAIN positions') = SumFunctionOnSet(EntryFees, DOMAIN positions)
  BY <1>2, <1>7, Zenon
<1>9. /\ SumFunctionOnSet(Results, DOMAIN trades) \in Int
      /\ SumFunctionOnSet(EntryFees, DOMAIN positions) \in Int
  BY <1>3, SumIsInt
<1>10. trades'[e].pnl \in Int /\ InitialEquity \in Int
  BY <1>2, <1>4, FactorsType
<1>11. equity = InitialEquity + SumFunctionOnSet(Results, DOMAIN trades)
                  - SumFunctionOnSet(EntryFees, DOMAIN positions)
  BY DEF EquityFollowsJournal
<1>12. equity' = InitialEquity + SumFunctionOnSet(Results', DOMAIN trades')
                  - SumFunctionOnSet(EntryFees', DOMAIN positions')
  BY <1>1, <1>6, <1>8, <1>9, <1>10, <1>11
<1> QED
  BY <1>12 DEF EquityFollowsJournal

\* A fill pays its entry fee, and books no row.
LEMMA FillFollows ==
  ASSUME TypeInv, TypeInv', EquityFollowsJournal, NEW quantity \in Int, FillSignal(quantity)
  PROVE  EquityFollowsJournal'
<1> DEFINE e == Len(positions) + 1
<1>1. PICK new : positions' = Append(positions, new) /\ new.quantity = quantity
  BY DEF FillSignal
<1>2. equity' = equity - quantity * Fee /\ trades' = trades
  BY DEF FillSignal
<1>3. positions \in Seq(Position)
  BY DEF TypeInv
<1>4. /\ DOMAIN positions' = DOMAIN positions \cup {e} /\ e \notin DOMAIN positions
      /\ \A m \in DOMAIN positions : positions'[m] = positions[m]
      /\ positions'[e] = new
  <2>1. positions \in Seq(Position \cup {new}) /\ Len(positions) \in Nat
        /\ DOMAIN positions = 1 .. Len(positions)
    BY <1>3
  <2> QED
    BY <1>1, <2>1
<1>5. /\ IsFiniteSet(DOMAIN trades) /\ IsFiniteSet(DOMAIN positions)
      /\ \A m \in DOMAIN trades : Results[m] \in Int
      /\ \A m \in DOMAIN positions :
           EntryFees[m] = positions[m].quantity * Fee /\ EntryFees[m] \in Int
  BY AmountsOfBooks
<1>6. \A m \in DOMAIN positions' : EntryFees'[m] = positions'[m].quantity * Fee /\ EntryFees'[m] \in Int
  BY AmountsOfNextBooks
<1> HIDE DEF e
<1>7. EntryFees'[e] = quantity * Fee /\ EntryFees'[e] \in Int
  BY <1>1, <1>4, <1>6
<1>8. SumFunctionOnSet(EntryFees', DOMAIN positions \cup {e})
        = SumFunctionOnSet(EntryFees, DOMAIN positions) + EntryFees'[e]
  <2>1. \A m \in DOMAIN positions : EntryFees[m] \in Int /\ EntryFees'[m] = EntryFees[m]
    BY <1>4, <1>5, <1>6
  <2> QED
    BY <1>4, <1>5, <1>7, <2>1, SumGrows
<1>9. SumFunctionOnSet(EntryFees', DOMAIN positions')
        = SumFunctionOnSet(EntryFees, DOMAIN positions) + EntryFees'[e]
  BY <1>4, <1>8, Zenon
<1>10. /\ SumFunctionOnSet(Results, DOMAIN trades) \in Int
       /\ SumFunctionOnSet(EntryFees, DOMAIN positions) \in Int
  BY <1>5, SumIsInt
<1>11. SumFunctionOnSet(Results', DOMAIN trades') = SumFunctionOnSet(Results, DOMAIN trades)
  BY <1>2 DEF Results
<1>12. equity = InitialEquity + SumFunctionOnSet(Results, DOMAIN trades)
                  - SumFunctionOnSet(EntryFees, DOMAIN positions)
  BY DEF EquityFollowsJournal
<1>13. equity' = InitialEquity + SumFunctionOnSet(Results', DOMAIN trades')
                  - SumFunctionOnSet(EntryFees', DOMAIN positions')
  BY <1>2, <1>7, <1>9, <1>10, <1>11, <1>12, FactorsType
<1> QED
  BY <1>13 DEF EquityFollowsJournal

\* A bar that a position survives changes no amount.
LEMMA MoveFollows ==
  ASSUME TypeInv, AuditInv, TypeInv', EquityFollowsJournal, ManageMove
  PROVE  EquityFollowsJournal'
<1> DEFINE c == candles[bar]
           p == Seen(c)
           n == Len(positions)
           q == Trailing(BreakEven(p, c), c)
<1>1. /\ c \in Candle /\ n \in DOMAIN positions /\ p \in Position /\ Chained(p)
      /\ SamePosition(p, positions[n])
  BY Managed DEF ManageMove, Current
<1>2. q.quantity = positions[n].quantity
  <2>1. BreakEven(p, c) \in Position /\ Chained(BreakEven(p, c)) /\ SamePosition(BreakEven(p, c), p)
    BY <1>1, BreakEvenKeeps
  <2>2. SamePosition(q, BreakEven(p, c))
    BY <1>1, <2>1, TrailingKeeps
  <2> QED
    BY <1>1, <2>1, <2>2 DEF SamePosition
<1>3. positions' = [positions EXCEPT ![n] = q] /\ equity' = equity /\ trades' = trades
  BY DEF ManageMove
<1> HIDE DEF q
<1>4. /\ DOMAIN positions' = DOMAIN positions
      /\ \A m \in DOMAIN positions : positions'[m].quantity = positions[m].quantity
  BY <1>1, <1>2, <1>3
<1>5. EntryFees' = EntryFees /\ Results' = Results
  BY <1>3, <1>4 DEF EntryFees, Results
<1> QED
  BY <1>3, <1>4, <1>5 DEF EquityFollowsJournal

\* Every step keeps the running equity at the journal's less the entry fees.
LEMMA EquityStep ==
  IInv /\ IInv' /\ EquityFollowsJournal /\ [Next]_vars => EquityFollowsJournal'
<1> SUFFICES ASSUME IInv, IInv', EquityFollowsJournal, [Next]_vars PROVE EquityFollowsJournal'
  OBVIOUS
<1>0. TypeInv /\ AuditInv /\ TypeInv'
  BY DEF IInv
<1>1. ASSUME UNCHANGED <<equity, positions, trades>> PROVE EquityFollowsJournal'
  BY <1>1 DEF EquityFollowsJournal, Results, EntryFees
<1>2. ASSUME NEW unlucky \in Draws, RejectSignal(unlucky) PROVE EquityFollowsJournal'
  BY <1>1, <1>2 DEF RejectSignal
<1>3. ASSUME Considering, NEW quantity \in Quantities(signals[k]), FillSignal(quantity)
      PROVE  EquityFollowsJournal'
  <2>1. signals[k] \in Signal
    BY <1>0, <1>3 DEF TypeInv, Considering
  <2>2. quantity \in Int
    BY <2>1 DEF Quantities, Signal
  <2> QED
    BY <1>0, <1>3, <2>2, FillFollows
<1>4. CASE ManageExit
  <2> DEFINE p == Seen(candles[bar])
  <2>1. /\ bar \in Bars /\ Len(positions) \in DOMAIN positions /\ p \in Position
        /\ SamePosition(p, positions[Len(positions)])
    BY <1>0, <1>4, Managed DEF ManageExit, Current
  <2>2. p.stop \in Int /\ p.target \in Int /\ p.quantity = positions[Len(positions)].quantity
    BY <2>1 DEF Position, SamePosition
  <2>3. PICK price \in Int, reason \in {"SL", "TP", "TIMEOUT"} :
          Exit(Len(positions), p, price, bar, reason)
    BY <1>4, <2>2 DEF ManageExit
  <2> HIDE DEF p
  <2> QED
    BY <1>0, <2>1, <2>2, <2>3, ExitFollows
<1>5. CASE ManageMove
  BY <1>0, <1>5, MoveFollows
<1>6. CASE ManageEnds \/ Finish \/ UNCHANGED vars
  BY <1>1, <1>6 DEF ManageEnds, Finish, vars
<1>7. CASE TimeoutExit
  <2> DEFINE n == Min(Unclosed)
  <2>1. n \in DOMAIN positions
    BY <1>0, <1>7, FirstUnclosed DEF TimeoutExit
  <2>2. positions[n] \in Position /\ LastBar \in Bars
    BY <1>0, <2>1, BarsAre DEF TypeInv
  <2>3. candles[LastBar].close \in Int
    BY <1>0, <2>2 DEF TypeInv, Candle
  <2>4. Exit(n, positions[n], candles[LastBar].close, LastBar, "TIMEOUT")
    BY <1>7 DEF TimeoutExit
  <2> HIDE DEF n
  <2> QED
    BY <1>0, <2>1, <2>2, <2>3, <2>4, ExitFollows
<1> QED
  BY <1>2, <1>3, <1>4, <1>5, <1>6, <1>7 DEF Next

\* The equity behind the daily limit is that of the journal less every entry fee
\* a second time, for any candles and signals, fees and slippage
\* (backtest/simulator.py, run and _exit).
THEOREM EquityFollows == Spec => []EquityFollowsJournal
<1>1. Init => EquityFollowsJournal
  <2> SUFFICES ASSUME Init PROVE EquityFollowsJournal
    OBVIOUS
  <2>1. equity = InitialEquity /\ DOMAIN trades = {} /\ DOMAIN positions = {}
    BY DEF Init
  <2>2. SumFunctionOnSet(Results, {}) = 0 /\ SumFunctionOnSet(EntryFees, {}) = 0
    BY SumOfNone
  <2>3. SumFunctionOnSet(Results, DOMAIN trades) = 0 /\ SumFunctionOnSet(EntryFees, DOMAIN positions) = 0
    BY <2>1, <2>2, Zenon
  <2> QED
    BY <2>1, <2>3, FactorsType DEF EquityFollowsJournal
<1> QED
  BY <1>1, BooksHold, EquityStep, PTL DEF Spec

-----------------------------------------------------------------------------
(* The signal engine, its diagnostics, and what the risk manager makes of   *)
(* their signals.                                                          *)

\* The columns of a row, one by one.
LEMMA RowType ==
  ASSUME NEW row, IsRow(row)
  PROVE  /\ row.atr # NaN => row.atr \in Nat /\ row.atr % 2 = 0
         /\ row.support # NaN => row.support \in Nat \ {0}
         /\ row.resistance # NaN => row.resistance \in Nat \ {0}
BY DEF IsRow

\* An ATR above zero leaves a stop away from the close; the structure brings it
\* nearer and not to it.
LEMMA StopIsAway ==
  ASSUME NEW row, IsRow(row), row.atr # NaN, row.atr > 0
  PROVE  /\ AtrStop(row) \in Nat \ {0}
         /\ StopDistance(row) \in Nat \ {0} /\ StopDistance(row) <= AtrStop(row)
<1>1. row.atr \in Nat /\ row.atr % 2 = 0
  BY RowType
<1>2. AtrStop(row) \in Nat \ {0}
  BY <1>1 DEF AtrStop
<1>3. Behind(row) # NaN => Behind(row) \in Nat \ {0}
  BY RowType DEF Behind
<1> QED
  BY <1>2, <1>3 DEF StopDistance

\* The gates that a signal has passed.
LEMMA PassedGates ==
  ASSUME NEW row, NEW close, NEW market, IsSignal(row, close, market)
  PROVE  /\ RegimeAction(RegimeOf(row)) = "TRADE" /\ VolatilityOf(row, close) = "normal"
         /\ TrendOf(row) # "NEUTRAL" /\ HasMomentum(row)
         /\ ~(market.spread > MaxSpread) /\ market.liquid
         /\ ~(row.atr <= 0) /\ HasRoom(row, close, StopDistance(row))
         /\ Scores(row, row.trendTf, Aligned(row), market)
BY DEF IsSignal, EngineRefusal

LEMMA VolatilityIsKnown ==
  ASSUME NEW row, NEW close, VolatilityOf(row, close) = "normal" PROVE row.atr # NaN
BY DEF VolatilityOf

\* With the trend of the row for that of the timeframe above, the sides agree.
LEMMA OwnTrendIsAligned ==
  ASSUME NEW row, row.trendTf = TrendOf(row), TrendOf(row) # "NEUTRAL"
  PROVE  Aligned(row) = TRUE
<1>1. TrendOf(row) \in Bullish \cup Bearish
  BY DEF TrendOf, Bullish, Bearish
<1> QED
  BY <1>1 DEF Aligned, SideOf, Bullish, Bearish

\* A stop that is nearer leaves no less room.
LEMMA NearerLeavesRoom ==
  ASSUME NEW row, IsRow(row), NEW close \in Int, NEW near \in Nat, NEW far \in Nat, near <= far,
         HasRoom(row, close, far)
  PROVE  HasRoom(row, close, near)
<1>1. MinRr \in Nat
  BY EngineAssumption
<1>2. MinRr * near \in Nat /\ MinRr * far \in Nat /\ MinRr * near <= MinRr * far
  <2>1. PICK d \in Nat : far = near + d
    <3>1. far - near \in Nat /\ far = near + (far - near)
      OBVIOUS
    <3> QED
      BY <3>1
  <2>2. MinRr * far = MinRr * near + MinRr * d
    BY <1>1, <2>1
  <2> QED
    BY <1>1, <2>1, <2>2
<1>3. Ahead(row) # NaN => Ahead(row) \in Nat
  BY RowType DEF Ahead
<1>4. CASE Ahead(row) = NaN
  BY <1>4 DEF HasRoom
<1>5. CASE Ahead(row) # NaN
  <2> DEFINE x == MinRr * near
             y == MinRr * far
  <2>1. x \in Nat /\ y \in Nat /\ x <= y /\ Ahead(row) \in Nat
    BY <1>2, <1>3, <1>5
  <2>2. (Ahead(row) - y) * 200 >= close
    BY <1>5 DEF HasRoom
  <2> HIDE DEF x, y
  <2>3. (Ahead(row) - x) * 200 >= close
    BY <2>1, <2>2
  <2> QED
    BY <2>3 DEF HasRoom, x
<1> QED
  BY <1>4, <1>5

\* The full variant of the diagnostics asks for all conditions of the funnel.
LEMMA CandidateIsFinal ==
  ASSUME NEW row, NEW close, IsCandidate("D_full_baseline", row, close)
  PROVE  /\ row.emaReady /\ TrendOf(row) # "NEUTRAL" /\ HasMomentum(row)
         /\ VolatilityOf(row, close) = "normal" /\ row.atr # NaN /\ AtrStop(row) > 0
         /\ HasRoom(row, close, AtrStop(row)) /\ RegimeAction(RegimeOf(row)) = "TRADE"
         /\ Scores(row, TrendOf(row), TRUE, PerfectMarket)
         /\ IsFinal(row, close, PerfectMarket)
<1>1. {"rsi", "atr", "sr", "score"} = Filters("D_full_baseline")
  BY DEF Filters
<1>2. /\ row.emaReady /\ TrendOf(row) # "NEUTRAL" /\ HasMomentum(row)
      /\ VolatilityOf(row, close) = "normal" /\ row.atr # NaN /\ AtrStop(row) > 0
      /\ HasRoom(row, close, AtrStop(row)) /\ RegimeAction(RegimeOf(row)) = "TRADE"
      /\ Scores(row, TrendOf(row), TRUE, PerfectMarket)
  BY <1>1 DEF IsCandidate, Approved
<1>3. NaN \notin {row.rsi, row.adx}
  BY <1>2 DEF HasMomentum
<1>4. ASSUME NEW m \in 1 .. 6 PROVE ConditionHolds(Conditions[m], row, close, PerfectMarket)
  <2>1. Conditions[m] \in {"ema_trend", "rsi_momentum", "atr_valid", "sr_room", "rr_ok", "score_ok"}
    BY DEF Conditions
  <2> QED
    BY <1>2, <1>3, <2>1 DEF ConditionHolds
<1>5. IsFinal(row, close, PerfectMarket)
  BY <1>4 DEF IsFinal, Passes
<1> QED
  BY <1>2, <1>5

\* The baseline and the engine differ by the structure in the stop alone, on
\* every row and at every close.
LEMMA BaselineOfRow ==
  ASSUME NEW row, IsRow(row), row.trendTf = TrendOf(row), NEW close \in Int
  PROVE  LET full == IsCandidate("D_full_baseline", row, close)
             engine == IsSignal(row, close, PerfectMarket)
         IN  /\ full => engine /\ IsFinal(row, close, PerfectMarket)
             /\ engine /\ ~full => StopDistance(row) < AtrStop(row)
<1>1. PerfectMarket.spread = 0 /\ PerfectMarket.liquid /\ MaxSpread \in Nat \ {0}
  BY EngineAssumption DEF PerfectMarket
<1>2. ASSUME IsCandidate("D_full_baseline", row, close)
      PROVE  IsSignal(row, close, PerfectMarket) /\ IsFinal(row, close, PerfectMarket)
  <2>1. /\ row.emaReady /\ TrendOf(row) # "NEUTRAL" /\ HasMomentum(row)
        /\ VolatilityOf(row, close) = "normal" /\ row.atr # NaN /\ AtrStop(row) > 0
        /\ HasRoom(row, close, AtrStop(row)) /\ RegimeAction(RegimeOf(row)) = "TRADE"
        /\ Scores(row, TrendOf(row), TRUE, PerfectMarket)
        /\ IsFinal(row, close, PerfectMarket)
    BY <1>2, CandidateIsFinal
  <2>2. row.atr \in Nat /\ row.atr > 0
    BY <2>1, RowType DEF AtrStop
  <2>3. HasRoom(row, close, StopDistance(row))
    BY <2>1, <2>2, StopIsAway, NearerLeavesRoom
  <2>4. Scores(row, row.trendTf, Aligned(row), PerfectMarket)
    <3>1. Aligned(row) = TRUE
      BY <2>1, OwnTrendIsAligned
    <3> QED
      BY <2>1, <3>1, Zenon
  <2>5. ~(PerfectMarket.spread > MaxSpread) /\ ~(row.atr <= 0)
    BY <1>1, <2>2
  <2> QED
    BY <1>1, <2>1, <2>3, <2>4, <2>5 DEF IsSignal, EngineRefusal
<1>3. ASSUME IsSignal(row, close, PerfectMarket), StopDistance(row) >= AtrStop(row)
      PROVE  IsCandidate("D_full_baseline", row, close)
  <2>1. /\ RegimeAction(RegimeOf(row)) = "TRADE" /\ VolatilityOf(row, close) = "normal"
        /\ TrendOf(row) # "NEUTRAL" /\ HasMomentum(row)
        /\ ~(row.atr <= 0) /\ HasRoom(row, close, StopDistance(row))
        /\ Scores(row, row.trendTf, Aligned(row), PerfectMarket)
    BY <1>3, PassedGates
  <2>2. row.atr # NaN
    BY <2>1, VolatilityIsKnown
  <2>3. row.atr \in Nat /\ row.atr > 0
    BY <2>1, <2>2, RowType
  <2>4. AtrStop(row) > 0 /\ StopDistance(row) = AtrStop(row)
    BY <1>3, <2>2, <2>3, StopIsAway
  <2>5. HasRoom(row, close, AtrStop(row))
    BY <2>1, <2>4
  <2>6. Scores(row, TrendOf(row), TRUE, PerfectMarket)
    <3>1. Aligned(row) = TRUE
      BY <2>1, OwnTrendIsAligned
    <3> QED
      BY <2>1, <3>1, Zenon
  <2>7. row.emaReady /\ row.rsi # NaN
    BY <2>1 DEF TrendOf, HasMomentum
  <2> QED
    BY <2>1, <2>2, <2>4, <2>5, <2>6, <2>7 DEF IsCandidate, Approved
<1>4. IsSignal(row, close, PerfectMarket) => StopDistance(row) \in Nat /\ AtrStop(row) \in Nat
  <2> SUFFICES ASSUME IsSignal(row, close, PerfectMarket)
               PROVE  StopDistance(row) \in Nat /\ AtrStop(row) \in Nat
    OBVIOUS
  <2>1. row.atr # NaN /\ ~(row.atr <= 0)
    BY PassedGates, VolatilityIsKnown
  <2>2. row.atr > 0
    BY <2>1, RowType
  <2> QED
    BY <2>1, <2>2, StopIsAway
<1> QED
  BY <1>2, <1>3, <1>4

\* What the candles and the table of a chart hold at a bar.
LEMMA ChartAt ==
  ASSUME chart \in Charts, NEW b \in Bars
  PROVE  /\ IsRow(Row(b)) /\ Row(b).trendTf = TrendOf(Row(b)) /\ Close(b) \in Int
         /\ chart.market \in Market
<1>1. chart.candles \in [Bars -> Candle] /\ IsRow(chart.rows[b])
      /\ chart.rows[b].trendTf = TrendOf(chart.rows[b]) /\ chart.market \in Market
  BY ChartsAssumption
<1>2. chart.candles[b] \in Candle
  BY <1>1
<1> QED
  BY <1>1, <1>2 DEF Row, Close, Candle

\* The diagnostics' baseline never promises what the engine refuses in a perfect
\* market, and misses only signals whose stop the structure has tightened: on
\* every table, whatever its candles (strategy/diagnostic.py,
\* counterfactual_progressive; strategy/signal_engine.py, evaluate).
THEOREM BaselineAgrees == TraceSpec => []BaselineIsTheEngine
<1> DEFINE OfCharts == chart \in Charts
<1>1. TraceInit => OfCharts
  BY DEF TraceInit
<1>2. OfCharts /\ [TraceNext]_traceVars => OfCharts'
  BY DEF TraceNext, traceVars, tracer, EngineRejects, RiskRejects, Accept, Simulate, Merge
<1>3. OfCharts => BaselineIsTheEngine
  <2> SUFFICES ASSUME OfCharts, NEW b \in Bars
               PROVE  LET full == IsCandidate("D_full_baseline", Row(b), Close(b))
                          engine == IsSignal(Row(b), Close(b), PerfectMarket)
                      IN  /\ full => engine /\ IsFinal(Row(b), Close(b), PerfectMarket)
                          /\ engine /\ ~full => StopDistance(Row(b)) < AtrStop(Row(b))
    BY DEF BaselineIsTheEngine
  <2>1. IsRow(Row(b)) /\ Row(b).trendTf = TrendOf(Row(b)) /\ Close(b) \in Int
    BY ChartAt
  <2> QED
    BY <2>1, BaselineOfRow
<1> HIDE DEF OfCharts
<1> QED
  BY <1>1, <1>2, <1>3, PTL DEF TraceSpec

-----------------------------------------------------------------------------
(* The scan: what becomes of a bar.                                        *)

EngineCodes ==
  {"REGIME_NO_TRADE", "VOLATILITY_REJECTED", "TREND_NEUTRAL", "MOMENTUM_FAILED",
   "SPREAD_TOO_HIGH", "LIQUIDITY_TOO_LOW", "NO_VALID_SL", "STRUCTURE_BLOCKS_TP",
   "SCORE_BELOW_MIN"}
RiskCodes ==
  {"BREAKER_STATE", "MAX_OPEN_POSITIONS", "RISK_FACTOR_ZERO", "UNKNOWN", "SIZING_REJECTED",
   "EXPOSURE_VIOLATION"}
ScanTrace == [bar : Bars, code : EngineCodes \cup RiskCodes]

\* Every refusal of the engine has a code of its own.
LEMMA EngineCodeType ==
  ASSUME NEW row, NEW close, NEW market, ~IsSignal(row, close, market)
  PROVE  EngineCode(EngineRefusal(row, close, market)) \in EngineCodes
<1>1. EngineRefusal(row, close, market) \in
        {"regime", "volatility", "trend_neutral", "momentum", "spread_too_high",
         "liquidity_too_low", "no_valid_sl", "structure_blocks", "score"}
  BY DEF IsSignal, EngineRefusal
<1> QED
  BY <1>1 DEF EngineCode, EngineCodes

LEMMA RiskCodeType == ASSUME NEW s, NEW open PROVE RiskCode(s, open) \in RiskCodes \cup {"none"}
BY DEF RiskCode, RiskCodes

\* The number of open positions matters to the risk manager by the slot alone.
LEMMA RiskCodeOfSlot ==
  ASSUME NEW s, NEW open \in Nat
  PROVE  RiskCode(s, open) = "none" <=> RiskCode(s, 0) = "none" /\ open < MaxOpen
<1>1. MaxOpen \in Nat
  BY FactorsType
<1>2. SlotFree(open) <=> open < MaxOpen
  BY DEF SlotFree
<1>3. SlotFree(open) => SlotFree(0)
  BY <1>1 DEF SlotFree
<1> QED
  BY <1>2, <1>3 DEF RiskCode

\* What the sizer is asked with, for a signal of whole prices, and its answer.
LEMMA SizingType ==
  ASSUME chart \in Charts, NEW s, s.side \in Sides, s.entry \in Int, s.stop \in Int,
         Sizing(s).quantity # 0
  PROVE  Sizing(s).quantity \in Int /\ RiskAhead(s) > 0
<1> DEFINE inp == [equity |-> InitialEquity, risk |-> EffectiveRisk, entry |-> s.entry,
                   priceRisk |-> Level(s.side, s.entry) - Level(s.side, s.stop),
                   cost |-> 2 * (Fee + EntrySlip), lotStep |-> 1, minQty |-> 1,
                   minNotional |-> 0, maxQty |-> NoCap]
<1>1. Sizing(s) = SizePosition(inp, MaxRisk)
  BY DEF Sizing
<1>2. /\ inp.equity = InitialEquity /\ inp.risk = EffectiveRisk /\ inp.priceRisk = RiskAhead(s)
      /\ inp.cost = 2 * (Fee + EntrySlip) /\ inp.lotStep = 1 /\ inp.maxQty = NoCap
  BY DEF RiskAhead
<1>3. EffectiveRisk \in Nat
  <2>1. chart.manager.factor \in Nat
    BY ChartsAssumption
  <2>2. InitialRisk \in Nat /\ MaxRisk \in Nat
    BY RiskAssumption
  <2>3. InitialRisk * chart.manager.factor \in Nat
    BY <2>1, <2>2
  <2>4. (InitialRisk * chart.manager.factor) \div 100 \in Nat
    BY <2>3
  <2> QED
    BY <2>2, <2>4 DEF EffectiveRisk
<1>4. RiskAhead(s) \in Int
  <2>1. Level(s.side, s.entry) \in Int /\ Level(s.side, s.stop) \in Int
    BY LevelType
  <2> QED
    BY <2>1 DEF RiskAhead
<1> HIDE DEF inp
<1>5. ~SizingRefuses(inp, MaxRisk)
  BY <1>1 DEF SizePosition, Rejected
<1>6. RiskAhead(s) > 0
  BY <1>2, <1>4, <1>5 DEF SizingRefuses
<1>7. AffordableQty(inp) \in Int
  <2>1. UnitLoss(inp) \in Nat \ {0}
    BY <1>2, <1>4, <1>6, FactorsType DEF UnitLoss
  <2>2. UnitLoss(inp) * Scale \in Nat \ {0}
    BY <2>1 DEF Scale
  <2>3. inp.equity * inp.risk \in Nat
    BY <1>2, <1>3, FactorsType
  <2> QED
    BY <2>2, <2>3 DEF AffordableQty
<1>8. LotQty(inp) \in Int
  BY <1>2, <1>7 DEF LotQty, FloorToLot
<1>9. Sizing(s).quantity = LotQty(inp)
  BY <1>1, <1>2, <1>5 DEF SizePosition, CappedQty
<1> QED
  BY <1>6, <1>8, <1>9

\* An accepted signal is one that the simulator takes, with its stop on its side.
LEMMA AcceptedIsSound ==
  ASSUME chart \in Charts, NEW b \in Bars, HasSignal(b), NEW open \in Nat,
         RiskCode(SignalAt(b), open) = "none"
  PROVE  /\ SignalAt(b).side \in Sides /\ SignalAt(b).entry \in Int
         /\ SignalAt(b).stop \in Int /\ SignalAt(b).target \in Int
         /\ Sizing(SignalAt(b)).quantity \in Int /\ RiskAhead(SignalAt(b)) > 0
         /\ b \in BacktestSignals /\ open < MaxOpen
<1> DEFINE s == SignalAt(b)
<1>1. IsRow(Row(b)) /\ Close(b) \in Int
  BY ChartAt
<1>2. StopDistance(Row(b)) \in Int
  <2>1. VolatilityOf(Row(b), Close(b)) = "normal" /\ ~(Row(b).atr <= 0)
    BY PassedGates DEF HasSignal
  <2>2. Row(b).atr # NaN /\ Row(b).atr > 0
    BY <1>1, <2>1, VolatilityIsKnown, RowType
  <2> QED
    BY <1>1, <2>2, StopIsAway
<1>3. SideOf(Row(b)) \in Sides /\ Towards(SideOf(Row(b))) \in {-1, 1}
  BY DEF SideOf, Towards, Sides
<1>4. MinRr \in Nat
  BY EngineAssumption
<1>5. s.side \in Sides /\ s.entry \in Int /\ s.stop \in Int /\ s.target \in Int
  <2> DEFINE ahead == Towards(SideOf(Row(b))) * StopDistance(Row(b))
  <2>1. ahead \in Int
    BY <1>2, <1>3
  <2>2. /\ s.side = SideOf(Row(b)) /\ s.entry = Close(b) /\ s.stop = Close(b) - ahead
        /\ s.target = Close(b) + MinRr * ahead
    BY DEF SignalAt, SignalOf
  <2> HIDE DEF ahead, s
  <2> QED
    BY <1>1, <1>3, <1>4, <2>1, <2>2
<1>6. RiskCode(s, 0) = "none" /\ open < MaxOpen
  BY RiskCodeOfSlot
<1>7. Sizing(s).quantity # 0
  BY <1>6 DEF RiskCode
<1> QED
  BY <1>5, <1>6, <1>7, SizingType DEF BacktestSignals

\* The signals of the backtest are those of the chart, which stays.
LEMMA ChartStays == chart' = chart => BacktestSignals' = BacktestSignals
BY DEF BacktestSignals, HasSignal, Row, Close, SignalAt, RiskCode, SlotFree, EffectiveRisk, Sizing

\* run_trace scans all bars before the simulator sees the first signal.
ScanInv ==
  /\ chart \in Charts /\ candles = chart.candles
  /\ phase \in {"scan", "signal", "manage", "done", "traced"}
  /\ scan \in 1 .. LastBar + 1
  /\ phase # "scan" => scan = LastBar + 1
  /\ phase = "scan" => k = 1 /\ positions = <<>> /\ trades = <<>> /\ rejections = <<>>
  /\ openPositions = Len(signals) /\ Len(signals) <= MaxOpen

\* What has been accepted so far: in order, sound, and nothing passed over
\* while there was a slot.
TakenInv ==
  /\ \A n \in DOMAIN signals :
       signals[n].bar \in BacktestSignals /\ signals[n].bar < scan /\ RiskAhead(signals[n]) > 0
  /\ \A m, n \in DOMAIN signals : m < n => signals[m].bar < signals[n].bar
  /\ \A b \in BacktestSignals :
       \/ b >= scan
       \/ \E n \in DOMAIN signals : signals[n].bar = b
       \/ Len(signals) = MaxOpen /\ \A n \in DOMAIN signals : signals[n].bar < b

\* A bar behind scan has a trace or is an accepted signal's, and not both.
TracesInv ==
  phase # "traced" =>
    /\ traces \in Seq(ScanTrace) /\ Len(traces) + Len(signals) = scan - 1
    /\ \A b \in Bars :
         \/ b >= scan
         \/ \E n \in DOMAIN traces : traces[n].bar = b
         \/ \E n \in DOMAIN signals : signals[n].bar = b
    /\ \A n \in DOMAIN traces :
         traces[n].bar < scan /\ \A m \in DOMAIN signals : signals[m].bar # traces[n].bar

\* The simulator's position of a signal, and the journal's row of a position.
FateInv ==
  /\ \A n \in DOMAIN positions : \E j \in DOMAIN signals :
       /\ positions[n].signalAt = signals[j].bar
       /\ j < k \/ (j = k /\ phase = "manage")
  /\ \A m, n \in DOMAIN positions : positions[m].signalAt = positions[n].signalAt => m = n
  /\ \A m \in DOMAIN trades : trades[m].signalAt = positions[trades[m].position].signalAt

TracerInv == IInv /\ ScanInv /\ TakenInv /\ TracesInv /\ FateInv

LEMMA TracerStarts == TraceInit => TracerInv
<1> SUFFICES ASSUME TraceInit PROVE TracerInv
  OBVIOUS
<1>1. /\ chart \in Charts /\ candles = chart.candles /\ signals = <<>> /\ k = 1
      /\ phase = "scan" /\ bar = 1 /\ movedBe = FALSE /\ equity = InitialEquity
      /\ startOfDay = InitialEquity /\ lastDay = Days[1]
      /\ positions = <<>> /\ trades = <<>> /\ rejections = <<>>
      /\ scan = 1 /\ openPositions = 0 /\ traces = <<>>
  BY DEF TraceInit
<1>2. candles \in [Bars -> Candle]
  BY <1>1, ChartsAssumption
<1>3. /\ signals \in Seq(Signal) /\ Len(signals) = 0 /\ DOMAIN signals = {}
      /\ positions \in Seq(Position) /\ Len(positions) = 0 /\ DOMAIN positions = {}
      /\ trades \in Seq(Trade) /\ DOMAIN trades = {}
      /\ rejections \in Seq(Rejection) /\ Len(rejections) = 0
      /\ traces \in Seq(ScanTrace) /\ Len(traces) = 0 /\ DOMAIN traces = {}
  BY <1>1
<1>4. 1 \in Bars /\ 1 \in 1 .. LastBar + 1
  BY BarsAre
<1>5. lastDay \in {Days[b] : b \in Bars} /\ equity \in Int /\ startOfDay \in Int
  BY <1>1, <1>4, FactorsType
<1>6. IInv
  <2>1. /\ k \in 1 .. Len(signals) + 1 /\ bar \in 1 .. LastBar + 1
        /\ \A n \in DOMAIN trades : trades[n].position \in DOMAIN positions
    BY <1>1, <1>3, <1>4
  <2>a. movedBe \in BOOLEAN /\ phase # "manage"
    BY <1>1, Zenon
  <2>b. TypeInv
    BY <1>2, <1>3, <1>5, <2>1, <2>a, Zenon DEF TypeInv
  <2>2. AuditInv /\ BooksInv
    BY <1>3 DEF AuditInv, BooksInv
  <2>3. AccountInv
    BY <1>1, <1>3 DEF AccountInv
  <2> QED
    BY <2>2, <2>3, <2>b DEF IInv
<1>7. ScanInv
  BY <1>1, <1>3, <1>4, FactorsType DEF ScanInv
<1>8. BacktestSignals \subseteq Bars
  BY DEF BacktestSignals
<1>9. TakenInv /\ TracesInv
  BY <1>1, <1>3, <1>8, BarsAre DEF TakenInv, TracesInv
<1>10. FateInv
  BY <1>3 DEF FateInv
<1> QED
  BY <1>6, <1>7, <1>9, <1>10 DEF TracerInv

\* A bar that is refused is traced, and no signal of the backtest is passed
\* over unless the slots are gone.
LEMMA RefusedStep ==
  ASSUME TracerInv, Scanning, NEW code \in EngineCodes \cup RiskCodes, Trace(scan, code),
         scan \notin BacktestSignals \/ Len(signals) = MaxOpen,
         scan' = scan + 1, UNCHANGED <<vars, chart, openPositions>>
  PROVE  TracerInv'
<1> DEFINE row == [bar |-> scan, code |-> code]
<1>0. IInv /\ ScanInv /\ TakenInv /\ TracesInv /\ FateInv
  BY DEF TracerInv
<1>1. phase = "scan" /\ scan \in 1 .. LastBar /\ scan \in Bars
  BY <1>0, BarsAre DEF Scanning, ScanInv
<1>2. UNCHANGED vars /\ UNCHANGED <<candles, signals, k, phase, positions, trades, rejections>>
      /\ chart' = chart /\ openPositions' = openPositions
  BY DEF vars, inputs
<1>3. IInv'
  BY <1>0, <1>2, StutterKeeps
<1>4. ScanInv'
  BY <1>0, <1>1, <1>2, BarsAre DEF ScanInv
<1>5. BacktestSignals' = BacktestSignals /\ BacktestSignals \subseteq Nat
  BY <1>2, ChartStays, BarsAre DEF BacktestSignals
<1>6. TakenInv'
  <2>1. \A n \in DOMAIN signals' :
          /\ signals'[n].bar \in BacktestSignals' /\ signals'[n].bar < scan'
          /\ RiskAhead(signals'[n]) > 0
    <3>1. \A n \in DOMAIN signals : signals[n].bar \in Nat /\ signals[n].bar < scan
      BY <1>0, <1>5 DEF TakenInv
    <3> QED
      BY <1>0, <1>1, <1>2, <1>5, <3>1 DEF TakenInv
  <2>2. \A b \in BacktestSignals' :
          \/ b >= scan'
          \/ \E n \in DOMAIN signals' : signals'[n].bar = b
          \/ Len(signals') = MaxOpen /\ \A n \in DOMAIN signals' : signals'[n].bar < b
    <3> SUFFICES ASSUME NEW b \in BacktestSignals
                 PROVE  \/ b >= scan + 1
                        \/ \E n \in DOMAIN signals : signals[n].bar = b
                        \/ Len(signals) = MaxOpen /\ \A n \in DOMAIN signals : signals[n].bar < b
      BY <1>2, <1>5
    <3>1. CASE b = scan
      BY <3>1, <1>0 DEF TakenInv
    <3>2. CASE b # scan
      <4>1. b >= scan => b >= scan + 1
        BY <3>2, <1>1, <1>5
      <4> QED
        BY <4>1, <1>0 DEF TakenInv
    <3> QED
      BY <3>1, <3>2
  <2> QED
    BY <1>0, <1>2, <2>1, <2>2 DEF TakenInv
<1>7. TracesInv'
  <2>1. /\ traces \in Seq(ScanTrace) /\ Len(traces) + Len(signals) = scan - 1
        /\ \A b \in Bars : \/ b >= scan
                           \/ \E n \in DOMAIN traces : traces[n].bar = b
                           \/ \E n \in DOMAIN signals : signals[n].bar = b
        /\ \A n \in DOMAIN traces :
             traces[n].bar < scan /\ \A m \in DOMAIN signals : signals[m].bar # traces[n].bar
    BY <1>0, <1>1 DEF TracesInv
  <2>2. row \in ScanTrace /\ row.bar = scan /\ traces' = Append(traces, row)
    BY <1>1 DEF ScanTrace, Trace
  <2> HIDE DEF row
  <2>3. /\ traces' \in Seq(ScanTrace) /\ Len(traces') = Len(traces) + 1 /\ Len(traces) \in Nat
        /\ DOMAIN traces' = DOMAIN traces \cup {Len(traces) + 1}
        /\ traces'[Len(traces) + 1] = row
        /\ \A n \in DOMAIN traces : traces'[n] = traces[n]
    BY <2>1, <2>2
  <2>4. Len(signals) \in Nat
    BY <1>0 DEF IInv, TypeInv
  <2>5. Len(traces') + Len(signals') = scan' - 1
    BY <1>1, <1>2, <2>1, <2>3, <2>4
  <2>6. \A b \in Bars : \/ b >= scan'
                        \/ \E n \in DOMAIN traces' : traces'[n].bar = b
                        \/ \E n \in DOMAIN signals' : signals'[n].bar = b
    <3> SUFFICES ASSUME NEW b \in Bars
                 PROVE  \/ b >= scan + 1
                        \/ \E n \in DOMAIN traces' : traces'[n].bar = b
                        \/ \E n \in DOMAIN signals : signals[n].bar = b
      BY <1>2
    <3>1. CASE b = scan
      BY <3>1, <2>2, <2>3
    <3>2. CASE b # scan
      <4>1. b >= scan => b >= scan + 1
        BY <3>2, <1>1, BarsAre
      <4>2. CASE \E n \in DOMAIN traces : traces[n].bar = b
        BY <4>2, <2>3
      <4> QED
        BY <4>1, <4>2, <2>1
    <3> QED
      BY <3>1, <3>2
  <2>7. \A n \in DOMAIN traces' :
          traces'[n].bar < scan' /\ \A m \in DOMAIN signals' : signals'[m].bar # traces'[n].bar
    <3> SUFFICES ASSUME NEW n \in DOMAIN traces'
                 PROVE  /\ traces'[n].bar < scan + 1
                        /\ \A m \in DOMAIN signals : signals[m].bar # traces'[n].bar
      BY <1>2
    <3>1. CASE n \in DOMAIN traces
      <4>1. traces[n].bar \in Nat
        <5>1. traces[n] \in ScanTrace
          BY <2>1, <3>1
        <5> QED
          BY <5>1, BarsAre DEF ScanTrace
      <4> QED
        BY <4>1, <3>1, <1>1, <2>1, <2>3
    <3>2. CASE n = Len(traces) + 1
      <4>1. \A m \in DOMAIN signals : signals[m].bar \in Nat /\ signals[m].bar < scan
        BY <1>0, <1>5 DEF TakenInv
      <4> QED
        BY <4>1, <3>2, <1>1, <2>2, <2>3
    <3> QED
      BY <3>1, <3>2, <2>3
  <2> QED
    BY <1>1, <1>2, <2>3, <2>5, <2>6, <2>7 DEF TracesInv
<1>8. FateInv'
  BY <1>0, <1>2 DEF FateInv
<1> QED
  BY <1>3, <1>4, <1>6, <1>7, <1>8 DEF TracerInv

\* An accepted signal is the next of the simulator's inputs.
LEMMA AcceptStep == ASSUME TracerInv, Accept PROVE TracerInv'
<1> DEFINE s == SignalAt(scan)
           new == [bar |-> scan, side |-> s.side, entry |-> s.entry, stop |-> s.stop,
                   target |-> s.target, quantity |-> Sizing(s).quantity]
           e == Len(signals) + 1
<1>0. /\ IInv /\ ScanInv /\ TakenInv /\ TracesInv /\ FateInv
      /\ TypeInv /\ AuditInv /\ BooksInv /\ AccountInv
  BY DEF TracerInv, IInv
<1>1. phase = "scan" /\ scan \in 1 .. LastBar /\ scan \in Bars /\ chart \in Charts
      /\ openPositions = Len(signals)
  BY <1>0, BarsAre DEF Accept, Scanning, ScanInv
<1>2. signals \in Seq(Signal) /\ Len(signals) \in Nat /\ DOMAIN signals = 1 .. Len(signals)
  BY <1>0 DEF TypeInv
<1>3. /\ s.side \in Sides /\ s.entry \in Int /\ s.stop \in Int /\ s.target \in Int
      /\ Sizing(s).quantity \in Int /\ RiskAhead(s) > 0
      /\ scan \in BacktestSignals /\ Len(signals) < MaxOpen
  BY <1>1, <1>2, AcceptedIsSound DEF Accept
<1>4. /\ signals' = Append(signals, new) /\ openPositions' = openPositions + 1 /\ scan' = scan + 1
      /\ UNCHANGED <<candles, k, phase, bar, movedBe, equity, startOfDay, lastDay, positions,
                     trades, rejections, chart, traces>>
  BY DEF Accept, OpenAfter, day
<1>5. new \in Signal /\ new.bar = scan /\ RiskAhead(new) > 0
  <2>1. scan \in Int
    BY <1>1
  <2> HIDE DEF s
  <2>2. new \in Signal
    BY <1>3, <2>1 DEF Signal
  <2>3. new.side = s.side /\ new.entry = s.entry /\ new.stop = s.stop
    OBVIOUS
  <2>4. RiskAhead(new) = RiskAhead(s)
    BY <2>3 DEF RiskAhead
  <2> QED
    BY <1>3, <2>2, <2>4
<1> HIDE DEF new, s
<1>6. /\ signals' \in Seq(Signal) /\ Len(signals') = e /\ e \in Nat
      /\ DOMAIN signals' = DOMAIN signals \cup {e} /\ signals'[e] = new
      /\ \A n \in DOMAIN signals : signals'[n] = signals[n]
  BY <1>2, <1>4, <1>5
<1>7. BacktestSignals' = BacktestSignals /\ BacktestSignals \subseteq Nat
  BY <1>4, ChartStays, BarsAre DEF BacktestSignals
<1>8. \A n \in DOMAIN signals :
        /\ signals[n].bar \in BacktestSignals /\ signals[n].bar \in Nat /\ signals[n].bar < scan
        /\ RiskAhead(signals[n]) > 0
  BY <1>0, <1>7 DEF TakenInv
<1>9. IInv'
  <2>1. k' \in 1 .. Len(signals') + 1
    <3>1. k = 1
      BY <1>0, <1>1 DEF ScanInv
    <3> QED
      BY <3>1, <1>4, <1>6
  <2>2. TypeInv'
    BY <1>0, <1>1, <1>4, <1>6, <2>1 DEF TypeInv
  <2>3. AuditInv' /\ BooksInv'
    BY <1>0, <1>4 DEF AuditInv, BooksInv
  <2>4. AccountInv'
    BY <1>0, <1>1, <1>4 DEF AccountInv
  <2> QED
    BY <2>2, <2>3, <2>4 DEF IInv
<1>10. ScanInv'
  <2>1. Len(signals') <= MaxOpen /\ openPositions' = Len(signals')
    BY <1>1, <1>2, <1>3, <1>4, <1>6, FactorsType
  <2>2. scan' \in 1 .. LastBar + 1
    BY <1>1, <1>4, BarsAre
  <2> QED
    BY <1>0, <1>1, <1>4, <2>1, <2>2 DEF ScanInv
<1>11. TakenInv'
  <2>1. \A n \in DOMAIN signals' :
          /\ signals'[n].bar \in BacktestSignals' /\ signals'[n].bar < scan'
          /\ RiskAhead(signals'[n]) > 0
    <3> SUFFICES ASSUME NEW n \in DOMAIN signals'
                 PROVE  /\ signals'[n].bar \in BacktestSignals /\ signals'[n].bar < scan + 1
                        /\ RiskAhead(signals'[n]) > 0
      BY <1>4, <1>7
    <3>1. CASE n = e
      BY <3>1, <1>1, <1>3, <1>5, <1>6
    <3>2. CASE n \in DOMAIN signals
      BY <3>2, <1>1, <1>6, <1>8
    <3> QED
      BY <3>1, <3>2, <1>6
  <2>2. \A m, n \in DOMAIN signals' : m < n => signals'[m].bar < signals'[n].bar
    <3> SUFFICES ASSUME NEW m \in DOMAIN signals', NEW n \in DOMAIN signals', m < n
                 PROVE  signals'[m].bar < signals'[n].bar
      OBVIOUS
    <3>1. m \in DOMAIN signals
      BY <1>2, <1>6
    <3>2. CASE n = e
      BY <3>1, <3>2, <1>5, <1>6, <1>8
    <3>3. CASE n \in DOMAIN signals
      BY <3>1, <3>3, <1>0, <1>6 DEF TakenInv
    <3> QED
      BY <3>2, <3>3, <1>6
  <2>3. \A b \in BacktestSignals' :
          \/ b >= scan'
          \/ \E n \in DOMAIN signals' : signals'[n].bar = b
          \/ Len(signals') = MaxOpen /\ \A n \in DOMAIN signals' : signals'[n].bar < b
    <3> SUFFICES ASSUME NEW b \in BacktestSignals, b < scan + 1
                 PROVE  \E n \in DOMAIN signals' : signals'[n].bar = b
      BY <1>1, <1>4, <1>7
    <3>1. CASE b = scan
      BY <3>1, <1>5, <1>6
    <3>2. CASE b # scan
      <4>1. b < scan
        BY <3>2, <1>1, <1>7
      <4>2. \E n \in DOMAIN signals : signals[n].bar = b
        BY <4>1, <1>0, <1>1, <1>2, <1>3, <1>7, FactorsType DEF TakenInv
      <4> QED
        BY <4>2, <1>6
    <3> QED
      BY <3>1, <3>2
  <2> QED
    BY <2>1, <2>2, <2>3 DEF TakenInv
<1>12. TracesInv'
  <2>1. /\ traces \in Seq(ScanTrace) /\ Len(traces) + Len(signals) = scan - 1
        /\ \A b \in Bars : \/ b >= scan
                           \/ \E n \in DOMAIN traces : traces[n].bar = b
                           \/ \E n \in DOMAIN signals : signals[n].bar = b
        /\ \A n \in DOMAIN traces :
             traces[n].bar < scan /\ \A m \in DOMAIN signals : signals[m].bar # traces[n].bar
    BY <1>0, <1>1 DEF TracesInv
  <2>2. \A n \in DOMAIN traces : traces[n].bar \in Nat
    <3>1. \A n \in DOMAIN traces : traces[n] \in ScanTrace
      BY <2>1
    <3> QED
      BY <3>1, BarsAre DEF ScanTrace
  <2>3. Len(traces') + Len(signals') = scan' - 1
    <3>1. Len(traces) \in Nat /\ Len(signals) \in Nat /\ scan \in Nat
      BY <1>1, <1>2, <2>1
    <3>2. Len(signals') = Len(signals) + 1 /\ traces' = traces /\ scan' = scan + 1
      BY <1>4, <1>6
    <3>3. Len(traces) + Len(signals) = scan - 1
      BY <2>1
    <3> QED
      BY <3>1, <3>2, <3>3
  <2>4. \A b \in Bars : \/ b >= scan'
                        \/ \E n \in DOMAIN traces' : traces'[n].bar = b
                        \/ \E n \in DOMAIN signals' : signals'[n].bar = b
    <3> SUFFICES ASSUME NEW b \in Bars
                 PROVE  \/ b >= scan + 1
                        \/ \E n \in DOMAIN traces : traces[n].bar = b
                        \/ \E n \in DOMAIN signals' : signals'[n].bar = b
      BY <1>4
    <3>1. CASE b = scan
      BY <3>1, <1>5, <1>6
    <3>2. CASE b # scan
      <4>1. b >= scan => b >= scan + 1
        BY <3>2, <1>1, BarsAre
      <4>2. CASE \E n \in DOMAIN signals : signals[n].bar = b
        BY <4>2, <1>6
      <4> QED
        BY <4>1, <4>2, <2>1
    <3> QED
      BY <3>1, <3>2
  <2>5. \A n \in DOMAIN traces' :
          traces'[n].bar < scan' /\ \A m \in DOMAIN signals' : signals'[m].bar # traces'[n].bar
    <3> SUFFICES ASSUME NEW n \in DOMAIN traces
                 PROVE  /\ traces[n].bar < scan + 1
                        /\ \A m \in DOMAIN signals' : signals'[m].bar # traces[n].bar
      BY <1>4
    <3>1. traces[n].bar \in Nat /\ traces[n].bar < scan
      BY <2>1, <2>2
    <3> QED
      BY <3>1, <1>1, <1>5, <1>6, <2>1
  <2> QED
    BY <1>4, <2>1, <2>3, <2>4, <2>5 DEF TracesInv
<1>13. FateInv'
  <2>1. positions' = <<>> /\ trades' = <<>>
    BY <1>0, <1>1, <1>4 DEF ScanInv
  <2>2. DOMAIN positions' = {} /\ DOMAIN trades' = {}
    BY <2>1
  <2> QED
    BY <2>2 DEF FateInv
<1> QED
  BY <1>9, <1>10, <1>11, <1>12, <1>13 DEF TracerInv

\* All bars are scanned.
LEMMA SimulateStep == ASSUME TracerInv, Simulate PROVE TracerInv'
<1>0. /\ IInv /\ ScanInv /\ TakenInv /\ TracesInv /\ FateInv
      /\ TypeInv /\ AuditInv /\ BooksInv /\ AccountInv
  BY DEF TracerInv, IInv
<1>1. /\ phase = "scan" /\ phase' = "signal" /\ scan > LastBar
      /\ UNCHANGED <<candles, signals, k, bar, movedBe, equity, startOfDay, lastDay, positions,
                     trades, rejections, chart, scan, openPositions, traces>>
  BY DEF Simulate, inputs, day, tracer
<1>2. IInv'
  <2>1. TypeInv' /\ AuditInv' /\ BooksInv'
    BY <1>0, <1>1 DEF TypeInv, AuditInv, BooksInv
  <2>2. AccountInv'
    BY <1>0, <1>1 DEF AccountInv
  <2> QED
    BY <2>1, <2>2 DEF IInv
<1>3. scan = LastBar + 1
  BY <1>0, <1>1, BarsAre DEF ScanInv
<1>4. ScanInv'
  BY <1>0, <1>1, <1>3 DEF ScanInv
<1>5. BacktestSignals' = BacktestSignals
  BY <1>1, ChartStays
<1>6. TakenInv' /\ TracesInv' /\ FateInv'
  BY <1>0, <1>1, <1>5 DEF TakenInv, TracesInv, FateInv
<1> QED
  BY <1>2, <1>4, <1>6 DEF TracerInv

\* What a step of the simulator leaves alone, and its phases.
LEMMA SimulatorFrame ==
  ASSUME Next
  PROVE  /\ UNCHANGED <<candles, signals>>
         /\ phase \in {"signal", "manage"} /\ phase' \in {"signal", "manage", "done"}
BY DEF Next, RejectSignal, Considering, FillSignal, ManageExit, ManageMove, ManageEnds, NextSignal,
       TimeoutExit, Finish, inputs

\* An exit writes the row of its position, whose signal stays.
LEMMA ExitFates ==
  ASSUME TypeInv, FateInv, NEW n \in DOMAIN positions, NEW p \in Position,
         p.signalAt = positions[n].signalAt, NEW price \in Int, NEW at \in Bars,
         NEW reason \in {"SL", "TP", "TIMEOUT"}, Exit(n, p, price, at, reason)
  PROVE  /\ DOMAIN positions' = DOMAIN positions
         /\ \A m \in DOMAIN positions : positions'[m].signalAt = positions[m].signalAt
         /\ \A m \in DOMAIN trades' : trades'[m].signalAt = positions'[trades'[m].position].signalAt
<1>1. /\ positions \in Seq(Position) /\ trades \in Seq(Trade)
      /\ positions' \in Seq(Position) /\ Len(positions') = Len(positions)
      /\ trades' \in Seq(Trade) /\ Len(trades') = Len(trades) + 1
  BY ExitEffect DEF TypeInv
<1>2. /\ \A m \in DOMAIN positions : m # n => positions'[m] = positions[m]
      /\ positions'[n].signalAt = p.signalAt
      /\ \A m \in DOMAIN trades : trades'[m] = trades[m]
      /\ trades'[Len(trades) + 1].position = n /\ trades'[Len(trades) + 1].signalAt = p.signalAt
  BY ExitEffect
<1>3. DOMAIN positions' = DOMAIN positions
  BY <1>1
<1>4. \A m \in DOMAIN trades' : m \in DOMAIN trades \/ m = Len(trades) + 1
  BY <1>1
<1>5. \A m \in DOMAIN positions : positions'[m].signalAt = positions[m].signalAt
  BY <1>2
<1>6. \A m \in DOMAIN trades :
        /\ trades[m].position \in DOMAIN positions
        /\ trades[m].signalAt = positions[trades[m].position].signalAt
  BY DEF TypeInv, FateInv
<1>7. \A m \in DOMAIN trades' : trades'[m].signalAt = positions'[trades'[m].position].signalAt
  BY <1>2, <1>4, <1>5, <1>6
<1> QED
  BY <1>3, <1>5, <1>7

\* Positions that stay those of their signals keep their fate, as k moves on.
LEMMA FatesStay ==
  ASSUME FateInv, TypeInv, signals' = signals, DOMAIN positions' = DOMAIN positions,
         \A m \in DOMAIN positions : positions'[m].signalAt = positions[m].signalAt,
         \A m \in DOMAIN trades' : trades'[m].signalAt = positions'[trades'[m].position].signalAt,
         \/ k' = k /\ (phase = "manage" => phase' = "manage")
         \/ k' = k + 1
  PROVE  FateInv'
<1>1. signals \in Seq(Signal) /\ k \in Nat
  BY DEF TypeInv
<1>2. ASSUME NEW n \in DOMAIN positions'
      PROVE  \E j \in DOMAIN signals' : /\ positions'[n].signalAt = signals'[j].bar
                                        /\ j < k' \/ (j = k' /\ phase' = "manage")
  <2>1. PICK j \in DOMAIN signals : /\ positions[n].signalAt = signals[j].bar
                                    /\ j < k \/ (j = k /\ phase = "manage")
    BY <1>2 DEF FateInv
  <2>2. j \in Nat
    BY <1>1
  <2>3. j < k' \/ (j = k' /\ phase' = "manage")
    BY <1>1, <2>1, <2>2
  <2> QED
    BY <1>2, <2>1, <2>3
<1>3. \A m, n \in DOMAIN positions' : positions'[m].signalAt = positions'[n].signalAt => m = n
  BY DEF FateInv
<1> QED
  BY <1>2, <1>3 DEF FateInv

\* A fill is the position of the signal that run looks at.
LEMMA FillFates ==
  ASSUME TypeInv, AuditInv, TakenInv, FateInv, Considering, NEW quantity \in Quantities(signals[k]),
         FillSignal(quantity)
  PROVE  FateInv'
<1> DEFINE e == Len(positions) + 1
<1>1. /\ k' = k /\ phase = "signal" /\ phase' = "manage" /\ Len(positions') = e
      /\ \A n \in DOMAIN positions : positions'[n] = positions[n]
      /\ trades' = trades
  BY FillStep
<1>2. PICK new : positions' = Append(positions, new) /\ new.signalAt = signals[k].bar
  BY DEF FillSignal
<1>3. signals' = signals
  BY DEF FillSignal, inputs
<1>4. positions \in Seq(Position) /\ signals \in Seq(Signal) /\ k \in DOMAIN signals /\ k \in Nat
      /\ DOMAIN signals = 1 .. Len(signals) /\ Len(signals) \in Nat
  BY DEF TypeInv, Considering
<1>5. DOMAIN positions' = DOMAIN positions \cup {e} /\ positions'[e] = new
      /\ e \notin DOMAIN positions
  <2>1. positions \in Seq(Position \cup {new}) /\ Len(positions) \in Nat
        /\ DOMAIN positions = 1 .. Len(positions)
    BY <1>4
  <2> QED
    BY <1>2, <2>1
<1> HIDE DEF e
<1>6. ASSUME NEW n \in DOMAIN positions'
      PROVE  \E j \in DOMAIN signals' : /\ positions'[n].signalAt = signals'[j].bar
                                        /\ j < k' \/ (j = k' /\ phase' = "manage")
  <2>1. CASE n = e
    BY <2>1, <1>1, <1>2, <1>3, <1>4, <1>5
  <2>2. CASE n \in DOMAIN positions
    <3>1. PICK j \in DOMAIN signals : positions[n].signalAt = signals[j].bar /\ j < k
      BY <2>2, <1>1 DEF FateInv
    <3> QED
      BY <2>2, <3>1, <1>1, <1>3
  <2> QED
    BY <1>5, <1>6, <2>1, <2>2
\* An earlier position is of an earlier signal, which has another bar.
<1>7. \A n \in DOMAIN positions : positions[n].signalAt # signals[k].bar
  <2> TAKE n \in DOMAIN positions
  <2>1. PICK j \in DOMAIN signals : positions[n].signalAt = signals[j].bar /\ j < k
    BY <1>1 DEF FateInv
  <2>2. signals[j].bar < signals[k].bar
    BY <1>4, <2>1 DEF TakenInv
  <2>3. signals[k].bar \in Int /\ signals[j].bar \in Int
    <3>1. signals[k] \in Signal /\ signals[j] \in Signal
      BY <1>4
    <3> QED
      BY <3>1 DEF Signal
  <2> QED
    BY <2>1, <2>2, <2>3
<1>8. \A m, n \in DOMAIN positions' : positions'[m].signalAt = positions'[n].signalAt => m = n
  BY <1>1, <1>2, <1>5, <1>7 DEF FateInv
<1>9. \A m \in DOMAIN trades' : trades'[m].signalAt = positions'[trades'[m].position].signalAt
  <2>1. \A m \in DOMAIN trades :
          /\ trades[m].position \in DOMAIN positions
          /\ trades[m].signalAt = positions[trades[m].position].signalAt
    BY DEF TypeInv, FateInv
  <2> QED
    BY <1>1, <2>1
<1> QED
  BY <1>6, <1>8, <1>9 DEF FateInv

LEMMA FateStep == ASSUME IInv, TakenInv, FateInv, Next PROVE FateInv'
<1>0. TypeInv /\ AuditInv /\ BooksInv /\ AccountInv /\ signals' = signals
  BY SimulatorFrame DEF IInv
<1>1. ASSUME UNCHANGED <<positions, trades>>,
             \/ k' = k /\ (phase = "manage" => phase' = "manage")
             \/ k' = k + 1
      PROVE  FateInv'
  <2>1. /\ DOMAIN positions' = DOMAIN positions
        /\ \A m \in DOMAIN positions : positions'[m].signalAt = positions[m].signalAt
        /\ \A m \in DOMAIN trades' : trades'[m].signalAt = positions'[trades'[m].position].signalAt
    BY <1>1 DEF FateInv
  <2> QED
    BY <1>0, <1>1, <2>1, FatesStay
<1>2. ASSUME NEW unlucky \in Draws, RejectSignal(unlucky) PROVE FateInv'
  BY <1>1, <1>2 DEF RejectSignal
<1>3. ASSUME Considering, NEW quantity \in Quantities(signals[k]), FillSignal(quantity)
      PROVE  FateInv'
  BY <1>0, <1>3, FillFates
<1>4. CASE ManageExit
  <2> DEFINE p == Seen(candles[bar])
             n == Len(positions)
  <2>1. bar \in Bars /\ n \in DOMAIN positions /\ p \in Position /\ SamePosition(p, positions[n])
    BY <1>0, <1>4, Managed DEF ManageExit, Current
  <2>2. p.stop \in Int /\ p.target \in Int /\ p.signalAt = positions[n].signalAt
    BY <2>1 DEF Position, SamePosition
  <2>3. PICK price \in Int, reason \in {"SL", "TP", "TIMEOUT"} : Exit(n, p, price, bar, reason)
    BY <1>4, <2>2 DEF ManageExit
  <2>4. k' = k + 1
    BY <1>4 DEF ManageExit, NextSignal
  <2> HIDE DEF p, n
  <2>5. /\ DOMAIN positions' = DOMAIN positions
        /\ \A m \in DOMAIN positions : positions'[m].signalAt = positions[m].signalAt
        /\ \A m \in DOMAIN trades' : trades'[m].signalAt = positions'[trades'[m].position].signalAt
    BY <1>0, <2>1, <2>2, <2>3, ExitFates
  <2> QED
    BY <1>0, <2>4, <2>5, FatesStay
<1>5. CASE ManageMove
  <2> DEFINE c == candles[bar]
             p == Seen(c)
             n == Len(positions)
             q == Trailing(BreakEven(p, c), c)
  <2>1. /\ c \in Candle /\ n \in DOMAIN positions /\ p \in Position /\ Chained(p)
        /\ SamePosition(p, positions[n])
    BY <1>0, <1>5, Managed DEF ManageMove, Current
  <2>2. q.signalAt = positions[n].signalAt
    <3>1. BreakEven(p, c) \in Position /\ Chained(BreakEven(p, c)) /\ SamePosition(BreakEven(p, c), p)
      BY <2>1, BreakEvenKeeps
    <3>2. SamePosition(q, BreakEven(p, c))
      BY <2>1, <3>1, TrailingKeeps
    <3> QED
      BY <2>1, <3>1, <3>2 DEF SamePosition
  <2>3. positions' = [positions EXCEPT ![n] = q] /\ trades' = trades /\ k' = k /\ phase' = phase
    BY <1>5 DEF ManageMove
  <2> HIDE DEF q
  <2>4. /\ DOMAIN positions' = DOMAIN positions
        /\ \A m \in DOMAIN positions : positions'[m].signalAt = positions[m].signalAt
    BY <2>1, <2>2, <2>3
  <2>5. \A m \in DOMAIN trades' : trades'[m].signalAt = positions'[trades'[m].position].signalAt
    <3>1. \A m \in DOMAIN trades :
            /\ trades[m].position \in DOMAIN positions
            /\ trades[m].signalAt = positions[trades[m].position].signalAt
      BY <1>0 DEF TypeInv, FateInv
    <3> QED
      BY <3>1, <2>3, <2>4
  <2> QED
    BY <1>0, <2>3, <2>4, <2>5, FatesStay
<1>6. CASE ManageEnds
  BY <1>1, <1>6 DEF ManageEnds, NextSignal
<1>7. CASE TimeoutExit
  <2> DEFINE n == Min(Unclosed)
  <2>1. n \in DOMAIN positions
    BY <1>0, <1>7, FirstUnclosed DEF TimeoutExit
  <2>2. positions[n] \in Position /\ LastBar \in Bars
    BY <1>0, <2>1, BarsAre DEF TypeInv
  <2>3. candles[LastBar].close \in Int
    BY <1>0, <2>2 DEF TypeInv, Candle
  <2>4. Exit(n, positions[n], candles[LastBar].close, LastBar, "TIMEOUT")
        /\ k' = k /\ phase' = phase
    BY <1>7 DEF TimeoutExit
  <2> HIDE DEF n
  <2>5. /\ DOMAIN positions' = DOMAIN positions
        /\ \A m \in DOMAIN positions : positions'[m].signalAt = positions[m].signalAt
        /\ \A m \in DOMAIN trades' : trades'[m].signalAt = positions'[trades'[m].position].signalAt
    BY <1>0, <2>1, <2>2, <2>3, <2>4, ExitFates
  <2> QED
    BY <1>0, <2>4, <2>5, FatesStay
<1>8. CASE Finish
  BY <1>1, <1>8 DEF Finish
<1> QED
  BY <1>2, <1>3, <1>4, <1>5, <1>6, <1>7, <1>8 DEF Next

\* A step of the simulator within a trace.
LEMMA SimulatorStep == ASSUME TracerInv, Next, UNCHANGED tracer PROVE TracerInv'
<1>0. IInv /\ ScanInv /\ TakenInv /\ TracesInv /\ FateInv
  BY DEF TracerInv
<1>1. /\ UNCHANGED <<candles, signals, chart, scan, openPositions, traces>>
      /\ phase \in {"signal", "manage"} /\ phase' \in {"signal", "manage", "done"}
  BY SimulatorFrame DEF tracer
<1>2. IInv'
  BY <1>0, BooksStep
<1>3. ScanInv'
  BY <1>0, <1>1 DEF ScanInv
<1>4. BacktestSignals' = BacktestSignals
  BY <1>1, ChartStays
<1>5. TakenInv' /\ TracesInv'
  BY <1>0, <1>1, <1>4 DEF TakenInv, TracesInv
<1>6. FateInv'
  BY <1>0, FateStep
<1> QED
  BY <1>2, <1>3, <1>5, <1>6 DEF TracerInv

LEMMA MergeStep == ASSUME TracerInv, Merge PROVE TracerInv'
<1>0. /\ IInv /\ ScanInv /\ TakenInv /\ TracesInv /\ FateInv
      /\ TypeInv /\ AuditInv /\ BooksInv /\ AccountInv
  BY DEF TracerInv, IInv
<1>1. /\ phase = "done" /\ phase' = "traced"
      /\ UNCHANGED <<candles, signals, k, bar, movedBe, equity, startOfDay, lastDay, positions,
                     trades, rejections, chart, scan, openPositions>>
  BY DEF Merge, inputs, day
<1>2. IInv'
  <2>1. TypeInv' /\ AuditInv' /\ BooksInv'
    BY <1>0, <1>1 DEF TypeInv, AuditInv, BooksInv
  <2>2. AccountInv'
    BY <1>0, <1>1 DEF AccountInv
  <2> QED
    BY <2>1, <2>2 DEF IInv
<1>3. ScanInv'
  BY <1>0, <1>1 DEF ScanInv
<1>4. BacktestSignals' = BacktestSignals
  BY <1>1, ChartStays
<1>5. TakenInv' /\ TracesInv' /\ FateInv'
  BY <1>0, <1>1, <1>4 DEF TakenInv, TracesInv, FateInv
<1> QED
  BY <1>2, <1>3, <1>5 DEF TracerInv

LEMMA TraceStutter == ASSUME TracerInv, UNCHANGED traceVars PROVE TracerInv'
<1>0. IInv /\ ScanInv /\ TakenInv /\ TracesInv /\ FateInv
  BY DEF TracerInv
<1>1. UNCHANGED vars /\ UNCHANGED <<candles, signals, k, phase, positions, trades, rejections,
                                    chart, scan, openPositions, traces>>
  BY DEF traceVars, vars, inputs, tracer
<1>2. IInv'
  BY <1>0, <1>1, StutterKeeps
<1>3. BacktestSignals' = BacktestSignals
  BY <1>1, ChartStays
<1>4. ScanInv' /\ TakenInv' /\ TracesInv' /\ FateInv'
  BY <1>0, <1>1, <1>3 DEF ScanInv, TakenInv, TracesInv, FateInv
<1> QED
  BY <1>2, <1>4 DEF TracerInv

LEMMA TracerStep == TracerInv /\ [TraceNext]_traceVars => TracerInv'
<1> SUFFICES ASSUME TracerInv, [TraceNext]_traceVars PROVE TracerInv'
  OBVIOUS
<1>0. /\ IInv /\ ScanInv
      /\ openPositions = Len(signals) /\ Len(signals) \in Nat /\ Len(signals) <= MaxOpen
      /\ MaxOpen \in Nat
  BY FactorsType DEF TracerInv, IInv, TypeInv, ScanInv
<1>1. CASE EngineRejects
  <2> DEFINE code == EngineCode(EngineRefusal(Row(scan), Close(scan), chart.market))
  <2>1. code \in EngineCodes
    BY <1>1, EngineCodeType DEF EngineRejects, HasSignal
  <2>2. scan \notin BacktestSignals
    BY <1>1 DEF EngineRejects, BacktestSignals
  <2> QED
    BY <1>1, <2>1, <2>2, RefusedStep DEF EngineRejects
<1>2. CASE RiskRejects
  <2>1. RiskCode(SignalAt(scan), openPositions) \in RiskCodes
    BY <1>2, RiskCodeType DEF RiskRejects
  <2>2. scan \notin BacktestSignals \/ Len(signals) = MaxOpen
    <3>1. RiskCode(SignalAt(scan), 0) # "none" \/ ~(Len(signals) < MaxOpen)
      BY <1>0, <1>2, RiskCodeOfSlot DEF RiskRejects
    <3> QED
      BY <1>0, <3>1 DEF BacktestSignals
  <2> QED
    BY <1>2, <2>1, <2>2, RefusedStep DEF RiskRejects
<1>3. CASE Accept
  BY <1>3, AcceptStep
<1>4. CASE Simulate
  BY <1>4, SimulateStep
<1>5. CASE Next /\ UNCHANGED tracer
  BY <1>5, SimulatorStep
<1>6. CASE Merge
  BY <1>6, MergeStep
<1>7. CASE UNCHANGED traceVars
  BY <1>7, TraceStutter
<1> QED
  BY <1>1, <1>2, <1>3, <1>4, <1>5, <1>6, <1>7 DEF TraceNext

LEMMA TracerHolds == TraceSpec => []TracerInv
BY TracerStarts, TracerStep, PTL DEF TraceSpec

\* Counting every accepted signal as open for ever, the tracer follows the first
\* MaxOpen signals of the backtest it explains, and no later one, for every
\* table, every state of the risk manager and any limit of positions
\* (execution/signal_tracer.py, run_trace; backtest/engine.py, run).
THEOREM PrefixTaken == TraceSpec => []TracerTakesAPrefix
<1>1. TracerInv => TracerTakesAPrefix
  <2> SUFFICES ASSUME TracerInv, phase # "scan"
               PROVE  LET taken == {signals[n].bar : n \in DOMAIN signals}
                      IN  /\ taken \subseteq BacktestSignals /\ Len(signals) <= MaxOpen
                          /\ \A m, n \in DOMAIN signals : m < n => signals[m].bar < signals[n].bar
                          /\ \A b \in BacktestSignals \ taken :
                               Len(signals) = MaxOpen /\ \A earlier \in taken : earlier < b
    BY DEF TracerTakesAPrefix
  <2> DEFINE taken == {signals[n].bar : n \in DOMAIN signals}
  <2>1. scan = LastBar + 1 /\ Len(signals) <= MaxOpen /\ TakenInv
    BY DEF TracerInv, ScanInv
  <2>2. \A b \in BacktestSignals : ~(b >= scan)
    BY <2>1, BarsAre DEF BacktestSignals
  <2>3. taken \subseteq BacktestSignals
    BY <2>1 DEF TakenInv
  <2>4. \A b \in BacktestSignals \ taken :
          Len(signals) = MaxOpen /\ \A earlier \in taken : earlier < b
    BY <2>1, <2>2 DEF TakenInv
  <2> QED
    BY <2>1, <2>3, <2>4 DEF TakenInv
<1> QED
  BY <1>1, TracerHolds, PTL

\* The simulator has a candle, a slot, no draw and a stop on its side for every
\* signal that the tracer hands over: it refuses it for want of candles or for
\* the daily limit alone (backtest/simulator.py, run).
THEOREM RefusedForTheMarket == TraceSpec => []SimulatorRefusesForTheMarket
<1>1. TraceInit => SimulatorRefusesForTheMarket
  BY DEF TraceInit, SimulatorRefusesForTheMarket
<1>2. TracerInv /\ SimulatorRefusesForTheMarket /\ [TraceNext]_traceVars
        => SimulatorRefusesForTheMarket'
  <2> SUFFICES ASSUME TracerInv, SimulatorRefusesForTheMarket, [TraceNext]_traceVars
               PROVE  SimulatorRefusesForTheMarket'
    OBVIOUS
  <2>0. /\ IInv /\ TypeInv /\ AuditInv /\ AccountInv /\ ScanInv /\ TakenInv
    BY DEF TracerInv, IInv
  <2>1. CASE UNCHANGED rejections
    BY <2>1 DEF SimulatorRefusesForTheMarket
  <2>2. ASSUME NEW unlucky \in Draws, RejectSignal(unlucky) PROVE SimulatorRefusesForTheMarket'
    <3> DEFINE s == signals[k]
               row == [reason |-> Refusal(s, unlucky),
                       fillBar |-> IF HasFillBar(s) THEN FillBar(s) ELSE 0]
    <3>1. /\ k \in DOMAIN signals /\ s \in Signal /\ phase = "signal" /\ k \in Nat
          /\ Len(signals) \in Nat /\ Len(positions) \in Nat /\ Len(rejections) \in Nat
          /\ k <= Len(signals)
      BY <2>0, <2>2 DEF RejectSignal, Considering, TypeInv
    <3>2. unlucky = FALSE
      BY <2>2, DrawsAssumption DEF Draws
    <3>3. s.bar \in Nat \ {0}
      BY <2>0, <3>1, BarsAre DEF TakenInv, BacktestSignals
    <3>4. RiskAhead(s) \in Int /\ RiskAhead(s) > 0
      <4>1. s.side \in Sides /\ s.entry \in Int /\ s.stop \in Int
        BY <3>1 DEF Signal
      <4>2. Level(s.side, s.entry) \in Int /\ Level(s.side, s.stop) \in Int
        BY <4>1, LevelType
      <4>3. RiskAhead(s) \in Int
        BY <4>2 DEF RiskAhead
      <4> QED
        BY <2>0, <3>1, <4>3 DEF TakenInv
    <3>5. Len(positions) < MaxOpen
      <4>1. Len(rejections) + Len(positions) = k - 1
        BY <2>0, <3>1 DEF AccountInv
      <4>2. Len(signals) <= MaxOpen /\ MaxOpen \in Nat
        BY <2>0, FactorsType DEF ScanInv
      <4> QED
        BY <3>1, <4>1, <4>2
    <3>6. HasCandle(s) /\ ~(Len(positions) >= MaxOpen) /\ RiskAhead(s) # 0 /\ ~(RiskAhead(s) < 0)
      BY <3>1, <3>3, <3>4, <3>5, FactorsType DEF HasCandle
    <3>7. Refusal(s, unlucky) \in {"LATENCY_OVERFLOW", "DAILY_DD_LIMIT"}
      <4>1. Refusal(s, unlucky) # "none"
        BY <2>2 DEF RejectSignal
      <4> HIDE DEF s
      <4> QED
        BY <3>2, <3>6, <4>1 DEF Refusal
    <3>8. rejections' = Append(rejections, row) /\ row.reason = Refusal(s, unlucky)
      BY <2>2 DEF RejectSignal
    <3> HIDE DEF row, s
    <3>9. /\ \A n \in DOMAIN rejections' : n \in DOMAIN rejections \/ n = Len(rejections) + 1
          /\ \A n \in DOMAIN rejections : rejections'[n] = rejections[n]
          /\ rejections'[Len(rejections) + 1] = row
      <4>1. rejections \in Seq(Rejection \cup {row}) /\ DOMAIN rejections = 1 .. Len(rejections)
        BY <2>0 DEF TypeInv
      <4> QED
        BY <3>1, <3>8, <4>1
    <3> QED
      BY <3>7, <3>8, <3>9 DEF SimulatorRefusesForTheMarket
  <2>3. CASE Next
    <3>1. CASE Considering /\ \E quantity \in Quantities(signals[k]) : FillSignal(quantity)
      BY <2>1, <3>1 DEF FillSignal
    <3>2. CASE ManageExit \/ ManageMove \/ ManageEnds \/ TimeoutExit \/ Finish
      BY <2>1, <3>2 DEF ManageExit, ManageMove, ManageEnds, TimeoutExit, Finish
    <3> QED
      BY <2>2, <2>3, <3>1, <3>2 DEF Next
  <2>4. CASE EngineRejects \/ RiskRejects \/ Accept \/ Simulate \/ Merge \/ UNCHANGED traceVars
    BY <2>1, <2>4 DEF EngineRejects, RiskRejects, Accept, Simulate, Merge, traceVars, vars
  <2> QED
    BY <2>3, <2>4 DEF TraceNext
<1> QED
  BY <1>1, <1>2, TracerHolds, PTL DEF TraceSpec

-----------------------------------------------------------------------------
(* What the tracer merges.                                                 *)

\* The bars of the accepted signals tell them apart.
LEMMA SignalsDiffer ==
  ASSUME TypeInv, TakenInv, NEW i \in DOMAIN signals, NEW j \in DOMAIN signals,
         signals[i].bar = signals[j].bar
  PROVE  i = j
<1>1. signals \in Seq(Signal)
  BY DEF TypeInv
<1>2. i \in Nat /\ j \in Nat /\ signals[i] \in Signal /\ signals[j] \in Signal
  BY <1>1
<1>3. signals[i].bar \in Int
  BY <1>2 DEF Signal
<1>4. ~(i < j) /\ ~(j < i)
  BY <1>3 DEF TakenInv
<1> QED
  BY <1>2, <1>4

\* As many of the accepted signals have no trade as the simulator refused: a
\* position is of one signal, and has its row when run returns.
LEMMA UntradedAreRefused ==
  ASSUME TracerInv, phase = "done"
  PROVE  Cardinality({j \in DOMAIN signals : ~IsTraded(signals[j])}) = Len(rejections)
<1> DEFINE T == {j \in DOMAIN signals : IsTraded(signals[j])}
           U == {j \in DOMAIN signals : ~IsTraded(signals[j])}
           f == [n \in DOMAIN positions |->
                   CHOOSE j \in DOMAIN signals : signals[j].bar = positions[n].signalAt]
<1>0. TypeInv /\ BooksInv /\ AccountInv /\ TakenInv /\ FateInv
  BY DEF TracerInv, IInv
<1>1. /\ DOMAIN signals = 1 .. Len(signals) /\ Len(signals) \in Nat
      /\ DOMAIN positions = 1 .. Len(positions) /\ Len(positions) \in Nat
      /\ Len(rejections) \in Nat /\ k \in Nat
  BY <1>0 DEF TypeInv
<1>2. Unclosed = {} /\ k = Len(signals) + 1 /\ Len(rejections) + Len(positions) = k - 1
  BY <1>0 DEF AccountInv
<1>3. \A n \in DOMAIN positions : f[n] \in DOMAIN signals /\ signals[f[n]].bar = positions[n].signalAt
  BY <1>0 DEF FateInv
<1>4. \A n \in DOMAIN positions : \E m \in DOMAIN trades : trades[m].signalAt = positions[n].signalAt
  <2> TAKE n \in DOMAIN positions
  <2>1. PICK m \in DOMAIN trades : trades[m].position = n
    BY <1>0, <1>2 DEF Unclosed, BooksInv
  <2> QED
    BY <1>0, <2>1 DEF FateInv
<1> HIDE DEF f
<1>5. \A n \in DOMAIN positions : f[n] \in T
  BY <1>3, <1>4 DEF IsTraded
<1>6. f \in Injection(DOMAIN positions, T)
  <2>1. f \in [DOMAIN positions -> T]
    BY <1>5 DEF f
  <2>2. \A m, n \in DOMAIN positions : f[m] = f[n] => m = n
    BY <1>0, <1>3 DEF FateInv
  <2> QED
    BY <2>1, <2>2 DEF Injection, IsInjective
<1>7. f \in Surjection(DOMAIN positions, T)
  <2>1. \A j \in T : \E n \in DOMAIN positions : f[n] = j
    <3> TAKE j \in T
    <3>1. PICK m \in DOMAIN trades : trades[m].signalAt = signals[j].bar
      BY DEF IsTraded
    <3>2. /\ trades[m].position \in DOMAIN positions
          /\ positions[trades[m].position].signalAt = signals[j].bar
      BY <1>0, <3>1 DEF TypeInv, FateInv
    <3>3. f[trades[m].position] \in DOMAIN signals
          /\ signals[f[trades[m].position]].bar = signals[j].bar
      BY <1>3, <3>2
    <3> QED
      BY <1>0, <3>2, <3>3, SignalsDiffer
  <2>2. f \in [DOMAIN positions -> T]
    BY <1>5 DEF f
  <2> QED
    BY <2>1, <2>2 DEF Surjection
<1>8. IsFiniteSet(DOMAIN positions) /\ Cardinality(DOMAIN positions) = Len(positions)
      /\ IsFiniteSet(DOMAIN signals) /\ Cardinality(DOMAIN signals) = Len(signals)
  BY <1>1, SizeOfInterval
<1>9. IsFiniteSet(T) /\ Cardinality(T) = Len(positions)
  <2>1. T \subseteq DOMAIN signals
    OBVIOUS
  <2>2. IsFiniteSet(T)
    BY <1>8, <2>1, FS_Subset
  <2>3. ExistsBijection(DOMAIN positions, T)
    BY <1>6, <1>7 DEF ExistsBijection, Bijection
  <2>4. Cardinality(DOMAIN positions) = Cardinality(T)
    BY <1>8, <2>2, <2>3, FS_Bijection
  <2> QED
    BY <1>8, <2>2, <2>4
<1>10. U = DOMAIN signals \ T /\ T \in SUBSET DOMAIN signals
  OBVIOUS
<1> HIDE DEF T, U
<1>11. Cardinality(U) = Cardinality(DOMAIN signals) - Cardinality(T)
  BY <1>8, <1>10, SizeOfRest
<1>12. Cardinality(U) = Len(signals) - Len(positions)
  BY <1>8, <1>9, <1>11
<1>13. Len(signals) \in Nat /\ Len(positions) \in Nat /\ Len(rejections) \in Nat
       /\ Len(rejections) + Len(positions) = Len(signals)
  <2>1. Len(signals) \in Nat /\ Len(positions) \in Nat /\ Len(rejections) \in Nat
    BY <1>1
  <2> QED
    BY <1>2, <2>1
<1>14. Cardinality(U) = Len(rejections)
  BY <1>12, <1>13
<1> QED
  BY <1>14 DEF U

\* The merged traces: those of the refused bars, then those of the signals.
LEMMA MergedTraces ==
  ASSUME TracerInv, Merge
  PROVE  /\ traces' = traces \o Merged
         /\ Len(traces') = LastBar /\ Len(traces) \in Nat
         /\ DOMAIN traces' = 1 .. LastBar
         /\ DOMAIN traces = 1 .. Len(traces) /\ DOMAIN signals = 1 .. Len(signals)
         /\ Len(signals) \in Nat /\ Len(traces) + Len(signals) = LastBar
         /\ \A n \in DOMAIN traces : traces'[n] = traces[n] /\ traces[n] \in ScanTrace
         /\ \A j \in DOMAIN signals :
              traces'[Len(traces) + j] =
                [bar |-> signals[j].bar,
                 code |-> IF IsTraded(signals[j]) THEN "ACCEPTED_OPENED" ELSE "ACCEPTED_NOT_OPENED"]
<1>0. TypeInv /\ ScanInv /\ TakenInv /\ TracesInv
  BY DEF TracerInv, IInv
<1>1. phase = "done" /\ traces' = traces \o Merged
  BY DEF Merge
<1>2. signals \in Seq(Signal) /\ Len(signals) \in Nat /\ DOMAIN signals = 1 .. Len(signals)
  BY <1>0 DEF TypeInv
<1>3. /\ scan = LastBar + 1 /\ traces \in Seq(ScanTrace) /\ Len(traces) + Len(signals) = scan - 1
  BY <1>0, <1>1 DEF ScanInv, TracesInv
<1>4. Len(traces) \in Nat /\ DOMAIN traces = 1 .. Len(traces)
      /\ \A n \in DOMAIN traces : traces[n] \in ScanTrace
  BY <1>3
<1>5. Len(traces) + Len(signals) = LastBar
  BY <1>2, <1>3, <1>4, BarsAre
<1> DEFINE Rows == ScanTrace \cup {Merged[j] : j \in 1 .. Len(signals)}
<1>6. Merged \in [1 .. Len(signals) -> Rows]
  BY <1>2 DEF Merged
<1>7. Merged \in Seq(Rows) /\ Len(Merged) = Len(signals) /\ traces \in Seq(Rows)
  BY <1>2, <1>3, <1>6
<1>8. \A j \in DOMAIN signals :
        Merged[j] = [bar |-> signals[j].bar,
                     code |-> IF IsTraded(signals[j]) THEN "ACCEPTED_OPENED" ELSE "ACCEPTED_NOT_OPENED"]
  BY DEF Merged
<1> HIDE DEF Rows
<1>9. /\ Len(traces \o Merged) = Len(traces) + Len(signals)
      /\ DOMAIN (traces \o Merged) = 1 .. Len(traces) + Len(signals)
  BY <1>2, <1>4, <1>7
<1>10. \A n \in 1 .. Len(traces) : (traces \o Merged)[n] = traces[n]
  BY <1>4, <1>7
<1>11. \A j \in 1 .. Len(signals) : (traces \o Merged)[Len(traces) + j] = Merged[j]
  BY <1>2, <1>4, <1>7
<1> QED
  BY <1>1, <1>2, <1>4, <1>5, <1>8, <1>9, <1>10, <1>11

\* A trace of the scan has a bar that no accepted signal has, so that no row of
\* the journal is of it.
LEMMA RefusedBarsHaveNoTrade ==
  ASSUME TracerInv, phase = "done", NEW n \in DOMAIN traces, NEW m \in DOMAIN trades
  PROVE  trades[m].signalAt # traces[n].bar
<1>0. TypeInv /\ TracesInv /\ FateInv
  BY DEF TracerInv, IInv
<1>1. trades[m].position \in DOMAIN positions
      /\ trades[m].signalAt = positions[trades[m].position].signalAt
  BY <1>0 DEF TypeInv, FateInv
<1>2. PICK j \in DOMAIN signals : trades[m].signalAt = signals[j].bar
  BY <1>0, <1>1 DEF FateInv
<1> QED
  BY <1>0, <1>2 DEF TracesInv

LEMMA MergeTracesOnce == ASSUME TracerInv, Merge PROVE EveryBarIsTracedOnce'
<1> DEFINE N == Len(traces)
           M == Len(signals)
           U == {j \in DOMAIN signals : ~IsTraded(signals[j])}
           V == {n \in DOMAIN traces' : traces'[n].code = "ACCEPTED_NOT_OPENED"}
<1>0. TypeInv /\ ScanInv /\ TakenInv /\ TracesInv /\ FateInv
  BY DEF TracerInv, IInv
<1>1. /\ phase = "done" /\ phase' = "traced" /\ trades' = trades /\ rejections' = rejections
      /\ scan = LastBar + 1
  BY <1>0 DEF Merge, ScanInv
<1>2. /\ Len(traces') = LastBar /\ N \in Nat /\ M \in Nat /\ N + M = LastBar
      /\ DOMAIN traces' = 1 .. N + M /\ DOMAIN traces = 1 .. N /\ DOMAIN signals = 1 .. M
  BY MergedTraces
<1>3. /\ \A n \in DOMAIN traces : traces'[n] = traces[n] /\ traces[n] \in ScanTrace
      /\ \A j \in DOMAIN signals :
           traces'[N + j] =
             [bar |-> signals[j].bar,
              code |-> IF IsTraded(signals[j]) THEN "ACCEPTED_OPENED" ELSE "ACCEPTED_NOT_OPENED"]
  BY MergedTraces
<1>4. \A n \in DOMAIN traces :
        /\ traces'[n].bar = traces[n].bar /\ traces[n].bar \in Bars
        /\ traces'[n].code \notin {"ACCEPTED_OPENED", "ACCEPTED_NOT_OPENED"}
  BY <1>3 DEF ScanTrace, EngineCodes, RiskCodes
<1>5. \A j \in DOMAIN signals :
        /\ traces'[N + j].bar = signals[j].bar /\ signals[j].bar \in Bars
        /\ traces'[N + j].code = "ACCEPTED_OPENED" <=> IsTraded(signals[j])
        /\ traces'[N + j].code = "ACCEPTED_NOT_OPENED" <=> ~IsTraded(signals[j])
  <2> SUFFICES ASSUME NEW j \in DOMAIN signals
               PROVE  /\ traces'[N + j].bar = signals[j].bar /\ signals[j].bar \in Bars
                      /\ traces'[N + j].code = "ACCEPTED_OPENED" <=> IsTraded(signals[j])
                      /\ traces'[N + j].code = "ACCEPTED_NOT_OPENED" <=> ~IsTraded(signals[j])
    BY Zenon
  <2>1. signals[j].bar \in Bars
    BY <1>0 DEF TakenInv, BacktestSignals
  <2> DEFINE code == IF IsTraded(signals[j]) THEN "ACCEPTED_OPENED" ELSE "ACCEPTED_NOT_OPENED"
  <2>2. traces'[N + j] = [bar |-> signals[j].bar, code |-> code]
    BY <1>3
  <2> HIDE DEF N
  <2>3. traces'[N + j].bar = signals[j].bar /\ traces'[N + j].code = code
    <3> HIDE DEF code
    <3> QED
      BY <2>2
  <2>4. (code = "ACCEPTED_OPENED" <=> IsTraded(signals[j]))
        /\ (code = "ACCEPTED_NOT_OPENED" <=> ~IsTraded(signals[j]))
    OBVIOUS
  <2> QED
    BY <2>1, <2>3, <2>4
<1> HIDE DEF N, M
<1>6. ASSUME NEW n \in DOMAIN traces'
      PROVE  n \in DOMAIN traces \/ \E j \in DOMAIN signals : n = N + j
  <2>1. CASE n <= N
    BY <2>1, <1>2
  <2>2. CASE ~(n <= N)
    <3>1. n - N \in DOMAIN signals /\ n = N + (n - N)
      BY <2>2, <1>2
    <3> QED
      BY <3>1
  <2> QED
    BY <2>1, <2>2
<1>7. /\ \A n \in DOMAIN traces : n \in DOMAIN traces'
      /\ \A j \in DOMAIN signals : N + j \in DOMAIN traces' /\ N + j \notin DOMAIN traces
  BY <1>2
<1>8. {traces'[n].bar : n \in DOMAIN traces'} = Bars
  <2>1. \A n \in DOMAIN traces' : traces'[n].bar \in Bars
    BY <1>4, <1>5, <1>6
  <2>2. ASSUME NEW b \in Bars PROVE \E n \in DOMAIN traces' : traces'[n].bar = b
    <3>1. ~(b >= scan)
      BY <1>1, BarsAre
    <3>2. (\E n \in DOMAIN traces : traces[n].bar = b) \/ (\E j \in DOMAIN signals : signals[j].bar = b)
      BY <1>0, <1>1, <3>1 DEF TracesInv
    <3> QED
      BY <1>4, <1>5, <1>7, <3>2
  <2> QED
    BY <2>1, <2>2
<1>9. \A n \in DOMAIN traces' :
        traces'[n].code = "ACCEPTED_OPENED" <=>
          \E m \in DOMAIN trades' : trades'[m].signalAt = traces'[n].bar
  <2> SUFFICES ASSUME NEW n \in DOMAIN traces'
               PROVE  traces'[n].code = "ACCEPTED_OPENED" <=>
                        \E m \in DOMAIN trades : trades[m].signalAt = traces'[n].bar
    BY <1>1
  <2>1. CASE n \in DOMAIN traces
    BY <2>1, <1>1, <1>4, RefusedBarsHaveNoTrade
  <2>2. ASSUME NEW j \in DOMAIN signals, n = N + j
        PROVE  traces'[n].code = "ACCEPTED_OPENED" <=>
                 \E m \in DOMAIN trades : trades[m].signalAt = traces'[n].bar
    BY <2>2, <1>5 DEF IsTraded
  <2> QED
    BY <2>1, <2>2, <1>6
\* The traces of what the simulator refused are the images of those signals.
<1>10. Cardinality(V) = Len(rejections')
  <2> DEFINE g == [j \in U |-> N + j]
  <2>1. \A j \in U : j \in DOMAIN signals /\ g[j] = N + j
    OBVIOUS
  <2>2. \A j \in U : g[j] \in V
    BY <1>5, <1>7, <2>1
  <2>3. \A i, j \in U : g[i] = g[j] => i = j
    BY <1>2, <2>1
  <2>4. \A n \in V : \E j \in U : g[j] = n
    <3> TAKE n \in V
    <3>1. n \notin DOMAIN traces
      BY <1>4
    <3>2. PICK j \in DOMAIN signals : n = N + j
      BY <1>6, <3>1
    <3>3. j \in U
      BY <1>5, <3>2
    <3> QED
      BY <2>1, <3>2, <3>3
  <2>5. g \in [U -> V]
    <3>1. g = [j \in U |-> g[j]]
      OBVIOUS
    <3> HIDE DEF g, U, V
    <3> QED
      BY <2>2, <3>1
  <2>6. ExistsBijection(U, V)
    <3> HIDE DEF g, U, V
    <3> QED
      BY <2>3, <2>4, <2>5 DEF ExistsBijection, Bijection, Injection, Surjection, IsInjective
  <2>7. IsFiniteSet(U)
    <3>1. IsFiniteSet(DOMAIN signals) /\ U \in SUBSET DOMAIN signals
      BY <1>2, SizeOfInterval
    <3> QED
      BY <3>1, FS_Subset
  <2>8. Cardinality(U) = Len(rejections)
    BY <1>1, UntradedAreRefused
  <2> HIDE DEF U, V
  <2>9. Cardinality(V) = Cardinality(U)
    BY <2>6, <2>7, FS_Bijection
  <2> QED
    BY <1>1, <2>8, <2>9
<1>11. Len(traces') = LastBar
  BY <1>2
<1> QED
  BY <1>8, <1>9, <1>10, <1>11 DEF EveryBarIsTracedOnce

\* At the end every bar has one trace, opened exactly if the journal has its
\* trade, and as many are not opened as the simulator refused, for every table
\* and every run of the simulator (execution/signal_tracer.py, run_trace).
THEOREM EveryBarTraced == TraceSpec => []EveryBarIsTracedOnce
<1>1. TraceInit => EveryBarIsTracedOnce
  BY DEF TraceInit, EveryBarIsTracedOnce
<1>2. TracerInv /\ EveryBarIsTracedOnce /\ [TraceNext]_traceVars => EveryBarIsTracedOnce'
  <2> SUFFICES ASSUME TracerInv, EveryBarIsTracedOnce, [TraceNext]_traceVars
               PROVE  EveryBarIsTracedOnce'
    OBVIOUS
  <2>1. CASE Merge
    BY <2>1, MergeTracesOnce
  <2>2. CASE UNCHANGED traceVars
    BY <2>2 DEF EveryBarIsTracedOnce, traceVars, vars, tracer
  <2>3. CASE EngineRejects \/ RiskRejects \/ Accept \/ Simulate
    <3>1. phase' # "traced"
      BY <2>3 DEF EngineRejects, RiskRejects, Accept, Simulate, Scanning, vars
    <3> QED
      BY <3>1 DEF EveryBarIsTracedOnce
  <2>4. CASE Next /\ UNCHANGED tracer
    <3>1. phase' # "traced"
      BY <2>4, SimulatorFrame
    <3> QED
      BY <3>1 DEF EveryBarIsTracedOnce
  <2> QED
    BY <2>1, <2>2, <2>3, <2>4 DEF TraceNext
<1> QED
  BY <1>1, <1>2, TracerHolds, PTL DEF TraceSpec

-----------------------------------------------------------------------------
(* The replay of a trade.                                                  *)

HasBreakEven(p) == \E i \in DOMAIN p.audit : p.audit[i].reason = "BREAK_EVEN"

\* What is at risk from the entry to the initial stop.
InitialRiskOf(p) == Level(p.side, p.entry) - Level(p.side, p.initial)

\* The stop has moved before it breaks even.
LateBreakEven(p) == \E i \in 3 .. Len(p.audit) : p.audit[i].reason = "BREAK_EVEN"

\* CopiesDiffer, for a position of which the bars up to last have been seen.
Differs(p, last) ==
  \/ LateBreakEven(p)
  \/ Level(p.side, p.entry) <= Level(p.side, p.initial)
  \/ \E b \in p.openedAt + 1 .. last : candles[b].atr = 0

\* The replay r of p has the stop of p, has broken even if p has, and counts the
\* bars of its moves: a bar that breaks even may trail too.
Agrees(r, p) ==
  /\ r.stop = p.stop
  /\ r.movedBe <=> HasBreakEven(p)
  /\ r.updates \in Int /\ r.updates <= Len(p.audit) - 1
  /\ Len(p.audit) - 1 <= r.updates + (IF HasBreakEven(p) THEN 1 ELSE 0)

Followed(p, last) == ~Differs(p, last) => Agrees(Replay(p)[last], p)

\* What the simulator knows of a position it manages: its flag is in the audit,
\* a stop that has only trailed is no looser than the initial one, and before
\* the first move the price has not reached the break-even distance.
Knows(p, moved) ==
  /\ moved <=> HasBreakEven(p)
  /\ ~moved => Level(p.side, p.stop) >= Level(p.side, p.initial)
  /\ ~moved /\ Len(p.audit) = 1 /\ InitialRiskOf(p) > 0 =>
       p.maxFavorable = NoValue \/ p.maxFavorable < InitialRiskOf(p) * BreakEvenR

\* The replay is what its recursion says, at every bar.
LEMMA ReplayIs ==
  ASSUME NEW p, p.openedAt \in Bars
  PROVE  \A b \in 0 .. LastBar :
           Replay(p)[b] = IF b < FirstReplayed(p)
                          THEN [stop |-> p.initial, movedBe |-> FALSE, updates |-> 0]
                          ELSE ReplayBar(p, Replay(p)[b - 1], candles[b])
<1> DEFINE Step(g, b) == IF b < FirstReplayed(p)
                         THEN [stop |-> p.initial, movedBe |-> FALSE, updates |-> 0]
                         ELSE ReplayBar(p, g[b - 1], candles[b])
           G == {n \in Nat : \E g : g = [b \in 0 .. n |-> Step(g, b)]}
<1>1. FirstReplayed(p) \in Nat /\ FirstReplayed(p) > 1 /\ LastBar \in Nat
  BY BarsAre DEF FirstReplayed
<1> HIDE DEF Step
<1>2. \A g, h, b : g[b - 1] = h[b - 1] \/ b < FirstReplayed(p) => Step(g, b) = Step(h, b)
  BY DEF Step
<1>3. 0 \in G
  <2> DEFINE g == [b \in 0 .. 0 |-> Step(<<>>, b)]
  <2>1. \A b \in 0 .. 0 : Step(<<>>, b) = Step(g, b)
    BY <1>1, <1>2
  <2>2. g = [b \in 0 .. 0 |-> Step(g, b)]
    BY <2>1
  <2> QED
    BY <2>2
<1>4. ASSUME NEW n \in Nat, n \in G PROVE n + 1 \in G
  <2>1. PICK g : g = [b \in 0 .. n |-> Step(g, b)]
    BY <1>4
  <2> DEFINE h == [b \in 0 .. n + 1 |-> IF b <= n THEN g[b] ELSE Step(g, b)]
  <2>2. \A b \in 0 .. n + 1 : h[b] = Step(g, b)
    BY <2>1
  <2>3. \A b \in 0 .. n : h[b] = g[b]
    OBVIOUS
  <2> HIDE DEF h
  <2>4. \A b \in 0 .. n + 1 : Step(g, b) = Step(h, b)
    <3> TAKE b \in 0 .. n + 1
    <3>1. CASE b < FirstReplayed(p)
      BY <3>1, <1>2
    <3>2. CASE ~(b < FirstReplayed(p))
      <4>1. b - 1 \in 0 .. n
        BY <3>2, <1>1
      <4> QED
        BY <4>1, <2>3, <1>2
    <3> QED
      BY <3>1, <3>2
  <2>5. h = [b \in 0 .. n + 1 |-> Step(h, b)]
    <3>1. h = [b \in 0 .. n + 1 |-> h[b]]
      BY DEF h
    <3> QED
      BY <2>2, <2>4, <3>1
  <2> QED
    BY <2>5
<1>5. LastBar \in G
  <2> HIDE DEF G
  <2> QED
    BY <1>1, <1>3, <1>4, SetOfAllNaturals
<1>6. \E g : g = [b \in 0 .. LastBar |-> Step(g, b)]
  BY <1>5
<1>7. Replay(p) = CHOOSE g : g = [b \in 0 .. LastBar |-> Step(g, b)]
  BY DEF Replay, Step
<1>8. Replay(p) = [b \in 0 .. LastBar |-> Step(Replay(p), b)]
  BY <1>6, <1>7
<1>9. \A b \in 0 .. LastBar : Replay(p)[b] = Step(Replay(p), b)
  <2> DEFINE R == Replay(p)
  <2>1. R = [b \in 0 .. LastBar |-> Step(R, b)]
    BY <1>8
  <2> HIDE DEF R
  <2>2. \A b \in 0 .. LastBar : R[b] = Step(R, b)
    BY <2>1
  <2> QED
    BY <2>2 DEF R
<1> QED
  BY <1>9 DEF Step

\* The replay depends on what is set when a position is opened.
LEMMA ReplayOfSame ==
  ASSUME NEW p, NEW q, p.openedAt \in Bars, q.side = p.side, q.entry = p.entry,
         q.initial = p.initial, q.openedAt = p.openedAt
  PROVE  \A b \in 0 .. LastBar : Replay(q)[b] = Replay(p)[b]
<1> DEFINE G == {n \in Nat : n <= LastBar => Replay(q)[n] = Replay(p)[n]}
<1>1. FirstReplayed(p) \in Nat /\ FirstReplayed(p) > 1 /\ FirstReplayed(q) = FirstReplayed(p)
      /\ LastBar \in Nat
  BY BarsAre DEF FirstReplayed
<1>2. \A r, c : ReplayBar(q, r, c) = ReplayBar(p, r, c)
  BY DEF ReplayBar
<1>r. q.openedAt \in Bars /\ 0 \in 0 .. LastBar /\ 0 < FirstReplayed(p) /\ 0 < FirstReplayed(q)
  BY <1>1
<1>p. \A b \in 0 .. LastBar :
        Replay(p)[b] = IF b < FirstReplayed(p)
                       THEN [stop |-> p.initial, movedBe |-> FALSE, updates |-> 0]
                       ELSE ReplayBar(p, Replay(p)[b - 1], candles[b])
  BY ReplayIs
<1>q. \A b \in 0 .. LastBar :
        Replay(q)[b] = IF b < FirstReplayed(q)
                       THEN [stop |-> q.initial, movedBe |-> FALSE, updates |-> 0]
                       ELSE ReplayBar(q, Replay(q)[b - 1], candles[b])
  BY <1>r, ReplayIs
<1>3. 0 \in G
  <2>1. Replay(p)[0] = [stop |-> p.initial, movedBe |-> FALSE, updates |-> 0]
    BY <1>r, <1>p
  <2>2. Replay(q)[0] = [stop |-> q.initial, movedBe |-> FALSE, updates |-> 0]
    BY <1>r, <1>q
  <2> QED
    BY <2>1, <2>2
<1>4. ASSUME NEW n \in Nat, n \in G PROVE n + 1 \in G
  <2> SUFFICES ASSUME n + 1 <= LastBar PROVE Replay(q)[n + 1] = Replay(p)[n + 1]
    BY <1>4
  <2>1. Replay(q)[n] = Replay(p)[n] /\ n + 1 \in 0 .. LastBar /\ (n + 1) - 1 = n
    BY <1>1, <1>4
  <2>2. CASE n + 1 < FirstReplayed(p)
    BY <1>1, <2>1, <2>2, <1>p, <1>q
  <2>3. CASE ~(n + 1 < FirstReplayed(p))
    <3>1. Replay(q)[n + 1] = ReplayBar(q, Replay(q)[n], candles[n + 1])
      BY <1>1, <2>1, <2>3, <1>q
    <3>2. Replay(p)[n + 1] = ReplayBar(p, Replay(p)[n], candles[n + 1])
      BY <1>1, <2>1, <2>3, <1>p
    <3> QED
      BY <1>2, <2>1, <3>1, <3>2
  <2> QED
    BY <2>2, <2>3
<1>5. \A n \in Nat : n \in G
  <2> HIDE DEF G
  <2> QED
    BY <1>3, <1>4, SetOfAllNaturals
<1> QED
  BY <1>1, <1>5
\* A move of the stop is one more entry of the audit.
LEMMA MoveAdds ==
  ASSUME NEW p \in Position, NEW new \in Int, NEW reason \in {"BREAK_EVEN", "TRAILING"},
         NEW q, q = [p EXCEPT !.stop = new, !.audit = Append(@, Audit(p.stop, new, reason))]
  PROVE  /\ Len(q.audit) = Len(p.audit) + 1 /\ q.stop = new
         /\ q.maxFavorable = p.maxFavorable
         /\ HasBreakEven(q) <=> HasBreakEven(p) \/ reason = "BREAK_EVEN"
         /\ LateBreakEven(p) => LateBreakEven(q)
         /\ reason = "BREAK_EVEN" /\ Len(p.audit) >= 2 => LateBreakEven(q)
<1> DEFINE a == p.audit
           row == Audit(p.stop, new, reason)
<1>1. row \in AuditEntry /\ row.reason = reason
  BY DEF Audit, AuditEntry, Position
<1>2. a \in Seq(AuditEntry) /\ q.audit = Append(a, row) /\ q.stop = new /\ q.maxFavorable = p.maxFavorable
  BY DEF Position
<1> HIDE DEF a, row
<1>3. Len(a) \in Nat /\ DOMAIN a = 1 .. Len(a) /\ Len(q.audit) = Len(a) + 1
      /\ DOMAIN q.audit = 1 .. Len(a) + 1 /\ q.audit[Len(a) + 1] = row
      /\ \A i \in 1 .. Len(a) : q.audit[i] = a[i]
  BY <1>1, <1>2
<1>4. HasBreakEven(p) <=> \E i \in 1 .. Len(a) : a[i].reason = "BREAK_EVEN"
  BY <1>3 DEF HasBreakEven, a
<1>5. HasBreakEven(q) <=> \E i \in 1 .. Len(a) + 1 : q.audit[i].reason = "BREAK_EVEN"
  BY <1>3 DEF HasBreakEven
<1>6. HasBreakEven(q) <=> HasBreakEven(p) \/ reason = "BREAK_EVEN"
  <2>1. ASSUME NEW i \in 1 .. Len(a) + 1, q.audit[i].reason = "BREAK_EVEN"
        PROVE  HasBreakEven(p) \/ reason = "BREAK_EVEN"
    <3>1. i \in 1 .. Len(a) \/ i = Len(a) + 1
      BY <1>3
    <3> QED
      BY <2>1, <3>1, <1>1, <1>3, <1>4
  <2>2. HasBreakEven(p) => HasBreakEven(q)
    <3>1. \A i \in 1 .. Len(a) : i \in 1 .. Len(a) + 1
      BY <1>3
    <3> QED
      BY <3>1, <1>3, <1>4, <1>5
  <2>3. reason = "BREAK_EVEN" => HasBreakEven(q)
    <3>1. Len(a) + 1 \in 1 .. Len(a) + 1
      BY <1>3
    <3> QED
      BY <3>1, <1>1, <1>3, <1>5
  <2> QED
    BY <2>1, <2>2, <2>3, <1>5
<1>7. LateBreakEven(p) => LateBreakEven(q)
  <2>1. \A i \in 3 .. Len(a) : i \in 1 .. Len(a) /\ i \in 3 .. Len(a) + 1
    BY <1>3
  <2> QED
    BY <2>1, <1>3 DEF LateBreakEven, a
<1>8. reason = "BREAK_EVEN" /\ Len(a) >= 2 => LateBreakEven(q)
  <2>1. Len(a) >= 2 => Len(a) + 1 \in 3 .. Len(a) + 1
    BY <1>3
  <2> QED
    BY <2>1, <1>1, <1>3 DEF LateBreakEven
<1> QED
  BY <1>2, <1>3, <1>6, <1>7, <1>8 DEF a

\* The trailing stop of a bar, of the simulator and of the replay.
TrailOf(p, c) == Favorable(p.side, c) - Direction(p.side) * TrailMult * c.atr

LEMMA TrailType ==
  ASSUME NEW p \in Position, NEW c \in Candle, c.atr # NoValue PROVE TrailOf(p, c) \in Int
BY FactorsType DEF TrailOf, Favorable, Direction, Candle, Position

\* What trailing does to a position.
LEMMA TrailingAdds ==
  ASSUME NEW p \in Position, NEW c \in Candle, NEW q, q = Trailing(p, c)
  PROVE  /\ q.maxFavorable = p.maxFavorable
         /\ HasBreakEven(q) <=> HasBreakEven(p)
         /\ LateBreakEven(p) => LateBreakEven(q)
         /\ \/ /\ c.atr # NoValue /\ Level(p.side, TrailOf(p, c)) > Level(p.side, p.stop)
               /\ q.stop = TrailOf(p, c) /\ Len(q.audit) = Len(p.audit) + 1
            \/ /\ ~(c.atr # NoValue /\ Level(p.side, TrailOf(p, c)) > Level(p.side, p.stop))
               /\ q = p
<1>1. CASE c.atr # NoValue /\ Level(p.side, TrailOf(p, c)) > Level(p.side, p.stop)
  <2>1. q = [p EXCEPT !.stop = TrailOf(p, c), !.audit = Append(@, Audit(p.stop, TrailOf(p, c), "TRAILING"))]
    BY <1>1 DEF Trailing, TrailOf
  <2>2. TrailOf(p, c) \in Int
    BY <1>1, TrailType
  <2>3. /\ Len(q.audit) = Len(p.audit) + 1 /\ q.stop = TrailOf(p, c)
        /\ q.maxFavorable = p.maxFavorable
        /\ HasBreakEven(q) <=> HasBreakEven(p) \/ "TRAILING" = "BREAK_EVEN"
        /\ LateBreakEven(p) => LateBreakEven(q)
    <3>a. Audit(p.stop, TrailOf(p, c), "TRAILING") \in AuditEntry
      BY <2>2 DEF Audit, AuditEntry, Position
    <3>b. p.audit \in Seq(AuditEntry) /\ q.audit = Append(p.audit, Audit(p.stop, TrailOf(p, c), "TRAILING"))
      BY <2>1 DEF Position
    <3>1. Len(q.audit) = Len(p.audit) + 1
      BY <3>a, <3>b
    <3>2. q.stop = TrailOf(p, c) /\ q.maxFavorable = p.maxFavorable
      BY <2>1 DEF Position
    <3>3. HasBreakEven(q) <=> HasBreakEven(p) \/ "TRAILING" = "BREAK_EVEN"
      BY <2>1, <2>2, MoveAdds
    <3>4. LateBreakEven(p) => LateBreakEven(q)
      BY <2>1, <2>2, MoveAdds
    <3> QED
      BY <3>1, <3>2, <3>3, <3>4
  <2> QED
    BY <1>1, <2>3
<1>2. CASE ~(c.atr # NoValue /\ Level(p.side, TrailOf(p, c)) > Level(p.side, p.stop))
  <2>1. q = p
    BY <1>2 DEF Trailing, TrailOf
  <2> QED
    BY <1>2, <2>1
<1> QED
  BY <1>1, <1>2

\* What breaking even does to a position.
LEMMA BreakEvenAdds ==
  ASSUME NEW p \in Position, NEW c \in Candle, NEW q, q = BreakEven(p, c)
  PROVE  /\ q.maxFavorable = p.maxFavorable
         /\ HasBreakEven(q) <=> HasBreakEven(p) \/ ReachesBreakEven(p, c)
         /\ LateBreakEven(p) => LateBreakEven(q)
         /\ ReachesBreakEven(p, c) /\ Len(p.audit) >= 2 => LateBreakEven(q)
         /\ ReachesBreakEven(p, c) => q.stop = p.entry /\ Len(q.audit) = Len(p.audit) + 1
         /\ ~ReachesBreakEven(p, c) => q = p
<1>1. CASE ReachesBreakEven(p, c)
  <2>1. q = [p EXCEPT !.stop = p.entry, !.audit = Append(@, Audit(p.stop, p.entry, "BREAK_EVEN"))]
    BY <1>1 DEF BreakEven
  <2>2. p.entry \in Int
    BY DEF Position
  <2>3. /\ Len(q.audit) = Len(p.audit) + 1 /\ q.stop = p.entry
        /\ q.maxFavorable = p.maxFavorable
        /\ HasBreakEven(q) <=> HasBreakEven(p) \/ "BREAK_EVEN" = "BREAK_EVEN"
        /\ LateBreakEven(p) => LateBreakEven(q)
        /\ "BREAK_EVEN" = "BREAK_EVEN" /\ Len(p.audit) >= 2 => LateBreakEven(q)
    BY <2>1, <2>2, MoveAdds
  <2> QED
    BY <1>1, <2>3
<1>2. CASE ~ReachesBreakEven(p, c)
  <2>1. q = p
    BY <1>2 DEF BreakEven
  <2> QED
    BY <1>2, <2>1
<1> QED
  BY <1>1, <1>2
LEMMA ProductsGrow ==
  ASSUME NEW a \in Int, NEW b \in Int, a <= b, NEW r \in Nat PROVE a * r <= b * r
BY SMT

LEMMA LessThanTwo == \A n \in Nat : n >= 1 /\ ~(n >= 2) => n = 1
BY SMT

LEMMA ProductIsPositive ==
  ASSUME NEW a \in Int, a > 0, NEW r \in Nat, r > 0 PROVE a * r > 0
BY SMT

\* The favorable distance of a bar, and the greatest one with it.
FavorableOf(p, c) == Level(p.side, Favorable(p.side, c)) - Level(p.side, p.entry)

LEMMA FavorableType ==
  ASSUME NEW p \in Position, NEW c \in Candle
  PROVE  /\ FavorableOf(p, c) \in Int
         /\ Level(p.side, p.stop) \in Int /\ Level(p.side, p.entry) \in Int
         /\ Level(p.side, p.initial) \in Int
<1>1. p.side \in Sides /\ p.entry \in Int /\ p.stop \in Int /\ p.initial \in Int
  BY DEF Position
<1>2. Favorable(p.side, c) \in Int
  BY DEF Favorable, Candle
<1> QED
  BY <1>1, <1>2, LevelType DEF FavorableOf

LEMMA MaximumIs ==
  ASSUME NEW p \in Position, NEW c \in Candle,
         NEW q, q = [p EXCEPT !.maxFavorable = MaxFavorable(p, c)]
  PROVE  /\ q \in Position /\ q.maxFavorable = MaxFavorable(p, c)
         /\ MaxFavorable(p, c) \in Int /\ MaxFavorable(p, c) >= FavorableOf(p, c)
         /\ MaxFavorable(p, c) = FavorableOf(p, c) \/ MaxFavorable(p, c) = p.maxFavorable
         /\ MaxFavorable(q, c) = MaxFavorable(p, c)
<1>1. FavorableOf(p, c) \in Int /\ p.maxFavorable \in Int \cup {NoValue} /\ NoValue \notin Int
  BY FavorableType, FactorsType DEF Position
<1>2. MaxFavorable(p, c) = IF p.maxFavorable \in {NoValue, 0} \/ FavorableOf(p, c) >= p.maxFavorable
                           THEN FavorableOf(p, c) ELSE p.maxFavorable
  BY DEF MaxFavorable, FavorableOf
<1>3. /\ MaxFavorable(p, c) \in Int /\ MaxFavorable(p, c) >= FavorableOf(p, c)
      /\ MaxFavorable(p, c) = FavorableOf(p, c) \/ MaxFavorable(p, c) = p.maxFavorable
  BY <1>1, <1>2
<1>4. q \in Position /\ q.maxFavorable = MaxFavorable(p, c) /\ q.side = p.side /\ q.entry = p.entry
  BY <1>3 DEF Position
<1>5. MaxFavorable(q, c) = IF q.maxFavorable \in {NoValue, 0} \/ FavorableOf(p, c) >= q.maxFavorable
                           THEN FavorableOf(p, c) ELSE q.maxFavorable
  BY <1>4 DEF MaxFavorable, FavorableOf
<1>6. MaxFavorable(q, c) = MaxFavorable(p, c)
  BY <1>1, <1>2, <1>4, <1>5
<1> QED
  BY <1>3, <1>4, <1>6

\* A bar breaks even in both copies or in neither, unless the stop moved before.
LEMMA BothBreakEven ==
  ASSUME NEW p \in Position, Chained(p), NEW c \in Candle, Knows(p, movedBe), InitialRiskOf(p) > 0,
         NEW s, s = [p EXCEPT !.maxFavorable = MaxFavorable(p, c)]
  PROVE  /\ ~movedBe /\ FavorableOf(p, c) >= InitialRiskOf(p) * BreakEvenR => ReachesBreakEven(s, c)
         /\ ReachesBreakEven(s, c) =>
              \/ FavorableOf(p, c) >= InitialRiskOf(p) * BreakEvenR
              \/ Len(p.audit) >= 2
         /\ ~movedBe /\ Len(p.audit) = 1 /\ ~ReachesBreakEven(s, c) =>
              MaxFavorable(p, c) < InitialRiskOf(p) * BreakEvenR
<1> DEFINE m == MaxFavorable(p, c)
           fav == FavorableOf(p, c)
           left == Level(p.side, p.entry) - Level(p.side, p.stop)
           risk == InitialRiskOf(p)
           R == BreakEvenR
<1>1. fav \in Int /\ left \in Int /\ risk \in Int /\ R \in Nat /\ R > 0 /\ risk > 0
      /\ NoValue \notin Int
  BY FavorableType, FactorsType, ReplayAssumption DEF InitialRiskOf
<1>2. m \in Int /\ m >= fav /\ (m = fav \/ m = p.maxFavorable) /\ MaxFavorable(s, c) = m
  BY MaximumIs
<1>3. s.side = p.side /\ s.entry = p.entry /\ s.stop = p.stop
  BY DEF Position
<1>4. ReachesBreakEven(s, c) <=> ~movedBe /\ m # 0 /\ m >= left * R
  BY <1>2, <1>3 DEF ReachesBreakEven
<1>5. Len(p.audit) = 1 => left = risk
  BY DEF Chained, InitialRiskOf, Audit
<1>6. ~movedBe => left <= risk
  <2>1. ~movedBe => Level(p.side, p.stop) >= Level(p.side, p.initial)
    BY DEF Knows
  <2> QED
    BY <2>1, FavorableType DEF InitialRiskOf
<1>7. ~movedBe /\ Len(p.audit) = 1 => p.maxFavorable = NoValue \/ p.maxFavorable < risk * R
  BY <1>1 DEF Knows
<1>8. risk * R > 0 /\ risk * R \in Int /\ left * R \in Int
  BY <1>1, ProductIsPositive
<1>9. Len(p.audit) >= 1 /\ Len(p.audit) \in Nat
  BY DEF Chained, Position
<1> HIDE DEF m, fav, left, risk, R
<1>10. ~movedBe => left * R <= risk * R
  BY <1>1, <1>6, ProductsGrow
<1>11. ~movedBe /\ fav >= risk * R => ReachesBreakEven(s, c)
  BY <1>1, <1>2, <1>4, <1>8, <1>10
<1>12. ASSUME ReachesBreakEven(s, c), ~(Len(p.audit) >= 2) PROVE fav >= risk * R
  <2>1. Len(p.audit) = 1
    BY <1>12, <1>9, LessThanTwo, Zenon
  <2>2. left = risk
    BY <2>1, <1>5
  <2>3. ~movedBe /\ m >= left * R
    BY <1>12, <1>4
  <2>4. m >= risk * R
    BY <2>2, <2>3
  <2> QED
    BY <2>1, <2>3, <2>4, <1>1, <1>2, <1>7, <1>8
<1>13. ASSUME ~movedBe, Len(p.audit) = 1, ~ReachesBreakEven(s, c) PROVE m < risk * R
  BY <1>13, <1>2, <1>4, <1>5, <1>8
<1> QED
  BY <1>11, <1>12, <1>13 DEF m, fav, risk, R

\* A bar that moves the stop leaves what the simulator knows true.
LEMMA MoveKnows ==
  ASSUME NEW p \in Position, Chained(p), NEW c \in Candle, Knows(p, movedBe),
         NEW s, s = [p EXCEPT !.maxFavorable = MaxFavorable(p, c)],
         NEW b, b = BreakEven(s, c), NEW q, q = Trailing(b, c)
  PROVE  Knows(q, movedBe \/ ReachesBreakEven(s, c))
<1>1. /\ s \in Position /\ Chained(s) /\ s.maxFavorable = MaxFavorable(p, c)
      /\ s.side = p.side /\ s.entry = p.entry /\ s.initial = p.initial /\ s.stop = p.stop
      /\ s.audit = p.audit
  <2>1. s \in Position /\ s.maxFavorable = MaxFavorable(p, c)
    BY MaximumIs
  <2>2. s.side = p.side /\ s.entry = p.entry /\ s.initial = p.initial /\ s.stop = p.stop
        /\ s.audit = p.audit
    BY DEF Position
  <2> QED
    BY <2>1, <2>2 DEF Chained
<1>2. b \in Position /\ Chained(b) /\ b.side = p.side /\ b.initial = p.initial /\ b.entry = p.entry
  BY <1>1, BreakEvenKeeps DEF SamePosition
<1>3. q \in Position /\ q.side = p.side /\ q.initial = p.initial /\ q.entry = p.entry
  BY <1>2, TrailingKeeps DEF SamePosition
<1>4. /\ HasBreakEven(b) <=> HasBreakEven(s) \/ ReachesBreakEven(s, c)
      /\ ~ReachesBreakEven(s, c) => b = s
  BY <1>1, BreakEvenAdds
<1>5. /\ HasBreakEven(q) <=> HasBreakEven(b)
      /\ \/ /\ Level(b.side, TrailOf(b, c)) > Level(b.side, b.stop)
            /\ c.atr # NoValue
            /\ q.stop = TrailOf(b, c) /\ Len(q.audit) = Len(b.audit) + 1
         \/ q = b
  BY <1>2, TrailingAdds
<1>6. HasBreakEven(s) <=> HasBreakEven(p)
  BY <1>1 DEF HasBreakEven
<1>7. movedBe \/ ReachesBreakEven(s, c) <=> HasBreakEven(q)
  BY <1>4, <1>5, <1>6 DEF Knows
<1>8. ASSUME ~movedBe, ~ReachesBreakEven(s, c)
      PROVE  Level(q.side, q.stop) >= Level(q.side, q.initial)
  <2>1. b = s /\ Level(p.side, p.stop) >= Level(p.side, p.initial)
    BY <1>4, <1>8 DEF Knows
  <2>2. Level(p.side, s.stop) \in Int /\ Level(p.side, p.initial) \in Int
    BY <1>1, FavorableType
  <2>3. CASE q = b
    BY <2>1, <2>3, <1>1
  <2>4. CASE q # b
    <3>1. Level(b.side, TrailOf(b, c)) \in Int
      BY <2>4, <1>2, <1>5, TrailType, LevelType DEF Position
    <3>2. q.stop = TrailOf(b, c) /\ b.side = p.side /\ b.stop = p.stop
          /\ Level(b.side, TrailOf(b, c)) > Level(b.side, b.stop)
      BY <2>1, <2>4, <1>1, <1>2, <1>5
    <3>3. Level(p.side, q.stop) > Level(p.side, p.stop) /\ Level(p.side, q.stop) \in Int
      BY <3>1, <3>2
    <3>4. Level(p.side, p.stop) \in Int /\ Level(p.side, p.stop) >= Level(p.side, p.initial)
      BY <2>1, <2>2, <1>1
    <3>5. Level(p.side, q.stop) >= Level(p.side, p.initial)
      BY <2>2, <3>3, <3>4
    <3> QED
      BY <3>5, <1>3
  <2> QED
    BY <2>3, <2>4
<1>9. ASSUME ~movedBe, ~ReachesBreakEven(s, c), Len(q.audit) = 1, InitialRiskOf(q) > 0
      PROVE  q.maxFavorable < InitialRiskOf(q) * BreakEvenR
  <2>1. b = s /\ InitialRiskOf(q) = InitialRiskOf(p)
    BY <1>3, <1>4, <1>9 DEF InitialRiskOf
  <2>2. Len(b.audit) >= 1 /\ Len(b.audit) \in Nat
    BY <1>2 DEF Chained, Position
  <2>6. \A n \in Nat : n >= 1 => 1 # n + 1
    OBVIOUS
  <2>5. Len(q.audit) # Len(b.audit) + 1
    BY <2>2, <2>6, <1>9, Zenon
  <2>3. q = s
    BY <2>1, <2>5, <1>5
  <2>4. Len(p.audit) = 1
    BY <2>3, <1>1, <1>9
  <2> QED
    BY <2>1, <2>3, <2>4, <1>1, <1>9, BothBreakEven
<1> QED
  BY <1>7, <1>8, <1>9 DEF Knows

\* One bar: the replay does what the simulator does.
LEMMA BarFollows ==
  ASSUME NEW p \in Position, Chained(p), NEW c \in Candle, Knows(p, movedBe), InitialRiskOf(p) > 0,
         c.atr # 0, NEW r, Agrees(r, p),
         NEW s, s = [p EXCEPT !.maxFavorable = MaxFavorable(p, c)],
         NEW b, b = BreakEven(s, c), NEW q, q = Trailing(b, c), ~LateBreakEven(q)
  PROVE  Agrees(ReplayBar(p, r, c), q)
<1> DEFINE risk == IF p.entry > p.initial THEN p.entry - p.initial ELSE p.initial - p.entry
           breaksEven == ~r.movedBe /\ FavorableOf(p, c) >= risk * BreakEvenR
           stop == IF breaksEven THEN Tighter(p.side, r.stop, p.entry) ELSE r.stop
           new == IF c.atr \in {NoValue, 0} THEN stop ELSE Tighter(p.side, stop, TrailOf(p, c))
           updates == IF new = r.stop THEN r.updates ELSE r.updates + 1
<1>1. ReplayBar(p, r, c) = [stop |-> new, movedBe |-> r.movedBe \/ breaksEven, updates |-> updates]
  BY ReplayAssumption DEF ReplayBar, FavorableOf, TrailOf
<1>2. risk = InitialRiskOf(p)
  BY DEF InitialRiskOf, Level, Direction, Position, Sides
<1>3. r.stop = p.stop /\ (r.movedBe <=> movedBe)
  BY DEF Agrees, Knows
<1>4. /\ s \in Position /\ Chained(s)
      /\ s.side = p.side /\ s.entry = p.entry /\ s.stop = p.stop /\ s.audit = p.audit
  <2>1. s \in Position
    BY MaximumIs
  <2>2. s.side = p.side /\ s.entry = p.entry /\ s.initial = p.initial /\ s.stop = p.stop
        /\ s.audit = p.audit
    BY DEF Position
  <2> QED
    BY <2>1, <2>2 DEF Chained
<1>5. b \in Position /\ b.side = p.side
  BY <1>4, BreakEvenKeeps DEF SamePosition
<1>6. /\ HasBreakEven(b) <=> HasBreakEven(p) \/ ReachesBreakEven(s, c)
      /\ ReachesBreakEven(s, c) /\ Len(p.audit) >= 2 => LateBreakEven(b)
      /\ ReachesBreakEven(s, c) => b.stop = p.entry /\ Len(b.audit) = Len(p.audit) + 1
      /\ ~ReachesBreakEven(s, c) => b = s
  <2>1. /\ HasBreakEven(b) <=> HasBreakEven(s) \/ ReachesBreakEven(s, c)
        /\ ReachesBreakEven(s, c) /\ Len(s.audit) >= 2 => LateBreakEven(b)
        /\ ReachesBreakEven(s, c) => b.stop = s.entry /\ Len(b.audit) = Len(s.audit) + 1
        /\ ~ReachesBreakEven(s, c) => b = s
    <3> USE BreakEvenAdds
    <3>1. HasBreakEven(b) <=> HasBreakEven(s) \/ ReachesBreakEven(s, c)
      BY <1>4
    <3>2. ReachesBreakEven(s, c) /\ Len(s.audit) >= 2 => LateBreakEven(b)
      BY <1>4
    <3>3. ReachesBreakEven(s, c) => b.stop = s.entry /\ Len(b.audit) = Len(s.audit) + 1
      BY <1>4
    <3>4. ~ReachesBreakEven(s, c) => b = s
      BY <1>4
    <3> QED
      BY <3>1, <3>2, <3>3, <3>4
  <2>2. HasBreakEven(s) <=> HasBreakEven(p)
    BY <1>4 DEF HasBreakEven
  <2> QED
    BY <2>1, <2>2, <1>4
<1>7. /\ HasBreakEven(q) <=> HasBreakEven(b)
      /\ LateBreakEven(b) => LateBreakEven(q)
      /\ \/ /\ c.atr # NoValue /\ Level(b.side, TrailOf(b, c)) > Level(b.side, b.stop)
            /\ q.stop = TrailOf(b, c) /\ Len(q.audit) = Len(b.audit) + 1
         \/ /\ ~(c.atr # NoValue /\ Level(b.side, TrailOf(b, c)) > Level(b.side, b.stop))
            /\ q = b
  BY <1>5, TrailingAdds
<1>8. TrailOf(b, c) = TrailOf(p, c)
  BY <1>5 DEF TrailOf
<1>9. Len(p.audit) \in Nat /\ Len(p.audit) >= 1
  BY DEF Chained, Position
<1>10. breaksEven <=> ReachesBreakEven(s, c)
  <2>1. ~movedBe /\ FavorableOf(p, c) >= InitialRiskOf(p) * BreakEvenR => ReachesBreakEven(s, c)
    BY BothBreakEven
  <2>2. ReachesBreakEven(s, c) => FavorableOf(p, c) >= InitialRiskOf(p) * BreakEvenR
    BY <1>6, <1>7, BothBreakEven
  <2>3. ReachesBreakEven(s, c) => ~movedBe
    BY DEF ReachesBreakEven
  <2> QED
    BY <2>1, <2>2, <2>3, <1>2, <1>3
<1>11. ReachesBreakEven(s, c) =>
         /\ Len(p.audit) = 1 /\ ~HasBreakEven(p) /\ p.stop = p.initial
  <2>0. ReachesBreakEven(s, c) => ~(Len(p.audit) >= 2)
    BY <1>6, <1>7
  <2>1. ReachesBreakEven(s, c) => Len(p.audit) = 1
    BY <2>0, <1>9, LessThanTwo, Zenon
  <2>2. ReachesBreakEven(s, c) => ~HasBreakEven(p)
    BY DEF ReachesBreakEven, Knows
  <2> QED
    BY <2>1, <2>2 DEF Chained, Audit
<1>12. Level(p.side, p.entry) > Level(p.side, p.initial)
       /\ Level(p.side, p.stop) \in Int /\ Level(p.side, p.entry) \in Int /\ Level(p.side, p.initial) \in Int
  BY FavorableType DEF InitialRiskOf
<1>13. stop = b.stop
  <2>1. CASE breaksEven
    <3>1. ~(Level(p.side, r.stop) >= Level(p.side, p.entry))
      BY <2>1, <1>3, <1>10, <1>11, <1>12
    <3> QED
      BY <2>1, <3>1, <1>6, <1>10 DEF Tighter
  <2>2. CASE ~breaksEven
    BY <2>2, <1>3, <1>4, <1>6, <1>10
  <2> QED
    BY <2>1, <2>2
<1>14. Level(p.side, b.stop) \in Int /\ (c.atr # NoValue => Level(p.side, TrailOf(p, c)) \in Int)
  BY <1>5, TrailType, LevelType DEF Position
<1> HIDE DEF stop
<1>15. new = q.stop
  <2>1. CASE c.atr = NoValue
    BY <2>1, <1>7, <1>13
  <2>2. CASE c.atr # NoValue
    <3>1. new = IF Level(p.side, b.stop) >= Level(p.side, TrailOf(p, c)) THEN b.stop ELSE TrailOf(p, c)
      BY <2>2, <1>13 DEF Tighter
    <3> QED
      BY <2>2, <3>1, <1>5, <1>7, <1>8, <1>14
  <2> QED
    BY <2>1, <2>2
<1> HIDE DEF new, breaksEven
<1>16. updates \in Int /\ updates <= Len(q.audit) - 1
       /\ Len(q.audit) - 1 <= updates + (IF HasBreakEven(q) THEN 1 ELSE 0)
  <2>1. /\ r.updates \in Int /\ r.updates <= Len(p.audit) - 1
        /\ Len(p.audit) - 1 <= r.updates + (IF HasBreakEven(p) THEN 1 ELSE 0)
    BY DEF Agrees
  <2>2. \/ /\ Level(p.side, q.stop) > Level(p.side, b.stop) /\ Len(q.audit) = Len(b.audit) + 1
           /\ Level(p.side, q.stop) \in Int
        \/ q = b
    BY <1>5, <1>7, <1>8, <1>14
  <2>3. CASE ReachesBreakEven(s, c)
    <3>a. /\ b.stop = p.entry /\ Len(b.audit) = Len(p.audit) + 1
          /\ Len(p.audit) = 1 /\ ~HasBreakEven(p) /\ p.stop = p.initial
      BY <2>3, <1>6, <1>11
    <3>b. Len(b.audit) = 2 /\ r.updates = 0
      BY <2>1, <3>a
    <3>c. Level(p.side, b.stop) > Level(p.side, r.stop) /\ Level(p.side, r.stop) \in Int
      BY <3>a, <1>3, <1>12
    <3>1. Level(p.side, b.stop) > Level(p.side, r.stop) /\ Len(b.audit) = 2 /\ r.updates = 0
      BY <3>b, <3>c
    <3>d. ASSUME q.stop = r.stop PROVE FALSE
      <4>1. CASE q = b
        BY <4>1, <3>c, <3>d
      <4>2. CASE q # b
        BY <4>2, <2>2, <3>c, <3>d, <1>14
      <4> QED
        BY <4>1, <4>2
    <3>2. q.stop # r.stop
      BY <3>d
    <3>3. updates = 1
      BY <3>1, <3>2, <1>15
    <3>4. Len(q.audit) \in {2, 3} /\ HasBreakEven(q)
      <4>1. HasBreakEven(q)
        BY <2>3, <1>6, <1>7
      <4>2. Len(q.audit) = Len(b.audit) + 1 \/ q = b
        BY <2>2
      <4>3. Len(q.audit) = 2 + 1 \/ Len(q.audit) = 2
        BY <4>2, <3>1
      <4> QED
        BY <4>1, <4>3
    <3> HIDE DEF updates
    <3> DEFINE n == Len(q.audit)
                once == IF HasBreakEven(q) THEN 1 ELSE 0
    <3>5. once = 1 /\ n \in {2, 3}
      BY <3>4
    <3> HIDE DEF n, once
    <3>6. updates \in Int /\ updates <= n - 1 /\ n - 1 <= updates + once
      BY <3>3, <3>5
    <3> QED
      BY <3>6 DEF n, once
  <2>4. CASE ~ReachesBreakEven(s, c)
    <3>1. b = s /\ (HasBreakEven(q) <=> HasBreakEven(p)) /\ b.stop = p.stop /\ b.audit = p.audit
      BY <2>4, <1>4, <1>6, <1>7
    <3>2. CASE q = b
      <4>1. updates = r.updates /\ q.audit = p.audit
        BY <3>1, <3>2, <1>3, <1>15
      <4> QED
        BY <4>1, <3>1, <2>1
    <3>3. CASE q # b
      <4>1. q.stop # r.stop
        BY <2>2, <3>1, <3>3, <1>3, <1>12
      <4>2. updates = r.updates + 1 /\ Len(q.audit) = Len(p.audit) + 1
        BY <2>2, <3>1, <3>3, <4>1, <1>15
      <4>3. CASE HasBreakEven(p)
        BY <4>2, <4>3, <3>1, <2>1, <1>9
      <4>4. CASE ~HasBreakEven(p)
        BY <4>2, <4>4, <3>1, <2>1, <1>9
      <4> QED
        BY <4>3, <4>4
    <3> QED
      BY <3>2, <3>3
  <2> QED
    BY <2>3, <2>4
<1>17. r.movedBe \/ breaksEven <=> HasBreakEven(q)
  BY <1>6, <1>7, <1>10 DEF Agrees
<1> HIDE DEF updates
<1>18. LET a == [stop |-> new, movedBe |-> r.movedBe \/ breaksEven, updates |-> updates]
       IN  a.stop = new /\ a.movedBe = (r.movedBe \/ breaksEven) /\ a.updates = updates
  OBVIOUS
<1> QED
  BY <1>1, <1>15, <1>16, <1>17, <1>18 DEF Agrees

\* What the replay depends on is the same.
SameStops(q, p) ==
  /\ q.side = p.side /\ q.entry = p.entry /\ q.initial = p.initial /\ q.openedAt = p.openedAt
  /\ q.stop = p.stop /\ q.audit = p.audit

LEMMA FollowedSame ==
  ASSUME NEW p \in Position, NEW q, SameStops(q, p), NEW last \in 0 .. LastBar, Followed(p, last)
  PROVE  Followed(q, last)
<1>1. p.openedAt \in Bars
  BY DEF Position
<1>2. Replay(q)[last] = Replay(p)[last]
  BY <1>1, ReplayOfSame DEF SameStops
<1>3. Differs(p, last) => Differs(q, last)
  BY DEF Differs, LateBreakEven, SameStops
<1>4. ASSUME NEW r, Agrees(r, p) PROVE Agrees(r, q)
  BY <1>4 DEF Agrees, HasBreakEven, SameStops
<1> QED
  BY <1>2, <1>3, <1>4 DEF Followed

\* The candles stay, and the replay of a position with them.
LEMMA FollowedStays ==
  ASSUME candles' = candles, NEW p, NEW last
  PROVE  Followed(p, last)' <=> Followed(p, last)
<1>1. Replay(p)' = Replay(p)
  BY DEF Replay
<1>2. Differs(p, last)' <=> Differs(p, last)
  BY DEF Differs
<1> QED
  BY <1>1, <1>2 DEF Followed

\* The bar up to which the stop of the open position n has been moved.
LastSeen(n) == IF phase = "manage" /\ n = Len(positions) THEN bar - 1 ELSE LastBar

OpenFollowed ==
  \A n \in DOMAIN positions : \A p \in Position : \A last \in Int :
    p = positions[n] /\ p.closedAt = NoValue /\ last = LastSeen(n) => Followed(p, last)

TradesFollowed ==
  \A m \in DOMAIN trades : \A p \in Position : \A last \in Int :
    p = positions[trades[m].position] /\ last = LastMove(trades[m]) => Followed(p, last)

TradesOfPositions ==
  \A m \in DOMAIN trades :
    /\ trades[m].openedAt = positions[trades[m].position].openedAt
    /\ LastMove(trades[m]) \in trades[m].openedAt .. LastBar

FollowInv ==
  /\ OpenFollowed /\ TradesFollowed /\ TradesOfPositions
  /\ phase = "manage" => Knows(Current, movedBe)

LEMMA LastSeenType ==
  ASSUME TypeInv, NEW n PROVE LastSeen(n) \in 0 .. LastBar
<1>1. bar \in 1 .. LastBar + 1 /\ LastBar \in Nat
  BY BarsAre DEF TypeInv
<1> QED
  BY <1>1 DEF LastSeen

\* A step that leaves positions and trades as they are.
LEMMA StayFollows ==
  ASSUME TypeInv, FollowInv, UNCHANGED <<candles, positions, trades>>,
         \A n \in DOMAIN positions : LastSeen(n)' = LastSeen(n),
         phase' = "manage" => phase = "manage" /\ movedBe' = movedBe
  PROVE  FollowInv'
<1>1. OpenFollowed'
  BY FollowedStays DEF FollowInv, OpenFollowed
<1>2. TradesFollowed'
  BY FollowedStays DEF FollowInv, TradesFollowed, LastMove
<1>3. TradesOfPositions'
  BY DEF FollowInv, TradesOfPositions, LastMove
<1>4. phase' = "manage" => Knows(Current', movedBe')
  BY DEF FollowInv, Current
<1> QED
  BY <1>1, <1>2, <1>3, <1>4 DEF FollowInv
\* An exit leaves the stops of its position as they are.
LEMMA ExitKeepsStops ==
  ASSUME TypeInv, NEW n \in DOMAIN positions, NEW p \in Position, NEW price, NEW at, NEW reason,
         Exit(n, p, price, at, reason)
  PROVE  /\ SameStops(positions'[n], p)
         /\ trades'[Len(trades) + 1].reason = reason
<1>1. positions \in Seq(Position) /\ trades \in Seq(Trade)
  BY DEF TypeInv
<1>2. PICK fees : positions' = [positions EXCEPT ![n] = [p EXCEPT !.closedAt = at, !.fees = fees]]
  BY DEF Exit
<1>3. positions'[n] = [p EXCEPT !.closedAt = at, !.fees = fees]
  BY <1>1, <1>2
<1>4. SameStops(positions'[n], p)
  BY <1>3 DEF Position, SameStops
<1>5. PICK row : trades' = Append(trades, row) /\ row.reason = reason
  BY DEF Exit
<1>6. trades'[Len(trades) + 1] = row
  <2>1. trades \in Seq(Trade \cup {row}) /\ Len(trades) \in Nat
    BY <1>1
  <2> QED
    BY <1>5, <2>1
<1> QED
  BY <1>4, <1>5, <1>6

LEMMA ExitFollowsReplay ==
  ASSUME TypeInv, TypeInv', BooksInv, FollowInv, NEW n \in DOMAIN positions,
         positions[n].closedAt = NoValue,
         NEW p \in Position, SameStops(p, positions[n]), NEW price \in Int, NEW at \in Bars,
         NEW reason \in {"SL", "TP", "TIMEOUT"}, Exit(n, p, price, at, reason),
         candles' = candles, phase' = "signal", phase = "signal" \/ n = Len(positions),
         LastSeen(n) = (IF reason = "TIMEOUT" THEN at ELSE at - 1), p.openedAt <= LastSeen(n)
  PROVE  FollowInv'
<1> DEFINE t == Len(trades) + 1
           last == LastSeen(n)
<1>1. positions \in Seq(Position) /\ trades \in Seq(Trade)
  BY DEF TypeInv
<1>2. Len(positions) \in Nat /\ DOMAIN positions = 1 .. Len(positions)
      /\ Len(trades) \in Nat /\ DOMAIN trades = 1 .. Len(trades)
  BY <1>1
<1>3. /\ Len(positions') = Len(positions) /\ positions' \in Seq(Position)
      /\ \A m \in DOMAIN positions : m # n => positions'[m] = positions[m]
      /\ positions'[n].closedAt = at
      /\ trades' \in Seq(Trade) /\ Len(trades') = Len(trades) + 1
      /\ \A m \in DOMAIN trades : trades'[m] = trades[m]
      /\ trades'[t].position = n /\ trades'[t].openedAt = p.openedAt /\ trades'[t].closedAt = at
  BY ExitEffect
<1>4. SameStops(positions'[n], p) /\ trades'[t].reason = reason
  BY ExitKeepsStops
<1>5. DOMAIN positions' = DOMAIN positions /\ DOMAIN trades' = DOMAIN trades \cup {t}
  BY <1>2, <1>3
<1>6. last \in 0 .. LastBar /\ last \in Int
  BY LastSeenType, BarsAre
<1> HIDE DEF t, last
<1>7. positions[n] \in Position /\ Followed(positions[n], last)
  BY <1>1, <1>6 DEF FollowInv, OpenFollowed, last
<1>8. SameStops(positions'[n], positions[n])
  BY <1>4 DEF SameStops
<1>9. Followed(positions'[n], last)
  BY <1>6, <1>7, <1>8, FollowedSame
<1>10. LastMove(trades'[t]) = last
  BY <1>3, <1>4 DEF LastMove, last
<1>11. at # NoValue
  BY BarsAre, FactorsType
<1>12. OpenFollowed'
  <2> SUFFICES ASSUME NEW m \in DOMAIN positions', NEW q \in Position, NEW l \in Int,
                      q = positions'[m], q.closedAt = NoValue, l = LastSeen(m)'
               PROVE  Followed(q, l)'
    BY DEF OpenFollowed
  <2>1. m # n /\ m \in DOMAIN positions /\ q = positions[m]
    BY <1>3, <1>5, <1>11
  <2>2. LastSeen(m) = LastBar /\ LastSeen(m)' = LastBar
    BY <2>1 DEF LastSeen
  <2>3. Followed(q, l)
    BY <2>1, <2>2 DEF FollowInv, OpenFollowed
  <2> QED
    BY <2>3, FollowedStays
<1>13. \A m \in DOMAIN trades : trades[m].position \in DOMAIN positions /\ trades[m].position # n
  BY DEF TypeInv, BooksInv
<1>14. TradesFollowed'
  <2> SUFFICES ASSUME NEW m \in DOMAIN trades', NEW q \in Position, NEW l \in Int,
                      q = positions'[trades'[m].position], l = LastMove(trades'[m])
               PROVE  Followed(q, l)'
    BY DEF TradesFollowed, LastMove
  <2>1. CASE m \in DOMAIN trades
    <3>1. q = positions[trades[m].position] /\ l = LastMove(trades[m])
      BY <2>1, <1>3, <1>13
    <3>2. Followed(q, l)
      BY <2>1, <3>1 DEF FollowInv, TradesFollowed
    <3> QED
      BY <3>2, FollowedStays
  <2>2. CASE m = t
    <3>1. Followed(q, l)
      BY <2>2, <1>3, <1>9, <1>10
    <3> QED
      BY <3>1, FollowedStays
  <2> QED
    BY <2>1, <2>2, <1>5
<1>15. TradesOfPositions'
  <2> SUFFICES ASSUME NEW m \in DOMAIN trades'
               PROVE  /\ trades'[m].openedAt = positions'[trades'[m].position].openedAt
                      /\ LastMove(trades'[m]) \in trades'[m].openedAt .. LastBar
    BY DEF TradesOfPositions, LastMove
  <2>1. CASE m \in DOMAIN trades
    BY <2>1, <1>3, <1>13 DEF FollowInv, TradesOfPositions
  <2>2. CASE m = t
    <3>1. trades'[m].openedAt = p.openedAt /\ positions'[trades'[m].position].openedAt = p.openedAt
      BY <2>2, <1>3, <1>4 DEF SameStops
    <3>2. p.openedAt <= last /\ p.openedAt \in Int
      BY BarsAre DEF Position, last
    <3>3. last \in p.openedAt .. LastBar
      BY <3>2, <1>6, BarsAre
    <3> QED
      BY <2>2, <3>1, <3>3, <1>10
  <2> QED
    BY <2>1, <2>2, <1>5
<1> QED
  BY <1>12, <1>14, <1>15 DEF FollowInv
\* A new position has its first stop, and so has the replay.
LEMMA FillFollowsReplay ==
  ASSUME TypeInv, AuditInv, FollowInv, Considering,
         NEW quantity \in Quantities(signals[k]), FillSignal(quantity)
  PROVE  FollowInv'
<1> DEFINE s == signals[k]
           entry == candles[FillBar(s)].open + Direction(s.side) * EntrySlip
           new == [side |-> s.side, quantity |-> quantity, entry |-> entry, initial |-> s.stop,
                   stop |-> s.stop, target |-> s.target, fees |-> quantity * Fee,
                   signalAt |-> s.bar, openedAt |-> FillBar(s), closedAt |-> NoValue,
                   maxFavorable |-> NoValue, audit |-> <<Audit(NoValue, s.stop, "INITIAL")>>]
<1>1. /\ TypeInv' /\ phase = "signal" /\ phase' = "manage"
      /\ Len(positions') = Len(positions) + 1
      /\ \A n \in DOMAIN positions : positions'[n] = positions[n]
      /\ bar' = Current'.openedAt + 1 /\ UNCHANGED <<trades, rejections>>
  BY FillStep
<1>2. positions' = Append(positions, new)
  BY DEF FillSignal
<1>3. new.stop = new.initial /\ new.maxFavorable = NoValue
      /\ Len(new.audit) = 1 /\ DOMAIN new.audit = {1} /\ new.audit[1].reason = "INITIAL"
  BY DEF Audit
<1>4. movedBe' = FALSE /\ candles' = candles
  BY DEF FillSignal, inputs
<1> HIDE DEF new
<1>e. PICK e : e = Len(positions')
  OBVIOUS
<1>5. positions \in Seq(Position) /\ positions' \in Seq(Position)
  BY <1>1 DEF TypeInv
<1>6. Len(positions) \in Nat /\ DOMAIN positions = 1 .. Len(positions)
      /\ DOMAIN positions' = DOMAIN positions \cup {e} /\ e \notin DOMAIN positions /\ e \in DOMAIN positions'
  BY <1>1, <1>5, <1>e
<1>7. positions'[e] = new
  <2>1. positions \in Seq(Position \cup {new})
    BY <1>5
  <2> QED
    BY <1>1, <1>2, <1>6, <1>e, <2>1
<1>8. new \in Position /\ Current' = new
  <2>1. positions'[e] \in Position
    <3>1. e \in DOMAIN positions'
      BY <1>6
    <3> QED
      BY <3>1, <1>5
  <2>2. Current' = positions'[e]
    BY <1>e DEF Current
  <2> QED
    BY <1>7, <2>1, <2>2
<1>9. ~HasBreakEven(new)
  BY <1>3 DEF HasBreakEven
<1>10. Knows(Current', movedBe')
  <2>1. Level(new.side, new.stop) >= Level(new.side, new.initial)
    <3>1. Level(new.side, new.stop) \in Int
      BY <1>8, LevelType DEF Position
    <3> QED
      BY <3>1, <1>3
  <2> QED
    BY <2>1, <1>3, <1>4, <1>8, <1>9 DEF Knows
<1>11. Followed(new, new.openedAt)
  <2>1. new.openedAt \in Bars /\ new.openedAt \in 0 .. LastBar /\ new.openedAt < FirstReplayed(new)
    BY <1>8, BarsAre DEF Position, FirstReplayed
  <2>2. Replay(new)[new.openedAt] = [stop |-> new.initial, movedBe |-> FALSE, updates |-> 0]
    BY <2>1, ReplayIs
  <2>3. Agrees(Replay(new)[new.openedAt], new)
    BY <2>2, <1>3, <1>9 DEF Agrees
  <2> QED
    BY <2>3 DEF Followed
<1>12. LastSeen(e)' = new.openedAt
  <2>1. LastSeen(e)' = bar' - 1
    BY <1>1, <1>e DEF LastSeen
  <2>2. new.openedAt \in Int
    BY <1>8, BarsAre DEF Position
  <2> QED
    BY <2>1, <2>2, <1>1, <1>8
<1>13. OpenFollowed'
  <2> SUFFICES ASSUME NEW m \in DOMAIN positions', NEW q \in Position, NEW l \in Int,
                      q = positions'[m], q.closedAt = NoValue, l = LastSeen(m)'
               PROVE  Followed(q, l)'
    BY DEF OpenFollowed
  <2>1. CASE m = e
    BY <2>1, <1>4, <1>7, <1>11, <1>12, FollowedStays
  <2>2. CASE m # e
    <3>1. m \in DOMAIN positions /\ q = positions[m]
      BY <2>2, <1>1, <1>6
    <3>2. LastSeen(m) = LastBar /\ LastSeen(m)' = LastBar
      BY <2>2, <1>1, <1>e DEF LastSeen
    <3>3. Followed(q, l)
      BY <3>1, <3>2 DEF FollowInv, OpenFollowed
    <3> QED
      BY <3>3, <1>4, FollowedStays
  <2> QED
    BY <2>1, <2>2
<1>14. \A m \in DOMAIN trades : positions'[trades[m].position] = positions[trades[m].position]
  BY <1>1 DEF TypeInv
<1>15. TradesFollowed'
  <2> SUFFICES ASSUME NEW m \in DOMAIN trades, NEW q \in Position, NEW l \in Int,
                      q = positions'[trades[m].position], l = LastMove(trades[m])
               PROVE  Followed(q, l)'
    BY <1>1 DEF TradesFollowed, LastMove
  <2>1. Followed(q, l)
    BY <1>14 DEF FollowInv, TradesFollowed
  <2> QED
    BY <2>1, <1>4, FollowedStays
<1>16. TradesOfPositions'
  BY <1>1, <1>14 DEF FollowInv, TradesOfPositions, LastMove
<1> QED
  BY <1>10, <1>13, <1>15, <1>16 DEF FollowInv

\* A bar that the position survives is one more bar of the replay.
LEMMA MoveFollowsReplay ==
  ASSUME IInv, IInv', FollowInv, ManageMove
  PROVE  FollowInv'
<1> DEFINE c == candles[bar]
           p == Current
           s == Seen(c)
           b == BreakEven(s, c)
           q == Trailing(b, c)
           n == Len(positions)
<1>1. TypeInv /\ AuditInv /\ BooksInv /\ AccountInv /\ phase = "manage" /\ bar <= LastBar
  BY DEF IInv, ManageMove
<1>2. /\ bar \in Bars /\ c \in Candle /\ n \in DOMAIN positions /\ p \in Position /\ Chained(p)
      /\ s \in Position /\ Chained(s) /\ SamePosition(s, p)
  BY <1>1, Managed
<1>3. s = [p EXCEPT !.maxFavorable = MaxFavorable(p, c)]
  BY DEF Seen
<1>4. /\ positions' = [positions EXCEPT ![n] = q] /\ bar' = bar + 1
      /\ movedBe' = (movedBe \/ ReachesBreakEven(s, c))
      /\ UNCHANGED <<candles, phase, trades>>
  BY DEF ManageMove, inputs
<1>5. q \in Position /\ SamePosition(q, p)
  <2>1. b \in Position /\ Chained(b) /\ SamePosition(b, s)
    BY <1>2, BreakEvenKeeps
  <2>2. q \in Position /\ SamePosition(q, b)
    BY <1>2, <2>1, TrailingKeeps
  <2> QED
    BY <1>2, <2>1, <2>2 DEF SamePosition
<1>6. Knows(p, movedBe) /\ p.closedAt = NoValue /\ p.openedAt < bar /\ p = positions[n]
  BY <1>1 DEF FollowInv, TypeInv, AccountInv, Current
<1> HIDE DEF p, s
<1>7. Knows(q, movedBe \/ ReachesBreakEven(s, c))
  BY <1>2, <1>3, <1>6, MoveKnows
<1>8. bar \in Int /\ bar - 1 \in 0 .. LastBar /\ bar - 1 \in Int /\ bar \in 0 .. LastBar
      /\ p.openedAt \in Int /\ p.openedAt \in Bars
  BY <1>1, <1>2, BarsAre DEF Position
<1>9. Followed(p, bar - 1)
  <2>1. LastSeen(n) = bar - 1
    BY <1>1 DEF LastSeen
  <2> QED
    BY <2>1, <1>2, <1>6, <1>8 DEF FollowInv, OpenFollowed
<1>10. Followed(q, bar)
  <2> SUFFICES ASSUME ~Differs(q, bar) PROVE Agrees(Replay(q)[bar], q)
    BY DEF Followed
  <2>1. q.side = p.side /\ q.entry = p.entry /\ q.initial = p.initial /\ q.openedAt = p.openedAt
    BY <1>5 DEF SamePosition
  <2>2. LateBreakEven(p) => LateBreakEven(q)
    <3>1. LateBreakEven(p) => LateBreakEven(s)
      <4>1. s.audit = p.audit
        BY <1>2, <1>3 DEF Position
      <4> QED
        BY <4>1 DEF LateBreakEven
    <3>2. LateBreakEven(s) => LateBreakEven(b)
      BY <1>2, BreakEvenAdds
    <3>3. b \in Position
      BY <1>2, BreakEvenKeeps
    <3>4. LateBreakEven(b) => LateBreakEven(q)
      BY <1>2, <3>3, TrailingAdds
    <3> QED
      BY <3>1, <3>2, <3>4
  <2>3. \A l \in p.openedAt + 1 .. bar - 1 : l \in q.openedAt + 1 .. bar
    BY <1>8, <2>1
  <2>4. ~Differs(p, bar - 1)
    BY <2>1, <2>2, <2>3 DEF Differs
  <2>5. Agrees(Replay(p)[bar - 1], p)
    BY <1>9, <2>4 DEF Followed
  <2>6. ~LateBreakEven(q) /\ c.atr # 0 /\ InitialRiskOf(p) > 0
    <3>1. bar \in q.openedAt + 1 .. bar
      BY <1>6, <1>8, <2>1
    <3>2. ~(Level(p.side, p.entry) <= Level(p.side, p.initial))
      BY <2>1 DEF Differs
    <3>3. Level(p.side, p.entry) \in Int /\ Level(p.side, p.initial) \in Int
      BY <1>2, FavorableType
    <3> QED
      BY <3>1, <3>2, <3>3 DEF Differs, InitialRiskOf
  <2>7. Agrees(ReplayBar(p, Replay(p)[bar - 1], c), q)
    BY <1>2, <1>3, <1>6, <2>5, <2>6, BarFollows
  <2>8. Replay(p)[bar] = ReplayBar(p, Replay(p)[bar - 1], c)
    <3>1. ~(bar < FirstReplayed(p))
      BY <1>6, <1>8 DEF FirstReplayed
    <3> QED
      BY <1>8, <3>1, ReplayIs
  <2>9. Replay(q)[bar] = Replay(p)[bar]
    BY <1>8, <2>1, ReplayOfSame
  <2> QED
    BY <2>7, <2>8, <2>9
<1> HIDE DEF q
<1>11. positions \in Seq(Position) /\ n \in Nat /\ DOMAIN positions = 1 .. n
  BY <1>1 DEF TypeInv
<1>12. Len(positions') = n /\ DOMAIN positions' = DOMAIN positions
       /\ positions'[n] = q /\ \A m \in DOMAIN positions : m # n => positions'[m] = positions[m]
  BY <1>2, <1>4, <1>5, <1>11
<1>13. Knows(Current', movedBe')
  BY <1>4, <1>7, <1>12 DEF Current
<1>14. LastSeen(n)' = bar
  <2>1. LastSeen(n)' = (bar + 1) - 1
    BY <1>1, <1>4, <1>12 DEF LastSeen
  <2> QED
    BY <2>1, <1>8
<1>15. OpenFollowed'
  <2> SUFFICES ASSUME NEW m \in DOMAIN positions', NEW r \in Position, NEW l \in Int,
                      r = positions'[m], r.closedAt = NoValue, l = LastSeen(m)'
               PROVE  Followed(r, l)'
    BY DEF OpenFollowed
  <2>1. CASE m = n
    BY <2>1, <1>4, <1>10, <1>12, <1>14, FollowedStays
  <2>2. CASE m # n
    <3>1. m \in DOMAIN positions /\ r = positions[m]
      BY <2>2, <1>12
    <3>2. LastSeen(m) = LastBar /\ LastSeen(m)' = LastBar
      BY <2>2, <1>12 DEF LastSeen
    <3>3. Followed(r, l)
      BY <3>1, <3>2 DEF FollowInv, OpenFollowed
    <3> QED
      BY <3>3, <1>4, FollowedStays
  <2> QED
    BY <2>1, <2>2
<1>16. \A m \in DOMAIN trades : trades[m].position \in DOMAIN positions /\ trades[m].position # n
  BY <1>1, <1>2, <1>6 DEF TypeInv, BooksInv
<1>17. TradesFollowed'
  <2> SUFFICES ASSUME NEW m \in DOMAIN trades, NEW r \in Position, NEW l \in Int,
                      r = positions'[trades[m].position], l = LastMove(trades[m])
               PROVE  Followed(r, l)'
    BY <1>4 DEF TradesFollowed, LastMove
  <2>1. Followed(r, l)
    BY <1>12, <1>16 DEF FollowInv, TradesFollowed
  <2> QED
    BY <2>1, <1>4, FollowedStays
<1>18. TradesOfPositions'
  BY <1>4, <1>12, <1>16 DEF FollowInv, TradesOfPositions, LastMove
<1> QED
  BY <1>13, <1>15, <1>17, <1>18 DEF FollowInv
LEMMA FollowStarts == Init => FollowInv
<1> SUFFICES ASSUME Init PROVE FollowInv
  OBVIOUS
<1>1. DOMAIN positions = {} /\ DOMAIN trades = {} /\ phase = "signal"
  BY DEF Init
<1> QED
  BY <1>1 DEF FollowInv, OpenFollowed, TradesFollowed, TradesOfPositions

LEMMA FollowStep == IInv /\ IInv' /\ FollowInv /\ [Next]_vars => FollowInv'
<1> SUFFICES ASSUME IInv, IInv', FollowInv, [Next]_vars PROVE FollowInv'
  OBVIOUS
<1>0. TypeInv /\ TypeInv' /\ AuditInv /\ BooksInv /\ AccountInv
  BY DEF IInv
<1>1. ASSUME NEW unlucky \in Draws, RejectSignal(unlucky) PROVE FollowInv'
  <2>1. UNCHANGED <<candles, positions, trades>> /\ phase = "signal" /\ phase' = "signal"
    BY <1>1 DEF RejectSignal, Considering, inputs
  <2>2. \A n \in DOMAIN positions : LastSeen(n)' = LastSeen(n)
    BY <2>1 DEF LastSeen
  <2> QED
    BY <1>0, <2>1, <2>2, StayFollows
<1>2. ASSUME Considering, NEW quantity \in Quantities(signals[k]), FillSignal(quantity)
      PROVE  FollowInv'
  BY <1>0, <1>2, FillFollowsReplay
<1>3. CASE ManageExit
  <2> DEFINE p == Seen(candles[bar])
             n == Len(positions)
  <2>1. phase = "manage" /\ bar <= LastBar /\ phase' = "signal" /\ candles' = candles
    BY <1>3 DEF ManageExit, NextSignal, inputs
  <2>2. /\ bar \in Bars /\ n \in DOMAIN positions /\ p \in Position
        /\ Current \in Position /\ SamePosition(p, Current)
    BY <1>0, <2>1, Managed
  <2>3. p.stop \in Int /\ p.target \in Int /\ p.stop = Current.stop /\ p.audit = Current.audit
    <3>1. p.stop \in Int /\ p.target \in Int
      BY <2>2 DEF Position
    <3>2. p.stop = Current.stop /\ p.audit = Current.audit
      BY <2>2 DEF Position, Seen
    <3> QED
      BY <3>1, <3>2
  <2>4. PICK price \in Int, reason \in {"SL", "TP"} : Exit(n, p, price, bar, reason)
    BY <1>3, <2>3 DEF ManageExit
  <2>5. SameStops(p, positions[n])
    BY <2>2, <2>3 DEF SameStops, SamePosition, Current
  <2>6. positions[n].closedAt = NoValue
    BY <1>0, <2>1 DEF TypeInv, Current
  <2>7. LastSeen(n) = bar - 1
    BY <2>1 DEF LastSeen
  <2>8. p.openedAt <= LastSeen(n)
    <3>1. Current.openedAt < bar /\ p.openedAt = Current.openedAt
      BY <1>0, <2>1, <2>2 DEF AccountInv, SamePosition
    <3>2. p.openedAt \in Int /\ bar \in Int
      BY <2>2, BarsAre DEF Position
    <3> QED
      BY <2>7, <3>1, <3>2
  <2> HIDE DEF p, n
  <2>9. n = Len(positions)
    BY DEF n
  <2>10. reason # "TIMEOUT" /\ reason \in {"SL", "TP", "TIMEOUT"}
    OBVIOUS
  <2> QED
    BY <1>0, <2>1, <2>2, <2>4, <2>5, <2>6, <2>7, <2>8, <2>9, <2>10, ExitFollowsReplay
<1>4. CASE ManageMove
  BY <1>4, MoveFollowsReplay
<1>5. CASE ManageEnds
  <2>1. /\ UNCHANGED <<candles, positions, trades>> /\ phase = "manage" /\ phase' = "signal"
        /\ bar > LastBar
    BY <1>5 DEF ManageEnds, NextSignal, inputs
  <2>2. bar - 1 = LastBar
    BY <1>0, <2>1, BarsAre DEF TypeInv
  <2>3. \A n \in DOMAIN positions : LastSeen(n)' = LastSeen(n)
    BY <2>1, <2>2 DEF LastSeen
  <2> QED
    BY <1>0, <2>1, <2>3, StayFollows
<1>6. CASE TimeoutExit
  <2> DEFINE n == Min(Unclosed)
             p == positions[n]
  <2>1. phase = "signal" /\ Unclosed # {} /\ phase' = "signal" /\ candles' = candles
    BY <1>6 DEF TimeoutExit, inputs
  <2>2. n \in Unclosed /\ n \in DOMAIN positions
    BY <1>0, <2>1, FirstUnclosed
  <2>3. p.closedAt = NoValue /\ p \in Position /\ SameStops(p, positions[n])
    BY <1>0, <2>2 DEF TypeInv, Unclosed, SameStops
  <2>4. LastBar \in Bars /\ p.openedAt <= LastBar /\ LastSeen(n) = LastBar
    BY <2>1, <2>3, BarsAre DEF Position, LastSeen
  <2>5. candles[LastBar].close \in Int
    BY <1>0, <2>4 DEF TypeInv, Candle
  <2>6. Exit(n, p, candles[LastBar].close, LastBar, "TIMEOUT")
    BY <1>6 DEF TimeoutExit
  <2> HIDE DEF n, p
  <2> DEFINE price == candles[LastBar].close
  <2>7. positions[n].closedAt = NoValue /\ p.openedAt <= LastSeen(n)
    BY <2>3, <2>4 DEF p
  <2> HIDE DEF price
  <2> QED
    BY <1>0, <2>1, <2>2, <2>3, <2>4, <2>5, <2>6, <2>7, ExitFollowsReplay DEF price
<1>7. CASE Finish
  <2>1. UNCHANGED <<candles, positions, trades>> /\ phase = "signal" /\ phase' = "done"
    BY <1>7 DEF Finish, inputs
  <2>2. \A n \in DOMAIN positions : LastSeen(n)' = LastSeen(n)
    BY <2>1 DEF LastSeen
  <2> QED
    BY <1>0, <2>1, <2>2, StayFollows
<1>8. CASE UNCHANGED vars
  <2>1. UNCHANGED <<candles, positions, trades, phase, bar, movedBe>>
    BY <1>8 DEF vars, inputs
  <2>2. \A n \in DOMAIN positions : LastSeen(n)' = LastSeen(n)
    BY <2>1 DEF LastSeen
  <2> QED
    BY <1>0, <2>1, <2>2, StayFollows
<1> QED
  BY <1>1, <1>2, <1>3, <1>4, <1>5, <1>6, <1>7, <1>8 DEF Next

LEMMA ReplaysFollow == Spec => [](IInv /\ FollowInv)
BY FollowStarts, FollowStep, BooksHold, PTL DEF Spec

\* The replay of a bar counts at most one more move.
LEMMA OneMoreMove ==
  ASSUME NEW p, NEW r, NEW c
  PROVE  ReplayBar(p, r, c).updates \in {r.updates, r.updates + 1}
BY DEF ReplayBar

\* The replay ends where the simulator did, and has counted the bars of its moves,
\* for all candles and signals, where the two copies of the stop rules agree
\* (backtest/holding_analysis.py, _replay_position).
THEOREM ReplayFollows == Spec => []ReplayFollowsTheJournal
<1>1. IInv /\ FollowInv => ReplayFollowsTheJournal
  <2> SUFFICES ASSUME IInv, FollowInv, phase = "done", NEW n \in DOMAIN trades,
                      ~CopiesDiffer(trades[n], positions[trades[n].position])
               PROVE  LET t == trades[n]
                          p == positions[t.position]
                          moves == Len(p.audit) - 1
                          twice == IF \E i \in DOMAIN p.audit : p.audit[i].reason = "BREAK_EVEN" THEN 1 ELSE 0
                      IN  /\ Replay(p)[LastMove(t)].stop = Analyses[n].slFinal
                          /\ Analyses[n].slUpdates \in moves - twice .. moves + 1
    BY DEF ReplayFollowsTheJournal
  <2> DEFINE t == trades[n]
             p == positions[t.position]
             last == LastMove(t)
             moves == Len(p.audit) - 1
             twice == IF HasBreakEven(p) THEN 1 ELSE 0
  <2>1. /\ t \in Trade /\ p \in Position /\ Chained(p)
        /\ t.openedAt = p.openedAt /\ last \in p.openedAt .. LastBar
    BY DEF IInv, TypeInv, AuditInv, FollowInv, TradesOfPositions
  <2>2. Analyses[n].slFinal = p.stop /\ Analyses[n].slUpdates = Replay(p)[t.closedAt].updates
    BY DEF Analyses
  <2>3. ~CopiesDiffer(t, p)
    OBVIOUS
  <2>4. Followed(p, last)
    <3>1. last \in Int
      BY <2>1, BarsAre DEF Position
    <3> QED
      BY <2>1, <3>1 DEF FollowInv, TradesFollowed
  <2> HIDE DEF t, p, last
  <2>5. /\ t.closedAt \in Bars /\ p.openedAt \in Bars /\ last \in Int
        /\ last = t.closedAt \/ last = t.closedAt - 1
    BY <2>1, BarsAre DEF Trade, Position, LastMove, last
  <2>6. ~Differs(p, last)
    <3>1. \A b \in p.openedAt + 1 .. last : b \in t.openedAt + 1 .. t.closedAt
      BY <2>1, <2>5, BarsAre
    <3> QED
      BY <2>3, <3>1 DEF Differs, CopiesDiffer, LateBreakEven
  <2>7. Agrees(Replay(p)[last], p)
    BY <2>4, <2>6 DEF Followed
  <2>8. Replay(p)[t.closedAt].updates \in {Replay(p)[last].updates, Replay(p)[last].updates + 1}
    <3>1. CASE last = t.closedAt
      BY <3>1
    <3>2. CASE last # t.closedAt
      <4>1. last = t.closedAt - 1 /\ t.closedAt \in 0 .. LastBar /\ ~(t.closedAt < FirstReplayed(p))
        BY <2>1, <2>5, <3>2, BarsAre DEF FirstReplayed
      <4>2. Replay(p)[t.closedAt] = ReplayBar(p, Replay(p)[last], candles[t.closedAt])
        BY <2>5, <4>1, ReplayIs
      <4> QED
        BY <4>2, OneMoreMove
    <3> QED
      BY <3>1, <3>2
  <2>9. Replay(p)[t.closedAt].updates \in moves - twice .. moves + 1
    <3> DEFINE u == Replay(p)[last].updates
               v == Replay(p)[t.closedAt].updates
               m == Len(p.audit)
    <3>1. u \in Int /\ u <= m - 1 /\ m - 1 <= u + twice /\ m \in Nat /\ twice \in {0, 1}
          /\ (v = u \/ v = u + 1)
      <4>1. m \in Nat
        BY <2>1 DEF Position
      <4> QED
        BY <2>7, <2>8, <4>1 DEF Agrees
    <3> HIDE DEF u, v, m, twice
    <3>2. v \in (m - 1) - twice .. (m - 1) + 1
      BY <3>1
    <3> QED
      BY <3>2 DEF v, m
  <2>10. Replay(p)[last].stop = p.stop
    BY <2>7 DEF Agrees
  <2> QED
    BY <2>2, <2>9, <2>10 DEF HasBreakEven, t, p, last
<1> QED
  BY <1>1, ReplaysFollow, PTL
=============================================================================
