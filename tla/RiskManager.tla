---------------------------- MODULE RiskManager ----------------------------
(***************************************************************************)
(* The risk manager (risk/risk_manager.py) with the monitors it owns: the  *)
(* drawdown monitor, the loss streak, the exposure registry and the        *)
(* circuit breakers.                                                       *)
(*                                                                         *)
(* The manager is called, never concurrent: the trading loop asks it about *)
(* each signal and tells it about each closed trade.  That loop is outside *)
(* the repository (main.py:93-96 omits it), so its state, the book of open *)
(* trades and the approval it has not acted on yet, is external here.  It  *)
(* calls the manager in any order: a trade may close, the day may roll     *)
(* over and the equity may be re-marked between an approval and its fill.  *)
(*                                                                         *)
(* Money is an integer number of small units; drawdown limits are in basis *)
(* points, a risk factor in per cent, so that initial_risk * factor is in  *)
(* the millionths of PositionSizer.                                        *)
(***************************************************************************)
EXTENDS PositionSizer, FiniteSets, FiniteSetsExt

CONSTANTS
  Symbols,
  Signals,         \* [symbol, entry, priceRisk, cost]: what the sizer reads of a signal
  InitialEquity,
  DailyMaxDD,      \* cfg.daily_max_drawdown, in basis points
  EmergencyDD,     \* cfg.emergency_drawdown, in basis points
  MaxLosses,       \* cfg.max_consecutive_losses
  MaxOpen,         \* cfg.max_open_positions
  InitialRisk,     \* cfg.initial_risk_percent, in basis points
  MaxRisk,         \* cfg.max_risk_percent, in basis points
  Outcomes,        \* profits and losses a close may book besides the budgeted loss
  Links,           \* sets of symbol pairs that set_correlation may link
  Marks,           \* equities the loop may pass to update_equity and rollover_day
  MaxCloses,       \* bound: closed trades of a behaviour
  NoTrade          \* model value: no trade in this slot

ASSUME SignalsAssumption ==
  Signals \subseteq [symbol : Symbols, entry : Nat, priceRisk : Nat, cost : Nat]
ASSUME SymbolsAssumption == IsFiniteSet(Symbols)
ASSUME MoneyAssumption ==
  InitialEquity \in Nat /\ Outcomes \subseteq Int /\ Marks \subseteq Int
ASSUME LimitsAssumption ==
  /\ DailyMaxDD \in Nat /\ EmergencyDD \in Nat
  /\ MaxLosses \in Nat /\ MaxOpen \in Nat
  /\ InitialRisk \in Nat /\ MaxRisk \in Nat
ASSUME BoundAssumption == MaxCloses \in Nat
ASSUME NoTradeAssumption == NoTrade \notin [notional : Nat, risk : Nat]

VARIABLES
  equity,      \* RiskManager.equity = PortfolioRisk.equity = ExposureState.equity
  sod,         \* DrawdownState.start_of_day_equity
  cur,         \* DrawdownState.current_equity
  streak,      \* ConsecutiveLossState.streak
  tripped,     \* the breakers flagged by the last CircuitBreaker.evaluate
  registry,    \* notional of each symbol in ExposureState.positions, 0 if absent
  linked,      \* symbol pairs correlated beyond the threshold (set_correlation)
  verdict,     \* what the last update_equity or on_trade_closed answered
  book,        \* external: the open trade of each symbol
  pending,     \* external: the approved trade the loop has not opened yet
  closes,      \* trades closed so far
  shocked      \* history: equity moved by something no sized stop-loss explains

monitor == <<sod, cur>>
loop == <<book, pending, closes>>
vars == <<equity, monitor, streak, tripped, registry, linked, verdict, loop, shocked>>

Trade == [notional : Nat, risk : Nat]
Breakers == {"daily_dd", "emergency_dd", "consecutive_losses"}
Verdicts == {"RUNNING", "RISK_LOCK", "RiskLimitBreached", "ValueError"}
Pairs == {p \in SUBSET Symbols : Cardinality(p) = 2}

ASSUME LinksAssumption == Links \subseteq SUBSET Pairs

MaxOf(a, b) == IF a >= b THEN a ELSE b
MinOf(a, b) == IF a <= b THEN a ELSE b

-----------------------------------------------------------------------------
(* Drawdown: DrawdownState.daily_dd against a threshold in basis points.   *)

ReachesFrom(start, now, limit) ==
  \/ limit = 0
  \/ start > 0 /\ (start - now) * 10000 >= limit * start

Reaches(limit) == ReachesFrom(sod, cur, limit)

\* DrawdownConfig.risk_tiers: threshold in basis points, factor in per cent.
RiskTiers == << <<0, 100>>, <<150, 70>>, <<250, 50>>, <<300, 0>> >>

\* The factor of the last tier that the drawdown reaches.
DrawdownFactor ==
  LET reached == {i \in 1 .. 4 : Reaches(RiskTiers[i][1])}
  IN  RiskTiers[CHOOSE i \in reached : \A j \in reached : j <= i][2]

\* DrawdownMonitor.check after an update to equity e.
CheckAt(start, e) ==
  IF ReachesFrom(start, e, EmergencyDD) THEN "RiskLimitBreached"
  ELSE IF ReachesFrom(start, e, DailyMaxDD) THEN "RISK_LOCK" ELSE "RUNNING"

(* Loss streak. *)

StreakExceeded(n) == n >= MaxLosses

\* A bug: winning takes one loss back instead of ending the streak.
BugStreakAfter(pnl) == IF pnl < 0 THEN streak + 1 ELSE streak - 1

StreakAfter(pnl) == IF pnl < 0 THEN streak + 1 ELSE 0

RiskFactor ==
  MinOf(DrawdownFactor, IF streak >= MaxOf(1, MaxLosses - 1) THEN 50 ELSE 100)

\* A bug: the configured maximum is taken as the risk instead of capping it.
BugEffectiveRisk == MaxOf(InitialRisk * RiskFactor, MaxRisk * 100)

EffectiveRisk == MinOf(InitialRisk * RiskFactor, MaxRisk * 100)

(* Circuit breakers: every check is evaluated afresh. *)

TrippedNow ==
  {b \in Breakers :
     \/ b = "daily_dd" /\ Reaches(DailyMaxDD)
     \/ b = "emergency_dd" /\ Reaches(EmergencyDD)
     \/ b = "consecutive_losses" /\ StreakExceeded(streak)}

(* Exposure. *)

Notional(reg, syms) == SumFunctionOnSet(reg, syms)

\* The connected components of the linked symbols, which the code finds with
\* a union-find: closed under linked and not the union of two closed sets.
Clusters ==
  LET Closed(C) == \A p \in linked : p \cap C = {} \/ p \subseteq C
      Splits(C) == \E D \in SUBSET C : D # {} /\ D # C /\ Closed(D)
  IN  {C \in SUBSET Symbols : Cardinality(C) >= 2 /\ Closed(C) /\ ~Splits(C)}

\* ExposureMonitor.violates just after set_positions, when every weight is
\* relative to the present equity.
Violates(reg) ==
  /\ equity > 0
  /\ \/ Notional(reg, Symbols) > equity
     \/ \E s \in Symbols : reg[s] > equity
     \/ \E C \in Clusters : Notional(reg, C) * 10 > equity * 6

Open == {s \in Symbols : book[s] # NoTrade}

RegistryOf(b) == [s \in Symbols |-> IF b[s] = NoTrade THEN 0 ELSE b[s].notional]

-----------------------------------------------------------------------------
Init ==
  /\ equity = InitialEquity
  /\ sod = InitialEquity /\ cur = InitialEquity
  /\ streak = 0
  /\ tripped = {}
  /\ registry = [s \in Symbols |-> 0]
  /\ linked = {}
  /\ verdict = "RUNNING"
  /\ book = [s \in Symbols |-> NoTrade]
  /\ pending = NoTrade
  /\ closes = 0
  /\ shocked = FALSE

(* evaluate_signal.  The loop passes the number of its open trades, and it *)
(* asks only about symbols it holds no trade in, so that                   *)
(* open_position_notional keeps its default.                               *)

\* SizingInputs as evaluate_signal fills them: one lot is the smallest unit.
SizingOf(sig) ==
  SizePosition([equity |-> equity, risk |-> EffectiveRisk, entry |-> sig.entry,
                priceRisk |-> sig.priceRisk, cost |-> sig.cost, lotStep |-> 1,
                minQty |-> 1, minNotional |-> 0, maxQty |-> NoCap], MaxRisk * 100)

\* A bug: one trade too many.
BugSlotFree == Cardinality(Open) <= MaxOpen

SlotFree == Cardinality(Open) < MaxOpen

\* A bug: the sizer's answer is taken without looking at the quantity.
BugHasSize(sig) == TRUE

HasSize(sig) == SizingOf(sig).quantity > 0

\* Steps 1 to 4 of evaluate_signal let the signal through.
PassesGates(sig) ==
  /\ TrippedNow = {}
  /\ SlotFree
  /\ RiskFactor > 0
  /\ EffectiveRisk > 0
  /\ HasSize(sig)

\* A bug: only the new position is looked at, not the ones already registered.
BugHypothetical(sig) ==
  [s \in Symbols |-> IF s = sig.symbol THEN SizingOf(sig).notional ELSE 0]

\* Step 5: the registry with the new position, which replaces one of its symbol.
Hypothetical(sig) == [registry EXCEPT ![sig.symbol] = SizingOf(sig).notional]

\* A bug: the hypothetical positions are cleared instead of being undone.
BugRestored == [s \in Symbols |-> 0]

\* The registry after step 5 has undone its hypothetical positions.
Restored == registry

Asks(sig) == pending = NoTrade /\ book[sig.symbol] = NoTrade

RefuseAtGates(sig) ==
  /\ Asks(sig) /\ ~PassesGates(sig)
  /\ tripped' = TrippedNow
  /\ UNCHANGED <<equity, monitor, streak, registry, linked, verdict, loop, shocked>>

RefuseExposure(sig) ==
  /\ Asks(sig) /\ PassesGates(sig) /\ Violates(Hypothetical(sig))
  /\ tripped' = TrippedNow
  /\ registry' = Restored
  /\ UNCHANGED <<equity, monitor, streak, linked, verdict, loop, shocked>>

Approve(sig) ==
  /\ Asks(sig) /\ PassesGates(sig) /\ ~Violates(Hypothetical(sig))
  /\ tripped' = TrippedNow
  /\ registry' = Restored
  /\ pending' = [symbol |-> sig.symbol, notional |-> SizingOf(sig).notional,
                 risk |-> SizingOf(sig).expectedLoss]
  /\ UNCHANGED <<equity, monitor, streak, linked, verdict, book, closes, shocked>>

(* The loop opens the approved trade and registers its positions, or the   *)
(* executor never opens it.                                                *)

Fill ==
  /\ pending # NoTrade
  /\ book' = [book EXCEPT ![pending.symbol] =
                [notional |-> pending.notional, risk |-> pending.risk]]
  /\ pending' = NoTrade
  /\ registry' = RegistryOf(book')
  /\ UNCHANGED <<equity, monitor, streak, tripped, linked, verdict, closes, shocked>>

Lapse ==
  /\ pending # NoTrade
  /\ pending' = NoTrade
  /\ UNCHANGED <<equity, monitor, streak, tripped, registry, linked, verdict,
                 book, closes, shocked>>

(* on_trade_closed and update_equity.  The equity of the manager, of the   *)
(* portfolio and of the exposure monitor are set first; then               *)
(* DrawdownMonitor.update refuses a negative equity and leaves its own     *)
(* state as it was.                                                        *)

SetEquity(e) ==
  /\ equity' = e
  /\ cur' = IF e < 0 THEN cur ELSE e
  /\ sod' = sod

\* A bug: the answer comes from the drawdown alone.
BugCloseVerdict(pnl) ==
  IF equity + pnl < 0 THEN "ValueError" ELSE CheckAt(sod, equity + pnl)

\* update_equity raises first; only then does the streak lock, then check.
CloseVerdict(pnl) ==
  IF equity + pnl < 0 THEN "ValueError"
  ELSE IF CheckAt(sod, equity + pnl) = "RiskLimitBreached" THEN "RiskLimitBreached"
  ELSE IF StreakExceeded(StreakAfter(pnl)) THEN "RISK_LOCK"
  ELSE CheckAt(sod, equity + pnl)

\* The loop drops the trade, reports it, and registers its positions again
\* unless the report raised.
CloseTrade(s, pnl) ==
  /\ closes < MaxCloses
  /\ book' = [book EXCEPT ![s] = NoTrade]
  /\ streak' = StreakAfter(pnl)
  /\ SetEquity(equity + pnl)
  /\ verdict' = CloseVerdict(pnl)
  /\ IF verdict' \in {"RiskLimitBreached", "ValueError"}
     THEN UNCHANGED registry
     ELSE registry' = RegistryOf(book')
  /\ closes' = closes + 1
  /\ shocked' = (shocked \/ pnl < -book[s].risk)
  /\ UNCHANGED <<tripped, linked, pending>>

UpdateEquity(e) ==
  /\ e \in Marks
  /\ SetEquity(e)
  /\ verdict' = IF e < 0 THEN "ValueError" ELSE CheckAt(sod, e)
  /\ shocked' = TRUE
  /\ UNCHANGED <<streak, tripped, registry, linked, loop>>

\* A bug: a new day forgives the losing streak.
BugRolloverDay(e) ==
  /\ sod' = e /\ cur' = cur
  /\ streak' = 0
  /\ shocked' = (e # cur)
  /\ UNCHANGED <<equity, tripped, registry, linked, verdict, loop>>

\* rollover_day: the day restarts from the current equity, or from one that
\* the caller gives.  The day's shocks are over once no trade is left.
RolloverDay(e) ==
  /\ sod' = e
  /\ cur' = cur
  /\ shocked' = (e # cur \/ (shocked /\ (Open # {} \/ pending # NoTrade)))
  /\ UNCHANGED <<equity, streak, tripped, registry, linked, verdict, loop>>

ResetBreakers(names) ==
  /\ tripped' = tripped \ names
  /\ UNCHANGED <<equity, monitor, streak, registry, linked, verdict, loop, shocked>>

SetCorrelation(pairs) ==
  /\ linked' = pairs
  /\ UNCHANGED <<equity, monitor, streak, tripped, registry, verdict, loop, shocked>>

Next ==
  \/ \E sig \in Signals : RefuseAtGates(sig) \/ RefuseExposure(sig) \/ Approve(sig)
  \/ Fill \/ Lapse
  \/ \E s \in Open : \E pnl \in Outcomes \cup {-book[s].risk} : CloseTrade(s, pnl)
  \/ \E e \in Marks : UpdateEquity(e)
  \/ \E e \in Marks \cup {cur} : RolloverDay(e)
  \/ \E b \in Breakers : ResetBreakers({b}) \/ ResetBreakers(Breakers)
  \/ \E pairs \in Links : SetCorrelation(pairs)

Spec == Init /\ [][Next]_vars

-----------------------------------------------------------------------------
(* Properties.                                                             *)

\* Every variable keeps its type; in particular the day's start, the drawdown
\* monitor's equity and the streak stay sane whatever raises in between.
TypeOK ==
  /\ equity \in Int /\ sod \in Int /\ cur \in Nat
  /\ streak \in Nat
  /\ tripped \subseteq Breakers
  /\ registry \in [Symbols -> Nat]
  /\ linked \subseteq Pairs
  /\ verdict \in Verdicts
  /\ book \in [Symbols -> Trade \cup {NoTrade}]
  /\ pending \in [symbol : Symbols, notional : Nat, risk : Nat] \cup {NoTrade}
  /\ closes \in 0 .. MaxCloses
  /\ shocked \in BOOLEAN

\* The limits compose: sizing, risk tiers, the daily lock and the position
\* limit leave so much room that losing every open trade at its stop never
\* brings the day to the emergency drawdown.  Only a shock does: a loss beyond
\* the sized one, a re-marked equity, or a day restarted from another equity.
EmergencyNeedsShock ==
  ~shocked /\ sod > 0 => (sod - cur) * 10000 < EmergencyDD * sod

\* However approvals, fills, lapses and closes that raise are interleaved,
\* trades open or about to open never exceed max_open_positions.
OpenWithinLimit ==
  Cardinality(Open) + (IF pending = NoTrade THEN 0 ELSE 1) <= MaxOpen

\* The exposure registry never forgets an open trade: evaluate_signal undoes
\* its hypothetical positions, and a report that raises leaves the closed
\* trade registered, which errs on the safe side.
RegistryCoversBook ==
  \A s \in Open : registry[s] >= book[s].notional

\* A signal is approved only on an equity that is positive and that the
\* drawdown monitor has seen, although a close that raises ValueError leaves
\* the manager and the monitor with different equities.
ApprovalsSeeTrueEquity ==
  [][\A sig \in Signals : Approve(sig) => equity > 0 /\ cur = equity]_vars

\* An approval keeps the whole book, the new trade included, within the
\* equity (max_gross_leverage = 1), though the manager only sees its registry.
ApprovalsKeepLeverage ==
  [][\A sig \in Signals : Approve(sig) =>
        Notional(RegistryOf(book), Symbols) + pending'.notional <= equity]_vars

\* What a closed trade's report answers agrees with what the breakers will
\* say about the next signal: RUNNING exactly when none of them trips.
CloseVerdictMatchesBreakers ==
  [][\A s \in Open : \A pnl \in Outcomes \cup {-book[s].risk} :
        CloseTrade(s, pnl) /\ verdict' # "ValueError"
          => (verdict' = "RUNNING" <=> TrippedNow' = {})]_vars

\* The loss-streak lock has no way out without an open trade: no new day, reset
\* of the breakers or recovered equity ever brings a flat manager back.
StreakLockIsTerminal ==
  [][StreakExceeded(streak) /\ Open = {} /\ pending = NoTrade
       => StreakExceeded(streak') /\ Open' = {} /\ pending' = NoTrade]_vars
=============================================================================
