-------------------------- MODULE HoldingAnalysis --------------------------
(***************************************************************************)
(* The holding-period analysis (backtest/holding_analysis.py): it runs the *)
(* simulator and then walks every trade of the journal once more, with its *)
(* own copy of the stop rules, to show why a position stayed open.  What a *)
(* bar is described with beside its stop (distances, regime, trend) is     *)
(* left out.                                                               *)
(***************************************************************************)
EXTENDS Simulator

TrailMultOfReplay == 2   \* trail_mult = 2.0, whatever the simulator's is

\* analyze_holding_period leaves the simulator's trail_atr_mult at its default.
\* It takes break_even_r from the configuration, where 1.0 is its default.
ASSUME ReplayAssumption == TrailMult = TrailMultOfReplay /\ BreakEvenR > 0

\* The tighter of two stops: max(sl, entry) of a long, min of a short.
Tighter(side, a, b) == IF Level(side, a) >= Level(side, b) THEN a ELSE b

\* One bar of the replay r = [stop, movedBe, updates] of position p.  The risk is
\* that of the entry for all bars, and an ATR of zero counts as none.
ReplayBar(p, r, c) ==
  LET risk == IF p.entry > p.initial THEN p.entry - p.initial ELSE p.initial - p.entry
      fav == Level(p.side, Favorable(p.side, c)) - Level(p.side, p.entry)
      breaksEven == ~r.movedBe /\ fav >= risk * BreakEvenR
      stop == IF breaksEven THEN Tighter(p.side, r.stop, p.entry) ELSE r.stop
      trail == Favorable(p.side, c) - Direction(p.side) * TrailMultOfReplay * c.atr
      new == IF c.atr \in {NoValue, 0} THEN stop ELSE Tighter(p.side, stop, trail)
  IN  [stop |-> new, movedBe |-> r.movedBe \/ breaksEven,
       updates |-> IF new = r.stop THEN r.updates ELSE r.updates + 1]

\* A bug: the replay starts on the bar of the entry.
BugFirstReplayed(p) == p.openedAt

\* The replay starts on the bar behind the entry.
FirstReplayed(p) == p.openedAt + 1

\* _replay_position of p, by the last bar it has seen.
Replay(p) ==
  LET at[b \in 0 .. LastBar] ==
        IF b < FirstReplayed(p) THEN [stop |-> p.initial, movedBe |-> FALSE, updates |-> 0]
        ELSE ReplayBar(p, at[b - 1], candles[b])
  IN  at

\* analyze_holding_period: one analysis per row of the journal.  Every row has
\* both its bars, so none is passed over.  sl_final is the journal's; sl_updates is
\* the replay's, with the exit bar, which the trade itself no longer saw.
Analyses ==
  [n \in DOMAIN trades |->
    LET p == positions[trades[n].position]
    IN  [slFinal |-> p.stop,
         slUpdates |-> Replay(p)[trades[n].closedAt].updates]]

-----------------------------------------------------------------------------
\* The last bar on which the trade moved its stop: an exit at the stop or the
\* target comes before the stop is moved, the end of the candles after it.
LastMove(t) == IF t.reason = "TIMEOUT" THEN t.closedAt ELSE t.closedAt - 1

\* The two copies of the rules differ where a stop has trailed before it breaks
\* even (the simulator measures the risk from the stop it has, and may put it
\* back), where the entry is filled beyond the stop, and on an ATR of zero.
CopiesDiffer(t, p) ==
  \/ \E i \in 3 .. Len(p.audit) : p.audit[i].reason = "BREAK_EVEN"
  \/ Level(p.side, p.entry) <= Level(p.side, p.initial)
  \/ \E b \in t.openedAt + 1 .. t.closedAt : candles[b].atr = 0

\* "Replay a position bar-by-bar, tracking SL/TP/BE/trailing"
\* (holding_analysis.py:151): but for those three cases, the replayed stop is
\* sl_final on the last move of every trade, and sl_updates counts the bars the
\* audit has moves of, with the exit bar at most one more.
ReplayFollowsTheJournal ==
  phase = "done" =>
    \A n \in DOMAIN trades :
      LET t == trades[n]
          p == positions[t.position]
          moves == Len(p.audit) - 1
          twice == IF \E i \in DOMAIN p.audit : p.audit[i].reason = "BREAK_EVEN" THEN 1 ELSE 0
      IN  ~CopiesDiffer(t, p) =>
            /\ Replay(p)[LastMove(t)].stop = Analyses[n].slFinal
            /\ Analyses[n].slUpdates \in moves - twice .. moves + 1
=============================================================================
