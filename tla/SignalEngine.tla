---------------------------- MODULE SignalEngine ----------------------------
(***************************************************************************)
(* The signal engine (strategy/signal_engine.py) with the classifiers it   *)
(* reads: trend, regime, volatility, momentum, structure and the score.    *)
(* Pure operators on a row of the feature table and its closing price.     *)
(*                                                                         *)
(* A row says what the gates compare, no more: the signs of price and fast *)
(* EMA against the slow one, the sign of the slope and of the moves of RSI *)
(* and MACD, and the distances from the close to the nearest levels.       *)
(* Prices are ticks, an ATR is an even number of them.                     *)
(***************************************************************************)
EXTENDS Integers

CONSTANTS
  NaN,                      \* model value: not a number, before an indicator has its bars
  MinRr,                    \* cfg.min_rr
  AdxMin, AdxWeak, AdxStrong,
  RankLow, RankHigh,        \* atr_low_percentile, atr_high_percentile
  RsiOversold, RsiOverbought,
  AtrMinBps, AtrMaxBps,     \* atr_min_percent, atr_max_percent in basis points
  MaxSpread,                \* max_spread_percent in basis points
  MinScore                  \* min_signal_score, in points

ASSUME EngineAssumption ==
  /\ {MinRr, AdxWeak, AdxStrong, RankLow, RankHigh, RsiOversold, RsiOverbought,
      AtrMinBps, AtrMaxBps, MinScore} \subseteq Nat
  /\ {AdxMin, MaxSpread} \subseteq Nat \ {0} /\ NaN \notin Int

\* A row of the feature table, whose levels are beyond the close.
IsRow(row) ==
  /\ row.emaReady \in BOOLEAN /\ {row.price, row.fast, row.slope} \subseteq {-1, 0, 1}
  /\ {row.adx, row.rank, row.rsi, row.atr} \subseteq Nat \cup {NaN}
  /\ row.atr # NaN => row.atr % 2 = 0
  /\ {row.rsiMove, row.macd} \subseteq {-1, 0, 1, NaN}
  /\ {row.support, row.resistance} \subseteq (Nat \ {0}) \cup {NaN}
  /\ {row.supportStrength, row.resistanceStrength} \subseteq Nat

\* What evaluate is given besides the row.
Market == [spread : Nat, liquid : BOOLEAN]

-----------------------------------------------------------------------------
(* Classifiers. *)

Bullish == {"STRONG_BULLISH", "BULLISH"}
Bearish == {"STRONG_BEARISH", "BEARISH"}

\* classify_trend: price and fast EMA on the same side of the slow one.
TrendOf(row) ==
  CASE row.emaReady /\ row.price = 1 /\ row.fast = 1 ->
         IF row.slope = 1 THEN "STRONG_BULLISH" ELSE "BULLISH"
    [] row.emaReady /\ row.price = -1 /\ row.fast = -1 ->
         IF row.slope = -1 THEN "STRONG_BEARISH" ELSE "BEARISH"
    [] OTHER -> "NEUTRAL"

\* classify_regime: volatility disqualifies before the strength of the trend counts.
RegimeOf(row) ==
  IF row.adx = NaN \/ row.rank = NaN THEN "UNKNOWN"
  ELSE IF row.rank >= RankHigh THEN "HIGH_VOLATILITY"
  ELSE IF row.rank <= RankLow THEN "LOW_VOLATILITY"
  ELSE IF row.adx >= AdxStrong THEN "STRONG_TREND"
  ELSE IF row.adx >= AdxWeak THEN "WEAK_TREND"
  ELSE "RANGE"

RegimeAction(regime) ==
  CASE regime = "STRONG_TREND" -> "TRADE"
    [] regime = "WEAK_TREND"   -> "CONDITIONAL"
    [] OTHER                   -> "NO_TRADE"

\* volatility_status; "shock" is asked for behind "too_high" and never reached.
VolatilityOf(row, close) ==
  IF row.atr = NaN THEN "warmup"
  ELSE IF row.atr * 10000 < AtrMinBps * close THEN "too_low"
  ELSE IF row.atr * 10000 > AtrMaxBps * close THEN "too_high"
  ELSE "normal"

SideOf(row) == IF TrendOf(row) \in Bullish THEN "BUY" ELSE "SELL"
Towards(side) == IF side = "BUY" THEN 1 ELSE -1

\* buy_momentum and sell_momentum.  An RSI without a predecessor passes.
HasMomentum(row) ==
  /\ NaN \notin {row.rsi, row.adx, row.macd}
  /\ IF SideOf(row) = "BUY" THEN row.rsi > RsiOversold ELSE row.rsi < RsiOverbought
  /\ row.rsiMove \in {NaN, Towards(SideOf(row))}
  /\ row.macd = Towards(SideOf(row))
  /\ row.adx >= AdxMin

-----------------------------------------------------------------------------
(* Stop, target and room. *)

AtrStop(row) == 3 * (row.atr \div 2)

\* The level behind the trade and the one ahead of it.
Behind(row) == IF SideOf(row) = "BUY" THEN row.support ELSE row.resistance
Ahead(row) == IF SideOf(row) = "BUY" THEN row.resistance ELSE row.support

\* _stop_loss, as a distance: 1.5 ATR, or the structure if that is nearer.
StopDistance(row) ==
  IF Behind(row) # NaN /\ Behind(row) < AtrStop(row) THEN Behind(row) ELSE AtrStop(row)

\* room_for_tp: half a per cent is left between the target and the next level.
HasRoom(row, close, stopDistance) ==
  Ahead(row) = NaN \/ (Ahead(row) - MinRr * stopDistance) * 200 >= close

-----------------------------------------------------------------------------
(* score_signal, in units that make every component an integer. *)

Point == 2 * AdxMin * MaxSpread

Clamped(weight, v) == IF v < 0 THEN 0 ELSE IF v > weight * Point THEN weight * Point ELSE v

TrendScore(trend) ==
  Point * (CASE trend = "STRONG_BULLISH" -> 20 [] trend = "BULLISH" -> 14
             [] trend = "NEUTRAL" -> 5 [] OTHER -> 0)

MomentumScore(adx) == 8 * Point + (adx - AdxMin) * 14 * MaxSpread

\* The timeframe above, which is unknown before its first bar.
Aligned(row) == row.trendTf \in (IF SideOf(row) = "BUY" THEN Bullish ELSE Bearish)
TimeframeScore(trendTf, aligned) ==
  (IF aligned THEN 2 ELSE 1) * AdxMin * MaxSpread
    * (CASE trendTf = "STRONG_BULLISH" -> 15 [] trendTf = "BULLISH" -> 11
         [] trendTf = "NEUTRAL" -> 5 [] OTHER -> 0)

LiquidityScore(market) ==
  IF ~market.liquid \/ market.spread > MaxSpread THEN 0
  ELSE 10 * AdxMin * (MaxSpread - market.spread)

\* A sell takes what is left of the weight of trend and timeframe.  Room and
\* volatility were gates, rr is min_rr, and no latency is given.
ScoreOf(row, trendTf, aligned, market) ==
  LET buy == SideOf(row) = "BUY"
      trend == TrendScore(TrendOf(row))
      timeframe == TimeframeScore(trendTf, aligned)
  IN  Clamped(20, IF buy THEN trend ELSE 20 * Point - trend)
        + Clamped(15, MomentumScore(row.adx))
        + Clamped(15, IF buy THEN timeframe ELSE 15 * Point - timeframe)
        + Clamped(15, (5 + row.supportStrength + row.resistanceStrength) * Point)
        + 10 * Point
        + Clamped(5, LiquidityScore(market))
        + 5 * Point
        + (IF market.spread <= MaxSpread THEN 10 * Point ELSE 0)

Scores(row, trendTf, aligned, market) ==
  ScoreOf(row, trendTf, aligned, market) >= MinScore * Point

-----------------------------------------------------------------------------
(* evaluate: the first gate that refuses the row, "none" if it is a signal. *)

EngineRefusal(row, close, market) ==
  IF RegimeAction(RegimeOf(row)) # "TRADE" THEN "regime"
  ELSE IF VolatilityOf(row, close) # "normal" THEN "volatility"
  ELSE IF TrendOf(row) = "NEUTRAL" THEN "trend_neutral"
  ELSE IF ~HasMomentum(row) THEN "momentum"
  ELSE IF market.spread > MaxSpread THEN "spread_too_high"
  ELSE IF ~market.liquid THEN "liquidity_too_low"
  ELSE IF row.atr <= 0 THEN "no_valid_sl"
  ELSE IF ~HasRoom(row, close, StopDistance(row)) THEN "structure_blocks"
  ELSE IF ~Scores(row, row.trendTf, Aligned(row), market) THEN "score"
  ELSE "none"

IsSignal(row, close, market) == EngineRefusal(row, close, market) = "none"

\* The signal of a row that passes every gate.
SignalOf(row, close) ==
  LET ahead == Towards(SideOf(row)) * StopDistance(row)
  IN  [side |-> SideOf(row), entry |-> close, stop |-> close - ahead,
       target |-> close + MinRr * ahead]

-----------------------------------------------------------------------------
(* The diagnostics (strategy/diagnostic.py), which evaluate the same rows   *)
(* by code of their own: without the structure in the stop, and with the    *)
(* trend of the row for that of the timeframe above.                        *)

Conditions == <<"ema_trend", "rsi_momentum", "atr_valid", "sr_room", "rr_ok", "score_ok">>

\* instrument_signals: what each condition asks of a row that got that far.
ConditionHolds(condition, row, close, market) ==
  CASE condition = "ema_trend"    -> /\ row.emaReady /\ NaN \notin {row.rsi, row.adx}
                                     /\ TrendOf(row) # "NEUTRAL"
    [] condition = "rsi_momentum" -> HasMomentum(row)
    [] condition = "atr_valid"    -> VolatilityOf(row, close) = "normal"
    [] condition = "sr_room"      -> AtrStop(row) > 0 /\ HasRoom(row, close, AtrStop(row))
    [] condition = "rr_ok"        -> TRUE
    [] condition = "score_ok"     -> Scores(row, TrendOf(row), TRUE, market)

\* The row has a true entry in the column of condition number n: every
\* condition up to it holds, as the loop goes on to the next row at a failure.
Passes(n, row, close, market) ==
  \A m \in 1 .. n : ConditionHolds(Conditions[m], row, close, market)

\* The row counts as FINAL_BUY or FINAL_SELL.
IsFinal(row, close, market) == Passes(6, row, close, market)

Filters(variant) ==
  CASE variant = "A_EMA_RSI"        -> {"rsi"}
    [] variant = "B_EMA_RSI_ATR"    -> {"rsi", "atr"}
    [] variant = "C_EMA_RSI_ATR_SR" -> {"rsi", "atr", "sr"}
    [] variant = "D_full_baseline"  -> {"rsi", "atr", "sr", "score"}

PerfectMarket == [spread |-> 0, liquid |-> TRUE]

\* A bug: the full variant forgets the regime.
BugApproved(row) == Scores(row, TrendOf(row), TRUE, PerfectMarket)

\* The last filter of the full variant: regime and score.
Approved(row) ==
  /\ RegimeAction(RegimeOf(row)) = "TRADE"
  /\ Scores(row, TrendOf(row), TRUE, PerfectMarket)

\* counterfactual_progressive: the row is a candidate of this variant.
IsCandidate(variant, row, close) ==
  /\ row.emaReady /\ row.rsi # NaN /\ TrendOf(row) # "NEUTRAL"
  /\ "rsi" \in Filters(variant) => HasMomentum(row)
  /\ "atr" \in Filters(variant) => VolatilityOf(row, close) = "normal"
  /\ row.atr # NaN /\ AtrStop(row) > 0
  /\ "sr" \in Filters(variant) => HasRoom(row, close, AtrStop(row))
  /\ "score" \in Filters(variant) => Approved(row)
=============================================================================
