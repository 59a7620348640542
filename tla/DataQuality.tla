---------------------------- MODULE DataQuality ----------------------------
(***************************************************************************)
(* The checks on market data: the strict validator (data/validator.py),    *)
(* which accepts or refuses a batch, and the two audits that grade a frame *)
(* (data/quality_audit.py, data/timestamp_audit.py).  Pure operators on a  *)
(* frame, a sequence of [ts, open, high, low, close, volume].              *)
(***************************************************************************)
EXTENDS Integers, Sequences, FiniteSets

CONSTANTS
  NaN,            \* model value: a value that is not finite
  Timeframe,      \* tf_ms
  Day,            \* milliseconds of a day, in the unit of Timeframe
  GapTolerance,   \* max_gap_tolerance
  MaxStale,       \* max_stale_seconds
  MaxGaps,        \* from this many gaps on the audit fails
  NoClaim         \* model value: no date claimed, no time given

ASSUME TimeframeAssumption ==
  /\ Timeframe \in Nat \ {0} /\ Day \in Nat \ {0}
  /\ {GapTolerance, MaxStale, MaxGaps} \subseteq Nat

ASSUME ValuesAssumption == NaN \notin Int /\ NoClaim \notin Int

\* A value that is read from a candle.
Values == Int \cup {NaN}

MarketCandles ==
  [ts : Int, open : Values, high : Values, low : Values, close : Values, volume : Values]

IsFrame(frame) == frame \in Seq(MarketCandles)

\* A comparison with NaN is false.
Less(a, b) == NaN \notin {a, b} /\ a < b
NotPositive(a) == a # NaN /\ a <= 0

Numbers(c) == {c.open, c.high, c.low, c.close, c.volume}
Steps(frame) == 2 .. Len(frame)
Gap(frame, n) == frame[n].ts - frame[n - 1].ts

-----------------------------------------------------------------------------
(* DataValidator.validate. *)

NoDuplicates(frame) ==
  \A m, n \in DOMAIN frame : m # n => frame[m].ts # frame[n].ts

Ascending(frame) == \A n \in Steps(frame) : Gap(frame, n) >= 0

\* A bug: the prices are only compared with the low.
BugSoundCandle(c) ==
  /\ NaN \notin Numbers(c)
  /\ c.low <= c.high /\ c.low <= c.open /\ c.low <= c.close
  /\ c.low > 0 /\ c.volume >= 0

\* _check_ohlc_integrity: an open above the low needs no check of its own.
SoundCandle(c) ==
  /\ NaN \notin Numbers(c)
  /\ c.low <= c.high
  /\ c.low <= c.open /\ c.open <= c.high
  /\ c.low <= c.close /\ c.close <= c.high
  /\ c.high > 0 /\ c.low > 0 /\ c.close > 0
  /\ c.volume >= 0

GapsTolerated(frame) ==
  \A n \in Steps(frame) :
    /\ Gap(frame, n) % Timeframe = 0
    /\ Gap(frame, n) <= Timeframe * (GapTolerance + 1)

\* max(c.timestamp for c in candles); called behind the ordering check.
LastStamp(frame) == frame[Len(frame)].ts

Fresh(frame, now) == now = NoClaim \/ now - LastStamp(frame) <= MaxStale + Timeframe

\* validate returns the batch instead of raising.
Validates(frame, now) ==
  /\ frame # <<>>
  /\ NoDuplicates(frame)
  /\ Ascending(frame)
  /\ \A n \in DOMAIN frame : SoundCandle(frame[n])
  /\ GapsTolerated(frame)
  /\ Fresh(frame, now)

-----------------------------------------------------------------------------
(* quality_audit.audit. *)

Checks == {"timestamp_monotonic", "duplicate_timestamps", "high_ge_open", "high_ge_close",
           "low_le_open", "low_le_close", "high_ge_low", "non_positive_prices",
           "invalid_volume", "nan_inf", "timeframe_consistency", "missing_candles"}

Gaps(frame) == Cardinality({n \in Steps(frame) : Gap(frame, n) > Timeframe})

\* What a check counts on one candle.
IsBad(check, c) ==
  CASE check = "high_ge_open"        -> Less(c.high, c.open)
    [] check = "high_ge_close"       -> Less(c.high, c.close)
    [] check = "low_le_open"         -> Less(c.open, c.low)
    [] check = "low_le_close"        -> Less(c.close, c.low)
    [] check = "high_ge_low"         -> Less(c.high, c.low)
    [] check = "non_positive_prices" -> \E p \in {c.open, c.high, c.low, c.close} : NotPositive(p)
    [] check = "invalid_volume"      -> Less(c.volume, 0)
    [] check = "nan_inf"             -> NaN \in Numbers(c)

AuditStatus(check, frame) ==
  CASE check = "timestamp_monotonic" ->
         IF \E n \in Steps(frame) : Gap(frame, n) <= 0 THEN "FAIL" ELSE "PASS"
    [] check = "duplicate_timestamps" -> IF NoDuplicates(frame) THEN "PASS" ELSE "FAIL"
    [] check = "timeframe_consistency" ->
         IF \E n \in Steps(frame) : Gap(frame, n) % Timeframe # 0 THEN "WARNING" ELSE "PASS"
    [] check = "missing_candles" ->
         IF Gaps(frame) = 0 THEN "PASS" ELSE IF Gaps(frame) < MaxGaps THEN "WARNING" ELSE "FAIL"
    [] OTHER -> IF \E n \in DOMAIN frame : IsBad(check, frame[n]) THEN "FAIL" ELSE "PASS"

\* The overall grade; an empty frame fails before any other check.
Audit(frame) ==
  LET statuses == {AuditStatus(check, frame) : check \in Checks}
  IN  IF frame = <<>> \/ "FAIL" \in statuses THEN "FAIL"
      ELSE IF "WARNING" \in statuses THEN "WARNING" ELSE "PASS"

-----------------------------------------------------------------------------
(* timestamp_audit.audit_timestamps.  That the first gap is not the         *)
(* timeframe is a warning, which does not count.                            *)

AuditTimestamps(frame, claimedFirst, claimedLast) ==
  IF /\ frame # <<>>
     /\ \A n \in Steps(frame) : Gap(frame, n) > 0
     /\ frame[1].ts < frame[Len(frame)].ts
     /\ claimedFirst \in {NoClaim, frame[1].ts \div Day}
     /\ claimedLast \in {NoClaim, frame[Len(frame)].ts \div Day}
  THEN "PASS" ELSE "FAIL"

\* Three checks of their own judge a frame, and this is how far they agree.  The
\* audit passes exactly the frames that the validator accepts and that have no
\* gap.  Of a frame that the validator accepts, the gaps it tolerates decide the
\* audit's grade alone: none is a PASS, some a WARNING, and from MaxGaps on it is
\* a FAIL, however small each of them is.  And the stamps of such a frame pass,
\* but one candle alone has no duration to pass with.
GradesAgreeOn(frame) ==
  /\ Audit(frame) = "PASS" <=> Validates(frame, NoClaim) /\ Gaps(frame) = 0
  /\ Validates(frame, NoClaim) =>
       /\ Audit(frame) = AuditStatus("missing_candles", frame)
       /\ Len(frame) > 1 => AuditTimestamps(frame, NoClaim, NoClaim) = "PASS"
=============================================================================
