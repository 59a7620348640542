----------------------- MODULE ResearchPipelineProofs -----------------------
(***************************************************************************)
(* The data checks and the windows of the walk-forward analysis, proved    *)
(* for frames of every length and windows of every size, and what the      *)
(* report of a pipeline over all its symbols rests on.                     *)
(***************************************************************************)
EXTENDS ResearchPipeline, SumTheorems, FiniteSetTheorems, TLAPS

Window == [start : Nat, metrics : WindowMetrics]

\* Windows roll by StepSize from the first row on, within the frame.
RollInv ==
  /\ rows \in Nat /\ windows \in Seq(Window)
  /\ \A n \in DOMAIN windows :
       /\ windows[n].start = (n - 1) * StepSize
       /\ windows[n].start + TrainSize + OosSize <= rows

\* Windows that roll by a test each have tested all that they have rolled over.
CoverInv ==
  StepSize = OosSize =>
    Tested = TrainSize .. TrainSize + Len(windows) * OosSize - 1

\* No window is left from the symbol before.
FreshInv == step = "ingest" => windows = <<>>

WalkInv == RollInv /\ CoverInv /\ FreshInv

-----------------------------------------------------------------------------
LEMMA Sizes == TrainSize \in Nat \ {0} /\ OosSize \in Nat \ {0} /\ StepSize \in Nat \ {0}
BY SizesAssumption

\* Before the first window nothing is tested.
LEMMA NoWindows ==
  ASSUME windows = <<>>, rows \in Nat PROVE RollInv /\ CoverInv /\ FreshInv
<1>1. windows \in Seq(Window) /\ Len(windows) = 0 /\ DOMAIN windows = {}
  OBVIOUS
<1>2. Tested = {}
  BY <1>1 DEF Tested
<1>3. TrainSize .. TrainSize + Len(windows) * OosSize - 1 = {}
  BY <1>1, Sizes
<1> QED
  BY <1>1, <1>2, <1>3 DEF RollInv, CoverInv, FreshInv

\* A window more.
LEMMA RollKeeps ==
  ASSUME RollInv, CoverInv, NEW m \in WindowMetrics, RollWindow(m)
  PROVE  RollInv' /\ CoverInv'
<1> DEFINE w == [start |-> NextStart, metrics |-> m]
           n == Len(windows)
<1>1. windows \in Seq(Window) /\ n \in Nat /\ rows \in Nat /\ rows' = rows
  BY DEF RollInv, RollWindow
<1>2. windows' = Append(windows, w)
  BY DEF RollWindow
<1>3. NextStart \in Nat /\ NextStart = n * StepSize
  BY <1>1, Sizes DEF NextStart
<1>4. NextStart + TrainSize + OosSize <= rows
  BY DEF RollWindow, HasWindow
<1>5. w \in Window /\ w.start = NextStart
  BY <1>3 DEF Window
<1> HIDE DEF w
<1>6. /\ windows' \in Seq(Window) /\ Len(windows') = n + 1 /\ windows'[n + 1] = w
      /\ \A i \in DOMAIN windows : windows'[i] = windows[i]
      /\ DOMAIN windows' = DOMAIN windows \cup {n + 1}
  BY <1>1, <1>2, <1>5
<1>7. RollInv'
  <2> SUFFICES ASSUME NEW i \in DOMAIN windows'
               PROVE  /\ windows'[i].start = (i - 1) * StepSize
                      /\ windows'[i].start + TrainSize + OosSize <= rows'
    BY <1>1, <1>6 DEF RollInv
  <2>1. CASE i = n + 1
    <3>1. i - 1 = n
      BY <2>1, <1>1
    <3> QED
      BY <2>1, <3>1, <1>1, <1>3, <1>4, <1>5, <1>6
  <2>2. CASE i \in DOMAIN windows
    BY <2>2, <1>1, <1>6 DEF RollInv
  <2> QED
    BY <2>1, <2>2, <1>6
<1>8. Tested' = Tested \cup TestedBy(w)
  <2>1. Tested' = UNION {TestedBy(windows'[i]) : i \in DOMAIN windows'}
    BY DEF Tested, TestedBy
  <2>2. Tested = UNION {TestedBy(windows[i]) : i \in DOMAIN windows}
    BY DEF Tested
  <2> QED
    BY <2>1, <2>2, <1>6
<1>9. CoverInv'
  <2> SUFFICES ASSUME StepSize = OosSize
               PROVE  Tested' = TrainSize .. TrainSize + Len(windows') * OosSize - 1
    BY DEF CoverInv
  <2>1. (n + 1) * OosSize = n * OosSize + OosSize /\ n * OosSize \in Nat
    BY <1>1, Sizes
  <2> DEFINE passed == n * OosSize
  <2>2. Tested = TrainSize .. TrainSize + passed - 1
    BY DEF CoverInv
  <2>3. TestedBy(w) = passed + TrainSize .. passed + TrainSize + OosSize - 1
    BY <1>3, <1>5 DEF TestedBy
  <2>4. TrainSize + Len(windows') * OosSize - 1 = TrainSize + passed + OosSize - 1 /\ passed \in Nat
    BY <2>1, <1>6, Sizes
  <2> HIDE DEF passed
  <2> QED
    BY <2>2, <2>3, <2>4, <1>8, Sizes
<1> QED
  BY <1>7, <1>9

-----------------------------------------------------------------------------
LEMMA WalkStep == WalkInv /\ [Next]_vars => WalkInv'
<1> SUFFICES ASSUME WalkInv, [Next]_vars PROVE WalkInv'
  OBVIOUS
<1>0. RollInv /\ CoverInv /\ FreshInv /\ rows \in Nat
  BY DEF WalkInv, RollInv
<1>1. ASSUME windows' = <<>>, rows' \in Nat PROVE WalkInv'
  <2>1. windows' \in Seq(Window) /\ Len(windows') = 0 /\ DOMAIN windows' = {}
    BY <1>1
  <2>2. Tested' = {}
    BY <2>1 DEF Tested
  <2>3. TrainSize .. TrainSize + Len(windows') * OosSize - 1 = {}
    BY <2>1, Sizes
  <2> QED
    BY <1>1, <2>1, <2>2, <2>3 DEF WalkInv, RollInv, CoverInv, FreshInv
<1>2. ASSUME UNCHANGED walk, step' # "ingest" \/ UNCHANGED step PROVE WalkInv'
  BY <1>0, <1>2 DEF walk, WalkInv, RollInv, CoverInv, FreshInv, Tested, TestedBy
<1>3. CASE Skip
  BY <1>3, <1>1 DEF Skip, Report
<1>4. ASSUME NEW df \in Frames, Ingest(df) PROVE WalkInv'
  <2>1. windows' = <<>> /\ rows' \in Nat
    BY <1>0, <1>4, FramesAssumption DEF Ingest, FreshInv
  <2> QED
    BY <2>1, <1>1
<1>5. CASE AuditData
  BY <1>5, <1>2 DEF AuditData
<1>6. ASSUME NEW m \in BacktestMetrics, BacktestFull(m) \/ BacktestOos(m) PROVE WalkInv'
  BY <1>6, <1>2 DEF BacktestFull, BacktestOos
<1>7. ASSUME NEW m \in WindowMetrics, Walk(m) PROVE WalkInv'
  <2>1. RollWindow(m) /\ step = "walk" /\ step' = step
    BY <1>7 DEF Walk, pipeline
  <2>2. RollInv' /\ CoverInv'
    BY <1>0, <2>1, RollKeeps
  <2> QED
    BY <2>1, <2>2 DEF WalkInv, FreshInv
<1>8. CASE WalkReport
  BY <1>8, <1>2 DEF WalkReport
<1>9. ASSUME NEW ruin \in Ruins, NEW gains \in BOOLEAN, MonteCarlo(ruin, gains) PROVE WalkInv'
  BY <1>9, <1>2 DEF MonteCarlo
<1>10. ASSUME NEW outcomes \in StressOutcomes, Stress(outcomes) PROVE WalkInv'
  BY <1>10, <1>2 DEF Stress
<1>11. CASE Classify
  BY <1>11, <1>1 DEF Classify, Report
<1>12. CASE Raise
  BY <1>12, <1>2 DEF Raise
<1>13. CASE Return
  BY <1>13, <1>2 DEF Return
<1>14. CASE UNCHANGED vars
  BY <1>14, <1>2 DEF vars, pipeline
<1> QED
  BY <1>3, <1>4, <1>5, <1>6, <1>7, <1>8, <1>9, <1>10, <1>11, <1>12, <1>13, <1>14 DEF Next

\* WalkInv is an invariant.
LEMMA WalkInvHolds == Spec => []WalkInv
<1>1. Init => WalkInv
  <2> SUFFICES ASSUME Init PROVE WalkInv
    OBVIOUS
  <2>1. windows = <<>> /\ rows = 0
    BY DEF Init
  <2> QED
    BY <2>1, NoWindows DEF WalkInv
<1> QED
  BY <1>1, WalkStep, PTL DEF Spec

\* Windows that roll from the first row on are a test or more apart when they
\* roll by a test or more.
LEMMA Apart ==
  ASSUME RollInv, StepSize >= OosSize, NEW m \in DOMAIN windows, NEW n \in DOMAIN windows, m < n
  PROVE  windows[m].start + OosSize <= windows[n].start
<1>1. m \in Nat /\ n \in Nat /\ m - 1 \in Int /\ n - 1 \in Int /\ n - m \in Nat /\ n - m >= 1
  BY DEF RollInv
<1>2. windows[m].start = (m - 1) * StepSize /\ windows[n].start = (n - 1) * StepSize
  BY DEF RollInv
<1>3. (n - 1) * StepSize = (m - 1) * StepSize + (n - m) * StepSize
  BY <1>1, Sizes
<1>4. (n - m) * StepSize >= StepSize
  BY <1>1, Sizes
<1>5. (m - 1) * StepSize \in Int /\ (n - m) * StepSize \in Int
  BY <1>1, Sizes
<1> QED
  BY <1>2, <1>3, <1>4, <1>5, Sizes

\* Every bar behind the first training set is tested once, and on bars behind
\* those the window was trained on (backtest/walk_forward.py, walk_forward).
THEOREM TestedOnce == Spec => []EveryBarIsTestedOnce
<1>2. WalkInv => EveryBarIsTestedOnce
  <2> SUFFICES ASSUME WalkInv PROVE EveryBarIsTestedOnce
    OBVIOUS
  <2>0. RollInv /\ CoverInv
    BY DEF WalkInv
  <2>1. \A n \in DOMAIN windows : windows[n].start \in Nat
    <3> SUFFICES ASSUME NEW n \in DOMAIN windows PROVE windows[n].start \in Nat
      OBVIOUS
    <3>1. windows[n] \in Window
      BY <2>0 DEF RollInv
    <3> QED
      BY <3>1 DEF Window
  <2>2. WindowsFit
    <3> SUFFICES ASSUME NEW n \in DOMAIN windows
                 PROVE  TrainedBy(windows[n]) \cup TestedBy(windows[n]) \subseteq 0 .. rows - 1
      BY DEF WindowsFit
    <3>1. windows[n].start + TrainSize + OosSize <= rows /\ rows \in Nat
      BY <2>0 DEF RollInv
    <3> QED
      BY <2>1, <3>1, Sizes DEF TrainedBy, TestedBy
  <2>3. TestsAreDisjoint
    <3> SUFFICES ASSUME StepSize >= OosSize, NEW m \in DOMAIN windows, NEW n \in DOMAIN windows, m < n,
                        NEW i \in TestedBy(windows[m]), NEW j \in TestedBy(windows[n])
                 PROVE  i < j
      BY DEF TestsAreDisjoint
    <3>1. windows[m].start + OosSize <= windows[n].start
      BY <2>0, Apart
    <3> QED
      BY <2>1, <3>1, Sizes DEF TestedBy
  <2>4. NoBarIsLeftOut
    <3> SUFFICES ASSUME StepSize = OosSize, ~HasWindow
                 PROVE  /\ Tested = TrainSize .. TrainSize + Len(windows) * OosSize - 1
                        /\ rows - (TrainSize + Len(windows) * OosSize) < OosSize
      BY DEF NoBarIsLeftOut
    <3>1. Len(windows) \in Nat /\ rows \in Nat
      BY <2>0 DEF RollInv
    <3>2. Len(windows) * OosSize \in Nat
      BY <3>1, Sizes
    <3>3. Len(windows) * OosSize + TrainSize + OosSize > rows
      BY <3>1, <3>2, Sizes DEF HasWindow, NextStart
    <3> QED
      BY <2>0, <3>1, <3>2, <3>3, Sizes DEF CoverInv
  <2> QED
    BY <2>2, <2>3, <2>4 DEF EveryBarIsTestedOnce
<1> QED
  BY <1>2, WalkInvHolds, PTL

-----------------------------------------------------------------------------
(* What the validator accepts, the audits pass.                            *)

\* A frame is a sequence of candles with a stamp each.
LEMMA FramesAreTyped ==
  ASSUME NEW df, IsFrame(df)
  PROVE  /\ Len(df) \in Nat /\ DOMAIN df = 1 .. Len(df)
         /\ \A n \in 1 .. Len(df) : df[n] \in MarketCandles /\ df[n].ts \in Int
<1>1. /\ Len(df) \in Nat /\ DOMAIN df = 1 .. Len(df)
      /\ \A n \in 1 .. Len(df) : df[n] \in MarketCandles
  BY DEF IsFrame
<1>2. \A c \in MarketCandles : c.ts \in Int
  BY DEF MarketCandles
<1> QED
  BY <1>1, <1>2

\* Stamps that rise from candle to candle rise from the first to any other.
LEMMA StampsRise ==
  ASSUME NEW df, IsFrame(df), \A n \in Steps(df) : Gap(df, n) > 0,
         NEW last \in Steps(df)
  PROVE  df[1].ts < df[last].ts
<1> DEFINE G == {n \in Nat : n + 2 \in Steps(df) => df[1].ts < df[n + 2].ts}
<1>0. Len(df) \in Nat /\ \A n \in 1 .. Len(df) : df[n].ts \in Int
  BY FramesAreTyped
<1>1. 0 \in G
  <2> SUFFICES ASSUME 2 \in Steps(df) PROVE df[1].ts < df[2].ts
    OBVIOUS
  <2>1. df[2].ts - df[1].ts > 0
    BY DEF Gap
  <2> QED
    BY <1>0, <2>1 DEF Steps
<1>2. ASSUME NEW n \in Nat, n \in G PROVE n + 1 \in G
  <2> SUFFICES ASSUME n + 3 \in Steps(df) PROVE df[1].ts < df[n + 3].ts
    BY <1>2
  <2>1. n + 2 \in Steps(df) /\ n + 2 \in 1 .. Len(df) /\ n + 3 \in 1 .. Len(df) /\ 1 \in 1 .. Len(df)
    BY <1>0, <1>2 DEF Steps
  <2>2. df[1].ts < df[n + 2].ts
    BY <1>2, <2>1
  <2>3. df[n + 3].ts - df[n + 2].ts > 0
    <3>1. Gap(df, n + 3) > 0 /\ (n + 3) - 1 = n + 2
      BY <1>2
    <3> QED
      BY <3>1 DEF Gap
  <2> QED
    BY <1>0, <2>1, <2>2, <2>3
<1>3. last - 2 \in Nat /\ (last - 2) + 2 = last
  BY <1>0 DEF Steps
<1>4. last - 2 \in G
  <2> HIDE DEF G
  <2> QED
    BY <1>1, <1>2, <1>3, SetOfAllNaturals
<1> QED
  BY <1>3, <1>4

\* A candle that is sound has nothing any audit counts.
LEMMA SoundIsNotBad ==
  ASSUME NEW c \in MarketCandles, SoundCandle(c), NEW check \in Checks,
         check \notin {"timestamp_monotonic", "duplicate_timestamps", "timeframe_consistency",
                       "missing_candles"}
  PROVE  ~IsBad(check, c)
<1>0. /\ c.open \in Values /\ c.high \in Values /\ c.low \in Values
      /\ c.close \in Values /\ c.volume \in Values
  BY DEF MarketCandles
<1>1. NaN \notin {c.open, c.high, c.low, c.close, c.volume}
  BY DEF SoundCandle, Numbers
<1>2. c.open \in Int /\ c.high \in Int /\ c.low \in Int /\ c.close \in Int /\ c.volume \in Int
  BY <1>0, <1>1 DEF Values
<1>3. /\ c.low > 0 /\ c.high > 0 /\ c.close > 0 /\ c.open > 0 /\ c.volume >= 0
      /\ c.low <= c.high /\ c.low <= c.open /\ c.open <= c.high
      /\ c.low <= c.close /\ c.close <= c.high
  BY <1>2 DEF SoundCandle
<1>4. CASE check = "non_positive_prices"
  <2>1. \A p \in {c.open, c.high, c.low, c.close} : ~NotPositive(p)
    BY <1>2, <1>3 DEF NotPositive
  <2> QED
    BY <1>4, <2>1 DEF IsBad
<1>5. CASE check = "nan_inf"
  BY <1>1, <1>5 DEF IsBad, Numbers
<1>6. \A x, y \in Int : x >= y => ~Less(x, y)
  BY DEF Less
<1>7. /\ ~Less(c.high, c.open) /\ ~Less(c.high, c.close) /\ ~Less(c.open, c.low)
      /\ ~Less(c.close, c.low) /\ ~Less(c.high, c.low) /\ ~Less(c.volume, 0)
  BY <1>2, <1>3, <1>6
<1>8. CASE check \notin {"non_positive_prices", "nan_inf"}
  BY <1>7, <1>8 DEF IsBad, Checks
<1> QED
  BY <1>4, <1>5, <1>8

\* A candle none of the audit's checks counts is sound.
LEMMA NotBadIsSound ==
  ASSUME NEW c \in MarketCandles,
         \A check \in {"high_ge_open", "high_ge_close", "low_le_open", "low_le_close",
                       "high_ge_low", "non_positive_prices", "invalid_volume", "nan_inf"} :
           ~IsBad(check, c)
  PROVE  SoundCandle(c)
<1>0. /\ c.open \in Values /\ c.high \in Values /\ c.low \in Values
      /\ c.close \in Values /\ c.volume \in Values
  BY DEF MarketCandles
<1>1. NaN \notin Numbers(c)
  BY DEF IsBad
<1>2. c.open \in Int /\ c.high \in Int /\ c.low \in Int /\ c.close \in Int /\ c.volume \in Int
  BY <1>0, <1>1 DEF Values, Numbers
<1>3. \A x, y \in Int : ~Less(x, y) => y <= x
  BY ValuesAssumption DEF Less
<1>4. \A x \in Int : ~NotPositive(x) => x > 0
  BY ValuesAssumption DEF NotPositive
<1>5. /\ ~Less(c.high, c.open) /\ ~Less(c.high, c.close) /\ ~Less(c.open, c.low)
      /\ ~Less(c.close, c.low) /\ ~Less(c.high, c.low) /\ ~Less(c.volume, 0)
  BY DEF IsBad
<1>6. \A p \in {c.open, c.high, c.low, c.close} : ~NotPositive(p)
  BY DEF IsBad
<1>7. c.open <= c.high /\ c.close <= c.high /\ c.low <= c.open /\ c.low <= c.close /\ c.low <= c.high
  BY <1>2, <1>3, <1>5
<1>8. c.volume >= 0
  BY <1>2, <1>3, <1>5
<1>9. c.high > 0 /\ c.low > 0 /\ c.close > 0
  BY <1>2, <1>4, <1>6
<1> QED
  BY <1>1, <1>7, <1>8, <1>9 DEF SoundCandle

\* A status is one of three.
LEMMA StatusType ==
  ASSUME NEW df, NEW check PROVE AuditStatus(check, df) \in {"PASS", "WARNING", "FAIL"}
BY DEF AuditStatus

\* The gaps are counted with a number, which is zero only without any.
LEMMA GapsCounted ==
  ASSUME NEW df, IsFrame(df)
  PROVE  Gaps(df) \in Nat /\ (Gaps(df) = 0 <=> \A n \in Steps(df) : ~(Gap(df, n) > Timeframe))
<1> DEFINE g == {n \in Steps(df) : Gap(df, n) > Timeframe}
<1>1. IsFiniteSet(Steps(df))
  BY FS_Interval DEF IsFrame, Steps
<1>2. IsFiniteSet(g)
  BY <1>1, FS_Subset
<1>3. Cardinality(g) \in Nat /\ (Cardinality(g) = 0 <=> g = {})
  BY <1>2, FS_CardinalityType, FS_EmptySet
<1> QED
  BY <1>3 DEF Gaps

\* Of a frame that the validator accepts, every check but that of the gaps passes,
\* and so do the stamps.
LEMMA ValidPasses ==
  ASSUME NEW df, IsFrame(df), Validates(df, NoClaim)
  PROVE  /\ df # <<>>
         /\ \A check \in Checks \ {"missing_candles"} : AuditStatus(check, df) = "PASS"
         /\ Len(df) > 1 => AuditTimestamps(df, NoClaim, NoClaim) = "PASS"
<1>0. /\ Len(df) \in Nat /\ df # <<>> /\ DOMAIN df = 1 .. Len(df)
      /\ \A n \in 1 .. Len(df) : df[n].ts \in Int
      /\ Steps(df) = 2 .. Len(df)
  BY FramesAreTyped DEF Validates, Steps
<1>1. \A n \in Steps(df) : Gap(df, n) \in Int /\ Gap(df, n) > 0
  <2> SUFFICES ASSUME NEW n \in Steps(df) PROVE Gap(df, n) \in Int /\ Gap(df, n) > 0
    OBVIOUS
  <2>1. n \in 1 .. Len(df) /\ n - 1 \in 1 .. Len(df) /\ n # n - 1
    BY <1>0
  <2>2. df[n].ts # df[n - 1].ts
    BY <1>0, <2>1 DEF Validates, NoDuplicates
  <2>3. df[n].ts - df[n - 1].ts >= 0
    BY DEF Validates, Ascending, Gap
  <2> QED
    BY <1>0, <2>1, <2>2, <2>3 DEF Gap
<1>2. \A check \in Checks \ {"missing_candles"} : AuditStatus(check, df) = "PASS"
  <2> SUFFICES ASSUME NEW check \in Checks, check # "missing_candles"
               PROVE  AuditStatus(check, df) = "PASS"
    OBVIOUS
  <2>1. CASE check = "timestamp_monotonic"
    BY <1>1, <2>1 DEF AuditStatus
  <2>2. CASE check = "duplicate_timestamps"
    BY <2>2 DEF AuditStatus, Validates
  <2>3. CASE check = "timeframe_consistency"
    BY <2>3 DEF AuditStatus, Validates, GapsTolerated
  <2>4. CASE check \notin {"timestamp_monotonic", "duplicate_timestamps", "timeframe_consistency",
                           "missing_candles"}
    <3>1. \A n \in DOMAIN df : ~IsBad(check, df[n])
      BY <1>0, <2>4, FramesAreTyped, SoundIsNotBad DEF Validates
    <3> QED
      BY <2>4, <3>1 DEF AuditStatus
  <2> QED
    BY <2>1, <2>2, <2>3, <2>4
<1>4. ASSUME Len(df) > 1 PROVE AuditTimestamps(df, NoClaim, NoClaim) = "PASS"
  <2>1. Len(df) \in Steps(df)
    BY <1>0, <1>4
  <2>2. df[1].ts < df[Len(df)].ts
    BY <1>1, <2>1, StampsRise
  <2> QED
    BY <1>0, <1>1, <2>2 DEF AuditTimestamps
<1> QED
  BY <1>0, <1>2, <1>4

\* A frame that the audit passes is accepted, and has no gaps.
LEMMA PassedIsValid ==
  ASSUME NEW df, IsFrame(df), Audit(df) = "PASS"
  PROVE  Validates(df, NoClaim) /\ Gaps(df) = 0
<1>1. df # <<>> /\ \A check \in Checks : AuditStatus(check, df) = "PASS"
  <2>1. /\ df # <<>> /\ "FAIL" \notin {AuditStatus(check, df) : check \in Checks}
        /\ "WARNING" \notin {AuditStatus(check, df) : check \in Checks}
    BY DEF Audit
  <2> QED
    BY <2>1, StatusType
<1>2. /\ Len(df) \in Nat /\ DOMAIN df = 1 .. Len(df)
      /\ \A n \in 1 .. Len(df) : df[n].ts \in Int /\ df[n] \in MarketCandles
      /\ Steps(df) = 2 .. Len(df)
  BY FramesAreTyped DEF Steps
<1>3. AuditStatus("missing_candles", df) = "PASS" /\ AuditStatus("timeframe_consistency", df) = "PASS"
      /\ AuditStatus("timestamp_monotonic", df) = "PASS" /\ AuditStatus("duplicate_timestamps", df) = "PASS"
  BY <1>1 DEF Checks
<1>4. Gaps(df) = 0
  BY <1>3 DEF AuditStatus
<1>5. \A n \in Steps(df) : Gap(df, n) \in Int /\ Gap(df, n) > 0 /\ Gap(df, n) <= Timeframe
  <2> SUFFICES ASSUME NEW n \in Steps(df)
               PROVE  Gap(df, n) \in Int /\ Gap(df, n) > 0 /\ Gap(df, n) <= Timeframe
    OBVIOUS
  <2>1. Gap(df, n) \in Int
    BY <1>2 DEF Gap
  <2>2. ~(Gap(df, n) <= 0)
    BY <1>3 DEF AuditStatus
  <2>3. ~(Gap(df, n) > Timeframe)
    BY <1>4, GapsCounted
  <2> QED
    BY <2>1, <2>2, <2>3, TimeframeAssumption
<1>6. NoDuplicates(df)
  BY <1>3 DEF AuditStatus
<1>7. Ascending(df)
  BY <1>5 DEF Ascending
<1>8. \A n \in DOMAIN df : SoundCandle(df[n])
  <2> SUFFICES ASSUME NEW n \in DOMAIN df PROVE SoundCandle(df[n])
    OBVIOUS
  <2> DEFINE kinds == {"high_ge_open", "high_ge_close", "low_le_open", "low_le_close",
                       "high_ge_low", "non_positive_prices", "invalid_volume", "nan_inf"}
  <2>1. ASSUME NEW check \in kinds PROVE ~IsBad(check, df[n])
    <3>1. AuditStatus(check, df) = "PASS"
      BY <1>1, <2>1 DEF Checks
    <3>2. check \notin {"timestamp_monotonic", "duplicate_timestamps", "timeframe_consistency",
                        "missing_candles"}
      BY <2>1
    <3> QED
      BY <3>1, <3>2 DEF AuditStatus
  <2>2. df[n] \in MarketCandles
    BY <1>2
  <2> QED
    BY <2>1, <2>2, NotBadIsSound
<1>9. GapsTolerated(df)
  <2> SUFFICES ASSUME NEW n \in Steps(df)
               PROVE  Gap(df, n) % Timeframe = 0 /\ Gap(df, n) <= Timeframe * (GapTolerance + 1)
    BY DEF GapsTolerated
  <2>1. Gap(df, n) % Timeframe = 0
    BY <1>3 DEF AuditStatus
  <2>2. Timeframe \in Nat /\ GapTolerance \in Nat
    BY TimeframeAssumption
  <2>3. Timeframe * (GapTolerance + 1) >= Timeframe
    BY <2>2
  <2>4. Timeframe * (GapTolerance + 1) \in Nat
    BY <2>2
  <2> QED
    BY <1>5, <2>1, <2>2, <2>3, <2>4
<1> QED
  BY <1>1, <1>4, <1>6, <1>7, <1>8, <1>9 DEF Validates, Fresh

\* Validator and audits agree as GradesAgreeOn says, for every frame there is.
LEMMA FramesAgree == ASSUME NEW df, IsFrame(df) PROVE GradesAgreeOn(df)
<1>1. ASSUME Validates(df, NoClaim) PROVE Audit(df) = AuditStatus("missing_candles", df)
  <2> DEFINE statuses == {AuditStatus(check, df) : check \in Checks}
             gaps == AuditStatus("missing_candles", df)
  <2>1. df # <<>> /\ \A check \in Checks \ {"missing_candles"} : AuditStatus(check, df) = "PASS"
    BY <1>1, ValidPasses
  <2>2. gaps \in statuses /\ statuses \subseteq {"PASS", gaps}
    BY <2>1 DEF Checks
  <2>3. gaps \in {"PASS", "WARNING", "FAIL"}
    BY StatusType
  <2>4. Audit(df) = IF "FAIL" \in statuses THEN "FAIL"
                    ELSE IF "WARNING" \in statuses THEN "WARNING" ELSE "PASS"
    BY <2>1 DEF Audit
  <2> HIDE DEF statuses, gaps
  <2>5. Audit(df) = gaps
    BY <2>2, <2>3, <2>4
  <2> QED
    BY <2>5 DEF gaps
<1>2. ASSUME Validates(df, NoClaim), Gaps(df) = 0 PROVE Audit(df) = "PASS"
  BY <1>1, <1>2 DEF AuditStatus
<1> QED
  BY <1>1, <1>2, ValidPasses, PassedIsValid DEF GradesAgreeOn


-----------------------------------------------------------------------------
(* The aggregate of the windows.                                           *)

Metrics == [trades : Nat, profit : Nat, loss : Nat, drawdown : Nat]

\* What a window gives to each sum.
LEMMA WindowFields ==
  ASSUME windows \in Seq(Window)
  PROVE  /\ IsFiniteSet(DOMAIN windows)
         /\ \A n \in DOMAIN windows :
              /\ windows[n].metrics.trades \in Nat
              /\ windows[n].metrics.profit \in Nat
              /\ windows[n].metrics.loss \in Nat
              /\ windows[n].metrics.trades = 0 => windows[n].metrics.profit = 0
<1>1. Len(windows) \in Nat /\ DOMAIN windows = 1 .. Len(windows)
  OBVIOUS
<1>2. IsFiniteSet(DOMAIN windows)
  BY <1>1, FS_Interval
<1>3. ASSUME NEW n \in DOMAIN windows
      PROVE  /\ windows[n].metrics.trades \in Nat
             /\ windows[n].metrics.profit \in Nat
             /\ windows[n].metrics.loss \in Nat
             /\ windows[n].metrics.trades = 0 => windows[n].metrics.profit = 0
  <2>1. windows[n].metrics \in WindowMetrics
    <3>1. windows[n] \in Window
      OBVIOUS
    <3> QED
      BY <3>1 DEF Window
  <2> DEFINE m == windows[n].metrics
  <2>2. m \in Metrics /\ (m.trades = 0 => m = NoTrades)
    BY <2>1, WindowMetricsAssumption DEF IsMetrics, Metrics
  <2> HIDE DEF m
  <2>3. m.trades \in Nat /\ m.profit \in Nat /\ m.loss \in Nat /\ (m.trades = 0 => m.profit = 0)
    BY <2>2 DEF Metrics, NoTrades
  <2> QED
    BY <2>3 DEF m
<1> QED
  BY <1>2, <1>3

\* The windows that are left out of the profit factor had no loss.
LEMMA NeverFlatters == ASSUME windows \in Seq(Window) PROVE AggregateNeverFlatters
<1> DEFINE D == DOMAIN windows
           C == {n \in D : CountsForFactor(windows[n].metrics)}
           P == [n \in D |-> windows[n].metrics.profit]
           L == [n \in D |-> windows[n].metrics.loss]
           T == [n \in D |-> windows[n].metrics.trades]
<1>1. /\ IsFiniteSet(D) /\ C \in SUBSET D
      /\ \A n \in D : P[n] \in Nat /\ L[n] \in Nat /\ T[n] \in Nat /\ (T[n] = 0 => P[n] = 0)
      /\ \A n \in D \ C : L[n] = 0
  BY WindowFields DEF CountsForFactor
<1>2. /\ Total("profit", C) = SumFunctionOnSet(P, C) /\ Total("profit", D) = SumFunctionOnSet(P, D)
      /\ Total("loss", C) = SumFunctionOnSet(L, C) /\ Total("loss", D) = SumFunctionOnSet(L, D)
      /\ TotalOosTrades = SumFunctionOnSet(T, D)
  BY DEF Total, TotalOosTrades
<1>3. AggregateFactorAboveOne =>
        IF SumFunctionOnSet(L, C) > 0 THEN SumFunctionOnSet(P, C) > SumFunctionOnSet(L, C)
                                      ELSE SumFunctionOnSet(P, C) > 0
  BY <1>2 DEF AggregateFactorAboveOne
<1>4. AggregateExpectsProfit <=>
        SumFunctionOnSet(T, D) > 0 /\ SumFunctionOnSet(P, D) > SumFunctionOnSet(L, D)
  BY <1>2 DEF AggregateExpectsProfit
<1> HIDE DEF C, D, P, L, T
<1>5. IsFiniteSet(C) /\ IsFiniteSet(D \ C)
  BY <1>1, FS_Subset
<1>6. /\ SumFunctionOnSet(P, D) = SumFunctionOnSet(P, C) + SumFunctionOnSet(P, D \ C)
      /\ SumFunctionOnSet(L, D) = SumFunctionOnSet(L, C) + SumFunctionOnSet(L, D \ C)
  BY <1>1, SumOfParts
<1>7. /\ SumFunctionOnSet(P, C) \in Nat /\ SumFunctionOnSet(L, C) \in Nat
      /\ SumFunctionOnSet(P, D \ C) \in Nat /\ SumFunctionOnSet(T, D) \in Nat
  BY <1>1, <1>5, SumIsNatural
<1>8. SumFunctionOnSet(L, D \ C) = 0
  BY <1>1, <1>5, SumOfZeros
<1> SUFFICES ASSUME AggregateFactorAboveOne
             PROVE  SumFunctionOnSet(T, D) > 0 /\ SumFunctionOnSet(P, D) > SumFunctionOnSet(L, D)
  BY <1>4 DEF AggregateNeverFlatters
<1>9. SumFunctionOnSet(P, D) > SumFunctionOnSet(L, D) /\ SumFunctionOnSet(P, D) > 0
  BY <1>3, <1>6, <1>7, <1>8
<1>10. SumFunctionOnSet(T, D) > 0
  <2> SUFFICES ASSUME SumFunctionOnSet(T, D) = 0 PROVE FALSE
    BY <1>7
  <2>1. \A n \in D : T[n] <= 0
    BY <1>1, SumCoversEach
  <2>2. \A n \in D : P[n] = 0
    BY <1>1, <2>1
  <2>3. SumFunctionOnSet(P, D) = 0
    BY <1>1, <2>2, SumOfZeros
  <2> QED
    BY <1>9, <2>3
<1> QED
  BY <1>9, <1>10

\* "We aggregate EVERY OOS period's metrics" (walk_forward.py:46), and yet a
\* profit factor above one always is a profit over all trades, for every frame
\* and whatever the windows return.
THEOREM AggregateIsHonest == Spec => []AggregateNeverFlatters
<1>2. WalkInv => AggregateNeverFlatters
  BY NeverFlatters DEF WalkInv, RollInv
<1> QED
  BY <1>2, WalkInvHolds, PTL


-----------------------------------------------------------------------------
(* The evidence of an asset, and the report.                               *)

Evidence ==
  [dataOk : BOOLEAN, full : Metrics, oos : Metrics, wfTrades : Nat, windows : Nat, passing : Nat,
   mc : [executed : BOOLEAN, ruin : Nat, gains : BOOLEAN], stressOk : BOOLEAN]

Classes ==
  {"", "INSUFFICIENT_DATA", "INSUFFICIENT_SAMPLE", "NO_VERIFIED_EDGE", "REJECTED",
   "PAPER_TRADING_ELIGIBLE"}

Result == [symbol : STRING, available : BOOLEAN, class : Classes, tested : Nat, oos : Nat]

\* A window has fewer trades than the bars it tests, and no bar is tested by two.
SampleInv ==
  /\ IsFiniteSet(Tested)
  /\ StepSize >= OosSize => TotalOosTrades <= Cardinality(Tested)

\* What has been found out about the asset stays true until it is reported.
EvidenceInv ==
  /\ evidence \in Evidence
  /\ step = "audit" => frame \in Frames
  /\ step \in {"monte_carlo", "stress", "classify"} => evidence.wfTrades = TotalOosTrades
  /\ step \in {"stress", "classify"} =>
       evidence.mc.executed = (evidence.oos.trades >= MinOosTrades)

Backed(r) ==
  r.available /\ r.class = "PAPER_TRADING_ELIGIBLE" =>
    /\ r.oos >= MinOosTrades
    /\ StepSize >= OosSize => r.tested >= MinWfTrades

\* The report has one result per symbol, in order, and is complete at the end.
ReportInv ==
  /\ results \in Seq(Result)
  /\ Len(results) <= Len(Symbols)
  /\ step \notin {"ingest", "returned", "raised"} => Len(results) < Len(Symbols)
  /\ step = "returned" => Len(results) = Len(Symbols)
  /\ \A n \in DOMAIN results : results[n].symbol = Symbols[n] /\ Backed(results[n])

\* Another window adds fewer trades to the sample than bars to the tested ones.
LEMMA RollKeepsSample ==
  ASSUME RollInv, SampleInv, NEW m \in WindowMetrics, RollWindow(m)
  PROVE  SampleInv'
<1> DEFINE w == [start |-> NextStart, metrics |-> m]
           n == Len(windows)
           T == [i \in DOMAIN windows |-> windows[i].metrics.trades]
           U == [i \in DOMAIN windows' |-> windows'[i].metrics.trades]
<1>1. windows \in Seq(Window) /\ n \in Nat /\ windows' = Append(windows, w)
  BY DEF RollInv, RollWindow
<1>2. NextStart \in Nat /\ NextStart = n * StepSize
  BY <1>1, Sizes DEF NextStart
<1>3. w \in Window /\ w.start = NextStart /\ w.metrics = m
  BY <1>2 DEF Window
<1> HIDE DEF w
<1>4. /\ windows' \in Seq(Window) /\ windows'[n + 1] = w /\ n + 1 \notin DOMAIN windows
      /\ \A i \in DOMAIN windows : windows'[i] = windows[i]
      /\ DOMAIN windows' = DOMAIN windows \cup {n + 1}
  BY <1>1, <1>3
<1>5. Tested' = Tested \cup TestedBy(w)
  <2>1. Tested' = UNION {TestedBy(windows'[i]) : i \in DOMAIN windows'}
    BY DEF Tested, TestedBy
  <2>2. Tested = UNION {TestedBy(windows[i]) : i \in DOMAIN windows}
    BY DEF Tested
  <2> QED
    BY <1>4, <2>1, <2>2
<1>6. TestedBy(w) = NextStart + TrainSize .. NextStart + TrainSize + OosSize - 1
  BY <1>3 DEF TestedBy
<1>7. IsFiniteSet(TestedBy(w)) /\ Cardinality(TestedBy(w)) = OosSize
  <2>1. NextStart + TrainSize \in Int /\ NextStart + TrainSize + OosSize - 1 \in Int
    BY <1>2, Sizes
  <2> QED
    BY <1>2, <1>6, <2>1, Sizes, FS_Interval
<1>8. IsFiniteSet(Tested')
  BY <1>5, <1>7, FS_Union DEF SampleInv
<1>9. ASSUME StepSize >= OosSize PROVE TotalOosTrades' <= Cardinality(Tested')
  <2>1. Tested \cap TestedBy(w) = {}
    <3> SUFFICES ASSUME NEW i \in DOMAIN windows, NEW b \in TestedBy(windows[i]), b \in TestedBy(w)
                 PROVE  FALSE
      BY DEF Tested
    <3>1. windows[i].start = (i - 1) * StepSize /\ i \in 1 .. n
      BY <1>1 DEF RollInv
    <3>2. (i - 1) * StepSize + StepSize = i * StepSize /\ (i - 1) * StepSize \in Nat
      BY <3>1, <1>1, Sizes
    <3>3. i * StepSize <= n * StepSize
      BY <3>1, <1>1, Sizes
    <3>4. windows[i].start + OosSize <= NextStart /\ windows[i].start \in Nat
      BY <1>2, <1>9, <3>1, <3>2, <3>3, Sizes
    <3>5. b \in Int /\ b <= windows[i].start + TrainSize + OosSize - 1
      BY <3>4, Sizes DEF TestedBy
    <3>6. NextStart + TrainSize <= b
      BY <1>2, <1>6, <3>5, Sizes
    <3> QED
      BY <1>2, <3>4, <3>5, <3>6, Sizes
  <2>2. Cardinality(Tested') = Cardinality(Tested) + OosSize
    <3>1. Cardinality(Tested \cup TestedBy(w))
            = Cardinality(Tested) + Cardinality(TestedBy(w)) - Cardinality({})
      BY <1>7, <2>1, FS_Union DEF SampleInv
    <3>2. Cardinality(Tested) \in Nat
      BY FS_CardinalityType DEF SampleInv
    <3> QED
      BY <1>5, <1>7, <3>1, <3>2, Sizes, FS_EmptySet
  <2>3. TotalOosTrades = SumFunctionOnSet(T, DOMAIN windows)
    BY DEF TotalOosTrades, Total
  <2>4. TotalOosTrades' = SumFunctionOnSet(U, DOMAIN windows')
    BY DEF TotalOosTrades, Total
  <2>5. /\ IsFiniteSet(DOMAIN windows)
        /\ \A i \in DOMAIN windows : T[i] \in Int /\ U[i] = T[i]
        /\ U[n + 1] = m.trades /\ m.trades \in Int /\ m.trades < OosSize
    <3>1. \A i \in DOMAIN windows : T[i] \in Nat
      BY <1>1, WindowFields
    <3>2. IsFiniteSet(DOMAIN windows)
      BY <1>1, WindowFields
    <3>3. \A i \in DOMAIN windows : U[i] = T[i]
      BY <1>4
    <3>4. U[n + 1] = m.trades /\ m.trades < OosSize
      BY <1>3, <1>4 DEF RollWindow
    <3>5. m.trades \in Nat
      BY WindowMetricsAssumption DEF IsMetrics
    <3> QED
      BY <3>1, <3>2, <3>3, <3>4, <3>5
  <2> HIDE DEF T, U
  <2>6. SumFunctionOnSet(U, DOMAIN windows \cup {n + 1})
          = SumFunctionOnSet(T, DOMAIN windows) + U[n + 1]
    BY <1>4, <2>5, SumGrows
  <2>7. SumFunctionOnSet(T, DOMAIN windows) \in Int /\ Cardinality(Tested) \in Nat
    BY <2>5, SumIsInt, FS_CardinalityType DEF SampleInv
  <2>8. TotalOosTrades' = TotalOosTrades + m.trades
    BY <1>4, <2>3, <2>4, <2>5, <2>6
  <2>9. TotalOosTrades <= Cardinality(Tested)
    BY <1>9 DEF SampleInv
  <2> QED
    BY <2>2, <2>3, <2>5, <2>7, <2>8, <2>9, Sizes
<1> QED
  BY <1>8, <1>9 DEF SampleInv


\* Nothing is tested before the first window.
LEMMA NoSample == ASSUME windows = <<>> PROVE SampleInv
<1>1. DOMAIN windows = {}
  OBVIOUS
<1>2. Tested = {} /\ TotalOosTrades = 0
  BY <1>1, SumOfNone DEF Tested, TotalOosTrades, Total
<1> QED
  BY <1>2, FS_EmptySet DEF SampleInv

\* An asset starts without evidence.
LEMMA NoEvidenceType == NoEvidence \in Evidence /\ NoTrades \in Metrics
<1>1. NoTrades \in Metrics
  BY DEF NoTrades, Metrics
<1> QED
  BY <1>1 DEF NoEvidence, Evidence

\* An asset is reported as what its evidence says, and the next one starts.
LEMMA ReportKeeps ==
  ASSUME WalkInv, SampleInv, EvidenceInv, ReportInv, Working,
         NEW available \in BOOLEAN, NEW class \in Classes, Report(available, class),
         available /\ class = "PAPER_TRADING_ELIGIBLE" =>
           /\ evidence.oos.trades >= MinOosTrades
           /\ TotalOosTrades >= MinWfTrades
  PROVE  SampleInv' /\ EvidenceInv' /\ ReportInv'
<1> DEFINE r == [symbol |-> Sym, available |-> available, class |-> class,
                 tested |-> Cardinality(Tested), oos |-> evidence.oos.trades]
           n == Len(results)
<1>1. /\ results \in Seq(Result) /\ n \in Nat /\ n < Len(Symbols) /\ Len(Symbols) \in Nat
      /\ results' = Append(results, r)
      /\ step' = "ingest" /\ evidence' = NoEvidence /\ windows' = <<>>
  BY InputsAssumption DEF ReportInv, Report, Working
<1>2. SampleInv'
  <2>1. DOMAIN windows' = {}
    BY <1>1
  <2>2. Tested' = {} /\ TotalOosTrades' = 0
    BY <2>1, SumOfNone DEF Tested, TotalOosTrades, Total
  <2> QED
    BY <2>2, FS_EmptySet DEF SampleInv
<1>3. EvidenceInv'
  BY <1>1, NoEvidenceType DEF EvidenceInv
<1>4. evidence.oos.trades \in Nat /\ Cardinality(Tested) \in Nat /\ TotalOosTrades \in Int
  <2>1. evidence.oos \in Metrics
    BY DEF EvidenceInv, Evidence
  <2>2. \A m \in Metrics : m.trades \in Nat
    BY DEF Metrics
  <2>3. TotalOosTrades \in Int
    <3> DEFINE T == [i \in DOMAIN windows |-> windows[i].metrics.trades]
    <3>1. windows \in Seq(Window)
      BY DEF WalkInv, RollInv
    <3>2. IsFiniteSet(DOMAIN windows) /\ \A i \in DOMAIN windows : T[i] \in Int
      BY <3>1, WindowFields
    <3>3. TotalOosTrades = SumFunctionOnSet(T, DOMAIN windows)
      BY DEF TotalOosTrades, Total
    <3> HIDE DEF T
    <3> QED
      BY <3>2, <3>3, SumIsInt
  <2> QED
    BY <2>1, <2>2, <2>3, FS_CardinalityType DEF SampleInv
<1>5. Sym \in STRING /\ Sym = Symbols[n + 1]
  BY <1>1, InputsAssumption DEF Sym
<1>6. r \in Result /\ r.symbol = Symbols[n + 1] /\ Backed(r)
  <2>1. r \in Result /\ r.symbol = Symbols[n + 1]
    BY <1>4, <1>5 DEF Result
  <2>2. StepSize >= OosSize => TotalOosTrades <= Cardinality(Tested)
    BY DEF SampleInv
  <2>3. Backed(r)
    BY <1>4, <2>2, Sizes, GatesAssumption DEF Backed
  <2> QED
    BY <2>1, <2>3
<1> HIDE DEF r
<1>7. /\ results' \in Seq(Result) /\ Len(results') = n + 1 /\ results'[n + 1] = r
      /\ \A i \in DOMAIN results : results'[i] = results[i]
      /\ DOMAIN results' = DOMAIN results \cup {n + 1}
  BY <1>1, <1>6
<1>8. \A i \in DOMAIN results' : results'[i].symbol = Symbols[i] /\ Backed(results'[i])
  BY <1>6, <1>7 DEF ReportInv
<1>9. ReportInv'
  BY <1>1, <1>7, <1>8 DEF ReportInv, Backed
<1> QED
  BY <1>2, <1>3, <1>9

\* The gates that an eligible asset has passed.
LEMMA EligibleHasSamples ==
  ASSUME evidence \in Evidence, FinalClassification(evidence) = "PAPER_TRADING_ELIGIBLE"
  PROVE  evidence.oos.trades >= MinOosTrades /\ evidence.wfTrades >= MinWfTrades
<1>1. OosSample(evidence.oos) = "PASS" /\ WfSample(evidence.wfTrades) = "PASS"
  BY DEF FinalClassification
<1>2. evidence.oos.trades \in Nat /\ evidence.wfTrades \in Nat
  <2>1. evidence.oos \in Metrics /\ evidence.wfTrades \in Nat
    BY DEF Evidence
  <2> QED
    BY <2>1 DEF Metrics
<1> QED
  BY <1>1, <1>2, GatesAssumption DEF OosSample, WfSample

\* A classification is one of five.
LEMMA ClassIsKnown == FinalClassification(evidence) \in Classes
BY DEF FinalClassification, Classes

\* A step that leaves windows and results alone, and keeps what is known.
LEMMA SameSample ==
  ASSUME SampleInv, ReportInv, UNCHANGED walk, UNCHANGED results,
         step \notin {"ingest", "returned", "raised"},
         step' \notin {"returned", "raised"}
  PROVE  SampleInv' /\ ReportInv' /\ TotalOosTrades' = TotalOosTrades
<1>1. UNCHANGED windows
  BY DEF walk
<1>2. TotalOosTrades' = TotalOosTrades /\ Tested' = Tested
  BY <1>1 DEF TotalOosTrades, Total, Tested, TestedBy
<1>3. SampleInv'
  BY <1>2 DEF SampleInv
<1>4. ReportInv'
  BY DEF ReportInv, Backed
<1> QED
  BY <1>2, <1>3, <1>4

\* Types of the evidence, as its fields are set one after the other.
LEMMA EvidenceFields ==
  ASSUME NEW e \in Evidence
  PROVE  /\ \A ok \in BOOLEAN : [e EXCEPT !.dataOk = ok] \in Evidence
         /\ \A m \in Metrics : [e EXCEPT !.full = m] \in Evidence
         /\ \A m \in Metrics : [e EXCEPT !.oos = m] \in Evidence
         /\ \A a, b, c \in Nat :
              [e EXCEPT !.wfTrades = a, !.windows = b, !.passing = c] \in Evidence
         /\ \A x, g \in BOOLEAN, ruin \in Nat :
              [e EXCEPT !.mc = [executed |-> x, ruin |-> ruin, gains |-> g]] \in Evidence
         /\ \A ok \in BOOLEAN : [e EXCEPT !.stressOk = ok] \in Evidence
BY DEF Evidence

\* The counts of the walk-forward report.
LEMMA WalkCounts ==
  ASSUME windows \in Seq(Window)
  PROVE  TotalOosTrades \in Nat /\ Len(windows) \in Nat /\ PassingWindows \in Nat
<1> DEFINE T == [i \in DOMAIN windows |-> windows[i].metrics.trades]
<1>1. IsFiniteSet(DOMAIN windows) /\ \A i \in DOMAIN windows : T[i] \in Nat
  BY WindowFields
<1>2. TotalOosTrades = SumFunctionOnSet(T, DOMAIN windows)
  BY DEF TotalOosTrades, Total
<1> HIDE DEF T
<1>3. TotalOosTrades \in Nat
  BY <1>1, <1>2, SumIsNatural
<1>4. PassingWindows \in Nat
  <2>1. IsFiniteSet({n \in DOMAIN windows : Passing(windows[n])})
    BY <1>1, FS_Subset
  <2> QED
    BY <2>1, FS_CardinalityType DEF PassingWindows
<1> QED
  BY <1>3, <1>4

PipelineInv == WalkInv /\ SampleInv /\ EvidenceInv /\ ReportInv

LEMMA PipelineStep == PipelineInv /\ [Next]_vars => PipelineInv'
<1> SUFFICES ASSUME PipelineInv, [Next]_vars PROVE PipelineInv'
  OBVIOUS
<1>0. WalkInv /\ WalkInv' /\ SampleInv /\ EvidenceInv /\ ReportInv
  BY WalkStep DEF PipelineInv
<1> SUFFICES SampleInv' /\ EvidenceInv' /\ ReportInv'
  BY <1>0 DEF PipelineInv
<1>1. evidence \in Evidence /\ windows \in Seq(Window)
  BY <1>0 DEF EvidenceInv, WalkInv, RollInv
<1>2. CASE Skip
  <2>1. Working /\ Report(FALSE, "") /\ "" \in Classes
    BY <1>2 DEF Skip, Classes
  <2> QED
    BY <1>0, <2>1, ReportKeeps
<1>3. ASSUME NEW df \in Frames, Ingest(df) PROVE SampleInv' /\ EvidenceInv' /\ ReportInv'
  <2>1. /\ UNCHANGED <<windows, evidence, results>> /\ frame' = df /\ step' = "audit"
        /\ Len(results) < Len(Symbols)
    BY <1>3 DEF Ingest, Working
  <2>2. TotalOosTrades' = TotalOosTrades /\ Tested' = Tested
    BY <2>1 DEF TotalOosTrades, Total, Tested, TestedBy
  <2>3. SampleInv'
    BY <1>0, <2>2 DEF SampleInv
  <2>4. EvidenceInv'
    BY <1>0, <2>1 DEF EvidenceInv
  <2>5. ReportInv'
    BY <1>0, <2>1 DEF ReportInv, Backed
  <2> QED
    BY <2>3, <2>4, <2>5
<1>4. CASE AuditData
  <2>1. /\ step = "audit" /\ step' = "backtest" /\ UNCHANGED walk /\ UNCHANGED results
        /\ evidence' = [evidence EXCEPT !.dataOk = Audit(frame) \in {"PASS", "WARNING"}]
    BY <1>4 DEF AuditData
  <2>2. evidence' \in Evidence
    <3>1. (Audit(frame) \in {"PASS", "WARNING"}) \in BOOLEAN
      OBVIOUS
    <3> QED
      BY <1>1, <2>1, <3>1, EvidenceFields
  <2>3. EvidenceInv'
    BY <2>1, <2>2 DEF EvidenceInv
  <2> QED
    BY <1>0, <2>1, <2>3, SameSample
<1>5. ASSUME NEW m \in BacktestMetrics, BacktestFull(m) \/ BacktestOos(m)
      PROVE  SampleInv' /\ EvidenceInv' /\ ReportInv'
  <2>1. /\ step \in {"backtest", "oos"} /\ step' \in {"oos", "walk"}
        /\ UNCHANGED walk /\ UNCHANGED results
        /\ \/ evidence' = [evidence EXCEPT !.full = m]
           \/ evidence' = [evidence EXCEPT !.oos = m]
    BY <1>5 DEF BacktestFull, BacktestOos
  <2>2. m \in Metrics
    BY InputsAssumption DEF IsMetrics, Metrics
  <2>3. evidence' \in Evidence
    BY <1>1, <2>1, <2>2, EvidenceFields
  <2>4. EvidenceInv'
    BY <2>1, <2>3 DEF EvidenceInv
  <2> QED
    BY <1>0, <2>1, <2>4, SameSample
<1>6. ASSUME NEW m \in WindowMetrics, Walk(m) PROVE SampleInv' /\ EvidenceInv' /\ ReportInv'
  <2>1. RollWindow(m) /\ step = "walk" /\ UNCHANGED <<step, frame, evidence, results>>
    BY <1>6 DEF Walk, pipeline
  <2>2. SampleInv'
    BY <1>0, <2>1, RollKeepsSample DEF WalkInv
  <2>3. EvidenceInv'
    BY <1>0, <2>1 DEF EvidenceInv
  <2>4. ReportInv'
    BY <1>0, <2>1 DEF ReportInv, Backed
  <2> QED
    BY <2>2, <2>3, <2>4
<1>7. CASE WalkReport
  <2>1. /\ step = "walk" /\ step' = "monte_carlo" /\ UNCHANGED walk /\ UNCHANGED results
        /\ evidence' = [evidence EXCEPT !.wfTrades = TotalOosTrades, !.windows = Len(windows),
                                        !.passing = PassingWindows]
    BY <1>7 DEF WalkReport
  <2>2. SampleInv' /\ ReportInv' /\ TotalOosTrades' = TotalOosTrades
    BY <1>0, <2>1, SameSample
  <2>3. evidence' \in Evidence
    BY <1>1, <2>1, WalkCounts, EvidenceFields
  <2>4. evidence'.wfTrades = TotalOosTrades
    BY <1>1, <2>1 DEF Evidence
  <2>5. EvidenceInv'
    BY <2>1, <2>2, <2>3, <2>4 DEF EvidenceInv
  <2> QED
    BY <2>2, <2>5
<1>8. ASSUME NEW ruin \in Ruins, NEW gains \in BOOLEAN, MonteCarlo(ruin, gains)
      PROVE  SampleInv' /\ EvidenceInv' /\ ReportInv'
  <2> DEFINE mc == [executed |-> evidence.oos.trades >= MinOosTrades, ruin |-> ruin,
                    gains |-> gains]
  <2>1. /\ step = "monte_carlo" /\ step' = "stress" /\ UNCHANGED walk /\ UNCHANGED results
        /\ evidence' = [evidence EXCEPT !.mc = mc]
    BY <1>8 DEF MonteCarlo
  <2>2. SampleInv' /\ ReportInv' /\ TotalOosTrades' = TotalOosTrades
    BY <1>0, <2>1, SameSample
  <2>3. evidence' \in Evidence
    <3>1. ruin \in Nat /\ (evidence.oos.trades >= MinOosTrades) \in BOOLEAN
      BY InputsAssumption
    <3> QED
      BY <1>1, <2>1, <3>1, EvidenceFields
  <2>4. /\ evidence'.wfTrades = evidence.wfTrades /\ evidence'.oos = evidence.oos
        /\ evidence'.mc = mc
    BY <1>1, <2>1 DEF Evidence
  <2>5. EvidenceInv'
    BY <1>0, <2>1, <2>2, <2>3, <2>4 DEF EvidenceInv
  <2> QED
    BY <2>2, <2>5
<1>9. ASSUME NEW outcomes \in StressOutcomes, Stress(outcomes)
      PROVE  SampleInv' /\ EvidenceInv' /\ ReportInv'
  <2>1. /\ step = "stress" /\ step' = "classify" /\ UNCHANGED walk /\ UNCHANGED results
        /\ evidence' = [evidence EXCEPT !.stressOk = StressPasses(outcomes)]
    BY <1>9 DEF Stress
  <2>2. SampleInv' /\ ReportInv' /\ TotalOosTrades' = TotalOosTrades
    BY <1>0, <2>1, SameSample
  <2>3. evidence' \in Evidence
    <3>1. StressPasses(outcomes) \in BOOLEAN
      BY DEF StressPasses
    <3> QED
      BY <1>1, <2>1, <3>1, EvidenceFields
  <2>4. /\ evidence'.wfTrades = evidence.wfTrades /\ evidence'.oos = evidence.oos
        /\ evidence'.mc = evidence.mc
    BY <1>1, <2>1 DEF Evidence
  <2>5. EvidenceInv'
    BY <1>0, <2>1, <2>2, <2>3, <2>4 DEF EvidenceInv
  <2> QED
    BY <2>2, <2>5
<1>10. CASE Classify
  <2>1. step = "classify" /\ Report(TRUE, FinalClassification(evidence))
    BY <1>10 DEF Classify
  <2>2. Working
    BY <1>0, <2>1 DEF ReportInv, Working
  <2>3. FinalClassification(evidence) = "PAPER_TRADING_ELIGIBLE" =>
          evidence.oos.trades >= MinOosTrades /\ TotalOosTrades >= MinWfTrades
    BY <1>0, <1>1, <2>1, EligibleHasSamples DEF EvidenceInv
  <2> QED
    BY <1>0, <2>1, <2>2, <2>3, ClassIsKnown, ReportKeeps
<1>11. CASE Raise
  <2>1. /\ step' = "raised" /\ results' = <<>> /\ UNCHANGED windows /\ UNCHANGED evidence
    BY <1>11 DEF Raise, walk
  <2>2. TotalOosTrades' = TotalOosTrades /\ Tested' = Tested
    BY <2>1 DEF TotalOosTrades, Total, Tested, TestedBy
  <2>3. SampleInv'
    BY <1>0, <2>2 DEF SampleInv
  <2>4. EvidenceInv'
    BY <1>0, <2>1 DEF EvidenceInv
  <2>5. ReportInv'
    BY <2>1, InputsAssumption DEF ReportInv
  <2> QED
    BY <2>3, <2>4, <2>5
<1>12. ASSUME UNCHANGED <<walk, frame, evidence, results>>, Return \/ UNCHANGED step
       PROVE  SampleInv' /\ EvidenceInv' /\ ReportInv'
  <2>1. TotalOosTrades' = TotalOosTrades /\ Tested' = Tested
    BY <1>12 DEF walk, TotalOosTrades, Total, Tested, TestedBy
  <2>2. SampleInv'
    BY <1>0, <2>1 DEF SampleInv
  <2>3. EvidenceInv'
    BY <1>0, <1>12, <2>1 DEF EvidenceInv, Return
  <2>4. Len(results) \in Nat /\ Len(Symbols) \in Nat
    BY <1>0, InputsAssumption DEF ReportInv
  <2>5. ReportInv'
    BY <1>0, <1>12, <2>4 DEF ReportInv, Backed, Return, Working
  <2> QED
    BY <2>2, <2>3, <2>5
<1>13. CASE Return
  BY <1>12, <1>13 DEF Return
<1>14. CASE UNCHANGED vars
  BY <1>12, <1>14 DEF vars, pipeline
<1> QED
  BY <1>2, <1>3, <1>4, <1>5, <1>6, <1>7, <1>8, <1>9, <1>10, <1>11, <1>13, <1>14 DEF Next


\* PipelineInv is an invariant.
LEMMA PipelineInvHolds == Spec => []PipelineInv
<1>1. Init => PipelineInv
  <2> SUFFICES ASSUME Init PROVE PipelineInv
    OBVIOUS
  <2>1. windows = <<>> /\ rows = 0 /\ step = "ingest" /\ evidence = NoEvidence /\ results = <<>>
    BY DEF Init
  <2>2. WalkInv /\ SampleInv
    BY <2>1, NoWindows, NoSample DEF WalkInv
  <2>3. EvidenceInv
    BY <2>1, NoEvidenceType DEF EvidenceInv
  <2>4. ReportInv
    BY <2>1, InputsAssumption DEF ReportInv
  <2> QED
    BY <2>2, <2>3, <2>4 DEF PipelineInv
<1> QED
  BY <1>1, PipelineStep, PTL DEF Spec

\* On every frame that an ingest may return, the audit's PASS means that the
\* validator accepts the frame and that it has no gap, and the validator's yes
\* that only the number of gaps can worsen the audit's grade.
THEOREM GradesAgree == Spec => []FramesKeepTheirGrade
<1>1. PipelineInv => FramesKeepTheirGrade
  BY FramesAssumption, FramesAgree DEF PipelineInv, EvidenceInv, FramesKeepTheirGrade
<1> QED
  BY <1>1, PipelineInvHolds, PTL

\* A report that says "PAPER_TRADING_ELIGIBLE" is complete, and each asset in it
\* was tested on as many bars as the sample gate asks for trades, none of them
\* twice: for any symbols, frames, window sizes and gates.
THEOREM ReportIsBacked == Spec => []EligibilityIsBacked
<1>1. PipelineInv => EligibilityIsBacked
  <2> SUFFICES ASSUME PipelineInv, step = "returned"
               PROVE  /\ [n \in DOMAIN results |-> results[n].symbol] = Symbols
                      /\ Overall(results) = "PAPER_TRADING_ELIGIBLE" =>
                           \A n \in DOMAIN results :
                             results[n].available =>
                               /\ results[n].oos >= MinOosTrades
                               /\ StepSize >= OosSize => results[n].tested >= MinWfTrades
    BY DEF EligibilityIsBacked
  <2>1. /\ results \in Seq(Result) /\ Len(results) = Len(Symbols) /\ Symbols \in Seq(STRING)
        /\ \A n \in DOMAIN results : results[n].symbol = Symbols[n] /\ Backed(results[n])
    BY InputsAssumption DEF PipelineInv, ReportInv
  <2>2. [n \in DOMAIN results |-> results[n].symbol] = Symbols
    <3>1. /\ DOMAIN results = 1 .. Len(Symbols)
          /\ Symbols = [n \in 1 .. Len(Symbols) |-> Symbols[n]]
      BY <2>1
    <3> QED
      BY <2>1, <3>1
  <2>3. ASSUME Overall(results) = "PAPER_TRADING_ELIGIBLE", NEW n \in DOMAIN results,
               results[n].available
        PROVE  /\ results[n].oos >= MinOosTrades
               /\ StepSize >= OosSize => results[n].tested >= MinWfTrades
    <3> DEFINE classes == {results[i].class : i \in {j \in DOMAIN results : results[j].available}}
    <3>1. results[n].class \in classes
      BY <2>3
    <3>2. classes = {"PAPER_TRADING_ELIGIBLE"}
      BY <2>3 DEF Overall
    <3>3. results[n].class = "PAPER_TRADING_ELIGIBLE"
      BY <3>1, <3>2
    <3> QED
      BY <2>1, <2>3, <3>3 DEF Backed
  <2> QED
    BY <2>2, <2>3
<1> QED
  BY <1>1, PipelineInvHolds, PTL

\* The two verdicts of run_pipeline never contradict each other: whatever the
\* evidence, a readiness that is not REJECTED is PAPER_TRADING with an edge.
THEOREM ReadinessHasEdge == Spec => []ReadinessNeedsEdge
<1>1. PipelineInv => ReadinessNeedsEdge
  <2> SUFFICES ASSUME PipelineInv, step = "classify", PipelineReadiness(evidence) # "REJECTED"
               PROVE  PipelineReadiness(evidence) = "PAPER_TRADING" /\ StatisticalEdge(evidence)
    BY DEF ReadinessNeedsEdge
  <2>1. evidence \in Evidence
    BY DEF PipelineInv, EvidenceInv
  <2>2. /\ evidence.windows \in Nat /\ evidence.passing \in Nat
        /\ evidence.mc \in [executed : BOOLEAN, ruin : Nat, gains : BOOLEAN]
    BY <2>1 DEF Evidence
  <2>3. evidence.mc.ruin \in Nat
    BY <2>2
  <2>4. HardGates(evidence)
    BY DEF PipelineReadiness, Readiness
  <2>5. ExpectsProfit(evidence.oos) /\ ProfitFactorAbove(evidence.oos, 1, 1)
    BY <2>4 DEF HardGates
  <2>6. PipelineReadiness(evidence) = "PAPER_TRADING"
    BY <2>4, <2>5 DEF PipelineReadiness, Readiness
  <2>7. /\ evidence.windows > 0 /\ evidence.passing * 5 >= 3 * evidence.windows
        /\ 100 - evidence.mc.ruin >= 85
    BY <2>4 DEF HardGates, ConsistencyAtLeast
  <2>8. StatisticalEdge(evidence)
    BY <2>2, <2>3, <2>5, <2>7 DEF StatisticalEdge
  <2> QED
    BY <2>6, <2>8
<1> QED
  BY <1>1, PipelineInvHolds, PTL

=============================================================================
