SPECIFICATION TraceSpec
CHECK_DEADLOCK FALSE
CONSTANTS
  Charts <- MCCharts
  Candles = {}
  Signals = {}
  MaxSignals = 4
  Days <- MCDays
  LatencyBars = 0
  MaxOpen = 2
  BreakEvenR = 1
  TrailMult = 2
  InitialEquity = 10000
  EntrySlip = 1
  ExitSlip = 0
  Fee = 1
  Rejections = FALSE
  PartialFills = FALSE
  InitialRisk = 20000
  MaxRisk = 20000
  NoValue = NaN
  NaN = NaN
  MinRr = 2
  AdxMin = 20
  AdxWeak = 20
  AdxStrong = 25
  RankLow = 15
  RankHigh = 85
  RsiOversold = 30
  RsiOverbought = 70
  AtrMinBps = 20
  AtrMaxBps = 300
  MaxSpread = 10
  MinScore = 75
INVARIANTS
  EveryBarIsTracedOnce
  TracerTakesAPrefix
  SimulatorRefusesForTheMarket
  BaselineIsTheEngine
