SPECIFICATION Spec
CHECK_DEADLOCK FALSE
CONSTANTS
  Candles <- MCCandles
  Days <- MCDays
  Signals <- MCSignals
  MaxSignals = 2
  LatencyBars = 0
  MaxOpen = 1
  BreakEvenR = 1
  TrailMult = 2
  InitialEquity = 100
  EntrySlip = 0
  ExitSlip = 1
  Fee = 1
  Rejections = FALSE
  PartialFills = FALSE
  NoValue = NoValue
INVARIANT
  LimitCountsOpenPositions
