SPECIFICATION Spec
CHECK_DEADLOCK FALSE
CONSTANTS
  Symbols <- MCSymbols
  Frames <- MCFrames
  BacktestMetrics <- MCBacktestMetrics
  WindowMetrics <- MCWindowMetrics
  StressOutcomes <- MCStressOutcomes
  Ruins = {0, 12, 60}
  TrainSize = 5
  OosSize = 3
  StepSize = 3
  MinFullTrades = 2
  MinOosTrades = 2
  MinWfTrades = 4
  NaN = NaN
  NoClaim = NoClaim
  Timeframe = 2
  Day = 10
  GapTolerance = 1
  MaxStale = 4
  MaxGaps = 3
INVARIANTS
  EveryBarIsTestedOnce
  AggregateNeverFlatters
  EligibilityIsBacked
  ReadinessNeedsEdge
  FramesKeepTheirGrade
