SPECIFICATION Spec
CONSTANTS
  Symbols <- MCSymbols
  Signals <- MCSignals
  InitialEquity = 2000
  DailyMaxDD = 300
  EmergencyDD = 500
  MaxLosses = 2
  MaxOpen = 2
  InitialRisk = 100
  MaxRisk = 200
  Outcomes <- MCOutcomes
  Links <- MCLinks
  Marks <- MCMarks
  MaxCloses = 4
  NoTrade = NoTrade
INVARIANTS
  TypeOK
  EmergencyNeedsShock
  OpenWithinLimit
  RegistryCoversBook
PROPERTIES
  ApprovalsSeeTrueEquity
  ApprovalsKeepLeverage
  CloseVerdictMatchesBreakers
  StreakLockIsTerminal
