SPECIFICATION Spec
CONSTANTS
  Trades = {t1, t2}
  Openings <- MCOpenings
  Bars <- MCBars
  BreakEvenR = 2
  TrailMult = 2
  NoTrade = NoTrade
  Unset = Unset
INVARIANTS
  TypeOK
  BreakEvenIsSafe
  StopBehindMarket
PROPERTIES
  StopNeverLoosens
