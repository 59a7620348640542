SPECIFICATION Spec
CONSTANTS
  Signals = {s1, s2}
  Lots = {1, 2}
  NoSignal = NoSignal
  NoId = NoId
  MaxAttempts = 2
  MaxOrders = 3
SYMMETRY Symmetry
INVARIANTS
  TypeOK
  OneLiveOrderPerSignal
  RegistryTellsTheTruth
  OpenOrdersAreCovered
