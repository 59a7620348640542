SPECIFICATION Spec
CONSTANTS
  Configs <- MCConfigs
  NoEvidence = NoEvidence
  Symbols = {"BTC", "ETH"}
  NoSymbol = NoSymbol
  NoPrice = NoPrice
  StartingBalance = 100
  Slip = 1
  Unit = 10
  FeeRate = 1
  Window = 2
  MinTradesToEvaluate = 2
  OosExpectancy = 2
  OosFactorAboveOne = TRUE
  Prices <- MCPrices
  LotSizes <- MCLotSizes
  LiveResults <- MCLiveResults
  MaxEntries = 3
INVARIANTS
  GuardAgreesWithStartup
  AtMostOneBlindOrder
PROPERTIES
  OrdersNeedAStart
