SPECIFICATION Spec
CONSTANTS
  FP_INS = FP_INS
  FP_OPS = FP_OPS
  TOT_INS = TOT_INS
  BR_INS = BR_INS
  TOT_CYC = TOT_CYC
  Events <- MCEvents
  Platforms <- MCPlatforms
  Together <- MCTogether
  NumCntrs = 3
  Rates <- MCRates
  EventOf <- MCEventOf
  Lists <- MCLists
  FailingCalls = {"start", "stop"}
  NoInfo = NoInfo
  MaxTotal = 2
INVARIANTS TypeOK LevelAgrees EventsAreTheCalls
PROPERTIES SeriesStartsAtZero
