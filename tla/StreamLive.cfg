SPECIFICATION FairSpec
CONSTANTS
  Symbols = {AMZN}
  CalcTypes <- MCTwoCalcs
  Window = 0
  Reserved = 1
  MaxTrades = 2
  MaxClock = 1
  MayStop = TRUE
  Null = Null
INVARIANTS NoTradeLost
PROPERTIES TradesReachWindow StopEndsThreads
CHECK_DEADLOCK FALSE
