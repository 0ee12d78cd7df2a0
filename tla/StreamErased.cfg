SPECIFICATION Spec
CONSTANTS
  Symbols = {AMZN}
  CalcTypes <- MCOneCalc
  Window = 1
  Reserved = 1
  MaxTrades = 2
  MaxClock = 2
  MayStop = FALSE
  Null = Null
INVARIANTS ReadsLiveEntries
CHECK_DEADLOCK FALSE
