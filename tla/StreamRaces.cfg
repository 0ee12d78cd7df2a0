SPECIFICATION Spec
CONSTANTS
  Symbols = {AMZN}
  CalcTypes <- MCCalcTypes
  Window = 1
  Reserved = 2
  MaxTrades = 3
  MaxClock = 2
  MayStop = FALSE
  Null = Null
INVARIANTS TypeOK CoverageSound WindowFresh
PROPERTIES EvictsOnlyExpired ImplementsPipeline
CHECK_DEADLOCK FALSE
