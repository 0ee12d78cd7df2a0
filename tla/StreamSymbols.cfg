SPECIFICATION Spec
CONSTANTS
  Symbols = {AMZN, GOOG, MSFT}
  CalcTypes <- MCOneCalc
  Window = 1
  Reserved = 2
  MaxTrades = 3
  MaxClock = 0
  MayStop = FALSE
  Null = Null
SYMMETRY SymbolSymmetry
INVARIANTS ReceiptOrder TraversalExact SnapshotPublished
CHECK_DEADLOCK FALSE
