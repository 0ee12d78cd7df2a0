SPECIFICATION Spec
CONSTANTS
  Trade <- MCPriced
  MaxLen = 3
  IntMax = 100
INVARIANTS TickCountsOfWindow
CHECK_DEADLOCK FALSE
