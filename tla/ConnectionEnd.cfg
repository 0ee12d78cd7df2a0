SPECIFICATION FairSpec
CONSTANTS
  Subscriptions = {AMZN, GOOG}
  MaxTrades = 2
PROPERTIES ConnectionEndEndsIo
CHECK_DEADLOCK FALSE
