SPECIFICATION FairSpec
CONSTANTS
  Subscriptions = {AMZN, GOOG}
  MaxTrades = 2
PROPERTIES SubscribedContinues
CHECK_DEADLOCK FALSE
