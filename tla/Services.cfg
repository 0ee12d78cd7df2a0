SPECIFICATION ServicesFair
CONSTANTS
  Subscriptions = {AMZN, GOOG}
  MaxTrades = 2
  Interval = 2
  MaxSteady = 7
  Symbols <- MCSymbols
  NoData = NoData
  MaxQueries = 5
  Waiters = {w1, w2}
  Notifiers = {n1}
  Strategies = {"futex", "condvar", "direct"}
  Nobody = Nobody
  MaxNotifies = 2
  Absent = Absent
INVARIANTS TypeOK UsedObjectsAlive 
INVARIANTS NotTooOften FailuresAreContained
PROPERTIES StopEndsSession StopEndsProgram TicksMadeUp StopEndsRun SchedulerEnds ChangeIsNoticed
CHECK_DEADLOCK FALSE
