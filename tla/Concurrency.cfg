SPECIFICATION Spec
CONSTANTS
  Pair = {p1, p2}
  Trio = {t1, t2, t3}
  P = 3
  Sizes = {3}
  Grains = {0, 1}
  QSize = 3
  Addresses = {a1, a2, a3}
  ChunkSize = 1
  Chunks = 3
  EpochWorkers = 2
  Writers = {1}
  Steps = 2
  Reserve = 1
  MaxEpoch = 4
  Words = {0, 1}
  MaxWrites = 2
  CellKeys = {1, 2, 3}
  CellValues = {0, 1}
  CellCount = 7
  CellHash <- MCHash
  CellCalls = 5
  Threshold = 1
  MaxPushes = 3
  ListLength = 2
  MaxLists = 3
  PoolSizes <- MCSizes
  SmallPools = 1
  Alignment = 4
  Padding = 1
  Requests = {1, 2, 3, 5, 7, 8}
  MaxBlocks = 3
  Nobody = Nobody
  Null = Null
  Absent = Absent
INVARIANTS IterationsOnce JobsRunOnce ElementsOwned HeldNotDestructed Linearizable
INVARIANTS HistoryIndependent LoadsAreWhole StackIsWhole MemorySound
SYMMETRY Sym
CHECK_DEADLOCK FALSE
