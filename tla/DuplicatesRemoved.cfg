SPECIFICATION AlgorithmsSpec
CONSTANTS
  Trade <- MCTrade
  MaxLen = 3
  IntMax = 2
  InputKeys = {0, 1, 2}
  MaxInput = 6
  BlockSize = 2
  RootFactor = 1
  Torn = Torn
  SeqThreshold = 3
  PerBlock = 2
  Radix = 1
  BaseBits = 1
  BaseCase = 3
  SearchBase = 1
  MergeBase = 2
  MergeSortBase = 2
  QuickBase = 5
  CutSize = 5
  BucketBits = 2
  BucketBase = 4
  PerSample = 400
  TransBase = 2
  TransFactor = 1
  SampleBase = 4
  BlockQuotient = 2
  BucketQuotient = 1
  SampleBlocks = 1
  OverSample = 1
  Hash <- MCHash
  Granularity = 1
  CrThreshold = 3
  MaxFew = 4
  PerFew = 1
  CrBits = 1
  FewFactor = 1
  Copies = 2
  SparseThreshold = 4
  KeyHash <- MCKeyHash
  ViewBlock = 2
  ShuffleOffset = 1
  ListChunk = 2
  NChunks = 6
  Values = {v, w}
  Raw = Raw
  Moved = Moved
  ShortCapacity = 2
  ChunkSize = 2
  MaxStored = 3
  MaxReserve = 3
SYMMETRY Symmetry
CHECK_DEADLOCK FALSE
PROPERTY DuplicatesRemoved
