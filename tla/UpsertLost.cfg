SPECIFICATION Spec
CONSTANTS
  Procs = {p1, p2}
  Keys = {"k1", "k2", "k3"}
  HashBits = 2
  Hash <- MCHash
  Ops = {"find", "insert", "upsert", "remove"}
  Prefilled <- MCPrefilled
  BufferSize = 1
  GrowBits = 1
  FirstBits = 1
  BlockSize <- MCBlock
  OverflowSize = 1
  MaxVersions = 2
  MaxOps = 2
INVARIANTS UpdatesKeepTheTable
SYMMETRY Sym
CHECK_DEADLOCK FALSE
