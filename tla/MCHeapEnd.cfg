CONSTANTS
  Buffs = {4, 5}
  Sizes = {9, 12}
  Aligns = {0, 4}
  Buffers <- AllBuffers
  Requests <- SomeRequests
  AddrMod = 1000
  MaxUsed = 14
SPECIFICATION HeapSpec
INVARIANT BlocksInPool
CHECK_DEADLOCK FALSE
