CONSTANTS
  Few = {0, 57, 170, 255}
  MaxBytes = 3
  MULTI_MSG_SEND_MAX_CNT = 3
  Pkgs <- SomePkgs
  Rooms <- SomeRooms
  Noise = {0, 1, 85, 170, 255}
  Buffs = {4, 5}
  Sizes = {0, 9, 12}
  Aligns = {0, 4}
  Buffers <- AllBuffers
  Requests <- SomeRequests
  AddrMod = 1000
  MaxUsed = 14
  RingByte = {0, 1}
  Size = 4
  SpaceMod = 4
  MaxLen = 4
  InitPorts = 2
  MaxPorts = 4
  MaxRuns = 5
  MaxDepth = 3
  OnceSize = 3
  MaxPoll = 2
  RecvTimeout = 1
  TimeMod = 4
  RxSize = 4
  MaxLag = 2
SPECIFICATION PartsSpec
INVARIANTS
  XmodemChecksum
  StaysInRoom
  PackedAreFrames
  DamageShows
  HeapTypeOK
  BlocksApart
  BlocksAligned
  OnlyLastOverruns
  RingTypeOK
  EmptyAndFull
  LoopTypeOK
  TypeOK
  ReadsBounded
PROPERTIES
  PoolContract
  ImplementsFifo
  NoPortStarved
  RunEnds
CHECK_DEADLOCK FALSE
