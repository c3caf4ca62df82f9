SPECIFICATION Spec
CONSTANTS
  UnpackBufSize = 32
  UnpackTimeout = 1
  TimeMod = 4
  MaxPieces = 2
  Lines <- MCLines
INVARIANTS
  TypeOK
  BufferPosition
  DeliveredAreFrames
  DeliveredOnce
