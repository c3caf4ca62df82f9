SPECIFICATION FairLinkSpec
CONSTANTS
  UnpackBufSize = 15
  UnpackTimeout = 1
  TimeMod = 4
  OnceSize = 2
  MaxPoll = 0
  RecvTimeout = 1
  RxSize = 2
  MaxLag = 2
  Lines <- CutLines
PROPERTY
  Resynchronises
