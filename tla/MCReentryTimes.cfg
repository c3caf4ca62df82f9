SPECIFICATION Spec
CONSTANTS
  UnpackBufSize = 16
  UnpackTimeout = 0
  TimeMod = 2
  ReadSizes = {1, 3, 16}
  MaxDepth = 3
  Configured = {4}
  Lines <- MCLines
INVARIANT TimesAreOfSenders
CHECK_DEADLOCK FALSE
