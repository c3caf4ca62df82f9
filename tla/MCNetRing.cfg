SPECIFICATION FairSpec
CONSTANTS
  A = A  B = B  C = C  D = D
  a = a  b1 = b1  b2 = b2  c1 = c1  c2 = c2  d = d
  Host <- RingHosts
  Port <- RingPorts
  Owner <- RingOwner
  Peers <- RingPeers
  MaxForward = 4
  SeqMod = 2
  InitRoutes <- Around
  LateRoutes <- ShortCut
  MayTalk <- RingTalk
  ByPort <- RingByPort
  MaxBatch = 1
  MaxSends = 2
  LossyPorts = {}
INVARIANTS
  TypeOK
  HopLimit
  AnswerPath
PROPERTIES
  EventuallyQuiet
  RequestAnswered
CHECK_DEADLOCK FALSE
