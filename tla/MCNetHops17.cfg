SPECIFICATION FairSpec
CONSTANTS
  A = A  B = B  C = C  D = D
  a = a  b1 = b1  b2 = b2  c1 = c1  c2 = c2  d = d
  Host <- RingHosts
  Port <- RingPorts
  Owner <- RingOwner
  Peers <- RingPeers
  MaxForward = 17
  SeqMod = 2
  InitRoutes <- Around
  LateRoutes <- None
  MayTalk <- RingTalk
  ByPort <- RingByPort
  MaxBatch = 1
  MaxSends = 1
  LossyPorts = {}
INVARIANT HopLimit
CHECK_DEADLOCK FALSE
