SPECIFICATION Spec
CONSTANTS
  A = A  B = B  C = C  D = D
  a = a  b1 = b1  b2 = b2  c1 = c1  c2 = c2  d = d
  Host <- LineHosts
  Port <- LinePorts
  Owner <- LineOwner
  Peers <- LinePeers
  MaxForward = 2
  SeqMod = 4
  InitRoutes <- TowardsD
  LateRoutes <- None
  MayTalk <- LineTalk
  ByPort <- LineByPort
  MaxBatch = 2
  MaxSends = 3
  LossyPorts = {b1, c1}
  Behind <- LineBehind
  Distance <- LineDistance
INVARIANTS
  InOrderOnce
  AckNeverStranded
PROPERTIES
  ImplementsMessaging
CHECK_DEADLOCK FALSE
