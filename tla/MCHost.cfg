CONSTANTS
  self = self
  x = x
  both = both
  readOnly = readOnly
  writeOnly = writeOnly
  m1 = m1
  f = f
  g = g
  HostId = {self, x}
  Self = self
  Port = {both, readOnly, writeOnly}
  Desc <- Descs
  MsgId = {m1}
  Handler = {f, g}
  NoHandler = NoHandler
  PkgSize = {28, 29}
  MultiHandler = TRUE
  MaxForward = 1
  MaxPorts = 2
SPECIFICATION Spec
INVARIANTS TypeOK SendsFollowGrants RoutableWhileMemoryLasts LastRecvTimeTrue NoHandlerShadowed
PROPERTY FailureAtomic
SYMMETRY HandlerSymmetry
