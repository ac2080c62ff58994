SPECIFICATION Spec
CONSTANTS
  k1 = k1
  k2 = k2
  p1 = p1
  p2 = p2
  p3 = p3
  Connectors = {k1}
  Peers = {p1, p2, p3}
  target <- OneTarget
  Fds = {3, 4}
  NoPeer = NoPeer
  NoFd = NoFd
  MaxEvents = 2
  MaxRequests = 2
  Interruptible = {k1}
SYMMETRY PeerSymmetry
INVARIANTS
  TypeOK
  ConnectionsPaired
  RequestsConserved
  ReadNeverBlocks
CHECK_DEADLOCK FALSE
