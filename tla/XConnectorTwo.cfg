SPECIFICATION SharedFairSpec
CONSTANTS
  k1 = k1
  k2 = k2
  p1 = p1
  p2 = p2
  p3 = p3
  Connectors = {k1, k2}
  Peers = {p1, p2}
  target <- TwoPeers
  Fds = {3}
  NoPeer = NoPeer
  NoFd = NoFd
  MaxEvents = 2
  MaxRequests = 1
  Interruptible = {}
INVARIANTS
  DescriptorsOwned
PROPERTIES
  
  
  EveryPeerAnswered
CHECK_DEADLOCK FALSE
