SPECIFICATION Spec
CONSTANTS
  p0 = p0
  p1 = p1
  PortSeq <- TwoPorts
  NRxQueue = 1
  MaxPktBurst = 3
  SendPaths = {"acl"}
  BadPort = BadPort
  Denied = Denied
  MaxRx = 6
INVARIANTS
  StoredInTable
