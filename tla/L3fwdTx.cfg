SPECIFICATION FairSpec
CONSTANTS
  p0 = p0
  p1 = p1
  PortSeq <- TwoPorts
  NRxQueue = 1
  MaxPktBurst = 3
  SendPaths = {"multi", "single"}
  BadPort = BadPort
  Denied = Denied
  MaxRx = 4
INVARIANTS
  TypeOK
  StatsExact
  InOrder
PROPERTIES
  EventuallyOut
  QuitReturns
