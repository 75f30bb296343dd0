SPECIFICATION BurstSpec
CONSTANTS
  PortId = {a}
  BAD_PORT = BAD_PORT
  NeverUsed = NeverUsed
  MAX_PKT_BURST = 12
  Enabled = {"p1", "p2", "p3"}
  BadPort = "bad"
  NoRoute = "none"
  Kind <- KindMC
  Ingress = {"p1"}
  FwdStep = 2
  EmCount = 2
  MaxBurst = 5
INVARIANTS
  GroupTypeOK
  PnumIsRunLength
  SentToOwnPort
  VectorPort
  TypeOK
  OwnHop
  VectorKeepsGood
