SPECIFICATION Spec
CONSTANTS
  Enabled = {"p1", "p2", "p3"}
  BadPort = "bad"
  NoRoute = "none"
  Kind <- KindMC
  Ingress = {"p1"}
  FwdStep = 2
  EmCount = 2
  MaxBurst = 3
INVARIANTS InvalidGetsBadPort
