CONSTANTS
  Lcore = {main, w1, w2}
  Main = main
  NbPorts = 2
  LoopModes = {"single", "burst"}
  DeqDepth = 2
  MaxPkt = 2
  NoLcore = none
SPECIFICATION Spec
INVARIANTS BadPortFreed
