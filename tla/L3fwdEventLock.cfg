CONSTANTS
  Lcore = {main, w1, w2}
  Main = main
  NbPorts = 1
  LoopModes = {"single", "burst"}
  DeqDepth = 2
  MaxPkt = 1
  NoLcore = none
SPECIFICATION FairSpec
PROPERTIES QuitCompletes
CHECK_DEADLOCK FALSE
