CONSTANTS
  Lcore = {main, w1, w2}
  Main = main
  NbPorts = 2
  LoopModes = {"single", "burst", "vector"}
  DeqDepth = 2
  MaxPkt = 2
  NoLcore = none
SPECIFICATION FairSpec
INVARIANTS TypeOK EventPortExclusive RoutedOnce NoUseAfterClose
PROPERTIES QuitCompletes
