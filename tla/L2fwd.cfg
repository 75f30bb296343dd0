SPECIFICATION FairSpec
CONSTANTS
  main = main
  worker = worker
  MainLcore = main
  Lcore <- PairLcore
  PortSeq <- PairPorts
  RxPortList <- PairLists
  Dst <- PairDst
  MaxPktBurst = 2
  MaxRx <- PairMaxRx
INVARIANTS
  TypeOK
  Conservation
  BufferFits
  RateNotNegative
  NoUseAfterClose
PROPERTIES
  FwdSpec
  EventuallyOut
  QuitCompletes
