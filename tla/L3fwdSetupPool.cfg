SPECIFICATION Spec
CONSTANTS
  MaxPorts = 2
  MaxLcores = 2
  MaxQueues = 2
  MaxRxPerLcore = 2
  MaxParams = 3
  Sockets = {0, 1}
  SocketOf <- OneSocket
  PerPortPool = FALSE
  RxDesc = 2
  TxDesc = 1
  MaxPktBurst = 1
  CacheSize = 1
  MinMbufs = 3
INVARIANT PoolCoversPorts
