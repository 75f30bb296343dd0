SPECIFICATION StartupSpec
CONSTANTS
  RteMaxEthports = 4
  RteMaxLcore = 2
  MaxRxQueue = 2
  MaxPairs = 2
  MaxPorts = 2
  MaxLcores = 2
  MaxQueues = 2
  MaxRxPerLcore = 2
  MaxParams = 3
  Sockets = {0, 1}
  SocketOf <- TwoSockets
  PerPortPool = TRUE
  RxDesc = 2
  TxDesc = 1
  MaxPktBurst = 1
  CacheSize = 1
  MinMbufs = 3
  EventQueueLimits = {1, 2, 3}
  EventPortLimits = {1, 2}
  MaxService = 2
  MaxCheckTime = 2
  Addr <- MCAddr
  Prefix <- MCPrefix
  PortNo = {0, 1, 2, 3, 4}
  EnabledPort = {0, 2, 3}
  Existing = {0, 1, 2}
  Width = 4
  Lines <- MCLines
  MaxLines <- MCMaxLines
  MaxRules <- MCMaxRules
  Default <- MCDefault
INVARIANTS
  SetupTypeOK
  DstInvolution
  DstAsConfigured
  PolledOnce
  ExitCoresOnlyWhenFull
  StartTypeOK
  RxQueuesShared
  TxQueueExclusive
  MemoryReady
  EventQueueOwned
  ServicesSpread
  LinksPrinted
  RulesTypeOK
  TablesFollowFile
  RefusedForCause
