----------------------------- MODULE L3fwdSetup -----------------------------
(***************************************************************************)
(* The set-up of l3fwd in poll mode (l3fwd_poll_resource_setup): from the  *)
(* (port, queue, lcore) triples of --config and the port mask to the RX    *)
(* queues each lcore polls, the TX queue it has on each port and the       *)
(* mempools.  Module L3fwdTx relies on the result: an RX queue, a TX queue *)
(* and the tx_mbufs[] in front of it belong to one lcore, and the drain    *)
(* covers every port.                                                      *)
(*                                                                         *)
(* The checks come late: lcore_conf is filled before the ports are looked  *)
(* at, and queue numbers are looked at when their port is initialised.     *)
(* What the library refuses (an unknown device, too many queues) ends the  *)
(* program at once and is left out.                                        *)
(***************************************************************************)
EXTENDS Integers, Sequences, FiniteSets
LOCAL INSTANCE FiniteSetsExt

CONSTANTS
  MaxPorts,       \* RTE_MAX_ETHPORTS
  MaxLcores,      \* RTE_MAX_LCORE
  MaxQueues,      \* MAX_RX_QUEUE_PER_PORT
  MaxRxPerLcore,  \* MAX_RX_QUEUE_PER_LCORE, the length of rx_queue_list
  MaxParams,      \* MAX_LCORE_PARAMS
  Sockets,        \* the sockets, at most NB_SOCKETS
  SocketOf,       \* rte_lcore_to_socket_id; constant with --no-numa
  PerPortPool,    \* per_port_pool
  RxDesc, TxDesc, \* nb_rxd, nb_txd
  MaxPktBurst,    \* MAX_PKT_BURST
  CacheSize,      \* MEMPOOL_CACHE_SIZE
  MinMbufs        \* the 8192 of NB_MBUF

ASSUME L3fwdSetupAssumption ==
  /\ {MaxPorts, MaxLcores, MaxQueues, MaxRxPerLcore, MinMbufs} \subseteq Nat \ {0}
  /\ SocketOf \in [0 .. MaxLcores - 1 -> Sockets]
  /\ PerPortPool \in BOOLEAN
  /\ {MaxParams, RxDesc, TxDesc, MaxPktBurst, CacheSize} \subseteq Nat

PortId  == 0 .. MaxPorts - 1
LcoreId == 0 .. MaxLcores - 1

\* parse_config refuses a number only when it is greater than the maximum, which is one
\* more than the last port or lcore there can be; its own maximum for queues is higher
\* still than MAX_RX_QUEUE_PER_PORT.
ParsedParam == [port : 0 .. MaxPorts, queue : 0 .. MaxQueues, lcore : 0 .. MaxLcores]

VARIABLES
  valid,        \* the ports RTE_ETH_FOREACH_DEV visits
  mask,         \* enabled_port_mask
  enLcores,     \* the lcores with rte_lcore_is_enabled
  params,       \* lcore_params, its length is nb_lcore_params
  pc,           \* the part of the set-up being run
  idx,          \* index of the loop being run
  rxQueueList,  \* lcore_conf[l].rx_queue_list; n_rx_queue is its length
  nbRxq,        \* RX queues each port was configured with, -1 before
  txQueueId,    \* lcore_conf[l].tx_queue_id[p], -1 for none yet
  txPortId,     \* lcore_conf[l].tx_port_id; n_tx_port is its length
  pool,         \* size of pktmbuf_pool[p][s], 0 for NULL
  lkpSetups,    \* how often l3fwd_lkp.setup was called for the socket; lkp_per_socket
                \* says whether
  lkpOf,        \* the sockets whose tables lcore_conf[l].ipv4_lookup_struct points to
  rxReady       \* the <<port, queue>> rte_eth_rx_queue_setup was called for

inputs == <<valid, mask, enLcores, params>>
mem    == <<pool, lkpSetups, lkpOf>>
ports  == <<nbRxq, txQueueId, txPortId, mem>>
vars   == <<inputs, pc, idx, rxQueueList, ports, rxReady>>

CommonInit ==
  /\ valid \in (SUBSET PortId) \ {{}}
  /\ mask \in (SUBSET PortId) \ {{}}           \* parse_args refuses an empty mask
  /\ enLcores \in (SUBSET LcoreId) \ {{}}
  /\ idx = 0
  /\ rxQueueList = [l \in LcoreId |-> <<>>]
  /\ nbRxq = [p \in PortId |-> -1]
  /\ txQueueId = [l \in LcoreId |-> [p \in PortId |-> -1]]
  /\ txPortId = [l \in LcoreId |-> <<>>]
  /\ pool = [p \in PortId |-> [s \in Sockets |-> 0]]
  /\ lkpSetups = [s \in Sockets |-> 0]
  /\ lkpOf = [l \in LcoreId |-> {}]
  /\ rxReady = {}

PollInit ==
  /\ params \in UNION {[1 .. n -> ParsedParam] : n \in 0 .. MaxParams}
  /\ pc = "checkLcores"

Init == CommonInit /\ PollInit

\* The ports that are present and enabled.
Active == valid \cap mask

-----------------------------------------------------------------------------
BadLcoreParam(e) == e.queue >= MaxQueues \/ e.lcore \notin enLcores

CheckLcoreParams ==
  /\ pc = "checkLcores"
  /\ pc' = IF \E k \in DOMAIN params : BadLcoreParam(params[k]) THEN "exitLcores" ELSE "rxQueues"
  /\ UNCHANGED <<idx, rxQueueList, ports, rxReady>>

ListFullLate(l) == Len(rxQueueList[l]) > MaxRxPerLcore   \* a mistake: one too many
ListFull(l) == Len(rxQueueList[l]) >= MaxRxPerLcore

\* One iteration of init_lcore_rx_queues.
InitLcoreRxQueue ==
  /\ pc = "rxQueues" /\ idx < Len(params)
  /\ LET e == params[idx + 1]
     IN  IF ListFull(e.lcore)
         THEN pc' = "exitFull" /\ UNCHANGED <<idx, rxQueueList>>
         ELSE /\ rxQueueList' =
                   [rxQueueList EXCEPT ![e.lcore] = Append(@, [port |-> e.port, queue |-> e.queue])]
              /\ idx' = idx + 1
              /\ UNCHANGED pc
  /\ UNCHANGED <<ports, rxReady>>

\* The tests of the bit in the mask (for RTE_MAX_ETHPORTS the shift wraps to port 0's bit)
\* and of the presence of the port.
BadPort(p) == p % MaxPorts \notin mask \/ p \notin valid

CheckPortConfig ==
  /\ pc = "rxQueues" /\ idx = Len(params)
  /\ pc' = IF \E k \in DOMAIN params : BadPort(params[k].port) THEN "exitPorts" ELSE "initPorts"
  /\ idx' = 0
  /\ UNCHANGED <<rxQueueList, ports, rxReady>>

\* The triples of port p.
ParamsOf(p) == {k \in DOMAIN params : params[k].port = p}

\* get_port_n_rx_queues: the k-th triple of the port has queue k - 1.  A mistake is to let a
\* queue come again.
InSequenceLoose(p) ==
  \A k \in ParamsOf(p) : params[k].queue <= Cardinality({j \in ParamsOf(p) : j < k})
InSequence(p) ==
  \A k \in ParamsOf(p) : params[k].queue = Cardinality({j \in ParamsOf(p) : j < k})

NLcores == Cardinality(enLcores)

\* NB_MBUF(nports), with the numbers of the port at hand.
NbMbuf(nports, nRxq) ==
  LET n == nports * nRxq * RxDesc + nports * NLcores * MaxPktBurst
             + nports * NLcores * TxDesc + NLcores * CacheSize
  IN  IF n > MinMbufs THEN n ELSE MinMbufs

UsedSockets == {SocketOf[l] : l \in enLcores}

\* Where init_mem and the RX queues of port p have their pools.
PoolIndex(p) == IF PerPortPool THEN p ELSE 0

PoolSize(nRxq) == IF PerPortPool THEN NbMbuf(1, nRxq) ELSE NbMbuf(Cardinality(valid), nRxq)

\* The sockets l3fwd_lkp.setup is called for when a pool is created on s: a mistake is not
\* to look at lkp_per_socket.
NeedsLookupAlways(s) == TRUE
NeedsLookup(s) == lkpSetups[s] = 0

\* init_mem(k, size): a pool on every socket of an enabled lcore that has none, the lookup
\* tables of the socket with its first pool, and the lcores' pointers to them.
InitMem(k, size) ==
  LET new == {s \in UsedSockets : pool[k][s] = 0}
  IN  /\ pool' = [pool EXCEPT ![k] = [s \in Sockets |-> IF s \in new THEN size ELSE @[s]]]
      /\ lkpSetups' = [s \in Sockets |->
                         IF s \in new /\ NeedsLookup(s) THEN lkpSetups[s] + 1 ELSE lkpSetups[s]]
      /\ lkpOf' = [l \in LcoreId |->
                     IF l \in enLcores THEN {s \in {SocketOf[l]} : lkpSetups'[s] > 0} ELSE lkpOf[l]]

\* The queueid a port's loop over the lcores is at when it comes to l; mistakes are not to
\* count it up, and to count it up too early.
QueueIdSame(l) == 0
QueueIdEarly(l) == Cardinality({m \in enLcores : m <= l})
QueueId(l) == Cardinality({m \in enLcores : m < l})

\* One port of the initialisation loop: its queue numbers, its pool, and a TX queue for
\* every lcore.  The TX queues are as many as the lcores (MAX_TX_QUEUE_PER_PORT is
\* RTE_MAX_LCORE).
InitPort ==
  /\ pc = "initPorts" /\ idx < MaxPorts
  /\ IF idx \in Active /\ ~InSequence(idx)
     THEN pc' = "exitSequence" /\ UNCHANGED <<idx, ports>>
     ELSE /\ idx' = idx + 1
          /\ UNCHANGED pc
          /\ IF idx \notin Active
             THEN UNCHANGED ports
             ELSE /\ nbRxq' = [nbRxq EXCEPT ![idx] = Cardinality(ParamsOf(idx))]
                  /\ InitMem(PoolIndex(idx), PoolSize(Cardinality(ParamsOf(idx))))
                  /\ txQueueId' = [l \in LcoreId |->
                       IF l \in enLcores THEN [txQueueId[l] EXCEPT ![idx] = QueueId(l)]
                       ELSE txQueueId[l]]
                  /\ txPortId' = [l \in LcoreId |->
                       IF l \in enLcores THEN Append(txPortId[l], idx) ELSE txPortId[l]]
  /\ UNCHANGED <<rxQueueList, rxReady>>

InitPortsEnd ==
  /\ pc = "initPorts" /\ idx = MaxPorts
  /\ pc' = "initRx"
  /\ idx' = 0
  /\ UNCHANGED <<rxQueueList, ports, rxReady>>

\* The queues of one lcore.
InitRxQueues ==
  /\ pc = "initRx" /\ idx < MaxLcores
  /\ idx' = idx + 1
  /\ rxReady' =
       IF idx \in enLcores
       THEN rxReady \cup {<<rxQueueList[idx][k].port, rxQueueList[idx][k].queue>> :
                            k \in DOMAIN rxQueueList[idx]}
       ELSE rxReady
  /\ UNCHANGED <<pc, rxQueueList, ports>>

Start ==
  /\ pc = "initRx" /\ idx = MaxLcores
  /\ pc' = "started"
  /\ UNCHANGED <<idx, rxQueueList, ports, rxReady>>

Finished == {"started", "exitLcores", "exitFull", "exitPorts", "exitSequence"}

Terminated == pc \in Finished /\ UNCHANGED <<pc, idx, rxQueueList, ports, rxReady>>

PollSetup ==
  \/ CheckLcoreParams \/ InitLcoreRxQueue \/ CheckPortConfig
  \/ InitPort \/ InitPortsEnd \/ InitRxQueues \/ Start

Next == UNCHANGED inputs /\ (PollSetup \/ Terminated)

Spec == Init /\ [][Next]_vars

-----------------------------------------------------------------------------
RxQueue == [port : 0 .. MaxPorts, queue : 0 .. MaxQueues]

TypeOK ==
  /\ valid \subseteq PortId /\ mask \subseteq PortId /\ enLcores \subseteq LcoreId
  /\ params \in Seq(ParsedParam)
  /\ idx \in Nat
  /\ rxQueueList \in [LcoreId -> Seq(RxQueue)]
  /\ \A l \in LcoreId : Len(rxQueueList[l]) <= MaxRxPerLcore
  /\ nbRxq \in [PortId -> Nat \cup {-1}]
  /\ txQueueId \in [LcoreId -> [PortId -> LcoreId \cup {-1}]]
  /\ txPortId \in [LcoreId -> Seq(PortId)]
  /\ pool \in [PortId -> [Sockets -> Nat]]
  /\ lkpSetups \in [Sockets -> Nat] /\ lkpOf \in [LcoreId -> SUBSET Sockets]
  /\ rxReady \subseteq (0 .. MaxPorts) \X (0 .. MaxQueues)

\* When the ports are started, the lcores' lists hold every RX queue the active ports were
\* configured with, each of them once, and nothing else; and each has been set up.  Neither
\* the ids parse_config lets through nor a port that is not in the mask get this far.
RxQueuesShared ==
  pc = "started" =>
    LET Queues == {x \in Active \X (0 .. MaxQueues) : x[2] < nbRxq[x[1]]}
        Places == UNION {{l} \X DOMAIN rxQueueList[l] : l \in LcoreId}
        At(s)  == <<rxQueueList[s[1]][s[2]].port, rxQueueList[s[1]][s[2]].queue>>
    IN  /\ rxReady = Queues
        /\ \A x \in Queues : Cardinality({s \in Places : At(s) = x}) = 1

\* No two lcores share a TX queue, and each lcore's tx_port_id lists every active port once,
\* so that its drain and its sends reach every port through a queue of its own.
TxQueueExclusive ==
  pc = "started" =>
    /\ \A p \in Active : \A l, m \in enLcores :
         /\ txQueueId[l][p] \in 0 .. NLcores - 1
         /\ l # m => txQueueId[l][p] # txQueueId[m][p]
    /\ \A l \in enLcores :
         /\ {txPortId[l][k] : k \in 1 .. Len(txPortId[l])} = Active
         /\ Len(txPortId[l]) = Cardinality(Active)

TablesReady ==
  /\ \A s \in UsedSockets : lkpSetups[s] = 1
  /\ \A l \in enLcores : lkpOf[l] = {SocketOf[l]}

\* Every RX queue that will be polled takes its packets from a pool on its lcore's socket
\* that exists, and every lcore with a port to serve looks up in the tables of its socket,
\* which have been filled once, however many ports and pools there are ("Setup ACL, LPM,
\* EM(f.e Hash) or FIB. But, only once per available socket.").
MemoryReady ==
  pc \in {"started", "eventStarted"} =>
    /\ \A l \in enLcores : \A k \in DOMAIN rxQueueList[l] :
         pool[PoolIndex(rxQueueList[l][k].port)][SocketOf[l]] > 0
    /\ Active # {} => TablesReady

\* "the number of mbufs needed depending on user input, taking into account memory for rx
\* and tx hardware rings, cache per lcore and mtable per port per lcore": the pool all ports
\* share covers the rings of all their queues and what the lcores hold.  (For lcores on one
\* socket.)
PoolCoversPorts ==
  pc = "started" /\ Active # {} /\ ~PerPortPool =>
    \A s \in UsedSockets :
      pool[0][s] >= MapThenSumSet(LAMBDA p : nbRxq[p], Active) * RxDesc
                      + Cardinality(Active) * NLcores * (MaxPktBurst + TxDesc)
                      + NLcores * CacheSize

=============================================================================
