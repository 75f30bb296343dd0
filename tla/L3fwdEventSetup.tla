-------------------------- MODULE L3fwdEventSetup --------------------------
(***************************************************************************)
(* The set-up of l3fwd in event mode (l3fwd_event_resource_setup): which   *)
(* of the two sets of operations is used, the Ethernet ports with their    *)
(* pools, the event queues, the event ports and what they are linked to,   *)
(* and which event queue each Ethernet port's RX adapter feeds.            *)
(*                                                                         *)
(* Ports, mask, lcores, sockets and init_mem are those of L3fwdSetup.  The *)
(* event device is external: what it says of itself is chosen in Init.     *)
(* Event vectors and their pools are left out.                             *)
(***************************************************************************)
EXTENDS L3fwdSetup

CONSTANTS
  EventQueueLimits,  \* the values of max_event_queues
  EventPortLimits,   \* the values of max_event_ports
  MaxService         \* the most service lcores

ASSUME L3fwdEventSetupAssumption ==
  /\ EventQueueLimits \subseteq Nat \ {0} /\ EventPortLimits \subseteq Nat \ {0}
  /\ MaxService \in Nat
  /\ 0 \in Sockets

VARIABLES
  maxEventQueues, maxEventPorts,  \* of rte_event_dev_info_get
  rxInternal, txInternal,  \* the ports whose RX, TX adapter has an internal port
  nbService,   \* rte_service_lcore_count()
  generic,     \* evt_rsrc->tx_mode_q: the generic operations, and a TX queue
  nbQueues,    \* evq.nb_queues
  nbEvPorts,   \* evp.nb_ports
  eventQId,    \* evq.event_q_id[0 .. nb_queues - 1]
  links,       \* the event queues each event port is linked to
  txLinks,     \* those the event port of the TX adapter is linked to
  rxAdapter,   \* the RX adapter of each port, -1 for none
  feeds        \* the event queue the port's RX queues feed, -1 for none

eventInputs == <<maxEventQueues, maxEventPorts, rxInternal, txInternal, nbService>>
eventDevice == <<nbQueues, nbEvPorts, eventQId, links, txLinks>>
adapters    == <<rxAdapter, feeds>>
eventVars   == <<generic, eventDevice, adapters>>

EventInit ==
  /\ maxEventQueues \in EventQueueLimits
  /\ maxEventPorts \in EventPortLimits
  /\ rxInternal \in SUBSET valid
  /\ txInternal \in SUBSET valid
  /\ nbService \in 0 .. MaxService

EventNone ==
  /\ generic = FALSE
  /\ nbQueues = 0 /\ nbEvPorts = 0
  /\ eventQId = <<>>
  /\ links = <<>>
  /\ txLinks = {}
  /\ rxAdapter = [p \in PortId |-> -1]
  /\ feeds = [p \in PortId |-> -1]

Least(a, b) == IF a < b THEN a ELSE b

NActive == Cardinality(Active)

\* rte_lcore_count(), which counts the service lcores too.
LcoreCount == NLcores + nbService

-----------------------------------------------------------------------------
\* l3fwd_event_capability_setup asks all ports, the disabled ones too.
CapabilitySetup ==
  /\ pc = "capability"
  /\ generic' = (\E p \in valid : p \notin txInternal)
  /\ pc' = "ethPorts"
  /\ UNCHANGED <<idx, rxQueueList, ports, rxReady, eventDevice, adapters>>

\* nb_mbuf: RX rings, TX rings (of a pool per port the RX ring twice), what the lcores hold.
EventMbufs ==
  LET nports == Cardinality(valid)
      n == IF PerPortPool
           THEN RxDesc + RxDesc + LcoreCount * (MaxPktBurst + CacheSize)
           ELSE nports * (RxDesc + TxDesc + LcoreCount * MaxPktBurst) + LcoreCount * CacheSize
  IN  IF n > MinMbufs THEN n ELSE MinMbufs

\* One port of l3fwd_eth_dev_port_setup.  Its RX queues always take the pool of socket 0; when
\* no lcore is on it that pool is NULL, which rte_eth_rx_queue_setup refuses.
EthPortSetup ==
  /\ pc = "ethPorts" /\ idx < MaxPorts
  /\ idx' = idx + 1
  /\ IF idx \in Active
     THEN /\ InitMem(PoolIndex(idx), EventMbufs)
          /\ pc' = IF pool'[PoolIndex(idx)][0] = 0 THEN "exitRxPool" ELSE pc
     ELSE UNCHANGED <<pc, mem>>
  /\ UNCHANGED <<rxQueueList, nbRxq, txQueueId, txPortId, rxReady, eventVars>>

\* event_device_setup of the two sets of operations: how many event queues and event ports
\* each asks for.  The service lcores are not workers, but the second set counts them.
DeviceGeneric  == [queues |-> NActive + 1, ports |-> LcoreCount - nbService]
DeviceInternal == [queues |-> NActive, ports |-> LcoreCount]

Wanted == IF generic THEN DeviceGeneric ELSE DeviceInternal

\* The device has its limits, and without a queue it can not be configured.
EventDeviceSetup ==
  /\ pc = "ethPorts" /\ idx = MaxPorts
  /\ nbQueues' = Least(Wanted.queues, maxEventQueues)
  /\ nbEvPorts' = Least(Wanted.ports, maxEventPorts)
  /\ pc' = IF nbQueues' = 0 THEN "exitDevice" ELSE "eventQueues"
  /\ UNCHANGED <<idx, rxQueueList, ports, rxReady, generic, eventQId, links, txLinks, adapters>>

\* In the generic operations the last queue is for the TX adapter; its id is the next one, too.
QueueIds == [q \in 0 .. nbQueues - 1 |-> q]

EventQueueSetup ==
  /\ pc = "eventQueues"
  /\ eventQId' = QueueIds
  /\ pc' = "eventPorts"
  /\ UNCHANGED <<idx, rxQueueList, ports, rxReady, generic, nbQueues, nbEvPorts, links, txLinks, adapters>>

\* event_port_setup of the two sets: the event queues linked to every event port.
LinkedGeneric  == {eventQId[q] : q \in 0 .. nbQueues - 2}
LinkedInternal == {eventQId[q] : q \in 0 .. nbQueues - 1}

EventPortSetup ==
  /\ pc = "eventPorts"
  /\ links' = [e \in 0 .. nbEvPorts - 1 |-> IF generic THEN LinkedGeneric ELSE LinkedInternal]
  /\ pc' = "rxAdapters"
  /\ idx' = 0
  /\ UNCHANGED <<rxQueueList, ports, rxReady, generic, nbQueues, nbEvPorts, eventQId, txLinks, adapters>>

\* The ports that come before p in the adapter loops, and the index i (q_id) the loop has
\* for p, which stops at nb_queues.  A mistake is to count the ports that are skipped.
Before(p) == {q \in Active : q < p}
QueueIndexAll(p) == Least(p, nbQueues)
QueueIndex(p) == Least(Cardinality(Before(p)), nbQueues)

\* One port of the RX adapters: the first set of operations has one adapter for all ports,
\* the second an adapter for each.  Past the end of event_q_id[] anything may be read; an id
\* that is no queue is refused.
RxAdapterSetup ==
  /\ pc = "rxAdapters" /\ idx < MaxPorts
  /\ idx' = idx + 1
  /\ IF idx \in Active
     THEN /\ rxAdapter' = [rxAdapter EXCEPT ![idx] = IF generic THEN 0 ELSE Cardinality(Before(idx))]
          /\ \E q \in IF QueueIndex(idx) < nbQueues THEN {eventQId[QueueIndex(idx)]} ELSE 0 .. nbQueues :
               /\ feeds' = [feeds EXCEPT ![idx] = q]
               /\ pc' = IF q = nbQueues THEN "exitRxAdapter" ELSE pc
     ELSE UNCHANGED <<pc, adapters>>
  /\ UNCHANGED <<rxQueueList, ports, rxReady, generic, eventDevice>>

\* The TX adapters, and the start of the event device and of the Ethernet ports.
TxAdapterSetup ==
  /\ pc = "rxAdapters" /\ idx = MaxPorts
  /\ txLinks' = IF generic THEN {eventQId[nbQueues - 1]} ELSE {}
  /\ pc' = "eventStarted"
  /\ UNCHANGED <<idx, rxQueueList, ports, rxReady, generic, nbQueues, nbEvPorts, eventQId, links, adapters>>

EventSetup ==
  \/ CapabilitySetup \/ EthPortSetup \/ EventDeviceSetup \/ EventQueueSetup
  \/ EventPortSetup \/ RxAdapterSetup \/ TxAdapterSetup

-----------------------------------------------------------------------------
EventTypeOK ==
  /\ generic \in BOOLEAN
  /\ nbQueues \in 0 .. NActive + 1 /\ nbEvPorts \in Nat
  /\ eventQId \in [DOMAIN eventQId -> 0 .. NActive]
  /\ links \in [DOMAIN links -> SUBSET (0 .. NActive)]
  /\ txLinks \subseteq 0 .. NActive
  /\ rxAdapter \in [PortId -> -1 .. MaxPorts - 1]
  /\ feeds \in [PortId -> -1 .. NActive + 1]

\* "One queue for each ethdev port + one Tx adapter Single link queue": when the device has
\* that many queues, whichever ports are disabled, each enabled port feeds an event queue of
\* its own that every worker's event port is linked to, and the queue of the TX adapter,
\* linked to it alone, is fed by no port.
EventQueueOwned ==
  pc = "eventStarted" /\ maxEventQueues >= Wanted.queues =>
    /\ \A p, q \in Active : p # q => feeds[p] # feeds[q]
    /\ \A e \in DOMAIN links : links[e] = {feeds[p] : p \in Active}
    /\ txLinks \cap {feeds[p] : p \in Active} = {}
    /\ (txLinks # {}) = (\E p \in valid : p \notin txInternal)

=============================================================================
