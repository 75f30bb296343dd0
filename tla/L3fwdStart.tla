----------------------------- MODULE L3fwdStart -----------------------------
(***************************************************************************)
(* main() of l3fwd from the parsed arguments to the launch of the lcores:  *)
(* the set-up of poll or of event mode, in event mode the services that    *)
(* run the event device and its adapters on the service lcores, in poll    *)
(* mode the check of the packet types, and the check of the links, which   *)
(* waits for all of them until a signal or a timeout.                      *)
(*                                                                         *)
(* The service library is external: a service that does not exist has no   *)
(* id, and one mapped by the EAL before stays mapped.                      *)
(***************************************************************************)
EXTENDS L3fwdEventSetup

CONSTANT MaxCheckTime   \* MAX_CHECK_TIME: the rounds of the link check

ASSUME L3fwdStartAssumption == MaxCheckTime \in Nat \ {0}

VARIABLES
  eventMode,  \* evt_rsrc->enabled
  scheduler,  \* how the event device schedules: "distributed", by a "service", "otherwise"
  mapped,     \* the service lcores each service is mapped to
  running,    \* the service lcores that were started
  serviceId,  \* service_id of l3fwd_event_service_setup
  forceQuit,  \* force_quit
  count, port, allUp, printFlag,  \* of check_all_ports_link_status; port is the next one
  printed     \* the ports the link check has printed, with how often

setup    == <<idx, rxQueueList, ports, rxReady, eventVars>>
services == <<mapped, running, serviceId>>
links_   == <<count, port, allUp, printFlag, printed>>
given    == <<inputs, eventInputs, eventMode, scheduler>>
start    == <<given, pc, setup, services, forceQuit, links_>>

ServiceLcore == 0 .. nbService - 1

\* The services: of the event device, of each RX adapter and of each TX adapter.
Service == {<<"scheduler", 0>>} \cup ({"rx", "tx"} \X (0 .. MaxPorts - 1))

PortsOfAdapter(n) == {p \in Active : rxAdapter[p] = n}

\* An adapter needs a service when one of its ports has no internal port.
Exists(s) ==
  CASE s[1] = "scheduler" -> scheduler = "service"
    [] s[1] = "rx" -> \E p \in PortsOfAdapter(s[2]) : p \notin rxInternal
    [] s[1] = "tx" -> \E p \in PortsOfAdapter(s[2]) : p \notin txInternal

\* What a variable that was never assigned may hold: NoService stands for all other numbers.
NoService == <<"none", 0>>

StartInit ==
  /\ CommonInit /\ EventNone
  /\ eventMode \in BOOLEAN
  /\ IF eventMode
     THEN /\ pc = "capability" /\ params = <<>>
          /\ EventInit
          /\ scheduler \in {"distributed", "service", "otherwise"}
     ELSE /\ PollInit
          /\ maxEventQueues = 1 /\ maxEventPorts = 1
          /\ rxInternal = {} /\ txInternal = {} /\ nbService = 0
          /\ scheduler = "otherwise"
  \* the EAL maps the services it knows, the device's own, to some service lcore
  /\ mapped \in [Service -> SUBSET ServiceLcore]
  /\ \A s \in Service :
       Cardinality(mapped[s]) <= IF s[1] = "scheduler" /\ scheduler = "service" THEN 1 ELSE 0
  /\ running = {}
  /\ serviceId = NoService
  /\ forceQuit = FALSE
  /\ count = 0 /\ port = 0 /\ allUp = TRUE /\ printFlag = FALSE
  /\ printed = [p \in PortId |-> 0]

-----------------------------------------------------------------------------
(* l3fwd_event_service_setup                                               *)

NbAdapters == IF generic THEN 1 ELSE NActive

\* What is asked for in turn: kind of the service, and the adapter's number, which is taken
\* for that of an Ethernet port.
Requests ==
  (IF scheduler = "distributed" THEN <<>> ELSE <<<<"scheduler", 0>>>>)
    \o [n \in 1 .. NbAdapters |-> <<"rx", n - 1>>]
    \o [n \in 1 .. NbAdapters |-> <<"tx", n - 1>>]

\* service_id is not initialised.
ServicesBegin ==
  /\ pc = "eventStarted"
  /\ pc' = "services"
  /\ idx' = 0
  /\ serviceId' \in {s \in Service : Exists(s)} \cup {NoService}
  /\ UNCHANGED <<rxQueueList, ports, rxReady, eventVars, mapped, running, forceQuit, links_>>

MappedTo(m, lcore) == Cardinality({s \in Service : lcore \in m[s]})

\* The lcore with the least services: the list is gone through from its end.  A mistake is
\* to take the last.
LeastLoadedLast(m) == CHOOSE c \in ServiceLcore : \A o \in ServiceLcore : o <= c
LeastLoaded(m) ==
  CHOOSE c \in ServiceLcore : \A o \in ServiceLcore :
    MappedTo(m, c) < MappedTo(m, o) \/ (MappedTo(m, c) = MappedTo(m, o) /\ o <= c)

\* The mapping while l3fwd_service_enable looks for an lcore: the service is taken from
\* all.  A mistake is to leave it.
ResetNone(s) == mapped
Reset(s) == [mapped EXCEPT ![s] = {}]

\* l3fwd_service_enable, whose error nobody looks at.
ServiceEnable(s) ==
  IF ServiceLcore = {} \/ s = NoService \/ ~Exists(s)
  THEN UNCHANGED <<mapped, running>>
  ELSE LET c == LeastLoaded(Reset(s))
       IN  /\ mapped' = [Reset(s) EXCEPT ![s] = @ \cup {c}]
           /\ running' = running \cup {c}

\* One request.  Whatever the adapter, the service of adapter event_d_id = 0 is asked for;
\* when there is none service_id keeps its value.
ServiceRequest ==
  /\ pc = "services" /\ idx < Len(Requests)
  /\ LET r == Requests[idx + 1]
         s == <<r[1], 0>>
         id == IF Exists(s) THEN s ELSE serviceId
     IN  IF r[1] # "scheduler" /\ r[2] \notin valid
         THEN pc' = "exitCaps" /\ UNCHANGED <<idx, services>>
         ELSE /\ serviceId' = id
              /\ ServiceEnable(id)
              /\ idx' = idx + 1
              /\ UNCHANGED pc
  /\ UNCHANGED <<rxQueueList, ports, rxReady, eventVars, forceQuit, links_>>

ServicesEnd ==
  /\ pc = "services" /\ idx = Len(Requests)
  /\ pc' = "links"
  /\ serviceId' = NoService
  /\ UNCHANGED <<setup, mapped, running, forceQuit, links_>>

\* prepare_ptype_parser for the RX queues of all lcores: whether a port can tell the packet
\* types, or takes the callback, is up to it.
PtypeCheck ==
  /\ pc = "started"
  /\ \/ pc' = "links"
     \/ rxReady # {} /\ pc' = "exitPtype"
  /\ UNCHANGED <<setup, services, forceQuit, links_>>

-----------------------------------------------------------------------------
(* check_all_ports_link_status                                             *)

\* A signal that came before shows in the first round.
Signal ==
  /\ pc \in {"links", "linkPort", "linkRoundEnd"} /\ ~forceQuit
  /\ forceQuit' = TRUE
  /\ UNCHANGED <<pc, setup, services, links_>>

\* The begin of a round.
LinkRound ==
  /\ pc = "links"
  /\ IF count > MaxCheckTime \/ forceQuit
     THEN pc' = "launched" /\ UNCHANGED <<port, allUp>>
     ELSE pc' = "linkPort" /\ port' = 0 /\ allUp' = TRUE
  /\ UNCHANGED <<setup, services, forceQuit, count, printFlag, printed>>

\* One port: its link is up or down, or the call fails.  A link that is down ends the round,
\* but not the last one, which prints all ports.
LinkPort ==
  /\ pc = "linkPort" /\ port < MaxPorts
  /\ IF port \in valid /\ forceQuit
     THEN pc' = "launched" /\ UNCHANGED <<port, allUp, printed>>
     ELSE /\ port' = port + 1
          /\ IF port \notin Active
             THEN UNCHANGED <<pc, allUp, printed>>
             ELSE \E status \in {"up", "down", "failed"} :
               /\ printed' = IF printFlag THEN [printed EXCEPT ![port] = @ + 1] ELSE printed
               /\ allUp' = (allUp /\ (status = "up" \/ (printFlag /\ status = "down")))
               /\ pc' = IF status = "down" /\ ~printFlag THEN "linkRoundEnd" ELSE pc
  /\ UNCHANGED <<setup, services, forceQuit, count, printFlag>>

\* The timeout: the round before the last.  A mistake is to wait for the last.
LastRoundLate == count = MaxCheckTime
LastRound == count = MaxCheckTime - 1

\* The end of a round.
LinkRoundEnd ==
  /\ pc = "linkRoundEnd" \/ (pc = "linkPort" /\ port = MaxPorts)
  /\ IF printFlag
     THEN pc' = "launched" /\ UNCHANGED <<count, printFlag>>
     ELSE /\ printFlag' = (allUp \/ LastRound)
          /\ count' = count + 1
          /\ pc' = "links"
  /\ UNCHANGED <<setup, services, forceQuit, port, allUp, printed>>

-----------------------------------------------------------------------------
Ended == {"launched", "exitLcores", "exitFull", "exitPorts", "exitSequence", "exitRxPool",
          "exitDevice", "exitRxAdapter", "exitCaps", "exitPtype"}

StartTerminated == pc \in Ended /\ UNCHANGED start

StartNext ==
  \/ /\ UNCHANGED given
     /\ \/ PollSetup /\ UNCHANGED <<eventVars, services, forceQuit, links_>>
        \/ EventSetup /\ UNCHANGED <<services, forceQuit, links_>>
        \/ ServicesBegin \/ ServiceRequest \/ ServicesEnd
        \/ PtypeCheck
        \/ Signal \/ LinkRound \/ LinkPort \/ LinkRoundEnd
  \/ StartTerminated

StartSpec == StartInit /\ [][StartNext]_start

-----------------------------------------------------------------------------
StartTypeOK ==
  /\ TypeOK /\ EventTypeOK
  /\ pc \in Ended \cup
       {"checkLcores", "rxQueues", "initPorts", "initRx", "started",
        "capability", "ethPorts", "eventQueues", "eventPorts", "rxAdapters", "eventStarted",
        "services", "links", "linkPort", "linkRoundEnd"}
  /\ mapped \in [Service -> SUBSET ServiceLcore] /\ running \subseteq ServiceLcore
  /\ serviceId \in Service \cup {NoService}
  /\ count \in 0 .. MaxCheckTime + 1 /\ port \in 0 .. MaxPorts
  /\ allUp \in BOOLEAN /\ printFlag \in BOOLEAN /\ forceQuit \in BOOLEAN
  /\ printed \in [PortId -> Nat]

\* In the generic operations, when the lcores are launched and there are service lcores, each
\* service the event device and the two adapters have is mapped to one lcore, which runs,
\* and no lcore has two services more than another ("Get the core which has least number of
\* services running"), although requests for a service that does not exist repeat the one
\* before or use an id that was never set.
ServicesSpread ==
  pc = "launched" /\ generic /\ nbService > 0 =>
    /\ \A s \in {<<"scheduler", 0>>, <<"rx", 0>>, <<"tx", 0>>} :
         Exists(s) => Cardinality(mapped[s]) = 1 /\ mapped[s] \subseteq running
    /\ \A c, o \in ServiceLcore : MappedTo(mapped, c) <= MappedTo(mapped, o) + 1

\* "Check the link status of all ports in up to 9s, and print them finally": when no signal
\* came, every enabled port was printed, once, before the lcores are launched, whether the
\* links came up or the time was over.
LinksPrinted ==
  pc = "launched" /\ ~forceQuit =>
    \A p \in PortId : printed[p] = IF p \in Active THEN 1 ELSE 0

=============================================================================
