----------------------------- MODULE L3fwdEvent -----------------------------
(***************************************************************************)
(* The workers of l3fwd in event mode.  Every lcore asks                   *)
(* l3fwd_get_free_event_port for an event port of its own, polls the event *)
(* device through it until the signal, and gives back what it still holds  *)
(* (l3fwd_event_worker_cleanup).  The main lcore runs the same loop and    *)
(* then takes the devices down.  The loops are lpm_ and em_event_loop_     *)
(* single; lpm_event_loop_burst and fib_event_loop; and lpm_, em_ and      *)
(* fib_event_loop_vector.                                                  *)
(*                                                                         *)
(* The event device, its adapters and the Ethernet ports are external:     *)
(* what is waiting in them is one queue, an enqueue takes any prefix of    *)
(* what it is offered, a dequeue may come back empty.  Packets are the     *)
(* numbers 1, 2, ... in the order the RX adapter took them in; in the      *)
(* vector loops such a number is an event vector.                          *)
(***************************************************************************)
EXTENDS Integers, Sequences, FiniteSets

CONSTANTS
  Lcore,      \* the lcores of the EAL, without the service lcores
  Main,       \* the main lcore
  NbPorts,    \* evp.nb_ports: fewer than the lcores when the device has no more
  LoopModes,  \* the loops: "single", "burst" if the device has it, "vector" if asked for
  DeqDepth,   \* deq_depth, at most MAX_PKT_BURST
  MaxPkt,     \* bounds the packets received in a behaviour
  NoLcore     \* no lcore holds the lock

ASSUME L3fwdEventAssumption ==
  /\ Main \in Lcore /\ IsFiniteSet(Lcore) /\ NoLcore \notin Lcore
  /\ NbPorts \in Nat \ {0}
  /\ LoopModes \subseteq {"single", "burst", "vector"}
  /\ DeqDepth \in Nat \ {0}
  /\ MaxPkt \in Nat

Packet == 1 .. MaxPkt
Worker == Lcore \ {Main}

VARIABLES
  mode,       \* has_burst and vector_enabled, which pick the loop
  unrouted,   \* the packets whose hop the lookup will find to be BAD_PORT
  forceQuit,  \* force_quit
  lock,       \* evp.lock: who holds it
  index,      \* the static index of l3fwd_get_free_event_port
  eventPort,  \* event_p_id of each lcore; -1 for none
  pc,         \* where each lcore is
  events,     \* events[0 .. nb_deq - 1] of each lcore
  nbEnq,      \* nb_enq (enq) of each lcore
  queue,      \* the packets waiting in the event device
  nextPkt,    \* number of the next packet to arrive
  sent,       \* how often each packet was handed to TX
  freed,      \* how often each packet was freed
  adapters,   \* whether the RX and TX adapters run
  ethDevs,    \* the enabled Ethernet ports: "started", "stopped" or "closed"
  eventDev    \* whether the event device is open

choice  == <<mode, unrouted>>
claim   == <<lock, index, eventPort>>
batch   == <<events, nbEnq>>
packets == <<queue, nextPkt, sent, freed>>
devices == <<adapters, ethDevs, eventDev>>
vars    == <<choice, forceQuit, claim, pc, batch, packets, devices>>

\* After l3fwd_event_resource_setup, at the launch.
Init ==
  /\ mode \in LoopModes
  /\ unrouted \in SUBSET Packet
  /\ forceQuit = FALSE
  /\ lock = NoLcore
  /\ index = 0
  /\ eventPort = [l \in Lcore |-> -1]
  /\ pc = [l \in Lcore |-> "lock"]
  /\ events = [l \in Lcore |-> <<>>]
  /\ nbEnq = [l \in Lcore |-> 0]
  /\ queue = <<>>
  /\ nextPkt = 1
  /\ sent = [p \in Packet |-> 0]
  /\ freed = [p \in Packet |-> 0]
  /\ adapters = TRUE
  /\ ethDevs = "started"
  /\ eventDev = TRUE

Goto(l, where) == pc' = [pc EXCEPT ![l] = where]

\* The counts after one more for each packet of s.
OnceMore(count, s) ==
  [p \in Packet |-> count[p] + Cardinality({k \in DOMAIN s : s[k] = p})]

-----------------------------------------------------------------------------
Signal ==
  /\ ~forceQuit
  /\ forceQuit' = TRUE
  /\ UNCHANGED <<choice, claim, pc, batch, packets, devices>>

\* The RX adapter brings in a packet.
Receive ==
  /\ adapters /\ ethDevs = "started"
  /\ nextPkt <= MaxPkt
  /\ queue' = Append(queue, nextPkt)
  /\ nextPkt' = nextPkt + 1
  /\ UNCHANGED <<choice, forceQuit, claim, pc, batch, sent, freed, devices>>

-----------------------------------------------------------------------------
(* l3fwd_get_free_event_port                                               *)

LockFreeAlways == TRUE   \* a mistake: the lock is not taken
LockFree == lock = NoLcore

Lock(l) ==
  /\ pc[l] = "lock" /\ LockFree
  /\ lock' = l
  /\ Goto(l, "claim")
  /\ UNCHANGED <<choice, forceQuit, index, eventPort, batch, packets, devices>>

NoneLeftLate == index > NbPorts   \* a mistake: one too many
NoneLeft == index >= NbPorts

\* port_id = event_p_id[index], or the return of -1.
ClaimPort(l) ==
  /\ pc[l] = "claim"
  /\ IF NoneLeft
     THEN Goto(l, "done") /\ UNCHANGED eventPort   \* returns with the lock still held
     ELSE Goto(l, "claimed") /\ eventPort' = [eventPort EXCEPT ![l] = index]
  /\ UNCHANGED <<choice, forceQuit, lock, index, batch, packets, devices>>

\* The vector loops need an array for the hops: rte_zmalloc may find no memory, and the lcore
\* returns with its event port.
Entered == {"loop"} \cup (IF mode = "vector" THEN {"done"} ELSE {})

Unlock(l) ==
  /\ pc[l] = "claimed"
  /\ index' = index + 1
  /\ lock' = NoLcore
  /\ \E where \in Entered : Goto(l, where)
  /\ UNCHANGED <<choice, forceQuit, eventPort, batch, packets, devices>>

-----------------------------------------------------------------------------
(* The event loop                                                          *)

Depth == IF mode = "single" THEN 1 ELSE DeqDepth

\* Only the single loops look at BAD_PORT: lpm_event_loop_burst lets such packets through,
\* fib_event_loop gives them their old port, the vector loops send what is left of a vector.
FreedAtOnce(p) == mode = "single" /\ p \in unrouted

\* After an empty dequeue, or when the packet is freed at once, the loop goes on with deq and
\* enq as they are.  Otherwise the batch is offered to the device.
Dequeue(l) ==
  /\ pc[l] = "loop" /\ ~forceQuit
  /\ \E n \in 0 .. Depth :
       /\ n <= Len(queue)
       /\ LET got == SubSeq(queue, 1, n)
              bad == n > 0 /\ FreedAtOnce(queue[1])
          IN  /\ events' = [events EXCEPT ![l] = got]
              /\ queue' = SubSeq(queue, n + 1, Len(queue))
              /\ IF n = 0 \/ bad
                 THEN UNCHANGED <<pc, nbEnq>>
                 ELSE Goto(l, "enqueue") /\ nbEnq' = [nbEnq EXCEPT ![l] = 0]
              /\ freed' = IF bad THEN OnceMore(freed, got) ELSE freed
  /\ UNCHANGED <<choice, forceQuit, claim, nextPkt, sent, devices>>

EnqueueAgainDeaf(l, n) == n < Len(events[l])   \* a mistake: the retries ignore force_quit
EnqueueAgain(l, n) == n < Len(events[l]) /\ ~forceQuit

\* One call of rte_event_enqueue_burst or rte_event_eth_tx_adapter_enqueue, after which
\* n packets of the batch have been taken.
EnqueueUpTo(l, n) ==
  /\ pc[l] = "enqueue"
  /\ nbEnq' = [nbEnq EXCEPT ![l] = n]
  /\ sent' = OnceMore(sent, SubSeq(events[l], nbEnq[l] + 1, n))
  /\ IF EnqueueAgain(l, n) THEN UNCHANGED pc ELSE Goto(l, "loop")
  /\ UNCHANGED <<choice, forceQuit, claim, events, queue, nextPkt, freed, devices>>

Enqueue(l) == \E n \in nbEnq[l] .. Len(events[l]) : EnqueueUpTo(l, n)

LoopEnd(l) ==
  /\ pc[l] = "loop" /\ forceQuit
  /\ Goto(l, "cleanup")
  /\ UNCHANGED <<choice, forceQuit, claim, batch, packets, devices>>

\* What the cleanup frees of the last batch; a mistake is to free all of it.
UnsentAll(l) == events[l]
Unsent(l) == SubSeq(events[l], nbEnq[l] + 1, Len(events[l]))

\* l3fwd_event_worker_cleanup.  The quiesce flushes what the device had scheduled to
\* this port already, a prefix of its queue.
Cleanup(l) ==
  /\ pc[l] = "cleanup"
  /\ \E n \in 0 .. Len(queue) :
       /\ freed' = OnceMore(freed, Unsent(l) \o SubSeq(queue, 1, n))
       /\ queue' = SubSeq(queue, n + 1, Len(queue))
  /\ events' = [events EXCEPT ![l] = <<>>]
  /\ nbEnq' = [nbEnq EXCEPT ![l] = 0]
  /\ Goto(l, "done")
  /\ UNCHANGED <<choice, forceQuit, claim, nextPkt, sent, devices>>

LcoreStep(l) ==
  \/ Lock(l) \/ ClaimPort(l) \/ Unlock(l)
  \/ Dequeue(l) \/ Enqueue(l) \/ LoopEnd(l) \/ Cleanup(l)

-----------------------------------------------------------------------------
(* main, once its own loop has returned                                    *)

StopAdapters ==
  /\ pc[Main] = "done"
  /\ adapters' = FALSE
  /\ Goto(Main, "stopPorts")
  /\ UNCHANGED <<choice, forceQuit, claim, batch, packets, ethDevs, eventDev>>

StopPorts ==
  /\ pc[Main] = "stopPorts"
  /\ ethDevs' = "stopped"
  /\ Goto(Main, "wait")
  /\ UNCHANGED <<choice, forceQuit, claim, batch, packets, adapters, eventDev>>

WaitedForNone == TRUE   \* a mistake: rte_eal_mp_wait_lcore is missing
WaitedForAll == \A l \in Worker : pc[l] = "done"

ClosePorts ==
  /\ pc[Main] = "wait" /\ WaitedForAll
  /\ ethDevs' = "closed"
  /\ Goto(Main, "closeDev")
  /\ UNCHANGED <<choice, forceQuit, claim, batch, packets, adapters, eventDev>>

CloseEventDev ==
  /\ pc[Main] = "closeDev"
  /\ eventDev' = FALSE
  /\ Goto(Main, "exit")
  /\ UNCHANGED <<choice, forceQuit, claim, batch, packets, adapters, ethDevs>>

MainStep == StopAdapters \/ StopPorts \/ ClosePorts \/ CloseEventDev

Terminated == pc[Main] = "exit" /\ UNCHANGED vars

Next ==
  \/ Signal \/ Receive
  \/ \E l \in Lcore : LcoreStep(l)
  \/ MainStep
  \/ Terminated

Spec == Init /\ [][Next]_vars

\* The lcores' threads are never starved, so every call returns.  Nothing is assumed of the
\* event device, which may refuse or have nothing for ever, of the packets or of the signal.
ThreadStep(l) ==
  \/ Lock(l) \/ ClaimPort(l) \/ Unlock(l)
  \/ EnqueueUpTo(l, nbEnq[l]) \/ LoopEnd(l) \/ Cleanup(l)

FairSpec == Spec /\ (\A l \in Lcore : WF_vars(ThreadStep(l))) /\ WF_vars(MainStep)

-----------------------------------------------------------------------------
TypeOK ==
  /\ mode \in LoopModes
  /\ unrouted \subseteq Packet
  /\ forceQuit \in BOOLEAN
  /\ lock \in Lcore \cup {NoLcore}
  /\ index \in 0 .. NbPorts
  /\ eventPort \in [Lcore -> -1 .. NbPorts - 1]
  /\ pc \in [Lcore -> {"lock", "claim", "claimed", "loop", "enqueue", "cleanup", "done",
                       "stopPorts", "wait", "closeDev", "exit"}]
  /\ events \in [Lcore -> Seq(Packet)]
  /\ nbEnq \in [Lcore -> 0 .. DeqDepth]
  /\ queue \in Seq(Packet)
  /\ nextPkt \in 1 .. MaxPkt + 1
  /\ sent \in [Packet -> Nat]
  /\ freed \in [Packet -> Nat]
  /\ adapters \in BOOLEAN
  /\ ethDevs \in {"started", "stopped", "closed"}
  /\ eventDev \in BOOLEAN

InLoop == {"loop", "enqueue", "cleanup"}

\* Two lcores never poll through the same event port, which the event device does not
\* allow: what the spinlock in l3fwd_get_free_event_port is for.
EventPortExclusive ==
  \A l, m \in Lcore :
    l # m /\ pc[l] \in InLoop /\ pc[m] \in InLoop => eventPort[l] # eventPort[m]

Occurrences(s, p) == Cardinality({k \in DOMAIN s : s[k] = p})

Holders(p) == {l \in Lcore : Occurrences(Unsent(l), p) > 0}

\* Every packet is in exactly one place from its arrival on, waiting, held by one lcore,
\* handed to TX once or freed once, but for the packets without a route of the single
\* loops.  A partly accepted enqueue, a quit in the middle of the retries and the cleanup of
\* several lcores lose none and free none twice.
RoutedOnce ==
  \A p \in 1 .. nextPkt - 1 :
    \/ FreedAtOnce(p)
    \/ Occurrences(queue, p) + Cardinality(Holders(p)) + sent[p] + freed[p] = 1

\* No lcore calls into the event device once main has closed it, or hands it a packet
\* once the Ethernet ports are closed.
NoUseAfterClose ==
  \A l \in Lcore : pc[l] \in InLoop => eventDev /\ ethDevs # "closed"

\* After "Signal %d received, preparing to exit..." main gets to its exit.
QuitCompletes == forceQuit ~> pc[Main] = "exit"

\* "If destination port for the packet equals BAD_PORT, then free the packet without
\* sending it out", as l3fwd_sse.h puts it: such a packet is never handed to TX, and it
\* is not freed a second time by the cleanup.
BadPortFreed == \A p \in unrouted : sent[p] = 0 /\ freed[p] <= 1

=============================================================================
