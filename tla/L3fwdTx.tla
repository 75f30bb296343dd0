------------------------------ MODULE L3fwdTx ------------------------------
(***************************************************************************)
(* The packet path of one l3fwd lcore in poll mode, from the RX burst to   *)
(* the NIC: the polling loop (lpm_main_loop; em_, fib_ and acl_main_loop   *)
(* have the same shape), send_packets_multi with send_packetsx4, the       *)
(* one-by-one path with send_single_packet, and the drain of tx_mbufs[].   *)
(* tx_mbufs[] and the TX queues belong to one lcore each, so one lcore is  *)
(* enough.                                                                 *)
(*                                                                         *)
(* Both senders store into the same m_table, but they do not agree on when *)
(* it is full: send_packetsx4 flushes at MAX_PKT_BURST packets,            *)
(* send_single_packet at exactly rx_burst_size.                            *)
(*                                                                         *)
(* The route lookup is a choice of the hop.  Packets are the numbers       *)
(* 1, 2, ... in the order the lcore received them.                         *)
(***************************************************************************)
EXTENDS Integers, Sequences, FiniteSets

CONSTANTS
  PortSeq,      \* tx_port_id[]: the enabled ports
  NRxQueue,     \* n_rx_queue
  MaxPktBurst,  \* MAX_PKT_BURST, the length of m_table
  SendPaths,    \* the senders a build or a lookup may choose
  BadPort,      \* BAD_PORT
  Denied,       \* the hop of a packet an ACL rule denies (BAD_PORT too, but counted)
  MaxRx         \* bounds the packets received in a behaviour

Port == {PortSeq[k] : k \in 1 .. Len(PortSeq)}

\* "multi": send_packets_multi (LPM, EM and FIB with SIMD); "single": one by one (LPM
\* without SIMD); "acl": acl_send_packets, which takes either, burst by burst.
ASSUME L3fwdTxAssumption ==
  /\ Len(PortSeq) \in Nat
  /\ NRxQueue \in Nat \ {0}   \* an lcore without queues has no packet to forward
  /\ MaxPktBurst \in Nat /\ MaxPktBurst > 1
  /\ SendPaths \subseteq {"multi", "single", "acl"}
  /\ MaxRx \in Nat
  /\ BadPort \notin Port /\ Denied \notin Port /\ BadPort # Denied

VARIABLES
  sendPath,     \* the sender the main loop calls
  rxBurstSize,  \* rx_burst_size
  txBurstSize,  \* tx_burst_size
  forceQuit,    \* force_quit
  pc,           \* where the lcore is in its main loop
  i,            \* the loop's index, over the TX ports or the RX queues
  due,          \* diff_tsc > drain_tsc
  burst,        \* what is left of pkts_burst and dst_port: packets with their hops
  single,       \* this burst goes packet by packet
  mTable,       \* tx_mbufs[p]: the len packets waiting in m_table
  lastOut,      \* the last packet of port p the NIC took
  nextPkt,      \* number of the next packet to arrive
  acc,          \* the l3fwd_tx_stats of the burst being sent
  stats         \* lcore_stats[lcore_id], which only lpm_main_loop keeps

options == <<sendPath, rxBurstSize, txBurstSize>>
vars == <<options, forceQuit, pc, i, due, burst, single, mTable, lastOut, nextPkt, acc, stats>>

\* The hops of a packet that is not forwarded: rfc1812_process (or the parse of the
\* headers) found it bad, or an ACL rule denies it.
NoHop == {BadPort} \cup (IF sendPath = "acl" THEN {Denied} ELSE {})

NoStats == [sent |-> 0, dropped |-> 0]
Plus(a, sent, dropped) == [sent |-> a.sent + sent, dropped |-> a.dropped + dropped]

\* parse_pkt_burst lets 1 .. MAX_PKT_BURST through for either option.
Init ==
  /\ sendPath \in SendPaths
  /\ rxBurstSize \in 1 .. MaxPktBurst
  /\ txBurstSize \in 1 .. MaxPktBurst
  /\ forceQuit = FALSE
  /\ pc = "top"
  /\ i = 1
  /\ due = (sendPath = "acl")          \* prev_tsc = 0 in acl_main_loop, else cur_tsc
  /\ burst = <<>>
  /\ single = FALSE
  /\ mTable = [p \in Port |-> <<>>]
  /\ lastOut = [p \in Port |-> 0]
  /\ nextPkt = 1
  /\ acc = NoStats
  /\ stats = [rx |-> 0, tx |-> 0, dropped |-> 0]

-----------------------------------------------------------------------------
Signal ==
  /\ ~forceQuit
  /\ forceQuit' = TRUE
  /\ UNCHANGED <<options, pc, i, due, burst, single, mTable, lastOut, nextPkt, acc, stats>>

TscPasses ==
  /\ ~due
  /\ due' = TRUE
  /\ UNCHANGED <<options, forceQuit, pc, i, burst, single, mTable, lastOut, nextPkt, acc, stats>>

\* rte_eth_tx_burst on port p took the first n of pkts; the caller frees the others.
Took(p, pkts, n) ==
  lastOut' = IF n = 0 THEN lastOut ELSE [lastOut EXCEPT ![p] = pkts[n]]

-----------------------------------------------------------------------------
(* The main loop.                                                          *)

StopRequestedHoisted == FALSE   \* a mistake: force_quit read once, before the loop
StopRequested == forceQuit

LoopTop ==
  /\ pc = "top"
  /\ i' = 1
  /\ IF StopRequested
     THEN pc' = "done" /\ UNCHANGED due
     ELSE pc' = (IF due THEN "drain" ELSE "rx") /\ due' = FALSE
  /\ UNCHANGED <<options, forceQuit, burst, single, mTable, lastOut, nextPkt, acc, stats>>

NbDrainedLess == Len(PortSeq) - 1   \* a mistake: the last TX port is left out
NbDrained == Len(PortSeq)

\* send_burst of all that waits for one port, counted at once.
DrainPort ==
  /\ pc = "drain" /\ i <= NbDrained
  /\ LET p == PortSeq[i]
     IN  \E n \in 0 .. Len(mTable[p]) :
           /\ Took(p, mTable[p], n)
           /\ mTable' = [mTable EXCEPT ![p] = <<>>]
           /\ stats' = [stats EXCEPT !.tx = @ + n, !.dropped = @ + Len(mTable[p]) - n]
  /\ i' = i + 1
  /\ UNCHANGED <<options, forceQuit, pc, due, burst, single, nextPkt, acc>>

DrainEnd ==
  /\ pc = "drain" /\ i > NbDrained
  /\ pc' = "rx"
  /\ i' = 1
  /\ UNCHANGED <<options, forceQuit, due, burst, single, mTable, lastOut, nextPkt, acc, stats>>

\* acl_send_packets takes the x4 path only when nothing was denied (nb_drop == 0).
OneByOne(hops) ==
  \/ sendPath = "single"
  \/ sendPath = "acl" /\ \E k \in DOMAIN hops : hops[k] = Denied

\* rte_eth_rx_burst on the next queue, and the lookup of every packet's hop.
RxPoll ==
  /\ pc = "rx" /\ i <= NRxQueue
  /\ i' = i + 1
  /\ \E n \in 0 .. rxBurstSize :
       /\ nextPkt + n <= MaxRx + 1
       /\ \E hops \in [1 .. n -> Port \cup NoHop] :
            /\ burst' = [k \in 1 .. n |-> [pkt |-> nextPkt + k - 1, hop |-> hops[k]]]
            /\ single' = OneByOne(hops)
       /\ nextPkt' = nextPkt + n
       /\ stats' = [stats EXCEPT !.rx = @ + n]
       /\ pc' = IF n = 0 THEN "rx" ELSE "send"
  /\ UNCHANGED <<options, forceQuit, due, mTable, lastOut, acc>>

RxEnd ==
  /\ pc = "rx" /\ i > NRxQueue
  /\ pc' = "top"
  /\ UNCHANGED <<options, forceQuit, i, due, burst, single, mTable, lastOut, nextPkt, acc, stats>>

-----------------------------------------------------------------------------
(* send_packets_multi: the maximal runs of equal hops, one after another.  *)

\* pnum[]: how many packets from the first one on share its hop.
GroupLen ==
  CHOOSE k \in 1 .. Len(burst) :
    /\ \A a \in 1 .. k : burst[a].hop = burst[1].hop
    /\ k < Len(burst) => burst[k + 1].hop # burst[1].hop

Group == [k \in 1 .. GroupLen |-> burst[k].pkt]

Straightway(p, num) == num >= txBurstSize /\ mTable[p] = <<>>
StraightwayAnyLen(p, num) == num >= txBurstSize   \* a mistake: overtakes the buffer

\* How many of num packets fit; a mistake is to forget the ones that wait.
FitNoLen(p, num) == IF num > MaxPktBurst THEN MaxPktBurst ELSE num
Fit(p, num) ==
  IF Len(mTable[p]) + num > MaxPktBurst THEN MaxPktBurst - Len(mTable[p]) ELSE num

\* What the last loop copies to the front; a mistake is to copy nothing.
RestNone(m, n) == <<>>
Rest(m, n) == SubSeq(m, n + 1, Len(m))

FlushDropped(k) == MaxPktBurst - k

\* send_packetsx4 of the group m to port p.
SendX4(p, m) ==
  IF Straightway(p, Len(m))
  THEN \E k \in 0 .. Len(m) :
         /\ Took(p, m, k)
         /\ acc' = Plus(acc, k, Len(m) - k)
         /\ UNCHANGED mTable
  ELSE LET n    == Fit(p, Len(m))
           full == mTable[p] \o SubSeq(m, 1, n)
       IN  IF Len(full) = MaxPktBurst
           THEN \E k \in 0 .. MaxPktBurst :
                  /\ Took(p, full, k)
                  /\ acc' = Plus(acc, k, FlushDropped(k))
                  /\ mTable' = [mTable EXCEPT ![p] = Rest(m, n)]
           ELSE /\ mTable' = [mTable EXCEPT ![p] = full]
                /\ UNCHANGED <<lastOut, acc>>

\* A group whose hop is BAD_PORT is freed and counted.
SendGroup ==
  /\ pc = "send" /\ ~single /\ burst # <<>>
  /\ IF burst[1].hop \in NoHop
     THEN /\ acc' = Plus(acc, 0, GroupLen)
          /\ UNCHANGED <<mTable, lastOut>>
     ELSE SendX4(burst[1].hop, Group)
  /\ burst' = SubSeq(burst, GroupLen + 1, Len(burst))
  /\ UNCHANGED <<options, forceQuit, pc, i, due, single, nextPkt, stats>>

-----------------------------------------------------------------------------
(* One by one: l3fwd_lpm_simple_forward, or send_packets_single for ACL.   *)

FilledLate(len) == len > rxBurstSize   \* a mistake: one packet late
Filled(len) == len = rxBurstSize

DroppedAlways(len, k) == rxBurstSize - k   \* a mistake: counts without a flush
DroppedBy(len, k) == IF Filled(len) THEN rxBurstSize - k ELSE 0

AfterFlushKept(full) == full   \* a mistake: len = 0 is missing
AfterFlush(full) == <<>>

\* send_single_packet, and what its caller makes of the result.
SendSingle ==
  /\ pc = "send" /\ single /\ burst # <<>>
  /\ IF burst[1].hop \in NoHop
     THEN /\ acc' = Plus(acc, 0, 1)
          /\ UNCHANGED <<mTable, lastOut>>
     ELSE LET p    == burst[1].hop
              full == Append(mTable[p], burst[1].pkt)
          IN  IF Filled(Len(full))
              THEN \E k \in 0 .. rxBurstSize :
                     /\ Took(p, full, k)
                     /\ acc' = Plus(acc, k, DroppedBy(Len(full), k))
                     /\ mTable' = [mTable EXCEPT ![p] = AfterFlush(full)]
              ELSE /\ mTable' = [mTable EXCEPT ![p] = full]
                   /\ acc' = Plus(acc, 0, DroppedBy(Len(full), 0))
                   /\ UNCHANGED lastOut
  /\ burst' = Tail(burst)
  /\ UNCHANGED <<options, forceQuit, pc, i, due, single, nextPkt, stats>>

\* lcore_stats += tx_stats, and the next queue.
SendEnd ==
  /\ pc = "send" /\ burst = <<>>
  /\ stats' = [stats EXCEPT !.tx = @ + acc.sent, !.dropped = @ + acc.dropped]
  /\ acc' = NoStats
  /\ pc' = "rx"
  /\ UNCHANGED <<options, forceQuit, i, due, burst, single, mTable, lastOut, nextPkt>>

Terminated == pc = "done" /\ UNCHANGED vars

LcoreStep ==
  \/ LoopTop \/ DrainPort \/ DrainEnd \/ RxPoll \/ RxEnd
  \/ SendGroup \/ SendSingle \/ SendEnd

Next == Signal \/ TscPasses \/ LcoreStep \/ Terminated

Spec == Init /\ [][Next]_vars

\* The lcore's thread never blocks and the TSC never stops.
FairSpec == Spec /\ WF_vars(LcoreStep) /\ WF_vars(TscPasses)

-----------------------------------------------------------------------------
Packet == 1 .. MaxRx

TypeOK ==
  /\ sendPath \in SendPaths
  /\ rxBurstSize \in 1 .. MaxPktBurst
  /\ txBurstSize \in 1 .. MaxPktBurst
  /\ forceQuit \in BOOLEAN
  /\ pc \in {"top", "drain", "rx", "send", "done"}
  /\ i \in Nat \ {0}
  /\ due \in BOOLEAN
  /\ burst \in Seq([pkt : Packet, hop : Port \cup NoHop])
  /\ single \in BOOLEAN
  \* after each call m_table has room for one more packet: neither sender looks first
  /\ mTable \in [Port -> {m \in Seq(Packet) : Len(m) < MaxPktBurst}]
  /\ lastOut \in [Port -> 0 .. MaxRx]
  /\ nextPkt \in 1 .. MaxRx + 1
  /\ acc \in [sent : Nat, dropped : Nat]
  /\ stats \in [rx : Nat, tx : Nat, dropped : Nat]

\* The array bounds of struct mbuf_table: no packet is stored past m_table's end.
StoredInTable == \A p \in Port : Len(mTable[p]) <= MaxPktBurst

\* The places of the tables with a packet in them.
Occupied == UNION {{p} \X DOMAIN mTable[p] : p \in Port}
Waiting  == Cardinality(Occupied)

\* rx = tx + dropped + what the lcore still holds, at every step: no packet leaks, none
\* is freed or counted twice, whatever the NIC refuses.
StatsExact ==
  stats.rx = stats.tx + acc.sent + stats.dropped + acc.dropped + Waiting + Len(burst)

\* Packets for one port leave it in the order they came in, though some of them wait
\* and others are sent straightway; none is in two places.
InOrder ==
  /\ \A p \in Port : \A a \in 1 .. Len(mTable[p]) :
       /\ lastOut[p] < mTable[p][a]
       /\ a > 1 => mTable[p][a - 1] < mTable[p][a]
       /\ burst # <<>> => mTable[p][a] < burst[1].pkt
       /\ \A q \in Port \ {p} : \A b \in 1 .. Len(mTable[q]) : mTable[p][a] # mTable[q][b]
  /\ \A p \in Port : burst # <<>> => lastOut[p] < burst[1].pkt

\* A packet that waits in m_table leaves it, even if no other packet ever comes, unless
\* the program ends.
EventuallyOut ==
  \A p \in Port : \A k \in Packet :
    (mTable[p] # <<>> /\ mTable[p][1] = k) ~>
      (forceQuit \/ mTable[p] = <<>> \/ mTable[p][1] # k)

\* After a signal the lcore leaves its loop.
QuitReturns == forceQuit ~> pc = "done"

=============================================================================
