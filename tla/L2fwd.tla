------------------------------- MODULE L2fwd -------------------------------
(***************************************************************************)
(* The data path of l2fwd/main.c.  Every lcore runs l2fwd_main_loop over   *)
(* the ports of its rx_port_list; the main lcore also prints statistics,   *)
(* then waits for the workers and closes the ports.  The lcores share      *)
(* tx_buffer[], port_statistics[] and force_quit and take no lock: what    *)
(* keeps them apart is the configuration module L2fwdSetup computes, whose *)
(* result this module assumes (L2fwdAssumption).                           *)
(*                                                                         *)
(* A packet is only counted here: which counter or buffer holds it is what *)
(* the properties tell apart.                                              *)
(***************************************************************************)
EXTENDS Integers, Sequences

CONSTANTS
  Lcore,        \* the enabled lcores
  MainLcore,    \* rte_get_main_lcore()
  PortSeq,      \* the enabled ports, in the order RTE_ETH_FOREACH_DEV visits them
  RxPortList,   \* lcore_queue_conf[l].rx_port_list
  Dst,          \* l2fwd_dst_ports
  MaxPktBurst,  \* MAX_PKT_BURST: size of a TX buffer and of an RX burst
  MaxRx         \* bounds the packets each port receives in a behaviour

Port == {PortSeq[k] : k \in 1 .. Len(PortSeq)}

\* What L2fwdSetup establishes (DstInvolution, PolledOnce) and the buffer's size.
ASSUME L2fwdAssumption ==
  /\ MainLcore \in Lcore
  /\ \A k \in 1 .. Len(PortSeq) : PortSeq[k] \in Port
  /\ Len(PortSeq) \in Nat
  /\ RxPortList \in [Lcore -> Seq(Port)]
  /\ \A l, m \in Lcore : \A a \in 1 .. Len(RxPortList[l]), b \in 1 .. Len(RxPortList[m]) :
       RxPortList[l][a] = RxPortList[m][b] => l = m /\ a = b
  /\ Dst \in [Port -> Port]
  /\ \A p \in Port : Dst[Dst[p]] = p
  /\ MaxPktBurst \in Nat \ {0}
  /\ MaxRx \in [Port -> Nat]

VARIABLES
  forceQuit,    \* force_quit
  pc,           \* where each lcore is in l2fwd_main_loop
  i,            \* the lcore's loop index over its rx_port_list, from 1
  due,          \* diff_tsc > drain_tsc, for each lcore
  timerDue,     \* timer_tsc >= timer_period on the main lcore
  pend,         \* packets of the current RX burst not yet in a TX buffer
  back,         \* the loop a flush returns to
  held,         \* to_send in rte_eth_tx_buffer_flush
  sent,         \* what rte_eth_tx_burst took of them
  buf,          \* tx_buffer[p]->length
  tx, rx, dropped,  \* port_statistics[p]
  prt,          \* print_stats: next port and the totals so far
  last,         \* last_packets_tx, last_packets_rx
  mainPc,       \* the main lcore in main(), outside its own l2fwd_main_loop
  nextClose,    \* the port main() closes next
  open          \* the port is started

lcoreVars == <<pc, i, pend, back, held, sent>>
stats == <<tx, rx, dropped>>
printVars == <<prt, last>>
mainVars == <<mainPc, nextClose, open>>
vars == <<forceQuit, lcoreVars, due, timerDue, buf, stats, printVars, mainVars>>

NPorts == Len(PortSeq)
NRx(l) == Len(RxPortList[l])
CurPort(l) == RxPortList[l][i[l]]

\* l2fwd_simple_forward: dst_port = l2fwd_dst_ports[portid].  A mistake: port 1 for all.
TxPortConst(p) == PortSeq[1]
TxPort(p) == Dst[p]

CurDst(l) == TxPort(CurPort(l))

NoPrint == [k |-> 1, tx |-> 0, rx |-> 0]

Init ==
  /\ forceQuit = FALSE
  /\ pc = [l \in Lcore |-> "launch"]
  /\ i = [l \in Lcore |-> 1]
  /\ due = [l \in Lcore |-> TRUE]         \* prev_tsc = 0
  /\ timerDue \in BOOLEAN                 \* whether the first diff_tsc exceeds the period
  /\ pend = [l \in Lcore |-> 0]
  /\ back = [l \in Lcore |-> "drain"]
  /\ held = [l \in Lcore |-> 0]
  /\ sent = [l \in Lcore |-> 0]
  /\ buf = [p \in Port |-> 0]
  /\ tx = [p \in Port |-> 0]
  /\ rx = [p \in Port |-> 0]
  /\ dropped = [p \in Port |-> 0]
  /\ prt = NoPrint
  /\ last = [tx |-> 0, rx |-> 0]
  /\ mainPc = "run"
  /\ nextClose = 1
  /\ open = [p \in Port |-> TRUE]

-----------------------------------------------------------------------------
(* The environment: a signal, and the TSC that goes on counting.           *)

Signal ==
  /\ ~forceQuit
  /\ forceQuit' = TRUE
  /\ UNCHANGED <<lcoreVars, due, timerDue, buf, stats, printVars, mainVars>>

DrainTscPasses(l) ==
  /\ ~due[l]
  /\ due' = [due EXCEPT ![l] = TRUE]
  /\ UNCHANGED <<forceQuit, lcoreVars, timerDue, buf, stats, printVars, mainVars>>

TimerPeriodPasses ==
  /\ ~timerDue
  /\ timerDue' = TRUE
  /\ UNCHANGED <<forceQuit, lcoreVars, due, buf, stats, printVars, mainVars>>

-----------------------------------------------------------------------------
(* l2fwd_main_loop on lcore l.                                             *)

Goto(l, label) == pc' = [pc EXCEPT ![l] = label]

\* An lcore without ports has nothing to do.
Launch(l) ==
  /\ pc[l] = "launch"
  /\ Goto(l, IF NRx(l) = 0 THEN "done" ELSE "top")
  /\ UNCHANGED <<forceQuit, i, pend, back, held, sent, due, timerDue, buf, stats, printVars, mainVars>>

StopRequestedMain(l) == forceQuit /\ l = MainLcore   \* mistakes: a worker never
StopRequested(l) == forceQuit                         \* sees the flag, never drains
TimeToDrainMain(l) == due[l] /\ l = MainLcore
TimeToDrain(l) == due[l]

\* while (!force_quit), and the choice to drain this time round.
LoopTop(l) ==
  /\ pc[l] = "top"
  /\ IF StopRequested(l)
     THEN /\ Goto(l, "done")
          /\ UNCHANGED due
     ELSE /\ Goto(l, IF TimeToDrain(l) THEN "drain" ELSE "rx")
          /\ due' = [due EXCEPT ![l] = FALSE]
  /\ i' = [i EXCEPT ![l] = 1]
  /\ UNCHANGED <<forceQuit, pend, back, held, sent, timerDue, buf, stats, printVars, mainVars>>

\* rte_eth_tx_buffer_flush of one destination; an empty buffer costs nothing.
DrainPort(l) ==
  /\ pc[l] = "drain" /\ i[l] <= NRx(l)
  /\ IF buf[CurDst(l)] = 0
     THEN /\ i' = [i EXCEPT ![l] = @ + 1]
          /\ UNCHANGED <<pc, back>>
     ELSE /\ Goto(l, "burst")
          /\ back' = [back EXCEPT ![l] = "drain"]
          /\ UNCHANGED i
  /\ UNCHANGED <<forceQuit, pend, held, sent, due, timerDue, buf, stats, printVars, mainVars>>

\* The drain is over; the main lcore prints when its timer has run out.
DrainEnd(l) ==
  /\ pc[l] = "drain" /\ i[l] > NRx(l)
  /\ i' = [i EXCEPT ![l] = 1]
  /\ IF timerDue /\ l = MainLcore
     THEN /\ Goto(l, "print")
          /\ timerDue' = FALSE
          /\ prt' = NoPrint
     ELSE /\ Goto(l, "rx")
          /\ UNCHANGED <<timerDue, prt>>
  /\ UNCHANGED <<forceQuit, pend, back, held, sent, due, buf, stats, last, mainVars>>

\* print_stats reads the counters of one port while the other lcores go on.
PrintPort(l) ==
  /\ pc[l] = "print" /\ prt.k <= NPorts
  /\ prt' = [k  |-> prt.k + 1,
             tx |-> prt.tx + tx[PortSeq[prt.k]],
             rx |-> prt.rx + rx[PortSeq[prt.k]]]
  /\ UNCHANGED <<forceQuit, lcoreVars, due, timerDue, buf, stats, last, mainVars>>

PrintEnd(l) ==
  /\ pc[l] = "print" /\ prt.k > NPorts
  /\ last' = [tx |-> prt.tx, rx |-> prt.rx]
  /\ prt' = NoPrint
  /\ Goto(l, "rx")
  /\ UNCHANGED <<forceQuit, i, pend, back, held, sent, due, timerDue, buf, stats, mainVars>>

\* rte_eth_rx_burst on the next port returns n packets.
RxPoll(l) ==
  /\ pc[l] = "rx" /\ i[l] <= NRx(l)
  /\ \E n \in 0 .. MaxPktBurst :
       /\ rx[CurPort(l)] + n <= MaxRx[CurPort(l)]
       /\ IF n = 0
          THEN /\ i' = [i EXCEPT ![l] = @ + 1]
               /\ UNCHANGED <<pc, pend, rx>>
          ELSE /\ rx' = [rx EXCEPT ![CurPort(l)] = @ + n]
               /\ pend' = [pend EXCEPT ![l] = n]
               /\ Goto(l, "fwd")
               /\ UNCHANGED i
  /\ UNCHANGED <<forceQuit, back, held, sent, due, timerDue, buf, tx, dropped, printVars, mainVars>>

RxEnd(l) ==
  /\ pc[l] = "rx" /\ i[l] > NRx(l)
  /\ Goto(l, "top")
  /\ UNCHANGED <<forceQuit, i, pend, back, held, sent, due, timerDue, buf, stats, printVars, mainVars>>

BufferFullLate(n) == n > MaxPktBurst   \* a mistake: flushes one packet too late
BufferFull(n) == n = MaxPktBurst

\* l2fwd_simple_forward of one packet: rte_eth_tx_buffer stores it, and flushes
\* the buffer that has become full.
Forward(l) ==
  /\ pc[l] = "fwd" /\ pend[l] > 0
  /\ pend' = [pend EXCEPT ![l] = @ - 1]
  /\ buf' = [buf EXCEPT ![CurDst(l)] = @ + 1]
  /\ IF BufferFull(buf[CurDst(l)] + 1)
     THEN /\ Goto(l, "burst")
          /\ back' = [back EXCEPT ![l] = "fwd"]
     ELSE UNCHANGED <<pc, back>>
  /\ UNCHANGED <<forceQuit, i, held, sent, due, timerDue, stats, printVars, mainVars>>

\* The burst is forwarded: next port.
ForwardEnd(l) ==
  /\ pc[l] = "fwd" /\ pend[l] = 0
  /\ i' = [i EXCEPT ![l] = @ + 1]
  /\ Goto(l, "rx")
  /\ UNCHANGED <<forceQuit, pend, back, held, sent, due, timerDue, buf, stats, printVars, mainVars>>

\* rte_eth_tx_buffer_flush: the NIC takes some of the to_send packets ...
TxBurst(l) ==
  /\ pc[l] = "burst"
  /\ \E n \in 0 .. buf[CurDst(l)] : sent' = [sent EXCEPT ![l] = n]
  /\ held' = [held EXCEPT ![l] = buf[CurDst(l)]]
  /\ Goto(l, "reset")
  /\ UNCHANGED <<forceQuit, i, pend, back, due, timerDue, buf, stats, printVars, mainVars>>

UnsentNone(l) == 0   \* mistakes: no error callback, the difference taken the wrong way
UnsentSwapped(l) == sent[l] - held[l]
Unsent(l) == held[l] - sent[l]

\* ... the buffer is emptied and the error callback counts the rest ...
TxReset(l) ==
  /\ pc[l] = "reset"
  /\ buf' = [buf EXCEPT ![CurDst(l)] = 0]
  /\ dropped' = [dropped EXCEPT ![CurDst(l)] = @ + Unsent(l)]
  /\ held' = [held EXCEPT ![l] = 0]
  /\ Goto(l, "count")
  /\ UNCHANGED <<forceQuit, i, pend, back, sent, due, timerDue, tx, rx, printVars, mainVars>>

CountedOver(n, k) == k   \* a mistake: = for +=
Counted(n, k) == n + k

\* ... and the caller adds what was sent to the statistics.
TxCount(l) ==
  /\ pc[l] = "count"
  /\ tx' = [tx EXCEPT ![CurDst(l)] = Counted(@, sent[l])]
  /\ Goto(l, back[l])
  /\ i' = IF back[l] = "drain" THEN [i EXCEPT ![l] = @ + 1] ELSE i
  /\ back' = [back EXCEPT ![l] = "drain"]
  /\ sent' = [sent EXCEPT ![l] = 0]
  /\ UNCHANGED <<forceQuit, pend, held, due, timerDue, buf, rx, dropped, printVars, mainVars>>

LcoreStep(l) ==
  \/ Launch(l) \/ LoopTop(l)
  \/ DrainPort(l) \/ DrainEnd(l) \/ PrintPort(l) \/ PrintEnd(l)
  \/ RxPoll(l) \/ RxEnd(l) \/ Forward(l) \/ ForwardEnd(l)
  \/ TxBurst(l) \/ TxReset(l) \/ TxCount(l)

-----------------------------------------------------------------------------
(* main(), on the main lcore, after its own l2fwd_main_loop has returned.  *)

WaitedForMainOnly == pc[MainLcore] = "done"   \* a mistake: no rte_eal_wait_lcore
WaitedForAll == \A l \in Lcore : pc[l] = "done"

WaitLcores ==
  /\ mainPc = "run"
  /\ WaitedForAll
  /\ mainPc' = "close"
  /\ UNCHANGED <<forceQuit, lcoreVars, due, timerDue, buf, stats, printVars, nextClose, open>>

\* rte_eth_dev_stop, whose failure is only printed, and rte_eth_dev_close.
ClosePort ==
  /\ mainPc = "close" /\ nextClose <= NPorts
  /\ open' = [open EXCEPT ![PortSeq[nextClose]] = FALSE]
  /\ nextClose' = nextClose + 1
  /\ UNCHANGED <<forceQuit, lcoreVars, due, timerDue, buf, stats, printVars, mainPc>>

Exit ==
  /\ mainPc = "close" /\ nextClose > NPorts
  /\ mainPc' = "exited"
  /\ UNCHANGED <<forceQuit, lcoreVars, due, timerDue, buf, stats, printVars, nextClose, open>>

Terminated == mainPc = "exited" /\ UNCHANGED vars

Main == WaitLcores \/ ClosePort \/ Exit

Next ==
  \/ Signal \/ TimerPeriodPasses
  \/ \E l \in Lcore : DrainTscPasses(l) \/ LcoreStep(l)
  \/ Main
  \/ Terminated

\* Every lcore is a thread pinned to a core of its own that never blocks, and the
\* TSC never stops.  Signals and packets may or may not come.
Fairness ==
  /\ \A l \in Lcore : WF_vars(LcoreStep(l)) /\ WF_vars(DrainTscPasses(l))
  /\ WF_vars(Main)

Spec == Init /\ [][Next]_vars
FairSpec == Spec /\ Fairness

-----------------------------------------------------------------------------
LoopLabel == {"top", "drain", "print", "rx", "fwd", "burst", "reset", "count"}

TypeOK ==
  /\ forceQuit \in BOOLEAN
  /\ pc \in [Lcore -> LoopLabel \cup {"launch", "done"}]
  /\ i \in [Lcore -> Nat \ {0}]
  /\ due \in [Lcore -> BOOLEAN]
  /\ timerDue \in BOOLEAN
  /\ pend \in [Lcore -> 0 .. MaxPktBurst]
  /\ back \in [Lcore -> {"drain", "fwd"}]
  /\ held \in [Lcore -> 0 .. MaxPktBurst]
  /\ sent \in [Lcore -> 0 .. MaxPktBurst]
  /\ buf \in [Port -> 0 .. MaxPktBurst]
  /\ tx \in [Port -> Nat]
  /\ rx \in [Port -> Nat]
  /\ dropped \in [Port -> Nat]
  /\ prt \in [k : 1 .. NPorts + 1, tx : Nat, rx : Nat]
  /\ last \in [tx : Nat, rx : Nat]
  /\ mainPc \in {"run", "close", "exited"}
  /\ nextClose \in 1 .. NPorts + 1
  /\ open \in [Port -> BOOLEAN]

\* Packets lcore l has in hand for the a-th port of its list: in the rest of its RX
\* burst, or taken by the NIC and not yet added to tx.
InHand(l, a) ==
  IF i[l] = a THEN pend[l] + (IF pc[l] = "count" THEN sent[l] ELSE 0) ELSE 0

\* Every packet counted as received on p is sent by Dst[p], or counted as dropped
\* there, or waits in its TX buffer, or is in the hands of the lcore that polls p:
\* none is lost or counted twice, though no counter and no buffer is locked.
Conservation ==
  \A l \in Lcore : \A a \in 1 .. NRx(l) :
    LET p == RxPortList[l][a]
    IN  rx[p] = tx[Dst[p]] + dropped[Dst[p]] + buf[Dst[p]] + InHand(l, a)

\* rte_eth_tx_buffer stores without a check: a buffer is only full while the one
\* lcore that fills it is flushing it.
BufferFits ==
  \A l \in Lcore : \A a \in 1 .. NRx(l) :
    \/ buf[Dst[RxPortList[l][a]]] < MaxPktBurst
    \/ /\ buf[Dst[RxPortList[l][a]]] = MaxPktBurst
       /\ i[l] = a /\ pc[l] \in {"burst", "reset"}

\* Once main() has stopped a port, no lcore is left that could poll one or send.
NoUseAfterClose ==
  (\E p \in Port : ~open[p]) => \A l \in Lcore : pc[l] = "done"

\* print_stats adds counters up while the workers change them, and subtracts last
\* time's totals as unsigned numbers: the difference is never negative.
RateNotNegative ==
  pc[MainLcore] = "print" /\ prt.k > NPorts => prt.tx >= last.tx /\ prt.rx >= last.rx

\* While the program runs, no packet stays in a TX buffer for ever: each one received
\* is sent or dropped in the end, by the buffer filling up or by the drain timer.
EventuallyOut ==
  \A p \in Port : \A n \in 1 .. MaxRx[p] :
    rx[p] >= n ~> (tx[Dst[p]] + dropped[Dst[p]] >= n \/ forceQuit)

\* A signal brings every lcore out of its loop and main() through the closing of the
\* ports to its end.
QuitCompletes == forceQuit ~> mainPc = "exited"

Fwd == INSTANCE Forwarder WITH
  Port <- Port, Dst <- Dst, rx <- rx, tx <- tx, dropped <- dropped, open <- open

\* The data path does what a forwarder promises.
FwdSpec == Fwd!Spec

=============================================================================
