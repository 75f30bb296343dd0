---------------------------- MODULE L2fwdProofs ----------------------------
(***************************************************************************)
(* Proofs about L2fwd for every number of lcores, ports and packets: its   *)
(* invariants, and that it implements Forwarder.                           *)
(***************************************************************************)
EXTENDS L2fwd, TLAPS

\* Where each lcore is in its loops: its index is in range, packets are in hand only
\* while a burst is being forwarded, and a flush remembers its buffer's length.
LoopOK(l) ==
  /\ i[l] \in 1 .. NRx(l) + 1
  /\ pc[l] \in {"fwd", "burst", "reset", "count"} => i[l] <= NRx(l)
  /\ pend[l] # 0 => \/ pc[l] = "fwd"
                    \/ pc[l] \in {"burst", "reset", "count"} /\ back[l] = "fwd"
  /\ pc[l] = "reset" => held[l] = buf[CurDst(l)] /\ sent[l] <= held[l]

LoopInv == \A l \in Lcore : LoopOK(l)

\* main() is past its wait only when every lcore has returned, and closes nothing before.
CloseInv ==
  /\ mainPc # "run" => \A l \in Lcore : pc[l] = "done"
  /\ \A p \in Port : ~open[p] => mainPc # "run"

IInv == TypeOK /\ LoopInv /\ Conservation /\ BufferFits /\ CloseInv

-----------------------------------------------------------------------------
\* What rx_port_list[] holds are ports, and so are their destinations.
LEMMA ListFacts ==
  ASSUME NEW l \in Lcore
  PROVE  /\ NRx(l) \in Nat
         /\ \A a \in 1 .. NRx(l) : RxPortList[l][a] \in Port /\ Dst[RxPortList[l][a]] \in Port
<1>1. RxPortList[l] \in Seq(Port) /\ Dst \in [Port -> Port]
  BY L2fwdAssumption
<1>2. NRx(l) \in Nat
  BY <1>1 DEF NRx
<1>3. QED
  BY <1>1, <1>2 DEF NRx

\* Two places of the poll lists never share a destination.
LEMMA Apart ==
  ASSUME NEW l \in Lcore, NEW m \in Lcore, NEW a \in 1 .. NRx(l), NEW b \in 1 .. NRx(m),
         Dst[RxPortList[l][a]] = Dst[RxPortList[m][b]]
  PROVE  l = m /\ a = b
<1>1. RxPortList[l][a] \in Port /\ RxPortList[m][b] \in Port
  BY ListFacts
<1>2. RxPortList[l][a] = RxPortList[m][b]
  BY <1>1, L2fwdAssumption
<1>3. QED
  BY <1>2, L2fwdAssumption DEF NRx

\* The bounds are numbers: MAX_PKT_BURST is positive.
LEMMA Bounds == MaxPktBurst \in Nat \ {0} /\ NPorts \in Nat
  BY L2fwdAssumption DEF NPorts

\* The port an lcore is at, and its destination.
LEMMA CurFacts ==
  ASSUME LoopInv, NEW l \in Lcore, i[l] <= NRx(l)
  PROVE  /\ NRx(l) \in Nat /\ i[l] \in 1 .. NRx(l)
         /\ CurPort(l) \in Port /\ CurPort(l) = RxPortList[l][i[l]]
         /\ CurDst(l) \in Port /\ CurDst(l) = Dst[RxPortList[l][i[l]]]
<1>1. NRx(l) \in Nat /\ i[l] \in 1 .. NRx(l)
  BY ListFacts DEF LoopInv, LoopOK
<1>2. QED
  BY <1>1, ListFacts DEF CurPort, CurDst, TxPort

-----------------------------------------------------------------------------
(* Steps that move no packet.                                              *)

\* A step of the environment or of main() leaves the lcores' state alone.
LEMMA FrameStep ==
  ASSUME IInv, UNCHANGED <<lcoreVars, buf, stats>>
  PROVE  LoopInv' /\ Conservation' /\ BufferFits'
<1> USE DEF IInv, lcoreVars, stats
<1>1. LoopInv'
  BY DEF LoopInv, LoopOK, CurDst, CurPort, TxPort
<1>2. Conservation'
  BY DEF Conservation, InHand
<1>3. BufferFits'
  BY DEF BufferFits
<1>4. QED
  BY <1>1, <1>2, <1>3

\* A step of lcore l that only moves it to another label or index, with no packet
\* in its hands.
LEMMA ControlStep ==
  ASSUME IInv, NEW l \in Lcore,
         NEW x \in {"top", "drain", "print", "rx", "burst", "done"},
         NEW j \in 1 .. NRx(l) + 1,
         x = "burst" => j <= NRx(l),
         pc[l] \in {"launch", "top", "drain", "print", "rx", "fwd"},
         pend[l] = 0,
         pc' = [pc EXCEPT ![l] = x],
         i' = [i EXCEPT ![l] = j],
         \A m \in Lcore \ {l} : back'[m] = back[m],
         UNCHANGED <<pend, held, sent, buf, stats>>
  PROVE  LoopInv' /\ Conservation' /\ BufferFits'
<1> USE DEF IInv, stats
<1>0. /\ i'[l] = j /\ pc'[l] = x
      /\ \A m \in Lcore \ {l} : i'[m] = i[m] /\ pc'[m] = pc[m]
  BY DEF TypeOK
<1>1. LoopInv'
  <2> SUFFICES ASSUME NEW m \in Lcore PROVE LoopOK(m)'
    BY DEF LoopInv
  <2>1. CASE m = l
    BY <2>1, <1>0 DEF LoopInv, LoopOK
  <2>2. CASE m # l
    BY <2>2, <1>0 DEF LoopInv, LoopOK, CurDst, CurPort, TxPort
  <2>3. QED
    BY <2>1, <2>2
<1>2. Conservation'
  <2> SUFFICES ASSUME NEW m \in Lcore, NEW a \in 1 .. NRx(m)
               PROVE  InHand(m, a)' = InHand(m, a)
    BY DEF Conservation
  <2>1. CASE m = l
    BY <2>1, <1>0 DEF InHand
  <2>2. CASE m # l
    BY <2>2, <1>0 DEF InHand
  <2>3. QED
    BY <2>1, <2>2
<1>3. BufferFits'
  <2> SUFFICES ASSUME NEW m \in Lcore, NEW a \in 1 .. NRx(m)
               PROVE  (\/ buf[Dst[RxPortList[m][a]]] < MaxPktBurst
                       \/ /\ buf[Dst[RxPortList[m][a]]] = MaxPktBurst
                          /\ i[m] = a /\ pc[m] \in {"burst", "reset"})'
    BY DEF BufferFits
  <2>1. QED
    BY <1>0 DEF BufferFits
<1>4. QED
  BY <1>1, <1>2, <1>3

\* The lcores that still run keep main() from closing.
LEMMA RunningStep ==
  ASSUME IInv, NEW l \in Lcore, pc[l] # "done", UNCHANGED mainVars
  PROVE  CloseInv'
  BY DEF IInv, CloseInv, mainVars

-----------------------------------------------------------------------------
(* Steps that move packets.                                                *)

\* rte_eth_rx_burst counts what it puts in the lcore's hands: an RX burst keeps every
\* conjunct of the invariant.
LEMMA RxPollStep ==
  ASSUME IInv, NEW l \in Lcore, RxPoll(l)
  PROVE  TypeOK' /\ LoopInv' /\ Conservation' /\ BufferFits'
<1> USE DEF IInv
<1>0. /\ pc[l] = "rx" /\ pend[l] = 0
      /\ i[l] \in 1 .. NRx(l) /\ NRx(l) \in Nat /\ CurPort(l) \in Port
  <2>1. pc[l] = "rx" /\ i[l] <= NRx(l)
    BY DEF RxPoll
  <2>2. QED
    BY <2>1, CurFacts DEF LoopInv, LoopOK
<1>1. PICK n \in 0 .. MaxPktBurst :
        IF n = 0
        THEN /\ i' = [i EXCEPT ![l] = @ + 1]
             /\ UNCHANGED <<pc, pend, rx>>
        ELSE /\ rx' = [rx EXCEPT ![CurPort(l)] = @ + n]
             /\ pend' = [pend EXCEPT ![l] = n]
             /\ pc' = [pc EXCEPT ![l] = "fwd"]
             /\ UNCHANGED i
  BY DEF RxPoll, Goto
<1>2. UNCHANGED <<back, held, sent, buf, tx, dropped>>
  BY DEF RxPoll
<1>3. TypeOK'
  <2>1. UNCHANGED <<forceQuit, back, held, sent, due, timerDue, buf, tx, dropped,
                    prt, last, mainPc, nextClose, open>>
    BY DEF RxPoll, printVars, mainVars
  <2>2. CASE n = 0
    BY <2>1, <2>2, <1>0, <1>1 DEF TypeOK, LoopLabel
  <2>3. CASE n # 0
    BY <2>1, <2>3, <1>0, <1>1, Bounds DEF TypeOK, LoopLabel
  <2>4. QED
    BY <2>2, <2>3
<1>4. CASE n = 0
  <2>1. /\ pc' = [pc EXCEPT ![l] = "rx"]
        /\ i' = [i EXCEPT ![l] = i[l] + 1]
        /\ i[l] + 1 \in 1 .. NRx(l) + 1
        /\ UNCHANGED <<pend, held, sent, buf, stats>>
    BY <1>0, <1>1, <1>2, <1>4 DEF TypeOK, stats
  <2>2. \A m \in Lcore \ {l} : back'[m] = back[m]
    BY <1>2
  <2>3. LoopInv' /\ Conservation' /\ BufferFits'
    BY <2>1, <2>2, <1>0, ControlStep
  <2>4. QED
    BY <2>3, <1>3
<1>5. CASE n # 0
  <2>1. LoopInv'
    <3> SUFFICES ASSUME NEW m \in Lcore PROVE LoopOK(m)'
      BY DEF LoopInv
    <3>1. CASE m = l
      BY <3>1, <1>0, <1>1, <1>2, <1>5, Bounds DEF TypeOK, LoopInv, LoopOK
    <3>2. CASE m # l
      BY <3>2, <1>1, <1>2, <1>5 DEF TypeOK, LoopInv, LoopOK, CurDst, CurPort, TxPort
    <3>3. QED
      BY <3>1, <3>2
  <2>2. Conservation'
    <3> SUFFICES ASSUME NEW m \in Lcore, NEW a \in 1 .. NRx(m)
                 PROVE  (rx[RxPortList[m][a]] =
                           tx[Dst[RxPortList[m][a]]] + dropped[Dst[RxPortList[m][a]]]
                             + buf[Dst[RxPortList[m][a]]] + InHand(m, a))'
      BY DEF Conservation
    <3>1. RxPortList[m][a] \in Port /\ Dst[RxPortList[m][a]] \in Port
      BY ListFacts
    <3>2. CASE m = l /\ a = i[l]
      BY <3>1, <3>2, <1>0, <1>1, <1>2, <1>5, Bounds, SMTT(30) DEF TypeOK, Conservation, InHand, CurPort
    <3>3. CASE ~(m = l /\ a = i[l])
      <4>1. RxPortList[m][a] # CurPort(l)
        BY <3>3, <1>0, L2fwdAssumption DEF CurPort, NRx
      <4>2. InHand(m, a)' = InHand(m, a)
        BY <3>3, <1>0, <1>1, <1>2, <1>5 DEF TypeOK, InHand
      <4>3. QED
        BY <3>1, <4>1, <4>2, <1>1, <1>2, <1>5 DEF TypeOK, Conservation
    <3>4. QED
      BY <3>2, <3>3
  <2>3. BufferFits'
    BY <1>0, <1>1, <1>2, <1>5 DEF TypeOK, BufferFits
  <2>4. QED
    BY <2>1, <2>2, <2>3, <1>3
<1>6. QED
  BY <1>4, <1>5

\* Facts about an lcore that is flushing or filling the buffer of its destination.
LEMMA FlushFacts ==
  ASSUME IInv, NEW l \in Lcore, pc[l] \in {"fwd", "burst", "reset", "count"}
  PROVE  /\ NRx(l) \in Nat /\ i[l] \in 1 .. NRx(l)
         /\ CurPort(l) \in Port /\ CurPort(l) = RxPortList[l][i[l]]
         /\ CurDst(l) \in Port /\ CurDst(l) = Dst[RxPortList[l][i[l]]]
         /\ \A m \in Lcore : \A a \in 1 .. NRx(m) :
              ~(m = l /\ a = i[l]) => Dst[RxPortList[m][a]] # CurDst(l)
<1>1. i[l] <= NRx(l)
  BY DEF IInv, LoopInv, LoopOK
<1>2. /\ NRx(l) \in Nat /\ i[l] \in 1 .. NRx(l)
      /\ CurPort(l) \in Port /\ CurPort(l) = RxPortList[l][i[l]]
      /\ CurDst(l) \in Port /\ CurDst(l) = Dst[RxPortList[l][i[l]]]
  BY <1>1, CurFacts DEF IInv
<1>3. QED
  BY <1>2, Apart

\* A step at which lcore l, staying at its port, changes only the buffer and the
\* counters of its destination: what the other ports' packets are in is unchanged,
\* so each invariant is a matter of l's own port.
LEMMA FlushStep ==
  ASSUME IInv, TypeOK', NEW l \in Lcore, pc[l] \in {"fwd", "burst", "reset", "count"},
         UNCHANGED rx,
         \A p \in Port \ {CurDst(l)} :
           buf'[p] = buf[p] /\ tx'[p] = tx[p] /\ dropped'[p] = dropped[p],
         \A m \in Lcore \ {l} :
           /\ pc'[m] = pc[m] /\ i'[m] = i[m] /\ pend'[m] = pend[m]
           /\ back'[m] = back[m] /\ held'[m] = held[m] /\ sent'[m] = sent[m],
         LoopOK(l)',
         i'[l] # i[l] => pend[l] = 0 /\ pend'[l] = 0 /\ pc[l] = "count" /\ pc'[l] = "drain",
         rx[CurPort(l)] = tx'[CurDst(l)] + dropped'[CurDst(l)] + buf'[CurDst(l)]
                            + pend'[l] + (IF pc'[l] = "count" THEN sent'[l] ELSE 0),
         \/ buf'[CurDst(l)] < MaxPktBurst
         \/ buf'[CurDst(l)] = MaxPktBurst /\ i'[l] = i[l] /\ pc'[l] \in {"burst", "reset"}
  PROVE  LoopInv' /\ Conservation' /\ BufferFits'
<1> USE DEF IInv
<1>0. /\ NRx(l) \in Nat /\ i[l] \in 1 .. NRx(l)
      /\ CurPort(l) \in Port /\ CurPort(l) = RxPortList[l][i[l]]
      /\ CurDst(l) \in Port /\ CurDst(l) = Dst[RxPortList[l][i[l]]]
  BY FlushFacts
<1>a. \A m \in Lcore : \A a \in 1 .. NRx(m) :
        ~(m = l /\ a = i[l]) => Dst[RxPortList[m][a]] # CurDst(l)
  BY FlushFacts
<1>1. LoopInv'
  <2> SUFFICES ASSUME NEW m \in Lcore, m # l PROVE LoopOK(m)'
    BY DEF LoopInv
  <2>1. LoopOK(m)
    BY DEF LoopInv
  <2>2. CASE pc[m] = "reset"
    <3>1. i[m] <= NRx(m)
      BY <2>1, <2>2 DEF LoopOK
    <3>2. /\ i[m] \in 1 .. NRx(m) /\ CurDst(m) \in Port
          /\ CurDst(m) = Dst[RxPortList[m][i[m]]]
      BY <3>1, CurFacts
    <3>3. CurDst(m)' = CurDst(m) /\ CurDst(m) # CurDst(l)
      BY <3>2, <1>a DEF CurDst, CurPort, TxPort
    <3>4. QED
      BY <2>1, <2>2, <3>2, <3>3 DEF LoopOK
  <2>3. CASE pc[m] # "reset"
    BY <2>1, <2>3 DEF LoopOK
  <2>4. QED
    BY <2>2, <2>3
<1>2. Conservation'
  <2> SUFFICES ASSUME NEW m \in Lcore, NEW a \in 1 .. NRx(m)
               PROVE  (rx[RxPortList[m][a]] =
                         tx[Dst[RxPortList[m][a]]] + dropped[Dst[RxPortList[m][a]]]
                           + buf[Dst[RxPortList[m][a]]] + InHand(m, a))'
    BY DEF Conservation
  <2>0. RxPortList[m][a] \in Port /\ Dst[RxPortList[m][a]] \in Port
    BY ListFacts
  <2>1. CASE m = l /\ a = i[l]
    <3>1. InHand(m, a)' = pend'[l] + (IF pc'[l] = "count" THEN sent'[l] ELSE 0)
      <4>1. CASE i'[l] = i[l]
        BY <2>1, <4>1 DEF InHand
      <4>2. CASE i'[l] # i[l]
        BY <2>1, <4>2 DEF InHand
      <4>3. QED
        BY <4>1, <4>2
    <3>2. tx'[CurDst(l)] \in Nat /\ dropped'[CurDst(l)] \in Nat /\ buf'[CurDst(l)] \in Nat
      BY <1>0, Bounds DEF TypeOK
    <3>3. pend'[l] \in Nat /\ (IF pc'[l] = "count" THEN sent'[l] ELSE 0) \in Nat
      BY Bounds DEF TypeOK
    <3>4. QED
      BY <2>1, <3>1, <3>2, <3>3, <1>0
  <2>2. CASE ~(m = l /\ a = i[l])
    <3>1. Dst[RxPortList[m][a]] # CurDst(l)
      BY <2>2, <1>a
    <3>2. InHand(m, a)' = InHand(m, a)
      <4>1. CASE m = l
        <5>1. InHand(m, a) = 0
          BY <2>2, <4>1 DEF InHand
        <5>2. CASE i'[l] = i[l]
          BY <2>2, <4>1, <5>1, <5>2 DEF InHand
        <5>3. CASE i'[l] # i[l]
          BY <4>1, <5>1, <5>3 DEF InHand
        <5>4. QED
          BY <5>2, <5>3
      <4>2. CASE m # l
        BY <4>2 DEF InHand
      <4>3. QED
        BY <4>1, <4>2
    <3>3. QED
      BY <2>0, <3>1, <3>2 DEF Conservation
  <2>3. QED
    BY <2>1, <2>2
<1>3. BufferFits'
  <2> SUFFICES ASSUME NEW m \in Lcore, NEW a \in 1 .. NRx(m)
               PROVE  (\/ buf[Dst[RxPortList[m][a]]] < MaxPktBurst
                       \/ /\ buf[Dst[RxPortList[m][a]]] = MaxPktBurst
                          /\ i[m] = a /\ pc[m] \in {"burst", "reset"})'
    BY DEF BufferFits
  <2>0. Dst[RxPortList[m][a]] \in Port
    BY ListFacts
  <2>1. CASE m = l /\ a = i[l]
    BY <2>1, <1>0
  <2>2. CASE m # l
    BY <2>0, <2>2, <1>a DEF BufferFits
  <2>3. CASE m = l /\ a # i[l]
    BY <2>0, <2>3, <1>a DEF BufferFits
  <2>4. QED
    BY <2>1, <2>2, <2>3
<1>4. QED
  BY <1>1, <1>2, <1>3

\* Conservation at the port lcore l is at, and the values it is about.
LEMMA OwnPort ==
  ASSUME IInv, NEW l \in Lcore, pc[l] \in {"fwd", "burst", "reset", "count"}
  PROVE  /\ rx[CurPort(l)] = tx[CurDst(l)] + dropped[CurDst(l)] + buf[CurDst(l)]
                               + pend[l] + (IF pc[l] = "count" THEN sent[l] ELSE 0)
         /\ CurDst(l) \in Port
         /\ tx[CurDst(l)] \in Nat /\ dropped[CurDst(l)] \in Nat
         /\ buf[CurDst(l)] \in Nat /\ buf[CurDst(l)] <= MaxPktBurst
         /\ pend[l] \in Nat /\ pend[l] <= MaxPktBurst
         /\ held[l] \in Nat /\ sent[l] \in Nat
         /\ pc[l] \in {"fwd", "count"} => buf[CurDst(l)] < MaxPktBurst
<1> USE DEF IInv
<1>1. /\ i[l] \in 1 .. NRx(l)
      /\ CurPort(l) = RxPortList[l][i[l]]
      /\ CurDst(l) \in Port /\ CurDst(l) = Dst[RxPortList[l][i[l]]]
  BY FlushFacts
<1>2. /\ tx[CurDst(l)] \in Nat /\ dropped[CurDst(l)] \in Nat
      /\ buf[CurDst(l)] \in Nat /\ buf[CurDst(l)] <= MaxPktBurst
      /\ pend[l] \in Nat /\ pend[l] <= MaxPktBurst
      /\ held[l] \in Nat /\ sent[l] \in Nat
  BY <1>1, Bounds DEF TypeOK
<1>3. rx[CurPort(l)] = tx[CurDst(l)] + dropped[CurDst(l)] + buf[CurDst(l)] + InHand(l, i[l])
  BY <1>1 DEF Conservation
<1>4. pc[l] \in {"fwd", "count"} => buf[CurDst(l)] < MaxPktBurst
  BY <1>1 DEF BufferFits
<1>5. InHand(l, i[l]) = pend[l] + (IF pc[l] = "count" THEN sent[l] ELSE 0)
  BY DEF InHand
<1>6. QED
  BY <1>1, <1>2, <1>3, <1>4, <1>5

\* rte_eth_tx_buffer moves one packet from the lcore's hands into a buffer with room
\* for it, and turns to the flush when that fills it.
LEMMA ForwardStep ==
  ASSUME IInv, NEW l \in Lcore, Forward(l)
  PROVE  TypeOK' /\ LoopInv' /\ Conservation' /\ BufferFits'
<1> USE DEF IInv
<1> DEFINE d == CurDst(l)
<1>0. /\ pc[l] = "fwd" /\ pend[l] > 0
      /\ pend' = [pend EXCEPT ![l] = @ - 1]
      /\ buf' = [buf EXCEPT ![d] = @ + 1]
      /\ IF BufferFull(buf[d] + 1)
         THEN pc' = [pc EXCEPT ![l] = "burst"] /\ back' = [back EXCEPT ![l] = "fwd"]
         ELSE UNCHANGED <<pc, back>>
      /\ UNCHANGED <<i, held, sent, rx, tx, dropped>>
  BY DEF Forward, Goto, stats
<1>1. /\ rx[CurPort(l)] = tx[d] + dropped[d] + buf[d] + pend[l]
      /\ d \in Port /\ tx[d] \in Nat /\ dropped[d] \in Nat /\ buf[d] \in Nat
      /\ buf[d] < MaxPktBurst /\ pend[l] \in Nat /\ pend[l] <= MaxPktBurst
  BY <1>0, OwnPort
<1> HIDE DEF d
<1>2. TypeOK'
  <2>1. UNCHANGED <<forceQuit, due, timerDue, prt, last, mainPc, nextClose, open>>
    BY DEF Forward, printVars, mainVars
  <2>2. pend' \in [Lcore -> 0 .. MaxPktBurst] /\ buf' \in [Port -> 0 .. MaxPktBurst]
    BY <1>0, <1>1, Bounds DEF TypeOK
  <2>3. pc' \in [Lcore -> LoopLabel \cup {"launch", "done"}] /\ back' \in [Lcore -> {"drain", "fwd"}]
    BY <1>0 DEF TypeOK, LoopLabel
  <2>4. QED
    BY <1>0, <2>1, <2>2, <2>3 DEF TypeOK
<1>3. /\ pend'[l] = pend[l] - 1 /\ buf'[d] = buf[d] + 1 /\ pc'[l] \in {"fwd", "burst"}
      /\ pc'[l] = "burst" => back'[l] = "fwd"
      /\ pc'[l] = "fwd" => buf[d] + 1 < MaxPktBurst
  BY <1>0, <1>1, Bounds DEF TypeOK, BufferFull
<1>4. LoopOK(l)'
  BY <1>0, <1>3 DEF LoopInv, LoopOK
<1>5. \A m \in Lcore \ {l} :
        /\ pc'[m] = pc[m] /\ i'[m] = i[m] /\ pend'[m] = pend[m]
        /\ back'[m] = back[m] /\ held'[m] = held[m] /\ sent'[m] = sent[m]
  BY <1>0 DEF TypeOK
<1>6. \A p \in Port \ {d} : buf'[p] = buf[p] /\ tx'[p] = tx[p] /\ dropped'[p] = dropped[p]
  BY <1>0 DEF TypeOK
<1>7. rx[CurPort(l)] = tx'[d] + dropped'[d] + buf'[d] + pend'[l]
                         + (IF pc'[l] = "count" THEN sent'[l] ELSE 0)
  <2>1. pc'[l] # "count" /\ tx'[d] = tx[d] /\ dropped'[d] = dropped[d]
    BY <1>0, <1>3
  <2>2. QED
    BY <2>1, <1>1, <1>3
<1>8. \/ buf'[d] < MaxPktBurst
      \/ buf'[d] = MaxPktBurst /\ i'[l] = i[l] /\ pc'[l] \in {"burst", "reset"}
  BY <1>0, <1>1, <1>3, Bounds
<1>9. i'[l] = i[l]
  BY <1>0
<1>10. QED
  BY <1>0, <1>2, <1>4, <1>5, <1>6, <1>7, <1>8, <1>9, FlushStep DEF d

\* rte_eth_tx_burst takes part of the buffer, which is not emptied yet.
LEMMA TxBurstStep ==
  ASSUME IInv, NEW l \in Lcore, TxBurst(l)
  PROVE  TypeOK' /\ LoopInv' /\ Conservation' /\ BufferFits'
<1> USE DEF IInv
<1> DEFINE d == CurDst(l)
<1>0. PICK n \in 0 .. buf[d] :
      /\ pc[l] = "burst"
      /\ sent' = [sent EXCEPT ![l] = n]
      /\ held' = [held EXCEPT ![l] = buf[d]]
      /\ pc' = [pc EXCEPT ![l] = "reset"]
      /\ UNCHANGED <<i, pend, back, buf, rx, tx, dropped>>
  BY DEF TxBurst, Goto, stats
<1>1. /\ rx[CurPort(l)] = tx[d] + dropped[d] + buf[d] + pend[l]
      /\ d \in Port /\ tx[d] \in Nat /\ dropped[d] \in Nat
      /\ buf[d] \in Nat /\ buf[d] <= MaxPktBurst
      /\ pend[l] \in Nat
  BY <1>0, OwnPort
<1>a. CurDst(l)' = d
  BY <1>0 DEF CurDst, CurPort, TxPort
<1> HIDE DEF d
<1>2. TypeOK'
  <2>1. UNCHANGED <<forceQuit, due, timerDue, prt, last, mainPc, nextClose, open>>
    BY DEF TxBurst, printVars, mainVars
  <2>2. sent' \in [Lcore -> 0 .. MaxPktBurst] /\ held' \in [Lcore -> 0 .. MaxPktBurst]
    BY <1>0, <1>1, Bounds DEF TypeOK
  <2>3. pc' \in [Lcore -> LoopLabel \cup {"launch", "done"}]
    BY <1>0 DEF TypeOK, LoopLabel
  <2>4. QED
    BY <1>0, <2>1, <2>2, <2>3 DEF TypeOK
<1>3. sent'[l] = n /\ held'[l] = buf[d] /\ pc'[l] = "reset"
  BY <1>0 DEF TypeOK
<1>4. LoopOK(l)'
  BY <1>0, <1>1, <1>3, <1>a DEF LoopInv, LoopOK
<1>5. \A m \in Lcore \ {l} :
        /\ pc'[m] = pc[m] /\ i'[m] = i[m] /\ pend'[m] = pend[m]
        /\ back'[m] = back[m] /\ held'[m] = held[m] /\ sent'[m] = sent[m]
  BY <1>0 DEF TypeOK
<1>7. rx[CurPort(l)] = tx'[d] + dropped'[d] + buf'[d] + pend'[l]
                         + (IF pc'[l] = "count" THEN sent'[l] ELSE 0)
  BY <1>0, <1>1, <1>3
<1>8. \/ buf'[d] < MaxPktBurst
      \/ buf'[d] = MaxPktBurst /\ i'[l] = i[l] /\ pc'[l] \in {"burst", "reset"}
  <2>1. buf'[d] = buf[d] /\ i'[l] = i[l]
    BY <1>0
  <2>2. QED
    BY <2>1, <1>1, <1>3, Bounds
<1>10. QED
  BY <1>0, <1>2, <1>4, <1>5, <1>7, <1>8, FlushStep DEF d

\* The buffer is emptied; what the NIC refused is counted dropped by the callback, the
\* rest stays in the flush's hands until it is counted sent.
LEMMA TxResetStep ==
  ASSUME IInv, NEW l \in Lcore, TxReset(l)
  PROVE  TypeOK' /\ LoopInv' /\ Conservation' /\ BufferFits'
<1> USE DEF IInv
<1> DEFINE d == CurDst(l)
<1>0. /\ pc[l] = "reset"
      /\ buf' = [buf EXCEPT ![d] = 0]
      /\ dropped' = [dropped EXCEPT ![d] = @ + (held[l] - sent[l])]
      /\ held' = [held EXCEPT ![l] = 0]
      /\ pc' = [pc EXCEPT ![l] = "count"]
      /\ UNCHANGED <<i, pend, back, sent, rx, tx>>
  BY DEF TxReset, Goto, Unsent
<1>1. /\ rx[CurPort(l)] = tx[d] + dropped[d] + buf[d] + pend[l]
      /\ d \in Port /\ tx[d] \in Nat /\ dropped[d] \in Nat
      /\ buf[d] \in Nat /\ pend[l] \in Nat /\ held[l] \in Nat /\ sent[l] \in Nat
  BY <1>0, OwnPort
<1>a. held[l] = buf[d] /\ sent[l] <= held[l]
  BY <1>0 DEF LoopInv, LoopOK
<1> HIDE DEF d
<1>2. TypeOK'
  <2>1. UNCHANGED <<forceQuit, due, timerDue, prt, last, mainPc, nextClose, open>>
    BY DEF TxReset, printVars, mainVars
  <2>2. /\ held' \in [Lcore -> 0 .. MaxPktBurst] /\ buf' \in [Port -> 0 .. MaxPktBurst]
        /\ dropped' \in [Port -> Nat]
    BY <1>0, <1>1, <1>a, Bounds DEF TypeOK
  <2>3. pc' \in [Lcore -> LoopLabel \cup {"launch", "done"}]
    BY <1>0 DEF TypeOK, LoopLabel
  <2>4. QED
    BY <1>0, <2>1, <2>2, <2>3 DEF TypeOK
<1>3. /\ pc'[l] = "count" /\ buf'[d] = 0 /\ dropped'[d] = dropped[d] + (held[l] - sent[l])
  BY <1>0, <1>1 DEF TypeOK
<1>4. LoopOK(l)'
  BY <1>0, <1>3 DEF LoopInv, LoopOK
<1>5. \A m \in Lcore \ {l} :
        /\ pc'[m] = pc[m] /\ i'[m] = i[m] /\ pend'[m] = pend[m]
        /\ back'[m] = back[m] /\ held'[m] = held[m] /\ sent'[m] = sent[m]
  BY <1>0 DEF TypeOK
<1>6. \A p \in Port \ {d} : buf'[p] = buf[p] /\ tx'[p] = tx[p] /\ dropped'[p] = dropped[p]
  BY <1>0 DEF TypeOK
<1>7. rx[CurPort(l)] = tx'[d] + dropped'[d] + buf'[d] + pend'[l]
                         + (IF pc'[l] = "count" THEN sent'[l] ELSE 0)
  BY <1>0, <1>1, <1>a, <1>3
<1>8. buf'[d] < MaxPktBurst
  BY <1>3, Bounds
<1>10. QED
  BY <1>0, <1>2, <1>4, <1>5, <1>6, <1>7, <1>8, FlushStep DEF d

\* port_statistics.tx grows by what the burst sent, as nothing is in flight any more.
LEMMA TxCountStep ==
  ASSUME IInv, NEW l \in Lcore, TxCount(l)
  PROVE  TypeOK' /\ LoopInv' /\ Conservation' /\ BufferFits'
<1> USE DEF IInv
<1> DEFINE d == CurDst(l)
<1>0. /\ pc[l] = "count"
      /\ tx' = [tx EXCEPT ![d] = @ + sent[l]]
      /\ pc' = [pc EXCEPT ![l] = back[l]]
      /\ i' = IF back[l] = "drain" THEN [i EXCEPT ![l] = @ + 1] ELSE i
      /\ back' = [back EXCEPT ![l] = "drain"]
      /\ sent' = [sent EXCEPT ![l] = 0]
      /\ UNCHANGED <<pend, held, buf, rx, dropped>>
  BY DEF TxCount, Goto, Counted
<1>1. /\ rx[CurPort(l)] = tx[d] + dropped[d] + buf[d] + pend[l] + sent[l]
      /\ d \in Port /\ tx[d] \in Nat /\ dropped[d] \in Nat
      /\ buf[d] \in Nat /\ pend[l] \in Nat /\ sent[l] \in Nat /\ buf[d] < MaxPktBurst
  BY <1>0, OwnPort
<1>a. NRx(l) \in Nat /\ i[l] \in 1 .. NRx(l)
  BY <1>0, FlushFacts
<1>b. back[l] \in {"drain", "fwd"} /\ (pend[l] # 0 => back[l] = "fwd")
  BY <1>0 DEF TypeOK, LoopInv, LoopOK
<1> HIDE DEF d
<1>2. TypeOK'
  <2>1. UNCHANGED <<forceQuit, due, timerDue, prt, last, mainPc, nextClose, open>>
    BY DEF TxCount, printVars, mainVars
  <2>2. sent' \in [Lcore -> 0 .. MaxPktBurst] /\ tx' \in [Port -> Nat] /\ i' \in [Lcore -> Nat \ {0}]
    BY <1>0, <1>1, <1>a, Bounds DEF TypeOK
  <2>3. pc' \in [Lcore -> LoopLabel \cup {"launch", "done"}] /\ back' \in [Lcore -> {"drain", "fwd"}]
    BY <1>0, <1>b DEF TypeOK, LoopLabel
  <2>4. QED
    BY <1>0, <2>1, <2>2, <2>3 DEF TypeOK
<1>3. pc'[l] = back[l] /\ sent'[l] = 0 /\ tx'[d] = tx[d] + sent[l]
  BY <1>0, <1>1 DEF TypeOK
<1>c. i'[l] = IF back[l] = "drain" THEN i[l] + 1 ELSE i[l]
  BY <1>0 DEF TypeOK
<1>4. LoopOK(l)'
  BY <1>0, <1>3, <1>a, <1>b, <1>c DEF LoopOK
<1>5. \A m \in Lcore \ {l} :
        /\ pc'[m] = pc[m] /\ i'[m] = i[m] /\ pend'[m] = pend[m]
        /\ back'[m] = back[m] /\ held'[m] = held[m] /\ sent'[m] = sent[m]
  BY <1>0 DEF TypeOK
<1>6. \A p \in Port \ {d} : buf'[p] = buf[p] /\ tx'[p] = tx[p] /\ dropped'[p] = dropped[p]
  BY <1>0 DEF TypeOK
<1>7. rx[CurPort(l)] = tx'[d] + dropped'[d] + buf'[d] + pend'[l]
                         + (IF pc'[l] = "count" THEN sent'[l] ELSE 0)
  BY <1>0, <1>1, <1>3, <1>b
<1>8. buf'[d] < MaxPktBurst
  BY <1>0, <1>1
<1>9. i'[l] # i[l] => pend[l] = 0 /\ pend'[l] = 0 /\ pc[l] = "count" /\ pc'[l] = "drain"
  BY <1>0, <1>3, <1>b, <1>c
<1>10. QED
  BY <1>0, <1>2, <1>4, <1>5, <1>6, <1>7, <1>8, <1>9, FlushStep DEF d

-----------------------------------------------------------------------------
(* The steps of an lcore that only choose where it goes next.              *)

\* What the invariant says of one lcore: its index is in range, and it holds packets
\* only between the RX burst and the last rte_eth_tx_buffer.
LEMMA LcoreTypes ==
  ASSUME IInv, NEW l \in Lcore
  PROVE  /\ NRx(l) \in Nat /\ i[l] \in 1 .. NRx(l) + 1
         /\ pc[l] \in {"launch", "top", "drain", "print", "rx"} => pend[l] = 0
         /\ i[l] \in Nat /\ pend[l] \in Nat
<1>1. i[l] \in Nat /\ pend[l] \in Nat
  BY Bounds DEF IInv, TypeOK
<1>2. QED
  BY <1>1, ListFacts DEF IInv, LoopInv, LoopOK

\* A step of an lcore that touches no packet keeps every variable's type.
LEMMA ControlType ==
  ASSUME IInv, NEW l \in Lcore,
         NEW x \in {"top", "drain", "print", "rx", "burst", "done"},
         NEW j \in 1 .. NRx(l) + 1,
         pc' = [pc EXCEPT ![l] = x],
         i' = [i EXCEPT ![l] = j],
         due' \in [Lcore -> BOOLEAN], timerDue' \in BOOLEAN,
         back' \in [Lcore -> {"drain", "fwd"}],
         prt' \in [k : 1 .. NPorts + 1, tx : Nat, rx : Nat],
         last' \in [tx : Nat, rx : Nat],
         UNCHANGED <<forceQuit, pend, held, sent, buf, stats, mainVars>>
  PROVE  TypeOK'
<1> USE DEF IInv
<1>1. pc' \in [Lcore -> LoopLabel \cup {"launch", "done"}]
  BY DEF TypeOK, LoopLabel
<1>2. i' \in [Lcore -> Nat \ {0}]
  <2>1. j \in Nat \ {0}
    BY ListFacts
  <2>2. QED
    BY <2>1 DEF TypeOK
<1>3. QED
  BY <1>1, <1>2 DEF TypeOK, stats, mainVars

\* Both together: what has to be shown of such a step.
LEMMA ControlAll ==
  ASSUME IInv, NEW l \in Lcore,
         NEW x \in {"top", "drain", "print", "rx", "burst", "done"},
         NEW j \in 1 .. NRx(l) + 1,
         x = "burst" => j <= NRx(l),
         pc[l] \in {"launch", "top", "drain", "print", "rx", "fwd"},
         pend[l] = 0,
         pc' = [pc EXCEPT ![l] = x],
         i' = [i EXCEPT ![l] = j],
         due' \in [Lcore -> BOOLEAN], timerDue' \in BOOLEAN,
         \/ UNCHANGED back
         \/ back' = [back EXCEPT ![l] = "drain"],
         prt' \in [k : 1 .. NPorts + 1, tx : Nat, rx : Nat],
         last' \in [tx : Nat, rx : Nat],
         UNCHANGED <<forceQuit, pend, held, sent, buf, stats, mainVars>>
  PROVE  TypeOK' /\ LoopInv' /\ Conservation' /\ BufferFits'
<1>1. back' \in [Lcore -> {"drain", "fwd"}] /\ \A m \in Lcore \ {l} : back'[m] = back[m]
  BY DEF IInv, TypeOK
<1>2. QED
  BY <1>1, ControlStep, ControlType

\* The printing of statistics, and the variables it leaves alone, have their types.
LEMMA PrintTypes ==
  ASSUME IInv
  PROVE  /\ NoPrint \in [k : 1 .. NPorts + 1, tx : Nat, rx : Nat]
         /\ prt \in [k : 1 .. NPorts + 1, tx : Nat, rx : Nat]
         /\ last \in [tx : Nat, rx : Nat]
         /\ due \in [Lcore -> BOOLEAN] /\ timerDue \in BOOLEAN
         /\ i = [m \in Lcore |-> i[m]] /\ pc = [m \in Lcore |-> pc[m]]
BY Bounds DEF IInv, TypeOK, NoPrint

\* The top of l2fwd_main_loop, where force_quit is read, moves no packet.
LEMMA LoopTopStep ==
  ASSUME IInv, NEW l \in Lcore, LoopTop(l)
  PROVE  TypeOK' /\ LoopInv' /\ Conservation' /\ BufferFits'
<1>1. pc[l] = "top" /\ pend[l] = 0 /\ NRx(l) \in Nat
  BY LcoreTypes DEF LoopTop
<1>2. PICK x \in {"done", "drain", "rx"} : pc' = [pc EXCEPT ![l] = x]
  BY DEF LoopTop, Goto
<1>3. i' = [i EXCEPT ![l] = 1] /\ 1 \in 1 .. NRx(l) + 1
  BY <1>1 DEF LoopTop
<1>4. due' \in [Lcore -> BOOLEAN]
  BY PrintTypes DEF LoopTop
<1>5. UNCHANGED <<forceQuit, pend, held, sent, buf, stats, mainVars, timerDue, back, prt, last>>
  BY DEF LoopTop, printVars
<1>6. QED
  BY <1>1, <1>2, <1>3, <1>4, <1>5, ControlAll, PrintTypes

\* Entering l2fwd_main_loop moves no packet, with or without ports to poll.
LEMMA LaunchStep ==
  ASSUME IInv, NEW l \in Lcore, Launch(l)
  PROVE  TypeOK' /\ LoopInv' /\ Conservation' /\ BufferFits'
<1>1. pc[l] = "launch" /\ pend[l] = 0 /\ NRx(l) \in Nat /\ i[l] \in 1 .. NRx(l) + 1
  BY LcoreTypes DEF Launch
<1>2. PICK x \in {"done", "top"} : pc' = [pc EXCEPT ![l] = x]
  BY DEF Launch, Goto
<1>3. i' = [i EXCEPT ![l] = i[l]]
  BY DEF Launch, IInv, TypeOK
<1>5. UNCHANGED <<forceQuit, pend, held, sent, buf, stats, mainVars, due, timerDue, back, prt, last>>
  BY DEF Launch, printVars
<1>6. QED
  BY <1>1, <1>2, <1>3, <1>5, ControlAll, PrintTypes

\* Going to the flush of one port's buffer moves no packet yet.
LEMMA DrainPortStep ==
  ASSUME IInv, NEW l \in Lcore, DrainPort(l)
  PROVE  TypeOK' /\ LoopInv' /\ Conservation' /\ BufferFits'
<1>1. /\ pc[l] = "drain" /\ pend[l] = 0 /\ NRx(l) \in Nat
      /\ i[l] \in 1 .. NRx(l) + 1 /\ i[l] <= NRx(l)
  BY LcoreTypes DEF DrainPort
<1>2. PICK x \in {"drain", "burst"}, j \in {i[l], i[l] + 1} :
        /\ pc' = [pc EXCEPT ![l] = x] /\ i' = [i EXCEPT ![l] = j]
        /\ x = "burst" => j = i[l]
        /\ UNCHANGED back \/ back' = [back EXCEPT ![l] = "drain"]
  <2>1. CASE buf[CurDst(l)] = 0
    <3>1. pc' = [pc EXCEPT ![l] = "drain"] /\ i' = [i EXCEPT ![l] = i[l] + 1] /\ UNCHANGED back
      BY <2>1, <1>1 DEF DrainPort, IInv, TypeOK
    <3>2. QED
      BY <3>1
  <2>2. CASE buf[CurDst(l)] # 0
    <3>1. /\ pc' = [pc EXCEPT ![l] = "burst"] /\ i' = [i EXCEPT ![l] = i[l]]
          /\ back' = [back EXCEPT ![l] = "drain"]
      BY <2>2, <1>1 DEF DrainPort, Goto, IInv, TypeOK
    <3>2. QED
      BY <3>1
  <2>3. QED
    BY <2>1, <2>2
<1>3. j \in 1 .. NRx(l) + 1 /\ (x = "burst" => j <= NRx(l))
  BY <1>1, <1>2
<1>4. UNCHANGED <<forceQuit, pend, held, sent, buf, stats, mainVars, due, timerDue, prt, last>>
  BY DEF DrainPort, printVars
<1>5. QED
  BY <1>1, <1>2, <1>3, <1>4, ControlAll, PrintTypes

\* The end of the drain, with the timer of print_stats, moves no packet.
LEMMA DrainEndStep ==
  ASSUME IInv, NEW l \in Lcore, DrainEnd(l)
  PROVE  TypeOK' /\ LoopInv' /\ Conservation' /\ BufferFits'
<1>1. pc[l] = "drain" /\ pend[l] = 0 /\ NRx(l) \in Nat
  BY LcoreTypes DEF DrainEnd
<1>2. PICK x \in {"print", "rx"} : pc' = [pc EXCEPT ![l] = x]
  BY DEF DrainEnd, Goto
<1>3. i' = [i EXCEPT ![l] = 1] /\ 1 \in 1 .. NRx(l) + 1
  BY <1>1 DEF DrainEnd
<1>4. timerDue' \in BOOLEAN /\ prt' \in [k : 1 .. NPorts + 1, tx : Nat, rx : Nat]
  BY PrintTypes DEF DrainEnd
<1>5. UNCHANGED <<forceQuit, pend, held, sent, buf, stats, mainVars, due, back, last>>
  BY DEF DrainEnd
<1>6. QED
  BY <1>1, <1>2, <1>3, <1>4, <1>5, ControlAll, PrintTypes

\* print_stats only reads the counters.
LEMMA PrintPortStep ==
  ASSUME IInv, NEW l \in Lcore, PrintPort(l)
  PROVE  TypeOK' /\ LoopInv' /\ Conservation' /\ BufferFits'
<1>1. UNCHANGED <<lcoreVars, buf, stats, forceQuit, due, timerDue, last, mainVars>>
  BY DEF PrintPort
<1>2. prt' \in [k : 1 .. NPorts + 1, tx : Nat, rx : Nat]
  <2>1. prt.k \in 1 .. NPorts + 1 /\ prt.k <= NPorts /\ prt.tx \in Nat /\ prt.rx \in Nat
    BY PrintTypes DEF PrintPort
  <2>2. PortSeq[prt.k] \in Port
    BY <2>1, Bounds, L2fwdAssumption DEF NPorts
  <2>3. tx[PortSeq[prt.k]] \in Nat /\ rx[PortSeq[prt.k]] \in Nat
    BY <2>2 DEF IInv, TypeOK
  <2>4. QED
    BY <2>1, <2>3, Bounds DEF PrintPort
<1>3. TypeOK'
  BY <1>1, <1>2 DEF IInv, TypeOK, lcoreVars, stats, mainVars
<1>4. QED
  BY <1>1, <1>3, FrameStep

\* The end of print_stats changes no counter.
LEMMA PrintEndStep ==
  ASSUME IInv, NEW l \in Lcore, PrintEnd(l)
  PROVE  TypeOK' /\ LoopInv' /\ Conservation' /\ BufferFits'
<1>1. pc[l] = "print" /\ pend[l] = 0 /\ NRx(l) \in Nat /\ i[l] \in 1 .. NRx(l) + 1
  BY LcoreTypes DEF PrintEnd
<1>2. pc' = [pc EXCEPT ![l] = "rx"] /\ i' = [i EXCEPT ![l] = i[l]]
  BY DEF PrintEnd, Goto, IInv, TypeOK
<1>3. last' \in [tx : Nat, rx : Nat] /\ prt' \in [k : 1 .. NPorts + 1, tx : Nat, rx : Nat]
  BY PrintTypes DEF PrintEnd
<1>5. UNCHANGED <<forceQuit, pend, held, sent, buf, stats, mainVars, due, timerDue, back>>
  BY DEF PrintEnd
<1>6. QED
  BY <1>1, <1>2, <1>3, <1>5, ControlAll, PrintTypes

\* The end of the poll of the last port moves no packet.
LEMMA RxEndStep ==
  ASSUME IInv, NEW l \in Lcore, RxEnd(l)
  PROVE  TypeOK' /\ LoopInv' /\ Conservation' /\ BufferFits'
<1>1. pc[l] = "rx" /\ pend[l] = 0 /\ NRx(l) \in Nat /\ i[l] \in 1 .. NRx(l) + 1
  BY LcoreTypes DEF RxEnd
<1>2. pc' = [pc EXCEPT ![l] = "top"] /\ i' = [i EXCEPT ![l] = i[l]]
  BY DEF RxEnd, Goto, IInv, TypeOK
<1>5. UNCHANGED <<forceQuit, pend, held, sent, buf, stats, mainVars, due, timerDue, back, prt, last>>
  BY DEF RxEnd, printVars
<1>6. QED
  BY <1>1, <1>2, <1>5, ControlAll, PrintTypes

\* An lcore goes to its next port only when the burst in its hands is empty.
LEMMA ForwardEndStep ==
  ASSUME IInv, NEW l \in Lcore, ForwardEnd(l)
  PROVE  TypeOK' /\ LoopInv' /\ Conservation' /\ BufferFits'
<1>1. pc[l] = "fwd" /\ pend[l] = 0 /\ NRx(l) \in Nat /\ i[l] \in 1 .. NRx(l)
  BY FlushFacts DEF ForwardEnd
<1>2. /\ pc' = [pc EXCEPT ![l] = "rx"] /\ i' = [i EXCEPT ![l] = i[l] + 1]
      /\ i[l] + 1 \in 1 .. NRx(l) + 1
  BY <1>1 DEF ForwardEnd, Goto
<1>5. UNCHANGED <<forceQuit, pend, held, sent, buf, stats, mainVars, due, timerDue, back, prt, last>>
  BY DEF ForwardEnd, printVars
<1>6. QED
  BY <1>1, <1>2, <1>5, ControlAll, PrintTypes

-----------------------------------------------------------------------------
(* The invariant.                                                          *)

\* Every step of an lcore keeps the invariant.
LEMMA LcoreStepInv ==
  ASSUME IInv, NEW l \in Lcore, LcoreStep(l)
  PROVE  IInv'
<1>1. TypeOK' /\ LoopInv' /\ Conservation' /\ BufferFits'
  BY LaunchStep, LoopTopStep, DrainPortStep, DrainEndStep, PrintPortStep, PrintEndStep,
     RxPollStep, RxEndStep, ForwardStep, ForwardEndStep, TxBurstStep, TxResetStep, TxCountStep
     DEF LcoreStep
<1>2. pc[l] # "done" /\ UNCHANGED mainVars
  BY DEF LcoreStep, Launch, LoopTop, DrainPort, DrainEnd, PrintPort, PrintEnd, RxPoll, RxEnd,
         Forward, ForwardEnd, TxBurst, TxReset, TxCount
<1>3. CloseInv'
  BY <1>2, RunningStep
<1>4. QED
  BY <1>1, <1>3 DEF IInv

\* The wait for the lcores, the closing of the ports and the exit keep the invariant:
\* the ports are closed only after all lcores have returned.
LEMMA MainStepInv ==
  ASSUME IInv, Main
  PROVE  IInv'
<1> USE DEF IInv
<1>1. UNCHANGED <<lcoreVars, buf, stats, forceQuit, due, timerDue, printVars>>
  BY DEF Main, WaitLcores, ClosePort, Exit
<1>2. LoopInv' /\ Conservation' /\ BufferFits'
  BY <1>1, FrameStep
<1>3. TypeOK'
  <2>1. mainPc' \in {"run", "close", "exited"} /\ open' \in [Port -> BOOLEAN]
    BY DEF TypeOK, Main, WaitLcores, ClosePort, Exit
  <2>2. nextClose \in 1 .. NPorts + 1
    BY DEF TypeOK
  <2>3. nextClose' \in 1 .. NPorts + 1
    BY <2>2, Bounds DEF Main, WaitLcores, ClosePort, Exit
  <2>4. QED
    BY <1>1, <2>1, <2>3 DEF TypeOK, lcoreVars, stats, printVars
<1>4. CloseInv'
  <2>1. CASE WaitLcores
    BY <2>1, <1>1 DEF WaitLcores, WaitedForAll, CloseInv, lcoreVars
  <2>2. CASE ClosePort
    BY <2>2, <1>1 DEF ClosePort, CloseInv, lcoreVars
  <2>3. CASE Exit
    BY <2>3, <1>1 DEF Exit, CloseInv, lcoreVars
  <2>4. QED
    BY <2>1, <2>2, <2>3 DEF Main
<1>5. QED
  BY <1>2, <1>3, <1>4

\* The signal and the passing of time keep the invariant.
LEMMA EnvironmentStepInv ==
  ASSUME IInv, Signal \/ TimerPeriodPasses \/ \E l \in Lcore : DrainTscPasses(l)
  PROVE  IInv'
<1> USE DEF IInv
<1>1. UNCHANGED <<lcoreVars, buf, stats, printVars, mainVars>>
  BY DEF Signal, TimerPeriodPasses, DrainTscPasses
<1>2. LoopInv' /\ Conservation' /\ BufferFits'
  BY <1>1, FrameStep
<1>3. TypeOK'
  <2>1. forceQuit' \in BOOLEAN /\ timerDue' \in BOOLEAN /\ due' \in [Lcore -> BOOLEAN]
    BY DEF TypeOK, Signal, TimerPeriodPasses, DrainTscPasses
  <2>2. QED
    BY <1>1, <2>1 DEF TypeOK, lcoreVars, stats, printVars, mainVars
<1>4. CloseInv'
  BY <1>1 DEF CloseInv, lcoreVars, mainVars
<1>5. QED
  BY <1>2, <1>3, <1>4

\* After the set-up nothing is received, buffered or counted, and the invariant holds.
LEMMA InitInv == Init => IInv
<1> SUFFICES ASSUME Init PROVE IInv
  OBVIOUS
<1>1. TypeOK
  <2>1. /\ prt \in [k : 1 .. NPorts + 1, tx : Nat, rx : Nat] /\ last \in [tx : Nat, rx : Nat]
        /\ nextClose \in 1 .. NPorts + 1 /\ 0 \in 0 .. MaxPktBurst
    BY Bounds DEF Init, NoPrint
  <2>2. /\ i \in [Lcore -> Nat \ {0}] /\ pc \in [Lcore -> LoopLabel \cup {"launch", "done"}]
        /\ back \in [Lcore -> {"drain", "fwd"}] /\ due \in [Lcore -> BOOLEAN]
    BY DEF Init
  <2>3. /\ pend \in [Lcore -> 0 .. MaxPktBurst] /\ held \in [Lcore -> 0 .. MaxPktBurst]
        /\ sent \in [Lcore -> 0 .. MaxPktBurst] /\ buf \in [Port -> 0 .. MaxPktBurst]
    BY <2>1 DEF Init
  <2>4. /\ tx \in [Port -> Nat] /\ rx \in [Port -> Nat] /\ dropped \in [Port -> Nat]
        /\ open \in [Port -> BOOLEAN]
    BY DEF Init
  <2>5. QED
    BY <2>1, <2>2, <2>3, <2>4 DEF Init, TypeOK
<1>2. LoopInv
  <2> SUFFICES ASSUME NEW l \in Lcore PROVE LoopOK(l)
    BY DEF LoopInv
  <2>1. i[l] = 1 /\ pc[l] = "launch" /\ pend[l] = 0 /\ NRx(l) \in Nat
    BY ListFacts DEF Init
  <2>2. QED
    BY <2>1 DEF LoopOK
<1>3. Conservation
  BY ListFacts DEF Init, Conservation, InHand
<1>4. BufferFits
  BY ListFacts, Bounds DEF Init, BufferFits
<1>5. CloseInv
  BY DEF Init, CloseInv
<1>6. QED
  BY <1>1, <1>2, <1>3, <1>4, <1>5 DEF IInv

\* The invariant is inductive: every step of l2fwd keeps it.
LEMMA NextInv == IInv /\ [Next]_vars => IInv'
<1> SUFFICES ASSUME IInv, [Next]_vars PROVE IInv'
  OBVIOUS
<1>1. CASE UNCHANGED vars
  <2>1. UNCHANGED <<lcoreVars, buf, stats>>
    BY <1>1 DEF vars
  <2>2. LoopInv' /\ Conservation' /\ BufferFits'
    BY <2>1, FrameStep
  <2>3. TypeOK' /\ CloseInv'
    BY <1>1 DEF IInv, TypeOK, CloseInv, vars, lcoreVars, stats, printVars, mainVars
  <2>4. QED
    BY <2>2, <2>3 DEF IInv
<1>2. CASE Next
  BY <1>1, <1>2, EnvironmentStepInv, LcoreStepInv, MainStepInv DEF Next, Terminated
<1>3. QED
  BY <1>1, <1>2

\* The inductive invariant holds throughout: where each lcore is, what it holds and when
\* the ports are open, which the theorems below are parts of.
THEOREM Invariant == Spec => []IInv
  BY InitInv, NextInv, PTL DEF Spec

\* l2fwd's variables keep their types; in particular no TX buffer and no RX burst
\* exceeds MAX_PKT_BURST packets.
THEOREM TypeCorrect == Spec => []TypeOK
<1>1. IInv => TypeOK
  BY DEF IInv
<1>2. QED
  BY <1>1, Invariant, PTL

\* No packet counted by l2fwd_main_loop is lost or counted twice, for every number of
\* lcores and ports and any interleaving, although nothing is locked.
THEOREM NoPacketLost == Spec => []Conservation
<1>1. IInv => Conservation
  BY DEF IInv
<1>2. QED
  BY <1>1, Invariant, PTL

\* rte_eth_tx_buffer never writes past the end of a buffer.
THEOREM NoBufferOverrun == Spec => []BufferFits
<1>1. IInv => BufferFits
  BY DEF IInv
<1>2. QED
  BY <1>1, Invariant, PTL

\* No lcore polls or sends once main() has begun to close the ports.
THEOREM NoPortUsedClosed == Spec => []NoUseAfterClose
<1>1. IInv => NoUseAfterClose
  BY DEF IInv, CloseInv, NoUseAfterClose
<1>2. QED
  BY <1>1, Invariant, PTL

-----------------------------------------------------------------------------
(* The totals of print_stats.                                              *)

\* s is a list of totals over the first ports that the counters, which only grow, have
\* reached: each port adds at most what its counter shows now.
Adds(s, cnt, n) == s[0] = 0 /\ \A a \in 1 .. n : s[a] <= s[a - 1] + cnt[PortSeq[a]]

\* Last time's total came about so, and this time's is not behind it at the port where
\* print_stats is; this time's total came about so, too.
RateOK(cnt, k, now, before) ==
  /\ \E s \in [0 .. NPorts -> Nat] : Adds(s, cnt, NPorts) /\ s[NPorts] = before /\ s[k - 1] <= now
  /\ \E u \in [0 .. NPorts -> Nat] : Adds(u, cnt, k - 1) /\ u[k - 1] = now

RateInv ==
  /\ RateOK(tx, prt.k, prt.tx, last.tx)
  /\ RateOK(rx, prt.k, prt.rx, last.rx)

\* A total stays one that the counters have reached.
LEMMA AddsGrow ==
  ASSUME NEW c \in [Port -> Nat], NEW d \in [Port -> Nat], \A p \in Port : c[p] <= d[p],
         NEW n \in 0 .. NPorts, NEW s \in [0 .. NPorts -> Nat], Adds(s, c, n)
  PROVE  Adds(s, d, n)
<1>1. ASSUME NEW a \in 1 .. n PROVE s[a] <= s[a - 1] + d[PortSeq[a]]
  <2>1. a \in 1 .. Len(PortSeq) /\ a - 1 \in 0 .. NPorts /\ a \in 0 .. NPorts
    BY Bounds DEF NPorts
  <2>2. PortSeq[a] \in Port
    BY <2>1 DEF Port
  <2>3. s[a] <= s[a - 1] + c[PortSeq[a]]
    BY DEF Adds
  <2>4. s[a] \in Nat /\ s[a - 1] \in Nat /\ c[PortSeq[a]] \in Nat /\ d[PortSeq[a]] \in Nat
        /\ c[PortSeq[a]] <= d[PortSeq[a]]
    BY <2>1, <2>2
  <2>5. QED
    BY <2>3, <2>4
<1>2. QED
  BY <1>1 DEF Adds

LEMMA RateGrow ==
  ASSUME NEW c \in [Port -> Nat], NEW d \in [Port -> Nat], \A p \in Port : c[p] <= d[p],
         NEW k \in 1 .. NPorts + 1, NEW now, NEW before, RateOK(c, k, now, before)
  PROVE  RateOK(d, k, now, before)
<1>1. NPorts \in 0 .. NPorts /\ k - 1 \in 0 .. NPorts
  BY Bounds
<1>2. PICK s \in [0 .. NPorts -> Nat] : Adds(s, c, NPorts) /\ s[NPorts] = before /\ s[k - 1] <= now
  BY DEF RateOK
<1>3. PICK u \in [0 .. NPorts -> Nat] : Adds(u, c, k - 1) /\ u[k - 1] = now
  BY DEF RateOK
<1>4. Adds(s, d, NPorts) /\ Adds(u, d, k - 1)
  BY <1>1, <1>2, <1>3, AddsGrow
<1>5. QED
  BY <1>2, <1>3, <1>4 DEF RateOK

\* The counter of the next port is added.
LEMMA RateNextPort ==
  ASSUME NEW c \in [Port -> Nat], NEW k \in 1 .. NPorts, NEW now \in Nat, NEW before,
         RateOK(c, k, now, before)
  PROVE  RateOK(c, k + 1, now + c[PortSeq[k]], before)
<1> DEFINE x == c[PortSeq[k]]
<1>1. x \in Nat /\ NPorts \in Nat /\ k - 1 \in 0 .. NPorts /\ k \in 0 .. NPorts /\ (k + 1) - 1 = k
  <2>1. k \in 1 .. Len(PortSeq)
    BY DEF NPorts
  <2>2. QED
    BY <2>1, Bounds DEF Port
<1>2. PICK s \in [0 .. NPorts -> Nat] : Adds(s, c, NPorts) /\ s[NPorts] = before /\ s[k - 1] <= now
  BY DEF RateOK
<1>3. PICK u \in [0 .. NPorts -> Nat] : Adds(u, c, k - 1) /\ u[k - 1] = now
  BY DEF RateOK
<1> DEFINE v == [u EXCEPT ![k] = now + x]
<1>4. s[k] <= now + x
  <2>1. s[k] <= s[k - 1] + x
    BY <1>1, <1>2 DEF Adds
  <2>2. s[k] \in Nat /\ s[k - 1] \in Nat
    BY <1>1
  <2>3. QED
    BY <2>1, <2>2, <1>1, <1>2, SMTT(30)
<1>5. v \in [0 .. NPorts -> Nat] /\ v[k] = now + x /\ \A a \in 0 .. NPorts : a # k => v[a] = u[a]
  BY <1>1, SMTT(30)
<1>6. Adds(v, c, k)
  <2>1. v[0] = 0
    BY <1>1, <1>3, <1>5 DEF Adds
  <2>2. ASSUME NEW a \in 1 .. k PROVE v[a] <= v[a - 1] + c[PortSeq[a]]
    <3>1. v[a - 1] = u[a - 1]
      BY <1>1, <1>5
    <3>2. CASE a = k
      BY <3>1, <3>2, <1>1, <1>3, <1>5
    <3>3. CASE a # k
      <4>1. a \in 1 .. k - 1 /\ v[a] = u[a]
        BY <3>3, <1>1, <1>5
      <4>2. QED
        BY <4>1, <3>1, <1>3 DEF Adds
    <3>4. QED
      BY <3>2, <3>3
  <2>3. QED
    BY <2>1, <2>2 DEF Adds
<1> HIDE DEF v, x
<1>7. RateOK(c, k + 1, now + x, before)
  BY <1>1, <1>2, <1>4, <1>5, <1>6 DEF RateOK
<1>8. QED
  BY <1>7 DEF x

\* print_stats starts again, and the total it remembers is before or now.
LEMMA RateRestart ==
  ASSUME NEW c \in [Port -> Nat], NEW k \in 1 .. NPorts + 1, NEW now \in Nat, NEW before \in Nat,
         RateOK(c, k, now, before)
  PROVE  RateOK(c, 1, 0, before) /\ (k = NPorts + 1 => RateOK(c, 1, 0, now))
<1>1. NPorts \in Nat /\ 1 - 1 = 0 /\ (NPorts + 1) - 1 = NPorts
  BY Bounds
<1>2. PICK s \in [0 .. NPorts -> Nat] : Adds(s, c, NPorts) /\ s[NPorts] = before /\ s[k - 1] <= now
  BY DEF RateOK
<1>3. PICK u \in [0 .. NPorts -> Nat] : Adds(u, c, k - 1) /\ u[k - 1] = now
  BY DEF RateOK
<1>4. s[1 - 1] <= 0 /\ s[1 - 1] = 0 /\ u[1 - 1] = 0 /\ u[1 - 1] <= 0
      /\ Adds(s, c, 1 - 1) /\ Adds(u, c, 1 - 1)
  <2>1. s[0] = 0 /\ u[0] = 0 /\ Adds(s, c, 0) /\ Adds(u, c, 0)
    BY <1>2, <1>3 DEF Adds
  <2>2. QED
    BY <2>1, <1>1
<1>5. RateOK(c, 1, 0, before)
  BY <1>2, <1>4 DEF RateOK
<1>6. ASSUME k = NPorts + 1 PROVE RateOK(c, 1, 0, now)
  <2>1. Adds(u, c, NPorts) /\ u[NPorts] = now
    BY <1>1, <1>3, <1>6
  <2>2. QED
    BY <2>1, <1>4 DEF RateOK
<1>7. QED
  BY <1>5, <1>6

\* What the counters and totals are.
LEMMA CounterTypes ==
  ASSUME TypeOK
  PROVE  /\ tx \in [Port -> Nat] /\ rx \in [Port -> Nat]
         /\ prt.k \in 1 .. NPorts + 1 /\ prt.tx \in Nat /\ prt.rx \in Nat
         /\ last.tx \in Nat /\ last.rx \in Nat
BY DEF TypeOK

\* A step that leaves the totals alone and takes nothing from a counter.
LEMMA RateStepGrow ==
  ASSUME TypeOK, TypeOK', RateInv, UNCHANGED printVars,
         \A p \in Port : tx[p] <= tx'[p] /\ rx[p] <= rx'[p]
  PROVE  RateInv'
<1>1. /\ tx \in [Port -> Nat] /\ rx \in [Port -> Nat] /\ tx' \in [Port -> Nat] /\ rx' \in [Port -> Nat]
      /\ prt.k \in 1 .. NPorts + 1 /\ prt' = prt /\ last' = last
  BY CounterTypes DEF TypeOK, printVars
<1>2. RateOK(tx, prt.k, prt.tx, last.tx) /\ RateOK(rx, prt.k, prt.rx, last.rx)
  BY DEF RateInv
<1>3. RateOK(tx', prt.k, prt.tx, last.tx)
  BY <1>1, <1>2, RateGrow
<1>4. RateOK(rx', prt.k, prt.rx, last.rx)
  BY <1>1, <1>2, RateGrow
<1>5. QED
  BY <1>1, <1>3, <1>4 DEF RateInv, RateOK, Adds

\* print_stats adds a port's counters, begins, or ends.
LEMMA RatePrintPort ==
  ASSUME TypeOK, RateInv, NEW l \in Lcore, PrintPort(l)
  PROVE  RateInv'
<1>1. /\ prt.k \in 1 .. NPorts /\ UNCHANGED <<tx, rx, last>>
      /\ prt' = [k |-> prt.k + 1, tx |-> prt.tx + tx[PortSeq[prt.k]], rx |-> prt.rx + rx[PortSeq[prt.k]]]
  BY CounterTypes, Bounds DEF PrintPort, stats
<1>2. RateOK(tx, prt.k + 1, prt.tx + tx[PortSeq[prt.k]], last.tx)
  BY <1>1, CounterTypes, RateNextPort DEF RateInv
<1>3. RateOK(rx, prt.k + 1, prt.rx + rx[PortSeq[prt.k]], last.rx)
  BY <1>1, CounterTypes, RateNextPort DEF RateInv
<1>4. /\ prt'.k = prt.k + 1 /\ prt'.tx = prt.tx + tx[PortSeq[prt.k]]
      /\ prt'.rx = prt.rx + rx[PortSeq[prt.k]]
  BY <1>1
<1>5. QED
  BY <1>1, <1>2, <1>3, <1>4 DEF RateInv, RateOK, Adds

LEMMA RateNoPrint ==
  ASSUME TypeOK, RateInv, prt' = NoPrint, UNCHANGED <<tx, rx>>,
         last' = last \/ (prt.k = NPorts + 1 /\ last' = [tx |-> prt.tx, rx |-> prt.rx])
  PROVE  RateInv'
<1>1. prt'.k = 1 /\ prt'.tx = 0 /\ prt'.rx = 0
  BY DEF NoPrint
<1>2. RateOK(tx, 1, 0, last.tx) /\ (prt.k = NPorts + 1 => RateOK(tx, 1, 0, prt.tx))
  BY CounterTypes, RateRestart DEF RateInv
<1>3. RateOK(rx, 1, 0, last.rx) /\ (prt.k = NPorts + 1 => RateOK(rx, 1, 0, prt.rx))
  BY CounterTypes, RateRestart DEF RateInv
<1>4. RateOK(tx, 1, 0, last'.tx) /\ RateOK(rx, 1, 0, last'.rx)
  <2>1. CASE last' = last
    BY <2>1, <1>2, <1>3
  <2>2. CASE prt.k = NPorts + 1 /\ last' = [tx |-> prt.tx, rx |-> prt.rx]
    <3>1. last'.tx = prt.tx /\ last'.rx = prt.rx
      BY <2>2
    <3>2. QED
      BY <2>2, <3>1, <1>2, <1>3
  <2>3. QED
    BY <2>1, <2>2
<1>5. QED
  BY <1>1, <1>4, ZenonT(30) DEF RateInv, RateOK, Adds

LEMMA RateInitInv == Init => RateInv
<1> SUFFICES ASSUME Init PROVE RateInv
  OBVIOUS
<1> DEFINE z == [a \in 0 .. NPorts |-> 0]
<1>1. /\ tx = [p \in Port |-> 0] /\ rx = [p \in Port |-> 0]
      /\ prt.k = 1 /\ prt.tx = 0 /\ prt.rx = 0 /\ last.tx = 0 /\ last.rx = 0
  BY DEF Init, NoPrint
<1>2. z \in [0 .. NPorts -> Nat] /\ \A a \in 0 .. NPorts : z[a] = 0
  OBVIOUS
<1>3. \A a \in 1 .. NPorts : PortSeq[a] \in Port
  BY DEF Port, NPorts
<1>4. 0 \in 0 .. NPorts /\ NPorts \in 0 .. NPorts /\ 1 - 1 = 0 /\ \A a \in 1 .. NPorts : a - 1 \in 0 .. NPorts
  BY Bounds
<1> HIDE DEF z
<1>5. ASSUME NEW c, c = [p \in Port |-> 0] PROVE RateOK(c, 1, 0, 0)
  <2>1. \A a \in 1 .. NPorts : c[PortSeq[a]] = 0 /\ z[a] = 0 /\ z[a - 1] = 0 /\ a \in 0 .. NPorts
    BY <1>2, <1>3, <1>4, <1>5
  <2>2. Adds(z, c, NPorts)
    BY <1>2, <1>4, <2>1 DEF Adds
  <2>3. z[NPorts] = 0 /\ z[1 - 1] <= 0 /\ z[1 - 1] = 0 /\ Adds(z, c, 1 - 1)
    BY <1>2, <1>4 DEF Adds
  <2>4. QED
    BY <1>2, <2>2, <2>3 DEF RateOK
<1>6. RateOK(tx, 1, 0, 0) /\ RateOK(rx, 1, 0, 0)
  BY <1>1, <1>5
<1>7. QED
  BY <1>1, <1>6 DEF RateInv

\* rte_eth_tx_burst's and rte_eth_rx_burst's results are only ever added.
LEMMA CountersGrow ==
  ASSUME IInv, NEW l \in Lcore, TxCount(l) \/ RxPoll(l)
  PROVE  \A p \in Port : tx[p] <= tx'[p] /\ rx[p] <= rx'[p]
<1>1. tx \in [Port -> Nat] /\ rx \in [Port -> Nat]
  BY CounterTypes DEF IInv
<1>2. CASE TxCount(l)
  <2>1. sent[l] \in Nat
    BY Bounds DEF IInv, TypeOK
  <2>2. tx' = [tx EXCEPT ![CurDst(l)] = @ + sent[l]] /\ rx' = rx
    BY <1>2 DEF TxCount, Counted
  <2>3. QED
    BY <2>1, <2>2, <1>1
<1>3. CASE RxPoll(l)
  <2>1. PICK n \in 0 .. MaxPktBurst : rx' = rx \/ rx' = [rx EXCEPT ![CurPort(l)] = @ + n]
    BY <1>3 DEF RxPoll
  <2>2. n \in Nat /\ tx' = tx
    BY <1>3, Bounds DEF RxPoll
  <2>3. QED
    BY <2>1, <2>2, <1>1
<1>4. QED
  BY <1>2, <1>3

LEMMA RateNextInv ==
  ASSUME IInv, IInv', RateInv, [Next]_vars
  PROVE  RateInv'
<1>1. TypeOK /\ TypeOK' /\ tx \in [Port -> Nat] /\ rx \in [Port -> Nat]
  BY CounterTypes DEF IInv
<1>2. \A p \in Port : tx[p] <= tx[p] /\ rx[p] <= rx[p]
  BY <1>1
<1>3. CASE UNCHANGED <<stats, printVars>>
  BY <1>1, <1>2, <1>3, RateStepGrow DEF stats
<1>4. ASSUME NEW l \in Lcore, LcoreStep(l) PROVE RateInv'
  <2>1. CASE TxCount(l) \/ RxPoll(l)
    <3>1. UNCHANGED printVars
      BY <2>1 DEF TxCount, RxPoll
    <3>2. QED
      BY <2>1, <3>1, <1>1, CountersGrow, RateStepGrow
  <2>2. CASE TxReset(l)
    <3>1. UNCHANGED <<tx, rx, printVars>>
      BY <2>2 DEF TxReset
    <3>2. QED
      BY <3>1, <1>1, <1>2, RateStepGrow
  <2>3. CASE PrintPort(l)
    BY <2>3, <1>1, RatePrintPort
  <2>4. CASE PrintEnd(l)
    <3>1. /\ prt' = NoPrint /\ UNCHANGED <<tx, rx>>
          /\ last' = [tx |-> prt.tx, rx |-> prt.rx] /\ prt.k = NPorts + 1
      BY <2>4, <1>1, CounterTypes, Bounds DEF PrintEnd, stats
    <3>2. QED
      BY <3>1, <1>1, RateNoPrint
  <2>5. CASE DrainEnd(l)
    <3>1. UNCHANGED <<tx, rx, last>> /\ (prt' = NoPrint \/ prt' = prt)
      BY <2>5 DEF DrainEnd, stats
    <3>2. QED
      BY <3>1, <1>1, <1>2, RateNoPrint, RateStepGrow DEF printVars
  <2>6. CASE \/ Launch(l) \/ LoopTop(l) \/ DrainPort(l) \/ RxEnd(l)
             \/ Forward(l) \/ ForwardEnd(l) \/ TxBurst(l)
    BY <2>6, <1>3 DEF Launch, LoopTop, DrainPort, RxEnd, Forward, ForwardEnd, TxBurst
  <2>7. QED
    BY <1>4, <2>1, <2>2, <2>3, <2>4, <2>5, <2>6 DEF LcoreStep
<1>5. CASE Signal \/ TimerPeriodPasses \/ (\E l \in Lcore : DrainTscPasses(l)) \/ Main \/ Terminated
           \/ UNCHANGED vars
  BY <1>5, <1>3 DEF Signal, TimerPeriodPasses, DrainTscPasses, Main, WaitLcores, ClosePort, Exit,
                    Terminated, vars
<1>6. QED
  BY <1>4, <1>5 DEF Next

\* print_stats subtracts last time's totals from this time's as unsigned numbers: whatever
\* the workers add to the counters while it reads them, the differences are never negative.
THEOREM RateIsNotNegative == Spec => []RateNotNegative
<1>1. RateInv /\ IInv => RateNotNegative
  <2> SUFFICES ASSUME RateInv, IInv, prt.k > NPorts PROVE prt.tx >= last.tx /\ prt.rx >= last.rx
    BY DEF RateNotNegative
  <2>1. prt.k - 1 = NPorts /\ NPorts \in 0 .. NPorts
    BY CounterTypes, Bounds DEF IInv
  <2>2. /\ prt.tx \in Nat /\ prt.rx \in Nat /\ last.tx \in Nat /\ last.rx \in Nat
    BY CounterTypes DEF IInv
  <2>3. last.tx <= prt.tx
    BY <2>1, <2>2 DEF RateInv, RateOK
  <2>4. last.rx <= prt.rx
    BY <2>1, <2>2 DEF RateInv, RateOK
  <2>5. QED
    BY <2>2, <2>3, <2>4
<1>2. Init => RateInv
  BY RateInitInv
<1>3. IInv /\ IInv' /\ RateInv /\ [Next]_vars => RateInv'
  BY RateNextInv
<1>4. QED
  BY <1>1, <1>2, <1>3, Invariant, PTL DEF Spec

-----------------------------------------------------------------------------
(* The data path implements the forwarder of module Forwarder.  An         *)
(* observer sees the counters and which ports are open; every step of      *)
(* l2fwd receives on one port, sends or drops on one port, closes one      *)
(* port, or is not seen.                                                   *)

\* While an lcore is in its loop main() waits for it, so every port is open.
LEMMA PortsOpen ==
  ASSUME IInv, NEW l \in Lcore, pc[l] # "done"
  PROVE  \A p \in Port : open[p]
<1>1. mainPc = "run"
  BY DEF IInv, CloseInv
<1>2. \A p \in Port : open[p] \in BOOLEAN
  BY DEF IInv, TypeOK
<1>3. QED
  BY <1>1, <1>2 DEF IInv, CloseInv

\* The forwarder owes what waits in the TX buffer of the destination and what the lcore
\* that polls the port has in hand.
LEMMA OwedByLcore ==
  ASSUME IInv, NEW l \in Lcore, pc[l] \in {"reset", "count"}
  PROVE  /\ Fwd!Owed(CurPort(l)) \in Int
         /\ pc[l] = "reset" => Fwd!Owed(CurPort(l)) >= held[l]
         /\ pc[l] = "count" => Fwd!Owed(CurPort(l)) >= sent[l]
<1> DEFINE p == CurPort(l)
<1> DEFINE d == CurDst(l)
<1>1. /\ i[l] \in 1 .. NRx(l) /\ p \in Port /\ p = RxPortList[l][i[l]]
      /\ d \in Port /\ d = Dst[p]
  BY FlushFacts
<1>2. /\ rx[p] \in Nat /\ tx[d] \in Nat /\ dropped[d] \in Nat /\ buf[d] \in Nat
      /\ pend[l] \in Nat /\ sent[l] \in Nat /\ held[l] \in Nat
  BY <1>1, Bounds DEF IInv, TypeOK
<1>3. rx[p] = tx[d] + dropped[d] + buf[d] + pend[l] + (IF pc[l] = "count" THEN sent[l] ELSE 0)
  <2>1. rx[p] = tx[d] + dropped[d] + buf[d] + InHand(l, i[l])
    BY <1>1 DEF IInv, Conservation
  <2>2. InHand(l, i[l]) = pend[l] + (IF pc[l] = "count" THEN sent[l] ELSE 0)
    BY DEF InHand
  <2>3. QED
    BY <2>1, <2>2, <1>2
<1>4. Fwd!Owed(p) = rx[p] - (tx[d] + dropped[d])
  BY <1>1 DEF Fwd!Owed
<1>5. pc[l] = "reset" => held[l] = buf[d]
  BY DEF IInv, LoopInv, LoopOK
<1>6. QED
  BY <1>2, <1>3, <1>4, <1>5

\* The ports an lcore forwards between are usable for the forwarder.
LEMMA CurUsable ==
  ASSUME IInv, NEW l \in Lcore, pc[l] \in {"rx", "reset", "count"}, i[l] <= NRx(l)
  PROVE  CurPort(l) \in Port /\ CurDst(l) = Dst[CurPort(l)] /\ Fwd!Usable(CurPort(l))
<1>1. CurPort(l) \in Port /\ CurDst(l) \in Port /\ CurDst(l) = Dst[CurPort(l)]
  BY CurFacts DEF IInv
<1>2. QED
  BY <1>1, PortsOpen DEF Fwd!Usable

-----------------------------------------------------------------------------
(* The steps an observer sees.                                             *)

\* rte_eth_rx_burst of at least one packet is a Receive.
LEMMA RxPollMaps ==
  ASSUME IInv, NEW l \in Lcore, RxPoll(l)
  PROVE  Fwd!Next \/ UNCHANGED Fwd!vars
<1>1. pc[l] = "rx" /\ i[l] <= NRx(l) /\ UNCHANGED <<tx, dropped, open>>
  BY DEF RxPoll, mainVars
<1>2. CurPort(l) \in Port /\ Fwd!Usable(CurPort(l))
  BY <1>1, CurUsable
<1>3. PICK n \in 0 .. MaxPktBurst :
        IF n = 0 THEN UNCHANGED rx ELSE rx' = [rx EXCEPT ![CurPort(l)] = @ + n]
  BY DEF RxPoll
<1>4. CASE n = 0
  BY <1>1, <1>3, <1>4 DEF Fwd!vars
<1>5. CASE n # 0
  <2>1. rx \in [Port -> Nat] /\ n \in Nat
    BY Bounds DEF IInv, TypeOK
  <2>2. rx' = [rx EXCEPT ![CurPort(l)] = rx[CurPort(l)] + n]
    BY <1>3, <1>5
  <2>3. rx'[CurPort(l)] = rx[CurPort(l)] + n
    BY <2>1, <2>2, <1>2
  <2>4. rx'[CurPort(l)] \in Nat /\ rx'[CurPort(l)] > rx[CurPort(l)]
    BY <2>1, <2>3, <1>2, <1>5
  <2>5. rx' = [rx EXCEPT ![CurPort(l)] = rx'[CurPort(l)]]
    BY <2>2, <2>3
  <2>6. Fwd!Receive(CurPort(l))
    BY <1>1, <1>2, <2>4, <2>5 DEF Fwd!Receive
  <2>7. QED
    BY <1>2, <2>6 DEF Fwd!Next
<1>6. QED
  BY <1>4, <1>5

\* The error callback counting refused packets is a Drop.
LEMMA TxResetMaps ==
  ASSUME IInv, NEW l \in Lcore, TxReset(l)
  PROVE  Fwd!Next \/ UNCHANGED Fwd!vars
<1>1. /\ pc[l] = "reset" /\ UNCHANGED <<rx, tx, open>>
      /\ dropped' = [dropped EXCEPT ![CurDst(l)] = @ + (held[l] - sent[l])]
  BY DEF TxReset, Unsent, mainVars
<1>2. i[l] <= NRx(l) /\ sent[l] <= held[l]
  BY <1>1 DEF IInv, LoopInv, LoopOK
<1>3. /\ CurPort(l) \in Port /\ CurDst(l) = Dst[CurPort(l)] /\ Fwd!Usable(CurPort(l))
      /\ CurDst(l) \in Port
  BY <1>1, <1>2, CurUsable, CurFacts DEF IInv
<1>4. held[l] \in Nat /\ sent[l] \in Nat /\ dropped \in [Port -> Nat]
  BY Bounds DEF IInv, TypeOK
<1>5. CASE held[l] = sent[l]
  <2>1. dropped' = dropped
    BY <1>1, <1>3, <1>4, <1>5
  <2>2. QED
    BY <1>1, <2>1 DEF Fwd!vars
<1>6. CASE held[l] # sent[l]
  <2>1. held[l] - sent[l] \in 1 .. Fwd!Owed(CurPort(l))
    BY <1>1, <1>2, <1>4, <1>6, OwedByLcore
  <2>2. dropped' = [dropped EXCEPT ![Dst[CurPort(l)]] = @ + (held[l] - sent[l])]
    BY <1>1, <1>3
  <2>3. Fwd!Drop(CurPort(l))
    BY <1>1, <1>3, <2>1, <2>2 DEF Fwd!Drop
  <2>4. QED
    BY <1>3, <2>3 DEF Fwd!Next
<1>7. QED
  BY <1>5, <1>6

\* Adding to port_statistics[].tx is a Transmit.
LEMMA TxCountMaps ==
  ASSUME IInv, NEW l \in Lcore, TxCount(l)
  PROVE  Fwd!Next \/ UNCHANGED Fwd!vars
<1>1. /\ pc[l] = "count" /\ UNCHANGED <<rx, dropped, open>>
      /\ tx' = [tx EXCEPT ![CurDst(l)] = @ + sent[l]]
  BY DEF TxCount, Counted, mainVars
<1>2. i[l] <= NRx(l)
  BY <1>1 DEF IInv, LoopInv, LoopOK
<1>3. /\ CurPort(l) \in Port /\ CurDst(l) = Dst[CurPort(l)] /\ Fwd!Usable(CurPort(l))
      /\ CurDst(l) \in Port
  BY <1>1, <1>2, CurUsable, CurFacts DEF IInv
<1>4. sent[l] \in Nat /\ tx \in [Port -> Nat]
  BY Bounds DEF IInv, TypeOK
<1>5. CASE sent[l] = 0
  <2>1. tx' = tx
    BY <1>1, <1>3, <1>4, <1>5
  <2>2. QED
    BY <1>1, <2>1 DEF Fwd!vars
<1>6. CASE sent[l] # 0
  <2>1. sent[l] \in 1 .. Fwd!Owed(CurPort(l))
    BY <1>1, <1>4, <1>6, OwedByLcore
  <2>2. tx' = [tx EXCEPT ![Dst[CurPort(l)]] = @ + sent[l]]
    BY <1>1, <1>3
  <2>3. Fwd!Transmit(CurPort(l))
    BY <1>1, <1>3, <2>1, <2>2 DEF Fwd!Transmit
  <2>4. QED
    BY <1>3, <2>3 DEF Fwd!Next
<1>7. QED
  BY <1>5, <1>6

\* rte_eth_dev_stop and rte_eth_dev_close of one port is a Close.
LEMMA ClosePortMaps ==
  ASSUME IInv, ClosePort
  PROVE  Fwd!Next \/ UNCHANGED Fwd!vars
<1>1. /\ nextClose <= NPorts /\ open' = [open EXCEPT ![PortSeq[nextClose]] = FALSE]
      /\ UNCHANGED <<rx, tx, dropped>>
  BY DEF ClosePort, stats
<1>2. PortSeq[nextClose] \in Port
  BY <1>1, L2fwdAssumption DEF IInv, TypeOK, NPorts
<1>3. QED
  BY <1>1, <1>2 DEF Fwd!Next, Fwd!Close

-----------------------------------------------------------------------------
\* All other steps of an lcore are not seen.
LEMMA LcoreStepMaps ==
  ASSUME IInv, NEW l \in Lcore, LcoreStep(l)
  PROVE  Fwd!Next \/ UNCHANGED Fwd!vars
<1>1. CASE RxPoll(l)
  BY <1>1, RxPollMaps
<1>2. CASE TxReset(l)
  BY <1>2, TxResetMaps
<1>3. CASE TxCount(l)
  BY <1>3, TxCountMaps
<1>4. CASE Launch(l) \/ LoopTop(l) \/ DrainPort(l) \/ DrainEnd(l)
  BY <1>4 DEF Launch, LoopTop, DrainPort, DrainEnd, stats, mainVars, Fwd!vars
<1>5. CASE PrintPort(l) \/ PrintEnd(l) \/ RxEnd(l)
  BY <1>5 DEF PrintPort, PrintEnd, RxEnd, stats, mainVars, Fwd!vars
<1>6. CASE Forward(l) \/ ForwardEnd(l) \/ TxBurst(l)
  BY <1>6 DEF Forward, ForwardEnd, TxBurst, stats, mainVars, Fwd!vars
<1>7. QED
  BY <1>1, <1>2, <1>3, <1>4, <1>5, <1>6 DEF LcoreStep

\* Every step of l2fwd is a step of the forwarder or is not seen.
LEMMA StepMaps == IInv /\ [Next]_vars => [Fwd!Next]_Fwd!vars
<1> SUFFICES ASSUME IInv, [Next]_vars PROVE Fwd!Next \/ UNCHANGED Fwd!vars
  OBVIOUS
<1>1. CASE UNCHANGED vars
  BY <1>1 DEF vars, stats, mainVars, Fwd!vars
<1>2. CASE Signal \/ TimerPeriodPasses
  BY <1>2 DEF Signal, TimerPeriodPasses, stats, mainVars, Fwd!vars
<1>3. CASE \E l \in Lcore : DrainTscPasses(l)
  BY <1>3 DEF DrainTscPasses, stats, mainVars, Fwd!vars
<1>4. CASE \E l \in Lcore : LcoreStep(l)
  BY <1>4, LcoreStepMaps
<1>5. CASE WaitLcores \/ Exit
  BY <1>5 DEF WaitLcores, Exit, stats, Fwd!vars
<1>6. CASE ClosePort
  BY <1>6, ClosePortMaps
<1>7. QED
  BY <1>1, <1>2, <1>3, <1>4, <1>5, <1>6 DEF Next, Main, Terminated

\* The counters and ports start as the forwarder's.
LEMMA InitMaps == Init => Fwd!Init
  BY DEF Init, Fwd!Init

\* l2fwd implements the forwarder: whatever its lcores' interleaving, l2fwd_main_loop,
\* the drain and the shutdown show an observer nothing but packets received once, sent or
\* counted as dropped once by the destination, and no traffic on a closed port.
THEOREM ImplementsForwarder == Spec => FwdSpec
<1>1. Spec => Fwd!Init
  BY InitMaps DEF Spec
<1>2. QED
  BY <1>1, StepMaps, Invariant, PTL DEF Spec, FwdSpec, Fwd!Spec

=============================================================================
