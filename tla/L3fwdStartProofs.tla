-------------------------- MODULE L3fwdStartProofs --------------------------
(***************************************************************************)
(* Proofs about L3fwdStart, the set-ups of poll and of event mode up to    *)
(* the launch, for every number of ports, lcores, queues and service       *)
(* lcores, every --config and every capability of the event device.        *)
(***************************************************************************)
EXTENDS L3fwdStart, FiniteSetTheorems, SequenceTheorems, TLAPS

-----------------------------------------------------------------------------
(* Ranks in a finite set of numbers: TX queues, RX queues and event queues *)
(* are all given out by them.                                              *)

Rank(S, x) == Cardinality({y \in S : y < x})

LEMMA RankNat ==
  ASSUME NEW S, IsFiniteSet(S), NEW x
  PROVE  Rank(S, x) \in Nat
<1>1. IsFiniteSet({y \in S : y < x})
  BY FS_Subset
<1>2. QED
  BY <1>1, FS_CardinalityType DEF Rank

LEMMA RankBelow ==
  ASSUME NEW S \in SUBSET Int, IsFiniteSet(S), NEW x \in S, NEW z \in Int, x < z
  PROVE  Rank(S, x) < Rank(S, z)
<1> DEFINE A == {y \in S : y < x}
           B == {y \in S : y < z}
<1>1. A \subseteq B /\ x \in B /\ x \notin A
  <2>1. \A y \in S : y < x => y < z
    OBVIOUS
  <2>2. A \subseteq B
    BY <2>1
  <2>3. x \in B /\ ~(x < x)
    OBVIOUS
  <2>4. QED
    BY <2>2, <2>3
<1>2. IsFiniteSet(B) /\ IsFiniteSet(A)
  BY FS_Subset
<1>3. Cardinality(A) <= Cardinality(B) /\ Cardinality(A) # Cardinality(B)
  BY <1>1, <1>2, FS_Subset
<1>4. Cardinality(A) \in Nat /\ Cardinality(B) \in Nat
  BY <1>2, FS_CardinalityType
<1>5. QED
  BY <1>3, <1>4 DEF Rank

LEMMA RankApart ==
  ASSUME NEW S \in SUBSET Int, IsFiniteSet(S), NEW x \in S, NEW z \in S, Rank(S, x) = Rank(S, z)
  PROVE  x = z
<1>1. Rank(S, x) \in Nat
  BY RankNat
<1>2. ~(x < z) /\ ~(z < x)
  BY <1>1, RankBelow
<1>3. QED
  BY <1>2

LEMMA RankLess ==
  ASSUME NEW S \in SUBSET Int, IsFiniteSet(S), NEW x \in S
  PROVE  Rank(S, x) \in 0 .. Cardinality(S) - 1
<1> DEFINE A == {y \in S : y < x}
<1>1. A \subseteq S /\ x \notin A
  OBVIOUS
<1>2. IsFiniteSet(A) /\ Cardinality(A) <= Cardinality(S) /\ Cardinality(A) # Cardinality(S)
  BY <1>1, FS_Subset
<1>3. Cardinality(A) \in Nat /\ Cardinality(S) \in Nat
  BY <1>2, FS_CardinalityType
<1>4. QED
  BY <1>2, <1>3 DEF Rank

\* The ranks leave no number out.
LEMMA RanksAll ==
  ASSUME NEW S \in SUBSET Int, IsFiniteSet(S), NEW q \in 0 .. Cardinality(S) - 1
  PROVE  \E x \in S : Rank(S, x) = q
<1> DEFINE T == 0 .. Cardinality(S) - 1
           f == [x \in S |-> Rank(S, x)]
<1>1. Cardinality(S) \in Nat
  BY FS_CardinalityType
<1>2. IsFiniteSet(T) /\ Cardinality(T) = Cardinality(S)
  BY <1>1, FS_Interval
<1>3. f \in Injection(S, T)
  <2>1. \A x \in S : f[x] \in T
    BY RankLess
  <2>2. \A x, z \in S : f[x] = f[z] => x = z
    BY RankApart
  <2>3. f \in [S -> T]
    BY <2>1
  <2>4. QED
    BY <2>2, <2>3 DEF Injection, IsInjective
<1>4. f \in Surjection(S, T)
  BY <1>2, <1>3, FS_Injection
<1>5. \E x \in S : f[x] = q
  BY <1>4 DEF Surjection
<1>6. QED
  BY <1>5

\* Counting up to x, element by element.
LEMMA RankStep ==
  ASSUME NEW S \in SUBSET Int, IsFiniteSet(S), NEW x \in Int
  PROVE  Rank(S, x + 1) = IF x \in S THEN Rank(S, x) + 1 ELSE Rank(S, x)
<1> DEFINE A == {y \in S : y < x}
           B == {y \in S : y < x + 1}
<1>1. B = IF x \in S THEN A \cup {x} ELSE A
  <2>1. \A y \in S : y < x + 1 <=> y < x \/ y = x
    OBVIOUS
  <2>2. QED
    BY <2>1
<1>2. IsFiniteSet(A) /\ x \notin A
  BY FS_Subset
<1>3. Cardinality(A \cup {x}) = Cardinality(A) + 1
  BY <1>2, FS_AddElement
<1>4. QED
  BY <1>1, <1>3 DEF Rank

-----------------------------------------------------------------------------
(* The inductive invariant, part by part.                                  *)

PollPc  == {"checkLcores", "rxQueues", "initPorts", "initRx", "started", "exitLcores",
            "exitFull", "exitPorts", "exitSequence", "exitPtype"}
EventPc == {"capability", "ethPorts", "eventQueues", "eventPorts", "rxAdapters",
            "eventStarted", "services", "exitRxPool", "exitDevice", "exitRxAdapter", "exitCaps"}
LinkPc  == {"links", "linkPort", "linkRoundEnd", "launched"}

\* What is given.
GivenOK ==
  /\ valid \subseteq PortId /\ mask \subseteq PortId /\ enLcores \subseteq LcoreId
  /\ params \in Seq(ParsedParam)
  /\ eventMode \in BOOLEAN
  /\ maxEventQueues \in Nat /\ maxEventPorts \in Nat /\ nbService \in Nat

\* Each mode runs its own part of main(), and a loop stays within its bounds.
ControlOK ==
  /\ idx \in Nat
  /\ pc \in IF eventMode THEN EventPc \cup LinkPc ELSE PollPc \cup LinkPc
  /\ pc \in {"checkLcores", "capability"} => idx = 0
  /\ pc = "rxQueues" => idx <= Len(params)
  /\ pc \in {"initPorts", "ethPorts", "rxAdapters"} => idx <= MaxPorts
  /\ pc = "initRx" => idx <= MaxLcores

ModeInv == GivenOK /\ ControlOK

LEMMA Bounds ==
  /\ MaxPorts \in Nat \ {0} /\ MaxLcores \in Nat \ {0} /\ MaxQueues \in Nat \ {0}
  /\ MaxRxPerLcore \in Nat \ {0} /\ MinMbufs \in Nat \ {0} /\ MaxParams \in Nat
  /\ RxDesc \in Nat /\ TxDesc \in Nat /\ MaxPktBurst \in Nat /\ CacheSize \in Nat
  /\ MaxCheckTime \in Nat \ {0} /\ PerPortPool \in BOOLEAN
  /\ SocketOf \in [LcoreId -> Sockets]
  /\ 0 \in PortId /\ PortId \subseteq Nat /\ LcoreId \subseteq Nat
  BY L3fwdSetupAssumption, L3fwdStartAssumption DEF PortId, LcoreId

LEMMA FiniteInputs ==
  ASSUME ModeInv
  PROVE  /\ IsFiniteSet(PortId) /\ IsFiniteSet(LcoreId)
         /\ IsFiniteSet(Active) /\ Active \subseteq PortId /\ Active \in SUBSET Int
         /\ IsFiniteSet(enLcores) /\ enLcores \in SUBSET Int
         /\ IsFiniteSet(valid)
         /\ NActive \in Nat /\ NLcores \in Nat /\ Cardinality(valid) \in Nat
<1>1. IsFiniteSet(PortId) /\ IsFiniteSet(LcoreId)
  BY Bounds, FS_Interval DEF PortId, LcoreId
<1>2. Active \subseteq PortId /\ enLcores \subseteq LcoreId /\ valid \subseteq PortId
  BY DEF ModeInv, GivenOK, Active
<1>3. IsFiniteSet(Active) /\ IsFiniteSet(enLcores) /\ IsFiniteSet(valid)
  BY <1>1, <1>2, FS_Subset
<1>4. NActive \in Nat /\ NLcores \in Nat /\ Cardinality(valid) \in Nat
  BY <1>3, FS_CardinalityType DEF NActive, NLcores
<1>5. QED
  BY <1>1, <1>2, <1>3, <1>4, Bounds

\* Cases of a step: which part of the state it can change.
PollStep  == PollSetup /\ UNCHANGED <<eventVars, services, forceQuit, links_>>
EventStep == EventSetup /\ UNCHANGED <<services, forceQuit, links_>>
ServStep  == ServicesBegin \/ ServiceRequest \/ ServicesEnd
LinkStep  == PtypeCheck \/ Signal \/ LinkRound \/ LinkPort \/ LinkRoundEnd

LEMMA Steps ==
  ASSUME StartNext
  PROVE  /\ UNCHANGED given
         /\ \/ PollStep \/ EventStep \/ ServStep \/ LinkStep
            \/ UNCHANGED start
  BY DEF StartNext, StartTerminated, PollStep, EventStep, ServStep, LinkStep, start

LEMMA SameInputs ==
  ASSUME UNCHANGED given
  PROVE  /\ UNCHANGED <<valid, mask, enLcores, params>>
         /\ UNCHANGED <<maxEventQueues, maxEventPorts, rxInternal, txInternal, nbService>>
         /\ UNCHANGED <<eventMode, scheduler>>
         /\ Active' = Active /\ NActive' = NActive /\ NLcores' = NLcores
         /\ UsedSockets' = UsedSockets /\ ServiceLcore' = ServiceLcore
  BY DEF given, inputs, eventInputs, Active, NActive, NLcores, UsedSockets, ServiceLcore

LEMMA ModeStep ==
  ASSUME ModeInv, UNCHANGED given, PollStep \/ EventStep \/ ServStep \/ LinkStep
  PROVE  ModeInv'
<1>1. GivenOK'
  BY SameInputs DEF ModeInv, GivenOK
<1>2. /\ ControlOK /\ Len(params) \in Nat /\ eventMode' = eventMode /\ params' = params
      /\ MaxPorts \in Nat /\ MaxLcores \in Nat
  BY SameInputs, Bounds DEF ModeInv, GivenOK
<1> DEFINE Goes(from, to) == pc = from /\ pc' \in to
<1>3. CASE PollStep
  <2>1. CASE CheckLcoreParams
    <3>1. Goes("checkLcores", {"rxQueues", "exitLcores"}) /\ idx' = idx
      BY <2>1 DEF CheckLcoreParams
    <3>2. QED
      BY <3>1, <1>1, <1>2 DEF ModeInv, ControlOK, PollPc, EventPc, LinkPc
  <2>2. CASE InitLcoreRxQueue
    <3>1. Goes("rxQueues", {"rxQueues", "exitFull"}) /\ idx < Len(params) /\ idx' \in {idx, idx + 1}
      BY <2>2 DEF InitLcoreRxQueue
    <3>2. QED
      BY <3>1, <1>1, <1>2 DEF ModeInv, ControlOK, PollPc, EventPc, LinkPc
  <2>3. CASE CheckPortConfig
    <3>1. Goes("rxQueues", {"initPorts", "exitPorts"}) /\ idx' = 0
      BY <2>3 DEF CheckPortConfig
    <3>2. QED
      BY <3>1, <1>1, <1>2 DEF ModeInv, ControlOK, PollPc, EventPc, LinkPc
  <2>4. CASE InitPort
    <3>1. Goes("initPorts", {"initPorts", "exitSequence"}) /\ idx < MaxPorts /\ idx' \in {idx, idx + 1}
      BY <2>4 DEF InitPort
    <3>2. QED
      BY <3>1, <1>1, <1>2 DEF ModeInv, ControlOK, PollPc, EventPc, LinkPc
  <2>5. CASE InitPortsEnd
    <3>1. Goes("initPorts", {"initRx"}) /\ idx' = 0
      BY <2>5 DEF InitPortsEnd
    <3>2. QED
      BY <3>1, <1>1, <1>2 DEF ModeInv, ControlOK, PollPc, EventPc, LinkPc
  <2>6. CASE InitRxQueues
    <3>1. Goes("initRx", {"initRx"}) /\ idx < MaxLcores /\ idx' = idx + 1
      BY <2>6 DEF InitRxQueues
    <3>2. QED
      BY <3>1, <1>1, <1>2 DEF ModeInv, ControlOK, PollPc, EventPc, LinkPc
  <2>7. CASE Start
    <3>1. Goes("initRx", {"started"}) /\ idx' = idx
      BY <2>7 DEF Start
    <3>2. QED
      BY <3>1, <1>1, <1>2 DEF ModeInv, ControlOK, PollPc, EventPc, LinkPc
  <2>8. QED
    BY <1>3, <2>1, <2>2, <2>3, <2>4, <2>5, <2>6, <2>7 DEF PollStep, PollSetup
<1>4. CASE EventStep
  <2>1. CASE CapabilitySetup
    <3>1. Goes("capability", {"ethPorts"}) /\ idx' = idx
      BY <2>1 DEF CapabilitySetup
    <3>2. QED
      BY <3>1, <1>1, <1>2 DEF ModeInv, ControlOK, PollPc, EventPc, LinkPc
  <2>2. CASE EthPortSetup
    <3>1. Goes("ethPorts", {"ethPorts", "exitRxPool"}) /\ idx < MaxPorts /\ idx' = idx + 1
      BY <2>2 DEF EthPortSetup
    <3>2. QED
      BY <3>1, <1>1, <1>2 DEF ModeInv, ControlOK, PollPc, EventPc, LinkPc
  <2>3. CASE EventDeviceSetup
    <3>1. Goes("ethPorts", {"eventQueues", "exitDevice"}) /\ idx' = idx
      BY <2>3 DEF EventDeviceSetup
    <3>2. QED
      BY <3>1, <1>1, <1>2 DEF ModeInv, ControlOK, PollPc, EventPc, LinkPc
  <2>4. CASE EventQueueSetup
    <3>1. Goes("eventQueues", {"eventPorts"}) /\ idx' = idx
      BY <2>4 DEF EventQueueSetup
    <3>2. QED
      BY <3>1, <1>1, <1>2 DEF ModeInv, ControlOK, PollPc, EventPc, LinkPc
  <2>5. CASE EventPortSetup
    <3>1. Goes("eventPorts", {"rxAdapters"}) /\ idx' = 0
      BY <2>5 DEF EventPortSetup
    <3>2. QED
      BY <3>1, <1>1, <1>2 DEF ModeInv, ControlOK, PollPc, EventPc, LinkPc
  <2>6. CASE RxAdapterSetup
    <3>1. Goes("rxAdapters", {"rxAdapters", "exitRxAdapter"}) /\ idx < MaxPorts /\ idx' = idx + 1
      <4>1. pc' \in {pc, "exitRxAdapter"}
        BY <2>6 DEF RxAdapterSetup
      <4>2. QED
        BY <4>1, <2>6 DEF RxAdapterSetup
    <3>2. QED
      BY <3>1, <1>1, <1>2 DEF ModeInv, ControlOK, PollPc, EventPc, LinkPc
  <2>7. CASE TxAdapterSetup
    <3>1. Goes("rxAdapters", {"eventStarted"}) /\ idx' = idx
      BY <2>7 DEF TxAdapterSetup
    <3>2. QED
      BY <3>1, <1>1, <1>2 DEF ModeInv, ControlOK, PollPc, EventPc, LinkPc
  <2>8. QED
    BY <1>4, <2>1, <2>2, <2>3, <2>4, <2>5, <2>6, <2>7 DEF EventStep, EventSetup
<1>5. CASE ServStep
  <2>1. CASE ServicesBegin
    <3>1. Goes("eventStarted", {"services"}) /\ idx' = 0
      BY <2>1 DEF ServicesBegin
    <3>2. QED
      BY <3>1, <1>1, <1>2 DEF ModeInv, ControlOK, PollPc, EventPc, LinkPc
  <2>2. CASE ServiceRequest
    <3>1. Goes("services", {"services", "exitCaps"}) /\ idx' \in {idx, idx + 1}
      BY <2>2 DEF ServiceRequest
    <3>2. QED
      BY <3>1, <1>1, <1>2 DEF ModeInv, ControlOK, PollPc, EventPc, LinkPc
  <2>3. CASE ServicesEnd
    <3>1. Goes("services", {"links"}) /\ idx' = idx
      BY <2>3 DEF ServicesEnd, setup
    <3>2. QED
      BY <3>1, <1>1, <1>2 DEF ModeInv, ControlOK, PollPc, EventPc, LinkPc
  <2>4. QED
    BY <1>5, <2>1, <2>2, <2>3 DEF ServStep
<1>6. CASE LinkStep
  <2>1. /\ idx' = idx /\ pc' \in LinkPc \cup {"exitPtype"}
        /\ pc \in LinkPc \cup {"started"} /\ (pc' = "exitPtype" => pc = "started")
    BY <1>6 DEF LinkStep, PtypeCheck, Signal, LinkRound, LinkPort, LinkRoundEnd, setup, LinkPc
  <2>2. QED
    BY <2>1, <1>1, <1>2 DEF ModeInv, ControlOK, PollPc, EventPc, LinkPc
<1>7. QED
  BY <1>3, <1>4, <1>5, <1>6

-----------------------------------------------------------------------------
(* Memory.                                                                 *)

\* Port p has its pools, and the lcores their tables.
MemoryOf(p) == (\A s \in UsedSockets : pool[PoolIndex(p)][s] > 0) /\ TablesReady

MemInv ==
  /\ pool \in [PortId -> [Sockets -> Nat]]
  /\ lkpSetups \in [Sockets -> {0, 1}]
  /\ lkpOf \in [LcoreId -> SUBSET Sockets]
  /\ \A k \in PortId, s \in Sockets : pool[k][s] > 0 => lkpSetups[s] = 1
  /\ pc \in {"initPorts", "ethPorts"} => \A p \in Active : p < idx => MemoryOf(p)
  /\ pc \in {"initRx", "started", "eventQueues", "eventPorts", "rxAdapters", "eventStarted"} =>
       \A p \in Active : MemoryOf(p)

LEMMA NatProduct ==
  ASSUME NEW a \in Nat, NEW b \in Nat
  PROVE  a * b \in Nat
  OBVIOUS

\* NB_MBUF is never 0.
LEMMA NbMbufPositive ==
  ASSUME ModeInv, NEW n \in Nat, NEW q \in Nat
  PROVE  NbMbuf(n, q) \in Nat \ {0}
<1> DEFINE a == n * q * RxDesc
           b == n * NLcores * MaxPktBurst
           c == n * NLcores * TxDesc
           d == NLcores * CacheSize
<1>1. NLcores \in Nat
  BY FiniteInputs
<1>2. n * q \in Nat /\ n * NLcores \in Nat
  BY <1>1, NatProduct
<1>3. a \in Nat /\ b \in Nat /\ c \in Nat /\ d \in Nat
  BY <1>1, <1>2, NatProduct, Bounds
<1>4. NbMbuf(n, q) = IF a + b + c + d > MinMbufs THEN a + b + c + d ELSE MinMbufs
  BY DEF NbMbuf
<1> HIDE DEF a, b, c, d
<1>5. QED
  BY <1>3, <1>4, Bounds

LEMMA EventMbufsPositive ==
  ASSUME ModeInv
  PROVE  EventMbufs \in Nat \ {0}
<1> DEFINE v == Cardinality(valid)
           x == LcoreCount * (MaxPktBurst + CacheSize)
           y == v * (RxDesc + TxDesc + LcoreCount * MaxPktBurst)
           z == LcoreCount * CacheSize
           n == IF PerPortPool THEN RxDesc + RxDesc + x ELSE y + z
<1>1. LcoreCount \in Nat /\ v \in Nat
  BY FiniteInputs DEF LcoreCount, ModeInv, GivenOK
<1>2. LcoreCount * MaxPktBurst \in Nat /\ MaxPktBurst + CacheSize \in Nat
  BY <1>1, NatProduct, Bounds
<1>3. RxDesc + TxDesc + LcoreCount * MaxPktBurst \in Nat
  BY <1>2, Bounds
<1>4. x \in Nat /\ y \in Nat /\ z \in Nat
  BY <1>1, <1>2, <1>3, NatProduct, Bounds
<1>5. EventMbufs = IF n > MinMbufs THEN n ELSE MinMbufs
  BY DEF EventMbufs
<1> HIDE DEF x, y, z
<1>6. n \in Nat
  BY <1>4, Bounds
<1> HIDE DEF n
<1>7. QED
  BY <1>5, <1>6, Bounds

LEMMA UsedSocketsOK ==
  ASSUME ModeInv
  PROVE  UsedSockets \subseteq Sockets /\ \A l \in enLcores : l \in LcoreId /\ SocketOf[l] \in UsedSockets
  BY Bounds DEF UsedSockets, ModeInv, GivenOK

LEMMA PoolIndexOK ==
  ASSUME NEW p \in PortId
  PROVE  PoolIndex(p) \in PortId
  BY Bounds DEF PoolIndex

\* init_mem: all sockets in use have a pool and tables, and nothing is taken away.
LEMMA InitMemOK ==
  ASSUME ModeInv, MemInv, UNCHANGED given, NEW k \in PortId, NEW size \in Nat \ {0}, InitMem(k, size)
  PROVE  /\ pool' \in [PortId -> [Sockets -> Nat]]
         /\ lkpSetups' \in [Sockets -> {0, 1}]
         /\ lkpOf' \in [LcoreId -> SUBSET Sockets]
         /\ \A j \in PortId, s \in Sockets : pool'[j][s] > 0 => lkpSetups'[s] = 1
         /\ \A j \in PortId, s \in Sockets : pool[j][s] > 0 => pool'[j][s] > 0
         /\ \A s \in UsedSockets : pool'[k][s] > 0
         /\ TablesReady'
<1> DEFINE new == {s \in UsedSockets : pool[k][s] = 0}
<1>0. /\ pool \in [PortId -> [Sockets -> Nat]] /\ lkpSetups \in [Sockets -> {0, 1}]
      /\ lkpOf \in [LcoreId -> SUBSET Sockets]
      /\ \A j \in PortId, s \in Sockets : pool[j][s] > 0 => lkpSetups[s] = 1
  BY DEF MemInv
<1>1. pool' = [pool EXCEPT ![k] = [s \in Sockets |-> IF s \in new THEN size ELSE pool[k][s]]]
  BY <1>0 DEF InitMem
<1>2. lkpSetups' = [s \in Sockets |->
                      IF s \in new /\ NeedsLookup(s) THEN lkpSetups[s] + 1 ELSE lkpSetups[s]]
  BY DEF InitMem
<1>3. lkpOf' = [l \in LcoreId |->
                  IF l \in enLcores THEN {s \in {SocketOf[l]} : lkpSetups'[s] > 0} ELSE lkpOf[l]]
  BY DEF InitMem
<1>4. UsedSockets \subseteq Sockets /\ \A l \in enLcores : l \in LcoreId /\ SocketOf[l] \in UsedSockets
  BY UsedSocketsOK
<1>5. \A s \in Sockets : lkpSetups[s] \in {0, 1} /\ pool[k][s] \in Nat
  BY <1>0
<1>6. \A s \in Sockets : lkpSetups'[s] = IF s \in new THEN 1 ELSE lkpSetups[s]
  BY <1>2, <1>5 DEF NeedsLookup
<1>7. \A s \in Sockets : pool'[k][s] = IF s \in new THEN size ELSE pool[k][s]
  BY <1>0, <1>1
<1>8. \A j \in PortId \ {k} : pool'[j] = pool[j]
  BY <1>0, <1>1
<1>9. pool' \in [PortId -> [Sockets -> Nat]]
  <2>1. [s \in Sockets |-> IF s \in new THEN size ELSE pool[k][s]] \in [Sockets -> Nat]
    BY <1>5
  <2>2. QED
    BY <2>1, <1>0, <1>1
<1>10. lkpSetups' \in [Sockets -> {0, 1}]
  <2>1. \A s \in Sockets : lkpSetups'[s] \in {0, 1}
    BY <1>5, <1>6
  <2>2. QED
    BY <2>1, <1>2
<1>11. lkpOf' \in [LcoreId -> SUBSET Sockets]
  <2>1. \A l \in LcoreId : lkpOf'[l] \subseteq Sockets
    BY <1>0, <1>3, <1>4
  <2>2. QED
    BY <2>1, <1>3
<1>12. \A j \in PortId, s \in Sockets : pool[j][s] > 0 => pool'[j][s] > 0
  <2>1. ASSUME NEW s \in Sockets, pool[k][s] > 0 PROVE pool'[k][s] > 0
    BY <2>1, <1>7
  <2>2. QED
    BY <2>1, <1>8
<1>13. \A s \in UsedSockets : pool'[k][s] > 0
  BY <1>4, <1>5, <1>7
<1>14. ASSUME NEW j \in PortId, NEW s \in Sockets, pool'[j][s] > 0 PROVE lkpSetups'[s] = 1
  <2>1. CASE s \in new
    BY <2>1, <1>6
  <2>2. CASE s \notin new
    <3>1. pool'[j][s] = pool[j][s]
      BY <2>2, <1>7, <1>8
    <3>2. QED
      BY <3>1, <1>14, <2>2, <1>0, <1>6
  <2>3. QED
    BY <2>1, <2>2
<1>15. \A s \in UsedSockets : lkpSetups'[s] = 1
  BY <1>4, <1>13, <1>14
<1>16. TablesReady'
  <2>1. \A l \in enLcores : lkpOf'[l] = {SocketOf[l]}
    BY <1>3, <1>4, <1>15
  <2>2. QED
    BY <2>1, <1>15, SameInputs DEF TablesReady
<1>17. QED
  BY <1>9, <1>10, <1>11, <1>12, <1>13, <1>14, <1>16

\* The pools of the ports before do not go away.
LEMMA MemoryKept ==
  ASSUME ModeInv, MemInv, UNCHANGED given, NEW k \in PortId, NEW size \in Nat \ {0}, InitMem(k, size),
         NEW p \in Active, MemoryOf(p) \/ PoolIndex(p) = k
  PROVE  MemoryOf(p)'
<1>1. p \in PortId /\ PoolIndex(p) \in PortId /\ UsedSockets \subseteq Sockets
  BY FiniteInputs, PoolIndexOK, UsedSocketsOK
<1>2. TablesReady' /\ UsedSockets' = UsedSockets /\ PoolIndex(p)' = PoolIndex(p)
  BY InitMemOK, SameInputs DEF PoolIndex
<1>3. \A s \in UsedSockets : pool'[PoolIndex(p)][s] > 0
  <2>1. CASE MemoryOf(p)
    BY <2>1, <1>1, InitMemOK DEF MemoryOf
  <2>2. CASE PoolIndex(p) = k
    BY <2>2, InitMemOK
  <2>3. QED
    BY <2>1, <2>2
<1>4. QED
  BY <1>2, <1>3 DEF MemoryOf

LEMMA ParamsFinite ==
  ASSUME ModeInv, NEW p
  PROVE  /\ IsFiniteSet(ParamsOf(p)) /\ ParamsOf(p) \in SUBSET Int /\ ParamsOf(p) \subseteq 1 .. Len(params)
         /\ Cardinality(ParamsOf(p)) \in Nat
<1>1. Len(params) \in Nat /\ DOMAIN params = 1 .. Len(params)
  BY DEF ModeInv, GivenOK
<1>2. ParamsOf(p) \subseteq 1 .. Len(params) /\ ParamsOf(p) \in SUBSET Int
  BY <1>1 DEF ParamsOf
<1>3. IsFiniteSet(1 .. Len(params))
  BY <1>1, FS_Interval
<1>4. IsFiniteSet(ParamsOf(p))
  BY <1>2, <1>3, FS_Subset
<1>5. QED
  BY <1>2, <1>4, FS_CardinalityType

LEMMA PoolSizePositive ==
  ASSUME ModeInv, NEW q \in Nat
  PROVE  PoolSize(q) \in Nat \ {0}
  BY FiniteInputs, NbMbufPositive DEF PoolSize

\* The ports whose memory is there stay so where nothing is allocated.
LEMMA MemFrame ==
  ASSUME MemInv, UNCHANGED given, UNCHANGED mem,
         \/ pc' \notin {"initPorts", "ethPorts", "initRx", "started", "eventQueues", "eventPorts",
                       "rxAdapters", "eventStarted"}
         \/ pc' \in {"initPorts", "ethPorts"} /\ \A p \in Active : p < idx' => MemoryOf(p)
         \/ /\ pc' \in {"initRx", "started", "eventQueues", "eventPorts", "rxAdapters", "eventStarted"}
            /\ \A p \in Active : MemoryOf(p)
  PROVE  MemInv'
<1>1. /\ UNCHANGED <<pool, lkpSetups, lkpOf>> /\ Active' = Active
      /\ \A p : MemoryOf(p)' = MemoryOf(p)
  BY SameInputs DEF mem, MemoryOf, TablesReady, PoolIndex
<1>2. QED
  BY <1>1 DEF MemInv

LEMMA MemStep ==
  ASSUME ModeInv, MemInv, UNCHANGED given, PollStep \/ EventStep \/ ServStep \/ LinkStep
  PROVE  MemInv'
<1>0. Active' = Active /\ Active \subseteq PortId /\ PortId \subseteq Nat /\ idx \in Nat
  BY SameInputs, FiniteInputs, Bounds DEF ModeInv, ControlOK
<1>00. \A p \in Active : p < MaxPorts
  BY <1>0, Bounds DEF PortId
<1>1. CASE PollStep
  <2>1. CASE CheckLcoreParams \/ InitLcoreRxQueue
    <3>1. UNCHANGED mem /\ pc' \in {"rxQueues", "exitLcores", "exitFull"}
      BY <2>1 DEF CheckLcoreParams, InitLcoreRxQueue, ports
    <3>2. QED
      BY <3>1, MemFrame
  <2>2. CASE CheckPortConfig
    <3>1. UNCHANGED mem /\ pc' \in {"initPorts", "exitPorts"} /\ \A p \in Active : ~(p < idx')
      BY <2>2, <1>0 DEF CheckPortConfig, ports
    <3>2. QED
      BY <3>1, MemFrame
  <2>3. CASE InitPort
    <3>0. pc = "initPorts" /\ idx < MaxPorts
      BY <2>3 DEF InitPort
    <3>1. CASE idx \in Active /\ InSequence(idx)
      <4> DEFINE n == Cardinality(ParamsOf(idx))
      <4>1. /\ idx' = idx + 1 /\ pc' = pc
            /\ InitMem(PoolIndex(idx), PoolSize(n))
        BY <2>3, <3>1 DEF InitPort
      <4>2. n \in Nat /\ PoolSize(n) \in Nat \ {0} /\ PoolIndex(idx) \in PortId
        BY <3>1, <1>0, ParamsFinite, PoolSizePositive, PoolIndexOK
      <4>3. ASSUME NEW p \in Active, p < idx' PROVE MemoryOf(p)'
        <5>1. p < idx \/ p = idx
          BY <4>1, <4>3, <1>0
        <5>2. MemoryOf(p) \/ PoolIndex(p) = PoolIndex(idx)
          BY <5>1, <3>0 DEF MemInv
        <5>3. QED
          BY <5>2, <4>1, <4>2, MemoryKept
      <4>4. QED
        BY <4>1, <4>2, <4>3, <3>0, <1>0, InitMemOK DEF MemInv
    <3>2. CASE idx \in Active /\ ~InSequence(idx)
      <4>1. UNCHANGED mem /\ pc' = "exitSequence"
        BY <2>3, <3>2 DEF InitPort, ports
      <4>2. QED
        BY <4>1, MemFrame
    <3>3. CASE idx \notin Active
      <4>1. UNCHANGED mem /\ pc' = "initPorts" /\ idx' = idx + 1
        BY <2>3, <3>3 DEF InitPort, ports
      <4>2. \A p \in Active : p < idx' => MemoryOf(p)
        <5>1. \A p \in Active : p < idx' => p < idx
          BY <4>1, <3>3, <1>0
        <5>2. QED
          BY <5>1, <3>0 DEF MemInv
      <4>3. QED
        BY <4>1, <4>2, MemFrame
    <3>4. QED
      BY <3>1, <3>2, <3>3
  <2>4. CASE InitPortsEnd
    <3>1. UNCHANGED mem /\ pc = "initPorts" /\ idx = MaxPorts /\ pc' = "initRx"
      BY <2>4 DEF InitPortsEnd, ports
    <3>2. QED
      BY <3>1, <1>00, MemFrame DEF MemInv
  <2>5. CASE InitRxQueues \/ Start
    <3>1. UNCHANGED mem /\ pc = "initRx" /\ pc' \in {"initRx", "started"}
      BY <2>5 DEF InitRxQueues, Start, ports
    <3>2. QED
      BY <3>1, MemFrame DEF MemInv
  <2>6. QED
    BY <1>1, <2>1, <2>2, <2>3, <2>4, <2>5 DEF PollStep, PollSetup
<1>2. CASE EventStep
  <2>1. CASE CapabilitySetup
    <3>1. UNCHANGED mem /\ pc' = "ethPorts" /\ idx' = 0
      BY <2>1 DEF CapabilitySetup, ports, ModeInv, ControlOK
    <3>2. QED
      BY <3>1, <1>0, MemFrame
  <2>2. CASE EthPortSetup
    <3>0. pc = "ethPorts" /\ idx < MaxPorts /\ idx' = idx + 1
      BY <2>2 DEF EthPortSetup
    <3>1. CASE idx \in Active
      <4>1. InitMem(PoolIndex(idx), EventMbufs) /\ pc' \in {"ethPorts", "exitRxPool"}
        BY <2>2, <3>1 DEF EthPortSetup
      <4>2. EventMbufs \in Nat \ {0} /\ PoolIndex(idx) \in PortId
        BY <3>1, <1>0, EventMbufsPositive, PoolIndexOK
      <4>3. ASSUME NEW p \in Active, p < idx' PROVE MemoryOf(p)'
        <5>1. p < idx \/ p = idx
          BY <3>0, <4>3, <1>0
        <5>2. MemoryOf(p) \/ PoolIndex(p) = PoolIndex(idx)
          BY <5>1, <3>0 DEF MemInv
        <5>3. QED
          BY <5>2, <4>1, <4>2, MemoryKept
      <4>4. QED
        BY <4>1, <4>2, <4>3, <3>0, <1>0, InitMemOK DEF MemInv
    <3>2. CASE idx \notin Active
      <4>1. UNCHANGED mem /\ pc' = "ethPorts"
        BY <2>2, <3>2 DEF EthPortSetup
      <4>2. \A p \in Active : p < idx' => MemoryOf(p)
        <5>1. \A p \in Active : p < idx' => p < idx
          BY <3>0, <3>2, <1>0
        <5>2. QED
          BY <5>1, <3>0 DEF MemInv
      <4>3. QED
        BY <4>1, <4>2, MemFrame
    <3>3. QED
      BY <3>1, <3>2
  <2>3. CASE EventDeviceSetup
    <3>1. UNCHANGED mem /\ pc = "ethPorts" /\ idx = MaxPorts /\ pc' \in {"eventQueues", "exitDevice"}
      BY <2>3 DEF EventDeviceSetup, ports
    <3>2. QED
      BY <3>1, <1>00, MemFrame DEF MemInv
  <2>4. CASE EventQueueSetup \/ EventPortSetup \/ TxAdapterSetup
    <3>1. /\ UNCHANGED mem /\ pc \in {"eventQueues", "eventPorts", "rxAdapters"}
          /\ pc' \in {"eventPorts", "rxAdapters", "eventStarted"}
      BY <2>4 DEF EventQueueSetup, EventPortSetup, TxAdapterSetup, ports
    <3>2. QED
      BY <3>1, MemFrame DEF MemInv
  <2>5. CASE RxAdapterSetup
    <3>1. UNCHANGED mem /\ pc = "rxAdapters" /\ pc' \in {"rxAdapters", "exitRxAdapter"}
      BY <2>5 DEF RxAdapterSetup, ports
    <3>2. QED
      BY <3>1, MemFrame DEF MemInv
  <2>6. QED
    BY <1>2, <2>1, <2>2, <2>3, <2>4, <2>5 DEF EventStep, EventSetup
<1>3. CASE ServStep \/ LinkStep
  <2>1. /\ UNCHANGED mem
        /\ pc' \in {"services", "exitCaps", "exitPtype", "links", "linkPort", "linkRoundEnd", "launched"}
    BY <1>3 DEF ServStep, ServicesBegin, ServiceRequest, ServicesEnd, setup, ports,
                LinkStep, PtypeCheck, Signal, LinkRound, LinkPort, LinkRoundEnd
  <2>2. QED
    BY <2>1, MemFrame
<1>4. QED
  BY <1>1, <1>2, <1>3

-----------------------------------------------------------------------------
(* TX queues.                                                              *)

\* The ports below n are done: the lcores' queues on them are numbered through, and they
\* are in the lists of the lcores.
TxUpTo(n) ==
  /\ \A p \in Active : p < n => \A l \in enLcores : txQueueId[l][p] = Rank(enLcores, l)
  /\ \A l \in enLcores :
       /\ \A p \in PortId : (\E k \in 1 .. Len(txPortId[l]) : txPortId[l][k] = p) <=> p \in Active /\ p < n
       /\ Len(txPortId[l]) = Rank(Active, n)

TxInv ==
  /\ txQueueId \in [LcoreId -> [PortId -> LcoreId \cup {-1}]]
  /\ txPortId \in [LcoreId -> Seq(PortId)]
  /\ pc \in {"checkLcores", "rxQueues"} => TxUpTo(0)
  /\ pc = "initPorts" => TxUpTo(idx)
  /\ pc \in {"initRx", "started"} => TxUpTo(MaxPorts)

LEMMA RankZero ==
  ASSUME NEW S \in SUBSET Nat
  PROVE  Rank(S, 0) = 0
<1>1. \A y \in S : ~(y < 0)
  OBVIOUS
<1>2. {y \in S : y < 0} = {}
  BY <1>1
<1>3. QED
  BY <1>2, FS_EmptySet DEF Rank

LEMMA RankTop ==
  ASSUME ModeInv
  PROVE  Rank(Active, MaxPorts) = NActive
<1>1. \A y \in Active : y < MaxPorts
  BY FiniteInputs, Bounds DEF PortId
<1>2. {y \in Active : y < MaxPorts} = Active
  BY <1>1
<1>3. QED
  BY <1>2 DEF Rank, NActive

\* There are no more TX queues than lcores.
LEMMA QueueIdOK ==
  ASSUME ModeInv, NEW l \in enLcores
  PROVE  /\ QueueId(l) = Rank(enLcores, l)
         /\ Rank(enLcores, l) \in 0 .. NLcores - 1 /\ Rank(enLcores, l) \in LcoreId
<1>1. QueueId(l) = Rank(enLcores, l)
  BY DEF QueueId, Rank
<1>2. Rank(enLcores, l) \in 0 .. NLcores - 1
  BY FiniteInputs, RankLess DEF NLcores
<1>3. NLcores <= MaxLcores
  <2>1. enLcores \subseteq LcoreId /\ IsFiniteSet(LcoreId)
    BY FiniteInputs DEF ModeInv, GivenOK
  <2>2. Cardinality(LcoreId) = MaxLcores
    <3>1. Cardinality(0 .. MaxLcores - 1) = MaxLcores - 1 - 0 + 1
      BY Bounds, FS_Interval
    <3>2. QED
      BY <3>1, Bounds DEF LcoreId
  <2>3. QED
    BY <2>1, <2>2, FS_Subset DEF NLcores
<1>4. QED
  BY <1>1, <1>2, <1>3, FiniteInputs, Bounds DEF LcoreId

LEMMA TxFrame ==
  ASSUME TxInv, UNCHANGED given, UNCHANGED <<txQueueId, txPortId>>,
         \/ pc' \notin {"checkLcores", "rxQueues", "initPorts", "initRx", "started"}
         \/ pc' = "rxQueues" /\ TxUpTo(0)
         \/ pc' = "initPorts" /\ TxUpTo(idx')
         \/ pc' \in {"initRx", "started"} /\ TxUpTo(MaxPorts)
  PROVE  TxInv'
<1>1. Active' = Active /\ enLcores' = enLcores
  BY SameInputs
<1>2. \A l, n : (Rank(enLcores, l))' = Rank(enLcores, l) /\ (Rank(Active, n))' = Rank(Active, n)
  BY <1>1 DEF Rank
<1>3. TxUpTo(0) => TxUpTo(0)'
  BY <1>1, <1>2 DEF TxUpTo
<1>4. TxUpTo(MaxPorts) => TxUpTo(MaxPorts)'
  BY <1>1, <1>2 DEF TxUpTo
<1>5. TxUpTo(idx') => TxUpTo(idx)'
  BY <1>1, <1>2 DEF TxUpTo
<1>6. QED
  BY <1>3, <1>4, <1>5 DEF TxInv

LEMMA InitPortTx ==
  ASSUME ModeInv, TxInv, UNCHANGED given, InitPort, idx \in Active, InSequence(idx)
  PROVE  TxInv'
<1>0. /\ pc = "initPorts" /\ pc' = pc /\ idx' = idx + 1 /\ idx \in Nat /\ idx \in PortId
      /\ TxUpTo(idx)
      /\ txQueueId \in [LcoreId -> [PortId -> LcoreId \cup {-1}]]
      /\ txPortId \in [LcoreId -> Seq(PortId)]
  BY FiniteInputs DEF InitPort, TxInv, ModeInv, ControlOK
<1>1. txQueueId' = [l \in LcoreId |->
                      IF l \in enLcores THEN [txQueueId[l] EXCEPT ![idx] = QueueId(l)]
                      ELSE txQueueId[l]]
  BY DEF InitPort
<1>2. txPortId' = [l \in LcoreId |->
                      IF l \in enLcores THEN Append(txPortId[l], idx) ELSE txPortId[l]]
  BY DEF InitPort
<1>3. \A l \in enLcores : l \in LcoreId /\ QueueId(l) = Rank(enLcores, l) /\ QueueId(l) \in LcoreId
  BY QueueIdOK DEF ModeInv, GivenOK
<1>4. txQueueId' \in [LcoreId -> [PortId -> LcoreId \cup {-1}]]
  <2>1. ASSUME NEW l \in LcoreId PROVE txQueueId'[l] \in [PortId -> LcoreId \cup {-1}]
    BY <1>0, <1>1, <1>3
  <2>2. QED
    BY <2>1, <1>1
<1>5. txPortId' \in [LcoreId -> Seq(PortId)]
  <2>1. ASSUME NEW l \in LcoreId PROVE txPortId'[l] \in Seq(PortId)
    BY <1>0, <1>2
  <2>2. QED
    BY <2>1, <1>2
<1>6. ASSUME NEW p \in Active, p < idx + 1, NEW l \in enLcores
      PROVE  txQueueId'[l][p] = Rank(enLcores, l)
  <2>1. p \in PortId /\ p \in Nat
    BY FiniteInputs, Bounds
  <2>2. CASE p = idx
    BY <2>1, <2>2, <1>0, <1>1, <1>3
  <2>3. CASE p # idx
    <3>1. txQueueId'[l][p] = txQueueId[l][p] /\ p < idx
      BY <2>1, <2>3, <1>0, <1>1, <1>3, <1>6
    <3>2. QED
      BY <3>1, <1>0 DEF TxUpTo
  <2>4. QED
    BY <2>2, <2>3
<1>7. ASSUME NEW l \in enLcores
      PROVE  /\ \A p \in PortId : (\E k \in 1 .. Len(txPortId'[l]) : txPortId'[l][k] = p)
                                    <=> p \in Active /\ p < idx + 1
             /\ Len(txPortId'[l]) = Rank(Active, idx + 1)
  <2> DEFINE s == txPortId[l]
             t == txPortId'[l]
  <2>1. s \in Seq(PortId) /\ t = Append(s, idx) /\ Len(s) \in Nat
    BY <1>0, <1>2, <1>3
  <2>2. Len(t) = Len(s) + 1 /\ t[Len(s) + 1] = idx /\ \A k \in 1 .. Len(s) : t[k] = s[k]
    BY <2>1
  <2>3. /\ \A p \in PortId : (\E k \in 1 .. Len(s) : s[k] = p) <=> p \in Active /\ p < idx
        /\ Len(s) = Rank(Active, idx)
    BY <1>0 DEF TxUpTo
  <2>4. Rank(Active, idx + 1) = Rank(Active, idx) + 1
    BY <1>0, FiniteInputs, RankStep
  <2> HIDE DEF s, t
  <2>5. ASSUME NEW p \in PortId
        PROVE  (\E k \in 1 .. Len(t) : t[k] = p) <=> p \in Active /\ p < idx + 1
    <3>1. p < idx + 1 <=> p < idx \/ p = idx
      BY <1>0, Bounds
    <3>2. (\E k \in 1 .. Len(t) : t[k] = p) <=> (\E k \in 1 .. Len(s) : s[k] = p) \/ p = idx
      BY <2>1, <2>2
    <3>3. QED
      BY <3>1, <3>2, <2>3
  <2>6. QED
    BY <2>2, <2>3, <2>4, <2>5 DEF s, t
<1>8. TxUpTo(idx)'
  <2>1. Active' = Active /\ enLcores' = enLcores
    BY SameInputs
  <2>2. (Rank(Active, idx))' = Rank(Active, idx + 1) /\ \A l : (Rank(enLcores, l))' = Rank(enLcores, l)
    BY <2>1, <1>0 DEF Rank
  <2>3. \A p \in Active' : p < idx' => \A l \in enLcores' : txQueueId'[l][p] = (Rank(enLcores, l))'
    BY <2>1, <2>2, <1>0, <1>6
  <2>4. QED
    BY <2>1, <2>2, <2>3, <1>0, <1>7 DEF TxUpTo
<1>9. QED
  BY <1>0, <1>4, <1>5, <1>8 DEF TxInv

LEMMA TxStep ==
  ASSUME ModeInv, TxInv, UNCHANGED given, PollStep \/ EventStep \/ ServStep \/ LinkStep
  PROVE  TxInv'
<1>1. CASE PollStep
  <2>1. CASE CheckLcoreParams \/ InitLcoreRxQueue
    <3>1. /\ UNCHANGED <<txQueueId, txPortId>> /\ pc \in {"checkLcores", "rxQueues"}
          /\ pc' \in {"rxQueues", "exitLcores", "exitFull"}
      BY <2>1 DEF CheckLcoreParams, InitLcoreRxQueue, ports
    <3>2. QED
      BY <3>1, TxFrame DEF TxInv
  <2>2. CASE CheckPortConfig
    <3>1. /\ UNCHANGED <<txQueueId, txPortId>> /\ pc = "rxQueues" /\ idx' = 0
          /\ pc' \in {"initPorts", "exitPorts"}
      BY <2>2 DEF CheckPortConfig, ports
    <3>2. QED
      BY <3>1, TxFrame DEF TxInv
  <2>3. CASE InitPort
    <3>0. pc = "initPorts"
      BY <2>3 DEF InitPort
    <3>1. CASE idx \in Active /\ InSequence(idx)
      BY <2>3, <3>1, InitPortTx
    <3>2. CASE idx \in Active /\ ~InSequence(idx)
      <4>1. UNCHANGED <<txQueueId, txPortId>> /\ pc' = "exitSequence"
        BY <2>3, <3>2 DEF InitPort, ports
      <4>2. QED
        BY <4>1, TxFrame
    <3>3. CASE idx \notin Active
      <4>1. UNCHANGED <<txQueueId, txPortId>> /\ pc' = "initPorts" /\ idx' = idx + 1
        BY <2>3, <3>3 DEF InitPort, ports
      <4>2. idx \in Nat /\ Rank(Active, idx + 1) = Rank(Active, idx)
        BY <3>3, FiniteInputs, RankStep DEF ModeInv, ControlOK
      <4>3. \A p \in Active : p < idx + 1 <=> p < idx
        BY <3>3, <4>2, FiniteInputs
      <4>4. TxUpTo(idx + 1)
        BY <3>0, <4>2, <4>3 DEF TxUpTo, TxInv
      <4>5. QED
        BY <4>1, <4>4, TxFrame
    <3>4. QED
      BY <3>1, <3>2, <3>3
  <2>4. CASE InitPortsEnd
    <3>1. UNCHANGED <<txQueueId, txPortId>> /\ pc = "initPorts" /\ idx = MaxPorts /\ pc' = "initRx"
      BY <2>4 DEF InitPortsEnd, ports
    <3>2. QED
      BY <3>1, TxFrame DEF TxInv
  <2>5. CASE InitRxQueues \/ Start
    <3>1. UNCHANGED <<txQueueId, txPortId>> /\ pc = "initRx" /\ pc' \in {"initRx", "started"}
      BY <2>5 DEF InitRxQueues, Start, ports
    <3>2. QED
      BY <3>1, TxFrame DEF TxInv
  <2>6. QED
    BY <1>1, <2>1, <2>2, <2>3, <2>4, <2>5 DEF PollStep, PollSetup
<1>2. CASE EventStep
  <2>1. UNCHANGED <<txQueueId, txPortId>>
    BY <1>2 DEF EventStep, EventSetup, CapabilitySetup, EthPortSetup, EventDeviceSetup,
                EventQueueSetup, EventPortSetup, RxAdapterSetup, TxAdapterSetup, ports
  <2>2. pc' \notin PollPc
    <3>1. pc \in EventPc /\ eventMode
      BY <1>2 DEF EventStep, EventSetup, CapabilitySetup, EthPortSetup, EventDeviceSetup, EventPc,
                  EventQueueSetup, EventPortSetup, RxAdapterSetup, TxAdapterSetup,
                  ModeInv, ControlOK, PollPc, LinkPc
    <3>2. eventMode' /\ ModeInv'
      BY <1>2, <3>1, SameInputs, ModeStep
    <3>3. QED
      BY <3>2 DEF ModeInv, ControlOK, PollPc, EventPc, LinkPc
  <2>3. QED
    BY <2>1, <2>2, TxFrame DEF PollPc
<1>3. CASE ServStep \/ LinkStep
  <2>1. /\ UNCHANGED <<txQueueId, txPortId>>
        /\ pc' \in {"services", "exitCaps", "exitPtype", "links", "linkPort", "linkRoundEnd", "launched"}
    BY <1>3 DEF ServStep, ServicesBegin, ServiceRequest, ServicesEnd, setup, ports,
                LinkStep, PtypeCheck, Signal, LinkRound, LinkPort, LinkRoundEnd
  <2>2. QED
    BY <2>1, TxFrame
<1>4. QED
  BY <1>1, <1>2, <1>3

-----------------------------------------------------------------------------
(* RX queues.                                                              *)

\* The place of the j-th triple in the list of its lcore is pos[j]: it is there, no two are
\* at one place, and there is nothing else.
Placing(pos, n) ==
  /\ \A j \in 1 .. n :
       /\ pos[j] \in 1 .. Len(rxQueueList[params[j].lcore])
       /\ rxQueueList[params[j].lcore][pos[j]] = [port |-> params[j].port, queue |-> params[j].queue]
  /\ \A i, j \in 1 .. n : params[i].lcore = params[j].lcore /\ pos[i] = pos[j] => i = j
  /\ \A l \in LcoreId : \A k \in 1 .. Len(rxQueueList[l]) :
       \E j \in 1 .. n : params[j].lcore = l /\ pos[j] = k

Placed(n) == \E pos \in [1 .. n -> Nat] : Placing(pos, n)

LcoresChecked == \A j \in 1 .. Len(params) : params[j].lcore \in enLcores
PortsChecked  == \A j \in 1 .. Len(params) : params[j].port \in Active

\* The queues of the ports below n have been counted.
Counted(n) ==
  \A p \in Active : p < n => InSequence(p) /\ nbRxq[p] = Cardinality(ParamsOf(p))

\* The queues of the lcores below n have been set up.
ReadyUpTo(n) ==
  \A x : x \in rxReady <=>
    \E l \in enLcores : l < n /\ \E k \in 1 .. Len(rxQueueList[l]) :
      x = <<rxQueueList[l][k].port, rxQueueList[l][k].queue>>

RxInv ==
  /\ rxQueueList \in [LcoreId -> Seq(RxQueue)]
  /\ \A l \in LcoreId : Len(rxQueueList[l]) <= MaxRxPerLcore
  /\ nbRxq \in [PortId -> Nat \cup {-1}]
  /\ rxReady \subseteq (0 .. MaxPorts) \X (0 .. MaxQueues)
  /\ eventMode \/ pc = "checkLcores" => \A l \in LcoreId : rxQueueList[l] = <<>>
  /\ pc \in {"rxQueues", "initPorts", "initRx", "started"} => LcoresChecked
  /\ pc = "rxQueues" => Placed(idx)
  /\ pc \in {"initPorts", "initRx", "started"} => Placed(Len(params)) /\ PortsChecked
  /\ pc = "initPorts" => Counted(idx)
  /\ pc \in {"initRx", "started"} => Counted(MaxPorts)
  /\ pc \in {"checkLcores", "rxQueues", "initPorts"} => rxReady = {}
  /\ pc = "initRx" => ReadyUpTo(idx)
  /\ pc = "started" => ReadyUpTo(MaxLcores)

LEMMA ParamsOK ==
  ASSUME ModeInv
  PROVE  /\ Len(params) \in Nat /\ DOMAIN params = 1 .. Len(params)
         /\ \A j \in 1 .. Len(params) :
              /\ params[j].port \in 0 .. MaxPorts /\ params[j].queue \in 0 .. MaxQueues
              /\ [port |-> params[j].port, queue |-> params[j].queue] \in RxQueue
<1>1. params \in Seq(ParsedParam)
  BY DEF ModeInv, GivenOK
<1>2. \A j \in 1 .. Len(params) : params[j] \in ParsedParam
  BY <1>1
<1>3. QED
  BY <1>1, <1>2 DEF ParsedParam, RxQueue

\* One triple more in the list of its lcore.
LEMMA InitLcoreRxQueueRx ==
  ASSUME ModeInv, RxInv, UNCHANGED given, InitLcoreRxQueue
  PROVE  RxInv'
<1> DEFINE e == params[idx + 1]
           entry == [port |-> e.port, queue |-> e.queue]
           m == e.lcore
<1>0. /\ pc = "rxQueues" /\ idx \in Nat /\ idx + 1 \in 1 .. Len(params)
      /\ UNCHANGED <<nbRxq, rxReady>>
      /\ ~eventMode /\ eventMode' = eventMode /\ params' = params /\ enLcores' = enLcores
  BY SameInputs, ParamsOK DEF InitLcoreRxQueue, ports, ModeInv, ControlOK, EventPc, LinkPc
<1>1. /\ rxQueueList \in [LcoreId -> Seq(RxQueue)] /\ LcoresChecked /\ Placed(idx) /\ rxReady = {}
      /\ nbRxq \in [PortId -> Nat \cup {-1}]
      /\ \A l \in LcoreId : Len(rxQueueList[l]) <= MaxRxPerLcore
  BY <1>0 DEF RxInv
<1>2. m \in LcoreId /\ entry \in RxQueue
  BY <1>0, <1>1, ParamsOK DEF LcoresChecked, ModeInv, GivenOK
<1>3. CASE ListFull(m)
  <2>1. pc' = "exitFull" /\ UNCHANGED rxQueueList
    BY <1>3 DEF InitLcoreRxQueue
  <2>2. QED
    BY <2>1, <1>0, <1>1 DEF RxInv
<1>4. CASE ~ListFull(m)
  <2>1. /\ rxQueueList' = [rxQueueList EXCEPT ![m] = Append(rxQueueList[m], entry)]
        /\ idx' = idx + 1 /\ pc' = "rxQueues"
    BY <1>4, <1>0 DEF InitLcoreRxQueue
  <2> DEFINE s == rxQueueList[m]
  <2>2. s \in Seq(RxQueue) /\ Len(s) \in Nat /\ Len(s) < MaxRxPerLcore
    <3>1. s \in Seq(RxQueue)
      BY <1>1, <1>2
    <3>2. Len(s) \in Nat
      BY <3>1
    <3>3. ~(Len(s) >= MaxRxPerLcore)
      BY <1>4 DEF ListFull
    <3>4. QED
      BY <3>1, <3>2, <3>3, Bounds
  <2>3. rxQueueList'[m] = Append(s, entry) /\ \A l \in LcoreId \ {m} : rxQueueList'[l] = rxQueueList[l]
    BY <1>1, <1>2, <2>1
  <2>4. /\ Len(rxQueueList'[m]) = Len(s) + 1 /\ rxQueueList'[m][Len(s) + 1] = entry
        /\ \A k \in 1 .. Len(s) : rxQueueList'[m][k] = s[k]
    BY <2>2, <2>3, <1>2
  <2>5. rxQueueList' \in [LcoreId -> Seq(RxQueue)]
    <3>1. Append(s, entry) \in Seq(RxQueue)
      BY <1>2, <2>2
    <3>2. QED
      BY <3>1, <1>1, <2>1
  <2>6. ASSUME NEW l \in LcoreId PROVE Len(rxQueueList'[l]) <= MaxRxPerLcore
    <3>1. CASE l = m
      BY <3>1, <2>2, <2>4, Bounds
    <3>2. CASE l # m
      BY <3>2, <1>1, <2>3
    <3>3. QED
      BY <3>1, <3>2
  <2>7. PICK pos \in [1 .. idx -> Nat] : Placing(pos, idx)
    BY <1>1 DEF Placed
  <2>8. PICK new \in [1 .. idx + 1 -> Nat] :
          new[idx + 1] = Len(s) + 1 /\ \A j \in 1 .. idx : new[j] = pos[j]
    <3> DEFINE f == [j \in 1 .. idx + 1 |-> IF j = idx + 1 THEN Len(s) + 1 ELSE pos[j]]
    <3>1. f \in [1 .. idx + 1 -> Nat] /\ f[idx + 1] = Len(s) + 1 /\ \A j \in 1 .. idx : f[j] = pos[j]
      BY <1>0, <2>2
    <3>2. QED
      BY <3>1
  <2>9. \A j \in 1 .. idx : params[j].lcore \in LcoreId /\ j \in 1 .. Len(params)
    BY <1>0, <1>1, ParamsOK DEF LcoresChecked, ModeInv, GivenOK
  <2> HIDE DEF s
  <2>10. ASSUME NEW j \in 1 .. idx + 1
         PROVE  /\ new[j] \in 1 .. Len(rxQueueList'[params[j].lcore])
                /\ rxQueueList'[params[j].lcore][new[j]] = [port |-> params[j].port, queue |-> params[j].queue]
    <3>1. CASE j = idx + 1
      BY <3>1, <2>2, <2>4, <2>8
    <3>2. CASE j \in 1 .. idx
      <4>1. /\ pos[j] \in 1 .. Len(rxQueueList[params[j].lcore])
            /\ rxQueueList[params[j].lcore][pos[j]] = [port |-> params[j].port, queue |-> params[j].queue]
        BY <3>2, <2>7 DEF Placing
      <4>2. CASE params[j].lcore = m
        BY <4>1, <4>2, <3>2, <2>2, <2>4, <2>8 DEF s
      <4>3. CASE params[j].lcore # m
        BY <4>1, <4>3, <3>2, <2>3, <2>8, <2>9
      <4>4. QED
        BY <4>2, <4>3
    <3>3. QED
      BY <3>1, <3>2, <1>0
  <2>11. ASSUME NEW i \in 1 .. idx + 1, NEW j \in 1 .. idx + 1,
                params[i].lcore = params[j].lcore, new[i] = new[j]
         PROVE  i = j
    <3>1. ASSUME NEW x \in 1 .. idx, params[x].lcore = m PROVE pos[x] \in 1 .. Len(s)
      BY <3>1, <2>7 DEF Placing, s
    <3>2. CASE i \in 1 .. idx /\ j \in 1 .. idx
      BY <3>2, <2>7, <2>8, <2>11 DEF Placing
    <3>3. CASE i = idx + 1 /\ j \in 1 .. idx
      BY <3>1, <3>3, <2>2, <2>8, <2>11
    <3>4. CASE i \in 1 .. idx /\ j = idx + 1
      BY <3>1, <3>4, <2>2, <2>8, <2>11
    <3>5. QED
      BY <3>2, <3>3, <3>4, <1>0
  <2>12. ASSUME NEW l \in LcoreId, NEW k \in 1 .. Len(rxQueueList'[l])
         PROVE  \E j \in 1 .. idx + 1 : params[j].lcore = l /\ new[j] = k
    <3>1. CASE l = m /\ k = Len(s) + 1
      BY <3>1, <1>0, <2>8
    <3>2. CASE ~(l = m /\ k = Len(s) + 1)
      <4>1. k \in 1 .. Len(rxQueueList[l])
        <5>1. CASE l = m
          BY <5>1, <3>2, <2>2, <2>4 DEF s
        <5>2. CASE l # m
          BY <5>2, <2>3
        <5>3. QED
          BY <5>1, <5>2
      <4>2. PICK j \in 1 .. idx : params[j].lcore = l /\ pos[j] = k
        BY <4>1, <2>7 DEF Placing
      <4>3. j \in 1 .. idx + 1
        BY <1>0
      <4>4. QED
        BY <4>2, <4>3, <2>8
    <3>3. QED
      BY <3>1, <3>2
  <2>13. Placed(idx)'
    <3>1. Placing(new, idx)'
      BY <2>1, <2>10, <2>11, <2>12, <1>0 DEF Placing
    <3>2. QED
      BY <3>1, <2>1, <2>8 DEF Placed
  <2>14. QED
    BY <2>1, <2>5, <2>6, <2>13, <1>0, <1>1 DEF RxInv, LcoresChecked
<1>5. QED
  BY <1>3, <1>4

\* Where no list and no port is changed and the poll part is left, or not entered.
LEMMA RxFrame ==
  ASSUME RxInv, UNCHANGED given, UNCHANGED <<rxQueueList, nbRxq, rxReady>>,
         pc' \notin {"checkLcores", "rxQueues", "initPorts", "initRx", "started"}
  PROVE  RxInv'
<1>1. eventMode' = eventMode
  BY SameInputs
<1>2. QED
  BY <1>1 DEF RxInv

\* Lists and triples are as before.
LEMMA ListsKept ==
  ASSUME UNCHANGED given, UNCHANGED rxQueueList
  PROVE  /\ LcoresChecked => LcoresChecked'
         /\ PortsChecked => PortsChecked'
         /\ Placed(Len(params)) => Placed(Len(params))'
         /\ \A p : ParamsOf(p)' = ParamsOf(p)
         /\ \A p : InSequence(p)' = InSequence(p)
<1>1. params' = params /\ Active' = Active /\ enLcores' = enLcores
  BY SameInputs
<1>2. Placed(Len(params)) => Placed(Len(params))'
  BY <1>1 DEF Placed, Placing
<1>3. \A p : ParamsOf(p)' = ParamsOf(p)
  BY <1>1 DEF ParamsOf
<1>4. \A p : InSequence(p)' = InSequence(p)
  BY <1>1, <1>3 DEF InSequence
<1>5. QED
  BY <1>1, <1>2, <1>3, <1>4 DEF LcoresChecked, PortsChecked

LEMMA CheckLcoreParamsRx ==
  ASSUME ModeInv, RxInv, UNCHANGED given, CheckLcoreParams
  PROVE  RxInv'
<1>0. /\ pc = "checkLcores" /\ UNCHANGED <<idx, rxQueueList, nbRxq, rxReady>> /\ idx = 0
      /\ \A l \in LcoreId : rxQueueList[l] = <<>>
      /\ rxReady = {}
  BY DEF CheckLcoreParams, ports, RxInv, ModeInv, ControlOK
<1>1. CASE \E k \in DOMAIN params : BadLcoreParam(params[k])
  <2>1. pc' = "exitLcores"
    BY <1>1 DEF CheckLcoreParams
  <2>2. QED
    BY <2>1, <1>0, RxFrame
<1>2. CASE ~ \E k \in DOMAIN params : BadLcoreParam(params[k])
  <2>1. pc' = "rxQueues"
    BY <1>2 DEF CheckLcoreParams
  <2>2. LcoresChecked
    BY <1>2, ParamsOK DEF LcoresChecked, BadLcoreParam
  <2>3. Placed(0)
    <3> DEFINE f == [j \in 1 .. 0 |-> 0]
    <3>1. f \in [1 .. 0 -> Nat] /\ \A j \in 1 .. 0 : FALSE
      OBVIOUS
    <3>2. \A l \in LcoreId : 1 .. Len(rxQueueList[l]) = {}
      BY <1>0
    <3>3. Placing(f, 0)
      BY <3>1, <3>2 DEF Placing
    <3>4. QED
      BY <3>1, <3>3 DEF Placed
  <2>4. Placed(idx)'
    <3>1. params' = params /\ rxQueueList' = rxQueueList /\ idx' = 0
      BY <1>0, SameInputs
    <3>2. PICK pos \in [1 .. 0 -> Nat] : Placing(pos, 0)
      BY <2>3 DEF Placed
    <3>3. Placing(pos, idx)'
      BY <3>1, <3>2 DEF Placing
    <3>4. QED
      BY <3>1, <3>3 DEF Placed
  <2>5. LcoresChecked'
    BY <2>2, <1>0, ListsKept
  <2>6. QED
    BY <2>1, <2>4, <2>5, <1>0, SameInputs DEF RxInv
<1>3. QED
  BY <1>1, <1>2

LEMMA CheckPortConfigRx ==
  ASSUME ModeInv, RxInv, UNCHANGED given, CheckPortConfig
  PROVE  RxInv'
<1>0. /\ pc = "rxQueues" /\ UNCHANGED <<rxQueueList, nbRxq, rxReady>> /\ idx = Len(params) /\ idx' = 0
      /\ Placed(Len(params)) /\ LcoresChecked /\ rxReady = {}
  BY DEF CheckPortConfig, ports, RxInv
<1>1. CASE \E k \in DOMAIN params : BadPort(params[k].port)
  <2>1. pc' = "exitPorts"
    BY <1>1 DEF CheckPortConfig
  <2>2. QED
    BY <2>1, <1>0, RxFrame
<1>2. CASE ~ \E k \in DOMAIN params : BadPort(params[k].port)
  <2>1. pc' = "initPorts"
    BY <1>2 DEF CheckPortConfig
  <2>2. ASSUME NEW j \in 1 .. Len(params) PROVE params[j].port \in Active
    <3> DEFINE p == params[j].port
    <3>1. p % MaxPorts \in mask /\ p \in valid
      BY <1>2, ParamsOK DEF BadPort
    <3>2. p \in 0 .. MaxPorts - 1
      BY <3>1 DEF ModeInv, GivenOK, PortId
    <3>3. p % MaxPorts = p
      BY <3>2, Bounds, SMTT(30)
    <3>4. QED
      BY <3>1, <3>3 DEF Active
  <2>3. PortsChecked
    BY <2>2 DEF PortsChecked
  <2>4. Counted(idx)'
    <3>1. \A p \in Active' : ~(p < idx')
      BY <1>0, SameInputs, FiniteInputs, Bounds
    <3>2. QED
      BY <3>1 DEF Counted
  <2>5. Placed(Len(params))' /\ LcoresChecked' /\ PortsChecked'
    BY <2>3, <1>0, ListsKept
  <2>6. QED
    BY <2>1, <2>4, <2>5, <1>0, SameInputs DEF RxInv
<1>3. QED
  BY <1>1, <1>2

LEMMA InitPortRx ==
  ASSUME ModeInv, RxInv, UNCHANGED given, InitPort
  PROVE  RxInv'
<1>0. /\ pc = "initPorts" /\ UNCHANGED <<rxQueueList, rxReady>>
      /\ Placed(Len(params)) /\ LcoresChecked /\ PortsChecked /\ rxReady = {} /\ Counted(idx)
      /\ nbRxq \in [PortId -> Nat \cup {-1}] /\ idx \in Nat
  BY DEF InitPort, RxInv, ModeInv, ControlOK
<1>1. Placed(Len(params))' /\ LcoresChecked' /\ PortsChecked' /\ Active' = Active
  BY <1>0, ListsKept, SameInputs
<1>2. Active \subseteq PortId /\ Active \subseteq Nat
  BY FiniteInputs, Bounds
<1>3. CASE idx \in Active /\ ~InSequence(idx)
  <2>1. pc' = "exitSequence" /\ UNCHANGED nbRxq
    BY <1>3 DEF InitPort, ports
  <2>2. QED
    BY <2>1, <1>0, RxFrame
<1>4. CASE idx \in Active /\ InSequence(idx)
  <2>1. /\ pc' = "initPorts" /\ idx' = idx + 1
        /\ nbRxq' = [nbRxq EXCEPT ![idx] = Cardinality(ParamsOf(idx))]
    BY <1>0, <1>4 DEF InitPort
  <2>2. Cardinality(ParamsOf(idx)) \in Nat
    BY ParamsFinite
  <2>3. nbRxq' \in [PortId -> Nat \cup {-1}]
    BY <2>1, <2>2, <1>0
  <2>4. ASSUME NEW p \in Active, p < idx + 1
        PROVE  InSequence(p) /\ nbRxq'[p] = Cardinality(ParamsOf(p))
    <3>1. CASE p = idx
      BY <3>1, <2>1, <1>0, <1>2, <1>4
    <3>2. CASE p # idx
      <4>1. p < idx /\ nbRxq'[p] = nbRxq[p]
        BY <3>2, <2>1, <2>4, <1>0, <1>2
      <4>2. QED
        BY <4>1, <1>0 DEF Counted
    <3>3. QED
      BY <3>1, <3>2
  <2>5. Counted(idx)'
    BY <2>1, <2>4, <1>0, <1>1, ListsKept DEF Counted
  <2>6. QED
    BY <2>1, <2>3, <2>5, <1>0, <1>1, SameInputs DEF RxInv
<1>5. CASE idx \notin Active
  <2>1. pc' = "initPorts" /\ idx' = idx + 1 /\ UNCHANGED nbRxq
    BY <1>0, <1>5 DEF InitPort, ports
  <2>2. \A p \in Active : p < idx + 1 => p < idx
    BY <1>0, <1>2, <1>5
  <2>3. Counted(idx)'
    BY <2>1, <2>2, <1>0, <1>1, ListsKept DEF Counted
  <2>4. QED
    BY <2>1, <2>3, <1>0, <1>1, SameInputs DEF RxInv
<1>6. QED
  BY <1>3, <1>4, <1>5

LEMMA InitPortsEndRx ==
  ASSUME ModeInv, RxInv, UNCHANGED given, InitPortsEnd
  PROVE  RxInv'
<1>0. /\ pc = "initPorts" /\ pc' = "initRx" /\ idx = MaxPorts /\ idx' = 0
      /\ UNCHANGED <<rxQueueList, nbRxq, rxReady>>
      /\ Placed(Len(params)) /\ LcoresChecked /\ PortsChecked /\ rxReady = {} /\ Counted(MaxPorts)
  BY DEF InitPortsEnd, ports, RxInv
<1>1. Placed(Len(params))' /\ LcoresChecked' /\ PortsChecked' /\ Active' = Active /\ enLcores' = enLcores
  BY <1>0, ListsKept, SameInputs
<1>2. Counted(MaxPorts)'
  BY <1>0, <1>1, ListsKept DEF Counted
<1>3. ReadyUpTo(idx)'
  <2>1. \A l \in enLcores : ~(l < 0)
    BY Bounds DEF ModeInv, GivenOK
  <2>2. QED
    BY <2>1, <1>0, <1>1 DEF ReadyUpTo
<1>4. QED
  BY <1>0, <1>1, <1>2, <1>3, SameInputs DEF RxInv

LEMMA InitRxQueuesRx ==
  ASSUME ModeInv, RxInv, UNCHANGED given, InitRxQueues
  PROVE  RxInv'
<1> DEFINE s == rxQueueList[idx]
           at(k) == <<s[k].port, s[k].queue>>
<1>0. /\ pc = "initRx" /\ pc' = "initRx" /\ idx < MaxLcores /\ idx' = idx + 1 /\ idx \in LcoreId
      /\ UNCHANGED <<rxQueueList, nbRxq>>
      /\ Placed(Len(params)) /\ LcoresChecked /\ PortsChecked /\ Counted(MaxPorts) /\ ReadyUpTo(idx)
      /\ rxQueueList \in [LcoreId -> Seq(RxQueue)]
      /\ rxReady \subseteq (0 .. MaxPorts) \X (0 .. MaxQueues)
  BY Bounds DEF InitRxQueues, ports, RxInv, ModeInv, ControlOK, LcoreId
<1>1. Placed(Len(params))' /\ LcoresChecked' /\ PortsChecked' /\ Active' = Active /\ enLcores' = enLcores
  BY <1>0, ListsKept, SameInputs
<1>2. Counted(MaxPorts)'
  BY <1>0, <1>1, ListsKept DEF Counted
<1>3. s \in Seq(RxQueue) /\ DOMAIN s = 1 .. Len(s)
  BY <1>0
<1>4. rxReady' = IF idx \in enLcores THEN rxReady \cup {at(k) : k \in 1 .. Len(s)} ELSE rxReady
  BY <1>3 DEF InitRxQueues
<1>5. \A k \in 1 .. Len(s) : at(k) \in (0 .. MaxPorts) \X (0 .. MaxQueues)
  <2>1. \A k \in 1 .. Len(s) : s[k] \in RxQueue
    BY <1>3
  <2>2. QED
    BY <2>1 DEF RxQueue
<1>6. rxReady' \subseteq (0 .. MaxPorts) \X (0 .. MaxQueues)
  BY <1>0, <1>4, <1>5
<1>7. enLcores \subseteq Nat
  BY Bounds DEF ModeInv, GivenOK
<1>8. \A l \in enLcores : l < idx + 1 <=> l < idx \/ l = idx
  BY <1>0, <1>7, Bounds
<1>9. ASSUME NEW x
      PROVE  x \in rxReady' <=> \E l \in enLcores : l < idx + 1 /\ \E k \in 1 .. Len(rxQueueList[l]) :
                                  x = <<rxQueueList[l][k].port, rxQueueList[l][k].queue>>
  <2> DEFINE Of(l) == \E k \in 1 .. Len(rxQueueList[l]) :
                        x = <<rxQueueList[l][k].port, rxQueueList[l][k].queue>>
  <2>1. x \in rxReady <=> \E l \in enLcores : l < idx /\ Of(l)
    BY <1>0 DEF ReadyUpTo
  <2>2. x \in rxReady' <=> x \in rxReady \/ (idx \in enLcores /\ Of(idx))
    BY <1>4
  <2> HIDE DEF Of
  <2>3. x \in rxReady' <=> \E l \in enLcores : l < idx + 1 /\ Of(l)
    BY <2>1, <2>2, <1>8
  <2>4. QED
    BY <2>3 DEF Of
<1>10. ReadyUpTo(idx)'
  BY <1>9, <1>0, <1>1 DEF ReadyUpTo
<1>11. QED
  BY <1>0, <1>1, <1>2, <1>6, <1>10, SameInputs DEF RxInv

LEMMA StartRx ==
  ASSUME ModeInv, RxInv, UNCHANGED given, Start
  PROVE  RxInv'
<1>0. /\ pc = "initRx" /\ pc' = "started" /\ idx = MaxLcores
      /\ UNCHANGED <<rxQueueList, nbRxq, rxReady>>
      /\ Placed(Len(params)) /\ LcoresChecked /\ PortsChecked /\ Counted(MaxPorts) /\ ReadyUpTo(MaxLcores)
  BY DEF Start, ports, RxInv
<1>1. Placed(Len(params))' /\ LcoresChecked' /\ PortsChecked' /\ Active' = Active /\ enLcores' = enLcores
  BY <1>0, ListsKept, SameInputs
<1>2. Counted(MaxPorts)'
  BY <1>0, <1>1, ListsKept DEF Counted
<1>3. ReadyUpTo(MaxLcores)'
  BY <1>0, <1>1 DEF ReadyUpTo
<1>4. QED
  BY <1>0, <1>1, <1>2, <1>3, SameInputs DEF RxInv

LEMMA RxStep ==
  ASSUME ModeInv, RxInv, UNCHANGED given, PollStep \/ EventStep \/ ServStep \/ LinkStep
  PROVE  RxInv'
<1>1. CASE PollStep
  BY <1>1, CheckLcoreParamsRx, InitLcoreRxQueueRx, CheckPortConfigRx, InitPortRx, InitPortsEndRx,
     InitRxQueuesRx, StartRx DEF PollStep, PollSetup
<1>2. CASE EventStep
  <2>1. UNCHANGED <<rxQueueList, nbRxq, rxReady>>
    BY <1>2 DEF EventStep, EventSetup, CapabilitySetup, EthPortSetup, EventDeviceSetup,
                EventQueueSetup, EventPortSetup, RxAdapterSetup, TxAdapterSetup, ports
  <2>2. pc' \notin PollPc
    <3>1. pc \in EventPc /\ eventMode
      BY <1>2 DEF EventStep, EventSetup, CapabilitySetup, EthPortSetup, EventDeviceSetup, EventPc,
                  EventQueueSetup, EventPortSetup, RxAdapterSetup, TxAdapterSetup,
                  ModeInv, ControlOK, PollPc, LinkPc
    <3>2. eventMode' /\ ModeInv'
      BY <1>2, <3>1, SameInputs, ModeStep
    <3>3. QED
      BY <3>2 DEF ModeInv, ControlOK, PollPc, EventPc, LinkPc
  <2>3. QED
    BY <2>1, <2>2, RxFrame DEF PollPc
<1>3. CASE ServStep \/ LinkStep
  <2>1. /\ UNCHANGED <<rxQueueList, nbRxq, rxReady>>
        /\ pc' \in {"services", "exitCaps", "exitPtype", "links", "linkPort", "linkRoundEnd", "launched"}
    BY <1>3 DEF ServStep, ServicesBegin, ServiceRequest, ServicesEnd, setup, ports,
                LinkStep, PtypeCheck, Signal, LinkRound, LinkPort, LinkRoundEnd
  <2>2. QED
    BY <2>1, RxFrame
<1>4. QED
  BY <1>1, <1>2, <1>3

\* The triples of a port have the queues 0, 1, ... in turn.
LEMMA QueuesOfPort ==
  ASSUME ModeInv, NEW p, InSequence(p)
  PROVE  /\ \A j \in ParamsOf(p) : /\ params[j].queue = Rank(ParamsOf(p), j)
                                   /\ params[j].queue \in 0 .. Cardinality(ParamsOf(p)) - 1
         /\ \A q \in 0 .. Cardinality(ParamsOf(p)) - 1 : \E j \in ParamsOf(p) : params[j].queue = q
         /\ \A i, j \in ParamsOf(p) : params[i].queue = params[j].queue => i = j
<1> DEFINE S == ParamsOf(p)
<1>1. IsFiniteSet(S) /\ S \in SUBSET Int
  BY ParamsFinite
<1>2. \A j \in S : params[j].queue = Rank(S, j)
  BY DEF InSequence, Rank
<1> HIDE DEF S
<1>3. \A j \in S : params[j].queue \in 0 .. Cardinality(S) - 1
  BY <1>1, <1>2, RankLess
<1>4. \A q \in 0 .. Cardinality(S) - 1 : \E j \in S : params[j].queue = q
  BY <1>1, <1>2, RanksAll
<1>5. \A i, j \in S : params[i].queue = params[j].queue => i = j
  BY <1>1, <1>2, RankApart
<1>6. QED
  BY <1>2, <1>3, <1>4, <1>5 DEF S

Places == UNION {{l} \X DOMAIN rxQueueList[l] : l \in LcoreId}
At(s)  == <<rxQueueList[s[1]][s[2]].port, rxQueueList[s[1]][s[2]].queue>>
Queues == {x \in Active \X (0 .. MaxQueues) : x[2] < nbRxq[x[1]]}

LEMMA RxShared ==
  ASSUME ModeInv, RxInv
  PROVE  RxQueuesShared
<1> SUFFICES ASSUME pc = "started"
             PROVE  rxReady = Queues /\ \A x \in Queues : Cardinality({s \in Places : At(s) = x}) = 1
  BY DEF RxQueuesShared, Places, At, Queues
<1>1. /\ Placed(Len(params)) /\ LcoresChecked /\ PortsChecked /\ Counted(MaxPorts) /\ ReadyUpTo(MaxLcores)
      /\ rxQueueList \in [LcoreId -> Seq(RxQueue)]
      /\ rxReady \subseteq (0 .. MaxPorts) \X (0 .. MaxQueues)
  BY DEF RxInv
<1>2. PICK pos \in [1 .. Len(params) -> Nat] : Placing(pos, Len(params))
  BY <1>1 DEF Placed
<1>3. \A p \in Active : /\ InSequence(p) /\ nbRxq[p] = Cardinality(ParamsOf(p))
                        /\ Cardinality(ParamsOf(p)) \in Nat
  <2>1. \A p \in Active : p < MaxPorts
    BY FiniteInputs, Bounds DEF PortId
  <2>2. QED
    BY <2>1, <1>1, ParamsFinite DEF Counted
<1>4. /\ \A l \in LcoreId : DOMAIN rxQueueList[l] = 1 .. Len(rxQueueList[l])
      /\ \A l \in enLcores : l \in LcoreId /\ l < MaxLcores
  BY <1>1, Bounds DEF ModeInv, GivenOK, LcoreId
\* The triple at a place.
<1>5. ASSUME NEW l \in LcoreId, NEW k \in 1 .. Len(rxQueueList[l])
      PROVE  \E j \in 1 .. Len(params) :
               /\ params[j].lcore = l /\ pos[j] = k /\ l \in enLcores
               /\ j \in ParamsOf(params[j].port) /\ params[j].port \in Active
               /\ At(<<l, k>>) = <<params[j].port, params[j].queue>>
  <2>1. PICK j \in 1 .. Len(params) : params[j].lcore = l /\ pos[j] = k
    BY <1>2 DEF Placing
  <2>2. rxQueueList[l][k] = [port |-> params[j].port, queue |-> params[j].queue]
    BY <2>1, <1>2 DEF Placing
  <2>3. j \in ParamsOf(params[j].port)
    BY ParamsOK DEF ParamsOf
  <2>4. QED
    BY <2>1, <2>2, <2>3, <1>1 DEF At, LcoresChecked, PortsChecked
\* The place of a queue.
<1>6. ASSUME NEW x \in Queues
      PROVE  \E j \in 1 .. Len(params) :
               /\ params[j].lcore \in enLcores
               /\ pos[j] \in 1 .. Len(rxQueueList[params[j].lcore])
               /\ At(<<params[j].lcore, pos[j]>>) = x
               /\ j \in ParamsOf(x[1]) /\ params[j].queue = x[2]
  <2>1. x[1] \in Active /\ x[2] \in 0 .. nbRxq[x[1]] - 1 /\ x = <<x[1], x[2]>>
    BY <1>3 DEF Queues
  <2>2. PICK j \in ParamsOf(x[1]) : params[j].queue = x[2]
    BY <2>1, <1>3, QueuesOfPort
  <2>3. j \in 1 .. Len(params) /\ params[j].port = x[1]
    BY ParamsOK DEF ParamsOf
  <2>4. /\ pos[j] \in 1 .. Len(rxQueueList[params[j].lcore])
        /\ rxQueueList[params[j].lcore][pos[j]] = [port |-> params[j].port, queue |-> params[j].queue]
    BY <2>3, <1>2 DEF Placing
  <2>5. At(<<params[j].lcore, pos[j]>>) = x
    BY <2>1, <2>2, <2>3, <2>4 DEF At
  <2>6. QED
    BY <2>2, <2>3, <2>4, <2>5, <1>1 DEF LcoresChecked
<1>7. rxReady = Queues
  <2>1. ASSUME NEW x \in rxReady PROVE x \in Queues
    <3>1. PICK l \in enLcores, k \in Nat : k \in 1 .. Len(rxQueueList[l]) /\ x = At(<<l, k>>)
      <4>1. PICK l \in enLcores : \E k \in 1 .. Len(rxQueueList[l]) :
                x = <<rxQueueList[l][k].port, rxQueueList[l][k].queue>>
        BY <1>1 DEF ReadyUpTo
      <4>2. PICK k \in 1 .. Len(rxQueueList[l]) : x = <<rxQueueList[l][k].port, rxQueueList[l][k].queue>>
        BY <4>1
      <4>3. QED
        BY <4>2 DEF At
    <3>2. PICK j \in 1 .. Len(params) : /\ params[j].port \in Active /\ j \in ParamsOf(params[j].port)
                                        /\ x = <<params[j].port, params[j].queue>>
      BY <3>1, <1>4, <1>5
    <3>3. params[j].queue < nbRxq[params[j].port]
      BY <3>2, <1>3, QueuesOfPort
    <3>4. QED
      BY <3>2, <3>3, ParamsOK DEF Queues
  <2>2. ASSUME NEW x \in Queues PROVE x \in rxReady
    <3>1. PICK j \in 1 .. Len(params) :
               /\ params[j].lcore \in enLcores
               /\ pos[j] \in 1 .. Len(rxQueueList[params[j].lcore])
               /\ At(<<params[j].lcore, pos[j]>>) = x
      BY <1>6
    <3>2. QED
      BY <3>1, <1>1, <1>4 DEF ReadyUpTo, At
  <2>3. QED
    BY <2>1, <2>2
<1>8. ASSUME NEW x \in Queues PROVE Cardinality({s \in Places : At(s) = x}) = 1
  <2>1. PICK j \in 1 .. Len(params) :
               /\ params[j].lcore \in enLcores
               /\ pos[j] \in 1 .. Len(rxQueueList[params[j].lcore])
               /\ At(<<params[j].lcore, pos[j]>>) = x
               /\ j \in ParamsOf(x[1]) /\ params[j].queue = x[2]
    BY <1>6
  <2> DEFINE s0 == <<params[j].lcore, pos[j]>>
  <2>2. s0 \in Places
    BY <2>1, <1>4 DEF Places
  <2>3. ASSUME NEW s \in Places, At(s) = x PROVE s = s0
    <3>1. PICK l \in LcoreId : s \in {l} \X (1 .. Len(rxQueueList[l]))
      BY <1>4 DEF Places
    <3>2. PICK k \in 1 .. Len(rxQueueList[l]) : s = <<l, k>>
      BY <3>1
    <3>3. PICK i \in 1 .. Len(params) :
               /\ params[i].lcore = l /\ pos[i] = k
               /\ i \in ParamsOf(params[i].port)
               /\ At(<<l, k>>) = <<params[i].port, params[i].queue>>
      BY <1>5
    <3>4. x = <<params[i].port, params[i].queue>>
      BY <3>2, <3>3, <2>3
    <3>5. i \in ParamsOf(x[1]) /\ params[i].queue = params[j].queue /\ x[1] \in Active
      BY <3>3, <3>4, <2>1 DEF Queues
    <3>6. i = j
      BY <3>5, <2>1, <1>3, QueuesOfPort
    <3>7. QED
      BY <3>2, <3>3, <3>6
  <2>4. {s \in Places : At(s) = x} = {s0}
    BY <2>1, <2>2, <2>3
  <2>5. QED
    BY <2>4, FS_Singleton
<1>9. QED
  BY <1>7, <1>8

LEMMA MemoryIsReady ==
  ASSUME ModeInv, MemInv, RxInv
  PROVE  MemoryReady
<1> SUFFICES ASSUME pc \in {"started", "eventStarted"}
             PROVE  /\ \A l \in enLcores : \A k \in DOMAIN rxQueueList[l] :
                         pool[PoolIndex(rxQueueList[l][k].port)][SocketOf[l]] > 0
                    /\ Active # {} => TablesReady
  BY DEF MemoryReady
<1>1. \A p \in Active : MemoryOf(p)
  BY DEF MemInv
<1>2. ASSUME NEW l \in enLcores, NEW k \in DOMAIN rxQueueList[l]
      PROVE  pool[PoolIndex(rxQueueList[l][k].port)][SocketOf[l]] > 0
  <2>1. l \in LcoreId /\ SocketOf[l] \in UsedSockets
    BY UsedSocketsOK
  <2>2. k \in 1 .. Len(rxQueueList[l])
    BY <2>1 DEF RxInv
  <2>3. pc = "started"
    <3>1. CASE pc = "eventStarted"
      <4>1. eventMode
        BY <3>1 DEF ModeInv, ControlOK, PollPc, LinkPc
      <4>2. rxQueueList[l] = <<>>
        BY <4>1, <2>1 DEF RxInv
      <4>3. QED
        BY <4>2, <2>2
    <3>2. QED
      BY <3>1
  <2>4. Placed(Len(params)) /\ PortsChecked
    BY <2>3 DEF RxInv
  <2>5. PICK pos \in [1 .. Len(params) -> Nat] : Placing(pos, Len(params))
    BY <2>4 DEF Placed
  <2>6. PICK j \in 1 .. Len(params) : params[j].lcore = l /\ pos[j] = k
    BY <2>1, <2>2, <2>5 DEF Placing
  <2>7. rxQueueList[l][k].port = params[j].port
    <3>1. rxQueueList[params[j].lcore][pos[j]] = [port |-> params[j].port, queue |-> params[j].queue]
      BY <2>5 DEF Placing
    <3>2. rxQueueList[l][k] = [port |-> params[j].port, queue |-> params[j].queue]
      BY <3>1, <2>6
    <3>3. QED
      BY <3>2
  <2>8. QED
    BY <2>1, <2>4, <2>7, <1>1 DEF PortsChecked, MemoryOf
<1>3. QED
  BY <1>1, <1>2 DEF MemoryOf

LEMMA TxExclusive ==
  ASSUME ModeInv, TxInv
  PROVE  TxQueueExclusive
<1> SUFFICES ASSUME pc = "started"
             PROVE  /\ \A p \in Active : \A l, m \in enLcores :
                         /\ txQueueId[l][p] \in 0 .. NLcores - 1
                         /\ l # m => txQueueId[l][p] # txQueueId[m][p]
                    /\ \A l \in enLcores :
                         /\ {txPortId[l][k] : k \in 1 .. Len(txPortId[l])} = Active
                         /\ Len(txPortId[l]) = Cardinality(Active)
  BY DEF TxQueueExclusive
<1>1. TxUpTo(MaxPorts) /\ Active \subseteq PortId /\ \A p \in Active : p < MaxPorts
  BY FiniteInputs, Bounds DEF TxInv, PortId
<1>2. ASSUME NEW p \in Active, NEW l \in enLcores, NEW m \in enLcores
      PROVE  /\ txQueueId[l][p] \in 0 .. NLcores - 1
             /\ l # m => txQueueId[l][p] # txQueueId[m][p]
  <2>1. txQueueId[l][p] = Rank(enLcores, l) /\ txQueueId[m][p] = Rank(enLcores, m)
    BY <1>1 DEF TxUpTo
  <2>2. Rank(enLcores, l) \in 0 .. NLcores - 1
    BY QueueIdOK
  <2>3. Rank(enLcores, l) = Rank(enLcores, m) => l = m
    BY FiniteInputs, RankApart
  <2>4. QED
    BY <2>1, <2>2, <2>3
<1>3. ASSUME NEW l \in enLcores
      PROVE  /\ {txPortId[l][k] : k \in 1 .. Len(txPortId[l])} = Active
             /\ Len(txPortId[l]) = Cardinality(Active)
  <2>1. txPortId[l] \in Seq(PortId)
    BY DEF TxInv, ModeInv, GivenOK
  <2>2. \A k \in 1 .. Len(txPortId[l]) : txPortId[l][k] \in PortId
    BY <2>1
  <2>3. \A p \in PortId : (\E k \in 1 .. Len(txPortId[l]) : txPortId[l][k] = p) <=> p \in Active
    BY <1>1 DEF TxUpTo
  <2>4. {txPortId[l][k] : k \in 1 .. Len(txPortId[l])} = Active
    BY <2>2, <2>3, <1>1
  <2>5. Len(txPortId[l]) = Cardinality(Active)
    BY <1>1, RankTop DEF TxUpTo, NActive
  <2>6. QED
    BY <2>4, <2>5
<1>4. QED
  BY <1>2, <1>3

-----------------------------------------------------------------------------
(* Event queues.                                                           *)

\* The ports below n that find a queue feed the one of their rank.
Feeds(n) ==
  \A p \in Active : p < n /\ Rank(Active, p) < nbQueues => feeds[p] = Rank(Active, p)

Ids(n) == 0 .. n - 1

EventInv ==
  /\ EventTypeOK
  /\ ~eventMode => ~generic
  /\ pc \in {"ethPorts", "eventQueues", "eventPorts", "rxAdapters", "eventStarted"} =>
       (generic <=> \E p \in valid : p \notin txInternal)
  /\ pc \in {"capability", "ethPorts", "eventQueues", "eventPorts", "rxAdapters"} => txLinks = {}
  /\ pc \in {"eventQueues", "eventPorts", "rxAdapters", "eventStarted"} =>
       nbQueues = Least(Wanted.queues, maxEventQueues)
  /\ pc \in {"eventPorts", "rxAdapters", "eventStarted"} => nbQueues > 0 /\ eventQId = QueueIds
  /\ pc = "eventQueues" => nbQueues > 0
  /\ pc \in {"rxAdapters", "eventStarted"} =>
       \A e \in DOMAIN links : links[e] = Ids(IF generic THEN nbQueues - 1 ELSE nbQueues)
  /\ pc = "rxAdapters" => Feeds(idx)
  /\ pc = "eventStarted" => Feeds(MaxPorts) /\ txLinks = IF generic THEN {nbQueues - 1} ELSE {}

LEMMA WantedOK ==
  ASSUME ModeInv
  PROVE  /\ Wanted.queues = IF generic THEN NActive + 1 ELSE NActive
         /\ Wanted.ports \in Nat
         /\ Least(Wanted.queues, maxEventQueues) \in 0 .. NActive + 1
         /\ Least(Wanted.ports, maxEventPorts) \in Nat
<1>1. NActive \in Nat /\ NLcores \in Nat /\ nbService \in Nat /\ maxEventQueues \in Nat /\ maxEventPorts \in Nat
  BY FiniteInputs DEF ModeInv, GivenOK
<1>2. Wanted.queues = IF generic THEN NActive + 1 ELSE NActive
  BY DEF Wanted, DeviceGeneric, DeviceInternal
<1>3. Wanted.ports = IF generic THEN LcoreCount - nbService ELSE LcoreCount
  BY DEF Wanted, DeviceGeneric, DeviceInternal
<1>4. Wanted.queues \in 0 .. NActive + 1
  BY <1>1, <1>2
<1>5. Wanted.ports \in Nat
  <2>1. LcoreCount \in Nat /\ LcoreCount - nbService \in Nat
    BY <1>1 DEF LcoreCount
  <2>2. QED
    BY <2>1, <1>3
<1>6. QED
  BY <1>1, <1>2, <1>4, <1>5 DEF Least

\* Steps that leave the event device alone.
LEMMA EventFrame ==
  ASSUME ModeInv, EventInv, UNCHANGED given, UNCHANGED eventVars,
         pc' \notin {"capability", "ethPorts", "eventQueues", "eventPorts", "rxAdapters", "eventStarted"}
  PROVE  EventInv'
<1>1. /\ UNCHANGED <<generic, nbQueues, nbEvPorts, eventQId, links, txLinks, rxAdapter, feeds>>
      /\ NActive' = NActive /\ eventMode' = eventMode
  BY SameInputs DEF eventVars, eventDevice, adapters
<1>2. EventTypeOK'
  BY <1>1 DEF EventInv, EventTypeOK
<1>3. QED
  BY <1>1, <1>2 DEF EventInv

\* The rest of the invariant for the steps that keep what was set up already.
LEMMA SameEvent ==
  ASSUME UNCHANGED given
  PROVE  /\ \A p : (Rank(Active, p))' = Rank(Active, p)
         /\ UNCHANGED generic => Wanted' = Wanted
         /\ UNCHANGED nbQueues => QueueIds' = QueueIds
         /\ (\E p \in valid : p \notin txInternal)' <=> (\E p \in valid : p \notin txInternal)
<1>1. Active' = Active /\ NActive' = NActive /\ NLcores' = NLcores /\ nbService' = nbService
      /\ valid' = valid /\ txInternal' = txInternal
  BY SameInputs
<1>2. \A p : (Rank(Active, p))' = Rank(Active, p)
  BY <1>1 DEF Rank
<1>3. UNCHANGED generic => Wanted' = Wanted
  BY <1>1 DEF Wanted, DeviceGeneric, DeviceInternal, LcoreCount
<1>4. UNCHANGED nbQueues => QueueIds' = QueueIds
  BY DEF QueueIds
<1>5. QED
  BY <1>1, <1>2, <1>3, <1>4

LEMMA CapabilityEvent ==
  ASSUME ModeInv, EventInv, UNCHANGED given, CapabilitySetup
  PROVE  EventInv'
<1>0. /\ pc = "capability" /\ pc' = "ethPorts"
      /\ generic' = (\E p \in valid : p \notin txInternal)
      /\ UNCHANGED <<nbQueues, nbEvPorts, eventQId, links, txLinks, rxAdapter, feeds>>
      /\ EventTypeOK /\ txLinks = {} /\ eventMode
  BY DEF CapabilitySetup, eventDevice, adapters, EventInv, ModeInv, ControlOK, PollPc, LinkPc
<1>1. generic' \in BOOLEAN
  BY <1>0
<1>2. EventTypeOK'
  BY <1>0, <1>1, SameInputs DEF EventTypeOK
<1>3. generic' <=> (\E p \in valid' : p \notin txInternal')
  BY <1>0, SameInputs
<1>4. eventMode'
  BY <1>0, SameInputs
<1>5. QED
  BY <1>0, <1>2, <1>3, <1>4 DEF EventInv

LEMMA EthPortEvent ==
  ASSUME ModeInv, EventInv, UNCHANGED given, EthPortSetup
  PROVE  EventInv'
<1>0. /\ pc = "ethPorts" /\ pc' \in {"ethPorts", "exitRxPool"}
      /\ UNCHANGED <<generic, nbQueues, nbEvPorts, eventQId, links, txLinks, rxAdapter, feeds>>
      /\ EventTypeOK /\ txLinks = {} /\ (generic <=> \E p \in valid : p \notin txInternal)
      /\ (~eventMode => ~generic)
  BY DEF EthPortSetup, eventVars, eventDevice, adapters, EventInv
<1>2. EventTypeOK'
  BY <1>0, SameInputs DEF EventTypeOK
<1>3. (generic' <=> \E p \in valid' : p \notin txInternal') /\ eventMode' = eventMode
  BY <1>0, SameInputs
<1>4. QED
  BY <1>0, <1>2, <1>3 DEF EventInv

LEMMA EventDeviceEvent ==
  ASSUME ModeInv, EventInv, UNCHANGED given, EventDeviceSetup
  PROVE  EventInv'
<1>0. /\ pc = "ethPorts" /\ pc' = (IF nbQueues' = 0 THEN "exitDevice" ELSE "eventQueues")
      /\ nbQueues' = Least(Wanted.queues, maxEventQueues)
      /\ nbEvPorts' = Least(Wanted.ports, maxEventPorts)
      /\ UNCHANGED <<generic, eventQId, links, txLinks, rxAdapter, feeds>>
      /\ EventTypeOK /\ txLinks = {} /\ (generic <=> \E p \in valid : p \notin txInternal)
      /\ (~eventMode => ~generic)
  BY DEF EventDeviceSetup, adapters, EventInv
<1>1. nbQueues' \in 0 .. NActive + 1 /\ nbEvPorts' \in Nat
  BY <1>0, WantedOK
<1>2. EventTypeOK'
  BY <1>0, <1>1, SameInputs DEF EventTypeOK
<1>3. /\ generic' <=> \E p \in valid' : p \notin txInternal'
      /\ eventMode' = eventMode /\ maxEventQueues' = maxEventQueues /\ NActive \in Nat
  BY <1>0, SameInputs, FiniteInputs
<1>4. Wanted' = Wanted
  BY <1>0, SameEvent
<1>5. pc' = "eventQueues" => nbQueues' > 0
  BY <1>0, <1>1, <1>3
<1>6. QED
  BY <1>0, <1>2, <1>3, <1>4, <1>5 DEF EventInv

LEMMA EventQueueEvent ==
  ASSUME ModeInv, EventInv, UNCHANGED given, EventQueueSetup
  PROVE  EventInv'
<1>0. /\ pc = "eventQueues" /\ pc' = "eventPorts" /\ eventQId' = QueueIds
      /\ UNCHANGED <<generic, nbQueues, nbEvPorts, links, txLinks, rxAdapter, feeds>>
      /\ EventTypeOK /\ txLinks = {} /\ (generic <=> \E p \in valid : p \notin txInternal)
      /\ (~eventMode => ~generic) /\ nbQueues > 0 /\ nbQueues = Least(Wanted.queues, maxEventQueues)
  BY DEF EventQueueSetup, adapters, EventInv
<1>1. QueueIds \in [DOMAIN QueueIds -> 0 .. NActive]
  <2>1. nbQueues \in 0 .. NActive + 1 /\ NActive \in Nat
    BY <1>0, FiniteInputs DEF EventTypeOK
  <2>2. \A q \in 0 .. nbQueues - 1 : q \in 0 .. NActive
    BY <2>1
  <2>3. QED
    BY <2>2 DEF QueueIds
<1>2. EventTypeOK'
  BY <1>0, <1>1, SameInputs DEF EventTypeOK
<1>3. /\ generic' <=> \E p \in valid' : p \notin txInternal'
      /\ eventMode' = eventMode /\ maxEventQueues' = maxEventQueues
  BY <1>0, SameInputs
<1>4. Wanted' = Wanted /\ QueueIds' = QueueIds
  BY <1>0, SameEvent
<1>5. QED
  BY <1>0, <1>2, <1>3, <1>4 DEF EventInv

LEMMA LinkedOK ==
  ASSUME nbQueues \in Nat, eventQId = QueueIds
  PROVE  LinkedGeneric = Ids(nbQueues - 1) /\ LinkedInternal = Ids(nbQueues)
<1>1. \A q \in 0 .. nbQueues - 1 : eventQId[q] = q
  BY DEF QueueIds
<1>2. \A q \in 0 .. nbQueues - 2 : q \in 0 .. nbQueues - 1
  OBVIOUS
<1>3. LinkedGeneric = 0 .. nbQueues - 2
  BY <1>1, <1>2 DEF LinkedGeneric
<1>4. LinkedInternal = 0 .. nbQueues - 1
  BY <1>1 DEF LinkedInternal
<1>5. nbQueues - 1 - 1 = nbQueues - 2
  OBVIOUS
<1>6. QED
  BY <1>3, <1>4, <1>5 DEF Ids

LEMMA EventPortEvent ==
  ASSUME ModeInv, EventInv, UNCHANGED given, EventPortSetup
  PROVE  EventInv'
<1>0. /\ pc = "eventPorts" /\ pc' = "rxAdapters" /\ idx' = 0
      /\ links' = [e \in 0 .. nbEvPorts - 1 |-> IF generic THEN LinkedGeneric ELSE LinkedInternal]
      /\ UNCHANGED <<generic, nbQueues, nbEvPorts, eventQId, txLinks, rxAdapter, feeds>>
      /\ EventTypeOK /\ txLinks = {} /\ (generic <=> \E p \in valid : p \notin txInternal)
      /\ (~eventMode => ~generic) /\ nbQueues > 0 /\ nbQueues = Least(Wanted.queues, maxEventQueues)
      /\ eventQId = QueueIds
  BY DEF EventPortSetup, adapters, EventInv
<1>1. nbQueues \in 0 .. NActive + 1 /\ NActive \in Nat /\ nbQueues \in Nat
  BY <1>0, FiniteInputs DEF EventTypeOK
<1>2. LinkedGeneric = Ids(nbQueues - 1) /\ LinkedInternal = Ids(nbQueues)
  BY <1>0, <1>1, LinkedOK
<1>3. Ids(nbQueues - 1) \subseteq 0 .. NActive /\ Ids(nbQueues) \subseteq 0 .. NActive
  BY <1>1 DEF Ids
<1>4. links' \in [DOMAIN links' -> SUBSET (0 .. NActive)]
  BY <1>0, <1>2, <1>3
<1>5. \A e \in DOMAIN links' : links'[e] = IF generic THEN Ids(nbQueues - 1) ELSE Ids(nbQueues)
  BY <1>0, <1>2
<1>6. EventTypeOK'
  BY <1>0, <1>4, SameInputs DEF EventTypeOK
<1>7. /\ generic' <=> \E p \in valid' : p \notin txInternal'
      /\ eventMode' = eventMode /\ maxEventQueues' = maxEventQueues
  BY <1>0, SameInputs
<1>8. Wanted' = Wanted /\ QueueIds' = QueueIds
  BY <1>0, SameEvent
<1>9. Feeds(idx)'
  <2>1. \A p \in Active' : ~(p < idx')
    BY <1>0, SameInputs, FiniteInputs, Bounds
  <2>2. QED
    BY <2>1 DEF Feeds
<1>10. \A e \in DOMAIN links' : links'[e] = Ids(IF generic THEN nbQueues - 1 ELSE nbQueues)
  BY <1>5
<1>11. QED
  BY <1>0, <1>6, <1>7, <1>8, <1>9, <1>10 DEF EventInv, Ids

LEMMA RxAdapterEvent ==
  ASSUME ModeInv, EventInv, UNCHANGED given, RxAdapterSetup
  PROVE  EventInv'
<1>0. /\ pc = "rxAdapters" /\ pc' \in {"rxAdapters", "exitRxAdapter"}
      /\ idx' = idx + 1 /\ idx \in Nat /\ idx < MaxPorts
      /\ UNCHANGED <<generic, nbQueues, nbEvPorts, eventQId, links, txLinks>>
      /\ EventTypeOK /\ txLinks = {} /\ (generic <=> \E p \in valid : p \notin txInternal)
      /\ (~eventMode => ~generic) /\ nbQueues > 0 /\ nbQueues = Least(Wanted.queues, maxEventQueues)
      /\ eventQId = QueueIds /\ Feeds(idx)
      /\ \A e \in DOMAIN links : links[e] = Ids(IF generic THEN nbQueues - 1 ELSE nbQueues)
  <2>1. pc' \in {pc, "exitRxAdapter"}
    BY DEF RxAdapterSetup
  <2>2. QED
    BY <2>1 DEF RxAdapterSetup, eventDevice, EventInv, ModeInv, ControlOK
<1>1. nbQueues \in 0 .. NActive + 1 /\ NActive \in Nat /\ nbQueues \in Nat
      /\ rxAdapter \in [PortId -> -1 .. MaxPorts - 1] /\ feeds \in [PortId -> -1 .. NActive + 1]
      /\ Active \subseteq PortId /\ Active \subseteq Nat /\ NActive <= MaxPorts
  <2>1. IsFiniteSet(PortId) /\ Active \subseteq PortId
    BY FiniteInputs
  <2>2. Cardinality(PortId) = MaxPorts
    <3>1. Cardinality(0 .. MaxPorts - 1) = MaxPorts - 1 - 0 + 1
      BY Bounds, FS_Interval
    <3>2. QED
      BY <3>1, Bounds DEF PortId
  <2>3. NActive <= MaxPorts
    BY <2>1, <2>2, FS_Subset DEF NActive
  <2>4. QED
    BY <1>0, <2>1, <2>3, FiniteInputs, Bounds DEF EventTypeOK
<1>2. /\ generic' <=> \E p \in valid' : p \notin txInternal'
      /\ eventMode' = eventMode /\ maxEventQueues' = maxEventQueues
      /\ Wanted' = Wanted /\ QueueIds' = QueueIds /\ Active' = Active /\ NActive' = NActive
      /\ \A p : (Rank(Active, p))' = Rank(Active, p)
  <2>1. Wanted' = Wanted /\ QueueIds' = QueueIds /\ \A p : (Rank(Active, p))' = Rank(Active, p)
    BY <1>0, SameEvent
  <2>2. QED
    BY <1>0, <2>1, SameInputs
<1>3. /\ rxAdapter' \in [PortId -> -1 .. MaxPorts - 1]
      /\ feeds' \in [PortId -> -1 .. NActive + 1]
      /\ Feeds(idx)'
  <2>1. CASE idx \notin Active
    <3>1. UNCHANGED <<rxAdapter, feeds>>
      BY <2>1 DEF RxAdapterSetup, adapters
    <3>2. \A p \in Active : p < idx + 1 => p < idx
      BY <2>1, <1>0, <1>1
    <3>3. Feeds(idx)'
      BY <3>1, <3>2, <1>0, <1>2 DEF Feeds
    <3>4. QED
      BY <3>1, <3>3, <1>1
  <2>2. CASE idx \in Active
    <3> DEFINE r == Rank(Active, idx)
    <3>1. r \in 0 .. NActive - 1 /\ Cardinality(Before(idx)) = r /\ idx \in PortId
      <4>1. r \in 0 .. NActive - 1
        BY <2>2, FiniteInputs, RankLess DEF NActive
      <4>2. QED
        BY <4>1, <2>2, <1>1 DEF Before, Rank
    <3>2. rxAdapter' \in [PortId -> -1 .. MaxPorts - 1]
      <4> DEFINE v == IF generic THEN 0 ELSE r
      <4>1. rxAdapter' = [rxAdapter EXCEPT ![idx] = v]
        BY <2>2, <3>1 DEF RxAdapterSetup
      <4>2. v \in -1 .. MaxPorts - 1
        BY <3>1, <1>1, Bounds
      <4> HIDE DEF v
      <4>3. QED
        BY <4>1, <4>2, <1>1
    <3>3. PICK q \in IF QueueIndex(idx) < nbQueues THEN {eventQId[QueueIndex(idx)]} ELSE 0 .. nbQueues :
            feeds' = [feeds EXCEPT ![idx] = q]
      BY <2>2 DEF RxAdapterSetup
    <3>4. QueueIndex(idx) = IF r < nbQueues THEN r ELSE nbQueues
      BY <3>1 DEF QueueIndex, Least
    <3> HIDE DEF r
    <3>5. CASE r < nbQueues
      <4>1. q = r
        BY <3>1, <3>3, <3>4, <3>5, <1>0, <1>1 DEF QueueIds
      <4>2. QED
        <5>2. feeds' \in [PortId -> -1 .. NActive + 1]
          BY <3>1, <3>3, <4>1, <1>1
        <5>3. ASSUME NEW p \in Active, p < idx + 1, Rank(Active, p) < nbQueues
              PROVE  feeds'[p] = Rank(Active, p)
          <6>1. CASE p = idx
            BY <6>1, <3>1, <3>3, <4>1, <1>1 DEF r
          <6>2. CASE p # idx
            <7>1. p < idx /\ feeds'[p] = feeds[p]
              BY <6>2, <5>3, <3>1, <3>3, <1>0, <1>1
            <7>2. QED
              BY <7>1, <5>3, <1>0 DEF Feeds
          <6>3. QED
            BY <6>1, <6>2
        <5>4. Feeds(idx)'
          BY <5>3, <1>0, <1>2 DEF Feeds
        <5>5. QED
          BY <3>2, <5>2, <5>4
    <3>6. CASE ~(r < nbQueues)
      <4>1. q \in 0 .. nbQueues
        BY <3>1, <3>3, <3>4, <3>6, <1>1
      <4>3. feeds' \in [PortId -> -1 .. NActive + 1]
        <5>1. q \in -1 .. NActive + 1
          BY <4>1, <1>1
        <5>2. QED
          BY <5>1, <3>3, <1>1
      <4>4. ASSUME NEW p \in Active, p < idx + 1, Rank(Active, p) < nbQueues
            PROVE  feeds'[p] = Rank(Active, p)
        <5>1. p # idx
          BY <4>4, <3>6 DEF r
        <5>2. p < idx /\ feeds'[p] = feeds[p]
          BY <5>1, <4>4, <3>1, <3>3, <1>0, <1>1
        <5>3. QED
          BY <5>2, <4>4, <1>0 DEF Feeds
      <4>5. Feeds(idx)'
        BY <4>4, <1>0, <1>2 DEF Feeds
      <4>6. QED
        BY <3>2, <4>3, <4>5
    <3>7. QED
      BY <3>5, <3>6
  <2>3. QED
    BY <2>1, <2>2
<1>4. EventTypeOK'
  BY <1>0, <1>2, <1>3 DEF EventTypeOK
<1>5. QED
  BY <1>0, <1>2, <1>3, <1>4 DEF EventInv, Ids

LEMMA TxAdapterEvent ==
  ASSUME ModeInv, EventInv, UNCHANGED given, TxAdapterSetup
  PROVE  EventInv'
<1>0. /\ pc = "rxAdapters" /\ pc' = "eventStarted" /\ idx = MaxPorts
      /\ txLinks' = (IF generic THEN {eventQId[nbQueues - 1]} ELSE {})
      /\ UNCHANGED <<generic, nbQueues, nbEvPorts, eventQId, links, rxAdapter, feeds>>
      /\ EventTypeOK /\ (generic <=> \E p \in valid : p \notin txInternal)
      /\ (~eventMode => ~generic) /\ nbQueues > 0 /\ nbQueues = Least(Wanted.queues, maxEventQueues)
      /\ eventQId = QueueIds /\ Feeds(MaxPorts)
      /\ \A e \in DOMAIN links : links[e] = Ids(IF generic THEN nbQueues - 1 ELSE nbQueues)
  BY DEF TxAdapterSetup, adapters, EventInv
<1>1. nbQueues \in 0 .. NActive + 1 /\ NActive \in Nat
  BY <1>0, FiniteInputs DEF EventTypeOK
<1>2. txLinks' = (IF generic THEN {nbQueues - 1} ELSE {}) /\ nbQueues - 1 \in 0 .. NActive
  <2>1. nbQueues - 1 \in 0 .. nbQueues - 1 /\ nbQueues - 1 \in 0 .. NActive
    BY <1>0, <1>1
  <2>2. eventQId[nbQueues - 1] = nbQueues - 1
    BY <2>1, <1>0 DEF QueueIds
  <2>3. QED
    BY <2>1, <2>2, <1>0
<1>3. EventTypeOK'
  BY <1>0, <1>2, SameInputs DEF EventTypeOK
<1>4. /\ generic' <=> \E p \in valid' : p \notin txInternal'
      /\ eventMode' = eventMode /\ maxEventQueues' = maxEventQueues /\ Active' = Active
  BY <1>0, SameInputs
<1>5. Wanted' = Wanted /\ QueueIds' = QueueIds /\ \A p : (Rank(Active, p))' = Rank(Active, p)
  BY <1>0, SameEvent
<1>6. Feeds(MaxPorts)'
  BY <1>0, <1>4, <1>5 DEF Feeds
<1>7. QED
  BY <1>0, <1>2, <1>3, <1>4, <1>5, <1>6 DEF EventInv, Ids

LEMMA EventInvStep ==
  ASSUME ModeInv, EventInv, UNCHANGED given, PollStep \/ EventStep \/ ServStep \/ LinkStep
  PROVE  EventInv'
<1>1. CASE EventStep
  BY <1>1, CapabilityEvent, EthPortEvent, EventDeviceEvent, EventQueueEvent, EventPortEvent,
     RxAdapterEvent, TxAdapterEvent DEF EventStep, EventSetup
<1>2. CASE PollStep
  <2>1. UNCHANGED eventVars
    BY <1>2 DEF PollStep
  <2>2. pc' \in PollPc
    BY <1>2 DEF PollStep, PollSetup, CheckLcoreParams, InitLcoreRxQueue, CheckPortConfig, InitPort,
                InitPortsEnd, InitRxQueues, Start, PollPc
  <2>3. QED
    BY <2>1, <2>2, EventFrame DEF PollPc
<1>3. CASE ServStep \/ LinkStep
  <2>1. /\ UNCHANGED eventVars
        /\ pc' \in {"services", "exitCaps", "exitPtype", "links", "linkPort", "linkRoundEnd", "launched"}
    BY <1>3 DEF ServStep, ServicesBegin, ServiceRequest, ServicesEnd, setup,
                LinkStep, PtypeCheck, Signal, LinkRound, LinkPort, LinkRoundEnd
  <2>2. QED
    BY <2>1, EventFrame
<1>4. QED
  BY <1>1, <1>2, <1>3

LEMMA QueueOwned ==
  ASSUME ModeInv, EventInv
  PROVE  EventQueueOwned
<1> SUFFICES ASSUME pc = "eventStarted", maxEventQueues >= Wanted.queues
             PROVE  /\ \A p, q \in Active : p # q => feeds[p] # feeds[q]
                    /\ \A e \in DOMAIN links : links[e] = {feeds[p] : p \in Active}
                    /\ txLinks \cap {feeds[p] : p \in Active} = {}
                    /\ (txLinks # {}) = (\E p \in valid : p \notin txInternal)
  BY DEF EventQueueOwned
<1>0. /\ generic \in BOOLEAN /\ (generic <=> \E p \in valid : p \notin txInternal)
      /\ nbQueues = Least(Wanted.queues, maxEventQueues) /\ Feeds(MaxPorts)
      /\ \A e \in DOMAIN links : links[e] = Ids(IF generic THEN nbQueues - 1 ELSE nbQueues)
      /\ txLinks = (IF generic THEN {nbQueues - 1} ELSE {})
  BY DEF EventInv, EventTypeOK
<1>1. /\ NActive \in Nat /\ Active \subseteq PortId /\ IsFiniteSet(Active) /\ Active \in SUBSET Int
      /\ \A p \in Active : p < MaxPorts
  BY FiniteInputs, Bounds DEF PortId
<1>2. nbQueues = IF generic THEN NActive + 1 ELSE NActive
  <2>1. Wanted.queues = IF generic THEN NActive + 1 ELSE NActive
    BY WantedOK
  <2>2. maxEventQueues \in Nat
    BY DEF ModeInv, GivenOK
  <2>3. QED
    BY <2>1, <2>2, <1>0, <1>1 DEF Least
<1>3. \A p \in Active : feeds[p] = Rank(Active, p) /\ Rank(Active, p) \in 0 .. NActive - 1
  <2>1. \A p \in Active : Rank(Active, p) \in 0 .. NActive - 1
    BY <1>1, RankLess DEF NActive
  <2>2. QED
    BY <2>1, <1>0, <1>1, <1>2 DEF Feeds
<1>4. {feeds[p] : p \in Active} = 0 .. NActive - 1
  <2>1. \A q \in 0 .. NActive - 1 : \E p \in Active : Rank(Active, p) = q
    BY <1>1, RanksAll DEF NActive
  <2>2. QED
    BY <2>1, <1>3
<1>5. \A p, q \in Active : p # q => feeds[p] # feeds[q]
  BY <1>1, <1>3, RankApart
<1>6. \A e \in DOMAIN links : links[e] = 0 .. NActive - 1
  <2>1. (IF generic THEN nbQueues - 1 ELSE nbQueues) = NActive
    BY <1>1, <1>2
  <2>2. QED
    BY <2>1, <1>0 DEF Ids
<1>7. txLinks \cap (0 .. NActive - 1) = {}
  BY <1>0, <1>1, <1>2
<1>8. (txLinks # {}) = (\E p \in valid : p \notin txInternal)
  BY <1>0
<1>9. QED
  BY <1>4, <1>5, <1>6, <1>7, <1>8

-----------------------------------------------------------------------------
(* Services.                                                               *)

Balanced(m) ==
  \A c, o \in ServiceLcore : MappedTo(m, c) <= MappedTo(m, o) + 1

\* The service is there, and an lcore of its own runs it.
Served(s) == Exists(s) /\ nbService > 0 => \E c \in ServiceLcore : mapped[s] = {c} /\ c \in running

Asked(i) == <<Requests[i][1], 0>>

ServInv ==
  /\ mapped \in [Service -> SUBSET ServiceLcore] /\ running \subseteq ServiceLcore
  /\ serviceId \in Service \cup {NoService}
  /\ \A s \in Service : \A c, d \in mapped[s] : c = d
  /\ Balanced(mapped)
  /\ pc = "services" => idx <= Len(Requests) /\ \A i \in 1 .. idx : Served(Asked(i))
  /\ eventMode /\ pc \in LinkPc => \A i \in 1 .. Len(Requests) : Served(Asked(i))

LEMMA ServiceFinite == IsFiniteSet(Service)
<1>1. IsFiniteSet(0 .. MaxPorts - 1)
  BY Bounds, FS_Interval
<1>2. IsFiniteSet({"rx"} \cup {"tx"}) /\ {"rx"} \cup {"tx"} = {"rx", "tx"}
  BY FS_Singleton, FS_Union
<1>3. IsFiniteSet({"rx", "tx"} \X (0 .. MaxPorts - 1))
  BY <1>1, <1>2, FS_Product
<1>4. IsFiniteSet({<<"scheduler", 0>>})
  BY FS_Singleton
<1>5. QED
  BY <1>3, <1>4, FS_Union DEF Service

\* Only the lcores of service s change.
LEMMA MappedChange ==
  ASSUME NEW m \in [Service -> SUBSET ServiceLcore], NEW n \in [Service -> SUBSET ServiceLcore],
         NEW s \in Service, NEW o, \A x \in Service \ {s} : n[x] = m[x]
  PROVE  MappedTo(n, o) = MappedTo(m, o) - (IF o \in m[s] THEN 1 ELSE 0) + (IF o \in n[s] THEN 1 ELSE 0)
<1> DEFINE A == {x \in Service : o \in m[x]}
           B == {x \in Service : o \in n[x]}
<1>1. IsFiniteSet(A)
  BY ServiceFinite, FS_Subset
<1>2. Cardinality(A) \in Nat
  BY <1>1, FS_CardinalityType
<1>3. B = IF o \in n[s] THEN A \cup {s} ELSE A \ {s}
  OBVIOUS
<1>4. s \in A <=> o \in m[s]
  OBVIOUS
<1>5. Cardinality(A \cup {s}) = IF s \in A THEN Cardinality(A) ELSE Cardinality(A) + 1
  BY <1>1, FS_AddElement
<1>6. Cardinality(A \ {s}) = IF s \in A THEN Cardinality(A) - 1 ELSE Cardinality(A)
  BY <1>1, FS_RemoveElement
<1>7. MappedTo(m, o) = Cardinality(A) /\ MappedTo(n, o) = Cardinality(B)
  BY DEF MappedTo
<1> HIDE DEF A, B
<1>8. QED
  BY <1>2, <1>3, <1>4, <1>5, <1>6, <1>7

LEMMA MappedNat ==
  ASSUME NEW m, NEW o
  PROVE  MappedTo(m, o) \in Nat
<1>1. IsFiniteSet({s \in Service : o \in m[s]})
  BY ServiceFinite, FS_Subset
<1>2. QED
  BY <1>1, FS_CardinalityType DEF MappedTo

LEMMA LeastOfSet ==
  ASSUME NEW S \in SUBSET Nat, S # {}
  PROVE  \E x \in S : \A y \in S : x <= y
<1> DEFINE R == OpToRel(<, Nat)
<1>1. IsWellFoundedOn(R, Nat)
  BY NatLessThanWellFounded
<1>2. IsWellFoundedOn(R, S)
  BY <1>1, IsWellFoundedOnSubset
<1>3. PICK x \in S : \A y \in S : ~(<<y, x>> \in R)
  BY <1>2, WFMin
<1>4. \A y \in S : ~(y < x)
  BY <1>3 DEF OpToRel
<1>5. QED
  BY <1>4

\* There is an lcore with the least services.
LEMMA LeastLoadedOK ==
  ASSUME ModeInv, nbService > 0, NEW m \in [Service -> SUBSET ServiceLcore]
  PROVE  /\ LeastLoaded(m) \in ServiceLcore
         /\ \A o \in ServiceLcore : MappedTo(m, LeastLoaded(m)) <= MappedTo(m, o)
<1> DEFINE V == {MappedTo(m, c) : c \in ServiceLcore}
<1>0. nbService \in Nat /\ 0 \in ServiceLcore /\ ServiceLcore = 0 .. nbService - 1
  BY DEF ModeInv, GivenOK, ServiceLcore
<1>1. \A c \in ServiceLcore : MappedTo(m, c) \in Nat
  BY MappedNat
<1>2. PICK v \in V : \A y \in V : v <= y
  <2>1. V \in SUBSET Nat /\ V # {}
    BY <1>0, <1>1
  <2>2. QED
    BY <2>1, LeastOfSet
<1> DEFINE C == {c \in ServiceLcore : MappedTo(m, c) = v}
           W == {nbService - c : c \in C}
<1>3. PICK w \in W : \A y \in W : w <= y
  <2>1. C # {} /\ \A c \in C : nbService - c \in Nat
    BY <1>0, <1>2
  <2>2. W \in SUBSET Nat /\ W # {}
    BY <2>1
  <2>3. QED
    BY <2>2, LeastOfSet
<1>4. PICK c \in C : w = nbService - c
  BY <1>3
<1>5. \A d \in C : d <= c
  <2>1. \A d \in C : nbService - c <= nbService - d
    BY <1>3, <1>4
  <2>2. QED
    BY <2>1, <1>0
<1>6. \A o \in ServiceLcore : MappedTo(m, c) < MappedTo(m, o) \/ (MappedTo(m, c) = MappedTo(m, o) /\ o <= c)
  <2>1. ASSUME NEW o \in ServiceLcore
        PROVE  MappedTo(m, c) < MappedTo(m, o) \/ (MappedTo(m, c) = MappedTo(m, o) /\ o <= c)
    <3>1. v <= MappedTo(m, o) /\ MappedTo(m, c) = v
      BY <1>2, <1>4
    <3>2. CASE MappedTo(m, o) = v
      BY <3>1, <3>2, <1>5
    <3>3. CASE MappedTo(m, o) # v
      BY <3>1, <3>3, <1>1, <1>4
    <3>4. QED
      BY <3>2, <3>3
  <2>2. QED
    BY <2>1
<1>7. c \in ServiceLcore
  BY <1>4
<1>8. /\ LeastLoaded(m) \in ServiceLcore
      /\ \A o \in ServiceLcore : \/ MappedTo(m, LeastLoaded(m)) < MappedTo(m, o)
                                 \/ MappedTo(m, LeastLoaded(m)) = MappedTo(m, o) /\ o <= LeastLoaded(m)
  BY <1>6, <1>7 DEF LeastLoaded
<1>9. QED
  BY <1>1, <1>8

\* A service that moves to the lcore with the least services unbalances nothing, though it was
\* taken from another one first.
LEMMA EnableOK ==
  ASSUME ModeInv, ServInv, UNCHANGED given, NEW s \in Service \cup {NoService}, ServiceEnable(s)
  PROVE  /\ mapped' \in [Service -> SUBSET ServiceLcore] /\ running' \subseteq ServiceLcore
         /\ \A t \in Service : \A c, d \in mapped'[t] : c = d
         /\ Balanced(mapped)'
         /\ running \subseteq running'
         /\ \A t \in Service \ {s} : mapped'[t] = mapped[t]
         /\ \/ UNCHANGED mapped
            \/ s \in Service /\ \E c \in ServiceLcore : mapped'[s] = {c} /\ c \in running'
         /\ (s \in Service /\ Exists(s) /\ nbService > 0) =>
              \E c \in ServiceLcore : mapped'[s] = {c} /\ c \in running'
<1>0. /\ mapped \in [Service -> SUBSET ServiceLcore] /\ running \subseteq ServiceLcore
      /\ \A t \in Service : \A c, d \in mapped[t] : c = d
      /\ Balanced(mapped)
      /\ ServiceLcore' = ServiceLcore /\ nbService \in Nat /\ ServiceLcore = 0 .. nbService - 1
  BY SameInputs DEF ServInv, ModeInv, GivenOK, ServiceLcore
<1>1. NoService \notin Service
  BY DEF NoService, Service
<1>2. nbService > 0 => ServiceLcore # {}
  BY <1>0
<1>3. CASE ServiceLcore = {} \/ s = NoService \/ ~Exists(s)
  <2>1. UNCHANGED <<mapped, running>>
    BY <1>3 DEF ServiceEnable
  <2>2. Balanced(mapped)'
    BY <2>1, <1>0 DEF Balanced, MappedTo
  <2>3. ~(s \in Service /\ Exists(s) /\ nbService > 0)
    BY <1>1, <1>2, <1>3
  <2>4. QED
    BY <2>1, <2>2, <2>3, <1>0
<1>4. CASE ~(ServiceLcore = {} \/ s = NoService \/ ~Exists(s))
  <2> DEFINE m == [mapped EXCEPT ![s] = {}]
             c == LeastLoaded(m)
  <2>1. s \in Service /\ nbService > 0
    BY <1>0, <1>4
  <2>2. /\ mapped' = [m EXCEPT ![s] = m[s] \cup {c}] /\ running' = running \cup {c}
    BY <1>4 DEF ServiceEnable, Reset
  <2>3. m \in [Service -> SUBSET ServiceLcore] /\ m[s] = {}
    BY <1>0, <2>1
  <2>4. c \in ServiceLcore /\ \A o \in ServiceLcore : MappedTo(m, c) <= MappedTo(m, o)
    BY <2>1, <2>3, LeastLoadedOK
  <2>5. \A o \in ServiceLcore :
          /\ MappedTo(mapped, o) \in Nat
          /\ MappedTo(m, o) = MappedTo(mapped, o) - (IF o \in mapped[s] THEN 1 ELSE 0)
    <3>1. \A x \in Service \ {s} : m[x] = mapped[x]
      BY <1>0
    <3> HIDE DEF m
    <3>2. QED
      BY <3>1, <2>1, <2>3, <1>0, MappedChange, MappedNat
  <2> HIDE DEF m, c
  <2>6. mapped' = [m EXCEPT ![s] = {c}]
    BY <2>2, <2>3
  <2>7. ASSUME NEW o \in ServiceLcore
        PROVE  /\ MappedTo(m, o) \in Nat
               /\ MappedTo(mapped', o) = MappedTo(m, o) + (IF o = c THEN 1 ELSE 0)
    <3>1. \A x \in Service \ {s} : mapped'[x] = m[x]
      BY <2>3, <2>6
    <3>2. mapped' \in [Service -> SUBSET ServiceLcore] /\ mapped'[s] = {c}
      BY <2>1, <2>3, <2>4, <2>6
    <3>3. o \in mapped'[s] <=> o = c
      BY <3>2
    <3>4. MappedTo(mapped', o) = MappedTo(m, o) - (IF o \in m[s] THEN 1 ELSE 0)
                                   + (IF o \in mapped'[s] THEN 1 ELSE 0)
      BY <3>1, <3>2, <2>1, <2>3, MappedChange
    <3>5. MappedTo(m, o) \in Nat
      BY MappedNat
    <3>6. QED
      BY <3>3, <3>4, <3>5, <2>3
  <2>8. ASSUME NEW a \in ServiceLcore, NEW b \in ServiceLcore
        PROVE  MappedTo(mapped', a) <= MappedTo(mapped', b) + 1
    <3> DEFINE n(o) == MappedTo(mapped, o)
               r(o) == MappedTo(m, o)
    <3>1. /\ n(a) <= n(b) + 1 /\ n(a) <= n(c) + 1 /\ n(a) \in Nat /\ n(b) \in Nat /\ n(c) \in Nat
          /\ r(a) \in Nat /\ r(b) \in Nat /\ r(c) \in Nat
          /\ r(c) <= r(b) /\ r(c) <= r(a)
      BY <1>0, <2>4, <2>5, <2>7 DEF Balanced
    <3>2. /\ r(a) <= n(a) /\ n(c) <= r(c) + 1
          /\ b \notin mapped[s] => r(b) = n(b)
          /\ b \in mapped[s] => r(b) = n(b) - 1
          /\ c \notin mapped[s] => r(c) = n(c)
      BY <2>4, <2>5, <3>1
    <3>3. /\ MappedTo(mapped', a) = r(a) + (IF a = c THEN 1 ELSE 0)
          /\ MappedTo(mapped', b) = r(b) + (IF b = c THEN 1 ELSE 0)
      BY <2>7
    <3> HIDE DEF n, r
    <3>4. CASE a = c
      BY <3>1, <3>3, <3>4
    <3>5. CASE a # c /\ b = c
      BY <3>1, <3>2, <3>3, <3>5
    <3>6. CASE a # c /\ b # c
      <4>1. CASE b \notin mapped[s]
        BY <4>1, <3>1, <3>2, <3>3, <3>6
      <4>2. CASE b \in mapped[s]
        <5>1. c \notin mapped[s]
          BY <4>2, <3>6, <2>1, <1>0
        <5>2. QED
          BY <4>2, <5>1, <3>1, <3>2, <3>3, <3>6
      <4>3. QED
        BY <4>1, <4>2
    <3>7. QED
      BY <3>4, <3>5, <3>6
  <2>9. Balanced(mapped)'
    <3>1. \A a, b \in ServiceLcore' : (MappedTo(mapped, a))' <= (MappedTo(mapped, b))' + 1
      BY <2>8, <1>0 DEF MappedTo
    <3>2. QED
      BY <3>1 DEF Balanced
  <2>10. /\ mapped' \in [Service -> SUBSET ServiceLcore]
         /\ mapped'[s] = {c} /\ \A t \in Service \ {s} : mapped'[t] = mapped[t]
    <3>1. mapped' \in [Service -> SUBSET ServiceLcore] /\ mapped'[s] = {c}
      BY <2>1, <2>3, <2>4, <2>6
    <3>2. \A t \in Service \ {s} : m[t] = mapped[t]
      BY <1>0 DEF m
    <3>3. \A t \in Service \ {s} : mapped'[t] = m[t]
      BY <2>3, <2>6
    <3>4. QED
      BY <3>1, <3>2, <3>3
  <2>11. \A t \in Service : \A x, y \in mapped'[t] : x = y
    BY <2>10, <1>0
  <2>12. running' \subseteq ServiceLcore /\ running \subseteq running' /\ c \in running'
    BY <2>2, <2>4, <1>0
  <2>13. QED
    BY <2>1, <2>4, <2>9, <2>10, <2>11, <2>12
<1>5. QED
  BY <1>3, <1>4

LEMMA ServiceIds ==
  /\ \A s \in Service : s[1] \in {"scheduler", "rx", "tx"}
  /\ \A k \in {"scheduler", "rx", "tx"} : <<k, 0>> \in Service
  /\ NoService \notin Service
  BY Bounds DEF Service, NoService, PortId

LEMMA Concatenated ==
  ASSUME NEW K, NEW a \in Seq(K), NEW b \in Seq(K)
  PROVE  /\ a \o b \in Seq(K) /\ Len(a \o b) = Len(a) + Len(b)
         /\ \A i \in 1 .. Len(a) : (a \o b)[i] = a[i]
         /\ \A i \in 1 .. Len(b) : (a \o b)[Len(a) + i] = b[i]
  OBVIOUS

LEMMA RequestsOK ==
  ASSUME ModeInv
  PROVE  /\ Len(Requests) \in Nat
         /\ \A i \in 1 .. Len(Requests) : Requests[i][1] \in {"scheduler", "rx", "tx"} /\ Asked(i) \in Service
<1> DEFINE K == {"scheduler", "rx", "tx"} \X Int
           a == IF scheduler = "distributed" THEN <<>> ELSE <<<<"scheduler", 0>>>>
           b == [n \in 1 .. NbAdapters |-> <<"rx", n - 1>>]
           c == [n \in 1 .. NbAdapters |-> <<"tx", n - 1>>]
<1>1. NbAdapters \in Nat
  BY FiniteInputs DEF NbAdapters
<1>2. a \in Seq(K)
  <2>1. <<"scheduler", 0>> \in K
    OBVIOUS
  <2> HIDE DEF K
  <2>2. <<<<"scheduler", 0>>>> \in Seq(K) /\ <<>> \in Seq(K)
    BY <2>1
  <2>3. QED
    BY <2>2
<1>3. b \in Seq(K) /\ c \in Seq(K)
  <2>1. \A n \in 1 .. NbAdapters : <<"rx", n - 1>> \in K /\ <<"tx", n - 1>> \in K
    BY <1>1
  <2> HIDE DEF K
  <2>2. b \in [1 .. NbAdapters -> K] /\ c \in [1 .. NbAdapters -> K]
    BY <2>1
  <2>3. QED
    BY <1>1, <2>2
<1>4. Requests = a \o b \o c
  BY DEF Requests
<1> HIDE DEF a, b, c, K
<1>5. Requests \in Seq(K)
  BY <1>2, <1>3, <1>4
<1>6. \A i \in 1 .. Len(Requests) : Requests[i][1] \in {"scheduler", "rx", "tx"}
  <2>1. \A i \in 1 .. Len(Requests) : Requests[i] \in K
    BY <1>5
  <2>2. QED
    BY <2>1 DEF K
<1>7. \A i \in 1 .. Len(Requests) : <<Requests[i][1], 0>> \in Service
  BY <1>6, ServiceIds
<1>8. Len(Requests) \in Nat
  BY <1>5
<1>9. QED
  BY <1>6, <1>7, <1>8 DEF Asked

\* In the generic operations there is one adapter of each kind, so that nothing is left out.
LEMMA RequestsAll ==
  ASSUME ModeInv, generic,
         NEW s \in {<<"scheduler", 0>>, <<"rx", 0>>, <<"tx", 0>>}, Exists(s)
  PROVE  \E i \in 1 .. Len(Requests) : Asked(i) = s
<1> DEFINE a == IF scheduler = "distributed" THEN <<>> ELSE <<<<"scheduler", 0>>>>
           b == [n \in 1 .. NbAdapters |-> <<"rx", n - 1>>]
           c == [n \in 1 .. NbAdapters |-> <<"tx", n - 1>>]
<1>1. NbAdapters = 1
  BY DEF NbAdapters
<1> DEFINE K == {"scheduler", "rx", "tx"} \X {0}
<1>2. /\ b \in Seq(K) /\ Len(b) = 1 /\ b[1] = <<"rx", 0>>
      /\ c \in Seq(K) /\ Len(c) = 1 /\ c[1] = <<"tx", 0>>
  <2>1. b \in [1 .. 1 -> K] /\ c \in [1 .. 1 -> K] /\ b[1] = <<"rx", 0>> /\ c[1] = <<"tx", 0>>
    BY <1>1
  <2> HIDE DEF K, b, c
  <2>2. b \in Seq(K) /\ c \in Seq(K) /\ DOMAIN b = 1 .. 1 /\ DOMAIN c = 1 .. 1
    BY <2>1
  <2>3. Len(b) = 1 /\ Len(c) = 1
    BY <2>2
  <2>4. QED
    BY <2>1, <2>2, <2>3
<1>3. /\ a \in Seq(K) /\ Len(a) \in Nat
      /\ scheduler # "distributed" => Len(a) = 1 /\ a[1] = <<"scheduler", 0>>
  <2>1. <<"scheduler", 0>> \in K
    OBVIOUS
  <2> HIDE DEF K
  <2>2. <<>> \in Seq(K) /\ Len(<<>>) = 0
    OBVIOUS
  <2> DEFINE e == <<<<"scheduler", 0>>>>
  <2>3. e \in Seq(K) /\ Len(e) = 1 /\ e[1] = <<"scheduler", 0>>
    BY <2>1
  <2>4. a = IF scheduler = "distributed" THEN <<>> ELSE e
    OBVIOUS
  <2> HIDE DEF a, e
  <2>5. QED
    BY <2>2, <2>3, <2>4
<1>4. Requests = a \o b \o c
  BY DEF Requests
<1> HIDE DEF a, b, c, K
<1>5. /\ Len(Requests) = Len(a) + 2
      /\ \A i \in 1 .. Len(a) : Requests[i] = a[i]
      /\ Requests[Len(a) + 1] = <<"rx", 0>>
      /\ Requests[Len(a) + 2] = <<"tx", 0>>
  <2> DEFINE d == a \o b
  <2>1. /\ d \in Seq(K) /\ Len(d) = Len(a) + 1
        /\ \A i \in 1 .. Len(a) : d[i] = a[i]
        /\ d[Len(a) + 1] = <<"rx", 0>>
    <3>1. 1 \in 1 .. Len(b)
      BY <1>2
    <3>2. /\ d \in Seq(K) /\ Len(d) = Len(a) + Len(b)
          /\ \A i \in 1 .. Len(a) : d[i] = a[i]
          /\ \A i \in 1 .. Len(b) : d[Len(a) + i] = b[i]
      BY <1>2, <1>3, Concatenated, SMTT(30)
    <3>3. QED
      BY <3>1, <3>2, <1>2
  <2>2. Requests = d \o c
    BY <1>4
  <2> HIDE DEF d
  <2>3. /\ Len(Requests) = Len(d) + 1
        /\ \A i \in 1 .. Len(d) : Requests[i] = d[i]
        /\ Requests[Len(d) + 1] = <<"tx", 0>>
    <3>1. 1 \in 1 .. Len(c)
      BY <1>2
    <3>2. d \in Seq(K) /\ c \in Seq(K)
      BY <2>1, <1>2
    <3>3. /\ Len(d \o c) = Len(d) + Len(c)
          /\ \A i \in 1 .. Len(d) : (d \o c)[i] = d[i]
          /\ \A i \in 1 .. Len(c) : (d \o c)[Len(d) + i] = c[i]
      BY <3>2, Concatenated
    <3>4. QED
      BY <3>1, <3>3, <2>2, <1>2
  <2>4. Len(a) + 1 \in 1 .. Len(d) /\ Len(d) + 1 = Len(a) + 2 /\ \A i \in 1 .. Len(a) : i \in 1 .. Len(d)
    BY <2>1, <1>3
  <2>5. QED
    BY <2>1, <2>3, <2>4
<1>6. CASE s = <<"scheduler", 0>>
  <2>1. s[1] = "scheduler"
    BY <1>6
  <2>2. scheduler # "distributed"
    BY <2>1 DEF Exists
  <2>3. Len(a) = 1 /\ a[1] = <<"scheduler", 0>>
    BY <2>2, <1>3
  <2>5. 1 \in 1 .. Len(Requests) /\ Requests[1] = <<"scheduler", 0>>
    BY <2>3, <1>5
  <2>4. QED
    BY <2>5, <1>6 DEF Asked
<1>7. CASE s = <<"rx", 0>>
  <2>1. Len(a) + 1 \in 1 .. Len(Requests)
    BY <1>3, <1>5
  <2>2. QED
    BY <2>1, <1>5, <1>7 DEF Asked
<1>8. CASE s = <<"tx", 0>>
  <2>1. Len(a) + 2 \in 1 .. Len(Requests)
    BY <1>3, <1>5
  <2>2. QED
    BY <2>1, <1>5, <1>8 DEF Asked
<1>9. QED
  BY <1>6, <1>7, <1>8

\* Which services there are and are asked for is settled with the adapters.
LEMMA RequestsKept ==
  ASSUME UNCHANGED given, UNCHANGED <<generic, rxAdapter>>
  PROVE  /\ Requests' = Requests
         /\ \A i : Asked(i)' = Asked(i)
         /\ \A s \in Service : Exists(s)' <=> Exists(s)
<1>1. /\ scheduler' = scheduler /\ NActive' = NActive /\ Active' = Active
      /\ rxInternal' = rxInternal /\ txInternal' = txInternal
  BY SameInputs
<1>2. Requests' = Requests
  BY <1>1 DEF Requests, NbAdapters
<1>3. \A n : PortsOfAdapter(n)' = PortsOfAdapter(n)
  BY <1>1 DEF PortsOfAdapter
<1>4. ASSUME NEW s \in Service PROVE Exists(s)' <=> Exists(s)
  <2>1. CASE s[1] = "scheduler"
    BY <2>1, <1>1 DEF Exists
  <2>2. CASE s[1] = "rx"
    BY <2>2, <1>1, <1>3 DEF Exists
  <2>3. CASE s[1] = "tx"
    BY <2>3, <1>1, <1>3 DEF Exists
  <2>4. QED
    BY <2>1, <2>2, <2>3, ServiceIds
<1>5. QED
  BY <1>2, <1>4 DEF Asked

\* The part of the invariant that does not look at pc.
ServBase ==
  /\ mapped \in [Service -> SUBSET ServiceLcore] /\ running \subseteq ServiceLcore
  /\ serviceId \in Service \cup {NoService}
  /\ \A s \in Service : \A c, d \in mapped[s] : c = d
  /\ Balanced(mapped)

LEMMA ServBaseKept ==
  ASSUME ServBase, UNCHANGED given, UNCHANGED <<mapped, running>>, serviceId' \in Service \cup {NoService}
  PROVE  ServBase'
<1>1. ServiceLcore' = ServiceLcore
  BY SameInputs
<1>2. Balanced(mapped)'
  BY <1>1 DEF ServBase, Balanced, MappedTo
<1>3. QED
  BY <1>1, <1>2 DEF ServBase

LEMMA ServedKept ==
  ASSUME UNCHANGED given, UNCHANGED <<generic, rxAdapter, mapped, running>>
  PROVE  \A s \in Service : Served(s) => Served(s)'
<1>1. nbService' = nbService /\ ServiceLcore' = ServiceLcore
  BY SameInputs
<1>2. QED
  BY <1>1, RequestsKept DEF Served

\* Which is asked for in the i-th place stays.
LEMMA ServedAsked ==
  ASSUME UNCHANGED given, UNCHANGED <<generic, rxAdapter>>, NEW i, NEW t \in Service, t = Asked(i), Served(t)'
  PROVE  Served(Asked(i))'
<1>1. Asked(i)' = t
  BY RequestsKept
<1>2. QED
  BY <1>1 DEF Served, Exists, PortsOfAdapter

LEMMA ServiceRequestServ ==
  ASSUME ModeInv, ServInv, UNCHANGED given, ServiceRequest
  PROVE  ServInv'
<1>s. PICK s : s = Asked(idx + 1)
  OBVIOUS
<1> DEFINE id == IF Exists(s) THEN s ELSE serviceId
<1>0. /\ pc = "services" /\ idx \in Nat /\ idx + 1 \in 1 .. Len(Requests) /\ Len(Requests) \in Nat
      /\ UNCHANGED <<generic, rxAdapter>>
      /\ s \in Service /\ serviceId \in Service \cup {NoService}
      /\ ServBase /\ \A i \in 1 .. idx : Served(Asked(i))
  <2>1. pc = "services" /\ idx < Len(Requests) /\ UNCHANGED <<generic, rxAdapter>>
    BY DEF ServiceRequest, eventVars, adapters
  <2>2. idx \in Nat /\ Len(Requests) \in Nat
    BY RequestsOK DEF ModeInv, ControlOK
  <2>3. idx + 1 \in 1 .. Len(Requests)
    BY <2>1, <2>2
  <2>4. s \in Service
    BY <2>3, <1>s, RequestsOK
  <2>5. ServBase /\ serviceId \in Service \cup {NoService} /\ \A i \in 1 .. idx : Served(Asked(i))
    BY <2>1 DEF ServInv, ServBase
  <2>6. QED
    BY <2>1, <2>2, <2>3, <2>4, <2>5
<1>1. \/ pc' = "exitCaps" /\ UNCHANGED <<mapped, running, serviceId>>
      \/ /\ serviceId' = id /\ ServiceEnable(id)
         /\ idx' = idx + 1 /\ pc' = "services"
  BY <1>0, <1>s DEF ServiceRequest, services, Asked
<1>2. CASE pc' = "exitCaps" /\ UNCHANGED <<mapped, running, serviceId>>
  <2>1. ServBase'
    BY <1>2, <1>0, ServBaseKept
  <2>2. QED
    BY <2>1, <1>2 DEF ServBase, ServInv, LinkPc
<1>3. CASE serviceId' = id /\ ServiceEnable(id) /\ idx' = idx + 1 /\ pc' = "services"
  <2>0. PICK new : new = id
    OBVIOUS
  <2>1. new \in Service \cup {NoService} /\ ServiceEnable(new) /\ serviceId' = new
    BY <1>0, <1>3, <2>0
  <2>2. /\ mapped' \in [Service -> SUBSET ServiceLcore] /\ running' \subseteq ServiceLcore
        /\ \A t \in Service : \A c, d \in mapped'[t] : c = d
        /\ Balanced(mapped)'
        /\ running \subseteq running'
        /\ \A t \in Service \ {new} : mapped'[t] = mapped[t]
        /\ \/ UNCHANGED mapped
           \/ new \in Service /\ \E c \in ServiceLcore : mapped'[new] = {c} /\ c \in running'
        /\ (new \in Service /\ Exists(new) /\ nbService > 0) =>
              \E c \in ServiceLcore : mapped'[new] = {c} /\ c \in running'
    BY <1>0, <2>1, EnableOK
  <2>3. ServiceLcore' = ServiceLcore /\ nbService' = nbService
    BY SameInputs
  <2>4. ServBase'
    BY <2>1, <2>2, <2>3, <1>3 DEF ServBase
  <2>5. ASSUME NEW t \in Service, Served(t) PROVE Served(t)'
    <3>1. SUFFICES ASSUME Exists(t)', nbService' > 0
                   PROVE  \E c \in ServiceLcore : mapped'[t] = {c} /\ c \in running'
      BY <2>3 DEF Served
    <3>2. Exists(t) /\ nbService > 0
      BY <3>1, <2>3, <1>0, RequestsKept
    <3>3. PICK c \in ServiceLcore : mapped[t] = {c} /\ c \in running
      BY <3>2, <2>5 DEF Served
    <3>4. CASE mapped'[t] = mapped[t]
      BY <3>3, <3>4, <2>2
    <3>5. CASE mapped'[t] # mapped[t]
      BY <3>5, <2>2
    <3>6. QED
      BY <3>4, <3>5
  <2>6. Served(s)'
    <3>1. SUFFICES ASSUME Exists(s)', nbService' > 0
                   PROVE  \E c \in ServiceLcore : mapped'[s] = {c} /\ c \in running'
      BY <2>3 DEF Served
    <3>2. Exists(s) /\ nbService > 0
      BY <3>1, <2>3, <1>0, RequestsKept
    <3>3. new = s
      BY <3>2, <2>0
    <3>4. QED
      BY <3>2, <3>3, <2>2, <1>0
  <2>7. ASSUME NEW i \in 1 .. idx + 1 PROVE Served(Asked(i))'
    <3>1. PICK t : t = Asked(i)
      OBVIOUS
    <3>2. t \in Service
      BY <3>1, <1>0, RequestsOK
    <3>3. CASE i = idx + 1
      BY <3>1, <3>2, <3>3, <2>6, <1>s, <1>0, ServedAsked
    <3>4. CASE i \in 1 .. idx
      <4>1. Served(t)
        BY <3>1, <3>4, <1>0 DEF Served
      <4>2. QED
        BY <4>1, <3>1, <3>2, <2>5, <1>0, ServedAsked
    <3>5. QED
      BY <3>3, <3>4, <1>0
  <2>8. Len(Requests)' = Len(Requests) /\ idx' <= Len(Requests)
    BY <1>0, <1>3, RequestsKept
  <2>9. QED
    BY <1>3, <2>4, <2>7, <2>8 DEF ServBase, ServInv, LinkPc
<1>4. QED
  BY <1>1, <1>2, <1>3


LEMMA ServStepServ ==
  ASSUME ModeInv, ServInv, UNCHANGED given, PollStep \/ EventStep \/ ServStep \/ LinkStep
  PROVE  ServInv'
<1>0. ServBase
  BY DEF ServInv, ServBase
<1>1. CASE PollStep \/ EventStep
  <2>1. UNCHANGED <<mapped, running, serviceId>>
    BY <1>1 DEF PollStep, EventStep, services
  <2>2. pc' \notin LinkPc /\ pc' # "services"
    <3>1. CASE PollStep
      BY <3>1 DEF PollStep, PollSetup, CheckLcoreParams, InitLcoreRxQueue, CheckPortConfig, InitPort,
                  InitPortsEnd, InitRxQueues, Start, LinkPc
    <3>2. CASE EventStep
      <4>1. CASE RxAdapterSetup
        <5>1. pc = "rxAdapters" /\ pc' \in {pc, "exitRxAdapter"}
          BY <4>1 DEF RxAdapterSetup
        <5>2. QED
          BY <5>1 DEF LinkPc
      <4>2. CASE EthPortSetup
        <5>1. pc = "ethPorts" /\ pc' \in {pc, "exitRxPool"}
          BY <4>2 DEF EthPortSetup
        <5>2. QED
          BY <5>1 DEF LinkPc
      <4>3. QED
        BY <3>2, <4>1, <4>2 DEF EventStep, EventSetup, CapabilitySetup, EventDeviceSetup,
                                EventQueueSetup, EventPortSetup, TxAdapterSetup, LinkPc
    <3>3. QED
      BY <1>1, <3>1, <3>2
  <2>3. ServBase'
    BY <1>0, <2>1, ServBaseKept DEF ServInv
  <2>4. QED
    BY <2>2, <2>3 DEF ServBase, ServInv
<1>2. CASE ServicesBegin
  <2>1. pc' = "services" /\ idx' = 0 /\ UNCHANGED <<generic, rxAdapter, mapped, running>>
    BY <1>2 DEF ServicesBegin, eventVars, adapters
  <2>2. serviceId' \in Service \cup {NoService}
    BY <1>2 DEF ServicesBegin
  <2>3. ServBase'
    BY <1>0, <2>1, <2>2, ServBaseKept
  <2>4. idx' <= Len(Requests)'
    BY <2>1, RequestsOK, RequestsKept
  <2>5. 1 .. idx' = {}
    BY <2>1
  <2>6. QED
    BY <2>1, <2>3, <2>4, <2>5 DEF ServBase, ServInv, LinkPc
<1>3. CASE ServiceRequest
  BY <1>3, ServiceRequestServ
<1>4. CASE ServicesEnd \/ LinkStep
  <2>1. /\ UNCHANGED <<generic, rxAdapter, mapped, running>>
        /\ serviceId' = serviceId \/ serviceId' = NoService
        /\ pc' \in LinkPc \cup {"exitPtype"}
    BY <1>4 DEF ServicesEnd, setup, eventVars, adapters, services, LinkPc,
                LinkStep, PtypeCheck, Signal, LinkRound, LinkPort, LinkRoundEnd
  <2>2. ServBase'
    BY <1>0, <2>1, ServBaseKept DEF ServBase
  <2>3. eventMode /\ pc' \in LinkPc => \A i \in 1 .. Len(Requests) : Served(Asked(i))
    <3>1. CASE ServicesEnd
      BY <3>1 DEF ServicesEnd, ServInv
    <3>2. CASE LinkStep
      <4>1. pc \in LinkPc \cup {"started"}
        BY <3>2 DEF LinkStep, PtypeCheck, Signal, LinkRound, LinkPort, LinkRoundEnd, LinkPc
      <4>2. eventMode => pc \in LinkPc
        BY <4>1 DEF ModeInv, ControlOK, EventPc, LinkPc
      <4>3. QED
        BY <4>2 DEF ServInv
    <3>3. QED
      BY <1>4, <3>1, <3>2
  <2>4. ASSUME NEW i \in 1 .. Len(Requests), Served(Asked(i)) PROVE Served(Asked(i))'
    <3>1. PICK t : t = Asked(i)
      OBVIOUS
    <3>2. t \in Service /\ Served(t)
      BY <3>1, <2>4, RequestsOK DEF Served
    <3>3. QED
      BY <3>1, <3>2, <2>1, ServedKept, ServedAsked
  <2>5. Requests' = Requests /\ eventMode' = eventMode
    BY <2>1, RequestsKept, SameInputs
  <2>6. pc' # "services"
    BY <2>1 DEF LinkPc
  <2>7. QED
    BY <2>2, <2>3, <2>4, <2>5, <2>6 DEF ServBase, ServInv
<1>5. QED
  BY <1>1, <1>2, <1>3, <1>4 DEF ServStep

LEMMA Spread ==
  ASSUME ModeInv, EventInv, ServInv
  PROVE  ServicesSpread
<1> SUFFICES ASSUME pc = "launched", generic, nbService > 0
             PROVE  /\ \A s \in {<<"scheduler", 0>>, <<"rx", 0>>, <<"tx", 0>>} :
                         Exists(s) => Cardinality(mapped[s]) = 1 /\ mapped[s] \subseteq running
                    /\ \A c, o \in ServiceLcore : MappedTo(mapped, c) <= MappedTo(mapped, o) + 1
  BY DEF ServicesSpread
<1>1. eventMode
  BY DEF EventInv, ModeInv, GivenOK
<1>2. \A i \in 1 .. Len(Requests) : Served(Asked(i))
  BY <1>1 DEF ServInv, LinkPc
<1>3. ASSUME NEW s \in {<<"scheduler", 0>>, <<"rx", 0>>, <<"tx", 0>>}, Exists(s)
      PROVE  Cardinality(mapped[s]) = 1 /\ mapped[s] \subseteq running
  <2>1. PICK i \in 1 .. Len(Requests) : Asked(i) = s
    BY <1>3, RequestsAll
  <2>2. Served(s)
    BY <2>1, <1>2
  <2>3. PICK c \in ServiceLcore : mapped[s] = {c} /\ c \in running
    BY <2>2, <1>3 DEF Served
  <2>4. QED
    BY <2>3, FS_Singleton
<1>4. QED
  BY <1>3 DEF ServInv, Balanced

-----------------------------------------------------------------------------
(* The link check.                                                         *)

\* The ports below n have been printed, once.
PrintedUpTo(n) == \A p \in PortId : printed[p] = IF p \in Active /\ p < n THEN 1 ELSE 0

\* The round that prints is the last: print_flag is set at the end of a round, and the next
\* one runs through all ports, unless a signal ends it.
LinkInv ==
  /\ count \in 0 .. MaxCheckTime /\ port \in 0 .. MaxPorts
  /\ allUp \in BOOLEAN /\ printFlag \in BOOLEAN /\ forceQuit \in BOOLEAN
  /\ printed \in [PortId -> Nat]
  /\ ~printFlag => count < MaxCheckTime /\ PrintedUpTo(0)
  /\ printFlag => pc \in {"links", "linkPort", "launched"}
  /\ printFlag /\ pc = "links" => PrintedUpTo(0)
  /\ printFlag /\ pc = "linkPort" => PrintedUpTo(port)
  /\ pc = "launched" /\ ~forceQuit => PrintedUpTo(MaxPorts)

LEMMA LinkFrame ==
  ASSUME LinkInv, UNCHANGED given, UNCHANGED <<forceQuit, links_>>,
         pc \notin LinkPc, pc' # "launched"
  PROVE  LinkInv'
<1>1. /\ UNCHANGED <<forceQuit, count, port, allUp, printFlag, printed>>
      /\ ~printFlag /\ Active' = Active
  BY SameInputs DEF links_, LinkInv, LinkPc
<1>2. PrintedUpTo(0) => PrintedUpTo(0)'
  BY <1>1 DEF PrintedUpTo
<1>3. QED
  BY <1>1, <1>2 DEF LinkInv

LEMMA LinkPortLink ==
  ASSUME ModeInv, LinkInv, UNCHANGED given, LinkPort
  PROVE  LinkInv'
<1>0. /\ pc = "linkPort" /\ port \in 0 .. MaxPorts - 1 /\ MaxPorts \in Nat
      /\ port \in PortId
      /\ UNCHANGED <<forceQuit, count, printFlag>>
      /\ count \in 0 .. MaxCheckTime /\ allUp \in BOOLEAN /\ printFlag \in BOOLEAN /\ forceQuit \in BOOLEAN
      /\ printed \in [PortId -> Nat]
      /\ ~printFlag => count < MaxCheckTime /\ PrintedUpTo(0)
      /\ printFlag => PrintedUpTo(port)
      /\ Active' = Active
  BY SameInputs, Bounds DEF LinkPort, LinkInv, PortId
<1>1. CASE port \in valid /\ forceQuit
  <2>1. pc' = "launched" /\ UNCHANGED <<port, allUp, printed>>
    BY <1>1 DEF LinkPort
  <2>2. PrintedUpTo(0) => PrintedUpTo(0)'
    BY <1>0, <2>1 DEF PrintedUpTo
  <2>3. QED
    BY <1>0, <1>1, <2>1, <2>2 DEF LinkInv
<1>2. CASE ~(port \in valid /\ forceQuit) /\ port \notin Active
  <2>1. port' = port + 1 /\ UNCHANGED <<pc, allUp, printed>>
    BY <1>2 DEF LinkPort
  <2>2. PrintedUpTo(0) => PrintedUpTo(0)'
    BY <1>0, <2>1 DEF PrintedUpTo
  <2>3. PrintedUpTo(port) => PrintedUpTo(port)'
    <3>1. \A p \in PortId : p \in Active => (p < port + 1 <=> p < port)
      BY <1>0, <1>2, Bounds
    <3>2. QED
      BY <1>0, <2>1, <3>1 DEF PrintedUpTo
  <2>4. QED
    BY <1>0, <2>1, <2>2, <2>3 DEF LinkInv
<1>3. CASE ~(port \in valid /\ forceQuit) /\ port \in Active
  <2>1. PICK status \in {"up", "down", "failed"} :
          /\ printed' = IF printFlag THEN [printed EXCEPT ![port] = @ + 1] ELSE printed
          /\ allUp' = (allUp /\ (status = "up" \/ (printFlag /\ status = "down")))
          /\ pc' = IF status = "down" /\ ~printFlag THEN "linkRoundEnd" ELSE pc
    BY <1>3 DEF LinkPort
  <2>2. port' = port + 1
    BY <1>3 DEF LinkPort
  <2>3. allUp' \in BOOLEAN
    BY <2>1
  <2>4. pc' = "linkPort" \/ (pc' = "linkRoundEnd" /\ ~printFlag)
    BY <2>1, <1>0
  <2>5. CASE printFlag
    <3>1. printed' = [printed EXCEPT ![port] = printed[port] + 1] /\ printed[port] \in Nat
      BY <2>1, <2>5, <1>0
    <3>2. printed' \in [PortId -> Nat]
      BY <3>1, <1>0
    <3>3. ASSUME NEW p \in PortId
          PROVE  printed'[p] = IF p \in Active /\ p < port + 1 THEN 1 ELSE 0
      <4>1. CASE p = port
        <5>1. printed[port] = 0
          BY <1>0, <2>5 DEF PrintedUpTo
        <5>2. QED
          BY <5>1, <3>1, <4>1, <1>0, <1>3
      <4>2. CASE p # port
        <5>1. printed'[p] = printed[p] /\ (p < port + 1 <=> p < port)
          BY <3>1, <4>2, <1>0, Bounds
        <5>2. QED
          BY <5>1, <1>0, <2>5 DEF PrintedUpTo
      <4>3. QED
        BY <4>1, <4>2
    <3>4. PrintedUpTo(port)'
      BY <3>3, <2>2, <1>0 DEF PrintedUpTo
    <3>5. QED
      BY <1>0, <2>2, <2>3, <2>4, <2>5, <3>2, <3>4 DEF LinkInv
  <2>6. CASE ~printFlag
    <3>1. printed' = printed
      BY <2>1, <2>6
    <3>2. PrintedUpTo(0)'
      BY <1>0, <2>6, <3>1 DEF PrintedUpTo
    <3>3. QED
      BY <1>0, <2>2, <2>3, <2>4, <2>6, <3>1, <3>2 DEF LinkInv
  <2>7. QED
    BY <2>5, <2>6
<1>4. QED
  BY <1>1, <1>2, <1>3

LEMMA LinkStepLink ==
  ASSUME ModeInv, LinkInv, UNCHANGED given, PollStep \/ EventStep \/ ServStep \/ LinkStep
  PROVE  LinkInv'
<1>0. /\ Active' = Active /\ MaxCheckTime \in Nat \ {0}
      /\ \A n : UNCHANGED printed => (PrintedUpTo(n) => PrintedUpTo(n)')
  BY SameInputs, Bounds DEF PrintedUpTo
<1>1. CASE PollStep
  <2>1. UNCHANGED <<forceQuit, links_>>
    BY <1>1 DEF PollStep
  <2>2. pc \in PollPc /\ pc' # "launched"
    BY <1>1 DEF PollStep, PollSetup, CheckLcoreParams, InitLcoreRxQueue, CheckPortConfig, InitPort,
                InitPortsEnd, InitRxQueues, Start, PollPc
  <2>3. QED
    BY <2>1, <2>2, LinkFrame DEF PollPc, LinkPc
<1>2. CASE EventStep
  <2>1. UNCHANGED <<forceQuit, links_>>
    BY <1>2 DEF EventStep
  <2>2. pc \in EventPc /\ pc' # "launched"
    <3>1. CASE RxAdapterSetup
      <4>1. pc = "rxAdapters" /\ pc' \in {pc, "exitRxAdapter"}
        BY <3>1 DEF RxAdapterSetup
      <4>2. QED
        BY <4>1 DEF EventPc
    <3>2. CASE EthPortSetup
      <4>1. pc = "ethPorts" /\ pc' \in {pc, "exitRxPool"}
        BY <3>2 DEF EthPortSetup
      <4>2. QED
        BY <4>1 DEF EventPc
    <3>3. QED
      BY <1>2, <3>1, <3>2 DEF EventStep, EventSetup, CapabilitySetup, EventDeviceSetup,
                              EventQueueSetup, EventPortSetup, TxAdapterSetup, EventPc
  <2>3. QED
    BY <2>1, <2>2, LinkFrame DEF EventPc, LinkPc
<1>3. CASE ServStep
  <2>1. /\ UNCHANGED <<forceQuit, links_>>
        /\ pc \in {"eventStarted", "services"} /\ pc' # "launched"
    BY <1>3 DEF ServStep, ServicesBegin, ServiceRequest, ServicesEnd
  <2>2. QED
    BY <2>1, LinkFrame DEF LinkPc
<1>4. CASE PtypeCheck
  <2>1. UNCHANGED <<forceQuit, links_>> /\ pc = "started" /\ pc' # "launched"
    BY <1>4 DEF PtypeCheck
  <2>2. QED
    BY <2>1, LinkFrame DEF LinkPc
<1>5. CASE Signal
  <2>1. /\ UNCHANGED <<pc, count, port, allUp, printFlag, printed>> /\ forceQuit' = TRUE
    BY <1>5 DEF Signal, links_
  <2>2. PrintedUpTo(port) => PrintedUpTo(port)'
    BY <1>0, <2>1 DEF PrintedUpTo
  <2>3. QED
    BY <1>0, <2>1, <2>2 DEF LinkInv
<1>6. CASE LinkRound
  <2>1. pc = "links" /\ UNCHANGED <<forceQuit, count, printFlag, printed>>
    BY <1>6 DEF LinkRound
  <2>2. CASE count > MaxCheckTime \/ forceQuit
    <3>1. pc' = "launched" /\ UNCHANGED <<port, allUp>>
      BY <1>6, <2>2 DEF LinkRound
    <3>2. forceQuit
      BY <2>2, <1>0 DEF LinkInv
    <3>3. QED
      BY <1>0, <2>1, <3>1, <3>2 DEF LinkInv
  <2>3. CASE ~(count > MaxCheckTime \/ forceQuit)
    <3>1. pc' = "linkPort" /\ port' = 0 /\ allUp' = TRUE
      BY <1>6, <2>3 DEF LinkRound
    <3>2. PrintedUpTo(0) => PrintedUpTo(port)'
      BY <1>0, <2>1, <3>1 DEF PrintedUpTo
    <3>3. port' \in 0 .. MaxPorts
      BY <3>1, Bounds
    <3>4. QED
      BY <1>0, <2>1, <3>1, <3>2, <3>3 DEF LinkInv
  <2>4. QED
    BY <2>2, <2>3
<1>7. CASE LinkPort
  BY <1>7, LinkPortLink
<1>8. CASE LinkRoundEnd
  <2>1. /\ pc = "linkRoundEnd" \/ (pc = "linkPort" /\ port = MaxPorts)
        /\ UNCHANGED <<forceQuit, port, allUp, printed>>
    BY <1>8 DEF LinkRoundEnd
  <2>2. CASE printFlag
    <3>1. pc' = "launched" /\ UNCHANGED <<count, printFlag>>
      BY <1>8, <2>2 DEF LinkRoundEnd
    <3>2. PrintedUpTo(MaxPorts)
      BY <2>1, <2>2 DEF LinkInv
    <3>3. QED
      BY <1>0, <2>1, <2>2, <3>1, <3>2 DEF LinkInv
  <2>3. CASE ~printFlag
    <3>1. printFlag' = (allUp \/ count = MaxCheckTime - 1) /\ count' = count + 1 /\ pc' = "links"
      BY <1>8, <2>3 DEF LinkRoundEnd, LastRound
    <3>2. count \in 0 .. MaxCheckTime - 1 /\ PrintedUpTo(0) /\ allUp \in BOOLEAN
      BY <2>3, <1>0 DEF LinkInv
    <3>3. count' \in 0 .. MaxCheckTime /\ printFlag' \in BOOLEAN /\ (~printFlag' => count' < MaxCheckTime)
      <4>1. count' \in 0 .. MaxCheckTime
        BY <3>1, <3>2, <1>0
      <4>2. printFlag' \in BOOLEAN
        BY <3>1
      <4>3. ~printFlag' => count # MaxCheckTime - 1
        BY <3>1
      <4>4. count # MaxCheckTime - 1 => count' < MaxCheckTime
        BY <3>1, <3>2, <1>0
      <4>5. QED
        BY <4>1, <4>2, <4>3, <4>4
    <3>4. PrintedUpTo(0)'
      BY <1>0, <2>1, <3>2
    <3>5. QED
      BY <2>1, <3>1, <3>3, <3>4 DEF LinkInv
  <2>4. QED
    BY <2>2, <2>3
<1>9. QED
  BY <1>1, <1>2, <1>3, <1>4, <1>5, <1>6, <1>7, <1>8 DEF LinkStep

LEMMA AllPrinted ==
  ASSUME ModeInv, LinkInv
  PROVE  LinksPrinted
<1>1. \A p \in Active : p < MaxPorts
  BY FiniteInputs, Bounds DEF PortId
<1>2. QED
  BY <1>1 DEF LinkInv, LinksPrinted, PrintedUpTo

-----------------------------------------------------------------------------
(* The invariant and what it implies.                                      *)

IInv == ModeInv /\ MemInv /\ TxInv /\ RxInv /\ EventInv /\ ServInv /\ LinkInv

LEMMA InitMode ==
  ASSUME StartInit
  PROVE  ModeInv
<1>1. /\ valid \subseteq PortId /\ mask \subseteq PortId /\ enLcores \subseteq LcoreId
      /\ idx = 0 /\ eventMode \in BOOLEAN
  BY DEF StartInit, CommonInit
<1>2. CASE eventMode
  <2>1. /\ pc = "capability" /\ params = <<>> /\ EventInit
    BY <1>2 DEF StartInit
  <2>2. params \in Seq(ParsedParam)
    BY <2>1
  <2>3. maxEventQueues \in Nat /\ maxEventPorts \in Nat /\ nbService \in Nat
    BY <2>1, L3fwdEventSetupAssumption DEF EventInit
  <2>4. QED
    BY <1>1, <1>2, <2>1, <2>2, <2>3 DEF ModeInv, GivenOK, ControlOK, EventPc, LinkPc
<1>3. CASE ~eventMode
  <2>1. PollInit /\ maxEventQueues = 1 /\ maxEventPorts = 1 /\ nbService = 0
    BY <1>3 DEF StartInit
  <2>2. pc = "checkLcores" /\ params \in UNION {[1 .. n -> ParsedParam] : n \in 0 .. MaxParams}
    BY <2>1 DEF PollInit
  <2>3. PICK n \in 0 .. MaxParams : params \in [1 .. n -> ParsedParam]
    BY <2>2
  <2>4. params \in Seq(ParsedParam)
    BY <2>3
  <2>5. QED
    BY <1>1, <1>3, <2>1, <2>2, <2>4 DEF ModeInv, GivenOK, ControlOK, PollPc, LinkPc
<1>4. QED
  BY <1>1, <1>2, <1>3

\* Where the set-up starts.
LEMMA InitPcs ==
  ASSUME StartInit
  PROVE  /\ pc \in {"checkLcores", "capability"} /\ idx = 0
         /\ eventMode \in BOOLEAN /\ (eventMode <=> pc = "capability")
<1>1. CASE eventMode
  BY <1>1 DEF StartInit, CommonInit
<1>2. CASE ~eventMode
  BY <1>2 DEF StartInit, CommonInit, PollInit
<1>3. QED
  BY <1>1, <1>2 DEF StartInit

LEMMA InitMem0 ==
  ASSUME StartInit
  PROVE  MemInv
<1>1. /\ pool = [p \in PortId |-> [s \in Sockets |-> 0]]
      /\ lkpSetups = [s \in Sockets |-> 0]
      /\ lkpOf = [l \in LcoreId |-> {}]
  BY DEF StartInit, CommonInit
<1>2. pool \in [PortId -> [Sockets -> Nat]] /\ lkpSetups \in [Sockets -> {0, 1}] /\ lkpOf \in [LcoreId -> SUBSET Sockets]
  BY <1>1
<1>3. \A k \in PortId, s \in Sockets : ~(pool[k][s] > 0)
  BY <1>1
<1>4. QED
  BY <1>2, <1>3, InitPcs DEF MemInv

LEMMA InitTx ==
  ASSUME StartInit
  PROVE  TxInv
<1>1. /\ txQueueId = [l \in LcoreId |-> [p \in PortId |-> -1]]
      /\ txPortId = [l \in LcoreId |-> <<>>]
  BY DEF StartInit, CommonInit
<1>2. ModeInv
  BY InitMode
<1>3. txQueueId \in [LcoreId -> [PortId -> LcoreId \cup {-1}]] /\ txPortId \in [LcoreId -> Seq(PortId)]
  BY <1>1
<1>4. \A p \in Active : ~(p < 0)
  BY <1>2, FiniteInputs, Bounds
<1>5. Rank(Active, 0) = 0
  BY <1>2, FiniteInputs, Bounds, RankZero
<1>6. \A l \in enLcores : txPortId[l] = <<>>
  BY <1>1, <1>2 DEF ModeInv, GivenOK
<1>7. TxUpTo(0)
  BY <1>4, <1>5, <1>6 DEF TxUpTo
<1>8. QED
  BY <1>3, <1>7, InitPcs DEF TxInv

LEMMA InitRx0 ==
  ASSUME StartInit
  PROVE  RxInv
<1>1. /\ rxQueueList = [l \in LcoreId |-> <<>>]
      /\ nbRxq = [p \in PortId |-> -1]
      /\ rxReady = {}
  BY DEF StartInit, CommonInit
<1>2. rxQueueList \in [LcoreId -> Seq(RxQueue)] /\ nbRxq \in [PortId -> Nat \cup {-1}]
  BY <1>1
<1>3. \A l \in LcoreId : rxQueueList[l] = <<>> /\ Len(rxQueueList[l]) <= MaxRxPerLcore
  BY <1>1, Bounds
<1>4. QED
  BY <1>1, <1>2, <1>3, InitPcs DEF RxInv

LEMMA InitEvent ==
  ASSUME StartInit
  PROVE  EventInv
<1>1. /\ generic = FALSE /\ nbQueues = 0 /\ nbEvPorts = 0 /\ eventQId = <<>> /\ links = <<>> /\ txLinks = {}
      /\ rxAdapter = [p \in PortId |-> -1] /\ feeds = [p \in PortId |-> -1]
  BY DEF StartInit, EventNone
<1>2. NActive \in Nat
  BY InitMode, FiniteInputs
<1>3. /\ eventQId \in [DOMAIN eventQId -> 0 .. NActive]
      /\ links \in [DOMAIN links -> SUBSET (0 .. NActive)]
  BY <1>1
<1>4. /\ rxAdapter \in [PortId -> -1 .. MaxPorts - 1] /\ feeds \in [PortId -> -1 .. NActive + 1]
  <2>1. -1 \in -1 .. MaxPorts - 1 /\ -1 \in -1 .. NActive + 1
    BY <1>2, Bounds
  <2>2. QED
    BY <1>1, <2>1
<1>5. EventTypeOK
  <2>1. generic \in BOOLEAN
    BY <1>1
  <2>2. nbQueues \in 0 .. NActive + 1 /\ nbEvPorts \in Nat /\ txLinks \subseteq 0 .. NActive
    BY <1>1, <1>2
  <2>3. QED
    BY <1>3, <1>4, <2>1, <2>2 DEF EventTypeOK
<1>6. QED
  BY <1>1, <1>5, InitPcs DEF EventInv

\* A service is mapped to one lcore at most, so that none has two more than another.
LEMMA InitServ ==
  ASSUME StartInit
  PROVE  ServInv
<1>1. /\ mapped \in [Service -> SUBSET ServiceLcore]
      /\ \A s \in Service : Cardinality(mapped[s]) <= IF s = <<"scheduler", 0>> THEN 1 ELSE 0
      /\ running = {} /\ serviceId = NoService
  <2>1. \A s \in Service : s[1] = "scheduler" => s = <<"scheduler", 0>>
    BY DEF Service
  <2>2. \A s \in Service : Cardinality(mapped[s]) <= IF s[1] = "scheduler" /\ scheduler = "service" THEN 1 ELSE 0
    BY DEF StartInit
  <2>3. \A s \in Service : IsFiniteSet(mapped[s]) /\ Cardinality(mapped[s]) \in Nat
    <3>1. nbService \in Nat
      BY InitMode DEF ModeInv, GivenOK
    <3>2. IsFiniteSet(ServiceLcore)
      BY <3>1, FS_Interval DEF ServiceLcore
    <3>3. \A s \in Service : mapped[s] \subseteq ServiceLcore
      BY DEF StartInit
    <3>4. QED
      BY <3>2, <3>3, FS_Subset, FS_CardinalityType
  <2>4. ASSUME NEW s \in Service PROVE Cardinality(mapped[s]) <= IF s = <<"scheduler", 0>> THEN 1 ELSE 0
    <3>1. CASE s = <<"scheduler", 0>>
      BY <3>1, <2>2, <2>3
    <3>2. CASE s # <<"scheduler", 0>>
      BY <3>2, <2>1, <2>2, <2>3
    <3>3. QED
      BY <3>1, <3>2
  <2>5. QED
    BY <2>4 DEF StartInit
<1>2. \A s \in Service : IsFiniteSet(mapped[s]) /\ Cardinality(mapped[s]) \in Nat
  <2>1. nbService \in Nat
    BY InitMode DEF ModeInv, GivenOK
  <2>2. IsFiniteSet(ServiceLcore)
    BY <2>1, FS_Interval DEF ServiceLcore
  <2>3. QED
    BY <1>1, <2>2, FS_Subset, FS_CardinalityType
<1>3. ASSUME NEW s \in Service, NEW c \in mapped[s], NEW d \in mapped[s]
      PROVE  c = d /\ s = <<"scheduler", 0>>
  <2>1. Cardinality(mapped[s]) # 0
    BY <1>2, FS_EmptySet
  <2>2. s = <<"scheduler", 0>> /\ Cardinality(mapped[s]) = 1
    BY <1>1, <1>2, <2>1
  <2>3. PICK e : mapped[s] = {e}
    BY <1>2, <2>2, FS_Singleton
  <2>4. QED
    BY <2>2, <2>3
<1>4. Balanced(mapped)
  <2>1. ASSUME NEW c \in ServiceLcore PROVE MappedTo(mapped, c) <= 1
    <3> DEFINE A == {s \in Service : c \in mapped[s]}
    <3>1. A \subseteq {<<"scheduler", 0>>}
      BY <1>3
    <3>2. IsFiniteSet({<<"scheduler", 0>>}) /\ Cardinality({<<"scheduler", 0>>}) = 1
      BY FS_Singleton
    <3>3. Cardinality(A) <= 1
      BY <3>1, <3>2, FS_Subset
    <3>4. QED
      BY <3>3 DEF MappedTo
  <2>2. ASSUME NEW c \in ServiceLcore, NEW o \in ServiceLcore
        PROVE  MappedTo(mapped, c) <= MappedTo(mapped, o) + 1
    <3>1. MappedTo(mapped, c) \in Nat /\ MappedTo(mapped, o) \in Nat /\ MappedTo(mapped, c) <= 1
      BY <2>1, MappedNat
    <3>2. QED
      BY <3>1
  <2>3. QED
    BY <2>2 DEF Balanced
<1>5. QED
  BY <1>1, <1>3, <1>4, InitPcs DEF ServInv, LinkPc

LEMMA InitLink ==
  ASSUME StartInit
  PROVE  LinkInv
<1>1. /\ forceQuit = FALSE /\ count = 0 /\ port = 0 /\ allUp = TRUE /\ printFlag = FALSE
      /\ printed = [p \in PortId |-> 0]
  BY DEF StartInit
<1>2. \A p \in Active : ~(p < 0)
  BY InitMode, FiniteInputs, Bounds
<1>3. PrintedUpTo(0)
  BY <1>1, <1>2 DEF PrintedUpTo
<1>4. printed \in [PortId -> Nat] /\ 0 \in 0 .. MaxCheckTime /\ 0 \in 0 .. MaxPorts /\ 0 < MaxCheckTime
  BY <1>1, Bounds
<1>5. QED
  BY <1>1, <1>3, <1>4, InitPcs DEF LinkInv

\* A step that changes nothing.
LEMMA Stutter ==
  ASSUME IInv, UNCHANGED start
  PROVE  IInv'
<1>1. /\ UNCHANGED given /\ UNCHANGED <<pc, idx, rxQueueList, rxReady, nbRxq, txQueueId, txPortId>>
      /\ UNCHANGED <<pool, lkpSetups, lkpOf>>
      /\ UNCHANGED <<generic, nbQueues, nbEvPorts, eventQId, links, txLinks, rxAdapter, feeds>>
      /\ UNCHANGED <<mapped, running, serviceId, forceQuit>>
      /\ UNCHANGED <<count, port, allUp, printFlag, printed>>
  BY DEF start, setup, ports, mem, eventVars, eventDevice, adapters, services, links_
<1>2. /\ Active' = Active /\ NActive' = NActive /\ enLcores' = enLcores /\ UsedSockets' = UsedSockets
      /\ ServiceLcore' = ServiceLcore
      /\ UNCHANGED <<valid, mask, params, eventMode, nbService, maxEventQueues, maxEventPorts, txInternal>>
  BY <1>1, SameInputs
<1>3. ModeInv'
  BY <1>1, <1>2 DEF IInv, ModeInv, GivenOK, ControlOK
<1>4. MemInv'
  BY <1>1, <1>2 DEF IInv, MemInv, MemoryOf, TablesReady, PoolIndex
<1>5. TxInv'
  <2>1. \A x : (Rank(enLcores, x))' = Rank(enLcores, x) /\ (Rank(Active, x))' = Rank(Active, x)
    BY <1>2 DEF Rank
  <2>2. TxUpTo(0)' <=> TxUpTo(0)
    BY <1>1, <1>2, <2>1 DEF TxUpTo
  <2>3. TxUpTo(MaxPorts)' <=> TxUpTo(MaxPorts)
    BY <1>1, <1>2, <2>1 DEF TxUpTo
  <2>4. (Rank(Active, idx))' = Rank(Active, idx)
    BY <1>1, <1>2 DEF Rank
  <2>5. TxUpTo(idx)' <=> TxUpTo(idx)
    BY <1>1, <1>2, <2>1, <2>4 DEF TxUpTo
  <2>6. QED
    BY <1>1, <2>2, <2>3, <2>5 DEF IInv, TxInv
<1>6. RxInv'
  <2>1. /\ Placed(idx)' <=> Placed(idx)
        /\ Placed(Len(params))' <=> Placed(Len(params))
        /\ LcoresChecked' <=> LcoresChecked
        /\ PortsChecked' <=> PortsChecked
    BY <1>1, <1>2 DEF Placed, Placing, LcoresChecked, PortsChecked
  <2>2. \A p : ParamsOf(p)' = ParamsOf(p)
    BY <1>2 DEF ParamsOf
  <2>3. \A p : InSequence(p)' <=> InSequence(p)
    BY <1>2, <2>2 DEF InSequence
  <2>4. (Counted(idx)' <=> Counted(idx)) /\ (Counted(MaxPorts)' <=> Counted(MaxPorts))
    BY <1>1, <1>2, <2>2, <2>3 DEF Counted
  <2>5. (ReadyUpTo(idx)' <=> ReadyUpTo(idx)) /\ (ReadyUpTo(MaxLcores)' <=> ReadyUpTo(MaxLcores))
    BY <1>1, <1>2 DEF ReadyUpTo
  <2>6. QED
    BY <1>1, <1>2, <2>1, <2>4, <2>5 DEF IInv, RxInv
<1>7. EventInv'
  <2>1. \A p : (Rank(Active, p))' = Rank(Active, p)
    BY <1>2 DEF Rank
  <2>2. Wanted' = Wanted /\ QueueIds' = QueueIds
    BY <1>1, SameEvent
  <2>3. EventTypeOK' <=> EventTypeOK
    BY <1>1, <1>2 DEF EventTypeOK
  <2>4. (Feeds(idx)' <=> Feeds(idx)) /\ (Feeds(MaxPorts)' <=> Feeds(MaxPorts))
    BY <1>1, <1>2, <2>1 DEF Feeds
  <2>5. QED
    BY <1>1, <1>2, <2>2, <2>3, <2>4 DEF IInv, EventInv, Ids
<1>8. ServInv'
  <2>1. Requests' = Requests
    BY <1>1, RequestsKept
  <2>2. ServBase'
    BY <1>1, ServBaseKept DEF IInv, ServInv, ServBase
  <2>3. ASSUME NEW i \in 1 .. Len(Requests), Served(Asked(i)) PROVE Served(Asked(i))'
    <3>1. PICK t : t = Asked(i)
      OBVIOUS
    <3>2. t \in Service /\ Served(t)
      BY <3>1, <2>3, RequestsOK DEF Served, IInv
    <3>3. QED
      BY <3>1, <3>2, <1>1, ServedKept, ServedAsked
  <2>4. Len(Requests) \in Nat /\ idx \in Nat
    BY RequestsOK DEF IInv, ModeInv, ControlOK
  <2>5. pc = "services" => idx <= Len(Requests) /\ \A i \in 1 .. idx : Served(Asked(i))'
    BY <2>3, <2>4 DEF IInv, ServInv
  <2>6. QED
    BY <1>1, <1>2, <2>1, <2>2, <2>3, <2>5 DEF IInv, ServInv, ServBase
<1>9. LinkInv'
  BY <1>1, <1>2 DEF IInv, LinkInv, PrintedUpTo
<1>10. QED
  BY <1>3, <1>4, <1>5, <1>6, <1>7, <1>8, <1>9 DEF IInv

\* The invariant is inductive: for every --config, mask, set of ports, lcores and sockets, and
\* every capability of the event device, main() keeps it from the parsed arguments to the launch.
THEOREM Inductive == StartSpec => []IInv
<1>1. StartInit => IInv
  BY InitMode, InitMem0, InitTx, InitRx0, InitEvent, InitServ, InitLink DEF IInv
<1>2. IInv /\ [StartNext]_start => IInv'
  <2> SUFFICES ASSUME IInv, [StartNext]_start PROVE IInv'
    OBVIOUS
  <2>1. CASE UNCHANGED start
    BY <2>1, Stutter
  <2>2. CASE StartNext
    <3>1. UNCHANGED given /\ (PollStep \/ EventStep \/ ServStep \/ LinkStep \/ UNCHANGED start)
      BY <2>2, Steps
    <3>2. CASE PollStep \/ EventStep \/ ServStep \/ LinkStep
      BY <3>1, <3>2, ModeStep, MemStep, TxStep, RxStep, EventInvStep, ServStepServ, LinkStepLink DEF IInv
    <3>3. QED
      BY <3>1, <3>2, <2>1
  <2>3. QED
    BY <2>1, <2>2
<1>3. QED
  BY <1>1, <1>2, PTL DEF StartSpec


LEMMA TypesOf ==
  ASSUME IInv
  PROVE  StartTypeOK
<1>1. TypeOK
  <2>1. /\ valid \subseteq PortId /\ mask \subseteq PortId /\ enLcores \subseteq LcoreId
        /\ params \in Seq(ParsedParam) /\ idx \in Nat
    BY DEF IInv, ModeInv, GivenOK, ControlOK
  <2>2. /\ rxQueueList \in [LcoreId -> Seq(RxQueue)]
        /\ \A l \in LcoreId : Len(rxQueueList[l]) <= MaxRxPerLcore
        /\ nbRxq \in [PortId -> Nat \cup {-1}]
        /\ rxReady \subseteq (0 .. MaxPorts) \X (0 .. MaxQueues)
    BY DEF IInv, RxInv
  <2>3. /\ txQueueId \in [LcoreId -> [PortId -> LcoreId \cup {-1}]]
        /\ txPortId \in [LcoreId -> Seq(PortId)]
    BY DEF IInv, TxInv
  <2>4. /\ pool \in [PortId -> [Sockets -> Nat]]
        /\ lkpSetups \in [Sockets -> Nat] /\ lkpOf \in [LcoreId -> SUBSET Sockets]
    BY DEF IInv, MemInv
  <2>5. QED
    BY <2>1, <2>2, <2>3, <2>4 DEF TypeOK
<1>2. EventTypeOK
  BY DEF IInv, EventInv
<1>3. pc \in Ended \cup
       {"checkLcores", "rxQueues", "initPorts", "initRx", "started",
        "capability", "ethPorts", "eventQueues", "eventPorts", "rxAdapters", "eventStarted",
        "services", "links", "linkPort", "linkRoundEnd"}
  <2>1. pc \in PollPc \cup EventPc \cup LinkPc
    BY DEF IInv, ModeInv, ControlOK
  <2>2. QED
    BY <2>1 DEF PollPc, EventPc, LinkPc, Ended
<1>4. /\ mapped \in [Service -> SUBSET ServiceLcore] /\ running \subseteq ServiceLcore
      /\ serviceId \in Service \cup {NoService}
  BY DEF IInv, ServInv
<1>5. /\ count \in 0 .. MaxCheckTime + 1 /\ port \in 0 .. MaxPorts
      /\ allUp \in BOOLEAN /\ printFlag \in BOOLEAN /\ forceQuit \in BOOLEAN
      /\ printed \in [PortId -> Nat]
  BY Bounds DEF IInv, LinkInv
<1>6. QED
  BY <1>1, <1>2, <1>3, <1>4, <1>5 DEF StartTypeOK

\* No table is left behind its bounds: rx_queue_list[] is never written past its end, the TX
\* queue ids are lcore numbers, the link check stays within its rounds.
THEOREM StartTypes == StartSpec => []StartTypeOK
<1>1. IInv => StartTypeOK
  BY TypesOf
<1>2. QED
  BY <1>1, Inductive, PTL

\* Whatever --config says, set-up in poll mode gives every RX queue of the active ports to one
\* lcore, once, and sets it up; otherwise it ends before the ports are started.
THEOREM RxQueuesAreShared == StartSpec => []RxQueuesShared
<1>1. IInv => RxQueuesShared
  BY RxShared DEF IInv
<1>2. QED
  BY <1>1, Inductive, PTL

\* On every port each lcore has a TX queue of its own (queueid of the loop in
\* l3fwd_poll_resource_setup), and its tx_port_id[] lists every active port once.
THEOREM TxQueuesAreExclusive == StartSpec => []TxQueueExclusive
<1>1. IInv => TxQueueExclusive
  BY TxExclusive DEF IInv
<1>2. QED
  BY <1>1, Inductive, PTL

\* With per_port_pool or without, on any sockets, in both modes: init_mem leaves no queue
\* without its pool, and l3fwd_lkp.setup is called once for each socket in use.
THEOREM MemoryIsReadyAtStart == StartSpec => []MemoryReady
<1>1. IInv => MemoryReady
  BY MemoryIsReady DEF IInv
<1>2. QED
  BY <1>1, Inductive, PTL

\* With as many event queues as the set-up wants, the enabled ports feed queues of their own
\* and that of the TX adapter is fed by none, whichever ports are disabled.
THEOREM EventQueuesAreOwned == StartSpec => []EventQueueOwned
<1>1. IInv => EventQueueOwned
  BY QueueOwned DEF IInv
<1>2. QED
  BY <1>1, Inductive, PTL

\* However many service lcores and whatever was mapped before, l3fwd_service_enable leaves
\* each service it is asked for on one running lcore and the lcores in balance.
THEOREM ServicesAreSpread == StartSpec => []ServicesSpread
<1>1. IInv => ServicesSpread
  BY Spread DEF IInv
<1>2. QED
  BY <1>1, Inductive, PTL

\* check_all_ports_link_status prints every enabled port once, unless a signal comes,
\* however often a link goes up and down meanwhile.
THEOREM LinksArePrinted == StartSpec => []LinksPrinted
<1>1. IInv => LinksPrinted
  BY AllPrinted DEF IInv
<1>2. QED
  BY <1>1, Inductive, PTL

=============================================================================
