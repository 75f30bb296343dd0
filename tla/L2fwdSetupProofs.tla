-------------------------- MODULE L2fwdSetupProofs --------------------------
(***************************************************************************)
(* Proofs about L2fwdSetup for every number of ports, lcores, queues and   *)
(* pairs: the destinations of the active ports are an involution and are   *)
(* the configured ones, the lcores' lists partition the active ports, and  *)
(* "Not enough cores" is only said when it is true.                        *)
(***************************************************************************)
EXTENDS L2fwdSetup, FiniteSetTheorems, TLAPS

Ends(k) == {portmap[k][1], portmap[k][2]}

\* What check_port_pair_config knows of the first n pairs.
Checked(n) ==
  /\ pairMask = {p \in EthPort : \E k \in 1 .. n : p \in Ends(k)}
  /\ pairMask \subseteq ActivePort
  /\ \A k, m \in 1 .. n : k # m => Ends(k) \cap Ends(m) = {}

\* The first n halves of the pairs have their peers as destinations.
Partnered(n) ==
  \A k \in 1 .. Len(portmap), h \in {0, 1} :
    2 * (k - 1) + h < n => dst[portmap[k][h + 1]] = portmap[k][2 - h]

\* --portmap.  After the check the mask is the set of the paired ports.
PairInv ==
  /\ loop = "checkPairs" => portmapGiven /\ loopIdx \in 0 .. Len(portmap) /\ Checked(loopIdx)
  /\ portmapGiven /\ loop \in {"checkMask", "dstPairs", "lcores", "launch"} =>
       Checked(Len(portmap)) /\ pairMask = ActivePort
  /\ loop = "dstPairs" => portmapGiven /\ loopIdx \in 0 .. 2 * Len(portmap) /\ Partnered(loopIdx)
  /\ portmapGiven /\ loop \in {"lcores", "launch"} => Partnered(2 * Len(portmap))

-----------------------------------------------------------------------------
\* The active ports below a port, in number; those the loop has come to.
Rank(x)   == Cardinality({y \in ActivePort : y < x})
Visited   == {p \in ActivePort : p < loopIdx}

Involution(S) == \A p \in S : dst[p] \in S /\ dst[dst[p]] = p
Neighbours(S) == \A p, q \in S : Rank(p) % 2 = 0 /\ Rank(q) = Rank(p) + 1 => dst[p] = q

\* The ports whose couple is complete: all, but the one that waits for its neighbour.
Coupled == IF nbInMask % 2 = 1 THEN Visited \ {lastPort} ELSE Visited

\* No --portmap.
CoupleInv ==
  /\ loop \in {"checkPairs", "checkMask"} => nbInMask = 0
  /\ loop = "dstDefault" =>
       /\ ~portmapGiven
       /\ loopIdx \in 0 .. RteMaxEthports
       /\ nbInMask = Rank(loopIdx)
       /\ Involution(Coupled)
       /\ Neighbours(Visited)
       /\ nbInMask % 2 = 1 => lastPort \in Visited /\ Rank(lastPort) + 1 = nbInMask
  /\ ~portmapGiven /\ loop \in {"lcores", "launch"} =>
       /\ Neighbours(ActivePort)
       /\ \A p \in ActivePort : Rank(p) % 2 = 0 /\ Rank(p) + 1 = Cardinality(ActivePort) => dst[p] = p

-----------------------------------------------------------------------------
Used == {l \in enabledLcores : rxPortList[l] # <<>>}

\* No port is in two places.
OnePlace ==
  \A k, l \in enabledLcores : \A a \in 1 .. Len(rxPortList[k]), b \in 1 .. Len(rxPortList[l]) :
    rxPortList[k][a] = rxPortList[l][b] => k = l /\ a = b

\* The pass over the ports: those visited are in the lists; the lcores before rx_lcore_id
\* are full or disabled, those after it are empty, and it is empty itself until qconf is it.
ListInv ==
  /\ loop \in {"checkPairs", "checkMask", "dstPairs", "dstDefault"} =>
       /\ rxLcore = 0 /\ qconf = -1 /\ nbLcores = 0
       /\ \A l \in LcoreNo : rxPortList[l] = <<>>
  /\ loop \in {"lcores", "launch", "exitCores"} =>
       /\ loopIdx \in 0 .. RteMaxEthports
       /\ Visited = {p \in EthPort : \E l \in enabledLcores :
                       \E a \in 1 .. Len(rxPortList[l]) : rxPortList[l][a] = p}
       /\ \A l \in LcoreNo \ enabledLcores : rxPortList[l] = <<>>
       /\ OnePlace
       /\ nbLcores = Cardinality(Used)
       /\ \A l \in enabledLcores : l < rxLcore => Len(rxPortList[l]) = nq
       /\ \A l \in LcoreNo : l > rxLcore => rxPortList[l] = <<>>
       /\ qconf <= rxLcore
       /\ qconf = rxLcore <=> (rxLcore \in LcoreNo /\ rxPortList[rxLcore] # <<>>)
  /\ loop \in {"lcores", "launch"} => rxLcore \in LcoreNo
  /\ loop = "launch" => loopIdx = RteMaxEthports
  /\ loop = "exitCores" => loopIdx \in ActivePort /\ rxLcore = RteMaxLcore

IInv == SetupTypeOK /\ PairInv /\ CoupleInv /\ DstInvolution /\ ListInv

-----------------------------------------------------------------------------
(* Sets of ports and lcores are finite; ranks among the active ports.      *)

LEMMA Bounds ==
  /\ RteMaxEthports \in Nat \ {0} /\ RteMaxLcore \in Nat \ {0} /\ MaxRxQueue \in Nat
  /\ EthPort \subseteq Nat /\ LcoreNo \subseteq Nat
  BY SetupAssumption DEF EthPort, LcoreNo

LEMMA FiniteSets ==
  ASSUME SetupTypeOK
  PROVE  /\ IsFiniteSet(ActivePort) /\ ActivePort \subseteq EthPort
         /\ IsFiniteSet(enabledLcores) /\ IsFiniteSet(EthPort)
<1>1. IsFiniteSet(EthPort) /\ IsFiniteSet(LcoreNo)
  BY Bounds, FS_Interval DEF EthPort, LcoreNo
<1>2. ActivePort \subseteq EthPort /\ enabledLcores \subseteq LcoreNo
  BY DEF SetupTypeOK, ActivePort
<1>3. QED
  BY <1>1, <1>2, FS_Subset

\* Rank counts up by one at each active port.
LEMMA RankStep ==
  ASSUME SetupTypeOK, NEW x \in Nat
  PROVE  /\ Rank(x) \in Nat
         /\ Rank(x + 1) = IF x \in ActivePort THEN Rank(x) + 1 ELSE Rank(x)
<1> DEFINE Below(z) == {y \in ActivePort : y < z}
<1>1. ActivePort \subseteq Nat /\ IsFiniteSet(ActivePort)
  BY FiniteSets, Bounds
<1>2. IsFiniteSet(Below(x)) /\ x \notin Below(x)
  BY <1>1, FS_Subset
<1>3. Below(x + 1) = IF x \in ActivePort THEN Below(x) \cup {x} ELSE Below(x)
  <2>1. \A y \in ActivePort : y < x + 1 <=> y < x \/ y = x
    BY <1>1
  <2>2. QED
    BY <2>1
<1>4. Cardinality(Below(x)) \in Nat
  BY <1>2, FS_CardinalityType
<1>5. CASE x \in ActivePort
  <2>1. Cardinality(Below(x) \cup {x}) = Cardinality(Below(x)) + 1
    BY <1>2, FS_AddElement
  <2>2. QED
    BY <2>1, <1>3, <1>4, <1>5 DEF Rank
<1>6. CASE x \notin ActivePort
  BY <1>3, <1>4, <1>6 DEF Rank
<1>7. QED
  BY <1>5, <1>6

\* Of two active ports the higher has the higher rank.
LEMMA RankOrder ==
  ASSUME SetupTypeOK, NEW p \in ActivePort, NEW z \in Nat, p < z
  PROVE  Rank(p) \in Nat /\ Rank(z) \in Nat /\ Rank(p) < Rank(z)
<1>1. ActivePort \subseteq Nat /\ IsFiniteSet(ActivePort)
  BY FiniteSets, Bounds
<1>2. Rank(p) \in Nat /\ Rank(z) \in Nat /\ Rank(p + 1) = Rank(p) + 1
  BY <1>1, RankStep
<1>3. {y \in ActivePort : y < p + 1} \subseteq {y \in ActivePort : y < z}
  <2>1. \A y \in ActivePort : y < p + 1 => y < z
    BY <1>1
  <2>2. QED
    BY <2>1
<1>4. IsFiniteSet({y \in ActivePort : y < z})
  BY <1>1, FS_Subset
<1>5. Rank(p + 1) <= Rank(z)
  BY <1>3, <1>4, FS_Subset DEF Rank
<1>6. QED
  BY <1>2, <1>5

LEMMA RankApart ==
  ASSUME SetupTypeOK, NEW p \in ActivePort, NEW q \in ActivePort, Rank(p) = Rank(q)
  PROVE  p = q
<1>1. p \in Nat /\ q \in Nat
  BY FiniteSets, Bounds
<1>2. ~(p < q) /\ ~(q < p)
  BY <1>1, RankOrder
<1>3. QED
  BY <1>1, <1>2

LEMMA RankEnds ==
  ASSUME SetupTypeOK
  PROVE  Rank(0) = 0 /\ Rank(RteMaxEthports) = Cardinality(ActivePort)
<1>1. ActivePort \subseteq 0 .. RteMaxEthports - 1
  BY FiniteSets DEF EthPort
<1>2. {y \in ActivePort : y < 0} = {} /\ {y \in ActivePort : y < RteMaxEthports} = ActivePort
  <2>1. \A y \in ActivePort : ~(y < 0) /\ y < RteMaxEthports
    BY <1>1, Bounds
  <2>2. QED
    BY <2>1
<1>3. QED
  BY <1>2, FS_EmptySet DEF Rank

-----------------------------------------------------------------------------
(* The steps of check_port_pair_config and of the mask check.              *)

\* What the steps before the loop over the lcores leave alone.
LEMMA ListFrame ==
  ASSUME IInv, UNCHANGED <<commandLine, lcoreVars>>,
         loop \in {"checkPairs", "checkMask", "dstPairs", "dstDefault"},
         loop' \in {"checkPairs", "checkMask", "dstPairs", "dstDefault", "exitPairs", "exitMask"}
  PROVE  ListInv'
  BY DEF IInv, ListInv, commandLine, lcoreVars

LEMMA CheckPairInv ==
  ASSUME IInv, UNCHANGED commandLine, CheckPair
  PROVE  IInv'
<1> USE DEF IInv, commandLine, dstVars, lcoreVars
<1> DEFINE a == portmap[loopIdx + 1][1]
           b == portmap[loopIdx + 1][2]
<1>0. /\ loop = "checkPairs" /\ UNCHANGED <<commandLine, portMask, dstVars, lcoreVars>>
      /\ \/ loop' = "exitPairs" /\ UNCHANGED <<loopIdx, pairMask>>
         \/ /\ ~BadPair(a, b) /\ pairMask' = pairMask \cup {a, b}
            /\ loopIdx' = loopIdx + 1 /\ loop' = loop
  BY DEF CheckPair, Exit
<1>1. /\ portmapGiven /\ loopIdx \in 0 .. Len(portmap) - 1 /\ Checked(loopIdx)
      /\ Len(portmap) \in Nat /\ loopIdx + 1 \in 1 .. Len(portmap)
      /\ a \in EthPort /\ b \in EthPort
  BY DEF CheckPair, PairInv, SetupTypeOK
<1>2. SetupTypeOK'
  BY <1>0, <1>1 DEF SetupTypeOK, SetupFinished
<1>3. PairInv'
  <2>1. CASE loop' = "exitPairs"
    BY <1>0, <2>1 DEF PairInv
  <2>2. CASE ~BadPair(a, b) /\ pairMask' = pairMask \cup {a, b} /\ loopIdx' = loopIdx + 1 /\ loop' = loop
    <3>1. {a, b} \subseteq ActivePort /\ {a, b} \cap pairMask = {}
      BY <2>2 DEF BadPair, ActivePort
    <3>2. Ends(loopIdx + 1) = {a, b} /\ \A k \in 1 .. Len(portmap) : Ends(k)' = Ends(k)
      BY DEF Ends
    <3>3. 1 .. loopIdx + 1 = (1 .. loopIdx) \cup {loopIdx + 1}
      BY <1>1
    <3>4. \A k \in 1 .. loopIdx : Ends(k) \subseteq pairMask
      <4>1. \A k \in 1 .. loopIdx : Ends(k) \subseteq EthPort
        BY <1>1 DEF Ends, SetupTypeOK
      <4>2. QED
        BY <4>1, <1>1 DEF Checked
    <3>5. \A k, m \in 1 .. loopIdx + 1 : k # m => Ends(k) \cap Ends(m) = {}
      BY <3>1, <3>2, <3>3, <3>4, <1>1 DEF Checked
    <3>6. pairMask' = {p \in EthPort : \E k \in 1 .. loopIdx + 1 : p \in Ends(k)}
      BY <3>2, <3>3, <2>2, <1>1 DEF Checked
    <3>7. pairMask' \subseteq ActivePort
      BY <3>1, <2>2, <1>1 DEF Checked
    <3>8. Checked(loopIdx)'
      <4>0. present' = present /\ portMask' = portMask /\ portmap' = portmap /\ loopIdx' = loopIdx + 1
        BY <2>2, <1>0
      <4>1. (pairMask = {p \in EthPort : \E k \in 1 .. loopIdx : p \in Ends(k)})'
        BY <3>6, <4>0 DEF Ends
      <4>2. (pairMask \subseteq ActivePort)'
        BY <3>7, <4>0 DEF ActivePort
      <4>3. (\A k, m \in 1 .. loopIdx : k # m => Ends(k) \cap Ends(m) = {})'
        BY <3>5, <4>0 DEF Ends
      <4>4. QED
        BY <4>1, <4>2, <4>3 DEF Checked
    <3>9. QED
      BY <3>8, <2>2, <1>0, <1>1 DEF PairInv
  <2>3. QED
    BY <1>0, <2>1, <2>2
<1>4. CoupleInv' /\ DstInvolution'
  BY <1>0 DEF CoupleInv, DstInvolution
<1>5. ListInv'
  BY <1>0, ListFrame
<1>6. QED
  BY <1>2, <1>3, <1>4, <1>5

\* The mask shrinks to the paired ports, all of which are active.
LEMMA CheckPairsEndInv ==
  ASSUME IInv, UNCHANGED commandLine, CheckPairsEnd
  PROVE  IInv'
<1> USE DEF IInv, commandLine, dstVars, lcoreVars
<1>0. /\ loop = "checkPairs" /\ loopIdx = Len(portmap) /\ portMask' = portMask \cap pairMask
      /\ loop' = "checkMask" /\ UNCHANGED <<commandLine, loopIdx, pairMask, dstVars, lcoreVars>>
  BY DEF CheckPairsEnd
<1>1. Checked(Len(portmap)) /\ portmapGiven
  BY <1>0 DEF PairInv
<1>2. ActivePort' = pairMask
  BY <1>0, <1>1 DEF Checked, ActivePort
<1>3. SetupTypeOK'
  BY <1>0 DEF SetupTypeOK, SetupFinished
<1>4. PairInv'
  BY <1>0, <1>1, <1>2 DEF PairInv, Checked, Ends
<1>5. CoupleInv' /\ DstInvolution'
  BY <1>0 DEF CoupleInv, DstInvolution
<1>6. ListInv'
  BY <1>0, ListFrame
<1>7. QED
  BY <1>3, <1>4, <1>5, <1>6

LEMMA CheckMaskInv ==
  ASSUME IInv, UNCHANGED commandLine, CheckMask
  PROVE  IInv'
<1> USE DEF IInv, commandLine, dstVars, lcoreVars
<1>0. /\ loop = "checkMask" /\ UNCHANGED <<commandLine, portMask, pairMask, dstVars, lcoreVars>>
      /\ \/ loop' = "exitMask" /\ loopIdx' = loopIdx
         \/ loop' = (IF portmapGiven THEN "dstPairs" ELSE "dstDefault") /\ loopIdx' = 0
  BY DEF CheckMask, Exit
<1>1. SetupTypeOK'
  BY <1>0 DEF SetupTypeOK, SetupFinished
<1>2. PairInv'
  <2>1. portmapGiven => Checked(Len(portmap))' /\ (pairMask = ActivePort)'
    BY <1>0 DEF PairInv, Checked, Ends, ActivePort
  <2>2. loopIdx' = 0 => Partnered(0)'
    BY <1>0 DEF Partnered, SetupTypeOK
  <2>3. QED
    BY <2>1, <2>2, <1>0 DEF PairInv, SetupTypeOK, Partnered
<1>3. CoupleInv' /\ DstInvolution'
  <2>1. loopIdx' = 0 => Visited' = {} /\ Rank(loopIdx)' = 0
    <3> HAVE loopIdx' = 0
    <3>1. ActivePort' = ActivePort /\ ActivePort \subseteq Nat
      BY <1>0, FiniteSets, Bounds DEF ActivePort
    <3>2. Visited' = {}
      <4>1. \A p \in ActivePort : ~(p < 0)
        BY <3>1
      <4>2. QED
        BY <4>1, <3>1 DEF Visited
    <3>3. QED
      BY <3>1, <3>2, RankEnds DEF Rank
  <2>2. nbInMask' = 0
    BY <1>0 DEF CoupleInv
  <2>3. QED
    BY <2>1, <2>2, <1>0, Bounds DEF CoupleInv, DstInvolution, Coupled, Involution, Neighbours
<1>4. ListInv'
  BY <1>0, ListFrame
<1>5. QED
  BY <1>1, <1>2, <1>3, <1>4

-----------------------------------------------------------------------------
(* The loops that set l2fwd_dst_ports.                                     *)

\* The half of a pair an index stands for.
LEMMA HalfOf ==
  ASSUME NEW n \in Nat, NEW x \in 0 .. 2 * n - 1
  PROVE  /\ x \div 2 + 1 \in 1 .. n /\ x % 2 \in {0, 1}
         /\ x = 2 * (x \div 2 + 1 - 1) + (x % 2)
  OBVIOUS

LEMMA SetPairDstInv ==
  ASSUME IInv, UNCHANGED commandLine, SetPairDst
  PROVE  IInv'
<1> USE DEF IInv, commandLine, dstVars, lcoreVars
<1> DEFINE k0 == loopIdx \div 2 + 1
           h0 == loopIdx % 2
<1>0. /\ loop = "dstPairs" /\ loopIdx' = loopIdx + 1
      /\ dst' = [dst EXCEPT ![portmap[k0][h0 + 1]] = portmap[k0][2 - h0]]
      /\ UNCHANGED <<commandLine, loop, portMask, pairMask, lastPort, nbInMask, lcoreVars>>
  BY DEF SetPairDst, PairPeer
<1>1. /\ portmapGiven /\ Checked(Len(portmap)) /\ pairMask = ActivePort /\ Partnered(loopIdx)
      /\ Len(portmap) \in Nat /\ loopIdx \in 0 .. 2 * Len(portmap) - 1
  BY DEF PairInv, SetPairDst, SetupTypeOK
<1>2. k0 \in 1 .. Len(portmap) /\ h0 \in {0, 1} /\ loopIdx = 2 * (k0 - 1) + h0
  BY <1>1, HalfOf
<1>3. \A k \in 1 .. Len(portmap) : portmap[k] \in EthPort \X EthPort
  BY DEF SetupTypeOK
<1> HIDE DEF k0, h0
<1>4. portmap[k0][h0 + 1] \in EthPort /\ portmap[k0][2 - h0] \in EthPort
  BY <1>2, <1>3
<1>5. SetupTypeOK'
  BY <1>0, <1>1, <1>4 DEF SetupTypeOK, SetupFinished
<1>6. PairInv'
  <2>1. Partnered(loopIdx)'
    <3> SUFFICES ASSUME NEW k \in 1 .. Len(portmap), NEW h \in {0, 1}, 2 * (k - 1) + h < loopIdx + 1
                 PROVE  dst'[portmap[k][h + 1]] = portmap[k][2 - h]
      BY <1>0 DEF Partnered
    <3>1. CASE k = k0
      <4>1. h = h0 \/ (h = 0 /\ h0 = 1)
        BY <1>2, <3>1
      <4>2. CASE h = h0
        BY <4>2, <3>1, <1>0, <1>4 DEF SetupTypeOK
      <4>3. CASE h = 0 /\ h0 = 1
        <5>1. dst[portmap[k0][1]] = portmap[k0][2]
          BY <4>3, <3>1, <1>1, <1>2 DEF Partnered
        <5>2. portmap[k0][1] \in EthPort
          BY <1>2, <1>3
        <5>3. QED
          BY <5>1, <5>2, <4>3, <3>1, <1>0, <1>4 DEF SetupTypeOK
      <4>4. QED
        BY <4>1, <4>2, <4>3
    <3>2. CASE k # k0
      <4>1. 2 * (k - 1) + h < loopIdx
        BY <3>2, <1>2, <1>1
      <4>2. dst[portmap[k][h + 1]] = portmap[k][2 - h] /\ portmap[k][h + 1] \in EthPort
        BY <4>1, <1>1, <1>3 DEF Partnered
      <4>3. portmap[k][h + 1] \in Ends(k) /\ portmap[k0][h0 + 1] \in Ends(k0)
        BY <1>2 DEF Ends
      <4>4. portmap[k][h + 1] # portmap[k0][h0 + 1]
        BY <4>3, <3>2, <1>1, <1>2 DEF Checked
      <4>5. QED
        BY <4>2, <4>4, <1>0 DEF SetupTypeOK
    <3>3. QED
      BY <3>1, <3>2
  <2>2. Checked(Len(portmap))' /\ (pairMask = ActivePort)'
    BY <1>0, <1>1 DEF Checked, Ends, ActivePort
  <2>3. QED
    BY <2>1, <2>2, <1>0, <1>1 DEF PairInv
<1>7. CoupleInv' /\ DstInvolution'
  BY <1>0 DEF CoupleInv, DstInvolution
<1>8. ListInv'
  BY <1>0, ListFrame
<1>9. QED
  BY <1>5, <1>6, <1>7, <1>8

\* The lists at the begin of the loop over the ports.
LEMMA ListStart ==
  ASSUME IInv, UNCHANGED <<commandLine, portMask, lcoreVars>>,
         loop \in {"dstPairs", "dstDefault"}, loop' = "lcores", loopIdx' = 0
  PROVE  ListInv'
<1> USE DEF IInv, commandLine, lcoreVars
<1>1. /\ rxLcore = 0 /\ qconf = -1 /\ nbLcores = 0
      /\ \A l \in LcoreNo : rxPortList[l] = <<>>
      /\ enabledLcores \subseteq LcoreNo /\ 0 \in LcoreNo
  BY Bounds DEF ListInv, SetupTypeOK, LcoreNo
<1>2. ActivePort' = ActivePort /\ ActivePort \subseteq Nat
  BY FiniteSets, Bounds DEF ActivePort
<1>3. Visited' = {}
  <2>1. \A p \in ActivePort : ~(p < 0)
    BY <1>2
  <2>2. QED
    BY <2>1, <1>2 DEF Visited
<1>4. {p \in EthPort : \E l \in enabledLcores :
         \E a \in 1 .. Len(rxPortList[l]) : rxPortList[l][a] = p} = {}
  <2>1. \A l \in enabledLcores : Len(rxPortList[l]) = 0
    BY <1>1
  <2>2. QED
    BY <2>1
<1>5. Used = {}
  BY <1>1 DEF Used
<1>6. OnePlace
  BY <1>1 DEF OnePlace
<1>7. Used' = {} /\ OnePlace'
  BY <1>5, <1>6 DEF Used, OnePlace
<1>8. \A l \in LcoreNo : l \in Nat
  BY Bounds
<1>9. /\ \A l \in enabledLcores : ~(l < 0)
      /\ 0 \in 0 .. RteMaxEthports
  BY <1>1, <1>8, Bounds
<1>10. QED
  BY <1>1, <1>3, <1>4, <1>7, <1>9, FS_EmptySet DEF ListInv

LEMMA SetPairDstEndInv ==
  ASSUME IInv, UNCHANGED commandLine, SetPairDstEnd
  PROVE  IInv'
<1> USE DEF IInv, commandLine, dstVars
<1>0. /\ loop = "dstPairs" /\ loopIdx = 2 * Len(portmap) /\ loop' = "lcores" /\ loopIdx' = 0
      /\ UNCHANGED <<commandLine, portMask, pairMask, dst, lastPort, nbInMask, lcoreVars>>
  BY DEF SetPairDstEnd
<1>1. /\ portmapGiven /\ Checked(Len(portmap)) /\ pairMask = ActivePort
      /\ Partnered(2 * Len(portmap)) /\ Len(portmap) \in Nat
  BY <1>0 DEF PairInv, SetupTypeOK
<1>2. SetupTypeOK'
  BY <1>0 DEF SetupTypeOK, SetupFinished, lcoreVars
<1>3. PairInv'
  BY <1>0, <1>1 DEF PairInv, Checked, Ends, ActivePort, Partnered
<1>4. CoupleInv'
  BY <1>0, <1>1 DEF CoupleInv
<1>5. DstInvolution'
  <2> SUFFICES ASSUME NEW p \in ActivePort PROVE dst[p] \in ActivePort /\ dst[dst[p]] = p
    BY <1>0 DEF DstInvolution, ActivePort
  <2>1. PICK k \in 1 .. Len(portmap) : p \in Ends(k)
    BY <1>1 DEF Checked
  <2>2. portmap[k] \in EthPort \X EthPort
    BY DEF SetupTypeOK
  <2>3. dst[portmap[k][1]] = portmap[k][2] /\ dst[portmap[k][2]] = portmap[k][1]
    <3>1. 2 * (k - 1) + 0 < 2 * Len(portmap) /\ 2 * (k - 1) + 1 < 2 * Len(portmap)
      BY <1>1
    <3>2. dst[portmap[k][0 + 1]] = portmap[k][2 - 0] /\ dst[portmap[k][1 + 1]] = portmap[k][2 - 1]
      BY <3>1, <1>1 DEF Partnered
    <3>3. QED
      BY <3>2
  <2>4. Ends(k) \subseteq ActivePort
    BY <1>1, <2>2 DEF Checked, Ends
  <2>5. QED
    BY <2>1, <2>3, <2>4 DEF Ends
<1>6. ListInv'
  BY <1>0, ListStart
<1>7. QED
  BY <1>2, <1>3, <1>4, <1>5, <1>6

\* One port of the loop without --portmap: idle, the first of a couple or the second.
LEMMA SetDefaultDstCouples ==
  ASSUME IInv, UNCHANGED commandLine, SetDefaultDst
  PROVE  CoupleInv'
<1> USE DEF IInv, commandLine, dstVars, lcoreVars
<1>0. /\ loop = "dstDefault" /\ loop' = loop /\ loopIdx' = loopIdx + 1 /\ ActivePort' = ActivePort
      /\ portmapGiven' = portmapGiven
  BY DEF SetDefaultDst, ActivePort
<1>1. /\ ~portmapGiven /\ loopIdx \in 0 .. RteMaxEthports - 1 /\ nbInMask = Rank(loopIdx)
      /\ Involution(Coupled) /\ Neighbours(Visited)
      /\ nbInMask % 2 = 1 => lastPort \in Visited /\ Rank(lastPort) + 1 = nbInMask
  BY <1>0, Bounds DEF CoupleInv, SetDefaultDst
<1>2. /\ ActivePort \subseteq Nat /\ ActivePort \subseteq EthPort /\ dst \in [EthPort -> EthPort]
      /\ loopIdx \in Nat /\ nbInMask \in Nat
  BY <1>1, FiniteSets, Bounds DEF SetupTypeOK
<1>3. Visited' = IF loopIdx \in ActivePort THEN Visited \cup {loopIdx} ELSE Visited
  <2>1. \A y \in ActivePort : y < loopIdx + 1 <=> y < loopIdx \/ y = loopIdx
    BY <1>2
  <2>2. QED
    BY <2>1, <1>0 DEF Visited
<1>4. \A x : Rank(x)' = Rank(x)
  BY <1>0 DEF Rank
<1>5. Rank(loopIdx)' = IF loopIdx \in ActivePort THEN nbInMask + 1 ELSE nbInMask
  BY <1>0, <1>1, <1>2, RankStep DEF Rank
<1>6. /\ Visited \subseteq ActivePort /\ loopIdx \notin Visited
      /\ \A p \in Visited : Rank(p) \in Nat /\ Rank(p) < nbInMask
  <2>1. Visited \subseteq ActivePort /\ \A p \in Visited : p < loopIdx
    BY DEF Visited
  <2>2. loopIdx \notin Visited
    BY <2>1, <1>2
  <2>3. ASSUME NEW p \in Visited PROVE Rank(p) \in Nat /\ Rank(p) < nbInMask
    BY <2>1, <1>1, <1>2, RankOrder
  <2>4. QED
    BY <2>1, <2>2, <2>3
<1>7. loopIdx' \in 0 .. RteMaxEthports
  BY <1>0, <1>1, Bounds
<1>8. CASE loopIdx \notin ActivePort
  <2>1. UNCHANGED <<dst, lastPort, nbInMask>> /\ Visited' = Visited
    BY <1>3, <1>8 DEF SetDefaultDst
  <2>2. Involution(Coupled)' /\ Neighbours(Visited)'
    BY <2>1, <1>1, <1>4 DEF Involution, Coupled, Neighbours
  <2>3. QED
    BY <2>1, <2>2, <1>0, <1>1, <1>4, <1>5, <1>7, <1>8 DEF CoupleInv
<1>9. CASE loopIdx \in ActivePort /\ nbInMask % 2 = 1
  <2>1. /\ dst' = [dst EXCEPT ![loopIdx] = lastPort, ![lastPort] = loopIdx]
        /\ nbInMask' = nbInMask + 1 /\ lastPort' = lastPort
    BY <1>9 DEF SetDefaultDst, ClosesCouple
  <2>2. (nbInMask + 1) % 2 = 0
    BY <1>2, <1>9
  <2>3. Coupled' = Visited \cup {loopIdx} /\ Coupled = Visited \ {lastPort}
    BY <2>1, <2>2, <1>3, <1>9 DEF Coupled
  <2>4. /\ lastPort \in Visited /\ Rank(lastPort) + 1 = nbInMask
        /\ dst'[loopIdx] = lastPort /\ dst'[lastPort] = loopIdx
        /\ \A p \in ActivePort \ {loopIdx, lastPort} : dst'[p] = dst[p]
    BY <2>1, <1>1, <1>2, <1>6, <1>9
  <2>5. Involution(Coupled)'
    <3> SUFFICES ASSUME NEW p \in Visited \cup {loopIdx}
                 PROVE  dst'[p] \in Visited \cup {loopIdx} /\ dst'[dst'[p]] = p
      BY <2>3 DEF Involution
    <3>1. CASE p \in {loopIdx, lastPort}
      BY <3>1, <2>4
    <3>2. CASE p \notin {loopIdx, lastPort}
      <4>1. dst[p] \in Visited \ {lastPort} /\ dst[dst[p]] = p
        BY <3>2, <2>3, <1>1 DEF Involution
      <4>2. QED
        BY <4>1, <3>2, <2>4, <1>6
    <3>3. QED
      BY <3>1, <3>2
  <2>6. Neighbours(Visited)'
    <3> SUFFICES ASSUME NEW p \in Visited \cup {loopIdx}, NEW q \in Visited \cup {loopIdx},
                        Rank(p) % 2 = 0, Rank(q) = Rank(p) + 1
                 PROVE  dst'[p] = q
      BY <1>3, <1>4, <1>9 DEF Neighbours
    <3>0. p \in ActivePort /\ q \in ActivePort /\ lastPort \in ActivePort
      BY <1>6, <1>9, <2>4
    <3>1. p # loopIdx
      BY <1>1, <1>9
    <3>2. CASE p = lastPort
      <4>1. Rank(q) = Rank(loopIdx)
        BY <3>2, <2>4, <1>1
      <4>2. q = loopIdx
        BY <4>1, <3>0, <1>9, RankApart
      <4>3. QED
        BY <4>2, <3>2, <2>4
    <3>3. CASE p # lastPort
      <4>1. CASE q = loopIdx
        <5>1. Rank(p) = Rank(lastPort)
          BY <4>1, <2>4, <1>1, <1>6, <3>1
        <5>2. QED
          BY <5>1, <3>0, <3>3, RankApart
      <4>2. CASE q # loopIdx
        <5>1. dst[p] = q
          BY <4>2, <3>1, <1>1 DEF Neighbours
        <5>2. QED
          BY <5>1, <3>0, <3>1, <3>3, <2>4
      <4>3. QED
        BY <4>1, <4>2
    <3>4. QED
      BY <3>2, <3>3
  <2>7. QED
    BY <2>1, <2>2, <2>5, <2>6, <1>0, <1>1, <1>5, <1>7, <1>9 DEF CoupleInv
<1>10. CASE loopIdx \in ActivePort /\ nbInMask % 2 # 1
  <2>1. dst' = dst /\ nbInMask' = nbInMask + 1 /\ lastPort' = loopIdx
    BY <1>10 DEF SetDefaultDst, ClosesCouple
  <2>2. (nbInMask + 1) % 2 = 1 /\ nbInMask % 2 = 0
    BY <1>2, <1>10
  <2>3. Coupled' = Visited /\ Coupled = Visited
    BY <2>1, <2>2, <1>3, <1>6, <1>10 DEF Coupled
  <2>4. Involution(Coupled)'
    BY <2>1, <2>3, <1>1 DEF Involution
  <2>5. Neighbours(Visited)'
    <3> SUFFICES ASSUME NEW p \in Visited \cup {loopIdx}, NEW q \in Visited \cup {loopIdx},
                        Rank(p) % 2 = 0, Rank(q) = Rank(p) + 1
                 PROVE  dst[p] = q
      BY <1>3, <1>4, <1>10, <2>1 DEF Neighbours
    <3>1. p # loopIdx
      BY <1>1, <1>2, <1>6
    <3>2. q # loopIdx
      BY <1>1, <1>6, <3>1, <2>2
    <3>3. QED
      BY <3>1, <3>2, <1>1 DEF Neighbours
  <2>6. lastPort' \in Visited' /\ Rank(lastPort)' + 1 = nbInMask'
    BY <2>1, <1>0, <1>1, <1>3, <1>10 DEF Rank
  <2>7. QED
    BY <2>1, <2>4, <2>5, <2>6, <1>0, <1>1, <1>5, <1>7, <1>10 DEF CoupleInv
<1>11. QED
  BY <1>8, <1>9, <1>10

LEMMA SetDefaultDstInv ==
  ASSUME IInv, UNCHANGED commandLine, SetDefaultDst
  PROVE  IInv'
<1> USE DEF IInv, commandLine, dstVars
<1>0. /\ loop = "dstDefault" /\ loop' = loop /\ loopIdx' = loopIdx + 1
      /\ UNCHANGED <<commandLine, portMask, pairMask, lcoreVars>>
      /\ loopIdx \in 0 .. RteMaxEthports - 1 /\ ~portmapGiven
  BY Bounds DEF SetDefaultDst, CoupleInv
<1>1. SetupTypeOK'
  <2>1. loopIdx \in EthPort /\ dst' \in [EthPort -> EthPort] /\ lastPort' \in EthPort /\ nbInMask' \in Nat
    BY <1>0 DEF SetDefaultDst, SetupTypeOK, EthPort
  <2>2. QED
    BY <2>1, <1>0 DEF SetupTypeOK, lcoreVars
<1>2. PairInv' /\ DstInvolution'
  BY <1>0 DEF PairInv, DstInvolution
<1>3. ListInv'
  BY <1>0, ListFrame
<1>4. QED
  BY <1>1, <1>2, <1>3, SetDefaultDstCouples

\* The odd port out.
LEMMA SetDefaultDstEndInv ==
  ASSUME IInv, UNCHANGED commandLine, SetDefaultDstEnd
  PROVE  IInv'
<1> USE DEF IInv, commandLine
<1>0. /\ loop = "dstDefault" /\ loopIdx = RteMaxEthports /\ loop' = "lcores" /\ loopIdx' = 0
      /\ dst' = IF nbInMask % 2 = 1 THEN [dst EXCEPT ![lastPort] = lastPort] ELSE dst
      /\ UNCHANGED <<commandLine, portMask, pairMask, lastPort, nbInMask, lcoreVars>>
      /\ ActivePort' = ActivePort /\ portmapGiven' = portmapGiven
  BY DEF SetDefaultDstEnd, ActivePort
<1>1. /\ ~portmapGiven /\ nbInMask = Rank(loopIdx) /\ Involution(Coupled) /\ Neighbours(Visited)
      /\ nbInMask % 2 = 1 => lastPort \in Visited /\ Rank(lastPort) + 1 = nbInMask
  BY <1>0 DEF CoupleInv
<1>2. ActivePort \subseteq EthPort /\ dst \in [EthPort -> EthPort] /\ lastPort \in EthPort
  BY FiniteSets DEF SetupTypeOK
<1>3. Visited = ActivePort /\ nbInMask = Cardinality(ActivePort)
  <2>1. \A y \in ActivePort : y < RteMaxEthports
    BY <1>2, Bounds DEF EthPort
  <2>2. QED
    BY <2>1, <1>0, <1>1, RankEnds DEF Visited
<1>4. /\ nbInMask % 2 = 1 => dst'[lastPort] = lastPort
      /\ \A p \in Coupled : dst'[p] = dst[p]
  BY <1>0, <1>2, <1>3 DEF Coupled
<1>5. DstInvolution'
  <2> SUFFICES ASSUME NEW p \in ActivePort PROVE dst'[p] \in ActivePort /\ dst'[dst'[p]] = p
    BY <1>0 DEF DstInvolution
  <2>1. CASE p \in Coupled
    BY <2>1, <1>1, <1>3, <1>4 DEF Involution, Coupled
  <2>2. CASE p \notin Coupled
    BY <2>2, <1>1, <1>3, <1>4 DEF Coupled
  <2>3. QED
    BY <2>1, <2>2
<1>6. CoupleInv'
  <2>0. /\ \A x : Rank(x)' = Rank(x)
        /\ \A p \in ActivePort : Rank(p) \in Nat
    BY <1>0, <1>2, RankStep, Bounds DEF Rank
  <2>1. ASSUME NEW p \in ActivePort, NEW q \in ActivePort, Rank(p) % 2 = 0, Rank(q) = Rank(p) + 1
        PROVE  dst'[p] = q
    <3>1. dst[p] = q
      BY <2>1, <1>1, <1>3 DEF Neighbours
    <3>2. p \in Coupled
      <4>1. q \in Nat /\ q < RteMaxEthports /\ RteMaxEthports \in Nat
        BY <1>2, Bounds DEF EthPort
      <4>2. Rank(q) < Cardinality(ActivePort)
        BY <4>1, RankOrder, RankEnds
      <4>3. QED
        BY <4>2, <2>0, <2>1, <1>1, <1>3 DEF Coupled
    <3>3. QED
      BY <3>1, <3>2, <1>4
  <2>2. ASSUME NEW p \in ActivePort, Rank(p) % 2 = 0, Rank(p) + 1 = Cardinality(ActivePort)
        PROVE  dst'[p] = p
    <3>1. nbInMask % 2 = 1
      BY <2>0, <2>2, <1>3
    <3>2. p = lastPort
      <4>1. Rank(p) = Rank(lastPort) /\ lastPort \in ActivePort
        BY <3>1, <2>0, <2>2, <1>1, <1>3
      <4>2. QED
        BY <4>1, RankApart
    <3>3. QED
      BY <3>1, <3>2, <1>4
  <2>3. QED
    BY <2>0, <2>1, <2>2, <1>0, <1>1 DEF CoupleInv, Neighbours
<1>7. SetupTypeOK'
  <2>1. dst' \in [EthPort -> EthPort]
    BY <1>0, <1>2
  <2>2. QED
    BY <2>1, <1>0 DEF SetupTypeOK, SetupFinished, lcoreVars
<1>8. PairInv'
  BY <1>0, <1>1 DEF PairInv
<1>9. ListInv'
  BY <1>0, ListStart
<1>10. QED
  BY <1>5, <1>6, <1>7, <1>8, <1>9

-----------------------------------------------------------------------------
(* The pass over the ports and lcores.                                     *)

\* It leaves the destinations alone.
LEMMA DstFrame ==
  ASSUME IInv, UNCHANGED <<commandLine, portMask, pairMask, dstVars>>,
         loop = "lcores", loop' \in {"lcores", "launch", "exitCores", "exitNoPorts"}
  PROVE  PairInv' /\ CoupleInv' /\ DstInvolution'
<1> USE DEF IInv, commandLine, dstVars
<1>1. ActivePort' = ActivePort
  BY DEF ActivePort
<1>2. PairInv'
  BY <1>1 DEF PairInv, Checked, Ends, Partnered
<1>3. CoupleInv'
  BY <1>1 DEF CoupleInv, Neighbours, Rank
<1>4. DstInvolution'
  BY <1>1 DEF DstInvolution
<1>5. QED
  BY <1>2, <1>3, <1>4

\* The ports visited after one more.
LEMMA VisitedNext ==
  ASSUME SetupTypeOK, loopIdx' = loopIdx + 1, UNCHANGED <<present, portMask>>
  PROVE  Visited' = (IF loopIdx \in ActivePort THEN Visited \cup {loopIdx} ELSE Visited) /\ loopIdx \notin Visited
<1>0. ActivePort' = ActivePort /\ ActivePort \subseteq Nat /\ loopIdx \in Nat
  BY FiniteSets, Bounds DEF ActivePort, SetupTypeOK
<1>1. \A y \in ActivePort : y < loopIdx + 1 <=> y < loopIdx \/ y = loopIdx
  BY <1>0
<1>2. loopIdx \notin Visited
  BY <1>0 DEF Visited
<1>3. QED
  BY <1>0, <1>1, <1>2 DEF Visited

\* What ListInv says of the pass.
LEMMA PassFacts ==
  ASSUME IInv, loop = "lcores"
  PROVE  /\ loopIdx \in 0 .. RteMaxEthports /\ rxLcore \in LcoreNo /\ rxLcore \in Nat
         /\ enabledLcores \subseteq LcoreNo /\ LcoreNo \subseteq Nat /\ qconf \in Int
         /\ rxPortList \in [LcoreNo -> Seq(EthPort)]
         /\ ActivePort \subseteq EthPort
  BY FiniteSets, Bounds DEF IInv, ListInv, SetupTypeOK

LEMMA SkipPortInv ==
  ASSUME IInv, UNCHANGED commandLine, SkipPort
  PROVE  IInv'
<1> USE DEF IInv, commandLine, lcoreVars
<1>0. /\ loop = "lcores" /\ loop' = loop /\ loopIdx' = loopIdx + 1 /\ loopIdx \notin ActivePort
      /\ loopIdx \in 0 .. RteMaxEthports - 1
      /\ UNCHANGED <<commandLine, portMask, pairMask, dstVars, lcoreVars>>
  BY PassFacts, Bounds DEF SkipPort
<1>1. SetupTypeOK'
  BY <1>0 DEF SetupTypeOK, dstVars
<1>2. Visited' = Visited
  BY <1>0, VisitedNext
<1>3. loopIdx' \in 0 .. RteMaxEthports
  BY <1>0, Bounds
<1>4. Used' = Used /\ OnePlace' = OnePlace
  BY <1>0 DEF Used, OnePlace
<1>5. ListInv'
  BY <1>0, <1>2, <1>3, <1>4 DEF ListInv
<1>6. QED
  BY <1>0, <1>1, <1>5, DstFrame

LEMMA NextLcoreInv ==
  ASSUME IInv, UNCHANGED commandLine, NextLcore
  PROVE  IInv'
<1> USE DEF IInv, commandLine
<1>0. /\ loop = "lcores" /\ loopIdx \in ActivePort /\ LcoreUnfit(rxLcore) /\ rxLcore' = rxLcore + 1
      /\ loop' = IF rxLcore + 1 >= RteMaxLcore THEN "exitCores" ELSE loop
      /\ UNCHANGED <<commandLine, portMask, loopIdx, pairMask, dstVars, qconf, nbLcores, rxPortList>>
  BY DEF NextLcore, OutOfLcores
<1>1. /\ rxLcore \in LcoreNo /\ rxLcore \in Nat /\ RteMaxLcore \in Nat
      /\ LcoreNo \subseteq Nat /\ enabledLcores \subseteq LcoreNo /\ qconf \in Int
  BY <1>0, PassFacts, Bounds
<1>2. rxLcore + 1 \in 0 .. RteMaxLcore /\ (rxLcore + 1 < RteMaxLcore => rxLcore + 1 \in LcoreNo)
  BY <1>1 DEF LcoreNo
<1>3. SetupTypeOK'
  BY <1>0, <1>2 DEF SetupTypeOK, dstVars, SetupFinished
<1>4. Visited' = Visited /\ Used' = Used /\ OnePlace' = OnePlace /\ ActivePort' = ActivePort
  BY <1>0 DEF Visited, Used, OnePlace, ActivePort
<1>5. \A l \in enabledLcores : l < rxLcore + 1 => Len(rxPortList[l]) = nq
  <2> SUFFICES ASSUME NEW l \in enabledLcores, l < rxLcore + 1 PROVE Len(rxPortList[l]) = nq
    OBVIOUS
  <2>1. l < rxLcore \/ l = rxLcore
    BY <1>1
  <2>2. QED
    BY <2>1, <1>0 DEF ListInv, LcoreUnfit
<1>6. /\ \A l \in LcoreNo : l > rxLcore + 1 => rxPortList[l] = <<>>
      /\ qconf <= rxLcore + 1 /\ qconf # rxLcore + 1
      /\ rxLcore + 1 \in LcoreNo => rxPortList[rxLcore + 1] = <<>>
  BY <1>0, <1>1 DEF ListInv
<1>7. ListInv'
  <2>1. CASE rxLcore + 1 >= RteMaxLcore
    <3>1. rxLcore + 1 = RteMaxLcore /\ loop' = "exitCores"
      BY <2>1, <1>0, <1>1, <1>2
    <3>2. QED
      BY <3>1, <1>0, <1>4, <1>5, <1>6 DEF ListInv
  <2>2. CASE ~(rxLcore + 1 >= RteMaxLcore)
    <3>1. rxLcore + 1 \in LcoreNo /\ loop' = loop
      BY <2>2, <1>0, <1>1, <1>2
    <3>2. QED
      BY <3>1, <1>0, <1>4, <1>5, <1>6 DEF ListInv
  <2>3. QED
    BY <2>1, <2>2
<1>8. PairInv' /\ CoupleInv' /\ DstInvolution'
  BY <1>0, DstFrame
<1>9. QED
  BY <1>3, <1>7, <1>8

LEMMA AssignPortInv ==
  ASSUME IInv, UNCHANGED commandLine, AssignPort
  PROVE  IInv'
<1> USE DEF IInv, commandLine
<1> DEFINE r == rxLcore
<1>0. /\ loop = "lcores" /\ loop' = loop /\ loopIdx \in ActivePort /\ ~LcoreUnfit(r) /\ loopIdx' = loopIdx + 1
      /\ qconf' = r /\ nbLcores' = (IF qconf # r THEN nbLcores + 1 ELSE nbLcores)
      /\ rxPortList' = [rxPortList EXCEPT ![r] = Append(@, loopIdx)]
      /\ UNCHANGED <<commandLine, portMask, pairMask, dstVars, rxLcore>>
  BY DEF AssignPort, NewLcore
<1>1. /\ r \in LcoreNo /\ r \in Nat /\ r \in enabledLcores /\ enabledLcores \subseteq LcoreNo
      /\ LcoreNo \subseteq Nat /\ qconf \in Int
      /\ rxPortList \in [LcoreNo -> Seq(EthPort)] /\ loopIdx \in EthPort /\ RteMaxEthports \in Nat
      /\ nq \in Nat /\ MaxRxQueue \in Nat /\ nq < MaxRxQueue
      /\ \A l \in LcoreNo : Len(rxPortList[l]) \in Nat
  BY <1>0, PassFacts, Bounds, SMTT(30) DEF LcoreUnfit, SetupTypeOK, ParsedNqueue
<1>2. Len(rxPortList[r]) < nq
  BY <1>0, <1>1 DEF LcoreUnfit, SetupTypeOK
<1>3. /\ rxPortList'[r] \in Seq(EthPort) /\ rxPortList'[r] # <<>>
      /\ Len(rxPortList'[r]) = Len(rxPortList[r]) + 1
      /\ \A a \in 1 .. Len(rxPortList[r]) : rxPortList'[r][a] = rxPortList[r][a]
      /\ rxPortList'[r][Len(rxPortList[r]) + 1] = loopIdx
      /\ \A l \in LcoreNo \ {r} : rxPortList'[l] = rxPortList[l]
  BY <1>0, <1>1
<1>31. ASSUME NEW l \in enabledLcores
       PROVE  /\ \A a \in 1 .. Len(rxPortList[l]) :
                   a \in 1 .. Len(rxPortList'[l]) /\ rxPortList'[l][a] = rxPortList[l][a]
              /\ \A a \in 1 .. Len(rxPortList'[l]) :
                   (l = r /\ a = Len(rxPortList[r]) + 1) \/ a \in 1 .. Len(rxPortList[l])
  <2>0. l \in LcoreNo /\ Len(rxPortList[l]) \in Nat
    BY <1>1
  <2>1. CASE l = r
    BY <2>0, <2>1, <1>3
  <2>2. CASE l # r
    <3>1. rxPortList'[l] = rxPortList[l]
      BY <2>0, <2>2, <1>3
    <3>2. QED
      BY <3>1, <2>2
  <2>3. QED
    BY <2>1, <2>2
<1>4. SetupTypeOK'
  <2>1. rxPortList' \in [LcoreNo -> Seq(EthPort)]
    BY <1>0, <1>1, <1>3
  <2>2. ASSUME NEW l \in LcoreNo
        PROVE  Len(rxPortList'[l]) <= nq /\ Len(rxPortList'[l]) < MaxRxQueue
    <3>1. CASE l = r
      <4>1. Len(rxPortList'[l]) = Len(rxPortList[r]) + 1 /\ Len(rxPortList[r]) \in Nat
        BY <3>1, <1>1, <1>3
      <4>2. QED
        BY <4>1, <1>1, <1>2
    <3>2. CASE l # r
      BY <3>2, <1>3 DEF SetupTypeOK
    <3>3. QED
      BY <3>1, <3>2
  <2>3. QED
    BY <2>1, <2>2, <1>0, <1>1 DEF SetupTypeOK, dstVars
<1>5. /\ Visited' = Visited \cup {loopIdx} /\ loopIdx \notin Visited
      /\ Visited = {p \in EthPort : \E l \in enabledLcores :
                      \E a \in 1 .. Len(rxPortList[l]) : rxPortList[l][a] = p}
  BY <1>0, VisitedNext DEF ListInv
<1>6. \A l \in enabledLcores : \A a \in 1 .. Len(rxPortList[l]) :
        rxPortList[l][a] \in Visited /\ rxPortList[l][a] # loopIdx
  BY <1>1, <1>5
<1>7. Visited' = {p \in EthPort : \E l \in enabledLcores :
                    \E a \in 1 .. Len(rxPortList'[l]) : rxPortList'[l][a] = p}
  <2>1. ASSUME NEW p \in Visited \cup {loopIdx}
        PROVE  \E l \in enabledLcores : \E a \in 1 .. Len(rxPortList'[l]) : rxPortList'[l][a] = p
    <3>1. CASE p = loopIdx
      <4>1. Len(rxPortList[r]) + 1 \in 1 .. Len(rxPortList'[r])
        BY <1>1, <1>3
      <4>2. QED
        BY <4>1, <3>1, <1>1, <1>3
    <3>2. CASE p # loopIdx
      <4>1. PICK l \in enabledLcores : \E a \in 1 .. Len(rxPortList[l]) : rxPortList[l][a] = p
        BY <3>2, <2>1, <1>5
      <4>2. PICK a \in 1 .. Len(rxPortList[l]) : rxPortList[l][a] = p
        BY <4>1
      <4>3. a \in 1 .. Len(rxPortList'[l]) /\ rxPortList'[l][a] = p
        BY <4>2, <1>31
      <4>4. QED
        BY <4>3
    <3>3. QED
      BY <3>1, <3>2
  <2>2. ASSUME NEW l \in enabledLcores, NEW a \in 1 .. Len(rxPortList'[l])
        PROVE  rxPortList'[l][a] \in Visited \cup {loopIdx}
    <3>1. CASE l = r /\ a = Len(rxPortList[r]) + 1
      BY <3>1, <1>3
    <3>2. CASE ~(l = r /\ a = Len(rxPortList[r]) + 1)
      <4>1. a \in 1 .. Len(rxPortList[l]) /\ rxPortList'[l][a] = rxPortList[l][a]
        BY <3>2, <1>1, <1>3
      <4>2. QED
        BY <4>1, <1>6
    <3>3. QED
      BY <3>1, <3>2
  <2>3. Visited \cup {loopIdx} \subseteq EthPort
    BY <1>1, <1>5
  <2>4. QED
    BY <2>1, <2>2, <2>3, <1>5
<1>8. OnePlace'
  <2> SUFFICES ASSUME NEW k \in enabledLcores, NEW l \in enabledLcores,
                      NEW a \in 1 .. Len(rxPortList'[k]), NEW b \in 1 .. Len(rxPortList'[l]),
                      rxPortList'[k][a] = rxPortList'[l][b]
               PROVE  k = l /\ a = b
    BY <1>0 DEF OnePlace
  <2> DEFINE New(m, c) == m = r /\ c = Len(rxPortList[r]) + 1
  <2>1. /\ New(k, a) \/ (a \in 1 .. Len(rxPortList[k]) /\ rxPortList'[k][a] = rxPortList[k][a])
        /\ New(l, b) \/ (b \in 1 .. Len(rxPortList[l]) /\ rxPortList'[l][b] = rxPortList[l][b])
    BY <1>31
  <2>2. CASE New(k, a) /\ New(l, b)
    BY <2>2
  <2>3. CASE ~New(k, a) /\ ~New(l, b)
    BY <2>1, <2>3, <1>0 DEF ListInv, OnePlace
  <2>4. CASE New(k, a) /\ ~New(l, b)
    <3>1. rxPortList[l][b] = loopIdx /\ b \in 1 .. Len(rxPortList[l])
      BY <2>1, <2>4, <1>3
    <3>2. QED
      BY <3>1, <1>6
  <2>5. CASE ~New(k, a) /\ New(l, b)
    <3>1. rxPortList[k][a] = loopIdx /\ a \in 1 .. Len(rxPortList[k])
      BY <2>1, <2>5, <1>3
    <3>2. QED
      BY <3>1, <1>6
  <2>6. QED
    BY <2>2, <2>3, <2>4, <2>5
<1>9. nbLcores' = Cardinality(Used')
  <2>1. Used' = Used \cup {r}
    <3>1. \A l \in enabledLcores : rxPortList'[l] # <<>> <=> rxPortList[l] # <<>> \/ l = r
      BY <1>1, <1>3
    <3>2. QED
      BY <3>1, <1>0, <1>1 DEF Used
  <2>2. r \in Used <=> qconf = r
    BY <1>0, <1>1 DEF Used, ListInv
  <2>3. IsFiniteSet(Used)
    <3>1. Used \subseteq enabledLcores
      BY DEF Used
    <3>2. QED
      BY <3>1, FiniteSets, FS_Subset
  <2>4. nbLcores = Cardinality(Used) /\ nbLcores \in Nat
    BY <1>0 DEF ListInv, SetupTypeOK
  <2>5. QED
    BY <2>1, <2>2, <2>3, <2>4, <1>0, FS_AddElement
<1>10. ListInv'
  <2>1. loopIdx' \in 0 .. RteMaxEthports
    BY <1>0, <1>1 DEF EthPort
  <2>2. \A l \in LcoreNo \ enabledLcores : rxPortList'[l] = <<>>
    BY <1>0, <1>1, <1>3 DEF ListInv
  <2>3. \A l \in enabledLcores : l < r => Len(rxPortList'[l]) = nq
    BY <1>0, <1>1, <1>3 DEF ListInv
  <2>4. \A l \in LcoreNo : l > r => rxPortList'[l] = <<>>
    BY <1>0, <1>1, <1>3 DEF ListInv
  <2>5. qconf' <= rxLcore' /\ qconf' = rxLcore' /\ rxLcore' \in LcoreNo /\ rxPortList'[rxLcore'] # <<>>
    BY <1>0, <1>1, <1>3
  <2>6. QED
    BY <2>1, <2>2, <2>3, <2>4, <2>5, <1>0, <1>7, <1>8, <1>9 DEF ListInv
<1>11. PairInv' /\ CoupleInv' /\ DstInvolution'
  BY <1>0, DstFrame
<1>12. QED
  BY <1>4, <1>10, <1>11

\* After the port loops.
LEMMA AssignEndInv ==
  ASSUME IInv, UNCHANGED commandLine, AssignEnd
  PROVE  IInv'
<1> USE DEF IInv, commandLine, lcoreVars
<1>0. /\ loop = "lcores" /\ loopIdx = RteMaxEthports
      /\ loop' \in {"exitNoPorts", "launch"}
      /\ UNCHANGED <<commandLine, portMask, loopIdx, pairMask, dstVars, lcoreVars>>
  BY DEF AssignEnd
<1>1. SetupTypeOK'
  BY <1>0 DEF SetupTypeOK, dstVars, SetupFinished
<1>2. Visited' = Visited /\ Used' = Used /\ OnePlace' = OnePlace
  BY <1>0 DEF Visited, Used, OnePlace, ActivePort
<1>3. ListInv'
  BY <1>0, <1>2 DEF ListInv
<1>4. QED
  BY <1>0, <1>1, <1>3, DstFrame

\* Nothing changes once main() has left the configuration.
LEMMA StutterInv ==
  ASSUME IInv, UNCHANGED setupVars
  PROVE  IInv'
<1> USE DEF IInv, setupVars, commandLine, dstVars, lcoreVars
<1>1. ActivePort' = ActivePort /\ Visited' = Visited /\ Used' = Used /\ OnePlace' = OnePlace
  BY DEF ActivePort, Visited, Used, OnePlace
<1>2. SetupTypeOK'
  BY DEF SetupTypeOK
<1>3. PairInv'
  BY <1>1 DEF PairInv, Checked, Ends, Partnered
<1>4. CoupleInv'
  <2>1. \A x : Rank(x)' = Rank(x)
    BY <1>1 DEF Rank
  <2>2. /\ Coupled' = Coupled
        /\ \A S : Involution(S)' = Involution(S)
        /\ \A S : Neighbours(S)' = Neighbours(S)
    BY <1>1, <2>1 DEF Coupled, Involution, Neighbours
  <2>3. QED
    BY <1>1, <2>1, <2>2 DEF CoupleInv, Involution, Neighbours
<1>5. DstInvolution'
  BY <1>1 DEF DstInvolution
<1>6. ListInv'
  BY <1>1 DEF ListInv
<1>7. QED
  BY <1>2, <1>3, <1>4, <1>5, <1>6

-----------------------------------------------------------------------------
LEMMA InitInv == SetupInit => IInv
<1> SUFFICES ASSUME SetupInit PROVE IInv
  OBVIOUS
<1>1. SetupTypeOK
  <2>1. portmap \in Seq(EthPort \X EthPort)
    <3>1. CASE portmapGiven
      <4>1. PICK n \in 0 .. MaxPairs : portmap \in [1 .. n -> EthPort \X EthPort]
        BY <3>1 DEF SetupInit, ParsedPortmap
      <4>2. n \in Nat
        BY SetupAssumption
      <4>3. QED
        BY <4>1, <4>2
    <3>2. CASE ~portmapGiven
      BY <3>2 DEF SetupInit
    <3>3. QED
      BY <3>1, <3>2
  <2>2. 0 \in EthPort /\ nq \in Nat /\ nq > 0 /\ nq < MaxRxQueue
    BY SetupAssumption DEF SetupInit, EthPort, ParsedNqueue
  <2>3. QED
    BY <2>1, <2>2, Bounds DEF SetupInit, SetupTypeOK
<1>2. PairInv
  <2>1. Len(portmap) \in Nat
    BY <1>1 DEF SetupTypeOK
  <2>2. Checked(0)
    BY DEF SetupInit, Checked
  <2>3. QED
    BY <2>1, <2>2 DEF SetupInit, PairInv
<1>3. CoupleInv /\ DstInvolution /\ ListInv
  BY DEF SetupInit, CoupleInv, DstInvolution, ListInv
<1>4. QED
  BY <1>1, <1>2, <1>3 DEF IInv

LEMMA NextInv == IInv /\ [SetupNext]_setupVars => IInv'
<1> SUFFICES ASSUME IInv, [SetupNext]_setupVars PROVE IInv'
  OBVIOUS
<1>1. CASE UNCHANGED setupVars
  BY <1>1, StutterInv
<1>2. CASE SetupNext
  <2>0. UNCHANGED commandLine
    BY <1>2 DEF SetupNext
  <2>1. CASE CheckPair
    BY <2>0, <2>1, CheckPairInv
  <2>2. CASE CheckPairsEnd
    BY <2>0, <2>2, CheckPairsEndInv
  <2>3. CASE CheckMask
    BY <2>0, <2>3, CheckMaskInv
  <2>4. CASE SetPairDst
    BY <2>0, <2>4, SetPairDstInv
  <2>5. CASE SetPairDstEnd
    BY <2>0, <2>5, SetPairDstEndInv
  <2>6. CASE SetDefaultDst
    BY <2>0, <2>6, SetDefaultDstInv
  <2>7. CASE SetDefaultDstEnd
    BY <2>0, <2>7, SetDefaultDstEndInv
  <2>8. CASE SkipPort
    BY <2>0, <2>8, SkipPortInv
  <2>9. CASE NextLcore
    BY <2>0, <2>9, NextLcoreInv
  <2>10. CASE AssignPort
    BY <2>0, <2>10, AssignPortInv
  <2>11. CASE AssignEnd
    BY <2>0, <2>11, AssignEndInv
  <2>12. CASE SetupTerminated
    BY <2>0, <2>12, StutterInv DEF SetupTerminated, setupVars
  <2>13. QED
    BY <1>2, <2>1, <2>2, <2>3, <2>4, <2>5, <2>6, <2>7, <2>8, <2>9, <2>10, <2>11, <2>12 DEF SetupNext
<1>3. QED
  BY <1>1, <1>2

\* The inductive invariant holds of every run of the configuration phase.
THEOREM Inductive == SetupSpec => []IInv
  BY InitInv, NextInv, PTL DEF SetupSpec

-----------------------------------------------------------------------------
\* Every variable keeps its type, and rx_port_list is never written past
\* MAX_RX_QUEUE_PER_LCORE nor filled beyond -q.
THEOREM TypeCorrect == SetupSpec => []SetupTypeOK
<1>1. IInv => SetupTypeOK
  BY DEF IInv
<1>2. QED
  BY <1>1, Inductive, PTL

\* In both modes l2fwd_dst_ports is an involution of the active ports, so a TX
\* buffer has one writing lcore.
THEOREM DestinationsPairUp == SetupSpec => []DstInvolution
<1>1. IInv => DstInvolution
  BY DEF IInv
<1>2. QED
  BY <1>1, Inductive, PTL

\* l2fwd_dst_ports holds the pairs of --portmap or, without it, the couples of
\* neighbours among the active ports, the odd last one being its own.
THEOREM DestinationsAsConfigured == SetupSpec => []DstAsConfigured
<1>1. IInv => DstAsConfigured
  <2> SUFFICES ASSUME IInv, loop = "launch" PROVE DstAsConfigured
    BY DEF DstAsConfigured
  <2>1. CASE portmapGiven
    <3>1. Checked(Len(portmap)) /\ pairMask = ActivePort /\ Partnered(2 * Len(portmap))
      BY <2>1 DEF IInv, PairInv
    <3>2. /\ Len(portmap) \in Nat
          /\ \A i \in 1 .. Len(portmap) : portmap[i][1] \in EthPort /\ portmap[i][2] \in EthPort
      BY DEF IInv, SetupTypeOK
    <3>3. ASSUME NEW i \in 1 .. Len(portmap)
          PROVE  dst[portmap[i][1]] = portmap[i][2] /\ dst[portmap[i][2]] = portmap[i][1]
      <4>1. 2 * (i - 1) + 0 < 2 * Len(portmap) /\ 2 * (i - 1) + 1 < 2 * Len(portmap)
        BY <3>2
      <4>2. /\ dst[portmap[i][0 + 1]] = portmap[i][2 - 0]
            /\ dst[portmap[i][1 + 1]] = portmap[i][2 - 1]
        BY <4>1, <3>1 DEF Partnered
      <4>3. QED
        BY <4>2
    <3>4. ActivePort = UNION {{portmap[i][1], portmap[i][2]} : i \in 1 .. Len(portmap)}
      BY <3>1, <3>2 DEF Checked, Ends
    <3>5. QED
      BY <2>1, <3>3, <3>4 DEF DstAsConfigured
  <2>2. CASE ~portmapGiven
    <3>1. /\ Neighbours(ActivePort)
          /\ \A p \in ActivePort : Rank(p) % 2 = 0 /\ Rank(p) + 1 = Cardinality(ActivePort) => dst[p] = p
      BY <2>2 DEF IInv, CoupleInv
    <3>2. QED
      BY <2>2, <3>1 DEF DstAsConfigured, Neighbours, Rank
  <2>3. QED
    BY <2>1, <2>2
<1>2. QED
  BY <1>1, Inductive, PTL

\* When the lcores start, every active port has one lcore and one place of its
\* list, and nb_lcores counts the lcores that have a port.
THEOREM PortsPolledOnce == SetupSpec => []PolledOnce
<1>1. IInv => PolledOnce
  <2> SUFFICES ASSUME IInv, loop = "launch" PROVE PolledOnce
    BY DEF PolledOnce
  <2>1. /\ loopIdx = RteMaxEthports /\ OnePlace /\ nbLcores = Cardinality(Used)
        /\ \A l \in LcoreNo \ enabledLcores : rxPortList[l] = <<>>
        /\ Visited = {p \in EthPort : \E l \in enabledLcores :
                        \E a \in 1 .. Len(rxPortList[l]) : rxPortList[l][a] = p}
    BY DEF IInv, ListInv
  <2>2. /\ enabledLcores \subseteq LcoreNo /\ rxPortList \in [LcoreNo -> Seq(EthPort)]
        /\ \A l \in enabledLcores : \A a \in 1 .. Len(rxPortList[l]) : rxPortList[l][a] \in EthPort
    BY DEF IInv, SetupTypeOK
  <2>3. Visited = ActivePort
    <3>1. \A y \in ActivePort : y < RteMaxEthports
      BY FiniteSets, Bounds DEF IInv, EthPort
    <3>2. QED
      BY <3>1, <2>1 DEF Visited
  <2>4. UNION {Listed(l) : l \in enabledLcores} = ActivePort
    BY <2>1, <2>2, <2>3 DEF Listed
  <2>5. QED
    BY <2>1, <2>4 DEF PolledOnce, OnePlace, Used
<1>2. QED
  BY <1>1, Inductive, PTL

\* "Not enough cores" is only said when the ports outnumber the places: all
\* lcores are full, and no two of their places hold the same port.
THEOREM ExitOnlyWhenFull == SetupSpec => []ExitCoresOnlyWhenFull
<1>1. IInv => ExitCoresOnlyWhenFull
  <2> SUFFICES ASSUME IInv, loop = "exitCores" PROVE Cardinality(ActivePort) > nq * Cardinality(enabledLcores)
    BY DEF ExitCoresOnlyWhenFull
  <2> DEFINE Places == enabledLcores \X (1 .. nq)
             f == [x \in Places |-> rxPortList[x[1]][x[2]]]
  <2>1. /\ loopIdx \in ActivePort /\ rxLcore = RteMaxLcore /\ OnePlace
        /\ \A l \in enabledLcores : l < rxLcore => Len(rxPortList[l]) = nq
        /\ Visited = {p \in EthPort : \E l \in enabledLcores :
                        \E a \in 1 .. Len(rxPortList[l]) : rxPortList[l][a] = p}
    BY DEF IInv, ListInv
  <2>2. /\ enabledLcores \subseteq LcoreNo /\ rxPortList \in [LcoreNo -> Seq(EthPort)]
        /\ nq \in Nat /\ nq > 0
        /\ IsFiniteSet(ActivePort) /\ IsFiniteSet(enabledLcores) /\ ActivePort \subseteq Nat
    <3>1. SetupTypeOK
      BY DEF IInv
    <3>2. IsFiniteSet(ActivePort) /\ IsFiniteSet(enabledLcores) /\ ActivePort \subseteq Nat
      BY <3>1, FiniteSets, Bounds
    <3>3. QED
      BY <3>1, <3>2, SetupAssumption DEF SetupTypeOK, ParsedNqueue
  <2>3. \A l \in enabledLcores : Len(rxPortList[l]) = nq
    <3>1. \A l \in LcoreNo : l < RteMaxLcore
      BY Bounds DEF LcoreNo
    <3>2. QED
      BY <3>1, <2>1, <2>2
  <2>4. \A l \in enabledLcores : \A a \in 1 .. nq : rxPortList[l][a] \in Visited
    BY <2>1, <2>2, <2>3
  <2>5. f \in Injection(Places, Visited)
    <3>1. f \in [Places -> Visited]
      BY <2>4
    <3>2. ASSUME NEW x \in Places, NEW y \in Places, f[x] = f[y] PROVE x = y
      <4>1. x[1] = y[1] /\ x[2] = y[2]
        BY <3>2, <2>1, <2>3 DEF OnePlace
      <4>2. QED
        BY <4>1
    <3>3. QED
      BY <3>1, <3>2 DEF Injection, IsInjective
  <2>6. /\ IsFiniteSet(Visited) /\ Visited \subseteq ActivePort
        /\ Cardinality(Visited) \in Nat /\ Cardinality(ActivePort) \in Nat
    <3>1. Visited \in SUBSET ActivePort
      BY DEF Visited
    <3>2. QED
      BY <3>1, <2>2, FS_Subset, FS_CardinalityType
  <2>7. Cardinality(Visited) < Cardinality(ActivePort)
    <3>1. Visited # ActivePort
      BY <2>1, <2>2 DEF Visited
    <3>2. /\ Cardinality(Visited) <= Cardinality(ActivePort)
          /\ Cardinality(ActivePort) = Cardinality(Visited) => ActivePort = Visited
      <4>1. Visited \in SUBSET ActivePort
        BY <2>6
      <4>2. QED
        BY <4>1, <2>2, FS_Subset
    <3>3. QED
      BY <3>1, <3>2, <2>6
  <2>8. Cardinality(Places) = Cardinality(enabledLcores) * nq /\ Cardinality(enabledLcores) \in Nat
    <3>1. IsFiniteSet(1 .. nq) /\ Cardinality(1 .. nq) = nq
      BY <2>2, FS_Interval
    <3>2. QED
      BY <3>1, <2>2, FS_Product, FS_CardinalityType
  <2>9. Cardinality(Places) <= Cardinality(Visited)
    BY <2>5, <2>6, FS_Injection
  <2>10. nq * Cardinality(enabledLcores) = Cardinality(Places)
    BY <2>2, <2>8
  <2>11. QED
    BY <2>2, <2>6, <2>7, <2>8, <2>9, <2>10
<1>2. QED
  BY <1>1, Inductive, PTL

=============================================================================
