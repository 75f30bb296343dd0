----------------------------- MODULE L2fwdSetup -----------------------------
(***************************************************************************)
(* The configuration phase of l2fwd/main.c: from the parsed command line   *)
(* (port mask, optional --portmap, -q) and the ports and lcores that EAL   *)
(* found, main() computes which port each received packet leaves by        *)
(* (l2fwd_dst_ports) and which lcore polls which port (lcore_queue_conf).  *)
(* The data path of module L2fwd relies on the result without any lock:    *)
(* TX buffer 0 of a port, its TX queue and its counters must have a single *)
(* writing lcore.                                                          *)
(*                                                                         *)
(* Every loop of the code is a loop of steps here, one step per iteration. *)
(***************************************************************************)
EXTENDS Integers, Sequences, FiniteSets

CONSTANTS
  RteMaxEthports, \* RTE_MAX_ETHPORTS
  RteMaxLcore,    \* RTE_MAX_LCORE
  MaxRxQueue,     \* MAX_RX_QUEUE_PER_LCORE, the length of rx_port_list
  MaxPairs        \* bounds the number of pairs in --portmap (RTE_MAX_ETHPORTS/2)

ASSUME SetupAssumption ==
  /\ RteMaxEthports \in Nat \ {0}
  /\ RteMaxLcore \in Nat \ {0}
  /\ MaxRxQueue \in Nat /\ MaxRxQueue > 1
  /\ MaxPairs \in Nat

EthPort == 0 .. RteMaxEthports - 1
LcoreNo == 0 .. RteMaxLcore - 1

VARIABLES
  present,        \* ports RTE_ETH_FOREACH_DEV visits
  enabledLcores,  \* lcores with rte_lcore_is_enabled
  nq,             \* l2fwd_rx_queue_per_lcore
  portmapGiven,   \* port_pair_params != NULL
  portmap,        \* port_pair_params_array, its length is nb_port_pair_params
  loop,           \* the loop of main() being run
  portMask,       \* l2fwd_enabled_port_mask
  loopIdx,        \* the loop's index
  pairMask,       \* port_pair_config_mask
  dst,            \* l2fwd_dst_ports
  lastPort,       \* last_port
  nbInMask,       \* nb_ports_in_mask
  rxLcore,        \* rx_lcore_id
  qconf,          \* the lcore qconf points to, -1 for NULL
  nbLcores,       \* nb_lcores
  rxPortList      \* lcore_queue_conf[l].rx_port_list; n_rx_port is its length

commandLine == <<present, enabledLcores, nq, portmapGiven, portmap>>
dstVars == <<dst, lastPort, nbInMask>>
lcoreVars == <<rxLcore, qconf, nbLcores, rxPortList>>
setupVars == <<commandLine, loop, portMask, loopIdx, pairMask, dstVars, lcoreVars>>

\* The ports the later loops act on: present and in the mask.
ActivePort == present \cap portMask

Listed(l) == {rxPortList[l][i] : i \in 1 .. Len(rxPortList[l])}

-----------------------------------------------------------------------------
(* l2fwd_parse_nqueue only lets 1 .. MAX_RX_QUEUE_PER_LCORE - 1 through.   *)
ParsedNqueue == 1 .. MaxRxQueue - 1

\* l2fwd_parse_port_pair_config only stores ports below RTE_MAX_ETHPORTS, and
\* at most RTE_MAX_ETHPORTS / 2 pairs.
ParsedPortmap == UNION {[1 .. n -> EthPort \X EthPort] : n \in 0 .. MaxPairs}

SetupInit ==
  /\ present \in (SUBSET EthPort) \ {{}}
  /\ enabledLcores \in (SUBSET LcoreNo) \ {{}}
  /\ nq \in ParsedNqueue
  /\ portmapGiven \in BOOLEAN
  /\ portmap \in IF portmapGiven THEN ParsedPortmap ELSE {<<>>}
  /\ portMask \in SUBSET EthPort
  /\ loop = IF portmapGiven THEN "checkPairs" ELSE "checkMask"
  /\ loopIdx = 0
  /\ pairMask = {}
  /\ dst = [p \in EthPort |-> 0]
  /\ lastPort = 0
  /\ nbInMask = 0
  /\ rxLcore = 0
  /\ qconf = -1
  /\ nbLcores = 0
  /\ rxPortList = [l \in LcoreNo |-> <<>>]

Exit(reason) ==
  /\ loop' = reason
  /\ UNCHANGED <<portMask, loopIdx, pairMask, dstVars, lcoreVars>>

\* What check_port_pair_config refuses: a port outside the mask or absent, or
\* a port some earlier pair has.
BadPairNoReuseCheck(a, b) ==   \* a mistake: pairs may overlap
  \/ {a, b} \cap portMask # {a, b}
  \/ {a, b} \cap present # {a, b}

BadPair(a, b) ==
  \/ {a, b} \cap portMask # {a, b}
  \/ {a, b} \cap present # {a, b}
  \/ {a, b} \cap pairMask # {}

CheckPair ==
  /\ loop = "checkPairs" /\ loopIdx < Len(portmap)
  /\ LET a == portmap[loopIdx + 1][1]
         b == portmap[loopIdx + 1][2]
     IN  IF BadPair(a, b)
         THEN Exit("exitPairs")
         ELSE /\ pairMask' = pairMask \cup {a, b}
              /\ loopIdx' = loopIdx + 1
              /\ UNCHANGED <<loop, portMask, dstVars, lcoreVars>>

\* The loop of check_port_pair_config ends: the mask shrinks to the paired ports.
CheckPairsEnd ==
  /\ loop = "checkPairs" /\ loopIdx = Len(portmap)
  /\ portMask' = portMask \cap pairMask
  /\ loop' = "checkMask"
  /\ UNCHANGED <<loopIdx, pairMask, dstVars, lcoreVars>>

\* The mask is compared with the NUMBER of ports, not with their ids.
CheckMask ==
  /\ loop = "checkMask"
  /\ IF \E p \in portMask : p >= Cardinality(present)
     THEN Exit("exitMask")
     ELSE /\ loop' = IF portmapGiven THEN "dstPairs" ELSE "dstDefault"
          /\ loopIdx' = 0
          /\ UNCHANGED <<portMask, pairMask, dstVars, lcoreVars>>

\* port_pair_params[idx >> 1].port[p ^ 1]
PairPeerSame(pair, p) == pair[p + 1]   \* a mistake: p for p ^ 1
PairPeer(pair, p) == pair[2 - p]

\* --portmap: both halves of every pair, one half per iteration.
SetPairDst ==
  /\ loop = "dstPairs" /\ loopIdx < 2 * Len(portmap)
  /\ LET pair == portmap[loopIdx \div 2 + 1]
         p    == loopIdx % 2
     IN  dst' = [dst EXCEPT ![pair[p + 1]] = PairPeer(pair, p)]
  /\ loopIdx' = loopIdx + 1
  /\ UNCHANGED <<loop, portMask, pairMask, lastPort, nbInMask, lcoreVars>>

SetPairDstEnd ==
  /\ loop = "dstPairs" /\ loopIdx = 2 * Len(portmap)
  /\ loop' = "lcores"
  /\ loopIdx' = 0
  /\ UNCHANGED <<portMask, pairMask, dstVars, lcoreVars>>

ClosesCoupleById == loopIdx % 2 = 1   \* a mistake: parity of the id, not of the count
ClosesCouple == nbInMask % 2 = 1

\* No --portmap: the second port of each couple closes the couple.
SetDefaultDst ==
  /\ loop = "dstDefault" /\ loopIdx < RteMaxEthports
  /\ loopIdx' = loopIdx + 1
  /\ IF loopIdx \notin ActivePort
     THEN UNCHANGED dstVars
     ELSE /\ nbInMask' = nbInMask + 1
          /\ IF ClosesCouple
             THEN /\ dst' = [dst EXCEPT ![loopIdx] = lastPort, ![lastPort] = loopIdx]
                  /\ UNCHANGED lastPort
             ELSE /\ lastPort' = loopIdx
                  /\ UNCHANGED dst
  /\ UNCHANGED <<loop, portMask, pairMask, lcoreVars>>

\* The odd port out forwards to itself.
SetDefaultDstEnd ==
  /\ loop = "dstDefault" /\ loopIdx = RteMaxEthports
  /\ dst' = IF nbInMask % 2 = 1 THEN [dst EXCEPT ![lastPort] = lastPort] ELSE dst
  /\ loop' = "lcores"
  /\ loopIdx' = 0
  /\ UNCHANGED <<portMask, pairMask, lastPort, nbInMask, lcoreVars>>

LcoreUnfitAnyLcore(l) == Len(rxPortList[l]) = nq                \* mistakes: disabled
LcoreUnfitLate(l) == l \notin enabledLcores \/ Len(rxPortList[l]) > nq   \* lcores used, one
LcoreUnfitEarly(l) == l \notin enabledLcores \/ Len(rxPortList[l]) + 1 >= nq  \* port over, under
\* The while loop's condition: this lcore cannot take one more port.
LcoreUnfit(l) == l \notin enabledLcores \/ Len(rxPortList[l]) = nq

SkipPort ==
  /\ loop = "lcores" /\ loopIdx < RteMaxEthports
  /\ loopIdx \notin ActivePort
  /\ loopIdx' = loopIdx + 1
  /\ UNCHANGED <<loop, portMask, pairMask, dstVars, lcoreVars>>

OutOfLcores(l) == l >= RteMaxLcore

NextLcore ==
  /\ loop = "lcores" /\ loopIdx \in ActivePort
  /\ LcoreUnfit(rxLcore)
  /\ rxLcore' = rxLcore + 1
  /\ loop' = IF OutOfLcores(rxLcore + 1) THEN "exitCores" ELSE loop
  /\ UNCHANGED <<portMask, loopIdx, pairMask, dstVars, qconf, nbLcores, rxPortList>>

NewLcore == qconf # rxLcore

AssignPort ==
  /\ loop = "lcores" /\ loopIdx \in ActivePort
  /\ ~LcoreUnfit(rxLcore)
  /\ qconf' = rxLcore
  /\ nbLcores' = IF NewLcore THEN nbLcores + 1 ELSE nbLcores
  /\ rxPortList' = [rxPortList EXCEPT ![rxLcore] = Append(@, loopIdx)]
  /\ loopIdx' = loopIdx + 1
  /\ UNCHANGED <<loop, portMask, pairMask, dstVars, rxLcore>>

\* After the port loops: no port at all is fatal, otherwise the lcores start.
AssignEnd ==
  /\ loop = "lcores" /\ loopIdx = RteMaxEthports
  /\ loop' = IF ActivePort = {} THEN "exitNoPorts" ELSE "launch"
  /\ UNCHANGED <<portMask, loopIdx, pairMask, dstVars, lcoreVars>>

SetupFinished == {"launch", "exitPairs", "exitMask", "exitCores", "exitNoPorts"}

SetupTerminated ==
  /\ loop \in SetupFinished
  /\ UNCHANGED <<loop, portMask, loopIdx, pairMask, dstVars, lcoreVars>>

SetupNext ==
  /\ UNCHANGED commandLine
  /\ \/ CheckPair \/ CheckPairsEnd \/ CheckMask
     \/ SetPairDst \/ SetPairDstEnd
     \/ SetDefaultDst \/ SetDefaultDstEnd
     \/ SkipPort \/ NextLcore \/ AssignPort \/ AssignEnd
     \/ SetupTerminated

SetupSpec == SetupInit /\ [][SetupNext]_setupVars

-----------------------------------------------------------------------------
SetupTypeOK ==
  /\ present \subseteq EthPort
  /\ enabledLcores \subseteq LcoreNo
  /\ nq \in ParsedNqueue
  /\ portmapGiven \in BOOLEAN
  /\ portmap \in Seq(EthPort \X EthPort)
  /\ loop \in {"checkPairs", "checkMask", "dstPairs", "dstDefault", "lcores"} \cup SetupFinished
  /\ portMask \subseteq EthPort
  /\ loopIdx \in Nat
  /\ pairMask \subseteq EthPort
  /\ dst \in [EthPort -> EthPort]
  /\ lastPort \in EthPort
  /\ nbInMask \in Nat
  /\ rxLcore \in 0 .. RteMaxLcore
  /\ qconf \in LcoreNo \cup {-1}
  /\ nbLcores \in Nat
  /\ rxPortList \in [LcoreNo -> Seq(EthPort)]
  \* the array is never written past its end, and -q is respected
  /\ \A l \in LcoreNo : Len(rxPortList[l]) <= nq /\ Len(rxPortList[l]) < MaxRxQueue

\* The destination of an active port is an active port that forwards back to
\* it, in both modes. No two ports share a destination, so tx_buffer[d], TX
\* queue 0 of d and d's tx and dropped counters have one writer: the lcore that
\* polls dst[d] (l2fwd_simple_forward takes no lock).
DstInvolution ==
  loop \in {"lcores", "launch"} =>
    \A p \in ActivePort : dst[p] \in ActivePort /\ dst[dst[p]] = p

\* Which port that is: the partner --portmap gives, or else the neighbour in the
\* order of the enabled ports, the odd last port being its own.
DstAsConfigured ==
  loop = "launch" =>
    IF portmapGiven
    THEN /\ \A i \in 1 .. Len(portmap) :
              /\ dst[portmap[i][1]] = portmap[i][2]
              /\ dst[portmap[i][2]] = portmap[i][1]
         /\ ActivePort = UNION {{portmap[i][1], portmap[i][2]} : i \in 1 .. Len(portmap)}
    ELSE \A p, q \in ActivePort :
           LET Rank(x) == Cardinality({y \in ActivePort : y < x})
           IN  Rank(p) % 2 = 0 =>
                 /\ Rank(q) = Rank(p) + 1 => dst[p] = q
                 /\ Rank(p) + 1 = Cardinality(ActivePort) => dst[p] = p

\* When the lcores start, the lists of the enabled lcores partition the active
\* ports: each RX queue 0 is polled by one lcore, at one place of its list, and
\* nb_lcores, which sizes the mbuf pool's per-lcore caches, counts these lcores.
PolledOnce ==
  loop = "launch" =>
    /\ UNION {Listed(l) : l \in enabledLcores} = ActivePort
    /\ \A l \in LcoreNo \ enabledLcores : rxPortList[l] = <<>>
    /\ \A k, l \in enabledLcores : \A i \in 1 .. Len(rxPortList[k]), j \in 1 .. Len(rxPortList[l]) :
         rxPortList[k][i] = rxPortList[l][j] => k = l /\ i = j
    /\ nbLcores = Cardinality({l \in enabledLcores : rxPortList[l] # <<>>})

\* "Not enough cores" is only said when the ports really exceed what the enabled
\* lcores take at -q ports each: the single forward pass wastes no place.
ExitCoresOnlyWhenFull ==
  loop = "exitCores" => Cardinality(ActivePort) > nq * Cardinality(enabledLcores)

=============================================================================
