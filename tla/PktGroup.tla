------------------------------ MODULE PktGroup ------------------------------
(***************************************************************************)
(* send_packets_multi with port_groupx4 and GROUP_PORT_STEP: while it goes *)
(* over a burst, four packets at a time, rfc1812_process may still turn a  *)
(* packet's port into BAD_PORT, and pnum[] is filled so that pnum[j] is    *)
(* the length of the run of equal ports that begins at j.  The send loop   *)
(* then jumps from run to run.  Most of pnum[] is never meaningful, and it *)
(* starts uninitialised.                                                   *)
(*                                                                         *)
(* Also process_dst_port, which tells whether the packets of an event      *)
(* vector share one port.                                                  *)
(***************************************************************************)
EXTENDS Integers, FiniteSets

CONSTANTS
  PortId,     \* the ports a lookup can give
  BAD_PORT,
  NeverUsed,  \* BAD_PORT - 1
  MAX_PKT_BURST

FWDSTEP == 4

ASSUME PktGroupAssumption ==
  /\ BAD_PORT \notin PortId /\ NeverUsed \notin PortId /\ BAD_PORT # NeverUsed
  /\ MAX_PKT_BURST \in Nat /\ MAX_PKT_BURST % FWDSTEP = 0

Garbage == -1000   \* an element of pnum[] nobody has written

VARIABLES
  nbRx,     \* nb_rx
  final,    \* what rfc1812_process makes of each packet's port
  dstPort,  \* dst_port[]
  pnum,     \* pnum[], with room past its end to see writes there
  lp,       \* lp - pnum
  dlp,      \* the port lp is about
  dp1,      \* the index in dst_port of the first lane of dp1
  cur,      \* j
  phase,    \* the part of send_packets_multi being run
  gone      \* where each packet went: BAD_PORT for freed

groupVars == <<nbRx, final, dstPort, pnum, lp, dlp, dp1, cur, phase, gone>>

K == nbRx - (nbRx % FWDSTEP)   \* RTE_ALIGN_FLOOR(nb_rx, FWDSTEP)

-----------------------------------------------------------------------------
\* gptbl[v]: pnum for the four packets, the place of the next last updated element and
\* what to add to the last updated one.
Gp(a, b, c, d, idx, lpv) == [pnum |-> <<a, b, c, d>>, idx |-> idx, lpv |-> lpv]

gptbl ==
  << Gp(1, 1, 1, 1, 4, 0), Gp(2, 1, 1, 1, 4, 1), Gp(1, 2, 1, 1, 4, 0), Gp(3, 2, 1, 1, 4, 2),
     Gp(1, 1, 2, 1, 4, 0), Gp(2, 1, 2, 1, 4, 1), Gp(1, 3, 2, 1, 4, 0), Gp(4, 3, 2, 1, 4, 3),
     Gp(1, 1, 1, 2, 3, 0), Gp(2, 1, 1, 2, 3, 1), Gp(1, 2, 1, 2, 3, 0), Gp(3, 2, 1, 2, 3, 2),
     Gp(1, 1, 3, 2, 2, 0), Gp(2, 1, 3, 2, 2, 1), Gp(1, 4, 3, 2, 1, 0), Gp(5, 4, 3, 2, 0, 4) >>

GrpMsk == 15

Bit(b, n) == IF b THEN n ELSE 0

\* The four comparisons as a mask.
Mask(eq) == Bit(eq[1], 1) + Bit(eq[2], 2) + Bit(eq[3], 4) + Bit(eq[4], 8)

\* port_groupx4 with pn = &pnum[at] and the results of the four comparisons.
PortGroupX4(at, eq) ==
  LET v    == Mask(eq)
      g    == gptbl[v + 1]
      bump == [pnum EXCEPT ![lp] = @ + g.lpv]
  IN  IF v = GrpMsk
      THEN [pnum |-> bump, lp |-> lp]
      ELSE [pnum |-> [x \in DOMAIN pnum |->
                        IF x \in at .. at + 3 THEN g.pnum[x - at + 1]
                        ELSE IF x = at + 4 THEN 1 ELSE bump[x]],
            lp   |-> at + g.idx]

\* processx4_step3 and process_packet: the ports of packets from .. from + n - 1 become
\* final.
Processed(from, n) ==
  [x \in DOMAIN dstPort |-> IF x \in from .. from + n - 1 THEN final[x] ELSE dstPort[x]]

-----------------------------------------------------------------------------
Index == 0 .. MAX_PKT_BURST - 1

GroupInit ==
  /\ nbRx \in 1 .. MAX_PKT_BURST
  /\ dstPort \in [0 .. nbRx - 1 -> PortId]
  /\ final \in [0 .. nbRx - 1 -> PortId \cup {BAD_PORT}]
  /\ \A x \in 0 .. nbRx - 1 : final[x] \in {dstPort[x], BAD_PORT}
  /\ pnum = [x \in 0 .. MAX_PKT_BURST + FWDSTEP |-> Garbage]
  /\ lp = 0
  /\ dlp = NeverUsed
  /\ dp1 = 0
  /\ cur = 0
  /\ phase = "first"
  /\ gone = [x \in 0 .. nbRx - 1 |-> NeverUsed]

\* The first four packets, or none if there are fewer.
FirstGroup ==
  /\ phase = "first"
  /\ IF K # 0
     THEN /\ pnum' = [pnum EXCEPT ![0] = 1]
          /\ dstPort' = Processed(0, FWDSTEP)
          /\ cur' = FWDSTEP
          /\ phase' = "groups"
          /\ UNCHANGED lp
     ELSE /\ lp' = MAX_PKT_BURST
          /\ phase' = "tail"
          /\ UNCHANGED <<pnum, dstPort, cur>>
  /\ dp1' = 0
  /\ UNCHANGED <<nbRx, final, dlp, gone>>

\* A mistake: compares the new packets before they are processed.
Lanes(d, from) == [x \in 1 .. FWDSTEP |-> d[dp1 + x - 1] = d[from + x - 1]]
ComparedStale == Lanes(dstPort, cur - FWDSTEP + 1)
Compared == Lanes(Processed(cur, FWDSTEP), cur - FWDSTEP + 1)

\* The place in pnum[] for the group that ends before packet n; a mistake is to take the
\* place dst_port is loaded from.
GroupAtLoad(n) == n - FWDSTEP + 1
GroupAt(n) == n - FWDSTEP

\* Four more packets: with j = cur, dp1 is d[j-4 .. j-1] and dp2 is
\* d[j-3 .. j].
NextGroup ==
  /\ phase = "groups" /\ cur # K
  /\ LET g == PortGroupX4(GroupAt(cur), Compared)
     IN  pnum' = g.pnum /\ lp' = g.lp
  /\ dstPort' = Processed(cur, FWDSTEP)
  /\ dp1' = cur
  /\ cur' = cur + FWDSTEP
  /\ UNCHANGED <<nbRx, final, dlp, phase, gone>>

Repeated(n) == n - 1

\* The last group is compared with itself: its last port, repeated, counts once too much.
LastGroup ==
  /\ phase = "groups" /\ cur = K
  /\ LET g == PortGroupX4(GroupAt(cur),
                [x \in 1 .. FWDSTEP |-> x = FWDSTEP \/ dstPort[dp1 + x - 1] = dstPort[dp1 + x]])
     IN  pnum' = [g.pnum EXCEPT ![g.lp] = Repeated(@)] /\ lp' = g.lp
  /\ dlp' = dstPort[cur - 1]
  /\ phase' = "tail"
  /\ UNCHANGED <<nbRx, final, dstPort, dp1, cur, gone>>

LpAfterStepKept == lp   \* a mistake: lp is not moved
LpAfterStep == cur

\* process_packet and GROUP_PORT_STEP of one of the last three packets.
TailStep ==
  /\ phase = "tail" /\ cur < nbRx
  /\ dstPort' = Processed(cur, 1)
  /\ IF dlp = final[cur]
     THEN /\ pnum' = [pnum EXCEPT ![lp] = @ + 1]
          /\ UNCHANGED <<dlp, lp>>
     ELSE /\ dlp' = final[cur]
          /\ lp' = LpAfterStep
          /\ pnum' = [pnum EXCEPT ![LpAfterStep] = 1]
  /\ cur' = cur + 1
  /\ UNCHANGED <<nbRx, final, dp1, phase, gone>>

GroupTailEnd ==
  /\ phase = "tail" /\ cur = nbRx
  /\ phase' = "send"
  /\ cur' = 0
  /\ UNCHANGED <<nbRx, final, dstPort, pnum, lp, dlp, dp1, gone>>

\* send_packetsx4 of k packets from cur on to the port of the first, or free them.
SendRun ==
  /\ phase = "send" /\ cur < nbRx
  /\ gone' = [x \in DOMAIN gone |-> IF x \in cur .. cur + pnum[cur] - 1 THEN dstPort[cur] ELSE gone[x]]
  /\ cur' = cur + pnum[cur]
  /\ phase' = IF pnum[cur] < 1 \/ cur + pnum[cur] > nbRx THEN "astray" ELSE "send"
  /\ UNCHANGED <<nbRx, final, dstPort, pnum, lp, dlp, dp1>>

SendEnd ==
  /\ phase = "send" /\ cur = nbRx
  /\ phase' = "done"
  /\ UNCHANGED <<nbRx, final, dstPort, pnum, lp, dlp, dp1, cur, gone>>

GroupTerminated == phase \in {"done", "astray"} /\ UNCHANGED groupVars

GroupNext ==
  \/ FirstGroup \/ NextGroup \/ LastGroup \/ TailStep \/ GroupTailEnd
  \/ SendRun \/ SendEnd \/ GroupTerminated

GroupSpec == GroupInit /\ [][GroupNext]_groupVars

-----------------------------------------------------------------------------
(* process_dst_port: whole eights, then whole fours, then one by one, each *)
(* compared with the first element.                                        *)

AllSame(d, from, n) == \A x \in from .. from + n - 1 : d[x] = d[0]

\* A mistake: skips the fours when eights were there.
ProcessDstPortNoFours(d, n) ==
  LET e == n - (n % 8)
  IN  IF AllSame(d, 0, e) /\ AllSame(d, n - (n % 4), n % 4) THEN d[0] ELSE BAD_PORT
ProcessDstPort(d, n) ==
  LET e == n - (n % 8)
      f == n - (n % 4)
  IN  IF AllSame(d, 0, e) /\ AllSame(d, e, f - e) /\ AllSame(d, f, n - f) THEN d[0] ELSE BAD_PORT

-----------------------------------------------------------------------------
RunStart(x) == x = 0 \/ final[x] # final[x - 1]
RunLength(x) ==
  CHOOSE n \in 1 .. nbRx - x :
    /\ \A y \in x .. x + n - 1 : final[y] = final[x]
    /\ x + n < nbRx => final[x + n] # final[x]

GroupTypeOK ==
  /\ nbRx \in 1 .. MAX_PKT_BURST
  /\ dstPort \in [0 .. nbRx - 1 -> PortId \cup {BAD_PORT}]
  /\ final \in [0 .. nbRx - 1 -> PortId \cup {BAD_PORT}]
  /\ pnum \in [0 .. MAX_PKT_BURST + FWDSTEP -> Int]
  \* pnum[] has MAX_PKT_BURST + 1 elements, and the write of u16[FWDSTEP] needs the last
  /\ \A x \in MAX_PKT_BURST + 1 .. MAX_PKT_BURST + FWDSTEP : pnum[x] = Garbage
  /\ lp \in 0 .. MAX_PKT_BURST
  /\ dlp \in PortId \cup {BAD_PORT, NeverUsed}
  /\ dp1 \in 0 .. MAX_PKT_BURST
  /\ cur \in 0 .. MAX_PKT_BURST
  /\ phase \in {"first", "groups", "tail", "send", "done"}
  /\ gone \in [0 .. nbRx - 1 -> PortId \cup {BAD_PORT, NeverUsed}]

\* "Group consecutive packets with the same destination port into one burst": where a run
\* of equal final ports begins, pnum[] holds its length, whatever the alignment of the run
\* to the groups of four and to the tail.
PnumIsRunLength ==
  phase = "send" => \A x \in 0 .. nbRx - 1 : RunStart(x) => pnum[x] = RunLength(x)

\* Every packet is sent to its own port, or freed because of BAD_PORT, by the one call it
\* is part of: the send loop never reads an element of pnum[] nobody has written.
SentToOwnPort == phase # "astray" /\ (phase = "done" => gone = final)

\* An event vector is sent to one port as a whole only when all its packets go there.
VectorPort ==
  phase = "first" =>
    ProcessDstPort(final, nbRx) =
      IF Cardinality({final[x] : x \in DOMAIN final}) = 1 THEN final[0] ELSE BAD_PORT

=============================================================================
