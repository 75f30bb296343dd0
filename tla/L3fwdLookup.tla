---------------------------- MODULE L3fwdLookup ----------------------------
(***************************************************************************)
(* The lookups of l3fwd in the x86 build: how one burst of packets gets    *)
(* its hops.  LPM looks four packets up at once and the rest one by one,   *)
(* EM looks EM_HASH_LOOKUP_COUNT up at once when the types of all of them  *)
(* agree, FIB and ACL gather the IPv4 and the IPv6 addresses in two        *)
(* arrays, look each up in bulk and merge the results back.  In event mode *)
(* the checks of RFC 1812 follow and an event vector loses the packets     *)
(* that do not pass; in poll mode the checks are part of                   *)
(* send_packets_multi (module PktGroup).                                   *)
(*                                                                         *)
(* A packet type is a set of bits, so & is the intersection.  The tables   *)
(* are external: of a packet they are what each of them says of the bytes  *)
(* at its place.                                                           *)
(***************************************************************************)
EXTENDS Integers, Sequences, FiniteSets

CONSTANTS
  Enabled,   \* the enabled ports
  BadPort,   \* BAD_PORT
  NoRoute,   \* a lookup that finds nothing
  Kind,      \* the packets: [eth, opts, proto, r4, r6, deny, bad, port]
  Ingress,   \* the ports a burst of one port comes from
  FwdStep,   \* FWDSTEP
  EmCount,   \* EM_HASH_LOOKUP_COUNT
  MaxBurst   \* MAX_PKT_BURST

ASSUME L3fwdLookupAssumption ==
  /\ BadPort \notin Enabled /\ NoRoute \notin Enabled /\ BadPort # NoRoute
  /\ Ingress \subseteq Enabled
  /\ FwdStep \in Nat \ {0} /\ EmCount \in Nat \ {0} /\ MaxBurst \in Nat
  /\ EmCount % FwdStep = 0
  /\ \A p \in Kind :
       /\ {p.r4, p.r6} \subseteq Enabled \cup {NoRoute}
       /\ p.port \in Enabled /\ {p.opts, p.deny, p.bad} \subseteq BOOLEAN
       /\ p.eth \in {"ipv4", "ipv6", "other"} /\ p.proto \in {"tcp", "udp", "icmp", "igmp", "other"}

VARIABLES
  lookup,     \* "lpm", "em", "fib" or "acl"
  entry,      \* "burst"; "event": one event at a time; "vector": an event vector that
              \* holds its port; "mixed": one whose packets hold theirs
  parse,      \* parse_ptype: whether a callback parses the types, and not the NIC
  pkts,       \* the packets; packet i of them is called i from here on
  portid,     \* the port a burst or a vector comes from; the others do not use it
  pc,         \* the loop being run
  j,          \* its index
  hops,       \* dst_port[] or hops[]; mbuf->port of single events
  types,      \* type_arr[] or types[]
  list4,      \* ipv4_arr[] or data_ipv4[]
  list6,      \* ipv6_arr[] or data_ipv6[]
  n4,         \* ipv4_arr_assem or n4
  n6,         \* ipv6_arr_assem or n6
  drops,      \* k of acl_process_pkts
  mbufs,      \* vec->mbufs[]
  pos,        \* where filter_bad_packets moves the next packet to
  freed,      \* the packets it freed, in that order
  vec         \* nb_elem, attr_valid and port of the vector, when it goes out

chosen == <<lookup, entry, parse, pkts, portid>>
split  == <<types, list4, list6>>
merge  == <<n4, n6, drops>>
filter == <<mbufs, pos, freed, vec>>
vars   == <<chosen, pc, j, hops, split, merge, filter>>

Nb == Len(pkts)
Vector == entry \in {"vector", "mixed"}
Checks == entry # "burst"   \* do_step3

\* The port a packet came from, which is its hop when there is no route.
From(i) == IF entry \in {"burst", "vector"} THEN portid ELSE pkts[i].port

Init ==
  /\ \/ entry = "burst" /\ lookup \in {"lpm", "em", "fib", "acl"}
     \/ entry \in {"event", "vector", "mixed"} /\ lookup \in {"lpm", "em", "fib"}
  /\ parse \in BOOLEAN /\ (parse => entry = "burst")   \* event mode has no callback
  /\ \E n \in 1 .. MaxBurst : pkts \in [1 .. n -> Kind]
  /\ portid \in Ingress
  /\ pc = IF lookup \in {"fib", "acl"} THEN "parse" ELSE "groups"
  /\ j = 1
  /\ hops = [i \in 1 .. Len(pkts) |-> NoRoute]
  /\ types = <<>> /\ list4 = <<>> /\ list6 = <<>>
  /\ n4 = 0 /\ n6 = 0 /\ drops = 0
  /\ mbufs = [i \in 1 .. Len(pkts) |-> i]
  /\ pos = 0 /\ freed = <<>> /\ vec = <<>>

-----------------------------------------------------------------------------
(* Packet types                                                            *)

\* RTE_PTYPE_L3_*: IPV4 has the bit "ipv4", IPV4_EXT also "ext", IPV4_EXT_UNKNOWN
\* "unknown"; IPV6 has "ipv6", IPV6_EXT "unknown", IPV6_EXT_UNKNOWN both.
Ptype(l3, l4) == [l3 |-> l3, l4 |-> l4]
TcpUdp(k) == IF k.proto \in {"tcp", "udp"} THEN {k.proto} ELSE {}

\* What packet_type & (RTE_PTYPE_L4_TCP | RTE_PTYPE_L4_UDP) leaves of a NIC's type: ICMP
\* shares a bit with TCP, and IGMP, like a fragment, has the bits of both.
NicL4(k) ==
  CASE k.proto = "icmp" -> {"tcp"} [] k.proto = "igmp" -> {"tcp", "udp"} [] OTHER -> TcpUdp(k)

\* A NIC knows the transport protocol behind options and extension headers.
NicPtype(k) ==
  CASE k.eth = "ipv4" -> Ptype({"ipv4"} \cup (IF k.opts THEN {"ext"} ELSE {}), NicL4(k))
    [] k.eth = "ipv6" -> Ptype({"ipv6"} \cup (IF k.opts THEN {"unknown"} ELSE {}), NicL4(k))
    [] OTHER -> Ptype({}, {})

\* em_parse_ptype: with options or extension headers the transport stays unknown.
EmParsePtype(k) ==
  CASE k.eth = "ipv4" -> IF k.opts THEN Ptype({"ipv4", "ext"}, {}) ELSE Ptype({"ipv4"}, TcpUdp(k))
    [] k.eth = "ipv6" -> IF k.opts \/ TcpUdp(k) = {} THEN Ptype({"ipv6", "ext", "unknown"}, {})
                         ELSE Ptype({"ipv6"}, TcpUdp(k))
    [] OTHER -> Ptype({}, {})

\* lpm_parse_ptype, also for FIB; ACL uses the other.
LpmParsePtype(k) ==
  CASE k.eth = "ipv4" -> Ptype({"ipv4", "unknown"}, {})
    [] k.eth = "ipv6" -> Ptype({"ipv6", "ext", "unknown"}, {})
    [] OTHER -> Ptype({}, {})

PacketType(i) ==
  CASE ~parse -> NicPtype(pkts[i])
    [] parse /\ lookup \in {"em", "acl"} -> EmParsePtype(pkts[i])
    [] OTHER -> LpmParsePtype(pkts[i])

L3(i) == PacketType(i).l3
L4(i) == PacketType(i).l4

IsIpv4(i) == "ipv4" \in L3(i)   \* RTE_ETH_IS_IPV4_HDR
IsIpv6(i) == "ipv6" \in L3(i)   \* RTE_ETH_IS_IPV6_HDR

-----------------------------------------------------------------------------
Or(hop, port) == IF hop = NoRoute THEN port ELSE hop

\* rfc1812_process, of process_packet and processx4_step3.
Invalid(i) == IsIpv4(i) /\ pkts[i].bad
Rfc1812(i, hop) == IF Invalid(i) THEN BadPort ELSE hop

\* The packets of a burst that are looked up in groups of n; a vector whose packets hold
\* their ports, and single events, go one by one.
Grouped(n) == IF entry \in {"burst", "vector"} THEN Nb - (Nb % n) ELSE 0

-----------------------------------------------------------------------------
(* LPM                                                                     *)

LpmGetDstPort(i) ==
  IF IsIpv4(i) THEN Or(pkts[i].r4, From(i))
  ELSE IF IsIpv6(i) THEN Or(pkts[i].r6, From(i)) ELSE From(i)

\* A mistake: any IPv4 packet of the four sends them all to the IPv4 table.
AnyIpv4(group) == \E i \in group : IsIpv4(i)
\* ipv4_flag
AllIpv4(group) == \A i \in group : IsIpv4(i)

\* processx4_step1 and processx4_step2
LpmFour ==
  /\ lookup = "lpm" /\ pc = "groups" /\ j <= Grouped(FwdStep)
  /\ LET group == j .. j + FwdStep - 1
     IN  hops' = [i \in 1 .. Nb |->
                    IF i \notin group THEN hops[i]
                    ELSE IF AllIpv4(group) THEN Or(pkts[i].r4, portid) ELSE LpmGetDstPort(i)]
  /\ j' = j + FwdStep
  /\ UNCHANGED <<chosen, pc, split, merge, filter>>

\* processx4_step3 of all groups, when the lookup is for a vector.
LpmStep3 ==
  /\ lookup = "lpm" /\ pc = "groups" /\ j > Grouped(FwdStep)
  /\ hops' = [i \in 1 .. Nb |->
                IF Checks /\ i <= Grouped(FwdStep) THEN Rfc1812(i, hops[i]) ELSE hops[i]]
  /\ pc' = "tail"
  /\ UNCHANGED <<chosen, j, split, merge, filter>>

LpmOne ==
  /\ lookup = "lpm" /\ pc = "tail" /\ j <= Nb
  /\ hops' = [hops EXCEPT ![j] =
                IF Checks THEN Rfc1812(j, LpmGetDstPort(j)) ELSE LpmGetDstPort(j)]
  /\ j' = j + 1
  /\ UNCHANGED <<chosen, pc, split, merge, filter>>

-----------------------------------------------------------------------------
(* EM                                                                      *)

\* A hop of the hash that is not an enabled port counts as none; a mistake is to take it.
EmHopUnchecked(hop, port) == hop
EmHop(hop, port) == IF hop \in Enabled THEN hop ELSE port

\* em_get_dst_port: only what has a TCP or UDP bit over IPv4 or IPv6 without options is
\* looked up.
EmGetDstPort(i) ==
  IF L4(i) = {} THEN From(i)
  ELSE CASE L3(i) = {"ipv4"} -> EmHop(pkts[i].r4, From(i))
         [] L3(i) = {"ipv6"} -> EmHop(pkts[i].r6, From(i))
         [] OTHER -> From(i)

\* & over the types of a group.
Common(sets) == {b \in UNION sets : \A t \in sets : b \in t}

\* A group of EM_HASH_LOOKUP_COUNT: one bulk lookup when what their types have in common
\* is one of the two that EM looks up.
EmGroup ==
  /\ lookup = "em" /\ pc = "groups" /\ j <= Grouped(EmCount)
  /\ LET group == j .. j + EmCount - 1
         l3 == IF Common({L4(i) : i \in group}) = {} THEN {} ELSE Common({L3(i) : i \in group})
         Hop(i) == CASE l3 = {"ipv4"} -> EmHop(pkts[i].r4, portid)
                     [] l3 = {"ipv6"} -> EmHop(pkts[i].r6, portid)
                     [] OTHER -> EmGetDstPort(i)
     IN  hops' = [i \in 1 .. Nb |->
                    IF i \notin group THEN hops[i]
                    ELSE IF Checks THEN Rfc1812(i, Hop(i)) ELSE Hop(i)]
  /\ j' = j + EmCount
  /\ UNCHANGED <<chosen, pc, split, merge, filter>>

EmGroupsEnd ==
  /\ lookup = "em" /\ pc = "groups" /\ j > Grouped(EmCount)
  /\ pc' = "tail"
  /\ UNCHANGED <<chosen, j, hops, split, merge, filter>>

\* What is left of a burst or a vector.  process_packet is given the packet's mbuf->port
\* and not its dst_port[j], so here a packet that does not pass the checks keeps its hop.
EmOne ==
  /\ lookup = "em" /\ entry # "event" /\ pc = "tail" /\ j <= Nb
  /\ hops' = [hops EXCEPT ![j] = EmGetDstPort(j)]
  /\ j' = j + 1
  /\ UNCHANGED <<chosen, pc, split, merge, filter>>

\* em_event_loop_single
EmEvent ==
  /\ lookup = "em" /\ entry = "event" /\ pc = "tail" /\ j <= Nb
  /\ hops' = [hops EXCEPT ![j] = Rfc1812(j, EmGetDstPort(j))]
  /\ j' = j + 1
  /\ UNCHANGED <<chosen, pc, split, merge, filter>>

TailEnd ==
  /\ pc = "tail" /\ j > Nb
  /\ pc' = "looked"
  /\ UNCHANGED <<chosen, j, hops, split, merge, filter>>

-----------------------------------------------------------------------------
(* FIB and ACL                                                             *)

\* fib_parse_packet takes all that is not IPv4 for IPv6; l3fwd_acl_prepare_one_packet
\* knows packets that are neither.
TypeOf(i) ==
  IF IsIpv4(i) THEN "v4" ELSE IF lookup = "fib" \/ IsIpv6(i) THEN "v6" ELSE "none"

ParseOne ==
  /\ pc = "parse" /\ j <= Nb
  /\ types' = Append(types, TypeOf(j))
  /\ list4' = IF TypeOf(j) = "v4" THEN Append(list4, j) ELSE list4
  /\ list6' = IF TypeOf(j) = "v6" THEN Append(list6, j) ELSE list6
  /\ j' = j + 1
  /\ UNCHANGED <<chosen, pc, hops, merge, filter>>

\* The bulk lookups come here: result k of a table is for packet k of its array.
ParseEnd ==
  /\ pc = "parse" /\ j > Nb
  /\ pc' = "merge"
  /\ j' = 1
  /\ UNCHANGED <<chosen, hops, split, merge, filter>>

\* Of which packet the result taken for packet j is; a mistake is to take result j.
TakenByPlace ==
  LET list == IF types[j] = "v4" THEN list4 ELSE list6
  IN  list[IF j <= Len(list) THEN j ELSE Len(list)]
Taken == IF types[j] = "v4" THEN list4[n4 + 1] ELSE list6[n6 + 1]

Result == IF types[j] = "v4" THEN pkts[Taken].r4 ELSE pkts[Taken].r6

FibHop == Or(Result, From(j))
\* What the FIB event loop leaves in mbuf->port: the old port when the checks fail.
FibPort == IF Rfc1812(j, FibHop) = BadPort THEN From(j) ELSE FibHop
\* Neither type, no match or a rule that denies.
AclHop ==
  IF types[j] = "none" THEN BadPort
  ELSE IF pkts[Taken].deny THEN BadPort ELSE Or(Result, BadPort)

MergeOne ==
  /\ pc = "merge" /\ j <= Nb
  /\ hops' = [hops EXCEPT ![j] =
                IF lookup = "acl" THEN AclHop ELSE IF entry = "event" THEN FibPort ELSE FibHop]
  /\ n4' = IF types[j] = "v4" THEN n4 + 1 ELSE n4
  /\ n6' = IF types[j] = "v6" THEN n6 + 1 ELSE n6
  /\ drops' = IF lookup = "acl" /\ AclHop = BadPort THEN drops + 1 ELSE drops
  /\ j' = j + 1
  /\ UNCHANGED <<chosen, pc, split, filter>>

\* The checks of all the packets of a vector.
MergeEnd ==
  /\ pc = "merge" /\ j > Nb
  /\ hops' = IF Vector THEN [i \in 1 .. Nb |-> Rfc1812(i, hops[i])] ELSE hops
  /\ pc' = "looked"
  /\ UNCHANGED <<chosen, j, split, merge, filter>>

-----------------------------------------------------------------------------
(* process_event_vector                                                    *)

FilterBegin ==
  /\ pc = "looked" /\ Vector
  /\ pc' = "filter"
  /\ j' = 1
  /\ UNCHANGED <<chosen, hops, split, merge, filter>>

\* Where packets move to, after bad packet j; a mistake is to move them over the last bad
\* one.
PosAfterBadLast == j
PosAfterBad == IF freed = <<>> THEN j ELSE pos

\* filter_bad_packets
FilterOne ==
  /\ pc = "filter" /\ j <= Nb
  /\ IF hops[j] = BadPort
     THEN /\ freed' = Append(freed, mbufs[j])
          /\ pos' = PosAfterBad
          /\ UNCHANGED <<mbufs, hops>>
     ELSE IF freed # <<>>
     THEN /\ mbufs' = [mbufs EXCEPT ![pos] = mbufs[j]]
          /\ hops' = [hops EXCEPT ![pos] = hops[j]]
          /\ pos' = pos + 1
          /\ UNCHANGED freed
     ELSE UNCHANGED <<mbufs, hops, pos, freed>>
  /\ j' = j + 1
  /\ UNCHANGED <<chosen, pc, split, merge, vec>>

\* The vector has one port when all that is left has; process_dst_port (module PktGroup)
\* tells.  An empty one gives what is left in dst_port[0].
OnePort(n) == IF \A i \in 2 .. n : hops[i] = hops[1] THEN hops[1] ELSE BadPort

VectorOut ==
  /\ pc = "filter" /\ j > Nb
  /\ LET n == Nb - Len(freed)
     IN  vec' = <<[nbElem |-> n, attrValid |-> OnePort(n) # BadPort, port |-> OnePort(n)]>>
  /\ pc' = "done"
  /\ UNCHANGED <<chosen, j, hops, split, merge, mbufs, pos, freed>>

\* acl_send_packets and the others hand the burst and its hops on.
BurstOut ==
  /\ pc = "looked" /\ ~Vector
  /\ pc' = "done"
  /\ UNCHANGED <<chosen, j, hops, split, merge, filter>>

Terminated == pc = "done" /\ UNCHANGED vars

Next ==
  \/ LpmFour \/ LpmStep3 \/ LpmOne
  \/ EmGroup \/ EmGroupsEnd \/ EmOne \/ EmEvent
  \/ TailEnd
  \/ ParseOne \/ ParseEnd \/ MergeOne \/ MergeEnd
  \/ FilterBegin \/ FilterOne \/ VectorOut \/ BurstOut
  \/ Terminated

Spec == Init /\ [][Next]_vars

-----------------------------------------------------------------------------
TypeOK ==
  /\ pkts \in Seq(Kind) /\ Nb \in 1 .. MaxBurst
  /\ portid \in Enabled
  /\ pc \in {"groups", "tail", "parse", "merge", "looked", "filter", "done"}
  /\ j \in 1 .. Nb + 1
  /\ hops \in [1 .. Nb -> Enabled \cup {BadPort, NoRoute}]
  /\ pc \in {"looked", "filter", "done"} => \A i \in 1 .. Nb : hops[i] # NoRoute
  /\ n4 \in 0 .. Len(list4) /\ n6 \in 0 .. Len(list6)
  /\ mbufs \in [1 .. Nb -> 1 .. Nb]
  /\ pos \in 0 .. Nb

\* What a packet may get whatever the rest of the burst is: what its own table says of its
\* own address.  EM looks a packet with options or extension headers up only in a group of
\* packets without.
OwnHops(i) ==
  CASE lookup = "lpm" -> {LpmGetDstPort(i)}
    [] lookup = "em" ->
         {EmGetDstPort(i)}
           \cup (IF IsIpv4(i) /\ L4(i) # {} THEN {EmHop(pkts[i].r4, From(i))} ELSE {})
           \cup (IF IsIpv6(i) /\ L4(i) # {} THEN {EmHop(pkts[i].r6, From(i))} ELSE {})
    [] lookup = "fib" ->
         {Or(IF IsIpv4(i) THEN pkts[i].r4 ELSE pkts[i].r6, From(i))}
    [] lookup = "acl" ->
         IF pkts[i].deny \/ (~IsIpv4(i) /\ ~IsIpv6(i)) THEN {BadPort}
         ELSE {Or(IF IsIpv4(i) THEN pkts[i].r4 ELSE pkts[i].r6, BadPort)}

\* Splitting, grouping and merging lose nothing: a packet's hop is the one its own address
\* has in the table of its own type, or where it came from, however the burst is mixed and
\* whatever is left over of the groups.  An IPv4 packet that event mode finds invalid gets
\* BAD_PORT in LPM and in a vector of FIB; elsewhere it may also keep its own hop or go
\* back, but it never takes another packet's.  The drops ACL counts are those it made.
OwnHop ==
  pc = "looked" =>
    /\ \A i \in 1 .. Nb :
         \/ hops[i] \in OwnHops(i)
         \/ Checks /\ Invalid(i) /\ hops[i] \in {BadPort, From(i)}
    /\ (lookup = "lpm" /\ Checks) \/ (lookup = "fib" /\ Vector) =>
         \A i \in 1 .. Nb : Invalid(i) => hops[i] = BadPort
    /\ lookup = "acl" => drops = Cardinality({i \in 1 .. Nb : hops[i] = BadPort})

\* "Filter out and free bad packets": moving the packets of an event vector together loses
\* no good one.  What goes out and what is freed are together the packets that came in,
\* each once; only invalid packets are freed; the others keep their order and their own
\* hops, and the vector has one port for all of them only if that is the hop of each.  Of
\* LPM and FIB no invalid packet goes out.
VectorKeepsGood ==
  pc = "done" /\ Vector =>
    LET v    == vec[1]
        out  == {mbufs[k] : k \in 1 .. v.nbElem}
        gone == {freed[k] : k \in DOMAIN freed}
    IN  /\ out \cup gone = 1 .. Nb /\ out \cap gone = {}
        /\ v.nbElem = Cardinality(out)
        /\ \A i \in gone : Invalid(i)
        /\ lookup # "em" => \A i \in out : ~Invalid(i)
        /\ \A k \in 1 .. v.nbElem - 1 : mbufs[k] < mbufs[k + 1]
        /\ \A k \in 1 .. v.nbElem :
             (IF v.attrValid THEN v.port ELSE hops[k]) \in OwnHops(mbufs[k])

\* "If we encounter invalid IPV4 packet, then set destination port for it to BAD_PORT
\* value": what event mode sends on has passed the checks.
InvalidGetsBadPort ==
  pc = "looked" /\ Checks => \A i \in 1 .. Nb : Invalid(i) => hops[i] = BadPort

=============================================================================
