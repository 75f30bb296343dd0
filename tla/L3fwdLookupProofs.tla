------------------------- MODULE L3fwdLookupProofs -------------------------
(***************************************************************************)
(* Proofs about L3fwdLookup, for every length of a burst and of the groups *)
(* it is looked up in, any ports and any packets.                          *)
(***************************************************************************)
EXTENDS L3fwdLookup, FiniteSetTheorems, TLAPS

-----------------------------------------------------------------------------
(* Whole groups.                                                           *)

\* What is left of n after its whole groups is less than one of them.
LEMMA WholeGroups ==
  ASSUME NEW n \in Nat, NEW f \in Nat \ {0}
  PROVE  /\ n - (n % f) \in 0 .. n
         /\ \E b \in Nat : n - (n % f) = f * b
<1>1. n % f \in 0 .. f - 1 /\ n = f * (n \div f) + (n % f) /\ n \div f \in Nat
  OBVIOUS
<1>2. n - (n % f) = f * (n \div f)
  BY <1>1
<1>3. n - (n % f) \in 0 .. n
  BY <1>1, <1>2
<1>4. QED
  BY <1>1, <1>2, <1>3

\* One group more after a whole groups, when there are b.
LEMMA NextWhole ==
  ASSUME NEW f \in Nat \ {0}, NEW a \in Nat, NEW b \in Nat, f * a < f * b
  PROVE  f * a + f <= f * b /\ f * a + f = f * (a + 1)
<1>1. f * a + f = f * (a + 1)
  OBVIOUS
<1>2. a + 1 <= b
  <2>1. SUFFICES ASSUME a >= b PROVE FALSE
    OBVIOUS
  <2>2. PICK c \in Nat : a = b + c
    BY <2>1
  <2>3. f * a = f * b + f * c /\ f * c >= 0
    BY <2>2
  <2>4. QED
    BY <2>3
<1>3. PICK c \in Nat : b = a + 1 + c
  BY <1>2
<1>4. f * b = f * (a + 1) + f * c /\ f * c >= 0
  BY <1>3
<1>5. QED
  BY <1>1, <1>4

-----------------------------------------------------------------------------
(* What a packet may get.                                                  *)

\* The inputs stay what Init chose.
ChosenInv ==
  /\ lookup \in {"lpm", "em", "fib", "acl"}
  /\ entry \in {"burst", "event", "vector", "mixed"}
  /\ lookup = "acl" => entry = "burst"
  /\ pkts \in Seq(Kind) /\ Nb \in 1 .. MaxBurst
  /\ portid \in Ingress

\* The sizes of the groups, and that no port is BAD_PORT or a hop that was not found.
LEMMA Bounds ==
  /\ FwdStep \in Nat \ {0} /\ EmCount \in Nat \ {0} /\ MaxBurst \in Nat
  /\ BadPort \notin Enabled /\ NoRoute \notin Enabled /\ BadPort # NoRoute
BY L3fwdLookupAssumption

\* What is known of each packet of the burst.
LEMMA PacketFacts ==
  ASSUME ChosenInv
  PROVE  /\ Nb \in Nat \ {0} /\ portid \in Enabled
         /\ \A i \in 1 .. Nb :
              /\ From(i) \in Enabled /\ From(i) # BadPort
              /\ pkts[i].r4 \in Enabled \cup {NoRoute} /\ pkts[i].r6 \in Enabled \cup {NoRoute}
<1>1. Nb \in Nat \ {0} /\ portid \in Enabled
  BY L3fwdLookupAssumption DEF ChosenInv
<1>2. ASSUME NEW i \in 1 .. Nb
      PROVE  /\ pkts[i].r4 \in Enabled \cup {NoRoute} /\ pkts[i].r6 \in Enabled \cup {NoRoute}
             /\ pkts[i].port \in Enabled
  <2>1. pkts[i] \in Kind
    BY DEF ChosenInv, Nb
  <2>2. QED
    BY <2>1, L3fwdLookupAssumption
<1>3. ASSUME NEW i \in 1 .. Nb PROVE From(i) \in Enabled
  BY <1>1, <1>2 DEF From
<1>4. QED
  BY <1>1, <1>2, <1>3, Bounds

\* Every lookup but that of ACL ends at an enabled port.
LEMMA HopsAreEnabled ==
  ASSUME ChosenInv, NEW i \in 1 .. Nb
  PROVE  /\ LpmGetDstPort(i) \in Enabled
         /\ EmGetDstPort(i) \in Enabled
         /\ EmHop(pkts[i].r4, From(i)) \in Enabled
         /\ EmHop(pkts[i].r6, From(i)) \in Enabled
         /\ Or(pkts[i].r4, From(i)) \in Enabled
         /\ Or(pkts[i].r6, From(i)) \in Enabled
         /\ Or(pkts[i].r4, BadPort) \in Enabled \cup {BadPort}
         /\ Or(pkts[i].r6, BadPort) \in Enabled \cup {BadPort}
<1>1. /\ From(i) \in Enabled
      /\ pkts[i].r4 \in Enabled \cup {NoRoute} /\ pkts[i].r6 \in Enabled \cup {NoRoute}
  BY PacketFacts
<1>2. /\ Or(pkts[i].r4, From(i)) \in Enabled
      /\ Or(pkts[i].r6, From(i)) \in Enabled
      /\ Or(pkts[i].r4, BadPort) \in Enabled \cup {BadPort}
      /\ Or(pkts[i].r6, BadPort) \in Enabled \cup {BadPort}
  BY <1>1 DEF Or
<1>3. /\ EmHop(pkts[i].r4, From(i)) \in Enabled
      /\ EmHop(pkts[i].r6, From(i)) \in Enabled
  BY <1>1 DEF EmHop
<1>4. LpmGetDstPort(i) \in Enabled
  BY <1>1, <1>2 DEF LpmGetDstPort
<1>5. EmGetDstPort(i) \in Enabled
  BY <1>1, <1>3 DEF EmGetDstPort
<1>6. QED
  BY <1>2, <1>3, <1>4, <1>5

\* What a table says of a packet is an enabled port or, for ACL only, BAD_PORT.
LEMMA OwnHopsEnabled ==
  ASSUME ChosenInv, NEW i \in 1 .. Nb, NEW h \in OwnHops(i)
  PROVE  /\ h \in Enabled \cup {BadPort}
         /\ lookup # "acl" => h \in Enabled /\ h # BadPort
<1>1. CASE lookup = "lpm"
  BY <1>1, HopsAreEnabled, Bounds DEF OwnHops
<1>2. CASE lookup = "em"
  BY <1>2, HopsAreEnabled, Bounds DEF OwnHops
<1>3. CASE lookup = "fib"
  BY <1>3, HopsAreEnabled, Bounds DEF OwnHops
<1>4. CASE lookup = "acl"
  BY <1>4, HopsAreEnabled DEF OwnHops
<1>5. QED
  BY <1>1, <1>2, <1>3, <1>4 DEF ChosenInv

\* The invalid packets that this code refuses in event mode, by BAD_PORT or, in the event
\* loop of FIB, by sending them back: all but those EM looks up last in a vector.  This
\* says what the loops do, and only the invariant uses it.
Refused(i) ==
  /\ Checks /\ Invalid(i)
  /\ ~(lookup = "em" /\ Vector /\ i > Grouped(EmCount))

\* The checks of a packet fail because of the packet alone.
LEMMA RefusedIs ==
  ASSUME ChosenInv, NEW i \in 1 .. Nb
  PROVE  /\ Refused(i) <=> /\ Checks /\ IsIpv4(i) /\ pkts[i].bad
                           /\ ~(lookup = "em" /\ Vector /\ i > Grouped(EmCount))
         /\ \A h : Rfc1812(i, h) = IF IsIpv4(i) /\ pkts[i].bad THEN BadPort ELSE h
  BY PacketFacts DEF Refused, Rfc1812, Invalid

\* What packet i has once it is looked up and checked.
Looked(i, h) ==
  IF Refused(i)
  THEN h = IF lookup = "fib" /\ entry = "event" THEN From(i) ELSE BadPort
  ELSE h \in OwnHops(i)

\* Such a hop is BAD_PORT, in an event vector, exactly for the packets refused.
LEMMA LookedIsHop ==
  ASSUME ChosenInv, NEW i \in 1 .. Nb, NEW h, Looked(i, h)
  PROVE  /\ h \in Enabled \cup {BadPort} /\ h # NoRoute
         /\ Vector => (h = BadPort <=> Refused(i))
<1>1. h \in Enabled \cup {BadPort}
  BY PacketFacts, OwnHopsEnabled DEF Looked
<1>2. Vector => lookup # "acl" /\ entry # "event"
  BY DEF ChosenInv, Vector
<1>3. QED
  BY <1>1, <1>2, OwnHopsEnabled, Bounds DEF Looked

\* As long as the inputs stay, so does all that depends on them alone.
LEMMA Frame ==
  ASSUME ChosenInv, UNCHANGED chosen
  PROVE  /\ ChosenInv' /\ Nb' = Nb /\ lookup' = lookup /\ entry' = entry
         /\ Vector' <=> Vector
         /\ \A i : From(i)' = From(i)
         /\ \A i : Refused(i)' <=> Refused(i)
         /\ \A i : OwnHops(i)' = OwnHops(i)
         /\ \A i : LpmGetDstPort(i)' = LpmGetDstPort(i)
         /\ \A i : TypeOf(i)' = TypeOf(i)
         /\ \A n : Grouped(n)' = Grouped(n)
<1>1. lookup' = lookup /\ entry' = entry /\ parse' = parse /\ pkts' = pkts /\ portid' = portid
  BY DEF chosen
<1>2. ChosenInv' /\ Nb' = Nb
  BY <1>1 DEF ChosenInv, Nb
<1>3. (Vector' <=> Vector) /\ (Checks' <=> Checks)
  BY <1>1 DEF Vector, Checks
<1>4. \A n : Grouped(n)' = Grouped(n)
  BY <1>1, <1>2 DEF Grouped
<1>5. \A i : From(i)' = From(i)
  BY <1>1 DEF From
<1>6. \A i : PacketType(i)' = PacketType(i)
  BY <1>1 DEF PacketType
<1>7. /\ \A i : L3(i)' = L3(i)
      /\ \A i : L4(i)' = L4(i)
  BY <1>6 DEF L3, L4
<1>8. /\ \A i : IsIpv4(i)' <=> IsIpv4(i)
      /\ \A i : IsIpv6(i)' <=> IsIpv6(i)
  BY <1>7 DEF IsIpv4, IsIpv6
<1>9. /\ \A i : LpmGetDstPort(i)' = LpmGetDstPort(i)
      /\ \A i : EmGetDstPort(i)' = EmGetDstPort(i)
  BY <1>1, <1>5, <1>7, <1>8 DEF LpmGetDstPort, EmGetDstPort
<1>10. \A i : Refused(i)' <=> Refused(i)
  BY <1>1, <1>3, <1>4, <1>5, <1>8 DEF Refused, Rfc1812, Invalid
<1>11. \A i : TypeOf(i)' = TypeOf(i)
  BY <1>1, <1>8 DEF TypeOf
<1>12. \A i : OwnHops(i)' = OwnHops(i)
  BY <1>1, <1>5, <1>7, <1>8, <1>9 DEF OwnHops
<1>13. QED
  BY <1>1, <1>2, <1>3, <1>4, <1>5, <1>9, <1>10, <1>11, <1>12

-----------------------------------------------------------------------------
(* What each loop has done so far.                                         *)

\* The packets before j have their hop, in whole groups; LPM has not checked them yet.
GroupsInv ==
  pc = "groups" =>
    /\ lookup \in {"lpm", "em"}
    /\ lookup = "lpm" =>
         /\ \E a \in Nat : j = 1 + FwdStep * a
         /\ j <= Grouped(FwdStep) + 1
         /\ \A i \in 1 .. Nb : i < j => hops[i] = LpmGetDstPort(i)
    /\ lookup = "em" =>
         /\ \E a \in Nat : j = 1 + EmCount * a
         /\ j <= Grouped(EmCount) + 1
         /\ \A i \in 1 .. Nb : i < j => Looked(i, hops[i])

TailInv ==
  pc = "tail" =>
    /\ lookup \in {"lpm", "em"}
    /\ lookup = "em" => j > Grouped(EmCount)
    /\ \A i \in 1 .. Nb : i < j => Looked(i, hops[i])

\* l is the list of the packets of type t among the first n, in their order.
Listed(l, t, n) ==
  /\ l \in Seq(Nat)
  /\ \A k \in 1 .. Len(l) : l[k] \in 1 .. n
  /\ \A k, m \in 1 .. Len(l) : k < m => l[k] < l[m]
  /\ \A i \in 1 .. n : TypeOf(i) = t <=> \E k \in 1 .. Len(l) : l[k] = i

Types(n) == types \in Seq({"v4", "v6", "none"}) /\ Len(types) = n /\ \A i \in 1 .. n : types[i] = TypeOf(i)

ParseInv ==
  pc = "parse" =>
    /\ lookup \in {"fib", "acl"}
    /\ Types(j - 1)
    /\ Listed(list4, "v4", j - 1)
    /\ Listed(list6, "v6", j - 1)
    /\ n4 = 0 /\ n6 = 0 /\ drops = 0

\* The results taken of a list are those of the packets before j.
TakenOf(l, n) == \A k \in 1 .. Len(l) : k <= n <=> l[k] < j

Drops(n) == drops = Cardinality({i \in 1 .. n : hops[i] = BadPort})

MergeInv ==
  pc = "merge" =>
    /\ lookup \in {"fib", "acl"}
    /\ Types(Nb)
    /\ Listed(list4, "v4", Nb) /\ TakenOf(list4, n4)
    /\ Listed(list6, "v6", Nb) /\ TakenOf(list6, n6)
    /\ \A i \in 1 .. Nb :
         i < j => IF Vector THEN hops[i] \in OwnHops(i) ELSE Looked(i, hops[i])
    /\ lookup = "acl" => Drops(j - 1)

LookedInv ==
  pc = "looked" =>
    /\ \A i \in 1 .. Nb : Looked(i, hops[i])
    /\ lookup = "acl" => Drops(Nb)

\* No packet has moved before the filter.
StillInv ==
  pc \notin {"filter", "done"} =>
    /\ mbufs = [i \in 1 .. Nb |-> i]
    /\ pos = 0 /\ freed = <<>>

\* The first n packets are filtered: the good ones stand in front in their order, each with
\* its own hop, the others are freed, and pos is the place after the good ones.
Filtered(n, bufs, h, bad, p) ==
  /\ bad \in Seq(Nat) /\ Len(bad) \in 0 .. n
  /\ \A k \in 1 .. Len(bad) : bad[k] \in 1 .. n
  /\ \A i \in 1 .. n : Refused(i) <=> \E k \in 1 .. Len(bad) : bad[k] = i
  /\ \A k \in 1 .. n - Len(bad) : bufs[k] \in 1 .. n
  /\ \A k, m \in 1 .. n - Len(bad) : k < m => bufs[k] < bufs[m]
  /\ \A i \in 1 .. n : ~Refused(i) <=> \E k \in 1 .. n - Len(bad) : bufs[k] = i
  /\ \A i \in 1 .. n : \A k \in 1 .. n - Len(bad) : bufs[k] = i => h[k] \in OwnHops(i)
  /\ p = IF Len(bad) = 0 THEN 0 ELSE n - Len(bad) + 1

FilterInv ==
  pc = "filter" =>
    /\ Vector
    /\ Filtered(j - 1, mbufs, hops, freed, pos)
    /\ \A i \in 1 .. Nb : i >= j => mbufs[i] = i /\ Looked(i, hops[i])

DoneInv ==
  pc = "done" /\ Vector =>
    /\ Filtered(Nb, mbufs, hops, freed, pos)
    /\ vec = LET n == Nb - Len(freed)
             IN  <<[nbElem |-> n, attrValid |-> OnePort(n) # BadPort, port |-> OnePort(n)]>>

IInv ==
  /\ ChosenInv /\ TypeOK
  /\ GroupsInv /\ TailInv /\ ParseInv /\ MergeInv
  /\ LookedInv /\ StillInv /\ FilterInv /\ DoneInv

-----------------------------------------------------------------------------
(* LPM and EM.                                                             *)

\* Only a burst or a vector of one port is looked up in groups.
LEMMA InGroups ==
  ASSUME ChosenInv, NEW f \in Nat \ {0}
  PROVE  /\ Grouped(f) \in 0 .. Nb
         /\ \E b \in Nat : Grouped(f) = f * b
         /\ Grouped(f) > 0 => \A i : From(i) = portid
<1>1. Nb \in Nat
  BY PacketFacts
<1>2. CASE entry \in {"burst", "vector"}
  <2>1. Grouped(f) = Nb - (Nb % f)
    BY <1>2 DEF Grouped
  <2>2. \A i : From(i) = portid
    BY <1>2 DEF From
  <2>3. QED
    BY <1>1, <2>1, <2>2, WholeGroups
<1>3. CASE entry \notin {"burst", "vector"}
  <2>1. Grouped(f) = 0
    BY <1>3 DEF Grouped
  <2>2. Grouped(f) = f * 0
    BY <2>1
  <2>3. QED
    BY <1>1, <2>1, <2>2
<1>4. QED
  BY <1>2, <1>3

\* The group that starts at index n is whole, and the next one starts after it.
LEMMA NextGroup ==
  ASSUME ChosenInv, NEW f \in Nat \ {0}, NEW n \in Nat, n <= Grouped(f),
         \E a \in Nat : n = 1 + f * a
  PROVE  /\ n + f \in Nat /\ n + f <= Grouped(f) + 1
         /\ \E a \in Nat : n + f = 1 + f * a
         /\ \A i : From(i) = portid
         /\ n + f <= Nb + 1
<1>1. PICK a \in Nat : n = 1 + f * a
  OBVIOUS
<1>2. PICK b \in Nat : Grouped(f) = f * b
  BY InGroups
<1>3. f * a \in Nat /\ f * b \in Nat
  BY <1>1
<1>4. f * a < f * b
  BY <1>1, <1>2, <1>3
<1>5. f * a + f <= f * b /\ f * a + f = f * (a + 1)
  BY <1>4, NextWhole
<1>6. n + f = 1 + f * (a + 1) /\ n + f <= Grouped(f) + 1
  BY <1>1, <1>2, <1>3, <1>5
<1>7. Grouped(f) > 0 /\ Grouped(f) \in 0 .. Nb /\ Nb \in Nat
  BY <1>1, <1>2, <1>3, <1>4, InGroups, PacketFacts
<1>8. \A i : From(i) = portid
  BY <1>7, InGroups
<1>9. QED
  BY <1>6, <1>7, <1>8

\* A step that keeps pc at the groups or the tail, and all of the rest but j and hops.
LEMMA IndexStep ==
  ASSUME IInv, UNCHANGED <<chosen, split, merge, filter>>,
         pc' \in {"groups", "tail"}, pc \in {"groups", "tail"},
         j' \in 1 .. Nb + 1, hops' \in [1 .. Nb -> Enabled \cup {BadPort, NoRoute}],
         GroupsInv', TailInv'
  PROVE  IInv'
<1>1. ChosenInv' /\ Nb' = Nb
  BY Frame DEF IInv
<1>2. TypeOK'
  <2>1. /\ portid' = portid /\ pkts' = pkts /\ n4' = n4 /\ n6' = n6
        /\ list4' = list4 /\ list6' = list6 /\ mbufs' = mbufs /\ pos' = pos
    BY DEF chosen, split, merge, filter
  <2>2. QED
    BY <1>1, <2>1 DEF IInv, TypeOK
<1>3. StillInv'
  BY <1>1 DEF IInv, StillInv, filter
<1>4. ParseInv' /\ MergeInv' /\ LookedInv' /\ FilterInv' /\ DoneInv'
  BY DEF ParseInv, MergeInv, LookedInv, FilterInv, DoneInv
<1>5. QED
  BY <1>1, <1>2, <1>3, <1>4 DEF IInv

\* Four packets at once: each gets what it would have got alone.
LEMMA LpmFourStep ==
  ASSUME IInv, LpmFour
  PROVE  IInv'
<1> DEFINE group == j .. j + FwdStep - 1
<1>1. ChosenInv /\ TypeOK /\ UNCHANGED <<chosen, split, merge, filter>> /\ pc' = pc
  BY DEF IInv, LpmFour
<1>2. /\ lookup = "lpm" /\ pc = "groups" /\ j' = j + FwdStep
      /\ hops' = [i \in 1 .. Nb |->
                    IF i \notin group THEN hops[i]
                    ELSE IF AllIpv4(group) THEN Or(pkts[i].r4, portid) ELSE LpmGetDstPort(i)]
  BY DEF LpmFour
<1>3. j \in Nat /\ Nb \in Nat /\ FwdStep \in Nat \ {0} /\ j >= 1
  BY <1>1, PacketFacts, Bounds DEF TypeOK
<1>4. /\ \E a \in Nat : j = 1 + FwdStep * a
      /\ \A i \in 1 .. Nb : i < j => hops[i] = LpmGetDstPort(i)
  BY <1>2 DEF IInv, GroupsInv
<1>5. /\ j' <= Grouped(FwdStep) + 1 /\ j' <= Nb + 1
      /\ \E a \in Nat : j' = 1 + FwdStep * a
      /\ \A i : From(i) = portid
  <2>1. j <= Grouped(FwdStep)
    BY DEF LpmFour
  <2>2. j + FwdStep <= Grouped(FwdStep) + 1 /\ j + FwdStep <= Nb + 1
    BY <1>1, <1>3, <1>4, <2>1, NextGroup
  <2>3. \E a \in Nat : j + FwdStep = 1 + FwdStep * a
    BY <1>1, <1>3, <1>4, <2>1, NextGroup
  <2>4. \A i : From(i) = portid
    BY <1>1, <1>3, <1>4, <2>1, NextGroup
  <2>5. QED
    BY <1>2, <2>2, <2>3, <2>4
<1>6. ASSUME NEW i \in 1 .. Nb, i \in group
      PROVE  hops'[i] = LpmGetDstPort(i)
  <2>1. CASE AllIpv4(group)
    BY <1>2, <1>5, <1>6, <2>1 DEF AllIpv4, LpmGetDstPort
  <2>2. CASE ~AllIpv4(group)
    BY <1>2, <1>6, <2>2
  <2>3. QED
    BY <2>1, <2>2
<1>7. \A i \in 1 .. Nb : i < j' => hops'[i] = LpmGetDstPort(i)
  BY <1>2, <1>3, <1>4, <1>6
<1>8. hops' \in [1 .. Nb -> Enabled \cup {BadPort, NoRoute}]
  <2>1. ASSUME NEW i \in 1 .. Nb PROVE hops'[i] \in Enabled \cup {BadPort, NoRoute}
    <3>1. CASE i \in group
      BY <1>1, <1>6, <3>1, HopsAreEnabled
    <3>2. CASE i \notin group
      BY <1>1, <1>2, <3>2 DEF TypeOK
    <3>3. QED
      BY <3>1, <3>2
  <2>2. hops' = [i \in 1 .. Nb |-> hops'[i]]
    BY <1>2, Zenon
  <2>3. QED
    BY <2>1, <2>2
<1>9. GroupsInv'
  BY <1>1, <1>2, <1>5, <1>7, Frame DEF GroupsInv
<1>10. TailInv'
  BY <1>1, <1>2 DEF TailInv
<1>11. j' \in 1 .. Nb + 1
  BY <1>2, <1>3, <1>5
<1>12. QED
  BY <1>1, <1>2, <1>8, <1>9, <1>10, <1>11, IndexStep

\* The checks of the whole groups come once, after all of the groups.
LEMMA LpmStep3Step ==
  ASSUME IInv, LpmStep3
  PROVE  IInv'
<1>1. ChosenInv /\ TypeOK /\ UNCHANGED <<chosen, split, merge, filter>> /\ j' = j
  BY DEF IInv, LpmStep3
<1>2. /\ lookup = "lpm" /\ pc = "groups" /\ pc' = "tail" /\ j > Grouped(FwdStep)
      /\ hops' = [i \in 1 .. Nb |->
                IF Checks /\ i <= Grouped(FwdStep) THEN Rfc1812(i, hops[i]) ELSE hops[i]]
  BY DEF LpmStep3
<1>3. j \in 1 .. Nb + 1 /\ Nb \in Nat /\ Grouped(FwdStep) \in Nat
  <2>1. FwdStep \in Nat \ {0}
    BY Bounds
  <2>2. Grouped(FwdStep) \in 0 .. Nb
    BY <1>1, <2>1, InGroups
  <2>3. Nb \in Nat
    BY <1>1, PacketFacts
  <2>4. QED
    BY <1>1, <2>2, <2>3 DEF TypeOK
<1>4. /\ j = Grouped(FwdStep) + 1
      /\ \A i \in 1 .. Nb : i < j => hops[i] = LpmGetDstPort(i)
  BY <1>2, <1>3 DEF IInv, GroupsInv
<1>5. ASSUME NEW i \in 1 .. Nb, i < j
      PROVE  Looked(i, hops'[i])
  <2>1. hops[i] = LpmGetDstPort(i) /\ i <= Grouped(FwdStep)
    BY <1>3, <1>4, <1>5
  <2>2. OwnHops(i) = {LpmGetDstPort(i)}
    BY <1>2 DEF OwnHops
  <2>3. CASE Checks
    <3>1. hops'[i] = Rfc1812(i, LpmGetDstPort(i))
      BY <1>2, <2>1, <2>3
    <3>2. QED
      BY <1>1, <1>2, <2>2, <2>3, <3>1, RefusedIs DEF Looked
  <2>4. CASE ~Checks
    BY <1>2, <2>1, <2>2, <2>4 DEF Looked, Refused
  <2>5. QED
    BY <2>3, <2>4
<1>6. hops' \in [1 .. Nb -> Enabled \cup {BadPort, NoRoute}]
  <2>1. ASSUME NEW i \in 1 .. Nb PROVE hops'[i] \in Enabled \cup {BadPort, NoRoute}
    BY <1>1, <1>2 DEF TypeOK, Rfc1812, Invalid
  <2>2. hops' = [i \in 1 .. Nb |-> hops'[i]]
    BY <1>2, Zenon
  <2>3. QED
    BY <2>1, <2>2
<1>7. TailInv'
  BY <1>1, <1>2, <1>5, Frame DEF TailInv, Looked
<1>8. GroupsInv'
  BY <1>2 DEF GroupsInv
<1>9. QED
  BY <1>1, <1>2, <1>3, <1>6, <1>7, <1>8, IndexStep

\* One packet of the tail gets a hop h.
LEMMA TailStep ==
  ASSUME IInv, NEW h, Looked(j, h), UNCHANGED <<chosen, split, merge, filter>>,
         pc = "tail", pc' = pc, j <= Nb, j' = j + 1, hops' = [hops EXCEPT ![j] = h]
  PROVE  IInv'
<1>1. ChosenInv /\ TypeOK /\ UNCHANGED chosen
  BY DEF IInv
<1>2. j \in 1 .. Nb /\ Nb \in Nat
  BY <1>1, PacketFacts DEF TypeOK
<1>3. /\ lookup \in {"lpm", "em"}
      /\ lookup = "em" => j > Grouped(EmCount)
      /\ \A i \in 1 .. Nb : i < j => Looked(i, hops[i])
  BY DEF IInv, TailInv
<1>4. h \in Enabled \cup {BadPort}
  BY <1>1, <1>2, LookedIsHop
<1>5. hops \in [1 .. Nb -> Enabled \cup {BadPort, NoRoute}]
  BY <1>1 DEF TypeOK
<1>6. hops' \in [1 .. Nb -> Enabled \cup {BadPort, NoRoute}]
  BY <1>4, <1>5
<1>7. ASSUME NEW i \in 1 .. Nb, i < j'
      PROVE  Looked(i, hops'[i])
  <2>1. CASE i = j
    BY <1>2, <1>5, <2>1
  <2>2. CASE i < j
    BY <1>2, <1>3, <1>5, <2>2
  <2>3. QED
    BY <1>2, <1>7, <2>1, <2>2
<1>8. lookup = "em" => j' > Grouped(EmCount)
  <2>1. EmCount \in Nat \ {0}
    BY Bounds
  <2>2. Grouped(EmCount) \in 0 .. Nb
    BY <1>1, <2>1, InGroups
  <2>3. QED
    BY <1>2, <1>3, <2>2
<1>9. TailInv'
  BY <1>1, <1>3, <1>7, <1>8, Frame DEF TailInv, Looked
<1>10. GroupsInv'
  BY DEF GroupsInv
<1>11. j' \in 1 .. Nb + 1
  BY <1>2
<1>12. QED
  BY <1>6, <1>9, <1>10, <1>11, IndexStep

\* A packet left over of the groups is looked up and checked alone.
LEMMA LpmOneStep ==
  ASSUME IInv, LpmOne
  PROVE  IInv'
<1> DEFINE h == IF Checks THEN Rfc1812(j, LpmGetDstPort(j)) ELSE LpmGetDstPort(j)
<1>1. ChosenInv /\ lookup = "lpm" /\ j \in 1 .. Nb
  BY PacketFacts DEF IInv, LpmOne, TypeOK
<1>2. OwnHops(j) = {LpmGetDstPort(j)}
  BY <1>1 DEF OwnHops
<1>3. Looked(j, h)
  <2>1. CASE Checks
    BY <1>1, <1>2, <2>1, RefusedIs DEF Looked
  <2>2. CASE ~Checks
    BY <1>2, <2>2 DEF Looked, Refused
  <2>3. QED
    BY <2>1, <2>2
<1> HIDE DEF h
<1>4. /\ UNCHANGED <<chosen, split, merge, filter>> /\ pc = "tail" /\ pc' = pc
      /\ j <= Nb /\ j' = j + 1
      /\ hops' = [hops EXCEPT ![j] = h]
  BY DEF LpmOne, h
<1>5. QED
  BY <1>3, <1>4, TailStep

\* What em_get_dst_port gives is a hop of the packet's own, and so is a hop of the bulk
\* lookup for its type.
LEMMA EmOwnHops ==
  ASSUME lookup = "em", NEW i
  PROVE  /\ EmGetDstPort(i) \in OwnHops(i)
         /\ IsIpv4(i) /\ L4(i) # {} => EmHop(pkts[i].r4, From(i)) \in OwnHops(i)
         /\ IsIpv6(i) /\ L4(i) # {} => EmHop(pkts[i].r6, From(i)) \in OwnHops(i)
  BY DEF OwnHops

\* A packet EM looks up last is not checked; a vector is the only one it matters for.
LEMMA EmOneStep ==
  ASSUME IInv, EmOne
  PROVE  IInv'
<1> DEFINE h == EmGetDstPort(j)
<1>1. ChosenInv /\ lookup = "em" /\ entry # "event" /\ pc = "tail" /\ j \in 1 .. Nb
  BY PacketFacts DEF IInv, EmOne, TypeOK
<1>2. j > Grouped(EmCount)
  BY <1>1 DEF IInv, TailInv
<1>3. ~Refused(j)
  <2>1. CASE Vector
    BY <1>1, <1>2, <2>1 DEF Refused
  <2>2. CASE ~Vector
    BY <1>1, <2>2 DEF Refused, Checks, Vector, ChosenInv
  <2>3. QED
    BY <2>1, <2>2
<1>4. Looked(j, h)
  BY <1>1, <1>3, EmOwnHops DEF Looked
<1> HIDE DEF h
<1>5. /\ UNCHANGED <<chosen, split, merge, filter>> /\ pc = "tail" /\ pc' = pc
      /\ j <= Nb /\ j' = j + 1
      /\ hops' = [hops EXCEPT ![j] = h]
  BY DEF EmOne, h
<1>6. QED
  BY <1>4, <1>5, TailStep

\* A single event is looked up and checked alone.
LEMMA EmEventStep ==
  ASSUME IInv, EmEvent
  PROVE  IInv'
<1> DEFINE h == Rfc1812(j, EmGetDstPort(j))
<1>1. ChosenInv /\ lookup = "em" /\ entry = "event" /\ j \in 1 .. Nb
  BY PacketFacts DEF IInv, EmEvent, TypeOK
<1>2. Checks /\ ~Vector
  BY <1>1 DEF Checks, Vector
<1>3. Looked(j, h)
  BY <1>1, <1>2, EmOwnHops, RefusedIs DEF Looked
<1> HIDE DEF h
<1>4. /\ UNCHANGED <<chosen, split, merge, filter>> /\ pc = "tail" /\ pc' = pc
      /\ j <= Nb /\ j' = j + 1
      /\ hops' = [hops EXCEPT ![j] = h]
  BY DEF EmEvent, h
<1>5. QED
  BY <1>3, <1>4, TailStep

\* A bulk lookup is made only if all of the group have the type of its table.
LEMMA EmGroupStep ==
  ASSUME IInv, EmGroup
  PROVE  IInv'
<1> DEFINE group == j .. j + EmCount - 1
           l3 == IF Common({L4(i) : i \in group}) = {} THEN {}
                 ELSE Common({L3(i) : i \in group})
           Hop(i) == CASE l3 = {"ipv4"} -> EmHop(pkts[i].r4, portid)
                       [] l3 = {"ipv6"} -> EmHop(pkts[i].r6, portid)
                       [] OTHER -> EmGetDstPort(i)
           New(i) == IF Checks THEN Rfc1812(i, Hop(i)) ELSE Hop(i)
<1>1. ChosenInv /\ TypeOK /\ UNCHANGED <<chosen, split, merge, filter>> /\ pc' = pc
  BY DEF IInv, EmGroup
<1>2. /\ lookup = "em" /\ pc = "groups" /\ j' = j + EmCount
      /\ hops' = [i \in 1 .. Nb |-> IF i \notin group THEN hops[i] ELSE New(i)]
  BY DEF EmGroup
<1>3. j \in Nat /\ Nb \in Nat /\ EmCount \in Nat \ {0} /\ j >= 1
  BY <1>1, PacketFacts, Bounds DEF TypeOK
<1>4. /\ \E a \in Nat : j = 1 + EmCount * a
      /\ \A i \in 1 .. Nb : i < j => Looked(i, hops[i])
  BY <1>2 DEF IInv, GroupsInv
<1>5. j <= Grouped(EmCount) /\ Grouped(EmCount) \in 0 .. Nb
  BY <1>1, <1>3, InGroups DEF EmGroup
<1>6. j + EmCount <= Grouped(EmCount) + 1 /\ j + EmCount <= Nb + 1
  BY <1>1, <1>3, <1>4, <1>5, NextGroup
<1>7. \E a \in Nat : j + EmCount = 1 + EmCount * a
  BY <1>1, <1>3, <1>4, <1>5, NextGroup
<1>8. \A i : From(i) = portid
  BY <1>1, <1>3, <1>4, <1>5, NextGroup
<1>9. ASSUME NEW i \in 1 .. Nb, i \in group
      PROVE  Looked(i, New(i))
  <2>1. l3 # {} => L4(i) # {}
    BY <1>9 DEF Common
  <2>2. l3 \subseteq L3(i)
    BY <1>9 DEF Common
  <2>3. Hop(i) \in OwnHops(i)
    <3>1. CASE l3 = {"ipv4"}
      <4>1. IsIpv4(i) /\ L4(i) # {}
        BY <2>1, <2>2, <3>1 DEF IsIpv4
      <4>2. Hop(i) = EmHop(pkts[i].r4, From(i))
        BY <1>8, <3>1
      <4>3. EmHop(pkts[i].r4, From(i)) \in OwnHops(i)
        BY <1>2, <4>1, EmOwnHops
      <4>4. QED
        BY <4>2, <4>3
    <3>2. CASE l3 = {"ipv6"}
      <4>1. IsIpv6(i) /\ L4(i) # {}
        BY <2>1, <2>2, <3>2 DEF IsIpv6
      <4>2. Hop(i) = EmHop(pkts[i].r6, From(i))
        BY <1>8, <3>2
      <4>3. EmHop(pkts[i].r6, From(i)) \in OwnHops(i)
        BY <1>2, <4>1, EmOwnHops
      <4>4. QED
        BY <4>2, <4>3
    <3>3. CASE l3 # {"ipv4"} /\ l3 # {"ipv6"}
      BY <1>2, <3>3, EmOwnHops
    <3>4. QED
      BY <3>1, <3>2, <3>3
  <2> HIDE DEF Hop
  <2>4. ~(i > Grouped(EmCount))
    BY <1>3, <1>5, <1>6, <1>9
  <2>5. CASE Checks
    BY <1>1, <1>2, <2>3, <2>4, <2>5, RefusedIs DEF Looked
  <2>6. CASE ~Checks
    BY <2>3, <2>6 DEF Looked, Refused
  <2>7. QED
    BY <2>5, <2>6
<1> HIDE DEF New, l3
<1>10. ASSUME NEW i \in 1 .. Nb, i < j'
       PROVE  Looked(i, hops'[i])
  <2>1. CASE i \in group
    BY <1>2, <1>9, <2>1
  <2>2. CASE i \notin group
    <3>1. i < j
      BY <1>2, <1>3, <1>10, <2>2
    <3>2. QED
      BY <1>2, <1>4, <2>2, <3>1
  <2>3. QED
    BY <2>1, <2>2
<1>11. hops' \in [1 .. Nb -> Enabled \cup {BadPort, NoRoute}]
  <2>1. ASSUME NEW i \in 1 .. Nb PROVE hops'[i] \in Enabled \cup {BadPort, NoRoute}
    <3>1. CASE i \in group
      BY <1>1, <1>2, <1>9, <3>1, LookedIsHop
    <3>2. CASE i \notin group
      BY <1>1, <1>2, <3>2 DEF TypeOK
    <3>3. QED
      BY <3>1, <3>2
  <2>2. hops' = [i \in 1 .. Nb |-> hops'[i]]
    BY <1>2, Zenon
  <2>3. QED
    BY <2>1, <2>2
<1>12. GroupsInv'
  BY <1>1, <1>2, <1>6, <1>7, <1>10, Frame DEF GroupsInv, Looked
<1>13. TailInv'
  BY <1>1, <1>2 DEF TailInv
<1>14. j' \in 1 .. Nb + 1
  BY <1>2, <1>3, <1>6
<1>15. QED
  BY <1>1, <1>2, <1>11, <1>12, <1>13, <1>14, IndexStep

\* After the groups of EM come the packets that are left.
LEMMA EmGroupsEndStep ==
  ASSUME IInv, EmGroupsEnd
  PROVE  IInv'
<1>1. ChosenInv /\ TypeOK /\ UNCHANGED <<chosen, split, merge, filter>>
  BY DEF IInv, EmGroupsEnd
<1>2. /\ lookup = "em" /\ pc = "groups" /\ pc' = "tail" /\ j > Grouped(EmCount)
      /\ j' = j /\ hops' = hops
  BY DEF EmGroupsEnd
<1>3. \A i \in 1 .. Nb : i < j => Looked(i, hops[i])
  BY <1>2 DEF IInv, GroupsInv
<1>4. TailInv'
  BY <1>1, <1>2, <1>3, Frame DEF TailInv, Looked
<1>5. GroupsInv'
  BY <1>2 DEF GroupsInv
<1>6. QED
  BY <1>1, <1>2, <1>4, <1>5, IndexStep DEF TypeOK

\* After the last packet each of the burst has its hop.
LEMMA TailEndStep ==
  ASSUME IInv, TailEnd
  PROVE  IInv'
<1>1. ChosenInv /\ TypeOK /\ pc = "tail" /\ pc' = "looked" /\ j > Nb
      /\ UNCHANGED <<chosen, j, hops, split, merge, filter>>
  BY DEF IInv, TailEnd
<1>2. lookup \in {"lpm", "em"} /\ \A i \in 1 .. Nb : i < j => Looked(i, hops[i])
  BY <1>1 DEF IInv, TailInv
<1>3. \A i \in 1 .. Nb : Looked(i, hops[i])
  BY <1>1, <1>2, PacketFacts DEF TypeOK
<1>4. \A i \in 1 .. Nb : hops[i] # NoRoute
  BY <1>1, <1>3, LookedIsHop
<1>5. ChosenInv' /\ Nb' = Nb /\ lookup' = lookup
  BY <1>1, Frame
<1>6. TypeOK'
  BY <1>1, <1>4, <1>5 DEF TypeOK, chosen, split, merge, filter
<1>7. LookedInv'
  BY <1>1, <1>2, <1>3, Frame DEF LookedInv, Looked
<1>8. StillInv'
  BY <1>1, <1>5 DEF IInv, StillInv, filter
<1>9. GroupsInv' /\ TailInv' /\ ParseInv' /\ MergeInv' /\ FilterInv' /\ DoneInv'
  BY <1>1 DEF GroupsInv, TailInv, ParseInv, MergeInv, FilterInv, DoneInv
<1>10. QED
  BY <1>5, <1>6, <1>7, <1>8, <1>9 DEF IInv

-----------------------------------------------------------------------------
(* FIB and ACL: splitting.                                                 *)

\* The list of a type after one packet more.
LEMMA ListedNext ==
  ASSUME NEW n \in Nat, NEW m, m = n + 1, NEW l, NEW t, Listed(l, t, n)
  PROVE  Listed(IF TypeOf(m) = t THEN Append(l, m) ELSE l, t, m)
<1>1. l \in Seq(Nat) /\ Len(l) \in Nat /\ m \in Nat
  BY DEF Listed
<1>2. /\ \A k \in 1 .. Len(l) : l[k] \in 1 .. n /\ l[k] \in 1 .. m /\ l[k] # m
      /\ \A k, q \in 1 .. Len(l) : k < q => l[k] < l[q]
      /\ \A i \in 1 .. n : TypeOf(i) = t <=> \E k \in 1 .. Len(l) : l[k] = i
  BY <1>1 DEF Listed
<1>3. CASE TypeOf(m) # t
  BY <1>1, <1>2, <1>3 DEF Listed
<1>4. CASE TypeOf(m) = t
  <2> DEFINE a == Append(l, m)
  <2>1. /\ a \in Seq(Nat) /\ Len(a) = Len(l) + 1
        /\ \A k \in 1 .. Len(l) : a[k] = l[k]
        /\ a[Len(a)] = m
    BY <1>1
  <2> HIDE DEF a
  <2>2. ASSUME NEW k \in 1 .. Len(a) PROVE a[k] \in 1 .. m
    <3>1. CASE k = Len(a)
      BY <1>1, <2>1, <3>1
    <3>2. CASE k # Len(a)
      <4>1. k \in 1 .. Len(l)
        BY <1>1, <2>1, <3>2
      <4>2. QED
        BY <1>2, <2>1, <4>1
    <3>3. QED
      BY <3>1, <3>2
  <2>3. ASSUME NEW k \in 1 .. Len(a), NEW q \in 1 .. Len(a), k < q PROVE a[k] < a[q]
    <3>1. k \in 1 .. Len(l)
      BY <1>1, <2>1, <2>3
    <3>2. CASE q = Len(a)
      BY <1>1, <1>2, <2>1, <3>1, <3>2
    <3>3. CASE q # Len(a)
      <4>1. q \in 1 .. Len(l)
        BY <1>1, <2>1, <3>3
      <4>2. a[k] = l[k] /\ a[q] = l[q]
        BY <2>1, <3>1, <4>1
      <4>3. l[k] < l[q]
        BY <1>2, <2>3, <3>1, <4>1
      <4>4. QED
        BY <4>2, <4>3
    <3>4. QED
      BY <3>2, <3>3
  <2>4. ASSUME NEW i \in 1 .. m
        PROVE  TypeOf(i) = t <=> \E k \in 1 .. Len(a) : a[k] = i
    <3>1. CASE i = m
      <4>1. Len(a) \in 1 .. Len(a) /\ a[Len(a)] = i
        BY <1>1, <2>1, <3>1
      <4>2. QED
        BY <1>4, <3>1, <4>1
    <3>2. CASE i # m
      <4>1. i \in 1 .. n
        BY <1>1, <3>2
      <4>2. (\E k \in 1 .. Len(l) : l[k] = i) => \E k \in 1 .. Len(a) : a[k] = i
        BY <1>1, <2>1
      <4>3. ASSUME NEW k \in 1 .. Len(a), a[k] = i
            PROVE  \E q \in 1 .. Len(l) : l[q] = i
        <5>1. k # Len(a)
          BY <2>1, <3>2, <4>3
        <5>2. k \in 1 .. Len(l)
          BY <1>1, <2>1, <5>1
        <5>3. QED
          BY <2>1, <4>3, <5>2
      <4>4. QED
        BY <1>2, <4>1, <4>2, <4>3
    <3>3. QED
      BY <3>1, <3>2
  <2>5. Listed(a, t, m)
    BY <2>1, <2>2, <2>3, <2>4 DEF Listed
  <2>6. QED
    BY <1>4, <2>5 DEF a
<1>5. QED
  BY <1>3, <1>4

\* A packet goes to the end of the list of its type.
LEMMA ParseOneStep ==
  ASSUME IInv, ParseOne
  PROVE  IInv'
<1> DEFINE n == j - 1
<1>1. /\ ChosenInv /\ TypeOK /\ pc = "parse" /\ pc' = pc
      /\ UNCHANGED <<chosen, hops, merge, filter>>
  BY DEF IInv, ParseOne
<1>2. j \in 1 .. Nb /\ Nb \in Nat /\ j' = j + 1 /\ n \in Nat /\ j = n + 1 /\ j' - 1 = j
  BY <1>1, PacketFacts DEF TypeOK, ParseOne
<1>3. /\ lookup \in {"fib", "acl"} /\ n4 = 0 /\ n6 = 0 /\ drops = 0
      /\ Types(n) /\ Listed(list4, "v4", n) /\ Listed(list6, "v6", n)
  BY <1>1 DEF IInv, ParseInv
<1> HIDE DEF n
<1>4. Listed(list4', "v4", j)
  <2>1. list4' = IF TypeOf(j) = "v4" THEN Append(list4, j) ELSE list4
    BY DEF ParseOne
  <2>2. QED
    BY <1>2, <1>3, <2>1, ListedNext
<1>5. Listed(list6', "v6", j)
  <2>1. list6' = IF TypeOf(j) = "v6" THEN Append(list6, j) ELSE list6
    BY DEF ParseOne
  <2>2. QED
    BY <1>2, <1>3, <2>1, ListedNext
<1>6. types' \in Seq({"v4", "v6", "none"}) /\ Len(types') = j /\ \A i \in 1 .. j : types'[i] = TypeOf(i)
  <2> DEFINE t == TypeOf(j)
  <2>1. t \in {"v4", "v6", "none"}
    BY DEF TypeOf
  <2>2. types' = Append(types, t)
    BY DEF ParseOne
  <2> HIDE DEF t
  <2>3. types \in Seq({"v4", "v6", "none"}) /\ Len(types) = n /\ \A i \in 1 .. n : types[i] = TypeOf(i)
    BY <1>3 DEF Types
  <2>4. /\ types' \in Seq({"v4", "v6", "none"}) /\ Len(types') = n + 1 /\ types'[n + 1] = t
        /\ \A i \in 1 .. n : types'[i] = types[i]
    BY <1>2, <2>1, <2>2, <2>3
  <2>5. types'[j] = TypeOf(j)
    BY <1>2, <2>4 DEF t
  <2>6. ASSUME NEW i \in 1 .. j PROVE types'[i] = TypeOf(i)
    BY <1>2, <2>3, <2>4, <2>5
  <2>7. QED
    BY <1>2, <2>4, <2>6
<1>7. /\ ChosenInv' /\ Nb' = Nb /\ lookup' = lookup
      /\ \A i : TypeOf(i)' = TypeOf(i)
  BY <1>1, Frame
<1>8. Listed(list4, "v4", j - 1)' /\ Listed(list6, "v6", j - 1)'
  BY <1>2, <1>4, <1>5, <1>7 DEF Listed
<1>9. Types(j - 1)'
  BY <1>2, <1>6, <1>7 DEF Types
<1>10. ParseInv'
  BY <1>1, <1>3, <1>7, <1>8, <1>9 DEF ParseInv, merge
<1>11. TypeOK'
  <2>1. Len(list4') \in Nat /\ Len(list6') \in Nat
    BY <1>4, <1>5 DEF Listed
  <2>2. n4' \in 0 .. Len(list4') /\ n6' \in 0 .. Len(list6')
    BY <1>1, <1>3, <2>1 DEF merge
  <2>3. j' \in 1 .. Nb + 1
    BY <1>2
  <2>4. QED
    BY <1>1, <1>7, <2>2, <2>3 DEF TypeOK, chosen, filter
<1>12. StillInv'
  BY <1>1, <1>7 DEF IInv, StillInv, filter
<1>13. GroupsInv' /\ TailInv' /\ MergeInv' /\ LookedInv' /\ FilterInv' /\ DoneInv'
  BY <1>1 DEF GroupsInv, TailInv, MergeInv, LookedInv, FilterInv, DoneInv
<1>14. QED
  BY <1>7, <1>10, <1>11, <1>12, <1>13 DEF IInv

\* When the merging begins, no result is taken yet.
LEMMA ParseEndStep ==
  ASSUME IInv, ParseEnd
  PROVE  IInv'
<1>1. /\ ChosenInv /\ TypeOK /\ pc = "parse" /\ pc' = "merge" /\ j > Nb /\ j' = 1
      /\ UNCHANGED <<chosen, hops, split, merge, filter>>
  BY DEF IInv, ParseEnd
<1>2. j - 1 = Nb /\ Nb \in Nat
  BY <1>1, PacketFacts DEF TypeOK
<1>3. /\ lookup \in {"fib", "acl"} /\ n4 = 0 /\ n6 = 0 /\ drops = 0
      /\ Types(Nb) /\ Listed(list4, "v4", Nb) /\ Listed(list6, "v6", Nb)
  BY <1>1, <1>2 DEF IInv, ParseInv
<1>4. /\ ChosenInv' /\ Nb' = Nb /\ lookup' = lookup
      /\ \A i : TypeOf(i)' = TypeOf(i)
  BY <1>1, Frame
<1>5. Listed(list4, "v4", Nb)' /\ Listed(list6, "v6", Nb)' /\ Types(Nb)'
  BY <1>1, <1>3, <1>4 DEF Listed, Types, split
<1>6. TakenOf(list4, n4)' /\ TakenOf(list6, n6)'
  <2>1. /\ \A k \in 1 .. Len(list4) : list4[k] \in 1 .. Nb
        /\ \A k \in 1 .. Len(list6) : list6[k] \in 1 .. Nb
    BY <1>3 DEF Listed
  <2>2. /\ \A k \in 1 .. Len(list4) : ~(k <= 0) /\ ~(list4[k] < 1)
        /\ \A k \in 1 .. Len(list6) : ~(k <= 0) /\ ~(list6[k] < 1)
    BY <1>2, <2>1
  <2>3. QED
    BY <1>1, <1>3, <2>2 DEF TakenOf, split, merge
<1>7. Drops(j - 1)'
  <2>1. {i \in 1 .. j' - 1 : hops'[i] = BadPort} = {}
    BY <1>1
  <2>2. drops' = 0
    BY <1>1, <1>3 DEF merge
  <2>3. QED
    BY <2>1, <2>2, FS_EmptySet DEF Drops
<1>8. \A i \in 1 .. Nb : ~(i < j')
  BY <1>1, <1>2
<1>9. MergeInv'
  BY <1>3, <1>4, <1>5, <1>6, <1>7, <1>8 DEF MergeInv
<1>10. TypeOK'
  BY <1>1, <1>2, <1>4 DEF TypeOK, chosen, split, merge, filter
<1>11. StillInv'
  BY <1>1, <1>4 DEF IInv, StillInv, filter
<1>12. GroupsInv' /\ TailInv' /\ ParseInv' /\ LookedInv' /\ FilterInv' /\ DoneInv'
  BY <1>1 DEF GroupsInv, TailInv, ParseInv, LookedInv, FilterInv, DoneInv
<1>13. QED
  BY <1>4, <1>9, <1>10, <1>11, <1>12 DEF IInv

-----------------------------------------------------------------------------
(* FIB and ACL: merging.                                                   *)

\* When n results of a list are taken, those of the packets before m, the next one is the
\* one of packet m if m is of the list's type.
LEMMA TakenNext ==
  ASSUME NEW b \in Nat, NEW m \in 1 .. b, NEW l, NEW t, Listed(l, t, b),
         NEW n \in 0 .. Len(l), \A k \in 1 .. Len(l) : k <= n <=> l[k] < m
  PROVE  /\ TypeOf(m) = t =>
              /\ n + 1 \in 0 .. Len(l) /\ l[n + 1] = m
              /\ \A k \in 1 .. Len(l) : k <= n + 1 <=> l[k] < m + 1
         /\ TypeOf(m) # t => \A k \in 1 .. Len(l) : k <= n <=> l[k] < m + 1
<1>1. /\ Len(l) \in Nat
      /\ \A k \in 1 .. Len(l) : l[k] \in Nat
      /\ \A k, q \in 1 .. Len(l) : k < q => l[k] < l[q]
      /\ TypeOf(m) = t <=> \E k \in 1 .. Len(l) : l[k] = m
  BY DEF Listed
<1>2. n \in Nat /\ m \in Nat
  BY <1>1
<1>3. CASE TypeOf(m) = t
  <2>1. PICK q \in 1 .. Len(l) : l[q] = m
    BY <1>1, <1>3
  <2>2. ~(q <= n)
    BY <1>1, <2>1
  <2>3. n + 1 \in 1 .. Len(l) /\ n + 1 <= q
    BY <1>1, <1>2, <2>1, <2>2
  <2>4. q = n + 1
    <3>1. SUFFICES ASSUME n + 1 < q PROVE FALSE
      BY <1>1, <1>2, <2>1, <2>3
    <3>2. l[n + 1] < m
      BY <1>1, <2>1, <2>3, <3>1
    <3>3. n + 1 <= n
      BY <2>3, <3>2
    <3>4. QED
      BY <1>2, <3>3
  <2>5. ASSUME NEW k \in 1 .. Len(l) PROVE k <= n + 1 <=> l[k] < m + 1
    <3>1. CASE k = q
      BY <1>1, <1>2, <2>1, <2>4, <3>1
    <3>2. CASE k # q
      <4>1. l[k] # m
        BY <1>1, <2>1, <3>2
      <4>2. k <= n + 1 <=> k <= n
        BY <1>2, <2>4, <3>2
      <4>3. l[k] < m + 1 <=> l[k] < m
        BY <1>1, <1>2, <4>1
      <4>4. QED
        BY <4>2, <4>3
    <3>3. QED
      BY <3>1, <3>2
  <2>6. QED
    BY <1>1, <1>2, <1>3, <2>1, <2>3, <2>4, <2>5
<1>4. CASE TypeOf(m) # t
  <2>1. \A k \in 1 .. Len(l) : l[k] # m
    BY <1>1, <1>4
  <2>2. \A k \in 1 .. Len(l) : l[k] < m + 1 <=> l[k] < m
    BY <1>1, <1>2, <2>1
  <2>3. QED
    BY <1>4, <2>2
<1>5. QED
  BY <1>3, <1>4

\* One more of the first n + 1 than of the first n.
LEMMA CountNext ==
  ASSUME NEW n \in Nat, NEW S, S \subseteq 1 .. n
  PROVE  /\ Cardinality(S) \in Nat
         /\ Cardinality(S \cup {n + 1}) = Cardinality(S) + 1
<1>1. IsFiniteSet(S)
  <2>1. S \subseteq 1 .. n /\ IsFiniteSet(1 .. n)
    BY FS_Interval
  <2>2. QED
    BY <2>1, FS_Subset
<1>2. n + 1 \notin S
  OBVIOUS
<1>3. QED
  BY <1>1, <1>2, FS_AddElement, FS_CardinalityType

\* The hop packet j gets, when the result taken for it is its own.
LEMMA MergedHop ==
  ASSUME ChosenInv, lookup \in {"fib", "acl"}, j \in 1 .. Nb, types[j] = TypeOf(j),
         TypeOf(j) = "v4" => list4[n4 + 1] = j,
         TypeOf(j) = "v6" => list6[n6 + 1] = j
  PROVE  LET h == IF lookup = "acl" THEN AclHop ELSE IF entry = "event" THEN FibPort ELSE FibHop
         IN  IF Vector THEN h \in OwnHops(j) ELSE Looked(j, h)
<1> DEFINE own == IF IsIpv4(j) THEN pkts[j].r4 ELSE pkts[j].r6
<1>1. TypeOf(j) # "none" => Taken = j /\ Result = own
  <2>1. TypeOf(j) # "none" => Taken = j
    BY DEF Taken, TypeOf
  <2>2. TypeOf(j) = "v4" <=> IsIpv4(j)
    BY DEF TypeOf
  <2>3. QED
    BY <2>1, <2>2 DEF Result
<1> HIDE DEF own
<1>2. CASE lookup = "fib"
  <2>1. TypeOf(j) # "none"
    BY <1>2 DEF TypeOf
  <2>2. FibHop = Or(own, From(j))
    BY <1>1, <2>1 DEF FibHop
  <2>3. OwnHops(j) = {Or(own, From(j))}
    BY <1>2 DEF OwnHops, own
  <2>4. FibHop \in OwnHops(j) /\ FibHop # BadPort
    BY <1>2, <2>2, <2>3, OwnHopsEnabled
  <2>5. CASE entry = "event"
    <3>1. Checks /\ ~Vector
      BY <2>5 DEF Checks, Vector
    <3>2. Refused(j) <=> IsIpv4(j) /\ pkts[j].bad
      BY <1>2, <3>1, RefusedIs
    <3>3. FibPort = IF Refused(j) THEN From(j) ELSE FibHop
      BY <2>4, <3>2, RefusedIs DEF FibPort
    <3>4. Looked(j, FibPort)
      BY <1>2, <2>4, <2>5, <3>3 DEF Looked
    <3>5. QED
      BY <1>2, <2>5, <3>1, <3>4
  <2>6. CASE entry # "event" /\ ~Vector
    <3>1. ~Refused(j)
      BY <2>6 DEF Refused, Checks, Vector, ChosenInv
    <3>2. Looked(j, FibHop)
      BY <2>4, <3>1 DEF Looked
    <3>3. QED
      BY <1>2, <2>6, <3>2
  <2>7. CASE Vector
    <3>1. entry # "event"
      BY <2>7 DEF Vector
    <3>2. QED
      BY <1>2, <2>4, <2>7, <3>1
  <2>8. QED
    BY <2>5, <2>6, <2>7
<1>3. CASE lookup = "acl"
  <2>1. ~Vector /\ ~Refused(j)
    BY <1>3 DEF ChosenInv, Vector, Refused, Checks
  <2>2. TypeOf(j) = "none" <=> ~IsIpv4(j) /\ ~IsIpv6(j)
    BY <1>3 DEF TypeOf
  <2>3. AclHop = IF TypeOf(j) = "none" \/ pkts[j].deny THEN BadPort ELSE Or(own, BadPort)
    BY <1>1 DEF AclHop
  <2>4. OwnHops(j) = IF pkts[j].deny \/ (~IsIpv4(j) /\ ~IsIpv6(j)) THEN {BadPort}
                     ELSE {Or(own, BadPort)}
    BY <1>3 DEF OwnHops, own
  <2>5. AclHop \in OwnHops(j)
    BY <2>2, <2>3, <2>4
  <2>6. Looked(j, AclHop)
    BY <2>1, <2>5 DEF Looked
  <2>7. QED
    BY <1>3, <2>1, <2>6
<1>4. QED
  BY <1>2, <1>3

\* A packet takes the next result of its list, which is its own.
LEMMA MergeOneStep ==
  ASSUME IInv, MergeOne
  PROVE  IInv'
<1> DEFINE h == IF lookup = "acl" THEN AclHop ELSE IF entry = "event" THEN FibPort ELSE FibHop
           n == j - 1
<1>1. /\ ChosenInv /\ TypeOK /\ pc = "merge" /\ pc' = pc
      /\ UNCHANGED <<chosen, split, filter>>
  BY DEF IInv, MergeOne
<1>2. /\ j \in 1 .. Nb /\ Nb \in Nat /\ j' = j + 1
      /\ n \in Nat /\ j = n + 1 /\ j' - 1 = n + 1 /\ j' \in 1 .. Nb + 1
  BY <1>1, PacketFacts DEF TypeOK, MergeOne
<1>3. /\ lookup \in {"fib", "acl"} /\ Types(Nb)
      /\ Listed(list4, "v4", Nb) /\ TakenOf(list4, n4)
      /\ Listed(list6, "v6", Nb) /\ TakenOf(list6, n6)
      /\ \A i \in 1 .. Nb :
           i < j => IF Vector THEN hops[i] \in OwnHops(i) ELSE Looked(i, hops[i])
      /\ lookup = "acl" => Drops(n)
  BY <1>1 DEF IInv, MergeInv
<1>4. n4 \in 0 .. Len(list4) /\ n6 \in 0 .. Len(list6)
  BY <1>1 DEF TypeOK
<1>5. types[j] = TypeOf(j)
  BY <1>2, <1>3 DEF Types
<1>6. /\ TypeOf(j) = "v4" =>
           /\ n4 + 1 \in 0 .. Len(list4) /\ list4[n4 + 1] = j
           /\ \A k \in 1 .. Len(list4) : k <= n4 + 1 <=> list4[k] < j + 1
      /\ TypeOf(j) # "v4" => \A k \in 1 .. Len(list4) : k <= n4 <=> list4[k] < j + 1
  <2>1. \A k \in 1 .. Len(list4) : k <= n4 <=> list4[k] < j
    BY <1>3 DEF TakenOf
  <2>2. Listed(list4, "v4", Nb)
    BY <1>3
  <2>3. QED
    BY <1>2, <1>4, <2>1, <2>2, TakenNext
<1>7. /\ TypeOf(j) = "v6" =>
           /\ n6 + 1 \in 0 .. Len(list6) /\ list6[n6 + 1] = j
           /\ \A k \in 1 .. Len(list6) : k <= n6 + 1 <=> list6[k] < j + 1
      /\ TypeOf(j) # "v6" => \A k \in 1 .. Len(list6) : k <= n6 <=> list6[k] < j + 1
  <2>1. \A k \in 1 .. Len(list6) : k <= n6 <=> list6[k] < j
    BY <1>3 DEF TakenOf
  <2>2. Listed(list6, "v6", Nb)
    BY <1>3
  <2>3. QED
    BY <1>2, <1>4, <2>1, <2>2, TakenNext
<1>8. IF Vector THEN h \in OwnHops(j) ELSE Looked(j, h)
  BY <1>1, <1>2, <1>3, <1>5, <1>6, <1>7, MergedHop
<1>9. lookup = "acl" => h = AclHop
  OBVIOUS
<1>10. hops' = [hops EXCEPT ![j] = h]
  BY DEF MergeOne
<1>11. drops' = IF lookup = "acl" /\ AclHop = BadPort THEN drops + 1 ELSE drops
  BY DEF MergeOne
<1> HIDE DEF h, n
<1>12. h \in Enabled \cup {BadPort}
  <2>1. CASE Vector
    BY <1>1, <1>2, <1>8, <2>1, OwnHopsEnabled
  <2>2. CASE ~Vector
    BY <1>1, <1>2, <1>8, <2>2, LookedIsHop
  <2>3. QED
    BY <2>1, <2>2
<1>13. hops \in [1 .. Nb -> Enabled \cup {BadPort, NoRoute}]
  BY <1>1 DEF TypeOK
<1>14. /\ hops' \in [1 .. Nb -> Enabled \cup {BadPort, NoRoute}]
       /\ hops'[j] = h /\ \A i \in 1 .. n : hops[i] = hops'[i]
       /\ \A i \in 1 .. Nb : i # j => hops'[i] = hops[i]
  BY <1>2, <1>10, <1>12, <1>13
<1>15. ASSUME NEW i \in 1 .. Nb, i < j'
       PROVE  IF Vector THEN hops'[i] \in OwnHops(i) ELSE Looked(i, hops'[i])
  <2>1. CASE i = j
    BY <1>8, <1>14, <2>1
  <2>2. CASE i # j
    <3>1. i < j /\ hops'[i] = hops[i]
      BY <1>2, <1>14, <1>15, <2>2
    <3>2. QED
      BY <1>3, <3>1
  <2>3. QED
    BY <2>1, <2>2
<1>16. ASSUME lookup = "acl"
       PROVE  drops' = Cardinality({i \in 1 .. n + 1 : hops'[i] = BadPort})
  <2> DEFINE S == {i \in 1 .. n : hops[i] = BadPort}
             T == {i \in 1 .. n + 1 : hops'[i] = BadPort}
  <2>1. drops = Cardinality(S)
    BY <1>3, <1>16 DEF Drops
  <2>2. drops \in Nat /\ Cardinality(S \cup {n + 1}) = drops + 1
    BY <1>2, <2>1, CountNext
  <2>3. T = IF hops'[n + 1] = BadPort THEN S \cup {n + 1} ELSE S
    BY <1>2, <1>14
  <2> HIDE DEF S, T
  <2>4. Cardinality(T) = IF hops'[n + 1] = BadPort THEN drops + 1 ELSE drops
    BY <2>1, <2>2, <2>3
  <2>5. hops'[n + 1] = AclHop
    BY <1>2, <1>9, <1>14, <1>16
  <2>6. drops' = Cardinality(T)
    BY <1>11, <1>16, <2>4, <2>5
  <2>7. QED
    BY <2>6 DEF T
<1>17. /\ ChosenInv' /\ Nb' = Nb /\ lookup' = lookup /\ (Vector' <=> Vector)
       /\ \A i : TypeOf(i)' = TypeOf(i)
  BY <1>1, Frame
<1>18. Listed(list4, "v4", Nb)' /\ Listed(list6, "v6", Nb)' /\ Types(Nb)'
  BY <1>1, <1>3, <1>17 DEF Listed, Types, split
<1>19. n4' \in 0 .. Len(list4) /\ \A k \in 1 .. Len(list4) : k <= n4' <=> list4[k] < j'
  <2>1. n4' = IF TypeOf(j) = "v4" THEN n4 + 1 ELSE n4
    BY <1>5 DEF MergeOne
  <2>2. CASE TypeOf(j) = "v4"
    BY <1>2, <1>6, <2>1, <2>2
  <2>3. CASE TypeOf(j) # "v4"
    BY <1>2, <1>4, <1>6, <2>1, <2>3
  <2>4. QED
    BY <2>2, <2>3
<1>20. n6' \in 0 .. Len(list6) /\ \A k \in 1 .. Len(list6) : k <= n6' <=> list6[k] < j'
  <2>1. n6' = IF TypeOf(j) = "v6" THEN n6 + 1 ELSE n6
    BY <1>5 DEF MergeOne
  <2>2. CASE TypeOf(j) = "v6"
    BY <1>2, <1>7, <2>1, <2>2
  <2>3. CASE TypeOf(j) # "v6"
    BY <1>2, <1>4, <1>7, <2>1, <2>3
  <2>4. QED
    BY <2>2, <2>3
<1>21. TakenOf(list4, n4)' /\ TakenOf(list6, n6)'
  BY <1>1, <1>19, <1>20 DEF TakenOf, split
<1>22. \A i \in 1 .. Nb :
         i < j' => IF Vector' THEN hops'[i] \in OwnHops(i)' ELSE Looked(i, hops[i])'
  BY <1>1, <1>15, Frame DEF Looked
<1>23. lookup = "acl" => Drops(j - 1)'
  BY <1>2, <1>16 DEF Drops
<1>24. MergeInv'
  BY <1>3, <1>17, <1>18, <1>21, <1>22, <1>23 DEF MergeInv
<1>25. TypeOK'
  BY <1>1, <1>2, <1>14, <1>17, <1>19, <1>20 DEF TypeOK, chosen, split, filter
<1>26. StillInv'
  BY <1>1, <1>17 DEF IInv, StillInv, filter
<1>27. GroupsInv' /\ TailInv' /\ ParseInv' /\ LookedInv' /\ FilterInv' /\ DoneInv'
  BY <1>1 DEF GroupsInv, TailInv, ParseInv, LookedInv, FilterInv, DoneInv
<1>28. QED
  BY <1>17, <1>24, <1>25, <1>26, <1>27 DEF IInv

\* The checks of a vector come once, after the merging.
LEMMA MergeEndStep ==
  ASSUME IInv, MergeEnd
  PROVE  IInv'
<1>1. /\ ChosenInv /\ TypeOK /\ pc = "merge" /\ pc' = "looked" /\ j > Nb
      /\ UNCHANGED <<chosen, j, split, merge, filter>>
      /\ hops' = IF Vector THEN [i \in 1 .. Nb |-> Rfc1812(i, hops[i])] ELSE hops
  BY DEF IInv, MergeEnd
<1>2. j - 1 = Nb /\ Nb \in Nat
  BY <1>1, PacketFacts DEF TypeOK
<1>3. /\ lookup \in {"fib", "acl"}
      /\ \A i \in 1 .. Nb : IF Vector THEN hops[i] \in OwnHops(i) ELSE Looked(i, hops[i])
      /\ lookup = "acl" => Drops(Nb)
  <2>1. /\ lookup \in {"fib", "acl"}
        /\ \A i \in 1 .. Nb :
             i < j => IF Vector THEN hops[i] \in OwnHops(i) ELSE Looked(i, hops[i])
        /\ lookup = "acl" => Drops(j - 1)
    BY <1>1 DEF IInv, MergeInv
  <2>2. \A i \in 1 .. Nb : i < j
    BY <1>1, <1>2 DEF TypeOK
  <2>3. lookup = "acl" => Drops(Nb)
    BY <1>2, <2>1
  <2>4. QED
    BY <2>1, <2>2, <2>3
<1>4. lookup = "acl" => ~Vector
  BY <1>1 DEF ChosenInv, Vector
<1>5. ASSUME NEW i \in 1 .. Nb
      PROVE  Looked(i, hops'[i])
  <2>1. CASE Vector
    <3>1. Checks /\ lookup = "fib" /\ entry # "event"
      BY <1>3, <1>4, <2>1 DEF Checks, Vector
    <3>2. hops'[i] = Rfc1812(i, hops[i]) /\ hops[i] \in OwnHops(i)
      BY <1>1, <1>3, <2>1
    <3>3. QED
      BY <1>1, <3>1, <3>2, RefusedIs DEF Looked
  <2>2. CASE ~Vector
    BY <1>1, <1>3, <2>2
  <2>3. QED
    BY <2>1, <2>2
<1>6. \A i \in 1 .. Nb : hops'[i] \in Enabled \cup {BadPort} /\ hops'[i] # NoRoute
  BY <1>1, <1>5, LookedIsHop
<1>7. hops' \in [1 .. Nb -> Enabled \cup {BadPort, NoRoute}]
  <2>1. hops' = [i \in 1 .. Nb |-> hops'[i]]
    <3>1. CASE Vector
      BY <1>1, <3>1, Zenon
    <3>2. CASE ~Vector
      BY <1>1, <3>2 DEF TypeOK
    <3>3. QED
      BY <3>1, <3>2
  <2>2. QED
    BY <1>6, <2>1
<1>8. ChosenInv' /\ Nb' = Nb /\ lookup' = lookup
  BY <1>1, Frame
<1>9. lookup = "acl" => Drops(Nb)'
  BY <1>1, <1>3, <1>4, <1>8 DEF Drops, merge
<1>10. LookedInv'
  BY <1>1, <1>5, <1>8, <1>9, Frame DEF LookedInv, Looked
<1>11. TypeOK'
  BY <1>1, <1>6, <1>7, <1>8 DEF TypeOK, chosen, split, merge, filter
<1>12. StillInv'
  BY <1>1, <1>8 DEF IInv, StillInv, filter
<1>13. GroupsInv' /\ TailInv' /\ ParseInv' /\ MergeInv' /\ FilterInv' /\ DoneInv'
  BY <1>1 DEF GroupsInv, TailInv, ParseInv, MergeInv, FilterInv, DoneInv
<1>14. QED
  BY <1>8, <1>10, <1>11, <1>12, <1>13 DEF IInv

-----------------------------------------------------------------------------
(* process_event_vector.                                                   *)

\* When the filter begins, each packet stands in its own place.
LEMMA FilterBeginStep ==
  ASSUME IInv, FilterBegin
  PROVE  IInv'
<1>1. /\ ChosenInv /\ TypeOK /\ pc = "looked" /\ pc' = "filter" /\ Vector /\ j' = 1
      /\ UNCHANGED <<chosen, hops, split, merge, filter>>
  BY DEF IInv, FilterBegin
<1>2. Nb \in Nat
  BY <1>1, PacketFacts
<1>3. /\ mbufs = [i \in 1 .. Nb |-> i] /\ pos = 0 /\ freed = <<>>
      /\ \A i \in 1 .. Nb : Looked(i, hops[i])
  BY <1>1 DEF IInv, StillInv, LookedInv
<1>4. /\ ChosenInv' /\ Nb' = Nb /\ (Vector' <=> Vector)
  BY <1>1, Frame
<1>5. Filtered(j - 1, mbufs, hops, freed, pos)'
  <2>1. j' - 1 = 0 /\ freed' = <<>> /\ pos' = 0
    BY <1>1, <1>3 DEF filter
  <2>2. Len(freed') = 0 /\ freed' \in Seq(Nat)
    BY <2>1
  <2>3. \A i : i \notin 1 .. 0
    OBVIOUS
  <2>4. (j' - 1) - Len(freed') = 0
    BY <2>1, <2>2
  <2>5. QED
    BY <2>1, <2>2, <2>3, <2>4 DEF Filtered
<1>6. \A i \in 1 .. Nb : i >= j' => mbufs'[i] = i /\ Looked(i, hops[i])'
  BY <1>1, <1>3, Frame DEF Looked, filter
<1>7. FilterInv'
  BY <1>1, <1>4, <1>5, <1>6 DEF FilterInv
<1>8. TypeOK'
  BY <1>1, <1>2, <1>4 DEF TypeOK, chosen, split, merge, filter
<1>9. GroupsInv' /\ TailInv' /\ ParseInv' /\ MergeInv' /\ LookedInv' /\ StillInv' /\ DoneInv'
  BY <1>1 DEF GroupsInv, TailInv, ParseInv, MergeInv, LookedInv, StillInv, DoneInv
<1>10. QED
  BY <1>4, <1>7, <1>8, <1>9 DEF IInv

\* A bad packet more: the good ones stay, and pos becomes or stays the place after them.
LEMMA FilterBad ==
  ASSUME NEW n \in Nat, NEW m, m = n + 1, NEW bufs, NEW h, NEW bad, NEW p,
         Filtered(n, bufs, h, bad, p), Refused(m)
  PROVE  Filtered(m, bufs, h, Append(bad, m), IF Len(bad) = 0 THEN m ELSE p)
<1> DEFINE b == Append(bad, m)
           g == n - Len(bad)
<1>1. m \in Nat /\ bad \in Seq(Nat) /\ Len(bad) \in 0 .. n /\ g \in 0 .. n
  BY DEF Filtered
<1>2. /\ \A k \in 1 .. Len(bad) : bad[k] \in 1 .. n
      /\ \A i \in 1 .. n : Refused(i) <=> \E k \in 1 .. Len(bad) : bad[k] = i
      /\ \A k \in 1 .. g : bufs[k] \in 1 .. n
      /\ \A k, q \in 1 .. g : k < q => bufs[k] < bufs[q]
      /\ \A i \in 1 .. n : ~Refused(i) <=> \E k \in 1 .. g : bufs[k] = i
      /\ \A i \in 1 .. n : \A k \in 1 .. g : bufs[k] = i => h[k] \in OwnHops(i)
      /\ p = IF Len(bad) = 0 THEN 0 ELSE g + 1
  BY DEF Filtered
<1>3. /\ b \in Seq(Nat) /\ Len(b) = Len(bad) + 1 /\ b[Len(b)] = m
      /\ \A k \in 1 .. Len(bad) : b[k] = bad[k]
  BY <1>1
<1>4. m - Len(b) = g /\ Len(b) \in 1 .. m /\ Len(b) # 0
  BY <1>1, <1>3
<1>5. /\ \A k \in 1 .. Len(b) : k = Len(b) \/ k \in 1 .. Len(bad)
      /\ \A k \in 1 .. Len(bad) : k \in 1 .. Len(b)
      /\ Len(b) \in 1 .. Len(b)
  BY <1>1, <1>3
<1> HIDE DEF b, g
<1>6. /\ \A i \in 1 .. m : i = m \/ i \in 1 .. n
      /\ \A i \in 1 .. n : i \in 1 .. m /\ i # m
      /\ m \in 1 .. m
  BY <1>1
<1>7. ASSUME NEW k \in 1 .. Len(b) PROVE b[k] \in 1 .. m
  BY <1>2, <1>3, <1>5, <1>6
<1>8. ASSUME NEW i \in 1 .. m
      PROVE  Refused(i) <=> \E k \in 1 .. Len(b) : b[k] = i
  <2>1. CASE i = m
    BY <1>3, <1>5, <2>1
  <2>2. CASE i # m
    <3>1. i \in 1 .. n
      BY <1>6, <2>2
    <3>2. (\E k \in 1 .. Len(b) : b[k] = i) <=> \E k \in 1 .. Len(bad) : bad[k] = i
      BY <1>3, <1>5, <2>2
    <3>3. QED
      BY <1>2, <3>1, <3>2
  <2>3. QED
    BY <2>1, <2>2
<1>9. \A k \in 1 .. g : bufs[k] \in 1 .. m
  BY <1>2, <1>6
<1>10. ASSUME NEW i \in 1 .. m
       PROVE  ~Refused(i) <=> \E k \in 1 .. g : bufs[k] = i
  <2>1. CASE i = m
    BY <1>2, <1>6, <2>1
  <2>2. CASE i # m
    BY <1>2, <1>6, <2>2
  <2>3. QED
    BY <2>1, <2>2
<1>11. \A i \in 1 .. m : \A k \in 1 .. g : bufs[k] = i => h[k] \in OwnHops(i)
  BY <1>2, <1>6
<1>12. (IF Len(bad) = 0 THEN m ELSE p) = g + 1
  BY <1>1, <1>2 DEF g
<1>13. Len(b) \in 0 .. m
  BY <1>4
<1>14. Filtered(m, bufs, h, b, IF Len(bad) = 0 THEN m ELSE p)
  BY <1>2, <1>3, <1>4, <1>7, <1>8, <1>9, <1>10, <1>11, <1>12, <1>13 DEF Filtered
<1>15. QED
  BY <1>14 DEF b

\* A good packet more: it comes after the good ones before it, with its hop.
LEMMA FilterGood ==
  ASSUME NEW n \in Nat, NEW m, m = n + 1, NEW bufs, NEW h, NEW bad, NEW p,
         Filtered(n, bufs, h, bad, p), ~Refused(m),
         NEW g, g = n - Len(bad), NEW bufs2, NEW h2,
         \A k \in 1 .. g : bufs2[k] = bufs[k] /\ h2[k] = h[k],
         bufs2[g + 1] = m, h2[g + 1] \in OwnHops(m)
  PROVE  Filtered(m, bufs2, h2, bad, IF Len(bad) = 0 THEN 0 ELSE p + 1)
<1>1. m \in Nat /\ bad \in Seq(Nat) /\ Len(bad) \in 0 .. n /\ g \in 0 .. n
  BY DEF Filtered
<1>2. /\ \A k \in 1 .. Len(bad) : bad[k] \in 1 .. n
      /\ \A i \in 1 .. n : Refused(i) <=> \E k \in 1 .. Len(bad) : bad[k] = i
      /\ \A k \in 1 .. g : bufs[k] \in 1 .. n
      /\ \A k, q \in 1 .. g : k < q => bufs[k] < bufs[q]
      /\ \A i \in 1 .. n : ~Refused(i) <=> \E k \in 1 .. g : bufs[k] = i
      /\ \A i \in 1 .. n : \A k \in 1 .. g : bufs[k] = i => h[k] \in OwnHops(i)
      /\ p = IF Len(bad) = 0 THEN 0 ELSE g + 1
  BY DEF Filtered
<1> DEFINE e == g + 1
<1>3. /\ m - Len(bad) = e /\ Len(bad) \in 0 .. m
      /\ (IF Len(bad) = 0 THEN 0 ELSE p + 1) = (IF Len(bad) = 0 THEN 0 ELSE e + 1)
  BY <1>1, <1>2
<1>4. bufs2[e] = m /\ h2[e] \in OwnHops(m)
  OBVIOUS
<1>5. /\ \A k \in 1 .. e : k = e \/ k \in 1 .. g
      /\ \A k \in 1 .. g : k \in 1 .. e /\ k # e /\ ~(e < k)
      /\ e \in 1 .. e /\ ~(e < e)
  BY <1>1
<1>6. /\ \A i \in 1 .. m : i = m \/ i \in 1 .. n
      /\ \A i \in 1 .. n : i \in 1 .. m /\ i # m /\ i < m
      /\ m \in 1 .. m
  BY <1>1
<1> HIDE DEF e
<1>7. \A k \in 1 .. Len(bad) : bad[k] \in 1 .. m
  BY <1>2, <1>6
<1>8. ASSUME NEW i \in 1 .. m
      PROVE  Refused(i) <=> \E k \in 1 .. Len(bad) : bad[k] = i
  BY <1>2, <1>6
<1>9. \A k \in 1 .. e : bufs2[k] \in 1 .. m
  BY <1>2, <1>4, <1>5, <1>6
<1>10. ASSUME NEW k \in 1 .. e, NEW q \in 1 .. e, k < q
       PROVE  bufs2[k] < bufs2[q]
  <2>1. k \in 1 .. g
    BY <1>5, <1>10
  <2>2. CASE q = e
    BY <1>2, <1>4, <1>6, <2>1, <2>2
  <2>3. CASE q # e
    BY <1>2, <1>5, <1>10, <2>1, <2>3
  <2>4. QED
    BY <2>2, <2>3
<1>11. ASSUME NEW i \in 1 .. m
       PROVE  ~Refused(i) <=> \E k \in 1 .. e : bufs2[k] = i
  <2>1. CASE i = m
    BY <1>4, <1>5, <2>1
  <2>2. CASE i # m
    <3>1. (\E k \in 1 .. e : bufs2[k] = i) <=> \E k \in 1 .. g : bufs[k] = i
      BY <1>4, <1>5, <2>2
    <3>2. QED
      BY <1>2, <1>6, <2>2, <3>1
  <2>3. QED
    BY <2>1, <2>2
<1>12. ASSUME NEW i \in 1 .. m, NEW k \in 1 .. e, bufs2[k] = i
       PROVE  h2[k] \in OwnHops(i)
  <2>1. CASE k = e
    BY <1>4, <1>12, <2>1
  <2>2. CASE k \in 1 .. g
    <3>1. i \in 1 .. n
      BY <1>2, <1>12, <2>2
    <3>2. QED
      BY <1>2, <1>12, <2>2, <3>1
  <2>3. QED
    BY <1>5, <2>1, <2>2
<1>13. QED
  BY <1>1, <1>3, <1>7, <1>8, <1>9, <1>10, <1>11, <1>12 DEF Filtered

\* Packet j is freed or moved behind the good ones before it.
LEMMA FilterOneStep ==
  ASSUME IInv, FilterOne
  PROVE  IInv'
<1> DEFINE n == j - 1
           g == n - Len(freed)
<1>1. /\ ChosenInv /\ TypeOK /\ pc = "filter" /\ pc' = pc
      /\ UNCHANGED <<chosen, split, merge, vec>>
  BY DEF IInv, FilterOne
<1>2. /\ j \in 1 .. Nb /\ Nb \in Nat /\ j' = j + 1 /\ j' \in 1 .. Nb + 1
      /\ n \in Nat /\ j = n + 1 /\ j' - 1 = j
  BY <1>1, PacketFacts DEF TypeOK, FilterOne
<1>3. /\ Vector /\ Filtered(n, mbufs, hops, freed, pos)
      /\ \A i \in 1 .. Nb : i >= j => mbufs[i] = i /\ Looked(i, hops[i])
  BY <1>1 DEF IInv, FilterInv
<1>4. mbufs[j] = j /\ Looked(j, hops[j]) /\ hops[j] # NoRoute
      /\ (hops[j] = BadPort <=> Refused(j))
  BY <1>1, <1>2, <1>3, LookedIsHop
<1>5. freed \in Seq(Nat) /\ Len(freed) \in 0 .. n /\ pos = IF Len(freed) = 0 THEN 0 ELSE g + 1
  BY <1>3 DEF Filtered
<1>6. g \in 0 .. n /\ (freed = <<>> <=> Len(freed) = 0)
  BY <1>2, <1>5
<1>7. /\ mbufs \in [1 .. Nb -> 1 .. Nb] /\ pos \in 0 .. Nb
      /\ hops \in [1 .. Nb -> Enabled \cup {BadPort, NoRoute}]
      /\ \A i \in 1 .. Nb : hops[i] # NoRoute
  BY <1>1 DEF TypeOK
<1> HIDE DEF n, g
\* What the step keeps or makes, in each of its cases.
<1> DEFINE Goal ==
      /\ Filtered(j, mbufs', hops', freed', pos')
      /\ mbufs' \in [1 .. Nb -> 1 .. Nb] /\ pos' \in 0 .. Nb
      /\ hops' \in [1 .. Nb -> Enabled \cup {BadPort, NoRoute}]
      /\ \A i \in 1 .. Nb : hops'[i] # NoRoute
      /\ \A i \in 1 .. Nb : i > j => mbufs'[i] = mbufs[i] /\ hops'[i] = hops[i]
<1>8. ASSUME Refused(j) PROVE Goal
  <2>1. /\ freed' = Append(freed, j) /\ mbufs' = mbufs /\ hops' = hops
        /\ pos' = IF Len(freed) = 0 THEN j ELSE pos
    BY <1>4, <1>6, <1>8 DEF FilterOne, PosAfterBad
  <2>2. Filtered(j, mbufs, hops, Append(freed, j), IF Len(freed) = 0 THEN j ELSE pos)
    BY <1>2, <1>3, <1>8, FilterBad
  <2>3. pos' \in 0 .. Nb
    BY <1>2, <1>7, <2>1
  <2>4. QED
    BY <1>7, <2>1, <2>2, <2>3
<1>9. ASSUME ~Refused(j) /\ freed = <<>> PROVE Goal
  <2>1. freed' = freed /\ mbufs' = mbufs /\ hops' = hops /\ pos' = pos /\ pos = 0
    BY <1>4, <1>5, <1>6, <1>9 DEF FilterOne
  <2>2. g + 1 = j /\ g = n - Len(freed)
    BY <1>2, <1>5, <1>6, <1>9 DEF g
  <2>3. hops[j] \in OwnHops(j)
    BY <1>4, <1>9 DEF Looked
  <2>4. Filtered(j, mbufs, hops, freed, IF Len(freed) = 0 THEN 0 ELSE pos + 1)
    BY <1>2, <1>3, <1>4, <1>9, <2>2, <2>3, FilterGood
  <2>5. (IF Len(freed) = 0 THEN 0 ELSE pos + 1) = pos'
    BY <1>6, <1>9, <2>1
  <2>6. Filtered(j, mbufs', hops', freed', pos')
    BY <2>1, <2>4, <2>5
  <2>7. QED
    BY <1>7, <2>1, <2>6
<1>10. ASSUME ~Refused(j) /\ freed # <<>> PROVE Goal
  <2>1. /\ freed' = freed /\ pos' = pos + 1
        /\ mbufs' = [mbufs EXCEPT ![pos] = j] /\ hops' = [hops EXCEPT ![pos] = hops[j]]
    BY <1>4, <1>10 DEF FilterOne
  <2>2. pos = g + 1 /\ pos \in 1 .. Nb /\ pos < j /\ g \in Nat /\ g = n - Len(freed)
    BY <1>2, <1>5, <1>6, <1>10 DEF g
  <2>3. hops[j] \in OwnHops(j)
    BY <1>4, <1>10 DEF Looked
  <2>4. /\ mbufs'[pos] = j /\ hops'[pos] = hops[j]
        /\ \A i \in 1 .. Nb : i # pos => mbufs'[i] = mbufs[i] /\ hops'[i] = hops[i]
    BY <1>7, <2>1, <2>2
  <2>5. \A k \in 1 .. g : k \in 1 .. Nb /\ k # pos
    BY <1>2, <2>2
  <2>6. \A k \in 1 .. g : mbufs'[k] = mbufs[k] /\ hops'[k] = hops[k]
    BY <2>4, <2>5
  <2>7. mbufs'[g + 1] = j /\ hops'[g + 1] \in OwnHops(j)
    BY <2>2, <2>3, <2>4
  <2>8. Filtered(j, mbufs', hops', freed, IF Len(freed) = 0 THEN 0 ELSE pos + 1)
    BY <1>2, <1>3, <1>10, <2>2, <2>6, <2>7, FilterGood
  <2>9. Filtered(j, mbufs', hops', freed', pos')
    <3>1. (IF Len(freed) = 0 THEN 0 ELSE pos + 1) = pos'
      BY <1>6, <1>10, <2>1
    <3>2. QED
      BY <2>1, <2>8, <3>1
  <2>10. mbufs' \in [1 .. Nb -> 1 .. Nb] /\ pos' \in 0 .. Nb
    <3>1. mbufs' \in [1 .. Nb -> 1 .. Nb]
      BY <1>2, <1>7, <2>1
    <3>2. pos' \in 0 .. Nb
      BY <1>2, <2>1, <2>2, SMTT(30)
    <3>3. QED
      BY <3>1, <3>2
  <2>11. /\ hops' \in [1 .. Nb -> Enabled \cup {BadPort, NoRoute}]
         /\ \A i \in 1 .. Nb : hops'[i] # NoRoute
    BY <1>2, <1>7, <2>1, <2>2
  <2>12. \A i \in 1 .. Nb : i > j => mbufs'[i] = mbufs[i] /\ hops'[i] = hops[i]
    BY <1>2, <2>2, <2>4
  <2>13. QED
    BY <2>9, <2>10, <2>11, <2>12
<1>11. Goal
  BY <1>8, <1>9, <1>10
<1>12. /\ ChosenInv' /\ Nb' = Nb /\ (Vector' <=> Vector)
  BY <1>1, Frame
<1>13. Filtered(j - 1, mbufs, hops, freed, pos)'
  <2>1. j' - 1 = j
    BY <1>2
  <2>2. /\ \A i : Refused(i)' <=> Refused(i)
        /\ \A i : OwnHops(i)' = OwnHops(i)
    BY <1>1, Frame
  <2>3. QED
    BY <1>11, <2>1, <2>2 DEF Filtered
<1>14. ASSUME NEW i \in 1 .. Nb, i >= j'
       PROVE  mbufs'[i] = i /\ Looked(i, hops'[i])
  <2>1. i > j /\ i >= j
    BY <1>2, <1>14
  <2>2. QED
    BY <1>3, <1>11, <2>1
<1>15. \A i \in 1 .. Nb : i >= j' => mbufs'[i] = i /\ Looked(i, hops[i])'
  BY <1>1, <1>14, Frame DEF Looked
<1>16. FilterInv'
  BY <1>3, <1>12, <1>13, <1>15 DEF FilterInv
<1>17. TypeOK'
  BY <1>1, <1>2, <1>11, <1>12 DEF TypeOK, chosen, split, merge
<1>18. GroupsInv' /\ TailInv' /\ ParseInv' /\ MergeInv' /\ LookedInv' /\ StillInv' /\ DoneInv'
  BY <1>1 DEF GroupsInv, TailInv, ParseInv, MergeInv, LookedInv, StillInv, DoneInv
<1>19. QED
  BY <1>12, <1>16, <1>17, <1>18 DEF IInv

\* The vector goes out with what the filter has left.
LEMMA VectorOutStep ==
  ASSUME IInv, VectorOut
  PROVE  IInv'
<1>1. /\ ChosenInv /\ TypeOK /\ pc = "filter" /\ pc' = "done" /\ j > Nb
      /\ UNCHANGED <<chosen, j, hops, split, merge, mbufs, pos, freed>>
      /\ vec' = LET n == Nb - Len(freed)
                IN  <<[nbElem |-> n, attrValid |-> OnePort(n) # BadPort, port |-> OnePort(n)]>>
  BY DEF IInv, VectorOut
<1>2. j - 1 = Nb /\ Nb \in Nat
  BY <1>1, PacketFacts DEF TypeOK
<1>3. Filtered(Nb, mbufs, hops, freed, pos)
  BY <1>1, <1>2 DEF IInv, FilterInv
<1>4. ChosenInv' /\ Nb' = Nb
  BY <1>1, Frame
<1>5. Filtered(Nb, mbufs, hops, freed, pos)'
  <2>1. /\ \A i : Refused(i)' <=> Refused(i)
        /\ \A i : OwnHops(i)' = OwnHops(i)
    BY <1>1, Frame
  <2>2. QED
    BY <1>1, <1>3, <1>4, <2>1 DEF Filtered
<1>6. DoneInv'
  BY <1>1, <1>4, <1>5 DEF DoneInv, OnePort
<1>7. TypeOK'
  BY <1>1, <1>4 DEF TypeOK, chosen, split, merge
<1>8. /\ GroupsInv' /\ TailInv' /\ ParseInv' /\ MergeInv' /\ LookedInv' /\ StillInv'
      /\ FilterInv'
  BY <1>1 DEF GroupsInv, TailInv, ParseInv, MergeInv, LookedInv, StillInv, FilterInv
<1>9. QED
  BY <1>4, <1>6, <1>7, <1>8 DEF IInv

\* A burst and single events go out unfiltered.
LEMMA BurstOutStep ==
  ASSUME IInv, BurstOut
  PROVE  IInv'
<1>1. /\ ChosenInv /\ TypeOK /\ pc = "looked" /\ pc' = "done" /\ ~Vector
      /\ UNCHANGED <<chosen, j, hops, split, merge, filter>>
  BY DEF IInv, BurstOut
<1>2. ChosenInv' /\ Nb' = Nb /\ ~Vector'
  BY <1>1, Frame
<1>3. TypeOK'
  BY <1>1, <1>2 DEF TypeOK, chosen, split, merge, filter
<1>4. /\ GroupsInv' /\ TailInv' /\ ParseInv' /\ MergeInv' /\ LookedInv' /\ StillInv'
      /\ FilterInv' /\ DoneInv'
  BY <1>1, <1>2 DEF GroupsInv, TailInv, ParseInv, MergeInv, LookedInv, StillInv, FilterInv,
     DoneInv
<1>5. QED
  BY <1>2, <1>3, <1>4 DEF IInv

\* A step that changes nothing keeps the invariant.
LEMMA StutterStep ==
  ASSUME IInv, UNCHANGED vars
  PROVE  IInv'
<1>1. /\ UNCHANGED chosen /\ UNCHANGED <<pc, j, hops, types, list4, list6, n4, n6, drops>>
      /\ UNCHANGED <<mbufs, pos, freed, vec>>
  BY DEF vars, split, merge, filter
<1>2. /\ ChosenInv /\ ChosenInv' /\ Nb' = Nb /\ lookup' = lookup /\ entry' = entry
      /\ (Vector' <=> Vector)
      /\ \A n : Grouped(n)' = Grouped(n)
  BY <1>1, Frame DEF IInv
<1>3. /\ \A i : From(i)' = From(i)
      /\ \A i : Refused(i)' <=> Refused(i)
      /\ \A i : OwnHops(i)' = OwnHops(i)
      /\ \A i : LpmGetDstPort(i)' = LpmGetDstPort(i)
      /\ \A i : TypeOf(i)' = TypeOf(i)
  BY <1>1, <1>2, Frame
<1>4. \A i : Looked(i, hops[i])' <=> Looked(i, hops[i])
  BY <1>1, <1>2, <1>3 DEF Looked
<1>5. TypeOK'
  BY <1>1, <1>2 DEF IInv, TypeOK, chosen
<1>6. GroupsInv'
  BY <1>1, <1>2, <1>3, <1>4 DEF IInv, GroupsInv
<1>7. TailInv'
  BY <1>1, <1>2, <1>4 DEF IInv, TailInv
<1>8. ParseInv'
  BY <1>1, <1>2, <1>3 DEF IInv, ParseInv, Listed, Types
<1>9. MergeInv'
  <2>1. (Drops(j - 1)' <=> Drops(j - 1)) /\ (TakenOf(list4, n4)' <=> TakenOf(list4, n4))
        /\ (TakenOf(list6, n6)' <=> TakenOf(list6, n6))
    BY <1>1 DEF Drops, TakenOf
  <2>2. /\ Types(Nb) => Types(Nb)'
        /\ Listed(list4, "v4", Nb) => Listed(list4, "v4", Nb)'
        /\ Listed(list6, "v6", Nb) => Listed(list6, "v6", Nb)'
    BY <1>1, <1>2, <1>3 DEF Listed, Types
  <2>3. QED
    BY <1>1, <1>2, <1>3, <1>4, <2>1, <2>2 DEF IInv, MergeInv
<1>10. LookedInv'
  BY <1>1, <1>2, <1>4 DEF IInv, LookedInv, Drops
<1>11. StillInv'
  BY <1>1, <1>2 DEF IInv, StillInv
<1>12. FilterInv'
  <2>1. Filtered(j - 1, mbufs, hops, freed, pos) => Filtered(j - 1, mbufs, hops, freed, pos)'
    BY <1>1, <1>3 DEF Filtered
  <2>2. QED
    BY <1>1, <1>2, <1>4, <2>1 DEF IInv, FilterInv
<1>13. DoneInv'
  <2>1. Filtered(Nb, mbufs, hops, freed, pos) => Filtered(Nb, mbufs, hops, freed, pos)'
    BY <1>1, <1>2, <1>3 DEF Filtered
  <2>2. QED
    BY <1>1, <1>2, <2>1 DEF IInv, DoneInv, OnePort
<1>14. QED
  BY <1>2, <1>5, <1>6, <1>7, <1>8, <1>9, <1>10, <1>11, <1>12, <1>13 DEF IInv

-----------------------------------------------------------------------------
(* The theorems.                                                           *)

\* Before the first step nothing is looked up.
LEMMA InitInv ==
  ASSUME Init
  PROVE  IInv
<1>1. PICK n \in 1 .. MaxBurst : pkts \in [1 .. n -> Kind]
  BY DEF Init
<1>2. n \in Nat /\ MaxBurst \in Nat
  BY Bounds
<1>3. pkts \in Seq(Kind) /\ Nb = n
  BY <1>1, <1>2 DEF Nb
<1>4. /\ lookup \in {"lpm", "em", "fib", "acl"}
      /\ entry \in {"burst", "event", "vector", "mixed"}
      /\ lookup = "acl" => entry = "burst"
      /\ portid \in Ingress /\ j = 1
      /\ pc = IF lookup \in {"fib", "acl"} THEN "parse" ELSE "groups"
  BY DEF Init
<1>5. ChosenInv
  BY <1>1, <1>3, <1>4 DEF ChosenInv
<1>6. /\ hops = [i \in 1 .. Nb |-> NoRoute] /\ mbufs = [i \in 1 .. Nb |-> i]
      /\ types = <<>> /\ list4 = <<>> /\ list6 = <<>> /\ freed = <<>>
      /\ n4 = 0 /\ n6 = 0 /\ drops = 0 /\ pos = 0
  BY DEF Init, Nb
<1>7. Nb \in Nat \ {0} /\ portid \in Enabled /\ pc \in {"parse", "groups"}
  BY <1>4, <1>5, PacketFacts
<1>8. TypeOK
  <2>1. hops \in [1 .. Nb -> Enabled \cup {BadPort, NoRoute}] /\ mbufs \in [1 .. Nb -> 1 .. Nb]
    BY <1>6
  <2>2. n4 \in 0 .. Len(list4) /\ n6 \in 0 .. Len(list6)
    BY <1>6
  <2>3. j \in 1 .. Nb + 1 /\ pos \in 0 .. Nb
    BY <1>4, <1>6, <1>7
  <2>4. QED
    BY <1>1, <1>3, <1>7, <2>1, <2>2, <2>3 DEF TypeOK
<1>9. GroupsInv
  <2>1. \A i \in 1 .. Nb : ~(i < j)
    BY <1>4, <1>7
  <2>2. /\ j = 1 + FwdStep * 0 /\ j <= Grouped(FwdStep) + 1
        /\ j = 1 + EmCount * 0 /\ j <= Grouped(EmCount) + 1
    <3>1. FwdStep \in Nat \ {0} /\ EmCount \in Nat \ {0}
      BY Bounds
    <3>2. Grouped(FwdStep) \in 0 .. Nb /\ Grouped(EmCount) \in 0 .. Nb
      BY <1>5, <3>1, InGroups
    <3>3. QED
      BY <1>4, <1>7, <3>1, <3>2
  <2>3. QED
    BY <1>4, <2>1, <2>2 DEF GroupsInv
<1>10. ParseInv
  <2>1. j - 1 = 0 /\ \A i : i \notin 1 .. 0
    BY <1>4
  <2>2. Types(j - 1) /\ Listed(list4, "v4", j - 1) /\ Listed(list6, "v6", j - 1)
    BY <1>6, <2>1 DEF Types, Listed
  <2>3. QED
    BY <1>4, <1>6, <2>2 DEF ParseInv
<1>11. StillInv
  BY <1>6 DEF StillInv
<1>12. TailInv /\ MergeInv /\ LookedInv /\ FilterInv /\ DoneInv
  BY <1>7 DEF TailInv, MergeInv, LookedInv, FilterInv, DoneInv
<1>13. QED
  BY <1>5, <1>8, <1>9, <1>10, <1>11, <1>12 DEF IInv

\* The loops of each lookup, the filter and what is left when they end keep IInv.
THEOREM Inductive == Spec => []IInv
<1>1. Init => IInv
  BY InitInv
<1>2. IInv /\ [Next]_vars => IInv'
  <2>1. SUFFICES ASSUME IInv, [Next]_vars PROVE IInv'
    OBVIOUS
  <2>2. CASE LpmFour
    BY <2>1, <2>2, LpmFourStep
  <2>3. CASE LpmStep3
    BY <2>1, <2>3, LpmStep3Step
  <2>4. CASE LpmOne
    BY <2>1, <2>4, LpmOneStep
  <2>5. CASE EmGroup
    BY <2>1, <2>5, EmGroupStep
  <2>6. CASE EmGroupsEnd
    BY <2>1, <2>6, EmGroupsEndStep
  <2>7. CASE EmOne
    BY <2>1, <2>7, EmOneStep
  <2>8. CASE EmEvent
    BY <2>1, <2>8, EmEventStep
  <2>9. CASE TailEnd
    BY <2>1, <2>9, TailEndStep
  <2>10. CASE ParseOne
    BY <2>1, <2>10, ParseOneStep
  <2>11. CASE ParseEnd
    BY <2>1, <2>11, ParseEndStep
  <2>12. CASE MergeOne
    BY <2>1, <2>12, MergeOneStep
  <2>13. CASE MergeEnd
    BY <2>1, <2>13, MergeEndStep
  <2>14. CASE FilterBegin
    BY <2>1, <2>14, FilterBeginStep
  <2>15. CASE FilterOne
    BY <2>1, <2>15, FilterOneStep
  <2>16. CASE VectorOut
    BY <2>1, <2>16, VectorOutStep
  <2>17. CASE BurstOut
    BY <2>1, <2>17, BurstOutStep
  <2>18. CASE UNCHANGED vars
    BY <2>1, <2>18, StutterStep
  <2>19. QED
    BY <2>1, <2>2, <2>3, <2>4, <2>5, <2>6, <2>7, <2>8, <2>9, <2>10, <2>11, <2>12, <2>13,
       <2>14, <2>15, <2>16, <2>17, <2>18 DEF Next, Terminated
<1>3. QED
  BY <1>1, <1>2, PTL DEF Spec

\* Indices and places stay inside the arrays of the burst, no packet is left without a hop
\* once it is looked up, and no more results are taken of a bulk lookup than it has.
THEOREM TypesHold == Spec => []TypeOK
<1>1. IInv => TypeOK
  BY DEF IInv
<1>2. QED
  BY <1>1, Inductive, PTL

\* Whatever mix of packets a burst is and however it falls into groups, each gets the hop
\* that its own address has in its own table, or where it came from, or BAD_PORT if the
\* checks of event mode find it invalid, which LPM and the vectors of FIB always do; and
\* ACL's drops count.
THEOREM HopsAreTheirs == Spec => []OwnHop
<1>1. ASSUME IInv PROVE OwnHop
  <2>1. SUFFICES ASSUME pc = "looked"
                 PROVE  /\ \A i \in 1 .. Nb :
                             \/ hops[i] \in OwnHops(i)
                             \/ Checks /\ Invalid(i) /\ hops[i] \in {BadPort, From(i)}
                        /\ (lookup = "lpm" /\ Checks) \/ (lookup = "fib" /\ Vector) =>
                             \A i \in 1 .. Nb : Invalid(i) => hops[i] = BadPort
                        /\ lookup = "acl" => Drops(Nb)
    BY DEF OwnHop, Drops
  <2>2. /\ \A i \in 1 .. Nb : Looked(i, hops[i])
        /\ lookup = "acl" => Drops(Nb)
    BY <1>1, <2>1 DEF IInv, LookedInv
  <2>3. ASSUME NEW i \in 1 .. Nb
        PROVE  \/ hops[i] \in OwnHops(i)
               \/ Checks /\ Invalid(i) /\ hops[i] \in {BadPort, From(i)}
    BY <2>2 DEF Looked, Refused
  <2>4. ASSUME (lookup = "lpm" /\ Checks) \/ (lookup = "fib" /\ Vector),
               NEW i \in 1 .. Nb, Invalid(i)
        PROVE  hops[i] = BadPort
    <3>1. Checks /\ lookup # "em" /\ ~(lookup = "fib" /\ entry = "event")
      BY <2>4 DEF Checks, Vector
    <3>2. Refused(i)
      BY <2>4, <3>1 DEF Refused
    <3>3. QED
      BY <2>2, <3>1, <3>2 DEF Looked
  <2>5. QED
    BY <2>2, <2>3, <2>4
<1>2. QED
  BY <1>1, Inductive, PTL

\* A set that is listed in increasing order has as many elements as the list.
LEMMA CountListed ==
  ASSUME NEW n \in Nat, NEW S, S \subseteq Nat, NEW f \in [1 .. n -> S],
         \A k, q \in 1 .. n : k < q => f[k] < f[q],
         \A x \in S : \E k \in 1 .. n : f[k] = x
  PROVE  Cardinality(S) = n
<1>1. ASSUME NEW k \in 1 .. n, NEW q \in 1 .. n, f[k] = f[q]
      PROVE  k = q
  <2>1. f[k] \in Nat /\ f[q] \in Nat
    OBVIOUS
  <2>2. ~(k < q) /\ ~(q < k)
    BY <1>1, <2>1
  <2>3. QED
    BY <2>2
<1>2. f \in Injection(1 .. n, S)
  BY <1>1 DEF Injection, IsInjective
<1>3. f \in Surjection(1 .. n, S)
  BY DEF Surjection
<1>4. ExistsBijection(1 .. n, S)
  BY <1>2, <1>3 DEF ExistsBijection, Bijection
<1>5. QED
  BY <1>4, FS_CountingElements

\* Of an event vector every packet either goes out or is freed, once, and no good one is
\* freed; what goes out stays in order, each packet with its own hop, and process_dst_port's
\* port is the vector's only if it is that of all.  LPM and FIB send no invalid packet on.
THEOREM GoodOnesStay == Spec => []VectorKeepsGood
<1>1. ASSUME IInv PROVE VectorKeepsGood
  <2> DEFINE n == Nb - Len(freed)
             v == vec[1]
             Out == {mbufs[k] : k \in 1 .. v.nbElem}
             Gone == {freed[k] : k \in DOMAIN freed}
             Kept == {i \in 1 .. Nb : ~Refused(i)}
  <2>1. SUFFICES ASSUME pc = "done", Vector
                 PROVE  /\ Out \cup Gone = 1 .. Nb /\ Out \cap Gone = {}
                        /\ v.nbElem = Cardinality(Out)
                        /\ \A i \in Gone : Invalid(i)
                        /\ lookup # "em" => \A i \in Out : ~Invalid(i)
                        /\ \A k \in 1 .. v.nbElem - 1 : mbufs[k] < mbufs[k + 1]
                        /\ \A k \in 1 .. v.nbElem :
                             (IF v.attrValid THEN v.port ELSE hops[k]) \in OwnHops(mbufs[k])
    BY DEF VectorKeepsGood
  <2>2. /\ ChosenInv /\ Filtered(Nb, mbufs, hops, freed, pos)
        /\ vec = <<[nbElem |-> n, attrValid |-> OnePort(n) # BadPort, port |-> OnePort(n)]>>
    BY <1>1, <2>1 DEF IInv, DoneInv
  <2>3. v.nbElem = n /\ v.attrValid = (OnePort(n) # BadPort) /\ v.port = OnePort(n)
    BY <2>2
  <2>4. Nb \in Nat /\ freed \in Seq(Nat) /\ Len(freed) \in 0 .. Nb /\ n \in 0 .. Nb
    BY <2>2, PacketFacts DEF Filtered
  <2>5. /\ \A k \in 1 .. Len(freed) : freed[k] \in 1 .. Nb
        /\ \A i \in 1 .. Nb : Refused(i) <=> \E k \in 1 .. Len(freed) : freed[k] = i
        /\ \A k \in 1 .. n : mbufs[k] \in 1 .. Nb
        /\ \A k, q \in 1 .. n : k < q => mbufs[k] < mbufs[q]
        /\ \A i \in 1 .. Nb : ~Refused(i) <=> \E k \in 1 .. n : mbufs[k] = i
        /\ \A i \in 1 .. Nb : \A k \in 1 .. n : mbufs[k] = i => hops[k] \in OwnHops(i)
    BY <2>2 DEF Filtered
  <2> HIDE DEF n, v
  <2>6. /\ \A k \in 1 .. n : mbufs[k] \in Kept
        /\ \A i \in Kept : \E k \in 1 .. n : mbufs[k] = i
    BY <2>5
  <2>7. Cardinality(Kept) = n
    <3> DEFINE f == [k \in 1 .. n |-> mbufs[k]]
    <3>1. n \in Nat /\ Kept \subseteq Nat
      BY <2>4
    <3>2. f \in [1 .. n -> Kept] /\ \A k \in 1 .. n : f[k] = mbufs[k]
      BY <2>6
    <3> HIDE DEF f
    <3>3. /\ \A k, q \in 1 .. n : k < q => f[k] < f[q]
          /\ \A x \in Kept : \E k \in 1 .. n : f[k] = x
      BY <2>5, <2>6, <3>2
    <3>4. QED
      BY <3>1, <3>2, <3>3, CountListed
  <2>8. {mbufs[k] : k \in 1 .. n} = Kept
    BY <2>6
  <2>9. \A k \in 1 .. n - 1 : mbufs[k] < mbufs[k + 1]
    <3>1. \A k \in 1 .. n - 1 : k \in 1 .. n /\ k + 1 \in 1 .. n /\ k < k + 1
      BY <2>4
    <3>2. QED
      BY <2>5, <3>1
  <2>10. {freed[k] : k \in DOMAIN freed} = {i \in 1 .. Nb : Refused(i)}
    <3>1. DOMAIN freed = 1 .. Len(freed)
      BY <2>4
    <3>2. QED
      BY <2>5, <3>1
  <2>11. ASSUME NEW k \in 1 .. n
         PROVE  (IF v.attrValid THEN v.port ELSE hops[k]) \in OwnHops(mbufs[k])
    <3>1. hops[k] \in OwnHops(mbufs[k])
      BY <2>5
    <3>2. ASSUME OnePort(n) # BadPort
          PROVE  hops[k] = OnePort(n)
      <4>1. \A i \in 2 .. n : hops[i] = hops[1]
        BY <3>2 DEF OnePort
      <4>2. OnePort(n) = hops[1]
        BY <4>1 DEF OnePort
      <4>3. k = 1 \/ k \in 2 .. n
        BY <2>4
      <4>4. QED
        BY <4>1, <4>2, <4>3
    <3>3. QED
      BY <2>3, <3>1, <3>2
  <2>12. Out = Kept /\ Gone = {i \in 1 .. Nb : Refused(i)}
    BY <2>3, <2>8, <2>10
  <2>13. Out \cup Gone = 1 .. Nb /\ Out \cap Gone = {}
    BY <2>12
  <2>14. v.nbElem = Cardinality(Out)
    BY <2>3, <2>7, <2>12
  <2>15. \A i \in Gone : Invalid(i)
    BY <2>12 DEF Refused
  <2>16. lookup # "em" => \A i \in Out : ~Invalid(i)
    BY <2>1, <2>12 DEF Refused, Checks, Vector
  <2>17. QED
    BY <2>3, <2>9, <2>11, <2>13, <2>14, <2>15, <2>16
<1>2. QED
  BY <1>1, Inductive, PTL

=============================================================================
