--------------------------- MODULE L3fwdTxProofs ---------------------------
(***************************************************************************)
(* Proofs about L3fwdTx for every number of ports and queues and every     *)
(* burst size: with send_packets_multi alone, with send_single_packet      *)
(* alone, and with acl_send_packets, which mixes the two, if rx_burst_size *)
(* is MAX_PKT_BURST, m_table is never overrun, lcore_stats balances at     *)
(* every step, and the packets for a port leave it in order.  With another *)
(* rx_burst_size acl_send_packets overruns m_table.                        *)
(***************************************************************************)
EXTENDS L3fwdTx, FiniteSetTheorems, SequenceTheorems, TLAPS

\* The packet the lcore sends next, or receives next: those below it have been sent,
\* freed or put into a table.
Front == nextPkt - Len(burst)

BurstInv ==
  /\ Len(burst) <= rxBurstSize
  /\ Front > 0
  /\ \A k \in 1 .. Len(burst) : burst[k].pkt = Front + k - 1
  /\ burst # <<>> => pc = "send" /\ (IF single THEN sendPath # "multi" ELSE sendPath # "single")
  /\ pc # "send" => acc = NoStats

\* The last packet port p's NIC took and those that wait for it, in order.
TableInv(p) ==
  /\ lastOut[p] < Front
  /\ \A a \in 1 .. Len(mTable[p]) : lastOut[p] < mTable[p][a] /\ mTable[p][a] < Front
  /\ \A a, b \in 1 .. Len(mTable[p]) : a < b => mTable[p][a] < mTable[p][b]
  \* send_single_packet would only flush at exactly rx_burst_size
  /\ sendPath = "single" => Len(mTable[p]) < rxBurstSize

TablesApart ==
  \A p, q \in Port : \A a \in 1 .. Len(mTable[p]), b \in 1 .. Len(mTable[q]) :
    mTable[p][a] = mTable[q][b] => p = q

SendInv == TypeOK /\ BurstInv /\ (\A p \in Port : TableInv(p)) /\ TablesApart /\ StatsExact

\* The calls into one table agree on the length at which it is flushed: there is only one
\* sender, or rx_burst_size is MAX_PKT_BURST.
OneFullMark == sendPath # "acl" \/ rxBurstSize = MaxPktBurst

IInv == OneFullMark => SendInv

-----------------------------------------------------------------------------
LEMMA PortFinite == IsFiniteSet(Port)
<1> DEFINE f == [k \in 1 .. Len(PortSeq) |-> PortSeq[k]]
<1>1. IsFiniteSet(1 .. Len(PortSeq))
  BY L3fwdTxAssumption, FS_Interval
<1>2. f \in Surjection(1 .. Len(PortSeq), Port)
  BY DEF Port, Surjection
<1>3. QED
  BY <1>1, <1>2, FS_Surjection

\* The places of one table.
LEMMA OnePlaceEach ==
  ASSUME NEW p, NEW n \in Nat
  PROVE  IsFiniteSet({p} \X (1 .. n)) /\ Cardinality({p} \X (1 .. n)) = n
<1>1. IsFiniteSet(1 .. n) /\ Cardinality(1 .. n) = n
  BY FS_Interval
<1>2. IsFiniteSet({p}) /\ Cardinality({p}) = 1
  BY FS_Singleton
<1>3. QED
  BY <1>1, <1>2, FS_Product

LEMMA WaitingNat ==
  ASSUME TypeOK
  PROVE  IsFiniteSet(Occupied) /\ Waiting \in Nat
<1>1. IsFiniteSet(Port \X (1 .. MaxPktBurst))
  <2>1. IsFiniteSet(1 .. MaxPktBurst)
    BY L3fwdTxAssumption, FS_Interval
  <2>2. QED
    BY <2>1, PortFinite, FS_Product
<1>2. Occupied \subseteq Port \X (1 .. MaxPktBurst)
  <2>1. ASSUME NEW q \in Port, NEW k \in DOMAIN mTable[q] PROVE k \in 1 .. MaxPktBurst
    BY L3fwdTxAssumption DEF TypeOK
  <2>2. QED
    BY <2>1 DEF Occupied
<1>3. IsFiniteSet(Occupied)
  BY <1>1, <1>2, FS_Subset
<1>4. QED
  BY <1>3, FS_CardinalityType DEF Waiting

LEMMA ApartUnion ==
  ASSUME NEW S, NEW T, IsFiniteSet(S), IsFiniteSet(T), S \cap T = {}
  PROVE  Cardinality(S \cup T) = Cardinality(S) + Cardinality(T)
<1>1. Cardinality(S \cup T) = Cardinality(S) + Cardinality(T) - Cardinality(S \cap T)
  BY FS_Union
<1>2. Cardinality(S) \in Nat /\ Cardinality(T) \in Nat /\ Cardinality(S \cap T) = 0
  BY FS_CardinalityType, FS_EmptySet
<1>3. QED
  BY <1>1, <1>2

\* The packets that wait when the table of one port changes.
LEMMA WaitingChange ==
  ASSUME TypeOK, NEW p \in Port, NEW t \in Seq(Packet), Len(t) < MaxPktBurst,
         mTable' = [mTable EXCEPT ![p] = t]
  PROVE  Waiting \in Nat /\ Waiting' = Waiting - Len(mTable[p]) + Len(t) /\ Waiting' \in Nat
<1> DEFINE Others == UNION {{q} \X DOMAIN mTable[q] : q \in Port \ {p}}
           Old == {p} \X (1 .. Len(mTable[p]))
           New == {p} \X (1 .. Len(t))
<1>1. /\ mTable \in [Port -> Seq(Packet)] /\ MaxPktBurst \in Nat
      /\ \A q \in Port : Len(mTable[q]) \in Nat /\ Len(mTable[q]) < MaxPktBurst
  BY L3fwdTxAssumption DEF TypeOK
<1>2. DOMAIN mTable[p] = 1 .. Len(mTable[p]) /\ DOMAIN t = 1 .. Len(t) /\ Len(t) \in Nat
  BY <1>1
<1>3. mTable'[p] = t /\ \A q \in Port \ {p} : mTable'[q] = mTable[q]
  BY <1>1
<1>4. Occupied = Others \cup Old /\ Occupied' = Others \cup New
  BY <1>2, <1>3 DEF Occupied
<1>5. IsFiniteSet(Others)
  <2>1. Others \subseteq Occupied
    BY <1>4
  <2>2. QED
    BY <2>1, WaitingNat, FS_Subset
<1>6. Others \cap Old = {} /\ Others \cap New = {}
  OBVIOUS
<1>7. /\ IsFiniteSet(Old) /\ Cardinality(Old) = Len(mTable[p])
      /\ IsFiniteSet(New) /\ Cardinality(New) = Len(t)
  BY <1>1, <1>2, OnePlaceEach
<1>8. Cardinality(Others) \in Nat /\ Cardinality({}) = 0
  BY <1>5, FS_CardinalityType, FS_EmptySet
<1> HIDE DEF Others, Old, New
<1>9. Cardinality(Others \cup Old) = Cardinality(Others) + Len(mTable[p])
  BY <1>1, <1>5, <1>6, <1>7, <1>8, ApartUnion
<1>10. Cardinality(Others \cup New) = Cardinality(Others) + Len(t)
  BY <1>2, <1>5, <1>6, <1>7, <1>8, ApartUnion
<1>11. QED
  BY <1>1, <1>2, <1>4, <1>8, <1>9, <1>10 DEF Waiting

-----------------------------------------------------------------------------
\* A step that sends and receives nothing.
LEMMA QuietInv ==
  ASSUME SendInv,
         UNCHANGED <<options, burst, single, mTable, lastOut, nextPkt, acc, stats>>,
         pc' = pc \/ (pc # "send" /\ pc' \in {"top", "drain", "rx", "done"}),
         i' \in Nat \ {0}, due' \in BOOLEAN, forceQuit' \in BOOLEAN
  PROVE  SendInv'
<1> USE DEF SendInv, options
<1>1. TypeOK'
  BY DEF TypeOK, NoHop
<1>2. Front' = Front /\ Waiting' = Waiting
  BY DEF Front, Waiting, Occupied
<1>3. BurstInv'
  BY <1>2 DEF BurstInv
<1>4. \A p \in Port : TableInv(p)'
  BY <1>2 DEF TableInv
<1>5. TablesApart' /\ StatsExact'
  BY <1>2 DEF TablesApart, StatsExact
<1>6. QED
  BY <1>1, <1>3, <1>4, <1>5

\* Port p's table becomes t, and x is now the last packet its NIC took.
LEMMA TableChange ==
  ASSUME SendInv, NEW p \in Port, NEW t \in Seq(Packet), NEW x \in Int,
         mTable' = [mTable EXCEPT ![p] = t], lastOut' = [lastOut EXCEPT ![p] = x],
         Front' \in Int, Front <= Front', x < Front', sendPath' = sendPath, rxBurstSize' = rxBurstSize,
         \A a \in 1 .. Len(t) : x < t[a] /\ t[a] < Front',
         \A a, b \in 1 .. Len(t) : a < b => t[a] < t[b],
         \A a \in 1 .. Len(t) : t[a] >= Front \/ \E b \in 1 .. Len(mTable[p]) : t[a] = mTable[p][b],
         sendPath = "single" => Len(t) < rxBurstSize
  PROVE  (\A q \in Port : TableInv(q)') /\ TablesApart'
<1> USE DEF SendInv
<1>1. /\ mTable \in [Port -> Seq(Packet)] /\ lastOut \in [Port -> 0 .. MaxRx]
      /\ Front \in Int /\ Packet \subseteq Int /\ MaxRx \in Nat
  BY L3fwdTxAssumption, SMTT(30) DEF TypeOK, Front, Packet
<1>11. \A q \in Port : \A a \in 1 .. Len(mTable[q]) : mTable[q][a] \in Int
  <2>1. ASSUME NEW q \in Port, NEW a \in 1 .. Len(mTable[q]) PROVE mTable[q][a] \in Packet
    BY <1>1, ElementOfSeq
  <2>2. QED
    BY <2>1, <1>1
<1>12. \A a \in 1 .. Len(t) : t[a] \in Int
  <2>1. ASSUME NEW a \in 1 .. Len(t) PROVE t[a] \in Packet
    BY ElementOfSeq
  <2>2. QED
    BY <2>1, <1>1
<1>2. /\ mTable'[p] = t /\ lastOut'[p] = x
      /\ \A q \in Port \ {p} : mTable'[q] = mTable[q] /\ lastOut'[q] = lastOut[q]
  BY <1>1
<1>3. ASSUME NEW q \in Port PROVE TableInv(q)'
  <2>0. TableInv(q)
    OBVIOUS
  <2>1. CASE q = p
    BY <2>1, <1>2 DEF TableInv
  <2>2. CASE q # p
    <3>1. mTable'[q] = mTable[q] /\ lastOut'[q] = lastOut[q]
      BY <2>2, <1>2
    <3>2. \A a \in 1 .. Len(mTable[q]) : mTable[q][a] \in Int
      BY <1>11
    <3>3. lastOut[q] \in Int
      BY <1>1
    <3>4. QED
      BY <2>0, <3>1, <3>2, <3>3, <1>1 DEF TableInv
  <2>3. QED
    BY <2>1, <2>2
<1>4. \A q \in Port : \A b \in 1 .. Len(mTable[q]) : mTable[q][b] \in Int /\ mTable[q][b] < Front
  BY <1>11 DEF TableInv
<1>5. ASSUME NEW q \in Port \ {p}, NEW a \in 1 .. Len(t), NEW b \in 1 .. Len(mTable[q])
      PROVE  t[a] # mTable[q][b]
  <2>1. t[a] \in Int
    BY <1>12
  <2>2. QED
    BY <2>1, <1>1, <1>4, <1>5, SMTT(30) DEF TablesApart
<1>6. TablesApart'
  BY <1>2, <1>5 DEF TablesApart
<1>7. QED
  BY <1>3, <1>6

LEMMA TookIs ==
  ASSUME TypeOK, NEW p \in Port, NEW pkts, NEW n, Took(p, pkts, n)
  PROVE  lastOut' = [lastOut EXCEPT ![p] = IF n = 0 THEN lastOut[p] ELSE pkts[n]]
<1>1. lastOut \in [Port -> 0 .. MaxRx]
  BY DEF TypeOK
<1>2. CASE n = 0
  <2>1. [lastOut EXCEPT ![p] = lastOut[p]] = lastOut
    BY <1>1
  <2>2. QED
    BY <2>1, <1>2 DEF Took
<1>3. CASE n # 0
  BY <1>3 DEF Took
<1>4. QED
  BY <1>2, <1>3

\* What the invariant says of the numbers.
LEMMA Numbers ==
  ASSUME SendInv
  PROVE  /\ burst \in Seq([pkt : Packet, hop : Port \cup NoHop]) /\ Len(burst) \in Nat
         /\ nextPkt \in Nat /\ nextPkt <= MaxRx + 1 /\ MaxRx \in Nat
         /\ Front \in Nat \ {0} /\ nextPkt = Front + Len(burst)
         /\ MaxPktBurst \in Nat /\ rxBurstSize \in Nat /\ rxBurstSize > 0
         /\ rxBurstSize <= MaxPktBurst /\ Len(burst) <= rxBurstSize
         /\ acc.sent \in Nat /\ acc.dropped \in Nat
         /\ stats.rx \in Nat /\ stats.tx \in Nat /\ stats.dropped \in Nat
         /\ lastOut \in [Port -> 0 .. MaxRx] /\ Packet \subseteq Nat
         /\ Waiting \in Nat
<1> USE L3fwdTxAssumption DEF SendInv
<1>1. /\ burst \in Seq([pkt : Packet, hop : Port \cup NoHop]) /\ Len(burst) \in Nat
      /\ nextPkt \in Nat /\ nextPkt <= MaxRx + 1 /\ MaxRx \in Nat
      /\ MaxPktBurst \in Nat /\ rxBurstSize \in Nat /\ rxBurstSize > 0
      /\ rxBurstSize <= MaxPktBurst /\ lastOut \in [Port -> 0 .. MaxRx]
  BY DEF TypeOK
<1>2. /\ acc.sent \in Nat /\ acc.dropped \in Nat
      /\ stats.rx \in Nat /\ stats.tx \in Nat /\ stats.dropped \in Nat
  BY DEF TypeOK
<1>3. Front \in Nat \ {0} /\ nextPkt = Front + Len(burst) /\ Len(burst) <= rxBurstSize
  BY <1>1 DEF BurstInv, Front
<1>4. QED
  BY <1>1, <1>2, <1>3, WaitingNat DEF Packet

LEMMA TableOf ==
  ASSUME SendInv, NEW p \in Port
  PROVE  /\ mTable[p] \in Seq(Packet) /\ Len(mTable[p]) \in Nat
         /\ Len(mTable[p]) < MaxPktBurst
         /\ \A a \in 1 .. Len(mTable[p]) :
              mTable[p][a] \in Packet /\ mTable[p][a] \in Nat
              /\ lastOut[p] < mTable[p][a] /\ mTable[p][a] < Front
         /\ \A a, b \in 1 .. Len(mTable[p]) : a < b => mTable[p][a] < mTable[p][b]
         /\ lastOut[p] \in 0 .. MaxRx /\ lastOut[p] < Front
<1>1. mTable[p] \in Seq(Packet) /\ Len(mTable[p]) < MaxPktBurst /\ lastOut[p] \in 0 .. MaxRx
  BY DEF SendInv, TypeOK
<1>2. \A a \in 1 .. Len(mTable[p]) : mTable[p][a] \in Packet /\ mTable[p][a] \in Nat
  BY <1>1, ElementOfSeq, Numbers
<1>3. QED
  BY <1>1, <1>2 DEF SendInv, TableInv

\* The drain empties one table after another.
LEMMA DrainPortInv ==
  ASSUME SendInv, DrainPort
  PROVE  SendInv'
<1> DEFINE p == PortSeq[i]
           x(n) == IF n = 0 THEN lastOut[p] ELSE mTable[p][n]
<1>1. p \in Port
  BY SMTT(30) DEF DrainPort, NbDrained, Port, SendInv, TypeOK
<1>2. PICK n \in 0 .. Len(mTable[p]) :
        /\ Took(p, mTable[p], n)
        /\ mTable' = [mTable EXCEPT ![p] = <<>>]
        /\ stats' = [stats EXCEPT !.tx = @ + n, !.dropped = @ + Len(mTable[p]) - n]
  BY DEF DrainPort
<1>3. /\ pc = "drain" /\ pc' = pc /\ i' = i + 1
      /\ UNCHANGED <<sendPath, rxBurstSize, txBurstSize, forceQuit, due, burst, single, nextPkt, acc>>
  BY DEF DrainPort, options
<1>4. Front' = Front /\ Front \in Nat \ {0}
  BY <1>3, Numbers DEF Front
<1>0. /\ acc.sent \in Nat /\ acc.dropped \in Nat
      /\ stats.rx \in Nat /\ stats.tx \in Nat /\ stats.dropped \in Nat
      /\ Waiting \in Nat /\ Len(burst) \in Nat
  BY Numbers
<1>51. Len(mTable[p]) \in Nat /\ n \in Nat /\ n <= Len(mTable[p])
  BY <1>1, <1>2, TableOf
<1>5. /\ Len(mTable[p]) \in Nat /\ n \in Nat /\ n <= Len(mTable[p])
      /\ x(n) \in 0 .. MaxRx /\ x(n) < Front
  <2>1. Len(mTable[p]) \in Nat /\ n \in Nat /\ n <= Len(mTable[p])
    BY <1>1, <1>2, TableOf
  <2>2. CASE n = 0
    BY <2>1, <2>2, <1>1, TableOf
  <2>3. CASE n # 0
    <3>1. n \in 1 .. Len(mTable[p])
      BY <2>1, <2>3
    <3>2. mTable[p][n] \in Packet /\ mTable[p][n] < Front
      BY <3>1, <1>1, TableOf
    <3>3. x(n) = mTable[p][n]
      BY <2>3
    <3>4. Packet \subseteq 0 .. MaxRx
      BY L3fwdTxAssumption DEF Packet
    <3>5. QED
      BY <2>1, <3>2, <3>3, <3>4
  <2>4. QED
    BY <2>2, <2>3
<1>6. lastOut' = [lastOut EXCEPT ![p] = x(n)]
  BY <1>1, <1>2, TookIs DEF SendInv
<1>7. <<>> \in Seq(Packet) /\ Len(<<>>) = 0 /\ 0 < MaxPktBurst /\ 0 < rxBurstSize
  BY L3fwdTxAssumption, Numbers
<1> HIDE DEF p, x
<1>8. (\A q \in Port : TableInv(q)') /\ TablesApart'
  <2>1. x(n) \in Int /\ Front' \in Int /\ Front <= Front' /\ x(n) < Front'
    BY <1>4, <1>5
  <2>2. \A a \in 1 .. Len(<<>>) : FALSE
    BY <1>7
  <2>3. QED
    BY <2>1, <2>2, <1>1, <1>2, <1>3, <1>6, <1>7, TableChange
<1>9. Waiting' = Waiting - Len(mTable[p])
  <2>1. Waiting' = Waiting - Len(mTable[p]) + Len(<<>>)
    BY <1>1, <1>2, <1>7, WaitingChange DEF SendInv
  <2>2. QED
    BY <2>1, <1>5, <1>7, Numbers, SMTT(30)
<1>10. /\ stats'.rx = stats.rx /\ stats'.tx = stats.tx + n
       /\ stats'.dropped = stats.dropped + Len(mTable[p]) - n
       /\ stats' \in [rx : Nat, tx : Nat, dropped : Nat]
  <2>1. stats \in [rx : Nat, tx : Nat, dropped : Nat]
    BY DEF SendInv, TypeOK
  <2>2. stats.dropped + Len(mTable[p]) - n \in Nat /\ stats.tx + n \in Nat
    BY <1>0, <1>51, SMTT(30)
  <2>3. QED
    BY <2>1, <2>2, <1>2
<1>11. StatsExact'
  <2>1. acc' = acc /\ burst' = burst
    BY <1>3
  <2>2. stats.rx = stats.tx + acc.sent + stats.dropped + acc.dropped + Waiting + Len(burst)
    BY DEF SendInv, StatsExact
  <2>20. /\ stats'.rx = stats.rx /\ stats'.tx = stats.tx + n
         /\ stats'.dropped = stats.dropped + Len(mTable[p]) - n
    BY <1>10
  <2>21. stats.rx = (stats.tx + n) + acc.sent + (stats.dropped + Len(mTable[p]) - n) + acc.dropped
                    + (Waiting - Len(mTable[p])) + Len(burst)
    <3> DEFINE r == stats.rx  t == stats.tx  s == acc.sent  d == stats.dropped  e == acc.dropped
               w == Waiting  b == Len(burst)  m == Len(mTable[p])
    <3>1. /\ r \in Nat /\ t \in Nat /\ s \in Nat /\ d \in Nat /\ e \in Nat /\ w \in Nat
          /\ b \in Nat /\ m \in Nat /\ n \in Nat
      BY <1>0, <1>51
    <3>2. r = t + s + d + e + w + b
      BY <2>2
    <3> HIDE DEF r, t, s, d, e, w, b, m
    <3>3. r = (t + n) + s + (d + m - n) + e + (w - m) + b
      BY <3>1, <3>2, SMTT(30)
    <3>4. QED
      BY <3>3 DEF r, t, s, d, e, w, b, m
  <2>3. stats'.rx = stats'.tx + acc.sent + stats'.dropped + acc.dropped + Waiting' + Len(burst)
    BY <2>21, <2>20, <1>9
  <2>4. QED
    BY <2>1, <2>3 DEF StatsExact
<1>12. TypeOK'
  <2>1. mTable' \in [Port -> {m \in Seq(Packet) : Len(m) < MaxPktBurst}]
    BY <1>1, <1>2, <1>7 DEF SendInv, TypeOK
  <2>2. lastOut' \in [Port -> 0 .. MaxRx]
    BY <1>1, <1>5, <1>6, Numbers
  <2>3. i' \in Nat \ {0}
    BY <1>3 DEF SendInv, TypeOK
  <2>4. QED
    BY <2>1, <2>2, <2>3, <1>3, <1>10 DEF SendInv, TypeOK, NoHop
<1>13. BurstInv'
  BY <1>3, <1>4 DEF SendInv, BurstInv
<1>14. QED
  BY <1>8, <1>11, <1>12, <1>13 DEF SendInv

-----------------------------------------------------------------------------
(* Sending.                                                                *)

\* pnum[] has a run of at least one packet and at most what is left of the burst: among the
\* places where the hop changes next, and the last place, there is a first one.
LEMMA GroupLenIs ==
  ASSUME Len(burst) \in Nat \ {0}
  PROVE  GroupLen \in 1 .. Len(burst)
<1> DEFINE T == {k \in 1 .. Len(burst) : k = Len(burst) \/ burst[k + 1].hop # burst[1].hop}
<1>1. T \subseteq Nat /\ T # {}
  OBVIOUS
<1>2. PICK k \in T : \A j \in T : ~ (<<j, k>> \in OpToRel(<, Nat))
  BY <1>1, NatLessThanWellFounded, WFMin
<1>3. \A j \in T : ~(j < k)
  BY <1>1, <1>2 DEF OpToRel
<1>4. ASSUME NEW a \in 1 .. k PROVE burst[a].hop = burst[1].hop
  <2>1. CASE a = 1
    BY <2>1
  <2>2. CASE a # 1
    <3>1. a - 1 \in 1 .. Len(burst) /\ a - 1 < k /\ a - 1 # Len(burst) /\ (a - 1) + 1 = a
      BY <2>2
    <3>2. a - 1 \notin T
      BY <3>1, <1>3
    <3>3. burst[(a - 1) + 1].hop = burst[1].hop
      BY <3>1, <3>2
    <3>4. QED
      BY <3>1, <3>3
  <2>3. QED
    BY <2>1, <2>2
<1>5. \E n \in 1 .. Len(burst) :
        /\ \A a \in 1 .. n : burst[a].hop = burst[1].hop
        /\ n < Len(burst) => burst[n + 1].hop # burst[1].hop
  BY <1>4
<1>6. QED
  BY <1>5 DEF GroupLen

\* The tables stay as they are while packets are freed or the burst gets shorter.
LEMMA TablesKeep ==
  ASSUME SendInv, UNCHANGED <<mTable, lastOut, sendPath, rxBurstSize>>,
         Front' \in Int, Front <= Front'
  PROVE  (\A q \in Port : TableInv(q)') /\ TablesApart' /\ Waiting' = Waiting
<1>1. ASSUME NEW q \in Port PROVE TableInv(q)'
  <2>1. TableInv(q) /\ Front \in Int
    BY Numbers DEF SendInv
  <2>2. lastOut[q] \in Int /\ \A a \in 1 .. Len(mTable[q]) : mTable[q][a] \in Int
    BY TableOf
  <2>3. lastOut[q] < Front' /\ \A a \in 1 .. Len(mTable[q]) : mTable[q][a] < Front'
    BY <2>1, <2>2 DEF TableInv
  <2>4. QED
    BY <2>1, <2>3 DEF TableInv
<1>2. TablesApart' /\ Waiting' = Waiting
  BY DEF SendInv, TablesApart, Waiting, Occupied
<1>3. QED
  BY <1>1, <1>2

\* The first n packets of the burst are gone.
LEMMA BurstShorter ==
  ASSUME SendInv, pc = "send", NEW n \in 1 .. Len(burst),
         UNCHANGED <<options, pc, single, nextPkt>>,
         burst' \in Seq([pkt : Packet, hop : Port \cup NoHop]),
         Len(burst') = Len(burst) - n,
         \A k \in 1 .. Len(burst') : burst'[k] = burst[n + k]
  PROVE  Front' = Front + n /\ BurstInv'
<1>0. Len(burst) \in Nat /\ nextPkt \in Nat /\ Front \in Nat \ {0} /\ rxBurstSize \in Nat /\ n \in Nat
      /\ Len(burst) <= rxBurstSize
  BY Numbers
<1>1. Front' = Front + n
  BY <1>0 DEF Front
<1>2. \A k \in 1 .. Len(burst') : burst'[k].pkt = Front' + k - 1
  <2>1. ASSUME NEW k \in 1 .. Len(burst') PROVE burst'[k].pkt = Front' + k - 1
    <3>1. n + k \in 1 .. Len(burst)
      BY <1>0
    <3>2. burst[n + k].pkt = Front + (n + k) - 1
      BY <3>1 DEF SendInv, BurstInv
    <3>3. QED
      BY <3>2, <1>0, <1>1
  <2>2. QED
    BY <2>1
<1>3. Len(burst') <= rxBurstSize' /\ Front' > 0
  BY <1>0, <1>1 DEF options
<1>4. IF single' THEN sendPath' # "multi" ELSE sendPath' # "single"
  <2>1. burst # <<>>
    BY <1>0
  <2>2. QED
    BY <2>1 DEF SendInv, BurstInv, options
<1>5. QED
  BY <1>1, <1>2, <1>3, <1>4 DEF BurstInv

\* What is sent, freed or put into a table was in the burst: rx stays the sum.
LEMMA BooksBalance ==
  ASSUME SendInv, NEW n \in Nat, stats' = stats, Len(burst') = Len(burst) - n,
         acc'.sent \in Nat, acc'.dropped \in Nat, Waiting' \in Nat,
         acc'.sent + acc'.dropped + Waiting' = acc.sent + acc.dropped + Waiting + n
  PROVE  StatsExact'
<1>1. /\ acc.sent \in Nat /\ acc.dropped \in Nat
      /\ stats.rx \in Nat /\ stats.tx \in Nat /\ stats.dropped \in Nat
      /\ Waiting \in Nat /\ Len(burst) \in Nat
  BY Numbers
<1>2. stats.rx = stats.tx + acc.sent + stats.dropped + acc.dropped + Waiting + Len(burst)
  BY DEF SendInv, StatsExact
<1>3. stats.rx = stats.tx + acc'.sent + stats.dropped + acc'.dropped + Waiting' + (Len(burst) - n)
  <2> DEFINE t == stats.tx
             d == stats.dropped
             s == acc.sent
             e == acc.dropped
             s2 == acc'.sent
             e2 == acc'.dropped
             w == Waiting
             w2 == Waiting'
             len == Len(burst)
  <2>1. /\ t \in Nat /\ d \in Nat /\ s \in Nat /\ e \in Nat /\ w \in Nat /\ len \in Nat
        /\ s2 \in Nat /\ e2 \in Nat /\ w2 \in Nat /\ n \in Nat
    BY <1>1
  <2>2. s2 + e2 + w2 = s + e + w + n
    OBVIOUS
  <2>3. stats.rx = t + s + d + e + w + len
    BY <1>2
  <2> HIDE DEF t, d, s, e, s2, e2, w, w2, len
  <2>4. t + s + d + e + w + len = t + s2 + d + e2 + w2 + (len - n)
    BY <2>1, <2>2
  <2>5. stats.rx = t + s2 + d + e2 + w2 + (len - n)
    BY <2>3, <2>4
  <2>6. QED
    BY <2>5 DEF t, d, s2, e2, w2, len
<1>4. QED
  BY <1>3 DEF StatsExact

\* Port p's table with the next n packets of the burst behind it.
Joined(p, full, n) ==
  /\ Len(full) = Len(mTable[p]) + n
  /\ \A a \in 1 .. Len(mTable[p]) : full[a] = mTable[p][a]
  /\ \A a \in Len(mTable[p]) + 1 .. Len(mTable[p]) + n : full[a] = Front + (a - Len(mTable[p])) - 1

LEMMA JoinedInOrder ==
  ASSUME SendInv, NEW p \in Port, NEW full \in Seq(Packet), NEW n \in Nat, Joined(p, full, n)
  PROVE  /\ \A a \in 1 .. Len(full) :
              /\ full[a] \in Nat /\ lastOut[p] < full[a] /\ full[a] < Front + n
              /\ full[a] >= Front \/ \E b \in 1 .. Len(mTable[p]) : full[a] = mTable[p][b]
         /\ \A a, b \in 1 .. Len(full) : a < b => full[a] < full[b]
<1> DEFINE B == Len(mTable[p])
<1>1. B \in Nat /\ Front \in Nat \ {0} /\ lastOut[p] \in Nat /\ lastOut[p] < Front
  BY TableOf, Numbers, SMTT(30)
<1>2. /\ Len(full) = B + n
      /\ \A a \in 1 .. B : full[a] = mTable[p][a]
      /\ \A a \in B + 1 .. B + n : full[a] = Front + (a - B) - 1
  BY DEF Joined
<1>3. /\ \A a \in 1 .. B : mTable[p][a] \in Nat /\ lastOut[p] < mTable[p][a] /\ mTable[p][a] < Front
      /\ \A a, b \in 1 .. B : a < b => mTable[p][a] < mTable[p][b]
  BY TableOf
<1> HIDE DEF B
<1>4. ASSUME NEW a \in 1 .. Len(full)
      PROVE  /\ full[a] \in Nat /\ lastOut[p] < full[a] /\ full[a] < Front + n
             /\ full[a] >= Front \/ \E b \in 1 .. B : full[a] = mTable[p][b]
  <2>1. CASE a <= B
    <3>1. a \in 1 .. B
      BY <2>1, <1>1
    <3>2. full[a] = mTable[p][a]
      BY <3>1, <1>2
    <3>3. mTable[p][a] \in Nat /\ lastOut[p] < mTable[p][a] /\ mTable[p][a] < Front
      BY <3>1, <1>3
    <3>4. QED
      BY <3>1, <3>2, <3>3, <1>1
  <2>2. CASE a > B
    <3>1. a \in B + 1 .. B + n
      BY <2>2, <1>1, <1>2
    <3>2. full[a] = Front + (a - B) - 1
      BY <3>1, <1>2
    <3>3. QED
      BY <3>1, <3>2, <1>1
  <2>3. QED
    BY <2>1, <2>2, <1>1, <1>2
<1>5. ASSUME NEW a \in 1 .. Len(full), NEW b \in 1 .. Len(full), a < b
      PROVE  full[a] < full[b]
  <2>1. CASE b <= B
    <3>1. a \in 1 .. B /\ b \in 1 .. B
      BY <2>1, <1>1, <1>5
    <3>2. full[a] = mTable[p][a] /\ full[b] = mTable[p][b] /\ mTable[p][a] < mTable[p][b]
      BY <3>1, <1>2, <1>3, <1>5
    <3>3. QED
      BY <3>2
  <2>2. CASE a <= B /\ b > B
    <3>1. a \in 1 .. B /\ b \in B + 1 .. B + n
      BY <2>2, <1>1, <1>2
    <3>2. full[a] = mTable[p][a] /\ mTable[p][a] \in Nat /\ mTable[p][a] < Front
      BY <3>1, <1>2, <1>3
    <3>3. full[b] = Front + (b - B) - 1
      BY <3>1, <1>2
    <3>4. QED
      BY <3>1, <3>2, <3>3, <1>1
  <2>3. CASE a > B /\ b > B
    <3>1. a \in B + 1 .. B + n /\ b \in B + 1 .. B + n
      BY <2>3, <1>1, <1>2
    <3>2. full[a] = Front + (a - B) - 1 /\ full[b] = Front + (b - B) - 1
      BY <3>1, <1>2
    <3>3. QED
      BY <3>1, <3>2, <1>1, <1>5
  <2>4. QED
    BY <2>1, <2>2, <2>3, <1>1, <1>2
<1>6. QED
  BY <1>4, <1>5 DEF B

\* What is left to show of a step that takes s packets from the burst.
Accounted(s) ==
  /\ (\A q \in Port : TableInv(q)') /\ TablesApart'
  /\ mTable' \in [Port -> {t \in Seq(Packet) : Len(t) < MaxPktBurst}]
  /\ lastOut' \in [Port -> 0 .. MaxRx]
  /\ acc' \in [sent : Nat, dropped : Nat]
  /\ Waiting' \in Nat
  /\ acc'.sent + acc'.dropped + Waiting' = acc.sent + acc.dropped + Waiting + s

\* The next n packets are stored behind those that wait.
LEMMA Stored ==
  ASSUME SendInv, NEW p \in Port, NEW full \in Seq(Packet), NEW n \in Nat, Joined(p, full, n),
         Len(full) < MaxPktBurst, sendPath = "single" => Len(full) < rxBurstSize,
         Front' = Front + n, mTable' = [mTable EXCEPT ![p] = full],
         UNCHANGED <<lastOut, acc, sendPath, rxBurstSize>>
  PROVE  Accounted(n)
<1>1. /\ Front \in Nat /\ Len(mTable[p]) \in Nat /\ Len(full) = Len(mTable[p]) + n
      /\ lastOut \in [Port -> 0 .. MaxRx] /\ lastOut[p] \in Nat /\ lastOut[p] < Front
      /\ acc.sent \in Nat /\ acc.dropped \in Nat /\ Waiting \in Nat
  <2>1. Len(mTable[p]) \in Nat /\ lastOut[p] \in Nat /\ lastOut[p] < Front
    BY TableOf
  <2>2. Len(full) = Len(mTable[p]) + n
    BY DEF Joined
  <2>3. QED
    BY <2>1, <2>2, Numbers
<1>2. lastOut' = [lastOut EXCEPT ![p] = lastOut[p]]
  BY <1>1
<1>3. (\A q \in Port : TableInv(q)') /\ TablesApart'
  <2>1. lastOut[p] \in Int /\ Front' \in Int /\ Front <= Front' /\ lastOut[p] < Front'
    BY <1>1
  <2>2. \A a \in 1 .. Len(full) : lastOut[p] < full[a] /\ full[a] < Front'
    BY JoinedInOrder
  <2>3. \A a, b \in 1 .. Len(full) : a < b => full[a] < full[b]
    BY JoinedInOrder
  <2>4. \A a \in 1 .. Len(full) : full[a] >= Front \/ \E b \in 1 .. Len(mTable[p]) : full[a] = mTable[p][b]
    BY JoinedInOrder
  <2>5. QED
    BY <1>2, <2>1, <2>2, <2>3, <2>4, TableChange
<1>4. Waiting' = Waiting - Len(mTable[p]) + Len(full) /\ Waiting' \in Nat
  BY WaitingChange DEF SendInv
<1>5. Waiting' = Waiting + n
  <2> DEFINE w == Waiting
             w2 == Waiting'
             b == Len(mTable[p])
             f == Len(full)
  <2>1. f = b + n /\ b \in Nat /\ w \in Nat /\ w2 = w - b + f
    BY <1>1, <1>4
  <2> HIDE DEF w, w2, b, f
  <2>2. w2 = w + n
    BY <2>1
  <2>3. QED
    BY <2>2 DEF w, w2
<1>6. acc'.sent + acc'.dropped + Waiting' = acc.sent + acc.dropped + Waiting + n
  BY <1>1, <1>5
<1>7. /\ mTable' \in [Port -> {t \in Seq(Packet) : Len(t) < MaxPktBurst}]
      /\ acc' \in [sent : Nat, dropped : Nat] /\ lastOut' \in [Port -> 0 .. MaxRx]
  BY DEF SendInv, TypeOK
<1>8. QED
  BY <1>3, <1>4, <1>6, <1>7 DEF Accounted

\* The packets t are those of the burst behind the first n.
Follow(t, n) == \A a \in 1 .. Len(t) : t[a] = Front + n + a - 1

\* Adding to acc.
LEMMA PlusIs ==
  ASSUME acc \in [sent : Nat, dropped : Nat], NEW k \in Nat, NEW d \in Nat, acc' = Plus(acc, k, d)
  PROVE  /\ acc' \in [sent : Nat, dropped : Nat]
         /\ acc.sent \in Nat /\ acc.dropped \in Nat
         /\ acc'.sent = acc.sent + k /\ acc'.dropped = acc.dropped + d
BY DEF Plus

\* The packet the NIC took last.
LEMMA LastTaken ==
  ASSUME SendInv, NEW p \in Port, NEW full \in Seq(Packet), NEW n \in Nat, Joined(p, full, n),
         NEW k \in 0 .. Len(full)
  PROVE  (IF k = 0 THEN lastOut[p] ELSE full[k]) \in { x \in 0 .. MaxRx : x < Front + n }
<1>1. Front \in Nat /\ lastOut[p] \in 0 .. MaxRx /\ lastOut[p] < Front /\ MaxRx \in Nat
  BY Numbers, TableOf
<1>2. CASE k = 0
  BY <1>1, <1>2
<1>3. CASE k # 0
  <2>1. k \in 1 .. Len(full)
    BY <1>3
  <2>2. full[k] \in Packet /\ full[k] < Front + n
    BY <2>1, JoinedInOrder, ElementOfSeq
  <2>3. full[k] \in 0 .. MaxRx
    BY <2>2, <1>1 DEF Packet
  <2>4. QED
    BY <2>2, <2>3, <1>3
<1>4. QED
  BY <1>2, <1>3

\* The NIC takes k of what waited and the next n packets, and the sender frees the others;
\* the packets t that did not fit come into the table.
LEMMA Flushed ==
  ASSUME SendInv, NEW p \in Port, NEW full \in Seq(Packet), NEW n \in Nat, Joined(p, full, n),
         NEW t \in Seq(Packet), Len(t) < MaxPktBurst, sendPath = "single" => Len(t) < rxBurstSize,
         Follow(t, n),
         Front' = Front + n + Len(t), mTable' = [mTable EXCEPT ![p] = t],
         NEW k \in 0 .. Len(full), Took(p, full, k), acc' = Plus(acc, k, Len(full) - k),
         UNCHANGED <<sendPath, rxBurstSize>>
  PROVE  Accounted(n + Len(t))
<1> DEFINE x == IF k = 0 THEN lastOut[p] ELSE full[k]
<1>1. Front \in Nat /\ Waiting \in Nat /\ lastOut \in [Port -> 0 .. MaxRx] /\ MaxRx \in Nat
  BY Numbers
<1>2. lastOut' = [lastOut EXCEPT ![p] = x]
  BY TookIs DEF SendInv
<1>3. x \in 0 .. MaxRx /\ x < Front + n
  BY LastTaken
<1> HIDE DEF x
<1>4. Len(t) \in Nat /\ Len(full) \in Nat /\ Len(full) - k \in Nat /\ k \in Nat
  OBVIOUS
<1>5. (\A q \in Port : TableInv(q)') /\ TablesApart'
  <2>1. x \in Int /\ Front' \in Int /\ Front <= Front' /\ x < Front'
    BY <1>1, <1>3, <1>4
  <2>2. \A a \in 1 .. Len(t) : x < t[a] /\ t[a] < Front'
    BY <1>1, <1>3, <1>4 DEF Follow
  <2>3. \A a, b \in 1 .. Len(t) : a < b => t[a] < t[b]
    BY <1>1 DEF Follow
  <2>4. \A a \in 1 .. Len(t) : t[a] >= Front
    BY <1>1 DEF Follow
  <2>5. QED
    BY <1>2, <2>1, <2>2, <2>3, <2>4, TableChange
<1>6. Waiting' = Waiting - Len(mTable[p]) + Len(t) /\ Waiting' \in Nat
  BY WaitingChange DEF SendInv
<1>7. /\ acc' \in [sent : Nat, dropped : Nat] /\ acc.sent \in Nat /\ acc.dropped \in Nat
      /\ acc'.sent = acc.sent + k /\ acc'.dropped = acc.dropped + (Len(full) - k)
  <2>1. acc \in [sent : Nat, dropped : Nat]
    BY DEF SendInv, TypeOK
  <2>2. QED
    BY <2>1, <1>4, PlusIs
<1>8. acc'.sent + acc'.dropped + Waiting' = acc.sent + acc.dropped + Waiting + (n + Len(t))
  <2> DEFINE s == acc.sent
             d == acc.dropped
             s2 == acc'.sent
             d2 == acc'.dropped
             w == Waiting
             w2 == Waiting'
             b == Len(mTable[p])
             f == Len(full)
             c == Len(t)
  <2>1. f = b + n /\ b \in Nat
    BY TableOf DEF Joined
  <2>2. s \in Nat /\ d \in Nat /\ s2 = s + k /\ d2 = d + (f - k)
    BY <1>7
  <2>3. w2 = w - b + c
    BY <1>6
  <2>4. k \in Nat /\ f \in Nat /\ c \in Nat /\ w \in Nat
    BY <1>1, <1>4
  <2> HIDE DEF s, d, s2, d2, w, w2, b, f, c
  <2>5. s2 + d2 + w2 = s + d + w + (n + c)
    BY <2>1, <2>2, <2>3, <2>4
  <2>6. QED
    BY <2>5 DEF s, d, s2, d2, w, w2, c
<1>9. mTable' \in [Port -> {q \in Seq(Packet) : Len(q) < MaxPktBurst}]
  BY DEF SendInv, TypeOK
<1>10. lastOut' \in [Port -> 0 .. MaxRx]
  BY <1>1, <1>2, <1>3
<1>11. QED
  BY <1>5, <1>6, <1>7, <1>8, <1>9, <1>10 DEF Accounted

\* The first n packets of a group behind those that wait.
LEMMA JoinIs ==
  ASSUME SendInv, NEW p \in Port, NEW m \in Seq(Packet), Follow(m, 0), NEW n \in 0 .. Len(m)
  PROVE  /\ mTable[p] \o SubSeq(m, 1, n) \in Seq(Packet)
         /\ Joined(p, mTable[p] \o SubSeq(m, 1, n), n)
<1> DEFINE B == Len(mTable[p])
           s == SubSeq(m, 1, n)
           full == mTable[p] \o s
<1>1. mTable[p] \in Seq(Packet) /\ B \in Nat /\ Front \in Nat /\ n \in Nat
  BY TableOf, Numbers, SMTT(30)
<1>2. s \in Seq(Packet) /\ Len(s) = n /\ \A a \in 1 .. n : s[a] = m[a]
  BY SubSeqProperties
<1>3. \A a \in 1 .. n : s[a] = Front + a - 1
  BY <1>1, <1>2 DEF Follow
<1> HIDE DEF s
<1>4. /\ full \in Seq(Packet)
      /\ Len(full) = B + n
      /\ \A a \in 1 .. B + n : full[a] = IF a <= B THEN mTable[p][a] ELSE s[a - B]
  BY <1>1, <1>2, ConcatProperties, ZenonT(30)
<1> HIDE DEF full, B
<1>5. ASSUME NEW a \in B + 1 .. B + n PROVE full[a] = Front + (a - B) - 1
  <2>1. a \in 1 .. B + n /\ ~(a <= B) /\ a - B \in 1 .. n
    BY <1>1
  <2>2. full[a] = s[a - B]
    BY <2>1, <1>4
  <2>3. QED
    BY <2>1, <2>2, <1>3
<1>6. ASSUME NEW a \in 1 .. B PROVE full[a] = mTable[p][a]
  <2>1. a \in 1 .. B + n /\ a <= B
    BY <1>1
  <2>2. QED
    BY <2>1, <1>4
<1>7. Joined(p, full, n)
  BY <1>4, <1>5, <1>6 DEF Joined, B
<1>8. QED
  BY <1>4, <1>7 DEF full, s

\* The rest of a group behind its first n packets.
LEMMA RestIs ==
  ASSUME Front \in Nat, NEW m \in Seq(Packet), Follow(m, 0), NEW n \in 1 .. Len(m)
  PROVE  Rest(m, n) \in Seq(Packet) /\ Len(Rest(m, n)) = Len(m) - n /\ Follow(Rest(m, n), n)
<1> DEFINE L == Len(m)
           t == Rest(m, n)
<1>1. L \in Nat /\ n \in Nat /\ n > 0 /\ n <= L
  OBVIOUS
<1>2. /\ t \in Seq(Packet)
      /\ Len(t) = IF n + 1 <= L THEN L - (n + 1) + 1 ELSE 0
      /\ \A a \in 1 .. L - (n + 1) + 1 : t[a] = m[(n + 1) + a - 1]
  <2>1. \A a \in n + 1 .. L : m[a] \in Packet
    BY <1>1, ElementOfSeq
  <2>2. QED
    BY <2>1, <1>1, SubSeqProperties DEF Rest
<1>3. \A a \in 1 .. L : m[a] = Front + 0 + a - 1
  BY DEF Follow
<1> HIDE DEF t, L
<1>4. Len(t) = L - n
  BY <1>1, <1>2
<1>5. ASSUME NEW a \in 1 .. Len(t) PROVE t[a] = Front + n + a - 1
  <2>1. a \in 1 .. L - (n + 1) + 1 /\ (n + 1) + a - 1 \in 1 .. L
    BY <1>1, <1>4
  <2>2. t[a] = m[(n + 1) + a - 1]
    BY <2>1, <1>2
  <2>3. m[(n + 1) + a - 1] = Front + 0 + ((n + 1) + a - 1) - 1
    BY <2>1, <1>3
  <2>4. QED
    BY <2>2, <2>3, <1>1
<1>6. Follow(t, n)
  BY <1>5 DEF Follow
<1>7. QED
  BY <1>2, <1>4, <1>6 DEF t, L

\* How many fit.
LEMMA FitIs ==
  ASSUME NEW p, NEW L \in 1 .. MaxPktBurst, Len(mTable[p]) \in Nat, Len(mTable[p]) < MaxPktBurst
  PROVE  /\ Fit(p, L) \in 1 .. L /\ L - Fit(p, L) < MaxPktBurst
         /\ Len(mTable[p]) + Fit(p, L) <= MaxPktBurst
         /\ Fit(p, L) # L => Len(mTable[p]) + Fit(p, L) = MaxPktBurst
<1> DEFINE B == Len(mTable[p])
           n == Fit(p, L)
<1>1. n = IF B + L > MaxPktBurst THEN MaxPktBurst - B ELSE L
  BY DEF Fit
<1>2. B \in Nat /\ B < MaxPktBurst /\ MaxPktBurst \in Nat /\ L \in Nat /\ L > 0 /\ L <= MaxPktBurst
  BY L3fwdTxAssumption
<1> HIDE DEF B, n
<1>3. n \in 1 .. L /\ L - n < MaxPktBurst /\ B + n <= MaxPktBurst /\ (n # L => B + n = MaxPktBurst)
  BY <1>1, <1>2
<1>4. QED
  BY <1>3 DEF B, n

LEMMA SendX4Inv ==
  ASSUME SendInv, UNCHANGED <<sendPath, rxBurstSize>>,
         NEW p \in Port, NEW m \in Seq(Packet), Follow(m, 0), Len(m) \in 1 .. MaxPktBurst,
         Front' = Front + Len(m), SendX4(p, m), sendPath # "single"
  PROVE  Accounted(Len(m))
<1> DEFINE n == Fit(p, Len(m))
           full == mTable[p] \o SubSeq(m, 1, n)
           t == Rest(m, n)
<1>1. /\ Len(mTable[p]) \in Nat /\ Len(mTable[p]) < MaxPktBurst /\ mTable[p] \in Seq(Packet)
      /\ MaxPktBurst \in Nat /\ Front \in Nat /\ Len(m) \in Nat
  <2>1. Len(mTable[p]) \in Nat /\ Len(mTable[p]) < MaxPktBurst /\ mTable[p] \in Seq(Packet)
    BY TableOf
  <2>2. MaxPktBurst \in Nat /\ Front \in Nat
    BY Numbers
  <2>3. QED
    BY <2>1, <2>2
<1>2. CASE Straightway(p, Len(m))
  <2>1. PICK k \in 0 .. Len(m) : Took(p, m, k) /\ acc' = Plus(acc, k, Len(m) - k) /\ mTable' = mTable
    BY <1>2 DEF SendX4
  <2>2. mTable[p] = <<>>
    BY <1>2 DEF Straightway
  <2>3. mTable' = [mTable EXCEPT ![p] = <<>>]
    <3>1. mTable \in [Port -> {s \in Seq(Packet) : Len(s) < MaxPktBurst}]
      BY DEF SendInv, TypeOK
    <3>2. QED
      BY <3>1, <2>1, <2>2
  <2>4. Joined(p, m, Len(m))
    <3>1. Len(mTable[p]) = 0
      BY <2>2
    <3>2. \A a \in 0 + 1 .. 0 + Len(m) : m[a] = Front + (a - 0) - 1
      BY <1>1 DEF Follow
    <3>3. QED
      BY <3>1, <3>2, <1>1 DEF Joined
  <2>5. /\ Len(<<>>) = 0 /\ <<>> \in Seq(Packet) /\ Len(<<>>) < MaxPktBurst
        /\ Front' = Front + Len(m) + Len(<<>>)
    BY <1>1, L3fwdTxAssumption
  <2>6. Follow(<<>>, Len(m))
    BY DEF Follow
  <2>7. Accounted(Len(m) + Len(<<>>))
    BY <1>1, <2>1, <2>3, <2>4, <2>5, <2>6, Flushed
  <2>8. Len(m) + Len(<<>>) = Len(m)
    BY <1>1, <2>5
  <2>9. QED
    BY <2>7, <2>8
<1>3. CASE ~Straightway(p, Len(m))
  <2>1. /\ n \in 1 .. Len(m) /\ Len(m) - n < MaxPktBurst /\ Len(mTable[p]) + n <= MaxPktBurst
        /\ n # Len(m) => Len(mTable[p]) + n = MaxPktBurst
    BY <1>1, FitIs
  <2>2. full \in Seq(Packet) /\ Joined(p, full, n)
    BY <2>1, JoinIs
  <2>3. Len(full) = Len(mTable[p]) + n
    BY <2>2 DEF Joined
  <2>4. t \in Seq(Packet) /\ Len(t) = Len(m) - n /\ Follow(t, n)
    BY <1>1, <2>1, RestIs
  <2>5. \/ /\ Len(full) = MaxPktBurst
           /\ \E k \in 0 .. MaxPktBurst :
                /\ Took(p, full, k)
                /\ acc' = Plus(acc, k, MaxPktBurst - k)
                /\ mTable' = [mTable EXCEPT ![p] = t]
        \/ /\ Len(full) # MaxPktBurst
           /\ mTable' = [mTable EXCEPT ![p] = full] /\ UNCHANGED <<lastOut, acc>>
    BY <1>3 DEF SendX4, FlushDropped
  <2> HIDE DEF n, full, t
  <2>6. CASE Len(full) = MaxPktBurst
    <3>1. PICK k \in 0 .. MaxPktBurst :
            /\ Took(p, full, k)
            /\ acc' = Plus(acc, k, MaxPktBurst - k)
            /\ mTable' = [mTable EXCEPT ![p] = t]
      BY <2>5, <2>6
    <3>2. Len(t) < MaxPktBurst /\ n \in Nat /\ n + Len(t) = Len(m) /\ Front' = Front + n + Len(t)
      BY <1>1, <2>1, <2>4
    <3>3. k \in 0 .. Len(full) /\ acc' = Plus(acc, k, Len(full) - k)
      BY <2>6, <3>1
    <3>4. Accounted(n + Len(t))
      BY <2>2, <2>4, <3>1, <3>2, <3>3, Flushed
    <3>5. QED
      BY <3>2, <3>4
  <2>7. CASE Len(full) # MaxPktBurst
    <3>1. mTable' = [mTable EXCEPT ![p] = full] /\ UNCHANGED <<lastOut, acc>>
      BY <2>5, <2>7
    <3>2. n = Len(m) /\ Len(full) < MaxPktBurst /\ n \in Nat
      BY <1>1, <2>1, <2>3, <2>7
    <3>3. Front' = Front + n
      BY <3>2
    <3>4. Accounted(n)
      BY <2>2, <3>1, <3>2, <3>3, Stored
    <3>5. QED
      BY <3>2, <3>4
  <2>8. QED
    BY <2>6, <2>7
<1>4. QED
  BY <1>2, <1>3

\* Packets without a hop are freed and counted.
LEMMA Freed ==
  ASSUME SendInv, NEW n \in Nat, acc' = Plus(acc, 0, n), Front' = Front + n,
         UNCHANGED <<mTable, lastOut, sendPath, rxBurstSize>>
  PROVE  Accounted(n)
<1>1. Front \in Nat /\ Waiting \in Nat
  BY Numbers
<1>2. (\A q \in Port : TableInv(q)') /\ TablesApart' /\ Waiting' = Waiting
  <2>1. Front' \in Int /\ Front <= Front'
    BY <1>1
  <2>2. QED
    BY <2>1, TablesKeep
<1>3. /\ acc' \in [sent : Nat, dropped : Nat] /\ acc.sent \in Nat /\ acc.dropped \in Nat
      /\ acc'.sent = acc.sent + 0 /\ acc'.dropped = acc.dropped + n
  <2>1. acc \in [sent : Nat, dropped : Nat]
    BY DEF SendInv, TypeOK
  <2>2. QED
    BY <2>1, PlusIs
<1>4. acc'.sent + acc'.dropped + Waiting' = acc.sent + acc.dropped + Waiting + n
  BY <1>1, <1>2, <1>3
<1>5. /\ mTable' \in [Port -> {t \in Seq(Packet) : Len(t) < MaxPktBurst}]
      /\ lastOut' \in [Port -> 0 .. MaxRx]
  BY DEF SendInv, TypeOK
<1>6. Waiting' \in Nat
  BY <1>1, <1>2
<1>7. QED
  BY <1>2, <1>3, <1>4, <1>5, <1>6 DEF Accounted

\* Either sender takes n packets from the burst.
LEMMA TakenInv ==
  ASSUME SendInv, pc = "send", NEW n \in 1 .. Len(burst), Accounted(n),
         UNCHANGED <<options, forceQuit, pc, i, due, single, nextPkt, stats>>,
         burst' \in Seq([pkt : Packet, hop : Port \cup NoHop]),
         Len(burst') = Len(burst) - n,
         \A k \in 1 .. Len(burst') : burst'[k] = burst[n + k]
  PROVE  SendInv'
<1>1. BurstInv'
  BY BurstShorter
<1>2. StatsExact'
  <2>1. acc'.sent \in Nat /\ acc'.dropped \in Nat /\ Waiting' \in Nat /\ n \in Nat
    BY Numbers DEF Accounted
  <2>2. QED
    BY <2>1, BooksBalance DEF Accounted
<1>3. TypeOK'
  BY DEF SendInv, TypeOK, Accounted, options, NoHop
<1>4. QED
  BY <1>1, <1>2, <1>3 DEF SendInv, Accounted

LEMMA GroupIs ==
  ASSUME SendInv, NEW g \in 1 .. Len(burst), g = GroupLen
  PROVE  Group \in Seq(Packet) /\ Len(Group) = g /\ Follow(Group, 0)
<1>1. g \in Nat /\ Front \in Nat /\ Len(burst) \in Nat
      /\ burst \in Seq([pkt : Packet, hop : Port \cup NoHop])
  BY Numbers
<1>2. Group = [k \in 1 .. g |-> burst[k].pkt]
  BY DEF Group
<1>3. \A k \in 1 .. g : burst[k].pkt \in Packet /\ burst[k].pkt = Front + k - 1
  <2>1. ASSUME NEW k \in 1 .. g PROVE burst[k].pkt \in Packet /\ burst[k].pkt = Front + k - 1
    <3>1. k \in 1 .. Len(burst)
      BY <1>1
    <3>2. burst[k] \in [pkt : Packet, hop : Port \cup NoHop]
      BY <3>1, <1>1, ElementOfSeq
    <3>3. QED
      BY <3>1, <3>2 DEF SendInv, BurstInv
  <2>2. QED
    BY <2>1
<1>4. Group \in Seq(Packet) /\ Len(Group) = g
  BY <1>1, <1>2, <1>3
<1>5. \A k \in 1 .. g : Group[k] = Front + 0 + k - 1
  BY <1>1, <1>2, <1>3
<1>6. QED
  BY <1>4, <1>5 DEF Follow

LEMMA SendGroupInv ==
  ASSUME SendInv, SendGroup
  PROVE  SendInv'
<1> DEFINE g == GroupLen
           R == [pkt : Packet, hop : Port \cup NoHop]
<1>1. /\ pc = "send" /\ ~single /\ burst # <<>>
      /\ burst' = SubSeq(burst, g + 1, Len(burst))
      /\ UNCHANGED <<options, forceQuit, pc, i, due, single, nextPkt, stats>>
  BY DEF SendGroup
<1>2. burst \in Seq(R) /\ Len(burst) \in Nat \ {0} /\ Len(burst) <= MaxPktBurst
      /\ MaxPktBurst \in Nat /\ Front \in Nat /\ nextPkt \in Nat /\ nextPkt = Front + Len(burst)
  BY <1>1, Numbers, EmptySeq
<1>3. g \in 1 .. Len(burst)
  BY <1>2, GroupLenIs
<1>4. sendPath # "single"
  BY <1>1 DEF SendInv, BurstInv
<1> HIDE DEF g, R
<1>5. /\ burst' \in Seq(R) /\ Len(burst') = Len(burst) - g
      /\ \A k \in 1 .. Len(burst') : burst'[k] = burst[g + k]
  <2>1. \A k \in g + 1 .. Len(burst) : burst[k] \in R
    BY <1>2, <1>3, ElementOfSeq
  <2>2. /\ burst' \in Seq(R)
        /\ Len(burst') = IF g + 1 <= Len(burst) THEN Len(burst) - (g + 1) + 1 ELSE 0
        /\ \A k \in 1 .. Len(burst) - (g + 1) + 1 : burst'[k] = burst[(g + 1) + k - 1]
    BY <2>1, <1>1, <1>2, <1>3, SubSeqProperties
  <2>3. Len(burst') = Len(burst) - g
    BY <2>2, <1>2, <1>3
  <2>4. ASSUME NEW k \in 1 .. Len(burst') PROVE burst'[k] = burst[g + k]
    <3>1. k \in 1 .. Len(burst) - (g + 1) + 1 /\ (g + 1) + k - 1 = g + k
      BY <2>3, <1>2, <1>3
    <3>2. QED
      BY <3>1, <2>2
  <2>5. QED
    BY <2>2, <2>3, <2>4
<1>6. Front' = Front + g
  <2>1. Front' = nextPkt - (Len(burst) - g) /\ Front = nextPkt - Len(burst)
    BY <1>1, <1>5 DEF Front
  <2>2. QED
    BY <2>1, <1>2, <1>3
<1>7. UNCHANGED <<sendPath, rxBurstSize>>
  BY <1>1 DEF options
<1>8. Accounted(g)
  <2>1. CASE burst[1].hop \in NoHop
    <3>1. acc' = Plus(acc, 0, g) /\ UNCHANGED <<mTable, lastOut>>
      BY <2>1 DEF SendGroup, g
    <3>2. g \in Nat
      BY <1>2, <1>3
    <3>3. QED
      BY <3>1, <3>2, <1>6, <1>7, Freed
  <2>2. CASE burst[1].hop \notin NoHop
    <3>1. SendX4(burst[1].hop, Group)
      BY <2>2 DEF SendGroup
    <3>2. burst[1].hop \in Port
      <4>1. 1 \in 1 .. Len(burst)
        BY <1>2
      <4>2. burst[1] \in R
        BY <4>1, <1>2, ElementOfSeq
      <4>3. QED
        BY <4>2, <2>2 DEF R
    <3>3. Group \in Seq(Packet) /\ Len(Group) = g /\ Follow(Group, 0)
      BY <1>3, GroupIs DEF g
    <3>4. g \in 1 .. MaxPktBurst
      BY <1>2, <1>3
    <3>5. Accounted(Len(Group))
      BY <3>1, <3>2, <3>3, <3>4, <1>4, <1>6, <1>7, SendX4Inv
    <3>6. QED
      BY <3>3, <3>5
  <2>3. QED
    BY <2>1, <2>2
<1>9. QED
  BY <1>1, <1>3, <1>5, <1>8, TakenInv DEF R

\* One packet behind those that wait.
LEMMA AppendIs ==
  ASSUME SendInv, NEW p \in Port, NEW e \in Packet, e = Front
  PROVE  Append(mTable[p], e) \in Seq(Packet) /\ Joined(p, Append(mTable[p], e), 1)
<1> DEFINE B == Len(mTable[p])
           full == Append(mTable[p], e)
<1>1. mTable[p] \in Seq(Packet) /\ B \in Nat /\ Front \in Nat
  BY TableOf, Numbers
<1>2. /\ full \in Seq(Packet) /\ Len(full) = B + 1
      /\ \A a \in 1 .. B : full[a] = mTable[p][a]
      /\ full[B + 1] = e
  BY <1>1, AppendProperties
<1> HIDE DEF B, full
<1>3. \A a \in B + 1 .. B + 1 : full[a] = Front + (a - B) - 1
  BY <1>1, <1>2
<1>4. Joined(p, full, 1)
  BY <1>2, <1>3 DEF Joined, B
<1>5. QED
  BY <1>2, <1>4 DEF full

LEMMA SendSingleInv ==
  ASSUME SendInv, OneFullMark, SendSingle
  PROVE  SendInv'
<1> DEFINE p == burst[1].hop
           e == burst[1].pkt
           full == Append(mTable[p], e)
           R == [pkt : Packet, hop : Port \cup NoHop]
<1>1. /\ pc = "send" /\ single /\ burst # <<>> /\ burst' = Tail(burst)
      /\ UNCHANGED <<options, forceQuit, pc, i, due, single, nextPkt, stats>>
  BY DEF SendSingle
<1>2. /\ burst \in Seq(R) /\ Len(burst) \in Nat \ {0} /\ Front \in Nat /\ nextPkt \in Nat
      /\ nextPkt = Front + Len(burst) /\ rxBurstSize \in Nat /\ rxBurstSize <= MaxPktBurst
      /\ MaxPktBurst \in Nat
  BY <1>1, Numbers, EmptySeq
<1>3. \A q \in Port : Len(mTable[q]) < rxBurstSize
  <2>1. sendPath # "multi"
    BY <1>1 DEF SendInv, BurstInv
  <2>2. sendPath \in {"single", "acl"}
    BY <2>1, L3fwdTxAssumption DEF SendInv, TypeOK
  <2>3. CASE sendPath = "single"
    BY <2>3 DEF SendInv, TableInv
  <2>4. CASE sendPath = "acl"
    BY <2>4, TableOf DEF OneFullMark
  <2>5. QED
    BY <2>2, <2>3, <2>4
<1>4. 1 \in 1 .. Len(burst) /\ e \in Packet /\ p \in Port \cup NoHop /\ e = Front
  <2>1. 1 \in 1 .. Len(burst)
    BY <1>2
  <2>2. burst[1] \in R
    BY <2>1, <1>2, ElementOfSeq
  <2>3. e = Front + 1 - 1
    BY <2>1 DEF SendInv, BurstInv
  <2>4. QED
    BY <2>1, <2>2, <2>3, <1>2
<1>5. /\ burst' \in Seq(R) /\ Len(burst') = Len(burst) - 1
      /\ \A k \in 1 .. Len(burst') : burst'[k] = burst[1 + k]
  <2>1. /\ burst' \in Seq(R) /\ Len(burst') = Len(burst) - 1
        /\ \A k \in 1 .. Len(burst') : burst'[k] = burst[k + 1]
    BY <1>1, <1>2, HeadTailProperties
  <2>2. \A k \in 1 .. Len(burst') : k + 1 = 1 + k
    BY <1>2, <2>1
  <2>3. QED
    BY <2>1, <2>2
<1>6. Front' = Front + 1
  <2>1. Front' = nextPkt - (Len(burst) - 1) /\ Front = nextPkt - Len(burst)
    BY <1>1, <1>5 DEF Front
  <2>2. QED
    BY <2>1, <1>2
<1>7. UNCHANGED <<sendPath, rxBurstSize>>
  BY <1>1 DEF options
<1>8. /\ p \in NoHop => acc' = Plus(acc, 0, 1) /\ UNCHANGED <<mTable, lastOut>>
      /\ p \notin NoHop /\ Len(full) = rxBurstSize =>
           \E k \in 0 .. rxBurstSize :
             /\ Took(p, full, k)
             /\ acc' = Plus(acc, k, rxBurstSize - k)
             /\ mTable' = [mTable EXCEPT ![p] = <<>>]
      /\ p \notin NoHop /\ Len(full) # rxBurstSize =>
           /\ mTable' = [mTable EXCEPT ![p] = full]
           /\ acc' = Plus(acc, 0, 0)
           /\ UNCHANGED lastOut
  BY DEF SendSingle, Filled, DroppedBy, AfterFlush
<1> HIDE DEF p, e, full, R
<1>9. Accounted(1)
  <2>1. CASE p \in NoHop
    BY <2>1, <1>6, <1>7, <1>8, Freed
  <2>2. CASE p \notin NoHop
    <3>1. p \in Port
      BY <2>2, <1>4
    <3>2. full \in Seq(Packet) /\ Joined(p, full, 1)
      BY <3>1, <1>4, AppendIs DEF full
    <3>3. Len(full) = Len(mTable[p]) + 1 /\ Len(mTable[p]) \in Nat /\ Len(mTable[p]) < rxBurstSize
      BY <3>1, <3>2, <1>3, TableOf DEF Joined
    <3>4. CASE Len(full) = rxBurstSize
      <4>1. PICK k \in 0 .. rxBurstSize :
              /\ Took(p, full, k)
              /\ acc' = Plus(acc, k, rxBurstSize - k)
              /\ mTable' = [mTable EXCEPT ![p] = <<>>]
        BY <2>2, <3>4, <1>8
      <4>2. k \in 0 .. Len(full) /\ acc' = Plus(acc, k, Len(full) - k)
        BY <3>4, <4>1
      <4>3. /\ <<>> \in Seq(Packet) /\ Len(<<>>) = 0 /\ Len(<<>>) < MaxPktBurst
            /\ Len(<<>>) < rxBurstSize /\ Front' = Front + 1 + Len(<<>>)
        BY <1>2, <1>6, <3>3
      <4>4. Follow(<<>>, 1)
        BY DEF Follow
      <4>5. Accounted(1 + Len(<<>>))
        BY <3>1, <3>2, <4>1, <4>2, <4>3, <4>4, <1>7, Flushed
      <4>6. 1 + Len(<<>>) = 1
        BY <4>3
      <4>7. QED
        BY <4>5, <4>6
    <3>5. CASE Len(full) # rxBurstSize
      <4>1. mTable' = [mTable EXCEPT ![p] = full] /\ acc' = Plus(acc, 0, 0) /\ UNCHANGED lastOut
        BY <2>2, <3>5, <1>8
      <4>2. acc' = acc
        <5>1. acc \in [sent : Nat, dropped : Nat]
          BY DEF SendInv, TypeOK
        <5>2. QED
          BY <5>1, <4>1 DEF Plus
      <4>3. Len(full) < rxBurstSize /\ Len(full) < MaxPktBurst
        BY <1>2, <3>3, <3>5
      <4>4. QED
        BY <3>1, <3>2, <4>1, <4>2, <4>3, <1>6, <1>7, Stored
    <3>6. QED
      BY <3>4, <3>5
  <2>3. QED
    BY <2>1, <2>2
<1>10. QED
  BY <1>1, <1>4, <1>5, <1>9, TakenInv DEF R

\* The statistics of the burst are added to those of the lcore.
LEMMA SendEndInv ==
  ASSUME SendInv, SendEnd
  PROVE  SendInv'
<1>1. /\ pc = "send" /\ burst = <<>> /\ pc' = "rx" /\ acc' = NoStats
      /\ stats' = [stats EXCEPT !.tx = @ + acc.sent, !.dropped = @ + acc.dropped]
      /\ UNCHANGED <<sendPath, rxBurstSize, txBurstSize, forceQuit, i, due, burst, single,
                     mTable, lastOut, nextPkt>>
  BY DEF SendEnd, options
<1>2. /\ Front' = Front /\ Front \in Nat \ {0} /\ acc.sent \in Nat /\ acc.dropped \in Nat
      /\ stats.rx \in Nat /\ stats.tx \in Nat /\ stats.dropped \in Nat /\ Waiting \in Nat
      /\ Len(burst) \in Nat
  BY <1>1, Numbers DEF Front
<1>3. (\A q \in Port : TableInv(q)') /\ TablesApart' /\ Waiting' = Waiting
  <2>1. Front' \in Int /\ Front <= Front'
    BY <1>2
  <2>2. QED
    BY <2>1, <1>1, TablesKeep
<1>4. /\ stats' \in [rx : Nat, tx : Nat, dropped : Nat]
      /\ stats'.rx = stats.rx /\ stats'.tx = stats.tx + acc.sent
      /\ stats'.dropped = stats.dropped + acc.dropped
  <2>1. stats \in [rx : Nat, tx : Nat, dropped : Nat]
    BY DEF SendInv, TypeOK
  <2>2. stats.tx + acc.sent \in Nat /\ stats.dropped + acc.dropped \in Nat
    BY <1>2
  <2>3. QED
    BY <2>1, <2>2, <1>1
<1>5. acc' \in [sent : Nat, dropped : Nat] /\ acc'.sent = 0 /\ acc'.dropped = 0
  BY <1>1 DEF NoStats
<1>6. StatsExact'
  <2> DEFINE t == stats.tx
             d == stats.dropped
             s == acc.sent
             e == acc.dropped
             w == Waiting
             l == Len(burst)
  <2>1. t \in Nat /\ d \in Nat /\ s \in Nat /\ e \in Nat /\ w \in Nat /\ l \in Nat
    BY <1>2
  <2>2. stats.rx = t + s + d + e + w + l
    BY DEF SendInv, StatsExact
  <2>3. /\ stats'.rx = stats.rx /\ stats'.tx = t + s /\ stats'.dropped = d + e
        /\ Waiting' = w /\ Len(burst') = l
    BY <1>1, <1>3, <1>4
  <2> HIDE DEF t, d, s, e, w, l
  <2>4. t + s + d + e + w + l = (t + s) + 0 + (d + e) + 0 + w + l
    BY <2>1
  <2>5. stats'.rx = stats'.tx + acc'.sent + stats'.dropped + acc'.dropped + Waiting' + Len(burst')
    BY <2>2, <2>3, <2>4, <1>5
  <2>6. QED
    BY <2>5 DEF StatsExact
<1>7. TypeOK'
  BY <1>1, <1>4, <1>5 DEF SendInv, TypeOK, NoHop
<1>8. BurstInv'
  BY <1>1, <1>2 DEF SendInv, BurstInv
<1>9. QED
  BY <1>3, <1>6, <1>7, <1>8 DEF SendInv

\* The packets of a burst are numbered on from those received before.
LEMMA RxPollInv ==
  ASSUME SendInv, RxPoll
  PROVE  SendInv'
<1> DEFINE R == [pkt : Packet, hop : Port \cup NoHop]
<1>1. PICK n \in 0 .. rxBurstSize :
        /\ nextPkt + n <= MaxRx + 1
        /\ \E hops \in [1 .. n -> Port \cup NoHop] :
             /\ burst' = [k \in 1 .. n |-> [pkt |-> nextPkt + k - 1, hop |-> hops[k]]]
             /\ single' = OneByOne(hops)
        /\ nextPkt' = nextPkt + n
        /\ stats' = [stats EXCEPT !.rx = @ + n]
        /\ pc' = IF n = 0 THEN "rx" ELSE "send"
  BY DEF RxPoll
<1>2. PICK hops \in [1 .. n -> Port \cup NoHop] :
        /\ burst' = [k \in 1 .. n |-> [pkt |-> nextPkt + k - 1, hop |-> hops[k]]]
        /\ single' = OneByOne(hops)
  BY <1>1
<1>3. /\ pc = "rx" /\ i' = i + 1
      /\ UNCHANGED <<sendPath, rxBurstSize, txBurstSize, forceQuit, due, mTable, lastOut, acc>>
  BY DEF RxPoll, options
<1>4. burst = <<>> /\ acc = NoStats /\ Len(burst) = 0
  BY <1>3 DEF SendInv, BurstInv
<1>5. /\ n \in Nat /\ n <= rxBurstSize /\ rxBurstSize \in Nat /\ nextPkt \in Nat
      /\ nextPkt = Front /\ Front \in Nat \ {0} /\ MaxRx \in Nat
  <2>1. rxBurstSize \in Nat /\ nextPkt \in Nat /\ Front \in Nat \ {0} /\ MaxRx \in Nat
        /\ nextPkt = Front + Len(burst)
    BY Numbers
  <2>2. QED
    BY <2>1, <1>1, <1>4
<1>6. /\ burst' \in Seq(R) /\ Len(burst') = n
      /\ \A k \in 1 .. n : burst'[k].pkt = nextPkt + k - 1
  <2>1. \A k \in 1 .. n : nextPkt + k - 1 \in Packet /\ hops[k] \in Port \cup NoHop
    BY <1>1, <1>2, <1>5 DEF Packet
  <2>2. \A k \in 1 .. n : [pkt |-> nextPkt + k - 1, hop |-> hops[k]] \in R
    BY <2>1
  <2> HIDE DEF R
  <2>3. QED
    BY <2>2, <1>2, <1>5
<1>7. single' \in BOOLEAN /\ (IF single' THEN sendPath # "multi" ELSE sendPath # "single")
  BY <1>2 DEF OneByOne
<1> HIDE DEF R
<1>8. Front' = Front
  <2>1. Front' = (nextPkt + n) - n
    BY <1>1, <1>6 DEF Front
  <2>2. QED
    BY <2>1, <1>5
<1>9. BurstInv'
  <2>1. Len(burst') <= rxBurstSize' /\ Front' > 0
    BY <1>3, <1>5, <1>6, <1>8
  <2>2. \A k \in 1 .. Len(burst') : burst'[k].pkt = Front' + k - 1
    BY <1>5, <1>6, <1>8
  <2>3. burst' # <<>> => n # 0
    BY <1>2
  <2>4. pc' # "send" => acc' = NoStats
    BY <1>3, <1>4
  <2>5. QED
    BY <2>1, <2>2, <2>3, <2>4, <1>1, <1>3, <1>7 DEF BurstInv
<1>10. (\A q \in Port : TableInv(q)') /\ TablesApart' /\ Waiting' = Waiting
  <2>1. Front' \in Int /\ Front <= Front'
    BY <1>5, <1>8
  <2>2. QED
    BY <2>1, <1>3, TablesKeep
<1>11. /\ stats' \in [rx : Nat, tx : Nat, dropped : Nat] /\ stats'.rx = stats.rx + n
       /\ stats'.tx = stats.tx /\ stats'.dropped = stats.dropped
  <2>1. stats \in [rx : Nat, tx : Nat, dropped : Nat]
    BY DEF SendInv, TypeOK
  <2>2. stats.rx + n \in Nat
    BY <2>1, <1>5
  <2>3. QED
    BY <2>1, <2>2, <1>1
<1>12. StatsExact'
  <2> DEFINE t == stats.tx
             d == stats.dropped
             s == acc.sent
             e == acc.dropped
             w == Waiting
  <2>1. t \in Nat /\ d \in Nat /\ s \in Nat /\ e \in Nat /\ w \in Nat
    BY Numbers
  <2>2. stats.rx = t + s + d + e + w + 0
    BY <1>4 DEF SendInv, StatsExact
  <2>3. /\ stats'.rx = stats.rx + n /\ stats'.tx = t /\ stats'.dropped = d
        /\ acc'.sent = s /\ acc'.dropped = e /\ Waiting' = w /\ Len(burst') = n
    BY <1>3, <1>6, <1>10, <1>11
  <2> HIDE DEF t, d, s, e, w
  <2>4. (t + s + d + e + w + 0) + n = t + s + d + e + w + n
    BY <2>1, <1>5
  <2>5. stats'.rx = stats'.tx + acc'.sent + stats'.dropped + acc'.dropped + Waiting' + Len(burst')
    BY <2>2, <2>3, <2>4
  <2>6. QED
    BY <2>5 DEF StatsExact
<1>13. TypeOK'
  <2>1. NoHop' = NoHop
    BY <1>3 DEF NoHop
  <2>2. burst' \in Seq([pkt : Packet, hop : Port \cup NoHop'])
    BY <2>1, <1>6 DEF R
  <2>3. i' \in Nat \ {0} /\ nextPkt' \in 1 .. MaxRx + 1 /\ pc' \in {"rx", "send"}
    BY <1>1, <1>3, <1>5, SMTT(30) DEF SendInv, TypeOK
  <2>4. QED
    BY <2>2, <2>3, <1>3, <1>7, <1>11 DEF SendInv, TypeOK
<1>14. QED
  BY <1>9, <1>10, <1>12, <1>13 DEF SendInv

-----------------------------------------------------------------------------
LEMMA InitInv ==
  ASSUME Init
  PROVE  SendInv
<1>1. /\ mTable = [p \in Port |-> <<>>] /\ lastOut = [p \in Port |-> 0]
      /\ burst = <<>> /\ nextPkt = 1 /\ acc = NoStats
      /\ stats = [rx |-> 0, tx |-> 0, dropped |-> 0] /\ pc = "top"
      /\ MaxRx \in Nat /\ MaxPktBurst \in Nat /\ MaxPktBurst > 1 /\ rxBurstSize \in 1 .. MaxPktBurst
  BY L3fwdTxAssumption DEF Init
<1>2. Len(<<>>) = 0 /\ <<>> \in Seq(Packet) /\ <<>> \in Seq([pkt : Packet, hop : Port \cup NoHop])
  OBVIOUS
<1>3. TypeOK
  <2>1. due \in BOOLEAN
    BY DEF Init
  <2>2. forceQuit \in BOOLEAN /\ single \in BOOLEAN
    BY DEF Init
  <2>3. mTable \in [Port -> {m \in Seq(Packet) : Len(m) < MaxPktBurst}]
    BY <1>1, <1>2
  <2>4. /\ lastOut \in [Port -> 0 .. MaxRx] /\ nextPkt \in 1 .. MaxRx + 1
        /\ burst \in Seq([pkt : Packet, hop : Port \cup NoHop])
    BY <1>1, <1>2
  <2>5. acc \in [sent : Nat, dropped : Nat] /\ stats \in [rx : Nat, tx : Nat, dropped : Nat]
    BY <1>1 DEF NoStats
  <2>6. /\ sendPath \in SendPaths /\ txBurstSize \in 1 .. MaxPktBurst
        /\ pc \in {"top", "drain", "rx", "send", "done"} /\ i \in Nat \ {0}
    BY DEF Init
  <2>7. QED
    BY <1>1, <2>1, <2>2, <2>3, <2>4, <2>5, <2>6 DEF TypeOK
<1>4. Front = 1
  BY <1>1 DEF Front
<1>5. BurstInv
  BY <1>1, <1>4 DEF BurstInv
<1>6. \A p \in Port : mTable[p] = <<>> /\ lastOut[p] = 0 /\ Len(mTable[p]) = 0
  BY <1>1
<1>7. (\A p \in Port : TableInv(p)) /\ TablesApart
  BY <1>1, <1>4, <1>6 DEF TableInv, TablesApart
<1>8. Waiting = 0
  <2>1. Occupied = {}
    BY <1>6 DEF Occupied
  <2>2. QED
    BY <2>1, FS_EmptySet DEF Waiting
<1>9. StatsExact
  <2>1. /\ stats.rx = 0 /\ stats.tx = 0 /\ stats.dropped = 0 /\ acc.sent = 0 /\ acc.dropped = 0
        /\ Len(burst) = 0
    BY <1>1 DEF NoStats
  <2>2. QED
    BY <2>1, <1>8 DEF StatsExact
<1>10. QED
  BY <1>3, <1>5, <1>7, <1>9 DEF SendInv

LEMMA NextInv ==
  ASSUME IInv, [Next]_vars
  PROVE  IInv'
<1>1. sendPath' = sendPath /\ rxBurstSize' = rxBurstSize
  BY DEF Next, Signal, TscPasses, LcoreStep, LoopTop, DrainPort, DrainEnd, RxPoll, RxEnd,
         SendGroup, SendSingle, SendEnd, Terminated, vars, options
<1> SUFFICES ASSUME SendInv, OneFullMark PROVE SendInv'
  BY <1>1 DEF IInv, OneFullMark
<1>2. /\ i \in Nat \ {0} /\ due \in BOOLEAN /\ forceQuit \in BOOLEAN
      /\ pc \in {"top", "drain", "rx", "send", "done"}
  BY DEF SendInv, TypeOK
<1>3. CASE Signal
  BY <1>2, <1>3, QuietInv DEF Signal
<1>4. CASE TscPasses
  BY <1>2, <1>4, QuietInv DEF TscPasses
<1>5. CASE LoopTop
  <2>1. /\ UNCHANGED <<options, burst, single, mTable, lastOut, nextPkt, acc, stats, forceQuit>>
        /\ pc = "top" /\ i' = 1 /\ pc' \in {"drain", "rx", "done"}
    BY <1>5 DEF LoopTop
  <2>2. due' \in BOOLEAN
    BY <1>2, <1>5 DEF LoopTop
  <2>3. QED
    BY <1>2, <2>1, <2>2, QuietInv
<1>6. CASE DrainPort
  BY <1>6, DrainPortInv
<1>7. CASE DrainEnd
  BY <1>2, <1>7, QuietInv DEF DrainEnd
<1>8. CASE RxPoll
  BY <1>8, RxPollInv
<1>9. CASE RxEnd
  BY <1>2, <1>9, QuietInv DEF RxEnd
<1>10. CASE SendGroup
  BY <1>10, SendGroupInv
<1>11. CASE SendSingle
  BY <1>11, SendSingleInv
<1>12. CASE SendEnd
  BY <1>12, SendEndInv
<1>13. CASE Terminated \/ UNCHANGED vars
  BY <1>2, <1>13, QuietInv DEF Terminated, vars, options
<1>14. QED
  BY <1>3, <1>4, <1>5, <1>6, <1>7, <1>8, <1>9, <1>10, <1>11, <1>12, <1>13 DEF Next, LcoreStep

\* The inductive invariant holds of every behaviour.
THEOREM Invariant == Spec => []IInv
<1>1. Init => IInv
  BY InitInv DEF IInv
<1>2. IInv /\ [Next]_vars => IInv'
  BY NextInv
<1>3. QED
  BY <1>1, <1>2, PTL DEF Spec

\* Neither send_packets_multi alone nor send_single_packet alone leaves an m_table full,
\* for any number of ports and queues and for every rx_burst_size and tx_burst_size; nor do
\* the two together if rx_burst_size is MAX_PKT_BURST.
THEOREM TypeCorrect == Spec => [](OneFullMark => TypeOK)
<1>1. IInv => (OneFullMark => TypeOK)
  BY DEF IInv, SendInv
<1>2. QED
  BY <1>1, Invariant, PTL

\* Nor is m_table written past its end: what acl_send_packets takes to overrun it is exactly
\* an rx_burst_size below MAX_PKT_BURST (and it is 32 of 512 by default).
THEOREM TablesNotOverrun == Spec => [](OneFullMark => StoredInTable)
<1>1. IInv => (OneFullMark => StoredInTable)
  <2> SUFFICES ASSUME SendInv, NEW p \in Port PROVE Len(mTable[p]) <= MaxPktBurst
    BY DEF IInv, StoredInTable
  <2>1. QED
    BY TableOf, Numbers, SMTT(30)
<1>2. QED
  BY <1>1, Invariant, PTL

\* lcore_stats balances at every step: what was received has been sent, has been counted as
\* dropped, or is still held by the lcore, whatever each rte_eth_tx_burst takes.
THEOREM StatsBalance == Spec => [](OneFullMark => StatsExact)
<1>1. IInv => (OneFullMark => StatsExact)
  BY DEF IInv, SendInv
<1>2. QED
  BY <1>1, Invariant, PTL

LEMMA OrderFromInv ==
  ASSUME SendInv
  PROVE  InOrder
<1>1. ASSUME burst # <<>> PROVE burst[1].pkt = Front
  <2>1. Len(burst) \in Nat \ {0} /\ Front \in Nat
    BY <1>1, Numbers, EmptySeq
  <2>2. 1 \in 1 .. Len(burst) /\ burst[1].pkt = Front + 1 - 1
    BY <2>1 DEF SendInv, BurstInv
  <2>3. QED
    BY <2>1, <2>2
<1>2. ASSUME NEW p \in Port, burst # <<>> PROVE lastOut[p] < burst[1].pkt
  BY <1>1, <1>2, TableOf
<1>3. ASSUME NEW p \in Port, NEW a \in 1 .. Len(mTable[p])
      PROVE  /\ lastOut[p] < mTable[p][a]
             /\ a > 1 => mTable[p][a - 1] < mTable[p][a]
             /\ burst # <<>> => mTable[p][a] < burst[1].pkt
             /\ \A q \in Port \ {p} : \A b \in 1 .. Len(mTable[q]) : mTable[p][a] # mTable[q][b]
  <2>1. lastOut[p] < mTable[p][a] /\ mTable[p][a] < Front /\ Len(mTable[p]) \in Nat
    BY TableOf
  <2>2. ASSUME a > 1 PROVE mTable[p][a - 1] < mTable[p][a]
    <3>1. a - 1 \in 1 .. Len(mTable[p]) /\ a - 1 < a
      BY <2>1, <2>2
    <3>2. QED
      BY <3>1, TableOf
  <2>3. \A q \in Port \ {p} : \A b \in 1 .. Len(mTable[q]) : mTable[p][a] # mTable[q][b]
    BY DEF SendInv, TablesApart
  <2>4. QED
    BY <2>1, <2>2, <2>3, <1>1
<1>4. QED
  BY <1>2, <1>3 DEF InOrder

\* The packets for a port leave it in the order the lcore received them, though some wait
\* in m_table and others are sent straightway, and none waits in two tables.
THEOREM PacketsInOrder == Spec => [](OneFullMark => InOrder)
<1>1. IInv => (OneFullMark => InOrder)
  BY OrderFromInv DEF IInv
<1>2. QED
  BY <1>1, Invariant, PTL

=============================================================================
