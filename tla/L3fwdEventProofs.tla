-------------------------- MODULE L3fwdEventProofs --------------------------
(***************************************************************************)
(* Proofs about L3fwdEvent for every number of lcores, event ports and     *)
(* packets: an event port has one lcore, nothing is used after main has    *)
(* closed it, and every packet that has a route is in one place.           *)
(***************************************************************************)
EXTENDS L3fwdEvent, FiniteSetTheorems, SequenceTheorems, TLAPS

Label == {"lock", "claim", "claimed", "loop", "enqueue", "cleanup", "done",
          "stopPorts", "wait", "closeDev", "exit"}

\* The variables l3fwd_get_free_event_port and main's shutdown work on.
ControlTypeOK ==
  /\ lock \in Lcore \cup {NoLcore}
  /\ index \in 0 .. NbPorts
  /\ eventPort \in [Lcore -> -1 .. NbPorts - 1]
  /\ pc \in [Lcore -> Label]
  /\ ethDevs \in {"started", "stopped", "closed"}
  /\ eventDev \in BOOLEAN

\* Only the holder of the lock is inside l3fwd_get_free_event_port; the ports below index
\* are given away, the one at index is being so, those above are free.
ClaimOK(l) ==
  /\ pc[l] \in {"claim", "claimed"} => lock = l
  /\ pc[l] \in {"lock", "claim"} => eventPort[l] = -1
  /\ pc[l] = "claimed" => eventPort[l] = index
  /\ pc[l] \in InLoop => eventPort[l] # -1
  /\ pc[l] # "claimed" => eventPort[l] < index

ClaimInv ==
  /\ \A l \in Lcore : ClaimOK(l)
  /\ \A l, m \in Lcore : l # m /\ eventPort[l] # -1 => eventPort[l] # eventPort[m]

\* Only the main lcore shuts down, and it closes when every lcore has returned.
ShutdownInv ==
  /\ \A l \in Worker : pc[l] \notin {"stopPorts", "wait", "closeDev", "exit"}
  /\ ethDevs = "closed" \/ ~eventDev => pc[Main] \in {"closeDev", "exit"}
  /\ pc[Main] \in {"closeDev", "exit"} => \A l \in Worker : pc[l] = "done"

IInv == ControlTypeOK /\ ClaimInv /\ ShutdownInv

-----------------------------------------------------------------------------
\* A step of lcore l in its loop: it moves to another label there, or to the cleanup and
\* back to its caller, and leaves the ports, the lock and the devices alone.
LEMMA LoopStepInv ==
  ASSUME IInv, NEW l \in Lcore,
         pc[l] \in InLoop,
         NEW x \in InLoop \cup {"done"},
         pc' = [pc EXCEPT ![l] = x] \/ pc' = pc,
         UNCHANGED <<claim, devices>>
  PROVE  IInv'
<1> USE DEF IInv, InLoop
<1>0. /\ UNCHANGED <<lock, index, eventPort, ethDevs, eventDev>>
      /\ \A m \in Lcore : pc'[m] = pc[m] \/ (m = l /\ pc'[m] = x)
  BY DEF claim, devices, ControlTypeOK
<1>1. ControlTypeOK'
  BY <1>0 DEF ControlTypeOK, Label
<1>2. ClaimInv'
  <2>1. \A m \in Lcore : ClaimOK(m)'
    <3> SUFFICES ASSUME NEW m \in Lcore PROVE ClaimOK(m)'
      OBVIOUS
    <3>1. ClaimOK(m)
      BY DEF ClaimInv
    <3>2. QED
      BY <3>1, <1>0 DEF ClaimOK
  <2>2. QED
    BY <2>1, <1>0 DEF ClaimInv
<1>3. ShutdownInv'
  BY <1>0, L3fwdEventAssumption DEF ShutdownInv, Worker
<1>4. QED
  BY <1>1, <1>2, <1>3

\* rte_spinlock_lock: nobody else is inside.
LEMMA LockInv ==
  ASSUME IInv, NEW l \in Lcore, Lock(l)
  PROVE  IInv'
<1> USE DEF IInv
<1>0. /\ pc[l] = "lock" /\ lock = NoLcore /\ lock' = l
      /\ pc' = [pc EXCEPT ![l] = "claim"]
      /\ UNCHANGED <<index, eventPort, ethDevs, eventDev>>
  BY DEF Lock, LockFree, Goto, devices
<1>1. ControlTypeOK'
  BY <1>0 DEF ControlTypeOK, Label
<1>2. ClaimInv'
  <2>1. ASSUME NEW m \in Lcore PROVE ClaimOK(m)'
    <3>1. ClaimOK(m) /\ m # NoLcore
      BY L3fwdEventAssumption DEF ClaimInv
    <3>2. CASE m = l
      BY <3>1, <3>2, <1>0 DEF ClaimOK, ControlTypeOK, InLoop
    <3>3. CASE m # l
      BY <3>1, <3>3, <1>0 DEF ClaimOK, ControlTypeOK
    <3>4. QED
      BY <3>2, <3>3
  <2>2. QED
    BY <2>1, <1>0 DEF ClaimInv
<1>3. ShutdownInv'
  BY <1>0, L3fwdEventAssumption DEF ShutdownInv, Worker, ControlTypeOK
<1>4. QED
  BY <1>1, <1>2, <1>3

\* The port at index is given to nobody else: every other lcore's is below it, and no other
\* lcore is between its claim and the increment.
LEMMA ClaimPortInv ==
  ASSUME IInv, NEW l \in Lcore, ClaimPort(l)
  PROVE  IInv'
<1> USE DEF IInv
<1>0. /\ pc[l] = "claim" /\ UNCHANGED <<lock, index, ethDevs, eventDev>>
      /\ \/ NoneLeft /\ pc' = [pc EXCEPT ![l] = "done"] /\ eventPort' = eventPort
         \/ /\ ~NoneLeft /\ pc' = [pc EXCEPT ![l] = "claimed"]
            /\ eventPort' = [eventPort EXCEPT ![l] = index]
  BY DEF ClaimPort, Goto, devices
<1>1. \A m \in Lcore : ClaimOK(m)
  BY DEF ClaimInv
<1>2. lock = l /\ eventPort[l] = -1 /\ \A m \in Lcore \ {l} : pc[m] \notin {"claim", "claimed"}
  BY <1>0, <1>1 DEF ClaimOK
<1>3. ShutdownInv'
  BY <1>0, L3fwdEventAssumption DEF ShutdownInv, Worker, ControlTypeOK
<1>4. CASE eventPort' = eventPort /\ pc' = [pc EXCEPT ![l] = "done"]
  <2>1. ControlTypeOK'
    BY <1>0, <1>4 DEF ControlTypeOK, Label
  <2>2. ASSUME NEW m \in Lcore PROVE ClaimOK(m)'
    <3>1. CASE m = l
      BY <3>1, <1>0, <1>1, <1>4 DEF ClaimOK, ControlTypeOK, InLoop
    <3>2. CASE m # l
      BY <3>2, <1>0, <1>1, <1>4 DEF ClaimOK, ControlTypeOK
    <3>3. QED
      BY <3>1, <3>2
  <2>3. QED
    BY <2>1, <2>2, <1>3, <1>4 DEF ClaimInv
<1>5. CASE /\ ~NoneLeft /\ pc' = [pc EXCEPT ![l] = "claimed"]
           /\ eventPort' = [eventPort EXCEPT ![l] = index]
  <2>1. index \in 0 .. NbPorts - 1
    BY <1>5, L3fwdEventAssumption DEF NoneLeft, ControlTypeOK
  <2>2. ControlTypeOK'
    BY <1>0, <1>5, <2>1 DEF ControlTypeOK, Label
  <2>3. ASSUME NEW m \in Lcore PROVE ClaimOK(m)'
    <3>1. CASE m = l
      BY <3>1, <1>0, <1>2, <1>5 DEF ClaimOK, ControlTypeOK, InLoop
    <3>2. CASE m # l
      BY <3>2, <1>0, <1>1, <1>5 DEF ClaimOK, ControlTypeOK
    <3>3. QED
      BY <3>1, <3>2
  <2>4. \A m \in Lcore \ {l} : eventPort[m] \in Int /\ eventPort[m] < index
    BY <1>1, <1>2 DEF ClaimOK, ControlTypeOK
  <2>5. ASSUME NEW m \in Lcore, NEW n \in Lcore, m # n, eventPort'[m] # -1
        PROVE  eventPort'[m] # eventPort'[n]
    <3>0. /\ eventPort'[l] = index
          /\ \A k \in Lcore \ {l} : eventPort'[k] = eventPort[k]
      BY <1>5 DEF ControlTypeOK
    <3>1. CASE m = l \/ n = l
      BY <3>1, <3>0, <2>1, <2>4, <2>5
    <3>2. CASE m # l /\ n # l
      BY <3>2, <3>0, <2>5 DEF ClaimInv
    <3>3. QED
      BY <3>1, <3>2
  <2>6. QED
    BY <2>2, <2>3, <2>5, <1>3 DEF ClaimInv
<1>6. QED
  BY <1>0, <1>4, <1>5

\* index++ and rte_spinlock_unlock.
LEMMA UnlockInv ==
  ASSUME IInv, NEW l \in Lcore, Unlock(l)
  PROVE  IInv'
<1> USE DEF IInv
<1>0. /\ pc[l] = "claimed" /\ index' = index + 1 /\ lock' = NoLcore
      /\ \E x \in {"loop", "done"} : pc' = [pc EXCEPT ![l] = x]
      /\ UNCHANGED <<eventPort, ethDevs, eventDev>>
  BY DEF Unlock, Entered, Goto, devices
<1>1. \A m \in Lcore : ClaimOK(m)
  BY DEF ClaimInv
<1>2. lock = l /\ eventPort[l] = index /\ \A m \in Lcore \ {l} : pc[m] \notin {"claim", "claimed"}
  BY <1>0, <1>1 DEF ClaimOK
<1>3. index \in 0 .. NbPorts - 1
  BY <1>2 DEF ControlTypeOK
<1>4. ControlTypeOK'
  BY <1>0, <1>3, L3fwdEventAssumption DEF ControlTypeOK, Label
<1>5. ClaimInv'
  <2>1. ASSUME NEW m \in Lcore PROVE ClaimOK(m)'
    <3>1. CASE m = l
      BY <3>1, <1>0, <1>2, <1>3 DEF ClaimOK, ControlTypeOK, InLoop
    <3>2. CASE m # l
      <4>1. eventPort[m] \in Int /\ eventPort[m] < index
        BY <3>2, <1>1, <1>2 DEF ClaimOK, ControlTypeOK
      <4>2. QED
        BY <3>2, <4>1, <1>0, <1>1, <1>2, <1>3 DEF ClaimOK, ControlTypeOK, InLoop
    <3>3. QED
      BY <3>1, <3>2
  <2>2. QED
    BY <2>1, <1>0 DEF ClaimInv
<1>6. ShutdownInv'
  BY <1>0, L3fwdEventAssumption DEF ShutdownInv, Worker, ControlTypeOK
<1>7. QED
  BY <1>4, <1>5, <1>6

\* The steps of an lcore.
LEMMA LcoreStepInv ==
  ASSUME IInv, NEW l \in Lcore, LcoreStep(l)
  PROVE  IInv'
<1>1. CASE Lock(l)
  BY <1>1, LockInv
<1>2. CASE ClaimPort(l)
  BY <1>2, ClaimPortInv
<1>3. CASE Unlock(l)
  BY <1>3, UnlockInv
<1>4. CASE Dequeue(l)
  <2>1. /\ pc[l] \in InLoop /\ UNCHANGED <<claim, devices>>
        /\ pc' = [pc EXCEPT ![l] = "enqueue"] \/ pc' = pc
    BY <1>4 DEF Dequeue, Goto, InLoop
  <2>2. QED
    BY <2>1, LoopStepInv DEF InLoop
<1>5. CASE Enqueue(l)
  <2>1. /\ pc[l] \in InLoop /\ UNCHANGED <<claim, devices>>
        /\ pc' = [pc EXCEPT ![l] = "loop"] \/ pc' = pc
    BY <1>5 DEF Enqueue, EnqueueUpTo, Goto, InLoop
  <2>2. QED
    BY <2>1, LoopStepInv DEF InLoop
<1>6. CASE LoopEnd(l)
  <2>1. /\ pc[l] \in InLoop /\ UNCHANGED <<claim, devices>>
        /\ pc' = [pc EXCEPT ![l] = "cleanup"]
    BY <1>6 DEF LoopEnd, Goto, InLoop
  <2>2. QED
    BY <2>1, LoopStepInv DEF InLoop
<1>7. CASE Cleanup(l)
  <2>1. /\ pc[l] \in InLoop /\ UNCHANGED <<claim, devices>>
        /\ pc' = [pc EXCEPT ![l] = "done"]
    BY <1>7 DEF Cleanup, Goto, InLoop
  <2>2. QED
    BY <2>1, LoopStepInv DEF InLoop
<1>8. QED
  BY <1>1, <1>2, <1>3, <1>4, <1>5, <1>6, <1>7 DEF LcoreStep

-----------------------------------------------------------------------------
\* A step of main's shutdown moves the main lcore on; closing waits for the workers.
LEMMA MainStepInv ==
  ASSUME IInv, MainStep
  PROVE  IInv'
<1> USE DEF IInv
<1>0. PICK x \in {"stopPorts", "wait", "closeDev", "exit"} :
        /\ pc' = [pc EXCEPT ![Main] = x]
        /\ pc[Main] \in {"done", "stopPorts", "wait", "closeDev"}
        /\ UNCHANGED <<lock, index, eventPort>>
        /\ ethDevs' \in {"started", "stopped", "closed"} /\ eventDev' \in BOOLEAN
        /\ x \in {"closeDev", "exit"} => \A l \in Worker : pc[l] = "done"
        /\ x \in {"stopPorts", "wait"} => ethDevs' # "closed" /\ eventDev'
  BY DEF MainStep, StopAdapters, StopPorts, ClosePorts, CloseEventDev, Goto, WaitedForAll,
         claim, ControlTypeOK, ShutdownInv
<1>1. Main \in Lcore /\ Worker = Lcore \ {Main}
  BY L3fwdEventAssumption DEF Worker
<1>2. ControlTypeOK'
  BY <1>0, <1>1 DEF ControlTypeOK, Label
<1>3. ClaimInv'
  <2>1. ASSUME NEW m \in Lcore PROVE ClaimOK(m)'
    <3>1. ClaimOK(m)
      BY DEF ClaimInv
    <3>2. QED
      BY <3>1, <1>0, <1>1 DEF ClaimOK, ControlTypeOK, InLoop
  <2>2. QED
    BY <2>1, <1>0 DEF ClaimInv
<1>4. ShutdownInv'
  BY <1>0, <1>1 DEF ShutdownInv, ControlTypeOK
<1>5. QED
  BY <1>2, <1>3, <1>4

\* The control state at the launch.
LEMMA InitInv == Init => IInv
  BY L3fwdEventAssumption
     DEF Init, IInv, ControlTypeOK, Label, ClaimInv, ClaimOK, ShutdownInv, Worker, InLoop

\* The invariant is inductive.
LEMMA NextInv == IInv /\ [Next]_vars => IInv'
<1> SUFFICES ASSUME IInv, [Next]_vars PROVE IInv'
  OBVIOUS
<1>1. CASE Signal \/ Receive \/ UNCHANGED vars
  <2>1. UNCHANGED <<lock, index, eventPort, pc, ethDevs, eventDev>>
    BY <1>1 DEF Signal, Receive, vars, claim, devices
  <2>2. QED
    BY <2>1 DEF IInv, ControlTypeOK, ClaimInv, ClaimOK, ShutdownInv
<1>2. CASE \E l \in Lcore : LcoreStep(l)
  BY <1>2, LcoreStepInv
<1>3. CASE MainStep
  BY <1>3, MainStepInv
<1>4. QED
  BY <1>1, <1>2, <1>3 DEF Next, Terminated

\* The control invariant holds throughout, for any number of lcores and event ports.
THEOREM Invariant == Spec => []IInv
  BY InitInv, NextInv, PTL DEF Spec

\* Two lcores never have the same event port from l3fwd_get_free_event_port, though they
\* count up one static index.
THEOREM PortsExclusive == Spec => []EventPortExclusive
<1>1. IInv => EventPortExclusive
  BY DEF IInv, ClaimInv, ClaimOK, EventPortExclusive
<1>2. QED
  BY <1>1, Invariant, PTL

\* main closes ports and the event device only when every lcore, itself included, has left
\* its event loop and cleaned up.
THEOREM NothingUsedClosed == Spec => []NoUseAfterClose
<1>1. IInv => NoUseAfterClose
  BY L3fwdEventAssumption
     DEF IInv, ControlTypeOK, ShutdownInv, NoUseAfterClose, InLoop, Worker
<1>2. QED
  BY <1>1, Invariant, PTL

-----------------------------------------------------------------------------
(* The packets.                                                            *)

In(p, s)    == \E k \in 1 .. Len(s) : s[k] = p
Distinct(s) == \A j, k \in 1 .. Len(s) : s[j] = s[k] => j = k

Holds(l, p) == In(p, Unsent(l))

\* A packet waits, is held by one lcore, was handed to TX once or freed once.
Waits(p) == In(p, queue) /\ (\A l \in Lcore : ~Holds(l, p)) /\ sent[p] = 0 /\ freed[p] = 0
Held(p)  == /\ ~In(p, queue) /\ sent[p] = 0 /\ freed[p] = 0
            /\ \E l \in Lcore : Holds(l, p) /\ \A m \in Lcore \ {l} : ~Holds(m, p)
Gone(p)  == /\ ~In(p, queue) /\ (\A l \in Lcore : ~Holds(l, p))
            /\ sent[p] + freed[p] = 1
Placed(p) == Waits(p) \/ Held(p) \/ Gone(p)

Arrived == {p \in Packet : p < nextPkt}

PacketTypeOK ==
  /\ mode \in LoopModes /\ unrouted \subseteq Packet /\ forceQuit \in BOOLEAN
  /\ events \in [Lcore -> Seq(Packet)]
  /\ nbEnq \in [Lcore -> 0 .. DeqDepth]
  /\ queue \in Seq(Packet)
  /\ nextPkt \in 1 .. MaxPkt + 1
  /\ sent \in [Packet -> Nat]
  /\ freed \in [Packet -> Nat]
  /\ adapters \in BOOLEAN

\* What an lcore has in events[].  It is at the top of its loop with nothing left to enqueue,
\* but for a packet it freed at once, unless the signal ended the retries.
BatchOK(l) ==
  /\ Len(events[l]) <= DeqDepth
  /\ Distinct(events[l])
  /\ \A p \in Packet : In(p, events[l]) => p \in Arrived /\ ~In(p, queue)
  /\ pc[l] \notin InLoop => events[l] = <<>>
  /\ pc[l] = "enqueue" => nbEnq[l] <= Len(events[l])
  /\ pc[l] = "loop" /\ ~forceQuit => \A p \in Packet : Holds(l, p) => FreedAtOnce(p)

PacketInv ==
  /\ PacketTypeOK
  /\ Distinct(queue)
  /\ \A p \in Packet : In(p, queue) => p \in Arrived
  /\ \A l \in Lcore : BatchOK(l)
  /\ \A p \in Packet \ Arrived : sent[p] = 0 /\ freed[p] = 0
  /\ \A p \in Arrived : FreedAtOnce(p) \/ Placed(p)

\* A stretch of a sequence of packets.
LEMMA Stretch ==
  ASSUME NEW s \in Seq(Packet), NEW a \in Nat \ {0}, NEW b \in 0 .. Len(s)
  PROVE  /\ SubSeq(s, a, b) \in Seq(Packet)
         /\ Len(SubSeq(s, a, b)) = IF a <= b THEN b - a + 1 ELSE 0
         /\ \A p : In(p, SubSeq(s, a, b)) <=> \E k \in a .. b : s[k] = p
         /\ Distinct(s) => Distinct(SubSeq(s, a, b))
<1> DEFINE t == SubSeq(s, a, b)
<1>0. a \in Int /\ b \in Int /\ Len(s) \in Nat /\ \A k \in a .. b : s[k] \in Packet
  OBVIOUS
<1>1. /\ t \in Seq(Packet)
      /\ Len(t) = IF a <= b THEN b - a + 1 ELSE 0
      /\ \A k \in 1 .. b - a + 1 : t[k] = s[a + k - 1]
  BY <1>0, SubSeqProperties
<1>2. \A k \in 1 .. Len(t) : t[k] = s[a + k - 1] /\ a + k - 1 \in a .. b /\ a + k - 1 \in 1 .. Len(s)
  BY <1>0, <1>1
<1>3. \A k \in a .. b : k - a + 1 \in 1 .. Len(t) /\ t[k - a + 1] = s[k]
  BY <1>0, <1>1
<1>4. ASSUME NEW p PROVE In(p, t) <=> \E k \in a .. b : s[k] = p
  BY <1>2, <1>3 DEF In
<1>5. ASSUME Distinct(s) PROVE Distinct(t)
  BY <1>2, <1>5, <1>0 DEF Distinct
<1> HIDE DEF t
<1>6. QED
  BY <1>1, <1>4, <1>5 DEF t

\* A sequence cut in two.
LEMMA Cut ==
  ASSUME NEW s \in Seq(Packet), Distinct(s), NEW a \in 0 .. Len(s), NEW n \in a .. Len(s)
  PROVE  LET got  == SubSeq(s, a + 1, n)
             rest == SubSeq(s, n + 1, Len(s))
         IN  /\ got \in Seq(Packet) /\ rest \in Seq(Packet) /\ Len(got) = n - a
             /\ Distinct(got) /\ Distinct(rest)
             /\ \A p : In(p, SubSeq(s, a + 1, Len(s))) <=> In(p, got) \/ In(p, rest)
             /\ \A p : ~(In(p, got) /\ In(p, rest))
             /\ \A p : In(p, got) \/ In(p, rest) => In(p, s)
<1> DEFINE got  == SubSeq(s, a + 1, n)
           rest == SubSeq(s, n + 1, Len(s))
           all  == SubSeq(s, a + 1, Len(s))
<1>0. /\ Len(s) \in Nat /\ a \in Nat /\ n \in Nat /\ a + 1 \in Nat \ {0} /\ n + 1 \in Nat \ {0}
      /\ n \in 0 .. Len(s) /\ Len(s) \in 0 .. Len(s)
  OBVIOUS
<1>1. /\ got \in Seq(Packet) /\ Distinct(got)
      /\ Len(got) = IF a + 1 <= n THEN n - (a + 1) + 1 ELSE 0
      /\ \A p : In(p, got) <=> \E k \in a + 1 .. n : s[k] = p
  BY <1>0, Stretch
<1>2. /\ rest \in Seq(Packet) /\ Distinct(rest)
      /\ \A p : In(p, rest) <=> \E k \in n + 1 .. Len(s) : s[k] = p
  BY <1>0, Stretch
<1>3. \A p : In(p, all) <=> \E k \in a + 1 .. Len(s) : s[k] = p
  BY <1>0, Stretch
<1> HIDE DEF got, rest, all
<1>4. Len(got) = n - a
  BY <1>0, <1>1
<1>5. ASSUME NEW p PROVE In(p, all) <=> In(p, got) \/ In(p, rest)
  BY <1>0, <1>1, <1>2, <1>3
<1>6. ASSUME NEW p, In(p, got), In(p, rest) PROVE FALSE
  <2>1. PICK j \in a + 1 .. n : s[j] = p
    BY <1>1, <1>6
  <2>2. PICK k \in n + 1 .. Len(s) : s[k] = p
    BY <1>2, <1>6
  <2>3. QED
    BY <2>1, <2>2, <1>0 DEF Distinct
<1>7. ASSUME NEW p, In(p, got) \/ In(p, rest) PROVE In(p, s)
  <2>1. \E k \in 1 .. Len(s) : s[k] = p
    BY <1>0, <1>1, <1>2, <1>7
  <2>2. QED
    BY <2>1 DEF In
<1>8. QED
  BY <1>1, <1>2, <1>4, <1>5, <1>6, <1>7 DEF got, rest, all

\* A packet occurs in a sequence of different packets once or not at all.
LEMMA OccursOnce ==
  ASSUME NEW s \in Seq(Packet), Distinct(s), NEW p
  PROVE  Occurrences(s, p) = IF In(p, s) THEN 1 ELSE 0
<1>1. CASE In(p, s)
  <2>1. PICK k \in 1 .. Len(s) : s[k] = p
    BY <1>1 DEF In
  <2>2. {j \in DOMAIN s : s[j] = p} = {k}
    BY <2>1 DEF Distinct
  <2>3. QED
    BY <2>2, <1>1, FS_Singleton DEF Occurrences
<1>2. CASE ~In(p, s)
  <2>1. {j \in DOMAIN s : s[j] = p} = {}
    BY <1>2 DEF In
  <2>2. QED
    BY <2>1, <1>2, FS_EmptySet DEF Occurrences
<1>3. QED
  BY <1>1, <1>2

LEMMA CountedOnce ==
  ASSUME NEW count \in [Packet -> Nat], NEW s \in Seq(Packet), Distinct(s)
  PROVE  /\ OnceMore(count, s) \in [Packet -> Nat]
         /\ \A p \in Packet :
              OnceMore(count, s)[p] = IF In(p, s) THEN count[p] + 1 ELSE count[p]
<1>1. \A p \in Packet : Cardinality({k \in DOMAIN s : s[k] = p}) = IF In(p, s) THEN 1 ELSE 0
  BY OccursOnce DEF Occurrences
<1>2. \A p \in Packet : count[p] + Cardinality({k \in DOMAIN s : s[k] = p}) =
                          IF In(p, s) THEN count[p] + 1 ELSE count[p]
  BY <1>1
<1>3. OnceMore(count, s) = [p \in Packet |-> IF In(p, s) THEN count[p] + 1 ELSE count[p]]
  BY <1>2 DEF OnceMore
<1>4. QED
  BY <1>3

\* What an lcore holds: the packets of its events[] from nb_enq on.
LEMMA HoldsWhat ==
  ASSUME NEW l \in Lcore, PacketTypeOK, Distinct(events[l])
  PROVE  /\ Unsent(l) \in Seq(Packet) /\ Distinct(Unsent(l))
         /\ \A p : Holds(l, p) <=> \E k \in nbEnq[l] + 1 .. Len(events[l]) : events[l][k] = p
         /\ \A p : Holds(l, p) => In(p, events[l])
<1>1. /\ events[l] \in Seq(Packet) /\ nbEnq[l] \in Nat /\ nbEnq[l] + 1 \in Nat \ {0}
      /\ Len(events[l]) \in 0 .. Len(events[l])
  BY DEF PacketTypeOK
<1>2. /\ Unsent(l) \in Seq(Packet) /\ Distinct(Unsent(l))
      /\ \A p : Holds(l, p) <=> \E k \in nbEnq[l] + 1 .. Len(events[l]) : events[l][k] = p
  BY <1>1, Stretch DEF Unsent, Holds
<1>3. QED
  BY <1>1, <1>2 DEF In

-----------------------------------------------------------------------------
(* The steps that move no packet.                                          *)
LEMMA PacketFrame ==
  ASSUME PacketInv, UNCHANGED <<choice, batch, packets>>,
         adapters' \in BOOLEAN, forceQuit' \in BOOLEAN, forceQuit => forceQuit',
         \A l \in Lcore :
           /\ pc'[l] \notin InLoop => pc[l] \notin InLoop
           /\ pc'[l] = "enqueue" => pc[l] = "enqueue"
           /\ pc'[l] = "loop" => pc[l] \notin {"enqueue", "cleanup"}
  PROVE  PacketInv'
<1> USE DEF PacketInv, choice, batch, packets
<1>1. /\ \A l \in Lcore : \A p : Holds(l, p)' = Holds(l, p)
      /\ \A p : FreedAtOnce(p)' = FreedAtOnce(p)
      /\ Arrived' = Arrived
  BY DEF Holds, Unsent, FreedAtOnce, Arrived
<1>2. PacketTypeOK'
  BY DEF PacketTypeOK
<1>3. ASSUME NEW l \in Lcore PROVE BatchOK(l)'
  <2>1. BatchOK(l)
    OBVIOUS
  <2>2. events[l] = <<>> => \A p : ~Holds(l, p)
    <3>1. Distinct(events[l]) /\ PacketTypeOK
      BY <2>1 DEF BatchOK
    <3>2. QED
      BY <3>1, HoldsWhat DEF In
  <2>3. pc'[l] = "loop" /\ ~forceQuit' => \A p \in Packet : Holds(l, p) => FreedAtOnce(p)
    BY <2>1, <2>2 DEF BatchOK, InLoop
  <2>4. QED
    BY <2>1, <2>3, <1>1 DEF BatchOK
<1>4. \A p \in Arrived : FreedAtOnce(p)' \/ Placed(p)'
  BY <1>1 DEF Placed, Waits, Held, Gone
<1>5. QED
  BY <1>1, <1>2, <1>3, <1>4

\* The RX adapter brings in a packet that is nowhere else.
LEMMA ReceiveInv ==
  ASSUME PacketInv, Receive
  PROVE  PacketInv'
<1> USE DEF PacketInv
<1>0. /\ nextPkt <= MaxPkt /\ nextPkt' = nextPkt + 1 /\ queue' = Append(queue, nextPkt)
      /\ UNCHANGED <<mode, unrouted, forceQuit, pc, events, nbEnq, sent, freed, adapters>>
      /\ queue \in Seq(Packet) /\ nextPkt \in Packet /\ nextPkt \notin Arrived
      /\ nextPkt \in Nat /\ MaxPkt \in Nat
  BY L3fwdEventAssumption DEF Receive, choice, batch, devices, PacketTypeOK, Packet, Arrived
<1>1. /\ queue' \in Seq(Packet) /\ Len(queue') = Len(queue) + 1 /\ Len(queue) \in Nat
      /\ \A k \in 1 .. Len(queue) : queue'[k] = queue[k]
      /\ queue'[Len(queue) + 1] = nextPkt
  BY <1>0, AppendProperties
<1>2. \A p : In(p, queue)' <=> In(p, queue) \/ p = nextPkt
  BY <1>1 DEF In
<1>3. Distinct(queue')
  <2>1. \A k \in 1 .. Len(queue) : queue[k] # nextPkt
    BY <1>0 DEF In
  <2>2. QED
    BY <2>1, <1>1 DEF Distinct
<1>4. Arrived' = Arrived \cup {nextPkt}
  BY <1>0 DEF Arrived, Packet
<1>5. /\ \A l \in Lcore : \A p : Holds(l, p)' = Holds(l, p)
      /\ \A p : FreedAtOnce(p)' = FreedAtOnce(p)
  BY <1>0 DEF Holds, Unsent, FreedAtOnce
<1>6. PacketTypeOK'
  BY <1>0, <1>1, SMTT(30) DEF PacketTypeOK, Packet
<1>7. \A l \in Lcore : ~In(nextPkt, events[l])
  BY <1>0 DEF BatchOK
<1>8. \A l \in Lcore : BatchOK(l)'
  BY <1>0, <1>2, <1>4, <1>5, <1>7 DEF BatchOK
<1>9. ASSUME NEW p \in Arrived' PROVE FreedAtOnce(p)' \/ Placed(p)'
  <2>1. CASE p = nextPkt
    <3>1. \A l \in Lcore : ~Holds(l, p)
      BY <2>1, <1>7, HoldsWhat DEF BatchOK
    <3>2. Waits(p)'
      BY <2>1, <3>1, <1>0, <1>2, <1>5 DEF Waits
    <3>3. QED
      BY <3>2 DEF Placed
  <2>2. CASE p # nextPkt
    BY <2>2, <1>0, <1>2, <1>4, <1>5, <1>9 DEF Placed, Waits, Held, Gone
  <2>3. QED
    BY <2>1, <2>2
<1>10. QED
  BY <1>0, <1>2, <1>3, <1>4, <1>6, <1>8, <1>9

\* The device gives an lcore the first n packets of its queue.
LEMMA CutQueue ==
  ASSUME PacketInv, NEW n \in 0 .. Len(queue)
  PROVE  LET got  == SubSeq(queue, 1, n)
             rest == SubSeq(queue, n + 1, Len(queue))
         IN  /\ got \in Seq(Packet) /\ rest \in Seq(Packet) /\ Len(got) = n
             /\ Distinct(got) /\ Distinct(rest)
             /\ \A p : In(p, queue) <=> In(p, got) \/ In(p, rest)
             /\ \A p : ~(In(p, got) /\ In(p, rest))
<1>0. queue \in Seq(Packet) /\ Distinct(queue) /\ Len(queue) \in Nat
  BY DEF PacketInv, PacketTypeOK
<1>1. 0 \in 0 .. Len(queue) /\ Len(queue) \in 0 .. Len(queue) /\ 1 \in Nat \ {0}
  BY <1>0
<1>2. \A p : In(p, SubSeq(queue, 1, Len(queue))) <=> In(p, queue)
  BY <1>0, <1>1, Stretch DEF In
<1>3. QED
  BY <1>0, <1>1, <1>2, Cut

LEMMA DequeueInv ==
  ASSUME IInv, PacketInv, NEW l \in Lcore, Dequeue(l)
  PROVE  PacketInv'
<1> USE DEF PacketInv
<1>1. PICK n \in 0 .. Depth :
        /\ n <= Len(queue)
        /\ LET got == SubSeq(queue, 1, n)
               bad == n > 0 /\ FreedAtOnce(queue[1])
           IN  /\ events' = [events EXCEPT ![l] = got]
               /\ queue' = SubSeq(queue, n + 1, Len(queue))
               /\ IF n = 0 \/ bad
                  THEN UNCHANGED <<pc, nbEnq>>
                  ELSE Goto(l, "enqueue") /\ nbEnq' = [nbEnq EXCEPT ![l] = 0]
               /\ freed' = IF bad THEN OnceMore(freed, got) ELSE freed
  BY DEF Dequeue
<1> DEFINE got == SubSeq(queue, 1, n)
           bad == n > 0 /\ FreedAtOnce(queue[1])
<1>2. /\ pc[l] = "loop" /\ ~forceQuit
      /\ UNCHANGED <<mode, unrouted, forceQuit, nextPkt, sent, adapters>>
  BY DEF Dequeue, choice, devices
<1>3. Depth \in Nat /\ Depth <= DeqDepth /\ (mode = "single" => Depth = 1) /\ DeqDepth \in Nat
  BY L3fwdEventAssumption DEF Depth
<1>4. n \in 0 .. Len(queue) /\ n <= DeqDepth /\ (mode = "single" => n <= 1)
  BY <1>1, <1>3 DEF PacketTypeOK
<1>5. /\ got \in Seq(Packet) /\ queue' \in Seq(Packet) /\ Len(got) = n
      /\ Distinct(got) /\ Distinct(queue')
      /\ \A p : In(p, queue) <=> In(p, got) \/ In(p, queue')
      /\ \A p : ~(In(p, got) /\ In(p, queue'))
  BY <1>1, <1>4, CutQueue
<1>6. \A p : bad /\ In(p, got) => FreedAtOnce(p)
  <2>1. ASSUME bad, NEW p, In(p, got) PROVE p = queue[1]
    <3>1. n = 1
      BY <2>1, <1>4 DEF FreedAtOnce
    <3>2. In(p, got) <=> \E k \in 1 .. n : queue[k] = p
      BY <1>4, Stretch DEF PacketTypeOK
    <3>3. QED
      BY <2>1, <3>1, <3>2
  <2>2. QED
    BY <2>1
<1>7. \A p : n = 0 => ~In(p, got)
  BY <1>5 DEF In
<1>8. freed' \in [Packet -> Nat] /\ \A p \in Packet : freed'[p] = freed[p] \/ (bad /\ In(p, got))
  <2>1. CASE bad
    BY <2>1, <1>1, <1>5, CountedOnce DEF PacketTypeOK
  <2>2. CASE ~bad
    BY <2>2, <1>1 DEF PacketTypeOK
  <2>3. QED
    BY <2>1, <2>2
<1>9. /\ events'[l] = got
      /\ \A m \in Lcore \ {l} : events'[m] = events[m] /\ nbEnq'[m] = nbEnq[m] /\ pc'[m] = pc[m]
      /\ n = 0 \/ bad => nbEnq' = nbEnq /\ pc' = pc
      /\ ~(n = 0 \/ bad) => nbEnq'[l] = 0 /\ pc'[l] = "enqueue"
  BY <1>1, <1>2 DEF Goto, PacketTypeOK, IInv, ControlTypeOK
<1>10. events' \in [Lcore -> Seq(Packet)] /\ nbEnq' \in [Lcore -> 0 .. DeqDepth]
  <2>1. events' = [events EXCEPT ![l] = got]
    BY <1>1
  <2>2. nbEnq' = nbEnq \/ nbEnq' = [nbEnq EXCEPT ![l] = 0]
    BY <1>1
  <2>3. 0 \in 0 .. DeqDepth
    BY <1>3
  <2> HIDE DEF got
  <2>4. QED
    BY <2>1, <2>2, <2>3, <1>5 DEF PacketTypeOK
<1>11. PacketTypeOK'
  BY <1>2, <1>5, <1>8, <1>10 DEF PacketTypeOK
<1> HIDE DEF got, bad
<1>12. /\ \A m \in Lcore \ {l} : \A p : Holds(m, p)' = Holds(m, p)
       /\ \A p : Holds(l, p)' => In(p, got)
       /\ \A p : ~(n = 0 \/ bad) => (Holds(l, p)' <=> In(p, got))
  <2>1. \A m \in Lcore \ {l} : \A p : Holds(m, p)' = Holds(m, p)
    BY <1>9 DEF Holds, Unsent
  <2>2. /\ nbEnq'[l] + 1 \in Nat \ {0} /\ Len(got) \in 0 .. Len(got)
        /\ Unsent(l)' = SubSeq(got, nbEnq'[l] + 1, Len(got))
    BY <1>5, <1>9, <1>10, SMTT(30) DEF Unsent
  <2>3. \A p : Holds(l, p)' <=> \E k \in nbEnq'[l] + 1 .. Len(got) : got[k] = p
    BY <2>2, <1>5, Stretch DEF Holds
  <2>4. nbEnq'[l] \in Nat
    BY <1>10
  <2>5. QED
    BY <2>1, <2>3, <2>4, <1>9 DEF In
<1>13. Arrived' = Arrived
       /\ \A p : FreedAtOnce(p)' = FreedAtOnce(p)
  BY <1>2 DEF FreedAtOnce, Arrived
<1>14. ASSUME NEW m \in Lcore PROVE BatchOK(m)'
  <2>1. BatchOK(m)
    OBVIOUS
  <2>2. CASE m = l
    <3>1. \A p \in Packet : In(p, got) => p \in Arrived /\ ~In(p, queue)'
      BY <1>5
    <3>2. pc'[l] = "loop" => \A p \in Packet : Holds(l, p)' => FreedAtOnce(p)
      BY <1>6, <1>7, <1>9, <1>12
    <3>3. pc'[l] \in {"loop", "enqueue"} /\ (pc'[l] = "enqueue" => nbEnq'[l] = 0)
      BY <1>2, <1>9
    <3>4. QED
      BY <2>2, <3>1, <3>2, <3>3, <1>4, <1>5, <1>9, <1>13 DEF BatchOK, InLoop
  <2>3. CASE m # l
    BY <2>1, <2>3, <1>2, <1>5, <1>9, <1>12, <1>13 DEF BatchOK
  <2>4. QED
    BY <2>2, <2>3
<1>15. ASSUME NEW p \in Arrived PROVE FreedAtOnce(p) \/ Placed(p)'
  <2> SUFFICES ASSUME ~FreedAtOnce(p) PROVE Placed(p)'
    OBVIOUS
  <2>0. /\ Placed(p) /\ p \in Packet /\ ~Holds(l, p)
        /\ freed'[p] = freed[p] /\ sent'[p] = sent[p]
    BY <1>2, <1>6, <1>8 DEF BatchOK, Arrived
  <2>1. CASE In(p, got)
    <3>1. Waits(p) /\ Holds(l, p)'
      BY <2>0, <2>1, <1>5, <1>6, <1>7, <1>12 DEF Placed, Held, Gone
    <3>2. Held(p)'
      BY <2>0, <2>1, <3>1, <1>5, <1>12 DEF Waits, Held
    <3>3. QED
      BY <3>2 DEF Placed
  <2>2. CASE ~In(p, got)
    <3>1. (In(p, queue)' <=> In(p, queue)) /\ \A m \in Lcore : Holds(m, p)' <=> Holds(m, p)
      BY <2>0, <2>2, <1>5, <1>12
    <3>2. QED
      BY <2>0, <3>1 DEF Placed, Waits, Held, Gone
  <2>3. QED
    BY <2>1, <2>2
<1>16. /\ \A p \in Packet : In(p, queue)' => p \in Arrived'
       /\ \A p \in Packet \ Arrived' : sent'[p] = 0 /\ freed'[p] = 0
  BY <1>2, <1>5, <1>8, <1>13
<1>17. QED
  BY <1>5, <1>11, <1>13, <1>14, <1>15, <1>16

\* n packets of the batch of lcore l have been handed to TX.
LEMMA EnqueueInv ==
  ASSUME IInv, PacketInv, NEW l \in Lcore, Enqueue(l)
  PROVE  PacketInv'
<1> USE DEF PacketInv
<1>1. PICK n \in nbEnq[l] .. Len(events[l]) : EnqueueUpTo(l, n)
  BY DEF Enqueue
<1> DEFINE taken == SubSeq(events[l], nbEnq[l] + 1, n)
           rest  == SubSeq(events[l], n + 1, Len(events[l]))
<1>2. /\ pc[l] = "enqueue" /\ nbEnq' = [nbEnq EXCEPT ![l] = n] /\ sent' = OnceMore(sent, taken)
      /\ \/ pc' = pc
         \/ pc' = [pc EXCEPT ![l] = "loop"] /\ (n >= Len(events[l]) \/ forceQuit)
      /\ UNCHANGED <<mode, unrouted, forceQuit, events, queue, nextPkt, freed, adapters>>
      /\ n \in Int /\ Len(events[l]) \in Nat
  <2>1. nbEnq[l] \in Nat /\ Len(events[l]) \in Nat
    BY DEF PacketTypeOK
  <2>2. QED
    BY <2>1, <1>1 DEF EnqueueUpTo, EnqueueAgain, Goto, choice, devices
<1>3. BatchOK(l)
  OBVIOUS
<1>4. /\ events[l] \in Seq(Packet) /\ Distinct(events[l]) /\ Len(events[l]) <= DeqDepth
      /\ nbEnq[l] \in 0 .. Len(events[l]) /\ n \in Nat /\ n <= DeqDepth /\ DeqDepth \in Nat
  BY <1>2, <1>3, L3fwdEventAssumption DEF BatchOK, PacketTypeOK
<1>5. /\ taken \in Seq(Packet) /\ Distinct(taken)
      /\ \A p : Holds(l, p) <=> In(p, taken) \/ In(p, rest)
      /\ \A p : ~(In(p, taken) /\ In(p, rest))
      /\ \A p : In(p, taken) \/ In(p, rest) => In(p, events[l])
  BY <1>4, Cut DEF Holds, Unsent
<1>6. Len(rest) = Len(events[l]) - n
  <2>1. n + 1 \in Int /\ Len(events[l]) \in Int /\ \A i \in n + 1 .. Len(events[l]) : events[l][i] \in Packet
    BY <1>2, <1>4
  <2>2. QED
    BY <2>1, <1>2, <1>4, SubSeqProperties
<1>7. sent' \in [Packet -> Nat]
      /\ \A p \in Packet : sent'[p] = IF In(p, taken) THEN sent[p] + 1 ELSE sent[p]
  <2>1. sent \in [Packet -> Nat]
    BY DEF PacketTypeOK
  <2> HIDE DEF taken
  <2>2. QED
    BY <2>1, <1>2, <1>5, CountedOnce
<1>8. /\ nbEnq' \in [Lcore -> 0 .. DeqDepth] /\ nbEnq'[l] = n
      /\ \A m \in Lcore \ {l} : nbEnq'[m] = nbEnq[m] /\ pc'[m] = pc[m]
      /\ pc'[l] = "enqueue" \/ (pc'[l] = "loop" /\ (n = Len(events[l]) \/ forceQuit))
  BY <1>2, <1>4, SMTT(30) DEF PacketTypeOK, IInv, ControlTypeOK
<1>9. /\ \A m \in Lcore \ {l} : \A p : Holds(m, p)' = Holds(m, p)
      /\ \A p : Holds(l, p)' <=> In(p, rest)
  BY <1>2, <1>8 DEF Holds, Unsent
<1> HIDE DEF taken, rest
<1>10. Arrived' = Arrived /\ \A p : FreedAtOnce(p)' = FreedAtOnce(p)
  BY <1>2 DEF FreedAtOnce, Arrived
<1>11. PacketTypeOK'
  BY <1>2, <1>7, <1>8 DEF PacketTypeOK
<1>12. ASSUME NEW m \in Lcore PROVE BatchOK(m)'
  <2>1. BatchOK(m)
    OBVIOUS
  <2>2. CASE m = l
    <3>0. n = Len(events[l]) => \A p : ~In(p, rest)
      BY <1>6, <1>2 DEF In
    <3>1. n = Len(events[l]) => \A p : ~Holds(l, p)'
      BY <3>0, <1>9
    <3>2. QED
      BY <2>1, <2>2, <3>1, <1>2, <1>4, <1>8, <1>10 DEF BatchOK, InLoop
  <2>3. CASE m # l
    BY <2>1, <2>3, <1>2, <1>8, <1>9, <1>10 DEF BatchOK
  <2>4. QED
    BY <2>2, <2>3
<1>13. ASSUME NEW p \in Arrived PROVE FreedAtOnce(p) \/ Placed(p)'
  <2> SUFFICES ASSUME ~FreedAtOnce(p) PROVE Placed(p)'
    OBVIOUS
  <2>0. /\ Placed(p) /\ p \in Packet /\ sent[p] \in Nat /\ freed'[p] = freed[p]
        /\ In(p, queue)' = In(p, queue)
    BY <1>2 DEF Arrived, PacketTypeOK
  <2>1. CASE In(p, taken)
    <3>1. Held(p) /\ \A m \in Lcore \ {l} : ~Holds(m, p)
      BY <2>0, <2>1, <1>5 DEF Placed, Waits, Held, Gone
    <3>2. Gone(p)'
      BY <2>0, <2>1, <3>1, <1>5, <1>7, <1>9 DEF Held, Gone
    <3>3. QED
      BY <3>2 DEF Placed
  <2>2. CASE ~In(p, taken)
    <3>1. sent'[p] = sent[p] /\ \A m \in Lcore : Holds(m, p)' <=> Holds(m, p)
      BY <2>0, <2>2, <1>5, <1>7, <1>9
    <3>2. QED
      BY <2>0, <3>1 DEF Placed, Waits, Held, Gone
  <2>3. QED
    BY <2>1, <2>2
<1>14. \A p \in Packet \ Arrived : sent'[p] = 0 /\ freed'[p] = 0
  BY <1>2, <1>3, <1>5, <1>7 DEF BatchOK
<1>15. QED
  BY <1>2, <1>10, <1>11, <1>12, <1>13, <1>14

\* l3fwd_event_worker_cleanup of lcore l, and the flush of the n packets scheduled to it.
LEMMA CleanupInv ==
  ASSUME IInv, PacketInv, NEW l \in Lcore, Cleanup(l)
  PROVE  PacketInv'
<1> USE DEF PacketInv
<1>1. PICK n \in 0 .. Len(queue) :
        /\ freed' = OnceMore(freed, Unsent(l) \o SubSeq(queue, 1, n))
        /\ queue' = SubSeq(queue, n + 1, Len(queue))
  BY DEF Cleanup
<1> DEFINE got == SubSeq(queue, 1, n)
           all == Unsent(l) \o got
<1>2. /\ pc[l] = "cleanup" /\ pc' = [pc EXCEPT ![l] = "done"]
      /\ events' = [events EXCEPT ![l] = <<>>] /\ nbEnq' = [nbEnq EXCEPT ![l] = 0]
      /\ UNCHANGED <<mode, unrouted, forceQuit, nextPkt, sent, adapters>>
  BY DEF Cleanup, Goto, choice, devices
<1>3. /\ got \in Seq(Packet) /\ queue' \in Seq(Packet)
      /\ Distinct(got) /\ Distinct(queue')
      /\ \A p : In(p, queue) <=> In(p, got) \/ In(p, queue')
      /\ \A p : ~(In(p, got) /\ In(p, queue'))
  BY <1>1, CutQueue
<1>4. /\ Unsent(l) \in Seq(Packet) /\ Distinct(Unsent(l))
      /\ \A p : Holds(l, p) => In(p, events[l])
  BY HoldsWhat DEF BatchOK
<1> HIDE DEF got
<1>5. /\ \A p \in Packet : ~(Holds(l, p) /\ In(p, got))
      /\ \A p : Holds(l, p) => p \in Packet
      /\ \A p : Holds(l, p) \/ In(p, got) => p \in Arrived
  <2>1. \A p : Holds(l, p) \/ In(p, got) => p \in Packet
    BY <1>3, <1>4 DEF Holds, In
  <2>2. QED
    BY <2>1, <1>3, <1>4 DEF BatchOK
<1>6. all \in Seq(Packet) /\ Distinct(all) /\ \A p : In(p, all) <=> Holds(l, p) \/ In(p, got)
  <2> DEFINE u == Unsent(l)
  <2>0. Len(u) \in Nat /\ Len(got) \in Nat /\ u \in Seq(Packet)
    BY <1>3, <1>4
  <2> HIDE DEF u
  <2>1. /\ u \o got \in Seq(Packet) /\ Len(u \o got) = Len(u) + Len(got)
        /\ \A k \in 1 .. Len(u) + Len(got) :
             (u \o got)[k] = IF k <= Len(u) THEN u[k] ELSE got[k - Len(u)]
    BY <2>0, <1>3, ConcatProperties
  <2>2. \A p : In(p, u \o got) <=> In(p, u) \/ In(p, got)
    <3>1. ASSUME NEW p, In(p, u \o got) PROVE In(p, u) \/ In(p, got)
      <4>1. PICK k \in 1 .. Len(u) + Len(got) : (u \o got)[k] = p
        BY <3>1, <2>1 DEF In
      <4>2. CASE k <= Len(u)
        BY <4>1, <4>2, <2>0, <2>1 DEF In
      <4>3. CASE ~(k <= Len(u))
        <5>1. k - Len(u) \in 1 .. Len(got) /\ got[k - Len(u)] = p
          BY <4>1, <4>3, <2>0, <2>1
        <5>2. QED
          BY <5>1 DEF In
      <4>4. QED
        BY <4>2, <4>3
    <3>2. ASSUME NEW p, NEW k \in 1 .. Len(u), u[k] = p PROVE In(p, u \o got)
      <4>1. k \in 1 .. Len(u \o got) /\ (u \o got)[k] = p
        BY <3>2, <2>0, <2>1
      <4>2. QED
        BY <4>1 DEF In
    <3>3. ASSUME NEW p, NEW k \in 1 .. Len(got), got[k] = p PROVE In(p, u \o got)
      <4>1. /\ Len(u) + k \in 1 .. Len(u \o got) /\ ~(Len(u) + k <= Len(u))
            /\ Len(u) + k - Len(u) = k
        BY <3>3, <2>0, <2>1
      <4>2. (u \o got)[Len(u) + k] = p
        BY <4>1, <3>3, <2>1
      <4>3. QED
        BY <4>1, <4>2 DEF In
    <3>4. QED
      BY <3>1, <3>2, <3>3 DEF In
  <2>3. Distinct(u) /\ Distinct(got) /\ \A p \in Packet : ~(In(p, u) /\ In(p, got))
    BY <1>3, <1>4, <1>5 DEF u, Holds
  <2>4. Distinct(u \o got)
    <3> SUFFICES ASSUME NEW j \in 1 .. Len(u) + Len(got), NEW k \in 1 .. Len(u) + Len(got),
                        (u \o got)[j] = (u \o got)[k]
                 PROVE  j = k
      BY <2>1 DEF Distinct
    <3>1. CASE j <= Len(u) /\ k <= Len(u)
      BY <3>1, <2>0, <2>1, <2>3 DEF Distinct
    <3>2. CASE j > Len(u) /\ k > Len(u)
      <4>1. /\ j - Len(u) \in 1 .. Len(got) /\ k - Len(u) \in 1 .. Len(got)
            /\ got[j - Len(u)] = got[k - Len(u)]
        BY <3>2, <2>0, <2>1
      <4>2. j - Len(u) = k - Len(u)
        BY <4>1, <2>3 DEF Distinct
      <4>3. QED
        BY <4>2, <2>0
    <3>3. CASE j <= Len(u) /\ k > Len(u)
      <4>1. /\ j \in 1 .. Len(u) /\ k - Len(u) \in 1 .. Len(got)
            /\ u[j] = got[k - Len(u)] /\ u[j] \in Packet
        BY <3>3, <2>0, <2>1
      <4>2. QED
        BY <4>1, <2>3 DEF In
    <3>4. CASE j > Len(u) /\ k <= Len(u)
      <4>1. /\ k \in 1 .. Len(u) /\ j - Len(u) \in 1 .. Len(got)
            /\ u[k] = got[j - Len(u)] /\ u[k] \in Packet
        BY <3>4, <2>0, <2>1
      <4>2. QED
        BY <4>1, <2>3 DEF In
    <3>5. QED
      BY <3>1, <3>2, <3>3, <3>4, <2>0
  <2>5. QED
    BY <2>1, <2>2, <2>4 DEF u, Holds
<1>7. freed' = OnceMore(freed, all)
  BY <1>1 DEF got
<1> HIDE DEF all
<1>8. freed' \in [Packet -> Nat]
      /\ \A p \in Packet : freed'[p] = IF Holds(l, p) \/ In(p, got) THEN freed[p] + 1 ELSE freed[p]
  <2>1. freed \in [Packet -> Nat]
    BY DEF PacketTypeOK
  <2>2. QED
    BY <2>1, <1>6, <1>7, CountedOnce
<1>9. /\ events'[l] = <<>> /\ events' \in [Lcore -> Seq(Packet)]
      /\ nbEnq'[l] = 0 /\ nbEnq' \in [Lcore -> 0 .. DeqDepth] /\ pc'[l] = "done"
      /\ \A m \in Lcore \ {l} : events'[m] = events[m] /\ nbEnq'[m] = nbEnq[m] /\ pc'[m] = pc[m]
  BY <1>2, L3fwdEventAssumption DEF PacketTypeOK, IInv, ControlTypeOK
<1>10. /\ \A m \in Lcore \ {l} : \A p : Holds(m, p)' <=> Holds(m, p)
       /\ \A p : ~Holds(l, p)'
  <2>1. \A m \in Lcore \ {l} : \A p : Holds(m, p)' <=> Holds(m, p)
    BY <1>9 DEF Holds, Unsent
  <2>2. Unsent(l)' = SubSeq(<<>>, 1, 0)
    BY <1>9 DEF Unsent
  <2>3. Len(SubSeq(<<>>, 1, 0)) = 0
    BY SubSeqEmpty
  <2>4. \A p : ~Holds(l, p)'
    BY <2>2, <2>3 DEF Holds, In
  <2>5. QED
    BY <2>1, <2>4
<1>11. Arrived' = Arrived /\ \A p : FreedAtOnce(p)' = FreedAtOnce(p)
  BY <1>2 DEF FreedAtOnce, Arrived
<1>12. PacketTypeOK'
  BY <1>2, <1>3, <1>8, <1>9 DEF PacketTypeOK
<1>13. ASSUME NEW m \in Lcore PROVE BatchOK(m)'
  <2>1. BatchOK(m)
    OBVIOUS
  <2>2. CASE m = l
    <3>1. \A p : ~In(p, <<>>)
      BY DEF In
    <3>2. Len(<<>>) = 0 /\ Distinct(<<>>) /\ 0 <= DeqDepth
      BY L3fwdEventAssumption DEF Distinct
    <3>3. QED
      BY <2>2, <3>1, <3>2, <1>9, <1>10 DEF BatchOK, InLoop
  <2>3. CASE m # l
    BY <2>1, <2>3, <1>2, <1>3, <1>9, <1>10, <1>11 DEF BatchOK
  <2>4. QED
    BY <2>2, <2>3
<1>14. ASSUME NEW p \in Arrived PROVE FreedAtOnce(p) \/ Placed(p)'
  <2> SUFFICES ASSUME ~FreedAtOnce(p) PROVE Placed(p)'
    OBVIOUS
  <2>0. /\ Placed(p) /\ p \in Packet /\ freed[p] \in Nat /\ sent'[p] = sent[p]
    BY <1>2 DEF Arrived, PacketTypeOK
  <2>1. CASE Holds(l, p)
    <3>1. Held(p) /\ \A m \in Lcore \ {l} : ~Holds(m, p)
      BY <2>0, <2>1 DEF Placed, Waits, Held, Gone
    <3>2. Gone(p)'
      BY <2>0, <2>1, <3>1, <1>3, <1>8, <1>10 DEF Held, Gone
    <3>3. QED
      BY <3>2 DEF Placed
  <2>2. CASE In(p, got)
    <3>1. Waits(p) /\ ~Holds(l, p)
      BY <2>0, <2>2, <1>3, <1>5 DEF Placed, Held, Gone
    <3>2. Gone(p)'
      BY <2>0, <2>2, <3>1, <1>3, <1>8, <1>10, SMTT(30) DEF Waits, Gone
    <3>3. QED
      BY <3>2 DEF Placed
  <2>3. CASE ~Holds(l, p) /\ ~In(p, got)
    <3>1. /\ freed'[p] = freed[p] /\ (In(p, queue)' <=> In(p, queue))
          /\ \A m \in Lcore : Holds(m, p)' <=> Holds(m, p)
      BY <2>0, <2>3, <1>3, <1>8, <1>10
    <3>2. QED
      BY <2>0, <3>1 DEF Placed, Waits, Held, Gone
  <2>4. QED
    BY <2>1, <2>2, <2>3
<1>15. /\ \A p \in Packet \ Arrived : sent'[p] = 0 /\ freed'[p] = 0
       /\ \A p \in Packet : In(p, queue)' => p \in Arrived
  BY <1>2, <1>3, <1>5, <1>8
<1>16. QED
  BY <1>3, <1>11, <1>12, <1>13, <1>14, <1>15

-----------------------------------------------------------------------------
LEMMA PacketInit == Init => PacketInv
<1> SUFFICES ASSUME Init PROVE PacketInv
  OBVIOUS
<1> USE L3fwdEventAssumption DEF Init
<1>1. PacketTypeOK
  <2>0. forceQuit \in BOOLEAN /\ adapters \in BOOLEAN
    BY Zenon
  <2>1. mode \in LoopModes /\ unrouted \subseteq Packet /\ queue \in Seq(Packet)
    OBVIOUS
  <2>2. events \in [Lcore -> Seq(Packet)] /\ nbEnq \in [Lcore -> 0 .. DeqDepth]
    OBVIOUS
  <2>3. nextPkt \in 1 .. MaxPkt + 1 /\ sent \in [Packet -> Nat] /\ freed \in [Packet -> Nat]
    OBVIOUS
  <2>4. QED
    BY <2>0, <2>1, <2>2, <2>3 DEF PacketTypeOK
<1>2. /\ Distinct(<<>>) /\ \A p : ~In(p, <<>>)
      /\ Arrived = {}
  BY DEF Distinct, In, Arrived, Packet
<1>3. ASSUME NEW l \in Lcore PROVE BatchOK(l)
  BY <1>2 DEF BatchOK, InLoop
<1>4. QED
  BY <1>1, <1>2, <1>3 DEF PacketInv

LEMMA PacketNext == IInv /\ PacketInv /\ [Next]_vars => PacketInv'
<1> SUFFICES ASSUME IInv, PacketInv, [Next]_vars PROVE PacketInv'
  OBVIOUS
<1> USE DEF IInv, ControlTypeOK
<1>0. adapters \in BOOLEAN /\ forceQuit \in BOOLEAN
  BY DEF PacketInv, PacketTypeOK
<1>1. CASE Signal \/ UNCHANGED vars
  <2>1. /\ UNCHANGED <<choice, batch, packets>> /\ pc' = pc
        /\ adapters' = adapters /\ forceQuit' \in BOOLEAN /\ (forceQuit => forceQuit')
    BY <1>0, <1>1 DEF Signal, vars, devices
  <2>2. QED
    BY <2>1, <1>0, PacketFrame
<1>2. CASE Receive
  BY <1>2, ReceiveInv
<1>3. CASE \E l \in Lcore : LcoreStep(l)
  <2>0. PICK l \in Lcore : LcoreStep(l)
    BY <1>3
  <2>1. CASE Dequeue(l)
    BY <2>1, DequeueInv
  <2>2. CASE Enqueue(l)
    BY <2>2, EnqueueInv
  <2>3. CASE Cleanup(l)
    BY <2>3, CleanupInv
  <2>4. CASE Lock(l) \/ ClaimPort(l) \/ Unlock(l) \/ LoopEnd(l)
    <3>1. /\ UNCHANGED <<choice, batch, packets, adapters, forceQuit>>
          /\ \E x \in {"claim", "done", "claimed", "loop", "cleanup"} :
               /\ pc' = [pc EXCEPT ![l] = x]
               /\ x \in {"claim", "done", "claimed", "loop"} => pc[l] \notin InLoop
               /\ x = "cleanup" => pc[l] = "loop"
      BY <2>4 DEF Lock, ClaimPort, Unlock, LoopEnd, Goto, Entered, InLoop, devices
    <3>2. \A m \in Lcore :
            /\ pc'[m] \notin InLoop => pc[m] \notin InLoop
            /\ pc'[m] = "enqueue" => pc[m] = "enqueue"
            /\ pc'[m] = "loop" => pc[m] \notin {"enqueue", "cleanup"}
      BY <3>1 DEF InLoop
    <3>3. QED
      BY <3>1, <3>2, <1>0, PacketFrame
  <2>5. QED
    BY <2>0, <2>1, <2>2, <2>3, <2>4 DEF LcoreStep
<1>4. CASE MainStep
  <2>1. /\ UNCHANGED <<choice, batch, packets, forceQuit>> /\ adapters' \in BOOLEAN
        /\ \E x \in {"stopPorts", "wait", "closeDev", "exit"} :
             /\ pc' = [pc EXCEPT ![Main] = x]
             /\ pc[Main] \in {"done", "stopPorts", "wait", "closeDev"}
    BY <1>0, <1>4 DEF MainStep, StopAdapters, StopPorts, ClosePorts, CloseEventDev, Goto
  <2>2. \A m \in Lcore :
          /\ pc'[m] \notin InLoop => pc[m] \notin InLoop
          /\ pc'[m] = "enqueue" => pc[m] = "enqueue"
          /\ pc'[m] = "loop" => pc[m] \notin {"enqueue", "cleanup"}
    BY <2>1 DEF InLoop
  <2>3. QED
    BY <2>1, <2>2, <1>0, PacketFrame
<1>5. QED
  BY <1>1, <1>2, <1>3, <1>4 DEF Next, Terminated

\* The places of the packets, for any number of lcores, packets and events in a batch.
THEOREM PacketInvariant == Spec => []PacketInv
  BY PacketInit, PacketNext, Invariant, PTL DEF Spec

\* Every variable of the event-mode workers keeps its type.
THEOREM TypeCorrect == Spec => []TypeOK
<1>1. IInv /\ PacketInv => TypeOK
  BY DEF IInv, ControlTypeOK, PacketInv, PacketTypeOK, TypeOK, Label
<1>2. QED
  BY <1>1, Invariant, PacketInvariant, PTL

\* A packet with a route waits, is held by one lcore, was handed to TX once or freed once:
\* the batches, the partly accepted enqueues and the cleanups lose none and double none.
THEOREM PacketsRoutedOnce == Spec => []RoutedOnce
<1>1. PacketInv => RoutedOnce
  <2> SUFFICES ASSUME PacketInv, NEW p \in 1 .. nextPkt - 1, ~FreedAtOnce(p)
               PROVE  Occurrences(queue, p) + Cardinality(Holders(p)) + sent[p] + freed[p] = 1
    BY DEF RoutedOnce
  <2>1. p \in Arrived
    BY L3fwdEventAssumption DEF PacketInv, PacketTypeOK, Arrived, Packet
  <2>2. Placed(p) /\ sent[p] \in Nat /\ freed[p] \in Nat
    BY <2>1 DEF PacketInv, PacketTypeOK, Arrived
  <2>3. Occurrences(queue, p) = IF In(p, queue) THEN 1 ELSE 0
    BY OccursOnce DEF PacketInv, PacketTypeOK
  <2>4. Holders(p) = {l \in Lcore : Holds(l, p)}
    <3>1. ASSUME NEW l \in Lcore PROVE Occurrences(Unsent(l), p) > 0 <=> Holds(l, p)
      <4>1. Unsent(l) \in Seq(Packet) /\ Distinct(Unsent(l))
        BY HoldsWhat DEF PacketInv, BatchOK
      <4>2. Occurrences(Unsent(l), p) = IF Holds(l, p) THEN 1 ELSE 0
        BY <4>1, OccursOnce DEF Holds
      <4>3. QED
        BY <4>2
    <3>2. QED
      BY <3>1 DEF Holders
  <2>5. CASE Waits(p) \/ Gone(p)
    <3>1. Holders(p) = {}
      BY <2>4, <2>5 DEF Waits, Gone
    <3>2. Cardinality(Holders(p)) = 0
      BY <3>1, FS_EmptySet
    <3>3. QED
      BY <3>2, <2>2, <2>3, <2>5 DEF Waits, Gone
  <2>6. CASE Held(p)
    <3>1. PICK l \in Lcore : Holds(l, p) /\ \A m \in Lcore \ {l} : ~Holds(m, p)
      BY <2>6 DEF Held
    <3>2. Holders(p) = {l}
      BY <3>1, <2>4
    <3>3. Cardinality(Holders(p)) = 1
      BY <3>2, FS_Singleton
    <3>4. QED
      BY <3>3, <2>3, <2>6 DEF Held
  <2>7. QED
    BY <2>2, <2>5, <2>6 DEF Placed
<1>2. QED
  BY <1>1, PacketInvariant, PTL

=============================================================================
