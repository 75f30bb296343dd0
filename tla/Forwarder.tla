----------------------------- MODULE Forwarder -----------------------------
(***************************************************************************)
(* What l2fwd promises to an observer of its statistics and its ports: a   *)
(* packet received on a port is sent, or counted as dropped, by the port's *)
(* destination, once at most and never before it is received; the counters *)
(* only grow; a port that was closed takes no part any more.               *)
(***************************************************************************)
EXTENDS Integers

CONSTANTS Port, Dst

VARIABLES rx, tx, dropped, open

vars == <<rx, tx, dropped, open>>

Owed(p) == rx[p] - (tx[Dst[p]] + dropped[Dst[p]])

Usable(p) == open[p] /\ open[Dst[p]]

Init ==
  /\ rx = [p \in Port |-> 0]
  /\ tx = [p \in Port |-> 0]
  /\ dropped = [p \in Port |-> 0]
  /\ open = [p \in Port |-> TRUE]

Receive(p) ==
  /\ Usable(p)
  /\ rx'[p] \in Nat /\ rx'[p] > rx[p]
  /\ rx' = [rx EXCEPT ![p] = rx'[p]]
  /\ UNCHANGED <<tx, dropped, open>>

Transmit(p) ==
  /\ Usable(p)
  /\ \E n \in 1 .. Owed(p) : tx' = [tx EXCEPT ![Dst[p]] = @ + n]
  /\ UNCHANGED <<rx, dropped, open>>

Drop(p) ==
  /\ Usable(p)
  /\ \E n \in 1 .. Owed(p) : dropped' = [dropped EXCEPT ![Dst[p]] = @ + n]
  /\ UNCHANGED <<rx, tx, open>>

Close(p) ==
  /\ open' = [open EXCEPT ![p] = FALSE]
  /\ UNCHANGED <<rx, tx, dropped>>

Next == \E p \in Port : Receive(p) \/ Transmit(p) \/ Drop(p) \/ Close(p)

Spec == Init /\ [][Next]_vars

=============================================================================
