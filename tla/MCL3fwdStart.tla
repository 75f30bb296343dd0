---------------------------- MODULE MCL3fwdStart ----------------------------
(* An instance of L3fwdStart for TLC: each lcore on a socket of its own. *)
EXTENDS L3fwdStart

TwoSockets == [l \in 0 .. MaxLcores - 1 |-> l % 2]

=============================================================================
