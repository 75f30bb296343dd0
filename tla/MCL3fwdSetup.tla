---------------------------- MODULE MCL3fwdSetup ----------------------------
(* An instance of L3fwdSetup for TLC: all lcores on one socket. *)
EXTENDS L3fwdSetup

OneSocket == [l \in 0 .. MaxLcores - 1 |-> 0]

=============================================================================
