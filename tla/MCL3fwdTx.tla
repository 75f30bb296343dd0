----------------------------- MODULE MCL3fwdTx -----------------------------
(***************************************************************************)
(* Instances of L3fwdTx: two ports and a table of two or three packets,    *)
(* which is filled, flushed and filled again.                              *)
(***************************************************************************)
EXTENDS L3fwdTx

CONSTANTS p0, p1

TwoPorts == <<p0, p1>>
=============================================================================
