------------------------------ MODULE MCL2fwd ------------------------------
(***************************************************************************)
(* An instance of L2fwd: two ports forward to each other, one polled by    *)
(* the main lcore and one by a worker.  A buffer of two is filled by the   *)
(* packets of the first port and left half full by that of the second.    *)
(***************************************************************************)
EXTENDS L2fwd, TLC

CONSTANTS main, worker

PairLcore == {main, worker}
PairPorts == <<0, 1>>
PairLists == [l \in PairLcore |-> IF l = main THEN <<0>> ELSE <<1>>]
PairMaxRx == (0 :> 2) @@ (1 :> 1)
PairDst == (0 :> 1) @@ (1 :> 0)
=============================================================================
