------------------------------- MODULE MCBurst -------------------------------
(***************************************************************************)
(* What l3fwd decides about one burst: the hops it looks up (L3fwdLookup)  *)
(* and the groups of equal ports it cuts the burst into (PktGroup).  A     *)
(* behaviour is one of the two; the variables of the other keep a value.   *)
(***************************************************************************)
EXTENDS PktGroup, MCL3fwdLookup

VARIABLE part

GroupIdle ==
  /\ nbRx = 1
  /\ dstPort = [x \in {0} |-> CHOOSE p \in PortId : TRUE] /\ final = dstPort
  /\ GroupInit

LookupIdle ==
  /\ entry = "burst" /\ lookup = "lpm" /\ parse = FALSE
  /\ pkts = <<CHOOSE k \in Kind : TRUE>>
  /\ portid = CHOOSE p \in Ingress : TRUE
  /\ Init

BurstInit ==
  \/ part = "group"  /\ LookupIdle /\ GroupInit
  \/ part = "lookup" /\ GroupIdle /\ Init

BurstNext ==
  \/ part = "group"  /\ GroupNext /\ UNCHANGED <<part, vars>>
  \/ part = "lookup" /\ Next /\ UNCHANGED <<part, groupVars>>

BurstSpec == BurstInit /\ [][BurstNext]_<<part, groupVars, vars>>

=============================================================================
