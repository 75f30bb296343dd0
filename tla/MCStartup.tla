------------------------------ MODULE MCStartup ------------------------------
(***************************************************************************)
(* What runs once, before any lcore forwards: l2fwd's set-up (L2fwdSetup), *)
(* l3fwd's from main to the links (L3fwdStart), and its tables from the    *)
(* rule files (L3fwdRules).  A behaviour is one of the three; the          *)
(* variables of the other two keep a value.                                *)
(***************************************************************************)
EXTENDS L2fwdSetup, MCL3fwdStart, MCL3fwdRules

VARIABLE part

SetupIdle ==
  /\ present = {0} /\ enabledLcores = {0} /\ nq = 1
  /\ portmapGiven = FALSE /\ portmap = <<>> /\ portMask = {0}
  /\ SetupInit

StartIdle ==
  /\ valid = {0} /\ mask = {0} /\ enLcores = {0}
  /\ params = <<>> /\ eventMode = FALSE
  /\ mapped = [s \in Service |-> {}]
  /\ StartInit

RulesIdle ==
  /\ alg = "lpm" /\ ipv6 = FALSE
  /\ named = [f \in Fam |-> "unnamed"] /\ file = [f \in Fam |-> <<>>]
  /\ RulesStart

\* One refused triple of --config ends the program whatever the others are, so a second
\* one adds no behaviour.
RefusedTriples == {k \in DOMAIN params : BadLcoreParam(params[k])}

StartupInit ==
  \/ part = "l2fwd" /\ StartIdle /\ RulesIdle /\ SetupInit
  \/ part = "l3fwd" /\ SetupIdle /\ RulesIdle /\ StartInit
     /\ Cardinality(RefusedTriples) <= 1
  \/ part = "rules" /\ SetupIdle /\ StartIdle /\ RulesInit

StartupNext ==
  \/ part = "l2fwd" /\ SetupNext /\ UNCHANGED <<part, start, rulesVars>>
  \/ part = "l3fwd" /\ StartNext /\ UNCHANGED <<part, setupVars, rulesVars>>
  \/ part = "rules" /\ RulesNext /\ UNCHANGED <<part, setupVars, start>>

StartupSpec == StartupInit /\ [][StartupNext]_<<part, setupVars, start, rulesVars>>

=============================================================================
