---------------------------- MODULE MCL3fwdRules ----------------------------
(***************************************************************************)
(* An instance of L3fwdRules: three addresses with nested prefixes, a      *)
(* shift width of 4, and port numbers that are enabled (0, 2), not enabled *)
(* (1), enabled without a device (3) and 0 modulo the width (4).           *)
(***************************************************************************)
EXTENDS L3fwdRules

MCAddr == {1, 2, 3}
MCPrefix == {{1}, {2}, {1, 2}, MCAddr}

MCRoute(prefix, port) == [lead |-> "R", form |-> "good", prefix |-> prefix, port |-> port]
MCLines ==
  {MCRoute({1}, p) : p \in {0, 1, 3, 4}}
  \cup {MCRoute({1, 2}, p) : p \in {0, 2}} \cup {MCRoute({2}, 2)}
  \cup {[MCRoute(x, 0) EXCEPT !.lead = "@"] : x \in {{1}, {1, 2}}}
  \cup {[MCRoute({1}, 0) EXCEPT !.lead = l] : l \in {"#", "?"}}
  \cup {[MCRoute({1}, 0) EXCEPT !.form = w] : w \in {"badAddr", "badField"}}

MCMaxLines == [f \in Fam |-> IF f = 4 THEN 3 ELSE 1]
MCMaxRules == [a \in Alg |-> IF a = "acl" THEN 3 ELSE 2]
MCDefault == <<[prefix |-> {1}, port |-> 0], [prefix |-> {2}, port |-> 1]>>
=============================================================================
