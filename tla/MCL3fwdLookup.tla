--------------------------- MODULE MCL3fwdLookup ---------------------------
\* L3fwdLookup on every burst of up to five packets of six kinds.
EXTENDS L3fwdLookup

Packet(eth, opts, proto, r4, r6, deny, bad, port) ==
  [eth |-> eth, opts |-> opts, proto |-> proto, r4 |-> r4, r6 |-> r6,
   deny |-> deny, bad |-> bad, port |-> port]

KindMC ==
  {Packet("ipv4", FALSE, "tcp", "p2", "p3", FALSE, FALSE, "p1"),
   Packet("ipv4", FALSE, "udp", "p3", NoRoute, FALSE, TRUE, "p2"),
   Packet("ipv4", TRUE, "icmp", NoRoute, "p2", FALSE, FALSE, "p2"),
   Packet("ipv6", FALSE, "tcp", "p3", "p2", FALSE, FALSE, "p2"),
   Packet("ipv6", TRUE, "igmp", "p2", "p3", TRUE, TRUE, "p1"),
   Packet("other", FALSE, "other", "p2", "p3", FALSE, TRUE, "p2")}

=============================================================================
