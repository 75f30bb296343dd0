----------------------------- MODULE L3fwdRules -----------------------------
(***************************************************************************)
(* From the rule files to the lookup tables of l3fwd: read_config_files_   *)
(* lpm, _em and _acl read the IPv4 and the IPv6 file line by line, and     *)
(* setup_lpm, setup_hash, setup_fib and setup_acl put the rules into the   *)
(* tables of a socket (every socket gets the same).                        *)
(*                                                                         *)
(* What a line matches, a prefix, a 5-tuple or a filter, is the set of     *)
(* addresses it matches: a longer prefix is a smaller set.  The tables are *)
(* external: LPM and FIB keep one hop for each prefix and find the longest *)
(* one, EM keeps one for each key, ACL finds the highest priority.         *)
(***************************************************************************)
EXTENDS Integers, Sequences, FiniteSets

CONSTANTS
  Addr,        \* the addresses packets have
  Prefix,      \* what lines match: Addr for /0, a single address for a whole key
  PortNo,      \* the ports lines name
  EnabledPort, \* the ports of enabled_port_mask
  Existing,    \* the ports the EAL has, all below RTE_MAX_ETHPORTS, which is 32 too
  Width,       \* 1 << p is 1 << (p % Width): 32 on x86
  Lines,       \* the lines the files are made of
  MaxLines,    \* bounds the lines of the IPv4 and of the IPv6 file
  MaxRules,    \* how many rules a table of each lookup takes
  Default      \* the routes of ipv4_l3fwd_route_array and its like

Alg == {"lpm", "em", "fib", "acl"}
Fam == {4, 6}

\* lead: "R", "@", "#" (a comment or an empty line) or "?" (anything else).  form: what
\* is wrong with the rest of the line.
Line == [lead : {"R", "@", "#", "?"}, form : {"good", "badAddr", "badField"},
         prefix : Prefix, port : PortNo]

ASSUME L3fwdRulesAssumption ==
  /\ IsFiniteSet(Addr) /\ Prefix \subseteq (SUBSET Addr) \ {{}}
  /\ PortNo \subseteq Nat /\ EnabledPort \subseteq 0 .. Width - 1
  /\ Existing \subseteq 0 .. Width - 1
  /\ Width \in Nat \ {0}
  /\ Lines \subseteq Line
  /\ MaxLines \in [Fam -> Nat] /\ MaxRules \in [Alg -> Nat]
  /\ Default \in Seq([prefix : Prefix, port : PortNo])

VARIABLES
  alg,       \* lookup_mode
  ipv6,      \* --ipv6, which picks the table setup_hash fills
  named,     \* of each file: "unnamed", "unreadable" or "readable"
  file,      \* the lines of a readable file
  stage,     \* "names", "open", "read", "setup", "ready" or "exit"
  fam,       \* the file or the table being worked on
  line,      \* i: the lines read
  room,      \* route_num and acl_num, by which the arrays are allocated
  routes,    \* route_base
  acls,      \* acl_base
  next,      \* the next rule to set up
  table      \* LPM, FIB, EM: the hop of each prefix or key; ACL: the context's rules

inFiles == <<alg, ipv6, named, file>>
read == <<line, room, routes, acls>>
building == <<next, table>>
rulesVars == <<inFiles, stage, fam, read, building>>

Deny  == -1   \* ACL_DENY_SIGNATURE
NoHop == -2   \* the lookup fails
NoKey == {}   \* a 5-tuple no packet has: protocol 0

\* The files of the two families; the rules of EM name whole keys.
FilesOf(a, f) ==
  {s \in UNION {[1 .. n -> Lines] : n \in 0 .. MaxLines[f]} :
     a = "em" => \A k \in DOMAIN s : Cardinality(s[k].prefix) = 1}

\* Before the files are read.
RulesStart ==
  /\ stage = "names"
  /\ fam = 4
  /\ line = 0
  /\ room = [f \in Fam |-> [route |-> 0, acl |-> 0]]
  /\ routes = [f \in Fam |-> <<>>]
  /\ acls = [f \in Fam |-> <<>>]
  /\ next = 1
  /\ table = [f \in Fam |-> <<>>]

RulesInit ==
  /\ alg \in Alg
  /\ ipv6 \in IF alg = "em" THEN BOOLEAN ELSE {FALSE}   \* the others set up both tables
  /\ named \in [Fam -> {"unnamed", "unreadable", "readable"}]
  /\ \E f4 \in FilesOf(alg, 4), f6 \in FilesOf(alg, 6) :
       /\ named[4] # "readable" => f4 = <<>>
       /\ named[6] # "readable" => f6 = <<>>
       /\ file = [f \in Fam |-> IF f = 4 THEN f4 ELSE f6]
  /\ RulesStart

\* rte_exit
RulesExit == stage' = "exit" /\ UNCHANGED <<inFiles, fam, read, building>>

-----------------------------------------------------------------------------
(* Reading the files                                                       *)

BothNamed == \A f \in Fam : named[f] # "unnamed"

\* LPM, EM and FIB fall back on the defaults when a file is missing, ACL does not.
UseDefaults ==
  /\ stage = "names" /\ alg # "acl" /\ ~BothNamed
  /\ routes' = [f \in Fam |->
                  [k \in DOMAIN Default |->
                     [prefix |-> Default[k].prefix, hop |-> Default[k].port, prio |-> 0]]]
  /\ stage' = "setup"
  /\ UNCHANGED <<inFiles, fam, line, room, acls, building>>

ReadNames ==
  /\ stage = "names" /\ (alg = "acl" \/ BothNamed)
  /\ stage' = "open"
  /\ UNCHANGED <<inFiles, fam, read, building>>

Count(f, lead) == Cardinality({k \in DOMAIN file[f] : file[f][k].lead = lead})

\* fopen, the first pass, and the arrays.
OpenFile ==
  /\ stage = "open"
  /\ IF named[fam] # "readable" \/ Count(fam, "R") = 0
     THEN RulesExit
     ELSE /\ room' = [room EXCEPT ![fam] =
                        [route |-> Count(fam, "R"),
                         acl   |-> IF alg = "acl" THEN Count(fam, "@") ELSE 0]]
          /\ stage' = "read"
          /\ UNCHANGED <<inFiles, fam, line, routes, acls, building>>

Bypassed(ln) == ln.lead = "#"

LeadsAny == {"R", "@", "?"}   \* a mistake: what the first pass has not counted
Leads == IF alg = "acl" THEN {"R", "@"} ELSE {"R"}
Legal(ln) == ln.lead \in Leads

\* em_parse_v4_rule returns the 0 of an inet_pton that failed, which says success; the
\* others return -EINVAL.
Tolerated(ln) == alg = "em" /\ fam = 4 /\ ln.form = "badAddr"
Parsed(ln) == ln.form = "good" \/ Tolerated(ln)

PortEnabled(p) == p % Width \in EnabledPort

TotalNum == Len(routes[fam]) + Len(acls[fam])

PriorityUp(n) == n   \* a mistake: a later line wins
Priority(n) == -n    \* RTE_ACL_MAX_PRIORITY - total_num

RuleOf(ln) ==
  [prefix |-> IF Tolerated(ln) THEN NoKey ELSE ln.prefix,
   hop    |-> IF Tolerated(ln) THEN 0 ELSE IF ln.lead = "@" THEN Deny ELSE ln.port,
   prio   |-> IF alg = "acl" THEN Priority(TotalNum) ELSE 0]

\* The second pass.  Only ACL looks at the port of a route here.
ReadLine ==
  /\ stage = "read" /\ line < Len(file[fam])
  /\ LET ln == file[fam][line + 1]
     IN  IF /\ ~Bypassed(ln)
            /\ \/ ~Legal(ln)
               \/ ~Parsed(ln)
               \/ alg = "acl" /\ ln.lead = "R" /\ ~PortEnabled(ln.port)
         THEN RulesExit
         ELSE /\ routes' = IF Bypassed(ln) \/ ln.lead = "@" THEN routes
                           ELSE [routes EXCEPT ![fam] = Append(@, RuleOf(ln))]
              /\ acls' = IF ~Bypassed(ln) /\ ln.lead = "@"
                         THEN [acls EXCEPT ![fam] = Append(@, RuleOf(ln))] ELSE acls
              /\ line' = line + 1
              /\ UNCHANGED <<inFiles, stage, fam, room, building>>

ReadEnd ==
  /\ stage = "read" /\ line = Len(file[fam])
  /\ IF fam = 4 THEN stage' = "open" /\ fam' = 6 ELSE stage' = "setup" /\ fam' = 4
  /\ line' = 0
  /\ UNCHANGED <<inFiles, room, routes, acls, building>>

-----------------------------------------------------------------------------
(* Setting up the tables of a socket                                       *)

Keys(f) == DOMAIN table[f]

TableFullEarly(f, key) == Cardinality(Keys(f) \cup {key}) >= MaxRules[alg]   \* a mistake
TableFull(f, key) == Cardinality(Keys(f) \cup {key}) > MaxRules[alg]

\* rte_lpm_add and rte_lpm6_add take no /0, rte_fib_add and rte_fib6_add do.
CannotAdd(f, key) == TableFull(f, key) \/ (alg = "lpm" /\ key = Addr)

Put(t, key, hop) == [k \in DOMAIN t \cup {key} |-> IF k = key THEN hop ELSE t[k]]

\* EM fills one of its two tables.
SetUp(f) == alg = "em" => (f = 6) = ipv6

\* One route: skip unused ports, ask for the device, and add or overwrite.
AddRule ==
  /\ stage = "setup" /\ alg # "acl" /\ SetUp(fam) /\ next <= Len(routes[fam])
  /\ LET r == routes[fam][next]
     IN  IF PortEnabled(r.hop) /\ (r.hop \notin Existing \/ CannotAdd(fam, r.prefix))
         THEN RulesExit
         ELSE /\ table' = IF PortEnabled(r.hop)
                          THEN [table EXCEPT ![fam] = Put(@, r.prefix, r.hop)] ELSE table
              /\ next' = next + 1
              /\ UNCHANGED <<inFiles, stage, fam, read>>

\* app_acl_init: the routes and the ACL entries into one context.
BuildContext ==
  /\ stage = "setup" /\ alg = "acl" /\ next = 1
  /\ IF Len(routes[fam]) + Len(acls[fam]) > MaxRules[alg]
     THEN RulesExit
     ELSE /\ table' = [table EXCEPT ![fam] = routes[fam] \o acls[fam]]
          /\ next' = 2
          /\ UNCHANGED <<inFiles, stage, fam, read>>

TableEnd ==
  /\ stage = "setup"
  /\ IF alg = "acl" THEN next = 2 ELSE SetUp(fam) => next > Len(routes[fam])
  /\ IF fam = 4 THEN fam' = 6 /\ UNCHANGED stage ELSE stage' = "ready" /\ UNCHANGED fam
  /\ next' = 1
  /\ UNCHANGED <<inFiles, read, table>>

RulesTerminated == stage \in {"ready", "exit"} /\ UNCHANGED rulesVars

RulesNext ==
  \/ UseDefaults \/ ReadNames \/ OpenFile \/ ReadLine \/ ReadEnd
  \/ AddRule \/ BuildContext \/ TableEnd
  \/ RulesTerminated

RulesSpec == RulesInit /\ [][RulesNext]_rulesVars

-----------------------------------------------------------------------------
(* What a packet to address a finds in the tables: rte_lpm_lookup,         *)
(* rte_fib_lookup_bulk, rte_hash_lookup, rte_acl_classify.                 *)

LookUp(f, a) ==
  LET t    == table[f]
      hits == IF alg = "acl" THEN {k \in DOMAIN t : a \in t[k].prefix}
                             ELSE {k \in DOMAIN t : a \in k}
  IN  IF hits = {} THEN NoHop
      ELSE IF alg = "acl"
           THEN t[CHOOSE k \in hits : \A m \in hits : t[m].prio <= t[k].prio].hop
           ELSE t[CHOOSE k \in hits : \A m \in hits : k \subseteq m]

-----------------------------------------------------------------------------
Rule == [prefix : Prefix \cup {NoKey}, hop : PortNo \cup {Deny, 0}, prio : Int]

\* Among the rest: route_rules and acl_rules, allocated after the first pass, are not
\* written past their ends in the second.
RulesTypeOK ==
  /\ stage \in {"names", "open", "read", "setup", "ready", "exit"}
  /\ fam \in Fam
  /\ line \in 0 .. Len(file[fam])
  /\ \A f \in Fam :
       /\ routes[f] \in Seq(Rule) /\ acls[f] \in Seq(Rule)
       /\ BothNamed => Len(routes[f]) <= room[f].route /\ Len(acls[f]) <= room[f].acl
  /\ next \in Nat

\* The rules the user gave, or the defaults: what they match and where to.
Given(f) ==
  IF BothNamed
  THEN file[f]
  ELSE [k \in DOMAIN Default |->
          [lead |-> "R", form |-> "good", prefix |-> Default[k].prefix, port |-> Default[k].port]]

\* The lines that speak of a packet.  A route is no rule if its port is not enabled; ACL is
\* to refuse such a route and not to skip it.
Matching(f, a) ==
  {k \in DOMAIN Given(f) :
     /\ Given(f)[k].lead \in {"R", "@"} /\ Given(f)[k].form = "good"
     /\ a \in Given(f)[k].prefix
     /\ alg # "acl" => Given(f)[k].port \in EnabledPort}

\* A line that decides: for ACL the first route or the first ACL entry that matches;
\* otherwise the last line of the longest prefix.
Decides(f, a, k) ==
  /\ k \in Matching(f, a)
  /\ \A m \in Matching(f, a) :
       IF alg = "acl" THEN Given(f)[m].lead = Given(f)[k].lead => k <= m
       ELSE \/ Given(f)[k].prefix \subseteq Given(f)[m].prefix /\ Given(f)[k].prefix # Given(f)[m].prefix
            \/ Given(f)[k].prefix = Given(f)[m].prefix /\ m <= k

Says(ln) == IF ln.lead = "@" THEN Deny ELSE ln.port

\* Once the tables are ready, a packet finds in them what the files say, and nothing if no
\* line speaks of it: lines for ports that are not enabled do not hide shorter prefixes, a
\* repeated key has its last port, an earlier route of ACL ranks above a later one and an
\* earlier ACL entry above a later one, and the IPv4 rules are not in the IPv6 table.  LPM
\* and FIB have left out nothing but comments.
TablesFollowFile ==
  stage = "ready" =>
    \A f \in Fam :
      /\ SetUp(f) => \A a \in Addr :
           IF Matching(f, a) = {} THEN LookUp(f, a) = NoHop
           ELSE \E k \in Matching(f, a) : Decides(f, a, k) /\ LookUp(f, a) = Says(Given(f)[k])
      /\ ~SetUp(f) => table[f] = <<>>
      /\ alg \in {"lpm", "fib"} => \A k \in DOMAIN Given(f) :
           Given(f)[k].lead # "#" => Legal(Given(f)[k]) /\ Given(f)[k].form = "good"

\* "ACL rules should have higher priorities than route ones to ensure ACL rule always be
\* found when input packets have multi-matches in the database."
AclEntriesFound ==
  stage = "ready" /\ alg = "acl" =>
    \A f \in Fam, a \in Addr :
      (\E k \in Matching(f, a) : Given(f)[k].lead = "@") => LookUp(f, a) = Deny

\* "parse rules error" and "fwd number illegal": the program does not start with a file
\* that has a line it cannot read, or a route of ACL for a port that is not enabled.
OnlyGoodLinesTaken ==
  stage = "ready" =>
    \A f \in Fam : \A k \in DOMAIN Given(f) :
      LET ln == Given(f)[k]
      IN  ln.lead # "#" =>
            /\ Legal(ln) /\ ln.form = "good"
            /\ alg = "acl" /\ ln.lead = "R" => ln.port \in EnabledPort

\* The device of an enabled port is asked for.
Usable(ln) == PortEnabled(ln.port) => ln.port \in Existing

\* The program refuses the rules for a reason a user can see in them: a file is missing or
\* has no route, a line is illegal, an enabled port does not exist, a route of ACL is for
\* another port, LPM is given a /0, or there are more different keys than fit.
RefusedForCause ==
  stage = "exit" =>
    \/ alg = "acl" /\ ~BothNamed
    \/ \E f \in Fam :
         \/ named[f] = "unreadable"
         \/ BothNamed /\ ~\E k \in DOMAIN file[f] : file[f][k].lead = "R"
         \/ \E k \in DOMAIN Given(f) :
              LET ln == Given(f)[k]
              IN  \/ ln.lead # "#" /\ (~Legal(ln) \/ ln.form # "good")
                  \/ ln.lead = "R" /\ alg = "acl" /\ ~PortEnabled(ln.port)
                  \/ ln.lead = "R" /\ alg # "acl" /\ ~Usable(ln)
                  \/ ln.lead = "R" /\ alg = "lpm" /\ ln.prefix = Addr
         \/ LET used == {k \in DOMAIN Given(f) : Given(f)[k].lead \in {"R", "@"}}
            IN  Cardinality(IF alg = "acl" THEN used ELSE {Given(f)[k].prefix : k \in used}) > MaxRules[alg]

=============================================================================
