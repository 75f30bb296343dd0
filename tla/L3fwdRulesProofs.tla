------------------------- MODULE L3fwdRulesProofs --------------------------
(***************************************************************************)
(* Proofs about L3fwdRules, for files of any length, any ports and any     *)
(* size of the tables.                                                     *)
(***************************************************************************)
EXTENDS L3fwdRules, FiniteSetTheorems, WellFoundedInduction, TLAPS

-----------------------------------------------------------------------------
(* What the phases have done so far.                                       *)

FromFile == alg = "acl" \/ BothNamed

\* The lines the rules come from.
Source(f) ==
  IF FromFile
  THEN file[f]
  ELSE [k \in DOMAIN Default |->
          [lead |-> "R", form |-> "good", prefix |-> Default[k].prefix, port |-> Default[k].port]]

GivenInv ==
  /\ alg \in Alg /\ ipv6 \in BOOLEAN
  /\ named \in [Fam -> {"unnamed", "unreadable", "readable"}]
  /\ file \in [Fam -> Seq(Lines)]

\* ACL comes to its tables only with both files.
PhaseInv ==
  /\ stage \in {"open", "read"} => FromFile
  /\ stage = "open" => line = 0 /\ (fam = 6 => named[4] = "readable")
  /\ stage = "read" => named[fam] = "readable" /\ (fam = 6 => named[4] = "readable")
  /\ stage \in {"setup", "ready"} => line = 0 /\ (alg = "acl" => BothNamed)
  /\ stage = "names" => fam = 4 /\ line = 0 /\ (\A f \in Fam : routes[f] = <<>> /\ acls[f] = <<>>)

\* The lines of a file read so far.
Done(f) ==
  CASE stage \in {"setup", "ready"} -> Len(Source(f))
    [] stage \in {"open", "read"} /\ f < fam -> Len(Source(f))
    [] stage = "read" /\ f = fam -> line
    [] OTHER -> 0

ToleratedIn(f, ln) == alg = "em" /\ f = 4 /\ ln.form = "badAddr"

\* A rule is what its line says.
RuleOfLine(r, f, ln) ==
  /\ r.prefix = IF ToleratedIn(f, ln) THEN NoKey ELSE ln.prefix
  /\ r.hop = IF ToleratedIn(f, ln) THEN 0 ELSE IF ln.lead = "@" THEN Deny ELSE ln.port

\* The rules l are those of the first n lines that begin with lead, in their order; rule i
\* is the one of line p[i].
Places(l, f, n, lead, p) ==
  /\ p \in [1 .. Len(l) -> 1 .. n]
  /\ \A i, m \in 1 .. Len(l) : i < m => p[i] < p[m]
  /\ \A i \in 1 .. Len(l) :
       Source(f)[p[i]].lead = lead /\ RuleOfLine(l[i], f, Source(f)[p[i]])
  /\ \A k \in 1 .. n : Source(f)[k].lead = lead => \E i \in 1 .. Len(l) : p[i] = k

\* The lines that were let through.
Checked(f, n) ==
  \A k \in 1 .. n :
    LET ln == Source(f)[k]
    IN  ln.lead # "#" =>
          /\ Legal(ln)
          /\ ln.form = "good" \/ ToleratedIn(f, ln)
          /\ alg = "acl" /\ ln.lead = "R" => PortEnabled(ln.port)

\* An earlier line has a higher priority, whether it is a route or an ACL entry; the next
\* one will have a lower one than all so far.
Ranked(l, p, m, q) ==
  \A i \in 1 .. Len(l) : \A k \in 1 .. Len(m) : p[i] < q[k] => m[k].prio < l[i].prio

Ranks(l, m, p, q) ==
  /\ Ranked(l, p, l, p) /\ Ranked(l, p, m, q) /\ Ranked(m, q, l, p) /\ Ranked(m, q, m, q)
  /\ \A i \in 1 .. Len(l) : -(Len(l) + Len(m)) < l[i].prio
  /\ \A i \in 1 .. Len(m) : -(Len(l) + Len(m)) < m[i].prio

\* l and m are the routes and the ACL entries of the first n lines.
ReadOf(l, m, f, n, p, q) ==
  /\ Places(l, f, n, "R", p) /\ Places(m, f, n, "@", q)
  /\ Checked(f, n)
  /\ alg = "acl" => Ranks(l, m, p, q)

ReadInv ==
  \A f \in Fam : \E n \in 0 .. Len(Source(f)) :
    /\ stage # "exit" => n = Done(f)
    /\ \E p \in [1 .. Len(routes[f]) -> 1 .. n], q \in [1 .. Len(acls[f]) -> 1 .. n] :
         ReadOf(routes[f], acls[f], f, n, p, q)

\* The arrays are as long as the first pass says.
RoomInv ==
  /\ room \in [Fam -> [route : Nat, acl : Nat]]
  /\ stage = "read" =>
       /\ room[fam].route = Count(fam, "R")
       /\ room[fam].acl = IF alg = "acl" THEN Count(fam, "@") ELSE 0

TypeInv ==
  /\ RulesTypeOK
  /\ routes \in [Fam -> Seq(Rule)] /\ acls \in [Fam -> Seq(Rule)]

\* The table t after the first n of the routes l: each key has the port of the last route
\* for an enabled port that names it, and the devices of these ports were there.
TableOf(t, l, n) ==
  /\ \A i \in 1 .. n : PortEnabled(l[i].hop) => l[i].prefix \in DOMAIN t /\ l[i].hop \in Existing
  /\ \A key \in DOMAIN t : \E i \in 1 .. n :
       /\ l[i].prefix = key /\ PortEnabled(l[i].hop) /\ t[key] = l[i].hop
       /\ \A m \in 1 .. n : i < m /\ l[m].prefix = key => ~PortEnabled(l[m].hop)

\* The routes of a table set up so far.
Added(f) ==
  CASE stage = "setup" /\ f = fam -> next - 1
    [] stage = "setup" /\ f > fam -> 0
    [] OTHER -> Len(routes[f])

KeysInv ==
  stage \in {"setup", "ready"} /\ alg # "acl" =>
    /\ next \in Nat \ {0}
    /\ \A f \in Fam :
         IF SetUp(f) THEN Added(f) \in 0 .. Len(routes[f]) /\ TableOf(table[f], routes[f], Added(f))
         ELSE table[f] = <<>>

ContextInv ==
  stage \in {"setup", "ready"} /\ alg = "acl" =>
    /\ next \in {1, 2}
    /\ \A f \in Fam :
         stage = "ready" \/ f < fam \/ (f = fam /\ next = 2) => table[f] = routes[f] \o acls[f]

EmptyInv == stage \in {"names", "open", "read"} => next = 1 /\ table = [f \in Fam |-> <<>>]

IInv ==
  /\ GivenInv /\ TypeInv /\ PhaseInv /\ RoomInv /\ ReadInv
  /\ EmptyInv /\ KeysInv /\ ContextInv
  /\ table = [f \in Fam |-> table[f]]
  /\ RefusedForCause

-----------------------------------------------------------------------------
(* What the inputs decide.                                                 *)

\* What is assumed of the constants.
LEMMA Constants ==
  /\ IsFiniteSet(Addr) /\ Prefix \subseteq (SUBSET Addr) \ {{}}
  /\ PortNo \subseteq Nat /\ Lines \subseteq Line /\ MaxRules \in [Alg -> Nat]
  /\ Default \in Seq([prefix : Prefix, port : PortNo])
BY L3fwdRulesAssumption

\* The lines a table is made of are lines.
LEMMA SourceLines ==
  ASSUME GivenInv, NEW f \in Fam
  PROVE  /\ Source(f) \in Seq(Line) /\ Len(Source(f)) \in Nat
         /\ FromFile => Source(f) = file[f]
         /\ ~FromFile => Len(Source(f)) = Len(Default)
         /\ \A k \in 1 .. Len(Source(f)) :
              /\ Source(f)[k].lead \in {"R", "@", "#", "?"}
              /\ Source(f)[k].form \in {"good", "badAddr", "badField"}
              /\ Source(f)[k].prefix \in Prefix /\ Source(f)[k].prefix # {}
              /\ Source(f)[k].port \in PortNo
<1>1. CASE FromFile
  <2>1. Source(f) = file[f]
    BY <1>1 DEF Source
  <2>2. file[f] \in Seq(Lines)
    BY DEF GivenInv
  <2>3. Source(f) \in Seq(Line)
    BY <2>1, <2>2, Constants
  <2>4. \A k \in 1 .. Len(Source(f)) : Source(f)[k] \in Line
    BY <2>3
  <2>5. QED
    BY <1>1, <2>1, <2>3, <2>4, Constants DEF Line
<1>2. CASE ~FromFile
  <2> DEFINE s == [k \in DOMAIN Default |->
                     [lead |-> "R", form |-> "good", prefix |-> Default[k].prefix,
                      port |-> Default[k].port]]
  <2>1. Source(f) = s
    BY <1>2 DEF Source
  <2>2. /\ DOMAIN Default = 1 .. Len(Default) /\ Len(Default) \in Nat
        /\ \A k \in 1 .. Len(Default) : Default[k] \in [prefix : Prefix, port : PortNo]
    <3> DEFINE T == [prefix : Prefix, port : PortNo]
    <3>1. Default \in Seq(T)
      BY Constants
    <3> HIDE DEF T
    <3>2. /\ DOMAIN Default = 1 .. Len(Default) /\ Len(Default) \in Nat
          /\ \A k \in 1 .. Len(Default) : Default[k] \in T
      BY <3>1
    <3>3. QED
      BY <3>2 DEF T
  <2>3. \A k \in 1 .. Len(Default) : Default[k].prefix \in Prefix /\ Default[k].port \in PortNo
    BY <2>2
  <2>4. s \in Seq(Line) /\ Len(s) = Len(Default)
    BY <2>2, <2>3 DEF Line
  <2>5. \A k \in 1 .. Len(s) : s[k] \in Line
    BY <2>4
  <2> HIDE DEF s
  <2>6. QED
    BY <1>2, <2>1, <2>2, <2>4, <2>5, Constants DEF Line
<1>3. QED
  BY <1>1, <1>2

\* As long as the inputs stay, so does all that depends on them alone.
LEMMA Frame ==
  ASSUME UNCHANGED inFiles
  PROVE  /\ alg' = alg /\ file' = file /\ named' = named
         /\ (FromFile' <=> FromFile) /\ (BothNamed' <=> BothNamed)
         /\ GivenInv => GivenInv'
         /\ \A f : Source(f)' = Source(f)
         /\ \A f : Given(f)' = Given(f)
         /\ \A f, ln : ToleratedIn(f, ln)' <=> ToleratedIn(f, ln)
         /\ \A ln : Legal(ln)' <=> Legal(ln)
         /\ \A f : SetUp(f)' <=> SetUp(f)
         /\ \A f, lead : Count(f, lead)' = Count(f, lead)
<1>1. alg' = alg /\ ipv6' = ipv6 /\ file' = file /\ named' = named
  BY DEF inFiles
<1>2. (BothNamed' <=> BothNamed) /\ (FromFile' <=> FromFile)
  BY <1>1 DEF BothNamed, FromFile
<1>3. GivenInv => GivenInv'
  BY <1>1 DEF GivenInv
<1>4. /\ \A f : Source(f)' = Source(f)
      /\ \A f : Given(f)' = Given(f)
  BY <1>1, <1>2 DEF Source, Given
<1>5. /\ \A f, ln : ToleratedIn(f, ln)' <=> ToleratedIn(f, ln)
      /\ \A ln : Legal(ln)' <=> Legal(ln)
      /\ \A f : SetUp(f)' <=> SetUp(f)
  BY <1>1 DEF ToleratedIn, Legal, Leads, SetUp
<1>6. \A f, lead : Count(f, lead)' = Count(f, lead)
  BY <1>1 DEF Count
<1>7. QED
  BY <1>1, <1>2, <1>3, <1>4, <1>5, <1>6

\* What was read of a file, seen after a step.
LEMMA ReadOfAfter ==
  ASSUME UNCHANGED inFiles, NEW f, NEW n, NEW p, NEW q,
         ReadOf(routes'[f], acls'[f], f, n, p, q)
  PROVE  ReadOf(routes[f], acls[f], f, n, p, q)'
<1>1. /\ alg' = alg
      /\ \A ff : Source(ff)' = Source(ff)
      /\ \A ff, ln : ToleratedIn(ff, ln)' <=> ToleratedIn(ff, ln)
      /\ \A ln : Legal(ln)' <=> Legal(ln)
  BY Frame
<1>2. Places(routes[f], f, n, "R", p)'
  BY <1>1 DEF ReadOf, Places, RuleOfLine
<1>3. Places(acls[f], f, n, "@", q)'
  BY <1>1 DEF ReadOf, Places, RuleOfLine
<1>4. Checked(f, n)'
  BY <1>1 DEF ReadOf, Checked
<1>5. (alg = "acl" => Ranks(routes[f], acls[f], p, q))'
  BY <1>1 DEF ReadOf, Ranks, Ranked
<1>6. QED
  BY <1>2, <1>3, <1>4, <1>5 DEF ReadOf

\* A step that reads nothing keeps what was read.
LEMMA ReadKept ==
  ASSUME ReadInv, UNCHANGED <<inFiles, routes, acls>>,
         stage' = "exit" \/ (stage # "exit" /\ \A f \in Fam : Done(f)' = Done(f))
  PROVE  ReadInv'
<1>1. /\ \A f : Source(f)' = Source(f)
      /\ routes' = routes /\ acls' = acls
  BY Frame
<1>2. ASSUME NEW f \in Fam
      PROVE  \E n \in 0 .. Len(Source(f)') :
               /\ stage' # "exit" => n = Done(f)'
               /\ \E p \in [1 .. Len(routes'[f]) -> 1 .. n], q \in [1 .. Len(acls'[f]) -> 1 .. n] :
                    ReadOf(routes[f], acls[f], f, n, p, q)'
  <2>1. PICK n \in 0 .. Len(Source(f)) :
          /\ stage # "exit" => n = Done(f)
          /\ \E p \in [1 .. Len(routes[f]) -> 1 .. n], q \in [1 .. Len(acls[f]) -> 1 .. n] :
               ReadOf(routes[f], acls[f], f, n, p, q)
    BY DEF ReadInv
  <2>2. PICK p \in [1 .. Len(routes[f]) -> 1 .. n], q \in [1 .. Len(acls[f]) -> 1 .. n] :
          ReadOf(routes[f], acls[f], f, n, p, q)
    BY <2>1
  <2>3. ReadOf(routes'[f], acls'[f], f, n, p, q)
    BY <1>1, <2>2
  <2>4. ReadOf(routes[f], acls[f], f, n, p, q)'
    BY <2>3, ReadOfAfter
  <2>5. stage' # "exit" => n = Done(f)'
    BY <2>1
  <2>6. QED
    BY <1>1, <2>2, <2>4, <2>5
<1>3. QED
  BY <1>2 DEF ReadInv

-----------------------------------------------------------------------------
(* Reading one line more.                                                  *)

\* The places p of a list, and m for one rule more.
Ext(p, len, m) == [i \in 1 .. len + 1 |-> IF i = len + 1 THEN m ELSE p[i]]

\* What appending a rule does to a list and to its places.
LEMMA Appended ==
  ASSUME NEW S, NEW l \in Seq(S), NEW r \in S, NEW p, NEW m
  PROVE  /\ Append(l, r) \in Seq(S) /\ Len(l) \in Nat /\ Len(Append(l, r)) = Len(l) + 1
         /\ \A i \in 1 .. Len(l) : Append(l, r)[i] = l[i] /\ Ext(p, Len(l), m)[i] = p[i]
         /\ Append(l, r)[Len(l) + 1] = r /\ Ext(p, Len(l), m)[Len(l) + 1] = m
         /\ \A i \in 1 .. Len(Append(l, r)) : i = Len(l) + 1 \/ i \in 1 .. Len(l)
         /\ DOMAIN Ext(p, Len(l), m) = 1 .. Len(l) + 1
<1>1. /\ Append(l, r) \in Seq(S) /\ Len(l) \in Nat /\ Len(Append(l, r)) = Len(l) + 1
      /\ \A i \in 1 .. Len(l) : Append(l, r)[i] = l[i]
      /\ Append(l, r)[Len(l) + 1] = r
  OBVIOUS
<1>2. /\ \A i \in 1 .. Len(l) : Ext(p, Len(l), m)[i] = p[i]
      /\ Ext(p, Len(l), m)[Len(l) + 1] = m
      /\ DOMAIN Ext(p, Len(l), m) = 1 .. Len(l) + 1
  BY <1>1 DEF Ext
<1>3. \A i \in 1 .. Len(Append(l, r)) : i = Len(l) + 1 \/ i \in 1 .. Len(l)
  BY <1>1
<1>4. QED
  BY <1>1, <1>2, <1>3

\* A line that begins with something else adds no rule.
LEMMA PlacesSkip ==
  ASSUME NEW l, NEW f, NEW n \in Nat, NEW m, m = n + 1, NEW lead, NEW p,
         Places(l, f, n, lead, p), Source(f)[m].lead # lead
  PROVE  Places(l, f, m, lead, p) /\ p \in [1 .. Len(l) -> 1 .. m]
<1>1. /\ p \in [1 .. Len(l) -> 1 .. n]
      /\ \A i, k \in 1 .. Len(l) : i < k => p[i] < p[k]
      /\ \A i \in 1 .. Len(l) :
           Source(f)[p[i]].lead = lead /\ RuleOfLine(l[i], f, Source(f)[p[i]])
      /\ \A k \in 1 .. n : Source(f)[k].lead = lead => \E i \in 1 .. Len(l) : p[i] = k
  BY DEF Places
<1>2. p \in [1 .. Len(l) -> 1 .. m]
  BY <1>1
<1>3. \A k \in 1 .. m : Source(f)[k].lead = lead => \E i \in 1 .. Len(l) : p[i] = k
  <2>1. \A k \in 1 .. m : k = m \/ k \in 1 .. n
    OBVIOUS
  <2>2. QED
    BY <1>1, <2>1
<1>4. QED
  BY <1>1, <1>2, <1>3 DEF Places

\* A line that begins with lead adds its rule.
LEMMA PlacesNext ==
  ASSUME NEW l \in Seq(Rule), NEW f, NEW n \in Nat, NEW m, m = n + 1, NEW lead, NEW p,
         Places(l, f, n, lead, p), Source(f)[m].lead = lead,
         NEW r \in Rule, RuleOfLine(r, f, Source(f)[m])
  PROVE  /\ Places(Append(l, r), f, m, lead, Ext(p, Len(l), m))
         /\ Ext(p, Len(l), m) \in [1 .. Len(Append(l, r)) -> 1 .. m]
<1>1. /\ p \in [1 .. Len(l) -> 1 .. n]
      /\ \A i, k \in 1 .. Len(l) : i < k => p[i] < p[k]
      /\ \A i \in 1 .. Len(l) :
           Source(f)[p[i]].lead = lead /\ RuleOfLine(l[i], f, Source(f)[p[i]])
      /\ \A k \in 1 .. n : Source(f)[k].lead = lead => \E i \in 1 .. Len(l) : p[i] = k
  BY DEF Places
<1> DEFINE l2 == Append(l, r)
           p2 == Ext(p, Len(l), m)
           e == Len(l) + 1
<1>2. /\ Len(l) \in Nat /\ Len(l2) = e
      /\ \A i \in 1 .. Len(l) : l2[i] = l[i] /\ p2[i] = p[i]
      /\ l2[e] = r /\ p2[e] = m
      /\ \A i \in 1 .. e : i = e \/ i \in 1 .. Len(l)
      /\ DOMAIN p2 = 1 .. e
  BY Appended
<1>3. /\ \A i \in 1 .. Len(l) : i \in 1 .. e /\ i < e /\ ~(e < i)
      /\ e \in 1 .. e /\ ~(e < e)
  BY <1>2
<1>4. p2 = [i \in 1 .. e |-> p2[i]]
  BY DEF Ext
<1> HIDE DEF l2, p2, e
<1>5. /\ \A k \in 1 .. m : k = m \/ k \in 1 .. n
      /\ \A k \in 1 .. n : k \in 1 .. m /\ k < m
      /\ m \in 1 .. m
  OBVIOUS
<1>6. p2 \in [1 .. e -> 1 .. m]
  <2>1. \A i \in 1 .. e : p2[i] \in 1 .. m
    BY <1>1, <1>2, <1>5
  <2>2. QED
    BY <1>4, <2>1
<1>7. ASSUME NEW i \in 1 .. e, NEW k \in 1 .. e, i < k
      PROVE  p2[i] < p2[k]
  <2>1. i \in 1 .. Len(l)
    BY <1>2, <1>3, <1>7
  <2>2. p2[i] = p[i] /\ p[i] \in 1 .. n
    BY <1>1, <1>2, <2>1
  <2>3. CASE k = e
    BY <1>2, <1>5, <2>2, <2>3
  <2>4. CASE k \in 1 .. Len(l)
    BY <1>1, <1>2, <1>7, <2>1, <2>4
  <2>5. QED
    BY <1>2, <2>3, <2>4
<1>8. ASSUME NEW i \in 1 .. e
      PROVE  Source(f)[p2[i]].lead = lead /\ RuleOfLine(l2[i], f, Source(f)[p2[i]])
  <2>1. CASE i = e
    BY <1>2, <2>1
  <2>2. CASE i \in 1 .. Len(l)
    <3>1. p2[i] = p[i] /\ l2[i] = l[i]
      BY <1>2, <2>2
    <3>2. QED
      BY <1>1, <2>2, <3>1
  <2>3. QED
    BY <1>2, <2>1, <2>2
<1>9. ASSUME NEW k \in 1 .. m, Source(f)[k].lead = lead
      PROVE  \E i \in 1 .. e : p2[i] = k
  <2>1. CASE k = m
    BY <1>2, <1>3, <2>1
  <2>2. CASE k \in 1 .. n
    <3>1. PICK i \in 1 .. Len(l) : p[i] = k
      BY <1>1, <1>9, <2>2
    <3>2. i \in 1 .. e /\ p2[i] = k
      BY <1>2, <1>3, <3>1
    <3>3. QED
      BY <3>2
  <2>3. QED
    BY <1>5, <2>1, <2>2
<1>10. Places(l2, f, m, lead, p2) /\ p2 \in [1 .. Len(l2) -> 1 .. m]
  BY <1>2, <1>6, <1>7, <1>8, <1>9 DEF Places
<1>11. QED
  BY <1>10 DEF l2, p2

\* A rule of the next line with a priority below all others keeps the order of both lists.
LEMMA RanksNext ==
  ASSUME NEW l \in Seq(Rule), NEW a \in Seq(Rule), NEW n \in Nat, NEW m, m = n + 1,
         NEW p \in [1 .. Len(l) -> 1 .. n], NEW q \in [1 .. Len(a) -> 1 .. n],
         Ranks(l, a, p, q), NEW r \in Rule, r.prio = -(Len(l) + Len(a))
  PROVE  Ranks(Append(l, r), a, Ext(p, Len(l), m), q)
<1> DEFINE l2 == Append(l, r)
           p2 == Ext(p, Len(l), m)
           e == Len(l) + 1
<1>1. /\ Len(l) \in Nat /\ Len(l2) = e /\ Len(a) \in Nat
      /\ \A i \in 1 .. Len(l) : l2[i] = l[i] /\ p2[i] = p[i]
      /\ l2[e] = r /\ p2[e] = m
      /\ \A i \in 1 .. e : i = e \/ i \in 1 .. Len(l)
  BY Appended
<1> HIDE DEF l2, p2, e
<1>2. /\ Ranked(l, p, l, p) /\ Ranked(l, p, a, q) /\ Ranked(a, q, l, p) /\ Ranked(a, q, a, q)
      /\ \A i \in 1 .. Len(l) : -(Len(l) + Len(a)) < l[i].prio
      /\ \A i \in 1 .. Len(a) : -(Len(l) + Len(a)) < a[i].prio
  BY DEF Ranks
<1>3. /\ \A i \in 1 .. Len(l) : p[i] \in 1 .. n /\ ~(m < p[i]) /\ r.prio < l[i].prio
      /\ \A i \in 1 .. Len(a) : q[i] \in 1 .. n /\ ~(m < q[i]) /\ r.prio < a[i].prio
      /\ ~(m < m)
  <2>1. /\ \A i \in 1 .. Len(l) : r.prio < l[i].prio
        /\ \A i \in 1 .. Len(a) : r.prio < a[i].prio
    BY <1>2
  <2>2. /\ \A i \in 1 .. Len(l) : p[i] \in 1 .. n
        /\ \A i \in 1 .. Len(a) : q[i] \in 1 .. n
    OBVIOUS
  <2>3. \A k \in 1 .. n : ~(m < k)
    OBVIOUS
  <2>4. ~(m < m)
    OBVIOUS
  <2>5. QED
    BY <2>1, <2>2, <2>3, <2>4
<1>4. Ranked(l2, p2, l2, p2)
  <2>1. ASSUME NEW i \in 1 .. e, NEW k \in 1 .. e, p2[i] < p2[k]
        PROVE  l2[k].prio < l2[i].prio
    <3>1. i \in 1 .. Len(l)
      BY <1>1, <1>3, <2>1
    <3>2. CASE k = e
      BY <1>1, <1>3, <3>1, <3>2
    <3>3. CASE k \in 1 .. Len(l)
      <4>1. p[i] < p[k] /\ l2[i] = l[i] /\ l2[k] = l[k]
        BY <1>1, <2>1, <3>1, <3>3
      <4>2. QED
        BY <1>2, <3>1, <3>3, <4>1 DEF Ranked
    <3>4. QED
      BY <1>1, <3>2, <3>3
  <2>2. QED
    BY <1>1, <2>1 DEF Ranked
<1>5. Ranked(l2, p2, a, q)
  BY <1>1, <1>2, <1>3 DEF Ranked
<1>6. Ranked(a, q, l2, p2)
  BY <1>1, <1>2, <1>3 DEF Ranked
<1>7. \A i \in 1 .. Len(l) : l[i].prio \in Int
  <2>1. \A i \in 1 .. Len(l) : l[i] \in Rule
    OBVIOUS
  <2>2. QED
    BY <2>1 DEF Rule
<1>8. \A i \in 1 .. Len(a) : a[i].prio \in Int
  <2>1. \A i \in 1 .. Len(a) : a[i] \in Rule
    OBVIOUS
  <2>2. QED
    BY <2>1 DEF Rule
<1>9. -(Len(l2) + Len(a)) < r.prio /\ -(Len(l2) + Len(a)) < -(Len(l) + Len(a))
      /\ -(Len(l2) + Len(a)) \in Int /\ -(Len(l) + Len(a)) \in Int
  BY <1>1 DEF e
<1>10. \A i \in 1 .. Len(l2) : -(Len(l2) + Len(a)) < l2[i].prio
  <2>1. \A i \in 1 .. Len(l) : -(Len(l2) + Len(a)) < l[i].prio
    BY <1>2, <1>7, <1>9
  <2>2. QED
    BY <1>1, <1>9, <2>1
<1>11. \A i \in 1 .. Len(a) : -(Len(l2) + Len(a)) < a[i].prio
  BY <1>2, <1>8, <1>9
<1>12. Ranks(l2, a, p2, q)
  BY <1>2, <1>4, <1>5, <1>6, <1>10, <1>11 DEF Ranks
<1>13. QED
  BY <1>12 DEF l2, p2

\* Routes and ACL entries have the same part in it.
LEMMA RanksBoth ==
  ASSUME NEW l \in Seq(Rule), NEW a \in Seq(Rule), NEW p, NEW q, Ranks(l, a, p, q)
  PROVE  Ranks(a, l, q, p)
<1>1. Len(l) + Len(a) = Len(a) + Len(l)
  OBVIOUS
<1>2. QED
  BY <1>1 DEF Ranks

-----------------------------------------------------------------------------
(* The reasons to refuse.                                                  *)

\* What RefusedForCause accepts as a reason.
CauseIn(f) ==
  \/ named[f] = "unreadable"
  \/ BothNamed /\ ~\E k \in DOMAIN file[f] : file[f][k].lead = "R"
  \/ \E k \in DOMAIN Given(f) :
       LET ln == Given(f)[k]
       IN  \/ ln.lead # "#" /\ (~Legal(ln) \/ ln.form # "good")
           \/ ln.lead = "R" /\ alg = "acl" /\ ~PortEnabled(ln.port)
           \/ ln.lead = "R" /\ alg # "acl" /\ ~Usable(ln)
           \/ ln.lead = "R" /\ alg = "lpm" /\ ln.prefix = Addr
  \/ LET used == {k \in DOMAIN Given(f) : Given(f)[k].lead \in {"R", "@"}}
     IN  Cardinality(IF alg = "acl" THEN used ELSE {Given(f)[k].prefix : k \in used}) > MaxRules[alg]

Cause == (alg = "acl" /\ ~BothNamed) \/ \E f \in Fam : CauseIn(f)

\* A reason stays as long as the inputs do.
LEMMA CauseKept ==
  ASSUME UNCHANGED inFiles, Cause
  PROVE  RefusedForCause'
<1>1. /\ alg' = alg /\ file' = file /\ named' = named /\ (BothNamed' <=> BothNamed)
      /\ \A f : Given(f)' = Given(f)
      /\ \A ln : Legal(ln)' <=> Legal(ln)
  BY Frame
<1>2. CASE alg = "acl" /\ ~BothNamed
  BY <1>1, <1>2 DEF RefusedForCause
<1>3. CASE \E f \in Fam : CauseIn(f)
  <2>1. PICK f \in Fam : CauseIn(f)
    BY <1>3
  <2>2. CASE named[f] = "unreadable"
    BY <1>1, <2>2 DEF RefusedForCause
  <2>3. CASE BothNamed /\ ~\E k \in DOMAIN file[f] : file[f][k].lead = "R"
    BY <1>1, <2>3 DEF RefusedForCause
  <2>4. CASE \E k \in DOMAIN Given(f) :
               LET ln == Given(f)[k]
               IN  \/ ln.lead # "#" /\ (~Legal(ln) \/ ln.form # "good")
                   \/ ln.lead = "R" /\ alg = "acl" /\ ~PortEnabled(ln.port)
                   \/ ln.lead = "R" /\ alg # "acl" /\ ~Usable(ln)
                   \/ ln.lead = "R" /\ alg = "lpm" /\ ln.prefix = Addr
    BY <1>1, <2>4 DEF RefusedForCause
  <2>5. CASE LET used == {k \in DOMAIN Given(f) : Given(f)[k].lead \in {"R", "@"}}
             IN  Cardinality(IF alg = "acl" THEN used ELSE {Given(f)[k].prefix : k \in used})
                   > MaxRules[alg]
    <3> DEFINE used == {k \in DOMAIN Given(f) : Given(f)[k].lead \in {"R", "@"}}
               prefixes == {Given(f)[k].prefix : k \in used}
               all == IF alg = "acl" THEN used ELSE prefixes
    <3>1. used' = used
      BY <1>1
    <3>2. prefixes' = prefixes
      BY <1>1, <3>1
    <3>3. all' = all
      BY <1>1, <3>1, <3>2
    <3>4. Cardinality(all) > MaxRules[alg]
      BY <2>5
    <3>5. (Cardinality(all) > MaxRules[alg])'
      BY <1>1, <3>3, <3>4
    <3>6. QED
      BY <3>5 DEF RefusedForCause
  <2>6. QED
    BY <2>1, <2>2, <2>3, <2>4, <2>5 DEF CauseIn
<1>4. QED
  BY <1>2, <1>3 DEF Cause

\* The program may exit when there is a reason, and the reason stays.
LEMMA ExitStep ==
  ASSUME IInv, RulesExit, Cause
  PROVE  IInv'
<1>1. /\ stage' = "exit" /\ UNCHANGED inFiles
      /\ UNCHANGED <<fam, line, room, routes, acls, next, table>>
  BY DEF RulesExit, read, building
<1>2. RefusedForCause'
  BY <1>1, CauseKept
<1>3. GivenInv' /\ (BothNamed' <=> BothNamed) /\ file' = file
  BY <1>1, Frame DEF IInv
<1>4. TypeInv'
  BY <1>1, <1>3 DEF IInv, TypeInv, RulesTypeOK
<1>5. ReadInv'
  BY <1>1, ReadKept DEF IInv
<1>6. RoomInv'
  BY <1>1 DEF IInv, RoomInv
<1>7. PhaseInv' /\ EmptyInv' /\ KeysInv' /\ ContextInv'
  BY <1>1 DEF PhaseInv, EmptyInv, KeysInv, ContextInv
<1>8. (table = [f \in Fam |-> table[f]])'
  BY <1>1 DEF IInv
<1>9. QED
  BY <1>2, <1>3, <1>4, <1>5, <1>6, <1>7, <1>8 DEF IInv

-----------------------------------------------------------------------------
(* How many.                                                               *)

\* n different elements are not more than there are.
LEMMA NotMore ==
  ASSUME NEW n \in Nat, NEW T, IsFiniteSet(T), NEW g \in [1 .. n -> T],
         \A i, k \in 1 .. n : g[i] = g[k] => i = k
  PROVE  Cardinality(T) \in Nat /\ n <= Cardinality(T)
<1>1. g \in Injection(1 .. n, T)
  BY DEF Injection, IsInjective
<1>2. Cardinality(1 .. n) <= Cardinality(T)
  BY <1>1, FS_Injection
<1>3. Cardinality(1 .. n) = n
  BY FS_Interval
<1>4. Cardinality(T) \in Nat
  BY FS_CardinalityType
<1>5. QED
  BY <1>2, <1>3, <1>4

\* Some of the lines of a file are finitely many.
LEMMA SomeLines ==
  ASSUME NEW n \in Nat, NEW T, T \subseteq 1 .. n
  PROVE  IsFiniteSet(T)
<1>1. IsFiniteSet(1 .. n)
  BY FS_Interval
<1>2. QED
  BY <1>1, FS_Subset

\* The places of different rules are different.
LEMMA PlacesApart ==
  ASSUME NEW l \in Seq(Rule), NEW f, NEW n \in Nat, NEW lead, NEW p, Places(l, f, n, lead, p)
  PROVE  /\ \A i \in 1 .. Len(l) : p[i] \in 1 .. n /\ Source(f)[p[i]].lead = lead
         /\ \A i, k \in 1 .. Len(l) : p[i] = p[k] => i = k
<1>1. /\ \A i \in 1 .. Len(l) : p[i] \in 1 .. n /\ Source(f)[p[i]].lead = lead
      /\ \A i, k \in 1 .. Len(l) : i < k => p[i] < p[k]
  BY DEF Places
<1>2. ASSUME NEW i \in 1 .. Len(l), NEW k \in 1 .. Len(l), p[i] = p[k]
      PROVE  i = k
  <2>1. p[i] \in Nat /\ i \in Nat /\ k \in Nat
    BY <1>1
  <2>2. ~(i < k) /\ ~(k < i)
    BY <1>1, <1>2, <2>1
  <2>3. QED
    BY <2>1, <2>2
<1>3. QED
  BY <1>1, <1>2

\* The second pass finds no more rules than the first has counted.
LEMMA RoomEnough ==
  ASSUME GivenInv, FromFile, NEW f \in Fam, NEW n \in Nat, n <= Len(Source(f)),
         NEW l \in Seq(Rule), NEW lead, NEW p \in [1 .. Len(l) -> 1 .. n],
         Places(l, f, n, lead, p)
  PROVE  Count(f, lead) \in Nat /\ Len(l) <= Count(f, lead)
<1> DEFINE T == {k \in DOMAIN file[f] : file[f][k].lead = lead}
<1>1. Source(f) = file[f] /\ Len(Source(f)) \in Nat /\ Source(f) \in Seq(Line)
  BY SourceLines
<1>2. DOMAIN file[f] = 1 .. Len(Source(f))
  BY <1>1
<1>3. IsFiniteSet(T)
  BY <1>1, <1>2, SomeLines
<1>4. /\ \A i \in 1 .. Len(l) : p[i] \in 1 .. n /\ Source(f)[p[i]].lead = lead
      /\ \A i, k \in 1 .. Len(l) : p[i] = p[k] => i = k
  BY PlacesApart
<1>5. \A i \in 1 .. Len(l) : p[i] \in T
  BY <1>1, <1>2, <1>4
<1> HIDE DEF T
<1>6. p \in [1 .. Len(l) -> T] /\ Len(l) \in Nat
  BY <1>5
<1>7. Cardinality(T) \in Nat /\ Len(l) <= Cardinality(T)
  BY <1>3, <1>4, <1>6, NotMore
<1>8. QED
  BY <1>7 DEF Count, T

\* Two lists of different elements with none in common.
LEMMA NotMoreTogether ==
  ASSUME NEW n1 \in Nat, NEW n2 \in Nat, NEW T, IsFiniteSet(T),
         NEW p \in [1 .. n1 -> T], NEW q \in [1 .. n2 -> T],
         \A i, k \in 1 .. n1 : p[i] = p[k] => i = k,
         \A i, k \in 1 .. n2 : q[i] = q[k] => i = k,
         \A i \in 1 .. n1 : \A k \in 1 .. n2 : p[i] # q[k]
  PROVE  Cardinality(T) \in Nat /\ n1 + n2 <= Cardinality(T)
<1> DEFINE g == [i \in 1 .. n1 + n2 |-> IF i <= n1 THEN p[i] ELSE q[i - n1]]
           N == n1 + n2
<1>1. N \in Nat
  OBVIOUS
<1>2. ASSUME NEW i \in 1 .. N
      PROVE  \/ i \in 1 .. n1 /\ g[i] = p[i]
             \/ i - n1 \in 1 .. n2 /\ g[i] = q[i - n1]
  <2>1. CASE i <= n1
    BY <2>1
  <2>2. CASE ~(i <= n1)
    <3>1. g[i] = q[i - n1]
      BY <2>2
    <3>2. i - n1 \in 1 .. n2
      BY <2>2
    <3>3. QED
      BY <3>1, <3>2
  <2>3. QED
    BY <2>1, <2>2
<1>3. g = [i \in 1 .. N |-> g[i]]
  OBVIOUS
<1>4. \A i, k \in 1 .. N : i - n1 = k - n1 => i = k
  OBVIOUS
<1> HIDE DEF g, N
<1>5. g \in [1 .. N -> T]
  <2>1. \A i \in 1 .. N : g[i] \in T
    BY <1>2
  <2>2. QED
    BY <1>3, <2>1
<1>6. ASSUME NEW i \in 1 .. N, NEW k \in 1 .. N, g[i] = g[k]
      PROVE  i = k
  <2>1. CASE i \in 1 .. n1 /\ g[i] = p[i]
    BY <1>2, <1>6, <2>1
  <2>2. CASE i - n1 \in 1 .. n2 /\ g[i] = q[i - n1]
    <3>1. k - n1 \in 1 .. n2 /\ g[k] = q[k - n1]
      BY <1>2, <1>6, <2>2
    <3>2. i - n1 = k - n1
      BY <1>6, <2>2, <3>1
    <3>3. QED
      BY <1>4, <3>2
  <2>3. QED
    BY <1>2, <2>1, <2>2
<1>7. QED
  BY <1>1, <1>5, <1>6, NotMore DEF N

\* The places of different rules are different, in any set that has the lines of their kind.
LEMMA PlacesIn ==
  ASSUME NEW l \in Seq(Rule), NEW f, NEW n \in Nat, NEW lead, NEW p, Places(l, f, n, lead, p),
         NEW T, IsFiniteSet(T), \A k \in 1 .. n : Source(f)[k].lead = lead => k \in T
  PROVE  /\ p \in [1 .. Len(l) -> T] /\ Len(l) \in Nat
         /\ \A i \in 1 .. Len(l) : Source(f)[p[i]].lead = lead
         /\ \A i, k \in 1 .. Len(l) : p[i] = p[k] => i = k
<1>1. /\ \A i \in 1 .. Len(l) : p[i] \in 1 .. n /\ Source(f)[p[i]].lead = lead
      /\ \A i, k \in 1 .. Len(l) : p[i] = p[k] => i = k
  BY PlacesApart
<1>2. p \in [1 .. Len(l) -> 1 .. n] /\ Len(l) \in Nat
  BY DEF Places
<1>3. QED
  BY <1>1, <1>2

\* The rules of a file are no more than its lines for a route or an ACL entry.
LEMMA RulesAreLines ==
  ASSUME NEW f, NEW n \in Nat, NEW l \in Seq(Rule), NEW a \in Seq(Rule),
         NEW p, NEW q, NEW R, R = "R", NEW A, A = "@",
         Places(l, f, n, R, p), Places(a, f, n, A, q),
         NEW T, IsFiniteSet(T),
         \A k \in 1 .. n : Source(f)[k].lead = R => k \in T,
         \A k \in 1 .. n : Source(f)[k].lead = A => k \in T
  PROVE  Cardinality(T) \in Nat /\ Len(l) + Len(a) <= Cardinality(T)
<1>1. /\ p \in [1 .. Len(l) -> T] /\ Len(l) \in Nat
      /\ \A i \in 1 .. Len(l) : Source(f)[p[i]].lead = R
      /\ \A i, k \in 1 .. Len(l) : p[i] = p[k] => i = k
  BY PlacesIn
<1>2. /\ q \in [1 .. Len(a) -> T] /\ Len(a) \in Nat
      /\ \A i \in 1 .. Len(a) : Source(f)[q[i]].lead = A
      /\ \A i, k \in 1 .. Len(a) : q[i] = q[k] => i = k
  BY PlacesIn
<1>3. \A i \in 1 .. Len(l) : \A k \in 1 .. Len(a) : p[i] # q[k]
  <2>1. R # A
    OBVIOUS
  <2>2. QED
    BY <1>1, <1>2, <2>1
<1>4. QED
  BY <1>1, <1>2, <1>3, NotMoreTogether

-----------------------------------------------------------------------------
(* Reading.                                                                *)

\* With both files, or for all but ACL, the lines are those the user is told of.
LEMMA SourceIsGiven ==
  ASSUME GivenInv, alg # "acl" \/ BothNamed, NEW f \in Fam
  PROVE  Source(f) = Given(f) /\ DOMAIN Given(f) = 1 .. Len(Source(f))
<1>1. Source(f) = Given(f)
  BY DEF Source, Given, FromFile
<1>2. Source(f) \in Seq(Line)
  BY SourceLines
<1>3. QED
  BY <1>1, <1>2

\* A line that was let through.
LetThrough(f, ln) ==
  ln.lead # "#" =>
    /\ Legal(ln)
    /\ ln.form = "good" \/ ToleratedIn(f, ln)
    /\ alg = "acl" /\ ln.lead = "R" => PortEnabled(ln.port)

\* One line more that was let through.
LEMMA CheckedNext ==
  ASSUME NEW f, NEW n \in Nat, NEW m, m = n + 1, Checked(f, n), LetThrough(f, Source(f)[m])
  PROVE  Checked(f, m)
<1>1. \A k \in 1 .. m : k = m \/ k \in 1 .. n
  OBVIOUS
<1>2. \A k \in 1 .. n : LetThrough(f, Source(f)[k])
  BY DEF Checked, LetThrough
<1>3. \A k \in 1 .. m : LetThrough(f, Source(f)[k])
  BY <1>1, <1>2
<1>4. QED
  BY <1>3 DEF Checked, LetThrough

\* A line with a route.
LEMMA RouteRead ==
  ASSUME NEW l \in Seq(Rule), NEW a \in Seq(Rule), NEW f, NEW n \in Nat, NEW m, m = n + 1,
         NEW p \in [1 .. Len(l) -> 1 .. n], NEW q \in [1 .. Len(a) -> 1 .. n],
         ReadOf(l, a, f, n, p, q), LetThrough(f, Source(f)[m]),
         NEW r \in Rule, RuleOfLine(r, f, Source(f)[m]),
         alg = "acl" => r.prio = -(Len(l) + Len(a)),
         Source(f)[m].lead = "R"
  PROVE  /\ ReadOf(Append(l, r), a, f, m, Ext(p, Len(l), m), q)
         /\ Ext(p, Len(l), m) \in [1 .. Len(Append(l, r)) -> 1 .. m]
         /\ q \in [1 .. Len(a) -> 1 .. m]
<1>1. /\ Places(l, f, n, "R", p) /\ Places(a, f, n, "@", q) /\ Checked(f, n)
      /\ alg = "acl" => Ranks(l, a, p, q)
  BY DEF ReadOf
<1>2. /\ Places(Append(l, r), f, m, "R", Ext(p, Len(l), m))
      /\ Ext(p, Len(l), m) \in [1 .. Len(Append(l, r)) -> 1 .. m]
  BY <1>1, PlacesNext
<1>3. Source(f)[m].lead # "@"
  OBVIOUS
<1>4. Places(a, f, m, "@", q) /\ q \in [1 .. Len(a) -> 1 .. m]
  BY <1>1, <1>3, PlacesSkip
<1>5. Checked(f, m)
  BY <1>1, CheckedNext
<1>6. ASSUME alg = "acl"
      PROVE  Ranks(Append(l, r), a, Ext(p, Len(l), m), q)
  BY <1>1, <1>6, RanksNext
<1>7. QED
  BY <1>2, <1>4, <1>5, <1>6 DEF ReadOf

\* A line with an ACL entry.
LEMMA EntryRead ==
  ASSUME NEW l \in Seq(Rule), NEW a \in Seq(Rule), NEW f, NEW n \in Nat, NEW m, m = n + 1,
         NEW p \in [1 .. Len(l) -> 1 .. n], NEW q \in [1 .. Len(a) -> 1 .. n],
         ReadOf(l, a, f, n, p, q), LetThrough(f, Source(f)[m]),
         NEW r \in Rule, RuleOfLine(r, f, Source(f)[m]),
         alg = "acl" => r.prio = -(Len(l) + Len(a)),
         Source(f)[m].lead = "@"
  PROVE  /\ ReadOf(l, Append(a, r), f, m, p, Ext(q, Len(a), m))
         /\ Ext(q, Len(a), m) \in [1 .. Len(Append(a, r)) -> 1 .. m]
         /\ p \in [1 .. Len(l) -> 1 .. m]
<1>1. /\ Places(l, f, n, "R", p) /\ Places(a, f, n, "@", q) /\ Checked(f, n)
      /\ alg = "acl" => Ranks(l, a, p, q)
  BY DEF ReadOf
<1>2. /\ Places(Append(a, r), f, m, "@", Ext(q, Len(a), m))
      /\ Ext(q, Len(a), m) \in [1 .. Len(Append(a, r)) -> 1 .. m]
  BY <1>1, PlacesNext
<1>3. Source(f)[m].lead # "R"
  OBVIOUS
<1>4. Places(l, f, m, "R", p) /\ p \in [1 .. Len(l) -> 1 .. m]
  BY <1>1, <1>3, PlacesSkip
<1>5. Checked(f, m)
  BY <1>1, CheckedNext
<1>6. ASSUME alg = "acl"
      PROVE  Ranks(l, Append(a, r), p, Ext(q, Len(a), m))
  <2>1. Ranks(a, l, q, p)
    BY <1>1, <1>6, RanksBoth
  <2>2. r.prio = -(Len(a) + Len(l))
    BY <1>6
  <2>3. Ranks(Append(a, r), l, Ext(q, Len(a), m), p)
    BY <2>1, <2>2, RanksNext
  <2>4. Append(a, r) \in Seq(Rule)
    OBVIOUS
  <2>5. QED
    BY <2>3, <2>4, RanksBoth
<1>7. QED
  BY <1>2, <1>4, <1>5, <1>6 DEF ReadOf

\* A comment.
LEMMA CommentRead ==
  ASSUME NEW l \in Seq(Rule), NEW a \in Seq(Rule), NEW f, NEW n \in Nat, NEW m, m = n + 1,
         NEW p \in [1 .. Len(l) -> 1 .. n], NEW q \in [1 .. Len(a) -> 1 .. n],
         ReadOf(l, a, f, n, p, q), Source(f)[m].lead = "#"
  PROVE  /\ ReadOf(l, a, f, m, p, q)
         /\ p \in [1 .. Len(l) -> 1 .. m] /\ q \in [1 .. Len(a) -> 1 .. m]
<1>1. /\ Places(l, f, n, "R", p) /\ Places(a, f, n, "@", q) /\ Checked(f, n)
      /\ alg = "acl" => Ranks(l, a, p, q)
  BY DEF ReadOf
<1>2. Source(f)[m].lead # "R" /\ Source(f)[m].lead # "@" /\ LetThrough(f, Source(f)[m])
  BY DEF LetThrough
<1>3. Places(l, f, m, "R", p) /\ p \in [1 .. Len(l) -> 1 .. m]
  BY <1>1, <1>2, PlacesSkip
<1>4. Places(a, f, m, "@", q) /\ q \in [1 .. Len(a) -> 1 .. m]
  BY <1>1, <1>2, PlacesSkip
<1>5. Checked(f, m)
  BY <1>1, <1>2, CheckedNext
<1>6. QED
  BY <1>1, <1>3, <1>4, <1>5 DEF ReadOf

\* What was read of a file before the program ends.
LEMMA ReadSoFar ==
  ASSUME ReadInv, stage # "exit", NEW f \in Fam
  PROVE  /\ Done(f) \in 0 .. Len(Source(f))
         /\ \E p \in [1 .. Len(routes[f]) -> 1 .. Done(f)], q \in [1 .. Len(acls[f]) -> 1 .. Done(f)] :
              ReadOf(routes[f], acls[f], f, Done(f), p, q)
BY DEF ReadInv

\* The types of the variables, in the form the steps use.
LEMMA Types ==
  ASSUME IInv
  PROVE  /\ alg \in Alg /\ fam \in Fam /\ line \in Nat /\ next \in Nat
         /\ routes \in [Fam -> Seq(Rule)] /\ acls \in [Fam -> Seq(Rule)]
         /\ \A f \in Fam : /\ routes[f] \in Seq(Rule) /\ Len(routes[f]) \in Nat
                           /\ acls[f] \in Seq(Rule) /\ Len(acls[f]) \in Nat
                           /\ Len(file[f]) \in Nat /\ DOMAIN file[f] = 1 .. Len(file[f])
<1>1. /\ alg \in Alg /\ fam \in Fam /\ next \in Nat
      /\ routes \in [Fam -> Seq(Rule)] /\ acls \in [Fam -> Seq(Rule)]
      /\ line \in 0 .. Len(file[fam])
      /\ file \in [Fam -> Seq(Lines)]
  BY DEF IInv, GivenInv, TypeInv, RulesTypeOK
<1>2. \A f \in Fam : /\ routes[f] \in Seq(Rule) /\ Len(routes[f]) \in Nat
                     /\ acls[f] \in Seq(Rule) /\ Len(acls[f]) \in Nat
  BY <1>1
<1>3. \A f \in Fam : Len(file[f]) \in Nat /\ DOMAIN file[f] = 1 .. Len(file[f])
  <2>1. \A f \in Fam : file[f] \in Seq(Lines)
    BY <1>1
  <2>2. QED
    BY <2>1
<1>4. QED
  BY <1>1, <1>2, <1>3

\* The rule of a line.
LEMMA RuleOfIsRule ==
  ASSUME IInv, NEW ln, ln.prefix \in Prefix, ln.port \in PortNo
  PROVE  /\ RuleOf(ln) \in Rule /\ RuleOfLine(RuleOf(ln), fam, ln)
         /\ alg = "acl" => RuleOf(ln).prio = -(Len(routes[fam]) + Len(acls[fam]))
<1>1. Tolerated(ln) <=> ToleratedIn(fam, ln)
  BY DEF Tolerated, ToleratedIn
<1>2. TotalNum \in Int /\ TotalNum = Len(routes[fam]) + Len(acls[fam])
  BY Types DEF TotalNum
<1>3. RuleOf(ln) \in Rule
  BY <1>2 DEF RuleOf, Rule, Priority
<1>4. RuleOfLine(RuleOf(ln), fam, ln)
  BY <1>1 DEF RuleOf, RuleOfLine
<1>5. alg = "acl" => RuleOf(ln).prio = -(Len(routes[fam]) + Len(acls[fam]))
  BY <1>2 DEF RuleOf, Priority
<1>6. QED
  BY <1>3, <1>4, <1>5

\* Reading the next line, or refusing it.
LEMMA LineLetThrough ==
  ASSUME IInv, stage = "read", line < Len(file[fam]), NEW ln, ln = file[fam][line + 1]
  PROVE  /\ ln = Source(fam)[line + 1] /\ ln.prefix \in Prefix /\ ln.port \in PortNo
         /\ ln.lead \in {"R", "@", "#", "?"}
         /\ (\/ Bypassed(ln)
             \/ Legal(ln) /\ Parsed(ln) /\ ~(alg = "acl" /\ ln.lead = "R" /\ ~PortEnabled(ln.port)))
            => LetThrough(fam, ln)
         /\ (/\ ~Bypassed(ln)
             /\ \/ ~Legal(ln) \/ ~Parsed(ln)
                \/ alg = "acl" /\ ln.lead = "R" /\ ~PortEnabled(ln.port))
            => Cause
<1>1. fam \in Fam /\ FromFile /\ GivenInv /\ line \in Nat /\ Len(file[fam]) \in Nat
  BY Types DEF IInv, PhaseInv
<1>2. Source(fam) = file[fam] /\ line + 1 \in 1 .. Len(Source(fam))
  BY <1>1, SourceLines
<1>3. /\ ln = Source(fam)[line + 1] /\ ln.prefix \in Prefix /\ ln.port \in PortNo
      /\ ln.lead \in {"R", "@", "#", "?"}
  BY <1>1, <1>2, SourceLines
<1>4. Parsed(ln) <=> ln.form = "good" \/ ToleratedIn(fam, ln)
  BY DEF Parsed, Tolerated, ToleratedIn
<1>5. (\/ Bypassed(ln)
       \/ Legal(ln) /\ Parsed(ln) /\ ~(alg = "acl" /\ ln.lead = "R" /\ ~PortEnabled(ln.port)))
      => LetThrough(fam, ln)
  BY <1>4 DEF Bypassed, LetThrough
<1>6. ASSUME ~Bypassed(ln),
             \/ ~Legal(ln) \/ ~Parsed(ln)
             \/ alg = "acl" /\ ln.lead = "R" /\ ~PortEnabled(ln.port)
      PROVE  Cause
  <2>1. CASE ~BothNamed
    BY <1>1, <2>1 DEF FromFile, Cause
  <2>2. CASE BothNamed
    <3>1. Given(fam) = Source(fam) /\ line + 1 \in DOMAIN Given(fam)
      BY <1>1, <1>2, <2>2, SourceIsGiven
    <3>2. ln = Given(fam)[line + 1]
      BY <1>3, <3>1
    <3>3. \/ ln.lead # "#" /\ (~Legal(ln) \/ ln.form # "good")
          \/ ln.lead = "R" /\ alg = "acl" /\ ~PortEnabled(ln.port)
      BY <1>4, <1>6 DEF Bypassed
    <3>4. CauseIn(fam)
      BY <3>1, <3>2, <3>3 DEF CauseIn
    <3>5. QED
      BY <1>1, <3>4 DEF Cause
  <2>3. QED
    BY <2>1, <2>2
<1>7. QED
  BY <1>3, <1>5, <1>6

\* But for ACL no line becomes an ACL entry.
LEMMA NoEntries ==
  ASSUME alg # "acl", NEW f, NEW n \in Nat, NEW a \in Seq(Rule), NEW q,
         Checked(f, n), Places(a, f, n, "@", q)
  PROVE  Len(a) = 0
<1>1. ASSUME 1 \in 1 .. Len(a)
      PROVE  FALSE
  <2>1. q[1] \in 1 .. n /\ Source(f)[q[1]].lead = "@"
    BY <1>1, PlacesApart
  <2>2. Legal(Source(f)[q[1]])
    BY <2>1 DEF Checked
  <2>3. QED
    BY <2>1, <2>2 DEF Legal, Leads
<1>2. Len(a) \in Nat
  OBVIOUS
<1>3. QED
  BY <1>1, <1>2

\* What is read of a file fits into the arrays of its first pass.
LEMMA Fits ==
  ASSUME GivenInv, FromFile, NEW f \in Fam, NEW n \in Nat, n <= Len(Source(f)),
         NEW l \in Seq(Rule), NEW a \in Seq(Rule),
         NEW p \in [1 .. Len(l) -> 1 .. n], NEW q \in [1 .. Len(a) -> 1 .. n],
         ReadOf(l, a, f, n, p, q)
  PROVE  /\ Count(f, "R") \in Nat /\ Len(l) <= Count(f, "R")
         /\ Len(a) <= IF alg = "acl" THEN Count(f, "@") ELSE 0
         /\ Count(f, "@") \in Nat
<1>1. Places(l, f, n, "R", p) /\ Places(a, f, n, "@", q) /\ Checked(f, n)
  BY DEF ReadOf
<1>2. Count(f, "R") \in Nat /\ Len(l) <= Count(f, "R")
  BY <1>1, RoomEnough
<1>3. Count(f, "@") \in Nat /\ Len(a) <= Count(f, "@")
  BY <1>1, RoomEnough
<1>4. alg # "acl" => Len(a) = 0
  BY <1>1, NoEntries
<1>5. QED
  BY <1>2, <1>3, <1>4

\* What is known of one file after a step.
LEMMA ReadOne ==
  ASSUME UNCHANGED inFiles, NEW f, NEW n \in 0 .. Len(Source(f)), n = Done(f)',
         NEW p \in [1 .. Len(routes'[f]) -> 1 .. n], NEW q \in [1 .. Len(acls'[f]) -> 1 .. n],
         ReadOf(routes'[f], acls'[f], f, n, p, q)
  PROVE  \E k \in 0 .. Len(Source(f)') :
           /\ stage' # "exit" => k = Done(f)'
           /\ \E pp \in [1 .. Len(routes'[f]) -> 1 .. k], qq \in [1 .. Len(acls'[f]) -> 1 .. k] :
                ReadOf(routes[f], acls[f], f, k, pp, qq)'
<1>1. Source(f)' = Source(f)
  BY Frame
<1>2. ReadOf(routes[f], acls[f], f, n, p, q)'
  BY ReadOfAfter
<1>3. QED
  BY <1>1, <1>2

\* A step that goes on with one file.
LEMMA ReadMore ==
  ASSUME ReadInv, UNCHANGED inFiles, stage # "exit", NEW g \in Fam,
         \A f \in Fam : f # g => /\ routes'[f] = routes[f] /\ acls'[f] = acls[f]
                                 /\ Done(f)' = Done(f),
         \E n \in 0 .. Len(Source(g)) :
           /\ n = Done(g)'
           /\ \E p \in [1 .. Len(routes'[g]) -> 1 .. n], q \in [1 .. Len(acls'[g]) -> 1 .. n] :
                ReadOf(routes'[g], acls'[g], g, n, p, q)
  PROVE  ReadInv'
<1>1. ASSUME NEW f \in Fam
      PROVE  \E n \in 0 .. Len(Source(f)) :
               /\ n = Done(f)'
               /\ \E p \in [1 .. Len(routes'[f]) -> 1 .. n], q \in [1 .. Len(acls'[f]) -> 1 .. n] :
                    ReadOf(routes'[f], acls'[f], f, n, p, q)
  <2>1. CASE f = g
    BY <2>1
  <2>2. CASE f # g
    <3>1. routes'[f] = routes[f] /\ acls'[f] = acls[f] /\ Done(f) = Done(f)'
      BY <2>2
    <3>2. /\ Done(f) \in 0 .. Len(Source(f))
          /\ \E p \in [1 .. Len(routes[f]) -> 1 .. Done(f)], q \in [1 .. Len(acls[f]) -> 1 .. Done(f)] :
               ReadOf(routes[f], acls[f], f, Done(f), p, q)
      BY ReadSoFar
    <3>3. QED
      BY <3>1, <3>2
  <2>3. QED
    BY <2>1, <2>2
<1>2. ASSUME NEW f \in Fam
      PROVE  \E n \in 0 .. Len(Source(f)') :
               /\ stage' # "exit" => n = Done(f)'
               /\ \E p \in [1 .. Len(routes'[f]) -> 1 .. n], q \in [1 .. Len(acls'[f]) -> 1 .. n] :
                    ReadOf(routes[f], acls[f], f, n, p, q)'
  <2>1. PICK n \in 0 .. Len(Source(f)) :
          /\ n = Done(f)'
          /\ \E p \in [1 .. Len(routes'[f]) -> 1 .. n], q \in [1 .. Len(acls'[f]) -> 1 .. n] :
               ReadOf(routes'[f], acls'[f], f, n, p, q)
    BY <1>1
  <2>2. PICK p \in [1 .. Len(routes'[f]) -> 1 .. n], q \in [1 .. Len(acls'[f]) -> 1 .. n] :
          ReadOf(routes'[f], acls'[f], f, n, p, q)
    BY <2>1
  <2>3. QED
    BY <2>1, <2>2, ReadOne
<1>3. QED
  BY <1>2 DEF ReadInv

\* ReadLine, when the line is let through.
LEMMA ReadLineReads ==
  ASSUME IInv, stage = "read", line < Len(file[fam]), NEW ln, ln = file[fam][line + 1],
         LetThrough(fam, ln), Bypassed(ln) \/ Legal(ln),
         routes' = IF Bypassed(ln) \/ ln.lead = "@" THEN routes
                   ELSE [routes EXCEPT ![fam] = Append(@, RuleOf(ln))],
         acls' = IF ~Bypassed(ln) /\ ln.lead = "@"
                 THEN [acls EXCEPT ![fam] = Append(@, RuleOf(ln))] ELSE acls
  PROVE  /\ routes' \in [Fam -> Seq(Rule)] /\ acls' \in [Fam -> Seq(Rule)]
         /\ \A f \in Fam : f # fam => routes'[f] = routes[f] /\ acls'[f] = acls[f]
         /\ line + 1 \in 0 .. Len(Source(fam)) /\ Source(fam) = file[fam]
         /\ \E p \in [1 .. Len(routes'[fam]) -> 1 .. line + 1],
               q \in [1 .. Len(acls'[fam]) -> 1 .. line + 1] :
              ReadOf(routes'[fam], acls'[fam], fam, line + 1, p, q)
<1> DEFINE m == line + 1
           l == routes[fam]
           a == acls[fam]
           r == RuleOf(ln)
<1>1. /\ fam \in Fam /\ l \in Seq(Rule) /\ a \in Seq(Rule) /\ line \in Nat
      /\ routes \in [Fam -> Seq(Rule)] /\ acls \in [Fam -> Seq(Rule)]
      /\ Len(file[fam]) \in Nat
  BY Types
<1>2. ln = Source(fam)[m] /\ ln.prefix \in Prefix /\ ln.port \in PortNo
      /\ ln.lead \in {"R", "@", "#", "?"}
  BY LineLetThrough
<1>3. /\ r \in Rule /\ RuleOfLine(r, fam, ln)
      /\ alg = "acl" => r.prio = -(Len(l) + Len(a))
  BY <1>2, RuleOfIsRule
<1>4. Source(fam) = file[fam] /\ m \in 0 .. Len(Source(fam)) /\ m = line + 1
  <2>1. FromFile /\ GivenInv
    BY DEF IInv, PhaseInv
  <2>2. Source(fam) = file[fam]
    BY <1>1, <2>1, SourceLines
  <2>3. QED
    BY <1>1, <2>2
<1>5. PICK p \in [1 .. Len(l) -> 1 .. line], q \in [1 .. Len(a) -> 1 .. line] :
        ReadOf(l, a, fam, line, p, q)
  <2>1. Done(fam) = line
    BY <1>1 DEF Done, Fam
  <2>2. ReadInv
    BY DEF IInv
  <2>3. QED
    BY <1>1, <2>1, <2>2, ReadSoFar
<1>6. LetThrough(fam, Source(fam)[m]) /\ RuleOfLine(r, fam, Source(fam)[m])
  BY <1>2, <1>3
<1> HIDE DEF m, r, l, a
<1>7. CASE Bypassed(ln)
  <2>1. routes' = routes /\ acls' = acls /\ routes'[fam] = l /\ acls'[fam] = a
    BY <1>7 DEF l, a
  <2>2. Source(fam)[m].lead = "#"
    BY <1>2, <1>7 DEF Bypassed
  <2>3. /\ ReadOf(l, a, fam, m, p, q)
        /\ p \in [1 .. Len(l) -> 1 .. m] /\ q \in [1 .. Len(a) -> 1 .. m]
    BY <1>1, <1>4, <1>5, <2>2, CommentRead
  <2>4. QED
    BY <1>1, <1>4, <2>1, <2>3 DEF m
<1>8. CASE ~Bypassed(ln) /\ ln.lead = "@"
  <2>1. /\ routes' = routes /\ routes'[fam] = l /\ acls' \in [Fam -> Seq(Rule)]
        /\ acls'[fam] = Append(a, r) /\ \A f \in Fam : f # fam => acls'[f] = acls[f]
    BY <1>1, <1>3, <1>8 DEF r, l, a
  <2>2. Source(fam)[m].lead = "@"
    BY <1>2, <1>8
  <2>3. /\ ReadOf(l, Append(a, r), fam, m, p, Ext(q, Len(a), m))
        /\ Ext(q, Len(a), m) \in [1 .. Len(Append(a, r)) -> 1 .. m]
        /\ p \in [1 .. Len(l) -> 1 .. m]
    BY <1>1, <1>3, <1>4, <1>5, <1>6, <2>2, EntryRead
  <2>4. QED
    BY <1>1, <1>4, <2>1, <2>3 DEF m
<1>9. CASE ~Bypassed(ln) /\ ln.lead # "@"
  <2>1. /\ acls' = acls /\ acls'[fam] = a /\ routes' \in [Fam -> Seq(Rule)]
        /\ routes'[fam] = Append(l, r) /\ \A f \in Fam : f # fam => routes'[f] = routes[f]
    BY <1>1, <1>3, <1>9 DEF r, l, a
  <2>2. Source(fam)[m].lead = "R"
    BY <1>2, <1>9 DEF Legal, Leads
  <2>3. /\ ReadOf(Append(l, r), a, fam, m, Ext(p, Len(l), m), q)
        /\ Ext(p, Len(l), m) \in [1 .. Len(Append(l, r)) -> 1 .. m]
        /\ q \in [1 .. Len(a) -> 1 .. m]
    BY <1>1, <1>3, <1>4, <1>5, <1>6, <2>2, RouteRead
  <2>4. QED
    BY <1>1, <1>4, <2>1, <2>3 DEF m
<1>10. QED
  BY <1>7, <1>8, <1>9

\* ReadLine keeps the invariant.
LEMMA ReadLineStep ==
  ASSUME IInv, ReadLine
  PROVE  IInv'
<1> DEFINE ln == file[fam][line + 1]
           bad == /\ ~Bypassed(ln)
                  /\ \/ ~Legal(ln)
                     \/ ~Parsed(ln)
                     \/ alg = "acl" /\ ln.lead = "R" /\ ~PortEnabled(ln.port)
<1>1. /\ stage = "read" /\ line < Len(file[fam])
      /\ IF bad THEN RulesExit
         ELSE /\ routes' = IF Bypassed(ln) \/ ln.lead = "@" THEN routes
                           ELSE [routes EXCEPT ![fam] = Append(@, RuleOf(ln))]
              /\ acls' = IF ~Bypassed(ln) /\ ln.lead = "@"
                         THEN [acls EXCEPT ![fam] = Append(@, RuleOf(ln))] ELSE acls
              /\ line' = line + 1
              /\ UNCHANGED <<inFiles, stage, fam, room, building>>
  BY DEF ReadLine
<1>2. bad => Cause
  BY <1>1, LineLetThrough
<1>3. ~bad => LetThrough(fam, ln) /\ (Bypassed(ln) \/ Legal(ln))
  BY <1>1, LineLetThrough
<1>4. CASE bad
  BY <1>1, <1>2, <1>4, ExitStep
<1>5. CASE ~bad
  <2>1. /\ UNCHANGED inFiles /\ stage' = stage /\ fam' = fam /\ room' = room
        /\ next' = next /\ table' = table /\ line' = line + 1
    BY <1>1, <1>5 DEF building
  <2>2. /\ routes' \in [Fam -> Seq(Rule)] /\ acls' \in [Fam -> Seq(Rule)]
        /\ \A f \in Fam : f # fam => routes'[f] = routes[f] /\ acls'[f] = acls[f]
        /\ line + 1 \in 0 .. Len(Source(fam)) /\ Source(fam) = file[fam]
        /\ \E p \in [1 .. Len(routes'[fam]) -> 1 .. line + 1],
              q \in [1 .. Len(acls'[fam]) -> 1 .. line + 1] :
             ReadOf(routes'[fam], acls'[fam], fam, line + 1, p, q)
    <3>1. /\ routes' = IF Bypassed(ln) \/ ln.lead = "@" THEN routes
                       ELSE [routes EXCEPT ![fam] = Append(@, RuleOf(ln))]
          /\ acls' = IF ~Bypassed(ln) /\ ln.lead = "@"
                     THEN [acls EXCEPT ![fam] = Append(@, RuleOf(ln))] ELSE acls
      BY <1>1, <1>5
    <3> HIDE DEF bad
    <3>2. QED
      BY <1>1, <1>3, <1>5, <3>1, ReadLineReads
  <2> HIDE DEF ln, bad
  <2>3. /\ fam \in Fam /\ line \in Nat /\ next \in Nat /\ Len(file[fam]) \in Nat
        /\ FromFile /\ GivenInv /\ room[fam].route = Count(fam, "R")
        /\ room[fam].acl = IF alg = "acl" THEN Count(fam, "@") ELSE 0
    BY <1>1, Types DEF IInv, PhaseInv, RoomInv
  <2>4. /\ \A f : Source(f)' = Source(f)
        /\ file' = file /\ named' = named /\ alg' = alg
        /\ (FromFile' <=> FromFile) /\ (BothNamed' <=> BothNamed) /\ GivenInv'
        /\ \A f, lead : Count(f, lead)' = Count(f, lead)
        /\ \A f : Given(f)' = Given(f)
    BY <2>1, <2>3, Frame
  <2>5. Done(fam)' = line + 1 /\ \A f \in Fam : f # fam => Done(f)' = Done(f)
    <3>1. Done(fam)' = line + 1
      BY <1>1, <2>1, <2>3 DEF Done, Fam
    <3>2. \A f \in Fam : f # fam => Done(f)' = Done(f)
      BY <1>1, <2>1, <2>3, <2>4 DEF Done, Fam
    <3>3. QED
      BY <3>1, <3>2
  <2>6. ReadInv'
    <3>1. ReadInv
      BY DEF IInv
    <3>2. \E n \in 0 .. Len(Source(fam)) :
            /\ n = Done(fam)'
            /\ \E p \in [1 .. Len(routes'[fam]) -> 1 .. n], q \in [1 .. Len(acls'[fam]) -> 1 .. n] :
                 ReadOf(routes'[fam], acls'[fam], fam, n, p, q)
      BY <2>2, <2>5
    <3>3. QED
      BY <1>1, <2>1, <2>2, <2>3, <2>5, <3>1, <3>2, ReadMore
  <2>7. Len(routes'[fam]) <= room[fam].route /\ Len(acls'[fam]) <= room[fam].acl
    <3>1. PICK p \in [1 .. Len(routes'[fam]) -> 1 .. line + 1],
               q \in [1 .. Len(acls'[fam]) -> 1 .. line + 1] :
            ReadOf(routes'[fam], acls'[fam], fam, line + 1, p, q)
      BY <2>2
    <3>2. line + 1 \in Nat /\ line + 1 <= Len(Source(fam))
      BY <2>2, <2>3
    <3>3. routes'[fam] \in Seq(Rule) /\ acls'[fam] \in Seq(Rule)
      BY <2>2, <2>3
    <3> DEFINE n == line + 1
               l == routes'[fam]
               a == acls'[fam]
    <3>4. /\ n \in Nat /\ n <= Len(Source(fam)) /\ l \in Seq(Rule) /\ a \in Seq(Rule)
          /\ p \in [1 .. Len(l) -> 1 .. n] /\ q \in [1 .. Len(a) -> 1 .. n]
          /\ ReadOf(l, a, fam, n, p, q)
      BY <3>1, <3>2, <3>3
    <3> HIDE DEF n, l, a
    <3>5. /\ Len(l) <= Count(fam, "R")
          /\ Len(a) <= IF alg = "acl" THEN Count(fam, "@") ELSE 0
      BY <2>3, <3>4, Fits
    <3>6. QED
      BY <2>3, <3>5 DEF l, a
  <2>8. TypeInv'
    <3>1. \A f \in Fam : /\ routes'[f] \in Seq(Rule) /\ acls'[f] \in Seq(Rule)
                         /\ BothNamed' => Len(routes'[f]) <= room'[f].route
                                          /\ Len(acls'[f]) <= room'[f].acl
      <4>1. \A f \in Fam : BothNamed => Len(routes[f]) <= room[f].route
                                        /\ Len(acls[f]) <= room[f].acl
        BY DEF IInv, TypeInv, RulesTypeOK
      <4>2. QED
        BY <2>1, <2>2, <2>4, <2>7, <4>1
    <3>2. line' \in 0 .. Len(file'[fam'])
      BY <2>1, <2>2, <2>4
    <3>3. QED
      BY <1>1, <2>1, <2>2, <2>3, <3>1, <3>2 DEF TypeInv, RulesTypeOK
  <2>9. PhaseInv'
    BY <1>1, <2>1, <2>3, <2>4 DEF IInv, PhaseInv
  <2>10. RoomInv'
    BY <1>1, <2>1, <2>3, <2>4 DEF IInv, RoomInv
  <2>11. EmptyInv' /\ KeysInv' /\ ContextInv' /\ (table = [f \in Fam |-> table[f]])'
    BY <1>1, <2>1 DEF IInv, EmptyInv, KeysInv, ContextInv
  <2>12. RefusedForCause'
    BY <1>1, <2>1 DEF RefusedForCause
  <2>13. QED
    BY <2>4, <2>6, <2>8, <2>9, <2>10, <2>11, <2>12 DEF IInv
<1>6. QED
  BY <1>4, <1>5

\* ReadNames keeps the invariant.
LEMMA ReadNamesStep ==
  ASSUME IInv, ReadNames
  PROVE  IInv'
<1>1. /\ stage = "names" /\ FromFile /\ stage' = "open"
      /\ UNCHANGED inFiles /\ UNCHANGED <<fam, line, room, routes, acls, next, table>>
  BY DEF ReadNames, FromFile, read, building
<1>2. /\ file' = file /\ GivenInv' /\ (BothNamed' <=> BothNamed) /\ FromFile'
      /\ \A f : Source(f)' = Source(f)
  BY <1>1, Frame DEF IInv
<1>3. fam = 4 /\ line = 0
  BY <1>1 DEF IInv, PhaseInv
<1>4. ReadInv'
  <2>1. \A f \in Fam : Done(f)' = Done(f)
    BY <1>1, <1>2, <1>3 DEF Done, Fam
  <2>2. ReadInv /\ UNCHANGED <<inFiles, routes, acls>>
    BY <1>1 DEF IInv
  <2>3. stage # "exit"
    BY <1>1
  <2>4. QED
    BY <2>1, <2>2, <2>3, ReadKept
<1>5. TypeInv'
  BY <1>1, <1>2 DEF IInv, TypeInv, RulesTypeOK
<1>6. PhaseInv' /\ RoomInv'
  BY <1>1, <1>2, <1>3 DEF IInv, PhaseInv, RoomInv
<1>7. EmptyInv' /\ KeysInv' /\ ContextInv' /\ RefusedForCause' /\ (table = [f \in Fam |-> table[f]])'
  BY <1>1 DEF IInv, EmptyInv, KeysInv, ContextInv, RefusedForCause
<1>8. QED
  BY <1>2, <1>4, <1>5, <1>6, <1>7 DEF IInv

\* The first pass finds no route only where there is none.
LEMMA NoRoutes ==
  ASSUME GivenInv, NEW f \in Fam, Count(f, "R") = 0
  PROVE  ~\E k \in DOMAIN file[f] : file[f][k].lead = "R"
<1> DEFINE T == {k \in DOMAIN file[f] : file[f][k].lead = "R"}
<1>1. Len(file[f]) \in Nat /\ DOMAIN file[f] = 1 .. Len(file[f])
  <2>1. file[f] \in Seq(Lines)
    BY DEF GivenInv
  <2>2. QED
    BY <2>1
<1>2. IsFiniteSet(T)
  BY <1>1, SomeLines
<1>3. Cardinality(T) = 0
  BY DEF Count
<1> HIDE DEF T
<1>4. T = {}
  BY <1>2, <1>3, FS_EmptySet
<1>5. QED
  BY <1>4 DEF T

\* OpenFile keeps the invariant.
LEMMA OpenFileStep ==
  ASSUME IInv, OpenFile
  PROVE  IInv'
<1> DEFINE c == IF alg = "acl" THEN Count(fam, "@") ELSE 0
           new == [route |-> Count(fam, "R"), acl |-> c]
           bad == named[fam] # "readable" \/ Count(fam, "R") = 0
<1>1. /\ stage = "open"
      /\ IF bad THEN RulesExit
         ELSE /\ room' = [room EXCEPT ![fam] = new]
              /\ stage' = "read"
              /\ UNCHANGED <<inFiles, fam, line, routes, acls, building>>
  BY DEF OpenFile
<1>2. /\ fam \in Fam /\ FromFile /\ GivenInv /\ line = 0 /\ ReadInv
      /\ Len(Source(fam)) \in Nat /\ Source(fam) = file[fam]
  <2>1. fam \in Fam /\ FromFile /\ GivenInv /\ line = 0 /\ ReadInv
    BY <1>1, Types DEF IInv, PhaseInv
  <2>2. QED
    BY <2>1, SourceLines
<1>3. CASE bad
  <2>1. Cause
    <3>1. CASE ~BothNamed
      BY <1>2, <3>1 DEF Cause, FromFile
    <3>2. CASE BothNamed /\ named[fam] # "readable"
      <4>1. named[fam] = "unreadable"
        BY <1>2, <3>2 DEF GivenInv, BothNamed
      <4>2. QED
        BY <1>2, <4>1 DEF Cause, CauseIn
    <3>3. CASE BothNamed /\ Count(fam, "R") = 0
      <4>1. ~\E k \in DOMAIN file[fam] : file[fam][k].lead = "R"
        BY <1>2, <3>3, NoRoutes
      <4>2. QED
        BY <1>2, <3>3, <4>1 DEF Cause, CauseIn
    <3>4. QED
      BY <1>3, <3>1, <3>2, <3>3
  <2>2. RulesExit
    BY <1>1, <1>3
  <2>3. QED
    BY <2>1, <2>2, ExitStep
<1>4. CASE ~bad
  <2>1. /\ UNCHANGED inFiles /\ stage' = "read" /\ fam' = fam /\ line' = line
        /\ routes' = routes /\ acls' = acls /\ next' = next /\ table' = table
        /\ room' = [room EXCEPT ![fam] = new] /\ named[fam] = "readable"
    BY <1>1, <1>4 DEF building
  <2> HIDE DEF bad
  <2>2. /\ file' = file /\ named' = named /\ alg' = alg
        /\ GivenInv' /\ (BothNamed' <=> BothNamed) /\ (FromFile' <=> FromFile)
        /\ \A f : Source(f)' = Source(f)
        /\ \A f, lead : Count(f, lead)' = Count(f, lead)
    BY <1>2, <2>1, Frame
  <2>3. \A f \in Fam : Done(f)' = Done(f)
    BY <1>1, <1>2, <2>1, <2>2 DEF Done, Fam
  <2>4. ReadInv'
    BY <1>1, <1>2, <2>1, <2>3, ReadKept
  <2>5. Done(fam) = 0
    BY <1>1, <1>2 DEF Done, Fam
  <2>6. /\ Len(routes[fam]) <= Count(fam, "R") /\ Count(fam, "R") \in Nat
        /\ Len(acls[fam]) <= c /\ c \in Nat
    <3>1. \E p \in [1 .. Len(routes[fam]) -> 1 .. 0], q \in [1 .. Len(acls[fam]) -> 1 .. 0] :
            ReadOf(routes[fam], acls[fam], fam, 0, p, q)
      BY <1>1, <1>2, <2>5, ReadSoFar
    <3>2. PICK p \in [1 .. Len(routes[fam]) -> 1 .. 0], q \in [1 .. Len(acls[fam]) -> 1 .. 0] :
            ReadOf(routes[fam], acls[fam], fam, 0, p, q)
      BY <3>1
    <3>3. routes[fam] \in Seq(Rule) /\ acls[fam] \in Seq(Rule)
      BY <1>2, Types
    <3>4. 0 \in Nat /\ 0 <= Len(Source(fam))
      BY <1>2
    <3>5. QED
      BY <1>2, <3>2, <3>3, <3>4, Fits
  <2>7. /\ room' \in [Fam -> [route : Nat, acl : Nat]]
        /\ room'[fam].route = Count(fam, "R") /\ room'[fam].acl = c
        /\ \A f \in Fam : f # fam => room'[f] = room[f]
    <3>1. room \in [Fam -> [route : Nat, acl : Nat]]
      BY DEF IInv, RoomInv
    <3> HIDE DEF c
    <3>2. QED
      BY <1>2, <2>1, <2>6, <3>1
  <2>8. TypeInv'
    <3>1. \A f \in Fam : BothNamed => Len(routes[f]) <= room'[f].route
                                      /\ Len(acls[f]) <= room'[f].acl
      <4>1. \A f \in Fam : BothNamed => Len(routes[f]) <= room[f].route
                                        /\ Len(acls[f]) <= room[f].acl
        BY DEF IInv, TypeInv, RulesTypeOK
      <4> HIDE DEF c, new
      <4>2. QED
        BY <2>6, <2>7, <4>1
    <3> HIDE DEF c, new
    <3>2. QED
      BY <2>1, <2>2, <3>1 DEF IInv, TypeInv, RulesTypeOK
  <2>9. PhaseInv'
    BY <1>1, <1>2, <2>1, <2>2 DEF IInv, PhaseInv
  <2>10. RoomInv'
    BY <2>1, <2>2, <2>7 DEF RoomInv
  <2>11. EmptyInv' /\ KeysInv' /\ ContextInv' /\ RefusedForCause' /\ (table = [f \in Fam |-> table[f]])'
    BY <1>1, <2>1 DEF IInv, EmptyInv, KeysInv, ContextInv, RefusedForCause
  <2>12. QED
    BY <2>2, <2>4, <2>8, <2>9, <2>10, <2>11 DEF IInv
<1>5. QED
  BY <1>3, <1>4

\* ReadEnd keeps the invariant.
LEMMA ReadEndStep ==
  ASSUME IInv, ReadEnd
  PROVE  IInv'
<1>1. /\ stage = "read" /\ line = Len(file[fam]) /\ line' = 0
      /\ IF fam = 4 THEN stage' = "open" /\ fam' = 6 ELSE stage' = "setup" /\ fam' = 4
      /\ UNCHANGED inFiles /\ UNCHANGED <<room, routes, acls, next, table>>
  BY DEF ReadEnd, building
<1>2. /\ fam \in Fam /\ FromFile /\ GivenInv /\ ReadInv
      /\ named[fam] = "readable" /\ (fam = 6 => named[4] = "readable")
      /\ next = 1 /\ table = [f \in Fam |-> <<>>]
      /\ \A f \in Fam : Len(routes[f]) \in Nat
  BY <1>1, Types DEF IInv, PhaseInv, EmptyInv
<1>3. /\ file' = file /\ named' = named /\ alg' = alg
      /\ GivenInv' /\ (BothNamed' <=> BothNamed) /\ (FromFile' <=> FromFile)
      /\ \A f : Source(f)' = Source(f)
      /\ \A f : SetUp(f)' <=> SetUp(f)
  BY <1>1, <1>2, Frame
<1>4. \A f \in Fam : Len(file[f]) \in Nat /\ Source(f) = file[f]
  BY <1>2, Types, SourceLines
<1>5. \A f \in Fam : Done(f)' = Done(f)
  BY <1>1, <1>2, <1>3, <1>4 DEF Done, Fam
<1>6. ReadInv'
  BY <1>1, <1>2, <1>5, ReadKept
<1>7. TypeInv'
  <2>1. fam' \in Fam /\ line' \in 0 .. Len(file'[fam']) /\ stage' \in {"open", "setup"}
    BY <1>1, <1>3, <1>4 DEF Fam
  <2>2. QED
    BY <1>1, <1>3, <2>1 DEF IInv, TypeInv, RulesTypeOK
<1>8. PhaseInv'
  <2>1. fam = 6 => BothNamed
    BY <1>2 DEF BothNamed, Fam
  <2>2. QED
    BY <1>1, <1>2, <1>3, <2>1 DEF PhaseInv, Fam
<1>9. RoomInv' /\ EmptyInv' /\ RefusedForCause' /\ (table = [f \in Fam |-> table[f]])'
  BY <1>1, <1>2 DEF IInv, RoomInv, EmptyInv, RefusedForCause
<1>10. KeysInv'
  <2>1. ASSUME NEW f \in Fam, stage' = "setup"
        PROVE  IF SetUp(f)' THEN /\ Added(f)' \in 0 .. Len(routes'[f])
                                 /\ TableOf(table'[f], routes'[f], Added(f)')
               ELSE table'[f] = <<>>
    <3>1. Added(f)' = 0
      BY <1>1, <1>2, <2>1 DEF Added, Fam
    <3>2. table'[f] = <<>>
      BY <1>1, <1>2
    <3>3. \A l : TableOf(<<>>, l, 0)
      <4>1. DOMAIN <<>> = {} /\ 1 .. 0 = {}
        OBVIOUS
      <4>2. QED
        BY <4>1 DEF TableOf
    <3>4. QED
      BY <1>1, <1>2, <3>1, <3>2, <3>3
  <2>2. stage' # "ready"
    BY <1>1
  <2>3. QED
    BY <1>1, <1>2, <2>1, <2>2 DEF KeysInv
<1>11. ContextInv'
  <2>1. ASSUME NEW f \in Fam, stage' = "setup"
        PROVE  ~(stage' = "ready" \/ f < fam' \/ (f = fam' /\ next' = 2))
    BY <1>1, <1>2, <2>1 DEF Fam
  <2>2. stage' # "ready" /\ next' = 1
    BY <1>1, <1>2
  <2>3. QED
    BY <2>1, <2>2 DEF ContextInv
<1>12. QED
  BY <1>3, <1>6, <1>7, <1>8, <1>9, <1>10, <1>11 DEF IInv

\* The defaults are read as they stand.
LEMMA DefaultsRead ==
  ASSUME GivenInv, alg # "acl", ~BothNamed, NEW f \in Fam,
         NEW l, l = [k \in DOMAIN Default |->
                       [prefix |-> Default[k].prefix, hop |-> Default[k].port, prio |-> 0]]
  PROVE  /\ l \in Seq(Rule) /\ Len(Source(f)) \in Nat
         /\ \E p \in [1 .. Len(l) -> 1 .. Len(Source(f))], q \in [1 .. 0 -> 1 .. Len(Source(f))] :
              ReadOf(l, <<>>, f, Len(Source(f)), p, q)
<1> DEFINE n == Len(Default)
           p == [k \in 1 .. n |-> k]
           q == [k \in 1 .. 0 |-> k]
<1>1. ~FromFile /\ Len(Source(f)) = n /\ n \in Nat /\ DOMAIN Default = 1 .. n
  <2>1. ~FromFile
    BY DEF FromFile
  <2>2. Default \in Seq([prefix : Prefix, port : PortNo])
    BY Constants
  <2>3. n \in Nat /\ DOMAIN Default = 1 .. n
    BY <2>2
  <2>4. QED
    BY <2>1, <2>3, SourceLines
<1>2. Source(f) = [k \in DOMAIN Default |->
                     [lead |-> "R", form |-> "good", prefix |-> Default[k].prefix,
                      port |-> Default[k].port]]
  BY <1>1 DEF Source
<1>3. \A k \in 1 .. n : /\ Source(f)[k].lead = "R" /\ Source(f)[k].form = "good"
                        /\ Source(f)[k].prefix = Default[k].prefix
                        /\ Source(f)[k].port = Default[k].port
  BY <1>1, <1>2
<1>4. \A k \in 1 .. n : l[k] = [prefix |-> Source(f)[k].prefix, hop |-> Source(f)[k].port, prio |-> 0]
  BY <1>1, <1>3
<1>5. \A k \in 1 .. n : Source(f)[k].prefix \in Prefix /\ Source(f)[k].port \in PortNo
  BY <1>1, SourceLines
<1>6. l = [k \in 1 .. n |-> l[k]] /\ \A k \in 1 .. n : l[k] \in Rule
  <2>1. l = [k \in 1 .. n |-> l[k]]
    BY <1>1
  <2>2. ASSUME NEW k \in 1 .. n
        PROVE  l[k] \in Rule
    <3>1. Source(f)[k].prefix \in Prefix \cup {NoKey} /\ Source(f)[k].port \in PortNo \cup {Deny, 0}
      BY <1>5
    <3>2. [prefix |-> Source(f)[k].prefix, hop |-> Source(f)[k].port, prio |-> 0] \in Rule
      BY <3>1 DEF Rule
    <3>3. QED
      BY <1>4, <3>2
  <2>3. QED
    BY <2>1, <2>2
<1>7. l \in Seq(Rule) /\ Len(l) = n
  BY <1>1, <1>6
<1>8. \A k \in 1 .. n : RuleOfLine(l[k], f, Source(f)[k])
  BY <1>3, <1>4 DEF RuleOfLine, ToleratedIn
<1>9. Places(l, f, n, "R", p)
  BY <1>1, <1>3, <1>7, <1>8 DEF Places
<1>10. Len(<<>>) = 0 /\ q \in [1 .. 0 -> 1 .. n] /\ 1 .. 0 = {}
  OBVIOUS
<1>11. Places(<<>>, f, n, "@", q)
  BY <1>3, <1>10 DEF Places
<1>12. Checked(f, n)
  BY <1>3 DEF Checked, Legal, Leads
<1>13. ReadOf(l, <<>>, f, n, p, q) /\ p \in [1 .. Len(l) -> 1 .. n]
  BY <1>7, <1>9, <1>11, <1>12 DEF ReadOf
<1>14. p \in [1 .. Len(l) -> 1 .. Len(Source(f))] /\ q \in [1 .. 0 -> 1 .. Len(Source(f))]
  BY <1>1, <1>10, <1>13
<1>15. ReadOf(l, <<>>, f, Len(Source(f)), p, q)
  BY <1>1, <1>13
<1> HIDE DEF n, p, q
<1>16. \E pp \in [1 .. Len(l) -> 1 .. Len(Source(f))], qq \in [1 .. 0 -> 1 .. Len(Source(f))] :
         ReadOf(l, <<>>, f, Len(Source(f)), pp, qq)
  BY <1>14, <1>15
<1>17. QED
  BY <1>1, <1>7, <1>16

\* UseDefaults keeps the invariant.
LEMMA UseDefaultsStep ==
  ASSUME IInv, UseDefaults
  PROVE  IInv'
<1> DEFINE l == [k \in DOMAIN Default |->
                   [prefix |-> Default[k].prefix, hop |-> Default[k].port, prio |-> 0]]
<1>1. /\ stage = "names" /\ alg # "acl" /\ ~BothNamed /\ stage' = "setup"
      /\ routes' = [f \in Fam |-> l]
      /\ UNCHANGED inFiles /\ UNCHANGED <<fam, line, room, acls, next, table>>
  BY DEF UseDefaults, building
<1>2. /\ GivenInv /\ fam = 4 /\ line = 0 /\ next = 1 /\ table = [f \in Fam |-> <<>>]
      /\ \A f \in Fam : acls[f] = <<>>
      /\ acls \in [Fam -> Seq(Rule)] /\ fam \in Fam
  BY <1>1, Types DEF IInv, PhaseInv, EmptyInv
<1>3. /\ file' = file /\ named' = named /\ alg' = alg
      /\ GivenInv' /\ (BothNamed' <=> BothNamed) /\ (FromFile' <=> FromFile)
      /\ \A f : Source(f)' = Source(f)
      /\ \A f : SetUp(f)' <=> SetUp(f)
  BY <1>1, <1>2, Frame
<1>4. \A f \in Fam :
        /\ l \in Seq(Rule) /\ Len(Source(f)) \in Nat
        /\ \E p \in [1 .. Len(l) -> 1 .. Len(Source(f))], q \in [1 .. 0 -> 1 .. Len(Source(f))] :
             ReadOf(l, <<>>, f, Len(Source(f)), p, q)
  BY <1>1, <1>2, DefaultsRead
<1> HIDE DEF l
<1>5. /\ \A f \in Fam : routes'[f] = l /\ acls'[f] = <<>> /\ Done(f)' = Len(Source(f))
      /\ routes' \in [Fam -> Seq(Rule)] /\ Len(<<>>) = 0
  <2>1. \A f \in Fam : Done(f)' = Len(Source(f))
    BY <1>1, <1>3 DEF Done
  <2>2. l \in Seq(Rule)
    BY <1>2, <1>4
  <2>3. QED
    BY <1>1, <1>2, <2>1, <2>2
<1>6. ReadInv'
  <2>1. ASSUME NEW f \in Fam
        PROVE  \E n \in 0 .. Len(Source(f)') :
                 /\ stage' # "exit" => n = Done(f)'
                 /\ \E p \in [1 .. Len(routes'[f]) -> 1 .. n], q \in [1 .. Len(acls'[f]) -> 1 .. n] :
                      ReadOf(routes[f], acls[f], f, n, p, q)'
    <3> DEFINE n == Len(Source(f))
    <3>1. PICK p \in [1 .. Len(l) -> 1 .. n], q \in [1 .. 0 -> 1 .. n] :
            ReadOf(l, <<>>, f, n, p, q)
      BY <1>4
    <3>2. n \in 0 .. Len(Source(f)) /\ n = Done(f)'
      BY <1>4, <1>5
    <3> HIDE DEF n
    <3>3. /\ ReadOf(routes'[f], acls'[f], f, n, p, q)
          /\ p \in [1 .. Len(routes'[f]) -> 1 .. n] /\ q \in [1 .. Len(acls'[f]) -> 1 .. n]
      BY <1>5, <3>1
    <3>4. QED
      BY <1>1, <3>2, <3>3, ReadOne
  <2>2. QED
    BY <2>1 DEF ReadInv
<1>7. TypeInv'
  <2>1. line' \in 0 .. Len(file'[fam'])
    BY <1>1, <1>3 DEF IInv, TypeInv, RulesTypeOK
  <2>2. \A f \in Fam : routes'[f] \in Seq(Rule) /\ acls'[f] \in Seq(Rule)
    BY <1>1, <1>2, <1>5
  <2>3. QED
    BY <1>1, <1>2, <1>3, <1>5, <2>1, <2>2 DEF TypeInv, RulesTypeOK
<1>8. PhaseInv' /\ RoomInv' /\ EmptyInv' /\ RefusedForCause' /\ ContextInv'
  <2>1. PhaseInv'
    BY <1>1, <1>2, <1>3 DEF PhaseInv
  <2>2. EmptyInv' /\ RefusedForCause' /\ ContextInv'
    BY <1>1, <1>3 DEF EmptyInv, RefusedForCause, ContextInv
  <2>3. RoomInv'
    BY <1>1 DEF IInv, RoomInv
  <2>4. QED
    BY <2>2, <2>3, <2>1
<1>9. (table = [f \in Fam |-> table[f]])'
  BY <1>1 DEF IInv
<1>10. KeysInv'
  <2>1. ASSUME NEW f \in Fam
        PROVE  IF SetUp(f)' THEN /\ Added(f)' \in 0 .. Len(routes'[f])
                                 /\ TableOf(table'[f], routes'[f], Added(f)')
               ELSE table'[f] = <<>>
    <3>1. Added(f)' = 0
      BY <1>1, <1>2 DEF Added, Fam
    <3>2. table'[f] = <<>> /\ Len(routes'[f]) \in Nat
      BY <1>1, <1>2, <1>5
    <3>3. \A k : TableOf(<<>>, k, 0)
      <4>1. DOMAIN <<>> = {} /\ 1 .. 0 = {}
        OBVIOUS
      <4>2. QED
        BY <4>1 DEF TableOf
    <3>4. QED
      BY <3>1, <3>2, <3>3
  <2>2. QED
    BY <1>1, <1>2, <2>1 DEF KeysInv
<1>11. QED
  BY <1>3, <1>6, <1>7, <1>8, <1>9, <1>10 DEF IInv

-----------------------------------------------------------------------------
(* Setting up the tables.                                                  *)

\* One route more in a table with a hop for each key.
LEMMA TableNext ==
  ASSUME NEW t, NEW l, NEW n \in Nat, NEW m, m = n + 1, TableOf(t, l, n),
         PortEnabled(l[m].hop) => l[m].hop \in Existing
  PROVE  /\ PortEnabled(l[m].hop) => TableOf(Put(t, l[m].prefix, l[m].hop), l, m)
         /\ ~PortEnabled(l[m].hop) => TableOf(t, l, m)
<1>1. /\ \A i \in 1 .. m : i = m \/ i \in 1 .. n
      /\ \A i \in 1 .. n : i \in 1 .. m /\ i < m /\ ~(m < i)
      /\ m \in 1 .. m /\ ~(m < m)
  OBVIOUS
<1>2. /\ \A i \in 1 .. n :
           PortEnabled(l[i].hop) => l[i].prefix \in DOMAIN t /\ l[i].hop \in Existing
      /\ \A key \in DOMAIN t : \E i \in 1 .. n :
           /\ l[i].prefix = key /\ PortEnabled(l[i].hop) /\ t[key] = l[i].hop
           /\ \A k \in 1 .. n : i < k /\ l[k].prefix = key => ~PortEnabled(l[k].hop)
  BY DEF TableOf
<1>3. ASSUME PortEnabled(l[m].hop)
      PROVE  TableOf(Put(t, l[m].prefix, l[m].hop), l, m)
  <2> DEFINE u == Put(t, l[m].prefix, l[m].hop)
  <2>1. /\ DOMAIN u = DOMAIN t \cup {l[m].prefix}
        /\ u[l[m].prefix] = l[m].hop
        /\ \A key \in DOMAIN t : key # l[m].prefix => u[key] = t[key]
    BY DEF Put
  <2> HIDE DEF u
  <2>2. \A i \in 1 .. m :
          PortEnabled(l[i].hop) => l[i].prefix \in DOMAIN u /\ l[i].hop \in Existing
    BY <1>1, <1>2, <2>1
  <2>3. ASSUME NEW key \in DOMAIN u
        PROVE  \E i \in 1 .. m :
                 /\ l[i].prefix = key /\ PortEnabled(l[i].hop) /\ u[key] = l[i].hop
                 /\ \A k \in 1 .. m : i < k /\ l[k].prefix = key => ~PortEnabled(l[k].hop)
    <3>1. CASE key = l[m].prefix
      <4>1. \A k \in 1 .. m : ~(m < k)
        BY <1>1
      <4>2. QED
        BY <1>1, <1>3, <2>1, <3>1, <4>1
    <3>2. CASE key # l[m].prefix
      <4>1. key \in DOMAIN t /\ u[key] = t[key]
        BY <2>1, <3>2
      <4>2. PICK i \in 1 .. n :
              /\ l[i].prefix = key /\ PortEnabled(l[i].hop) /\ t[key] = l[i].hop
              /\ \A k \in 1 .. n : i < k /\ l[k].prefix = key => ~PortEnabled(l[k].hop)
        BY <1>2, <4>1
      <4>3. \A k \in 1 .. m : i < k /\ l[k].prefix = key => ~PortEnabled(l[k].hop)
        BY <1>1, <3>2, <4>2
      <4>4. i \in 1 .. m
        BY <1>1
      <4>5. QED
        BY <4>1, <4>2, <4>3, <4>4
    <3>3. QED
      BY <3>1, <3>2
  <2>4. TableOf(u, l, m)
    BY <2>2, <2>3 DEF TableOf
  <2>5. QED
    BY <2>4 DEF u
<1>4. ASSUME ~PortEnabled(l[m].hop)
      PROVE  TableOf(t, l, m)
  <2>1. \A i \in 1 .. m :
          PortEnabled(l[i].hop) => l[i].prefix \in DOMAIN t /\ l[i].hop \in Existing
    BY <1>1, <1>2, <1>4
  <2>2. ASSUME NEW key \in DOMAIN t
        PROVE  \E i \in 1 .. m :
                 /\ l[i].prefix = key /\ PortEnabled(l[i].hop) /\ t[key] = l[i].hop
                 /\ \A k \in 1 .. m : i < k /\ l[k].prefix = key => ~PortEnabled(l[k].hop)
    <3>1. PICK i \in 1 .. n :
            /\ l[i].prefix = key /\ PortEnabled(l[i].hop) /\ t[key] = l[i].hop
            /\ \A k \in 1 .. n : i < k /\ l[k].prefix = key => ~PortEnabled(l[k].hop)
      BY <1>2
    <3>2. \A k \in 1 .. m : i < k /\ l[k].prefix = key => ~PortEnabled(l[k].hop)
      BY <1>1, <1>4, <3>1
    <3>3. i \in 1 .. m
      BY <1>1
    <3>4. QED
      BY <3>1, <3>2, <3>3
  <2>3. QED
    BY <2>1, <2>2 DEF TableOf
<1>5. QED
  BY <1>3, <1>4

\* What some lines match are finitely many sets, and no set of keys from them is larger.
LEMMA KeysCounted ==
  ASSUME NEW n \in Nat, NEW used, used \subseteq 1 .. n, NEW T, NEW h \in Surjection(used, T),
         NEW K, K \subseteq T
  PROVE  Cardinality(K) \in Nat /\ Cardinality(T) \in Nat /\ Cardinality(K) <= Cardinality(T)
<1>1. IsFiniteSet(used)
  BY SomeLines
<1>2. IsFiniteSet(T)
  BY <1>1, FS_Surjection
<1>3. K \in SUBSET T
  OBVIOUS
<1>4. IsFiniteSet(K) /\ Cardinality(K) <= Cardinality(T)
  BY <1>2, <1>3, FS_Subset
<1>5. QED
  BY <1>2, <1>4, FS_CardinalityType

\* Once the files are read, each rule is the one of a line the user is told of.
LEMMA RuleHasLine ==
  ASSUME IInv, stage \in {"setup", "ready"}, NEW f \in Fam
  PROVE  /\ Source(f) = Given(f) /\ DOMAIN Given(f) = 1 .. Len(Source(f)) /\ Len(Source(f)) \in Nat
         /\ \A i \in 1 .. Len(routes[f]) :
              \E k \in DOMAIN Given(f) :
                Given(f)[k].lead = "R" /\ RuleOfLine(routes[f][i], f, Given(f)[k])
<1>1. GivenInv /\ ReadInv /\ (alg # "acl" \/ BothNamed)
  BY DEF IInv, PhaseInv
<1>2. Source(f) = Given(f) /\ DOMAIN Given(f) = 1 .. Len(Source(f)) /\ Len(Source(f)) \in Nat
  BY <1>1, SourceIsGiven, SourceLines
<1> DEFINE n == Len(Source(f))
<1>3. Done(f) = n /\ stage # "exit"
  BY DEF Done
<1>4. PICK p \in [1 .. Len(routes[f]) -> 1 .. n], q \in [1 .. Len(acls[f]) -> 1 .. n] :
        ReadOf(routes[f], acls[f], f, n, p, q)
  BY <1>1, <1>3, ReadSoFar
<1>5. \A i \in 1 .. Len(routes[f]) :
        /\ p[i] \in 1 .. n
        /\ Source(f)[p[i]].lead = "R" /\ RuleOfLine(routes[f][i], f, Source(f)[p[i]])
  BY <1>4 DEF ReadOf, Places
<1>6. QED
  BY <1>2, <1>5

\* Why AddRule refuses a route.
LEMMA AddRuleCause ==
  ASSUME IInv, stage = "setup", alg # "acl", NEW f \in Fam, SetUp(f), f = fam,
         next <= Len(routes[f]), NEW r, r = routes[f][next],
         PortEnabled(r.hop), r.hop \notin Existing \/ CannotAdd(f, r.prefix)
  PROVE  Cause
<1> DEFINE g == Given(f)
           N == Len(Source(f))
           used == {k \in DOMAIN g : g[k].lead \in {"R", "@"}}
           T == {g[k].prefix : k \in used}
<1>1. /\ DOMAIN g = 1 .. N /\ N \in Nat
      /\ \A i \in 1 .. Len(routes[f]) :
           \E k \in DOMAIN g : g[k].lead = "R" /\ RuleOfLine(routes[f][i], f, g[k])
  BY RuleHasLine
<1>2. /\ next \in 1 .. Len(routes[f]) /\ TableOf(table[f], routes[f], next - 1)
      /\ next - 1 \in 0 .. Len(routes[f]) /\ Len(routes[f]) \in Nat
  <2>1. next \in Nat \ {0}
    BY DEF IInv, KeysInv
  <2>2. Added(f) = next - 1
    BY DEF Added, Fam
  <2>3. Len(routes[f]) \in Nat
    BY Types
  <2>4. next \in Nat \ {0} /\ Added(f) = next - 1 /\ Len(routes[f]) \in Nat
    BY <2>1, <2>2, <2>3
  <2>5. Added(f) \in 0 .. Len(routes[f]) /\ TableOf(table[f], routes[f], Added(f))
    BY DEF IInv, KeysInv
  <2>6. QED
    BY <2>4, <2>5
<1>3. CASE \E k \in DOMAIN g : g[k].lead = "R" /\ g[k].form # "good"
  <2>1. CauseIn(f)
    BY <1>3 DEF CauseIn
  <2>2. QED
    BY <2>1 DEF Cause
<1>4. CASE ~\E k \in DOMAIN g : g[k].lead = "R" /\ g[k].form # "good"
  <2>1. \A i \in 1 .. Len(routes[f]) :
          \E k \in DOMAIN g : /\ g[k].lead = "R"
                              /\ routes[f][i].prefix = g[k].prefix /\ routes[f][i].hop = g[k].port
    <3>1. ASSUME NEW k \in DOMAIN g, g[k].lead = "R", NEW rr, RuleOfLine(rr, f, g[k])
          PROVE  rr.prefix = g[k].prefix /\ rr.hop = g[k].port
      <4>1. ~ToleratedIn(f, g[k]) /\ g[k].lead # "@"
        BY <1>4, <3>1 DEF ToleratedIn
      <4>2. QED
        BY <3>1, <4>1 DEF RuleOfLine
    <3> HIDE DEF g
    <3>2. ASSUME NEW i \in 1 .. Len(routes[f])
          PROVE  \E k \in DOMAIN g : /\ g[k].lead = "R"
                                     /\ routes[f][i].prefix = g[k].prefix
                                     /\ routes[f][i].hop = g[k].port
      <4>1. PICK k \in DOMAIN g : g[k].lead = "R" /\ RuleOfLine(routes[f][i], f, g[k])
        BY <1>1
      <4>2. QED
        BY <3>1, <4>1
    <3>3. QED
      BY <3>2
  <2>2. PICK k \in DOMAIN g : g[k].lead = "R" /\ r.prefix = g[k].prefix /\ r.hop = g[k].port
    BY <1>2, <2>1
  <2> HIDE DEF g
  <2>3. CASE r.hop \notin Existing
    <3>1. ~Usable(g[k])
      BY <2>2, <2>3 DEF Usable
    <3>2. CauseIn(f)
      BY <2>2, <3>1 DEF CauseIn, g
    <3>3. QED
      BY <3>2 DEF Cause
  <2>4. CASE alg = "lpm" /\ r.prefix = Addr
    <3>1. CauseIn(f)
      BY <2>2, <2>4 DEF CauseIn, g
    <3>2. QED
      BY <3>1 DEF Cause
  <2>5. CASE TableFull(f, r.prefix)
    <3> DEFINE K == Keys(f) \cup {r.prefix}
    <3>1. \A key \in K : \E i \in 1 .. Len(routes[f]) : routes[f][i].prefix = key
      <4>1. \A key \in DOMAIN table[f] : \E i \in 1 .. next - 1 : routes[f][i].prefix = key
        BY <1>2 DEF TableOf
      <4>2. \A i \in 1 .. next - 1 : i \in 1 .. Len(routes[f])
        BY <1>2
      <4>3. QED
        BY <1>2, <4>1, <4>2 DEF Keys
    <3> HIDE DEF K
    <3>2. \A key \in K : \E m \in used : g[m].prefix = key
      BY <2>1, <3>1
    <3>3. used \subseteq 1 .. N
      BY <1>1
    <3> DEFINE h == [m \in used |-> g[m].prefix]
    <3>4. h \in Surjection(used, T)
      BY DEF Surjection
    <3>5. K \subseteq T
      BY <3>2
    <3> HIDE DEF used, N, h, T
    <3>6. Cardinality(K) \in Nat /\ Cardinality(T) \in Nat /\ Cardinality(K) <= Cardinality(T)
      BY <1>1, <3>3, <3>4, <3>5, KeysCounted
    <3>7. Cardinality(K) > MaxRules[alg] /\ MaxRules[alg] \in Nat
      <4>1. alg \in Alg
        BY Types
      <4>2. QED
        BY <2>5, <4>1, Constants DEF TableFull, K
    <3>8. Cardinality(T) > MaxRules[alg]
      BY <3>6, <3>7
    <3>9. CauseIn(f)
      BY <3>8 DEF CauseIn, T, used, g
    <3>10. QED
      BY <3>9 DEF Cause
  <2>6. QED
    BY <2>3, <2>4, <2>5 DEF CannotAdd
<1>5. QED
  BY <1>3, <1>4

\* A step of the set-up keeps what was read.
LEMMA SetUpKeeps ==
  ASSUME IInv, UNCHANGED <<inFiles, line, room, routes, acls>>, stage = "setup",
         stage' \in {"setup", "ready"}, fam' \in Fam, next' \in Nat, fam' = fam \/ fam' = 6
  PROVE  /\ GivenInv' /\ TypeInv' /\ PhaseInv' /\ RoomInv' /\ ReadInv' /\ EmptyInv'
         /\ RefusedForCause'
         /\ routes' = routes /\ acls' = acls /\ alg' = alg
         /\ \A f : SetUp(f)' <=> SetUp(f)
<1>1. /\ routes' = routes /\ acls' = acls /\ line' = line /\ room' = room
      /\ file' = file /\ alg' = alg /\ GivenInv' /\ (BothNamed' <=> BothNamed)
      /\ \A f : Source(f)' = Source(f)
      /\ \A f : SetUp(f)' <=> SetUp(f)
  BY Frame DEF IInv
<1>2. ReadInv'
  <2>1. \A f \in Fam : Done(f)' = Done(f)
    BY <1>1 DEF Done
  <2>2. ReadInv /\ UNCHANGED <<inFiles, routes, acls>>
    BY DEF IInv
  <2>3. stage # "exit"
    OBVIOUS
  <2>4. QED
    BY <2>1, <2>2, <2>3, ReadKept
<1>3. PhaseInv' /\ RoomInv' /\ EmptyInv' /\ RefusedForCause'
  BY <1>1 DEF IInv, PhaseInv, RoomInv, EmptyInv, RefusedForCause
<1>4. TypeInv'
  <2>1. line = 0 /\ \A f \in Fam : Len(file[f]) \in Nat
    BY Types DEF IInv, PhaseInv
  <2>2. line' \in 0 .. Len(file'[fam'])
    BY <1>1, <2>1
  <2>3. QED
    BY <1>1, <2>2 DEF IInv, TypeInv, RulesTypeOK
<1>5. QED
  BY <1>1, <1>2, <1>3, <1>4

\* AddRule keeps the invariant.
LEMMA AddRuleStep ==
  ASSUME IInv, AddRule
  PROVE  IInv'
<1> DEFINE r == routes[fam][next]
           bad == PortEnabled(r.hop) /\ (r.hop \notin Existing \/ CannotAdd(fam, r.prefix))
<1>1. /\ stage = "setup" /\ alg # "acl" /\ SetUp(fam) /\ next <= Len(routes[fam])
      /\ IF bad THEN RulesExit
         ELSE /\ table' = IF PortEnabled(r.hop)
                          THEN [table EXCEPT ![fam] = Put(@, r.prefix, r.hop)] ELSE table
              /\ next' = next + 1
              /\ UNCHANGED <<inFiles, stage, fam, read>>
  BY DEF AddRule
<1>2. fam \in Fam /\ next \in Nat /\ \A f \in Fam : Len(routes[f]) \in Nat
  BY Types
<1>3. CASE bad
  <2>1. Cause
    BY <1>1, <1>2, <1>3, AddRuleCause
  <2>2. QED
    BY <1>1, <1>3, <2>1, ExitStep
<1>4. CASE ~bad
  <2>1. /\ UNCHANGED <<inFiles, line, room, routes, acls>> /\ stage' = stage /\ fam' = fam
        /\ next' = next + 1
        /\ table' = IF PortEnabled(r.hop)
                    THEN [table EXCEPT ![fam] = Put(@, r.prefix, r.hop)] ELSE table
    BY <1>1, <1>4 DEF read
  <2>0. PortEnabled(r.hop) => r.hop \in Existing
    BY <1>4
  <2> HIDE DEF bad
  <2>2. /\ GivenInv' /\ TypeInv' /\ PhaseInv' /\ RoomInv' /\ ReadInv' /\ EmptyInv'
        /\ RefusedForCause'
        /\ routes' = routes /\ acls' = acls /\ alg' = alg
        /\ \A f : SetUp(f)' <=> SetUp(f)
    <3>1. stage' \in {"setup", "ready"} /\ fam' \in Fam /\ next' \in Nat /\ fam' = fam
      BY <1>1, <1>2, <2>1
    <3>2. QED
      BY <1>1, <2>1, <3>1, SetUpKeeps
  <2>3. table = [f \in Fam |-> table[f]]
    BY DEF IInv
  <2> HIDE DEF r
  <2>4. /\ table'[fam] = IF PortEnabled(r.hop) THEN Put(table[fam], r.prefix, r.hop) ELSE table[fam]
        /\ \A f \in Fam : f # fam => table'[f] = table[f]
        /\ table' = [f \in Fam |-> table'[f]]
    <3>1. CASE PortEnabled(r.hop)
      <4>1. table' = [table EXCEPT ![fam] = Put(@, r.prefix, r.hop)]
        BY <2>1, <3>1
      <4>2. DOMAIN table = Fam
        BY <2>3
      <4>3. DOMAIN table' = Fam /\ table' = [f \in DOMAIN table |-> table'[f]]
        BY <4>1, <4>2
      <4>4. /\ table'[fam] = Put(table[fam], r.prefix, r.hop)
            /\ \A f \in Fam : f # fam => table'[f] = table[f]
        BY <1>2, <4>1, <4>2
      <4>5. QED
        BY <3>1, <4>2, <4>3, <4>4
    <3>2. CASE ~PortEnabled(r.hop)
      BY <2>1, <2>3, <3>2
    <3>3. QED
      BY <3>1, <3>2
  <2>5. /\ next \in Nat \ {0}
        /\ \A f \in Fam :
             IF SetUp(f)
             THEN Added(f) \in 0 .. Len(routes[f]) /\ TableOf(table[f], routes[f], Added(f))
             ELSE table[f] = <<>>
    BY <1>1 DEF IInv, KeysInv
  <2>6. KeysInv'
    <3>1. ASSUME NEW f \in Fam
          PROVE  IF SetUp(f)' THEN /\ Added(f)' \in 0 .. Len(routes'[f])
                                   /\ TableOf(table'[f], routes'[f], Added(f)')
                 ELSE table'[f] = <<>>
      <4>1. CASE f = fam
        <5>1. Added(f) = next - 1 /\ Added(f)' = next
          BY <1>1, <1>2, <2>1, <4>1 DEF Added, Fam
        <5>2. TableOf(table[f], routes[f], next - 1)
          BY <1>1, <2>5, <4>1, <5>1
        <5>3. next - 1 \in Nat /\ next = (next - 1) + 1
          BY <2>5
        <5>4. /\ PortEnabled(r.hop) => TableOf(Put(table[f], r.prefix, r.hop), routes[f], next)
              /\ ~PortEnabled(r.hop) => TableOf(table[f], routes[f], next)
          <6> DEFINE n == next - 1
          <6>1. n \in Nat /\ next = n + 1 /\ TableOf(table[f], routes[f], n)
            BY <5>2, <5>3
          <6> HIDE DEF n
          <6>2. PortEnabled(routes[f][next].hop) => routes[f][next].hop \in Existing
            BY <2>0, <4>1 DEF r
          <6>3. QED
            BY <4>1, <6>1, <6>2, TableNext DEF r
        <5>5. TableOf(table'[f], routes[f], next)
          BY <2>4, <4>1, <5>4
        <5>6. next \in 0 .. Len(routes[f])
          BY <1>1, <1>2, <4>1
        <5>7. QED
          BY <1>1, <2>2, <4>1, <5>1, <5>5, <5>6
      <4>2. CASE f # fam
        <5>1. Added(f)' = Added(f) /\ table'[f] = table[f]
          BY <1>1, <2>1, <2>4, <4>2 DEF Added
        <5>2. QED
          BY <2>2, <2>5, <5>1
      <4>3. QED
        BY <4>1, <4>2
    <3>2. QED
      BY <1>2, <2>1, <3>1 DEF KeysInv
  <2>7. ContextInv'
    BY <1>1, <2>2 DEF ContextInv
  <2>8. QED
    BY <2>2, <2>4, <2>6, <2>7 DEF IInv
<1>5. QED
  BY <1>3, <1>4

\* BuildContext keeps the invariant: it refuses only more rules than fit, all of them
\* lines of the files.
LEMMA BuildContextStep ==
  ASSUME IInv, BuildContext
  PROVE  IInv'
<1> DEFINE l == routes[fam]
           a == acls[fam]
<1>1. /\ stage = "setup" /\ alg = "acl" /\ next = 1
      /\ IF Len(l) + Len(a) > MaxRules[alg] THEN RulesExit
         ELSE /\ table' = [table EXCEPT ![fam] = l \o a]
              /\ next' = 2
              /\ UNCHANGED <<inFiles, stage, fam, read>>
  BY DEF BuildContext
<1>2. /\ fam \in Fam /\ l \in Seq(Rule) /\ a \in Seq(Rule) /\ Len(l) \in Nat /\ Len(a) \in Nat
  BY Types
<1>3. CASE Len(l) + Len(a) > MaxRules[alg]
  <2> DEFINE g == Given(fam)
             N == Len(Source(fam))
             T == {k \in DOMAIN g : g[k].lead \in {"R", "@"}}
  <2>1. Source(fam) = g /\ DOMAIN g = 1 .. N /\ N \in Nat
    BY <1>1, <1>2, RuleHasLine
  <2>2. Done(fam) = N /\ ReadInv
    BY <1>1 DEF Done, IInv
  <2>3. PICK p \in [1 .. Len(l) -> 1 .. N], q \in [1 .. Len(a) -> 1 .. N] : ReadOf(l, a, fam, N, p, q)
    BY <1>1, <1>2, <2>2, ReadSoFar
  <2>4. Places(l, fam, N, "R", p) /\ Places(a, fam, N, "@", q)
    BY <2>3 DEF ReadOf
  <2>5. IsFiniteSet(T)
    BY <2>1, SomeLines
  <2>6. /\ \A k \in 1 .. N : Source(fam)[k].lead = "R" => k \in T
        /\ \A k \in 1 .. N : Source(fam)[k].lead = "@" => k \in T
    BY <2>1
  <2> HIDE DEF T, N, l, a
  <2>7. Cardinality(T) \in Nat /\ Len(l) + Len(a) <= Cardinality(T)
    BY <1>2, <2>1, <2>4, <2>5, <2>6, RulesAreLines
  <2>8. Cardinality(T) > MaxRules[alg]
    <3>1. MaxRules[alg] \in Nat
      BY <1>1, Constants DEF Alg
    <3>2. QED
      BY <1>2, <1>3, <2>7, <3>1
  <2>9. CauseIn(fam)
    BY <1>1, <2>8 DEF CauseIn, T
  <2>10. Cause
    BY <1>2, <2>9 DEF Cause
  <2>11. QED
    BY <1>1, <1>3, <2>10, ExitStep DEF l, a
<1>4. CASE ~(Len(l) + Len(a) > MaxRules[alg])
  <2>1. /\ UNCHANGED <<inFiles, line, room, routes, acls>> /\ stage' = stage /\ fam' = fam
        /\ next' = 2 /\ table' = [table EXCEPT ![fam] = l \o a]
    BY <1>1, <1>4 DEF read
  <2>2. /\ GivenInv' /\ TypeInv' /\ PhaseInv' /\ RoomInv' /\ ReadInv' /\ EmptyInv'
        /\ RefusedForCause'
        /\ routes' = routes /\ acls' = acls /\ alg' = alg
    <3>1. stage' \in {"setup", "ready"} /\ fam' \in Fam /\ next' \in Nat /\ fam' = fam
      BY <1>1, <1>2, <2>1
    <3>2. QED
      BY <1>1, <2>1, <3>1, SetUpKeeps
  <2>3. table = [f \in Fam |-> table[f]]
    BY DEF IInv
  <2>4. DOMAIN table = Fam
    BY <2>3
  <2>5. DOMAIN table' = Fam /\ table' = [f \in Fam |-> table'[f]]
    BY <2>1, <2>4
  <2>6. table'[fam] = l \o a /\ \A f \in Fam : f # fam => table'[f] = table[f]
    BY <1>2, <2>1, <2>4
  <2>7. ContextInv'
    <3>1. \A f \in Fam : f < fam => table[f] = routes[f] \o acls[f]
      BY <1>1 DEF IInv, ContextInv
    <3>2. ASSUME NEW f \in Fam, f < fam \/ f = fam
          PROVE  table'[f] = routes[f] \o acls[f]
      <4>1. CASE f = fam
        BY <2>6, <4>1
      <4>2. CASE f # fam /\ f < fam
        BY <2>6, <3>1, <4>2
      <4>3. QED
        BY <3>2, <4>1, <4>2
    <3>3. QED
      BY <1>1, <2>1, <2>2, <3>2 DEF ContextInv
  <2>8. KeysInv'
    BY <1>1, <2>2 DEF KeysInv
  <2>9. QED
    BY <2>2, <2>5, <2>7, <2>8 DEF IInv
<1>5. QED
  BY <1>3, <1>4

\* TableEnd keeps the invariant.
LEMMA TableEndStep ==
  ASSUME IInv, TableEnd
  PROVE  IInv'
<1>1. /\ stage = "setup" /\ next' = 1
      /\ IF alg = "acl" THEN next = 2 ELSE SetUp(fam) => next > Len(routes[fam])
      /\ IF fam = 4 THEN fam' = 6 /\ UNCHANGED stage ELSE stage' = "ready" /\ UNCHANGED fam
      /\ UNCHANGED <<inFiles, line, room, routes, acls>> /\ table' = table
  BY DEF TableEnd, read
<1>2. /\ fam \in Fam /\ next \in Nat /\ \A f \in Fam : Len(routes[f]) \in Nat
  BY Types
<1>3. /\ GivenInv' /\ TypeInv' /\ PhaseInv' /\ RoomInv' /\ ReadInv' /\ EmptyInv'
      /\ RefusedForCause'
      /\ routes' = routes /\ acls' = acls /\ alg' = alg
      /\ \A f : SetUp(f)' <=> SetUp(f)
  <2>1. /\ stage' \in {"setup", "ready"} /\ fam' \in Fam /\ next' \in Nat
        /\ (fam' = fam \/ fam' = 6)
    BY <1>1, <1>2 DEF Fam
  <2>2. QED
    BY <1>1, <2>1, SetUpKeeps
<1>4. KeysInv'
  <2>1. ASSUME NEW f \in Fam, alg # "acl"
        PROVE  IF SetUp(f)' THEN /\ Added(f)' \in 0 .. Len(routes'[f])
                                 /\ TableOf(table'[f], routes'[f], Added(f)')
               ELSE table'[f] = <<>>
    <3>1. /\ next \in Nat \ {0}
          /\ IF SetUp(f)
             THEN Added(f) \in 0 .. Len(routes[f]) /\ TableOf(table[f], routes[f], Added(f))
             ELSE table[f] = <<>>
      BY <1>1, <2>1 DEF IInv, KeysInv
    <3>2. SetUp(f) => Added(f)' = Added(f)
      <4>1. CASE f = fam
        <5>1. Added(f) = next - 1
          BY <1>1, <4>1 DEF Added, Fam
        <5>2. Added(f)' = Len(routes[f])
          BY <1>1, <1>2, <1>3, <4>1 DEF Added, Fam
        <5>3. SetUp(f) => next - 1 = Len(routes[f])
          BY <1>1, <1>2, <2>1, <3>1, <4>1, <5>1
        <5>4. QED
          BY <5>1, <5>2, <5>3
      <4>2. CASE f # fam /\ fam = 4
        <5>1. f = 6 /\ fam' = 6 /\ stage' = "setup"
          BY <1>1, <4>2 DEF Fam
        <5>2. Added(f) = 0
          BY <1>1, <4>2, <5>1 DEF Added
        <5>3. Added(f)' = 0
          BY <1>1, <5>1 DEF Added
        <5>4. QED
          BY <5>2, <5>3
      <4>3. CASE f # fam /\ fam = 6
        <5>1. f = 4 /\ stage' = "ready"
          BY <1>1, <4>3 DEF Fam
        <5>2. Added(f) = Len(routes[f])
          BY <1>1, <4>3, <5>1 DEF Added
        <5>3. Added(f)' = Len(routes[f])
          BY <1>3, <5>1 DEF Added
        <5>4. QED
          BY <5>2, <5>3
      <4>4. QED
        BY <1>2, <4>1, <4>2, <4>3 DEF Fam
    <3>3. QED
      BY <1>1, <1>3, <3>1, <3>2
  <2>2. next' \in Nat \ {0}
    BY <1>1
  <2>3. QED
    BY <1>3, <2>1, <2>2 DEF KeysInv
<1>5. ContextInv'
  <2>1. ASSUME NEW f \in Fam, alg = "acl", stage' = "ready" \/ f < fam' \/ (f = fam' /\ next' = 2)
        PROVE  table'[f] = routes'[f] \o acls'[f]
    <3>1. f < fam \/ f = fam
      BY <1>1, <1>2, <2>1 DEF Fam
    <3>2. table[f] = routes[f] \o acls[f]
      BY <1>1, <2>1, <3>1 DEF IInv, ContextInv
    <3>3. QED
      BY <1>1, <1>3, <3>2
  <2>2. QED
    BY <1>1, <1>3, <2>1 DEF ContextInv
<1>6. (table = [f \in Fam |-> table[f]])'
  BY <1>1 DEF IInv
<1>7. QED
  BY <1>3, <1>4, <1>5, <1>6 DEF IInv

-----------------------------------------------------------------------------
(* The invariant.                                                          *)

\* The files are sequences of lines.
LEMMA FilesAreLines ==
  ASSUME NEW a, NEW f \in Fam, NEW s \in FilesOf(a, f)
  PROVE  s \in Seq(Lines)
<1>1. \E n \in 0 .. MaxLines[f] : s \in [1 .. n -> Lines]
  BY DEF FilesOf
<1>2. MaxLines[f] \in Nat
  BY L3fwdRulesAssumption
<1>3. PICK n \in Nat : s \in [1 .. n -> Lines]
  BY <1>1, <1>2
<1>4. QED
  BY <1>3

\* Before anything is read the invariant holds.
LEMMA InitIInv == RulesInit => IInv
<1> SUFFICES ASSUME RulesInit
             PROVE  IInv
  OBVIOUS
<1>1. /\ stage = "names" /\ fam = 4 /\ line = 0 /\ next = 1
      /\ room = [f \in Fam |-> [route |-> 0, acl |-> 0]]
      /\ routes = [f \in Fam |-> <<>>] /\ acls = [f \in Fam |-> <<>>]
      /\ table = [f \in Fam |-> <<>>]
  BY DEF RulesInit, RulesStart
<1>2. GivenInv
  <2>1. alg \in Alg /\ named \in [Fam -> {"unnamed", "unreadable", "readable"}]
    BY DEF RulesInit
  <2>2. ipv6 \in BOOLEAN
    BY DEF RulesInit
  <2>3. PICK f4 \in FilesOf(alg, 4), f6 \in FilesOf(alg, 6) :
          file = [f \in Fam |-> IF f = 4 THEN f4 ELSE f6]
    BY DEF RulesInit
  <2>4. f4 \in Seq(Lines) /\ f6 \in Seq(Lines)
    BY FilesAreLines DEF Fam
  <2>5. file \in [Fam -> Seq(Lines)]
    BY <2>3, <2>4
  <2>6. QED
    BY <2>1, <2>2, <2>5 DEF GivenInv
<1>3. \A f \in Fam : /\ routes[f] = <<>> /\ acls[f] = <<>> /\ room[f].route = 0 /\ room[f].acl = 0
                     /\ Len(file[f]) \in Nat /\ Len(Source(f)) \in Nat
  <2>1. \A f \in Fam : routes[f] = <<>> /\ acls[f] = <<>> /\ room[f].route = 0 /\ room[f].acl = 0
    BY <1>1
  <2>2. \A f \in Fam : Len(Source(f)) \in Nat
    BY <1>2, SourceLines
  <2>3. ASSUME NEW f \in Fam
        PROVE  Len(file[f]) \in Nat
    <3>1. file[f] \in Seq(Lines)
      BY <1>2 DEF GivenInv
    <3>2. QED
      BY <3>1
  <2>4. QED
    BY <2>1, <2>2, <2>3
<1>4. <<>> \in Seq(Rule) /\ Len(<<>>) = 0
  OBVIOUS
<1>5. TypeInv
  <2>1. routes \in [Fam -> Seq(Rule)] /\ acls \in [Fam -> Seq(Rule)]
    BY <1>1, <1>4
  <2>2. fam \in Fam /\ line \in 0 .. Len(file[fam]) /\ next \in Nat
    BY <1>1, <1>3 DEF Fam
  <2>3. QED
    BY <1>1, <1>3, <1>4, <2>1, <2>2 DEF TypeInv, RulesTypeOK
<1>6. PhaseInv /\ RoomInv
  <2>1. PhaseInv
    BY <1>1, <1>3 DEF PhaseInv
  <2>2. RoomInv
    BY <1>1 DEF RoomInv
  <2>3. QED
    BY <2>1, <2>2
<1>7. ReadInv
  <2>1. ASSUME NEW f \in Fam
        PROVE  \E n \in 0 .. Len(Source(f)) :
                 /\ stage # "exit" => n = Done(f)
                 /\ \E p \in [1 .. Len(routes[f]) -> 1 .. n], q \in [1 .. Len(acls[f]) -> 1 .. n] :
                      ReadOf(routes[f], acls[f], f, n, p, q)
    <3> DEFINE p == [k \in 1 .. 0 |-> k]
    <3>1. 1 .. 0 = {} /\ p \in [1 .. 0 -> 1 .. 0]
      OBVIOUS
    <3>2. \A lead : Places(<<>>, f, 0, lead, p)
      BY <1>4, <3>1 DEF Places
    <3>3. Checked(f, 0)
      BY <3>1 DEF Checked
    <3>4. Ranks(<<>>, <<>>, p, p)
      BY <1>4, <3>1 DEF Ranks, Ranked
    <3> HIDE DEF p
    <3>5. ReadOf(<<>>, <<>>, f, 0, p, p)
      BY <3>2, <3>3, <3>4 DEF ReadOf
    <3>6. Done(f) = 0 /\ 0 \in 0 .. Len(Source(f))
      BY <1>1, <1>3 DEF Done
    <3>7. QED
      BY <1>3, <1>4, <3>1, <3>5, <3>6
  <2>2. QED
    BY <2>1 DEF ReadInv
<1>8. EmptyInv /\ KeysInv /\ ContextInv /\ RefusedForCause /\ table = [f \in Fam |-> table[f]]
  BY <1>1 DEF EmptyInv, KeysInv, ContextInv, RefusedForCause
<1>9. QED
  BY <1>2, <1>5, <1>6, <1>7, <1>8 DEF IInv

\* Nothing changes in a step that stutters.
LEMMA Stutter == IInv /\ UNCHANGED rulesVars => IInv'
<1> SUFFICES ASSUME IInv, UNCHANGED rulesVars
             PROVE  IInv'
  OBVIOUS
<1>1. /\ UNCHANGED inFiles /\ stage' = stage /\ fam' = fam /\ line' = line /\ room' = room
      /\ routes' = routes /\ acls' = acls /\ next' = next /\ table' = table
      /\ alg' = alg /\ ipv6' = ipv6 /\ named' = named /\ file' = file
  BY DEF rulesVars, inFiles, read, building
<1>2. /\ GivenInv' /\ (FromFile' <=> FromFile) /\ (BothNamed' <=> BothNamed)
      /\ \A f : Source(f)' = Source(f)
      /\ \A f : Given(f)' = Given(f)
      /\ \A f : SetUp(f)' <=> SetUp(f)
      /\ \A ln : Legal(ln)' <=> Legal(ln)
      /\ \A f, lead : Count(f, lead)' = Count(f, lead)
  BY <1>1, Frame DEF IInv
<1>3. ReadInv'
  <2>1. \A f \in Fam : Done(f)' = Done(f)
    BY <1>1, <1>2 DEF Done
  <2>2. ReadInv /\ UNCHANGED <<inFiles, routes, acls>>
    BY <1>1 DEF IInv
  <2>3. QED
    BY <1>1, <2>1, <2>2, ReadKept
<1>4. TypeInv'
  BY <1>1, <1>2 DEF IInv, TypeInv, RulesTypeOK
<1>5. PhaseInv' /\ RoomInv' /\ EmptyInv' /\ ContextInv'
  BY <1>1, <1>2 DEF IInv, PhaseInv, RoomInv, EmptyInv, ContextInv
<1>6. KeysInv'
  <2>1. \A f \in Fam : Added(f)' = Added(f)
    BY <1>1 DEF Added
  <2>2. QED
    BY <1>1, <1>2, <2>1 DEF IInv, KeysInv
<1>7. RefusedForCause'
  <2>1. CASE stage # "exit"
    BY <1>1, <2>1 DEF RefusedForCause
  <2>2. CASE stage = "exit"
    <3>1. RefusedForCause
      BY DEF IInv
    <3>2. Cause
      BY <2>2, <3>1 DEF RefusedForCause, Cause, CauseIn
    <3>3. QED
      BY <1>1, <3>2, CauseKept
  <2>3. QED
    BY <2>1, <2>2
<1>8. (table = [f \in Fam |-> table[f]])'
  BY <1>1 DEF IInv
<1>9. QED
  BY <1>2, <1>3, <1>4, <1>5, <1>6, <1>7, <1>8 DEF IInv

\* Every state of the program has the phases' work as IInv describes it.
THEOREM Inductive == RulesSpec => []IInv
<1>1. RulesInit => IInv
  BY InitIInv
<1>2. IInv /\ [RulesNext]_rulesVars => IInv'
  <2> SUFFICES ASSUME IInv, [RulesNext]_rulesVars
               PROVE  IInv'
    OBVIOUS
  <2>1. CASE UseDefaults
    BY <2>1, UseDefaultsStep
  <2>2. CASE ReadNames
    BY <2>2, ReadNamesStep
  <2>3. CASE OpenFile
    BY <2>3, OpenFileStep
  <2>4. CASE ReadLine
    BY <2>4, ReadLineStep
  <2>5. CASE ReadEnd
    BY <2>5, ReadEndStep
  <2>6. CASE AddRule
    BY <2>6, AddRuleStep
  <2>7. CASE BuildContext
    BY <2>7, BuildContextStep
  <2>8. CASE TableEnd
    BY <2>8, TableEndStep
  <2>9. CASE UNCHANGED rulesVars
    BY <2>9, Stutter
  <2>10. QED
    BY <2>1, <2>2, <2>3, <2>4, <2>5, <2>6, <2>7, <2>8, <2>9 DEF RulesNext, RulesTerminated
<1>3. QED
  BY <1>1, <1>2, PTL DEF RulesSpec

\* The second pass never writes past the arrays of the first.
THEOREM TypesHold == RulesSpec => []RulesTypeOK
<1>1. IInv => RulesTypeOK
  BY DEF IInv, TypeInv
<1>2. QED
  BY <1>1, Inductive, PTL

\* The program refuses the rules only for a reason the user can see in them.
THEOREM RefusesForCause == RulesSpec => []RefusedForCause
<1>1. IInv => RefusedForCause
  BY DEF IInv
<1>2. QED
  BY <1>1, Inductive, PTL

-----------------------------------------------------------------------------
(* What a packet finds.                                                    *)

\* The prefixes of a routing table nest: two that share an address, and one is in the other.
PrefixesNest == \A x, y \in Prefix : x \cap y # {} => x \subseteq y \/ y \subseteq x

\* Numbers have a least one.
LEMMA SomeMin ==
  ASSUME NEW S, S \subseteq Nat, S # {}
  PROVE  \E x \in S : \A y \in S : x <= y
<1> DEFINE R == OpToRel(<, Nat)
<1>1. \A x, y \in Nat : x < y => <<x, y>> \in R
  BY DEF OpToRel
<1>2. IsWellFoundedOn(R, Nat)
  BY NatLessThanWellFounded
<1> HIDE DEF R
<1>3. IsWellFoundedOn(R, S)
  BY <1>2, IsWellFoundedOnSubset
<1>4. PICK x \in S : \A y \in S : ~(<<y, x>> \in R)
  BY <1>3, WFMin
<1>5. ASSUME NEW y \in S
      PROVE  x <= y
  <2>1. x \in Nat /\ y \in Nat
    OBVIOUS
  <2>2. ~(y < x)
    BY <1>1, <1>4, <2>1
  <2>3. QED
    BY <2>1, <2>2
<1>6. QED
  BY <1>5

\* What is known once the tables are ready.
LEMMA WhenReady ==
  ASSUME IInv, stage = "ready", NEW f \in Fam
  PROVE  /\ Source(f) = Given(f) /\ DOMAIN Given(f) = 1 .. Len(Source(f)) /\ Len(Source(f)) \in Nat
         /\ \A k \in 1 .. Len(Source(f)) :
              /\ Source(f)[k].prefix \in Prefix /\ Source(f)[k].prefix # {}
              /\ Source(f)[k].port \in PortNo
              /\ Source(f)[k].lead \in {"R", "@", "#", "?"}
         /\ routes[f] \in Seq(Rule) /\ acls[f] \in Seq(Rule)
         /\ \E p \in [1 .. Len(routes[f]) -> 1 .. Len(Source(f))],
               q \in [1 .. Len(acls[f]) -> 1 .. Len(Source(f))] :
              ReadOf(routes[f], acls[f], f, Len(Source(f)), p, q)
         /\ alg = "acl" => table[f] = routes[f] \o acls[f]
         /\ alg # "acl" /\ SetUp(f) => TableOf(table[f], routes[f], Len(routes[f]))
         /\ alg # "acl" /\ ~SetUp(f) => table[f] = <<>>
<1>1. GivenInv /\ ReadInv
  BY DEF IInv
<1>2. Source(f) = Given(f) /\ DOMAIN Given(f) = 1 .. Len(Source(f)) /\ Len(Source(f)) \in Nat
  BY RuleHasLine
<1>3. \A k \in 1 .. Len(Source(f)) :
        /\ Source(f)[k].prefix \in Prefix /\ Source(f)[k].prefix # {}
        /\ Source(f)[k].port \in PortNo
        /\ Source(f)[k].lead \in {"R", "@", "#", "?"}
  BY <1>1, SourceLines
<1>4. routes[f] \in Seq(Rule) /\ acls[f] \in Seq(Rule)
  BY Types
<1>5. Done(f) = Len(Source(f))
  BY DEF Done
<1>6. \E p \in [1 .. Len(routes[f]) -> 1 .. Len(Source(f))],
         q \in [1 .. Len(acls[f]) -> 1 .. Len(Source(f))] :
        ReadOf(routes[f], acls[f], f, Len(Source(f)), p, q)
  BY <1>1, <1>5, ReadSoFar
<1>7. alg = "acl" => table[f] = routes[f] \o acls[f]
  BY DEF IInv, ContextInv
<1>8. Added(f) = Len(routes[f])
  BY DEF Added
<1>9. /\ alg # "acl" /\ SetUp(f) => TableOf(table[f], routes[f], Len(routes[f]))
      /\ alg # "acl" /\ ~SetUp(f) => table[f] = <<>>
  BY <1>8 DEF IInv, KeysInv
<1>10. QED
  BY <1>2, <1>3, <1>4, <1>6, <1>7, <1>9

\* The lines that match, by the code's own test of the port, and the one whose rule the
\* tables give: for ACL the first, a route or an ACL entry.
Candidates(f, a) ==
  {k \in DOMAIN Given(f) :
     /\ Given(f)[k].lead \in {"R", "@"} /\ Given(f)[k].form = "good"
     /\ a \in Given(f)[k].prefix
     /\ Given(f)[k].lead = "R" => PortEnabled(Given(f)[k].port)}

Picks(f, a, k) ==
  /\ k \in Candidates(f, a)
  /\ \A m \in Candidates(f, a) :
       IF alg = "acl" THEN k <= m
       ELSE \/ Given(f)[k].prefix \subseteq Given(f)[m].prefix /\ Given(f)[k].prefix # Given(f)[m].prefix
            \/ Given(f)[k].prefix = Given(f)[m].prefix /\ m <= k

\* A line that matches has been let through, and its rule is not one EM was not told.
LEMMA CandidateLines ==
  ASSUME NEW f, NEW N, Checked(f, N), Source(f) = Given(f), DOMAIN Given(f) = 1 .. N,
         NEW a, NEW k
  PROVE  k \in Candidates(f, a) <=>
           /\ k \in 1 .. N /\ Source(f)[k].lead \in Leads /\ a \in Source(f)[k].prefix
           /\ Source(f)[k].form = "good"
           /\ Source(f)[k].lead = "R" => PortEnabled(Source(f)[k].port)
<1>1. k \in Candidates(f, a) <=>
        /\ k \in 1 .. N /\ Source(f)[k].lead \in {"R", "@"} /\ Source(f)[k].form = "good"
        /\ a \in Source(f)[k].prefix
        /\ Source(f)[k].lead = "R" => PortEnabled(Source(f)[k].port)
  BY DEF Candidates
<1>2. k \in 1 .. N /\ Source(f)[k].lead \in {"R", "@"} => Source(f)[k].lead \in Leads
  <2>1. ASSUME k \in 1 .. N, Source(f)[k].lead \in {"R", "@"}
        PROVE  Source(f)[k].lead \in Leads
    <3>1. Source(f)[k].lead # "#"
      BY <2>1
    <3>2. Legal(Source(f)[k])
      BY <2>1, <3>1 DEF Checked
    <3>3. QED
      BY <3>2 DEF Legal
  <2>2. QED
    BY <2>1
<1>3. Leads \subseteq {"R", "@"}
  BY DEF Leads
<1>4. QED
  BY <1>1, <1>2, <1>3

\* The rule of a route line that is well-formed.
LEMMA GoodRule ==
  ASSUME NEW r, NEW f, NEW ln, RuleOfLine(r, f, ln), ln.form = "good" \/ r.prefix # NoKey
  PROVE  r.prefix = ln.prefix /\ r.hop = IF ln.lead = "@" THEN Deny ELSE ln.port
<1>1. ~ToleratedIn(f, ln)
  BY DEF ToleratedIn, RuleOfLine
<1>2. QED
  BY <1>1 DEF RuleOfLine

\* The hop of a key in the tables of LPM, FIB and EM is that of the last line that names the
\* key with an enabled port.
LEMMA KeyHasLine ==
  ASSUME alg # "acl", NEW f, NEW N \in Nat, Source(f) = Given(f), DOMAIN Given(f) = 1 .. N,
         NEW l \in Seq(Rule), NEW p, Places(l, f, N, "R", p), Checked(f, N),
         NEW t, TableOf(t, l, Len(l)),
         NEW a, NEW key \in DOMAIN t, a \in key
  PROVE  \E k \in Candidates(f, a) :
           /\ k \in 1 .. N /\ Source(f)[k].prefix = key /\ Source(f)[k].lead = "R"
           /\ Source(f)[k].port = t[key]
           /\ \A m \in Candidates(f, a) : Source(f)[m].prefix = key => m <= k
<1>1. PICK i \in 1 .. Len(l) :
        /\ l[i].prefix = key /\ PortEnabled(l[i].hop) /\ t[key] = l[i].hop
        /\ \A m \in 1 .. Len(l) : i < m /\ l[m].prefix = key => ~PortEnabled(l[m].hop)
  BY DEF TableOf
<1>2. /\ \A j \in 1 .. Len(l) : p[j] \in 1 .. N
      /\ \A j, m \in 1 .. Len(l) : j < m => p[j] < p[m]
      /\ \A j \in 1 .. Len(l) :
           Source(f)[p[j]].lead = "R" /\ RuleOfLine(l[j], f, Source(f)[p[j]])
      /\ \A k \in 1 .. N : Source(f)[k].lead = "R" => \E j \in 1 .. Len(l) : p[j] = k
  BY DEF Places
<1> DEFINE k == p[i]
           ln == Source(f)[k]
<1>3. k \in 1 .. N /\ ln.lead = "R" /\ RuleOfLine(l[i], f, ln)
  BY <1>1, <1>2
<1>4. key # NoKey
  BY DEF NoKey
<1>5. ln.prefix = key /\ ln.port = l[i].hop
  BY <1>1, <1>3, <1>4, GoodRule
<1>6. ln.form = "good"
  <2>1. ~ToleratedIn(f, ln)
    BY <1>1, <1>3, <1>4 DEF RuleOfLine
  <2>2. ln.form = "good" \/ ToleratedIn(f, ln)
    BY <1>3 DEF Checked
  <2>3. QED
    BY <2>1, <2>2
<1>7. k \in Candidates(f, a)
  <2>1. k \in DOMAIN Given(f) /\ Given(f)[k] = ln
    BY <1>3
  <2>2. a \in ln.prefix /\ PortEnabled(ln.port)
    BY <1>1, <1>5
  <2> HIDE DEF k, ln
  <2>3. QED
    BY <1>3, <1>6, <2>1, <2>2 DEF Candidates
<1>8. ASSUME NEW m \in Candidates(f, a), Source(f)[m].prefix = key
      PROVE  m <= k
  <2>1. /\ m \in 1 .. N /\ Source(f)[m].lead \in Leads /\ Source(f)[m].form = "good"
        /\ Source(f)[m].lead = "R" => PortEnabled(Source(f)[m].port)
    BY CandidateLines
  <2>2. Source(f)[m].lead = "R"
    BY <2>1 DEF Leads
  <2>3. PICK j \in 1 .. Len(l) : p[j] = m
    BY <1>2, <2>1, <2>2
  <2>4. RuleOfLine(l[j], f, Source(f)[m])
    BY <1>2, <2>3
  <2>5. l[j].prefix = key /\ l[j].hop = Source(f)[m].port
    BY <1>8, <2>1, <2>2, <2>4, GoodRule
  <2>6. ~(i < j)
    BY <1>1, <2>1, <2>2, <2>5
  <2>7. i = j \/ j < i
    BY <2>6
  <2>8. p[j] = p[i] \/ p[j] < p[i]
    BY <1>2, <2>7
  <2>9. p[j] \in Nat /\ p[i] \in Nat
    BY <1>2
  <2>10. QED
    BY <2>3, <2>8, <2>9
<1> HIDE DEF k, ln
<1>9. QED
  BY <1>1, <1>3, <1>5, <1>7, <1>8 DEF ln

\* What a line names for an enabled port is a key.
LEMMA LineHasKey ==
  ASSUME alg # "acl", NEW f, NEW N \in Nat, Source(f) = Given(f), DOMAIN Given(f) = 1 .. N,
         NEW l \in Seq(Rule), NEW p, Places(l, f, N, "R", p), Checked(f, N),
         NEW t, TableOf(t, l, Len(l)),
         NEW a, NEW k \in Candidates(f, a)
  PROVE  Source(f)[k].prefix \in DOMAIN t /\ a \in Source(f)[k].prefix
<1>1. /\ k \in 1 .. N /\ Source(f)[k].lead \in Leads /\ Source(f)[k].form = "good"
      /\ a \in Source(f)[k].prefix
      /\ Source(f)[k].lead = "R" => PortEnabled(Source(f)[k].port)
  BY CandidateLines
<1>2. Source(f)[k].lead = "R"
  BY <1>1 DEF Leads
<1>3. PICK j \in 1 .. Len(l) : p[j] = k
  BY <1>1, <1>2 DEF Places
<1>4. RuleOfLine(l[j], f, Source(f)[k])
  BY <1>3 DEF Places
<1>5. l[j].prefix = Source(f)[k].prefix /\ l[j].hop = Source(f)[k].port
  BY <1>1, <1>2, <1>4, GoodRule
<1>6. QED
  BY <1>1, <1>2, <1>5 DEF TableOf

\* Among finite sets that nest there is one in all the others.
LEMMA SmallestKey ==
  ASSUME NEW H, H # {}, \A x \in H : IsFiniteSet(x),
         \A x, y \in H : x \subseteq y \/ y \subseteq x
  PROVE  \E x \in H : \A y \in H : x \subseteq y
<1> DEFINE C == {Cardinality(x) : x \in H}
<1>1. C \subseteq Nat /\ C # {}
  <2>1. \A x \in H : Cardinality(x) \in Nat
    BY FS_CardinalityType
  <2>2. QED
    BY <2>1
<1>2. PICK n \in C : \A m \in C : n <= m
  <2> HIDE DEF C
  <2>1. QED
    BY <1>1, SomeMin
<1>3. PICK x \in H : n = Cardinality(x)
  OBVIOUS
<1>4. ASSUME NEW y \in H, ~(x \subseteq y)
      PROVE  FALSE
  <2>1. y \in SUBSET x /\ IsFiniteSet(x) /\ IsFiniteSet(y)
    BY <1>4
  <2>2. Cardinality(x) <= Cardinality(y)
    BY <1>2, <1>3
  <2> HIDE DEF C
  <2>3. Cardinality(y) <= Cardinality(x) /\ (Cardinality(x) = Cardinality(y) => x = y)
    BY <2>1, FS_Subset
  <2>4. Cardinality(x) \in Nat /\ Cardinality(y) \in Nat
    BY <2>1, FS_CardinalityType
  <2>5. x = y
    BY <2>2, <2>3, <2>4
  <2>6. QED
    BY <1>4, <2>5
<1>5. QED
  BY <1>4

\* v is what the code makes of the files.
Told(f, a, v) ==
  IF Candidates(f, a) = {} THEN v = NoHop
  ELSE \E k \in Candidates(f, a) : Picks(f, a, k) /\ v = Says(Given(f)[k])

\* The longest prefix in a table is the one of the line that decides.
LEMMA KeysFollow ==
  ASSUME PrefixesNest, alg # "acl", NEW f, NEW N \in Nat,
         Source(f) = Given(f), DOMAIN Given(f) = 1 .. N,
         \A k \in 1 .. N : Source(f)[k].prefix \in Prefix,
         NEW l \in Seq(Rule), NEW p, Places(l, f, N, "R", p), Checked(f, N),
         TableOf(table[f], l, Len(l)), NEW a
  PROVE  Told(f, a, LookUp(f, a))
<1> DEFINE t == table[f]
           H == {k \in DOMAIN t : a \in k}
<1>1. ASSUME NEW key \in H
      PROVE  \E k \in Candidates(f, a) :
               /\ k \in 1 .. N /\ Source(f)[k].prefix = key /\ Source(f)[k].lead = "R"
               /\ Source(f)[k].port = t[key]
               /\ \A m \in Candidates(f, a) : Source(f)[m].prefix = key => m <= k
  <2>1. key \in DOMAIN t /\ a \in key
    OBVIOUS
  <2> HIDE DEF H
  <2>2. QED
    BY <2>1, KeyHasLine
<1>2. \A k \in Candidates(f, a) : Source(f)[k].prefix \in H
  BY LineHasKey
<1>3. LookUp(f, a) = IF H = {} THEN NoHop
                     ELSE t[CHOOSE k \in H : \A m \in H : k \subseteq m]
  BY DEF LookUp
<1> HIDE DEF H, t
<1>4. CASE H = {}
  <2>1. Candidates(f, a) = {}
    BY <1>2, <1>4
  <2>2. QED
    BY <1>3, <1>4, <2>1 DEF Told
<1>5. CASE H # {}
  <2>1. Candidates(f, a) # {}
    BY <1>1, <1>5
  <2>2. \A x \in H : x \in Prefix /\ a \in x
    BY <1>1 DEF H
  <2>3. \A x \in H : IsFiniteSet(x)
    <3>1. \A x \in H : x \in SUBSET Addr /\ IsFiniteSet(Addr)
      BY <2>2, Constants
    <3>2. QED
      BY <3>1, FS_Subset
  <2>4. \A x, y \in H : x \subseteq y \/ y \subseteq x
    BY <2>2 DEF PrefixesNest
  <2>5. PICK key \in H : \A m \in H : key \subseteq m
    BY <1>5, <2>3, <2>4, SmallestKey
  <2>6. (CHOOSE x \in H : \A m \in H : x \subseteq m) = key
    <3> DEFINE P(x) == \A m \in H : x \subseteq m
    <3>1. P(key) /\ \A x \in H : P(x) => x = key
      BY <2>5
    <3> HIDE DEF P
    <3>2. (CHOOSE x \in H : P(x)) = key
      BY <3>1
    <3>3. QED
      BY <3>2 DEF P
  <2>7. PICK k \in Candidates(f, a) :
          /\ k \in 1 .. N /\ Source(f)[k].prefix = key /\ Source(f)[k].lead = "R"
          /\ Source(f)[k].port = t[key]
          /\ \A m \in Candidates(f, a) : Source(f)[m].prefix = key => m <= k
    BY <1>1
  <2>8. Picks(f, a, k)
    <3>1. ASSUME NEW m \in Candidates(f, a)
          PROVE  \/ Given(f)[k].prefix \subseteq Given(f)[m].prefix
                    /\ Given(f)[k].prefix # Given(f)[m].prefix
                 \/ Given(f)[k].prefix = Given(f)[m].prefix /\ m <= k
      <4>1. Given(f)[k].prefix = key /\ key \subseteq Given(f)[m].prefix
        BY <1>2, <2>5, <2>7
      <4>2. QED
        BY <2>7, <4>1
    <3>2. QED
      BY <3>1 DEF Picks
  <2>9. LookUp(f, a) = Says(Given(f)[k])
    BY <1>3, <1>5, <2>6, <2>7 DEF Says
  <2>10. QED
    BY <2>1, <2>7, <2>8, <2>9 DEF Told
<1>6. QED
  BY <1>4, <1>5

\* Places that increase are different.
LEMMA Increasing ==
  ASSUME NEW n \in Nat, NEW N \in Nat, NEW p \in [1 .. n -> 1 .. N],
         \A i, k \in 1 .. n : i < k => p[i] < p[k]
  PROVE  \A i, k \in 1 .. n : p[i] = p[k] => i = k
<1>1. ASSUME NEW i \in 1 .. n, NEW k \in 1 .. n, p[i] = p[k]
      PROVE  i = k
  <2>1. p[i] \in Nat /\ i \in Nat /\ k \in Nat
    OBVIOUS
  <2>2. ~(i < k) /\ ~(k < i)
    BY <1>1, <2>1
  <2>3. QED
    BY <2>1, <2>2
<1>2. QED
  BY <1>1

\* The line of rule x of a context: the routes l come first, then the ACL entries m.
LineOf(x, l, p, q) == IF x \in 1 .. Len(l) THEN p[x] ELSE q[x - Len(l)]

\* Where the rules t of a context come from: a rule of a line for each, and the other way
\* round, and the order of the lines is that of the priorities.
Lined(t, f, n, l, p, q) ==
  /\ \A x \in DOMAIN t :
       /\ LineOf(x, l, p, q) \in 1 .. n /\ t[x].prio \in Int
       /\ RuleOfLine(t[x], f, Source(f)[LineOf(x, l, p, q)])
       /\ Source(f)[LineOf(x, l, p, q)].lead \in {"R", "@"}
  /\ \A k \in 1 .. n :
       Source(f)[k].lead \in {"R", "@"} => \E x \in DOMAIN t : LineOf(x, l, p, q) = k
  /\ \A x, y \in DOMAIN t :
       /\ LineOf(x, l, p, q) < LineOf(y, l, p, q) => t[y].prio < t[x].prio
       /\ LineOf(x, l, p, q) = LineOf(y, l, p, q) => x = y

\* A context has the rules of the lines it was built from.
LEMMA ContextLines ==
  ASSUME alg = "acl", NEW f, NEW N \in Nat, NEW l \in Seq(Rule), NEW m \in Seq(Rule),
         NEW p \in [1 .. Len(l) -> 1 .. N], NEW q \in [1 .. Len(m) -> 1 .. N],
         ReadOf(l, m, f, N, p, q)
  PROVE  Lined(l \o m, f, N, l, p, q)
<1> DEFINE t == l \o m
<1>1. /\ Places(l, f, N, "R", p) /\ Places(m, f, N, "@", q) /\ Ranks(l, m, p, q)
  BY DEF ReadOf
<1>2. \A i, k \in 1 .. Len(l) : p[i] = p[k] => i = k
  <2>1. Len(l) \in Nat /\ \A i, k \in 1 .. Len(l) : i < k => p[i] < p[k]
    BY <1>1 DEF Places
  <2>2. QED
    BY <2>1, Increasing
<1>3. \A i, k \in 1 .. Len(m) : q[i] = q[k] => i = k
  <2>1. Len(m) \in Nat /\ \A i, k \in 1 .. Len(m) : i < k => q[i] < q[k]
    BY <1>1 DEF Places
  <2> DEFINE n2 == Len(m)
  <2>2. n2 \in Nat /\ q \in [1 .. n2 -> 1 .. N] /\ \A i, k \in 1 .. n2 : i < k => q[i] < q[k]
    BY <2>1
  <2> HIDE DEF n2
  <2>3. \A i, k \in 1 .. n2 : q[i] = q[k] => i = k
    BY <2>2, Increasing
  <2>4. QED
    BY <2>3 DEF n2
<1> DEFINE n1 == Len(l)
           n2 == Len(m)
           pos(x) == LineOf(x, l, p, q)
<1>4. /\ \A i \in 1 .. n1 : p[i] \in 1 .. N /\ Source(f)[p[i]].lead = "R"
                            /\ RuleOfLine(l[i], f, Source(f)[p[i]])
      /\ \A k \in 1 .. N : Source(f)[k].lead = "R" => \E i \in 1 .. n1 : p[i] = k
      /\ \A i, k \in 1 .. n1 : p[i] = p[k] => i = k
  BY <1>1, <1>2 DEF Places
<1>5. /\ \A i \in 1 .. n2 : q[i] \in 1 .. N /\ Source(f)[q[i]].lead = "@"
                            /\ RuleOfLine(m[i], f, Source(f)[q[i]])
      /\ \A k \in 1 .. N : Source(f)[k].lead = "@" => \E i \in 1 .. n2 : q[i] = k
      /\ \A i, k \in 1 .. n2 : q[i] = q[k] => i = k
  BY <1>1, <1>3 DEF Places
<1>6. /\ \A i, k \in 1 .. n1 : p[i] < p[k] => l[k].prio < l[i].prio
      /\ \A i \in 1 .. n1 : \A k \in 1 .. n2 : p[i] < q[k] => m[k].prio < l[i].prio
      /\ \A i \in 1 .. n2 : \A k \in 1 .. n1 : q[i] < p[k] => l[k].prio < m[i].prio
      /\ \A i, k \in 1 .. n2 : q[i] < q[k] => m[k].prio < m[i].prio
  BY <1>1 DEF Ranks, Ranked
<1>7. /\ \A i \in 1 .. n1 : l[i].prio \in Int
      /\ \A i \in 1 .. n2 : m[i].prio \in Int
  <2>1. (\A i \in 1 .. n1 : l[i] \in Rule) /\ (\A i \in 1 .. n2 : m[i] \in Rule)
    OBVIOUS
  <2>2. QED
    BY <2>1 DEF Rule
<1>8. n1 \in Nat /\ n2 \in Nat /\ DOMAIN t = 1 .. n1 + n2
  OBVIOUS
<1>9. /\ \A i \in 1 .. n1 : i \in DOMAIN t /\ pos(i) = p[i] /\ t[i] = l[i]
      /\ \A i \in 1 .. n2 : n1 + i \in DOMAIN t /\ pos(n1 + i) = q[i] /\ t[n1 + i] = m[i]
  <2>1. \A i \in 1 .. n1 : i \in DOMAIN t /\ pos(i) = p[i] /\ t[i] = l[i]
    BY <1>8 DEF LineOf
  <2>2. ASSUME NEW i \in 1 .. n2
        PROVE  n1 + i \in DOMAIN t /\ pos(n1 + i) = q[i] /\ t[n1 + i] = m[i]
    <3>1. n1 + i \in DOMAIN t /\ ~(n1 + i \in 1 .. n1) /\ (n1 + i) - n1 = i
      BY <1>8
    <3>2. t[n1 + i] = m[i]
      BY <1>8, <3>1
    <3>3. QED
      BY <3>1, <3>2 DEF LineOf
  <2>3. QED
    BY <2>1, <2>2
<1>10. ASSUME NEW x \in DOMAIN t
      PROVE  x \in 1 .. n1 \/ \E i \in 1 .. n2 : x = n1 + i
  <2>1. CASE x <= n1
    BY <1>8, <2>1
  <2>2. CASE ~(x <= n1)
    <3>1. x - n1 \in 1 .. n2 /\ x = n1 + (x - n1)
      BY <1>8, <2>2
    <3>2. QED
      BY <3>1
  <2>3. QED
    BY <2>1, <2>2
<1> DEFINE D == DOMAIN t
           e(i) == n1 + i
           entry(x) == \E i \in 1 .. n2 : x = n1 + i
<1>11. /\ \A i \in 1 .. n1 : i \in D /\ pos(i) = p[i] /\ t[i] = l[i]
      /\ \A i \in 1 .. n2 : e(i) \in D /\ pos(e(i)) = q[i] /\ t[e(i)] = m[i]
  BY <1>9
<1>12. \A x \in D : x \in 1 .. n1 \/ entry(x)
  BY <1>10
<1>13. /\ \A i, k \in 1 .. n1 : p[i] = p[k] => i = k
       /\ \A i, k \in 1 .. n2 : q[i] = q[k] => i = k
  BY <1>2, <1>3
<1> HIDE DEF D, e, entry, pos, n1, n2, t
<1>14. ASSUME NEW x \in D
       PROVE  /\ pos(x) \in 1 .. N /\ t[x].prio \in Int
              /\ RuleOfLine(t[x], f, Source(f)[pos(x)])
              /\ Source(f)[pos(x)].lead \in {"R", "@"}
  <2>1. CASE x \in 1 .. n1
    <3>1. pos(x) = p[x] /\ t[x] = l[x]
      BY <1>11, <2>1
    <3>2. QED
      BY <1>4, <1>7, <2>1, <3>1
  <2>2. CASE entry(x)
    <3>1. PICK i \in 1 .. n2 : x = e(i)
      BY <2>2 DEF entry, e
    <3>2. pos(x) = q[i] /\ t[x] = m[i]
      BY <1>11, <3>1
    <3>3. QED
      BY <1>5, <1>7, <3>2
  <2>3. x \in 1 .. n1 \/ entry(x)
    BY <1>12, Zenon
  <2>4. QED
    BY <2>1, <2>2, <2>3
<1>15. ASSUME NEW k \in 1 .. N, Source(f)[k].lead \in {"R", "@"}
       PROVE  \E x \in D : pos(x) = k
  <2>1. CASE Source(f)[k].lead = "R"
    <3>1. PICK i \in 1 .. n1 : p[i] = k
      BY <1>4, <2>1
    <3>2. i \in D /\ pos(i) = k
      BY <1>11, <3>1
    <3>3. QED
      BY <3>2
  <2>2. CASE Source(f)[k].lead = "@"
    <3>1. PICK i \in 1 .. n2 : q[i] = k
      BY <1>5, <2>2
    <3>2. e(i) \in D /\ pos(e(i)) = k
      BY <1>11, <3>1
    <3>3. QED
      BY <3>2
  <2>3. QED
    BY <1>15, <2>1, <2>2
<1>16. ASSUME NEW x \in D, NEW y \in D
       PROVE  /\ pos(x) < pos(y) => t[y].prio < t[x].prio
              /\ pos(x) = pos(y) => x = y
  <2>1. CASE x \in 1 .. n1 /\ y \in 1 .. n1
    <3>1. pos(x) = p[x] /\ pos(y) = p[y] /\ t[x] = l[x] /\ t[y] = l[y]
      BY <1>11, <2>1
    <3>2. pos(x) = pos(y) => x = y
      BY <1>13, <2>1, <3>1
    <3>3. pos(x) < pos(y) => t[y].prio < t[x].prio
      BY <1>6, <2>1, <3>1
    <3>4. QED
      BY <3>2, <3>3
  <2>2. CASE x \in 1 .. n1 /\ entry(y)
    <3>1. PICK i \in 1 .. n2 : y = e(i)
      BY <2>2 DEF entry, e
    <3>2. pos(y) = q[i] /\ pos(x) = p[x] /\ t[y] = m[i] /\ t[x] = l[x]
      BY <1>11, <2>2, <3>1
    <3>3. p[x] # q[i]
      BY <1>4, <1>5, <2>2
    <3>4. QED
      BY <1>6, <2>2, <3>2, <3>3
  <2>3. CASE y \in 1 .. n1 /\ entry(x)
    <3>1. PICK i \in 1 .. n2 : x = e(i)
      BY <2>3 DEF entry, e
    <3>2. pos(x) = q[i] /\ pos(y) = p[y] /\ t[x] = m[i] /\ t[y] = l[y]
      BY <1>11, <2>3, <3>1
    <3>3. p[y] # q[i]
      BY <1>4, <1>5, <2>3
    <3>4. QED
      BY <1>6, <2>3, <3>2, <3>3
  <2>4. CASE entry(x) /\ entry(y)
    <3>1. PICK i \in 1 .. n2 : x = e(i)
      BY <2>4 DEF entry, e
    <3>2. PICK k \in 1 .. n2 : y = e(k)
      BY <2>4 DEF entry, e
    <3>3. pos(x) = q[i] /\ pos(y) = q[k] /\ t[x] = m[i] /\ t[y] = m[k]
      BY <1>11, <3>1, <3>2
    <3>4. pos(x) < pos(y) => t[y].prio < t[x].prio
      BY <1>6, <3>3
    <3>5. pos(x) = pos(y) => i = k
      BY <1>13, <3>3
    <3>6. QED
      BY <3>1, <3>2, <3>4, <3>5
  <2>5. /\ x \in 1 .. n1 \/ entry(x)
        /\ y \in 1 .. n1 \/ entry(y)
    BY <1>12, Zenon
  <2>6. QED
    BY <2>1, <2>2, <2>3, <2>4, <2>5
<1>17. Lined(t, f, N, l, p, q)
  BY <1>14, <1>15, <1>16 DEF Lined, D, pos
<1>18. QED
  BY <1>17 DEF t

\* The rule of the highest priority in a context is the one of the first line that matches.
LEMMA ContextFollows ==
  ASSUME alg = "acl", NEW f, NEW N \in Nat, Source(f) = Given(f), DOMAIN Given(f) = 1 .. N,
         NEW l \in Seq(Rule), NEW m \in Seq(Rule),
         NEW p \in [1 .. Len(l) -> 1 .. N], NEW q \in [1 .. Len(m) -> 1 .. N],
         ReadOf(l, m, f, N, p, q), table[f] = l \o m, NEW a
  PROVE  Told(f, a, LookUp(f, a))
<1>1. Lined(table[f], f, N, l, p, q)
  BY ContextLines
<1> DEFINE t == table[f]
           D == DOMAIN t
           pos(x) == LineOf(x, l, p, q)
           H == {k \in D : a \in t[k].prefix}
           M == Candidates(f, a)
<1>2. /\ \A x \in D : /\ pos(x) \in 1 .. N /\ t[x].prio \in Int
                      /\ RuleOfLine(t[x], f, Source(f)[pos(x)])
                      /\ Source(f)[pos(x)].lead \in {"R", "@"}
      /\ \A k \in 1 .. N : Source(f)[k].lead \in {"R", "@"} => \E x \in D : pos(x) = k
      /\ \A x, y \in D : /\ pos(x) < pos(y) => t[y].prio < t[x].prio
                         /\ pos(x) = pos(y) => x = y
  BY <1>1 DEF Lined
<1>3. Checked(f, N)
  BY DEF ReadOf
<1>4. \A ln : ~ToleratedIn(f, ln)
  BY DEF ToleratedIn
<1>5. LookUp(f, a) = IF H = {} THEN NoHop
                     ELSE t[CHOOSE k \in H : \A x \in H : t[x].prio <= t[k].prio].hop
  BY DEF LookUp
<1>6. \A k : k \in H <=> k \in D /\ a \in t[k].prefix
  OBVIOUS
<1> HIDE DEF t, D, pos, H, M
<1>7. \A x \in D : /\ t[x].prefix = Given(f)[pos(x)].prefix
                   /\ t[x].hop = IF Given(f)[pos(x)].lead = "@" THEN Deny ELSE Given(f)[pos(x)].port
  BY <1>2, <1>4 DEF RuleOfLine
<1>8. ASSUME NEW x \in H
      PROVE  pos(x) \in M
  <2>1. x \in D /\ a \in Given(f)[pos(x)].prefix
    BY <1>6, <1>7
  <2>2. pos(x) \in 1 .. N /\ Source(f)[pos(x)].lead \in {"R", "@"}
    BY <1>2, <2>1
  <2>3. /\ Source(f)[pos(x)].form = "good"
        /\ Source(f)[pos(x)].lead = "R" => PortEnabled(Source(f)[pos(x)].port)
    <3>1. Source(f)[pos(x)].lead # "#"
      BY <2>2
    <3>2. QED
      BY <1>3, <1>4, <2>2, <3>1 DEF Checked
  <2>4. QED
    BY <2>1, <2>2, <2>3 DEF M, Candidates
<1>9. ASSUME NEW k \in M
      PROVE  k \in 1 .. N /\ \E x \in H : pos(x) = k
  <2>1. k \in 1 .. N /\ Source(f)[k].lead \in {"R", "@"} /\ a \in Given(f)[k].prefix
    BY DEF M, Candidates
  <2>2. PICK x \in D : pos(x) = k
    BY <1>2, <2>1
  <2>3. x \in H
    BY <1>6, <1>7, <2>1, <2>2
  <2>4. QED
    BY <2>1, <2>2, <2>3
<1>10. CASE H = {}
  <2>1. M = {}
    BY <1>9, <1>10
  <2>2. QED
    BY <1>5, <1>10, <2>1 DEF Told, M
<1>11. CASE H # {}
  <2>1. M # {} /\ M \subseteq Nat
    BY <1>8, <1>9, <1>11
  <2>2. PICK k \in M : \A j \in M : k <= j
    BY <2>1, SomeMin
  <2>3. PICK x \in H : pos(x) = k
    BY <1>9
  <2>4. x \in D /\ k \in 1 .. N /\ \A y \in H : y \in D /\ pos(y) \in 1 .. N
    BY <1>2, <1>6, <1>9
  <2>5. ASSUME NEW y \in H
        PROVE  /\ y # x => t[y].prio < t[x].prio
               /\ t[y].prio \in Int
    <3>1. k <= pos(y) /\ y \in D /\ pos(y) \in 1 .. N
      BY <1>8, <2>2, <2>4
    <3>2. y # x => pos(y) # k
      BY <1>2, <2>3, <2>4, <3>1
    <3>3. pos(y) # k => k < pos(y)
      BY <2>4, <3>1
    <3>4. y # x => pos(x) < pos(y)
      BY <2>3, <3>2, <3>3
    <3>5. QED
      BY <1>2, <2>4, <3>1, <3>4
  <2>6. (CHOOSE c \in H : \A y \in H : t[y].prio <= t[c].prio) = x
    <3> DEFINE P(c) == \A y \in H : t[y].prio <= t[c].prio
    <3>1. \A y \in H : t[y].prio <= t[x].prio
      <4>1. ASSUME NEW y \in H
            PROVE  t[y].prio <= t[x].prio
        <5>1. t[y].prio \in Int /\ t[x].prio \in Int
          BY <2>5
        <5>2. y = x \/ t[y].prio < t[x].prio
          BY <2>5
        <5>3. QED
          BY <5>1, <5>2
      <4>2. QED
        BY <4>1
    <3>2. ASSUME NEW c \in H, \A y \in H : t[y].prio <= t[c].prio
          PROVE  c = x
      <4>1. t[x].prio <= t[c].prio /\ t[x].prio \in Int /\ t[c].prio \in Int
        BY <2>5, <3>2
      <4>2. c # x => t[c].prio < t[x].prio
        BY <2>5
      <4>3. QED
        BY <4>1, <4>2
    <3>3. P(x) /\ \A c \in H : P(c) => c = x
      BY <3>1, <3>2
    <3> HIDE DEF P
    <3>4. (CHOOSE c \in H : P(c)) = x
      BY <3>3
    <3>5. QED
      BY <3>4 DEF P
  <2>7. Picks(f, a, k)
    BY <2>2 DEF Picks, M
  <2>8. LookUp(f, a) = Says(Given(f)[k])
    BY <1>5, <1>7, <1>11, <2>3, <2>4, <2>6 DEF Says
  <2>9. QED
    BY <2>1, <2>7, <2>8 DEF Told, M
<1>12. QED
  BY <1>10, <1>11

\* A port below the width of the mask is enabled just when its bit says so.
LEMMA BitOfPort ==
  ASSUME NEW port \in PortNo
  PROVE  /\ port \in EnabledPort => PortEnabled(port)
         /\ port \in Existing /\ PortEnabled(port) => port \in EnabledPort
<1>1. /\ PortNo \subseteq Nat /\ Width \in Nat \ {0}
      /\ EnabledPort \subseteq 0 .. Width - 1 /\ Existing \subseteq 0 .. Width - 1
  BY L3fwdRulesAssumption
<1>2. \A p \in 0 .. Width - 1 : p % Width = p
  BY <1>1
<1>3. QED
  BY <1>1, <1>2 DEF PortEnabled

\* The lines that match do so by the code's test: a route for an enabled port has a device,
\* or AddRule has ended the program; and ACL has let only enabled bits through.
LEMMA SameLines ==
  ASSUME NEW f, SetUp(f), NEW N \in Nat, Source(f) = Given(f), DOMAIN Given(f) = 1 .. N,
         \A k \in 1 .. N : Source(f)[k].port \in PortNo,
         NEW l \in Seq(Rule), NEW p, Places(l, f, N, "R", p), Checked(f, N),
         alg # "acl" => TableOf(table[f], l, Len(l)),
         NEW a
  PROVE  Matching(f, a) = Candidates(f, a)
<1>1. ASSUME NEW k \in 1 .. N, Source(f)[k].lead = "R", Source(f)[k].form = "good", alg # "acl"
      PROVE  Source(f)[k].port \in EnabledPort <=> PortEnabled(Source(f)[k].port)
  <2>1. PICK i \in 1 .. Len(l) : p[i] = k
    BY <1>1 DEF Places
  <2>2. RuleOfLine(l[i], f, Source(f)[k])
    BY <2>1 DEF Places
  <2>3. l[i].hop = Source(f)[k].port
    BY <1>1, <2>2, GoodRule
  <2>4. PortEnabled(l[i].hop) => l[i].hop \in Existing
    BY <1>1 DEF TableOf
  <2>5. QED
    BY <2>3, <2>4, BitOfPort
<1>2. ASSUME NEW k \in 1 .. N, Source(f)[k].lead \in {"R", "@"}
      PROVE  /\ Legal(Source(f)[k])
             /\ alg = "acl" /\ Source(f)[k].lead = "R" => PortEnabled(Source(f)[k].port)
             /\ alg # "acl" => Source(f)[k].lead = "R"
  <2>1. /\ Legal(Source(f)[k])
        /\ alg = "acl" /\ Source(f)[k].lead = "R" => PortEnabled(Source(f)[k].port)
    <3>1. Source(f)[k].lead # "#"
      BY <1>2
    <3>2. QED
      BY <3>1 DEF Checked
  <2>2. QED
    BY <2>1 DEF Legal, Leads
<1>3. ASSUME NEW k
      PROVE  k \in Matching(f, a) <=> k \in Candidates(f, a)
  <2>1. k \in Matching(f, a) <=>
          /\ k \in 1 .. N /\ Source(f)[k].lead \in {"R", "@"} /\ Source(f)[k].form = "good"
          /\ a \in Source(f)[k].prefix
          /\ alg # "acl" => Source(f)[k].port \in EnabledPort
    BY DEF Matching
  <2>2. k \in Candidates(f, a) <=>
          /\ k \in 1 .. N /\ Source(f)[k].lead \in {"R", "@"} /\ Source(f)[k].form = "good"
          /\ a \in Source(f)[k].prefix
          /\ Source(f)[k].lead = "R" => PortEnabled(Source(f)[k].port)
    BY DEF Candidates
  <2>3. CASE alg = "acl"
    BY <1>2, <2>1, <2>2, <2>3
  <2>4. CASE alg # "acl"
    BY <1>1, <1>2, <2>1, <2>2, <2>4
  <2>5. QED
    BY <2>3, <2>4
<1>4. QED
  BY <1>3

\* Once the tables are ready they say what the files say.
LEMMA Follows ==
  ASSUME IInv, alg = "acl" \/ PrefixesNest
  PROVE  TablesFollowFile
<1> SUFFICES ASSUME stage = "ready", NEW f \in Fam
             PROVE  /\ SetUp(f) => \A a \in Addr :
                         IF Matching(f, a) = {} THEN LookUp(f, a) = NoHop
                         ELSE \E k \in Matching(f, a) :
                                Decides(f, a, k) /\ LookUp(f, a) = Says(Given(f)[k])
                    /\ ~SetUp(f) => table[f] = <<>>
                    /\ alg \in {"lpm", "fib"} => \A k \in DOMAIN Given(f) :
                         Given(f)[k].lead # "#" => Legal(Given(f)[k]) /\ Given(f)[k].form = "good"
  BY DEF TablesFollowFile
<1> DEFINE N == Len(Source(f))
           l == routes[f]
           m == acls[f]
<1>1. /\ Source(f) = Given(f) /\ DOMAIN Given(f) = 1 .. N /\ N \in Nat
      /\ \A k \in 1 .. N : Source(f)[k].prefix \in Prefix /\ Source(f)[k].port \in PortNo
      /\ l \in Seq(Rule) /\ m \in Seq(Rule)
      /\ \E p \in [1 .. Len(l) -> 1 .. N], q \in [1 .. Len(m) -> 1 .. N] :
           ReadOf(l, m, f, N, p, q)
      /\ alg = "acl" => table[f] = l \o m
      /\ alg # "acl" /\ SetUp(f) => TableOf(table[f], l, Len(l))
      /\ alg # "acl" /\ ~SetUp(f) => table[f] = <<>>
  BY WhenReady
<1>2. PICK p \in [1 .. Len(l) -> 1 .. N], q \in [1 .. Len(m) -> 1 .. N] : ReadOf(l, m, f, N, p, q)
  BY <1>1
<1> HIDE DEF N, l, m
<1>3. Places(l, f, N, "R", p) /\ Checked(f, N)
  BY <1>2 DEF ReadOf
<1>4. ASSUME SetUp(f), NEW a \in Addr
      PROVE  IF Matching(f, a) = {} THEN LookUp(f, a) = NoHop
             ELSE \E k \in Matching(f, a) :
                    Decides(f, a, k) /\ LookUp(f, a) = Says(Given(f)[k])
  <2>1. Told(f, a, LookUp(f, a))
    <3>1. CASE alg = "acl"
      BY <1>1, <1>2, <3>1, ContextFollows
    <3>2. CASE alg # "acl"
      BY <1>1, <1>3, <1>4, <3>2, KeysFollow
    <3>3. QED
      BY <3>1, <3>2
  <2>2. Matching(f, a) = Candidates(f, a)
    BY <1>1, <1>3, <1>4, SameLines
  <2>3. ASSUME NEW k, Picks(f, a, k)
        PROVE  Decides(f, a, k)
    BY <2>2, <2>3 DEF Decides, Picks
  <2>4. QED
    BY <2>1, <2>2, <2>3 DEF Told
<1>5. ~SetUp(f) => table[f] = <<>>
  BY <1>1 DEF SetUp
<1>6. ASSUME alg \in {"lpm", "fib"}, NEW k \in DOMAIN Given(f), Given(f)[k].lead # "#"
      PROVE  Legal(Given(f)[k]) /\ Given(f)[k].form = "good"
  BY <1>1, <1>3, <1>6 DEF Checked, ToleratedIn
<1>7. QED
  BY <1>4, <1>5, <1>6

\* With prefixes that nest, as those of addresses do, a packet finds in the tables of every
\* lookup what the files say.
THEOREM TablesRight == PrefixesNest => (RulesSpec => []TablesFollowFile)
<1> SUFFICES ASSUME PrefixesNest
             PROVE  RulesSpec => []TablesFollowFile
  OBVIOUS
<1>1. IInv => TablesFollowFile
  BY Follows
<1>2. QED
  BY <1>1, Inductive, PTL

\* ACL needs no nesting: its filters may match any sets of packets.
THEOREM ContextsRight == RulesSpec => [](alg = "acl" => TablesFollowFile)
<1>1. IInv => (alg = "acl" => TablesFollowFile)
  BY Follows
<1>2. QED
  BY <1>1, Inductive, PTL

=============================================================================
