--------------------------- MODULE PktGroupProofs ---------------------------
(***************************************************************************)
(* Proofs about PktGroup, for every MAX_PKT_BURST, every burst and every   *)
(* pattern of ports in it.                                                 *)
(***************************************************************************)
EXTENDS PktGroup, FiniteSetTheorems, TLAPS

-----------------------------------------------------------------------------
(* The table.                                                              *)

\* What gptbl says of four comparisons: a packet counts one more than the next when the two
\* are equal, the last updated element gets what the first packet has more than itself,
\* and the next last updated element is behind the last difference.
TableOK(g, eq) ==
  /\ g.pnum[4] = IF eq[4] THEN 2 ELSE 1
  /\ g.pnum[3] = IF eq[3] THEN g.pnum[4] + 1 ELSE 1
  /\ g.pnum[2] = IF eq[2] THEN g.pnum[3] + 1 ELSE 1
  /\ g.pnum[1] = IF eq[1] THEN g.pnum[2] + 1 ELSE 1
  /\ g.lpv = g.pnum[1] - 1
  /\ g.idx = IF ~eq[4] THEN 4 ELSE IF ~eq[3] THEN 3 ELSE IF ~eq[2] THEN 2 ELSE IF ~eq[1] THEN 1 ELSE 0

\* The sixteen elements of gptbl.
LEMMA GptblOK ==
  ASSUME NEW eq \in [1 .. 4 -> BOOLEAN]
  PROVE  /\ TableOK(gptbl[Mask(eq) + 1], eq)
         /\ Mask(eq) = GrpMsk <=> eq[1] /\ eq[2] /\ eq[3] /\ eq[4]
<1>1. /\ eq[1] \in BOOLEAN /\ eq[2] \in BOOLEAN /\ eq[3] \in BOOLEAN /\ eq[4] \in BOOLEAN
  OBVIOUS
<1> DEFINE a == eq[1]  b == eq[2]  c == eq[3]  d == eq[4]
<1>2. Mask(eq) = Bit(a, 1) + Bit(b, 2) + Bit(c, 4) + Bit(d, 8)
  BY DEF Mask
<1> HIDE DEF a, b, c, d
<1>3. CASE ~c /\ ~d
  <2>1. Mask(eq) = (IF a THEN 1 ELSE 0) + (IF b THEN 2 ELSE 0)
    BY <1>2, <1>3 DEF Bit
  <2>2. QED
    BY <1>1, <1>3, <2>1 DEF TableOK, GrpMsk, gptbl, Gp, a, b, c, d
<1>4. CASE c /\ ~d
  <2>1. Mask(eq) = 4 + (IF a THEN 1 ELSE 0) + (IF b THEN 2 ELSE 0)
    BY <1>2, <1>4 DEF Bit
  <2>2. QED
    BY <1>1, <1>4, <2>1 DEF TableOK, GrpMsk, gptbl, Gp, a, b, c, d
<1>5. CASE ~c /\ d
  <2>1. Mask(eq) = 8 + (IF a THEN 1 ELSE 0) + (IF b THEN 2 ELSE 0)
    BY <1>2, <1>5 DEF Bit
  <2>2. QED
    BY <1>1, <1>5, <2>1 DEF TableOK, GrpMsk, gptbl, Gp, a, b, c, d
<1>6. CASE c /\ d
  <2>1. Mask(eq) = 12 + (IF a THEN 1 ELSE 0) + (IF b THEN 2 ELSE 0)
    BY <1>2, <1>6 DEF Bit
  <2>2. QED
    BY <1>1, <1>6, <2>1 DEF TableOK, GrpMsk, gptbl, Gp, a, b, c, d
<1>7. QED
  BY <1>1, <1>3, <1>4, <1>5, <1>6 DEF c, d

-----------------------------------------------------------------------------
(* Runs of equal ports in the first n elements of d.                       *)

Start(d, x) == x = 0 \/ d[x] # d[x - 1]

IsRun(d, x, m, n) ==
  /\ m \in 1 .. n - x
  /\ \A y \in x .. x + m - 1 : d[y] = d[x]
  /\ x + m < n => d[x + m] # d[x]

\* The length of a run is a number.
LEMMA RunPos ==
  ASSUME NEW d, NEW n, NEW x, NEW m, IsRun(d, x, m, n)
  PROVE  m \in Int
BY DEF IsRun

\* Differences and sums, for leaves that no arithmetic is needed in otherwise.
LEMMA OneLess == \A a \in Int : a - 1 \in Int
OBVIOUS

\* The same of a sum.
LEMMA SumOfTwo == \A a, b \in Int : a + b \in Int
OBVIOUS

\* A run has one length.
LEMMA RunUnique ==
  ASSUME NEW d, NEW n \in Nat, NEW x \in 0 .. n - 1, NEW m, NEW k, IsRun(d, x, m, n), IsRun(d, x, k, n)
  PROVE  m = k
<1>1. m \in 1 .. n - x /\ k \in 1 .. n - x
  BY DEF IsRun
<1>2. ~(m < k)
  <2>1. SUFFICES ASSUME m < k PROVE FALSE
    OBVIOUS
  <2>2. x + m \in x .. x + k - 1 /\ x + m < n
    BY <1>1, <2>1
  <2>3. QED
    BY <2>2 DEF IsRun
<1>3. ~(k < m)
  <2>1. SUFFICES ASSUME k < m PROVE FALSE
    OBVIOUS
  <2>2. x + k \in x .. x + m - 1 /\ x + k < n
    BY <1>1, <2>1
  <2>3. QED
    BY <2>2 DEF IsRun
<1>4. QED
  BY <1>1, <1>2, <1>3

\* A run begins with as many equal elements more.
LEMMA RunBefore ==
  ASSUME NEW d, NEW n \in Nat, NEW x \in 0 .. n - 1, NEW w \in 0 .. n - 1, w <= x,
         \A y \in w .. x : d[y] = d[w],
         NEW m, IsRun(d, x, m, n)
  PROVE  IsRun(d, w, x - w + m, n)
<1>1. m \in 1 .. n - x /\ d[x] = d[w]
  BY DEF IsRun
<1>2. x - w + m \in 1 .. n - w /\ w + (x - w + m) = x + m
  BY <1>1
<1>3. ASSUME NEW y \in w .. w + (x - w + m) - 1 PROVE d[y] = d[w]
  <2>1. y \in w .. x \/ y \in x .. x + m - 1
    BY <1>1, <1>2
  <2>2. QED
    BY <2>1, <1>1 DEF IsRun
<1>4. QED
  BY <1>1, <1>2, <1>3 DEF IsRun

\* The next element is another one.
LEMMA RunOfOne ==
  ASSUME NEW d, NEW n \in Nat, NEW x \in 0 .. n - 1, x + 1 < n => d[x + 1] # d[x]
  PROVE  IsRun(d, x, 1, n)
<1>1. \A y \in x .. x + 1 - 1 : y = x
  OBVIOUS
<1>2. 1 \in 1 .. n - x
  OBVIOUS
<1>3. QED
  BY <1>1, <1>2 DEF IsRun

\* One element more in front, as the table counts.
LEMMA RunBack ==
  ASSUME NEW d, NEW n \in Nat, NEW x \in 0 .. n - 2, NEW m, IsRun(d, x + 1, m, n),
         NEW k, k = IF d[x] = d[x + 1] THEN m + 1 ELSE 1
  PROVE  IsRun(d, x, k, n)
<1>1. CASE d[x] = d[x + 1]
  <2>1. \A y \in x .. x + 1 : d[y] = d[x]
    <3>1. \A y \in x .. x + 1 : y = x \/ y = x + 1
      OBVIOUS
    <3>2. QED
      BY <1>1, <3>1
  <2>2. IsRun(d, x, x + 1 - x + m, n)
    BY <2>1, RunBefore
  <2>3. m \in 1 .. n - (x + 1)
    BY DEF IsRun
  <2>4. x + 1 - x + m = k
    BY <1>1, <2>3
  <2>5. QED
    BY <2>2, <2>4
<1>2. CASE d[x] # d[x + 1]
  BY <1>2, RunOfOne
<1>3. QED
  BY <1>1, <1>2

\* A run that ends before n ends there, whatever comes after n.
LEMMA RunKept ==
  ASSUME NEW d, NEW n \in Nat, NEW k \in Nat, n <= k,
         NEW x \in 0 .. n - 1, NEW m, IsRun(d, x, m, n), x + m < n
  PROVE  IsRun(d, x, m, k)
<1>1. m \in 1 .. n - x
  BY DEF IsRun
<1>2. m \in 1 .. k - x
  BY <1>1
<1>3. QED
  BY <1>2 DEF IsRun

-----------------------------------------------------------------------------
(* What the grouping has done with the first n packets.                    *)

\* Where a run of equal ports in d[0 .. n-1] begins, pn holds its length, and the last run
\* begins at l.
Good(d, pn, l, n) ==
  /\ l \in 0 .. n - 1
  /\ Start(d, l)
  /\ \A y \in l .. n - 1 : d[y] = d[l]
  /\ \A x \in 0 .. n - 1 : Start(d, x) => IsRun(d, x, pn[x], n)

\* The last run begins among the n packets.
LEMMA GoodPlace ==
  ASSUME NEW d, NEW pn, NEW l, NEW n, Good(d, pn, l, n)
  PROVE  l \in 0 .. n - 1 /\ Start(d, l)
BY DEF Good

\* The last run goes to the end, no run begins after l, and those before end before l.
LEMMA GoodFacts ==
  ASSUME NEW d, NEW pn, NEW l, NEW n \in Nat \ {0}, Good(d, pn, l, n)
  PROVE  /\ pn[l] = n - l
         /\ \A x \in 0 .. n - 1 : Start(d, x) => x <= l
         /\ \A x \in 0 .. n - 1 : Start(d, x) /\ x < l => pn[x] \in 1 .. l - x
<1>1. l \in 0 .. n - 1 /\ Start(d, l) /\ \A y \in l .. n - 1 : d[y] = d[l]
  BY DEF Good
<1>2. pn[l] = n - l
  <2>1. IsRun(d, l, pn[l], n)
    BY <1>1 DEF Good
  <2>2. pn[l] \in 1 .. n - l
    BY <2>1 DEF IsRun
  <2>3. SUFFICES ASSUME l + pn[l] < n PROVE FALSE
    BY <1>1, <2>2
  <2>4. l + pn[l] \in l .. n - 1
    BY <1>1, <2>2, <2>3
  <2>5. QED
    BY <1>1, <2>1, <2>3, <2>4 DEF IsRun
<1>3. ASSUME NEW x \in 0 .. n - 1, Start(d, x), ~(x <= l) PROVE FALSE
  <2>1. x \in l .. n - 1 /\ x - 1 \in l .. n - 1 /\ x # 0
    BY <1>1, <1>3
  <2>2. d[x] = d[x - 1]
    BY <1>1, <2>1
  <2>3. QED
    BY <1>3, <2>1, <2>2 DEF Start
<1>4. ASSUME NEW x \in 0 .. n - 1, Start(d, x), x < l PROVE pn[x] \in 1 .. l - x
  <2>1. IsRun(d, x, pn[x], n)
    BY <1>4 DEF Good
  <2>2. pn[x] \in 1 .. n - x
    BY <2>1 DEF IsRun
  <2>3. SUFFICES ASSUME pn[x] > l - x PROVE FALSE
    BY <1>1, <1>4, <2>2
  <2>4. l \in x .. x + pn[x] - 1 /\ l - 1 \in x .. x + pn[x] - 1 /\ l # 0
    BY <1>1, <1>4, <2>2, <2>3
  <2>5. d[l] = d[x] /\ d[l - 1] = d[x]
    BY <2>1, <2>4 DEF IsRun
  <2>6. QED
    BY <1>1, <2>4, <2>5 DEF Start
<1>5. QED
  BY <1>2, <1>3, <1>4

-----------------------------------------------------------------------------
(* port_groupx4.                                                           *)

\* The four comparisons of neighbours in d[at .. at + 4].
Compares(d, at, eq) ==
  /\ eq[1] <=> d[at] = d[at + 1]
  /\ eq[2] <=> d[at + 1] = d[at + 2]
  /\ eq[3] <=> d[at + 2] = d[at + 3]
  /\ eq[4] <=> d[at + 3] = d[at + 4]

\* What the table says of d[at .. at + 4], read as runs: the four elements it gives are
\* the lengths of the runs from there on.
LEMMA TableRuns ==
  ASSUME NEW d, NEW at \in Nat, NEW eq \in [1 .. 4 -> BOOLEAN], NEW g, TableOK(g, eq),
         Compares(d, at, eq)
  PROVE  /\ IsRun(d, at, g.pnum[1], at + 5)
         /\ IsRun(d, at + 1, g.pnum[2], at + 5)
         /\ IsRun(d, at + 2, g.pnum[3], at + 5)
         /\ IsRun(d, at + 3, g.pnum[4], at + 5)
         /\ IsRun(d, at + 4, 1, at + 5)
<1> DEFINE n == at + 5
<1>1. n \in Nat
  OBVIOUS
<1>2. IsRun(d, at + 4, 1, n)
  <2>1. at + 4 \in 0 .. n - 1 /\ ~(at + 4 + 1 < n)
    OBVIOUS
  <2>2. QED
    BY <1>1, <2>1, RunOfOne
<1>3. IsRun(d, at + 3, g.pnum[4], n)
  <2>1. at + 3 \in 0 .. n - 2 /\ at + 3 + 1 = at + 4
    OBVIOUS
  <2>2. g.pnum[4] = IF d[at + 3] = d[at + 3 + 1] THEN 1 + 1 ELSE 1
    BY <2>1 DEF TableOK, Compares
  <2>3. QED
    BY <1>1, <1>2, <2>1, <2>2, RunBack
<1>4. IsRun(d, at + 2, g.pnum[3], n)
  <2>1. at + 2 \in 0 .. n - 2 /\ at + 2 + 1 = at + 3
    OBVIOUS
  <2>2. g.pnum[3] = IF d[at + 2] = d[at + 2 + 1] THEN g.pnum[4] + 1 ELSE 1
    BY <2>1 DEF TableOK, Compares
  <2>3. QED
    BY <1>1, <1>3, <2>1, <2>2, RunBack
<1>5. IsRun(d, at + 1, g.pnum[2], n)
  <2>1. at + 1 \in 0 .. n - 2 /\ at + 1 + 1 = at + 2
    OBVIOUS
  <2>2. g.pnum[2] = IF d[at + 1] = d[at + 1 + 1] THEN g.pnum[3] + 1 ELSE 1
    BY <2>1 DEF TableOK, Compares
  <2>3. QED
    BY <1>1, <1>4, <2>1, <2>2, RunBack
<1>6. IsRun(d, at, g.pnum[1], n)
  <2>1. at \in 0 .. n - 2
    OBVIOUS
  <2>2. g.pnum[1] = IF d[at] = d[at + 1] THEN g.pnum[2] + 1 ELSE 1
    BY DEF TableOK, Compares
  <2>3. QED
    BY <1>1, <1>5, <2>1, <2>2, RunBack
<1>7. QED
  BY <1>2, <1>3, <1>4, <1>5, <1>6

\* The next last updated element is where the last run begins.
LEMMA TableLast ==
  ASSUME NEW d, NEW at \in Nat, NEW eq \in [1 .. 4 -> BOOLEAN], NEW g, TableOK(g, eq),
         ~(eq[1] /\ eq[2] /\ eq[3] /\ eq[4]),
         Compares(d, at, eq)
  PROVE  /\ g.idx \in 1 .. 4
         /\ Start(d, at + g.idx)
         /\ \A y \in at + g.idx .. at + 4 : d[y] = d[at + g.idx]
<1>1. CASE ~eq[4]
  <2>1. g.idx = 4 /\ at + 4 - 1 = at + 3 /\ \A y \in at + 4 .. at + 4 : y = at + 4
    BY <1>1 DEF TableOK
  <2>2. QED
    BY <1>1, <2>1 DEF Start, Compares
<1>2. CASE eq[4] /\ ~eq[3]
  <2>1. g.idx = 3 /\ at + 3 - 1 = at + 2 /\ \A y \in at + 3 .. at + 4 : y = at + 3 \/ y = at + 4
    BY <1>2 DEF TableOK
  <2>2. QED
    BY <1>2, <2>1 DEF Start, Compares
<1>3. CASE eq[4] /\ eq[3] /\ ~eq[2]
  <2>1. /\ g.idx = 2 /\ at + 2 - 1 = at + 1
        /\ \A y \in at + 2 .. at + 4 : y = at + 2 \/ y = at + 3 \/ y = at + 4
    BY <1>3 DEF TableOK
  <2>2. QED
    BY <1>3, <2>1 DEF Start, Compares
<1>4. CASE eq[4] /\ eq[3] /\ eq[2] /\ ~eq[1]
  <2>1. /\ g.idx = 1 /\ at + 1 - 1 = at
        /\ \A y \in at + 1 .. at + 4 : y = at + 1 \/ y = at + 2 \/ y = at + 3 \/ y = at + 4
    BY <1>4 DEF TableOK
  <2>2. QED
    BY <1>4, <2>1 DEF Start, Compares
<1>5. QED
  BY <1>1, <1>2, <1>3, <1>4

\* The last updated element gets what it takes to count on to the first of the new packets'
\* run; d[l .. at] is one run so far.
LEMMA LastGrows ==
  ASSUME NEW d, NEW pn, NEW at \in Nat, NEW n \in Nat, n = at + 1, NEW e \in Nat, e = at + 5,
         NEW l \in Int, Good(d, pn, l, n),
         NEW m \in Int, IsRun(d, at, m, e),
         NEW k \in Int, k = m - 1
  PROVE  /\ IsRun(d, l, pn[l] + k, e)
         /\ \A x \in 0 .. at : Start(d, x) /\ x # l => x < l /\ IsRun(d, x, pn[x], e)
<1>1. l \in 0 .. at /\ \A y \in l .. at : d[y] = d[l]
  BY DEF Good
<1>2. /\ pn[l] = at + 1 - l
      /\ \A x \in 0 .. at : Start(d, x) => x <= l
      /\ \A x \in 0 .. at : Start(d, x) /\ x < l => pn[x] \in 1 .. l - x
  <2>1. n \in Nat \ {0} /\ n - 1 = at
    OBVIOUS
  <2>2. /\ pn[l] = n - l
        /\ \A x \in 0 .. n - 1 : Start(d, x) => x <= l
        /\ \A x \in 0 .. n - 1 : Start(d, x) /\ x < l => pn[x] \in 1 .. l - x
    BY <2>1, GoodFacts
  <2>3. \A x \in 0 .. at : x \in 0 .. n - 1
    BY <2>1
  <2>4. pn[l] = at + 1 - l
    BY <1>1, <2>1, <2>2
  <2>5. QED
    BY <2>2, <2>3, <2>4
<1>3. IsRun(d, l, pn[l] + k, e)
  <2>1. at \in 0 .. e - 1 /\ l \in 0 .. e - 1 /\ l <= at
    BY <1>1
  <2>2. IsRun(d, l, at - l + m, e)
    BY <2>1, <1>1, RunBefore
  <2>3. m \in 1 .. e - at
    BY DEF IsRun
  <2>4. at - l + m = pn[l] + k
    BY <1>1, <1>2, <2>3
  <2>5. QED
    BY <2>2, <2>4
<1>4. ASSUME NEW x \in 0 .. at, Start(d, x), x # l PROVE x < l /\ IsRun(d, x, pn[x], e)
  <2>1. x < l /\ pn[x] \in 1 .. l - x
    BY <1>1, <1>2, <1>4
  <2>2. IsRun(d, x, pn[x], n)
    BY <1>4 DEF Good
  <2>3. /\ n <= e /\ x \in 0 .. n - 1
        /\ x + pn[x] < n
    BY <1>1, <2>1
  <2>4. QED
    BY <2>1, <2>2, <2>3, RunKept
<1>5. QED
  BY <1>3, <1>4

\* port_groupx4 carries the grouping over four more packets, and writes no further than the
\* place behind the four.
LEMMA GroupStep ==
  ASSUME NEW d, NEW at \in Nat, at + 4 <= MAX_PKT_BURST, MAX_PKT_BURST \in Nat,
         pnum \in [0 .. MAX_PKT_BURST + 4 -> Int], Good(d, pnum, lp, at + 1),
         NEW eq \in [1 .. 4 -> BOOLEAN],
         Compares(d, at, eq)
  PROVE  /\ PortGroupX4(at, eq).pnum \in [0 .. MAX_PKT_BURST + 4 -> Int]
         /\ \A x \in at + 5 .. MAX_PKT_BURST + 4 : PortGroupX4(at, eq).pnum[x] = pnum[x]
         /\ Good(d, PortGroupX4(at, eq).pnum, PortGroupX4(at, eq).lp, at + 5)
<1> DEFINE g == gptbl[Mask(eq) + 1]
           r == PortGroupX4(at, eq)
           q == r.pnum
<1>1. TableOK(g, eq) /\ (Mask(eq) = GrpMsk <=> eq[1] /\ eq[2] /\ eq[3] /\ eq[4])
  BY GptblOK
<1>2. r = IF Mask(eq) = GrpMsk
          THEN [pnum |-> [pnum EXCEPT ![lp] = @ + g.lpv], lp |-> lp]
          ELSE [pnum |-> [x \in DOMAIN pnum |->
                            IF x \in at .. at + 3 THEN g.pnum[x - at + 1]
                            ELSE IF x = at + 4 THEN 1 ELSE [pnum EXCEPT ![lp] = @ + g.lpv][x]],
                lp   |-> at + g.idx]
  BY DEF PortGroupX4
<1> HIDE DEF g, r
<1>3. /\ IsRun(d, at, g.pnum[1], at + 5)
      /\ IsRun(d, at + 1, g.pnum[2], at + 5)
      /\ IsRun(d, at + 2, g.pnum[3], at + 5)
      /\ IsRun(d, at + 3, g.pnum[4], at + 5)
      /\ IsRun(d, at + 4, 1, at + 5)
  BY <1>1, TableRuns
<1>4. lp \in 0 .. at /\ Start(d, lp) /\ \A y \in lp .. at : d[y] = d[lp]
  BY DEF Good
<1>5. g.lpv = g.pnum[1] - 1
  BY <1>1 DEF TableOK
<1>6. /\ IsRun(d, lp, pnum[lp] + g.lpv, at + 5)
      /\ \A x \in 0 .. at : Start(d, x) /\ x # lp => x < lp /\ IsRun(d, x, pnum[x], at + 5)
  <2>1. g.pnum[1] \in Int /\ IsRun(d, at, g.pnum[1], at + 5)
    BY <1>3, RunPos
  <2>2. g.lpv \in Int /\ lp \in Int /\ at + 1 \in Nat /\ at + 5 \in Nat
    <3>1. g.lpv \in Int
      BY <2>1, <1>5, OneLess, Zenon
    <3>2. lp \in Int /\ at + 1 \in Nat /\ at + 5 \in Nat
      BY <1>4
    <3>3. QED
      BY <3>1, <3>2
  <2> DEFINE n == at + 1  e == at + 5  m == g.pnum[1]  k == g.lpv
  <2>3. /\ n \in Nat /\ n = at + 1 /\ e \in Nat /\ e = at + 5 /\ Good(d, pnum, lp, n)
        /\ m \in Int /\ IsRun(d, at, m, e) /\ k \in Int /\ k = m - 1
    BY <2>1, <2>2, <1>5
  <2> HIDE DEF n, e, m, k
  <2>4. /\ IsRun(d, lp, pnum[lp] + k, e)
        /\ \A x \in 0 .. at : Start(d, x) /\ x # lp => x < lp /\ IsRun(d, x, pnum[x], e)
    BY <2>2, <2>3, LastGrows, ZenonT(30)
  <2>5. QED
    BY <2>4 DEF e, k
<1>7. /\ g.pnum[1] \in Int /\ g.pnum[2] \in Int /\ g.pnum[3] \in Int /\ g.pnum[4] \in Int
      /\ g.lpv \in Int
  <2>1. g.pnum[1] \in Int
    BY <1>3, RunPos
  <2>2. g.pnum[2] \in Int
    BY <1>3, RunPos
  <2>3. g.pnum[3] \in Int
    BY <1>3, RunPos
  <2>4. g.pnum[4] \in Int
    BY <1>3, RunPos
  <2>5. g.lpv \in Int
    BY <2>1, <1>5, OneLess, Zenon
  <2>6. QED
    BY <2>1, <2>2, <2>3, <2>4, <2>5
<1>8. lp \in 0 .. MAX_PKT_BURST + 4 /\ pnum[lp] + g.lpv \in Int
  <2>1. lp \in 0 .. MAX_PKT_BURST + 4
    BY <1>4
  <2>2. pnum[lp] \in Int
    BY <2>1
  <2>3. QED
    BY <2>1, <2>2, <1>7, SumOfTwo, Zenon
<1>9. CASE eq[1] /\ eq[2] /\ eq[3] /\ eq[4]
  <2>1. q = [pnum EXCEPT ![lp] = pnum[lp] + g.lpv] /\ r.lp = lp
    BY <1>1, <1>2, <1>9
  <2>2. /\ q \in [0 .. MAX_PKT_BURST + 4 -> Int]
        /\ q[lp] = pnum[lp] + g.lpv
        /\ \A x \in 0 .. MAX_PKT_BURST + 4 : x # lp => q[x] = pnum[x]
    BY <2>1, <1>8
  <2>3. \A y \in at .. at + 4 : d[y] = d[at]
    <3>1. \A y \in at .. at + 4 : y = at \/ y = at + 1 \/ y = at + 2 \/ y = at + 3 \/ y = at + 4
      OBVIOUS
    <3>2. QED
      BY <3>1, <1>9 DEF Compares
  <2>4. \A y \in lp .. at + 4 : d[y] = d[lp]
    <3>1. \A y \in lp .. at + 4 : y \in lp .. at \/ y \in at .. at + 4
      BY <1>4
    <3>2. at \in lp .. at
      BY <1>4
    <3>3. QED
      BY <3>1, <3>2, <1>4, <2>3
  <2>5. ASSUME NEW x \in 0 .. at + 4, Start(d, x) PROVE IsRun(d, x, q[x], at + 5)
    <3>1. x <= at
      <4>1. SUFFICES ASSUME x > at PROVE FALSE
        BY <2>5
      <4>2. x \in at .. at + 4 /\ x - 1 \in at .. at + 4 /\ x # 0
        BY <4>1
      <4>3. d[x] = d[x - 1]
        BY <4>2, <2>3
      <4>4. QED
        BY <2>5, <4>2, <4>3 DEF Start
    <3>2. x \in 0 .. at /\ x \in 0 .. MAX_PKT_BURST + 4
      BY <3>1
    <3>3. CASE x = lp
      BY <3>3, <2>2, <1>6
    <3>4. CASE x # lp
      BY <3>4, <3>2, <2>2, <2>5, <1>6
    <3>5. QED
      BY <3>3, <3>4
  <2>6. Good(d, q, r.lp, at + 5)
    <3>1. at + 5 - 1 = at + 4 /\ lp \in 0 .. at + 4
      BY <1>4
    <3>2. QED
      BY <3>1, <2>1, <2>4, <2>5, <1>4 DEF Good
  <2>7. \A x \in at + 5 .. MAX_PKT_BURST + 4 : q[x] = pnum[x]
    <3>1. \A x \in at + 5 .. MAX_PKT_BURST + 4 : x # lp /\ x \in 0 .. MAX_PKT_BURST + 4
      BY <1>4
    <3>2. QED
      BY <3>1, <2>2
  <2>8. QED
    BY <2>2, <2>6, <2>7 DEF r
<1>10. CASE ~(eq[1] /\ eq[2] /\ eq[3] /\ eq[4])
  <2> DEFINE bump == [pnum EXCEPT ![lp] = pnum[lp] + g.lpv]
  <2>1. /\ q = [x \in 0 .. MAX_PKT_BURST + 4 |->
                  IF x \in at .. at + 3 THEN g.pnum[x - at + 1] ELSE IF x = at + 4 THEN 1 ELSE bump[x]]
        /\ r.lp = at + g.idx
    BY <1>1, <1>2, <1>10
  <2>2. /\ bump \in [0 .. MAX_PKT_BURST + 4 -> Int]
        /\ bump[lp] = pnum[lp] + g.lpv
        /\ \A x \in 0 .. MAX_PKT_BURST + 4 : x # lp => bump[x] = pnum[x]
    BY <1>8
  <2> HIDE DEF bump
  <2>3. /\ q[at] = g.pnum[1] /\ q[at + 1] = g.pnum[2] /\ q[at + 2] = g.pnum[3]
        /\ q[at + 3] = g.pnum[4] /\ q[at + 4] = 1
    <3>1. /\ at \in at .. at + 3 /\ at + 1 \in at .. at + 3 /\ at + 2 \in at .. at + 3
          /\ at + 3 \in at .. at + 3 /\ at + 4 \notin at .. at + 3
          /\ at - at + 1 = 1 /\ at + 1 - at + 1 = 2 /\ at + 2 - at + 1 = 3 /\ at + 3 - at + 1 = 4
          /\ at \in 0 .. MAX_PKT_BURST + 4 /\ at + 1 \in 0 .. MAX_PKT_BURST + 4 /\ at + 2 \in 0 .. MAX_PKT_BURST + 4
          /\ at + 3 \in 0 .. MAX_PKT_BURST + 4 /\ at + 4 \in 0 .. MAX_PKT_BURST + 4
      OBVIOUS
    <3>2. QED
      BY <3>1, <2>1
  <2>4. \A x \in 0 .. MAX_PKT_BURST + 4 : x < at \/ x > at + 4 => q[x] = bump[x]
    <3>1. ASSUME NEW x \in 0 .. MAX_PKT_BURST + 4, x < at \/ x > at + 4
          PROVE  x \notin at .. at + 3 /\ x # at + 4
      BY <3>1
    <3>2. QED
      BY <3>1, <2>1
  <2>5. \A x \in at .. at + 4 : x = at \/ x = at + 1 \/ x = at + 2 \/ x = at + 3 \/ x = at + 4
    OBVIOUS
  <2>6. q \in [0 .. MAX_PKT_BURST + 4 -> Int]
    <3>1. ASSUME NEW x \in 0 .. MAX_PKT_BURST + 4 PROVE q[x] \in Int
      <4>1. CASE x \in at .. at + 4
        <5>1. x = at \/ x = at + 1 \/ x = at + 2 \/ x = at + 3 \/ x = at + 4
          BY <4>1, <2>5
        <5>2. q[at] \in Int /\ q[at + 1] \in Int
          BY <2>3, <1>7
        <5>3. q[at + 2] \in Int /\ q[at + 3] \in Int
          BY <2>3, <1>7
        <5>4. q[at + 4] \in Int
          BY <2>3
        <5>5. QED
          BY <5>1, <5>2, <5>3, <5>4
      <4>2. CASE x \notin at .. at + 4
        <5>1. x < at \/ x > at + 4
          BY <4>2
        <5>2. QED
          BY <5>1, <2>2, <2>4
      <4>3. QED
        BY <4>1, <4>2
    <3>2. QED
      BY <2>1, <3>1
  <2>7. ASSUME NEW x \in 0 .. at + 4, Start(d, x) PROVE IsRun(d, x, q[x], at + 5)
    <3>1. CASE x \in at .. at + 4
      BY <3>1, <1>3, <2>3, <2>5
    <3>2. CASE x \notin at .. at + 4
      <4>1. x < at /\ x \in 0 .. at /\ x \in 0 .. MAX_PKT_BURST + 4
        BY <3>2
      <4>2. q[x] = bump[x]
        BY <4>1, <2>4
      <4>3. CASE x = lp
        BY <4>3, <4>2, <2>2, <1>6
      <4>4. CASE x # lp
        BY <4>4, <4>1, <4>2, <2>2, <2>7, <1>6
      <4>5. QED
        BY <4>3, <4>4
    <3>3. QED
      BY <3>1, <3>2
  <2>8. Good(d, q, r.lp, at + 5)
    <3>1. /\ g.idx \in 1 .. 4 /\ Start(d, at + g.idx)
          /\ \A y \in at + g.idx .. at + 4 : d[y] = d[at + g.idx]
      <4>1. TableOK(g, eq)
        BY <1>1
      <4>2. QED
        BY <4>1, <1>10, TableLast, ZenonT(30)
    <3>2. at + 5 - 1 = at + 4 /\ at + g.idx \in 0 .. at + 4
      <4> DEFINE i == g.idx
      <4>1. i \in 1 .. 4
        BY <3>1
      <4> HIDE DEF i
      <4>2. at + 5 - 1 = at + 4 /\ at + i \in 0 .. at + 4
        BY <4>1
      <4>3. QED
        BY <4>2 DEF i
    <3>3. r.lp \in 0 .. at + 5 - 1 /\ Start(d, r.lp)
      BY <3>1, <3>2, <2>1, Zenon
    <3>4. \A y \in r.lp .. at + 5 - 1 : d[y] = d[r.lp]
      BY <3>1, <3>2, <2>1
    <3>5. \A x \in 0 .. at + 5 - 1 : Start(d, x) => IsRun(d, x, q[x], at + 5)
      BY <3>2, <2>7
    <3> DEFINE z == r.lp  w == at + 5
    <3>6. /\ z \in 0 .. w - 1 /\ Start(d, z) /\ \A y \in z .. w - 1 : d[y] = d[z]
          /\ \A x \in 0 .. w - 1 : Start(d, x) => IsRun(d, x, q[x], w)
      BY <3>3, <3>4, <3>5
    <3> HIDE DEF z, w, q
    <3>7. Good(d, q, z, w)
      BY <3>6 DEF Good
    <3>8. QED
      BY <3>7 DEF z, w
  <2>9. \A x \in at + 5 .. MAX_PKT_BURST + 4 : q[x] = pnum[x]
    <3>1. \A x \in at + 5 .. MAX_PKT_BURST + 4 : x # lp /\ x > at + 4 /\ x \in 0 .. MAX_PKT_BURST + 4
      BY <1>4
    <3>2. QED
      BY <3>1, <2>2, <2>4
  <2>10. QED
    BY <2>6, <2>8, <2>9 DEF r
<1>11. QED
  BY <1>9, <1>10

-----------------------------------------------------------------------------
(* The inductive invariant.                                                *)

\* The first n ports are final.
FinalUpTo(n) == \A x \in 0 .. n - 1 : dstPort[x] = final[x]

NothingSent == \A x \in 0 .. nbRx - 1 : gone[x] = NeverUsed

FirstInv == phase = "first" => cur = 0 /\ dlp = NeverUsed /\ lp = 0 /\ NothingSent

\* Between two groups of four the grouping is one packet behind the last group's three.
GroupsInv ==
  phase = "groups" =>
    /\ cur \in 4 .. K /\ cur % 4 = 0 /\ dp1 = cur - 4
    /\ FinalUpTo(cur) /\ NothingSent
    /\ Good(final, pnum, lp, cur - 3)

TailInv ==
  phase = "tail" =>
    /\ cur <= nbRx /\ FinalUpTo(cur) /\ NothingSent
    /\ cur = 0 => dlp = NeverUsed
    /\ cur > 0 => dlp = final[cur - 1] /\ Good(final, pnum, lp, cur)

\* The send loop is where a run begins, and what is before is gone.
SendInv ==
  phase = "send" =>
    /\ cur <= nbRx /\ dstPort = final
    /\ \A x \in 0 .. nbRx - 1 : Start(final, x) => IsRun(final, x, pnum[x], nbRx)
    /\ cur < nbRx => Start(final, cur)
    /\ \A x \in 0 .. nbRx - 1 : gone[x] = IF x < cur THEN final[x] ELSE NeverUsed

DoneInv == phase = "done" => gone = final

IInv == GroupTypeOK /\ FirstInv /\ GroupsInv /\ TailInv /\ SendInv /\ DoneInv

\* What GroupTypeOK says of the numbers, and of nb_rx aligned down.
LEMMA Numbers ==
  ASSUME GroupTypeOK
  PROVE  /\ MAX_PKT_BURST \in Nat /\ nbRx \in Nat \ {0} /\ nbRx <= MAX_PKT_BURST /\ cur \in Nat /\ lp \in Nat
         /\ K \in Nat /\ K <= nbRx /\ K % 4 = 0
<1>1. MAX_PKT_BURST \in Nat
  BY PktGroupAssumption
<1>2. nbRx \in 1 .. MAX_PKT_BURST /\ cur \in 0 .. MAX_PKT_BURST /\ lp \in 0 .. MAX_PKT_BURST
  BY DEF GroupTypeOK
<1>3. K = nbRx - (nbRx % 4)
  BY DEF K, FWDSTEP
<1>4. QED
  BY <1>1, <1>2, <1>3

\* Before the first group nothing is sent and nothing counted.
LEMMA InitHolds == GroupInit => IInv
<1> SUFFICES ASSUME GroupInit PROVE IInv
  OBVIOUS
<1>1. MAX_PKT_BURST \in Nat
  BY PktGroupAssumption
<1>2. GroupTypeOK
  <2>1. \A x \in MAX_PKT_BURST + 1 .. MAX_PKT_BURST + FWDSTEP : x \in 0 .. MAX_PKT_BURST + FWDSTEP
    BY <1>1 DEF FWDSTEP
  <2>2. \A x \in MAX_PKT_BURST + 1 .. MAX_PKT_BURST + FWDSTEP : pnum[x] = Garbage
    BY <2>1 DEF GroupInit
  <2>3. pnum \in [0 .. MAX_PKT_BURST + FWDSTEP -> Int]
    BY DEF GroupInit, Garbage
  <2>4. dstPort \in [0 .. nbRx - 1 -> PortId \cup {BAD_PORT}]
    BY DEF GroupInit
  <2>5. lp \in 0 .. MAX_PKT_BURST /\ dp1 \in 0 .. MAX_PKT_BURST /\ cur \in 0 .. MAX_PKT_BURST
    BY <1>1 DEF GroupInit
  <2>6. gone \in [0 .. nbRx - 1 -> PortId \cup {BAD_PORT, NeverUsed}]
    BY DEF GroupInit
  <2>7. QED
    BY <2>2, <2>3, <2>4, <2>5, <2>6 DEF GroupInit, GroupTypeOK
<1>3. phase = "first" /\ FirstInv
  BY DEF GroupInit, FirstInv, NothingSent
<1>4. QED
  BY <1>2, <1>3 DEF IInv, GroupsInv, TailInv, SendInv, DoneInv

-----------------------------------------------------------------------------
(* The first group, and the groups after it.                               *)

\* The packets from n on are processed, four or one.
LEMMA NowFinal ==
  ASSUME GroupTypeOK, NEW n \in Nat, NEW k \in Nat, n + k <= nbRx, FinalUpTo(n), dstPort' = Processed(n, k)
  PROVE  /\ \A x \in 0 .. n + k - 1 : dstPort'[x] = final[x]
         /\ dstPort' \in [0 .. nbRx - 1 -> PortId \cup {BAD_PORT}]
<1>1. nbRx \in Nat
  BY Numbers
<1>2. /\ dstPort \in [0 .. nbRx - 1 -> PortId \cup {BAD_PORT}]
      /\ final \in [0 .. nbRx - 1 -> PortId \cup {BAD_PORT}]
  BY DEF GroupTypeOK
<1>3. dstPort' = [x \in 0 .. nbRx - 1 |-> IF x \in n .. n + k - 1 THEN final[x] ELSE dstPort[x]]
  BY <1>2 DEF Processed
<1>4. ASSUME NEW x \in 0 .. n + k - 1 PROVE dstPort'[x] = final[x]
  <2>1. x \in 0 .. nbRx - 1 /\ (x \in 0 .. n - 1 \/ x \in n .. n + k - 1)
    BY <1>1, <1>4
  <2>2. QED
    BY <1>3, <2>1 DEF FinalUpTo
<1>5. QED
  BY <1>2, <1>3, <1>4

\* The first group, or the tail at once when the burst has fewer than four packets.
LEMMA FirstGroupStep ==
  ASSUME IInv, FirstGroup
  PROVE  IInv'
<1>1. /\ GroupTypeOK /\ phase = "first" /\ cur = 0 /\ dlp = NeverUsed /\ lp = 0 /\ NothingSent
      /\ nbRx' = nbRx /\ final' = final /\ dlp' = dlp /\ gone' = gone /\ dp1' = 0
  BY DEF IInv, FirstInv, FirstGroup
<1>2. /\ MAX_PKT_BURST \in Nat /\ nbRx \in Nat \ {0} /\ nbRx <= MAX_PKT_BURST
      /\ K \in Nat /\ K <= nbRx /\ K % 4 = 0
  BY <1>1, Numbers
<1>3. K' = K /\ NothingSent'
  BY <1>1 DEF K, NothingSent
<1>4. CASE K # 0
  <2>1. /\ pnum' = [pnum EXCEPT ![0] = 1] /\ dstPort' = Processed(0, 4) /\ cur' = 4
        /\ phase' = "groups" /\ lp' = 0
    BY <1>1, <1>4 DEF FirstGroup, FWDSTEP
  <2>2. 4 <= K /\ 0 + 4 <= nbRx /\ 4 \in 4 .. K /\ 4 % 4 = 0
    BY <1>2, <1>4
  <2>3. FinalUpTo(0)
    BY DEF FinalUpTo
  <2>4. /\ \A x \in 0 .. 0 + 4 - 1 : dstPort'[x] = final[x]
        /\ dstPort' \in [0 .. nbRx - 1 -> PortId \cup {BAD_PORT}]
    BY <1>1, <2>1, <2>2, <2>3, NowFinal
  <2>5. \A x \in 0 .. 4 - 1 : dstPort'[x] = final'[x]
    BY <1>1, <2>4
  <2>6. /\ pnum' \in [0 .. MAX_PKT_BURST + 4 -> Int] /\ pnum'[0] = 1
        /\ \A x \in MAX_PKT_BURST + 1 .. MAX_PKT_BURST + 4 : pnum'[x] = Garbage
    <3>1. pnum \in [0 .. MAX_PKT_BURST + 4 -> Int] /\ \A x \in MAX_PKT_BURST + 1 .. MAX_PKT_BURST + 4 : pnum[x] = Garbage
      BY <1>1 DEF GroupTypeOK, FWDSTEP
    <3>2. /\ 0 \in 0 .. MAX_PKT_BURST + 4
          /\ \A x \in MAX_PKT_BURST + 1 .. MAX_PKT_BURST + 4 : x # 0 /\ x \in 0 .. MAX_PKT_BURST + 4
      BY <1>2
    <3>3. QED
      BY <3>1, <3>2, <2>1
  <2>7. Good(final', pnum', 0, 1)
    <3>1. Start(final', 0) /\ 0 \in 0 .. 1 - 1 /\ \A y \in 0 .. 1 - 1 : y = 0
      BY DEF Start
    <3>2. IsRun(final', 0, 1, 1)
      <4>1. 1 \in Nat /\ 0 \in 0 .. 1 - 1 /\ ~(0 + 1 < 1)
        OBVIOUS
      <4>2. QED
        BY <4>1, RunOfOne
    <3>3. QED
      BY <3>1, <3>2, <2>6 DEF Good
  <2>8. GroupTypeOK'
    <3>1. lp' \in 0 .. MAX_PKT_BURST /\ dp1' \in 0 .. MAX_PKT_BURST /\ cur' \in 0 .. MAX_PKT_BURST
      BY <1>1, <1>2, <2>1, <2>2
    <3>2. QED
      BY <1>1, <2>1, <2>4, <2>6, <3>1 DEF GroupTypeOK, FWDSTEP
  <2>9. GroupsInv'
    <3>1. /\ cur' \in 4 .. K' /\ cur' % 4 = 0 /\ dp1' = cur' - 4 /\ cur' - 3 = 1
      BY <1>1, <1>3, <2>1, <2>2
    <3>2. FinalUpTo(cur)'
      BY <2>1, <2>5 DEF FinalUpTo
    <3>3. Good(final, pnum, lp, cur - 3)'
      BY <3>1, <2>1, <2>7
    <3>4. QED
      BY <3>1, <3>2, <3>3, <1>3 DEF GroupsInv
  <2>10. QED
    BY <2>1, <2>8, <2>9 DEF IInv, FirstInv, TailInv, SendInv, DoneInv
<1>5. CASE K = 0
  <2>1. /\ pnum' = pnum /\ dstPort' = dstPort /\ cur' = 0 /\ phase' = "tail" /\ lp' = MAX_PKT_BURST
    BY <1>1, <1>5 DEF FirstGroup
  <2>2. GroupTypeOK'
    <3>1. lp' \in 0 .. MAX_PKT_BURST /\ dp1' \in 0 .. MAX_PKT_BURST /\ cur' \in 0 .. MAX_PKT_BURST
      BY <1>1, <1>2, <2>1
    <3>2. QED
      BY <1>1, <2>1, <3>1 DEF GroupTypeOK
  <2>3. TailInv'
    <3>1. FinalUpTo(cur)' /\ cur' <= nbRx' /\ ~(cur' > 0) /\ dlp' = NeverUsed
      BY <1>1, <1>2, <2>1 DEF FinalUpTo
    <3>2. QED
      BY <3>1, <1>3 DEF TailInv
  <2>4. QED
    BY <2>1, <2>2, <2>3 DEF IInv, FirstInv, GroupsInv, SendInv, DoneInv
<1>6. QED
  BY <1>4, <1>5

\* The comparisons are of the final ports of the last packet of the group before and of the
\* four new ones.
LEMMA ComparedFinal ==
  ASSUME IInv, NextGroup, NEW at \in Nat, at = cur - 4
  PROVE  /\ Compared \in [1 .. 4 -> BOOLEAN]
         /\ Compares(final, at, Compared)
         /\ cur + 4 <= K /\ (cur + 4) % 4 = 0
         /\ \A x \in 0 .. cur + 4 - 1 : dstPort'[x] = final[x]
         /\ dstPort' \in [0 .. nbRx - 1 -> PortId \cup {BAD_PORT}]
<1>1. /\ GroupTypeOK /\ phase = "groups" /\ cur # K /\ cur \in 4 .. K /\ cur % 4 = 0 /\ dp1 = cur - 4
      /\ FinalUpTo(cur) /\ dstPort' = Processed(cur, 4)
  BY DEF IInv, GroupsInv, NextGroup, FWDSTEP
<1>2. cur \in Nat /\ K \in Nat /\ K <= nbRx /\ K % 4 = 0 /\ nbRx \in Nat
  BY <1>1, Numbers
<1>3. cur + 4 <= K /\ (cur + 4) % 4 = 0 /\ cur + 4 <= nbRx
  BY <1>1, <1>2
<1>4. /\ \A x \in 0 .. cur + 4 - 1 : dstPort'[x] = final[x]
      /\ dstPort' \in [0 .. nbRx - 1 -> PortId \cup {BAD_PORT}]
  BY <1>1, <1>2, <1>3, NowFinal
<1>5. Compared = [x \in 1 .. 4 |-> dstPort'[dp1 + x - 1] = dstPort'[cur - 4 + 1 + x - 1]]
  BY <1>1 DEF Compared, Lanes, FWDSTEP
<1>6. ASSUME NEW x \in 1 .. 4 PROVE Compared[x] <=> final[at + x - 1] = final[at + x]
  <2>1. /\ dp1 + x - 1 = at + x - 1 /\ cur - 4 + 1 + x - 1 = at + x
        /\ at + x - 1 \in 0 .. cur + 4 - 1 /\ at + x \in 0 .. cur + 4 - 1
    BY <1>1, <1>2
  <2>2. dstPort'[at + x - 1] = final[at + x - 1] /\ dstPort'[at + x] = final[at + x]
    BY <1>4, <2>1
  <2>3. QED
    BY <1>5, <2>1, <2>2
<1>7. Compares(final, at, Compared)
  <2>1. /\ 1 \in 1 .. 4 /\ 2 \in 1 .. 4 /\ 3 \in 1 .. 4 /\ 4 \in 1 .. 4
        /\ at + 1 - 1 = at /\ at + 2 - 1 = at + 1 /\ at + 3 - 1 = at + 2 /\ at + 4 - 1 = at + 3
    OBVIOUS
  <2>2. Compared[1] <=> final[at] = final[at + 1]
    BY <1>6, <2>1
  <2>3. Compared[2] <=> final[at + 1] = final[at + 2]
    BY <1>6, <2>1
  <2>4. Compared[3] <=> final[at + 2] = final[at + 3]
    BY <1>6, <2>1
  <2>5. Compared[4] <=> final[at + 3] = final[at + 4]
    BY <1>6, <2>1
  <2>6. QED
    BY <2>2, <2>3, <2>4, <2>5 DEF Compares
<1>8. Compared \in [1 .. 4 -> BOOLEAN]
  BY <1>5
<1>9. QED
  BY <1>3, <1>4, <1>7, <1>8

\* Another group of four, with the comparisons of its final ports.
LEMMA NextGroupStep ==
  ASSUME IInv, NextGroup
  PROVE  IInv'
<1>1. /\ GroupTypeOK /\ phase = "groups" /\ cur # K /\ cur \in 4 .. K /\ cur % 4 = 0 /\ NothingSent
      /\ Good(final, pnum, lp, cur - 3)
  BY DEF IInv, GroupsInv, NextGroup
<1>2. /\ nbRx' = nbRx /\ final' = final /\ dlp' = dlp /\ gone' = gone /\ phase' = "groups"
      /\ dp1' = cur /\ cur' = cur + 4
  BY <1>1 DEF NextGroup, FWDSTEP
<1>3. /\ MAX_PKT_BURST \in Nat /\ nbRx \in Nat \ {0} /\ nbRx <= MAX_PKT_BURST /\ cur \in Nat
      /\ K \in Nat /\ K <= nbRx /\ K % 4 = 0
  BY <1>1, Numbers
<1>4. K' = K /\ NothingSent'
  BY <1>1, <1>2 DEF K, NothingSent
<1> DEFINE at == cur - 4
           q == PortGroupX4(at, Compared).pnum
           l == PortGroupX4(at, Compared).lp
<1>5. at \in Nat /\ at + 1 = cur - 3 /\ at + 4 = cur /\ at + 5 = cur' - 3
  BY <1>1, <1>2, <1>3
<1>6. pnum' = q /\ lp' = l
  BY DEF NextGroup, GroupAt, FWDSTEP
<1>7. /\ Compared \in [1 .. 4 -> BOOLEAN]
      /\ Compares(final, at, Compared)
      /\ cur + 4 <= K /\ (cur + 4) % 4 = 0
      /\ \A x \in 0 .. cur + 4 - 1 : dstPort'[x] = final[x]
      /\ dstPort' \in [0 .. nbRx - 1 -> PortId \cup {BAD_PORT}]
  BY <1>5, ComparedFinal
<1> HIDE DEF at
<1>8. /\ q \in [0 .. MAX_PKT_BURST + 4 -> Int]
      /\ \A x \in at + 5 .. MAX_PKT_BURST + 4 : q[x] = pnum[x]
      /\ Good(final, q, l, at + 5)
  <2>1. at + 4 <= MAX_PKT_BURST /\ Good(final, pnum, lp, at + 1)
    BY <1>1, <1>3, <1>5
  <2>2. pnum \in [0 .. MAX_PKT_BURST + 4 -> Int]
    BY <1>1 DEF GroupTypeOK, FWDSTEP
  <2>3. QED
    BY <2>1, <2>2, <1>3, <1>5, <1>7, GroupStep
<1> HIDE DEF q, l
<1>9. GroupTypeOK'
  <2>1. \A x \in MAX_PKT_BURST + 1 .. MAX_PKT_BURST + 4 : pnum'[x] = Garbage
    <3>1. \A x \in MAX_PKT_BURST + 1 .. MAX_PKT_BURST + 4 : x \in at + 5 .. MAX_PKT_BURST + 4
      BY <1>1, <1>3, <1>5
    <3>2. \A x \in MAX_PKT_BURST + 1 .. MAX_PKT_BURST + 4 : pnum[x] = Garbage
      BY <1>1 DEF GroupTypeOK, FWDSTEP
    <3>3. QED
      BY <3>1, <3>2, <1>6, <1>8
  <2>2. l \in 0 .. at + 4
    <3> DEFINE n == at + 5
    <3>1. Good(final, q, l, n)
      BY <1>8
    <3>2. n - 1 = at + 4
      BY <1>5
    <3> HIDE DEF n
    <3>3. l \in 0 .. n - 1
      BY <3>1, GoodPlace
    <3>4. QED
      BY <3>2, <3>3
  <2>3. lp' \in 0 .. MAX_PKT_BURST /\ dp1' \in 0 .. MAX_PKT_BURST /\ cur' \in 0 .. MAX_PKT_BURST
    BY <2>2, <1>1, <1>2, <1>3, <1>5, <1>6, <1>7
  <2>4. QED
    BY <2>1, <2>3, <1>1, <1>2, <1>6, <1>7, <1>8 DEF GroupTypeOK, FWDSTEP
<1>10. GroupsInv'
  <2>1. cur' \in 4 .. K' /\ cur' % 4 = 0 /\ dp1' = cur' - 4
    BY <1>1, <1>2, <1>3, <1>4, <1>7
  <2>2. FinalUpTo(cur)'
    <3>1. \A x \in 0 .. cur + 4 - 1 : dstPort'[x] = final'[x]
      BY <1>2, <1>7
    <3>2. cur' - 1 = cur + 4 - 1
      BY <1>2, <1>3
    <3>3. QED
      BY <3>1, <3>2 DEF FinalUpTo
  <2>3. Good(final, pnum, lp, cur - 3)'
    BY <1>2, <1>5, <1>6, <1>8
  <2>4. QED
    BY <2>1, <2>2, <2>3, <1>4 DEF GroupsInv
<1>11. QED
  BY <1>2, <1>9, <1>10 DEF IInv, FirstInv, TailInv, SendInv, DoneInv

-----------------------------------------------------------------------------
(* The last group.                                                         *)

\* The first n elements of d with the last repeated.
WithLastRepeated(d, n) == [y \in 0 .. n |-> IF y = n THEN d[n - 1] ELSE d[y]]

\* What has been counted with the last port repeated counts once too much in the last run,
\* and only there.
LEMMA LastCountedTwice ==
  ASSUME NEW d, NEW n \in Nat \ {0}, NEW pn, NEW pn2, NEW l, NEW w \in Nat, w = n + 1,
         Good(WithLastRepeated(d, n), pn, l, w),
         pn2[l] = pn[l] - 1,
         \A x \in 0 .. n - 1 : x # l => pn2[x] = pn[x]
  PROVE  Good(d, pn2, l, n)
<1> DEFINE e == WithLastRepeated(d, n)
<1>1. /\ \A y \in 0 .. n - 1 : e[y] = d[y]
      /\ e[n] = d[n - 1]
  BY DEF WithLastRepeated
<1>2. Good(e, pn, l, w) /\ w \in Nat \ {0} /\ w - 1 = n
  OBVIOUS
<1> HIDE DEF e
<1>3. /\ pn[l] = w - l
      /\ \A x \in 0 .. w - 1 : Start(e, x) => x <= l
      /\ \A x \in 0 .. w - 1 : Start(e, x) /\ x < l => pn[x] \in 1 .. l - x
  BY <1>2, GoodFacts
<1>4. l \in 0 .. n /\ Start(e, l) /\ \A y \in l .. n : e[y] = e[l]
  BY <1>2 DEF Good
<1>5. l \in 0 .. n - 1
  <2>1. SUFFICES ASSUME l = n PROVE FALSE
    BY <1>4
  <2>2. e[n] = e[n - 1]
    BY <1>1
  <2>3. QED
    BY <1>4, <2>1, <2>2 DEF Start
<1>6. ASSUME NEW x \in 0 .. n - 1 PROVE Start(d, x) <=> Start(e, x)
  <2>1. x # 0 => x - 1 \in 0 .. n - 1
    OBVIOUS
  <2>2. QED
    BY <1>1, <2>1 DEF Start
<1>7. \A y \in l .. n - 1 : d[y] = d[l]
  <2>1. ASSUME NEW y \in l .. n - 1 PROVE d[y] = d[l]
    <3>1. y \in l .. n /\ y \in 0 .. n - 1
      BY <1>5
    <3>2. QED
      BY <3>1, <1>1, <1>4, <1>5
  <2>2. QED
    BY <2>1
<1>8. ASSUME NEW x \in 0 .. n - 1, Start(d, x) PROVE IsRun(d, x, pn2[x], n)
  <2>1. Start(e, x) /\ x <= l /\ x \in 0 .. w - 1
    BY <1>2, <1>3, <1>6, <1>8
  <2>2. CASE x = l
    <3>1. pn2[l] = n - l
      BY <1>3, <1>5
    <3>2. n - l \in 1 .. n - l /\ l + (n - l) = n
      BY <1>5
    <3> DEFINE m == n - l
    <3>3. m \in 1 .. n - l /\ l + m = n /\ ~(l + m < n) /\ l + m - 1 = n - 1
      BY <1>5
    <3> HIDE DEF m
    <3>4. IsRun(d, l, m, n)
      BY <3>3, <1>7 DEF IsRun
    <3>5. QED
      BY <2>2, <3>1, <3>4 DEF m
  <2>3. CASE x < l
    <3>1. IsRun(e, x, pn[x], w) /\ pn[x] \in 1 .. l - x
      BY <2>1, <2>3, <1>2, <1>3 DEF Good
    <3>2. pn[x] \in 1 .. n - x /\ x + pn[x] <= l
      BY <3>1, <1>5
    <3>3. \A y \in x .. x + pn[x] - 1 : y \in 0 .. n - 1
      BY <3>2
    <3>4. \A y \in x .. x + pn[x] - 1 : d[y] = d[x]
      BY <3>1, <3>3, <1>1 DEF IsRun
    <3>5. x + pn[x] < n => d[x + pn[x]] # d[x]
      <4>1. SUFFICES ASSUME x + pn[x] < n PROVE d[x + pn[x]] # d[x]
        OBVIOUS
      <4>2. x + pn[x] \in 0 .. n - 1 /\ x + pn[x] < w
        BY <4>1, <3>2, <1>2
      <4>3. QED
        BY <4>2, <3>1, <1>1 DEF IsRun
    <3>6. pn2[x] = pn[x]
      BY <2>3
    <3>7. QED
      BY <3>2, <3>4, <3>5, <3>6 DEF IsRun
  <2>4. QED
    BY <2>1, <2>2, <2>3, <1>5
<1>9. Start(d, l)
  BY <1>4, <1>5, <1>6
<1>10. QED
  BY <1>5, <1>7, <1>8, <1>9 DEF Good

\* Only the first n ports matter to what is said of n packets.
LEMMA GoodAgrees ==
  ASSUME NEW d, NEW e, NEW n \in Nat, \A y \in 0 .. n - 1 : d[y] = e[y],
         NEW pn, NEW l, Good(d, pn, l, n)
  PROVE  Good(e, pn, l, n)
<1>1. l \in 0 .. n - 1 /\ Start(d, l) /\ \A y \in l .. n - 1 : d[y] = d[l]
  BY DEF Good
<1>2. ASSUME NEW x \in 0 .. n - 1 PROVE Start(d, x) <=> Start(e, x)
  <2>1. x # 0 => x - 1 \in 0 .. n - 1
    OBVIOUS
  <2>2. QED
    BY <2>1 DEF Start
<1>3. \A y \in l .. n - 1 : e[y] = e[l]
  <2>1. \A y \in l .. n - 1 : y \in 0 .. n - 1
    BY <1>1
  <2>2. QED
    BY <2>1, <1>1
<1>4. ASSUME NEW x \in 0 .. n - 1, Start(e, x) PROVE IsRun(e, x, pn[x], n)
  <2>1. IsRun(d, x, pn[x], n)
    BY <1>2, <1>4 DEF Good
  <2>2. pn[x] \in 1 .. n - x
    BY <2>1 DEF IsRun
  <2>3. \A y \in x .. x + pn[x] - 1 : y \in 0 .. n - 1
    BY <2>2
  <2>4. \A y \in x .. x + pn[x] - 1 : e[y] = e[x]
    BY <2>1, <2>3 DEF IsRun
  <2>5. x + pn[x] < n => x + pn[x] \in 0 .. n - 1
    BY <2>2
  <2>6. x + pn[x] < n => e[x + pn[x]] # e[x]
    BY <2>1, <2>5 DEF IsRun
  <2>7. QED
    BY <2>2, <2>4, <2>6 DEF IsRun
<1>5. Start(e, l)
  BY <1>1, <1>2
<1>6. QED
  BY <1>1, <1>3, <1>4, <1>5 DEF Good

\* The comparisons of the last group.
LastLanes == [x \in 1 .. 4 |-> x = 4 \/ dstPort[dp1 + x - 1] = dstPort[dp1 + x]]

\* The last group is compared with itself: its last port counts twice.
LEMMA LastCompared ==
  ASSUME NEW at \in Nat, dp1 = at, NEW n \in Nat, n = at + 4,
         \A x \in 0 .. n - 1 : dstPort[x] = final[x]
  PROVE  /\ LastLanes \in [1 .. 4 -> BOOLEAN]
         /\ Compares(WithLastRepeated(final, n), at, LastLanes)
<1> DEFINE d == WithLastRepeated(final, n)
<1>1. /\ at \in 0 .. n - 1 /\ at + 1 \in 0 .. n - 1 /\ at + 2 \in 0 .. n - 1
      /\ at + 3 \in 0 .. n - 1 /\ at + 4 = n
  OBVIOUS
<1>2. /\ d[at] = final[at] /\ d[at + 1] = final[at + 1] /\ d[at + 2] = final[at + 2]
      /\ d[at + 3] = final[at + 3]
  BY <1>1 DEF WithLastRepeated
<1>3. d[n] = final[n - 1] /\ n - 1 = at + 3
  BY <1>1 DEF WithLastRepeated
<1>4. d[at + 4] = d[at + 3]
  BY <1>1, <1>2, <1>3
<1> HIDE DEF d
<1>5. /\ dstPort[at] = d[at] /\ dstPort[at + 1] = d[at + 1] /\ dstPort[at + 2] = d[at + 2]
      /\ dstPort[at + 3] = d[at + 3]
  BY <1>1, <1>2
<1>6. /\ dp1 + 1 - 1 = at /\ dp1 + 1 = at + 1 /\ dp1 + 2 - 1 = at + 1 /\ dp1 + 2 = at + 2
      /\ dp1 + 3 - 1 = at + 2 /\ dp1 + 3 = at + 3
  OBVIOUS
<1>7. /\ LastLanes[1] <=> dstPort[dp1 + 1 - 1] = dstPort[dp1 + 1]
      /\ LastLanes[2] <=> dstPort[dp1 + 2 - 1] = dstPort[dp1 + 2]
      /\ LastLanes[3] <=> dstPort[dp1 + 3 - 1] = dstPort[dp1 + 3]
      /\ LastLanes[4]
  <2>1. ASSUME NEW x \in 1 .. 4
        PROVE  LastLanes[x] <=> x = 4 \/ dstPort[dp1 + x - 1] = dstPort[dp1 + x]
    BY DEF LastLanes
  <2>2. /\ 1 \in 1 .. 4 /\ 2 \in 1 .. 4 /\ 3 \in 1 .. 4 /\ 4 \in 1 .. 4
        /\ 1 # 4 /\ 2 # 4 /\ 3 # 4
    OBVIOUS
  <2>3. LastLanes[1] <=> dstPort[dp1 + 1 - 1] = dstPort[dp1 + 1]
    BY <2>1, <2>2
  <2>4. LastLanes[2] <=> dstPort[dp1 + 2 - 1] = dstPort[dp1 + 2]
    BY <2>1, <2>2
  <2>5. LastLanes[3] <=> dstPort[dp1 + 3 - 1] = dstPort[dp1 + 3]
    BY <2>1, <2>2
  <2>6. LastLanes[4]
    BY <2>1, <2>2
  <2>7. QED
    BY <2>3, <2>4, <2>5, <2>6
<1>8. Compares(d, at, LastLanes)
  <2>1. LastLanes[1] <=> d[at] = d[at + 1]
    BY <1>5, <1>6, <1>7
  <2>2. LastLanes[2] <=> d[at + 1] = d[at + 2]
    BY <1>5, <1>6, <1>7
  <2>3. LastLanes[3] <=> d[at + 2] = d[at + 3]
    BY <1>5, <1>6, <1>7
  <2>4. LastLanes[4] <=> d[at + 3] = d[at + 4]
    BY <1>4, <1>7
  <2>5. QED
    BY <2>1, <2>2, <2>3, <2>4 DEF Compares
<1>9. LastLanes \in [1 .. 4 -> BOOLEAN]
  BY DEF LastLanes
<1>10. QED
  BY <1>8, <1>9 DEF d

\* The group behind the last: the last run's length is corrected by one.
LEMMA LastGroupStep ==
  ASSUME IInv, LastGroup
  PROVE  IInv'
<1>1. /\ GroupTypeOK /\ phase = "groups" /\ cur = K /\ cur \in 4 .. K /\ dp1 = cur - 4 /\ NothingSent
      /\ FinalUpTo(cur) /\ Good(final, pnum, lp, cur - 3)
  BY DEF IInv, GroupsInv, LastGroup
<1>2. /\ MAX_PKT_BURST \in Nat /\ nbRx \in Nat \ {0} /\ nbRx <= MAX_PKT_BURST /\ cur \in Nat /\ cur <= nbRx
  BY <1>1, Numbers
<1> DEFINE at == cur - 4
           q == PortGroupX4(at, LastLanes).pnum
           l == PortGroupX4(at, LastLanes).lp
           d == WithLastRepeated(final, cur)
           w == cur + 1
<1>3. /\ nbRx' = nbRx /\ final' = final /\ dstPort' = dstPort /\ gone' = gone /\ phase' = "tail"
      /\ dp1' = dp1 /\ cur' = cur /\ dlp' = dstPort[cur - 1]
  BY DEF LastGroup
<1>4. pnum' = [q EXCEPT ![l] = q[l] - 1] /\ lp' = l
  BY <1>1 DEF LastGroup, GroupAt, FWDSTEP, LastLanes, Repeated
<1>5. /\ at \in Nat /\ at + 1 = cur - 3 /\ at + 4 = cur /\ at + 5 = w /\ w \in Nat /\ dp1 = at
      /\ w = cur + 1 /\ at + 4 <= MAX_PKT_BURST
  BY <1>1, <1>2
<1>6. LastLanes \in [1 .. 4 -> BOOLEAN] /\ Compares(d, at, LastLanes)
  <2>1. \A x \in 0 .. cur - 1 : dstPort[x] = final[x]
    BY <1>1 DEF FinalUpTo
  <2> HIDE DEF at
  <2>2. QED
    BY <2>1, <1>2, <1>5, LastCompared
<1>7. Good(d, pnum, lp, at + 1)
  <2> DEFINE n == cur - 3
  <2>1. n \in Nat /\ \A y \in 0 .. n - 1 : final[y] = d[y]
    <3>1. n \in Nat /\ \A y \in 0 .. n - 1 : y \in 0 .. cur /\ y # cur
      BY <1>1, <1>2
    <3>2. QED
      BY <3>1 DEF WithLastRepeated
  <2>2. Good(final, pnum, lp, n)
    BY <1>1
  <2> HIDE DEF n, d, at
  <2>3. Good(d, pnum, lp, n)
    BY <2>1, <2>2, GoodAgrees
  <2>4. QED
    BY <2>3, <1>5 DEF n
<1> HIDE DEF at, w, d
<1>8. /\ q \in [0 .. MAX_PKT_BURST + 4 -> Int]
      /\ \A x \in at + 5 .. MAX_PKT_BURST + 4 : q[x] = pnum[x]
      /\ Good(d, q, l, at + 5)
  <2>1. pnum \in [0 .. MAX_PKT_BURST + 4 -> Int]
    BY <1>1 DEF GroupTypeOK, FWDSTEP
  <2>2. QED
    BY <2>1, <1>2, <1>5, <1>6, <1>7, GroupStep
<1> HIDE DEF q, l
<1>9. Good(d, q, l, w)
  BY <1>5, <1>8
<1>10. l \in 0 .. w - 1 /\ l \in 0 .. cur
  BY <1>2, <1>5, <1>9, GoodPlace
<1>11. /\ pnum' \in [0 .. MAX_PKT_BURST + 4 -> Int]
       /\ pnum'[l] = q[l] - 1
       /\ \A x \in 0 .. MAX_PKT_BURST + 4 : x # l => pnum'[x] = q[x]
  <2>1. l \in 0 .. MAX_PKT_BURST + 4
    BY <1>2, <1>10
  <2>2. q[l] - 1 \in Int
    BY <2>1, <1>8
  <2>3. QED
    BY <2>1, <2>2, <1>4, <1>8
<1>12. Good(final, pnum', l, cur)
  <2>1. cur \in Nat \ {0} /\ \A x \in 0 .. cur - 1 : x \in 0 .. MAX_PKT_BURST + 4
    BY <1>1, <1>2
  <2>2. Good(WithLastRepeated(final, cur), q, l, w)
    BY <1>9 DEF d
  <2>3. \A x \in 0 .. cur - 1 : x # l => pnum'[x] = q[x]
    BY <2>1, <1>11
  <2>4. QED
    BY <2>1, <2>2, <2>3, <1>5, <1>11, LastCountedTwice
<1>13. GroupTypeOK'
  <2>1. \A x \in MAX_PKT_BURST + 1 .. MAX_PKT_BURST + 4 : pnum'[x] = Garbage
    <3>1. \A x \in MAX_PKT_BURST + 1 .. MAX_PKT_BURST + 4 :
             x \in at + 5 .. MAX_PKT_BURST + 4 /\ x # l /\ x \in 0 .. MAX_PKT_BURST + 4
      BY <1>2, <1>5, <1>10
    <3>2. \A x \in MAX_PKT_BURST + 1 .. MAX_PKT_BURST + 4 : pnum[x] = Garbage
      BY <1>1 DEF GroupTypeOK, FWDSTEP
    <3>3. QED
      BY <3>1, <3>2, <1>8, <1>11
  <2>2. lp' \in 0 .. MAX_PKT_BURST
    BY <1>2, <1>4, <1>10
  <2>3. dlp' \in PortId \cup {BAD_PORT, NeverUsed}
    <3>1. cur - 1 \in 0 .. nbRx - 1
      BY <1>1, <1>2
    <3>2. QED
      BY <3>1, <1>1, <1>3 DEF GroupTypeOK
  <2>4. QED
    BY <2>1, <2>2, <2>3, <1>1, <1>3, <1>11 DEF GroupTypeOK, FWDSTEP
<1>14. TailInv'
  <2>1. FinalUpTo(cur)' /\ NothingSent'
    BY <1>1, <1>3 DEF FinalUpTo, NothingSent
  <2>2. cur' <= nbRx' /\ cur' # 0
    BY <1>1, <1>2, <1>3
  <2>3. dlp' = final'[cur' - 1]
    <3>1. cur - 1 \in 0 .. cur - 1
      BY <1>1, <1>2
    <3>2. dstPort[cur - 1] = final[cur - 1]
      BY <3>1, <1>1 DEF FinalUpTo
    <3>3. QED
      BY <3>2, <1>3
  <2>4. Good(final, pnum, lp, cur)'
    BY <1>3, <1>4, <1>12
  <2>5. QED
    BY <2>1, <2>2, <2>3, <2>4 DEF TailInv
<1>15. QED
  BY <1>3, <1>13, <1>14 DEF IInv, FirstInv, GroupsInv, SendInv, DoneInv

-----------------------------------------------------------------------------
(* GROUP_PORT_STEP and the send loop.                                      *)

\* One more packet with the port of the one before.
LEMMA OneMoreSame ==
  ASSUME NEW d, NEW n \in Nat \ {0}, NEW w \in Nat, w = n + 1, d[n] = d[n - 1],
         NEW pn, NEW pn2, NEW l, Good(d, pn, l, n),
         pn2[l] = pn[l] + 1, \A x \in 0 .. n - 1 : x # l => pn2[x] = pn[x]
  PROVE  Good(d, pn2, l, w)
<1>1. /\ pn[l] = n - l
      /\ \A x \in 0 .. n - 1 : Start(d, x) => x <= l
      /\ \A x \in 0 .. n - 1 : Start(d, x) /\ x < l => pn[x] \in 1 .. l - x
  BY GoodFacts
<1>2. l \in 0 .. n - 1 /\ Start(d, l) /\ \A y \in l .. n - 1 : d[y] = d[l]
  BY DEF Good
<1>3. \A y \in l .. w - 1 : d[y] = d[l]
  <2>1. \A y \in l .. w - 1 : y \in l .. n - 1 \/ y = n
    BY <1>2
  <2>2. n - 1 \in l .. n - 1
    BY <1>2
  <2>3. QED
    BY <2>1, <2>2, <1>2
<1>4. ASSUME NEW x \in 0 .. w - 1, Start(d, x) PROVE IsRun(d, x, pn2[x], w)
  <2>1. x \in 0 .. n - 1
    <3>1. x # n
      BY <1>4 DEF Start
    <3>2. QED
      BY <3>1
  <2>2. x <= l
    BY <2>1, <1>1, <1>4
  <2>3. CASE x = l
    <3> DEFINE m == w - l
    <3>1. pn2[l] = m
      BY <1>1, <1>2
    <3>2. m \in 1 .. w - l /\ ~(l + m < w) /\ l + m - 1 = w - 1
      BY <1>2
    <3> HIDE DEF m
    <3>3. IsRun(d, l, m, w)
      BY <3>2, <1>3 DEF IsRun
    <3>4. QED
      BY <2>3, <3>1, <3>3
  <2>4. CASE x < l
    <3>1. IsRun(d, x, pn[x], n)
      BY <2>1, <1>4 DEF Good
    <3>2. pn[x] \in 1 .. l - x /\ x + pn[x] < n
      BY <2>1, <2>4, <1>1, <1>2, <1>4
    <3>3. IsRun(d, x, pn[x], w)
      BY <2>1, <3>1, <3>2, RunKept
    <3>4. QED
      BY <2>1, <2>4, <3>3, <1>2
  <2>5. QED
    BY <2>1, <2>2, <2>3, <2>4, <1>2
<1>5. l \in 0 .. w - 1
  BY <1>2
<1>6. QED
  BY <1>2, <1>3, <1>4, <1>5 DEF Good

\* One more packet with another port, or the first of all.
LEMMA OneMoreOther ==
  ASSUME NEW d, NEW n \in Nat, NEW w \in Nat, w = n + 1, Start(d, n),
         NEW pn, NEW pn2, NEW l, n # 0 => Good(d, pn, l, n),
         pn2[n] = 1, \A x \in 0 .. n - 1 : pn2[x] = pn[x]
  PROVE  Good(d, pn2, n, w)
<1>1. \A y \in n .. w - 1 : y = n
  OBVIOUS
<1>2. ASSUME NEW x \in 0 .. w - 1, Start(d, x) PROVE IsRun(d, x, pn2[x], w)
  <2>1. CASE x = n
    <3>1. n \in 0 .. w - 1 /\ ~(n + 1 < w)
      OBVIOUS
    <3>2. IsRun(d, n, 1, w)
      BY <3>1, RunOfOne
    <3>3. QED
      BY <2>1, <3>2
  <2>2. CASE x # n
    <3>1. x \in 0 .. n - 1 /\ n \in Nat \ {0} /\ Good(d, pn, l, n)
      BY <2>2
    <3>2. /\ pn[l] = n - l /\ x <= l
          /\ x < l => pn[x] \in 1 .. l - x
      BY <3>1, <1>2, GoodFacts
    <3>3. l \in 0 .. n - 1 /\ \A y \in l .. n - 1 : d[y] = d[l]
      BY <3>1 DEF Good
    <3>4. IsRun(d, x, pn[x], n)
      BY <3>1, <1>2 DEF Good
    <3>5. CASE x < l
      <4>1. x + pn[x] < n
        BY <3>1, <3>2, <3>3, <3>5
      <4>2. IsRun(d, x, pn[x], w)
        BY <3>1, <3>4, <4>1, RunKept
      <4>3. QED
        BY <3>1, <4>2
    <3>6. CASE x = l
      <4> DEFINE m == n - l
      <4>1. /\ m \in 1 .. w - l /\ l + m = n /\ l + m - 1 = n - 1
            /\ n - 1 \in l .. n - 1 /\ n # 0
        BY <3>1, <3>3
      <4>2. d[n] # d[l]
        BY <4>1, <3>3 DEF Start
      <4>3. pn2[x] = m
        BY <3>1, <3>2, <3>6
      <4> HIDE DEF m
      <4>4. IsRun(d, l, m, w)
        BY <4>1, <4>2, <3>3 DEF IsRun
      <4>5. QED
        BY <3>6, <4>3, <4>4
    <3>7. QED
      BY <3>1, <3>2, <3>3, <3>5, <3>6
  <2>3. QED
    BY <2>1, <2>2
<1>3. n \in 0 .. w - 1 /\ \A y \in n .. w - 1 : d[y] = d[n]
  BY <1>1
<1>4. QED
  BY <1>2, <1>3 DEF Good

\* One of the last three packets.
LEMMA TailStepStep ==
  ASSUME IInv, TailStep
  PROVE  IInv'
<1>1. /\ GroupTypeOK /\ phase = "tail" /\ cur < nbRx /\ FinalUpTo(cur) /\ NothingSent
      /\ cur = 0 => dlp = NeverUsed
      /\ cur > 0 => dlp = final[cur - 1] /\ Good(final, pnum, lp, cur)
  BY DEF IInv, TailInv, TailStep
<1>2. /\ MAX_PKT_BURST \in Nat /\ nbRx \in Nat \ {0} /\ nbRx <= MAX_PKT_BURST /\ cur \in Nat /\ lp \in Nat
  BY <1>1, Numbers
<1>3. /\ nbRx' = nbRx /\ final' = final /\ gone' = gone /\ phase' = "tail"
      /\ dp1' = dp1 /\ cur' = cur + 1 /\ dstPort' = Processed(cur, 1)
  BY <1>1 DEF TailStep
<1>4. /\ \A x \in 0 .. cur + 1 - 1 : dstPort'[x] = final[x]
      /\ dstPort' \in [0 .. nbRx - 1 -> PortId \cup {BAD_PORT}]
  <2>1. 1 \in Nat /\ cur + 1 <= nbRx
    BY <1>1, <1>2
  <2>2. QED
    BY <2>1, <1>1, <1>2, <1>3, NowFinal
<1>5. /\ final \in [0 .. nbRx - 1 -> PortId \cup {BAD_PORT}] /\ cur \in 0 .. nbRx - 1
      /\ pnum \in [0 .. MAX_PKT_BURST + 4 -> Int] /\ lp \in 0 .. MAX_PKT_BURST
      /\ dlp \in PortId \cup {BAD_PORT, NeverUsed}
      /\ \A x \in MAX_PKT_BURST + 1 .. MAX_PKT_BURST + 4 : pnum[x] = Garbage
  BY <1>1, <1>2 DEF GroupTypeOK, FWDSTEP
<1>6. final[cur] \in PortId \cup {BAD_PORT} /\ final[cur] # NeverUsed
  BY <1>5, PktGroupAssumption
<1>7. /\ \A x \in 0 .. cur - 1 : x \in 0 .. MAX_PKT_BURST + 4 /\ x # cur
      /\ \A x \in MAX_PKT_BURST + 1 .. MAX_PKT_BURST + 4 : x \in 0 .. MAX_PKT_BURST + 4 /\ x # cur /\ x # lp
      /\ lp \in 0 .. MAX_PKT_BURST + 4 /\ cur \in 0 .. MAX_PKT_BURST + 4 /\ cur \in 0 .. MAX_PKT_BURST
  BY <1>1, <1>2, <1>5
<1>8. /\ dlp' = final[cur] /\ lp' \in 0 .. MAX_PKT_BURST
      /\ pnum' \in [0 .. MAX_PKT_BURST + 4 -> Int]
      /\ \A x \in MAX_PKT_BURST + 1 .. MAX_PKT_BURST + 4 : pnum'[x] = Garbage
      /\ Good(final, pnum', lp', cur + 1)
  <2> DEFINE w == cur + 1
  <2>1. w \in Nat /\ w = cur + 1
    BY <1>2
  <2> HIDE DEF w
  <2>2. CASE dlp = final[cur]
    <3>1. pnum' = [pnum EXCEPT ![lp] = pnum[lp] + 1] /\ dlp' = dlp /\ lp' = lp
      BY <2>2 DEF TailStep
    <3>2. /\ pnum' \in [0 .. MAX_PKT_BURST + 4 -> Int]
          /\ pnum'[lp] = pnum[lp] + 1
          /\ \A x \in 0 .. MAX_PKT_BURST + 4 : x # lp => pnum'[x] = pnum[x]
      <4>1. pnum[lp] + 1 \in Int
        BY <1>5, <1>7
      <4>2. QED
        BY <4>1, <3>1, <1>5, <1>7
    <3>3. cur \in Nat \ {0} /\ Good(final, pnum, lp, cur) /\ final[cur] = final[cur - 1]
      BY <2>2, <1>1, <1>2, <1>6
    <3>4. \A x \in 0 .. cur - 1 : x # lp => pnum'[x] = pnum[x]
      BY <3>2, <1>7
    <3>5. Good(final, pnum', lp, w)
      BY <2>1, <3>2, <3>3, <3>4, OneMoreSame
    <3>6. \A x \in MAX_PKT_BURST + 1 .. MAX_PKT_BURST + 4 : pnum'[x] = Garbage
      BY <3>2, <1>5, <1>7
    <3>7. QED
      BY <2>2, <3>1, <3>2, <3>5, <3>6, <1>5 DEF w
  <2>3. CASE dlp # final[cur]
    <3>1. pnum' = [pnum EXCEPT ![cur] = 1] /\ dlp' = final[cur] /\ lp' = cur
      BY <2>3 DEF TailStep, LpAfterStep
    <3>2. /\ pnum' \in [0 .. MAX_PKT_BURST + 4 -> Int]
          /\ pnum'[cur] = 1
          /\ \A x \in 0 .. MAX_PKT_BURST + 4 : x # cur => pnum'[x] = pnum[x]
      BY <3>1, <1>5, <1>7
    <3>3. Start(final, cur) /\ (cur # 0 => Good(final, pnum, lp, cur))
      BY <2>3, <1>1, <1>2 DEF Start
    <3>4. \A x \in 0 .. cur - 1 : pnum'[x] = pnum[x]
      BY <3>2, <1>7
    <3>5. Good(final, pnum', cur, w)
      BY <2>1, <3>2, <3>3, <3>4, <1>2, OneMoreOther
    <3>6. \A x \in MAX_PKT_BURST + 1 .. MAX_PKT_BURST + 4 : pnum'[x] = Garbage
      BY <3>2, <1>5, <1>7
    <3>7. QED
      BY <3>1, <3>2, <3>5, <3>6, <1>7 DEF w
  <2>4. QED
    BY <2>2, <2>3
<1>9. GroupTypeOK'
  <2>1. cur' \in 0 .. MAX_PKT_BURST
    BY <1>1, <1>2, <1>3
  <2>2. dlp' \in PortId \cup {BAD_PORT, NeverUsed}
    BY <1>6, <1>8
  <2>3. QED
    BY <2>1, <2>2, <1>1, <1>3, <1>4, <1>8 DEF GroupTypeOK, FWDSTEP
<1>10. TailInv'
  <2>1. cur' <= nbRx' /\ cur' # 0 /\ cur' - 1 = cur
    BY <1>1, <1>2, <1>3
  <2>2. FinalUpTo(cur)'
    <3>1. \A x \in 0 .. cur + 1 - 1 : dstPort'[x] = final'[x]
      BY <1>3, <1>4
    <3>2. cur' - 1 = cur + 1 - 1
      BY <1>2, <1>3
    <3>3. QED
      BY <3>1, <3>2 DEF FinalUpTo
  <2>3. NothingSent'
    BY <1>1, <1>3 DEF NothingSent
  <2>4. dlp' = final'[cur' - 1]
    BY <2>1, <1>3, <1>8
  <2>5. Good(final, pnum, lp, cur)'
    BY <1>3, <1>8
  <2>6. QED
    BY <2>1, <2>2, <2>3, <2>4, <2>5 DEF TailInv
<1>11. QED
  BY <1>3, <1>9, <1>10 DEF IInv, FirstInv, GroupsInv, SendInv, DoneInv

\* All packets are grouped.
LEMMA TailEndStep ==
  ASSUME IInv, GroupTailEnd
  PROVE  IInv'
<1>1. /\ GroupTypeOK /\ phase = "tail" /\ cur = nbRx /\ FinalUpTo(cur) /\ NothingSent
      /\ cur > 0 => dlp = final[cur - 1] /\ Good(final, pnum, lp, cur)
  BY DEF IInv, TailInv, GroupTailEnd
<1>2. /\ MAX_PKT_BURST \in Nat /\ nbRx \in Nat \ {0}
  BY <1>1, Numbers
<1>3. /\ nbRx' = nbRx /\ final' = final /\ dstPort' = dstPort /\ pnum' = pnum /\ lp' = lp
      /\ dlp' = dlp /\ gone' = gone /\ phase' = "send" /\ dp1' = dp1 /\ cur' = 0
  BY DEF GroupTailEnd
<1>4. dstPort = final
  <2>1. \A x \in 0 .. nbRx - 1 : dstPort[x] = final[x]
    BY <1>1 DEF FinalUpTo
  <2>2. /\ dstPort = [x \in 0 .. nbRx - 1 |-> dstPort[x]]
        /\ final = [x \in 0 .. nbRx - 1 |-> final[x]]
    BY <1>1, Zenon DEF GroupTypeOK
  <2>3. [x \in 0 .. nbRx - 1 |-> dstPort[x]] = [x \in 0 .. nbRx - 1 |-> final[x]]
    BY <2>1
  <2>4. QED
    BY <2>2, <2>3
<1>5. Good(final, pnum, lp, nbRx)
  BY <1>1, <1>2
<1>6. GroupTypeOK'
  <2>1. cur' \in 0 .. MAX_PKT_BURST
    BY <1>2, <1>3
  <2>2. QED
    BY <2>1, <1>1, <1>3 DEF GroupTypeOK
<1>7. SendInv'
  <2>1. \A x \in 0 .. nbRx - 1 : Start(final, x) => IsRun(final, x, pnum[x], nbRx)
    BY <1>5 DEF Good
  <2>2. \A x \in 0 .. nbRx - 1 : ~(x < 0)
    BY <1>2
  <2>3. \A x \in 0 .. nbRx' - 1 : gone'[x] = IF x < cur' THEN final'[x] ELSE NeverUsed
    BY <2>2, <1>1, <1>3 DEF NothingSent
  <2>4. Start(final, 0) /\ 0 <= nbRx
    BY <1>2 DEF Start
  <2>5. QED
    BY <2>1, <2>3, <2>4, <1>3, <1>4 DEF SendInv
<1>8. QED
  BY <1>3, <1>6, <1>7 DEF IInv, FirstInv, GroupsInv, TailInv, DoneInv

\* The run that begins at cur goes to the port of its first packet, and another begins behind it.
LEMMA SendRunStep ==
  ASSUME IInv, SendRun
  PROVE  IInv'
<1>1. /\ GroupTypeOK /\ phase = "send" /\ cur < nbRx /\ dstPort = final /\ Start(final, cur)
      /\ \A x \in 0 .. nbRx - 1 : Start(final, x) => IsRun(final, x, pnum[x], nbRx)
      /\ \A x \in 0 .. nbRx - 1 : gone[x] = IF x < cur THEN final[x] ELSE NeverUsed
  BY DEF IInv, SendInv, SendRun
<1>2. MAX_PKT_BURST \in Nat /\ nbRx \in Nat \ {0} /\ nbRx <= MAX_PKT_BURST /\ cur \in Nat
  BY <1>1, Numbers
<1>3. /\ nbRx' = nbRx /\ final' = final /\ dstPort' = dstPort /\ pnum' = pnum /\ lp' = lp
      /\ dlp' = dlp /\ dp1' = dp1
  BY DEF SendRun
<1> DEFINE k == pnum[cur]
<1>4. cur \in 0 .. nbRx - 1
  BY <1>1, <1>2
<1>5. IsRun(final, cur, k, nbRx)
  BY <1>1, <1>4
<1>6. k \in 1 .. nbRx - cur
  BY <1>5 DEF IsRun
<1>7. phase' = "send" /\ cur' = cur + k
  <2>1. ~(k < 1) /\ ~(cur + k > nbRx)
    BY <1>2, <1>6
  <2>2. QED
    BY <2>1 DEF SendRun
<1>8. gone \in [0 .. nbRx - 1 -> PortId \cup {BAD_PORT, NeverUsed}]
      /\ final \in [0 .. nbRx - 1 -> PortId \cup {BAD_PORT}]
  BY <1>1 DEF GroupTypeOK
<1>9. gone' = [x \in 0 .. nbRx - 1 |-> IF x \in cur .. cur + k - 1 THEN final[cur] ELSE gone[x]]
  BY <1>1, <1>8 DEF SendRun
<1>10. gone' \in [0 .. nbRx - 1 -> PortId \cup {BAD_PORT, NeverUsed}]
  BY <1>4, <1>8, <1>9
<1> HIDE DEF k
<1>11. ASSUME NEW x \in 0 .. nbRx - 1
       PROVE  gone'[x] = IF x < cur + k THEN final[x] ELSE NeverUsed
  <2>1. CASE x < cur
    <3>1. x \notin cur .. cur + k - 1 /\ x < cur + k
      BY <2>1, <1>2, <1>6
    <3>2. QED
      BY <3>1, <2>1, <1>1, <1>9
  <2>2. CASE x \in cur .. cur + k - 1
    <3>1. x < cur + k
      BY <2>2, <1>2, <1>6
    <3>2. final[x] = final[cur]
      BY <2>2, <1>5 DEF IsRun
    <3>3. QED
      BY <3>1, <3>2, <2>2, <1>9
  <2>3. CASE ~(x < cur) /\ x \notin cur .. cur + k - 1
    <3>1. ~(x < cur + k)
      BY <2>3, <1>2, <1>6
    <3>2. QED
      BY <3>1, <2>3, <1>1, <1>9
  <2>4. QED
    BY <2>1, <2>2, <2>3
<1>12. ASSUME cur + k < nbRx PROVE Start(final, cur + k)
  <2> DEFINE z == cur + k
  <2>1. z - 1 \in cur .. cur + k - 1
    BY <1>2, <1>6
  <2>2. final[z] # final[cur]
    BY <1>5, <1>12 DEF IsRun
  <2>3. final[z - 1] = final[cur]
    BY <2>1, <1>5 DEF IsRun
  <2> HIDE DEF z
  <2>4. Start(final, z)
    BY <2>2, <2>3 DEF Start
  <2>5. QED
    BY <2>4 DEF z
<1>13. GroupTypeOK'
  <2>1. cur' \in 0 .. MAX_PKT_BURST
    BY <1>2, <1>6, <1>7
  <2>2. QED
    BY <2>1, <1>1, <1>3, <1>7, <1>10 DEF GroupTypeOK
<1>14. SendInv'
  <2>1. cur' <= nbRx'
    BY <1>2, <1>3, <1>6, <1>7
  <2>2. \A x \in 0 .. nbRx' - 1 : gone'[x] = IF x < cur' THEN final'[x] ELSE NeverUsed
    BY <1>3, <1>7, <1>11
  <2>3. cur' < nbRx' => Start(final', cur')
    BY <1>3, <1>7, <1>12
  <2>4. QED
    BY <2>1, <2>2, <2>3, <1>1, <1>3 DEF SendInv
<1>15. QED
  BY <1>7, <1>13, <1>14 DEF IInv, FirstInv, GroupsInv, TailInv, DoneInv

\* The whole burst is gone.
LEMMA SendEndStep ==
  ASSUME IInv, SendEnd
  PROVE  IInv'
<1>1. /\ GroupTypeOK /\ phase = "send" /\ cur = nbRx
      /\ \A x \in 0 .. nbRx - 1 : gone[x] = IF x < cur THEN final[x] ELSE NeverUsed
  BY DEF IInv, SendInv, SendEnd
<1>2. nbRx \in Nat \ {0}
  BY <1>1, Numbers
<1>3. /\ nbRx' = nbRx /\ final' = final /\ dstPort' = dstPort /\ pnum' = pnum /\ lp' = lp
      /\ dlp' = dlp /\ gone' = gone /\ phase' = "done" /\ dp1' = dp1 /\ cur' = cur
  BY DEF SendEnd
<1>4. GroupTypeOK'
  BY <1>1, <1>3 DEF GroupTypeOK
<1>5. gone = final
  <2>1. \A x \in 0 .. nbRx - 1 : x < nbRx
    BY <1>2
  <2>2. \A x \in 0 .. nbRx - 1 : gone[x] = final[x]
    BY <2>1, <1>1
  <2>3. gone = [x \in 0 .. nbRx - 1 |-> gone[x]] /\ final = [x \in 0 .. nbRx - 1 |-> final[x]]
    BY <1>1, Zenon DEF GroupTypeOK
  <2>4. [x \in 0 .. nbRx - 1 |-> gone[x]] = [x \in 0 .. nbRx - 1 |-> final[x]]
    BY <2>2
  <2>5. QED
    BY <2>3, <2>4
<1>6. QED
  BY <1>3, <1>4, <1>5 DEF IInv, FirstInv, GroupsInv, TailInv, SendInv, DoneInv

-----------------------------------------------------------------------------
(* The theorems.                                                           *)

\* Every step of send_packets_multi keeps what the packets so far have made of pnum[]: where
\* a run of equal final ports begins its length so far, and lp at the last of them.
THEOREM Inductive == GroupSpec => []IInv
<1>1. GroupInit => IInv
  BY InitHolds
<1>2. IInv /\ [GroupNext]_groupVars => IInv'
  <2> SUFFICES ASSUME IInv, [GroupNext]_groupVars PROVE IInv'
    OBVIOUS
  <2>1. CASE FirstGroup
    BY <2>1, FirstGroupStep
  <2>2. CASE NextGroup
    BY <2>2, NextGroupStep
  <2>3. CASE LastGroup
    BY <2>3, LastGroupStep
  <2>4. CASE TailStep
    BY <2>4, TailStepStep
  <2>5. CASE GroupTailEnd
    BY <2>5, TailEndStep
  <2>6. CASE SendRun
    BY <2>6, SendRunStep
  <2>7. CASE SendEnd
    BY <2>7, SendEndStep
  <2>8. CASE GroupTerminated \/ UNCHANGED groupVars
    <3>1. UNCHANGED groupVars
      BY <2>8 DEF GroupTerminated
    <3>2. /\ GroupTypeOK' /\ K' = K
      BY <3>1 DEF IInv, GroupTypeOK, K, groupVars
    <3>3. FirstInv' /\ GroupsInv'
      BY <3>1, <3>2 DEF IInv, FirstInv, GroupsInv, FinalUpTo, NothingSent, groupVars
    <3>4. TailInv' /\ SendInv' /\ DoneInv'
      BY <3>1 DEF IInv, TailInv, SendInv, DoneInv, FinalUpTo, NothingSent, groupVars
    <3>5. QED
      BY <3>2, <3>3, <3>4 DEF IInv
  <2>9. QED
    BY <2>1, <2>2, <2>3, <2>4, <2>5, <2>6, <2>7, <2>8 DEF GroupNext
<1>3. QED
  BY <1>1, <1>2, PTL DEF GroupSpec

\* The types, that pnum[] is not written past its end, and that the loop is never astray.
THEOREM TypesHold == GroupSpec => []GroupTypeOK
<1>1. IInv => GroupTypeOK
  BY DEF IInv
<1>2. QED
  BY <1>1, Inductive, PTL

\* GROUP_PORT_STEP and port_groupx4 leave in pnum[], where a run of equal ports begins, its
\* length.
THEOREM RunsAreCounted == GroupSpec => []PnumIsRunLength
<1>1. IInv => PnumIsRunLength
  <2> SUFFICES ASSUME IInv, phase = "send", NEW x \in 0 .. nbRx - 1, RunStart(x)
               PROVE  pnum[x] = RunLength(x)
    BY DEF PnumIsRunLength
  <2>1. nbRx \in Nat /\ IsRun(final, x, pnum[x], nbRx)
    <3>1. GroupTypeOK /\ Start(final, x)
      BY DEF IInv, RunStart, Start
    <3>2. QED
      BY <3>1, Numbers DEF IInv, SendInv
  <2>2. IsRun(final, x, RunLength(x), nbRx)
    BY <2>1 DEF IsRun, RunLength
  <2>3. QED
    BY <2>1, <2>2, RunUnique
<1>2. QED
  BY <1>1, Inductive, PTL

\* The send loop of send_packets_multi sends each packet to its own port, or frees it.
THEOREM EachToItsPort == GroupSpec => []SentToOwnPort
<1>1. IInv => SentToOwnPort
  BY DEF IInv, GroupTypeOK, DoneInv, SentToOwnPort
<1>2. QED
  BY <1>1, Inductive, PTL

\* process_dst_port, which looks at whole eights, then fours, then ones, gives a port only
\* to a vector all of whose packets go there.
THEOREM VectorHasOnePort == GroupSpec => []VectorPort
<1>1. IInv => VectorPort
  <2> SUFFICES ASSUME GroupTypeOK
               PROVE  ProcessDstPort(final, nbRx) =
                        IF Cardinality({final[x] : x \in DOMAIN final}) = 1
                        THEN final[0] ELSE BAD_PORT
    BY DEF IInv, VectorPort
  <2> DEFINE n == nbRx
             e == n - (n % 8)
             f == n - (n % 4)
             S == {final[x] : x \in DOMAIN final}
  <2>1. n \in Nat \ {0}
    BY Numbers
  <2>2. final \in [0 .. n - 1 -> PortId \cup {BAD_PORT}] /\ 0 \in 0 .. n - 1
    BY <2>1 DEF GroupTypeOK
  <2>3. e \in 0 .. n /\ f \in 0 .. n
    BY <2>1
  <2>4. ProcessDstPort(final, n) =
          IF AllSame(final, 0, e) /\ AllSame(final, e, f - e) /\ AllSame(final, f, n - f)
          THEN final[0] ELSE BAD_PORT
    BY DEF ProcessDstPort
  <2> HIDE DEF e, f, n
  <2>5. AllSame(final, 0, e) /\ AllSame(final, e, f - e) /\ AllSame(final, f, n - f)
          <=> \A x \in 0 .. n - 1 : final[x] = final[0]
    <3>1. ASSUME AllSame(final, 0, e), AllSame(final, e, f - e), AllSame(final, f, n - f),
                 NEW x \in 0 .. n - 1
          PROVE  final[x] = final[0]
      <4>1. x \in 0 .. 0 + e - 1 \/ x \in e .. e + (f - e) - 1 \/ x \in f .. f + (n - f) - 1
        BY <2>1, <2>3
      <4>2. QED
        BY <3>1, <4>1 DEF AllSame
    <3>2. ASSUME \A x \in 0 .. n - 1 : final[x] = final[0]
          PROVE  AllSame(final, 0, e) /\ AllSame(final, e, f - e) /\ AllSame(final, f, n - f)
      <4>1. /\ \A x \in 0 .. 0 + e - 1 : x \in 0 .. n - 1
            /\ \A x \in e .. e + (f - e) - 1 : x \in 0 .. n - 1
            /\ \A x \in f .. f + (n - f) - 1 : x \in 0 .. n - 1
        BY <2>1, <2>3
      <4>2. QED
        BY <3>2, <4>1 DEF AllSame
    <3>3. QED
      BY <3>1, <3>2
  <2>6. IsFiniteSet(S)
    <3>1. IsFiniteSet(0 .. n - 1)
      BY <2>1, FS_Interval
    <3>2. final \in Surjection(0 .. n - 1, S)
      BY <2>2 DEF Surjection
    <3>3. QED
      BY <3>1, <3>2, FS_Surjection
  <2>7. Cardinality(S) = 1 <=> \A x \in 0 .. n - 1 : final[x] = final[0]
    <3>1. Cardinality(S) = 1 <=> \E v : S = {v}
      BY <2>6, FS_Singleton
    <3>2. ASSUME NEW v, S = {v}, NEW x \in 0 .. n - 1 PROVE final[x] = final[0]
      <4>1. final[x] \in S /\ final[0] \in S
        BY <2>2
      <4>2. QED
        BY <3>2, <4>1
    <3>3. ASSUME \A x \in 0 .. n - 1 : final[x] = final[0] PROVE S = {final[0]}
      BY <3>3, <2>2
    <3>4. QED
      BY <3>1, <3>2, <3>3
  <2>8. QED
    BY <2>4, <2>5, <2>7 DEF n
<1>2. QED
  BY <1>1, Inductive, PTL

=============================================================================
