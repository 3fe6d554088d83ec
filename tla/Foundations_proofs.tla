------------------------- MODULE Foundations_proofs -------------------------
(***************************************************************************)
(* What the proofs about algorithms and kernels rest on, and the           *)
(* algorithms that need no more than that.                                 *)
(*                                                                         *)
(* Tiles.  The tiles of moe_grouped_qgemm partition the rows of the        *)
(* experts, for every number of experts, tile height and rows_per_expert   *)
(* that fits the caller's buffers.  Prefix is a recursive function, that   *)
(* is a CHOOSE: it is shown to meet its equation first.  Induction over    *)
(* the natural numbers is the least element of a set of them (AllNat).     *)
(*                                                                         *)
(* Kernels.  KernelRight(k) is what the runs check of one kernel.  The     *)
(* argument is the same for all of them: name the cells an item owns and   *)
(* the terms it adds, show that the items share the output and the terms   *)
(* (Shares), and that nobody touches what another owns (OwnersRight,       *)
(* PhasesRight, and TiledRight for kernels that stage tiles in local       *)
(* memory).  The ways to share are by rows, lanes, vectors, tiles, slots   *)
(* and tokens.                                                             *)
(*                                                                         *)
(* Platforms and codecs, with recursion over the natural numbers (Table),  *)
(* division and powers of two.                                             *)
(***************************************************************************)
EXTENDS GroupedTiles, KernelAccess, Devices, Codecs, WellFoundedInduction, FiniteSetTheorems, TLAPS

-----------------------------------------------------------------------------
(* Tiles of the rows of the experts                                         *)

NatLess == OpToRel(<, Nat)

LEMMA NatLessMeans == \A x, y : <<x, y>> \in NatLess <=> x \in Nat /\ y \in Nat /\ x < y
  BY DEF NatLess, OpToRel

\* A set of natural numbers has a least element.
LEMMA LeastNat ==
    ASSUME NEW S \in SUBSET Nat, S # {}
    PROVE  \E m \in S : \A k \in S : m <= k
<1>1. IsWellFoundedOn(NatLess, Nat)
  BY NatLessThanWellFounded DEF NatLess
<1>2. PICK x \in S : \A y \in S : <<y, x>> \notin NatLess
  BY <1>1, WFMin
<1>3. ASSUME NEW y \in S
      PROVE  x <= y
  <2>1. x \in Nat /\ y \in Nat /\ <<y, x>> \notin NatLess
    BY <1>2
  <2>2. ~(y < x)
    BY <2>1, NatLessMeans
  <2> QED
    BY <2>1, <2>2
<1> QED
  BY <1>3

\* Induction: a set of natural numbers that holds 0 and every successor of its
\* members holds all of them.
LEMMA AllNat ==
    ASSUME NEW S, 0 \in S, \A n \in Nat : n \in S => n + 1 \in S
    PROVE  Nat \subseteq S
<1> SUFFICES ASSUME Nat \ S # {} PROVE FALSE
  OBVIOUS
<1>1. PICK m \in Nat \ S : \A k \in Nat \ S : m <= k
  BY LeastNat
<1>2. m - 1 \in Nat
  BY <1>1
<1>3. m - 1 \in S
  BY <1>1, <1>2
<1>4. (m - 1) + 1 \in S
  BY <1>2, <1>3
<1> QED
  BY <1>1, <1>4

-----------------------------------------------------------------------------
(* Prefix sums                                                              *)

\* s is a table of prefix sums up to n.
SumsUpTo(s, f, n) ==
    s = [e \in 0..n |-> IF e = 0 THEN 0 ELSE s[e - 1] + f[e - 1]]

LEMMA SumsExist ==
    ASSUME NEW f, NEW n \in Nat
    PROVE  \E s : SumsUpTo(s, f, n)
<1> DEFINE S == {k \in Nat : \E s : SumsUpTo(s, f, k)}
<1>1. 0 \in S
  <2>1. SumsUpTo([e \in 0..0 |-> 0], f, 0)
    BY DEF SumsUpTo
  <2> QED
    BY <2>1
<1>2. ASSUME NEW k \in Nat, k \in S
      PROVE  k + 1 \in S
  <2>1. PICK s : SumsUpTo(s, f, k)
    BY <1>2
  <2> DEFINE t == [e \in 0..(k + 1) |-> IF e = k + 1 THEN s[k] + f[k] ELSE s[e]]
  <2>2. \A e \in 0..k : s[e] = IF e = 0 THEN 0 ELSE s[e - 1] + f[e - 1]
    BY <2>1 DEF SumsUpTo
  <2>3. \A e \in 0..(k + 1) : t[e] = IF e = 0 THEN 0 ELSE t[e - 1] + f[e - 1]
    BY <2>2
  <2>4. SumsUpTo(t, f, k + 1)
    BY <2>3 DEF SumsUpTo
  <2> QED
    BY <2>4
<1> HIDE DEF S
<1>3. Nat \subseteq S
  BY <1>1, <1>2, AllNat
<1> QED
  BY <1>3 DEF S

\* Prefix meets the equation it is written with.
LEMMA PrefixStep ==
    ASSUME NEW f
    PROVE  /\ Prefix(f)[0] = 0
           /\ \A e \in 1..NExperts : Prefix(f)[e] = Prefix(f)[e - 1] + f[e - 1]
<1>1. NExperts \in Nat
  BY TileAssumption
<1>2. SumsUpTo(Prefix(f), f, NExperts)
  BY <1>1, SumsExist DEF SumsUpTo, Prefix
<1> DEFINE p == Prefix(f)
<1> HIDE DEF p
<1>3. p = [e \in 0..NExperts |-> IF e = 0 THEN 0 ELSE p[e - 1] + f[e - 1]]
  BY <1>2 DEF SumsUpTo, p
<1>4. \A e \in 0..NExperts : p[e] = IF e = 0 THEN 0 ELSE p[e - 1] + f[e - 1]
  BY <1>3
<1>5. p[0] = 0 /\ \A e \in 1..NExperts : p[e] = p[e - 1] + f[e - 1]
  BY <1>1, <1>4
<1> QED
  BY <1>5 DEF p

\* Counts: functions on the experts with natural values.
ExpertIds == 0..(NExperts - 1)

LEMMA PrefixNat ==
    ASSUME NEW f, \A e \in ExpertIds : f[e] \in Nat
    PROVE  \A e \in 0..NExperts : Prefix(f)[e] \in Nat
<1> DEFINE S == {e \in Nat : e <= NExperts => Prefix(f)[e] \in Nat}
<1>1. NExperts \in Nat
  BY TileAssumption
<1>2. 0 \in S
  BY PrefixStep
<1>3. ASSUME NEW e \in Nat, e \in S
      PROVE  e + 1 \in S
  <2> SUFFICES ASSUME e + 1 <= NExperts PROVE Prefix(f)[e + 1] \in Nat
    OBVIOUS
  <2>1. e + 1 \in 1..NExperts /\ e \in ExpertIds /\ (e + 1) - 1 = e
    BY <1>1 DEF ExpertIds
  <2>2. Prefix(f)[e] \in Nat
    BY <1>1, <1>3
  <2>3. Prefix(f)[e + 1] = Prefix(f)[e] + f[e]
    BY <2>1, PrefixStep
  <2> QED
    BY <2>1, <2>2, <2>3
<1>4. Nat \subseteq S
  BY <1>2, <1>3, AllNat
<1> QED
  BY <1>1, <1>4

\* One expert further.
LEMMA PrefixNext ==
    ASSUME NEW f, NEW e \in ExpertIds
    PROVE  Prefix(f)[e + 1] = Prefix(f)[e] + f[e]
<1>1. e + 1 \in 1..NExperts /\ (e + 1) - 1 = e
  BY TileAssumption DEF ExpertIds
<1> QED
  BY <1>1, PrefixStep

\* Prefix sums never decrease.
LEMMA PrefixMono ==
    ASSUME NEW f, \A e \in ExpertIds : f[e] \in Nat,
           NEW d \in 0..NExperts, NEW e \in 0..NExperts, d <= e
    PROVE  Prefix(f)[d] <= Prefix(f)[e]
<1> DEFINE S == {k \in Nat : d + k <= NExperts => Prefix(f)[d] <= Prefix(f)[d + k]}
<1>1. NExperts \in Nat /\ d \in Nat
  BY TileAssumption
<1>2. 0 \in S
  <2>1. Prefix(f)[d] \in Nat /\ d + 0 = d
    BY <1>1, PrefixNat
  <2> QED
    BY <2>1
<1>3. ASSUME NEW k \in Nat, k \in S
      PROVE  k + 1 \in S
  <2> SUFFICES ASSUME d + (k + 1) <= NExperts
               PROVE  Prefix(f)[d] <= Prefix(f)[d + (k + 1)]
    OBVIOUS
  <2>1. d + k \in ExpertIds /\ d + (k + 1) = (d + k) + 1 /\ d + k \in 0..NExperts
    BY <1>1 DEF ExpertIds
  <2>2. Prefix(f)[(d + k) + 1] = Prefix(f)[d + k] + f[d + k]
    BY <2>1, PrefixNext
  <2>3. Prefix(f)[d] <= Prefix(f)[d + k]
    BY <1>1, <1>3
  <2>4. Prefix(f)[d] \in Nat /\ Prefix(f)[d + k] \in Nat /\ f[d + k] \in Nat
    BY <2>1, PrefixNat
  <2> QED
    BY <2>1, <2>2, <2>3, <2>4
<1>4. Nat \subseteq S
  BY <1>2, <1>3, AllNat
<1>5. e - d \in Nat /\ d + (e - d) = e
  BY <1>1
<1>6. e - d \in S
  BY <1>4, <1>5
<1> QED
  BY <1>5, <1>6

\* Whatever is counted, a number below the total is in one expert's segment.
LEMMA SegmentExists ==
    ASSUME NEW f, \A e \in ExpertIds : f[e] \in Nat,
           NEW m \in Nat, m < Prefix(f)[NExperts]
    PROVE  \E e \in ExpertIds : Prefix(f)[e] <= m /\ m < Prefix(f)[e + 1]
<1> DEFINE S == {e \in Nat : e <= NExperts /\ m < Prefix(f)[e]}
<1>1. NExperts \in Nat
  BY TileAssumption
<1>2. PICK e \in S : \A k \in S : e <= k
  <2>1. NExperts \in S
    BY <1>1
  <2> HIDE DEF S
  <2> QED
    BY <2>1, LeastNat DEF S
<1>3. e \in Nat /\ e <= NExperts /\ m < Prefix(f)[e]
  BY <1>2
<1>4. e # 0
  BY <1>3, PrefixStep
<1>5. e - 1 \in ExpertIds /\ (e - 1) + 1 = e
  BY <1>1, <1>3, <1>4 DEF ExpertIds
<1>6. ~(e - 1 \in S)
  BY <1>2, <1>3, <1>4
<1>7. Prefix(f)[e - 1] \in Nat
  BY <1>1, <1>3, <1>4, PrefixNat
<1>8. Prefix(f)[e - 1] <= m
  BY <1>1, <1>3, <1>5, <1>6, <1>7 DEF ExpertIds
<1> QED
  BY <1>3, <1>5, <1>8

LEMMA SegmentUnique ==
    ASSUME NEW f, \A e \in ExpertIds : f[e] \in Nat, NEW m \in Nat,
           NEW d \in ExpertIds, Prefix(f)[d] <= m, m < Prefix(f)[d + 1],
           NEW e \in ExpertIds, Prefix(f)[e] <= m, m < Prefix(f)[e + 1]
    PROVE  d = e
<1>1. /\ d \in Nat /\ e \in Nat /\ d \in 0..NExperts /\ e \in 0..NExperts
      /\ d + 1 \in 0..NExperts /\ e + 1 \in 0..NExperts
  BY TileAssumption DEF ExpertIds
<1>2. \A x \in 0..NExperts : Prefix(f)[x] \in Nat
  BY PrefixNat
<1>3. ~(d < e)
  <2> SUFFICES ASSUME d < e PROVE FALSE
    OBVIOUS
  <2>1. d + 1 <= e
    BY <1>1
  <2>2. Prefix(f)[d + 1] <= Prefix(f)[e]
    BY <1>1, <2>1, PrefixMono
  <2> QED
    BY <1>1, <1>2, <2>2
<1>4. ~(e < d)
  <2> SUFFICES ASSUME e < d PROVE FALSE
    OBVIOUS
  <2>1. e + 1 <= d
    BY <1>1
  <2>2. Prefix(f)[e + 1] <= Prefix(f)[d]
    BY <1>1, <2>1, PrefixMono
  <2> QED
    BY <1>1, <1>2, <2>2
<1> QED
  BY <1>1, <1>3, <1>4

-----------------------------------------------------------------------------
(* Tiles                                                                    *)

\* Multiplying by a natural number keeps the order.
LEMMA TimesMono ==
    ASSUME NEW a \in Nat, NEW b \in Nat, NEW c \in Nat, a <= b
    PROVE  a * c <= b * c /\ a * c \in Nat /\ b * c \in Nat
  BY SMT

LEMMA DivByTM ==
    ASSUME NEW a \in Nat
    PROVE  /\ a \div TM \in Nat
           /\ (a \div TM) * TM <= a /\ a < (a \div TM) * TM + TM
  BY TileAssumption, SMT

LEMMA CeilDivTMCovers ==
    ASSUME NEW n \in Nat
    PROVE  /\ CeilDivTM(n) \in Nat
           /\ n <= CeilDivTM(n) * TM /\ CeilDivTM(n) * TM < n + TM
<1>1. TM \in Nat \ {0} /\ n + TM - 1 \in Nat
  BY TileAssumption
<1> DEFINE c == (n + TM - 1) \div TM
<1>2. c \in Nat /\ c * TM <= n + TM - 1 /\ n + TM - 1 < c * TM + TM
  BY <1>1, DivByTM
<1>3. c * TM \in Nat
  BY <1>1, <1>2
<1>4. CeilDivTM(n) = c
  BY DEF CeilDivTM
<1> HIDE DEF c
<1> QED
  BY <1>1, <1>2, <1>3, <1>4

\* b tiles hold n rows as soon as their rows do.
LEMMA CeilDivTMLeast ==
    ASSUME NEW n \in Nat, NEW b \in Nat, n <= b * TM
    PROVE  CeilDivTM(n) <= b
<1> DEFINE c == CeilDivTM(n)
<1>1. TM \in Nat \ {0} /\ c \in Nat /\ c * TM < n + TM
  BY TileAssumption, CeilDivTMCovers
<1> HIDE DEF c
<1> SUFFICES ASSUME b + 1 <= c PROVE FALSE
  BY <1>1 DEF c
<1>2. (b + 1) * TM <= c * TM
  BY <1>1, TimesMono
<1>3. (b + 1) * TM = b * TM + TM /\ b * TM \in Nat /\ c * TM \in Nat
  BY <1>1
<1> QED
  BY <1>1, <1>2, <1>3

LEMMA CeilDivTMMono ==
    ASSUME NEW m \in Nat, NEW n \in Nat, m <= n
    PROVE  CeilDivTM(m) <= CeilDivTM(n)
<1>1. CeilDivTM(n) \in Nat /\ n <= CeilDivTM(n) * TM
  BY CeilDivTMCovers
<1>2. CeilDivTM(n) * TM \in Nat
  BY <1>1, TileAssumption
<1>3. m <= CeilDivTM(n) * TM
  BY <1>1, <1>2
<1> QED
  BY <1>1, <1>3, CeilDivTMLeast

\* Two ragged ends cost one tile more than one.
LEMMA CeilDivTMSum ==
    ASSUME NEW m \in Nat, NEW n \in Nat
    PROVE  CeilDivTM(m) + CeilDivTM(n) <= CeilDivTM(m + n) + 1
<1> DEFINE a == CeilDivTM(m)
           b == CeilDivTM(n)
           c == CeilDivTM(m + n)
<1>1. /\ TM \in Nat \ {0} /\ a \in Nat /\ b \in Nat /\ c \in Nat /\ m + n \in Nat
      /\ a * TM < m + TM /\ b * TM < n + TM /\ m + n <= c * TM
  BY TileAssumption, CeilDivTMCovers
<1> HIDE DEF a, b, c
<1> SUFFICES ASSUME c + 2 <= a + b PROVE FALSE
  BY <1>1 DEF a, b, c
<1>2. (c + 2) * TM <= (a + b) * TM
  BY <1>1, TimesMono
<1>3. /\ (c + 2) * TM = c * TM + TM + TM
      /\ (a + b) * TM = a * TM + b * TM
      /\ a * TM \in Nat /\ b * TM \in Nat /\ c * TM \in Nat
  BY <1>1
<1> QED
  BY <1>1, <1>2, <1>3

-----------------------------------------------------------------------------
(* The walk over the experts                                                *)

\* What rows_per_expert holds: counts whose sum fits the caller's buffers.
RowCounts(rows) ==
    /\ \A e \in ExpertIds : rows[e] \in Nat
    /\ Prefix(rows)[NExperts] <= MTotal

\* Tiles per expert.
TileCounts(rows) == [e \in ExpertIds |-> CeilDivTM(rows[e])]

LEMMA SegPrefix == \A rows : Seg(rows) = Prefix(TileCounts(rows))
  BY DEF Seg, TileCounts, ExpertIds

LEMMA TileCountsNat ==
    ASSUME NEW rows, \A e \in ExpertIds : rows[e] \in Nat
    PROVE  \A e \in ExpertIds : TileCounts(rows)[e] = CeilDivTM(rows[e])
                                /\ TileCounts(rows)[e] \in Nat
  BY CeilDivTMCovers DEF TileCounts

\* The first tiles of the experts, in the order of the experts.
LEMMA SegFacts ==
    ASSUME NEW rows, \A e \in ExpertIds : rows[e] \in Nat
    PROVE  /\ \A e \in 0..NExperts : Seg(rows)[e] \in Nat
           /\ Seg(rows)[0] = 0
           /\ \A e \in ExpertIds : Seg(rows)[e + 1] = Seg(rows)[e] + CeilDivTM(rows[e])
           /\ \A d, e \in 0..NExperts : d <= e => Seg(rows)[d] <= Seg(rows)[e]
<1> DEFINE f == TileCounts(rows)
<1>1. \A e \in ExpertIds : f[e] = CeilDivTM(rows[e]) /\ f[e] \in Nat
  BY TileCountsNat
<1>2. Seg(rows) = Prefix(f)
  BY SegPrefix
<1> HIDE DEF f
<1>3. \A e \in 0..NExperts : Prefix(f)[e] \in Nat
  BY <1>1, PrefixNat
<1>4. Prefix(f)[0] = 0
  BY PrefixStep
<1>5. \A e \in ExpertIds : Prefix(f)[e + 1] = Prefix(f)[e] + f[e]
  BY PrefixNext
<1>6. \A d, e \in 0..NExperts : d <= e => Prefix(f)[d] <= Prefix(f)[e]
  BY <1>1, PrefixMono
<1> QED
  BY <1>1, <1>2, <1>3, <1>4, <1>5, <1>6

\* The grid is large enough: an expert costs one ragged tile at most.
LEMMA SegFits ==
    ASSUME NEW rows, RowCounts(rows)
    PROVE  Seg(rows)[NExperts] <= TilesMax
<1> DEFINE S == {e \in Nat : e <= NExperts =>
                    Seg(rows)[e] <= CeilDivTM(Prefix(rows)[e]) + e}
<1>1. /\ NExperts \in Nat /\ MTotal \in Nat
      /\ \A e \in ExpertIds : rows[e] \in Nat
      /\ Prefix(rows)[NExperts] <= MTotal
  BY TileAssumption DEF RowCounts
<1>2. \A e \in 0..NExperts : /\ Prefix(rows)[e] \in Nat
                              /\ CeilDivTM(Prefix(rows)[e]) \in Nat
                              /\ Seg(rows)[e] \in Nat
  BY <1>1, PrefixNat, SegFacts, CeilDivTMCovers
<1>3. 0 \in S
  <2>1. Seg(rows)[0] = 0 /\ CeilDivTM(Prefix(rows)[0]) \in Nat
    BY <1>1, <1>2, SegFacts
  <2> QED
    BY <2>1
<1>4. ASSUME NEW e \in Nat, e \in S
      PROVE  e + 1 \in S
  <2> SUFFICES ASSUME e + 1 <= NExperts
               PROVE  Seg(rows)[e + 1] <= CeilDivTM(Prefix(rows)[e + 1]) + (e + 1)
    OBVIOUS
  <2>1. e \in ExpertIds /\ e \in 0..NExperts /\ e + 1 \in 0..NExperts /\ rows[e] \in Nat
    BY <1>1 DEF ExpertIds
  <2>2. Prefix(rows)[e + 1] = Prefix(rows)[e] + rows[e]
    BY <2>1, PrefixNext
  <2>3. Seg(rows)[e + 1] = Seg(rows)[e] + CeilDivTM(rows[e])
    BY <1>1, <2>1, SegFacts
  <2>4. Seg(rows)[e] <= CeilDivTM(Prefix(rows)[e]) + e
    BY <1>1, <1>4
  <2>5. CeilDivTM(Prefix(rows)[e]) + CeilDivTM(rows[e])
          <= CeilDivTM(Prefix(rows)[e] + rows[e]) + 1
    BY <1>2, <2>1, CeilDivTMSum
  <2>6. CeilDivTM(rows[e]) \in Nat
    BY <2>1, CeilDivTMCovers
  <2>7. Seg(rows)[e + 1] <= CeilDivTM(Prefix(rows)[e]) + e + CeilDivTM(rows[e])
    BY <1>2, <2>1, <2>3, <2>4, <2>6
  <2>8. CeilDivTM(Prefix(rows)[e]) + CeilDivTM(rows[e]) <= CeilDivTM(Prefix(rows)[e + 1]) + 1
    BY <2>2, <2>5
  <2> QED
    BY <1>2, <2>1, <2>6, <2>7, <2>8
<1> HIDE DEF S
<1>5. Nat \subseteq S
  BY <1>3, <1>4, AllNat
<1>6. Seg(rows)[NExperts] <= CeilDivTM(Prefix(rows)[NExperts]) + NExperts
  BY <1>1, <1>5 DEF S
<1>7. NExperts \in 0..NExperts
  BY <1>1
<1>8. CeilDivTM(Prefix(rows)[NExperts]) <= CeilDivTM(MTotal)
  BY <1>1, <1>2, <1>7, CeilDivTMMono
<1>9. CeilDivTM(MTotal) \in Nat
  BY <1>1, CeilDivTMCovers
<1> QED
  BY <1>1, <1>2, <1>6, <1>7, <1>8, <1>9 DEF TilesMax

\* The walk stops at the expert whose tiles mt is one of.
LEMMA ExpertOfSegment ==
    ASSUME NEW rows, \A e \in ExpertIds : rows[e] \in Nat,
           NEW mt \in Nat, InGrid(rows, mt)
    PROVE  /\ ExpertOf(rows, mt) \in ExpertIds
           /\ Seg(rows)[ExpertOf(rows, mt)] <= mt
           /\ mt < Seg(rows)[ExpertOf(rows, mt) + 1]
<1> DEFINE Stops(e) == /\ e + 1 < NExperts => mt < Seg(rows)[e + 1]
                       /\ \A d \in 0..(e - 1) : mt >= Seg(rows)[d + 1]
<1>1. NExperts \in Nat \ {0} /\ mt < Seg(rows)[NExperts]
  BY TileAssumption DEF InGrid
<1>2. PICK e \in ExpertIds : Seg(rows)[e] <= mt /\ mt < Seg(rows)[e + 1]
  BY <1>1, SegPrefix, TileCountsNat, SegmentExists
<1>3. Stops(e)
  <2>1. ASSUME NEW d \in 0..(e - 1)
        PROVE  mt >= Seg(rows)[d + 1]
    <3>1. d + 1 \in 0..NExperts /\ e \in 0..NExperts /\ d + 1 <= e
      BY <1>1 DEF ExpertIds
    <3>2. Seg(rows)[d + 1] <= Seg(rows)[e]
      BY <3>1, SegFacts
    <3>3. Seg(rows)[d + 1] \in Nat /\ Seg(rows)[e] \in Nat
      BY <3>1, SegFacts
    <3> QED
      BY <1>2, <3>2, <3>3
  <2> QED
    BY <1>2, <2>1
<1>4. ExpertOf(rows, mt) = CHOOSE x \in ExpertIds : Stops(x)
  BY DEF ExpertOf, ExpertIds
<1> DEFINE c == CHOOSE x \in ExpertIds : Stops(x)
<1>5. c \in ExpertIds /\ Stops(c)
  BY <1>3
<1> HIDE DEF c
<1>6. Seg(rows)[c] <= mt
  <2>1. CASE c = 0
    BY <2>1, SegFacts
  <2>2. CASE c # 0
    <3>1. c - 1 \in 0..(c - 1) /\ (c - 1) + 1 = c
      BY <1>1, <1>5, <2>2 DEF ExpertIds
    <3>2. mt >= Seg(rows)[(c - 1) + 1]
      BY <1>5, <3>1
    <3> QED
      BY <3>1, <3>2
  <2> QED
    BY <2>1, <2>2
<1>7. mt < Seg(rows)[c + 1]
  <2>1. CASE c + 1 = NExperts
    BY <1>1, <2>1
  <2>2. CASE c + 1 < NExperts
    BY <1>5, <2>2
  <2>3. c + 1 = NExperts \/ c + 1 < NExperts
    BY <1>1, <1>5 DEF ExpertIds
  <2> QED
    BY <2>1, <2>2, <2>3
<1> QED
  BY <1>4, <1>5, <1>6, <1>7 DEF c

-----------------------------------------------------------------------------
(* The partition                                                            *)

\* Rows of a tile, in inequalities.
LEMMA TileRowsMeans ==
    ASSUME NEW rows, \A e \in ExpertIds : rows[e] \in Nat,
           NEW mt \in Nat, InGrid(rows, mt),
           NEW e \in ExpertIds, e = ExpertOf(rows, mt)
    PROVE  /\ mt - Seg(rows)[e] \in Nat
           /\ Prefix(rows)[e] \in Nat
           /\ \A r : r \in TileRows(rows, mt) <=>
                 /\ r \in Int
                 /\ r - Prefix(rows)[e] >= (mt - Seg(rows)[e]) * TM
                 /\ r - Prefix(rows)[e] < (mt - Seg(rows)[e]) * TM + TM
                 /\ r - Prefix(rows)[e] < rows[e]
<1> DEFINE k == mt - Seg(rows)[e]
           p == Prefix(rows)[e]
           first == k * TM
<1>1. e \in 0..NExperts /\ TM \in Nat \ {0} /\ rows[e] \in Nat
  BY TileAssumption DEF ExpertIds
<1>2. p \in Nat /\ Seg(rows)[e] \in Nat /\ Seg(rows)[e] <= mt
  BY <1>1, PrefixNat, SegFacts, ExpertOfSegment
<1>3. k \in Nat /\ first \in Nat
  BY <1>1, <1>2
<1>4. TileRows(rows, mt) =
        {p + rl : rl \in {x \in first..(first + TM - 1) : x < rows[e]}}
  BY DEF TileRows
<1> HIDE DEF k, p, first
<1>5. ASSUME NEW r
      PROVE  r \in TileRows(rows, mt) <=>
               r \in Int /\ r - p >= first /\ r - p < first + TM /\ r - p < rows[e]
  <2>1. ASSUME NEW x \in first..(first + TM - 1), x < rows[e], r = p + x
        PROVE  r \in Int /\ r - p >= first /\ r - p < first + TM /\ r - p < rows[e]
    BY <1>1, <1>2, <1>3, <2>1
  <2>2. ASSUME r \in Int, r - p >= first, r - p < first + TM, r - p < rows[e]
        PROVE  r - p \in first..(first + TM - 1) /\ r = p + (r - p)
    BY <1>1, <1>2, <1>3, <2>2
  <2> QED
    BY <1>4, <2>1, <2>2
<1> QED
  BY <1>2, <1>3, <1>5 DEF k, p, first

\* A tile computes rows of one expert, the one whose weights it reads.
LEMMA TileInSegment ==
    ASSUME NEW rows, \A e \in ExpertIds : rows[e] \in Nat,
           NEW mt \in Nat, NEW r \in TileRows(rows, mt)
    PROVE  /\ InGrid(rows, mt)
           /\ r \in Nat
           /\ ExpertOf(rows, mt) \in ExpertIds
           /\ Prefix(rows)[ExpertOf(rows, mt)] <= r
           /\ r < Prefix(rows)[ExpertOf(rows, mt) + 1]
<1>1. InGrid(rows, mt)
  BY DEF TileRows
<1>2. PICK e \in ExpertIds : e = ExpertOf(rows, mt)
  BY <1>1, ExpertOfSegment
<1> DEFINE k == mt - Seg(rows)[e]
           p == Prefix(rows)[e]
<1>3. /\ k \in Nat /\ p \in Nat /\ r \in Int
      /\ r - p >= k * TM /\ r - p < rows[e]
  BY <1>1, <1>2, TileRowsMeans
<1>4. Prefix(rows)[e + 1] = p + rows[e] /\ rows[e] \in Nat /\ TM \in Nat
  BY PrefixNext, TileAssumption
<1> HIDE DEF k, p
<1>5. k * TM \in Nat
  BY <1>3, <1>4
<1>6. r \in Nat /\ p <= r /\ r < Prefix(rows)[e + 1]
  BY <1>3, <1>4, <1>5
<1> QED
  BY <1>1, <1>2, <1>6 DEF p

\* The tile of a row: the one its place in its expert's segment falls in.
LEMMA TileOfRow ==
    ASSUME NEW rows, \A e \in ExpertIds : rows[e] \in Nat,
           NEW e \in ExpertIds, NEW r \in Nat,
           Prefix(rows)[e] <= r, r < Prefix(rows)[e + 1]
    PROVE  \E mt \in Nat : /\ InGrid(rows, mt)
                            /\ ExpertOf(rows, mt) = e
                            /\ r \in TileRows(rows, mt)
<1> DEFINE p == Prefix(rows)[e]
           s == Seg(rows)[e]
           k == (r - p) \div TM
           c == CeilDivTM(rows[e])
<1>1. /\ e \in 0..NExperts /\ e + 1 \in 0..NExperts /\ NExperts \in 0..NExperts
      /\ e + 1 <= NExperts /\ TM \in Nat \ {0} /\ rows[e] \in Nat
  BY TileAssumption DEF ExpertIds
<1>2. p \in Nat /\ s \in Nat /\ Prefix(rows)[e + 1] = p + rows[e]
  BY <1>1, PrefixNat, SegFacts, PrefixNext
<1>3. r - p \in Nat /\ r - p < rows[e]
  BY <1>1, <1>2
<1>4. k \in Nat /\ k * TM <= r - p /\ r - p < k * TM + TM
  BY <1>3, DivByTM
<1>5. c \in Nat /\ rows[e] <= c * TM
  BY <1>1, CeilDivTMCovers
<1>6. Seg(rows)[e + 1] = s + c /\ Seg(rows)[e + 1] <= Seg(rows)[NExperts]
      /\ Seg(rows)[NExperts] \in Nat
  BY <1>1, SegFacts
<1> HIDE DEF p, s, k, c
<1>7. k < c
  <2> SUFFICES ASSUME c <= k PROVE FALSE
    BY <1>4, <1>5
  <2>1. c * TM <= k * TM /\ c * TM \in Nat /\ k * TM \in Nat
    BY <1>1, <1>4, <1>5, TimesMono
  <2> QED
    BY <1>1, <1>3, <1>4, <1>5, <2>1
<1> DEFINE mt == s + k
<1>8. mt \in Nat /\ mt - s = k /\ s <= mt /\ mt < Seg(rows)[e + 1]
  BY <1>2, <1>4, <1>5, <1>6, <1>7
<1>9. InGrid(rows, mt)
  BY <1>6, <1>8, <1>2, <1>5 DEF InGrid
<1> HIDE DEF mt
<1>10. PICK x \in ExpertIds : x = ExpertOf(rows, mt)
                           /\ Seg(rows)[x] <= mt /\ mt < Seg(rows)[x + 1]
  BY <1>8, <1>9, ExpertOfSegment
<1>11. x = e
  <2>1. Seg(rows)[e] <= mt
    BY <1>8 DEF s
  <2>2. Seg(rows) = Prefix(TileCounts(rows))
    BY SegPrefix
  <2>3. \A y \in ExpertIds : TileCounts(rows)[y] \in Nat
    BY TileCountsNat
  <2> QED
    BY <1>8, <1>10, <2>1, <2>2, <2>3, SegmentUnique
<1>12. r \in TileRows(rows, mt)
  <2>1. r - Prefix(rows)[e] >= (mt - Seg(rows)[e]) * TM
        /\ r - Prefix(rows)[e] < (mt - Seg(rows)[e]) * TM + TM
        /\ r - Prefix(rows)[e] < rows[e]
    BY <1>3, <1>4, <1>8, <1>2, <1>1 DEF p, s
  <2>2. e = ExpertOf(rows, mt) /\ r \in Int
    BY <1>10, <1>11
  <2>3. \A y : y \in TileRows(rows, mt) <=>
            /\ y \in Int
            /\ y - Prefix(rows)[e] >= (mt - Seg(rows)[e]) * TM
            /\ y - Prefix(rows)[e] < (mt - Seg(rows)[e]) * TM + TM
            /\ y - Prefix(rows)[e] < rows[e]
    BY <1>8, <1>9, <2>2, TileRowsMeans
  <2> QED
    BY <2>1, <2>2, <2>3
<1> QED
  BY <1>8, <1>9, <1>10, <1>11, <1>12

\* No two tiles compute the same row.
LEMMA TilesApart ==
    ASSUME NEW rows, \A e \in ExpertIds : rows[e] \in Nat,
           NEW mt \in Nat, NEW ot \in Nat,
           NEW r \in TileRows(rows, mt), r \in TileRows(rows, ot)
    PROVE  mt = ot
<1>1. /\ InGrid(rows, mt) /\ InGrid(rows, ot) /\ r \in Nat
      /\ ExpertOf(rows, mt) \in ExpertIds /\ ExpertOf(rows, ot) \in ExpertIds
      /\ Prefix(rows)[ExpertOf(rows, mt)] <= r /\ r < Prefix(rows)[ExpertOf(rows, mt) + 1]
      /\ Prefix(rows)[ExpertOf(rows, ot)] <= r /\ r < Prefix(rows)[ExpertOf(rows, ot) + 1]
  BY TileInSegment
<1>2. ExpertOf(rows, mt) = ExpertOf(rows, ot)
  BY <1>1, SegmentUnique
<1>3. PICK e \in ExpertIds : e = ExpertOf(rows, mt) /\ e = ExpertOf(rows, ot)
  BY <1>1, <1>2
<1> DEFINE p == Prefix(rows)[e]
           k == mt - Seg(rows)[e]
           l == ot - Seg(rows)[e]
<1>4. /\ k \in Nat /\ p \in Nat /\ r - p >= k * TM /\ r - p < k * TM + TM
  BY <1>1, <1>3, TileRowsMeans
<1>5. /\ l \in Nat /\ r - p >= l * TM /\ r - p < l * TM + TM
  BY <1>1, <1>3, TileRowsMeans
<1>6. Seg(rows)[e] \in Nat
  BY SegFacts, TileAssumption DEF ExpertIds
<1> HIDE DEF p, k, l
<1>7. TM \in Nat \ {0} /\ r - p \in Int /\ k * TM \in Nat /\ l * TM \in Nat
  BY <1>1, <1>4, <1>5, TileAssumption
<1>8. ~(k + 1 <= l)
  <2> SUFFICES ASSUME k + 1 <= l PROVE FALSE
    OBVIOUS
  <2>1. (k + 1) * TM <= l * TM
    BY <1>4, <1>5, <1>7, TimesMono
  <2>2. (k + 1) * TM = k * TM + TM
    BY <1>4, <1>7
  <2> QED
    BY <1>4, <1>5, <1>7, <2>1, <2>2
<1>9. ~(l + 1 <= k)
  <2> SUFFICES ASSUME l + 1 <= k PROVE FALSE
    OBVIOUS
  <2>1. (l + 1) * TM <= k * TM
    BY <1>4, <1>5, <1>7, TimesMono
  <2>2. (l + 1) * TM = l * TM + TM
    BY <1>5, <1>7
  <2> QED
    BY <1>4, <1>5, <1>7, <2>1, <2>2
<1>10. k = l
  BY <1>4, <1>5, <1>8, <1>9
<1> QED
  BY <1>6, <1>10 DEF k, l

\* moe_grouped_qgemm divides any rows_per_expert that fits the caller's
\* buffers: each row of an expert is computed by one tile, by one that reads
\* this expert's weights, no other tile writes it, and the grid sized without
\* reading rows_per_expert has all of the tiles.
THEOREM TilesPartitionRows ==
    ASSUME NEW rows, RowCounts(rows)
    PROVE  TilesPartition(rows)
<1> DEFINE used == {mt \in Tiles : InGrid(rows, mt)}
<1>1. /\ NExperts \in Nat \ {0} /\ MTotal \in Nat
      /\ \A e \in ExpertIds : rows[e] \in Nat
      /\ NExperts \in 0..NExperts
  BY TileAssumption DEF RowCounts
<1>2. Seg(rows)[NExperts] \in Nat /\ Seg(rows)[NExperts] <= TilesMax /\ TilesMax \in Nat
  BY <1>1, SegFacts, SegFits, CeilDivTMCovers DEF TilesMax
<1>3. used = 0..(Seg(rows)[NExperts] - 1)
  BY <1>2 DEF Tiles, InGrid
<1>4. used \subseteq Nat
  BY <1>2, <1>3
<1>5. \A mt \in Nat : InGrid(rows, mt) => mt \in used
  BY <1>2, <1>3 DEF InGrid
<1> HIDE DEF used
<1>6. ASSUME NEW e \in ExpertIds,
             NEW r \in Prefix(rows)[e]..(Prefix(rows)[e + 1] - 1)
      PROVE  \E mt \in used : /\ ExpertOf(rows, mt) = e
                              /\ r \in TileRows(rows, mt)
                              /\ \A o \in used \ {mt} : r \notin TileRows(rows, o)
  <2>1. /\ e \in 0..NExperts /\ e + 1 \in 0..NExperts
        /\ Prefix(rows)[e] \in Nat /\ Prefix(rows)[e + 1] \in Nat
    BY <1>1, PrefixNat DEF ExpertIds
  <2>2. r \in Nat /\ Prefix(rows)[e] <= r /\ r < Prefix(rows)[e + 1]
    BY <2>1
  <2>3. PICK mt \in Nat : InGrid(rows, mt) /\ ExpertOf(rows, mt) = e /\ r \in TileRows(rows, mt)
    BY <1>1, <2>2, TileOfRow
  <2>4. \A o \in used \ {mt} : r \notin TileRows(rows, o)
    BY <1>1, <1>4, <2>3, TilesApart
  <2> QED
    BY <1>5, <2>3, <2>4
<1>7. ASSUME NEW mt \in used, NEW r \in TileRows(rows, mt)
      PROVE  r \in 0..(Prefix(rows)[NExperts] - 1)
  <2>1. PICK e \in ExpertIds : r \in Nat /\ r < Prefix(rows)[e + 1]
    BY <1>1, <1>4, TileInSegment
  <2>2. e + 1 \in 0..NExperts /\ e + 1 <= NExperts
    BY <1>1 DEF ExpertIds
  <2>3. Prefix(rows)[e + 1] <= Prefix(rows)[NExperts]
    BY <1>1, <2>2, PrefixMono
  <2>4. Prefix(rows)[e + 1] \in Nat /\ Prefix(rows)[NExperts] \in Nat
    BY <1>1, <2>2, PrefixNat
  <2> QED
    BY <2>1, <2>3, <2>4
<1> QED
  BY <1>3, <1>6, <1>7 DEF TilesPartition, used, ExpertIds

-----------------------------------------------------------------------------
(* What a kernel must do, and items that keep to cells of their own         *)

\* What the runs check of a kernel.
KernelRight(k) == RaceFree(k) /\ ReadsStaged(k) /\ WritesOutput(k) /\ SumsTerms(k)

\* The sets W gives its items are in All, cover it, and do not overlap.
Shares(W, All) ==
    /\ \A i \in DOMAIN W : W[i] \subseteq All
    /\ \A c \in All : \E i \in DOMAIN W : c \in W[i]
    /\ \A i, j \in DOMAIN W : \A c : c \in W[i] /\ c \in W[j] => i = j

LEMMA GlobalCell == ASSUME NEW b, NEW x PROVE IsGlobal(<<b, x>>)
  BY DEF IsGlobal

\* A kernel whose items keep to cells of their own has no race and needs no
\* barrier; what its items write and add are the shares W and A.
OwnedApart(k, W, T, A) ==
    /\ DOMAIN W = Items(k) /\ DOMAIN A = Items(k)
    /\ \A i \in Items(k) : /\ Wrote(k, i) = W[i] /\ Touched(k, i) \subseteq T[i] /\ Added(k, i) = A[i]
                           /\ \A c \in T[i] : IsGlobal(c)
    /\ \A i, j \in Items(k) : \A c : c \in W[i] /\ c \in T[j] => i = j
    /\ Shares(W, k.out) /\ Shares(A, k.sums)

LEMMA OwnersRight ==
    ASSUME NEW k, NEW W, NEW T, NEW A, OwnedApart(k, W, T, A)
    PROVE  KernelRight(k)
<1>0. /\ DOMAIN W = Items(k) /\ DOMAIN A = Items(k)
      /\ \A i \in Items(k) : /\ Wrote(k, i) = W[i] /\ Touched(k, i) \subseteq T[i] /\ Added(k, i) = A[i]
                             /\ \A c \in T[i] : IsGlobal(c)
      /\ \A i, j \in Items(k) : \A c : c \in W[i] /\ c \in T[j] => i = j
      /\ Shares(W, k.out) /\ Shares(A, k.sums)
  BY DEF OwnedApart
<1> USE <1>0
<1>1. \A i \in Items(k), p \in DOMAIN k.phases :
         k.phases[p][i].wr \subseteq Wrote(k, i) /\ k.phases[p][i].rd \cup k.phases[p][i].wr \subseteq Touched(k, i)
  <2> SUFFICES ASSUME NEW i \in Items(k), NEW p \in DOMAIN k.phases
               PROVE  /\ k.phases[p][i].wr \subseteq Wrote(k, i)
                      /\ k.phases[p][i].rd \cup k.phases[p][i].wr \subseteq Touched(k, i)
    OBVIOUS
  <2>1. k.phases[p][i].wr \subseteq Wrote(k, i)
    BY DEF Wrote
  <2>2. k.phases[p][i].rd \subseteq Touched(k, i)
    BY DEF Touched
  <2> QED
    BY <2>1, <2>2 DEF Touched
<1>2. RaceFree(k)
  <2>1. \A i, j \in Items(k) : i # j => Wrote(k, i) \cap Touched(k, j) = {}
    OBVIOUS
  <2>2. \A p \in DOMAIN k.phases : \A i, j \in Items(k) :
          i[1] = j[1] /\ i # j => ~Disturbs(k.phases[p][i], k.phases[p][j])
    BY <1>1, <2>1 DEF Disturbs
  <2> QED
    BY <2>1, <2>2 DEF RaceFree
<1>3. ReadsStaged(k)
  <2> SUFFICES ASSUME NEW p \in DOMAIN k.phases, NEW i \in Items(k), NEW c,
                      c \in k.phases[p][i].rd, ~IsGlobal(c)
               PROVE  FALSE
    BY DEF ReadsStaged
  <2>1. c \in T[i]
    BY <1>1
  <2> QED
    BY <2>1
<1>4. WritesOutput(k)
  <2>1. \A i \in Items(k) : {c \in Wrote(k, i) : IsGlobal(c)} = W[i]
    <3> SUFFICES ASSUME NEW i \in Items(k), NEW c \in W[i] PROVE IsGlobal(c)
      OBVIOUS
    <3>1. c \in T[i]
      BY DEF Touched
    <3> QED
      BY <3>1
  <2>2. UNION {{c \in Wrote(k, i) : IsGlobal(c)} : i \in Items(k)} = k.out
    BY <2>1 DEF Shares
  <2>3. \A i, j \in Items(k) : i # j =>
           {c \in Wrote(k, i) : IsGlobal(c)} \cap {c \in Wrote(k, j) : IsGlobal(c)} = {}
    BY <2>1 DEF Shares
  <2> QED
    BY <2>2, <2>3 DEF WritesOutput, Partitions
<1>5. SumsTerms(k)
  <2>1. UNION {Added(k, i) : i \in Items(k)} = k.sums
    BY DEF Shares
  <2>2. \A i, j \in Items(k) : i # j => Added(k, i) \cap Added(k, j) = {}
    BY DEF Shares
  <2> QED
    BY <2>1, <2>2 DEF SumsTerms, Partitions
<1> QED
  BY <1>2, <1>3, <1>4, <1>5 DEF KernelRight

-----------------------------------------------------------------------------
(* Kernels of one, two and three phases                                     *)

LEMMA OnePhase ==
    ASSUME NEW d, NEW out, NEW sums, NEW k, k = Kernel(<<d>>, out, sums)
    PROVE  /\ Items(k) = DOMAIN d /\ k.out = out /\ k.sums = sums
           /\ \A i : /\ Wrote(k, i) = d[i].wr /\ Touched(k, i) = d[i].wr \cup d[i].rd
                     /\ Added(k, i) = d[i].add
<1>1. k.phases = <<d>> /\ DOMAIN k.phases = {1} /\ k.phases[1] = d
  BY DEF Kernel
<1> QED
  BY <1>1 DEF Kernel, Items, Wrote, Touched, Added

LEMMA TwoPhases ==
    ASSUME NEW d, NEW e, NEW out, NEW sums, NEW k, k = Kernel(<<d, e>>, out, sums)
    PROVE  /\ Items(k) = DOMAIN d /\ k.out = out /\ k.sums = sums
           /\ \A i : /\ Wrote(k, i) = d[i].wr \cup e[i].wr
                     /\ Touched(k, i) = d[i].wr \cup e[i].wr \cup d[i].rd \cup e[i].rd
                     /\ Added(k, i) = d[i].add \cup e[i].add
<1>1. /\ k.phases = <<d, e>> /\ DOMAIN k.phases = {1, 2}
      /\ k.phases[1] = d /\ k.phases[2] = e
  BY DEF Kernel
<1> QED
  BY <1>1 DEF Kernel, Items, Wrote, Touched, Added

LEMMA ThreePhases ==
    ASSUME NEW d, NEW e, NEW f, NEW out, NEW sums, NEW k, k = Kernel(<<d, e, f>>, out, sums)
    PROVE  /\ Items(k) = DOMAIN d /\ k.out = out /\ k.sums = sums
           /\ \A i : /\ Wrote(k, i) = d[i].wr \cup e[i].wr \cup f[i].wr
                     /\ Touched(k, i) = d[i].wr \cup e[i].wr \cup f[i].wr
                                          \cup d[i].rd \cup e[i].rd \cup f[i].rd
                     /\ Added(k, i) = d[i].add \cup e[i].add \cup f[i].add
<1>1. /\ k.phases = <<d, e, f>> /\ DOMAIN k.phases = {1, 2, 3}
      /\ k.phases[1] = d /\ k.phases[2] = e /\ k.phases[3] = f
  BY DEF Kernel
<1> QED
  BY <1>1 DEF Kernel, Items, Wrote, Touched, Added

LEMMA DoesIs ==
    ASSUME NEW rd, NEW wr, NEW add
    PROVE  Does(rd, wr, add).rd = rd /\ Does(rd, wr, add).wr = wr /\ Does(rd, wr, add).add = add
  BY DEF Does

-----------------------------------------------------------------------------
(* Rows of cells, and how lanes share a row                                 *)

LEMMA DivisionOf ==
    ASSUME NEW a \in Nat, NEW d \in Nat \ {0}
    PROVE  /\ a \div d \in Nat /\ a % d \in Upto(d)
           /\ a = (a \div d) * d + (a % d)
  BY SMT DEF Upto

LEMMA DivisionUnique ==
    ASSUME NEW q \in Nat, NEW d \in Nat \ {0}, NEW r \in Upto(d)
    PROVE  (q * d + r) \div d = q /\ (q * d + r) % d = r /\ q * d + r \in Nat
<1>1. r \in Nat /\ r < d
  BY DEF Upto
<1> QED
  BY <1>1, SMT

LEMMA ProductNat ==
    ASSUME NEW a \in Nat, NEW b \in Nat
    PROVE  a * b \in Nat
  BY SMT

LEMMA ProductMono ==
    ASSUME NEW a \in Nat, NEW b \in Nat, NEW c \in Nat, a <= b
    PROVE  a * c <= b * c
  BY SMT

\* The cells below n * d are those of the first n rows of d.
LEMMA QuotientBelow ==
    ASSUME NEW a \in Nat, NEW d \in Nat \ {0}, NEW n \in Nat
    PROVE  a \div d < n <=> a < n * d
<1> DEFINE q == a \div d
<1>1. q \in Nat /\ q * d <= a /\ a < q * d + d
  <2>1. q \in Nat /\ a % d \in Upto(d) /\ a = q * d + (a % d)
    BY DivisionOf
  <2>2. q * d \in Nat /\ a % d \in Nat /\ a % d < d
    BY <2>1, ProductNat DEF Upto
  <2> HIDE DEF q
  <2> QED
    BY <2>1, <2>2
<1> HIDE DEF q
<1>2. q * d \in Nat /\ n * d \in Nat
  BY <1>1, ProductNat
<1>3. ASSUME q < n PROVE a < n * d
  <2>1. (q + 1) * d <= n * d
    BY <1>1, <1>3, ProductMono
  <2>2. (q + 1) * d = q * d + d
    BY <1>1, SMT
  <2> QED
    BY <1>1, <1>2, <2>1, <2>2
<1>4. ASSUME n <= q PROVE n * d <= a
  <2>1. n * d <= q * d
    BY <1>1, <1>4, ProductMono
  <2> QED
    BY <1>1, <1>2, <2>1
<1> QED
  BY <1>1, <1>2, <1>3, <1>4 DEF q

\* A cell of buffer b.
CellOf(b, c) == c = <<b, c[2]>> /\ c[2] \in Nat

LEMMA InArray ==
    ASSUME NEW b, NEW n \in Nat, NEW c
    PROVE  c \in At(b, 0, Upto(n)) <=> CellOf(b, c) /\ c[2] < n
<1>1. \A x \in Upto(n) : x \in Nat /\ x < n /\ 0 + x = x
  BY DEF Upto
<1>2. \A x \in Nat : x < n => x \in Upto(n)
  BY DEF Upto
<1>3. \A x : <<b, x>>[2] = x
  OBVIOUS
<1> QED
  BY <1>1, <1>2, <1>3 DEF At, CellOf

\* Cells of row r: those whose position in the row is in S.
LEMMA InRow ==
    ASSUME NEW b, NEW r \in Nat, NEW d \in Nat \ {0}, NEW S, NEW c, S \subseteq Upto(d)
    PROVE  c \in At(b, r * d, S) <=> CellOf(b, c) /\ c[2] \div d = r /\ c[2] % d \in S
<1>1. ASSUME NEW e \in S
      PROVE  /\ (r * d + e) \div d = r /\ (r * d + e) % d = e /\ r * d + e \in Nat
  <2>1. e \in Upto(d)
    OBVIOUS
  <2> QED
    BY <2>1, DivisionUnique
<1>2. ASSUME NEW x \in Nat, x \div d = r, x % d \in S
      PROVE  x = r * d + (x % d)
  BY <1>2, DivisionOf
<1>3. \A x : <<b, x>>[2] = x
  OBVIOUS
<1> QED
  BY <1>1, <1>2, <1>3 DEF At, CellOf

LEMMA InWholeRow ==
    ASSUME NEW b, NEW r \in Nat, NEW d \in Nat \ {0}, NEW c
    PROVE  c \in At(b, r * d, Upto(d)) <=> CellOf(b, c) /\ c[2] \div d = r
<1> DEFINE S == Upto(d)
<1>1. S \subseteq Upto(d)
  OBVIOUS
<1> HIDE DEF S
<1>2. c \in At(b, r * d, S) <=> CellOf(b, c) /\ c[2] \div d = r /\ c[2] % d \in S
  BY <1>1, InRow
<1>3. \A x \in Nat : x % d \in S
  BY DivisionOf DEF S
<1> QED
  BY <1>2, <1>3 DEF S, CellOf

LEMMA SharesTwo ==
    ASSUME NEW V, NEW W, NEW U, NEW X, NEW Y,
           DOMAIN V = DOMAIN U, DOMAIN W = DOMAIN U,
           \A i \in DOMAIN U : U[i] = V[i] \cup W[i],
           Shares(V, X), Shares(W, Y), X \cap Y = {}
    PROVE  Shares(U, X \cup Y)
  BY DEF Shares

LEMMA GridItems ==
    ASSUME NEW n, NEW m, NEW i \in Grid(n, m)
    PROVE  i[1] \in Upto(n) /\ i[2] \in Upto(m) /\ i[1] \in Nat /\ i[2] \in Nat /\ i = <<i[1], i[2]>>
  BY DEF Grid, Upto

\* Work-groups that take a row each, their lanes sharing it as E says.
LEMMA RowShares ==
    ASSUME NEW b, NEW rows \in Nat, NEW d \in Nat \ {0}, NEW lanes, NEW E, NEW W,
           DOMAIN E = Upto(lanes), Shares(E, Upto(d)), DOMAIN W = Grid(rows, lanes),
           \A i \in Grid(rows, lanes) : W[i] = At(b, i[1] * d, E[i[2]])
    PROVE  /\ Shares(W, At(b, 0, Upto(rows * d)))
           /\ \A i \in Grid(rows, lanes) : W[i] \subseteq At(b, i[1] * d, Upto(d))
<1>1. \A i \in Grid(rows, lanes) : /\ i[1] \in Nat /\ i[1] < rows /\ i[2] \in Upto(lanes)
                                   /\ i = <<i[1], i[2]>>
  BY GridItems DEF Upto
<1>2. ASSUME NEW i \in Grid(rows, lanes), NEW c
      PROVE  c \in W[i] <=> CellOf(b, c) /\ c[2] \div d = i[1] /\ c[2] % d \in E[i[2]]
  <2>1. i[1] \in Nat /\ E[i[2]] \subseteq Upto(d)
    BY <1>1 DEF Shares
  <2>2. PICK r \in Nat : r = i[1]
    BY <2>1
  <2>3. PICK S : S = E[i[2]]
    OBVIOUS
  <2>4. c \in At(b, r * d, S) <=> CellOf(b, c) /\ c[2] \div d = r /\ c[2] % d \in S
    BY <2>1, <2>3, InRow
  <2> QED
    BY <2>2, <2>3, <2>4
<1>3. rows * d \in Nat
  BY ProductNat
<1>4. ASSUME NEW i \in Grid(rows, lanes)
      PROVE  W[i] \subseteq At(b, 0, Upto(rows * d))
  <2> SUFFICES ASSUME NEW c \in W[i] PROVE c \in At(b, 0, Upto(rows * d))
    OBVIOUS
  <2>1. CellOf(b, c) /\ c[2] \div d = i[1] /\ c[2] \in Nat
    BY <1>2 DEF CellOf
  <2>2. c[2] < rows * d
    BY <1>1, <2>1, QuotientBelow
  <2> QED
    BY <1>3, <2>1, <2>2, InArray
<1>5. ASSUME NEW c \in At(b, 0, Upto(rows * d))
      PROVE  \E i \in Grid(rows, lanes) : c \in W[i]
  <2>1. CellOf(b, c) /\ c[2] < rows * d /\ c[2] \in Nat
    BY <1>3, InArray DEF CellOf
  <2>0. c[2] \div d < rows
    BY <2>1, QuotientBelow
  <2>5. PICK x \in Nat : x = c[2]
    BY <2>1
  <2>6. x \div d \in Nat /\ x % d \in Upto(d)
    BY DivisionOf
  <2>2. c[2] \div d \in Upto(rows) /\ c[2] % d \in Upto(d)
    BY <2>0, <2>5, <2>6 DEF Upto
  <2>3. PICK l \in Upto(lanes) : c[2] % d \in E[l]
    BY <2>2 DEF Shares
  <2>4. <<c[2] \div d, l>> \in Grid(rows, lanes)
    BY <2>2 DEF Grid
  <2> QED
    BY <1>2, <2>1, <2>3, <2>4
<1>6. ASSUME NEW i \in Grid(rows, lanes), NEW j \in Grid(rows, lanes), NEW c, c \in W[i], c \in W[j]
      PROVE  i = j
  <2>1. i[1] = j[1] /\ c[2] % d \in E[i[2]] /\ c[2] % d \in E[j[2]]
    BY <1>2, <1>6
  <2>2. i[2] = j[2]
    BY <1>1, <2>1 DEF Shares
  <2> QED
    BY <1>1, <2>1, <2>2
<1>7. ASSUME NEW i \in Grid(rows, lanes)
      PROVE  W[i] \subseteq At(b, i[1] * d, Upto(d))
  <2> SUFFICES ASSUME NEW c \in W[i] PROVE c \in At(b, i[1] * d, Upto(d))
    OBVIOUS
  <2>1. PICK r \in Nat : r = i[1]
    BY <1>1
  <2>2. CellOf(b, c) /\ c[2] \div d = r
    BY <1>2, <2>1
  <2>3. c \in At(b, r * d, Upto(d))
    BY <2>2, InWholeRow
  <2> QED
    BY <2>1, <2>3
<1> QED
  BY <1>4, <1>5, <1>6, <1>7 DEF Shares

\* for (i = base + lane; i < n; i += lanes)
LEMMA FromIs ==
    ASSUME NEW base \in Nat, NEW lanes \in Nat \ {0}, NEW lane \in Upto(lanes), NEW n \in Nat, NEW x
    PROVE  x \in From(base + lane, lanes, n) <=>
             x \in Nat /\ base <= x /\ x < n /\ (x - base) % lanes = lane
<1>0. lane \in Nat /\ lane < lanes
  BY DEF Upto
<1>1. ASSUME x \in (base + lane)..(n - 1), (x - (base + lane)) % lanes = 0
      PROVE  x \in Nat /\ base <= x /\ x < n /\ (x - base) % lanes = lane
  <2>1. PICK y \in Nat : y = x - (base + lane)
    BY <1>0, <1>1
  <2>2. y \div lanes \in Nat /\ y = (y \div lanes) * lanes + (y % lanes) /\ y % lanes = 0
    BY <1>1, <2>1, DivisionOf
  <2>3. PICK q \in Nat : q = y \div lanes
    BY <2>2
  <2>4. q * lanes \in Nat /\ y = q * lanes
    BY <2>2, <2>3, ProductNat
  <2>5. x - base = q * lanes + lane /\ x \in Nat /\ base <= x /\ x < n
    BY <1>0, <1>1, <2>1, <2>4
  <2>6. (q * lanes + lane) % lanes = lane
    BY DivisionUnique
  <2> QED
    BY <2>5, <2>6
<1>2. ASSUME x \in Nat, base <= x, x < n, (x - base) % lanes = lane
      PROVE  x \in (base + lane)..(n - 1) /\ (x - (base + lane)) % lanes = 0
  <2>1. PICK y \in Nat : y = x - base
    BY <1>2
  <2>2. y \div lanes \in Nat /\ y = (y \div lanes) * lanes + (y % lanes) /\ y % lanes = lane
    BY <1>2, <2>1, DivisionOf
  <2>3. PICK q \in Nat : q = y \div lanes
    BY <2>2
  <2>4. q * lanes \in Nat /\ 0 \in Upto(lanes) /\ y = q * lanes + lane
    BY <1>0, <2>2, <2>3, ProductNat DEF Upto
  <2>5. x - (base + lane) = q * lanes + 0 /\ x \in (base + lane)..(n - 1)
    BY <1>0, <1>2, <2>1, <2>4
  <2>6. (q * lanes + 0) % lanes = 0
    BY <2>4, DivisionUnique
  <2> QED
    BY <2>5, <2>6
<1> QED
  BY <1>1, <1>2 DEF From

LEMMA StrideIs ==
    ASSUME NEW lanes \in Nat \ {0}, NEW lane \in Upto(lanes), NEW n \in Nat, NEW x
    PROVE  x \in Stride(lane, lanes, n) <=> x \in Nat /\ x < n /\ x % lanes = lane
<1>1. 0 + lane = lane /\ 0 \in Nat
  BY DEF Upto
<1>2. x \in From(0 + lane, lanes, n) <=>
        x \in Nat /\ 0 <= x /\ x < n /\ (x - 0) % lanes = lane
  BY <1>1, FromIs
<1>3. x \in Nat => x - 0 = x /\ 0 <= x
  OBVIOUS
<1> QED
  BY <1>1, <1>2, <1>3 DEF Stride

\* Lanes that stride over n elements share them.
LEMMA StrideShares ==
    ASSUME NEW lanes \in Nat \ {0}, NEW n \in Nat, NEW E,
           E = [lane \in Upto(lanes) |-> Stride(lane, lanes, n)]
    PROVE  Shares(E, Upto(n))
<1>1. DOMAIN E = Upto(lanes) /\ \A lane \in Upto(lanes) : \A x :
         x \in E[lane] <=> x \in Nat /\ x < n /\ x % lanes = lane
  BY StrideIs
<1>2. \A lane \in Upto(lanes) : E[lane] \subseteq Upto(n)
  BY <1>1 DEF Upto
<1>3. ASSUME NEW x \in Upto(n)
      PROVE  \E lane \in Upto(lanes) : x \in E[lane]
  <2>1. x \in Nat /\ x < n
    BY DEF Upto
  <2>2. x % lanes \in Upto(lanes)
    BY <2>1, DivisionOf
  <2> QED
    BY <1>1, <2>1, <2>2
<1> QED
  BY <1>1, <1>2, <1>3 DEF Shares

\* Lanes that take whole vectors of V in turn, up to tail, then the scalars.
LEMMA VectorShares ==
    ASSUME NEW V \in Nat \ {0}, NEW lanes \in Nat \ {0}, NEW tail \in Nat, NEW n \in Nat, NEW E,
           tail <= n,
           E = [lane \in Upto(lanes) |->
                  {e \in Upto(tail) : (e \div V) % lanes = lane} \cup From(tail + lane, lanes, n)]
    PROVE  Shares(E, Upto(n))
<1>2. DOMAIN E = Upto(lanes) /\ \A lane \in Upto(lanes) :
         E[lane] = {e \in Upto(tail) : (e \div V) % lanes = lane} \cup From(tail + lane, lanes, n)
  OBVIOUS
<1>3. ASSUME NEW lane \in Upto(lanes), NEW x
      PROVE  x \in E[lane] <=> /\ x \in Nat /\ x < n
                               /\ x < tail => (x \div V) % lanes = lane
                               /\ x >= tail => (x - tail) % lanes = lane
  <2>1. x \in From(tail + lane, lanes, n) <=>
          x \in Nat /\ tail <= x /\ x < n /\ (x - tail) % lanes = lane
    BY FromIs
  <2>2. x \in Upto(tail) <=> x \in Nat /\ x < tail
    BY DEF Upto
  <2> QED
    BY <1>2, <2>1, <2>2
<1>4. ASSUME NEW lane \in Upto(lanes)
      PROVE  E[lane] \subseteq Upto(n)
  <2> SUFFICES ASSUME NEW x \in E[lane] PROVE x \in Upto(n)
    OBVIOUS
  <2>1. x \in Nat /\ x < n
    BY <1>3
  <2> QED
    BY <2>1 DEF Upto
<1>5. ASSUME NEW x \in Upto(n)
      PROVE  \E lane \in Upto(lanes) : x \in E[lane]
  <2>1. x \in Nat /\ x < n
    BY DEF Upto
  <2>2. CASE x < tail
    <3>1. x \div V \in Nat
      BY <2>1, DivisionOf
    <3>2. PICK lane \in Upto(lanes) : lane = (x \div V) % lanes
      BY <3>1, DivisionOf
    <3>3. x \in E[lane]
      BY <1>3, <2>1, <2>2, <3>2
    <3> QED
      BY <3>3
  <2>3. CASE x >= tail
    <3>1. PICK y \in Nat : y = x - tail
      BY <2>1, <2>3
    <3>2. PICK lane \in Upto(lanes) : lane = y % lanes
      BY DivisionOf
    <3>3. x \in E[lane]
      BY <1>3, <2>1, <2>3, <3>1, <3>2
    <3> QED
      BY <3>3
  <2> QED
    BY <2>1, <2>2, <2>3
<1>6. ASSUME NEW k \in Upto(lanes), NEW l \in Upto(lanes), NEW x, x \in E[k], x \in E[l]
      PROVE  k = l
  <2>1. x \in Nat /\ (x < tail \/ x >= tail)
    BY <1>3, <1>6
  <2> QED
    BY <1>3, <1>6, <2>1
<1> QED
  BY <1>2, <1>4, <1>5, <1>6 DEF Shares

\* Whole multiples of d are below n.
LEMMA WholeBelow ==
    ASSUME NEW n \in Nat, NEW d \in Nat \ {0}
    PROVE  (n \div d) * d \in Nat /\ (n \div d) * d <= n
<1>1. PICK q \in Nat : q = n \div d
  BY DivisionOf
<1>2. n = q * d + (n % d) /\ n % d \in Nat
  BY <1>1, DivisionOf DEF Upto
<1>3. q * d \in Nat
  BY ProductNat
<1> QED
  BY <1>1, <1>2, <1>3

-----------------------------------------------------------------------------
(* Kernels whose work-groups own a row and whose lanes share it             *)

LEMMA CellOfBuffer ==
    ASSUME NEW b, NEW base, NEW S, NEW c \in At(b, base, S)
    PROVE  IsGlobal(c) /\ c[1] = b
  BY GlobalCell DEF At

\* What an item owns of buffer b: its lane's part of its group's row.
Mine(b, E, d, rows, lanes) == [i \in Grid(rows, lanes) |-> At(b, i[1] * d, E[i[2]])]

\* What it adds to its group's total.
MineTo(name, b, E, d, rows, lanes) ==
    [i \in Grid(rows, lanes) |-> Into(<<name, i[1]>>, Mine(b, E, d, rows, lanes)[i])]

\* Lanes that share a row of d elements.
Laned(E, d, lanes) == DOMAIN E = Upto(lanes) /\ Shares(E, Upto(d))

LEMMA MineShares ==
    ASSUME NEW b, NEW E, NEW d \in Nat \ {0}, NEW rows \in Nat, NEW lanes, Laned(E, d, lanes)
    PROVE  /\ DOMAIN Mine(b, E, d, rows, lanes) = Grid(rows, lanes)
           /\ Shares(Mine(b, E, d, rows, lanes), At(b, 0, Upto(rows * d)))
           /\ \A i \in Grid(rows, lanes) :
                 /\ Mine(b, E, d, rows, lanes)[i] = At(b, i[1] * d, E[i[2]])
                 /\ Mine(b, E, d, rows, lanes)[i] \subseteq At(b, i[1] * d, Upto(d))
<1> DEFINE W == Mine(b, E, d, rows, lanes)
<1>1. DOMAIN W = Grid(rows, lanes) /\ \A i \in Grid(rows, lanes) : W[i] = At(b, i[1] * d, E[i[2]])
  BY DEF Mine
<1> HIDE DEF W
<1>2. /\ Shares(W, At(b, 0, Upto(rows * d)))
      /\ \A i \in Grid(rows, lanes) : W[i] \subseteq At(b, i[1] * d, Upto(d))
  BY <1>1, RowShares DEF Laned
<1> QED
  BY <1>1, <1>2 DEF W

\* A cell is in the part of one item only.
LEMMA MineApart ==
    ASSUME NEW a, NEW b, NEW E, NEW d \in Nat \ {0}, NEW rows \in Nat, NEW lanes,
           NEW i \in Grid(rows, lanes), NEW j \in Grid(rows, lanes), NEW c,
           Laned(E, d, lanes),
           c \in Mine(a, E, d, rows, lanes)[i], c \in Mine(b, E, d, rows, lanes)[j]
    PROVE  i = j
<1>1. a = b
  <2>1. c \in At(a, i[1] * d, E[i[2]]) /\ c \in At(b, j[1] * d, E[j[2]])
    BY DEF Mine
  <2> QED
    BY <2>1, CellOfBuffer
<1>2. DOMAIN Mine(a, E, d, rows, lanes) = Grid(rows, lanes)
      /\ Shares(Mine(a, E, d, rows, lanes), At(a, 0, Upto(rows * d)))
  BY MineShares
<1> QED
  BY <1>1, <1>2 DEF Shares

LEMMA MineGlobal ==
    ASSUME NEW b, NEW E, NEW d, NEW rows, NEW lanes, NEW i \in Grid(rows, lanes),
           NEW c \in Mine(b, E, d, rows, lanes)[i]
    PROVE  IsGlobal(c) /\ c[1] = b
<1>1. c \in At(b, i[1] * d, E[i[2]])
  BY DEF Mine
<1> QED
  BY <1>1, CellOfBuffer

\* Every item keeps to its own part of each buffer.
Keeps(k, E, d, rows, lanes) ==
    \A i \in Grid(rows, lanes) : \A c \in Touched(k, i) : \E b : c \in Mine(b, E, d, rows, lanes)[i]

\* A kernel whose lanes keep to their parts of their group's row.
LEMMA RowsRight ==
    ASSUME NEW k, NEW E, NEW d \in Nat \ {0}, NEW rows \in Nat, NEW lanes, NEW W, NEW A,
           Items(k) = Grid(rows, lanes), Laned(E, d, lanes), Keeps(k, E, d, rows, lanes),
           DOMAIN W = Grid(rows, lanes), DOMAIN A = Grid(rows, lanes),
           \A i \in Grid(rows, lanes) : Wrote(k, i) = W[i] /\ Added(k, i) = A[i],
           Shares(W, k.out), Shares(A, k.sums)
    PROVE  KernelRight(k)
<1> DEFINE T == [i \in Items(k) |-> Touched(k, i)]
<1>1. \A i \in Items(k) : T[i] = Touched(k, i)
  OBVIOUS
<1> HIDE DEF T
<1>2. ASSUME NEW i \in Items(k), NEW c \in T[i]
      PROVE  IsGlobal(c)
  <2>1. PICK b : c \in Mine(b, E, d, rows, lanes)[i]
    BY <1>1 DEF Keeps
  <2> QED
    BY <2>1, MineGlobal
<1>3. ASSUME NEW i \in Items(k), NEW j \in Items(k), NEW c, c \in W[i], c \in T[j]
      PROVE  i = j
  <2>1. c \in Touched(k, i) /\ c \in Touched(k, j)
    BY <1>1, <1>3 DEF Touched
  <2>2. PICK a : c \in Mine(a, E, d, rows, lanes)[i]
    BY <2>1 DEF Keeps
  <2>3. PICK b : c \in Mine(b, E, d, rows, lanes)[j]
    BY <2>1 DEF Keeps
  <2> QED
    BY <2>2, <2>3, MineApart
<1>4. OwnedApart(k, W, T, A)
  BY <1>1, <1>2, <1>3 DEF OwnedApart
<1> QED
  BY <1>4, OwnersRight

\* The cells of R are those of the items' parts.
Own(R, E, d, rows, lanes) ==
    \A i \in Grid(rows, lanes) : \A c \in R[i] : \E b : c \in Mine(b, E, d, rows, lanes)[i]

LEMMA MineOwn ==
    ASSUME NEW b, NEW E, NEW d, NEW rows, NEW lanes
    PROVE  Own(Mine(b, E, d, rows, lanes), E, d, rows, lanes)
  BY DEF Own

LEMMA OwnTwo ==
    ASSUME NEW R, NEW S, NEW U, NEW E, NEW d, NEW rows, NEW lanes,
           Own(R, E, d, rows, lanes), Own(S, E, d, rows, lanes),
           \A i \in Grid(rows, lanes) : U[i] \subseteq R[i] \cup S[i]
    PROVE  Own(U, E, d, rows, lanes)
  BY DEF Own

LEMMA RowsTwoPhases ==
    ASSUME NEW k, NEW d, NEW e, NEW out, NEW sums, NEW E, NEW dim \in Nat \ {0}, NEW rows \in Nat,
           NEW lanes, NEW W, NEW R, NEW A,
           k = Kernel(<<d, e>>, out, sums), DOMAIN d = Grid(rows, lanes), Laned(E, dim, lanes),
           DOMAIN W = Grid(rows, lanes), DOMAIN A = Grid(rows, lanes),
           \A i \in Grid(rows, lanes) : /\ d[i].wr \cup e[i].wr = W[i]
                                        /\ d[i].rd \cup e[i].rd = R[i]
                                        /\ d[i].add \cup e[i].add = A[i],
           Own(W, E, dim, rows, lanes), Own(R, E, dim, rows, lanes),
           Shares(W, out), Shares(A, sums)
    PROVE  KernelRight(k)
<1>1. /\ Items(k) = DOMAIN d /\ k.out = out /\ k.sums = sums
      /\ \A i : /\ Wrote(k, i) = d[i].wr \cup e[i].wr
                /\ Touched(k, i) = d[i].wr \cup e[i].wr \cup d[i].rd \cup e[i].rd
                /\ Added(k, i) = d[i].add \cup e[i].add
  BY TwoPhases
<1>2. ASSUME NEW i \in Grid(rows, lanes)
      PROVE  Wrote(k, i) = W[i] /\ Touched(k, i) = W[i] \cup R[i] /\ Added(k, i) = A[i]
  <2>1. /\ Wrote(k, i) = d[i].wr \cup e[i].wr
        /\ Touched(k, i) = (d[i].wr \cup e[i].wr) \cup (d[i].rd \cup e[i].rd)
        /\ Added(k, i) = d[i].add \cup e[i].add
    BY <1>1
  <2> QED
    BY <2>1
<1>3. Keeps(k, E, dim, rows, lanes)
  BY <1>2 DEF Keeps, Own
<1> QED
  BY <1>1, <1>2, <1>3, RowsRight

LEMMA RowsThreePhases ==
    ASSUME NEW k, NEW d, NEW e, NEW f, NEW out, NEW sums, NEW E, NEW dim \in Nat \ {0},
           NEW rows \in Nat, NEW lanes, NEW W, NEW R, NEW A,
           k = Kernel(<<d, e, f>>, out, sums), DOMAIN d = Grid(rows, lanes), Laned(E, dim, lanes),
           DOMAIN W = Grid(rows, lanes), DOMAIN A = Grid(rows, lanes),
           \A i \in Grid(rows, lanes) : /\ d[i].wr \cup e[i].wr \cup f[i].wr = W[i]
                                        /\ d[i].rd \cup e[i].rd \cup f[i].rd = R[i]
                                        /\ d[i].add \cup e[i].add \cup f[i].add = A[i],
           Own(W, E, dim, rows, lanes), Own(R, E, dim, rows, lanes),
           Shares(W, out), Shares(A, sums)
    PROVE  KernelRight(k)
<1>1. /\ Items(k) = DOMAIN d /\ k.out = out /\ k.sums = sums
      /\ \A i : /\ Wrote(k, i) = d[i].wr \cup e[i].wr \cup f[i].wr
                /\ Touched(k, i) = d[i].wr \cup e[i].wr \cup f[i].wr
                                     \cup d[i].rd \cup e[i].rd \cup f[i].rd
                /\ Added(k, i) = d[i].add \cup e[i].add \cup f[i].add
  BY ThreePhases
<1>2. ASSUME NEW i \in Grid(rows, lanes)
      PROVE  Wrote(k, i) = W[i] /\ Touched(k, i) = W[i] \cup R[i] /\ Added(k, i) = A[i]
  <2>1. /\ Wrote(k, i) = d[i].wr \cup e[i].wr \cup f[i].wr
        /\ Touched(k, i) = (d[i].wr \cup e[i].wr \cup f[i].wr) \cup (d[i].rd \cup e[i].rd \cup f[i].rd)
        /\ Added(k, i) = d[i].add \cup e[i].add \cup f[i].add
    BY <1>1
  <2> QED
    BY <2>1
<1>3. Keeps(k, E, dim, rows, lanes)
  BY <1>2 DEF Keeps, Own
<1> QED
  BY <1>1, <1>2, <1>3, RowsRight

LEMMA MineDomain ==
    ASSUME NEW b, NEW E, NEW d, NEW rows, NEW lanes
    PROVE  DOMAIN Mine(b, E, d, rows, lanes) = Grid(rows, lanes)
  BY DEF Mine

\* Both of two buffers are written, or both totals added to.
LEMMA MineSharesTwo ==
    ASSUME NEW a, NEW b, NEW E, NEW d \in Nat \ {0}, NEW rows \in Nat, NEW lanes, NEW U,
           Laned(E, d, lanes), a # b, DOMAIN U = Grid(rows, lanes),
           \A i \in Grid(rows, lanes) :
              U[i] = Mine(a, E, d, rows, lanes)[i] \cup Mine(b, E, d, rows, lanes)[i]
    PROVE  Shares(U, At(a, 0, Upto(rows * d)) \cup At(b, 0, Upto(rows * d)))
<1> DEFINE V == Mine(a, E, d, rows, lanes)
           W == Mine(b, E, d, rows, lanes)
           X == At(a, 0, Upto(rows * d))
           Y == At(b, 0, Upto(rows * d))
<1>1. Shares(V, X) /\ Shares(W, Y)
  BY MineShares
<1>2. DOMAIN V = DOMAIN U /\ DOMAIN W = DOMAIN U
  BY MineDomain
<1>3. X \cap Y = {}
  BY CellOfBuffer
<1>4. \A i \in DOMAIN U : U[i] = V[i] \cup W[i]
  OBVIOUS
<1> HIDE DEF V, W, X, Y
<1>5. Shares(U, X \cup Y)
  BY <1>1, <1>2, <1>3, <1>4, SharesTwo
<1> QED
  BY <1>5 DEF X, Y

LEMMA OneRight ==
    ASSUME NEW k, NEW d, NEW out, NEW sums, NEW W, NEW A,
           k = Kernel(<<d>>, out, sums), DOMAIN W = DOMAIN d, DOMAIN A = DOMAIN d,
           \A i \in DOMAIN d : /\ d[i].wr = W[i] /\ d[i].add = A[i]
                               /\ \A c \in d[i].rd \cup W[i] : IsGlobal(c),
           \A i, j \in DOMAIN d : \A c : c \in W[i] /\ c \in d[j].rd => i = j,
           Shares(W, out), Shares(A, sums)
    PROVE  KernelRight(k)
<1> DEFINE T == [i \in DOMAIN d |-> d[i].rd \cup W[i]]
<1>1. /\ Items(k) = DOMAIN d /\ k.out = out /\ k.sums = sums
      /\ \A i : /\ Wrote(k, i) = d[i].wr /\ Touched(k, i) = d[i].wr \cup d[i].rd
                /\ Added(k, i) = d[i].add
  BY OnePhase
<1>2. \A i \in DOMAIN d : T[i] = d[i].rd \cup W[i]
  OBVIOUS
<1> HIDE DEF T
<1>3. ASSUME NEW i \in DOMAIN d
      PROVE  Wrote(k, i) = W[i] /\ Touched(k, i) \subseteq T[i] /\ Added(k, i) = A[i]
  <2>1. /\ Wrote(k, i) = d[i].wr /\ Touched(k, i) = d[i].wr \cup d[i].rd /\ Added(k, i) = d[i].add
    BY <1>1
  <2> QED
    BY <1>2, <2>1
<1>4. \A i, j \in DOMAIN d : \A c : c \in W[i] /\ c \in T[j] => i = j
  BY <1>2 DEF Shares
<1>5. \A i \in DOMAIN d : \A c \in T[i] : IsGlobal(c)
  BY <1>2
<1>6. /\ DOMAIN W = Items(k) /\ DOMAIN A = Items(k)
      /\ Shares(W, k.out) /\ Shares(A, k.sums)
  BY <1>1
<1>7. \A i \in Items(k) : /\ Wrote(k, i) = W[i] /\ Touched(k, i) \subseteq T[i] /\ Added(k, i) = A[i]
                          /\ \A c \in T[i] : IsGlobal(c)
  BY <1>1, <1>3, <1>5
<1>8. \A i, j \in Items(k) : \A c : c \in W[i] /\ c \in T[j] => i = j
  BY <1>1, <1>4
<1>9. OwnedApart(k, W, T, A)
  BY <1>6, <1>7, <1>8 DEF OwnedApart
<1> QED
  BY <1>9, OwnersRight

\* A map adds to no total.
LEMMA MapRight ==
    ASSUME NEW k, NEW d, NEW out, NEW W,
           k = Kernel(<<d>>, out, {}), DOMAIN W = DOMAIN d,
           \A i \in DOMAIN d : /\ d[i].wr = W[i] /\ d[i].add = {}
                               /\ \A c \in d[i].rd \cup W[i] : IsGlobal(c),
           \A i, j \in DOMAIN d : \A c : c \in W[i] /\ c \in d[j].rd => i = j,
           Shares(W, out)
    PROVE  KernelRight(k)
<1> DEFINE A == [i \in DOMAIN d |-> {}]
           none == {}
<1>1. Shares(A, none)
  BY DEF Shares
<1>2. DOMAIN A = DOMAIN d /\ k = Kernel(<<d>>, out, none) /\ \A i \in DOMAIN d : d[i].add = A[i]
  OBVIOUS
<1> HIDE DEF A, none
<1> QED
  BY <1>1, <1>2, OneRight

LEMMA FlatItems ==
    ASSUME NEW n, NEW i \in Flat(n)
    PROVE  i[1] \in Upto(n) /\ i[1] \in Nat /\ i = <<i[1], 0>>
<1>1. i[1] \in Upto(n) /\ i[2] \in Upto(1) /\ i = <<i[1], i[2]>> /\ i[1] \in Nat
  BY GridItems DEF Flat
<1>2. i[2] = 0
  BY <1>1 DEF Upto
<1> QED
  BY <1>1, <1>2

LEMMA ItemOf ==
    ASSUME NEW n, NEW v \in Upto(n)
    PROVE  <<v, 0>> \in Flat(n) /\ <<v, 0>>[1] = v
  BY DEF Flat, Grid, Upto

\* An item per element.
LEMMA ElementShares ==
    ASSUME NEW b, NEW n \in Nat, NEW W, W = [i \in Flat(n) |-> {<<b, i[1]>>}]
    PROVE  Shares(W, At(b, 0, Upto(n)))
<1>1. \A i \in Flat(n) : \A c : c \in W[i] <=> c = <<b, i[1]>>
  OBVIOUS
<1>2. ASSUME NEW i \in Flat(n)
      PROVE  W[i] \subseteq At(b, 0, Upto(n))
  <2> SUFFICES ASSUME NEW c \in W[i] PROVE c \in At(b, 0, Upto(n))
    OBVIOUS
  <2>1. c = <<b, i[1]>> /\ i[1] \in Nat /\ i[1] < n
    BY <1>1, FlatItems DEF Upto
  <2> QED
    BY <2>1, InArray DEF CellOf
<1>3. ASSUME NEW c \in At(b, 0, Upto(n))
      PROVE  \E i \in Flat(n) : c \in W[i]
  <2>1. c = <<b, c[2]>> /\ c[2] \in Upto(n)
    BY InArray DEF CellOf, Upto
  <2> QED
    BY <1>1, <2>1, ItemOf, ZenonT(40)
<1>4. ASSUME NEW i \in Flat(n), NEW j \in Flat(n), NEW c, c \in W[i], c \in W[j]
      PROVE  i = j
  <2>1. <<b, i[1]>> = <<b, j[1]>>
    BY <1>1, <1>4
  <2>2. i = <<i[1], 0>> /\ j = <<j[1], 0>>
    BY FlatItems
  <2> QED
    BY <2>1, <2>2
<1> QED
  BY <1>2, <1>3, <1>4 DEF Shares

\* An item per row of w elements.
LEMMA RowEachShares ==
    ASSUME NEW b, NEW n \in Nat, NEW w \in Nat \ {0}, NEW W,
           W = [i \in Flat(n) |-> At(b, i[1] * w, Upto(w))]
    PROVE  Shares(W, At(b, 0, Upto(n * w)))
<1> DEFINE E == [l \in Upto(1) |-> Upto(w)]
<1>1. Shares(E, Upto(w)) /\ DOMAIN E = Upto(1)
  BY DEF Shares, Upto
<1>2. DOMAIN W = Grid(n, 1)
  BY DEF Flat
<1>3. ASSUME NEW i \in Grid(n, 1)
      PROVE  W[i] = At(b, i[1] * w, E[i[2]])
  <2>1. i[2] \in Upto(1)
    BY GridItems
  <2> QED
    BY <2>1 DEF Flat
<1> HIDE DEF E
<1> QED
  BY <1>1, <1>2, <1>3, RowShares

-----------------------------------------------------------------------------
(* Rows at slots                                                            *)

LEMMA QuotientTwice ==
    ASSUME NEW a \in Nat, NEW m \in Nat \ {0}, NEW n \in Nat \ {0}
    PROVE  a \div (m * n) = (a \div n) \div m /\ m * n \in Nat \ {0}
<1>1. PICK q \in Nat : q = a \div n
  BY DivisionOf
<1>2. PICK r \in Nat : r = a % n /\ r < n
  BY DivisionOf DEF Upto
<1>3. PICK u \in Nat : u = q \div m
  BY DivisionOf
<1>4. PICK v \in Nat : v = q % m /\ v < m
  BY DivisionOf DEF Upto
<1>5. a = q * n + r
  BY <1>1, <1>2, DivisionOf
<1>6. q = u * m + v
  BY <1>3, <1>4, DivisionOf
<1>7. PICK w \in Nat \ {0} : w = m * n
  BY SMT
<1>8. a = u * w + (v * n + r)
  <2>1. (u * m + v) * n = u * (m * n) + v * n
    BY SMT
  <2>2. q * n = u * w + v * n
    BY <1>6, <1>7, <2>1
  <2>3. q * n \in Nat /\ u * w \in Nat /\ v * n \in Nat
    BY ProductNat
  <2> QED
    BY <1>5, <2>2, <2>3
<1>9. v * n + r \in Upto(w)
  <2>1. (v + 1) * n <= m * n
    BY <1>4, ProductMono
  <2>2. (v + 1) * n = v * n + n
    BY SMT
  <2>3. v * n \in Nat
    BY ProductNat
  <2> QED
    BY <1>2, <1>7, <2>1, <2>2, <2>3 DEF Upto
<1>10. PICK s \in Upto(w) : s = v * n + r
  BY <1>9
<1>11. a = u * w + s
  BY <1>8, <1>10
<1>12. (u * w + s) \div w = u
  BY DivisionUnique
<1> QED
  BY <1>1, <1>3, <1>7, <1>11, <1>12

\* No two live entries name the same row.
Distinct(index) == \A r, s \in DOMAIN index : index[r] >= 0 /\ index[r] = index[s] => r = s

\* Rows of heads parts each, of w cells: where part h of row s is.
PartCells(b, s, heads, h, w) == At(b, (s * heads + h) * w, Upto(w))

RowCells(b, s, heads, w) == At(b, s * heads * w, Upto(heads * w))

LEMMA PartOfRow ==
    ASSUME NEW b, NEW s \in Nat, NEW heads \in Nat \ {0}, NEW h \in Upto(heads),
           NEW w \in Nat \ {0}, NEW c
    PROVE  c \in PartCells(b, s, heads, h, w) <=>
             CellOf(b, c) /\ (c[2] \div w) \div heads = s /\ (c[2] \div w) % heads = h
<1>1. PICK r \in Nat : r = s * heads + h /\ r \div heads = s /\ r % heads = h
  BY DivisionUnique
<1>2. c \in At(b, r * w, Upto(w)) <=> CellOf(b, c) /\ c[2] \div w = r
  BY InWholeRow
<1>3. ASSUME NEW x \in Nat
      PROVE  x \div w = r <=> (x \div w) \div heads = s /\ (x \div w) % heads = h
  <2>1. PICK q \in Nat : q = x \div w
    BY DivisionOf
  <2>2. q = (q \div heads) * heads + (q % heads)
    BY DivisionOf
  <2> QED
    BY <1>1, <2>1, <2>2
<1> QED
  BY <1>1, <1>2, <1>3 DEF CellOf, PartCells

LEMMA WholeOfRow ==
    ASSUME NEW b, NEW s \in Nat, NEW heads \in Nat \ {0}, NEW w \in Nat \ {0}, NEW c
    PROVE  c \in RowCells(b, s, heads, w) <=> CellOf(b, c) /\ (c[2] \div w) \div heads = s
<1>1. PICK m \in Nat \ {0} : m = heads * w
  BY SMT
<1>2. c \in At(b, s * m, Upto(m)) <=> CellOf(b, c) /\ c[2] \div m = s
  BY InWholeRow
<1>3. s * heads * w = s * m
  <2>1. s * heads * w = s * (heads * w)
    BY SMT
  <2> QED
    BY <1>1, <2>1
<1>4. CellOf(b, c) => c[2] \div m = (c[2] \div w) \div heads
  BY <1>1, QuotientTwice DEF CellOf
<1> QED
  BY <1>1, <1>2, <1>3, <1>4 DEF RowCells

\* What an item of a batch of slots owns of buffer b: its head's part of its slot.
SlotPart(slots, heads, w, b) ==
    [i \in Flat(Len(slots) * heads) |->
       IF slots[i[1] \div heads + 1] < 0 THEN {}
       ELSE PartCells(b, slots[i[1] \div heads + 1], heads, i[1] % heads, w)]

SlotRows(slots, heads, w, b) ==
    UNION {RowCells(b, s, heads, w) : s \in {s \in {slots[t] : t \in DOMAIN slots} : s >= 0}}

LEMMA SlotItem ==
    ASSUME NEW slots \in Seq(Int), NEW heads \in Nat \ {0}, NEW i \in Flat(Len(slots) * heads)
    PROVE  /\ i[1] \in Nat /\ i[1] % heads \in Upto(heads) /\ i[1] \div heads \in Nat
           /\ i[1] \div heads + 1 \in DOMAIN slots /\ i = <<i[1], 0>>
           /\ i[1] = (i[1] \div heads) * heads + (i[1] % heads)
<1>1. i[1] \in Nat /\ i[1] \in Upto(Len(slots) * heads) /\ i = <<i[1], 0>>
  BY FlatItems
<1>2. Len(slots) \in Nat /\ Len(slots) * heads \in Nat
  BY ProductNat
<1>3. i[1] < Len(slots) * heads
  BY <1>1, <1>2 DEF Upto
<1>4. PICK v \in Nat : v = i[1]
  BY <1>1
<1>5. v \div heads \in Nat /\ v % heads \in Upto(heads) /\ v = (v \div heads) * heads + (v % heads)
  BY DivisionOf
<1>6. v \div heads < Len(slots)
  BY <1>2, <1>3, <1>4, QuotientBelow
<1>7. v \div heads + 1 \in 1..Len(slots)
  BY <1>2, <1>5, <1>6
<1> QED
  BY <1>1, <1>4, <1>5, <1>7

LEMMA SlotShares ==
    ASSUME NEW slots \in Seq(Int), NEW heads \in Nat \ {0}, NEW w \in Nat \ {0}, NEW b, Distinct(slots)
    PROVE  Shares(SlotPart(slots, heads, w, b), SlotRows(slots, heads, w, b))
<1> DEFINE n == Len(slots) * heads
           slot(i) == slots[i[1] \div heads + 1]
           W == SlotPart(slots, heads, w, b)
           out == SlotRows(slots, heads, w, b)
<1>1. DOMAIN W = Flat(n) /\ \A i \in Flat(n) :
         W[i] = IF slot(i) < 0 THEN {} ELSE PartCells(b, slot(i), heads, i[1] % heads, w)
  BY DEF SlotPart
<1>2. ASSUME NEW i \in Flat(n), NEW c
      PROVE  c \in W[i] <=> /\ slot(i) >= 0 /\ CellOf(b, c)
                            /\ (c[2] \div w) \div heads = slot(i) /\ (c[2] \div w) % heads = i[1] % heads
  <2>1. slot(i) \in Int /\ i[1] % heads \in Upto(heads)
    BY SlotItem
  <2>2. CASE slot(i) >= 0
    <3>1. PICK s \in Nat : s = slot(i)
      BY <2>1, <2>2
    <3>2. PICK h \in Upto(heads) : h = i[1] % heads
      BY <2>1
    <3>3. c \in PartCells(b, s, heads, h, w) <=>
            CellOf(b, c) /\ (c[2] \div w) \div heads = s /\ (c[2] \div w) % heads = h
      BY PartOfRow
    <3>4. W[i] = PartCells(b, s, heads, h, w)
      BY <1>1, <2>1, <2>2, <3>1, <3>2
    <3> QED
      BY <2>2, <3>1, <3>2, <3>3, <3>4
  <2>3. CASE slot(i) < 0
    BY <1>1, <2>1, <2>3
  <2> QED
    BY <2>1, <2>2, <2>3
<1>3. ASSUME NEW c
      PROVE  c \in out <=> /\ CellOf(b, c)
                           /\ \E t \in DOMAIN slots : slots[t] >= 0 /\ (c[2] \div w) \div heads = slots[t]
  <2>1. c \in out <=> \E t \in DOMAIN slots : slots[t] >= 0 /\ c \in RowCells(b, slots[t], heads, w)
    BY DEF SlotRows
  <2>2. ASSUME NEW t \in DOMAIN slots, slots[t] >= 0
        PROVE  c \in RowCells(b, slots[t], heads, w) <=>
                 CellOf(b, c) /\ (c[2] \div w) \div heads = slots[t]
    <3>1. PICK s \in Nat : s = slots[t]
      BY <2>2
    <3>3. c \in RowCells(b, s, heads, w) <=> CellOf(b, c) /\ (c[2] \div w) \div heads = s
      BY WholeOfRow
    <3> QED
      BY <3>1, <3>3
  <2> QED
    BY <2>1, <2>2
<1> HIDE DEF W, out
<1>4. ASSUME NEW i \in Flat(n)
      PROVE  W[i] \subseteq out
  <2>1. i[1] \div heads + 1 \in DOMAIN slots
    BY SlotItem
  <2> QED
    BY <1>2, <1>3, <2>1
<1>5. ASSUME NEW c \in out
      PROVE  \E i \in Flat(n) : c \in W[i]
  <2>1. PICK t \in DOMAIN slots : slots[t] >= 0 /\ (c[2] \div w) \div heads = slots[t]
    BY <1>3
  <2>2. CellOf(b, c) /\ c[2] \in Nat
    BY <1>3 DEF CellOf
  <2>3. PICK x \in Nat : x = c[2]
    BY <2>2
  <2>4. PICK q \in Nat : q = x \div w
    BY DivisionOf
  <2>5. PICK h \in Upto(heads) : h = q % heads
    BY DivisionOf
  <2>6. PICK g \in Nat : g + 1 = t /\ g < Len(slots)
    <3>1. t \in 1..Len(slots) /\ Len(slots) \in Nat
      OBVIOUS
    <3>2. t - 1 \in Nat /\ (t - 1) + 1 = t /\ t - 1 < Len(slots)
      BY <3>1
    <3> QED
      BY <3>2
  <2>7. PICK v \in Nat : v = g * heads + h /\ v \div heads = g /\ v % heads = h
    BY DivisionUnique
  <2>8. Len(slots) \in Nat /\ n \in Nat
    BY ProductNat
  <2>9. v < Len(slots) * heads
    BY <2>6, <2>7, <2>8, QuotientBelow
  <2>10. <<v, 0>> \in Flat(n) /\ <<v, 0>>[1] = v
    <3>1. v \in Upto(n)
      BY <2>8, <2>9 DEF Upto
    <3> HIDE DEF n
    <3> QED
      BY <3>1, ItemOf
  <2>11. slot(<<v, 0>>) = slots[t] /\ v % heads = (c[2] \div w) % heads
    <3>1. v \div heads + 1 = t
      BY <2>6, <2>7
    <3>2. v % heads = (c[2] \div w) % heads
      BY <2>3, <2>4, <2>5, <2>7
    <3> QED
      BY <2>10, <3>1, <3>2
  <2>12. c \in W[<<v, 0>>]
    BY <1>2, <2>1, <2>2, <2>10, <2>11
  <2> QED
    BY <2>10, <2>12
<1>6. ASSUME NEW i \in Flat(n), NEW j \in Flat(n), NEW c, c \in W[i], c \in W[j]
      PROVE  i = j
  <2>1. slot(i) >= 0 /\ slot(i) = slot(j) /\ i[1] % heads = j[1] % heads
    BY <1>2, <1>6
  <2>2. /\ i[1] \div heads \in Nat /\ i[1] \div heads + 1 \in DOMAIN slots /\ i = <<i[1], 0>>
        /\ i[1] = (i[1] \div heads) * heads + (i[1] % heads)
    BY SlotItem
  <2>3. /\ j[1] \div heads \in Nat /\ j[1] \div heads + 1 \in DOMAIN slots /\ j = <<j[1], 0>>
        /\ j[1] = (j[1] \div heads) * heads + (j[1] % heads)
    BY SlotItem
  <2>4. i[1] \div heads + 1 = j[1] \div heads + 1
    BY <2>1, <2>2, <2>3 DEF Distinct
  <2>5. i[1] \div heads = j[1] \div heads
    BY <2>2, <2>3, <2>4
  <2> QED
    BY <2>1, <2>2, <2>3, <2>5
<1>7. Shares(W, out)
  BY <1>1, <1>4, <1>5, <1>6 DEF Shares
<1> QED
  BY <1>7 DEF W, out

LEMMA PartCell ==
    ASSUME NEW slots, NEW heads, NEW w, NEW b, NEW i \in Flat(Len(slots) * heads),
           NEW c \in SlotPart(slots, heads, w, b)[i]
    PROVE  IsGlobal(c) /\ c[1] = b
<1>1. c \in PartCells(b, slots[i[1] \div heads + 1], heads, i[1] % heads, w)
  BY DEF SlotPart
<1> QED
  BY <1>1, CellOfBuffer DEF PartCells

-----------------------------------------------------------------------------
(* Tiles of an output                                                       *)

LEMMA CeilAbove ==
    ASSUME NEW n \in Nat, NEW d \in Nat \ {0}
    PROVE  /\ CeilDivide(n, d) \in Nat
           /\ \A a \in Nat : a < n => a \div d < CeilDivide(n, d)
           /\ n > 0 => CeilDivide(n, d) > 0
<1>1. PICK m \in Nat : m = n + d - 1
  OBVIOUS
<1>2. CeilDivide(n, d) = m \div d /\ m \div d \in Nat
  BY <1>1, DivisionOf DEF CeilDivide
<1>3. ASSUME NEW a \in Nat, a < n
      PROVE  a \div d < CeilDivide(n, d)
  <2>1. PICK q \in Nat : q = a \div d
    BY DivisionOf
  <2>2. PICK r \in Nat : r = a % d
    BY DivisionOf DEF Upto
  <2>3. a = q * d + r /\ q * d \in Nat
    BY <2>1, <2>2, DivisionOf, ProductNat
  <2>4. (q + 1) * d = q * d + d /\ q + 1 \in Nat
    BY SMT
  <2>5. (q + 1) * d <= m
    BY <1>1, <1>3, <2>3, <2>4
  <2>6. m \div d < q + 1 <=> m < (q + 1) * d
    BY <2>4, QuotientBelow
  <2>7. (q + 1) * d \in Nat
    BY <2>4, ProductNat
  <2>8. ~(m \div d < q + 1)
    BY <2>5, <2>6, <2>7
  <2> QED
    BY <1>2, <2>1, <2>8
<1>4. ASSUME n > 0
      PROVE  CeilDivide(n, d) > 0
  <2>1. 0 \div d < CeilDivide(n, d) /\ 0 \div d \in Nat
    BY <1>3, <1>4, DivisionOf
  <2> QED
    BY <1>2, <2>1
<1> QED
  BY <1>2, <1>3, <1>4

\* Terms t below n are those of the ceiling's tiles.
LEMMA TileTerms ==
    ASSUME NEW n \in Nat, NEW d \in Nat \ {0}, NEW k
    PROVE  k \in Upto(n) <=> \E t \in 1..CeilDivide(n, d) : k \in ((t - 1) * d)..(t * d - 1) /\ k < n
<1>1. ASSUME k \in Upto(n)
      PROVE  \E t \in 1..CeilDivide(n, d) : k \in ((t - 1) * d)..(t * d - 1) /\ k < n
  <2>1. k \in Nat /\ k < n
    BY <1>1 DEF Upto
  <2>2. PICK q \in Nat : q = k \div d /\ q < CeilDivide(n, d)
    BY <2>1, CeilAbove, DivisionOf
  <2>3. PICK r \in Nat : r = k % d /\ r < d
    BY <2>1, DivisionOf DEF Upto
  <2>4. k = q * d + r /\ q * d \in Nat
    BY <2>1, <2>2, <2>3, DivisionOf, ProductNat
  <2>5. (q + 1) * d = q * d + d
    BY SMT
  <2>6. PICK t \in 1..CeilDivide(n, d) : t = q + 1 /\ t - 1 = q
    <3>1. PICK m \in Nat : m = CeilDivide(n, d)
      BY CeilAbove
    <3>2. q + 1 \in 1..m
      BY <2>2, <3>1
    <3> QED
      BY <3>1, <3>2
  <2>7. (t - 1) * d = q * d /\ t * d = q * d + d
    BY <2>5, <2>6
  <2>8. k \in ((t - 1) * d)..(t * d - 1)
    BY <2>1, <2>3, <2>4, <2>7
  <2> QED
    BY <2>1, <2>6, <2>8
<1>2. ASSUME NEW t \in 1..CeilDivide(n, d), k \in ((t - 1) * d)..(t * d - 1), k < n
      PROVE  k \in Upto(n)
  <2>1. PICK q \in Nat : q = t - 1
    BY CeilAbove
  <2>2. q * d \in Nat
    BY ProductNat
  <2> QED
    BY <1>2, <2>1, <2>2 DEF Upto
<1> QED
  BY <1>1, <1>2

LEMMA LocalCell == ASSUME NEW b, NEW x, NEW g PROVE ~IsGlobal(<<b, x, g>>)
  BY DEF IsGlobal

\* The element of a tiled output an item computes.
OutRow(i, cols, T) == (i[1] \div cols) * T + i[2] \div T

OutCol(i, cols, T) == (i[1] % cols) * T + (i[2] % T)

LEMMA TileSquare == ASSUME NEW T \in Nat \ {0} PROVE T * T \in Nat \ {0}
  BY SMT

\* Where item l of group g sits in the tile, and the tile in the output.
LEMMA TileCoordinates ==
    ASSUME NEW cols \in Nat \ {0}, NEW T \in Nat \ {0}, NEW n, NEW i \in Grid(n, T * T)
    PROVE  /\ OutRow(i, cols, T) \in Nat /\ OutCol(i, cols, T) \in Nat
           /\ OutRow(i, cols, T) \div T = i[1] \div cols /\ OutRow(i, cols, T) % T = i[2] \div T
           /\ OutCol(i, cols, T) \div T = i[1] % cols /\ OutCol(i, cols, T) % T = i[2] % T
           /\ i[1] = (i[1] \div cols) * cols + (i[1] % cols)
           /\ i[2] = (i[2] \div T) * T + (i[2] % T)
           /\ i = <<i[1], i[2]>>
<1>1. i[1] \in Nat /\ i[2] \in Upto(T * T) /\ i = <<i[1], i[2]>>
  BY GridItems
<1>2. PICK g \in Nat : g = i[1]
  BY <1>1
<1>3. PICK l \in Nat : l = i[2] /\ l < T * T
  BY <1>1, TileSquare DEF Upto
<1>4. l \div T < T
  BY <1>3, QuotientBelow
<1>5. PICK a \in Upto(T) : a = l \div T
  <2>1. PICK z \in Nat : z = l \div T
    BY DivisionOf
  <2> QED
    BY <1>4, <2>1 DEF Upto
<1>6. PICK b \in Upto(T) : b = l % T
  BY DivisionOf
<1>7. PICK u \in Nat : u = g \div cols
  BY DivisionOf
<1>8. PICK v \in Nat : v = g % cols
  <2>1. PICK z \in Upto(cols) : z = g % cols
    BY DivisionOf
  <2> QED
    BY <2>1 DEF Upto
<1>9. (u * T + a) \div T = u /\ (u * T + a) % T = a /\ u * T + a \in Nat
  BY DivisionUnique
<1>10. (v * T + b) \div T = v /\ (v * T + b) % T = b /\ v * T + b \in Nat
  BY DivisionUnique
<1>11. g = (g \div cols) * cols + (g % cols)
  BY DivisionOf
<1>12. l = (l \div T) * T + (l % T)
  BY DivisionOf
<1>13. OutRow(i, cols, T) = u * T + a /\ OutCol(i, cols, T) = v * T + b
  BY <1>2, <1>3, <1>5, <1>6, <1>7, <1>8 DEF OutRow, OutCol
<1> QED
  BY <1>1, <1>2, <1>3, <1>5, <1>6, <1>7, <1>8, <1>9, <1>10, <1>11, <1>12, <1>13

\* Every element of an M x N output is computed by one item.
ComputedBy(i, r, c, cols, T) == OutRow(i, cols, T) = r /\ OutCol(i, cols, T) = c

LEMMA TileApart ==
    ASSUME NEW cols \in Nat \ {0}, NEW T \in Nat \ {0}, NEW n, NEW i \in Grid(n, T * T),
           NEW j \in Grid(n, T * T), NEW r, NEW c,
           ComputedBy(i, r, c, cols, T), ComputedBy(j, r, c, cols, T)
    PROVE  i = j
<1>1. /\ r \div T = i[1] \div cols /\ r % T = i[2] \div T
      /\ c \div T = i[1] % cols /\ c % T = i[2] % T
      /\ i[1] = (i[1] \div cols) * cols + (i[1] % cols)
      /\ i[2] = (i[2] \div T) * T + (i[2] % T)
      /\ i = <<i[1], i[2]>>
  BY TileCoordinates DEF ComputedBy
<1>2. /\ r \div T = j[1] \div cols /\ r % T = j[2] \div T
      /\ c \div T = j[1] % cols /\ c % T = j[2] % T
      /\ j[1] = (j[1] \div cols) * cols + (j[1] % cols)
      /\ j[2] = (j[2] \div T) * T + (j[2] % T)
      /\ j = <<j[1], j[2]>>
  BY TileCoordinates DEF ComputedBy
<1>3. i[1] = j[1] /\ i[2] = j[2]
  BY <1>1, <1>2
<1> QED
  BY <1>1, <1>2, <1>3

LEMMA TileCovers ==
    ASSUME NEW T \in Nat \ {0}, NEW M \in Nat, NEW N \in Nat, NEW cols, NEW rows,
           cols = CeilDivide(N, T), rows = CeilDivide(M, T),
           NEW r \in Upto(M), NEW c \in Upto(N)
    PROVE  \E i \in Grid(rows * cols, T * T) : ComputedBy(i, r, c, cols, T)
<1>1. r \in Nat /\ r < M /\ c \in Nat /\ c < N
  BY DEF Upto
<1>2. cols \in Nat \ {0} /\ rows \in Nat
  BY <1>1, CeilAbove
<1>3. PICK u \in Nat : u = r \div T /\ u < rows
  BY <1>1, CeilAbove, DivisionOf
<1>4. PICK v \in Upto(cols) : v = c \div T
  <2>1. c \div T \in Nat /\ c \div T < cols
    BY <1>1, CeilAbove, DivisionOf
  <2> QED
    BY <1>2, <2>1 DEF Upto
<1>5. PICK a \in Nat : a = r % T /\ a < T
  <2>1. PICK z \in Upto(T) : z = r % T
    BY <1>1, DivisionOf
  <2> QED
    BY <2>1 DEF Upto
<1>6. PICK b \in Upto(T) : b = c % T
  BY <1>1, DivisionOf
<1>7. PICK g \in Nat : g = u * cols + v /\ g \div cols = u /\ g % cols = v
  BY <1>2, DivisionUnique
<1>8. PICK l \in Nat : l = a * T + b /\ l \div T = a /\ l % T = b
  BY DivisionUnique
<1>9. g < rows * cols /\ rows * cols \in Nat
  BY <1>2, <1>3, <1>7, QuotientBelow, ProductNat
<1>10. l < T * T /\ T * T \in Nat
  BY <1>5, <1>8, QuotientBelow, TileSquare
<1>11. <<g, l>> \in Grid(rows * cols, T * T)
  BY <1>9, <1>10 DEF Grid, Upto
<1>12. r = u * T + a
  BY <1>1, <1>3, <1>5, DivisionOf
<1>13. c = v * T + b
  BY <1>1, <1>4, <1>6, DivisionOf
<1>14. ComputedBy(<<g, l>>, r, c, cols, T)
  BY <1>7, <1>8, <1>12, <1>13 DEF ComputedBy, OutRow, OutCol
<1> QED
  BY <1>11, <1>14

LEMMA Append1 ==
    ASSUME NEW n \in Nat, NEW f, NEW d, f = [p \in 1..n |-> f[p]]
    PROVE  /\ DOMAIN (f \o <<d>>) = 1..(n + 1)
           /\ \A p \in 1..n : (f \o <<d>>)[p] = f[p]
           /\ (f \o <<d>>)[n + 1] = d
<1> DEFINE s == f \o <<d>>
           X == {f[p] : p \in 1..n} \cup {d}
<1>1. f \in Seq(X) /\ Len(f) = n
  OBVIOUS
<1>2. <<d>> \in Seq(X) /\ Len(<<d>>) = 1 /\ <<d>>[1] = d
  OBVIOUS
<1> HIDE DEF X
<1>3. Len(s) = n + 1 /\ s \in Seq(X)
  BY <1>1, <1>2
<1> QED
  BY <1>1, <1>2, <1>3

LEMMA LengthOf ==
    ASSUME NEW n \in Nat, NEW f, f = [p \in 1..n |-> f[p]]
    PROVE  Len(f) = n
<1>1. f \in Seq({f[p] : p \in 1..n})
  OBVIOUS
<1> QED
  BY <1>1

\* Which phase stages or multiplies tile t.
Staging(ph, T, S, D, put) ==
    /\ DOMAIN ph = 1..(2 * T + 1)
    /\ \A t \in 1..T : ph[2 * t - 1] = S[t] /\ ph[2 * t] = D[t]
    /\ ph[2 * T + 1] = put
    /\ \A p \in DOMAIN ph : \/ \E t \in 1..T : p = 2 * t - 1
                            \/ \E t \in 1..T : p = 2 * t
                            \/ p = 2 * T + 1

\* What an item does in its three kinds of phase: it stages its cells L, reads
\* the tile R while adding Q[t] for tile t, and puts its output O.
Tiled(k, T, S, D, put, L, R, Q, O) ==
    /\ Staging(k.phases, T, S, D, put)
    /\ \A i \in Items(k) : /\ put[i].rd = {} /\ put[i].wr = O[i] /\ put[i].add = {}
                           /\ \A t \in 1..T : /\ S[t][i].rd = {} /\ S[t][i].wr = L[i] /\ S[t][i].add = {}
                                              /\ D[t][i].rd = R[i] /\ D[t][i].wr = {}
                                              /\ D[t][i].add = Q[i][t]

LEMMA TiledParts ==
    ASSUME NEW k, NEW T \in Nat \ {0}, NEW S, NEW D, NEW put, NEW L, NEW R, NEW Q, NEW O,
           Tiled(k, T, S, D, put, L, R, Q, O), NEW i \in Items(k)
    PROVE  /\ Wrote(k, i) = L[i] \cup O[i] /\ Touched(k, i) = L[i] \cup O[i] \cup R[i]
           /\ \A z : z \in Added(k, i) <=> \E t \in 1..T : z \in Q[i][t]
<1> DEFINE ph == k.phases
<1>1. /\ put[i].rd = {} /\ put[i].wr = O[i] /\ put[i].add = {}
      /\ \A t \in 1..T : /\ S[t][i].rd = {} /\ S[t][i].wr = L[i] /\ S[t][i].add = {}
                         /\ D[t][i].rd = R[i] /\ D[t][i].wr = {}
                         /\ D[t][i].add = Q[i][t]
  BY DEF Tiled
<1>2. /\ DOMAIN ph = 1..(2 * T + 1)
      /\ \A t \in 1..T : ph[2 * t - 1] = S[t] /\ ph[2 * t] = D[t]
      /\ ph[2 * T + 1] = put
      /\ \A p \in DOMAIN ph : \/ \E t \in 1..T : p = 2 * t - 1
                              \/ \E t \in 1..T : p = 2 * t
                              \/ p = 2 * T + 1
  BY DEF Tiled, Staging
<1>3. /\ 2 * T + 1 \in DOMAIN ph /\ 1 \in 1..T
      /\ \A t \in 1..T : 2 * t - 1 \in DOMAIN ph /\ 2 * t \in DOMAIN ph
  BY <1>2
<1>4. /\ Wrote(k, i) = UNION {ph[p][i].wr : p \in DOMAIN ph}
      /\ Touched(k, i) = Wrote(k, i) \cup UNION {ph[p][i].rd : p \in DOMAIN ph}
      /\ Added(k, i) = UNION {ph[p][i].add : p \in DOMAIN ph}
  BY DEF Wrote, Touched, Added
<1> HIDE DEF ph
\* Every phase is of one of the kinds.
<1>5. ASSUME NEW p \in DOMAIN ph
      PROVE  /\ ph[p][i].wr \subseteq L[i] \cup O[i] /\ ph[p][i].rd \subseteq R[i]
             /\ \A z \in ph[p][i].add : \E t \in 1..T : z \in Q[i][t]
  <2>1. CASE \E t \in 1..T : p = 2 * t - 1
    <3>1. PICK t \in 1..T : p = 2 * t - 1
      BY <2>1
    <3>2. ph[p] = S[t]
      BY <1>2, <3>1
    <3> QED
      BY <1>1, <3>2
  <2>2. CASE \E t \in 1..T : p = 2 * t
    <3>1. PICK t \in 1..T : p = 2 * t
      BY <2>2
    <3>2. ph[p] = D[t]
      BY <1>2, <3>1
    <3> QED
      BY <1>1, <3>2
  <2>3. CASE p = 2 * T + 1
    <3>1. ph[p] = put
      BY <1>2, <2>3
    <3> QED
      BY <1>1, <3>1
  <2> QED
    BY <1>2, <2>1, <2>2, <2>3
<1>6. PICK p \in DOMAIN ph : ph[p][i].wr = L[i]
  <2>1. 2 * 1 - 1 \in DOMAIN ph /\ ph[2 * 1 - 1] = S[1]
    BY <1>2, <1>3
  <2> QED
    BY <1>1, <1>3, <2>1
<1>7. PICK p2 \in DOMAIN ph : ph[p2][i].wr = O[i]
  BY <1>1, <1>2, <1>3
<1>8. PICK p3 \in DOMAIN ph : ph[p3][i].rd = R[i]
  <2>1. 2 * 1 \in DOMAIN ph /\ ph[2 * 1] = D[1]
    BY <1>2, <1>3
  <2> QED
    BY <1>1, <1>3, <2>1
<1>9. ASSUME NEW t \in 1..T
      PROVE  \E p4 \in DOMAIN ph : ph[p4][i].add = Q[i][t]
  <2>1. 2 * t \in DOMAIN ph /\ ph[2 * t] = D[t]
    BY <1>2, <1>3
  <2> QED
    BY <1>1, <2>1
<1>10. Wrote(k, i) = L[i] \cup O[i]
  BY <1>4, <1>5, <1>6, <1>7
<1>11. UNION {ph[q][i].rd : q \in DOMAIN ph} = R[i]
  BY <1>5, <1>8
<1>12. \A z : z \in Added(k, i) <=> \E t \in 1..T : z \in Q[i][t]
  <2>1. \A z : z \in Added(k, i) <=> \E q \in DOMAIN ph : z \in ph[q][i].add
    BY <1>4
  <2> QED
    BY <1>5, <1>9, <2>1
<1> QED
  BY <1>4, <1>10, <1>11, <1>12

\* Tiles are kept in local memory: cells name the group, every cell of the tile
\* is staged by one item, and read after it is.
Staged(G, L, R, O) ==
    /\ \A i \in G : /\ \A c \in L[i] \cup R[i] : ~IsGlobal(c) /\ c[3] = i[1]
                    /\ \A c \in O[i] : IsGlobal(c)
                    /\ \A c \in R[i] : \E j \in G : j[1] = i[1] /\ c \in L[j]
    /\ \A i, j \in G : \A c : c \in L[i] /\ c \in L[j] => i = j

LEMMA TiledRight ==
    ASSUME NEW k, NEW T \in Nat \ {0}, NEW S, NEW D, NEW put, NEW L, NEW R, NEW Q, NEW O, NEW A,
           Tiled(k, T, S, D, put, L, R, Q, O), Staged(Items(k), L, R, O),
           DOMAIN O = Items(k), DOMAIN A = Items(k),
           \A i \in Items(k) : \A z : z \in A[i] <=> \E t \in 1..T : z \in Q[i][t],
           Shares(O, k.out), Shares(A, k.sums)
    PROVE  KernelRight(k)
<1> DEFINE G == Items(k)
           ph == k.phases
<1>1. ASSUME NEW i \in G
      PROVE  /\ Wrote(k, i) = L[i] \cup O[i] /\ Touched(k, i) = L[i] \cup O[i] \cup R[i]
             /\ \A z : z \in Added(k, i) <=> \E t \in 1..T : z \in Q[i][t]
  BY TiledParts
<1>2. /\ \A i \in G : /\ \A c \in L[i] \cup R[i] : ~IsGlobal(c) /\ c[3] = i[1]
                      /\ \A c \in O[i] : IsGlobal(c)
                      /\ \A c \in R[i] : \E j \in G : j[1] = i[1] /\ c \in L[j]
      /\ \A i, j \in G : \A c : c \in L[i] /\ c \in L[j] => i = j
  BY DEF Staged
<1>3. /\ \A i \in G : /\ put[i].rd = {} /\ put[i].wr = O[i]
                      /\ \A t \in 1..T : /\ S[t][i].rd = {} /\ S[t][i].wr = L[i]
                                         /\ D[t][i].rd = R[i] /\ D[t][i].wr = {}
  BY DEF Tiled
<1>4. /\ DOMAIN ph = 1..(2 * T + 1)
      /\ \A t \in 1..T : ph[2 * t - 1] = S[t] /\ ph[2 * t] = D[t]
      /\ ph[2 * T + 1] = put
      /\ \A p \in DOMAIN ph : \/ \E t \in 1..T : p = 2 * t - 1
                              \/ \E t \in 1..T : p = 2 * t
                              \/ p = 2 * T + 1
  BY DEF Tiled, Staging
<1>5. \A i, j \in G : \A c : c \in O[i] /\ c \in O[j] => i = j
  BY DEF Shares
<1> HIDE DEF G, ph
<1>6. ASSUME NEW p \in DOMAIN ph, NEW i \in G
      PROVE  \/ ph[p][i].rd = {} /\ ph[p][i].wr = L[i] /\ \A j \in G : ph[p][j].rd = {} /\ ph[p][j].wr = L[j]
             \/ ph[p][i].wr = {} /\ ph[p][i].rd = R[i] /\ p >= 2
             \/ ph[p][i].rd = {} /\ ph[p][i].wr = O[i] /\ \A j \in G : ph[p][j].rd = {} /\ ph[p][j].wr = O[j]
  <2>1. CASE \E t \in 1..T : p = 2 * t - 1
    <3>1. PICK t \in 1..T : p = 2 * t - 1
      BY <2>1
    <3>2. ph[p] = S[t]
      BY <1>4, <3>1
    <3> QED
      BY <1>3, <3>2
  <2>2. CASE \E t \in 1..T : p = 2 * t
    <3>1. PICK t \in 1..T : p = 2 * t
      BY <2>2
    <3>2. ph[p] = D[t] /\ p >= 2
      BY <1>4, <3>1
    <3> QED
      BY <1>3, <3>2
  <2>3. CASE p = 2 * T + 1
    <3>1. ph[p] = put
      BY <1>4, <2>3
    <3> QED
      BY <1>3, <3>1
  <2> QED
    BY <1>4, <2>1, <2>2, <2>3
<1>7. RaceFree(k)
  <2>1. ASSUME NEW p \in DOMAIN ph, NEW i \in G, NEW j \in G, i # j
        PROVE  ~Disturbs(ph[p][i], ph[p][j])
    <3> SUFFICES ph[p][i].wr \cap (ph[p][j].rd \cup ph[p][j].wr) = {}
      BY DEF Disturbs
    <3>1. CASE ph[p][i].wr = {}
      BY <3>1
    <3>2. CASE ph[p][i].wr = L[i] /\ ph[p][j].rd = {} /\ ph[p][j].wr = L[j]
      BY <1>2, <2>1, <3>2
    <3>3. CASE ph[p][i].wr = O[i] /\ ph[p][j].rd = {} /\ ph[p][j].wr = O[j]
      BY <1>5, <2>1, <3>3
    <3> QED
      BY <1>6, <3>1, <3>2, <3>3
  <2>2. ASSUME NEW i \in G, NEW j \in G, i[1] # j[1]
        PROVE  Wrote(k, i) \cap Touched(k, j) = {}
    <3> SUFFICES ASSUME NEW c, c \in L[i] \cup O[i], c \in L[j] \cup O[j] \cup R[j]
                 PROVE  FALSE
      BY <1>1
    <3>1. CASE c \in L[i]
      <4>1. ~IsGlobal(c) /\ c[3] = i[1]
        BY <1>2, <3>1
      <4>2. c \in L[j] \cup R[j]
        BY <1>2, <4>1
      <4>3. c[3] = j[1]
        BY <1>2, <4>2
      <4> QED
        BY <2>2, <4>1, <4>3
    <3>2. CASE c \in O[i]
      <4>1. IsGlobal(c)
        BY <1>2, <3>2
      <4>2. c \in O[j]
        BY <1>2, <4>1
      <4> QED
        BY <1>5, <2>2, <3>2, <4>2
    <3> QED
      BY <3>1, <3>2
  <2> QED
    BY <2>1, <2>2 DEF RaceFree, G, ph
<1>8. ReadsStaged(k)
  <2> SUFFICES ASSUME NEW p \in DOMAIN ph, NEW i \in G, NEW c, c \in ph[p][i].rd
               PROVE  \E j \in G : j[1] = i[1] /\ \E q \in 1..(p - 1) : c \in ph[q][j].wr
    <3>1. ASSUME NEW p \in DOMAIN ph, NEW i \in G, NEW c, c \in ph[p][i].rd
          PROVE  c \in UNION {UNION {ph[q][j].wr : q \in 1..(p - 1)} : j \in {j \in G : j[1] = i[1]}}
      <4>1. PICK j \in G : j[1] = i[1] /\ \E q \in 1..(p - 1) : c \in ph[q][j].wr
        BY <3>1
      <4>2. c \in UNION {ph[q][j].wr : q \in 1..(p - 1)}
        BY <4>1
      <4>3. j \in {l \in G : l[1] = i[1]}
        BY <4>1
      <4> QED
        BY <4>2, <4>3
    <3> QED
      BY <3>1 DEF ReadsStaged, G, ph
  <2>1. c \in R[i] /\ p >= 2
    BY <1>6
  <2>2. PICK j \in G : j[1] = i[1] /\ c \in L[j]
    BY <1>2, <2>1
  <2>3. 1 \in 1..T /\ 2 * 1 - 1 = 1
    OBVIOUS
  <2>4. ph[1] = S[1]
    BY <1>4, <2>3
  <2>5. ph[1][j].wr = L[j]
    BY <1>3, <2>3, <2>4
  <2>6. 1 \in 1..(p - 1)
    BY <1>4, <2>1
  <2> QED
    BY <2>2, <2>5, <2>6
<1>9. WritesOutput(k)
  <2>1. \A i \in G : {c \in Wrote(k, i) : IsGlobal(c)} = O[i]
    BY <1>1, <1>2
  <2>2. UNION {{c \in Wrote(k, i) : IsGlobal(c)} : i \in G} = k.out
    BY <2>1 DEF Shares, G
  <2>3. \A i, j \in G : i # j =>
           {c \in Wrote(k, i) : IsGlobal(c)} \cap {c \in Wrote(k, j) : IsGlobal(c)} = {}
    BY <1>5, <2>1
  <2> QED
    BY <2>2, <2>3 DEF WritesOutput, Partitions, G
<1>10. SumsTerms(k)
  <2>1. \A i \in G : Added(k, i) = A[i]
    BY <1>1 DEF G
  <2>2. UNION {Added(k, i) : i \in G} = k.sums
    BY <2>1 DEF Shares, G
  <2>3. \A i, j \in G : i # j => Added(k, i) \cap Added(k, j) = {}
    BY <2>1 DEF Shares, G
  <2> QED
    BY <2>2, <2>3 DEF SumsTerms, Partitions, G
<1> QED
  BY <1>7, <1>8, <1>9, <1>10 DEF KernelRight

-----------------------------------------------------------------------------
(* Cells of an output, one per lane or dot product                          *)

\* The element of an M x N output in row m.
OutCell(m, n, N) == <<"y", m * N + n>>

LEMMA OutCellApart ==
    ASSUME NEW N \in Nat, NEW a \in Nat, NEW b \in Upto(N), NEW c \in Nat, NEW d \in Upto(N),
           OutCell(a, b, N) = OutCell(c, d, N)
    PROVE  a = c /\ b = d
<1>1. a * N + b = c * N + d
  BY DEF OutCell
<1>2. N \in Nat \ {0}
  BY DEF Upto
<1>3. (a * N + b) \div N = a /\ (a * N + b) % N = b
  BY <1>2, DivisionUnique
<1>4. (c * N + d) \div N = c /\ (c * N + d) % N = d
  BY <1>2, DivisionUnique
<1> QED
  BY <1>1, <1>3, <1>4

LEMMA OutCells ==
    ASSUME NEW M \in Nat, NEW N \in Nat, NEW c
    PROVE  c \in At("y", 0, Upto(M * N)) <=> \E m \in Upto(M) : \E n \in Upto(N) : c = OutCell(m, n, N)
<1>1. M * N \in Nat
  BY ProductNat
<1>2. c \in At("y", 0, Upto(M * N)) <=> CellOf("y", c) /\ c[2] < M * N
  BY <1>1, InArray
<1>3. ASSUME NEW m \in Upto(M), NEW n \in Upto(N), c = OutCell(m, n, N)
      PROVE  CellOf("y", c) /\ c[2] < M * N
  <2>1. N \in Nat \ {0} /\ m \in Nat /\ m < M
    BY DEF Upto
  <2>2. PICK x \in Nat : x = m * N + n /\ x \div N = m
    BY <2>1, DivisionUnique
  <2>3. x < M * N
    BY <2>1, <2>2, QuotientBelow
  <2>4. c = <<"y", x>>
    BY <1>3, <2>2 DEF OutCell
  <2> QED
    BY <2>3, <2>4 DEF CellOf
<1>4. ASSUME CellOf("y", c), c[2] < M * N
      PROVE  \E m \in Upto(M) : \E n \in Upto(N) : c = OutCell(m, n, N)
  <2>1. PICK x \in Nat : x = c[2] /\ x < M * N /\ c = <<"y", x>>
    BY <1>4 DEF CellOf
  <2>2. N \in Nat \ {0}
    <3>1. CASE N = 0
      <4>1. M * N = 0
        BY <3>1
      <4> QED
        BY <2>1, <4>1
    <3> QED
      BY <3>1
  <2>3. x \div N < M
    BY <2>1, <2>2, QuotientBelow
  <2>4. PICK r \in Upto(M) : r = x \div N
    <3>1. PICK z \in Nat : z = x \div N
      BY <2>2, DivisionOf
    <3> QED
      BY <2>3, <3>1 DEF Upto
  <2>5. PICK e \in Upto(N) : e = x % N
    BY <2>2, DivisionOf
  <2>6. x = r * N + e
    BY <2>2, <2>4, <2>5, DivisionOf
  <2> QED
    BY <2>1, <2>6 DEF OutCell
<1> QED
  BY <1>2, <1>3, <1>4

\* The elements each lane has of a reduction, and their terms.
LaneTerms(E, group) == [lane \in DOMAIN E |-> {<<k, k \div group>> : k \in E[lane]}]

\* The half of a chunk an element is in is the block of its scale.
LEMMA BlockOf ==
    ASSUME NEW half \in Nat \ {0}, NEW k \in Nat
    PROVE  k \div half = 2 * (k \div (2 * half)) + (IF k % (2 * half) < half THEN 0 ELSE 1)
<1>0. 2 * half \in Nat \ {0}
  OBVIOUS
<1>1. PICK q \in Nat : q = k \div (2 * half)
  BY <1>0, DivisionOf
<1>2. PICK r \in Upto(2 * half) : r = k % (2 * half)
  BY <1>0, DivisionOf
<1>3. r \in Nat /\ r < 2 * half
  BY <1>2 DEF Upto
<1>4. k = q * (2 * half) + r
  BY <1>0, <1>1, <1>2, DivisionOf
<1>5. q * (2 * half) = (2 * q) * half
  BY SMT
<1>6. CASE r < half
  <2>1. r \in Upto(half) /\ 2 * q \in Nat
    BY <1>3, <1>6 DEF Upto
  <2>2. ((2 * q) * half + r) \div half = 2 * q
    BY <2>1, DivisionUnique
  <2>3. k \div half = 2 * q
    BY <1>4, <1>5, <2>2
  <2> QED
    BY <1>1, <1>2, <1>6, <2>3
<1>7. CASE ~(r < half)
  <2>1. PICK s \in Nat : r = half + s /\ s < half
    <3>1. r - half \in Nat /\ r = half + (r - half) /\ r - half < half
      BY <1>3, <1>7
    <3> QED
      BY <3>1
  <2>2. s \in Upto(half) /\ 2 * q + 1 \in Nat
    BY <2>1 DEF Upto
  <2>3. ((2 * q + 1) * half + s) \div half = 2 * q + 1
    BY <2>2, DivisionUnique
  <2>4. (2 * q + 1) * half = (2 * q) * half + half
    BY SMT
  <2>5. (2 * q) * half \in Nat
    BY ProductNat
  <2>6. k = (2 * q + 1) * half + s
    BY <1>4, <1>5, <2>1, <2>4, <2>5
  <2>7. k \div half = 2 * q + 1
    BY <2>3, <2>6
  <2> QED
    BY <1>1, <1>2, <1>7, <2>7
<1> QED
  BY <1>6, <1>7

\* The first element of the block of d an element is in has the element's scale,
\* when the groups are whole blocks.
LEMMA SameScale ==
    ASSUME NEW k \in Nat, NEW d \in Nat \ {0}, NEW m \in Nat \ {0}
    PROVE  ((k \div d) * d) \div (m * d) = k \div (m * d)
<1>1. PICK D \in Nat \ {0} : D = m * d
  BY SMT
<1>2. PICK q \in Nat : q = k \div D
  BY <1>1, DivisionOf
<1>3. PICK r \in Upto(D) : r = k % D
  BY <1>1, DivisionOf
<1>4. k = q * D + r /\ q * D \in Nat /\ r \in Nat /\ r < D
  <2>1. k = (k \div D) * D + (k % D)
    BY <1>1, DivisionOf
  <2>2. q * D \in Nat
    BY <1>1, <1>2, ProductNat
  <2> QED
    BY <1>2, <1>3, <2>1, <2>2 DEF Upto
<1>5. PICK c \in Nat : c = k \div d
  BY DivisionOf
<1>6. PICK s \in Upto(d) : s = k % d
  BY DivisionOf
<1>7. k = c * d + s /\ c * d \in Nat /\ s \in Nat /\ s < d
  BY <1>5, <1>6, DivisionOf, ProductNat DEF Upto
<1>8. q * m \in Nat /\ (q * m) * d = q * D
  BY <1>1, <1>2, ProductNat, SMT
<1>9. q * m <= c
  <2> SUFFICES ASSUME c < q * m PROVE FALSE
    BY <1>5, <1>8
  <2>1. (c + 1) * d <= (q * m) * d
    BY <1>8, ProductMono
  <2>2. (c + 1) * d = c * d + d
    BY SMT
  <2> QED
    BY <1>4, <1>7, <1>8, <2>1, <2>2
<1>10. q * D <= c * d
  BY <1>8, <1>9, ProductMono
<1>11. PICK e \in Upto(D) : c * d = q * D + e
  <2>1. c * d - q * D \in Nat /\ c * d = q * D + (c * d - q * D) /\ c * d - q * D < D
    BY <1>1, <1>4, <1>7, <1>10
  <2>2. c * d - q * D \in Upto(D)
    BY <1>1, <2>1 DEF Upto
  <2> QED
    BY <2>1, <2>2
<1>12. (q * D + e) \div D = q
  BY <1>1, DivisionUnique
<1> QED
  BY <1>1, <1>2, <1>5, <1>11, <1>12

-----------------------------------------------------------------------------
(* Tiles kept in local memory between phases                                *)

\* Phases in which every item puts its cells, reads what the group has staged,
\* and leaves its output, perhaps from cells the group has put before.
PutPhase(ph, p, I, L) == \A i \in I : ph[p][i].rd = {} /\ ph[p][i].wr = L[i]

ReadPhase(ph, p, I, L, R) ==
    /\ \A i \in I : ph[p][i].wr = {} /\ ph[p][i].rd = R[i]
    /\ \E q \in 1..(p - 1) : \A i \in I : ph[q][i].wr = L[i]

OutPhase(ph, p, I, Z, Y, O) ==
    /\ \A i \in I : ph[p][i].wr \subseteq O[i] /\ ph[p][i].rd \subseteq Y[i]
    /\ \/ \A i \in I : ph[p][i].rd = {}
       \/ \E q \in 1..(p - 1) : \A i \in I : ph[q][i].wr = Z[i]

\* A kernel that stages L and reads R, spills Z and reads Y, and leaves O.
ByPhase(k, L, R, Z, Y, O) ==
    /\ \A p \in DOMAIN k.phases : \/ PutPhase(k.phases, p, Items(k), L)
                                  \/ ReadPhase(k.phases, p, Items(k), L, R)
                                  \/ PutPhase(k.phases, p, Items(k), Z)
                                  \/ OutPhase(k.phases, p, Items(k), Z, Y, O)
    /\ \A i \in Items(k) : \A c \in O[i] : \E p \in DOMAIN k.phases : c \in k.phases[p][i].wr

LEMMA ByPhaseRight ==
    ASSUME NEW k, NEW L, NEW R, NEW Z, NEW Y, NEW O, NEW A,
           ByPhase(k, L, R, Z, Y, O), Staged(Items(k), L, R, O), Staged(Items(k), Z, Y, O),
           DOMAIN O = Items(k), DOMAIN A = Items(k), \A i \in Items(k) : Added(k, i) = A[i],
           Shares(O, k.out), Shares(A, k.sums)
    PROVE  KernelRight(k)
<1> DEFINE G == Items(k)
           ph == k.phases
<1>1. /\ \A p \in DOMAIN ph : \/ PutPhase(ph, p, G, L) \/ ReadPhase(ph, p, G, L, R)
                              \/ PutPhase(ph, p, G, Z) \/ OutPhase(ph, p, G, Z, Y, O)
      /\ \A i \in G : \A c \in O[i] : \E p \in DOMAIN ph : c \in ph[p][i].wr
  BY DEF ByPhase
<1>2. /\ \A i \in G : /\ \A c \in L[i] \cup R[i] : ~IsGlobal(c) /\ c[3] = i[1]
                      /\ \A c \in O[i] : IsGlobal(c)
                      /\ \A c \in R[i] : \E j \in G : j[1] = i[1] /\ c \in L[j]
      /\ \A i, j \in G : \A c : c \in L[i] /\ c \in L[j] => i = j
  BY DEF Staged
<1>3. /\ \A i \in G : /\ \A c \in Z[i] \cup Y[i] : ~IsGlobal(c) /\ c[3] = i[1]
                      /\ \A c \in Y[i] : \E j \in G : j[1] = i[1] /\ c \in Z[j]
      /\ \A i, j \in G : \A c : c \in Z[i] /\ c \in Z[j] => i = j
  BY DEF Staged
<1>4. \A i, j \in G : \A c : c \in O[i] /\ c \in O[j] => i = j
  BY DEF Shares
<1>5. \A i \in G : /\ Wrote(k, i) = UNION {ph[p][i].wr : p \in DOMAIN ph}
                   /\ Touched(k, i) = Wrote(k, i) \cup UNION {ph[p][i].rd : p \in DOMAIN ph}
  BY DEF Wrote, Touched
<1> HIDE DEF G, ph
<1>6. ASSUME NEW p \in DOMAIN ph, NEW i \in G
      PROVE  ph[p][i].wr \subseteq L[i] \cup Z[i] \cup O[i] /\ ph[p][i].rd \subseteq R[i] \cup Y[i]
  BY <1>1 DEF PutPhase, ReadPhase, OutPhase
<1>7. ASSUME NEW i \in G, NEW c \in Wrote(k, i)
      PROVE  c \in L[i] \/ c \in Z[i] \/ c \in O[i]
  <2>1. PICK p \in DOMAIN ph : c \in ph[p][i].wr
    BY <1>5
  <2> QED
    BY <1>6, <2>1
<1>8. ASSUME NEW i \in G, NEW c \in Touched(k, i)
      PROVE  c \in L[i] \/ c \in Z[i] \/ c \in O[i] \/ c \in R[i] \/ c \in Y[i]
  <2>1. CASE c \in Wrote(k, i)
    BY <1>7, <2>1
  <2>2. CASE c \notin Wrote(k, i)
    <3>1. PICK p \in DOMAIN ph : c \in ph[p][i].rd
      BY <1>5, <2>2
    <3> QED
      BY <1>6, <3>1
  <2> QED
    BY <2>1, <2>2
<1>9. RaceFree(k)
  <2>1. ASSUME NEW p \in DOMAIN ph, NEW i \in G, NEW j \in G, i # j, Disturbs(ph[p][i], ph[p][j])
        PROVE  FALSE
    <3>1. PICK c : c \in ph[p][i].wr /\ (c \in ph[p][j].rd \/ c \in ph[p][j].wr)
      BY <2>1 DEF Disturbs
    <3>2. CASE PutPhase(ph, p, G, L)
      <4>1. ph[p][i].wr = L[i] /\ ph[p][j].rd = {} /\ ph[p][j].wr = L[j]
        BY <3>2 DEF PutPhase
      <4> QED
        BY <1>2, <2>1, <3>1, <4>1
    <3>3. CASE ReadPhase(ph, p, G, L, R)
      <4>1. ph[p][i].wr = {}
        BY <3>3 DEF ReadPhase
      <4> QED
        BY <3>1, <4>1
    <3>4. CASE PutPhase(ph, p, G, Z)
      <4>1. ph[p][i].wr = Z[i] /\ ph[p][j].rd = {} /\ ph[p][j].wr = Z[j]
        BY <3>4 DEF PutPhase
      <4> QED
        BY <1>3, <2>1, <3>1, <4>1
    <3>5. CASE OutPhase(ph, p, G, Z, Y, O)
      <4>1. c \in O[i] /\ (c \in Y[j] \/ c \in O[j])
        BY <3>1, <3>5 DEF OutPhase
      <4>2. c \in O[j]
        BY <1>2, <1>3, <4>1
      <4> QED
        BY <1>4, <2>1, <4>1, <4>2
    <3> QED
      BY <1>1, <3>2, <3>3, <3>4, <3>5
  <2>2. ASSUME NEW i \in G, NEW j \in G, i[1] # j[1]
        PROVE  Wrote(k, i) \cap Touched(k, j) = {}
    <3> SUFFICES ASSUME NEW c \in Wrote(k, i), c \in Touched(k, j)
                 PROVE  FALSE
      OBVIOUS
    <3>1. CASE c \in O[i]
      <4>1. IsGlobal(c)
        BY <1>2, <3>1
      <4>2. c \in O[j]
        BY <1>2, <1>3, <1>8, <4>1
      <4> QED
        BY <1>4, <2>2, <3>1, <4>2
    <3>2. CASE c \notin O[i]
      <4>1. ~IsGlobal(c) /\ c[3] = i[1]
        BY <1>2, <1>3, <1>7, <3>2
      <4>2. c[3] = j[1]
        BY <1>2, <1>3, <1>8, <4>1
      <4> QED
        BY <2>2, <4>1, <4>2
    <3> QED
      BY <3>1, <3>2
  <2> QED
    BY <2>1, <2>2 DEF RaceFree, G, ph
<1>10. ASSUME NEW p \in DOMAIN ph, NEW i \in G, NEW c \in ph[p][i].rd
       PROVE  \E j \in G : j[1] = i[1] /\ \E q \in 1..(p - 1) : c \in ph[q][j].wr
  <2>1. CASE ReadPhase(ph, p, G, L, R)
    <3>1. c \in R[i]
      BY <1>10, <2>1 DEF ReadPhase
    <3>2. PICK j \in G : j[1] = i[1] /\ c \in L[j]
      BY <1>2, <3>1
    <3>3. PICK q \in 1..(p - 1) : \A l \in G : ph[q][l].wr = L[l]
      BY <2>1 DEF ReadPhase
    <3> QED
      BY <3>2, <3>3
  <2>2. CASE OutPhase(ph, p, G, Z, Y, O)
    <3>1. c \in Y[i]
      BY <1>10, <2>2 DEF OutPhase
    <3>3. PICK j \in G : j[1] = i[1] /\ c \in Z[j]
      BY <1>3, <3>1
    <3>2. PICK q \in 1..(p - 1) : \A l \in G : ph[q][l].wr = Z[l]
      BY <1>10, <2>2 DEF OutPhase
    <3> QED
      BY <3>2, <3>3
  <2>3. CASE PutPhase(ph, p, G, L) \/ PutPhase(ph, p, G, Z)
    BY <1>10, <2>3 DEF PutPhase
  <2> QED
    BY <1>1, <2>1, <2>2, <2>3
<1>11. ReadsStaged(k)
  <2>1. ASSUME NEW p \in DOMAIN ph, NEW i \in G, NEW c \in ph[p][i].rd
        PROVE  c \in UNION {UNION {ph[q][j].wr : q \in 1..(p - 1)} : j \in {j \in G : j[1] = i[1]}}
    <3>1. PICK j \in G : j[1] = i[1] /\ \E q \in 1..(p - 1) : c \in ph[q][j].wr
      BY <1>10
    <3>2. c \in UNION {ph[q][j].wr : q \in 1..(p - 1)}
      BY <3>1
    <3>3. j \in {l \in G : l[1] = i[1]}
      BY <3>1
    <3> QED
      BY <3>2, <3>3
  <2> QED
    BY <2>1 DEF ReadsStaged, G, ph
<1>12. ASSUME NEW i \in G
       PROVE  {c \in Wrote(k, i) : IsGlobal(c)} = O[i]
  <2>1. ASSUME NEW c \in Wrote(k, i), IsGlobal(c)
        PROVE  c \in O[i]
    BY <1>2, <1>3, <1>7, <2>1
  <2>2. ASSUME NEW c \in O[i]
        PROVE  c \in Wrote(k, i) /\ IsGlobal(c)
    BY <1>1, <1>2, <1>5
  <2> QED
    BY <2>1, <2>2
<1>13. WritesOutput(k)
  <2>1. UNION {{c \in Wrote(k, i) : IsGlobal(c)} : i \in G} = k.out
    BY <1>12 DEF Shares, G
  <2>2. \A i, j \in G : i # j =>
           {c \in Wrote(k, i) : IsGlobal(c)} \cap {c \in Wrote(k, j) : IsGlobal(c)} = {}
    BY <1>4, <1>12
  <2> QED
    BY <2>1, <2>2 DEF WritesOutput, Partitions, G
<1>14. SumsTerms(k)
  <2>1. \A i \in G : Added(k, i) = A[i]
    BY DEF G
  <2>2. UNION {Added(k, i) : i \in G} = k.sums
    BY <2>1 DEF Shares, G
  <2>3. \A i, j \in G : i # j => Added(k, i) \cap Added(k, j) = {}
    BY <2>1 DEF Shares, G
  <2> QED
    BY <2>2, <2>3 DEF SumsTerms, Partitions, G
<1> QED
  BY <1>9, <1>11, <1>13, <1>14 DEF KernelRight

LEMMA Append2 ==
    ASSUME NEW n \in Nat, NEW f, NEW c, NEW d, f = [p \in 1..n |-> f[p]]
    PROVE  /\ DOMAIN (f \o <<c, d>>) = 1..(n + 2)
           /\ \A p \in 1..n : (f \o <<c, d>>)[p] = f[p]
           /\ (f \o <<c, d>>)[n + 1] = c /\ (f \o <<c, d>>)[n + 2] = d
<1> DEFINE s == f \o <<c, d>>
           X == {f[p] : p \in 1..n} \cup {c, d}
<1>1. f \in Seq(X) /\ Len(f) = n
  OBVIOUS
<1>2. <<c, d>> \in Seq(X) /\ Len(<<c, d>>) = 2 /\ <<c, d>>[1] = c /\ <<c, d>>[2] = d
  OBVIOUS
<1> HIDE DEF X
<1>3. Len(s) = n + 2 /\ s \in Seq(X)
  BY <1>1, <1>2
<1> QED
  BY <1>1, <1>2, <1>3

\* The same when the accumulators are spilled before they are put.
StagingTwo(ph, T, S, D, spill, put) ==
    /\ DOMAIN ph = 1..(2 * T + 2)
    /\ \A t \in 1..T : ph[2 * t - 1] = S[t] /\ ph[2 * t] = D[t]
    /\ ph[2 * T + 1] = spill /\ ph[2 * T + 2] = put
    /\ \A p \in DOMAIN ph : \/ \E t \in 1..T : p = 2 * t - 1
                            \/ \E t \in 1..T : p = 2 * t
                            \/ p = 2 * T + 1
                            \/ p = 2 * T + 2

\* The row and column of element e of the tile of group g.
AtRow(g, e, cols, Tm, TN) == (g \div cols) * Tm + e \div TN

AtCol(g, e, cols, TN) == (g % cols) * TN + (e % TN)

Holds(g, e, r, c, cols, Tm, TN) == AtRow(g, e, cols, Tm, TN) = r /\ AtCol(g, e, cols, TN) = c

LEMMA RectCoordinates ==
    ASSUME NEW cols \in Nat \ {0}, NEW Tm \in Nat \ {0}, NEW TN \in Nat \ {0}, NEW g \in Nat,
           NEW e \in Nat, e \div TN < Tm, NEW r, NEW c, Holds(g, e, r, c, cols, Tm, TN)
    PROVE  /\ r \in Nat /\ c \in Nat
           /\ r \div Tm = g \div cols /\ r % Tm = e \div TN
           /\ c \div TN = g % cols /\ c % TN = e % TN
           /\ g = (g \div cols) * cols + (g % cols)
           /\ e = (e \div TN) * TN + (e % TN)
<1>1. PICK a \in Upto(Tm) : a = e \div TN
  <2>1. PICK z \in Nat : z = e \div TN
    BY DivisionOf
  <2> QED
    BY <2>1 DEF Upto
<1>2. PICK b \in Upto(TN) : b = e % TN
  BY DivisionOf
<1>3. PICK u \in Nat : u = g \div cols
  BY DivisionOf
<1>4. PICK v \in Nat : v = g % cols
  <2>1. PICK z \in Upto(cols) : z = g % cols
    BY DivisionOf
  <2> QED
    BY <2>1 DEF Upto
<1>5. (u * Tm + a) \div Tm = u /\ (u * Tm + a) % Tm = a /\ u * Tm + a \in Nat
  BY DivisionUnique
<1>6. (v * TN + b) \div TN = v /\ (v * TN + b) % TN = b /\ v * TN + b \in Nat
  BY DivisionUnique
<1>7. g = (g \div cols) * cols + (g % cols)
  BY DivisionOf
<1>8. e = (e \div TN) * TN + (e % TN)
  BY DivisionOf
<1>9. r = u * Tm + a /\ c = v * TN + b
  BY <1>1, <1>2, <1>3, <1>4 DEF Holds, AtRow, AtCol
<1> QED
  BY <1>1, <1>2, <1>3, <1>4, <1>5, <1>6, <1>7, <1>8, <1>9

LEMMA RectApart ==
    ASSUME NEW cols \in Nat \ {0}, NEW Tm \in Nat \ {0}, NEW TN \in Nat \ {0}, NEW g \in Nat,
           NEW e \in Nat, NEW h \in Nat, NEW f \in Nat, NEW r, NEW c,
           e \div TN < Tm, f \div TN < Tm,
           Holds(g, e, r, c, cols, Tm, TN), Holds(h, f, r, c, cols, Tm, TN)
    PROVE  g = h /\ e = f
<1>1. /\ r \div Tm = g \div cols /\ r % Tm = e \div TN
      /\ c \div TN = g % cols /\ c % TN = e % TN
      /\ g = (g \div cols) * cols + (g % cols)
      /\ e = (e \div TN) * TN + (e % TN)
  BY RectCoordinates
<1>2. /\ r \div Tm = h \div cols /\ r % Tm = f \div TN
      /\ c \div TN = h % cols /\ c % TN = f % TN
      /\ h = (h \div cols) * cols + (h % cols)
      /\ f = (f \div TN) * TN + (f % TN)
  BY RectCoordinates
<1> QED
  BY <1>1, <1>2

LEMMA RectCovers ==
    ASSUME NEW Tm \in Nat \ {0}, NEW TN \in Nat \ {0}, NEW M \in Nat, NEW N \in Nat, NEW cols, NEW rows,
           cols = CeilDivide(N, TN), rows = CeilDivide(M, Tm),
           NEW r \in Upto(M), NEW c \in Upto(N)
    PROVE  \E g \in Upto(rows * cols) : \E e \in Upto(Tm * TN) : Holds(g, e, r, c, cols, Tm, TN)
<1>1. r \in Nat /\ r < M /\ c \in Nat /\ c < N
  BY DEF Upto
<1>2. cols \in Nat \ {0} /\ rows \in Nat
  BY <1>1, CeilAbove
<1>3. PICK u \in Nat : u = r \div Tm /\ u < rows
  BY <1>1, CeilAbove, DivisionOf
<1>4. PICK v \in Upto(cols) : v = c \div TN
  <2>1. c \div TN \in Nat /\ c \div TN < cols
    BY <1>1, CeilAbove, DivisionOf
  <2> QED
    BY <1>2, <2>1 DEF Upto
<1>5. PICK a \in Nat : a = r % Tm /\ a < Tm
  <2>1. PICK z \in Upto(Tm) : z = r % Tm
    BY <1>1, DivisionOf
  <2> QED
    BY <2>1 DEF Upto
<1>6. PICK b \in Upto(TN) : b = c % TN
  BY <1>1, DivisionOf
<1>7. PICK g \in Nat : g = u * cols + v /\ g \div cols = u /\ g % cols = v
  BY <1>2, DivisionUnique, ZenonT(40)
<1>8. PICK e \in Nat : e = a * TN + b /\ e \div TN = a /\ e % TN = b
  BY DivisionUnique
<1>9. g < rows * cols /\ rows * cols \in Nat
  BY <1>2, <1>3, <1>7, QuotientBelow, ProductNat
<1>10. e < Tm * TN /\ Tm * TN \in Nat
  BY <1>5, <1>8, QuotientBelow, ProductNat
<1>11. g \in Upto(rows * cols) /\ e \in Upto(Tm * TN)
  BY <1>9, <1>10 DEF Upto
<1>12. r = u * Tm + a
  BY <1>1, <1>3, <1>5, DivisionOf
<1>13. c = v * TN + b
  BY <1>1, <1>4, <1>6, DivisionOf
<1>14. Holds(g, e, r, c, cols, Tm, TN)
  BY <1>7, <1>8, <1>12, <1>13 DEF Holds, AtRow, AtCol
<1> QED
  BY <1>11, <1>14

\* The tiles of a batch of groups, each walked by lanes.
Inside(g, e, M, N, cols, Tm, TN) == AtRow(g, e, cols, Tm, TN) < M /\ AtCol(g, e, cols, TN) < N

OutAt(b, g, e, N, cols, Tm, TN) == <<b, AtRow(g, e, cols, Tm, TN) * N + AtCol(g, e, cols, TN)>>

RectCells(b, groups, lanes, M, N, cols, Tm, TN) ==
    [i \in Grid(groups, lanes) |->
       {OutAt(b, i[1], e, N, cols, Tm, TN) :
          e \in {e \in Stride(i[2], lanes, Tm * TN) : Inside(i[1], e, M, N, cols, Tm, TN)}}]

LEMMA SharesBy ==
    ASSUME NEW W, NEW All, NEW G, DOMAIN W = G,
           \A i \in G : W[i] \subseteq All,
           \A c \in All : \E i \in G : c \in W[i],
           \A i, j \in G : \A c : c \in W[i] /\ c \in W[j] => i = j
    PROVE  Shares(W, All)
  BY DEF Shares

LEMMA RectShares ==
    ASSUME NEW Tm \in Nat \ {0}, NEW TN \in Nat \ {0}, NEW lanes \in Nat \ {0}, NEW M \in Nat, NEW N \in Nat,
           NEW cols, NEW rows, cols = CeilDivide(N, TN), rows = CeilDivide(M, Tm), NEW b, NEW O,
           O = RectCells(b, rows * cols, lanes, M, N, cols, Tm, TN)
    PROVE  Shares(O, At(b, 0, Upto(M * N)))
<1> DEFINE G == Grid(rows * cols, lanes)
           out == At(b, 0, Upto(M * N))
<1>0. cols \in Nat /\ rows \in Nat
  BY CeilAbove
<1>1. PICK size \in Nat : size = Tm * TN
  BY ProductNat
<1>2. ASSUME NEW i \in G
      PROVE  i[1] \in Nat /\ i[1] < rows * cols /\ i[2] \in Upto(lanes) /\ i = <<i[1], i[2]>>
  <2>1. rows * cols \in Nat
    BY <1>0, ProductNat
  <2>2. i[1] \in Upto(rows * cols) /\ i[2] \in Upto(lanes) /\ i = <<i[1], i[2]>>
    BY DEF Grid
  <2> QED
    BY <2>1, <2>2 DEF Upto
<1>3. ASSUME NEW i \in G, NEW c
      PROVE  c \in O[i] <=> \E e \in Stride(i[2], lanes, size) :
               Inside(i[1], e, M, N, cols, Tm, TN) /\ c = OutAt(b, i[1], e, N, cols, Tm, TN)
  BY <1>1 DEF RectCells
<1>4. ASSUME NEW i \in G, NEW c \in O[i]
      PROVE  \E e \in Nat : /\ e < size /\ e % lanes = i[2] /\ cols \in Nat \ {0} /\ N \in Nat \ {0}
                            /\ \E r \in Upto(M) : \E n \in Upto(N) :
                                 /\ Holds(i[1], e, r, n, cols, Tm, TN) /\ c = <<b, r * N + n>>
  <2>1. PICK e \in Stride(i[2], lanes, size) :
          Inside(i[1], e, M, N, cols, Tm, TN) /\ c = OutAt(b, i[1], e, N, cols, Tm, TN)
    BY <1>3, <1>4
  <2>2. e \in Nat /\ e < size /\ e % lanes = i[2]
    BY <1>2, StrideIs
  <2>3. cols # 0
    <3>1. cols = 0 => rows * cols = 0
      BY <1>0
    <3> QED
      BY <1>2, <3>1
  <2>4. PICK r : r = AtRow(i[1], e, cols, Tm, TN)
    OBVIOUS
  <2>5. PICK n : n = AtCol(i[1], e, cols, TN)
    OBVIOUS
  <2>6. Holds(i[1], e, r, n, cols, Tm, TN)
    BY <2>4, <2>5 DEF Holds
  <2>7. r \in Nat /\ n \in Nat
    <3>1. e \div TN < Tm
      BY <1>1, <2>2, QuotientBelow
    <3> QED
      BY <1>0, <1>2, <2>2, <2>3, <2>6, <3>1, RectCoordinates
  <2>8. r < M /\ n < N
    BY <2>1, <2>4, <2>5 DEF Inside
  <2>9. r \in Upto(M) /\ n \in Upto(N) /\ N \in Nat \ {0}
    BY <2>7, <2>8 DEF Upto
  <2>10. c = <<b, r * N + n>>
    BY <2>1, <2>4, <2>5 DEF OutAt
  <2> QED
    BY <1>0, <2>2, <2>3, <2>6, <2>9, <2>10
<1>5. ASSUME NEW i \in G
      PROVE  O[i] \subseteq out
  <2> SUFFICES ASSUME NEW c \in O[i] PROVE c \in out
    OBVIOUS
  <2>1. PICK r \in Upto(M) : \E n \in Upto(N) : c = <<b, r * N + n>> /\ N \in Nat \ {0}
    BY <1>4
  <2>2. PICK n \in Upto(N) : c = <<b, r * N + n>> /\ N \in Nat \ {0}
    BY <2>1
  <2>3. r \in Nat /\ r < M
    BY DEF Upto
  <2>4. PICK x \in Nat : x = r * N + n /\ x \div N = r
    BY <2>2, <2>3, DivisionUnique
  <2>5. x < M * N /\ M * N \in Nat
    BY <2>2, <2>3, <2>4, QuotientBelow, ProductNat
  <2>6. CellOf(b, c) /\ c[2] < M * N
    BY <2>2, <2>4, <2>5 DEF CellOf
  <2> QED
    BY <2>5, <2>6, InArray
<1>6. ASSUME NEW c \in out
      PROVE  \E i \in G : c \in O[i]
  <2>1. M * N \in Nat
    BY ProductNat
  <2>2. PICK x \in Nat : x = c[2] /\ x < M * N /\ c = <<b, x>>
    BY <2>1, InArray DEF CellOf
  <2>3. N \in Nat \ {0}
    <3>1. N = 0 => M * N = 0
      OBVIOUS
    <3> QED
      BY <2>2, <3>1
  <2>4. PICK r \in Upto(M) : r = x \div N
    <3>1. x \div N < M
      BY <2>2, <2>3, QuotientBelow
    <3>2. PICK z \in Nat : z = x \div N
      BY <2>3, DivisionOf
    <3>3. z \in Upto(M)
      <4>1. z < M
        BY <3>1, <3>2
      <4> QED
        BY <4>1 DEF Upto
    <3> QED
      BY <3>2, <3>3
  <2>5. PICK n \in Upto(N) : n = x % N
    BY <2>3, DivisionOf
  <2>6. x = r * N + n
    BY <2>3, <2>4, <2>5, DivisionOf
  <2>7. PICK g \in Upto(rows * cols) : \E e \in Upto(Tm * TN) : Holds(g, e, r, n, cols, Tm, TN)
    BY RectCovers
  <2>8. PICK e \in Upto(Tm * TN) : Holds(g, e, r, n, cols, Tm, TN)
    BY <2>7
  <2>9. e \in Nat /\ e < size
    BY <1>1, <2>8 DEF Upto
  <2>10. PICK l \in Upto(lanes) : l = e % lanes
    BY <2>9, DivisionOf
  <2>11. PICK i \in G : i[1] = g /\ i[2] = l
    <3>1. <<g, l>> \in G
      BY DEF Grid
    <3> QED
      BY <3>1
  <2>12. e \in Stride(i[2], lanes, size)
    BY <2>9, <2>10, <2>11, StrideIs
  <2>13. Inside(g, e, M, N, cols, Tm, TN) /\ c = OutAt(b, g, e, N, cols, Tm, TN)
    <3>1. AtRow(g, e, cols, Tm, TN) = r /\ AtCol(g, e, cols, TN) = n
      BY <2>8 DEF Holds
    <3>2. r < M /\ n < N
      BY DEF Upto
    <3> QED
      BY <2>2, <2>6, <3>1, <3>2 DEF Inside, OutAt
  <2> QED
    BY <1>3, <2>11, <2>12, <2>13
<1>7. ASSUME NEW i \in G, NEW j \in G, NEW c, c \in O[i], c \in O[j]
      PROVE  i = j
  <2>1. PICK e \in Nat : /\ e < size /\ e % lanes = i[2] /\ cols \in Nat \ {0} /\ N \in Nat \ {0}
                         /\ \E r \in Upto(M) : \E n \in Upto(N) :
                              /\ Holds(i[1], e, r, n, cols, Tm, TN) /\ c = <<b, r * N + n>>
    BY <1>4, <1>7
  <2>2. PICK f \in Nat : /\ f < size /\ f % lanes = j[2] /\ cols \in Nat \ {0} /\ N \in Nat \ {0}
                         /\ \E r \in Upto(M) : \E n \in Upto(N) :
                              /\ Holds(j[1], f, r, n, cols, Tm, TN) /\ c = <<b, r * N + n>>
    BY <1>4, <1>7
  <2>3. PICK r \in Upto(M) : \E n \in Upto(N) : Holds(i[1], e, r, n, cols, Tm, TN) /\ c = <<b, r * N + n>>
    BY <2>1
  <2>4. PICK n \in Upto(N) : Holds(i[1], e, r, n, cols, Tm, TN) /\ c = <<b, r * N + n>>
    BY <2>3
  <2>5. PICK s \in Upto(M) : \E m \in Upto(N) : Holds(j[1], f, s, m, cols, Tm, TN) /\ c = <<b, s * N + m>>
    BY <2>2
  <2>6. PICK m \in Upto(N) : Holds(j[1], f, s, m, cols, Tm, TN) /\ c = <<b, s * N + m>>
    BY <2>5
  <2>7. r \in Nat /\ s \in Nat
    BY DEF Upto
  <2>8. (r * N + n) \div N = r /\ (r * N + n) % N = n /\ (s * N + m) \div N = s /\ (s * N + m) % N = m
    BY <2>1, <2>7, DivisionUnique
  <2>9. r * N + n = s * N + m
    BY <2>4, <2>6
  <2>10. r = s /\ n = m
    BY <2>8, <2>9
  <2>11. Holds(j[1], f, r, n, cols, Tm, TN)
    BY <2>6, <2>10
  <2>12. e \div TN < Tm /\ f \div TN < Tm
    BY <1>1, <2>1, <2>2, QuotientBelow
  <2>13. i[1] = j[1] /\ e = f
    BY <1>2, <2>1, <2>4, <2>11, <2>12, RectApart
  <2> QED
    BY <1>2, <2>1, <2>2, <2>13
<1>8. DOMAIN O = G
  BY DEF RectCells
<1> HIDE DEF G, out
<1>9. Shares(O, out)
  BY <1>5, <1>6, <1>7, <1>8, SharesBy
<1> QED
  BY <1>9 DEF out

\* Outputs that are shared are still shared with all the terms of each.
TimesEach(O, U) == [i \in DOMAIN O |-> O[i] \X U]

LEMMA TimesEachShares ==
    ASSUME NEW O, NEW All, NEW U, Shares(O, All)
    PROVE  Shares(TimesEach(O, U), All \X U)
<1> DEFINE A == TimesEach(O, U)
<1>1. DOMAIN A = DOMAIN O
  BY DEF TimesEach
<1>2. ASSUME NEW i \in DOMAIN O, NEW z
      PROVE  z \in A[i] <=> \E c \in O[i] : \E u \in U : z = <<c, u>>
  BY DEF TimesEach
<1>3. ASSUME NEW z
      PROVE  z \in All \X U <=> \E c \in All : \E u \in U : z = <<c, u>>
  OBVIOUS
<1> HIDE DEF A
<1>4. ASSUME NEW i \in DOMAIN O
      PROVE  A[i] \subseteq All \X U
  <2> SUFFICES ASSUME NEW z \in A[i] PROVE z \in All \X U
    OBVIOUS
  <2>1. PICK c \in O[i] : \E u \in U : z = <<c, u>>
    BY <1>2
  <2>2. c \in All
    BY DEF Shares
  <2> QED
    BY <1>3, <2>1, <2>2
<1>5. ASSUME NEW z \in All \X U
      PROVE  \E i \in DOMAIN O : z \in A[i]
  <2>1. PICK c \in All : \E u \in U : z = <<c, u>>
    BY <1>3
  <2>2. PICK i \in DOMAIN O : c \in O[i]
    BY DEF Shares
  <2> QED
    BY <1>2, <2>1, <2>2
<1>6. ASSUME NEW i \in DOMAIN O, NEW j \in DOMAIN O, NEW z, z \in A[i], z \in A[j]
      PROVE  i = j
  <2>1. PICK c \in O[i] : \E u \in U : z = <<c, u>>
    BY <1>2, <1>6
  <2>2. PICK d \in O[j] : \E u \in U : z = <<d, u>>
    BY <1>2, <1>6
  <2>3. c = d
    BY <2>1, <2>2
  <2> QED
    BY <2>3 DEF Shares
<1>7. Shares(A, All \X U)
  BY <1>1, <1>4, <1>5, <1>6, SharesBy
<1> QED
  BY <1>7 DEF A

LEMMA LengthOfTiles == ASSUME NEW T \in Nat PROVE Cardinality(1..T) = T
<1>1. Cardinality(1..T) = IF 1 > T THEN 0 ELSE T - 1 + 1
  BY FS_Interval
<1> QED
  BY <1>1

-----------------------------------------------------------------------------
(* Items with a cell or a total of their own                                *)

\* Items numbered in L write the cell C gives their number, the others none.
NumberedCells(W, n, L, C, All) ==
    /\ DOMAIN W = Flat(n) /\ L \subseteq Upto(n)
    /\ \A i \in Flat(n) : W[i] = IF i[1] \in L THEN {C[i[1]]} ELSE {}
    /\ \A a, b \in L : C[a] = C[b] => a = b
    /\ \A c : c \in All <=> \E e \in L : c = C[e]

LEMMA CellsShared ==
    ASSUME NEW W, NEW n, NEW L, NEW C, NEW All, NumberedCells(W, n, L, C, All)
    PROVE  Shares(W, All)
<1>1. /\ \A a, b \in L : C[a] = C[b] => a = b
      /\ \A c : c \in All <=> \E e \in L : c = C[e]
      /\ DOMAIN W = Flat(n) /\ L \subseteq Upto(n)
  BY DEF NumberedCells
<1>2. \A i \in Flat(n) : \A c : c \in W[i] <=> i[1] \in L /\ c = C[i[1]]
  BY DEF NumberedCells
<1>3. \A i \in Flat(n) : i = <<i[1], 0>>
  BY FlatItems
<1>4. \A e \in L : <<e, 0>> \in Flat(n) /\ <<e, 0>>[1] = e
  BY <1>1, ItemOf
<1>5. \A i \in Flat(n) : W[i] \subseteq All
  BY <1>1, <1>2
<1>6. ASSUME NEW c \in All
      PROVE  \E i \in Flat(n) : c \in W[i]
  <2>1. PICK e \in L : c = C[e]
    BY <1>1
  <2>2. c \in W[<<e, 0>>]
    BY <1>2, <1>4, <2>1
  <2> QED
    BY <1>4, <2>2
<1>7. \A i, j \in Flat(n) : \A c : c \in W[i] /\ c \in W[j] => i = j
  BY <1>1, <1>2, <1>3
<1> QED
  BY <1>1, <1>5, <1>6, <1>7 DEF Shares

\* They add to the total C gives their number the terms T does.
NumberedSums(A, n, L, C, T, All) ==
    /\ DOMAIN A = Flat(n) /\ L \subseteq Upto(n)
    /\ \A i \in Flat(n) : A[i] = IF i[1] \in L THEN Into(C[i[1]], T[i[1]]) ELSE {}
    /\ \A a, b \in L : C[a] = C[b] => a = b
    /\ \A z : z \in All <=> \E e \in L : z \in Into(C[e], T[e])

LEMMA SumsShared ==
    ASSUME NEW A, NEW n, NEW L, NEW C, NEW T, NEW All, NumberedSums(A, n, L, C, T, All)
    PROVE  Shares(A, All)
<1>1. /\ \A a, b \in L : C[a] = C[b] => a = b
      /\ \A z : z \in All <=> \E e \in L : z \in Into(C[e], T[e])
      /\ DOMAIN A = Flat(n) /\ L \subseteq Upto(n)
  BY DEF NumberedSums
<1>2. \A i \in Flat(n) : \A z : z \in A[i] <=> i[1] \in L /\ z \in Into(C[i[1]], T[i[1]])
  BY DEF NumberedSums
<1>3. \A i \in Flat(n) : i = <<i[1], 0>>
  BY FlatItems
<1>4. \A e \in L : <<e, 0>> \in Flat(n) /\ <<e, 0>>[1] = e
  BY <1>1, ItemOf
<1>5. \A i \in Flat(n) : A[i] \subseteq All
  BY <1>1, <1>2
<1>6. ASSUME NEW z \in All
      PROVE  \E i \in Flat(n) : z \in A[i]
  <2>1. PICK e \in L : z \in Into(C[e], T[e])
    BY <1>1
  <2>2. z \in A[<<e, 0>>]
    BY <1>2, <1>4, <2>1
  <2> QED
    BY <1>4, <2>2
<1>7. \A e : \A z : z \in Into(C[e], T[e]) => z[1] = C[e]
  BY DEF Into
<1>8. \A i, j \in Flat(n) : \A z : z \in A[i] /\ z \in A[j] => i = j
  BY <1>1, <1>2, <1>3, <1>7
<1> QED
  BY <1>1, <1>5, <1>6, <1>8 DEF Shares

-----------------------------------------------------------------------------
(* Kernels of several phases, in general                                    *)

\* O[i] is what item i writes outside local memory.  Local cells are of the
\* item's group; a global one it only reads is written by its own group, if by
\* any; in a phase no item of a group touches what another writes; a local cell
\* is staged before it is read.
InPhases(k, O, A) ==
    /\ DOMAIN O = Items(k) /\ DOMAIN A = Items(k)
    /\ \A i \in Items(k) : Added(k, i) = A[i] /\ \A c \in O[i] : IsGlobal(c) /\ c \in Wrote(k, i)
    /\ \A p \in DOMAIN k.phases : \A i \in Items(k) : \A c :
          /\ c \in k.phases[p][i].wr => c \in O[i] \/ (~IsGlobal(c) /\ c[3] = i[1])
          /\ c \in k.phases[p][i].rd =>
                \/ IsGlobal(c) /\ \A j \in Items(k) : c \in O[j] => j[1] = i[1]
                \/ /\ ~IsGlobal(c) /\ c[3] = i[1]
                   /\ \/ c \in k.phases[p][i].wr
                      \/ \E j \in Items(k) : j[1] = i[1] /\ \E q \in 1..(p - 1) : c \in k.phases[q][j].wr
    /\ \A p \in DOMAIN k.phases : \A i, j \in Items(k) : \A c :
          i[1] = j[1] /\ i # j /\ c \in k.phases[p][i].wr => c \notin k.phases[p][j].rd /\ c \notin k.phases[p][j].wr

LEMMA PhasesRight ==
    ASSUME NEW k, NEW O, NEW A, InPhases(k, O, A), Shares(O, k.out), Shares(A, k.sums)
    PROVE  KernelRight(k)
<1> DEFINE G == Items(k)
           ph == k.phases
<1>1. /\ DOMAIN O = G /\ DOMAIN A = G
      /\ \A i \in G : Added(k, i) = A[i] /\ \A c \in O[i] : IsGlobal(c) /\ c \in Wrote(k, i)
  BY DEF InPhases
<1>2. \A p \in DOMAIN ph : \A i \in G : \A c :
          /\ c \in ph[p][i].wr => c \in O[i] \/ (~IsGlobal(c) /\ c[3] = i[1])
          /\ c \in ph[p][i].rd =>
                \/ IsGlobal(c) /\ \A j \in G : c \in O[j] => j[1] = i[1]
                \/ /\ ~IsGlobal(c) /\ c[3] = i[1]
                   /\ \/ c \in ph[p][i].wr
                      \/ \E j \in G : j[1] = i[1] /\ \E q \in 1..(p - 1) : c \in ph[q][j].wr
  BY DEF InPhases
<1>3. \A p \in DOMAIN ph : \A i, j \in G : \A c :
          i[1] = j[1] /\ i # j /\ c \in ph[p][i].wr => c \notin ph[p][j].rd /\ c \notin ph[p][j].wr
  BY DEF InPhases
<1>4. \A i \in G : /\ Wrote(k, i) = UNION {ph[p][i].wr : p \in DOMAIN ph}
                   /\ Touched(k, i) = Wrote(k, i) \cup UNION {ph[p][i].rd : p \in DOMAIN ph}
  BY DEF Wrote, Touched
<1>5. \A i, j \in G : \A c : c \in O[i] /\ c \in O[j] => i = j
  BY <1>1 DEF Shares
<1> HIDE DEF G, ph
<1>6. \A i \in G : \A c : c \in Wrote(k, i) => c \in O[i] \/ (~IsGlobal(c) /\ c[3] = i[1])
  BY <1>2, <1>4
<1>7. ASSUME NEW i \in G, NEW c \in Touched(k, i)
      PROVE  \/ ~IsGlobal(c) /\ c[3] = i[1]
             \/ IsGlobal(c) /\ \A j \in G : c \in O[j] => j[1] = i[1]
  <2>1. CASE c \in Wrote(k, i)
    BY <1>1, <1>5, <1>6, <2>1
  <2>2. CASE c \notin Wrote(k, i)
    <3>1. PICK p \in DOMAIN ph : c \in ph[p][i].rd
      BY <1>4, <1>7, <2>2
    <3> QED
      BY <1>2, <3>1
  <2> QED
    BY <2>1, <2>2
<1>8. RaceFree(k)
  <2>1. ASSUME NEW p \in DOMAIN ph, NEW i \in G, NEW j \in G, i[1] = j[1], i # j
        PROVE  ~Disturbs(ph[p][i], ph[p][j])
    BY <1>3, <2>1 DEF Disturbs
  <2>2. ASSUME NEW i \in G, NEW j \in G, i[1] # j[1], NEW c \in Wrote(k, i), c \in Touched(k, j)
        PROVE  FALSE
    <3>1. CASE c \in O[i]
      <4>1. IsGlobal(c)
        BY <1>1, <3>1
      <4> QED
        BY <1>7, <2>2, <3>1, <4>1
    <3>2. CASE c \notin O[i]
      <4>1. ~IsGlobal(c) /\ c[3] = i[1]
        BY <1>6, <3>2
      <4>2. c[3] = j[1]
        BY <1>7, <2>2, <4>1
      <4> QED
        BY <2>2, <4>1, <4>2
    <3> QED
      BY <3>1, <3>2
  <2> QED
    BY <2>1, <2>2 DEF RaceFree, G, ph
<1>9. ReadsStaged(k)
  <2>1. ASSUME NEW p \in DOMAIN ph, NEW i \in G, NEW c \in ph[p][i].rd, ~IsGlobal(c), c \notin ph[p][i].wr
        PROVE  c \in UNION {UNION {ph[q][j].wr : q \in 1..(p - 1)} : j \in {j \in G : j[1] = i[1]}}
    <3>1. PICK j \in G : j[1] = i[1] /\ \E q \in 1..(p - 1) : c \in ph[q][j].wr
      BY <1>2, <2>1
    <3>2. c \in UNION {ph[q][j].wr : q \in 1..(p - 1)}
      BY <3>1
    <3>3. j \in {l \in G : l[1] = i[1]}
      BY <3>1
    <3> QED
      BY <3>2, <3>3
  <2> QED
    BY <2>1 DEF ReadsStaged, G, ph
<1>10. ASSUME NEW i \in G
       PROVE  {c \in Wrote(k, i) : IsGlobal(c)} = O[i]
  BY <1>1, <1>6
<1>11. WritesOutput(k)
  <2>1. UNION {{c \in Wrote(k, i) : IsGlobal(c)} : i \in G} = k.out
    BY <1>1, <1>10 DEF Shares
  <2>2. \A i, j \in G : i # j =>
           {c \in Wrote(k, i) : IsGlobal(c)} \cap {c \in Wrote(k, j) : IsGlobal(c)} = {}
    BY <1>5, <1>10
  <2> QED
    BY <2>1, <2>2 DEF WritesOutput, Partitions, G
<1>12. SumsTerms(k)
  <2>1. UNION {Added(k, i) : i \in G} = k.sums
    BY <1>1 DEF Shares
  <2>2. \A i, j \in G : i # j => Added(k, i) \cap Added(k, j) = {}
    BY <1>1 DEF Shares
  <2> QED
    BY <2>1, <2>2 DEF SumsTerms, Partitions, G
<1> QED
  BY <1>8, <1>9, <1>11, <1>12 DEF KernelRight

-----------------------------------------------------------------------------
(* A cell per item of a grid, and cells at the slots a batch names          *)

\* Each lane of a group writes the cell of its own number.
LEMMA LaneCells ==
    ASSUME NEW b, NEW rows \in Nat, NEW w \in Nat \ {0}, NEW W, DOMAIN W = Grid(rows, w),
           \A i \in Grid(rows, w) : W[i] = {<<b, i[1] * w + i[2]>>}
    PROVE  Shares(W, At(b, 0, Upto(rows * w)))
<1> DEFINE E == [l \in Upto(w) |-> {l}]
<1>1. DOMAIN E = Upto(w) /\ Shares(E, Upto(w))
  BY DEF Shares
<1>2. ASSUME NEW i \in Grid(rows, w)
      PROVE  W[i] = At(b, i[1] * w, E[i[2]])
  <2>1. i[2] \in Upto(w)
    BY GridItems
  <2> QED
    BY <2>1 DEF At
<1> HIDE DEF E
<1> QED
  BY <1>1, <1>2, RowShares

\* Rows in live write at the slot to gives them, heads rows of w cells each.
\* Slots of live rows differ, as ops.hpp asks.
AtSlots(W, b, batch, heads, w, live, to, All) ==
    /\ live \subseteq 1..batch /\ \A t \in live : to[t] \in Nat
    /\ \A s, t \in live : to[s] = to[t] => s = t
    /\ DOMAIN W = Grid(batch * heads, w)
    /\ \A i \in Grid(batch * heads, w) :
          W[i] = IF i[1] \div heads + 1 \in live
                 THEN {<<b, (to[i[1] \div heads + 1] * heads + (i[1] % heads)) * w + i[2]>>} ELSE {}
    /\ \A c : c \in All <=> \E t \in live : c \in RowCells(b, to[t], heads, w)

LEMMA GridItem ==
    ASSUME NEW batch \in Nat, NEW heads \in Nat \ {0}, NEW w, NEW i \in Grid(batch * heads, w)
    PROVE  /\ i[1] \in Nat /\ i[1] % heads \in Upto(heads) /\ i[1] \div heads \in Nat
           /\ i[1] \div heads + 1 \in 1..batch /\ i[2] \in Upto(w) /\ i = <<i[1], i[2]>>
           /\ i[1] = (i[1] \div heads) * heads + (i[1] % heads)
<1>1. i[1] \in Upto(batch * heads) /\ i[2] \in Upto(w) /\ i[1] \in Nat /\ i = <<i[1], i[2]>>
  BY GridItems
<1>2. PICK v \in Nat : v = i[1]
  BY <1>1
<1>3. v < batch * heads
  <2>1. batch * heads \in Nat
    BY ProductNat
  <2> QED
    BY <1>1, <1>2, <2>1 DEF Upto
<1>4. v \div heads \in Nat /\ v % heads \in Upto(heads) /\ v = (v \div heads) * heads + (v % heads)
  BY DivisionOf
<1>5. v \div heads < batch
  BY <1>3, QuotientBelow
<1>6. v \div heads + 1 \in 1..batch
  BY <1>4, <1>5
<1> QED
  BY <1>1, <1>2, <1>4, <1>6

\* The item of head h and lane l of row t.
HasItem(batch, heads, w, t, h, l) ==
    \E i \in Grid(batch * heads, w) : i[1] \div heads + 1 = t /\ i[1] % heads = h /\ i[2] = l

LEMMA GridItemOf ==
    ASSUME NEW batch \in Nat, NEW heads \in Nat \ {0}, NEW w, NEW t \in 1..batch, NEW h \in Upto(heads),
           NEW l \in Upto(w)
    PROVE  HasItem(batch, heads, w, t, h, l)
<1>1. PICK g \in Nat : g + 1 = t /\ g < batch
  <2>1. t - 1 \in Nat /\ (t - 1) + 1 = t /\ t - 1 < batch
    OBVIOUS
  <2> QED
    BY <2>1
<1>2. PICK v \in Nat : v = g * heads + h /\ v \div heads = g /\ v % heads = h
  BY DivisionUnique
<1>3. v < batch * heads
  BY <1>1, <1>2, QuotientBelow
<1>4. v \in Upto(batch * heads)
  <2>1. batch * heads \in Nat
    BY ProductNat
  <2> QED
    BY <1>2, <1>3, <2>1 DEF Upto
<1>5. <<v, l>> \in Grid(batch * heads, w) /\ <<v, l>>[1] = v /\ <<v, l>>[2] = l
  <2> DEFINE n == batch * heads
  <2>1. v \in Upto(n)
    BY <1>4
  <2> HIDE DEF n
  <2>2. <<v, l>> \in Grid(n, w)
    BY <2>1 DEF Grid
  <2> QED
    BY <2>2 DEF n
<1> QED
  BY <1>1, <1>2, <1>5 DEF HasItem

LEMMA SlotsShared ==
    ASSUME NEW W, NEW b, NEW batch \in Nat, NEW heads \in Nat \ {0}, NEW w \in Nat \ {0},
           NEW live, NEW to, NEW All, AtSlots(W, b, batch, heads, w, live, to, All)
    PROVE  Shares(W, All)
<1> DEFINE G == Grid(batch * heads, w)
           row(i) == i[1] \div heads + 1
           head(i) == i[1] % heads
<1>1. /\ live \subseteq 1..batch /\ \A t \in live : to[t] \in Nat
      /\ \A s, t \in live : to[s] = to[t] => s = t
      /\ DOMAIN W = G
      /\ \A i \in G : W[i] = IF row(i) \in live THEN {<<b, (to[row(i)] * heads + head(i)) * w + i[2]>>} ELSE {}
      /\ \A c : c \in All <=> \E t \in live : c \in RowCells(b, to[t], heads, w)
  BY DEF AtSlots
<1>2. \A i \in G : /\ i[1] \in Nat /\ head(i) \in Upto(heads) /\ i[1] \div heads \in Nat
                   /\ row(i) \in 1..batch /\ i[2] \in Upto(w) /\ i = <<i[1], i[2]>>
                   /\ i[1] = (i[1] \div heads) * heads + head(i)
  BY GridItem
<1>3. \A t \in 1..batch, h \in Upto(heads), l \in Upto(w) :
         \E i \in G : row(i) = t /\ head(i) = h /\ i[2] = l
  BY GridItemOf, SMTT(30) DEF HasItem
<1> HIDE DEF G
\* The coordinates of a cell.
<1>4. ASSUME NEW s \in Nat, NEW h \in Upto(heads), NEW l \in Upto(w)
      PROVE  LET x == (s * heads + h) * w + l
             IN  x \in Nat /\ x % w = l /\ (x \div w) \div heads = s /\ (x \div w) % heads = h
  <2>1. PICK r \in Nat : r = s * heads + h /\ r \div heads = s /\ r % heads = h
    BY DivisionUnique
  <2>2. PICK x \in Nat : x = r * w + l /\ x \div w = r /\ x % w = l
    BY DivisionUnique
  <2> QED
    BY <2>1, <2>2
<1>5. ASSUME NEW i \in G, NEW c
      PROVE  c \in W[i] <=> /\ row(i) \in live /\ CellOf(b, c)
                            /\ (c[2] \div w) \div heads = to[row(i)] /\ (c[2] \div w) % heads = head(i)
                            /\ c[2] % w = i[2]
  <2>1. CASE row(i) \in live
    <3>1. PICK s \in Nat : s = to[row(i)]
      BY <1>1, <2>1
    <3>2. PICK h \in Upto(heads), l \in Upto(w) : h = head(i) /\ l = i[2]
      BY <1>2
    <3>3. PICK x : x = (s * heads + h) * w + l
      OBVIOUS
    <3>4. x \in Nat /\ x % w = l /\ (x \div w) \div heads = s /\ (x \div w) % heads = h
      BY <1>4, <3>3, ZenonT(40)
    <3>5. W[i] = {<<b, x>>}
      BY <1>1, <2>1, <3>1, <3>2, <3>3
    <3>6. c = <<b, x>> => CellOf(b, c) /\ c[2] = x
      BY <3>4 DEF CellOf
    <3>7. ASSUME CellOf(b, c), (c[2] \div w) \div heads = s, (c[2] \div w) % heads = h, c[2] % w = l
          PROVE  c = <<b, x>>
      <4>1. PICK y \in Nat : y = c[2] /\ c = <<b, y>>
        BY <3>7 DEF CellOf
      <4>2. PICK q \in Nat : q = y \div w /\ y = q * w + l
        BY <3>7, <4>1, DivisionOf
      <4>3. q = s * heads + h
        BY <3>7, <4>1, <4>2, DivisionOf
      <4> QED
        BY <3>3, <4>1, <4>2, <4>3
    <3> QED
      BY <2>1, <3>1, <3>2, <3>4, <3>5, <3>6, <3>7
  <2>2. CASE row(i) \notin live
    BY <1>1, <2>2
  <2> QED
    BY <2>1, <2>2
<1>6. ASSUME NEW c
      PROVE  c \in All <=> CellOf(b, c) /\ \E t \in live : (c[2] \div w) \div heads = to[t]
  <2>1. \A t \in live : c \in RowCells(b, to[t], heads, w) <=> CellOf(b, c) /\ (c[2] \div w) \div heads = to[t]
    <3>1. \A s \in Nat : c \in RowCells(b, s, heads, w) <=> CellOf(b, c) /\ (c[2] \div w) \div heads = s
      BY WholeOfRow
    <3> QED
      BY <1>1, <3>1
  <2> QED
    BY <1>1, <2>1
<1> HIDE DEF row, head
<1>7. \A i \in G : W[i] \subseteq All
  BY <1>5, <1>6
<1>8. ASSUME NEW c \in All
      PROVE  \E i \in G : c \in W[i]
  <2>1. PICK t \in live : (c[2] \div w) \div heads = to[t]
    BY <1>6
  <2>2. PICK x \in Nat : x = c[2] /\ CellOf(b, c)
    BY <1>6 DEF CellOf
  <2>3. PICK q \in Nat, l \in Upto(w) : q = x \div w /\ l = x % w
    BY DivisionOf
  <2>4. PICK h \in Upto(heads) : h = q % heads
    BY DivisionOf
  <2>5. PICK i \in G : row(i) = t /\ head(i) = h /\ i[2] = l
    BY <1>1, <1>3
  <2> QED
    BY <1>5, <2>1, <2>2, <2>3, <2>4, <2>5
<1>9. ASSUME NEW i \in G, NEW j \in G, NEW c, c \in W[i], c \in W[j]
      PROVE  i = j
  <2>3. row(i) \in live /\ (c[2] \div w) \div heads = to[row(i)] /\ (c[2] \div w) % heads = head(i) /\ c[2] % w = i[2]
    BY <1>5, <1>9
  <2>4. row(j) \in live /\ (c[2] \div w) \div heads = to[row(j)] /\ (c[2] \div w) % heads = head(j) /\ c[2] % w = j[2]
    BY <1>5, <1>9
  <2>5. \A s, t \in live : to[s] = to[t] => s = t
    BY <1>1
  <2>1. row(i) = row(j) /\ head(i) = head(j) /\ i[2] = j[2]
    BY <2>3, <2>4, <2>5
  <2>2. i[1] \div heads = j[1] \div heads
    BY <1>2, <2>1 DEF row
  <2> QED
    BY <1>2, <2>1, <2>2
<1> QED
  BY <1>1, <1>7, <1>8, <1>9 DEF Shares

-----------------------------------------------------------------------------
(* Rows and buffers of a sequence                                           *)

LEMMA RowOfOne ==
    ASSUME NEW b, NEW s \in Nat, NEW h \in Nat
    PROVE  RowCells(b, s, h, 1) = At(b, s * h, Upto(h))
<1>1. s * h * 1 = s * h /\ h * 1 = h
  <2>1. s * h \in Nat
    BY ProductNat
  <2> QED
    BY <2>1
<1> QED
  BY <1>1 DEF RowCells

LEMMA Buffered ==
    ASSUME NEW b, NEW batch, NEW heads, NEW w, NEW live, NEW to, NEW W, NEW All,
           AtSlots(W, b, batch, heads, w, live, to, All)
    PROVE  /\ \A c \in All : IsGlobal(c) /\ c[1] = b
           /\ \A i \in DOMAIN W : \A c \in W[i] : IsGlobal(c) /\ c[1] = b
<1>1. \A c : c \in All <=> \E t \in live : c \in RowCells(b, to[t], heads, w)
  BY DEF AtSlots
<1>2. \A i \in DOMAIN W : W[i] = IF i[1] \div heads + 1 \in live
                 THEN {<<b, (to[i[1] \div heads + 1] * heads + (i[1] % heads)) * w + i[2]>>} ELSE {}
  BY DEF AtSlots
<1>3. \A s : \A c \in RowCells(b, s, heads, w) : IsGlobal(c) /\ c[1] = b
  BY CellOfBuffer DEF RowCells
<1> QED
  BY <1>1, <1>2, <1>3, GlobalCell

-----------------------------------------------------------------------------
(* Ragged batches                                                           *)

\* Where the tokens of each row start, and after the last where they end.
Starting(cu) == /\ cu \in Seq(Nat) /\ Len(cu) > 0
                /\ \A r, s \in 1..Len(cu) : r <= s => cu[r] <= cu[s]

\* The tokens of row r.
TokensOf(cu, r) == cu[r]..(cu[r + 1] - 1)

Preceding == OpToRel(<, Nat)

\* A set of natural numbers has a least element.
LEMMA LeastOf ==
    ASSUME NEW S \in SUBSET Nat, S # {}
    PROVE  \E m \in S : \A a \in S : m <= a
<1>1. IsWellFoundedOn(Preceding, Nat)
  BY NatLessThanWellFounded DEF Preceding
<1>2. PICK x \in S : \A y \in S : <<y, x>> \notin Preceding
  BY <1>1, WFMin
<1>3. \A a, b : <<a, b>> \in Preceding <=> a \in Nat /\ b \in Nat /\ a < b
  BY DEF Preceding, OpToRel
<1>4. ASSUME NEW y \in S
      PROVE  x <= y
  <2>1. x \in Nat /\ y \in Nat /\ <<y, x>> \notin Preceding
    BY <1>2
  <2>2. ~(y < x)
    BY <1>3, <2>1
  <2> QED
    BY <2>1, <2>2
<1> QED
  BY <1>4

\* A token belongs to one row.
LEMMA TokensApart ==
    ASSUME NEW cu, Starting(cu), NEW r \in 1..(Len(cu) - 1), NEW s \in 1..(Len(cu) - 1),
           NEW t \in TokensOf(cu, r), t \in TokensOf(cu, s)
    PROVE  r = s
<1>1. /\ \A a, b \in 1..Len(cu) : a <= b => cu[a] <= cu[b]
      /\ \A a \in 1..Len(cu) : cu[a] \in Nat
      /\ Len(cu) \in Nat
  BY SMTT(30) DEF Starting
<1>2. r + 1 \in 1..Len(cu) /\ s + 1 \in 1..Len(cu) /\ r \in 1..Len(cu) /\ s \in 1..Len(cu)
  BY <1>1
<1>3. t \in Int /\ cu[r] <= t /\ t < cu[r + 1] /\ cu[s] <= t /\ t < cu[s + 1]
  BY <1>1, <1>2 DEF TokensOf
<1>4. ASSUME r < s PROVE FALSE
  <2>1. cu[r + 1] <= cu[s]
    BY <1>1, <1>2, <1>4
  <2> QED
    BY <1>1, <1>2, <1>3, <2>1
<1>5. ASSUME s < r PROVE FALSE
  <2>1. cu[s + 1] <= cu[r]
    BY <1>1, <1>2, <1>5
  <2> QED
    BY <1>1, <1>2, <1>3, <2>1
<1> QED
  BY <1>4, <1>5

\* And every token belongs to a row.
LEMMA TokensCover ==
    ASSUME NEW cu, Starting(cu), NEW t \in cu[1]..(cu[Len(cu)] - 1)
    PROVE  \E r \in 1..(Len(cu) - 1) : t \in TokensOf(cu, r)
<1>1. /\ \A a \in 1..Len(cu) : cu[a] \in Nat
      /\ Len(cu) \in Nat /\ Len(cu) > 0
  BY DEF Starting
<1>2. t \in Int /\ cu[1] <= t /\ t < cu[Len(cu)]
  BY <1>1
<1> DEFINE S == {a \in 1..Len(cu) : t < cu[a]}
<1>3. S \subseteq Nat /\ S # {}
  BY <1>1, <1>2
<1>4. PICK m \in S : \A a \in S : m <= a
  BY <1>3, LeastOf
<1>5. m \in 1..Len(cu) /\ m # 1
  BY <1>1, <1>2
<1>6. m - 1 \in 1..(Len(cu) - 1) /\ (m - 1) + 1 = m /\ m - 1 \in 1..Len(cu)
  BY <1>1, <1>5
<1>7. m - 1 \notin S
  BY <1>4, <1>5, <1>6
<1>8. cu[m - 1] <= t
  BY <1>1, <1>2, <1>6, <1>7
<1>9. t \in TokensOf(cu, m - 1)
  <2>1. t < cu[m] /\ cu[m] \in Nat /\ cu[m - 1] \in Nat
    BY <1>1, <1>4, <1>5, <1>6
  <2> QED
    BY <1>2, <1>6, <1>8, <2>1 DEF TokensOf
<1> QED
  BY <1>6, <1>9

\* Rows, heads and lanes that write the cells of their own tokens.
AtTokens(W, b, cu, heads, w, All) ==
    LET batch == Len(cu) - 1
    IN  /\ Starting(cu) /\ DOMAIN W = Grid(batch * heads, w)
        /\ \A i \in Grid(batch * heads, w) : \A c :
              c \in W[i] <=> \E t \in TokensOf(cu, i[1] \div heads + 1) :
                                c = <<b, (t * heads + (i[1] % heads)) * w + i[2]>>
        /\ \A c : c \in All <=> /\ CellOf(b, c)
                                /\ \E r \in 1..batch : (c[2] \div w) \div heads \in TokensOf(cu, r)

LEMMA CellAt ==
    ASSUME NEW b, NEW s \in Nat, NEW heads \in Nat \ {0}, NEW h \in Upto(heads),
           NEW w \in Nat \ {0}, NEW l \in Upto(w), NEW c
    PROVE  c = <<b, (s * heads + h) * w + l>> <=>
             CellOf(b, c) /\ (c[2] \div w) \div heads = s /\ (c[2] \div w) % heads = h /\ c[2] % w = l
<1>1. PICK r \in Nat : r = s * heads + h /\ r \div heads = s /\ r % heads = h
  BY DivisionUnique
<1>2. PICK x \in Nat : x = r * w + l /\ x \div w = r /\ x % w = l
  BY DivisionUnique
<1>3. c = <<b, x>> => CellOf(b, c) /\ c[2] = x
  BY DEF CellOf
<1>4. ASSUME CellOf(b, c), (c[2] \div w) \div heads = s, (c[2] \div w) % heads = h, c[2] % w = l
      PROVE  c = <<b, x>>
  <2>1. PICK y \in Nat : y = c[2] /\ c = <<b, y>>
    BY <1>4 DEF CellOf
  <2>2. PICK q \in Nat : q = y \div w /\ y = q * w + l
    BY <1>4, <2>1, DivisionOf
  <2>3. q = s * heads + h
    BY <1>4, <2>1, <2>2, DivisionOf
  <2> QED
    BY <1>1, <1>2, <2>1, <2>2, <2>3
<1> QED
  BY <1>1, <1>2, <1>3, <1>4

LEMMA TokensShared ==
    ASSUME NEW W, NEW b, NEW cu, NEW heads \in Nat \ {0}, NEW w \in Nat \ {0}, NEW All,
           AtTokens(W, b, cu, heads, w, All)
    PROVE  Shares(W, All) /\ \A i \in DOMAIN W : \A c \in W[i] : IsGlobal(c) /\ c[1] = b
<1> DEFINE batch == Len(cu) - 1
           G == Grid(batch * heads, w)
           row(i) == i[1] \div heads + 1
           head(i) == i[1] % heads
<1>1. /\ Starting(cu) /\ DOMAIN W = G
      /\ \A i \in G : \A c :
            c \in W[i] <=> \E t \in TokensOf(cu, row(i)) : c = <<b, (t * heads + head(i)) * w + i[2]>>
      /\ \A c : c \in All <=> /\ CellOf(b, c)
                              /\ \E r \in 1..batch : (c[2] \div w) \div heads \in TokensOf(cu, r)
  BY DEF AtTokens
<1>2. batch \in Nat /\ \A a \in 1..Len(cu) : cu[a] \in Nat
  BY <1>1 DEF Starting
<1>3. \A i \in G : /\ i[1] \in Nat /\ head(i) \in Upto(heads) /\ i[1] \div heads \in Nat
                   /\ row(i) \in 1..batch /\ i[2] \in Upto(w) /\ i = <<i[1], i[2]>>
                   /\ i[1] = (i[1] \div heads) * heads + head(i)
  BY <1>2, GridItem
<1>4. \A r \in 1..batch, h \in Upto(heads), l \in Upto(w) :
         \E i \in G : row(i) = r /\ head(i) = h /\ i[2] = l
  <2>1. \A r \in 1..batch, h \in Upto(heads), l \in Upto(w) : HasItem(batch, heads, w, r, h, l)
    BY <1>2, GridItemOf
  <2> QED
    BY <2>1 DEF HasItem
<1>5. \A r \in 1..batch : TokensOf(cu, r) \subseteq Nat
  <2> SUFFICES ASSUME NEW r \in 1..batch PROVE TokensOf(cu, r) \subseteq Nat
    OBVIOUS
  <2>1. cu[r] \in Nat /\ cu[r + 1] \in Nat
    BY <1>2
  <2> QED
    BY <2>1 DEF TokensOf
<1> HIDE DEF G
<1>6. ASSUME NEW i \in G, NEW c
      PROVE  c \in W[i] <=> /\ CellOf(b, c) /\ (c[2] \div w) \div heads \in TokensOf(cu, row(i))
                            /\ (c[2] \div w) % heads = head(i) /\ c[2] % w = i[2]
  <2>1. PICK h \in Upto(heads), l \in Upto(w) : h = head(i) /\ l = i[2]
    BY <1>3
  <2>2. \A t \in TokensOf(cu, row(i)) :
           c = <<b, (t * heads + h) * w + l>> <=>
             CellOf(b, c) /\ (c[2] \div w) \div heads = t /\ (c[2] \div w) % heads = h /\ c[2] % w = l
    <3>1. TokensOf(cu, row(i)) \subseteq Nat
      BY <1>3, <1>5
    <3>2. \A t \in Nat :
             c = <<b, (t * heads + h) * w + l>> <=>
               CellOf(b, c) /\ (c[2] \div w) \div heads = t /\ (c[2] \div w) % heads = h /\ c[2] % w = l
      BY CellAt
    <3> QED
      BY <3>1, <3>2
  <2> QED
    BY <1>1, <2>1, <2>2
<1> HIDE DEF row, head
<1>7. \A i \in G : W[i] \subseteq All
  BY <1>1, <1>3, <1>6
<1>8. ASSUME NEW c \in All
      PROVE  \E i \in G : c \in W[i]
  <2>1. PICK r \in 1..batch : (c[2] \div w) \div heads \in TokensOf(cu, r)
    BY <1>1
  <2>2. PICK x \in Nat : x = c[2] /\ CellOf(b, c)
    BY <1>1 DEF CellOf
  <2>3. PICK q \in Nat, l \in Upto(w) : q = x \div w /\ l = x % w
    BY DivisionOf
  <2>4. PICK h \in Upto(heads) : h = q % heads
    BY DivisionOf
  <2>5. PICK i \in G : row(i) = r /\ head(i) = h /\ i[2] = l
    BY <1>4
  <2> QED
    BY <1>6, <2>1, <2>2, <2>3, <2>4, <2>5
<1>9. ASSUME NEW i \in G, NEW j \in G, NEW c, c \in W[i], c \in W[j]
      PROVE  i = j
  <2>1. /\ (c[2] \div w) \div heads \in TokensOf(cu, row(i)) /\ (c[2] \div w) % heads = head(i)
        /\ c[2] % w = i[2]
    BY <1>6, <1>9
  <2>2. /\ (c[2] \div w) \div heads \in TokensOf(cu, row(j)) /\ (c[2] \div w) % heads = head(j)
        /\ c[2] % w = j[2]
    BY <1>6, <1>9
  <2>3. row(i) = row(j)
    BY <1>1, <1>3, <2>1, <2>2, TokensApart
  <2>4. i[1] \div heads = j[1] \div heads
    BY <1>3, <2>3 DEF row
  <2>5. i[1] = j[1] /\ i[2] = j[2]
    BY <1>3, <2>1, <2>2, <2>4
  <2> QED
    BY <1>3, <2>5
<1>10. \A i \in DOMAIN W : \A c \in W[i] : IsGlobal(c) /\ c[1] = b
  <2> SUFFICES ASSUME NEW i \in G, NEW c \in W[i] PROVE IsGlobal(c) /\ c[1] = b
    BY <1>1
  <2>1. c = <<b, c[2]>>
    BY <1>6 DEF CellOf
  <2> QED
    BY <2>1, GlobalCell
<1> QED
  BY <1>1, <1>7, <1>8, <1>9, <1>10 DEF Shares

LEMMA TileSizes == ASSUME NEW a \in Nat \ {0}, NEW b \in Nat \ {0} PROVE a * b \in Nat \ {0}
  BY SMT

-----------------------------------------------------------------------------
(* Dot products of lanes, and totals of slabs                               *)

\* Totals with cells of their own, which items share.
TotalEach(A, W, T, All, sums) ==
    /\ Shares(W, All) /\ DOMAIN A = DOMAIN W
    /\ \A i \in DOMAIN W : \A z : z \in A[i] <=> \E c \in W[i] : z \in Into(c, T[c])
    /\ \A z : z \in sums <=> \E c \in All : z \in Into(c, T[c])

LEMMA TotalsShared ==
    ASSUME NEW A, NEW W, NEW T, NEW All, NEW sums, TotalEach(A, W, T, All, sums)
    PROVE  Shares(A, sums)
<1> DEFINE G == DOMAIN W
<1>1. \A z, c : z \in Into(c, T[c]) => z[1] = c
  BY DEF Into
<1>2. \A i \in G : A[i] \subseteq sums
  BY DEF TotalEach, Shares
<1>3. \A z \in sums : \E i \in G : z \in A[i]
  BY DEF TotalEach, Shares
<1>4. ASSUME NEW i \in G, NEW j \in G, NEW z, z \in A[i], z \in A[j]
      PROVE  i = j
  <2>1. PICK c \in W[i] : z \in Into(c, T[c])
    BY <1>4 DEF TotalEach
  <2>2. PICK e \in W[j] : z \in Into(e, T[e])
    BY <1>4 DEF TotalEach
  <2>3. c = e
    BY <1>1, <2>1, <2>2
  <2> QED
    BY <2>3 DEF TotalEach, Shares
<1>5. DOMAIN A = G
  BY DEF TotalEach
<1> HIDE DEF G
<1> QED
  BY <1>2, <1>3, <1>4, <1>5, SharesBy

\* Live items have outputs and a lane; lane 0 stores them, and every lane adds
\* its terms to them.
LanedDots(W, A, live, cells, lane, lanes, terms, out, all) ==
    /\ DOMAIN A = DOMAIN W /\ live \subseteq DOMAIN W
    /\ 0 \in Upto(lanes) /\ DOMAIN terms = Upto(lanes) /\ Shares(terms, all)
    /\ \A i \in DOMAIN W : /\ W[i] = IF i \in live /\ lane[i] = 0 THEN cells[i] ELSE {}
                           /\ A[i] = IF i \in live THEN cells[i] \X terms[lane[i]] ELSE {}
    /\ \A i \in live : lane[i] \in Upto(lanes) /\ cells[i] \subseteq out
    /\ \A i, j \in live : \A c : c \in cells[i] /\ c \in cells[j] /\ lane[i] = lane[j] => i = j
    /\ \A c \in out : \A l \in Upto(lanes) : \E i \in live : c \in cells[i] /\ lane[i] = l

LEMMA LanedShares ==
    ASSUME NEW W, NEW A, NEW live, NEW cells, NEW lane, NEW lanes, NEW terms, NEW out, NEW all,
           LanedDots(W, A, live, cells, lane, lanes, terms, out, all)
    PROVE  Shares(W, out) /\ Shares(A, out \X all)
<1> DEFINE G == DOMAIN W
<1>1. /\ DOMAIN A = G /\ live \subseteq G
      /\ 0 \in Upto(lanes) /\ DOMAIN terms = Upto(lanes) /\ Shares(terms, all)
  BY DEF LanedDots
<1>2. ASSUME NEW i \in G
      PROVE  /\ \A c : c \in W[i] <=> i \in live /\ lane[i] = 0 /\ c \in cells[i]
             /\ \A z : z \in A[i] <=> i \in live /\ z \in cells[i] \X terms[lane[i]]
  BY DEF LanedDots
<1>3. \A i \in live : lane[i] \in Upto(lanes) /\ cells[i] \subseteq out
  BY DEF LanedDots
<1>4. \A i, j \in live : \A c : c \in cells[i] /\ c \in cells[j] /\ lane[i] = lane[j] => i = j
  BY DEF LanedDots
<1>5. \A c \in out : \A l \in Upto(lanes) : \E i \in live : c \in cells[i] /\ lane[i] = l
  BY DEF LanedDots
<1>6. Shares(W, out)
  <2>1. \A i \in G : W[i] \subseteq out
    BY <1>2, <1>3
  <2>2. ASSUME NEW c \in out
        PROVE  \E i \in G : c \in W[i]
    <3>1. PICK i \in live : c \in cells[i] /\ lane[i] = 0
      BY <1>1, <1>5
    <3> QED
      BY <1>1, <1>2, <3>1
  <2>3. \A i, j \in G : \A c : c \in W[i] /\ c \in W[j] => i = j
    BY <1>2, <1>4
  <2> HIDE DEF G
  <2> QED
    BY <2>1, <2>2, <2>3, SharesBy DEF G
<1>7. Shares(A, out \X all)
  <2>1. ASSUME NEW i \in G
        PROVE  A[i] \subseteq out \X all
    <3>1. ASSUME NEW z \in A[i]
          PROVE  z \in out \X all
      <4>1. i \in live /\ z \in cells[i] \X terms[lane[i]]
        BY <1>2
      <4>2. cells[i] \subseteq out /\ terms[lane[i]] \subseteq all
        BY <1>1, <1>3, <4>1 DEF Shares
      <4> QED
        BY <4>1, <4>2
    <3> QED
      BY <3>1
  <2>2. ASSUME NEW z \in out \X all
        PROVE  \E i \in G : z \in A[i]
    <3>1. PICK c \in out, t \in all : z = <<c, t>>
      OBVIOUS
    <3>2. PICK l \in Upto(lanes) : t \in terms[l]
      BY <1>1 DEF Shares
    <3>3. PICK i \in live : c \in cells[i] /\ lane[i] = l
      BY <1>5
    <3>4. z \in cells[i] \X terms[lane[i]] /\ i \in G
      BY <1>1, <3>1, <3>2, <3>3
    <3> QED
      BY <1>2, <3>4
  <2>3. ASSUME NEW i \in G, NEW j \in G, NEW z, z \in A[i], z \in A[j]
        PROVE  i = j
    <3>1. i \in live /\ j \in live /\ z \in cells[i] \X terms[lane[i]] /\ z \in cells[j] \X terms[lane[j]]
      BY <1>2, <2>3
    <3>2. PICK c \in cells[i], t \in terms[lane[i]] : z = <<c, t>>
      BY <3>1
    <3>3. c \in cells[j] /\ t \in terms[lane[j]]
      BY <3>1, <3>2
    <3>4. lane[i] = lane[j]
      BY <1>1, <1>3, <3>1, <3>2, <3>3 DEF Shares
    <3> QED
      BY <1>4, <3>1, <3>3, <3>4
  <2> HIDE DEF G
  <2> QED
    BY <1>1, <2>1, <2>2, <2>3, SharesBy DEF G
<1> QED
  BY <1>6, <1>7

\* What items share under one name they share under another.
Renamed(A, B, N, All, Names) ==
    /\ DOMAIN B = DOMAIN A
    /\ \A i \in DOMAIN A : \A y : y \in B[i] <=> \E z \in A[i] : y = N[z]
    /\ \A y : y \in Names <=> \E z \in All : y = N[z]
    /\ \A x, z \in All : N[x] = N[z] => x = z

LEMMA NamesShared ==
    ASSUME NEW A, NEW B, NEW N, NEW All, NEW Names, Shares(A, All), Renamed(A, B, N, All, Names)
    PROVE  Shares(B, Names)
<1>1. ASSUME NEW i \in DOMAIN A
      PROVE  B[i] \subseteq Names
  BY DEF Shares, Renamed
<1>2. ASSUME NEW y \in Names
      PROVE  \E i \in DOMAIN A : y \in B[i]
  <2>1. PICK z \in All : y = N[z]
    BY DEF Renamed
  <2>2. PICK i \in DOMAIN A : z \in A[i]
    BY DEF Shares
  <2> QED
    BY <2>1, <2>2 DEF Renamed
<1>3. ASSUME NEW i \in DOMAIN A, NEW j \in DOMAIN A, NEW y, y \in B[i], y \in B[j]
      PROVE  i = j
  <2>1. PICK x \in A[i] : y = N[x]
    BY <1>3 DEF Renamed
  <2>2. PICK z \in A[j] : y = N[z]
    BY <1>3 DEF Renamed
  <2>3. x \in All /\ z \in All
    BY DEF Shares
  <2>4. x = z
    BY <2>1, <2>2, <2>3 DEF Renamed
  <2> QED
    BY <2>4 DEF Shares
<1>4. DOMAIN B = DOMAIN A
  BY DEF Renamed
<1> QED
  BY <1>1, <1>2, <1>3, <1>4, SharesBy

\* A kernel of two phases that reads nothing: the first adds up, the second stores.
LEMMA AddThenPut ==
    ASSUME NEW k, NEW d, NEW e, NEW out, NEW sums, NEW W, NEW A,
           k = Kernel(<<d, e>>, out, sums), DOMAIN W = DOMAIN d, DOMAIN A = DOMAIN d,
           \A i \in DOMAIN d : /\ d[i].rd = {} /\ d[i].wr = {} /\ d[i].add = A[i]
                               /\ e[i].rd = {} /\ e[i].wr = W[i] /\ e[i].add = {}
                               /\ \A c \in W[i] : IsGlobal(c),
           Shares(W, out), Shares(A, sums)
    PROVE  KernelRight(k)
<1>1. /\ Items(k) = DOMAIN d /\ k.out = out /\ k.sums = sums
      /\ \A i : /\ Wrote(k, i) = d[i].wr \cup e[i].wr
                /\ Touched(k, i) = d[i].wr \cup e[i].wr \cup d[i].rd \cup e[i].rd
                /\ Added(k, i) = d[i].add \cup e[i].add
  BY TwoPhases
<1>2. ASSUME NEW i \in DOMAIN d
      PROVE  Wrote(k, i) = W[i] /\ Touched(k, i) \subseteq W[i] /\ Added(k, i) = A[i]
  <2>1. /\ Wrote(k, i) = d[i].wr \cup e[i].wr
        /\ Touched(k, i) = d[i].wr \cup e[i].wr \cup d[i].rd \cup e[i].rd
        /\ Added(k, i) = d[i].add \cup e[i].add
    BY <1>1
  <2>2. /\ d[i].rd = {} /\ d[i].wr = {} /\ d[i].add = A[i]
        /\ e[i].rd = {} /\ e[i].wr = W[i] /\ e[i].add = {}
    OBVIOUS
  <2> QED
    BY <2>1, <2>2
<1>3. OwnedApart(k, W, W, A)
  BY <1>1, <1>2 DEF OwnedApart, Shares
<1> QED
  BY <1>3, OwnersRight

\* The positions of a slab that K has.
LEMMA SlabTerms ==
    ASSUME NEW K \in Nat, NEW slab \in Nat \ {0}, NEW s \in Nat
    PROVE  (s * slab)..((IF s * slab + slab < K THEN s * slab + slab ELSE K) - 1)
             = {x \in Upto(K) : x \div slab = s}
<1>1. PICK lo \in Nat : lo = s * slab
  BY ProductNat
<1>2. ASSUME NEW x \in Nat
      PROVE  x \div slab = s <=> lo <= x /\ x < lo + slab
  <2>1. PICK q \in Nat, r \in Nat : q = x \div slab /\ r < slab /\ x = q * slab + r
    <3>1. x \div slab \in Nat /\ x % slab \in Upto(slab) /\ x = (x \div slab) * slab + (x % slab)
      BY DivisionOf
    <3>2. x % slab \in Nat /\ x % slab < slab
      BY <3>1 DEF Upto
    <3> QED
      BY <3>1, <3>2
  <2>2. ASSUME q = s
        PROVE  lo <= x /\ x < lo + slab
    BY <1>1, <2>1, <2>2
  <2>3. ASSUME lo <= x, x < lo + slab
        PROVE  q = s
    <3>1. PICK t \in Upto(slab) : t = x - lo
      BY <2>3 DEF Upto
    <3>2. x = s * slab + t
      BY <1>1, <3>1 DEF Upto
    <3>3. (s * slab + t) \div slab = s
      BY DivisionUnique
    <3> QED
      BY <2>1, <3>2, <3>3
  <2> QED
    BY <2>1, <2>2, <2>3
<1>3. PICK hi \in Int : hi = (IF lo + slab < K THEN lo + slab ELSE K) - 1
  OBVIOUS
<1>4. \A x : x \in lo..hi <=> x \in Upto(K) /\ lo <= x /\ x < lo + slab
  BY <1>3 DEF Upto
<1>5. \A x \in Upto(K) : x \in Nat
  BY DEF Upto
<1>6. lo..hi = {x \in Upto(K) : x \div slab = s}
  BY <1>2, <1>4, <1>5
<1> QED
  BY <1>1, <1>3, <1>6

-----------------------------------------------------------------------------
(* Tokens of a sequence, in turn                                            *)

\* Phases with one before and one after them.
Frames(ph, a, m, z, n) ==
    /\ DOMAIN ph = 1..(n + 2)
    /\ ph[1] = a /\ ph[n + 2] = z
    /\ \A q \in 1..n : ph[q + 1] = m[q]

LEMMA Framed ==
    ASSUME NEW n \in Nat, NEW m, m = [q \in 1..n |-> m[q]], NEW a, NEW z, NEW ph, ph = <<a>> \o m \o <<z>>
    PROVE  Frames(ph, a, m, z, n)
<1> DEFINE s == <<a>> \o m
           X == {m[q] : q \in 1..n} \cup {a}
<1>1. m \in Seq(X) /\ Len(m) = n
  <2>1. \A q \in 1..n : m[q] \in X
    OBVIOUS
  <2> HIDE DEF X
  <2>2. m \in [1..n -> X]
    BY <2>1
  <2>3. Len(m) = n
    BY LengthOf
  <2> QED
    BY <2>2, <2>3
<1>2. <<a>> \in Seq(X) /\ Len(<<a>>) = 1 /\ <<a>>[1] = a
  OBVIOUS
<1> HIDE DEF X
<1>3. Len(s) = n + 1 /\ s \in Seq(X)
  BY <1>1, <1>2
<1>4. s[1] = a /\ \A q \in 1..n : s[q + 1] = m[q]
  BY <1>1, <1>2
<1>5. s = [q \in 1..(n + 1) |-> s[q]]
  BY <1>3
<1>6. ph = s \o <<z>>
  OBVIOUS
<1> HIDE DEF s
<1>7. /\ DOMAIN (s \o <<z>>) = 1..((n + 1) + 1)
      /\ \A q \in 1..(n + 1) : (s \o <<z>>)[q] = s[q]
      /\ (s \o <<z>>)[(n + 1) + 1] = z
  BY <1>5, Append1
<1>8. (n + 1) + 1 = n + 2 /\ 1 \in 1..(n + 1) /\ \A q \in 1..n : q + 1 \in 1..(n + 1)
  OBVIOUS
<1> QED
  BY <1>4, <1>6, <1>7, <1>8 DEF Frames

\* The steps a varlen kernel takes: as many as its longest row has tokens.
LongestOf(cu, batch) ==
    CHOOSE n \in 0..cu[batch + 1] :
      /\ \A b \in 1..batch : cu[b + 1] - cu[b] <= n
      /\ \E b \in 1..batch : cu[b + 1] - cu[b] = n

LEMMA LongestIs ==
    ASSUME NEW cu, Starting(cu), NEW batch \in Nat \ {0}, batch = Len(cu) - 1
    PROVE  LongestOf(cu, batch) \in Nat /\ \A b \in 1..batch : cu[b + 1] - cu[b] <= LongestOf(cu, batch)
<1> DEFINE len(b) == cu[b + 1] - cu[b]
           last == cu[batch + 1]
           S == {last - len(b) : b \in 1..batch}
<1>1. /\ \A a \in 1..Len(cu) : cu[a] \in Nat
      /\ \A a, e \in 1..Len(cu) : a <= e => cu[a] <= cu[e]
      /\ batch + 1 = Len(cu) /\ last \in Nat
  BY DEF Starting
<1>2. \A b \in 1..batch : len(b) \in 0..last /\ last - len(b) \in Nat
  <2> SUFFICES ASSUME NEW b \in 1..batch
               PROVE  len(b) \in 0..last /\ last - len(b) \in Nat
    OBVIOUS
  <2>1. b \in 1..Len(cu) /\ b + 1 \in 1..Len(cu) /\ batch + 1 \in 1..Len(cu)
    BY <1>1
  <2>2. cu[b] <= cu[b + 1] /\ cu[b + 1] <= last /\ cu[b] \in Nat /\ cu[b + 1] \in Nat
    BY <1>1, <2>1
  <2>3. PICK x \in Nat, y \in Nat, l \in Nat : x = cu[b] /\ y = cu[b + 1] /\ l = last
    BY <1>1, <2>2
  <2>4. y - x \in 0..l /\ l - (y - x) \in Nat
    BY <2>2, <2>3
  <2> HIDE DEF last
  <2> QED
    BY <2>3, <2>4
<1>3. PICK m \in S : \A a \in S : m <= a
  <2>1. S \in SUBSET Nat /\ S # {}
    <3>1. 1 \in 1..batch
      OBVIOUS
    <3> HIDE DEF len, last
    <3> QED
      BY <1>2, <3>1
  <2> HIDE DEF S
  <2> QED
    BY <2>1, LeastOf
<1>4. PICK b \in 1..batch : m = last - len(b)
  BY <1>3
<1>5. \A a \in 1..batch : len(a) <= len(b)
  <2>1. \A a \in 1..batch : m <= last - len(a)
    BY <1>3
  <2> HIDE DEF len, last
  <2> QED
    BY <1>1, <1>2, <1>4, <2>1, SMTT(30)
<1>6. \E n \in 0..last : /\ \A e \in 1..batch : len(e) <= n
                         /\ \E e \in 1..batch : len(e) = n
  BY <1>2, <1>5
<1> DEFINE L == LongestOf(cu, batch)
<1>7. L \in 0..last /\ \A e \in 1..batch : len(e) <= L
  BY <1>6 DEF LongestOf
<1> HIDE DEF L
<1>8. L \in Nat /\ \A e \in 1..batch : cu[e + 1] - cu[e] <= L
  BY <1>1, <1>7
<1> QED
  BY <1>8 DEF L

\* The cells of n tokens from token a on.
Block(b, a, n, heads, w) == At(b, a * heads * w, Upto(n * heads * w))

LEMMA InBlock ==
    ASSUME NEW b, NEW a \in Nat, NEW n \in Nat, NEW heads \in Nat \ {0}, NEW w \in Nat \ {0}, NEW c
    PROVE  c \in Block(b, a, n, heads, w) <=>
             CellOf(b, c) /\ (c[2] \div w) \div heads \in a..(a + n - 1)
<1>1. PICK lo \in Nat, size \in Nat : lo = a * heads * w /\ size = n * heads * w
  <2>1. a * heads \in Nat /\ n * heads \in Nat
    BY ProductNat
  <2> QED
    BY <2>1, ProductNat
<1>2. (a + n) * heads * w = lo + size
  <2>1. (a + n) * heads = a * heads + n * heads
    OBVIOUS
  <2>2. PICK x \in Nat, y \in Nat : x = a * heads /\ y = n * heads
    BY ProductNat
  <2>3. (x + y) * w = x * w + y * w
    OBVIOUS
  <2> QED
    BY <1>1, <2>1, <2>2, <2>3
<1>3. c \in At(b, lo, Upto(size)) <=> CellOf(b, c) /\ lo <= c[2] /\ c[2] < lo + size
  <2>1. \A x \in Upto(size) : lo + x \in Nat /\ lo <= lo + x /\ lo + x < lo + size
    BY DEF Upto
  <2>2. \A x \in Nat : lo <= x /\ x < lo + size => x - lo \in Upto(size) /\ x = lo + (x - lo)
    BY DEF Upto
  <2>3. \A x : <<b, x>>[2] = x
    OBVIOUS
  <2>4. c \in At(b, lo, Upto(size)) <=> \E x \in Upto(size) : c = <<b, lo + x>>
    BY DEF At
  <2>5. ASSUME NEW x \in Upto(size), c = <<b, lo + x>>
        PROVE  CellOf(b, c) /\ lo <= c[2] /\ c[2] < lo + size
    BY <2>1, <2>3, <2>5 DEF CellOf
  <2>6. ASSUME CellOf(b, c), lo <= c[2], c[2] < lo + size
        PROVE  \E x \in Upto(size) : c = <<b, lo + x>>
    <3>1. PICK y \in Nat : y = c[2] /\ c = <<b, y>>
      BY <2>6 DEF CellOf
    <3>2. y - lo \in Upto(size) /\ y = lo + (y - lo)
      BY <2>2, <2>6, <3>1
    <3> QED
      BY <3>1, <3>2
  <2> QED
    BY <2>4, <2>5, <2>6
<1>4. ASSUME NEW x \in Nat
      PROVE  lo <= x /\ x < lo + size <=> (x \div w) \div heads \in a..(a + n - 1)
  <2>1. PICK q \in Nat : q = x \div w
    BY DivisionOf
  <2>2. PICK t \in Nat : t = q \div heads
    BY DivisionOf
  <2>3. \A z \in Nat : t < z <=> q < z * heads
    BY <2>2, QuotientBelow
  <2>4. \A z \in Nat : q < z <=> x < z * w
    BY <2>1, QuotientBelow
  <2>5. a * heads \in Nat /\ (a + n) * heads \in Nat /\ a + n \in Nat
    BY ProductNat
  <2>6. (t < a <=> x < lo) /\ (t < a + n <=> x < lo + size)
    BY <1>1, <1>2, <2>3, <2>4, <2>5
  <2>7. t \in a..(a + n - 1) <=> ~(t < a) /\ t < a + n
    OBVIOUS
  <2> QED
    BY <2>1, <2>2, <2>6, <2>7
<1> QED
  BY <1>1, <1>3, <1>4 DEF CellOf, Block

\* Which of its framed phases p is: the first, the last, or one of a pair.
PhaseIs(p, n) ==
    \/ p = 1
    \/ p = n + 2
    \/ \E t \in Nat : 2 * t + 1 \in 1..n /\ p = (2 * t + 1) + 1
    \/ \E t \in Nat : 2 * t + 2 \in 1..n /\ 2 * t + 1 \in 1..n /\ p = (2 * t + 2) + 1

LEMMA PhaseParity ==
    ASSUME NEW n \in Nat, NEW p \in 1..(n + 2)
    PROVE  PhaseIs(p, n)
<1>1. CASE p # 1 /\ p # n + 2
  <2>1. PICK q \in Nat : q = p - 2 /\ q < n
    BY <1>1
  <2>2. q \div 2 \in Nat /\ (q = 2 * (q \div 2) \/ q = 2 * (q \div 2) + 1)
    BY <2>1
  <2>3. PICK t \in Nat : q = 2 * t \/ q = 2 * t + 1
    BY <2>2
  <2>4. ASSUME q = 2 * t
        PROVE  2 * t + 1 \in 1..n /\ p = (2 * t + 1) + 1
    BY <2>1, <2>3, <2>4
  <2>5. ASSUME q = 2 * t + 1
        PROVE  2 * t + 2 \in 1..n /\ 2 * t + 1 \in 1..n /\ p = (2 * t + 2) + 1
    BY <2>1, <2>3, <2>5
  <2> QED
    BY <2>3, <2>4, <2>5 DEF PhaseIs
<1> QED
  BY <1>1 DEF PhaseIs

\* The cell of a token's head and lane.
TokenCell(b, t, heads, h, w, l) == <<b, (t * heads + h) * w + l>>

LEMMA TokenCellIs ==
    ASSUME NEW b, NEW t \in Nat, NEW heads \in Nat \ {0}, NEW h \in Upto(heads),
           NEW w \in Nat \ {0}, NEW l \in Upto(w), NEW c, c = TokenCell(b, t, heads, h, w, l)
    PROVE  /\ CellOf(b, c) /\ (c[2] \div w) \div heads = t
           /\ (c[2] \div w) % heads = h /\ c[2] % w = l
<1>1. PICK a \in Nat : a = t * heads + h /\ a \div heads = t /\ a % heads = h
  BY DivisionUnique
<1>2. PICK x \in Nat : x = a * w + l /\ x \div w = a /\ x % w = l
  BY DivisionUnique
<1>3. c = <<b, x>>
  BY <1>1, <1>2 DEF TokenCell
<1> QED
  BY <1>1, <1>2, <1>3 DEF CellOf

-----------------------------------------------------------------------------
(* Query and key heads of a token, numbered together and stored apart       *)

IsKeyHead(g, heads, kv) == g % (heads + kv) >= heads

HeadRow(g, heads, kv) ==
    LET t == g \div (heads + kv)
        ch == g % (heads + kv)
    IN  IF ch >= heads THEN t * kv + ch - heads ELSE t * heads + ch

HeadsIn(key, tokens, heads, kv) == tokens * (IF key THEN kv ELSE heads)

KeyAt(g, t, c, heads, kv) == t \in Nat /\ c \in Upto(kv) /\ g % (heads + kv) = heads + c /\ g \div (heads + kv) = t

QueryAt(g, t, c, heads, kv) == t \in Nat /\ c \in Upto(heads) /\ g % (heads + kv) = c /\ g \div (heads + kv) = t

LEMMA HeadKinds ==
    ASSUME NEW heads \in Nat \ {0}, NEW kv \in Nat \ {0}, NEW g \in Nat
    PROVE  /\ IsKeyHead(g, heads, kv) => \E t \in Nat, c \in Upto(kv) :
                 KeyAt(g, t, c, heads, kv) /\ HeadRow(g, heads, kv) = t * kv + c
           /\ ~IsKeyHead(g, heads, kv) => \E t \in Nat, c \in Upto(heads) :
                 QueryAt(g, t, c, heads, kv) /\ HeadRow(g, heads, kv) = t * heads + c
<1>1. PICK n \in Nat \ {0} : n = heads + kv
  OBVIOUS
<1>2. PICK t \in Nat, ch \in Nat : t = g \div n /\ ch = g % n /\ ch < n
  <2>1. g \div n \in Nat /\ g % n \in Upto(n)
    BY DivisionOf
  <2> QED
    BY <2>1 DEF Upto
<1>3. ASSUME ch >= heads
      PROVE  \E c \in Upto(kv) : KeyAt(g, t, c, heads, kv) /\ HeadRow(g, heads, kv) = t * kv + c
  <2>0. ch - heads \in Upto(kv)
    BY <1>1, <1>2, <1>3 DEF Upto
  <2>1. PICK c \in Upto(kv) : c = ch - heads
    BY <2>0
  <2>2. PICK x \in Nat : x = t * kv
    BY ProductNat
  <2>3. x + ch - heads = x + c
    BY <1>2, <2>1, <2>2
  <2>4. HeadRow(g, heads, kv) = t * kv + ch - heads
    BY <1>1, <1>2, <1>3 DEF HeadRow
  <2>5. heads + c = ch
    BY <1>2, <2>1
  <2>6. KeyAt(g, t, c, heads, kv)
    BY <1>1, <1>2, <2>1, <2>5 DEF KeyAt
  <2> QED
    BY <2>1, <2>2, <2>3, <2>4, <2>6
<1>4. ASSUME ~(ch >= heads)
      PROVE  \E c \in Upto(heads) : QueryAt(g, t, c, heads, kv) /\ HeadRow(g, heads, kv) = t * heads + c
  <2>1. ch \in Upto(heads)
    BY <1>2, <1>4 DEF Upto
  <2>2. HeadRow(g, heads, kv) = t * heads + ch
    BY <1>1, <1>2, <1>4 DEF HeadRow
  <2>3. QueryAt(g, t, ch, heads, kv)
    BY <1>1, <1>2, <2>1 DEF QueryAt
  <2> QED
    BY <2>1, <2>2, <2>3
<1>5. IsKeyHead(g, heads, kv) <=> ch >= heads
  BY <1>1, <1>2 DEF IsKeyHead
<1> QED
  BY <1>2, <1>3, <1>4, <1>5

LEMMA HeadRowIs ==
    ASSUME NEW heads \in Nat \ {0}, NEW kv \in Nat \ {0}, NEW tokens \in Nat, NEW g \in Nat,
           g < tokens * (heads + kv)
    PROVE  HeadRow(g, heads, kv) \in Upto(HeadsIn(IsKeyHead(g, heads, kv), tokens, heads, kv))
<1>1. PICK n \in Nat \ {0} : n = heads + kv
  OBVIOUS
<1>2. g \div n < tokens
  BY <1>1, QuotientBelow
<1>3. ASSUME NEW t \in Nat, t < tokens, NEW w \in Nat \ {0}, NEW c \in Upto(w)
      PROVE  t * w + c \in Upto(tokens * w)
  <2>1. PICK x \in Nat : x = t * w + c /\ x \div w = t
    BY DivisionUnique
  <2>2. x < tokens * w
    BY <1>3, <2>1, QuotientBelow
  <2>3. tokens * w \in Nat
    BY ProductNat
  <2> QED
    BY <2>1, <2>2, <2>3 DEF Upto
<1>4. CASE IsKeyHead(g, heads, kv)
  <2>1. PICK t \in Nat, c \in Upto(kv) : KeyAt(g, t, c, heads, kv) /\ HeadRow(g, heads, kv) = t * kv + c
    BY <1>4, HeadKinds
  <2>2. t < tokens
    BY <1>1, <1>2, <2>1 DEF KeyAt
  <2>3. t * kv + c \in Upto(tokens * kv)
    BY <1>3, <2>1, <2>2
  <2> QED
    BY <1>4, <2>1, <2>3 DEF HeadsIn
<1>5. CASE ~IsKeyHead(g, heads, kv)
  <2>1. PICK t \in Nat, c \in Upto(heads) : QueryAt(g, t, c, heads, kv) /\ HeadRow(g, heads, kv) = t * heads + c
    BY <1>5, HeadKinds
  <2>2. t < tokens
    BY <1>1, <1>2, <2>1 DEF QueryAt
  <2>3. t * heads + c \in Upto(tokens * heads)
    BY <1>3, <2>1, <2>2
  <2> QED
    BY <1>5, <2>1, <2>3 DEF HeadsIn
<1> QED
  BY <1>4, <1>5

LEMMA HeadRowApart ==
    ASSUME NEW heads \in Nat \ {0}, NEW kv \in Nat \ {0}, NEW g \in Nat, NEW h \in Nat,
           IsKeyHead(g, heads, kv) <=> IsKeyHead(h, heads, kv),
           HeadRow(g, heads, kv) = HeadRow(h, heads, kv)
    PROVE  g = h
<1>1. PICK n \in Nat \ {0} : n = heads + kv
  OBVIOUS
<1>2. g = (g \div n) * n + (g % n) /\ h = (h \div n) * n + (h % n)
  BY DivisionOf
<1>3. CASE IsKeyHead(g, heads, kv)
  <2>1. PICK t \in Nat, c \in Upto(kv) : KeyAt(g, t, c, heads, kv) /\ HeadRow(g, heads, kv) = t * kv + c
    BY <1>3, HeadKinds
  <2>2. PICK u \in Nat, d \in Upto(kv) : KeyAt(h, u, d, heads, kv) /\ HeadRow(h, heads, kv) = u * kv + d
    BY <1>3, HeadKinds
  <2>3. PICK x \in Nat : x = t * kv + c /\ x \div kv = t /\ x % kv = c
    BY <2>1, DivisionUnique
  <2>4. PICK y \in Nat : y = u * kv + d /\ y \div kv = u /\ y % kv = d
    BY <2>2, DivisionUnique
  <2>5. t = u /\ c = d
    BY <2>1, <2>2, <2>3, <2>4
  <2> QED
    BY <1>1, <1>2, <2>1, <2>2, <2>5 DEF KeyAt
<1>4. CASE ~IsKeyHead(g, heads, kv)
  <2>1. PICK t \in Nat, c \in Upto(heads) : QueryAt(g, t, c, heads, kv) /\ HeadRow(g, heads, kv) = t * heads + c
    BY <1>4, HeadKinds
  <2>2. PICK u \in Nat, d \in Upto(heads) : QueryAt(h, u, d, heads, kv) /\ HeadRow(h, heads, kv) = u * heads + d
    BY <1>4, HeadKinds
  <2>3. PICK x \in Nat : x = t * heads + c /\ x \div heads = t /\ x % heads = c
    BY <2>1, DivisionUnique
  <2>4. PICK y \in Nat : y = u * heads + d /\ y \div heads = u /\ y % heads = d
    BY <2>2, DivisionUnique
  <2>5. t = u /\ c = d
    BY <2>1, <2>2, <2>3, <2>4
  <2> QED
    BY <1>1, <1>2, <2>1, <2>2, <2>5 DEF QueryAt
<1> QED
  BY <1>3, <1>4

HasHead(key, tokens, heads, kv, r) ==
    \E g \in Upto(tokens * (heads + kv)) : g \in Nat /\ (IsKeyHead(g, heads, kv) <=> key) /\ HeadRow(g, heads, kv) = r

LEMMA HeadRowOf ==
    ASSUME NEW heads \in Nat \ {0}, NEW kv \in Nat \ {0}, NEW tokens \in Nat, NEW key \in BOOLEAN,
           NEW r \in Upto(HeadsIn(key, tokens, heads, kv))
    PROVE  HasHead(key, tokens, heads, kv, r)
<1>1. PICK n \in Nat \ {0} : n = heads + kv
  OBVIOUS
<1>2. PICK w \in Nat \ {0}, base \in Nat :
        w = (IF key THEN kv ELSE heads) /\ base = (IF key THEN heads ELSE 0) /\ base + w <= n
  BY <1>1
<1>3. r \in Nat /\ r < tokens * w
  <2>1. tokens * w \in Nat
    BY <1>2, ProductNat
  <2> QED
    BY <1>2, <2>1 DEF HeadsIn, Upto
<1>4. PICK t \in Nat, c \in Upto(w) : t = r \div w /\ c = r % w /\ r = t * w + c /\ t < tokens
  <2>1. r \div w \in Nat /\ r % w \in Upto(w) /\ r = (r \div w) * w + (r % w)
    BY <1>2, <1>3, DivisionOf
  <2>2. r \div w < tokens
    BY <1>2, <1>3, QuotientBelow
  <2> QED
    BY <2>1, <2>2
<1>5. PICK ch \in Upto(n) : ch = base + c
  BY <1>1, <1>2, <1>4 DEF Upto
<1>6. PICK g \in Nat : g = t * n + ch /\ g \div n = t /\ g % n = ch
  BY <1>4, <1>5, DivisionUnique, ZenonT(40)
<1>7. g \in Upto(tokens * n)
  <2>1. tokens * n \in Nat /\ g < tokens * n
    BY <1>4, <1>6, ProductNat, QuotientBelow
  <2> QED
    BY <1>6, <2>1 DEF Upto
<1>8. (IsKeyHead(g, heads, kv) <=> key) /\ HeadRow(g, heads, kv) = r
  <2>1. PICK x \in Nat : x = t * w
    BY <1>2, <1>4, ProductNat
  <2>2. c \in Nat /\ c < w
    BY <1>2, <1>4 DEF Upto
  <2>3. CASE key
    <3>1. ch = heads + c /\ ch >= heads /\ w = kv
      BY <1>2, <1>5, <2>2, <2>3
    <3>2. HeadRow(g, heads, kv) = t * kv + ch - heads /\ IsKeyHead(g, heads, kv)
      BY <1>1, <1>6, <3>1 DEF HeadRow, IsKeyHead
    <3>3. x + ch - heads = x + c
      BY <2>1, <2>2, <3>1
    <3> QED
      BY <1>4, <2>1, <2>3, <3>1, <3>2, <3>3
  <2>4. CASE ~key
    <3>1. ch = c /\ ~(ch >= heads) /\ w = heads
      BY <1>2, <1>5, <2>2, <2>4
    <3>2. HeadRow(g, heads, kv) = t * heads + ch /\ ~IsKeyHead(g, heads, kv)
      BY <1>1, <1>6, <3>1 DEF HeadRow, IsKeyHead
    <3> QED
      BY <1>4, <2>4, <3>1, <3>2
  <2> QED
    BY <2>3, <2>4
<1> QED
  BY <1>1, <1>6, <1>7, <1>8 DEF HasHead

-----------------------------------------------------------------------------
(* The pairs and the copies of a head                                       *)

HeadName(key) == IF key THEN "K" ELSE "Q"

HeadCopies(key, halfOut) ==
    IF key THEN (IF halfOut THEN {"K", "K_f16"} ELSE {"K"}) ELSE (IF halfOut THEN {"Q", "Q_f16"} ELSE {"Q"})

LEMMA CopiesApart ==
    ASSUME NEW key \in BOOLEAN, NEW other \in BOOLEAN, NEW halfOut \in BOOLEAN, NEW b,
           b \in HeadCopies(key, halfOut), b \in HeadCopies(other, halfOut)
    PROVE  key = other
<1> QED
  BY DEF HeadCopies

LEMMA NameCopied ==
    ASSUME NEW key \in BOOLEAN, NEW halfOut \in BOOLEAN
    PROVE  HeadName(key) \in HeadCopies(key, halfOut)
<1> QED
  BY DEF HeadCopies, HeadName

\* The pairs a lane rotates: both halves of the head, strided alike.
RopePairs(lane, sub, half) == UNION {{p, p + half} : p \in Stride(lane, sub, half)}

LEMMA RopePairsAre ==
    ASSUME NEW sub \in Nat \ {0}, NEW lane \in Upto(sub), NEW half \in Nat \ {0}, NEW x
    PROVE  x \in RopePairs(lane, sub, half) <=> x \in Nat /\ x < 2 * half /\ (x % half) % sub = lane
<1>1. ASSUME x \in RopePairs(lane, sub, half)
      PROVE  x \in Nat /\ x < 2 * half /\ (x % half) % sub = lane
  <2>1. PICK p \in Stride(lane, sub, half) : x = p \/ x = p + half
    BY <1>1 DEF RopePairs
  <2>2. p \in Nat /\ p < half /\ p % sub = lane
    BY <2>1, StrideIs
  <2>3. p \in Upto(half)
    BY <2>2 DEF Upto
  <2>4. (0 * half + p) % half = p /\ (1 * half + p) % half = p
    BY <2>3, DivisionUnique
  <2>5. 0 * half + p = p /\ 1 * half + p = p + half
    BY <2>2
  <2>6. x % half = p
    BY <2>1, <2>4, <2>5
  <2> QED
    BY <2>1, <2>2, <2>6
<1>2. ASSUME x \in Nat, x < 2 * half, (x % half) % sub = lane
      PROVE  x \in RopePairs(lane, sub, half)
  <2>1. PICK p \in Upto(half) : p = x % half
    BY <1>2, DivisionOf
  <2>2. p \in Nat /\ p < half /\ p % sub = lane
    BY <1>2, <2>1 DEF Upto
  <2>3. p \in Stride(lane, sub, half)
    BY <2>2, StrideIs
  <2>4. x \div half \in Nat /\ x \div half < 2 /\ x = (x \div half) * half + p
    BY <1>2, <2>1, DivisionOf, QuotientBelow
  <2>5. PICK q \in {0, 1} : q = x \div half
    BY <2>4
  <2>6. x = 0 * half + p \/ x = 1 * half + p
    BY <2>4, <2>5
  <2>7. 0 * half + p = p /\ 1 * half + p = p + half
    BY <2>2
  <2> QED
    BY <2>3, <2>6, <2>7 DEF RopePairs
<1> QED
  BY <1>1, <1>2

\* Cell c of buffer b is in the row of head g.
OfHead(c, b, g, heads, kv, dim) == CellOf(b, c) /\ c[2] \div dim = HeadRow(g, heads, kv)

LEMMA OfHeadApart ==
    ASSUME NEW heads \in Nat \ {0}, NEW kv \in Nat \ {0}, NEW dim, NEW g \in Nat, NEW h \in Nat,
           NEW halfOut \in BOOLEAN, NEW c, NEW a \in HeadCopies(IsKeyHead(g, heads, kv), halfOut),
           NEW b \in HeadCopies(IsKeyHead(h, heads, kv), halfOut),
           OfHead(c, a, g, heads, kv, dim), OfHead(c, b, h, heads, kv, dim)
    PROVE  g = h
<1>1. a = b /\ HeadRow(g, heads, kv) = HeadRow(h, heads, kv)
  BY DEF OfHead, CellOf
<1>2. IsKeyHead(g, heads, kv) \in BOOLEAN /\ IsKeyHead(h, heads, kv) \in BOOLEAN
  BY DEF IsKeyHead
<1>3. IsKeyHead(g, heads, kv) = IsKeyHead(h, heads, kv)
  BY <1>1, <1>2, CopiesApart
<1> QED
  BY <1>1, <1>3, HeadRowApart

-----------------------------------------------------------------------------
(* Pairs that a pass exchanges                                              *)

LEMMA PassDistance ==
    ASSUME NEW p \in 1..4
    PROVE  2 ^ (p - 1) \in Nat \ {0}
<1>0. 2 ^ 0 = 1 /\ 2 ^ 1 = 2 /\ 2 ^ 2 = 4 /\ 2 ^ 3 = 8
  OBVIOUS
<1>1. p - 1 = 0 \/ p - 1 = 1 \/ p - 1 = 2 \/ p - 1 = 3
  OBVIOUS
<1>2. 2 ^ (p - 1) = 1 \/ 2 ^ (p - 1) = 2 \/ 2 ^ (p - 1) = 4 \/ 2 ^ (p - 1) = 8
  BY <1>0, <1>1, Zenon
<1> QED
  BY <1>2

\* Element e is of pair p at distance s.
PairAt(e, p, s) == LET b == (p \div s) * (2 * s) + (p % s) IN e = b \/ e = b + s

LEMMA PairsApart ==
    ASSUME NEW s \in Nat \ {0}, NEW p \in Nat, NEW q \in Nat, NEW e, PairAt(e, p, s), PairAt(e, q, s)
    PROVE  p = q
<1> DEFINE Base(x) == (x \div s) * (2 * s) + (x % s)
<1>1. ASSUME NEW x \in Nat, PairAt(e, x, s)
      PROVE  e \div (2 * s) = x \div s /\ e % s = x % s
  <2>1. PICK a \in Nat, r \in Upto(s) : a = x \div s /\ r = x % s
    BY DivisionOf
  <2>2. r \in Nat /\ r < s
    BY <2>1 DEF Upto
  <2>3. PICK t \in Nat \ {0} : t = 2 * s
    OBVIOUS
  <2>4. PICK y \in {r, r + s} : e = a * t + y
    <3>1. PICK z \in Nat : z = a * t
      BY <2>1, <2>3, ProductNat
    <3>2. e = z + r \/ e = (z + r) + s
      BY <1>1, <2>1, <2>3, <3>1 DEF PairAt
    <3>3. e = z + r \/ e = z + (r + s)
      BY <2>2, <3>1, <3>2
    <3> QED
      BY <3>1, <3>3
  <2>5. y \in Upto(t) /\ y \in Nat
    BY <2>2, <2>3, <2>4 DEF Upto
  <2>6. e \div t = a
    BY <2>1, <2>3, <2>4, <2>5, DivisionUnique
  <2>7. PICK u \in Nat : u = 2 * a \/ u = 2 * a + 1
    BY <2>1
  <2>8. \E v \in Nat : e = v * s + r
    <3>1. PICK v \in Nat : v = IF y = r THEN 2 * a ELSE 2 * a + 1
      BY <2>1
    <3>2. a * (2 * s) + r = (2 * a) * s + r /\ a * (2 * s) + (r + s) = (2 * a + 1) * s + r
      BY <2>1, <2>2
    <3>3. e = v * s + r
      BY <2>3, <2>4, <3>1, <3>2
    <3> QED
      BY <3>3
  <2>9. e % s = r
    <3>1. PICK v \in Nat : e = v * s + r
      BY <2>8
    <3> QED
      BY <2>1, <3>1, DivisionUnique
  <2> QED
    BY <2>1, <2>3, <2>6, <2>9
<1>2. p \div s = q \div s /\ p % s = q % s
  BY <1>1
<1>3. p = (p \div s) * s + (p % s) /\ q = (q \div s) * s + (q % s)
  BY DivisionOf
<1> QED
  BY <1>2, <1>3

-----------------------------------------------------------------------------
(* Sub-groups that take the groups of a row in turn                         *)

GroupLanes(E, S, lanes, sg, turns, G, m) ==
    /\ DOMAIN S = Upto(sg) /\ Shares(S, Upto(m)) /\ lanes = turns * sg
    /\ E = [lane \in Upto(lanes) |-> {g * m + x : g \in Stride(lane \div sg, turns, G), x \in S[lane % sg]}]

LEMMA GroupsLaned ==
    ASSUME NEW sg \in Nat \ {0}, NEW turns \in Nat \ {0}, NEW G \in Nat, NEW m \in Nat \ {0}, NEW lanes, NEW S, NEW E,
           GroupLanes(E, S, lanes, sg, turns, G, m)
    PROVE  Laned(E, G * m, lanes)
<1>1. /\ DOMAIN S = Upto(sg) /\ lanes = turns * sg /\ lanes \in Nat /\ DOMAIN E = Upto(lanes)
      /\ \A l \in Upto(sg) : S[l] \subseteq Upto(m)
      /\ \A x \in Upto(m) : \E l \in Upto(sg) : x \in S[l]
      /\ \A l, h \in Upto(sg) : \A x : x \in S[l] /\ x \in S[h] => l = h
  BY ProductNat DEF GroupLanes, Shares
<1>2. \A lane \in Upto(lanes) :
        /\ lane \in Nat /\ lane % sg \in Upto(sg) /\ lane \div sg \in Upto(turns)
        /\ lane = (lane \div sg) * sg + (lane % sg)
  <2>1. ASSUME NEW lane \in Upto(lanes)
        PROVE  /\ lane \in Nat /\ lane % sg \in Upto(sg) /\ lane \div sg \in Upto(turns)
               /\ lane = (lane \div sg) * sg + (lane % sg)
    <3>1. lane \in Nat /\ lane < turns * sg
      BY <1>1 DEF Upto
    <3>2. lane \div sg < turns /\ lane \div sg \in Nat
      BY <3>1, QuotientBelow, DivisionOf
    <3>3. lane % sg \in Upto(sg) /\ lane = (lane \div sg) * sg + (lane % sg)
      BY <3>1, DivisionOf
    <3>4. lane \div sg \in Upto(turns)
      BY <3>2 DEF Upto
    <3> QED
      BY <3>1, <3>3, <3>4
  <2> QED
    BY <2>1
<1>3. \A lane \in Upto(lanes) : \A e : e \in E[lane] <=>
        /\ e \in Nat /\ e \div m < G /\ (e \div m) % turns = lane \div sg /\ e % m \in S[lane % sg]
  <2>1. ASSUME NEW lane \in Upto(lanes), NEW e \in E[lane]
        PROVE  e \in Nat /\ e \div m < G /\ (e \div m) % turns = lane \div sg /\ e % m \in S[lane % sg]
    <3>1. PICK g \in Stride(lane \div sg, turns, G), x \in S[lane % sg] : e = g * m + x
      BY DEF GroupLanes
    <3>2. g \in Nat /\ g < G /\ g % turns = lane \div sg
      BY <1>2, <3>1, StrideIs
    <3>3. x \in Upto(m)
      BY <1>1, <1>2, <3>1
    <3>4. e \div m = g /\ e % m = x /\ e \in Nat
      BY <3>1, <3>2, <3>3, DivisionUnique
    <3> QED
      BY <3>1, <3>2, <3>4
  <2>2. ASSUME NEW lane \in Upto(lanes), NEW e \in Nat, e \div m < G, (e \div m) % turns = lane \div sg,
               e % m \in S[lane % sg]
        PROVE  e \in E[lane]
    <3>1. PICK g \in Nat, x \in Upto(m) : g = e \div m /\ x = e % m /\ e = g * m + x
      BY DivisionOf
    <3>2. g \in Stride(lane \div sg, turns, G)
      BY <1>2, <2>2, <3>1, StrideIs
    <3>3. x \in S[lane % sg]
      BY <2>2, <3>1
    <3>4. E[lane] = {h * m + y : h \in Stride(lane \div sg, turns, G), y \in S[lane % sg]}
      BY DEF GroupLanes
    <3>5. g * m + x \in E[lane]
      BY <3>2, <3>3, <3>4
    <3> QED
      BY <3>1, <3>5
  <2> QED
    BY <2>1, <2>2
<1>4. G * m \in Nat /\ \A e \in Nat : e \div m < G <=> e < G * m
  BY ProductNat, QuotientBelow
<1>5. \A lane \in Upto(lanes) : E[lane] \subseteq Upto(G * m)
  BY <1>3, <1>4 DEF Upto
<1>6. ASSUME NEW e \in Upto(G * m)
      PROVE  \E lane \in Upto(lanes) : e \in E[lane]
  <2>1. PICK g \in Nat, x \in Upto(m) : e \in Nat /\ g = e \div m /\ x = e % m /\ g < G
    <3>1. e \in Nat /\ e < G * m
      BY <1>4 DEF Upto
    <3> QED
      BY <1>4, <3>1, DivisionOf
  <2>2. PICK l \in Upto(sg) : x \in S[l]
    BY <1>1
  <2>3. PICK t \in Upto(turns) : t = g % turns
    BY <2>1, DivisionOf
  <2>4. t \in Nat /\ t < turns
    BY <2>3 DEF Upto
  <2>5. PICK lane \in Nat : lane = t * sg + l /\ lane \div sg = t /\ lane % sg = l
    BY <2>4, DivisionUnique
  <2>6. lane \in Upto(lanes)
    <3>1. lane < turns * sg
      BY <2>4, <2>5, QuotientBelow
    <3> QED
      BY <1>1, <2>5, <3>1 DEF Upto
  <2> QED
    BY <1>3, <2>1, <2>2, <2>3, <2>5, <2>6
<1>7. ASSUME NEW a \in Upto(lanes), NEW b \in Upto(lanes), NEW e, e \in E[a], e \in E[b]
      PROVE  a = b
  <2>1. a \div sg = b \div sg /\ e % m \in S[a % sg] /\ e % m \in S[b % sg]
    BY <1>3, <1>7
  <2>2. a % sg = b % sg
    BY <1>1, <1>2, <2>1
  <2> QED
    BY <1>2, <2>1, <2>2
<1>8. Shares(E, Upto(G * m))
  BY <1>1, <1>5, <1>6, <1>7, SharesBy
<1> QED
  BY <1>1, <1>8 DEF Laned

\* What accumulates every cell it owns into the cell's total.
Labelled(name, m, cells) == {<<<<name, c[2] \div m>>, c>> : c \in cells}

LEMMA LabelledShares ==
    ASSUME NEW name, NEW m, NEW W, NEW All, Shares(W, All), NEW A,
           DOMAIN A = DOMAIN W, \A i \in DOMAIN W : A[i] = Labelled(name, m, W[i])
    PROVE  Shares(A, Labelled(name, m, All))
<1>1. \A i \in DOMAIN A : A[i] \subseteq Labelled(name, m, All)
  BY DEF Labelled, Shares
<1>2. \A z \in Labelled(name, m, All) : \E i \in DOMAIN A : z \in A[i]
  BY DEF Labelled, Shares
<1>3. \A i, j \in DOMAIN A : \A z : z \in A[i] /\ z \in A[j] => i = j
  <2>1. ASSUME NEW i \in DOMAIN A, NEW j \in DOMAIN A, NEW z, z \in A[i], z \in A[j]
        PROVE  i = j
    <3>1. z[2] \in W[i] /\ z[2] \in W[j]
      BY <2>1 DEF Labelled
    <3> QED
      BY <3>1 DEF Shares
  <2> QED
    BY <2>1
<1> QED
  BY <1>1, <1>2, <1>3, SharesBy

-----------------------------------------------------------------------------
(* Accesses in a sequence                                                   *)

LEMMA Concat ==
    ASSUME NEW a, NEW b, NEW c
    PROVE  LET f == <<a, b>> \o <<c>> IN DOMAIN f = 1..3 /\ f[1] = a /\ f[2] = b /\ f[3] = c
<1> DEFINE p == <<a, b>>
<1>1. p = [x \in 1..2 |-> p[x]] /\ p[1] = a /\ p[2] = b
  OBVIOUS
<1> HIDE DEF p
<1>2. DOMAIN (p \o <<c>>) = 1..(2 + 1) /\ (\A x \in 1..2 : (p \o <<c>>)[x] = p[x]) /\ (p \o <<c>>)[2 + 1] = c
  BY <1>1, Append1
<1>3. DOMAIN (p \o <<c>>) = 1..3 /\ (p \o <<c>>)[1] = a /\ (p \o <<c>>)[2] = b /\ (p \o <<c>>)[3] = c
  BY <1>1, <1>2
<1> QED
  BY <1>3 DEF p

LEMMA Append3 ==
    ASSUME NEW n \in Nat, NEW f, NEW c, NEW d, NEW e, f = [p \in 1..n |-> f[p]]
    PROVE  /\ DOMAIN (f \o <<c, d, e>>) = 1..(n + 3)
           /\ \A p \in 1..n : (f \o <<c, d, e>>)[p] = f[p]
           /\ (f \o <<c, d, e>>)[n + 1] = c /\ (f \o <<c, d, e>>)[n + 2] = d /\ (f \o <<c, d, e>>)[n + 3] = e
<1> DEFINE s == f \o <<c, d, e>>
           X == {f[p] : p \in 1..n} \cup {c, d, e}
<1>1. f \in Seq(X) /\ Len(f) = n
  OBVIOUS
<1>2. /\ <<c, d, e>> \in Seq(X) /\ Len(<<c, d, e>>) = 3
      /\ <<c, d, e>>[1] = c /\ <<c, d, e>>[2] = d /\ <<c, d, e>>[3] = e
  OBVIOUS
<1> HIDE DEF X
<1>3. Len(s) = n + 3 /\ s \in Seq(X)
  BY <1>1, <1>2
<1> QED
  BY <1>1, <1>2, <1>3

LEMMA ConcatThree ==
    ASSUME NEW a, NEW b, NEW c, NEW d, NEW e
    PROVE  LET f == <<a, b>> \o <<c, d, e>>
           IN  DOMAIN f = 1..5 /\ f[1] = a /\ f[2] = b /\ f[3] = c /\ f[4] = d /\ f[5] = e
<1> DEFINE p == <<a, b>>
           s == p \o <<c, d, e>>
<1>1. p = [x \in 1..2 |-> p[x]] /\ p[1] = a /\ p[2] = b
  OBVIOUS
<1> HIDE DEF p
<1>2. /\ DOMAIN s = 1..(2 + 3) /\ \A x \in 1..2 : s[x] = p[x]
      /\ s[2 + 1] = c /\ s[2 + 2] = d /\ s[2 + 3] = e
  BY <1>1, Append3
<1> HIDE DEF s
<1>3. DOMAIN s = 1..5 /\ s[1] = a /\ s[2] = b /\ s[3] = c /\ s[4] = d /\ s[5] = e
  BY <1>1, <1>2
<1> QED
  BY <1>3 DEF p, s

\* Lane 0 of a group stores in its local memory what the others read from
\* the next phase on.
Slm(i, slot) == {<<"slm", slot, i[1]>>}

FirstLane(i, cells) == IF i[2] = 0 THEN cells ELSE {}

LEMMA SlmRead ==
    ASSUME NEW i, NEW slot, NEW c \in Slm(i, slot), NEW ph,
           NEW p \in Nat, NEW q \in Nat \ {0}, q < p,
           \A x \in Slm(<<i[1], 0>>, slot) : x \in ph[q][<<i[1], 0>>].wr
    PROVE  \E s : /\ c = <<"slm", s, i[1]>>
                  /\ \E t \in 1..(p - 1) : c \in ph[t][<<i[1], 0>>].wr
<1>1. c = <<"slm", slot, i[1]>>
  BY DEF Slm
<1>2. c \in ph[q][<<i[1], 0>>].wr
  BY <1>1 DEF Slm
<1> QED
  BY <1>1, <1>2

-----------------------------------------------------------------------------
(* Division                                                                 *)

LEMMA Product ==
    ASSUME NEW a \in Nat, NEW b \in Nat
    PROVE  a * b \in Nat /\ a * b = b * a
  BY SMT

LEMMA Quotient ==
    ASSUME NEW a \in Nat, NEW d \in Nat \ {0}
    PROVE  /\ a \div d \in Nat /\ a % d \in 0..(d - 1)
           /\ a = (a \div d) * d + (a % d)
           /\ (a \div d) * d <= a /\ a < (a \div d) * d + d
  BY SMT

LEMMA QuotientUnique ==
    ASSUME NEW q \in Nat, NEW d \in Nat \ {0}, NEW r \in 0..(d - 1)
    PROVE  (q * d + r) \div d = q /\ (q * d + r) % d = r
  BY SMT

\* A product with a smaller factor is smaller.
LEMMA LessByFactor ==
    ASSUME NEW a \in Nat, NEW b \in Nat, NEW d \in Nat, a * d < b * d
    PROVE  a < b
<1> SUFFICES ASSUME b <= a PROVE FALSE
  OBVIOUS
<1>1. b * d <= a * d /\ b * d \in Nat /\ a * d \in Nat
  BY TimesMono
<1> QED
  BY <1>1

-----------------------------------------------------------------------------
(* Recursion over the natural numbers                                       *)

\* t holds the values of a computation from b, N steps long, each step a
\* function of its number and of the value before it.
IsTable(t, N, A, b, F) ==
    t \in [0..N -> A] /\ t[0] = b /\ \A n \in 1..N : t[n] = F[n][t[n - 1]]

LEMMA Table ==
    ASSUME NEW N \in Nat, NEW A, NEW b \in A, NEW F \in [1..N -> [A -> A]]
    PROVE  \E t : IsTable(t, N, A, b, F)
<1> DEFINE S == {k \in Nat : k <= N => \E t : IsTable(t, k, A, b, F)}
<1>1. 0 \in S
  <2>1. IsTable([n \in 0..0 |-> b], 0, A, b, F)
    BY DEF IsTable
  <2> QED
    BY <2>1
<1>2. ASSUME NEW k \in Nat, k \in S
      PROVE  k + 1 \in S
  <2> SUFFICES ASSUME k + 1 <= N PROVE \E t : IsTable(t, k + 1, A, b, F)
    OBVIOUS
  <2>1. PICK t : IsTable(t, k, A, b, F)
    BY <1>2
  <2> DEFINE u == [n \in 0..(k + 1) |-> IF n = k + 1 THEN F[k + 1][t[k]] ELSE t[n]]
  <2>2. k \in 0..k /\ k + 1 \in 1..N
    OBVIOUS
  <2>3. F[k + 1] \in [A -> A] /\ t[k] \in A
    BY <2>1, <2>2 DEF IsTable
  <2>4. F[k + 1][t[k]] \in A
    BY <2>3
  <2>5. u \in [0..(k + 1) -> A] /\ u[0] = b
    BY <2>1, <2>4 DEF IsTable
  <2>6. ASSUME NEW n \in 1..(k + 1)
        PROVE  u[n] = F[n][u[n - 1]]
    <3>1. CASE n = k + 1
      BY <3>1 DEF IsTable
    <3>2. CASE n # k + 1
      <4>1. n \in 1..k /\ n \in 0..(k + 1) /\ n - 1 \in 0..(k + 1) /\ n - 1 # k + 1
        BY <3>2
      <4>2. u[n] = t[n] /\ u[n - 1] = t[n - 1]
        BY <3>2, <4>1
      <4> QED
        BY <2>1, <4>1, <4>2 DEF IsTable
    <3> QED
      BY <3>1, <3>2
  <2>7. IsTable(u, k + 1, A, b, F)
    BY <2>5, <2>6 DEF IsTable
  <2> QED
    BY <2>7
<1> HIDE DEF S
<1>3. N \in S
  BY <1>1, <1>2, AllNat
<1> QED
  BY <1>3 DEF S

-----------------------------------------------------------------------------
(* Powers of two                                                            *)

\* 2^n counts the subsets of n elements.
LEMMA PowNat ==
    ASSUME NEW n \in Nat
    PROVE  2^n \in Nat
<1>1. IsFiniteSet(1..n) /\ Cardinality(1..n) = n
  BY FS_Interval
<1>2. IsFiniteSet(SUBSET (1..n)) /\ Cardinality(SUBSET (1..n)) = 2^n
  BY <1>1, FS_SUBSET
<1> QED
  BY <1>2, FS_CardinalityType

LEMMA PowStep ==
    ASSUME NEW n \in Nat
    PROVE  2^(n + 1) = 2^n + 2^n
<1> DEFINE A == SUBSET (1..n)
           B == {s \in SUBSET (1..(n + 1)) : n + 1 \in s}
           f == [s \in A |-> s \cup {n + 1}]
<1>1. IsFiniteSet(1..n) /\ Cardinality(1..n) = n
      /\ IsFiniteSet(1..(n + 1)) /\ Cardinality(1..(n + 1)) = n + 1
  BY FS_Interval
<1>2. IsFiniteSet(A) /\ Cardinality(A) = 2^n /\ Cardinality(SUBSET (1..(n + 1))) = 2^(n + 1)
  BY <1>1, FS_SUBSET
<1>3. n + 1 \notin 1..n /\ 1..(n + 1) = (1..n) \cup {n + 1}
  OBVIOUS
<1>4. f \in Bijection(A, B)
  <2>1. f \in [A -> B]
    BY <1>3
  <2>2. \A s, t \in A : f[s] = f[t] => s = t
    BY <1>3
  <2>3. \A t \in B : \E s \in A : f[s] = t
    <3> SUFFICES ASSUME NEW t \in B PROVE t \ {n + 1} \in A /\ f[t \ {n + 1}] = t
      OBVIOUS
    <3> QED
      BY <1>3
  <2> QED
    BY <2>1, <2>2, <2>3 DEF Bijection, Injection, IsInjective, Surjection
<1>5. IsFiniteSet(B) /\ Cardinality(B) = 2^n
  BY <1>2, <1>4, FS_Bijection DEF ExistsBijection
<1>6. A \cap B = {} /\ A \cup B = SUBSET (1..(n + 1))
  <2>1. A \cap B = {}
    BY <1>3
  <2>2. \A s \in SUBSET (1..(n + 1)) : s \in A \/ s \in B
    BY <1>3
  <2>3. A \subseteq SUBSET (1..(n + 1)) /\ B \subseteq SUBSET (1..(n + 1))
    BY <1>3
  <2> HIDE DEF A, B
  <2> QED
    BY <2>1, <2>2, <2>3
<1> HIDE DEF A, B
<1>7. Cardinality(A \cup B) = 2^n + 2^n - 0
  BY <1>2, <1>5, <1>6, FS_Union, FS_EmptySet
<1>8. 2^n \in Nat
  BY PowNat
<1>9. PICK x, y : x = 2^n /\ y = 2^(n + 1)
  OBVIOUS
<1>10. y = x + x - 0 /\ x \in Nat
  BY <1>2, <1>6, <1>7, <1>8, <1>9
<1> QED
  BY <1>9, <1>10

LEMMA PowPositive ==
    ASSUME NEW n \in Nat
    PROVE  2^n \in Nat \ {0}
<1> DEFINE S == {k \in Nat : 2^k \in Nat \ {0}}
<1>1. 0 \in S
  BY SMT
<1>2. ASSUME NEW k \in Nat, k \in S
      PROVE  k + 1 \in S
  <2>1. PICK x, y : x = 2^k /\ y = 2^(k + 1)
    OBVIOUS
  <2>2. y = x + x /\ x \in Nat \ {0}
    BY <1>2, <2>1, PowStep
  <2>3. y \in Nat \ {0}
    BY <2>2
  <2> QED
    BY <2>1, <2>3
<1> HIDE DEF S
<1>3. n \in S
  BY <1>1, <1>2, AllNat
<1> QED
  BY <1>3 DEF S

-----------------------------------------------------------------------------
(* Platforms                                                                *)

\* The platform chosen after n of them.
ChosenAfter(c, ps) ==
    c = [n \in 0..Len(ps) |->
            IF n = 0 THEN 0
            ELSE IF Replaces(ps, n, c[n - 1]) THEN n ELSE c[n - 1]]

LEMMA ChosenSteps ==
    ASSUME NEW n \in Nat, NEW ps \in [1..n -> Platforms]
    PROVE  /\ Len(ps) = n
           /\ \E c : /\ gpu_devices(ps) = c[n] /\ c[0] = 0
                     /\ \A i \in 1..n :
                          c[i] = IF Replaces(ps, i, c[i - 1]) THEN i ELSE c[i - 1]
<1>1. Len(ps) = n
  OBVIOUS
<1> DEFINE F == [i \in 1..n |-> [c \in 0..n |-> IF Replaces(ps, i, c) THEN i ELSE c]]
<1>2. F \in [1..n -> [0..n -> 0..n]]
  OBVIOUS
<1>3. PICK t \in [0..n -> 0..n] : t[0] = 0 /\ \A i \in 1..n : t[i] = F[i][t[i - 1]]
  <2>1. PICK A : A = 0..n
    OBVIOUS
  <2>2. 0 \in A /\ F \in [1..n -> [A -> A]]
    BY <1>2, <2>1
  <2> HIDE DEF F
  <2>3. PICK t : IsTable(t, n, A, 0, F)
    BY <2>2, Table
  <2> QED
    BY <2>1, <2>3 DEF IsTable
<1>4. ASSUME NEW i \in 1..n
      PROVE  t[i] = IF Replaces(ps, i, t[i - 1]) THEN i ELSE t[i - 1]
  <2>1. i - 1 \in 0..n /\ t[i - 1] \in 0..n
    OBVIOUS
  <2> QED
    BY <1>3, <2>1
<1>5. ChosenAfter(t, ps)
  <2>1. \A i \in 0..n : t[i] = IF i = 0 THEN 0
                               ELSE IF Replaces(ps, i, t[i - 1]) THEN i ELSE t[i - 1]
    <3> SUFFICES ASSUME NEW i \in 0..n, i # 0
                 PROVE  t[i] = IF Replaces(ps, i, t[i - 1]) THEN i ELSE t[i - 1]
      BY <1>3
    <3>1. i \in 1..n
      OBVIOUS
    <3> QED
      BY <1>4, <3>1
  <2> QED
    BY <1>1, <2>1 DEF ChosenAfter
<1> DEFINE c == CHOOSE f : ChosenAfter(f, ps)
<1>6. ChosenAfter(c, ps)
  BY <1>5
<1>7. gpu_devices(ps) = c[n]
  BY <1>1 DEF gpu_devices, ChosenAfter
<1> HIDE DEF c
<1>8. \A i \in 0..n : c[i] = IF i = 0 THEN 0
                             ELSE IF Replaces(ps, i, c[i - 1]) THEN i ELSE c[i - 1]
  BY <1>1, <1>6 DEF ChosenAfter
<1>9. c[0] = 0
  BY <1>8
<1>10. \A i \in 1..n : c[i] = IF Replaces(ps, i, c[i - 1]) THEN i ELSE c[i - 1]
  <2> SUFFICES ASSUME NEW i \in 1..n
               PROVE  c[i] = IF Replaces(ps, i, c[i - 1]) THEN i ELSE c[i - 1]
    OBVIOUS
  <2>1. i \in 0..n /\ i # 0
    OBVIOUS
  <2> QED
    BY <1>8, <2>1
<1> QED
  BY <1>1, <1>7, <1>9, <1>10

\* What holds of the platform chosen among the first n: the most GPUs, Level
\* Zero among those that have as many if one of them is, and the first such.
IsChosen(ps, n, c) ==
    /\ c \in 0..n
    /\ \A q \in 1..n : Intel(ps, q) <= Intel(ps, c)
    /\ LevelZero(ps, c) =>
         \A q \in 1..(c - 1) : Intel(ps, q) = Intel(ps, c) => ~LevelZero(ps, q)
    /\ ~LevelZero(ps, c) =>
         /\ \A q \in 1..n : Intel(ps, q) = Intel(ps, c) => ~LevelZero(ps, q)
         /\ \A q \in 1..(c - 1) : Intel(ps, q) < Intel(ps, c)

LEMMA CountTypes ==
    ASSUME NEW n \in Nat, NEW ps \in [1..n -> Platforms], NEW p \in 0..n
    PROVE  /\ Intel(ps, p) \in Nat /\ AllGpus(ps, p) \in Nat
           /\ LevelZero(ps, p) \in BOOLEAN
           /\ p = 0 => Intel(ps, p) = 0 /\ AllGpus(ps, p) = 0 /\ ~LevelZero(ps, p)
<1>1. CASE p = 0
  BY <1>1 DEF Intel, AllGpus, LevelZero
<1>2. CASE p # 0
  <2>1. ps[p] \in Platforms
    BY <1>2
  <2>2. ps[p].intel \in Nat /\ ps[p].other \in Nat /\ ps[p].level_zero \in BOOLEAN
    BY <2>1 DEF Platforms
  <2> QED
    BY <1>2, <2>2 DEF Intel, AllGpus, LevelZero
<1> QED
  BY <1>1, <1>2

\* gpu_devices returns that platform.
LEMMA DevicesChosen ==
    ASSUME NEW n \in Nat, NEW ps \in [1..n -> Platforms]
    PROVE  IsChosen(ps, n, gpu_devices(ps))
<1>1. PICK c : /\ gpu_devices(ps) = c[n] /\ c[0] = 0
               /\ \A i \in 1..n : c[i] = IF Replaces(ps, i, c[i - 1]) THEN i ELSE c[i - 1]
  BY ChosenSteps
<1> DEFINE S == {i \in Nat : i <= n => IsChosen(ps, i, c[i])}
<1>2. 0 \in S
  BY <1>1, CountTypes DEF IsChosen
<1>3. ASSUME NEW i \in Nat, i \in S
      PROVE  i + 1 \in S
  <2> SUFFICES ASSUME i + 1 <= n PROVE IsChosen(ps, i + 1, c[i + 1])
    OBVIOUS
  <2>1. IsChosen(ps, i, c[i])
    BY <1>3
  <2>2. PICK d \in 0..i : d = c[i]
    BY <2>1 DEF IsChosen
  <2>3. c[i + 1] = IF Replaces(ps, i + 1, d) THEN i + 1 ELSE d
    <3>1. i + 1 \in 1..n /\ (i + 1) - 1 = i
      OBVIOUS
    <3> QED
      BY <1>1, <2>2, <3>1
  <2>4. \A q \in 0..(i + 1) : Intel(ps, q) \in Nat /\ LevelZero(ps, q) \in BOOLEAN
    BY CountTypes
  <2>5. \A q \in 1..(i + 1) : q \in 1..i \/ q = i + 1
    OBVIOUS
  <2>6. IsChosen(ps, i, d)
    BY <2>1, <2>2
  <2>7. CASE Replaces(ps, i + 1, d)
    <3>1. c[i + 1] = i + 1
      BY <2>3, <2>7
    <3>2. \A q \in 1..i : Intel(ps, q) <= Intel(ps, i + 1)
      BY <2>4, <2>6, <2>7 DEF IsChosen, Replaces
    <3>3. ASSUME LevelZero(ps, i + 1), NEW q \in 1..i, Intel(ps, q) = Intel(ps, i + 1)
          PROVE  ~LevelZero(ps, q)
      BY <2>4, <2>6, <2>7, <3>3 DEF IsChosen, Replaces
    <3>4. ASSUME ~LevelZero(ps, i + 1), NEW q \in 1..i
          PROVE  Intel(ps, q) < Intel(ps, i + 1)
      BY <2>4, <2>6, <2>7, <3>4 DEF IsChosen, Replaces
    <3> QED
      <4>1. i + 1 \in 0..(i + 1) /\ (i + 1) - 1 = i
        OBVIOUS
      <4> QED
        BY <2>4, <2>5, <3>1, <3>2, <3>3, <3>4, <4>1 DEF IsChosen
  <2>8. CASE ~Replaces(ps, i + 1, d)
    <3>1. c[i + 1] = d
      BY <2>3, <2>8
    <3>2. Intel(ps, i + 1) <= Intel(ps, d)
      BY <2>2, <2>4, <2>8 DEF Replaces
    <3>3. Intel(ps, i + 1) = Intel(ps, d) /\ ~LevelZero(ps, d) => ~LevelZero(ps, i + 1)
      BY <2>8 DEF Replaces
    <3> QED
      BY <2>2, <2>5, <2>6, <3>1, <3>2, <3>3 DEF IsChosen
  <2> QED
    BY <2>7, <2>8
<1>4. n \in S
  <2> HIDE DEF S
  <2> QED
    BY <1>2, <1>3, AllNat
<1> QED
  BY <1>1, <1>4

-----------------------------------------------------------------------------
(* The platform of all_reduce_sum                                           *)

\* all_reduce_sum's own choice after n platforms.
RingAfter(c, ps) ==
    c = [n \in 0..Len(ps) |->
            IF n = 0 THEN 0
            ELSE IF AllGpus(ps, n) > AllGpus(ps, c[n - 1]) THEN n ELSE c[n - 1]]

LEMMA RingSteps ==
    ASSUME NEW n \in Nat, NEW ps \in [1..n -> Platforms]
    PROVE  \E c : /\ RingPlatform(ps) = c[n] /\ c[0] = 0
                  /\ \A i \in 1..n :
                       c[i] = IF AllGpus(ps, i) > AllGpus(ps, c[i - 1]) THEN i ELSE c[i - 1]
<1>1. Len(ps) = n
  OBVIOUS
<1> DEFINE F == [i \in 1..n |-> [c \in 0..n |-> IF AllGpus(ps, i) > AllGpus(ps, c) THEN i ELSE c]]
<1>2. F \in [1..n -> [0..n -> 0..n]]
  OBVIOUS
<1>3. PICK t \in [0..n -> 0..n] : t[0] = 0 /\ \A i \in 1..n : t[i] = F[i][t[i - 1]]
  <2>1. PICK A : A = 0..n
    OBVIOUS
  <2>2. 0 \in A /\ F \in [1..n -> [A -> A]]
    BY <1>2, <2>1
  <2> HIDE DEF F
  <2>3. PICK t : IsTable(t, n, A, 0, F)
    BY <2>2, Table
  <2> QED
    BY <2>1, <2>3 DEF IsTable
<1>4. ASSUME NEW i \in 1..n
      PROVE  t[i] = IF AllGpus(ps, i) > AllGpus(ps, t[i - 1]) THEN i ELSE t[i - 1]
  <2>1. i - 1 \in 0..n /\ t[i - 1] \in 0..n
    OBVIOUS
  <2> QED
    BY <1>3, <2>1
<1>5. RingAfter(t, ps)
  <2>1. \A i \in 0..n : t[i] = IF i = 0 THEN 0
                               ELSE IF AllGpus(ps, i) > AllGpus(ps, t[i - 1]) THEN i ELSE t[i - 1]
    <3> SUFFICES ASSUME NEW i \in 0..n, i # 0
                 PROVE  t[i] = IF AllGpus(ps, i) > AllGpus(ps, t[i - 1]) THEN i ELSE t[i - 1]
      BY <1>3
    <3>1. i \in 1..n
      OBVIOUS
    <3> QED
      BY <1>4, <3>1
  <2> QED
    BY <1>1, <2>1 DEF RingAfter
<1> DEFINE c == CHOOSE f : RingAfter(f, ps)
<1>6. RingAfter(c, ps)
  BY <1>5
<1>7. RingPlatform(ps) = c[n]
  BY <1>1 DEF RingPlatform, RingAfter
<1> HIDE DEF c
<1>8. \A i \in 0..n : c[i] = IF i = 0 THEN 0
                             ELSE IF AllGpus(ps, i) > AllGpus(ps, c[i - 1]) THEN i ELSE c[i - 1]
  BY <1>1, <1>6 DEF RingAfter
<1>9. c[0] = 0
  BY <1>8
<1>10. \A i \in 1..n : c[i] = IF AllGpus(ps, i) > AllGpus(ps, c[i - 1]) THEN i ELSE c[i - 1]
  <2> SUFFICES ASSUME NEW i \in 1..n
               PROVE  c[i] = IF AllGpus(ps, i) > AllGpus(ps, c[i - 1]) THEN i ELSE c[i - 1]
    OBVIOUS
  <2>1. i \in 0..n /\ i # 0
    OBVIOUS
  <2> QED
    BY <1>8, <2>1
<1> QED
  BY <1>7, <1>9, <1>10

\* The first platform with the most GPUs of any vendor.
LEMMA RingChosen ==
    ASSUME NEW n \in Nat, NEW ps \in [1..n -> Platforms]
    PROVE  LET p == RingPlatform(ps) IN
           /\ p \in 0..n
           /\ \A q \in 1..n : AllGpus(ps, q) <= AllGpus(ps, p)
           /\ \A q \in 0..(p - 1) : AllGpus(ps, q) < AllGpus(ps, p)
<1>1. PICK c : /\ RingPlatform(ps) = c[n] /\ c[0] = 0
               /\ \A i \in 1..n :
                    c[i] = IF AllGpus(ps, i) > AllGpus(ps, c[i - 1]) THEN i ELSE c[i - 1]
  BY RingSteps
<1> DEFINE First(i, p) == /\ p \in 0..i
                          /\ \A q \in 1..i : AllGpus(ps, q) <= AllGpus(ps, p)
                          /\ \A q \in 0..(p - 1) : AllGpus(ps, q) < AllGpus(ps, p)
           S == {i \in Nat : i <= n => First(i, c[i])}
<1>2. 0 \in S
  BY <1>1
<1>3. ASSUME NEW i \in Nat, i \in S
      PROVE  i + 1 \in S
  <2> SUFFICES ASSUME i + 1 <= n PROVE First(i + 1, c[i + 1])
    OBVIOUS
  <2>1. PICK d \in 0..i : d = c[i] /\ First(i, d)
    BY <1>3
  <2>2. c[i + 1] = IF AllGpus(ps, i + 1) > AllGpus(ps, d) THEN i + 1 ELSE d
    <3>1. i + 1 \in 1..n /\ (i + 1) - 1 = i
      OBVIOUS
    <3> QED
      BY <1>1, <2>1, <3>1
  <2>3. \A q \in 0..(i + 1) : AllGpus(ps, q) \in Nat
    BY CountTypes
  <2>4. \A q \in 1..(i + 1) : q \in 1..i \/ q = i + 1
    OBVIOUS
  <2>5. \A q \in 0..i : AllGpus(ps, q) <= AllGpus(ps, d)
    <3>1. AllGpus(ps, 0) = 0
      BY DEF AllGpus
    <3>2. \A q \in 0..i : q = 0 \/ q \in 1..i
      OBVIOUS
    <3> QED
      BY <2>1, <2>3, <3>1, <3>2
  <2> QED
    BY <2>1, <2>2, <2>3, <2>4, <2>5
<1>4. n \in S
  <2> HIDE DEF S
  <2> QED
    BY <1>2, <1>3, AllNat
<1> QED
  BY <1>1, <1>4

-----------------------------------------------------------------------------
(* Codecs                                                                   *)

\* The distance between the values of one code and the next.
GapAfter(c) == IF c < 8 THEN 128 ELSE 2^(c \div 8 + 6)

LEMMA Powers ==
    /\ 2^0 = 1 /\ 2^1 = 2 /\ 2^2 = 4 /\ 2^3 = 8 /\ 2^4 = 16 /\ 2^5 = 32 /\ 2^6 = 64 /\ 2^7 = 128
<1>1. \A n \in Nat : 2^(n + 1) = 2^n + 2^n /\ 2^n \in Nat
  BY PowStep, PowNat
<1>2. 2^0 = 1
  BY SMT
<1> DEFINE p(n) == 2^n
<1>3. \A n \in Nat : p(n + 1) = p(n) + p(n)
  BY <1>1
<1>4. p(0) = 1
  BY <1>2
<1> HIDE DEF p
<1>5. p(1) = 2
  BY <1>3, <1>4, 0 + 1 = 1
<1>6. p(2) = 4
  BY <1>3, <1>5, 1 + 1 = 2
<1>7. p(3) = 8
  BY <1>3, <1>6, 2 + 1 = 3
<1>8. p(4) = 16
  BY <1>3, <1>7, 3 + 1 = 4
<1>9. p(5) = 32
  BY <1>3, <1>8, 4 + 1 = 5
<1>10. p(6) = 64
  BY <1>3, <1>9, 5 + 1 = 6
<1>11. p(7) = 128
  BY <1>3, <1>10, 6 + 1 = 7
<1> QED
  BY <1>4, <1>5, <1>6, <1>7, <1>8, <1>9, <1>10, <1>11 DEF p

\* The values of the codes, far beyond the last of the format.
LEMMA GridIs ==
    ASSUME NEW c \in Nat
    PROVE  /\ E4M3(c) \in Nat /\ GapAfter(c) \in Nat \ {0}
           /\ E4M3(c + 1) = E4M3(c) + GapAfter(c)
           /\ c < 9 => E4M3(c) = c * 128
<1>1. PICK f, k : f = c \div 8 /\ k = c % 8
  OBVIOUS
<1>2. f \in Nat /\ k \in 0..7 /\ c = 8 * f + k
  BY <1>1
<1>3. PICK p, q : p = 2^(f + 6) /\ q = 2^((f + 1) + 6)
  OBVIOUS
<1>4. p \in Nat \ {0} /\ q = p + p /\ (f = 0 => p = 64) /\ (f = 1 => p = 128)
  <2>1. f + 6 \in Nat /\ (f + 1) + 6 = (f + 6) + 1 /\ 0 + 6 = 6 /\ 1 + 6 = 7
    BY <1>2
  <2>2. p \in Nat \ {0} /\ 2^((f + 6) + 1) = p + p
    BY <1>3, <2>1, PowPositive, PowStep
  <2>3. f = 0 => p = 64
    BY <1>3, Powers, 0 + 6 = 6
  <2>4. f = 1 => p = 128
    BY <1>3, Powers, 1 + 6 = 7
  <2> QED
    BY <1>3, <2>1, <2>2, <2>3, <2>4
<1>5. E4M3(c) = IF f = 0 THEN k * 128 ELSE (8 + k) * p
  BY <1>1, <1>3, Powers DEF E4M3
<1>6. GapAfter(c) = IF f = 0 THEN 128 ELSE p
  <2>1. c < 8 <=> f = 0
    BY <1>2
  <2> QED
    BY <1>1, <1>3, <2>1 DEF GapAfter
<1>7. CASE k < 7
  <2>1. (c + 1) \div 8 = f /\ (c + 1) % 8 = k + 1
    BY <1>2, <1>7
  <2>2. E4M3(c + 1) = IF f = 0 THEN (k + 1) * 128 ELSE (8 + (k + 1)) * p
    BY <1>3, <2>1, Powers DEF E4M3
  <2>3. (8 + (k + 1)) * p = (8 + k) * p + p /\ (8 + k) * p \in Nat
    BY <1>2, <1>4
  <2> QED
    BY <1>2, <1>4, <1>5, <1>6, <2>2, <2>3
<1>8. CASE k = 7
  <2>1. (c + 1) \div 8 = f + 1 /\ (c + 1) % 8 = 0
    BY <1>2, <1>8
  <2>2. E4M3(c + 1) = (8 + 0) * q
    BY <1>2, <1>3, <2>1 DEF E4M3
  <2> QED
    BY <1>2, <1>4, <1>5, <1>6, <1>8, <2>2
<1> QED
  BY <1>2, <1>7, <1>8

LEMMA GridIncreases ==
    ASSUME NEW c \in Nat, NEW d \in Nat, c < d
    PROVE  E4M3(c) + GapAfter(c) <= E4M3(d)
<1> DEFINE S == {n \in Nat : E4M3(c + 1) <= E4M3(c + 1 + n)}
<1>1. 0 \in S
  <2>1. c + 1 + 0 = c + 1 /\ E4M3(c + 1) \in Nat
    BY GridIs
  <2> QED
    BY <2>1
<1>2. ASSUME NEW n \in Nat, n \in S
      PROVE  n + 1 \in S
  <2>1. PICK k \in Nat : k = c + 1 + n
    OBVIOUS
  <2>2. E4M3(k + 1) = E4M3(k) + GapAfter(k) /\ E4M3(k) \in Nat /\ GapAfter(k) \in Nat \ {0}
        /\ E4M3(c + 1) \in Nat
    BY GridIs
  <2>3. c + 1 + (n + 1) = k + 1
    BY <2>1
  <2> QED
    BY <1>2, <2>1, <2>2, <2>3
<1> HIDE DEF S
<1>3. d - (c + 1) \in S /\ c + 1 + (d - (c + 1)) = d
  BY <1>1, <1>2, AllNat
<1>4. E4M3(c + 1) <= E4M3(d)
  BY <1>3 DEF S
<1> QED
  BY <1>4, GridIs

\* The value of code is nearer to x than that of any other of the codes up to
\* N, or as near and code is even.
NearestOf(code, x, N) ==
    /\ code \in 0..N
    /\ \A c \in (0..N) \ {code} :
         \/ Abs(E4M3(code) - x) < Abs(E4M3(c) - x)
         \/ Abs(E4M3(code) - x) = Abs(E4M3(c) - x) /\ code % 2 = 0

\* x lies rest units u above the value of code k, the gap above it being two
\* halves, and code is k or the one after it, as RoundUp decides.
Rounding(k, keep, rest, half, u, code, x) ==
    /\ k \in Nat /\ keep \in Nat /\ keep % 2 = k % 2
    /\ rest \in Nat /\ half \in Nat \ {0} /\ rest < 2 * half
    /\ u \in Nat \ {0} /\ 2 * half * u = GapAfter(k)
    /\ x \in Nat /\ x = E4M3(k) + rest * u
    /\ code = IF RoundUp(keep, rest, half) THEN k + 1 ELSE k

\* Rounding between the values of two codes.
LEMMA RoundsToNearest ==
    ASSUME NEW k, NEW keep, NEW rest, NEW half, NEW u, NEW code, NEW x,
           Rounding(k, keep, rest, half, u, code, x), NEW N \in Nat, code <= N
    PROVE  NearestOf(code, x, N)
<1>0. /\ k \in Nat /\ keep \in Nat /\ keep % 2 = k % 2
      /\ rest \in Nat /\ half \in Nat \ {0} /\ rest < 2 * half
      /\ u \in Nat \ {0} /\ 2 * half * u = GapAfter(k)
      /\ x \in Nat /\ x = E4M3(k) + rest * u
      /\ code = IF RoundUp(keep, rest, half) THEN k + 1 ELSE k
  BY DEF Rounding
<1> USE <1>0
<1> DEFINE low == E4M3(k)
           g == GapAfter(k)
<1>1. low \in Nat /\ g \in Nat \ {0} /\ E4M3(k + 1) = low + g
  BY GridIs
<1>2. PICK a, h : a = rest * u /\ h = half * u
  OBVIOUS
<1>3. a \in Nat /\ h \in Nat \ {0} /\ g = 2 * h /\ x = low + a
  BY <1>2
<1>4. /\ rest > half => a > h
      /\ rest = half => a = h
      /\ rest < half => a < h
      /\ a < 2 * h
  <2>1. \A y, z \in Nat : y < z => y * u < z * u
    BY SMT
  <2> QED
    BY <1>2, <2>1
<1>5. ASSUME NEW c \in Nat
      PROVE  /\ E4M3(c) \in Nat
             /\ c < k => E4M3(c) < low
             /\ c > k => E4M3(c) >= low + g
             /\ c > k + 1 => E4M3(c) > low + g
  <2>1. E4M3(c) \in Nat /\ GapAfter(c) \in Nat \ {0} /\ GapAfter(k + 1) \in Nat \ {0}
    BY GridIs
  <2>2. c < k => E4M3(c) + GapAfter(c) <= low
    BY GridIncreases
  <2>3. c > k => low + g <= E4M3(c)
    BY GridIncreases
  <2>4. c > k + 1 => E4M3(k + 1) + GapAfter(k + 1) <= E4M3(c)
    BY GridIncreases
  <2> QED
    BY <1>1, <2>1, <2>2, <2>3, <2>4
<1> HIDE DEF low, g
<1>6. CASE ~RoundUp(keep, rest, half)
  <2>1. code = k /\ E4M3(code) = low
    BY <1>6 DEF low
  <2>2. a <= h /\ (a = h => code % 2 = 0)
    <3>1. ~(rest > half) /\ ~(rest = half /\ k % 2 = 1)
      BY <1>6 DEF RoundUp
    <3>2. k % 2 = 0 \/ k % 2 = 1
      OBVIOUS
    <3>3. rest = half \/ rest < half
      BY <3>1
    <3> QED
      BY <1>3, <1>4, <2>1, <3>1, <3>2, <3>3
  <2>3. Abs(low - x) = a
    BY <1>1, <1>3 DEF Abs
  <2>4. ASSUME NEW c \in (0..N) \ {code}
        PROVE  Abs(E4M3(c) - x) > a \/ (Abs(E4M3(c) - x) = a /\ code % 2 = 0)
    <3>1. c \in Nat /\ (c < k \/ c > k)
      BY <2>1
    <3>2. PICK y : y = E4M3(c)
      OBVIOUS
    <3>3. y \in Nat /\ (y < low \/ y >= low + g)
      BY <1>5, <3>1, <3>2
    <3>4. Abs(y - x) > a \/ (Abs(y - x) = a /\ a = h)
      BY <1>1, <1>3, <2>2, <3>3 DEF Abs
    <3> QED
      BY <2>2, <3>2, <3>4
  <2> QED
    BY <2>1, <2>3, <2>4 DEF NearestOf
<1>7. CASE RoundUp(keep, rest, half)
  <2>1. code = k + 1 /\ E4M3(code) = low + g
    BY <1>1, <1>7 DEF low, g
  <2>2. a >= h /\ (a = h => code % 2 = 0)
    <3>1. rest > half \/ (rest = half /\ k % 2 = 1)
      BY <1>7 DEF RoundUp
    <3>2. k % 2 = 1 => (k + 1) % 2 = 0
      OBVIOUS
    <3> QED
      BY <1>3, <1>4, <2>1, <3>1, <3>2
  <2>3. Abs((low + g) - x) = g - a
    BY <1>1, <1>3, <1>4 DEF Abs
  <2>4. ASSUME NEW c \in (0..N) \ {code}
        PROVE  Abs(E4M3(c) - x) > g - a \/ (Abs(E4M3(c) - x) = g - a /\ code % 2 = 0)
    <3>1. c \in Nat /\ (c < k \/ c = k \/ c > k + 1)
      BY <2>1
    <3>2. PICK y : y = E4M3(c)
      OBVIOUS
    <3>3. y \in Nat /\ (y <= low \/ y > low + g)
      BY <1>5, <3>1, <3>2 DEF low
    <3>4. Abs(y - x) > g - a \/ (Abs(y - x) = g - a /\ a = h)
      BY <1>1, <1>3, <1>4, <2>2, <3>3 DEF Abs
    <3> QED
      BY <2>2, <3>2, <3>4
  <2> QED
    BY <2>1, <2>3, <2>4 DEF NearestOf
<1> QED
  BY <1>6, <1>7

\* A float that is normal in the format: between which codes it lies.
LEMMA NormalIs ==
    ASSUME NEW e \in Int, e >= -6, NEW m \in 0..31
    PROVE  \E k, u \in Nat \ {0} :
             /\ k = 8 * (e + 7) + m \div 4
             /\ F32(e, m) = E4M3(k) + (m % 4) * u /\ F32(e, m) \in Nat
             /\ 2 * 2 * u = GapAfter(k) /\ (m \div 4) % 2 = k % 2
             /\ u = 2^(e + 11)
<1>1. PICK f, q, r, k : f = e + 7 /\ q = m \div 4 /\ r = m % 4 /\ k = 8 * f + q
  OBVIOUS
<1>2. f \in Nat \ {0} /\ q \in 0..7 /\ r \in 0..3 /\ m = 4 * q + r
  BY <1>1
<1>3. k \in Nat \ {0} /\ k \div 8 = f /\ k % 8 = q /\ q % 2 = k % 2
  BY <1>1, <1>2
<1>4. PICK u, v, p : u = 2^(f + 4) /\ v = 2^(f + 5) /\ p = 2^(f + 6)
  OBVIOUS
<1>5. u \in Nat \ {0} /\ v = u + u /\ p = v + v
  <2>1. f + 4 \in Nat /\ f + 5 \in Nat /\ (f + 4) + 1 = f + 5 /\ (f + 5) + 1 = f + 6
    BY <1>2
  <2>2. u \in Nat \ {0} /\ 2^((f + 4) + 1) = u + u
    BY <1>4, <2>1, PowPositive, PowStep
  <2>3. 2^((f + 5) + 1) = v + v
    BY <1>4, <2>1, PowStep
  <2> QED
    BY <1>4, <2>1, <2>2, <2>3
<1>6. F32(e, m) = (32 + m) * u
  <2>1. e - MinExp = f + 4
    BY <1>1 DEF MinExp
  <2> QED
    BY <1>4, <2>1 DEF F32
<1>7. E4M3(k) = (8 + q) * p
  BY <1>2, <1>3, <1>4 DEF E4M3
<1>8. GapAfter(k) = p
  <2>1. ~(k < 8)
    BY <1>1, <1>2
  <2> QED
    BY <1>3, <1>4, <2>1 DEF GapAfter
<1>9. (32 + m) * u = (8 + q) * p + r * u /\ (32 + m) * u \in Nat
  <2>1. p = 4 * u
    BY <1>5
  <2> QED
    BY <1>2, <1>5, <2>1
<1>10. 2 * 2 * u = p
  BY <1>5
<1>11. u = 2^(e + 11)
  <2>1. e + 11 = f + 4
    BY <1>1
  <2> QED
    BY <1>4, <2>1
<1> QED
  BY <1>1, <1>3, <1>5, <1>6, <1>7, <1>8, <1>9, <1>10, <1>11

\* A float below the normal ones: its unit.
LEMMA SubnormalIs ==
    ASSUME NEW e \in Int, e >= MinExp, e < -6, NEW m \in 0..31
    PROVE  /\ F32(e, m) \in 0..1023
           /\ F32(e, m) = (32 + m) * 2^(e + 11)
           /\ e + 11 = 0 => F32(e, m) < 64
<1>1. /\ e + 11 = 0 \/ e + 10 = 0 \/ e + 9 = 0 \/ e + 8 = 0 \/ e + 7 = 0
      /\ F32(e, m) = (32 + m) * 2^(e + 11)
  <2>1. e - MinExp = e + 11
    BY DEF MinExp
  <2> QED
    BY <2>1 DEF MinExp, F32
<1>2. PICK p : p = 2^(e + 11)
  OBVIOUS
<1>3. p \in {1, 2, 4, 8, 16} /\ (e + 11 = 0 => p = 1)
  <2>1. CASE e + 11 = 0
    BY <1>2, <2>1, Powers, e + 11 = 0
  <2>2. CASE e + 10 = 0
    BY <1>2, <2>2, Powers, e + 11 = 1
  <2>3. CASE e + 9 = 0
    BY <1>2, <2>3, Powers, e + 11 = 2
  <2>4. CASE e + 8 = 0
    BY <1>2, <2>4, Powers, e + 11 = 3
  <2>5. CASE e + 7 = 0
    BY <1>2, <2>5, Powers, e + 11 = 4
  <2> QED
    BY <1>1, <2>1, <2>2, <2>3, <2>4, <2>5
<1> QED
  BY <1>1, <1>2, <1>3

\* The last code is the nearest of any value above its own.
LEMMA LastNearest ==
    ASSUME NEW N \in Nat, NEW x \in Nat, x >= E4M3(N)
    PROVE  NearestOf(N, x, N)
<1>1. ASSUME NEW c \in (0..N) \ {N}
      PROVE  Abs(E4M3(N) - x) < Abs(E4M3(c) - x)
  <2>1. E4M3(c) + GapAfter(c) <= E4M3(N) /\ E4M3(c) \in Nat /\ GapAfter(c) \in Nat \ {0} /\ E4M3(N) \in Nat
    <3>1. c \in Nat /\ c < N
      OBVIOUS
    <3> QED
      BY <3>1, GridIs, GridIncreases
  <2> QED
    BY <2>1 DEF Abs
<1> QED
  BY <1>1 DEF NearestOf

\* A value that is not above that of code N lies below it.
LEMMA NotAbove ==
    ASSUME NEW N \in Nat, NEW k \in Nat, NEW a \in Nat, E4M3(k) + a <= E4M3(N)
    PROVE  k <= N /\ (k = N => a = 0)
<1>1. ASSUME k > N
      PROVE  FALSE
  <2>1. E4M3(N) + GapAfter(N) <= E4M3(k)
    BY <1>1, GridIncreases
  <2>2. E4M3(N) \in Nat /\ E4M3(k) \in Nat /\ GapAfter(N) \in Nat \ {0}
    BY GridIs
  <2> QED
    BY <2>1, <2>2
<1> QED
  BY <1>1, GridIs

\* e4m3_encode returns the nearest finite code for a float of any exponent.
THEOREM E4M3Nearest ==
    ASSUME NEW e \in Int, e >= MinExp, NEW m \in 0..31
    PROVE  NearestOf(EncodeE4M3(e, m), F32(e, m), Saturated)
<1> DEFINE x == F32(e, m)
           rounded(keep, rest, half) == IF RoundUp(keep, rest, half) THEN keep + 1 ELSE keep
<1>0. Saturated = 126
  BY DEF Saturated
<1>1. CASE e >= -6
  <2>1. PICK k, u \in Nat \ {0} :
             /\ k = 8 * (e + 7) + m \div 4
             /\ x = E4M3(k) + (m % 4) * u /\ x \in Nat
             /\ 2 * 2 * u = GapAfter(k) /\ (m \div 4) % 2 = k % 2
             /\ u = 2^(e + 11)
    BY <1>1, NormalIs
  <2>2. CASE x > E4M3(Saturated)
    <3>1. EncodeE4M3(e, m) = Saturated
      BY <2>2 DEF EncodeE4M3
    <3>2. x >= E4M3(Saturated)
      BY <1>0, <2>1, <2>2, GridIs
    <3> QED
      BY <1>0, <2>1, <3>1, <3>2, LastNearest
  <2>3. CASE ~(x > E4M3(Saturated))
    <3>1. PICK q, r : q = m \div 4 /\ r = m % 4
      OBVIOUS
    <3>2. q \in 0..7 /\ r \in 0..3 /\ k = 8 * (e + 7) + q
      BY <2>1, <3>1
    <3>3. PICK code : code = IF RoundUp(q, r, 2) THEN k + 1 ELSE k
      OBVIOUS
    <3>4. E4M3(k) + r * u <= E4M3(126) /\ r * u \in Nat /\ (r # 0 => r * u # 0)
      <4>1. x <= E4M3(126)
        BY <1>0, <2>1, <2>3, GridIs
      <4>2. r * u \in Nat /\ (r # 0 => r * u # 0)
        BY <2>1, <3>2
      <4> QED
        BY <2>1, <3>1, <4>1, <4>2
    <3>5. k <= 126 /\ (k = 126 => r = 0)
      BY <3>4, NotAbove
    <3>6. code <= 126
      BY <3>3, <3>5 DEF RoundUp
    <3>7. NearestOf(code, x, 126)
      <4>1. r \in Nat /\ q \in Nat /\ q % 2 = k % 2 /\ x = E4M3(k) + r * u /\ r < 2 * 2
        BY <2>1, <3>1, <3>2
      <4>2. PICK half \in Nat \ {0}, N \in Nat : half = 2 /\ N = 126
        OBVIOUS
      <4>3. code = IF RoundUp(q, r, half) THEN k + 1 ELSE k
        BY <3>3, <4>2
      <4>4. r < 2 * half /\ 2 * half * u = GapAfter(k) /\ code <= N /\ k \in Nat /\ x \in Nat
        BY <2>1, <3>6, <4>1, <4>2
      <4> HIDE DEF x
      <4>5. Rounding(k, q, r, half, u, code, x)
        BY <2>1, <4>1, <4>2, <4>3, <4>4 DEF Rounding
      <4>6. NearestOf(code, x, N)
        BY <4>4, <4>5, RoundsToNearest
      <4> QED
        BY <4>2, <4>6
    <3>8. PICK keep : keep = rounded(q, r, 2)
      OBVIOUS
    <3>9. keep \in 0..8 /\ code = 8 * (e + 7) + keep
      BY <3>2, <3>3, <3>8
    <3>10. PICK exp4 : exp4 = e + 7 + (IF keep = 8 THEN 1 ELSE 0)
      OBVIOUS
    <3>11. ~(exp4 > 15 \/ (exp4 = 15 /\ keep = 7)) /\ 8 * exp4 + (keep % 8) = code
      BY <1>1, <3>6, <3>9, <3>10
    <3>12. EncodeE4M3(e, m) = IF exp4 > 15 \/ (exp4 = 15 /\ keep = 7) THEN Saturated
                              ELSE 8 * exp4 + (keep % 8)
      BY <1>1, <2>3, <3>1, <3>8, <3>10 DEF EncodeE4M3
    <3> QED
      BY <1>0, <3>7, <3>11, <3>12
  <2> QED
    BY <2>2, <2>3
<1>2. CASE e < -6
  <2>1. x \in 0..1023
    BY <1>2, SubnormalIs, ZenonT(40)
  <2>2. E4M3(126) \in Nat /\ 1024 <= E4M3(126)
    <3>1. E4M3(8) = 8 * 128 /\ E4M3(8) + GapAfter(8) <= E4M3(126) /\ GapAfter(8) \in Nat
      BY GridIs, GridIncreases
    <3> QED
      BY <3>1, GridIs
  <2>3. ~(x > E4M3(Saturated))
    BY <1>0, <2>1, <2>2
  <2>4. PICK k, r : k = x \div 128 /\ r = x % 128
    OBVIOUS
  <2>5. k \in 0..7 /\ r \in 0..127 /\ x = k * 128 + r
    BY <2>1, <2>4
  <2>6. PICK code : code = IF RoundUp(k, r, 64) THEN k + 1 ELSE k
    OBVIOUS
  <2>7. EncodeE4M3(e, m) = IF code >= 8 THEN 8 ELSE code
    <3>1. ~(e >= -6)
      BY <1>2
    <3>2. 2^7 = 128 /\ 2^6 = 64
      BY Powers
    <3>3. EncodeE4M3(e, m) = LET kk == rounded(x \div 2^7, x % 2^7, 2^6) IN IF kk >= 8 THEN 8 ELSE kk
      BY <2>3, <3>1 DEF EncodeE4M3
    <3> QED
      BY <2>4, <2>6, <3>2, <3>3
  <2>8. code \in Nat /\ code <= 126 /\ EncodeE4M3(e, m) = code
    BY <2>5, <2>6, <2>7
  <2>9. /\ k % 2 = k % 2 /\ r < 2 * 64 /\ 2 * 64 * 1 = GapAfter(k) /\ x = E4M3(k) + r * 1
    <3>1. E4M3(k) = k * 128
      BY <2>5, GridIs
    <3>2. GapAfter(k) = 128
      BY <2>5 DEF GapAfter
    <3> QED
      BY <2>5, <3>1, <3>2
  <2>10. NearestOf(code, x, 126)
    <3>1. PICK u \in Nat \ {0}, half \in Nat \ {0}, N \in Nat : u = 1 /\ half = 64 /\ N = 126
      OBVIOUS
    <3>2. k \in Nat /\ r \in Nat /\ x \in Nat /\ code <= N
      BY <2>1, <2>5, <2>8, <3>1
    <3>3. code = IF RoundUp(k, r, half) THEN k + 1 ELSE k
      BY <2>6, <3>1
    <3>4. r < 2 * half /\ 2 * half * u = GapAfter(k) /\ x = E4M3(k) + r * u
      BY <2>9, <3>1
    <3> HIDE DEF x
    <3>5. PICK keep : keep = k
      OBVIOUS
    <3>6. keep \in Nat /\ keep % 2 = k % 2 /\ code = IF RoundUp(keep, r, half) THEN k + 1 ELSE k
      BY <3>2, <3>3, <3>5
    <3>7. Rounding(k, keep, r, half, u, code, x)
      BY <3>1, <3>2, <3>4, <3>6 DEF Rounding
    <3>8. NearestOf(code, x, N)
      BY <3>2, <3>7, RoundsToNearest
    <3> QED
      BY <3>1, <3>8
  <2> QED
    BY <1>0, <2>8, <2>10
<1> QED
  BY <1>1, <1>2

\* The finite halves and infinity count as the codes of e4m3 do.
LEMMA HalfIsGrid == ASSUME NEW h \in Nat PROVE HalfValue(h) = E4M3(h)
<1>1. PICK f, q, p : f = h \div 8 /\ q = h % 8 /\ p = 2^(f - 1)
  OBVIOUS
<1>2. f \in Nat /\ q \in 0..7
  BY <1>1
<1>3. 2^3 = 8 /\ 2^7 = 128
  BY Powers
<1>4. HalfValue(h) = (IF f = 0 THEN q ELSE (8 + q) * p) * 128
  BY <1>1, <1>3 DEF HalfValue, Half
<1>5. CASE f = 0
  BY <1>1, <1>3, <1>4, <1>5 DEF E4M3
<1>6. CASE f # 0
  <2>1. f - 1 \in Nat /\ p \in Nat
    BY <1>1, <1>2, <1>6, PowNat
  <2>2. 2^(f + 6) = p * 128
    <3>1. \A n \in Nat : 2^(n + 1) = 2^n + 2^n /\ 2^n \in Nat
      BY PowStep, PowNat
    <3>2. PICK n : n = f - 1
      OBVIOUS
    <3>3. n \in Nat /\ p = 2^n /\ f + 6 = n + 7
      BY <1>1, <2>1, <3>2
    <3>4. 2^(n + 1) = 2 * p
      BY <3>1, <3>2, <3>3
    <3>5. 2^(n + 2) = 4 * p
      BY <2>1, <3>1, <3>3, <3>4, n + 1 \in Nat, (n + 1) + 1 = n + 2
    <3>6. 2^(n + 3) = 8 * p
      BY <2>1, <3>1, <3>3, <3>5, n + 2 \in Nat, (n + 2) + 1 = n + 3
    <3>7. 2^(n + 4) = 16 * p
      BY <2>1, <3>1, <3>3, <3>6, n + 3 \in Nat, (n + 3) + 1 = n + 4
    <3>8. 2^(n + 5) = 32 * p
      BY <2>1, <3>1, <3>3, <3>7, n + 4 \in Nat, (n + 4) + 1 = n + 5
    <3>9. 2^(n + 6) = 64 * p
      BY <2>1, <3>1, <3>3, <3>8, n + 5 \in Nat, (n + 5) + 1 = n + 6
    <3>10. 2^(n + 7) = 128 * p
      BY <2>1, <3>1, <3>3, <3>9, n + 6 \in Nat, (n + 6) + 1 = n + 7
    <3> QED
      BY <2>1, <3>3, <3>10
  <2>3. E4M3(h) = (8 + q) * (p * 128)
    BY <1>1, <1>6, <2>2 DEF E4M3
  <2>4. ((8 + q) * p) * 128 = (8 + q) * (p * 128)
    BY <1>2, <2>1
  <2> QED
    BY <1>4, <1>6, <2>3, <2>4
<1> QED
  BY <1>5, <1>6

\* A float below the normal halves that does not vanish, d being its shift.
ShiftedBy(e, m, d, half, u) ==
    /\ half \in Nat \ {0} /\ u \in Nat \ {0} /\ 2^d = 2 * half /\ half = 2^(d - 1)
    /\ 2^d * u = 128 /\ F32(e, m) = (32 + m) * u /\ half >= 4

LEMMA ShiftIs ==
    ASSUME NEW e \in Int, e >= -10, e < -6, NEW m \in 0..31, NEW d \in Int, d + e + 4 = 0
    PROVE  \E half, u : ShiftedBy(e, m, d, half, u)
<1>1. F32(e, m) = (32 + m) * 2^(e + 11)
  <2>1. e >= MinExp
    BY DEF MinExp
  <2> QED
    BY <2>1, SubnormalIs, ZenonT(40)
<1>s. PICK s, half, u : s = 2^d /\ half = 2^(d - 1) /\ u = 2^(e + 11)
  OBVIOUS
<1>r. (half \in Nat \ {0} /\ u \in Nat \ {0} /\ s = 2 * half /\ s * u = 128 /\ half >= 4)
        => ShiftedBy(e, m, d, half, u)
  BY <1>1, <1>s DEF ShiftedBy
<1>2. CASE e + 10 = 0
  <2>1. d = 6 /\ d - 1 = 5 /\ e + 11 = 1
    BY <1>2
  <2>2. s = 64 /\ half = 32 /\ u = 2
    BY <1>s, <2>1, Powers
  <2> QED
    BY <1>r, <2>2
<1>3. CASE e + 9 = 0
  <2>1. d = 5 /\ d - 1 = 4 /\ e + 11 = 2
    BY <1>3
  <2>2. s = 32 /\ half = 16 /\ u = 4
    BY <1>s, <2>1, Powers
  <2> QED
    BY <1>r, <2>2
<1>4. CASE e + 8 = 0
  <2>1. d = 4 /\ d - 1 = 3 /\ e + 11 = 3
    BY <1>4
  <2>2. s = 16 /\ half = 8 /\ u = 8
    BY <1>s, <2>1, Powers
  <2> QED
    BY <1>r, <2>2
<1>5. CASE e + 7 = 0
  <2>1. d = 3 /\ d - 1 = 2 /\ e + 11 = 4
    BY <1>5
  <2>2. s = 8 /\ half = 4 /\ u = 16
    BY <1>s, <2>1, Powers
  <2> QED
    BY <1>r, <2>2
<1> QED
  BY <1>2, <1>3, <1>4, <1>5

\* f32_to_f16_bits, of a float of any exponent, in e4m3 values: nearest too,
\* infinity standing for the power of two after the largest half.
LEMMA HalfNearest ==
    ASSUME NEW e \in Int, e >= MinExp, NEW m \in 0..31
    PROVE  NearestOf(EncodeHalf(e, m), F32(e, m), Infinity)
<1> DEFINE rounded(keep, rest, half) == IF RoundUp(keep, rest, half) THEN keep + 1 ELSE keep
<1>0. Infinity = 120 /\ MinHalf = -6 /\ MinExp = -11
  BY DEF Infinity, MinHalf, MinExp
<1>x. PICK x : x = F32(e, m)
  OBVIOUS
<1>1. CASE e >= -6
  <2>1. PICK k, u \in Nat \ {0} :
             /\ k = 8 * (e + 7) + m \div 4
             /\ x = E4M3(k) + (m % 4) * u /\ x \in Nat
             /\ 2 * 2 * u = GapAfter(k) /\ (m \div 4) % 2 = k % 2
    BY <1>1, <1>x, NormalIs
  <2>2. PICK q, r, half, keep : q = m \div 4 /\ r = m % 4 /\ half = 2 /\ keep = rounded(q, r, half)
    OBVIOUS
  <2>3. q \in 0..7 /\ r \in 0..3 /\ k = 8 * (e + 7) + q /\ keep \in 0..8 /\ keep \in {q, q + 1}
    BY <2>1, <2>2
  <2>4. PICK code, field : code = 8 * (e + 7) + keep /\ field = e + 7 + (IF keep = 8 THEN 1 ELSE 0)
    OBVIOUS
  <2>5. Rounding(k, q, r, half, u, code, x)
    <3>1. half \in Nat \ {0} /\ 2 * half * u = GapAfter(k) /\ r < 2 * half
      BY <2>1, <2>2, <2>3
    <3>2. code = IF RoundUp(q, r, half) THEN k + 1 ELSE k
      BY <2>2, <2>3, <2>4
    <3> QED
      BY <2>1, <2>2, <2>3, <3>1, <3>2 DEF Rounding
  <2>6. EncodeHalf(e, m) = IF field >= 15 THEN 120 ELSE 8 * field + (keep % 8)
    BY <1>0, <1>1, <2>2, <2>4 DEF EncodeHalf
  <2>7. code \in Nat /\ (field < 15 => 8 * field + (keep % 8) = code /\ code <= 120)
    BY <1>1, <2>3, <2>4
  <2>8. CASE field < 15
    <3>1. PICK N \in Nat : N = 120
      OBVIOUS
    <3>2. NearestOf(code, x, N)
      BY <2>5, <2>7, <2>8, <3>1, RoundsToNearest
    <3>3. EncodeHalf(e, m) = code
      BY <1>1, <2>3, <2>4, <2>6, <2>7, <2>8
    <3> QED
      BY <1>0, <1>x, <3>1, <3>2, <3>3
  <2>9. CASE field >= 15 /\ e >= 8
    <3>1. PICK N \in Nat : N = 120
      OBVIOUS
    <3>2. E4M3(k) \in Nat /\ E4M3(N) \in Nat /\ GapAfter(N) \in Nat /\ r * u \in Nat
      BY <2>1, <2>3, GridIs
    <3>3. E4M3(N) <= E4M3(k)
      <4>1. N = k \/ N < k
        BY <2>3, <2>9, <3>1
      <4> QED
        BY <2>1, <3>2, <4>1, GridIncreases
    <3>4. x >= E4M3(N)
      BY <2>1, <2>2, <3>2, <3>3
    <3>5. NearestOf(N, x, N)
      BY <2>1, <3>4, LastNearest
    <3> QED
      BY <1>0, <1>x, <2>6, <2>9, <3>1, <3>5
  <2>10. CASE field >= 15 /\ e < 8
    <3>1. PICK N \in Nat : N = 120
      OBVIOUS
    <3>2. code = 120
      BY <1>1, <2>3, <2>4, <2>10
    <3>3. NearestOf(code, x, N)
      BY <2>5, <3>1, <3>2, RoundsToNearest
    <3> QED
      BY <1>0, <1>x, <2>6, <2>10, <3>1, <3>2, <3>3
  <2> QED
    BY <1>1, <2>3, <2>4, <2>8, <2>9, <2>10
<1>2. CASE e + 11 = 0
  <2>1. x \in Nat /\ x < 64
    <3>1. e >= MinExp /\ e < -6
      BY <1>0, <1>2
    <3>2. F32(e, m) \in 0..1023
      BY <3>1, SubnormalIs, ZenonT(40)
    <3>4. e + 11 = 0 => F32(e, m) < 64
      BY <3>1, SubnormalIs, ZenonT(40)
    <3>3. x \in 0..1023 /\ x < 64
      BY <1>2, <1>x, <3>2, <3>4
    <3> QED
      BY <3>3
  <2>2. EncodeHalf(e, m) = 0
    <3>1. ~(e >= -6) /\ -e - 4 >= 7
      BY <1>2
    <3> QED
      BY <1>0, <3>1 DEF EncodeHalf
  <2>3. PICK k, half, u, N : k = 0 /\ half = 64 /\ u = 1 /\ N = 120
    OBVIOUS
  <2>4. Rounding(k, k, x, half, u, k, x)
    <3>1. E4M3(k) = 0 /\ GapAfter(k) = 128
      <4>1. E4M3(0) = 0
        BY GridIs, 0 * 128 = 0, 0 < 9
      <4> QED
        BY <2>3, <4>1 DEF GapAfter
    <3>2. ~RoundUp(k, x, half)
      BY <2>1, <2>3 DEF RoundUp
    <3> QED
      BY <2>1, <2>3, <3>1, <3>2 DEF Rounding
  <2>5. NearestOf(k, x, N)
    BY <2>3, <2>4, RoundsToNearest
  <2> QED
    BY <1>0, <1>x, <2>2, <2>3, <2>5
<1>3. CASE e >= -10 /\ e < -6
  <2>0. PICK d \in Int : d = -e - 4 /\ d + e + 4 = 0
    OBVIOUS
  <2>1. PICK s, half, u : s = 2^d /\ ShiftedBy(e, m, d, half, u)
    BY <1>3, <2>0, ShiftIs
  <2>s. /\ s \in Nat \ {0} /\ half \in Nat \ {0} /\ u \in Nat \ {0} /\ s = 2 * half /\ half = 2^(d - 1)
        /\ s * u = 128 /\ x = (32 + m) * u /\ half >= 4
    BY <1>x, <2>1 DEF ShiftedBy
  <2>2. PICK k, r, code : k = (32 + m) \div s /\ r = (32 + m) % s /\ code = rounded(k, r, half)
    OBVIOUS
  <2>3. k \in Nat /\ r \in Nat /\ r < s /\ 32 + m = k * s + r
    <3>1. PICK y \in Nat : y = 32 + m
      OBVIOUS
    <3>2. k = y \div s /\ r = y % s /\ s \in Nat \ {0}
      BY <2>s, <2>2, <3>1
    <3>3. y \div s \in Nat /\ y % s \in 0..(s - 1) /\ y = (y \div s) * s + (y % s)
      BY <3>2, Quotient
    <3> QED
      BY <3>1, <3>2, <3>3
  <2>4. k <= 7
    <3>1. k * 8 <= k * s
      BY <2>s, <2>3
    <3>2. 32 + m <= 63 /\ k * s \in Nat
      BY <2>s, <2>3
    <3> QED
      BY <2>3, <3>1, <3>2
  <2>5. x = k * 128 + r * u /\ x \in Nat
    <3>1. (k * s + r) * u = (k * s) * u + r * u
      BY <2>s, <2>3
    <3>2. (k * s) * u = k * (s * u)
      BY <2>s, <2>3
    <3>3. r * u \in Nat /\ k * 128 \in Nat
      BY <2>s, <2>3
    <3> QED
      BY <2>s, <2>3, <3>1, <3>2, <3>3
  <2>6. E4M3(k) = k * 128 /\ GapAfter(k) = 128
    <3>1. E4M3(k) = k * 128
      BY <2>3, <2>4, GridIs
    <3>2. GapAfter(k) = 128
      BY <2>3, <2>4 DEF GapAfter
    <3> QED
      BY <3>1, <3>2
  <2>7. Rounding(k, k, r, half, u, code, x)
    <3>1. r < 2 * half /\ 2 * half * u = GapAfter(k) /\ k % 2 = k % 2
      BY <2>s, <2>3, <2>6
    <3> QED
      BY <2>s, <2>2, <2>3, <2>5, <2>6, <3>1 DEF Rounding
  <2>8. EncodeHalf(e, m) = code
    <3>1. ~(e >= -6) /\ ~(d >= 7)
      BY <1>3, <2>0
    <3>2. EncodeHalf(e, m) = rounded((32 + m) \div 2^d, (32 + m) % 2^d, 2^(d - 1))
      BY <1>0, <2>0, <3>1 DEF EncodeHalf
    <3> QED
      BY <2>1, <2>s, <2>2, <3>2
  <2>9. PICK N \in Nat : N = 120
    OBVIOUS
  <2>10. code <= N
    BY <2>2, <2>3, <2>4, <2>9
  <2>s1. NearestOf(code, x, N)
    BY <2>7, <2>10, RoundsToNearest
  <2> QED
    BY <1>0, <1>x, <2>8, <2>9, <2>s1
<1> QED
  BY <1>0, <1>1, <1>2, <1>3

\* A downward closed set of the first numbers is a segment.
LEMMA SegmentIs ==
    ASSUME NEW N \in Nat, NEW S \in SUBSET (1..N), \A m \in S : \A l \in 1..m : l \in S
    PROVE  Cardinality(S) \in 0..N /\ S = 1..Cardinality(S)
<1> DEFINE Closed(s) == \A m \in s : \A l \in 1..m : l \in s
           I == {n \in Nat : \A s \in SUBSET (1..n) : Closed(s) => \E k \in 0..n : s = 1..k}
<1>1. 0 \in I
  <2>1. \A s \in SUBSET (1..0) : s = 1..0
    OBVIOUS
  <2> QED
    BY <2>1, 0 \in 0..0
<1>2. ASSUME NEW n \in Nat, n \in I
      PROVE  n + 1 \in I
  <2>1. ASSUME NEW s \in SUBSET (1..(n + 1)), Closed(s)
        PROVE  \E k \in 0..(n + 1) : s = 1..k
    <3>1. CASE n + 1 \in s
      <4>1. s = 1..(n + 1)
        BY <2>1, <3>1
      <4> QED
        BY <4>1, n + 1 \in 0..(n + 1)
    <3>2. CASE n + 1 \notin s
      <4>1. s \in SUBSET (1..n)
        BY <3>2
      <4>2. PICK k \in 0..n : s = 1..k
        BY <1>2, <2>1, <4>1
      <4> QED
        BY <4>2
    <3> QED
      BY <3>1, <3>2
  <2> HIDE DEF Closed
  <2> QED
    BY <2>1
<1> HIDE DEF I
<1>3. Nat \subseteq I
  BY <1>1, <1>2, AllNat
<1>4. N \in I
  BY <1>3
<1>5. PICK k \in 0..N : S = 1..k
  BY <1>4 DEF I
<1>6. Cardinality(1..k) = k
  <2>1. 1 \in Int /\ k \in Int /\ 1 <= k + 1
    OBVIOUS
  <2> QED
    BY FS_Interval
<1> QED
  BY <1>5, <1>6

\* A TurboQuant key takes the nearest of any centroids, the lower of two.
LEMMA CentroidNearest ==
    ASSUME NEW c, NEW n \in Nat \ {0}, c \in [1..n -> Int],
           \A i, j \in 1..n : i < j => c[i] < c[j], NEW z \in Int
    PROVE  /\ Len(c) = n /\ KeyCode(z, c) \in 0..(n - 1)
           /\ \A j \in 0..(n - 1) :
                \/ Abs(c[KeyCode(z, c) + 1] - z) < Abs(c[j + 1] - z)
                \/ Abs(c[KeyCode(z, c) + 1] - z) = Abs(c[j + 1] - z) /\ KeyCode(z, c) <= j
<1>1. Len(c) = n
  BY SMT
<1> DEFINE S == {m \in 1..(n - 1) : 2 * z > c[m] + c[m + 1]}
<1>2. PICK k : k = KeyCode(z, c)
  OBVIOUS
<1>3. k = Cardinality(S)
  BY <1>1, <1>2 DEF KeyCode
<1>4. ASSUME NEW m \in S, NEW l \in 1..m
      PROVE  l \in S
  <2>1. m \in 1..(n - 1) /\ 2 * z > c[m] + c[m + 1] /\ l \in 1..(n - 1)
    OBVIOUS
  <2>2. l = m \/ (c[l] < c[m] /\ c[l + 1] < c[m + 1])
    BY <2>1
  <2>3. c[l] \in Int /\ c[m] \in Int /\ c[l + 1] \in Int /\ c[m + 1] \in Int
    BY <2>1
  <2>4. 2 * z > c[l] + c[l + 1]
    BY <2>1, <2>2, <2>3
  <2> QED
    BY <2>1, <2>4
<1>5. k \in 0..(n - 1) /\ S = 1..k
  <2>1. S \in SUBSET (1..(n - 1)) /\ n - 1 \in Nat
    OBVIOUS
  <2> HIDE DEF S
  <2> QED
    BY <1>3, <1>4, <2>1, SegmentIs
<1>6. ASSUME NEW j \in 0..(n - 1)
      PROVE  \/ Abs(c[k + 1] - z) < Abs(c[j + 1] - z)
             \/ Abs(c[k + 1] - z) = Abs(c[j + 1] - z) /\ k <= j
  <2>1. PICK x, y : x = c[k + 1] /\ y = c[j + 1]
    OBVIOUS
  <2>2. x \in Int /\ y \in Int
    BY <1>5, <2>1
  <2>3. CASE j = k
    BY <2>1, <2>2, <2>3 DEF Abs
  <2>4. CASE j < k
    <3>1. k \in S /\ k \in 1..(n - 1)
      <4>1. k \in 1..k
        BY <1>5, <2>4
      <4> HIDE DEF S
      <4> QED
        BY <1>5, <4>1
    <3>2. 2 * z > c[k] + x
      BY <2>1, <3>1
    <3>3. y <= c[k] /\ c[k] \in Int /\ c[k] < x
      BY <2>1, <2>4, <3>1
    <3>4. Abs(x - z) < Abs(y - z)
      BY <2>2, <3>2, <3>3 DEF Abs
    <3> QED
      BY <2>1, <3>4
  <2>5. CASE j > k
    <3>1. k + 1 \in 1..(n - 1) /\ k + 1 \notin S /\ (k + 1) + 1 = k + 2
      <4>1. k + 1 \in 1..(n - 1) /\ k + 1 \notin 1..k /\ (k + 1) + 1 = k + 2
        BY <1>5, <2>5
      <4> HIDE DEF S
      <4> QED
        BY <1>5, <4>1
    <3>2. ~(2 * z > x + c[k + 2])
      BY <2>1, <3>1
    <3>3. y >= c[k + 2] /\ c[k + 2] \in Int /\ c[k + 2] > x
      <4>1. k + 2 \in 1..n /\ k + 1 \in 1..n /\ j + 1 \in 1..n
        BY <1>5, <2>5
      <4>2. j + 1 = k + 2 \/ k + 2 < j + 1
        BY <1>5, <2>5
      <4>3. c[k + 1] < c[k + 2] /\ c[k + 2] \in Int
        BY <1>5, <4>1
      <4>4. c[k + 2] <= c[j + 1]
        BY <4>1, <4>2, <4>3
      <4> QED
        BY <2>1, <4>3, <4>4
    <3>4. Abs(x - z) < Abs(y - z) \/ Abs(x - z) = Abs(y - z)
      BY <2>2, <3>2, <3>3 DEF Abs
    <3> QED
      BY <1>5, <2>1, <2>5, <3>4
  <2> QED
    BY <1>5, <2>3, <2>4, <2>5
<1> QED
  BY <1>1, <1>2, <1>5, <1>6

\* The bits code i puts into byte b are those whose place lies in it.
LEMMA PackedIs ==
    ASSUME NEW bits \in 1..8, NEW i \in Nat, NEW code \in SUBSET (0..(bits - 1)), NEW b \in Nat, NEW x \in Int
    PROVE  x \in Packed(code, i, bits, b) <=> x \in 0..7 /\ \E p \in code : i * bits + p = 8 * b + x
<1>1. PICK f, B, o : f = i * bits /\ B = f \div 8 /\ o = f % 8
  OBVIOUS
<1>2. f \in Nat
  BY <1>1
<1>3. B \in Nat /\ o \in 0..7 /\ f = 8 * B + o
  BY <1>1, <1>2
<1>4. x \in ShiftLeft(code, o) <=> x \in 0..7 /\ \E p \in code : x = p + o
  BY DEF ShiftLeft, Byte
<1>5. x \in ShiftRight(code, 8 - o) <=> \E p \in code : p >= 8 - o /\ x = p - (8 - o)
  BY DEF ShiftRight
<1>6. x \in Packed(code, i, bits, b) <=>
        \/ b = B /\ x \in ShiftLeft(code, o)
        \/ o + bits > 8 /\ b = B + 1 /\ x \in ShiftRight(code, 8 - o)
  BY <1>1 DEF Packed, Spills
<1>7. ASSUME x \in Packed(code, i, bits, b)
      PROVE  x \in 0..7 /\ \E p \in code : f + p = 8 * b + x
  <2>1. CASE b = B /\ x \in ShiftLeft(code, o)
    <3>1. PICK p \in code : x = p + o
      BY <1>4, <2>1
    <3>2. f + p = 8 * b + x
      BY <1>3, <2>1, <3>1
    <3> QED
      BY <1>4, <2>1, <3>2
  <2>2. CASE o + bits > 8 /\ b = B + 1 /\ x \in ShiftRight(code, 8 - o)
    <3>1. PICK p \in code : p >= 8 - o /\ x = p - (8 - o)
      BY <1>5, <2>2
    <3>2. f + p = 8 * b + x /\ x \in 0..7
      BY <1>3, <2>2, <3>1
    <3> QED
      BY <3>2
  <2> QED
    BY <1>6, <1>7, <2>1, <2>2
<1>8. ASSUME x \in 0..7, NEW p \in code, f + p = 8 * b + x
      PROVE  x \in Packed(code, i, bits, b)
  <2>1. p \in 0..7 /\ p < bits
    OBVIOUS
  <2>2. (b = B /\ x = p + o) \/ (b = B + 1 /\ x = p - (8 - o))
    BY <1>3, <1>8, <2>1
  <2>3. CASE b = B /\ x = p + o
    BY <1>4, <1>6, <1>8, <2>3
  <2>4. CASE b = B + 1 /\ x = p - (8 - o)
    <3>1. p >= 8 - o /\ o + bits > 8
      BY <1>3, <1>8, <2>1, <2>4
    <3> QED
      BY <1>5, <1>6, <2>4, <3>1
  <2> QED
    BY <2>2, <2>3, <2>4
<1> QED
  BY <1>1, <1>7, <1>8

\* Bit x of byte b is a bit of the code whose place it is.
LEMMA BitIs ==
    ASSUME NEW bits \in 1..8, NEW n \in Nat, NEW codes \in [0..(n - 1) -> SUBSET (0..(bits - 1))],
           NEW b \in 0..(RowBytes(n, bits) - 1), NEW x \in 0..7,
           NEW i \in 0..(n - 1), NEW q \in 0..(bits - 1), 8 * b + x = i * bits + q
    PROVE  x \in PackCodes(codes, n, bits)[b] <=> q \in codes[i]
<1>0. b \in Nat /\ x \in Int
  <2>1. (n * bits + 7) \div 8 \in Int
    OBVIOUS
  <2> QED
    BY <2>1 DEF RowBytes
<1>1. PackCodes(codes, n, bits)[b] = UNION {Packed(codes[j], j, bits, b) : j \in 0..(n - 1)}
  BY DEF PackCodes
<1>2. ASSUME NEW j \in 0..(n - 1)
      PROVE  x \in Packed(codes[j], j, bits, b) <=> \E p \in codes[j] : j * bits + p = 8 * b + x
  <2>1. codes[j] \in SUBSET (0..(bits - 1)) /\ j \in Nat
    OBVIOUS
  <2> QED
    BY <1>0, <2>1, PackedIs
<1>3. ASSUME NEW j \in 0..(n - 1), NEW p \in codes[j], j * bits + p = 8 * b + x
      PROVE  j = i /\ p = q
  <2>1. PICK d, a : d = bits /\ a = i * bits + q
    OBVIOUS
  <2>2. d \in Nat \ {0} /\ p \in 0..(d - 1) /\ q \in 0..(d - 1) /\ i \in Nat /\ j \in Nat /\ a \in Nat
    BY <2>1
  <2>3. a = j * d + p /\ a = i * d + q
    BY <1>3, <2>1
  <2>4. ASSUME NEW k \in Nat, NEW l \in Nat, k < l
        PROVE  k * d + d <= l * d
    <3>1. (k + 1) * d <= l * d
      BY <2>2, <2>4
    <3>2. (k + 1) * d = k * d + d
      BY <2>2
    <3> QED
      BY <3>1, <3>2
  <2>5. j * d \in Nat /\ i * d \in Nat
    BY <2>2
  <2>6. ~(j < i) /\ ~(i < j)
    <3>1. j < i => j * d + d <= i * d
      BY <2>2, <2>4
    <3>2. i < j => i * d + d <= j * d
      BY <2>2, <2>4
    <3> QED
      BY <2>2, <2>3, <2>5, <3>1, <3>2
  <2>7. j = i
    BY <2>2, <2>6
  <2>8. p = q
    <3>1. j * d = i * d
      BY <2>7
    <3> QED
      BY <2>2, <2>3, <2>5, <3>1
  <2> QED
    BY <2>7, <2>8
<1>4. x \in PackCodes(codes, n, bits)[b] <=> \E j \in 0..(n - 1) : x \in Packed(codes[j], j, bits, b)
  BY <1>1
<1> QED
  BY <1>2, <1>3, <1>4

\* unpack_code returns every code pack_codes was given, for rows of any length
\* and codes of any width of up to eight bits.
THEOREM CodesUnpacked ==
    ASSUME NEW bits \in 1..8, NEW n \in Nat, NEW codes \in [0..(n - 1) -> SUBSET (0..(bits - 1))],
           NEW i \in 0..(n - 1)
    PROVE  UnpackCode(PackCodes(codes, n, bits), i, bits) = codes[i]
<1>1. PICK f, B, o, row : f = i * bits /\ B = f \div 8 /\ o = f % 8 /\ row = PackCodes(codes, n, bits)
  OBVIOUS
<1>2. f \in Nat /\ f + bits <= n * bits /\ n * bits \in Nat
  <2>1. (i + 1) * bits <= n * bits
    BY SMT
  <2>2. (i + 1) * bits = f + bits
    BY <1>1
  <2> QED
    BY <1>1, <2>1, <2>2
<1>3. B \in Nat /\ o \in 0..7 /\ f = 8 * B + o
  BY <1>1, <1>2
<1>4. /\ B \in 0..(RowBytes(n, bits) - 1)
      /\ o + bits > 8 => B + 1 \in 0..(RowBytes(n, bits) - 1)
  <2>1. PICK t : t = n * bits
    OBVIOUS
  <2>2. t \in Nat /\ f + bits <= t /\ RowBytes(n, bits) = (t + 7) \div 8
    BY <1>2, <2>1 DEF RowBytes
  <2>3. 8 * B + o + bits <= t
    BY <1>3, <2>2
  <2>4. B < (t + 7) \div 8
    BY <1>3, <2>2, <2>3
  <2>5. o + bits > 8 => B + 1 < (t + 7) \div 8
    BY <1>3, <2>2, <2>3
  <2> QED
    BY <1>3, <2>2, <2>4, <2>5
<1>5. ASSUME NEW q \in 0..(bits - 1)
      PROVE  q \in UnpackCode(row, i, bits) <=>
               \/ \E x \in row[B] : x >= o /\ q = x - o
               \/ o + bits > 8 /\ \E x \in row[B + 1] : q = (x + 8) - o
  BY <1>1 DEF UnpackCode, ShiftRight, Spills
<1>6. \A b \in 0..(RowBytes(n, bits) - 1) : row[b] \subseteq 0..7
  <2>1. ASSUME NEW b \in 0..(RowBytes(n, bits) - 1), NEW x \in row[b]
        PROVE  x \in 0..7
    <3>1. row[b] = UNION {Packed(codes[j], j, bits, b) : j \in 0..(n - 1)}
      BY <1>1 DEF PackCodes
    <3>2. PICK j \in 0..(n - 1) : x \in Packed(codes[j], j, bits, b)
      BY <2>1, <3>1
    <3>3. codes[j] \in SUBSET (0..(bits - 1)) /\ j \in Nat
      OBVIOUS
    <3>4. b \in Nat
      <4>1. (n * bits + 7) \div 8 \in Int
        BY <1>2
      <4> QED
        BY <4>1 DEF RowBytes
    <3>5. x \in Int
      <4>1. (j * bits) % 8 \in 0..7
        BY SMT
      <4> QED
        BY <3>2, <3>3, <4>1 DEF Packed, ShiftLeft, ShiftRight, Byte
    <3> QED
      BY <3>2, <3>3, <3>4, <3>5, PackedIs
  <2> QED
    BY <2>1
<1>9. ASSUME NEW b \in 0..(RowBytes(n, bits) - 1), NEW x \in 0..7, NEW q \in 0..(bits - 1),
             8 * b + x = f + q
      PROVE  x \in row[b] <=> q \in codes[i]
  <2>1. 8 * b + x = i * bits + q
    BY <1>1, <1>9
  <2>2. x \in PackCodes(codes, n, bits)[b] <=> q \in codes[i]
    BY <2>1, BitIs
  <2> QED
    BY <1>1, <2>2
<1>7. ASSUME NEW q \in 0..(bits - 1)
      PROVE  q \in UnpackCode(row, i, bits) <=> q \in codes[i]
  <2>1. ASSUME NEW x \in row[B], q = x - o
        PROVE  q \in codes[i]
    <3>1. x \in 0..7
      BY <1>4, <1>6, <2>1
    <3>2. f = 8 * B + o /\ B \in Nat /\ o \in Nat
      BY <1>3
    <3>3. PICK y \in 0..7 : y = x
      BY <3>1
    <3>4. q = y - o
      BY <2>1, <3>3
    <3>5. 8 * B + y = f + q
      BY <3>2, <3>4
    <3> QED
      BY <1>4, <1>9, <2>1, <3>3, <3>5
  <2>2. ASSUME o + bits > 8, NEW x \in row[B + 1], q = (x + 8) - o
        PROVE  q \in codes[i]
    <3>1. PICK b : b = B + 1
      OBVIOUS
    <3>2. b \in 0..(RowBytes(n, bits) - 1) /\ x \in row[b]
      BY <1>4, <2>2, <3>1
    <3>3. x \in 0..7
      BY <1>6, <3>2
    <3>4. 8 * b + x = f + q
      BY <1>3, <2>2, <3>1, <3>3
    <3> QED
      BY <1>9, <3>2, <3>3, <3>4
  <2>3. ASSUME q \in codes[i], q + o <= 7
        PROVE  \E x \in row[B] : x >= o /\ q = x - o
    <3>1. PICK x : x = q + o
      OBVIOUS
    <3>2. x \in 0..7 /\ 8 * B + x = f + q /\ x >= o /\ q = x - o
      BY <1>3, <2>3, <3>1
    <3>3. x \in row[B]
      BY <1>4, <1>9, <2>3, <3>2
    <3> QED
      BY <3>2, <3>3
  <2>4. ASSUME q \in codes[i], ~(q + o <= 7)
        PROVE  o + bits > 8 /\ \E x \in row[B + 1] : q = (x + 8) - o
    <3>1. PICK x : x = (q + o) - 8
      OBVIOUS
    <3>2. x \in 0..7 /\ 8 * (B + 1) + x = f + q /\ q = (x + 8) - o /\ o + bits > 8
      BY <1>3, <2>4, <3>1
    <3>3. PICK b : b = B + 1
      OBVIOUS
    <3>4. b \in 0..(RowBytes(n, bits) - 1) /\ 8 * b + x = f + q
      BY <1>4, <3>2, <3>3
    <3>5. x \in row[b]
      BY <1>9, <2>4, <3>2, <3>4
    <3> QED
      BY <3>2, <3>3, <3>5
  <2> QED
    BY <1>5, <2>1, <2>2, <2>3, <2>4
<1>8. UnpackCode(row, i, bits) \subseteq 0..(bits - 1)
  BY DEF UnpackCode
<1> QED
  BY <1>1, <1>7, <1>8

\* The magnitudes of e2m1, as the half their bits make.
LEMMA E2M1Is == ASSUME NEW nibble \in Nat PROVE E2M1Half(nibble) = E2M1(nibble) /\ E2M1(nibble) \in Nat
<1>1. PICK d, e, b : d = nibble % 8 /\ e = d \div 2 /\ b = nibble % 2
  OBVIOUS
<1>2. d \in 0..7 /\ b = d % 2
  BY <1>1
<1>3. 2^0 = 1 /\ 2^1 = 2 /\ 2^2 = 4
  BY Powers
<1>4. E2M1Half(nibble) = IF e = 0 THEN b ELSE (2 + b) * 2^(e - 1)
  BY <1>1, <1>3 DEF E2M1Half, Half
<1>5. E2M1(nibble) = <<0, 1, 2, 3, 4, 6, 8, 12>>[d + 1]
  BY <1>1 DEF E2M1
<1>6. CASE d \in {0, 1}
  BY <1>1, <1>2, <1>4, <1>5, <1>6
<1>7. CASE d \in {2, 3}
  <2>1. e = 1 /\ e - 1 = 0
    BY <1>1, <1>7
  <2> QED
    BY <1>2, <1>3, <1>4, <1>5, <1>7, <2>1
<1>8. CASE d \in {4, 5}
  <2>1. e = 2 /\ e - 1 = 1
    BY <1>1, <1>8
  <2> QED
    BY <1>2, <1>3, <1>4, <1>5, <1>8, <2>1
<1>9. CASE d \in {6, 7}
  <2>1. e = 3 /\ e - 1 = 2
    BY <1>1, <1>9
  <2> QED
    BY <1>2, <1>3, <1>4, <1>5, <1>9, <2>1
<1> QED
  BY <1>2, <1>6, <1>7, <1>8, <1>9

\* The fused decode is the product of the fp4 weight and its fp8 scale, for
\* every pair of bytes.
THEOREM FusedExact ==
    ASSUME NEW nibble \in Nat, NEW code \in Nat
    PROVE  FusedProduct(nibble, code) = E2M1(nibble) * E4M3(code)
<1>1. PICK w, h, s : w = E2M1(nibble) /\ h = E4M3Half(code) /\ s = E4M3(code)
  OBVIOUS
<1>2. E2M1Half(nibble) = w /\ w \in Nat
  BY <1>1, E2M1Is
<1>3. h * 2^7 = s
  BY <1>1, HalfIsGrid DEF HalfValue, E4M3Half
<1>4. 2^7 = 128 /\ Compensation - 15 = 7
  BY Powers DEF Compensation
<1>5. h \in Int
  <2>1. PICK f, q, p : f = code \div 8 /\ q = code % 8 /\ p = 2^(f - 1)
    OBVIOUS
  <2>2. f \in Nat /\ q \in 0..7 /\ (f # 0 => f - 1 \in Nat)
    BY <2>1
  <2>3. f # 0 => p \in Nat
    BY <2>1, <2>2, PowNat
  <2>4. h = IF f = 0 THEN q ELSE (2^3 + q) * p
    BY <1>1, <2>1 DEF E4M3Half, Half
  <2>5. 2^3 = 8
    BY Powers
  <2> QED
    BY <2>2, <2>3, <2>4, <2>5
<1>6. FusedProduct(nibble, code) = (w * h) * 128
  BY <1>1, <1>2, <1>4 DEF FusedProduct
<1>7. (w * h) * 128 = w * (h * 128)
  BY <1>2, <1>5
<1> QED
  BY <1>1, <1>3, <1>4, <1>6, <1>7

(* The rotation of TurboQuant keys                                          *)

Vectors(N) == [0..(N - 1) -> Int]

Scaled(c, u) == [i \in DOMAIN u |-> c * u[i]]

IsLower(i, len) == (i \div len) % 2 = 0

\* Passes over spans of a: whom they pair, and that this leaves the sides of
\* the passes over spans of b alone.
PairsUp(a, N) ==
    \A i \in 0..(N - 1) :
      /\ IsLower(i, a) => i + a \in 0..(N - 1) /\ ~IsLower(i + a, a)
      /\ ~IsLower(i, a) => i - a \in 0..(N - 1) /\ IsLower(i - a, a)

Ignores(a, b, N) ==
    \A i \in 0..(N - 1) :
      /\ IsLower(i, a) => (IsLower(i + a, b) <=> IsLower(i, b))
      /\ ~IsLower(i, a) => (IsLower(i - a, b) <=> IsLower(i, b))

LEMMA PassIs ==
    ASSUME NEW N \in Nat, NEW a \in Nat \ {0}, PairsUp(a, N), NEW u \in Vectors(N)
    PROVE  /\ Pass(u, a) \in Vectors(N)
           /\ \A i \in 0..(N - 1) :
                Pass(u, a)[i] = IF IsLower(i, a) THEN u[i] + u[i + a] ELSE u[i - a] - u[i]
<1>1. DOMAIN u = 0..(N - 1) /\ \A i \in 0..(N - 1) : u[i] \in Int
  BY DEF Vectors
<1>2. Pass(u, a) = [i \in 0..(N - 1) |-> IF IsLower(i, a) THEN u[i] + u[i + a] ELSE u[i - a] - u[i]]
  BY <1>1 DEF Pass, IsLower
<1>3. \A i \in 0..(N - 1) : (IF IsLower(i, a) THEN u[i] + u[i + a] ELSE u[i - a] - u[i]) \in Int
  BY <1>1 DEF PairsUp
<1> QED
  BY <1>2, <1>3 DEF Vectors

\* Two passes over the same spans double a vector.
LEMMA PassTwice ==
    ASSUME NEW N \in Nat, NEW a \in Nat \ {0}, PairsUp(a, N), NEW u \in Vectors(N)
    PROVE  Pass(Pass(u, a), a) = Scaled(2, u)
<1>1. PICK v : v = Pass(u, a)
  OBVIOUS
<1>2. v \in Vectors(N) /\ Pass(v, a) \in Vectors(N)
  BY <1>1, PassIs
<1>3. ASSUME NEW i \in 0..(N - 1)
      PROVE  Pass(v, a)[i] = 2 * u[i]
  <2>1. Pass(v, a)[i] = IF IsLower(i, a) THEN v[i] + v[i + a] ELSE v[i - a] - v[i]
    BY <1>2, PassIs
  <2>2. \A j \in 0..(N - 1) : v[j] = (IF IsLower(j, a) THEN u[j] + u[j + a] ELSE u[j - a] - u[j]) /\ u[j] \in Int
    <3>1. \A j \in 0..(N - 1) : v[j] = (IF IsLower(j, a) THEN u[j] + u[j + a] ELSE u[j - a] - u[j])
      BY <1>1, PassIs
    <3>2. \A j \in 0..(N - 1) : u[j] \in Int
      BY DEF Vectors
    <3> QED
      BY <3>1, <3>2
  <2>3. CASE IsLower(i, a)
    <3>1. i + a \in 0..(N - 1) /\ ~IsLower(i + a, a) /\ (i + a) - a = i
      BY <2>3 DEF PairsUp
    <3>2. v[i] = u[i] + u[i + a] /\ v[i + a] = u[i] - u[i + a]
      BY <2>2, <2>3, <3>1
    <3> QED
      BY <2>1, <2>2, <2>3, <3>1, <3>2
  <2>4. CASE ~IsLower(i, a)
    <3>1. i - a \in 0..(N - 1) /\ IsLower(i - a, a) /\ (i - a) + a = i
      BY <2>4 DEF PairsUp
    <3>2. v[i] = u[i - a] - u[i] /\ v[i - a] = u[i - a] + u[i]
      BY <2>2, <2>4, <3>1
    <3> QED
      BY <2>1, <2>2, <2>4, <3>1, <3>2
  <2> QED
    BY <2>3, <2>4
<1>4. Scaled(2, u) = [i \in 0..(N - 1) |-> 2 * u[i]]
  BY DEF Scaled, Vectors
<1> QED
  BY <1>1, <1>2, <1>3, <1>4 DEF Vectors

\* A pass over independent spans may be made before or after.
LEMMA PassesCommute ==
    ASSUME NEW N \in Nat, NEW a \in Nat \ {0}, NEW b \in Nat \ {0}, PairsUp(a, N), PairsUp(b, N),
           Ignores(a, b, N), Ignores(b, a, N), NEW u \in Vectors(N)
    PROVE  Pass(Pass(u, a), b) = Pass(Pass(u, b), a)
<1>1. PICK v, w : v = Pass(u, a) /\ w = Pass(u, b)
  OBVIOUS
<1>2. v \in Vectors(N) /\ w \in Vectors(N) /\ Pass(v, b) \in Vectors(N) /\ Pass(w, a) \in Vectors(N)
  BY <1>1, PassIs
<1>3. ASSUME NEW i \in 0..(N - 1)
      PROVE  Pass(v, b)[i] = Pass(w, a)[i]
  <2>1. /\ Pass(v, b)[i] = (IF IsLower(i, b) THEN v[i] + v[i + b] ELSE v[i - b] - v[i])
        /\ Pass(w, a)[i] = (IF IsLower(i, a) THEN w[i] + w[i + a] ELSE w[i - a] - w[i])
    BY <1>2, PassIs
  <2>2. \A j \in 0..(N - 1) : /\ v[j] = (IF IsLower(j, a) THEN u[j] + u[j + a] ELSE u[j - a] - u[j])
                              /\ w[j] = (IF IsLower(j, b) THEN u[j] + u[j + b] ELSE u[j - b] - u[j])
                              /\ u[j] \in Int
    <3>1. \A j \in 0..(N - 1) : v[j] = (IF IsLower(j, a) THEN u[j] + u[j + a] ELSE u[j - a] - u[j])
      BY <1>1, PassIs
    <3>2. \A j \in 0..(N - 1) : w[j] = (IF IsLower(j, b) THEN u[j] + u[j + b] ELSE u[j - b] - u[j])
      BY <1>1, PassIs
    <3>3. \A j \in 0..(N - 1) : u[j] \in Int
      BY DEF Vectors
    <3> QED
      BY <3>1, <3>2, <3>3
  <2>3. PICK k, l : k = (IF IsLower(i, a) THEN i + a ELSE i - a) /\ l = (IF IsLower(i, b) THEN i + b ELSE i - b)
    OBVIOUS
  <2>4. k \in 0..(N - 1) /\ l \in 0..(N - 1)
    BY <2>3 DEF PairsUp
  <2>5. (IsLower(k, b) <=> IsLower(i, b)) /\ (IsLower(l, a) <=> IsLower(i, a))
    BY <2>3 DEF Ignores
  <2>6. PICK t : t = (IF IsLower(i, a) THEN l + a ELSE l - a)
    OBVIOUS
  <2>7. t = (IF IsLower(i, b) THEN k + b ELSE k - b) /\ t \in 0..(N - 1)
    <3>1. t \in 0..(N - 1)
      BY <2>4, <2>5, <2>6 DEF PairsUp
    <3> QED
      BY <2>3, <2>6, <3>1
  <2>8. /\ v[i] = (IF IsLower(i, a) THEN u[i] + u[k] ELSE u[k] - u[i])
        /\ v[l] = (IF IsLower(i, a) THEN u[l] + u[t] ELSE u[t] - u[l])
        /\ w[i] = (IF IsLower(i, b) THEN u[i] + u[l] ELSE u[l] - u[i])
        /\ w[k] = (IF IsLower(i, b) THEN u[k] + u[t] ELSE u[t] - u[k])
    <3>1. v[i] = (IF IsLower(i, a) THEN u[i] + u[k] ELSE u[k] - u[i])
      BY <2>2, <2>3
    <3>2. v[l] = (IF IsLower(i, a) THEN u[l] + u[t] ELSE u[t] - u[l])
      BY <2>2, <2>4, <2>5, <2>6
    <3>3. w[i] = (IF IsLower(i, b) THEN u[i] + u[l] ELSE u[l] - u[i])
      BY <2>2, <2>3
    <3>4. w[k] = (IF IsLower(i, b) THEN u[k] + u[t] ELSE u[t] - u[k])
      BY <2>2, <2>4, <2>5, <2>7
    <3> QED
      BY <3>1, <3>2, <3>3, <3>4
  <2>9. /\ Pass(v, b)[i] = (IF IsLower(i, b) THEN v[i] + v[l] ELSE v[l] - v[i])
        /\ Pass(w, a)[i] = (IF IsLower(i, a) THEN w[i] + w[k] ELSE w[k] - w[i])
    BY <2>1, <2>3
  <2>10. u[i] \in Int /\ u[k] \in Int /\ u[l] \in Int /\ u[t] \in Int
    BY <2>2, <2>4, <2>7
  <2> QED
    BY <2>8, <2>9, <2>10
<1> QED
  BY <1>1, <1>2, <1>3 DEF Vectors

\* A pass of a scaled vector.
LEMMA PassScales ==
    ASSUME NEW N \in Nat, NEW a \in Nat \ {0}, PairsUp(a, N), NEW u \in Vectors(N), NEW c \in Int
    PROVE  Pass(Scaled(c, u), a) = Scaled(c, Pass(u, a)) /\ Scaled(c, u) \in Vectors(N)
<1>1. PICK v, w : v = Scaled(c, u) /\ w = Pass(u, a)
  OBVIOUS
<1>2. v \in Vectors(N) /\ \A i \in 0..(N - 1) : v[i] = c * u[i] /\ u[i] \in Int
  <2>1. u \in [0..(N - 1) -> Int]
    BY DEF Vectors
  <2>2. v = [i \in 0..(N - 1) |-> c * u[i]] /\ \A i \in 0..(N - 1) : c * u[i] \in Int
    BY <1>1, <2>1 DEF Scaled
  <2> QED
    BY <2>1, <2>2 DEF Vectors
<1>3. w \in Vectors(N) /\ Pass(v, a) \in Vectors(N)
  BY <1>1, <1>2, PassIs
<1>4. ASSUME NEW i \in 0..(N - 1)
      PROVE  Pass(v, a)[i] = c * w[i]
  <2>1. Pass(v, a)[i] = (IF IsLower(i, a) THEN v[i] + v[i + a] ELSE v[i - a] - v[i])
    BY <1>2, PassIs
  <2>2. w[i] = (IF IsLower(i, a) THEN u[i] + u[i + a] ELSE u[i - a] - u[i])
    BY <1>1, PassIs
  <2>3. IsLower(i, a) => i + a \in 0..(N - 1)
    BY DEF PairsUp
  <2>4. ~IsLower(i, a) => i - a \in 0..(N - 1)
    BY DEF PairsUp
  <2>5. \A x, y \in Int : c * x + c * y = c * (x + y) /\ c * x - c * y = c * (x - y)
    BY SMT
  <2> QED
    BY <1>2, <2>1, <2>2, <2>3, <2>4, <2>5
<1>5. Scaled(c, w) = [i \in 0..(N - 1) |-> c * w[i]]
  BY <1>3 DEF Scaled, Vectors
<1> QED
  BY <1>1, <1>2, <1>3, <1>4, <1>5 DEF Vectors

\* Spans of a fit a vector of 2 * a * e coordinates.
LEMMA SpansPair ==
    ASSUME NEW a \in Nat \ {0}, NEW e \in Nat \ {0}, NEW N \in Nat, N = e * (2 * a)
    PROVE  PairsUp(a, N)
<1>1. ASSUME NEW i \in 0..(N - 1)
      PROVE  /\ IsLower(i, a) => i + a \in 0..(N - 1) /\ ~IsLower(i + a, a)
             /\ ~IsLower(i, a) => i - a \in 0..(N - 1) /\ IsLower(i - a, a)
  <2>1. PICK q, r : q = i \div a /\ r = i % a
    OBVIOUS
  <2>2. q \in Nat /\ r \in 0..(a - 1) /\ i = q * a + r
    <3>1. i \in Nat
      OBVIOUS
    <3> QED
      BY <2>1, <3>1, Quotient
  <2>3. q < 2 * e
    <3>1. N = (2 * e) * a
      BY SMT
    <3>2. q * a < (2 * e) * a
      <4>1. q * a \in Nat
        BY <2>2
      <4> QED
        BY <2>2, <3>1, <4>1
    <3>3. PICK y \in Nat : y = 2 * e
      OBVIOUS
    <3> QED
      BY <2>2, <3>2, <3>3, LessByFactor
  <2>4. CASE IsLower(i, a)
    <3>1. q % 2 = 0
      BY <2>1, <2>4 DEF IsLower
    <3>2. q + 2 <= 2 * e /\ (q + 1) % 2 = 1 /\ q + 1 \in Nat
      BY <2>2, <2>3, <3>1
    <3>3. i + a = (q + 1) * a + r
      BY <2>2
    <3>4. i + a < N
      <4>1. (q + 2) * a <= (2 * e) * a
        BY <2>2, <3>2
      <4>2. (q + 2) * a = (q + 1) * a + a /\ (2 * e) * a = N /\ (q + 1) * a \in Nat
        BY <2>2
      <4> QED
        BY <2>2, <3>3, <4>1, <4>2
    <3>5. (i + a) \div a = q + 1
      <4>1. ((q + 1) * a + r) \div a = q + 1
        BY <2>2, <3>2, QuotientUnique
      <4> QED
        BY <3>3, <4>1
    <3> QED
      BY <2>4, <3>2, <3>4, <3>5 DEF IsLower
  <2>5. CASE ~IsLower(i, a)
    <3>1. q % 2 # 0
      BY <2>1, <2>5 DEF IsLower
    <3>2. q - 1 \in Nat /\ (q - 1) % 2 = 0
      BY <2>2, <3>1
    <3>3. i - a = (q - 1) * a + r /\ (q - 1) * a \in Nat
      BY <2>2, <3>2
    <3>4. (i - a) \div a = q - 1
      <4>1. ((q - 1) * a + r) \div a = q - 1
        BY <2>2, <3>2, QuotientUnique
      <4> QED
        BY <3>3, <4>1
    <3> QED
      BY <2>2, <2>5, <3>2, <3>3, <3>4 DEF IsLower
  <2> QED
    BY <2>4, <2>5
<1> QED
  BY <1>1 DEF PairsUp

\* Halving what a number of even quotient counts.
LEMMA EvenStays ==
    ASSUME NEW q \in Nat, q % 2 = 0, NEW c \in Nat \ {0}
    PROVE  (q + 1) \div (2 * c) = q \div (2 * c)
<1>1. PICK d \in Nat \ {0} : d = 2 * c
  OBVIOUS
<1>2. PICK h, s : h = q \div d /\ s = q % d
  OBVIOUS
<1>3. h \in Nat /\ s \in 0..(d - 1) /\ q = h * d + s
  BY <1>1, <1>2, Quotient
<1>4. PICK y \in Nat : y = h * c
  BY <1>3
<1>5. h * d = 2 * y
  BY <1>1, <1>3, <1>4
<1>6. s + 1 \in 0..(d - 1)
  <2>1. s % 2 = 0
    BY <1>3, <1>5
  <2> QED
    BY <1>1, <1>3, <2>1
<1>7. q + 1 = h * d + (s + 1)
  BY <1>3
<1>8. (h * d + (s + 1)) \div d = h
  BY <1>3, <1>6, QuotientUnique
<1> QED
  BY <1>1, <1>2, <1>7, <1>8

LEMMA DivTwice ==
    ASSUME NEW i \in Nat, NEW a \in Nat \ {0}, NEW d \in Nat \ {0}
    PROVE  i \div (a * d) = (i \div a) \div d
<1>1. PICK q, r, h, s : q = i \div a /\ r = i % a /\ h = q \div d /\ s = q % d
  OBVIOUS
<1>2. q \in Nat /\ r \in 0..(a - 1) /\ i = q * a + r
  BY <1>1, Quotient
<1>3. h \in Nat /\ s \in 0..(d - 1) /\ q = h * d + s
  BY <1>1, <1>2, Quotient
<1>4. PICK b, t : b = a * d /\ t = s * a + r
  OBVIOUS
<1>5. b \in Nat \ {0}
  BY <1>4
<1>6. t \in 0..(b - 1)
  <2>1. (s + 1) * a <= d * a
    BY <1>3
  <2>2. (s + 1) * a = s * a + a /\ d * a = b /\ s * a \in Nat
    BY <1>3, <1>4
  <2> QED
    BY <1>2, <1>4, <2>1, <2>2
<1>7. i = h * b + t
  <2>1. (h * d + s) * a = h * b + s * a
    BY <1>3, <1>4
  <2> QED
    BY <1>2, <1>3, <1>4, <2>1
<1>8. (h * b + t) \div b = h
  BY <1>3, <1>5, <1>6, QuotientUnique
<1> QED
  BY <1>1, <1>4, <1>7, <1>8

\* Passes over spans of a, and over spans that are a multiple of 2 * a.
LEMMA SpansIgnore ==
    ASSUME NEW a \in Nat \ {0}, NEW c \in Nat \ {0}, NEW b \in Nat \ {0}, b = a * (2 * c), NEW N \in Nat,
           PairsUp(a, N), PairsUp(b, N)
    PROVE  Ignores(a, b, N) /\ Ignores(b, a, N)
<1>1. PICK d \in Nat \ {0} : d = 2 * c
  OBVIOUS
<1>2. ASSUME NEW j \in Nat
      PROVE  j \div b = (j \div a) \div d
  <2>1. b = a * d
    BY <1>1
  <2>2. j \div (a * d) = (j \div a) \div d
    BY DivTwice
  <2> QED
    BY <2>1, <2>2
<1>3. ASSUME NEW j \in Nat, IsLower(j, a)
      PROVE  IsLower(j + a, b) <=> IsLower(j, b)
  <2>1. PICK q, r : q = j \div a /\ r = j % a
    OBVIOUS
  <2>2. q \in Nat /\ r \in 0..(a - 1) /\ j = q * a + r
    BY <2>1, Quotient
  <2>3. q % 2 = 0
    BY <1>3, <2>1 DEF IsLower
  <2>4. (j + a) \div a = q + 1
    <3>1. ((q + 1) * a + r) \div a = q + 1
      BY <2>2, q + 1 \in Nat, QuotientUnique
    <3>2. j + a = (q + 1) * a + r
      BY <2>2
    <3> QED
      BY <3>1, <3>2
  <2>5. (q + 1) \div d = q \div d
    BY <1>1, <2>2, <2>3, EvenStays
  <2>6. (j + a) \div b = j \div b
    <3>1. j + a \in Nat
      OBVIOUS
    <3> QED
      BY <1>2, <2>1, <2>4, <2>5, <3>1
  <2> QED
    BY <2>6 DEF IsLower
<1>4. ASSUME NEW j \in Nat
      PROVE  IsLower(j + b, a) <=> IsLower(j, a)
  <2>1. PICK q, r : q = j \div a /\ r = j % a
    OBVIOUS
  <2>2. q \in Nat /\ r \in 0..(a - 1) /\ j = q * a + r
    BY <2>1, Quotient
  <2>3. (j + b) \div a = q + 2 * c
    <3>1. PICK p \in Nat : p = q + 2 * c
      BY <2>2
    <3>2. (p * a + r) \div a = p
      BY <2>2, <3>1, QuotientUnique
    <3>3. p * a = q * a + b
      BY <2>2, <3>1
    <3>4. q * a \in Nat
      BY <2>2
    <3>5. j + b = p * a + r
      BY <2>2, <3>3, <3>4
    <3> QED
      BY <3>1, <3>2, <3>5
  <2>4. (q + 2 * c) % 2 = q % 2
    BY <2>2
  <2> QED
    BY <2>1, <2>3, <2>4 DEF IsLower
<1>5. ASSUME NEW i \in 0..(N - 1)
      PROVE  /\ IsLower(i, a) => (IsLower(i + a, b) <=> IsLower(i, b))
             /\ ~IsLower(i, a) => (IsLower(i - a, b) <=> IsLower(i, b))
             /\ IsLower(i, b) => (IsLower(i + b, a) <=> IsLower(i, a))
             /\ ~IsLower(i, b) => (IsLower(i - b, a) <=> IsLower(i, a))
  <2>1. ASSUME ~IsLower(i, a)
        PROVE  IsLower(i - a, b) <=> IsLower(i, b)
    <3>1. PICK j : j = i - a
      OBVIOUS
    <3>2. j \in Nat /\ IsLower(j, a) /\ j + a = i
      BY <2>1, <3>1 DEF PairsUp
    <3> QED
      BY <1>3, <3>1, <3>2
  <2>2. ASSUME ~IsLower(i, b)
        PROVE  IsLower(i - b, a) <=> IsLower(i, a)
    <3>1. PICK j : j = i - b
      OBVIOUS
    <3>2. j \in Nat /\ j + b = i
      BY <2>2, <3>1 DEF PairsUp
    <3> QED
      BY <1>4, <3>1, <3>2
  <2> QED
    BY <1>3, <1>4, <2>1, <2>2
<1> QED
  BY <1>5 DEF Ignores

\* A power of two is a positive multiple of every lower one.
LEMMA PowerFactor ==
    ASSUME NEW j \in Nat, NEW n \in Nat
    PROVE  \E c \in Nat \ {0} : 2^(j + n) = 2^j * c
<1> DEFINE I == {m \in Nat : \E c \in Nat \ {0} : 2^(j + m) = 2^j * c}
<1>0. 2^j \in Nat \ {0}
  BY PowPositive
<1>1. 0 \in I
  <2>1. j + 0 = j /\ 2^j = 2^j * 1
    BY <1>0
  <2> QED
    BY <2>1
<1>2. ASSUME NEW m \in Nat, m \in I
      PROVE  m + 1 \in I
  <2>1. PICK c \in Nat \ {0} : 2^(j + m) = 2^j * c
    BY <1>2
  <2>2. 2^((j + m) + 1) = 2^(j + m) + 2^(j + m)
    BY PowStep
  <2>3. (j + m) + 1 = j + (m + 1)
    OBVIOUS
  <2>4. PICK y, z : y = 2^j /\ z = 2^(j + (m + 1))
    OBVIOUS
  <2>5. z = y * c + y * c
    BY <2>1, <2>2, <2>3, <2>4
  <2>6. z = y * (2 * c)
    BY <1>0, <2>4, <2>5
  <2>7. PICK cc \in Nat \ {0} : cc = 2 * c
    OBVIOUS
  <2>8. 2^(j + (m + 1)) = 2^j * cc
    BY <2>4, <2>6, <2>7
  <2> QED
    BY <2>8
<1> HIDE DEF I
<1>3. n \in I
  BY <1>1, <1>2, AllNat
<1> QED
  BY <1>3 DEF I

\* The passes of a rotation are over independent spans.
LEMMA PassSpans ==
    ASSUME NEW p \in Nat, NEW j \in 0..(p - 1), NEW k \in 0..(p - 1)
    PROVE  /\ 2^j \in Nat \ {0} /\ PairsUp(2^j, 2^p) /\ 2^p \in Nat
           /\ j < k => Ignores(2^j, 2^k, 2^p) /\ Ignores(2^k, 2^j, 2^p)
<1>1. 2^p \in Nat
  BY PowNat
<1>2. ASSUME NEW l \in 0..(p - 1)
      PROVE  2^l \in Nat \ {0} /\ PairsUp(2^l, 2^p)
  <2>1. 2^l \in Nat \ {0}
    BY PowPositive
  <2>2. PICK n \in Nat : n = p - 1 - l
    OBVIOUS
  <2>3. PICK e \in Nat \ {0} : 2^((l + 1) + n) = 2^(l + 1) * e
    <3>1. PICK ll \in Nat : ll = l + 1
      OBVIOUS
    <3>2. \E e \in Nat \ {0} : 2^(ll + n) = 2^ll * e
      BY PowerFactor
    <3> QED
      BY <3>1, <3>2
  <2>4. (l + 1) + n = p /\ 2^(l + 1) = 2^l + 2^l
    BY <2>2, PowStep
  <2>5. PICK a, N : a = 2^l /\ N = 2^p
    OBVIOUS
  <2>6. N = (a + a) * e
    BY <2>3, <2>4, <2>5
  <2>7. N = e * (2 * a)
    BY <2>1, <2>5, <2>6
  <2>8. PairsUp(a, N)
    BY <1>1, <2>1, <2>5, <2>7, SpansPair
  <2> QED
    BY <2>1, <2>5, <2>8
<1>3. ASSUME j < k
      PROVE  Ignores(2^j, 2^k, 2^p) /\ Ignores(2^k, 2^j, 2^p)
  <2>1. PICK n \in Nat : n = k - 1 - j
    BY <1>3
  <2>2. PICK c \in Nat \ {0} : 2^((j + 1) + n) = 2^(j + 1) * c
    <3>1. PICK jj \in Nat : jj = j + 1
      OBVIOUS
    <3>2. \E c \in Nat \ {0} : 2^(jj + n) = 2^jj * c
      BY PowerFactor
    <3> QED
      BY <3>1, <3>2
  <2>3. (j + 1) + n = k /\ 2^(j + 1) = 2^j + 2^j
    BY <2>1, PowStep
  <2>4. PICK a, b, N : a = 2^j /\ b = 2^k /\ N = 2^p
    OBVIOUS
  <2>5. b = (a + a) * c
    BY <2>2, <2>3, <2>4
  <2>6. a \in Nat \ {0} /\ b \in Nat \ {0} /\ N \in Nat /\ PairsUp(a, N) /\ PairsUp(b, N)
    BY <1>1, <1>2, <2>4
  <2>7. b = a * (2 * c)
    BY <2>5, <2>6
  <2>8. Ignores(a, b, N) /\ Ignores(b, a, N)
    BY <2>6, <2>7, SpansIgnore
  <2> QED
    BY <2>4, <2>8
<1> QED
  BY <1>1, <1>2, <1>3

\* The stages of a transform, as the function it is computed with, and as the
\* equations they satisfy up to stage k.
IsStages(f, u, p) == f = [k \in 0..p |-> IF k = 0 THEN u ELSE Pass(f[k - 1], 2^(k - 1))]

Stages(f, u, k) == f[0] = u /\ \A j \in 0..(k - 1) : f[j + 1] = Pass(f[j], 2^j)

LEMMA StagesOf ==
    ASSUME NEW p \in Nat, NEW f, NEW u, IsStages(f, u, p)
    PROVE  Stages(f, u, p)
<1>1. \A k \in 0..p : f[k] = IF k = 0 THEN u ELSE Pass(f[k - 1], 2^(k - 1))
  BY DEF IsStages
<1>2. ASSUME NEW j \in 0..(p - 1)
      PROVE  f[j + 1] = Pass(f[j], 2^j)
  <2>1. j + 1 \in 0..p /\ j + 1 # 0 /\ (j + 1) - 1 = j
    OBVIOUS
  <2> QED
    BY <1>1, <2>1
<1>3. f[0] = u
  BY <1>1
<1> QED
  BY <1>2, <1>3 DEF Stages

LEMMA StagesExist ==
    ASSUME NEW p \in Nat, NEW u
    PROVE  \E f : IsStages(f, u, p)
<1> DEFINE I == {n \in Nat : \E f : IsStages(f, u, n)}
<1>1. 0 \in I
  <2>1. PICK f : f = [k \in 0..0 |-> u]
    OBVIOUS
  <2>2. IsStages(f, u, 0)
    BY <2>1 DEF IsStages
  <2> QED
    BY <2>2
<1>2. ASSUME NEW n \in Nat, n \in I
      PROVE  n + 1 \in I
  <2>1. PICK f : IsStages(f, u, n)
    BY <1>2
  <2>2. PICK g : g = [k \in 0..(n + 1) |-> IF k = n + 1 THEN Pass(f[n], 2^n) ELSE f[k]]
    OBVIOUS
  <2>3. \A k \in 0..n : f[k] = IF k = 0 THEN u ELSE Pass(f[k - 1], 2^(k - 1))
    BY <2>1 DEF IsStages
  <2>4. ASSUME NEW k \in 0..(n + 1)
        PROVE  g[k] = IF k = 0 THEN u ELSE Pass(g[k - 1], 2^(k - 1))
    <3>1. CASE k = n + 1
      <4>1. k - 1 = n /\ g[n] = f[n] /\ k # 0 /\ g[k] = Pass(f[n], 2^n)
        BY <2>2, <3>1
      <4> QED
        BY <4>1
    <3>2. CASE k # n + 1
      <4>1. k \in 0..n /\ g[k] = f[k] /\ (k # 0 => k - 1 \in 0..(n + 1) /\ k - 1 # n + 1)
        BY <2>2, <3>2
      <4>2. k # 0 => g[k - 1] = f[k - 1]
        BY <2>2, <4>1
      <4> QED
        BY <2>3, <4>1, <4>2
    <3> QED
      BY <3>1, <3>2
  <2>5. IsStages(g, u, n + 1)
    BY <2>2, <2>4 DEF IsStages
  <2> QED
    BY <2>5
<1> HIDE DEF I
<1>3. p \in I
  BY <1>1, <1>2, AllNat
<1> QED
  BY <1>3 DEF I

LEMMA FwhtIs ==
    ASSUME NEW p \in Nat, NEW u
    PROVE  \E f : Stages(f, u, p) /\ Fwht(u, p) = f[p]
<1>1. PICK f : f = CHOOSE g : IsStages(g, u, p)
  OBVIOUS
<1>2. IsStages(f, u, p)
  BY <1>1, StagesExist
<1>3. Fwht(u, p) = (CHOOSE g : IsStages(g, u, p))[p]
  BY DEF Fwht, IsStages
<1> QED
  BY <1>1, <1>2, <1>3, StagesOf

\* Stages of vectors are vectors.
LEMMA StagesAre ==
    ASSUME NEW p \in Nat, NEW k \in 0..p, NEW f, NEW u \in Vectors(2^p), Stages(f, u, k)
    PROVE  \A j \in 0..k : f[j] \in Vectors(2^p)
<1> DEFINE I == {j \in Nat : j <= k => f[j] \in Vectors(2^p)}
<1>1. 0 \in I
  BY DEF Stages
<1>2. ASSUME NEW j \in Nat, j \in I
      PROVE  j + 1 \in I
  <2>1. ASSUME j + 1 <= k
        PROVE  f[j + 1] \in Vectors(2^p)
    <3>1. j \in 0..(k - 1) /\ j \in 0..(p - 1) /\ f[j] \in Vectors(2^p)
      BY <1>2, <2>1
    <3>2. f[j + 1] = Pass(f[j], 2^j)
      BY <3>1 DEF Stages
    <3>3. 2^j \in Nat \ {0} /\ PairsUp(2^j, 2^p) /\ 2^p \in Nat
      BY <3>1, PassSpans
    <3> QED
      BY <3>1, <3>2, <3>3, PassIs
  <2> QED
    BY <2>1
<1> HIDE DEF I
<1>3. Nat \subseteq I
  BY <1>1, <1>2, AllNat
<1> QED
  BY <1>3 DEF I

\* The stages of a vector a later pass was made of are that pass of its stages.
LEMMA StagesCommute ==
    ASSUME NEW p \in Nat, NEW k \in 0..(p - 1), NEW v \in Vectors(2^p), NEW f, NEW g,
           Stages(f, v, k), Stages(g, Pass(v, 2^k), k)
    PROVE  g[k] = Pass(f[k], 2^k)
<1> DEFINE I == {j \in Nat : j <= k => g[j] = Pass(f[j], 2^k)}
<1>1. 0 \in I
  BY DEF Stages
<1>2. ASSUME NEW j \in Nat, j \in I
      PROVE  j + 1 \in I
  <2>1. ASSUME j + 1 <= k
        PROVE  g[j + 1] = Pass(f[j + 1], 2^k)
    <3>1. j \in 0..(k - 1) /\ j \in 0..(p - 1) /\ j < k /\ k \in 0..p /\ j \in 0..k
      BY <2>1
    <3>2. f[j + 1] = Pass(f[j], 2^j) /\ g[j + 1] = Pass(g[j], 2^j)
      BY <3>1 DEF Stages
    <3>3. g[j] = Pass(f[j], 2^k)
      BY <1>2, <3>1
    <3>4. f[j] \in Vectors(2^p)
      BY <3>1, StagesAre
    <3>5. PICK a, b, N, w : a = 2^j /\ b = 2^k /\ N = 2^p /\ w = f[j]
      OBVIOUS
    <3>6. a \in Nat \ {0} /\ PairsUp(a, N) /\ N \in Nat /\ Ignores(a, b, N) /\ Ignores(b, a, N)
      BY <3>1, <3>5, PassSpans
    <3>7. b \in Nat \ {0} /\ PairsUp(b, N) /\ w \in Vectors(N)
      BY <3>4, <3>5, PassSpans
    <3>8. Pass(Pass(w, a), b) = Pass(Pass(w, b), a)
      BY <3>6, <3>7, PassesCommute
    <3> QED
      BY <3>2, <3>3, <3>5, <3>8
  <2> QED
    BY <2>1
<1> HIDE DEF I
<1>3. Nat \subseteq I
  BY <1>1, <1>2, AllNat
<1> QED
  BY <1>3 DEF I

\* After k stages of the k-th stage of a vector, the vector is back, 2^k times.
Doubles(p, k) ==
    \A u \in Vectors(2^p) : \A f, g :
      Stages(f, u, k) /\ Stages(g, f[k], k) => g[k] = Scaled(2^k, u)

LEMMA StagesDouble ==
    ASSUME NEW p \in Nat, NEW k \in 0..p
    PROVE  Doubles(p, k)
<1> DEFINE I == {n \in Nat : n <= p => Doubles(p, n)}
<1>0. 2^p \in Nat
  BY PowNat
<1>1. 0 \in I
  <2>1. ASSUME NEW u \in Vectors(2^p), NEW f, NEW g, Stages(f, u, 0), Stages(g, f[0], 0)
        PROVE  g[0] = Scaled(2^0, u)
    <3>1. g[0] = u
      BY <2>1 DEF Stages
    <3>2. 2^0 = 1
      BY Powers
    <3>3. Scaled(1, u) = u
      BY DEF Scaled, Vectors
    <3> QED
      BY <3>1, <3>2, <3>3
  <2> QED
    BY <2>1 DEF Doubles
<1>2. ASSUME NEW n \in Nat, n \in I
      PROVE  n + 1 \in I
  <2>1. ASSUME n + 1 <= p, NEW u \in Vectors(2^p), NEW f, NEW g, Stages(f, u, n + 1), Stages(g, f[n + 1], n + 1)
        PROVE  g[n + 1] = Scaled(2^(n + 1), u)
    <3>1. n \in 0..(p - 1) /\ n \in 0..p /\ Doubles(p, n) /\ n \in 0..n
      BY <1>2, <2>1
    <3>2. Stages(f, u, n) /\ f[n + 1] = Pass(f[n], 2^n)
      BY <2>1, SMTT(30) DEF Stages
    <3>3. Stages(g, f[n + 1], n) /\ g[n + 1] = Pass(g[n], 2^n)
      BY <2>1 DEF Stages
    <3>4. PICK v : v = f[n]
      OBVIOUS
    <3>5. v \in Vectors(2^p)
      BY <3>1, <3>2, <3>4, StagesAre
    <3>6. PICK h : Stages(h, v, n)
      BY <3>1, FwhtIs
    <3>7. g[n] = Pass(h[n], 2^n)
      <4>1. Stages(g, Pass(v, 2^n), n)
        BY <3>2, <3>3, <3>4
      <4> QED
        BY <3>1, <3>5, <3>6, <4>1, StagesCommute
    <3>8. h[n] = Scaled(2^n, u)
      BY <2>1, <3>1, <3>2, <3>4, <3>6 DEF Doubles
    <3>9. PICK a, N, w : a = 2^n /\ N = 2^p /\ w = h[n]
      OBVIOUS
    <3>10. a \in Nat \ {0} /\ PairsUp(a, N) /\ N \in Nat
      BY <3>1, <3>9, PassSpans
    <3>11. w \in Vectors(N)
      BY <3>1, <3>5, <3>6, <3>9, StagesAre
    <3>12. g[n + 1] = Scaled(2, w)
      <4>1. g[n + 1] = Pass(Pass(w, a), a)
        BY <3>3, <3>7, <3>9
      <4> QED
        BY <3>10, <3>11, <4>1, PassTwice
    <3>13. Scaled(2, w) = Scaled(a + a, u)
      <4>1. u \in [0..(N - 1) -> Int] /\ w = [i \in 0..(N - 1) |-> a * u[i]]
        BY <2>1, <3>8, <3>9 DEF Vectors, Scaled
      <4>2. \A x \in Int : 2 * (a * x) = (a + a) * x
        BY <3>10
      <4>3. Scaled(2, w) = [i \in 0..(N - 1) |-> 2 * (a * u[i])]
        BY <4>1 DEF Scaled
      <4>4. Scaled(a + a, u) = [i \in 0..(N - 1) |-> (a + a) * u[i]]
        BY <4>1 DEF Scaled
      <4>5. \A i \in 0..(N - 1) : 2 * (a * u[i]) = (a + a) * u[i]
        BY <4>1, <4>2
      <4> QED
        BY <4>3, <4>4, <4>5
    <3>14. 2^(n + 1) = a + a
      BY <3>9, PowStep
    <3> QED
      BY <3>12, <3>13, <3>14
  <2>2. n + 1 <= p => Doubles(p, n + 1)
    BY <2>1 DEF Doubles
  <2> QED
    BY <2>2
<1> HIDE DEF I
<1>3. k \in I
  BY <1>1, <1>2, AllNat
<1> QED
  BY <1>3 DEF I

\* decode_key_row undoes the rotation of any key, with any signs, up to 2^passes.
THEOREM KeyRestored ==
    ASSUME NEW passes \in Nat, NEW key \in Vectors(2^passes), NEW signs \in [0..(2^passes - 1) -> {-1, 1}]
    PROVE  Restored(Rotated(key, signs, passes), signs, passes)
             = [i \in DOMAIN key |-> 2^passes * key[i]]
<1>1. PICK N, s, v, w, x : /\ N = 2^passes /\ s = Signed(key, signs)
                           /\ v = Rotated(key, signs, passes) /\ w = Fwht(v, passes)
                           /\ x = Restored(v, signs, passes)
  OBVIOUS
<1>2. N \in Nat \ {0}
  BY <1>1, PowPositive
<1>3. key \in [0..(N - 1) -> Int] /\ \A i \in 0..(N - 1) : signs[i] \in {-1, 1}
  BY <1>1 DEF Vectors
<1>4. s = [i \in 0..(N - 1) |-> key[i] * signs[i]]
  BY <1>1, <1>3 DEF Signed
<1>5. ASSUME NEW i \in 0..(N - 1)
      PROVE  key[i] * signs[i] \in Int /\ (N * (key[i] * signs[i])) * signs[i] = N * key[i]
  <2>1. key[i] \in Int /\ (signs[i] = 1 \/ signs[i] = -1)
    BY <1>3
  <2>2. CASE signs[i] = 1
    BY <1>2, <2>1, <2>2
  <2>3. CASE signs[i] = -1
    <3>1. \A y \in Int : y * (-1) = 0 - y
      BY SMT
    <3>2. key[i] * signs[i] = 0 - key[i]
      BY <2>1, <2>3, <3>1
    <3>3. N * (0 - key[i]) = 0 - N * key[i] /\ N * key[i] \in Int
      BY <1>2, <2>1
    <3>4. (0 - N * key[i]) * signs[i] = N * key[i]
      BY <2>3, <3>1, <3>3
    <3> QED
      BY <2>1, <3>2, <3>3, <3>4
  <2> QED
    BY <2>1, <2>2, <2>3
<1>6. s \in Vectors(N)
  BY <1>4, <1>5 DEF Vectors
<1>7. w = Scaled(N, s)
  <2>1. PICK f : Stages(f, s, passes) /\ Fwht(s, passes) = f[passes]
    BY FwhtIs
  <2>2. v = f[passes]
    BY <1>1, <2>1 DEF Rotated
  <2>3. PICK g : Stages(g, v, passes) /\ w = g[passes]
    BY <1>1, FwhtIs
  <2>4. Doubles(passes, passes)
    BY StagesDouble
  <2> QED
    BY <1>1, <1>6, <2>1, <2>2, <2>3, <2>4 DEF Doubles
<1>8. x = [i \in 0..(N - 1) |-> (N * s[i]) * signs[i]]
  <2>1. x = Signed(w, signs)
    BY <1>1 DEF Restored
  <2>2. w = [i \in 0..(N - 1) |-> N * s[i]]
    BY <1>4, <1>7 DEF Scaled
  <2> QED
    BY <2>1, <2>2 DEF Signed
<1>9. x = [i \in 0..(N - 1) |-> N * key[i]]
  BY <1>4, <1>5, <1>8
<1> QED
  BY <1>1, <1>3, <1>9
=============================================================================
