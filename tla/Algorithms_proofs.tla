-------------------------- MODULE Algorithms_proofs --------------------------
(***************************************************************************)
(* Proofs about the algorithms without state of their own: the rows of the *)
(* split NVFP4 MoE, the choice of a platform, argmax, the iterated top-k,  *)
(* the two samplers and the two renormalisations, the commands of a call,  *)
(* the codecs, the kernels of the routed NVFP4 MoE and those of DPAS       *)
(* tiles.  Each is shown right for every input and every size; the         *)
(* theorems about the behaviour that tries the inputs follow, with those   *)
(* of Kernels_proofs taken together in the last section.                   *)
(*                                                                         *)
(* The loops of the code are recursive functions; that such a function     *)
(* exists, and what it is after n rounds, goes by induction over the       *)
(* natural numbers (AllNat, Table).                                        *)
(***************************************************************************)
EXTENDS MC_Algorithms, Kernels_proofs

-----------------------------------------------------------------------------
(* Rows of the output kernel of the split NVFP4 MoE                         *)

LEMMA CeilDivCovers ==
    ASSUME NEW a \in Nat, NEW d \in Nat \ {0}
    PROVE  /\ CeilDiv(a, d) \in Nat
           /\ a <= CeilDiv(a, d) * d /\ CeilDiv(a, d) * d < a + d
<1>1. a + d - 1 \in Nat
  OBVIOUS
<1>2. /\ (a + d - 1) \div d \in Nat
      /\ ((a + d - 1) \div d) * d <= a + d - 1
      /\ a + d - 1 < ((a + d - 1) \div d) * d + d
  BY <1>1, Quotient
<1>3. ((a + d - 1) \div d) * d \in Nat
  BY <1>2
<1> QED
  BY <1>1, <1>2, <1>3 DEF CeilDiv

\* The kernel picks a height it was compiled for, and a taller one than the
\* lowest only where the shape has the work-groups.
LEMMA Heights ==
    ASSUME NEW pairs \in Nat, NEW K \in Nat
    PROVE  LET h == RowsPerSubgroup(pairs, K) IN
           /\ h \in {1, 2, 4, 8, 16}
           /\ h > 1 => pairs * CeilDiv(K, Subgroups) >= TargetWGs * h
<1> DEFINE baseline == pairs * CeilDiv(K, Subgroups)
           fits == {r \in {2, 4, 8, 16} : baseline >= TargetWGs * r}
<1>1. fits \subseteq {2, 4, 8, 16}
  OBVIOUS
<1>2. \A r \in fits : baseline >= TargetWGs * r
  OBVIOUS
<1>3. RowsPerSubgroup(pairs, K) = CHOOSE r \in fits \cup {1} : \A o \in fits : o <= r
  BY DEF RowsPerSubgroup
<1> HIDE DEF fits, baseline
<1>4. \E r \in fits \cup {1} : \A o \in fits : o <= r
  <2>1. CASE 16 \in fits
    BY <1>1, <2>1
  <2>2. CASE 16 \notin fits /\ 8 \in fits
    BY <1>1, <2>2
  <2>3. CASE 16 \notin fits /\ 8 \notin fits /\ 4 \in fits
    BY <1>1, <2>3
  <2>4. CASE 16 \notin fits /\ 8 \notin fits /\ 4 \notin fits
    BY <1>1, <2>4
  <2> QED
    BY <2>1, <2>2, <2>3, <2>4
<1> DEFINE h == RowsPerSubgroup(pairs, K)
<1>5. h \in fits \cup {1}
  BY <1>3, <1>4
<1> HIDE DEF h
<1>6. h \in {1, 2, 4, 8, 16} /\ (h > 1 => baseline >= TargetWGs * h)
  BY <1>1, <1>2, <1>5
<1> QED
  BY <1>6 DEF baseline, h

\* Every row is the work of one sub-group in one step.
LEMMA RowComputedOnce ==
    ASSUME NEW pairs \in Nat, NEW K \in Nat, NEW row \in 0..(K - 1)
    PROVE  Cardinality(Computing(row, pairs, K)) = 1
<1> DEFINE S == Subgroups
           h == RowsPerSubgroup(pairs, K)
           n == RowTiles(pairs, K)
           u == row \div S
           tile == u \div h
<1>1. S \in Nat \ {0} /\ h \in Nat \ {0} /\ row \in Nat /\ row < K
  BY OutputAssumption, Heights
<1>2. S * h \in Nat \ {0} /\ S * h = h * S
  BY <1>1, SMT
<1>3. n = CeilDiv(K, S * h)
  BY DEF RowTiles
<1>4. n \in Nat /\ K <= n * (S * h)
  BY <1>2, <1>3, CeilDivCovers
<1>5. /\ u \in Nat /\ row % S \in 0..(S - 1) /\ row = u * S + (row % S)
  BY <1>1, Quotient
<1>6. Computing(row, pairs, K) =
        {w \in (0..(n - 1)) \X (0..(S - 1)) \X (0..(h - 1)) : RowOf(w[1], w[2], w[3], h) = row}
  BY DEF Computing
<1> HIDE DEF S, h, n, u
<1>7. /\ tile \in Nat /\ u % h \in 0..(h - 1) /\ u = tile * h + (u % h)
  BY <1>1, <1>5, Quotient
<1> HIDE DEF tile
<1>8. \A t \in Nat, s \in Nat, r \in Nat : RowOf(t, s, r, h) = (t * h + r) * S + s
  <2> SUFFICES ASSUME NEW t \in Nat, NEW s \in Nat, NEW r \in Nat
               PROVE  t * S * h + s + r * S = (t * h + r) * S + s
    BY DEF RowOf, S
  <2> QED
    BY <1>1, SMT
<1>9. tile < n
  <2>1. tile * (S * h) <= row
    <3>1. tile * (S * h) = (tile * h) * S
      BY <1>1, <1>7, SMT
    <3>2. tile * h \in Nat /\ tile * h <= u
      BY <1>1, <1>7, Product
    <3>3. (tile * h) * S <= u * S
      BY <3>2, <1>1, <1>5, TimesMono
    <3> QED
      <4>1. u * S \in Nat /\ (row % S) \in Nat /\ (tile * h) * S \in Nat
        BY <1>1, <1>5, <3>2, Product
      <4> QED
        BY <3>1, <3>3, <1>5, <4>1
  <2>2. tile * (S * h) < n * (S * h)
    BY <2>1, <1>1, <1>2, <1>4, <1>7, Product
  <2> QED
    BY <2>2, <1>2, <1>4, <1>7, LessByFactor
<1> DEFINE w0 == <<tile, row % S, u % h>>
<1>10. w0 \in Computing(row, pairs, K)
  <2>1. RowOf(tile, row % S, u % h, h) = row
    <3>1. tile \in Nat /\ row % S \in Nat /\ u % h \in Nat
      BY <1>1, <1>5, <1>7
    <3>2. RowOf(tile, row % S, u % h, h) = (tile * h + (u % h)) * S + (row % S)
      BY <1>8, <3>1
    <3> QED
      BY <1>5, <1>7, <3>2
  <2> QED
    BY <2>1, <1>4, <1>5, <1>6, <1>7, <1>9
<1>11. ASSUME NEW w \in Computing(row, pairs, K)
       PROVE  w = w0
  <2>1. PICK t \in 0..(n - 1), s \in 0..(S - 1), r \in 0..(h - 1) :
           w = <<t, s, r>> /\ RowOf(t, s, r, h) = row
    BY <1>6
  <2>2. t \in Nat /\ s \in Nat /\ r \in Nat
    BY <1>1, <1>4, <2>1
  <2> DEFINE v == t * h + r
  <2>3. RowOf(t, s, r, h) = v * S + s
    BY <1>8, <2>2
  <2>6. t * h \in Nat
    BY <1>1, <2>2, Product
  <2>7. v \in Nat
    BY <2>2, <2>6
  <2> HIDE DEF v
  <2>8. s = (v * S + s) % S /\ v = (v * S + s) \div S
    BY <1>1, <2>1, <2>7, QuotientUnique
  <2>4. s = row % S /\ v = row \div S
    BY <2>1, <2>3, <2>8
  <2>5. r = u % h /\ t = u \div h
    BY <1>1, <2>1, <2>2, <2>4, QuotientUnique, SMTT(30) DEF u, v
  <2> QED
    BY <2>1, <2>4, <2>5 DEF tile
<1>12. Computing(row, pairs, K) = {w0}
  BY <1>10, <1>11
<1> QED
  BY <1>12, FS_Singleton

\* A height above the lowest leaves the target number of work-groups.
LEMMA TargetKept ==
    ASSUME NEW pairs \in Nat, NEW K \in Nat, RowsPerSubgroup(pairs, K) > 1
    PROVE  pairs * RowTiles(pairs, K) >= TargetWGs
<1> DEFINE S == Subgroups
           h == RowsPerSubgroup(pairs, K)
           n == RowTiles(pairs, K)
           c == CeilDiv(K, S)
<1>1. S \in Nat \ {0} /\ TargetWGs \in Nat \ {0} /\ h \in Nat \ {0}
      /\ pairs * c >= TargetWGs * h
  BY OutputAssumption, Heights
<1>2. S * h \in Nat \ {0} /\ n = CeilDiv(K, S * h)
  BY <1>1, SMT DEF RowTiles
<1>3. n \in Nat /\ K <= n * (S * h)
  BY <1>2, CeilDivCovers
<1>4. c \in Nat /\ c * S < K + S
  BY <1>1, CeilDivCovers
<1> HIDE DEF S, h, n, c
<1>5. c <= n * h
  <2> SUFFICES ASSUME n * h + 1 <= c PROVE FALSE
    BY <1>1, <1>3, <1>4, Product
  <2>1. n * h \in Nat /\ (n * h + 1) * S <= c * S /\ c * S \in Nat
    BY <1>1, <1>3, <1>4, Product, TimesMono
  <2>2. (n * h + 1) * S = n * (S * h) + S
    BY <1>1, <1>3, SMT
  <2> QED
    BY <1>1, <1>3, <1>4, <2>1, <2>2
<1>6. n * h \in Nat /\ c * pairs <= (n * h) * pairs
  BY <1>1, <1>3, <1>4, <1>5, Product, TimesMono
<1>7. (n * h) * pairs = (pairs * n) * h /\ c * pairs = pairs * c
  BY <1>1, <1>3, <1>4, SMT
<1>8. pairs * n \in Nat /\ TargetWGs * h <= (pairs * n) * h
  BY <1>1, <1>3, <1>4, <1>6, <1>7, Product
<1>9. ~(pairs * n < TargetWGs)
  <2> SUFFICES ASSUME pairs * n + 1 <= TargetWGs PROVE FALSE
    BY <1>1, <1>8
  <2>1. (pairs * n + 1) * h <= TargetWGs * h
    BY <1>1, <1>8, TimesMono
  <2>2. (pairs * n + 1) * h = (pairs * n) * h + h /\ (pairs * n) * h \in Nat /\ TargetWGs * h \in Nat
    BY <1>1, <1>8, SMT
  <2> QED
    BY <1>1, <1>8, <2>1, <2>2
<1> QED
  BY <1>1, <1>8, <1>9 DEF n

-----------------------------------------------------------------------------
(* Every choice of a platform                                               *)

LEMMA MinIs ==
    ASSUME NEW S \in SUBSET Int, NEW x \in S, \A y \in S : x <= y
    PROVE  Min(S) = x
<1>1. \A y \in S : (\A z \in S : y <= z) => y = x
  <2> SUFFICES ASSUME NEW y \in S, \A z \in S : y <= z PROVE y = x
    OBVIOUS
  <2>1. y <= x /\ x <= y /\ x \in Int /\ y \in Int
    OBVIOUS
  <2> QED
    BY <2>1
<1> QED
  BY <1>1 DEF Min

\* The choices of gpu_devices, make_gpu_queue and all_reduce_sum are the
\* documented ones, for any list of platforms.
THEOREM PlatformsRight ==
    ASSUME NEW n \in Nat, NEW ps \in [1..n -> Platforms]
    PROVE  PlatformsRanked(ps)
<1> DEFINE p == gpu_devices(ps)
           r == RingPlatform(ps)
           most == {q \in DOMAIN ps : \A o \in DOMAIN ps : Intel(ps, o) <= Intel(ps, q)}
           zero == {q \in most : LevelZero(ps, q)}
           largest == {q \in DOMAIN ps : \A o \in DOMAIN ps : AllGpus(ps, o) <= AllGpus(ps, q)}
<1>1. DOMAIN ps = 1..n
  OBVIOUS
<1>2. IsChosen(ps, n, p)
  BY DevicesChosen
<1>3. p \in 0..n /\ \A q \in 1..n : Intel(ps, q) <= Intel(ps, p)
  BY <1>2 DEF IsChosen
<1>4. \A q \in 0..n : Intel(ps, q) \in 0..2 /\ AllGpus(ps, q) \in Nat /\ LevelZero(ps, q) \in BOOLEAN
  <2> SUFFICES ASSUME NEW q \in 0..n
               PROVE  Intel(ps, q) \in 0..2 /\ AllGpus(ps, q) \in Nat /\ LevelZero(ps, q) \in BOOLEAN
    OBVIOUS
  <2> SUFFICES Intel(ps, q) <= 2
    BY CountTypes
  <2>1. CASE q = 0
    BY <2>1 DEF Intel
  <2>2. CASE q # 0
    <3>1. ps[q] \in Platforms
      BY <2>2
    <3> QED
      BY <2>2, <3>1 DEF Intel, Platforms
  <2> QED
    BY <2>1, <2>2
<1>5. r \in 0..n /\ (\A q \in 1..n : AllGpus(ps, q) <= AllGpus(ps, r))
      /\ (\A q \in 0..(r - 1) : AllGpus(ps, q) < AllGpus(ps, r))
  BY RingChosen
<1> HIDE DEF p, r
<1>6. Intel(ps, 0) = 0 /\ AllGpus(ps, 0) = 0
  BY DEF Intel, AllGpus
<1>7. ASSUME \A q \in DOMAIN ps : Intel(ps, q) = 0
      PROVE  make_gpu_queue(ps, 0) = Thrown
  <2>1. Intel(ps, p) = 0
    <3>1. p = 0 \/ p \in 1..n
      BY <1>3
    <3> QED
      BY <1>1, <1>6, <1>7, <3>1
  <2> QED
    BY <2>1 DEF make_gpu_queue, p
<1>8. ASSUME ~(\A q \in DOMAIN ps : Intel(ps, q) = 0)
      PROVE  /\ p = Min(IF zero # {} THEN zero ELSE most)
             /\ {make_gpu_queue(ps, i) : i \in 0..2} = {p} \X (0..(Intel(ps, p) - 1))
  <2>1. PICK q0 \in 1..n : Intel(ps, q0) # 0
    BY <1>1, <1>8
  <2>2. p \in 1..n /\ Intel(ps, p) \in {1, 2}
    <3>1. Intel(ps, q0) \in 0..2 /\ Intel(ps, p) \in 0..2 /\ Intel(ps, q0) <= Intel(ps, p)
      BY <1>3, <1>4
    <3> QED
      BY <1>3, <1>6, <2>1, <3>1
  <2>3. most = {q \in 1..n : Intel(ps, q) = Intel(ps, p)}
    <3>1. ASSUME NEW q \in 1..n
          PROVE  (\A o \in 1..n : Intel(ps, o) <= Intel(ps, q)) <=> Intel(ps, q) = Intel(ps, p)
      <4>1. Intel(ps, q) \in Nat /\ Intel(ps, p) \in Nat /\ Intel(ps, q) <= Intel(ps, p)
        BY <1>3, <1>4
      <4> QED
        BY <1>3, <2>2, <4>1
    <3> QED
      BY <1>1, <3>1
  <2> HIDE DEF most
  <2>4. p \in most /\ most \in SUBSET Int /\ zero \in SUBSET Int
    BY <2>2, <2>3
  <2>5. ASSUME LevelZero(ps, p)
        PROVE  p = Min(IF zero # {} THEN zero ELSE most)
    <3>1. p \in zero
      BY <2>4, <2>5
    <3>2. \A q \in zero : p <= q
      <4> SUFFICES ASSUME NEW q \in zero, q < p PROVE FALSE
        BY <1>3, <2>4
      <4>1. q \in 1..(p - 1) /\ Intel(ps, q) = Intel(ps, p) /\ LevelZero(ps, q)
        BY <2>3, <1>3
      <4> QED
        BY <1>2, <2>5, <4>1 DEF IsChosen
    <3> HIDE DEF zero
    <3>3. Min(zero) = p
      BY <2>4, <3>1, <3>2, MinIs
    <3> QED
      BY <3>1, <3>3
  <2>6. ASSUME ~LevelZero(ps, p)
        PROVE  p = Min(IF zero # {} THEN zero ELSE most)
    <3>1. zero = {}
      BY <1>2, <2>3, <2>6 DEF IsChosen
    <3>2. \A q \in most : p <= q
      <4> SUFFICES ASSUME NEW q \in most, q < p PROVE FALSE
        BY <1>3, <2>4
      <4>1. q \in 1..(p - 1) /\ q \in 0..n /\ Intel(ps, q) = Intel(ps, p)
        BY <2>3, <1>3
      <4>2. Intel(ps, q) < Intel(ps, p) /\ Intel(ps, p) \in Nat
        BY <1>2, <1>3, <1>4, <2>6, <4>1 DEF IsChosen
      <4> QED
        BY <4>1, <4>2
    <3>3. Min(most) = p
      BY <2>4, <3>2, MinIs
    <3> QED
      BY <3>1, <3>3
  <2>7. {make_gpu_queue(ps, i) : i \in 0..2} = {p} \X (0..(Intel(ps, p) - 1))
    <3>1. \A i \in 0..2 : make_gpu_queue(ps, i) =
                            <<p, IF i < Intel(ps, p) - 1 THEN i ELSE Intel(ps, p) - 1>>
      BY <2>2 DEF make_gpu_queue, p
    <3>2. CASE Intel(ps, p) = 1
      <4>1. \A i \in 0..2 : make_gpu_queue(ps, i) = <<p, 0>>
        BY <3>1, <3>2
      <4>2. 0..(Intel(ps, p) - 1) = {0}
        BY <3>2
      <4>3. 0 \in 0..2
        OBVIOUS
      <4> QED
        BY <4>1, <4>2, <4>3
    <3>3. CASE Intel(ps, p) = 2
      <4>1. make_gpu_queue(ps, 0) = <<p, 0>> /\ make_gpu_queue(ps, 1) = <<p, 1>>
            /\ make_gpu_queue(ps, 2) = <<p, 1>>
        BY <3>1, <3>3
      <4>2. 0..(Intel(ps, p) - 1) = {0, 1} /\ 0..2 = {0, 1, 2}
        BY <3>3
      <4> QED
        BY <4>1, <4>2
    <3> QED
      BY <2>2, <3>2, <3>3
  <2> QED
    BY <2>5, <2>6, <2>7
<1>9. ASSUME \A q \in DOMAIN ps : AllGpus(ps, q) = 0
      PROVE  r = 0
  <2> SUFFICES ASSUME r # 0 PROVE FALSE
    OBVIOUS
  <2>1. r \in 1..n /\ 0 \in 0..(r - 1)
    BY <1>5
  <2>2. AllGpus(ps, 0) < AllGpus(ps, r)
    BY <1>5, <2>1
  <2> QED
    BY <1>1, <1>6, <1>9, <2>1, <2>2
<1>10. ASSUME ~(\A q \in DOMAIN ps : AllGpus(ps, q) = 0)
       PROVE  r = Min(largest)
  <2>1. PICK q0 \in 1..n : AllGpus(ps, q0) # 0
    BY <1>1, <1>10
  <2>2. r \in 1..n
    <3>1. AllGpus(ps, q0) \in Nat /\ AllGpus(ps, q0) <= AllGpus(ps, r)
      BY <1>4, <1>5
    <3> QED
      BY <1>5, <1>6, <2>1, <3>1
  <2>3. r \in largest /\ largest \in SUBSET Int
    BY <1>1, <1>5, <2>2
  <2>4. \A q \in largest : r <= q
    <3> SUFFICES ASSUME NEW q \in largest, q < r PROVE FALSE
      BY <1>5, <2>3
    <3>1. q \in 1..n /\ q \in 0..(r - 1) /\ AllGpus(ps, r) <= AllGpus(ps, q)
      BY <1>1, <1>5, <2>2
    <3>2. AllGpus(ps, q) < AllGpus(ps, r) /\ AllGpus(ps, q) \in Nat /\ AllGpus(ps, r) \in Nat
      BY <1>4, <1>5, <3>1
    <3> QED
      BY <3>1, <3>2
  <2> HIDE DEF largest
  <2> QED
    BY <2>3, <2>4, MinIs
<1> QED
  BY <1>7, <1>8, <1>9, <1>10 DEF PlatformsRanked, p, r

-----------------------------------------------------------------------------
(* Rows of logits                                                           *)

\* A row of logits: at least one, none below that of a masked token.
IsRow(row) ==
    /\ Vocab(row) \in Nat \ {0} /\ DOMAIN row = 0..(Vocab(row) - 1)
    /\ row = [i \in DOMAIN row |-> row[i]]
    /\ \A i \in DOMAIN row : row[i] \in Int /\ row[i] >= NegInf

LEMMA RowsAre ==
    ASSUME NEW n \in Nat \ {0}, NEW row,
           row \in [0..(n - 1) -> {x \in Int : x >= NegInf}]
    PROVE  IsRow(row) /\ Vocab(row) = n
<1>1. Vocab(row) = n
  <2>1. Cardinality(0..(n - 1)) = n
    BY FS_Interval
  <2> QED
    BY <2>1 DEF Vocab
<1> QED
  BY <1>1 DEF IsRow

\* Of some of a row's tokens, one has the largest logit.
LEMMA LargestExists ==
    ASSUME NEW row, IsRow(row), NEW S \in SUBSET (DOMAIN row), S # {}
    PROVE  \E m \in S : \A i \in S : row[i] <= row[m]
<1> DEFINE n == Vocab(row)
           T == {k \in Nat : (\E i \in S : i < k) =>
                               \E m \in S : \A i \in S : i < k => row[i] <= row[m]}
<1>1. n \in Nat /\ (\A i \in S : i \in Nat /\ i < n) /\ \A i \in S : row[i] \in Int
  BY DEF IsRow
<1> HIDE DEF n
<1>2. 0 \in T
  BY <1>1
<1>3. ASSUME NEW k \in Nat, k \in T
      PROVE  k + 1 \in T
  <2>1. \A i \in S : i < k + 1 <=> i < k \/ i = k
    BY <1>1
  <2>2. CASE ~\E i \in S : i < k
    BY <1>1, <2>1, <2>2
  <2>3. CASE \E i \in S : i < k
    <3>1. PICK m \in S : \A i \in S : i < k => row[i] <= row[m]
      BY <1>3, <2>3
    <3>2. CASE k \in S /\ row[m] < row[k]
      <4>1. \A i \in S : i < k + 1 => row[i] <= row[k]
        BY <1>1, <2>1, <3>1, <3>2
      <4> QED
        BY <3>2, <4>1
    <3>3. CASE ~(k \in S /\ row[m] < row[k])
      <4>1. \A i \in S : i < k + 1 => row[i] <= row[m]
        BY <1>1, <2>1, <3>1, <3>3
      <4> QED
        BY <3>1, <4>1
    <3> QED
      BY <3>2, <3>3
  <2> QED
    BY <2>2, <2>3
<1>4. n \in T
  <2> HIDE DEF T
  <2> QED
    BY <1>1, <1>2, <1>3, AllNat
<1> QED
  BY <1>1, <1>4

LEMMA MaxIs ==
    ASSUME NEW S \in SUBSET Int, NEW x \in S, \A y \in S : y <= x
    PROVE  Max(S) = x
<1>1. \A y \in S : (\A z \in S : y >= z) => y = x
  <2> SUFFICES ASSUME NEW y \in S, \A z \in S : y >= z PROVE y = x
    OBVIOUS
  <2>1. y >= x /\ y <= x /\ x \in Int /\ y \in Int
    OBVIOUS
  <2> QED
    BY <2>1
<1> QED
  BY <1>1 DEF Max

\* r is the first of the largest logits of S, or the start value of the scan.
IsFirst(row, S, r) ==
    /\ r.idx \in Nat /\ r.val \in Int
    /\ (\A i \in S : row[i] = NegInf) => r.val = NegInf /\ r.idx = 0
    /\ (\E i \in S : row[i] # NegInf) =>
         /\ r.idx \in S /\ r.val = row[r.idx] /\ r.val > NegInf
         /\ \A i \in S : row[i] < r.val \/ (row[i] = r.val /\ r.idx <= i)

LEMMA FirstLargestIs ==
    ASSUME NEW row, IsRow(row), NEW S \in SUBSET (DOMAIN row)
    PROVE  IsFirst(row, S, FirstLargest(row, S))
<1>0. NegInf \in Int
  BY SelectionAssumption
<1>1. CASE \A i \in S : row[i] = NegInf
  BY <1>0, <1>1 DEF FirstLargest, IsFirst
<1>2. CASE ~\A i \in S : row[i] = NegInf
  <2>1. PICK m \in S : \A i \in S : row[i] <= row[m]
    BY <1>2, LargestExists
  <2> DEFINE best == Max({row[i] : i \in S})
             ties == {i \in S : row[i] = best}
  <2>2. \A i \in S : i \in Nat /\ row[i] \in Int /\ row[i] >= NegInf
    BY DEF IsRow
  <2>3. best = row[m]
    <3> DEFINE vals == {row[i] : i \in S}
    <3>1. vals \in SUBSET Int /\ row[m] \in vals /\ \A y \in vals : y <= row[m]
      BY <2>1, <2>2
    <3> HIDE DEF vals
    <3>2. Max(vals) = row[m]
      BY <3>1, MaxIs
    <3> QED
      BY <3>2 DEF vals
  <2> HIDE DEF best
  <2>4. m \in ties /\ ties \in SUBSET Nat
    BY <2>1, <2>2, <2>3
  <2>5. PICK k \in ties : \A i \in ties : k <= i
    <3> HIDE DEF ties
    <3> QED
      BY <2>4, LeastNat
  <2>6. Min(ties) = k
    <3>1. ties \in SUBSET Int
      BY <2>4
    <3> HIDE DEF ties
    <3> QED
      BY <2>5, <3>1, MinIs
  <2>7. FirstLargest(row, S) = [val |-> best, idx |-> Min(ties)]
    BY <1>2 DEF FirstLargest, best
  <2>8. k \in S /\ row[k] = best /\ best > NegInf
    <3>1. PICK i \in S : row[i] # NegInf
      BY <1>2
    <3>2. row[i] <= row[m] /\ row[i] >= NegInf /\ row[i] \in Int /\ row[m] \in Int
      BY <2>1, <2>2
    <3> QED
      BY <1>0, <2>3, <2>5, <3>1, <3>2
  <2>9. \A i \in S : row[i] < best \/ (row[i] = best /\ k <= i)
    BY <2>1, <2>2, <2>3, <2>5
  <2>10. k \in Nat /\ best \in Int
    BY <2>2, <2>8
  <2> HIDE DEF ties
  <2> QED
    BY <1>2, <2>6, <2>7, <2>8, <2>9, <2>10 DEF IsFirst
<1> QED
  BY <1>1, <1>2

\* The better of two candidates is the candidate of both sets.
LEMMA BetterJoins ==
    ASSUME NEW row, IsRow(row), NEW A \in SUBSET (DOMAIN row), NEW B \in SUBSET (DOMAIN row),
           NEW a, NEW b, IsFirst(row, A, a), IsFirst(row, B, b)
    PROVE  IsFirst(row, A \cup B, IF Better(a, b) THEN b ELSE a)
<1>0. NegInf \in Int /\ (\A i \in A \cup B : i \in Nat /\ row[i] \in Int /\ row[i] >= NegInf)
      /\ a.val \in Int /\ b.val \in Int /\ a.idx \in Nat /\ b.idx \in Nat
  BY SelectionAssumption DEF IsRow, IsFirst
<1>1. CASE (\A i \in A : row[i] = NegInf) /\ (\A i \in B : row[i] = NegInf)
  BY <1>0, <1>1 DEF IsFirst, Better
<1>2. CASE (\A i \in A : row[i] = NegInf) /\ ~(\A i \in B : row[i] = NegInf)
  BY <1>0, <1>2 DEF IsFirst, Better
<1>3. CASE ~(\A i \in A : row[i] = NegInf) /\ (\A i \in B : row[i] = NegInf)
  BY <1>0, <1>3 DEF IsFirst, Better
<1>4. CASE ~(\A i \in A : row[i] = NegInf) /\ ~(\A i \in B : row[i] = NegInf)
  <2>1. /\ a.idx \in A /\ a.val = row[a.idx] /\ a.val > NegInf
        /\ \A i \in A : row[i] < a.val \/ (row[i] = a.val /\ a.idx <= i)
    BY <1>4 DEF IsFirst
  <2>2. /\ b.idx \in B /\ b.val = row[b.idx] /\ b.val > NegInf
        /\ \A i \in B : row[i] < b.val \/ (row[i] = b.val /\ b.idx <= i)
    BY <1>4 DEF IsFirst
  <2>3. CASE Better(a, b)
    <3>1. \A i \in A \cup B : row[i] < b.val \/ (row[i] = b.val /\ b.idx <= i)
      BY <1>0, <2>1, <2>2, <2>3 DEF Better
    <3> QED
      BY <1>0, <1>4, <2>2, <2>3, <3>1 DEF IsFirst
  <2>4. CASE ~Better(a, b)
    <3>1. \A i \in A \cup B : row[i] < a.val \/ (row[i] = a.val /\ a.idx <= i)
      BY <1>0, <2>1, <2>2, <2>4 DEF Better
    <3> QED
      BY <1>0, <1>4, <2>1, <2>4, <3>1 DEF IsFirst
  <2> QED
    BY <2>3, <2>4
<1> QED
  BY <1>1, <1>2, <1>3, <1>4

-----------------------------------------------------------------------------
(* argmax                                                                   *)

\* The candidates of the threads, and those left after one step of the tree.
Candidates(row) == [lid \in Threads |-> FirstLargest(row, Scanned(row, lid))]

Merged(stride, prev) ==
    [lid \in 0..(stride - 1) |->
        IF Better(prev[lid], prev[lid + stride]) THEN prev[lid + stride] ELSE prev[lid]]

IsTree(t, row, k) ==
    t = [n \in 0..k |-> IF n = 0 THEN Candidates(row) ELSE Merged(StrideOf(n), t[n - 1])]

LEMMA TreeExists ==
    ASSUME NEW row, NEW k \in Nat
    PROVE  \E t : IsTree(t, row, k)
<1> DEFINE S == {m \in Nat : \E t : IsTree(t, row, m)}
<1>1. 0 \in S
  <2>1. IsTree([n \in 0..0 |-> Candidates(row)], row, 0)
    BY DEF IsTree
  <2> QED
    BY <2>1
<1>2. ASSUME NEW m \in Nat, m \in S
      PROVE  m + 1 \in S
  <2>1. PICK t : IsTree(t, row, m)
    BY <1>2
  <2> DEFINE u == [n \in 0..(m + 1) |-> IF n = m + 1 THEN Merged(StrideOf(m + 1), t[m]) ELSE t[n]]
  <2>2. \A n \in 0..m : t[n] = IF n = 0 THEN Candidates(row) ELSE Merged(StrideOf(n), t[n - 1])
    BY <2>1 DEF IsTree
  <2>3. \A n \in 0..(m + 1) : u[n] = IF n = 0 THEN Candidates(row) ELSE Merged(StrideOf(n), u[n - 1])
    BY <2>2
  <2>4. IsTree(u, row, m + 1)
    BY <2>3 DEF IsTree
  <2> QED
    BY <2>4
<1> HIDE DEF S
<1>3. k \in S
  BY <1>1, <1>2, AllNat
<1> QED
  BY <1>3 DEF S

LEMMA Steps ==
    /\ TreeSteps \in Nat /\ RowThreads = 2^TreeSteps /\ RowThreads \in Nat \ {0}
    /\ StrideOf(0) = RowThreads /\ StrideOf(TreeSteps) = 1
    /\ \A n \in 1..TreeSteps : /\ StrideOf(n) \in Nat \ {0}
                               /\ StrideOf(n - 1) = StrideOf(n) + StrideOf(n)
<1>1. TreeSteps \in 0..30 /\ RowThreads = 2^TreeSteps
  BY SelectionAssumption DEF TreeSteps
<1> DEFINE N == TreeSteps
<1>2. N \in Nat
  BY <1>1
<1> HIDE DEF N
<1>3. 2^N \in Nat \ {0}
  BY <1>2, PowPositive
<1>4. StrideOf(0) = RowThreads
  <2>1. N - 0 = N
    BY <1>2
  <2> QED
    BY <1>1, <2>1 DEF StrideOf, N
<1>5. StrideOf(N) = 1
  <2>1. N - N = 0
    BY <1>2
  <2>2. 2^0 = 1
    BY SMT
  <2> QED
    BY <2>1, <2>2 DEF StrideOf, N
<1>6. ASSUME NEW n \in 1..N
      PROVE  StrideOf(n) \in Nat \ {0} /\ StrideOf(n - 1) = StrideOf(n) + StrideOf(n)
  <2>1. N - n \in Nat /\ N - (n - 1) = (N - n) + 1
    BY <1>2
  <2>2. 2^(N - n) \in Nat \ {0} /\ 2^((N - n) + 1) = 2^(N - n) + 2^(N - n)
    BY <2>1, PowPositive, PowStep
  <2>3. 2^(N - (n - 1)) = 2^(N - n) + 2^(N - n)
    BY <2>1, <2>2
  <2> QED
    BY <2>2, <2>3 DEF StrideOf, N
<1> QED
  BY <1>1, <1>2, <1>3, <1>4, <1>5, <1>6 DEF N

\* Argmax is the root of the tree.
LEMMA ArgmaxTree ==
    ASSUME NEW row
    PROVE  \E t : /\ Argmax(row) = t[TreeSteps][0].idx
                  /\ t[0] = Candidates(row)
                  /\ \A n \in 1..TreeSteps : t[n] = Merged(StrideOf(n), t[n - 1])
<1> DEFINE N == TreeSteps
           t == CHOOSE f : IsTree(f, row, N)
<1>1. N \in Nat
  BY Steps
<1>2. Argmax(row) = t[N][0].idx
  BY DEF Argmax, IsTree, Candidates, Merged
<1> HIDE DEF N
<1>3. IsTree(t, row, N)
  BY <1>1, TreeExists
<1> HIDE DEF t
<1>4. \A n \in 0..N : t[n] = IF n = 0 THEN Candidates(row) ELSE Merged(StrideOf(n), t[n - 1])
  BY <1>3 DEF IsTree
<1>5. t[0] = Candidates(row)
  BY <1>1, <1>4
<1>6. \A n \in 1..N : t[n] = Merged(StrideOf(n), t[n - 1])
  BY <1>1, <1>4
<1> QED
  BY <1>2, <1>5, <1>6 DEF N

\* Of the threads, those whose candidates slot lid holds while slots are
\* stride apart; and the tokens they scanned.
MergesInto(stride, l, lid) == l % stride = lid

Merging(stride, lid) == {l \in Threads : MergesInto(stride, l, lid)}

Covered(row, stride, lid) == UNION {Scanned(row, l) : l \in Merging(stride, lid)}

LEMMA Halved ==
    ASSUME NEW l \in Nat, NEW h \in Nat \ {0}, NEW lid \in 0..(h - 1)
    PROVE  MergesInto(h, l, lid) <=> MergesInto(h + h, l, lid) \/ MergesInto(h + h, l, lid + h)
<1> SUFFICES l % h = lid <=> l % (h + h) = lid \/ l % (h + h) = lid + h
  BY DEF MergesInto
<1> DEFINE q == l \div (h + h)
           r == l % (h + h)
<1>0. h + h \in Nat \ {0}
  OBVIOUS
<1>1. q \in Nat /\ r \in 0..(h + h - 1) /\ l = q * (h + h) + r
  <2> DEFINE d == h + h
  <2> HIDE DEF d
  <2>1. d \in Nat \ {0}
    BY <1>0 DEF d
  <2>2. l \div d \in Nat /\ l % d \in 0..(d - 1) /\ l = (l \div d) * d + (l % d)
    BY <2>1, Quotient
  <2> QED
    BY <2>2 DEF d
<1> HIDE DEF q, r
<1>2. q * (h + h) = (q + q) * h /\ (q + q + 1) * h = (q + q) * h + h
      /\ (q + q) * h \in Nat /\ q + q \in Nat
  BY <1>1, SMT
<1>3. CASE r < h
  <2>1. r \in 0..(h - 1) /\ l = (q + q) * h + r
    BY <1>1, <1>2, <1>3
  <2> DEFINE p == q + q
  <2>2. p \in Nat /\ l = p * h + r
    BY <1>2, <2>1
  <2> HIDE DEF p
  <2>3. l % h = r
    <3>1. (p * h + r) % h = r
      BY <2>1, <2>2, QuotientUnique
    <3> QED
      BY <2>2, <3>1
  <2>4. l % h = lid <=> r = lid \/ r = lid + h
    BY <2>1, <2>3
  <2> QED
    BY <2>4 DEF r
<1>4. CASE ~(r < h)
  <2> DEFINE p == q + q + 1
             s == r - h
  <2>1. s \in 0..(h - 1) /\ p \in Nat
    BY <1>1, <1>2, <1>4
  <2>2. l = p * h + s
    BY <1>1, <1>2, <1>4
  <2>3. r = s + h
    BY <1>1
  <2> HIDE DEF p, s
  <2>4. l % h = s
    BY <2>1, <2>2, QuotientUnique
  <2>5. l % h = lid <=> r = lid \/ r = lid + h
    BY <2>1, <2>3, <2>4
  <2> QED
    BY <2>5 DEF r
<1> QED
  BY <1>1, <1>3, <1>4

LEMMA CoverJoins ==
    ASSUME NEW row, NEW h \in Nat \ {0}, NEW lid \in 0..(h - 1)
    PROVE  Covered(row, h, lid) = Covered(row, h + h, lid) \cup Covered(row, h + h, lid + h)
<1>1. Threads \subseteq Nat
  BY Steps DEF Threads
<1>2. Merging(h, lid) = Merging(h + h, lid) \cup Merging(h + h, lid + h)
  <2>1. ASSUME NEW l \in Threads
        PROVE  MergesInto(h, l, lid) <=> MergesInto(h + h, l, lid) \/ MergesInto(h + h, l, lid + h)
    <3>1. l \in Nat
      BY <1>1
    <3> QED
      BY <3>1, Halved
  <2> QED
    BY <2>1 DEF Merging
<1> QED
  BY <1>2 DEF Covered

LEMMA ScannedIn ==
    ASSUME NEW row, NEW stride, NEW lid
    PROVE  Covered(row, stride, lid) \subseteq DOMAIN row
  BY DEF Covered, Scanned

\* Before the first step a slot holds what its own thread scanned; after the
\* last, everything has been scanned.
LEMMA CoverEnds ==
    ASSUME NEW row, IsRow(row)
    PROVE  /\ \A lid \in Threads : Covered(row, RowThreads, lid) = Scanned(row, lid)
           /\ Covered(row, 1, 0) = DOMAIN row
<1>1. RowThreads \in Nat \ {0} /\ V \in Nat \ {0}
  BY Steps, SelectionAssumption
<1>2. ASSUME NEW lid \in Threads
      PROVE  Covered(row, RowThreads, lid) = Scanned(row, lid)
  <2>1. \A l \in Threads : l % RowThreads = l
    BY <1>1 DEF Threads
  <2>2. Merging(RowThreads, lid) = {lid}
    BY <2>1 DEF Merging, MergesInto
  <2> QED
    BY <2>2 DEF Covered
<1>3. Covered(row, 1, 0) = DOMAIN row
  <2>1. Merging(1, 0) = Threads
    <3>1. \A l \in Threads : l % 1 = 0
      BY <1>1 DEF Threads
    <3> QED
      BY <3>1 DEF Merging, MergesInto
  <2>2. ASSUME NEW i \in DOMAIN row
        PROVE  \E l \in Threads : i \in Scanned(row, l)
    <3> DEFINE vend == (Vocab(row) \div V) * V
    <3>1. i \in Nat /\ Vocab(row) \in Nat
      BY DEF IsRow
    <3>2. vend \in Nat /\ i \div V \in Nat
      BY <1>1, <3>1, Quotient, Product
    <3>3. Scanned(row, i) = Scanned(row, i)
      OBVIOUS
    <3>4. \A l : i \in Scanned(row, l) <=> IF i < vend THEN (i \div V) % RowThreads = l
                                                       ELSE (i - vend) % RowThreads = l
      BY DEF Scanned
    <3> HIDE DEF vend
    <3>5. CASE i < vend
      <4>1. (i \div V) % RowThreads \in Threads
        BY <1>1, <3>2, Quotient DEF Threads
      <4> QED
        BY <3>4, <3>5, <4>1
    <3>6. CASE ~(i < vend)
      <4>1. i - vend \in Nat
        BY <3>1, <3>2, <3>6
      <4>2. (i - vend) % RowThreads \in Threads
        BY <1>1, <4>1, Quotient DEF Threads
      <4> QED
        BY <3>4, <3>6, <4>2
    <3> QED
      BY <3>5, <3>6
  <2> QED
    BY <2>1, <2>2, ScannedIn DEF Covered
<1> QED
  BY <1>2, <1>3

\* argmax is the lowest index of a largest logit, whatever the number of
\* threads, the width of the vectors and the length of the row.
THEOREM ArgmaxRight ==
    ASSUME NEW row, IsRow(row)
    PROVE  /\ ArgmaxExact(row)
           /\ Argmax(row) \in DOMAIN row
<1>1. PICK t : /\ Argmax(row) = t[TreeSteps][0].idx
               /\ t[0] = Candidates(row)
               /\ \A n \in 1..TreeSteps : t[n] = Merged(StrideOf(n), t[n - 1])
  BY ArgmaxTree
<1> DEFINE Held(n) == \A lid \in 0..(StrideOf(n) - 1) :
                          IsFirst(row, Covered(row, StrideOf(n), lid), t[n][lid])
           S == {n \in Nat : n <= TreeSteps => Held(n)}
<1>2. 0 \in S
  <2>1. StrideOf(0) = RowThreads /\ Threads = 0..(RowThreads - 1)
    BY Steps DEF Threads
  <2>2. ASSUME NEW lid \in Threads
        PROVE  IsFirst(row, Covered(row, RowThreads, lid), t[0][lid])
    <3>1. t[0][lid] = FirstLargest(row, Scanned(row, lid))
      BY <1>1 DEF Candidates
    <3>2. Scanned(row, lid) \subseteq DOMAIN row
      BY DEF Scanned
    <3>3. IsFirst(row, Scanned(row, lid), FirstLargest(row, Scanned(row, lid)))
      BY <3>2, FirstLargestIs
    <3> QED
      BY <3>1, <3>3, CoverEnds
  <2>3. Held(0)
    BY <2>1, <2>2
  <2> QED
    BY <2>3
<1>3. ASSUME NEW n \in Nat, n \in S
      PROVE  n + 1 \in S
  <2> SUFFICES ASSUME n + 1 <= TreeSteps PROVE Held(n + 1)
    OBVIOUS
  <2> DEFINE h == StrideOf(n + 1)
  <2>1. n + 1 \in 1..TreeSteps /\ (n + 1) - 1 = n
    BY Steps
  <2>2. h \in Nat \ {0} /\ StrideOf(n) = h + h /\ t[n + 1] = Merged(h, t[n])
    BY <1>1, <2>1, Steps
  <2>3. Held(n)
    <3>1. n <= TreeSteps
      BY Steps
    <3> HIDE DEF Held
    <3> QED
      BY <1>3, <3>1
  <2> HIDE DEF h
  <2>4. ASSUME NEW lid \in 0..(h - 1)
        PROVE  IsFirst(row, Covered(row, h, lid), t[n + 1][lid])
    <3>1. lid \in 0..(h + h - 1) /\ lid + h \in 0..(h + h - 1)
      BY <2>2
    <3>2. /\ IsFirst(row, Covered(row, h + h, lid), t[n][lid])
          /\ IsFirst(row, Covered(row, h + h, lid + h), t[n][lid + h])
      BY <2>2, <2>3, <3>1
    <3>3. t[n + 1][lid] = IF Better(t[n][lid], t[n][lid + h]) THEN t[n][lid + h] ELSE t[n][lid]
      BY <2>2 DEF Merged
    <3>4. IsFirst(row, Covered(row, h + h, lid) \cup Covered(row, h + h, lid + h),
                  IF Better(t[n][lid], t[n][lid + h]) THEN t[n][lid + h] ELSE t[n][lid])
      BY <3>2, ScannedIn, BetterJoins
    <3> QED
      BY <2>2, <3>3, <3>4, CoverJoins
  <2> QED
    BY <2>4 DEF h
<1>4. TreeSteps \in S
  <2> HIDE DEF S
  <2> QED
    BY <1>2, <1>3, AllNat, Steps
<1> DEFINE r == t[TreeSteps][0]
<1>5. IsFirst(row, DOMAIN row, r)
  <2>1. 0 \in 0..(1 - 1) /\ StrideOf(TreeSteps) = 1 /\ TreeSteps \in Nat
    BY Steps
  <2>2. Held(TreeSteps)
    BY <1>4, <2>1
  <2> QED
    BY <2>1, <2>2, CoverEnds
<1> HIDE DEF r
<1>6. /\ NegInf \in Int /\ 0 \in DOMAIN row
      /\ \A i \in DOMAIN row : i \in Nat /\ row[i] \in Int /\ row[i] >= NegInf
  BY SelectionAssumption DEF IsRow
<1>7. r.idx \in DOMAIN row
  BY <1>5, <1>6 DEF IsFirst
<1>8. Ahead(row, r.idx) = {}
  <2>1. CASE \A i \in DOMAIN row : row[i] = NegInf
    <3>1. r.idx = 0
      BY <1>5, <2>1 DEF IsFirst
    <3> QED
      BY <1>6, <2>1, <3>1 DEF Ahead
  <2>2. CASE ~\A i \in DOMAIN row : row[i] = NegInf
    <3>1. /\ r.val = row[r.idx]
          /\ \A i \in DOMAIN row : row[i] < r.val \/ (row[i] = r.val /\ r.idx <= i)
      BY <1>5, <2>2 DEF IsFirst
    <3> QED
      BY <1>6, <1>7, <3>1 DEF Ahead
  <2> QED
    BY <2>1, <2>2
<1>9. r.idx = Argmax(row)
  BY <1>1 DEF r
<1> QED
  BY <1>7, <1>8, <1>9 DEF ArgmaxExact

-----------------------------------------------------------------------------
(* Iterated top-k                                                           *)

TakenBy(t, i) == {t[j].idx : j \in 1..i}

IsPicks(t, row, k) == t = [i \in 1..k |-> FirstLargest(row, DOMAIN row \ TakenBy(t, i - 1))]

LEMMA PicksExist ==
    ASSUME NEW row, NEW k \in Nat
    PROVE  \E t : IsPicks(t, row, k)
<1> DEFINE S == {m \in Nat : \E t : IsPicks(t, row, m)}
<1>1. 0 \in S
  <2>1. IsPicks([i \in 1..0 |-> 0], row, 0)
    BY DEF IsPicks
  <2> QED
    BY <2>1
<1>2. ASSUME NEW m \in Nat, m \in S
      PROVE  m + 1 \in S
  <2>1. PICK t : IsPicks(t, row, m)
    BY <1>2
  <2> DEFINE u == [i \in 1..(m + 1) |->
                     IF i = m + 1 THEN FirstLargest(row, DOMAIN row \ TakenBy(t, m)) ELSE t[i]]
  <2>2. \A i \in 1..m : t[i] = FirstLargest(row, DOMAIN row \ TakenBy(t, i - 1))
    BY <2>1 DEF IsPicks
  <2>3. ASSUME NEW i \in 1..(m + 1)
        PROVE  TakenBy(u, i - 1) = TakenBy(t, i - 1)
    <3>1. \A j \in 1..(i - 1) : j \in 1..(m + 1) /\ j # m + 1
      OBVIOUS
    <3>2. \A j \in 1..(i - 1) : u[j] = t[j]
      BY <3>1
    <3> QED
      BY <3>2 DEF TakenBy
  <2>4. ASSUME NEW i \in 1..(m + 1)
        PROVE  u[i] = FirstLargest(row, DOMAIN row \ TakenBy(u, i - 1))
    <3>1. CASE i = m + 1
      <4>1. i - 1 = m
        BY <3>1
      <4> QED
        BY <2>3, <3>1, <4>1
    <3>2. CASE i # m + 1
      <4>1. i \in 1..m
        BY <3>2
      <4> QED
        BY <2>2, <2>3, <3>2, <4>1
    <3> QED
      BY <3>1, <3>2
  <2>5. IsPicks(u, row, m + 1)
    BY <2>4 DEF IsPicks
  <2> QED
    BY <2>5
<1> HIDE DEF S
<1>3. k \in S
  BY <1>1, <1>2, AllNat
<1> QED
  BY <1>3 DEF S

\* Picks meets the equation it is written with.
LEMMA PickStep ==
    ASSUME NEW row, NEW k \in Nat, NEW i \in 1..k
    PROVE  Picks(row, k)[i] = FirstLargest(row, DOMAIN row \ TakenBy(Picks(row, k), i - 1))
<1>1. Picks(row, k) = CHOOSE t : IsPicks(t, row, k)
  BY DEF Picks, IsPicks, TakenBy
<1>2. IsPicks(Picks(row, k), row, k)
  BY <1>1, PicksExist
<1> QED
  BY <1>2 DEF IsPicks

LiveOf(row) == {e \in DOMAIN row : row[e] # NegInf}

LEMMA LiveFinite ==
    ASSUME NEW row, IsRow(row)
    PROVE  /\ IsFiniteSet(DOMAIN row) /\ IsFiniteSet(LiveOf(row))
           /\ Cardinality(LiveOf(row)) \in Nat
<1>1. Vocab(row) \in Nat /\ DOMAIN row = 0..(Vocab(row) - 1)
  BY DEF IsRow
<1>2. IsFiniteSet(DOMAIN row)
  BY <1>1, FS_Interval
<1>3. LiveOf(row) \in SUBSET (DOMAIN row)
  BY DEF LiveOf
<1> QED
  BY <1>2, <1>3, FS_Subset, FS_CardinalityType

\* What i picks have taken: i live tokens that go before all others.
HaveTaken(row, t, i) ==
    /\ TakenBy(t, i) \subseteq LiveOf(row)
    /\ IsFiniteSet(TakenBy(t, i)) /\ Cardinality(TakenBy(t, i)) = i
    /\ \A e \in TakenBy(t, i), f \in DOMAIN row \ TakenBy(t, i) :
          row[e] > row[f] \/ (row[e] = row[f] /\ e < f)

\* The pick after them, while a live token is left.
LEMMA PickNext ==
    ASSUME NEW row, IsRow(row), NEW k \in Nat, NEW i \in 1..k,
           i <= Cardinality(LiveOf(row)), HaveTaken(row, Picks(row, k), i - 1)
    PROVE  LET pick == Picks(row, k)[i] IN
           /\ pick.idx \in LiveOf(row) /\ pick.val = row[pick.idx]
           /\ Ahead(row, pick.idx) = TakenBy(Picks(row, k), i - 1)
           /\ HaveTaken(row, Picks(row, k), i)
<1> DEFINE t == Picks(row, k)
           T == TakenBy(t, i - 1)
           pick == t[i]
           e == pick.idx
<1>1. pick = FirstLargest(row, DOMAIN row \ T)
  BY PickStep
<1>2. T \subseteq LiveOf(row) /\ IsFiniteSet(T) /\ Cardinality(T) = i - 1
      /\ \A d \in T, f \in DOMAIN row \ T : row[d] > row[f] \/ (row[d] = row[f] /\ d < f)
  BY DEF HaveTaken
<1>3. PICK l \in LiveOf(row) : l \notin T
  <2> SUFFICES ASSUME LiveOf(row) \subseteq T PROVE FALSE
    OBVIOUS
  <2>1. LiveOf(row) = T
    BY <1>2
  <2>2. Cardinality(LiveOf(row)) = i - 1 /\ i \in Nat
    BY <1>2, <2>1
  <2> QED
    BY <2>2
<1>4. IsFirst(row, DOMAIN row \ T, pick)
  BY <1>1, FirstLargestIs
<1> HIDE DEF t, T, pick
<1>5. l \in DOMAIN row \ T /\ row[l] # NegInf
  BY <1>3 DEF LiveOf
<1>6. /\ e \in DOMAIN row \ T /\ pick.val = row[e] /\ pick.val > NegInf
      /\ \A f \in DOMAIN row \ T : row[f] < pick.val \/ (row[f] = pick.val /\ e <= f)
  BY <1>4, <1>5 DEF IsFirst
<1> HIDE DEF e
<1>7. /\ NegInf \in Int
      /\ \A f \in DOMAIN row : f \in Nat /\ row[f] \in Int
  BY SelectionAssumption DEF IsRow
<1>8. e \in LiveOf(row)
  BY <1>6, <1>7 DEF LiveOf
<1>9. Ahead(row, e) = T
  <2>1. ASSUME NEW f \in DOMAIN row
        PROVE  (row[f] > row[e] \/ (row[f] = row[e] /\ f < e)) <=> f \in T
    <3>1. CASE f \in T
      BY <1>2, <1>6, <3>1
    <3>2. CASE f \notin T
      BY <1>6, <1>7, <3>2
    <3> QED
      BY <3>1, <3>2
  <2>2. T \subseteq DOMAIN row
    BY <1>2 DEF LiveOf
  <2> QED
    BY <2>1, <2>2 DEF Ahead
<1>10. HaveTaken(row, t, i)
  <2>1. TakenBy(t, i) = T \cup {e}
    <3>1. 1..i = (1..(i - 1)) \cup {i}
      OBVIOUS
    <3> QED
      BY <3>1 DEF TakenBy, T, e, pick
  <2>2. IsFiniteSet(T \cup {e}) /\ Cardinality(T \cup {e}) = i
    <3>1. IsFiniteSet(T \cup {e}) /\ Cardinality(T \cup {e}) = Cardinality(T) + 1
      BY <1>2, <1>6, FS_AddElement
    <3> QED
      BY <1>2, <3>1
  <2>3. ASSUME NEW d \in T \cup {e}, NEW f \in DOMAIN row \ (T \cup {e})
        PROVE  row[d] > row[f] \/ (row[d] = row[f] /\ d < f)
    <3>1. CASE d \in T
      BY <1>2, <3>1
    <3>2. CASE d = e
      <4>1. f \in DOMAIN row \ T /\ f # e
        OBVIOUS
      <4> QED
        BY <1>6, <1>7, <3>2, <4>1
    <3> QED
      BY <3>1, <3>2
  <2> QED
    BY <1>2, <1>8, <2>1, <2>2, <2>3 DEF HaveTaken
<1> QED
  BY <1>6, <1>8, <1>9, <1>10 DEF e, pick, t, T

LEMMA PicksTake ==
    ASSUME NEW row, IsRow(row), NEW k \in Nat, NEW i \in 0..k, i <= Cardinality(LiveOf(row))
    PROVE  HaveTaken(row, Picks(row, k), i)
<1> DEFINE live == Cardinality(LiveOf(row))
           S == {m \in Nat : m <= k /\ m <= live => HaveTaken(row, Picks(row, k), m)}
<1>0. live \in Nat
  BY LiveFinite
<1> HIDE DEF live
<1>1. 0 \in S
  <2>1. TakenBy(Picks(row, k), 0) = {}
    BY DEF TakenBy
  <2> QED
    BY <2>1, FS_EmptySet DEF HaveTaken
<1>2. ASSUME NEW m \in Nat, m \in S
      PROVE  m + 1 \in S
  <2> SUFFICES ASSUME m + 1 <= k, m + 1 <= live
               PROVE  HaveTaken(row, Picks(row, k), m + 1)
    OBVIOUS
  <2>1. m + 1 \in 1..k /\ (m + 1) - 1 = m /\ m <= live /\ m <= k
    BY <1>0
  <2>2. HaveTaken(row, Picks(row, k), (m + 1) - 1)
    BY <1>2, <2>1
  <2> QED
    BY <2>1, <2>2, PickNext DEF live
<1>3. i \in S
  <2> HIDE DEF S
  <2> QED
    BY <1>1, <1>2, AllNat
<1> QED
  BY <1>3 DEF live

\* Every pick, also those after the last live token.
LEMMA PicksAre ==
    ASSUME NEW row, IsRow(row), NEW k \in Nat, NEW i \in 1..k
    PROVE  LET pick == Picks(row, k)[i] IN
           IF i <= Cardinality(LiveOf(row))
           THEN /\ pick.idx \in LiveOf(row) /\ pick.val = row[pick.idx]
                /\ Ahead(row, pick.idx) = TakenBy(Picks(row, k), i - 1)
                /\ Cardinality(TakenBy(Picks(row, k), i - 1)) = i - 1
           ELSE pick.val = NegInf
<1> DEFINE live == Cardinality(LiveOf(row))
<1>0. live \in Nat
  BY LiveFinite
<1>1. CASE i <= live
  <2>1. i - 1 \in 0..k /\ i - 1 <= live
    BY <1>0, <1>1
  <2>2. HaveTaken(row, Picks(row, k), i - 1)
    BY <2>1, PicksTake
  <2> QED
    BY <1>1, <2>2, PickNext DEF HaveTaken
<1>2. CASE ~(i <= live)
  <2>1. live \in 0..k /\ live <= live
    BY <1>0, <1>2
  <2>2. HaveTaken(row, Picks(row, k), live)
    BY <2>1, PicksTake
  <2>3. TakenBy(Picks(row, k), live) = LiveOf(row)
    BY <2>2, LiveFinite, FS_Subset DEF HaveTaken
  <2>4. \A j \in 1..live : j \in 1..(i - 1)
    BY <1>0, <1>2
  <2>5. TakenBy(Picks(row, k), live) \subseteq TakenBy(Picks(row, k), i - 1)
    BY <2>4 DEF TakenBy
  <2> DEFINE T == TakenBy(Picks(row, k), i - 1)
  <2>6. \A f \in DOMAIN row \ T : row[f] = NegInf
    BY <2>3, <2>5 DEF LiveOf
  <2>7. IsFirst(row, DOMAIN row \ T, Picks(row, k)[i])
    BY PickStep, FirstLargestIs
  <2>8. Picks(row, k)[i].val = NegInf
    BY <2>6, <2>7 DEF IsFirst
  <2> QED
    BY <1>2, <2>8
<1> QED
  BY <1>1, <1>2

\* Pick i is the token with i - 1 tokens ahead of it, for every k.
THEOREM PicksRight ==
    ASSUME NEW row, IsRow(row), NEW k \in Nat
    PROVE  PicksExact(row, k)
<1> SUFFICES ASSUME NEW i \in 1..k
             PROVE  LET pick == Picks(row, k)[i] IN
                    IF i <= Cardinality(LiveOf(row))
                    THEN /\ pick.idx \in LiveOf(row) /\ pick.val = row[pick.idx]
                         /\ Cardinality(Ahead(row, pick.idx)) = i - 1
                    ELSE Weight(pick.val) = 0
  BY DEF PicksExact, LiveOf
<1> QED
  BY PicksAre DEF Weight

-----------------------------------------------------------------------------
(* Masses                                                                   *)

\* The element a fold takes next.
TakenFrom(s) == CHOOSE x \in s : TRUE

\* h holds the masses of the subsets in D of a set, as MapThenFoldSet adds them up.
IsFold(h, w, D) ==
    h = [s \in D |-> IF s = {} THEN 0 ELSE w[TakenFrom(s)] + h[s \ {TakenFrom(s)}]]

IsFoldOf(h, w, S) == IsFold(h, w, SUBSET S)

UpToSize(S, k) == {s \in SUBSET S : Cardinality(s) <= k}

LEMMA Smaller ==
    ASSUME NEW S, IsFiniteSet(S), NEW s \in SUBSET S, s # {}
    PROVE  /\ TakenFrom(s) \in s /\ s \ {TakenFrom(s)} \in SUBSET S
           /\ Cardinality(s) \in Nat \ {0}
           /\ Cardinality(s \ {TakenFrom(s)}) = Cardinality(s) - 1
<1>1. TakenFrom(s) \in s
  BY DEF TakenFrom
<1>2. IsFiniteSet(s)
  BY FS_Subset
<1>3. Cardinality(s) \in Nat /\ Cardinality(s) # 0
  BY <1>2, FS_CardinalityType, FS_EmptySet
<1>4. Cardinality(s \ {TakenFrom(s)}) = Cardinality(s) - 1
  BY <1>1, <1>2, FS_RemoveElement
<1> QED
  BY <1>1, <1>3, <1>4

LEMMA FoldExists ==
    ASSUME NEW w, NEW S, IsFiniteSet(S)
    PROVE  \E h : IsFoldOf(h, w, S)
<1> DEFINE N == {k \in Nat : \E h : IsFold(h, w, UpToSize(S, k))}
<1>1. 0 \in N
  <2>1. \A s \in UpToSize(S, 0) : s = {}
    <3> SUFFICES ASSUME NEW s \in UpToSize(S, 0), s # {} PROVE FALSE
      OBVIOUS
    <3>1. s \in SUBSET S /\ Cardinality(s) <= 0
      BY DEF UpToSize
    <3>2. Cardinality(s) \in Nat \ {0}
      BY <3>1, Smaller
    <3> QED
      BY <3>1, <3>2
  <2>2. IsFold([s \in UpToSize(S, 0) |-> 0], w, UpToSize(S, 0))
    BY <2>1 DEF IsFold
  <2> QED
    BY <2>2
<1>2. ASSUME NEW k \in Nat, k \in N
      PROVE  k + 1 \in N
  <2>1. PICK h : IsFold(h, w, UpToSize(S, k))
    BY <1>2
  <2> DEFINE D == UpToSize(S, k)
             E == UpToSize(S, k + 1)
             Value(s) == IF s = {} THEN 0 ELSE w[TakenFrom(s)] + h[s \ {TakenFrom(s)}]
             g == [s \in E |-> Value(s)]
  <2>2. \A s \in D : h[s] = Value(s)
    BY <2>1 DEF IsFold
  <2>3. \A s \in D : s \in E
    <3>1. ASSUME NEW s \in D PROVE s \in E
      <4>1. s \in SUBSET S /\ Cardinality(s) <= k /\ Cardinality(s) \in Nat
        BY FS_Subset, FS_CardinalityType DEF UpToSize
      <4> QED
        BY <4>1 DEF UpToSize
    <3> QED
      BY <3>1
  <2>4. ASSUME NEW s \in E, s # {}
        PROVE  s \ {TakenFrom(s)} \in D
    <3>1. s \in SUBSET S /\ Cardinality(s) <= k + 1
      BY DEF UpToSize
    <3>2. s \ {TakenFrom(s)} \in SUBSET S /\ Cardinality(s \ {TakenFrom(s)}) <= k
      BY <2>4, <3>1, Smaller
    <3> QED
      BY <3>2 DEF UpToSize
  <2> HIDE DEF D, E
  <2>5. \A s \in E : g[s] = IF s = {} THEN 0 ELSE w[TakenFrom(s)] + g[s \ {TakenFrom(s)}]
    <3> SUFFICES ASSUME NEW s \in E, s # {}
                 PROVE  g[s] = w[TakenFrom(s)] + g[s \ {TakenFrom(s)}]
      OBVIOUS
    <3> DEFINE r == s \ {TakenFrom(s)}
    <3>1. r \in D /\ r \in E
      BY <2>3, <2>4
    <3> HIDE DEF r
    <3>2. g[r] = Value(r) /\ h[r] = Value(r)
      BY <2>2, <3>1
    <3>3. g[s] = w[TakenFrom(s)] + h[r]
      BY DEF r
    <3> QED
      BY <3>2, <3>3 DEF r
  <2>6. IsFold(g, w, E)
    <3> HIDE DEF Value
    <3> QED
      BY <2>5 DEF IsFold
  <2> QED
    BY <2>6 DEF E
<1> HIDE DEF N
<1>3. Cardinality(S) \in Nat
  BY FS_CardinalityType
<1>4. UpToSize(S, Cardinality(S)) = SUBSET S
  BY FS_Subset DEF UpToSize
<1>5. Cardinality(S) \in N
  BY <1>1, <1>2, <1>3, AllNat
<1> QED
  BY <1>4, <1>5 DEF N, IsFoldOf

\* Folds over different sets agree where both are defined.
LEMMA FoldsAgree ==
    ASSUME NEW w, NEW S, NEW T, IsFiniteSet(T), S \subseteq T,
           NEW h, IsFoldOf(h, w, S), NEW g, IsFoldOf(g, w, T)
    PROVE  \A s \in SUBSET S : h[s] = g[s]
<1> DEFINE N == {k \in Nat : \A s \in SUBSET S : Cardinality(s) = k => h[s] = g[s]}
<1>1. IsFiniteSet(S)
  BY FS_Subset
<1>2. \A s \in SUBSET S : /\ h[s] = IF s = {} THEN 0 ELSE w[TakenFrom(s)] + h[s \ {TakenFrom(s)}]
                          /\ g[s] = IF s = {} THEN 0 ELSE w[TakenFrom(s)] + g[s \ {TakenFrom(s)}]
  BY DEF IsFoldOf, IsFold
<1>3. 0 \in N
  <2>1. ASSUME NEW s \in SUBSET S, Cardinality(s) = 0
        PROVE  h[s] = g[s]
    <3>1. s = {}
      BY <1>1, <2>1, Smaller
    <3> QED
      BY <1>2, <3>1
  <2> QED
    BY <2>1
<1>4. ASSUME NEW k \in Nat, k \in N
      PROVE  k + 1 \in N
  <2>1. ASSUME NEW s \in SUBSET S, Cardinality(s) = k + 1
        PROVE  h[s] = g[s]
    <3>1. s # {}
      BY <2>1, FS_EmptySet
    <3>2. s \ {TakenFrom(s)} \in SUBSET S /\ Cardinality(s \ {TakenFrom(s)}) = k
      BY <1>1, <2>1, <3>1, Smaller
    <3>3. h[s \ {TakenFrom(s)}] = g[s \ {TakenFrom(s)}]
      BY <1>4, <3>2
    <3> QED
      BY <1>2, <3>1, <3>3
  <2> QED
    BY <2>1
<1> HIDE DEF N
<1>5. Nat \subseteq N
  BY <1>3, <1>4, AllNat
<1>6. ASSUME NEW s \in SUBSET S
      PROVE  h[s] = g[s]
  <2>1. Cardinality(s) \in Nat
    BY <1>1, FS_Subset, FS_CardinalityType
  <2> QED
    BY <1>5, <2>1 DEF N
<1> QED
  BY <1>6

\* Mass is a fold, and takes one element after the other.
LEMMA MassStep ==
    ASSUME NEW w, NEW S, IsFiniteSet(S)
    PROVE  Mass(w, S) = IF S = {} THEN 0 ELSE w[TakenFrom(S)] + Mass(w, S \ {TakenFrom(S)})
<1> DEFINE Fold(R) == CHOOSE h : IsFoldOf(h, w, R)
<1>1. \A R : Mass(w, R) = Fold(R)[R]
  BY DEF Mass, MapThenSumSet, MapThenFoldSet, IsFold, IsFoldOf, TakenFrom
<1>2. IsFoldOf(Fold(S), w, S)
  BY FoldExists
<1> DEFINE r == S \ {TakenFrom(S)}
<1>3. IsFiniteSet(r) /\ r \subseteq S
  BY FS_Subset
<1>4. IsFoldOf(Fold(r), w, r)
  BY <1>3, FoldExists
<1> HIDE DEF Fold, r
<1>5. Fold(r)[r] = Fold(S)[r]
  <2>1. PICK f, g : f = Fold(r) /\ g = Fold(S)
    OBVIOUS
  <2>2. PICK R : R = r
    OBVIOUS
  <2>3. IsFoldOf(f, w, R) /\ IsFoldOf(g, w, S) /\ R \subseteq S
    BY <1>2, <1>3, <1>4, <2>1, <2>2
  <2>4. \A s \in SUBSET R : f[s] = g[s]
    BY <2>3, FoldsAgree
  <2> QED
    BY <2>1, <2>2, <2>4
<1>6. Fold(S)[S] = IF S = {} THEN 0 ELSE w[TakenFrom(S)] + Fold(S)[r]
  BY <1>2 DEF IsFoldOf, IsFold, r
<1> QED
  BY <1>1, <1>5, <1>6 DEF r

\* A finite set of elements with natural masses.
Weighs(w, S) == IsFiniteSet(S) /\ \A i \in S : w[i] \in Nat

LEMMA WeighsPart ==
    ASSUME NEW w, NEW S, Weighs(w, S), NEW T, T \subseteq S
    PROVE  Weighs(w, T)
  BY FS_Subset DEF Weighs

LEMMA MassEmpty ==
    ASSUME NEW w
    PROVE  Mass(w, {}) = 0
  BY FS_EmptySet, MassStep

LEMMA MassNat ==
    ASSUME NEW w, NEW S, Weighs(w, S)
    PROVE  Mass(w, S) \in Nat
<1> DEFINE N == {k \in Nat : \A s \in SUBSET S : Cardinality(s) = k => Mass(w, s) \in Nat}
<1>1. IsFiniteSet(S) /\ \A i \in S : w[i] \in Nat
  BY DEF Weighs
<1>2. 0 \in N
  <2>1. ASSUME NEW s \in SUBSET S, Cardinality(s) = 0
        PROVE  Mass(w, s) \in Nat
    <3>1. s = {}
      BY <1>1, <2>1, Smaller
    <3> QED
      BY <3>1, MassEmpty
  <2> QED
    BY <2>1
<1>3. ASSUME NEW k \in Nat, k \in N
      PROVE  k + 1 \in N
  <2>1. ASSUME NEW s \in SUBSET S, Cardinality(s) = k + 1
        PROVE  Mass(w, s) \in Nat
    <3>1. s # {} /\ IsFiniteSet(s)
      BY <1>1, <2>1, FS_EmptySet, FS_Subset
    <3>2. s \ {TakenFrom(s)} \in SUBSET S /\ Cardinality(s \ {TakenFrom(s)}) = k
          /\ TakenFrom(s) \in S
      BY <1>1, <2>1, <3>1, Smaller
    <3>3. Mass(w, s \ {TakenFrom(s)}) \in Nat /\ w[TakenFrom(s)] \in Nat
      BY <1>1, <1>3, <3>2
    <3>4. Mass(w, s) = w[TakenFrom(s)] + Mass(w, s \ {TakenFrom(s)})
      BY <3>1, MassStep
    <3> QED
      BY <3>3, <3>4
  <2> QED
    BY <2>1
<1> HIDE DEF N
<1>4. Cardinality(S) \in N
  BY <1>1, <1>2, <1>3, AllNat, FS_CardinalityType
<1> QED
  BY <1>4 DEF N

\* Whatever the element taken first.
LEMMA MassRemove ==
    ASSUME NEW w, NEW S, Weighs(w, S), NEW x \in S
    PROVE  Mass(w, S) = w[x] + Mass(w, S \ {x})
<1> DEFINE Splits(s) == \A y \in s : Mass(w, s) = w[y] + Mass(w, s \ {y})
           N == {k \in Nat : \A s \in SUBSET S : Cardinality(s) = k => Splits(s)}
<1>1. IsFiniteSet(S) /\ \A i \in S : w[i] \in Nat
  BY DEF Weighs
<1>2. 0 \in N
  <2>1. ASSUME NEW s \in SUBSET S, Cardinality(s) = 0
        PROVE  s = {}
    BY <1>1, <2>1, Smaller
  <2> QED
    BY <2>1
<1>3. ASSUME NEW k \in Nat, k \in N
      PROVE  k + 1 \in N
  <2> SUFFICES ASSUME NEW s \in SUBSET S, Cardinality(s) = k + 1, NEW y \in s
               PROVE  Mass(w, s) = w[y] + Mass(w, s \ {y})
    OBVIOUS
  <2> DEFINE p == TakenFrom(s)
             a == s \ {p}
             b == s \ {y}
             c == s \ {p, y}
  <2>1. IsFiniteSet(s)
    BY <1>1, FS_Subset
  <2>2. p \in s /\ a \in SUBSET S /\ Cardinality(a) = k
    BY <1>1, Smaller
  <2>3. b \in SUBSET S /\ Cardinality(b) = k
    BY <2>1, FS_RemoveElement
  <2>4. Mass(w, s) = w[p] + Mass(w, a)
    BY <2>1, MassStep
  <2>5. CASE y = p
    BY <2>4, <2>5
  <2>6. CASE y # p
    <3>1. y \in a /\ p \in b
      BY <2>2, <2>6
    <3>2. Splits(a) /\ Splits(b)
      <4> HIDE DEF Splits
      <4> QED
        BY <1>3, <2>2, <2>3
    <3>3. Mass(w, a) = w[y] + Mass(w, a \ {y}) /\ Mass(w, b) = w[p] + Mass(w, b \ {p})
      BY <3>1, <3>2
    <3>4. a \ {y} = c /\ b \ {p} = c
      OBVIOUS
    <3>5. Mass(w, c) \in Nat
      BY MassNat, WeighsPart
    <3>6. w[p] \in Nat /\ w[y] \in Nat
      BY <1>1, <2>2
    <3> HIDE DEF a, b, c, p
    <3> QED
      BY <2>4, <3>3, <3>4, <3>5, <3>6 DEF b
  <2> QED
    BY <2>5, <2>6
<1> HIDE DEF N
<1>4. Cardinality(S) \in N
  BY <1>1, <1>2, <1>3, AllNat, FS_CardinalityType
<1>5. Splits(S)
  <2> HIDE DEF Splits
  <2> QED
    BY <1>4 DEF N
<1> QED
  BY <1>5

LEMMA MassAdd ==
    ASSUME NEW w, NEW S, Weighs(w, S), NEW x, x \notin S, w[x] \in Nat
    PROVE  Mass(w, S \cup {x}) = Mass(w, S) + w[x]
<1> DEFINE T == S \cup {x}
<1>1. Weighs(w, T) /\ x \in T
  BY FS_AddElement DEF Weighs
<1>2. T \ {x} = S
  OBVIOUS
<1> HIDE DEF T
<1>3. Mass(w, T) = w[x] + Mass(w, S)
  BY <1>1, <1>2, MassRemove
<1>4. Mass(w, S) \in Nat
  BY MassNat
<1>5. Mass(w, T) = Mass(w, S) + w[x]
  BY <1>3, <1>4
<1> QED
  BY <1>5 DEF T

\* The mass of disjoint sets is the sum of theirs.
LEMMA MassUnion ==
    ASSUME NEW w, NEW A, NEW B, Weighs(w, A \cup B), A \cap B = {}
    PROVE  Mass(w, A \cup B) = Mass(w, A) + Mass(w, B)
<1> DEFINE Joins(s) == Mass(w, A \cup s) = Mass(w, A) + Mass(w, s)
           N == {k \in Nat : \A s \in SUBSET B : Cardinality(s) = k => Joins(s)}
<1>1. Weighs(w, A) /\ Weighs(w, B)
  BY WeighsPart
<1>2. IsFiniteSet(B) /\ Mass(w, A) \in Nat
  BY <1>1, MassNat DEF Weighs
<1>3. 0 \in N
  <2>1. ASSUME NEW s \in SUBSET B, Cardinality(s) = 0
        PROVE  Joins(s)
    <3>1. s = {} /\ A \cup s = A
      BY <1>2, <2>1, Smaller
    <3> QED
      BY <1>2, <3>1, MassEmpty
  <2> HIDE DEF Joins
  <2> QED
    BY <2>1
<1>4. ASSUME NEW k \in Nat, k \in N
      PROVE  k + 1 \in N
  <2>1. ASSUME NEW s \in SUBSET B, Cardinality(s) = k + 1
        PROVE  Joins(s)
    <3> DEFINE p == TakenFrom(s)
               r == s \ {p}
    <3>1. s # {}
      BY <2>1, FS_EmptySet
    <3>2. p \in s /\ r \in SUBSET B /\ Cardinality(r) = k
      BY <1>2, <2>1, <3>1, Smaller
    <3>3. Joins(r)
      <4> HIDE DEF Joins
      <4> QED
        BY <1>4, <3>2
    <3>4. Weighs(w, A \cup s) /\ Weighs(w, s) /\ Weighs(w, r)
      BY WeighsPart
    <3>5. (A \cup s) \ {p} = A \cup r /\ p \in A \cup s
      BY <3>2
    <3> HIDE DEF p, r
    <3>6. Mass(w, A \cup s) = w[p] + Mass(w, A \cup r)
      BY <3>4, <3>5, MassRemove
    <3>7. Mass(w, s) = w[p] + Mass(w, r)
      BY <3>2, <3>4, MassRemove DEF r
    <3>8. w[p] \in Nat /\ Mass(w, r) \in Nat
      BY <3>2, <3>4, MassNat DEF Weighs
    <3> QED
      BY <1>2, <3>3, <3>6, <3>7, <3>8
  <2> HIDE DEF Joins
  <2> QED
    BY <2>1
<1> HIDE DEF N
<1>5. Cardinality(B) \in N
  BY <1>2, <1>3, <1>4, AllNat, FS_CardinalityType
<1>6. Joins(B)
  <2> HIDE DEF Joins
  <2> QED
    BY <1>5 DEF N
<1> QED
  BY <1>6

LEMMA MassMono ==
    ASSUME NEW w, NEW B, Weighs(w, B), NEW A, A \subseteq B
    PROVE  Mass(w, A) \in Nat /\ Mass(w, B) \in Nat /\ Mass(w, A) <= Mass(w, B)
<1> DEFINE C == B \ A
<1>1. Weighs(w, A) /\ Weighs(w, C) /\ A \cap C = {} /\ A \cup C = B
  BY WeighsPart
<1>2. Mass(w, A) \in Nat /\ Mass(w, C) \in Nat /\ Mass(w, B) \in Nat
  BY <1>1, MassNat
<1> HIDE DEF C
<1>3. Mass(w, A \cup C) = Mass(w, A) + Mass(w, C)
  BY <1>1, MassUnion
<1> QED
  BY <1>1, <1>2, <1>3

\* A set with a heavy element has a mass.
LEMMA MassOfElement ==
    ASSUME NEW w, NEW S, Weighs(w, S), NEW x \in S
    PROVE  w[x] \in Nat /\ Mass(w, S) \in Nat /\ w[x] <= Mass(w, S)
<1>1. Weighs(w, S \ {x})
  BY WeighsPart
<1>2. Mass(w, S \ {x}) \in Nat /\ w[x] \in Nat
  BY <1>1, MassNat DEF Weighs
<1> QED
  BY <1>2, MassRemove

LEMMA MassZero ==
    ASSUME NEW w, NEW S, IsFiniteSet(S), \A i \in S : w[i] = 0
    PROVE  Mass(w, S) = 0
<1> DEFINE N == {k \in Nat : \A s \in SUBSET S : Cardinality(s) = k => Mass(w, s) = 0}
<1>1. 0 \in N
  <2>1. ASSUME NEW s \in SUBSET S, Cardinality(s) = 0
        PROVE  Mass(w, s) = 0
    <3>1. s = {}
      BY <2>1, Smaller
    <3> QED
      BY <3>1, MassEmpty
  <2> QED
    BY <2>1
<1>2. ASSUME NEW k \in Nat, k \in N
      PROVE  k + 1 \in N
  <2>1. ASSUME NEW s \in SUBSET S, Cardinality(s) = k + 1
        PROVE  Mass(w, s) = 0
    <3>1. s # {} /\ IsFiniteSet(s)
      BY <2>1, FS_EmptySet, FS_Subset
    <3>2. s \ {TakenFrom(s)} \in SUBSET S /\ Cardinality(s \ {TakenFrom(s)}) = k
          /\ TakenFrom(s) \in S
      BY <2>1, <3>1, Smaller
    <3>3. Mass(w, s \ {TakenFrom(s)}) = 0 /\ w[TakenFrom(s)] = 0
      BY <1>2, <3>2
    <3>4. Mass(w, s) = w[TakenFrom(s)] + Mass(w, s \ {TakenFrom(s)})
      BY <3>1, MassStep
    <3> QED
      BY <3>3, <3>4
  <2> QED
    BY <2>1
<1> HIDE DEF N
<1>3. Cardinality(S) \in N
  BY <1>1, <1>2, AllNat, FS_CardinalityType
<1> QED
  BY <1>3 DEF N

-----------------------------------------------------------------------------
(* sample_categorical                                                       *)

LEMMA WeightsAre ==
    ASSUME NEW row, IsRow(row)
    PROVE  /\ DOMAIN Weights(row) = DOMAIN row /\ Vocab(Weights(row)) = Vocab(row)
           /\ \A i \in DOMAIN row : Weights(row)[i] = Weight(row[i])
           /\ Weighs(Weights(row), DOMAIN row)
<1>1. NegInf \in Nat
  BY SelectionAssumption
<1>2. \A i \in DOMAIN row : row[i] \in Nat
  BY <1>1 DEF IsRow
<1>3. \A i \in DOMAIN row : Weight(row[i]) \in Nat
  BY <1>2, PowNat DEF Weight
<1> QED
  BY <1>3, LiveFinite DEF Weights, Weighs, Vocab

\* The tokens below k, and their mass.
Below(w, k) == {i \in DOMAIN w : i < k}

MassBelow(w, k) == Mass(w, Below(w, k))

\* Masses of the tokens 0..n-1.
IsMasses(w, n) ==
    n \in Nat \ {0} /\ DOMAIN w = 0..(n - 1) /\ Vocab(w) = n /\ Weighs(w, DOMAIN w)

LEMMA BelowMono ==
    ASSUME NEW w, NEW n, IsMasses(w, n), NEW j \in Nat, NEW k \in Nat, j <= k
    PROVE  /\ MassBelow(w, j) \in Nat /\ MassBelow(w, k) \in Nat
           /\ MassBelow(w, j) <= MassBelow(w, k)
<1>1. \A i \in DOMAIN w : i \in Nat
  BY DEF IsMasses
<1>2. Below(w, j) \subseteq Below(w, k) /\ Below(w, k) \subseteq DOMAIN w
  BY <1>1 DEF Below
<1>3. Weighs(w, Below(w, k))
  BY <1>2, WeighsPart DEF IsMasses
<1> QED
  BY <1>2, <1>3, MassMono DEF MassBelow

LEMMA BelowNext ==
    ASSUME NEW w, NEW n, IsMasses(w, n), NEW j \in DOMAIN w
    PROVE  MassBelow(w, j + 1) = MassBelow(w, j) + w[j] /\ w[j] \in Nat
<1>1. \A i \in DOMAIN w : i \in Nat
  BY DEF IsMasses
<1>2. Below(w, j + 1) = Below(w, j) \cup {j} /\ j \notin Below(w, j)
  BY <1>1 DEF Below
<1>3. Weighs(w, Below(w, j)) /\ w[j] \in Nat
  BY WeighsPart DEF IsMasses, Below, Weighs
<1> QED
  BY <1>2, <1>3, MassAdd DEF MassBelow

\* Tokens from a to b - 1.
LEMMA MassBetween ==
    ASSUME NEW w, NEW n, IsMasses(w, n), NEW a \in Nat, NEW b \in Nat, a <= b
    PROVE  MassBelow(w, b) = MassBelow(w, a) + Mass(w, {i \in DOMAIN w : a <= i /\ i < b})
<1> DEFINE M == {i \in DOMAIN w : a <= i /\ i < b}
<1>1. \A i \in DOMAIN w : i \in Nat
  BY DEF IsMasses
<1>2. Below(w, b) = Below(w, a) \cup M /\ Below(w, a) \cap M = {}
  BY <1>1 DEF Below
<1>3. Weighs(w, Below(w, a) \cup M)
  BY WeighsPart DEF IsMasses, Below
<1> HIDE DEF M
<1>4. Mass(w, Below(w, a) \cup M) = Mass(w, Below(w, a)) + Mass(w, M)
  BY <1>2, <1>3, MassUnion
<1> QED
  BY <1>2, <1>4 DEF MassBelow, M

ChunkSize(w) == (Vocab(w) + RowThreads - 1) \div RowThreads

\* The chunks of the threads are consecutive and reach the end of the row.
LEMMA ChunksAre ==
    ASSUME NEW w, NEW n, IsMasses(w, n)
    PROVE  /\ ChunkSize(w) \in Nat \ {0} /\ n <= RowThreads * ChunkSize(w)
           /\ \A lid \in Nat :
                /\ lid * ChunkSize(w) \in Nat /\ (lid + 1) * ChunkSize(w) = lid * ChunkSize(w) + ChunkSize(w)
                /\ BeforeChunk(w, lid) = MassBelow(w, lid * ChunkSize(w))
                /\ Chunk(w, lid) = {i \in DOMAIN w : lid * ChunkSize(w) <= i /\ i < (lid + 1) * ChunkSize(w)}
<1> DEFINE s == ChunkSize(w)
<1>1. RowThreads \in Nat \ {0} /\ n \in Nat \ {0} /\ Vocab(w) = n
  BY Steps DEF IsMasses
<1>2. s = CeilDiv(n, RowThreads)
  BY <1>1 DEF CeilDiv, ChunkSize
<1>3. s \in Nat /\ n <= s * RowThreads
  BY <1>1, <1>2, CeilDivCovers
<1>4. s # 0
  BY <1>1, <1>3
<1>5. n <= RowThreads * s
  BY <1>1, <1>3, Product
<1>6. \A lid : Chunk(w, lid) = {i \in DOMAIN w : lid * s <= i /\ i < (lid + 1) * s}
  BY DEF Chunk, ChunkSize
<1> HIDE DEF s
<1>7. ASSUME NEW lid \in Nat
      PROVE  lid * s \in Nat /\ (lid + 1) * s = lid * s + s
  BY <1>3, SMT
<1>8. \A i \in DOMAIN w : i \in Nat
  BY DEF IsMasses
<1>9. ASSUME NEW lid \in Nat
      PROVE  BeforeChunk(w, lid) = MassBelow(w, lid * s)
  <2> DEFINE U == UNION {Chunk(w, o) : o \in 0..(lid - 1)}
  <2>1. ASSUME NEW i \in U
        PROVE  i \in Below(w, lid * s)
    <3>1. PICK o \in 0..(lid - 1) : i \in Chunk(w, o)
      OBVIOUS
    <3>2. i \in DOMAIN w /\ i < (o + 1) * s
      BY <1>6, <3>1
    <3>3. (o + 1) * s <= lid * s
      BY <1>3, <1>4, TimesMono
    <3>4. (o + 1) * s \in Nat /\ lid * s \in Nat
      BY <1>3, Product
    <3> QED
      BY <1>8, <3>2, <3>3, <3>4 DEF Below
  <2>2. ASSUME NEW i \in Below(w, lid * s)
        PROVE  i \in U
    <3>1. i \in DOMAIN w /\ i \in Nat /\ i < lid * s
      BY <1>8 DEF Below
    <3> DEFINE o == i \div s
    <3>2. o \in Nat /\ o * s <= i /\ i < o * s + s
      BY <1>3, <1>4, <3>1, Quotient
    <3> HIDE DEF o
    <3>3. (o + 1) * s = o * s + s
      BY <1>7, <3>2
    <3>4. i \in Chunk(w, o)
      BY <1>6, <3>1, <3>2, <3>3
    <3>5. o * s < lid * s
      BY <1>3, <3>1, <3>2, Product
    <3>6. o < lid
      BY <1>3, <3>2, <3>5, LessByFactor
    <3>7. o \in 0..(lid - 1)
      BY <3>2, <3>6
    <3> QED
      BY <3>4, <3>7
  <2>3. U = Below(w, lid * s)
    <3> HIDE DEF U
    <3> QED
      BY <2>1, <2>2
  <2> QED
    BY <2>3 DEF BeforeChunk, MassBelow
<1> QED
  BY <1>3, <1>4, <1>5, <1>6, <1>7, <1>9 DEF s

\* Every target has an owner.
LEMMA OwnerExists ==
    ASSUME NEW w, NEW n, IsMasses(w, n), NEW target \in Nat, target < Mass(w, DOMAIN w)
    PROVE  Owners(w, target) # {}
<1> DEFINE s == ChunkSize(w)
           S == {l \in Nat : target < MassBelow(w, (l + 1) * s)}
<1>1. RowThreads \in Nat \ {0} /\ n \in Nat \ {0}
  BY Steps DEF IsMasses
<1>2. s \in Nat \ {0} /\ n <= RowThreads * s
  BY ChunksAre
<1>3. \A l \in Nat : /\ l * s \in Nat /\ (l + 1) * s = l * s + s
                     /\ BeforeChunk(w, l) = MassBelow(w, l * s)
                     /\ Chunk(w, l) = {i \in DOMAIN w : l * s <= i /\ i < (l + 1) * s}
  BY ChunksAre
<1> HIDE DEF s
<1>4. RowThreads - 1 \in S
  <2>1. Below(w, RowThreads * s) = DOMAIN w
    <3>1. \A i \in DOMAIN w : i \in Nat /\ i < n
      BY DEF IsMasses
    <3>2. RowThreads * s \in Nat
      BY <1>1, <1>2, Product
    <3> QED
      BY <1>1, <1>2, <3>1, <3>2 DEF Below
  <2>2. RowThreads - 1 \in Nat /\ (RowThreads - 1) + 1 = RowThreads
    BY <1>1
  <2> QED
    BY <2>1, <2>2 DEF MassBelow
<1>5. PICK l \in S : \A k \in S : l <= k
  <2> HIDE DEF S
  <2>1. S \in SUBSET Nat
    BY DEF S
  <2> QED
    BY <1>4, <2>1, LeastNat
<1>6. l \in Nat /\ l <= RowThreads - 1
  BY <1>4, <1>5
<1>7. l \in Threads
  BY <1>1, <1>6 DEF Threads
<1>8. BeforeChunk(w, l) <= target
  <2>1. CASE l = 0
    <3>1. 0 * s = 0
      BY <1>2
    <3>2. Below(w, 0) = {}
      <4>1. \A i \in DOMAIN w : i \in Nat
        BY DEF IsMasses
      <4> QED
        BY <4>1 DEF Below
    <3>3. BeforeChunk(w, 0) = MassBelow(w, 0 * s)
      BY <1>3
    <3>4. MassBelow(w, 0) = 0
      BY <3>2, MassEmpty DEF MassBelow
    <3> QED
      BY <2>1, <3>1, <3>3, <3>4
  <2>2. CASE l # 0
    <3>1. l - 1 \in Nat /\ (l - 1) + 1 = l /\ ~(l <= l - 1)
      BY <1>6, <2>2
    <3>2. ~(target < MassBelow(w, l * s))
      BY <1>5, <3>1
    <3>3. MassBelow(w, l * s) \in Nat
      BY <1>3, <1>6, BelowMono
    <3> QED
      BY <1>3, <1>6, <3>2, <3>3
  <2> QED
    BY <2>1, <2>2
<1>9. target < BeforeChunk(w, l) + Mass(w, Chunk(w, l))
  <2>1. target < MassBelow(w, (l + 1) * s)
    BY <1>5
  <2>2. l * s <= (l + 1) * s /\ (l + 1) * s \in Nat /\ l * s \in Nat
    BY <1>2, <1>3, <1>6
  <2> DEFINE a == l * s
             b == (l + 1) * s
             c == BeforeChunk(w, l)
             m == Mass(w, Chunk(w, l))
  <2>3. c = MassBelow(w, a) /\ Chunk(w, l) = {i \in DOMAIN w : a <= i /\ i < b}
    BY <1>3, <1>6
  <2> HIDE DEF a, b, c
  <2>4. MassBelow(w, b) = MassBelow(w, a) + Mass(w, {i \in DOMAIN w : a <= i /\ i < b})
    BY <2>2, MassBetween DEF a, b
  <2>5. target < c + m
    BY <2>1, <2>3, <2>4 DEF b
  <2> QED
    BY <2>5 DEF c
<1>10. Mass(w, Chunk(w, l)) > 0
  <2>1. Weighs(w, Chunk(w, l))
    BY <1>3, <1>6, WeighsPart DEF IsMasses
  <2>2. Mass(w, Chunk(w, l)) \in Nat
    BY <2>1, MassNat
  <2>3. BeforeChunk(w, l) \in Nat
    BY <1>3, <1>6, BelowMono
  <2> QED
    BY <1>8, <1>9, <2>2, <2>3
<1> QED
  BY <1>7, <1>8, <1>9, <1>10 DEF Owners

\* The token an owner finds.
LEMMA TokenFound ==
    ASSUME NEW w, NEW n, IsMasses(w, n), NEW target \in Nat, NEW lid \in Owners(w, target)
    PROVE  LET hit == {j \in Chunk(w, lid) :
                         BeforeChunk(w, lid) + Mass(w, {i \in Chunk(w, lid) : i <= j}) >= target}
           IN  hit # {} /\ Min(hit) \in DOMAIN w
               /\ Inverts(MassBelow(w, Min(hit)), w[Min(hit)], target)
<1> DEFINE s == ChunkSize(w)
           a == lid * s
           b == (lid + 1) * s
           C == Chunk(w, lid)
           c == BeforeChunk(w, lid)
           hit == {j \in C : c + Mass(w, {i \in C : i <= j}) >= target}
<1>1. /\ lid \in Nat /\ Mass(w, C) > 0 /\ c <= target /\ target < c + Mass(w, C)
  BY Steps DEF Owners, Threads
<1>2. /\ s \in Nat \ {0} /\ a \in Nat /\ b = a + s /\ c = MassBelow(w, a)
      /\ C = {i \in DOMAIN w : a <= i /\ i < b}
  BY <1>1, ChunksAre
<1> HIDE DEF s, a, b, c, C
<1>3. b \in Nat /\ a <= b
  BY <1>2
<1>4. \A i \in DOMAIN w : i \in Nat /\ i < n
  BY DEF IsMasses
<1>5. ASSUME NEW j \in C
      PROVE  c + Mass(w, {i \in C : i <= j}) = MassBelow(w, j + 1)
  <2>1. j \in Nat /\ a <= j /\ j < b
    BY <1>2, <1>4
  <2>2. {i \in C : i <= j} = {i \in DOMAIN w : a <= i /\ i < j + 1}
    BY <1>2, <1>3, <1>4, <2>1
  <2>3. j + 1 \in Nat /\ a <= j + 1
    BY <1>2, <2>1
  <2>4. MassBelow(w, j + 1) = MassBelow(w, a) + Mass(w, {i \in DOMAIN w : a <= i /\ i < j + 1})
    BY <1>2, <2>3, MassBetween
  <2> QED
    BY <1>2, <2>2, <2>4
<1>6. hit = {j \in C : MassBelow(w, j + 1) >= target}
  BY <1>5
<1>7. hit # {}
  <2>1. c + Mass(w, C) = MassBelow(w, b)
    BY <1>2, <1>3, MassBetween
  <2>2. C # {}
    BY <1>1, MassEmpty
  <2> DEFINE last == IF b < n THEN b - 1 ELSE n - 1
  <2>3. n \in Nat \ {0} /\ DOMAIN w = 0..(n - 1)
    BY DEF IsMasses
  <2>4. last \in C
    <3>1. PICK i \in C : TRUE
      BY <2>2
    <3>2. i \in 0..(n - 1) /\ a <= i /\ i < b
      BY <1>2, <2>3, <3>1
    <3> QED
      BY <1>2, <1>3, <2>3, <3>2
  <2>5. Below(w, last + 1) = Below(w, b)
    <3>1. last + 1 = b \/ (last + 1 = n /\ n <= b)
      BY <1>3, <2>3
    <3>2. n <= b => Below(w, n) = DOMAIN w /\ Below(w, b) = DOMAIN w
      BY <1>3, <1>4, <2>3 DEF Below
    <3> HIDE DEF last
    <3> QED
      BY <3>1, <3>2
  <2>6. MassBelow(w, last + 1) = MassBelow(w, b) /\ MassBelow(w, b) \in Nat
    BY <1>3, <2>5, BelowMono DEF MassBelow
  <2> HIDE DEF last
  <2>7. MassBelow(w, last + 1) >= target
    <3>1. target < MassBelow(w, last + 1) /\ MassBelow(w, last + 1) \in Nat
      BY <1>1, <2>1, <2>6
    <3> QED
      BY <3>1
  <2> HIDE DEF hit
  <2> QED
    BY <1>6, <2>4, <2>7
<1> HIDE DEF hit
<1>8. PICK r \in hit : \A j \in hit : r <= j
  <2>1. hit \in SUBSET Nat
    BY <1>2, <1>4, <1>6
  <2> QED
    BY <1>7, <2>1, LeastNat
<1>9. Min(hit) = r
  <2>1. hit \in SUBSET Int
    BY <1>2, <1>4, <1>6
  <2> QED
    BY <1>8, <2>1, MinIs
<1>10. r \in C /\ MassBelow(w, r + 1) >= target /\ r \in DOMAIN w /\ r \in Nat
  BY <1>2, <1>4, <1>6
<1>11. MassBelow(w, r + 1) = MassBelow(w, r) + w[r] /\ w[r] \in Nat /\ MassBelow(w, r) \in Nat
  BY <1>10, BelowNext, BelowMono
<1>12. MassBelow(w, r) <= target
  <2>1. CASE r = a
    BY <1>1, <1>2, <2>1
  <2>2. CASE r # a
    <3>1. r - 1 \in C /\ (r - 1) + 1 = r
      <4>1. a <= r /\ r < b /\ r \in 0..(n - 1) /\ DOMAIN w = 0..(n - 1)
        BY <1>2, <1>10 DEF IsMasses
      <4>2. r - 1 \in 0..(n - 1) /\ a <= r - 1 /\ r - 1 < b
        <5>1. a \in Nat /\ b \in Nat /\ n \in Nat /\ r \in Nat
          BY <1>2, <1>3, <4>1 DEF IsMasses
        <5> QED
          BY <2>2, <4>1, <5>1
      <4> QED
        BY <1>2, <1>10, <4>1, <4>2
    <3>2. r - 1 \notin hit
      BY <1>8, <1>10
    <3>3. ~(MassBelow(w, r) >= target)
      BY <1>6, <3>1, <3>2
    <3> QED
      BY <1>11, <3>3
  <2> QED
    BY <2>1, <2>2
<1>13. Inverts(MassBelow(w, r), w[r], target)
  BY <1>10, <1>11, <1>12 DEF Inverts
<1> QED
  BY <1>7, <1>9, <1>10, <1>13 DEF hit, c, C

\* sample_categorical inverts the CDF, whatever the row, the masses and the
\* number of threads.
THEOREM CategoricalRight ==
    ASSUME NEW row, IsRow(row)
    PROVE  CategoricalInverts(row)
<1> DEFINE w == Weights(row)
           n == Vocab(row)
<1>1. IsMasses(w, n) /\ DOMAIN w = DOMAIN row
  BY WeightsAre DEF IsMasses, IsRow
<1> HIDE DEF w, n
<1>2. Weighs(w, DOMAIN w)
  BY <1>1 DEF IsMasses
<1>3. Mass(w, DOMAIN row) \in Nat
  BY <1>1, <1>2, MassNat
<1>4. ASSUME NEW target \in 0..(Mass(w, DOMAIN row) - 1)
      PROVE  LET r == Categorical(w, target)
             IN  Inverts(Mass(w, {i \in DOMAIN row : i < r}), w[r], target)
  <2>1. target \in Nat /\ target < Mass(w, DOMAIN w)
    BY <1>1, <1>3
  <2>2. Owners(w, target) # {}
    BY <1>1, <2>1, OwnerExists
  <2> DEFINE lid == CHOOSE o \in Owners(w, target) : TRUE
             hit == {j \in Chunk(w, lid) :
                       BeforeChunk(w, lid) + Mass(w, {i \in Chunk(w, lid) : i <= j}) >= target}
  <2>3. lid \in Owners(w, target)
    BY <2>2
  <2>4. Categorical(w, target) = IF hit = {} THEN Max(Chunk(w, lid)) ELSE Min(hit)
    BY <2>2 DEF Categorical
  <2> HIDE DEF lid
  <2>5. hit # {} /\ Inverts(MassBelow(w, Min(hit)), w[Min(hit)], target)
    BY <1>1, <2>1, <2>3, TokenFound
  <2> HIDE DEF hit
  <2>6. Inverts(MassBelow(w, Categorical(w, target)), w[Categorical(w, target)], target)
    BY <2>4, <2>5
  <2> QED
    BY <1>1, <2>6 DEF MassBelow, Below
<1> QED
  BY <1>4 DEF CategoricalInverts, w

-----------------------------------------------------------------------------
(* top_k_sample                                                             *)

\* The running sums of the picks' weights.
PickSums(s, row, k) ==
    s = [i \in 0..k |-> IF i = 0 THEN 0 ELSE s[i - 1] + Weight(Picks(row, k)[i].val)]

DrawsBy(s, row, k, target) ==
    /\ s[0] = 0
    /\ \A i \in 1..k : s[i] = s[i - 1] + Weight(Picks(row, k)[i].val)
    /\ TopKSample(row, k, target) =
         LET hit == {i \in 1..k : s[i] >= target}
         IN  Picks(row, k)[IF hit = {} THEN k ELSE Min(hit)].idx

LEMMA PickWeights ==
    ASSUME NEW row, IsRow(row), NEW k \in Nat, NEW i \in 1..k
    PROVE  Weight(Picks(row, k)[i].val) \in Nat
<1>1. NegInf \in Nat
  BY SelectionAssumption
<1>2. CASE i <= Cardinality(LiveOf(row))
  <2>1. Picks(row, k)[i].idx \in LiveOf(row) /\ Picks(row, k)[i].val = row[Picks(row, k)[i].idx]
    BY <1>2, PicksAre
  <2>2. Picks(row, k)[i].val \in Nat
    BY <1>1, <2>1 DEF LiveOf, IsRow
  <2> QED
    BY <2>2, PowNat DEF Weight
<1>3. CASE ~(i <= Cardinality(LiveOf(row)))
  BY <1>3, PicksAre DEF Weight
<1> QED
  BY <1>2, <1>3

LEMMA PickSumsAre ==
    ASSUME NEW row, IsRow(row), NEW k \in Nat, NEW target
    PROVE  \E s : DrawsBy(s, row, k, target)
<1> DEFINE W(i) == Weight(Picks(row, k)[i].val)
           F == [i \in 1..k |-> [x \in Nat |-> x + W(i)]]
           s == CHOOSE f : PickSums(f, row, k)
<1>1. \A i \in 1..k : W(i) \in Nat
  BY PickWeights
<1>2. TopKSample(row, k, target) =
        LET hit == {i \in 1..k : s[i] >= target}
        IN  Picks(row, k)[IF hit = {} THEN k ELSE Min(hit)].idx
  BY DEF TopKSample, PickSums
<1> HIDE DEF W
<1>3. F \in [1..k -> [Nat -> Nat]]
  BY <1>1
<1>4. PICK t : IsTable(t, k, Nat, 0, F)
  <2> HIDE DEF F
  <2>1. 0 \in Nat
    OBVIOUS
  <2> QED
    BY <1>3, <2>1, Table
<1>5. ASSUME NEW i \in 0..k
      PROVE  t[i] = IF i = 0 THEN 0 ELSE t[i - 1] + W(i)
  <2>1. CASE i = 0
    BY <1>4, <2>1 DEF IsTable
  <2>2. CASE i # 0
    <3>1. i \in 1..k /\ i - 1 \in 0..k
      BY <2>2
    <3>2. t[i - 1] \in Nat /\ t[i] = F[i][t[i - 1]]
      BY <1>4, <3>1 DEF IsTable
    <3> QED
      BY <2>2, <3>1, <3>2
  <2> QED
    BY <2>1, <2>2
<1>6. PickSums(t, row, k)
  <2>1. t \in [0..k -> Nat]
    BY <1>4 DEF IsTable
  <2> QED
    BY <1>5, <2>1 DEF PickSums, W
<1>7. PickSums(s, row, k)
  BY <1>6
<1> HIDE DEF s
<1>8. \A i \in 0..k : s[i] = IF i = 0 THEN 0 ELSE s[i - 1] + W(i)
  BY <1>7 DEF PickSums, W
<1>9. s[0] = 0
  BY <1>8
<1>10. \A i \in 1..k : s[i] = s[i - 1] + W(i)
  <2> SUFFICES ASSUME NEW i \in 1..k PROVE s[i] = s[i - 1] + W(i)
    OBVIOUS
  <2>1. i \in 0..k /\ i # 0
    OBVIOUS
  <2> QED
    BY <1>8, <2>1
<1> QED
  BY <1>2, <1>9, <1>10 DEF W, DrawsBy

\* While live tokens are left, the sums are the masses of the tokens taken.
LEMMA SumsAreMasses ==
    ASSUME NEW row, IsRow(row), NEW k \in Nat, NEW s, s[0] = 0,
           \A i \in 1..k : s[i] = s[i - 1] + Weight(Picks(row, k)[i].val),
           NEW m \in 0..k, m <= Cardinality(LiveOf(row))
    PROVE  s[m] = Mass(Weights(row), TakenBy(Picks(row, k), m))
<1> DEFINE live == Cardinality(LiveOf(row))
           t == Picks(row, k)
           w == Weights(row)
           S == {i \in Nat : i <= k /\ i <= live => s[i] = Mass(w, TakenBy(t, i))}
<1>0. live \in Nat
  BY LiveFinite
<1> HIDE DEF live
<1>1. 0 \in S
  <2>1. TakenBy(t, 0) = {}
    BY DEF TakenBy
  <2>2. Mass(w, TakenBy(t, 0)) = 0
    BY <2>1, MassEmpty
  <2> QED
    BY <2>2
<1>2. ASSUME NEW i \in Nat, i \in S
      PROVE  i + 1 \in S
  <2> SUFFICES ASSUME i + 1 <= k, i + 1 <= live
               PROVE  s[i + 1] = Mass(w, TakenBy(t, i + 1))
    OBVIOUS
  <2> DEFINE e == t[i + 1].idx
             T == TakenBy(t, i)
  <2>1. i + 1 \in 1..k /\ (i + 1) - 1 = i /\ i \in 0..k /\ i <= live /\ i <= k
    BY <1>0
  <2>2. HaveTaken(row, t, i)
    BY <2>1, PicksTake DEF live
  <2>3. /\ e \in LiveOf(row) /\ t[i + 1].val = row[e] /\ Ahead(row, e) = T
    <3>1. i + 1 <= Cardinality(LiveOf(row))
      BY DEF live
    <3> QED
      BY <2>1, <3>1, PicksAre
  <2>4. TakenBy(t, i + 1) = T \cup {e}
    <3>1. 1..(i + 1) = (1..i) \cup {i + 1}
      OBVIOUS
    <3> QED
      BY <3>1 DEF TakenBy
  <2>5. e \notin T /\ e \in DOMAIN row
    <3>1. e \in DOMAIN row /\ row[e] \in Int /\ e \in Nat
      BY <2>3 DEF LiveOf, IsRow
    <3>2. e \notin Ahead(row, e)
      BY <3>1 DEF Ahead
    <3> QED
      BY <2>3, <3>1, <3>2
  <2>6. s[i] = Mass(w, T)
    <3> HIDE DEF T
    <3> QED
      BY <1>2, <2>1 DEF T
  <2>7. s[i + 1] = s[i] + w[e]
    <3>1. s[i + 1] = s[i] + Weight(t[i + 1].val)
      BY <2>1
    <3>2. w[e] = Weight(row[e])
      BY <2>5, WeightsAre
    <3> QED
      BY <2>3, <3>1, <3>2
  <2>8. Weighs(w, T) /\ w[e] \in Nat
    <3>1. Weighs(w, DOMAIN row)
      BY WeightsAre
    <3>2. T \subseteq DOMAIN row
      BY <2>2 DEF HaveTaken, LiveOf
    <3> QED
      BY <2>5, <3>1, <3>2, WeighsPart DEF Weighs
  <2> HIDE DEF e, T, w, t
  <2>9. Mass(w, T \cup {e}) = Mass(w, T) + w[e]
    BY <2>5, <2>8, MassAdd
  <2> QED
    BY <2>4, <2>6, <2>7, <2>9
<1>3. m \in S
  <2> HIDE DEF S
  <2> QED
    BY <1>1, <1>2, AllNat
<1> QED
  BY <1>3 DEF live

\* The k first tokens weigh as much as those taken.
LEMMA TopMass ==
    ASSUME NEW row, IsRow(row), NEW k \in Nat, NEW m \in 0..k, m <= Cardinality(LiveOf(row)),
           m = k \/ m = Cardinality(LiveOf(row))
    PROVE  Mass(Weights(row), {e \in DOMAIN row : Cardinality(Ahead(row, e)) < k})
             = Mass(Weights(row), TakenBy(Picks(row, k), m))
<1> DEFINE live == Cardinality(LiveOf(row))
           w == Weights(row)
           T == TakenBy(Picks(row, k), m)
           top == {e \in DOMAIN row : Cardinality(Ahead(row, e)) < k}
<1>1. HaveTaken(row, Picks(row, k), m)
  BY PicksTake
<1>2. /\ T \subseteq LiveOf(row) /\ IsFiniteSet(T) /\ Cardinality(T) = m
      /\ \A e \in T, f \in DOMAIN row \ T : row[e] > row[f] \/ (row[e] = row[f] /\ e < f)
  BY <1>1 DEF HaveTaken
<1>3. T \subseteq top
  <2>1. ASSUME NEW e \in T
        PROVE  Cardinality(Ahead(row, e)) < k
    <3>1. PICK i \in 1..m : e = Picks(row, k)[i].idx
      BY DEF TakenBy
    <3>2. i \in 1..k /\ i <= live
      BY <3>1, LiveFinite
    <3>3. Cardinality(Ahead(row, e)) = i - 1
      BY <3>1, <3>2, PicksAre
    <3> QED
      BY <3>2, <3>3
  <2>2. T \subseteq DOMAIN row
    BY <1>2 DEF LiveOf
  <2> HIDE DEF T
  <2> QED
    BY <2>1, <2>2
<1> DEFINE rest == top \ T
<1>4. \A e \in rest : w[e] = 0
  <2> SUFFICES ASSUME NEW e \in rest PROVE w[e] = 0
    OBVIOUS
  <2>1. e \in DOMAIN row /\ e \notin T /\ Cardinality(Ahead(row, e)) < k
    OBVIOUS
  <2>2. CASE m = k
    <3>1. T \subseteq Ahead(row, e)
      <4>1. \A d \in T : d \in DOMAIN row /\ (row[d] > row[e] \/ (row[d] = row[e] /\ d < e))
        BY <1>2, <2>1 DEF LiveOf
      <4> HIDE DEF T
      <4> QED
        BY <4>1 DEF Ahead
    <3>2. IsFiniteSet(Ahead(row, e))
      BY LiveFinite, FS_Subset DEF Ahead
    <3>3. Cardinality(T) <= Cardinality(Ahead(row, e)) /\ Cardinality(Ahead(row, e)) \in Nat
      BY <3>1, <3>2, FS_Subset, FS_CardinalityType
    <3> QED
      BY <1>2, <2>1, <2>2, <3>3
  <2>3. CASE m = live
    <3>1. T = LiveOf(row)
      BY <1>2, <2>3, LiveFinite, FS_Subset
    <3>2. row[e] = NegInf
      BY <2>1, <3>1 DEF LiveOf
    <3> QED
      BY <2>1, <3>2, WeightsAre DEF Weight
  <2> QED
    BY <2>2, <2>3
<1>5. Weighs(w, DOMAIN row) /\ top \subseteq DOMAIN row
  BY WeightsAre
<1> HIDE DEF w, T, top
<1>6. Weighs(w, T) /\ Weighs(w, rest) /\ T \cup rest = top /\ T \cap rest = {} /\ Weighs(w, T \cup rest)
  BY <1>3, <1>5, WeighsPart
<1> HIDE DEF rest
<1>7. Mass(w, T \cup rest) = Mass(w, T) + Mass(w, rest)
  BY <1>6, MassUnion
<1>8. Mass(w, rest) = 0
  BY <1>4, <1>6, MassZero DEF Weighs
<1>9. Mass(w, T) \in Nat
  BY <1>6, MassNat
<1> QED
  BY <1>6, <1>7, <1>8, <1>9 DEF top, w, T

\* top_k_sample inverts the CDF of the k first tokens.
THEOREM TopKRight ==
    ASSUME NEW row, IsRow(row), NEW k \in Nat
    PROVE  TopKInverts(row, k)
<1> DEFINE w == Weights(row)
           t == Picks(row, k)
           live == Cardinality(LiveOf(row))
           top == {e \in DOMAIN row : Cardinality(Ahead(row, e)) < k}
           m == IF k <= live THEN k ELSE live
<1>1. live \in Nat /\ m \in 0..k /\ m <= live /\ (m = k \/ m = live)
  BY LiveFinite
<1>2. Mass(w, top) = Mass(w, TakenBy(t, m)) /\ Mass(w, top) \in Nat
  <2>1. Weighs(w, DOMAIN row) /\ top \subseteq DOMAIN row
    BY WeightsAre
  <2> HIDE DEF m, w
  <2> QED
    BY <1>1, <2>1, WeighsPart, MassNat, TopMass DEF w
<1> HIDE DEF w, t, live, top, m
<1> SUFFICES ASSUME NEW target \in 0..(Mass(w, top) - 1)
             PROVE  LET r == TopKSample(row, k, target)
                    IN  Inverts(Mass(w, Ahead(row, r)), w[r], target)
  BY DEF TopKInverts, w, top
<1>0. PICK s : DrawsBy(s, row, k, target)
  BY PickSumsAre
<1>3. /\ s[0] = 0
      /\ \A i \in 1..k : s[i] = s[i - 1] + Weight(t[i].val)
      /\ TopKSample(row, k, target) =
           LET hit == {i \in 1..k : s[i] >= target}
           IN  t[IF hit = {} THEN k ELSE Min(hit)].idx
  BY <1>0 DEF DrawsBy, t
<1> DEFINE hit == {i \in 1..k : s[i] >= target}
<1>4. ASSUME NEW i \in 0..k, i <= live
      PROVE  s[i] = Mass(w, TakenBy(t, i))
  BY <1>3, <1>4, SumsAreMasses DEF w, t, live
<1>5. m \in hit
  <2>1. s[m] = Mass(w, top)
    BY <1>1, <1>2, <1>4
  <2>2. target < s[m] /\ target \in Nat /\ s[m] \in Nat
    BY <1>2, <2>1
  <2>3. m # 0
    BY <1>3, <2>2
  <2> QED
    BY <1>1, <2>2, <2>3
<1>6. PICK j \in hit : \A i \in hit : j <= i
  <2>1. hit \in SUBSET Nat
    OBVIOUS
  <2> HIDE DEF hit
  <2> QED
    BY <1>5, <2>1, LeastNat
<1>7. Min(hit) = j
  <2>1. hit \in SUBSET Int
    OBVIOUS
  <2> HIDE DEF hit
  <2> QED
    BY <1>6, <2>1, MinIs
<1>8. j \in 1..k /\ j <= live /\ s[j] >= target
  BY <1>1, <1>5, <1>6
<1> DEFINE e == t[j].idx
<1>9. TopKSample(row, k, target) = e
  BY <1>3, <1>5, <1>7
<1>10. e \in LiveOf(row) /\ t[j].val = row[e] /\ Ahead(row, e) = TakenBy(t, j - 1)
  BY <1>8, PicksAre DEF live, t
<1>11. Mass(w, Ahead(row, e)) = s[j - 1]
  <2>1. j - 1 \in 0..k /\ j - 1 <= live
    BY <1>1, <1>8
  <2> QED
    BY <1>4, <1>10, <2>1
<1>12. s[j] = s[j - 1] + w[e] /\ w[e] \in Nat
  <2>1. e \in DOMAIN row
    BY <1>10 DEF LiveOf
  <2>2. w[e] = Weight(row[e]) /\ w[e] \in Nat
    BY <2>1, WeightsAre DEF w, Weighs
  <2> HIDE DEF e
  <2> QED
    BY <1>3, <1>8, <1>10, <2>2 DEF e
<1>13. s[j - 1] \in Nat
  <2>1. Weighs(w, DOMAIN row) /\ Ahead(row, e) \subseteq DOMAIN row
    BY WeightsAre DEF w, Ahead
  <2> HIDE DEF e
  <2> QED
    BY <1>11, <2>1, WeighsPart, MassNat
<1> HIDE DEF e
<1>14. s[j - 1] <= target
  <2>1. CASE j = 1
    BY <1>3, <2>1
  <2>2. CASE j # 1
    <3>1. j - 1 \in 1..k /\ ~(j <= j - 1)
      BY <1>8, <2>2
    <3>2. j - 1 \notin hit
      <4> HIDE DEF hit
      <4> QED
        BY <1>6, <3>1
    <3> QED
      BY <1>13, <3>1, <3>2
  <2> QED
    BY <2>1, <2>2
<1> QED
  BY <1>8, <1>9, <1>11, <1>12, <1>13, <1>14 DEF Inverts

-----------------------------------------------------------------------------
(* Renormalisation                                                          *)

\* A row of probabilities, in whole units.
IsProbs(p) ==
    /\ DOMAIN p # {} /\ IsFiniteSet(DOMAIN p)
    /\ \A v \in DOMAIN p : p[v] \in Nat

LEMMA ProbsAre ==
    ASSUME NEW row, IsRow(row)
    PROVE  IsProbs(Probs(row)) /\ DOMAIN Probs(row) = DOMAIN row
<1>1. NegInf \in Nat
  BY SelectionAssumption
<1>2. \A i \in DOMAIN row : row[i] - NegInf \in Nat
  BY <1>1 DEF IsRow
<1>3. 0 \in DOMAIN row
  BY DEF IsRow
<1> QED
  BY <1>2, <1>3, LiveFinite DEF IsProbs, Probs

LEMMA LargestProb ==
    ASSUME NEW p, IsProbs(p), NEW S \in SUBSET (DOMAIN p), S # {}
    PROVE  /\ Max({p[v] : v \in S}) \in Nat
           /\ \A v \in S : p[v] <= Max({p[u] : u \in S})
           /\ \E m \in S : p[m] = Max({p[v] : v \in S})
<1> DEFINE Top(s) == \E m \in s : \A i \in s : p[i] <= p[m]
           N == {k \in Nat : \A s \in SUBSET S : Cardinality(s) = k /\ s # {} => Top(s)}
<1>1. IsFiniteSet(S) /\ \A v \in S : p[v] \in Nat
  BY FS_Subset DEF IsProbs
<1>2. 0 \in N
  <2>1. ASSUME NEW s \in SUBSET S, Cardinality(s) = 0
        PROVE  s = {}
    BY <1>1, <2>1, Smaller
  <2> HIDE DEF Top
  <2> QED
    BY <2>1
<1>3. ASSUME NEW k \in Nat, k \in N
      PROVE  k + 1 \in N
  <2>1. ASSUME NEW s \in SUBSET S, Cardinality(s) = k + 1, s # {}
        PROVE  Top(s)
    <3> DEFINE x == TakenFrom(s)
               r == s \ {x}
    <3>1. x \in s /\ r \in SUBSET S /\ Cardinality(r) = k
      BY <1>1, <2>1, Smaller
    <3>2. CASE r = {}
      BY <1>1, <3>1, <3>2
    <3>3. CASE r # {}
      <4>1. Top(r)
        <5> HIDE DEF Top, r
        <5> QED
          BY <1>3, <3>1, <3>3
      <4>2. PICK m \in r : \A i \in r : p[i] <= p[m]
        BY <4>1
      <4>3. \A i \in s : i = x \/ i \in r
        OBVIOUS
      <4>4. p[m] \in Nat /\ p[x] \in Nat
        BY <1>1, <3>1
      <4>5. CASE p[x] <= p[m]
        BY <4>2, <4>3, <4>5
      <4>6. CASE ~(p[x] <= p[m])
        <5>1. \A i \in s : p[i] <= p[x]
          BY <1>1, <4>2, <4>3, <4>4, <4>6
        <5> QED
          BY <3>1, <5>1
      <4> QED
        BY <4>5, <4>6
    <3> QED
      BY <3>2, <3>3
  <2> HIDE DEF Top
  <2> QED
    BY <2>1
<1> HIDE DEF N
<1>4. Cardinality(S) \in N
  BY <1>1, <1>2, <1>3, AllNat, FS_CardinalityType
<1>5. Top(S)
  <2> HIDE DEF Top
  <2> QED
    BY <1>4 DEF N
<1>6. PICK m \in S : \A i \in S : p[i] <= p[m]
  BY <1>5
<1> DEFINE vals == {p[v] : v \in S}
<1>7. vals \in SUBSET Int /\ p[m] \in vals /\ \A y \in vals : y <= p[m]
  BY <1>1, <1>6
<1>8. Max(vals) = p[m]
  <2> HIDE DEF vals
  <2> QED
    BY <1>7, MaxIs
<1> QED
  BY <1>1, <1>6, <1>8

-----------------------------------------------------------------------------
(* top_k_renorm                                                             *)

NextRound(p, x) ==
    IF x.left = {} THEN x
    ELSE LET best == Max({p[v] : v \in x.left})
         IN  [thresh |-> best, left |-> {v \in x.left : p[v] < best}]

Rounds(r, p, k) ==
    r = [i \in 0..k |-> IF i = 0 THEN [thresh |-> 0, left |-> DOMAIN p] ELSE NextRound(p, r[i - 1])]

LEMMA RoundsAre ==
    ASSUME NEW p, IsProbs(p), NEW k \in Nat
    PROVE  \E r : Rounds(r, p, k) /\ TopKThreshold(p, k) = r[k].thresh
<1> DEFINE A == [thresh : Nat, left : SUBSET (DOMAIN p)]
           F == [i \in 1..k |-> [x \in A |-> NextRound(p, x)]]
           x0 == [thresh |-> 0, left |-> DOMAIN p]
           r == CHOOSE f : Rounds(f, p, k)
<1>1. x0 \in A
  OBVIOUS
<1>2. ASSUME NEW x \in A
      PROVE  NextRound(p, x) \in A
  <2>1. x.left \in SUBSET (DOMAIN p)
    OBVIOUS
  <2>2. x.left # {} => Max({p[v] : v \in x.left}) \in Nat
    BY <2>1, LargestProb
  <2> QED
    BY <2>1, <2>2 DEF NextRound
<1>3. TopKThreshold(p, k) = r[k].thresh
  BY DEF TopKThreshold, Rounds, NextRound
<1> HIDE DEF A, x0
<1>4. F \in [1..k -> [A -> A]]
  BY <1>2
<1>5. PICK t : IsTable(t, k, A, x0, F)
  <2> HIDE DEF F
  <2> QED
    BY <1>1, <1>4, Table
<1>6. ASSUME NEW i \in 0..k
      PROVE  t[i] = IF i = 0 THEN x0 ELSE NextRound(p, t[i - 1])
  <2>1. CASE i = 0
    BY <1>5, <2>1 DEF IsTable
  <2>2. CASE i # 0
    <3>1. i \in 1..k /\ i - 1 \in 0..k
      BY <2>2
    <3>2. t[i - 1] \in A /\ t[i] = F[i][t[i - 1]]
      BY <1>5, <3>1 DEF IsTable
    <3> QED
      BY <2>2, <3>1, <3>2
  <2> QED
    BY <2>1, <2>2
<1>7. Rounds(t, p, k)
  <2>1. t \in [0..k -> A]
    BY <1>5 DEF IsTable
  <2> QED
    BY <1>6, <2>1 DEF Rounds, x0
<1>8. Rounds(r, p, k)
  BY <1>7
<1> HIDE DEF r
<1> QED
  BY <1>3, <1>8

\* What is left after i rounds lies below all the rest, at least i elements.
RoundHolds(p, i, x) ==
    /\ x.left \subseteq DOMAIN p /\ x.thresh \in Nat
    /\ \A o \in DOMAIN p \ x.left, u \in x.left : p[u] < p[o]
    /\ x.left # {} => i <= Cardinality(DOMAIN p \ x.left)
    /\ \A v \in DOMAIN p : p[v] < x.thresh => v \in x.left

LEMMA RoundNext ==
    ASSUME NEW p, IsProbs(p), NEW i \in Nat, NEW x, RoundHolds(p, i, x)
    PROVE  RoundHolds(p, i + 1, NextRound(p, x))
<1>1. CASE x.left = {}
  BY <1>1 DEF NextRound, RoundHolds
<1>2. CASE x.left # {}
  <2> DEFINE best == Max({p[v] : v \in x.left})
             y == NextRound(p, x)
  <2>1. x.left \subseteq DOMAIN p
    BY DEF RoundHolds
  <2>2. best \in Nat /\ (\A v \in x.left : p[v] <= best) /\ \E m \in x.left : p[m] = best
    BY <1>2, <2>1, LargestProb
  <2>3. PICK m \in x.left : p[m] = best
    BY <2>2
  <2>4. y = [thresh |-> best, left |-> {v \in x.left : p[v] < best}]
    BY <1>2 DEF NextRound
  <2> HIDE DEF best
  <2>5. y.thresh = best /\ y.left = {v \in x.left : p[v] < best}
    BY <2>4
  <2> HIDE DEF y
  <2>6. \A v \in DOMAIN p : p[v] \in Nat
    BY DEF IsProbs
  <2>7. y.left \subseteq x.left /\ y.left \subseteq DOMAIN p
    BY <2>1, <2>5
  <2>8. ASSUME NEW o \in DOMAIN p \ y.left, NEW u \in y.left
        PROVE  p[u] < p[o]
    <3>1. u \in x.left /\ p[u] < best
      BY <2>5
    <3>2. CASE o \in x.left
      <4>1. ~(p[o] < best)
        BY <2>5, <3>2
      <4>2. p[o] \in Nat /\ p[u] \in Nat
        BY <2>1, <2>6, <3>1
      <4> QED
        BY <2>2, <3>1, <4>1, <4>2
    <3>3. CASE o \notin x.left
      BY <3>1, <3>3 DEF RoundHolds
    <3> QED
      BY <3>2, <3>3
  <2>9. i + 1 <= Cardinality(DOMAIN p \ y.left)
    <3> DEFINE X == DOMAIN p \ x.left
               Y == DOMAIN p \ y.left
    <3>1. m \notin y.left /\ m \in Y /\ m \notin X
      BY <2>1, <2>2, <2>3, <2>5
    <3>2. X \cup {m} \subseteq Y
      BY <2>7, <3>1
    <3>3. IsFiniteSet(X) /\ IsFiniteSet(Y)
      BY FS_Subset DEF IsProbs
    <3>4. i <= Cardinality(X)
      BY <1>2 DEF RoundHolds
    <3> HIDE DEF X, Y
    <3>5. Cardinality(X \cup {m}) = Cardinality(X) + 1
      BY <3>1, <3>3, FS_AddElement
    <3>6. Cardinality(X \cup {m}) <= Cardinality(Y)
      BY <3>2, <3>3, FS_Subset
    <3>7. Cardinality(X) \in Nat /\ Cardinality(Y) \in Nat
      BY <3>3, FS_CardinalityType
    <3>8. i + 1 <= Cardinality(Y)
      BY <3>4, <3>5, <3>6, <3>7
    <3> QED
      BY <3>8 DEF Y
  <2>10. ASSUME NEW v \in DOMAIN p, p[v] < best
         PROVE  v \in y.left
    <3>1. v \in x.left
      <4> SUFFICES ASSUME v \notin x.left PROVE FALSE
        OBVIOUS
      <4>1. p[m] < p[v]
        BY <2>3 DEF RoundHolds
      <4> QED
        BY <2>2, <2>3, <2>6, <2>10, <4>1
    <3> QED
      BY <2>5, <2>10, <3>1
  <2> QED
    BY <2>2, <2>5, <2>7, <2>8, <2>9, <2>10 DEF RoundHolds, y
<1> QED
  BY <1>1, <1>2

\* top_k_renorm never drops one of the k largest probabilities.
THEOREM TopKKeeps ==
    ASSUME NEW p, IsProbs(p), NEW k \in Nat
    PROVE  Largest(p, k) \subseteq TopKKept(p, k)
<1>1. PICK r : Rounds(r, p, k) /\ TopKThreshold(p, k) = r[k].thresh
  BY RoundsAre
<1>2. \A i \in 0..k : r[i] = IF i = 0 THEN [thresh |-> 0, left |-> DOMAIN p]
                             ELSE NextRound(p, r[i - 1])
  BY <1>1 DEF Rounds
<1> DEFINE S == {i \in Nat : i <= k => RoundHolds(p, i, r[i])}
<1>3. \A v \in DOMAIN p : p[v] \in Nat
  BY DEF IsProbs
<1>4. 0 \in S
  <2>1. r[0] = [thresh |-> 0, left |-> DOMAIN p]
    BY <1>2
  <2>2. DOMAIN p \ DOMAIN p = {}
    OBVIOUS
  <2>3. RoundHolds(p, 0, r[0])
    BY <1>3, <2>1, <2>2, FS_EmptySet DEF RoundHolds
  <2> QED
    BY <2>3
<1>5. ASSUME NEW i \in Nat, i \in S
      PROVE  i + 1 \in S
  <2> SUFFICES ASSUME i + 1 <= k PROVE RoundHolds(p, i + 1, r[i + 1])
    OBVIOUS
  <2>1. i + 1 \in 0..k /\ i + 1 # 0 /\ (i + 1) - 1 = i
    OBVIOUS
  <2>2. r[i + 1] = NextRound(p, r[i])
    BY <1>2, <2>1
  <2>3. RoundHolds(p, i, r[i])
    BY <1>5
  <2> QED
    BY <2>2, <2>3, RoundNext
<1>6. k \in S
  <2> HIDE DEF S
  <2> QED
    BY <1>4, <1>5, AllNat
<1>7. RoundHolds(p, k, r[k])
  BY <1>6
<1>8. ASSUME NEW v \in Largest(p, k)
      PROVE  v \in TopKKept(p, k)
  <2>1. v \in DOMAIN p /\ Cardinality({o \in DOMAIN p : p[o] > p[v]}) < k
    BY DEF Largest
  <2> SUFFICES ASSUME ~(p[v] >= r[k].thresh) PROVE FALSE
    BY <1>1, <2>1 DEF TopKKept
  <2> DEFINE L == r[k].left
             X == DOMAIN p \ L
             Y == {o \in DOMAIN p : p[o] > p[v]}
  <2>2. r[k].thresh \in Nat
    BY <1>7 DEF RoundHolds
  <2>3. v \in L
    BY <1>3, <1>7, <2>1, <2>2 DEF RoundHolds
  <2>4. X \subseteq Y /\ k <= Cardinality(X)
    BY <1>3, <1>7, <2>1, <2>3 DEF RoundHolds
  <2>5. IsFiniteSet(Y) /\ Y \subseteq DOMAIN p
    BY FS_Subset DEF IsProbs
  <2> HIDE DEF X, Y
  <2>6. Cardinality(X) <= Cardinality(Y) /\ Cardinality(Y) \in Nat /\ Cardinality(X) \in Nat
    BY <2>4, <2>5, FS_Subset, FS_CardinalityType
  <2>7. Cardinality(Y) < k
    BY <2>1 DEF Y
  <2> QED
    BY <2>4, <2>6, <2>7
<1> QED
  BY <1>8

-----------------------------------------------------------------------------
(* top_p_renorm                                                             *)

Fine == 2^Halvings

Reached(p, t) == {v \in DOMAIN p : Fine * p[v] >= t}

LargestOf(p) == Max({p[v] : v \in DOMAIN p})

Narrowed(p, topp, x) ==
    LET mid == (x.lo + x.hi) \div 2
    IN  IF Enough(Mass(p, Reached(p, mid)), topp) THEN [lo |-> mid, hi |-> x.hi]
                                                  ELSE [lo |-> x.lo, hi |-> mid]

Ranges(r, p, topp) ==
    r = [i \in 0..Halvings |-> IF i = 0 THEN [lo |-> 0, hi |-> Fine * LargestOf(p)]
                               ELSE Narrowed(p, topp, r[i - 1])]

LEMMA RangesAre ==
    ASSUME NEW p, IsProbs(p), NEW topp
    PROVE  \E r : Ranges(r, p, topp) /\ TopPKept(p, topp) = Reached(p, r[Halvings].lo)
<1> DEFINE A == [lo : Nat, hi : Nat]
           F == [i \in 1..Halvings |-> [x \in A |-> Narrowed(p, topp, x)]]
           x0 == [lo |-> 0, hi |-> Fine * LargestOf(p)]
           r == CHOOSE f : Ranges(f, p, topp)
<1>0. Halvings \in Nat
  BY SelectionAssumption
<1>1. x0 \in A
  <2>1. Fine \in Nat /\ LargestOf(p) \in Nat
    BY <1>0, PowNat, LargestProb DEF Fine, LargestOf, IsProbs
  <2>2. Fine * LargestOf(p) \in Nat
    BY <2>1, Product
  <2> QED
    BY <2>2
<1>2. ASSUME NEW x \in A
      PROVE  Narrowed(p, topp, x) \in A
  <2>1. (x.lo + x.hi) \div 2 \in Nat
    <3>1. x.lo + x.hi \in Nat
      OBVIOUS
    <3> QED
      BY <3>1, Quotient
  <2> QED
    BY <2>1 DEF Narrowed
<1>3. TopPKept(p, topp) = Reached(p, r[Halvings].lo)
  BY DEF TopPKept, Ranges, Narrowed, Reached, Fine, LargestOf
<1> HIDE DEF A, x0
<1>4. F \in [1..Halvings -> [A -> A]]
  BY <1>2
<1>5. PICK t : IsTable(t, Halvings, A, x0, F)
  <2> HIDE DEF F
  <2> QED
    BY <1>0, <1>1, <1>4, Table
<1>6. ASSUME NEW i \in 0..Halvings
      PROVE  t[i] = IF i = 0 THEN x0 ELSE Narrowed(p, topp, t[i - 1])
  <2>1. CASE i = 0
    BY <1>5, <2>1 DEF IsTable
  <2>2. CASE i # 0
    <3>1. i \in 1..Halvings /\ i - 1 \in 0..Halvings
      BY <1>0, <2>2
    <3>2. t[i - 1] \in A /\ t[i] = F[i][t[i - 1]]
      BY <1>5, <3>1 DEF IsTable
    <3> QED
      BY <2>2, <3>1, <3>2
  <2> QED
    BY <2>1, <2>2
<1>7. Ranges(t, p, topp)
  <2>1. t \in [0..Halvings -> A]
    BY <1>5 DEF IsTable
  <2> QED
    BY <1>6, <2>1 DEF Ranges, x0
<1>8. Ranges(r, p, topp)
  BY <1>7
<1> HIDE DEF r
<1> QED
  BY <1>3, <1>8

\* After i halvings: enough mass at lo, too little at hi (or nothing above it),
\* and the distance the halvings leave.
RangeHolds(p, topp, i, x) ==
    /\ x.lo \in Nat /\ x.hi = x.lo + LargestOf(p) * 2^(Halvings - i)
    /\ Enough(Mass(p, Reached(p, x.lo)), topp)
    /\ \/ x.hi = Fine * LargestOf(p)
       \/ ~Enough(Mass(p, Reached(p, x.hi)), topp)

LEMMA RangeNext ==
    ASSUME NEW p, IsProbs(p), NEW topp, NEW i \in Nat, i + 1 <= Halvings,
           NEW x, RangeHolds(p, topp, i, x)
    PROVE  RangeHolds(p, topp, i + 1, Narrowed(p, topp, x))
<1> DEFINE M == LargestOf(p)
           mid == (x.lo + x.hi) \div 2
           a == 2^(Halvings - (i + 1))
           b == 2^(Halvings - i)
           y == Narrowed(p, topp, x)
<1>1. Halvings \in Nat /\ M \in Nat
  BY SelectionAssumption, LargestProb DEF LargestOf, IsProbs
<1>2. b = a + a /\ a \in Nat
  <2>1. Halvings - (i + 1) \in Nat /\ Halvings - i = (Halvings - (i + 1)) + 1
    BY <1>1
  <2>2. 2^((Halvings - (i + 1)) + 1) = 2^(Halvings - (i + 1)) + 2^(Halvings - (i + 1))
        /\ 2^(Halvings - (i + 1)) \in Nat
    BY <2>1, PowStep, PowNat
  <2> QED
    BY <2>1, <2>2
<1>3. x.lo \in Nat /\ x.hi = x.lo + M * b
  BY DEF RangeHolds
<1>4. y = IF Enough(Mass(p, Reached(p, mid)), topp) THEN [lo |-> mid, hi |-> x.hi]
          ELSE [lo |-> x.lo, hi |-> mid]
  BY DEF Narrowed
<1>5. Enough(Mass(p, Reached(p, x.lo)), topp)
  BY DEF RangeHolds
<1>6. x.hi = Fine * M \/ ~Enough(Mass(p, Reached(p, x.hi)), topp)
  BY DEF RangeHolds
<1> HIDE DEF M, a, b
<1> DEFINE c == M * a
<1>7. c \in Nat /\ M * b = c + c
  BY <1>1, <1>2, SMT
<1> HIDE DEF c
<1>8. mid = x.lo + c
  <2>1. x.lo + x.hi = 2 * (x.lo + c)
    BY <1>3, <1>7
  <2> QED
    BY <1>3, <1>7, <2>1
<1>9. x.hi = mid + c
  BY <1>3, <1>7, <1>8
<1> HIDE DEF mid, y
<1>10. mid \in Nat
  BY <1>3, <1>7, <1>8
<1>11. CASE Enough(Mass(p, Reached(p, mid)), topp)
  <2>1. y.lo = mid /\ y.hi = x.hi
    BY <1>4, <1>11
  <2> QED
    BY <1>6, <1>9, <1>10, <1>11, <2>1 DEF RangeHolds, y, c, M, a
<1>12. CASE ~Enough(Mass(p, Reached(p, mid)), topp)
  <2>1. y.lo = x.lo /\ y.hi = mid
    BY <1>4, <1>12
  <2> QED
    BY <1>3, <1>5, <1>8, <1>12, <2>1 DEF RangeHolds, y, c, M, a
<1> QED
  BY <1>11, <1>12

\* top_p_renorm keeps the nucleus when the halvings tell the probabilities
\* apart: the largest is less than 2^Halvings units.
THEOREM TopPRight ==
    ASSUME NEW p, IsProbs(p), \A v \in DOMAIN p : p[v] < Fine,
           NEW topp \in 1..Mass(p, DOMAIN p)
    PROVE  TopPKept(p, topp) = Nucleus(p, topp)
<1> DEFINE M == LargestOf(p)
<1>0. /\ Halvings \in Nat /\ M \in Nat /\ Fine \in Nat \ {0}
      /\ (\A v \in DOMAIN p : p[v] \in Nat /\ p[v] <= M) /\ \E v \in DOMAIN p : p[v] = M
  BY SelectionAssumption, LargestProb, PowPositive DEF LargestOf, IsProbs, Fine
<1>1. PICK r : Ranges(r, p, topp) /\ TopPKept(p, topp) = Reached(p, r[Halvings].lo)
  BY RangesAre
<1>2. \A i \in 0..Halvings : r[i] = IF i = 0 THEN [lo |-> 0, hi |-> Fine * M]
                                    ELSE Narrowed(p, topp, r[i - 1])
  BY <1>1 DEF Ranges
<1> HIDE DEF M
<1>3. Weighs(p, DOMAIN p)
  BY DEF Weighs, IsProbs
<1>4. Mass(p, DOMAIN p) \in Nat /\ topp \in Nat /\ topp >= 1 /\ topp <= Mass(p, DOMAIN p)
  BY <1>3, MassNat
<1>5. \A v \in DOMAIN p : Fine * p[v] \in Nat
  BY <1>0, Product
<1> DEFINE S == {i \in Nat : i <= Halvings => RangeHolds(p, topp, i, r[i])}
<1>6. 0 \in S
  <2>1. r[0] = [lo |-> 0, hi |-> Fine * M]
    BY <1>0, <1>2
  <2>2. Reached(p, 0) = DOMAIN p
    <3>1. ASSUME NEW v \in DOMAIN p PROVE Fine * p[v] >= 0
      <4>1. PICK x \in Nat : x = Fine * p[v]
        BY <1>5
      <4> QED
        BY <4>1
    <3> QED
      BY <3>1 DEF Reached
  <2>3. Fine * M = 0 + M * 2^(Halvings - 0)
    <3>1. Halvings - 0 = Halvings
      BY <1>0
    <3>2. Fine * M \in Nat /\ Fine * M = M * Fine
      BY <1>0, Product
    <3>3. 0 + M * Fine = Fine * M
      BY <3>2
    <3> QED
      BY <3>1, <3>3 DEF Fine
  <2>4. RangeHolds(p, topp, 0, r[0])
    BY <1>4, <2>1, <2>2, <2>3 DEF RangeHolds, Enough, M
  <2> QED
    BY <2>4
<1>7. ASSUME NEW i \in Nat, i \in S
      PROVE  i + 1 \in S
  <2> SUFFICES ASSUME i + 1 <= Halvings PROVE RangeHolds(p, topp, i + 1, r[i + 1])
    OBVIOUS
  <2>1. i + 1 \in 0..Halvings /\ i + 1 # 0 /\ (i + 1) - 1 = i /\ i <= Halvings
    BY <1>0
  <2>2. r[i + 1] = Narrowed(p, topp, r[i])
    BY <1>2, <2>1
  <2>3. RangeHolds(p, topp, i, r[i])
    BY <1>7, <2>1
  <2> QED
    BY <2>2, <2>3, RangeNext
<1>8. Halvings \in S
  <2> HIDE DEF S
  <2> QED
    BY <1>0, <1>6, <1>7, AllNat
<1> DEFINE lo == r[Halvings].lo
           hi == r[Halvings].hi
<1>9. /\ lo \in Nat /\ hi = lo + M
      /\ Mass(p, Reached(p, lo)) >= topp
      /\ hi = Fine * M \/ ~(Mass(p, Reached(p, hi)) >= topp)
  <2>1. RangeHolds(p, topp, Halvings, r[Halvings])
    BY <1>0, <1>8
  <2>2. M * 2^(Halvings - Halvings) = M
    <3>1. Halvings - Halvings = 0 /\ 2^0 = 1
      BY <1>0, SMT
    <3>2. M * 1 = M
      BY <1>0
    <3> QED
      BY <3>1, <3>2
  <2>3. hi = lo + M * 2^(Halvings - Halvings)
    BY <2>1 DEF RangeHolds, M
  <2> QED
    BY <2>1, <2>2, <2>3 DEF RangeHolds, Enough, M
<1> HIDE DEF lo, hi
<1> DEFINE Above(v) == {o \in DOMAIN p : p[o] > p[v]}
<1>10. ASSUME NEW v \in DOMAIN p, NEW o \in DOMAIN p, p[o] > p[v]
       PROVE  Fine * p[o] >= Fine * p[v] + Fine
  <2>1. p[v] + 1 <= p[o] /\ p[v] + 1 \in Nat
    BY <1>0, <1>10
  <2>2. (p[v] + 1) * Fine <= p[o] * Fine
    BY <1>0, <2>1, TimesMono
  <2>3. (p[v] + 1) * Fine = Fine * p[v] + Fine /\ p[o] * Fine = Fine * p[o]
    BY <1>0, SMT
  <2> QED
    BY <2>2, <2>3
<1>11. ASSUME NEW v \in DOMAIN p, Mass(p, Above(v)) < topp
       PROVE  Fine * p[v] >= lo
  <2> SUFFICES ASSUME Fine * p[v] < lo PROVE FALSE
    BY <1>5, <1>9
  <2>1. ASSUME NEW o \in Reached(p, lo)
        PROVE  o \in Above(v)
    <3>1. o \in DOMAIN p /\ Fine * p[o] >= lo
      BY DEF Reached
    <3>2. Fine * p[v] < Fine * p[o]
      BY <1>5, <1>9, <3>1
    <3>3. p[v] * Fine < p[o] * Fine
      BY <1>0, <3>1, <3>2, Product
    <3>4. p[v] < p[o]
      BY <1>0, <3>1, <3>3, LessByFactor
    <3> QED
      BY <1>0, <3>1, <3>4
  <2>2. Reached(p, lo) \subseteq Above(v)
    BY <2>1
  <2>3. Weighs(p, Above(v))
    BY <1>3, WeighsPart
  <2> HIDE DEF Above
  <2>4. Mass(p, Reached(p, lo)) <= Mass(p, Above(v)) /\ Mass(p, Reached(p, lo)) \in Nat
        /\ Mass(p, Above(v)) \in Nat
    BY <2>2, <2>3, MassMono
  <2> QED
    BY <1>4, <1>9, <1>11, <2>4
<1>12. ASSUME NEW v \in DOMAIN p, Fine * p[v] >= lo
       PROVE  Mass(p, Above(v)) < topp
  <2>1. ASSUME NEW o \in DOMAIN p, p[o] > p[v]
        PROVE  Fine * p[o] > hi
    <3>1. Fine * p[o] >= Fine * p[v] + Fine
      BY <1>10, <2>1
    <3>2. M < Fine
      BY <1>0
    <3> QED
      BY <1>0, <1>5, <1>9, <1>12, <3>1, <3>2
  <2>2. CASE hi = Fine * M
    <3>1. Above(v) = {}
      <4> SUFFICES ASSUME NEW o \in DOMAIN p, p[o] > p[v] PROVE FALSE
        OBVIOUS
      <4>1. Fine * p[o] > Fine * M
        BY <2>1, <2>2
      <4>2. p[o] * Fine <= M * Fine
        BY <1>0, TimesMono
      <4>3. p[o] * Fine = Fine * p[o] /\ M * Fine = Fine * M /\ Fine * M \in Nat
        BY <1>0, Product
      <4> QED
        BY <1>5, <4>1, <4>2, <4>3
    <3> QED
      BY <1>4, <3>1, MassEmpty
  <2>3. CASE ~(Mass(p, Reached(p, hi)) >= topp)
    <3>1. Above(v) \subseteq Reached(p, hi)
      <4>1. hi \in Nat
        BY <1>0, <1>9
      <4>2. \A o \in DOMAIN p : p[o] > p[v] => Fine * p[o] >= hi
        BY <1>5, <2>1, <4>1
      <4> QED
        BY <4>2 DEF Reached
    <3>2. Weighs(p, Reached(p, hi))
      BY <1>3, WeighsPart DEF Reached
    <3> HIDE DEF Above
    <3>3. Mass(p, Above(v)) <= Mass(p, Reached(p, hi)) /\ Mass(p, Above(v)) \in Nat
          /\ Mass(p, Reached(p, hi)) \in Nat
      BY <3>1, <3>2, MassMono
    <3> QED
      BY <1>4, <2>3, <3>3
  <2> QED
    BY <1>9, <2>2, <2>3
<1>13. \A v \in DOMAIN p : v \in Reached(p, lo) <=> Mass(p, Above(v)) < topp
  <2>1. \A v \in DOMAIN p : v \in Reached(p, lo) <=> Fine * p[v] >= lo
    BY DEF Reached
  <2> HIDE DEF Above
  <2> QED
    BY <1>11, <1>12, <2>1
<1>14. Reached(p, lo) = Nucleus(p, topp)
  <2>1. Reached(p, lo) \subseteq DOMAIN p
    BY DEF Reached
  <2> QED
    BY <1>13, <2>1 DEF Nucleus
<1> QED
  BY <1>1, <1>14 DEF lo

-----------------------------------------------------------------------------
(* The inputs tried                                                         *)

LEMMA RunKind ==
    ASSUME NEW k, Run(k)
    PROVE  input'.kind = "kernel" /\ input'.kernel = k
  BY DEF Run

LEMMA KernelKind ==
    TryElements \/ TryRows \/ TryGemms \/ TryAttention => input'.kind = "kernel"
<1>1. TryElements => input'.kind = "kernel"
  BY RunKind DEF TryElements, TryVecMap, TryAdamw, TryGlu, TryGluGeluF16, TryRope, TryMrope,
       TryDsv4HcPost, TryIndexedCopy, TryQuantizeInt4, TryTurboquantEncode, TryTurboquantDecode
<1>2. TryRows => input'.kind = "kernel"
  BY RunKind DEF TryRows, TrySoftmax, TryRmsNorm, TryLayerNorm, TryFusedAddRmsNorm,
       TryRmsResidualNext, TryGroupRmsNormGated, TryCrossEntropy, TryActQuantInt8,
       TryNormQuant, TryGluQuant, TryQkNormRope, TryHadamard, TryPoolMean
<1>3. TryGemms => input'.kind = "kernel"
  BY RunKind DEF TryGemms, TryQGemvInt4, TryNvfp4Mtiled, TryNvfp4Gemv, TryMxfp4Gemv,
       TryGgufGemv, TryFp8W8A16, TryFp8Partial, TryFp8Reduce, TryTiledGemm, TryW4A16Gemm,
       TryMqaLogits, TryLoraShrink, TryLoraExpand, TryMoeFused, TryMoeProject, TryMoeOutput
<1>4. TryAttention => input'.kind = "kernel"
  BY RunKind DEF TryAttention, TryDenseAttention, TryAttentionF16Ctx, TryAttnSwa,
       TryMergeAttnStates, TryLinearAttn, TryGdnL2Norm, TryGatedDeltaRule, TryQwenGdnConv,
       TryQwenGdnRecurrent, TryConv1dDecode, TrySsdDecode, TrySsdPrefill, TrySelectiveScan
<1> QED
  BY <1>1, <1>2, <1>3, <1>4

\* The kinds of input whose operations are proved about below.
LEMMA InputKinds ==
    ASSUME Next
    PROVE  /\ input'.kind = "tiles" => \E r \in RowVectors : input'.rows = r
           /\ input'.kind = "shape" =>
                \E p \in 1..MaxPairs, K \in 1..MaxRows : input'.pairs = p /\ input'.K = K
           /\ input'.kind = "logits" => \E r \in LogitRows : input'.row = r
           /\ input'.kind = "platforms" =>
                \E n \in 0..3 : input'.platforms \in [1..n -> Platforms]
<1>1. CASE TryTiles
  BY <1>1 DEF TryTiles
<1>2. CASE TryLogits
  BY <1>2 DEF TryLogits
<1>3. CASE TryShape
  BY <1>3 DEF TryShape
<1>4. CASE TryPlatforms
  BY <1>4 DEF TryPlatforms
<1>5. CASE TryElements \/ TryRows \/ TryGemms \/ TryAttention
  BY <1>5, KernelKind
<1>6. CASE TryFloat \/ TryCodes \/ TryProduct \/ TryBlock \/ TryCall \/ Again
  <2>1. TryFloat => input'.kind = "float"
    BY DEF TryFloat
  <2>2. TryCodes => input'.kind = "codes"
    BY DEF TryCodes
  <2>3. TryProduct => input'.kind = "product"
    BY DEF TryProduct
  <2>4. TryBlock => input'.kind = "block"
    BY DEF TryBlock
  <2>5. TryCall => input'.kind = "call"
    BY DEF TryCall
  <2>6. Again => input'.kind = "none"
    BY DEF Again
  <2> QED
    BY <1>6, <2>1, <2>2, <2>3, <2>4, <2>5, <2>6
<1>7. CASE TryKey
  <2>1. input'.kind = "key"
    BY <1>7 DEF TryKey
  <2> QED
    BY <2>1
<1>8. CASE TryCoordinate
  <2>1. input'.kind = "coordinate"
    BY <1>8 DEF TryCoordinate, MapThenSumSet, MapThenFoldSet
  <2> QED
    BY <2>1
<1> QED
  BY <1>1, <1>2, <1>3, <1>4, <1>5, <1>6, <1>7, <1>8 DEF Next

\* moe_grouped_qgemm's tiles and the rows of the split NVFP4 MoE's output
\* kernel: no row twice, no row left out.
THEOREM RowsOnce == Spec => []EveryRowOnce
<1>1. Init => EveryRowOnce
  BY DEF Init, EveryRowOnce
<1>2. ASSUME EveryRowOnce, [Next]_input
      PROVE  EveryRowOnce'
  <2>1. CASE UNCHANGED input
    BY <1>2, <2>1 DEF EveryRowOnce
  <2>2. CASE Next
    <3>1. ASSUME input'.kind = "tiles"
          PROVE  TilesPartition(input'.rows)
      <4>1. PICK r \in RowVectors : input'.rows = r
        BY <2>2, <3>1, InputKinds
      <4>2. RowCounts(r)
        BY <4>1 DEF RowVectors, RowCounts, ExpertIds
      <4> QED
        BY <4>1, <4>2, TilesPartitionRows
    <3>2. ASSUME input'.kind = "shape"
          PROVE  /\ \A row \in 0..(input'.K - 1) : Cardinality(Computing(row, input'.pairs, input'.K)) = 1
                 /\ RowsPerSubgroup(input'.pairs, input'.K) > 1 =>
                       input'.pairs * RowTiles(input'.pairs, input'.K) >= TargetWGs
      <4>1. input'.pairs \in Nat /\ input'.K \in Nat
        BY <2>2, <3>2, InputKinds DEF MaxPairs, MaxRows
      <4> QED
        BY <4>1, RowComputedOnce, TargetKept
    <3> QED
      BY <3>1, <3>2 DEF EveryRowOnce
  <2> QED
    BY <1>2, <2>1, <2>2
<1> QED
  BY <1>1, <1>2, PTL DEF Spec

LEMMA LogitRowsAre ==
    ASSUME NEW row \in LogitRows
    PROVE  IsRow(row) /\ \A i \in DOMAIN row : row[i] \in NegInf..(NegInf + 2)
<1>0. NegInf \in Nat
  BY SelectionAssumption
<1>1. PICK n \in Nat \ {0} : row \in [0..(n - 1) -> {NegInf, NegInf + 1, NegInf + 2}]
  <2>1. CASE row \in [0..9 -> {NegInf, NegInf + 1}]
    <3>1. 10 - 1 = 9 /\ 10 \in Nat \ {0}
      OBVIOUS
    <3>2. row \in [0..(10 - 1) -> {NegInf, NegInf + 1, NegInf + 2}]
      BY <2>1, <3>1
    <3> QED
      BY <3>1, <3>2
  <2>2. CASE \E n \in 1..7 : row \in [0..(n - 1) -> {NegInf, NegInf + 1, NegInf + 2}]
    <3>1. \A n \in 1..7 : n \in Nat \ {0}
      OBVIOUS
    <3> QED
      BY <2>2, <3>1
  <2>3. row \in [0..9 -> {NegInf, NegInf + 1}]
        \/ \E n \in 1..7 : row \in [0..(n - 1) -> {NegInf, NegInf + 1, NegInf + 2}]
    <3> DEFINE U == UNION {[0..(n - 1) -> {NegInf, NegInf + 1, NegInf + 2}] : n \in 1..7}
    <3>1. row \in U \/ row \in [0..9 -> {NegInf, NegInf + 1}]
      BY Zenon DEF LogitRows
    <3>2. row \in U => \E n \in 1..7 : row \in [0..(n - 1) -> {NegInf, NegInf + 1, NegInf + 2}]
      BY Zenon
    <3> QED
      BY <3>1, <3>2
  <2> QED
    BY <2>1, <2>2, <2>3
<1>2. \A i \in DOMAIN row : row[i] \in NegInf..(NegInf + 2)
  BY <1>0, <1>1
<1>3. row \in [0..(n - 1) -> {x \in Int : x >= NegInf}]
  BY <1>0, <1>1
<1> QED
  BY <1>2, <1>3, RowsAre

\* A choice between platforms, and what argmax and the iterated top-k return.
THEOREM Ranks == Spec => []RanksExact
<1>1. Init => RanksExact
  BY DEF Init, RanksExact
<1>2. ASSUME RanksExact, [Next]_input
      PROVE  RanksExact'
  <2>1. CASE UNCHANGED input
    BY <1>2, <2>1 DEF RanksExact
  <2>2. CASE Next
    <3>1. ASSUME input'.kind = "platforms"
          PROVE  PlatformsRanked(input'.platforms)
      <4>1. PICK n \in 0..3 : input'.platforms \in [1..n -> Platforms]
        BY <2>2, <3>1, InputKinds
      <4>2. PICK ps : ps = input'.platforms
        OBVIOUS
      <4>3. PlatformsRanked(ps)
        BY <4>1, <4>2, PlatformsRight
      <4> QED
        BY <4>2, <4>3
    <3>2. ASSUME input'.kind = "logits"
          PROVE  /\ ArgmaxExact(input'.row)
                 /\ \A k \in 1..Min({3, Vocab(input'.row)}) : PicksExact(input'.row, k)
      <4>1. IsRow(input'.row)
        BY <2>2, <3>2, InputKinds, LogitRowsAre
      <4>2. \A k \in 1..Min({3, Vocab(input'.row)}) : k \in Nat
        OBVIOUS
      <4> QED
        BY <4>1, <4>2, ArgmaxRight, PicksRight
    <3> QED
      BY <3>1, <3>2 DEF RanksExact
  <2> QED
    BY <1>2, <2>1, <2>2
<1> QED
  BY <1>1, <1>2, PTL DEF Spec

\* sample_categorical and top_k_sample invert the CDF.
THEOREM Draws == Spec => []DrawInvertsCdf
<1>1. Init => DrawInvertsCdf
  BY DEF Init, DrawInvertsCdf
<1>2. ASSUME DrawInvertsCdf, [Next]_input
      PROVE  DrawInvertsCdf'
  <2>1. CASE UNCHANGED input
    BY <1>2, <2>1 DEF DrawInvertsCdf
  <2>2. CASE Next
    <3>1. ASSUME input'.kind = "logits"
          PROVE  /\ CategoricalInverts(input'.row)
                 /\ \A k \in 1..Min({2, Vocab(input'.row)}) : TopKInverts(input'.row, k)
      <4>1. IsRow(input'.row)
        BY <2>2, <3>1, InputKinds, LogitRowsAre
      <4>2. \A k \in 1..Min({2, Vocab(input'.row)}) : k \in Nat
        OBVIOUS
      <4> QED
        BY <4>1, <4>2, CategoricalRight, TopKRight
    <3> QED
      BY <3>1 DEF DrawInvertsCdf
  <2> QED
    BY <1>2, <2>1, <2>2
<1> QED
  BY <1>1, <1>2, PTL DEF Spec

\* The renormalisations keep the nucleus and the k largest.
THEOREM Renormalised == Spec => []NucleusExact
<1>1. Init => NucleusExact
  BY DEF Init, NucleusExact
<1>2. ASSUME NucleusExact, [Next]_input
      PROVE  NucleusExact'
  <2>1. CASE UNCHANGED input
    BY <1>2, <2>1 DEF NucleusExact
  <2>2. CASE Next
    <3>1. ASSUME input'.kind = "logits"
          PROVE  LET p == Probs(input'.row) IN
                 /\ \A topp \in 1..Mass(p, DOMAIN p) : TopPKept(p, topp) = Nucleus(p, topp)
                 /\ \A k \in 1..3 : Largest(p, k) \subseteq TopKKept(p, k)
      <4>1. input'.row \in LogitRows
        BY <2>2, <3>1, InputKinds
      <4> DEFINE row == input'.row
                 p == Probs(row)
      <4>2. IsRow(row) /\ \A i \in DOMAIN row : row[i] \in NegInf..(NegInf + 2)
        BY <4>1, LogitRowsAre
      <4>3. IsProbs(p) /\ DOMAIN p = DOMAIN row
        BY <4>2, ProbsAre
      <4>4. \A v \in DOMAIN p : p[v] < Fine
        <5>1. NegInf \in Nat /\ Fine \in Nat /\ 2 < Fine
          BY SelectionAssumption, UnitResolved, PowNat DEF Fine
        <5>2. \A v \in DOMAIN p : p[v] = row[v] - NegInf
          BY <4>3 DEF Probs
        <5> QED
          BY <4>2, <4>3, <5>1, <5>2
      <4> HIDE DEF p
      <4>5. \A topp \in 1..Mass(p, DOMAIN p) : TopPKept(p, topp) = Nucleus(p, topp)
        BY <4>3, <4>4, TopPRight
      <4>6. \A k \in 1..3 : Largest(p, k) \subseteq TopKKept(p, k)
        BY <4>3, TopKKeeps
      <4> QED
        BY <4>5, <4>6 DEF p
    <3> QED
      BY <3>1 DEF NucleusExact
  <2> QED
    BY <1>2, <2>1, <2>2
<1> QED
  BY <1>1, <1>2, PTL DEF Spec

-----------------------------------------------------------------------------
(* The commands of a call.                                                  *)

\* The commands that command j names or follows on its queue.
Direct(plan, inOrder, j) ==
    LET cs == plan.commands
    IN  cs[j].after \cup cs[j].waited
          \cup (IF inOrder THEN {i \in 1..(j - 1) : cs[i].queue = cs[j].queue} ELSE {})

\* A plan of n commands, each of which names earlier ones only.
Backward(plan, n) ==
    /\ n \in Nat /\ Len(plan.commands) = n /\ DOMAIN plan.commands = 1..n
    /\ \A j \in 1..n : plan.commands[j].after \cup plan.commands[j].waited \subseteq 1..(j - 1)

\* t[j] is what D leads to from j on.
IsClosure(t, n, D) == t = [j \in 1..n |-> D[j] \cup UNION {t[i] : i \in D[j]}]

\* Where each position leads to earlier ones only, the recursion has a solution.
LEMMA ClosureExists ==
    ASSUME NEW n \in Nat, NEW D, \A j \in 1..n : D[j] \subseteq 1..(j - 1)
    PROVE  \E t : IsClosure(t, n, D)
<1> DEFINE S == {k \in Nat : k <= n => \E t : IsClosure(t, k, D)}
<1>1. 0 \in S
  <2>1. IsClosure([j \in 1..0 |-> {}], 0, D)
    BY DEF IsClosure
  <2> QED
    BY <2>1
<1>2. ASSUME NEW k \in Nat, k \in S
      PROVE  k + 1 \in S
  <2> SUFFICES ASSUME k + 1 <= n PROVE \E t : IsClosure(t, k + 1, D)
    OBVIOUS
  <2>1. PICK t : IsClosure(t, k, D)
    BY <1>2
  <2> DEFINE last == D[k + 1] \cup UNION {t[i] : i \in D[k + 1]}
             u == [j \in 1..(k + 1) |-> IF j = k + 1 THEN last ELSE t[j]]
  <2>2. ASSUME NEW j \in 1..(k + 1)
        PROVE  \A i \in D[j] : u[i] = t[i]
    <3>1. D[j] \subseteq 1..k
      OBVIOUS
    <3> QED
      BY <3>1
  <2>3. ASSUME NEW j \in 1..(k + 1)
        PROVE  u[j] = D[j] \cup UNION {u[i] : i \in D[j]}
    <3>1. UNION {u[i] : i \in D[j]} = UNION {t[i] : i \in D[j]}
      BY <2>2
    <3>2. CASE j = k + 1
      BY <3>1, <3>2
    <3>3. CASE j # k + 1
      <4>1. j \in 1..k
        BY <3>3
      <4>2. t[j] = D[j] \cup UNION {t[i] : i \in D[j]}
        BY <2>1, <4>1 DEF IsClosure
      <4> QED
        BY <3>1, <3>3, <4>2
    <3> QED
      BY <3>2, <3>3
  <2>4. u = [j \in 1..(k + 1) |-> u[j]]
    OBVIOUS
  <2> HIDE DEF u
  <2>5. IsClosure(u, k + 1, D)
    BY <2>3, <2>4 DEF IsClosure
  <2> QED
    BY <2>5
<1> HIDE DEF S
<1>3. n \in S
  BY <1>1, <1>2, AllNat
<1> QED
  BY <1>3 DEF S

LEMMA PrecedesIs ==
    ASSUME NEW plan, NEW n, NEW inOrder \in BOOLEAN, Backward(plan, n)
    PROVE  /\ \A j \in 1..n : Direct(plan, inOrder, j) \subseteq 1..(j - 1)
           /\ \A j \in 1..n :
                Calls!Precedes(plan, inOrder)[j] =
                  Direct(plan, inOrder, j)
                    \cup UNION {Calls!Precedes(plan, inOrder)[i] : i \in Direct(plan, inOrder, j)}
<1> DEFINE D == [j \in 1..n |-> Direct(plan, inOrder, j)]
           P == Calls!Precedes(plan, inOrder)
<1>1. \A j \in 1..n : Direct(plan, inOrder, j) \subseteq 1..(j - 1)
  BY DEF Direct, Backward
<1>2. P = CHOOSE t : t = [j \in 1..n |-> Direct(plan, inOrder, j)
                                           \cup UNION {t[i] : i \in Direct(plan, inOrder, j)}]
  BY DEF Calls!Precedes, Direct, Backward
<1>3. P = CHOOSE t : IsClosure(t, n, D)
  <2>1. \A t : IsClosure(t, n, D) <=>
                 t = [j \in 1..n |-> Direct(plan, inOrder, j)
                                       \cup UNION {t[i] : i \in Direct(plan, inOrder, j)}]
    BY DEF IsClosure
  <2> QED
    BY <1>2, <2>1
<1>4. \E t : IsClosure(t, n, D)
  BY <1>1, ClosureExists DEF Backward
<1> HIDE DEF P, D
<1>5. IsClosure(P, n, D)
  BY <1>3, <1>4
<1>6. \A j \in 1..n : P[j] = D[j] \cup UNION {P[i] : i \in D[j]}
  BY <1>5 DEF IsClosure
<1> QED
  BY <1>1, <1>6 DEF P, D

LEMMA PrecedesBelow ==
    ASSUME NEW plan, NEW n, NEW inOrder \in BOOLEAN, Backward(plan, n)
    PROVE  \A j \in 1..n : Calls!Precedes(plan, inOrder)[j] \subseteq 1..(j - 1)
<1> DEFINE P == Calls!Precedes(plan, inOrder)
           D(j) == Direct(plan, inOrder, j)
           S == {k \in Nat : \A j \in 1..n : j <= k => P[j] \subseteq 1..(j - 1)}
<1>0. n \in Nat
  BY DEF Backward
<1>1. \A j \in 1..n : D(j) \subseteq 1..(j - 1) /\ P[j] = D(j) \cup UNION {P[i] : i \in D(j)}
  BY PrecedesIs
<1> HIDE DEF P, D
<1>2. 0 \in S
  BY <1>0
<1>3. ASSUME NEW k \in Nat, k \in S
      PROVE  k + 1 \in S
  <2> SUFFICES ASSUME NEW j \in 1..n, j <= k + 1, NEW x \in P[j] PROVE x \in 1..(j - 1)
    BY <1>0
  <2>1. CASE x \in D(j)
    BY <1>1, <2>1
  <2>2. CASE x \notin D(j)
    <3>1. PICK i \in D(j) : x \in P[i]
      BY <1>1, <2>2
    <3>2. i \in 1..n /\ i <= k /\ i < j
      BY <1>0, <1>1
    <3>3. P[i] \subseteq 1..(i - 1)
      BY <1>3, <3>2
    <3> QED
      BY <1>0, <3>1, <3>2, <3>3
  <2> QED
    BY <2>1, <2>2
<1>4. n \in S
  <2> HIDE DEF S
  <2> QED
    BY <1>0, <1>2, <1>3, AllNat
<1> QED
  BY <1>0, <1>4 DEF P

\* What a command names or follows on its queue precedes it.
LEMMA DirectPrecedes ==
    ASSUME NEW plan, NEW n, NEW inOrder \in BOOLEAN, Backward(plan, n), NEW j \in 1..n
    PROVE  Direct(plan, inOrder, j) \subseteq Calls!Precedes(plan, inOrder)[j]
<1> DEFINE P == Calls!Precedes(plan, inOrder)
           D == Direct(plan, inOrder, j)
<1>1. P[j] = D \cup UNION {P[i] : i \in D}
  BY PrecedesIs
<1> HIDE DEF P, D
<1> QED
  BY <1>1 DEF P, D

\* ... and nothing else does, but what precedes those.
LEMMA PrecedesThrough ==
    ASSUME NEW plan, NEW n, NEW inOrder \in BOOLEAN, Backward(plan, n), NEW j \in 1..n
    PROVE  \A x \in Calls!Precedes(plan, inOrder)[j] :
             x \in Direct(plan, inOrder, j)
               \/ \E i \in Direct(plan, inOrder, j) : x \in Calls!Precedes(plan, inOrder)[i]
<1> DEFINE P == Calls!Precedes(plan, inOrder)
           D == Direct(plan, inOrder, j)
<1>1. P[j] = D \cup UNION {P[i] : i \in D}
  BY PrecedesIs
<1> HIDE DEF P, D
<1> QED
  BY <1>1 DEF P, D

\* What a command names precedes it, and what precedes that.
LEMMA PrecedesSteps ==
    ASSUME NEW plan, NEW n, NEW inOrder \in BOOLEAN, Backward(plan, n), NEW j \in 1..n
    PROVE  /\ plan.commands[j].after \cup plan.commands[j].waited \subseteq Calls!Precedes(plan, inOrder)[j]
           /\ \A i \in plan.commands[j].after \cup plan.commands[j].waited :
                Calls!Precedes(plan, inOrder)[i] \subseteq Calls!Precedes(plan, inOrder)[j]
<1> DEFINE P == Calls!Precedes(plan, inOrder)
           D == Direct(plan, inOrder, j)
<1>1. P[j] = D \cup UNION {P[i] : i \in D}
  BY PrecedesIs
<1>2. plan.commands[j].after \cup plan.commands[j].waited \subseteq D
  BY DEF Direct
<1> HIDE DEF P, D
<1> QED
  BY <1>1, <1>2 DEF P

\* A blocking call is over when its last command is, if the others precede it.
LEMMA OverAll ==
    ASSUME NEW plan, NEW n, NEW inOrder \in BOOLEAN, Backward(plan, n), n > 0, plan.last \subseteq 1..n,
           1..(n - 1) \subseteq Calls!Precedes(plan, inOrder)[n]
    PROVE  Calls!Over(plan, inOrder, TRUE) = DOMAIN plan.commands
<1> DEFINE P == Calls!Precedes(plan, inOrder)
           w == plan.last \cup (UNION {plan.commands[j].waited : j \in 1..n}) \cup {n}
<1>1. n \in Nat /\ n \in 1..n
  BY DEF Backward
<1>2. \A j \in 1..n : P[j] \subseteq 1..(j - 1)
  BY PrecedesBelow
<1>0. Len(plan.commands) = n /\ (IF TRUE /\ n > 0 THEN {n} ELSE {}) = {n}
  BY DEF Backward
<1>3. w \subseteq 1..n /\ n \in w
  <2>1. ASSUME NEW j \in 1..n
        PROVE  plan.commands[j].waited \subseteq 1..n
    <3>1. plan.commands[j].waited \subseteq 1..(j - 1)
      BY DEF Backward
    <3> QED
      BY <1>1, <3>1
  <2>2. ASSUME NEW x \in w
        PROVE  x \in 1..n
    <3>1. CASE x \in plan.last
      BY <3>1
    <3>2. CASE \E j \in 1..n : x \in plan.commands[j].waited
      BY <2>1, <3>2
    <3>3. CASE x = n
      BY <1>1, <3>3
    <3>4. CASE x \in UNION {plan.commands[j].waited : j \in 1..n}
      <4>1. PICK y \in {plan.commands[j].waited : j \in 1..n} : x \in y
        BY <3>4
      <4>2. PICK j \in 1..n : y = plan.commands[j].waited
        OBVIOUS
      <4> QED
        BY <3>2, <4>1, <4>2
    <3>5. x \in plan.last \/ x \in UNION {plan.commands[j].waited : j \in 1..n} \/ x = n
      OBVIOUS
    <3> QED
      BY <3>1, <3>3, <3>4, <3>5
  <2>3. n \in w
    OBVIOUS
  <2>4. w \subseteq 1..n
    <3> HIDE DEF w
    <3> QED
      BY <2>2
  <2> QED
    BY <2>3, <2>4
<1>4. Calls!Over(plan, inOrder, TRUE) = w \cup UNION {P[j] : j \in w}
  BY <1>0 DEF Calls!Over
<1>5. DOMAIN plan.commands = 1..n
  BY DEF Backward
<1>6. 1..(n - 1) \subseteq P[n]
  OBVIOUS
<1> HIDE DEF P, w
<1>7. ASSUME NEW x \in 1..n
      PROVE  x \in w \cup UNION {P[j] : j \in w}
  <2>1. x = n \/ x \in 1..(n - 1)
    BY <1>1
  <2> QED
    BY <1>3, <1>6, <2>1
<1>8. ASSUME NEW j \in w, NEW x \in P[j]
      PROVE  x \in 1..n
  BY <1>1, <1>2, <1>3
<1> QED
  BY <1>3, <1>4, <1>5, <1>7, <1>8

\* A plan without the ranks of an all-reduce waits for none.
NoRanks(plan) == \A j \in DOMAIN plan.commands : ~plan.commands[j].meets

\* Every command that touches what an earlier one does names it, or names one
\* that does.
Named(plan, i, j) ==
    LET named(k) == plan.commands[k].after \cup plan.commands[k].waited
    IN  i \in named(j) \/ \E k \in named(j) : i \in named(k)

LEMMA NamedBefore ==
    ASSUME NEW plan, NEW n, NEW inOrder \in BOOLEAN, Backward(plan, n), NEW i, NEW j \in 1..n,
           Named(plan, i, j)
    PROVE  i \in Calls!Precedes(plan, inOrder)[j]
<1> DEFINE P == Calls!Precedes(plan, inOrder)
           named(k) == plan.commands[k].after \cup plan.commands[k].waited
<1>1. \A k \in 1..n : named(k) \subseteq P[k] /\ \A l \in named(k) : P[l] \subseteq P[k]
  BY PrecedesSteps
<1>2. n \in Nat /\ \A k \in 1..n : named(k) \subseteq 1..n
  <2>1. n \in Nat /\ \A k \in 1..n : named(k) \subseteq 1..(k - 1)
    BY DEF Backward
  <2> HIDE DEF named
  <2> QED
    BY <2>1
<1>3. i \in named(j) \/ \E k \in named(j) : i \in named(k)
  BY DEF Named
<1> HIDE DEF named, P
<1> QED
  BY <1>1, <1>2, <1>3 DEF P

Conflict(c, d) == c.wr \cap (d.rd \cup d.wr) # {} \/ c.rd \cap d.wr # {}

LEMMA OrderedByName ==
    ASSUME NEW plan, NEW n, Backward(plan, n),
           \A i, j \in 1..n : i < j /\ Conflict(plan.commands[i], plan.commands[j]) => Named(plan, i, j)
    PROVE  Ordered(plan)
<1>1. SUFFICES ASSUME NEW inOrder \in BOOLEAN, NEW i \in 1..n, NEW j \in 1..n, i < j,
                      Conflict(plan.commands[i], plan.commands[j])
               PROVE  i \in Calls!Precedes(plan, inOrder)[j]
  BY DEF Ordered, Before, Conflict, Backward
<1> QED
  BY <1>1, NamedBefore

\* A plan each of whose commands names the one before it.
Chained(plan, n) ==
    /\ Backward(plan, n) /\ n > 0
    /\ \A j \in 2..n : j - 1 \in plan.commands[j].after \cup plan.commands[j].waited

LEMMA ChainedPrecedes ==
    ASSUME NEW plan, NEW n, NEW inOrder \in BOOLEAN, Chained(plan, n)
    PROVE  \A j \in 1..n : Calls!Precedes(plan, inOrder)[j] = 1..(j - 1)
<1> DEFINE P == Calls!Precedes(plan, inOrder)
           named(j) == plan.commands[j].after \cup plan.commands[j].waited
           S == {k \in Nat : \A j \in 1..n : j <= k => 1..(j - 1) \subseteq P[j]}
<1>0. Backward(plan, n) /\ n \in Nat
  BY DEF Chained, Backward
<1>1. \A j \in 1..n : named(j) \subseteq P[j] /\ \A i \in named(j) : P[i] \subseteq P[j]
  BY <1>0, PrecedesSteps
<1>2. \A j \in 1..n : P[j] \subseteq 1..(j - 1)
  BY <1>0, PrecedesBelow
<1>3. \A j \in 2..n : j - 1 \in named(j)
  BY DEF Chained
<1> HIDE DEF P, named
<1>4. 0 \in S
  BY <1>0
<1>5. ASSUME NEW k \in Nat, k \in S
      PROVE  k + 1 \in S
  <2> SUFFICES ASSUME NEW j \in 1..n, j <= k + 1, NEW x \in 1..(j - 1) PROVE x \in P[j]
    BY <1>0
  <2>1. j \in 2..n /\ j - 1 \in 1..n /\ j - 1 <= k
    BY <1>0
  <2>2. j - 1 \in P[j] /\ P[j - 1] \subseteq P[j]
    BY <1>1, <1>3, <2>1
  <2>3. x = j - 1 \/ x \in 1..((j - 1) - 1)
    BY <1>0
  <2>4. 1..((j - 1) - 1) \subseteq P[j - 1]
    BY <1>5, <2>1
  <2> QED
    BY <2>2, <2>3, <2>4
<1> HIDE DEF S
<1>6. n \in S
  BY <1>0, <1>4, <1>5, AllNat
<1>7. \A j \in 1..n : 1..(j - 1) \subseteq P[j]
  BY <1>0, <1>6 DEF S
<1> QED
  BY <1>2, <1>7 DEF P

LEMMA ChainedOrdered ==
    ASSUME NEW plan, NEW n, Chained(plan, n)
    PROVE  Ordered(plan)
<1>0. n \in Nat /\ DOMAIN plan.commands = 1..n
  BY DEF Chained, Backward
<1>1. ASSUME NEW inOrder \in BOOLEAN, NEW i \in 1..n, NEW j \in 1..n, i < j
      PROVE  Before(plan, inOrder, i, j)
  <2>1. Calls!Precedes(plan, inOrder)[j] = 1..(j - 1)
    BY ChainedPrecedes
  <2>2. i \in 1..(j - 1)
    BY <1>0, <1>1
  <2> QED
    BY <2>1, <2>2 DEF Before
<1> QED
  BY <1>0, <1>1 DEF Ordered

\* No command waits for a rank before all of its peers are submitted.
RanksMeet(plan) ==
    \A inOrder \in BOOLEAN : \A j, p \in DOMAIN plan.commands :
       /\ \E k \in Calls!Precedes(plan, inOrder)[j] : plan.commands[k].meets
       /\ plan.commands[p].meets
       => p < j

LEMMA LastMeets ==
    ASSUME NEW plan, NEW n, Backward(plan, n), \A k \in 1..(n - 1) : ~plan.commands[k].meets
    PROVE  RanksMeet(plan)
<1>0. n \in Nat /\ DOMAIN plan.commands = 1..n
  BY DEF Backward
<1>1. ASSUME NEW inOrder \in BOOLEAN, NEW j \in 1..n, NEW k \in Calls!Precedes(plan, inOrder)[j]
      PROVE  ~plan.commands[k].meets
  <2>1. k \in 1..(j - 1)
    BY PrecedesBelow
  <2>2. k \in 1..(n - 1)
    BY <1>0, <2>1
  <2> QED
    BY <2>2
<1> QED
  BY <1>0, <1>1 DEF RanksMeet

\* What a plan owes that does not throw.
Fulfils(plan, outs, orders) ==
    /\ ~plan.throws /\ Ordered(plan) /\ RanksMeet(plan)
    /\ outs \subseteq UNION {plan.commands[j].wr : j \in DOMAIN plan.commands}
    /\ \A inOrder \in orders : Calls!Over(plan, inOrder, TRUE) = DOMAIN plan.commands

LEMMA ChainFulfils ==
    ASSUME NEW plan, NEW n, NEW out, Chained(plan, n), plan.last \subseteq 1..n, ~plan.throws,
           \A k \in 1..(n - 1) : ~plan.commands[k].meets,
           \E j \in 1..n : out \in plan.commands[j].wr
    PROVE  Fulfils(plan, {out}, BOOLEAN)
<1>1. Backward(plan, n) /\ n \in Nat /\ n > 0 /\ DOMAIN plan.commands = 1..n
  BY DEF Chained, Backward
<1>2. Ordered(plan) /\ RanksMeet(plan)
  BY <1>1, ChainedOrdered, LastMeets
<1>3. ASSUME NEW inOrder \in BOOLEAN
      PROVE  Calls!Over(plan, inOrder, TRUE) = DOMAIN plan.commands
  <2>1. Calls!Precedes(plan, inOrder)[n] = 1..(n - 1)
    BY <1>1, ChainedPrecedes
  <2> QED
    BY <1>1, <2>1, OverAll
<1>4. {out} \subseteq UNION {plan.commands[j].wr : j \in DOMAIN plan.commands}
  BY <1>1
<1> QED
  BY <1>2, <1>3, <1>4 DEF Fulfils

LEMMA SingleChain ==
    /\ Chained(Calls!Single, 1) /\ ~Calls!Single.throws /\ Calls!Single.last = {}
    /\ <<"out", 0>> \in Calls!Single.commands[1].wr
    /\ ~Calls!Single.allocates /\ Calls!Single.commands[1].waited = {}
BY DEF Chained, Backward, Calls!Single, Calls!Plan, Calls!Command, Calls!OnBuffers, Calls!Numbered

\* The two commands of a chain.
LEMMA ChainIs ==
    ASSUME NEW rd1, NEW wr1, NEW rd2, NEW wr2, NEW out,
           <<out, 0>> \in Calls!Numbered(wr1, 0) \cup Calls!Numbered(wr2, 0)
    PROVE  LET plan == Calls!Chain(Calls!Command(rd1, wr1, {}), Calls!Command(rd2, wr2, {}))
           IN  /\ Chained(plan, 2) /\ ~plan.throws /\ plan.last = {} /\ ~plan.allocates
               /\ \A k \in 1..2 : ~plan.commands[k].meets /\ plan.commands[k].waited = {}
               /\ \E j \in 1..2 : <<out, 0>> \in plan.commands[j].wr
<1> DEFINE plan == Calls!Chain(Calls!Command(rd1, wr1, {}), Calls!Command(rd2, wr2, {}))
           first == Calls!Command(rd1, wr1, {})
           second == [Calls!Command(rd2, wr2, {}) EXCEPT !.after = {1}]
<1>1. /\ plan.commands = <<first, second>>
      /\ plan.last = {} /\ plan.allocates = FALSE /\ plan.throws = FALSE
  BY DEF Calls!Chain, Calls!Plan
<1>2. /\ first.wr = Calls!Numbered(wr1, 0) /\ first.after = {} /\ first.waited = {} /\ first.meets = FALSE
      /\ second.wr = Calls!Numbered(wr2, 0) /\ second.after = {1} /\ second.waited = {} /\ second.meets = FALSE
  BY DEF Calls!Command, Calls!OnBuffers
<1> HIDE DEF plan, first, second
<1>3. /\ Len(plan.commands) = 2 /\ DOMAIN plan.commands = 1..2
      /\ plan.commands[1] = first /\ plan.commands[2] = second
  BY <1>1
<1>4. Chained(plan, 2)
  BY <1>2, <1>3 DEF Chained, Backward
<1>5. \A k \in 1..2 : ~plan.commands[k].meets /\ plan.commands[k].waited = {}
  BY <1>2, <1>3
<1>6. \E j \in 1..2 : <<out, 0>> \in plan.commands[j].wr
  BY <1>2, <1>3
<1> QED
  BY <1>1, <1>4, <1>5, <1>6 DEF plan

LEMMA ScaledProductIs ==
    /\ Chained(Calls!ScaledProduct, 2) /\ ~Calls!ScaledProduct.throws /\ Calls!ScaledProduct.last \subseteq 1..2
    /\ \A k \in 1..2 : ~Calls!ScaledProduct.commands[k].meets
    /\ <<"out", 0>> \in Calls!ScaledProduct.commands[2].wr
<1> DEFINE plan == Calls!ScaledProduct
           first == Calls!Command({"in"}, {"out"}, {})
           second == Calls!Waited(Calls!Command({"out", "scale"}, {"out"}, {}), {1})
<1>1. /\ plan.commands = <<first, second>>
      /\ plan.last = {2} /\ plan.throws = FALSE
  BY DEF Calls!ScaledProduct, Calls!Plan
<1>2. /\ first.after = {} /\ first.waited = {} /\ first.meets = FALSE
      /\ second.wr = {<<"out", 0>>} /\ second.after = {} /\ second.waited = {1} /\ second.meets = FALSE
  BY DEF Calls!Command, Calls!OnBuffers, Calls!Waited, Calls!Numbered
<1> HIDE DEF plan, first, second
<1>3. /\ Len(plan.commands) = 2 /\ DOMAIN plan.commands = 1..2
      /\ plan.commands[1] = first /\ plan.commands[2] = second
  BY <1>1
<1>4. Chained(plan, 2)
  BY <1>2, <1>3 DEF Chained, Backward
<1> QED
  BY <1>1, <1>2, <1>3, <1>4 DEF plan

LEMMA GroupedQSwigluIs ==
    /\ Chained(Calls!GroupedQSwiglu, 2) /\ ~Calls!GroupedQSwiglu.throws /\ Calls!GroupedQSwiglu.last = {}
    /\ \A k \in 1..2 : ~Calls!GroupedQSwiglu.commands[k].meets
    /\ <<"out", 0>> \in Calls!GroupedQSwiglu.commands[2].wr
<1> DEFINE plan == Calls!GroupedQSwiglu
           first == Calls!Command({"in"}, {"scratch"}, {})
           second == Calls!Waited(Calls!Command({"scratch"}, {"out"}, {}), {1})
<1>1. /\ plan.commands = <<first, second>>
      /\ plan.last = {} /\ plan.throws = FALSE
  BY DEF Calls!GroupedQSwiglu, Calls!Plan
<1>2. /\ first.after = {} /\ first.waited = {} /\ first.meets = FALSE
      /\ second.wr = {<<"out", 0>>} /\ second.after = {} /\ second.waited = {1} /\ second.meets = FALSE
  BY DEF Calls!Command, Calls!OnBuffers, Calls!Waited, Calls!Numbered
<1> HIDE DEF plan, first, second
<1>3. /\ Len(plan.commands) = 2 /\ DOMAIN plan.commands = 1..2
      /\ plan.commands[1] = first /\ plan.commands[2] = second
  BY <1>1
<1>4. Chained(plan, 2)
  BY <1>2, <1>3 DEF Chained, Backward
<1> QED
  BY <1>1, <1>2, <1>3, <1>4 DEF plan

LEMMA Fp8GemvIs ==
    /\ Chained(Calls!Fp8Gemv, 3) /\ ~Calls!Fp8Gemv.throws /\ Calls!Fp8Gemv.last = {}
    /\ \A k \in 1..3 : ~Calls!Fp8Gemv.commands[k].meets
    /\ <<"out", 0>> \in Calls!Fp8Gemv.commands[2].wr
<1> DEFINE plan == Calls!Fp8Gemv
           first == Calls!Command({"in"}, {"scratch"}, {})
           second == Calls!Command({"scratch"}, {"out"}, {1})
           third == Calls!Command({}, {"scratch"}, {2})
<1>1. /\ plan.commands = <<first, second, third>>
      /\ plan.last = {} /\ plan.throws = FALSE
  BY DEF Calls!Fp8Gemv, Calls!Plan
<1>2. /\ first.after = {} /\ first.waited = {} /\ first.meets = FALSE
      /\ second.wr = {<<"out", 0>>} /\ second.after = {1} /\ second.waited = {} /\ second.meets = FALSE
      /\ third.after = {2} /\ third.waited = {} /\ third.meets = FALSE
  BY DEF Calls!Command, Calls!OnBuffers, Calls!Numbered
<1> HIDE DEF plan, first, second, third
<1>3. /\ Len(plan.commands) = 3 /\ DOMAIN plan.commands = 1..3
      /\ plan.commands[1] = first /\ plan.commands[2] = second /\ plan.commands[3] = third
  BY <1>1
<1>4. Chained(plan, 3)
  BY <1>2, <1>3 DEF Chained, Backward
<1> QED
  BY <1>1, <1>2, <1>3, <1>4 DEF plan

LEMMA PermuteIs ==
    /\ Chained(Calls!Permute, 4) /\ ~Calls!Permute.throws /\ Calls!Permute.last = {}
    /\ \A k \in 1..4 : ~Calls!Permute.commands[k].meets
    /\ <<"out", 0>> \in Calls!Permute.commands[4].wr
<1> DEFINE plan == Calls!Permute
           first == Calls!Command({}, {"rows_per_expert"}, {})
           second == Calls!Command({"in", "rows_per_expert"}, {"rows_per_expert"}, {1})
           third == Calls!Command({"rows_per_expert"}, {"cursors"}, {2})
           fourth == Calls!Command({"in", "cursors"}, {"cursors", "out"}, {3})
<1>1. /\ plan.commands = <<first, second, third, fourth>>
      /\ plan.last = {} /\ plan.throws = FALSE
  BY DEF Calls!Permute, Calls!Plan
<1>2. /\ first.after = {} /\ first.waited = {} /\ first.meets = FALSE
      /\ second.after = {1} /\ second.waited = {} /\ second.meets = FALSE
      /\ third.after = {2} /\ third.waited = {} /\ third.meets = FALSE
      /\ <<"out", 0>> \in fourth.wr /\ fourth.after = {3} /\ fourth.waited = {} /\ fourth.meets = FALSE
  BY DEF Calls!Command, Calls!OnBuffers, Calls!Numbered
<1> HIDE DEF plan, first, second, third, fourth
<1>3. /\ Len(plan.commands) = 4 /\ DOMAIN plan.commands = 1..4
      /\ plan.commands[1] = first /\ plan.commands[2] = second /\ plan.commands[3] = third
      /\ plan.commands[4] = fourth
  BY <1>1
<1>4. Chained(plan, 4)
  BY <1>2, <1>3 DEF Chained, Backward
<1> QED
  BY <1>1, <1>2, <1>3, <1>4 DEF plan

LEMMA GgufIs ==
    ASSUME NEW c, c.cold \in BOOLEAN
    PROVE  \E n \in 1..2 :
             LET plan == Calls!gguf_gemv(c)
             IN  /\ Chained(plan, n) /\ ~plan.throws /\ plan.last = {}
                 /\ \A k \in 1..n : ~plan.commands[k].meets
                 /\ <<"out", 0>> \in plan.commands[n].wr
<1> DEFINE plan == Calls!gguf_gemv(c)
<1>1. CASE c.cold
  <2> DEFINE first == Calls!Command({}, {"table"}, {})
             second == Calls!Waited(Calls!Command({"in", "table"}, {"out"}, {}), {1})
  <2>1. /\ plan.commands = <<first, second>>
        /\ plan.last = {} /\ plan.throws = FALSE
    BY <1>1 DEF Calls!gguf_gemv, Calls!Plan
  <2>2. /\ first.after = {} /\ first.waited = {} /\ first.meets = FALSE
        /\ second.wr = {<<"out", 0>>} /\ second.after = {} /\ second.waited = {1} /\ second.meets = FALSE
    BY DEF Calls!Command, Calls!OnBuffers, Calls!Waited, Calls!Numbered
  <2> HIDE DEF plan, first, second
  <2>3. /\ Len(plan.commands) = 2 /\ DOMAIN plan.commands = 1..2
        /\ plan.commands[1] = first /\ plan.commands[2] = second
    BY <2>1
  <2>4. Chained(plan, 2)
    BY <2>2, <2>3 DEF Chained, Backward
  <2>5. \A k \in 1..2 : ~plan.commands[k].meets
    BY <2>2, <2>3
  <2> QED
    BY <2>1, <2>2, <2>3, <2>4, <2>5 DEF plan
<1>2. CASE ~c.cold
  <2> DEFINE first == Calls!Command({"in", "table"}, {"out"}, {})
  <2>1. /\ plan.commands = <<first>>
        /\ plan.last = {} /\ plan.throws = FALSE
    BY <1>2 DEF Calls!gguf_gemv, Calls!Plan
  <2>2. first.wr = {<<"out", 0>>} /\ first.after = {} /\ first.waited = {} /\ first.meets = FALSE
    BY DEF Calls!Command, Calls!OnBuffers, Calls!Waited, Calls!Numbered
  <2> HIDE DEF plan, first
  <2>3. /\ Len(plan.commands) = 1 /\ DOMAIN plan.commands = 1..1 /\ plan.commands[1] = first
    BY <2>1
  <2>4. Chained(plan, 1)
    BY <2>2, <2>3 DEF Chained, Backward
  <2> QED
    BY <2>1, <2>2, <2>3, <2>4 DEF plan
<1> QED
  BY <1>1, <1>2

\* What a rank reads once it has met its peers, and its two commands.
Regions(world) == {<<"region", s>> : s \in 1..world}

IsRank(cs, r, world, first) ==
    /\ Len(cs) = 2 /\ DOMAIN cs = 1..2
    /\ cs[1].rd = {<<"in", r>>} /\ cs[1].wr = {<<"region", r>>} /\ cs[1].after = {}
    /\ cs[1].waited = {} /\ cs[1].meets = FALSE /\ cs[1].queue = r
    /\ cs[2].rd = Regions(world) /\ cs[2].wr = {<<"out", r>>, <<"region", r>>} /\ cs[2].after = {first}
    /\ cs[2].waited = {} /\ cs[2].meets = TRUE /\ cs[2].queue = r
    /\ "waited" \in DOMAIN cs[1] /\ "waited" \in DOMAIN cs[2]

LEMMA RankIs ==
    ASSUME NEW r, NEW world, NEW first
    PROVE  IsRank(Calls!Rank(r, world, first), r, world, first)
<1> DEFINE regions == {<<"region", s>> : s \in 1..world}
           staging == [Calls!OnBuffers({<<"in", r>>}, {<<"region", r>>}, {}) EXCEPT !.queue = r]
           meeting == [Calls!OnBuffers(regions, {<<"out", r>>, <<"region", r>>}, {first})
                         EXCEPT !.queue = r, !.meets = TRUE]
<1>1. Calls!Rank(r, world, first) = <<staging, meeting>>
  BY DEF Calls!Rank
<1> HIDE DEF regions
<1>2. /\ staging.rd = {<<"in", r>>} /\ staging.wr = {<<"region", r>>} /\ staging.after = {}
      /\ staging.waited = {} /\ staging.meets = FALSE /\ staging.queue = r /\ "waited" \in DOMAIN staging
  BY DEF Calls!OnBuffers
<1>3. /\ meeting.rd = regions /\ meeting.wr = {<<"out", r>>, <<"region", r>>} /\ meeting.after = {first}
      /\ meeting.waited = {} /\ meeting.meets = TRUE /\ meeting.queue = r /\ "waited" \in DOMAIN meeting
  BY DEF Calls!OnBuffers
<1> HIDE DEF staging, meeting
<1>4. /\ Len(<<staging, meeting>>) = 2 /\ DOMAIN <<staging, meeting>> = 1..2
      /\ <<staging, meeting>>[1] = staging /\ <<staging, meeting>>[2] = meeting
  OBVIOUS
<1> QED
  BY <1>1, <1>2, <1>3, <1>4 DEF regions, Regions, IsRank

LEMMA AllReduceIs ==
    /\ Chained(Calls!all_reduce, 2) /\ ~Calls!all_reduce.throws /\ Calls!all_reduce.last = {}
    /\ ~Calls!all_reduce.allocates
    /\ ~Calls!all_reduce.commands[1].meets /\ \A k \in 1..2 : Calls!all_reduce.commands[k].waited = {}
    /\ <<"out", 1>> \in Calls!all_reduce.commands[2].wr
<1> DEFINE plan == Calls!all_reduce
           cs == Calls!Rank(1, 2, 1)
<1>1. plan.commands = cs /\ plan.last = {} /\ plan.throws = FALSE /\ plan.allocates = FALSE
  BY DEF Calls!all_reduce, Calls!Plan
<1>2. /\ Len(cs) = 2 /\ DOMAIN cs = 1..2
      /\ cs[1].after = {} /\ cs[1].waited = {} /\ cs[1].meets = FALSE
      /\ cs[2].after = {1} /\ cs[2].waited = {} /\ <<"out", 1>> \in cs[2].wr
  <2>1. IsRank(cs, 1, 2, 1)
    BY RankIs
  <2> HIDE DEF cs
  <2> QED
    BY <2>1 DEF IsRank
<1> HIDE DEF plan, cs
<1>3. Chained(plan, 2)
  BY <1>1, <1>2 DEF Chained, Backward
<1> QED
  BY <1>1, <1>2, <1>3 DEF plan

\* The zeros and the first projections in any order, then the output.
LEMMA MoeSplitIs ==
    /\ Backward(Calls!MoeSplit, 3) /\ Calls!MoeSplit.last = {} /\ ~Calls!MoeSplit.allocates
    /\ \A k \in 1..3 : Calls!MoeSplit.commands[k].waited = {}
    /\ Fulfils(Calls!MoeSplit, {<<"out", 0>>}, BOOLEAN)
<1> DEFINE plan == Calls!MoeSplit
           first == Calls!Command({}, {"out"}, {})
           second == Calls!Command({"in"}, {"scratch"}, {})
           third == Calls!Command({"scratch", "out"}, {"out"}, {1, 2})
<1>1. /\ plan.commands = <<first, second, third>>
      /\ plan.last = {} /\ plan.throws = FALSE /\ plan.allocates = FALSE
  BY DEF Calls!MoeSplit, Calls!Plan
<1>2. /\ first.after = {} /\ first.waited = {} /\ first.meets = FALSE
      /\ first.rd = {} /\ first.wr = {<<"out", 0>>}
      /\ second.rd = {<<"in", 0>>} /\ second.wr = {<<"scratch", 0>>}
      /\ second.after = {} /\ second.waited = {} /\ second.meets = FALSE
      /\ third.after = {1, 2} /\ third.waited = {} /\ third.meets = FALSE
  BY DEF Calls!Command, Calls!OnBuffers, Calls!Numbered
<1> HIDE DEF plan, first, second, third
<1>3. /\ Len(plan.commands) = 3 /\ DOMAIN plan.commands = 1..3
      /\ plan.commands[1] = first /\ plan.commands[2] = second /\ plan.commands[3] = third
  BY <1>1
<1>4. Backward(plan, 3)
  BY <1>2, <1>3 DEF Backward
<1>5. \A i, j \in 1..3 : i < j /\ Conflict(plan.commands[i], plan.commands[j]) => Named(plan, i, j)
  <2>1. \A i, j \in 1..3 : i < j => (i = 1 /\ j = 2) \/ (i \in 1..2 /\ j = 3)
    OBVIOUS
  <2>2. ~Conflict(plan.commands[1], plan.commands[2])
    BY <1>2, <1>3 DEF Conflict
  <2>3. \A i \in 1..2 : Named(plan, i, 3)
    BY <1>2, <1>3 DEF Named
  <2> QED
    BY <2>1, <2>2, <2>3
<1>6. Ordered(plan)
  BY <1>4, <1>5, OrderedByName
<1>7. RanksMeet(plan)
  BY <1>2, <1>3, <1>4, LastMeets
<1>8. ASSUME NEW inOrder \in BOOLEAN
      PROVE  Calls!Over(plan, inOrder, TRUE) = DOMAIN plan.commands
  <2>1. {1, 2} \subseteq Calls!Precedes(plan, inOrder)[3]
    BY <1>2, <1>3, <1>4, PrecedesSteps
  <2>2. 1..(3 - 1) \subseteq Calls!Precedes(plan, inOrder)[3] /\ plan.last \subseteq 1..3
    BY <1>1, <2>1
  <2>3. PICK n : n = 3 /\ n > 0
    OBVIOUS
  <2> QED
    BY <1>4, <2>2, <2>3, OverAll
<1>9. {<<"out", 0>>} \subseteq UNION {plan.commands[j].wr : j \in DOMAIN plan.commands}
  BY <1>2, <1>3
<1>10. Fulfils(plan, {<<"out", 0>>}, BOOLEAN)
  BY <1>1, <1>6, <1>7, <1>8, <1>9 DEF Fulfils
<1>11. \A k \in 1..3 : plan.commands[k].waited = {}
  BY <1>2, <1>3
<1> QED
  BY <1>1, <1>4, <1>10, <1>11 DEF plan

RowOutputs(M) == {<<"out", m>> : m \in 1..M}

LEMMA LaunchesAre ==
    ASSUME NEW c, c.M \in Nat \ {0}
    PROVE  Fulfils(Calls!nvfp4_gemm(c), RowOutputs(c.M), {TRUE})
<1>a. PICK M \in Nat \ {0} : c.M = M
  OBVIOUS
<1>b. PICK plan : plan = Calls!nvfp4_gemm(c)
  OBVIOUS
<1> DEFINE launch(m) == Calls!OnBuffers(Calls!Numbered({"in"}, 0), {<<"out", m>>}, {})
<1>1. /\ plan.commands = [m \in 1..M |-> launch(m)]
      /\ plan.last = {} /\ plan.throws = FALSE
  BY <1>a, <1>b DEF Calls!nvfp4_gemm, Calls!Plan
<1>2. Len(plan.commands) = M /\ DOMAIN plan.commands = 1..M /\ \A m \in 1..M : plan.commands[m] = launch(m)
  BY <1>1
<1>3. \A m \in 1..M : /\ launch(m).rd = {<<"in", 0>>} /\ launch(m).wr = {<<"out", m>>} /\ launch(m).after = {}
                      /\ launch(m).waited = {} /\ launch(m).meets = FALSE /\ launch(m).queue = 1
  BY DEF Calls!OnBuffers, Calls!Numbered
<1> HIDE DEF launch
<1>4. \A m \in 1..M : /\ plan.commands[m].rd = {<<"in", 0>>} /\ plan.commands[m].wr = {<<"out", m>>}
                      /\ plan.commands[m].after = {} /\ plan.commands[m].waited = {}
                      /\ plan.commands[m].meets = FALSE /\ plan.commands[m].queue = 1
  BY <1>2, <1>3
<1>5. Backward(plan, M)
  BY <1>2, <1>4 DEF Backward
<1>6. Ordered(plan)
  <2>1. \A i, j \in 1..M : i < j => ~Conflict(plan.commands[i], plan.commands[j])
    BY <1>4 DEF Conflict
  <2> QED
    BY <1>5, <2>1, OrderedByName
<1>7. RanksMeet(plan)
  BY <1>4, <1>5, LastMeets
<1>8. Calls!Over(plan, TRUE, TRUE) = DOMAIN plan.commands
  <2>0. PICK inOrder \in BOOLEAN : inOrder = TRUE
    OBVIOUS
  <2>1. Direct(plan, inOrder, M) \subseteq Calls!Precedes(plan, inOrder)[M]
    BY <1>5, DirectPrecedes
  <2>2. 1..(M - 1) \subseteq Direct(plan, inOrder, M)
    BY <1>4, <2>0 DEF Direct
  <2>3. M > 0 /\ plan.last \subseteq 1..M
    BY <1>1
  <2>4. Calls!Over(plan, inOrder, TRUE) = DOMAIN plan.commands
    BY <1>5, <2>1, <2>2, <2>3, OverAll
  <2> QED
    BY <2>0, <2>4
<1>9. RowOutputs(M) \subseteq UNION {plan.commands[j].wr : j \in DOMAIN plan.commands}
  <2>1. \A m \in 1..M : <<"out", m>> \in UNION {plan.commands[j].wr : j \in DOMAIN plan.commands}
    BY <1>2, <1>4
  <2> QED
    BY <2>1 DEF RowOutputs
<1>10. Fulfils(plan, RowOutputs(M), {TRUE})
  BY <1>1, <1>6, <1>7, <1>8, <1>9 DEF Fulfils
<1> QED
  BY <1>a, <1>b, <1>10

\* Command j of all_reduce_sum.
SumCommand(j) ==
    LET on(rd, wr, r) == [Calls!OnBuffers(rd, wr, {}) EXCEPT !.queue = r]
        copy == Calls!OnBuffers({<<"out", 1>>}, {<<"out", 0>>}, {})
    IN  CASE j = 1 -> on({}, {<<"region", 1>>}, 1)
          [] j = 2 -> on({<<"host", 1>>}, {<<"in", 1>>}, 1)
          [] j = 3 -> on({}, {<<"region", 2>>}, 2)
          [] j = 4 -> on({<<"host", 2>>}, {<<"in", 2>>}, 2)
          [] j = 5 -> Calls!Waited(Calls!Rank(1, 2, 5)[1], 1..4)
          [] j = 6 -> Calls!Waited(Calls!Rank(1, 2, 5)[2], 1..4)
          [] j = 7 -> Calls!Waited(Calls!Rank(2, 2, 7)[1], 1..4)
          [] j = 8 -> Calls!Waited(Calls!Rank(2, 2, 7)[2], 1..4)
          [] j = 9 -> Calls!Waited(copy, {6, 8})

\* h is s followed by t.
IsJoin(h, s, m, t, n) ==
    /\ h = [i \in 1..(m + n) |-> h[i]]
    /\ \A i \in 1..m : h[i] = s[i]
    /\ \A i \in 1..n : h[m + i] = t[i]

\* Two sequences put together.
LEMMA JoinedSeqs ==
    ASSUME NEW s, NEW t, NEW m \in Nat, NEW n \in Nat,
           s = [i \in 1..m |-> s[i]], t = [i \in 1..n |-> t[i]]
    PROVE  IsJoin(s \o t, s, m, t, n)
<1> DEFINE S == {s[i] : i \in 1..m} \cup {t[i] : i \in 1..n}
<1>1. s \in Seq(S) /\ t \in Seq(S) /\ Len(s) = m /\ Len(t) = n
  <2>1. s \in [1..m -> S] /\ t \in [1..n -> S]
    OBVIOUS
  <2> HIDE DEF S
  <2> QED
    BY <2>1
<1> HIDE DEF S
<1>2. s \o t \in Seq(S) /\ Len(s \o t) = m + n
  BY <1>1
<1>3. s \o t = [i \in 1..(m + n) |-> (s \o t)[i]]
  BY <1>2
<1>4. \A i \in 1..m : (s \o t)[i] = s[i]
  BY <1>1
<1>5. \A i \in 1..n : (s \o t)[m + i] = t[i]
  BY <1>1
<1> QED
  BY <1>3, <1>4, <1>5 DEF IsJoin

\* all_reduce_sum submits nine commands.
LEMMA SumIs ==
    /\ Len(Calls!all_reduce_sum.commands) = 9 /\ DOMAIN Calls!all_reduce_sum.commands = 1..9
    /\ \A j \in 1..9 : Calls!all_reduce_sum.commands[j] = SumCommand(j)
    /\ Calls!all_reduce_sum.last = {9} /\ Calls!all_reduce_sum.throws = FALSE
<1> DEFINE a == <<SumCommand(1), SumCommand(2)>>
           b == <<SumCommand(3), SumCommand(4)>>
           r == Calls!Rank(1, 2, 5) \o Calls!Rank(2, 2, 7)
           w == [j \in 1..4 |-> Calls!Waited(r[j], 1..4)]
           e == <<SumCommand(9)>>
           cs == Calls!all_reduce_sum.commands
<1>1. cs = ((a \o b) \o w) \o e /\ Calls!all_reduce_sum.last = {9} /\ Calls!all_reduce_sum.throws = FALSE
  <2>1. a = <<[Calls!OnBuffers({}, {<<"region", 1>>}, {}) EXCEPT !.queue = 1],
              [Calls!OnBuffers({<<"host", 1>>}, {<<"in", 1>>}, {}) EXCEPT !.queue = 1]>>
    BY DEF SumCommand
  <2>2. b = <<[Calls!OnBuffers({}, {<<"region", 2>>}, {}) EXCEPT !.queue = 2],
              [Calls!OnBuffers({<<"host", 2>>}, {<<"in", 2>>}, {}) EXCEPT !.queue = 2]>>
    BY DEF SumCommand
  <2>3. e = <<Calls!Waited(Calls!OnBuffers({<<"out", 1>>}, {<<"out", 0>>}, {}), {6, 8})>>
    BY DEF SumCommand
  <2>4. Calls!all_reduce_sum =
          [Calls!Plan(((a \o b) \o w) \o e) EXCEPT !.last = {9}, !.allocates = TRUE]
    <3> HIDE DEF w
    <3> QED
      BY <2>1, <2>2, <2>3 DEF Calls!all_reduce_sum, w
  <2> HIDE DEF a, b, w, e
  <2> QED
    BY <2>4 DEF Calls!Plan
<1>2. a = [i \in 1..2 |-> a[i]] /\ b = [i \in 1..2 |-> b[i]] /\ e = [i \in 1..1 |-> e[i]]
  OBVIOUS
<1>3. a[1] = SumCommand(1) /\ a[2] = SumCommand(2) /\ b[1] = SumCommand(3) /\ b[2] = SumCommand(4)
      /\ e[1] = SumCommand(9)
  OBVIOUS
<1>4. \A j \in 1..4 : w[j] = SumCommand(4 + j)
  <2>1. IsRank(Calls!Rank(1, 2, 5), 1, 2, 5) /\ IsRank(Calls!Rank(2, 2, 7), 2, 2, 7)
    BY RankIs
  <2>2. PICK p, q : p = Calls!Rank(1, 2, 5) /\ q = Calls!Rank(2, 2, 7)
    OBVIOUS
  <2>3. p = [i \in 1..2 |-> p[i]] /\ q = [i \in 1..2 |-> q[i]]
    BY <2>2 DEF Calls!Rank
  <2>4. IsJoin(p \o q, p, 2, q, 2)
    BY <2>3, JoinedSeqs
  <2>5. IsJoin(r, p, 2, q, 2)
    BY <2>2, <2>4
  <2> HIDE DEF r
  <2>6. r[1] = p[1] /\ r[2] = p[2] /\ r[3] = q[1] /\ r[4] = q[2]
    BY <2>5, 1 \in 1..2, 2 \in 1..2, 2 + 1 = 3, 2 + 2 = 4 DEF IsJoin
  <2>7. w[1] = SumCommand(5) /\ w[2] = SumCommand(6) /\ w[3] = SumCommand(7) /\ w[4] = SumCommand(8)
    BY <2>2, <2>6 DEF SumCommand
  <2> HIDE DEF w
  <2> QED
    BY <2>7
<1>5. w = [i \in 1..4 |-> w[i]]
  OBVIOUS
<1> HIDE DEF a, b, w, e, cs
<1>6. PICK f : f = a \o b
  OBVIOUS
<1>7. IsJoin(f, a, 2, b, 2)
  BY <1>2, <1>6, JoinedSeqs
<1>8. /\ f = [i \in 1..4 |-> f[i]]
      /\ f[1] = SumCommand(1) /\ f[2] = SumCommand(2) /\ f[3] = SumCommand(3) /\ f[4] = SumCommand(4)
  BY <1>3, <1>7, 1 \in 1..2, 2 \in 1..2, 2 + 1 = 3, 2 + 2 = 4 DEF IsJoin
<1>9. PICK g : g = f \o w
  OBVIOUS
<1>10. IsJoin(g, f, 4, w, 4)
  BY <1>5, <1>8, <1>9, JoinedSeqs
<1>11. g = [i \in 1..8 |-> g[i]] /\ \A j \in 1..8 : g[j] = SumCommand(j)
  <2>1. \A i \in 1..4 : g[i] = f[i] /\ g[4 + i] = w[i]
    BY <1>10 DEF IsJoin
  <2>2. \A i \in 1..4 : g[i] = SumCommand(i) /\ g[4 + i] = SumCommand(4 + i)
    BY <1>4, <1>8, <2>1
  <2>3. ASSUME NEW j \in 1..8
        PROVE  g[j] = SumCommand(j)
    <3>1. j \in 1..4 \/ (j - 4 \in 1..4 /\ 4 + (j - 4) = j)
      OBVIOUS
    <3> QED
      BY <2>2, <3>1
  <2>4. g = [i \in 1..8 |-> g[i]]
    BY <1>10, 4 + 4 = 8 DEF IsJoin
  <2> QED
    BY <2>3, <2>4
<1>12. /\ cs = [i \in 1..9 |-> cs[i]]
       /\ \A j \in 1..9 : cs[j] = SumCommand(j)
  <2>1. cs = g \o e
    BY <1>1, <1>6, <1>9
  <2>2. IsJoin(g \o e, g, 8, e, 1)
    BY <1>2, <1>11, JoinedSeqs
  <2>3. IsJoin(cs, g, 8, e, 1)
    BY <2>1, <2>2
  <2>4. cs = [i \in 1..9 |-> cs[i]]
    BY <2>3, 8 + 1 = 9 DEF IsJoin
  <2>5. cs[9] = SumCommand(9)
    BY <1>3, <2>3, 1 \in 1..1, 8 + 1 = 9 DEF IsJoin
  <2>6. \A j \in 1..8 : cs[j] = SumCommand(j)
    BY <1>11, <2>3 DEF IsJoin
  <2> QED
    BY <2>4, <2>5, <2>6
<1>13. Len(cs) = 9 /\ DOMAIN cs = 1..9
  BY <1>12
<1> QED
  BY <1>1, <1>12, <1>13 DEF cs

\* What a command is.
Described(c, rd, wr, after, waited, meets, queue) ==
    /\ c.rd = rd /\ c.wr = wr /\ c.after = after /\ c.waited = waited /\ c.meets = meets /\ c.queue = queue

LEMMA SumCommandsAre ==
    /\ Described(SumCommand(1), {}, {<<"region", 1>>}, {}, {}, FALSE, 1)
    /\ Described(SumCommand(2), {<<"host", 1>>}, {<<"in", 1>>}, {}, {}, FALSE, 1)
    /\ Described(SumCommand(3), {}, {<<"region", 2>>}, {}, {}, FALSE, 2)
    /\ Described(SumCommand(4), {<<"host", 2>>}, {<<"in", 2>>}, {}, {}, FALSE, 2)
    /\ Described(SumCommand(5), {<<"in", 1>>}, {<<"region", 1>>}, {}, 1..4, FALSE, 1)
    /\ Described(SumCommand(6), Regions(2), {<<"out", 1>>, <<"region", 1>>}, {5}, 1..4, TRUE, 1)
    /\ Described(SumCommand(7), {<<"in", 2>>}, {<<"region", 2>>}, {}, 1..4, FALSE, 2)
    /\ Described(SumCommand(8), Regions(2), {<<"out", 2>>, <<"region", 2>>}, {7}, 1..4, TRUE, 2)
    /\ Described(SumCommand(9), {<<"out", 1>>}, {<<"out", 0>>}, {}, {6, 8}, FALSE, 1)
<1>1. ASSUME NEW j \in 1..4
      PROVE  /\ SumCommand(j).after = {} /\ SumCommand(j).waited = {} /\ SumCommand(j).meets = FALSE
  BY DEF SumCommand, Calls!OnBuffers
<1>2. /\ Described(SumCommand(1), {}, {<<"region", 1>>}, {}, {}, FALSE, 1)
      /\ Described(SumCommand(2), {<<"host", 1>>}, {<<"in", 1>>}, {}, {}, FALSE, 1)
  BY DEF SumCommand, Described, Calls!OnBuffers
<1>3. /\ Described(SumCommand(3), {}, {<<"region", 2>>}, {}, {}, FALSE, 2)
      /\ Described(SumCommand(4), {<<"host", 2>>}, {<<"in", 2>>}, {}, {}, FALSE, 2)
  BY DEF SumCommand, Described, Calls!OnBuffers
<1>4. PICK w : w = 1..4
  OBVIOUS
<1>5. PICK p, q : p = Calls!Rank(1, 2, 5) /\ q = Calls!Rank(2, 2, 7)
  OBVIOUS
<1>6. IsRank(p, 1, 2, 5) /\ IsRank(q, 2, 2, 7)
  BY <1>5, RankIs
<1>7. /\ SumCommand(5) = Calls!Waited(p[1], w) /\ SumCommand(6) = Calls!Waited(p[2], w)
      /\ SumCommand(7) = Calls!Waited(q[1], w) /\ SumCommand(8) = Calls!Waited(q[2], w)
  BY <1>4, <1>5 DEF SumCommand
<1>8. ASSUME NEW c, "waited" \in DOMAIN c
      PROVE  Described(Calls!Waited(c, w), c.rd, c.wr, c.after, w, c.meets, c.queue)
  BY <1>8 DEF Calls!Waited, Described
<1>9. /\ Described(SumCommand(5), {<<"in", 1>>}, {<<"region", 1>>}, {}, w, FALSE, 1)
      /\ Described(SumCommand(6), Regions(2), {<<"out", 1>>, <<"region", 1>>}, {5}, w, TRUE, 1)
  <2>1. "waited" \in DOMAIN p[1] /\ "waited" \in DOMAIN p[2]
    BY <1>6 DEF IsRank
  <2>2. /\ Described(SumCommand(5), p[1].rd, p[1].wr, p[1].after, w, p[1].meets, p[1].queue)
        /\ Described(SumCommand(6), p[2].rd, p[2].wr, p[2].after, w, p[2].meets, p[2].queue)
    BY <1>7, <1>8, <2>1
  <2> QED
    BY <1>6, <2>2 DEF IsRank
<1>10. /\ Described(SumCommand(7), {<<"in", 2>>}, {<<"region", 2>>}, {}, w, FALSE, 2)
       /\ Described(SumCommand(8), Regions(2), {<<"out", 2>>, <<"region", 2>>}, {7}, w, TRUE, 2)
  <2>1. "waited" \in DOMAIN q[1] /\ "waited" \in DOMAIN q[2]
    BY <1>6 DEF IsRank
  <2>2. /\ Described(SumCommand(7), q[1].rd, q[1].wr, q[1].after, w, q[1].meets, q[1].queue)
        /\ Described(SumCommand(8), q[2].rd, q[2].wr, q[2].after, w, q[2].meets, q[2].queue)
    BY <1>7, <1>8, <2>1
  <2> QED
    BY <1>6, <2>2 DEF IsRank
<1>11. Described(SumCommand(9), {<<"out", 1>>}, {<<"out", 0>>}, {}, {6, 8}, FALSE, 1)
  BY DEF SumCommand, Described, Calls!Waited, Calls!OnBuffers
<1> QED
  BY <1>2, <1>3, <1>4, <1>9, <1>10, <1>11

LEMMA SumFulfils == Fulfils(Calls!all_reduce_sum, {<<"out", 0>>}, BOOLEAN)
<1> DEFINE plan == Calls!all_reduce_sum
           cs == plan.commands
           P(inOrder) == Calls!Precedes(plan, inOrder)
<1>1. /\ Len(cs) = 9 /\ DOMAIN cs = 1..9 /\ plan.last = {9} /\ plan.throws = FALSE
      /\ \A j \in 1..9 : cs[j] = SumCommand(j)
  BY SumIs
<1> HIDE DEF plan
<1>2. /\ Described(cs[1], {}, {<<"region", 1>>}, {}, {}, FALSE, 1)
      /\ Described(cs[2], {<<"host", 1>>}, {<<"in", 1>>}, {}, {}, FALSE, 1)
      /\ Described(cs[3], {}, {<<"region", 2>>}, {}, {}, FALSE, 2)
      /\ Described(cs[4], {<<"host", 2>>}, {<<"in", 2>>}, {}, {}, FALSE, 2)
      /\ Described(cs[5], {<<"in", 1>>}, {<<"region", 1>>}, {}, 1..4, FALSE, 1)
      /\ Described(cs[6], Regions(2), {<<"out", 1>>, <<"region", 1>>}, {5}, 1..4, TRUE, 1)
      /\ Described(cs[7], {<<"in", 2>>}, {<<"region", 2>>}, {}, 1..4, FALSE, 2)
      /\ Described(cs[8], Regions(2), {<<"out", 2>>, <<"region", 2>>}, {7}, 1..4, TRUE, 2)
      /\ Described(cs[9], {<<"out", 1>>}, {<<"out", 0>>}, {}, {6, 8}, FALSE, 1)
  <2>1. /\ cs[1] = SumCommand(1) /\ cs[2] = SumCommand(2) /\ cs[3] = SumCommand(3)
        /\ cs[4] = SumCommand(4) /\ cs[5] = SumCommand(5) /\ cs[6] = SumCommand(6)
        /\ cs[7] = SumCommand(7) /\ cs[8] = SumCommand(8) /\ cs[9] = SumCommand(9)
    BY <1>1
  <2> HIDE DEF cs
  <2> QED
    BY <2>1, SumCommandsAre
<1> DEFINE named(j) == cs[j].after \cup cs[j].waited
<1>3. /\ \A j \in 1..4 : named(j) = {}
      /\ named(5) = 1..4 /\ named(6) = {5} \cup 1..4 /\ named(7) = 1..4 /\ named(8) = {7} \cup 1..4
      /\ named(9) = {6, 8}
  BY <1>2 DEF Described
<1>4. /\ \A j \in {1, 2, 3, 4, 5, 7, 9} : ~cs[j].meets
      /\ cs[6].meets /\ cs[8].meets
      /\ \A j \in {1, 2, 5, 6, 9} : cs[j].queue = 1
      /\ \A j \in {3, 4, 7, 8} : cs[j].queue = 2
  BY <1>2 DEF Described
<1>5. Backward(plan, 9)
  <2>1. \A j \in 1..9 : j \in 1..4 \/ j = 5 \/ j = 6 \/ j = 7 \/ j = 8 \/ j = 9
    OBVIOUS
  <2>2. \A j \in 1..9 : named(j) \subseteq 1..(j - 1)
    <3> HIDE DEF named
    <3> QED
      BY <1>3, <2>1
  <2> HIDE DEF cs
  <2> QED
    BY <1>1, <2>2 DEF Backward, cs
<1>6. ASSUME NEW inOrder \in BOOLEAN
      PROVE  /\ 1..4 \subseteq P(inOrder)[5] /\ {5} \cup 1..4 \subseteq P(inOrder)[6]
             /\ 1..4 \subseteq P(inOrder)[7] /\ {7} \cup 1..4 \subseteq P(inOrder)[8]
             /\ 1..8 \subseteq P(inOrder)[9]
  <2>1. \A j \in 1..9 : named(j) \subseteq P(inOrder)[j]
                        /\ \A i \in named(j) : P(inOrder)[i] \subseteq P(inOrder)[j]
    <3> HIDE DEF P
    <3> QED
      BY <1>5, PrecedesSteps DEF P
  <2> HIDE DEF named, P
  <2>2. /\ 1..4 \subseteq P(inOrder)[5] /\ {5} \cup 1..4 \subseteq P(inOrder)[6]
        /\ 1..4 \subseteq P(inOrder)[7] /\ {7} \cup 1..4 \subseteq P(inOrder)[8]
    BY <1>3, <2>1
  <2>3. {6, 8} \subseteq P(inOrder)[9] /\ P(inOrder)[6] \subseteq P(inOrder)[9]
        /\ P(inOrder)[8] \subseteq P(inOrder)[9]
    BY <1>3, <2>1
  <2>4. \A x \in 1..8 : x \in 1..4 \/ x = 5 \/ x = 6 \/ x = 7 \/ x = 8
    OBVIOUS
  <2>5. 1..8 \subseteq P(inOrder)[9]
    BY <2>2, <2>3, <2>4
  <2> QED
    BY <2>2, <2>5
<1>7. RanksMeet(plan)
  <2>1. ASSUME NEW inOrder \in BOOLEAN
        PROVE  P(inOrder)[7] \subseteq 1..4
    <3>1. Direct(plan, inOrder, 7) \subseteq 1..4
      <4>1. {i \in 1..(7 - 1) : cs[i].queue = cs[7].queue} \subseteq 1..4
        <5>1. \A i \in 1..(7 - 1) : i \in 1..4 \/ i = 5 \/ i = 6
          OBVIOUS
        <5> QED
          BY <1>4, <5>1
      <4> HIDE DEF plan
      <4>2. Direct(plan, inOrder, 7)
              = named(7) \cup (IF inOrder THEN {i \in 1..(7 - 1) : cs[i].queue = cs[7].queue} ELSE {})
        BY DEF Direct
      <4> HIDE DEF named, cs
      <4> QED
        BY <1>3, <4>1, <4>2
    <3>2. \A j \in 1..9 : P(inOrder)[j] \subseteq 1..(j - 1)
      BY <1>5, PrecedesBelow
    <3>3. \A x \in P(inOrder)[7] : x \in Direct(plan, inOrder, 7)
                                     \/ \E i \in Direct(plan, inOrder, 7) : x \in P(inOrder)[i]
      BY <1>5, PrecedesThrough
    <3> HIDE DEF P
    <3> QED
      BY <3>1, <3>2, <3>3
  <2>2. ASSUME NEW inOrder \in BOOLEAN
        PROVE  6 \notin P(inOrder)[8]
    <3>1. Direct(plan, inOrder, 8) \subseteq 1..4 \cup {7}
      <4>1. {i \in 1..(8 - 1) : cs[i].queue = cs[8].queue} \subseteq 1..4 \cup {7}
        <5>1. \A i \in 1..(8 - 1) : i \in 1..4 \/ i = 5 \/ i = 6 \/ i = 7
          OBVIOUS
        <5> QED
          BY <1>4, <5>1
      <4> HIDE DEF plan
      <4>2. Direct(plan, inOrder, 8)
              = named(8) \cup (IF inOrder THEN {i \in 1..(8 - 1) : cs[i].queue = cs[8].queue} ELSE {})
        BY DEF Direct
      <4> HIDE DEF named, cs
      <4> QED
        BY <1>3, <4>1, <4>2
    <3>2. \A j \in 1..9 : P(inOrder)[j] \subseteq 1..(j - 1)
      BY <1>5, PrecedesBelow
    <3>3. \A x \in P(inOrder)[8] : x \in Direct(plan, inOrder, 8)
                                     \/ \E i \in Direct(plan, inOrder, 8) : x \in P(inOrder)[i]
      BY <1>5, PrecedesThrough
    <3>4. P(inOrder)[7] \subseteq 1..4
      BY <2>1
    <3> HIDE DEF P
    <3>5. \A i \in 1..4 \cup {7} : 6 \notin P(inOrder)[i]
      BY <3>2, <3>4
    <3> QED
      BY <3>1, <3>3, <3>5
  <2>3. ASSUME NEW inOrder \in BOOLEAN, NEW j \in 1..9, NEW p \in 1..9, NEW k \in P(inOrder)[j],
               cs[k].meets, cs[p].meets
        PROVE  p < j
    <3>1. P(inOrder)[j] \subseteq 1..(j - 1)
      BY <1>5, PrecedesBelow
    <3>2. P(inOrder)[7] \subseteq 1..4 /\ 6 \notin P(inOrder)[8]
      BY <2>1, <2>2
    <3>3. \A i \in 1..9 : cs[i].meets => i = 6 \/ i = 8
      <4>1. \A i \in 1..9 : i = 6 \/ i = 8 \/ i \in {1, 2, 3, 4, 5, 7, 9}
        OBVIOUS
      <4> HIDE DEF cs
      <4> QED
        BY <1>4, <4>1
    <3> HIDE DEF P, cs
    <3>4. k \in 1..(j - 1) /\ (k = 6 \/ k = 8) /\ (p = 6 \/ p = 8)
      BY <2>3, <3>1, <3>3
    <3>5. j = 7 \/ j = 8 \/ j = 9
      BY <3>4
    <3> QED
      BY <3>2, <3>4, <3>5
  <2> HIDE DEF P
  <2>4. ASSUME NEW inOrder \in BOOLEAN, NEW j \in 1..9, NEW p \in 1..9,
               \E k \in P(inOrder)[j] : cs[k].meets, cs[p].meets
        PROVE  p < j
    BY <2>3, <2>4
  <2>5. \A inOrder \in BOOLEAN : \A j, p \in 1..9 :
           (\E k \in P(inOrder)[j] : cs[k].meets) /\ cs[p].meets => p < j
    BY <2>4
  <2> QED
    BY <1>1, <2>5 DEF RanksMeet, P
<1>8. Ordered(plan)
  <2>1. ASSUME NEW inOrder \in BOOLEAN, NEW i \in 1..9, NEW j \in 1..9, i < j,
               Conflict(cs[i], cs[j])
        PROVE  \/ Before(plan, inOrder, i, j) \/ Before(plan, inOrder, j, i)
               \/ cs[i].meets /\ cs[j].meets
    <3>1. CASE i \in P(inOrder)[j]
      BY <3>1 DEF Before
    <3>2. CASE i = 5 /\ j = 8
      <4>1. 5 \in P(inOrder)[6]
        BY <1>6
      <4> QED
        BY <1>1, <1>4, <3>2, <4>1 DEF Before
    <3>3. CASE i = 6 /\ j = 7
      <4>1. 7 \in P(inOrder)[8]
        BY <1>6
      <4> QED
        BY <1>1, <1>4, <3>3, <4>1 DEF Before
    <3>4. CASE i = 6 /\ j = 8
      BY <1>4, <3>4
    <3>5. ~Conflict(cs[5], cs[7])
      BY <1>2 DEF Conflict, Described
    <3>6. \A k, l \in 1..4 : k < l => ~Conflict(cs[k], cs[l])
      <4>1. /\ ~Conflict(cs[1], cs[2]) /\ ~Conflict(cs[1], cs[3]) /\ ~Conflict(cs[1], cs[4])
            /\ ~Conflict(cs[2], cs[3]) /\ ~Conflict(cs[2], cs[4]) /\ ~Conflict(cs[3], cs[4])
        BY <1>2 DEF Conflict, Described
      <4>2. \A k, l \in 1..4 : k < l =>
                (k = 1 /\ l \in {2, 3, 4}) \/ (k = 2 /\ l \in {3, 4}) \/ (k = 3 /\ l = 4)
        OBVIOUS
      <4> HIDE DEF cs
      <4> QED
        BY <4>1, <4>2
    <3>7. \/ i \in 1..4 /\ j \in 1..4
          \/ i \in 1..4 /\ j \in 5..8
          \/ i = 5 /\ j \in {6, 7, 8}
          \/ i = 6 /\ j \in {7, 8}
          \/ i = 7 /\ j = 8
          \/ j = 9
      BY <2>1
    <3>8. CASE \/ i \in 1..4 /\ j \in 5..8
               \/ i = 5 /\ j = 6
               \/ i = 7 /\ j = 8
               \/ j = 9
      <4>1. j \in 5..8 => j = 5 \/ j = 6 \/ j = 7 \/ j = 8
        OBVIOUS
      <4>2. j = 9 => i \in 1..8
        BY <2>1
      <4> HIDE DEF P
      <4>3. i \in P(inOrder)[j]
        BY <1>6, <3>8, <4>1, <4>2
      <4> QED
        BY <3>1, <4>3
    <3>9. CASE i \in 1..4 /\ j \in 1..4
      BY <2>1, <3>6, <3>9
    <3>10. CASE i = 5 /\ j = 7
      BY <2>1, <3>5, <3>10
    <3> HIDE DEF cs, P
    <3> QED
      BY <3>2, <3>3, <3>4, <3>7, <3>8, <3>9, <3>10
  <2> HIDE DEF cs
  <2> QED
    BY <1>1, <2>1 DEF Ordered, Conflict, cs
<1>9. ASSUME NEW inOrder \in BOOLEAN
      PROVE  Calls!Over(plan, inOrder, TRUE) = DOMAIN cs
  <2>1. PICK n : n = 9 /\ n > 0
    OBVIOUS
  <2>2. 1..(n - 1) \subseteq Calls!Precedes(plan, inOrder)[n] /\ plan.last \subseteq 1..n
    BY <1>1, <1>6, <2>1
  <2> QED
    BY <1>5, <2>1, <2>2, OverAll
<1>10. {<<"out", 0>>} \subseteq UNION {cs[j].wr : j \in DOMAIN cs}
  BY <1>1, <1>2 DEF Described
<1> QED
  BY <1>1, <1>7, <1>8, <1>9, <1>10 DEF plan, Fulfils

\* What the table says of an operation.
Shapes == {"single", "selected", "fp8_gemm", "w8a16", "reorder", "gguf", "rows", "moe_fused", "moe_split",
           "qswiglu", "permute", "paged_decode", "qwen", "conv_prefill", "all_reduce", "all_reduce_sum"}

Fits(op, shape) ==
    /\ shape \in Shapes
    /\ shape = "rows" <=> op = "nvfp4_gemm"
    /\ shape = "all_reduce" <=> op = "all_reduce"
    /\ shape = "fp8_gemm" => op = "fp8_gemm"
    /\ shape = "reorder" => op \in {"fp8_encode", "fp8_decode"}
    /\ shape = "selected" => op \in {"gelu", "softmax", "layernorm", "dense_gemm", "qgemm_int8"}
    /\ op \in CaptureOps => shape \in {"single", "paged_decode", "moe_split", "conv_prefill", "all_reduce"}

TableFits(f) == \A op \in DOMAIN f : Fits(op, f[op])

LEMMA JoinedFits ==
    ASSUME NEW f, NEW g, TableFits(f), TableFits(g)
    PROVE  TableFits(Calls!Joined(f, g))
<1>1. ASSUME NEW op \in DOMAIN Calls!Joined(f, g)
      PROVE  \/ op \in DOMAIN f /\ Calls!Joined(f, g)[op] = f[op]
             \/ op \in DOMAIN g /\ Calls!Joined(f, g)[op] = g[op]
  BY DEF Calls!Joined
<1> QED
  BY <1>1 DEF TableFits

LEMMA FamiliesFit ==
    /\ TableFits(Calls!activations) /\ TableFits(Calls!norms) /\ TableFits(Calls!attention)
    /\ TableFits(Calls!quantization) /\ TableFits(Calls!matmul) /\ TableFits(Calls!moe)
    /\ TableFits(Calls!linear_attention) /\ TableFits(Calls!ssm) /\ TableFits(Calls!serving)
    /\ TableFits(Calls!sampling) /\ TableFits(Calls!utils) /\ TableFits(Calls!optimizers)
    /\ TableFits(Calls!collectives)
<1>1. TableFits(Calls!activations)
  BY DEF TableFits, Fits, Shapes, CaptureOps, Calls!activations
<1>2. TableFits(Calls!norms)
  BY DEF TableFits, Fits, Shapes, CaptureOps, Calls!norms
<1>3. TableFits(Calls!attention)
  BY DEF TableFits, Fits, Shapes, CaptureOps, Calls!attention
<1>4. TableFits(Calls!quantization)
  BY DEF TableFits, Fits, Shapes, CaptureOps, Calls!quantization
<1>5. TableFits(Calls!matmul)
  BY DEF TableFits, Fits, Shapes, CaptureOps, Calls!matmul
<1>6. TableFits(Calls!moe)
  BY DEF TableFits, Fits, Shapes, CaptureOps, Calls!moe
<1>7. TableFits(Calls!linear_attention)
  BY DEF TableFits, Fits, Shapes, CaptureOps, Calls!linear_attention
<1>8. TableFits(Calls!ssm)
  BY DEF TableFits, Fits, Shapes, CaptureOps, Calls!ssm
<1>9. TableFits(Calls!serving)
  BY DEF TableFits, Fits, Shapes, CaptureOps, Calls!serving
<1>10. TableFits(Calls!sampling)
  BY DEF TableFits, Fits, Shapes, CaptureOps, Calls!sampling
<1>11. TableFits(Calls!utils)
  BY DEF TableFits, Fits, Shapes, CaptureOps, Calls!utils
<1>12. TableFits(Calls!optimizers)
  BY DEF TableFits, Fits, Shapes, CaptureOps, Calls!optimizers
<1>13. TableFits(Calls!collectives)
  BY DEF TableFits, Fits, Shapes, CaptureOps, Calls!collectives
<1> QED
  BY <1>1, <1>2, <1>3, <1>4, <1>5, <1>6, <1>7, <1>8, <1>9, <1>10, <1>11, <1>12, <1>13

LEMMA OpsFit == TableFits(Calls!Ops)
<1>1. TableFits(Calls!LayerOps)
  <2>1. TableFits(Calls!Joined(Calls!activations, Calls!norms))
        /\ TableFits(Calls!Joined(Calls!attention, Calls!moe))
    BY FamiliesFit, JoinedFits
  <2> QED
    BY <2>1, JoinedFits DEF Calls!LayerOps
<1>2. TableFits(Calls!RecurrentOps) /\ TableFits(Calls!ProductOps)
  BY FamiliesFit, JoinedFits DEF Calls!RecurrentOps, Calls!ProductOps
<1>3. TableFits(Calls!OtherOps)
  <2>1. TableFits(Calls!Joined(Calls!serving, Calls!sampling))
        /\ TableFits(Calls!Joined(Calls!optimizers, Calls!collectives))
    BY FamiliesFit, JoinedFits
  <2>2. TableFits(Calls!Joined(Calls!utils, Calls!Joined(Calls!optimizers, Calls!collectives)))
    BY <2>1, FamiliesFit, JoinedFits
  <2> QED
    BY <2>1, <2>2, JoinedFits DEF Calls!OtherOps
<1>4. TableFits(Calls!Joined(Calls!LayerOps, Calls!RecurrentOps))
      /\ TableFits(Calls!Joined(Calls!ProductOps, Calls!OtherOps))
  BY <1>1, <1>2, <1>3, JoinedFits
<1> QED
  BY <1>4, JoinedFits DEF Calls!Ops

\* A call of the op ABI, its rows counted from one.
IsCall(c) ==
    /\ c.op \in DOMAIN Calls!Ops /\ c.M \in Nat \ {0}
    /\ c.cold \in BOOLEAN /\ c.onednn \in BOOLEAN

\* A plan that does what the call owes.
Serves(plan, c) ==
    \/ plan = Calls!Throws /\ MayThrow(c)
    \/ Fulfils(plan, Outputs(c), IF c.op = "nvfp4_gemm" THEN {TRUE} ELSE BOOLEAN)

LEMMA ServesRight ==
    ASSUME NEW c, Serves(Calls!PlanOf(c), c)
    PROVE  Ordered(Calls!PlanOf(c)) /\ Delivers(c)
<1> DEFINE plan == Calls!PlanOf(c)
<1>1. CASE plan = Calls!Throws /\ MayThrow(c)
  <2>1. plan.throws = TRUE /\ plan.commands = <<>>
    BY <1>1 DEF Calls!Throws, Calls!Plan
  <2>2. DOMAIN plan.commands = {}
    BY <2>1
  <2> HIDE DEF plan
  <2>3. Ordered(plan)
    BY <2>2 DEF Ordered
  <2>4. Delivers(c)
    BY <1>1, <2>1 DEF Delivers, plan
  <2> QED
    BY <2>3, <2>4 DEF plan
<1>2. CASE Fulfils(plan, Outputs(c), IF c.op = "nvfp4_gemm" THEN {TRUE} ELSE BOOLEAN)
  <2> HIDE DEF plan
  <2>1. ~plan.throws /\ Ordered(plan) /\ RanksMeet(plan)
        /\ Outputs(c) \subseteq UNION {plan.commands[j].wr : j \in DOMAIN plan.commands}
    BY <1>2 DEF Fulfils
  <2>2. \A inOrder \in BOOLEAN : inOrder \/ c.op # "nvfp4_gemm"
            => Calls!Over(plan, inOrder, TRUE) = DOMAIN plan.commands
    BY <1>2 DEF Fulfils
  <2>3. Delivers(c)
    BY <2>1, <2>2 DEF Delivers, RanksMeet, plan
  <2> QED
    BY <2>1, <2>3 DEF plan
<1> QED
  BY <1>1, <1>2 DEF Serves

OneOutput(plan) == Fulfils(plan, {<<"out", 0>>}, BOOLEAN)

LEMMA PlansFulfil ==
    /\ OneOutput(Calls!Single) /\ OneOutput(Calls!Waits) /\ OneOutput(Calls!ScaledProduct)
    /\ OneOutput(Calls!GroupedQSwiglu) /\ OneOutput(Calls!Fp8Gemv) /\ OneOutput(Calls!Permute)
    /\ OneOutput(Calls!MoeFused) /\ OneOutput(Calls!MoeSplit) /\ OneOutput(Calls!PagedDecode)
    /\ OneOutput(Calls!QwenGdnDecode) /\ OneOutput(Calls!ConvPrefill) /\ OneOutput(Calls!all_reduce_sum)
    /\ Fulfils(Calls!all_reduce, {<<"out", 1>>}, BOOLEAN)
<1>1. OneOutput(Calls!Single)
  <2>1. PICK plan, n : plan = Calls!Single /\ n = 1
    OBVIOUS
  <2>2. /\ Chained(plan, n) /\ ~plan.throws /\ plan.last \subseteq 1..n
        /\ \A k \in 1..(n - 1) : ~plan.commands[k].meets
        /\ \E j \in 1..n : <<"out", 0>> \in plan.commands[j].wr
    BY <2>1, SingleChain
  <2> QED
    BY <2>1, <2>2, ChainFulfils DEF OneOutput
<1>2. OneOutput(Calls!Waits)
  <2>1. PICK plan, n : plan = Calls!Waits /\ n = 1
    OBVIOUS
  <2>2. plan.commands = Calls!Single.commands /\ plan.throws = Calls!Single.throws /\ plan.last = {1}
    BY <2>1 DEF Calls!Waits, Calls!Single, Calls!Plan
  <2>3. /\ Chained(plan, n) /\ ~plan.throws /\ plan.last \subseteq 1..n
        /\ \A k \in 1..(n - 1) : ~plan.commands[k].meets
        /\ \E j \in 1..n : <<"out", 0>> \in plan.commands[j].wr
    BY <2>1, <2>2, SingleChain DEF Chained, Backward
  <2> QED
    BY <2>1, <2>3, ChainFulfils DEF OneOutput
<1>3. OneOutput(Calls!ScaledProduct)
  <2>1. PICK plan, n : plan = Calls!ScaledProduct /\ n = 2
    OBVIOUS
  <2>2. /\ Chained(plan, n) /\ ~plan.throws /\ plan.last \subseteq 1..n
        /\ \A k \in 1..(n - 1) : ~plan.commands[k].meets
        /\ \E j \in 1..n : <<"out", 0>> \in plan.commands[j].wr
    BY <2>1, ScaledProductIs
  <2> QED
    BY <2>1, <2>2, ChainFulfils DEF OneOutput
<1>4. OneOutput(Calls!GroupedQSwiglu)
  <2>1. PICK plan, n : plan = Calls!GroupedQSwiglu /\ n = 2
    OBVIOUS
  <2>2. /\ Chained(plan, n) /\ ~plan.throws /\ plan.last \subseteq 1..n
        /\ \A k \in 1..(n - 1) : ~plan.commands[k].meets
        /\ \E j \in 1..n : <<"out", 0>> \in plan.commands[j].wr
    BY <2>1, GroupedQSwigluIs
  <2> QED
    BY <2>1, <2>2, ChainFulfils DEF OneOutput
<1>5. OneOutput(Calls!Fp8Gemv)
  <2>1. PICK plan, n : plan = Calls!Fp8Gemv /\ n = 3
    OBVIOUS
  <2>2. /\ Chained(plan, n) /\ ~plan.throws /\ plan.last \subseteq 1..n
        /\ \A k \in 1..(n - 1) : ~plan.commands[k].meets
        /\ \E j \in 1..n : <<"out", 0>> \in plan.commands[j].wr
    BY <2>1, Fp8GemvIs
  <2> QED
    BY <2>1, <2>2, ChainFulfils DEF OneOutput
<1>6. OneOutput(Calls!Permute)
  <2>1. PICK plan, n : plan = Calls!Permute /\ n = 4
    OBVIOUS
  <2>2. /\ Chained(plan, n) /\ ~plan.throws /\ plan.last \subseteq 1..n
        /\ \A k \in 1..(n - 1) : ~plan.commands[k].meets
        /\ \E j \in 1..n : <<"out", 0>> \in plan.commands[j].wr
    BY <2>1, PermuteIs
  <2> QED
    BY <2>1, <2>2, ChainFulfils DEF OneOutput
<1>7. ASSUME NEW rd1, NEW wr1, NEW rd2, NEW wr2, "out" \in wr1 \cup wr2
      PROVE  OneOutput(Calls!Chain(Calls!Command(rd1, wr1, {}), Calls!Command(rd2, wr2, {})))
  <2>1. PICK plan, n : plan = Calls!Chain(Calls!Command(rd1, wr1, {}), Calls!Command(rd2, wr2, {})) /\ n = 2
    OBVIOUS
  <2>2. <<"out", 0>> \in Calls!Numbered(wr1, 0) \cup Calls!Numbered(wr2, 0)
    BY <1>7 DEF Calls!Numbered
  <2>3. /\ Chained(plan, n) /\ ~plan.throws /\ plan.last \subseteq 1..n
        /\ \A k \in 1..(n - 1) : ~plan.commands[k].meets
        /\ \E j \in 1..n : <<"out", 0>> \in plan.commands[j].wr
    BY <2>1, <2>2, ChainIs
  <2> QED
    BY <2>1, <2>3, ChainFulfils DEF OneOutput
<1>8. /\ OneOutput(Calls!MoeFused) /\ OneOutput(Calls!PagedDecode)
      /\ OneOutput(Calls!QwenGdnDecode) /\ OneOutput(Calls!ConvPrefill)
  BY <1>7 DEF Calls!MoeFused, Calls!PagedDecode, Calls!QwenGdnDecode, Calls!ConvPrefill
<1>9. Fulfils(Calls!all_reduce, {<<"out", 1>>}, BOOLEAN)
  <2>1. PICK plan, n : plan = Calls!all_reduce /\ n = 2
    OBVIOUS
  <2>2. /\ Chained(plan, n) /\ ~plan.throws /\ plan.last \subseteq 1..n
        /\ \A k \in 1..(n - 1) : ~plan.commands[k].meets
        /\ \E j \in 1..n : <<"out", 1>> \in plan.commands[j].wr
    BY <2>1, AllReduceIs
  <2> QED
    BY <2>1, <2>2, ChainFulfils
<1> QED
  BY <1>1, <1>2, <1>3, <1>4, <1>5, <1>6, <1>8, <1>9, MoeSplitIs, SumFulfils DEF OneOutput

LEMMA GgufFulfils ==
    ASSUME NEW c, c.cold \in BOOLEAN
    PROVE  OneOutput(Calls!gguf_gemv(c))
<1>1. PICK plan : plan = Calls!gguf_gemv(c)
  OBVIOUS
<1>2. PICK n \in 1..2 :
        /\ Chained(plan, n) /\ ~plan.throws /\ plan.last = {}
        /\ \A k \in 1..n : ~plan.commands[k].meets
        /\ <<"out", 0>> \in plan.commands[n].wr
  BY <1>1, GgufIs
<1>3. plan.last \subseteq 1..n /\ \A k \in 1..(n - 1) : ~plan.commands[k].meets
  BY <1>2
<1>4. \E j \in 1..n : <<"out", 0>> \in plan.commands[j].wr
  BY <1>2
<1> QED
  BY <1>1, <1>2, <1>3, <1>4, ChainFulfils DEF OneOutput

LEMMA SelectedServes ==
    ASSUME NEW c, c.onednn \in BOOLEAN,
           c.op \in {"gelu", "softmax", "layernorm", "dense_gemm", "qgemm_int8"}
    PROVE  \/ Calls!Selected(c) = Calls!Throws /\ MayThrow(c)
           \/ Calls!Selected(c) = Calls!Single
<1>1. CASE Calls!Chosen(c) # "vendor"
  BY <1>1 DEF Calls!Selected
<1>2. CASE Calls!Chosen(c) = "vendor"
  <2>1. c.onednn /\ c.variant # "sycl"
    BY <1>2 DEF Calls!Chosen, Calls!resolve_variant, Calls!variant_available
  <2>2. Calls!Selected(c) = Calls!Vendor(c)
    BY <1>2 DEF Calls!Selected
  <2>3. Calls!Fails(c) => MayThrow(c)
    BY <2>1 DEF MayThrow
  <2>4. Calls!Primitive(c) = IF Calls!Fails(c) THEN Calls!Throws ELSE Calls!Single
    BY DEF Calls!Primitive
  <2>5. Calls!Vendor(c) \in {Calls!Primitive(c), Calls!Single}
    BY DEF Calls!Vendor, Calls!gelu_onednn, Calls!softmax_onednn, Calls!dense_gemm_onednn,
           Calls!layernorm_onednn, Calls!qgemm_int8_onednn
  <2> QED
    BY <2>2, <2>3, <2>4, <2>5
<1> QED
  BY <1>1, <1>2

\* Whatever the implementation chosen, the call is served.
LEMMA PlanServes ==
    ASSUME NEW c, IsCall(c)
    PROVE  Serves(Calls!PlanOf(c), c)
<1> DEFINE shape == Calls!Ops[c.op]
<1>1. Fits(c.op, shape)
  BY OpsFit DEF IsCall, TableFits
<1> HIDE DEF shape
<1>2. /\ c.op = "nvfp4_gemm" => Outputs(c) = RowOutputs(c.M)
      /\ c.op = "all_reduce" => Outputs(c) = {<<"out", 1>>}
      /\ c.op \notin {"nvfp4_gemm", "all_reduce"} => Outputs(c) = {<<"out", 0>>}
  BY DEF Outputs, RowOutputs
<1>3. CASE shape = "rows"
  <2>1. Calls!PlanOf(c) = Calls!nvfp4_gemm(c) /\ c.op = "nvfp4_gemm"
    BY <1>1, <1>3 DEF Calls!PlanOf, shape, Fits
  <2>2. Fulfils(Calls!nvfp4_gemm(c), RowOutputs(c.M), {TRUE})
    BY LaunchesAre DEF IsCall
  <2> QED
    BY <1>2, <2>1, <2>2 DEF Serves
<1>4. CASE shape = "all_reduce"
  <2>1. Calls!PlanOf(c) = Calls!all_reduce /\ c.op = "all_reduce"
    BY <1>1, <1>4 DEF Calls!PlanOf, shape, Fits
  <2> QED
    BY <1>2, <2>1, PlansFulfil DEF Serves
<1>5. CASE shape \notin {"rows", "all_reduce"}
  <2>1. c.op \notin {"nvfp4_gemm", "all_reduce"}
    BY <1>1, <1>5 DEF Fits
  <2>2. \A plan : OneOutput(plan) => Serves(plan, c)
    BY <1>2, <2>1 DEF Serves, OneOutput
  <2>3. CASE shape = "selected"
    <3>1. Calls!PlanOf(c) = Calls!Selected(c)
      BY <2>3 DEF Calls!PlanOf, shape
    <3>2. \/ Calls!Selected(c) = Calls!Throws /\ MayThrow(c)
          \/ Calls!Selected(c) = Calls!Single
      BY <1>1, <2>3, SelectedServes DEF Fits, IsCall
    <3> QED
      BY <2>2, <3>1, <3>2, PlansFulfil DEF Serves
  <2>4. CASE shape = "fp8_gemm"
    <3>1. Calls!PlanOf(c) = Calls!fp8_gemm(c) /\ c.op = "fp8_gemm"
      BY <1>1, <2>4 DEF Calls!PlanOf, shape, Fits
    <3>2. \/ Calls!fp8_gemm(c) = Calls!Fp8Gemv
          \/ Calls!fp8_gemm(c) = Calls!Waits
          \/ Calls!fp8_gemm(c) = Calls!Throws /\ (~c.onednn \/ Calls!Fails(c))
      BY DEF Calls!fp8_gemm
    <3> QED
      BY <2>2, <3>1, <3>2, PlansFulfil DEF Serves, MayThrow
  <2>5. CASE shape = "reorder"
    <3>1. Calls!PlanOf(c) = Calls!Reorder(c) /\ c.op \in {"fp8_encode", "fp8_decode"}
      BY <1>1, <2>5 DEF Calls!PlanOf, shape, Fits
    <3>2. \/ Calls!Reorder(c) = Calls!Waits
          \/ Calls!Reorder(c) = Calls!Throws /\ (~c.onednn \/ Calls!Fails(c))
      BY DEF Calls!Reorder
    <3> QED
      BY <2>2, <3>1, <3>2, PlansFulfil DEF Serves, MayThrow
  <2>6. CASE shape = "w8a16"
    <3>1. Calls!PlanOf(c) = Calls!fp8_gemm_w8a16(c)
      BY <2>6 DEF Calls!PlanOf, shape
    <3>2. Calls!fp8_gemm_w8a16(c) \in {Calls!ScaledProduct, Calls!Single}
      BY DEF Calls!fp8_gemm_w8a16
    <3> QED
      BY <2>2, <3>1, <3>2, PlansFulfil
  <2>7. CASE shape = "gguf"
    <3>1. Calls!PlanOf(c) = Calls!gguf_gemv(c)
      BY <2>7 DEF Calls!PlanOf, shape
    <3> QED
      BY <2>2, <3>1, GgufFulfils DEF IsCall
  <2>8. CASE shape \in {"single", "moe_fused", "moe_split", "qswiglu", "permute", "paged_decode", "qwen",
                        "conv_prefill", "all_reduce_sum"}
    <3>1. Calls!PlanOf(c) \in {Calls!Single, Calls!MoeFused, Calls!MoeSplit, Calls!GroupedQSwiglu, Calls!Permute,
                               Calls!PagedDecode, Calls!QwenGdnDecode, Calls!ConvPrefill, Calls!all_reduce_sum}
      BY <2>8 DEF Calls!PlanOf, shape
    <3> QED
      BY <2>2, <3>1, PlansFulfil
  <2>9. shape \in Shapes
    BY <1>1 DEF Fits
  <2> QED
    BY <1>5, <2>3, <2>4, <2>5, <2>6, <2>7, <2>8, <2>9 DEF Shapes
<1> QED
  BY <1>3, <1>4, <1>5

\* For every call of the op ABI, with any number of rows, variant, build and
\* state of the caches: the commands that touch the same buffer are ordered,
\* it throws only when a oneDNN that it needs is missing or fails, and
\* otherwise its output is written and a blocking call returns with every
\* command over.
THEOREM CallsRight ==
    ASSUME NEW c, IsCall(c)
    PROVE  Ordered(Calls!PlanOf(c)) /\ Delivers(c)
BY PlanServes, ServesRight

\* For every such call of an operation offered for the capture of command
\* graphs: it throws, allocates and waits in no case.
THEOREM CaptureOpsSubmit ==
    ASSUME NEW c, IsCall(c), c.op \in CaptureOps
    PROVE  OnlySubmits(Calls!PlanOf(c))
<1> DEFINE shape == Calls!Ops[c.op]
<1>1. shape \in {"single", "paged_decode", "moe_split", "conv_prefill", "all_reduce"}
  BY OpsFit DEF IsCall, TableFits, Fits
<1>2. Calls!PlanOf(c) \in {Calls!Single, Calls!PagedDecode, Calls!MoeSplit, Calls!ConvPrefill, Calls!all_reduce}
  BY <1>1 DEF Calls!PlanOf
<1> DEFINE Submits(plan, n) == /\ ~plan.throws /\ ~plan.allocates /\ plan.last = {}
                               /\ DOMAIN plan.commands = 1..n
                               /\ \A k \in 1..n : plan.commands[k].waited = {}
<1>3. \A plan, n : Submits(plan, n) => OnlySubmits(plan)
  BY DEF OnlySubmits
<1>4. Submits(Calls!Single, 1)
  BY SingleChain DEF Chained, Backward
<1>5. Submits(Calls!MoeSplit, 3)
  BY MoeSplitIs DEF Backward, Fulfils
<1>6. Submits(Calls!all_reduce, 2)
  BY AllReduceIs DEF Chained, Backward
<1>7. ASSUME NEW rd1, NEW wr1, NEW rd2, NEW wr2, "out" \in wr1 \cup wr2
      PROVE  Submits(Calls!Chain(Calls!Command(rd1, wr1, {}), Calls!Command(rd2, wr2, {})), 2)
  <2>1. <<"out", 0>> \in Calls!Numbered(wr1, 0) \cup Calls!Numbered(wr2, 0)
    BY <1>7 DEF Calls!Numbered
  <2>2. PICK plan : plan = Calls!Chain(Calls!Command(rd1, wr1, {}), Calls!Command(rd2, wr2, {}))
    OBVIOUS
  <2>3. /\ Chained(plan, 2) /\ ~plan.throws /\ plan.last = {} /\ ~plan.allocates
        /\ \A k \in 1..2 : plan.commands[k].waited = {}
    BY <2>1, <2>2, ChainIs
  <2> QED
    BY <2>2, <2>3 DEF Chained, Backward
<1>8. Submits(Calls!PagedDecode, 2) /\ Submits(Calls!ConvPrefill, 2)
  <2> HIDE DEF Submits
  <2> QED
    BY <1>7 DEF Calls!PagedDecode, Calls!ConvPrefill
<1> HIDE DEF Submits
<1> QED
  BY <1>2, <1>3, <1>4, <1>5, <1>6, <1>8

\* A call of the run is a call.
LEMMA CallKind ==
    ASSUME Next
    PROVE  input'.kind = "call" => IsCall(input'.call)
<1>1. CASE TryTiles \/ TryLogits \/ TryShape \/ TryPlatforms
  BY <1>1 DEF TryTiles, TryLogits, TryShape, TryPlatforms
<1>2. CASE TryElements \/ TryRows \/ TryGemms \/ TryAttention
  BY <1>2, KernelKind
<1>3. CASE TryFloat \/ TryCodes \/ TryProduct \/ TryBlock \/ Again
  <2>1. TryFloat => input'.kind = "float"
    BY DEF TryFloat
  <2>2. TryCodes => input'.kind = "codes"
    BY DEF TryCodes
  <2>3. TryProduct => input'.kind = "product"
    BY DEF TryProduct
  <2>4. TryBlock => input'.kind = "block"
    BY DEF TryBlock
  <2>5. Again => input'.kind = "none"
    BY DEF Again
  <2> QED
    BY <1>3, <2>1, <2>2, <2>3, <2>4, <2>5
<1>4. CASE TryKey \/ TryCoordinate
  <2>1. TryKey => input'.kind = "key"
    BY DEF TryKey
  <2>2. TryCoordinate => input'.kind = "coordinate"
    BY DEF TryCoordinate
  <2> QED
    BY <1>4, <2>1, <2>2
<1>5. CASE TryCall
  <2>1. PICK op \in DOMAIN Calls!Ops, v \in {"sycl", "vendor", "best"}, dt \in {"f32", "bf16"},
             M \in 1..2, onednn, cold \in BOOLEAN, fails \in {"nothing", "engine", "primitive"} :
          input' = [kind |-> "call",
                    call |-> [op |-> op, variant |-> v, dt |-> dt, M |-> M, onednn |-> onednn,
                              fails |-> fails, cold |-> cold]]
    BY <1>5 DEF TryCall
  <2> QED
    BY <2>1 DEF IsCall
<1> QED
  BY <1>1, <1>2, <1>3, <1>4, <1>5 DEF Next

\* Every call orders its commands.
THEOREM CallsOrdered == Spec => []CallOrdered
<1>1. Init => CallOrdered
  BY DEF Init, CallOrdered
<1>2. ASSUME CallOrdered, [Next]_input
      PROVE  CallOrdered'
  <2>1. CASE UNCHANGED input
    BY <1>2, <2>1 DEF CallOrdered
  <2>2. CASE Next
    BY <2>2, CallKind, CallsRight DEF CallOrdered
  <2> QED
    BY <1>2, <2>1, <2>2
<1> QED
  BY <1>1, <1>2, PTL DEF Spec

\* Every call delivers what it owes.
THEOREM CallsDeliver == Spec => []CallDelivers
<1>1. Init => CallDelivers
  BY DEF Init, CallDelivers
<1>2. ASSUME CallDelivers, [Next]_input
      PROVE  CallDelivers'
  <2>1. CASE UNCHANGED input
    BY <1>2, <2>1 DEF CallDelivers
  <2>2. CASE Next
    BY <2>2, CallKind, CallsRight DEF CallDelivers
  <2> QED
    BY <1>2, <2>1, <2>2
<1> QED
  BY <1>1, <1>2, PTL DEF Spec

\* Every operation offered for capture only submits.
THEOREM CapturesSafe == Spec => []CaptureSafe
<1>1. Init => CaptureSafe
  BY DEF Init, CaptureSafe
<1>2. ASSUME CaptureSafe, [Next]_input
      PROVE  CaptureSafe'
  <2>1. CASE UNCHANGED input
    BY <1>2, <2>1 DEF CaptureSafe
  <2>2. CASE Next
    BY <2>2, CallKind, CaptureOpsSubmit DEF CaptureSafe
  <2> QED
    BY <1>2, <2>1, <2>2
<1> QED
  BY <1>1, <1>2, PTL DEF Spec

-----------------------------------------------------------------------------
(* The inputs tried: codecs                                                 *)

\* Centroids that gaps keep apart.
LEMMA GapsIncrease ==
    ASSUME NEW n \in Nat \ {0}, NEW gaps \in [1..(n - 1) -> Nat \ {0}], NEW a \in Int,
           NEW i \in 1..n, NEW j \in 1..n
    PROVE  /\ Mass(gaps, 1..(i - 1)) - a \in Int
           /\ i < j => Mass(gaps, 1..(i - 1)) - a < Mass(gaps, 1..(j - 1)) - a
<1>1. \A m \in 1..n : Weighs(gaps, 1..(m - 1))
  <2>1. \A m \in 1..n : IsFiniteSet(1..(m - 1))
    BY FS_Interval
  <2> QED
    BY <2>1 DEF Weighs
<1>2. Mass(gaps, 1..(i - 1)) \in Nat /\ Mass(gaps, 1..(j - 1)) \in Nat
  BY <1>1, MassNat
<1>3. ASSUME i < j
      PROVE  Mass(gaps, 1..(i - 1)) < Mass(gaps, 1..(j - 1))
  <2>1. i \in 1..(n - 1) /\ gaps[i] \in Nat \ {0} /\ i \notin 1..(i - 1) /\ (1..(i - 1)) \cup {i} = 1..i
    BY <1>3
  <2>2. Mass(gaps, 1..i) = Mass(gaps, 1..(i - 1)) + gaps[i]
    BY <1>1, <2>1, MassAdd
  <2>3. 1..i \subseteq 1..(j - 1)
    BY <1>3
  <2>4. Mass(gaps, 1..i) <= Mass(gaps, 1..(j - 1))
    BY <1>1, <2>3, MassMono
  <2> QED
    BY <1>2, <2>1, <2>2, <2>4
<1> QED
  BY <1>2, <1>3

LEMMA CodecKinds ==
    ASSUME Next
    PROVE  /\ input'.kind = "float" =>
                \E e \in MinExp..MaxExp, m \in 0..31 : input'.e = e /\ input'.m = m
           /\ input'.kind = "coordinate" =>
                \E n \in {4, 8}, z \in -12..12 : \E gaps \in [1..(n - 1) -> {1, 2}] :
                  /\ input'.z = z
                  /\ input'.centroids = [m \in 1..n |-> Mass(gaps, 1..(m - 1)) - n]
           /\ input'.kind = "codes" =>
                \E bits \in 2..8 : \E c \in [0..(PackedCodes - 1) -> Codes(bits)] :
                  input'.bits = bits /\ input'.codes = c
           /\ input'.kind = "product" =>
                \E n \in 0..7, s \in 0..Saturated : input'.nibble = n /\ input'.scale = s
           /\ input'.kind = "key" =>
                \E passes \in 0..3 : \E at \in 0..(2^passes - 1), signs \in [0..(2^passes - 1) -> {-1, 1}] :
                  /\ input'.passes = passes /\ input'.signs = signs
                  /\ input'.key = [i \in 0..(2^passes - 1) |-> IF i = at THEN 1 ELSE 0]
<1>1. CASE TryTiles \/ TryLogits \/ TryShape \/ TryPlatforms \/ TryBlock \/ TryCall \/ Again
  <2>1. /\ TryTiles => input'.kind = "tiles"
        /\ TryLogits => input'.kind = "logits"
        /\ TryShape => input'.kind = "shape"
        /\ TryPlatforms => input'.kind = "platforms"
    BY DEF TryTiles, TryLogits, TryShape, TryPlatforms
  <2>2. TryBlock => input'.kind = "block"
    BY DEF TryBlock
  <2>3. TryCall => input'.kind = "call"
    BY DEF TryCall
  <2>4. Again => input'.kind = "none"
    BY DEF Again
  <2> QED
    BY <1>1, <2>1, <2>2, <2>3, <2>4
<1>2. CASE TryElements \/ TryRows \/ TryGemms \/ TryAttention
  BY <1>2, KernelKind
<1>3. CASE TryFloat
  BY <1>3 DEF TryFloat
<1>4. CASE TryCodes
  BY <1>4 DEF TryCodes
<1>5. CASE TryProduct
  BY <1>5 DEF TryProduct
<1>6. CASE TryKey
  <2>0. PICK passes \in 0..3 : \E at \in 0..(2^passes - 1), signs \in [0..(2^passes - 1) -> {-1, 1}] :
          input' = [kind |-> "key", passes |-> passes, signs |-> signs,
                    key |-> [i \in 0..(2^passes - 1) |-> IF i = at THEN 1 ELSE 0]]
    BY <1>6 DEF TryKey
  <2>1. PICK at \in 0..(2^passes - 1), signs \in [0..(2^passes - 1) -> {-1, 1}] :
          input' = [kind |-> "key", passes |-> passes, signs |-> signs,
                    key |-> [i \in 0..(2^passes - 1) |-> IF i = at THEN 1 ELSE 0]]
    BY <2>0
  <2>2. /\ input'.kind = "key" /\ input'.passes = passes /\ input'.signs = signs
        /\ input'.key = [i \in 0..(2^passes - 1) |-> IF i = at THEN 1 ELSE 0]
    BY <2>1
  <2>3. \E ps \in 0..3 : \E a \in 0..(2^ps - 1), ss \in [0..(2^ps - 1) -> {-1, 1}] :
          /\ input'.passes = ps /\ input'.signs = ss
          /\ input'.key = [i \in 0..(2^ps - 1) |-> IF i = a THEN 1 ELSE 0]
    BY <2>2
  <2> QED
    BY <2>2, <2>3
<1>7. CASE TryCoordinate
  <2>0. PICK n \in {4, 8}, z \in -12..12 : \E gaps \in [1..(n - 1) -> {1, 2}] :
          input' = [kind |-> "coordinate", z |-> z, centroids |-> [m \in 1..n |-> Mass(gaps, 1..(m - 1)) - n]]
    BY <1>7 DEF TryCoordinate
  <2>1. PICK gaps \in [1..(n - 1) -> {1, 2}] :
          input' = [kind |-> "coordinate", z |-> z, centroids |-> [m \in 1..n |-> Mass(gaps, 1..(m - 1)) - n]]
    BY <2>0
  <2>2. /\ input'.kind = "coordinate" /\ input'.z = z
        /\ input'.centroids = [m \in 1..n |-> Mass(gaps, 1..(m - 1)) - n]
    BY <2>1
  <2>3. \E nn \in {4, 8}, zz \in -12..12 : \E gs \in [1..(nn - 1) -> {1, 2}] :
          /\ input'.z = zz
          /\ input'.centroids = [m \in 1..nn |-> Mass(gs, 1..(m - 1)) - nn]
    BY <2>2
  <2> QED
    BY <2>2, <2>3
<1> QED
  BY <1>1, <1>2, <1>3, <1>4, <1>5, <1>6, <1>7 DEF Next

LEMMA FloatsRight ==
    ASSUME NEW e \in Int, e >= MinExp, NEW m \in 0..31
    PROVE  LET x == F32(e, m)
               code == EncodeE4M3(e, m)
               half == EncodeHalf(e, m)
               off(v) == Abs(v - x)
           IN  /\ code \in 0..Saturated
               /\ \A c \in (0..Saturated) \ {code} :
                    off(E4M3(code)) < off(E4M3(c)) \/ (off(E4M3(code)) = off(E4M3(c)) /\ code % 2 = 0)
               /\ half \in 0..Infinity
               /\ \A h \in (0..Infinity) \ {half} :
                    \/ off(HalfValue(half)) < off(HalfValue(h))
                    \/ off(HalfValue(half)) = off(HalfValue(h)) /\ half % 2 = 0
<1>1. PICK x, code, half : x = F32(e, m) /\ code = EncodeE4M3(e, m) /\ half = EncodeHalf(e, m)
  OBVIOUS
<1>2. /\ code \in 0..Saturated
      /\ \A c \in (0..Saturated) \ {code} :
           Abs(E4M3(code) - x) < Abs(E4M3(c) - x) \/ (Abs(E4M3(code) - x) = Abs(E4M3(c) - x) /\ code % 2 = 0)
  <2>1. NearestOf(code, x, Saturated)
    BY <1>1, E4M3Nearest
  <2> QED
    BY <2>1 DEF NearestOf
<1>3. /\ half \in 0..Infinity
      /\ \A h \in (0..Infinity) \ {half} :
           \/ Abs(HalfValue(half) - x) < Abs(HalfValue(h) - x)
           \/ Abs(HalfValue(half) - x) = Abs(HalfValue(h) - x) /\ half % 2 = 0
  <2>1. NearestOf(half, x, Infinity)
    BY <1>1, HalfNearest
  <2>2. \A h \in 0..Infinity : HalfValue(h) = E4M3(h)
    <3>1. \A h \in 0..Infinity : h \in Nat
      BY DEF Infinity
    <3> QED
      BY <3>1, HalfIsGrid
  <2> QED
    BY <2>1, <2>2 DEF NearestOf
<1> QED
  BY <1>1, <1>2, <1>3

\* The centroids tried: any gaps apart.
LEMMA TriedCentroids ==
    ASSUME NEW n \in {4, 8}, NEW gaps \in [1..(n - 1) -> {1, 2}],
           NEW c, c = [m \in 1..n |-> Mass(gaps, 1..(m - 1)) - n]
    PROVE  c \in [1..n -> Int] /\ \A i, j \in 1..n : i < j => c[i] < c[j]
<1>1. n \in Nat \ {0} /\ n \in Int
  OBVIOUS
<1>2. gaps \in [1..(n - 1) -> Nat \ {0}]
  BY SMTT(30)
<1>3. \A i, j \in 1..n : /\ Mass(gaps, 1..(i - 1)) - n \in Int
                         /\ i < j => Mass(gaps, 1..(i - 1)) - n < Mass(gaps, 1..(j - 1)) - n
  BY <1>1, <1>2, GapsIncrease
<1> QED
  BY <1>3

\* The encoders return what is nearest: bytes, halves and keys.
THEOREM EncodesNearest == Spec => []EncodeNearest
<1>1. Init => EncodeNearest
  BY DEF Init, EncodeNearest
<1>2. ASSUME EncodeNearest, [Next]_input
      PROVE  EncodeNearest'
  <2>1. CASE UNCHANGED input
    BY <1>2, <2>1 DEF EncodeNearest
  <2>2. CASE Next
    <3>1. ASSUME input'.kind = "float"
          PROVE  LET x == F32(input'.e, input'.m)
                     code == EncodeE4M3(input'.e, input'.m)
                     half == EncodeHalf(input'.e, input'.m)
                     off(v) == Abs(v - x)
                 IN  /\ code \in 0..Saturated
                     /\ \A c \in (0..Saturated) \ {code} :
                          off(E4M3(code)) < off(E4M3(c)) \/ (off(E4M3(code)) = off(E4M3(c)) /\ code % 2 = 0)
                     /\ half \in 0..Infinity
                     /\ \A h \in (0..Infinity) \ {half} :
                          \/ off(HalfValue(half)) < off(HalfValue(h))
                          \/ off(HalfValue(half)) = off(HalfValue(h)) /\ half % 2 = 0
      <4>1. PICK e, m : e = input'.e /\ m = input'.m
        OBVIOUS
      <4>2. e \in Int /\ e >= MinExp /\ m \in 0..31
        <5>1. e \in MinExp..MaxExp /\ m \in 0..31
          BY <2>2, <3>1, <4>1, CodecKinds
        <5> QED
          BY <5>1 DEF MinExp, MaxExp
      <4>3. LET x == F32(e, m)
                code == EncodeE4M3(e, m)
                half == EncodeHalf(e, m)
                off(v) == Abs(v - x)
            IN  /\ code \in 0..Saturated
                /\ \A c \in (0..Saturated) \ {code} :
                     off(E4M3(code)) < off(E4M3(c)) \/ (off(E4M3(code)) = off(E4M3(c)) /\ code % 2 = 0)
                /\ half \in 0..Infinity
                /\ \A h \in (0..Infinity) \ {half} :
                     \/ off(HalfValue(half)) < off(HalfValue(h))
                     \/ off(HalfValue(half)) = off(HalfValue(h)) /\ half % 2 = 0
        BY <4>2, FloatsRight
      <4> QED
        BY <4>1, <4>3
    <3>2. ASSUME input'.kind = "coordinate"
          PROVE  LET code == KeyCode(input'.z, input'.centroids)
                     off(c) == Abs(input'.centroids[c + 1] - input'.z)
                 IN  /\ code \in 0..(Len(input'.centroids) - 1)
                     /\ \A c \in 0..(Len(input'.centroids) - 1) :
                          off(code) < off(c) \/ (off(code) = off(c) /\ code <= c)
      <4>1. PICK z, c : z = input'.z /\ c = input'.centroids
        OBVIOUS
      <4>2. \E n \in {4, 8}, zz \in -12..12 : \E gaps \in [1..(n - 1) -> {1, 2}] :
              z = zz /\ c = [m \in 1..n |-> Mass(gaps, 1..(m - 1)) - n]
        BY <2>2, <3>2, <4>1, CodecKinds
      <4>3. PICK n \in {4, 8} : z \in -12..12 /\ \E gaps \in [1..(n - 1) -> {1, 2}] :
              c = [m \in 1..n |-> Mass(gaps, 1..(m - 1)) - n]
        BY <4>2
      <4>4. c \in [1..n -> Int] /\ (\A i, j \in 1..n : i < j => c[i] < c[j])
        BY <4>3, TriedCentroids
      <4>5. n \in Nat \ {0} /\ z \in Int
        BY <4>3
      <4>6. /\ Len(c) = n /\ KeyCode(z, c) \in 0..(n - 1)
            /\ \A j \in 0..(n - 1) :
                 \/ Abs(c[KeyCode(z, c) + 1] - z) < Abs(c[j + 1] - z)
                 \/ Abs(c[KeyCode(z, c) + 1] - z) = Abs(c[j + 1] - z) /\ KeyCode(z, c) <= j
        BY <4>4, <4>5, CentroidNearest
      <4> QED
        BY <4>1, <4>6
    <3> QED
      BY <3>1, <3>2 DEF EncodeNearest
  <2> QED
    BY <1>2, <2>1, <2>2
<1> QED
  BY <1>1, <1>2, PTL DEF Spec

\* The decoders return what was encoded: keys, packed codes, fused products.
THEOREM DecodesExact == Spec => []DecodeExact
<1>1. Init => DecodeExact
  BY DEF Init, DecodeExact
<1>2. ASSUME DecodeExact, [Next]_input
      PROVE  DecodeExact'
  <2>1. CASE UNCHANGED input
    BY <1>2, <2>1 DEF DecodeExact
  <2>2. CASE Next
    <3>1. ASSUME input'.kind = "key"
          PROVE  Restored(Rotated(input'.key, input'.signs, input'.passes), input'.signs, input'.passes)
                   = [i \in DOMAIN input'.key |-> 2^(input'.passes) * input'.key[i]]
      <4>0. PICK passes \in 0..3 : \E at \in 0..(2^passes - 1), signs \in [0..(2^passes - 1) -> {-1, 1}] :
              /\ input'.passes = passes /\ input'.signs = signs
              /\ input'.key = [i \in 0..(2^passes - 1) |-> IF i = at THEN 1 ELSE 0]
        BY <2>2, <3>1, CodecKinds
      <4>1. PICK signs, key : passes = input'.passes /\ signs = input'.signs /\ key = input'.key
        BY <4>0
      <4>2. /\ passes \in 0..3 /\ signs \in [0..(2^passes - 1) -> {-1, 1}]
            /\ \E at \in 0..(2^passes - 1) : key = [i \in 0..(2^passes - 1) |-> IF i = at THEN 1 ELSE 0]
        BY <4>0, <4>1
      <4>3. key \in Vectors(2^passes) /\ passes \in Nat
        BY <4>2 DEF Vectors
      <4>4. Restored(Rotated(key, signs, passes), signs, passes) = [i \in DOMAIN key |-> 2^passes * key[i]]
        BY <4>2, <4>3, KeyRestored
      <4> QED
        BY <4>1, <4>4
    <3>2. ASSUME input'.kind = "codes"
          PROVE  LET row == PackCodes(input'.codes, PackedCodes, input'.bits) IN
                 \A i \in 0..(PackedCodes - 1) : UnpackCode(row, i, input'.bits) = input'.codes[i]
      <4>1. PICK bits, codes : bits = input'.bits /\ codes = input'.codes
        OBVIOUS
      <4>2. bits \in 2..8 /\ codes \in [0..(PackedCodes - 1) -> Codes(bits)]
        BY <2>2, <3>2, <4>1, CodecKinds
      <4>3. bits \in 1..8 /\ codes \in [0..(PackedCodes - 1) -> SUBSET (0..(bits - 1))] /\ PackedCodes \in Nat
        <5>1. Codes(bits) \subseteq SUBSET (0..(bits - 1))
          BY <4>2 DEF Codes
        <5> QED
          BY <4>2, <5>1 DEF PackedCodes
      <4>4. \A i \in 0..(PackedCodes - 1) : UnpackCode(PackCodes(codes, PackedCodes, bits), i, bits) = codes[i]
        BY <4>3, CodesUnpacked
      <4> QED
        BY <4>1, <4>4
    <3>3. ASSUME input'.kind = "product"
          PROVE  FusedProduct(input'.nibble, input'.scale) = E2M1(input'.nibble) * E4M3(input'.scale)
      <4>1. PICK n, s : n = input'.nibble /\ s = input'.scale
        OBVIOUS
      <4>2. n \in Nat /\ s \in Nat
        <5>1. n \in 0..7 /\ s \in 0..Saturated
          BY <2>2, <3>3, <4>1, CodecKinds
        <5> QED
          BY <5>1 DEF Saturated
      <4>3. FusedProduct(n, s) = E2M1(n) * E4M3(s)
        BY <4>2, FusedExact
      <4> QED
        BY <4>1, <4>3
    <3> QED
      BY <3>1, <3>2, <3>3 DEF DecodeExact
  <2> QED
    BY <1>2, <2>1, <2>2
<1> QED
  BY <1>1, <1>2, PTL DEF Spec

-----------------------------------------------------------------------------
(* The routed NVFP4 MoE                                                     *)

\* An entry of a pair's projections belongs to the row of I it is modulo I.
LEMMA EntryIs ==
    ASSUME NEW I \in Nat \ {0}, NEW gated \in BOOLEAN, NEW rows, \A x \in rows : x \in Upto(I)
    PROVE  /\ Width(I, gated) \in Nat \ {0}
           /\ \A e : e \in Entries(rows, I, gated) <=> e \in Upto(Width(I, gated)) /\ e % I \in rows
<1>1. Width(I, gated) = (IF gated THEN 2 * I ELSE I) /\ Width(I, gated) \in Nat \ {0}
  BY DEF Width
<1>2. ASSUME NEW x \in Upto(I)
      PROVE  x % I = x /\ (x + I) % I = x /\ x \in Nat /\ x < I
  <2>1. x \in Nat /\ x < I
    BY DEF Upto
  <2>2. (0 * I + x) % I = x /\ (1 * I + x) % I = x
    BY DivisionUnique
  <2> QED
    BY <2>1, <2>2
<1>3. ASSUME NEW e \in Entries(rows, I, gated)
      PROVE  e \in Upto(Width(I, gated)) /\ e % I \in rows
  <2>1. CASE e \in rows
    <3>1. e % I = e /\ e \in Nat /\ e < I
      BY <1>2, <2>1
    <3> QED
      BY <1>1, <2>1, <3>1 DEF Upto
  <2>2. CASE e \notin rows
    <3>1. PICK x \in rows : e = x + I /\ gated
      BY <2>2 DEF Entries
    <3>2. e % I = x /\ x \in Nat /\ x < I
      BY <1>2, <3>1
    <3> QED
      BY <1>1, <3>1, <3>2 DEF Upto
  <2> QED
    BY <2>1, <2>2
<1>4. ASSUME NEW e \in Upto(Width(I, gated)), e % I \in rows
      PROVE  e \in Entries(rows, I, gated)
  <2>1. e \in Nat /\ e < Width(I, gated)
    BY <1>1 DEF Upto
  <2>2. CASE e < I
    <3>1. e % I = e
      BY <1>2, <2>1, <2>2 DEF Upto
    <3> QED
      BY <1>4, <3>1 DEF Entries
  <2>3. CASE ~(e < I)
    <3>1. gated /\ e - I \in Upto(I) /\ (e - I) + I = e
      BY <1>1, <2>1, <2>3 DEF Upto
    <3>2. e % I = e - I
      BY <1>2, <3>1
    <3>3. e - I \in rows
      BY <1>4, <3>2
    <3> QED
      BY <3>1, <3>3 DEF Entries
  <2> QED
    BY <2>2, <2>3
<1> QED
  BY <1>1, <1>3, <1>4

RoutedPairs(ids, E) == {p \in Upto(Len(ids)) : Routed(ids, p, E)}

LEMMA RoutedNat ==
    ASSUME NEW ids \in Seq(Int), NEW E
    PROVE  Len(ids) \in Nat /\ \A p \in RoutedPairs(ids, E) : p \in Nat /\ p \in Upto(Len(ids)) /\ Routed(ids, p, E)
  BY DEF RoutedPairs, Upto

\* gate_up_typed, relu2_up_typed: a sub-group to a row of a pair's projections.
THEOREM MoeProjectRight ==
    ASSUME NEW ids \in Seq(Int), NEW E, NEW K \in Nat, NEW chunk \in Nat \ {0}, K % chunk = 0,
           NEW I \in Nat \ {0}, NEW gated \in BOOLEAN
    PROVE  KernelRight(MoeProject(ids, E, K, I, chunk, gated))
<1> DEFINE n == Len(ids)
           tiles == CeilDiv(I, Subgroups)
           G == Grid(n * tiles, MoeLanes)
           pair(i) == i[1] \div tiles
           row(i) == (i[1] % tiles) * Subgroups + SgOf(i[2])
           of(p, rows) == At("scratch", p * Width(I, gated), Entries(rows, I, gated))
           works(i) == Routed(ids, pair(i), E) /\ row(i) < I
           project(i) == Does({}, Lead(i[2], of(pair(i), {row(i)})),
                              Projects(i[2], of(pair(i), {row(i)}), K, chunk))
           d == [i \in G |-> IF works(i) THEN project(i) ELSE Idle]
           live == {i \in G : works(i)}
           cells == [i \in G |-> of(pair(i), {row(i)})]
           lane == [i \in G |-> DotLane(i)]
           terms == [l \in Upto(DotLanes) |-> ChunkElems(l, chunk, K)]
           W == [i \in G |-> d[i].wr]
           A == [i \in G |-> d[i].add]
           out == UNION {of(p, Upto(I)) : p \in RoutedPairs(ids, E)}
           k == MoeProject(ids, E, K, I, chunk, gated)
<1>1. k = Kernel(<<d>>, out, out \X Upto(K))
  BY DEF MoeProject, RoutedPairs
<1>2. /\ DotLanes \in Nat \ {0} /\ 0 \in Upto(DotLanes) /\ Subgroups \in Nat \ {0} /\ n \in Nat
      /\ tiles = CeilDivide(I, Subgroups) /\ tiles \in Nat \ {0}
  <2>1. DotLanes \in Nat \ {0} /\ Subgroups \in Nat \ {0} /\ n \in Nat
    BY GemmAssumption, OutputAssumption
  <2>2. tiles = CeilDivide(I, Subgroups)
    BY DEF CeilDiv, CeilDivide
  <2>3. tiles \in Nat \ {0}
    BY <2>1, <2>2, CeilAbove
  <2> QED
    BY <2>1, <2>2, <2>3 DEF Upto
<1>3. Shares(terms, Upto(K))
  BY ChunksShare
<1>4. G = RowGrid(n, tiles, Subgroups)
  BY DEF RowGrid, MoeLanes
<1>5. \A i : row(i) = RowAt(i, tiles, Subgroups)
  BY DEF RowAt, SgOf
<1> DEFINE w == Width(I, gated)
<1>6. w \in Nat \ {0}
  BY EntryIs
<1>7. ASSUME NEW p, NEW rows, \A x \in rows : x \in Upto(I), NEW c
      PROVE  c \in of(p, rows) <=> \E e \in Upto(w) : e % I \in rows /\ c = <<"scratch", p * w + e>>
  <2>1. \A e : e \in Entries(rows, I, gated) <=> e \in Upto(w) /\ e % I \in rows
    BY <1>7, EntryIs
  <2>2. c \in of(p, rows) <=> \E e \in Entries(rows, I, gated) : c = <<"scratch", p * w + e>>
    BY DEF At
  <2> HIDE DEF of, w
  <2> QED
    BY <2>1, <2>2
<1>8. ASSUME NEW i \in G
      PROVE  /\ row(i) \in Nat /\ pair(i) \in Upto(n) /\ pair(i) \in Nat /\ DotLane(i) \in Upto(DotLanes)
             /\ HasRow(i, tiles, Subgroups, pair(i), row(i), DotLane(i))
  <2>1. /\ RowAt(i, tiles, Subgroups) \in Nat /\ DotLane(i) \in Upto(DotLanes) /\ i[1] \div tiles \in Upto(n)
    <3> HIDE DEF tiles, G, n
    <3> QED
      BY <1>2, <1>4, RowItem
  <2>2. HasRow(i, tiles, Subgroups, i[1] \div tiles, RowAt(i, tiles, Subgroups), DotLane(i))
    BY DEF HasRow
  <2>3. pair(i) \in Nat
    BY <1>2, <2>1 DEF Upto
  <2> QED
    BY <1>5, <2>1, <2>2, <2>3
<1> HIDE DEF tiles, n, of
<1>9. \A i \in G : /\ W[i] = IF i \in live /\ lane[i] = 0 THEN cells[i] ELSE {}
                   /\ A[i] = IF i \in live THEN cells[i] \X terms[lane[i]] ELSE {}
                   /\ d[i].rd = {} /\ d[i].wr = W[i] /\ d[i].add = A[i]
  <2> SUFFICES ASSUME NEW i \in G
               PROVE  /\ W[i] = IF i \in live /\ lane[i] = 0 THEN cells[i] ELSE {}
                      /\ A[i] = IF i \in live THEN cells[i] \X terms[lane[i]] ELSE {}
                      /\ d[i].rd = {} /\ d[i].wr = W[i] /\ d[i].add = A[i]
    OBVIOUS
  <2>1. terms[lane[i]] = ChunkElems(i[2] % DotLanes, chunk, K) /\ lane[i] = i[2] % DotLanes
    BY <1>8 DEF DotLane
  <2>2. i \in live <=> works(i)
    OBVIOUS
  <2>3. d[i].wr = W[i] /\ d[i].add = A[i]
    OBVIOUS
  <2>4. cells[i] = of(pair(i), {row(i)})
    OBVIOUS
  <2>5. /\ project(i).rd = {} /\ project(i).wr = Lead(i[2], of(pair(i), {row(i)}))
        /\ project(i).add = Projects(i[2], of(pair(i), {row(i)}), K, chunk)
    BY DoesIs
  <2>6. Idle.rd = {} /\ Idle.wr = {} /\ Idle.add = {}
    BY DEF Idle, Does
  <2>7. d[i] = IF works(i) THEN project(i) ELSE Idle
    OBVIOUS
  <2> HIDE DEF d, W, A, live, lane, terms, cells, works, project, row, pair
  <2> QED
    BY <2>1, <2>2, <2>3, <2>4, <2>5, <2>6, <2>7 DEF Lead, Projects
<1>10. ASSUME NEW i \in live
       PROVE  /\ i \in G /\ pair(i) \in RoutedPairs(ids, E) /\ row(i) \in Upto(I)
              /\ \A c : c \in cells[i] <=> \E e \in Upto(w) : e % I = row(i) /\ c = <<"scratch", pair(i) * w + e>>
  <2>1. i \in G /\ pair(i) \in RoutedPairs(ids, E) /\ row(i) \in Upto(I)
    BY <1>8 DEF RoutedPairs, Upto, n
  <2>2. cells[i] = of(pair(i), {row(i)})
    BY <2>1
  <2> HIDE DEF row, pair, w, live, G
  <2>3. \A x \in {row(i)} : x \in Upto(I)
    BY <2>1
  <2>4. \A c : c \in of(pair(i), {row(i)}) <=> \E e \in Upto(w) : e % I \in {row(i)} /\ c = <<"scratch", pair(i) * w + e>>
    BY <1>7, <2>3
  <2> QED
    BY <2>1, <2>2, <2>4
<1>11. \A c : c \in out <=> \E p \in RoutedPairs(ids, E) : \E e \in Upto(w) : e % I \in Upto(I) /\ c = <<"scratch", p * w + e>>
  <2>1. \A p : \A c : c \in of(p, Upto(I)) <=> \E e \in Upto(w) : e % I \in Upto(I) /\ c = <<"scratch", p * w + e>>
    BY <1>7
  <2>2. \A c : c \in out <=> \E p \in RoutedPairs(ids, E) : c \in of(p, Upto(I))
    OBVIOUS
  <2> HIDE DEF out, w
  <2> QED
    BY <2>1, <2>2
<1>12. LanedDots(W, A, live, cells, lane, DotLanes, terms, out, Upto(K))
  <2>1. \A i \in live : lane[i] = DotLane(i) /\ lane[i] \in Upto(DotLanes)
    BY <1>8, <1>10
  <2>2. ASSUME NEW i \in live, NEW c \in cells[i]
        PROVE  c \in out
    <3> HIDE DEF row, pair, w, live, cells, out
    <3>1. PICK e \in Upto(w) : e % I = row(i) /\ c = <<"scratch", pair(i) * w + e>>
      BY <1>10
    <3>2. e % I \in Upto(I) /\ pair(i) \in RoutedPairs(ids, E)
      BY <1>10, <3>1
    <3> QED
      BY <1>11, <3>1, <3>2
  <2>3. ASSUME NEW i \in live, NEW j \in live, NEW c, c \in cells[i], c \in cells[j], lane[i] = lane[j]
        PROVE  i = j
    <3> HIDE DEF row, pair, w, live, cells, lane
    <3>1. PICK e \in Upto(w) : e % I = row(i) /\ c = <<"scratch", pair(i) * w + e>>
      BY <1>10, <2>3
    <3>2. PICK f \in Upto(w) : f % I = row(j) /\ c = <<"scratch", pair(j) * w + f>>
      BY <1>10, <2>3
    <3>3. pair(i) \in Nat /\ pair(j) \in Nat /\ pair(i) * w + e = pair(j) * w + f
      BY <1>8, <1>10, <3>1, <3>2
    <3>4. pair(i) = pair(j) /\ e = f
      <4>1. (pair(i) * w + e) \div w = pair(i) /\ (pair(i) * w + e) % w = e
        BY <1>6, <3>3, DivisionUnique
      <4>2. (pair(j) * w + f) \div w = pair(j) /\ (pair(j) * w + f) % w = f
        BY <1>6, <3>3, DivisionUnique
      <4> QED
        BY <3>3, <4>1, <4>2
    <3>5. row(i) = row(j)
      BY <3>1, <3>2, <3>4
    <3>6. HasRow(i, tiles, Subgroups, pair(i), row(i), lane[i]) /\ HasRow(j, tiles, Subgroups, pair(i), row(i), lane[i])
      BY <1>8, <1>10, <2>1, <2>3, <3>4, <3>5
    <3>7. i \in RowGrid(n, tiles, Subgroups) /\ j \in RowGrid(n, tiles, Subgroups)
      BY <1>4, <1>10
    <3> QED
      BY <1>2, <3>6, <3>7, RowApart
  <2>4. ASSUME NEW c \in out, NEW l \in Upto(DotLanes)
        PROVE  \E i \in live : c \in cells[i] /\ lane[i] = l
    <3>1. PICK p \in RoutedPairs(ids, E) : \E e \in Upto(w) : e % I \in Upto(I) /\ c = <<"scratch", p * w + e>>
      BY <1>11
    <3>2. PICK e \in Upto(w) : e % I \in Upto(I) /\ c = <<"scratch", p * w + e>>
      BY <3>1
    <3>3. p \in Upto(n) /\ Routed(ids, p, E)
      BY DEF RoutedPairs, n
    <3>4. PICK i \in RowGrid(n, tiles, Subgroups) : HasRow(i, tiles, Subgroups, p, e % I, l)
      <4>1. PICK x \in Nat : x = e % I /\ x < I
        BY <3>2 DEF Upto
      <4>2. x \div Subgroups < tiles
        BY <1>2, <4>1, CeilAbove
      <4> QED
        BY <1>2, <3>3, <4>1, <4>2, RowCovers
    <3>5. i \in G /\ pair(i) = p /\ row(i) = e % I /\ DotLane(i) = l
      BY <1>4, <1>5, <3>4 DEF HasRow
    <3>6. i \in live /\ lane[i] = l
      BY <3>2, <3>3, <3>5 DEF Upto
    <3>7. c \in cells[i]
      BY <1>10, <3>2, <3>5, <3>6
    <3> QED
      BY <3>6, <3>7
  <2>5. DOMAIN W = G /\ DOMAIN A = G /\ DOMAIN terms = Upto(DotLanes) /\ live \subseteq G
    OBVIOUS
  <2> HIDE DEF W, A, live, cells, lane, terms, out, G
  <2> QED
    BY <1>2, <1>3, <1>9, <2>1, <2>2, <2>3, <2>4, <2>5 DEF LanedDots
<1>13. DOMAIN W = G /\ DOMAIN A = G /\ DOMAIN d = G
  OBVIOUS
<1>14. \A c \in out : IsGlobal(c)
  BY <1>11, GlobalCell
<1> HIDE DEF W, A, live, cells, lane, terms, out, G, d, k
<1>15. Shares(W, out) /\ Shares(A, out \X Upto(K))
  BY <1>12, LanedShares
<1>16. \A i \in DOMAIN d : d[i].wr = W[i] /\ d[i].add = A[i] /\ \A c \in d[i].rd \cup W[i] : IsGlobal(c)
  <2>1. \A i \in G : W[i] \subseteq out
    BY <1>13, <1>15 DEF Shares
  <2> QED
    BY <1>9, <1>13, <1>14, <2>1
<1>17. \A i, j \in DOMAIN d : \A c : c \in W[i] /\ c \in d[j].rd => i = j
  BY <1>9, <1>13
<1>18. KernelRight(k)
  BY <1>1, <1>13, <1>15, <1>16, <1>17, OneRight
<1> QED
  BY <1>18 DEF k

\* Items that add, each for a pair of its own, the shares of some rows.
Combines(A, live, pair, rows, share, ids, E, topK, K, I) ==
    /\ live \subseteq DOMAIN A
    /\ \A i \in DOMAIN A :
         A[i] = IF i \in live
                THEN {<<"output", (pair[i] \div topK) * K + row>> : row \in rows[i]} \X {<<pair[i], x>> : x \in share[i]}
                ELSE {}
    /\ \A i \in live : /\ pair[i] \in RoutedPairs(ids, E) /\ \A row \in rows[i] : row \in Upto(K)
                       /\ \A x \in share[i] : x \in Upto(I)
    /\ \A i, j \in live : \A row, x :
         /\ pair[i] = pair[j] /\ row \in rows[i] /\ row \in rows[j] /\ x \in share[i] /\ x \in share[j]
         => i = j
    /\ \A p \in RoutedPairs(ids, E) : \A row \in Upto(K) : \A x \in Upto(I) :
         \E i \in live : pair[i] = p /\ row \in rows[i] /\ x \in share[i]

LEMMA CombineShares ==
    ASSUME NEW ids \in Seq(Int), NEW E, NEW topK \in Nat \ {0}, NEW K \in Nat, NEW I,
           NEW A, NEW live, NEW pair, NEW rows, NEW share, Combines(A, live, pair, rows, share, ids, E, topK, K, I)
    PROVE  Shares(A, OutputSums(ids, E, topK, K, I))
<1> DEFINE G == DOMAIN A
           Term(p, row, x) == <<<<"output", (p \div topK) * K + row>>, <<p, x>>>>
           all == OutputSums(ids, E, topK, K, I)
           P == RoutedPairs(ids, E)
<1>1. /\ live \subseteq G
      /\ \A i \in live : /\ pair[i] \in P /\ \A row \in rows[i] : row \in Upto(K)
                         /\ \A x \in share[i] : x \in Upto(I)
      /\ \A i, j \in live : \A row, x :
           /\ pair[i] = pair[j] /\ row \in rows[i] /\ row \in rows[j] /\ x \in share[i] /\ x \in share[j]
           => i = j
      /\ \A p \in P : \A row \in Upto(K) : \A x \in Upto(I) :
           \E i \in live : pair[i] = p /\ row \in rows[i] /\ x \in share[i]
  BY DEF Combines
<1>2. \A i \in G : \A z : z \in A[i] <=> i \in live /\ \E row \in rows[i] : \E x \in share[i] : z = Term(pair[i], row, x)
  <2> SUFFICES ASSUME NEW i \in G, NEW z
               PROVE  z \in A[i] <=> i \in live /\ \E row \in rows[i] : \E x \in share[i] : z = Term(pair[i], row, x)
    OBVIOUS
  <2>1. A[i] = IF i \in live
               THEN {<<"output", (pair[i] \div topK) * K + row>> : row \in rows[i]} \X {<<pair[i], x>> : x \in share[i]}
               ELSE {}
    BY DEF Combines
  <2> QED
    BY <2>1
<1>3. \A z : z \in all <=> \E p \in P : \E row \in Upto(K) : \E x \in Upto(I) : z = Term(p, row, x)
  <2> DEFINE of(p) == {<<"output", (p \div topK) * K + row>> : row \in Upto(K)} \X {<<p, x>> : x \in Upto(I)}
  <2>1. all = UNION {of(p) : p \in P}
    BY DEF OutputSums, RoutedPairs
  <2>2. \A p : \A z : z \in of(p) <=> \E row \in Upto(K) : \E x \in Upto(I) : z = Term(p, row, x)
    OBVIOUS
  <2> HIDE DEF of, all, Term, P
  <2> QED
    BY <2>1, <2>2
<1>4. ASSUME NEW p \in P, NEW q \in P, NEW row \in Upto(K), NEW line \in Upto(K), NEW x, NEW y,
             Term(p, row, x) = Term(q, line, y)
      PROVE  p = q /\ row = line /\ x = y
  <2>1. p = q /\ x = y /\ (p \div topK) * K + row = (q \div topK) * K + line
    BY <1>4
  <2>2. p \in Nat /\ row \in Nat /\ line \in Nat
    BY RoutedNat DEF Upto
  <2>3. PICK b \in Nat : b = (p \div topK) * K
    BY <2>2, DivisionOf, ProductNat
  <2>4. b + row = b + line
    BY <2>1, <2>3
  <2> QED
    BY <2>1, <2>2, <2>4
<1> HIDE DEF Term, all, G, P
<1>5. \A i \in G : A[i] \subseteq all
  <2> SUFFICES ASSUME NEW i \in G, NEW z \in A[i]
               PROVE  z \in all
    OBVIOUS
  <2>1. PICK row \in rows[i] : \E x \in share[i] : z = Term(pair[i], row, x)
    BY <1>2
  <2>2. PICK x \in share[i] : z = Term(pair[i], row, x)
    BY <2>1
  <2>3. i \in live
    BY <1>2
  <2> QED
    BY <1>1, <1>3, <2>1, <2>2, <2>3
<1>6. ASSUME NEW z \in all
      PROVE  \E i \in G : z \in A[i]
  <2>1. PICK p \in P : \E row \in Upto(K) : \E x \in Upto(I) : z = Term(p, row, x)
    BY <1>3
  <2>2. PICK row \in Upto(K) : \E x \in Upto(I) : z = Term(p, row, x)
    BY <2>1
  <2>3. PICK x \in Upto(I) : z = Term(p, row, x)
    BY <2>2
  <2>4. PICK i \in live : pair[i] = p /\ row \in rows[i] /\ x \in share[i]
    BY <1>1
  <2> QED
    BY <1>1, <1>2, <2>3, <2>4
<1>7. ASSUME NEW i \in G, NEW j \in G, NEW z, z \in A[i], z \in A[j]
      PROVE  i = j
  <2>1. i \in live /\ j \in live
    BY <1>2, <1>7
  <2>2. PICK row \in rows[i] : \E x \in share[i] : z = Term(pair[i], row, x)
    BY <1>2, <1>7
  <2>3. PICK x \in share[i] : z = Term(pair[i], row, x)
    BY <2>2
  <2>4. PICK line \in rows[j] : \E y \in share[j] : z = Term(pair[j], line, y)
    BY <1>2, <1>7
  <2>5. PICK y \in share[j] : z = Term(pair[j], line, y)
    BY <2>4
  <2>6. pair[i] = pair[j] /\ row = line /\ x = y
    <3>1. PICK p \in P, q \in P : p = pair[i] /\ q = pair[j]
      BY <1>1, <2>1
    <3>2. row \in Upto(K) /\ line \in Upto(K)
      BY <1>1, <2>1, <2>2, <2>4
    <3>3. Term(p, row, x) = Term(q, line, y)
      BY <2>3, <2>5, <3>1
    <3> QED
      BY <1>4, <3>1, <3>2, <3>3
  <2> QED
    BY <1>1, <2>1, <2>6
<1> QED
  BY <1>5, <1>6, <1>7, SharesBy DEF G, all

\* The rows of a tile of height steps of the sub-groups.
LEMMA TileRow ==
    ASSUME NEW h \in Nat \ {0}, NEW tile \in Nat, NEW sg \in Upto(Subgroups), NEW r \in Upto(h), NEW row,
           row = RowOf(tile, sg, r, h)
    PROVE  row \in Nat /\ row % Subgroups = sg /\ (row \div Subgroups) \div h = tile
<1>1. PICK S \in Nat \ {0} : S = Subgroups
  BY OutputAssumption
<1>2. r \in Nat
  BY DEF Upto
<1>3. PICK q \in Nat : q = tile * h + r /\ q \div h = tile
  BY DivisionUnique
<1>4. (q * S + sg) \div S = q /\ (q * S + sg) % S = sg /\ q * S + sg \in Nat
  BY <1>1, DivisionUnique
<1>5. row = q * S + sg
  <2>1. sg \in Int
    BY <1>1 DEF Upto
  <2>2. row = tile * S * h + sg + r * S
    BY <1>1 DEF RowOf
  <2>3. (tile * h + r) * S = tile * S * h + r * S
    BY <1>1, <1>2
  <2>4. tile * S * h \in Nat /\ r * S \in Nat
    BY <1>1, <1>2, ProductNat
  <2>5. PICK a \in Nat, b \in Nat : a = tile * S * h /\ b = r * S
    BY <2>4
  <2> QED
    BY <1>3, <2>1, <2>2, <2>3, <2>5
<1> QED
  BY <1>1, <1>3, <1>4, <1>5

LEMMA RowTile ==
    ASSUME NEW h \in Nat \ {0}, NEW K \in Nat, NEW row \in Upto(K)
    PROVE  LET tile == (row \div Subgroups) \div h
           IN  /\ tile \in Nat /\ tile < CeilDiv(K, Subgroups * h) /\ row % Subgroups \in Upto(Subgroups)
               /\ \E r \in Upto(h) : row = RowOf(tile, row % Subgroups, r, h)
<1>1. PICK S \in Nat \ {0} : S = Subgroups
  BY OutputAssumption
<1>2. row \in Nat /\ row < K
  BY DEF Upto
<1>3. PICK q \in Nat, s \in Upto(S) : q = row \div S /\ s = row % S /\ row = q * S + s
  <2>1. row \div S \in Nat /\ row % S \in Upto(S) /\ row = (row \div S) * S + (row % S)
    BY <1>1, <1>2, DivisionOf
  <2> QED
    BY <2>1
<1>4. PICK t \in Nat, r \in Upto(h) : t = q \div h /\ r = q % h /\ q = t * h + r
  BY DivisionOf
<1>5. row = RowOf(t, s, r, h)
  <2>1. r \in Nat /\ s \in Nat
    BY <1>1 DEF Upto
  <2>2. (t * h + r) * S = t * S * h + r * S
    BY <2>1
  <2>3. PICK a \in Nat, b \in Nat : a = t * S * h /\ b = r * S
    BY <2>1, ProductNat
  <2>4. RowOf(t, s, r, h) = a + s + b
    BY <1>1, <2>3 DEF RowOf
  <2>5. q * S = a + b
    BY <1>4, <2>2, <2>3
  <2> QED
    BY <1>3, <2>1, <2>3, <2>4, <2>5
<1>6. t = row \div (S * h)
  <2>1. row \div (h * S) = (row \div S) \div h
    BY <1>2, QuotientTwice
  <2>2. h * S = S * h
    OBVIOUS
  <2> QED
    BY <1>3, <1>4, <2>1, <2>2
<1>7. row \div (S * h) < CeilDiv(K, S * h)
  <2>1. S * h \in Nat \ {0}
    BY TileSizes
  <2>2. CeilDiv(K, S * h) = CeilDivide(K, S * h)
    BY DEF CeilDiv, CeilDivide
  <2> QED
    BY <1>2, <2>1, <2>2, CeilAbove
<1> QED
  BY <1>1, <1>3, <1>4, <1>5, <1>6, <1>7

\* output_typed and relu2_output_typed at any height: the rows of a pair among
\* the sub-groups of its work-groups, which activate the pair's projections
\* each for itself.
THEOREM MoeOutputRight ==
    ASSUME NEW ids \in Seq(Int), NEW E, NEW topK \in Nat \ {0}, NEW K \in Nat \ {0}, NEW I \in Nat \ {0},
           NEW chunk \in Nat \ {0}, I % chunk = 0, NEW gated \in BOOLEAN, NEW height \in Nat \ {0}
    PROVE  KernelRight(MoeOutput(ids, E, topK, K, I, chunk, gated, height))
<1> DEFINE n == Len(ids)
           tiles == CeilDiv(K, Subgroups * height)
           G == Grid(n * tiles, MoeLanes)
           pair(i) == i[1] \div tiles
           live(i) == Routed(ids, pair(i), E)
           slm(i, S) == {<<"activated", e, i[1]>> : e \in S}
           mine(i) == Stride(i[2], MoeLanes, I)
           stored(i) == At("scratch", pair(i) * Width(I, gated), Entries(mine(i), I, gated))
           activate(i) == Does(stored(i), slm(i, mine(i)), {})
           rows(i) == {row \in {RowOf(i[1] % tiles, SgOf(i[2]), r, height) : r \in Upto(height)} : row < K}
           dot(i) == Accumulates(pair(i), i[2], topK, K, I, rows(i), chunk)
           combine(i) == [dot(i) EXCEPT !.rd = slm(i, ChunkElems(i[2] % DotLanes, chunk, I))]
           d == [i \in G |-> IF live(i) THEN activate(i) ELSE Idle]
           e == [i \in G |-> IF live(i) THEN combine(i) ELSE Idle]
           L == {i \in G : live(i)}
           pairs == [i \in G |-> pair(i)]
           lines == [i \in G |-> rows(i)]
           terms == [l \in Upto(DotLanes) |-> ChunkElems(l, chunk, I)]
           share == [i \in G |-> terms[DotLane(i)]]
           A == [i \in G |-> e[i].add]
           O == [i \in G |-> {}]
           all == OutputSums(ids, E, topK, K, I)
           k == MoeOutput(ids, E, topK, K, I, chunk, gated, height)
<1>1. k = Kernel(<<d, e>>, {}, all)
  BY DEF MoeOutput
<1>2. /\ DotLanes \in Nat \ {0} /\ Subgroups \in Nat \ {0} /\ n \in Nat /\ tiles \in Nat \ {0}
      /\ MoeLanes \in Nat \ {0}
  <2>1. DotLanes \in Nat \ {0} /\ Subgroups \in Nat \ {0} /\ n \in Nat
    BY GemmAssumption, OutputAssumption
  <2>2. Subgroups * height \in Nat \ {0} /\ MoeLanes \in Nat \ {0}
    BY <2>1, TileSizes DEF MoeLanes
  <2>3. tiles = CeilDivide(K, Subgroups * height)
    BY DEF CeilDiv, CeilDivide
  <2>4. tiles \in Nat \ {0}
    <3>1. PICK z \in Nat \ {0} : z = Subgroups * height
      BY <2>2
    <3>2. CeilDivide(K, z) \in Nat /\ CeilDivide(K, z) > 0
      <4>1. K \in Nat /\ K > 0
        OBVIOUS
      <4> QED
        BY <3>1, <4>1, CeilAbove
    <3> HIDE DEF tiles
    <3>3. tiles = CeilDivide(K, z)
      BY <2>3, <3>1
    <3> QED
      BY <3>2, <3>3
  <2> QED
    BY <2>1, <2>2, <2>4
<1>3. Shares(terms, Upto(I)) /\ DOMAIN terms = Upto(DotLanes)
  BY ChunksShare
<1>4. G = RowGrid(n, tiles, Subgroups)
  BY DEF RowGrid, MoeLanes
<1>5. \A t : t \in Upto(tiles) => t \in Nat
  BY DEF Upto
<1>6. ASSUME NEW i \in G
      PROVE  /\ i = <<i[1], i[2]>> /\ i[1] \in Nat /\ i[1] % tiles \in Nat /\ SgOf(i[2]) \in Upto(Subgroups)
             /\ DotLane(i) \in Upto(DotLanes) /\ i[2] \in Upto(MoeLanes) /\ i[2] \in Nat
             /\ pair(i) \in Upto(n) /\ i[1] = pair(i) * tiles + (i[1] % tiles)
             /\ i[2] = SgOf(i[2]) * DotLanes + DotLane(i)
  <2>1. i \in Grid(n * tiles, MoeLanes) /\ n * tiles \in Nat
    BY <1>2, ProductNat
  <2>2. i[1] \in Nat /\ i = <<i[1], i[2]>> /\ i[2] \in Upto(MoeLanes) /\ i[2] \in Nat
    BY <2>1, GridItems DEF Upto
  <2>3. i[1] % tiles \in Nat
    BY <1>2, <1>5, <2>2, DivisionOf
  <2> HIDE DEF tiles, n, G
  <2>4. i \in RowGrid(n, tiles, Subgroups)
    BY <1>4
  <2>5. /\ RowAt(i, tiles, Subgroups) \in Nat /\ DotLane(i) \in Upto(DotLanes) /\ i[1] \div tiles \in Upto(n)
        /\ RowAt(i, tiles, Subgroups) % Subgroups = i[2] \div DotLanes
        /\ i[1] = (i[1] \div tiles) * tiles + (i[1] % tiles)
        /\ i[2] = (i[2] \div DotLanes) * DotLanes + DotLane(i)
    BY <1>2, <2>4, RowItem
  <2>6. SgOf(i[2]) = i[2] \div DotLanes /\ SgOf(i[2]) \in Upto(Subgroups)
    <3>1. PICK q \in Nat : q = RowAt(i, tiles, Subgroups)
      BY <2>5
    <3>2. q % Subgroups \in Upto(Subgroups)
      BY <1>2, DivisionOf
    <3> QED
      BY <2>5, <3>1, <3>2 DEF SgOf
  <2> QED
    BY <2>2, <2>3, <2>5, <2>6
<1>7. ASSUME NEW i \in G
      PROVE  /\ d[i].rd = (IF live(i) THEN stored(i) ELSE {}) /\ d[i].wr = (IF live(i) THEN slm(i, mine(i)) ELSE {})
             /\ d[i].add = {}
             /\ e[i].rd = (IF live(i) THEN slm(i, ChunkElems(DotLane(i), chunk, I)) ELSE {}) /\ e[i].wr = {}
             /\ A[i] = e[i].add
             /\ A[i] = IF i \in L
                       THEN {<<"output", (pairs[i] \div topK) * K + row>> : row \in lines[i]} \X {<<pairs[i], x>> : x \in share[i]}
                       ELSE {}
  <2>1. activate(i).rd = stored(i) /\ activate(i).wr = slm(i, mine(i)) /\ activate(i).add = {}
    BY DoesIs
  <2>2. dot(i) = Does({<<"activated", x, pair(i)>> : x \in ChunkElems(DotLane(i), chunk, I)}, {},
                      {<<"output", (pair(i) \div topK) * K + row>> : row \in rows(i)}
                        \X {<<pair(i), x>> : x \in ChunkElems(DotLane(i), chunk, I)})
    BY DEF Accumulates, DotLane
  <2>3. /\ combine(i).rd = slm(i, ChunkElems(DotLane(i), chunk, I)) /\ combine(i).wr = {}
        /\ combine(i).add = {<<"output", (pair(i) \div topK) * K + row>> : row \in rows(i)}
                              \X {<<pair(i), x>> : x \in ChunkElems(DotLane(i), chunk, I)}
    <3> DEFINE s == slm(i, ChunkElems(DotLane(i), chunk, I))
    <3>1. combine(i) = [dot(i) EXCEPT !.rd = s]
      BY DEF DotLane
    <3> HIDE DEF combine, dot, s, rows, pair
    <3> QED
      BY <2>2, <3>1 DEF Does, s
  <2>4. Idle.rd = {} /\ Idle.wr = {} /\ Idle.add = {}
    BY DEF Idle, Does
  <2>5. /\ d[i] = (IF live(i) THEN activate(i) ELSE Idle) /\ e[i] = (IF live(i) THEN combine(i) ELSE Idle)
        /\ pairs[i] = pair(i) /\ lines[i] = rows(i) /\ A[i] = e[i].add /\ (i \in L <=> live(i))
    OBVIOUS
  <2>6. share[i] = ChunkElems(DotLane(i), chunk, I)
    BY <1>6
  <2> HIDE DEF d, e, A, L, pairs, lines, share, live, activate, combine, stored, slm, mine, rows, pair, dot
  <2>7. /\ d[i].rd = (IF live(i) THEN stored(i) ELSE {}) /\ d[i].wr = (IF live(i) THEN slm(i, mine(i)) ELSE {})
        /\ d[i].add = {}
    BY <2>1, <2>4, <2>5
  <2>8. /\ e[i].rd = (IF live(i) THEN slm(i, ChunkElems(DotLane(i), chunk, I)) ELSE {}) /\ e[i].wr = {}
    BY <2>3, <2>4, <2>5
  <2>9. e[i].add = IF live(i)
                   THEN {<<"output", (pair(i) \div topK) * K + row>> : row \in rows(i)}
                          \X {<<pair(i), x>> : x \in ChunkElems(DotLane(i), chunk, I)}
                   ELSE {}
    BY <2>3, <2>4, <2>5
  <2>10. A[i] = IF i \in L
                THEN {<<"output", (pairs[i] \div topK) * K + row>> : row \in lines[i]} \X {<<pairs[i], x>> : x \in share[i]}
                ELSE {}
    BY <2>5, <2>6, <2>9
  <2> QED
    BY <2>5, <2>7, <2>8, <2>10
<1>8. ASSUME NEW i \in G, NEW row \in rows(i)
      PROVE  row \in Upto(K) /\ row % Subgroups = SgOf(i[2]) /\ (row \div Subgroups) \div height = i[1] % tiles
  <2>1. PICK r \in Upto(height) : row = RowOf(i[1] % tiles, SgOf(i[2]), r, height) /\ row < K
    OBVIOUS
  <2>2. row \in Nat /\ row % Subgroups = SgOf(i[2]) /\ (row \div Subgroups) \div height = i[1] % tiles
    <3> HIDE DEF tiles, G
    <3> QED
      BY <1>6, <2>1, TileRow
  <2> QED
    BY <2>1, <2>2 DEF Upto
<1>9. Combines(A, L, pairs, lines, share, ids, E, topK, K, I)
  <2>1. ASSUME NEW i \in L
        PROVE  /\ i \in G /\ pairs[i] = pair(i) /\ lines[i] = rows(i) /\ share[i] = terms[DotLane(i)]
               /\ DotLane(i) \in Upto(DotLanes) /\ pairs[i] \in RoutedPairs(ids, E)
    <3>1. i \in G /\ live(i)
      OBVIOUS
    <3>2. pairs[i] = pair(i) /\ lines[i] = rows(i) /\ share[i] = terms[DotLane(i)]
      BY <3>1
    <3>3. pair(i) \in RoutedPairs(ids, E) /\ DotLane(i) \in Upto(DotLanes)
      BY <1>6, <3>1 DEF RoutedPairs, n
    <3> QED
      BY <3>1, <3>2, <3>3
  <2> HIDE DEF G, L, pairs, lines, share, terms, rows, A
  <2>2. ASSUME NEW i \in L
        PROVE  /\ pairs[i] \in RoutedPairs(ids, E) /\ \A row \in lines[i] : row \in Upto(K)
               /\ \A x \in share[i] : x \in Upto(I)
    BY <1>3, <1>8, <2>1 DEF Shares
  <2>3. ASSUME NEW i \in L, NEW j \in L, NEW row, NEW x, pairs[i] = pairs[j], row \in lines[i], row \in lines[j],
               x \in share[i], x \in share[j]
        PROVE  i = j
    <3>1. DotLane(i) = DotLane(j)
      BY <1>3, <2>1, <2>3 DEF Shares
    <3>2. SgOf(i[2]) = SgOf(j[2]) /\ i[1] % tiles = j[1] % tiles
      BY <1>8, <2>1, <2>3
    <3>3. pair(i) = pair(j)
      BY <2>1, <2>3
    <3>4. /\ i = <<i[1], i[2]>> /\ i[1] = pair(i) * tiles + (i[1] % tiles) /\ i[2] = SgOf(i[2]) * DotLanes + DotLane(i)
          /\ j = <<j[1], j[2]>> /\ j[1] = pair(j) * tiles + (j[1] % tiles) /\ j[2] = SgOf(j[2]) * DotLanes + DotLane(j)
      BY <1>6, <2>1
    <3> HIDE DEF pair, tiles
    <3> QED
      BY <3>1, <3>2, <3>3, <3>4
  <2>4. ASSUME NEW p \in RoutedPairs(ids, E), NEW row \in Upto(K), NEW x \in Upto(I)
        PROVE  \E i \in L : pairs[i] = p /\ row \in lines[i] /\ x \in share[i]
    <3> DEFINE t == (row \div Subgroups) \div height
               sg == row % Subgroups
    <3>1. /\ t \in Nat /\ t < tiles /\ sg \in Upto(Subgroups)
          /\ \E r \in Upto(height) : row = RowOf(t, sg, r, height)
      BY RowTile
    <3>2. PICK l \in Upto(DotLanes) : x \in terms[l]
      BY <1>3 DEF Shares
    <3>3. p \in Upto(n) /\ Routed(ids, p, E)
      BY DEF RoutedPairs
    <3> HIDE DEF t, sg, tiles, n
    <3>4. PICK S \in Nat \ {0} : S = Subgroups
      BY <1>2
    <3>5. sg \in Upto(S)
      BY <3>1, <3>4
    <3>6. (t * S + sg) \div S = t /\ (t * S + sg) % S = sg /\ t * S + sg \in Nat
      BY <3>1, <3>5, DivisionUnique
    <3>7. PICK m \in Nat : m = t * S + sg /\ m \div S = t /\ m % S = sg
      BY <3>6
    <3>8. PICK i \in G : HasRow(i, tiles, Subgroups, p, m, l)
      <4>1. m \div Subgroups < tiles
        BY <3>1, <3>4, <3>7
      <4>2. \E i \in RowGrid(n, tiles, Subgroups) : HasRow(i, tiles, Subgroups, p, m, l)
        BY <1>2, <3>3, <4>1, RowCovers
      <4> QED
        BY <1>4, <4>2
    <3>9. pair(i) = p /\ DotLane(i) = l /\ RowAt(i, tiles, Subgroups) = m
      BY <3>8 DEF HasRow
    <3>10. i[1] % tiles = t /\ SgOf(i[2]) = sg
      <4>1. (i[1] % tiles) * Subgroups + SgOf(i[2]) = m
        BY <3>9 DEF RowAt, SgOf
      <4>2. PICK a \in Nat, b \in Upto(S) : a = i[1] % tiles /\ b = SgOf(i[2])
        BY <1>6, <3>4
      <4>3. (a * S + b) \div S = a /\ (a * S + b) % S = b
        BY DivisionUnique, ZenonT(40)
      <4>4. a * S + b = m
        BY <3>4, <4>1, <4>2
      <4> QED
        BY <3>7, <4>2, <4>3, <4>4
    <3>11. i \in L
      BY <3>3, <3>9 DEF L
    <3>12. row \in rows(i)
      <4>1. row < K
        BY DEF Upto
      <4> QED
        BY <3>1, <3>10, <4>1 DEF rows
    <3> QED
      BY <2>1, <3>2, <3>9, <3>11, <3>12
  <2>5. DOMAIN A = G /\ L \subseteq G
    BY DEF A, L
  <2>6. \A i \in DOMAIN A :
          A[i] = IF i \in L
                 THEN {<<"output", (pairs[i] \div topK) * K + row>> : row \in lines[i]} \X {<<pairs[i], x>> : x \in share[i]}
                 ELSE {}
    BY <1>7, <2>5 DEF G
  <2> QED
    BY <2>2, <2>3, <2>4, <2>5, <2>6 DEF Combines
<1>10. DOMAIN A = G /\ DOMAIN O = G /\ DOMAIN d = G /\ \A i \in G : O[i] = {}
  OBVIOUS
<1>11. \A i \in G : /\ \A c \in stored(i) : IsGlobal(c)
                    /\ \A c, S : c \in slm(i, S) => ~IsGlobal(c) /\ c[3] = i[1]
  BY CellOfBuffer, LocalCell
<1>12. ASSUME NEW i \in G, NEW x \in ChunkElems(DotLane(i), chunk, I)
       PROVE  \E j \in G : j[1] = i[1] /\ x \in mine(j)
  <2>1. x \in Upto(I)
    <3>1. terms[DotLane(i)] \subseteq Upto(I)
      BY <1>3, <1>6 DEF Shares
    <3> QED
      BY <1>6, <3>1
  <2>2. PICK l \in Upto(MoeLanes) : l = x % MoeLanes
    BY <1>2, <2>1, DivisionOf DEF Upto
  <2>3. i[1] \in Upto(n * tiles)
    BY DEF Grid
  <2>4. <<i[1], l>> \in G
    BY <2>3 DEF Grid
  <2>5. x \in Stride(l, MoeLanes, I)
    BY <1>2, <2>1, <2>2, StrideIs, SMTT(30) DEF Upto
  <2> QED
    BY <2>4, <2>5
<1>13. ASSUME NEW i \in G, NEW j \in G, i[1] = j[1], NEW c, c \in slm(i, mine(i)), c \in slm(j, mine(j))
       PROVE  i = j
  <2>1. PICK x \in mine(i) : c = <<"activated", x, i[1]>>
    BY <1>13
  <2>2. x \in mine(j)
    BY <1>13, <2>1
  <2>3. x % MoeLanes = i[2] /\ x % MoeLanes = j[2]
    BY <1>2, <1>6, <2>1, <2>2, StrideIs, SMTT(30)
  <2> QED
    BY <1>6, <1>13, <2>3
<1>14. \A i, j \in G : i[1] = j[1] => live(i) = live(j)
  OBVIOUS
<1>15. \A i, S, c : c \in slm(i, S) <=> \E x \in S : c = <<"activated", x, i[1]>>
  OBVIOUS
<1> HIDE DEF n, tiles, G, pair, live, slm, mine, stored, d, e, L, pairs, lines, terms, share, A, O, all, k
<1>16. Shares(A, all)
  <2>1. K \in Nat
    OBVIOUS
  <2>2. Shares(A, OutputSums(ids, E, topK, K, I))
    BY <1>9, <2>1, CombineShares
  <2> QED
    BY <2>2 DEF all
<1>17. /\ k.phases = <<d, e>> /\ Items(k) = G /\ k.out = {} /\ k.sums = all
       /\ \A i : /\ Wrote(k, i) = d[i].wr \cup e[i].wr /\ Added(k, i) = d[i].add \cup e[i].add
  BY <1>1, <1>10, TwoPhases DEF Kernel
<1>18. Shares(O, {})
  BY <1>10 DEF Shares
<1>19. \A i \in G : Added(k, i) = A[i]
  <2> SUFFICES ASSUME NEW i \in G
               PROVE  Added(k, i) = A[i]
    OBVIOUS
  <2>1. d[i].add = {} /\ A[i] = e[i].add
    BY <1>7
  <2> QED
    BY <1>17, <2>1
<1>20. DOMAIN k.phases = 1..2 /\ k.phases[1] = d /\ k.phases[2] = e
  BY <1>17
<1>21. ASSUME NEW p \in 1..2, NEW i \in G, NEW c
       PROVE  /\ c \in k.phases[p][i].wr => c \in O[i] \/ (~IsGlobal(c) /\ c[3] = i[1])
              /\ c \in k.phases[p][i].rd =>
                    \/ IsGlobal(c) /\ \A j \in G : c \in O[j] => j[1] = i[1]
                    \/ /\ ~IsGlobal(c) /\ c[3] = i[1]
                       /\ \/ c \in k.phases[p][i].wr
                          \/ \E j \in G : j[1] = i[1] /\ \E q \in 1..(p - 1) : c \in k.phases[q][j].wr
  <2>1. CASE p = 1
    <3>1. /\ k.phases[p][i].rd = (IF live(i) THEN stored(i) ELSE {})
          /\ k.phases[p][i].wr = (IF live(i) THEN slm(i, mine(i)) ELSE {})
      BY <1>7, <1>20, <2>1
    <3> QED
      BY <1>10, <1>11, <3>1
  <2>2. CASE p = 2
    <3>1. /\ k.phases[p][i].rd = (IF live(i) THEN slm(i, ChunkElems(DotLane(i), chunk, I)) ELSE {})
          /\ k.phases[p][i].wr = {}
      BY <1>7, <1>20, <2>2
    <3>2. ASSUME c \in k.phases[p][i].rd
          PROVE  /\ ~IsGlobal(c) /\ c[3] = i[1]
                 /\ \E j \in G : j[1] = i[1] /\ \E q \in 1..(p - 1) : c \in k.phases[q][j].wr
      <4>1. live(i) /\ c \in slm(i, ChunkElems(DotLane(i), chunk, I))
        BY <3>1, <3>2
      <4>2. PICK x \in ChunkElems(DotLane(i), chunk, I) : c = <<"activated", x, i[1]>>
        BY <1>15, <4>1
      <4>3. PICK j \in G : j[1] = i[1] /\ x \in mine(j)
        BY <1>12
      <4>4. live(j) /\ c \in slm(j, mine(j))
        BY <1>14, <1>15, <4>1, <4>2, <4>3
      <4>5. c \in k.phases[1][j].wr
        BY <1>7, <1>20, <4>4
      <4>6. 1 \in 1..(p - 1)
        BY <2>2
      <4> QED
        BY <1>11, <4>1, <4>3, <4>5, <4>6
    <3> QED
      BY <3>1, <3>2
  <2> QED
    BY <2>1, <2>2
<1>22. ASSUME NEW p \in 1..2, NEW i \in G, NEW j \in G, i[1] = j[1], i # j, NEW c, c \in k.phases[p][i].wr
       PROVE  c \notin k.phases[p][j].rd /\ c \notin k.phases[p][j].wr
  <2>1. p = 1
    <3>1. k.phases[2][i].wr = {}
      BY <1>7, <1>20
    <3>2. p # 2
      BY <1>22, <3>1
    <3> QED
      BY <3>2
  <2>2. live(i) /\ c \in slm(i, mine(i))
    BY <1>7, <1>20, <1>22, <2>1
  <2>3. c \notin k.phases[p][j].wr
    BY <1>7, <1>13, <1>20, <1>22, <2>1, <2>2
  <2>4. c \notin k.phases[p][j].rd
    BY <1>7, <1>11, <1>20, <2>1, <2>2
  <2> QED
    BY <2>3, <2>4
<1>23. InPhases(k, O, A)
  BY <1>10, <1>17, <1>19, <1>20, <1>21, <1>22 DEF InPhases
<1>24. KernelRight(k)
  BY <1>16, <1>17, <1>18, <1>23, PhasesRight
<1> QED
  BY <1>24 DEF k

\* Two disjoint shares, taken together.
LEMMA SharesBoth ==
    ASSUME NEW A, NEW B, NEW C, NEW S, NEW T, NEW U, Shares(A, S), Shares(B, T), DOMAIN A = DOMAIN C, DOMAIN B = DOMAIN C,
           \A i \in DOMAIN C : C[i] = A[i] \cup B[i], \A x \in S : x \notin T, U = S \cup T
    PROVE  Shares(C, U)
<1>1. /\ \A i \in DOMAIN A : A[i] \subseteq S
      /\ \A c \in S : \E i \in DOMAIN A : c \in A[i]
      /\ \A i, j \in DOMAIN A : \A c : c \in A[i] /\ c \in A[j] => i = j
  BY DEF Shares
<1>2. /\ \A i \in DOMAIN B : B[i] \subseteq T
      /\ \A c \in T : \E i \in DOMAIN B : c \in B[i]
      /\ \A i, j \in DOMAIN B : \A c : c \in B[i] /\ c \in B[j] => i = j
  BY DEF Shares
<1>3. \A i \in DOMAIN C : C[i] \subseteq U
  BY <1>1, <1>2
<1>4. \A c \in U : \E i \in DOMAIN C : c \in C[i]
  BY <1>1, <1>2
<1>5. ASSUME NEW i \in DOMAIN C, NEW j \in DOMAIN C, NEW c, c \in C[i], c \in C[j]
      PROVE  i = j
  BY <1>1, <1>2, <1>5
<1> QED
  BY <1>3, <1>4, <1>5 DEF Shares

\* A lane of the MoE kernels: its sub-group and its place in it.
LEMMA MoeLane ==
    ASSUME NEW n \in Nat, NEW i \in Grid(n, MoeLanes)
    PROVE  /\ i = <<i[1], i[2]>> /\ i[1] \in Upto(n) /\ i[1] \in Nat /\ i[2] \in Upto(MoeLanes) /\ i[2] \in Nat
           /\ SgOf(i[2]) \in Upto(Subgroups) /\ DotLane(i) \in Upto(DotLanes)
           /\ i[2] = SgOf(i[2]) * DotLanes + DotLane(i)
<1>1. /\ i = <<i[1], i[2]>> /\ i[1] \in Upto(n) /\ i[1] \in Nat /\ i[2] \in Upto(MoeLanes) /\ i[2] \in Nat
  BY GridItems
<1>2. PICK S \in Nat \ {0}, D \in Nat \ {0} : S = Subgroups /\ D = DotLanes
  BY GemmAssumption, OutputAssumption
<1>3. PICK x \in Nat : x = i[2] /\ x < S * D
  BY <1>1, <1>2 DEF Upto, MoeLanes
<1>4. PICK q \in Nat, r \in Upto(D) : q = x \div D /\ r = x % D /\ x = q * D + r
  <2>1. x \div D \in Nat /\ x % D \in Upto(D) /\ x = (x \div D) * D + (x % D)
    BY DivisionOf
  <2> QED
    BY <2>1
<1>5. q < S
  <2>1. x \div D < S <=> x < S * D
    BY QuotientBelow
  <2> QED
    BY <1>3, <1>4, <2>1
<1>6. SgOf(i[2]) = q /\ DotLane(i) = r
  BY <1>2, <1>3, <1>4 DEF SgOf, DotLane
<1>7. q \in Upto(S)
  BY <1>5 DEF Upto
<1> QED
  BY <1>1, <1>2, <1>3, <1>4, <1>6, <1>7

LEMMA MoeItem ==
    ASSUME NEW n \in Nat, NEW p \in Upto(n), NEW sg \in Upto(Subgroups), NEW l \in Upto(DotLanes)
    PROVE  \E i \in Grid(n, MoeLanes) : i[1] = p /\ SgOf(i[2]) = sg /\ DotLane(i) = l
<1>1. PICK S \in Nat \ {0}, D \in Nat \ {0} : S = Subgroups /\ D = DotLanes
  BY GemmAssumption, OutputAssumption
<1>2. sg \in Nat /\ sg < S /\ l \in Upto(D)
  BY <1>1 DEF Upto
<1>3. (sg * D + l) \div D = sg /\ (sg * D + l) % D = l /\ sg * D + l \in Nat
  BY <1>2, DivisionUnique
<1>4. PICK x \in Nat : x = sg * D + l /\ x \div D = sg /\ x % D = l
  BY <1>3
<1>5. x < S * D
  <2>1. x \div D < S <=> x < S * D
    BY QuotientBelow
  <2> QED
    BY <1>2, <1>4, <2>1
<1>6. x \in Upto(MoeLanes)
  <2>1. S * D \in Nat
    BY ProductNat
  <2> QED
    BY <1>1, <1>5, <2>1 DEF Upto, MoeLanes
<1>7. <<p, x>> \in Grid(n, MoeLanes)
  BY <1>6 DEF Grid
<1> QED
  BY <1>1, <1>4, <1>7 DEF SgOf, DotLane

\* fused_typed, relu2_fused_typed: a pair's work-group projects its token's row,
\* activates the projections and adds its share of the output.
THEOREM MoeFusedRight ==
    ASSUME NEW ids \in Seq(Int), NEW E, NEW topK \in Nat \ {0}, NEW K \in Nat \ {0}, NEW I \in Nat \ {0},
           NEW chunk \in Nat \ {0}, K % chunk = 0, I % chunk = 0, NEW gated \in BOOLEAN
    PROVE  KernelRight(MoeFused(ids, E, topK, K, I, chunk, gated))
<1> DEFINE n == Len(ids)
           G == Grid(n, MoeLanes)
           live(i) == Routed(ids, i[1], E)
           slm(i, S) == {<<"gate_up", e, i[1]>> : e \in S}
           act(i, S) == {<<"activated", e, i[1]>> : e \in S}
           rows(i) == Stride(SgOf(i[2]), Subgroups, I)
           lines == [i \in G |-> Stride(SgOf(i[2]), Subgroups, K)]
           mine(i) == Stride(i[2], MoeLanes, I)
           project(i) == Does({}, Lead(i[2], slm(i, Entries(rows(i), I, gated))),
                              Projects(i[2], slm(i, Entries(rows(i), I, gated)), K, chunk))
           activate(i) == Does(slm(i, Entries(mine(i), I, gated)), {<<"activated", e, i[1]>> : e \in mine(i)}, {})
           combine(i) == Accumulates(i[1], i[2], topK, K, I, Stride(SgOf(i[2]), Subgroups, K), chunk)
           d == [i \in G |-> IF live(i) THEN project(i) ELSE Idle]
           e == [i \in G |-> IF live(i) THEN activate(i) ELSE Idle]
           f == [i \in G |-> IF live(i) THEN combine(i) ELSE Idle]
           L == {i \in G : live(i)}
           pairs == [i \in G |-> i[1]]
           lane == [i \in G |-> DotLane(i)]
           cells == [i \in G |-> slm(i, Entries(rows(i), I, gated))]
           terms == [l \in Upto(DotLanes) |-> ChunkElems(l, chunk, K)]
           parts == [l \in Upto(DotLanes) |-> ChunkElems(l, chunk, I)]
           share == [i \in G |-> parts[DotLane(i)]]
           W == [i \in G |-> d[i].wr]
           B == [i \in G |-> d[i].add]
           C == [i \in G |-> f[i].add]
           A == [i \in G |-> d[i].add \cup f[i].add]
           O == [i \in G |-> {}]
           P == {p \in Upto(n) : Routed(ids, p, E)}
           staged == UNION {slm(<<p, 0>>, Entries(Upto(I), I, gated)) : p \in P}
           whole == UNION {slm(<<p, 0>>, Entries(Upto(I), I, gated)) \X Upto(K) : p \in P}
           sums == OutputSums(ids, E, topK, K, I)
           all == sums \cup whole
           k == MoeFused(ids, E, topK, K, I, chunk, gated)
<1>1. k = Kernel(<<d, e, f>>, {}, all)
  BY DEF MoeFused
<1>2. /\ DotLanes \in Nat \ {0} /\ Subgroups \in Nat \ {0} /\ n \in Nat /\ MoeLanes \in Nat \ {0} /\ 0 \in Upto(DotLanes)
  <2>1. DotLanes \in Nat \ {0} /\ Subgroups \in Nat \ {0} /\ n \in Nat
    BY GemmAssumption, OutputAssumption
  <2>2. MoeLanes \in Nat \ {0}
    BY <2>1, TileSizes DEF MoeLanes
  <2> QED
    BY <2>1, <2>2 DEF Upto
<1>3. Shares(terms, Upto(K)) /\ DOMAIN terms = Upto(DotLanes) /\ Shares(parts, Upto(I)) /\ DOMAIN parts = Upto(DotLanes)
  <2>1. K \in Nat /\ I \in Nat
    OBVIOUS
  <2> QED
    BY <2>1, ChunksShare
<1>4. ASSUME NEW i \in G
      PROVE  /\ i = <<i[1], i[2]>> /\ i[1] \in Upto(n) /\ i[1] \in Nat /\ i[2] \in Upto(MoeLanes) /\ i[2] \in Nat
             /\ SgOf(i[2]) \in Upto(Subgroups) /\ DotLane(i) \in Upto(DotLanes)
             /\ i[2] = SgOf(i[2]) * DotLanes + DotLane(i)
  BY <1>2, MoeLane
<1>5. P = RoutedPairs(ids, E)
  BY DEF RoutedPairs
<1>6. ASSUME NEW i \in G, NEW N \in Nat, NEW x
      PROVE  x \in Stride(SgOf(i[2]), Subgroups, N) <=> x \in Nat /\ x < N /\ x % Subgroups = SgOf(i[2])
  BY <1>2, <1>4, StrideIs
<1>7. ASSUME NEW i \in G, NEW x
      PROVE  x \in mine(i) <=> x \in Nat /\ x < I /\ x % MoeLanes = i[2]
  <2>1. I \in Nat
    OBVIOUS
  <2> QED
    BY <1>2, <1>4, <2>1, StrideIs
<1> DEFINE w == Width(I, gated)
<1>8. ASSUME NEW i, NEW S, \A x \in S : x \in Upto(I), NEW c
      PROVE  c \in slm(i, Entries(S, I, gated)) <=> \E x \in Upto(w) : x % I \in S /\ c = <<"gate_up", x, i[1]>>
  <2>1. \A x : x \in Entries(S, I, gated) <=> x \in Upto(w) /\ x % I \in S
    BY <1>8, EntryIs
  <2>2. c \in slm(i, Entries(S, I, gated)) <=> \E x \in Entries(S, I, gated) : c = <<"gate_up", x, i[1]>>
    OBVIOUS
  <2> HIDE DEF slm, w
  <2> QED
    BY <2>1, <2>2
<1>9. ASSUME NEW i \in G
      PROVE  (\A x \in rows(i) : x \in Upto(I)) /\ (\A x \in mine(i) : x \in Upto(I)) /\ \A x \in lines[i] : x \in Upto(K)
  <2>1. \A x \in rows(i) : x \in Nat /\ x < I
    BY <1>6
  <2>2. \A x \in mine(i) : x \in Nat /\ x < I
    BY <1>7
  <2>3. \A x \in lines[i] : x \in Nat /\ x < K
    BY <1>6
  <2> QED
    BY <2>1, <2>2, <2>3 DEF Upto
<1>10. ASSUME NEW i \in G
       PROVE  /\ \A c : c \in cells[i] <=> \E x \in Upto(w) : x % I \in rows(i) /\ c = <<"gate_up", x, i[1]>>
              /\ \A c : c \in slm(i, Entries(mine(i), I, gated)) <=>
                          \E x \in Upto(w) : x % I \in mine(i) /\ c = <<"gate_up", x, i[1]>>
  <2>1. cells[i] = slm(i, Entries(rows(i), I, gated))
    OBVIOUS
  <2> HIDE DEF slm, rows, mine, cells, w, G
  <2>2. \A c : c \in slm(i, Entries(rows(i), I, gated)) <=>
                 \E x \in Upto(w) : x % I \in rows(i) /\ c = <<"gate_up", x, i[1]>>
    BY <1>8, <1>9
  <2>3. \A c : c \in slm(i, Entries(mine(i), I, gated)) <=>
                 \E x \in Upto(w) : x % I \in mine(i) /\ c = <<"gate_up", x, i[1]>>
    BY <1>8, <1>9
  <2> QED
    BY <2>1, <2>2, <2>3
<1>11. \A c : c \in staged <=> \E p \in P : \E x \in Upto(w) : x % I \in Upto(I) /\ c = <<"gate_up", x, p>>
  <2> DEFINE of(p) == slm(<<p, 0>>, Entries(Upto(I), I, gated))
  <2>1. ASSUME NEW p, NEW c
        PROVE  c \in of(p) <=> \E x \in Upto(w) : x % I \in Upto(I) /\ c = <<"gate_up", x, p>>
    <3>1. PICK i : i = <<p, 0>>
      OBVIOUS
    <3>2. i[1] = p
      BY <3>1
    <3>3. c \in slm(i, Entries(Upto(I), I, gated)) <=> \E x \in Upto(w) : x % I \in Upto(I) /\ c = <<"gate_up", x, i[1]>>
      BY <1>8
    <3> HIDE DEF slm, w
    <3> QED
      BY <3>1, <3>2, <3>3
  <2>2. \A c : c \in staged <=> \E p \in P : c \in of(p)
    OBVIOUS
  <2> HIDE DEF staged, of, w, P
  <2> QED
    BY <2>1, <2>2
<1>12. whole = staged \X Upto(K)
  <2> DEFINE of(p) == slm(<<p, 0>>, Entries(Upto(I), I, gated))
  <2>1. whole = UNION {of(p) \X Upto(K) : p \in P} /\ staged = UNION {of(p) : p \in P}
    OBVIOUS
  <2> HIDE DEF whole, staged, of, P
  <2>2. ASSUME NEW z
        PROVE  z \in whole <=> z \in staged \X Upto(K)
    <3>1. z \in whole <=> \E p \in P : z \in of(p) \X Upto(K)
      BY <2>1
    <3>2. z \in staged \X Upto(K) <=> \E c \in staged : \E x \in Upto(K) : z = <<c, x>>
      OBVIOUS
    <3>3. \A c : c \in staged <=> \E p \in P : c \in of(p)
      BY <2>1
    <3> QED
      BY <3>1, <3>2, <3>3
  <2> QED
    BY <2>2
<1>13. ASSUME NEW i \in G
       PROVE  /\ d[i].rd = {} /\ d[i].wr = W[i] /\ d[i].add = B[i] /\ f[i].add = C[i] /\ A[i] = B[i] \cup C[i]
              /\ W[i] = IF i \in L /\ lane[i] = 0 THEN cells[i] ELSE {}
              /\ B[i] = IF i \in L THEN cells[i] \X terms[lane[i]] ELSE {}
  <2>1. terms[lane[i]] = ChunkElems(i[2] % DotLanes, chunk, K) /\ lane[i] = i[2] % DotLanes
    BY <1>4 DEF DotLane
  <2>2. (i \in L <=> live(i)) /\ cells[i] = slm(i, Entries(rows(i), I, gated))
    OBVIOUS
  <2>3. d[i].wr = W[i] /\ d[i].add = B[i] /\ f[i].add = C[i] /\ A[i] = d[i].add \cup f[i].add
    OBVIOUS
  <2>4. /\ project(i).rd = {} /\ project(i).wr = Lead(i[2], slm(i, Entries(rows(i), I, gated)))
        /\ project(i).add = Projects(i[2], slm(i, Entries(rows(i), I, gated)), K, chunk)
    BY DoesIs
  <2>5. Idle.rd = {} /\ Idle.wr = {} /\ Idle.add = {}
    BY DEF Idle, Does
  <2>6. d[i] = IF live(i) THEN project(i) ELSE Idle
    OBVIOUS
  <2> HIDE DEF d, f, W, A, B, C, L, lane, terms, cells, live, project, rows, slm
  <2>7. d[i].rd = {}
    BY <2>4, <2>5, <2>6
  <2>8. W[i] = IF i \in L /\ lane[i] = 0 THEN cells[i] ELSE {}
    BY <2>1, <2>2, <2>3, <2>4, <2>5, <2>6 DEF Lead
  <2>9. B[i] = IF i \in L THEN cells[i] \X terms[lane[i]] ELSE {}
    BY <2>1, <2>2, <2>3, <2>4, <2>5, <2>6 DEF Projects
  <2> QED
    BY <2>3, <2>7, <2>8, <2>9
<1>14. ASSUME NEW i \in G
       PROVE  /\ e[i].rd = (IF live(i) THEN slm(i, Entries(mine(i), I, gated)) ELSE {})
              /\ e[i].wr = (IF live(i) THEN act(i, mine(i)) ELSE {}) /\ e[i].add = {}
  <2>1. activate(i).rd = slm(i, Entries(mine(i), I, gated)) /\ activate(i).wr = act(i, mine(i)) /\ activate(i).add = {}
    BY DoesIs
  <2>2. Idle.rd = {} /\ Idle.wr = {} /\ Idle.add = {}
    BY DEF Idle, Does
  <2>3. e[i] = IF live(i) THEN activate(i) ELSE Idle
    OBVIOUS
  <2> HIDE DEF e, live, activate, slm, act, mine
  <2> QED
    BY <2>1, <2>2, <2>3
<1>15. ASSUME NEW i \in G
       PROVE  /\ f[i].rd = (IF live(i) THEN act(i, ChunkElems(DotLane(i), chunk, I)) ELSE {}) /\ f[i].wr = {}
              /\ C[i] = IF i \in L
                        THEN {<<"output", (pairs[i] \div topK) * K + row>> : row \in lines[i]} \X {<<pairs[i], x>> : x \in share[i]}
                        ELSE {}
  <2>1. combine(i) = Does(act(i, ChunkElems(DotLane(i), chunk, I)), {},
                          {<<"output", (i[1] \div topK) * K + row>> : row \in lines[i]}
                            \X {<<i[1], x>> : x \in ChunkElems(DotLane(i), chunk, I)})
    BY DEF Accumulates, DotLane
  <2>2. Idle.rd = {} /\ Idle.wr = {} /\ Idle.add = {}
    BY DEF Idle, Does
  <2>3. f[i] = (IF live(i) THEN combine(i) ELSE Idle) /\ pairs[i] = i[1] /\ C[i] = f[i].add /\ (i \in L <=> live(i))
    OBVIOUS
  <2>4. share[i] = ChunkElems(DotLane(i), chunk, I)
    BY <1>4
  <2> HIDE DEF f, live, combine, act, lines, pairs, share, C, L
  <2>5. /\ combine(i).rd = act(i, ChunkElems(DotLane(i), chunk, I)) /\ combine(i).wr = {}
        /\ combine(i).add = {<<"output", (i[1] \div topK) * K + row>> : row \in lines[i]}
                              \X {<<i[1], x>> : x \in ChunkElems(DotLane(i), chunk, I)}
    BY <2>1, DoesIs
  <2>6. f[i].rd = (IF live(i) THEN act(i, ChunkElems(DotLane(i), chunk, I)) ELSE {}) /\ f[i].wr = {}
    BY <2>2, <2>3, <2>5
  <2>7. f[i].add = IF live(i) THEN combine(i).add ELSE {}
    BY <2>2, <2>3
  <2> QED
    BY <2>3, <2>4, <2>5, <2>6, <2>7
<1>16. P = RoutedPairs(ids, E) /\ \A i \in L : i \in G /\ live(i) /\ i[1] \in P /\ pairs[i] = i[1] /\ lane[i] = DotLane(i)
  BY <1>4, <1>5
<1>17. \A i, j \in G : i[1] = j[1] => live(i) = live(j)
  OBVIOUS
<1>18. \A i, S, c : c \in act(i, S) <=> \E x \in S : c = <<"activated", x, i[1]>>
  OBVIOUS
<1>19. /\ \A i \in G : /\ lines[i] = Stride(SgOf(i[2]), Subgroups, K) /\ share[i] = parts[DotLane(i)] /\ O[i] = {}
                       /\ pairs[i] = i[1] /\ (i \in L <=> live(i)) /\ rows(i) = Stride(SgOf(i[2]), Subgroups, I)
       /\ DOMAIN W = G /\ DOMAIN A = G /\ DOMAIN B = G /\ DOMAIN C = G /\ DOMAIN O = G /\ DOMAIN d = G /\ L \subseteq G
       /\ \A p : p \in P <=> p \in Upto(n) /\ Routed(ids, p, E)
       /\ \A i : live(i) <=> Routed(ids, i[1], E)
  OBVIOUS
<1>20. \A z \in sums : z[1][1] = "output"
  <2> DEFINE of(p) == {<<"output", (p \div topK) * K + row>> : row \in Upto(K)} \X {<<p, x>> : x \in Upto(I)}
  <2>1. sums = UNION {of(p) : p \in P}
    BY DEF OutputSums
  <2>2. \A p : \A z \in of(p) : z[1][1] = "output"
    OBVIOUS
  <2> HIDE DEF of, sums, P
  <2> QED
    BY <2>1, <2>2
<1> HIDE DEF n, G, live, slm, act, rows, mine, project, activate, combine, d, e, f, L, pairs, lines, lane, cells, terms,
             parts, share, W, A, B, C, O, P, staged, whole, sums, k, w
<1>21. LanedDots(W, B, L, cells, lane, DotLanes, terms, staged, Upto(K))
  <2>1. \A i \in L : lane[i] = DotLane(i) /\ lane[i] \in Upto(DotLanes)
    BY <1>4, <1>16
  <2>2. ASSUME NEW i \in L, NEW c \in cells[i]
        PROVE  c \in staged
    <3>1. PICK x \in Upto(w) : x % I \in rows(i) /\ c = <<"gate_up", x, i[1]>>
      BY <1>10, <1>16
    <3>2. x % I \in Upto(I) /\ i[1] \in P
      BY <1>9, <1>16, <3>1
    <3> QED
      BY <1>11, <3>1, <3>2
  <2>3. ASSUME NEW i \in L, NEW j \in L, NEW c, c \in cells[i], c \in cells[j], lane[i] = lane[j]
        PROVE  i = j
    <3>1. PICK x \in Upto(w) : x % I \in rows(i) /\ c = <<"gate_up", x, i[1]>>
      BY <1>10, <1>16, <2>3
    <3>2. PICK y \in Upto(w) : y % I \in rows(j) /\ c = <<"gate_up", y, j[1]>>
      BY <1>10, <1>16, <2>3
    <3>3. x = y /\ i[1] = j[1]
      BY <3>1, <3>2
    <3>4. SgOf(i[2]) = SgOf(j[2])
      <4>1. I \in Nat
        OBVIOUS
      <4>2. (x % I) % Subgroups = SgOf(i[2]) /\ (y % I) % Subgroups = SgOf(j[2])
        BY <1>6, <1>16, <1>19, <3>1, <3>2, <4>1
      <4> QED
        BY <3>3, <4>2
    <3>5. DotLane(i) = DotLane(j)
      BY <2>1, <2>3
    <3>6. i = <<i[1], i[2]>> /\ j = <<j[1], j[2]>> /\ i[2] = j[2]
      BY <1>4, <1>16, <3>4, <3>5
    <3> QED
      BY <3>3, <3>6
  <2>4. ASSUME NEW c \in staged, NEW l \in Upto(DotLanes)
        PROVE  \E i \in L : c \in cells[i] /\ lane[i] = l
    <3>1. PICK p \in P : \E x \in Upto(w) : x % I \in Upto(I) /\ c = <<"gate_up", x, p>>
      BY <1>11
    <3>2. PICK x \in Upto(w) : x % I \in Upto(I) /\ c = <<"gate_up", x, p>>
      BY <3>1
    <3>3. PICK row \in Nat : row = x % I /\ row < I
      BY <3>2 DEF Upto
    <3>4. PICK sg \in Upto(Subgroups) : sg = row % Subgroups
      BY <1>2, DivisionOf
    <3>5. p \in Upto(n) /\ Routed(ids, p, E)
      BY <1>19
    <3>6. PICK i \in Grid(n, MoeLanes) : i[1] = p /\ SgOf(i[2]) = sg /\ DotLane(i) = l
      BY <1>2, <3>5, MoeItem
    <3>7. i \in G
      BY DEF G
    <3>8. i \in L /\ lane[i] = l
      BY <1>16, <1>19, <3>5, <3>6, <3>7
    <3>9. row \in rows(i)
      <4>1. I \in Nat
        OBVIOUS
      <4> QED
        BY <1>6, <1>19, <3>3, <3>4, <3>6, <3>7, <4>1
    <3>10. c \in cells[i]
      BY <1>10, <3>2, <3>3, <3>6, <3>7, <3>9
    <3> QED
      BY <3>8, <3>10
  <2>5. \A i \in DOMAIN W : /\ W[i] = IF i \in L /\ lane[i] = 0 THEN cells[i] ELSE {}
                            /\ B[i] = IF i \in L THEN cells[i] \X terms[lane[i]] ELSE {}
    BY <1>13, <1>19
  <2>6. \A i \in L : cells[i] \subseteq staged
    BY <2>2
  <2> QED
    BY <1>2, <1>3, <1>19, <2>1, <2>3, <2>4, <2>5, <2>6 DEF LanedDots
<1>22. Shares(W, staged) /\ Shares(B, whole)
  BY <1>12, <1>21, LanedShares
<1>23. Combines(C, L, pairs, lines, share, ids, E, topK, K, I)
  <2>1. ASSUME NEW i \in L
        PROVE  /\ pairs[i] \in RoutedPairs(ids, E) /\ \A row \in lines[i] : row \in Upto(K)
               /\ \A x \in share[i] : x \in Upto(I)
    <3>1. share[i] = parts[DotLane(i)] /\ DotLane(i) \in Upto(DotLanes)
      BY <1>4, <1>16, <1>19
    <3>2. share[i] \subseteq Upto(I)
      BY <1>3, <3>1 DEF Shares
    <3> QED
      BY <1>9, <1>16, <3>2
  <2>2. ASSUME NEW i \in L, NEW j \in L, NEW row, NEW x, pairs[i] = pairs[j], row \in lines[i], row \in lines[j],
               x \in share[i], x \in share[j]
        PROVE  i = j
    <3>1. /\ i \in G /\ j \in G /\ i[1] = j[1] /\ DotLane(i) \in Upto(DotLanes) /\ DotLane(j) \in Upto(DotLanes)
          /\ x \in parts[DotLane(i)] /\ x \in parts[DotLane(j)]
      BY <1>4, <1>16, <1>19, <2>2
    <3>2. DotLane(i) = DotLane(j)
      BY <1>3, <3>1 DEF Shares
    <3>3. row % Subgroups = SgOf(i[2]) /\ row % Subgroups = SgOf(j[2])
      <4>1. K \in Nat
        OBVIOUS
      <4>2. row \in Stride(SgOf(i[2]), Subgroups, K) /\ row \in Stride(SgOf(j[2]), Subgroups, K)
        BY <1>19, <2>2, <3>1
      <4> QED
        BY <1>6, <3>1, <4>1, <4>2
    <3>4. i = <<i[1], i[2]>> /\ j = <<j[1], j[2]>> /\ i[2] = j[2]
      BY <1>4, <3>1, <3>2, <3>3
    <3> QED
      BY <3>1, <3>4
  <2>3. ASSUME NEW p \in RoutedPairs(ids, E), NEW row \in Upto(K), NEW x \in Upto(I)
        PROVE  \E i \in L : pairs[i] = p /\ row \in lines[i] /\ x \in share[i]
    <3>1. PICK l \in Upto(DotLanes) : x \in parts[l]
      BY <1>3 DEF Shares
    <3>2. row \in Nat /\ row < K
      BY DEF Upto
    <3>3. PICK sg \in Upto(Subgroups) : sg = row % Subgroups
      BY <1>2, <3>2, DivisionOf
    <3>4. p \in Upto(n) /\ Routed(ids, p, E)
      BY <1>16, <1>19
    <3>5. PICK i \in Grid(n, MoeLanes) : i[1] = p /\ SgOf(i[2]) = sg /\ DotLane(i) = l
      BY <1>2, <3>4, MoeItem
    <3>6. i \in G
      BY DEF G
    <3>7. i \in L /\ pairs[i] = p /\ share[i] = parts[l]
      BY <1>19, <3>4, <3>5, <3>6
    <3>8. row \in lines[i]
      <4>1. K \in Nat
        OBVIOUS
      <4> QED
        BY <1>6, <1>19, <3>2, <3>3, <3>5, <3>6, <4>1
    <3> QED
      BY <3>1, <3>7, <3>8
  <2>4. \A i \in DOMAIN C :
          C[i] = IF i \in L
                 THEN {<<"output", (pairs[i] \div topK) * K + row>> : row \in lines[i]} \X {<<pairs[i], x>> : x \in share[i]}
                 ELSE {}
    BY <1>15, <1>19
  <2> QED
    BY <1>19, <2>1, <2>2, <2>3, <2>4 DEF Combines
<1>24. Shares(C, sums)
  <2>1. K \in Nat
    OBVIOUS
  <2>2. Shares(C, OutputSums(ids, E, topK, K, I))
    BY <1>23, <2>1, CombineShares
  <2> QED
    BY <2>2 DEF sums
<1>25. Shares(A, all)
  <2>1. ASSUME NEW z \in whole
        PROVE  z \notin sums
    <3>1. z[1] \in staged
      BY <1>12
    <3>2. z[1][1] = "gate_up"
      BY <1>11, <3>1
    <3> QED
      BY <1>20, <3>2
  <2>2. \A i \in DOMAIN A : A[i] = B[i] \cup C[i]
    BY <1>13, <1>19
  <2>3. all = whole \cup sums
    OBVIOUS
  <2> HIDE DEF all
  <2> QED
    BY <1>19, <1>22, <1>24, <2>1, <2>2, <2>3, SharesBoth
<1>26. \A i \in G : \A c, S : c \in slm(i, S) \/ c \in act(i, S) => ~IsGlobal(c) /\ c[3] = i[1]
  BY LocalCell DEF slm, act
<1>27. ASSUME NEW i \in G, NEW x \in ChunkElems(DotLane(i), chunk, I)
       PROVE  \E j \in G : j[1] = i[1] /\ x \in mine(j)
  <2>1. parts[DotLane(i)] = ChunkElems(DotLane(i), chunk, I) /\ DotLane(i) \in Upto(DotLanes)
    BY <1>4 DEF parts
  <2>2. x \in Upto(I)
    BY <1>3, <2>1 DEF Shares
  <2>3. x \in Nat /\ x < I
    BY <2>2 DEF Upto
  <2>4. PICK l \in Upto(MoeLanes) : l = x % MoeLanes
    BY <1>2, <2>3, DivisionOf
  <2>5. <<i[1], l>> \in G
    BY <1>4 DEF G, Grid
  <2>6. x \in mine(<<i[1], l>>)
    BY <1>7, <2>3, <2>4, <2>5
  <2> QED
    BY <2>5, <2>6
<1>28. ASSUME NEW i \in G, NEW j \in G, i[1] = j[1], NEW c, c \in act(i, mine(i)), c \in act(j, mine(j))
       PROVE  i = j
  <2>1. PICK x \in mine(i) : c = <<"activated", x, i[1]>>
    BY <1>18, <1>28
  <2>2. PICK y \in mine(j) : c = <<"activated", y, j[1]>>
    BY <1>18, <1>28
  <2>3. x = y
    BY <2>1, <2>2
  <2>4. x % MoeLanes = i[2] /\ x % MoeLanes = j[2]
    BY <1>7, <2>1, <2>2, <2>3
  <2> QED
    BY <1>4, <1>28, <2>4
<1>29. /\ k.phases = <<d, e, f>> /\ Items(k) = G /\ k.out = {} /\ k.sums = all
       /\ \A i : /\ Wrote(k, i) = d[i].wr \cup e[i].wr \cup f[i].wr /\ Added(k, i) = d[i].add \cup e[i].add \cup f[i].add
  BY <1>1, <1>19, ThreePhases DEF Kernel
<1>30. Shares(O, {})
  BY <1>19 DEF Shares
<1>31. \A i \in G : Added(k, i) = A[i]
  <2> SUFFICES ASSUME NEW i \in G
               PROVE  Added(k, i) = A[i]
    OBVIOUS
  <2>1. d[i].add = B[i] /\ f[i].add = C[i] /\ e[i].add = {} /\ A[i] = B[i] \cup C[i]
    BY <1>13, <1>14
  <2> QED
    BY <1>29, <2>1
<1>32. DOMAIN k.phases = 1..3 /\ k.phases[1] = d /\ k.phases[2] = e /\ k.phases[3] = f
  BY <1>29
<1>33. ASSUME NEW i \in G, NEW c \in W[i]
       PROVE  ~IsGlobal(c) /\ c[3] = i[1] /\ c \in cells[i] /\ live(i)
  <2>1. i \in L /\ c \in cells[i]
    BY <1>13
  <2>2. PICK x \in Upto(w) : x % I \in rows(i) /\ c = <<"gate_up", x, i[1]>>
    BY <1>10, <2>1
  <2> QED
    BY <1>19, <2>1, <2>2, LocalCell
<1>34. ASSUME NEW i \in G, live(i), NEW c \in slm(i, Entries(mine(i), I, gated))
       PROVE  \E j \in G : j[1] = i[1] /\ c \in W[j]
  <2>1. PICK x \in Upto(w) : x % I \in mine(i) /\ c = <<"gate_up", x, i[1]>>
    BY <1>10
  <2>2. x % I \in Upto(I) /\ i[1] \in P
    BY <1>9, <1>16, <1>19, <1>34, <2>1
  <2>3. c \in staged
    BY <1>11, <2>1, <2>2
  <2>4. PICK j \in G : c \in W[j]
    BY <1>19, <1>22, <2>3 DEF Shares
  <2>5. c[3] = j[1] /\ c[3] = i[1]
    BY <1>33, <2>1, <2>4
  <2> QED
    BY <2>4, <2>5
<1>35. ASSUME NEW p \in 1..3, NEW i \in G, NEW c
       PROVE  /\ c \in k.phases[p][i].wr => c \in O[i] \/ (~IsGlobal(c) /\ c[3] = i[1])
              /\ c \in k.phases[p][i].rd =>
                    \/ IsGlobal(c) /\ \A j \in G : c \in O[j] => j[1] = i[1]
                    \/ /\ ~IsGlobal(c) /\ c[3] = i[1]
                       /\ \/ c \in k.phases[p][i].wr
                          \/ \E j \in G : j[1] = i[1] /\ \E q \in 1..(p - 1) : c \in k.phases[q][j].wr
  <2>1. CASE p = 1
    <3>1. k.phases[p][i].rd = {} /\ k.phases[p][i].wr = W[i]
      BY <1>13, <1>32, <2>1
    <3> QED
      BY <1>33, <3>1
  <2>2. CASE p = 2
    <3>1. /\ k.phases[p][i].rd = (IF live(i) THEN slm(i, Entries(mine(i), I, gated)) ELSE {})
          /\ k.phases[p][i].wr = (IF live(i) THEN act(i, mine(i)) ELSE {})
      BY <1>14, <1>32, <2>2
    <3>2. ASSUME c \in k.phases[p][i].rd
          PROVE  /\ ~IsGlobal(c) /\ c[3] = i[1]
                 /\ \E j \in G : j[1] = i[1] /\ \E q \in 1..(p - 1) : c \in k.phases[q][j].wr
      <4>1. live(i) /\ c \in slm(i, Entries(mine(i), I, gated))
        BY <3>1, <3>2
      <4>2. PICK j \in G : j[1] = i[1] /\ c \in W[j]
        BY <1>34, <4>1
      <4>3. c \in k.phases[1][j].wr
        BY <1>13, <1>32, <4>2
      <4>4. 1 \in 1..(p - 1)
        BY <2>2
      <4> QED
        BY <1>26, <4>1, <4>2, <4>3, <4>4
    <3>3. c \in k.phases[p][i].wr => ~IsGlobal(c) /\ c[3] = i[1]
      BY <1>26, <3>1
    <3> QED
      BY <3>2, <3>3
  <2>3. CASE p = 3
    <3>1. /\ k.phases[p][i].rd = (IF live(i) THEN act(i, ChunkElems(DotLane(i), chunk, I)) ELSE {})
          /\ k.phases[p][i].wr = {}
      BY <1>15, <1>32, <2>3
    <3>2. ASSUME c \in k.phases[p][i].rd
          PROVE  /\ ~IsGlobal(c) /\ c[3] = i[1]
                 /\ \E j \in G : j[1] = i[1] /\ \E q \in 1..(p - 1) : c \in k.phases[q][j].wr
      <4>1. live(i) /\ c \in act(i, ChunkElems(DotLane(i), chunk, I))
        BY <3>1, <3>2
      <4>2. PICK x \in ChunkElems(DotLane(i), chunk, I) : c = <<"activated", x, i[1]>>
        BY <1>18, <4>1
      <4>3. PICK j \in G : j[1] = i[1] /\ x \in mine(j)
        BY <1>27
      <4>4. live(j) /\ c \in act(j, mine(j))
        BY <1>17, <1>18, <4>1, <4>2, <4>3
      <4>5. c \in k.phases[2][j].wr
        BY <1>14, <1>32, <4>4
      <4>6. 2 \in 1..(p - 1)
        BY <2>3
      <4> QED
        BY <1>26, <4>1, <4>3, <4>5, <4>6
    <3> QED
      BY <3>1, <3>2
  <2> QED
    BY <2>1, <2>2, <2>3
<1>36. \A i, j \in G : \A c : c \in W[i] /\ c \in W[j] => i = j
  BY <1>19, <1>22 DEF Shares
<1>37. ASSUME NEW p \in 1..3, NEW i \in G, NEW j \in G, i[1] = j[1], i # j, NEW c, c \in k.phases[p][i].wr
       PROVE  c \notin k.phases[p][j].rd /\ c \notin k.phases[p][j].wr
  <2>1. p # 3
    <3>1. k.phases[3][i].wr = {}
      BY <1>15, <1>32
    <3> QED
      BY <1>37, <3>1
  <2>2. CASE p = 1
    <3>1. k.phases[p][j].rd = {} /\ k.phases[p][j].wr = W[j] /\ k.phases[p][i].wr = W[i]
      BY <1>13, <1>32, <2>2
    <3> QED
      BY <1>36, <1>37, <3>1
  <2>3. CASE p = 2
    <3>1. /\ k.phases[p][j].rd = (IF live(j) THEN slm(j, Entries(mine(j), I, gated)) ELSE {})
          /\ k.phases[p][j].wr = (IF live(j) THEN act(j, mine(j)) ELSE {})
          /\ k.phases[p][i].wr = (IF live(i) THEN act(i, mine(i)) ELSE {})
      BY <1>14, <1>32, <2>3
    <3>2. live(i) /\ c \in act(i, mine(i))
      BY <1>37, <3>1
    <3>3. c \notin k.phases[p][j].wr
      BY <1>28, <1>37, <3>1, <3>2
    <3>4. c \notin slm(j, Entries(mine(j), I, gated))
      BY <3>2 DEF act, slm
    <3> QED
      BY <3>1, <3>3, <3>4
  <2> QED
    BY <2>1, <2>2, <2>3
<1>38. InPhases(k, O, A)
  <2>1. /\ DOMAIN O = Items(k) /\ DOMAIN A = Items(k)
        /\ \A i \in Items(k) : Added(k, i) = A[i] /\ \A c \in O[i] : IsGlobal(c) /\ c \in Wrote(k, i)
    BY <1>19, <1>29, <1>31
  <2>2. \A p \in DOMAIN k.phases : \A i \in Items(k) : \A c :
          /\ c \in k.phases[p][i].wr => c \in O[i] \/ (~IsGlobal(c) /\ c[3] = i[1])
          /\ c \in k.phases[p][i].rd =>
                \/ IsGlobal(c) /\ \A j \in Items(k) : c \in O[j] => j[1] = i[1]
                \/ /\ ~IsGlobal(c) /\ c[3] = i[1]
                   /\ \/ c \in k.phases[p][i].wr
                      \/ \E j \in Items(k) : j[1] = i[1] /\ \E q \in 1..(p - 1) : c \in k.phases[q][j].wr
    <3> SUFFICES ASSUME NEW p \in 1..3, NEW i \in G, NEW c
                 PROVE  /\ c \in k.phases[p][i].wr => c \in O[i] \/ (~IsGlobal(c) /\ c[3] = i[1])
                        /\ c \in k.phases[p][i].rd =>
                              \/ IsGlobal(c) /\ \A j \in G : c \in O[j] => j[1] = i[1]
                              \/ /\ ~IsGlobal(c) /\ c[3] = i[1]
                                 /\ \/ c \in k.phases[p][i].wr
                                    \/ \E j \in G : j[1] = i[1] /\ \E q \in 1..(p - 1) : c \in k.phases[q][j].wr
      BY <1>29, <1>32, SMTT(30)
    <3> QED
      BY <1>35
  <2>3. \A p \in DOMAIN k.phases : \A i, j \in Items(k) : \A c :
          i[1] = j[1] /\ i # j /\ c \in k.phases[p][i].wr => c \notin k.phases[p][j].rd /\ c \notin k.phases[p][j].wr
    BY <1>29, <1>32, <1>37
  <2> QED
    BY <2>1, <2>2, <2>3 DEF InPhases
<1>39. KernelRight(k)
  BY <1>25, <1>29, <1>30, <1>38, PhasesRight
<1> QED
  BY <1>39 DEF k

-----------------------------------------------------------------------------
(* DPAS tiles: operands staged, accumulators spilled                        *)

LEMMA TilePhasesTwo ==
    ASSUME NEW T \in Nat, NEW S, NEW D, NEW spill, NEW put, NEW ph,
           S = [t \in 1..T |-> S[t]], D = [t \in 1..T |-> D[t]],
           ph = TilePhases(S, D) \o <<spill, put>>
    PROVE  StagingTwo(ph, T, S, D, spill, put)
<1> DEFINE f == TilePhases(S, D)
           g == f \o <<spill>>
<1>1. Staging(g, T, S, D, spill)
  BY TilePhasesAre
<1>2. PICK n \in Nat : n = 2 * T
  OBVIOUS
<1>3. f = [p \in 1..n |-> f[p]]
  <2>1. Len(S) = T
    BY LengthOf
  <2> QED
    BY <1>2, <2>1 DEF TilePhases
<1> HIDE DEF f
<1>4. \A p \in 1..n : g[p] = f[p]
  BY <1>3, Append1
<1>5. /\ DOMAIN ph = 1..(n + 2)
      /\ \A p \in 1..n : ph[p] = f[p]
      /\ ph[n + 1] = spill /\ ph[n + 2] = put
  <2>1. ph = f \o <<spill, put>>
    BY DEF f
  <2>2. /\ DOMAIN (f \o <<spill, put>>) = 1..(n + 2)
        /\ \A p \in 1..n : (f \o <<spill, put>>)[p] = f[p]
        /\ (f \o <<spill, put>>)[n + 1] = spill /\ (f \o <<spill, put>>)[n + 2] = put
    BY <1>3, Append2
  <2> QED
    BY <2>1, <2>2
<1>6. /\ DOMAIN g = 1..(n + 1)
      /\ \A t \in 1..T : g[2 * t - 1] = S[t] /\ g[2 * t] = D[t]
      /\ \A p \in DOMAIN g : \/ \E t \in 1..T : p = 2 * t - 1
                             \/ \E t \in 1..T : p = 2 * t
                             \/ p = 2 * T + 1
  BY <1>1, <1>2 DEF Staging
<1> HIDE DEF g
<1>7. ASSUME NEW t \in 1..T
      PROVE  ph[2 * t - 1] = S[t] /\ ph[2 * t] = D[t]
  <2>1. 2 * t - 1 \in 1..n /\ 2 * t \in 1..n
    BY <1>2
  <2> QED
    BY <1>4, <1>5, <1>6, <2>1
<1>8. ASSUME NEW p \in DOMAIN ph
      PROVE  \/ \E t \in 1..T : p = 2 * t - 1
             \/ \E t \in 1..T : p = 2 * t
             \/ p = 2 * T + 1
             \/ p = 2 * T + 2
  <2>1. CASE p = n + 2
    BY <1>2, <2>1
  <2>2. CASE p \in 1..(n + 1)
    BY <1>6, <2>2
  <2> QED
    BY <1>5, <2>1, <2>2
<1> QED
  BY <1>2, <1>5, <1>7, <1>8 DEF StagingTwo

\* The cells of a buffer of the group the lanes stage, and the whole of it.
LEMMA StageTileIs ==
    ASSUME NEW name, NEW g, NEW lane \in Upto(MmaLanes), NEW size \in Nat, NEW c
    PROVE  c \in StageTile(name, g, lane, size) <=>
             \E e \in Nat : e < size /\ e % MmaLanes = lane /\ c = <<name, e, g>>
<1>0. MmaLanes \in Nat \ {0}
  BY GemmAssumption
<1>1. c \in StageTile(name, g, lane, size) <=> \E e \in Stride(lane, MmaLanes, size) : c = <<name, e, g>>
  BY DEF StageTile
<1>2. \A e : e \in Stride(lane, MmaLanes, size) <=> e \in Nat /\ e < size /\ e % MmaLanes = lane
  BY <1>0, StrideIs
<1> QED
  BY <1>1, <1>2

LEMMA WholeTileIs ==
    ASSUME NEW name, NEW g, NEW size \in Nat, NEW c, c \in WholeTile(name, g, size)
    PROVE  \E lane \in Upto(MmaLanes) : c \in StageTile(name, g, lane, size)
<1>0. MmaLanes \in Nat \ {0}
  BY GemmAssumption
<1>1. PICK e \in Upto(size) : c = <<name, e, g>>
  BY DEF WholeTile
<1>2. e \in Nat /\ e < size
  BY DEF Upto
<1>3. PICK lane \in Upto(MmaLanes) : lane = e % MmaLanes
  BY <1>0, <1>2, DivisionOf
<1> QED
  BY <1>1, <1>2, <1>3, StageTileIs

LEMMA StageTileApart ==
    ASSUME NEW n1, NEW n2, NEW g1, NEW g2, NEW l1 \in Upto(MmaLanes), NEW l2 \in Upto(MmaLanes),
           NEW s1 \in Nat, NEW s2 \in Nat, NEW c,
           c \in StageTile(n1, g1, l1, s1), c \in StageTile(n2, g2, l2, s2)
    PROVE  n1 = n2 /\ g1 = g2 /\ l1 = l2
<1>1. PICK e \in Nat : e % MmaLanes = l1 /\ c = <<n1, e, g1>>
  BY StageTileIs
<1>2. PICK f \in Nat : f % MmaLanes = l2 /\ c = <<n2, f, g2>>
  BY StageTileIs
<1>3. n1 = n2 /\ e = f /\ g1 = g2
  BY <1>1, <1>2
<1> QED
  BY <1>1, <1>2, <1>3

LEMMA StageTileLocal ==
    ASSUME NEW name, NEW g, NEW lane \in Upto(MmaLanes), NEW size \in Nat, NEW c,
           c \in StageTile(name, g, lane, size)
    PROVE  ~IsGlobal(c) /\ c[3] = g
<1>1. PICK e \in Nat : c = <<name, e, g>>
  BY StageTileIs
<1> QED
  BY <1>1, LocalCell

\* The lanes of a sub-group spill an accumulator tile, each the elements it
\* holds, and read it back, each every MmaLanes-th one: whatever the layout of
\* the accumulator, somebody in the sub-group has spilled what a lane reads.
LEMMA SpillStaged ==
    ASSUME NEW n \in Nat, NEW Z, NEW Y, NEW O,
           \A i \in Grid(n, MmaLanes) : /\ Z[i] = SpillTile(i[1], i[2])
                                       /\ Y[i] = StageTile("Cs", i[1], i[2], TileM * TileN)
                                       /\ \A c \in O[i] : IsGlobal(c)
    PROVE  Staged(Grid(n, MmaLanes), Z, Y, O)
<1> DEFINE G == Grid(n, MmaLanes)
<1>1. TileM * TileN \in Nat
  BY GemmAssumption, ProductNat
<1>2. \A e \in Upto(TileM * TileN) : AccLane[e] \in Upto(MmaLanes)
  BY AccLaneAssumption DEF Upto
<1>3. ASSUME NEW i \in G
      PROVE  i[1] \in Upto(n) /\ i[2] \in Upto(MmaLanes) /\ i = <<i[1], i[2]>>
  BY DEF Grid
<1>4. ASSUME NEW i \in G, NEW c
      PROVE  c \in Z[i] <=> \E e \in Upto(TileM * TileN) : AccLane[e] = i[2] /\ c = <<"Cs", e, i[1]>>
  BY DEF SpillTile
<1>5. ASSUME NEW i \in G, NEW c \in Y[i]
      PROVE  \E e \in Upto(TileM * TileN) : c = <<"Cs", e, i[1]>>
  <2>1. PICK e \in Nat : e < TileM * TileN /\ c = <<"Cs", e, i[1]>>
    BY <1>1, <1>3, <1>5, StageTileIs
  <2>2. e \in Upto(TileM * TileN)
    BY <1>1, <2>1 DEF Upto
  <2> QED
    BY <2>1, <2>2
<1>6. \A i \in G : \A c \in Z[i] \cup Y[i] : ~IsGlobal(c) /\ c[3] = i[1]
  <2>1. \A i \in G : \A c \in Z[i] \cup Y[i] : \E e : c = <<"Cs", e, i[1]>>
    BY <1>4, <1>5
  <2> QED
    BY <2>1, LocalCell
<1>7. ASSUME NEW i \in G, NEW c \in Y[i]
      PROVE  \E j \in G : j[1] = i[1] /\ c \in Z[j]
  <2>1. PICK e \in Upto(TileM * TileN) : c = <<"Cs", e, i[1]>>
    BY <1>5
  <2>2. PICK l \in Upto(MmaLanes) : AccLane[e] = l
    BY <1>2
  <2>3. PICK j \in G : j = <<i[1], l>>
    BY <1>3 DEF Grid
  <2>4. j[1] = i[1] /\ j[2] = l
    BY <2>3
  <2> QED
    BY <1>4, <2>1, <2>2, <2>4
<1>8. ASSUME NEW i \in G, NEW j \in G, NEW c, c \in Z[i], c \in Z[j]
      PROVE  i = j
  <2>1. PICK e \in Upto(TileM * TileN) : AccLane[e] = i[2] /\ c = <<"Cs", e, i[1]>>
    BY <1>4, <1>8
  <2>2. PICK f \in Upto(TileM * TileN) : AccLane[f] = j[2] /\ c = <<"Cs", f, j[1]>>
    BY <1>4, <1>8
  <2>3. e = f /\ i[1] = j[1]
    BY <2>1, <2>2
  <2>4. i[2] = j[2]
    BY <2>1, <2>2, <2>3
  <2> QED
    BY <1>3, <2>3, <2>4
<1> QED
  BY <1>6, <1>7, <1>8 DEF Staged

\* w4a16_gemm: both operands are staged by the whole sub-group before it
\* multiplies, the accumulators are spilled before they are put, and every
\* element of C is put by one lane and gets every k once, with the scale of the
\* group of k.
THEOREM W4A16GemmRight ==
    ASSUME NEW M \in Nat, NEW N \in Nat, NEW K \in Nat \ {0}, NEW group
    PROVE  KernelRight(W4A16Gemm(M, N, K, group))
<1> DEFINE cols == CeilDivide(N, TileN)
           rows == CeilDivide(M, TileM)
           T == CeilDivide(K, TileK)
           G == Grid(rows * cols, MmaLanes)
           m(i, e) == (i[1] \div cols) * TileM + e \div TileN
           n(i, e) == (i[1] % cols) * TileN + (e % TileN)
           kept(i) == {e \in Stride(i[2], MmaLanes, TileM * TileN) : m(i, e) < M /\ n(i, e) < N}
           puts(i) == {<<"C", m(i, e) * N + n(i, e)>> : e \in kept(i)}
           As(i) == StageTile("As", i[1], i[2], TileM * TileK)
           Bs(i) == StageTile("Bs", i[1], i[2], TileK * TileN)
           spilled(i) == SpillTile(i[1], i[2])
           back(i) == StageTile("Cs", i[1], i[2], TileM * TileN)
           read(i) == WholeTile("As", i[1], TileM * TileK) \cup WholeTile("Bs", i[1], TileK * TileN)
           ks(t) == {x \in Terms(K, group) : x[1] \in ((t - 1) * TileK)..(t * TileK - 1)}
           S == [t \in 1..T |-> [i \in G |-> Does({}, As(i) \cup Bs(i), {})]]
           D == [t \in 1..T |-> [i \in G |-> Does(read(i), {}, puts(i) \X ks(t))]]
           spill == [i \in G |-> Does({}, spilled(i), {})]
           put == [i \in G |-> Does(back(i), puts(i), {})]
           out == At("C", 0, Upto(M * N))
           sums == At("C", 0, Upto(M * N)) \X Terms(K, group)
           O == RectCells("C", rows * cols, MmaLanes, M, N, cols, TileM, TileN)
           L == [i \in G |-> As(i) \cup Bs(i)]
           R == [i \in G |-> read(i)]
           Z == [i \in G |-> spilled(i)]
           Y == [i \in G |-> back(i)]
           A == TimesEach(O, Terms(K, group))
           k == W4A16Gemm(M, N, K, group)
           ph == k.phases
<1>0. /\ TileM \in Nat \ {0} /\ TileN \in Nat \ {0} /\ TileK \in Nat \ {0} /\ MmaLanes \in Nat \ {0}
      /\ TileM * TileK \in Nat /\ TileK * TileN \in Nat /\ TileM * TileN \in Nat
  BY GemmAssumption, ProductNat
<1>1. T \in Nat \ {0} /\ rows \in Nat /\ cols \in Nat
  <2>1. CeilDivide(K, TileK) \in Nat /\ CeilDivide(K, TileK) > 0
    BY <1>0, CeilAbove
  <2>2. CeilDivide(M, TileM) \in Nat
    BY <1>0, CeilAbove
  <2>3. CeilDivide(N, TileN) \in Nat
    BY <1>0, CeilAbove
  <2> HIDE DEF T
  <2> QED
    BY <2>1, <2>2, <2>3 DEF T
<1>2. k = Kernel(TilePhases(S, D) \o <<spill, put>>, out, sums)
  BY DEF W4A16Gemm, StoreTile
<1>3. ph = TilePhases(S, D) \o <<spill, put>> /\ k.out = out /\ k.sums = sums
  <2> HIDE DEF k, S, D, spill, put, out, sums
  <2> QED
    BY <1>2 DEF Kernel
<1>4. StagingTwo(ph, T, S, D, spill, put)
  <2>1. S = [t \in 1..T |-> S[t]] /\ D = [t \in 1..T |-> D[t]]
    OBVIOUS
  <2> HIDE DEF S, D, T, spill, put, ph
  <2> QED
    BY <1>1, <1>3, <2>1, TilePhasesTwo
<1>5. DOMAIN O = G /\ \A i \in G : O[i] = puts(i)
  BY DEF RectCells, OutAt, Inside, AtRow, AtCol
<1>6. ASSUME NEW i \in G
      PROVE  /\ i[1] \in Nat /\ i[1] \in Upto(rows * cols) /\ i[2] \in Upto(MmaLanes) /\ i = <<i[1], i[2]>>
  BY GridItems
<1>7. Shares(O, out)
  <2> HIDE DEF O, cols, rows
  <2> QED
    BY <1>0, RectShares DEF O, cols, rows
<1>8. \A i \in G : L[i] = As(i) \cup Bs(i) /\ R[i] = read(i) /\ Z[i] = spilled(i) /\ Y[i] = back(i)
  OBVIOUS
<1>9. /\ \A t \in 1..T : \A i \in G : /\ S[t][i].rd = {} /\ S[t][i].wr = L[i] /\ S[t][i].add = {}
                                      /\ D[t][i].rd = R[i] /\ D[t][i].wr = {} /\ D[t][i].add = O[i] \X ks(t)
      /\ \A i \in G : /\ spill[i].rd = {} /\ spill[i].wr = Z[i] /\ spill[i].add = {}
                      /\ put[i].rd = Y[i] /\ put[i].wr = O[i] /\ put[i].add = {}
  <2> HIDE DEF As, Bs, spilled, back, read, puts, ks, G, O
  <2> QED
    BY <1>5, <1>8 DEF Does
<1>10. Items(k) = G
  <2>1. 1 \in 1..T /\ 2 * 1 - 1 = 1
    BY <1>1
  <2>2. ph[1] = S[1]
    BY <1>4, <2>1 DEF StagingTwo
  <2>3. DOMAIN S[1] = G
    BY <2>1
  <2> QED
    BY <2>2, <2>3 DEF Items
<1> HIDE DEF k, ph, S, D, spill, put, L, R, Z, Y, O, G, out, sums, T
<1>11. /\ DOMAIN ph = 1..(2 * T + 2)
       /\ \A t \in 1..T : ph[2 * t - 1] = S[t] /\ ph[2 * t] = D[t]
       /\ ph[2 * T + 1] = spill /\ ph[2 * T + 2] = put
       /\ \A p \in DOMAIN ph : \/ \E t \in 1..T : p = 2 * t - 1
                               \/ \E t \in 1..T : p = 2 * t
                               \/ p = 2 * T + 1
                               \/ p = 2 * T + 2
  BY <1>4 DEF StagingTwo
<1>12. ASSUME NEW p \in DOMAIN ph
       PROVE  \/ PutPhase(ph, p, G, L) \/ ReadPhase(ph, p, G, L, R)
              \/ PutPhase(ph, p, G, Z) \/ OutPhase(ph, p, G, Z, Y, O)
  <2>1. CASE \E t \in 1..T : p = 2 * t - 1
    <3>1. PICK t \in 1..T : p = 2 * t - 1
      BY <2>1
    <3>2. ph[p] = S[t]
      BY <1>11, <3>1
    <3> QED
      BY <1>9, <3>2 DEF PutPhase
  <2>2. CASE \E t \in 1..T : p = 2 * t
    <3>1. PICK t \in 1..T : p = 2 * t
      BY <2>2
    <3>2. ph[p] = D[t] /\ ph[2 * t - 1] = S[t]
      BY <1>11, <3>1
    <3>3. 2 * t - 1 \in 1..(p - 1)
      BY <1>1, <3>1
    <3>4. \A i \in G : ph[2 * t - 1][i].wr = L[i]
      BY <1>9, <3>2
    <3>5. \A i \in G : ph[p][i].wr = {} /\ ph[p][i].rd = R[i]
      BY <1>9, <3>2
    <3> QED
      BY <3>3, <3>4, <3>5 DEF ReadPhase
  <2>3. CASE p = 2 * T + 1
    <3>1. ph[p] = spill
      BY <1>11, <2>3
    <3> QED
      BY <1>9, <3>1 DEF PutPhase
  <2>4. CASE p = 2 * T + 2
    <3>1. ph[p] = put /\ ph[2 * T + 1] = spill
      BY <1>11, <2>4
    <3>2. 2 * T + 1 \in 1..(p - 1)
      BY <1>1, <2>4
    <3>3. \A i \in G : ph[2 * T + 1][i].wr = Z[i]
      BY <1>9, <3>1
    <3>4. \A i \in G : ph[p][i].wr \subseteq O[i] /\ ph[p][i].rd \subseteq Y[i]
      BY <1>9, <3>1
    <3> QED
      BY <3>2, <3>3, <3>4 DEF OutPhase
  <2> QED
    BY <1>11, <2>1, <2>2, <2>3, <2>4
<1>13. ByPhase(k, L, R, Z, Y, O)
  <2>1. 2 * T + 2 \in DOMAIN ph
    BY <1>1, <1>11
  <2>2. \A i \in G : \A c \in O[i] : c \in ph[2 * T + 2][i].wr
    BY <1>9, <1>11
  <2>3. \A i \in G : \A c \in O[i] : \E p \in DOMAIN ph : c \in ph[p][i].wr
    BY <2>1, <2>2
  <2>4. ph = k.phases
    BY DEF ph
  <2> QED
    BY <1>10, <1>12, <2>3, <2>4 DEF ByPhase
<1>14. ASSUME NEW i \in G, NEW j \in G, NEW c, c \in As(i) \cup Bs(i), c \in As(j) \cup Bs(j)
       PROVE  i = j
  <2>1. i[1] = j[1] /\ i[2] = j[2]
    BY <1>0, <1>6, <1>14, StageTileApart
  <2> QED
    BY <1>6, <2>1
<1>15. ASSUME NEW i \in G, NEW l \in Upto(MmaLanes)
       PROVE  \E j \in G : j[1] = i[1] /\ j[2] = l
  <2>1. <<i[1], l>> \in G
    BY <1>6 DEF G, Grid
  <2> QED
    BY <2>1
<1>16. ASSUME NEW i \in G, NEW c \in read(i)
       PROVE  \E j \in G : j[1] = i[1] /\ c \in As(j) \cup Bs(j)
  <2>1. CASE c \in WholeTile("As", i[1], TileM * TileK)
    <3>1. PICK l \in Upto(MmaLanes) : c \in StageTile("As", i[1], l, TileM * TileK)
      BY <1>0, <2>1, WholeTileIs
    <3>2. PICK j \in G : j[1] = i[1] /\ j[2] = l
      BY <1>15
    <3> QED
      BY <3>1, <3>2
  <2>2. CASE c \in WholeTile("Bs", i[1], TileK * TileN)
    <3>1. PICK l \in Upto(MmaLanes) : c \in StageTile("Bs", i[1], l, TileK * TileN)
      BY <1>0, <2>2, WholeTileIs
    <3>2. PICK j \in G : j[1] = i[1] /\ j[2] = l
      BY <1>15
    <3> QED
      BY <3>1, <3>2
  <2> QED
    BY <2>1, <2>2
<1>17. ASSUME NEW i \in G, NEW c \in As(i) \cup Bs(i)
       PROVE  ~IsGlobal(c) /\ c[3] = i[1]
  BY <1>0, <1>6, StageTileLocal
<1>18. \A i \in G : \A c \in O[i] : IsGlobal(c)
  <2>1. \A i \in G : \A c \in puts(i) : \E x : c = <<"C", x>>
    OBVIOUS
  <2> QED
    BY <1>5, <2>1, GlobalCell
<1>19. Staged(G, L, R, O)
  <2>1. \A i \in G : \A c \in L[i] : ~IsGlobal(c) /\ c[3] = i[1]
    BY <1>8, <1>17
  <2>2. \A i \in G : \A c \in R[i] : \E j \in G : j[1] = i[1] /\ c \in L[j]
    BY <1>8, <1>16
  <2>3. \A i, j \in G : \A c : c \in L[i] /\ c \in L[j] => i = j
    BY <1>8, <1>14
  <2>4. \A i \in G : \A c \in R[i] : ~IsGlobal(c) /\ c[3] = i[1]
    BY <2>1, <2>2
  <2> QED
    BY <1>18, <2>1, <2>2, <2>3, <2>4 DEF Staged
<1>20. Staged(G, Z, Y, O)
  <2> HIDE DEF puts
  <2> QED
    BY <1>1, <1>8, <1>18, SpillStaged, ProductNat DEF G
<1>21. ASSUME NEW i \in G
       PROVE  Added(k, i) = A[i]
  <2>1. Added(k, i) = UNION {ph[p][i].add : p \in DOMAIN ph}
    BY DEF Added, ph
  <2>2. A[i] = O[i] \X Terms(K, group)
    BY <1>5 DEF TimesEach
  <2>3. \A x : x \in Terms(K, group) <=> \E t \in 1..T : x \in ks(t)
    <3>1. \A x : x \in Terms(K, group) <=> \E y \in Upto(K) : x = <<y, y \div group>>
      BY DEF Terms
    <3>2. \A y \in Upto(K) : \E t \in 1..T : y \in ((t - 1) * TileK)..(t * TileK - 1)
      BY <1>0, TileTerms DEF T
    <3>3. ASSUME NEW x \in Terms(K, group)
          PROVE  \E t \in 1..T : x \in ks(t)
      <4>1. PICK y \in Upto(K) : x = <<y, y \div group>>
        BY <3>1
      <4>2. x[1] = y
        BY <4>1
      <4>3. PICK t \in 1..T : y \in ((t - 1) * TileK)..(t * TileK - 1)
        BY <3>2
      <4> QED
        BY <4>2, <4>3
    <3> QED
      BY <3>3
  <2> HIDE DEF ks, A
  <2>4. ASSUME NEW z \in Added(k, i)
        PROVE  z \in O[i] \X Terms(K, group)
    <3>1. PICK p \in DOMAIN ph : z \in ph[p][i].add
      BY <2>1
    <3>2. CASE \E t \in 1..T : p = 2 * t - 1
      BY <1>9, <1>11, <3>1, <3>2
    <3>3. CASE \E t \in 1..T : p = 2 * t
      <4>1. PICK t \in 1..T : p = 2 * t
        BY <3>3
      <4>2. z \in O[i] \X ks(t)
        BY <1>9, <1>11, <3>1, <4>1
      <4> QED
        BY <2>3, <4>2
    <3>4. CASE p = 2 * T + 1 \/ p = 2 * T + 2
      BY <1>9, <1>11, <3>1, <3>4
    <3> QED
      BY <1>11, <3>2, <3>3, <3>4
  <2>5. ASSUME NEW z \in O[i] \X Terms(K, group)
        PROVE  z \in Added(k, i)
    <3>1. PICK c \in O[i] : \E x \in Terms(K, group) : z = <<c, x>>
      OBVIOUS
    <3>2. PICK x \in Terms(K, group) : z = <<c, x>>
      BY <3>1
    <3>3. PICK t \in 1..T : x \in ks(t)
      BY <2>3
    <3>4. z \in O[i] \X ks(t)
      BY <3>2, <3>3
    <3>5. ph[2 * t] = D[t] /\ 2 * t \in DOMAIN ph
      BY <1>1, <1>11
    <3>6. z \in ph[2 * t][i].add
      BY <1>9, <3>4, <3>5
    <3> QED
      BY <2>1, <3>5, <3>6
  <2> QED
    BY <2>2, <2>4, <2>5
<1>22. DOMAIN A = G /\ Shares(A, sums)
  <2>1. DOMAIN A = G
    BY <1>5 DEF TimesEach
  <2>2. Shares(A, out \X Terms(K, group))
    BY <1>7, TimesEachShares
  <2> QED
    BY <2>1, <2>2 DEF sums, out
<1> HIDE DEF A
<1>23. KernelRight(k)
  BY <1>3, <1>5, <1>7, <1>10, <1>13, <1>19, <1>20, <1>21, <1>22, ByPhaseRight
<1> QED
  BY <1>23 DEF k

\* The entries of a spilled tile that a lane meets when it strides by the
\* tile's width are those of its own column.
MetIn(g, t, lane, lanes) ==
    {<<g * TileN + (e % TileN), (t - 1) * TileM + e \div TileN>> : e \in Stride(lane, lanes, TileM * TileN)}

LEMMA OwnColumn ==
    ASSUME NEW lane \in Upto(TileN), NEW g \in Nat, NEW t \in Nat \ {0}, NEW x
    PROVE  x \in MetIn(g, t, lane, TileN) <=>
             \E h \in ((t - 1) * TileM)..(t * TileM - 1) : x = <<g * TileN + lane, h>>
<1>0. TileM \in Nat \ {0} /\ TileN \in Nat \ {0}
  BY GemmAssumption
<1>1. PICK size \in Nat : size = TileM * TileN
  BY <1>0, ProductNat
<1>2. PICK b \in Nat : b = (t - 1) * TileM /\ t * TileM = b + TileM
  <2>1. t - 1 \in Nat
    OBVIOUS
  <2>2. (t - 1) * TileM \in Nat
    BY <1>0, <2>1, ProductNat
  <2>3. t * TileM = (t - 1) * TileM + TileM
    BY <1>0, SMT
  <2> QED
    BY <2>2, <2>3
<1>3. x \in MetIn(g, t, lane, TileN) <=>
        \E e \in Stride(lane, TileN, size) : x = <<g * TileN + (e % TileN), b + e \div TileN>>
  BY <1>1, <1>2 DEF MetIn
<1>4. \A e : e \in Stride(lane, TileN, size) <=> e \in Nat /\ e < size /\ e % TileN = lane
  BY <1>0, StrideIs
<1>5. ASSUME NEW e \in Stride(lane, TileN, size), x = <<g * TileN + (e % TileN), b + e \div TileN>>
      PROVE  \E h \in b..(b + TileM - 1) : x = <<g * TileN + lane, h>>
  <2>1. e \in Nat /\ e < size /\ e % TileN = lane
    BY <1>4
  <2>2. PICK q \in Nat : q = e \div TileN
    BY <1>0, <2>1, DivisionOf
  <2>3. q < TileM
    BY <1>0, <1>1, <2>1, <2>2, QuotientBelow
  <2>4. b + q \in b..(b + TileM - 1)
    BY <1>0, <2>3
  <2> QED
    BY <1>5, <2>1, <2>2, <2>4
<1>6. ASSUME NEW h \in b..(b + TileM - 1), x = <<g * TileN + lane, h>>
      PROVE  \E e \in Stride(lane, TileN, size) : x = <<g * TileN + (e % TileN), b + e \div TileN>>
  <2>1. PICK q \in Nat : q < TileM /\ h = b + q
    <3>1. h - b \in Nat /\ h - b < TileM /\ h = b + (h - b)
      BY <1>0, <1>6
    <3> QED
      BY <3>1
  <2>2. PICK e \in Nat : e = q * TileN + lane /\ e \div TileN = q /\ e % TileN = lane
    BY <1>0, DivisionUnique
  <2>3. e < size
    BY <1>0, <1>1, <2>1, <2>2, QuotientBelow
  <2>4. e \in Stride(lane, TileN, size)
    BY <1>4, <2>2, <2>3
  <2> QED
    BY <1>6, <2>1, <2>2, <2>4
<1>7. x \in MetIn(g, t, lane, TileN) <=> \E h \in b..(b + TileM - 1) : x = <<g * TileN + lane, h>>
  BY <1>3, <1>5, <1>6
<1>8. ((t - 1) * TileM)..(t * TileM - 1) = b..(b + TileM - 1)
  BY <1>0, <1>2
<1> QED
  BY <1>7, <1>8

\* A sub-group per tile of keys, a key per lane.
KeyCell(i, tiles, Skv) == <<"logits", (i[1] \div tiles) * Skv + ((i[1] % tiles) * TileN + i[2])>>

LEMMA KeyCells ==
    ASSUME NEW S \in Nat, NEW Skv \in Nat, MmaLanes = TileN, NEW tiles, tiles = CeilDivide(Skv, TileN), NEW O,
           O = [i \in Grid(S * tiles, MmaLanes) |->
                  IF (i[1] % tiles) * TileN + i[2] < Skv THEN {KeyCell(i, tiles, Skv)} ELSE {}]
    PROVE  Shares(O, At("logits", 0, Upto(S * Skv)))
<1>0. TileN \in Nat \ {0} /\ tiles \in Nat
  BY GemmAssumption, CeilAbove
<1> DEFINE G == Grid(S * tiles, MmaLanes)
           rect == RectCells("logits", S * tiles, MmaLanes, S, Skv, tiles, 1, TileN)
<1>1. CeilDivide(S, 1) = S
  BY DEF CeilDivide
<1>2. Shares(rect, At("logits", 0, Upto(S * Skv)))
  <2>1. \A rows : rows = CeilDivide(S, 1) =>
          Shares(RectCells("logits", rows * tiles, MmaLanes, S, Skv, tiles, 1, TileN),
                 At("logits", 0, Upto(S * Skv)))
    <3> SUFFICES ASSUME NEW rows, rows = CeilDivide(S, 1), NEW W,
                        W = RectCells("logits", rows * tiles, MmaLanes, S, Skv, tiles, 1, TileN)
                 PROVE  Shares(W, At("logits", 0, Upto(S * Skv)))
      OBVIOUS
    <3>1. 1 \in Nat \ {0} /\ MmaLanes \in Nat \ {0}
      BY <1>0
    <3> QED
      BY <1>0, <3>1, RectShares
  <2> QED
    BY <1>1, <2>1
<1>3. ASSUME NEW i \in G
      PROVE  rect[i] = O[i]
  <2>1. PICK l \in Upto(TileN) : l = i[2]
    BY GridItems
  <2>2. l \in Nat /\ l < TileN
    BY <1>0 DEF Upto
  <2>3. PICK g \in Nat : g = i[1] /\ g < S * tiles
    <3>1. i[1] \in Nat /\ i[1] \in Upto(S * tiles)
      BY GridItems
    <3>2. S * tiles \in Nat
      BY <1>0, ProductNat
    <3> QED
      BY <3>1, <3>2 DEF Upto
  <2>4. tiles # 0
    <3>1. tiles = 0 => S * tiles = 0
      OBVIOUS
    <3> QED
      BY <2>3, <3>1
  <2>5. g \div tiles < S
    BY <1>0, <2>3, <2>4, QuotientBelow
  <2>6. 1 * TileN = TileN
    BY <1>0
  <2>7. \A e : e \in Stride(l, TileN, TileN) <=> e = l
    <3>1. \A e : e \in Stride(l, TileN, TileN) <=> e \in Nat /\ e < TileN /\ e % TileN = l
      BY <1>0, StrideIs
    <3>2. ASSUME NEW e \in Nat, e < TileN
          PROVE  e % TileN = e
      <4>1. e \in Upto(TileN) /\ 0 \in Nat
        BY <1>0, <3>2 DEF Upto
      <4>2. (0 * TileN + e) % TileN = e
        BY <1>0, <4>1, DivisionUnique
      <4>3. 0 * TileN + e = e
        BY <1>0
      <4> QED
        BY <4>2, <4>3
    <3> QED
      BY <2>2, <3>1, <3>2
  <2>8. l \div TileN = 0 /\ l % TileN = l
    <3>1. 0 \in Nat
      OBVIOUS
    <3>2. (0 * TileN + l) \div TileN = 0 /\ (0 * TileN + l) % TileN = l
      BY <1>0, <3>1, DivisionUnique
    <3>3. 0 * TileN + l = l
      BY <1>0, <2>2
    <3> QED
      BY <3>2, <3>3
  <2>9. rect[i] = {OutAt("logits", g, e, Skv, tiles, 1, TileN) :
                  e \in {e \in Stride(l, TileN, 1 * TileN) : Inside(g, e, S, Skv, tiles, 1, TileN)}}
    BY <2>1, <2>3 DEF RectCells
  <2>10. PICK u \in Nat : u = g \div tiles
    BY <1>0, <2>4, DivisionOf
  <2>11. AtRow(g, l, tiles, 1, TileN) = u /\ AtCol(g, l, tiles, TileN) = (g % tiles) * TileN + l
    BY <2>8, <2>10 DEF AtRow, AtCol
  <2>12. Inside(g, l, S, Skv, tiles, 1, TileN) <=> (g % tiles) * TileN + l < Skv
    BY <2>5, <2>10, <2>11 DEF Inside
  <2>13. OutAt("logits", g, l, Skv, tiles, 1, TileN) = KeyCell(i, tiles, Skv)
    BY <2>1, <2>3, <2>10, <2>11 DEF OutAt, KeyCell
  <2>14. O[i] = IF (g % tiles) * TileN + l < Skv THEN {KeyCell(i, tiles, Skv)} ELSE {}
    BY <2>1, <2>3
  <2>15. \A c : c \in rect[i] <=> \E e \in Stride(l, TileN, TileN) :
                  Inside(g, e, S, Skv, tiles, 1, TileN) /\ c = OutAt("logits", g, e, Skv, tiles, 1, TileN)
    BY <2>6, <2>9
  <2> HIDE DEF rect
  <2>16. \A c : c \in rect[i] <=> (g % tiles) * TileN + l < Skv /\ c = KeyCell(i, tiles, Skv)
    BY <2>7, <2>12, <2>13, <2>15
  <2>17. \A c : c \in O[i] <=> (g % tiles) * TileN + l < Skv /\ c = KeyCell(i, tiles, Skv)
    BY <2>14
  <2> QED
    BY <2>16, <2>17
<1>4. DOMAIN rect = G /\ rect = [i \in G |-> rect[i]]
  BY DEF RectCells
<1> HIDE DEF rect
<1>5. rect = O
  BY <1>3, <1>4
<1> QED
  BY <1>2, <1>5

\* mqa_logits: for every tile of heads the query and key tiles are staged and
\* multiplied step by step, the result spilled and walked, each lane meeting the
\* column of its own key (a sub-group has a lane per column of a tile: kSG and
\* kTN of xmx_tile.hpp are both 16); every logit gets every head once.
THEOREM MqaLogitsRight ==
    ASSUME NEW S \in Nat, NEW H \in Nat \ {0}, NEW D \in Nat, NEW Skv \in Nat, MmaLanes = TileN
    PROVE  KernelRight(MqaLogits(S, H, D, Skv))
<1> DEFINE kvTiles == CeilDivide(Skv, TileN)
           kSteps == D \div TileK
           T == CeilDivide(H, TileM)
           G == Grid(S * kvTiles, MmaLanes)
           s(i) == i[1] \div kvTiles
           kv(i) == (i[1] % kvTiles) * TileN + i[2]
           As(i) == StageTile("As", i[1], i[2], TileM * TileK)
           Bs(i) == StageTile("Bs", i[1], i[2], TileK * TileN)
           spilled(i) == SpillTile(i[1], i[2])
           back(i) == StageTile("Cs", i[1], i[2], TileM * TileN)
           read(i) == WholeTile("As", i[1], TileM * TileK) \cup WholeTile("Bs", i[1], TileK * TileN)
           cell(i) == <<"logits", s(i) * Skv + kv(i)>>
           met(ht, i) == {<<(i[1] % kvTiles) * TileN + (e % TileN), (ht - 1) * TileM + e \div TileN>> :
                            e \in Stride(i[2], MmaLanes, TileM * TileN)}
           terms(ht, i) == IF kv(i) < Skv THEN Into(cell(i), {e \in met(ht, i) : e[2] < H}) ELSE {}
           stage(i) == Does({}, As(i) \cup Bs(i), {})
           mad(i) == Does(read(i), {}, {})
           spill(i) == Does({}, spilled(i), {})
           walk(ht, i) == Does(back(i), {}, terms(ht, i))
           perHead == 2 * kSteps + 2
           act(ht, j) == [i \in G |-> IF j = 2 * kSteps THEN spill(i)
                                      ELSE IF j = 2 * kSteps + 1 THEN walk(ht, i)
                                      ELSE IF j % 2 = 0 THEN stage(i) ELSE mad(i)]
           phase(p) == act((p - 1) \div perHead + 1, (p - 1) % perHead)
           f == [p \in 1..(T * perHead) |-> phase(p)]
           puts(i) == IF kv(i) < Skv THEN {cell(i)} ELSE {}
           put == [i \in G |-> IF kv(i) < Skv THEN Does({}, {cell(i)}, {}) ELSE Idle]
           out == At("logits", 0, Upto(S * Skv))
           sums == {<<<<"logits", x[1] * Skv + x[2]>>, <<x[2], x[3]>>>> :
                      x \in Upto(S) \X Upto(Skv) \X Upto(H)}
           O == [i \in G |-> puts(i)]
           L == [i \in G |-> As(i) \cup Bs(i)]
           R == [i \in G |-> read(i)]
           Z == [i \in G |-> spilled(i)]
           Y == [i \in G |-> back(i)]
           A == [i \in G |-> IF kv(i) < Skv THEN {<<cell(i), <<kv(i), h>>>> : h \in Upto(H)} ELSE {}]
           k == MqaLogits(S, H, D, Skv)
           ph == k.phases
<1>0. /\ TileM \in Nat \ {0} /\ TileN \in Nat \ {0} /\ TileK \in Nat \ {0} /\ MmaLanes \in Nat \ {0}
      /\ TileM * TileK \in Nat /\ TileK * TileN \in Nat /\ TileM * TileN \in Nat
  BY GemmAssumption, ProductNat
<1>1. T \in Nat \ {0} /\ kvTiles \in Nat /\ kSteps \in Nat
  <2>1. CeilDivide(H, TileM) \in Nat /\ CeilDivide(H, TileM) > 0
    BY <1>0, CeilAbove
  <2>2. CeilDivide(Skv, TileN) \in Nat
    BY <1>0, CeilAbove
  <2>3. D \div TileK \in Nat
    BY <1>0, DivisionOf
  <2> HIDE DEF T, kSteps
  <2> QED
    BY <2>1, <2>2, <2>3 DEF T, kSteps
<1>2. k = Kernel(f \o <<put>>, out, sums)
  <2>1. Cardinality(1..T) = T
    BY <1>1, LengthOfTiles
  <2>2. k = Kernel([p \in 1..(Cardinality(1..T) * perHead) |-> phase(p)] \o <<put>>, out, sums)
    BY DEF MqaLogits
  <2> HIDE DEF T, k, put, out, sums, phase, perHead
  <2> QED
    BY <2>1, <2>2
<1>3. ph = f \o <<put>> /\ k.out = out /\ k.sums = sums
  <2> HIDE DEF k, f, put, out, sums
  <2> QED
    BY <1>2 DEF Kernel
<1>4. perHead \in Nat \ {0} /\ T * perHead \in Nat
  <2>1. 2 * kSteps + 2 \in Nat \ {0}
    BY <1>1
  <2> HIDE DEF T
  <2> QED
    BY <1>1, <2>1, ProductNat
<1> HIDE DEF act, perHead, T
<1>5. PICK n \in Nat : n = T * perHead
  BY <1>4
<1>6. /\ DOMAIN ph = 1..(n + 1) /\ ph[n + 1] = put
      /\ \A p \in 1..n : ph[p] = phase(p)
  <2>1. f = [p \in 1..n |-> f[p]] /\ \A p \in 1..n : f[p] = phase(p)
    BY <1>5
  <2> HIDE DEF f, phase, ph, put
  <2>2. /\ DOMAIN (f \o <<put>>) = 1..(n + 1) /\ (f \o <<put>>)[n + 1] = put
        /\ \A p \in 1..n : (f \o <<put>>)[p] = f[p]
    BY <2>1, Append1
  <2> QED
    BY <1>3, <2>1, <2>2
\* Phase j of tile q + 1 of the heads.
<1>7. ASSUME NEW q \in Nat, q < T, NEW j \in Upto(perHead)
      PROVE  q * perHead + j + 1 \in 1..n /\ ph[q * perHead + j + 1] = act(q + 1, j)
  <2>1. PICK x \in Nat : x = q * perHead + j /\ x \div perHead = q /\ x % perHead = j
    BY <1>4, DivisionUnique
  <2>2. x < n
    BY <1>1, <1>4, <1>5, <1>7, <2>1, QuotientBelow
  <2>3. x + 1 \in 1..n /\ (x + 1) - 1 = x
    BY <2>2
  <2>4. ph[x + 1] = act(x \div perHead + 1, x % perHead)
    BY <1>6, <2>3
  <2> QED
    BY <2>1, <2>3, <2>4
<1>8. ASSUME NEW p \in 1..n
      PROVE  \E q \in Nat : \E j \in Upto(perHead) : q < T /\ p = q * perHead + j + 1
  <2>1. PICK x \in Nat : x = p - 1 /\ x < n /\ p = x + 1
    BY <1>5
  <2>2. PICK q \in Nat : q = x \div perHead
    BY <1>4, DivisionOf
  <2>3. q < T
    BY <1>1, <1>4, <1>5, <2>1, <2>2, QuotientBelow
  <2>4. PICK j \in Upto(perHead) : j = x % perHead
    BY <1>4, DivisionOf
  <2>5. x = q * perHead + j
    BY <1>4, <2>2, <2>4, DivisionOf
  <2> QED
    BY <2>1, <2>3, <2>5
<1>9. Items(k) = G
  <2>1. 1 \in DOMAIN ph
    BY <1>5, <1>6
  <2>2. CASE n = 0
    <3>1. ph[1] = put
      BY <1>6, <2>2
    <3> QED
      BY <3>1 DEF Items
  <2>3. CASE n # 0
    <3>1. ph[1] = phase(1)
      BY <1>5, <1>6, <2>3
    <3> QED
      BY <3>1 DEF Items, act
  <2> QED
    BY <2>2, <2>3
<1>10. ASSUME NEW i \in G
       PROVE  /\ i[1] \in Nat /\ i[1] \in Upto(S * kvTiles) /\ i[2] \in Upto(MmaLanes) /\ i = <<i[1], i[2]>>
  BY GridItems
<1>11. \A i \in G : /\ L[i] = As(i) \cup Bs(i) /\ R[i] = read(i)
                   /\ Z[i] = spilled(i) /\ Y[i] = back(i) /\ O[i] = puts(i)
  OBVIOUS
<1>12. \A i \in G : put[i].rd = {} /\ put[i].wr = puts(i) /\ put[i].add = {}
  <2> HIDE DEF cell, kv
  <2> QED
    BY DEF Does, Idle
<1>13. ASSUME NEW ht, NEW j \in Nat, NEW i \in G
       PROVE  /\ j = 2 * kSteps => /\ act(ht, j)[i].rd = {} /\ act(ht, j)[i].wr = Z[i]
                                   /\ act(ht, j)[i].add = {}
              /\ j = 2 * kSteps + 1 => /\ act(ht, j)[i].rd = Y[i] /\ act(ht, j)[i].wr = {}
                                       /\ act(ht, j)[i].add = terms(ht, i)
              /\ j < 2 * kSteps /\ j % 2 = 0 => /\ act(ht, j)[i].rd = {} /\ act(ht, j)[i].wr = L[i]
                                                /\ act(ht, j)[i].add = {}
              /\ j < 2 * kSteps /\ j % 2 # 0 => /\ act(ht, j)[i].rd = R[i] /\ act(ht, j)[i].wr = {}
                                                /\ act(ht, j)[i].add = {}
  <2>1. act(ht, j)[i] = IF j = 2 * kSteps THEN spill(i)
                        ELSE IF j = 2 * kSteps + 1 THEN walk(ht, i)
                        ELSE IF j % 2 = 0 THEN stage(i) ELSE mad(i)
    BY DEF act
  <2>2. PICK d \in Nat : d = 2 * kSteps
    BY <1>1
  <2> HIDE DEF As, Bs, spilled, back, read, terms, G, kSteps, act
  <2>3. /\ j = d => act(ht, j)[i] = spill(i)
        /\ j = d + 1 => act(ht, j)[i] = walk(ht, i)
        /\ j < d /\ j % 2 = 0 => act(ht, j)[i] = stage(i)
        /\ j < d /\ j % 2 # 0 => act(ht, j)[i] = mad(i)
    BY <2>1, <2>2
  <2> QED
    BY <1>11, <2>2, <2>3 DEF Does
<1>14. ASSUME NEW j \in Upto(perHead)
       PROVE  j \in Nat /\ (j = 2 * kSteps \/ j = 2 * kSteps + 1 \/ j < 2 * kSteps)
  BY <1>1 DEF Upto, perHead
<1> HIDE DEF k, ph, f, put, phase, L, R, Z, Y, O, G, out, sums
<1>15. ASSUME NEW q \in Nat, q < T, NEW j \in Upto(perHead), NEW p, p = q * perHead + j + 1
       PROVE  \/ PutPhase(ph, p, G, L) \/ ReadPhase(ph, p, G, L, R)
              \/ PutPhase(ph, p, G, Z) \/ OutPhase(ph, p, G, Z, Y, O)
  <2> HIDE DEF As, Bs, spilled, back, read, puts, terms, kSteps
  <2>1. p \in 1..n /\ ph[p] = act(q + 1, j)
    BY <1>7, <1>15
  <2>2. j \in Nat
    BY <1>14
  <2>3. CASE j = 2 * kSteps
    BY <1>13, <2>1, <2>2, <2>3 DEF PutPhase
  <2>4. ASSUME j # 0
        PROVE  /\ p - 1 \in 1..(p - 1) /\ ph[p - 1] = act(q + 1, j - 1) /\ j - 1 \in Nat
    <3>1. j - 1 \in Upto(perHead) /\ j - 1 \in Nat
      BY <1>4, <2>2, <2>4 DEF Upto
    <3>2. q * perHead \in Nat
      BY <1>4, ProductNat
    <3>3. q * perHead + (j - 1) + 1 = p - 1
      BY <1>15, <2>2, <3>2
    <3>4. p - 1 \in 1..n /\ ph[p - 1] = act(q + 1, j - 1)
      BY <1>7, <1>15, <3>1, <3>3
    <3> QED
      BY <2>1, <3>1, <3>4
  <2>5. CASE j = 2 * kSteps + 1
    <3>1. j # 0 /\ j - 1 = 2 * kSteps
      BY <1>1, <2>5
    <3>2. \A i \in G : ph[p - 1][i].wr = Z[i]
      BY <1>13, <2>4, <3>1
    <3>3. \A i \in G : ph[p][i].wr \subseteq O[i] /\ ph[p][i].rd \subseteq Y[i]
      BY <1>13, <2>1, <2>2, <2>5
    <3> QED
      BY <2>4, <3>1, <3>2, <3>3 DEF OutPhase
  <2>6. CASE j < 2 * kSteps /\ j % 2 = 0
    BY <1>13, <2>1, <2>2, <2>6 DEF PutPhase
  <2>7. CASE j < 2 * kSteps /\ j % 2 # 0
    <3>1. j # 0 /\ (j - 1) % 2 = 0 /\ j - 1 < 2 * kSteps
      BY <1>1, <2>2, <2>7
    <3>2. \A i \in G : ph[p - 1][i].wr = L[i]
      BY <1>13, <2>4, <3>1
    <3>3. \A i \in G : ph[p][i].wr = {} /\ ph[p][i].rd = R[i]
      BY <1>13, <2>1, <2>2, <2>7
    <3> QED
      BY <2>4, <3>1, <3>2, <3>3 DEF ReadPhase
  <2> QED
    BY <1>14, <2>3, <2>5, <2>6, <2>7
<1>16. ByPhase(k, L, R, Z, Y, O)
  <2>1. ASSUME NEW p \in DOMAIN ph
        PROVE  \/ PutPhase(ph, p, G, L) \/ ReadPhase(ph, p, G, L, R)
               \/ PutPhase(ph, p, G, Z) \/ OutPhase(ph, p, G, Z, Y, O)
    <3>1. CASE p = n + 1
      <4>1. \A i \in G : ph[p][i].wr \subseteq O[i] /\ ph[p][i].rd = {}
        BY <1>6, <1>11, <1>12, <3>1
      <4> QED
        BY <4>1 DEF OutPhase
    <3>2. CASE p \in 1..n
      <4>1. PICK q \in Nat : \E j \in Upto(perHead) : q < T /\ p = q * perHead + j + 1
        BY <1>8, <3>2
      <4>2. PICK j \in Upto(perHead) : q < T /\ p = q * perHead + j + 1
        BY <4>1
      <4> QED
        BY <1>15, <4>2
    <3> QED
      BY <1>5, <1>6, <3>1, <3>2
  <2>2. \A i \in G : \A c \in O[i] : \E p \in DOMAIN ph : c \in ph[p][i].wr
    <3>1. n + 1 \in DOMAIN ph
      BY <1>5, <1>6
    <3> QED
      BY <1>6, <1>11, <1>12, <3>1
  <2>3. ph = k.phases
    BY DEF ph
  <2> QED
    BY <1>9, <2>1, <2>2, <2>3 DEF ByPhase
<1>17. ASSUME NEW i \in G, NEW j \in G, NEW c, c \in As(i) \cup Bs(i), c \in As(j) \cup Bs(j)
       PROVE  i = j
  <2>1. i[1] = j[1] /\ i[2] = j[2]
    BY <1>0, <1>10, <1>17, StageTileApart
  <2> QED
    BY <1>10, <2>1
<1>18. ASSUME NEW i \in G, NEW l \in Upto(MmaLanes)
       PROVE  \E j \in G : j[1] = i[1] /\ j[2] = l
  <2>1. <<i[1], l>> \in G
    BY <1>10 DEF G, Grid
  <2> QED
    BY <2>1
<1>19. ASSUME NEW i \in G, NEW c \in read(i)
       PROVE  \E j \in G : j[1] = i[1] /\ c \in As(j) \cup Bs(j)
  <2>1. CASE c \in WholeTile("As", i[1], TileM * TileK)
    <3>1. PICK l \in Upto(MmaLanes) : c \in StageTile("As", i[1], l, TileM * TileK)
      BY <1>0, <2>1, WholeTileIs
    <3>2. PICK j \in G : j[1] = i[1] /\ j[2] = l
      BY <1>18
    <3> QED
      BY <3>1, <3>2
  <2>2. CASE c \in WholeTile("Bs", i[1], TileK * TileN)
    <3>1. PICK l \in Upto(MmaLanes) : c \in StageTile("Bs", i[1], l, TileK * TileN)
      BY <1>0, <2>2, WholeTileIs
    <3>2. PICK j \in G : j[1] = i[1] /\ j[2] = l
      BY <1>18
    <3> QED
      BY <3>1, <3>2
  <2> QED
    BY <2>1, <2>2
<1>20. ASSUME NEW i \in G, NEW c \in As(i) \cup Bs(i)
       PROVE  ~IsGlobal(c) /\ c[3] = i[1]
  BY <1>0, <1>10, StageTileLocal
<1>21. \A i \in G : \A c \in O[i] : IsGlobal(c)
  <2>1. \A i \in G : \A c \in puts(i) : \E x : c = <<"logits", x>>
    OBVIOUS
  <2> HIDE DEF puts
  <2> QED
    BY <1>11, <2>1, GlobalCell
<1>22. Staged(G, L, R, O)
  <2> HIDE DEF As, Bs, spilled, back, read, puts
  <2>1. \A i \in G : \A c \in L[i] : ~IsGlobal(c) /\ c[3] = i[1]
    BY <1>11, <1>20
  <2>2. \A i \in G : \A c \in R[i] : \E j \in G : j[1] = i[1] /\ c \in L[j]
    BY <1>11, <1>19
  <2>3. \A i, j \in G : \A c : c \in L[i] /\ c \in L[j] => i = j
    BY <1>11, <1>17
  <2>4. \A i \in G : \A c \in R[i] : ~IsGlobal(c) /\ c[3] = i[1]
    BY <2>1, <2>2
  <2> QED
    BY <1>21, <2>1, <2>2, <2>3, <2>4 DEF Staged
<1>23. Staged(G, Z, Y, O)
  <2> HIDE DEF puts
  <2> QED
    BY <1>1, <1>11, <1>21, SpillStaged, ProductNat DEF G
<1>24. Shares(O, out) /\ DOMAIN O = G
  <2>1. O = [i \in Grid(S * kvTiles, MmaLanes) |->
               IF (i[1] % kvTiles) * TileN + i[2] < Skv THEN {KeyCell(i, kvTiles, Skv)} ELSE {}]
    BY DEF O, G, KeyCell
  <2> HIDE DEF kvTiles
  <2>2. Shares(O, At("logits", 0, Upto(S * Skv)))
    BY <2>1, KeyCells DEF kvTiles
  <2>3. DOMAIN O = G
    BY DEF O
  <2> QED
    BY <2>2, <2>3 DEF out
\* The heads a lane meets in the walks are those of its key.
<1>25. ASSUME NEW i \in G, NEW ht \in 1..T, NEW e
       PROVE  e \in met(ht, i) <=> \E h \in ((ht - 1) * TileM)..(ht * TileM - 1) : e = <<kv(i), h>>
  <2>1. PICK l \in Upto(TileN) : l = i[2]
    BY <1>10
  <2>2. PICK g \in Nat : g = i[1] % kvTiles
    <3>1. PICK a \in Nat : a = i[1]
      BY <1>10
    <3>2. S * kvTiles \in Nat
      BY <1>1, ProductNat
    <3>3. a < S * kvTiles
      BY <1>10, <3>1, <3>2 DEF Upto
    <3>4. kvTiles # 0
      <4>1. kvTiles = 0 => S * kvTiles = 0
        OBVIOUS
      <4> QED
        BY <3>1, <3>3, <4>1
    <3>5. PICK b \in Upto(kvTiles) : b = a % kvTiles
      BY <1>1, <3>4, DivisionOf
    <3> QED
      BY <3>1, <3>5 DEF Upto
  <2>3. ht \in Nat \ {0}
    BY <1>1
  <2>4. met(ht, i) = MetIn(g, ht, l, TileN)
    BY <2>1, <2>2 DEF MetIn
  <2>5. e \in MetIn(g, ht, l, TileN) <=>
          \E h \in ((ht - 1) * TileM)..(ht * TileM - 1) : e = <<g * TileN + l, h>>
    BY <2>3, OwnColumn
  <2>6. kv(i) = g * TileN + l
    BY <2>1, <2>2
  <2> QED
    BY <2>4, <2>5, <2>6
<1> HIDE DEF met, kv, cell
<1>26. ASSUME NEW i \in G, NEW z
       PROVE  z \in A[i] <=> kv(i) < Skv /\ \E h \in Upto(H) : z = <<cell(i), <<kv(i), h>>>>
  OBVIOUS
<1>27. ASSUME NEW i \in G, NEW ht \in 1..T, NEW z
       PROVE  z \in terms(ht, i) <=>
                kv(i) < Skv /\ \E h \in ((ht - 1) * TileM)..(ht * TileM - 1) : h < H /\ z = <<cell(i), <<kv(i), h>>>>
  <2>1. z \in terms(ht, i) <=> kv(i) < Skv /\ \E e \in met(ht, i) : e[2] < H /\ z = <<cell(i), e>>
    BY DEF Into
  <2> QED
    BY <1>25, <2>1
<1> HIDE DEF A, terms
<1>28. ASSUME NEW i \in G
       PROVE  Added(k, i) = A[i]
  <2>1. Added(k, i) = UNION {ph[p][i].add : p \in DOMAIN ph}
    BY DEF Added, ph
  <2>2. \A h : h \in Upto(H) <=> \E t \in 1..T : h \in ((t - 1) * TileM)..(t * TileM - 1) /\ h < H
    BY <1>0, TileTerms DEF T
  <2>3. ASSUME NEW z \in Added(k, i)
        PROVE  z \in A[i]
    <3>1. PICK p \in DOMAIN ph : z \in ph[p][i].add
      BY <2>1
    <3>2. p # n + 1
      BY <1>6, <1>12, <3>1
    <3>3. p \in 1..n
      BY <1>5, <1>6, <3>2
    <3>4. PICK q \in Nat : \E j \in Upto(perHead) : q < T /\ p = q * perHead + j + 1
      BY <1>8, <3>3
    <3>5. PICK j \in Upto(perHead) : q < T /\ p = q * perHead + j + 1
      BY <3>4
    <3>6. ph[p] = act(q + 1, j)
      BY <1>7, <3>5
    <3>7. j = 2 * kSteps + 1
      BY <1>13, <1>14, <3>1, <3>6
    <3>8. z \in terms(q + 1, i)
      BY <1>13, <1>14, <3>1, <3>6, <3>7
    <3>9. PICK t \in 1..T : t = q + 1
      BY <1>1, <3>5
    <3>10. PICK h \in ((t - 1) * TileM)..(t * TileM - 1) :
             kv(i) < Skv /\ h < H /\ z = <<cell(i), <<kv(i), h>>>>
      BY <1>27, <3>8, <3>9
    <3> QED
      BY <1>26, <2>2, <3>10
  <2>4. ASSUME NEW z \in A[i]
        PROVE  z \in Added(k, i)
    <3>1. PICK h \in Upto(H) : kv(i) < Skv /\ z = <<cell(i), <<kv(i), h>>>>
      BY <1>26
    <3>2. PICK t \in 1..T : h \in ((t - 1) * TileM)..(t * TileM - 1) /\ h < H
      BY <2>2
    <3>3. z \in terms(t, i)
      BY <1>27, <3>1, <3>2
    <3>4. PICK q \in Nat : t = q + 1 /\ q < T
      <4>1. t - 1 \in Nat /\ t = (t - 1) + 1 /\ t - 1 < T
        BY <1>1
      <4> QED
        BY <4>1
    <3>5. PICK j \in Upto(perHead) : j = 2 * kSteps + 1 /\ j \in Nat
      BY <1>1 DEF Upto, perHead
    <3>6. q * perHead + j + 1 \in 1..n /\ ph[q * perHead + j + 1] = act(q + 1, j)
      BY <1>7, <3>4
    <3>7. PICK p \in DOMAIN ph : ph[p] = act(t, j)
      BY <1>5, <1>6, <3>4, <3>6
    <3>8. z \in ph[p][i].add
      BY <1>13, <3>3, <3>5, <3>7
    <3> QED
      BY <2>1, <3>8
  <2> QED
    BY <2>3, <2>4
<1>29. ASSUME NEW i \in G
       PROVE  O[i] = IF kv(i) < Skv THEN {cell(i)} ELSE {}
  BY <1>11
<1>30. ASSUME NEW z
       PROVE  z \in sums <=> \E a \in Upto(S) : \E b \in Upto(Skv) : \E h \in Upto(H) :
                z = <<<<"logits", a * Skv + b>>, <<b, h>>>>
  <2>1. z \in sums <=> \E x \in Upto(S) \X Upto(Skv) \X Upto(H) :
                         z = <<<<"logits", x[1] * Skv + x[2]>>, <<x[2], x[3]>>>>
    BY DEF sums
  <2>2. \A a \in Upto(S), b \in Upto(Skv), h \in Upto(H) : <<a, b, h>> \in Upto(S) \X Upto(Skv) \X Upto(H)
    OBVIOUS
  <2> QED
    BY <2>1, <2>2
<1>31. ASSUME NEW i \in G, kv(i) < Skv
       PROVE  s(i) \in Upto(S) /\ kv(i) \in Upto(Skv)
  <2>1. PICK a \in Nat : a = i[1]
    BY <1>10
  <2>2. S * kvTiles \in Nat
    BY <1>1, ProductNat
  <2>3. a < S * kvTiles
    BY <1>10, <2>1, <2>2 DEF Upto
  <2>4. kvTiles # 0
    <3>1. kvTiles = 0 => S * kvTiles = 0
      OBVIOUS
    <3> QED
      BY <2>1, <2>3, <3>1
  <2>5. PICK u \in Nat : u = a \div kvTiles /\ u < S
    <3>1. a \div kvTiles < S
      BY <1>1, <2>3, <2>4, QuotientBelow
    <3> QED
      BY <1>1, <2>4, <3>1, DivisionOf
  <2>6. PICK b \in Nat : b = a % kvTiles
    <3>1. PICK x \in Upto(kvTiles) : x = a % kvTiles
      BY <1>1, <2>4, DivisionOf
    <3> QED
      BY <3>1 DEF Upto
  <2>7. PICK l \in Nat : l = i[2]
    BY <1>10 DEF Upto
  <2>8. b * TileN \in Nat
    BY <1>0, ProductNat
  <2>9. kv(i) = b * TileN + l
    BY <2>1, <2>6, <2>7 DEF kv
  <2>10. kv(i) \in Nat
    BY <2>7, <2>8, <2>9
  <2>11. s(i) = u
    BY <2>1, <2>5
  <2> QED
    BY <1>31, <2>5, <2>10, <2>11 DEF Upto
<1>32. DOMAIN A = G /\ Shares(A, sums)
  <2>1. DOMAIN A = G
    BY DEF A
  <2>2. ASSUME NEW i \in G
        PROVE  A[i] \subseteq sums
    <3> SUFFICES ASSUME NEW z \in A[i] PROVE z \in sums
      OBVIOUS
    <3>1. PICK h \in Upto(H) : kv(i) < Skv /\ z = <<cell(i), <<kv(i), h>>>>
      BY <1>26
    <3>2. s(i) \in Upto(S) /\ kv(i) \in Upto(Skv)
      BY <1>31, <3>1
    <3>3. cell(i) = <<"logits", s(i) * Skv + kv(i)>>
      BY DEF cell
    <3> HIDE DEF s
    <3> QED
      BY <1>30, <3>1, <3>2, <3>3
  <2>3. ASSUME NEW z \in sums
        PROVE  \E i \in G : z \in A[i]
    <3>1. PICK a \in Upto(S) : \E b \in Upto(Skv) : \E h \in Upto(H) :
            z = <<<<"logits", a * Skv + b>>, <<b, h>>>>
      BY <1>30
    <3>2. PICK b \in Upto(Skv) : \E h \in Upto(H) : z = <<<<"logits", a * Skv + b>>, <<b, h>>>>
      BY <3>1
    <3>3. PICK h \in Upto(H) : z = <<<<"logits", a * Skv + b>>, <<b, h>>>>
      BY <3>2
    <3>4. a \in Nat /\ a < S /\ Skv \in Nat \ {0}
      BY DEF Upto
    <3>5. PICK x \in Nat : x = a * Skv + b /\ x \div Skv = a /\ x % Skv = b
      BY <3>4, DivisionUnique
    <3>6. x < S * Skv /\ S * Skv \in Nat
      BY <3>4, <3>5, QuotientBelow, ProductNat
    <3>7. <<"logits", x>> \in out
      <4>1. CellOf("logits", <<"logits", x>>) /\ <<"logits", x>>[2] < S * Skv
        BY <3>6 DEF CellOf
      <4> QED
        BY <3>6, <4>1, InArray DEF out
    <3>8. PICK i \in G : <<"logits", x>> \in O[i]
      BY <1>24, <3>7 DEF Shares
    <3>9. kv(i) < Skv /\ cell(i) = <<"logits", x>>
      BY <1>29, <3>8
    <3>10. s(i) \in Nat /\ kv(i) \in Upto(Skv)
      BY <1>31, <3>9 DEF Upto
    <3>11. PICK c \in Nat : c = s(i)
      BY <3>10
    <3>12. (c * Skv + kv(i)) % Skv = kv(i)
      BY <3>4, <3>10, DivisionUnique
    <3>13. c * Skv + kv(i) = x
      BY <3>9, <3>11 DEF cell
    <3>14. kv(i) = b
      BY <3>5, <3>12, <3>13
    <3> QED
      BY <1>26, <3>3, <3>5, <3>9, <3>14
  <2>4. ASSUME NEW i \in G, NEW j \in G, NEW z, z \in A[i], z \in A[j]
        PROVE  i = j
    <3>1. kv(i) < Skv /\ kv(j) < Skv /\ cell(i) = cell(j)
      BY <1>26, <2>4
    <3>2. cell(i) \in O[i] /\ cell(i) \in O[j]
      BY <1>29, <3>1
    <3> QED
      BY <1>24, <3>2 DEF Shares
  <2>5. Shares(A, sums)
    BY <2>1, <2>2, <2>3, <2>4, SharesBy
  <2> QED
    BY <2>1, <2>5
<1>33. KernelRight(k)
  BY <1>3, <1>9, <1>16, <1>22, <1>23, <1>24, <1>28, <1>32, ByPhaseRight
<1> QED
  BY <1>33 DEF k

-----------------------------------------------------------------------------
(* The kernels the behaviour tries                                          *)

Suits == input.kind = "kernel" => KernelRight(input.kernel)

LEMMA Tried ==
    ASSUME NEW k, Run(k), KernelRight(k)
    PROVE  Suits'
<1>1. input' = [kind |-> "kernel", kernel |-> k]
  BY DEF Run
<1>2. input'.kind = "kernel" /\ input'.kernel = k
  BY <1>1
<1> QED
  BY <1>2 DEF Suits

\* Short sequences.
LEMMA ShortSeqs ==
    ASSUME NEW S, NEW a \in S, NEW b \in S, NEW c \in S, NEW d \in S
    PROVE  /\ <<a>> \in Seq(S) /\ Len(<<a>>) = 1 /\ DOMAIN <<a>> = 1..1
           /\ <<a, b>> \in Seq(S) /\ Len(<<a, b>>) = 2 /\ DOMAIN <<a, b>> = 1..2
           /\ <<a, b, c>> \in Seq(S) /\ Len(<<a, b, c>>) = 3 /\ DOMAIN <<a, b, c>> = 1..3
           /\ <<a, b, c, d>> \in Seq(S) /\ Len(<<a, b, c, d>>) = 4 /\ DOMAIN <<a, b, c, d>> = 1..4
  OBVIOUS

LEMMA ElementsTried ==
    ASSUME TryElements
    PROVE  Suits'
<1>1. CASE TryVecMap
  <2>1. PICK n \in 1..7 : Run(Silu(n)) \/ Run(Gelu(n)) \/ Run(Dropout(n)) \/ Run(GeluBackward(n))
    BY <1>1 DEF TryVecMap
  <2>2. n \in Nat
    OBVIOUS
  <2>3. KernelRight(VecMap({}, n)) /\ KernelRight(VecMap({"grad"}, n))
    BY <2>2, VecMapRight
  <2>4. KernelRight(Silu(n)) /\ KernelRight(Gelu(n)) /\ KernelRight(Dropout(n)) /\ KernelRight(GeluBackward(n))
    BY <2>3 DEF Silu, Gelu, Dropout, GeluBackward
  <2> QED
    BY <2>1, <2>4, Tried
<1>2. CASE TryAdamw
  <2>1. PICK n \in 1..3 : Run(Adamw(n))
    BY <1>2 DEF TryAdamw
  <2> QED
    BY <2>1, AdamwRight, Tried
<1>3. CASE TryGlu
  <2>1. PICK r \in Rows, d \in 1..7 : Run(Glu(r, d, 3))
    BY <1>3 DEF TryGlu
  <2>2. r \in Nat /\ d \in Nat \ {0} /\ 3 \in Nat \ {0}
    BY DEF Rows
  <2> QED
    BY <2>1, <2>2, GluRight, Tried
<1>4. CASE TryGluGeluF16
  <2>1. PICK r \in Rows, d \in 1..3 : Run(GluGeluF16(r, d))
    BY <1>4 DEF TryGluGeluF16
  <2>2. r \in Nat /\ d \in Nat \ {0}
    BY DEF Rows
  <2> QED
    BY <2>1, <2>2, GluGeluF16Right, Tried
<1>5. CASE TryRope
  <2>1. PICK t \in Rows, h \in 1..2, d \in {2, 4, 6} : Run(Rope(t, h, d))
    BY <1>5 DEF TryRope
  <2>2. t \in Nat /\ h \in Nat /\ d \in Nat
    BY DEF Rows
  <2>3. PICK half \in Nat \ {0} : d = 2 * half
    <3>1. d = 2 * 1 \/ d = 2 * 2 \/ d = 2 * 3
      OBVIOUS
    <3> QED
      BY <3>1
  <2>4. KernelRight(Rope(t, h, d))
    BY <2>2, <2>3, RopeRight
  <2> QED
    BY <2>1, <2>4, Tried
<1>6. CASE TryMrope
  <2>1. PICK t \in Rows, h \in 1..2, kv \in 1..2, rot \in {2, 4, 6}, w \in 0..1, neox \in BOOLEAN :
          Run(Mrope(t, h, kv, 6, rot, <<w, (rot \div 2) - w>>, neox))
    BY <1>6 DEF TryMrope
  <2>2. t \in Nat /\ h \in Nat \ {0} /\ kv \in Nat \ {0} /\ 6 \in Nat \ {0}
    BY DEF Rows
  <2>3. PICK embed \in 1..3 : rot = 2 * embed
    <3>1. rot = 2 * 1 \/ rot = 2 * 2 \/ rot = 2 * 3
      OBVIOUS
    <3> QED
      BY <3>1
  <2>4. PICK v \in Nat : v = embed - w
    OBVIOUS
  <2>5. Run(Mrope(t, h, kv, 6, 2 * embed, <<w, v>>, neox))
    <3>1. rot \div 2 = embed
      BY <2>3
    <3> QED
      BY <2>1, <2>3, <2>4, <3>1
  <2>6. Sectioned(<<w, v>>, embed)
    <3> DEFINE widths == <<w, v>>
    <3>1. widths \in Seq(Nat) /\ Len(widths) = 2 /\ widths[1] = w /\ widths[2] = v
      OBVIOUS
    <3>2. SumOf(widths, 2) = w + v
      BY <3>1 DEF SumOf
    <3> QED
      BY <2>4, <3>1, <3>2 DEF Sectioned
  <2>7. embed \in Nat \ {0} /\ 2 * embed <= 6
    OBVIOUS
  <2>8. KernelRight(Mrope(t, h, kv, 6, 2 * embed, <<w, v>>, neox))
    BY <2>2, <2>6, <2>7, MropeRight
  <2> QED
    BY <2>5, <2>8, Tried
<1>7. CASE TryDsv4HcPost
  <2>1. PICK t \in Rows, s \in 1..3, h \in 1..2 : Run(Dsv4HcPost(t, s, h))
    BY <1>7 DEF TryDsv4HcPost
  <2>2. t \in Nat /\ s \in Nat \ {0} /\ h \in Nat \ {0}
    BY DEF Rows
  <2> QED
    BY <2>1, <2>2, Dsv4HcPostRight, Tried
<1>8. CASE TryIndexedCopy
  <2>1. PICK ix \in {<<1>>, <<2, 0, -1>>, <<-1, 3>>}, row \in 1..3, src \in BOOLEAN : Run(IndexedCopy(ix, row, src))
    BY <1>8 DEF TryIndexedCopy
  <2>2. ix \in Seq(Int) /\ Distinct(ix)
    <3>1. CASE ix = <<1>>
      <4>1. ix \in Seq(Int) /\ DOMAIN ix = 1..1
        BY <3>1, ShortSeqs
      <4> QED
        BY <3>1, <4>1 DEF Distinct
    <3>2. CASE ix = <<2, 0, -1>>
      <4>1. ix \in Seq(Int) /\ DOMAIN ix = 1..3 /\ ix[1] = 2 /\ ix[2] = 0 /\ ix[3] = -1
        BY <3>2, ShortSeqs
      <4>2. \A r \in DOMAIN ix : r = 1 \/ r = 2 \/ r = 3
        BY <4>1
      <4> QED
        BY <4>1, <4>2 DEF Distinct
    <3>3. CASE ix = <<-1, 3>>
      <4>1. ix \in Seq(Int) /\ DOMAIN ix = 1..2 /\ ix[1] = -1 /\ ix[2] = 3
        BY <3>3, ShortSeqs
      <4>2. \A r \in DOMAIN ix : r = 1 \/ r = 2
        BY <4>1
      <4> QED
        BY <4>1, <4>2 DEF Distinct
    <3> QED
      BY <3>1, <3>2, <3>3
  <2>3. row \in Nat \ {0}
    OBVIOUS
  <2> QED
    BY <2>1, <2>2, <2>3, IndexedCopyRight, Tried
<1>9. CASE TryQuantizeInt4
  <2>1. PICK N \in 1..2, K \in 1..3, g \in {2, 4} : Run(QuantizeInt4(N, K * g, g))
    BY <1>9 DEF TryQuantizeInt4
  <2>2. PICK half \in 1..2 : g = 2 * half
    <3>1. g = 2 * 1 \/ g = 2 * 2
      OBVIOUS
    <3> QED
      BY <3>1
  <2>3. (2 * half) % VecW = 0
    BY <2>2, CompiledAssumption
  <2>4. N \in Nat /\ K \in Nat \ {0} /\ half \in Nat \ {0}
    OBVIOUS
  <2>5. KernelRight(QuantizeInt4(N, K * (2 * half), 2 * half))
    BY <2>3, <2>4, QuantizeInt4Right
  <2> QED
    BY <2>1, <2>2, <2>5, Tried
<1>10. CASE TryTurboquantEncode
  <2>1. PICK s \in {<<1, 0>>, <<-1, 2>>}, h \in 1..2, b \in {2, 3, 8} : Run(TurboquantEncode(s, h, 5, b, 1))
    BY <1>10 DEF TryTurboquantEncode
  <2>2. s \in Seq(Int) /\ Distinct(s)
    <3>1. PICK a \in {1, -1}, z \in {0, 2} : s = <<a, z>>
      OBVIOUS
    <3>2. s \in Seq(Int) /\ DOMAIN s = 1..2 /\ s[1] = a /\ s[2] = z /\ s[1] # s[2]
      BY <3>1, ShortSeqs
    <3>3. \A r \in DOMAIN s : r = 1 \/ r = 2
      BY <3>2
    <3> QED
      BY <3>2, <3>3 DEF Distinct
  <2>3. h \in Nat \ {0} /\ b \in Nat \ {0} /\ 5 \in Nat \ {0} /\ 1 \in Nat \ {0}
    OBVIOUS
  <2>4. KernelRight(TurboquantEncode(s, h, 5, b, 1))
    BY <2>2, <2>3, TurboquantEncodeRight
  <2> QED
    BY <2>1, <2>4, Tried
<1>11. CASE TryTurboquantDecode
  <2>1. PICK s \in {<<1, 0>>, <<-1, 2, 2>>}, h \in 1..2, b \in {2, 3, 8} : Run(TurboquantDecode(s, h, 5, b))
    BY <1>11 DEF TryTurboquantDecode
  <2>2. s \in Seq(Int)
    <3>1. <<1, 0>> \in Seq(Int) /\ <<-1, 2, 2>> \in Seq(Int)
      BY ShortSeqs
    <3> QED
      BY <3>1
  <2>3. h \in Nat \ {0} /\ b \in Nat /\ 5 \in Nat \ {0}
    OBVIOUS
  <2> QED
    BY <2>1, <2>2, <2>3, TurboquantDecodeRight, Tried
<1> QED
  BY <1>1, <1>2, <1>3, <1>4, <1>5, <1>6, <1>7, <1>8, <1>9, <1>10, <1>11 DEF TryElements

LEMMA RowsTried ==
    ASSUME TryRows
    PROVE  Suits'
<1>1. CASE TrySoftmax
  <2>1. PICK r \in Rows, d \in Dims : Run(Softmax(r, d))
    BY <1>1 DEF TrySoftmax
  <2>2. r \in Nat /\ d \in Nat \ {0}
    BY DEF Rows, Dims
  <2>3. KernelRight(Softmax(r, d))
    BY <2>2, SoftmaxRight
  <2> QED
    BY <2>1, <2>3, Tried
<1>2. CASE TryRmsNorm
  <2>1. PICK r \in Rows, d \in Dims : Run(RmsNorm(r, d))
    BY <1>2 DEF TryRmsNorm
  <2>2. r \in Nat /\ d \in Nat \ {0}
    BY DEF Rows, Dims
  <2>3. KernelRight(RmsNorm(r, d))
    BY <2>2, RmsNormRight
  <2> QED
    BY <2>1, <2>3, Tried
<1>3. CASE TryLayerNorm
  <2>1. PICK r \in Rows, d \in Dims : Run(LayerNorm(r, d))
    BY <1>3 DEF TryLayerNorm
  <2>2. r \in Nat /\ d \in Nat \ {0}
    BY DEF Rows, Dims
  <2>3. KernelRight(LayerNorm(r, d))
    BY <2>2, LayerNormRight
  <2> QED
    BY <2>1, <2>3, Tried
<1>4. CASE TryFusedAddRmsNorm
  <2>1. PICK r \in Rows, d \in 1..5 : Run(FusedAddRmsNorm(r, d))
    BY <1>4 DEF TryFusedAddRmsNorm
  <2>2. r \in Nat /\ d \in Nat \ {0}
    BY DEF Rows
  <2>3. KernelRight(FusedAddRmsNorm(r, d))
    BY <2>2, FusedAddRmsNormRight
  <2> QED
    BY <2>1, <2>3, Tried
<1>5. CASE TryRmsResidualNext
  <2>1. PICK r \in Rows, d \in 1..5 : Run(RmsResidualNext(r, d))
    BY <1>5 DEF TryRmsResidualNext
  <2>2. r \in Nat /\ d \in Nat \ {0}
    BY DEF Rows
  <2>3. KernelRight(RmsResidualNext(r, d))
    BY <2>2, RmsResidualNextRight
  <2> QED
    BY <2>1, <2>3, Tried
<1>6. CASE TryGroupRmsNormGated
  <2>1. PICK r \in Rows, g \in 1..3, s \in 1..5, n \in BOOLEAN : Run(GroupRmsNormGated(r, g * s, g, n))
    BY <1>6 DEF TryGroupRmsNormGated
  <2>2. r \in Nat /\ g \in Nat \ {0} /\ s \in Nat \ {0}
    BY DEF Rows
  <2>3. KernelRight(GroupRmsNormGated(r, g * s, g, n))
    BY <2>2, GroupRmsNormGatedRight
  <2> QED
    BY <2>1, <2>3, Tried
<1>7. CASE TryCrossEntropy
  <2>1. PICK r \in Rows, v \in Dims : Run(CrossEntropy(r, v, v - 1))
    BY <1>7 DEF TryCrossEntropy
  <2>2. r \in Nat /\ v \in Nat \ {0} /\ v - 1 \in Upto(v)
    BY DEF Rows, Dims, Upto
  <2>3. KernelRight(CrossEntropy(r, v, v - 1))
    BY <2>2, CrossEntropyRight
  <2> QED
    BY <2>1, <2>3, Tried
<1>8. CASE TryActQuantInt8
  <2>1. PICK r \in Rows, d \in Dims : Run(ActQuantInt8(r, d))
    BY <1>8 DEF TryActQuantInt8
  <2>2. r \in Nat /\ d \in Nat \ {0}
    BY DEF Rows, Dims
  <2>3. KernelRight(ActQuantInt8(r, d))
    BY <2>2, ActQuantInt8Right
  <2> QED
    BY <2>1, <2>3, Tried
<1>9. CASE TryNormQuant
  <2>1. PICK r \in Rows, g \in 1..3, m \in {"static", "dynamic", "mxfp4"} : Run(NormQuant(r, g * MxGroup, MxGroup, m))
    BY <1>9 DEF TryNormQuant
  <2>2. r \in Nat /\ g \in Nat \ {0}
    BY DEF Rows
  <2>3. MxGroup \in Nat \ {0} /\ \E turns \in Nat \ {0} : MxWidth(MxGroup, turns)
    BY RowAssumption, CompiledAssumption DEF MxWidth
  <2>4. PICK sg \in Nat \ {0} : sg = MxGroup /\ sg >= MxGroup
    BY <2>3
  <2>5. PICK turns \in Nat \ {0} : MxWidth(sg, turns)
    BY <2>3, <2>4
  <2>6. g * MxGroup \in Nat \ {0}
    BY <2>2, <2>3, TileSizes
  <2>7. PICK dim \in Nat \ {0} : dim = g * MxGroup
    BY <2>6
  <2>8. KernelRight(NormQuant(r, g * MxGroup, sg, "mxfp4"))
    BY <2>2, <2>4, <2>5, NormQuantMxRight
  <2>9. KernelRight(NormQuant(r, dim, sg, "static")) /\ KernelRight(NormQuant(r, dim, sg, "dynamic"))
    BY <2>2, NormQuantStaticRight, NormQuantDynamicRight
  <2>10. Run(NormQuant(r, dim, sg, m))
    BY <2>1, <2>4, <2>7
  <2>11. KernelRight(NormQuant(r, dim, sg, m))
    BY <2>7, <2>8, <2>9
  <2> QED
    BY <2>10, <2>11, Tried
<1>10. CASE TryGluQuant
  <2>1. PICK r \in Rows, g \in 1..3, m \in {"fp8", "mxfp4"} : Run(GluQuant(r, g * MxGroup, MxGroup, m))
    BY <1>10 DEF TryGluQuant
  <2>2. r \in Nat /\ g \in Nat \ {0}
    BY DEF Rows
  <2>3. MxGroup \in Nat \ {0} /\ \E turns \in Nat \ {0} : MxWidth(MxGroup, turns)
    BY RowAssumption, CompiledAssumption DEF MxWidth
  <2>4. PICK sg \in Nat \ {0} : sg = MxGroup /\ sg >= MxGroup
    BY <2>3
  <2>5. PICK turns \in Nat \ {0} : MxWidth(sg, turns)
    BY <2>3, <2>4
  <2>6. KernelRight(GluQuant(r, g * MxGroup, sg, m))
    BY <2>2, <2>4, <2>5, GluQuantRight
  <2> QED
    BY <2>1, <2>4, <2>6, Tried
<1>11. CASE TryQkNormRope
  <2>1. PICK t \in Rows, h \in 1..2, kv \in 1..2, d \in {2, 4, 6, 10}, f \in BOOLEAN : Run(QkNormRope(t, h, kv, d, 4, f))
    BY <1>11 DEF TryQkNormRope
  <2>2. t \in Nat /\ h \in Nat \ {0} /\ kv \in Nat \ {0} /\ 4 \in Nat \ {0}
    BY DEF Rows
  <2>3. PICK half \in Nat \ {0} : d = 2 * half
    <3>1. d = 2 * 1 \/ d = 2 * 2 \/ d = 2 * 3 \/ d = 2 * 5
      OBVIOUS
    <3> QED
      BY <3>1
  <2>4. KernelRight(QkNormRope(t, h, kv, 2 * half, 4, f))
    BY <2>2, QkNormRopeRight
  <2> QED
    BY <2>1, <2>3, <2>4, Tried
<1>12. CASE TryHadamard
  <2>1. PICK r \in Rows, n \in {1, 2, 4, 8, 16} : Run(Hadamard(r, n))
    BY <1>12 DEF TryHadamard
  <2>2. r \in Nat /\ n \in Nat \ {0}
    BY DEF Rows
  <2>3. KernelRight(Hadamard(r, n))
    BY <2>2, HadamardRight
  <2> QED
    BY <2>1, <2>3, Tried
<1>13. CASE TryPoolMean
  <2>1. PICK o \in {<<0, 2, 2, 3>>, <<0, 0>>}, d \in {2, 4} : Run(PoolMean(o, d, 2))
    BY <1>13 DEF TryPoolMean
  <2>2. Len(o) - 1 \in Nat
    <3>1. Len(<<0, 2, 2, 3>>) = 4 /\ Len(<<0, 0>>) = 2
      BY ShortSeqs
    <3> QED
      BY <3>1
  <2>3. d \in Nat \ {0} /\ 2 \in Nat \ {0}
    OBVIOUS
  <2>4. KernelRight(PoolMean(o, d, 2))
    BY <2>2, <2>3, PoolMeanRight
  <2> QED
    BY <2>1, <2>4, Tried
<1> QED
  BY <1>1, <1>2, <1>3, <1>4, <1>5, <1>6, <1>7, <1>8, <1>9, <1>10, <1>11, <1>12, <1>13 DEF TryRows

LEMMA ExpertSeqs == Experts \subseteq Seq(Int)
<1>1. <<0, 1>> \in Seq(Int) /\ <<1, -1, 2, 0>> \in Seq(Int) /\ <<1, 1, 0, 1>> \in Seq(Int)
  BY ShortSeqs
<1> QED
  BY <1>1 DEF Experts

LEMMA HeightIs == ASSUME NEW pairs, NEW K PROVE RowsPerSubgroup(pairs, K) \in Nat \ {0}
<1> DEFINE H == {r \in {2, 4, 8, 16} : pairs * CeilDiv(K, Subgroups) >= TargetWGs * r} \cup {1}
<1>1. RowsPerSubgroup(pairs, K) = CHOOSE r \in H : \A o \in H : o <= r
  BY DEF RowsPerSubgroup
<1>2. H \subseteq {1, 2, 4, 8, 16} /\ 1 \in H
  OBVIOUS
<1> HIDE DEF H
<1>3. \E r \in H : \A o \in H : o <= r
  BY <1>2
<1>4. (CHOOSE r \in H : \A o \in H : o <= r) \in H
  BY <1>3
<1>5. \A r \in H : r \in Nat \ {0}
  BY <1>2
<1> QED
  BY <1>1, <1>4, <1>5

LEMMA GemmsTried ==
    ASSUME TryGemms
    PROVE  Suits'
<1>1. CASE TryQGemvInt4
  <2>1. PICK N \in {1, 3, 4}, s \in {<<8, 8>>, <<24, 8>>, <<20, 4>>, <<12, 12>>, <<12, 4>>,
                                     <<16, 16>>, <<32, 16>>, <<24, 12>>, <<4, 4>>, <<44, 4>>} :
          Run(QGemvInt4(N, s[1], s[2], 8, 4))
    BY <1>1 DEF TryQGemvInt4
  <2>2. PICK K \in Nat, m \in 1..4 : s[1] = K /\ s[2] = m * (2 * 2)
    <3>1. s[1] \in Nat /\ (s[2] = 1 * 4 \/ s[2] = 2 * 4 \/ s[2] = 3 * 4 \/ s[2] = 4 * 4)
      BY <2>1
    <3> QED
      BY <3>1
  <2>3. N \in Nat /\ 2 \in Nat \ {0} /\ m \in Nat \ {0}
    OBVIOUS
  <2>4. KernelRight(QGemvInt4(N, K, m * (2 * 2), 2 * (2 * 2), 2 * 2))
    BY <2>3, QGemvInt4Right
  <2>5. QGemvInt4(N, s[1], s[2], 8, 4) = QGemvInt4(N, K, m * (2 * 2), 2 * (2 * 2), 2 * 2)
    BY <2>2
  <2> QED
    BY <2>1, <2>4, <2>5, Tried
<1>2. CASE TryNvfp4Mtiled
  <2>1. PICK M \in 1..2, N \in 1..3, K \in {4, 8, 20} : Run(Nvfp4Mtiled(M, N, K, 4))
    BY <1>2 DEF TryNvfp4Mtiled
  <2>2. M \in Nat /\ N \in Nat /\ K \in Nat /\ 2 \in Nat \ {0} /\ K % (2 * 2) = 0
    OBVIOUS
  <2>3. KernelRight(Nvfp4Mtiled(M, N, K, 2 * 2))
    BY <2>2, Nvfp4MtiledRight
  <2> QED
    BY <2>1, <2>3, Tried
<1>3. CASE TryNvfp4Gemv
  <2>1. PICK N \in 1..3, K \in {4, 8, 20} : Run(Nvfp4Gemv(N, K, 4))
    BY <1>3 DEF TryNvfp4Gemv
  <2>2. N \in Nat /\ K \in Nat /\ 2 \in Nat \ {0} /\ K % (2 * 2) = 0
    OBVIOUS
  <2>3. KernelRight(Nvfp4Gemv(N, K, 2 * 2))
    BY <2>2, Nvfp4GemvRight
  <2> QED
    BY <2>1, <2>3, Tried
<1>4. CASE TryMxfp4Gemv
  <2>1. PICK N \in 1..3, K \in {4, 8, 20} : Run(Mxfp4Gemv(N, K, 4))
    BY <1>4 DEF TryMxfp4Gemv
  <2>2. N \in Nat /\ K \in Nat /\ 4 \in Nat \ {0} /\ K % 4 = 0
    OBVIOUS
  <2>3. KernelRight(Mxfp4Gemv(N, K, 4))
    BY <2>2, Mxfp4GemvRight
  <2> QED
    BY <2>1, <2>3, Tried
<1>5. CASE TryGgufGemv
  <2>1. PICK N \in 1..3, K \in {8, 24, 32} : Run(GgufGemv(N, K, 8))
    BY <1>5 DEF TryGgufGemv
  <2>2. N \in Nat /\ K \in Nat /\ 8 \in Nat \ {0} /\ K % 8 = 0
    OBVIOUS
  <2>3. KernelRight(GgufGemv(N, K, 8))
    BY <2>2, Mxfp4GemvRight
  <2> QED
    BY <2>1, <2>3, Tried
<1>6. CASE TryFp8W8A16
  <2>1. PICK M \in 1..2, N \in 1..3, K \in {4, 8, 20} : Run(Fp8W8A16(M, N, K, 4))
    BY <1>6 DEF TryFp8W8A16
  <2>2. M \in Nat /\ N \in Nat \ {0} /\ K \in Nat /\ 4 \in Nat \ {0} /\ K % 4 = 0
    OBVIOUS
  <2>3. KernelRight(Fp8W8A16(M, N, K, 4))
    BY <2>2, Fp8W8A16Right
  <2> QED
    BY <2>1, <2>3, Tried
<1>7. CASE TryFp8Partial
  <2>1. PICK N \in 1..5, K \in 1..30 : Run(Fp8Partial(N, K, 3, 2))
    BY <1>7 DEF TryFp8Partial
  <2>2. N \in Nat \ {0} /\ K \in Nat \ {0} /\ 3 \in Nat \ {0} /\ 2 \in Nat \ {0}
    OBVIOUS
  <2>3. KernelRight(Fp8Partial(N, K, 3, 2))
    BY <2>2, Fp8PartialRight
  <2> QED
    BY <2>1, <2>3, Tried
<1>8. CASE TryFp8Reduce
  <2>1. PICK N \in 1..5, K \in 1..30 : Run(Fp8Reduce(N, K, 3))
    BY <1>8 DEF TryFp8Reduce
  <2>2. N \in Nat
    OBVIOUS
  <2>3. KernelRight(Fp8Reduce(N, K, 3))
    BY <2>2, Fp8ReduceRight
  <2> QED
    BY <2>1, <2>3, Tried
<1>9. CASE TryTiledGemm
  <2>1. PICK M \in 1..3, N \in 1..3, K \in 1..5 : Run(dense_gemm(M, N, K)) \/ Run(qgemm_int8(M, N, K))
    BY <1>9 DEF TryTiledGemm
  <2>2. M \in Nat /\ N \in Nat /\ K \in Nat \ {0}
    OBVIOUS
  <2>3. KernelRight(dense_gemm(M, N, K)) /\ KernelRight(qgemm_int8(M, N, K))
    BY <2>2, TiledGemmRight DEF dense_gemm, qgemm_int8
  <2> QED
    BY <2>1, <2>3, Tried
<1>10. CASE TryW4A16Gemm
  <2>1. PICK M \in 1..5, N \in 1..3, s \in {<<2, 2>>, <<4, 2>>, <<6, 2>>, <<6, 3>>, <<6, 6>>} :
                Run(W4A16Gemm(M, N, s[1], s[2]))
    BY <1>10 DEF TryW4A16Gemm
  <2>2. M \in Nat /\ N \in Nat /\ s[1] \in Nat \ {0}
    OBVIOUS
  <2>3. KernelRight(W4A16Gemm(M, N, s[1], s[2]))
    BY <2>2, W4A16GemmRight
  <2> QED
    BY <2>1, <2>3, Tried
<1>11. CASE TryMqaLogits
  <2>1. PICK S \in 1..2, H \in 1..5, D \in {4, 8}, T \in 1..5 : Run(MqaLogits(S, H, D, T))
    BY <1>11 DEF TryMqaLogits
  <2>2. S \in Nat /\ H \in Nat \ {0} /\ D \in Nat /\ T \in Nat
    BY CompiledAssumption
  <2>3. MmaLanes = TileN
    BY CompiledAssumption
  <2>4. KernelRight(MqaLogits(S, H, D, T))
    BY <2>2, <2>3, MqaLogitsRight
  <2> QED
    BY <2>1, <2>4, Tried
<1>12. CASE TryLoraShrink
  <2>1. PICK ix \in {<<0, 1>>, <<2, 1>>, <<-1, 0, 0>>}, h \in 1..3, r \in 1..2 : Run(LoraShrink(ix, h, r, 2))
    BY <1>12 DEF TryLoraShrink
  <2>2. ix \in Seq(Int)
    <3>1. <<0, 1>> \in Seq(Int) /\ <<2, 1>> \in Seq(Int) /\ <<-1, 0, 0>> \in Seq(Int)
      BY ShortSeqs
    <3> QED
      BY <3>1
  <2>3. r \in Nat \ {0}
    OBVIOUS
  <2>4. KernelRight(LoraShrink(ix, h, r, 2))
    BY <2>2, <2>3, LoraShrinkRight
  <2> QED
    BY <2>1, <2>4, Tried
<1>13. CASE TryLoraExpand
  <2>1. PICK ix \in {<<0, 1>>, <<2, 1>>, <<-1, 0, 0>>}, d \in 1..3, r \in 1..2, o \in 0..2 :
          Run(LoraExpand(ix, r, d, 2, o, 6))
    BY <1>13 DEF TryLoraExpand
  <2>2. ix \in Seq(Int)
    <3>1. <<0, 1>> \in Seq(Int) /\ <<2, 1>> \in Seq(Int) /\ <<-1, 0, 0>> \in Seq(Int)
      BY ShortSeqs
    <3> QED
      BY <3>1
  <2>3. d \in Nat \ {0} /\ o \in Nat /\ 6 \in Nat /\ o + d <= 6
    OBVIOUS
  <2>4. KernelRight(LoraExpand(ix, r, d, 2, o, 6))
    BY <2>2, <2>3, LoraExpandRight
  <2> QED
    BY <2>1, <2>4, Tried
<1>14. CASE TryMoeFused
  <2>1. PICK x \in Experts, K \in {2, 6}, I \in {2, 4, 10} :
          Run(fused_typed(x, 2, 2, K, I, 2)) \/ Run(relu2_fused_typed(x, 2, 2, K, I, 2))
    BY <1>14 DEF TryMoeFused
  <2>2. x \in Seq(Int)
    BY ExpertSeqs
  <2>3. K \in Nat \ {0} /\ I \in Nat \ {0} /\ 2 \in Nat \ {0} /\ K % 2 = 0 /\ I % 2 = 0
    OBVIOUS
  <2>4. KernelRight(MoeFused(x, 2, 2, K, I, 2, TRUE)) /\ KernelRight(MoeFused(x, 2, 2, K, I, 2, FALSE))
    BY <2>2, <2>3, MoeFusedRight
  <2> QED
    BY <2>1, <2>4, Tried DEF fused_typed, relu2_fused_typed
<1>15. CASE TryMoeProject
  <2>1. PICK x \in Experts, K \in {2, 6}, I \in {2, 4, 10} :
          Run(gate_up_typed(x, 2, K, I, 2)) \/ Run(relu2_up_typed(x, 2, K, I, 2))
    BY <1>15 DEF TryMoeProject
  <2>2. x \in Seq(Int)
    BY ExpertSeqs
  <2>3. K \in Nat /\ I \in Nat \ {0} /\ 2 \in Nat \ {0} /\ K % 2 = 0
    OBVIOUS
  <2>4. KernelRight(MoeProject(x, 2, K, I, 2, TRUE)) /\ KernelRight(MoeProject(x, 2, K, I, 2, FALSE))
    BY <2>2, <2>3, MoeProjectRight
  <2> QED
    BY <2>1, <2>4, Tried DEF gate_up_typed, relu2_up_typed
<1>16. CASE TryMoeOutput
  <2>1. PICK x \in Experts, K \in {2, 6, 10, 12}, I \in {2, 4, 10} :
          Run(output_typed(x, 2, 2, K, I, 2)) \/ Run(relu2_output_typed(x, 2, 2, K, I, 2))
    BY <1>16 DEF TryMoeOutput
  <2>2. x \in Seq(Int)
    BY ExpertSeqs
  <2>3. K \in Nat \ {0} /\ I \in Nat \ {0} /\ 2 \in Nat \ {0} /\ 1 \in Nat \ {0} /\ I % 2 = 0
    OBVIOUS
  <2>4. PICK height \in Nat \ {0} : height = RowsPerSubgroup(Len(x), K)
    BY HeightIs
  <2>5. KernelRight(MoeOutput(x, 2, 2, K, I, 2, TRUE, height)) /\ KernelRight(MoeOutput(x, 2, 2, K, I, 2, FALSE, 1))
    BY <2>2, <2>3, MoeOutputRight
  <2> QED
    BY <2>1, <2>4, <2>5, Tried DEF output_typed, relu2_output_typed
<1> QED
  BY <1>1, <1>2, <1>3, <1>4, <1>5, <1>6, <1>7, <1>8, <1>9, <1>10, <1>11, <1>12, <1>13, <1>14, <1>15, <1>16 DEF TryGemms

LEMMA SlotsOnce ==
    ASSUME NEW s, s \in Slots \/ s \in {<<0, 2>>, <<1, -1>>, << 0 >>}
    PROVE  s \in Seq(Int) /\ OneEach(s, 3)
<1>1. CASE Len(s) = 1
  <2>1. s = << 1 >> \/ s = << 0 >>
    BY <1>1, ShortSeqs DEF Slots
  <2>2. << 1 >> \in Seq(Int) /\ << 0 >> \in Seq(Int)
    BY ShortSeqs
  <2>3. \A t \in 1..Len(s) : t = 1
    BY <1>1
  <2> QED
    BY <2>1, <2>2, <2>3 DEF OneEach, Live
<1>2. CASE Len(s) # 1
  <2>1. PICK a \in -1..3, b \in -1..3 : s = <<a, b>> /\ a # b
    BY <1>2, ShortSeqs DEF Slots
  <2>2. s \in Seq(Int) /\ Len(s) = 2 /\ s[1] = a /\ s[2] = b
    BY <2>1, ShortSeqs
  <2>3. \A t \in 1..Len(s) : t = 1 \/ t = 2
    BY <2>2
  <2> QED
    BY <2>1, <2>2, <2>3 DEF OneEach, Live
<1> QED
  BY <1>1, <1>2

LEMMA StartsGrow == ASSUME NEW cu \in Starts PROVE Starting(cu) /\ Len(cu) = 3
<1>1. PICK a \in 0..3, b \in 0..3, c \in 0..3 : cu = <<a, b, c>> /\ a <= b /\ b <= c
  BY DEF Starts
<1>2. cu \in Seq(Nat) /\ Len(cu) = 3 /\ cu[1] = a /\ cu[2] = b /\ cu[3] = c
  BY <1>1, ShortSeqs
<1>3. \A r \in 1..Len(cu) : r = 1 \/ r = 2 \/ r = 3
  BY <1>2
<1> QED
  BY <1>1, <1>2, <1>3 DEF Starting

LEMMA AttentionTried ==
    ASSUME TryAttention
    PROVE  Suits'
<1>1. CASE TryDenseAttention
  <2>1. PICK h \in Heads, q \in 1..3, k \in 1..4, c \in BOOLEAN : q <= k /\ Run(DenseAttention(h[1], h[2], q, k, c))
    BY <1>1 DEF TryDenseAttention
  <2>2. h[1] \in Nat /\ q \in Nat \ {0} /\ k \in Nat
    BY DEF Heads
  <2>3. k < SizeMod
    BY SizeAssumption, CompiledAssumption
  <2>4. KernelRight(DenseAttention(h[1], h[2], q, k, c))
    BY <2>1, <2>2, <2>3, DenseAttentionRight
  <2> QED
    BY <2>1, <2>4, Tried
<1>2. CASE TryAttentionF16Ctx
  <2>1. PICK h \in Heads, q \in 1..3, k \in 1..4, c \in BOOLEAN : q <= k /\ Run(AttentionF16Ctx(h[1], h[2], q, k, c))
    BY <1>2 DEF TryAttentionF16Ctx
  <2>2. h[1] \in Nat /\ q \in Nat \ {0} /\ k \in Nat
    BY DEF Heads
  <2>3. k < SizeMod
    BY SizeAssumption, CompiledAssumption
  <2>4. KernelRight(AttentionF16Ctx(h[1], h[2], q, k, c))
    BY <2>1, <2>2, <2>3, DenseAttentionRight
  <2> QED
    BY <2>1, <2>4, Tried
<1>3. CASE TryAttnSwa
  <2>1. PICK h \in Heads, q \in 1..3, k \in 1..5, w \in 0..5 : q <= k /\ Run(AttnSwa(h[1], h[2], q, k, w))
    BY <1>3 DEF TryAttnSwa
  <2>2. h[1] \in Nat /\ q \in Nat \ {0} /\ k \in Nat
    BY DEF Heads
  <2>3. w \in Nat /\ k + w < SizeMod
    BY SizeAssumption, CompiledAssumption
  <2>4. KernelRight(AttnSwa(h[1], h[2], q, k, w))
    BY <2>1, <2>2, <2>3, AttnSwaRight
  <2> QED
    BY <2>1, <2>4, Tried
<1>4. CASE TryMergeAttnStates
  <2>1. PICK r \in 1..2, d \in 1..3, e \in SUBSET ({"a", "b"} \X {0, 1}) : Run(MergeAttnStates(r, d, e))
    BY <1>4 DEF TryMergeAttnStates
  <2>2. r \in Nat /\ d \in Nat \ {0}
    OBVIOUS
  <2>3. KernelRight(MergeAttnStates(r, d, e))
    BY <2>2, MergeAttnStatesRight
  <2> QED
    BY <2>1, <2>3, Tried
<1>5. CASE TryLinearAttn
  <2>1. PICK h \in 1..2, s \in 1..3, d \in 1..3 : Run(LinearAttn(h, s, d, 3))
    BY <1>5 DEF TryLinearAttn
  <2>2. h \in Nat /\ s \in Nat \ {0} /\ d \in Nat \ {0} /\ 3 \in Nat \ {0}
    OBVIOUS
  <2>3. KernelRight(LinearAttn(h, s, d, 3))
    BY <2>2, LinearAttnRight
  <2> QED
    BY <2>1, <2>3, Tried
<1>6. CASE TryGdnL2Norm
  <2>1. PICK r \in 1..3, d \in 1..3 : Run(GdnL2Norm(r, d))
    BY <1>6 DEF TryGdnL2Norm
  <2>2. r \in Nat /\ d \in Nat \ {0}
    OBVIOUS
  <2>3. KernelRight(GdnL2Norm(r, d))
    BY <2>2, GdnL2NormRight
  <2> QED
    BY <2>1, <2>3, Tried
<1>7. CASE TryGatedDeltaRule
  <2>1. PICK cu \in Starts, s \in {x \in Slots : Len(x) = 2}, hk \in 1..2, g \in 1..2, dk \in 1..3, dv \in 1..2 :
          Run(GatedDeltaRule(cu, s, hk, hk * g, dk, dv, 3))
    BY <1>7 DEF TryGatedDeltaRule
  <2>2. s \in Slots /\ Len(s) = 2
    OBVIOUS
  <2>3. s \in Seq(Int) /\ OneEach(s, 3) /\ Starting(cu) /\ Len(cu) = 3
    BY <2>2, SlotsOnce, StartsGrow
  <2>4. Len(cu) = Len(s) + 1 /\ Len(s) > 0
    BY <2>2, <2>3
  <2>5. hk * g \in Nat \ {0}
    BY TileSizes
  <2>6. dk \in Nat /\ dv \in Nat \ {0} /\ 3 \in Nat
    OBVIOUS
  <2>7. PICK hv \in Nat \ {0} : hv = hk * g
    BY <2>5
  <2>8. KernelRight(GatedDeltaRule(cu, s, hk, hv, dk, dv, 3))
    BY <2>3, <2>4, <2>6, GatedDeltaRuleRight
  <2> QED
    BY <2>1, <2>7, <2>8, Tried
<1>8. CASE TryQwenGdnConv
  <2>1. PICK s \in Slots, qk \in 1..2, v \in 1..2 : Run(QwenGdnConv(s, qk, v, 3))
    BY <1>8 DEF TryQwenGdnConv
  <2>2. s \in Seq(Int) /\ OneEach(s, 3)
    BY SlotsOnce
  <2>3. qk \in Nat /\ v \in Nat \ {0} /\ 3 \in Nat
    OBVIOUS
  <2>4. KernelRight(QwenGdnConv(s, qk, v, 3))
    BY <2>2, <2>3, QwenGdnConvRight
  <2> QED
    BY <2>1, <2>4, Tried
<1>9. CASE TryQwenGdnRecurrent
  <2>1. PICK s \in Slots, h \in 1..2, d \in 1..3 : Run(QwenGdnRecurrent(s, h, d, 3))
    BY <1>9 DEF TryQwenGdnRecurrent
  <2>2. s \in Seq(Int) /\ OneEach(s, 3)
    BY SlotsOnce
  <2>3. h \in Nat \ {0} /\ d \in Nat \ {0} /\ 3 \in Nat
    OBVIOUS
  <2>4. KernelRight(QwenGdnRecurrent(s, h, d, 3))
    BY <2>2, <2>3, QwenGdnRecurrentRight
  <2> QED
    BY <2>1, <2>4, Tried
<1>10. CASE TryConv1dDecode
  <2>1. PICK s \in Slots, d \in 1..3 : Run(Conv1dDecode(s, d, 3))
    BY <1>10 DEF TryConv1dDecode
  <2>2. s \in Seq(Int) /\ OneEach(s, 3)
    BY SlotsOnce
  <2>3. d \in Nat \ {0} /\ 3 \in Nat
    OBVIOUS
  <2>4. KernelRight(Conv1dDecode(s, d, 3))
    BY <2>2, <2>3, Conv1dDecodeRight
  <2> QED
    BY <2>1, <2>4, Tried
<1>11. CASE TrySsdDecode
  <2>1. PICK s \in Slots, t \in {<<0, 2>>, <<1, -1>>, << 0 >>}, h \in 1..2, d \in 1..2 :
          /\ Len(s) = Len(t)
          /\ \A x, y \in DOMAIN s : x # y => s[x] # t[y]
          /\ Run(SsdDecode(s, t, h, d, 3))
    BY <1>11 DEF TrySsdDecode
  <2>2. s \in Seq(Int) /\ t \in Seq(Int) /\ OneEach(t, 3)
    BY SlotsOnce
  <2>3. h \in Nat \ {0} /\ d \in Nat \ {0} /\ 3 \in Nat
    OBVIOUS
  <2>4. \A x \in Live(s, 3), y \in Live(t, 3) : s[x] = t[y] => x = y
    <3>1. Live(s, 3) \subseteq DOMAIN s /\ Live(t, 3) \subseteq DOMAIN s
      BY <2>1, <2>2 DEF Live
    <3> QED
      BY <2>1, <3>1
  <2>5. KernelRight(SsdDecode(s, t, h, d, 3))
    BY <2>1, <2>2, <2>3, <2>4, SsdDecodeRight
  <2> QED
    BY <2>1, <2>5, Tried
<1>12. CASE TrySsdPrefill
  <2>1. PICK cu \in Starts, h \in 1..2, d \in 1..2 : Run(SsdPrefill(cu, h, d))
    BY <1>12 DEF TrySsdPrefill
  <2>2. Starting(cu)
    BY StartsGrow
  <2>3. h \in Nat \ {0} /\ d \in Nat \ {0}
    OBVIOUS
  <2>4. KernelRight(SsdPrefill(cu, h, d))
    BY <2>2, <2>3, SsdPrefillRight
  <2> QED
    BY <2>1, <2>4, Tried
<1>13. CASE TrySelectiveScan
  <2>1. PICK c \in 1..3, s \in 1..3 : Run(SelectiveScan(c, s))
    BY <1>13 DEF TrySelectiveScan
  <2>2. c \in Nat /\ s \in Nat \ {0}
    OBVIOUS
  <2>3. KernelRight(SelectiveScan(c, s))
    BY <2>2, SelectiveScanRight
  <2> QED
    BY <2>1, <2>3, Tried
<1> QED
  BY <1>1, <1>2, <1>3, <1>4, <1>5, <1>6, <1>7, <1>8, <1>9, <1>10, <1>11, <1>12, <1>13 DEF TryAttention

LEMMA EveryKernelTried == Spec => []Suits
<1>1. Init => Suits
  BY DEF Init, Suits
<1>2. ASSUME Suits, [Next]_input
      PROVE  Suits'
  <2>1. CASE UNCHANGED input
    BY <1>2, <2>1 DEF Suits
  <2>2. CASE Next
    <3>1. CASE TryElements
      BY <3>1, ElementsTried
    <3>2. CASE TryRows
      BY <3>2, RowsTried
    <3>3. CASE TryGemms
      BY <3>3, GemmsTried
    <3>4. CASE TryAttention
      BY <3>4, AttentionTried
    <3>5. CASE \/ TryTiles \/ TryLogits \/ TryFloat \/ TryCodes \/ TryProduct \/ TryShape
               \/ TryKey \/ TryCoordinate \/ TryPlatforms \/ TryBlock \/ TryCall \/ Again
      <4>1. input'.kind # "kernel"
        BY <3>5 DEF TryTiles, TryLogits, TryFloat, TryCodes, TryProduct, TryShape, TryKey, TryCoordinate,
                    TryPlatforms, TryBlock, TryCall, Again
      <4> QED
        BY <4>1 DEF Suits
    <3> QED
      BY <2>2, <3>1, <3>2, <3>3, <3>4, <3>5 DEF Next
  <2> QED
    BY <1>2, <2>1, <2>2
<1> QED
  BY <1>1, <1>2, PTL DEF Spec

\* Of the kernels tried none has a race, and each finds in local memory what
\* its group has put there.
THEOREM KernelsNeverRace == Spec => []KernelsRaceFree
<1>1. Suits => KernelsRaceFree
  BY DEF Suits, KernelRight, KernelsRaceFree
<1> QED
  BY <1>1, EveryKernelTried, PTL

\* Each of the kernels tried writes its output and adds its terms exactly once.
THEOREM KernelsAlwaysExact == Spec => []KernelsExact
<1>1. Suits => KernelsExact
  BY DEF Suits, KernelRight, KernelsExact
<1> QED
  BY <1>1, EveryKernelTried, PTL
==============================================================================
