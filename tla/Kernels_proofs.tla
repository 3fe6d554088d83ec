--------------------------- MODULE Kernels_proofs ---------------------------
(***************************************************************************)
(* Kernels at every size: no two items touch what one of them writes       *)
(* unless a barrier separates them, local memory is staged before it is    *)
(* read, every output cell is written by one item, and every total gets    *)
(* each of its terms from one item (KernelRight).  Foundations_proofs      *)
(* holds the ways to share; here each kernel is shown to be one of them.   *)
(* The DPAS tiles and the routed NVFP4 MoE are left to Algorithms_proofs.  *)
(***************************************************************************)
EXTENDS ElementKernels, RowKernels, GemmKernels, AttnKernels, Foundations_proofs

-----------------------------------------------------------------------------
(* Rows of cells, and how lanes share a row                                 *)

\* The terms of one total per row.
TotalsOf(name, b, rows, d) == Totals({name}, b, rows, d)

LEMMA InTotals ==
    ASSUME NEW name, NEW b, NEW rows, NEW d, NEW t
    PROVE  t \in TotalsOf(name, b, rows, d) <=>
             \E r \in Upto(rows) : t \in Into(<<name, r>>, At(b, r * d, Upto(d)))
<1> DEFINE N == {name}
           P == Upto(rows)
           M == {Into(<<n, r>>, At(b, r * d, Upto(d))) : n \in N, r \in P}
<1>1. TotalsOf(name, b, rows, d) = UNION M
  BY DEF Totals, TotalsOf
<1>2. ASSUME NEW m \in M
      PROVE  \E r \in P : m = Into(<<name, r>>, At(b, r * d, Upto(d)))
  OBVIOUS
<1>3. ASSUME NEW r \in P
      PROVE  Into(<<name, r>>, At(b, r * d, Upto(d))) \in M
  OBVIOUS
<1> HIDE DEF M
<1> QED
  BY <1>1, <1>2, <1>3

\* Two totals per row.
LEMMA TotalsTwo ==
    ASSUME NEW m, NEW n, NEW b, NEW rows, NEW d
    PROVE  Totals({m, n}, b, rows, d) = TotalsOf(m, b, rows, d) \cup TotalsOf(n, b, rows, d)
<1> DEFINE P == Upto(rows)
           F(x, r) == Into(<<x, r>>, At(b, r * d, Upto(d)))
           M == {F(x, r) : x \in {m, n}, r \in P}
           M1 == {F(x, r) : x \in {m}, r \in P}
           M2 == {F(x, r) : x \in {n}, r \in P}
<1>1. /\ Totals({m, n}, b, rows, d) = UNION M
      /\ TotalsOf(m, b, rows, d) = UNION M1
      /\ TotalsOf(n, b, rows, d) = UNION M2
  BY DEF Totals, TotalsOf
<1>2. M = M1 \cup M2
  OBVIOUS
<1> HIDE DEF M, M1, M2
<1> QED
  BY <1>1, <1>2

LEMMA TotalName ==
    ASSUME NEW name, NEW b, NEW rows, NEW d, NEW t, t \in TotalsOf(name, b, rows, d)
    PROVE  t[1][1] = name
<1>1. PICK r \in Upto(rows) : t \in Into(<<name, r>>, At(b, r * d, Upto(d)))
  BY InTotals
<1> QED
  BY <1>1 DEF Into

\* The same for what the lanes add to the total of their row.
LEMMA SumShares ==
    ASSUME NEW name, NEW W, NEW A, NEW b, NEW rows \in Nat, NEW d \in Nat \ {0}, NEW lanes,
           DOMAIN W = Grid(rows, lanes), DOMAIN A = Grid(rows, lanes),
           Shares(W, At(b, 0, Upto(rows * d))),
           \A i \in Grid(rows, lanes) : /\ A[i] = Into(<<name, i[1]>>, W[i])
                                        /\ W[i] \subseteq At(b, i[1] * d, Upto(d))
    PROVE  Shares(A, TotalsOf(name, b, rows, d))
<1>1. \A i \in Grid(rows, lanes) : i[1] \in Upto(rows) /\ i[1] \in Nat
  BY GridItems
<1>2. ASSUME NEW i \in Grid(rows, lanes)
      PROVE  A[i] \subseteq TotalsOf(name, b, rows, d)
  <2> SUFFICES ASSUME NEW t \in A[i] PROVE t \in TotalsOf(name, b, rows, d)
    OBVIOUS
  <2>1. t \in Into(<<name, i[1]>>, At(b, i[1] * d, Upto(d)))
    BY DEF Into
  <2> QED
    BY <1>1, <2>1, InTotals
<1>3. ASSUME NEW t \in TotalsOf(name, b, rows, d)
      PROVE  \E i \in Grid(rows, lanes) : t \in A[i]
  <2>0. PICK r \in Upto(rows) : t \in Into(<<name, r>>, At(b, r * d, Upto(d)))
    BY InTotals
  <2>1. PICK c \in At(b, r * d, Upto(d)) : t = <<<<name, r>>, c>>
    BY <2>0 DEF Into
  <2>2. r \in Nat /\ r < rows /\ rows * d \in Nat
    BY ProductNat DEF Upto
  <2>3. CellOf(b, c) /\ c[2] \div d = r /\ c[2] \in Nat
    BY <2>2, InWholeRow DEF CellOf
  <2>4. c[2] < rows * d
    BY <2>2, <2>3, QuotientBelow
  <2>5. c \in At(b, 0, Upto(rows * d))
    BY <2>2, <2>3, <2>4, InArray
  <2>6. PICK i \in Grid(rows, lanes) : c \in W[i]
    BY <2>5 DEF Shares
  <2>7. PICK g \in Nat : g = i[1]
    BY <1>1
  <2>8. c \in At(b, g * d, Upto(d))
    BY <2>6, <2>7
  <2>9. c[2] \div d = g
    BY <2>8, InWholeRow
  <2>10. i[1] = r
    BY <2>3, <2>7, <2>9
  <2> QED
    BY <2>1, <2>6, <2>10 DEF Into
<1>4. ASSUME NEW i \in Grid(rows, lanes), NEW j \in Grid(rows, lanes), NEW t, t \in A[i], t \in A[j]
      PROVE  i = j
  <2>1. PICK c \in W[i] : t = <<<<name, i[1]>>, c>>
    BY <1>4 DEF Into
  <2>2. c \in W[j]
    BY <1>4, <2>1 DEF Into
  <2> QED
    BY <2>1, <2>2 DEF Shares
<1> QED
  BY <1>2, <1>3, <1>4 DEF Shares

LEMMA VecShares ==
    ASSUME NEW n \in Nat, NEW E, E = [lane \in Upto(RowLanes) |-> VecElems(lane, n)]
    PROVE  Shares(E, Upto(n))
<1> DEFINE tail == (n \div RowVec) * RowVec
<1>0. RowLanes \in Nat \ {0} /\ RowVec \in Nat \ {0}
  BY RowAssumption
<1>1. tail \in Nat /\ tail <= n
  BY <1>0, WholeBelow
<1>2. E = [lane \in Upto(RowLanes) |->
             {e \in Upto(tail) : (e \div RowVec) % RowLanes = lane} \cup From(tail + lane, RowLanes, n)]
  BY DEF VecElems
<1> HIDE DEF tail
<1> QED
  BY <1>0, <1>1, <1>2, VectorShares

-----------------------------------------------------------------------------
(* Kernels whose work-groups own a row and whose lanes share it             *)

LEMMA MineSums ==
    ASSUME NEW name, NEW b, NEW E, NEW d \in Nat \ {0}, NEW rows \in Nat, NEW lanes, Laned(E, d, lanes)
    PROVE  /\ Shares(MineTo(name, b, E, d, rows, lanes), TotalsOf(name, b, rows, d))
           /\ DOMAIN MineTo(name, b, E, d, rows, lanes) = Grid(rows, lanes)
<1> DEFINE W == Mine(b, E, d, rows, lanes)
           A == MineTo(name, b, E, d, rows, lanes)
<1>1. /\ DOMAIN W = Grid(rows, lanes) /\ Shares(W, At(b, 0, Upto(rows * d)))
      /\ \A i \in Grid(rows, lanes) : W[i] \subseteq At(b, i[1] * d, Upto(d))
  BY MineShares
<1>2. DOMAIN A = Grid(rows, lanes) /\ \A i \in Grid(rows, lanes) : A[i] = Into(<<name, i[1]>>, W[i])
  BY DEF MineTo
<1> HIDE DEF W, A
<1>3. Shares(A, TotalsOf(name, b, rows, d))
  BY <1>1, <1>2, SumShares
<1> QED
  BY <1>2, <1>3 DEF A

\* Two totals, of one buffer or of two.
LEMMA MineSumsPair ==
    ASSUME NEW m, NEW n, NEW a, NEW b, NEW E, NEW d \in Nat \ {0}, NEW rows \in Nat, NEW lanes, NEW A,
           Laned(E, d, lanes), m # n, DOMAIN A = Grid(rows, lanes),
           \A i \in Grid(rows, lanes) :
              A[i] = MineTo(m, a, E, d, rows, lanes)[i] \cup MineTo(n, b, E, d, rows, lanes)[i]
    PROVE  Shares(A, TotalsOf(m, a, rows, d) \cup TotalsOf(n, b, rows, d))
<1> DEFINE V == MineTo(m, a, E, d, rows, lanes)
           W == MineTo(n, b, E, d, rows, lanes)
           X == TotalsOf(m, a, rows, d)
           Y == TotalsOf(n, b, rows, d)
<1>1. Shares(V, X) /\ DOMAIN V = DOMAIN A
  BY MineSums
<1>2. Shares(W, Y) /\ DOMAIN W = DOMAIN A
  BY MineSums
<1>3. X \cap Y = {}
  <2> SUFFICES ASSUME NEW t \in X, t \in Y PROVE FALSE
    OBVIOUS
  <2>1. t[1][1] = m
    BY TotalName
  <2>2. t[1][1] = n
    BY TotalName
  <2> QED
    BY <2>1, <2>2
<1>4. \A i \in DOMAIN A : A[i] = V[i] \cup W[i]
  OBVIOUS
<1> HIDE DEF V, W, X, Y
<1>5. Shares(A, X \cup Y)
  BY <1>1, <1>2, <1>3, <1>4, SharesTwo
<1> QED
  BY <1>5 DEF X, Y

LEMMA MineSumsTwo ==
    ASSUME NEW m, NEW n, NEW b, NEW E, NEW d \in Nat \ {0}, NEW rows \in Nat, NEW lanes, NEW A,
           Laned(E, d, lanes), m # n, DOMAIN A = Grid(rows, lanes),
           \A i \in Grid(rows, lanes) :
              A[i] = MineTo(m, b, E, d, rows, lanes)[i] \cup MineTo(n, b, E, d, rows, lanes)[i]
    PROVE  Shares(A, Totals({m, n}, b, rows, d))
<1>1. Shares(A, TotalsOf(m, b, rows, d) \cup TotalsOf(n, b, rows, d))
  BY MineSumsPair
<1> QED
  BY <1>1, TotalsTwo

LEMMA VecLaned == ASSUME NEW n \in Nat, NEW E, E = [lane \in Upto(RowLanes) |-> VecElems(lane, n)]
                  PROVE  Laned(E, n, RowLanes)
  BY VecShares DEF Laned

LEMMA ElemsLaned == ASSUME NEW n \in Nat, NEW E, E = [lane \in Upto(RowLanes) |-> Elems(lane, n)]
                    PROVE  Laned(E, n, RowLanes)
<1>1. E = [lane \in Upto(RowLanes) |-> Stride(lane, RowLanes, n)]
  BY DEF Elems
<1> QED
  BY <1>1, StrideShares, RowAssumption DEF Laned

\* Softmax in place: each lane reads, in both reductions, and writes the
\* elements that are its own, and both totals get every element once.
THEOREM SoftmaxRight ==
    ASSUME NEW rows \in Nat, NEW dim \in Nat \ {0}
    PROVE  KernelRight(Softmax(rows, dim))
<1> DEFINE G == Grid(rows, RowLanes)
           E == [lane \in Upto(RowLanes) |-> VecElems(lane, dim)]
           W == Mine("x", E, dim, rows, RowLanes)
           B == MineTo("max", "x", E, dim, rows, RowLanes)
           C == MineTo("sum", "x", E, dim, rows, RowLanes)
           A == [i \in G |-> B[i] \cup C[i]]
           d == [i \in G |-> Reduces("x", "max", i, dim, VecElems(i[2], dim))]
           e == [i \in G |-> Reduces("x", "sum", i, dim, VecElems(i[2], dim))]
           f == [i \in G |-> Does(At("x", i[1] * dim, VecElems(i[2], dim)),
                                  At("x", i[1] * dim, VecElems(i[2], dim)), {})]
           out == At("x", 0, Upto(rows * dim))
           sums == Totals({"max", "sum"}, "x", rows, dim)
           k == Softmax(rows, dim)
<1>1. k = Kernel(<<d, e, f>>, out, sums)
  BY DEF Softmax
<1>2. Laned(E, dim, RowLanes)
  BY VecLaned
<1>3. \A i \in G : E[i[2]] = VecElems(i[2], dim)
  BY GridItems
<1> HIDE DEF E
<1>4. \A i \in G : /\ W[i] = At("x", i[1] * dim, VecElems(i[2], dim))
                   /\ B[i] = Into(<<"max", i[1]>>, W[i]) /\ C[i] = Into(<<"sum", i[1]>>, W[i])
  BY <1>3 DEF Mine, MineTo
<1>5. \A i \in G : /\ d[i].rd = W[i] /\ d[i].wr = {} /\ d[i].add = B[i]
                   /\ e[i].rd = W[i] /\ e[i].wr = {} /\ e[i].add = C[i]
                   /\ f[i].rd = W[i] /\ f[i].wr = W[i] /\ f[i].add = {}
  BY <1>4 DEF Reduces, Does
<1>6. DOMAIN d = G /\ DOMAIN A = G /\ \A i \in G : A[i] = B[i] \cup C[i]
  OBVIOUS
<1>7. DOMAIN W = G /\ Shares(W, out)
  <2>1. Shares(W, out)
    BY <1>2, MineShares
  <2> QED
    BY <2>1 DEF Mine
<1> HIDE DEF A
<1>8. Shares(A, sums)
  BY <1>2, <1>6, MineSumsTwo
<1> HIDE DEF d, e, f, k, B, C, out, sums
<1>9. /\ Items(k) = DOMAIN d /\ k.out = out /\ k.sums = sums
      /\ \A i : /\ Wrote(k, i) = d[i].wr \cup e[i].wr \cup f[i].wr
                /\ Touched(k, i) = d[i].wr \cup e[i].wr \cup f[i].wr
                                     \cup d[i].rd \cup e[i].rd \cup f[i].rd
                /\ Added(k, i) = d[i].add \cup e[i].add \cup f[i].add
  BY <1>1, ThreePhases
<1>10. ASSUME NEW i \in G
       PROVE  Wrote(k, i) = W[i] /\ Touched(k, i) = W[i] /\ Added(k, i) = A[i]
  <2>1. /\ d[i].rd = W[i] /\ d[i].wr = {} /\ d[i].add = B[i]
        /\ e[i].rd = W[i] /\ e[i].wr = {} /\ e[i].add = C[i]
        /\ f[i].rd = W[i] /\ f[i].wr = W[i] /\ f[i].add = {}
        /\ A[i] = B[i] \cup C[i]
    BY <1>5, <1>6
  <2>2. /\ Wrote(k, i) = d[i].wr \cup e[i].wr \cup f[i].wr
        /\ Touched(k, i) = d[i].wr \cup e[i].wr \cup f[i].wr
                             \cup d[i].rd \cup e[i].rd \cup f[i].rd
        /\ Added(k, i) = d[i].add \cup e[i].add \cup f[i].add
    BY <1>9
  <2> QED
    BY <2>1, <2>2
<1>11. Keeps(k, E, dim, rows, RowLanes)
  BY <1>10 DEF Keeps
<1> HIDE DEF W
<1>12. KernelRight(k)
  BY <1>2, <1>6, <1>7, <1>8, <1>9, <1>10, <1>11, RowsRight
<1> QED
  BY <1>12 DEF k

\* RMSNorm in place.
THEOREM RmsNormRight ==
    ASSUME NEW rows \in Nat, NEW dim \in Nat \ {0}
    PROVE  KernelRight(RmsNorm(rows, dim))
<1> DEFINE G == Grid(rows, RowLanes)
           E == [lane \in Upto(RowLanes) |-> VecElems(lane, dim)]
           W == Mine("x", E, dim, rows, RowLanes)
           A == MineTo("sumsq", "x", E, dim, rows, RowLanes)
           d == [i \in G |-> Reduces("x", "sumsq", i, dim, VecElems(i[2], dim))]
           e == [i \in G |-> Does(At("x", i[1] * dim, VecElems(i[2], dim)),
                                  At("x", i[1] * dim, VecElems(i[2], dim)), {})]
           out == At("x", 0, Upto(rows * dim))
           sums == Totals({"sumsq"}, "x", rows, dim)
           k == RmsNorm(rows, dim)
<1>1. k = Kernel(<<d, e>>, out, sums)
  BY DEF RmsNorm
<1>2. Laned(E, dim, RowLanes)
  BY VecLaned
<1>3. \A i \in G : E[i[2]] = VecElems(i[2], dim)
  BY GridItems
<1> HIDE DEF E
<1>4. \A i \in G : /\ W[i] = At("x", i[1] * dim, VecElems(i[2], dim))
                   /\ A[i] = Into(<<"sumsq", i[1]>>, W[i])
  BY <1>3 DEF Mine, MineTo
<1>5. ASSUME NEW i \in G
      PROVE  d[i].wr \cup e[i].wr = W[i] /\ d[i].rd \cup e[i].rd = W[i] /\ d[i].add \cup e[i].add = A[i]
  BY <1>4 DEF Reduces, Does
<1>6. DOMAIN d = G /\ DOMAIN W = G
  BY MineDomain
<1>7. Shares(W, out) /\ Own(W, E, dim, rows, RowLanes)
  BY <1>2, MineShares, MineOwn
<1>8. Shares(A, sums) /\ DOMAIN A = G
  BY <1>2, MineSums DEF TotalsOf
<1> HIDE DEF d, e, k, W, A, out, sums
<1>9. KernelRight(k)
  BY <1>1, <1>2, <1>5, <1>6, <1>7, <1>8, RowsTwoPhases
<1> QED
  BY <1>9 DEF k

\* LayerNorm in place: one pass adds to both totals.
THEOREM LayerNormRight ==
    ASSUME NEW rows \in Nat, NEW dim \in Nat \ {0}
    PROVE  KernelRight(LayerNorm(rows, dim))
<1> DEFINE G == Grid(rows, RowLanes)
           E == [lane \in Upto(RowLanes) |-> VecElems(lane, dim)]
           row(i) == At("x", i[1] * dim, VecElems(i[2], dim))
           W == Mine("x", E, dim, rows, RowLanes)
           B == MineTo("sum", "x", E, dim, rows, RowLanes)
           C == MineTo("sumsq", "x", E, dim, rows, RowLanes)
           A == [i \in G |-> B[i] \cup C[i]]
           d == [i \in G |-> Does(row(i), {}, Into(<<"sum", i[1]>>, row(i)) \cup Into(<<"sumsq", i[1]>>, row(i)))]
           e == [i \in G |-> Does(row(i), row(i), {})]
           out == At("x", 0, Upto(rows * dim))
           sums == Totals({"sum", "sumsq"}, "x", rows, dim)
           k == LayerNorm(rows, dim)
<1>1. k = Kernel(<<d, e>>, out, sums)
  BY DEF LayerNorm
<1>2. Laned(E, dim, RowLanes)
  BY VecLaned
<1>3. \A i \in G : E[i[2]] = VecElems(i[2], dim)
  BY GridItems
<1> HIDE DEF E
<1>4. \A i \in G : /\ W[i] = row(i) /\ A[i] = B[i] \cup C[i]
                   /\ B[i] = Into(<<"sum", i[1]>>, W[i]) /\ C[i] = Into(<<"sumsq", i[1]>>, W[i])
  BY <1>3 DEF Mine, MineTo
<1>5. ASSUME NEW i \in G
      PROVE  d[i].wr \cup e[i].wr = W[i] /\ d[i].rd \cup e[i].rd = W[i] /\ d[i].add \cup e[i].add = A[i]
  BY <1>4 DEF Does
<1>6. DOMAIN d = G /\ DOMAIN W = G /\ DOMAIN A = G
  BY MineDomain
<1>7. Shares(W, out) /\ Own(W, E, dim, rows, RowLanes)
  BY <1>2, MineShares, MineOwn
<1> HIDE DEF A
<1>8. Shares(A, sums)
  BY <1>2, <1>4, <1>6, MineSumsTwo
<1> HIDE DEF d, e, k, W, out, sums
<1>9. KernelRight(k)
  BY <1>1, <1>2, <1>5, <1>6, <1>7, <1>8, RowsTwoPhases
<1> QED
  BY <1>9 DEF k

\* fused_add_rms_norm: the second pass rounds x + residual again, reading both
\* after the first pass and before it writes the residual; every element is read
\* by the lane that overwrites it.
THEOREM FusedAddRmsNormRight ==
    ASSUME NEW rows \in Nat, NEW dim \in Nat \ {0}
    PROVE  KernelRight(FusedAddRmsNorm(rows, dim))
<1> DEFINE G == Grid(rows, RowLanes)
           E == [lane \in Upto(RowLanes) |-> Elems(lane, dim)]
           c(i, b) == At(b, i[1] * dim, Elems(i[2], dim))
           X == Mine("x", E, dim, rows, RowLanes)
           V == Mine("residual", E, dim, rows, RowLanes)
           O == Mine("out", E, dim, rows, RowLanes)
           W == [i \in G |-> V[i] \cup O[i]]
           R == [i \in G |-> X[i] \cup V[i]]
           A == MineTo("sumsq", "residual", E, dim, rows, RowLanes)
           d == [i \in G |-> Does(c(i, "x") \cup c(i, "residual"), {}, Into(<<"sumsq", i[1]>>, c(i, "residual")))]
           e == [i \in G |-> Does(c(i, "x") \cup c(i, "residual"), c(i, "residual") \cup c(i, "out"), {})]
           out == At("residual", 0, Upto(rows * dim)) \cup At("out", 0, Upto(rows * dim))
           sums == Totals({"sumsq"}, "residual", rows, dim)
           k == FusedAddRmsNorm(rows, dim)
<1>1. k = Kernel(<<d, e>>, out, sums)
  BY DEF FusedAddRmsNorm
<1>2. Laned(E, dim, RowLanes)
  BY ElemsLaned
<1>3. \A i \in G : E[i[2]] = Elems(i[2], dim)
  BY GridItems
<1> HIDE DEF E
<1>4. \A i \in G : /\ X[i] = c(i, "x") /\ V[i] = c(i, "residual") /\ O[i] = c(i, "out")
                   /\ A[i] = Into(<<"sumsq", i[1]>>, V[i])
  BY <1>3 DEF Mine, MineTo
<1>5. ASSUME NEW i \in G
      PROVE  d[i].wr \cup e[i].wr = W[i] /\ d[i].rd \cup e[i].rd = R[i] /\ d[i].add \cup e[i].add = A[i]
  BY <1>4 DEF Does
<1>6. /\ DOMAIN d = G /\ DOMAIN W = G
      /\ \A i \in G : W[i] = V[i] \cup O[i] /\ R[i] = X[i] \cup V[i]
  OBVIOUS
<1>7. Shares(A, sums) /\ DOMAIN A = G
  BY <1>2, MineSums DEF TotalsOf
<1>8. /\ Own(X, E, dim, rows, RowLanes) /\ Own(V, E, dim, rows, RowLanes)
      /\ Own(O, E, dim, rows, RowLanes)
  BY MineOwn
<1> HIDE DEF W, R
<1>9. Shares(W, out)
  BY <1>2, <1>6, MineSharesTwo
<1> HIDE DEF X, V, O
<1>10. Own(W, E, dim, rows, RowLanes)
  BY <1>6, <1>8, OwnTwo
<1>11. Own(R, E, dim, rows, RowLanes)
  BY <1>6, <1>8, OwnTwo
<1> HIDE DEF d, e, k, A, out, sums
<1>12. KernelRight(k)
  BY <1>1, <1>2, <1>5, <1>6, <1>7, <1>9, <1>10, <1>11, RowsTwoPhases
<1> QED
  BY <1>12 DEF k

\* rms_residual_next: the residual is written in one phase and read in the next.
THEOREM RmsResidualNextRight ==
    ASSUME NEW rows \in Nat, NEW dim \in Nat \ {0}
    PROVE  KernelRight(RmsResidualNext(rows, dim))
<1> DEFINE G == Grid(rows, RowLanes)
           E == [lane \in Upto(RowLanes) |-> Elems(lane, dim)]
           c(i, b) == At(b, i[1] * dim, Elems(i[2], dim))
           P == Mine("proj", E, dim, rows, RowLanes)
           V == Mine("residual", E, dim, rows, RowLanes)
           O == Mine("out", E, dim, rows, RowLanes)
           W == [i \in G |-> V[i] \cup O[i]]
           R == [i \in G |-> P[i] \cup V[i]]
           B == MineTo("proj_ss", "proj", E, dim, rows, RowLanes)
           C == MineTo("res_ss", "residual", E, dim, rows, RowLanes)
           A == [i \in G |-> B[i] \cup C[i]]
           d == [i \in G |-> Reduces("proj", "proj_ss", i, dim, Elems(i[2], dim))]
           e == [i \in G |-> Does(c(i, "residual") \cup c(i, "proj"), c(i, "residual"),
                                  Into(<<"res_ss", i[1]>>, c(i, "residual")))]
           f == [i \in G |-> Does(c(i, "residual"), c(i, "out"), {})]
           out == At("residual", 0, Upto(rows * dim)) \cup At("out", 0, Upto(rows * dim))
           sums == TotalsOf("proj_ss", "proj", rows, dim) \cup TotalsOf("res_ss", "residual", rows, dim)
           k == RmsResidualNext(rows, dim)
<1>1. k = Kernel(<<d, e, f>>, out, sums)
  BY DEF RmsResidualNext, TotalsOf
<1>2. Laned(E, dim, RowLanes)
  BY ElemsLaned
<1>3. \A i \in G : E[i[2]] = Elems(i[2], dim)
  BY GridItems
<1> HIDE DEF E
<1>4. \A i \in G : /\ P[i] = c(i, "proj") /\ V[i] = c(i, "residual") /\ O[i] = c(i, "out")
                   /\ B[i] = Into(<<"proj_ss", i[1]>>, P[i]) /\ C[i] = Into(<<"res_ss", i[1]>>, V[i])
  BY <1>3 DEF Mine, MineTo
<1>5. ASSUME NEW i \in G
      PROVE  /\ d[i].wr \cup e[i].wr \cup f[i].wr = W[i]
             /\ d[i].rd \cup e[i].rd \cup f[i].rd = R[i]
             /\ d[i].add \cup e[i].add \cup f[i].add = A[i]
  BY <1>4 DEF Does, Reduces
<1>6. /\ DOMAIN d = G /\ DOMAIN W = G /\ DOMAIN A = G
      /\ \A i \in G : W[i] = V[i] \cup O[i] /\ R[i] = P[i] \cup V[i] /\ A[i] = B[i] \cup C[i]
  OBVIOUS
<1>7. /\ Own(P, E, dim, rows, RowLanes) /\ Own(V, E, dim, rows, RowLanes)
      /\ Own(O, E, dim, rows, RowLanes)
  BY MineOwn
<1> HIDE DEF W, R, A
<1>8. Shares(A, sums)
  BY <1>2, <1>6, MineSumsPair
<1>9. Shares(W, out)
  BY <1>2, <1>6, MineSharesTwo
<1> HIDE DEF P, V, O, B, C
<1>10. Own(W, E, dim, rows, RowLanes)
  BY <1>6, <1>7, OwnTwo
<1>11. Own(R, E, dim, rows, RowLanes)
  BY <1>6, <1>7, OwnTwo
<1> HIDE DEF d, e, f, k, out, sums
<1>12. KernelRight(k)
  BY <1>1, <1>2, <1>5, <1>6, <1>8, <1>9, <1>10, <1>11, RowsThreePhases
<1> QED
  BY <1>12 DEF k

\* One value per row, written by the row's first lane.
LEMMA FirstShares ==
    ASSUME NEW b, NEW rows \in Nat, NEW lanes \in Nat \ {0}, NEW F,
           F = [i \in Grid(rows, lanes) |-> ByFirst(i, b)]
    PROVE  Shares(F, At(b, 0, Upto(rows)))
<1>1. ASSUME NEW i \in Grid(rows, lanes), NEW c
      PROVE  c \in F[i] <=> i[2] = 0 /\ c = <<b, i[1]>>
  BY DEF ByFirst
<1>2. ASSUME NEW i \in Grid(rows, lanes)
      PROVE  F[i] \subseteq At(b, 0, Upto(rows))
  <2> SUFFICES ASSUME NEW c \in F[i] PROVE c \in At(b, 0, Upto(rows))
    OBVIOUS
  <2>1. c = <<b, i[1]>> /\ i[1] \in Nat /\ i[1] < rows
    BY <1>1, GridItems DEF Upto
  <2>2. CellOf(b, c) /\ c[2] < rows
    BY <2>1 DEF CellOf
  <2> QED
    BY <2>2, InArray
<1>3. ASSUME NEW c \in At(b, 0, Upto(rows))
      PROVE  \E i \in Grid(rows, lanes) : c \in F[i]
  <2>1. CellOf(b, c) /\ c[2] < rows /\ c[2] \in Nat
    BY InArray DEF CellOf
  <2>2. <<c[2], 0>> \in Grid(rows, lanes)
    BY <2>1 DEF Grid, Upto
  <2>3. c \in F[<<c[2], 0>>]
    BY <1>1, <2>1, <2>2 DEF CellOf
  <2> QED
    BY <2>2, <2>3
<1>4. ASSUME NEW i \in Grid(rows, lanes), NEW j \in Grid(rows, lanes), NEW c, c \in F[i], c \in F[j]
      PROVE  i = j
  <2>1. i = <<i[1], i[2]>> /\ j = <<j[1], j[2]>>
    BY GridItems
  <2>2. i[2] = 0 /\ j[2] = 0 /\ <<b, i[1]>> = <<b, j[1]>>
    BY <1>1, <1>4
  <2> QED
    BY <2>1, <2>2
<1> QED
  BY <1>2, <1>3, <1>4 DEF Shares

LEMMA FirstCell ==
    ASSUME NEW b, NEW i, NEW c \in ByFirst(i, b)
    PROVE  IsGlobal(c) /\ c[1] = b
  BY GlobalCell DEF ByFirst

\* act_quant_int8: codes by the lanes, the scale by the first.
THEOREM ActQuantInt8Right ==
    ASSUME NEW rows \in Nat, NEW dim \in Nat \ {0}
    PROVE  KernelRight(ActQuantInt8(rows, dim))
<1> DEFINE G == Grid(rows, RowLanes)
           E == [lane \in Upto(RowLanes) |-> Elems(lane, dim)]
           c(i, b) == At(b, i[1] * dim, Elems(i[2], dim))
           X == Mine("x", E, dim, rows, RowLanes)
           Q == Mine("q", E, dim, rows, RowLanes)
           F == [i \in G |-> ByFirst(i, "scale")]
           W == [i \in G |-> Q[i] \cup F[i]]
           T == [i \in G |-> X[i] \cup W[i]]
           A == MineTo("absmax", "x", E, dim, rows, RowLanes)
           d == [i \in G |-> Reduces("x", "absmax", i, dim, Elems(i[2], dim))]
           e == [i \in G |-> Does(c(i, "x"), c(i, "q") \cup ByFirst(i, "scale"), {})]
           codes == At("q", 0, Upto(rows * dim))
           scales == At("scale", 0, Upto(rows))
           out == codes \cup scales
           sums == Totals({"absmax"}, "x", rows, dim)
           k == ActQuantInt8(rows, dim)
<1>1. k = Kernel(<<d, e>>, out, sums)
  BY DEF ActQuantInt8
<1>2. Laned(E, dim, RowLanes)
  BY ElemsLaned
<1>3. \A i \in G : E[i[2]] = Elems(i[2], dim)
  BY GridItems
<1> HIDE DEF E
<1>4. \A i \in G : X[i] = c(i, "x") /\ Q[i] = c(i, "q") /\ A[i] = Into(<<"absmax", i[1]>>, X[i])
  BY <1>3 DEF Mine, MineTo
<1>5. ASSUME NEW i \in G
      PROVE  /\ d[i].rd = X[i] /\ d[i].wr = {} /\ d[i].add = A[i]
             /\ e[i].rd = X[i] /\ e[i].wr = W[i] /\ e[i].add = {}
  BY <1>4 DEF Does, Reduces
<1>6. /\ DOMAIN d = G /\ DOMAIN W = G /\ DOMAIN F = G
      /\ \A i \in G : F[i] = ByFirst(i, "scale") /\ W[i] = Q[i] \cup F[i] /\ T[i] = X[i] \cup W[i]
  OBVIOUS
<1>7. Shares(A, sums) /\ DOMAIN A = G
  BY <1>2, MineSums DEF TotalsOf
<1>8. Shares(Q, codes)
  BY <1>2, MineShares
<1>9. DOMAIN Q = G
  BY MineDomain
<1>10. Shares(F, scales)
  BY FirstShares, RowAssumption
<1>11. \A i \in G : /\ \A z \in X[i] : IsGlobal(z) /\ z[1] = "x"
                    /\ \A z \in Q[i] : IsGlobal(z) /\ z[1] = "q"
                    /\ \A z \in F[i] : IsGlobal(z) /\ z[1] = "scale"
  BY <1>6, MineGlobal, FirstCell
<1>12. codes \cap scales = {}
  BY CellOfBuffer
<1> HIDE DEF X, Q, F, W, T, A, codes, scales
<1>13. Shares(W, out)
  BY <1>6, <1>8, <1>9, <1>10, <1>12, SharesTwo
<1>14. ASSUME NEW i \in G, NEW j \in G, NEW z, z \in W[i], z \in T[j]
       PROVE  i = j
  <2>1. CASE z \in Q[i]
    <3>1. z \in Q[j]
      BY <1>6, <1>11, <1>14, <2>1
    <3> QED
      BY <1>8, <1>9, <2>1, <3>1 DEF Shares
  <2>2. CASE z \in F[i]
    <3>1. z \in F[j]
      BY <1>6, <1>11, <1>14, <2>2
    <3> QED
      BY <1>6, <1>10, <2>2, <3>1 DEF Shares
  <2> QED
    BY <1>6, <1>14, <2>1, <2>2
<1>15. \A i \in G : \A z \in T[i] : IsGlobal(z)
  BY <1>6, <1>11
<1> HIDE DEF d, e, k, out, sums
<1>16. /\ Items(k) = DOMAIN d /\ k.out = out /\ k.sums = sums
       /\ \A i : /\ Wrote(k, i) = d[i].wr \cup e[i].wr
                 /\ Touched(k, i) = d[i].wr \cup e[i].wr \cup d[i].rd \cup e[i].rd
                 /\ Added(k, i) = d[i].add \cup e[i].add
  BY <1>1, TwoPhases
<1>17. ASSUME NEW i \in G
       PROVE  Wrote(k, i) = W[i] /\ Touched(k, i) \subseteq T[i] /\ Added(k, i) = A[i]
  <2>1. /\ Wrote(k, i) = d[i].wr \cup e[i].wr
        /\ Touched(k, i) = d[i].wr \cup e[i].wr \cup d[i].rd \cup e[i].rd
        /\ Added(k, i) = d[i].add \cup e[i].add
    BY <1>16
  <2> QED
    BY <1>5, <1>6, <2>1
<1>18. /\ Items(k) = G /\ DOMAIN W = G /\ DOMAIN A = G
       /\ Shares(W, k.out) /\ Shares(A, k.sums)
  BY <1>6, <1>7, <1>13, <1>16
<1>19. OwnedApart(k, W, T, A)
  BY <1>14, <1>15, <1>17, <1>18 DEF OwnedApart
<1>20. KernelRight(k)
  BY <1>19, OwnersRight
<1> QED
  BY <1>20 DEF k

\* cross_entropy: both totals get every logit once; the first lane of a row,
\* which reads the target's logit, writes its loss.
THEOREM CrossEntropyRight ==
    ASSUME NEW rows \in Nat, NEW vocab \in Nat \ {0}, NEW target \in Upto(vocab)
    PROVE  KernelRight(CrossEntropy(rows, vocab, target))
<1> DEFINE G == Grid(rows, RowLanes)
           E == [lane \in Upto(RowLanes) |-> Elems(lane, vocab)]
           picks(i) == IF i[2] = 0 THEN {<<"logits", i[1] * vocab + target>>} ELSE {}
           X == Mine("logits", E, vocab, rows, RowLanes)
           W == [i \in G |-> ByFirst(i, "loss")]
           T == [i \in G |-> X[i] \cup picks(i) \cup W[i]]
           B == MineTo("max", "logits", E, vocab, rows, RowLanes)
           C == MineTo("sum", "logits", E, vocab, rows, RowLanes)
           A == [i \in G |-> B[i] \cup C[i]]
           d == [i \in G |-> Reduces("logits", "max", i, vocab, Elems(i[2], vocab))]
           e == [i \in G |-> Reduces("logits", "sum", i, vocab, Elems(i[2], vocab))]
           f == [i \in G |-> Does(picks(i), ByFirst(i, "loss"), {})]
           out == At("loss", 0, Upto(rows))
           sums == Totals({"max", "sum"}, "logits", rows, vocab)
           k == CrossEntropy(rows, vocab, target)
<1>1. k = Kernel(<<d, e, f>>, out, sums)
  BY DEF CrossEntropy
<1>2. Laned(E, vocab, RowLanes)
  BY ElemsLaned
<1>3. \A i \in G : E[i[2]] = Elems(i[2], vocab)
  BY GridItems
<1> HIDE DEF E
<1>4. \A i \in G : /\ X[i] = At("logits", i[1] * vocab, Elems(i[2], vocab))
                   /\ B[i] = Into(<<"max", i[1]>>, X[i]) /\ C[i] = Into(<<"sum", i[1]>>, X[i])
  BY <1>3 DEF Mine, MineTo
<1>5. ASSUME NEW i \in G
      PROVE  /\ d[i].rd = X[i] /\ d[i].wr = {} /\ d[i].add = B[i]
             /\ e[i].rd = X[i] /\ e[i].wr = {} /\ e[i].add = C[i]
             /\ f[i].rd = picks(i) /\ f[i].wr = W[i] /\ f[i].add = {}
  BY <1>4 DEF Does, Reduces
<1>6. /\ DOMAIN d = G /\ DOMAIN W = G /\ DOMAIN A = G
      /\ \A i \in G : /\ W[i] = ByFirst(i, "loss") /\ A[i] = B[i] \cup C[i]
                      /\ T[i] = X[i] \cup picks(i) \cup W[i]
  OBVIOUS
<1>7. \A i \in G : \A z \in picks(i) : IsGlobal(z) /\ z[1] = "logits"
  BY GlobalCell
<1> HIDE DEF A, picks
<1>8. Shares(A, sums)
  BY <1>2, <1>6, MineSumsTwo
<1>9. Shares(W, out)
  BY FirstShares, RowAssumption
<1>10. \A i \in G : /\ \A z \in X[i] : IsGlobal(z) /\ z[1] = "logits"
                    /\ \A z \in W[i] : IsGlobal(z) /\ z[1] = "loss"
  BY <1>6, MineGlobal, FirstCell
<1> HIDE DEF X, W, T, B, C, out, sums
<1>11. ASSUME NEW i \in G, NEW j \in G, NEW z, z \in W[i], z \in T[j]
       PROVE  i = j
  <2>1. z \in W[j]
    BY <1>6, <1>7, <1>10, <1>11
  <2> QED
    BY <1>6, <1>9, <1>11, <2>1 DEF Shares
<1>12. \A i \in G : \A z \in T[i] : IsGlobal(z)
  BY <1>6, <1>7, <1>10
<1> HIDE DEF d, e, f, k
<1>13. /\ Items(k) = DOMAIN d /\ k.out = out /\ k.sums = sums
       /\ \A i : /\ Wrote(k, i) = d[i].wr \cup e[i].wr \cup f[i].wr
                 /\ Touched(k, i) = d[i].wr \cup e[i].wr \cup f[i].wr
                                      \cup d[i].rd \cup e[i].rd \cup f[i].rd
                 /\ Added(k, i) = d[i].add \cup e[i].add \cup f[i].add
  BY <1>1, ThreePhases
<1>14. ASSUME NEW i \in G
       PROVE  Wrote(k, i) = W[i] /\ Touched(k, i) \subseteq T[i] /\ Added(k, i) = A[i]
  <2>1. /\ Wrote(k, i) = d[i].wr \cup e[i].wr \cup f[i].wr
        /\ Touched(k, i) = d[i].wr \cup e[i].wr \cup f[i].wr
                             \cup d[i].rd \cup e[i].rd \cup f[i].rd
        /\ Added(k, i) = d[i].add \cup e[i].add \cup f[i].add
    BY <1>13
  <2> QED
    BY <1>5, <1>6, <2>1
<1>15. OwnedApart(k, W, T, A)
  BY <1>6, <1>8, <1>9, <1>11, <1>12, <1>13, <1>14 DEF OwnedApart
<1>16. KernelRight(k)
  BY <1>15, OwnersRight
<1> QED
  BY <1>16 DEF k

(* Kernels of one phase, whose items work on their own                      *)

\* Whole vectors and the tail share the array.
LEMMA VecItems ==
    ASSUME NEW n \in Nat, NEW N, NEW v \in Upto(N), NEW x,
           N = Whole(n) + (IF Whole(n) * VecW < n THEN 1 ELSE 0)
    PROVE  x \in VecOrTail(v, n) <=>
             x \in Nat /\ x < n /\ v = (IF x \div VecW < Whole(n) THEN x \div VecW ELSE Whole(n))
<1>0. VecW \in Nat \ {0}
  BY VecAssumption
<1> DEFINE w == Whole(n)
<1>1. w \in Nat /\ w * VecW \in Nat /\ w * VecW <= n
  BY <1>0, WholeBelow, DivisionOf DEF Whole
<1>2. v \in Nat /\ v <= w
  BY <1>1 DEF Upto
<1> HIDE DEF w
<1>3. CASE v < w
  <2>1. VecOrTail(v, n) = (v * VecW)..(v * VecW + VecW - 1)
    BY <1>3 DEF VecOrTail, w
  <2>2. v * VecW \in Nat
    BY <1>0, <1>2, ProductNat
  <2>3. ASSUME x \in VecOrTail(v, n)
        PROVE  x \in Nat /\ x < n /\ x \div VecW = v
    <3>1. x \in Nat /\ x - v * VecW \in Upto(VecW)
      BY <1>0, <2>1, <2>2, <2>3 DEF Upto
    <3>2. PICK r \in Upto(VecW) : r = x - v * VecW
      BY <3>1
    <3>3. x = v * VecW + r
      BY <2>2, <3>1, <3>2
    <3>4. x \div VecW = v
      BY <1>0, <1>2, <3>3, DivisionUnique
    <3>5. x < w * VecW
      BY <1>0, <1>1, <1>3, <3>1, <3>4, QuotientBelow
    <3> QED
      BY <1>1, <3>1, <3>4, <3>5
  <2>4. ASSUME x \in Nat, x \div VecW = v
        PROVE  x \in VecOrTail(v, n)
    <3>0. PICK y \in Nat : y = x /\ y \div VecW = v
      BY <2>4
    <3>1. y = (y \div VecW) * VecW + (y % VecW) /\ y % VecW \in Upto(VecW)
      BY <1>0, DivisionOf
    <3>2. PICK m \in Upto(VecW) : m = y % VecW
      BY <3>1
    <3>4. y = v * VecW + m
      BY <3>0, <3>1, <3>2
    <3>3. x = v * VecW + m /\ m \in Nat /\ m < VecW
      BY <1>0, <3>0, <3>2, <3>4 DEF Upto
    <3> QED
      BY <1>0, <2>1, <2>2, <2>4, <3>3
  <2> QED
    BY <1>2, <1>3, <2>3, <2>4, <1>1 DEF w
<1>4. CASE v = w
  <2>1. VecOrTail(v, n) = (w * VecW)..(n - 1)
    BY <1>1, <1>4 DEF VecOrTail, w
  <2>2. x \in Nat => (x \div VecW < w <=> x < w * VecW) /\ x \div VecW \in Nat
    BY <1>0, <1>1, QuotientBelow, DivisionOf
  <2> QED
    BY <1>1, <1>4, <2>1, <2>2 DEF w
<1> QED
  BY <1>1, <1>2, <1>3, <1>4

\* The elementwise maps, in place over whole vectors and the tail.
THEOREM VecMapRight ==
    ASSUME NEW others, NEW n \in Nat
    PROVE  KernelRight(VecMap(others, n))
<1> DEFINE N == Whole(n) + (IF Whole(n) * VecW < n THEN 1 ELSE 0)
           part(b, i) == At(b, 0, VecOrTail(i[1], n))
           reads(i) == UNION {part(b, i) : b \in others \cup {"x"}}
           d == [i \in Flat(N) |-> Does(reads(i), part("x", i), {})]
           W == [i \in Flat(N) |-> part("x", i)]
           out == At("x", 0, Upto(n))
           k == VecMap(others, n)
           own(x) == IF x \div VecW < Whole(n) THEN x \div VecW ELSE Whole(n)
<1>0. VecW \in Nat \ {0} /\ N \in Nat
      /\ Whole(n) \in Nat /\ Whole(n) * VecW <= n /\ Whole(n) * VecW \in Nat
  <2>1. VecW \in Nat \ {0}
    BY VecAssumption
  <2>2. Whole(n) \in Nat /\ Whole(n) * VecW <= n /\ Whole(n) * VecW \in Nat
    BY <2>1, WholeBelow, DivisionOf DEF Whole
  <2> QED
    BY <2>1, <2>2
<1>1. k = Kernel(<<d>>, out, {})
  BY DEF VecMap
<1>2. /\ DOMAIN d = Flat(N) /\ DOMAIN W = Flat(N)
      /\ \A i \in Flat(N) : d[i].wr = W[i] /\ d[i].rd = reads(i) /\ d[i].add = {}
  BY DEF Does
<1>3. ASSUME NEW i \in Flat(N), NEW b, NEW c
      PROVE  c \in part(b, i) <=> CellOf(b, c) /\ c[2] < n /\ i[1] = own(c[2])
  <2>1. i[1] \in Upto(N)
    BY FlatItems
  <2>2. PICK v \in Upto(N) : v = i[1]
    BY <2>1
  <2>3. \A x : x \in VecOrTail(v, n) <=> x \in Nat /\ x < n /\ v = own(x)
    BY VecItems
  <2>4. \A x : <<b, x>>[2] = x
    OBVIOUS
  <2>5. \A x \in Nat : 0 + x = x
    OBVIOUS
  <2> HIDE DEF own, N
  <2> QED
    BY <2>2, <2>3, <2>4, <2>5 DEF At, CellOf
<1>4. \A i \in Flat(N) : \A c \in reads(i) \cup W[i] : IsGlobal(c)
  BY CellOfBuffer
<1>5. ASSUME NEW i \in Flat(N), NEW j \in Flat(N), NEW c, c \in W[i], c \in d[j].rd
      PROVE  i = j
  <2>0. c \in reads(j)
    BY <1>2, <1>5
  <2>1. PICK b \in others \cup {"x"} : c \in part(b, j)
    BY <2>0
  <2>2. c \in part("x", i)
    BY <1>5
  <2>3. i[1] = own(c[2]) /\ j[1] = own(c[2])
    BY <1>3, <2>1, <2>2
  <2>4. i = <<i[1], 0>> /\ j = <<j[1], 0>>
    BY FlatItems
  <2> QED
    BY <2>3, <2>4
<1>6. Shares(W, out)
  <2>1. ASSUME NEW i \in Flat(N)
        PROVE  W[i] \subseteq out
    <3> SUFFICES ASSUME NEW c \in W[i] PROVE c \in out
      OBVIOUS
    <3>1. CellOf("x", c) /\ c[2] < n
      BY <1>3
    <3> QED
      BY <3>1, InArray
  <2>2. ASSUME NEW c \in out
        PROVE  \E i \in Flat(N) : c \in W[i]
    <3>1. CellOf("x", c) /\ c[2] < n
      BY InArray
    <3>2. PICK x \in Nat : x = c[2]
      BY <3>1 DEF CellOf
    <3>3. x \div VecW \in Nat /\ (x \div VecW < Whole(n) <=> x < Whole(n) * VecW)
      BY <1>0, DivisionOf, QuotientBelow
    <3>4. own(x) \in Nat /\ own(x) < N
      BY <1>0, <3>1, <3>2, <3>3
    <3>5. own(x) \in Upto(N)
      BY <1>0, <3>4 DEF Upto
    <3>6. PICK v \in Upto(N) : v = own(x)
      BY <3>5
    <3>7. <<v, 0>> \in Flat(N) /\ <<v, 0>>[1] = own(c[2])
      BY <3>2, <3>6, ItemOf
    <3>8. c \in part("x", <<v, 0>>)
      BY <1>3, <3>1, <3>7
    <3> QED
      BY <3>7, <3>8
  <2>3. ASSUME NEW i \in Flat(N), NEW j \in Flat(N), NEW c, c \in W[i], c \in W[j]
        PROVE  i = j
    <3>1. i[1] = own(c[2]) /\ j[1] = own(c[2])
      BY <1>3, <2>3
    <3>2. i = <<i[1], 0>> /\ j = <<j[1], 0>>
      BY FlatItems
    <3> QED
      BY <3>1, <3>2
  <2> QED
    BY <2>1, <2>2, <2>3 DEF Shares
<1> HIDE DEF d, W, out, k
<1>7. KernelRight(k)
  BY <1>1, <1>2, <1>4, <1>5, <1>6, MapRight
<1> QED
  BY <1>7 DEF k

-----------------------------------------------------------------------------
(* Element kernels                                                          *)

\* The AdamW step: parameter and both moments of an element, by one item.
THEOREM AdamwRight ==
    ASSUME NEW n \in Nat
    PROVE  KernelRight(Adamw(n))
<1> DEFINE B == {"p", "m", "v"}
           own(i) == UNION {At(b, 0, {i[1]}) : b \in B}
           d == [i \in Flat(n) |-> Does(own(i), own(i), {})]
           W == [i \in Flat(n) |-> own(i)]
           out == UNION {At(b, 0, Upto(n)) : b \in B}
           k == Adamw(n)
<1>1. k = Kernel(<<d>>, out, {})
  BY DEF Adamw
<1>2. /\ DOMAIN d = Flat(n) /\ DOMAIN W = Flat(n)
      /\ \A i \in Flat(n) : d[i].wr = W[i] /\ d[i].rd = W[i] /\ d[i].add = {}
  BY DEF Does
<1>3. ASSUME NEW i \in Flat(n), NEW c
      PROVE  c \in W[i] <=> \E b \in B : c = <<b, i[1]>>
  <2>1. i[1] \in Nat
    BY FlatItems
  <2>2. \A b : At(b, 0, {i[1]}) = {<<b, i[1]>>}
    BY <2>1 DEF At
  <2>3. W[i] = UNION {At(b, 0, {i[1]}) : b \in B}
    OBVIOUS
  <2> HIDE DEF W, B
  <2> QED
    BY <2>2, <2>3, ZenonT(40)
<1>4. ASSUME NEW c
      PROVE  c \in out <=> \E b \in B : CellOf(b, c) /\ c[2] < n
  <2>1. c \in out <=> \E b \in B : c \in At(b, 0, Upto(n))
    OBVIOUS
  <2> HIDE DEF out, B
  <2> QED
    BY <2>1, InArray
<1> HIDE DEF W, out, B
<1>5. \A i \in Flat(n) : \A c \in W[i] : IsGlobal(c)
  BY <1>3, GlobalCell
<1>6. ASSUME NEW i \in Flat(n), NEW j \in Flat(n), NEW c, c \in W[i], c \in W[j]
      PROVE  i = j
  <2>1. i = <<i[1], 0>> /\ j = <<j[1], 0>>
    BY FlatItems
  <2>2. PICK a \in B : c = <<a, i[1]>>
    BY <1>3, <1>6
  <2>3. PICK b \in B : c = <<b, j[1]>>
    BY <1>3, <1>6
  <2>4. i[1] = j[1]
    BY <2>2, <2>3
  <2> QED
    BY <2>1, <2>4
<1>7. ASSUME NEW i \in Flat(n)
      PROVE  W[i] \subseteq out
  <2> SUFFICES ASSUME NEW c \in W[i] PROVE c \in out
    OBVIOUS
  <2>1. PICK b \in B : c = <<b, i[1]>>
    BY <1>3
  <2>2. CellOf(b, c) /\ c[2] < n
    BY <2>1, FlatItems DEF CellOf, Upto
  <2> QED
    BY <1>4, <2>2
<1>8. ASSUME NEW c \in out
      PROVE  \E i \in Flat(n) : c \in W[i]
  <2>1. PICK b \in B : CellOf(b, c) /\ c[2] < n
    BY <1>4
  <2>2. c[2] \in Upto(n) /\ c = <<b, c[2]>>
    BY <2>1 DEF CellOf, Upto
  <2>3. <<c[2], 0>> \in Flat(n) /\ <<c[2], 0>>[1] = c[2]
    BY <2>2, ItemOf
  <2>4. c \in W[<<c[2], 0>>]
    BY <1>3, <2>2, <2>3
  <2> QED
    BY <2>3, <2>4
<1>9. Shares(W, out)
  BY <1>2, <1>6, <1>7, <1>8 DEF Shares
<1> HIDE DEF d, k
<1>10. KernelRight(k)
  BY <1>1, <1>2, <1>5, <1>6, <1>9, MapRight
<1> QED
  BY <1>10 DEF k

\* The rotary embedding in place: the pair (p, p + half) of a head by one item.
THEOREM RopeRight ==
    ASSUME NEW tokens \in Nat, NEW heads \in Nat, NEW half \in Nat \ {0}, NEW dim \in Nat,
           dim = 2 * half
    PROVE  KernelRight(Rope(tokens, heads, dim))
<1> DEFINE n == tokens * heads
           N == tokens * heads * half
           pair(i) == {i[1] % half, (i[1] % half) + half}
           cells(i) == At("x", (i[1] \div half) * dim, pair(i))
           d == [i \in Flat(N) |-> Does(cells(i), cells(i), {})]
           W == [i \in Flat(N) |-> cells(i)]
           out == At("x", 0, Upto(n * dim))
           k == Rope(tokens, heads, dim)
<1>0. dim \in Nat \ {0} /\ dim \div 2 = half
  OBVIOUS
<1>1. k = Kernel(<<d>>, out, {})
  BY <1>0 DEF Rope
<1>2. /\ DOMAIN d = Flat(N) /\ DOMAIN W = Flat(N)
      /\ \A i \in Flat(N) : d[i].wr = W[i] /\ d[i].rd = W[i] /\ d[i].add = {}
  BY DEF Does
<1>3. n \in Nat /\ N = n * half /\ N \in Nat /\ n * dim \in Nat
  BY <1>0, ProductNat
<1> HIDE DEF n, N
<1>4. ASSUME NEW v \in Nat
      PROVE  v \div half \in Nat /\ v % half \in Nat /\ v % half < half
  BY DivisionOf DEF Upto
<1>5. ASSUME NEW i \in Flat(N), NEW c
      PROVE  c \in W[i] <=> CellOf("x", c) /\ c[2] \div dim = i[1] \div half /\ c[2] % dim \in pair(i)
  <2>1. i[1] \in Nat
    BY FlatItems
  <2>2. PICK r \in Nat : r = i[1] \div half
    BY <1>4, <2>1
  <2>3. PICK S : S = pair(i)
    OBVIOUS
  <2>4. PICK p \in Nat : p = i[1] % half /\ p < half
    BY <1>4, <2>1
  <2>5. S \subseteq Upto(dim)
    BY <2>3, <2>4 DEF Upto
  <2>6. c \in At("x", r * dim, S) <=> CellOf("x", c) /\ c[2] \div dim = r /\ c[2] % dim \in S
    <3>1. PICK w \in Nat \ {0} : w = dim
      BY <1>0
    <3>2. S \subseteq Upto(w)
      BY <2>5, <3>1
    <3>3. c \in At("x", r * w, S) <=> CellOf("x", c) /\ c[2] \div w = r /\ c[2] % w \in S
      BY <3>2, InRow, Zenon
    <3> QED
      BY <3>1, <3>3
  <2> QED
    BY <2>2, <2>3, <2>6
<1>6. \A i \in Flat(N) : \A c \in W[i] : IsGlobal(c)
  BY CellOfBuffer
<1> HIDE DEF W, out
<1>7. ASSUME NEW i \in Flat(N), NEW j \in Flat(N), NEW c, c \in W[i], c \in W[j]
      PROVE  i = j
  <2>1. i = <<i[1], 0>> /\ j = <<j[1], 0>> /\ i[1] \in Nat /\ j[1] \in Nat
    BY FlatItems
  <2>2. PICK p \in Nat : p = i[1] % half /\ p < half
    BY <1>4, <2>1
  <2>3. PICK q \in Nat : q = j[1] % half /\ q < half
    BY <1>4, <2>1
  <2>4. c[2] % dim \in {p, p + half} /\ c[2] % dim \in {q, q + half} /\ i[1] \div half = j[1] \div half
    BY <1>5, <1>7, <2>2, <2>3
  <2>5. p = q
    BY <2>2, <2>3, <2>4
  <2>6. i[1] = (i[1] \div half) * half + (i[1] % half)
    BY <2>1, DivisionOf
  <2>7. j[1] = (j[1] \div half) * half + (j[1] % half)
    BY <2>1, DivisionOf
  <2>8. i[1] = j[1]
    BY <2>2, <2>3, <2>4, <2>5, <2>6, <2>7
  <2> QED
    BY <2>1, <2>8
<1>8. ASSUME NEW i \in Flat(N)
      PROVE  W[i] \subseteq out
  <2> SUFFICES ASSUME NEW c \in W[i] PROVE c \in out
    OBVIOUS
  <2>1. CellOf("x", c) /\ c[2] \div dim = i[1] \div half /\ c[2] \in Nat
    BY <1>5 DEF CellOf
  <2>2. i[1] \in Nat /\ i[1] < N
    BY <1>3, FlatItems DEF Upto
  <2>3. i[1] \div half < n
    BY <1>3, <2>2, QuotientBelow
  <2>4. c[2] < n * dim
    BY <1>0, <1>3, <2>1, <2>3, QuotientBelow
  <2> QED
    BY <1>3, <2>1, <2>4, InArray DEF out
<1>9. ASSUME NEW c \in out
      PROVE  \E i \in Flat(N) : c \in W[i]
  <2>1. CellOf("x", c) /\ c[2] < n * dim
    BY <1>3, InArray DEF out
  <2>2. PICK x \in Nat : x = c[2]
    BY <2>1 DEF CellOf
  <2>3. PICK r \in Nat : r = x \div dim
    BY <1>0, DivisionOf
  <2>4. PICK e \in Nat : e = x % dim /\ e < dim
    BY <1>0, DivisionOf DEF Upto
  <2>5. r < n
    BY <1>0, <1>3, <2>1, <2>2, <2>3, QuotientBelow
  <2>6. PICK p \in Upto(half) : e = p \/ e = p + half
    <3>1. CASE e < half
      <4>1. e \in Upto(half)
        BY <3>1 DEF Upto
      <4> QED
        BY <4>1
    <3>2. CASE e >= half
      <4>1. e - half \in Upto(half) /\ e = (e - half) + half
        BY <2>4, <3>2 DEF Upto
      <4> QED
        BY <4>1
    <3> QED
      BY <3>1, <3>2
  <2>7. (r * half + p) \div half = r /\ (r * half + p) % half = p /\ r * half + p \in Nat
    BY DivisionUnique
  <2>8. PICK v \in Nat : v = r * half + p
    BY <2>7
  <2>9. v \div half = r /\ v % half = p
    BY <2>7, <2>8
  <2>10. v < N
    BY <1>3, <2>5, <2>9, QuotientBelow
  <2>11. <<v, 0>> \in Flat(N) /\ <<v, 0>>[1] = v
    BY <1>3, <2>10, ItemOf DEF Upto
  <2>12. c \in W[<<v, 0>>]
    BY <1>5, <2>1, <2>2, <2>3, <2>4, <2>6, <2>9, <2>11
  <2> QED
    BY <2>11, <2>12
<1>10. Shares(W, out)
  BY <1>2, <1>7, <1>8, <1>9 DEF Shares
<1> HIDE DEF d, k
<1>11. KernelRight(k)
  BY <1>1, <1>2, <1>6, <1>7, <1>10, MapRight
<1> QED
  BY <1>11 DEF k

\* The gated unit: whole vectors when d has no ragged end, scalars when it has.
THEOREM GluRight ==
    ASSUME NEW rows \in Nat, NEW d \in Nat \ {0}, NEW lanes \in Nat \ {0}
    PROVE  KernelRight(Glu(rows, d, lanes))
<1> DEFINE G == Grid(rows, lanes)
           tail == GluWhole(d) * VecW
           elems(lane) == {e \in Upto(tail) : (e \div VecW) % lanes = lane} \cup From(tail + lane, lanes, d)
           E == [lane \in Upto(lanes) |-> elems(lane)]
           reads(i) == At("x", i[1] * 2 * d, elems(i[2])) \cup At("x", i[1] * 2 * d + d, elems(i[2]))
           D == [i \in G |-> Does(reads(i), At("out", i[1] * d, elems(i[2])), {})]
           W == Mine("out", E, d, rows, lanes)
           out == At("out", 0, Upto(rows * d))
           k == Glu(rows, d, lanes)
<1>0. VecW \in Nat \ {0}
  BY VecAssumption
<1>1. k = Kernel(<<D>>, out, {})
  BY DEF Glu
<1>2. tail \in Nat /\ tail <= d
  <2>1. (d \div VecW) * VecW \in Nat /\ (d \div VecW) * VecW <= d
    BY <1>0, WholeBelow
  <2> QED
    BY <1>0, <2>1 DEF GluWhole, Whole
<1> HIDE DEF tail
<1>3. Laned(E, d, lanes)
  BY <1>0, <1>2, VectorShares DEF Laned
<1>4. \A i \in G : E[i[2]] = elems(i[2])
  BY GridItems
<1> HIDE DEF E
<1>5. \A i \in G : W[i] = At("out", i[1] * d, elems(i[2]))
  BY <1>4 DEF Mine
<1>6. \A i \in G : \A c \in reads(i) : IsGlobal(c) /\ c[1] = "x"
  BY CellOfBuffer
<1> HIDE DEF elems, reads
<1>7. DOMAIN D = G /\ \A i \in G : D[i].wr = W[i] /\ D[i].rd = reads(i) /\ D[i].add = {}
  BY <1>5 DEF Does
<1>8. Shares(W, out)
  BY <1>3, MineShares
<1>9. DOMAIN W = G
  BY MineDomain
<1>10. \A i \in G : \A c \in W[i] : IsGlobal(c) /\ c[1] = "out"
  BY MineGlobal
<1>11. \A i \in DOMAIN D : /\ D[i].wr = W[i] /\ D[i].add = {}
                           /\ \A c \in D[i].rd \cup W[i] : IsGlobal(c)
  BY <1>6, <1>7, <1>10
<1>12. \A i, j \in DOMAIN D : \A c : c \in W[i] /\ c \in D[j].rd => i = j
  BY <1>6, <1>7, <1>10
<1> HIDE DEF W, D, out, k
<1>13. KernelRight(k)
  BY <1>1, <1>7, <1>8, <1>9, <1>11, <1>12, MapRight
<1> QED
  BY <1>13 DEF k

\* The f16 gated unit: an item per output element.
THEOREM GluGeluF16Right ==
    ASSUME NEW rows \in Nat, NEW d \in Nat \ {0}
    PROVE  KernelRight(GluGeluF16(rows, d))
<1> DEFINE N == rows * d
           row(i) == i[1] \div d
           col(i) == i[1] % d
           reads(i) == At("x", row(i) * 2 * d, {col(i), d + col(i)})
           D == [i \in Flat(N) |-> Does(reads(i), At("out", row(i) * d, {col(i)}), {})]
           W == [i \in Flat(N) |-> {<<"out", i[1]>>}]
           out == At("out", 0, Upto(N))
           k == GluGeluF16(rows, d)
<1>1. k = Kernel(<<D>>, out, {})
  BY DEF GluGeluF16
<1>2. N \in Nat
  BY ProductNat
<1> HIDE DEF N
<1>3. ASSUME NEW i \in Flat(N)
      PROVE  At("out", row(i) * d, {col(i)}) = W[i]
  <2>1. i[1] \in Nat
    BY FlatItems
  <2>2. PICK v \in Nat : v = i[1]
    BY <2>1
  <2>3. v = (v \div d) * d + (v % d)
    BY DivisionOf
  <2>4. row(i) * d + col(i) = i[1]
    BY <2>2, <2>3
  <2> QED
    BY <2>4 DEF At
<1>4. \A i \in Flat(N) : \A c \in reads(i) : IsGlobal(c) /\ c[1] = "x"
  BY CellOfBuffer
<1> HIDE DEF reads, row, col
<1>5. /\ DOMAIN D = Flat(N) /\ DOMAIN W = Flat(N)
      /\ \A i \in Flat(N) : D[i].wr = W[i] /\ D[i].rd = reads(i) /\ D[i].add = {}
  BY <1>3 DEF Does
<1>6. Shares(W, out)
  BY <1>2, ElementShares
<1>7. \A i \in Flat(N) : \A c \in W[i] : IsGlobal(c) /\ c[1] = "out"
  BY GlobalCell
<1> HIDE DEF W, D, out, k
<1>8. /\ \A i \in DOMAIN D : /\ D[i].wr = W[i] /\ D[i].add = {}
                             /\ \A c \in D[i].rd \cup W[i] : IsGlobal(c)
      /\ \A i, j \in DOMAIN D : \A c : c \in W[i] /\ c \in D[j].rd => i = j
  BY <1>4, <1>5, <1>7
<1>9. KernelRight(k)
  BY <1>1, <1>5, <1>6, <1>8, MapRight
<1> QED
  BY <1>9 DEF k

-----------------------------------------------------------------------------
(* Rows at slots                                                            *)

\* turboquant_decode: an item owns a row of the output.
THEOREM TurboquantDecodeRight ==
    ASSUME NEW slots \in Seq(Int), NEW heads \in Nat \ {0}, NEW size \in Nat \ {0}, NEW bits \in Nat
    PROVE  KernelRight(TurboquantDecode(slots, heads, size, bits))
<1> DEFINE n == Len(slots) * heads
           bytes == RowBytesOf(size, bits)
           slot(i) == slots[i[1] \div heads + 1]
           reads(i) == IF slot(i) < 0 THEN {}
                       ELSE At("cache", (slot(i) * heads + (i[1] % heads)) * bytes, Upto(bytes))
           D == [i \in Flat(n) |-> Does(reads(i), At("out", i[1] * size, Upto(size)), {})]
           W == [i \in Flat(n) |-> At("out", i[1] * size, Upto(size))]
           out == At("out", 0, Upto(n * size))
           k == TurboquantDecode(slots, heads, size, bits)
<1>1. k = Kernel(<<D>>, out, {})
  BY DEF TurboquantDecode
<1>2. n \in Nat
  BY ProductNat
<1>3. \A i \in Flat(n) : \A c \in reads(i) : IsGlobal(c) /\ c[1] = "cache"
  BY CellOfBuffer
<1> HIDE DEF reads, n
<1>4. /\ DOMAIN D = Flat(n) /\ DOMAIN W = Flat(n)
      /\ \A i \in Flat(n) : D[i].wr = W[i] /\ D[i].rd = reads(i) /\ D[i].add = {}
  BY DEF Does
<1>5. Shares(W, out)
  BY <1>2, RowEachShares
<1>6. \A i \in Flat(n) : \A c \in W[i] : IsGlobal(c) /\ c[1] = "out"
  BY CellOfBuffer
<1> HIDE DEF W, D, out, k
<1>7. /\ \A i \in DOMAIN D : /\ D[i].wr = W[i] /\ D[i].add = {}
                             /\ \A c \in D[i].rd \cup W[i] : IsGlobal(c)
      /\ \A i, j \in DOMAIN D : \A c : c \in W[i] /\ c \in D[j].rd => i = j
  BY <1>3, <1>4, <1>6
<1>8. KernelRight(k)
  BY <1>1, <1>4, <1>5, <1>7, MapRight
<1> QED
  BY <1>8 DEF k

\* The bytes of a row of codes.
LEMMA RowBytesNat ==
    ASSUME NEW size \in Nat \ {0}, NEW bits \in Nat \ {0}
    PROVE  RowBytesOf(size, bits) \in Nat \ {0}
<1>1. PICK a \in Nat \ {0} : a = size * bits
  BY SMT
<1>2. (a + 8 - 1) \div 8 \in Nat \ {0}
  BY SMT
<1> QED
  BY <1>1, <1>2 DEF RowBytesOf, CeilDivide

\* turboquant_encode: when no two live tokens share a slot, the codes and the
\* scales of every live slot come from one item each.
THEOREM TurboquantEncodeRight ==
    ASSUME NEW slots \in Seq(Int), NEW heads \in Nat \ {0}, NEW size \in Nat \ {0},
           NEW bits \in Nat \ {0}, NEW groups \in Nat \ {0}, Distinct(slots)
    PROVE  KernelRight(TurboquantEncode(slots, heads, size, bits, groups))
<1> DEFINE n == Len(slots) * heads
           bytes == RowBytesOf(size, bits)
           s(i) == slots[i[1] \div heads + 1]
           dst(i) == s(i) * heads + (i[1] % heads)
           codes == SlotPart(slots, heads, bytes, "cache")
           scales == SlotPart(slots, heads, groups, "scale")
           key(i) == At("key", i[1] * size, Upto(size))
           d == [i \in Flat(n) |->
                   IF s(i) < 0 THEN Does({}, {}, {})
                   ELSE Does(key(i), At("cache", dst(i) * bytes, Upto(bytes))
                                       \cup At("scale", dst(i) * groups, Upto(groups)), {})]
           W == [i \in Flat(n) |-> codes[i] \cup scales[i]]
           X == SlotRows(slots, heads, bytes, "cache")
           Y == SlotRows(slots, heads, groups, "scale")
           live == {z \in {slots[t] : t \in DOMAIN slots} : z >= 0}
           out == UNION {At("cache", z * heads * bytes, Upto(heads * bytes))
                           \cup At("scale", z * heads * groups, Upto(heads * groups)) : z \in live}
           k == TurboquantEncode(slots, heads, size, bits, groups)
<1>0. bytes \in Nat \ {0}
  BY RowBytesNat
<1>1. k = Kernel(<<d>>, out, {})
  BY DEF TurboquantEncode
<1>2. out = X \cup Y
  <2>1. \A c : c \in out <=> \E z \in live : c \in RowCells("cache", z, heads, bytes)
                                            \/ c \in RowCells("scale", z, heads, groups)
    BY DEF RowCells
  <2>2. \A c : c \in X <=> \E z \in live : c \in RowCells("cache", z, heads, bytes)
    BY DEF SlotRows
  <2>3. \A c : c \in Y <=> \E z \in live : c \in RowCells("scale", z, heads, groups)
    BY DEF SlotRows
  <2> HIDE DEF out, X, Y, live
  <2> QED
    BY <2>1, <2>2, <2>3
<1>3. /\ DOMAIN d = Flat(n) /\ DOMAIN W = Flat(n) /\ DOMAIN codes = Flat(n) /\ DOMAIN scales = Flat(n)
      /\ \A i \in Flat(n) : W[i] = codes[i] \cup scales[i]
  BY DEF SlotPart
<1>4. \A i \in Flat(n) : \A c \in key(i) : IsGlobal(c) /\ c[1] = "key"
  BY CellOfBuffer
<1>5. ASSUME NEW i \in Flat(n)
      PROVE  d[i].wr = W[i] /\ d[i].add = {} /\ d[i].rd \subseteq key(i)
  <2>1. CASE s(i) < 0
    <3>1. codes[i] = {} /\ scales[i] = {}
      BY <2>1 DEF SlotPart
    <3>2. d[i] = Does({}, {}, {})
      BY <2>1
    <3> QED
      BY <1>3, <3>1, <3>2 DEF Does
  <2>2. CASE ~(s(i) < 0)
    <3>1. /\ codes[i] = At("cache", dst(i) * bytes, Upto(bytes))
          /\ scales[i] = At("scale", dst(i) * groups, Upto(groups))
      BY <2>2 DEF SlotPart, PartCells
    <3>2. d[i] = Does(key(i), At("cache", dst(i) * bytes, Upto(bytes))
                                \cup At("scale", dst(i) * groups, Upto(groups)), {})
      BY <2>2
    <3> QED
      BY <1>3, <3>1, <3>2 DEF Does
  <2> QED
    BY <2>1, <2>2
<1>6. \A i \in Flat(n) : /\ \A c \in codes[i] : IsGlobal(c) /\ c[1] = "cache"
                         /\ \A c \in scales[i] : IsGlobal(c) /\ c[1] = "scale"
  BY PartCell
<1>7. Shares(codes, X)
  BY <1>0, SlotShares
<1>8. Shares(scales, Y)
  BY SlotShares
<1>9. X \cap Y = {}
  <2>1. \A c \in X : c[1] = "cache"
    BY CellOfBuffer DEF SlotRows, RowCells
  <2>2. \A c \in Y : c[1] = "scale"
    BY CellOfBuffer DEF SlotRows, RowCells
  <2> QED
    BY <2>1, <2>2
<1> HIDE DEF d, W, X, Y, codes, scales, key, out, k, n
<1>10. Shares(W, X \cup Y)
  BY <1>3, <1>7, <1>8, <1>9, SharesTwo
<1>11. Shares(W, out)
  BY <1>2, <1>10
<1>12. /\ \A i \in DOMAIN d : /\ d[i].wr = W[i] /\ d[i].add = {}
                              /\ \A c \in d[i].rd \cup W[i] : IsGlobal(c)
       /\ \A i, j \in DOMAIN d : \A c : c \in W[i] /\ c \in d[j].rd => i = j
  BY <1>3, <1>4, <1>5, <1>6
<1>13. KernelRight(k)
  BY <1>1, <1>3, <1>11, <1>12, MapRight
<1> QED
  BY <1>13 DEF k

\* Where an item of an indexed copy writes: its row's entry of index, or the row.
CopyRow(index, r, indexSrc) == IF indexSrc THEN r ELSE index[r + 1]

\* embedding_lookup, kv_cache_gather and kv_cache_scatter: an item per element;
\* a scatter's live indices must differ.
THEOREM IndexedCopyRight ==
    ASSUME NEW index \in Seq(Int), NEW row \in Nat \ {0}, NEW indexSrc \in BOOLEAN,
           indexSrc \/ Distinct(index)
    PROVE  KernelRight(IndexedCopy(index, row, indexSrc))
<1> DEFINE n == Len(index)
           N == Len(index) * row
           r(i) == i[1] \div row
           j(i) == i[1] % row
           idx(i) == index[i[1] \div row + 1]
           D == [i \in Flat(N) |->
                   IF idx(i) < 0 THEN Does({}, {}, {})
                   ELSE IF indexSrc THEN Does({<<"src", idx(i) * row + j(i)>>}, {<<"dst", r(i) * row + j(i)>>}, {})
                   ELSE Does({<<"src", r(i) * row + j(i)>>}, {<<"dst", idx(i) * row + j(i)>>}, {})]
           W == [i \in Flat(N) |->
                   IF idx(i) < 0 THEN {} ELSE {<<"dst", CopyRow(index, r(i), indexSrc) * row + j(i)>>}]
           live == {t \in 1..n : index[t] >= 0}
           out == UNION {At("dst", (IF indexSrc THEN t - 1 ELSE index[t]) * row, Upto(row)) : t \in live}
           k == IndexedCopy(index, row, indexSrc)
<1>1. k = Kernel(<<D>>, out, {})
  BY DEF IndexedCopy
<1>2. DOMAIN D = Flat(N) /\ DOMAIN W = Flat(N)
  OBVIOUS
<1>3. ASSUME NEW i \in Flat(N)
      PROVE  /\ D[i].wr = W[i] /\ D[i].add = {}
             /\ \A c \in D[i].rd : IsGlobal(c) /\ c[1] = "src"
             /\ \A c \in W[i] : IsGlobal(c) /\ c[1] = "dst"
  <2>1. CASE idx(i) < 0
    BY <2>1 DEF Does
  <2>2. CASE ~(idx(i) < 0) /\ indexSrc
    <3>1. PICK a, b : a = <<"src", idx(i) * row + j(i)>> /\ b = <<"dst", r(i) * row + j(i)>>
      OBVIOUS
    <3>2. D[i] = Does({a}, {b}, {}) /\ W[i] = {b}
      BY <2>2, <3>1 DEF CopyRow
    <3>3. IsGlobal(a) /\ a[1] = "src" /\ IsGlobal(b) /\ b[1] = "dst"
      BY <3>1, GlobalCell
    <3> QED
      BY <3>2, <3>3 DEF Does
  <2>3. CASE ~(idx(i) < 0) /\ ~indexSrc
    <3>1. PICK a, b : a = <<"src", r(i) * row + j(i)>> /\ b = <<"dst", idx(i) * row + j(i)>>
      OBVIOUS
    <3>2. D[i] = Does({a}, {b}, {}) /\ W[i] = {b}
      BY <2>3, <3>1 DEF CopyRow
    <3>3. IsGlobal(a) /\ a[1] = "src" /\ IsGlobal(b) /\ b[1] = "dst"
      BY <3>1, GlobalCell
    <3> QED
      BY <3>2, <3>3 DEF Does
  <2> QED
    BY <2>1, <2>2, <2>3
<1>4. ASSUME NEW i \in Flat(N)
      PROVE  /\ i[1] \in Nat /\ j(i) \in Upto(row) /\ r(i) \in Nat /\ r(i) + 1 \in DOMAIN index
             /\ i = <<i[1], 0>> /\ i[1] = r(i) * row + j(i) /\ idx(i) \in Int
  BY SlotItem
<1>5. ASSUME NEW t \in DOMAIN index, index[t] >= 0
      PROVE  (IF indexSrc THEN t - 1 ELSE index[t]) \in Nat
  <2>1. t \in 1..n /\ index[t] \in Int
    OBVIOUS
  <2> QED
    BY <1>5, <2>1
\* The cells of an item are those of its row, at its place.
<1>6. ASSUME NEW i \in Flat(N), NEW c
      PROVE  c \in W[i] <=> /\ idx(i) >= 0 /\ CellOf("dst", c)
                            /\ c[2] \div row = CopyRow(index, r(i), indexSrc) /\ c[2] % row = j(i)
  <2>1. CASE idx(i) < 0
    BY <1>4, <2>1
  <2>2. CASE idx(i) >= 0
    <3>1. PICK g \in Nat : g = CopyRow(index, r(i), indexSrc)
      BY <1>4, <2>2 DEF CopyRow
    <3>2. PICK h \in Upto(row) : h = j(i)
      BY <1>4
    <3>3. (g * row + h) \div row = g /\ (g * row + h) % row = h /\ g * row + h \in Nat
      BY DivisionUnique
    <3>4. W[i] = {<<"dst", g * row + h>>}
      BY <1>4, <2>2, <3>1, <3>2
    <3>5. ASSUME NEW x \in Nat, x \div row = g, x % row = h
          PROVE  x = g * row + h
      <4>1. x = (x \div row) * row + (x % row)
        BY DivisionOf
      <4> QED
        BY <3>5, <4>1
    <3>6. c = <<"dst", g * row + h>> <=> CellOf("dst", c) /\ c[2] \div row = g /\ c[2] % row = h
      <4>1. <<"dst", g * row + h>>[2] = g * row + h
        OBVIOUS
      <4> QED
        BY <3>3, <3>5, <4>1 DEF CellOf
    <3> QED
      BY <2>2, <3>1, <3>2, <3>4, <3>6
  <2> QED
    BY <1>4, <2>1, <2>2
<1>7. ASSUME NEW c
      PROVE  c \in out <=> \E t \in DOMAIN index :
               index[t] >= 0 /\ CellOf("dst", c) /\ c[2] \div row = CopyRow(index, t - 1, indexSrc)
  <2>1. c \in out <=> \E t \in DOMAIN index :
          index[t] >= 0 /\ c \in At("dst", (IF indexSrc THEN t - 1 ELSE index[t]) * row, Upto(row))
    <3>1. DOMAIN index = 1..n
      OBVIOUS
    <3>2. c \in out <=> \E t \in live : c \in At("dst", (IF indexSrc THEN t - 1 ELSE index[t]) * row, Upto(row))
      BY Zenon
    <3> HIDE DEF out
    <3> QED
      BY <3>1, <3>2, Zenon
  <2>2. ASSUME NEW t \in DOMAIN index, index[t] >= 0
        PROVE  c \in At("dst", (IF indexSrc THEN t - 1 ELSE index[t]) * row, Upto(row)) <=>
                 CellOf("dst", c) /\ c[2] \div row = CopyRow(index, t - 1, indexSrc)
    <3>1. PICK g \in Nat : g = IF indexSrc THEN t - 1 ELSE index[t]
      BY <1>5, <2>2
    <3>2. c \in At("dst", g * row, Upto(row)) <=> CellOf("dst", c) /\ c[2] \div row = g
      BY InWholeRow
    <3>3. t - 1 + 1 = t
      OBVIOUS
    <3>4. g = CopyRow(index, t - 1, indexSrc)
      BY <3>1, <3>3 DEF CopyRow
    <3> QED
      BY <3>1, <3>2, <3>4
  <2> HIDE DEF out
  <2> QED
    BY <2>1, <2>2
<1> HIDE DEF D, W, out, k, N
<1>8. ASSUME NEW i \in Flat(N), NEW l \in Flat(N), NEW c, c \in W[i], c \in W[l]
      PROVE  i = l
  <2>1. /\ idx(i) >= 0 /\ idx(l) >= 0 /\ j(i) = j(l)
        /\ CopyRow(index, r(i), indexSrc) = CopyRow(index, r(l), indexSrc)
    BY <1>6, <1>8
  <2>2. /\ r(i) \in Nat /\ r(i) + 1 \in DOMAIN index /\ i = <<i[1], 0>> /\ i[1] = r(i) * row + j(i)
    BY <1>4
  <2>3. /\ r(l) \in Nat /\ r(l) + 1 \in DOMAIN index /\ l = <<l[1], 0>> /\ l[1] = r(l) * row + j(l)
    BY <1>4
  <2>4. r(i) = r(l)
    <3>1. CASE indexSrc
      BY <2>1, <3>1 DEF CopyRow
    <3>2. CASE ~indexSrc
      <4>1. index[r(i) + 1] = index[r(l) + 1] /\ index[r(i) + 1] >= 0
        BY <2>1, <3>2 DEF CopyRow
      <4>2. r(i) + 1 = r(l) + 1
        BY <2>2, <2>3, <3>2, <4>1 DEF Distinct
      <4> QED
        BY <2>2, <2>3, <4>2
    <3> QED
      BY <3>1, <3>2
  <2> QED
    BY <2>1, <2>2, <2>3, <2>4
<1>9. ASSUME NEW i \in Flat(N)
      PROVE  W[i] \subseteq out
  <2> SUFFICES ASSUME NEW c \in W[i] PROVE c \in out
    OBVIOUS
  <2>1. /\ idx(i) >= 0 /\ CellOf("dst", c) /\ c[2] \div row = CopyRow(index, r(i), indexSrc)
    BY <1>6
  <2>2. PICK t \in DOMAIN index : t = r(i) + 1 /\ t - 1 = r(i)
    BY <1>4
  <2>3. index[t] >= 0 /\ c[2] \div row = CopyRow(index, t - 1, indexSrc)
    BY <2>1, <2>2
  <2> QED
    BY <1>7, <2>1, <2>3
<1>10. ASSUME NEW c \in out
       PROVE  \E i \in Flat(N) : c \in W[i]
  <2>1. PICK t \in DOMAIN index :
          index[t] >= 0 /\ CellOf("dst", c) /\ c[2] \div row = CopyRow(index, t - 1, indexSrc)
    BY <1>7
  <2>2. PICK g \in Nat : g + 1 = t /\ g = t - 1 /\ g < Len(index)
    <3>1. t \in 1..Len(index) /\ Len(index) \in Nat
      OBVIOUS
    <3>2. t - 1 \in Nat /\ (t - 1) + 1 = t /\ t - 1 < Len(index)
      BY <3>1
    <3> QED
      BY <3>2
  <2>3. PICK x \in Nat : x = c[2]
    BY <2>1 DEF CellOf
  <2>4. PICK h \in Upto(row) : h = x % row
    BY DivisionOf
  <2>5. PICK v \in Nat : v = g * row + h /\ v \div row = g /\ v % row = h
    BY DivisionUnique
  <2>6. Len(index) \in Nat /\ N \in Nat
    BY ProductNat DEF N
  <2>7. v < Len(index) * row
    BY <2>2, <2>5, <2>6, QuotientBelow
  <2>8. v \in Upto(N)
    BY <2>6, <2>7 DEF Upto, N
  <2>9. <<v, 0>> \in Flat(N) /\ <<v, 0>>[1] = v
    BY <2>8, ItemOf
  <2>10. /\ r(<<v, 0>>) = g /\ j(<<v, 0>>) = h /\ idx(<<v, 0>>) = index[t]
    BY <2>2, <2>5, <2>9
  <2>11. c \in W[<<v, 0>>]
    BY <1>6, <2>1, <2>2, <2>3, <2>4, <2>9, <2>10
  <2> QED
    BY <2>9, <2>11
<1>11. Shares(W, out)
  BY <1>2, <1>8, <1>9, <1>10 DEF Shares
<1>12. /\ \A i \in DOMAIN D : /\ D[i].wr = W[i] /\ D[i].add = {}
                              /\ \A c \in D[i].rd \cup W[i] : IsGlobal(c)
       /\ \A i, l \in DOMAIN D : \A c : c \in W[i] /\ c \in D[l].rd => i = l
  BY <1>2, <1>3
<1>13. KernelRight(k)
  BY <1>1, <1>2, <1>11, <1>12, MapRight
<1> QED
  BY <1>13 DEF k

-----------------------------------------------------------------------------
(* Tiles of an output                                                       *)

LEMMA TilePhasesAre ==
    ASSUME NEW T \in Nat, NEW S, NEW D, NEW put, NEW ph,
           S = [t \in 1..T |-> S[t]], D = [t \in 1..T |-> D[t]],
           ph = TilePhases(S, D) \o <<put>>
    PROVE  Staging(ph, T, S, D, put)
<1> DEFINE f == [p \in 1..(2 * T) |-> IF p % 2 = 1 THEN S[(p + 1) \div 2] ELSE D[p \div 2]]
<1>1. Len(S) = T
  BY LengthOf
<1>2. TilePhases(S, D) = f
  BY <1>1 DEF TilePhases
<1>3. 2 * T \in Nat /\ DOMAIN f = 1..(2 * T) /\ f = [p \in 1..(2 * T) |-> f[p]]
  OBVIOUS
<1>4. ASSUME NEW t \in 1..T
      PROVE  /\ 2 * t - 1 \in 1..(2 * T) /\ f[2 * t - 1] = S[t]
             /\ 2 * t \in 1..(2 * T) /\ f[2 * t] = D[t]
  <2>1. (2 * t - 1) % 2 = 1 /\ (2 * t - 1 + 1) \div 2 = t /\ (2 * t) % 2 = 0 /\ (2 * t) \div 2 = t
    OBVIOUS
  <2>2. 2 * t - 1 \in 1..(2 * T) /\ 2 * t \in 1..(2 * T)
    OBVIOUS
  <2> QED
    BY <2>1, <2>2
<1> HIDE DEF f
<1>5. ph = f \o <<put>>
  BY <1>2
<1>6. PICK n \in Nat : n = 2 * T
  BY <1>3
<1>7. /\ DOMAIN ph = 1..(n + 1) /\ ph[n + 1] = put
      /\ \A p \in 1..n : ph[p] = f[p]
  <2>1. f = [p \in 1..n |-> f[p]]
    BY <1>3, <1>6
  <2>2. /\ DOMAIN (f \o <<put>>) = 1..(n + 1) /\ (f \o <<put>>)[n + 1] = put
        /\ \A p \in 1..n : (f \o <<put>>)[p] = f[p]
    BY <2>1, Append1
  <2> QED
    BY <1>5, <2>2
<1>8. ASSUME NEW p \in 1..(n + 1)
      PROVE  \/ \E t \in 1..T : p = 2 * t - 1
             \/ \E t \in 1..T : p = 2 * t
             \/ p = 2 * T + 1
  <2>1. CASE p = n + 1
    BY <1>6, <2>1
  <2>2. CASE p <= n /\ p % 2 = 1
    <3>1. PICK m \in Nat : m = p \div 2
      BY DivisionOf
    <3>2. p = m * 2 + 1
      BY <2>2, <3>1
    <3>3. m + 1 \in 1..T /\ p = 2 * (m + 1) - 1
      BY <1>6, <2>2, <3>2
    <3> QED
      BY <3>3
  <2>3. CASE p <= n /\ p % 2 = 0
    <3>1. p \div 2 \in 1..T /\ p = 2 * (p \div 2)
      BY <1>6, <2>3
    <3> QED
      BY <3>1
  <2> QED
    BY <2>1, <2>2, <2>3
<1> QED
  BY <1>4, <1>6, <1>7, <1>8 DEF Staging

\* dense_gemm and qgemm_int8: both tiles are staged and multiplied between two
\* barriers; every element of C is put by one item, which adds every k once.
THEOREM TiledGemmRight ==
    ASSUME NEW M \in Nat, NEW N \in Nat, NEW K \in Nat \ {0}
    PROVE  KernelRight(TiledGemm(M, N, K))
<1> DEFINE cols == CeilDivide(N, Tile)
           rows == CeilDivide(M, Tile)
           T == CeilDivide(K, Tile)
           G == Grid(rows * cols, Tile * Tile)
           row(i) == (i[1] \div cols) * Tile + i[2] \div Tile
           col(i) == (i[1] % cols) * Tile + (i[2] % Tile)
           sm(name, g, r, c) == <<name, r * Tile + c, g>>
           lr(i) == i[2] \div Tile
           lc(i) == i[2] % Tile
           stage(i) == Does({}, {sm("As", i[1], lr(i), lc(i)), sm("Bs", i[1], lr(i), lc(i))}, {})
           staged(t, i) == {k \in ((t - 1) * Tile)..(t * Tile - 1) : row(i) < M /\ col(i) < N /\ k < K}
           reads(i) == UNION {{sm("As", i[1], lr(i), k), sm("Bs", i[1], k, lc(i))} : k \in Upto(Tile)}
           cell(i) == <<"C", row(i) * N + col(i)>>
           mad(t, i) == Does(reads(i), {}, Into(cell(i), staged(t, i)))
           inside(i) == row(i) < M /\ col(i) < N
           puts(i) == IF inside(i) THEN Does({}, {cell(i)}, {}) ELSE Idle
           S == [t \in 1..T |-> [i \in G |-> stage(i)]]
           D == [t \in 1..T |-> [i \in G |-> mad(t, i)]]
           put == [i \in G |-> puts(i)]
           L == [i \in G |-> {sm("As", i[1], lr(i), lc(i)), sm("Bs", i[1], lr(i), lc(i))}]
           R == [i \in G |-> reads(i)]
           Q == [i \in G |-> [t \in 1..T |-> Into(cell(i), staged(t, i))]]
           O == [i \in G |-> IF inside(i) THEN {cell(i)} ELSE {}]
           A == [i \in G |-> IF inside(i) THEN {cell(i)} \X Upto(K) ELSE {}]
           out == At("C", 0, Upto(M * N))
           sums == At("C", 0, Upto(M * N)) \X Upto(K)
           k == TiledGemm(M, N, K)
<1>0. Tile \in Nat \ {0}
  BY GemmAssumption
<1>1. T \in Nat \ {0} /\ rows \in Nat /\ cols \in Nat
  BY <1>0, CeilAbove, SMTT(30)
<1>2. k = Kernel(TilePhases(S, D) \o <<put>>, out, sums)
  BY DEF TiledGemm
<1>3. k.phases = TilePhases(S, D) \o <<put>> /\ k.out = out /\ k.sums = sums
  <2> HIDE DEF k, S, D, put, out, sums
  <2> QED
    BY <1>2 DEF Kernel
<1>4. Staging(k.phases, T, S, D, put)
  <2>1. S = [t \in 1..T |-> S[t]] /\ D = [t \in 1..T |-> D[t]]
    OBVIOUS
  <2> HIDE DEF S, D, T, put, k
  <2> QED
    BY <1>1, <1>3, <2>1, TilePhasesAre
<1>5. Items(k) = G
  <2>1. 1 \in 1..T /\ 2 * 1 - 1 = 1
    BY <1>1
  <2>2. k.phases[1] = S[1]
    BY <1>4, <2>1 DEF Staging
  <2>3. DOMAIN S[1] = G
    BY <2>1
  <2> QED
    BY <2>2, <2>3 DEF Items
<1>6. ASSUME NEW i \in G
      PROVE  /\ put[i].rd = {} /\ put[i].wr = O[i] /\ put[i].add = {}
             /\ \A t \in 1..T : /\ S[t][i].rd = {} /\ S[t][i].wr = L[i] /\ S[t][i].add = {}
                                /\ D[t][i].rd = R[i] /\ D[t][i].wr = {}
                                /\ D[t][i].add = Q[i][t]
  <2>1. put[i].rd = {} /\ put[i].wr = O[i] /\ put[i].add = {}
    <3> HIDE DEF inside, cell
    <3> QED
      BY DEF Does, Idle
  <2>2. ASSUME NEW t \in 1..T
        PROVE  S[t][i].rd = {} /\ S[t][i].wr = L[i] /\ S[t][i].add = {}
    <3> HIDE DEF sm
    <3> QED
      BY DEF Does
  <2>3. ASSUME NEW t \in 1..T
        PROVE  D[t][i].rd = R[i] /\ D[t][i].wr = {} /\ D[t][i].add = Q[i][t]
    <3> HIDE DEF reads, cell, staged
    <3> QED
      BY DEF Does
  <2> QED
    BY <2>1, <2>2, <2>3
<1> HIDE DEF k
<1>7. Tiled(k, T, S, D, put, L, R, Q, O)
  <2> HIDE DEF S, D, put, L, R, Q, O
  <2> QED
    BY <1>4, <1>5, <1>6 DEF Tiled
<1>8. ASSUME NEW i \in G
      PROVE  /\ i[1] \in Nat /\ i[2] \in Nat /\ i[2] < Tile * Tile /\ i = <<i[1], i[2]>>
             /\ lr(i) \in Upto(Tile) /\ lc(i) \in Upto(Tile) /\ i[2] = lr(i) * Tile + lc(i)
  <2>1. i[1] \in Nat /\ i[2] \in Upto(Tile * Tile) /\ i = <<i[1], i[2]>>
    BY GridItems
  <2>2. PICK l \in Nat : l = i[2] /\ l < Tile * Tile
    BY <1>0, <2>1, TileSquare DEF Upto
  <2>3. l \div Tile \in Nat /\ l % Tile \in Upto(Tile) /\ l = (l \div Tile) * Tile + (l % Tile)
    BY <1>0, DivisionOf
  <2>4. l \div Tile < Tile
    BY <1>0, <2>2, QuotientBelow
  <2>5. l \div Tile \in Upto(Tile)
    BY <1>0, <2>3, <2>4 DEF Upto
  <2> QED
    BY <2>1, <2>2, <2>3, <2>5
\* The item of a group that stages a cell of its tiles.
<1>9. ASSUME NEW i \in G, NEW r \in Upto(Tile), NEW c \in Upto(Tile)
      PROVE  \E j \in G : j[1] = i[1] /\ lr(j) = r /\ lc(j) = c
  <2>1. PICK l \in Nat : l = r * Tile + c /\ l \div Tile = r /\ l % Tile = c
    <3>1. r \in Nat
      BY DEF Upto
    <3> QED
      BY <1>0, <3>1, DivisionUnique
  <2>2. r \in Nat /\ r < Tile
    BY <1>0 DEF Upto
  <2>3. l < Tile * Tile /\ Tile * Tile \in Nat
    BY <1>0, <2>1, <2>2, QuotientBelow, TileSquare
  <2>4. <<i[1], l>> \in G
    <3>1. i[1] \in Upto(rows * cols)
      BY GridItems
    <3>2. l \in Upto(Tile * Tile)
      BY <2>3 DEF Upto
    <3> QED
      BY <3>1, <3>2 DEF Grid
  <2> QED
    BY <2>1, <2>4
<1>10. Staged(G, L, R, O)
  <2>1. ASSUME NEW i \in G
        PROVE  /\ \A c \in L[i] : ~IsGlobal(c) /\ c[3] = i[1]
               /\ \A c \in O[i] : IsGlobal(c)
    <3>1. \A c \in L[i] : \E b, x : c = <<b, x, i[1]>>
      OBVIOUS
    <3>2. \A c \in O[i] : IsGlobal(c)
      BY GlobalCell
    <3> QED
      BY <3>1, <3>2, LocalCell
  <2>2. ASSUME NEW i \in G, NEW c \in R[i]
        PROVE  \E j \in G : j[1] = i[1] /\ c \in L[j]
    <3>1. c \in UNION {{sm("As", i[1], lr(i), e), sm("Bs", i[1], e, lc(i))} : e \in Upto(Tile)}
      OBVIOUS
    <3> HIDE DEF sm, G
    <3>2. PICK e \in Upto(Tile) : c = sm("As", i[1], lr(i), e) \/ c = sm("Bs", i[1], e, lc(i))
      BY <3>1
    <3>3. CASE c = sm("As", i[1], lr(i), e)
      <4>1. PICK j \in G : j[1] = i[1] /\ lr(j) = lr(i) /\ lc(j) = e
        BY <1>8, <1>9
      <4> QED
        BY <3>3, <4>1
    <3>4. CASE c = sm("Bs", i[1], e, lc(i))
      <4>1. PICK j \in G : j[1] = i[1] /\ lr(j) = e /\ lc(j) = lc(i)
        BY <1>8, <1>9
      <4> QED
        BY <3>4, <4>1
    <3> QED
      BY <3>2, <3>3, <3>4
  <2>3. ASSUME NEW i \in G, NEW j \in G, NEW c, c \in L[i], c \in L[j]
        PROVE  i = j
    <3>1. c[2] = i[2] /\ c[3] = i[1]
      BY <1>8, <2>3
    <3>2. c[2] = j[2] /\ c[3] = j[1]
      BY <1>8, <2>3
    <3> QED
      BY <1>8, <3>1, <3>2
  <2>4. ASSUME NEW i \in G, NEW c \in R[i]
        PROVE  ~IsGlobal(c) /\ c[3] = i[1]
    BY <2>1, <2>2
  <2> HIDE DEF L, R, O, G
  <2> QED
    BY <2>1, <2>2, <2>3, <2>4 DEF Staged
\* Which items put which element.
<1>11. ASSUME NEW i \in G, inside(i)
       PROVE  /\ row(i) \in Upto(M) /\ col(i) \in Upto(N) /\ ComputedBy(i, row(i), col(i), cols, Tile)
              /\ cols \in Nat \ {0} /\ N \in Nat \ {0}
              /\ (row(i) * N + col(i)) \div N = row(i) /\ (row(i) * N + col(i)) % N = col(i)
              /\ row(i) * N + col(i) \in Nat /\ row(i) * N + col(i) < M * N
  <2>1. i[1] \in Nat /\ i[1] \in Upto(rows * cols)
    BY GridItems
  <2>2. rows * cols \in Nat
    BY <1>1, ProductNat
  <2>3. i[1] < rows * cols
    BY <2>1, <2>2 DEF Upto
  <2>4. cols \in Nat \ {0}
    <3>1. CASE cols = 0
      <4>1. rows * cols = 0
        BY <1>1, <3>1
      <4> QED
        BY <2>1, <2>3, <4>1
    <3> QED
      BY <1>1, <3>1
  <2>5. row(i) = OutRow(i, cols, Tile) /\ col(i) = OutCol(i, cols, Tile)
    BY DEF OutRow, OutCol
  <2> HIDE DEF cols, row, col
  <2>6. OutRow(i, cols, Tile) \in Nat /\ OutCol(i, cols, Tile) \in Nat
    BY <1>0, <2>4, TileCoordinates
  <2>7. PICK r \in Nat : r = row(i) /\ r < M
    BY <1>11, <2>5, <2>6
  <2>8. PICK c \in Nat : c = col(i) /\ c < N
    BY <1>11, <2>5, <2>6
  <2>9. N \in Nat \ {0} /\ c \in Upto(N) /\ r \in Upto(M)
    BY <2>7, <2>8 DEF Upto
  <2>10. (r * N + c) \div N = r /\ (r * N + c) % N = c /\ r * N + c \in Nat
    BY <2>9, DivisionUnique
  <2>11. PICK x \in Nat : x = r * N + c /\ x \div N = r
    BY <2>10
  <2>12. x < M * N
    BY <2>7, <2>9, <2>11, QuotientBelow
  <2> QED
    BY <2>4, <2>5, <2>7, <2>8, <2>9, <2>10, <2>11, <2>12 DEF ComputedBy
<1>12. \A i \in G : \A c : c \in O[i] <=> inside(i) /\ c = cell(i)
  BY DEF inside
<1>13. ASSUME NEW i \in G, NEW j \in G, inside(i), inside(j), cell(i) = cell(j)
       PROVE  i = j
  <2>1. row(i) * N + col(i) = row(j) * N + col(j)
    BY <1>13
  <2>2. row(i) = row(j) /\ col(i) = col(j)
    BY <1>11, <1>13, <2>1
  <2>3. ComputedBy(i, row(i), col(i), cols, Tile) /\ ComputedBy(j, row(i), col(i), cols, Tile)
    BY <1>11, <1>13, <2>2
  <2>4. cols \in Nat \ {0}
    BY <1>11, <1>13
  <2> HIDE DEF cols, row, col
  <2> QED
    BY <1>0, <2>3, <2>4, TileApart
<1>14. ASSUME NEW c
       PROVE  c \in out <=> \E i \in G : inside(i) /\ c = cell(i)
  <2>1. M * N \in Nat
    BY ProductNat
  <2>2. c \in out <=> CellOf("C", c) /\ c[2] < M * N
    BY <2>1, InArray
  <2>3. ASSUME NEW i \in G, inside(i), c = cell(i)
        PROVE  c \in out
    <3>1. CellOf("C", c) /\ c[2] < M * N
      BY <1>11, <2>3 DEF CellOf
    <3> QED
      BY <2>2, <3>1
  <2>4. ASSUME c \in out
        PROVE  \E i \in G : inside(i) /\ c = cell(i)
    <3>1. PICK x \in Nat : x = c[2] /\ x < M * N /\ c = <<"C", x>>
      BY <2>2, <2>4 DEF CellOf
    <3>2. N \in Nat \ {0}
      <4>1. CASE N = 0
        <5>1. M * N = 0
          BY <4>1
        <5> QED
          BY <3>1, <5>1
      <4> QED
        BY <4>1
    <3>3. x \div N < M
      BY <3>1, <3>2, QuotientBelow
    <3>4. PICK r \in Upto(M) : r = x \div N
      BY <3>2, <3>3, DivisionOf DEF Upto
    <3>5. PICK e \in Upto(N) : e = x % N
      BY <3>2, DivisionOf
    <3>6. x = r * N + e
      BY <3>2, <3>4, <3>5, DivisionOf
    <3>7. PICK i \in G : ComputedBy(i, r, e, cols, Tile)
      <4> HIDE DEF cols, rows
      <4> QED
        BY <1>0, TileCovers DEF cols, rows
    <3>8. row(i) = r /\ col(i) = e /\ r < M /\ e < N
      BY <3>7 DEF ComputedBy, OutRow, OutCol, Upto
    <3> QED
      BY <3>1, <3>6, <3>8
  <2> QED
    BY <2>3, <2>4
<1> HIDE DEF inside, cell, G
<1>15. DOMAIN O = G /\ Shares(O, out)
  BY <1>12, <1>13, <1>14 DEF Shares
<1>16. ASSUME NEW i \in G, NEW z
       PROVE  z \in A[i] <=> inside(i) /\ \E e \in Upto(K) : z = <<cell(i), e>>
  OBVIOUS
<1>17. ASSUME NEW z
       PROVE  z \in sums <=> \E c \in out : \E e \in Upto(K) : z = <<c, e>>
  OBVIOUS
<1>18. DOMAIN A = G
  OBVIOUS
<1>19. ASSUME NEW i \in G, NEW z
       PROVE  z \in A[i] <=> \E t \in 1..T : z \in Q[i][t]
  <2>1. ASSUME NEW t \in 1..T
        PROVE  z \in Q[i][t] <=> \E e \in ((t - 1) * Tile)..(t * Tile - 1) : inside(i) /\ e < K /\ z = <<cell(i), e>>
    BY DEF Into, inside
  <2>2. \A e : e \in Upto(K) <=> \E t \in 1..T : e \in ((t - 1) * Tile)..(t * Tile - 1) /\ e < K
    BY <1>0, TileTerms
  <2> HIDE DEF A, Q
  <2> QED
    BY <1>16, <2>1, <2>2
<1> HIDE DEF A, out, sums
<1>20. Shares(A, sums)
  <2>1. ASSUME NEW i \in G
        PROVE  A[i] \subseteq sums
    BY <1>14, <1>16, <1>17
  <2>2. ASSUME NEW z \in sums
        PROVE  \E i \in G : z \in A[i]
    BY <1>14, <1>16, <1>17
  <2>3. ASSUME NEW i \in G, NEW j \in G, NEW z, z \in A[i], z \in A[j]
        PROVE  i = j
    BY <1>13, <1>16, <2>3
  <2> QED
    BY <1>18, <2>1, <2>2, <2>3 DEF Shares
<1>21. Shares(O, k.out) /\ Shares(A, k.sums) /\ DOMAIN O = Items(k) /\ DOMAIN A = Items(k)
  BY <1>3, <1>5, <1>15, <1>18, <1>20
<1>22. \A i \in Items(k) : \A z : z \in A[i] <=> \E t \in 1..T : z \in Q[i][t]
  BY <1>5, <1>19
<1>23. Staged(Items(k), L, R, O)
  BY <1>5, <1>10
<1> HIDE DEF S, D, put, L, R, Q, O, T
<1>24. KernelRight(k)
  BY <1>1, <1>7, <1>21, <1>22, <1>23, TiledRight
<1> QED
  BY <1>24 DEF k

-----------------------------------------------------------------------------
(* Matrix-vector kernels                                                    *)

LEMMA DotItem ==
    ASSUME NEW N \in Nat, NEW i \in DotGrid(N)
    PROVE  /\ DotRow(i) \in Nat /\ DotLane(i) \in Upto(DotLanes)
           /\ DotRow(i) \div RowsPerWG = i[1] /\ DotRow(i) % RowsPerWG = i[2] \div DotLanes
           /\ i[2] = (i[2] \div DotLanes) * DotLanes + DotLane(i)
           /\ i = <<i[1], i[2]>>
<1>0. RowsPerWG \in Nat \ {0} /\ DotLanes \in Nat \ {0}
  BY GemmAssumption
<1>1. i[1] \in Nat /\ i[2] \in Upto(RowsPerWG * DotLanes) /\ i = <<i[1], i[2]>>
  BY GridItems DEF DotGrid
<1>2. RowsPerWG * DotLanes \in Nat
  BY <1>0, ProductNat
<1>3. PICK g \in Nat : g = i[1]
  BY <1>1
<1>4. PICK l \in Nat : l = i[2] /\ l < RowsPerWG * DotLanes
  BY <1>1, <1>2 DEF Upto
<1>5. PICK q \in Nat : q = l \div DotLanes
  BY <1>0, DivisionOf
<1>6. q < RowsPerWG
  BY <1>0, <1>4, <1>5, QuotientBelow
<1>7. q \in Upto(RowsPerWG)
  BY <1>0, <1>6 DEF Upto
<1>8. (g * RowsPerWG + q) \div RowsPerWG = g /\ (g * RowsPerWG + q) % RowsPerWG = q
      /\ g * RowsPerWG + q \in Nat
  BY <1>0, <1>7, DivisionUnique
<1>9. l % DotLanes \in Upto(DotLanes) /\ l = (l \div DotLanes) * DotLanes + (l % DotLanes)
  BY <1>0, DivisionOf
<1>10. DotRow(i) = g * RowsPerWG + q /\ DotLane(i) = l % DotLanes
  BY <1>3, <1>4, <1>5 DEF DotRow, DotLane
<1> QED
  BY <1>1, <1>3, <1>4, <1>5, <1>8, <1>9, <1>10

\* Item i has row n and lane l.
HasDot(i, n, l) == DotRow(i) = n /\ DotLane(i) = l

LEMMA DotApart ==
    ASSUME NEW N \in Nat, NEW i \in DotGrid(N), NEW j \in DotGrid(N), NEW n, NEW l,
           HasDot(i, n, l), HasDot(j, n, l)
    PROVE  i = j
<1>1. /\ n \div RowsPerWG = i[1] /\ n % RowsPerWG = i[2] \div DotLanes
      /\ i[2] = (i[2] \div DotLanes) * DotLanes + l /\ i = <<i[1], i[2]>>
  BY DotItem DEF HasDot
<1>2. /\ n \div RowsPerWG = j[1] /\ n % RowsPerWG = j[2] \div DotLanes
      /\ j[2] = (j[2] \div DotLanes) * DotLanes + l /\ j = <<j[1], j[2]>>
  BY DotItem DEF HasDot
<1> QED
  BY <1>1, <1>2

LEMMA DotCovers ==
    ASSUME NEW N \in Nat, NEW n \in Upto(N), NEW l \in Upto(DotLanes)
    PROVE  \E i \in DotGrid(N) : HasDot(i, n, l)
<1>0. RowsPerWG \in Nat \ {0} /\ DotLanes \in Nat \ {0}
  BY GemmAssumption
<1>1. n \in Nat /\ n < N
  BY DEF Upto
<1>2. PICK G \in Nat : G = CeilDivide(N, RowsPerWG)
  BY <1>0, CeilAbove
<1>3. PICK g \in Upto(G) : g = n \div RowsPerWG
  <2>1. n \div RowsPerWG < CeilDivide(N, RowsPerWG)
    BY <1>0, <1>1, CeilAbove
  <2>2. n \div RowsPerWG \in Nat
    BY <1>0, <1>1, DivisionOf
  <2> QED
    BY <1>2, <2>1, <2>2 DEF Upto
<1>4. PICK q \in Nat : q = n % RowsPerWG /\ q < RowsPerWG
  <2>1. PICK z \in Upto(RowsPerWG) : z = n % RowsPerWG
    BY <1>0, <1>1, DivisionOf
  <2> QED
    BY <1>0, <2>1 DEF Upto
<1>5. PICK m \in Nat : m = q * DotLanes + l /\ m \div DotLanes = q /\ m % DotLanes = l
  BY <1>0, DivisionUnique
<1>6. m < RowsPerWG * DotLanes /\ RowsPerWG * DotLanes \in Nat
  BY <1>0, <1>4, <1>5, QuotientBelow, ProductNat
<1>7. <<g, m>> \in DotGrid(N)
  BY <1>2, <1>6 DEF DotGrid, Grid, Upto
<1>8. n = g * RowsPerWG + q
  BY <1>0, <1>1, <1>3, <1>4, DivisionOf
<1>9. HasDot(<<g, m>>, n, l)
  BY <1>5, <1>8 DEF HasDot, DotRow, DotLane
<1> QED
  BY <1>7, <1>9

\* A sub-group per row of the weights: when its lanes share the terms of the
\* reduction, every output is put once and gets every term once.
LEMMA DotsRight ==
    ASSUME NEW M \in Nat, NEW N \in Nat, NEW K, NEW group, NEW terms,
           DOMAIN terms = Upto(DotLanes), Shares(terms, Terms(K, group))
    PROVE  KernelRight(Dots(M, N, K, group, terms))
<1> DEFINE G == DotGrid(N)
           live(i) == ~(DotRow(i) >= N)
           totals(i) == {<<"y", m * N + DotRow(i)>> : m \in Upto(M)}
           d == [i \in G |-> IF DotRow(i) >= N THEN Idle ELSE Does({}, {}, totals(i) \X terms[DotLane(i)])]
           e == [i \in G |-> IF DotRow(i) >= N \/ DotLane(i) # 0 THEN Idle ELSE Does({}, totals(i), {})]
           W == [i \in G |-> IF DotRow(i) >= N \/ DotLane(i) # 0 THEN {} ELSE totals(i)]
           A == [i \in G |-> IF DotRow(i) >= N THEN {} ELSE totals(i) \X terms[DotLane(i)]]
           out == At("y", 0, Upto(M * N))
           all == Terms(K, group)
           sums == out \X all
           k == Dots(M, N, K, group, terms)
<1>0. DotLanes \in Nat \ {0} /\ 0 \in Upto(DotLanes)
  BY GemmAssumption DEF Upto
<1>1. k = Kernel(<<d, e>>, out, sums)
  BY DEF Dots
<1>2. ASSUME NEW i \in G
      PROVE  d[i].rd = {} /\ d[i].wr = {} /\ d[i].add = A[i] /\ e[i].rd = {} /\ e[i].wr = W[i] /\ e[i].add = {}
  <2> HIDE DEF totals, G
  <2> QED
    BY DEF Does, Idle
<1>3. DOMAIN d = G /\ DOMAIN W = G /\ DOMAIN A = G
  OBVIOUS
<1>4. ASSUME NEW i \in G
      PROVE  /\ DotRow(i) \in Nat /\ DotLane(i) \in Upto(DotLanes)
             /\ live(i) => DotRow(i) \in Upto(N)
  BY DotItem DEF Upto
<1>5. ASSUME NEW i \in G, NEW c
      PROVE  c \in totals(i) <=> \E m \in Upto(M) : c = OutCell(m, DotRow(i), N)
  BY DEF OutCell
<1> HIDE DEF totals, G
<1>6. ASSUME NEW i \in G, NEW c
      PROVE  c \in W[i] <=> live(i) /\ DotLane(i) = 0 /\ c \in totals(i)
  OBVIOUS
<1>7. ASSUME NEW i \in G, NEW z
      PROVE  z \in A[i] <=> live(i) /\ \E c \in totals(i) : \E t \in terms[DotLane(i)] : z = <<c, t>>
  OBVIOUS
<1>8. ASSUME NEW i \in G, NEW j \in G, NEW c, live(i), live(j), c \in totals(i), c \in totals(j)
      PROVE  DotRow(i) = DotRow(j)
  <2>1. PICK a \in Upto(M) : c = OutCell(a, DotRow(i), N)
    BY <1>5, <1>8
  <2>2. PICK b \in Upto(M) : c = OutCell(b, DotRow(j), N)
    BY <1>5, <1>8
  <2>3. a \in Nat /\ b \in Nat /\ DotRow(i) \in Upto(N) /\ DotRow(j) \in Upto(N)
    BY <1>4, <1>8 DEF Upto
  <2> QED
    BY <2>1, <2>2, <2>3, OutCellApart, ZenonT(40)
<1>9. ASSUME NEW i \in G, NEW j \in G, DotRow(i) = DotRow(j), DotLane(i) = DotLane(j)
      PROVE  i = j
  <2>1. HasDot(i, DotRow(i), DotLane(i)) /\ HasDot(j, DotRow(i), DotLane(i))
    BY <1>9 DEF HasDot
  <2> QED
    BY <2>1, DotApart DEF G
<1>10. ASSUME NEW c
       PROVE  c \in out <=> \E i \in G : live(i) /\ DotLane(i) = 0 /\ c \in totals(i)
  <2>1. ASSUME NEW i \in G, live(i), c \in totals(i)
        PROVE  c \in out
    <3>1. DotRow(i) \in Upto(N)
      BY <1>4, <2>1
    <3> QED
      BY <1>5, <2>1, <3>1, OutCells
  <2>2. ASSUME c \in out
        PROVE  \E i \in G : live(i) /\ DotLane(i) = 0 /\ c \in totals(i)
    <3>1. PICK m \in Upto(M) : \E n \in Upto(N) : c = OutCell(m, n, N)
      BY <2>2, OutCells
    <3>2. PICK n \in Upto(N) : c = OutCell(m, n, N)
      BY <3>1
    <3>3. PICK i \in G : HasDot(i, n, 0)
      BY <1>0, DotCovers DEF G
    <3>4. DotRow(i) = n /\ DotLane(i) = 0 /\ live(i)
      BY <3>3 DEF HasDot, Upto
    <3> QED
      BY <1>5, <3>2, <3>4
  <2> QED
    BY <2>1, <2>2
<1>11. ASSUME NEW i \in G, NEW l \in Upto(DotLanes), live(i)
       PROVE  \E j \in G : live(j) /\ DotLane(j) = l /\ totals(j) = totals(i)
  <2>1. PICK n \in Upto(N) : n = DotRow(i)
    BY <1>4, <1>11
  <2>2. PICK j \in G : HasDot(j, n, l)
    BY DotCovers DEF G
  <2>3. DotRow(j) = DotRow(i) /\ DotLane(j) = l /\ live(j)
    BY <1>11, <2>1, <2>2 DEF HasDot
  <2>4. totals(j) = totals(i)
    BY <2>3 DEF totals
  <2> QED
    BY <2>3, <2>4
<1>12. \A i \in G : \A c \in W[i] : IsGlobal(c)
  BY <1>5, <1>6, GlobalCell DEF OutCell
<1> HIDE DEF W, A, out, all
<1>13. Shares(W, out)
  <2>1. ASSUME NEW i \in G
        PROVE  W[i] \subseteq out
    BY <1>6, <1>10
  <2>2. ASSUME NEW c \in out
        PROVE  \E i \in G : c \in W[i]
    BY <1>6, <1>10
  <2>3. ASSUME NEW i \in G, NEW j \in G, NEW c, c \in W[i], c \in W[j]
        PROVE  i = j
    <3>1. live(i) /\ live(j) /\ DotLane(i) = 0 /\ DotLane(j) = 0 /\ c \in totals(i) /\ c \in totals(j)
      BY <1>6, <2>3
    <3>2. DotRow(i) = DotRow(j)
      BY <1>8, <3>1
    <3> QED
      BY <1>9, <3>1, <3>2
  <2> QED
    BY <1>3, <2>1, <2>2, <2>3 DEF Shares
<1>14. Shares(A, sums)
  <2>0. Shares(terms, all)
    BY DEF all
  <2>1. ASSUME NEW i \in G
        PROVE  A[i] \subseteq sums
    <3> SUFFICES ASSUME NEW z \in A[i] PROVE z \in sums
      OBVIOUS
    <3>1. PICK c \in totals(i) : live(i) /\ \E t \in terms[DotLane(i)] : z = <<c, t>>
      BY <1>7
    <3>2. PICK t \in terms[DotLane(i)] : z = <<c, t>>
      BY <3>1
    <3>3. t \in all
      BY <1>4, <2>0 DEF Shares
    <3>4. PICK j \in G : live(j) /\ DotLane(j) = 0 /\ totals(j) = totals(i)
      BY <1>0, <1>11, <3>1
    <3>5. c \in out
      BY <1>10, <3>4
    <3> QED
      BY <3>2, <3>3, <3>5
  <2>2. ASSUME NEW z \in sums
        PROVE  \E i \in G : z \in A[i]
    <3>1. PICK c \in out : \E t \in all : z = <<c, t>>
      OBVIOUS
    <3>2. PICK t \in all : z = <<c, t>>
      BY <3>1
    <3>3. PICK l \in Upto(DotLanes) : t \in terms[l]
      BY <2>0 DEF Shares
    <3>4. PICK i \in G : live(i) /\ c \in totals(i)
      BY <1>10
    <3>5. PICK j \in G : live(j) /\ DotLane(j) = l /\ totals(j) = totals(i)
      BY <1>11, <3>4
    <3>6. z \in A[j]
      BY <1>7, <3>2, <3>3, <3>4, <3>5
    <3> QED
      BY <3>6
  <2>3. ASSUME NEW i \in G, NEW j \in G, NEW z, z \in A[i], z \in A[j]
        PROVE  i = j
    <3>1. PICK c \in totals(i) : live(i) /\ \E t \in terms[DotLane(i)] : z = <<c, t>>
      BY <1>7, <2>3
    <3>2. PICK t \in terms[DotLane(i)] : z = <<c, t>>
      BY <3>1
    <3>3. c \in totals(j) /\ live(j) /\ t \in terms[DotLane(j)]
      BY <1>7, <2>3, <3>2
    <3>4. DotRow(i) = DotRow(j)
      BY <1>8, <3>1, <3>3
    <3>5. DotLane(i) = DotLane(j)
      BY <1>4, <2>0, <3>2, <3>3 DEF Shares
    <3> QED
      BY <1>9, <3>4, <3>5
  <2> HIDE DEF sums
  <2> QED
    BY <1>3, <2>1, <2>2, <2>3 DEF Shares
<1> HIDE DEF d, e, k, sums
<1>15. /\ Items(k) = DOMAIN d /\ k.out = out /\ k.sums = sums
       /\ \A i : /\ Wrote(k, i) = d[i].wr \cup e[i].wr
                 /\ Touched(k, i) = d[i].wr \cup e[i].wr \cup d[i].rd \cup e[i].rd
                 /\ Added(k, i) = d[i].add \cup e[i].add
  BY <1>1, TwoPhases
<1>16. ASSUME NEW i \in G
       PROVE  Wrote(k, i) = W[i] /\ Touched(k, i) \subseteq W[i] /\ Added(k, i) = A[i]
  <2>1. /\ Wrote(k, i) = d[i].wr \cup e[i].wr
        /\ Touched(k, i) = d[i].wr \cup e[i].wr \cup d[i].rd \cup e[i].rd
        /\ Added(k, i) = d[i].add \cup e[i].add
    BY <1>15
  <2> QED
    BY <1>2, <2>1
<1>17. OwnedApart(k, W, W, A)
  BY <1>3, <1>12, <1>13, <1>14, <1>15, <1>16 DEF OwnedApart, Shares
<1>18. KernelRight(k)
  BY <1>17, OwnersRight
<1> QED
  BY <1>18 DEF k

LEMMA LaneTermsShare ==
    ASSUME NEW K, NEW group, NEW E, Shares(E, Upto(K))
    PROVE  Shares(LaneTerms(E, group), Terms(K, group))
<1> DEFINE T == LaneTerms(E, group)
<1>1. DOMAIN T = DOMAIN E
  BY DEF LaneTerms
<1>2. ASSUME NEW l \in DOMAIN E, NEW t
      PROVE  t \in T[l] <=> \E k \in E[l] : t = <<k, k \div group>>
  BY DEF LaneTerms
<1>3. ASSUME NEW t
      PROVE  t \in Terms(K, group) <=> \E k \in Upto(K) : t = <<k, k \div group>>
  BY DEF Terms
<1> HIDE DEF T
<1>4. ASSUME NEW l \in DOMAIN E
      PROVE  T[l] \subseteq Terms(K, group)
  <2> SUFFICES ASSUME NEW t \in T[l] PROVE t \in Terms(K, group)
    OBVIOUS
  <2>1. PICK k \in E[l] : t = <<k, k \div group>>
    BY <1>2
  <2>2. k \in Upto(K)
    BY DEF Shares
  <2> QED
    BY <1>3, <2>1, <2>2
<1>5. ASSUME NEW t \in Terms(K, group)
      PROVE  \E l \in DOMAIN E : t \in T[l]
  <2>1. PICK k \in Upto(K) : t = <<k, k \div group>>
    BY <1>3
  <2>2. PICK l \in DOMAIN E : k \in E[l]
    BY DEF Shares
  <2> QED
    BY <1>2, <2>1, <2>2
<1>6. ASSUME NEW l \in DOMAIN E, NEW j \in DOMAIN E, NEW t, t \in T[l], t \in T[j]
      PROVE  l = j
  <2>1. PICK k \in E[l] : t = <<k, k \div group>>
    BY <1>2, <1>6
  <2>2. PICK h \in E[j] : t = <<h, h \div group>>
    BY <1>2, <1>6
  <2>3. k = h
    BY <2>1, <2>2
  <2> QED
    BY <2>3 DEF Shares
<1>7. Shares(T, Terms(K, group))
  BY <1>1, <1>4, <1>5, <1>6 DEF Shares
<1> QED
  BY <1>7 DEF T

\* The elements of a lane are those of the chunks it strides over.
LEMMA ChunkElemsAre ==
    ASSUME NEW lane \in Upto(DotLanes), NEW chunk \in Nat \ {0}, NEW K \in Nat, NEW x
    PROVE  x \in ChunkElems(lane, chunk, K) <=>
             x \in Nat /\ x \div chunk < K \div chunk /\ (x \div chunk) % DotLanes = lane
<1>0. DotLanes \in Nat \ {0}
  BY GemmAssumption
<1>1. PICK n \in Nat : n = K \div chunk
  BY DivisionOf
<1>2. ASSUME NEW c
      PROVE  c \in Stride(lane, DotLanes, n) <=> c \in Nat /\ c < n /\ c % DotLanes = lane
  BY <1>0, StrideIs
<1>3. x \in ChunkElems(lane, chunk, K) <=>
        \E c \in Stride(lane, DotLanes, n) : x \in (c * chunk)..(c * chunk + chunk - 1)
  BY <1>1 DEF ChunkElems
<1>4. ASSUME NEW c \in Nat
      PROVE  x \in (c * chunk)..(c * chunk + chunk - 1) <=> x \in Nat /\ x \div chunk = c
  <2>1. PICK b \in Nat : b = c * chunk
    BY ProductNat
  <2>2. ASSUME x \in b..(b + chunk - 1)
        PROVE  x \in Nat /\ x \div chunk = c
    <3>1. PICK r \in Nat : x = b + r /\ r < chunk
      <4>1. x - b \in Nat /\ x = b + (x - b) /\ x - b < chunk
        BY <2>1, <2>2
      <4> QED
        BY <4>1
    <3>2. r \in Upto(chunk)
      BY <3>1 DEF Upto
    <3>3. (c * chunk + r) \div chunk = c /\ c * chunk + r \in Nat
      BY <3>2, DivisionUnique
    <3> QED
      BY <2>1, <3>1, <3>3
  <2>3. ASSUME x \in Nat, x \div chunk = c
        PROVE  x \in b..(b + chunk - 1)
    <3>1. x = (x \div chunk) * chunk + (x % chunk) /\ x % chunk \in Upto(chunk)
      BY <2>3, DivisionOf
    <3>2. PICK r \in Upto(chunk) : r = x % chunk
      BY <3>1
    <3>3. x = b + r /\ r \in Nat /\ r < chunk
      BY <2>1, <2>3, <3>1, <3>2 DEF Upto
    <3> QED
      BY <2>1, <3>3
  <2> QED
    BY <2>1, <2>2, <2>3
<1>5. ASSUME NEW c, c \in Stride(lane, DotLanes, n), x \in (c * chunk)..(c * chunk + chunk - 1)
      PROVE  x \in Nat /\ x \div chunk < n /\ (x \div chunk) % DotLanes = lane
  <2>1. c \in Nat /\ c < n /\ c % DotLanes = lane
    BY <1>2, <1>5
  <2>2. x \in Nat /\ x \div chunk = c
    BY <1>4, <1>5, <2>1
  <2> QED
    BY <2>1, <2>2
<1>6. ASSUME x \in Nat, x \div chunk < n, (x \div chunk) % DotLanes = lane
      PROVE  \E c \in Stride(lane, DotLanes, n) : x \in (c * chunk)..(c * chunk + chunk - 1)
  <2>1. PICK c \in Nat : c = x \div chunk
    BY <1>6, DivisionOf
  <2>2. c \in Stride(lane, DotLanes, n)
    BY <1>2, <1>6, <2>1
  <2>3. x \in (c * chunk)..(c * chunk + chunk - 1)
    BY <1>4, <1>6, <2>1
  <2> QED
    BY <2>2, <2>3
<1> QED
  BY <1>1, <1>3, <1>5, <1>6

\* Whole chunks: the lanes share the reduction.
LEMMA ChunksShare ==
    ASSUME NEW chunk \in Nat \ {0}, NEW K \in Nat, K % chunk = 0, NEW E,
           E = [lane \in Upto(DotLanes) |-> ChunkElems(lane, chunk, K)]
    PROVE  Shares(E, Upto(K))
<1>0. DotLanes \in Nat \ {0}
  BY GemmAssumption
<1>1. PICK n \in Nat : n = K \div chunk
  BY DivisionOf
<1>2. n * chunk = K
  <2>1. K = (K \div chunk) * chunk + (K % chunk)
    BY DivisionOf
  <2>2. n * chunk \in Nat
    BY <1>1, ProductNat
  <2> QED
    BY <1>1, <2>1, <2>2
<1>3. ASSUME NEW lane \in Upto(DotLanes), NEW x
      PROVE  x \in E[lane] <=> x \in Nat /\ x < K /\ (x \div chunk) % DotLanes = lane
  <2>1. x \in ChunkElems(lane, chunk, K) <=> x \in Nat /\ x \div chunk < n /\ (x \div chunk) % DotLanes = lane
    BY <1>1, ChunkElemsAre
  <2>2. x \in Nat => (x \div chunk < n <=> x < K)
    BY <1>1, <1>2, QuotientBelow
  <2> QED
    BY <2>1, <2>2
<1>4. ASSUME NEW lane \in Upto(DotLanes)
      PROVE  E[lane] \subseteq Upto(K)
  BY <1>3 DEF Upto
<1>5. ASSUME NEW x \in Upto(K)
      PROVE  \E lane \in Upto(DotLanes) : x \in E[lane]
  <2>1. x \in Nat /\ x < K
    BY DEF Upto
  <2>2. PICK q \in Nat : q = x \div chunk
    BY <2>1, DivisionOf
  <2>3. q % DotLanes \in Upto(DotLanes)
    BY <1>0, DivisionOf
  <2> QED
    BY <1>3, <2>1, <2>2, <2>3
<1> QED
  BY <1>3, <1>4, <1>5 DEF Shares

\* mxfp4_gemv and the GGUF rows: a block per chunk.
THEOREM Mxfp4GemvRight ==
    ASSUME NEW N \in Nat, NEW chunk \in Nat \ {0}, NEW K \in Nat, K % chunk = 0
    PROVE  KernelRight(Mxfp4Gemv(N, K, chunk)) /\ KernelRight(GgufGemv(N, K, chunk))
<1> DEFINE E == [lane \in Upto(DotLanes) |-> ChunkElems(lane, chunk, K)]
           T == [lane \in Upto(DotLanes) |-> {<<k, k \div chunk>> : k \in ChunkElems(lane, chunk, K)}]
<1>1. Shares(E, Upto(K))
  BY ChunksShare
<1>2. LaneTerms(E, chunk) = T
  BY DEF LaneTerms
<1>3. Mxfp4Gemv(N, K, chunk) = Dots(1, N, K, chunk, T)
  BY DEF Mxfp4Gemv
<1>4. DOMAIN T = Upto(DotLanes)
  OBVIOUS
<1> HIDE DEF T, E
<1>5. Shares(T, Terms(K, chunk))
  BY <1>1, <1>2, LaneTermsShare
<1>6. KernelRight(Dots(1, N, K, chunk, T))
  BY <1>4, <1>5, DotsRight
<1>7. GgufGemv(N, K, chunk) = Mxfp4Gemv(N, K, chunk)
  BY DEF GgufGemv
<1> QED
  BY <1>3, <1>6, <1>7

\* nvfp4_gemv, for one row of activations and for M: a chunk is two blocks.
THEOREM Nvfp4MtiledRight ==
    ASSUME NEW M \in Nat, NEW N \in Nat, NEW half \in Nat \ {0}, NEW K \in Nat, K % (2 * half) = 0
    PROVE  KernelRight(Nvfp4Mtiled(M, N, K, 2 * half))
<1> DEFINE chunk == 2 * half
           E == [lane \in Upto(DotLanes) |-> ChunkElems(lane, chunk, K)]
           block(k) == 2 * (k \div chunk) + (IF k % chunk < chunk \div 2 THEN 0 ELSE 1)
           T == [lane \in Upto(DotLanes) |-> {<<k, block(k)>> : k \in ChunkElems(lane, chunk, K)}]
<1>0. chunk \in Nat \ {0} /\ chunk \div 2 = half
  OBVIOUS
<1>1. Shares(E, Upto(K))
  BY <1>0, ChunksShare
<1>2. ASSUME NEW lane \in Upto(DotLanes), NEW k \in ChunkElems(lane, chunk, K)
      PROVE  block(k) = k \div half
  <2>1. k \in Nat
    BY <1>0, ChunkElemsAre
  <2> QED
    BY <1>0, <2>1, BlockOf
<1>3. DOMAIN E = Upto(DotLanes) /\ DOMAIN T = Upto(DotLanes)
  OBVIOUS
<1>4. ASSUME NEW lane \in Upto(DotLanes)
      PROVE  T[lane] = {<<k, k \div half>> : k \in E[lane]}
  <2>1. T[lane] = {<<k, block(k)>> : k \in ChunkElems(lane, chunk, K)}
    OBVIOUS
  <2>2. E[lane] = ChunkElems(lane, chunk, K)
    OBVIOUS
  <2> HIDE DEF T, E, block
  <2> QED
    BY <1>2, <2>1, <2>2
<1>5. Nvfp4Mtiled(M, N, K, chunk) = Dots(M, N, K, half, T)
  BY <1>0 DEF Nvfp4Mtiled
<1>6. T = [lane \in Upto(DotLanes) |-> T[lane]]
  OBVIOUS
<1> HIDE DEF T, E
<1>7. LaneTerms(E, half) = T
  BY <1>3, <1>4, <1>6 DEF LaneTerms
<1>8. Shares(T, Terms(K, half))
  BY <1>1, <1>7, LaneTermsShare
<1>9. KernelRight(Dots(M, N, K, half, T))
  BY <1>3, <1>8, DotsRight
<1> QED
  BY <1>5, <1>9

\* The elements of a lane: its chunks and, past the last, its bytes.
Int4Elems(lane, K, chunk) ==
    ChunkElems(lane, chunk, K)
      \cup {k \in ((K \div chunk) * chunk)..(K - 1) : ((k - (K \div chunk) * chunk) \div 2) % DotLanes = lane}

LEMMA Int4ElemsShare ==
    ASSUME NEW chunk \in Nat \ {0}, NEW K \in Nat, NEW E,
           E = [lane \in Upto(DotLanes) |-> Int4Elems(lane, K, chunk)]
    PROVE  Shares(E, Upto(K))
<1>0. DotLanes \in Nat \ {0}
  BY GemmAssumption
<1>1. PICK n \in Nat : n = K \div chunk
  BY DivisionOf
<1>2. PICK tail \in Nat : tail = n * chunk
  BY <1>1, ProductNat
<1>3. tail <= K
  <2>1. K = (K \div chunk) * chunk + (K % chunk) /\ K % chunk \in Upto(chunk)
    BY DivisionOf
  <2>2. PICK r \in Upto(chunk) : r = K % chunk
    BY <2>1
  <2>3. K = tail + r /\ r \in Nat
    BY <1>1, <1>2, <2>1, <2>2 DEF Upto
  <2> QED
    BY <1>2, <2>3
<1>4. ASSUME NEW lane \in Upto(DotLanes), NEW x
      PROVE  x \in E[lane] <=>
               x \in Nat /\ x < K
               /\ (IF x < tail THEN (x \div chunk) % DotLanes = lane ELSE ((x - tail) \div 2) % DotLanes = lane)
  <2>1. x \in ChunkElems(lane, chunk, K) <=> x \in Nat /\ x \div chunk < n /\ (x \div chunk) % DotLanes = lane
    BY <1>1, ChunkElemsAre
  <2>2. x \in Nat => (x \div chunk < n <=> x < tail)
    BY <1>1, <1>2, QuotientBelow
  <2>3. x \in E[lane] <=>
          \/ x \in ChunkElems(lane, chunk, K)
          \/ x \in tail..(K - 1) /\ ((x - tail) \div 2) % DotLanes = lane
    BY <1>1, <1>2 DEF Int4Elems
  <2>4. x \in tail..(K - 1) <=> x \in Nat /\ x < K /\ ~(x < tail)
    BY <1>2
  <2> QED
    BY <1>2, <1>3, <2>1, <2>2, <2>3, <2>4
<1>5. ASSUME NEW lane \in Upto(DotLanes)
      PROVE  E[lane] \subseteq Upto(K)
  BY <1>4 DEF Upto
<1>6. ASSUME NEW x \in Upto(K)
      PROVE  \E lane \in Upto(DotLanes) : x \in E[lane]
  <2>1. x \in Nat /\ x < K
    BY DEF Upto
  <2>2. CASE x < tail
    <3>1. PICK q \in Nat : q = x \div chunk
      BY <2>1, DivisionOf
    <3>2. q % DotLanes \in Upto(DotLanes)
      BY <1>0, DivisionOf
    <3> QED
      BY <1>4, <2>1, <2>2, <3>1, <3>2
  <2>3. CASE ~(x < tail)
    <3>1. PICK q \in Nat : q = (x - tail) \div 2
      <4>1. x - tail \in Nat /\ 2 \in Nat \ {0}
        BY <1>2, <2>1, <2>3
      <4> QED
        BY <4>1, DivisionOf
    <3>2. q % DotLanes \in Upto(DotLanes)
      BY <1>0, DivisionOf
    <3> QED
      BY <1>4, <2>1, <2>3, <3>1, <3>2
  <2> QED
    BY <2>2, <2>3
<1> QED
  BY <1>4, <1>5, <1>6 DEF Shares

\* qgemv_int4: an element gets the scale of its own group, whether the groups
\* are whole chunks or only whole words, and so do the bytes of the tail.
THEOREM QGemvInt4Right ==
    ASSUME NEW N \in Nat, NEW K \in Nat, NEW half \in Nat \ {0}, NEW words \in Nat \ {0},
           NEW m \in Nat \ {0}
    PROVE  KernelRight(QGemvInt4(N, K, m * (half * 2), words * (half * 2), half * 2))
<1>1. PICK word \in Nat \ {0} : word = half * 2
  OBVIOUS
<1>2. PICK chunk \in Nat \ {0} : chunk = words * word
  BY SMT
<1>3. PICK group \in Nat \ {0} : group = m * word
  BY SMT
<1> DEFINE E == [lane \in Upto(DotLanes) |-> Int4Elems(lane, K, chunk)]
           tail == (K \div chunk) * chunk
           scaleOf(k) == IF group % chunk = 0 THEN ((k \div chunk) * chunk) \div group
                         ELSE ((k \div word) * word) \div group
           late(lane) == {k \in tail..(K - 1) : ((k - tail) \div 2) % DotLanes = lane}
           T == [lane \in Upto(DotLanes) |-> Int4Terms(lane, K, group, chunk, word)]
<1>4. Shares(E, Upto(K))
  BY Int4ElemsShare
<1>5. ASSUME NEW k \in Nat
      PROVE  scaleOf(k) = k \div group
  <2>1. CASE group % chunk = 0
    <3>1. PICK g \in Nat : g = group \div chunk
      BY DivisionOf
    <3>2. group = g * chunk /\ g \in Nat \ {0}
      <4>1. group = (group \div chunk) * chunk + (group % chunk)
        BY DivisionOf
      <4>2. g * chunk \in Nat
        BY ProductNat
      <4>3. group = g * chunk
        BY <2>1, <3>1, <4>1, <4>2
      <4>4. g # 0
        BY <4>3, SMT
      <4> QED
        BY <4>3, <4>4
    <3>3. ((k \div chunk) * chunk) \div (g * chunk) = k \div (g * chunk)
      BY <3>2, SameScale
    <3> QED
      BY <2>1, <3>2, <3>3
  <2>2. CASE group % chunk # 0
    <3>1. ((k \div word) * word) \div (m * word) = k \div (m * word)
      BY SameScale
    <3> QED
      BY <1>3, <2>2, <3>1
  <2> QED
    BY <2>1, <2>2
<1>6. ASSUME NEW k \in Nat
      PROVE  ((k \div 2) * 2) \div group = k \div group
  <2>1. m * half \in Nat \ {0} /\ (m * half) * 2 = group
    BY <1>1, <1>3, SMT
  <2>2. PICK h \in Nat \ {0} : h * 2 = group
    BY <2>1
  <2>3. ((k \div 2) * 2) \div (h * 2) = k \div (h * 2)
    BY SameScale
  <2> QED
    BY <2>2, <2>3
<1>7. ASSUME NEW lane \in Upto(DotLanes)
      PROVE  /\ E[lane] = ChunkElems(lane, chunk, K) \cup late(lane)
             /\ T[lane] = {<<k, scaleOf(k)>> : k \in ChunkElems(lane, chunk, K)}
                            \cup {<<k, ((k \div 2) * 2) \div group>> : k \in late(lane)}
  BY DEF Int4Elems, Int4Terms
<1>8. DOMAIN E = Upto(DotLanes) /\ DOMAIN T = Upto(DotLanes) /\ T = [lane \in Upto(DotLanes) |-> T[lane]]
  OBVIOUS
<1>9. ASSUME NEW lane \in Upto(DotLanes), NEW k \in E[lane]
      PROVE  k \in Nat
  BY <1>4 DEF Shares, Upto
<1>10. QGemvInt4(N, K, group, chunk, word) = Dots(1, N, K, group, T)
  BY DEF QGemvInt4
<1> HIDE DEF T, E, scaleOf, late, tail
<1>11. ASSUME NEW lane \in Upto(DotLanes)
       PROVE  T[lane] = {<<k, k \div group>> : k \in E[lane]}
  <2>1. \A k \in ChunkElems(lane, chunk, K) : scaleOf(k) = k \div group
    BY <1>5, <1>7, <1>9
  <2>2. \A k \in late(lane) : ((k \div 2) * 2) \div group = k \div group
    BY <1>6, <1>7, <1>9
  <2> QED
    BY <1>7, <2>1, <2>2
<1>12. LaneTerms(E, group) = T
  BY <1>8, <1>11 DEF LaneTerms
<1>13. Shares(T, Terms(K, group))
  BY <1>4, <1>12, LaneTermsShare
<1>14. KernelRight(Dots(1, N, K, group, T))
  BY <1>8, <1>13, DotsRight
<1> QED
  BY <1>1, <1>2, <1>3, <1>10, <1>14

-----------------------------------------------------------------------------
(* Items with a cell or a total of their own                                *)

\* The unit norm of the gated-delta-net queries and keys, in place.
THEOREM GdnL2NormRight ==
    ASSUME NEW rows \in Nat, NEW dk \in Nat \ {0}
    PROVE  KernelRight(GdnL2Norm(rows, dk))
<1> DEFINE row(i) == At("qk", i[1] * dk, Upto(dk))
           d == [i \in Flat(rows) |-> Does(row(i), row(i), Into(<<"ss", i[1]>>, row(i)))]
           W == [i \in Flat(rows) |-> row(i)]
           A == [i \in Flat(rows) |-> Into(<<"ss", i[1]>>, row(i))]
           out == At("qk", 0, Upto(rows * dk))
           sums == UNION {Into(<<"ss", r>>, At("qk", r * dk, Upto(dk))) : r \in Upto(rows)}
           k == GdnL2Norm(rows, dk)
<1>1. k = Kernel(<<d>>, out, sums)
  BY DEF GdnL2Norm
<1>2. Shares(W, out)
  BY RowEachShares
<1>3. Shares(A, sums)
  <2> DEFINE C == [e \in Upto(rows) |-> <<"ss", e>>]
             T == [e \in Upto(rows) |-> At("qk", e * dk, Upto(dk))]
             L == Upto(rows)
  <2>1. /\ DOMAIN A = Flat(rows)
        /\ \A i \in Flat(rows) : A[i] = IF i[1] \in L THEN Into(C[i[1]], T[i[1]]) ELSE {}
    BY FlatItems
  <2>2. \A a, b \in L : C[a] = C[b] => a = b
    OBVIOUS
  <2>3. \A z : z \in sums <=> \E e \in L : z \in Into(C[e], T[e])
    OBVIOUS
  <2>4. L \subseteq Upto(rows)
    OBVIOUS
  <2> HIDE DEF A, C, T, L, sums
  <2>5. NumberedSums(A, rows, L, C, T, sums)
    BY <2>1, <2>2, <2>3, <2>4 DEF NumberedSums
  <2> QED
    BY <2>5, SumsShared
<1>4. /\ DOMAIN W = DOMAIN d /\ DOMAIN A = DOMAIN d
      /\ \A i \in DOMAIN d : d[i].wr = W[i] /\ d[i].rd = W[i] /\ d[i].add = A[i]
  BY DEF Does
<1>5. \A i \in DOMAIN d : \A c \in W[i] : IsGlobal(c)
  BY CellOfBuffer
<1> HIDE DEF d, W, A, out, sums, k
<1>6. /\ \A i \in DOMAIN d : d[i].wr = W[i] /\ d[i].add = A[i] /\ \A c \in d[i].rd \cup W[i] : IsGlobal(c)
      /\ \A i, j \in DOMAIN d : \A c : c \in W[i] /\ c \in d[j].rd => i = j
  BY <1>2, <1>4, <1>5 DEF Shares
<1>7. KernelRight(k)
  BY <1>1, <1>2, <1>3, <1>4, <1>6, OneRight
<1> QED
  BY <1>7 DEF k

\* selective_scan: an item runs over the sequence of its channel.
THEOREM SelectiveScanRight ==
    ASSUME NEW channels \in Nat, NEW seq \in Nat \ {0}
    PROVE  KernelRight(SelectiveScan(channels, seq))
<1> DEFINE row(i) == At("y", i[1] * seq, Upto(seq))
           d == [i \in Flat(channels) |-> Does({}, row(i), {})]
           W == [i \in Flat(channels) |-> row(i)]
           out == At("y", 0, Upto(channels * seq))
           k == SelectiveScan(channels, seq)
<1>1. k = Kernel(<<d>>, out, {})
  BY DEF SelectiveScan
<1>2. Shares(W, out)
  BY RowEachShares
<1>3. DOMAIN W = DOMAIN d /\ \A i \in DOMAIN d : d[i].wr = W[i] /\ d[i].rd = {} /\ d[i].add = {}
  BY DEF Does
<1>4. \A i \in DOMAIN d : \A c \in W[i] : IsGlobal(c)
  BY CellOfBuffer
<1> HIDE DEF d, W, out, k
<1>5. KernelRight(k)
  BY <1>1, <1>2, <1>3, <1>4, MapRight
<1> QED
  BY <1>5 DEF k

\* The second kernel of fp8_gemv: an item adds up the slabs of its column.
THEOREM Fp8ReduceRight ==
    ASSUME NEW N \in Nat, NEW K, NEW slabs
    PROVE  KernelRight(Fp8Reduce(N, K, slabs))
<1> DEFINE parts(n) == {<<"part", s * N + n>> : s \in Upto(SlabsUsed(K, slabs))}
           d == [i \in Flat(N) |-> Does(parts(i[1]), {<<"y", i[1]>>}, Into(<<"y", i[1]>>, parts(i[1])))]
           C == [e \in Upto(N) |-> <<"y", e>>]
           T == [e \in Upto(N) |-> parts(e)]
           W == [i \in Flat(N) |-> {<<"y", i[1]>>}]
           A == [i \in Flat(N) |-> Into(<<"y", i[1]>>, parts(i[1]))]
           out == At("y", 0, Upto(N))
           sums == UNION {Into(<<"y", n>>, parts(n)) : n \in Upto(N)}
           L == Upto(N)
           k == Fp8Reduce(N, K, slabs)
<1>1. k = Kernel(<<d>>, out, sums)
  BY DEF Fp8Reduce
<1>2. Shares(W, out)
  BY ElementShares
<1>3. \A n : \A c \in parts(n) : IsGlobal(c) /\ c[1] = "part"
  BY GlobalCell
<1> HIDE DEF parts
<1>4. DOMAIN A = Flat(N)
      /\ \A i \in Flat(N) : A[i] = IF i[1] \in L THEN Into(C[i[1]], T[i[1]]) ELSE {}
  BY FlatItems
<1>5. NumberedSums(A, N, L, C, T, sums)
  BY <1>4 DEF NumberedSums
<1>6. /\ DOMAIN W = DOMAIN d /\ DOMAIN A = DOMAIN d
      /\ \A i \in DOMAIN d : d[i].wr = W[i] /\ d[i].rd = parts(i[1]) /\ d[i].add = A[i]
  BY DEF Does
<1>7. \A i \in DOMAIN d : \A c \in W[i] : IsGlobal(c) /\ c[1] = "y"
  BY GlobalCell
<1> HIDE DEF C, T, A, L, d, W, out, sums, k
<1>9. Shares(A, sums)
  BY <1>5, SumsShared
<1>10. /\ \A i \in DOMAIN d : d[i].wr = W[i] /\ d[i].add = A[i] /\ \A c \in d[i].rd \cup W[i] : IsGlobal(c)
       /\ \A i, j \in DOMAIN d : \A c : c \in W[i] /\ c \in d[j].rd => i = j
  BY <1>3, <1>6, <1>7
<1>11. KernelRight(k)
  BY <1>1, <1>2, <1>6, <1>9, <1>10, OneRight
<1> QED
  BY <1>11 DEF k

\* lora_shrink: rows of no adapter are cleared, the others get every element
\* of their input once.
THEOREM LoraShrinkRight ==
    ASSUME NEW index \in Seq(Int), NEW hidden, NEW rank \in Nat \ {0}, NEW loras
    PROVE  KernelRight(LoraShrink(index, hidden, rank, loras))
<1> DEFINE n == Len(index) * rank
           has(b) == HasLora(index[b + 1], loras)
           terms(b) == At("in", b * hidden, Upto(hidden))
           does(i) == LET b == i[1] \div rank
                      IN  IF has(b) THEN Does(terms(b), {<<"low", i[1]>>}, Into(<<"low", i[1]>>, terms(b)))
                          ELSE Does({}, {<<"low", i[1]>>}, {})
           d == [i \in Flat(n) |-> does(i)]
           L == {e \in Upto(n) : has(e \div rank)}
           C == [e \in Upto(n) |-> <<"low", e>>]
           T == [e \in Upto(n) |-> terms(e \div rank)]
           W == [i \in Flat(n) |-> {<<"low", i[1]>>}]
           A == [i \in Flat(n) |-> d[i].add]
           out == At("low", 0, Upto(n))
           sums == UNION {Into(<<"low", e>>, terms(e \div rank)) : e \in L}
           k == LoraShrink(index, hidden, rank, loras)
<1>1. k = Kernel(<<d>>, out, sums)
  BY DEF LoraShrink
<1>2. n \in Nat
  BY ProductNat
<1> HIDE DEF n
<1>3. Shares(W, out)
  BY <1>2, ElementShares
<1>4. \A b : \A c \in terms(b) : IsGlobal(c) /\ c[1] = "in"
  BY CellOfBuffer
<1> HIDE DEF has, terms
<1>5. ASSUME NEW i \in Flat(n)
      PROVE  /\ d[i].wr = W[i] /\ \A c \in d[i].rd : IsGlobal(c) /\ c[1] = "in"
             /\ A[i] = IF i[1] \in L THEN Into(C[i[1]], T[i[1]]) ELSE {}
  <2>1. i[1] \in Upto(n)
    BY FlatItems
  <2>2. CASE has(i[1] \div rank)
    BY <1>4, <2>1, <2>2 DEF Does
  <2>3. CASE ~has(i[1] \div rank)
    BY <2>1, <2>3 DEF Does
  <2> QED
    BY <2>2, <2>3
<1>7. /\ DOMAIN d = Flat(n) /\ DOMAIN W = Flat(n) /\ DOMAIN A = Flat(n)
      /\ \A i \in Flat(n) : d[i].add = A[i]
  OBVIOUS
<1>6. NumberedSums(A, n, L, C, T, sums)
  <2>1. \A a, b \in L : C[a] = C[b] => a = b
    OBVIOUS
  <2>2. \A z : z \in sums <=> \E e \in L : z \in Into(C[e], T[e])
    OBVIOUS
  <2>3. L \subseteq Upto(n)
    OBVIOUS
  <2> HIDE DEF A, C, T, L, sums
  <2> QED
    BY <1>5, <1>7, <2>1, <2>2, <2>3 DEF NumberedSums
<1>8. \A i \in Flat(n) : \A c \in W[i] : IsGlobal(c) /\ c[1] = "low"
  BY GlobalCell
<1> HIDE DEF L, C, T, A, sums, d, W, out, k
<1>10. Shares(A, sums)
  BY <1>6, SumsShared
<1>11. /\ \A i \in DOMAIN d : d[i].wr = W[i] /\ d[i].add = A[i] /\ \A c \in d[i].rd \cup W[i] : IsGlobal(c)
       /\ \A i, j \in DOMAIN d : \A c : c \in W[i] /\ c \in d[j].rd => i = j
  BY <1>5, <1>7, <1>8
<1>12. DOMAIN W = DOMAIN d /\ DOMAIN A = DOMAIN d
  BY <1>7
<1>13. KernelRight(k)
  BY <1>1, <1>3, <1>10, <1>11, <1>12, OneRight
<1> QED
  BY <1>13 DEF k

\* lora_expand: rows of an adapter add their product to a slice of the output,
\* the others leave it alone.
THEOREM LoraExpandRight ==
    ASSUME NEW index \in Seq(Int), NEW rank, NEW dim \in Nat \ {0}, NEW loras,
           NEW offset \in Nat, NEW stride \in Nat, offset + dim <= stride
    PROVE  KernelRight(LoraExpand(index, rank, dim, loras, offset, stride))
<1> DEFINE n == Len(index) * dim
           has(b) == HasLora(index[b + 1], loras)
           dst(e) == <<"out", (e \div dim) * stride + offset + (e % dim)>>
           terms(b) == At("low", b * rank, Upto(rank))
           does(i) == LET b == i[1] \div dim
                      IN  IF has(b) THEN Does(terms(b) \cup {dst(i[1])}, {dst(i[1])}, Into(dst(i[1]), terms(b)))
                          ELSE Idle
           d == [i \in Flat(n) |-> does(i)]
           L == {e \in Upto(n) : has(e \div dim)}
           C == [e \in Upto(n) |-> dst(e)]
           T == [e \in Upto(n) |-> terms(e \div dim)]
           W == [i \in Flat(n) |-> d[i].wr]
           A == [i \in Flat(n) |-> d[i].add]
           out == {dst(e) : e \in L}
           sums == UNION {Into(dst(e), terms(e \div dim)) : e \in L}
           k == LoraExpand(index, rank, dim, loras, offset, stride)
<1>1. k = Kernel(<<d>>, out, sums)
  BY DEF LoraExpand
<1>2. n \in Nat
  BY ProductNat
<1> HIDE DEF n
<1>3. \A b : \A c \in terms(b) : IsGlobal(c) /\ c[1] = "low"
  BY CellOfBuffer
<1>4. \A e : IsGlobal(dst(e)) /\ dst(e)[1] = "out"
  BY GlobalCell
<1>5. ASSUME NEW a \in Nat, NEW b \in Nat, dst(a) = dst(b)
      PROVE  a = b
  <2>1. stride \in Nat \ {0}
    OBVIOUS
  <2>2. PICK q \in Nat : \E r \in Nat : q = a \div dim /\ r = a % dim /\ r < dim /\ a = q * dim + r
    <3>1. a \div dim \in Nat /\ a % dim \in Upto(dim) /\ a = (a \div dim) * dim + (a % dim)
      BY DivisionOf
    <3> QED
      BY <3>1 DEF Upto
  <2>21. PICK r \in Nat : q = a \div dim /\ r = a % dim /\ r < dim /\ a = q * dim + r
    BY <2>2
  <2>3. PICK s \in Nat : \E t \in Nat : s = b \div dim /\ t = b % dim /\ t < dim /\ b = s * dim + t
    <3>1. b \div dim \in Nat /\ b % dim \in Upto(dim) /\ b = (b \div dim) * dim + (b % dim)
      BY DivisionOf
    <3> QED
      BY <3>1 DEF Upto
  <2>31. PICK t \in Nat : s = b \div dim /\ t = b % dim /\ t < dim /\ b = s * dim + t
    BY <2>3
  <2>4. offset + r \in Upto(stride) /\ offset + t \in Upto(stride)
    BY <2>21, <2>31 DEF Upto
  <2>5. q * stride \in Nat /\ s * stride \in Nat
    BY <2>1, ProductNat
  <2>6. q * stride + (offset + r) = s * stride + (offset + t)
    BY <1>5, <2>21, <2>31, <2>5
  <2>7. (q * stride + (offset + r)) \div stride = q /\ (s * stride + (offset + t)) \div stride = s
    BY <2>1, <2>4, DivisionUnique
  <2>8. q = s
    BY <2>6, <2>7
  <2>9. r = t
    BY <2>5, <2>6, <2>8
  <2> QED
    BY <2>21, <2>31, <2>8, <2>9
<1> HIDE DEF has, terms, dst
<1>6. ASSUME NEW i \in Flat(n)
      PROVE  /\ W[i] = IF i[1] \in L THEN {C[i[1]]} ELSE {}
             /\ A[i] = IF i[1] \in L THEN Into(C[i[1]], T[i[1]]) ELSE {}
             /\ \A c \in d[i].rd : IsGlobal(c) /\ (c[1] = "low" \/ c \in W[i])
             /\ \A c \in W[i] : IsGlobal(c) /\ c[1] = "out"
  <2>1. i[1] \in Upto(n)
    BY FlatItems
  <2>2. CASE has(i[1] \div dim)
    BY <1>3, <1>4, <2>1, <2>2 DEF Does
  <2>3. CASE ~has(i[1] \div dim)
    BY <2>1, <2>3 DEF Does, Idle
  <2> QED
    BY <2>2, <2>3
<1>8. \A a, b \in L : C[a] = C[b] => a = b
  <2>1. \A a \in L : a \in Nat /\ C[a] = dst(a)
    BY DEF Upto
  <2> HIDE DEF L, C
  <2> QED
    BY <1>5, <2>1
<1>9. /\ DOMAIN d = Flat(n) /\ DOMAIN W = Flat(n) /\ DOMAIN A = Flat(n)
      /\ \A i \in Flat(n) : d[i].wr = W[i] /\ d[i].add = A[i]
  OBVIOUS
<1>7. NumberedSums(A, n, L, C, T, sums) /\ NumberedCells(W, n, L, C, out)
  <2>2. /\ \A z : z \in sums <=> \E e \in L : z \in Into(C[e], T[e])
        /\ \A c : c \in out <=> \E e \in L : c = C[e]
    OBVIOUS
  <2>3. L \subseteq Upto(n)
    OBVIOUS
  <2> HIDE DEF A, C, T, L, W, sums, out
  <2> QED
    BY <1>6, <1>8, <1>9, <2>2, <2>3 DEF NumberedSums, NumberedCells
<1> HIDE DEF L, C, T, A, sums, d, W, out, k
<1>10. Shares(A, sums)
  BY <1>7, SumsShared
<1>11. Shares(W, out)
  BY <1>7, CellsShared
<1>12. Shares(A, sums) /\ Shares(W, out)
  BY <1>10, <1>11
<1>13. /\ \A i \in DOMAIN d : d[i].wr = W[i] /\ d[i].add = A[i] /\ \A c \in d[i].rd \cup W[i] : IsGlobal(c)
       /\ DOMAIN W = DOMAIN d /\ DOMAIN A = DOMAIN d
  BY <1>6, <1>9
<1>14. \A i, j \in DOMAIN d : \A c : c \in W[i] /\ c \in d[j].rd => i = j
  BY <1>6, <1>9, <1>12 DEF Shares
<1>15. KernelRight(k)
  BY <1>1, <1>12, <1>13, <1>14, OneRight
<1> QED
  BY <1>15 DEF k

-----------------------------------------------------------------------------
(* Attention, one item per head and query                                   *)

\* The loop visits what is due, and a row is stored once per output buffer.
LEMMA AttendsRight ==
    ASSUME NEW heads \in Nat, NEW kvHeads, NEW seqQ \in Nat \ {0}, NEW seqK, NEW visits, NEW due,
           NEW outs, "K" \notin outs, "Q" \notin outs,
           \A qi \in Upto(seqQ) : visits[qi] = due[qi]
    PROVE  KernelRight(Attends(heads, kvHeads, seqQ, seqK, visits, due, outs))
<1> DEFINE n == heads * seqQ
           kvHead(h) == h \div (heads \div kvHeads)
           keys(i, which) == {Key(kvHead(i[1] \div seqQ), seqK, ki) : ki \in which[i[1] % seqQ]}
           row(i) == {<<o, i[1]>> : o \in outs}
           d == [i \in Flat(n) |-> Does(keys(i, visits) \cup {<<"Q", i[1]>>}, row(i),
                                        Into(<<"O", i[1]>>, keys(i, visits)))]
           W == [i \in Flat(n) |-> row(i)]
           A == [i \in Flat(n) |-> Into(<<"O", i[1]>>, keys(i, visits))]
           out == UNION {At(o, 0, Upto(n)) : o \in outs}
           sums == UNION {Into(<<"O", i[1]>>, keys(i, due)) : i \in Flat(n)}
           k == Attends(heads, kvHeads, seqQ, seqK, visits, due, outs)
<1>1. k = Kernel(<<d>>, out, sums)
  BY DEF Attends
<1>2. n \in Nat
  BY ProductNat
<1> HIDE DEF n
<1>3. \A i, which : \A c \in keys(i, which) : IsGlobal(c) /\ c[1] = "K"
  BY GlobalCell DEF Key
<1>4. ASSUME NEW i \in Flat(n)
      PROVE  keys(i, visits) = keys(i, due)
  <2>1. i[1] % seqQ \in Upto(seqQ)
    BY FlatItems, DivisionOf
  <2> QED
    BY <2>1
<1> HIDE DEF keys
<1>5. \A i \in Flat(n) : \A c : c \in W[i] <=> \E o \in outs : c = <<o, i[1]>>
  OBVIOUS
<1>6. \A c : c \in out <=> \E o \in outs : c \in At(o, 0, Upto(n))
  OBVIOUS
<1>7. \A z : z \in sums <=> \E i \in Flat(n) : z \in Into(<<"O", i[1]>>, keys(i, due))
  OBVIOUS
<1>8. /\ DOMAIN d = Flat(n) /\ DOMAIN W = Flat(n) /\ DOMAIN A = Flat(n)
      /\ \A i \in Flat(n) : /\ d[i].rd = keys(i, visits) \cup {<<"Q", i[1]>>}
                            /\ d[i].wr = W[i] /\ d[i].add = A[i]
                            /\ A[i] = Into(<<"O", i[1]>>, keys(i, visits))
  BY DEF Does
<1> HIDE DEF d, W, A, out, sums, k
<1>9. \A i \in Flat(n) : i[1] \in Upto(n) /\ i = <<i[1], 0>>
  BY FlatItems
<1>10. Shares(W, out)
  <2>1. ASSUME NEW i \in Flat(n), NEW c \in W[i]
        PROVE  c \in out
    <3>1. PICK o \in outs : c = <<o, i[1]>>
      BY <1>5
    <3>2. c \in At(o, 0, Upto(n))
      <4>1. i[1] \in Nat /\ i[1] < n
        BY <1>2, <1>9 DEF Upto
      <4> QED
        BY <1>2, <3>1, <4>1, InArray DEF CellOf
    <3> QED
      BY <1>6, <3>2
  <2>2. ASSUME NEW c \in out
        PROVE  \E i \in Flat(n) : c \in W[i]
    <3>1. PICK o \in outs : c \in At(o, 0, Upto(n))
      BY <1>6
    <3>2. c = <<o, c[2]>> /\ c[2] \in Upto(n)
      BY <1>2, <3>1, InArray DEF CellOf, Upto
    <3>3. <<c[2], 0>> \in Flat(n) /\ <<c[2], 0>>[1] = c[2]
      BY <3>2, ItemOf
    <3> QED
      BY <1>5, <3>2, <3>3
  <2>3. \A i, j \in Flat(n) : \A c : c \in W[i] /\ c \in W[j] => i = j
    BY <1>5, <1>9
  <2> QED
    BY <1>8, <2>1, <2>2, <2>3 DEF Shares
<1>11. Shares(A, sums)
  <2>1. \A i : \A S : \A z : z \in Into(<<"O", i[1]>>, S) => z[1] = <<"O", i[1]>>
    BY DEF Into
  <2>2. \A i \in Flat(n) : A[i] = Into(<<"O", i[1]>>, keys(i, due))
    BY <1>4, <1>8
  <2>3. ASSUME NEW i \in Flat(n), NEW j \in Flat(n), NEW z, z \in A[i], z \in A[j]
        PROVE  i = j
    <3>1. z \in Into(<<"O", i[1]>>, keys(i, due)) /\ z \in Into(<<"O", j[1]>>, keys(j, due))
      BY <2>2, <2>3
    <3>3. z[1] = <<"O", i[1]>> /\ z[1] = <<"O", j[1]>>
      BY <2>1, <3>1
    <3>2. i[1] = j[1]
      BY <3>3
    <3> QED
      BY <1>9, <3>2
  <2>4. ASSUME NEW i \in Flat(n)
        PROVE  A[i] \subseteq sums
    BY <1>7, <2>2
  <2>5. ASSUME NEW z \in sums
        PROVE  \E i \in Flat(n) : z \in A[i]
    <3>1. PICK i \in Flat(n) : z \in Into(<<"O", i[1]>>, keys(i, due))
      BY <1>7
    <3> QED
      BY <2>2, <3>1
  <2> QED
    BY <1>8, <2>3, <2>4, <2>5 DEF Shares
<1>15. \A i : \A c \in W[i] : i \in Flat(n) => IsGlobal(c) /\ c[1] \in outs /\ c = <<c[1], i[1]>>
  BY <1>5, GlobalCell
<1>16. ASSUME NEW i \in Flat(n), NEW c \in d[i].rd
       PROVE  IsGlobal(c) /\ c[1] \in {"K", "Q"}
  <2>1. c \in keys(i, visits) \/ c = <<"Q", i[1]>>
    BY <1>8, ZenonT(40)
  <2> QED
    BY <1>3, <2>1, GlobalCell
<1>12. /\ DOMAIN W = DOMAIN d /\ DOMAIN A = DOMAIN d
       /\ \A i \in DOMAIN d : d[i].wr = W[i] /\ d[i].add = A[i] /\ \A c \in d[i].rd \cup W[i] : IsGlobal(c)
  BY <1>8, <1>15, <1>16
<1>13. \A i, j \in DOMAIN d : \A c : c \in W[i] /\ c \in d[j].rd => i = j
  BY <1>8, <1>15, <1>16
<1>14. KernelRight(k)
  BY <1>1, <1>10, <1>11, <1>12, <1>13, OneRight
<1> QED
  BY <1>14 DEF k

LEMMA NoWrap ==
    ASSUME NEW a \in Nat, a < SizeMod
    PROVE  /\ \A b \in 0..a : SizeMinus(a, b) = a - b
           /\ \A b \in Nat : a + b < SizeMod => SizePlus(a, b) = a + b
<1>1. SizeMod \in Nat \ {0}
  BY SizeAssumption
<1>2. \A x \in Nat : x < SizeMod => x % SizeMod = x /\ (x + SizeMod) % SizeMod = x
  BY <1>1, SMT
<1>3. ASSUME NEW b \in 0..a
      PROVE  SizeMinus(a, b) = a - b
  <2>1. a - b \in Nat /\ a - b < SizeMod /\ a + SizeMod - b = (a - b) + SizeMod
    BY <1>1
  <2> QED
    BY <1>2, <2>1 DEF SizeMinus
<1>4. ASSUME NEW b \in Nat, a + b < SizeMod
      PROVE  SizePlus(a, b) = a + b
  BY <1>1, <1>2, <1>4 DEF SizePlus
<1> QED
  BY <1>3, <1>4

\* The wrapping arithmetic of the causal bound gives the band: no query comes
\* before the first key, and the context is addressable.
LEMMA CausalIsBand ==
    ASSUME NEW seqQ \in Nat, NEW seqK \in Nat, seqQ <= seqK, seqK < SizeMod,
           NEW qi \in Upto(seqQ), NEW causal \in BOOLEAN
    PROVE  CausalKeys(qi, seqQ, seqK, causal) = Band(qi, seqQ, seqK, causal, -1, -1)
<1>1. SizeMod \in Nat \ {0} /\ qi \in Nat /\ qi < seqQ
  BY SizeAssumption DEF Upto
<1>2. SizeMinus(seqK, seqQ) = seqK - seqQ /\ SizeMinus(seqK, 1) = seqK - 1
  BY <1>1, NoWrap
<1>3. SizePlus(qi, seqK - seqQ) = qi + (seqK - seqQ)
  <2>1. qi < SizeMod /\ seqK - seqQ \in Nat /\ qi + (seqK - seqQ) < SizeMod
    BY <1>1
  <2> QED
    BY <1>1, <2>1, NoWrap
<1>4. CASE causal
  BY <1>1, <1>2, <1>3, <1>4 DEF CausalKeys, Band, Upto
<1>5. CASE ~causal
  BY <1>1, <1>2, <1>3, <1>5 DEF CausalKeys, Band, Upto
<1> QED
  BY <1>4, <1>5

\* How far a window reaches on either side.
SwaSide(window) == IF window = 0 THEN -1 ELSE window \div 2

LEMMA SwaIsBand ==
    ASSUME NEW seqQ \in Nat, NEW seqK \in Nat, NEW window \in Nat, seqQ <= seqK, seqK + window < SizeMod,
           NEW qi \in Upto(seqQ)
    PROVE  SwaKeys(qi, seqQ, seqK, window) = Band(qi, seqQ, seqK, FALSE, SwaSide(window), SwaSide(window))
<1>1. SizeMod \in Nat \ {0} /\ qi \in Nat /\ qi < seqQ
  BY SizeAssumption DEF Upto
<1>2. CASE window = 0
  BY <1>1, <1>2 DEF SwaKeys, Band, Upto, SwaSide
<1>3. CASE window # 0
  <2>1. PICK half \in Nat : half = window \div 2 /\ half + 1 <= window
    BY <1>3
  <2>2. SizeMinus(seqK, seqQ) = seqK - seqQ
    BY <1>1, NoWrap
  <2>3. PICK center \in Nat : center = qi + (seqK - seqQ) /\ center < seqK
    BY <1>1
  <2>4. SizePlus(qi, seqK - seqQ) = center
    <3>1. qi < SizeMod /\ seqK - seqQ \in Nat /\ qi + (seqK - seqQ) < SizeMod
      BY <1>1
    <3> QED
      BY <1>1, <2>3, <3>1, NoWrap
  <2>5. SizePlus(center, half + 1) = center + (half + 1)
    <3>1. center < SizeMod /\ half + 1 \in Nat /\ center + (half + 1) < SizeMod
      BY <1>1, <2>1, <2>3
    <3> QED
      BY <2>3, <3>1, NoWrap
  <2>6. SwaSide(window) = half
    BY <1>3, <2>1 DEF SwaSide
  <2>7. SwaKeys(qi, seqQ, seqK, window)
          = {ki \in Upto(seqK) : (IF center > half THEN center - half ELSE 0) <= ki /\ ki < center + (half + 1)}
    BY <1>3, <2>1, <2>2, <2>4, <2>5 DEF SwaKeys
  <2>8. PICK lo \in Int, hi \in Int :
           /\ lo = IF center - half > 0 THEN center - half ELSE 0
           /\ hi = IF center + half < seqK - 1 THEN center + half ELSE seqK - 1
    BY <2>1, <2>3
  <2>11. Band(qi, seqQ, seqK, FALSE, SwaSide(window), SwaSide(window)) = lo..hi
    BY <1>1, <2>1, <2>3, <2>6, <2>8 DEF Band
  <2>9. ASSUME NEW ki \in Int
        PROVE  ki \in SwaKeys(qi, seqQ, seqK, window) <=> ki \in Band(qi, seqQ, seqK, FALSE, SwaSide(window), SwaSide(window))
    <3>1. ki \in SwaKeys(qi, seqQ, seqK, window) <=>
            0 <= ki /\ ki < seqK /\ center - half <= ki /\ ki <= center + half
      BY <2>1, <2>3, <2>7 DEF Upto
    <3>2. ki \in lo..hi <=> 0 <= ki /\ ki < seqK /\ center - half <= ki /\ ki <= center + half
      BY <2>1, <2>3, <2>8
    <3> QED
      BY <2>11, <3>1, <3>2
  <2>10. SwaKeys(qi, seqQ, seqK, window) \subseteq Int /\ Band(qi, seqQ, seqK, FALSE, SwaSide(window), SwaSide(window)) \subseteq Int
    <3>1. lo..hi \subseteq Int /\ Upto(seqK) \subseteq Int
      BY DEF Upto
    <3> QED
      BY <2>7, <2>11, <3>1
  <2> QED
    BY <2>9, <2>10
<1> QED
  BY <1>2, <1>3

\* attention and attention_f16ctx: every query gets the keys of the paged
\* prefill's band, each once.
THEOREM DenseAttentionRight ==
    ASSUME NEW heads \in Nat, NEW kvHeads, NEW seqQ \in Nat \ {0}, NEW seqK \in Nat,
           seqQ <= seqK, seqK < SizeMod, NEW causal \in BOOLEAN
    PROVE  /\ KernelRight(DenseAttention(heads, kvHeads, seqQ, seqK, causal))
           /\ KernelRight(AttentionF16Ctx(heads, kvHeads, seqQ, seqK, causal))
<1> DEFINE visits == [qi \in Upto(seqQ) |-> CausalKeys(qi, seqQ, seqK, causal)]
           due == [qi \in Upto(seqQ) |-> Band(qi, seqQ, seqK, causal, -1, -1)]
<1>1. \A qi \in Upto(seqQ) : visits[qi] = due[qi]
  BY CausalIsBand
<1>2. /\ DenseAttention(heads, kvHeads, seqQ, seqK, causal) = Attends(heads, kvHeads, seqQ, seqK, visits, due, {"O"})
      /\ AttentionF16Ctx(heads, kvHeads, seqQ, seqK, causal)
           = Attends(heads, kvHeads, seqQ, seqK, visits, due, {"O", "O_f16"})
  BY DEF DenseAttention, AttentionF16Ctx
<1> HIDE DEF visits, due
<1>3. "K" \notin {"O"} /\ "Q" \notin {"O"} /\ "K" \notin {"O", "O_f16"} /\ "Q" \notin {"O", "O_f16"}
  OBVIOUS
<1>4. KernelRight(Attends(heads, kvHeads, seqQ, seqK, visits, due, {"O"}))
  BY <1>1, <1>3, AttendsRight
<1>5. KernelRight(Attends(heads, kvHeads, seqQ, seqK, visits, due, {"O", "O_f16"}))
  BY <1>1, <1>3, AttendsRight
<1> QED
  BY <1>2, <1>4, <1>5

\* attn_swa: the keys of the two-sided band, when the window past the last key
\* is still a size_t.
THEOREM AttnSwaRight ==
    ASSUME NEW heads \in Nat, NEW kvHeads, NEW seqQ \in Nat \ {0}, NEW seqK \in Nat, NEW window \in Nat,
           seqQ <= seqK, seqK + window < SizeMod
    PROVE  KernelRight(AttnSwa(heads, kvHeads, seqQ, seqK, window))
<1> DEFINE side == SwaSide(window)
           visits == [qi \in Upto(seqQ) |-> SwaKeys(qi, seqQ, seqK, window)]
           due == [qi \in Upto(seqQ) |-> Band(qi, seqQ, seqK, FALSE, side, side)]
<1>1. \A qi \in Upto(seqQ) : visits[qi] = due[qi]
  BY SwaIsBand
<1>2. AttnSwa(heads, kvHeads, seqQ, seqK, window) = Attends(heads, kvHeads, seqQ, seqK, visits, due, {"O"})
  BY DEF AttnSwa, SwaSide
<1> HIDE DEF visits, due, side
<1>3. "K" \notin {"O"} /\ "Q" \notin {"O"}
  OBVIOUS
<1>4. KernelRight(Attends(heads, kvHeads, seqQ, seqK, visits, due, {"O"}))
  BY <1>1, <1>3, AttendsRight
<1> QED
  BY <1>2, <1>4

-----------------------------------------------------------------------------
(* Recurrent layers                                                         *)

\* The rows of a batch whose slot is one, and their slots all different.
Live(slots, nslots) == {t \in 1..Len(slots) : SlotOk(slots[t], nslots)}

OneEach(slots, nslots) == \A s, t \in Live(slots, nslots) : slots[s] = slots[t] => s = t

LEMMA LiveSlots ==
    ASSUME NEW slots \in Seq(Int), NEW nslots \in Nat
    PROVE  /\ Live(slots, nslots) \subseteq 1..Len(slots) /\ Len(slots) \in Nat
           /\ \A t \in Live(slots, nslots) : slots[t] \in Nat
           /\ \A t \in 1..Len(slots) : t \in Live(slots, nslots) <=> SlotOk(slots[t], nslots)
<1>1. \A t \in 1..Len(slots) : slots[t] \in Int
  OBVIOUS
<1> QED
  BY <1>1 DEF Live, SlotOk

\* causal_conv1d_decode: the windows of live slots shift, every output is set.
THEOREM Conv1dDecodeRight ==
    ASSUME NEW slots \in Seq(Int), NEW dim \in Nat \ {0}, NEW nslots \in Nat, OneEach(slots, nslots)
    PROVE  KernelRight(Conv1dDecode(slots, dim, nslots))
<1> DEFINE n == Len(slots) * dim
           slot(i) == slots[i[1] \div dim + 1]
           window(i) == {<<"conv", slot(i) * dim + (i[1] % dim)>>}
           d == [i \in Flat(n) |-> IF SlotOk(slot(i), nslots)
                                   THEN Does(window(i), window(i) \cup {<<"out", i[1]>>}, {})
                                   ELSE Does({}, {<<"out", i[1]>>}, {})]
           V == [i \in Flat(n) |-> IF SlotOk(slot(i), nslots) THEN window(i) ELSE {}]
           X == [i \in Flat(n) |-> {<<"out", i[1]>>}]
           W == [i \in Flat(n) |-> X[i] \cup V[i]]
           live == Live(slots, nslots)
           outs == At("out", 0, Upto(n))
           convs == UNION {At("conv", s * dim, Upto(dim)) :
                             s \in {slots[r] : r \in {r \in DOMAIN slots : SlotOk(slots[r], nslots)}}}
           k == Conv1dDecode(slots, dim, nslots)
<1>1. k = Kernel(<<d>>, outs \cup convs, {})
  BY DEF Conv1dDecode
<1>2. n \in Nat /\ Len(slots) \in Nat /\ DOMAIN slots = 1..Len(slots)
  BY ProductNat
<1>3. Shares(X, outs)
  BY <1>2, ElementShares
<1>4. /\ live \subseteq 1..Len(slots) /\ \A t \in live : slots[t] \in Nat
      /\ \A t \in 1..Len(slots) : t \in live <=> SlotOk(slots[t], nslots)
      /\ \A s, t \in live : slots[s] = slots[t] => s = t
  BY LiveSlots DEF OneEach
<1>5. Flat(n) = Grid(Len(slots) * dim, 1)
  BY DEF Flat
<1> HIDE DEF live
<1>6. ASSUME NEW i \in Flat(n)
      PROVE  V[i] = IF i[1] \div dim + 1 \in live
                    THEN {<<"conv", (slots[i[1] \div dim + 1] * dim + (i[1] % dim)) * 1 + i[2]>>} ELSE {}
  <2>1. /\ i[1] \div dim + 1 \in 1..Len(slots) /\ i[1] % dim \in Upto(dim)
        /\ i[2] = 0
    BY <1>2, <1>5, GridItem, FlatItems, SMTT(30)
  <2>2. CASE i[1] \div dim + 1 \in live
    <3>1. PICK s \in Nat : s = slot(i) /\ SlotOk(slot(i), nslots)
      BY <1>4, <2>1, <2>2
    <3>2. PICK h \in Nat : h = i[1] % dim
      BY <2>1 DEF Upto
    <3>3. (s * dim + h) * 1 + 0 = s * dim + h
      <4>1. s * dim \in Nat
        BY ProductNat
      <4> QED
        BY <4>1
    <3> QED
      BY <2>1, <2>2, <3>1, <3>2, <3>3
  <2>3. CASE i[1] \div dim + 1 \notin live
    BY <1>4, <2>1, <2>3
  <2> QED
    BY <2>2, <2>3
<1>7. \A c : c \in convs <=> \E t \in live : c \in RowCells("conv", slots[t], dim, 1)
  <2>1. \A t \in live : RowCells("conv", slots[t], dim, 1) = At("conv", slots[t] * dim, Upto(dim))
    BY <1>4, RowOfOne
  <2>2. \A c : c \in convs <=> \E t \in live : c \in At("conv", slots[t] * dim, Upto(dim))
    BY <1>2, <1>4
  <2> QED
    BY <2>1, <2>2
<1>8. AtSlots(V, "conv", Len(slots), dim, 1, live, slots, convs)
  <2>1. DOMAIN V = Grid(Len(slots) * dim, 1)
    BY <1>5
  <2> HIDE DEF V, convs
  <2> QED
    BY <1>4, <1>5, <1>6, <1>7, <2>1 DEF AtSlots
<1>9. \A i \in Flat(n) : /\ d[i].wr = W[i] /\ d[i].rd = V[i] /\ d[i].add = {} /\ W[i] = X[i] \cup V[i]
                         /\ \A c \in X[i] : IsGlobal(c) /\ c[1] = "out"
  BY GlobalCell DEF Does
<1>10. /\ DOMAIN d = Flat(n) /\ DOMAIN W = Flat(n) /\ DOMAIN X = Flat(n) /\ DOMAIN V = Flat(n)
       /\ \A c \in outs : c[1] = "out"
  BY CellOfBuffer
<1> HIDE DEF d, V, W, X, outs, convs, k
<1>11. Shares(V, convs) /\ \A c \in convs : c[1] = "conv"
  BY <1>2, <1>8, SlotsShared, Buffered
<1>12. \A i \in Flat(n) : \A c \in V[i] : IsGlobal(c) /\ c[1] = "conv"
  BY <1>8, <1>10, Buffered
<1>13. Shares(W, outs \cup convs)
  <2>1. outs \cap convs = {}
    BY <1>10, <1>11
  <2> QED
    BY <1>3, <1>9, <1>10, <1>11, <2>1, SharesTwo
<1>14. /\ DOMAIN W = DOMAIN d
       /\ \A i \in DOMAIN d : d[i].wr = W[i] /\ d[i].add = {} /\ \A c \in d[i].rd \cup W[i] : IsGlobal(c)
       /\ \A i, j \in DOMAIN d : \A c : c \in W[i] /\ c \in d[j].rd => i = j
  <2>1. ASSUME NEW i \in Flat(n), NEW j \in Flat(n), NEW c, c \in W[i], c \in d[j].rd
        PROVE  i = j
    <3>1. c \in W[j]
      BY <1>9, <2>1
    <3> QED
      BY <1>10, <1>13, <2>1, <3>1 DEF Shares
  <2> QED
    BY <1>9, <1>10, <1>12, <2>1
<1>15. KernelRight(k)
  BY <1>1, <1>13, <1>14, MapRight
<1> QED
  BY <1>15 DEF k

\* ssd_decode: a row that has both slots moves its state from one to the other;
\* no row writes where another reads, as ops.hpp asks.
THEOREM SsdDecodeRight ==
    ASSUME NEW src \in Seq(Int), NEW dst \in Seq(Int), Len(src) = Len(dst), NEW heads \in Nat \ {0},
           NEW dim \in Nat \ {0}, NEW nslots \in Nat, OneEach(dst, nslots),
           \A s \in Live(src, nslots), t \in Live(dst, nslots) : src[s] = dst[t] => s = t
    PROVE  KernelRight(SsdDecode(src, dst, heads, dim, nslots))
<1> DEFINE batch == Len(src)
           G == Grid(batch * heads, dim)
           at(s, i) == {<<"state", (s * heads + (i[1] % heads)) * dim + i[2]>>}
           from(i) == src[i[1] \div heads + 1]
           to(i) == dst[i[1] \div heads + 1]
           outOf(i) == {<<"out", i[1] * dim + i[2]>>}
           d == [i \in G |-> IF ~SlotOk(from(i), nslots) THEN Does({}, outOf(i), {})
                             ELSE Does(at(from(i), i),
                                       outOf(i) \cup (IF SlotOk(to(i), nslots) THEN at(to(i), i) ELSE {}), {})]
           live == Live(src, nslots) \cap Live(dst, nslots)
           X == [i \in G |-> outOf(i)]
           V == [i \in G |-> IF i[1] \div heads + 1 \in live THEN at(to(i), i) ELSE {}]
           W == [i \in G |-> X[i] \cup V[i]]
           outs == At("out", 0, Upto(batch * heads * dim))
           states == UNION {At("state", s * heads * dim, Upto(heads * dim)) :
                      s \in {dst[b] : b \in {b \in 1..batch : SlotOk(src[b], nslots) /\ SlotOk(dst[b], nslots)}}}
           k == SsdDecode(src, dst, heads, dim, nslots)
<1>1. k = Kernel(<<d>>, outs \cup states, {})
  BY DEF SsdDecode
<1>2. batch \in Nat /\ batch * heads \in Nat
  BY ProductNat
<1>3. /\ live \subseteq 1..batch /\ \A t \in live : dst[t] \in Nat /\ src[t] \in Nat
      /\ \A t \in 1..batch : /\ t \in Live(src, nslots) <=> SlotOk(src[t], nslots)
                             /\ t \in Live(dst, nslots) <=> SlotOk(dst[t], nslots)
                             /\ t \in live <=> SlotOk(src[t], nslots) /\ SlotOk(dst[t], nslots)
      /\ \A s, t \in live : dst[s] = dst[t] => s = t
  BY LiveSlots DEF OneEach
<1>4. \A i \in G : /\ i[1] \div heads + 1 \in 1..batch /\ i[2] \in Upto(dim)
  BY <1>2, GridItem
<1>5. \A c : c \in states <=> \E t \in live : c \in RowCells("state", dst[t], heads, dim)
  <2> HIDE DEF live
  <2>1. {b \in 1..batch : SlotOk(src[b], nslots) /\ SlotOk(dst[b], nslots)} = live
    BY <1>3
  <2>2. states = UNION {At("state", s * heads * dim, Upto(heads * dim)) : s \in {dst[b] : b \in live}}
    BY <2>1
  <2> QED
    BY <2>2 DEF RowCells
<1>6. Shares(X, outs)
  <2>1. DOMAIN X = Grid(batch * heads, dim) /\ \A i \in Grid(batch * heads, dim) : X[i] = {<<"out", i[1] * dim + i[2]>>}
    OBVIOUS
  <2> HIDE DEF X
  <2> QED
    BY <1>2, <2>1, LaneCells
<1>7. /\ DOMAIN V = G
      /\ \A i \in G : V[i] = IF i[1] \div heads + 1 \in live
                THEN {<<"state", (dst[i[1] \div heads + 1] * heads + (i[1] % heads)) * dim + i[2]>>} ELSE {}
  OBVIOUS
<1>8. \A i \in G : /\ d[i].wr = W[i] /\ d[i].add = {} /\ W[i] = X[i] \cup V[i]
                   /\ d[i].rd = IF SlotOk(from(i), nslots) THEN at(from(i), i) ELSE {}
                   /\ \A c \in X[i] : IsGlobal(c) /\ c[1] = "out"
  <2> SUFFICES ASSUME NEW i \in G
               PROVE  /\ d[i].wr = W[i] /\ d[i].add = {} /\ W[i] = X[i] \cup V[i]
                      /\ d[i].rd = IF SlotOk(from(i), nslots) THEN at(from(i), i) ELSE {}
                      /\ \A c \in X[i] : IsGlobal(c) /\ c[1] = "out"
    OBVIOUS
  <2>1. i[1] \div heads + 1 \in live <=> SlotOk(from(i), nslots) /\ SlotOk(to(i), nslots)
    BY <1>3, <1>4
  <2> HIDE DEF at, outOf, live
  <2>2. d[i].wr = W[i] /\ d[i].add = {} /\ W[i] = X[i] \cup V[i]
        /\ d[i].rd = IF SlotOk(from(i), nslots) THEN at(from(i), i) ELSE {}
    BY <2>1 DEF Does
  <2>3. \A c \in X[i] : IsGlobal(c) /\ c[1] = "out"
    BY GlobalCell DEF outOf
  <2> QED
    BY <2>2, <2>3
<1>9. /\ DOMAIN d = G /\ DOMAIN W = G /\ DOMAIN X = G
      /\ \A c \in outs : c[1] = "out"
  BY CellOfBuffer
<1>10. AtSlots(V, "state", batch, heads, dim, live, dst, states)
  <2> HIDE DEF V, states, live
  <2> QED
    BY <1>3, <1>5, <1>7 DEF AtSlots
<1> HIDE DEF d, V, W, X, outs, states, k, live
<1>11. Shares(V, states) /\ \A c \in states : c[1] = "state"
  BY <1>2, <1>10, SlotsShared, Buffered
<1>12. \A i \in G : \A c \in V[i] : IsGlobal(c) /\ c[1] = "state"
  BY <1>7, <1>10, Buffered
<1>13. Shares(W, outs \cup states)
  <2>1. outs \cap states = {}
    BY <1>9, <1>11
  <2> QED
    BY <1>6, <1>7, <1>8, <1>9, <1>11, <2>1, SharesTwo
<1>14. ASSUME NEW i \in G, NEW j \in G, NEW c, c \in W[i], c \in d[j].rd
       PROVE  i = j
  <2>1. SlotOk(from(j), nslots) /\ c \in at(from(j), j)
    BY <1>8, <1>14
  <2>2. c[1] = "state"
    BY <2>1
  <2>3. c \in V[i]
    BY <1>8, <1>14, <2>2
  <2>4. i[1] \div heads + 1 \in live /\ c \in at(to(i), i)
    BY <1>7, <2>3
  <2>5. PICK s \in Nat : s = to(i)
    BY <1>3, <2>4
  <2>6. j[1] \div heads + 1 \in Live(src, nslots)
    BY <1>3, <1>4, <2>1
  <2>7. PICK r \in Nat : r = from(j)
    BY <2>6, LiveSlots
  <2>8. /\ i[1] % heads \in Upto(heads) /\ i[2] \in Upto(dim) /\ i[1] \div heads \in Nat /\ i = <<i[1], i[2]>>
        /\ i[1] = (i[1] \div heads) * heads + (i[1] % heads)
    BY <1>2, GridItem
  <2>9. /\ j[1] % heads \in Upto(heads) /\ j[2] \in Upto(dim) /\ j[1] \div heads \in Nat /\ j = <<j[1], j[2]>>
        /\ j[1] = (j[1] \div heads) * heads + (j[1] % heads)
    BY <1>2, GridItem
  <2>10. PICK g \in Upto(heads), h \in Upto(heads) : g = i[1] % heads /\ h = j[1] % heads
    BY <2>8, <2>9
  <2>11. (s * heads + g) * dim + i[2] = (r * heads + h) * dim + j[2]
    BY <2>1, <2>4, <2>5, <2>7, <2>10
  <2>12. s = r /\ g = h /\ i[2] = j[2]
    <3>1. PICK a \in Nat : a = s * heads + g /\ a \div heads = s /\ a % heads = g
      BY DivisionUnique
    <3>2. PICK b \in Nat : b = r * heads + h /\ b \div heads = r /\ b % heads = h
      BY DivisionUnique
    <3>3. a * dim + i[2] = b * dim + j[2]
      BY <2>11, <3>1, <3>2
    <3>4. (a * dim + i[2]) \div dim = a /\ (a * dim + i[2]) % dim = i[2]
      BY <2>8, DivisionUnique
    <3>5. (b * dim + j[2]) \div dim = b /\ (b * dim + j[2]) % dim = j[2]
      BY <2>9, DivisionUnique
    <3>6. a = b /\ i[2] = j[2]
      BY <3>3, <3>4, <3>5
    <3> QED
      BY <3>1, <3>2, <3>6
  <2>13. i[1] \div heads + 1 = j[1] \div heads + 1
    <3>1. i[1] \div heads + 1 \in Live(dst, nslots)
      BY <2>4 DEF live
    <3> QED
      BY <2>5, <2>6, <2>7, <2>12, <3>1
  <2>14. i[1] \div heads = j[1] \div heads
    BY <2>8, <2>9, <2>13
  <2>15. i[1] = j[1]
    BY <2>8, <2>9, <2>10, <2>12, <2>14
  <2> QED
    BY <2>8, <2>9, <2>12, <2>15
<1>15. /\ DOMAIN W = DOMAIN d
       /\ \A i \in DOMAIN d : d[i].wr = W[i] /\ d[i].add = {} /\ \A c \in d[i].rd \cup W[i] : IsGlobal(c)
       /\ \A i, j \in DOMAIN d : \A c : c \in W[i] /\ c \in d[j].rd => i = j
  <2>1. ASSUME NEW i \in G, NEW c \in d[i].rd
        PROVE  IsGlobal(c)
    <3>1. c \in at(from(i), i)
      BY <1>8
    <3> QED
      BY <3>1, GlobalCell
  <2> QED
    BY <1>8, <1>9, <1>12, <1>14, <2>1, ZenonT(40)
<1>16. KernelRight(k)
  BY <1>1, <1>13, <1>15, MapRight
<1> QED
  BY <1>16 DEF k

-----------------------------------------------------------------------------
(* Ragged batches                                                           *)

\* ssd_prefill: a lane's row of the state stays in local memory; every token's
\* outputs and the state each sequence leaves are written once.
THEOREM SsdPrefillRight ==
    ASSUME NEW cu, Starting(cu), NEW heads \in Nat \ {0}, NEW dim \in Nat \ {0}
    PROVE  KernelRight(SsdPrefill(cu, heads, dim))
<1> DEFINE batch == Len(cu) - 1
           G == Grid(batch * heads, dim)
           mine(i) == {<<"slm", i[2], i[1]>>}
           toks(i) == cu[i[1] \div heads + 1]..(cu[i[1] \div heads + 2] - 1)
           outOf(i) == {<<"out", (t * heads + (i[1] % heads)) * dim + i[2]>> : t \in toks(i)}
           last(i) == {<<"varlen", i[1] * dim + i[2]>>}
           d == [i \in G |-> Does(mine(i), mine(i) \cup outOf(i) \cup last(i), {})]
           X == [i \in G |-> outOf(i)]
           V == [i \in G |-> last(i)]
           O == [i \in G |-> X[i] \cup V[i]]
           A == [i \in G |-> {}]
           outs == At("out", 0, (cu[1] * heads * dim)..(cu[batch + 1] * heads * dim - 1))
           lasts == At("varlen", 0, Upto(batch * heads * dim))
           k == SsdPrefill(cu, heads, dim)
<1>1. k = Kernel(<<d>>, outs \cup lasts, {})
  BY DEF SsdPrefill
<1>2. /\ batch \in Nat /\ batch * heads \in Nat /\ batch + 1 = Len(cu)
      /\ \A a \in 1..Len(cu) : cu[a] \in Nat
      /\ \A a, e \in 1..Len(cu) : a <= e => cu[a] <= cu[e]
  BY ProductNat DEF Starting
<1>3. ASSUME NEW i \in G
      PROVE  i[1] \div heads + 1 \in 1..batch /\ (i[1] \div heads + 1) + 1 = i[1] \div heads + 2
  <2>1. i[1] \div heads \in Nat /\ i[1] \div heads + 1 \in 1..batch
    BY <1>2, GridItem
  <2>2. \A q \in Nat : (q + 1) + 1 = q + 2
    OBVIOUS
  <2> QED
    BY <2>1, <2>2
<1>4. Shares(V, lasts)
  <2>1. DOMAIN V = Grid(batch * heads, dim) /\ \A i \in Grid(batch * heads, dim) : V[i] = {<<"varlen", i[1] * dim + i[2]>>}
    OBVIOUS
  <2> HIDE DEF V
  <2> QED
    BY <1>2, <2>1, LaneCells
<1>5. \A i \in G : \A c : c \in X[i] <=> \E t \in TokensOf(cu, i[1] \div heads + 1) :
                                c = <<"out", (t * heads + (i[1] % heads)) * dim + i[2]>>
  BY <1>3 DEF TokensOf
<1>6. ASSUME NEW c
      PROVE  c \in outs <=> /\ CellOf("out", c)
                            /\ \E r \in 1..batch : (c[2] \div dim) \div heads \in TokensOf(cu, r)
  <2>1. PICK first \in Nat, end \in Nat : first = cu[1] /\ end = cu[batch + 1]
    BY <1>2
  <2>2. PICK a \in Nat, e \in Nat : a = first * heads * dim /\ e = end * heads * dim
    <3>1. first * heads \in Nat /\ end * heads \in Nat
      BY ProductNat
    <3> QED
      BY <3>1, ProductNat
  <2>3. outs = At("out", 0, a..(e - 1))
    BY <2>1, <2>2
  <2>4. c \in At("out", 0, a..(e - 1)) <=> CellOf("out", c) /\ a <= c[2] /\ c[2] < e
    <3>1. \A x \in a..(e - 1) : x \in Nat /\ a <= x /\ x < e /\ 0 + x = x
      OBVIOUS
    <3>2. \A x \in Nat : a <= x /\ x < e => x \in a..(e - 1)
      OBVIOUS
    <3>3. \A x : <<"out", x>>[2] = x
      OBVIOUS
    <3> QED
      BY <3>1, <3>2, <3>3 DEF At, CellOf
  <2>5. \A x \in Nat : a <= x /\ x < e <=> first <= (x \div dim) \div heads /\ (x \div dim) \div heads < end
    <3> SUFFICES ASSUME NEW x \in Nat
                 PROVE  a <= x /\ x < e <=> first <= (x \div dim) \div heads /\ (x \div dim) \div heads < end
      OBVIOUS
    <3>1. PICK q \in Nat : q = x \div dim
      BY DivisionOf
    <3>2. PICK t \in Nat : t = q \div heads
      BY DivisionOf
    <3>3. \A n \in Nat : t < n <=> q < n * heads
      BY <3>2, QuotientBelow
    <3>4. \A n \in Nat : q < n <=> x < n * dim
      BY <3>1, QuotientBelow
    <3>5. first * heads \in Nat /\ end * heads \in Nat
      BY ProductNat
    <3>6. (t < first <=> x < a) /\ (t < end <=> x < e)
      BY <2>2, <3>3, <3>4, <3>5
    <3> QED
      BY <3>1, <3>2, <3>6
  <2>6. ASSUME NEW t \in Nat
        PROVE  first <= t /\ t < end <=> \E r \in 1..batch : t \in TokensOf(cu, r)
    <3>1. ASSUME first <= t, t < end
          PROVE  \E r \in 1..batch : t \in TokensOf(cu, r)
      <4>1. t \in cu[1]..(cu[Len(cu)] - 1)
        BY <1>2, <2>1, <3>1
      <4> QED
        BY <4>1, TokensCover
    <3>2. ASSUME NEW r \in 1..batch, t \in TokensOf(cu, r)
          PROVE  first <= t /\ t < end
      <4>1. r \in 1..Len(cu) /\ r + 1 \in 1..Len(cu) /\ 1 \in 1..Len(cu) /\ Len(cu) \in 1..Len(cu)
        BY <1>2
      <4>2. cu[1] <= cu[r] /\ cu[r + 1] <= cu[Len(cu)] /\ cu[r] \in Nat /\ cu[r + 1] \in Nat
        BY <1>2, <4>1
      <4> QED
        BY <1>2, <2>1, <3>2, <4>2 DEF TokensOf
    <3> QED
      BY <3>1, <3>2
  <2>7. CellOf("out", c) => (c[2] \div dim) \div heads \in Nat
    <3>1. \A x \in Nat : x \div dim \in Nat
      BY DivisionOf
    <3>2. \A x \in Nat : x \div heads \in Nat
      BY DivisionOf
    <3> QED
      BY <3>1, <3>2 DEF CellOf
  <2> HIDE DEF outs
  <2> QED
    BY <2>3, <2>4, <2>5, <2>6, <2>7 DEF CellOf
<1>7. AtTokens(X, "out", cu, heads, dim, outs)
  <2>1. DOMAIN X = G
    OBVIOUS
  <2> HIDE DEF X, outs
  <2> QED
    BY <1>5, <1>6, <2>1 DEF AtTokens
<1>8. \A i \in G : /\ O[i] = X[i] \cup V[i] /\ A[i] = {} /\ V[i] = last(i) /\ d[i].add = {} /\ d[i].rd = mine(i)
                   /\ d[i].wr = mine(i) \cup O[i]
  BY DEF Does
<1>9. /\ DOMAIN O = G /\ DOMAIN A = G /\ DOMAIN d = G /\ DOMAIN X = G /\ DOMAIN V = G
      /\ \A c \in outs : c[1] = "out"
  BY CellOfBuffer
<1>10. /\ \A c \in lasts : c[1] = "varlen"
       /\ \A i \in G : \A c \in last(i) : IsGlobal(c)
       /\ \A i : \A c \in mine(i) : ~IsGlobal(c) /\ c[3] = i[1] /\ c = <<"slm", i[2], i[1]>>
       /\ \A i \in G : i = <<i[1], i[2]>>
  BY CellOfBuffer, GlobalCell, LocalCell, GridItems
<1> HIDE DEF d, X, V, O, A, outs, lasts, k, G, mine, last
<1>11. Shares(X, outs) /\ \A i \in DOMAIN X : \A c \in X[i] : IsGlobal(c)
  BY <1>7, TokensShared
<1>12. Shares(O, outs \cup lasts)
  <2>1. outs \cap lasts = {}
    BY <1>9, <1>10
  <2> QED
    BY <1>4, <1>8, <1>9, <1>11, <2>1, SharesTwo
<1>13. Shares(A, {})
  BY <1>8, <1>9 DEF Shares
<1>14. /\ Items(k) = G /\ k.out = outs \cup lasts /\ k.sums = {}
       /\ \A i : Wrote(k, i) = d[i].wr /\ Added(k, i) = d[i].add
       /\ k.phases = <<d>>
  BY <1>1, <1>9, OnePhase DEF Kernel
<1>15. \A i \in G : \A c \in O[i] : IsGlobal(c)
  BY <1>8, <1>9, <1>10, <1>11
<1>16. InPhases(k, O, A)
  <2>1. /\ DOMAIN O = Items(k) /\ DOMAIN A = Items(k)
        /\ \A i \in Items(k) : Added(k, i) = A[i] /\ \A c \in O[i] : IsGlobal(c) /\ c \in Wrote(k, i)
    <3>1. ASSUME NEW i \in G
          PROVE  Added(k, i) = A[i] /\ O[i] \subseteq Wrote(k, i)
      <4>1. d[i].add = A[i] /\ d[i].wr = mine(i) \cup O[i]
        BY <1>8
      <4>2. Wrote(k, i) = d[i].wr /\ Added(k, i) = d[i].add
        BY <1>14
      <4> QED
        BY <4>1, <4>2
    <3> QED
      BY <1>9, <1>14, <1>15, <3>1
  <2>2. DOMAIN k.phases = {1} /\ k.phases[1] = d
    BY <1>14
  <2>3. ASSUME NEW i \in G, NEW c
        PROVE  /\ c \in d[i].wr => c \in O[i] \/ (~IsGlobal(c) /\ c[3] = i[1])
               /\ c \in d[i].rd => ~IsGlobal(c) /\ c[3] = i[1] /\ c \in d[i].wr
    BY <1>8, <1>10
  <2>4. ASSUME NEW i \in G, NEW j \in G, NEW c, i # j, c \in d[i].wr
        PROVE  c \notin d[j].rd /\ c \notin d[j].wr
    <3>1. c \in mine(i) \/ c \in O[i]
      BY <1>8, <2>4
    <3>2. c \in mine(j) => c \notin mine(i)
      BY <1>10, <2>4
    <3>3. c \in O[j] => c \notin O[i]
      BY <1>9, <1>12, <2>4 DEF Shares
    <3>4. c \in O[i] \/ c \in O[j] => IsGlobal(c)
      BY <1>15
    <3> QED
      BY <1>8, <1>10, <3>1, <3>2, <3>3, <3>4
  <2> QED
    BY <1>14, <2>1, <2>2, <2>3, <2>4 DEF InPhases
<1>17. KernelRight(k)
  BY <1>12, <1>13, <1>14, <1>16, PhasesRight
<1> QED
  BY <1>17 DEF k

\* The convolution of qwen_gdn_decode: windows of live slots, every mixed value,
\* and z passed through by the items of its channels.
THEOREM QwenGdnConvRight ==
    ASSUME NEW slots \in Seq(Int), NEW qk \in Nat, NEW v \in Nat \ {0}, NEW nslots \in Nat, OneEach(slots, nslots)
    PROVE  KernelRight(QwenGdnConv(slots, qk, v, nslots))
<1> DEFINE conv == qk + v
           batch == Len(slots)
           n == batch * conv
           b(i) == i[1] \div conv
           ch(i) == i[1] % conv
           state(i) == IF SlotOk(slots[b(i) + 1], nslots)
                       THEN {<<"conv", (slots[b(i) + 1] * conv) + ch(i)>>} ELSE {}
           z(i) == IF ch(i) >= qk THEN {<<"z", b(i) * v + ch(i) - qk>>} ELSE {}
           d == [i \in Flat(n) |-> Does(state(i), state(i) \cup z(i) \cup {<<"mixed", i[1]>>}, {})]
           V == [i \in Flat(n) |-> state(i)]
           Z == [i \in Flat(n) |-> z(i)]
           X == [i \in Flat(n) |-> {<<"mixed", i[1]>>}]
           U == [i \in Flat(n) |-> Z[i] \cup X[i]]
           W == [i \in Flat(n) |-> U[i] \cup V[i]]
           live == Live(slots, nslots)
           zs == At("z", 0, Upto(batch * v))
           mixed == At("mixed", 0, Upto(n))
           convs == UNION {At("conv", slots[r] * conv, Upto(conv)) : r \in {r \in 1..batch : SlotOk(slots[r], nslots)}}
           k == QwenGdnConv(slots, qk, v, nslots)
<1>1. k = Kernel(<<d>>, (zs \cup mixed) \cup convs, {})
  BY DEF QwenGdnConv
<1>2. conv \in Nat \ {0} /\ batch \in Nat /\ n \in Nat /\ batch * v \in Nat
  <2>1. conv \in Nat \ {0} /\ batch \in Nat
    OBVIOUS
  <2> HIDE DEF conv, batch
  <2> QED
    BY <2>1, ProductNat
<1>3. /\ live \subseteq 1..batch /\ \A t \in live : slots[t] \in Nat
      /\ \A t \in 1..batch : t \in live <=> SlotOk(slots[t], nslots)
      /\ \A s, t \in live : slots[s] = slots[t] => s = t
      /\ live = {r \in 1..batch : SlotOk(slots[r], nslots)}
  BY LiveSlots DEF OneEach, Live
<1> HIDE DEF conv, live
<1>4. Flat(n) = Grid(batch * conv, 1)
  BY DEF Flat
<1>5. \A i \in Flat(n) : /\ b(i) \in Nat /\ ch(i) \in Upto(conv) /\ b(i) + 1 \in 1..batch
                         /\ i[1] = b(i) * conv + ch(i) /\ i[1] \in Nat /\ i[2] = 0 /\ i = <<i[1], 0>>
  <2> SUFFICES ASSUME NEW i \in Flat(n)
               PROVE  /\ b(i) \in Nat /\ ch(i) \in Upto(conv) /\ b(i) + 1 \in 1..batch
                      /\ i[1] = b(i) * conv + ch(i) /\ i[1] \in Nat /\ i[2] = 0 /\ i = <<i[1], 0>>
    OBVIOUS
  <2>1. i \in Grid(batch * conv, 1)
    BY <1>4
  <2>2. i = <<i[1], 0>>
    BY FlatItems
  <2> QED
    BY <1>2, <2>1, <2>2, GridItem
<1>6. Shares(X, mixed)
  BY <1>2, ElementShares
<1>7. Shares(Z, zs)
  <2>1. ASSUME NEW i \in Flat(n), NEW c
        PROVE  c \in Z[i] <=> CellOf("z", c) /\ c[2] \div v = b(i) /\ ch(i) = qk + (c[2] % v)
    <3>1. PICK g \in Nat, h \in Nat : g = b(i) /\ h = ch(i) /\ h < qk + v
      <4>1. ch(i) \in Nat /\ ch(i) < conv
        BY <1>2, <1>5 DEF Upto
      <4> QED
        BY <1>5, <4>1 DEF conv
    <3>2. CASE h >= qk
      <4>1. PICK l \in Upto(v) : h = qk + l
        <5>1. h - qk \in Upto(v) /\ h = qk + (h - qk)
          BY <3>1, <3>2 DEF Upto
        <5> QED
          BY <5>1
      <4>2. PICK x \in Nat : x = g * v + l /\ x \div v = g /\ x % v = l
        BY DivisionUnique
      <4>3. g * v + h - qk = x
        <5>1. g * v \in Nat /\ l \in Nat
          BY <3>1, ProductNat DEF Upto
        <5> QED
          BY <3>1, <4>1, <4>2, <5>1
      <4>4. Z[i] = {<<"z", x>>}
        BY <3>1, <3>2, <4>3
      <4>5. c = <<"z", x>> => CellOf("z", c) /\ c[2] = x
        BY <4>2 DEF CellOf
      <4>6. ASSUME CellOf("z", c), c[2] \div v = g, h = qk + (c[2] % v)
            PROVE  c = <<"z", x>>
        <5>1. PICK y \in Nat : y = c[2] /\ c = <<"z", y>>
          BY <4>6 DEF CellOf
        <5>2. y % v \in Nat /\ y = (y \div v) * v + (y % v)
          BY DivisionOf DEF Upto
        <5>3. y % v = l
          BY <4>1, <4>6, <5>1, <5>2 DEF Upto
        <5>4. y = g * v + l
          BY <4>6, <5>1, <5>2, <5>3
        <5> QED
          BY <4>2, <5>1, <5>4
      <4>7. qk + (x % v) = h
        BY <4>1, <4>2
      <4> HIDE DEF Z, b, ch
      <4> QED
        BY <3>1, <4>2, <4>4, <4>5, <4>6, <4>7
    <3>3. CASE ~(h >= qk)
      <4>1. Z[i] = {}
        BY <3>1, <3>3
      <4>2. CellOf("z", c) => c[2] % v \in Nat
        BY DivisionOf DEF CellOf, Upto
      <4> HIDE DEF Z
      <4> QED
        BY <3>1, <3>3, <4>1, <4>2
    <3> QED
      BY <3>1, <3>2, <3>3
  <2>2. \A c : c \in zs <=> CellOf("z", c) /\ c[2] < batch * v
    BY <1>2, InArray
  <2>3. DOMAIN Z = Flat(n)
    OBVIOUS
  <2> HIDE DEF Z, zs, b, ch
  <2>4. ASSUME NEW i \in Flat(n), NEW c \in Z[i]
        PROVE  c \in zs
    <3>1. PICK x \in Nat : x = c[2] /\ CellOf("z", c) /\ x \div v = b(i)
      BY <2>1 DEF CellOf
    <3>2. x \div v < batch
      BY <1>2, <1>5, <3>1
    <3>3. x < batch * v
      BY <1>2, <3>2, QuotientBelow
    <3> QED
      BY <2>2, <3>1, <3>3
  <2>5. ASSUME NEW c \in zs
        PROVE  \E i \in Flat(n) : c \in Z[i]
    <3>1. PICK x \in Nat : x = c[2] /\ CellOf("z", c) /\ x < batch * v
      BY <2>2 DEF CellOf
    <3>2. PICK g \in Nat, l \in Upto(v) : g = x \div v /\ l = x % v
      BY DivisionOf
    <3>3. g < batch
      BY <1>2, <3>1, <3>2, QuotientBelow
    <3>4. PICK t \in 1..batch, h \in Upto(conv) : t = g + 1 /\ h = qk + l
      <4>1. g + 1 \in 1..batch /\ qk + l \in Upto(conv)
        BY <1>2, <3>2, <3>3 DEF Upto, conv
      <4> QED
        BY <4>1
    <3>5. 0 \in Upto(1)
      BY DEF Upto
    <3>6. HasItem(batch, conv, 1, t, h, 0)
      BY <1>2, <3>5, GridItemOf
    <3>7. PICK i \in Flat(n) : b(i) + 1 = t /\ ch(i) = h
      BY <1>4, <3>6 DEF HasItem, b, ch
    <3>8. b(i) = g
      BY <1>5, <3>2, <3>4, <3>7
    <3> QED
      BY <2>1, <3>1, <3>2, <3>4, <3>7, <3>8
  <2>6. ASSUME NEW i \in Flat(n), NEW j \in Flat(n), NEW c, c \in Z[i], c \in Z[j]
        PROVE  i = j
    <3>1. b(i) = b(j) /\ ch(i) = ch(j)
      BY <2>1, <2>6
    <3> QED
      BY <1>5, <3>1
  <2> QED
    BY <2>3, <2>4, <2>5, <2>6 DEF Shares
<1>8. ASSUME NEW i \in Flat(n)
      PROVE  V[i] = IF i[1] \div conv + 1 \in live
                    THEN {<<"conv", (slots[i[1] \div conv + 1] * conv + (i[1] % conv)) * 1 + i[2]>>} ELSE {}
  <2>1. b(i) + 1 \in 1..batch /\ i[2] = 0 /\ ch(i) \in Upto(conv)
    BY <1>5
  <2>2. CASE b(i) + 1 \in live
    <3>1. PICK s \in Nat : s = slots[b(i) + 1] /\ SlotOk(slots[b(i) + 1], nslots)
      BY <1>3, <2>1, <2>2
    <3>2. PICK h \in Nat : h = ch(i)
      BY <1>2, <2>1 DEF Upto
    <3>3. (s * conv + h) * 1 + 0 = (s * conv) + h
      <4>1. s * conv \in Nat
        BY <1>2, <3>1, ProductNat
      <4> QED
        BY <3>2, <4>1
    <3> QED
      BY <2>1, <2>2, <3>1, <3>2, <3>3
  <2>3. CASE b(i) + 1 \notin live
    BY <1>3, <2>1, <2>3
  <2> QED
    BY <2>2, <2>3
<1>9. \A c : c \in convs <=> \E t \in live : c \in RowCells("conv", slots[t], conv, 1)
  <2>1. \A t \in live : RowCells("conv", slots[t], conv, 1) = At("conv", slots[t] * conv, Upto(conv))
    BY <1>2, <1>3, RowOfOne
  <2>2. \A c : c \in convs <=> \E t \in live : c \in At("conv", slots[t] * conv, Upto(conv))
    BY <1>3
  <2> QED
    BY <2>1, <2>2
<1>10. AtSlots(V, "conv", batch, conv, 1, live, slots, convs)
  <2>1. DOMAIN V = Grid(batch * conv, 1)
    BY <1>4
  <2> HIDE DEF V, convs, batch
  <2>2. \A i \in Grid(batch * conv, 1) :
           V[i] = IF i[1] \div conv + 1 \in live
                  THEN {<<"conv", (slots[i[1] \div conv + 1] * conv + (i[1] % conv)) * 1 + i[2]>>} ELSE {}
    BY <1>4, <1>8
  <2> QED
    BY <1>3, <1>9, <2>1, <2>2 DEF AtSlots
<1>11. \A i \in Flat(n) : /\ d[i].wr = W[i] /\ d[i].rd = V[i] /\ d[i].add = {}
                          /\ W[i] = U[i] \cup V[i] /\ U[i] = Z[i] \cup X[i]
  <2> HIDE DEF state, z
  <2> QED
    BY DEF Does
<1>12. \A i \in Flat(n) : \A c : /\ c \in X[i] => IsGlobal(c) /\ c[1] = "mixed"
                                 /\ c \in Z[i] => IsGlobal(c) /\ c[1] = "z"
  BY GlobalCell
<1>13. /\ DOMAIN d = Flat(n) /\ DOMAIN W = Flat(n) /\ DOMAIN X = Flat(n) /\ DOMAIN V = Flat(n)
       /\ DOMAIN U = Flat(n) /\ DOMAIN Z = Flat(n)
       /\ (\A c \in mixed : c[1] = "mixed") /\ (\A c \in zs : c[1] = "z")
  BY CellOfBuffer
<1> HIDE DEF d, V, Z, U, W, X, zs, mixed, convs, k
<1>14. Shares(V, convs) /\ \A c \in convs : c[1] = "conv"
  BY <1>2, <1>10, SlotsShared, Buffered
<1>15. \A i \in Flat(n) : \A c \in V[i] : IsGlobal(c) /\ c[1] = "conv"
  BY <1>10, <1>13, Buffered
<1>16. Shares(U, zs \cup mixed)
  <2>1. zs \cap mixed = {}
    BY <1>13
  <2> QED
    BY <1>6, <1>7, <1>11, <1>13, <2>1, SharesTwo
<1>17. Shares(W, (zs \cup mixed) \cup convs)
  <2>1. (zs \cup mixed) \cap convs = {}
    BY <1>13, <1>14
  <2> QED
    BY <1>11, <1>13, <1>14, <1>16, <2>1, SharesTwo
<1>18. /\ DOMAIN W = DOMAIN d
       /\ \A i \in DOMAIN d : d[i].wr = W[i] /\ d[i].add = {} /\ \A c \in d[i].rd \cup W[i] : IsGlobal(c)
       /\ \A i, j \in DOMAIN d : \A c : c \in W[i] /\ c \in d[j].rd => i = j
  <2>1. ASSUME NEW i \in Flat(n), NEW j \in Flat(n), NEW c, c \in W[i], c \in d[j].rd
        PROVE  i = j
    <3>1. c \in W[j]
      BY <1>11, <2>1
    <3> QED
      BY <1>13, <1>17, <2>1, <3>1 DEF Shares
  <2>2. ASSUME NEW i \in Flat(n), NEW c \in d[i].rd \cup W[i]
        PROVE  IsGlobal(c)
    BY <1>11, <1>12, <1>15
  <2> QED
    BY <1>11, <1>13, <2>1, <2>2
<1>19. KernelRight(k)
  BY <1>1, <1>17, <1>18, MapRight
<1> QED
  BY <1>19 DEF k

\* linear_attn: the lanes of a head stage its sums, then share its outputs.
THEOREM LinearAttnRight ==
    ASSUME NEW heads \in Nat, NEW seq \in Nat \ {0}, NEW dim \in Nat \ {0}, NEW lanes \in Nat \ {0}
    PROVE  KernelRight(LinearAttn(heads, seq, dim, lanes))
<1> DEFINE G == Grid(heads, lanes)
           kv(i, S) == {<<"KV", e, i[1]>> : e \in S}
           zs(i, S) == {<<"z", e, i[1]>> : e \in S}
           needs(i, e) == kv(i, {x * dim + (e % dim) : x \in Upto(dim)}) \cup zs(i, Upto(dim))
           reads(i) == UNION {needs(i, e) : e \in Stride(i[2], lanes, seq * dim)}
           stage(i) == kv(i, Stride(i[2], lanes, dim * dim)) \cup zs(i, Stride(i[2], lanes, dim))
           outOf(i) == {<<"O", i[1] * seq * dim + e>> : e \in Stride(i[2], lanes, seq * dim)}
           f == [i \in G |-> Does({}, stage(i), {})]
           g == [i \in G |-> Does(reads(i), outOf(i), {})]
           O == [i \in G |-> outOf(i)]
           A == [i \in G |-> {}]
           out == At("O", 0, Upto(heads * seq * dim))
           k == LinearAttn(heads, seq, dim, lanes)
<1>1. k = Kernel(<<f, g>>, out, {})
  BY DEF LinearAttn
<1>2. PICK size \in Nat \ {0} : size = seq * dim
  BY TileSizes
<1>3. PICK square \in Nat \ {0} : square = dim * dim
  BY TileSizes
<1>4. \A i \in G : i[1] \in Nat /\ i[1] < heads /\ i[2] \in Upto(lanes) /\ i = <<i[1], i[2]>>
  BY GridItems DEF Upto
<1>5. \A i \in G : \A n \in Nat : \A x : x \in Stride(i[2], lanes, n) <=> x \in Nat /\ x < n /\ x % lanes = i[2]
  BY <1>4, StrideIs
<1>6. Shares(O, out)
  <2> DEFINE E == [l \in Upto(lanes) |-> Stride(l, lanes, size)]
  <2>1. Shares(E, Upto(size)) /\ DOMAIN E = Upto(lanes)
    BY <1>2, StrideShares
  <2>2. \A h \in Nat : h * seq * dim = h * size
    <3>1. \A h \in Nat : h * seq * dim = h * (seq * dim)
      BY SMT
    <3> QED
      BY <1>2, <3>1
  <2>3. ASSUME NEW i \in G
        PROVE  O[i] = At("O", i[1] * size, E[i[2]])
    <3>1. i[1] * seq * dim = i[1] * size /\ E[i[2]] = Stride(i[2], lanes, seq * dim)
      BY <1>2, <1>4, <2>2
    <3>2. O[i] = {<<"O", i[1] * seq * dim + e>> : e \in Stride(i[2], lanes, seq * dim)}
      OBVIOUS
    <3> HIDE DEF E, O
    <3> QED
      BY <3>1, <3>2 DEF At
  <2>4. DOMAIN O = Grid(heads, lanes) /\ out = At("O", 0, Upto(heads * size))
    BY <2>2
  <2> HIDE DEF E, O, out
  <2>5. Shares(O, At("O", 0, Upto(heads * size)))
    BY <1>2, <2>1, <2>3, <2>4, RowShares
  <2> QED
    BY <2>4, <2>5
<1>7. \A i \in G : \A c : c \in stage(i) <=>
         \/ \E e \in Stride(i[2], lanes, square) : c = <<"KV", e, i[1]>>
         \/ \E e \in Stride(i[2], lanes, dim) : c = <<"z", e, i[1]>>
  BY <1>3
<1>8. ASSUME NEW i \in G, NEW c \in reads(i)
      PROVE  \/ \E e \in Nat : e < square /\ c = <<"KV", e, i[1]>>
             \/ \E e \in Nat : e < dim /\ c = <<"z", e, i[1]>>
  <2>1. PICK e \in Stride(i[2], lanes, seq * dim) : c \in needs(i, e)
    OBVIOUS
  <2>2. e \in Nat
    BY <1>2, <1>5
  <2>3. CASE c \in zs(i, Upto(dim))
    BY <2>3 DEF Upto
  <2>4. CASE c \in kv(i, {x * dim + (e % dim) : x \in Upto(dim)})
    <3>1. PICK x \in Upto(dim) : c = <<"KV", x * dim + (e % dim), i[1]>>
      BY <2>4
    <3>2. PICK r \in Upto(dim) : r = e % dim
      BY <2>2, DivisionOf
    <3>3. x \in Nat /\ x < dim
      BY DEF Upto
    <3>4. PICK y \in Nat : y = x * dim + r /\ y \div dim = x
      BY <3>3, DivisionUnique
    <3>5. y < square
      BY <1>3, <3>3, <3>4, QuotientBelow
    <3> QED
      BY <3>1, <3>2, <3>4, <3>5
  <2> QED
    BY <2>1, <2>3, <2>4
<1>9. \A i \in G : \A c \in O[i] : IsGlobal(c)
  BY GlobalCell
<1>10. \A e, x : ~IsGlobal(<<"KV", e, x>>) /\ ~IsGlobal(<<"z", e, x>>)
  BY LocalCell
<1>11. /\ DOMAIN f = G /\ DOMAIN g = G /\ DOMAIN O = G /\ DOMAIN A = G
       /\ \A i \in G : /\ f[i].rd = {} /\ f[i].wr = stage(i) /\ f[i].add = {} /\ A[i] = {}
                       /\ g[i].rd = reads(i) /\ g[i].wr = O[i] /\ g[i].add = {}
  <2> HIDE DEF stage, reads
  <2> QED
    BY DEF Does
<1> HIDE DEF f, g, O, A, out, k, G, stage, reads
<1>12. /\ Items(k) = G /\ k.phases = <<f, g>> /\ k.out = out /\ k.sums = {}
       /\ \A i : Wrote(k, i) = f[i].wr \cup g[i].wr /\ Added(k, i) = f[i].add \cup g[i].add
  BY <1>1, <1>11, TwoPhases DEF Kernel
<1>13. Shares(A, {})
  BY <1>11 DEF Shares
<1>14. ASSUME NEW i \in G, NEW c \in stage(i)
       PROVE  /\ ~IsGlobal(c) /\ c[3] = i[1] /\ c[2] \in Nat /\ c[2] % lanes = i[2]
              /\ c = <<c[1], c[2], c[3]>>
  <2>1. CASE \E e \in Stride(i[2], lanes, square) : c = <<"KV", e, i[1]>>
    <3>1. PICK e \in Stride(i[2], lanes, square) : c = <<"KV", e, i[1]>>
      BY <2>1
    <3>2. c[1] = "KV" /\ c[2] = e /\ c[3] = i[1]
      BY <3>1
    <3>3. e \in Nat /\ e % lanes = i[2]
      BY <1>5
    <3> QED
      BY <1>10, <3>1, <3>2, <3>3
  <2>2. CASE \E e \in Stride(i[2], lanes, dim) : c = <<"z", e, i[1]>>
    <3>1. PICK e \in Stride(i[2], lanes, dim) : c = <<"z", e, i[1]>>
      BY <2>2
    <3>2. c[1] = "z" /\ c[2] = e /\ c[3] = i[1]
      BY <3>1
    <3>3. e \in Nat /\ e % lanes = i[2]
      BY <1>5
    <3> QED
      BY <1>10, <3>1, <3>2, <3>3
  <2> QED
    BY <1>7, <2>1, <2>2
<1>15. ASSUME NEW i \in G, NEW c \in reads(i)
       PROVE  ~IsGlobal(c) /\ c[3] = i[1] /\ \E j \in G : j[1] = i[1] /\ c \in f[j].wr
  <2>1. PICK b \in {"KV", "z"}, e \in Nat :
          c = <<b, e, i[1]>> /\ ((b = "KV" /\ e < square) \/ (b = "z" /\ e < dim))
    <3>1. CASE \E e \in Nat : e < square /\ c = <<"KV", e, i[1]>>
      BY <3>1
    <3>2. CASE \E e \in Nat : e < dim /\ c = <<"z", e, i[1]>>
      BY <3>2
    <3> QED
      BY <1>8, <3>1, <3>2
  <2>2. PICK l \in Upto(lanes) : l = e % lanes
    BY DivisionOf
  <2>3. PICK j \in G : j[1] = i[1] /\ j[2] = l
    <3>1. <<i[1], l>> \in G
      BY <1>4 DEF G, Grid, Upto
    <3> QED
      BY <3>1
  <2>4. /\ e < square => e \in Stride(j[2], lanes, square)
        /\ e < dim => e \in Stride(j[2], lanes, dim)
    BY <1>5, <2>2, <2>3
  <2>5. c \in stage(j)
    <3>1. CASE b = "KV" /\ e < square
      <4>1. e \in Stride(j[2], lanes, square) /\ c = <<"KV", e, j[1]>>
        BY <2>1, <2>3, <2>4, <3>1
      <4> QED
        BY <1>7, <4>1
    <3>2. CASE b = "z" /\ e < dim
      <4>1. e \in Stride(j[2], lanes, dim) /\ c = <<"z", e, j[1]>>
        BY <2>1, <2>3, <2>4, <3>2
      <4> QED
        BY <1>7, <4>1
    <3> QED
      BY <2>1, <3>1, <3>2
  <2>6. c[3] = i[1] /\ ~IsGlobal(c)
    BY <1>14, <2>3, <2>5
  <2> QED
    BY <1>11, <2>3, <2>5, <2>6
<1>16. ASSUME NEW i \in G, NEW j \in G, NEW c, c \in stage(i), c \in stage(j), i[1] = j[1]
       PROVE  i = j
  <2>1. c[2] % lanes = i[2] /\ c[2] % lanes = j[2]
    BY <1>14, <1>16
  <2> QED
    BY <1>4, <1>16, <2>1
<1>17. InPhases(k, O, A)
  <2>1. \A i \in Items(k) : Added(k, i) = A[i] /\ \A c \in O[i] : IsGlobal(c) /\ c \in Wrote(k, i)
    <3>1. ASSUME NEW i \in G
          PROVE  Added(k, i) = A[i] /\ O[i] \subseteq Wrote(k, i)
      <4>1. f[i].add = {} /\ g[i].add = {} /\ A[i] = {} /\ g[i].wr = O[i]
        BY <1>11
      <4>2. Wrote(k, i) = f[i].wr \cup g[i].wr /\ Added(k, i) = f[i].add \cup g[i].add
        BY <1>12
      <4> QED
        BY <4>1, <4>2
    <3> QED
      BY <1>9, <1>12, <3>1
  <2>2. DOMAIN k.phases = 1..2 /\ k.phases[1] = f /\ k.phases[2] = g
    BY <1>12
  <2>3. ASSUME NEW i \in G, NEW c, NEW p \in 1..2
        PROVE  /\ c \in k.phases[p][i].wr => c \in O[i] \/ (~IsGlobal(c) /\ c[3] = i[1])
               /\ c \in k.phases[p][i].rd => /\ ~IsGlobal(c) /\ c[3] = i[1]
                    /\ \E j \in G : j[1] = i[1] /\ \E q \in 1..(p - 1) : c \in k.phases[q][j].wr
    <3>1. CASE p = 1
      BY <1>11, <1>14, <2>2, <3>1
    <3>2. CASE p = 2
      <4>1. 1 \in 1..(p - 1)
        BY <3>2
      <4> QED
        BY <1>11, <1>15, <2>2, <3>2, <4>1
    <3> QED
      BY <3>1, <3>2
  <2>4. ASSUME NEW i \in G, NEW j \in G, NEW c, NEW p \in 1..2, i[1] = j[1], i # j, c \in k.phases[p][i].wr
        PROVE  c \notin k.phases[p][j].rd /\ c \notin k.phases[p][j].wr
    <3>1. CASE p = 1
      BY <1>11, <1>16, <2>2, <2>4, <3>1
    <3>2. CASE p = 2
      <4>1. c \in O[i] /\ g[j].rd = reads(j) /\ g[j].wr = O[j]
        BY <1>11, <2>2, <2>4, <3>2
      <4>2. c \notin O[j]
        BY <1>6, <1>11, <2>4, <4>1 DEF Shares
      <4>3. c \notin reads(j)
        BY <1>9, <1>15, <4>1
      <4> QED
        BY <2>2, <3>2, <4>1, <4>2, <4>3
    <3> QED
      BY <3>1, <3>2
  <2> QED
    BY <1>11, <1>12, <2>1, <2>2, <2>3, <2>4 DEF InPhases
<1>18. KernelRight(k)
  BY <1>6, <1>12, <1>13, <1>17, PhasesRight
<1> QED
  BY <1>18 DEF k

-----------------------------------------------------------------------------
(* More of the element, row and matrix kernels                              *)

\* A single row of nvfp4_gemm_mtiled.
THEOREM Nvfp4GemvRight ==
    ASSUME NEW N \in Nat, NEW half \in Nat \ {0}, NEW K \in Nat, K % (2 * half) = 0
    PROVE  KernelRight(Nvfp4Gemv(N, K, 2 * half))
<1>1. KernelRight(Nvfp4Mtiled(1, N, K, 2 * half))
  BY Nvfp4MtiledRight
<1> QED
  BY <1>1 DEF Nvfp4Gemv

\* merge_attn_states: every element merges the partitions that are not empty,
\* the first of a row also its log-sum-exp.
THEOREM MergeAttnStatesRight ==
    ASSUME NEW rows \in Nat, NEW dim \in Nat \ {0}, NEW empty
    PROVE  KernelRight(MergeAttnStates(rows, dim, empty))
<1> DEFINE n == rows * dim
           parts(r) == {p \in {"a", "b"} : <<p, r>> \notin empty}
           terms(e) == {<<p, e>> : p \in parts(e \div dim)}
           lse(e) == IF e % dim = 0 THEN {<<"lse", e \div dim>>} ELSE {}
           in(e) == {<<p, e>> : p \in {"a", "b"}}
           d == [i \in Flat(n) |-> Does(in(i[1]), {<<"out", i[1]>>} \cup lse(i[1]),
                                        Into(<<"out", i[1]>>, terms(i[1])))]
           Vals == [i \in Flat(n) |-> {<<"out", i[1]>>}]
           X == [i \in Flat(n) |-> lse(i[1])]
           W == [i \in Flat(n) |-> {<<"out", i[1]>>} \cup lse(i[1])]
           A == [i \in Flat(n) |-> Into(<<"out", i[1]>>, terms(i[1]))]
           out == At("out", 0, Upto(n))
           lses == At("lse", 0, Upto(rows))
           sums == UNION {Into(<<"out", e>>, terms(e)) : e \in Upto(n)}
           k == MergeAttnStates(rows, dim, empty)
<1>1. k = Kernel(<<d>>, out \cup lses, sums)
  BY DEF MergeAttnStates
<1>2. n \in Nat
  BY ProductNat
<1>3. \A e \in Upto(n) : e \in Nat /\ e \div dim \in Upto(rows) /\ e = (e \div dim) * dim + (e % dim)
  <2>1. ASSUME NEW e \in Upto(n)
        PROVE  e \in Nat /\ e \div dim \in Upto(rows) /\ e = (e \div dim) * dim + (e % dim)
    <3>1. e \in Nat /\ e < rows * dim
      BY <1>2 DEF Upto
    <3>2. e \div dim \in Nat /\ e \div dim < rows /\ e = (e \div dim) * dim + (e % dim)
      BY <3>1, DivisionOf, QuotientBelow
    <3> QED
      BY <3>1, <3>2 DEF Upto
  <2> QED
    BY <2>1
<1>4. \A r \in Upto(rows) : r * dim \in Upto(n) /\ (r * dim) % dim = 0 /\ (r * dim) \div dim = r
  <2>1. ASSUME NEW r \in Upto(rows)
        PROVE  r * dim \in Upto(n) /\ (r * dim) % dim = 0 /\ (r * dim) \div dim = r
    <3>1. r \in Nat /\ r < rows /\ 0 \in Upto(dim)
      BY DEF Upto
    <3>2. PICK x \in Nat : x = r * dim
      BY <3>1, ProductNat
    <3>3. x = r * dim + 0
      BY <3>2
    <3>4. x \div dim = r /\ x % dim = 0
      BY <3>1, <3>3, DivisionUnique
    <3>5. x < rows * dim
      BY <3>1, <3>4, QuotientBelow
    <3> QED
      BY <1>2, <3>2, <3>4, <3>5 DEF Upto
  <2> QED
    BY <2>1
<1> HIDE DEF n
<1>5. Shares(Vals, out)
  BY <1>2, ElementShares
<1>6. Shares(X, lses)
  <2> DEFINE L == {e \in Upto(n) : e % dim = 0}
             C == [e \in Upto(n) |-> <<"lse", e \div dim>>]
  <2>1. DOMAIN X = Flat(n) /\ \A i \in Flat(n) : X[i] = IF i[1] \in L THEN {C[i[1]]} ELSE {}
    BY FlatItems
  <2>2. ASSUME NEW a \in L, NEW b \in L, C[a] = C[b]
        PROVE  a = b
    <3>1. a \in Upto(n) /\ b \in Upto(n) /\ a % dim = 0 /\ b % dim = 0
      OBVIOUS
    <3>2. a \div dim = b \div dim
      BY <2>2, <3>1
    <3> QED
      BY <1>3, <3>1, <3>2
  <2>3. ASSUME NEW c
        PROVE  c \in lses <=> \E e \in L : c = C[e]
    <3>1. ASSUME c \in lses
          PROVE  \E e \in L : c = C[e]
      <4>1. PICK r \in Upto(rows) : c = <<"lse", 0 + r>>
        BY <3>1 DEF At
      <4>2. 0 + r = r
        BY DEF Upto
      <4>3. PICK e \in Upto(n) : e = r * dim /\ e % dim = 0 /\ e \div dim = r
        BY <1>4
      <4> QED
        BY <4>1, <4>2, <4>3
    <3>2. ASSUME NEW e \in L, c = C[e]
          PROVE  c \in lses
      <4>1. PICK r \in Upto(rows) : r = e \div dim
        BY <1>3
      <4>2. c = <<"lse", r>> /\ 0 + r = r
        BY <3>2, <4>1 DEF Upto
      <4> QED
        BY <4>2 DEF At
    <3> QED
      BY <3>1, <3>2
  <2>4. L \subseteq Upto(n)
    OBVIOUS
  <2> HIDE DEF X, C, L, lses
  <2>5. NumberedCells(X, n, L, C, lses)
    BY <2>1, <2>2, <2>3, <2>4 DEF NumberedCells
  <2> QED
    BY <2>5, CellsShared
<1>7. Shares(A, sums)
  <2> DEFINE C == [e \in Upto(n) |-> <<"out", e>>]
             T == [e \in Upto(n) |-> terms(e)]
             L == Upto(n)
  <2>1. /\ DOMAIN A = Flat(n)
        /\ \A i \in Flat(n) : A[i] = IF i[1] \in L THEN Into(C[i[1]], T[i[1]]) ELSE {}
    BY FlatItems
  <2>2. \A a, b \in L : C[a] = C[b] => a = b
    OBVIOUS
  <2>3. \A z : z \in sums <=> \E e \in L : z \in Into(C[e], T[e])
    OBVIOUS
  <2>4. L \subseteq Upto(n)
    OBVIOUS
  <2> HIDE DEF A, C, T, L, sums
  <2>5. NumberedSums(A, n, L, C, T, sums)
    BY <2>1, <2>2, <2>3, <2>4 DEF NumberedSums
  <2> QED
    BY <2>5, SumsShared
<1>8. /\ DOMAIN d = Flat(n) /\ DOMAIN Vals = Flat(n) /\ DOMAIN X = Flat(n) /\ DOMAIN W = Flat(n) /\ DOMAIN A = Flat(n)
      /\ \A i \in Flat(n) : W[i] = Vals[i] \cup X[i] /\ d[i].wr = W[i] /\ d[i].add = A[i] /\ d[i].rd = in(i[1])
  BY DEF Does
<1>9. \A i \in Flat(n) : \A c \in W[i] : IsGlobal(c) /\ (c[1] = "out" \/ c[1] = "lse")
  BY GlobalCell
<1>10. \A e : \A c \in in(e) : IsGlobal(c) /\ (c[1] = "a" \/ c[1] = "b")
  BY GlobalCell
<1>11. out \cap lses = {}
  <2>1. \A c \in out : c[1] = "out"
    BY CellOfBuffer
  <2>2. \A c \in lses : c[1] = "lse"
    BY CellOfBuffer
  <2> QED
    BY <2>1, <2>2
<1> HIDE DEF d, Vals, X, W, A, out, lses, sums, in, k
<1>12. Shares(W, out \cup lses)
  BY <1>5, <1>6, <1>8, <1>11, SharesTwo
<1>13. /\ \A i \in DOMAIN d : d[i].wr = W[i] /\ d[i].add = A[i] /\ \A c \in d[i].rd \cup W[i] : IsGlobal(c)
       /\ \A i, j \in DOMAIN d : \A c : c \in W[i] /\ c \in d[j].rd => i = j
  BY <1>8, <1>9, <1>10
<1>14. DOMAIN W = DOMAIN d /\ DOMAIN A = DOMAIN d
  BY <1>8
<1>15. KernelRight(k)
  BY <1>1, <1>7, <1>12, <1>13, <1>14, OneRight
<1> QED
  BY <1>15 DEF k

\* dsv4_hc_post: every element of every output stream adds up one element of
\* all the residual streams and one of x.
THEOREM Dsv4HcPostRight ==
    ASSUME NEW tokens \in Nat, NEW streams \in Nat \ {0}, NEW hidden \in Nat \ {0}
    PROVE  KernelRight(Dsv4HcPost(tokens, streams, hidden))
<1> DEFINE n == tokens * streams * hidden
           res(t, h) == {<<"residual", (t * streams + s) * hidden + h>> : s \in Upto(streams)}
           in(t, h) == res(t, h) \cup {<<"x", t * hidden + h>>}
           of(e) == in((e \div hidden) \div streams, e % hidden)
           d == [i \in Flat(n) |-> Does(of(i[1]), {<<"out", i[1]>>}, Into(<<"out", i[1]>>, of(i[1])))]
           W == [i \in Flat(n) |-> {<<"out", i[1]>>}]
           A == [i \in Flat(n) |-> Into(<<"out", i[1]>>, of(i[1]))]
           out == At("out", 0, Upto(n))
           sums == UNION {Into(<<"out", (t * streams + o) * hidden + h>>, in(t, h)) :
                            t \in Upto(tokens), o \in Upto(streams), h \in Upto(hidden)}
           k == Dsv4HcPost(tokens, streams, hidden)
<1>1. k = Kernel(<<d>>, out, sums)
  BY DEF Dsv4HcPost
<1>2. PICK rows \in Nat : rows = tokens * streams
  BY ProductNat
<1>3. n = rows * hidden /\ n \in Nat
  BY <1>2, ProductNat
<1>4. ASSUME NEW e \in Upto(n)
      PROVE  \E t \in Upto(tokens), o \in Upto(streams), h \in Upto(hidden) :
               e = (t * streams + o) * hidden + h /\ t = (e \div hidden) \div streams /\ h = e % hidden
  <2>1. e \in Nat /\ e < rows * hidden
    BY <1>3 DEF Upto
  <2>2. PICK q \in Nat : q = e \div hidden /\ e = q * hidden + (e % hidden) /\ e % hidden \in Upto(hidden)
    BY <2>1, DivisionOf
  <2>3. q < tokens * streams
    BY <1>2, <2>1, <2>2, QuotientBelow
  <2>4. PICK t \in Nat : t = q \div streams /\ q = t * streams + (q % streams) /\ q % streams \in Upto(streams)
    BY DivisionOf
  <2>5. t \in Upto(tokens)
    BY <2>3, <2>4, QuotientBelow, SMTT(30) DEF Upto
  <2> QED
    BY <2>2, <2>4, <2>5
<1>5. ASSUME NEW t \in Upto(tokens), NEW o \in Upto(streams), NEW h \in Upto(hidden)
      PROVE  \E e \in Upto(n) : e = (t * streams + o) * hidden + h /\ t = (e \div hidden) \div streams /\ h = e % hidden
  <2>1. t \in Nat /\ t < tokens
    BY DEF Upto
  <2>2. PICK q \in Nat : q = t * streams + o /\ q \div streams = t
    BY <2>1, DivisionUnique
  <2>3. q < rows
    BY <1>2, <2>1, <2>2, QuotientBelow
  <2>4. PICK e \in Nat : e = q * hidden + h /\ e \div hidden = q /\ e % hidden = h
    BY DivisionUnique
  <2>5. e \in Upto(n)
    BY <1>2, <1>3, <2>3, <2>4, QuotientBelow DEF Upto
  <2> QED
    BY <2>2, <2>4, <2>5
<1>6. \A t, h : \A c \in in(t, h) : IsGlobal(c) /\ c[1] # "out"
  BY GlobalCell
<1> HIDE DEF n, in
<1>7. Shares(W, out)
  BY <1>3, ElementShares
<1>8. Shares(A, sums)
  <2> DEFINE C == [e \in Upto(n) |-> <<"out", e>>]
             T == [e \in Upto(n) |-> of(e)]
             L == Upto(n)
  <2>1. /\ DOMAIN A = Flat(n)
        /\ \A i \in Flat(n) : A[i] = IF i[1] \in L THEN Into(C[i[1]], T[i[1]]) ELSE {}
    BY FlatItems
  <2>2. \A a, b \in L : C[a] = C[b] => a = b
    OBVIOUS
  <2>3. ASSUME NEW z
        PROVE  z \in sums <=> \E e \in L : z \in Into(C[e], T[e])
    <3>1. ASSUME z \in sums
          PROVE  \E e \in L : z \in Into(C[e], T[e])
      <4>1. PICK t \in Upto(tokens), o \in Upto(streams), h \in Upto(hidden) :
               z \in Into(<<"out", (t * streams + o) * hidden + h>>, in(t, h))
        BY <3>1
      <4>2. PICK e \in Upto(n) : e = (t * streams + o) * hidden + h /\ t = (e \div hidden) \div streams /\ h = e % hidden
        BY <1>5
      <4>3. z \in Into(C[e], T[e])
        BY <4>1, <4>2
      <4> QED
        BY <4>3
    <3>2. ASSUME NEW e \in L, z \in Into(C[e], T[e])
          PROVE  z \in sums
      <4>1. PICK t \in Upto(tokens), o \in Upto(streams), h \in Upto(hidden) :
               e = (t * streams + o) * hidden + h /\ t = (e \div hidden) \div streams /\ h = e % hidden
        BY <1>4
      <4>2. C[e] = <<"out", (t * streams + o) * hidden + h>> /\ T[e] = in(t, h)
        BY <4>1
      <4>3. z \in Into(<<"out", (t * streams + o) * hidden + h>>, in(t, h))
        BY <3>2, <4>2
      <4> QED
        BY <4>3
    <3> HIDE DEF C, T, L, sums
    <3> QED
      BY <3>1, <3>2
  <2>4. L \subseteq Upto(n)
    OBVIOUS
  <2> HIDE DEF A, C, T, L, sums
  <2>5. NumberedSums(A, n, L, C, T, sums)
    BY <2>1, <2>2, <2>3, <2>4 DEF NumberedSums
  <2> QED
    BY <2>5, SumsShared
<1>9. /\ DOMAIN d = Flat(n) /\ DOMAIN W = Flat(n) /\ DOMAIN A = Flat(n)
      /\ \A i \in Flat(n) : d[i].wr = W[i] /\ d[i].add = A[i] /\ d[i].rd = of(i[1])
  BY DEF Does
<1>10. \A i \in Flat(n) : \A c \in W[i] : IsGlobal(c) /\ c[1] = "out"
  BY GlobalCell
<1>11. \A e : \A c \in of(e) : IsGlobal(c) /\ c[1] # "out"
  BY <1>6
<1> HIDE DEF d, W, A, out, sums, of, k
<1>12. /\ \A i \in DOMAIN d : d[i].wr = W[i] /\ d[i].add = A[i] /\ \A c \in d[i].rd \cup W[i] : IsGlobal(c)
       /\ \A i, j \in DOMAIN d : \A c : c \in W[i] /\ c \in d[j].rd => i = j
  BY <1>9, <1>10, <1>11
<1>13. DOMAIN W = DOMAIN d /\ DOMAIN A = DOMAIN d
  BY <1>9
<1>14. KernelRight(k)
  BY <1>1, <1>7, <1>8, <1>12, <1>13, OneRight
<1> QED
  BY <1>14 DEF k

LEMMA HalvesOf ==
    ASSUME NEW half \in Nat, NEW a \in Nat
    PROVE  /\ (a * (2 * half)) \div 2 = a * half
           /\ {e \div 2 : e \in Upto(2 * half)} = Upto(half)
<1>1. \A x \in Nat : (2 * x) \div 2 = x
  OBVIOUS
<1>2. (a * (2 * half)) \div 2 = a * half
  <2>1. PICK x \in Nat : x = a * half
    BY ProductNat
  <2>2. a * (2 * half) = 2 * x
    BY <2>1
  <2> QED
    BY <1>1, <2>1, <2>2
<1>3. \A e \in Upto(2 * half) : e \div 2 \in Upto(half)
  BY DEF Upto
<1>4. \A x \in Upto(half) : 2 * x \in Upto(2 * half) /\ (2 * x) \div 2 = x
  BY DEF Upto
<1> QED
  BY <1>2, <1>3, <1>4

\* quantize_int4_group: an item packs a group of a row, two codes to a byte,
\* by the scale of all of the group's elements.
THEOREM QuantizeInt4Right ==
    ASSUME NEW N \in Nat, NEW gpr \in Nat \ {0}, NEW half \in Nat \ {0}, (2 * half) % VecW = 0
    PROVE  KernelRight(QuantizeInt4(N, gpr * (2 * half), 2 * half))
<1> DEFINE group == 2 * half
           K == gpr * group
           vecs == group \div VecW
           read(i) == At("w", (i[1] \div gpr) * K + (i[1] % gpr) * group, Upto(vecs * VecW))
           byte0(i) == (i[1] \div gpr) * (K \div 2) + ((i[1] % gpr) * group) \div 2
           at(i) == (i[1] \div gpr) * gpr + (i[1] % gpr)
           d == [i \in Flat(N * gpr) |->
                   Does(read(i), At("packed", byte0(i), {e \div 2 : e \in Upto(vecs * VecW)})
                                   \cup {<<"scales", at(i)>>},
                        Into(<<"absmax", at(i)>>, read(i)))]
           row(e) == At("w", e * group, Upto(group))
           Vals == [i \in Flat(N * gpr) |-> At("packed", i[1] * half, Upto(half))]
           X == [i \in Flat(N * gpr) |-> {<<"scales", i[1]>>}]
           W == [i \in Flat(N * gpr) |-> At("packed", i[1] * half, Upto(half)) \cup {<<"scales", i[1]>>}]
           A == [i \in Flat(N * gpr) |-> Into(<<"absmax", i[1]>>, row(i[1]))]
           packed == At("packed", 0, Upto(N * (K \div 2)))
           scales == At("scales", 0, Upto(N * gpr))
           sums == UNION {Into(<<"absmax", n * gpr + g>>, At("w", n * K + g * group, Upto(group))) :
                            n \in Upto(N), g \in Upto(gpr)}
           k == QuantizeInt4(N, gpr * (2 * half), 2 * half)
<1>1. K \div group = gpr
  <2>1. group \in Nat \ {0} /\ 0 \in Upto(group)
    BY DEF Upto
  <2>2. (gpr * group + 0) \div group = gpr
    BY <2>1, DivisionUnique
  <2>3. gpr * group \in Nat
    BY <2>1, ProductNat
  <2> QED
    BY <2>2, <2>3
<1>2. k = Kernel(<<d>>, packed \cup scales, sums)
  <2> DEFINE by(q) ==
               Kernel(<<[i \in Flat(N * q) |->
                           Does(At("w", (i[1] \div q) * K + (i[1] % q) * group, Upto(vecs * VecW)),
                                At("packed", (i[1] \div q) * (K \div 2) + ((i[1] % q) * group) \div 2,
                                   {e \div 2 : e \in Upto(vecs * VecW)})
                                  \cup {<<"scales", (i[1] \div q) * q + (i[1] % q)>>},
                                Into(<<"absmax", (i[1] \div q) * q + (i[1] % q)>>,
                                     At("w", (i[1] \div q) * K + (i[1] % q) * group, Upto(vecs * VecW))))]>>,
                      packed \cup At("scales", 0, Upto(N * q)),
                      UNION {Into(<<"absmax", n * q + g>>, At("w", n * K + g * group, Upto(group))) :
                               n \in Upto(N), g \in Upto(q)})
  <2>1. k = by(K \div group)
    BY DEF QuantizeInt4
  <2>2. by(gpr) = Kernel(<<d>>, packed \cup scales, sums)
    OBVIOUS
  <2> HIDE DEF by, k, d, packed, scales, sums
  <2> QED
    BY <1>1, <2>1, <2>2
<1>3. vecs * VecW = group
  <2>1. group \in Nat /\ VecW \in Nat \ {0}
    BY VecAssumption
  <2>2. group = (group \div VecW) * VecW + (group % VecW) /\ group \div VecW \in Nat
    BY <2>1, DivisionOf
  <2>3. (group \div VecW) * VecW \in Nat
    BY <2>1, <2>2, ProductNat
  <2> QED
    BY <2>2, <2>3
<1>4. K \div 2 = gpr * half
  BY HalvesOf
<1>5. \A n \in Nat, g \in Nat : n * K + g * group = (n * gpr + g) * group
  <2>1. \A n \in Nat, g \in Nat : n * (gpr * group) + g * group = (n * gpr + g) * group
    BY SMT
  <2> QED
    BY <2>1
<1>6. ASSUME NEW i \in Flat(N * gpr)
      PROVE  /\ at(i) = i[1] /\ byte0(i) = i[1] * half /\ read(i) = row(i[1])
             /\ i[1] \in Upto(N * gpr)
             /\ \E n \in Upto(N), g \in Upto(gpr) : i[1] = n * gpr + g
  <2>1. i[1] \in Nat /\ i[1] < N * gpr /\ i[1] \in Upto(N * gpr)
    BY FlatItems DEF Upto
  <2>2. PICK n \in Nat, g \in Upto(gpr) : n = i[1] \div gpr /\ g = i[1] % gpr /\ i[1] = n * gpr + g
    <3>1. /\ i[1] \div gpr \in Nat /\ i[1] % gpr \in Upto(gpr)
          /\ i[1] = (i[1] \div gpr) * gpr + (i[1] % gpr)
      BY <2>1, DivisionOf
    <3> QED
      BY <3>1
  <2>3. n \in Upto(N)
    <3>1. n < N
      BY <2>1, <2>2, QuotientBelow
    <3> QED
      BY <3>1 DEF Upto
  <2>4. g \in Nat
    BY DEF Upto
  <2>5. (g * group) \div 2 = g * half
    BY <2>4, HalvesOf
  <2>6. n * (gpr * half) + g * half = (n * gpr + g) * half
    BY <2>4
  <2>7. byte0(i) = i[1] * half
    BY <1>4, <2>2, <2>5, <2>6
  <2>8. read(i) = row(i[1])
    <3>1. n * K + g * group = i[1] * group
      BY <1>5, <2>2, <2>4, ZenonT(40)
    <3> QED
      BY <1>3, <2>2, <3>1
  <2> QED
    BY <2>1, <2>2, <2>3, <2>7, <2>8
<1>7. N * gpr \in Nat
  BY ProductNat
<1>8. packed = At("packed", 0, Upto(N * gpr * half))
  <2>1. N * (gpr * half) = N * gpr * half
    BY SMT
  <2> QED
    BY <1>4, <2>1
<1>9. Shares(Vals, packed)
  BY <1>7, <1>8, RowEachShares
<1>10. Shares(X, scales)
  BY <1>7, ElementShares
<1>11. Shares(A, sums)
  <2> DEFINE n == N * gpr
             C == [e \in Upto(n) |-> <<"absmax", e>>]
             T == [e \in Upto(n) |-> row(e)]
             L == Upto(n)
  <2>1. /\ DOMAIN A = Flat(n)
        /\ \A i \in Flat(n) : A[i] = IF i[1] \in L THEN Into(C[i[1]], T[i[1]]) ELSE {}
    BY FlatItems
  <2>2. \A a, b \in L : C[a] = C[b] => a = b
    OBVIOUS
  <2>3. ASSUME NEW z
        PROVE  z \in sums <=> \E e \in L : z \in Into(C[e], T[e])
    <3>1. ASSUME z \in sums
          PROVE  \E e \in L : z \in Into(C[e], T[e])
      <4>1. PICK m \in Upto(N), g \in Upto(gpr) :
               z \in Into(<<"absmax", m * gpr + g>>, At("w", m * K + g * group, Upto(group)))
        BY <3>1
      <4>2. m \in Nat /\ m < N /\ g \in Nat
        BY DEF Upto
      <4>3. PICK e \in Nat : e = m * gpr + g /\ e \div gpr = m
        BY <4>2, DivisionUnique
      <4>4. e < N * gpr
        BY <4>2, <4>3, QuotientBelow
      <4>5. e \in L
        BY <1>7, <4>4 DEF Upto
      <4>6. m * K + g * group = e * group
        BY <1>5, <4>2, <4>3
      <4>7. z \in Into(C[e], T[e])
        BY <4>1, <4>3, <4>5, <4>6
      <4> QED
        BY <4>5, <4>7
    <3>2. ASSUME NEW e \in L, z \in Into(C[e], T[e])
          PROVE  z \in sums
      <4>1. PICK m \in Upto(N), g \in Upto(gpr) : e = m * gpr + g
        <5>1. PICK i \in Flat(N * gpr) : i[1] = e
          BY ItemOf
        <5> QED
          BY <1>6, <5>1
      <4>2. m * K + g * group = e * group
        <5>1. m \in Nat /\ g \in Nat
          BY DEF Upto
        <5> QED
          BY <1>5, <4>1, <5>1
      <4>3. C[e] = <<"absmax", m * gpr + g>> /\ T[e] = At("w", m * K + g * group, Upto(group))
        BY <4>1, <4>2
      <4>4. z \in Into(<<"absmax", m * gpr + g>>, At("w", m * K + g * group, Upto(group)))
        BY <3>2, <4>3
      <4> QED
        BY <4>4
    <3> HIDE DEF C, T, L, sums
    <3> QED
      BY <3>1, <3>2
  <2>4. L \subseteq Upto(n)
    OBVIOUS
  <2> HIDE DEF A, C, T, L, sums
  <2>5. NumberedSums(A, n, L, C, T, sums)
    BY <2>1, <2>2, <2>3, <2>4 DEF NumberedSums
  <2> QED
    BY <2>5, SumsShared
<1>12. {e \div 2 : e \in Upto(vecs * VecW)} = Upto(half)
  BY <1>3, HalvesOf
<1>13. \A i \in Flat(N * gpr) : /\ d[i].rd = row(i[1]) /\ d[i].wr = W[i] /\ d[i].add = A[i]
                                /\ W[i] = Vals[i] \cup X[i]
  <2> HIDE DEF at, byte0, read, row
  <2> QED
    BY <1>6, <1>12 DEF Does
<1>14. /\ DOMAIN d = Flat(N * gpr) /\ DOMAIN Vals = Flat(N * gpr) /\ DOMAIN X = Flat(N * gpr)
       /\ DOMAIN W = Flat(N * gpr) /\ DOMAIN A = Flat(N * gpr)
  OBVIOUS
<1>15. \A e : \A c \in row(e) : IsGlobal(c) /\ c[1] = "w"
  BY CellOfBuffer
<1>16. \A i \in Flat(N * gpr) : \A c \in W[i] : IsGlobal(c) /\ (c[1] = "packed" \/ c[1] = "scales")
  BY CellOfBuffer, GlobalCell
<1>17. packed \cap scales = {}
  <2>1. \A c \in packed : c[1] = "packed"
    BY CellOfBuffer
  <2>2. \A c \in scales : c[1] = "scales"
    BY CellOfBuffer
  <2> QED
    BY <2>1, <2>2
<1> HIDE DEF d, Vals, X, W, A, packed, scales, sums, row, k
<1>18. Shares(W, packed \cup scales)
  BY <1>9, <1>10, <1>13, <1>14, <1>17, SharesTwo
<1>19. /\ \A i \in DOMAIN d : d[i].wr = W[i] /\ d[i].add = A[i] /\ \A c \in d[i].rd \cup W[i] : IsGlobal(c)
       /\ \A i, j \in DOMAIN d : \A c : c \in W[i] /\ c \in d[j].rd => i = j
  BY <1>13, <1>14, <1>15, <1>16
<1>20. DOMAIN W = DOMAIN d /\ DOMAIN A = DOMAIN d
  BY <1>14
<1>21. KernelRight(k)
  BY <1>2, <1>11, <1>18, <1>19, <1>20, OneRight
<1> QED
  BY <1>21 DEF k

\* group_rmsnorm_gated: the groups of a row are rows of their own; without the
\* norm there is nothing to add up.
THEOREM GroupRmsNormGatedRight ==
    ASSUME NEW rows \in Nat, NEW groups \in Nat \ {0}, NEW size \in Nat \ {0}, NEW normed \in BOOLEAN
    PROVE  KernelRight(GroupRmsNormGated(rows, groups * size, groups, normed))
<1> DEFINE n == rows * groups
           G == Grid(n, RowLanes)
           E == [lane \in Upto(RowLanes) |-> Elems(lane, size)]
           c(i, b) == At(b, i[1] * size, Elems(i[2], size))
           X == Mine("x", E, size, n, RowLanes)
           Vals == Mine("gate", E, size, n, RowLanes)
           W == Mine("out", E, size, n, RowLanes)
           R == [i \in G |-> X[i] \cup Vals[i]]
           A == MineTo("sumsq", "x", E, size, n, RowLanes)
           d == [i \in G |-> Reduces("x", "sumsq", i, size, Elems(i[2], size))]
           e == [i \in G |-> Does(c(i, "x") \cup c(i, "gate"), c(i, "out"), {})]
           out == At("out", 0, Upto(n * size))
           sums == Totals({"sumsq"}, "x", n, size)
           k == GroupRmsNormGated(rows, groups * size, groups, normed)
<1>1. (groups * size) \div groups = size
  <2>1. 0 \in Upto(groups)
    BY DEF Upto
  <2>2. (size * groups + 0) \div groups = size
    BY <2>1, DivisionUnique
  <2>3. size * groups \in Nat /\ size * groups = groups * size
    BY ProductNat
  <2> QED
    BY <2>2, <2>3
<1>2. k = Kernel(IF normed THEN <<d, e>> ELSE <<e>>, out, IF normed THEN sums ELSE {})
  <2> DEFINE at(q, i, b) == At(b, i[1] * q, Elems(i[2], q))
             put(q) == [i \in G |-> Does(at(q, i, "x") \cup at(q, i, "gate"), at(q, i, "out"), {})]
             by(q) ==
               Kernel(IF normed THEN <<[i \in G |-> Reduces("x", "sumsq", i, q, Elems(i[2], q))], put(q)>>
                      ELSE <<put(q)>>,
                      At("out", 0, Upto(n * q)), IF normed THEN Totals({"sumsq"}, "x", n, q) ELSE {})
  <2>1. k = by((groups * size) \div groups)
    BY DEF GroupRmsNormGated
  <2>2. by(size) = Kernel(IF normed THEN <<d, e>> ELSE <<e>>, out, IF normed THEN sums ELSE {})
    OBVIOUS
  <2> HIDE DEF by, k, d, e, out, sums
  <2> QED
    BY <1>1, <2>1, <2>2
<1>3. Laned(E, size, RowLanes)
  BY ElemsLaned
<1>4. \A i \in G : E[i[2]] = Elems(i[2], size)
  BY GridItems
<1>5. n \in Nat
  BY ProductNat
<1> HIDE DEF E, n
<1>6. \A i \in G : /\ X[i] = c(i, "x") /\ Vals[i] = c(i, "gate") /\ W[i] = c(i, "out")
                   /\ A[i] = Into(<<"sumsq", i[1]>>, X[i])
  BY <1>4 DEF Mine, MineTo
<1>7. ASSUME NEW i \in G
      PROVE  /\ d[i].wr = {} /\ d[i].rd = X[i] /\ d[i].add = A[i]
             /\ e[i].wr = W[i] /\ e[i].rd = R[i] /\ e[i].add = {} /\ R[i] = X[i] \cup Vals[i]
  BY <1>6 DEF Reduces, Does
<1>8. DOMAIN d = G /\ DOMAIN e = G /\ DOMAIN W = G
  BY MineDomain
<1>9. Shares(W, out) /\ Own(W, E, size, n, RowLanes)
  BY <1>3, <1>5, MineShares, MineOwn
<1>10. Own(X, E, size, n, RowLanes) /\ Own(Vals, E, size, n, RowLanes)
  BY MineOwn
<1>11. Shares(A, sums) /\ DOMAIN A = G
  BY <1>3, <1>5, MineSums DEF TotalsOf
<1>12. \A i \in G : /\ \A x \in X[i] : IsGlobal(x) /\ x[1] = "x"
                    /\ \A x \in Vals[i] : IsGlobal(x) /\ x[1] = "gate"
                    /\ \A x \in W[i] : IsGlobal(x) /\ x[1] = "out"
  BY MineGlobal
<1>13. \A i \in G : R[i] \subseteq X[i] \cup Vals[i]
  BY <1>7
<1> HIDE DEF d, e, k, X, Vals, W, A, R, out, sums
<1>14. Own(R, E, size, n, RowLanes)
  BY <1>10, <1>13, OwnTwo
<1>15. CASE normed
  <2>1. k = Kernel(<<d, e>>, out, sums)
    BY <1>2, <1>15
  <2>2. \A i \in G : d[i].wr \cup e[i].wr = W[i] /\ d[i].rd \cup e[i].rd = R[i] /\ d[i].add \cup e[i].add = A[i]
    <3>1. ASSUME NEW i \in G
          PROVE  d[i].wr \cup e[i].wr = W[i] /\ d[i].rd \cup e[i].rd = R[i] /\ d[i].add \cup e[i].add = A[i]
      BY <1>7
    <3> QED
      BY <3>1
  <2>3. KernelRight(k)
    BY <1>3, <1>5, <1>8, <1>9, <1>11, <1>14, <2>1, <2>2, RowsTwoPhases
  <2> QED
    BY <2>3 DEF k
<1>16. CASE ~normed
  <2>1. k = Kernel(<<e>>, out, {})
    BY <1>2, <1>16
  <2>2. \A i \in DOMAIN e : e[i].wr = W[i] /\ e[i].add = {} /\ \A x \in e[i].rd \cup W[i] : IsGlobal(x)
    BY <1>7, <1>8, <1>12
  <2>3. \A i, j \in DOMAIN e : \A x : x \in W[i] /\ x \in e[j].rd => i = j
    BY <1>7, <1>8, <1>12
  <2>4. DOMAIN W = DOMAIN e
    BY <1>8
  <2>5. KernelRight(k)
    BY <1>9, <2>1, <2>2, <2>3, <2>4, MapRight
  <2> QED
    BY <2>5 DEF k
<1> QED
  BY <1>15, <1>16

\* pool_mean_rms_l2: a lane adds up its channels over the tokens of its sequence.
THEOREM PoolMeanRight ==
    ASSUME NEW offsets, Len(offsets) - 1 \in Nat, NEW dim \in Nat \ {0}, NEW sub \in Nat \ {0}
    PROVE  KernelRight(PoolMean(offsets, dim, sub))
<1> DEFINE batch == Len(offsets) - 1
           G == Grid(batch, sub)
           chans(i) == Stride(i[2], sub, dim)
           tokens(g) == offsets[g + 1]..(offsets[g + 2] - 1)
           xs(g, c) == {<<"x", t * dim + c>> : t \in tokens(g)}
           read(i) == UNION {At("x", t * dim, chans(i)) : t \in tokens(i[1])}
           E == [l \in Upto(sub) |-> Stride(l, sub, dim)]
           W == [i \in G |-> At("out", i[1] * dim, chans(i))]
           P == [i \in G |-> At("pooled", i[1] * dim, chans(i))]
           terms(i) == UNION {Into(<<"pooled", i[1] * dim + c>>, xs(i[1], c)) : c \in chans(i)}
           A == [i \in G |-> terms(i)]
           all == At("pooled", 0, Upto(batch * dim))
           T == [c \in all |-> xs(c[2] \div dim, c[2] % dim)]
           d == [i \in G |-> Does(read(i), {}, terms(i))]
           e == [i \in G |-> Does({}, At("out", i[1] * dim, chans(i)), {})]
           out == At("out", 0, Upto(batch * dim))
           sums == UNION {Into(<<"pooled", g * dim + c>>, xs(g, c)) : g \in Upto(batch), c \in Upto(dim)}
           k == PoolMean(offsets, dim, sub)
<1>1. k = Kernel(<<d, e>>, out, sums)
  BY DEF PoolMean
<1>2. Shares(E, Upto(dim)) /\ DOMAIN E = Upto(sub)
  BY StrideShares
<1>3. \A i \in G : /\ i[1] \in Upto(batch) /\ i[1] \in Nat /\ E[i[2]] = chans(i)
                   /\ chans(i) \subseteq Upto(dim)
  <2>1. ASSUME NEW i \in G
        PROVE  i[1] \in Upto(batch) /\ i[1] \in Nat /\ E[i[2]] = chans(i) /\ chans(i) \subseteq Upto(dim)
    <3>1. i[1] \in Upto(batch) /\ i[1] \in Nat /\ i[2] \in Upto(sub)
      BY GridItems
    <3>2. E[i[2]] = chans(i)
      BY <3>1
    <3>3. E[i[2]] \subseteq Upto(dim)
      BY <1>2, <3>1 DEF Shares
    <3> QED
      BY <3>1, <3>2, <3>3
  <2> QED
    BY <2>1
<1>4. batch \in Nat
  OBVIOUS
<1> HIDE DEF E, batch
<1>5. DOMAIN W = G /\ DOMAIN P = G /\ \A i \in G : W[i] = At("out", i[1] * dim, E[i[2]]) /\ P[i] = At("pooled", i[1] * dim, E[i[2]])
  BY <1>3
<1>6. Shares(W, out)
  <2> HIDE DEF W, out
  <2>1. Shares(W, At("out", 0, Upto(batch * dim)))
    BY <1>2, <1>4, <1>5, RowShares
  <2> QED
    BY <2>1 DEF out
<1>7. Shares(P, all)
  <2> HIDE DEF P, all
  <2>1. Shares(P, At("pooled", 0, Upto(batch * dim)))
    BY <1>2, <1>4, <1>5, RowShares
  <2> QED
    BY <2>1 DEF all
<1>8. ASSUME NEW g \in Upto(batch), NEW c \in Upto(dim)
      PROVE  /\ <<"pooled", g * dim + c>> \in all
             /\ T[<<"pooled", g * dim + c>>] = xs(g, c)
  <2>1. g \in Nat /\ g < batch
    BY <1>4 DEF Upto
  <2>2. PICK x \in Nat : x = g * dim + c /\ x \div dim = g /\ x % dim = c
    BY <2>1, DivisionUnique
  <2>3. x < batch * dim
    BY <1>4, <2>1, <2>2, QuotientBelow
  <2>4. batch * dim \in Nat
    BY <1>4, ProductNat
  <2>5. x \in Upto(batch * dim) /\ 0 + x = x
    BY <2>3, <2>4 DEF Upto
  <2>6. <<"pooled", x>> \in all
    BY <2>5 DEF At
  <2>7. T[<<"pooled", x>>] = xs(x \div dim, x % dim)
    BY <2>6
  <2> HIDE DEF T, all, xs
  <2> QED
    BY <2>2, <2>6, <2>7
<1>9. ASSUME NEW c \in all
      PROVE  \E g \in Upto(batch), x \in Upto(dim) : c = <<"pooled", g * dim + x>>
  <2>1. batch * dim \in Nat
    BY <1>4, ProductNat
  <2>2. PICK y \in Upto(batch * dim) : c = <<"pooled", 0 + y>>
    BY DEF At
  <2>3. y \in Nat /\ y < batch * dim /\ 0 + y = y
    BY <2>1 DEF Upto
  <2>4. PICK g \in Nat, x \in Upto(dim) : g = y \div dim /\ y = g * dim + x
    <3>1. y \div dim \in Nat /\ y % dim \in Upto(dim) /\ y = (y \div dim) * dim + (y % dim)
      BY <2>3, DivisionOf
    <3> QED
      BY <3>1
  <2>5. g < batch
    BY <1>4, <2>3, <2>4, QuotientBelow
  <2>6. g \in Upto(batch)
    BY <1>4, <2>5 DEF Upto
  <2>7. c = <<"pooled", g * dim + x>>
    BY <2>2, <2>3, <2>4
  <2> QED
    BY <2>6, <2>7
<1>10. TotalEach(A, P, T, all, sums)
  <2>1. ASSUME NEW i \in G, NEW z
        PROVE  z \in A[i] <=> \E c \in P[i] : z \in Into(c, T[c])
    <3>1. ASSUME NEW x \in chans(i)
          PROVE  T[<<"pooled", i[1] * dim + x>>] = xs(i[1], x)
      BY <1>3, <1>8
    <3>2. P[i] = {<<"pooled", i[1] * dim + x>> : x \in chans(i)}
      BY DEF At
    <3>3. A[i] = UNION {Into(<<"pooled", i[1] * dim + c>>, xs(i[1], c)) : c \in chans(i)}
      OBVIOUS
    <3> HIDE DEF T, xs, A, P, chans
    <3> QED
      BY <3>1, <3>2, <3>3
  <2>2. ASSUME NEW z
        PROVE  z \in sums <=> \E c \in all : z \in Into(c, T[c])
    <3>1. ASSUME z \in sums
          PROVE  \E c \in all : z \in Into(c, T[c])
      <4>1. PICK g \in Upto(batch), x \in Upto(dim) : z \in Into(<<"pooled", g * dim + x>>, xs(g, x))
        <5> HIDE DEF xs
        <5> QED
          BY <3>1
      <4> HIDE DEF T, xs, all
      <4> QED
        BY <1>8, <4>1
    <3>2. ASSUME NEW c \in all, z \in Into(c, T[c])
          PROVE  z \in sums
      <4>1. PICK g \in Upto(batch), x \in Upto(dim) : c = <<"pooled", g * dim + x>>
        BY <1>9
      <4>2. z \in Into(<<"pooled", g * dim + x>>, xs(g, x))
        <5> HIDE DEF T, xs, all
        <5> QED
          BY <1>8, <3>2, <4>1
      <4> HIDE DEF xs
      <4> QED
        BY <4>2
    <3> HIDE DEF sums, all, T
    <3> QED
      BY <3>1, <3>2
  <2>3. DOMAIN A = G /\ DOMAIN P = G
    OBVIOUS
  <2> HIDE DEF A, P, T, all, sums
  <2> QED
    BY <1>7, <2>1, <2>2, <2>3 DEF TotalEach
<1>11. \A i \in G : \A c \in W[i] : IsGlobal(c) /\ c[1] = "out"
  BY CellOfBuffer
<1>12. \A i : \A c \in read(i) : IsGlobal(c) /\ c[1] = "x"
  BY CellOfBuffer
<1>13. /\ DOMAIN d = G /\ DOMAIN e = G /\ DOMAIN A = G /\ DOMAIN W = G
       /\ \A i \in G : /\ d[i].rd = read(i) /\ d[i].wr = {} /\ d[i].add = A[i]
                       /\ e[i].rd = {} /\ e[i].wr = W[i] /\ e[i].add = {}
  <2> HIDE DEF read, terms
  <2> QED
    BY DEF Does
<1> HIDE DEF d, e, A, W, P, T, all, out, sums, read, k
<1>14. Shares(A, sums)
  BY <1>10, TotalsShared
<1>15. /\ Items(k) = G /\ k.out = out /\ k.sums = sums
       /\ \A i : /\ Wrote(k, i) = d[i].wr \cup e[i].wr
                 /\ Touched(k, i) = d[i].wr \cup e[i].wr \cup d[i].rd \cup e[i].rd
                 /\ Added(k, i) = d[i].add \cup e[i].add
  BY <1>1, <1>13, TwoPhases
<1>16. OwnedApart(k, W, [i \in G |-> read(i) \cup W[i]], A)
  <2> DEFINE U == [i \in G |-> read(i) \cup W[i]]
  <2>1. ASSUME NEW i \in G
        PROVE  /\ Wrote(k, i) = W[i] /\ Touched(k, i) \subseteq U[i] /\ Added(k, i) = A[i]
               /\ \A c \in U[i] : IsGlobal(c)
    <3>1. /\ d[i].rd = read(i) /\ d[i].wr = {} /\ d[i].add = A[i]
          /\ e[i].rd = {} /\ e[i].wr = W[i] /\ e[i].add = {}
      BY <1>13
    <3>2. /\ Wrote(k, i) = d[i].wr \cup e[i].wr
          /\ Touched(k, i) = d[i].wr \cup e[i].wr \cup d[i].rd \cup e[i].rd
          /\ Added(k, i) = d[i].add \cup e[i].add
      BY <1>15
    <3> QED
      BY <1>11, <1>12, <3>1, <3>2
  <2>2. ASSUME NEW i \in G, NEW j \in G, NEW c, c \in W[i], c \in U[j]
        PROVE  i = j
    <3>1. c \notin read(j)
      BY <1>11, <1>12, <2>2
    <3>2. c \in W[j]
      BY <2>2, <3>1
    <3> QED
      BY <1>6, <1>13, <2>2, <3>2 DEF Shares
  <2> HIDE DEF U
  <2> QED
    BY <1>6, <1>13, <1>14, <1>15, <2>1, <2>2 DEF OwnedApart, U
<1>17. KernelRight(k)
  BY <1>16, OwnersRight
<1> QED
  BY <1>17 DEF k

\* The row an item has when every row of the activations has groups work-groups
\* of S sub-groups.
RowGrid(M, groups, S) == Grid(M * groups, S * DotLanes)

RowAt(i, groups, S) == (i[1] % groups) * S + i[2] \div DotLanes

HasRow(i, groups, S, m, n, l) == i[1] \div groups = m /\ RowAt(i, groups, S) = n /\ DotLane(i) = l

LEMMA RowItem ==
    ASSUME NEW M \in Nat, NEW S \in Nat \ {0}, NEW groups \in Nat \ {0}, NEW i \in RowGrid(M, groups, S)
    PROVE  /\ RowAt(i, groups, S) \in Nat /\ DotLane(i) \in Upto(DotLanes) /\ i[1] \div groups \in Upto(M)
           /\ RowAt(i, groups, S) \div S = i[1] % groups
           /\ RowAt(i, groups, S) % S = i[2] \div DotLanes
           /\ i[1] = (i[1] \div groups) * groups + (i[1] % groups)
           /\ i[2] = (i[2] \div DotLanes) * DotLanes + DotLane(i)
           /\ i = <<i[1], i[2]>>
<1>0. S \in Nat \ {0} /\ DotLanes \in Nat \ {0}
  BY GemmAssumption
<1>1. S * DotLanes \in Nat /\ M * groups \in Nat
  BY <1>0, ProductNat
<1>2. /\ i[1] \in Nat /\ i[1] < M * groups /\ i[2] \in Nat /\ i[2] < S * DotLanes
      /\ i = <<i[1], i[2]>>
  BY <1>1, GridItems DEF Upto, RowGrid
<1>3. PICK g \in Nat : g = i[1] /\ g < M * groups
  BY <1>2
<1>4. PICK l \in Nat : l = i[2] /\ l < S * DotLanes
  BY <1>2
<1>5. PICK q \in Nat : q = l \div DotLanes
  BY <1>0, DivisionOf
<1>6. q < S
  BY <1>0, <1>4, <1>5, QuotientBelow
<1>7. q \in Upto(S)
  BY <1>0, <1>6 DEF Upto
<1>8. PICK r \in Nat : r = g % groups
  <2>1. g % groups \in Upto(groups)
    BY DivisionOf
  <2> QED
    BY <2>1 DEF Upto
<1>9. (r * S + q) \div S = r /\ (r * S + q) % S = q
      /\ r * S + q \in Nat
  BY <1>0, <1>7, DivisionUnique
<1>10. l % DotLanes \in Upto(DotLanes) /\ l = (l \div DotLanes) * DotLanes + (l % DotLanes)
  BY <1>0, DivisionOf
<1>11. g \div groups \in Nat /\ g = (g \div groups) * groups + (g % groups) /\ g \div groups < M
  BY <1>3, DivisionOf, QuotientBelow
<1>12. RowAt(i, groups, S) = r * S + q /\ DotLane(i) = l % DotLanes
  BY <1>3, <1>4, <1>5, <1>8 DEF RowAt, DotLane
<1>13. i[1] \div groups \in Upto(M)
  BY <1>3, <1>11 DEF Upto
<1> QED
  BY <1>2, <1>3, <1>4, <1>5, <1>8, <1>9, <1>10, <1>11, <1>12, <1>13

LEMMA RowApart ==
    ASSUME NEW M \in Nat, NEW S \in Nat \ {0}, NEW groups \in Nat \ {0}, NEW i \in RowGrid(M, groups, S),
           NEW j \in RowGrid(M, groups, S), NEW m, NEW n, NEW l,
           HasRow(i, groups, S, m, n, l), HasRow(j, groups, S, m, n, l)
    PROVE  i = j
<1>1. /\ n \div S = i[1] % groups /\ n % S = i[2] \div DotLanes
      /\ i[1] = m * groups + (i[1] % groups)
      /\ i[2] = (i[2] \div DotLanes) * DotLanes + l /\ i = <<i[1], i[2]>>
  BY RowItem DEF HasRow
<1>2. /\ n \div S = j[1] % groups /\ n % S = j[2] \div DotLanes
      /\ j[1] = m * groups + (j[1] % groups)
      /\ j[2] = (j[2] \div DotLanes) * DotLanes + l /\ j = <<j[1], j[2]>>
  BY RowItem DEF HasRow
<1> QED
  BY <1>1, <1>2

LEMMA RowCovers ==
    ASSUME NEW M \in Nat, NEW S \in Nat \ {0}, NEW groups \in Nat \ {0},
           NEW m \in Upto(M), NEW n \in Nat, n \div S < groups, NEW l \in Upto(DotLanes)
    PROVE  \E i \in RowGrid(M, groups, S) : HasRow(i, groups, S, m, n, l)
<1>0. S \in Nat \ {0} /\ DotLanes \in Nat \ {0}
  BY GemmAssumption
<1>1. n \in Nat /\ m \in Nat /\ m < M
  BY DEF Upto
<1>2. PICK G \in Nat \ {0} : G = groups
  OBVIOUS
<1>3. PICK g \in Upto(G) : g = n \div S
  <2>1. n \div S \in Nat
    BY <1>0, <1>1, DivisionOf
  <2> QED
    BY <1>2, <2>1 DEF Upto
<1>4. PICK q \in Nat : q = n % S /\ q < S
  <2>1. PICK z \in Upto(S) : z = n % S
    BY <1>0, <1>1, DivisionOf
  <2> QED
    BY <1>0, <2>1 DEF Upto
<1>5. PICK x \in Nat : x = q * DotLanes + l /\ x \div DotLanes = q /\ x % DotLanes = l
  BY <1>0, DivisionUnique
<1>6. x < S * DotLanes /\ S * DotLanes \in Nat
  BY <1>0, <1>4, <1>5, QuotientBelow, ProductNat
<1>7. PICK y \in Nat : y = m * G + g /\ y \div G = m /\ y % G = g
  BY <1>1, DivisionUnique
<1>8. y < M * G /\ M * G \in Nat
  BY <1>1, <1>7, QuotientBelow, ProductNat
<1>9. <<y, x>> \in RowGrid(M, groups, S)
  BY <1>2, <1>6, <1>8 DEF Grid, Upto, RowGrid
<1>10. n = g * S + q
  BY <1>0, <1>1, <1>3, <1>4, DivisionOf
<1>11. HasRow(<<y, x>>, groups, S, m, n, l)
  BY <1>2, <1>5, <1>7, <1>10 DEF HasRow, RowAt, DotLane
<1> QED
  BY <1>9, <1>11

\* fp8_gemm_w8a16: a row of work-groups per row of activations.
THEOREM Fp8W8A16Right ==
    ASSUME NEW M \in Nat, NEW N \in Nat \ {0}, NEW chunk \in Nat \ {0}, NEW K \in Nat, K % chunk = 0
    PROVE  KernelRight(Fp8W8A16(M, N, K, chunk))
<1> DEFINE groups == CeilDivide(N, RowsPerWG)
           G == Grid(M * groups, RowsPerWG * DotLanes)
           total(i) == {<<"y", (i[1] \div groups) * N + RowAt(i, groups, RowsPerWG)>>}
           chunks(l) == {<<x, 0>> : x \in ChunkElems(l, chunk, K)}
           add(i) == IF RowAt(i, groups, RowsPerWG) >= N THEN Idle ELSE Does({}, {}, total(i) \X chunks(DotLane(i)))
           put(i) == IF RowAt(i, groups, RowsPerWG) >= N \/ DotLane(i) # 0 THEN Idle ELSE Does({}, total(i), {})
           d == [i \in G |-> add(i)]
           e == [i \in G |-> put(i)]
           live == {i \in G : RowAt(i, groups, RowsPerWG) < N}
           cells == [i \in G |-> total(i)]
           lane == [i \in G |-> DotLane(i)]
           E == [l \in Upto(DotLanes) |-> ChunkElems(l, chunk, K)]
           terms == [l \in Upto(DotLanes) |-> chunks(l)]
           W == [i \in G |-> put(i).wr]
           A == [i \in G |-> add(i).add]
           out == At("y", 0, Upto(M * N))
           all == {<<x, 0>> : x \in Upto(K)}
           k == Fp8W8A16(M, N, K, chunk)
<1>0. RowsPerWG \in Nat \ {0} /\ DotLanes \in Nat \ {0} /\ 0 \in Upto(DotLanes)
  BY GemmAssumption DEF Upto
<1>1. k = Kernel(<<d, e>>, out, out \X all)
  BY DEF Fp8W8A16, RowAt
<1>2. groups \in Nat \ {0}
  BY <1>0, CeilAbove, SMTT(30)
<1>3. Shares(terms, all)
  <2> DEFINE name == [x \in Upto(K) |-> <<x, 0>>]
  <2>1. Shares(E, Upto(K))
    BY ChunksShare
  <2>2. ASSUME NEW l \in Upto(DotLanes), NEW y
        PROVE  y \in terms[l] <=> \E x \in E[l] : y = name[x]
    <3>1. E[l] \subseteq Upto(K)
      BY <2>1 DEF Shares
    <3> QED
      BY <3>1
  <2>3. /\ \A y : y \in all <=> \E x \in Upto(K) : y = name[x]
        /\ \A x, y \in Upto(K) : name[x] = name[y] => x = y
    OBVIOUS
  <2>4. DOMAIN E = Upto(DotLanes) /\ DOMAIN terms = Upto(DotLanes)
    OBVIOUS
  <2> HIDE DEF E, terms, all, name
  <2>5. Renamed(E, terms, name, Upto(K), all)
    BY <2>2, <2>3, <2>4 DEF Renamed
  <2> QED
    BY <2>1, <2>5, NamesShared
<1> HIDE DEF groups
<1>4. ASSUME NEW i \in G
      PROVE  /\ RowAt(i, groups, RowsPerWG) \in Nat /\ DotLane(i) \in Upto(DotLanes) /\ i[1] \div groups \in Upto(M)
             /\ cells[i] = {OutCell(i[1] \div groups, RowAt(i, groups, RowsPerWG), N)}
             /\ HasRow(i, groups, RowsPerWG, i[1] \div groups, RowAt(i, groups, RowsPerWG), DotLane(i))
  BY <1>0, <1>2, RowItem DEF OutCell, HasRow, RowGrid
<1>5. ASSUME NEW i \in G
      PROVE  /\ W[i] = IF i \in live /\ lane[i] = 0 THEN cells[i] ELSE {}
             /\ A[i] = IF i \in live THEN cells[i] \X terms[lane[i]] ELSE {}
             /\ d[i].rd = {} /\ d[i].wr = {} /\ d[i].add = A[i]
             /\ e[i].rd = {} /\ e[i].wr = W[i] /\ e[i].add = {}
  <2>1. DotLane(i) \in Upto(DotLanes) /\ RowAt(i, groups, RowsPerWG) \in Nat
    BY <1>4
  <2>2. terms[lane[i]] = chunks(DotLane(i)) /\ lane[i] = DotLane(i) /\ cells[i] = total(i)
    BY <2>1
  <2>3. i \in live <=> ~(RowAt(i, groups, RowsPerWG) >= N)
    BY <2>1
  <2>4. /\ put(i).rd = {} /\ put(i).wr = (IF RowAt(i, groups, RowsPerWG) >= N \/ DotLane(i) # 0 THEN {} ELSE total(i))
        /\ put(i).add = {}
    BY DEF Idle, Does
  <2>5. /\ add(i).rd = {} /\ add(i).wr = {}
        /\ add(i).add = (IF RowAt(i, groups, RowsPerWG) >= N THEN {} ELSE total(i) \X chunks(DotLane(i)))
    BY DEF Idle, Does
  <2> HIDE DEF put, add, live, lane, cells, terms, total, chunks
  <2> QED
    BY <2>2, <2>3, <2>4, <2>5
<1>6. ASSUME NEW i \in live, NEW c \in cells[i]
      PROVE  c \in out /\ c = OutCell(i[1] \div groups, RowAt(i, groups, RowsPerWG), N) /\ IsGlobal(c)
  <2>1. i \in G /\ RowAt(i, groups, RowsPerWG) \in Upto(N)
    BY <1>4 DEF Upto
  <2>2. c = OutCell(i[1] \div groups, RowAt(i, groups, RowsPerWG), N)
    BY <1>4, <2>1
  <2>3. c \in out
    BY <1>4, <2>1, <2>2, OutCells
  <2> QED
    BY <2>2, <2>3, CellOfBuffer
<1>7. LanedDots(W, A, live, cells, lane, DotLanes, terms, out, all)
  <2>1. \A i \in live : lane[i] \in Upto(DotLanes) /\ cells[i] \subseteq out
    BY <1>4, <1>6
  <2>2. ASSUME NEW i \in live, NEW j \in live, NEW c, c \in cells[i], c \in cells[j], lane[i] = lane[j]
        PROVE  i = j
    <3>1. OutCell(i[1] \div groups, RowAt(i, groups, RowsPerWG), N) = OutCell(j[1] \div groups, RowAt(j, groups, RowsPerWG), N)
      BY <1>6, <2>2
    <3>2. /\ i \in G /\ j \in G /\ RowAt(i, groups, RowsPerWG) \in Upto(N) /\ RowAt(j, groups, RowsPerWG) \in Upto(N)
          /\ i[1] \div groups \in Nat /\ j[1] \div groups \in Nat /\ DotLane(i) = DotLane(j)
      BY <1>4, <2>2 DEF Upto
    <3>3. i[1] \div groups = j[1] \div groups /\ RowAt(i, groups, RowsPerWG) = RowAt(j, groups, RowsPerWG)
      BY <3>1, <3>2, OutCellApart
    <3>4. HasRow(j, groups, RowsPerWG, i[1] \div groups, RowAt(i, groups, RowsPerWG), DotLane(i))
      BY <3>2, <3>3 DEF HasRow
    <3>5. HasRow(i, groups, RowsPerWG, i[1] \div groups, RowAt(i, groups, RowsPerWG), DotLane(i))
      BY <1>4, <3>2
    <3>6. PICK m, n, l : /\ HasRow(i, groups, RowsPerWG, m, n, l)
                         /\ HasRow(j, groups, RowsPerWG, m, n, l)
      BY <3>4, <3>5
    <3>7. i \in RowGrid(M, groups, RowsPerWG) /\ j \in RowGrid(M, groups, RowsPerWG)
      BY <3>2 DEF RowGrid
    <3> QED
      BY <1>0, <1>2, <3>6, <3>7, RowApart
  <2>3. ASSUME NEW c \in out, NEW l \in Upto(DotLanes)
        PROVE  \E i \in live : c \in cells[i] /\ lane[i] = l
    <3>1. PICK m \in Upto(M) : \E n \in Upto(N) : c = OutCell(m, n, N)
      <4>1. c \in At("y", 0, Upto(M * N)) /\ N \in Nat /\ M \in Nat
        OBVIOUS
      <4>2. c \in At("y", 0, Upto(M * N)) <=> \E m \in Upto(M) : \E n \in Upto(N) : c = OutCell(m, n, N)
        BY ONLY <4>1, OutCells
      <4> QED
        BY <4>1, <4>2
    <3>2. PICK n \in Upto(N) : c = OutCell(m, n, N)
      BY <3>1
    <3>3. PICK i \in G : HasRow(i, groups, RowsPerWG, m, n, l)
      <4>1. n \in Nat /\ n < N
        BY DEF Upto
      <4>2. n \div RowsPerWG < groups
        BY <1>0, <4>1, CeilAbove DEF groups
      <4> QED
        BY <1>0, <1>2, <4>1, <4>2, RowCovers DEF RowGrid
    <3>4. i[1] \div groups = m /\ RowAt(i, groups, RowsPerWG) = n /\ DotLane(i) = l /\ n < N
      BY <3>3 DEF HasRow, Upto
    <3>5. i \in live /\ c \in cells[i] /\ lane[i] = l
      BY <1>4, <3>2, <3>4
    <3> QED
      BY <3>5
  <2>5. \A i \in G : /\ W[i] = IF i \in live /\ lane[i] = 0 THEN cells[i] ELSE {}
                     /\ A[i] = IF i \in live THEN cells[i] \X terms[lane[i]] ELSE {}
    BY <1>5
  <2>4. /\ DOMAIN A = G /\ DOMAIN W = G /\ live \subseteq G /\ DOMAIN terms = Upto(DotLanes)
    OBVIOUS
  <2> HIDE DEF W, A, live, cells, lane, terms, out, all, G
  <2> QED
    BY <1>0, <1>3, <2>1, <2>2, <2>3, <2>4, <2>5 DEF LanedDots
<1>8. DOMAIN d = G /\ DOMAIN W = G /\ DOMAIN A = G
  OBVIOUS
<1> HIDE DEF W, A, live, cells, lane, terms, out, all, G, d, e, k
<1>9. Shares(W, out) /\ Shares(A, out \X all)
  BY <1>7, LanedShares
<1>10. \A i \in G : \A c \in W[i] : IsGlobal(c)
  BY <1>5, <1>6
<1>11. \A i \in DOMAIN d : /\ d[i].rd = {} /\ d[i].wr = {} /\ d[i].add = A[i]
                           /\ e[i].rd = {} /\ e[i].wr = W[i] /\ e[i].add = {}
                           /\ \A c \in W[i] : IsGlobal(c)
  <2>1. ASSUME NEW i \in G
        PROVE  /\ d[i].rd = {} /\ d[i].wr = {} /\ d[i].add = A[i]
               /\ e[i].rd = {} /\ e[i].wr = W[i] /\ e[i].add = {}
               /\ \A c \in W[i] : IsGlobal(c)
    BY <1>5, <1>10
  <2> QED
    BY <1>8, <2>1
<1>12. KernelRight(k)
  BY <1>1, <1>8, <1>9, <1>11, AddThenPut
<1> QED
  BY <1>12 DEF k

\* A slab is made of whole words, and the slabs cover K.
LEMMA Slabs ==
    ASSUME NEW K \in Nat \ {0}, NEW slabs \in Nat \ {0}
    PROVE  SlabOf(K, slabs) \in Nat \ {0} /\ SlabsUsed(K, slabs) \in Nat
<1>1. PICK p \in Nat \ {0} : p = CeilDivide(K, slabs)
  BY CeilAbove
<1>2. PICK q \in Nat \ {0} : q = CeilDivide(p, 4)
  BY CeilAbove
<1>3. SlabOf(K, slabs) = q * 4
  BY <1>1, <1>2 DEF SlabOf
<1>4. PICK s \in Nat \ {0} : s = SlabOf(K, slabs)
  BY <1>3
<1>5. CeilDivide(K, s) \in Nat
  BY CeilAbove
<1> QED
  BY <1>4, <1>5 DEF SlabsUsed

\* fp8_gemv, first kernel: an item adds up one slab of some adjacent columns.
THEOREM Fp8PartialRight ==
    ASSUME NEW N \in Nat \ {0}, NEW K \in Nat \ {0}, NEW slabs \in Nat \ {0}, NEW cols \in Nat \ {0}
    PROVE  KernelRight(Fp8Partial(N, K, slabs, cols))
<1> DEFINE tn == CeilDivide(N, cols)
           slab == SlabOf(K, slabs)
           S == SlabsUsed(K, slabs)
           G == Flat(S * tn)
           part(i) == {<<"part", (i[1] \div tn) * N + n>> : n \in {c \in Upto(N) : c \div cols = i[1] % tn}}
           ks(s) == (s * slab)..((IF s * slab + slab < K THEN s * slab + slab ELSE K) - 1)
           of(s) == {x \in Upto(K) : x \div slab = s}
           d == [i \in G |-> Does({}, part(i), part(i) \X ks(i[1] \div tn))]
           W == [i \in G |-> part(i)]
           A == [i \in G |-> part(i) \X ks(i[1] \div tn)]
           out == At("part", 0, Upto(S * N))
           sums == UNION {At("part", s * N, Upto(N)) \X of(s) : s \in Upto(S)}
           k == Fp8Partial(N, K, slabs, cols)
<1>1. k = Kernel(<<d>>, out, sums)
  BY DEF Fp8Partial
<1>2. tn \in Nat \ {0} /\ slab \in Nat \ {0} /\ S \in Nat
  <2>1. CeilDivide(N, cols) \in Nat /\ CeilDivide(N, cols) > 0
    BY CeilAbove
  <2>2. SlabOf(K, slabs) \in Nat \ {0} /\ SlabsUsed(K, slabs) \in Nat
    BY Slabs
  <2> QED
    BY <2>1, <2>2
<1>3. \A n \in Nat : n < N => n \div cols < tn
  BY CeilAbove
<1> HIDE DEF tn, slab, S
<1>4. S * tn \in Nat /\ S * N \in Nat
  BY <1>2, ProductNat
<1>5. ASSUME NEW i \in G
      PROVE  /\ i[1] \in Nat /\ i[1] \div tn \in Upto(S) /\ i[1] \div tn \in Nat
             /\ i[1] = (i[1] \div tn) * tn + (i[1] % tn) /\ i = <<i[1], 0>>
  <2>1. i[1] \in Nat /\ i[1] < S * tn /\ i = <<i[1], 0>>
    BY <1>4, FlatItems DEF Upto
  <2>2. i[1] \div tn \in Nat /\ i[1] = (i[1] \div tn) * tn + (i[1] % tn) /\ i[1] \div tn < S
    BY <1>2, <2>1, DivisionOf, QuotientBelow
  <2> QED
    BY <1>2, <2>1, <2>2 DEF Upto
<1>6. ASSUME NEW i \in G, NEW c
      PROVE  c \in W[i] <=> CellOf("part", c) /\ c[2] \div N = i[1] \div tn /\ (c[2] % N) \div cols = i[1] % tn
  <2> DEFINE T == {n \in Upto(N) : n \div cols = i[1] % tn}
  <2>1. PICK s \in Nat : s = i[1] \div tn
    BY <1>5
  <2>2. W[i] = At("part", s * N, T)
    BY <2>1 DEF At
  <2>3. c \in At("part", s * N, T) <=> CellOf("part", c) /\ c[2] \div N = s /\ c[2] % N \in T
    <3> HIDE DEF T
    <3>1. T \subseteq Upto(N)
      BY DEF T
    <3> QED
      BY <3>1, InRow
  <2>4. CellOf("part", c) => c[2] % N \in Upto(N)
    BY DivisionOf DEF CellOf
  <2> QED
    BY <2>1, <2>2, <2>3, <2>4
<1>7. \A c : c \in out <=> CellOf("part", c) /\ c[2] < S * N
  BY <1>4, InArray
<1>8. ASSUME NEW i \in G
      PROVE  \A z : z \in A[i] <=> z \in W[i] \X of(i[1] \div tn)
  <2>1. ks(i[1] \div tn) = of(i[1] \div tn)
    BY <1>2, <1>5, SlabTerms
  <2>2. A[i] = W[i] \X ks(i[1] \div tn)
    OBVIOUS
  <2> HIDE DEF A, W, ks, of
  <2> QED
    BY <2>1, <2>2
<1>9. \A s \in Nat : \A c : c \in At("part", s * N, Upto(N)) <=> CellOf("part", c) /\ c[2] \div N = s
  BY InWholeRow
<1>10. /\ DOMAIN d = G /\ DOMAIN W = G /\ DOMAIN A = G
       /\ \A i \in G : d[i].rd = {} /\ d[i].wr = W[i] /\ d[i].add = A[i]
  <2> HIDE DEF part, ks
  <2> QED
    BY DEF Does
<1>11. \A z : z \in sums <=> \E s \in Upto(S) : z \in At("part", s * N, Upto(N)) \X of(s)
  <2> HIDE DEF of
  <2> QED
    OBVIOUS
<1>12. \A i \in G : \A c \in W[i] : IsGlobal(c)
  BY GlobalCell
<1> HIDE DEF d, W, A, out, sums, of, k, G
<1>13. ASSUME NEW c, CellOf("part", c), c[2] < S * N
       PROVE  \E i \in G : c \in W[i]
  <2>1. PICK x \in Nat : x = c[2]
    BY <1>13 DEF CellOf
  <2>2. PICK s \in Nat : s = x \div N
    BY DivisionOf
  <2>3. s < S
    BY <1>2, <1>13, <2>1, <2>2, QuotientBelow
  <2>4. PICK n \in Nat : n = x % N /\ n < N
    <3>1. x % N \in Upto(N)
      BY DivisionOf
    <3> QED
      BY <3>1 DEF Upto
  <2>5. PICK t \in Upto(tn) : t = n \div cols
    <3>1. n \div cols \in Nat
      BY <2>4, DivisionOf
    <3> QED
      BY <1>2, <1>3, <2>4, <3>1 DEF Upto
  <2>6. PICK v \in Nat : v = s * tn + t /\ v \div tn = s /\ v % tn = t
    BY <1>2, <2>2, DivisionUnique, ZenonT(40)
  <2>7. v < S * tn
    BY <1>2, <2>3, <2>6, QuotientBelow
  <2>8. <<v, 0>> \in G
    <3>1. v \in Upto(S * tn)
      BY <1>4, <2>7 DEF Upto
    <3> QED
      BY <3>1, ItemOf DEF G
  <2>9. c \in W[<<v, 0>>]
    BY <1>6, <1>13, <2>1, <2>2, <2>4, <2>5, <2>6, <2>8
  <2> QED
    BY <2>8, <2>9
<1>14. ASSUME NEW i \in G, NEW j \in G, NEW c, c \in W[i], c \in W[j]
       PROVE  i = j
  <2>1. i[1] \div tn = j[1] \div tn /\ i[1] % tn = j[1] % tn
    BY <1>6, <1>14
  <2> QED
    BY <1>5, <2>1
<1>15. Shares(W, out)
  <2>1. ASSUME NEW i \in G
        PROVE  W[i] \subseteq out
    <3>1. ASSUME NEW c \in W[i]
          PROVE  c \in out
      <4>1. CellOf("part", c) /\ c[2] \div N = i[1] \div tn
        BY <1>6
      <4>2. c[2] \in Nat /\ c[2] \div N < S
        BY <1>2, <1>5, <4>1 DEF CellOf, Upto
      <4>3. c[2] < S * N
        BY <1>2, <4>2, QuotientBelow
      <4> QED
        BY <1>7, <4>1, <4>3
    <3> QED
      BY <3>1
  <2>2. \A c \in out : \E i \in G : c \in W[i]
    BY <1>7, <1>13
  <2> QED
    BY <1>10, <1>14, <2>1, <2>2, SharesBy
<1>16. Shares(A, sums)
  <2>1. ASSUME NEW i \in G
        PROVE  A[i] \subseteq sums
    <3>1. ASSUME NEW z \in A[i]
          PROVE  z \in sums
      <4>1. z \in W[i] \X of(i[1] \div tn)
        BY <1>8
      <4>2. PICK s \in Upto(S) : s = i[1] \div tn
        BY <1>5
      <4>3. W[i] \subseteq At("part", s * N, Upto(N))
        BY <1>2, <1>5, <1>6, <1>9, <4>2
      <4>4. z \in At("part", s * N, Upto(N)) \X of(s)
        BY <4>1, <4>2, <4>3
      <4> QED
        BY <1>11, <4>4
    <3> QED
      BY <3>1
  <2>2. ASSUME NEW z \in sums
        PROVE  \E i \in G : z \in A[i]
    <3>1. PICK s \in Upto(S) : z \in At("part", s * N, Upto(N)) \X of(s)
      BY <1>11
    <3>2. PICK c \in At("part", s * N, Upto(N)), x \in of(s) : z = <<c, x>>
      BY <3>1
    <3>3. s \in Nat /\ s < S
      BY <1>2 DEF Upto
    <3>4. CellOf("part", c) /\ c[2] \div N = s
      BY <1>9, <3>2, <3>3
    <3>5. c[2] \in Nat /\ c[2] < S * N
      BY <1>2, <3>3, <3>4, QuotientBelow DEF CellOf
    <3>6. PICK i \in G : c \in W[i]
      BY <1>13, <3>4, <3>5
    <3>7. i[1] \div tn = s
      BY <1>6, <3>4, <3>6
    <3>8. z \in W[i] \X of(i[1] \div tn)
      BY <3>2, <3>6, <3>7
    <3> QED
      BY <1>8, <3>8
  <2>3. ASSUME NEW i \in G, NEW j \in G, NEW z, z \in A[i], z \in A[j]
        PROVE  i = j
    <3>1. z \in W[i] \X of(i[1] \div tn) /\ z \in W[j] \X of(j[1] \div tn)
      BY <1>8, <2>3
    <3>2. z[1] \in W[i] /\ z[1] \in W[j]
      BY <3>1
    <3> QED
      BY <1>14, <3>2
  <2> QED
    BY <1>10, <2>1, <2>2, <2>3, SharesBy
<1>17. /\ \A i \in DOMAIN d : d[i].wr = W[i] /\ d[i].add = A[i] /\ \A c \in d[i].rd \cup W[i] : IsGlobal(c)
       /\ \A i, j \in DOMAIN d : \A c : c \in W[i] /\ c \in d[j].rd => i = j
  BY <1>10, <1>12
<1>18. DOMAIN W = DOMAIN d /\ DOMAIN A = DOMAIN d
  BY <1>10
<1>19. KernelRight(k)
  BY <1>1, <1>15, <1>16, <1>17, <1>18, OneRight
<1> QED
  BY <1>19 DEF k

-----------------------------------------------------------------------------
(* Recurrent layers                                                         *)

\* The recurrence of qwen_gdn_decode: a null slot's outputs are written first
\* of all, a live one's last, from rows every lane of the group has staged.
THEOREM QwenGdnRecurrentRight ==
    ASSUME NEW slots \in Seq(Int), NEW heads \in Nat \ {0}, NEW dim \in Nat \ {0}, NEW nslots \in Nat,
           OneEach(slots, nslots)
    PROVE  KernelRight(QwenGdnRecurrent(slots, heads, dim, nslots))
<1> DEFINE batch == Len(slots)
           G == Grid(batch * heads, dim)
           slot(i) == slots[i[1] \div heads + 1]
           ok(i) == SlotOk(slot(i), nslots)
           state(i) == {<<"ssm", (slot(i) * heads + (i[1] % heads)) * dim + i[2]>>}
           core(i) == {<<"core", i[1] * dim + i[2]>>}
           slm(i, S) == {"query", "key"} \X S \X {i[1]}
           term(i) == {<<<<"norm", i[1]>>, i[2]>>}
           f == [i \in G |-> IF ok(i) THEN Does({}, {}, term(i)) ELSE Does({}, core(i), {})]
           g == [i \in G |-> IF ok(i) THEN Does({}, slm(i, {i[2]}), {}) ELSE Does({}, {}, {})]
           h == [i \in G |-> IF ok(i) THEN Does(slm(i, Upto(dim)) \cup state(i), state(i) \cup core(i), {})
                             ELSE Does({}, {}, {})]
           live == Live(slots, nslots)
           C == [i \in G |-> core(i)]
           Vals == [i \in G |-> IF i[1] \div heads + 1 \in live THEN state(i) ELSE {}]
           O == [i \in G |-> C[i] \cup Vals[i]]
           A == [i \in G |-> IF i[1] \div heads + 1 \in live THEN term(i) ELSE {}]
           cores == At("core", 0, Upto(batch * heads * dim))
           alive == {r \in 1..batch : SlotOk(slots[r], nslots)}
           states == UNION {At("ssm", slots[r] * heads * dim, Upto(heads * dim)) : r \in alive}
           sums == UNION {{<<"norm", (r - 1) * heads + x>> : x \in Upto(heads)} \X Upto(dim) : r \in alive}
           k == QwenGdnRecurrent(slots, heads, dim, nslots)
<1>1. k = Kernel(<<f, g, h>>, cores \cup states, sums)
  BY DEF QwenGdnRecurrent
<1>2. batch \in Nat /\ batch * heads \in Nat
  BY ProductNat
<1>3. /\ live \subseteq 1..batch /\ \A t \in live : slots[t] \in Nat
      /\ \A t \in 1..batch : t \in live <=> SlotOk(slots[t], nslots)
      /\ \A s, t \in live : slots[s] = slots[t] => s = t
  BY LiveSlots DEF OneEach
<1> HIDE DEF live
<1>4. ASSUME NEW i \in G
      PROVE  /\ i[1] \in Nat /\ i[1] % heads \in Upto(heads) /\ i[1] \div heads \in Nat /\ i[1] \div heads + 1 \in 1..batch
             /\ i[2] \in Upto(dim) /\ i = <<i[1], i[2]>>
             /\ i[1] = (i[1] \div heads) * heads + (i[1] % heads)
             /\ ok(i) <=> i[1] \div heads + 1 \in live
  <2>1. i[1] \div heads + 1 \in 1..batch
    BY <1>2, GridItem
  <2>2. ok(i) <=> i[1] \div heads + 1 \in live
    BY <1>3, <2>1
  <2> HIDE DEF ok
  <2> QED
    BY <1>2, <2>2, GridItem
<1>5. alive = live
  BY <1>3
<1>6. \A c : c \in states <=> \E t \in live : c \in RowCells("ssm", slots[t], heads, dim)
  <2>1. states = UNION {At("ssm", slots[r] * heads * dim, Upto(heads * dim)) : r \in live}
    BY <1>5
  <2> QED
    BY <2>1 DEF RowCells
<1>7. Shares(C, cores)
  <2>1. DOMAIN C = Grid(batch * heads, dim) /\ \A i \in Grid(batch * heads, dim) : C[i] = {<<"core", i[1] * dim + i[2]>>}
    OBVIOUS
  <2> HIDE DEF C
  <2> QED
    BY <1>2, <2>1, LaneCells
<1>8. AtSlots(Vals, "ssm", batch, heads, dim, live, slots, states)
  <2>1. /\ DOMAIN Vals = G
        /\ \A i \in G : Vals[i] = IF i[1] \div heads + 1 \in live
                  THEN {<<"ssm", (slots[i[1] \div heads + 1] * heads + (i[1] % heads)) * dim + i[2]>>} ELSE {}
    OBVIOUS
  <2> HIDE DEF Vals, states
  <2> QED
    BY <1>3, <1>6, <2>1 DEF AtSlots
<1>9. Shares(Vals, states) /\ \A c \in states : c[1] = "ssm"
  BY <1>2, <1>8, SlotsShared, Buffered, SMTT(30)
<1>10. \A i \in G : \A c \in Vals[i] : IsGlobal(c)
  <2>1. DOMAIN Vals = G
    OBVIOUS
  <2> HIDE DEF Vals, states
  <2> QED
    BY <1>8, <2>1, Buffered
<1>11. /\ \A c \in cores : c[1] = "core"
       /\ \A i \in G : \A c \in C[i] : IsGlobal(c)
  BY CellOfBuffer, GlobalCell
<1>12. \A z : z \in sums <=> \E r \in live : \E x \in Upto(heads) : \E l \in Upto(dim) :
                 z = <<<<"norm", (r - 1) * heads + x>>, l>>
  <2> DEFINE row(r) == {<<"norm", (r - 1) * heads + x>> : x \in Upto(heads)} \X Upto(dim)
  <2>1. sums = UNION {row(r) : r \in live}
    <3>1. sums = UNION {row(r) : r \in alive}
      OBVIOUS
    <3> HIDE DEF sums, row, alive
    <3> QED
      BY <1>5, <3>1
  <2>2. \A r, z : z \in row(r) <=> \E x \in Upto(heads) : \E l \in Upto(dim) :
                                       z = <<<<"norm", (r - 1) * heads + x>>, l>>
    OBVIOUS
  <2> HIDE DEF sums, row
  <2> QED
    BY <2>1, <2>2
<1>13. ASSUME NEW i \in G
       PROVE  /\ f[i].rd = {} /\ f[i].wr = (IF ok(i) THEN {} ELSE C[i]) /\ f[i].add = A[i]
              /\ g[i].rd = {} /\ g[i].wr = (IF ok(i) THEN slm(i, {i[2]}) ELSE {}) /\ g[i].add = {}
              /\ h[i].rd = (IF ok(i) THEN slm(i, Upto(dim)) \cup Vals[i] ELSE {})
              /\ h[i].wr = (IF ok(i) THEN O[i] ELSE {}) /\ h[i].add = {}
              /\ O[i] = C[i] \cup Vals[i] /\ (~ok(i) => Vals[i] = {})
              /\ A[i] = IF ok(i) THEN term(i) ELSE {}
  <2>1. i[1] \div heads + 1 \in live <=> ok(i)
    BY <1>4
  <2>2. C[i] = core(i)
    OBVIOUS
  <2> HIDE DEF ok, core, slm, term, state
  <2>3. CASE ok(i)
    BY <2>1, <2>2, <2>3 DEF Does
  <2>4. CASE ~ok(i)
    BY <2>1, <2>2, <2>4 DEF Does
  <2> QED
    BY <2>3, <2>4
<1>14. /\ DOMAIN f = G /\ DOMAIN g = G /\ DOMAIN h = G /\ DOMAIN C = G /\ DOMAIN Vals = G
       /\ DOMAIN O = G /\ DOMAIN A = G
  OBVIOUS
<1>15. \A i \in G : \A l \in Upto(dim) : <<i[1], l>> \in G
  BY <1>4, GridItems DEF Grid
<1>16. \A i \in G : \A c \in slm(i, Upto(dim)) : /\ ~IsGlobal(c) /\ c[3] = i[1] /\ c[2] \in Upto(dim)
                                                    /\ c \in slm(<<i[1], c[2]>>, {c[2]})
  BY LocalCell
<1>17. \A i \in G : \A c \in slm(i, {i[2]}) : ~IsGlobal(c) /\ c[3] = i[1] /\ c[2] = i[2]
  BY LocalCell
<1>18. \A i \in G : \A l \in Upto(dim) : /\ <<i[1], l>>[1] = i[1] /\ <<i[1], l>>[2] = l
                                         /\ ok(<<i[1], l>>) <=> ok(i)
  OBVIOUS
<1> HIDE DEF f, g, h, C, Vals, O, A, cores, states, sums, k, G, slm, term, ok
<1>19. Shares(O, cores \cup states)
  <2>1. cores \cap states = {}
    BY <1>9, <1>11
  <2> QED
    BY <1>7, <1>9, <1>13, <1>14, <2>1, SharesTwo
<1>20. \A i \in G : \A z : z \in A[i] <=> ok(i) /\ z = <<<<"norm", i[1]>>, i[2]>>
  <2>1. \A i \in G : A[i] = IF ok(i) THEN term(i) ELSE {}
    BY <1>13
  <2>2. \A i \in G : \A z : z \in term(i) <=> z = <<<<"norm", i[1]>>, i[2]>>
    BY DEF term
  <2> QED
    BY <2>1, <2>2
<1>21. \A i \in G : /\ f[i].add = A[i] /\ g[i].add = {} /\ h[i].add = {}
                    /\ O[i] \subseteq f[i].wr \cup h[i].wr
                    /\ f[i].rd = {} /\ f[i].wr \subseteq O[i] /\ g[i].rd = {}
  BY <1>13
<1>22. \A i \in G : \A c : c \in g[i].wr <=> ok(i) /\ c \in slm(i, {i[2]})
  BY <1>13
<1>23. Shares(A, sums)
  <2>1. ASSUME NEW i \in G
        PROVE  A[i] \subseteq sums
    <3>1. CASE ok(i)
      <4>1. PICK q \in Nat, x \in Upto(heads), l \in Upto(dim) :
              q = i[1] \div heads /\ x = i[1] % heads /\ l = i[2] /\ i[1] = q * heads + x /\ q + 1 \in live
        BY <1>4, <3>1
      <4>2. (q + 1) - 1 = q
        OBVIOUS
      <4>3. \A z \in A[i] : z = <<<<"norm", ((q + 1) - 1) * heads + x>>, l>>
        BY <1>20, <4>1, <4>2
      <4> QED
        BY <1>12, <4>1, <4>3
    <3>2. CASE ~ok(i)
      BY <1>20, <3>2
    <3> QED
      BY <3>1, <3>2
  <2>2. ASSUME NEW z \in sums
        PROVE  \E i \in G : z \in A[i]
    <3>1. PICK r \in live, x \in Upto(heads), l \in Upto(dim) : z = <<<<"norm", (r - 1) * heads + x>>, l>>
      BY <1>12
    <3>2. r \in 1..batch
      BY <1>3
    <3>3. PICK i \in G : i[1] \div heads + 1 = r /\ i[1] % heads = x /\ i[2] = l
      <4>1. HasItem(batch, heads, dim, r, x, l)
        BY <1>2, <3>2, GridItemOf
      <4> QED
        BY <4>1 DEF HasItem, G
    <3>4. PICK q \in Nat : q = i[1] \div heads
      BY <1>4
    <3>5. q + 1 = r
      BY <3>3, <3>4
    <3>6. q = r - 1
      BY <3>2, <3>5
    <3>7. i[1] = (r - 1) * heads + x /\ ok(i)
      BY <1>4, <3>3, <3>4, <3>6
    <3> QED
      BY <1>20, <3>1, <3>3, <3>7
  <2>3. ASSUME NEW i \in G, NEW j \in G, NEW z, z \in A[i], z \in A[j]
        PROVE  i = j
    <3>1. z = <<<<"norm", i[1]>>, i[2]>> /\ z = <<<<"norm", j[1]>>, j[2]>>
      BY <1>20, <2>3
    <3>2. i[1] = j[1] /\ i[2] = j[2]
      BY <3>1
    <3> QED
      BY <1>4, <3>2
  <2> QED
    BY <1>14, <2>1, <2>2, <2>3, SharesBy
<1>24. /\ Items(k) = G /\ k.phases = <<f, g, h>> /\ k.out = cores \cup states /\ k.sums = sums
       /\ \A i : /\ Wrote(k, i) = f[i].wr \cup g[i].wr \cup h[i].wr
                 /\ Added(k, i) = f[i].add \cup g[i].add \cup h[i].add
  BY <1>1, <1>14, ThreePhases DEF Kernel
<1>25. \A i \in G : \A c \in O[i] : IsGlobal(c)
  BY <1>10, <1>11, <1>13
<1>26. \A i, j \in G : \A c : c \in O[i] /\ c \in O[j] => i = j
  BY <1>14, <1>19 DEF Shares
<1>27. InPhases(k, O, A)
  <2>1. ASSUME NEW i \in G
        PROVE  Added(k, i) = A[i] /\ \A c \in O[i] : IsGlobal(c) /\ c \in Wrote(k, i)
    <3>1. Added(k, i) = A[i]
      <4>1. Added(k, i) = f[i].add \cup g[i].add \cup h[i].add
        BY <1>24
      <4>2. f[i].add = A[i] /\ g[i].add = {} /\ h[i].add = {}
        BY <1>21
      <4> QED
        BY <4>1, <4>2
    <3>2. O[i] \subseteq Wrote(k, i)
      BY <1>24, <1>21
    <3> QED
      BY <1>25, <3>1, <3>2
  <2>2. DOMAIN k.phases = 1..3 /\ k.phases[1] = f /\ k.phases[2] = g /\ k.phases[3] = h
    BY <1>24
  <2>3. ASSUME NEW i \in G, NEW c, NEW p \in 1..3, c \in k.phases[p][i].wr
        PROVE  c \in O[i] \/ (~IsGlobal(c) /\ c[3] = i[1])
    <3>1. CASE p = 1
      BY <1>13, <2>2, <2>3, <3>1
    <3>2. CASE p = 2
      BY <1>22, <1>17, <2>2, <2>3, <3>2
    <3>3. CASE p = 3
      BY <1>13, <2>2, <2>3, <3>3
    <3> QED
      BY <3>1, <3>2, <3>3
  <2>4. ASSUME NEW i \in G, NEW c, NEW p \in 1..3, c \in k.phases[p][i].rd
        PROVE  \/ IsGlobal(c) /\ \A j \in G : c \in O[j] => j[1] = i[1]
               \/ /\ ~IsGlobal(c) /\ c[3] = i[1]
                  /\ \/ c \in k.phases[p][i].wr
                     \/ \E j \in G : j[1] = i[1] /\ \E q \in 1..(p - 1) : c \in k.phases[q][j].wr
    <3>1. p = 3 /\ ok(i) /\ (c \in slm(i, Upto(dim)) \/ c \in Vals[i])
      <4>1. p \in {1, 2, 3} /\ (p = 3 => c \in h[i].rd)
        BY <2>2, <2>4
      <4>2. p # 1 /\ p # 2
        BY <1>13, <2>2, <2>4
      <4> QED
        BY <1>13, <4>1, <4>2
    <3>2. CASE c \in Vals[i]
      <4>1. c \in O[i]
        BY <1>13, <3>2
      <4> QED
        BY <1>25, <1>26, <4>1
    <3>3. CASE c \in slm(i, Upto(dim))
      <4>1. PICK l \in Upto(dim) : l = c[2] /\ c \in slm(<<i[1], l>>, {l}) /\ ~IsGlobal(c) /\ c[3] = i[1]
        BY <1>16, <3>3
      <4>2. PICK j \in G : j = <<i[1], l>>
        BY <1>15
      <4>3. j[1] = i[1] /\ j[2] = l /\ ok(j)
        BY <1>18, <3>1, <4>2
      <4>4. c \in g[j].wr
        BY <1>13, <4>1, <4>2, <4>3
      <4>5. 2 \in 1..(p - 1)
        BY <3>1
      <4> QED
        BY <2>2, <4>1, <4>3, <4>4, <4>5
    <3> QED
      BY <3>1, <3>2, <3>3
  <2>5. ASSUME NEW i \in G, NEW j \in G, NEW c, NEW p \in 1..3, i[1] = j[1], i # j, c \in k.phases[p][i].wr
        PROVE  c \notin k.phases[p][j].rd /\ c \notin k.phases[p][j].wr
    <3>1. CASE p = 1
      <4>1. c \in f[i].wr
        BY <2>2, <2>5, <3>1
      <4>2. f[i].wr \subseteq O[i] /\ f[j].rd = {} /\ f[j].wr \subseteq O[j]
        BY <1>21
      <4> QED
        BY <1>26, <2>2, <2>5, <3>1, <4>1, <4>2
    <3>2. CASE p = 2
      <4>1. c \in slm(i, {i[2]}) /\ g[j].rd = {} /\ g[j].wr \subseteq slm(j, {j[2]})
        BY <1>13, <2>2, <2>5, <3>2
      <4>2. c \in slm(j, {j[2]}) => i = j
        <5>1. c \in slm(j, {j[2]}) => i[2] = j[2]
          BY <1>17, <2>5, <4>1
        <5> QED
          BY <1>4, <2>5, <5>1
      <4> QED
        BY <2>2, <2>5, <3>2, <4>1, <4>2
    <3>3. CASE p = 3
      <4>1. c \in O[i] /\ h[j].rd \subseteq slm(j, Upto(dim)) \cup O[j] /\ h[j].wr \subseteq O[j]
        BY <1>13, <2>2, <2>5, <3>3
      <4>2. c \notin slm(j, Upto(dim))
        BY <1>16, <1>25, <4>1
      <4> QED
        BY <1>26, <2>2, <2>5, <3>3, <4>1, <4>2
    <3> QED
      BY <3>1, <3>2, <3>3
  <2>6. Items(k) = G /\ DOMAIN O = G /\ DOMAIN A = G
    BY <1>14, <1>24
  <2> QED
    BY <2>1, <2>2, <2>3, <2>4, <2>5, <2>6 DEF InPhases
<1>28. KernelRight(k)
  BY <1>19, <1>23, <1>24, <1>27, PhasesRight
<1> QED
  BY <1>28 DEF k

\* gated_delta_rule_varlen: the state of a live slot is read before the first
\* token and written after the last, and a row's tokens are the group's own.
THEOREM GatedDeltaRuleRight ==
    ASSUME NEW slots \in Seq(Int), NEW cu, Starting(cu), Len(cu) = Len(slots) + 1, Len(slots) > 0,
           NEW hk, NEW hv \in Nat \ {0}, NEW dk \in Nat, NEW dv \in Nat \ {0}, NEW nslots \in Nat,
           OneEach(slots, nslots)
    PROVE  KernelRight(GatedDeltaRule(cu, slots, hk, hv, dk, dv, nslots))
<1> DEFINE batch == Len(slots)
           G == Grid(batch * hv, dv)
           row(i) == i[1] \div hv
           head(i) == i[1] % hv
           slot(i) == slots[row(i) + 1]
           ok(i) == SlotOk(slot(i), nslots)
           at(i) == {<<"state", (slot(i) * hv + head(i)) * dv + i[2]>>}
           state(i) == IF ok(i) THEN at(i) ELSE {}
           len(i) == cu[row(i) + 2] - cu[row(i) + 1]
           tok(i, t) == cu[row(i) + 1] + t
           slm(i, S) == {<<b, e, i[1]>> : b \in {"qs", "ks"}, e \in S}
           outOf(i, t) == {<<"core", (tok(i, t) * hv + head(i)) * dv + i[2]>>}
           by(x) == x \div (hv \div hk)
           terms(i, t) == IF ok(i) THEN outOf(i, t) \X {<<by(head(i)), e>> : e \in Upto(dk)} ELSE {}
           stage(i, t) == IF t < len(i) THEN Does({}, slm(i, Stride(i[2], dv, dk)), {}) ELSE Does({}, {}, {})
           step(i, t) == IF t < len(i) THEN Does(slm(i, Upto(dk)), outOf(i, t), terms(i, t)) ELSE Does({}, {}, {})
           L == LongestOf(cu, batch)
           f == [i \in G |-> Does(state(i), {}, {})]
           m == [p \in 1..(2 * L) |-> [i \in G |-> IF p % 2 = 1 THEN stage(i, p \div 2) ELSE step(i, (p \div 2) - 1)]]
           s == [i \in G |-> Does({}, IF len(i) > 0 THEN state(i) ELSE {}, {})]
           live == {b \in 1..batch : SlotOk(slots[b], nslots)}
           cells(b) == At("core", cu[b] * hv * dv, Upto((cu[b + 1] - cu[b]) * hv * dv))
           liveCells == UNION {cells(b) : b \in live}
           cores == UNION {cells(b) : b \in 1..batch}
           kept == {x \in live : cu[x + 1] > cu[x]}
           states == UNION {At("state", slots[b] * hv * dv, Upto(hv * dv)) : b \in kept}
           sums == {<<x[1], <<by((x[1][2] \div dv) % hv), x[2]>>>> : x \in liveCells \X Upto(dk)}
           k == GatedDeltaRule(cu, slots, hk, hv, dk, dv, nslots)
<1>1. k = Kernel(<<f>> \o m \o <<s>>, cores \cup states, sums)
  BY DEF GatedDeltaRule, LongestOf
<1> HIDE DEF by
<1>2. /\ batch \in Nat \ {0} /\ batch * hv \in Nat /\ batch = Len(cu) - 1 /\ L \in Nat
      /\ \A b \in 1..batch : cu[b + 1] - cu[b] <= L
  <2>1. batch \in Nat \ {0} /\ batch = Len(cu) - 1
    BY DEF Starting
  <2>2. L \in Nat /\ \A b \in 1..batch : cu[b + 1] - cu[b] <= L
    BY <2>1, LongestIs
  <2> QED
    BY <2>1, <2>2, ProductNat
<1> HIDE DEF L
<1>3. /\ \A b \in 1..batch : cu[b] \in Nat /\ cu[b + 1] \in Nat /\ cu[b] <= cu[b + 1]
      /\ \A t \in live : slots[t] \in Nat
      /\ live \subseteq 1..batch
      /\ \A a, b \in live : slots[a] = slots[b] => a = b
      /\ \A t \in 1..batch : t \in live <=> SlotOk(slots[t], nslots)
  <2>1. live = Live(slots, nslots)
    BY DEF Live
  <2>2. /\ \A t \in live : slots[t] \in Nat
        /\ live \subseteq 1..batch
        /\ \A a, b \in live : slots[a] = slots[b] => a = b
    BY <2>1, LiveSlots DEF OneEach
  <2>3. \A b \in 1..batch : b \in 1..Len(cu) /\ b + 1 \in 1..Len(cu) /\ b <= b + 1
    BY <1>2
  <2>4. \A b \in 1..batch : cu[b] \in Nat /\ cu[b + 1] \in Nat /\ cu[b] <= cu[b + 1]
    BY <2>3 DEF Starting
  <2> QED
    BY <2>2, <2>4
<1> HIDE DEF live
<1>4. ASSUME NEW i \in G
      PROVE  /\ i[1] \in Nat /\ head(i) \in Upto(hv) /\ row(i) \in Nat /\ row(i) + 1 \in 1..batch
             /\ i[2] \in Upto(dv) /\ i = <<i[1], i[2]>> /\ i[1] = row(i) * hv + head(i)
             /\ (row(i) + 1) + 1 = row(i) + 2 /\ len(i) \in Nat /\ len(i) <= L
             /\ (ok(i) <=> row(i) + 1 \in live)
             /\ cu[row(i) + 1] \in Nat /\ cu[row(i) + 2] = cu[row(i) + 1] + len(i)
  <2>1. /\ i[1] \in Nat /\ head(i) \in Upto(hv) /\ row(i) \in Nat /\ row(i) + 1 \in 1..batch
        /\ i[2] \in Upto(dv) /\ i = <<i[1], i[2]>> /\ i[1] = row(i) * hv + head(i)
    <3>1. i \in Grid(batch * hv, dv)
      OBVIOUS
    <3> HIDE DEF batch
    <3> QED
      BY <1>2, <3>1, GridItem
  <2>2. PICK r \in Nat : r = row(i)
    BY <2>1
  <2>3. (r + 1) + 1 = r + 2
    OBVIOUS
  <2>4. cu[r + 1] \in Nat /\ cu[r + 2] \in Nat /\ cu[r + 1] <= cu[r + 2] /\ cu[r + 2] - cu[r + 1] <= L
    BY <1>2, <1>3, <2>1, <2>2, <2>3
  <2>5. PICK x \in Nat, y \in Nat : x = cu[r + 1] /\ y = cu[r + 2]
    BY <2>4
  <2>6. y - x \in Nat /\ y - x <= L /\ y = x + (y - x)
    <3>1. x <= y /\ y - x <= L
      BY <2>4, <2>5
    <3> QED
      BY <3>1
  <2>7. ok(i) <=> row(i) + 1 \in live
    BY <1>3, <2>1
  <2> HIDE DEF ok, row, head
  <2> QED
    BY <2>1, <2>2, <2>3, <2>5, <2>6, <2>7
<1> DEFINE X == [i \in G |-> UNION {outOf(i, t) : t \in Upto(len(i))}]
           U == [i \in G |-> IF row(i) + 1 \in live THEN at(i) ELSE {}]
           Vals == [i \in G |-> IF row(i) + 1 \in kept THEN at(i) ELSE {}]
           O == [i \in G |-> X[i] \cup Vals[i]]
           A == [i \in G |-> IF ok(i) THEN X[i] \X {<<by(head(i)), e>> : e \in Upto(dk)} ELSE {}]
           all == UNION {At("state", slots[b] * hv * dv, Upto(hv * dv)) : b \in live}
<1>5. ASSUME NEW b \in 1..batch, NEW c
      PROVE  c \in cells(b) <=> CellOf("core", c) /\ (c[2] \div dv) \div hv \in TokensOf(cu, b)
  <2>1. PICK x \in Nat, n \in Nat : x = cu[b] /\ n = cu[b + 1] - cu[b]
    <3>1. PICK x \in Nat, y \in Nat : x = cu[b] /\ y = cu[b + 1] /\ x <= y
      BY <1>3
    <3>2. y - x \in Nat
      BY <3>1
    <3> QED
      BY <3>1, <3>2
  <2>2. cu[b + 1] = x + n
    BY <1>3, <2>1
  <2>3. cells(b) = Block("core", x, n, hv, dv)
    BY <2>1 DEF Block
  <2>4. TokensOf(cu, b) = x..(x + n - 1)
    BY <2>1, <2>2 DEF TokensOf
  <2> HIDE DEF cells
  <2> QED
    BY <2>1, <2>3, <2>4, InBlock, SMTT(30)
<1>6. ASSUME NEW i \in G, NEW c
      PROVE  c \in X[i] <=> \E t \in TokensOf(cu, row(i) + 1) : c = <<"core", (t * hv + head(i)) * dv + i[2]>>
  <2>1. PICK x \in Nat, n \in Nat, y \in Nat : x = cu[row(i) + 1] /\ n = len(i) /\ y = cu[row(i) + 2] /\ y = x + n
    <3>1. PICK x \in Nat, n \in Nat : x = cu[row(i) + 1] /\ n = len(i) /\ cu[row(i) + 2] = x + n
      BY <1>4
    <3> HIDE DEF row, len
    <3>2. x + n \in Nat
      OBVIOUS
    <3> QED
      BY <3>1, <3>2
  <2>2. TokensOf(cu, row(i) + 1) = x..(x + n - 1)
    <3>1. (row(i) + 1) + 1 = row(i) + 2
      BY <1>4
    <3> HIDE DEF row, len
    <3>2. TokensOf(cu, row(i) + 1) = cu[row(i) + 1]..(cu[row(i) + 2] - 1)
      BY <3>1 DEF TokensOf
    <3>3. TokensOf(cu, row(i) + 1) = x..(y - 1)
      BY <2>1, <3>2
    <3>4. \A a, d \in Nat : (a + d) - 1 = a + d - 1
      OBVIOUS
    <3>5. y - 1 = x + n - 1
      BY <2>1, <3>4, SMTT(30)
    <3> QED
      BY <3>3, <3>5
  <2>3. c \in X[i] <=> \E t \in Upto(n) : c = <<"core", ((x + t) * hv + head(i)) * dv + i[2]>>
    BY <2>1
  <2>4. \A t \in Upto(n) : x + t \in x..(x + n - 1)
    BY DEF Upto
  <2>5. \A t \in x..(x + n - 1) : t - x \in Upto(n) /\ x + (t - x) = t
    BY DEF Upto
  <2> HIDE DEF X, head
  <2> QED
    BY <2>2, <2>3, <2>4, <2>5
<1>7. AtTokens(X, "core", cu, hv, dv, cores)
  <2>1. \A c : c \in cores <=> /\ CellOf("core", c)
                               /\ \E r \in 1..batch : (c[2] \div dv) \div hv \in TokensOf(cu, r)
    <3>1. \A c : c \in cores <=> \E b \in 1..batch : c \in cells(b)
      OBVIOUS
    <3> HIDE DEF cores, cells
    <3> QED
      BY <1>5, <3>1
  <2>2. DOMAIN X = G
    OBVIOUS
  <2> HIDE DEF X, cores
  <2> QED
    BY <1>2, <1>6, <2>1, <2>2 DEF AtTokens
<1>8. Shares(X, cores) /\ \A i \in G : \A c \in X[i] : IsGlobal(c) /\ c[1] = "core"
  <2>1. DOMAIN X = G
    OBVIOUS
  <2> HIDE DEF X, cores
  <2> QED
    BY <1>7, <2>1, TokensShared
<1>9. ASSUME NEW S, S \subseteq live, NEW T, T = [i \in G |-> IF row(i) + 1 \in S THEN at(i) ELSE {}],
             NEW Z, Z = UNION {At("state", slots[b] * hv * dv, Upto(hv * dv)) : b \in S}
      PROVE  /\ Shares(T, Z) /\ \A c \in Z : c[1] = "state"
             /\ \A i \in G : \A c \in T[i] : IsGlobal(c)
  <2>1. \A c : c \in Z <=> \E t \in S : c \in RowCells("state", slots[t], hv, dv)
    BY <1>9 DEF RowCells
  <2>2. S \subseteq 1..batch /\ (\A t \in S : slots[t] \in Nat) /\ \A a, b \in S : slots[a] = slots[b] => a = b
    BY <1>3, <1>9
  <2>3. /\ DOMAIN T = G
        /\ \A i \in G : T[i] = IF i[1] \div hv + 1 \in S
                  THEN {<<"state", (slots[i[1] \div hv + 1] * hv + (i[1] % hv)) * dv + i[2]>>} ELSE {}
    BY <1>9
  <2>4. AtSlots(T, "state", batch, hv, dv, S, slots, Z)
    BY <2>1, <2>2, <2>3 DEF AtSlots
  <2> QED
    BY <1>2, <2>3, <2>4, SlotsShared, Buffered
<1>10. /\ Shares(U, all) /\ Shares(Vals, states) /\ \A c \in states : c[1] = "state"
       /\ \A i \in G : \A c \in U[i] : IsGlobal(c)
  <2>1. kept \subseteq live
    OBVIOUS
  <2> HIDE DEF at
  <2> QED
    BY <1>9, <2>1
<1>11. ASSUME NEW i \in G
       PROVE  /\ Vals[i] = (IF len(i) > 0 THEN U[i] ELSE {}) /\ U[i] = state(i)
              /\ O[i] = X[i] \cup Vals[i]
              /\ \A t \in Upto(len(i)) : outOf(i, t) \subseteq X[i]
              /\ \A c \in X[i] : \E t \in Upto(len(i)) : c \in outOf(i, t)
  <2>1. row(i) + 1 \in kept <=> row(i) + 1 \in live /\ len(i) > 0
    <3>1. PICK x \in Nat, n \in Nat, y \in Nat : x = cu[row(i) + 1] /\ n = len(i) /\ y = cu[(row(i) + 1) + 1] /\ y = x + n
      <4>1. PICK x \in Nat, n \in Nat : x = cu[row(i) + 1] /\ n = len(i) /\ cu[(row(i) + 1) + 1] = x + n
        BY <1>4
      <4> HIDE DEF row, len
      <4>2. x + n \in Nat
        OBVIOUS
      <4> QED
        BY <4>1, <4>2
    <3> HIDE DEF row, len
    <3>2. y > x <=> n > 0
      BY <3>1
    <3> QED
      BY <3>1, <3>2
  <2>2. ok(i) <=> row(i) + 1 \in live
    BY <1>4
  <2>3. /\ \A t \in Upto(len(i)) : outOf(i, t) \subseteq X[i]
        /\ \A c \in X[i] : \E t \in Upto(len(i)) : c \in outOf(i, t)
    <3> HIDE DEF outOf, len
    <3> QED
      OBVIOUS
  <2> HIDE DEF at, row, ok, len, kept, outOf
  <2> QED
    BY <2>1, <2>2, <2>3
<1>12. ASSUME NEW i \in G
       PROVE  /\ f[i].rd = U[i] /\ f[i].wr = {} /\ f[i].add = {}
              /\ s[i].rd = {} /\ s[i].wr = Vals[i] /\ s[i].add = {}
  <2>1. f[i] = Does(state(i), {}, {}) /\ s[i] = Does({}, IF len(i) > 0 THEN state(i) ELSE {}, {})
    OBVIOUS
  <2> HIDE DEF f, s, U, Vals, X, state, len
  <2>2. /\ f[i].rd = state(i) /\ f[i].wr = {} /\ f[i].add = {}
        /\ s[i].rd = {} /\ s[i].wr = (IF len(i) > 0 THEN state(i) ELSE {}) /\ s[i].add = {}
    BY <2>1 DEF Does
  <2>3. Vals[i] = (IF len(i) > 0 THEN U[i] ELSE {}) /\ U[i] = state(i)
    BY <1>11
  <2> QED
    BY <2>2, <2>3
<1>13. ASSUME NEW i \in G, NEW q \in 1..(2 * L), q % 2 = 1
       PROVE  m[q][i].rd = {} /\ m[q][i].add = {}
              /\ m[q][i].wr = IF q \div 2 < len(i) THEN slm(i, Stride(i[2], dv, dk)) ELSE {}
  <2>1. m[q][i] = stage(i, q \div 2)
    BY <1>13
  <2> HIDE DEF m, slm, len
  <2> QED
    BY <2>1 DEF Does
<1>14. ASSUME NEW i \in G, NEW q \in 1..(2 * L), q % 2 # 1
       PROVE  LET t == (q \div 2) - 1
              IN  /\ m[q][i].rd = (IF t < len(i) THEN slm(i, Upto(dk)) ELSE {})
                  /\ m[q][i].wr = (IF t < len(i) THEN outOf(i, t) ELSE {})
                  /\ m[q][i].add = IF t < len(i) THEN terms(i, t) ELSE {}
  <2>1. m[q][i] = step(i, (q \div 2) - 1)
    BY <1>14
  <2> HIDE DEF m, slm, len, outOf, terms
  <2> QED
    BY <2>1 DEF Does
<1>15. /\ DOMAIN f = G /\ m = [q \in 1..(2 * L) |-> m[q]] /\ 2 * L \in Nat /\ DOMAIN O = G /\ DOMAIN A = G
       /\ DOMAIN X = G /\ DOMAIN Vals = G /\ DOMAIN U = G
       /\ \A c \in cores : c[1] = "core"
  <2>1. \A c \in cores : c[1] = "core"
    <3>1. \A c \in cores : \E b \in 1..batch : c \in cells(b)
      OBVIOUS
    <3> HIDE DEF cores
    <3> QED
      BY <3>1, CellOfBuffer
  <2> QED
    BY <1>2, <2>1
<1>16. \A i \in G : \A c \in slm(i, Upto(dk)) : /\ ~IsGlobal(c) /\ c[3] = i[1] /\ c[2] \in Nat /\ c[2] < dk
                                              /\ c[1] \in {"qs", "ks"} /\ c = <<c[1], c[2], i[1]>>
  BY LocalCell DEF Upto
<1>17. \A i \in G : \A c \in slm(i, Stride(i[2], dv, dk)) : ~IsGlobal(c) /\ c[3] = i[1] /\ c[2] % dv = i[2]
  <2>1. \A i \in G : \A x \in Stride(i[2], dv, dk) : x % dv = i[2]
    BY <1>4, StrideIs
  <2> QED
    BY <2>1, LocalCell
<1>18. ASSUME NEW i \in G, NEW c \in slm(i, Upto(dk))
       PROVE  \E j \in G : j[1] = i[1] /\ len(j) = len(i) /\ c \in slm(j, Stride(j[2], dv, dk))
  <2>1. PICK b \in {"qs", "ks"}, x \in Nat : c = <<b, x, i[1]>> /\ x < dk
    BY <1>16
  <2>2. PICK l \in Upto(dv) : l = x % dv
    <3>1. x % dv \in Upto(dv)
      BY <2>1, DivisionOf
    <3> QED
      BY <3>1
  <2>3. x \in Stride(l, dv, dk)
    <3>1. \A y : y \in Stride(l, dv, dk) <=> y \in Nat /\ y < dk /\ y % dv = l
      BY <2>2, StrideIs
    <3> QED
      BY <2>1, <2>2, <3>1, SMTT(30)
  <2>4. PICK j \in G : j = <<i[1], l>>
    <3>1. i[1] \in Upto(batch * hv) /\ <<i[1], l>> \in Upto(batch * hv) \X Upto(dv)
      BY <2>2, GridItems
    <3> QED
      BY <3>1 DEF Grid
  <2>5. j[1] = i[1] /\ j[2] = l
    BY <2>4
  <2>6. len(j) = len(i)
    BY <2>5
  <2>7. c \in slm(j, Stride(l, dv, dk))
    BY <2>1, <2>3, <2>5
  <2> QED
    <3> HIDE DEF len, slm, G
    <3> QED
      BY <2>4, <2>5, <2>6, <2>7
<1>19. \A i \in G : \A t : terms(i, t) = IF ok(i) THEN outOf(i, t) \X {<<by(head(i)), e>> : e \in Upto(dk)} ELSE {}
  OBVIOUS
<1>20. \A i \in G : A[i] = IF ok(i) THEN X[i] \X {<<by(head(i)), e>> : e \in Upto(dk)} ELSE {}
  <2> HIDE DEF X
  <2> QED
    OBVIOUS
<1>21. \A z : z \in sums <=> \E c \in liveCells : \E e \in Upto(dk) : z = <<c, <<by((c[2] \div dv) % hv), e>>>>
  <2> DEFINE of(x) == <<x[1], <<by((x[1][2] \div dv) % hv), x[2]>>>>
  <2>1. \A c \in liveCells, e \in Upto(dk) : of(<<c, e>>) = <<c, <<by((c[2] \div dv) % hv), e>>>>
    OBVIOUS
  <2>2. sums = {of(x) : x \in liveCells \X Upto(dk)}
    OBVIOUS
  <2> HIDE DEF liveCells, of, sums
  <2>3. \A z : z \in sums <=> \E x \in liveCells \X Upto(dk) : z = of(x)
    BY <2>2
  <2>4. \A x : x \in liveCells \X Upto(dk) <=> \E c \in liveCells : \E e \in Upto(dk) : x = <<c, e>>
    OBVIOUS
  <2>5. ASSUME NEW z \in sums
        PROVE  \E c \in liveCells : \E e \in Upto(dk) : z = <<c, <<by((c[2] \div dv) % hv), e>>>>
    <3>1. PICK x \in liveCells \X Upto(dk) : z = of(x)
      BY <2>3, <2>5
    <3>2. PICK c \in liveCells, e \in Upto(dk) : x = <<c, e>>
      BY <2>4, <3>1
    <3> QED
      BY <2>1, <3>1, <3>2
  <2>6. ASSUME NEW c \in liveCells, NEW e \in Upto(dk)
        PROVE  <<c, <<by((c[2] \div dv) % hv), e>>>> \in sums
    BY <2>1, <2>3, <2>4, <2>6
  <2> QED
    BY <2>5, <2>6
<1>22. \A c : c \in liveCells <=> \E b \in live : CellOf("core", c) /\ (c[2] \div dv) \div hv \in TokensOf(cu, b)
  <2>1. \A c : c \in liveCells <=> \E b \in live : c \in cells(b)
    OBVIOUS
  <2> HIDE DEF liveCells, cells
  <2> QED
    BY <1>3, <1>5, <2>1
<1>23. ASSUME NEW i \in G, NEW c \in X[i]
       PROVE  /\ CellOf("core", c) /\ (c[2] \div dv) \div hv \in TokensOf(cu, row(i) + 1)
              /\ (c[2] \div dv) % hv = head(i)
  <2>1. PICK t \in TokensOf(cu, row(i) + 1) : c = <<"core", (t * hv + head(i)) * dv + i[2]>>
    <3> HIDE DEF X, row, head
    <3> QED
      BY <1>6
  <2>2. t \in Nat
    <3>1. cu[row(i) + 1] \in Nat
      BY <1>4
    <3>2. t \in Int /\ cu[row(i) + 1] <= t
      BY <1>3, <1>4, <2>1 DEF TokensOf
    <3> HIDE DEF row
    <3> QED
      BY <3>1, <3>2
  <2>3. head(i) \in Upto(hv) /\ i[2] \in Upto(dv)
    BY <1>4
  <2> HIDE DEF X, row, head
  <2>4. PICK h \in Upto(hv), l \in Upto(dv) : h = head(i) /\ l = i[2]
    BY <2>3
  <2>5. c = <<"core", (t * hv + h) * dv + l>>
    BY <2>1, <2>4
  <2>6. CellOf("core", c) /\ (c[2] \div dv) \div hv = t /\ (c[2] \div dv) % hv = h
    <3>1. c = TokenCell("core", t, hv, h, dv, l)
      BY <2>5 DEF TokenCell
    <3> QED
      BY <2>2, <2>4, <3>1, TokenCellIs
  <2> QED
    BY <2>1, <2>4, <2>6
<1> HIDE DEF f, m, s, X, U, Vals, O, A, all, states, cores, liveCells, sums, k, G, slm, state, at, outOf, terms, kept, cells, ok, row, head, tok, len, stage, step
<1>24. Shares(O, cores \cup states)
  <2>1. cores \cap states = {}
    BY <1>10, <1>15
  <2> QED
    BY <1>8, <1>10, <1>11, <1>15, <2>1, SharesTwo
<1>25. Shares(A, sums)
  <2>1. ASSUME NEW i \in G, NEW z
        PROVE  z \in A[i] <=> ok(i) /\ \E c \in X[i] : \E e \in Upto(dk) : z = <<c, <<by((c[2] \div dv) % hv), e>>>>
    <3>1. z \in A[i] <=> ok(i) /\ \E c \in X[i] : \E e \in Upto(dk) : z = <<c, <<by(head(i)), e>>>>
      <4> DEFINE codes == {<<by(head(i)), e>> : e \in Upto(dk)}
      <4>1. A[i] = IF ok(i) THEN X[i] \X codes ELSE {}
        BY <1>20
      <4>2. \A y : y \in codes <=> \E e \in Upto(dk) : y = <<by(head(i)), e>>
        OBVIOUS
      <4> HIDE DEF codes
      <4>3. z \in A[i] <=> ok(i) /\ \E c \in X[i] : \E y \in codes : z = <<c, y>>
        BY <4>1
      <4> QED
        BY <4>2, <4>3
    <3> QED
      BY <1>23, <3>1
  <2>2. ASSUME NEW i \in G
        PROVE  A[i] \subseteq sums
    BY <1>4, <1>21, <1>22, <1>23, <2>1, SMTT(30)
  <2>3. ASSUME NEW z \in sums
        PROVE  \E i \in G : z \in A[i]
    <3>1. PICK c \in liveCells, e \in Upto(dk) : z = <<c, <<by((c[2] \div dv) % hv), e>>>>
      BY <1>21
    <3>2. PICK b \in live : CellOf("core", c) /\ (c[2] \div dv) \div hv \in TokensOf(cu, b)
      BY <1>22
    <3>3. b \in 1..batch
      BY <1>3
    <3>4. c \in cores
      BY <1>7, <3>2, <3>3, <1>2 DEF AtTokens
    <3>5. PICK i \in G : c \in X[i]
      BY <1>8, <1>15, <3>4 DEF Shares
    <3>6. (c[2] \div dv) \div hv \in TokensOf(cu, row(i) + 1) /\ row(i) + 1 \in 1..batch
      BY <1>4, <1>23, <3>5
    <3>7. row(i) + 1 = b
      BY <1>2, <3>2, <3>3, <3>6, TokensApart
    <3>8. ok(i)
      BY <1>4, <3>5, <3>7
    <3> QED
      BY <2>1, <3>1, <3>5, <3>8
  <2>4. ASSUME NEW i \in G, NEW j \in G, NEW z, z \in A[i], z \in A[j]
        PROVE  i = j
    <3>1. PICK c \in X[i], d \in X[j] : z[1] = c /\ z[1] = d
      BY <2>1, <2>4
    <3> QED
      BY <1>8, <1>15, <2>4, <3>1 DEF Shares
  <2> QED
    BY <1>15, <2>2, <2>3, <2>4, SharesBy
<1>26. /\ Items(k) = G /\ k.out = cores \cup states /\ k.sums = sums
       /\ Frames(k.phases, f, m, s, 2 * L)
  <2>1. k.phases = <<f>> \o m \o <<s>> /\ k.out = cores \cup states /\ k.sums = sums
    BY <1>1 DEF Kernel
  <2>2. Frames(k.phases, f, m, s, 2 * L)
    BY <1>15, <2>1, Framed
  <2>3. Items(k) = G
    BY <1>15, <2>2 DEF Items, Frames
  <2> QED
    BY <2>1, <2>2, <2>3
<1> DEFINE ph == k.phases
           n == 2 * L
           own(i) == slm(i, Stride(i[2], dv, dk))
<1>27. /\ n \in Nat /\ DOMAIN ph = 1..(n + 2) /\ ph[1] = f /\ ph[n + 2] = s
       /\ \A q \in 1..n : ph[q + 1] = m[q]
  BY <1>15, <1>26 DEF Frames
<1>28. ASSUME NEW p \in DOMAIN ph
       PROVE  PhaseIs(p, n)
  <2> HIDE DEF ph, n
  <2> QED
    BY <1>27, PhaseParity
<1>29. ASSUME NEW t \in Nat, 2 * t + 1 \in 1..n, NEW i \in G
       PROVE  /\ ph[(2 * t + 1) + 1][i].rd = {} /\ ph[(2 * t + 1) + 1][i].add = {}
              /\ ph[(2 * t + 1) + 1][i].wr = IF t < len(i) THEN own(i) ELSE {}
  <2>1. PICK q \in 1..n : q = 2 * t + 1
    BY <1>29
  <2>2. q % 2 = 1 /\ q \div 2 = t
    BY <2>1
  <2>3. ph[q + 1] = m[q]
    BY <1>27
  <2> QED
    BY <1>13, <2>1, <2>2, <2>3
<1>30. ASSUME NEW t \in Nat, 2 * t + 2 \in 1..n, NEW i \in G
       PROVE  /\ ph[(2 * t + 2) + 1][i].rd = (IF t < len(i) THEN slm(i, Upto(dk)) ELSE {})
              /\ ph[(2 * t + 2) + 1][i].wr = (IF t < len(i) THEN outOf(i, t) ELSE {})
              /\ ph[(2 * t + 2) + 1][i].add = IF t < len(i) THEN terms(i, t) ELSE {}
  <2>1. PICK q \in 1..n : q = 2 * t + 2
    BY <1>30
  <2>2. q % 2 # 1 /\ (q \div 2) - 1 = t
    BY <2>1
  <2>3. ph[q + 1] = m[q]
    BY <1>27
  <2> QED
    BY <1>14, <2>1, <2>2, <2>3
<1> HIDE DEF ph, n, own
<1>31. ASSUME NEW i \in G, NEW t \in Nat, t < len(i)
       PROVE  2 * t + 2 \in 1..n /\ t \in Upto(len(i))
  <2>1. PICK x \in Nat, z \in Nat : x = len(i) /\ z = L /\ x <= z
    BY <1>2, <1>4
  <2>2. n = 2 * z /\ t < x
    BY <1>31, <2>1 DEF n
  <2>3. 2 * t + 2 \in 1..(2 * z) /\ t \in 0..(x - 1)
    BY <2>1, <2>2
  <2> QED
    BY <2>1, <2>2, <2>3 DEF Upto
<1>32. ASSUME NEW i \in G
       PROVE  Added(k, i) = A[i]
  <2>1. \A z : z \in Added(k, i) <=> \E p \in DOMAIN ph : z \in ph[p][i].add
    BY DEF Added, ph
  <2>2. ASSUME NEW z, NEW p \in DOMAIN ph, z \in ph[p][i].add
        PROVE  \E t \in Nat : t < len(i) /\ z \in terms(i, t)
    <3>1. \A t \in Nat : 2 * t + 1 \in 1..n => ph[(2 * t + 1) + 1][i].add = {}
      BY <1>29
    <3>2. \A t \in Nat : 2 * t + 2 \in 1..n => ph[(2 * t + 2) + 1][i].add = IF t < len(i) THEN terms(i, t) ELSE {}
      BY <1>30
    <3>3. ph[1][i].add = {} /\ ph[n + 2][i].add = {}
      BY <1>12, <1>27
    <3> QED
      BY <1>28, <2>2, <3>1, <3>2, <3>3 DEF PhaseIs
  <2>3. ASSUME NEW z, NEW t \in Nat, t < len(i), z \in terms(i, t)
        PROVE  \E p \in DOMAIN ph : z \in ph[p][i].add
    <3>1. 2 * t + 2 \in 1..n
      BY <1>31, <2>3
    <3>2. z \in ph[(2 * t + 2) + 1][i].add
      BY <1>30, <2>3, <3>1
    <3>3. (2 * t + 2) + 1 \in DOMAIN ph
      BY <1>27, <3>1
    <3> QED
      BY <3>2, <3>3
  <2>4. \A z : z \in A[i] <=> \E t \in Nat : t < len(i) /\ z \in terms(i, t)
    <3> DEFINE codes == {<<by(head(i)), e>> : e \in Upto(dk)}
    <3>1. A[i] = (IF ok(i) THEN X[i] \X codes ELSE {}) /\ \A t : terms(i, t) = IF ok(i) THEN outOf(i, t) \X codes ELSE {}
      BY <1>19, <1>20
    <3> HIDE DEF codes
    <3>2. \A c : c \in X[i] <=> \E t \in Upto(len(i)) : c \in outOf(i, t)
      BY <1>11
    <3>3. \A t : t \in Upto(len(i)) <=> t \in Nat /\ t < len(i)
      <4>1. PICK x \in Nat : x = len(i)
        BY <1>4
      <4>2. \A t : t \in Upto(x) <=> t \in Nat /\ t < x
        BY DEF Upto
      <4> QED
        BY <4>1, <4>2
    <3> QED
      BY <3>1, <3>2, <3>3
  <2> QED
    BY <2>1, <2>2, <2>3, <2>4
<1>33. ASSUME NEW i \in G, NEW c \in O[i]
       PROVE  IsGlobal(c) /\ \E p \in DOMAIN ph : c \in ph[p][i].wr
  <2>1. CASE c \in X[i]
    <3>1. PICK t \in Upto(len(i)) : c \in outOf(i, t)
      BY <1>11, <2>1
    <3>2. t \in Nat /\ t < len(i)
      <4>1. PICK x \in Nat : x = len(i)
        BY <1>4
      <4> QED
        BY <3>1, <4>1 DEF Upto
    <3>3. 2 * t + 2 \in 1..n /\ (2 * t + 2) + 1 \in DOMAIN ph
      BY <1>27, <1>31, <3>2
    <3>4. c \in ph[(2 * t + 2) + 1][i].wr
      BY <1>30, <3>1, <3>2, <3>3
    <3> QED
      BY <1>8, <2>1, <3>3, <3>4
  <2>2. CASE c \in Vals[i]
    <3>1. c \in U[i]
      BY <1>11, <2>2
    <3>2. n + 2 \in DOMAIN ph /\ ph[n + 2][i].wr = Vals[i]
      BY <1>12, <1>27
    <3> QED
      BY <1>10, <2>2, <3>1, <3>2
  <2> QED
    BY <1>11, <2>1, <2>2
<1>34. \A i, j \in G : \A c : c \in O[i] /\ c \in O[j] => i = j
  BY <1>15, <1>24 DEF Shares
<1>35. ASSUME NEW i \in G, NEW c \in U[i]
       PROVE  IsGlobal(c) /\ \A j \in G : c \in O[j] => j = i
  <2>1. c[1] = "state" /\ IsGlobal(c)
    <3>1. c \in all
      BY <1>10, <1>15 DEF Shares
    <3>2. \A x \in all : x[1] = "state"
      BY CellOfBuffer DEF all
    <3> QED
      BY <1>10, <3>1, <3>2
  <2>2. ASSUME NEW j \in G, c \in O[j]
        PROVE  j = i
    <3>1. c \in Vals[j]
      BY <1>8, <1>11, <2>1, <2>2
    <3>2. c \in U[j]
      BY <1>11, <3>1
    <3> QED
      BY <1>10, <1>15, <3>2 DEF Shares
  <2> QED
    BY <2>1, <2>2
\* What a phase writes and reads.
<1>36. ASSUME NEW p \in DOMAIN ph, NEW i \in G, NEW c
       PROVE  /\ c \in ph[p][i].wr => c \in O[i] \/ c \in own(i)
              /\ c \in ph[p][i].rd =>
                    \/ c \in U[i]
                    \/ /\ c \in slm(i, Upto(dk))
                       /\ \A j \in G : ph[p][j].wr \subseteq O[j]
                       /\ \E q \in 1..(p - 1) : \A j \in G : len(j) = len(i) => ph[q][j].wr = own(j)
  <2>1. CASE p = 1
    BY <1>12, <1>27, <2>1
  <2>2. CASE p = n + 2
    BY <1>11, <1>12, <1>27, <2>2
  <2>3. ASSUME NEW t \in Nat, 2 * t + 1 \in 1..n, p = (2 * t + 1) + 1
        PROVE  /\ c \in ph[p][i].wr => c \in own(i)
               /\ ph[p][i].rd = {}
    BY <1>29, <2>3
  <2>4. ASSUME NEW t \in Nat, 2 * t + 2 \in 1..n, 2 * t + 1 \in 1..n, p = (2 * t + 2) + 1
        PROVE  /\ \A j \in G : ph[p][j].wr \subseteq O[j]
               /\ c \in ph[p][i].rd =>
                     /\ c \in slm(i, Upto(dk))
                     /\ \E q \in 1..(p - 1) : \A j \in G : len(j) = len(i) => ph[q][j].wr = own(j)
    <3>1. ASSUME NEW j \in G
          PROVE  ph[p][j].wr \subseteq O[j]
      <4>1. CASE t < len(j)
        <5>1. ph[p][j].wr = outOf(j, t) /\ t \in Upto(len(j))
          BY <1>30, <1>31, <2>4, <4>1
        <5> QED
          BY <1>11, <5>1
      <4>2. CASE ~(t < len(j))
        BY <1>30, <2>4, <4>2
      <4> QED
        BY <4>1, <4>2
    <3>2. ASSUME c \in ph[p][i].rd
          PROVE  /\ c \in slm(i, Upto(dk))
                 /\ \E q \in 1..(p - 1) : \A j \in G : len(j) = len(i) => ph[q][j].wr = own(j)
      <4>1. t < len(i) /\ c \in slm(i, Upto(dk))
        BY <1>30, <2>4, <3>2
      <4>2. (2 * t + 1) + 1 \in 1..(p - 1)
        BY <2>4
      <4>3. \A j \in G : len(j) = len(i) => ph[(2 * t + 1) + 1][j].wr = own(j)
        BY <1>29, <2>4, <4>1
      <4> QED
        BY <4>1, <4>2, <4>3
    <3> QED
      BY <3>1, <3>2
  <2> QED
    BY <1>28, <2>1, <2>2, <2>3, <2>4 DEF PhaseIs
<1>37. ASSUME NEW i \in G, NEW c \in own(i)
       PROVE  ~IsGlobal(c) /\ c[3] = i[1] /\ c[2] % dv = i[2]
  BY <1>17 DEF own
<1>38. ASSUME NEW i \in G, NEW j \in G, i[1] = j[1], NEW c \in own(i), c \in own(j)
       PROVE  i = j
  <2>1. i[2] = j[2]
    BY <1>37, <1>38
  <2> QED
    BY <1>4, <1>38, <2>1
<1>39. InPhases(k, O, A)
  <2>1. ASSUME NEW i \in G
        PROVE  Added(k, i) = A[i] /\ \A c \in O[i] : IsGlobal(c) /\ c \in Wrote(k, i)
    BY <1>32, <1>33 DEF Wrote, ph
  <2>2. ASSUME NEW p \in DOMAIN ph, NEW i \in G, NEW c
        PROVE  /\ c \in ph[p][i].wr => c \in O[i] \/ (~IsGlobal(c) /\ c[3] = i[1])
               /\ c \in ph[p][i].rd =>
                    \/ IsGlobal(c) /\ \A j \in G : c \in O[j] => j[1] = i[1]
                    \/ /\ ~IsGlobal(c) /\ c[3] = i[1]
                       /\ \/ c \in ph[p][i].wr
                          \/ \E j \in G : j[1] = i[1] /\ \E q \in 1..(p - 1) : c \in ph[q][j].wr
    <3>1. ASSUME c \in ph[p][i].rd, c \in slm(i, Upto(dk)),
                 \E q \in 1..(p - 1) : \A j \in G : len(j) = len(i) => ph[q][j].wr = own(j)
          PROVE  /\ ~IsGlobal(c) /\ c[3] = i[1]
                 /\ \E j \in G : j[1] = i[1] /\ \E q \in 1..(p - 1) : c \in ph[q][j].wr
      <4>1. PICK j \in G : j[1] = i[1] /\ len(j) = len(i) /\ c \in own(j)
        BY <1>18, <3>1 DEF own
      <4>2. PICK q \in 1..(p - 1) : \A g \in G : len(g) = len(i) => ph[q][g].wr = own(g)
        BY <3>1
      <4>3. c \in ph[q][j].wr
        BY <4>1, <4>2
      <4>4. ~IsGlobal(c) /\ c[3] = i[1]
        BY <1>16, <3>1
      <4> QED
        BY <4>1, <4>2, <4>3, <4>4
    <3> QED
      BY <1>35, <1>36, <1>37, <3>1
  <2>3. ASSUME NEW p \in DOMAIN ph, NEW i \in G, NEW j \in G, NEW c, i[1] = j[1], i # j, c \in ph[p][i].wr
        PROVE  c \notin ph[p][j].rd /\ c \notin ph[p][j].wr
    <3>1. c \notin ph[p][j].wr
      <4>1. c \in O[i] \/ c \in own(i)
        BY <1>36, <2>3
      <4>2. c \in ph[p][j].wr => c \in O[j] \/ c \in own(j)
        BY <1>36
      <4> QED
        BY <1>33, <1>34, <1>37, <1>38, <2>3, <4>1, <4>2
    <3>2. ASSUME c \in ph[p][j].rd
          PROVE  FALSE
      <4>1. CASE c \in U[j]
        <5>1. IsGlobal(c)
          BY <1>35, <4>1
        <5>2. c \in O[i]
          BY <1>36, <1>37, <2>3, <5>1
        <5> QED
          BY <1>35, <2>3, <4>1, <5>2
      <4>2. CASE c \notin U[j]
        <5>1. c \in slm(j, Upto(dk)) /\ c \in O[i]
          BY <1>36, <2>3, <3>2, <4>2
        <5> QED
          BY <1>16, <1>33, <5>1
      <4> QED
        BY <4>1, <4>2
    <3> QED
      BY <3>1, <3>2
  <2> QED
    BY <1>15, <1>26, <2>1, <2>2, <2>3 DEF InPhases, ph
<1>40. KernelRight(k)
  BY <1>24, <1>25, <1>26, <1>39, PhasesRight
<1> QED
  BY <1>40 DEF k

-----------------------------------------------------------------------------
(* qk_norm_rope                                                             *)

\* qk_norm_rope: every query and key head of every token is normalised and
\* rotated by one sub-group, which reads nothing another one writes.
THEOREM QkNormRopeRight ==
    ASSUME NEW tokens \in Nat, NEW heads \in Nat \ {0}, NEW kv \in Nat \ {0}, NEW half \in Nat \ {0},
           NEW sub \in Nat \ {0}, NEW halfOut \in BOOLEAN
    PROVE  KernelRight(QkNormRope(tokens, heads, kv, 2 * half, sub, halfOut))
<1>1. PICK dim \in Nat \ {0} : dim = 2 * half
  OBVIOUS
<1>2. PICK n \in Nat \ {0} : n = heads + kv
  OBVIOUS
<1> DEFINE key(g) == IsKeyHead(g, heads, kv)
           row(g) == HeadRow(g, heads, kv)
           copies(g) == HeadCopies(key(g), halfOut)
           grid == Grid(tokens * (heads + kv), sub)
           own(i) == At(HeadName(key(i[1])), row(i[1]) * dim, Stride(i[2], sub, dim))
           turned(i, b) == At(b, row(i[1]) * dim, RopePairs(i[2], sub, half))
           O == [i \in grid |-> UNION {turned(i, b) : b \in copies(i[1])}]
           A == [i \in grid |-> Into(<<"ss", i[1]>>, own(i))]
           d == [i \in grid |-> Does(own(i), {}, Into(<<"ss", i[1]>>, own(i)))]
           e == [i \in grid |-> Does(turned(i, HeadName(key(i[1]))), UNION {turned(i, b) : b \in copies(i[1])}, {})]
           all(x) == UNION {At(b, 0, Upto(HeadsIn(x, tokens, heads, kv) * dim)) : b \in HeadCopies(x, halfOut)}
           out == all(FALSE) \cup all(TRUE)
           sums == UNION {Into(<<"ss", g>>, At(HeadName(key(g)), row(g) * dim, Upto(dim))) : g \in Upto(tokens * (heads + kv))}
           k == QkNormRope(tokens, heads, kv, dim, sub, halfOut)
<1>3. k = Kernel(<<d, e>>, out, sums)
  <2>1. dim \div 2 = half
    BY <1>1
  <2> DEFINE isKey(i) == i[1] % (heads + kv) >= heads
             nm(i) == IF isKey(i) THEN "K" ELSE "Q"
             bs(i) == LET t == i[1] \div (heads + kv)
                          ch == i[1] % (heads + kv)
                      IN  (IF isKey(i) THEN t * kv + ch - heads ELSE t * heads + ch) * dim
             ow(i) == At(nm(i), bs(i), Stride(i[2], sub, dim))
             pairs(i) == UNION {{p, p + dim \div 2} : p \in Stride(i[2], sub, dim \div 2)}
             cp == [Q |-> IF halfOut THEN {"Q", "Q_f16"} ELSE {"Q"},
                    K |-> IF halfOut THEN {"K", "K_f16"} ELSE {"K"}]
             put(i) == Does(At(nm(i), bs(i), pairs(i)),
                            UNION {At(b, bs(i), pairs(i)) : b \in cp[nm(i)]}, {})
             al(buffer, m) == UNION {At(b, 0, Upto(tokens * m * dim)) : b \in cp[buffer]}
  <2>2. k = Kernel(<<[i \in grid |-> Does(ow(i), {}, Into(<<"ss", i[1]>>, ow(i)))],
                     [i \in grid |-> put(i)]>>,
                   al("Q", heads) \cup al("K", kv),
                   UNION {Into(<<"ss", g>>, At(nm(<<g, 0>>), bs(<<g, 0>>), Upto(dim))) : g \in Upto(tokens * (heads + kv))})
    BY DEF QkNormRope
  <2>3. \A i : nm(i) = HeadName(key(i[1])) /\ bs(i) = row(i[1]) * dim
    BY DEF HeadName, IsKeyHead, HeadRow
  <2>4. \A i : cp[nm(i)] = copies(i[1]) /\ pairs(i) = RopePairs(i[2], sub, half)
    <3>1. \A i : pairs(i) = RopePairs(i[2], sub, dim \div 2)
      BY DEF RopePairs
    <3>2. \A i : cp[nm(i)] = copies(i[1])
      BY DEF IsKeyHead, HeadCopies
    <3> HIDE DEF pairs, cp, nm, copies
    <3> QED
      BY <2>1, <3>1, <3>2
  <2>5. al("Q", heads) = all(FALSE) /\ al("K", kv) = all(TRUE)
    BY DEF HeadCopies, HeadsIn
  <2> HIDE DEF nm, bs, cp, pairs, al, all, key, row, copies, k
  <2>6. \A i : ow(i) = own(i) /\ put(i) = Does(turned(i, HeadName(key(i[1]))), UNION {turned(i, b) : b \in copies(i[1])}, {})
    BY <2>3, <2>4, ZenonT(40)
  <2>7. [i \in grid |-> Does(ow(i), {}, Into(<<"ss", i[1]>>, ow(i)))] = d /\ [i \in grid |-> put(i)] = e
    BY <2>6
  <2>8. \A g : At(nm(<<g, 0>>), bs(<<g, 0>>), Upto(dim)) = At(HeadName(key(g)), row(g) * dim, Upto(dim))
    BY <2>3
  <2>9. UNION {Into(<<"ss", g>>, At(nm(<<g, 0>>), bs(<<g, 0>>), Upto(dim))) : g \in Upto(tokens * (heads + kv))} = sums
    BY <2>8
  <2> HIDE DEF ow, put, d, e, sums
  <2> QED
    BY <2>2, <2>5, <2>7, <2>9
<1>4. /\ \A g \in Upto(tokens * n) : g \in Nat /\ key(g) \in BOOLEAN
                                       /\ row(g) \in Nat /\ row(g) < HeadsIn(key(g), tokens, heads, kv)
      /\ HeadsIn(TRUE, tokens, heads, kv) \in Nat /\ HeadsIn(FALSE, tokens, heads, kv) \in Nat
  <2>1. HeadsIn(TRUE, tokens, heads, kv) \in Nat /\ HeadsIn(FALSE, tokens, heads, kv) \in Nat
    BY ProductNat DEF HeadsIn
  <2>2. ASSUME NEW g \in Upto(tokens * n)
        PROVE  g \in Nat /\ key(g) \in BOOLEAN /\ row(g) \in Nat /\ row(g) < HeadsIn(key(g), tokens, heads, kv)
    <3>1. tokens * n \in Nat
      BY ProductNat
    <3>2. g \in Nat /\ g < tokens * (heads + kv)
      BY <1>2, <3>1 DEF Upto
    <3>3. key(g) \in BOOLEAN
      BY DEF IsKeyHead
    <3>4. row(g) \in Upto(HeadsIn(key(g), tokens, heads, kv))
      BY <3>2, HeadRowIs
    <3>5. HeadsIn(key(g), tokens, heads, kv) \in Nat
      BY <2>1, <3>3
    <3> HIDE DEF key, row
    <3> QED
      BY <3>2, <3>3, <3>4, <3>5 DEF Upto
  <2> QED
    BY <2>1, <2>2
<1>5. \A i \in grid : i[1] \in Upto(tokens * n) /\ i[2] \in Upto(sub) /\ i = <<i[1], i[2]>>
  BY <1>2, GridItems
<1>6. \A i \in grid : \A c : c \in own(i) <=> /\ OfHead(c, HeadName(key(i[1])), i[1], heads, kv, dim)
                                            /\ (c[2] % dim) % sub = i[2]
  <2>1. ASSUME NEW i \in grid, NEW c
        PROVE  c \in own(i) <=> /\ OfHead(c, HeadName(key(i[1])), i[1], heads, kv, dim)
                                /\ (c[2] % dim) % sub = i[2]
    <3>1. PICK r \in Nat, l \in Upto(sub), b \in {HeadName(key(i[1]))} : r = row(i[1]) /\ l = i[2] /\ b = HeadName(key(i[1]))
      BY <1>4, <1>5
    <3>2. \A x : x \in Stride(l, sub, dim) <=> x \in Nat /\ x < dim /\ x % sub = l
      BY StrideIs
    <3>3. Stride(l, sub, dim) \subseteq Upto(dim)
      BY <3>2 DEF Upto
    <3>4. c \in At(b, r * dim, Stride(l, sub, dim)) <=>
            CellOf(b, c) /\ c[2] \div dim = r /\ c[2] % dim \in Stride(l, sub, dim)
      BY <3>3, InRow
    <3>5. c[2] \in Nat => c[2] % dim \in Nat /\ c[2] % dim < dim
      <4>1. ASSUME c[2] \in Nat
            PROVE  c[2] % dim \in Upto(dim)
        BY <4>1, DivisionOf
      <4> QED
        BY <4>1 DEF Upto
    <3>6. CellOf(b, c) => c[2] \in Nat
      BY DEF CellOf
    <3> QED
      BY <3>1, <3>2, <3>4, <3>5, <3>6 DEF OfHead
  <2> QED
    BY <2>1
<1>7. \A i \in grid : \A b, c : c \in turned(i, b) <=> /\ OfHead(c, b, i[1], heads, kv, dim)
                                                 /\ ((c[2] % dim) % half) % sub = i[2]
  <2>1. ASSUME NEW i \in grid, NEW b, NEW c
        PROVE  c \in turned(i, b) <=> /\ OfHead(c, b, i[1], heads, kv, dim)
                                      /\ ((c[2] % dim) % half) % sub = i[2]
    <3>1. PICK r \in Nat, l \in Upto(sub) : r = row(i[1]) /\ l = i[2]
      BY <1>4, <1>5
    <3>2. \A x : x \in RopePairs(l, sub, half) <=> x \in Nat /\ x < dim /\ (x % half) % sub = l
      BY <1>1, RopePairsAre
    <3>3. RopePairs(l, sub, half) \subseteq Upto(dim)
      BY <3>2 DEF Upto
    <3>4. c \in At(b, r * dim, RopePairs(l, sub, half)) <=>
            CellOf(b, c) /\ c[2] \div dim = r /\ c[2] % dim \in RopePairs(l, sub, half)
      BY <3>3, InRow
    <3>5. c[2] \in Nat => c[2] % dim \in Nat /\ c[2] % dim < dim
      <4>1. ASSUME c[2] \in Nat
            PROVE  c[2] % dim \in Upto(dim)
        BY <4>1, DivisionOf
      <4> QED
        BY <4>1 DEF Upto
    <3>6. CellOf(b, c) => c[2] \in Nat
      BY DEF CellOf
    <3> QED
      BY <3>1, <3>2, <3>4, <3>5, <3>6 DEF OfHead
  <2> QED
    BY <2>1
<1>8. \A i, j \in grid : \A a \in copies(i[1]), b \in copies(j[1]) : \A c :
        OfHead(c, a, i[1], heads, kv, dim) /\ OfHead(c, b, j[1], heads, kv, dim) => i[1] = j[1]
  BY <1>4, <1>5, OfHeadApart
<1>9. \A g \in Upto(tokens * n) : HeadName(key(g)) \in copies(g)
  BY <1>4, NameCopied
<1>10. \A b, c, g : OfHead(c, b, g, heads, kv, dim) <=> CellOf(b, c) /\ c[2] \div dim = row(g)
  BY DEF OfHead
<1>11. \A b, c : CellOf(b, c) => IsGlobal(c) /\ c[2] \in Nat /\ c[2] % dim \in Upto(dim)
  BY GlobalCell, DivisionOf DEF CellOf
<1> HIDE DEF grid, own, turned, key, row, copies, k
<1>12. Shares(O, out)
  <2>1. ASSUME NEW i \in grid, NEW c \in O[i]
        PROVE  c \in out
    <3>1. PICK b \in copies(i[1]) : c \in turned(i, b)
      OBVIOUS
    <3>2. CellOf(b, c) /\ c[2] \div dim = row(i[1])
      BY <1>7, <1>10, <3>1
    <3>3. PICK x \in BOOLEAN : x = key(i[1])
      BY <1>4, <1>5
    <3>4. PICK h \in Nat : h = HeadsIn(x, tokens, heads, kv)
      BY <1>4
    <3>5. c[2] \in Nat /\ c[2] \div dim < h
      BY <1>4, <1>5, <1>11, <3>2, <3>3, <3>4
    <3>6. c[2] < h * dim /\ h * dim \in Nat
      BY <3>5, QuotientBelow, ProductNat
    <3>7. c \in At(b, 0, Upto(HeadsIn(x, tokens, heads, kv) * dim))
      BY <3>2, <3>4, <3>6, InArray
    <3>8. b \in HeadCopies(x, halfOut)
      BY <3>1, <3>3 DEF copies
    <3> QED
      BY <3>3, <3>7, <3>8
  <2>2. ASSUME NEW c \in out
        PROVE  \E i \in grid : c \in O[i]
    <3>0. PICK x \in BOOLEAN : c \in all(x)
      OBVIOUS
    <3>1. PICK b \in HeadCopies(x, halfOut) : c \in At(b, 0, Upto(HeadsIn(x, tokens, heads, kv) * dim))
      BY <3>0
    <3>2. PICK h \in Nat : h = HeadsIn(x, tokens, heads, kv)
      BY <1>4
    <3>3. CellOf(b, c) /\ c[2] < h * dim /\ c[2] \in Nat
      <4>1. h * dim \in Nat
        BY ProductNat
      <4> QED
        BY <3>1, <3>2, <4>1, InArray DEF CellOf
    <3>4. c[2] \div dim \in Upto(h)
      <4>1. c[2] \div dim \in Nat
        BY <3>3, DivisionOf
      <4>2. c[2] \div dim < h
        BY <3>3, QuotientBelow
      <4> QED
        BY <4>1, <4>2 DEF Upto
    <3>5. HasHead(x, tokens, heads, kv, c[2] \div dim)
      BY <3>2, <3>4, HeadRowOf
    <3>6. PICK g \in Upto(tokens * n) : g \in Nat /\ key(g) = x /\ row(g) = c[2] \div dim
      <4>1. PICK g \in Upto(tokens * (heads + kv)) :
              g \in Nat /\ (IsKeyHead(g, heads, kv) <=> x) /\ HeadRow(g, heads, kv) = c[2] \div dim
        BY <3>5 DEF HasHead
      <4>2. IsKeyHead(g, heads, kv) \in BOOLEAN
        BY DEF IsKeyHead
      <4> QED
        BY <1>2, <4>1, <4>2 DEF key, row
    <3>7. PICK y \in Nat : y = c[2] % dim
      BY <1>11, <3>3 DEF Upto
    <3>8. y % half \in Nat
      BY DivisionOf DEF Upto
    <3>9. PICK l \in Upto(sub) : l = (y % half) % sub
      BY <3>8, DivisionOf
    <3>10. PICK i \in grid : i = <<g, l>>
      BY <1>2, <3>6, <3>9 DEF grid, Grid
    <3>11. c \in turned(i, b)
      BY <1>7, <1>10, <3>3, <3>6, <3>7, <3>9, <3>10
    <3>12. b \in copies(i[1])
      BY <3>1, <3>6, <3>10 DEF copies
    <3> QED
      BY <3>11, <3>12
  <2>3. ASSUME NEW i \in grid, NEW j \in grid, NEW c, c \in O[i], c \in O[j]
        PROVE  i = j
    <3>1. PICK a \in copies(i[1]), b \in copies(j[1]) : c \in turned(i, a) /\ c \in turned(j, b)
      BY <2>3
    <3>2. OfHead(c, a, i[1], heads, kv, dim) /\ OfHead(c, b, j[1], heads, kv, dim) /\ i[2] = j[2]
      BY <1>7, <3>1
    <3>3. i[1] = j[1]
      BY <1>8, <3>1, <3>2
    <3> QED
      BY <1>5, <3>2, <3>3
  <2>4. DOMAIN O = grid
    OBVIOUS
  <2> HIDE DEF O, out
  <2> QED
    BY <2>1, <2>2, <2>3, <2>4, SharesBy
<1>13. Shares(A, sums)
  <2>1. ASSUME NEW i \in grid, NEW z \in A[i]
        PROVE  z \in sums
    <3>1. z \in Into(<<"ss", i[1]>>, own(i))
      OBVIOUS
    <3>2. own(i) \subseteq At(HeadName(key(i[1])), row(i[1]) * dim, Upto(dim))
      <4>1. \A x : x \in Stride(i[2], sub, dim) => x \in Upto(dim)
        BY <1>5, StrideIs DEF Upto
      <4> QED
        BY <4>1 DEF own, At
    <3>3. z \in Into(<<"ss", i[1]>>, At(HeadName(key(i[1])), row(i[1]) * dim, Upto(dim)))
      BY <3>1, <3>2 DEF Into
    <3> QED
      BY <1>2, <1>5, <3>3
  <2>2. ASSUME NEW z \in sums
        PROVE  \E i \in grid : z \in A[i]
    <3>1. PICK g \in Upto(tokens * n) : z \in Into(<<"ss", g>>, At(HeadName(key(g)), row(g) * dim, Upto(dim)))
      BY <1>2
    <3>2. PICK c \in At(HeadName(key(g)), row(g) * dim, Upto(dim)) : z = <<<<"ss", g>>, c>>
      BY <3>1 DEF Into
    <3>3. PICK r \in Nat : r = row(g)
      BY <1>4
    <3>4. OfHead(c, HeadName(key(g)), g, heads, kv, dim) /\ c[2] \in Nat
      <4>1. CellOf(HeadName(key(g)), c) /\ c[2] \div dim = r
        BY <3>2, <3>3, InWholeRow
      <4> QED
        BY <1>10, <1>11, <3>3, <4>1
    <3>5. PICK l \in Upto(sub) : l = (c[2] % dim) % sub
      <4>1. c[2] % dim \in Nat
        BY <1>10, <1>11, <3>4 DEF Upto
      <4>2. (c[2] % dim) % sub \in Upto(sub)
        BY <4>1, DivisionOf
      <4> QED
        BY <4>2
    <3>6. PICK i \in grid : i = <<g, l>>
      BY <1>2, <3>5 DEF grid, Grid
    <3>7. c \in own(i)
      BY <1>6, <3>4, <3>5, <3>6
    <3> QED
      BY <3>2, <3>6, <3>7 DEF Into
  <2>3. ASSUME NEW i \in grid, NEW j \in grid, NEW z, z \in A[i], z \in A[j]
        PROVE  i = j
    <3>1. z \in Into(<<"ss", i[1]>>, own(i)) /\ z \in Into(<<"ss", j[1]>>, own(j))
      BY <2>3
    <3>2. i[1] = j[1] /\ z[2] \in own(i) /\ z[2] \in own(j)
      BY <3>1 DEF Into
    <3>3. i[2] = j[2]
      BY <1>6, <3>2
    <3> QED
      BY <1>5, <3>2, <3>3
  <2>4. DOMAIN A = grid
    OBVIOUS
  <2> HIDE DEF A, sums
  <2> QED
    BY <2>1, <2>2, <2>3, <2>4, SharesBy
<1>14. InPhases(k, O, A)
  <2>1. /\ Items(k) = grid /\ k.phases = <<d, e>>
        /\ \A i : Wrote(k, i) = d[i].wr \cup e[i].wr /\ Added(k, i) = d[i].add \cup e[i].add
    <3>1. k.phases = <<d, e>>
      BY <1>3 DEF Kernel
    <3>2. DOMAIN d = grid
      OBVIOUS
    <3> HIDE DEF d, e, out, sums
    <3> QED
      BY <1>3, <3>1, <3>2, TwoPhases
  <2>2. \A i \in grid : /\ d[i].rd = own(i) /\ d[i].wr = {} /\ d[i].add = A[i]
                         /\ e[i].rd \subseteq O[i] /\ e[i].wr = O[i] /\ e[i].add = {}
    <3>1. \A i \in grid : HeadName(key(i[1])) \in copies(i[1])
      BY <1>5, <1>9
    <3> QED
      BY <3>1, DoesIs
  <2>3. \A i \in grid : \A c \in O[i] : IsGlobal(c)
    <3>1. ASSUME NEW i \in grid, NEW c \in O[i]
          PROVE  IsGlobal(c)
      <4>1. PICK b \in copies(i[1]) : c \in turned(i, b)
        OBVIOUS
      <4> QED
        BY <1>7, <1>10, <1>11, <4>1
    <3> QED
      BY <3>1
  <2>4. ASSUME NEW i \in grid, NEW j \in grid, NEW c \in own(i)
        PROVE  IsGlobal(c) /\ (c \in O[j] => j[1] = i[1])
    <3>1. OfHead(c, HeadName(key(i[1])), i[1], heads, kv, dim)
      BY <1>6
    <3>2. ASSUME c \in O[j]
          PROVE  j[1] = i[1]
      <4>1. PICK b \in copies(j[1]) : c \in turned(j, b)
        BY <3>2
      <4>2. OfHead(c, b, j[1], heads, kv, dim)
        BY <1>7, <4>1
      <4>3. HeadName(key(i[1])) \in copies(i[1])
        BY <1>5, <1>9
      <4> QED
        BY <1>8, <3>1, <4>1, <4>2, <4>3
    <3> QED
      BY <1>10, <1>11, <3>1, <3>2
  <2>5. DOMAIN O = grid /\ DOMAIN A = grid
    OBVIOUS
  <2>6. \A i, j \in grid : \A c : c \in O[i] /\ c \in O[j] => i = j
    <3> HIDE DEF O
    <3> QED
      BY <1>12, <2>5 DEF Shares
  <2> HIDE DEF d, e, O, A
  <2> QED
    <3>1. DOMAIN k.phases = 1..2 /\ k.phases[1] = d /\ k.phases[2] = e
      BY <2>1
    <3>2. \A p \in 1..2 : p = 1 \/ p = 2
      OBVIOUS
    <3>3. \A i \in Items(k) : Added(k, i) = A[i] /\ \A c \in O[i] : IsGlobal(c) /\ c \in Wrote(k, i)
      BY <2>1, <2>2, <2>3
    <3>4. \A i \in Items(k) : \A c :
             /\ c \notin d[i].wr
             /\ c \in e[i].wr => c \in O[i]
             /\ c \in d[i].rd => IsGlobal(c) /\ \A j \in Items(k) : c \in O[j] => j[1] = i[1]
             /\ c \in e[i].rd => IsGlobal(c) /\ \A j \in Items(k) : c \in O[j] => j[1] = i[1]
      <4>1. \A i \in grid : d[i].wr = {} /\ e[i].wr = O[i]
        BY <2>2
      <4>2. ASSUME NEW i \in grid, NEW c, NEW j \in grid, c \in e[i].rd
            PROVE  IsGlobal(c) /\ (c \in O[j] => j[1] = i[1])
        <5>1. c \in O[i]
          BY <2>2, <4>2
        <5> QED
          BY <2>3, <2>6, <5>1
      <4>3. ASSUME NEW i \in grid, NEW c, NEW j \in grid, c \in d[i].rd
            PROVE  IsGlobal(c) /\ (c \in O[j] => j[1] = i[1])
        BY <2>2, <2>4, <4>3
      <4> QED
        BY <2>1, <4>1, <4>2, <4>3
    <3>5. \A i, j \in Items(k) : \A c : i # j /\ c \in e[i].wr => c \notin e[j].rd /\ c \notin e[j].wr
      BY <2>1, <2>2, <2>6
    <3> QED
      BY <2>1, <2>5, <3>1, <3>2, <3>3, <3>4, <3>5 DEF InPhases
<1>15. k.out = out /\ k.sums = sums
  <2> HIDE DEF d, e, out, sums
  <2> QED
    BY <1>3, TwoPhases
<1> HIDE DEF O, A, out, sums
<1>16. KernelRight(k)
  BY <1>12, <1>13, <1>14, <1>15, PhasesRight
<1> QED
  BY <1>1, <1>16 DEF k

-----------------------------------------------------------------------------
(* mrope                                                                    *)

\* The sections a pair is in by their widths: from one bound to the next.
SectionsOf(p, widths) == {s \in DOMAIN widths : SumOf(widths, s - 1) <= p /\ p < SumOf(widths, s)}

Sectioned(widths, embed) ==
    /\ widths \in Seq(Nat) /\ Len(widths) \in 1..3
    /\ embed <= SumOf(widths, Len(widths))

LEMMA SumsGrow ==
    ASSUME NEW widths \in Seq(Nat), Len(widths) \in 1..3
    PROVE  /\ SumOf(widths, 0) = 0
           /\ \A s \in 0..Len(widths) : SumOf(widths, s) \in Nat
           /\ \A s, t \in 0..Len(widths) : s <= t => SumOf(widths, s) <= SumOf(widths, t)
<1>0. \A s \in 1..Len(widths) : widths[s] \in Nat
  OBVIOUS
<1>1. CASE Len(widths) = 1
  <2>0. widths[1] \in Nat
    BY <1>0, <1>1
  <2>1. PICK a \in Nat : a = widths[1]
    BY <2>0
  <2>2. \A s \in 0..1 : SumOf(widths, s) = IF s = 0 THEN 0 ELSE a
    BY <1>1, <2>1 DEF SumOf
  <2> QED
    BY <1>1, <2>2
<1>2. CASE Len(widths) = 2
  <2>0. widths[1] \in Nat /\ widths[2] \in Nat
    BY <1>0, <1>2
  <2>1. PICK a \in Nat, b \in Nat : a = widths[1] /\ b = widths[2]
    BY <2>0
  <2>2. \A s \in 0..2 : SumOf(widths, s) = IF s = 0 THEN 0 ELSE IF s = 1 THEN a ELSE a + b
    BY <1>2, <2>1 DEF SumOf
  <2> QED
    BY <1>2, <2>2
<1>3. CASE Len(widths) = 3
  <2>0. widths[1] \in Nat /\ widths[2] \in Nat /\ widths[3] \in Nat
    BY <1>0, <1>3
  <2>1. PICK a \in Nat, b \in Nat, c \in Nat : a = widths[1] /\ b = widths[2] /\ c = widths[3]
    BY <2>0
  <2>2. \A s \in 0..3 : SumOf(widths, s) = IF s = 0 THEN 0 ELSE IF s = 1 THEN a ELSE IF s = 2 THEN a + b ELSE a + b + c
    BY <1>3, <2>1 DEF SumOf
  <2> QED
    BY <1>3, <2>2
<1> QED
  BY <1>1, <1>2, <1>3

LEMMA OneSection ==
    ASSUME NEW embed \in Nat, NEW widths, Sectioned(widths, embed), NEW p \in Upto(embed)
    PROVE  SectionsOf(p, widths) = {MropeSection(p, widths)}
<1> DEFINE U == [s \in 0..Len(widths) |-> SumOf(widths, s)]
           covering == {s \in DOMAIN widths : p < SumOf(widths, s)}
           m == CHOOSE s \in covering : \A o \in covering : s <= o
<1>1. PICK L \in Nat : L = Len(widths) /\ L \in 1..3 /\ DOMAIN widths = 1..L /\ p \in Nat
  <2>1. Len(widths) \in 1..3 /\ widths \in Seq(Nat)
    BY DEF Sectioned
  <2>2. Len(widths) \in Nat /\ DOMAIN widths = 1..Len(widths) /\ p \in Nat
    BY <2>1 DEF Upto
  <2> QED
    BY <2>1, <2>2
<1>3. \A s \in 0..L : U[s] = SumOf(widths, s)
  BY <1>1
<1>2. U[0] = 0 /\ (\A s \in 0..L : U[s] \in Nat) /\ \A s, t \in 0..L : s <= t => U[s] <= U[t]
  <2>1. widths \in Seq(Nat) /\ Len(widths) \in 1..3 /\ 0 \in 0..L
    BY <1>1 DEF Sectioned
  <2> HIDE DEF U
  <2> QED
    BY <1>1, <1>3, <2>1, SumsGrow
<1>4. p < U[L]
  <2>1. p < embed
    BY <1>1 DEF Upto
  <2>2. embed <= U[L]
    BY <1>1, <1>3 DEF Sectioned
  <2>3. U[L] \in Nat
    BY <1>1, <1>2
  <2> HIDE DEF U
  <2> QED
    BY <1>1, <2>1, <2>2, <2>3
<1>5. /\ \A s : s \in covering <=> s \in 1..L /\ p < U[s]
      /\ \A s : s \in SectionsOf(p, widths) <=> s \in 1..L /\ U[s - 1] <= p /\ p < U[s]
  BY <1>1, <1>3 DEF SectionsOf
<1>6. m \in covering /\ \A o \in covering : m <= o
  <2>1. covering \in SUBSET Nat /\ covering # {}
    BY <1>1, <1>4, <1>5
  <2> QED
    BY <2>1, LeastOf
<1>7. m = MropeSection(p, widths)
  BY <1>6 DEF MropeSection
<1> HIDE DEF U, covering, m
<1>8. m \in SectionsOf(p, widths)
  <2>1. m \in 1..L /\ p < U[m]
    BY <1>5, <1>6
  <2>2. U[m - 1] <= p
    <3>1. CASE m = 1
      BY <1>1, <1>2, <3>1
    <3>2. CASE m # 1
      <4>1. m - 1 \in 1..L /\ m - 1 < m
        BY <1>1, <2>1, <3>2
      <4>2. m - 1 \notin covering
        BY <1>1, <1>6, <2>1, <4>1
      <4>3. ~(p < U[m - 1]) /\ U[m - 1] \in Nat
        BY <1>1, <1>2, <1>5, <4>1, <4>2
      <4> QED
        BY <1>1, <4>3
    <3> QED
      BY <3>1, <3>2
  <2> QED
    BY <1>5, <2>1, <2>2
<1>9. ASSUME NEW s \in SectionsOf(p, widths)
      PROVE  s = m
  <2>1. s \in 1..L /\ m \in 1..L /\ U[s - 1] <= p /\ p < U[s] /\ p < U[m]
    BY <1>5, <1>6
  <2>2. m <= s
    BY <1>5, <1>6, <2>1
  <2>3. ASSUME m < s
        PROVE  FALSE
    <3>1. m \in 0..L /\ s - 1 \in 0..L /\ m <= s - 1
      BY <1>1, <2>1, <2>3
    <3>2. U[m] <= U[s - 1] /\ U[m] \in Nat /\ U[s - 1] \in Nat
      BY <1>2, <3>1
    <3> QED
      BY <1>1, <2>1, <3>2
  <2> QED
    BY <1>1, <2>1, <2>2, <2>3
<1> QED
  BY <1>7, <1>8, <1>9

PairOf(x, embed, neox) == IF neox THEN x % embed ELSE x \div 2

LEMMA MropePairIs ==
    ASSUME NEW embed \in Nat \ {0}, NEW p \in Upto(embed), NEW neox \in BOOLEAN, NEW x
    PROVE  x \in MropePair(p, embed, neox) <=> x \in Nat /\ x < 2 * embed /\ PairOf(x, embed, neox) = p
<1>1. p \in Nat /\ p < embed
  BY DEF Upto
<1>2. ASSUME neox
      PROVE  x \in {p, p + embed} <=> x \in Nat /\ x < 2 * embed /\ x % embed = p
  <2>1. (0 * embed + p) % embed = p /\ (1 * embed + p) % embed = p
    BY DivisionUnique
  <2>2. 0 * embed + p = p /\ 1 * embed + p = p + embed
    BY <1>1
  <2>3. p % embed = p /\ (p + embed) % embed = p
    BY <2>1, <2>2
  <2>4. ASSUME x \in Nat, x < 2 * embed, x % embed = p
        PROVE  x = p \/ x = p + embed
    <3>1. x \div embed \in Nat /\ x = (x \div embed) * embed + p
      BY <2>4, DivisionOf
    <3>2. x \div embed < 2
      BY <2>4, QuotientBelow
    <3>3. PICK q \in {0, 1} : q = x \div embed
      BY <3>1, <3>2
    <3>4. x = 0 * embed + p \/ x = 1 * embed + p
      BY <3>1, <3>3
    <3> QED
      BY <2>2, <3>4
  <2> QED
    BY <1>1, <2>3, <2>4
<1>3. x \in {2 * p, 2 * p + 1} <=> x \in Nat /\ x < 2 * embed /\ x \div 2 = p
  BY <1>1
<1> QED
  BY <1>2, <1>3 DEF MropePair, PairOf

RotName(key) == IF key THEN "k" ELSE "q"

RotPart(key, tokens, heads, kv, size, rot) ==
    {<<RotName(key), e>> : e \in {x \in Upto(tokens * (IF key THEN kv ELSE heads) * size) : x % size < rot}}

\* A cell of the pair p of head g, in the part of the head that is rotated.
InPair(c, g, p, heads, kv, size, embed, neox) ==
    /\ OfHead(c, RotName(IsKeyHead(g, heads, kv)), g, heads, kv, size)
    /\ c[2] % size < 2 * embed /\ PairOf(c[2] % size, embed, neox) = p

LEMMA InPairIs ==
    ASSUME NEW g, NEW heads, NEW kv, NEW size \in Nat \ {0}, NEW embed \in Nat \ {0}, 2 * embed <= size,
           NEW neox \in BOOLEAN, NEW p \in Upto(embed), HeadRow(g, heads, kv) \in Nat, NEW c
    PROVE  /\ c \in At(RotName(IsKeyHead(g, heads, kv)), HeadRow(g, heads, kv) * size, MropePair(p, embed, neox))
                <=> InPair(c, g, p, heads, kv, size, embed, neox)
           /\ InPair(c, g, p, heads, kv, size, embed, neox) => IsGlobal(c)
<1>1. PICK r \in Nat, b \in {RotName(IsKeyHead(g, heads, kv))} : r = HeadRow(g, heads, kv) /\ b = RotName(IsKeyHead(g, heads, kv))
  OBVIOUS
<1>2. \A x : x \in MropePair(p, embed, neox) <=> x \in Nat /\ x < 2 * embed /\ PairOf(x, embed, neox) = p
  BY MropePairIs
<1>3. MropePair(p, embed, neox) \subseteq Upto(size)
  BY <1>2 DEF Upto
<1>4. c \in At(b, r * size, MropePair(p, embed, neox)) <=>
        CellOf(b, c) /\ c[2] \div size = r /\ c[2] % size \in MropePair(p, embed, neox)
  BY <1>3, InRow
<1>5. ASSUME CellOf(b, c)
      PROVE  c[2] % size \in Nat /\ IsGlobal(c)
  <2>1. c[2] \in Nat /\ IsGlobal(c)
    BY <1>5, GlobalCell DEF CellOf
  <2>2. c[2] % size \in Upto(size)
    BY <2>1, DivisionOf
  <2> QED
    BY <2>1, <2>2 DEF Upto
<1> QED
  BY <1>1, <1>2, <1>4, <1>5 DEF InPair, OfHead

\* mrope: every pair of every query and key head is rotated once, by the
\* position of the one section the pair is in.
THEOREM MropeRight ==
    ASSUME NEW tokens \in Nat, NEW heads \in Nat \ {0}, NEW kv \in Nat \ {0}, NEW size \in Nat \ {0},
           NEW embed \in Nat \ {0}, 2 * embed <= size, NEW widths, Sectioned(widths, embed), NEW neox \in BOOLEAN
    PROVE  KernelRight(Mrope(tokens, heads, kv, size, 2 * embed, widths, neox))
<1> DEFINE total == heads + kv
           n == tokens * total * embed
           items == Flat(n)
           g(e) == e \div embed
           p(e) == e % embed
           key(h) == IsKeyHead(h, heads, kv)
           pos(e) == {<<"positions", (MropeSection(p(e), widths) - 1) * tokens + (g(e) \div total)>>}
           own(e) == At(RotName(key(g(e))), HeadRow(g(e), heads, kv) * size, MropePair(p(e), embed, neox))
           O == [i \in items |-> own(i[1])]
           A == [i \in items |-> Into(<<"angle", i[1]>>, pos(i[1]))]
           d == [i \in items |-> Does(own(i[1]) \cup pos(i[1]), own(i[1]), Into(<<"angle", i[1]>>, pos(i[1])))]
           part(x) == RotPart(x, tokens, heads, kv, size, 2 * embed)
           out == part(FALSE) \cup part(TRUE)
           due(e) == {<<"positions", (s - 1) * tokens + (g(e) \div total)>> : s \in SectionsOf(p(e), widths)}
           sums == UNION {Into(<<"angle", i[1]>>, due(i[1])) : i \in items}
           k == Mrope(tokens, heads, kv, size, 2 * embed, widths, neox)
<1>1. k = Kernel(<<d>>, out, sums)
  <2>0. (2 * embed) \div 2 = embed
    OBVIOUS
  <2> DEFINE by(q) ==
        LET token(i) == (i[1] \div q) \div total
            head(i) == (i[1] \div q) % total
            ow(i) == LET pair == MropePair(i[1] % q, q, neox)
                     IN  IF head(i) < heads THEN At("q", (token(i) * heads + head(i)) * size, pair)
                         ELSE At("k", (token(i) * kv + head(i) - heads) * size, pair)
            ps(i) == {<<"positions", (MropeSection(i[1] % q, widths) - 1) * tokens + token(i)>>}
            does(i) == Does(ow(i) \cup ps(i), ow(i), Into(<<"angle", i[1]>>, ps(i)))
            rotated(buffer, m) == {<<buffer, e>> : e \in {x \in Upto(tokens * m * size) : x % size < 2 * embed}}
            sections(pp) == {s \in DOMAIN widths : SumOf(widths, s - 1) <= pp /\ pp < SumOf(widths, s)}
            its == Flat(tokens * total * q)
        IN  Kernel(<<[i \in its |-> does(i)]>>, rotated("q", heads) \cup rotated("k", kv),
                   UNION {Into(<<"angle", i[1]>>, {<<"positions", (s - 1) * tokens + token(i)>> :
                                                     s \in sections(i[1] % q)}) : i \in its})
  <2>1. k = by((2 * embed) \div 2)
    BY DEF Mrope
  <2> HIDE DEF by, k
  <2>2. k = by(embed)
    BY <2>0, <2>1
  <2> USE DEF by
  <2> DEFINE head(i) == g(i[1]) % total
             token(i) == g(i[1]) \div total
             ow(i) == IF head(i) < heads
                      THEN At("q", (token(i) * heads + head(i)) * size, MropePair(p(i[1]), embed, neox))
                      ELSE At("k", (token(i) * kv + head(i) - heads) * size, MropePair(p(i[1]), embed, neox))
             does(i) == Does(ow(i) \cup pos(i[1]), ow(i), Into(<<"angle", i[1]>>, pos(i[1])))
             rotated(buffer, m) == {<<buffer, e>> : e \in {x \in Upto(tokens * m * size) : x % size < 2 * embed}}
  <2>3. k = Kernel(<<[i \in items |-> does(i)]>>, rotated("q", heads) \cup rotated("k", kv), sums)
    BY <2>2 DEF SectionsOf
  <2> HIDE DEF by
  <2>4. rotated("q", heads) = part(FALSE) /\ rotated("k", kv) = part(TRUE)
    BY DEF RotPart, RotName
  <2>5. ASSUME NEW i \in items
        PROVE  ow(i) = own(i[1])
    <3>1. head(i) \in Int /\ heads \in Int
      <4>1. i[1] \in Nat
        BY FlatItems
      <4>2. i[1] \div embed \in Nat
        BY <4>1, DivisionOf
      <4>3. PICK y \in Nat, t \in Nat \ {0} : y = i[1] \div embed /\ t = total
        BY <4>2
      <4>4. y % t \in Upto(t)
        BY DivisionOf
      <4>5. y % t \in Int
        BY <4>4 DEF Upto
      <4> QED
        BY <4>3, <4>5
    <3>2. key(g(i[1])) <=> ~(head(i) < heads)
      BY <3>1 DEF IsKeyHead
    <3>3. HeadRow(g(i[1]), heads, kv) = IF head(i) < heads THEN token(i) * heads + head(i)
                                        ELSE token(i) * kv + head(i) - heads
      BY <3>1 DEF HeadRow
    <3> HIDE DEF g, p, head, token, key
    <3>4. RotName(key(g(i[1]))) = IF head(i) < heads THEN "q" ELSE "k"
      BY <3>2 DEF RotName
    <3> QED
      BY <3>3, <3>4
  <2> HIDE DEF ow, own, pos, part, rotated, sums, items
  <2>6. [i \in items |-> does(i)] = d
    BY <2>5
  <2> HIDE DEF d, does
  <2> QED
    BY <2>3, <2>4, <2>6
<1>2. n \in Nat /\ tokens * total \in Nat
  <2>1. PICK x \in Nat : x = tokens * total
    BY ProductNat
  <2> QED
    BY <2>1, ProductNat
<1>3. \A e \in Upto(n) : /\ e \in Nat /\ g(e) \in Nat /\ g(e) < tokens * total /\ p(e) \in Upto(embed)
                         /\ e = g(e) * embed + p(e)
  <2>1. ASSUME NEW e \in Upto(n)
        PROVE  /\ e \in Nat /\ g(e) \in Nat /\ g(e) < tokens * total /\ p(e) \in Upto(embed)
               /\ e = g(e) * embed + p(e)
    <3>1. PICK x \in Nat : x = tokens * total
      BY <1>2
    <3>2. e \in Nat /\ e < x * embed
      BY <1>2, <3>1 DEF Upto
    <3>3. e \div embed < x
      BY <3>2, QuotientBelow
    <3> QED
      BY <3>1, <3>2, <3>3, DivisionOf
  <2> QED
    BY <2>1
<1>4. \A h \in Nat : h < tokens * total => /\ key(h) \in BOOLEAN /\ HeadRow(h, heads, kv) \in Nat
                                           /\ HeadRow(h, heads, kv) < HeadsIn(key(h), tokens, heads, kv)
  <2>1. ASSUME NEW h \in Nat, h < tokens * (heads + kv)
        PROVE  /\ key(h) \in BOOLEAN /\ HeadRow(h, heads, kv) \in Nat
               /\ HeadRow(h, heads, kv) < HeadsIn(key(h), tokens, heads, kv)
    <3>1. HeadsIn(TRUE, tokens, heads, kv) \in Nat /\ HeadsIn(FALSE, tokens, heads, kv) \in Nat
      BY ProductNat DEF HeadsIn
    <3>2. key(h) \in BOOLEAN
      BY DEF IsKeyHead
    <3>3. HeadRow(h, heads, kv) \in Upto(HeadsIn(key(h), tokens, heads, kv))
      BY <2>1, HeadRowIs
    <3>4. HeadsIn(key(h), tokens, heads, kv) \in Nat
      BY <3>1, <3>2
    <3> HIDE DEF key
    <3> QED
      BY <3>2, <3>3, <3>4 DEF Upto
  <2> QED
    BY <2>1
<1>5. \A e \in Upto(n) : \A c : /\ c \in own(e) <=> InPair(c, g(e), p(e), heads, kv, size, embed, neox)
                                /\ c \in own(e) => IsGlobal(c)
  <2>1. ASSUME NEW e \in Upto(n), NEW c
        PROVE  /\ c \in own(e) <=> InPair(c, g(e), p(e), heads, kv, size, embed, neox)
               /\ c \in own(e) => IsGlobal(c)
    <3>1. p(e) \in Upto(embed) /\ HeadRow(g(e), heads, kv) \in Nat
      BY <1>3, <1>4
    <3> HIDE DEF p, g
    <3> QED
      BY <3>1, InPairIs
  <2> QED
    BY <2>1
<1>6. \A i \in items : i[1] \in Upto(n) /\ i = <<i[1], 0>>
  BY FlatItems
<1>7. \A e \in Upto(n) : \A c : c \in own(e) => CellOf(RotName(key(g(e))), c)
  BY <1>5 DEF InPair, OfHead
<1> HIDE DEF own, n, p, items, k
<1>8. ASSUME NEW a \in Upto(n), NEW b \in Upto(n), NEW c, c \in own(a), c \in own(b)
      PROVE  a = b
  <2>1. /\ InPair(c, g(a), p(a), heads, kv, size, embed, neox)
        /\ InPair(c, g(b), p(b), heads, kv, size, embed, neox)
    BY <1>5, <1>8
  <2>2. PICK x \in Nat, y \in Nat : x = g(a) /\ y = g(b) /\ x < tokens * total /\ y < tokens * total
    BY <1>3
  <2>3. RotName(key(x)) = RotName(key(y)) /\ HeadRow(x, heads, kv) = HeadRow(y, heads, kv) /\ p(a) = p(b)
    BY <2>1, <2>2 DEF InPair, OfHead, CellOf
  <2>4. key(x) <=> key(y)
    BY <2>3 DEF RotName
  <2>5. x = y
    BY <2>3, <2>4, HeadRowApart
  <2> QED
    BY <1>3, <2>2, <2>3, <2>5
<1>9. \A x \in BOOLEAN : \A c : c \in part(x) <=> /\ CellOf(RotName(x), c) /\ c[2] % size < 2 * embed
                                                 /\ c[2] \div size < HeadsIn(x, tokens, heads, kv)
  <2>1. ASSUME NEW x \in BOOLEAN, NEW c
        PROVE  c \in part(x) <=> /\ CellOf(RotName(x), c) /\ c[2] % size < 2 * embed
                                 /\ c[2] \div size < HeadsIn(x, tokens, heads, kv)
    <3>1. PICK h \in Nat : h = HeadsIn(x, tokens, heads, kv) /\ h = tokens * (IF x THEN kv ELSE heads)
      BY ProductNat DEF HeadsIn
    <3>2. h * size \in Nat
      BY ProductNat
    <3>3. c \in part(x) <=> \E e \in Upto(h * size) : e % size < 2 * embed /\ c = <<RotName(x), e>>
      BY <3>1 DEF RotPart
    <3>4. \A e : e \in Upto(h * size) <=> e \in Nat /\ e < h * size
      BY <3>2 DEF Upto
    <3>5. \A e \in Nat : e < h * size <=> e \div size < h
      BY QuotientBelow
    <3> HIDE DEF part
    <3> QED
      BY <3>1, <3>3, <3>4, <3>5 DEF CellOf
  <2> QED
    BY <2>1
<1> HIDE DEF part
<1>10. Shares(O, out)
  <2>1. ASSUME NEW i \in items, NEW c \in O[i]
        PROVE  c \in out
    <3>1. c \in own(i[1]) /\ i[1] \in Upto(n)
      BY <1>6
    <3>2. PICK h \in Nat : h = g(i[1]) /\ h < tokens * total
      BY <1>3, <3>1
    <3>3. InPair(c, h, p(i[1]), heads, kv, size, embed, neox)
      BY <1>5, <3>1, <3>2
    <3>4. c \in part(key(h))
      BY <1>4, <1>9, <3>2, <3>3 DEF InPair, OfHead
    <3> QED
      BY <1>4, <3>2, <3>4
  <2>2. ASSUME NEW c \in out
        PROVE  \E i \in items : c \in O[i]
    <3>1. PICK x \in BOOLEAN : c \in part(x)
      OBVIOUS
    <3>2. PICK h \in Nat : h = HeadsIn(x, tokens, heads, kv)
      BY ProductNat DEF HeadsIn
    <3>3. PICK e \in Nat : c = <<RotName(x), e>> /\ c[2] = e /\ e % size < 2 * embed /\ e \div size < h
      BY <1>9, <3>1, <3>2 DEF CellOf
    <3>4. e \div size \in Upto(h)
      <4>1. e \div size \in Nat
        BY DivisionOf
      <4> QED
        BY <3>3, <4>1 DEF Upto
    <3>5. HasHead(x, tokens, heads, kv, e \div size)
      BY <3>2, <3>4, HeadRowOf
    <3>6. PICK q \in Nat : q < tokens * total /\ key(q) = x /\ HeadRow(q, heads, kv) = e \div size
      <4>1. PICK q \in Upto(tokens * (heads + kv)) :
              q \in Nat /\ (IsKeyHead(q, heads, kv) <=> x) /\ HeadRow(q, heads, kv) = e \div size
        BY <3>5 DEF HasHead
      <4>2. IsKeyHead(q, heads, kv) \in BOOLEAN
        BY DEF IsKeyHead
      <4>3. q < tokens * total
        BY <1>2, <4>1 DEF Upto
      <4> QED
        BY <4>1, <4>2, <4>3
    <3>7. PICK y \in Nat : y = e % size /\ y < 2 * embed
      <4>1. e % size \in Upto(size)
        BY DivisionOf
      <4> QED
        BY <3>3, <4>1 DEF Upto
    <3>8. PICK r \in Upto(embed) : r = PairOf(y, embed, neox)
      <4>1. y % embed \in Upto(embed)
        BY DivisionOf
      <4>2. y \div 2 \in Upto(embed)
        BY <3>7 DEF Upto
      <4> QED
        BY <4>1, <4>2 DEF PairOf
    <3>9. PICK w \in Nat : w = q * embed + r /\ w \div embed = q /\ w % embed = r
      BY DivisionUnique, ZenonT(40)
    <3>10. w \in Upto(n)
      <4>1. PICK z \in Nat : z = tokens * total
        BY <1>2
      <4>2. w < z * embed
        BY <3>6, <3>9, <4>1, QuotientBelow
      <4> QED
        BY <1>2, <4>1, <4>2 DEF n, Upto
    <3>11. InPair(c, g(w), p(w), heads, kv, size, embed, neox)
      BY <3>3, <3>6, <3>7, <3>8, <3>9 DEF InPair, OfHead, CellOf, p
    <3>12. c \in own(w)
      BY <1>5, <3>10, <3>11
    <3>13. PICK i \in items : i[1] = w
      BY <3>10, ItemOf DEF items
    <3> QED
      BY <3>12, <3>13
  <2>3. ASSUME NEW i \in items, NEW j \in items, NEW c, c \in O[i], c \in O[j]
        PROVE  i = j
    <3>1. c \in own(i[1]) /\ c \in own(j[1])
      BY <2>3
    <3>2. i[1] = j[1]
      BY <1>6, <1>8, <3>1
    <3> QED
      BY <1>6, <3>2
  <2>4. DOMAIN O = items
    OBVIOUS
  <2> HIDE DEF O, out
  <2> QED
    BY <2>1, <2>2, <2>3, <2>4, SharesBy
<1>11. Shares(A, sums)
  <2> DEFINE C == [e \in Upto(n) |-> <<"angle", e>>]
             T == [e \in Upto(n) |-> pos(e)]
             L == Upto(n)
  <2>1. DOMAIN A = Flat(n) /\ \A i \in Flat(n) : A[i] = IF i[1] \in L THEN Into(C[i[1]], T[i[1]]) ELSE {}
    BY FlatItems DEF items
  <2>2. \A a, b \in L : C[a] = C[b] => a = b
    OBVIOUS
  <2>3. \A e \in Upto(n) : due(e) = pos(e)
    <3>1. ASSUME NEW e \in Upto(n)
          PROVE  due(e) = pos(e)
      <4>1. SectionsOf(p(e), widths) = {MropeSection(p(e), widths)}
        BY <1>3, OneSection
      <4> QED
        BY <4>1
    <3> QED
      BY <3>1
  <2>4. \A z : z \in sums <=> \E e \in L : z \in Into(C[e], T[e])
    <3>1. ASSUME NEW z \in sums
          PROVE  \E e \in L : z \in Into(C[e], T[e])
      <4>1. PICK i \in items : z \in Into(<<"angle", i[1]>>, due(i[1]))
        OBVIOUS
      <4> QED
        BY <1>6, <2>3, <4>1
    <3>2. ASSUME NEW z, NEW e \in L, z \in Into(C[e], T[e])
          PROVE  z \in sums
      <4>1. PICK i \in items : i[1] = e
        BY ItemOf DEF items
      <4>2. z \in Into(<<"angle", i[1]>>, due(i[1]))
        BY <2>3, <3>2, <4>1
      <4> QED
        BY <4>2
    <3> QED
      BY <3>1, <3>2
  <2> HIDE DEF A, C, T, L, sums
  <2>5. NumberedSums(A, n, L, C, T, sums)
    BY <2>1, <2>2, <2>4 DEF NumberedSums, L
  <2> QED
    BY <2>5, SumsShared
<1>12. /\ DOMAIN d = items /\ DOMAIN O = items /\ DOMAIN A = items
       /\ \A i \in items : /\ O[i] = own(i[1]) /\ d[i].wr = O[i] /\ d[i].add = A[i]
                           /\ d[i].rd = own(i[1]) \cup pos(i[1])
  BY DoesIs
<1>13. \A e : \A c \in pos(e) : IsGlobal(c) /\ c[1] = "positions"
  BY GlobalCell
<1>14. \A e \in Upto(n) : \A c \in own(e) : IsGlobal(c) /\ c[1] # "positions"
  BY <1>5, <1>7 DEF CellOf, RotName
<1> HIDE DEF d, O, A, out, sums, pos
<1>15. \A i \in items : \A c \in d[i].rd \cup O[i] : IsGlobal(c)
  BY <1>6, <1>12, <1>13, <1>14
<1>16. ASSUME NEW i \in items, NEW j \in items, NEW c, c \in O[i], c \in d[j].rd
       PROVE  i = j
  <2>1. c \in own(i[1]) /\ c[1] # "positions" /\ i[1] \in Upto(n) /\ j[1] \in Upto(n)
    BY <1>6, <1>12, <1>14, <1>16
  <2>2. c \in own(j[1])
    BY <1>12, <1>13, <1>16, <2>1
  <2>3. i[1] = j[1]
    BY <1>8, <2>1, <2>2
  <2> QED
    BY <1>6, <2>3
<1>17. KernelRight(k)
  <2>1. \A i \in DOMAIN d : d[i].wr = O[i] /\ d[i].add = A[i] /\ \A c \in d[i].rd \cup O[i] : IsGlobal(c)
    BY <1>12, <1>15
  <2>2. \A i, j \in DOMAIN d : \A c : c \in O[i] /\ c \in d[j].rd => i = j
    BY <1>12, <1>16
  <2>3. DOMAIN O = DOMAIN d /\ DOMAIN A = DOMAIN d
    BY <1>12
  <2> QED
    BY <1>1, <1>10, <1>11, <2>1, <2>2, <2>3, OneRight
<1> QED
  BY <1>17 DEF k

-----------------------------------------------------------------------------
(* hadamard                                                                 *)

LEMMA PassCount ==
    ASSUME NEW n \in Nat
    PROVE  Cardinality(HadamardPasses(n)) \in 0..4
<1>0. IsFiniteSet({1}) /\ Cardinality({1}) = 1
  BY FS_Singleton
<1>1. IsFiniteSet({1, 2}) /\ Cardinality({1, 2}) = 2
  <2>1. {1, 2} = {1} \cup {2} /\ 2 \notin {1}
    OBVIOUS
  <2> QED
    BY <1>0, <2>1, FS_AddElement
<1>2. IsFiniteSet({1, 2, 4}) /\ Cardinality({1, 2, 4}) = 3
  <2>1. {1, 2, 4} = {1, 2} \cup {4} /\ 4 \notin {1, 2}
    OBVIOUS
  <2> QED
    BY <1>1, <2>1, FS_AddElement
<1>3. IsFiniteSet({1, 2, 4, 8}) /\ Cardinality({1, 2, 4, 8}) = 4
  <2>1. {1, 2, 4, 8} = {1, 2, 4} \cup {8} /\ 8 \notin {1, 2, 4}
    OBVIOUS
  <2> QED
    BY <1>2, <2>1, FS_AddElement
<1>4. HadamardPasses(n) \subseteq {1, 2, 4, 8}
  BY DEF HadamardPasses
<1>5. Cardinality(HadamardPasses(n)) <= 4 /\ IsFiniteSet(HadamardPasses(n))
  BY <1>3, <1>4, FS_Subset
<1> QED
  BY <1>5, FS_CardinalityType

\* hadamard: the butterflies of a pass are apart, the lanes of a row load and
\* store it between them.
THEOREM HadamardRight ==
    ASSUME NEW rows \in Nat, NEW n \in Nat \ {0}
    PROVE  KernelRight(Hadamard(rows, n))
<1> DEFINE grid == Grid(rows, RowLanes)
           sm(i, S) == {<<"sm", e, i[1]>> : e \in S}
           els(i) == Elems(i[2], n)
           pairs(i, s) == sm(i, Butterflies(i[2], s, n) \cup {b + s : b \in Butterflies(i[2], s, n)})
           pass(s) == [i \in grid |-> Does(pairs(i, s), pairs(i, s), {})]
           load == [i \in grid |-> Does(At("x", i[1] * n, els(i)), sm(i, els(i)), {})]
           store == [i \in grid |-> Does(sm(i, els(i)), At("x", i[1] * n, els(i)), {})]
           steps == Cardinality(HadamardPasses(n))
           mid == [p \in 1..steps |-> pass(2 ^ (p - 1))]
           ph == <<load>> \o mid \o <<store>>
           k == Hadamard(rows, n)
           E == [lane \in Upto(RowLanes) |-> Elems(lane, n)]
           O == Mine("x", E, n, rows, RowLanes)
           A == [i \in grid |-> {}]
<1>1. k.phases = ph /\ k.out = At("x", 0, Upto(rows * n)) /\ k.sums = {}
  BY DEF Hadamard, Kernel
<1>2. steps \in Nat /\ \A p \in 1..steps : 2 ^ (p - 1) \in Nat \ {0}
  <2>1. steps \in 0..4
    BY PassCount
  <2> HIDE DEF steps
  <2>2. \A p \in 1..steps : p \in 1..4
    BY <2>1
  <2>3. \A p \in 1..steps : 2 ^ (p - 1) \in Nat \ {0}
    BY <2>2, PassDistance
  <2>4. steps \in Nat
    BY <2>1
  <2> QED
    BY <2>3, <2>4
<1> HIDE DEF steps, k
<1>3. mid = [p \in 1..steps |-> mid[p]]
  OBVIOUS
<1>4. Frames(ph, load, mid, store, steps)
  <2> HIDE DEF load, mid, store
  <2> QED
    BY <1>2, <1>3, Framed
<1>5. \A p \in 1..steps : mid[p] = pass(2 ^ (p - 1))
  OBVIOUS
<1>6. /\ DOMAIN ph = 1..(steps + 2) /\ ph[1] = load /\ ph[steps + 2] = store
      /\ \A p \in DOMAIN ph : p = 1 \/ p = steps + 2 \/ \E s \in Nat \ {0} : ph[p] = pass(s)
  <2>1. ASSUME NEW p \in 1..(steps + 2), p # 1, p # steps + 2
        PROVE  \E s \in Nat \ {0} : ph[p] = pass(s)
    <3>1. p - 1 \in 1..steps /\ (p - 1) + 1 = p
      BY <1>2, <2>1
    <3>2. ph[p] = mid[p - 1]
      BY <1>4, <3>1 DEF Frames
    <3>3. PICK s \in Nat \ {0} : s = 2 ^ ((p - 1) - 1)
      BY <1>2, <3>1
    <3> HIDE DEF ph, mid
    <3> QED
      BY <1>5, <3>1, <3>2, <3>3
  <2> HIDE DEF ph
  <2> QED
    BY <1>4, <2>1 DEF Frames
<1> HIDE DEF ph, mid
<1>7. Laned(E, n, RowLanes)
  BY ElemsLaned
<1>8. /\ Shares(O, At("x", 0, Upto(rows * n))) /\ DOMAIN O = grid
      /\ \A i \in grid : O[i] = At("x", i[1] * n, els(i))
  <2>1. \A i \in grid : E[i[2]] = els(i)
    BY GridItems
  <2> HIDE DEF E, els
  <2>2. /\ DOMAIN O = grid /\ Shares(O, At("x", 0, Upto(rows * n)))
        /\ \A i \in grid : O[i] = At("x", i[1] * n, E[i[2]])
    <3>1. DOMAIN O = grid
      BY MineDomain
    <3>2. Shares(O, At("x", 0, Upto(rows * n)))
      BY <1>7, MineShares
    <3>3. \A i \in grid : O[i] = At("x", i[1] * n, E[i[2]])
      BY DEF Mine
    <3> HIDE DEF O
    <3> QED
      BY <3>1, <3>2, <3>3
  <2> HIDE DEF O
  <2> QED
    BY <2>1, <2>2
<1> HIDE DEF E, O
<1>9. \A i \in grid : i = <<i[1], i[2]>> /\ i[1] \in Nat /\ i[2] \in Upto(RowLanes) /\ RowLanes \in Nat \ {0}
  BY GridItems, RowAssumption
<1>10. \A i \in grid : \A c \in O[i] : IsGlobal(c)
  BY <1>8, CellOfBuffer
<1>11. \A i, S : \A c \in sm(i, S) : ~IsGlobal(c) /\ c[3] = i[1] /\ c[2] \in S
  BY LocalCell
<1>12. ASSUME NEW i \in grid, NEW j \in grid, NEW c, c \in sm(i, els(i)), c \in sm(j, els(j))
       PROVE  i = j
  <2>1. i[1] = j[1] /\ c[2] \in els(i) /\ c[2] \in els(j)
    BY <1>11, <1>12
  <2>2. c[2] % RowLanes = i[2] /\ c[2] % RowLanes = j[2]
    BY <1>9, <2>1, StrideIs DEF Elems
  <2> QED
    BY <1>9, <2>1, <2>2
<1>13. ASSUME NEW i \in grid, NEW j \in grid, NEW s \in Nat \ {0}, NEW c, c \in pairs(i, s), c \in pairs(j, s)
       PROVE  i = j
  <2>1. i[1] = j[1]
    BY <1>11, <1>13
  <2>2. ASSUME NEW l \in Upto(RowLanes), NEW e \in Butterflies(l, s, n) \cup {b + s : b \in Butterflies(l, s, n)}
        PROVE  \E p \in Nat : p % RowLanes = l /\ PairAt(e, p, s)
    <3>1. PICK p \in Elems(l, n \div 2) : LET b == (p \div s) * (2 * s) + (p % s) IN e = b \/ e = b + s
      BY DEF Butterflies
    <3>2. n \div 2 \in Nat /\ RowLanes \in Nat \ {0}
      BY RowAssumption
    <3>3. p \in Nat /\ p % RowLanes = l
      BY <3>1, <3>2, StrideIs DEF Elems
    <3> QED
      BY <3>1, <3>3 DEF PairAt
  <2>3. PICK p \in Nat : p % RowLanes = i[2] /\ PairAt(c[2], p, s)
    BY <1>9, <1>11, <1>13, <2>2
  <2>4. PICK q \in Nat : q % RowLanes = j[2] /\ PairAt(c[2], q, s)
    BY <1>9, <1>11, <1>13, <2>2
  <2>5. p = q
    BY <2>3, <2>4, PairsApart
  <2> QED
    BY <1>9, <2>1, <2>3, <2>4, <2>5
<1>14. /\ \A i \in grid : /\ load[i].rd = O[i] /\ load[i].wr = sm(i, els(i)) /\ load[i].add = {}
                          /\ store[i].rd = sm(i, els(i)) /\ store[i].wr = O[i] /\ store[i].add = {}
       /\ \A i \in grid : \A s : pass(s)[i].rd = pairs(i, s) /\ pass(s)[i].wr = pairs(i, s) /\ pass(s)[i].add = {}
       /\ DOMAIN load = grid
  BY <1>8, DoesIs
<1>15. Items(k) = grid
  BY <1>1, <1>6, <1>14 DEF Items
<1> HIDE DEF grid, load, store, pass, sm, pairs, els
<1>16. \A p \in DOMAIN ph, i \in grid : ph[p][i].add = {}
  BY <1>6, <1>14
<1>17. ASSUME NEW i \in grid
       PROVE  Added(k, i) = A[i] /\ \A c \in O[i] : IsGlobal(c) /\ c \in Wrote(k, i)
  <2>1. Added(k, i) = {}
    BY <1>1, <1>16 DEF Added
  <2>2. steps + 2 \in DOMAIN ph /\ ph[steps + 2][i].wr = O[i]
    BY <1>2, <1>6, <1>14
  <2>3. O[i] \subseteq Wrote(k, i)
    BY <1>1, <2>2 DEF Wrote
  <2> QED
    BY <1>10, <2>1, <2>3
<1>18. ASSUME NEW p \in DOMAIN ph, NEW i \in grid, NEW c
       PROVE  /\ c \in ph[p][i].wr => c \in O[i] \/ (~IsGlobal(c) /\ c[3] = i[1])
              /\ c \in ph[p][i].rd =>
                    \/ IsGlobal(c) /\ \A j \in grid : c \in O[j] => j[1] = i[1]
                    \/ /\ ~IsGlobal(c) /\ c[3] = i[1]
                       /\ \/ c \in ph[p][i].wr
                          \/ \E j \in grid : j[1] = i[1] /\ \E q \in 1..(p - 1) : c \in ph[q][j].wr
  <2>1. \A j \in grid : c \in O[i] /\ c \in O[j] => j = i
    BY <1>8 DEF Shares
  <2>2. CASE p = 1
    BY <1>6, <1>10, <1>11, <1>14, <2>1, <2>2
  <2>3. CASE p = steps + 2
    <3>1. 1 \in 1..(p - 1)
      BY <1>2, <2>3
    <3>2. ph[1][i].wr = sm(i, els(i)) /\ ph[p][i].rd = sm(i, els(i)) /\ ph[p][i].wr = O[i]
      BY <1>6, <1>14, <2>3
    <3>3. c \in ph[p][i].rd => ~IsGlobal(c) /\ c[3] = i[1] /\ c \in ph[1][i].wr
      BY <1>11, <3>2
    <3> QED
      BY <3>1, <3>2, <3>3
  <2>4. CASE \E s \in Nat \ {0} : ph[p] = pass(s)
    <3>1. PICK s \in Nat \ {0} : ph[p] = pass(s)
      BY <2>4
    <3>2. ph[p][i].rd = pairs(i, s) /\ ph[p][i].wr = pairs(i, s)
      BY <1>14, <3>1
    <3>3. c \in pairs(i, s) => ~IsGlobal(c) /\ c[3] = i[1]
      BY <1>11 DEF pairs
    <3> QED
      BY <3>2, <3>3
  <2> QED
    BY <1>6, <2>2, <2>3, <2>4
<1>19. ASSUME NEW p \in DOMAIN ph, NEW i \in grid, NEW j \in grid, i # j, NEW c, c \in ph[p][i].wr
       PROVE  c \notin ph[p][j].rd /\ c \notin ph[p][j].wr
  <2>1. c \in O[i] => c \notin O[j]
    BY <1>8, <1>19 DEF Shares
  <2>2. CASE p = 1
    <3>1. c \in sm(i, els(i)) /\ ph[p][j].rd = O[j] /\ ph[p][j].wr = sm(j, els(j))
      BY <1>6, <1>14, <1>19, <2>2
    <3> QED
      BY <1>10, <1>11, <1>12, <1>19, <3>1
  <2>3. CASE p = steps + 2
    <3>1. c \in O[i] /\ ph[p][j].wr = O[j] /\ ph[p][j].rd = sm(j, els(j))
      BY <1>6, <1>14, <1>19, <2>3
    <3> QED
      BY <1>10, <1>11, <2>1, <3>1
  <2>4. CASE \E s \in Nat \ {0} : ph[p] = pass(s)
    <3>1. PICK s \in Nat \ {0} : ph[p] = pass(s)
      BY <2>4
    <3>2. c \in pairs(i, s) /\ ph[p][j].rd = pairs(j, s) /\ ph[p][j].wr = pairs(j, s)
      BY <1>14, <1>19, <3>1
    <3> QED
      BY <1>13, <1>19, <3>2
  <2> QED
    BY <1>6, <2>2, <2>3, <2>4
<1>20. DOMAIN A = grid
  OBVIOUS
<1>21. Shares(A, k.sums)
  BY <1>1 DEF Shares
<1> HIDE DEF A
<1>22. InPhases(k, O, A)
  <2>1. k.phases = ph /\ Items(k) = grid
    BY <1>1, <1>15
  <2> QED
    BY <1>8, <1>17, <1>18, <1>19, <1>20, <2>1 DEF InPhases
<1>23. KernelRight(k)
  BY <1>1, <1>8, <1>21, <1>22, PhasesRight
<1> QED
  BY <1>23 DEF k

-----------------------------------------------------------------------------
(* mxfp4                                                                    *)

\* A row's lanes are `turns' sub-groups of sg.
MxWidth(sg, turns) == RowLanes = turns * sg /\ MxGroup % 2 = 0

OneLane(sg) == [l \in Upto(sg) |-> {x \in {l} : x < MxGroup}]

Strided(sg) == [l \in Upto(sg) |-> Stride(l, sg, MxGroup)]

HalvedLanes(sg) == [l \in Upto(sg) |-> {x \div 2 : x \in {x \in {y \in {l} : y < MxGroup} : x % 2 = 0}}]

Leading(sg) == [l \in Upto(sg) |-> IF l = 0 THEN {0} ELSE {}]

LEMMA LanesShare ==
    ASSUME NEW sg \in Nat \ {0}, NEW turns \in Nat \ {0}, MxWidth(sg, turns)
    PROVE  /\ sg >= MxGroup => /\ Shares(OneLane(sg), Upto(MxGroup))
                               /\ Shares(HalvedLanes(sg), Upto(MxGroup \div 2))
           /\ Shares(Leading(sg), Upto(1)) /\ Shares(Strided(sg), Upto(MxGroup))
<1>1. MxGroup \in Nat \ {0} /\ MxGroup % 2 = 0
  BY RowAssumption DEF MxWidth
<1>2. ASSUME sg >= MxGroup
      PROVE  Shares(OneLane(sg), Upto(MxGroup))
  BY <1>1, <1>2 DEF Shares, OneLane, Upto
<1>3. ASSUME sg >= MxGroup
      PROVE  Shares(HalvedLanes(sg), Upto(MxGroup \div 2))
  <2>1. \A l \in Upto(sg) : \A x : x \in HalvedLanes(sg)[l] <=> l < MxGroup /\ l % 2 = 0 /\ x = l \div 2
    BY DEF HalvedLanes
  <2>2. DOMAIN HalvedLanes(sg) = Upto(sg)
    BY DEF HalvedLanes
  <2>3. ASSUME NEW x \in Upto(MxGroup \div 2)
        PROVE  \E l \in Upto(sg) : x \in HalvedLanes(sg)[l]
    <3>1. 2 * x \in Upto(sg) /\ 2 * x < MxGroup /\ (2 * x) % 2 = 0 /\ (2 * x) \div 2 = x
      BY <1>1, <1>3 DEF Upto
    <3> QED
      BY <2>1, <3>1
  <2>4. \A l \in Upto(sg) : HalvedLanes(sg)[l] \subseteq Upto(MxGroup \div 2)
    <3>1. ASSUME NEW l \in Upto(sg), l < MxGroup, l % 2 = 0
          PROVE  l \div 2 \in Upto(MxGroup \div 2)
      BY <1>1, <3>1 DEF Upto
    <3> QED
      BY <2>1, <3>1
  <2>5. \A l, h \in Upto(sg) : \A x : x \in HalvedLanes(sg)[l] /\ x \in HalvedLanes(sg)[h] => l = h
    <3>1. ASSUME NEW l \in Upto(sg), NEW h \in Upto(sg), l % 2 = 0, h % 2 = 0, l \div 2 = h \div 2
          PROVE  l = h
      <4>1. l \in Nat /\ h \in Nat
        BY DEF Upto
      <4> QED
        BY <3>1, <4>1
    <3> QED
      BY <2>1, <3>1
  <2> QED
    BY <2>2, <2>3, <2>4, <2>5, SharesBy
<1>4. Shares(Leading(sg), Upto(1))
  BY DEF Shares, Leading, Upto
<1>5. Shares(Strided(sg), Upto(MxGroup))
  BY <1>1, StrideShares DEF Strided
<1> QED
  BY <1>2, <1>3, <1>4, <1>5

MxSpread(S, sg, turns, G, m) ==
    [lane \in Upto(RowLanes) |-> {g * m + x : g \in Stride(lane \div sg, turns, G), x \in S[lane % sg]}]

LEMMA SpreadLaned ==
    ASSUME NEW sg \in Nat \ {0}, NEW turns \in Nat \ {0}, MxWidth(sg, turns), NEW G \in Nat
    PROVE  /\ sg >= MxGroup =>
                /\ Laned(MxSpread(OneLane(sg), sg, turns, G, MxGroup), G * MxGroup, RowLanes)
                /\ Laned(MxSpread(HalvedLanes(sg), sg, turns, G, MxGroup \div 2), G * (MxGroup \div 2), RowLanes)
           /\ Laned(MxSpread(Strided(sg), sg, turns, G, MxGroup), G * MxGroup, RowLanes)
           /\ Laned(MxSpread(Leading(sg), sg, turns, G, 1), G, RowLanes)
<1>1. MxGroup \in Nat \ {0} /\ MxGroup \div 2 \in Nat \ {0} /\ RowLanes = turns * sg
  BY RowAssumption DEF MxWidth
<1>2. ASSUME NEW m \in Nat \ {0}, NEW S, DOMAIN S = Upto(sg), Shares(S, Upto(m))
      PROVE  Laned(MxSpread(S, sg, turns, G, m), G * m, RowLanes)
  <2>1. GroupLanes(MxSpread(S, sg, turns, G, m), S, RowLanes, sg, turns, G, m)
    BY <1>1, <1>2 DEF GroupLanes, MxSpread
  <2> QED
    BY <2>1, GroupsLaned
<1>3. /\ DOMAIN OneLane(sg) = Upto(sg) /\ DOMAIN Strided(sg) = Upto(sg)
      /\ DOMAIN HalvedLanes(sg) = Upto(sg) /\ DOMAIN Leading(sg) = Upto(sg)
  BY DEF OneLane, Strided, HalvedLanes, Leading
<1>4. G * 1 = G
  OBVIOUS
<1>5. Laned(MxSpread(Leading(sg), sg, turns, G, 1), G * 1, RowLanes)
  BY <1>2, <1>3, LanesShare
<1> QED
  BY <1>1, <1>2, <1>3, <1>4, <1>5, LanesShare

LEMMA MxParts ==
    ASSUME NEW sg \in Nat \ {0}, NEW turns \in Nat \ {0}, MxWidth(sg, turns), NEW G \in Nat
    PROVE  /\ RowLanes \div sg = turns /\ (G * MxGroup) \div MxGroup = G
           /\ (G * MxGroup) \div 2 = G * (MxGroup \div 2) /\ G * MxGroup \in Nat
<1>1. PICK M \in Nat \ {0} : M = MxGroup /\ M % 2 = 0
  BY RowAssumption DEF MxWidth
<1>2. turns * sg + 0 = turns * sg /\ G * M + 0 = G * M
  BY ProductNat
<1>3. (turns * sg + 0) \div sg = turns /\ (G * M + 0) \div M = G
  <2>1. 0 \in Upto(sg) /\ 0 \in Upto(M)
    BY DEF Upto
  <2> QED
    BY <2>1, DivisionUnique
<1>4. PICK h \in Nat : h = M \div 2 /\ M = 2 * h
  BY <1>1
<1>5. (G * M) \div 2 = G * h
  <2>1. PICK y \in Nat : y = G * h
    BY ProductNat
  <2>2. G * M = 2 * y
    BY <1>4, <2>1
  <2> QED
    BY <2>1, <2>2
<1> QED
  BY <1>1, <1>2, <1>3, <1>4, <1>5, ProductNat DEF MxWidth

LEMMA MineIs ==
    ASSUME NEW b, NEW E, NEW d, NEW rows, NEW lanes, NEW i \in Grid(rows, lanes), NEW c
    PROVE  c \in Mine(b, E, d, rows, lanes)[i] <=> \E e \in E[i[2]] : c = <<b, i[1] * d + e>>
<1> QED
  BY DEF Mine, At

\* What norm_quant and glu_quant write and reduce in groups, lane by lane.
MxCells(sg, turns, G, rows, i) ==
    LET dim == G * MxGroup
    IN  /\ MxPacks(i, sg, dim)
             = Mine("q", MxSpread(HalvedLanes(sg), sg, turns, G, MxGroup \div 2), G * (MxGroup \div 2), rows, RowLanes)[i]
        /\ MxScales(i, sg, dim) = Mine("scale", MxSpread(Leading(sg), sg, turns, G, 1), G, rows, RowLanes)[i]
        /\ MxReads(i, sg, dim, FALSE)
             = Labelled("absmax", MxGroup, Mine("x", MxSpread(OneLane(sg), sg, turns, G, MxGroup), dim, rows, RowLanes)[i])
        /\ MxReads(i, sg, dim, TRUE)
             = Labelled("absmax", MxGroup, Mine("x", MxSpread(Strided(sg), sg, turns, G, MxGroup), dim, rows, RowLanes)[i])

LEMMA MxCellsAre ==
    ASSUME NEW sg \in Nat \ {0}, NEW turns \in Nat \ {0}, MxWidth(sg, turns), NEW G \in Nat, NEW rows \in Nat,
           NEW i \in Grid(rows, RowLanes)
    PROVE  MxCells(sg, turns, G, rows, i)
<1>1. PICK M \in Nat \ {0} : M = MxGroup /\ M % 2 = 0
  BY RowAssumption DEF MxWidth
<1>2. PICK r \in Nat, lane \in Upto(RowLanes) : i = <<r, lane>> /\ r = i[1] /\ lane = i[2]
  BY GridItems
<1>3. PICK dim \in Nat : dim = G * M /\ dim \div 2 = G * (M \div 2) /\ dim \div M = G /\ RowLanes \div sg = turns
  BY <1>1, MxParts
<1>4. lane \in Nat /\ lane % sg \in Upto(sg) /\ lane \div sg \in Nat
  <2>1. lane \in Nat
    BY DEF Upto
  <2> QED
    BY <2>1, DivisionOf
<1>5. PICK l \in Upto(sg) : l = lane % sg
  BY <1>4
<1>6. PICK T : T = MxGroups(i, sg, dim) /\ T = Stride(lane \div sg, turns, G)
  BY <1>1, <1>2, <1>3 DEF MxGroups
<1>7. \A g \in T : g \in Nat
  <2>1. lane \div sg \in Upto(turns)
    <3>1. lane < turns * sg
      <4>1. RowLanes \in Nat /\ RowLanes = turns * sg
        BY RowAssumption DEF MxWidth
      <4> QED
        BY <4>1 DEF Upto
    <3>2. lane \div sg < turns
      BY <1>4, <3>1, QuotientBelow
    <3> QED
      BY <1>4, <3>2 DEF Upto
  <2> QED
    BY <1>6, <2>1, StrideIs
<1>8. \A S, m, e : e \in MxSpread(S, sg, turns, G, m)[lane] <=> \E g \in T : \E x \in S[l] : e = g * m + x
  BY <1>5, <1>6 DEF MxSpread
<1>9. MxPacks(i, sg, dim) = Mine("q", MxSpread(HalvedLanes(sg), sg, turns, G, M \div 2), dim \div 2, rows, RowLanes)[i]
  <2> DEFINE E == MxSpread(HalvedLanes(sg), sg, turns, G, M \div 2)
  <2>1. \A c : c \in MxPacks(i, sg, dim) <=>
               \E g \in T : l < M /\ l % 2 = 0 /\ c = <<"q", r * (dim \div 2) + (g * M + l) \div 2>>
    <3> DEFINE evens == {x \in MxElems(i, sg) : x % 2 = 0}
               bytes(g) == {(g * M + y) \div 2 : y \in evens}
    <3>1. \A x : x \in evens <=> x = l /\ l < M /\ l % 2 = 0
      BY <1>1, <1>2, <1>5 DEF MxElems
    <3>2. MxPacks(i, sg, dim) = UNION {At("q", r * (dim \div 2), {(g * MxGroup + y) \div 2 : y \in evens}) : g \in T}
      BY <1>2, <1>6 DEF MxPacks
    <3>3. MxPacks(i, sg, dim) = UNION {At("q", r * (dim \div 2), bytes(g)) : g \in T}
      BY <1>1, <3>2
    <3> HIDE DEF evens
    <3>4. \A g \in T : \A b : b \in bytes(g) <=> l < M /\ l % 2 = 0 /\ b = (g * M + l) \div 2
      BY <3>1
    <3> HIDE DEF bytes
    <3>5. \A c : c \in MxPacks(i, sg, dim) <=> \E g \in T : \E b \in bytes(g) : c = <<"q", r * (dim \div 2) + b>>
      BY <3>3 DEF At
    <3> QED
      BY <3>4, <3>5
  <2>2. \A x : x \in HalvedLanes(sg)[l] <=> l < M /\ l % 2 = 0 /\ x = l \div 2
    BY <1>1 DEF HalvedLanes
  <2>3. \A e : e \in E[lane] <=> \E g \in T : l < M /\ l % 2 = 0 /\ e = g * (M \div 2) + l \div 2
    BY <1>8, <2>2
  <2>4. \A g \in T : (g * M + l) \div 2 = g * (M \div 2) + l \div 2
    <3>1. ASSUME NEW g \in Nat
          PROVE  (g * M + l) \div 2 = g * (M \div 2) + l \div 2
      <4>1. PICK h \in Nat : h = M \div 2 /\ M = 2 * h
        BY <1>1
      <4>2. PICK y \in Nat : y = g * h
        BY ProductNat
      <4>3. g * M = 2 * y
        BY <4>1, <4>2
      <4>4. l \in Nat
        BY DEF Upto
      <4>5. (2 * y + l) \div 2 = y + l \div 2
        BY <4>4
      <4> QED
        BY <4>1, <4>2, <4>3, <4>5
    <3> QED
      BY <1>7, <3>1
  <2>5. \A c : c \in Mine("q", E, dim \div 2, rows, RowLanes)[i] <=> \E e \in E[lane] : c = <<"q", r * (dim \div 2) + e>>
    BY <1>2, MineIs
  <2> HIDE DEF E
  <2>6. \A c : c \in MxPacks(i, sg, dim) <=> c \in Mine("q", E, dim \div 2, rows, RowLanes)[i]
    BY <2>1, <2>3, <2>4, <2>5
  <2> QED
    BY <2>6 DEF E
<1>10. MxScales(i, sg, dim) = Mine("scale", MxSpread(Leading(sg), sg, turns, G, 1), G, rows, RowLanes)[i]
  <2> DEFINE E == MxSpread(Leading(sg), sg, turns, G, 1)
  <2>1. \A c : c \in MxScales(i, sg, dim) <=> \E g \in T : l = 0 /\ c = <<"scale", r * G + g>>
    BY <1>1, <1>2, <1>3, <1>5, <1>6 DEF MxScales, At
  <2>2. \A x : x \in Leading(sg)[l] <=> l = 0 /\ x = 0
    BY DEF Leading
  <2>3. \A g \in T : g * 1 + 0 = g
    BY <1>7
  <2>4. \A e : e \in E[lane] <=> \E g \in T : l = 0 /\ e = g
    BY <1>8, <2>2, <2>3
  <2>5. \A c : c \in Mine("scale", E, G, rows, RowLanes)[i] <=> \E e \in E[lane] : c = <<"scale", r * G + e>>
    BY <1>2, MineIs
  <2> HIDE DEF E
  <2>6. \A c : c \in MxScales(i, sg, dim) <=> c \in Mine("scale", E, G, rows, RowLanes)[i]
    BY <2>1, <2>4, <2>5
  <2> QED
    BY <2>6 DEF E
<1>11. ASSUME NEW strided \in BOOLEAN, NEW S, S = IF strided THEN Strided(sg) ELSE OneLane(sg)
       PROVE  MxReads(i, sg, dim, strided)
                = Labelled("absmax", M, Mine("x", MxSpread(S, sg, turns, G, M), dim, rows, RowLanes)[i])
  <2> DEFINE E == MxSpread(S, sg, turns, G, M)
             R == Mine("x", E, dim, rows, RowLanes)[i]
  <2>1. S[l] = IF strided THEN Stride(l, sg, M) ELSE {x \in {l} : x < M}
    BY <1>1, <1>11 DEF Strided, OneLane
  <2>2. \A x \in S[l] : x \in Upto(M)
    <3>1. \A x \in Stride(l, sg, M) : x \in Nat /\ x < M
      BY StrideIs
    <3>2. l \in Nat
      BY DEF Upto
    <3> QED
      BY <2>1, <3>1, <3>2 DEF Upto
  <2>3. \A z : z \in MxReads(i, sg, dim, strided) <=>
          \E g \in T : \E x \in S[l] : z = <<<<"absmax", r * G + g>>, <<"x", (r * dim + g * M) + x>>>>
    BY <1>1, <1>2, <1>3, <1>5, <1>6, <2>1 DEF MxReads, MxElems, At, Into
  <2>4. \A g \in T : \A x \in S[l] : /\ (r * dim + g * M) + x = r * dim + (g * M + x)
                                    /\ (r * dim + (g * M + x)) \div M = r * G + g
    <3>1. ASSUME NEW g \in T, NEW x \in S[l]
          PROVE  /\ (r * dim + g * M) + x = r * dim + (g * M + x)
                 /\ (r * dim + (g * M + x)) \div M = r * G + g
      <4>1. g \in Nat /\ x \in Upto(M) /\ x \in Nat
        BY <1>7, <2>2 DEF Upto
      <4>2. PICK h \in Nat : h = r * G + g
        BY <4>1, ProductNat
      <4>3. r * dim + (g * M + x) = h * M + x
        <5>1. r * (G * M) = (r * G) * M
          OBVIOUS
        <5>2. PICK a \in Nat, u \in Nat : a = r * G /\ u = a * M
          BY ProductNat
        <5>3. PICK v \in Nat : v = g * M
          BY <4>1, ProductNat
        <5>4. (a + g) * M = u + v
          BY <4>1, <5>2, <5>3
        <5> QED
          BY <1>3, <4>1, <4>2, <5>1, <5>2, <5>3, <5>4
      <4>4. (h * M + x) \div M = h
        BY <4>1, DivisionUnique
      <4>5. r * dim \in Nat /\ g * M \in Nat
        BY <4>1, ProductNat
      <4> QED
        BY <4>1, <4>2, <4>3, <4>4, <4>5
    <3> QED
      BY <3>1
  <2>5. \A c : c \in R <=> \E g \in T : \E x \in S[l] : c = <<"x", r * dim + (g * M + x)>>
    <3>1. \A e : e \in E[lane] <=> \E g \in T : \E x \in S[l] : e = g * M + x
      BY <1>8
    <3>2. \A c : c \in R <=> \E e \in E[lane] : c = <<"x", r * dim + e>>
      BY <1>2, MineIs
    <3> HIDE DEF E, R
    <3> QED
      BY <3>1, <3>2
  <2> HIDE DEF R
  <2>6. \A z : z \in Labelled("absmax", M, R) <=>
          \E g \in T : \E x \in S[l] : z = <<<<"absmax", (r * dim + (g * M + x)) \div M>>, <<"x", r * dim + (g * M + x)>>>>
    BY <2>5 DEF Labelled
  <2>7. \A z : z \in MxReads(i, sg, dim, strided) <=> z \in Labelled("absmax", M, R)
    BY <2>3, <2>4, <2>6
  <2> QED
    BY <2>7 DEF R
<1>12. MxReads(i, sg, dim, FALSE)
         = Labelled("absmax", M, Mine("x", MxSpread(OneLane(sg), sg, turns, G, M), dim, rows, RowLanes)[i])
  BY <1>11
<1>13. MxReads(i, sg, dim, TRUE)
         = Labelled("absmax", M, Mine("x", MxSpread(Strided(sg), sg, turns, G, M), dim, rows, RowLanes)[i])
  BY <1>11
<1> QED
  BY <1>1, <1>3, <1>9, <1>10, <1>12, <1>13 DEF MxCells

LEMMA MxAbsmaxIs ==
    ASSUME NEW rows \in Nat, NEW G \in Nat \ {0}
    PROVE  MxAbsmax(rows, G * MxGroup) = Labelled("absmax", MxGroup, At("x", 0, Upto(rows * (G * MxGroup))))
<1>1. PICK M \in Nat \ {0} : M = MxGroup
  BY RowAssumption
<1>2. PICK dim \in Nat \ {0} : dim = G * M
  BY TileSizes
<1>3. dim \div M = G
  <2>1. 0 \in Upto(M) /\ G * M + 0 = dim
    BY <1>2 DEF Upto
  <2> QED
    BY <2>1, DivisionUnique
<1>4. rows * dim \in Nat
  BY ProductNat
<1>5. \A z : z \in MxAbsmax(rows, dim) <=>
        \E r \in Upto(rows) : \E g \in Upto(G) : \E x \in Upto(M) :
           z = <<<<"absmax", r * G + g>>, <<"x", (r * dim + g * M) + x>>>>
  <2>1. \A z : z \in MxAbsmax(rows, dim) <=>
          \E r \in Upto(rows) : \E g \in Upto(dim \div MxGroup) : \E x \in Upto(MxGroup) :
             z = <<<<"absmax", r * (dim \div MxGroup) + g>>, <<"x", (r * dim + g * MxGroup) + x>>>>
    <3> DEFINE I(r, g) == Into(<<"absmax", r * (dim \div MxGroup) + g>>, At("x", r * dim + g * MxGroup, Upto(MxGroup)))
    <3>1. MxAbsmax(rows, dim) = UNION {I(r, g) : r \in Upto(rows), g \in Upto(dim \div MxGroup)}
      BY DEF MxAbsmax
    <3>2. \A r, g, z : z \in I(r, g) <=>
            \E x \in Upto(MxGroup) : z = <<<<"absmax", r * (dim \div MxGroup) + g>>, <<"x", (r * dim + g * MxGroup) + x>>>>
      BY DEF At, Into
    <3> HIDE DEF I
    <3>3. \A z : z \in MxAbsmax(rows, dim) <=> \E r \in Upto(rows) : \E g \in Upto(dim \div MxGroup) : z \in I(r, g)
      BY <3>1
    <3> QED
      BY <3>2, <3>3
  <2> QED
    BY <1>1, <1>3, <2>1
<1>6. \A z : z \in Labelled("absmax", M, At("x", 0, Upto(rows * dim))) <=>
        \E e \in Upto(rows * dim) : z = <<<<"absmax", e \div M>>, <<"x", e>>>>
  <2>1. \A e \in Upto(rows * dim) : 0 + e = e
    BY DEF Upto
  <2>2. \A c : c \in At("x", 0, Upto(rows * dim)) <=> \E e \in Upto(rows * dim) : c = <<"x", e>>
    BY <2>1 DEF At
  <2> QED
    BY <2>2 DEF Labelled
<1>7. ASSUME NEW r \in Upto(rows), NEW g \in Upto(G), NEW x \in Upto(M)
      PROVE  /\ (r * dim + g * M) + x \in Upto(rows * dim)
             /\ ((r * dim + g * M) + x) \div M = r * G + g
  <2>1. r \in Nat /\ r < rows /\ g \in Nat /\ g < G /\ x \in Nat
    BY DEF Upto
  <2>2. PICK h \in Nat : h = r * G + g /\ h \div G = r
    BY <2>1, DivisionUnique
  <2>3. h < rows * G
    BY <2>1, <2>2, QuotientBelow
  <2>4. PICK e \in Nat : e = h * M + x /\ e \div M = h
    BY DivisionUnique
  <2>5. PICK t \in Nat : t = rows * G
    BY ProductNat
  <2>6. e < t * M
    BY <2>3, <2>4, <2>5, QuotientBelow
  <2>7. t * M = rows * dim
    <3>1. (rows * G) * M = rows * (G * M)
      OBVIOUS
    <3> QED
      BY <1>2, <2>5, <3>1
  <2>8. (r * dim + g * M) + x = e
    <3>1. r * (G * M) = (r * G) * M
      BY <2>1
    <3>2. PICK a \in Nat, v \in Nat : a = r * G /\ v = a * M
      BY <2>1, ProductNat
    <3>3. PICK u \in Nat : u = g * M
      BY <2>1, ProductNat
    <3>4. (a + g) * M = v + u
      BY <2>1, <3>2, <3>3
    <3> QED
      BY <1>2, <2>1, <2>2, <2>4, <3>1, <3>2, <3>3, <3>4
  <2> QED
    BY <1>4, <2>2, <2>4, <2>6, <2>7, <2>8 DEF Upto
<1>8. ASSUME NEW e \in Upto(rows * dim)
      PROVE  \E r \in Upto(rows) : \E g \in Upto(G) : \E x \in Upto(M) :
               e = (r * dim + g * M) + x /\ e \div M = r * G + g
  <2>1. e \in Nat /\ e < rows * dim
    BY <1>4 DEF Upto
  <2>2. PICK r \in Nat, y \in Upto(dim) : e = r * dim + y /\ r < rows
    <3>1. e \div dim < rows /\ e \div dim \in Nat /\ e % dim \in Upto(dim) /\ e = (e \div dim) * dim + (e % dim)
      BY <2>1, QuotientBelow, DivisionOf
    <3> QED
      BY <3>1
  <2>3. y \in Nat /\ y < G * M
    BY <1>2 DEF Upto
  <2>4. PICK g \in Nat, x \in Upto(M) : y = g * M + x /\ g < G
    <3>1. y \div M < G /\ y \div M \in Nat /\ y % M \in Upto(M) /\ y = (y \div M) * M + (y % M)
      BY <2>3, QuotientBelow, DivisionOf
    <3> QED
      BY <3>1
  <2>5. r \in Upto(rows) /\ g \in Upto(G)
    BY <2>2, <2>4 DEF Upto
  <2>6. PICK a \in Nat, b \in Nat : a = r * dim /\ b = g * M
    BY ProductNat
  <2>7. x \in Nat
    BY DEF Upto
  <2>8. e = (r * dim + g * M) + x
    BY <2>2, <2>4, <2>6, <2>7
  <2> QED
    BY <1>7, <2>5, <2>8
<1>9. \A z : z \in MxAbsmax(rows, dim) <=> z \in Labelled("absmax", M, At("x", 0, Upto(rows * dim)))
  <2>1. ASSUME NEW z \in MxAbsmax(rows, dim)
        PROVE  z \in Labelled("absmax", M, At("x", 0, Upto(rows * dim)))
    BY <1>5, <1>6, <1>7
  <2>2. ASSUME NEW z \in Labelled("absmax", M, At("x", 0, Upto(rows * dim)))
        PROVE  z \in MxAbsmax(rows, dim)
    <3>1. PICK e \in Upto(rows * dim) : z = <<<<"absmax", e \div M>>, <<"x", e>>>>
      BY <1>6
    <3>2. PICK r \in Upto(rows), g \in Upto(G), x \in Upto(M) : e = (r * dim + g * M) + x /\ e \div M = r * G + g
      BY <1>8
    <3> QED
      BY <1>5, <3>1, <3>2
  <2> QED
    BY <2>1, <2>2
<1> QED
  BY <1>1, <1>2, <1>9

LEMMA MxBytes ==
    ASSUME NEW sg \in Nat \ {0}, NEW turns \in Nat \ {0}, MxWidth(sg, turns), NEW G \in Nat, NEW rows \in Nat,
           NEW i \in Grid(rows, RowLanes)
    PROVE  UNION {At("q", i[1] * (G * MxGroup) + g * MxGroup, Stride(i[2] % sg, sg, MxGroup)) :
                    g \in MxGroups(i, sg, G * MxGroup)}
             = Mine("q", MxSpread(Strided(sg), sg, turns, G, MxGroup), G * MxGroup, rows, RowLanes)[i]
<1> DEFINE dim == G * MxGroup
           E == MxSpread(Strided(sg), sg, turns, G, MxGroup)
           T == MxGroups(i, sg, dim)
           S == Stride(i[2] % sg, sg, MxGroup)
           at(g, x) == (i[1] * dim + g * MxGroup) + x
           B == UNION {At("q", i[1] * dim + g * MxGroup, S) : g \in T}
           R == Mine("x", E, dim, rows, RowLanes)[i]
<1>1. \A c : c \in B <=> \E g \in T : \E x \in S : c = <<"q", at(g, x)>>
  BY DEF At
<1>2. \A z : z \in MxReads(i, sg, dim, TRUE) <=>
        \E g \in T : \E x \in S : z = <<<<"absmax", i[1] * (dim \div MxGroup) + g>>, <<"x", at(g, x)>>>>
  BY DEF MxReads, At, Into
<1>3. MxReads(i, sg, dim, TRUE) = Labelled("absmax", MxGroup, R)
  <2>1. MxCells(sg, turns, G, rows, i)
    BY MxCellsAre
  <2> QED
    BY <2>1 DEF MxCells
<1>4. \A c : c \in R <=> \E e \in E[i[2]] : c = <<"x", i[1] * dim + e>>
  BY MineIs
<1>5. \A c : c \in Mine("q", E, dim, rows, RowLanes)[i] <=> \E e \in E[i[2]] : c = <<"q", i[1] * dim + e>>
  BY MineIs
<1> HIDE DEF R, E, B, T, S, at, dim
<1>6. \A c : c \in R <=> \E g \in T : \E x \in S : c = <<"x", at(g, x)>>
  <2>1. ASSUME NEW c \in R
        PROVE  \E g \in T : \E x \in S : c = <<"x", at(g, x)>>
    <3>1. PICK z : z \in MxReads(i, sg, dim, TRUE) /\ z[2] = c
      <4>1. PICK z : z = <<<<"absmax", c[2] \div MxGroup>>, c>>
        OBVIOUS
      <4>2. z \in Labelled("absmax", MxGroup, R) /\ z[2] = c
        BY <4>1 DEF Labelled
      <4> QED
        BY <1>3, <4>2
    <3>2. PICK g \in T, x \in S : z = <<<<"absmax", i[1] * (dim \div MxGroup) + g>>, <<"x", at(g, x)>>>>
      BY <1>2, <3>1
    <3>3. z[2] = <<"x", at(g, x)>>
      BY <3>2
    <3> QED
      BY <3>1, <3>3
  <2>2. ASSUME NEW g \in T, NEW x \in S
        PROVE  <<"x", at(g, x)>> \in R
    <3>1. PICK z : z \in Labelled("absmax", MxGroup, R) /\ z[2] = <<"x", at(g, x)>>
      <4>1. PICK z : z = <<<<"absmax", i[1] * (dim \div MxGroup) + g>>, <<"x", at(g, x)>>>>
        OBVIOUS
      <4>2. z \in MxReads(i, sg, dim, TRUE) /\ z[2] = <<"x", at(g, x)>>
        BY <1>2, <4>1
      <4> QED
        BY <1>3, <4>2
    <3> QED
      BY <3>1 DEF Labelled
  <2> QED
    BY <2>1, <2>2
<1>7. ASSUME NEW c \in B
      PROVE  c \in Mine("q", E, dim, rows, RowLanes)[i]
  <2>1. PICK g \in T, x \in S : c = <<"q", at(g, x)>>
    BY <1>1
  <2>2. <<"x", at(g, x)>> \in R
    BY <1>6
  <2>3. PICK e \in E[i[2]] : <<"x", at(g, x)>> = <<"x", i[1] * dim + e>>
    BY <1>4, <2>2
  <2>4. c = <<"q", i[1] * dim + e>>
    BY <2>1, <2>3
  <2> QED
    BY <1>5, <2>4
<1>8. ASSUME NEW c \in Mine("q", E, dim, rows, RowLanes)[i]
      PROVE  c \in B
  <2>1. PICK e \in E[i[2]] : c = <<"q", i[1] * dim + e>>
    BY <1>5
  <2>2. <<"x", i[1] * dim + e>> \in R
    BY <1>4
  <2>3. PICK g \in T, x \in S : <<"x", i[1] * dim + e>> = <<"x", at(g, x)>>
    BY <1>6, <2>2
  <2>4. c = <<"q", at(g, x)>>
    BY <2>1, <2>3
  <2> QED
    BY <1>1, <2>4
<1>9. B = Mine("q", E, dim, rows, RowLanes)[i]
  BY <1>7, <1>8
<1> QED
  BY <1>9 DEF B, E, T, S, dim

LEMMA MxParameters ==
    ASSUME NEW G \in Nat \ {0}, NEW sg, NEW turns, MxWidth(sg, turns)
    PROVE  /\ MxGroup \in Nat \ {0} /\ G * MxGroup \in Nat \ {0}
           /\ MxGroup \div 2 \in Nat \ {0} /\ G * (MxGroup \div 2) \in Nat \ {0}
<1>1. MxGroup \in Nat \ {0} /\ MxGroup \div 2 \in Nat \ {0}
  BY RowAssumption DEF MxWidth
<1> QED
  BY <1>1, TileSizes

MxLabelled(E, G, rows) == [i \in Grid(rows, RowLanes) |-> Labelled("absmax", MxGroup, Mine("x", E, G * MxGroup, rows, RowLanes)[i])]

LEMMA MxSums ==
    ASSUME NEW rows \in Nat, NEW G \in Nat \ {0}, NEW E, Laned(E, G * MxGroup, RowLanes), MxGroup \in Nat \ {0}
    PROVE  Shares(MxLabelled(E, G, rows), MxAbsmax(rows, G * MxGroup))
<1> DEFINE W == Mine("x", E, G * MxGroup, rows, RowLanes)
           All == At("x", 0, Upto(rows * (G * MxGroup)))
           A == MxLabelled(E, G, rows)
<1>1. Shares(W, All)
  <2>1. G * MxGroup \in Nat \ {0}
    BY TileSizes
  <2> QED
    BY <2>1, MineShares
<1>2. DOMAIN A = DOMAIN W /\ \A i \in DOMAIN W : A[i] = Labelled("absmax", MxGroup, W[i])
  <2>1. DOMAIN W = Grid(rows, RowLanes)
    BY MineDomain
  <2> QED
    BY <2>1 DEF MxLabelled
<1> HIDE DEF W, All, A
<1>3. Shares(A, Labelled("absmax", MxGroup, All))
  BY <1>1, <1>2, LabelledShares
<1> QED
  BY <1>3, MxAbsmaxIs DEF A, All

\* glu_quant: every group of a row is reduced, scaled and coded by the lanes
\* of one sub-group.  A lane to an element: mxfp4 needs as many lanes.
THEOREM GluQuantRight ==
    ASSUME NEW rows \in Nat, NEW G \in Nat \ {0}, NEW sg \in Nat \ {0}, NEW turns \in Nat \ {0},
           MxWidth(sg, turns), NEW mode \in {"fp8", "mxfp4"}, mode = "mxfp4" => sg >= MxGroup
    PROVE  KernelRight(GluQuant(rows, G * MxGroup, sg, mode))
<1> DEFINE dim == G * MxGroup
           grid == Grid(rows, RowLanes)
           width == IF mode = "mxfp4" THEN G * (MxGroup \div 2) ELSE dim
           ES == MxSpread(Strided(sg), sg, turns, G, MxGroup)
           EQ == IF mode = "mxfp4" THEN MxSpread(HalvedLanes(sg), sg, turns, G, MxGroup \div 2) ELSE ES
           EL == MxSpread(Leading(sg), sg, turns, G, 1)
           Vals == Mine("q", EQ, width, rows, RowLanes)
           X == Mine("scale", EL, G, rows, RowLanes)
           W == [i \in grid |-> Vals[i] \cup X[i]]
           A == MxLabelled(ES, G, rows)
           R == Mine("x", ES, dim, rows, RowLanes)
           reads(i) == MxReads(i, sg, dim, TRUE)
           bytes(i) == UNION {At("q", i[1] * dim + g * MxGroup, Stride(i[2] % sg, sg, MxGroup)) :
                                g \in MxGroups(i, sg, dim)}
           does(i) == Does({c[2] : c \in reads(i)},
                           (IF mode = "mxfp4" THEN MxPacks(i, sg, dim) ELSE bytes(i)) \cup MxScales(i, sg, dim),
                           reads(i))
           d == [i \in grid |-> does(i)]
           out == At("q", 0, Upto(rows * width)) \cup At("scale", 0, Upto(rows * G))
           sums == MxAbsmax(rows, dim)
           k == GluQuant(rows, dim, sg, mode)
<1>1. k = Kernel(<<d>>, out, sums)
  <2>1. k = Kernel(<<d>>, IF mode = "mxfp4" THEN MxOutput(rows, dim)
                          ELSE At("q", 0, Upto(rows * dim)) \cup At("scale", 0, Upto(rows * (dim \div MxGroup))), sums)
    BY DEF GluQuant
  <2>2. dim \div MxGroup = G /\ dim \div 2 = G * (MxGroup \div 2)
    BY MxParts
  <2> HIDE DEF d, sums, dim, k
  <2> QED
    BY <2>1, <2>2 DEF MxOutput
<1>2. /\ MxGroup \in Nat \ {0} /\ dim \in Nat \ {0} /\ G * (MxGroup \div 2) \in Nat \ {0}
      /\ width \in Nat \ {0}
  BY MxParameters
<1>3. Laned(ES, dim, RowLanes) /\ Laned(EQ, width, RowLanes) /\ Laned(EL, G, RowLanes)
  BY SpreadLaned
<1>4. \A i \in grid : /\ d[i].rd = {c[2] : c \in reads(i)} /\ d[i].wr = W[i] /\ d[i].add = A[i]
                      /\ reads(i) = Labelled("absmax", MxGroup, R[i])
  <2>1. ASSUME NEW i \in grid
        PROVE  /\ MxScales(i, sg, dim) = X[i] /\ reads(i) = Labelled("absmax", MxGroup, R[i])
               /\ (IF mode = "mxfp4" THEN MxPacks(i, sg, dim) ELSE bytes(i)) = Vals[i]
    <3>1. MxCells(sg, turns, G, rows, i)
      BY MxCellsAre
    <3>2. bytes(i) = Mine("q", ES, dim, rows, RowLanes)[i]
      BY MxBytes
    <3> HIDE DEF bytes
    <3> QED
      BY <3>1, <3>2 DEF MxCells
  <2>2. \A i \in grid : A[i] = Labelled("absmax", MxGroup, R[i])
    BY DEF MxLabelled
  <2> HIDE DEF reads, bytes, Vals, X, A, R
  <2> QED
    BY <2>1, <2>2, DoesIs
<1> HIDE DEF ES, EQ, EL, d, k, dim, width
<1>5. Shares(Vals, At("q", 0, Upto(rows * width))) /\ Shares(X, At("scale", 0, Upto(rows * G)))
  BY <1>2, <1>3, MineShares
<1>6. DOMAIN Vals = grid /\ DOMAIN X = grid /\ DOMAIN W = grid /\ DOMAIN A = grid
  BY MineDomain DEF MxLabelled
<1>7. At("q", 0, Upto(rows * width)) \cap At("scale", 0, Upto(rows * G)) = {}
  <2>1. \A c \in At("q", 0, Upto(rows * width)) : c[1] = "q"
    BY CellOfBuffer
  <2>2. \A c \in At("scale", 0, Upto(rows * G)) : c[1] = "scale"
    BY CellOfBuffer
  <2> QED
    BY <2>1, <2>2
<1>8. \A i \in grid : /\ \A c \in Vals[i] : IsGlobal(c) /\ c[1] = "q"
                      /\ \A c \in X[i] : IsGlobal(c) /\ c[1] = "scale"
                      /\ \A c \in R[i] : IsGlobal(c) /\ c[1] = "x"
  BY MineGlobal
<1>9. \A i \in grid : \A c \in d[i].rd : c \in R[i]
  <2> HIDE DEF R, reads
  <2> QED
    BY <1>4 DEF Labelled
<1>10. DOMAIN d = grid
  BY DEF d
<1>11. Shares(A, sums)
  BY <1>2, <1>3, MxSums DEF dim
<1> HIDE DEF Vals, X, A, R, sums
<1>12. Shares(W, out)
  <2>1. \A i \in grid : W[i] = Vals[i] \cup X[i]
    OBVIOUS
  <2> HIDE DEF W
  <2> QED
    BY <1>5, <1>6, <1>7, <2>1, SharesTwo
<1>13. \A i \in grid : \A c \in W[i] : IsGlobal(c) /\ c[1] # "x"
  BY <1>8
<1> HIDE DEF W, out
<1>14. \A i \in DOMAIN d : d[i].wr = W[i] /\ d[i].add = A[i]
  BY <1>4, <1>10
<1>15. ASSUME NEW i \in DOMAIN d, NEW c \in d[i].rd \cup W[i]
       PROVE  IsGlobal(c)
  <2>1. CASE c \in W[i]
    BY <2>1, <1>10, <1>13
  <2>2. CASE c \in d[i].rd
    BY <2>2, <1>8, <1>9, <1>10
  <2> QED
    BY <2>1, <2>2
<1>16. ASSUME NEW i \in DOMAIN d, NEW j \in DOMAIN d, NEW c, c \in W[i], c \in d[j].rd
       PROVE  i = j
  <2>1. c[1] # "x"
    BY <1>10, <1>13, <1>16
  <2>2. c[1] = "x"
    BY <1>8, <1>9, <1>10, <1>16
  <2> QED
    BY <2>1, <2>2
<1>17. KernelRight(k)
  BY <1>1, <1>6, <1>10, <1>11, <1>12, <1>14, <1>15, <1>16, OneRight
<1> QED
  BY <1>17 DEF k, dim

-----------------------------------------------------------------------------
(* norm_quant                                                               *)

\* The lanes of a row own its residual (X) and write the rest of the output
\* (U); the first lane alone stores in the row's local memory, in phases that
\* read nothing.
NormPhases(k, rows, dim, X, U, A) ==
    /\ Items(k) = Grid(rows, RowLanes) /\ DOMAIN X = Items(k) /\ DOMAIN U = Items(k) /\ DOMAIN A = Items(k)
    /\ \A i \in Items(k) : /\ Added(k, i) = A[i] /\ \A c \in X[i] \cup U[i] : c \in Wrote(k, i)
                           /\ \A c \in X[i] : c \in At("x", i[1] * dim, Upto(dim))
                           /\ \A c \in U[i] : IsGlobal(c) /\ c[1] # "x"
    /\ \A p \in DOMAIN k.phases : \A i \in Items(k) : \A c :
         /\ c \in k.phases[p][i].wr => \/ c \in X[i] /\ p = 1
                                       \/ c \in U[i]
                                       \/ \E s : c = <<"slm", s, i[1]>> /\ i[2] = 0
         /\ c \in k.phases[p][i].rd =>
              \/ c \in At("x", i[1] * dim, Upto(dim)) /\ (p = 1 => c \in X[i])
              \/ \E s : /\ c = <<"slm", s, i[1]>>
                        /\ \E q \in 1..(p - 1) : c \in k.phases[q][<<i[1], 0>>].wr
    /\ \A p \in DOMAIN k.phases : \/ \A i \in Items(k) : \A c \in k.phases[p][i].wr : IsGlobal(c)
                                  \/ \A i \in Items(k) : k.phases[p][i].rd = {}

LEMMA NormPhasesRight ==
    ASSUME NEW k, NEW rows \in Nat, NEW dim \in Nat \ {0}, NEW X, NEW U, NEW A, NormPhases(k, rows, dim, X, U, A),
           Shares(X, At("x", 0, Upto(rows * dim))), NEW out, Shares(U, out),
           k.out = At("x", 0, Upto(rows * dim)) \cup out, Shares(A, k.sums)
    PROVE  KernelRight(k)
<1> DEFINE G == Items(k)
           ph == k.phases
           row(i) == At("x", i[1] * dim, Upto(dim))
           O == [i \in G |-> X[i] \cup U[i]]
<1>1. G = Grid(rows, RowLanes) /\ DOMAIN X = G /\ DOMAIN U = G /\ DOMAIN A = G
  BY DEF NormPhases
<1>2. \A i \in G : /\ Added(k, i) = A[i] /\ \A c \in X[i] \cup U[i] : c \in Wrote(k, i)
                   /\ \A c \in X[i] : c \in row(i)
                   /\ \A c \in U[i] : IsGlobal(c) /\ c[1] # "x"
  BY DEF NormPhases
<1>3. \A p \in DOMAIN ph : \A i \in G : \A c :
         /\ c \in ph[p][i].wr => (c \in X[i] /\ p = 1) \/ c \in U[i] \/ \E s : c = <<"slm", s, i[1]>> /\ i[2] = 0
         /\ c \in ph[p][i].rd =>
              \/ c \in row(i) /\ (p = 1 => c \in X[i])
              \/ \E s : c = <<"slm", s, i[1]>> /\ \E q \in 1..(p - 1) : c \in ph[q][<<i[1], 0>>].wr
  BY DEF NormPhases
<1>4. \A p \in DOMAIN ph : (\A i \in G : \A c \in ph[p][i].wr : IsGlobal(c)) \/ (\A i \in G : ph[p][i].rd = {})
  BY DEF NormPhases
<1>5. \A i : \A c \in row(i) : IsGlobal(c) /\ c[1] = "x"
  BY CellOfBuffer
<1>6. \A p \in DOMAIN ph : \A i \in G : \A c :
         /\ c \in ph[p][i].wr => (c \in X[i] /\ p = 1) \/ c \in U[i] \/ (~IsGlobal(c) /\ c[3] = i[1] /\ i[2] = 0)
         /\ c \in ph[p][i].rd =>
              \/ c \in row(i) /\ (p = 1 => c \in X[i])
              \/ /\ ~IsGlobal(c) /\ c[3] = i[1]
                 /\ \E q \in 1..(p - 1) : c \in ph[q][<<i[1], 0>>].wr
  <2>1. ASSUME NEW c, NEW s, NEW g, c = <<"slm", s, g>>
        PROVE  ~IsGlobal(c) /\ c[3] = g
    BY <2>1, LocalCell
  <2> HIDE DEF G, ph, row
  <2> QED
    BY <1>3, <2>1
<1>7. \A i \in G : i = <<i[1], i[2]>> /\ i[1] \in Nat /\ <<i[1], 0>> \in G
  <2>1. \A i \in G : i[1] \in Upto(rows) /\ i[2] \in Upto(RowLanes) /\ i = <<i[1], i[2]>> /\ i[1] \in Nat
    BY <1>1, GridItems, RowAssumption
  <2>2. 0 \in Upto(RowLanes)
    BY RowAssumption DEF Upto
  <2> QED
    BY <1>1, <2>1, <2>2 DEF Grid
<1>8. ASSUME NEW i \in G, NEW j \in G, NEW c, c \in row(i), c \in row(j)
      PROVE  i[1] = j[1]
  <2>1. i[1] \in Nat /\ j[1] \in Nat
    BY <1>7
  <2>2. PICK x \in Upto(dim) : c = <<"x", i[1] * dim + x>>
    BY <1>8 DEF At
  <2>3. PICK y \in Upto(dim) : c = <<"x", j[1] * dim + y>>
    BY <1>8 DEF At
  <2>4. i[1] * dim + x = j[1] * dim + y
    BY <2>2, <2>3
  <2>5. (i[1] * dim + x) \div dim = i[1] /\ (j[1] * dim + y) \div dim = j[1]
    BY <2>1, DivisionUnique
  <2> QED
    BY <2>4, <2>5
<1>9. Shares(O, k.out)
  <2>1. At("x", 0, Upto(rows * dim)) \cap out = {}
    <3>1. \A c \in At("x", 0, Upto(rows * dim)) : c[1] = "x"
      BY CellOfBuffer
    <3>2. \A c \in out : c[1] # "x"
      BY <1>1, <1>2 DEF Shares
    <3> QED
      BY <3>1, <3>2
  <2>2. DOMAIN O = G /\ \A i \in G : O[i] = X[i] \cup U[i]
    OBVIOUS
  <2> HIDE DEF O, G
  <2> QED
    BY <1>1, <2>1, <2>2, SharesTwo
<1>10. \A i \in G : O[i] = X[i] \cup U[i]
  OBVIOUS
<1>11. DOMAIN O = G
  OBVIOUS
<1> HIDE DEF G, ph, row, O
<1>12. \A i \in G : \A c \in O[i] : IsGlobal(c) /\ c \in Wrote(k, i)
  BY <1>2, <1>5, <1>10
<1>13. \A i, j \in G : \A c : c \in O[i] /\ c \in O[j] => i = j
  BY <1>9, <1>11 DEF Shares
<1>14. ASSUME NEW p \in DOMAIN ph, NEW i \in G, NEW c
       PROVE  /\ c \in ph[p][i].wr => c \in O[i] \/ (~IsGlobal(c) /\ c[3] = i[1])
              /\ c \in ph[p][i].rd =>
                    \/ IsGlobal(c) /\ \A j \in G : c \in O[j] => j[1] = i[1]
                    \/ /\ ~IsGlobal(c) /\ c[3] = i[1]
                       /\ \/ c \in ph[p][i].wr
                          \/ \E j \in G : j[1] = i[1] /\ \E q \in 1..(p - 1) : c \in ph[q][j].wr
  <2>1. c \in ph[p][i].wr => c \in O[i] \/ (~IsGlobal(c) /\ c[3] = i[1])
    <3>1. X[i] \cup U[i] = O[i]
      BY <1>10
    <3> QED
      BY <1>6, <3>1, ZenonT(40)
  <2>2. ASSUME c \in row(i), NEW j \in G, c \in O[j]
        PROVE  j[1] = i[1]
    <3>1. c \in X[j]
      BY <1>2, <1>5, <1>10, <2>2
    <3> QED
      BY <1>2, <1>8, <2>2, <3>1
  <2>3. c \in row(i) => IsGlobal(c)
    BY <1>5
  <2>4. <<i[1], 0>> \in G /\ <<i[1], 0>>[1] = i[1]
    BY <1>7
  <2> QED
    BY <1>6, <2>1, <2>2, <2>3, <2>4
<1>15. ASSUME NEW p \in DOMAIN ph, NEW i \in G, NEW j \in G, i[1] = j[1], i # j, NEW c, c \in ph[p][i].wr
       PROVE  c \notin ph[p][j].rd /\ c \notin ph[p][j].wr
  <2>1. i[2] # j[2]
    BY <1>7, <1>15
  <2>2. c \notin ph[p][j].wr
    <3>1. CASE c \in O[i]
      <4>1. IsGlobal(c) /\ c \notin O[j]
        BY <1>12, <1>13, <1>15, <3>1
      <4> QED
        BY <1>6, <1>10, <4>1
    <3>2. CASE c \notin O[i]
      <4>1. i[2] = 0 /\ ~IsGlobal(c)
        BY <1>6, <1>10, <1>15, <3>2
      <4>2. c \notin O[j]
        BY <1>12, <4>1
      <4> QED
        BY <1>6, <1>10, <2>1, <4>1, <4>2
    <3> QED
      BY <3>1, <3>2
  <2>3. c \notin ph[p][j].rd
    <3>1. CASE IsGlobal(c)
      <4>1. c \in U[i] \/ (c \in X[i] /\ p = 1)
        BY <1>6, <1>15, <3>1
      <4>2. c \in U[i] => c \notin row(j)
        BY <1>2, <1>5
      <4>3. c \in X[i] => c \notin X[j]
        BY <1>10, <1>13, <1>15
      <4>4. c \in ph[p][j].rd => c \in row(j) /\ (p = 1 => c \in X[j])
        BY <1>6, <3>1
      <4>5. c \in X[j] => c \in row(j)
        BY <1>2
      <4> QED
        BY <4>1, <4>2, <4>3, <4>4, <4>5
    <3>2. CASE ~IsGlobal(c)
      BY <1>4, <1>15, <3>2
    <3> QED
      BY <3>1, <3>2
  <2> QED
    BY <2>2, <2>3
<1>16. InPhases(k, O, A)
  BY <1>1, <1>2, <1>11, <1>12, <1>14, <1>15 DEF InPhases, G, ph
<1> QED
  BY <1>9, <1>16, PhasesRight

\* The residual, and the square sums of its rows.
NormX(rows, dim) == Mine("x", [lane \in Upto(RowLanes) |-> Elems(lane, dim)], dim, rows, RowLanes)

NormS(rows, dim) == MineTo("sumsq", "x", [lane \in Upto(RowLanes) |-> Elems(lane, dim)], dim, rows, RowLanes)

\* What the items own of the residual, and the terms they add.
LEMMA NormParts ==
    ASSUME NEW rows \in Nat, NEW dim \in Nat \ {0}
    PROVE  /\ DOMAIN NormX(rows, dim) = Grid(rows, RowLanes) /\ DOMAIN NormS(rows, dim) = Grid(rows, RowLanes)
           /\ Shares(NormX(rows, dim), At("x", 0, Upto(rows * dim)))
           /\ Shares(NormS(rows, dim), Totals({"sumsq"}, "x", rows, dim))
           /\ \A i \in Grid(rows, RowLanes) :
                /\ NormX(rows, dim)[i] = At("x", i[1] * dim, Elems(i[2], dim))
                /\ NormS(rows, dim)[i] = Into(<<"sumsq", i[1]>>, NormX(rows, dim)[i])
                /\ \A c \in NormX(rows, dim)[i] : c \in At("x", i[1] * dim, Upto(dim))
<1> DEFINE E == [lane \in Upto(RowLanes) |-> Elems(lane, dim)]
           X == Mine("x", E, dim, rows, RowLanes)
           S == MineTo("sumsq", "x", E, dim, rows, RowLanes)
<1>1. Laned(E, dim, RowLanes)
  BY ElemsLaned
<1>2. \A i \in Grid(rows, RowLanes) : E[i[2]] = Elems(i[2], dim)
  BY GridItems
<1>3. NormX(rows, dim) = X /\ NormS(rows, dim) = S
  BY DEF NormX, NormS
<1> HIDE DEF E
<1>4. /\ DOMAIN X = Grid(rows, RowLanes) /\ Shares(X, At("x", 0, Upto(rows * dim)))
      /\ \A i \in Grid(rows, RowLanes) : /\ X[i] = At("x", i[1] * dim, E[i[2]])
                                       /\ \A c \in X[i] : c \in At("x", i[1] * dim, Upto(dim))
  <2>1. DOMAIN X = Grid(rows, RowLanes)
    BY MineDomain
  <2>2. Shares(X, At("x", 0, Upto(rows * dim)))
    BY <1>1, MineShares
  <2>3. \A i \in Grid(rows, RowLanes) : X[i] = At("x", i[1] * dim, E[i[2]])
    BY DEF Mine
  <2>4. \A i \in Grid(rows, RowLanes) : X[i] \subseteq At("x", i[1] * dim, Upto(dim))
    BY <1>1, MineShares
  <2> HIDE DEF X
  <2> QED
    BY <2>1, <2>2, <2>3, <2>4
<1>5. DOMAIN S = Grid(rows, RowLanes) /\ Shares(S, Totals({"sumsq"}, "x", rows, dim))
  BY <1>1, MineSums DEF TotalsOf
<1>6. \A i \in Grid(rows, RowLanes) : S[i] = Into(<<"sumsq", i[1]>>, X[i])
  BY DEF MineTo
<1> HIDE DEF X, S
<1> QED
  BY <1>2, <1>3, <1>4, <1>5, <1>6

\* norm_quant with a scale of the caller: the lanes that wrote an element
\* quantise it.
THEOREM NormQuantStaticRight ==
    ASSUME NEW rows \in Nat, NEW dim \in Nat \ {0}, NEW sg
    PROVE  KernelRight(NormQuant(rows, dim, sg, "static"))
<1> DEFINE grid == Grid(rows, RowLanes)
           own(i) == At("x", i[1] * dim, Elems(i[2], dim))
           E == [lane \in Upto(RowLanes) |-> Elems(lane, dim)]
           f == [i \in grid |-> Does(own(i), own(i), Into(<<"sumsq", i[1]>>, own(i)))]
           r == [i \in grid |-> Does({}, FirstLane(i, Slm(i, 0)), {})]
           g == [i \in grid |-> Does(own(i) \cup Slm(i, 0), At("q", i[1] * dim, Elems(i[2], dim)), {})]
           ph == <<f, r>> \o <<g>>
           X == NormX(rows, dim)
           A == NormS(rows, dim)
           U == Mine("q", E, dim, rows, RowLanes)
           out == At("q", 0, Upto(rows * dim))
           k == NormQuant(rows, dim, sg, "static")
<1>1. k = Kernel(ph, At("x", 0, Upto(rows * dim)) \cup out, Totals({"sumsq"}, "x", rows, dim))
  BY DEF NormQuant, Slm, FirstLane
<1>2. DOMAIN ph = 1..3 /\ ph[1] = f /\ ph[2] = r /\ ph[3] = g
  <2> HIDE DEF f, r, g
  <2> QED
    BY Concat
<1>3. /\ DOMAIN X = grid /\ DOMAIN A = grid
      /\ Shares(X, At("x", 0, Upto(rows * dim))) /\ Shares(A, Totals({"sumsq"}, "x", rows, dim))
      /\ \A i \in grid : /\ X[i] = own(i) /\ A[i] = Into(<<"sumsq", i[1]>>, own(i))
                         /\ \A c \in X[i] : c \in At("x", i[1] * dim, Upto(dim))
  BY NormParts
<1>4. DOMAIN U = grid /\ Shares(U, out) /\ \A i \in grid : U[i] = At("q", i[1] * dim, Elems(i[2], dim))
  <2>1. Laned(E, dim, RowLanes)
    BY ElemsLaned
  <2>2. \A i \in grid : E[i[2]] = Elems(i[2], dim)
    BY GridItems
  <2> HIDE DEF E
  <2>3. Shares(U, out)
    BY <2>1, MineShares
  <2>5. DOMAIN U = grid
    BY MineDomain
  <2>4. \A i \in grid : U[i] = At("q", i[1] * dim, E[i[2]])
    BY DEF Mine
  <2> HIDE DEF U
  <2> QED
    BY <2>2, <2>3, <2>4, <2>5
<1>5. \A i \in grid : \A c \in U[i] : IsGlobal(c) /\ c[1] # "x"
  BY <1>4, CellOfBuffer
<1>6. \A i \in grid : /\ f[i].rd = X[i] /\ f[i].wr = X[i] /\ f[i].add = A[i]
                      /\ r[i].rd = {} /\ r[i].wr = FirstLane(i, Slm(i, 0)) /\ r[i].add = {}
                      /\ g[i].rd = X[i] \cup Slm(i, 0) /\ g[i].wr = U[i] /\ g[i].add = {}
  <2>1. \A i \in grid : f[i].rd = own(i) /\ f[i].wr = own(i) /\ f[i].add = Into(<<"sumsq", i[1]>>, own(i))
    BY DoesIs
  <2>2. \A i \in grid : r[i].rd = {} /\ r[i].wr = FirstLane(i, Slm(i, 0)) /\ r[i].add = {}
    BY DoesIs
  <2>3. \A i \in grid : /\ g[i].rd = own(i) \cup Slm(i, 0) /\ g[i].add = {}
                        /\ g[i].wr = At("q", i[1] * dim, Elems(i[2], dim))
    BY DoesIs
  <2> HIDE DEF X, A, U, own, f, r, g
  <2> QED
    BY <1>3, <1>4, <2>1, <2>2, <2>3
<1>7. DOMAIN f = grid
  OBVIOUS
<1>8. \A i \in grid : <<i[1], 0>> \in grid
  <2>1. 0 \in Upto(RowLanes)
    BY RowAssumption DEF Upto
  <2> QED
    BY <2>1 DEF Grid
<1> HIDE DEF grid, own, E, f, r, g, ph, X, A, U, out, k
<1>9. k.phases = ph /\ Items(k) = grid /\ k.out = At("x", 0, Upto(rows * dim)) \cup out
      /\ k.sums = Totals({"sumsq"}, "x", rows, dim)
  BY <1>1, <1>2, <1>7 DEF Kernel, Items
<1>10. ASSUME NEW i \in grid
       PROVE  Added(k, i) = A[i] /\ \A c \in X[i] \cup U[i] : c \in Wrote(k, i)
  <2>1. \A c : c \in Added(k, i) <=> \E p \in 1..3 : c \in ph[p][i].add
    BY <1>2, <1>9 DEF Added
  <2>2. \A c : c \in Wrote(k, i) <=> \E p \in 1..3 : c \in ph[p][i].wr
    BY <1>2, <1>9 DEF Wrote
  <2>3. 1 \in 1..3 /\ 3 \in 1..3 /\ \A p \in 1..3 : p = 1 \/ p = 2 \/ p = 3
    OBVIOUS
  <2>4. \A c : c \in Added(k, i) <=> c \in A[i]
    BY <1>2, <1>6, <2>1, <2>3
  <2> QED
    BY <1>2, <1>6, <2>2, <2>3, <2>4
<1>11. ASSUME NEW p \in 1..3, NEW i \in grid, NEW c
       PROVE  /\ c \in ph[p][i].wr => \/ c \in X[i] /\ p = 1
                                      \/ c \in U[i]
                                      \/ \E s : c = <<"slm", s, i[1]>> /\ i[2] = 0
              /\ c \in ph[p][i].rd =>
                   \/ c \in At("x", i[1] * dim, Upto(dim)) /\ (p = 1 => c \in X[i])
                   \/ \E s : /\ c = <<"slm", s, i[1]>>
                             /\ \E q \in 1..(p - 1) : c \in ph[q][<<i[1], 0>>].wr
  <2>1. CASE p = 1
    BY <1>2, <1>3, <1>6, <2>1
  <2>2. CASE p = 2
    <3>1. ph[p][i].rd = {} /\ ph[p][i].wr = FirstLane(i, Slm(i, 0))
      BY <1>2, <1>6, <2>2
    <3> QED
      BY <3>1 DEF FirstLane, Slm
  <2>3. CASE p = 3
    <3>1. ph[p][i].rd = X[i] \cup Slm(i, 0) /\ ph[p][i].wr = U[i]
      BY <1>2, <1>6, <2>3
    <3>2. \A x \in Slm(<<i[1], 0>>, 0) : x \in ph[2][<<i[1], 0>>].wr
      BY <1>2, <1>6, <1>8 DEF FirstLane
    <3>3. ASSUME c \in Slm(i, 0)
          PROVE  \E s : /\ c = <<"slm", s, i[1]>>
                        /\ \E q \in 1..(p - 1) : c \in ph[q][<<i[1], 0>>].wr
      <4>1. 2 < p /\ 2 \in Nat \ {0} /\ p \in Nat
        BY <2>3
      <4> QED
        BY <3>2, <3>3, <4>1, SlmRead
    <3>4. c \in X[i] => c \in At("x", i[1] * dim, Upto(dim))
      BY <1>3
    <3> QED
      BY <2>3, <3>1, <3>3, <3>4
  <2> QED
    BY <2>1, <2>2, <2>3
<1>12. ASSUME NEW p \in 1..3
       PROVE  \/ \A i \in grid : \A c \in ph[p][i].wr : IsGlobal(c)
              \/ \A i \in grid : ph[p][i].rd = {}
  <2>1. \A i \in grid : \A c \in X[i] : IsGlobal(c)
    BY <1>3, CellOfBuffer
  <2>2. p = 1 \/ p = 2 \/ p = 3
    OBVIOUS
  <2> QED
    BY <1>2, <1>5, <1>6, <2>1, <2>2
<1>13. NormPhases(k, rows, dim, X, U, A)
  <2>1. /\ Items(k) = Grid(rows, RowLanes) /\ DOMAIN X = Items(k) /\ DOMAIN U = Items(k) /\ DOMAIN A = Items(k)
        /\ Items(k) = grid /\ DOMAIN k.phases = 1..3 /\ k.phases = ph
    BY <1>2, <1>3, <1>4, <1>9 DEF grid
  <2>2. \A i \in grid : \A c \in X[i] : c \in At("x", i[1] * dim, Upto(dim))
    BY <1>3
  <2> QED
    BY <1>5, <1>10, <1>11, <1>12, <2>1, <2>2 DEF NormPhases
<1>14. KernelRight(k)
  BY <1>3, <1>4, <1>9, <1>13, NormPhasesRight
<1> QED
  BY <1>14 DEF k

\* norm_quant to mxfp4: a sub-group scales and packs a group of the row, a lane
\* to an element.
THEOREM NormQuantMxRight ==
    ASSUME NEW rows \in Nat, NEW G \in Nat \ {0}, NEW sg \in Nat \ {0}, NEW turns \in Nat \ {0},
           MxWidth(sg, turns), sg >= MxGroup
    PROVE  KernelRight(NormQuant(rows, G * MxGroup, sg, "mxfp4"))
<1> DEFINE dim == G * MxGroup
           grid == Grid(rows, RowLanes)
           own(i) == At("x", i[1] * dim, Elems(i[2], dim))
           width == G * (MxGroup \div 2)
           EX == MxSpread(OneLane(sg), sg, turns, G, MxGroup)
           EQ == MxSpread(HalvedLanes(sg), sg, turns, G, MxGroup \div 2)
           EL == MxSpread(Leading(sg), sg, turns, G, 1)
           Vals == Mine("q", EQ, width, rows, RowLanes)
           Z == Mine("scale", EL, G, rows, RowLanes)
           R == Mine("x", EX, dim, rows, RowLanes)
           reads(i) == MxReads(i, sg, dim, FALSE)
           took(i) == {x[2] : x \in reads(i)}
           f == [i \in grid |-> Does(own(i), own(i), Into(<<"sumsq", i[1]>>, own(i)))]
           r == [i \in grid |-> Does({}, FirstLane(i, Slm(i, 0)), {})]
           g == [i \in grid |-> Does(took(i) \cup Slm(i, 0),
                                     MxPacks(i, sg, dim) \cup MxScales(i, sg, dim), reads(i))]
           ph == <<f, r>> \o <<g>>
           X == NormX(rows, dim)
           S == NormS(rows, dim)
           L == MxLabelled(EX, G, rows)
           A == [i \in grid |-> S[i] \cup L[i]]
           U == [i \in grid |-> Vals[i] \cup Z[i]]
           out == At("q", 0, Upto(rows * width)) \cup At("scale", 0, Upto(rows * G))
           sumsq == Totals({"sumsq"}, "x", rows, dim)
           absmax == MxAbsmax(rows, dim)
           k == NormQuant(rows, dim, sg, "mxfp4")
<1>1. k = Kernel(ph, At("x", 0, Upto(rows * dim)) \cup out, sumsq \cup absmax)
  <2>1. k = Kernel(ph, At("x", 0, Upto(rows * dim)) \cup MxOutput(rows, dim), sumsq \cup absmax)
    BY DEF NormQuant, Slm, FirstLane
  <2>2. dim \div MxGroup = G /\ dim \div 2 = G * (MxGroup \div 2)
    BY MxParts
  <2> HIDE DEF ph, sumsq, absmax, dim, k
  <2> QED
    BY <2>1, <2>2 DEF MxOutput
<1>2. DOMAIN ph = 1..3 /\ ph[1] = f /\ ph[2] = r /\ ph[3] = g
  <2> HIDE DEF f, r, g
  <2> QED
    BY Concat
<1>3. /\ MxGroup \in Nat \ {0} /\ dim \in Nat \ {0} /\ width \in Nat \ {0}
  BY MxParameters
<1>4. Laned(EX, dim, RowLanes) /\ Laned(EQ, width, RowLanes) /\ Laned(EL, G, RowLanes)
  BY SpreadLaned
<1>5. \A i \in grid : /\ MxPacks(i, sg, dim) = Vals[i] /\ MxScales(i, sg, dim) = Z[i]
                      /\ reads(i) = Labelled("absmax", MxGroup, R[i]) /\ reads(i) = L[i]
  <2>1. ASSUME NEW i \in grid
        PROVE  /\ MxPacks(i, sg, dim) = Vals[i] /\ MxScales(i, sg, dim) = Z[i]
               /\ reads(i) = Labelled("absmax", MxGroup, R[i])
    <3>1. MxCells(sg, turns, G, rows, i)
      BY MxCellsAre
    <3> QED
      BY <3>1 DEF MxCells
  <2>2. \A i \in grid : L[i] = Labelled("absmax", MxGroup, R[i])
    BY DEF MxLabelled
  <2> HIDE DEF reads, Vals, Z, L, R
  <2> QED
    BY <2>1, <2>2
<1> HIDE DEF EX, EQ, EL, dim, width
<1>6. /\ DOMAIN X = grid /\ DOMAIN S = grid
      /\ Shares(X, At("x", 0, Upto(rows * dim))) /\ Shares(S, sumsq)
      /\ \A i \in grid : /\ X[i] = own(i) /\ S[i] = Into(<<"sumsq", i[1]>>, own(i))
                         /\ \A c \in X[i] : c \in At("x", i[1] * dim, Upto(dim))
  BY <1>3, NormParts, ZenonT(40)
<1>7. Shares(Vals, At("q", 0, Upto(rows * width))) /\ Shares(Z, At("scale", 0, Upto(rows * G)))
  BY <1>3, <1>4, MineShares
<1>8. Shares(L, absmax) /\ DOMAIN L = grid
  <2>1. Shares(L, absmax)
    BY <1>3, <1>4, MxSums DEF dim
  <2>2. DOMAIN L = grid
    BY DEF MxLabelled
  <2> QED
    BY <2>1, <2>2
<1>9. DOMAIN Vals = grid /\ DOMAIN Z = grid /\ DOMAIN U = grid /\ DOMAIN A = grid
  BY MineDomain
<1>10. \A i \in grid : /\ \A c \in Vals[i] : IsGlobal(c) /\ c[1] = "q"
                       /\ \A c \in Z[i] : IsGlobal(c) /\ c[1] = "scale"
  BY MineGlobal
<1>11. \A i \in grid : \A c \in R[i] : c \in At("x", i[1] * dim, Upto(dim))
  <2>1. \A i \in grid : R[i] \subseteq At("x", i[1] * dim, Upto(dim))
    BY <1>3, <1>4, MineShares
  <2> HIDE DEF R
  <2> QED
    BY <2>1
<1>12. \A i \in grid : \A c \in took(i) : c \in R[i]
  <2> HIDE DEF R, reads
  <2> QED
    BY <1>5 DEF Labelled, took
<1>13. \A i \in grid : /\ f[i].rd = X[i] /\ f[i].wr = X[i] /\ f[i].add = S[i]
                       /\ r[i].rd = {} /\ r[i].wr = FirstLane(i, Slm(i, 0)) /\ r[i].add = {}
                       /\ g[i].rd = took(i) \cup Slm(i, 0) /\ g[i].wr = U[i] /\ g[i].add = L[i]
                       /\ A[i] = S[i] \cup L[i] /\ U[i] = Vals[i] \cup Z[i]
  <2>1. \A i \in grid : f[i].rd = own(i) /\ f[i].wr = own(i) /\ f[i].add = Into(<<"sumsq", i[1]>>, own(i))
    BY DoesIs
  <2>2. \A i \in grid : r[i].rd = {} /\ r[i].wr = FirstLane(i, Slm(i, 0)) /\ r[i].add = {}
    BY DoesIs
  <2>3. \A i \in grid : /\ g[i].rd = took(i) \cup Slm(i, 0) /\ g[i].add = reads(i)
                        /\ g[i].wr = MxPacks(i, sg, dim) \cup MxScales(i, sg, dim)
    <3> HIDE DEF took, reads
    <3> QED
      BY DoesIs
  <2>4. \A i \in grid : A[i] = S[i] \cup L[i] /\ U[i] = Vals[i] \cup Z[i]
    OBVIOUS
  <2> HIDE DEF X, S, L, A, U, Vals, Z, own, f, r, g, reads, took
  <2>5. \A i \in grid : g[i].wr = U[i] /\ g[i].add = L[i]
    BY <1>5, <2>3, <2>4
  <2>6. \A i \in grid : f[i].rd = X[i] /\ f[i].wr = X[i] /\ f[i].add = S[i]
    BY <1>6, <2>1
  <2> QED
    BY <2>2, <2>3, <2>4, <2>5, <2>6
<1>14. DOMAIN f = grid
  OBVIOUS
<1>15. \A i \in grid : <<i[1], 0>> \in grid
  <2>1. 0 \in Upto(RowLanes)
    BY RowAssumption DEF Upto
  <2> QED
    BY <2>1 DEF Grid
<1>16. At("q", 0, Upto(rows * width)) \cap At("scale", 0, Upto(rows * G)) = {}
  <2>1. \A c \in At("q", 0, Upto(rows * width)) : c[1] = "q"
    BY CellOfBuffer
  <2>2. \A c \in At("scale", 0, Upto(rows * G)) : c[1] = "scale"
    BY CellOfBuffer
  <2> QED
    BY <2>1, <2>2
<1>17. sumsq \cap absmax = {}
  <2>1. \A t \in sumsq : t[1][1] = "sumsq"
    BY TotalName DEF TotalsOf
  <2>2. \A t \in absmax : t[1][1] = "absmax"
    BY DEF MxAbsmax, Into
  <2> HIDE DEF sumsq, absmax
  <2> QED
    BY <2>1, <2>2
<1> HIDE DEF grid, own, Vals, Z, R, reads, took, f, r, g, ph, X, S, L, A, U, sumsq, absmax, k
<1>18. Shares(U, out)
  BY <1>7, <1>9, <1>13, <1>16, SharesTwo
<1>19. Shares(A, sumsq \cup absmax)
  BY <1>6, <1>8, <1>9, <1>13, <1>17, SharesTwo
<1> HIDE DEF out
<1>20. \A i \in grid : \A c \in U[i] : IsGlobal(c) /\ c[1] # "x"
  BY <1>10, <1>13
<1>21. k.phases = ph /\ Items(k) = grid /\ k.out = At("x", 0, Upto(rows * dim)) \cup out
       /\ k.sums = sumsq \cup absmax
  BY <1>1, <1>2, <1>14 DEF Kernel, Items
<1>22. ASSUME NEW i \in grid
       PROVE  Added(k, i) = A[i] /\ \A c \in X[i] \cup U[i] : c \in Wrote(k, i)
  <2>1. \A c : c \in Added(k, i) <=> \E p \in 1..3 : c \in ph[p][i].add
    BY <1>2, <1>21 DEF Added
  <2>2. \A c : c \in Wrote(k, i) <=> \E p \in 1..3 : c \in ph[p][i].wr
    BY <1>2, <1>21 DEF Wrote
  <2>3. 1 \in 1..3 /\ 3 \in 1..3 /\ \A p \in 1..3 : p = 1 \/ p = 2 \/ p = 3
    OBVIOUS
  <2>4. \A c : c \in Added(k, i) <=> c \in A[i]
    BY <1>2, <1>13, <2>1, <2>3
  <2> QED
    BY <1>2, <1>13, <2>2, <2>3, <2>4, ZenonT(40)
<1>23. ASSUME NEW p \in 1..3, NEW i \in grid, NEW c
       PROVE  /\ c \in ph[p][i].wr => \/ c \in X[i] /\ p = 1
                                      \/ c \in U[i]
                                      \/ \E s : c = <<"slm", s, i[1]>> /\ i[2] = 0
              /\ c \in ph[p][i].rd =>
                   \/ c \in At("x", i[1] * dim, Upto(dim)) /\ (p = 1 => c \in X[i])
                   \/ \E s : /\ c = <<"slm", s, i[1]>>
                             /\ \E q \in 1..(p - 1) : c \in ph[q][<<i[1], 0>>].wr
  <2>1. CASE p = 1
    BY <1>2, <1>6, <1>13, <2>1
  <2>2. CASE p = 2
    <3>1. ph[p][i].rd = {} /\ ph[p][i].wr = FirstLane(i, Slm(i, 0))
      BY <1>2, <1>13, <2>2
    <3> QED
      BY <3>1 DEF FirstLane, Slm
  <2>3. CASE p = 3
    <3>1. ph[p][i].rd = took(i) \cup Slm(i, 0) /\ ph[p][i].wr = U[i]
      BY <1>2, <1>13, <2>3
    <3>2. \A x \in Slm(<<i[1], 0>>, 0) : x \in ph[2][<<i[1], 0>>].wr
      BY <1>2, <1>13, <1>15 DEF FirstLane
    <3>3. ASSUME c \in Slm(i, 0)
          PROVE  \E s : /\ c = <<"slm", s, i[1]>>
                        /\ \E q \in 1..(p - 1) : c \in ph[q][<<i[1], 0>>].wr
      <4>1. 2 < p /\ 2 \in Nat \ {0} /\ p \in Nat
        BY <2>3
      <4> QED
        BY <3>2, <3>3, <4>1, SlmRead
    <3>4. c \in took(i) => c \in At("x", i[1] * dim, Upto(dim))
      BY <1>11, <1>12
    <3> QED
      BY <2>3, <3>1, <3>3, <3>4
  <2> QED
    BY <2>1, <2>2, <2>3
<1>24. ASSUME NEW p \in 1..3
       PROVE  \/ \A i \in grid : \A c \in ph[p][i].wr : IsGlobal(c)
              \/ \A i \in grid : ph[p][i].rd = {}
  <2>1. \A i \in grid : \A c \in X[i] : IsGlobal(c)
    BY <1>6, CellOfBuffer
  <2>2. p = 1 \/ p = 2 \/ p = 3
    OBVIOUS
  <2> QED
    BY <1>2, <1>13, <1>20, <2>1, <2>2
<1>25. NormPhases(k, rows, dim, X, U, A)
  <2>1. /\ Items(k) = Grid(rows, RowLanes) /\ DOMAIN X = Items(k) /\ DOMAIN U = Items(k) /\ DOMAIN A = Items(k)
        /\ Items(k) = grid /\ DOMAIN k.phases = 1..3 /\ k.phases = ph
    BY <1>2, <1>6, <1>9, <1>21 DEF grid
  <2>2. \A i \in grid : \A c \in X[i] : c \in At("x", i[1] * dim, Upto(dim))
    BY <1>6
  <2> QED
    BY <1>20, <1>22, <1>23, <1>24, <2>1, <2>2 DEF NormPhases
<1>26. KernelRight(k)
  <2>1. Shares(A, k.sums)
    BY <1>19, <1>21
  <2>2. Shares(X, At("x", 0, Upto(rows * dim))) /\ k.out = At("x", 0, Upto(rows * dim)) \cup out
    BY <1>6, <1>21
  <2> QED
    BY <1>3, <1>18, <1>25, <2>1, <2>2, NormPhasesRight
<1> QED
  BY <1>26 DEF k, dim

\* norm_quant with a scale of the row: the first lane stores it, and the same
\* value in local memory for the others.
THEOREM NormQuantDynamicRight ==
    ASSUME NEW rows \in Nat, NEW dim \in Nat \ {0}, NEW sg
    PROVE  KernelRight(NormQuant(rows, dim, sg, "dynamic"))
<1> DEFINE grid == Grid(rows, RowLanes)
           own(i) == At("x", i[1] * dim, Elems(i[2], dim))
           E == [lane \in Upto(RowLanes) |-> Elems(lane, dim)]
           codes(i) == At("q", i[1] * dim, Elems(i[2], dim))
           f == [i \in grid |-> Does(own(i), own(i), Into(<<"sumsq", i[1]>>, own(i)))]
           r == [i \in grid |-> Does({}, FirstLane(i, Slm(i, 0)), {})]
           a == [i \in grid |-> Does(own(i) \cup Slm(i, 0), {}, Into(<<"absmax", i[1]>>, own(i)))]
           s == [i \in grid |-> Does({}, FirstLane(i, Slm(i, 1) \cup {<<"scale", i[1]>>}), {})]
           g == [i \in grid |-> Does(own(i) \cup Slm(i, 1), codes(i), {})]
           ph == <<f, r>> \o <<a, s, g>>
           X == NormX(rows, dim)
           S == NormS(rows, dim)
           M == MineTo("absmax", "x", E, dim, rows, RowLanes)
           Vals == Mine("q", E, dim, rows, RowLanes)
           Z == [i \in grid |-> ByFirst(i, "scale")]
           A == [i \in grid |-> S[i] \cup M[i]]
           U == [i \in grid |-> Vals[i] \cup Z[i]]
           res == At("x", 0, Upto(rows * dim))
           qs == At("q", 0, Upto(rows * dim))
           scales == At("scale", 0, Upto(rows))
           sumsq == Totals({"sumsq"}, "x", rows, dim)
           absmax == Totals({"absmax"}, "x", rows, dim)
           k == NormQuant(rows, dim, sg, "dynamic")
<1>1. k = Kernel(ph, res \cup (qs \cup scales), sumsq \cup absmax)
  <2>1. k = Kernel(ph, res \cup qs \cup scales, sumsq \cup absmax)
    BY DEF NormQuant, Slm, FirstLane
  <2>2. res \cup qs \cup scales = res \cup (qs \cup scales)
    <3> HIDE DEF res, qs, scales
    <3> QED
      OBVIOUS
  <2> HIDE DEF k, ph, res, qs, scales, sumsq, absmax
  <2> QED
    BY <2>1, <2>2
<1>2. DOMAIN ph = 1..5 /\ ph[1] = f /\ ph[2] = r /\ ph[3] = a /\ ph[4] = s /\ ph[5] = g
  <2> HIDE DEF f, r, a, s, g
  <2> QED
    BY ConcatThree
<1>3. Laned(E, dim, RowLanes) /\ \A i \in grid : E[i[2]] = Elems(i[2], dim)
  BY ElemsLaned, GridItems
<1>4. /\ DOMAIN X = grid /\ DOMAIN S = grid /\ Shares(X, res) /\ Shares(S, sumsq)
      /\ \A i \in grid : /\ X[i] = own(i) /\ S[i] = Into(<<"sumsq", i[1]>>, own(i))
                         /\ \A c \in X[i] : c \in At("x", i[1] * dim, Upto(dim))
  BY NormParts
<1> HIDE DEF E
<1>5. Shares(Vals, qs) /\ DOMAIN Vals = grid
  <2>1. Shares(Vals, qs)
    BY <1>3, MineShares
  <2>2. DOMAIN Vals = grid
    BY MineDomain
  <2> QED
    BY <2>1, <2>2
<1>6. \A i \in grid : Vals[i] = codes(i) /\ M[i] = Into(<<"absmax", i[1]>>, own(i))
  <2>1. \A i \in grid : Vals[i] = At("q", i[1] * dim, E[i[2]]) /\ M[i] = Into(<<"absmax", i[1]>>, At("x", i[1] * dim, E[i[2]]))
    BY DEF Mine, MineTo
  <2> HIDE DEF Vals, M
  <2> QED
    BY <1>3, <2>1
<1>7. Shares(M, absmax) /\ DOMAIN M = grid
  BY <1>3, MineSums DEF TotalsOf
<1>8. Shares(Z, scales) /\ DOMAIN Z = grid
  <2>1. Shares(Z, scales)
    BY RowAssumption, FirstShares
  <2> QED
    BY <2>1
<1>9. DOMAIN U = grid /\ DOMAIN A = grid /\ \A i \in grid : A[i] = S[i] \cup M[i] /\ U[i] = Vals[i] \cup Z[i]
  OBVIOUS
<1>10. \A i \in grid : /\ \A c \in Vals[i] : IsGlobal(c) /\ c[1] = "q"
                       /\ \A c \in Z[i] : IsGlobal(c) /\ c[1] = "scale"
  BY MineGlobal, FirstCell
<1>11. \A i \in grid : /\ f[i].rd = X[i] /\ f[i].wr = X[i] /\ f[i].add = S[i]
                       /\ r[i].rd = {} /\ r[i].wr = FirstLane(i, Slm(i, 0)) /\ r[i].add = {}
  <2>1. \A i \in grid : f[i].rd = own(i) /\ f[i].wr = own(i) /\ f[i].add = Into(<<"sumsq", i[1]>>, own(i))
    BY DoesIs
  <2>2. \A i \in grid : r[i].rd = {} /\ r[i].wr = FirstLane(i, Slm(i, 0)) /\ r[i].add = {}
    BY DoesIs
  <2> HIDE DEF X, S, own, f, r
  <2> QED
    BY <1>4, <2>1, <2>2
<1>12. \A i \in grid : /\ a[i].rd = X[i] \cup Slm(i, 0) /\ a[i].wr = {} /\ a[i].add = M[i]
                       /\ s[i].rd = {} /\ s[i].add = {}
                       /\ s[i].wr = FirstLane(i, Slm(i, 1)) \cup Z[i]
                       /\ g[i].rd = X[i] \cup Slm(i, 1) /\ g[i].wr = Vals[i] /\ g[i].add = {}
  <2>1. \A i \in grid : a[i].rd = own(i) \cup Slm(i, 0) /\ a[i].wr = {} /\ a[i].add = Into(<<"absmax", i[1]>>, own(i))
    BY DoesIs
  <2>2. \A i \in grid : s[i].rd = {} /\ s[i].add = {} /\ s[i].wr = FirstLane(i, Slm(i, 1) \cup {<<"scale", i[1]>>})
    BY DoesIs
  <2>3. \A i \in grid : g[i].rd = own(i) \cup Slm(i, 1) /\ g[i].wr = codes(i) /\ g[i].add = {}
    BY DoesIs
  <2>4. \A i \in grid : FirstLane(i, Slm(i, 1) \cup {<<"scale", i[1]>>}) = FirstLane(i, Slm(i, 1)) \cup Z[i]
    BY DEF FirstLane, ByFirst
  <2> HIDE DEF X, M, Vals, Z, own, codes, a, s, g
  <2>5. \A i \in grid : a[i].rd = X[i] \cup Slm(i, 0) /\ a[i].wr = {} /\ a[i].add = M[i]
    BY <1>4, <1>6, <2>1
  <2>6. \A i \in grid : s[i].rd = {} /\ s[i].add = {} /\ s[i].wr = FirstLane(i, Slm(i, 1)) \cup Z[i]
    BY <2>2, <2>4
  <2>7. \A i \in grid : g[i].rd = X[i] \cup Slm(i, 1) /\ g[i].wr = Vals[i] /\ g[i].add = {}
    BY <1>4, <1>6, <2>3
  <2> QED
    BY <2>5, <2>6, <2>7
<1>13. DOMAIN f = grid
  OBVIOUS
<1>14. \A i \in grid : <<i[1], 0>> \in grid
  <2>1. 0 \in Upto(RowLanes)
    BY RowAssumption DEF Upto
  <2> QED
    BY <2>1 DEF Grid
<1>15. qs \cap scales = {}
  <2>1. \A c \in qs : c[1] = "q"
    BY CellOfBuffer
  <2>2. \A c \in scales : c[1] = "scale"
    BY CellOfBuffer
  <2> HIDE DEF qs, scales
  <2> QED
    BY <2>1, <2>2
<1>16. sumsq \cap absmax = {}
  <2>1. \A t \in sumsq : t[1][1] = "sumsq"
    BY TotalName DEF TotalsOf
  <2>2. \A t \in absmax : t[1][1] = "absmax"
    BY TotalName DEF TotalsOf
  <2> HIDE DEF sumsq, absmax
  <2> QED
    BY <2>1, <2>2
<1> DEFINE out == qs \cup scales
<1> HIDE DEF grid, own, codes, f, r, a, s, g, ph, X, S, M, Vals, Z, A, U, res, qs, scales, sumsq, absmax, k
<1>17. Shares(U, out)
  BY <1>5, <1>8, <1>9, <1>15, SharesTwo
<1>18. Shares(A, sumsq \cup absmax)
  BY <1>4, <1>7, <1>9, <1>16, SharesTwo
<1>19. \A i \in grid : \A c \in U[i] : IsGlobal(c) /\ c[1] # "x"
  BY <1>9, <1>10
<1>20. k.phases = ph /\ Items(k) = grid /\ k.out = res \cup out /\ k.sums = sumsq \cup absmax
  BY <1>1, <1>2, <1>13 DEF Kernel, Items
<1> HIDE DEF out
<1>21. 1 \in 1..5 /\ 2 \in 1..5 /\ 3 \in 1..5 /\ 4 \in 1..5 /\ 5 \in 1..5
       /\ \A p \in 1..5 : p = 1 \/ p = 2 \/ p = 3 \/ p = 4 \/ p = 5
  OBVIOUS
<1>22. ASSUME NEW i \in grid
       PROVE  Added(k, i) = A[i] /\ \A c \in X[i] \cup U[i] : c \in Wrote(k, i)
  <2>1. \A c : c \in Added(k, i) <=> \E p \in 1..5 : c \in ph[p][i].add
    BY <1>2, <1>20 DEF Added
  <2>2. \A c : c \in Wrote(k, i) <=> \E p \in 1..5 : c \in ph[p][i].wr
    BY <1>2, <1>20 DEF Wrote
  <2>3. \A c : c \in Added(k, i) <=> c \in A[i]
    BY <1>2, <1>9, <1>11, <1>12, <1>21, <2>1
  <2>4. ASSUME NEW c \in X[i] \cup U[i]
        PROVE  c \in Wrote(k, i)
    <3>1. c \in X[i] \/ c \in Vals[i] \/ c \in Z[i]
      BY <1>9
    <3> QED
      BY <1>2, <1>11, <1>12, <1>21, <2>2, <3>1
  <2> QED
    BY <2>3, <2>4
<1>23. ASSUME NEW p \in 1..5, NEW i \in grid, NEW c
       PROVE  /\ c \in ph[p][i].wr => \/ c \in X[i] /\ p = 1
                                      \/ c \in U[i]
                                      \/ \E x : c = <<"slm", x, i[1]>> /\ i[2] = 0
              /\ c \in ph[p][i].rd =>
                   \/ c \in At("x", i[1] * dim, Upto(dim)) /\ (p = 1 => c \in X[i])
                   \/ \E x : /\ c = <<"slm", x, i[1]>>
                             /\ \E q \in 1..(p - 1) : c \in ph[q][<<i[1], 0>>].wr
  <2>1. CASE p = 1
    BY <1>2, <1>4, <1>11, <2>1
  <2>2. CASE p = 2
    <3>1. ph[p][i].rd = {} /\ ph[p][i].wr = FirstLane(i, Slm(i, 0))
      BY <1>2, <1>11, <2>2
    <3> QED
      BY <3>1 DEF FirstLane, Slm
  <2>3. CASE p = 3
    <3>1. ph[p][i].rd = X[i] \cup Slm(i, 0) /\ ph[p][i].wr = {}
      BY <1>2, <1>12, <2>3
    <3>2. \A x \in Slm(<<i[1], 0>>, 0) : x \in ph[2][<<i[1], 0>>].wr
      BY <1>2, <1>11, <1>14 DEF FirstLane
    <3>3. ASSUME c \in Slm(i, 0)
          PROVE  \E x : /\ c = <<"slm", x, i[1]>>
                        /\ \E q \in 1..(p - 1) : c \in ph[q][<<i[1], 0>>].wr
      <4>1. 2 \in Nat \ {0} /\ 2 < p /\ p \in Nat
        BY <2>3
      <4> QED
        BY <3>2, <3>3, <4>1, SlmRead
    <3>4. c \in X[i] => c \in At("x", i[1] * dim, Upto(dim))
      BY <1>4
    <3> QED
      BY <2>3, <3>1, <3>3, <3>4
  <2>4. CASE p = 4
    <3>1. ph[p][i].rd = {} /\ ph[p][i].wr = FirstLane(i, Slm(i, 1)) \cup Z[i]
      BY <1>2, <1>12, <2>4
    <3>2. c \in Z[i] => c \in U[i]
      BY <1>9
    <3>3. c \in FirstLane(i, Slm(i, 1)) => \E x : c = <<"slm", x, i[1]>> /\ i[2] = 0
      BY DEF FirstLane, Slm
    <3> QED
      BY <3>1, <3>2, <3>3
  <2>5. CASE p = 5
    <3>1. ph[p][i].rd = X[i] \cup Slm(i, 1) /\ ph[p][i].wr = Vals[i]
      BY <1>2, <1>12, <2>5
    <3>2. \A x \in Slm(<<i[1], 0>>, 1) : x \in ph[4][<<i[1], 0>>].wr
      BY <1>2, <1>12, <1>14 DEF FirstLane
    <3>3. ASSUME c \in Slm(i, 1)
          PROVE  \E x : /\ c = <<"slm", x, i[1]>>
                        /\ \E q \in 1..(p - 1) : c \in ph[q][<<i[1], 0>>].wr
      <4>1. 4 \in Nat \ {0} /\ 4 < p /\ p \in Nat
        BY <2>5
      <4> QED
        BY <3>2, <3>3, <4>1, SlmRead
    <3>4. (c \in X[i] => c \in At("x", i[1] * dim, Upto(dim))) /\ (c \in Vals[i] => c \in U[i])
      BY <1>4, <1>9
    <3> QED
      BY <2>5, <3>1, <3>3, <3>4
  <2> QED
    BY <1>21, <2>1, <2>2, <2>3, <2>4, <2>5
<1>24. ASSUME NEW p \in 1..5
       PROVE  \/ \A i \in grid : \A c \in ph[p][i].wr : IsGlobal(c)
              \/ \A i \in grid : ph[p][i].rd = {}
  <2>1. \A i \in grid : \A c \in X[i] : IsGlobal(c)
    BY <1>4, CellOfBuffer
  <2>2. CASE p = 1 \/ p = 2
    BY <1>2, <1>11, <2>1, <2>2
  <2>3. CASE p = 3 \/ p = 4 \/ p = 5
    BY <1>2, <1>10, <1>12, <2>3
  <2> QED
    BY <1>21, <2>2, <2>3
<1>25. NormPhases(k, rows, dim, X, U, A)
  <2>1. /\ Items(k) = Grid(rows, RowLanes) /\ DOMAIN X = Items(k) /\ DOMAIN U = Items(k) /\ DOMAIN A = Items(k)
        /\ Items(k) = grid /\ DOMAIN k.phases = 1..5 /\ k.phases = ph
    BY <1>2, <1>4, <1>9, <1>20 DEF grid
  <2>2. \A i \in grid : \A c \in X[i] : c \in At("x", i[1] * dim, Upto(dim))
    BY <1>4
  <2> QED
    BY <1>19, <1>22, <1>23, <1>24, <2>1, <2>2, SMTT(30) DEF NormPhases
<1>26. KernelRight(k)
  <2>1. Shares(A, k.sums)
    BY <1>18, <1>20
  <2>2. Shares(X, At("x", 0, Upto(rows * dim))) /\ k.out = At("x", 0, Upto(rows * dim)) \cup out
    BY <1>4, <1>20 DEF res
  <2> QED
    BY <1>17, <1>25, <2>1, <2>2, NormPhasesRight
<1> QED
  BY <1>26 DEF k
=============================================================================
