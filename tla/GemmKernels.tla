---------------------------- MODULE GemmKernels ----------------------------
(***************************************************************************)
(* Matrix-vector and matrix-matrix kernels: sub-groups that own a row of   *)
(* the weights, slabs of K reduced by a second kernel, tiles of local      *)
(* memory, DPAS tiles, low-rank adapters.                                  *)
(*                                                                         *)
(* A term of an output is named by its position k along the reduction, a   *)
(* term of a quantised one by <<k, the group whose scale it was given>>.   *)
(***************************************************************************)
EXTENDS KernelAccess

CONSTANTS
    DotLanes,    \* lanes of a sub-group (kSG of the matrix-vector kernels)
    RowsPerWG,   \* sub-groups, so rows, of a work-group
    Tile,        \* TS
    TileM, TileN, TileK,  \* a DPAS tile
    MmaLanes,    \* lanes that share one
    AccLane      \* the lane that holds each element of an accumulator

ASSUME GemmAssumption ==
    /\ DotLanes \in Nat \ {0} /\ RowsPerWG \in Nat \ {0} /\ Tile \in Nat \ {0}
    /\ TileM \in Nat \ {0} /\ TileN \in Nat \ {0} /\ TileK \in Nat \ {0}
    /\ MmaLanes \in Nat \ {0}

\* joint_matrix leaves the layout of an accumulator open.
ASSUME AccLaneAssumption == AccLane \in [0..(TileM * TileN - 1) -> 0..(MmaLanes - 1)]

\* Items of a kernel whose sub-groups own a row: the row and the lane in it.
DotGrid(N) == Grid(CeilDivide(N, RowsPerWG), RowsPerWG * DotLanes)
DotRow(i) == i[1] * RowsPerWG + i[2] \div DotLanes
DotLane(i) == i[2] % DotLanes

Idle == Does({}, {}, {})

\* A term given the scale of its own group.
Terms(K, group) == {<<k, k \div group>> : k \in Upto(K)}

\* One sub-group per row n: terms[lane] of each of the M outputs m * N + n,
\* reduced and written by lane 0.
Dots(M, N, K, group, terms) ==
    LET totals(i) == {<<"y", m * N + DotRow(i)>> : m \in Upto(M)}
        add(i) == IF DotRow(i) >= N THEN Idle
                  ELSE Does({}, {}, totals(i) \X terms[DotLane(i)])
        put(i) == IF DotRow(i) >= N \/ DotLane(i) # 0 THEN Idle ELSE Does({}, totals(i), {})
    IN  Kernel(<<[i \in DotGrid(N) |-> add(i)], [i \in DotGrid(N) |-> put(i)]>>,
               At("y", 0, Upto(M * N)), At("y", 0, Upto(M * N)) \X Terms(K, group))

\* The elements of the chunks a lane strides over.
ChunkElems(lane, chunk, K) ==
    UNION {(c * chunk)..(c * chunk + chunk - 1) : c \in Stride(lane, DotLanes, K \div chunk)}

\* Mutant: the scalar tail starts at the lane of the last chunk.
Int4TermsTailLate(lane, K, group, chunk, word) ==
    LET tail == (K \div chunk) * chunk
        scaleOf(k) == IF group % chunk = 0 THEN ((k \div chunk) * chunk) \div group
                      ELSE ((k \div word) * word) \div group
    IN  {<<k, scaleOf(k)>> : k \in ChunkElems(lane, chunk, K)}
          \cup {<<k, ((k \div 2) * 2) \div group>> : k \in {k \in tail..(K - 1) : lane > 0 /\ ((k - tail) \div 2) % DotLanes = lane}}

\* qgemv_int4: a chunk has one scale when the groups are made of chunks, and
\* one per word otherwise; the tail goes byte by byte, with the scale of its first.
Int4Terms(lane, K, group, chunk, word) ==
    LET tail == (K \div chunk) * chunk
        scaleOf(k) == IF group % chunk = 0 THEN ((k \div chunk) * chunk) \div group
                      ELSE ((k \div word) * word) \div group
    IN  {<<k, scaleOf(k)>> : k \in ChunkElems(lane, chunk, K)}
          \cup {<<k, ((k \div 2) * 2) \div group>> : k \in {k \in tail..(K - 1) : ((k - tail) \div 2) % DotLanes = lane}}

QGemvInt4(N, K, group, chunk, word) ==
    Dots(1, N, K, group, [lane \in Upto(DotLanes) |-> Int4Terms(lane, K, group, chunk, word)])

\* A chunk is two blocks, the first half of its words taking the first scale.
Nvfp4Mtiled(M, N, K, chunk) ==
    LET block(k) == 2 * (k \div chunk) + (IF k % chunk < chunk \div 2 THEN 0 ELSE 1)
    IN  Dots(M, N, K, chunk \div 2,
             [lane \in Upto(DotLanes) |-> {<<k, block(k)>> : k \in ChunkElems(lane, chunk, K)}])

Nvfp4Gemv(N, K, chunk) == Nvfp4Mtiled(1, N, K, chunk)

Mxfp4Gemv(N, K, chunk) ==
    Dots(1, N, K, chunk,
         [lane \in Upto(DotLanes) |-> {<<k, k \div chunk>> : k \in ChunkElems(lane, chunk, K)}])

\* The row of a GGUF matrix, in blocks of the type's size.
GgufGemv(N, K, block) == Mxfp4Gemv(N, K, block)

\* fp8_gemm_w8a16: the grid has a row of work-groups per row of activations,
\* so group g computes row g \div groups.
Fp8W8A16(M, N, K, chunk) ==
    LET groups == CeilDivide(N, RowsPerWG)
        n(i) == (i[1] % groups) * RowsPerWG + i[2] \div DotLanes
        total(i) == {<<"y", (i[1] \div groups) * N + n(i)>>}
        add(i) == IF n(i) >= N THEN Idle
                  ELSE Does({}, {}, total(i) \X {<<k, 0>> : k \in ChunkElems(DotLane(i), chunk, K)})
        put(i) == IF n(i) >= N \/ DotLane(i) # 0 THEN Idle ELSE Does({}, total(i), {})
        grid == Grid(M * groups, RowsPerWG * DotLanes)
    IN  Kernel(<<[i \in grid |-> add(i)], [i \in grid |-> put(i)]>>,
               At("y", 0, Upto(M * N)), At("y", 0, Upto(M * N)) \X {<<k, 0>> : k \in Upto(K)})

-----------------------------------------------------------------------------
(* fp8_gemv: K in slabs, kept a multiple of 4; a second kernel, which      *)
(* depends on the first, adds the slabs up.                                *)

SlabOf(K, slabs) == CeilDivide(CeilDivide(K, slabs), 4) * 4
SlabsUsed(K, slabs) == CeilDivide(K, SlabOf(K, slabs))

\* Every item has cols adjacent columns of one slab.
Fp8Partial(N, K, slabs, cols) ==
    LET tn == CeilDivide(N, cols)
        slab == SlabOf(K, slabs)
        part(i) == {<<"part", (i[1] \div tn) * N + n>> :
                      n \in {c \in Upto(N) : c \div cols = i[1] % tn}}
        ks(s) == (s * slab)..((IF s * slab + slab < K THEN s * slab + slab ELSE K) - 1)
        does(i) == Does({}, part(i), part(i) \X ks(i[1] \div tn))
        S == SlabsUsed(K, slabs)
    IN  Kernel(<<[i \in Flat(S * tn) |-> does(i)]>>, At("part", 0, Upto(S * N)),
               UNION {At("part", s * N, Upto(N)) \X {k \in Upto(K) : k \div slab = s} : s \in Upto(S)})

Fp8Reduce(N, K, slabs) ==
    LET parts(n) == {<<"part", s * N + n>> : s \in Upto(SlabsUsed(K, slabs))}
        does(i) == Does(parts(i[1]), {<<"y", i[1]>>}, Into(<<"y", i[1]>>, parts(i[1])))
    IN  Kernel(<<[i \in Flat(N) |-> does(i)]>>, At("y", 0, Upto(N)),
               UNION {Into(<<"y", n>>, parts(n)) : n \in Upto(N)})

-----------------------------------------------------------------------------
(* Tiles of local memory: stage, barrier, multiply, barrier.               *)

\* Mutant: no barrier between a multiplication and the next stage.
TilePhasesOneBarrier(stage, mad) ==
    LET tiles == Len(stage)
        both(t, i) == Does(stage[t][i].rd \cup mad[t - 1][i].rd, stage[t][i].wr, mad[t - 1][i].add)
    IN  <<stage[1]>> \o [t \in 1..(tiles - 1) |-> [i \in DOMAIN stage[1] |-> both(t + 1, i)]]
                     \o <<mad[tiles]>>

\* The phases of a loop over tiles, stage[t] and mad[t] those of tile t.
TilePhases(stage, mad) ==
    [p \in 1..(2 * Len(stage)) |-> IF p % 2 = 1 THEN stage[(p + 1) \div 2] ELSE mad[p \div 2]]

\* One item per element of a Tile x Tile output.
TiledGemm(M, N, K) ==
    LET cols == CeilDivide(N, Tile)
        row(i) == (i[1] \div cols) * Tile + i[2] \div Tile
        col(i) == (i[1] % cols) * Tile + (i[2] % Tile)
        sm(name, g, r, c) == <<name, r * Tile + c, g>>
        lr(i) == i[2] \div Tile
        lc(i) == i[2] % Tile
        stage(t, i) == Does({}, {sm("As", i[1], lr(i), lc(i)), sm("Bs", i[1], lr(i), lc(i))}, {})
        staged(t, i) == {k \in ((t - 1) * Tile)..(t * Tile - 1) : row(i) < M /\ col(i) < N /\ k < K}
        mad(t, i) == Does(UNION {{sm("As", i[1], lr(i), k), sm("Bs", i[1], k, lc(i))} : k \in Upto(Tile)},
                          {}, Into(<<"C", row(i) * N + col(i)>>, staged(t, i)))
        put(i) == IF row(i) < M /\ col(i) < N THEN Does({}, {<<"C", row(i) * N + col(i)>>}, {}) ELSE Idle
        grid == Grid(CeilDivide(M, Tile) * cols, Tile * Tile)
        tiles == 1..CeilDivide(K, Tile)
    IN  Kernel(TilePhases([t \in tiles |-> [i \in grid |-> stage(t, i)]],
                          [t \in tiles |-> [i \in grid |-> mad(t, i)]]) \o <<[i \in grid |-> put(i)]>>,
               At("C", 0, Upto(M * N)), At("C", 0, Upto(M * N)) \X Upto(K))

dense_gemm(M, N, K) == TiledGemm(M, N, K)
qgemm_int8(M, N, K) == TiledGemm(M, N, K)

\* stage_tile, mad_step, store_tile of xmx_tile.hpp, and w4a16_gemm: a
\* sub-group stages both operands, multiplies, and stores by way of Cs.
StageTile(name, g, lane, size) == {<<name, e, g>> : e \in Stride(lane, MmaLanes, size)}
WholeTile(name, g, size) == {<<name, e, g>> : e \in Upto(size)}
SpillTile(g, lane) == {<<"Cs", e, g>> : e \in {e \in Upto(TileM * TileN) : AccLane[e] = lane}}

\* Mutant: a lane reads the spilled tile as soon as it has spilled its own.
StoreTileNoBarrier(spill, put) ==
    <<[i \in DOMAIN spill |-> Does(put[i].rd, spill[i].wr \cup put[i].wr, {})]>>

StoreTile(spill, put) == <<spill, put>>

W4A16Gemm(M, N, K, group) ==
    LET cols == CeilDivide(N, TileN)
        m(i, e) == (i[1] \div cols) * TileM + e \div TileN
        n(i, e) == (i[1] % cols) * TileN + (e % TileN)
        kept(i) == {e \in Stride(i[2], MmaLanes, TileM * TileN) : m(i, e) < M /\ n(i, e) < N}
        out(i) == {<<"C", m(i, e) * N + n(i, e)>> : e \in kept(i)}
        stage(i) == Does({}, StageTile("As", i[1], i[2], TileM * TileK)
                               \cup StageTile("Bs", i[1], i[2], TileK * TileN), {})
        mad(t, i) == Does(WholeTile("As", i[1], TileM * TileK) \cup WholeTile("Bs", i[1], TileK * TileN),
                          {}, out(i) \X {x \in Terms(K, group) : x[1] \in ((t - 1) * TileK)..(t * TileK - 1)})
        spill(i) == Does({}, SpillTile(i[1], i[2]), {})
        put(i) == Does(StageTile("Cs", i[1], i[2], TileM * TileN), out(i), {})
        grid == Grid(CeilDivide(M, TileM) * cols, MmaLanes)
        tiles == 1..CeilDivide(K, TileK)
    IN  Kernel(TilePhases([t \in tiles |-> [i \in grid |-> stage(i)]],
                          [t \in tiles |-> [i \in grid |-> mad(t, i)]])
                 \o StoreTile([i \in grid |-> spill(i)], [i \in grid |-> put(i)]),
               At("C", 0, Upto(M * N)), At("C", 0, Upto(M * N)) \X Terms(K, group))

\* mqa_logits: a sub-group has TileN keys; the head tiles are staged one after
\* the other and their spill walked by columns, so that a lane that strides by
\* MmaLanes = TileN only ever meets its own column.
MqaLogits(S, H, D, Skv) ==
    LET kvTiles == CeilDivide(Skv, TileN)
        kSteps == D \div TileK
        headTiles == 1..CeilDivide(H, TileM)
        s(i) == i[1] \div kvTiles
        kv(i) == (i[1] % kvTiles) * TileN + i[2]
        stage(i) == Does({}, StageTile("As", i[1], i[2], TileM * TileK)
                               \cup StageTile("Bs", i[1], i[2], TileK * TileN), {})
        mad(i) == Does(WholeTile("As", i[1], TileM * TileK) \cup WholeTile("Bs", i[1], TileK * TileN), {}, {})
        spill(i) == Does({}, SpillTile(i[1], i[2]), {})
        \* The key of the column an entry of the spill belongs to, and its head.
        met(ht, i) == {<<(i[1] % kvTiles) * TileN + (e % TileN), (ht - 1) * TileM + e \div TileN>> :
                         e \in Stride(i[2], MmaLanes, TileM * TileN)}
        walk(ht, i) == Does(StageTile("Cs", i[1], i[2], TileM * TileN), {},
                            IF kv(i) < Skv
                            THEN Into(<<"logits", s(i) * Skv + kv(i)>>, {e \in met(ht, i) : e[2] < H})
                            ELSE {})
        put(i) == IF kv(i) < Skv THEN Does({}, {<<"logits", s(i) * Skv + kv(i)>>}, {}) ELSE Idle
        grid == Grid(S * kvTiles, MmaLanes)
        perHead == 2 * kSteps + 2
        phase(p) == LET ht == (p - 1) \div perHead + 1
                        j == (p - 1) % perHead
                    IN  [i \in grid |-> IF j = 2 * kSteps THEN spill(i)
                                        ELSE IF j = 2 * kSteps + 1 THEN walk(ht, i)
                                        ELSE IF j % 2 = 0 THEN stage(i) ELSE mad(i)]
    IN  Kernel([p \in 1..(Cardinality(headTiles) * perHead) |-> phase(p)] \o <<[i \in grid |-> put(i)]>>,
               At("logits", 0, Upto(S * Skv)),
               {<<<<"logits", x[1] * Skv + x[2]>>, <<x[2], x[3]>>>> :
                  x \in Upto(S) \X Upto(Skv) \X Upto(H)})

-----------------------------------------------------------------------------
(* Low-rank adapters: an index outside 0..loras - 1 means none, which      *)
(* clears the shrunk row and leaves the output of the expansion alone.     *)

HasLora(l, loras) == l >= 0 /\ l < loras

LoraShrink(index, hidden, rank, loras) ==
    LET has(b) == HasLora(index[b + 1], loras)
        terms(b) == At("in", b * hidden, Upto(hidden))
        does(i) == LET b == i[1] \div rank
                   IN  IF has(b) THEN Does(terms(b), {<<"low", i[1]>>}, Into(<<"low", i[1]>>, terms(b)))
                       ELSE Does({}, {<<"low", i[1]>>}, {})
        n == Len(index) * rank
    IN  Kernel(<<[i \in Flat(n) |-> does(i)]>>, At("low", 0, Upto(n)),
               UNION {Into(<<"low", e>>, terms(e \div rank)) : e \in {e \in Upto(n) : has(e \div rank)}})

\* The output is a slice, at offset, of rows of stride elements.
LoraExpand(index, rank, dim, loras, offset, stride) ==
    LET has(b) == HasLora(index[b + 1], loras)
        dst(e) == <<"out", (e \div dim) * stride + offset + (e % dim)>>
        terms(b) == At("low", b * rank, Upto(rank))
        does(i) == LET b == i[1] \div dim
                   IN  IF has(b) THEN Does(terms(b) \cup {dst(i[1])}, {dst(i[1])}, Into(dst(i[1]), terms(b)))
                       ELSE Idle
        live == {e \in Upto(Len(index) * dim) : has(e \div dim)}
    IN  Kernel(<<[i \in Flat(Len(index) * dim) |-> does(i)]>>, {dst(e) : e \in live},
               UNION {Into(dst(e), terms(e \div dim)) : e \in live})
=============================================================================
