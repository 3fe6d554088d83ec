------------------------------ MODULE Nvfp4Moe ------------------------------
(***************************************************************************)
(* The kernels of the routed NVFP4 MoE: one that goes from a token's       *)
(* hidden row to its expert's output in local memory, and a pair that      *)
(* passes the projections through scratch.  `gated` tells SwiGLU, whose    *)
(* projections are a gate and an up row, from the squared ReLU.            *)
(*                                                                         *)
(* A pair is a token and one of its experts; the pairs of a token add to   *)
(* the same output row, atomically, so a term of it names its pair.  A     *)
(* pair whose expert does not exist adds nothing.                          *)
(***************************************************************************)
EXTENDS GemmKernels, OutputTiles

Routed(ids, pair, E) == ids[pair + 1] >= 0 /\ ids[pair + 1] < E

SgOf(lane) == lane \div DotLanes
MoeLanes == Subgroups * DotLanes

\* The entries of a pair's projections that belong to rows of I.
Entries(rows, I, gated) == rows \cup (IF gated THEN {row + I : row \in rows} ELSE {})

\* Floats of scratch a pair has.
Width(I, gated) == IF gated THEN 2 * I ELSE I

\* nvfp4_row_dot, and nvfp4_row_dot_pair for a gated row: the lane's share of K.
Projects(lane, cells, K, chunk) == cells \X ChunkElems(lane % DotLanes, chunk, K)

\* Lane 0 of a sub-group stores what the sub-group reduced.
Lead(lane, cells) == IF lane % DotLanes = 0 THEN cells ELSE {}

\* The lane's share of the dot products of the activations with rows of the
\* second matrix, added to the output of the pair's token.
Accumulates(pair, lane, topK, K, I, rows, chunk) ==
    LET share == ChunkElems(lane % DotLanes, chunk, I)
    IN  Does({<<"activated", i, pair>> : i \in share}, {},
             {<<"output", (pair \div topK) * K + row>> : row \in rows} \X {<<pair, i>> : i \in share})

OutputSums(ids, E, topK, K, I) ==
    UNION {{<<"output", (p \div topK) * K + row>> : row \in Upto(K)} \X {<<p, i>> : i \in Upto(I)} :
             p \in {p \in Upto(Len(ids)) : Routed(ids, p, E)}}

\* A work-group per pair.
MoeFused(ids, E, topK, K, I, chunk, gated) ==
    LET live(i) == Routed(ids, i[1], E)
        slm(i, S) == {<<"gate_up", e, i[1]>> : e \in S}
        rows(i) == Stride(SgOf(i[2]), Subgroups, I)
        project(i) == Does({}, Lead(i[2], slm(i, Entries(rows(i), I, gated))),
                           Projects(i[2], slm(i, Entries(rows(i), I, gated)), K, chunk))
        mine(i) == Stride(i[2], MoeLanes, I)
        activate(i) == Does(slm(i, Entries(mine(i), I, gated)), {<<"activated", e, i[1]>> : e \in mine(i)}, {})
        combine(i) == Accumulates(i[1], i[2], topK, K, I, Stride(SgOf(i[2]), Subgroups, K), chunk)
        grid == Grid(Len(ids), MoeLanes)
        routed == {p \in Upto(Len(ids)) : Routed(ids, p, E)}
    IN  Kernel(<<[i \in grid |-> IF live(i) THEN project(i) ELSE Idle],
                 [i \in grid |-> IF live(i) THEN activate(i) ELSE Idle],
                 [i \in grid |-> IF live(i) THEN combine(i) ELSE Idle]>>,
               {},
               OutputSums(ids, E, topK, K, I)
                 \cup UNION {slm(<<p, 0>>, Entries(Upto(I), I, gated)) \X Upto(K) : p \in routed})

fused_typed(ids, E, topK, K, I, chunk) == MoeFused(ids, E, topK, K, I, chunk, TRUE)
relu2_fused_typed(ids, E, topK, K, I, chunk) == MoeFused(ids, E, topK, K, I, chunk, FALSE)

\* A row of work-groups per pair.
MoeProject(ids, E, K, I, chunk, gated) ==
    LET tiles == CeilDiv(I, Subgroups)
        pair(i) == i[1] \div tiles
        row(i) == (i[1] % tiles) * Subgroups + SgOf(i[2])
        cells(p, rows) == At("scratch", p * Width(I, gated), Entries(rows, I, gated))
        works(i) == Routed(ids, pair(i), E) /\ row(i) < I
        project(i) == Does({}, Lead(i[2], cells(pair(i), {row(i)})),
                           Projects(i[2], cells(pair(i), {row(i)}), K, chunk))
        all == UNION {cells(p, Upto(I)) : p \in {p \in Upto(Len(ids)) : Routed(ids, p, E)}}
    IN  Kernel(<<[i \in Grid(Len(ids) * tiles, MoeLanes) |-> IF works(i) THEN project(i) ELSE Idle]>>,
               all, all \X Upto(K))

gate_up_typed(ids, E, K, I, chunk) == MoeProject(ids, E, K, I, chunk, TRUE)
relu2_up_typed(ids, E, K, I, chunk) == MoeProject(ids, E, K, I, chunk, FALSE)

\* Every work-group of a pair computes the pair's activations for itself.
MoeOutput(ids, E, topK, K, I, chunk, gated, height) ==
    LET tiles == CeilDiv(K, Subgroups * height)
        pair(i) == i[1] \div tiles
        live(i) == Routed(ids, pair(i), E)
        slm(i, S) == {<<"activated", e, i[1]>> : e \in S}
        mine(i) == Stride(i[2], MoeLanes, I)
        activate(i) == Does(At("scratch", pair(i) * Width(I, gated), Entries(mine(i), I, gated)), slm(i, mine(i)), {})
        rows(i) == {row \in {RowOf(i[1] % tiles, SgOf(i[2]), r, height) : r \in Upto(height)} : row < K}
        dot(i) == Accumulates(pair(i), i[2], topK, K, I, rows(i), chunk)
        combine(i) == [dot(i) EXCEPT !.rd = slm(i, ChunkElems(i[2] % DotLanes, chunk, I))]
        grid == Grid(Len(ids) * tiles, MoeLanes)
    IN  Kernel(<<[i \in grid |-> IF live(i) THEN activate(i) ELSE Idle],
                 [i \in grid |-> IF live(i) THEN combine(i) ELSE Idle]>>,
               {}, OutputSums(ids, E, topK, K, I))

\* dispatch_split picks the height; dispatch_relu2_split knows one.
output_typed(ids, E, topK, K, I, chunk) ==
    MoeOutput(ids, E, topK, K, I, chunk, TRUE, RowsPerSubgroup(Len(ids), K))
relu2_output_typed(ids, E, topK, K, I, chunk) == MoeOutput(ids, E, topK, K, I, chunk, FALSE, 1)
=============================================================================
