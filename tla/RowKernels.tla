----------------------------- MODULE RowKernels -----------------------------
(***************************************************************************)
(* Kernels in which a work-group (or a sub-group) owns a row: reductions   *)
(* over the row, then a pass that writes it.  A reduction over the group   *)
(* ends a phase.                                                           *)
(***************************************************************************)
EXTENDS KernelAccess

CONSTANTS
    RowVec,    \* elements of a 16-byte vector
    RowLanes,  \* kRowThreads
    MxGroup    \* elements that share an mxfp4 scale

ASSUME RowAssumption ==
    RowVec \in Nat \ {0} /\ RowLanes \in Nat \ {0} /\ MxGroup \in Nat \ {0}

\* Mutant: the ragged end of the row is left to the vectors.
VecElemsNoTail(lane, n) == {e \in Upto((n \div RowVec) * RowVec) : (e \div RowVec) % RowLanes = lane}

\* Elements of a row a lane visits: its whole vectors, then the scalar tail.
VecElems(lane, n) ==
    LET tail == (n \div RowVec) * RowVec
    IN  {e \in Upto(tail) : (e \div RowVec) % RowLanes = lane} \cup From(tail + lane, RowLanes, n)

Elems(lane, n) == Stride(lane, RowLanes, n)

\* A phase that reads S of its row and accumulates it into the row's total.
Reduces(buffer, total, i, dim, S) ==
    LET cells == At(buffer, i[1] * dim, S)
    IN  Does(cells, {}, Into(<<total, i[1]>>, cells))

Totals(names, buffer, rows, dim) ==
    UNION {Into(<<name, r>>, At(buffer, r * dim, Upto(dim))) : name \in names, r \in Upto(rows)}

\* The scale or the total that lane 0 writes, once per row.
ByFirst(i, buffer) == IF i[2] = 0 THEN {<<buffer, i[1]>>} ELSE {}

-----------------------------------------------------------------------------

Softmax(rows, dim) ==
    LET row(i) == At("x", i[1] * dim, VecElems(i[2], dim))
    IN  Kernel(<<[i \in Grid(rows, RowLanes) |-> Reduces("x", "max", i, dim, VecElems(i[2], dim))],
                 [i \in Grid(rows, RowLanes) |-> Reduces("x", "sum", i, dim, VecElems(i[2], dim))],
                 [i \in Grid(rows, RowLanes) |-> Does(row(i), row(i), {})]>>,
               At("x", 0, Upto(rows * dim)), Totals({"max", "sum"}, "x", rows, dim))

\* rms_norm and layernorm (whose two sums share a pass).
RmsNorm(rows, dim) ==
    LET row(i) == At("x", i[1] * dim, VecElems(i[2], dim))
    IN  Kernel(<<[i \in Grid(rows, RowLanes) |-> Reduces("x", "sumsq", i, dim, VecElems(i[2], dim))],
                 [i \in Grid(rows, RowLanes) |-> Does(row(i), row(i), {})]>>,
               At("x", 0, Upto(rows * dim)), Totals({"sumsq"}, "x", rows, dim))

LayerNorm(rows, dim) ==
    LET row(i) == At("x", i[1] * dim, VecElems(i[2], dim))
        pass(i) == Does(row(i), {}, Into(<<"sum", i[1]>>, row(i)) \cup Into(<<"sumsq", i[1]>>, row(i)))
    IN  Kernel(<<[i \in Grid(rows, RowLanes) |-> pass(i)],
                 [i \in Grid(rows, RowLanes) |-> Does(row(i), row(i), {})]>>,
               At("x", 0, Upto(rows * dim)), Totals({"sum", "sumsq"}, "x", rows, dim))

\* The residual is updated in place; out must not alias it.
FusedAddRmsNorm(rows, dim) ==
    LET e(i, b) == At(b, i[1] * dim, Elems(i[2], dim))
        add(i) == Does(e(i, "x") \cup e(i, "residual"), {}, Into(<<"sumsq", i[1]>>, e(i, "residual")))
        put(i) == Does(e(i, "x") \cup e(i, "residual"), e(i, "residual") \cup e(i, "out"), {})
    IN  Kernel(<<[i \in Grid(rows, RowLanes) |-> add(i)], [i \in Grid(rows, RowLanes) |-> put(i)]>>,
               At("residual", 0, Upto(rows * dim)) \cup At("out", 0, Upto(rows * dim)),
               Totals({"sumsq"}, "residual", rows, dim))

\* Post-norm into the residual stream, then the next layer's pre-norm of it.
RmsResidualNext(rows, dim) ==
    LET e(i, b) == At(b, i[1] * dim, Elems(i[2], dim))
        post(i) == Does(e(i, "residual") \cup e(i, "proj"), e(i, "residual"),
                        Into(<<"res_ss", i[1]>>, e(i, "residual")))
    IN  Kernel(<<[i \in Grid(rows, RowLanes) |-> Reduces("proj", "proj_ss", i, dim, Elems(i[2], dim))],
                 [i \in Grid(rows, RowLanes) |-> post(i)],
                 [i \in Grid(rows, RowLanes) |-> Does(e(i, "residual"), e(i, "out"), {})]>>,
               At("residual", 0, Upto(rows * dim)) \cup At("out", 0, Upto(rows * dim)),
               Totals({"proj_ss"}, "proj", rows, dim) \cup Totals({"res_ss"}, "residual", rows, dim))

\* A work-group per row and group of its channels: i[1] counts both.
GroupRmsNormGated(rows, hidden, groups, normed) ==
    LET size == hidden \div groups
        e(i) == At("x", i[1] * size, Elems(i[2], size)) \cup At("gate", i[1] * size, Elems(i[2], size))
        put(i) == Does(e(i), At("out", i[1] * size, Elems(i[2], size)), {})
        grid == Grid(rows * groups, RowLanes)
    IN  Kernel(IF normed THEN <<[i \in grid |-> Reduces("x", "sumsq", i, size, Elems(i[2], size))],
                                [i \in grid |-> put(i)]>>
               ELSE <<[i \in grid |-> put(i)]>>,
               At("out", 0, Upto(rows * groups * size)),
               IF normed THEN Totals({"sumsq"}, "x", rows * groups, size) ELSE {})

CrossEntropy(rows, vocab, target) ==
    LET picks(i) == IF i[2] = 0 THEN {<<"logits", i[1] * vocab + target>>} ELSE {}
    IN  Kernel(<<[i \in Grid(rows, RowLanes) |-> Reduces("logits", "max", i, vocab, Elems(i[2], vocab))],
                 [i \in Grid(rows, RowLanes) |-> Reduces("logits", "sum", i, vocab, Elems(i[2], vocab))],
                 [i \in Grid(rows, RowLanes) |-> Does(picks(i), ByFirst(i, "loss"), {})]>>,
               At("loss", 0, Upto(rows)), Totals({"max", "sum"}, "logits", rows, vocab))

ActQuantInt8(rows, dim) ==
    LET e(i) == At("x", i[1] * dim, Elems(i[2], dim))
    IN  Kernel(<<[i \in Grid(rows, RowLanes) |-> Reduces("x", "absmax", i, dim, Elems(i[2], dim))],
                 [i \in Grid(rows, RowLanes) |->
                    Does(e(i), At("q", i[1] * dim, Elems(i[2], dim)) \cup ByFirst(i, "scale"), {})]>>,
               At("q", 0, Upto(rows * dim)) \cup At("scale", 0, Upto(rows)),
               Totals({"absmax"}, "x", rows, dim))

-----------------------------------------------------------------------------
(* mxfp4: a sub-group of sg lanes per group of MxGroup elements.  sg is the *)
(* width the build picked.                                                  *)

\* The groups a lane's sub-group takes, and the elements of one its lane has.
MxGroups(i, sg, dim) == Stride(i[2] \div sg, RowLanes \div sg, dim \div MxGroup)
MxElems(i, sg) == {l \in {i[2] % sg} : l < MxGroup}

\* An even lane packs its code and its neighbour's into one byte.
MxPacks(i, sg, dim) ==
    UNION {At("q", i[1] * (dim \div 2), {(g * MxGroup + l) \div 2 : l \in {x \in MxElems(i, sg) : x % 2 = 0}}) :
             g \in MxGroups(i, sg, dim)}

MxScales(i, sg, dim) ==
    IF i[2] % sg = 0 THEN At("scale", i[1] * (dim \div MxGroup), MxGroups(i, sg, dim)) ELSE {}

MxOutput(rows, dim) ==
    At("q", 0, Upto(rows * (dim \div 2))) \cup At("scale", 0, Upto(rows * (dim \div MxGroup)))

MxAbsmax(rows, dim) ==
    UNION {Into(<<"absmax", r * (dim \div MxGroup) + g>>, At("x", r * dim + g * MxGroup, Upto(MxGroup))) :
             r \in Upto(rows), g \in Upto(dim \div MxGroup)}

\* The group's elements lanes read: all of them when they stride, as in
\* glu_quant's first pass, one per lane in norm_quant.
MxReads(i, sg, dim, strided) ==
    UNION {Into(<<"absmax", i[1] * (dim \div MxGroup) + g>>,
                At("x", i[1] * dim + g * MxGroup,
                   IF strided THEN Stride(i[2] % sg, sg, MxGroup) ELSE MxElems(i, sg))) :
             g \in MxGroups(i, sg, dim)}

\* norm_quant: lanes that wrote the residual stride over the row, those that
\* quantise it own groups, and a barrier is between them.
NormQuant(rows, dim, sg, mode) ==
    LET own(i) == At("x", i[1] * dim, Elems(i[2], dim))
        first(i) == Does(own(i), own(i), Into(<<"sumsq", i[1]>>, own(i)))
        slm(i, slot) == {<<"slm", slot, i[1]>>}
        lead(i, cells) == IF i[2] = 0 THEN cells ELSE {}
        grid == Grid(rows, RowLanes)
        rms == <<[i \in grid |-> first(i)], [i \in grid |-> Does({}, lead(i, slm(i, 0)), {})]>>
        amax(i) == Does(own(i) \cup slm(i, 0), {}, Into(<<"absmax", i[1]>>, own(i)))
        scaled(i) == Does({}, lead(i, slm(i, 1) \cup {<<"scale", i[1]>>}), {})
        put(i, slot) == Does(own(i) \cup slm(i, slot), At("q", i[1] * dim, Elems(i[2], dim)), {})
        mx(i) == Does({c[2] : c \in MxReads(i, sg, dim, FALSE)} \cup slm(i, 0),
                      MxPacks(i, sg, dim) \cup MxScales(i, sg, dim), MxReads(i, sg, dim, FALSE))
        residual == At("x", 0, Upto(rows * dim))
        sumsq == Totals({"sumsq"}, "x", rows, dim)
    IN  CASE mode = "static" ->
               Kernel(rms \o <<[i \in grid |-> put(i, 0)]>>,
                      residual \cup At("q", 0, Upto(rows * dim)), sumsq)
          [] mode = "dynamic" ->
               Kernel(rms \o <<[i \in grid |-> amax(i)], [i \in grid |-> scaled(i)], [i \in grid |-> put(i, 1)]>>,
                      residual \cup At("q", 0, Upto(rows * dim)) \cup At("scale", 0, Upto(rows)),
                      sumsq \cup Totals({"absmax"}, "x", rows, dim))
          [] mode = "mxfp4" ->
               Kernel(rms \o <<[i \in grid |-> mx(i)]>>,
                      residual \cup MxOutput(rows, dim), sumsq \cup MxAbsmax(rows, dim))

\* glu_quant: the group is MxGroup in both modes here.
GluQuant(rows, d, sg, mode) ==
    LET reads(i) == MxReads(i, sg, d, TRUE)
        bytes(i) == UNION {At("q", i[1] * d + g * MxGroup, Stride(i[2] % sg, sg, MxGroup)) :
                             g \in MxGroups(i, sg, d)}
        does(i) == Does({c[2] : c \in reads(i)},
                        (IF mode = "mxfp4" THEN MxPacks(i, sg, d) ELSE bytes(i)) \cup MxScales(i, sg, d),
                        reads(i))
    IN  Kernel(<<[i \in Grid(rows, RowLanes) |-> does(i)]>>,
               IF mode = "mxfp4" THEN MxOutput(rows, d)
               ELSE At("q", 0, Upto(rows * d)) \cup At("scale", 0, Upto(rows * (d \div MxGroup))),
               MxAbsmax(rows, d))

-----------------------------------------------------------------------------
(* One sub-group to a row.                                                  *)

\* Query and key heads normalised and rotated in place, and copied as f16.
QkNormRope(tokens, heads, kvHeads, dim, sub, halfOut) ==
    LET combined == heads + kvHeads
        half == dim \div 2
        isKey(i) == i[1] % combined >= heads
        name(i) == IF isKey(i) THEN "K" ELSE "Q"
        base(i) == LET t == i[1] \div combined
                       ch == i[1] % combined
                   IN  (IF isKey(i) THEN t * kvHeads + ch - heads ELSE t * heads + ch) * dim
        own(i) == At(name(i), base(i), Stride(i[2], sub, dim))
        pairs(i) == UNION {{p, p + half} : p \in Stride(i[2], sub, half)}
        copies == [Q |-> IF halfOut THEN {"Q", "Q_f16"} ELSE {"Q"},
                   K |-> IF halfOut THEN {"K", "K_f16"} ELSE {"K"}]
        put(i) == Does(At(name(i), base(i), pairs(i)),
                       UNION {At(b, base(i), pairs(i)) : b \in copies[name(i)]}, {})
        all(buffer, n) == UNION {At(b, 0, Upto(tokens * n * dim)) : b \in copies[buffer]}
        grid == Grid(tokens * combined, sub)
    IN  Kernel(<<[i \in grid |-> Does(own(i), {}, Into(<<"ss", i[1]>>, own(i)))],
                 [i \in grid |-> put(i)]>>,
               all("Q", heads) \cup all("K", kvHeads),
               UNION {Into(<<"ss", g>>, At(name(<<g, 0>>), base(<<g, 0>>), Upto(dim))) :
                        g \in Upto(tokens * combined)})

\* The butterflies of one pass, first elements of the pairs of distance s.
Butterflies(lane, s, n) == {(p \div s) * (2 * s) + (p % s) : p \in Elems(lane, n \div 2)}

\* The distances s = 1, 2, 4, ... below n.
HadamardPasses(n) == {s \in {1, 2, 4, 8} : s < n}

\* Rows of 2, 4, 8 or 16: load to local memory, a pass per power of two, store.
Hadamard(rows, n) ==
    LET sm(i, S) == {<<"sm", e, i[1]>> : e \in S}
        pass(s) == [i \in Grid(rows, RowLanes) |->
                      LET pairs == sm(i, Butterflies(i[2], s, n) \cup {b + s : b \in Butterflies(i[2], s, n)})
                      IN  Does(pairs, pairs, {})]
        load(i) == Does(At("x", i[1] * n, Elems(i[2], n)), sm(i, Elems(i[2], n)), {})
        store(i) == Does(sm(i, Elems(i[2], n)), At("x", i[1] * n, Elems(i[2], n)), {})
        steps == Cardinality(HadamardPasses(n))
    IN  Kernel(<<[i \in Grid(rows, RowLanes) |-> load(i)]>>
                 \o [p \in 1..steps |-> pass(2 ^ (p - 1))]
                 \o <<[i \in Grid(rows, RowLanes) |-> store(i)]>>,
               At("x", 0, Upto(rows * n)), {})

\* pool_mean_rms_l2: a sub-group per sequence, a lane per slice of the channels.
PoolMean(offsets, dim, sub) ==
    LET batch == Len(offsets) - 1
        chans(i) == Stride(i[2], sub, dim)
        tokens(g) == offsets[g + 1]..(offsets[g + 2] - 1)
        read(i) == UNION {At("x", t * dim, chans(i)) : t \in tokens(i[1])}
        terms(i) == UNION {Into(<<"pooled", i[1] * dim + c>>, {<<"x", t * dim + c>> : t \in tokens(i[1])}) :
                             c \in chans(i)}
    IN  Kernel(<<[i \in Grid(batch, sub) |-> Does(read(i), {}, terms(i))],
                 [i \in Grid(batch, sub) |-> Does({}, At("out", i[1] * dim, chans(i)), {})]>>,
               At("out", 0, Upto(batch * dim)),
               UNION {Into(<<"pooled", g * dim + c>>, {<<"x", t * dim + c>> : t \in tokens(g)}) :
                        g \in Upto(batch), c \in Upto(dim)})
=============================================================================
