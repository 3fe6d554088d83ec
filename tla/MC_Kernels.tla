----------------------------- MODULE MC_Kernels -----------------------------
(***************************************************************************)
(* Kernels of every family at small sizes: rows, vectors, chunks and tiles *)
(* that fit, ragged ones, and slots or indices that name nothing.          *)
(***************************************************************************)
EXTENDS ElementKernels, RowKernels, GemmKernels, Nvfp4Moe, AttnKernels

\* What the sizes are to each other: a matrix tile is as wide as the lanes that
\* share it, a work-group has whole sub-groups, one lane to an element of an
\* mxfp4 group, whose codes go in pairs; the int4 groups tried are whole vectors
\* and size_t holds every size tried.
ASSUME CompiledAssumption ==
    /\ MmaLanes = TileN
    /\ MxGroup % 2 = 0 /\ \E turns \in 1..RowLanes : RowLanes = turns * MxGroup
    /\ \A g \in {2, 4} : g % VecW = 0
    /\ SizeMod > 10

\* Accumulators laid out by rows, so that a lane spills what others read.
LanesByRow == [e \in 0..(TileM * TileN - 1) |-> (e \div TileN) % MmaLanes]

VARIABLE input

Run(k) == input.kind = "none" /\ input' = [kind |-> "kernel", kernel |-> k]

Rows == 1..2
Dims == 1..9  \* up to one vector per lane, and a tail

----------------------------------------------------------------------------
(* Element kernels.                                                        *)

TryVecMap == \E n \in 1..7 : Run(Silu(n)) \/ Run(Gelu(n)) \/ Run(Dropout(n)) \/ Run(GeluBackward(n))
TryAdamw == \E n \in 1..3 : Run(Adamw(n))
TryGlu == \E r \in Rows, d \in 1..7 : Run(Glu(r, d, 3))
TryGluGeluF16 == \E r \in Rows, d \in 1..3 : Run(GluGeluF16(r, d))
TryRope == \E t \in Rows, h \in 1..2, d \in {2, 4, 6} : Run(Rope(t, h, d))
TryMrope == \E t \in Rows, h \in 1..2, kv \in 1..2, rot \in {2, 4, 6}, w \in 0..1, neox \in BOOLEAN :
                Run(Mrope(t, h, kv, 6, rot, <<w, (rot \div 2) - w>>, neox))
TryDsv4HcPost == \E t \in Rows, s \in 1..3, h \in 1..2 : Run(Dsv4HcPost(t, s, h))
TryIndexedCopy == \E ix \in {<<1>>, <<2, 0, -1>>, <<-1, 3>>}, row \in 1..3, src \in BOOLEAN :
                      Run(IndexedCopy(ix, row, src))
TryQuantizeInt4 == \E N \in 1..2, K \in 1..3, g \in {2, 4} : Run(QuantizeInt4(N, K * g, g))
TryTurboquantEncode == \E s \in {<<1, 0>>, <<-1, 2>>}, h \in 1..2, b \in {2, 3, 8} :
                           Run(TurboquantEncode(s, h, 5, b, 1))
TryTurboquantDecode == \E s \in {<<1, 0>>, <<-1, 2, 2>>}, h \in 1..2, b \in {2, 3, 8} :
                           Run(TurboquantDecode(s, h, 5, b))

TryElements ==
    \/ TryVecMap \/ TryAdamw \/ TryGlu \/ TryGluGeluF16 \/ TryRope \/ TryMrope \/ TryDsv4HcPost
    \/ TryIndexedCopy \/ TryQuantizeInt4 \/ TryTurboquantEncode \/ TryTurboquantDecode

----------------------------------------------------------------------------
(* Row kernels.                                                            *)

TrySoftmax == \E r \in Rows, d \in Dims : Run(Softmax(r, d))
TryRmsNorm == \E r \in Rows, d \in Dims : Run(RmsNorm(r, d))
TryLayerNorm == \E r \in Rows, d \in Dims : Run(LayerNorm(r, d))
TryFusedAddRmsNorm == \E r \in Rows, d \in 1..5 : Run(FusedAddRmsNorm(r, d))
TryRmsResidualNext == \E r \in Rows, d \in 1..5 : Run(RmsResidualNext(r, d))
TryGroupRmsNormGated == \E r \in Rows, g \in 1..3, s \in 1..5, n \in BOOLEAN :
                            Run(GroupRmsNormGated(r, g * s, g, n))
TryCrossEntropy == \E r \in Rows, v \in Dims : Run(CrossEntropy(r, v, v - 1))
TryActQuantInt8 == \E r \in Rows, d \in Dims : Run(ActQuantInt8(r, d))
TryNormQuant == \E r \in Rows, g \in 1..3, m \in {"static", "dynamic", "mxfp4"} :
                    Run(NormQuant(r, g * MxGroup, MxGroup, m))
TryGluQuant == \E r \in Rows, g \in 1..3, m \in {"fp8", "mxfp4"} :
                   Run(GluQuant(r, g * MxGroup, MxGroup, m))
TryQkNormRope == \E t \in Rows, h \in 1..2, kv \in 1..2, d \in {2, 4, 6, 10}, f \in BOOLEAN :
                     Run(QkNormRope(t, h, kv, d, 4, f))
TryHadamard == \E r \in Rows, n \in {1, 2, 4, 8, 16} : Run(Hadamard(r, n))
TryPoolMean == \E o \in {<<0, 2, 2, 3>>, <<0, 0>>}, d \in {2, 4} : Run(PoolMean(o, d, 2))

TryRows ==
    \/ TrySoftmax \/ TryRmsNorm \/ TryLayerNorm \/ TryFusedAddRmsNorm \/ TryRmsResidualNext
    \/ TryGroupRmsNormGated \/ TryCrossEntropy \/ TryActQuantInt8 \/ TryNormQuant \/ TryGluQuant
    \/ TryQkNormRope \/ TryHadamard \/ TryPoolMean

----------------------------------------------------------------------------
(* Matrix kernels.  A chunk of the quantised ones is 4 or 8 elements, a    *)
(* word 4: groups of a word and more, K ragged in chunks.                  *)

TryQGemvInt4 ==
    \E N \in {1, 3, 4}, s \in {<<8, 8>>, <<24, 8>>, <<20, 4>>, <<12, 12>>, <<12, 4>>,
                               <<16, 16>>, <<32, 16>>, <<24, 12>>, <<4, 4>>, <<44, 4>>} :
        Run(QGemvInt4(N, s[1], s[2], 8, 4))
TryNvfp4Mtiled == \E M \in 1..2, N \in 1..3, K \in {4, 8, 20} : Run(Nvfp4Mtiled(M, N, K, 4))
TryNvfp4Gemv == \E N \in 1..3, K \in {4, 8, 20} : Run(Nvfp4Gemv(N, K, 4))
TryMxfp4Gemv == \E N \in 1..3, K \in {4, 8, 20} : Run(Mxfp4Gemv(N, K, 4))
TryGgufGemv == \E N \in 1..3, K \in {8, 24, 32} : Run(GgufGemv(N, K, 8))
TryFp8W8A16 == \E M \in 1..2, N \in 1..3, K \in {4, 8, 20} : Run(Fp8W8A16(M, N, K, 4))
TryFp8Partial == \E N \in 1..5, K \in 1..30 : Run(Fp8Partial(N, K, 3, 2))
TryFp8Reduce == \E N \in 1..5, K \in 1..30 : Run(Fp8Reduce(N, K, 3))
TryTiledGemm == \E M \in 1..3, N \in 1..3, K \in 1..5 :
                    Run(dense_gemm(M, N, K)) \/ Run(qgemm_int8(M, N, K))
TryW4A16Gemm ==
    \E M \in 1..5, N \in 1..3, s \in {<<2, 2>>, <<4, 2>>, <<6, 2>>, <<6, 3>>, <<6, 6>>} :
        Run(W4A16Gemm(M, N, s[1], s[2]))
TryMqaLogits == \E S \in 1..2, H \in 1..5, D \in {4, 8}, T \in 1..5 : Run(MqaLogits(S, H, D, T))
TryLoraShrink == \E ix \in {<<0, 1>>, <<2, 1>>, <<-1, 0, 0>>}, h \in 1..3, r \in 1..2 :
                     Run(LoraShrink(ix, h, r, 2))
TryLoraExpand == \E ix \in {<<0, 1>>, <<2, 1>>, <<-1, 0, 0>>}, d \in 1..3, r \in 1..2, o \in 0..2 :
                     Run(LoraExpand(ix, r, d, 2, o, 6))

Experts == {<<0, 1>>, <<1, -1, 2, 0>>, <<1, 1, 0, 1>>}
TryMoeFused == \E x \in Experts, K \in {2, 6}, I \in {2, 4, 10} :
                   Run(fused_typed(x, 2, 2, K, I, 2)) \/ Run(relu2_fused_typed(x, 2, 2, K, I, 2))
TryMoeProject == \E x \in Experts, K \in {2, 6}, I \in {2, 4, 10} :
                     Run(gate_up_typed(x, 2, K, I, 2)) \/ Run(relu2_up_typed(x, 2, K, I, 2))
TryMoeOutput == \E x \in Experts, K \in {2, 6, 10, 12}, I \in {2, 4, 10} :
                    Run(output_typed(x, 2, 2, K, I, 2)) \/ Run(relu2_output_typed(x, 2, 2, K, I, 2))

TryGemms ==
    \/ TryQGemvInt4 \/ TryNvfp4Mtiled \/ TryNvfp4Gemv \/ TryMxfp4Gemv \/ TryGgufGemv \/ TryFp8W8A16
    \/ TryFp8Partial \/ TryFp8Reduce \/ TryTiledGemm \/ TryW4A16Gemm \/ TryMqaLogits
    \/ TryLoraShrink \/ TryLoraExpand \/ TryMoeFused \/ TryMoeProject \/ TryMoeOutput

----------------------------------------------------------------------------
(* Attention and recurrent layers: no query before the first key, slots of *)
(* a batch distinct, as ops.hpp asks.                                      *)

Heads == {<<2, 1>>, <<2, 2>>}
TryDenseAttention == \E h \in Heads, q \in 1..3, k \in 1..4, c \in BOOLEAN :
                         q <= k /\ Run(DenseAttention(h[1], h[2], q, k, c))
TryAttentionF16Ctx == \E h \in Heads, q \in 1..3, k \in 1..4, c \in BOOLEAN :
                          q <= k /\ Run(AttentionF16Ctx(h[1], h[2], q, k, c))
TryAttnSwa == \E h \in Heads, q \in 1..3, k \in 1..5, w \in 0..5 :
                  q <= k /\ Run(AttnSwa(h[1], h[2], q, k, w))
TryMergeAttnStates == \E r \in 1..2, d \in 1..3, e \in SUBSET ({"a", "b"} \X {0, 1}) :
                          Run(MergeAttnStates(r, d, e))
TryLinearAttn == \E h \in 1..2, s \in 1..3, d \in 1..3 : Run(LinearAttn(h, s, d, 3))

Slots == {<<0, 2>>, <<2, 0>>, <<-1, 1>>, <<1, 3>>, <<1>>}
Starts == {<<0, 2, 3>>, <<0, 0, 2>>, <<0, 3, 3>>}
TryGdnL2Norm == \E r \in 1..3, d \in 1..3 : Run(GdnL2Norm(r, d))
TryGatedDeltaRule == \E cu \in Starts, s \in {x \in Slots : Len(x) = 2}, hk \in 1..2, g \in 1..2, dk \in 1..3, dv \in 1..2 :
                         Run(GatedDeltaRule(cu, s, hk, hk * g, dk, dv, 3))
TryQwenGdnConv == \E s \in Slots, qk \in 1..2, v \in 1..2 : Run(QwenGdnConv(s, qk, v, 3))
TryQwenGdnRecurrent == \E s \in Slots, h \in 1..2, d \in 1..3 : Run(QwenGdnRecurrent(s, h, d, 3))
TryConv1dDecode == \E s \in Slots, d \in 1..3 : Run(Conv1dDecode(s, d, 3))
TrySsdDecode == \E s \in Slots, t \in {<<0, 2>>, <<1, -1>>, <<0>>}, h \in 1..2, d \in 1..2 :
                    /\ Len(s) = Len(t)
                    /\ \A a, b \in DOMAIN s : a # b => s[a] # t[b]
                    /\ Run(SsdDecode(s, t, h, d, 3))
TrySsdPrefill == \E cu \in Starts, h \in 1..2, d \in 1..2 : Run(SsdPrefill(cu, h, d))
TrySelectiveScan == \E c \in 1..3, s \in 1..3 : Run(SelectiveScan(c, s))

TryAttention ==
    \/ TryDenseAttention \/ TryAttentionF16Ctx \/ TryAttnSwa \/ TryMergeAttnStates \/ TryLinearAttn
    \/ TryGdnL2Norm \/ TryGatedDeltaRule \/ TryQwenGdnConv \/ TryQwenGdnRecurrent
    \/ TryConv1dDecode \/ TrySsdDecode \/ TrySsdPrefill \/ TrySelectiveScan
=============================================================================
