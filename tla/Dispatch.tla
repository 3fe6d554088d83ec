------------------------------ MODULE Dispatch ------------------------------
(***************************************************************************)
(* What one call of the op ABI does to the queues it is given: how the     *)
(* implementation is chosen, the commands it submits, the events they      *)
(* depend on, and where the host waits.                                    *)
(*                                                                         *)
(* A command reads and writes buffers, named by their role in the call; it *)
(* is submitted once the host has waited for the commands at the positions *)
(* `waited`, and starts after those at `after`.  The ranks of an           *)
(* all-reduce, commands with `meets`, run together.  The host waits for    *)
(* `last` before the call returns; when the call is blocking it also waits *)
(* for the event of the command submitted last, which is the one every     *)
(* kernel returns.                                                         *)
(*                                                                         *)
(* A call is [op, variant, dt, M, onednn (the build has it), fails (what   *)
(* oneDNN refuses: "nothing", the "engine" or the "primitive"), cold       *)
(* (nothing is cached yet)].                                               *)
(***************************************************************************)
EXTENDS Integers, Sequences, FiniteSets

\* A buffer that is there once per rank or per row is a name and a number.
Numbered(names, n) == {<<name, n>> : name \in names}

OnBuffers(rd, wr, after) ==
    [rd |-> rd, wr |-> wr, after |-> after, waited |-> {}, meets |-> FALSE, queue |-> 1]

Command(rd, wr, after) == OnBuffers(Numbered(rd, 0), Numbered(wr, 0), after)

Waited(command, positions) == [command EXCEPT !.waited = positions]

Plan(commands) == [commands |-> commands, last |-> {}, allocates |-> FALSE, throws |-> FALSE]
Throws == [Plan(<<>>) EXCEPT !.throws = TRUE]

\* Two commands of which the second depends on the first.
Chain(first, second) == Plan(<<first, [second EXCEPT !.after = {1}]>>)

\* Operations with one kernel: most of the ABI, and what a variant comes to.
Single == Plan(<<Command({"in"}, {"out"}, {})>>)

Fails(c) == c.fails # "nothing"

\* One command of oneDNN, waited for.
Waits == [Single EXCEPT !.last = {1}]

-----------------------------------------------------------------------------
(* The choice of an implementation.                                        *)

variant_available(c, v) == v = "vendor" => c.onednn

\* Never "best", and never a vendor that is not there.
resolve_variant(c, v) == IF v = "vendor" /\ variant_available(c, v) THEN "vendor" ELSE "sycl"

\* What "best" stands for before it is resolved.
BestFor(c) ==
    CASE c.op = "softmax" -> IF c.dt = "f32" THEN "sycl" ELSE "vendor"
      [] c.op \in {"dense_gemm", "qgemm_int8"} -> IF variant_available(c, "vendor") THEN "vendor" ELSE "sycl"
      [] OTHER -> "sycl"

Chosen(c) == resolve_variant(c, IF c.variant = "best" THEN BestFor(c) ELSE c.variant)

\* An engine and a stream are made, then the primitive: one command.
Primitive(c) == IF Fails(c) THEN Throws ELSE Single

gelu_onednn(c) == Primitive(c)
softmax_onednn(c) == Primitive(c)
dense_gemm_onednn(c) == Primitive(c)

\* These catch the dnnl::error and run the native kernel instead; the engine
\* of the integer product is made before its try.
layernorm_onednn(c) == LET p == Primitive(c) IN IF p.throws THEN Single ELSE p
qgemm_int8_onednn(c) ==
    LET p == Primitive(c) IN IF p.throws /\ c.fails = "primitive" THEN Single ELSE p

Vendor(c) ==
    CASE c.op = "gelu" -> gelu_onednn(c)
      [] c.op = "softmax" -> softmax_onednn(c)
      [] c.op = "layernorm" -> layernorm_onednn(c)
      [] c.op = "dense_gemm" -> dense_gemm_onednn(c)
      [] c.op = "qgemm_int8" -> qgemm_int8_onednn(c)

\* What the operations with a vendor kernel come to.
Selected(c) == IF Chosen(c) = "vendor" THEN Vendor(c) ELSE Single

-----------------------------------------------------------------------------
(* Quantised products.                                                     *)

\* The decode GEMV keeps its scratch until a host task has freed it.
Fp8Gemv ==
    [Plan(<<Command({"in"}, {"scratch"}, {}), Command({"scratch"}, {"out"}, {1}),
            Command({}, {"scratch"}, {2})>>) EXCEPT !.allocates = TRUE]

fp8_gemm(c) ==
    IF c.M = 1 /\ c.variant # "vendor" THEN Fp8Gemv
    ELSE IF c.onednn /\ ~Fails(c) THEN Waits ELSE Throws

\* The product, waited for, then its scales, waited for.
ScaledProduct ==
    [Plan(<<Command({"in"}, {"out"}, {}), Waited(Command({"out", "scale"}, {"out"}, {}), {1})>>)
       EXCEPT !.last = {2}]

ViaOneDnn(c) == c.onednn /\ (c.variant = "vendor" \/ (c.variant = "best" /\ c.M > 1))

\* Mutant: a oneDNN that fails is as good as one that ran.
W8A16NoFallback(c) ==
    IF ViaOneDnn(c) THEN (IF Fails(c) THEN Plan(<<>>) ELSE ScaledProduct) ELSE Single

fp8_gemm_w8a16(c) == IF ViaOneDnn(c) /\ ~Fails(c) THEN ScaledProduct ELSE Single

\* fp8_encode and fp8_decode are reorders of oneDNN.
Reorder(c) == IF c.onednn /\ ~Fails(c) THEN Waits ELSE Throws

\* The first call with a type that has a codebook uploads it and waits.
gguf_gemv(c) ==
    IF c.cold
    THEN [Plan(<<Command({}, {"table"}, {}), Waited(Command({"in", "table"}, {"out"}, {}), {1})>>)
            EXCEPT !.allocates = TRUE]
    ELSE Plan(<<Command({"in", "table"}, {"out"}, {})>>)

\* A launch for each row of activations, in no order.
nvfp4_gemm(c) == Plan([m \in 1..c.M |-> OnBuffers(Numbered({"in"}, 0), {<<"out", m>>}, {})])

-----------------------------------------------------------------------------
(* Mixtures of experts, attention and recurrent layers.                    *)

\* nvfp4_moe_fused and nvfp4_moe_relu2_fused add to an output set to zero.
MoeFused == Chain(Command({}, {"out"}, {}), Command({"in", "out"}, {"out"}, {}))

\* Mutant: the output kernel waits for the zeros only.
MoeSplitEarly ==
    Plan(<<Command({}, {"out"}, {}), Command({"in"}, {"scratch"}, {}),
           Command({"scratch", "out"}, {"out"}, {1})>>)

\* nvfp4_moe_split and nvfp4_moe_relu2_split.
MoeSplit ==
    Plan(<<Command({}, {"out"}, {}), Command({"in"}, {"scratch"}, {}),
           Command({"scratch", "out"}, {"out"}, {1, 2})>>)

\* moe_grouped_qswiglu waits for the product, then calls glu.
GroupedQSwiglu ==
    Plan(<<Command({"in"}, {"scratch"}, {}), Waited(Command({"scratch"}, {"out"}, {}), {1})>>)

\* moe_permute: zero, count, scan, scatter.
Permute ==
    Plan(<<Command({}, {"rows_per_expert"}, {}),
           Command({"in", "rows_per_expert"}, {"rows_per_expert"}, {1}),
           Command({"rows_per_expert"}, {"cursors"}, {2}),
           Command({"in", "cursors"}, {"cursors", "out"}, {3})>>)

\* Mutant: the host waits for the partial results.
PagedDecodeWaits ==
    Plan(<<Command({"in"}, {"scratch"}, {}), Waited(Command({"scratch"}, {"out"}, {}), {1})>>)

\* Partial results per split of the context, then their reduction.
PagedDecode == Chain(Command({"in"}, {"scratch"}, {}), Command({"scratch"}, {"out"}, {}))

QwenGdnDecode ==
    Chain(Command({"in", "conv_state"}, {"conv_state", "mixed", "z"}, {}),
          Command({"in", "mixed", "ssm_state"}, {"ssm_state", "out"}, {}))

\* causal_conv1d_prefill: every read of the old window before its update.
ConvPrefill ==
    Chain(Command({"in", "conv_state"}, {"out"}, {}), Command({"in", "conv_state"}, {"conv_state"}, {}))

-----------------------------------------------------------------------------
(* Collectives.                                                            *)

\* Rank r stages its input; then it meets its peers, reads their regions and,
\* in two shots, writes to its own.  `first` is the position of its staging.
Rank(r, world, first) ==
    LET regions == {<<"region", s>> : s \in 1..world}
    IN  <<[OnBuffers({<<"in", r>>}, {<<"region", r>>}, {}) EXCEPT !.queue = r],
          [OnBuffers(regions, {<<"out", r>>, <<"region", r>>}, {first}) EXCEPT !.queue = r, !.meets = TRUE]>>

\* One rank's call, its peers called elsewhere.
all_reduce == Plan(Rank(1, 2, 1))

\* With two GPUs: set up each queue, wait for both; start both ranks, wait for
\* both; copy the first one's result and wait.
all_reduce_sum ==
    LET set(r) == <<[OnBuffers({}, {<<"region", r>>}, {}) EXCEPT !.queue = r],
                    [OnBuffers({<<"host", r>>}, {<<"in", r>>}, {}) EXCEPT !.queue = r]>>
        ranks == Rank(1, 2, 5) \o Rank(2, 2, 7)
        copy == Waited(OnBuffers({<<"out", 1>>}, {<<"out", 0>>}, {}), {6, 8})
    IN  [Plan(set(1) \o set(2) \o [j \in 1..4 |-> Waited(ranks[j], 1..4)] \o <<copy>>)
           EXCEPT !.last = {9}, !.allocates = TRUE]

-----------------------------------------------------------------------------
(* The families: what each of their operations submits.                    *)

activations == [
    gelu |-> "selected", softmax |-> "selected", silu |-> "single", gelu_backward |-> "single",
    glu |-> "single", glu_gelu_f16 |-> "single", glu_quant |-> "single"]

norms == [
    rms_norm |-> "single", fused_add_rms_norm |-> "single", rms_residual_next |-> "single",
    layernorm |-> "selected", norm_quant |-> "single", group_rms_norm_gated |-> "single",
    qk_norm_rope |-> "single"]

attention == [
    attention |-> "single", attention_f16ctx |-> "single", attn_swa |-> "single", rope |-> "single",
    paged_attention_decode |-> "paged_decode", paged_attention_prefill |-> "single",
    mrope |-> "single", rotary_positioned |-> "single", merge_attn_states |-> "single"]

quantization == [
    gguf_gemv |-> "gguf", mxfp4_gemv |-> "single", nvfp4_gemv |-> "single", nvfp4_gemm |-> "rows",
    quantize_int4_group |-> "single", act_quant_int8 |-> "single", fp8_gemm |-> "fp8_gemm",
    fp8_gemm_w8a16 |-> "w8a16", fp8_encode |-> "reorder", fp8_decode |-> "reorder",
    qgemv_int4 |-> "single", w4a16_gemm |-> "single", qgemm_int8 |-> "selected",
    turboquant_encode |-> "single", turboquant_decode |-> "single"]

matmul == [dense_gemm |-> "selected", lora_shrink |-> "single", lora_expand |-> "single"]

moe == [
    moe_route_topk |-> "single", nvfp4_moe_fused |-> "moe_fused", nvfp4_moe_split |-> "moe_split",
    nvfp4_moe_relu2_fused |-> "moe_fused", nvfp4_moe_relu2_split |-> "moe_split",
    moe_grouped_qgemm |-> "single", moe_grouped_qswiglu |-> "qswiglu", moe_permute |-> "permute",
    moe_unpermute_weighted_reduce |-> "single"]

linear_attention == [
    linear_attn |-> "single", qwen_gdn_decode |-> "qwen", gdn_l2norm_qk |-> "single",
    gated_delta_rule_varlen |-> "single"]

ssm == [
    selective_scan |-> "single", ssd_decode |-> "single", ssd_prefill |-> "single",
    causal_conv1d_decode |-> "single", causal_conv1d_prefill |-> "conv_prefill",
    dsv4_hc_post |-> "single"]

serving == [
    embedding_lookup |-> "single", kv_cache_scatter |-> "single", kv_cache_gather |-> "single",
    pool_mean_rms_l2 |-> "single", mqa_logits |-> "single", kv_cache_scatter_paged |-> "single",
    kv_cache_gather_paged |-> "single"]

sampling == [
    argmax |-> "single", sample_categorical |-> "single", top_k_sample |-> "single",
    top_k_renorm |-> "single", top_p_renorm |-> "single"]

utils == [dropout |-> "single", cross_entropy |-> "single", hadamard |-> "single"]

optimizers == [adamw |-> "single"]

collectives == [all_reduce |-> "all_reduce", all_reduce_sum |-> "all_reduce_sum"]

\* The table f, and g's where f has no entry.
Joined(f, g) == [op \in DOMAIN f \cup DOMAIN g |-> IF op \in DOMAIN f THEN f[op] ELSE g[op]]

LayerOps == Joined(Joined(activations, norms), Joined(attention, moe))
RecurrentOps == Joined(linear_attention, ssm)
ProductOps == Joined(quantization, matmul)
OtherOps == Joined(Joined(serving, sampling), Joined(utils, Joined(optimizers, collectives)))
Ops == Joined(Joined(LayerOps, RecurrentOps), Joined(ProductOps, OtherOps))

PlanOf(c) ==
    LET shape == Ops[c.op]
    IN  CASE shape = "single" -> Single
          [] shape = "selected" -> Selected(c)
          [] shape = "fp8_gemm" -> fp8_gemm(c)
          [] shape = "w8a16" -> fp8_gemm_w8a16(c)
          [] shape = "reorder" -> Reorder(c)
          [] shape = "gguf" -> gguf_gemv(c)
          [] shape = "rows" -> nvfp4_gemm(c)
          [] shape = "moe_fused" -> MoeFused
          [] shape = "moe_split" -> MoeSplit
          [] shape = "qswiglu" -> GroupedQSwiglu
          [] shape = "permute" -> Permute
          [] shape = "paged_decode" -> PagedDecode
          [] shape = "qwen" -> QwenGdnDecode
          [] shape = "conv_prefill" -> ConvPrefill
          [] shape = "all_reduce" -> all_reduce
          [] shape = "all_reduce_sum" -> all_reduce_sum

-----------------------------------------------------------------------------
(* When commands run.                                                      *)

\* The commands that are over before command j starts, on queues that are
\* in order or not.
Precedes(plan, inOrder) ==
    LET cs == plan.commands
        before[j \in 1..Len(cs)] ==
            LET direct == cs[j].after \cup cs[j].waited
                            \cup (IF inOrder THEN {i \in 1..(j - 1) : cs[i].queue = cs[j].queue} ELSE {})
            IN  direct \cup UNION {before[i] : i \in direct}
    IN  before

\* The commands over when the call returns.
Over(plan, inOrder, blocking) ==
    LET n == Len(plan.commands)
        waited == plan.last \cup (UNION {plan.commands[j].waited : j \in 1..n})
                    \cup (IF blocking /\ n > 0 THEN {n} ELSE {})
    IN  waited \cup (UNION {Precedes(plan, inOrder)[j] : j \in waited})
=============================================================================
