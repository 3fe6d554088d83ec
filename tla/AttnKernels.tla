---------------------------- MODULE AttnKernels ----------------------------
(***************************************************************************)
(* Dense, banded and linear attention, the merge of partial results, and   *)
(* the recurrent layers: gated delta rule, Mamba-2 and selective scan.     *)
(* Sizes are size_t: their arithmetic wraps at SizeMod.                    *)
(*                                                                         *)
(* An output row is one cell of "O"; the terms of its total are the keys   *)
(* it attends to (or the elements it is a sum over).                       *)
(***************************************************************************)
EXTENDS KernelAccess, AttnBands

CONSTANT SizeMod  \* 2 ^ (width of size_t)

ASSUME SizeAssumption == SizeMod \in Nat \ {0}

SizeMinus(a, b) == (a + SizeMod - b) % SizeMod
SizePlus(a, b) == (a + b) % SizeMod

Key(kvHead, seqK, ki) == <<"K", kvHead * seqK + ki>>

\* One item per head and query, kept[h, qi] the keys its loop visits; the
\* row is stored once per buffer of outs.
Attends(heads, kvHeads, seqQ, seqK, visits, due, outs) ==
    LET kvHead(h) == h \div (heads \div kvHeads)
        row(i) == {<<o, i[1]>> : o \in outs}
        keys(i, which) == {Key(kvHead(i[1] \div seqQ), seqK, ki) : ki \in which[i[1] % seqQ]}
        items == Flat(heads * seqQ)
    IN  Kernel(<<[i \in items |-> Does(keys(i, visits) \cup {<<"Q", i[1]>>}, row(i),
                                       Into(<<"O", i[1]>>, keys(i, visits)))]>>,
               UNION {At(o, 0, Upto(heads * seqQ)) : o \in outs},
               UNION {Into(<<"O", i[1]>>, keys(i, due)) : i \in items})

\* Mutant: a query attends up to the position before its own.
CausalKeysBefore(qi, seqQ, seqK, causal) ==
    LET last == IF causal THEN SizePlus(qi, SizeMinus(seqK, seqQ)) ELSE SizeMinus(seqK, 1)
    IN  {ki \in Upto(seqK) : ki < last}

CausalKeys(qi, seqQ, seqK, causal) ==
    LET last == IF causal THEN SizePlus(qi, SizeMinus(seqK, seqQ)) ELSE SizeMinus(seqK, 1)
    IN  {ki \in Upto(seqK) : ki <= last}

\* attention; what is due is the band of the paged prefill.
DenseAttention(heads, kvHeads, seqQ, seqK, causal) ==
    Attends(heads, kvHeads, seqQ, seqK,
            [qi \in Upto(seqQ) |-> CausalKeys(qi, seqQ, seqK, causal)],
            [qi \in Upto(seqQ) |-> Band(qi, seqQ, seqK, causal, -1, -1)], {"O"})

\* attention_f16ctx: the same row, stored a second time as f16.
AttentionF16Ctx(heads, kvHeads, seqQ, seqK, causal) ==
    Attends(heads, kvHeads, seqQ, seqK,
            [qi \in Upto(seqQ) |-> CausalKeys(qi, seqQ, seqK, causal)],
            [qi \in Upto(seqQ) |-> Band(qi, seqQ, seqK, causal, -1, -1)], {"O", "O_f16"})

SwaKeys(qi, seqQ, seqK, window) ==
    LET half == window \div 2
        center == SizePlus(qi, SizeMinus(seqK, seqQ))
        first == IF center > half THEN center - half ELSE 0
        cand == SizePlus(center, half + 1)
    IN  IF window = 0 THEN Upto(seqK)
        ELSE {ki \in Upto(seqK) : first <= ki /\ ki < cand}

\* attn_swa; what is due is the two-sided band of the paged prefill.
AttnSwa(heads, kvHeads, seqQ, seqK, window) ==
    LET side == IF window = 0 THEN -1 ELSE window \div 2
    IN  Attends(heads, kvHeads, seqQ, seqK,
                [qi \in Upto(seqQ) |-> SwaKeys(qi, seqQ, seqK, window)],
                [qi \in Upto(seqQ) |-> Band(qi, seqQ, seqK, FALSE, side, side)], {"O"})

\* merge_attn_states: one item per element; the first of a row adds the
\* log-sum-exp, from partitions that may be empty.
MergeAttnStates(rows, d, empty) ==
    LET parts(r) == {p \in {"a", "b"} : <<p, r>> \notin empty}
        terms(e) == {<<p, e>> : p \in parts(e \div d)}
        lse(e) == IF e % d = 0 THEN {<<"lse", e \div d>>} ELSE {}
        does(i) == Does({<<p, i[1]>> : p \in {"a", "b"}}, {<<"out", i[1]>>} \cup lse(i[1]),
                        Into(<<"out", i[1]>>, terms(i[1])))
    IN  Kernel(<<[i \in Flat(rows * d) |-> does(i)]>>,
               At("out", 0, Upto(rows * d)) \cup At("lse", 0, Upto(rows)),
               UNION {Into(<<"out", e>>, terms(e)) : e \in Upto(rows * d)})

\* linear_attn: the head's KV and z in local memory, then the outputs.
LinearAttn(heads, seq, dim, lanes) ==
    LET kv(i, S) == {<<"KV", e, i[1]>> : e \in S}
        z(i, S) == {<<"z", e, i[1]>> : e \in S}
        first(i) == Does({}, kv(i, Stride(i[2], lanes, dim * dim)) \cup z(i, Stride(i[2], lanes, dim)),
                         {})
        out(i, e) == <<"O", i[1] * seq * dim + e>>
        second(i) == Does(UNION {kv(i, {k * dim + (e % dim) : k \in Upto(dim)}) \cup z(i, Upto(dim)) :
                                   e \in Stride(i[2], lanes, seq * dim)},
                          {out(i, e) : e \in Stride(i[2], lanes, seq * dim)}, {})
        grid == Grid(heads, lanes)
    IN  Kernel(<<[i \in grid |-> first(i)], [i \in grid |-> second(i)]>>,
               At("O", 0, Upto(heads * seq * dim)), {})

-----------------------------------------------------------------------------
(* Recurrent layers.  A slot outside 0..nslots - 1 is null: its outputs    *)
(* are zeros and no state is touched.  A state row of dk elements is one   *)
(* cell.                                                                   *)

SlotOk(slot, nslots) == slot >= 0 /\ slot < nslots

GdnL2Norm(rows, dk) ==
    LET row(i) == At("qk", i[1] * dk, Upto(dk))
    IN  Kernel(<<[i \in Flat(rows) |-> Does(row(i), row(i), Into(<<"ss", i[1]>>, row(i)))]>>,
               At("qk", 0, Upto(rows * dk)),
               UNION {Into(<<"ss", r>>, At("qk", r * dk, Upto(dk))) : r \in Upto(rows)})

\* gated_delta_rule_varlen: a group per row of the batch and value head, a
\* lane per value channel; q and k of a token are staged for the group.
GatedDeltaRule(cu, slots, hk, hv, dk, dv, nslots) ==
    LET batch == Len(slots)
        row(i) == i[1] \div hv
        head(i) == i[1] % hv
        slot(i) == slots[row(i) + 1]
        state(i) == IF SlotOk(slot(i), nslots) THEN {<<"state", (slot(i) * hv + head(i)) * dv + i[2]>>} ELSE {}
        len(i) == cu[row(i) + 2] - cu[row(i) + 1]
        tok(i, t) == cu[row(i) + 1] + t
        slm(i, S) == {<<b, e, i[1]>> : b \in {"qs", "ks"}, e \in S}
        out(i, t) == {<<"core", (tok(i, t) * hv + head(i)) * dv + i[2]>>}
        stage(i, t) == IF t < len(i) THEN Does({}, slm(i, Stride(i[2], dv, dk)), {}) ELSE Does({}, {}, {})
        step(i, t) == IF t < len(i)
                      THEN Does(slm(i, Upto(dk)), out(i, t),
                                IF SlotOk(slot(i), nslots)
                                THEN out(i, t) \X {<<head(i) \div (hv \div hk), e>> : e \in Upto(dk)} ELSE {})
                      ELSE Does({}, {}, {})
        load(i) == Does(state(i), {}, {})
        save(i) == Does({}, IF len(i) > 0 THEN state(i) ELSE {}, {})
        grid == Grid(batch * hv, dv)
        longest == CHOOSE n \in 0..cu[batch + 1] :
                     /\ \A b \in 1..batch : cu[b + 1] - cu[b] <= n
                     /\ \E b \in 1..batch : cu[b + 1] - cu[b] = n
        live == {b \in 1..batch : SlotOk(slots[b], nslots)}
        cells(b) == At("core", cu[b] * hv * dv, Upto((cu[b + 1] - cu[b]) * hv * dv))
        liveCells == UNION {cells(b) : b \in live}
    IN  Kernel(<<[i \in grid |-> load(i)]>>
                 \o [p \in 1..(2 * longest) |->
                       [i \in grid |-> IF p % 2 = 1 THEN stage(i, p \div 2) ELSE step(i, (p \div 2) - 1)]]
                 \o <<[i \in grid |-> save(i)]>>,
               (UNION {cells(b) : b \in 1..batch})
                 \cup UNION {At("state", slots[b] * hv * dv, Upto(hv * dv)) : b \in {x \in live : cu[x + 1] > cu[x]}},
               {<<x[1], <<((x[1][2] \div dv) % hv) \div (hv \div hk), x[2]>>>> : x \in liveCells \X Upto(dk)})

\* The convolution of qwen_gdn_decode: an item per row and channel; those of
\* the values also pass z through, null slot or not.
QwenGdnConv(slots, qk, v, nslots) ==
    LET conv == qk + v
        b(i) == i[1] \div conv
        ch(i) == i[1] % conv
        state(i) == IF SlotOk(slots[b(i) + 1], nslots)
                    THEN {<<"conv", (slots[b(i) + 1] * conv) + ch(i)>>} ELSE {}
        z(i) == IF ch(i) >= qk THEN {<<"z", b(i) * v + ch(i) - qk>>} ELSE {}
        batch == Len(slots)
    IN  Kernel(<<[i \in Flat(batch * conv) |-> Does(state(i), state(i) \cup z(i) \cup {<<"mixed", i[1]>>}, {})]>>,
               At("z", 0, Upto(batch * v)) \cup At("mixed", 0, Upto(batch * conv))
                 \cup UNION {At("conv", slots[r] * conv, Upto(conv)) : r \in {r \in 1..batch : SlotOk(slots[r], nslots)}},
               {})

\* The recurrence of qwen_gdn_decode, after the convolution: the norms of q and
\* k are group reductions, their rows staged for the group's lanes.
QwenGdnRecurrent(slots, heads, dim, nslots) ==
    LET slot(i) == slots[i[1] \div heads + 1]
        ok(i) == SlotOk(slot(i), nslots)
        state(i) == {<<"ssm", (slot(i) * heads + (i[1] % heads)) * dim + i[2]>>}
        core(i) == {<<"core", i[1] * dim + i[2]>>}
        slm(i, S) == {"query", "key"} \X S \X {i[1]}
        none == Does({}, {}, {})
        norm(i) == IF ok(i) THEN Does({}, {}, {<<<<"norm", i[1]>>, i[2]>>}) ELSE Does({}, core(i), {})
        stage(i) == IF ok(i) THEN Does({}, slm(i, {i[2]}), {}) ELSE none
        step(i) == IF ok(i) THEN Does(slm(i, Upto(dim)) \cup state(i), state(i) \cup core(i), {}) ELSE none
        batch == Len(slots)
        live == {r \in 1..batch : SlotOk(slots[r], nslots)}
        grid == Grid(batch * heads, dim)
    IN  Kernel(<<[i \in grid |-> norm(i)], [i \in grid |-> stage(i)], [i \in grid |-> step(i)]>>,
               At("core", 0, Upto(batch * heads * dim))
                 \cup UNION {At("ssm", slots[r] * heads * dim, Upto(heads * dim)) : r \in live},
               UNION {{<<"norm", (r - 1) * heads + h>> : h \in Upto(heads)} \X Upto(dim) : r \in live})

\* causal_conv1d_decode: an item per row and channel shifts that channel's window.
Conv1dDecode(slots, dim, nslots) ==
    LET does(i) == LET b == i[1] \div dim
                       window == {<<"conv", slots[b + 1] * dim + (i[1] % dim)>>}
                   IN  IF SlotOk(slots[b + 1], nslots) THEN Does(window, window \cup {<<"out", i[1]>>}, {})
                       ELSE Does({}, {<<"out", i[1]>>}, {})
    IN  Kernel(<<[i \in Flat(Len(slots) * dim) |-> does(i)]>>,
               At("out", 0, Upto(Len(slots) * dim))
                 \cup UNION {At("conv", s * dim, Upto(dim)) : s \in {slots[r] : r \in {r \in DOMAIN slots : SlotOk(slots[r], nslots)}}},
               {})

\* ssd_decode: read from the source slot, written to the destination, which
\* may be null (a step that only reads).
SsdDecode(src, dst, heads, dim, nslots) ==
    LET batch == Len(src)
        at(s, i) == {<<"state", (s * heads + (i[1] % heads)) * dim + i[2]>>}
        does(i) == LET s == src[i[1] \div heads + 1]
                       d == dst[i[1] \div heads + 1]
                       out == {<<"out", i[1] * dim + i[2]>>}
                   IN  IF ~SlotOk(s, nslots) THEN Does({}, out, {})
                       ELSE Does(at(s, i), out \cup (IF SlotOk(d, nslots) THEN at(d, i) ELSE {}), {})
        kept == {dst[b] : b \in {b \in 1..batch : SlotOk(src[b], nslots) /\ SlotOk(dst[b], nslots)}}
    IN  Kernel(<<[i \in Grid(batch * heads, dim) |-> does(i)]>>,
               At("out", 0, Upto(batch * heads * dim))
                 \cup UNION {At("state", s * heads * dim, Upto(heads * dim)) : s \in kept}, {})

\* ssd_prefill: a lane's state row in local memory, from its first token to
\* the varlen state it leaves.
SsdPrefill(cu, heads, dim) ==
    LET batch == Len(cu) - 1
        mine(i) == {<<"slm", i[2], i[1]>>}
        toks(i) == cu[i[1] \div heads + 1]..(cu[i[1] \div heads + 2] - 1)
        outs(i) == {<<"out", (t * heads + (i[1] % heads)) * dim + i[2]>> : t \in toks(i)}
        last(i) == {<<"varlen", i[1] * dim + i[2]>>}
    IN  Kernel(<<[i \in Grid(batch * heads, dim) |-> Does(mine(i), mine(i) \cup outs(i) \cup last(i), {})]>>,
               At("out", 0, (cu[1] * heads * dim)..(cu[batch + 1] * heads * dim - 1))
                 \cup At("varlen", 0, Upto(batch * heads * dim)), {})

\* selective_scan: an item per channel runs over the sequence.
SelectiveScan(channels, seq) ==
    LET row(i) == At("y", i[1] * seq, Upto(seq))
    IN  Kernel(<<[i \in Flat(channels) |-> Does({}, row(i), {})]>>, At("y", 0, Upto(channels * seq)), {})
=============================================================================
