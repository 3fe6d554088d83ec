---------------------------- MODULE MC_Algorithms ----------------------------
(***************************************************************************)
(* Algorithms without state of their own, each against what it should      *)
(* return, over every bounded input: the behaviour tries one input after   *)
(* the other.                                                              *)
(***************************************************************************)
EXTENDS GroupedTiles, Selection, Codecs, OutputTiles, Devices, MC_Kernels

Gguf == INSTANCE GgufBlocks
Calls == INSTANCE Dispatch

RowVectors == {v \in [0..(NExperts - 1) -> 0..MTotal] :
                 Prefix(v)[NExperts] <= MTotal}

\* Short rows of three logits, and one long enough for a second vector per thread.
LogitRows == (UNION {[0..(n - 1) -> {NegInf, NegInf + 1, NegInf + 2}] : n \in 1..7})
                \cup [0..9 -> {NegInf, NegInf + 1}]

\* Codes whose first and last bits tell a misplaced shift.
Codes(bits) == {{}, {0}, 0..(bits - 1)}
PackedCodes == 5

\* The bisection of top_p_renorm tells the probabilities of these rows apart.
ASSUME UnitResolved == 2 < 2^Halvings

MaxPairs == 6
MaxRows == 20

Init == input = [kind |-> "none"]

Fresh == input.kind = "none"
TryTiles == Fresh /\ \E r \in RowVectors : input' = [kind |-> "tiles", rows |-> r]
TryLogits == Fresh /\ \E r \in LogitRows : input' = [kind |-> "logits", row |-> r]
TryFloat == Fresh /\ \E e \in MinExp..MaxExp, m \in 0..31 :
                input' = [kind |-> "float", e |-> e, m |-> m]
TryCodes == Fresh /\ \E bits \in 2..8 : \E c \in [0..(PackedCodes - 1) -> Codes(bits)] :
                input' = [kind |-> "codes", bits |-> bits, codes |-> c]
TryProduct == Fresh /\ \E n \in 0..7, s \in 0..Saturated :
                input' = [kind |-> "product", nibble |-> n, scale |-> s]
\* One coordinate at a time: the rotation is linear.
TryKey == Fresh /\ \E passes \in 0..3 : \E at \in 0..(2^passes - 1), signs \in [0..(2^passes - 1) -> {-1, 1}] :
                input' = [kind |-> "key", passes |-> passes, signs |-> signs,
                          key |-> [i \in 0..(2^passes - 1) |-> IF i = at THEN 1 ELSE 0]]
TryCoordinate == Fresh /\ \E n \in {4, 8}, z \in -12..12 : \E gaps \in [1..(n - 1) -> {1, 2}] :
                input' = [kind |-> "coordinate", z |-> z,
                          centroids |-> [m \in 1..n |-> Mass(gaps, 1..(m - 1)) - n]]
TryPlatforms == Fresh /\ \E n \in 0..3 : \E ps \in [1..n -> Platforms] :
                input' = [kind |-> "platforms", platforms |-> ps]
TryShape == Fresh /\ \E p \in 1..MaxPairs, K \in 1..MaxRows :
                input' = [kind |-> "shape", pairs |-> p, K |-> K]
TryBlock == Fresh /\ \E type \in 0..15 : input' = [kind |-> "block", type |-> type]
TryCall == Fresh /\ \E op \in DOMAIN Calls!Ops, v \in {"sycl", "vendor", "best"}, dt \in {"f32", "bf16"},
                       M \in 1..2, onednn, cold \in BOOLEAN,
                       fails \in {"nothing", "engine", "primitive"} :
                input' = [kind |-> "call",
                          call |-> [op |-> op, variant |-> v, dt |-> dt, M |-> M, onednn |-> onednn,
                                    fails |-> fails, cold |-> cold]]
Again == ~Fresh /\ input' = [kind |-> "none"]

Next ==
    \/ TryTiles \/ TryLogits \/ TryFloat \/ TryCodes \/ TryProduct \/ TryShape
    \/ TryKey \/ TryCoordinate \/ TryPlatforms
    \/ TryElements \/ TryRows \/ TryGemms \/ TryAttention
    \/ TryBlock \/ TryCall
    \/ Again
Spec == Init /\ [][Next]_input

---------------------------------------------------------------------------

\* How rows are divided: moe_grouped_qgemm cuts any rows_per_expert, empty
\* experts and ragged last tiles included, into tiles that partition the rows
\* (see TilesPartition); and the output kernel of the split NVFP4 MoE visits
\* every row of a pair once at every tile height it picks, a taller tile never
\* leaving the device fewer than the target number of work-groups.
EveryRowOnce ==
    /\ input.kind = "tiles" => TilesPartition(input.rows)
    /\ input.kind = "shape" =>
         LET p == input.pairs
             K == input.K
         IN  /\ \A row \in 0..(K - 1) : Cardinality(Computing(row, p, K)) = 1
             /\ RowsPerSubgroup(p, K) > 1 => p * RowTiles(p, K) >= TargetWGs

\* Tokens that go before token e: larger logits, and equal ones of lower index.
Ahead(row, e) == {f \in DOMAIN row : row[f] > row[e] \/ (row[f] = row[e] /\ f < e)}

\* gpu_devices, platform after platform, ends with the most Intel GPUs, on
\* Level Zero if that has as many, and with the first such platform; a queue
\* is made there whatever the index; all_reduce_sum takes the first platform
\* with the most GPUs of any kind.
PlatformsRanked(ps) ==
    LET p == gpu_devices(ps)
        most == {q \in DOMAIN ps : \A o \in DOMAIN ps : Intel(ps, o) <= Intel(ps, q)}
        zero == {q \in most : LevelZero(ps, q)}
        largest == {q \in DOMAIN ps : \A o \in DOMAIN ps : AllGpus(ps, o) <= AllGpus(ps, q)}
    IN  /\ IF \A q \in DOMAIN ps : Intel(ps, q) = 0
           THEN make_gpu_queue(ps, 0) = Thrown
           ELSE /\ p = Min(IF zero # {} THEN zero ELSE most)
                /\ {make_gpu_queue(ps, i) : i \in 0..2} = {p} \X (0..(Intel(ps, p) - 1))
        /\ IF \A q \in DOMAIN ps : AllGpus(ps, q) = 0 THEN RingPlatform(ps) = 0
           ELSE RingPlatform(ps) = Min(largest)

\* argmax is the lowest index of a largest logit.
ArgmaxExact(row) == Ahead(row, Argmax(row)) = {}

\* Pick i of k is the token with i - 1 tokens ahead of it; once only masked
\* tokens are left, a pick carries no weight.
PicksExact(row, k) ==
    LET live == {e \in DOMAIN row : row[e] # NegInf}
    IN  \A i \in 1..k :
          LET pick == Picks(row, k)[i] IN
          IF i <= Cardinality(live)
          THEN /\ pick.idx \in live /\ pick.val = row[pick.idx]
               /\ Cardinality(Ahead(row, pick.idx)) = i - 1
          ELSE Weight(pick.val) = 0

\* argmax, moe_route_topk and top_k_sample return what they should, whatever
\* the split into threads, vectors and tail and wherever the ties are, and so
\* do the choices of a platform.
RanksExact ==
    /\ input.kind = "platforms" => PlatformsRanked(input.platforms)
    /\ input.kind = "logits" =>
        /\ ArgmaxExact(input.row)
        /\ \A k \in 1..Min({3, Vocab(input.row)}) : PicksExact(input.row, k)

\* r is what the target selects among the tokens of a sequence of masses: the
\* running sum crosses the target in it, and it has a mass of its own unless
\* the target is itself a running sum.
Inverts(before, mass, target) ==
    /\ before <= target /\ target <= before + mass
    /\ before < target /\ target < before + mass => mass > 0

\* The token sample_categorical draws, and the one top_k_sample draws among the
\* k first, for every target short of the total mass.
CategoricalInverts(row) ==
    LET w == Weights(row)
    IN  \A target \in 0..(Mass(w, DOMAIN row) - 1) :
          LET r == Categorical(w, target)
          IN  Inverts(Mass(w, {i \in DOMAIN row : i < r}), w[r], target)
TopKInverts(row, k) ==
    LET w == Weights(row)
        top == {e \in DOMAIN row : Cardinality(Ahead(row, e)) < k}
    IN  \A target \in 0..(Mass(w, top) - 1) :
          LET r == TopKSample(row, k, target)
          IN  Inverts(Mass(w, Ahead(row, r)), w[r], target)

\* sample_categorical and top_k_sample invert the distribution's CDF: cutting
\* the row into per-thread chunks loses no token and shifts no boundary.  Where
\* the target is no running sum (masses are even, so odd targets), the token
\* drawn is not masked.
DrawInvertsCdf ==
    input.kind = "logits" =>
        /\ CategoricalInverts(input.row)
        /\ \A k \in 1..Min({2, Vocab(input.row)}) : TopKInverts(input.row, k)

\* Logits read as probabilities in some unit, the masked tokens as zero.
Probs(row) == [i \in DOMAIN row |-> row[i] - NegInf]

\* The k largest, with everything equal to the k-th of them.
Largest(p, k) == {v \in DOMAIN p : Cardinality({o \in DOMAIN p : p[o] > p[v]}) < k}

\* The smallest set of largest probabilities whose mass reaches topp.
Nucleus(p, topp) == {v \in DOMAIN p : Mass(p, {o \in DOMAIN p : p[o] > p[v]}) < topp}

\* top_p_renorm keeps the smallest set of largest probabilities whose mass
\* reaches top_p, ties included, although it only bisects a threshold; and
\* top_k_renorm never drops one of the k largest.
NucleusExact ==
    input.kind = "logits" =>
        LET p == Probs(input.row) IN
        /\ \A topp \in 1..Mass(p, DOMAIN p) : TopPKept(p, topp) = Nucleus(p, topp)
        /\ \A k \in 1..3 : Largest(p, k) \subseteq TopKKept(p, k)

\* ops.hpp and the smoke test: top_k_renorm keeps exactly the k largest
\* probabilities, with the ties at the k-th; all others come out as zero.
KeepsExactlyTopK ==
    input.kind = "logits" =>
        LET p == Probs(input.row)
            positive == {v \in DOMAIN p : p[v] > 0}
        IN  \A k \in 1..3 : TopKKept(p, k) \cap positive = Largest(p, k) \cap positive

\* e4m3_encode returns the finite code nearest to its argument, the even one of
\* two that are as near, across the subnormal boundary, carries into the
\* exponent and saturation; f32_to_f16_bits the nearest half, infinity where
\* the next power of two is as near; and a TurboQuant key takes the nearest
\* centroid, the lower one of two that are as near.
EncodeNearest ==
    /\ input.kind = "float" =>
        LET x == F32(input.e, input.m)
            code == EncodeE4M3(input.e, input.m)
            half == EncodeHalf(input.e, input.m)
            off(v) == Abs(v - x)
        IN  /\ code \in 0..Saturated
            /\ \A c \in (0..Saturated) \ {code} :
                 off(E4M3(code)) < off(E4M3(c)) \/ (off(E4M3(code)) = off(E4M3(c)) /\ code % 2 = 0)
            /\ half \in 0..Infinity
            /\ \A h \in (0..Infinity) \ {half} :
                 \/ off(HalfValue(half)) < off(HalfValue(h))
                 \/ off(HalfValue(half)) = off(HalfValue(h)) /\ half % 2 = 0
    /\ input.kind = "coordinate" =>
        LET code == KeyCode(input.z, input.centroids)
            off(c) == Abs(input.centroids[c + 1] - input.z)
        IN  /\ code \in 0..(Len(input.centroids) - 1)
            /\ \A c \in 0..(Len(input.centroids) - 1) :
                 off(code) < off(c) \/ (off(code) = off(c) /\ code <= c)

\* unpack_code returns every code pack_codes was given, for every width, also
\* the codes that straddle two bytes, and no code disturbs its neighbours; and
\* the bits of an fp4 weight and an fp8 scale moved into fp16 without rebiasing,
\* subnormals included, give the product once multiplied with 2^22; and the
\* rotation of a TurboQuant key, signs included, is undone up to its length.
DecodeExact ==
    /\ input.kind = "key" =>
         Restored(Rotated(input.key, input.signs, input.passes), input.signs, input.passes)
             = [i \in DOMAIN input.key |-> 2^input.passes * input.key[i]]
    /\ input.kind = "codes" =>
         LET row == PackCodes(input.codes, PackedCodes, input.bits) IN
         \A i \in 0..(PackedCodes - 1) : UnpackCode(row, i, input.bits) = input.codes[i]
    /\ input.kind = "product" =>
         FusedProduct(input.nibble, input.scale) = E2M1(input.nibble) * E4M3(input.scale)

---------------------------------------------------------------------------

\* Every GGUF type: the loops of its kernel visit each element of a block
\* once; no two elements take their code from the same bits; every bit of the
\* block belongs to exactly one code, scale, minimum, sign or offset; and each
\* of those that elements share serves an aligned run of them.
GgufBlocksTiled ==
    input.kind = "block" =>
        LET terms == Gguf!BlockTerms(input.type)
            size == Gguf!BlockSize(input.type)
            shared == UNION {u.shared : u \in terms}
            fields == {u.code : u \in terms} \cup shared
            AlignedRun(S) == Max(S) - Min(S) = Cardinality(S) - 1 /\ Min(S) % Cardinality(S) = 0
        IN  /\ {u.x : u \in terms} = 0..(size - 1) /\ Cardinality(terms) = size
            /\ Cardinality({<<u.code, u.j>> : u \in terms}) = size
            /\ UNION fields = 0..(8 * Gguf!BlockBytes[input.type] - 1)
            /\ \A f \in fields : \A g \in fields \ {f} : f \cap g = {}
            /\ \A f \in shared : AlignedRun({u.x : u \in {v \in terms : f \in v.shared}})

\* Every kernel: between two synchronisations of a work-group no lane touches
\* what another may be writing, work-groups never touch what another writes,
\* also where arguments alias or rows are updated in place; and a lane finds
\* in local memory only what its group has put there.
KernelsRaceFree ==
    input.kind = "kernel" => RaceFree(input.kernel) /\ ReadsStaged(input.kernel)

\* Every kernel, at sizes that fit its vectors, chunks and tiles and at ragged
\* ones: each cell of the output is written by one work-item, nothing else is
\* written (rows and states of a null slot or index stay as they are), and
\* each total gets each of its terms, with its own scale, exactly once.
KernelsExact ==
    input.kind = "kernel" => WritesOutput(input.kernel) /\ SumsTerms(input.kernel)

---------------------------------------------------------------------------

\* i is over when j starts, or when a kernel that j meets does.
Before(plan, inOrder, i, j) ==
    LET cs == plan.commands
        precedes == Calls!Precedes(plan, inOrder)
    IN  \/ i \in precedes[j]
        \/ cs[j].meets /\ \E k \in DOMAIN cs : cs[k].meets /\ i \in precedes[k]

\* The commands of a plan that touch the same buffer are ordered; only the
\* ranks of an all-reduce run against each other.
Ordered(plan) ==
    LET cs == plan.commands
    IN  \A inOrder \in BOOLEAN : \A i, j \in DOMAIN cs :
          /\ i < j
          /\ cs[i].wr \cap (cs[j].rd \cup cs[j].wr) # {} \/ cs[i].rd \cap cs[j].wr # {}
          => \/ Before(plan, inOrder, i, j) \/ Before(plan, inOrder, j, i)
             \/ cs[i].meets /\ cs[j].meets

\* The commands of one call that touch the same buffer are ordered, by an
\* event, a wait or the rendezvous of the ranks, also on a queue that is not in
\* order; only the ranks of an all-reduce run against each other.
CallOrdered == input.kind = "call" => Ordered(Calls!PlanOf(input.call))

\* What a call owes its caller when it does not throw.
Outputs(c) ==
    IF c.op = "nvfp4_gemm" THEN {<<"out", m>> : m \in 1..c.M}
    ELSE {<<"out", IF c.op = "all_reduce" THEN 1 ELSE 0>>}

MayThrow(c) ==
    /\ ~c.onednn \/ Calls!Fails(c)
    /\ c.op \in {"fp8_encode", "fp8_decode", "fp8_gemm"} \/ (c.onednn /\ c.variant # "sycl")

Delivers(c) ==
    LET plan == Calls!PlanOf(c)
        cs == plan.commands
    IN  IF plan.throws THEN MayThrow(c)
        ELSE /\ Outputs(c) \subseteq UNION {cs[j].wr : j \in DOMAIN cs}
             /\ \A inOrder \in BOOLEAN :
                  /\ inOrder \/ c.op # "nvfp4_gemm" => Calls!Over(plan, inOrder, TRUE) = DOMAIN cs
                  /\ \A j, p \in DOMAIN cs :
                       /\ \E k \in Calls!Precedes(plan, inOrder)[j] : cs[k].meets
                       /\ cs[p].meets
                       => p < j

\* A call throws only when the oneDNN it needs is missing or fails, and never
\* when the native kernel was asked for and exists; otherwise the output is
\* written, and a blocking call returns with every command over (the launches
\* of nvfp4_gemm, one per row, only where the queue is in order).  No command
\* waits for a rank before all of its peers are submitted.
CallDelivers == input.kind = "call" => Delivers(input.call)

\* The operations ops.hpp offers for the capture of command graphs.
CaptureOps ==
    {"merge_attn_states", "mrope", "kv_cache_scatter_paged", "lora_shrink", "lora_expand",
     "moe_grouped_qgemm", "ssd_decode", "ssd_prefill", "causal_conv1d_decode",
     "causal_conv1d_prefill", "paged_attention_decode", "mqa_logits", "nvfp4_moe_split",
     "all_reduce"}

\* Nothing throws, allocates or waits.
OnlySubmits(plan) ==
    /\ ~plan.throws /\ ~plan.allocates /\ plan.last = {}
    /\ \A j \in DOMAIN plan.commands : plan.commands[j].waited = {}

\* Called without blocking, they neither wait nor allocate, whatever the
\* variant, the build and the state of the caches: a queue that records can
\* take every command, and a replay finds every buffer.
CaptureSafe ==
    input.kind = "call" /\ input.call.op \in CaptureOps => OnlySubmits(Calls!PlanOf(input.call))
=============================================================================
