# QuixiCore XPU: verification project

TLA+ modules, TLC configurations and TLAPS proofs about QuixiCore XPU, the
SYCL/oneDNN kernel library for Intel GPUs in `src/`. Every definition is
translated from the sources; `PROJECT.json` maps each one to the lines it
stands for.

- [The system](#the-system): components, their state and what makes them correct
- [What is modelled](#what-is-modelled): modules, how they correspond to the code
- [What the runs show](#what-the-runs-show): questions, bounds, fairness
- [What is proved](#what-is-proved)
- [What the code does not do](#what-the-code-does-not-do): the four findings, and the edges of the envelope
- [What is not modelled](#what-is-not-modelled)
- [Plan](#plan)

## The system

The library is a set of operations (`include/quixicore/xpu/ops.hpp`) over
caller-owned device memory. An operation checks its shape, selects a variant
and enqueues one or a few SYCL kernels on a queue the caller names; with
`blocking = false` it returns while they are still to run. There is no
allocator, scheduler or server: whatever state survives a call is in buffers
the caller owns (a state cache, a page pool, peer-visible regions, scratch), in
a few host-side caches, or in a command graph. What is hard is therefore

* the order of work on the device: work-items of one kernel in any order and at
  the same time, kernels of a queue one after the other, kernels of several
  devices not ordered at all;
* buffers that outlive a call and still hold the call before (command-graph
  replay runs the same kernels over the same pointers);
* index arithmetic at its boundaries (ragged tiles, empty rows, empty experts,
  grids sized without reading device memory).

| component | state it keeps | operations | interacts through | what is hard | what makes it correct |
|---|---|---|---|---|---|
| P2P all-reduce (`kernels/collectives`, `src/dispatch/collectives.cpp`) | per rank a peer-visible region: generations, flag arrays, staging area | `all_reduce`, `all_reduce_sum` | flags and staging in every peer's memory | ranks race; staging is overwritten by the next call; a generation must survive graph replay; a peer may die | no race on staging; bitwise equal, rank-ordered sums; it terminates |
| MoE permute / grouped GEMM / unpermute (`kernels/moe`, `src/dispatch/moe.cpp`) | caller scratch: counts, cursors, row map, permuted rows, intermediate products | `moe_permute`, `moe_grouped_qgemm`, `moe_grouped_qswiglu`, `moe_unpermute_weighted_reduce` | each operation reads what the one before wrote | atomic cursors in any order; grid sized before counts are known; a rejected shape in a composite | every token gets its experts' results, in any order, whatever the scratch held |
| Command graph (`src/runtime/graph.cpp`) | handle: recording flag, modifiable and executable graph; queue: recording mode | `capture_begin`, `capture_end`, `replay`, `reset`, move assignment | the queue all operations enqueue on | handles over one queue, replay inside a capture, `finalize()` that throws | the device runs exactly what was asked |
| Gated-delta-net slots (`kernels/ssm/causal_conv1d`, `kernels/linear_attention`) | per slot a convolution window and a recurrent state | `causal_conv1d_prefill/decode`, `gated_delta_rule_varlen`, `qwen_gdn_decode` | the state cache, shared by all requests | chunked prefill, padding rows, empty rows, slot reuse, in-place write-back | outputs of the whole unshared stream however it is cut |
| Paged KV cache and attention (`kernels/attention/paged_attention`, `merge_attn_states`, `kernels/serving`) | page pool; split partials in caller workspaces | `kv_cache_scatter_paged`, `kv_cache_gather_paged`, `paged_attention_decode/prefill`, `merge_attn_states` | the page pool and block tables | splits, windows and pages cut the key range at different places; pages are reused while older calls are enqueued | every visible key is used once; a key reads back what was scattered there |
| Dense attention (`kernels/attention`) | none | `attention`, `attention_f16ctx`, `attn_swa`, `linear_attn` | - | causal and windowed bands, size_t arithmetic, staged tiles | each visible key once |
| Serving helpers, MQA logits (`kernels/serving`) | none | `embedding_lookup`, `kv_cache_scatter/gather`, `pool_mean_rms_l2`, `mqa_logits` | - | indices that name nothing, tiles over heads and keys | one writer per cell, the band |
| SSD and selective scan (`kernels/ssm`) | per-slot recurrent state | `ssd_prefill`, `ssd_decode`, `selective_scan`, the hyper-connection step | state cache, copy-on-write slots | a row's destination may be another's source | no two rows touch a cell one of them writes |
| MoE routing, NVFP4 MoE (`kernels/moe`) | output accumulated with atomics, scratch between two kernels | `moe_route_topk`, `nvfp4_moe_fused`, `nvfp4_moe_split` | zeroing kernel before the accumulation | ties, order of atomics, lanes that stage for each other | the k best experts, each once; every term once |
| Sampling (`kernels/sampling`) | none | `argmax`, `sample_categorical`, `top_k_sample`, `top_k_renorm`, `top_p_renorm` | - | ties, cut-offs by bisection, chunk boundaries | the reference choice |
| Quantization (`kernels/quantization`, `kernels/common`) | per-context copy of the GGUF tables | codecs, GEMV/GEMM over packed weights | shared codecs | rounding at the edges of a format, scale groups at word boundaries, bit layout of blocks | decode after encode, each term with its own scale |
| Activations, norms, rope, optimizer, utilities, dense matmul, LoRA | none | row-wise or tiled kernels | local memory of a work-group, arguments that alias | ragged tails, barriers | race-free, every cell and term once |
| oneDNN primitives (`variants/xpu_onednn`) | engines; the primitive cache of `fp8_gemm` under one lock | vendor variants | - | a failure half-way through a call | fall back or throw, never silently no output |
| Variant selection and dispatch (`src/dispatch`) | none: a function of the request, the build and the dtype | every operation of the ABI | the caller's queue | chains of kernels, scratch, waits, capture | commands over one buffer are ordered; capturable operations neither wait nor allocate |
| Runtime queues and devices (`src/runtime/runtime.cpp`) | none: platforms are enumerated and an in-order queue made per call | `gpu_devices`, `make_gpu_queue` | - | the same GPUs on several platforms | the most Intel GPUs, Level Zero on a tie |
| IPC handles (`src/runtime/ipc.cpp`) | none of its own (Level Zero mappings) | `export_region_fd`, `open_region_fd`, `close_region`, peer access | processes around the all-reduce | close against use | mapped while used |
| Contract tables, PyTorch bindings, tests and perf tools | none of their own | - | - | - | - |

The hazards of this code, each at the line where it bites and with the
properties that would catch it, are in `PROJECT.json` under `hazards`.

## What is modelled

### P2P all-reduce

| module | models |
|---|---|
| `ArPartition` | how a call divides its elements: grid-stride stripes, two-shot chunks and slices |
| `AllReduce` | both kernels of every call on every rank |
| `AllReduceInv` | the inductive invariant |
| `AllReduceSpec` | what a collective promises, without flags or staging |
| `MC_AllReduce` | instances |

An actor is one work-group of one rank. `submitted` is the host's progress,
`scall`/`swait` the stage kernel, `wg[r][b]` the reduce kernel's work-group
(program counter, loaded generation, lanes that have published and come
through). `gen`, `sync` and `staging` are the fields of a region. `Submit` is
`all_reduce()`; `StartStage` and `Stage` the stage kernel; `Start` the start of
a reduce work-group (after `depends_on(staged)`, at most `Slots` resident);
`Publish`, `Observe`, `Expire` and `EndRendezvous` are `rendezvous()` lane by
lane, with the generation stored by lane 0; `ReduceOneShot`, `ReduceScatter`
and `Gather` the data phases. A sum is the sequence of its terms, so order and
identity of what was added are visible. The work between two rendezvous is one
step taken at its end; that this hides nothing is `NoRace`: while it is under
way nobody else touches its cells. `Die` stops a rank for ever.

Parameters: `World`, `NumBlocks` (kArBlocks), `WgSize`, `TwoShotMin`, `GenMod`
(2^32 in the code), `Slots`, `InOrder`, `Blocking`, `SpinsExpire`, `Mortal`.
`Regular` is the conjunction under which the protocol keeps its promises: an
in-order queue, spins that are not given up, generations that do not wrap.

Refinement: `ImplementsCollective` is `AllReduceSpec` with `entered` = calls
whose stage kernel has finished, `left` = calls finished by all work-groups,
`output` = `out`.

### MoE layer

| module | models |
|---|---|
| `MoePermute` | zero, count, scan and scatter kernels over reused scratch; `Claim` is the `fetch_add`, `Gather` the copy after it |
| `GroupedTiles` | tile to (expert, rows) map of the grouped GEMM and its grid bound |
| `MoeLayer` | permute, `moe_grouped_qswiglu` (GEMM, then glu), second GEMM, unpermute, call after call over the same buffers |
| `MC_MoeLayer` | instances |

A kernel is the set `todo`/`left` of work-items or tiles that have not
finished; the next starts when it is empty. Products are terms
(`Down(e, Act(Up(e, x)))`), so a wrong expert, row or token is visible and
rounding is not.

### Command graph

`CommandGraph` has one action per member function, with the names of the code.
`recorder` is the queue's recording mode; `Enqueue` sends work either to the
queue or, while a handle records, into that handle's graph; `Run` is the
device. `asked` and `captured` are history: what the client meant. A call that
throws before changing anything is not enabled; `capture_end` with `MayFail`
covers the one that throws after. `Assign` is move assignment.

### Gated-delta-net slots

`SlotState` has the engine's side of the contract (`Admit`, `Finish`, `Submit`:
any mix of chunks, decode steps, empty rows and padding rows, each request at
most once per batch, no request before its slot) and the kernels: `OutToken`
and `SaveRow` are the two kernels of `causal_conv1d_prefill`, `StepRow` is
`causal_conv1d_decode`, `ScanRow` the gated delta rule (and, with `StepRow`,
`qwen_gdn_decode`). Work of a call is a set of kernel/item pairs; `WaitsFor`
is `depends_on` and the order of the queue. Channels and heads never meet in
the code, so there is one of each; a convolution's output is the tuple of its
taps, the recurrence the sequence of what it absorbed. `SlotStateInv` states
which part of its stream each slot stands for between any two work-items.

### Paged KV cache and paged attention

| module | models |
|---|---|
| `AttnBands` | which keys a kernel visits: the band of `paged_attention_prefill`, the splits of `paged_attention_decode` |
| `PagedCache` | scatter, gather, prefill, split decode and merge over a page pool, and the engine that hands out pages |
| `PagedCacheInv` | the inductive invariant |
| `MC_PagedCache` | instances |

The engine is the callers' side: `Grow` gives a request a page, `Evict` takes
back one that a sliding window has left behind, `Release` ends a request,
`Submit` enqueues a call with the lengths and block tables of that moment, up
to `MaxAhead` calls before the device gets to them. The device runs the calls
one after the other: `SaveToken` is `kv_cache_scatter_paged`, `GatherRow` is
`kv_cache_gather_paged`, `PrefillToken` the prefill kernel over pages or over
gathered keys, `PartSplit` and `ReduceRow` the two kernels of
`paged_attention_decode`; `CtxToken`, `NewToken` and `MergeToken` are the
cascade: cached and new keys in two prefill calls, then `merge_attn_states`.
A mixed batch launches prefill over all tokens with `is_prefill` and decode
over the rest. The result of an attention is the set of keys it weighed, each
with where it was found, and how often it added the sink: online softmax, split
and merge are associative in exactly that set. Before each call workspaces and
outputs hold what other layers left (`Junk`).

### Inside a kernel

| module | models |
|---|---|
| `KernelAccess` | what a kernel is here, and what a correct one does (`RaceFree`, `ReadsStaged`, `WritesOutput`, `SumsTerms`) |
| `ElementKernels` | vectorised maps, glu, rope and mrope, copies by index, int4 quantisation, the TurboQuant kernels |
| `RowKernels` | softmax, the norms with their fusions, cross entropy, activation quantisers, qk-norm-rope, Hadamard, pooling |
| `GemmKernels` | the GEMV families and their slabs, the local-memory tile, the XMX tile, LoRA, MQA logits, grouped GEMM, the fp8 kernels |
| `Nvfp4Moe` | the six kernels of the routed NVFP4 MoE |
| `AttnKernels` | dense, fp16-context, sink-window and linear attention, merge, causal convolution, gated delta rule, SSD, selective scan |
| `MC_Kernels` | every kernel at small sizes |

A kernel is a value, not a state machine: the sequence of its phases, cut where
the work-group synchronises, and for each work-item of each phase the cells it
reads, writes and accumulates. That is enough to say what no test can: two
work-items that may run at the same time never touch a cell one of them
writes, whatever the schedule; a lane reads from local memory only what its
group has put there before the last barrier; each output cell has one writer
and each total has each of its terms, with its own scale, exactly once. What a
term is worth (the arithmetic) is left out. A buffer that `ops.hpp` lets alias
another, or that is updated in place, is one buffer, so an in-place kernel that
reads its neighbour's input late is a race. Work-items of a work-group in
different phases are ordered; those of different groups never are, except by
the end of the kernel.

### One call of the ABI

`Dispatch` gives, for every operation, the variant that a request resolves to
and the plan of the call: the commands in submission order, the buffers each
reads and writes, the events it depends on, where the host waits, what it
allocates and what it throws when oneDNN is absent, cannot make an engine or
refuses the primitive, with caches cold or warm. `Precedes` is the order the
device must keep, on an in-order queue and on one that is not. `Devices` is the
choice of a platform and device by `gpu_devices`, `make_gpu_queue` and
`all_reduce_sum`.

### Selection, codecs and formats

| module | models |
|---|---|
| `Selection` | argmax (vector scan per thread, tail, tree), the iterated top-k of `moe_route_topk` and `top_k_sample`, the chunked inverse CDF of `sample_categorical`, the thresholds of `top_k_renorm` and `top_p_renorm` |
| `Codecs` | `e4m3_encode`/`e4m3_decode`, `f32_to_f16_bits`, `pack_codes`/`unpack_code`, the TurboQuant rotation and nearest centroid, the fp16 relocation of NVFP4 elements and scales |
| `GgufBlocks` | the sixteen block types of `gguf_gemv`, bit by bit |
| `OutputTiles` | tile height and row ownership of the split NVFP4 output kernel |
| `MC_Algorithms` | tries one bounded input after the other, those of `MC_Kernels`, `Dispatch`, `Devices` and `GroupedTiles` included |

A row of logits or probabilities is a function on its tokens. Logits are
integers and exp(x) is 2^x, so running sums are exact; a draw's target is any
multiple of half the smallest mass. In `Codecs` an fp32 number keeps the
mantissa bits that decide its rounding (those kept, the half, one for all
below); for fp16 three of the ten kept bits and four of the five exponent bits
stand for all, since the encoder treats the others alike. A code of a few bits
is the set of its bit positions, and so is a field of a GGUF block: that makes
overlaps and gaps of a layout visible and the values of the codebooks
irrelevant. What is said of each algorithm is a definition that does not
iterate: the lowest index of a maximum, the token with i - 1 tokens ahead of
it, the nearest code.

## What the runs show

| run | question | instance |
|---|---|---|
| `ar_safety` | is staging race-free, is every sum exact and rank-ordered, are ranks within one rendezvous, does it implement the collective | 2 ranks, 2 work-groups, a two-shot then a one-shot call, hosts not waiting in between (743k states) |
| `ar_live` | does every call complete; is the proofs' invariant right | 2 ranks, 2 work-groups, one call, all groups resident, fairness |
| `ar_degrade` | does a living rank complete although its peer dies or never calls | 2 ranks, bounded spins, rank 1 mortal, two calls, fairness |
| `ar_ooo` | violation: an out-of-order queue | 2 calls |
| `algorithms` | do selections, codecs, tile maps and block formats return what their references say; is every kernel race-free and complete; is every call's plan ordered, delivered and capturable | every segmentation of at most 6 rows into 4 experts; every row of up to 7 tokens over three logits and of 10 over two, 4 threads; every rounding case of e4m3 and fp16 from below the subnormals to above saturation; 5 codes of 2 to 8 bits; every fp4 magnitude times every finite fp8 scale; 16 block types; every kernel at the sizes of `MC_Kernels`; every operation with each variant, dtype, M of 1 and 2, oneDNN present or not, failing at each place, caches cold or warm; every sequence of up to 3 platforms (28k states) |
| `renorm_ties` | violation: equal probabilities in `top_k_renorm` | same rows |
| `moe_layer` | are rows claimed once and sorted, does the layer give the reference | 2 tokens, 2 choices, 2 experts, two calls over the same scratch, 54 routings each, ids of other ranks included |
| `moe_reject` | violation: the composite after a rejected GEMM | two calls, accepted and rejected shapes |
| `graph` | does the device run exactly what was asked, captures isolated, flags right | 2 handles, 2 kernels, 5 requests, 3 nodes |
| `graph_fail` | violation: `finalize()` throws | same |
| `slots` | are outputs and slots those of whole, unshared streams; is the proofs' invariant right | 2 requests of up to 4 samples, 2 slots, window of 2, batches of 2 rows and 3 tokens (300k states) |
| `paged` | does every token attend to exactly its own visible keys; is every kept key at its place | 2 requests of up to 4 keys, 2 pages of 2 keys (pitch 3), 2 splits, without a window and with one of 2 keys, batches of 2 rows and 3 tokens, one call ahead (2.2M states) |

Why the bounds are enough to be interesting. `ar_safety`: two calls are what it
takes for a stage kernel to meet a slower rank's gather, two-shot then one-shot
covers both kernels and the change between them, two work-groups make slices of
different groups meet; anything larger is what the proofs are for. `moe_layer`:
two pairs per token and two experts give ties, empty experts and ragged tiles
(rows per tile 2), and the second call runs over the first one's leftovers.
`graph`: with three nodes a replay inside a capture follows a node of that
capture. `slots`: a window of 2 with chunks of 0 to 3 samples gives chunks
shorter than, equal to and longer than the window, and a freed slot is taken
over with the first request's state in it. `paged`: with two pages one request
alone can need the whole pool, so pages change hands while the call that still
reads them is enqueued; 2 splits over 0 to 4 keys are empty, uneven and full;
4 keys are two pages, so a window cuts inside a page and leaves one behind; a
pitch of 3 tells flat slots from addresses. `MaxCalls`, `MaxAsked`, `MaxNodes`,
`MaxFed`, `MaxTokens`, `MaxRows`, `MaxLen` and `MaxAhead` are the bounds that
only serve TLC. `algorithms`: vectors of 2, sub-groups of 2 and 4 lanes and
tiles of 2 to 4 make every row size from 1 to 9 fit, be ragged, or be shorter
than one vector; two work-groups and two sub-groups are what a cross-group or
cross-lane conflict takes; accumulators laid out by rows (`LanesByRow`) and
read back by columns make lanes read what others have spilled; `SizeMod` of 16 lets a size_t difference wrap.

`PagedCacheInv!IInv`, the invariant of the proofs, was checked with `MaxTokens`
2 and `MaxLen` 3; on the instance of `paged` it takes longer than its
properties do, so the run leaves it to the proof (`INVARIANT IInv` in
`paged.cfg` repeats it).

Deadlock is not checked where the system may stop: every host may stop calling.
`algorithms` never stops and is checked.

Fairness. `ar_live` and `ar_degrade` assume weak fairness of `StartStage` and
of each work-group's steps: a device runs a kernel that may start, and a
resident work-group makes progress. Hosts owe nothing (`Submit` is not fair),
so `AllComplete` speaks of calls that every host did make. Residency is stated,
not assumed away: `Slots` work-groups run at a time, and `ar_live` gives each
device as many as the kernel has, which is what kArBlocks is sized for. Without
that `AllComplete` does not hold: with one slot for two work-groups and spins
that never expire, each rank can run the group its peer has not started. In
`ar_degrade` a spin that is never answered counts up to kSpinCap: `Expire` is a
step of the work-group, so fairness of the group covers it.

`slots`, `paged` and `graph` use symmetry in requests, handles and kernels, which no
definition tells apart; no temporal property is checked there.

Every property has at least one mutant in `PROJECT.json`: a plausible slip in
the code (a dropped wait, an inclusive scan, a lost bump, a flag that is not
reset) under which its run fails.

## What is proved

All proofs are checked by TLAPS without omitted steps; the only assumptions
are the named `ASSUME`s on constants, which TLC evaluates in the runs.

* `AllReduce_proofs`: slices of different owners or work-groups are disjoint
  (`SlicesDisjoint`), they cover every element (`SlicesCover`), stripes
  partition them (`StripesPartition`); for every world, grid and size.
  `TypeCorrect` for every instance. `ProtocolSafe` is the
  inductive invariant of the handshake: count the rendezvous each work-group
  has completed and announced; flags never promise more than was announced
  (`FlagInv`), so counts of peers differ by at most one, and equal counts mean
  the same place in the same call, one more the next place (`AlignInv`); the
  kernels of a rank follow each other (`KernelInv`). `NoRace` alone is not
  inductive: it needs to know where everybody is. `RaceFreedom` follows from it
  with the partition theorems.
  The sums add what staging and outputs hold (`StagingInv`, `OutputInv`);
  `SumInvariant` is the whole `IInv`, from which `BitwiseConsistency` and
  `RanksAbreast` follow.

  `CollectiveImplemented` is the refinement. Under `IInv` the calls a rank has
  left are the one its last stage kernel served, or the one before
  (`LeftValue`); the last block staged is `Enter`, the two steps that write
  outputs are `Deliver` (everybody has staged, by `PeersReady`), and the last
  work-group to finish is `Leave`: a work-group that has come through the
  depart rendezvous knows that each peer of its number has delivered
  (`FinishedEverywhere`). All other steps stutter.

  These are proved for `Regular` instances; `ar_ooo` shows what an
  out-of-order queue breaks, and generations that wrap break the same (see
  below).
* `Foundations_proofs` has what the proofs about algorithms and kernels share,
  and the algorithms that need no more. `TilesPartitionRows`, for every number
  of experts, every `rows_per_expert` and every tile height: the prefix sums
  are a recursive function, and what it computes goes by induction over the
  natural numbers (`AllNat`: a set of naturals without a least element is
  empty). The ways in which items share cells and terms (see `Kernels_proofs`).

  Codecs: `E4M3Nearest` takes every exponent from `MinExp` up and every
  mantissa, in the cases of the code (subnormal, normal, carry into the next
  binade, saturation), and shows the code's number nearest with ties to even;
  it goes by the order of the e4m3 numbers and the midpoint between neighbours.
  `HalfNearest` does the same for fp16 and `CentroidNearest` for any strictly
  increasing centroids. `CodesUnpacked`: a bit of the packed row comes from
  exactly one code, for rows of any length and 1 to 8 bits, so codes that
  straddle a byte come back. `FusedExact`: the fp16 relocation of NVFP4 is the
  product, for every nibble and scale. `KeyRestored`: each butterfly pass
  applied again doubles, so undoing all passes gives the key times 2^passes,
  for any key, signs and number of passes.
* `MoeLayer_proofs`: `SortInv` relates counts, the scan's running sum,
  cursors and claims kernel by kernel, whatever the scratch held; hence
  `PermuteTypeCorrect` (no cursor leaves the buffers), `NoRowClaimedTwice` and
  `PermuteSorts`, for any number of tokens, choices, experts and calls.
  `LayerSafe` is the invariant of the whole layer: while a kernel runs, each of
  its finished items has left in its buffer what the reference says, and each
  buffer of a kernel that has run is complete. `LayerExact` speaks of finished
  calls only, so it is not inductive; `LayerResult` gets it from `LayerSafe`,
  the tile theorem and the sortedness of the rows. `LayerPermutes` carries the
  properties of the sort over to the layer, in which the same scratch is used
  by kernels the sort alone does not know.
* `CommandGraph_proofs`: `GraphTypeCorrect`, `GraphOneRecorder` (the recording
  flags agree with the queue) and `GraphQuietCapture` (no capture overlaps
  running work) even when `finalize()` throws; `GraphIsolated` and
  `GraphRunsWhatWasAsked` when it does not, from the strengthening that a
  handle's modifiable graph is its capture.
* `SlotState_proofs`: `SlotInvariant` (IInv of `SlotStateInv`): rows are what
  the contract gives, work is left in the order the dependencies allow, and
  each slot's window and recurrence stand for a known prefix of their request's
  stream, before or after this call's tokens according to what has run.
  `SlotTypeCorrect`, `ChunkingDoesNotMatter` and `SlotsAreTheStreams` follow.
  `ChunkingInvariant` alone is not inductive: the output pass reads a window
  which the write-back replaces.
* `PagedCache_proofs`: `PagedInvariant` (IInv of `PagedCacheInv`), and from it
  `PagedTypeCorrect`, `AttentionIsExact` and `KeysStay`, for every pool, pitch,
  number of splits, window, batch and number of calls enqueued ahead.
  `AttentionExact` says nothing before the outputs are there, so it is far from
  inductive. The trouble is that a page's memory is in general wrong for the
  calls that are enqueued: it may still hold another request's keys, which a
  call further ahead will replace. So the invariant follows each address
  through the calls to come: `Writes` is which of them still puts which key
  there, and a key that a call must find is either there already, with nobody
  writing over it before that call's turn, or is the last thing written there
  by then (`Undisturbed`, `Lasting`). The host's tables own pages one request
  at a time and give up only pages no later query's window reaches
  (`TablesInv`); rows are what the contract says (`CallsInv`). Within the
  running call, gathered rows, partials, both halves of a cascade and outputs
  are exact for whatever has run. On the way it proves that the splits of
  `paged_attention_decode` partition the band that `paged_attention_prefill`
  visits for a single token, for every context, window and split count.

* `Algorithms_proofs`: the selections, each for every row, every k and every
  number of threads and vector width that its assumption allows.
  `ArgmaxRight`: after n steps of the tree, slot `lid` holds the first largest
  of the tokens its lanes have scanned. `PicksRight`: the picks are distinct,
  and the tokens ahead of pick i are the i - 1 picks before it.
  `CategoricalRight` and `TopKRight`: the prefix over the chunks and the run
  within a chunk add up to the mass of the tokens before, so the target falls
  in one owner's chunk and in one token of it. `TopPRight`: the bisection keeps
  a bracket of thresholds around the one sought and ends with it less than one
  unit wide, from which the set kept is the nucleus; it needs the
  probabilities to be less than 2^Halvings units (`UnitResolved` states it of
  the rows of the run; the code halves 32 times). `TopKKeeps`: no round of
  `top_k_renorm` goes below the k-th largest value. `PlatformsRight`: the
  devices chosen, for any list of platforms.

  Calls: `CallsRight` speaks of every call of the ABI, with any operation,
  variant, dtype, number of rows, build, failure and state of the caches. Each
  operation comes to one of a few plans; for each it is proved which earlier
  commands a command waits for (`Precedes` is recursive along the plan), and
  two commands that meet in a buffer are always among those. `nvfp4_gemm`
  submits one command per row; its rows write different cells.
  `CaptureOpsSubmit` is the same for the operations offered for capture.

  Kernels: the routed NVFP4 MoE kernels (`MoeProjectRight`, `MoeOutputRight`
  and `MoeFusedRight`) and the DPAS kernels (`W4A16GemmRight`,
  `MqaLogitsRight`), with the argument of `Kernels_proofs`, and
  `EveryKernelTried`: each kernel the run tries is an instance of its theorem.
  Hence `KernelsNeverRace` and `KernelsAlwaysExact`, in every state of the run.
  They use `CompiledAssumption` of `MC_Kernels`, what the sizes are to each
  other in the code and in the run: a matrix tile is as wide as the lanes that
  share it, a work-group has whole sub-groups with a lane to each element of an
  mxfp4 group, the int4 groups tried are whole vectors, and `size_t` holds the
  sizes tried.

  `RowsOnce`, `Ranks`, `Draws`, `Renormalised`, `CallsOrdered`, `CallsDeliver`,
  `CapturesSafe`, `EncodesNearest`, `DecodesExact`, `KernelsNeverRace` and
  `KernelsAlwaysExact` state the properties of the run; their `Spec` bounds the
  inputs tried, the theorems before them do not.

* `Kernels_proofs`: every other kernel at every size, where the run tries a
  few. `KernelRight(k)` is the conjunction of what `KernelsRaceFree` and
  `KernelsExact` ask of kernel k. The argument: give each item the cells it
  owns and the terms it adds; if the items share the output and the terms
  between them (`Shares`: inside, covered, no overlap) and nobody touches what
  another one owns, the kernel is right whatever its barriers (`OwnersRight`).
  That covers the elementwise maps, the gated units, rope and AdamW; softmax,
  the norms and cross entropy, whose lanes stride over a row (`RowsRight`); the
  copies by index and the TurboQuant codec; the matrix-vector kernels
  (`DotsRight`, fp8 and NVFP4 included), for which it remains to show that each
  element gets the scale of its own group on every path; LoRA; the attention
  kernels, whose terms are the keys of a band (`AttendsRight`), and the merge of
  partial states; selective scan and the decode steps of SSD and convolution.

  Where items do meet in a cell, barriers have to separate them, and
  `PhasesRight` is the general form: within a phase no item of a group touches
  what another one writes; an output cell is only read by the group of the item
  that owns it; and what an item reads in local memory it writes itself in that
  phase or its group has put there in an earlier one. The tiled product
  (`TiledRight`: staged before it is read and not restaged before everybody has
  read it), the quantising norms and units (the scale of a group after the norm
  of its row), qk-norm with rope, the butterflies of Hadamard, whose passes read
  what the pass before has left, pooling, and the recurrent layers (the state of
  a slot is read before the first token and written after the last) are instances.
  Two more are in `Algorithms_proofs`: the DPAS kernels, `w4a16_gemm` and
  `mqa_logits`, also spill their accumulators and read them back. Which lane
  holds which element is `joint_matrix`'s affair: `AccLane` is any function from
  the elements of the tile to its lanes, so that the barrier between the spill
  and the read is needed, and `SpillStaged` shows it enough. `ByPhaseRight` asks
  that every phase stages, reads, spills or puts, each after the phase it needs.

  What they assume is what callers and the build must respect. A row has an
  element, a rotated head whole pairs, the sections of mrope fill it
  (`Sectioned`), the target of a cross entropy is in the vocabulary. The
  reduction is whole blocks or chunks for the fp4 formats and `fp8_gemm_w8a16`,
  groups are whole words for int4. Live entries of a kernel that scatters or
  keeps state by slot name rows of their own, and in `ssd_decode` no row reads
  what another one writes (`Distinct`, `OneEach`; the code does not check it,
  and with equal slots the writers race); cumulative lengths do not decrease
  (`Starting`). In dense
  and sink-window attention there are no more queries than keys, and the window
  past the last key fits `size_t`. mxfp4 needs sub-groups with a lane for each
  element of a group (`sg >= MxGroup`), and `mqa_logits` as many lanes as a DPAS
  tile has columns, which the constants of `xmx_tile.hpp` (both 16) give.

Only model-checked:

* the liveness properties (`AllComplete`, `NoHang`): liveness under fairness
  and `ENABLED` are out of the prover's reach;
* `GgufBlocksTiled`: the sixteen block types are finite tables, hundreds of
  elements of a few bits each, and the run looks at every bit of every block.

## What the code does not do

Four runs expect a violation.

1. `renorm_ties`: `top_k_renorm` takes the next strictly smaller value in each
   round, so its threshold is the k-th largest distinct value. With ties above
   the k-th it keeps more than the documented tokens; the test's probabilities
   are all different. What does hold is in `NucleusExact`: none of the k largest
   is ever dropped.
2. `ar_ooo`: on an out-of-order queue the next call's stage kernel overwrites
   staging that the call before still reads. The comment there claims both
   kinds of queue, which is true of one call alone.
3. `moe_reject`: `moe_grouped_qswiglu` runs glu over scratch nobody wrote when
   the GEMM rejected its shape, and overwrites its output.
4. `graph_fail`: when `finalize()` throws, the handle looks fresh to
   `capture_begin` although its graph still holds the failed capture.

More limits of the code, without a run of their own. The models state the
envelope in which the kernels keep their promises; these are its edges.

All-reduce and sampling:

* The all-reduce waits for `flag < target` on 32-bit generations: after a wrap
  (about 2^31 one-shot calls over one region) a target of 0 waits for nobody;
  `Regular` excludes it, and TLC finds `OutputExact` violated with five calls
  modulo 8.
* `sample_categorical` can draw a masked token when its target is itself a
  running sum (0 included), because a chunk's owner takes the first token with
  `c >= target`; `DrawInvertsCdf` is stated with that exception.
* `top_k_sample` subtracts the maximum before scaling it, so low temperatures
  overflow and make it greedy.

Capture and dispatch:

* `moe_grouped_qswiglu` waits for the GEMM on the host, and `fp8_gemv` frees
  the scratch of its call in a host task: neither may be captured, and neither
  is documented as capturable (`CaptureSafe` lists those that are).
* The GGUF tables are process globals that belong to the first queue's context
  and are made without a lock, with a wait that throws while a queue records.
* `fp8_gemm` keeps its engines by context but makes one for the first queue's
  device; with `Variant::sycl` and M > 1 it goes to oneDNN or throws.
* Vendor errors propagate from gelu, softmax and dense_gemm; layernorm falls
  back; `qgemm_int8` falls back for errors of the primitive only.
* `nvfp4_gemm_sycl` returns the event of its last row only, so on a queue that
  is not in order a blocking call may return early.
* Outside their shapes several operations return an empty event and write
  nothing: w4a16 on f32, `mqa_logits` with D not a multiple of 16,
  `ssd_prefill`, the gated delta rule with dk > 128, the convolution whose
  kernel is not state_len + 1, `all_reduce` with a bad rank. `nvfp4_moe`
  zeroes its output before its kernel turns the shape down.
* `all_reduce_sum` counts GPUs of every vendor and has no preference for Level
  Zero, unlike `gpu_devices`.

Kernels and formats:

* int4: groups that are not a multiple of 8 get a neighbour's scale in `qgemv`
  (`ops.hpp` allows them), and the quantiser leaves a ragged last group out.
* GGUF: K need only be a multiple of 32 according to `ops.hpp`, but super-blocks
  have 256 elements and the rest is dropped; an unknown type is read as q4_0.
* TurboQuant accepts head sizes like 96 or 192 that the comment says it rejects
  and that the rotation gets wrong; the value codec's zero point may overflow
  fp16.
* mxfp4 in `glu_quant` and `norm_quant` counts on sub-groups of 32 without
  requiring them; `mqa_logits` on a lane stride equal to its tile.
* rms_norm, softmax and layernorm read vectors at unaligned rows when the row
  is not a multiple of the vector.
* In dense and sink-window attention `seq_k - seq_q` wraps when there are more
  queries than keys; 16 states in `selective_scan` and 128 channels in
  attention are not checked.
* Two rows of a batch with one slot race in `qwen_gdn_decode` and
  `gated_delta_rule_varlen`, and in `ssd_decode` also a row whose source is
  another's destination. `ops.hpp` asks for unique slots in `qwen_gdn_decode`
  only; the inputs here and the theorems keep to distinct slots in all three, so
  no property speaks of a batch that shares one.
* A negative index of `kv_cache_gather` or `embedding_lookup` leaves its row
  unwritten.

## What is not modelled

* Floating-point arithmetic: values are terms, sets of keys or bit positions.
  Of the codecs, the fp16 rounding chain of TurboQuant values and the
  Lloyd-Max iteration that makes its centroids on the host.
* Constants: the GGUF grids (`gguf_iq_tables.hpp`) are generated tables; what
  index reads which entry is modelled, the entries are not. Only the codebook
  types upload them; `gguf_gemv` in `Dispatch` does so whatever the type, which
  allows more than the code does.
* NaN and fp32 subnormals as inputs of `e4m3_encode`; the empty events of
  operations called outside their shapes (see above), except where `MoeLayer`
  follows one.
* A captured `fp8_gemv`, whose replay would run on freed memory, and a captured
  `moe_grouped_qswiglu`: no document offers either for capture.
* The memory model below the flags: `publish_flag`/`observe_flag` fences are
  taken to order the data around them, as SYCL's acquire/release at system
  scope does. In the depart rendezvous the generation is loaded by all lanes at
  once (the first sub-group runs in lockstep); SYCL does not promise that.
* Two stage kernels, or two reduce kernels, of one rank at the same time on an
  out-of-order queue: in `ar_ooo` the next stage kernel overtakes, which is
  enough for the violation.
* Memory faults of a dead peer's unmapped region; IPC handles, which only wrap
  Level Zero.
* Threads of the host: the one cache threads share (`fp8_gemm`) holds a lock
  from look-up to insertion.
* The arithmetic and internal scheduling of oneDNN.
* Generated contract tables and stubs (`contract.hpp`, `contract_stubs.hpp`,
  `operations.hpp`): one case per operation, no state. The PyTorch bindings,
  the benchmark harness, tests and examples drive the library.

## Plan

Done: the all-reduce with its proofs and refinement, the MoE layer, the command
graph, the slot caches, the paged cache with its attention (each with its
invariant proved), and the kernels, plans, codecs and formats of everything
else, each kernel proved at every size.

What would come next:

1. Composition: a serving step (scatter, attention, MoE, all-reduce) captured
   once and replayed over one set of buffers, from `CommandGraph`,
   `PagedCache` and `AllReduce`.
2. The all-reduce with generations that wrap, under a bound on how far ranks
   drift.
