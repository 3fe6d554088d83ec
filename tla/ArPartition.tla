---------------------------- MODULE ArPartition ----------------------------
(***************************************************************************)
(* How the P2P all-reduce divides n elements among work-groups.  Pure      *)
(* arithmetic of launch_typed() in                                         *)
(* kernels/collectives/all_reduce/variants/xpu_sycl/all_reduce.sycl.cpp:   *)
(* a grid-stride "stripe" per work-group for staging and for the one-shot  *)
(* reduction, and one "slice" per (owner rank, work-group) for two-shot.   *)
(* Divisions are size_t divisions of non-negative numbers; an empty slice  *)
(* is one whose low end is not below its high end.                         *)
(***************************************************************************)
EXTENDS Integers

CONSTANTS
    World,      \* number of ranks taking part
    NumBlocks,  \* work-groups per launch (kArBlocks)
    WgSize      \* work-items per work-group (kArWgSize)

\* all_reduce() rejects any other world before it touches the queue.
ASSUME WorldAssumption == World \in 2..8
ASSUME GridAssumption == NumBlocks \in Nat \ {0} /\ WgSize \in Nat \ {0}

Ranks  == 0..(World - 1)
Blocks == 0..(NumBlocks - 1)

Elements(n) == 0..(n - 1)

CeilDiv(a, d) == (a + d - 1) \div d
Smaller(a, b) == IF a < b THEN a ELSE b

Stride == NumBlocks * WgSize

\* The elements visited by block b's loop "i = global_linear_id; i += stride".
Stripe(n, b) == {i \in Elements(n) : (i % Stride) \div WgSize = b}

Chunk(n)    == CeilDiv(n, World)
PerBlock(n) == CeilDiv(Chunk(n), NumBlocks)

SliceLo(n, owner, b) == owner * Chunk(n) + b * PerBlock(n)
SliceHi(n, owner, b) ==
    Smaller(owner * Chunk(n) + Smaller((b + 1) * PerBlock(n), Chunk(n)), n)

\* The part of owner's chunk that block b of every rank works on.
Slice(n, owner, b) ==
    {i \in Elements(n) : SliceLo(n, owner, b) <= i /\ i < SliceHi(n, owner, b)}

\* The rank whose staging area element i is gathered from.
Owner(n, i) == i \div Chunk(n)
=============================================================================
