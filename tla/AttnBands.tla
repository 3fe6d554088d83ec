----------------------------- MODULE AttnBands -----------------------------
(***************************************************************************)
(* Which keys an attention kernel visits: the band of a query in           *)
(* paged_attention_prefill, and the splits of the context in               *)
(* paged_attention_decode.  A window of -1 is unbounded.                   *)
(***************************************************************************)
EXTENDS Integers

\* lo64 .. hi64 of query qi among seqQ whose context is seqK long.
Band(qi, seqQ, seqK, causal, left, right) ==
    LET center == qi + (seqK - seqQ)
        lo == IF left >= 0 /\ center - left > 0 THEN center - left ELSE 0
        end == IF causal /\ center < seqK - 1 THEN center ELSE seqK - 1
        hi == IF right >= 0 /\ ~causal /\ center + right < end
              THEN center + right ELSE end
    IN  lo..hi

\* The first key that a decode step over ctx keys looks at.
DecodeLo(ctx, left) ==
    IF left >= 0 /\ ctx > left + 1 THEN ctx - (left + 1) ELSE 0

\* Mutant: the keys left over by the division go to nobody.
PerSplitFloor(ctx, left, splits) == (ctx - DecodeLo(ctx, left)) \div splits

\* Keys per split: the span divided by the splits, rounded up.
PerSplit(ctx, left, splits) ==
    ((ctx - DecodeLo(ctx, left)) + (splits - 1)) \div splits

\* Mutant: the last split runs past the context.
SplitKeysPast(ctx, left, splits, sp) ==
    LET k0 == DecodeLo(ctx, left) + sp * PerSplit(ctx, left, splits)
    IN  k0..((k0 + PerSplit(ctx, left, splits)) - 1)

\* k0 .. k1 - 1 of split sp.
SplitKeys(ctx, left, splits, sp) ==
    LET k0 == DecodeLo(ctx, left) + sp * PerSplit(ctx, left, splits)
        k1 == k0 + PerSplit(ctx, left, splits)
    IN  k0..((IF k1 < ctx THEN k1 ELSE ctx) - 1)
=============================================================================
