------------------------------ MODULE MoeLayer ------------------------------
(***************************************************************************)
(* One MoE layer as the serving tests drive it: moe_permute, then          *)
(* moe_grouped_qswiglu (grouped GEMM into scratch, then glu),              *)
(* moe_grouped_qgemm, and moe_unpermute_weighted_reduce, call after call   *)
(* over the same buffers.  Kernels of one queue follow each other; the     *)
(* tiles, rows and tokens of one kernel finish in any order.               *)
(***************************************************************************)
EXTENDS MoePermute

CONSTANTS
    TM,      \* rows per GEMM tile
    Shapes   \* may the first GEMM's shape be accepted / rejected

ASSUME LayerAssumption ==
    TM \in Nat \ {0} /\ Shapes \subseteq BOOLEAN /\ Shapes # {}

T == INSTANCE GroupedTiles WITH MTotal <- NTokens * TopK

VARIABLES
    stage,    \* the layer's operation under way
    left,     \* its work-groups that have not finished
    served,   \* calls whose result is complete
    fits,     \* moe_grouped_qgemm_sycl accepts this call's shape
    up,       \* scratch_2i
    act,      \* output of moe_grouped_qswiglu
    before,   \* (history) act when moe_grouped_qswiglu was called
    down,     \* output of the second grouped GEMM
    out       \* the layer's output

lvars == <<stage, left, served, fits, up, act, before, down, out>>
vars == <<call, ids, phase, todo, rows, cursors, acc, dst, rowMap, permuted,
          stage, left, served, fits, up, act, before, down, out>>

Tokens == 0..(NTokens - 1)
Choices == 0..(TopK - 1)

\* What the operations compute, up to rounding.
Up(e, x)   == <<"up", e, x>>
Act(x)     == <<"swiglu", x>>
Down(e, x) == <<"down", e, x>>

LayerInit ==
    /\ Init
    /\ stage = "permute"
    /\ left = {}
    /\ served = 0
    /\ fits \in Shapes
    /\ up = [r \in Rows |-> Garbage]
    /\ act = [r \in Rows |-> Garbage]
    /\ before = act
    /\ down = [r \in Rows |-> Garbage]
    /\ out = [t \in Tokens |-> Garbage]

\* moe_permute; the next one comes after the layer's last operation.
Permute ==
    /\ stage = "permute"
    /\ phase = "idle" => served = call
    /\ PermuteStep
    /\ UNCHANGED lvars

\* A grouped GEMM's output once tile mt has stored its rows.
ComputedBy(mt, old, product) ==
    [r \in Rows |-> IF r \in T!TileRows(rows, mt) THEN product[r] ELSE old[r]]

\* moe_grouped_qswiglu: a rejected GEMM returns an event of nothing at once.
CallSwiglu ==
    /\ stage = "permute"
    /\ phase = "idle" /\ served < call
    /\ stage' = "up"
    /\ fits' \in Shapes
    /\ left' = IF fits' THEN T!Tiles ELSE {}
    /\ before' = act
    /\ UNCHANGED <<served, up, act, down, out>>
    /\ UNCHANGED pvars

UpTile(mt) ==
    /\ stage = "up"
    /\ mt \in left
    /\ up' = ComputedBy(mt, up,
              [r \in Rows |-> Up(T!ExpertOf(rows, mt), permuted[r])])
    /\ left' = left \ {mt}
    /\ UNCHANGED <<stage, served, fits, act, before, down, out>>
    /\ UNCHANGED pvars

\* Mutant: glu does not wait for the GEMM.
UpDoneAtOnce == stage = "up"

\* g.wait()
UpDone == stage = "up" /\ left = {}

\* glu over all rows, whatever became of the GEMM.
StartGlu ==
    /\ UpDone
    /\ stage' = "glu"
    /\ left' = Rows
    /\ UNCHANGED <<served, fits, up, act, before, down, out>>
    /\ UNCHANGED pvars

GluRow(r) ==
    /\ stage = "glu"
    /\ r \in left
    /\ act' = [act EXCEPT ![r] = Act(up[r])]
    /\ left' = left \ {r}
    /\ UNCHANGED <<stage, served, fits, up, before, down, out>>
    /\ UNCHANGED pvars

StartDown ==
    /\ stage = "glu"
    /\ left = {}
    /\ stage' = "down"
    /\ left' = T!Tiles
    /\ UNCHANGED <<served, fits, up, act, before, down, out>>
    /\ UNCHANGED pvars

DownTile(mt) ==
    /\ stage = "down"
    /\ mt \in left
    /\ down' = ComputedBy(mt, down,
                [r \in Rows |-> Down(T!ExpertOf(rows, mt), act[r])])
    /\ left' = left \ {mt}
    /\ UNCHANGED <<stage, served, fits, up, act, before, out>>
    /\ UNCHANGED pvars

StartUnpermute ==
    /\ stage = "down"
    /\ left = {}
    /\ stage' = "unpermute"
    /\ left' = Tokens
    /\ UNCHANGED <<served, fits, up, act, before, down, out>>
    /\ UNCHANGED pvars

\* The token's choices that have a row, each with that row; the kernel adds
\* weight times row in the order of the choices.
Gathered(t) ==
    [j \in {c \in Choices : rowMap[t * TopK + c] >= 0} |->
        down[rowMap[t * TopK + j]]]

UnpermuteToken(t) ==
    /\ stage = "unpermute"
    /\ t \in left
    /\ out' = [out EXCEPT ![t] = Gathered(t)]
    /\ left' = left \ {t}
    /\ UNCHANGED <<stage, served, fits, up, act, before, down>>
    /\ UNCHANGED pvars

EndLayer ==
    /\ stage = "unpermute"
    /\ left = {}
    /\ stage' = "permute"
    /\ served' = call
    /\ UNCHANGED <<left, fits, up, act, before, down, out>>
    /\ UNCHANGED pvars

LayerNext ==
    \/ Permute
    \/ CallSwiglu
    \/ \E mt \in T!Tiles : UpTile(mt) \/ DownTile(mt)
    \/ StartGlu
    \/ \E r \in Rows : GluRow(r)
    \/ StartDown
    \/ StartUnpermute
    \/ \E t \in Tokens : UnpermuteToken(t)
    \/ EndLayer

LayerSpec == LayerInit /\ [][LayerNext]_vars

-----------------------------------------------------------------------------
(* Properties                                                               *)

\* What token t must obtain: its own hidden row through each expert chosen
\* for it that lives here.
Reference(t) ==
    [j \in {c \in Choices : Valid(t * TopK + c)} |->
        LET e == ids[t * TopK + j]
        IN  Down(e, Act(Up(e, Hidden(call, t))))]

\* "Results are order-independent": whatever order pairs claimed their rows
\* in and tiles finished in, and whatever the buffers held before, each token
\* obtains the reference.
LayerExact ==
    served = call /\ call > 0 /\ fits => \A t \in Tokens : out[t] = Reference(t)

\* "Reject, don't corrupt": an operation whose shape is rejected leaves its
\* output as it found it.
RejectKeepsOutput ==
    stage \in {"glu", "down"} /\ ~fits => act = before
=============================================================================
