----------------------------- MODULE SlotState -----------------------------
(***************************************************************************)
(* The state cache of a gated-delta-net layer: causal_conv1d_prefill,      *)
(* causal_conv1d_decode, gated_delta_rule_varlen and qwen_gdn_decode over  *)
(* the slots of conv_state and ssm_state, as an engine drives them that    *)
(* gives each request a slot, feeds it in chunks and then token by token,  *)
(* pads batches with rows of no slot, and gives a freed slot away as it is.*)
(*                                                                         *)
(* Channels, heads and lanes do not meet, so there is one of each.  A      *)
(* sample is a request and its position; a convolution's output is the     *)
(* tuple of its taps, the recurrence's the sequence of what it absorbed.   *)
(* Calls of one queue follow each other.                                   *)
(***************************************************************************)
EXTENDS Integers, Sequences

CONSTANTS
    Requests,
    Pad,        \* the request of a padding row
    NoSlot,     \* a request that has no slot
    NSlots,     \* slots of the cache
    StateLen,   \* samples of a slot's window; the kernel has one tap more
    MaxRows,    \* bound on the rows of a batch
    MaxTokens,  \* bound on the packed tokens of a batch
    MaxFed,     \* bound on the samples of a request
    Zero,       \* the sample 0
    Stale       \* what a buffer holds that no kernel of this call wrote

ASSUME SlotAssumption ==
    /\ Pad \notin Requests /\ NoSlot \notin Int
    /\ NSlots \in Nat /\ StateLen \in Nat
    /\ MaxRows \in Nat /\ MaxTokens \in Nat /\ MaxFed \in Nat

VARIABLES
    home,     \* the slot of each request
    fed,      \* samples each request was given
    conv,     \* conv_state: a window per slot
    ssm,      \* ssm_state: what each slot's recurrence absorbed
    batch,    \* rows of the last call: request, slot, first sample, bounds
    cinit,    \* has_init is passed (not nullptr)
    sinit,    \* has_initial_state is passed (not nullptr)
    todo,     \* work of the call's kernels that is not done
    mixed,    \* the convolution's output, per packed token
    core      \* the recurrence's output, per packed token

vars == <<home, fed, conv, ssm, batch, cinit, sinit, todo, mixed, core>>

Slots == 0..(NSlots - 1)
Taps == 0..StateLen
Window == 0..(StateLen - 1)
Tokens == 0..(MaxTokens - 1)
Rows == DOMAIN batch

Sample(r, j) == IF j >= 1 THEN <<r, j>> ELSE Zero

Init ==
    /\ home = [r \in Requests |-> NoSlot]
    /\ fed = [r \in Requests |-> 0]
    /\ conv = [sl \in Slots |-> [m \in Window |-> Stale]]
    /\ ssm = [sl \in Slots |-> <<>>]
    /\ batch = <<>>
    /\ cinit = FALSE
    /\ sinit = FALSE
    /\ todo = {}
    /\ mixed = [tok \in Tokens |-> Stale]
    /\ core = [tok \in Tokens |-> Stale]

-----------------------------------------------------------------------------
(* The engine: the callers' side of the contract.                          *)

Idle == todo = {}

\* A new request gets a slot nobody has, with what it holds.
Admit(r, sl) ==
    /\ Idle
    /\ home[r] = NoSlot /\ fed[r] = 0
    /\ \A q \in Requests : home[q] # sl
    /\ home' = [home EXCEPT ![r] = sl]
    /\ UNCHANGED <<fed, conv, ssm, batch, cinit, sinit, todo, mixed, core>>

Finish(r) ==
    /\ Idle
    /\ home[r] # NoSlot /\ fed[r] > 0
    /\ home' = [home EXCEPT ![r] = NoSlot]
    /\ UNCHANGED <<fed, conv, ssm, batch, cinit, sinit, todo, mixed, core>>

\* cu_seqlens: row s owns the packed tokens cu[s-1] .. cu[s]-1.
Offsets(n) ==
    {cu \in [0..n -> 0..MaxTokens] :
        cu[0] = 0 /\ \A s, u \in 0..n : s <= u => cu[s] <= cu[u]}

\* Who the rows are for: no request twice, none without a slot.
Lineups(n) ==
    {who \in [1..n -> Requests \cup {Pad}] :
        \A s \in 1..n : who[s] # Pad =>
            /\ home[who[s]] # NoSlot
            /\ \A u \in 1..n : u # s => who[u] # who[s]}

\* Padding rows carry a negative or an out-of-range slot.
Padding == {-1, NSlots}

Batch(n, who, cu, none) ==
    [s \in 1..n |->
        [req |-> who[s], slot |-> IF who[s] = Pad THEN none ELSE home[who[s]],
         from |-> IF who[s] = Pad THEN 0 ELSE fed[who[s]],
         lo |-> cu[s - 1], hi |-> cu[s]]]

\* A row that continues its request, and so starts from the slot's state.
Continues(row) == row.from > 0

-----------------------------------------------------------------------------
(* The operations.  A call's work is a set of pairs of kernel and item.    *)

Items(kernel, n) == {<<kernel, i>> : i \in n}

\* One call of the layer over the rows b, with the kernels' items in work.
Call(b, work) ==
    /\ batch' = b
    /\ todo' = work
    /\ fed' = [r \in Requests |->
                 LET s == {u \in DOMAIN b : b[u].req = r}
                 IN  IF s = {} THEN fed[r]
                     ELSE LET u == CHOOSE u \in s : TRUE
                          IN  fed[r] + b[u].hi - b[u].lo]
    /\ \A r \in Requests : fed'[r] <= MaxFed
    /\ mixed' = [tok \in Tokens |-> Stale]
    /\ core' = [tok \in Tokens |-> Stale]
    /\ UNCHANGED <<home, conv, ssm>>

\* causal_conv1d_prefill, then gated_delta_rule_varlen.  Without has_init
\* no row continues, without has_initial_state all do.
Prefill(n, who, cu, none) ==
    LET b == Batch(n, who, cu, none)
    IN  /\ Idle
        /\ Call(b, Items("out", 0..(cu[n] - 1)) \cup Items("save", 1..n)
                     \cup Items("scan", 1..n))
        /\ cinit' \in BOOLEAN /\ sinit' \in BOOLEAN
        /\ cinit' \/ \A s \in 1..n : ~Continues(b[s])
        /\ sinit' \/ \A s \in 1..n : Continues(b[s]) \/ b[s].req = Pad

\* causal_conv1d_decode, then gated_delta_rule_varlen; or qwen_gdn_decode.
Decode(n, who, none) ==
    LET b == Batch(n, who, [s \in 0..n |-> s], none)
    IN  /\ Idle
        /\ \A s \in 1..n : Continues(b[s]) \/ b[s].req = Pad
        /\ Call(b, Items("step", 1..n) \cup Items("scan", 1..n))
        /\ cinit' = FALSE /\ sinit' = FALSE

\* Mutant: the write-back does not depend on the output pass.
WaitsForLoose(kernel) ==
    CASE kernel = "scan" -> {"out", "save", "step"} [] OTHER -> {}

\* depends_on(ev_a), depends_on(conv_ready), and the order of the queue.
WaitsFor(kernel) ==
    CASE kernel = "save" -> {"out"}
      [] kernel = "scan" -> {"out", "save", "step"}
      [] OTHER -> {}

\* Item i of a kernel runs.
Runs(kernel, i) ==
    /\ <<kernel, i>> \in todo
    /\ \A item \in todo : item[1] \notin WaitsFor(kernel)
    /\ todo' = todo \ {<<kernel, i>>}
    /\ UNCHANGED <<home, fed, batch, cinit, sinit>>

Live(row) == row.slot \in Slots

\* cp_find_seq: the first row whose tokens end after tok, else the last.
FindSeq(tok) ==
    LET after == {s \in Rows : tok < batch[s].hi}
    IN  CHOOSE s \in Rows :
            IF after = {} THEN \A u \in Rows : u <= s
            ELSE s \in after /\ \A u \in after : s <= u

\* The packed input.
X(tok) ==
    LET s == CHOOSE s \in Rows : batch[s].lo <= tok /\ tok < batch[s].hi
    IN  Sample(batch[s].req, batch[s].from + tok - batch[s].lo + 1)

\* Mutant: has_init is not asked.
SourceNoInit(row, src) ==
    IF src >= 0 THEN X(row.lo + src) ELSE conv[row.slot][StateLen + src]

\* Sample src of [initial state | the row's tokens].
Source(row, src) ==
    IF src >= 0 THEN X(row.lo + src)
    ELSE IF cinit /\ Continues(row) THEN conv[row.slot][StateLen + src]
    ELSE Zero

OutToken(tok) ==
    LET row == batch[FindSeq(tok)]
    IN  /\ Runs("out", tok)
        /\ mixed' = [mixed EXCEPT ![tok] =
                       IF Live(row)
                       THEN [k \in Taps |-> Source(row, tok - row.lo - StateLen + k)]
                       ELSE Zero]
        /\ UNCHANGED <<conv, ssm, core>>

Saves(row) == Live(row) /\ row.hi > row.lo

SaveRow(s) ==
    LET row == batch[s]
    IN  /\ Runs("save", s)
        /\ conv' = IF Saves(row)
                   THEN [conv EXCEPT ![row.slot] =
                          [m \in Window |-> Source(row, row.hi - row.lo - StateLen + m)]]
                   ELSE conv
        /\ UNCHANGED <<ssm, mixed, core>>

\* Mutant: the whole window, input included, goes back.
ShiftedNot(w) == w

Shifted(w) == [m \in Window |-> w[m + 1]]

StepRow(s) ==
    LET row == batch[s]
        w == [k \in Taps |-> IF k < StateLen THEN conv[row.slot][k] ELSE X(row.lo)]
    IN  /\ Runs("step", s)
        /\ IF Live(row)
           THEN /\ mixed' = [mixed EXCEPT ![row.lo] = w]
                /\ conv' = [conv EXCEPT ![row.slot] = Shifted(w)]
           ELSE mixed' = [mixed EXCEPT ![row.lo] = Zero] /\ UNCHANGED conv
        /\ UNCHANGED <<ssm, core>>

\* Mutant: a null has_initial_state means no row continues.
UseInitStrict(row) == Live(row) /\ sinit /\ Continues(row)

UseInit(row) == Live(row) /\ (sinit => Continues(row))

\* What the recurrence holds after the row's token tok.
Absorbed(row, tok) ==
    (IF UseInit(row) THEN ssm[row.slot] ELSE <<>>)
        \o [i \in 1..(tok - row.lo + 1) |-> mixed[row.lo + i - 1]]

ScanRow(s) ==
    LET row == batch[s]
    IN  /\ Runs("scan", s)
        /\ core' = [tok \in Tokens |->
                      IF row.lo <= tok /\ tok < row.hi
                      THEN IF Live(row) THEN Absorbed(row, tok) ELSE Zero
                      ELSE core[tok]]
        /\ ssm' = IF Saves(row)
                  THEN [ssm EXCEPT ![row.slot] = Absorbed(row, row.hi - 1)]
                  ELSE ssm
        /\ UNCHANGED <<conv, mixed>>

Submit ==
    \E n \in 1..MaxRows : \E who \in Lineups(n), none \in Padding :
        \/ \E cu \in Offsets(n) : Prefill(n, who, cu, none)
        \/ n <= MaxTokens /\ Decode(n, who, none)

Next ==
    \/ \E r \in Requests : Finish(r) \/ \E sl \in Slots : Admit(r, sl)
    \/ Submit
    \/ \E tok \in Tokens : OutToken(tok)
    \/ \E s \in 1..MaxRows : SaveRow(s) \/ StepRow(s) \/ ScanRow(s)

Spec == Init /\ [][Next]_vars

-----------------------------------------------------------------------------
(* Properties                                                               *)

\* Type invariant: windows keep their length, histories are of real outputs.
TypeOK ==
    /\ home \in [Requests -> Slots \cup {NoSlot}]
    /\ fed \in [Requests -> 0..MaxFed]
    /\ DOMAIN conv = Slots /\ \A sl \in Slots : DOMAIN conv[sl] = Window
    /\ DOMAIN ssm = Slots
    /\ \A sl \in Slots : \E n \in 0..MaxFed : DOMAIN ssm[sl] = 1..n
    /\ cinit \in BOOLEAN /\ sinit \in BOOLEAN
    /\ DOMAIN mixed = Tokens /\ DOMAIN core = Tokens

\* The convolution at sample j of request r's whole stream, and its window
\* and its recurrence after sample j.
ConvAt(r, j) == [k \in Taps |-> Sample(r, j - StateLen + k)]
WindowAt(r, j) == [m \in Window |-> Sample(r, j - StateLen + m + 1)]
RecurrenceAt(r, j) == [i \in 1..j |-> ConvAt(r, i)]

\* However a stream is cut into chunks and single tokens, whatever rows share
\* its batches and whatever its slot held before, every token's outputs are
\* those of the whole stream; rows without a slot give zeros.
ChunkingInvariant ==
    Idle => \A s \in Rows :
        LET row == batch[s]
        IN  \A tok \in row.lo..(row.hi - 1) :
                LET j == row.from + tok - row.lo + 1
                IN  IF row.req = Pad
                    THEN mixed[tok] = Zero /\ core[tok] = Zero
                    ELSE /\ mixed[tok] = ConvAt(row.req, j)
                         /\ core[tok] = RecurrenceAt(row.req, j)

\* Between calls the slot of a request holds exactly what its stream so far
\* makes of it: padding rows, empty rows and other requests leave it alone.
SlotsFollowStreams ==
    Idle => \A r \in Requests :
        home[r] # NoSlot /\ fed[r] > 0 =>
            /\ conv[home[r]] = WindowAt(r, fed[r])
            /\ ssm[home[r]] = RecurrenceAt(r, fed[r])
=============================================================================
