------------------------------ MODULE Selection ------------------------------
(***************************************************************************)
(* What the row kernels of sampling and routing select: argmax (a scan per *)
(* thread, then a tree), the iterated top-k of moe_route_topk and          *)
(* top_k_sample, the inverse CDF of sample_categorical, and the thresholds *)
(* of top_k_renorm and top_p_renorm.  A row is a function on 0..vocab-1;   *)
(* logits are integers, exp(x) is 2^x, and NegInf is a masked token.       *)
(***************************************************************************)
EXTENDS Integers, FiniteSetsExt

CONSTANTS
    RowThreads,  \* kRowThreads, a power of two
    V,           \* elements per vector load (vec_width)
    NegInf,      \* -infinity, below every other logit; not negative, to keep 2^x whole
    Halvings     \* bisection steps of top_p_renorm

ASSUME SelectionAssumption ==
    /\ \E n \in 0..30 : RowThreads = 2^n
    /\ V \in Nat \ {0} /\ Halvings \in Nat /\ NegInf \in Nat

Threads == 0..(RowThreads - 1)
Vocab(row) == Cardinality(DOMAIN row)
Mass(w, S) == MapThenSumSet(LAMBDA i : w[i], S)

---------------------------------------------------------------------------
(* argmax *)

\* The vectorised strided scan, then the strided tail.
Scanned(row, lid) ==
    LET vend == (Vocab(row) \div V) * V
    IN  {i \in DOMAIN row : IF i < vend THEN (i \div V) % RowThreads = lid
                                        ELSE (i - vend) % RowThreads = lid}

\* An ascending scan that replaces its best only by something larger.
FirstLargest(row, S) ==
    IF \A i \in S : row[i] = NegInf THEN [val |-> NegInf, idx |-> 0]
    ELSE LET best == Max({row[i] : i \in S})
         IN  [val |-> best, idx |-> Min({i \in S : row[i] = best})]

\* Mutant: the tree keeps its own candidate on ties.
BetterNoTie(a, b) == b.val > a.val

Better(a, b) == b.val > a.val \/ (b.val = a.val /\ b.idx < a.idx)

\* The stride goes from RowThreads / 2 down to 1.
TreeSteps == CHOOSE n \in 0..30 : RowThreads = 2^n
StrideOf(step) == 2^(TreeSteps - step)

\* tree[n]: svals/sidx after n steps.
Argmax(row) ==
    LET tree[n \in 0..TreeSteps] ==
          IF n = 0 THEN [lid \in Threads |-> FirstLargest(row, Scanned(row, lid))]
          ELSE [lid \in 0..(StrideOf(n) - 1) |->
                   IF Better(tree[n - 1][lid], tree[n - 1][lid + StrideOf(n)])
                   THEN tree[n - 1][lid + StrideOf(n)] ELSE tree[n - 1][lid]]
    IN  tree[TreeSteps][0].idx

---------------------------------------------------------------------------
(* Iterated top-k *)

\* Mutant: only the previous pick is masked.
PicksLastMasked(row, k) ==
    LET pick[i \in 1..k] ==
          FirstLargest(row, DOMAIN row \ (IF i = 1 THEN {} ELSE {pick[i - 1].idx}))
    IN  pick

\* k passes, each over the tokens no earlier pass took.
Picks(row, k) ==
    LET pick[i \in 1..k] ==
          FirstLargest(row, DOMAIN row \ {pick[j].idx : j \in 1..(i - 1)})
    IN  pick

---------------------------------------------------------------------------
(* Drawing from the distribution; target = uniform01 * Z, in the units of w *)

Weight(x) == IF x = NegInf THEN 0 ELSE 2^x
Weights(row) == [i \in DOMAIN row |-> Weight(row[i])]

\* The contiguous chunk of a thread; empty past the end of the row.
Chunk(row, lid) ==
    LET size == (Vocab(row) + RowThreads - 1) \div RowThreads
    IN  {i \in DOMAIN row : lid * size <= i /\ i < (lid + 1) * size}

\* Mutant: an inclusive scan over the threads.
BeforeChunkInclusive(w, lid) == Mass(w, UNION {Chunk(w, o) : o \in 0..lid})

\* exclusive_scan_over_group
BeforeChunk(w, lid) == Mass(w, UNION {Chunk(w, o) : o \in 0..(lid - 1)})

Owners(w, target) ==
    {lid \in Threads :
        /\ Mass(w, Chunk(w, lid)) > 0
        /\ BeforeChunk(w, lid) <= target
        /\ target < BeforeChunk(w, lid) + Mass(w, Chunk(w, lid))}

\* First token of the owner's chunk whose running sum reaches the target.
Categorical(w, target) ==
    IF Owners(w, target) = {} THEN Vocab(w) - 1
    ELSE LET lid == CHOOSE o \in Owners(w, target) : TRUE
             hit == {j \in Chunk(w, lid) :
                       BeforeChunk(w, lid) + Mass(w, {i \in Chunk(w, lid) : i <= j}) >= target}
         IN  IF hit = {} THEN Max(Chunk(w, lid)) ELSE Min(hit)

\* top_k_sample: the same walk over the k picks, in the order picked.
TopKSample(row, k, target) ==
    LET pick == Picks(row, k)
        mass[i \in 0..k] == IF i = 0 THEN 0 ELSE mass[i - 1] + Weight(pick[i].val)
        hit  == {i \in 1..k : mass[i] >= target}
    IN  pick[IF hit = {} THEN k ELSE Min(hit)].idx

---------------------------------------------------------------------------
(* Renormalisation: the tokens that keep their probability *)

\* k rounds of "largest value below the previous one", stopping when none is left.
TopKThreshold(p, k) ==
    LET round[i \in 0..k] ==
          IF i = 0 THEN [thresh |-> 0, left |-> DOMAIN p]
          ELSE IF round[i - 1].left = {} THEN round[i - 1]
          ELSE LET best == Max({p[v] : v \in round[i - 1].left})
               IN  [thresh |-> best, left |-> {v \in round[i - 1].left : p[v] < best}]
    IN  round[k].thresh

TopKKept(p, k) == {v \in DOMAIN p : p[v] >= TopKThreshold(p, k)}

\* Mutant: a threshold is taken although the mass above it falls short.
EnoughStrict(mass, topp) == mass > topp

Enough(mass, topp) == mass >= topp

\* Bisection of the threshold, in units of 2^-Halvings of a probability unit.
TopPKept(p, topp) ==
    LET fine == 2^Halvings
        reach(t) == {v \in DOMAIN p : fine * p[v] >= t}
        range[i \in 0..Halvings] ==
          IF i = 0 THEN [lo |-> 0, hi |-> fine * Max({p[v] : v \in DOMAIN p})]
          ELSE LET lo == range[i - 1].lo
                   hi == range[i - 1].hi
                   mid == (lo + hi) \div 2
               IN  IF Enough(Mass(p, reach(mid)), topp) THEN [lo |-> mid, hi |-> hi]
                                                       ELSE [lo |-> lo, hi |-> mid]
    IN  reach(range[Halvings].lo)
=============================================================================
