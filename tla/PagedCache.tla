----------------------------- MODULE PagedCache -----------------------------
(***************************************************************************)
(* A paged KV cache and the attention over it: kv_cache_scatter_paged and  *)
(* kv_cache_gather_paged, paged_attention_prefill (paged and dense keys),  *)
(* paged_attention_decode with its splits, and merge_attn_states, as an    *)
(* engine drives them that gives requests pages out of a pool, feeds them  *)
(* in chunks and token by token, takes back the pages a sliding window has *)
(* left behind, and enqueues calls ahead of the device.                    *)
(*                                                                         *)
(* Heads and channels do not meet, so there is one of each.  A key is its  *)
(* request and position; an attention's result is the set of the keys it   *)
(* weighed, each with the place it was found at, and how often it added    *)
(* the sink: softmax weighs a set, in any grouping.  Kernels of one queue  *)
(* follow each other, work-items of one kernel come in any order.          *)
(***************************************************************************)
EXTENDS AttnBands, Sequences

CONSTANTS
    Requests,
    Pad,         \* the request of a padding row
    NPages,      \* pages of the pool
    PageSize,    \* keys per page
    PageStride,  \* page_stride_elems, in keys
    MaxPages,    \* entries of a block table
    Splits,      \* num_kv_splits
    Windows,     \* window_left of the layer: one of these
    MaxRows,     \* bound on the rows of a call
    MaxTokens,   \* bound on the packed tokens of a call
    MaxLen,      \* bound on the keys of a request
    MaxAhead,    \* bound on the calls enqueued behind the running one
    Zero,        \* what a gather of no slot yields
    Stale        \* what a buffer holds that nobody wrote

ASSUME PagedAssumption ==
    /\ Pad \notin Requests
    /\ NPages \in Nat /\ MaxPages \in Nat \ {0} /\ MaxLen \in Nat
    /\ PageSize \in Nat \ {0} /\ PageStride \in Nat /\ PageStride >= PageSize
    /\ MaxLen <= MaxPages * PageSize
    /\ Splits \in Nat \ {0}
    /\ Windows \subseteq {-1} \cup Nat
    /\ MaxRows \in Nat /\ MaxTokens \in Nat /\ MaxAhead \in Nat

VARIABLES
    window,   \* window_left of this layer
    len,      \* keys each request was given
    table,    \* the block table of each request
    gone,     \* requests that are over
    ahead,    \* calls enqueued behind the running one
    call,     \* the running call, or the last one: its rows and its form
    todo,     \* work of that call that is not done
    cache,    \* the pool's memory
    dense,    \* keys gathered for a row, contiguous
    parts,    \* tmp_out, exp_sums and max_logits, per row and split
    sides,    \* the two results to be merged, per packed token
    out       \* O, per packed token

vars == <<window, len, table, gone, ahead, call, todo, cache, dense, parts,
          sides, out>>

Pages == 0..(NPages - 1)
Entries == 0..(MaxPages - 1)
Memory == 0..(NPages * PageStride - 1)
Tokens == 0..(MaxTokens - 1)
Positions == 0..(MaxLen - 1)
Rows == DOMAIN call.rows
SplitIds == 0..(Splits - 1)

Keys == Requests \X Positions
Labels == 0..Splits

NoTable == [i \in Entries |-> -1]
NoResult == [terms |-> {}, sinks |-> 0]
Junk == [terms |-> {<<Stale, 0, Stale>>}, sinks |-> 0]

\* The workspaces and outputs belong to all layers: before a call they hold
\* anything.
Unwritten ==
    /\ dense' = [s \in 1..MaxRows |-> [k \in Positions |-> Stale]]
    /\ parts' = [s \in 1..MaxRows |-> [sp \in SplitIds |-> Junk.terms]]
    /\ sides' = [side \in 0..1 |-> [tok \in Tokens |-> Junk]]
    /\ out' = [tok \in Tokens |-> Junk]

Init ==
    /\ window \in Windows
    /\ len = [r \in Requests |-> 0]
    /\ table = [r \in Requests |-> NoTable]
    /\ gone = {}
    /\ ahead = <<>>
    /\ call = [rows |-> <<>>, form |-> "paged"]
    /\ todo = {}
    /\ cache = [a \in Memory |-> Stale]
    /\ dense = [s \in 1..MaxRows |-> [k \in Positions |-> Stale]]
    /\ parts = [s \in 1..MaxRows |-> [sp \in SplitIds |-> Junk.terms]]
    /\ sides = [side \in 0..1 |-> [tok \in Tokens |-> Junk]]
    /\ out = [tok \in Tokens |-> Junk]

deviceVars == <<call, todo, cache, dense, parts, sides, out>>

-----------------------------------------------------------------------------
(* The engine: the callers' side of the contract.                          *)

\* It schedules when there is room for one more call.
Room == Len(ahead) < MaxAhead

Free(p) == \A r \in Requests, i \in Entries : table[r][i] # p

\* A request gets a page for the keys that come next.
Grow(r, i, p) ==
    /\ Room
    /\ r \notin gone
    /\ Free(p)
    /\ table[r][i] = -1 /\ i * PageSize >= len[r]
    /\ \A j \in 0..(i - 1) : table[r][j] # -1 \/ (j + 1) * PageSize <= len[r]
    /\ i * PageSize < MaxLen
    /\ table' = [table EXCEPT ![r][i] = p]
    /\ UNCHANGED <<window, len, gone, ahead>>
    /\ UNCHANGED deviceVars

\* It gives back a page that no later query's window reaches.
Evict(r, i) ==
    /\ Room
    /\ table[r][i] # -1
    /\ window >= 0 /\ (i + 1) * PageSize <= len[r] - window
    /\ table' = [table EXCEPT ![r][i] = -1]
    /\ UNCHANGED <<window, len, gone, ahead>>
    /\ UNCHANGED deviceVars

\* It is over, and its pages go back.
Release(r) ==
    /\ Room
    /\ r \notin gone /\ len[r] > 0
    /\ gone' = gone \cup {r}
    /\ table' = [table EXCEPT ![r] = NoTable]
    /\ UNCHANGED <<window, len, ahead>>
    /\ UNCHANGED deviceVars

\* cu_seqlens_q: row s owns the packed tokens cu[s-1] .. cu[s]-1.
Offsets(n) ==
    {cu \in [0..n -> 0..MaxTokens] : cu[0] = 0 /\ \A s \in 1..n : \A u \in 0..(s - 1) : cu[u] < cu[s]}

\* Row s can be request r's: it has pages for its new keys, and comes as a
\* chunk or (not prefill) as a single token.
End(r, cu, s) == len[r] + cu[s] - cu[s - 1]
Seats(r, cu, prefill, s) ==
    /\ prefill[s] \/ cu[s] = cu[s - 1] + 1
    /\ End(r, cu, s) <= MaxLen
    /\ \A k \in len[r]..(End(r, cu, s) - 1) : table[r][k \div PageSize] # -1

\* What the rows are: requests, none twice, or padding of one token.
Lineups(n, cu, prefill) ==
    {who \in [1..n -> (Requests \ gone) \cup {Pad}] :
        \A s \in 1..n :
            IF who[s] = Pad THEN ~prefill[s] /\ cu[s] = cu[s - 1] + 1
            ELSE /\ Seats(who[s], cu, prefill, s)
                 /\ \A u \in 1..n : u # s => who[u] # who[s]}

\* A call's rows carry the lengths and tables of the moment it is made.
Batch(n, cu, prefill, who) ==
    [s \in 1..n |->
        [req |-> who[s], prefill |-> prefill[s], lo |-> cu[s - 1], hi |-> cu[s],
         from |-> IF who[s] = Pad THEN 0 ELSE len[who[s]],
         tab |-> IF who[s] = Pad THEN NoTable ELSE table[who[s]]]]

\* Chunks read paged keys, or gathered ones, or the cached and the new keys
\* apart, which only a layer without a window can.
Forms == {"paged", "dense"} \cup (IF window = -1 THEN {"cascade"} ELSE {})

Enqueue(n, cu, prefill, who, form) ==
    /\ form # "paged" => \E s \in 1..n : prefill[s]
    /\ ahead' = Append(ahead, [rows |-> Batch(n, cu, prefill, who), form |-> form])
    /\ len' = [r \in Requests |->
                 IF \E s \in 1..n : who[s] = r
                 THEN End(r, cu, CHOOSE s \in 1..n : who[s] = r) ELSE len[r]]

Submit ==
    /\ Room
    /\ UNCHANGED <<window, table, gone>>
    /\ UNCHANGED deviceVars
    /\ \E n \in 1..MaxRows : \E cu \in Offsets(n), prefill \in [1..n -> BOOLEAN] :
       \E who \in Lineups(n, cu, prefill), form \in Forms :
         Enqueue(n, cu, prefill, who, form)

-----------------------------------------------------------------------------
(* The device.  A call's work is a set of pairs of kernel and item.         *)

hostVars == <<window, len, table, gone>>

Items(kernel, items) == {<<kernel, i>> : i \in items}

TokensOf(rows, s) == rows[s].lo..(rows[s].hi - 1)
AllTokens(rows) == UNION {TokensOf(rows, s) : s \in DOMAIN rows}
Chunks(rows) == {s \in DOMAIN rows : rows[s].prefill}
ChunkTokens(rows) == UNION {TokensOf(rows, s) : s \in Chunks(rows)}
Steps(rows) == DOMAIN rows \ Chunks(rows)

\* The launches of a call.  The prefill kernel is launched over all tokens,
\* with is_prefill.
Work(c) ==
    Items("save", AllTokens(c.rows))
    \cup (IF Chunks(c.rows) = {} THEN {}
          ELSE CASE c.form = "paged" -> Items("prefill", AllTokens(c.rows))
                 [] c.form = "dense" -> Items("gather", Chunks(c.rows))
                                          \cup Items("prefill", AllTokens(c.rows))
                 [] c.form = "cascade" -> Items("ctx", ChunkTokens(c.rows))
                                            \cup Items("new", ChunkTokens(c.rows))
                                            \cup Items("merge", ChunkTokens(c.rows)))
    \cup Items("part", Steps(c.rows) \X SplitIds)
    \cup Items("reduce", Steps(c.rows))

Begin ==
    /\ todo = {} /\ ahead # <<>>
    /\ call' = Head(ahead)
    /\ ahead' = Tail(ahead)
    /\ todo' = Work(Head(ahead))
    /\ Unwritten
    /\ UNCHANGED hostVars
    /\ UNCHANGED cache

Launches == <<"save", "gather", "ctx", "new", "prefill", "merge", "part", "reduce">>

\* Mutant: the merge of the splits does not depend on their kernel.
EarlierLoose(kernel) ==
    IF kernel = "reduce" THEN {"save"}
    ELSE LET i == CHOOSE i \in 1..8 : Launches[i] = kernel
         IN  {Launches[j] : j \in 1..(i - 1)}

\* depends_on(partials), and the order of the queue.
Earlier(kernel) ==
    LET i == CHOOSE i \in 1..8 : Launches[i] = kernel
    IN  {Launches[j] : j \in 1..(i - 1)}

Runs(kernel, item) ==
    /\ <<kernel, item>> \in todo
    /\ \A other \in todo : other[1] \notin Earlier(kernel)
    /\ todo' = todo \ {<<kernel, item>>}
    /\ UNCHANGED hostVars
    /\ UNCHANGED <<ahead, call>>

\* Mutant: the scan compares with the row's last token.
FindSeqShort(tok) ==
    CHOOSE s \in Rows :
        /\ tok < call.rows[s].hi - 1 \/ \A u \in Rows : u <= s
        /\ \A u \in Rows : u < s => call.rows[u].hi - 1 <= tok

\* The owning sequence: the linear scan over cu_seqlens_q.
FindSeq(tok) ==
    CHOOSE s \in Rows :
        /\ tok < call.rows[s].hi \/ \A u \in Rows : u <= s
        /\ \A u \in Rows : u < s => call.rows[u].hi <= tok

Ctx(row) == IF row.req = Pad THEN 0 ELSE row.from + (row.hi - row.lo)
KeyOf(row, k) == <<row.req, k>>

\* slot_mapping: the flat slot of a row's key, or -1.
Slot(row, k) ==
    LET page == row.tab[k \div PageSize]
    IN  IF page < 0 THEN -1 ELSE page * PageSize + (k % PageSize)

\* Where an offset of a page is, PageStride apart.
Address(page, off) == page * PageStride + off

\* Mutant: the flat slot is taken for the address.
PlaceFlat(slot) == slot

\* Where the flat slot's key is.
Place(slot) == Address(slot \div PageSize, slot % PageSize)

\* The row whose key the engine packed at tok.
Owner(tok) ==
    CHOOSE s \in Rows : call.rows[s].lo <= tok /\ tok < call.rows[s].hi

SaveToken(tok) ==
    LET row == call.rows[Owner(tok)]
        k == row.from + (tok - row.lo)
    IN  /\ Runs("save", tok)
        /\ cache' = IF Slot(row, k) < 0 THEN cache
                    ELSE [cache EXCEPT ![Place(Slot(row, k))] = KeyOf(row, k)]
        /\ UNCHANGED <<dense, parts, sides, out>>

\* kv_cache_gather_paged over the slots of a row's context.
GatherRow(s) ==
    LET row == call.rows[s]
    IN  /\ Runs("gather", s)
        /\ dense' = [dense EXCEPT ![s] =
                       [k \in Positions |->
                          IF k >= Ctx(row) THEN @[k]
                          ELSE IF Slot(row, k) < 0 THEN Zero
                          ELSE cache[Place(Slot(row, k))]]]
        /\ UNCHANGED <<cache, parts, sides, out>>

\* The positions among K whose page is there.
Paged(row, K) == {k \in K : row.tab[k \div PageSize] >= 0}

\* The keys a page walk over K finds.
AtPages(row, K) ==
    [k \in Paged(row, K) |-> cache[Address(row.tab[k \div PageSize], k % PageSize)]]

\* What a pass over positions, with the key found at each, leaves: an empty
\* one has maximum -inf, and then no sink is added.
Weighed(label, found) == {<<label, k, found[k]>> : k \in DOMAIN found}
WithSink(terms) == [terms |-> terms, sinks |-> IF terms = {} THEN 0 ELSE 1]

\* Query tok of its row: every chunk is causal, the window is on the left.
Query(tok) == tok - call.rows[FindSeq(tok)].lo

PrefillToken(tok) ==
    LET s == FindSeq(tok)
        row == call.rows[s]
        K == Band(Query(tok), row.hi - row.lo, Ctx(row), TRUE, window, -1)
        found == IF call.form = "dense" THEN [k \in K |-> dense[s][k]]
                 ELSE AtPages(row, K)
    IN  /\ Runs("prefill", tok)
        /\ out' = IF ~row.prefill THEN out
                  ELSE [out EXCEPT ![tok] = WithSink(Weighed(0, found))]
        /\ UNCHANGED <<cache, dense, parts, sides>>

\* The cached keys, without causal mask and sink.
CtxToken(tok) ==
    LET row == call.rows[FindSeq(tok)]
        K == Band(Query(tok), row.hi - row.lo, row.from, FALSE, -1, -1)
    IN  /\ Runs("ctx", tok)
        /\ sides' = [sides EXCEPT ![0][tok] =
                       [terms |-> Weighed(0, AtPages(row, K)), sinks |-> 0]]
        /\ UNCHANGED <<cache, dense, parts, out>>

\* The chunk's own keys, contiguous, causal, with the sink.
NewToken(tok) ==
    LET row == call.rows[FindSeq(tok)]
        n == row.hi - row.lo
        found == [k \in Band(Query(tok), n, n, TRUE, -1, -1) |->
                    KeyOf(row, row.from + k)]
    IN  /\ Runs("new", tok)
        /\ sides' = [sides EXCEPT ![1][tok] = WithSink(Weighed(1, found))]
        /\ UNCHANGED <<cache, dense, parts, out>>

MergeToken(tok) ==
    LET a == sides[0][tok]
        b == sides[1][tok]
    IN  /\ Runs("merge", tok)
        /\ out' = [out EXCEPT ![tok] =
                     [terms |-> a.terms \cup b.terms, sinks |-> a.sinks + b.sinks]]
        /\ UNCHANGED <<cache, dense, parts, sides>>

\* Mutant: a split without keys leaves its workspace as it is.
Left(old, terms) == IF terms = {} THEN old ELSE terms

Partial(old, terms) == terms

PartSplit(s, sp) ==
    LET row == call.rows[s]
        K == SplitKeys(Ctx(row), window, Splits, sp)
    IN  /\ Runs("part", <<s, sp>>)
        /\ parts' = [parts EXCEPT ![s][sp] = Partial(@, Weighed(sp, AtPages(row, K)))]
        /\ UNCHANGED <<cache, dense, sides, out>>

ReduceRow(s) ==
    /\ Runs("reduce", s)
    /\ out' = [out EXCEPT ![call.rows[s].lo] =
                 WithSink(UNION {parts[s][sp] : sp \in SplitIds})]
    /\ UNCHANGED <<cache, dense, parts, sides>>

Next ==
    \/ \E r \in Requests : Release(r)
    \/ \E r \in Requests, i \in Entries : Evict(r, i) \/ \E p \in Pages : Grow(r, i, p)
    \/ Submit
    \/ Begin
    \/ \E tok \in Tokens : \/ SaveToken(tok) \/ PrefillToken(tok)
                           \/ CtxToken(tok) \/ NewToken(tok) \/ MergeToken(tok)
    \/ \E s \in 1..MaxRows : \/ GatherRow(s) \/ ReduceRow(s)
                             \/ \E sp \in SplitIds : PartSplit(s, sp)

Spec == Init /\ [][Next]_vars

-----------------------------------------------------------------------------
(* Properties                                                               *)

Terms == (SUBSET (Labels \X Positions \X Keys)) \cup {Junk.terms}
Results == [terms : SUBSET (Labels \X Positions \X Keys), sinks : 0..1] \cup {Junk}

\* Type invariant: in particular what is weighed is always somebody's key,
\* never memory nobody wrote or the zero of a page that is gone.
TypeOK ==
    /\ window \in Windows
    /\ len \in [Requests -> 0..MaxLen]
    /\ table \in [Requests -> [Entries -> Pages \cup {-1}]]
    /\ gone \subseteq Requests
    /\ Len(ahead) <= MaxAhead
    /\ cache \in [Memory -> Keys \cup {Stale}]
    /\ dense \in [1..MaxRows -> [Positions -> Keys \cup {Stale, Zero}]]
    /\ parts \in [1..MaxRows -> [SplitIds -> Terms]]
    /\ sides \in [0..1 -> [Tokens -> Results]]
    /\ out \in [Tokens -> Results]

\* The result is attention over exactly the keys from..to of request r: each
\* is weighed once, nothing else is, and the sink is added once.
AttendsTo(result, r, from, to) ==
    /\ {x[3] : x \in result.terms} = {<<r, k>> : k \in from..to}
    /\ \A x, y \in result.terms : x[3] = y[3] => x = y
    /\ result.sinks = 1

\* However a stream is cut into chunks and single tokens, wherever its pages
\* are and whose they were before, whichever way the keys are read, split and
\* merged, and however far the engine is ahead with its tables, every token
\* attends to exactly the keys of its own stream that its window reaches; a
\* padding row yields zero.
AttentionExact ==
    todo = {} => \A s \in Rows :
        LET row == call.rows[s]
        IN  \A tok \in TokensOf(call.rows, s) :
                LET j == row.from + (tok - row.lo)
                IN  IF row.req = Pad THEN out[tok] = NoResult
                    ELSE AttendsTo(out[tok], row.req,
                                   IF window >= 0 /\ j > window THEN j - window ELSE 0, j)

\* When nothing is under way, every key of a request that is not over, and
\* whose page it still has, is at its place: no padding, no skipped token and
\* no other request has touched it, and no page has two owners.
KeysKept ==
    todo = {} /\ ahead = <<>> =>
        \A r \in Requests \ gone : \A k \in 0..(len[r] - 1) :
            LET page == table[r][k \div PageSize]
            IN  page >= 0 => cache[Address(page, k % PageSize)] = <<r, k>>
=============================================================================
