--------------------------- MODULE ElementKernels ---------------------------
(***************************************************************************)
(* Kernels whose work-items work on their own: elementwise maps, rotary    *)
(* embeddings, copies by index, group quantisation, the TurboQuant codec.  *)
(* Buffers that ops.hpp lets alias, or updates in place, are one buffer.   *)
(***************************************************************************)
EXTENDS KernelAccess

CONSTANT VecW  \* elements of a 16-byte vector

ASSUME VecAssumption == VecW \in Nat \ {0}

Whole(n) == n \div VecW

\* Mutant: the tail is taken up from the last whole vector's start.
VecTailOverlap(v, n) ==
    IF v < Whole(n) THEN (v * VecW)..(v * VecW + VecW - 1)
                    ELSE (Whole(n) * VecW - 1)..(n - 1)

\* A vector of the array, or the tail that fills none.
VecOrTail(v, n) ==
    IF v < Whole(n) THEN (v * VecW)..(v * VecW + VecW - 1)
                    ELSE (Whole(n) * VecW)..(n - 1)

\* An elementwise map of x and other inputs, in place or not.
VecMap(others, n) ==
    LET items == Flat(Whole(n) + (IF Whole(n) * VecW < n THEN 1 ELSE 0))
        part(b, i) == At(b, 0, VecOrTail(i[1], n))
        reads(i) == UNION {part(b, i) : b \in others \cup {"x"}}
    IN  Kernel(<<[i \in items |-> Does(reads(i), part("x", i), {})]>>, At("x", 0, Upto(n)), {})

Silu(n) == VecMap({}, n)
Gelu(n) == VecMap({}, n)
Dropout(n) == VecMap({}, n)
GeluBackward(n) == VecMap({"grad"}, n)

\* The first s widths of a sequence of up to three, added up.
SumOf(widths, s) ==
    LET w(j) == IF j <= s THEN widths[j] ELSE 0
    IN  IF Len(widths) = 1 THEN w(1)
        ELSE IF Len(widths) = 2 THEN w(1) + w(2) ELSE w(1) + w(2) + w(3)

Adamw(n) ==
    LET own(i) == UNION {At(b, 0, {i[1]}) : b \in {"p", "m", "v"}}
    IN  Kernel(<<[i \in Flat(n) |-> Does(own(i), own(i), {})]>>,
               UNION {At(b, 0, Upto(n)) : b \in {"p", "m", "v"}}, {})

\* The scalar path of a row of the gated unit takes over when d is ragged.
GluWhole(d) == IF d % VecW = 0 THEN Whole(d) ELSE 0

Glu(rows, d, lanes) ==
    LET elems(lane) == {e \in Upto(GluWhole(d) * VecW) : (e \div VecW) % lanes = lane}
                         \cup From(GluWhole(d) * VecW + lane, lanes, d)
        does(i) == Does(At("x", i[1] * 2 * d, elems(i[2]))
                          \cup At("x", i[1] * 2 * d + d, elems(i[2])),
                        At("out", i[1] * d, elems(i[2])), {})
    IN  Kernel(<<[i \in Grid(rows, lanes) |-> does(i)]>>, At("out", 0, Upto(rows * d)), {})

GluGeluF16(rows, d) ==
    LET does(i) == LET row == i[1] \div d
                       col == i[1] % d
                   IN  Does(At("x", row * 2 * d, {col, d + col}), At("out", row * d, {col}), {})
    IN  Kernel(<<[i \in Flat(rows * d) |-> does(i)]>>, At("out", 0, Upto(rows * d)), {})

Rope(tokens, heads, dim) ==
    LET half == dim \div 2
        pair(i) == {i[1] % half, (i[1] % half) + half}
        does(i) == Does(At("x", (i[1] \div half) * dim, pair(i)),
                        At("x", (i[1] \div half) * dim, pair(i)), {})
    IN  Kernel(<<[i \in Flat(tokens * heads * half) |-> does(i)]>>,
               At("x", 0, Upto(tokens * heads * dim)), {})

\* Mutant: the interleaved pairs overlap.
MropePairOff(p, embed, neox) == IF neox THEN {p, p + embed} ELSE {p, p + 1}

MropePair(p, embed, neox) == IF neox THEN {p, p + embed} ELSE {2 * p, 2 * p + 1}

\* The section whose cumulative width covers the pair; the first when none does.
MropeSection(p, widths) ==
    LET upto(s) == SumOf(widths, s)
        covering == {s \in DOMAIN widths : p < upto(s)}
    IN  IF covering = {} THEN 1 ELSE CHOOSE s \in covering : \A o \in covering : s <= o

\* Queries and keys rotate in place, each pair by the position its section
\* names; only rot of a head's size are rotated.
Mrope(tokens, heads, kvHeads, size, rot, widths, neox) ==
    LET embed == rot \div 2
        total == heads + kvHeads
        token(i) == (i[1] \div embed) \div total
        head(i) == (i[1] \div embed) % total
        own(i) == LET pair == MropePair(i[1] % embed, embed, neox)
                  IN  IF head(i) < heads THEN At("q", (token(i) * heads + head(i)) * size, pair)
                      ELSE At("k", (token(i) * kvHeads + head(i) - heads) * size, pair)
        pos(i) == {<<"positions", (MropeSection(i[1] % embed, widths) - 1) * tokens + token(i)>>}
        does(i) == Does(own(i) \cup pos(i), own(i), Into(<<"angle", i[1]>>, pos(i)))
        rotated(buffer, n) == {<<buffer, e>> : e \in {x \in Upto(tokens * n * size) : x % size < rot}}
        sections(p) == {s \in DOMAIN widths : SumOf(widths, s - 1) <= p /\ p < SumOf(widths, s)}
        items == Flat(tokens * total * embed)
    IN  Kernel(<<[i \in items |-> does(i)]>>, rotated("q", heads) \cup rotated("k", kvHeads),
               UNION {Into(<<"angle", i[1]>>, {<<"positions", (s - 1) * tokens + token(i)>> :
                                                 s \in sections(i[1] % embed)}) : i \in items})

Dsv4HcPost(tokens, streams, hidden) ==
    LET res(t, h) == {<<"residual", (t * streams + s) * hidden + h>> : s \in Upto(streams)}
        does(i) == LET h == i[1] % hidden
                       t == (i[1] \div hidden) \div streams
                       in == res(t, h) \cup {<<"x", t * hidden + h>>}
                   IN  Does(in, {<<"out", i[1]>>}, Into(<<"out", i[1]>>, in))
        sums == UNION {Into(<<"out", (t * streams + o) * hidden + h>>,
                            res(t, h) \cup {<<"x", t * hidden + h>>}) :
                         t \in Upto(tokens), o \in Upto(streams), h \in Upto(hidden)}
    IN  Kernel(<<[i \in Flat(tokens * streams * hidden) |-> does(i)]>>,
               At("out", 0, Upto(tokens * streams * hidden)), sums)

\* embedding_lookup, kv_cache_gather (source indexed) and kv_cache_scatter
\* (destination indexed): a negative index copies nothing.
IndexedCopy(index, row, indexSrc) ==
    LET n == Len(index)
        does(i) == LET r == i[1] \div row
                       idx == index[r + 1]
                       j == i[1] % row
                   IN  IF idx < 0 THEN Does({}, {}, {})
                       ELSE IF indexSrc THEN Does({<<"src", idx * row + j>>}, {<<"dst", r * row + j>>}, {})
                       ELSE Does({<<"src", r * row + j>>}, {<<"dst", idx * row + j>>}, {})
        live == {r \in 1..n : index[r] >= 0}
    IN  Kernel(<<[i \in Flat(n * row) |-> does(i)]>>,
               UNION {At("dst", (IF indexSrc THEN r - 1 ELSE index[r]) * row, Upto(row)) : r \in live}, {})

\* quantize_int4_group: one item per row and group; two codes to a byte, the
\* group's reads in whole vectors.
QuantizeInt4(N, K, group) ==
    LET gpr == K \div group
        vecs == group \div VecW
        does(i) == LET n == i[1] \div gpr
                       g == i[1] % gpr
                       read == At("w", n * K + g * group, Upto(vecs * VecW))
                       byte0 == n * (K \div 2) + (g * group) \div 2
                   IN  Does(read,
                            At("packed", byte0, {e \div 2 : e \in Upto(vecs * VecW)})
                              \cup {<<"scales", n * gpr + g>>},
                            Into(<<"absmax", n * gpr + g>>, read))
        sums == UNION {Into(<<"absmax", n * gpr + g>>, At("w", n * K + g * group, Upto(group))) :
                         n \in Upto(N), g \in Upto(gpr)}
    IN  Kernel(<<[i \in Flat(N * gpr) |-> does(i)]>>,
               At("packed", 0, Upto(N * (K \div 2))) \cup At("scales", 0, Upto(N * gpr)), sums)

RowBytesOf(size, bits) == CeilDivide(size * bits, 8)

\* turboquant_encode: an item owns a whole (token, head) row, because codes
\* cross the bounds of bytes but not of rows; group scales follow each row.
TurboquantEncode(slots, heads, size, bits, groups) ==
    LET bytes == RowBytesOf(size, bits)
        dst(i) == slots[i[1] \div heads + 1] * heads + (i[1] % heads)
        does(i) == IF slots[i[1] \div heads + 1] < 0 THEN Does({}, {}, {})
                   ELSE Does(At("key", i[1] * size, Upto(size)),
                             At("cache", dst(i) * bytes, Upto(bytes))
                               \cup At("scale", dst(i) * groups, Upto(groups)), {})
        live == {s \in {slots[t] : t \in DOMAIN slots} : s >= 0}
    IN  Kernel(<<[i \in Flat(Len(slots) * heads) |-> does(i)]>>,
               UNION {At("cache", s * heads * bytes, Upto(heads * bytes))
                        \cup At("scale", s * heads * groups, Upto(heads * groups)) : s \in live}, {})

\* turboquant_decode: a negative slot's row becomes zeros.
TurboquantDecode(slots, heads, size, bits) ==
    LET bytes == RowBytesOf(size, bits)
        slot(i) == slots[i[1] \div heads + 1]
        does(i) == Does(IF slot(i) < 0 THEN {}
                        ELSE At("cache", (slot(i) * heads + (i[1] % heads)) * bytes, Upto(bytes)),
                        At("out", i[1] * size, Upto(size)), {})
    IN  Kernel(<<[i \in Flat(Len(slots) * heads) |-> does(i)]>>,
               At("out", 0, Upto(Len(slots) * heads * size)), {})
=============================================================================
