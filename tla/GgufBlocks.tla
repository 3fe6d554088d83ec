----------------------------- MODULE GgufBlocks -----------------------------
(***************************************************************************)
(* The GGUF block types gguf_gemv decodes.  A block is a set of terms, one *)
(* per pass through the innermost loop and activation it multiplies: the   *)
(* element x of the block, the bits its code is read from (the byte j of a *)
(* grid entry that code selects, 0 without a grid), and the fields it      *)
(* shares with other elements: scales, minima, signs and offsets.  A field *)
(* is a set of bits of the block, bit b of byte B being 8 * B + b.         *)
(***************************************************************************)
EXTENDS Integers, FiniteSets, TLC

Bits(byte, bits) == {8 * byte + b : b \in bits}
Byte(byte) == Bits(byte, 0..7)
Half(byte) == Bits(byte, 0..15)
Nibble(byte, high) == Bits(byte, (4 * high)..(4 * high + 3))

Term(x, code, j, shared) == [x |-> x, code |-> code, j |-> j, shared |-> shared]

\* Blocks of 32: low nibbles first, then the high ones.
NibbleBlock(qs, shared) ==
    {Term(16 * h + i, Nibble(qs + i, h), 0, shared) : i \in 0..15, h \in 0..1}

Q8_0 == {Term(i, Byte(2 + i), 0, {Half(0)}) : i \in 0..31}
Q4_0 == NibbleBlock(2, {Half(0)})
IQ4_NL == NibbleBlock(2, {Half(0)})
Q4_1 == NibbleBlock(4, {Half(0), Half(2)})

\* q5_0 and q5_1: the fifth bit of element x is bit x of the word at qh.
FiveBits(qh, shared) ==
    {Term(16 * h + j, Nibble(qh + 4 + j, h) \cup Bits(qh, {16 * h + j}), 0, shared) :
        j \in 0..15, h \in 0..1}

Q5_0 == FiveBits(2, {Half(0)})
Q5_1 == FiveBits(4, {Half(0), Half(2)})

\* Super-blocks of 256.
Q6_K ==
    {Term(128 * half + 32 * j + l,
          Nibble(64 * half + l + 32 * (j % 2), j \div 2)
            \cup Bits(128 + 32 * half + l, {2 * j, 2 * j + 1}), 0,
          {Byte(192 + 8 * half + l \div 16 + 2 * j), Half(208)}) :
        half \in 0..1, l \in 0..31, j \in 0..3}

\* Mutant: the mins of the last four pairs take their top bits from the scales' bytes.
ScaleMinSwapped(j, s) ==
    IF j < 4 THEN [sc |-> Bits(s + j, 0..5), m |-> Bits(s + j + 4, 0..5)]
    ELSE [sc |-> Nibble(s + j + 4, 0) \cup Bits(s + j - 4, {6, 7}),
          m  |-> Nibble(s + j + 4, 1) \cup Bits(s + j - 4, {6, 7})]

\* scale_min_k4: eight six-bit scales and minima in twelve bytes.
ScaleMin(j, s) ==
    IF j < 4 THEN [sc |-> Bits(s + j, 0..5), m |-> Bits(s + j + 4, 0..5)]
    ELSE [sc |-> Nibble(s + j + 4, 0) \cup Bits(s + j - 4, {6, 7}),
          m  |-> Nibble(s + j + 4, 1) \cup Bits(s + j, {6, 7})]

ScaleMinFields(j) ==
    {ScaleMin(j, 4).sc, ScaleMin(j, 4).m, Half(0), Half(2)}

Q4_K ==
    {Term(64 * iter + 32 * h + l, Nibble(16 + 32 * iter + l, h), 0, ScaleMinFields(2 * iter + h)) :
        iter \in 0..3, l \in 0..31, h \in 0..1}

Q5_K ==
    {Term(64 * iter + 32 * h + l,
          Nibble(48 + 32 * iter + l, h) \cup Bits(16 + l, {2 * iter + h}), 0,
          ScaleMinFields(2 * iter + h)) :
        iter \in 0..3, l \in 0..31, h \in 0..1}

\* Sub-block s of 16 elements in run j of half h, two bits of each code.
TwoBits(qs, h, j, s, l) == Bits(qs + 32 * h + 16 * s + l, {2 * j, 2 * j + 1})

Q2_K ==
    {Term(128 * h + 32 * j + 16 * s + l, TwoBits(16, h, j, s, l), 0,
          {Nibble(8 * h + 2 * j + s, 0), Nibble(8 * h + 2 * j + s, 1), Half(80), Half(82)}) :
        h \in 0..1, j \in 0..3, s \in 0..1, l \in 0..15}

\* The kmask shuffle: scale i is byte i % 4 of word i \div 4 of aux, whose low
\* nibbles come from the first eight bytes and whose next two bits from the
\* last four.
ScaleQ3(i, sc) ==
    LET word == i \div 4
        byte == i % 4
    IN  Nibble(sc + 4 * (word % 2) + byte, word \div 2)
          \cup Bits(sc + 8 + byte, {2 * word, 2 * word + 1})

Q3_K ==
    {Term(128 * h + 32 * j + 16 * s + l,
          TwoBits(32, h, j, s, l) \cup Bits(16 * s + l, {4 * h + j}), 0,
          {ScaleQ3(8 * h + 2 * j + s, 96), Half(108)}) :
        h \in 0..1, j \in 0..3, s \in 0..1, l \in 0..15}

IQ4_XS ==
    {Term(32 * ib + 16 * h + j, Nibble(8 + 16 * ib + j, h), 0,
          {Nibble(4 + ib \div 2, ib % 2) \cup Bits(2, {2 * ib, 2 * ib + 1}), Half(0)}) :
        ib \in 0..7, j \in 0..15, h \in 0..1}

\* Eight elements per entry of a grid.
IQ1_S ==
    {Term(32 * ib + 8 * l + j,
          Byte(2 + 4 * ib + l) \cup Bits(34 + 2 * ib, (3 * l)..(3 * l + 2)), j,
          {Bits(34 + 2 * ib, 12..14), Bits(34 + 2 * ib, {15}), Half(0)}) :
        ib \in 0..7, l \in 0..3, j \in 0..7}

\* Signs l, seven bits, and the scale in the top four bits of a word.
SignsOf(word, l) == Bits(word, (7 * l)..(7 * l + 6))
TopScale(word) == Bits(word, 28..31)

IQ2_XXS ==
    {Term(32 * ib + 8 * l + j, Byte(2 + 8 * ib + l), j,
          {SignsOf(2 + 8 * ib + 4, l), TopScale(2 + 8 * ib + 4), Half(0)}) :
        ib \in 0..7, l \in 0..3, j \in 0..7}

IQ2_XS ==
    {Term(32 * ib + 8 * l + j, Bits(2 + 8 * ib + 2 * l, 0..8), j,
          {Bits(2 + 8 * ib + 2 * l, 9..15), Nibble(66 + ib, l \div 2), Half(0)}) :
        ib \in 0..7, l \in 0..3, j \in 0..7}

\* Four elements per entry, two entries to a run of signs.
IQ3_XXS ==
    {Term(32 * ib + 8 * l + 4 * g + j, Byte(2 + 8 * ib + 2 * l + g), j,
          {SignsOf(66 + 4 * ib, l), TopScale(66 + 4 * ib), Half(0)}) :
        ib \in 0..7, l \in 0..3, g \in 0..1, j \in 0..3}

\* dispatch_type: any other type is read as q4_0.
BlockTerms(type) ==
    CASE type = 0 -> Q8_0     [] type = 2 -> Q6_K      [] type = 3 -> Q4_K     [] type = 4 -> Q5_K
      [] type = 5 -> Q2_K     [] type = 6 -> Q3_K      [] type = 7 -> IQ4_NL   [] type = 8 -> Q4_1
      [] type = 9 -> Q5_0     [] type = 10 -> Q5_1     [] type = 11 -> IQ4_XS  [] type = 12 -> IQ2_XXS
      [] type = 13 -> IQ2_XS  [] type = 14 -> IQ3_XXS  [] type = 15 -> IQ1_S   [] OTHER -> Q4_0

BlockBytes ==
    (0 :> 34) @@ (1 :> 18) @@ (2 :> 210) @@ (3 :> 144) @@ (4 :> 176) @@ (5 :> 84) @@ (6 :> 110)
      @@ (7 :> 18) @@ (8 :> 20) @@ (9 :> 22) @@ (10 :> 24) @@ (11 :> 136) @@ (12 :> 66) @@ (13 :> 74)
      @@ (14 :> 98) @@ (15 :> 50)

\* Elements of a block, the divisor of K in its kernel.
BlockSize(type) == IF type \in {0, 1, 7, 8, 9, 10} THEN 32 ELSE 256
=============================================================================
