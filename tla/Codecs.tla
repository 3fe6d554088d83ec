-------------------------------- MODULE Codecs --------------------------------
(***************************************************************************)
(* The integer-exact codecs of the quantised formats: the saturating fp32  *)
(* to e4m3 encoder with its decoder, the rounding of fp32 to fp16, the     *)
(* packing of codes of a few bits into bytes, the rotation and the nearest *)
(* centroid of TurboQuant keys, and the NVFP4 decode that relocates fp4    *)
(* and fp8 bits into fp16 and pays the exponents back with one factor.     *)
(* Signs of floats are left out: every path copies the sign bit.           *)
(***************************************************************************)
EXTENDS Integers, Sequences, FiniteSetsExt

Abs(x) == IF x < 0 THEN -x ELSE x

(* e4m3.  A finite fp32 magnitude is (32 + m) * 2^(e - 5): exponent e and   *)
(* the top five bits m of its mantissa, of which three are kept, one is the *)
(* half and the last stands for every bit below.  Values count in 2^-16.    *)

MinExp == -11
MaxExp == 9
F32(e, m) == (32 + m) * 2^(e - MinExp)
Saturated == 126                        \* 0x7e: 448

E4M3(code) ==
    LET exp4 == code \div 8
        mant == code % 8
    IN  IF exp4 = 0 THEN mant * 2^7 ELSE (8 + mant) * 2^(exp4 + 6)

\* Mutant: ties round away from zero.
RoundUpAway(keep, rest, half) == rest >= half

\* Round to nearest, ties to even.
RoundUp(keep, rest, half) == rest > half \/ (rest = half /\ keep % 2 = 1)

EncodeE4M3(e, m) ==
    LET x == F32(e, m)
        rounded(keep, rest, half) == IF RoundUp(keep, rest, half) THEN keep + 1 ELSE keep
    IN  IF x > E4M3(Saturated) THEN Saturated
        ELSE IF e >= -6
        THEN LET keep == rounded(m \div 4, m % 4, 2)
                 exp4 == e + 7 + (IF keep = 8 THEN 1 ELSE 0)
             IN  IF exp4 > 15 \/ (exp4 = 15 /\ keep = 7) THEN Saturated
                 ELSE 8 * exp4 + (keep % 8)
        ELSE LET k == rounded(x \div 2^7, x % 2^7, 2^6)
             IN  IF k >= 8 THEN 8 ELSE k

---------------------------------------------------------------------------
(* A half with exponent field e and mantissa frac / 2^q, in units of        *)
(* 2^(-14-q).                                                               *)

Half(e, frac, q) == IF e = 0 THEN frac ELSE (2^q + frac) * 2^(e - 1)

---------------------------------------------------------------------------
(* The fp16 of scales, with three bits of mantissa instead of ten and four  *)
(* of exponent instead of five: MinHalf and the shifts follow from those.   *)

MinHalf == -6                           \* -14
Infinity == 15 * 8                      \* 0x7c00

\* The finite halves, and infinity as the value it stands in for.
HalfValue(h) == Half(h \div 8, h % 8, 3) * 2^7

\* f32_to_f16_bits: to nearest, ties to even, by integer operations only.
EncodeHalf(e, m) ==
    LET rounded(keep, rest, half) == IF RoundUp(keep, rest, half) THEN keep + 1 ELSE keep
        keep == rounded(m \div 4, m % 4, 2)
        field == e + 7 + (IF keep = 8 THEN 1 ELSE 0)
        shift == -e - 4                 \* -exp32 - 1
    IN  IF e >= MinHalf
        THEN IF field >= 15 THEN Infinity ELSE 8 * field + (keep % 8)
        ELSE IF shift >= 7 THEN 0       \* 25
        ELSE rounded((32 + m) \div 2^shift, (32 + m) % 2^shift, 2^(shift - 1))

---------------------------------------------------------------------------
(* TurboQuant keys.                                                          *)

\* One pass of butterflies over spans of len.
Pass(u, len) ==
    [i \in DOMAIN u |-> IF (i \div len) % 2 = 0 THEN u[i] + u[i + len]
                        ELSE u[i - len] - u[i]]

\* The unnormalised transform of 2^passes coordinates.
Fwht(u, passes) ==
    LET after[k \in 0..passes] == IF k = 0 THEN u ELSE Pass(after[k - 1], 2^(k - 1))
    IN  after[passes]

Signed(u, signs) == [i \in DOMAIN u |-> u[i] * signs[i]]

\* encode_key_row and decode_key_row, both without their 1 / sqrt(head_size).
Rotated(key, signs, passes) == Fwht(Signed(key, signs), passes)
Restored(u, signs, passes) == Signed(Fwht(u, passes), signs)

\* Mutant: the upper of two centroids as near wins.
KeyCodeUpper(z, centroids) ==
    Cardinality({m \in 1..(Len(centroids) - 1) : 2 * z >= centroids[m] + centroids[m + 1]})

\* The code of a coordinate: how many midpoints of the centroids it exceeds.
KeyCode(z, centroids) ==
    Cardinality({m \in 1..(Len(centroids) - 1) : 2 * z > centroids[m] + centroids[m + 1]})

---------------------------------------------------------------------------
(* pack_codes and unpack_code.  A code and a byte are sets of bit positions. *)

RowBytes(n, bits) == (n * bits + 7) \div 8
Byte == 0..7
ShiftLeft(s, n) == {b + n : b \in s} \cap Byte      \* the cast to uint8_t
ShiftRight(s, n) == {b - n : b \in {x \in s : x >= n}}

\* Mutant: a spill of a single bit is forgotten.
SpillsLate(i, bits) == ((i * bits) % 8) + bits > 9

Spills(i, bits) == ((i * bits) % 8) + bits > 8

\* The bits code i of n puts into byte b.
Packed(code, i, bits, b) ==
    (IF b = (i * bits) \div 8 THEN ShiftLeft(code, (i * bits) % 8) ELSE {})
    \cup (IF Spills(i, bits) /\ b = (i * bits) \div 8 + 1
          THEN ShiftRight(code, 8 - ((i * bits) % 8)) ELSE {})

PackCodes(codes, n, bits) ==
    [b \in 0..(RowBytes(n, bits) - 1) |->
        UNION {Packed(codes[i], i, bits, b) : i \in 0..(n - 1)}]

UnpackCode(row, i, bits) ==
    LET first == (i * bits) \div 8
        off   == (i * bits) % 8
        spill == IF Spills(i, bits) THEN {(b + 8) - off : b \in row[first + 1]} ELSE {}
    IN  (ShiftRight(row[first], off) \cup spill) \cap 0..(bits - 1)

---------------------------------------------------------------------------
(* NVFP4 *)

\* decode_e2m1_pair and decode_e4m3_raw: bits moved into a half as they are.
E2M1Half(nibble) == Half((nibble % 8) \div 2, nibble % 2, 1)

\* Mutant: the exponent's low bit lands in the mantissa.
E4M3HalfShifted(code) == Half(code \div 16, code % 16, 4)

E4M3Half(code) == Half(code \div 8, code % 8, 3)

Compensation == 22                      \* 4194304.0f = 2^22

\* kMag, in halves.
E2M1(nibble) == <<0, 1, 2, 3, 4, 6, 8, 12>>[(nibble % 8) + 1]

\* Halves count in 2^-15 and 2^-17, E2M1 in 2^-1, E4M3 in 2^-16.
FusedProduct(nibble, code) ==
    E2M1Half(nibble) * E4M3Half(code) * 2^(Compensation - 15)
=============================================================================
