-------------------------- MODULE PagedCache_proofs --------------------------
(***************************************************************************)
(* Proofs about PagedCache, for any number of requests, pages, splits and  *)
(* rows, any page size and stride, any length and any depth of calls ahead *)
(* of the device.  The invariant is IInv of PagedCacheInv.                 *)
(***************************************************************************)
EXTENDS PagedCacheInv, SequenceTheorems, TLAPS

Offs == 0..(PageSize - 1)

-----------------------------------------------------------------------------
(* Places in memory                                                         *)

\* Division with remainder, for a positive divisor.
LEMMA DivMod ==
    ASSUME NEW a \in Nat, NEW d \in Nat \ {0}
    PROVE  /\ a \div d \in Nat /\ a % d \in 0..(d - 1)
           /\ a = d * (a \div d) + (a % d)
  BY SMT

\* Multiplying by a natural number keeps the order.
LEMMA MulMono ==
    ASSUME NEW a \in Nat, NEW b \in Nat, NEW c \in Nat, a <= b
    PROVE  a * c <= b * c
  BY SMT

\* A number has one quotient and one remainder.
LEMMA OneQuotient ==
    ASSUME NEW c \in Nat, NEW p \in Nat, NEW q \in Nat, NEW o \in Nat, NEW v \in Nat,
           o < c, v < c, p * c + o = q * c + v
    PROVE  p = q /\ o = v
<1>0. p * c \in Nat /\ q * c \in Nat
  BY SMT
<1>1. ~(p < q)
  <2> SUFFICES ASSUME p + 1 <= q PROVE FALSE
    OBVIOUS
  <2>1. (p + 1) * c <= q * c
    BY MulMono
  <2>2. (p + 1) * c = p * c + c
    BY SMT
  <2> QED
    BY <1>0, <2>1, <2>2
<1>2. ~(q < p)
  <2> SUFFICES ASSUME q + 1 <= p PROVE FALSE
    OBVIOUS
  <2>1. (q + 1) * c <= p * c
    BY MulMono
  <2>2. (q + 1) * c = q * c + c
    BY SMT
  <2> QED
    BY <1>0, <2>1, <2>2
<1>3. p = q
  BY <1>1, <1>2
<1> QED
  BY <1>0, <1>3

\* Where a key is in its request's block table.
LEMMA KeySplit ==
    ASSUME NEW k \in Nat, k < MaxLen
    PROVE  /\ k \in Positions
           /\ k \div PageSize \in Entries /\ k % PageSize \in Offs
           /\ k = PageSize * (k \div PageSize) + (k % PageSize)
<1> DEFINE d == k \div PageSize
           e == k % PageSize
<1>1. d \in Nat /\ e \in Offs /\ k = PageSize * d + e
  BY PagedAssumption, DivMod DEF Offs
<1> HIDE DEF d, e
<1>2. d < MaxPages
  <2> SUFFICES ASSUME MaxPages <= d PROVE FALSE
    BY <1>1, PagedAssumption
  <2>1. MaxPages * PageSize <= d * PageSize
    BY <1>1, PagedAssumption, MulMono
  <2>2. d * PageSize = PageSize * d /\ PageSize * d \in Nat /\ MaxPages * PageSize \in Nat
    BY <1>1, PagedAssumption, SMT
  <2> QED
    BY <1>1, <2>1, <2>2, PagedAssumption DEF Offs
<1> QED
  BY <1>1, <1>2, PagedAssumption DEF d, e, Positions, Entries

\* Pages do not overlap, whatever the stride.
LEMMA AddressInjective ==
    ASSUME NEW p \in Pages, NEW q \in Pages, NEW o \in Offs, NEW v \in Offs,
           Address(p, o) = Address(q, v)
    PROVE  p = q /\ o = v
  BY PagedAssumption, OneQuotient DEF Pages, Offs, Address

LEMMA AddressMemory ==
    ASSUME NEW p \in Pages, NEW o \in Offs
    PROVE  Address(p, o) \in Memory
<1>1. p \in Nat /\ p + 1 <= NPages /\ PageStride \in Nat /\ o \in Nat /\ o < PageStride
      /\ NPages \in Nat
  BY PagedAssumption DEF Pages, Offs
<1>2. (p + 1) * PageStride <= NPages * PageStride
  BY <1>1, MulMono
<1>3. (p + 1) * PageStride = p * PageStride + PageStride
      /\ p * PageStride \in Nat /\ NPages * PageStride \in Nat
  BY <1>1, SMT
<1> QED
  BY <1>1, <1>2, <1>3 DEF Address, Memory

\* A flat slot is the place its page and offset name.
LEMMA SlotPlace ==
    ASSUME NEW p \in Pages, NEW o \in Offs
    PROVE  /\ p * PageSize + o \in Nat
           /\ Place(p * PageSize + o) = Address(p, o)
<1> DEFINE x == p * PageSize + o
<1>1. p \in Nat /\ o \in Nat /\ o < PageSize /\ PageSize \in Nat \ {0}
  BY PagedAssumption DEF Pages, Offs
<1>2. x \in Nat
  BY <1>1, SMT
<1>3. x = p * PageSize + o
  OBVIOUS
<1> HIDE DEF x
<1>4. x \div PageSize \in Nat /\ x % PageSize \in 0..(PageSize - 1)
      /\ x = PageSize * (x \div PageSize) + (x % PageSize)
  BY <1>1, <1>2, DivMod
<1> DEFINE q == x \div PageSize
           v == x % PageSize
<1> HIDE DEF q, v
<1>5. q \in Nat /\ v \in Nat /\ v < PageSize /\ x = PageSize * q + v
  BY <1>1, <1>4 DEF q, v
<1>6. PageSize * q = q * PageSize
  BY <1>1, <1>5, SMT
<1>7. p = q /\ o = v
  BY <1>1, <1>3, <1>5, <1>6, OneQuotient
<1> QED
  BY <1>2, <1>7 DEF Place, x, q, v

\* A key's place names its page and its position in the page.
LEMMA OneSpot ==
    ASSUME NEW tab \in [Entries -> Pages \cup {-1}],
           NEW other \in [Entries -> Pages \cup {-1}],
           NEW k \in Nat, NEW m \in Nat, k < MaxLen, m < MaxLen,
           tab[k \div PageSize] # -1, other[m \div PageSize] # -1,
           Spot(tab, k) = Spot(other, m)
    PROVE  /\ tab[k \div PageSize] = other[m \div PageSize]
           /\ k \div PageSize = m \div PageSize => k = m
<1>1. /\ k \div PageSize \in Entries /\ k % PageSize \in Offs
      /\ k = PageSize * (k \div PageSize) + (k % PageSize)
  BY KeySplit
<1>2. /\ m \div PageSize \in Entries /\ m % PageSize \in Offs
      /\ m = PageSize * (m \div PageSize) + (m % PageSize)
  BY KeySplit
<1>3. tab[k \div PageSize] \in Pages /\ other[m \div PageSize] \in Pages
  BY <1>1, <1>2
<1>4. tab[k \div PageSize] = other[m \div PageSize] /\ k % PageSize = m % PageSize
  BY <1>1, <1>2, <1>3, AddressInjective DEF Spot
<1> QED
  BY <1>1, <1>2, <1>4

\* The slot of a key whose page is there, and its place.
LEMMA SpotPlace ==
    ASSUME NEW row, row.tab \in [Entries -> Pages \cup {-1}],
           NEW k \in Nat, k < MaxLen
    PROVE  /\ row.tab[k \div PageSize] \in Pages \cup {-1}
           /\ Slot(row, k) < 0 <=> row.tab[k \div PageSize] = -1
           /\ row.tab[k \div PageSize] # -1 =>
                /\ Place(Slot(row, k)) = Spot(row.tab, k)
                /\ Spot(row.tab, k) \in Memory
           /\ row.tab[k \div PageSize] >= 0 <=> row.tab[k \div PageSize] # -1
<1> DEFINE p == row.tab[k \div PageSize]
           o == k % PageSize
<1>1. k \div PageSize \in Entries /\ o \in Offs
  BY KeySplit
<1>2. p \in Pages \cup {-1}
  BY <1>1
<1> HIDE DEF p, o
<1>3. CASE p = -1
  BY <1>1, <1>2, <1>3 DEF p, Slot
<1>4. CASE p # -1
  <2>1. p \in Pages /\ p >= 0
    BY <1>2, <1>4, PagedAssumption DEF Pages
  <2>2. Slot(row, k) = p * PageSize + o
    BY <2>1, PagedAssumption DEF Slot, p, o, Pages
  <2>3. p * PageSize + o \in Nat /\ Place(p * PageSize + o) = Address(p, o)
    BY <1>1, <2>1, SlotPlace
  <2>4. Address(p, o) \in Memory
    BY <1>1, <2>1, AddressMemory
  <2>5. ~(Slot(row, k) < 0)
    BY <2>2, <2>3
  <2>6. Place(Slot(row, k)) = Spot(row.tab, k) /\ Spot(row.tab, k) \in Memory
    BY <2>2, <2>3, <2>4 DEF Spot, p, o
  <2> QED
    BY <1>2, <1>4, <2>1, <2>5, <2>6 DEF p
<1> QED
  BY <1>3, <1>4

-----------------------------------------------------------------------------
(* Splits                                                                   *)

Lefts == {-1} \cup Nat

\* The splits start inside the context and reach its end.
LEMMA SplitBounds ==
    ASSUME NEW ctx \in Nat, NEW left \in Lefts
    PROVE  /\ DecodeLo(ctx, left) \in 0..ctx
           /\ PerSplit(ctx, left, Splits) \in Nat
           /\ ctx - DecodeLo(ctx, left) <= Splits * PerSplit(ctx, left, Splits)
<1> DEFINE lo == DecodeLo(ctx, left)
           span == ctx - lo
           per == (span + (Splits - 1)) \div Splits
<1>1. lo \in 0..ctx
  BY DEF DecodeLo, Lefts
<1>2. per = PerSplit(ctx, left, Splits)
  BY DEF PerSplit
<1> HIDE DEF lo
<1>3. span \in Nat /\ span + (Splits - 1) \in Nat
  BY <1>1, PagedAssumption
<1> HIDE DEF span
<1>4. /\ per \in Nat /\ (span + (Splits - 1)) % Splits \in 0..(Splits - 1)
      /\ span + (Splits - 1) = Splits * per + ((span + (Splits - 1)) % Splits)
  BY <1>3, PagedAssumption, DivMod
<1> HIDE DEF per
<1>5. Splits * per \in Nat
  BY <1>4, PagedAssumption, SMT
<1>6. span <= Splits * per
  BY <1>3, <1>4, <1>5, PagedAssumption
<1> QED
  BY <1>1, <1>2, <1>4, <1>6 DEF lo, span

\* What a split holds, without the minimum.
LEMMA SplitIs ==
    ASSUME NEW ctx \in Nat, NEW left \in Lefts, NEW sp \in SplitIds, NEW k \in Int
    PROVE  LET lo == DecodeLo(ctx, left)
               per == PerSplit(ctx, left, Splits)
           IN  /\ sp * per \in Nat
               /\ k \in SplitKeys(ctx, left, Splits, sp) <=>
                    lo + sp * per <= k /\ k < lo + sp * per + per /\ k < ctx
<1> DEFINE lo == DecodeLo(ctx, left)
           per == PerSplit(ctx, left, Splits)
           x == sp * per
<1>1. lo \in Nat /\ per \in Nat /\ sp \in Nat
  BY SplitBounds, PagedAssumption DEF SplitIds
<1>2. k \in SplitKeys(ctx, left, Splits, sp)
        <=> k \in (lo + x)..((IF (lo + x) + per < ctx THEN (lo + x) + per ELSE ctx) - 1)
  BY DEF SplitKeys
<1> HIDE DEF lo, per
<1>3. x \in Nat
  BY <1>1, SMT
<1> HIDE DEF x
<1> QED
  BY <1>1, <1>2, <1>3 DEF lo, per, x

\* Every key of the span is in one split, and in no other.
LEMMA SplitOnce ==
    ASSUME NEW ctx \in Nat, NEW left \in Lefts, NEW k \in Int,
           NEW sp \in SplitIds, NEW sq \in SplitIds,
           k \in SplitKeys(ctx, left, Splits, sp), k \in SplitKeys(ctx, left, Splits, sq)
    PROVE  sp = sq
<1> DEFINE lo == DecodeLo(ctx, left)
           per == PerSplit(ctx, left, Splits)
<1>1. lo \in Nat /\ per \in Nat /\ sp \in Nat /\ sq \in Nat
  BY SplitBounds, PagedAssumption DEF SplitIds
<1>2. lo + sp * per <= k /\ k < lo + sp * per + per /\ sp * per \in Nat
  BY SplitIs
<1>3. lo + sq * per <= k /\ k < lo + sq * per + per /\ sq * per \in Nat
  BY SplitIs
<1> HIDE DEF lo, per
<1> DEFINE o == k - (lo + sp * per)
           v == k - (lo + sq * per)
<1>4. o \in Nat /\ v \in Nat /\ o < per /\ v < per
  BY <1>1, <1>2, <1>3
<1>5. sp * per + o = sq * per + v
  BY <1>1, <1>2, <1>3
<1> HIDE DEF o, v
<1> QED
  BY <1>1, <1>4, <1>5, OneQuotient

LEMMA SplitCovers ==
    ASSUME NEW ctx \in Nat, NEW left \in Lefts, NEW k \in Int,
           DecodeLo(ctx, left) <= k, k < ctx
    PROVE  \E sp \in SplitIds : k \in SplitKeys(ctx, left, Splits, sp)
<1> DEFINE lo == DecodeLo(ctx, left)
           per == PerSplit(ctx, left, Splits)
<1>1. lo \in 0..ctx /\ per \in Nat /\ ctx - lo <= Splits * per
  BY SplitBounds
<1>2. lo <= k
  OBVIOUS
<1>3. \A sp \in SplitIds : sp * per \in Nat /\
        (lo + sp * per <= k /\ k < lo + sp * per + per => k \in SplitKeys(ctx, left, Splits, sp))
  BY SplitIs
<1> HIDE DEF lo, per
<1>4. per # 0
  BY <1>1, <1>2, PagedAssumption
<1> DEFINE x == k - lo
<1>5. x \in Nat /\ x < Splits * per
  <2>1. Splits * per \in Nat
    BY <1>1, PagedAssumption, SMT
  <2> QED
    BY <1>1, <1>2, <2>1
<1>6. k = lo + x
  BY <1>1
<1> HIDE DEF x
<1> DEFINE q == x \div per
           v == x % per
<1>7. q \in Nat /\ v \in 0..(per - 1) /\ x = per * q + v
  BY <1>1, <1>4, <1>5, DivMod
<1> HIDE DEF q, v
<1>8. per * q = q * per /\ q * per \in Nat /\ Splits * per \in Nat
  BY <1>1, <1>7, PagedAssumption, SMT
<1>9. q < Splits
  <2> SUFFICES ASSUME Splits <= q PROVE FALSE
    BY <1>7, PagedAssumption
  <2>1. Splits * per <= q * per
    BY <1>1, <1>7, PagedAssumption, MulMono
  <2> QED
    BY <1>5, <1>7, <1>8, <2>1, <1>1
<1>10. q \in SplitIds
  BY <1>7, <1>9, PagedAssumption DEF SplitIds
<1>11. lo + q * per <= k /\ k < lo + q * per + per
  BY <1>1, <1>6, <1>7, <1>8
<1> QED
  BY <1>3, <1>10, <1>11

-----------------------------------------------------------------------------
(* Calls and their rows                                                     *)

LEMMA CallFacts ==
    ASSUME CallsInv, NEW n \in Turns
    PROVE  /\ CallAt(n) \in CallSet /\ CallOK(CallAt(n))
           /\ DOMAIN CallAt(n).rows = 1..Len(CallAt(n).rows)
           /\ \A s \in DOMAIN CallAt(n).rows :
                s \in 1..MaxRows /\ CallAt(n).rows[s] \in RowSet /\ RowOK(CallAt(n).rows[s])
<1> DEFINE c == CallAt(n)
<1>1. c \in CallSet
  <2>1. CASE n = 0
    BY <2>1 DEF CallsInv, CallAt
  <2>2. CASE n # 0
    <3>1. n \in 1..Len(ahead) /\ ahead \in Seq(CallSet)
      BY <2>2 DEF Turns, CallsInv
    <3> QED
      BY <2>2, <3>1 DEF CallAt
  <2> QED
    BY <2>1, <2>2
<1>2. CallOK(c)
  BY DEF CallsInv
<1> HIDE DEF c
<1>3. c.rows \in Seq(RowSet)
  BY <1>1 DEF CallSet
<1>4. /\ DOMAIN c.rows = 1..Len(c.rows) /\ Len(c.rows) \in Nat /\ Len(c.rows) <= MaxRows
      /\ \A s \in DOMAIN c.rows : c.rows[s] \in RowSet
  BY <1>2, <1>3 DEF CallOK
<1>5. \A s \in DOMAIN c.rows : RowOK(c.rows[s])
  BY <1>2 DEF CallOK
<1>6. \A s \in DOMAIN c.rows : s \in 1..MaxRows
  BY <1>4, PagedAssumption
<1> QED
  BY <1>1, <1>2, <1>4, <1>5, <1>6 DEF c

\* The running call.
LEMMA RunningCall ==
    ASSUME CallsInv
    PROVE  /\ call \in CallSet /\ CallOK(call) /\ Rows = 1..Len(call.rows)
           /\ \A s \in Rows : s \in 1..MaxRows /\ call.rows[s] \in RowSet /\ RowOK(call.rows[s])
<1>1. 0 \in Turns
  BY DEF Turns, CallsInv
<1> QED
  BY <1>1, CallFacts DEF CallAt, Rows

LEMMA CtxFacts ==
    ASSUME NEW row \in RowSet, RowOK(row)
    PROVE  /\ Ctx(row) \in Nat /\ Ctx(row) <= MaxLen
           /\ row.lo \in Nat /\ row.hi \in Nat /\ row.from \in Nat
           /\ row.req \in Requests \cup {Pad}
           /\ row.tab \in [Entries -> Pages \cup {-1}]
           /\ row.req # Pad => Ctx(row) = row.from + (row.hi - row.lo)
           /\ row.req = Pad => Ctx(row) = 0 /\ row.hi = row.lo + 1 /\ ~row.prefill
           /\ ~row.prefill => row.hi = row.lo + 1
           /\ \A k \in 0..(Ctx(row) - 1) : k \in Positions
  BY PagedAssumption DEF RowSet, RowOK, Ctx, Positions

\* A row has pages for its new keys.
LEMMA NewKeysHeld ==
    ASSUME TypeOK, NEW row \in RowSet, RowOK(row), NEW k \in row.from..(Ctx(row) - 1)
    PROVE  k \in Held(row)
<1>1. k \in 0..(Ctx(row) - 1) /\ row.from \in Nat
  BY CtxFacts
<1>2. window \in Int
  BY PagedAssumption DEF TypeOK
<1>3. row.tab[k \div PageSize] = -1 => window >= 0 /\ k < row.from - window
  BY <1>1 DEF RowOK
<1> QED
  BY <1>1, <1>2, <1>3 DEF Held

LEMMA HeldFacts ==
    ASSUME NEW row \in RowSet, RowOK(row), NEW k \in Held(row)
    PROVE  /\ k \in Nat /\ k < MaxLen /\ k \in Positions /\ k < Ctx(row)
           /\ k \div PageSize \in Entries
           /\ row.tab[k \div PageSize] \in Pages
           /\ row.req \in Requests
           /\ ~(Slot(row, k) < 0)
           /\ Place(Slot(row, k)) = Spot(row.tab, k) /\ Spot(row.tab, k) \in Memory
<1>1. /\ Ctx(row) \in Nat /\ Ctx(row) <= MaxLen /\ row.req \in Requests \cup {Pad}
      /\ row.tab \in [Entries -> Pages \cup {-1}]
      /\ row.req = Pad => Ctx(row) = 0
  BY CtxFacts
<1>2. k \in 0..(Ctx(row) - 1) /\ row.tab[k \div PageSize] # -1
  BY DEF Held
<1>3. k \in Nat /\ k < MaxLen /\ k < Ctx(row) /\ row.req \in Requests
  BY <1>1, <1>2, PagedAssumption
<1>4. k \in Positions /\ k \div PageSize \in Entries
  BY <1>3, KeySplit
<1>5. row.tab[k \div PageSize] \in Pages
  BY <1>1, <1>2, <1>4
<1>6. /\ Slot(row, k) < 0 <=> row.tab[k \div PageSize] = -1
      /\ Place(Slot(row, k)) = Spot(row.tab, k) /\ Spot(row.tab, k) \in Memory
  BY <1>1, <1>2, <1>3, SpotPlace
<1> QED
  BY <1>2, <1>3, <1>4, <1>5, <1>6

\* Two keys of a call are at two places.
LEMMA OneKey ==
    ASSUME CallsInv, NEW n \in Turns,
           NEW s \in DOMAIN CallAt(n).rows, NEW u \in DOMAIN CallAt(n).rows,
           NEW k \in Held(CallAt(n).rows[s]), NEW m \in Held(CallAt(n).rows[u]),
           Spot(CallAt(n).rows[s].tab, k) = Spot(CallAt(n).rows[u].tab, m)
    PROVE  s = u /\ k = m
<1> DEFINE x == CallAt(n).rows[s]
           y == CallAt(n).rows[u]
<1>1. x \in RowSet /\ RowOK(x) /\ y \in RowSet /\ RowOK(y)
  BY CallFacts
<1>2. k \in Held(x) /\ m \in Held(y) /\ Spot(x.tab, k) = Spot(y.tab, m)
  OBVIOUS
<1>3. \A i, j \in Entries : x.tab[i] = y.tab[j] /\ x.tab[i] # -1 => s = u /\ i = j
  BY CallFacts DEF CallOK
<1> HIDE DEF x, y
<1>4. /\ x.tab \in [Entries -> Pages \cup {-1}]
      /\ y.tab \in [Entries -> Pages \cup {-1}]
  BY <1>1, CtxFacts
<1>5. /\ k \in Nat /\ k < MaxLen /\ k \div PageSize \in Entries
      /\ m \in Nat /\ m < MaxLen /\ m \div PageSize \in Entries
  BY <1>1, <1>2, HeldFacts
<1>6. x.tab[k \div PageSize] # -1 /\ y.tab[m \div PageSize] # -1
  BY <1>2 DEF Held
<1>7. /\ x.tab[k \div PageSize] = y.tab[m \div PageSize]
      /\ k \div PageSize = m \div PageSize => k = m
  BY <1>2, <1>4, <1>5, <1>6, OneSpot
<1> QED
  BY <1>3, <1>5, <1>6, <1>7

\* What a row is to write, and where.
LEMMA WriteFacts ==
    ASSUME CallsInv, TypeOK, NEW n \in Turns, NEW s \in DOMAIN CallAt(n).rows,
           NEW a, NEW r, NEW k, RowWrites(n, s, a, r, k)
    PROVE  /\ CallAt(n).rows[s].req = r
           /\ k \in Held(CallAt(n).rows[s])
           /\ a = Spot(CallAt(n).rows[s].tab, k)
<1> DEFINE row == CallAt(n).rows[s]
<1>1. row.req = r /\ k \in row.from..(Ctx(row) - 1) /\ a = Spot(row.tab, k)
  BY DEF RowWrites
<1>2. row \in RowSet /\ RowOK(row)
  BY CallFacts
<1>3. k \in Held(row)
  <2> HIDE DEF row
  <2> QED
    BY <1>1, <1>2, NewKeysHeld
<1> QED
  BY <1>1, <1>3

\* A call writes one key to an address.
LEMMA OneWrite ==
    ASSUME CallsInv, TypeOK, NEW n \in Turns, NEW a, NEW r, NEW k, NEW q, NEW m,
           Writes(n, a, r, k), Writes(n, a, q, m)
    PROVE  r = q /\ k = m
<1>1. PICK s \in DOMAIN CallAt(n).rows : RowWrites(n, s, a, r, k)
  BY DEF Writes
<1>2. PICK u \in DOMAIN CallAt(n).rows : RowWrites(n, u, a, q, m)
  BY DEF Writes
<1>3. /\ CallAt(n).rows[s].req = r /\ k \in Held(CallAt(n).rows[s])
      /\ a = Spot(CallAt(n).rows[s].tab, k)
  BY <1>1, WriteFacts
<1>4. /\ CallAt(n).rows[u].req = q /\ m \in Held(CallAt(n).rows[u])
      /\ a = Spot(CallAt(n).rows[u].tab, m)
  BY <1>2, WriteFacts
<1>5. s = u /\ k = m
  <2>1. k \in Held(CallAt(n).rows[s]) /\ m \in Held(CallAt(n).rows[u])
    BY <1>3, <1>4
  <2>2. Spot(CallAt(n).rows[s].tab, k) = Spot(CallAt(n).rows[u].tab, m)
    BY <1>3, <1>4
  <2> QED
    BY <2>1, <2>2, OneKey
<1> QED
  BY <1>3, <1>4, <1>5

-----------------------------------------------------------------------------
(* What lasts                                                               *)

\* A key that lasts does so while nobody touches its place.
LEMMA LastingKept ==
    ASSUME NEW n \in Nat, NEW a, NEW r, NEW k, Lasting(a, r, k, n),
           cache'[a] = cache[a],
           \A j \in 0..n : \A q, m : Writes(j, a, q, m)' <=> Writes(j, a, q, m)
    PROVE  Lasting(a, r, k, n)'
  BY DEF Lasting, Undisturbed

\* When the running call has saved its keys, it finds the ones it reads.
LEMMA ReadNow ==
    ASSUME CallsInv, TypeOK, ReadInv, \A item \in todo : item[1] # "save",
           NEW s \in Rows, NEW k \in Held(call.rows[s])
    PROVE  cache[Spot(call.rows[s].tab, k)] = <<call.rows[s].req, k>>
<1> DEFINE a == Spot(call.rows[s].tab, k)
           r == call.rows[s].req
<1>1. 0 \in Turns /\ CallAt(0) = call
  BY DEF Turns, CallsInv, CallAt
<1>2. Lasting(a, r, k, 0)
  BY <1>1 DEF ReadInv, Rows
<1> HIDE DEF a, r
<1>3. ~Writes(0, a, r, k)
  BY DEF Writes, RowWrites
<1>4. cache[a] = <<r, k>>
  BY <1>2, <1>3 DEF Lasting
<1> QED
  BY <1>4 DEF a, r

\* The row that has a token is the only one.
LEMMA OneRow ==
    ASSUME CallsInv, NEW s \in Rows, NEW u \in Rows, NEW tok \in Int,
           call.rows[s].lo <= tok, tok < call.rows[s].hi,
           call.rows[u].lo <= tok, tok < call.rows[u].hi
    PROVE  s = u
<1>1. /\ s \in Int /\ u \in Int
      /\ call.rows[s] \in RowSet /\ call.rows[u] \in RowSet
      /\ u < s => call.rows[u].hi <= call.rows[s].lo
      /\ s < u => call.rows[s].hi <= call.rows[u].lo
  BY RunningCall DEF CallOK, Rows
<1>2. /\ call.rows[s].lo \in Int /\ call.rows[s].hi \in Int
      /\ call.rows[u].lo \in Int /\ call.rows[u].hi \in Int
  BY <1>1 DEF RowSet
<1> QED
  BY <1>1, <1>2

\* The engine's packing and the kernels' scan agree on it.
LEMMA OwnerRight ==
    ASSUME CallsInv, NEW s \in Rows, NEW tok \in TokensOf(call.rows, s)
    PROVE  /\ tok \in Int /\ call.rows[s].lo <= tok /\ tok < call.rows[s].hi
           /\ Owner(tok) = s /\ FindSeq(tok) = s
<1>1. \A u \in Rows : /\ u \in Int /\ call.rows[u] \in RowSet
                      /\ call.rows[u].lo \in Int /\ call.rows[u].hi \in Int
                      /\ call.rows[u].lo < call.rows[u].hi
  BY RunningCall DEF RowSet, RowOK
<1>2. tok \in Int /\ call.rows[s].lo <= tok /\ tok < call.rows[s].hi
  BY <1>1 DEF TokensOf
<1>3. Owner(tok) = s
  BY <1>2, OneRow DEF Owner
<1>4. \A u \in Rows : u < s => call.rows[u].hi <= call.rows[s].lo
  BY RunningCall DEF CallOK, Rows
<1>5. \A u \in Rows : u < s => call.rows[u].hi <= tok
  BY <1>1, <1>2, <1>4
<1>6. ASSUME NEW u \in Rows,
             tok < call.rows[u].hi \/ \A w \in Rows : w <= u,
             \A w \in Rows : w < u => call.rows[w].hi <= tok
      PROVE  u = s
  <2>1. ~(s < u)
    BY <1>1, <1>2, <1>6
  <2>2. ~(u < s)
    BY <1>1, <1>2, <1>5, <1>6
  <2> QED
    BY <1>1, <2>1, <2>2
<1>7. FindSeq(tok) = s
  BY <1>2, <1>5, <1>6 DEF FindSeq
<1> QED
  BY <1>2, <1>3, <1>7

-----------------------------------------------------------------------------
(* Work                                                                     *)

LEMMA WorkItems ==
    ASSUME NEW c \in CallSet, NEW kernel, NEW i, <<kernel, i>> \in Work(c)
    PROVE  /\ kernel = "save" => i \in AllTokens(c.rows)
           /\ kernel = "gather" => c.form = "dense" /\ i \in Chunks(c.rows)
           /\ kernel = "prefill" => c.form # "cascade" /\ i \in AllTokens(c.rows)
           /\ kernel \in {"ctx", "new", "merge"} =>
                c.form = "cascade" /\ i \in ChunkTokens(c.rows)
           /\ kernel = "part" => i \in Steps(c.rows) \X SplitIds
           /\ kernel = "reduce" => i \in Steps(c.rows)
<1>1. c.form \in {"paged", "dense", "cascade"}
  BY DEF CallSet
<1> DEFINE chunked == CASE c.form = "paged" -> Items("prefill", AllTokens(c.rows))
                        [] c.form = "dense" -> Items("gather", Chunks(c.rows))
                                                 \cup Items("prefill", AllTokens(c.rows))
                        [] c.form = "cascade" -> Items("ctx", ChunkTokens(c.rows))
                                                   \cup Items("new", ChunkTokens(c.rows))
                                                   \cup Items("merge", ChunkTokens(c.rows))
<1>2. \/ <<kernel, i>> \in Items("save", AllTokens(c.rows))
      \/ <<kernel, i>> \in chunked
      \/ <<kernel, i>> \in Items("part", Steps(c.rows) \X SplitIds)
      \/ <<kernel, i>> \in Items("reduce", Steps(c.rows))
  BY DEF Work
<1>3. \A K, S : <<kernel, i>> \in Items(K, S) => kernel = K /\ i \in S
  BY DEF Items
<1>4. CASE <<kernel, i>> \in chunked
  <2>1. CASE c.form = "paged"
    BY <1>3, <1>4, <2>1
  <2>2. CASE c.form = "dense"
    <3>1. <<kernel, i>> \in Items("gather", Chunks(c.rows))
            \/ <<kernel, i>> \in Items("prefill", AllTokens(c.rows))
      BY <1>4, <2>2
    <3> QED
      BY <1>3, <2>2, <3>1
  <2>3. CASE c.form = "cascade"
    <3>1. \/ <<kernel, i>> \in Items("ctx", ChunkTokens(c.rows))
          \/ <<kernel, i>> \in Items("new", ChunkTokens(c.rows))
          \/ <<kernel, i>> \in Items("merge", ChunkTokens(c.rows))
      BY <1>4, <2>3
    <3> QED
      BY <1>3, <2>3, <3>1
  <2> QED
    BY <1>1, <2>1, <2>2, <2>3
<1>5. CASE <<kernel, i>> \in Items("save", AllTokens(c.rows))
  BY <1>3, <1>5
<1>6. CASE <<kernel, i>> \in Items("part", Steps(c.rows) \X SplitIds)
  BY <1>3, <1>6
<1>7. CASE <<kernel, i>> \in Items("reduce", Steps(c.rows))
  BY <1>3, <1>7
<1> HIDE DEF chunked
<1> QED
  BY <1>2, <1>4, <1>5, <1>6, <1>7

\* What a new call's work has.
LEMMA WorkHas ==
    ASSUME NEW c \in CallSet
    PROVE  /\ \A i \in AllTokens(c.rows) : <<"save", i>> \in Work(c)
           /\ \A i \in Steps(c.rows), sp \in SplitIds : <<"part", <<i, sp>>>> \in Work(c)
           /\ \A i \in Steps(c.rows) : <<"reduce", i>> \in Work(c)
           /\ c.form = "dense" => \A i \in Chunks(c.rows) : <<"gather", i>> \in Work(c)
           /\ c.form # "cascade" /\ Chunks(c.rows) # {} =>
                \A i \in AllTokens(c.rows) : <<"prefill", i>> \in Work(c)
           /\ c.form = "cascade" => \A i \in ChunkTokens(c.rows) :
                /\ <<"ctx", i>> \in Work(c) /\ <<"new", i>> \in Work(c)
                /\ <<"merge", i>> \in Work(c)
<1>1. c.form \in {"paged", "dense", "cascade"}
  BY DEF CallSet
<1>2. \A K, S : \A i \in S : <<K, i>> \in Items(K, S)
  BY DEF Items
<1>3. /\ Items("save", AllTokens(c.rows)) \subseteq Work(c)
      /\ Items("part", Steps(c.rows) \X SplitIds) \subseteq Work(c)
      /\ Items("reduce", Steps(c.rows)) \subseteq Work(c)
  BY DEF Work
<1>4. ChunkTokens(c.rows) # {} => Chunks(c.rows) # {}
  BY DEF ChunkTokens
<1>5. /\ c.form = "dense" /\ Chunks(c.rows) # {} => Items("gather", Chunks(c.rows)) \subseteq Work(c)
      /\ c.form # "cascade" /\ Chunks(c.rows) # {} => Items("prefill", AllTokens(c.rows)) \subseteq Work(c)
      /\ c.form = "cascade" /\ Chunks(c.rows) # {} =>
           /\ Items("ctx", ChunkTokens(c.rows)) \subseteq Work(c)
           /\ Items("new", ChunkTokens(c.rows)) \subseteq Work(c)
           /\ Items("merge", ChunkTokens(c.rows)) \subseteq Work(c)
  BY <1>1 DEF Work
<1>6. \A i \in Steps(c.rows), sp \in SplitIds : <<i, sp>> \in Steps(c.rows) \X SplitIds
  OBVIOUS
<1>7. /\ \A i \in AllTokens(c.rows) : <<"save", i>> \in Work(c)
      /\ \A i \in Steps(c.rows), sp \in SplitIds : <<"part", <<i, sp>>>> \in Work(c)
      /\ \A i \in Steps(c.rows) : <<"reduce", i>> \in Work(c)
  BY <1>2, <1>3, <1>6
<1>8. c.form = "dense" => \A i \in Chunks(c.rows) : <<"gather", i>> \in Work(c)
  BY <1>2, <1>5
<1>9. c.form # "cascade" /\ Chunks(c.rows) # {} =>
        \A i \in AllTokens(c.rows) : <<"prefill", i>> \in Work(c)
  BY <1>2, <1>5
<1>10. c.form = "cascade" => \A i \in ChunkTokens(c.rows) :
         <<"ctx", i>> \in Work(c) /\ <<"new", i>> \in Work(c) /\ <<"merge", i>> \in Work(c)
  BY <1>2, <1>4, <1>5
<1> QED
  BY <1>7, <1>8, <1>9, <1>10

\* The order of the launches: what has run when a kernel runs.
LEMMA Order ==
    /\ \A x \in {"gather", "ctx", "prefill", "part", "reduce", "merge", "new"} :
         "save" \in Earlier(x)
    /\ "gather" \in Earlier("prefill") /\ "part" \in Earlier("reduce")
    /\ "ctx" \in Earlier("merge") /\ "new" \in Earlier("merge")
<1>1. /\ Launches[1] = "save" /\ Launches[2] = "gather" /\ Launches[3] = "ctx"
      /\ Launches[4] = "new" /\ Launches[5] = "prefill" /\ Launches[6] = "merge"
      /\ Launches[7] = "part" /\ Launches[8] = "reduce"
  BY DEF Launches
<1>2. \A i \in 1..8 : i = 1 \/ i = 2 \/ i = 3 \/ i = 4 \/ i = 5 \/ i = 6 \/ i = 7 \/ i = 8
  OBVIOUS
<1>3. \A i, j \in 1..8 : Launches[i] = Launches[j] => i = j
  BY <1>1, <1>2
<1>4. ASSUME NEW i \in 1..8, NEW j \in 1..8, j < i
      PROVE  Launches[j] \in Earlier(Launches[i])
  <2>1. (CHOOSE x \in 1..8 : Launches[x] = Launches[i]) = i
    BY <1>3
  <2>2. j \in 1..(i - 1)
    BY <1>4
  <2> QED
    BY <2>1, <2>2 DEF Earlier
<1> QED
  BY <1>1, <1>4

\* A work-item's run takes itself off the work, after all of the launches
\* before it.
LEMMA WorkLeft ==
    ASSUME CallsInv, NEW kernel, NEW i, Runs(kernel, i)
    PROVE  /\ UNCHANGED <<window, len, table, gone, ahead, call>>
           /\ todo # {} /\ <<kernel, i>> \in Work(call)
           /\ \A k, j : <<k, j>> \in todo' <=> <<k, j>> \in todo /\ ~(k = kernel /\ j = i)
           /\ \A k \in Earlier(kernel) : \A item \in todo : item[1] # k
           /\ CallsInv'
<1>1. /\ UNCHANGED <<window, len, table, gone, ahead, call>>
      /\ todo' = todo \ {<<kernel, i>>} /\ <<kernel, i>> \in todo
  BY DEF Runs, hostVars
<1>2. CallsInv'
  <2>1. /\ call' \in CallSet /\ ahead' \in Seq(CallSet) /\ todo' \subseteq Work(call)
        /\ Turns' = Turns
    BY <1>1 DEF CallsInv, Turns
  <2>2. Work(call)' = Work(call)
    BY <1>1 DEF Work, Items, AllTokens, TokensOf, Chunks, ChunkTokens, Steps
  <2>3. \A n \in Turns : CallAt(n)' = CallAt(n)
    BY <1>1 DEF CallAt
  <2>4. \A n \in Turns : CallOK(CallAt(n))
    BY DEF CallsInv
  <2>5. \A n \in Turns : CallOK(CallAt(n))'
    BY <1>1, <2>3, <2>4 DEF CallOK, RowOK, Ctx
  <2> QED
    BY <2>1, <2>2, <2>5, <1>1 DEF CallsInv
<1> QED
  BY <1>1, <1>2 DEF Runs, CallsInv

-----------------------------------------------------------------------------
(* Memory across steps                                                      *)

MemoryInv == ReadInv /\ HostInv

\* Calls find their keys when whatever lasted still lasts.
LEMMA ReadFrom ==
    ASSUME CallsInv, ReadInv, UNCHANGED <<ahead, call>>,
           \A n \in Turns : \A a \in Memory : \A r, k : Lasting(a, r, k, n) => Lasting(a, r, k, n)'
    PROVE  ReadInv'
<1>1. Turns' = Turns /\ \A n \in Turns : CallAt(n)' = CallAt(n)
  BY DEF Turns, CallsInv, CallAt
<1>2. ASSUME NEW n \in Turns, NEW u \in DOMAIN CallAt(n).rows, NEW k \in Held(CallAt(n).rows[u])
      PROVE  Lasting(Spot(CallAt(n).rows[u].tab, k), CallAt(n).rows[u].req, k, n)'
  <2>1. PICK a : a = Spot(CallAt(n).rows[u].tab, k)
    OBVIOUS
  <2>2. PICK r : r = CallAt(n).rows[u].req
    OBVIOUS
  <2>3. a \in Memory
    BY <2>1, CallFacts, HeldFacts
  <2>4. Lasting(a, r, k, n)
    BY <2>1, <2>2 DEF ReadInv
  <2>5. Lasting(a, r, k, n)'
    BY <2>3, <2>4
  <2>6. (CallAt(n).rows[u].tab)' = CallAt(n).rows[u].tab /\ (CallAt(n).rows[u].req)' = r
    BY <1>1, <2>2
  <2>7. Spot(CallAt(n).rows[u].tab, k)' = a
    BY <2>1, <2>6 DEF Spot, Address
  <2> QED
    BY <2>5, <2>6, <2>7
<1> QED
  BY <1>1, <1>2 DEF ReadInv, Held, Ctx

\* A page of a request lies in memory.
LEMMA HostSpot ==
    ASSUME TypeOK, NEW r \in Requests, NEW k \in Nat, k < MaxLen, table[r][k \div PageSize] # -1
    PROVE  Spot(table[r], k) \in Memory /\ k \div PageSize \in Entries
<1>1. table[r] \in [Entries -> Pages \cup {-1}]
  BY DEF TypeOK
<1>2. k \div PageSize \in Entries /\ k % PageSize \in Offs
  BY KeySplit
<1>3. table[r][k \div PageSize] \in Pages
  BY <1>1, <1>2
<1> QED
  BY <1>2, <1>3, AddressMemory DEF Spot

\* The same for the host, whose tables may lose pages, or gain some for keys
\* that are still to come.
LEMMA HostFrom ==
    ASSUME CallsInv, TypeOK, HostInv, UNCHANGED <<len, ahead>>, gone \subseteq gone',
           \A r \in Requests \ gone' : \A k \in 0..(len[r] - 1) :
              table'[r][k \div PageSize] # -1 => table'[r][k \div PageSize] = table[r][k \div PageSize],
           \A n \in Turns : \A a \in Memory : \A r, k : Lasting(a, r, k, n) => Lasting(a, r, k, n)'
    PROVE  HostInv'
<1>1. ASSUME NEW r \in Requests \ gone', NEW k \in 0..(len[r] - 1), table'[r][k \div PageSize] # -1
      PROVE  Lasting(Spot(table[r], k), r, k, Len(ahead))'
  <2>0. table[r][k \div PageSize] # -1 /\ r \notin gone
    BY <1>1
  <2>1. PICK a : a = Spot(table[r], k)
    OBVIOUS
  <2>2. Lasting(a, r, k, Len(ahead))
    BY <2>0, <2>1 DEF HostInv
  <2>3. a \in Memory
    <3>1. k \in Nat /\ k < MaxLen
      BY PagedAssumption DEF TypeOK
    <3> QED
      BY <2>0, <2>1, <3>1, HostSpot
  <2>4. PICK n \in Turns : n = Len(ahead)
    BY DEF Turns, CallsInv
  <2>5. Lasting(a, r, k, n)'
    BY <2>2, <2>3, <2>4
  <2>6. Len(ahead)' = n /\ Spot(table[r], k)' = a
    BY <1>1, <2>1, <2>4 DEF Spot, Address
  <2> QED
    BY <2>5, <2>6
<1> QED
  BY <1>1 DEF HostInv

\* A kernel that saves nothing changes nothing about memory.
LEMMA MemoryKept ==
    ASSUME CallsInv, TypeOK, MemoryInv, NEW kernel, NEW i, Runs(kernel, i), kernel # "save",
           UNCHANGED cache
    PROVE  MemoryInv'
<1>1. /\ UNCHANGED <<window, len, table, gone, ahead, call>>
      /\ \A k, j : <<k, j>> \in todo' <=> <<k, j>> \in todo /\ ~(k = kernel /\ j = i)
  BY WorkLeft
<1>2. \A n \in Turns : CallAt(n)' = CallAt(n)
  BY <1>1 DEF CallAt
<1>3. \A n \in Turns : \A a, q, m : Writes(n, a, q, m)' <=> Writes(n, a, q, m)
  BY <1>1, <1>2 DEF Writes, RowWrites, Ctx, Spot, Address
<1>4. ASSUME NEW n \in Turns, NEW a, NEW r, NEW k, Lasting(a, r, k, n)
      PROVE  Lasting(a, r, k, n)'
  <2>1. n \in Nat /\ \A j \in 0..n : j \in Turns
    BY DEF Turns, CallsInv
  <2> QED
    BY <1>3, <1>4, <2>1, LastingKept
<1> QED
  BY <1>1, <1>4, ReadFrom, HostFrom DEF MemoryInv

\* Saving a token writes its key, where no other key of the call goes.
LEMMA SaveMemory ==
    ASSUME CallsInv, TypeOK, MemoryInv, NEW tok \in Tokens, SaveToken(tok)
    PROVE  MemoryInv' /\ cache' \in [Memory -> Keys \cup {Stale}]
<1>1. /\ UNCHANGED <<window, len, table, gone, ahead, call>>
      /\ <<"save", tok>> \in todo /\ <<"save", tok>> \in Work(call)
      /\ \A k, j : <<k, j>> \in todo' <=> <<k, j>> \in todo /\ ~(k = "save" /\ j = tok)
  <2>1. Runs("save", tok)
    BY DEF SaveToken
  <2> QED
    BY <2>1, WorkLeft DEF Runs
<1>2. PICK s \in Rows : tok \in TokensOf(call.rows, s)
  <2>1. call \in CallSet
    BY RunningCall
  <2>2. tok \in AllTokens(call.rows)
    BY <1>1, <2>1, WorkItems
  <2> QED
    BY <2>2 DEF AllTokens, Rows
<1> DEFINE row == call.rows[s]
<1>k. PICK k0 : k0 = row.from + (tok - row.lo)
  OBVIOUS
<1>a. PICK a0 : a0 = Spot(row.tab, k0)
  OBVIOUS
<1>3. Owner(tok) = s /\ tok \in Int /\ row.lo <= tok /\ tok < row.hi
  BY <1>2, OwnerRight
<1>4. row \in RowSet /\ RowOK(row)
  BY RunningCall
<1>5. /\ row.lo \in Nat /\ row.hi \in Nat /\ row.from \in Nat
      /\ row.req # Pad => Ctx(row) = row.from + (row.hi - row.lo)
      /\ row.req = Pad => Ctx(row) = 0 /\ row.hi = row.lo + 1
  BY <1>4, CtxFacts
<1>6. cache' = IF Slot(row, k0) < 0 THEN cache
               ELSE [cache EXCEPT ![Place(Slot(row, k0))] = KeyOf(row, k0)]
  BY <1>3, <1>k DEF SaveToken
<1>7. 0 \in Turns /\ CallAt(0) = call /\ Rows = DOMAIN CallAt(0).rows
  BY DEF Turns, CallsInv, CallAt, Rows
<1>8. Turns' = Turns /\ Len(ahead) \in Turns
      /\ \A n \in Turns : n \in Nat /\ CallAt(n)' = CallAt(n) /\ \A j \in 0..n : j \in Turns
  BY <1>1 DEF Turns, CallsInv, CallAt
<1>9. \A n \in Turns \ {0} : \A a, q, m : Writes(n, a, q, m)' <=> Writes(n, a, q, m)
  BY <1>1, <1>8 DEF Writes, RowWrites, Ctx, Spot, Address
\* Which write is done with.
<1>10. ASSUME NEW u \in Rows, NEW a, NEW q, NEW m
       PROVE  RowWrites(0, u, a, q, m)'
                <=> RowWrites(0, u, a, q, m) /\ ~(u = s /\ m = k0)
  <2> DEFINE other == call.rows[u]
             t == other.lo + (m - other.from)
  <2>1. other \in RowSet /\ RowOK(other)
    BY RunningCall
  <2>2. /\ other.lo \in Nat /\ other.hi \in Nat /\ other.from \in Nat
        /\ other.req # Pad => Ctx(other) = other.from + (other.hi - other.lo)
        /\ other.req = Pad => Ctx(other) = 0
    BY <2>1, CtxFacts
  <2>3. RowWrites(0, u, a, q, m) <=>
          other.req = q /\ m \in other.from..(Ctx(other) - 1)
          /\ <<"save", t>> \in todo /\ a = Spot(other.tab, m)
    BY <1>7 DEF RowWrites
  <2>4. RowWrites(0, u, a, q, m)' <=>
          other.req = q /\ m \in other.from..(Ctx(other) - 1)
          /\ <<"save", t>> \in todo' /\ a = Spot(other.tab, m)
    BY <1>1, <1>7, <1>8 DEF RowWrites, Ctx, Spot, Address
  <2>5. <<"save", t>> \in todo' <=> <<"save", t>> \in todo /\ t # tok
    BY <1>1
  <2>6. ASSUME m \in other.from..(Ctx(other) - 1)
        PROVE  t = tok <=> u = s /\ m = k0
    <3>1. m \in Int /\ other.from <= m /\ m < Ctx(other) /\ other.req # Pad
      <4> HIDE DEF other
      <4> QED
        BY <2>2, <2>6
    <3>2. t \in Int /\ other.lo <= t /\ t < other.hi
      <4> HIDE DEF other
      <4> QED
        BY <2>2, <3>1
    <3>3. t = tok => u = s
      BY <1>3, <3>2, OneRow
    <3>4. u = s => (t = tok <=> m = k0)
      <4> SUFFICES ASSUME u = s PROVE t = tok <=> m = k0
        OBVIOUS
      <4>1. t = row.lo + (m - row.from)
        OBVIOUS
      <4> HIDE DEF row, t
      <4> QED
        BY <1>3, <1>5, <1>k, <3>1, <4>1
    <3> QED
      BY <3>3, <3>4
  <2> HIDE DEF other, t
  <2> QED
    BY <2>3, <2>4, <2>5, <2>6
<1>11. \A a, q, m : Writes(0, a, q, m)' => Writes(0, a, q, m)
  BY <1>1, <1>7, <1>8, <1>10 DEF Writes
<1>12. ASSUME NEW a, NEW q, NEW m, Writes(0, a, q, m), ~RowWrites(0, s, a, q, k0)
       PROVE  Writes(0, a, q, m)'
  <2>1. PICK u \in Rows : RowWrites(0, u, a, q, m)
    BY <1>7, <1>12 DEF Writes
  <2>2. ~(u = s /\ m = k0)
    BY <1>12, <2>1
  <2>3. RowWrites(0, u, a, q, m)'
    BY <1>10, <2>1, <2>2
  <2> QED
    BY <1>1, <1>7, <1>8, <2>3 DEF Writes, Rows
<1>13. ASSUME NEW n \in Turns, NEW a, NEW r, NEW k, Lasting(a, r, k, n),
              cache'[a] = cache[a], \A q : ~RowWrites(0, s, a, q, k0)
       PROVE  Lasting(a, r, k, n)'
  <2>1. \A j \in 0..n : \A q, m : Writes(j, a, q, m)' <=> Writes(j, a, q, m)
    BY <1>8, <1>9, <1>11, <1>12, <1>13
  <2> QED
    BY <1>8, <1>13, <2>1, LastingKept
<1>14. /\ cache' \in [Memory -> Keys \cup {Stale}]
       /\ \A n \in Turns : \A a \in Memory : \A r, k : Lasting(a, r, k, n) => Lasting(a, r, k, n)'
  <2>0. cache \in [Memory -> Keys \cup {Stale}]
    BY DEF TypeOK
  <2>1. CASE row.req = Pad
    <3>1. k0 = 0 /\ \A q, a : ~RowWrites(0, s, a, q, k0)
      <4>1. k0 = row.from + (tok - row.lo) /\ row.from = 0
        BY <1>4, <1>k, <2>1 DEF RowOK
      <4>3. \A q, a : RowWrites(0, s, a, q, k0) => k0 \in row.from..(Ctx(row) - 1)
        BY <1>7 DEF RowWrites
      <4> HIDE DEF row
      <4> QED
        BY <1>3, <1>5, <2>1, <4>1, <4>3
    <3>2. Slot(row, k0) < 0
      <4>1. 0 \div PageSize = 0 /\ 0 \in Entries
        BY PagedAssumption, SMT DEF Entries
      <4>2. row.tab = NoTable
        BY <1>4, <2>1 DEF RowOK
      <4>3. row.tab[k0 \div PageSize] = -1
        BY <3>1, <4>1, <4>2 DEF NoTable
      <4> QED
        BY <4>3 DEF Slot
    <3>3. cache' = cache
      BY <1>6, <3>2
    <3> QED
      BY <1>13, <2>0, <3>1, <3>3
  <2>2. CASE row.req # Pad
    <3>1. k0 \in row.from..(Ctx(row) - 1)
      <4> HIDE DEF row
      <4> QED
        BY <1>3, <1>5, <1>k, <2>2
    <3>2. k0 \in Held(row)
      <4> HIDE DEF row
      <4> QED
        BY <1>4, <3>1, NewKeysHeld
    <3>3. /\ k0 \in Positions /\ row.req \in Requests /\ a0 \in Memory
          /\ ~(Slot(row, k0) < 0) /\ Place(Slot(row, k0)) = a0
      <4> HIDE DEF row
      <4> QED
        BY <1>4, <1>a, <3>2, HeldFacts
    <3>4. cache' = [cache EXCEPT ![a0] = <<row.req, k0>>] /\ <<row.req, k0>> \in Keys
      <4> HIDE DEF row
      <4> QED
        BY <1>6, <3>3 DEF KeyOf, Keys
    <3>5. RowWrites(0, s, a0, row.req, k0)
      <4>1. row.lo + (k0 - row.from) = tok
        <5> HIDE DEF row
        <5> QED
          BY <1>3, <1>5, <1>k
      <4> QED
        BY <1>1, <1>7, <1>a, <3>1, <4>1 DEF RowWrites
    <3>6. Writes(0, a0, row.req, k0)
      BY <1>7, <3>5 DEF Writes
    <3>7. \A q, m : Writes(0, a0, q, m) => q = row.req /\ m = k0
      BY <1>7, <3>6, OneWrite
    <3> HIDE DEF row
    <3>8. ASSUME NEW n \in Turns, NEW r, NEW k, Lasting(a0, r, k, n)
          PROVE  Lasting(a0, r, k, n)'
      <4>0. n \in Nat /\ \A j \in 0..n : j \in Turns
        BY <1>8
      <4>1. \A i \in 0..n : Undisturbed(a0, r, k, i, n) => Undisturbed(a0, r, k, i, n)'
        <5>1. \A j \in 0..n : \A q, m : Writes(j, a0, q, m)' => Writes(j, a0, q, m)
          BY <1>9, <1>11, <4>0
        <5>2. \A i \in 0..n : \A j \in i..n : j \in 0..n
          BY <4>0
        <5> QED
          BY <5>1, <5>2 DEF Undisturbed
      <4>2. ASSUME Undisturbed(a0, r, k, 0, n), row.req = r, k0 = k
            PROVE  Lasting(a0, r, k, n)'
        <5>1. cache'[a0] = <<r, k>>
          BY <2>0, <3>3, <3>4, <4>2
        <5>2. Undisturbed(a0, r, k, 0, n)'
          BY <4>0, <4>1, <4>2
        <5> QED
          BY <5>1, <5>2 DEF Lasting
      <4>3. CASE cache[a0] = <<r, k>> /\ Undisturbed(a0, r, k, 0, n)
        <5>1. row.req = r /\ k0 = k
          BY <3>3, <3>6, <4>0, <4>3 DEF Undisturbed
        <5> QED
          BY <4>2, <4>3, <5>1
      <4>4. CASE \E i \in 0..n : Writes(i, a0, r, k) /\ Undisturbed(a0, r, k, i, n)
        <5>1. PICK i \in 0..n : Writes(i, a0, r, k) /\ Undisturbed(a0, r, k, i, n)
          BY <4>4
        <5>2. CASE i = 0
          BY <3>7, <4>2, <5>1, <5>2
        <5>3. CASE i # 0
          <6>1. Writes(i, a0, r, k)' /\ Undisturbed(a0, r, k, i, n)'
            BY <1>9, <4>0, <4>1, <5>1, <5>3
          <6> QED
            BY <6>1 DEF Lasting
        <5> QED
          BY <5>2, <5>3
      <4> QED
        BY <3>8, <4>3, <4>4 DEF Lasting
    <3>9. ASSUME NEW n \in Turns, NEW a \in Memory, a # a0, NEW r, NEW k, Lasting(a, r, k, n)
          PROVE  Lasting(a, r, k, n)'
      <4>1. cache'[a] = cache[a]
        BY <2>0, <3>4, <3>9
      <4>2. \A q : ~RowWrites(0, s, a, q, k0)
        BY <1>7, <1>a, <3>9 DEF RowWrites, row
      <4> QED
        BY <1>13, <3>9, <4>1, <4>2
    <3>10. cache' \in [Memory -> Keys \cup {Stale}]
      BY <2>0, <3>3, <3>4
    <3> QED
      BY <3>8, <3>9, <3>10
  <2> QED
    BY <2>1, <2>2
<1> QED
  BY <1>1, <1>14, ReadFrom, HostFrom DEF MemoryInv

-----------------------------------------------------------------------------
(* The engine's steps                                                       *)

\* What the device keeps while the engine changes its tables.
LEMMA DeviceKept ==
    ASSUME CallsInv, ReadInv, BuffersInv, UNCHANGED <<window, ahead, call, todo, cache>>,
           UNCHANGED <<dense, parts, sides, out>>
    PROVE  /\ CallsInv' /\ ReadInv' /\ BuffersInv'
           /\ \A n \in Turns : \A a, r, k : Lasting(a, r, k, n) => Lasting(a, r, k, n)'
<1>1. \A n \in Turns : CallAt(n)' = CallAt(n)
  BY DEF CallAt
<1>2. CallsInv'
  <2>1. \A n \in Turns : CallOK(CallAt(n))'
    BY <1>1 DEF CallsInv, CallOK, RowOK, Ctx
  <2>2. Work(call)' = Work(call) /\ Turns' = Turns
    BY DEF Work, Items, AllTokens, TokensOf, Chunks, ChunkTokens, Steps, Turns
  <2> QED
    BY <2>1, <2>2 DEF CallsInv
<1>3. \A n \in Turns : \A a, q, m : Writes(n, a, q, m)' <=> Writes(n, a, q, m)
  BY <1>1 DEF Writes, RowWrites, Ctx, Spot, Address
<1>4. ASSUME NEW n \in Turns, NEW a, NEW r, NEW k, Lasting(a, r, k, n)
      PROVE  Lasting(a, r, k, n)'
  <2>1. n \in Nat /\ \A j \in 0..n : j \in Turns
    BY DEF Turns, CallsInv
  <2> QED
    BY <1>3, <1>4, <2>1, LastingKept
<1>5. ReadInv'
  BY <1>4, ReadFrom
<1>6. DenseInv' /\ PartsInv'
  BY DEF BuffersInv, DenseInv, PartsInv, Chunks, Steps, Held, Ctx, Weighed, Own
<1>7. SidesInv'
  <2>1. SidesInv
    BY DEF BuffersInv
  <2> QED
    BY <2>1 DEF SidesInv
<1>8. OutInv'
  BY DEF BuffersInv, OutInv, Rows, TokensOf, Finished, Exact, AttendsTo
<1> QED
  BY <1>2, <1>4, <1>5, <1>6, <1>7, <1>8 DEF BuffersInv

LEMMA ReleaseStep ==
    ASSUME IInv, NEW r \in Requests, Release(r)
    PROVE  IInv'
<1> USE DEF IInv
<1>1. /\ UNCHANGED <<window, len, ahead, call, todo, cache, dense, parts, sides, out>>
      /\ gone' = gone \cup {r} /\ table' = [table EXCEPT ![r] = NoTable]
  BY DEF Release, deviceVars
<1>2. /\ CallsInv' /\ ReadInv' /\ BuffersInv'
      /\ \A n \in Turns : \A a, q, k : Lasting(a, q, k, n) => Lasting(a, q, k, n)'
  BY <1>1, DeviceKept
<1>3. /\ table \in [Requests -> [Entries -> Pages \cup {-1}]]
      /\ \A q \in Requests \ gone' : table'[q] = table[q]
      /\ \A q \in Requests, i \in Entries : table'[q][i] = -1 \/ table'[q][i] = table[q][i]
  BY <1>1 DEF TypeOK, NoTable
<1>4. TypeOK'
  BY <1>1, <1>3 DEF TypeOK, NoTable
<1>5. TablesInv'
  BY <1>1, <1>3 DEF TablesInv
<1>6. HostInv'
  BY <1>1, <1>2, <1>3, HostFrom
<1> QED
  BY <1>2, <1>4, <1>5, <1>6

LEMMA EvictStep ==
    ASSUME IInv, NEW r \in Requests, NEW i \in Entries, Evict(r, i)
    PROVE  IInv'
<1> USE DEF IInv
<1>1. /\ UNCHANGED <<window, len, gone, ahead, call, todo, cache, dense, parts, sides, out>>
      /\ table' = [table EXCEPT ![r][i] = -1]
      /\ window >= 0 /\ (i + 1) * PageSize <= len[r] - window
  BY DEF Evict, deviceVars
<1>2. /\ CallsInv' /\ ReadInv' /\ BuffersInv'
      /\ \A n \in Turns : \A a, q, k : Lasting(a, q, k, n) => Lasting(a, q, k, n)'
  BY <1>1, DeviceKept
<1>3. /\ table \in [Requests -> [Entries -> Pages \cup {-1}]]
      /\ \A q \in Requests, j \in Entries :
           table'[q][j] = IF q = r /\ j = i THEN -1 ELSE table[q][j]
      /\ len \in [Requests -> 0..MaxLen] /\ window \in Int
  BY <1>1, PagedAssumption DEF TypeOK
<1>4. TypeOK'
  BY <1>1, <1>3 DEF TypeOK
\* An evicted page's keys are out of every later window.
<1>5. ASSUME NEW k \in 0..(len[r] - 1), k \div PageSize = i
      PROVE  k < len[r] - window
  <2>1. k \in Nat /\ k < MaxLen
    BY <1>3, PagedAssumption
  <2>2. k % PageSize \in Offs /\ k = PageSize * i + (k % PageSize)
    BY <1>5, <2>1, KeySplit
  <2>3. i \in Nat /\ PageSize * i \in Nat /\ (i + 1) * PageSize = PageSize * i + PageSize
    BY PagedAssumption, SMT DEF Entries
  <2> QED
    BY <1>1, <1>3, <2>1, <2>2, <2>3, PagedAssumption DEF Offs
<1>6. \A q \in Requests : \A k \in 0..(len[q] - 1) : k \div PageSize \in Entries
  BY <1>3, KeySplit, PagedAssumption
<1>7. TablesInv'
  <2>1. ASSUME NEW q \in Requests \ gone, NEW k \in 0..(len[q] - 1), table'[q][k \div PageSize] = -1
        PROVE  window >= 0 /\ k < len[q] - window
    <3>1. CASE q = r /\ k \div PageSize = i
      BY <1>1, <1>5, <3>1
    <3>2. CASE ~(q = r /\ k \div PageSize = i)
      <4>1. table[q][k \div PageSize] = -1
        BY <1>3, <1>6, <2>1, <3>2
      <4> QED
        BY <4>1 DEF TablesInv
    <3> QED
      BY <3>1, <3>2
  <2>2. (\A q, t \in Requests, j, l \in Entries :
           table[q][j] = table[t][l] /\ table[q][j] # -1 => q = t /\ j = l)'
    BY <1>3 DEF TablesInv
  <2> QED
    BY <1>1, <2>1, <2>2 DEF TablesInv
<1>8. HostInv'
  BY <1>1, <1>2, <1>3, <1>6, HostFrom
<1> QED
  BY <1>2, <1>4, <1>7, <1>8

LEMMA GrowStep ==
    ASSUME IInv, NEW r \in Requests, NEW i \in Entries, NEW p \in Pages, Grow(r, i, p)
    PROVE  IInv'
<1> USE DEF IInv
<1>1. /\ UNCHANGED <<window, len, gone, ahead, call, todo, cache, dense, parts, sides, out>>
      /\ table' = [table EXCEPT ![r][i] = p]
      /\ table[r][i] = -1 /\ i * PageSize >= len[r] /\ Free(p)
  BY DEF Grow, deviceVars
<1>2. /\ CallsInv' /\ ReadInv' /\ BuffersInv'
      /\ \A n \in Turns : \A a, q, k : Lasting(a, q, k, n) => Lasting(a, q, k, n)'
  BY <1>1, DeviceKept
<1>3. /\ table \in [Requests -> [Entries -> Pages \cup {-1}]]
      /\ \A q \in Requests, j \in Entries :
           table'[q][j] = IF q = r /\ j = i THEN p ELSE table[q][j]
      /\ len \in [Requests -> 0..MaxLen]
  BY <1>1 DEF TypeOK
<1>4. TypeOK'
  BY <1>1, <1>3 DEF TypeOK
\* The new page is for none of the keys there are.
<1>5. ASSUME NEW q \in Requests, NEW k \in 0..(len[q] - 1)
      PROVE  table'[q][k \div PageSize] = table[q][k \div PageSize]
  <2>1. k \in Nat /\ k < MaxLen
    BY <1>3, PagedAssumption
  <2>2. k % PageSize \in Offs /\ k \div PageSize \in Entries
        /\ k = PageSize * (k \div PageSize) + (k % PageSize)
    BY <2>1, KeySplit
  <2>3. ~(q = r /\ k \div PageSize = i)
    <3> SUFFICES ASSUME q = r, k \div PageSize = i PROVE FALSE
      OBVIOUS
    <3>1. i \in Nat /\ PageSize * i \in Nat /\ i * PageSize = PageSize * i
      BY PagedAssumption, SMT DEF Entries
    <3>2. PICK v \in Offs : k = PageSize * i + v
      BY <2>2
    <3>3. k < len[r] /\ len[r] \in Nat
      <4>1. len \in [Requests -> 0..MaxLen] /\ k \in 0..(len[r] - 1)
        BY <1>3
      <4>2. len[r] \in 0..MaxLen
        BY <4>1
      <4> QED
        BY <4>1, <4>2
    <3>4. PageSize * i >= len[r] /\ v \in Nat
      BY <1>1, <3>1, PagedAssumption DEF Offs
    <3> QED
      BY <2>1, <3>1, <3>2, <3>3, <3>4
  <2> QED
    BY <1>3, <2>2, <2>3
<1>6. TablesInv'
  <2>1. \A q \in Requests, j \in Entries : table[q][j] # p /\ p # -1
    BY <1>1, PagedAssumption DEF Free, Pages
  <2>2. (\A q, t \in Requests, j, l \in Entries :
           table[q][j] = table[t][l] /\ table[q][j] # -1 => q = t /\ j = l)'
    BY <1>3, <2>1 DEF TablesInv
  <2> QED
    BY <1>1, <1>5, <2>2 DEF TablesInv
<1>7. HostInv'
  BY <1>1, <1>2, <1>5, HostFrom
<1> QED
  BY <1>2, <1>4, <1>6, <1>7

\* A new call, as the engine makes it.
LEMMA BatchRows ==
    ASSUME TypeOK, TablesInv, NEW n \in 1..MaxRows, NEW cu \in Offsets(n),
           NEW prefill \in [1..n -> BOOLEAN], NEW who \in Lineups(n, cu, prefill),
           NEW form \in Forms, NEW c, c = [rows |-> Batch(n, cu, prefill, who), form |-> form]
    PROVE  /\ c \in CallSet /\ CallOK(c)
           /\ DOMAIN c.rows = 1..n
           /\ \A s \in 1..n : c.rows[s].req = who[s]
           /\ \A s \in 1..n : who[s] # Pad =>
                /\ who[s] \in Requests \ gone
                /\ c.rows[s].from = len[who[s]] /\ c.rows[s].tab = table[who[s]]
                /\ Ctx(c.rows[s]) = End(who[s], cu, s)
                /\ \A u \in 1..n : u # s => who[u] # who[s]
<1> DEFINE rows == Batch(n, cu, prefill, who)
<1>0. n \in Nat /\ n <= MaxRows /\ c.rows = rows /\ c.form = form
      /\ c = [rows |-> rows, form |-> form]
  BY PagedAssumption
<1>1. \A s \in 1..n : /\ s - 1 \in 0..n /\ s \in 0..n
                      /\ cu[s - 1] \in 0..MaxTokens /\ cu[s] \in 0..MaxTokens
                      /\ cu[s - 1] < cu[s]
  BY <1>0 DEF Offsets
<1>a. \A s \in 1..n : \A u \in 0..(s - 1) : cu[u] < cu[s]
  BY DEF Offsets
<1>2. \A s \in 1..n : \A u \in 1..n : u < s => cu[u] <= cu[s - 1]
  <2>1. SUFFICES ASSUME NEW s \in 1..n, NEW u \in 1..n, u < s PROVE cu[u] <= cu[s - 1]
    OBVIOUS
  <2>2. CASE u = s - 1
    BY <1>1, <2>2
  <2>3. CASE u # s - 1
    <3>1. s - 1 \in 1..n /\ u \in 0..((s - 1) - 1)
      BY <1>0, <2>1, <2>3
    <3>2. cu[u] < cu[s - 1]
      BY <1>a, <3>1
    <3>3. cu[u] \in Int /\ cu[s - 1] \in Int
      BY <1>1, PagedAssumption
    <3> QED
      BY <3>2, <3>3
  <2> QED
    BY <2>2, <2>3
<1>3. ASSUME NEW s \in 1..n
      PROVE  /\ who[s] \in (Requests \ gone) \cup {Pad} /\ prefill[s] \in BOOLEAN
             /\ who[s] = Pad => ~prefill[s] /\ cu[s] = cu[s - 1] + 1
             /\ who[s] # Pad =>
                  /\ Seats(who[s], cu, prefill, s)
                  /\ \A u \in 1..n : u # s => who[u] # who[s]
  BY DEF Lineups
<1>4. DOMAIN rows = 1..n /\ Len(rows) = n /\ rows = [s \in 1..n |-> rows[s]]
  BY <1>0 DEF Batch
<1>b. \A s \in 1..n : rows[s] =
        [req |-> who[s], prefill |-> prefill[s], lo |-> cu[s - 1], hi |-> cu[s],
         from |-> IF who[s] = Pad THEN 0 ELSE len[who[s]],
         tab |-> IF who[s] = Pad THEN NoTable ELSE table[who[s]]]
  BY DEF Batch
<1> HIDE DEF rows
<1>5. ASSUME NEW s \in 1..n
      PROVE  /\ rows[s].req = who[s] /\ rows[s].prefill = prefill[s]
             /\ rows[s].lo = cu[s - 1] /\ rows[s].hi = cu[s]
             /\ who[s] = Pad => rows[s].from = 0 /\ rows[s].tab = NoTable
             /\ who[s] # Pad => rows[s].from = len[who[s]] /\ rows[s].tab = table[who[s]]
  <2>1. rows[s] =
          [req |-> who[s], prefill |-> prefill[s], lo |-> cu[s - 1], hi |-> cu[s],
           from |-> IF who[s] = Pad THEN 0 ELSE len[who[s]],
           tab |-> IF who[s] = Pad THEN NoTable ELSE table[who[s]]]
    BY <1>b
  <2> QED
    BY <2>1
<1>6. /\ len \in [Requests -> 0..MaxLen] /\ table \in [Requests -> [Entries -> Pages \cup {-1}]]
      /\ NoTable \in [Entries -> Pages \cup {-1}] /\ window \in Int
  BY PagedAssumption DEF TypeOK, NoTable
<1>7. ASSUME NEW s \in 1..n PROVE rows[s] \in RowSet
  <2> DEFINE from == IF who[s] = Pad THEN 0 ELSE len[who[s]]
             tab == IF who[s] = Pad THEN NoTable ELSE table[who[s]]
  <2>1. from \in Nat /\ tab \in [Entries -> Pages \cup {-1}]
    BY <1>3, <1>6, PagedAssumption
  <2>2. who[s] \in Requests \cup {Pad} /\ prefill[s] \in BOOLEAN
        /\ cu[s - 1] \in Nat /\ cu[s] \in Nat
    BY <1>1, <1>3, PagedAssumption
  <2>3. rows[s] = [req |-> who[s], prefill |-> prefill[s], lo |-> cu[s - 1], hi |-> cu[s],
                   from |-> from, tab |-> tab]
    BY <1>b
  <2> HIDE DEF from, tab
  <2> QED
    BY <2>1, <2>2, <2>3 DEF RowSet
<1>8. rows \in Seq(RowSet)
  BY <1>0, <1>4, <1>7
<1>9. c \in CallSet
  BY <1>0, <1>8 DEF CallSet, Forms
<1>10. ASSUME NEW s \in 1..n, who[s] # Pad
       PROVE  /\ rows[s].req = who[s] /\ rows[s].from = len[who[s]]
              /\ rows[s].tab = table[who[s]]
              /\ Ctx(rows[s]) = End(who[s], cu, s)
  <2>2. /\ rows[s].req = who[s] /\ rows[s].from = len[who[s]] /\ rows[s].tab = table[who[s]]
        /\ rows[s].hi = cu[s] /\ rows[s].lo = cu[s - 1]
    BY <1>5, <1>10
  <2>3. Ctx(rows[s]) = rows[s].from + (rows[s].hi - rows[s].lo)
    BY <1>10, <2>2 DEF Ctx
  <2>4. len[who[s]] \in Int
    BY <1>3, <1>6, <1>10
  <2> QED
    BY <1>1, <2>2, <2>3, <2>4 DEF End
<1>11. ASSUME NEW s \in 1..n PROVE RowOK(rows[s])
  <2>1. CASE who[s] = Pad
    <3>1. rows[s].req = Pad /\ rows[s].prefill = prefill[s] /\ rows[s].lo = cu[s - 1]
          /\ rows[s].hi = cu[s] /\ rows[s].from = 0 /\ rows[s].tab = NoTable
      BY <1>5, <2>1
    <3>2. Ctx(rows[s]) = 0
      BY <3>1 DEF Ctx
    <3> QED
      BY <1>1, <1>3, <2>1, <3>1, <3>2, PagedAssumption DEF RowOK
  <2>2. CASE who[s] # Pad
    <3>r. PICK r \in Requests \ gone : r = who[s]
      BY <1>3, <2>2
    <3>c. PICK ctx : ctx = End(r, cu, s)
      OBVIOUS
    <3>1. /\ rows[s].req = r /\ rows[s].from = len[r] /\ rows[s].tab = table[r]
          /\ Ctx(rows[s]) = ctx /\ rows[s].lo = cu[s - 1] /\ rows[s].hi = cu[s]
          /\ rows[s].prefill = prefill[s] /\ r # Pad
      BY <1>5, <1>10, <2>2, <3>r, <3>c
    <3>2. len[r] \in Nat /\ ctx \in Nat
      BY <1>1, <1>6, <3>c, PagedAssumption DEF End
    <3>3. /\ prefill[s] \/ cu[s] = cu[s - 1] + 1
          /\ ctx <= MaxLen
          /\ \A k \in len[r]..(ctx - 1) : table[r][k \div PageSize] # -1
      BY <1>3, <2>2, <3>r, <3>c DEF Seats
    <3>5. ASSUME NEW k \in 0..(ctx - 1), table[r][k \div PageSize] = -1
          PROVE  window >= 0 /\ k < len[r] - window
      <4>1. ~(k \in len[r]..(ctx - 1))
        BY <3>3, <3>5
      <4>2. k \in 0..(len[r] - 1)
        BY <3>2, <4>1
      <4> QED
        BY <3>5, <4>2 DEF TablesInv
    <3>4. rows[s].lo < rows[s].hi /\ rows[s].hi <= MaxTokens
      BY <1>1, <3>1, PagedAssumption
    <3> QED
      BY <3>1, <3>3, <3>4, <3>5 DEF RowOK
  <2> QED
    BY <2>1, <2>2
<1>12. ASSUME NEW s \in 1..n, NEW u \in 1..n
       PROVE  /\ u < s => rows[u].hi <= rows[s].lo
              /\ u # s => rows[u].req = Pad \/ rows[u].req # rows[s].req
              /\ \A i, j \in Entries :
                   rows[s].tab[i] = rows[u].tab[j] /\ rows[s].tab[i] # -1 => s = u /\ i = j
  <2>1. rows[u].hi = cu[u] /\ rows[s].lo = cu[s - 1] /\ rows[u].req = who[u] /\ rows[s].req = who[s]
    BY <1>5
  <2>2. u < s => rows[u].hi <= rows[s].lo
    BY <1>2, <2>1
  <2>3. u # s => rows[u].req = Pad \/ rows[u].req # rows[s].req
    BY <1>3, <2>1
  <2>4. ASSUME NEW i \in Entries, NEW j \in Entries,
               rows[s].tab[i] = rows[u].tab[j], rows[s].tab[i] # -1
        PROVE  s = u /\ i = j
    <3>1. who[s] # Pad /\ who[u] # Pad
      <4>1. (who[s] = Pad => rows[s].tab = NoTable) /\ (who[u] = Pad => rows[u].tab = NoTable)
        BY <1>5
      <4>2. NoTable[i] = -1 /\ NoTable[j] = -1
        BY DEF NoTable
      <4> QED
        BY <2>4, <4>1, <4>2
    <3>2. table[who[s]][i] = table[who[u]][j] /\ table[who[s]][i] # -1
      BY <1>10, <2>4, <3>1
    <3>3. who[s] \in Requests /\ who[u] \in Requests
      BY <1>3, <3>1
    <3>4. who[s] = who[u] /\ i = j
      BY <3>2, <3>3 DEF TablesInv
    <3> QED
      BY <1>3, <3>1, <3>4
  <2> QED
    BY <2>2, <2>3, <2>4
<1>13. form = "cascade" => window = -1
  BY DEF Forms
<1>14. CallOK(c)
  BY <1>0, <1>4, <1>11, <1>12, <1>13 DEF CallOK
<1>15. \A s \in 1..n : rows[s].req = who[s]
  BY <1>5
<1> QED
  BY <1>0, <1>3, <1>4, <1>9, <1>10, <1>14, <1>15

\* Two keys the host knows are at two places.
LEMMA OneHostKey ==
    ASSUME TypeOK, TablesInv, NEW r \in Requests, NEW q \in Requests,
           NEW k \in Nat, k < MaxLen, NEW m \in Nat, m < MaxLen,
           table[r][k \div PageSize] # -1, table[q][m \div PageSize] # -1,
           Spot(table[r], k) = Spot(table[q], m)
    PROVE  r = q /\ k = m
<1>1. table[r] \in [Entries -> Pages \cup {-1}] /\ table[q] \in [Entries -> Pages \cup {-1}]
  BY DEF TypeOK
<1>2. /\ table[r][k \div PageSize] = table[q][m \div PageSize]
      /\ k \div PageSize = m \div PageSize => k = m
  BY <1>1, OneSpot
<1>3. k \div PageSize \in Entries /\ m \div PageSize \in Entries
  BY KeySplit
<1>4. r = q /\ k \div PageSize = m \div PageSize
  BY <1>2, <1>3 DEF TablesInv
<1> QED
  BY <1>2, <1>4

LEMMA SubmitStep ==
    ASSUME IInv, Submit
    PROVE  IInv'
<1> USE DEF IInv
<1>1. /\ UNCHANGED <<window, table, gone, call, todo, cache, dense, parts, sides, out>>
      /\ Len(ahead) < MaxAhead
  BY DEF Submit, Room, deviceVars
<1>n. PICK n \in 1..MaxRows : \E cu \in Offsets(n), prefill \in [1..n -> BOOLEAN] :
        \E who \in Lineups(n, cu, prefill), form \in Forms : Enqueue(n, cu, prefill, who, form)
  BY DEF Submit
<1>c. PICK cu \in Offsets(n), prefill \in [1..n -> BOOLEAN] :
        \E who \in Lineups(n, cu, prefill), form \in Forms : Enqueue(n, cu, prefill, who, form)
  BY <1>n
<1>w. PICK who \in Lineups(n, cu, prefill), form \in Forms : Enqueue(n, cu, prefill, who, form)
  BY <1>c
<1>2. /\ ahead' = Append(ahead, [rows |-> Batch(n, cu, prefill, who), form |-> form])
      /\ len' = [r \in Requests |->
                   IF \E s \in 1..n : who[s] = r
                   THEN End(r, cu, CHOOSE s \in 1..n : who[s] = r) ELSE len[r]]
  BY <1>w DEF Enqueue
<1>3. PICK c : c = [rows |-> Batch(n, cu, prefill, who), form |-> form]
  OBVIOUS
<1>4. /\ c \in CallSet /\ CallOK(c) /\ DOMAIN c.rows = 1..n
      /\ \A s \in 1..n : c.rows[s].req = who[s]
      /\ \A s \in 1..n : who[s] # Pad =>
           /\ who[s] \in Requests \ gone
           /\ c.rows[s].from = len[who[s]] /\ c.rows[s].tab = table[who[s]]
           /\ Ctx(c.rows[s]) = End(who[s], cu, s)
           /\ \A u \in 1..n : u # s => who[u] # who[s]
  BY <1>3, BatchRows
<1>5. PICK N \in Nat : N = Len(ahead)
  BY DEF CallsInv
<1>6. /\ ahead' \in Seq(CallSet) /\ Len(ahead') = N + 1
      /\ \A i \in 1..N : ahead'[i] = ahead[i]
      /\ ahead'[N + 1] = c
  BY <1>2, <1>3, <1>4, <1>5 DEF CallsInv
<1>7. /\ Turns = 0..N /\ Turns' = 0..(N + 1)
      /\ \A i \in 0..N : CallAt(i)' = CallAt(i)
      /\ CallAt(N + 1)' = c
  BY <1>1, <1>5, <1>6 DEF Turns, CallAt
<1>8. \A s \in 1..n : c.rows[s] \in RowSet /\ RowOK(c.rows[s])
  BY <1>4 DEF CallSet, CallOK
\* Lengths.
<1>9. /\ len \in [Requests -> 0..MaxLen] /\ len' \in [Requests -> 0..MaxLen]
      /\ \A r \in Requests : len[r] <= len'[r]
      /\ \A r \in Requests : len'[r] = len[r] \/ \E s \in 1..n : who[s] = r
      /\ \A s \in 1..n : who[s] # Pad => len'[who[s]] = Ctx(c.rows[s])
  <2>0. len \in [Requests -> 0..MaxLen]
    BY DEF TypeOK
  <2>1. ASSUME NEW s \in 1..n, who[s] # Pad
        PROVE  len'[who[s]] = Ctx(c.rows[s])
    <3>1. (CHOOSE u \in 1..n : who[u] = who[s]) = s
      BY <1>4, <2>1
    <3>2. who[s] \in Requests /\ Ctx(c.rows[s]) = End(who[s], cu, s)
      BY <1>4, <2>1
    <3> QED
      BY <1>2, <3>1, <3>2
  <2>2. \A r \in Requests : len'[r] = len[r] \/ \E s \in 1..n : who[s] = r
    BY <1>2
  <2>3. ASSUME NEW r \in Requests
        PROVE  len'[r] \in 0..MaxLen /\ len[r] <= len'[r]
    <3>1. CASE len'[r] = len[r]
      BY <2>0, <3>1, PagedAssumption
    <3>2. CASE \E s \in 1..n : who[s] = r
      <4>1. PICK s \in 1..n : who[s] = r
        BY <3>2
      <4>2. r # Pad
        BY PagedAssumption
      <4>3. len'[r] = Ctx(c.rows[s]) /\ c.rows[s].from = len[r] /\ c.rows[s].req # Pad
        BY <1>4, <2>1, <4>1, <4>2
      <4>4. /\ Ctx(c.rows[s]) \in Nat /\ Ctx(c.rows[s]) <= MaxLen
            /\ c.rows[s].lo \in Nat /\ c.rows[s].hi \in Nat /\ c.rows[s].from \in Nat
            /\ Ctx(c.rows[s]) = c.rows[s].from + (c.rows[s].hi - c.rows[s].lo)
        BY <1>8, <4>3, CtxFacts
      <4>5. c.rows[s].lo < c.rows[s].hi
        BY <1>8 DEF RowOK
      <4> QED
        BY <4>3, <4>4, <4>5, PagedAssumption
    <3> QED
      BY <2>2, <3>1, <3>2
  <2>4. DOMAIN len' = Requests /\ len' = [r \in Requests |-> len'[r]]
    BY <1>2
  <2> QED
    BY <2>0, <2>1, <2>2, <2>3, <2>4
<1>10. TypeOK'
  BY <1>1, <1>5, <1>6, <1>9, PagedAssumption DEF TypeOK
<1>11. CallsInv'
  <2>1. call' \in CallSet /\ todo' \subseteq Work(call)
    BY <1>1 DEF CallsInv
  <2>2. Work(call)' = Work(call)
    BY <1>1 DEF Work, Items, AllTokens, TokensOf, Chunks, ChunkTokens, Steps
  <2>3. ASSUME NEW i \in Turns' PROVE CallOK(CallAt(i))'
    <3>1. CASE i \in Turns
      <4>1. CallAt(i)' = CallAt(i) /\ CallOK(CallAt(i))
        BY <1>7, <3>1 DEF CallsInv
      <4> QED
        BY <1>1, <4>1 DEF CallOK, RowOK, Ctx
    <3>2. CASE i = N + 1
      BY <1>1, <1>4, <1>7, <3>2, SMTT(30) DEF CallOK, RowOK, Ctx
    <3> QED
      BY <1>7, <3>1, <3>2
  <2> QED
    BY <1>6, <2>1, <2>2, <2>3 DEF CallsInv
\* Every key there will be has its page, but for those out of all windows.
<1>12. TablesInv'
  <2>1. ASSUME NEW r \in Requests \ gone, NEW k \in 0..(len'[r] - 1), table[r][k \div PageSize] = -1
        PROVE  window >= 0 /\ k < len'[r] - window
    <3>1. len[r] \in Nat /\ len'[r] \in Nat /\ len[r] <= len'[r] /\ window \in Int
      BY <1>9, PagedAssumption, SMTT(30) DEF TypeOK
    <3>2. CASE k \in 0..(len[r] - 1)
      <4>1. window >= 0 /\ k < len[r] - window
        BY <2>1, <3>2 DEF TablesInv
      <4> QED
        BY <3>1, <4>1
    <3>3. CASE ~(k \in 0..(len[r] - 1))
      <4>1. len'[r] # len[r] /\ r # Pad
        BY <3>1, <3>3, PagedAssumption
      <4>2. PICK s \in 1..n : who[s] = r
        BY <1>9, <4>1
      <4>3. /\ len'[r] = Ctx(c.rows[s]) /\ c.rows[s].from = len[r] /\ c.rows[s].tab = table[r]
        BY <1>4, <1>9, <4>1, <4>2
      <4>4. k \in c.rows[s].from..(Ctx(c.rows[s]) - 1)
        BY <3>1, <3>3, <4>3
      <4>5. k \in Held(c.rows[s])
        BY <1>8, <4>4, NewKeysHeld
      <4> QED
        BY <2>1, <4>3, <4>5 DEF Held
    <3> QED
      BY <3>2, <3>3
  <2>2. (\A r, q \in Requests, i, j \in Entries :
           table[r][i] = table[q][j] /\ table[r][i] # -1 => r = q /\ i = j)'
    BY <1>1 DEF TablesInv
  <2> QED
    BY <1>1, <2>1, <2>2 DEF TablesInv
\* Memory.
<1>13. ASSUME NEW i \in 0..N, NEW a, NEW q, NEW m
       PROVE  Writes(i, a, q, m)' <=> Writes(i, a, q, m)
  <2>1. CallAt(i)' = CallAt(i) /\ todo' = todo
    BY <1>1, <1>7
  <2> QED
    BY <2>1 DEF Writes, RowWrites
<1>14. ASSUME NEW i \in 0..N, NEW a, NEW r, NEW k, Lasting(a, r, k, i)
       PROVE  Lasting(a, r, k, i)'
  <2>1. i \in Nat /\ \A j \in 0..i : j \in 0..N
    OBVIOUS
  <2> QED
    BY <1>1, <1>13, <1>14, <2>1, LastingKept
<1>15. ASSUME NEW s \in 1..n, NEW a, NEW q, NEW m
       PROVE  RowWrites(N + 1, s, a, q, m)' <=>
                /\ c.rows[s].req = q
                /\ m \in c.rows[s].from..(Ctx(c.rows[s]) - 1)
                /\ a = Spot(c.rows[s].tab, m)
  BY <1>5, <1>7 DEF RowWrites, Ctx, Spot, Address
<1>16. ASSUME NEW a, NEW q, NEW m, Writes(N + 1, a, q, m)'
       PROVE  /\ q \in Requests /\ m \in Nat /\ m < MaxLen
              /\ table[q][m \div PageSize] # -1 /\ a = Spot(table[q], m)
  <2>1. PICK s \in 1..n : RowWrites(N + 1, s, a, q, m)'
    BY <1>4, <1>7, <1>16 DEF Writes
  <2>2. /\ c.rows[s].req = q /\ m \in c.rows[s].from..(Ctx(c.rows[s]) - 1)
        /\ a = Spot(c.rows[s].tab, m)
    BY <1>15, <2>1
  <2>3. m \in Held(c.rows[s])
    BY <1>8, <2>2, NewKeysHeld
  <2>4. m \in Nat /\ m < MaxLen /\ c.rows[s].req \in Requests
    BY <1>8, <2>3, HeldFacts
  <2>5. who[s] = q /\ who[s] # Pad
    BY <1>4, <2>2, <2>4, PagedAssumption
  <2>6. c.rows[s].tab = table[q]
    BY <1>4, <2>5
  <2>7. c.rows[s].tab[m \div PageSize] # -1
    BY <2>3 DEF Held
  <2> QED
    BY <2>2, <2>4, <2>6, <2>7
<1>17. ASSUME NEW r \in Requests \ gone, NEW k \in 0..(len'[r] - 1), table[r][k \div PageSize] # -1,
              NEW a, a = Spot(table[r], k)
       PROVE  Lasting(a, r, k, N + 1)'
  <2>1. k \in Nat /\ k < MaxLen /\ len[r] \in Nat /\ len'[r] \in Nat
    BY <1>9, PagedAssumption
  <2>2. \A q, m : Writes(N + 1, a, q, m)' => q = r /\ m = k
    <3>1. SUFFICES ASSUME NEW q, NEW m, Writes(N + 1, a, q, m)' PROVE q = r /\ m = k
      OBVIOUS
    <3>2. /\ q \in Requests /\ m \in Nat /\ m < MaxLen
          /\ table[q][m \div PageSize] # -1 /\ a = Spot(table[q], m)
      BY <1>16, <3>1
    <3>3. Spot(table[r], k) = Spot(table[q], m)
      BY <1>17, <3>2
    <3> QED
      BY <1>17, <2>1, <3>2, <3>3, OneHostKey
  <2>3. CASE k < len[r]
    <3>1. Lasting(a, r, k, N)
      <4>1. k \in 0..(len[r] - 1)
        BY <2>1, <2>3
      <4> QED
        BY <1>5, <1>17, <4>1 DEF HostInv
    <3>2. \A i \in 0..N : Undisturbed(a, r, k, i, N) => Undisturbed(a, r, k, i, N + 1)'
      <4>1. SUFFICES ASSUME NEW i \in 0..N, Undisturbed(a, r, k, i, N),
                            NEW j \in i..(N + 1), NEW q \in Requests, NEW m \in Positions,
                            Writes(j, a, q, m)'
                     PROVE  q = r /\ m = k
        BY DEF Undisturbed
      <4>2. CASE j = N + 1
        BY <2>2, <4>1, <4>2
      <4>3. CASE j # N + 1
        <5>1. j \in i..N /\ j \in 0..N
          BY <4>3
        <5>2. Writes(j, a, q, m)
          BY <1>13, <4>1, <5>1
        <5> QED
          BY <4>1, <5>1, <5>2 DEF Undisturbed
      <4> QED
        BY <4>2, <4>3
    <3>3. CASE cache[a] = <<r, k>> /\ Undisturbed(a, r, k, 0, N)
      <4>1. Undisturbed(a, r, k, 0, N + 1)'
        BY <3>2, <3>3
      <4> QED
        BY <1>1, <3>3, <4>1 DEF Lasting
    <3>4. CASE \E i \in 0..N : Writes(i, a, r, k) /\ Undisturbed(a, r, k, i, N)
      <4>1. PICK i \in 0..N : Writes(i, a, r, k) /\ Undisturbed(a, r, k, i, N)
        BY <3>4
      <4>2. Writes(i, a, r, k)' /\ Undisturbed(a, r, k, i, N + 1)' /\ i \in 0..(N + 1)
        BY <1>13, <3>2, <4>1
      <4> QED
        BY <4>2 DEF Lasting
    <3> QED
      BY <3>1, <3>3, <3>4 DEF Lasting
  <2>4. CASE ~(k < len[r])
    <3>1. len'[r] # len[r] /\ r # Pad
      BY <2>1, <2>4, PagedAssumption, SMTT(30)
    <3>2. PICK s \in 1..n : who[s] = r
      BY <1>9, <3>1
    <3>3. /\ len'[r] = Ctx(c.rows[s]) /\ c.rows[s].from = len[r] /\ c.rows[s].tab = table[r]
          /\ c.rows[s].req = r
      BY <1>4, <1>9, <3>1, <3>2
    <3>4. k \in c.rows[s].from..(Ctx(c.rows[s]) - 1)
      BY <2>1, <2>4, <3>3
    <3>5. RowWrites(N + 1, s, a, r, k)'
      BY <1>15, <1>17, <3>3, <3>4
    <3>6. Writes(N + 1, a, r, k)'
      BY <1>4, <1>7, <3>5 DEF Writes
    <3>7. Undisturbed(a, r, k, N + 1, N + 1)'
      <4>1. \A j \in (N + 1)..(N + 1) : j = N + 1
        OBVIOUS
      <4> QED
        BY <2>2, <4>1 DEF Undisturbed
    <3>8. N + 1 \in 0..(N + 1)
      OBVIOUS
    <3> QED
      BY <3>6, <3>7, <3>8 DEF Lasting
  <2> QED
    BY <2>3, <2>4
<1>18. HostInv'
  <2>1. ASSUME NEW r \in Requests \ gone, NEW k \in 0..(len'[r] - 1), table[r][k \div PageSize] # -1
        PROVE  Lasting(Spot(table[r], k), r, k, Len(ahead))'
    <3>1. PICK a : a = Spot(table[r], k)
      OBVIOUS
    <3>2. Lasting(a, r, k, N + 1)'
      BY <1>17, <2>1, <3>1
    <3>3. Spot(table[r], k)' = a /\ Len(ahead)' = N + 1
      BY <1>1, <1>6, <3>1 DEF Spot, Address
    <3> QED
      BY <3>2, <3>3
  <2> QED
    BY <1>1, <2>1 DEF HostInv
<1>19. ReadInv'
  <2>1. ASSUME NEW i \in 0..N, NEW u \in DOMAIN CallAt(i).rows, NEW k \in Held(CallAt(i).rows[u])
        PROVE  Lasting(Spot(CallAt(i).rows[u].tab, k), CallAt(i).rows[u].req, k, i)'
    <3>1. PICK a : a = Spot(CallAt(i).rows[u].tab, k)
      OBVIOUS
    <3>2. PICK r : r = CallAt(i).rows[u].req
      OBVIOUS
    <3>3. Lasting(a, r, k, i)'
      BY <1>7, <1>14, <3>1, <3>2 DEF ReadInv
    <3>4. (CallAt(i).rows[u].tab)' = CallAt(i).rows[u].tab /\ (CallAt(i).rows[u].req)' = r
      BY <1>7, <3>2
    <3>5. Spot(CallAt(i).rows[u].tab, k)' = a
      BY <3>1, <3>4 DEF Spot, Address
    <3> QED
      BY <3>3, <3>4, <3>5
  <2>2. ASSUME NEW s \in 1..n, NEW k \in Held(c.rows[s])
        PROVE  Lasting(Spot(c.rows[s].tab, k), c.rows[s].req, k, N + 1)'
    <3>1. PICK a : a = Spot(c.rows[s].tab, k)
      OBVIOUS
    <3>2. k \in Nat /\ k < Ctx(c.rows[s]) /\ c.rows[s].req \in Requests
      BY <1>8, HeldFacts
    <3>3. PICK r : r = c.rows[s].req
      OBVIOUS
    <3>4. who[s] = r /\ who[s] # Pad
      BY <1>4, <3>2, <3>3, PagedAssumption
    <3>a. who[s] \in Requests \ gone /\ c.rows[s].tab = table[who[s]]
      BY <1>4, <3>4
    <3>b. len'[who[s]] = Ctx(c.rows[s])
      BY <1>9, <3>4
    <3>5. /\ r \in Requests \ gone /\ c.rows[s].tab = table[r]
          /\ len'[r] = Ctx(c.rows[s])
      BY <3>4, <3>a, <3>b
    <3>6. k \in 0..(len'[r] - 1)
      BY <1>9, <3>2, <3>5
    <3>7. table[r][k \div PageSize] # -1
      BY <3>5 DEF Held
    <3>8. Lasting(a, r, k, N + 1)'
      BY <1>17, <3>1, <3>5, <3>6, <3>7
    <3> QED
      BY <3>1, <3>3, <3>8
  <2>3. ASSUME NEW i \in Turns', NEW u \in DOMAIN CallAt(i)'.rows, NEW k \in Held(CallAt(i)'.rows[u])
        PROVE  Lasting(Spot(CallAt(i).rows[u].tab, k), CallAt(i).rows[u].req, k, i)'
    <3>1. CASE i \in 0..N
      BY <1>7, <2>1, <3>1
    <3>2. CASE i = N + 1
      BY <1>4, <1>7, <2>2, <3>2
    <3> QED
      BY <1>7, <3>1, <3>2
  <2> QED
    BY <2>3 DEF ReadInv
<1>20. BuffersInv'
  <2>1. DenseInv' /\ PartsInv'
    BY <1>1 DEF BuffersInv, DenseInv, PartsInv, Chunks, Steps, Held, Ctx, Weighed, Own
  <2>2. SidesInv
    BY DEF BuffersInv
  <2>3. SidesInv'
    BY <1>1, <2>2 DEF SidesInv
  <2>4. OutInv'
    BY <1>1 DEF BuffersInv, OutInv, Rows, TokensOf, Finished, Exact, AttendsTo
  <2> QED
    BY <2>1, <2>3, <2>4 DEF BuffersInv
<1> QED
  BY <1>10, <1>11, <1>12, <1>18, <1>19, <1>20

-----------------------------------------------------------------------------
(* The device's steps                                                       *)

\* The next call starts: its keys are still to be written, its buffers hold
\* anything.
LEMMA BeginStep ==
    ASSUME IInv, Begin
    PROVE  IInv'
<1> USE DEF IInv
<1>1. /\ UNCHANGED <<window, len, table, gone, cache>> /\ Unwritten
      /\ call' = Head(ahead) /\ ahead' = Tail(ahead) /\ ahead # <<>>
      /\ todo = {} /\ todo' = Work(Head(ahead))
  BY DEF Begin, hostVars
<1>2. PICK N \in Nat : N = Len(ahead)
  BY DEF CallsInv
<1>3. ahead \in Seq(CallSet)
  BY DEF CallsInv
<1>4. /\ N # 0 /\ Head(ahead) = ahead[1] /\ Tail(ahead) \in Seq(CallSet)
      /\ Len(Tail(ahead)) = N - 1
      /\ \A i \in 1..(N - 1) : Tail(ahead)[i] = ahead[i + 1]
  BY <1>1, <1>2, <1>3, HeadTailProperties
<1>5. PICK c : c = ahead[1]
  OBVIOUS
<1>6. /\ call' = c /\ todo' = Work(c) /\ ahead' \in Seq(CallSet) /\ Len(ahead') = N - 1
      /\ 1 \in Turns /\ Turns = 0..N /\ CallAt(1) = c
  BY <1>1, <1>2, <1>4, <1>5 DEF Turns, CallAt
<1>7. /\ c \in CallSet /\ CallOK(c) /\ DOMAIN c.rows = 1..Len(c.rows)
      /\ \A s \in DOMAIN c.rows : s \in 1..MaxRows /\ c.rows[s] \in RowSet /\ RowOK(c.rows[s])
  BY <1>6, CallFacts
<1>8. Turns' = 0..(N - 1)
  BY <1>6 DEF Turns
<1>9. ASSUME NEW i \in 0..(N - 1)
      PROVE  CallAt(i)' = CallAt(i + 1) /\ i + 1 \in Turns /\ i \in Nat
  <2>1. CASE i = 0
    BY <1>6, <2>1 DEF CallAt
  <2>2. CASE i # 0
    <3>1. i \in 1..(N - 1) /\ i + 1 # 0 /\ i + 1 \in 0..N
      BY <2>2
    <3>2. ahead'[i] = ahead[i + 1]
      BY <1>1, <1>4, <3>1
    <3> QED
      BY <1>6, <2>2, <3>1, <3>2 DEF CallAt
  <2> QED
    BY <2>1, <2>2
<1>10. CallsInv'
  <2>1. ASSUME NEW i \in 0..(N - 1) PROVE CallOK(CallAt(i))'
    <3>1. CallOK(CallAt(i + 1)) /\ CallAt(i)' = CallAt(i + 1)
      BY <1>9 DEF CallsInv
    <3> QED
      BY <1>1, <3>1 DEF CallOK, RowOK, Ctx
  <2>2. Work(call)' = Work(c)
    BY <1>6 DEF Work, Items, AllTokens, TokensOf, Chunks, ChunkTokens, Steps
  <2> QED
    BY <1>6, <1>7, <1>8, <2>1, <2>2 DEF CallsInv
<1>11. TablesInv'
  BY <1>1 DEF TablesInv
\* Memory: the turns move up by one.
<1>12. ASSUME NEW a, NEW q, NEW m
       PROVE  ~Writes(0, a, q, m)
  BY <1>1 DEF Writes, RowWrites
<1>13. ASSUME NEW s \in DOMAIN c.rows, NEW k \in c.rows[s].from..(Ctx(c.rows[s]) - 1)
       PROVE  <<"save", c.rows[s].lo + (k - c.rows[s].from)>> \in Work(c)
  <2> DEFINE row == c.rows[s]
             t == row.lo + (k - row.from)
  <2>1. row \in RowSet /\ RowOK(row)
    BY <1>7
  <2>2. k \in row.from..(Ctx(row) - 1)
    OBVIOUS
  <2>3. t = row.lo + (k - row.from)
    OBVIOUS
  <2> HIDE DEF row, t
  <2>4. /\ row.lo \in Nat /\ row.hi \in Nat /\ row.from \in Nat
        /\ row.req # Pad => Ctx(row) = row.from + (row.hi - row.lo)
        /\ row.req = Pad => Ctx(row) = 0
    BY <2>1, CtxFacts
  <2>5. t \in row.lo..(row.hi - 1)
    BY <2>2, <2>3, <2>4
  <2>6. t \in AllTokens(c.rows)
    BY <2>5 DEF AllTokens, TokensOf, row
  <2> QED
    BY <1>7, <2>6, WorkHas DEF t, row
<1>14. ASSUME NEW i \in 0..(N - 1), NEW a, NEW q, NEW m
       PROVE  Writes(i, a, q, m)' <=> Writes(i + 1, a, q, m)
  <2>1. CallAt(i)' = CallAt(i + 1) /\ i + 1 # 0
    BY <1>9
  <2>2. CASE i # 0
    BY <2>1, <2>2 DEF Writes, RowWrites, Ctx, Spot, Address
  <2>3. CASE i = 0
    <3>1. Writes(i, a, q, m)' <=>
            \E s \in DOMAIN c.rows :
              /\ c.rows[s].req = q /\ m \in c.rows[s].from..(Ctx(c.rows[s]) - 1)
              /\ <<"save", c.rows[s].lo + (m - c.rows[s].from)>> \in Work(c)
              /\ a = Spot(c.rows[s].tab, m)
      <4>1. CallAt(i)' = c /\ todo' = Work(c) /\ i = 0
        BY <1>6, <2>1, <2>3
      <4> QED
        BY <4>1 DEF Writes, RowWrites
    <3>2. Writes(i + 1, a, q, m) <=>
            \E s \in DOMAIN c.rows :
              /\ c.rows[s].req = q /\ m \in c.rows[s].from..(Ctx(c.rows[s]) - 1)
              /\ a = Spot(c.rows[s].tab, m)
      BY <1>6, <2>1, <2>3 DEF Writes, RowWrites
    <3> QED
      BY <1>13, <3>1, <3>2
  <2> QED
    BY <2>2, <2>3
<1>15. ASSUME NEW i \in 0..(N - 1), NEW a, NEW r, NEW k, Lasting(a, r, k, i + 1)
       PROVE  Lasting(a, r, k, i)'
  <2>1. ASSUME NEW h \in 0..(i + 1), NEW l \in 0..i, h <= l + 1, Undisturbed(a, r, k, h, i + 1)
        PROVE  Undisturbed(a, r, k, l, i)'
    <3>1. SUFFICES ASSUME NEW j \in l..i, NEW q \in Requests, NEW m \in Positions,
                          Writes(j, a, q, m)'
                   PROVE  q = r /\ m = k
      BY DEF Undisturbed
    <3>2. j \in 0..(N - 1) /\ j + 1 \in h..(i + 1)
      BY <2>1
    <3>3. Writes(j + 1, a, q, m)
      BY <1>14, <3>1, <3>2
    <3> QED
      BY <2>1, <3>2, <3>3 DEF Undisturbed
  <2>2. CASE cache[a] = <<r, k>> /\ Undisturbed(a, r, k, 0, i + 1)
    <3>1. 0 \in 0..(i + 1) /\ 0 \in 0..i
      OBVIOUS
    <3>2. Undisturbed(a, r, k, 0, i)'
      BY <2>1, <2>2, <3>1
    <3> QED
      BY <1>1, <2>2, <3>2 DEF Lasting
  <2>3. CASE \E h \in 0..(i + 1) : Writes(h, a, r, k) /\ Undisturbed(a, r, k, h, i + 1)
    <3>1. PICK h \in 0..(i + 1) : Writes(h, a, r, k) /\ Undisturbed(a, r, k, h, i + 1)
      BY <2>3
    <3>2. h # 0
      BY <1>12, <3>1
    <3>3. PICK l \in 0..i : h = l + 1
      <4>1. h - 1 \in 0..i /\ h = (h - 1) + 1
        BY <3>2
      <4> QED
        BY <4>1
    <3>4. l \in 0..(N - 1) /\ h <= l + 1
      BY <3>3
    <3>5. Writes(l, a, r, k)' /\ Undisturbed(a, r, k, l, i)'
      BY <1>14, <2>1, <3>1, <3>3, <3>4
    <3> QED
      BY <3>5 DEF Lasting
  <2> QED
    BY <1>15, <2>2, <2>3 DEF Lasting
<1>16. ReadInv'
  <2>1. ASSUME NEW i \in 0..(N - 1), NEW u \in DOMAIN CallAt(i)'.rows,
               NEW k \in Held(CallAt(i)'.rows[u])
        PROVE  Lasting(Spot(CallAt(i).rows[u].tab, k), CallAt(i).rows[u].req, k, i)'
    <3>1. CallAt(i)' = CallAt(i + 1) /\ i + 1 \in Turns
      BY <1>9
    <3>2. PICK a : a = Spot(CallAt(i + 1).rows[u].tab, k)
      OBVIOUS
    <3>3. PICK r : r = CallAt(i + 1).rows[u].req
      OBVIOUS
    <3>4. Lasting(a, r, k, i + 1)
      BY <3>1, <3>2, <3>3 DEF ReadInv
    <3>5. Lasting(a, r, k, i)'
      BY <1>15, <3>4
    <3>6. (CallAt(i).rows[u].tab)' = CallAt(i + 1).rows[u].tab /\ (CallAt(i).rows[u].req)' = r
      BY <3>1, <3>3
    <3>7. Spot(CallAt(i).rows[u].tab, k)' = a
      BY <3>2, <3>6 DEF Spot, Address
    <3> QED
      BY <3>5, <3>6, <3>7
  <2> QED
    BY <1>8, <2>1 DEF ReadInv
<1>17. HostInv'
  <2>1. ASSUME NEW r \in Requests \ gone, NEW k \in 0..(len[r] - 1), table[r][k \div PageSize] # -1
        PROVE  Lasting(Spot(table[r], k), r, k, Len(ahead))'
    <3>1. PICK a : a = Spot(table[r], k)
      OBVIOUS
    <3>2. PICK i \in 0..(N - 1) : i = N - 1 /\ i + 1 = N
      BY <1>4
    <3>3. Lasting(a, r, k, i + 1)
      BY <1>2, <2>1, <3>1, <3>2 DEF HostInv
    <3>4. Lasting(a, r, k, i)'
      BY <1>15, <3>3
    <3>5. Spot(table[r], k)' = a /\ Len(ahead)' = i
      BY <1>1, <1>6, <3>1, <3>2 DEF Spot, Address
    <3> QED
      BY <3>4, <3>5
  <2> QED
    BY <1>1, <2>1 DEF HostInv
\* Nothing of the buffers is due yet.
<1>18. BuffersInv'
  <2>1. DenseInv'
    BY <1>6, <1>7, WorkHas DEF DenseInv
  <2>2. PartsInv'
    BY <1>6, <1>7, WorkHas DEF PartsInv
  <2>3. \A s \in Chunks(c.rows) : \A tok \in TokensOf(c.rows, s) : tok \in ChunkTokens(c.rows)
    BY DEF ChunkTokens
  <2>4. SidesInv'
    BY <1>6, <1>7, <2>3, WorkHas DEF SidesInv
  <2>5. OutInv'
    <3>1. SUFFICES ASSUME NEW s \in DOMAIN c.rows, NEW tok \in TokensOf(c.rows, s)
                   PROVE  ~Finished(s, tok)'
      BY <1>6 DEF OutInv, Rows
    <3>2. CASE ~c.rows[s].prefill
      <4>1. s \in Steps(c.rows)
        BY <3>2 DEF Steps, Chunks
      <4> QED
        BY <1>6, <1>7, <3>2, <4>1, WorkHas DEF Finished
    <3>3. CASE c.rows[s].prefill
      <4>1. s \in Chunks(c.rows) /\ tok \in AllTokens(c.rows)
        BY <3>3 DEF Chunks, AllTokens
      <4>2. tok \in ChunkTokens(c.rows)
        BY <2>3, <4>1
      <4> QED
        BY <1>6, <1>7, <3>3, <4>1, <4>2, WorkHas DEF Finished
    <3> QED
      BY <3>2, <3>3
  <2> QED
    BY <2>1, <2>2, <2>4, <2>5 DEF BuffersInv
<1>19. TypeOK'
  <2>1. /\ dense' \in [1..MaxRows -> [Positions -> Keys \cup {Stale, Zero}]]
        /\ parts' \in [1..MaxRows -> [SplitIds -> Terms]]
        /\ sides' \in [0..1 -> [Tokens -> Results]]
        /\ out' \in [Tokens -> Results]
    <3>1. Junk.terms \in Terms /\ Junk \in Results
      BY DEF Terms, Results
    <3> QED
      BY <1>1, <3>1 DEF Unwritten
  <2>2. Len(ahead') <= MaxAhead
    BY <1>2, <1>6, PagedAssumption DEF TypeOK
  <2> QED
    BY <1>1, <2>1, <2>2 DEF TypeOK
<1> QED
  BY <1>10, <1>11, <1>16, <1>17, <1>18, <1>19

-----------------------------------------------------------------------------
(* What is weighed                                                          *)

AllTerms == Labels \X Positions \X Keys

LEMMA WeighedOwn ==
    ASSUME NEW label, NEW row, NEW K
    PROVE  Weighed(label, Own(row, K)) = {<<label, k, <<row.req, k>>>> : k \in K}
  BY DEF Weighed, Own

LEMMA OwnTerms ==
    ASSUME NEW row \in RowSet, RowOK(row), NEW K, K \subseteq Held(row), NEW label \in Labels
    PROVE  Weighed(label, Own(row, K)) \subseteq AllTerms
<1>1. \A k \in K : k \in Positions /\ row.req \in Requests
  BY HeldFacts
<1> QED
  BY <1>1, WeighedOwn DEF AllTerms, Keys

LEMMA WindowType ==
    ASSUME TypeOK
    PROVE  window \in Lefts /\ window \in Int
  BY PagedAssumption DEF TypeOK, Lefts

\* Once the call's keys are saved, a walk over its pages finds them.
LEMMA PagesRead ==
    ASSUME CallsInv, TypeOK, ReadInv, \A item \in todo : item[1] # "save",
           NEW s \in Rows, NEW K, K \subseteq Held(call.rows[s])
    PROVE  AtPages(call.rows[s], K) = Own(call.rows[s], K)
<1> DEFINE row == call.rows[s]
<1>1. row \in RowSet /\ RowOK(row)
  BY RunningCall
<1>2. \A k \in K : cache[Address(row.tab[k \div PageSize], k % PageSize)] = <<row.req, k>>
  BY ReadNow DEF Spot
<1> HIDE DEF row
<1>3. \A k \in K : row.tab[k \div PageSize] \in Pages
  BY <1>1, HeldFacts DEF row
<1>4. Paged(row, K) = K
  BY <1>3, PagedAssumption DEF Paged, Pages
<1>5. AtPages(row, K) = [k \in K |-> <<row.req, k>>]
  BY <1>2, <1>4 DEF AtPages
<1> QED
  BY <1>5 DEF Own, row

\* The first key a query of a row attends to, and the last.
First(row, tok) ==
    LET j == row.from + (tok - row.lo) IN IF window >= 0 /\ j > window THEN j - window ELSE 0
Last(row, tok) == row.from + (tok - row.lo)

\* What a window reaches has pages.
LEMMA WindowHeld ==
    ASSUME TypeOK, NEW row \in RowSet, RowOK(row), row.req # Pad,
           NEW tok \in row.lo..(row.hi - 1)
    PROVE  /\ First(row, tok)..Last(row, tok) \subseteq Held(row)
           /\ First(row, tok) \in Nat /\ Last(row, tok) \in Nat
<1>1. /\ row.lo \in Nat /\ row.hi \in Nat /\ row.from \in Nat
      /\ Ctx(row) = row.from + (row.hi - row.lo) /\ window \in Int
  BY CtxFacts, WindowType
<1>2. ASSUME NEW k \in First(row, tok)..Last(row, tok)
      PROVE  k \in Held(row)
  <2>1. k \in 0..(Ctx(row) - 1) /\ (window >= 0 => k >= row.from - window)
    BY <1>1 DEF First, Last
  <2>2. row.tab[k \div PageSize] = -1 => window >= 0 /\ k < row.from - window
    BY <2>1 DEF RowOK
  <2> QED
    BY <1>1, <2>1, <2>2 DEF Held
<1>3. First(row, tok) \in Nat /\ Last(row, tok) \in Nat
  BY <1>1 DEF First, Last
<1> QED
  BY <1>2, <1>3

\* The kernel's band is the query's window.
LEMMA PrefillBand ==
    ASSUME TypeOK, NEW row \in RowSet, RowOK(row), row.req # Pad,
           NEW tok \in row.lo..(row.hi - 1)
    PROVE  Band(tok - row.lo, row.hi - row.lo, Ctx(row), TRUE, window, -1)
             = First(row, tok)..Last(row, tok)
<1>1. /\ row.lo \in Nat /\ row.hi \in Nat /\ row.from \in Nat
      /\ Ctx(row) = row.from + (row.hi - row.lo) /\ window \in Int
  BY CtxFacts, WindowType
<1> DEFINE center == (tok - row.lo) + (Ctx(row) - (row.hi - row.lo))
<1>2. center = Last(row, tok) /\ center \in Int
  BY <1>1 DEF Last
<1>3. ~(center < Ctx(row) - 1) => center = Ctx(row) - 1
  BY <1>1
<1>4. First(row, tok) = IF window >= 0 /\ center - window > 0 THEN center - window ELSE 0
  BY <1>1, <1>2 DEF First, Last
<1>5. Band(tok - row.lo, row.hi - row.lo, Ctx(row), TRUE, window, -1)
        = (IF window >= 0 /\ center - window > 0 THEN center - window ELSE 0)
            ..(IF center < Ctx(row) - 1 THEN center ELSE Ctx(row) - 1)
  BY DEF Band
<1> HIDE DEF center
<1> QED
  BY <1>2, <1>3, <1>4, <1>5

\* The splits of a decode step stay in its window.
LEMMA SplitHeld ==
    ASSUME TypeOK, NEW row \in RowSet, RowOK(row), ~row.prefill, NEW sp \in SplitIds
    PROVE  SplitKeys(Ctx(row), window, Splits, sp) \subseteq Held(row)
<1>1. /\ row.lo \in Nat /\ row.hi \in Nat /\ row.from \in Nat /\ Ctx(row) \in Nat
      /\ row.req # Pad => Ctx(row) = row.from + 1
      /\ row.req = Pad => Ctx(row) = 0
      /\ window \in Lefts
  BY CtxFacts, WindowType
<1>2. DecodeLo(Ctx(row), window) \in 0..Ctx(row)
  BY <1>1, SplitBounds
<1>3. ASSUME NEW k \in SplitKeys(Ctx(row), window, Splits, sp)
      PROVE  k \in Held(row)
  <2>1. k \in Int
    BY DEF SplitKeys
  <2>2. /\ sp * PerSplit(Ctx(row), window, Splits) \in Nat
        /\ DecodeLo(Ctx(row), window) + sp * PerSplit(Ctx(row), window, Splits) <= k
        /\ k < Ctx(row)
    BY <1>1, <1>3, <2>1, SplitIs
  <2>3. k \in 0..(Ctx(row) - 1) /\ DecodeLo(Ctx(row), window) <= k
    BY <1>1, <1>2, <2>1, <2>2
  <2>4. row.req # Pad /\ (window >= 0 => k >= row.from - window)
    BY <1>1, <2>3 DEF DecodeLo, Lefts
  <2>5. row.tab[k \div PageSize] = -1 => window >= 0 /\ k < row.from - window
    BY <2>3 DEF RowOK
  <2> QED
    BY <1>1, <2>3, <2>4, <2>5 DEF Held, Lefts
<1> QED
  BY <1>3

\* A decode step's span is its query's window.
LEMMA DecodeSpan ==
    ASSUME TypeOK, NEW row \in RowSet, RowOK(row), ~row.prefill, row.req # Pad
    PROVE  /\ DecodeLo(Ctx(row), window) = First(row, row.lo)
           /\ Ctx(row) = Last(row, row.lo) + 1
<1>1. /\ row.lo \in Nat /\ row.hi \in Nat /\ row.from \in Nat /\ row.hi = row.lo + 1
      /\ Ctx(row) = row.from + 1 /\ window \in Int
  BY CtxFacts, WindowType
<1> QED
  BY <1>1 DEF DecodeLo, First, Last

-----------------------------------------------------------------------------
(* The buffers across the kernels' steps                                    *)

\* Which buffers a kernel that does not write them leaves right.
LEMMA BuffersKept ==
    ASSUME CallsInv, BuffersInv, NEW kernel, NEW i, Runs(kernel, i)
    PROVE  /\ kernel # "gather" /\ UNCHANGED dense => DenseInv'
           /\ kernel # "part" /\ UNCHANGED parts => PartsInv'
           /\ kernel \notin {"ctx", "new"} /\ UNCHANGED sides => SidesInv'
           /\ kernel \notin {"reduce", "merge", "prefill"} /\ UNCHANGED out => OutInv'
<1>1. /\ window' = window /\ call' = call
      /\ \A k, j : <<k, j>> \in todo' <=> <<k, j>> \in todo /\ ~(k = kernel /\ j = i)
  BY WorkLeft
<1>2. ASSUME kernel # "gather", UNCHANGED dense PROVE DenseInv'
  BY <1>1, <1>2 DEF BuffersInv, DenseInv
<1>3. ASSUME kernel # "part", UNCHANGED parts PROVE PartsInv'
  BY <1>1, <1>3 DEF BuffersInv, PartsInv
<1>4. ASSUME kernel \notin {"ctx", "new"}, UNCHANGED sides PROVE SidesInv'
  BY <1>1, <1>4 DEF BuffersInv, SidesInv
<1>5. ASSUME kernel \notin {"reduce", "merge", "prefill"}, UNCHANGED out PROVE OutInv'
  <2>1. SUFFICES ASSUME NEW s \in Rows, NEW tok \in TokensOf(call.rows, s), Finished(s, tok)'
                 PROVE  Exact(call.rows[s], tok)'
    BY <1>1 DEF OutInv, Rows
  <2>2. Finished(s, tok)
    BY <1>1, <1>5, <2>1 DEF Finished
  <2>3. Exact(call.rows[s], tok)
    BY <2>2 DEF BuffersInv, OutInv
  <2> QED
    BY <1>1, <1>5, <2>3 DEF Exact
<1> QED
  BY <1>2, <1>3, <1>4, <1>5

\* A row's tokens are among the packed ones, and its own.
LEMMA RowTokens ==
    ASSUME CallsInv, NEW s \in Rows, NEW tok \in TokensOf(call.rows, s)
    PROVE  /\ tok \in Tokens /\ tok \in Int
           /\ \A u \in Rows : tok \in TokensOf(call.rows, u) => u = s
<1>1. tok \in Int /\ call.rows[s].lo <= tok /\ tok < call.rows[s].hi
  BY OwnerRight
<1>2. /\ call.rows[s].lo \in Nat /\ call.rows[s].hi \in Nat /\ call.rows[s].hi <= MaxTokens
  BY RunningCall DEF RowSet, RowOK
<1>3. \A u \in Rows : tok \in TokensOf(call.rows, u) => u = s
  BY <1>1, OwnerRight, OneRow
<1> QED
  BY <1>1, <1>2, <1>3, PagedAssumption DEF Tokens

\* A kernel that finishes one token's output keeps the others'.
LEMMA OutOne ==
    ASSUME CallsInv, BuffersInv, NEW kernel, NEW i, Runs(kernel, i), NEW t,
           \A tok \in Tokens : tok # t => out'[tok] = out[tok],
           \A s \in Rows : \A tok \in TokensOf(call.rows, s) :
              Finished(s, tok)' /\ ~Finished(s, tok) => tok = t,
           \A s \in Rows : t \in TokensOf(call.rows, s) /\ Finished(s, t)' =>
              Exact(call.rows[s], t)'
    PROVE  OutInv'
<1>1. window' = window /\ call' = call
  BY WorkLeft
<1>2. SUFFICES ASSUME NEW s \in Rows, NEW tok \in TokensOf(call.rows, s), Finished(s, tok)'
               PROVE  Exact(call.rows[s], tok)'
  BY <1>1 DEF OutInv, Rows
<1>3. CASE tok = t
  BY <1>2, <1>3
<1>4. CASE tok # t
  <2>1. Finished(s, tok)
    BY <1>2, <1>4
  <2>2. Exact(call.rows[s], tok)
    BY <2>1 DEF BuffersInv, OutInv
  <2>3. out'[tok] = out[tok]
    BY <1>4, RowTokens
  <2> QED
    BY <1>1, <2>2, <2>3 DEF Exact
<1> QED
  BY <1>3, <1>4

\* What a kernel's step leaves to show.
LEMMA KernelStep ==
    ASSUME IInv, NEW kernel, NEW i, Runs(kernel, i), kernel # "save", UNCHANGED cache,
           dense' \in [1..MaxRows -> [Positions -> Keys \cup {Stale, Zero}]],
           parts' \in [1..MaxRows -> [SplitIds -> Terms]],
           sides' \in [0..1 -> [Tokens -> Results]],
           out' \in [Tokens -> Results],
           BuffersInv'
    PROVE  IInv'
<1> USE DEF IInv
<1>1. UNCHANGED <<window, len, table, gone, ahead, call>> /\ CallsInv'
  BY WorkLeft
<1>2. MemoryInv'
  BY MemoryKept DEF MemoryInv
<1>3. TypeOK'
  BY <1>1 DEF TypeOK
<1>4. TablesInv'
  BY <1>1 DEF TablesInv
<1> QED
  BY <1>1, <1>2, <1>3, <1>4 DEF MemoryInv

\* The types of the buffers.
LEMMA BufferTypes ==
    ASSUME TypeOK
    PROVE  /\ dense \in [1..MaxRows -> [Positions -> Keys \cup {Stale, Zero}]]
           /\ parts \in [1..MaxRows -> [SplitIds -> Terms]]
           /\ sides \in [0..1 -> [Tokens -> Results]]
           /\ out \in [Tokens -> Results]
  BY DEF TypeOK

LEMMA SaveStep ==
    ASSUME IInv, NEW tok \in Tokens, SaveToken(tok)
    PROVE  IInv'
<1> USE DEF IInv
<1>1. Runs("save", tok) /\ UNCHANGED <<dense, parts, sides, out>>
  BY DEF SaveToken
<1>2. UNCHANGED <<window, len, table, gone, ahead, call>> /\ CallsInv'
  BY <1>1, WorkLeft
<1>3. MemoryInv' /\ cache' \in [Memory -> Keys \cup {Stale}]
  BY SaveMemory DEF MemoryInv
<1>4. BuffersInv'
  BY <1>1, BuffersKept DEF BuffersInv
<1>5. TypeOK'
  BY <1>1, <1>2, <1>3 DEF TypeOK
<1>6. TablesInv'
  BY <1>2 DEF TablesInv
<1> QED
  BY <1>2, <1>3, <1>4, <1>5, <1>6 DEF MemoryInv

\* Kernels that read run after the saves.
LEMMA Saved ==
    ASSUME CallsInv, NEW kernel \in {"gather", "ctx", "prefill", "part", "reduce", "merge", "new"},
           NEW i, Runs(kernel, i)
    PROVE  \A item \in todo : item[1] # "save"
  BY Order, WorkLeft

LEMMA GatherStep ==
    ASSUME IInv, NEW s \in 1..MaxRows, GatherRow(s)
    PROVE  IInv'
<1> USE DEF IInv
<1>1. /\ Runs("gather", s) /\ UNCHANGED <<cache, parts, sides, out>>
      /\ dense' = [dense EXCEPT ![s] =
                     [k \in Positions |->
                        IF k >= Ctx(call.rows[s]) THEN dense[s][k]
                        ELSE IF Slot(call.rows[s], k) < 0 THEN Zero
                        ELSE cache[Place(Slot(call.rows[s], k))]]]
  BY DEF GatherRow
<1>2. /\ s \in Rows /\ call' = call /\ s \in Chunks(call.rows)
      /\ \A k, j : <<k, j>> \in todo' <=> <<k, j>> \in todo /\ ~(k = "gather" /\ j = s)
  <2>1. <<"gather", s>> \in Work(call) /\ call' = call
        /\ \A k, j : <<k, j>> \in todo' <=> <<k, j>> \in todo /\ ~(k = "gather" /\ j = s)
    BY <1>1, WorkLeft
  <2>2. s \in Chunks(call.rows)
    BY <2>1, WorkItems, RunningCall
  <2> QED
    BY <2>1, <2>2 DEF Chunks, Rows
<1> DEFINE row == call.rows[s]
<1>3. row \in RowSet /\ RowOK(row)
  BY <1>2, RunningCall
<1>4. \A item \in todo : item[1] # "save"
  BY <1>1, Saved
<1>5. \A k \in Held(row) : cache[Place(Slot(row, k))] = <<row.req, k>> /\ ~(Slot(row, k) < 0)
                           /\ k \in Positions /\ k < Ctx(row) /\ k \in Nat
  <2>1. \A k \in Held(row) : cache[Spot(row.tab, k)] = <<row.req, k>>
    BY <1>2, <1>4, ReadNow
  <2> HIDE DEF row
  <2> QED
    BY <1>3, <2>1, HeldFacts
<1>6. DOMAIN dense = 1..MaxRows
  BY BufferTypes
<1>7. dense'[s] = [k \in Positions |->
                     IF k >= Ctx(row) THEN dense[s][k]
                     ELSE IF Slot(row, k) < 0 THEN Zero ELSE cache[Place(Slot(row, k))]]
      /\ \A u \in 1..MaxRows : u # s => dense'[u] = dense[u]
  BY <1>1, <1>6
<1>8. \A k \in Held(row) : dense'[s][k] = <<row.req, k>>
  <2> HIDE DEF row
  <2>1. Ctx(row) \in Nat
    BY <1>3, CtxFacts
  <2> QED
    BY <1>5, <1>7, <2>1
<1>9. DenseInv'
  <2>1. ASSUME NEW u \in Chunks(call.rows), call.form = "dense", <<"gather", u>> \notin todo',
               NEW k \in Held(call.rows[u])
        PROVE  dense'[u][k] = <<call.rows[u].req, k>>
    <3>1. CASE u = s
      BY <1>8, <3>1
    <3>2. CASE u # s
      <4>1. <<"gather", u>> \notin todo
        BY <1>2, <2>1, <3>2
      <4>2. dense[u][k] = <<call.rows[u].req, k>>
        BY <2>1, <4>1 DEF BuffersInv, DenseInv
      <4>3. u \in 1..MaxRows
        BY RunningCall DEF Chunks, Rows
      <4> QED
        BY <1>7, <3>2, <4>2, <4>3
    <3> QED
      BY <3>1, <3>2
  <2> QED
    BY <1>2, <2>1 DEF DenseInv
<1>10. BuffersInv'
  BY <1>1, <1>9, BuffersKept DEF BuffersInv
<1>11. dense' \in [1..MaxRows -> [Positions -> Keys \cup {Stale, Zero}]]
  <2> HIDE DEF row
  <2>1. ASSUME NEW k \in Positions
        PROVE  dense'[s][k] \in Keys \cup {Stale, Zero}
    <3>0. /\ row.tab \in [Entries -> Pages \cup {-1}] /\ k \in Nat /\ k < MaxLen
          /\ cache \in [Memory -> Keys \cup {Stale}]
      BY <1>3, CtxFacts, PagedAssumption DEF Positions, TypeOK
    <3>1. CASE k >= Ctx(row)
      <4>1. dense[s] \in [Positions -> Keys \cup {Stale, Zero}]
        BY BufferTypes
      <4> QED
        BY <1>7, <3>1, <4>1
    <3>2. CASE ~(k >= Ctx(row)) /\ Slot(row, k) < 0
      BY <1>7, <3>2
    <3>3. CASE ~(k >= Ctx(row)) /\ ~(Slot(row, k) < 0)
      <4>1. Place(Slot(row, k)) \in Memory
        BY <3>0, <3>3, SpotPlace
      <4> QED
        BY <1>7, <3>0, <3>3, <4>1
    <3> QED
      BY <3>1, <3>2, <3>3
  <2>2. dense'[s] \in [Positions -> Keys \cup {Stale, Zero}]
    BY <1>7, <2>1
  <2>3. dense' = [u \in 1..MaxRows |-> dense'[u]]
    BY <1>1, <1>6
  <2>4. \A u \in 1..MaxRows : dense'[u] \in [Positions -> Keys \cup {Stale, Zero}]
    BY <1>7, <2>2, BufferTypes
  <2> QED
    BY <2>3, <2>4
<1> QED
  BY <1>1, <1>10, <1>11, BufferTypes, KernelStep

\* The terms hold each of the keys K of request q once.
EachKey(terms, q, K) ==
    /\ {x[3] : x \in terms} = {<<q, k>> : k \in K}
    /\ \A x, y \in terms : x[3] = y[3] => x = y

\* The keys of a window, each weighed once, are what is asked of a token.
LEMMA WindowExact ==
    ASSUME TypeOK, NEW row \in RowSet, RowOK(row), row.req # Pad,
           NEW tok \in row.lo..(row.hi - 1), NEW terms,
           EachKey(terms, row.req, First(row, tok)..Last(row, tok))
    PROVE  AttendsTo(WithSink(terms), row.req, First(row, tok), Last(row, tok))
<1>1. First(row, tok) \in Nat /\ Last(row, tok) \in Nat /\ First(row, tok) <= Last(row, tok)
  <2>1. row.from \in Nat /\ row.lo \in Nat /\ window \in Int
    BY CtxFacts, WindowType
  <2> QED
    BY <2>1 DEF First, Last
<1>2. <<row.req, Last(row, tok)>> \in {x[3] : x \in terms}
  <2>1. Last(row, tok) \in First(row, tok)..Last(row, tok)
    BY <1>1
  <2> QED
    BY <2>1 DEF EachKey
<1>3. terms # {}
  BY <1>2
<1>4. WithSink(terms) = [terms |-> terms, sinks |-> 1]
  BY <1>3 DEF WithSink
<1> QED
  BY <1>4 DEF AttendsTo, EachKey

LEMMA OneEach ==
    ASSUME NEW label, NEW q, NEW K, NEW terms, terms = {<<label, k, <<q, k>>>> : k \in K}
    PROVE  EachKey(terms, q, K)
<1>1. \A k \in K : <<label, k, <<q, k>>>> \in terms
  OBVIOUS
<1>2. ASSUME NEW x \in terms
      PROVE  \E k \in K : x = <<label, k, <<q, k>>>>
  OBVIOUS
<1>3. ASSUME NEW x \in terms
      PROVE  \E k \in K : x = <<label, k, <<q, k>>>> /\ x[3] = <<q, k>>
  <2>1. PICK k \in K : x = <<label, k, <<q, k>>>>
    BY <1>2
  <2> QED
    BY <2>1
<1>4. \A k \in K : \E x \in terms : x[3] = <<q, k>>
  <2>1. SUFFICES ASSUME NEW k \in K PROVE \E x \in terms : x[3] = <<q, k>>
    OBVIOUS
  <2>2. <<label, k, <<q, k>>>>[3] = <<q, k>>
    OBVIOUS
  <2> QED
    BY <1>1, <2>2
<1>5. ASSUME NEW x \in terms, NEW y \in terms, x[3] = y[3]
      PROVE  x = y
  <2>1. PICK k \in K : x = <<label, k, <<q, k>>>> /\ x[3] = <<q, k>>
    BY <1>3
  <2>2. PICK m \in K : y = <<label, m, <<q, m>>>> /\ y[3] = <<q, m>>
    BY <1>3
  <2>3. k = m
    BY <1>5, <2>1, <2>2
  <2> QED
    BY <2>1, <2>2, <2>3
<1>6. {x[3] : x \in terms} \subseteq {<<q, k>> : k \in K}
  BY <1>3
<1>7. {<<q, k>> : k \in K} \subseteq {x[3] : x \in terms}
  BY <1>4
<1> QED
  BY <1>5, <1>6, <1>7 DEF EachKey

LEMMA WeighedEach ==
    ASSUME NEW label, NEW row, NEW K
    PROVE  EachKey(Weighed(label, Own(row, K)), row.req, K)
<1>1. PICK q : q = row.req
  OBVIOUS
<1>2. PICK terms : terms = Weighed(label, Own(row, K))
  OBVIOUS
<1>3. terms = {<<label, k, <<q, k>>>> : k \in K}
  BY <1>1, <1>2, WeighedOwn
<1>4. EachKey(terms, q, K)
  BY <1>3, OneEach
<1> QED
  BY <1>1, <1>2, <1>4

LEMMA OwnExact ==
    ASSUME TypeOK, NEW row \in RowSet, RowOK(row), row.req # Pad,
           NEW tok \in row.lo..(row.hi - 1), NEW label
    PROVE  AttendsTo(WithSink(Weighed(label, Own(row, First(row, tok)..Last(row, tok)))),
                     row.req, First(row, tok), Last(row, tok))
  BY WeighedEach, WindowExact

\* What AttentionExact asks, with the window's ends named.
LEMMA ExactIs ==
    ASSUME NEW s \in Rows, NEW tok, UNCHANGED <<window, call>>, call.rows[s].req # Pad
    PROVE  Exact(call.rows[s], tok)' <=>
             AttendsTo(out'[tok], call.rows[s].req, First(call.rows[s], tok), Last(call.rows[s], tok))
  BY DEF Exact, First, Last, AttendsTo

\* Attention's result has its type.
LEMMA SinkType ==
    ASSUME NEW terms, terms \subseteq AllTerms
    PROVE  WithSink(terms) \in Results
  BY DEF WithSink, Results, AllTerms

\* The token a kernel works on is a row's.
LEMMA TokenRow ==
    ASSUME CallsInv, NEW kernel \in {"prefill", "ctx", "new", "merge"}, NEW tok \in Tokens,
           Runs(kernel, tok)
    PROVE  \E s \in Rows : /\ tok \in TokensOf(call.rows, s) /\ FindSeq(tok) = s
                           /\ s \in 1..MaxRows /\ call.rows[s] \in RowSet /\ RowOK(call.rows[s])
                           /\ tok \in call.rows[s].lo..(call.rows[s].hi - 1)
                           /\ kernel # "prefill" => s \in Chunks(call.rows) /\ call.form = "cascade"
                           /\ kernel = "prefill" => call.form # "cascade"
<1>1. <<kernel, tok>> \in Work(call) /\ call \in CallSet
  BY WorkLeft, RunningCall
<1>2. PICK s \in Rows : /\ tok \in TokensOf(call.rows, s)
                        /\ kernel # "prefill" => s \in Chunks(call.rows) /\ call.form = "cascade"
                        /\ kernel = "prefill" => call.form # "cascade"
  <2>1. CASE kernel = "prefill"
    <3>1. tok \in AllTokens(call.rows) /\ call.form # "cascade"
      BY <1>1, <2>1, WorkItems
    <3> QED
      BY <2>1, <3>1 DEF AllTokens, Rows
  <2>2. CASE kernel # "prefill"
    <3>1. tok \in ChunkTokens(call.rows) /\ call.form = "cascade"
      BY <1>1, <2>2, WorkItems
    <3> QED
      BY <2>2, <3>1 DEF ChunkTokens, Chunks, Rows
  <2> QED
    BY <2>1, <2>2
<1> QED
  BY <1>2, OwnerRight, RunningCall DEF TokensOf

\* Gathered keys are a row's own.
LEMMA DenseRead ==
    ASSUME CallsInv, TypeOK, BuffersInv, NEW s \in Chunks(call.rows), call.form = "dense",
           <<"gather", s>> \notin todo, NEW K, K \subseteq Held(call.rows[s])
    PROVE  [k \in K |-> dense[s][k]] = Own(call.rows[s], K)
<1>1. \A k \in K : dense[s][k] = <<call.rows[s].req, k>>
  BY DEF BuffersInv, DenseInv
<1> QED
  BY <1>1 DEF Own

LEMMA PrefillStep ==
    ASSUME IInv, NEW tok \in Tokens, PrefillToken(tok)
    PROVE  IInv'
<1> USE DEF IInv
<1>1. Runs("prefill", tok) /\ UNCHANGED <<cache, dense, parts, sides>>
  BY DEF PrefillToken
<1>2. PICK s \in Rows : /\ tok \in TokensOf(call.rows, s) /\ FindSeq(tok) = s
                        /\ s \in 1..MaxRows /\ call.rows[s] \in RowSet /\ RowOK(call.rows[s])
                        /\ tok \in call.rows[s].lo..(call.rows[s].hi - 1)
                        /\ call.form # "cascade"
  BY <1>1, TokenRow
<1>3. PICK row : row = call.rows[s]
  OBVIOUS
<1>4. /\ UNCHANGED <<window, call>> /\ <<"prefill", tok>> \in todo
      /\ \A k, j : <<k, j>> \in todo' <=> <<k, j>> \in todo /\ ~(k = "prefill" /\ j = tok)
  BY <1>1, WorkLeft DEF Runs
<1>5. \A u \in Rows : \A t \in TokensOf(call.rows, u) : Finished(u, t)' /\ ~Finished(u, t) => t = tok
  BY <1>4 DEF Finished
<1>6. PICK K : K = Band(tok - row.lo, row.hi - row.lo, Ctx(row), TRUE, window, -1)
  OBVIOUS
<1>7. out' = IF ~row.prefill THEN out
             ELSE [out EXCEPT ![tok] =
                     WithSink(Weighed(0, IF call.form = "dense" THEN [k \in K |-> dense[s][k]]
                                         ELSE AtPages(row, K)))]
  BY <1>2, <1>3, <1>6 DEF PrefillToken, Query
<1>8. CASE ~row.prefill
  <2>1. out' = out
    BY <1>7, <1>8
  <2>2. ASSUME NEW u \in Rows, tok \in TokensOf(call.rows, u), Finished(u, tok)'
        PROVE  Exact(call.rows[u], tok)'
    <3>1. u = s
      BY <1>2, <2>2, RowTokens
    <3>2. Finished(u, tok)
      BY <1>3, <1>4, <1>8, <2>2, <3>1 DEF Finished
    <3>3. Exact(call.rows[u], tok)
      BY <2>2, <3>2 DEF BuffersInv, OutInv
    <3> QED
      BY <1>4, <2>1, <3>3 DEF Exact
  <2>3. OutInv'
    BY <1>1, <1>5, <2>1, <2>2, OutOne
  <2>4. BuffersInv'
    BY <1>1, <2>3, BuffersKept DEF BuffersInv
  <2> QED
    BY <1>1, <2>1, <2>4, BufferTypes, KernelStep
<1>9. CASE row.prefill
  <2>1. row.req # Pad /\ s \in Chunks(call.rows)
    BY <1>2, <1>3, <1>9, CtxFacts DEF Chunks, Rows
  <2>2. K = First(row, tok)..Last(row, tok) /\ K \subseteq Held(row)
    <3>1. row \in RowSet /\ RowOK(row) /\ row.req # Pad /\ tok \in row.lo..(row.hi - 1)
      BY <1>2, <1>3, <2>1
    <3>2. K = First(row, tok)..Last(row, tok)
      BY <1>6, <3>1, PrefillBand
    <3>3. First(row, tok)..Last(row, tok) \subseteq Held(row)
      BY <3>1, WindowHeld
    <3> QED
      BY <3>2, <3>3
  <2>3. \A item \in todo : item[1] # "save" /\ item[1] # "gather"
    BY <1>1, Saved, WorkLeft, Order
  <2>4. PICK found : found = Weighed(0, Own(row, K))
    OBVIOUS
  <2>5. out' = [out EXCEPT ![tok] = WithSink(found)]
    <3>1. CASE call.form = "dense"
      <4>1. <<"gather", s>> \notin todo
        BY <2>3
      <4>2. [k \in K |-> dense[s][k]] = Own(row, K)
        BY <1>3, <2>1, <2>2, <3>1, <4>1, DenseRead
      <4> QED
        BY <1>7, <1>9, <2>4, <3>1, <4>2
    <3>2. CASE call.form # "dense"
      <4>1. AtPages(row, K) = Own(row, K)
        BY <1>2, <1>3, <2>2, <2>3, PagesRead
      <4> QED
        BY <1>7, <1>9, <2>4, <3>2, <4>1
    <3> QED
      BY <3>1, <3>2
  <2>6. out \in [Tokens -> Results]
    BY BufferTypes
  <2>7. out'[tok] = WithSink(found) /\ \A t \in Tokens : t # tok => out'[t] = out[t]
    BY <2>5, <2>6
  <2>8. AttendsTo(out'[tok], row.req, First(row, tok), Last(row, tok))
    BY <1>2, <1>3, <2>1, <2>2, <2>4, <2>7, OwnExact
  <2>9. Exact(call.rows[s], tok)'
    BY <1>3, <1>4, <2>1, <2>8, ExactIs
  <2>10. \A u \in Rows : tok \in TokensOf(call.rows, u) => u = s
    BY <1>2, RowTokens
  <2>11. OutInv'
    BY <1>1, <1>5, <2>7, <2>9, <2>10, OutOne
  <2>12. BuffersInv'
    BY <1>1, <2>11, BuffersKept DEF BuffersInv
  <2>13. WithSink(found) \in Results
    <3>1. 0 \in Labels
      BY PagedAssumption DEF Labels
    <3>2. found \subseteq AllTerms
      BY <1>2, <1>3, <2>2, <2>4, <3>1, OwnTerms
    <3> QED
      BY <3>2, SinkType
  <2>14. out' \in [Tokens -> Results]
    BY <2>5, <2>6, <2>13
  <2> QED
    BY <1>1, <2>12, <2>14, BufferTypes, KernelStep
<1> QED
  BY <1>8, <1>9

\* What the two sides weigh.
LEMMA SideTerms ==
    ASSUME NEW row \in RowSet, RowOK(row), row.req # Pad, window = -1,
           NEW tok \in row.lo..(row.hi - 1)
    PROVE  /\ Weighed(0, Cached(row)) = {<<0, k, <<row.req, k>>>> : k \in 0..(row.from - 1)}
           /\ Weighed(1, Fresh(row, tok)) =
                {<<1, k, <<row.req, row.from + k>>>> : k \in 0..(tok - row.lo)}
           /\ Weighed(0, Cached(row)) \subseteq AllTerms
           /\ Weighed(1, Fresh(row, tok)) \subseteq AllTerms
           /\ Weighed(1, Fresh(row, tok)) # {}
           /\ 0..(row.from - 1) \subseteq Held(row)
<1>1. /\ row.lo \in Nat /\ row.hi \in Nat /\ row.from \in Nat /\ row.req \in Requests
      /\ Ctx(row) = row.from + (row.hi - row.lo) /\ Ctx(row) <= MaxLen
  BY CtxFacts
<1>2. PICK K : K = 0..(row.from - 1)
  OBVIOUS
<1>3. K \subseteq Held(row)
  <2>1. ASSUME NEW k \in K PROVE k \in Held(row)
    <3>1. k \in 0..(Ctx(row) - 1)
      BY <1>1, <1>2
    <3> QED
      BY <1>1, <3>1 DEF RowOK, Held
  <2> QED
    BY <2>1
<1>4. 0 \in Labels /\ 1 \in Labels
  BY PagedAssumption DEF Labels
<1>5. Weighed(0, Cached(row)) \subseteq AllTerms
  BY <1>2, <1>3, <1>4, OwnTerms DEF Cached
<1>6. Weighed(0, Cached(row)) = {<<0, k, <<row.req, k>>>> : k \in 0..(row.from - 1)}
  BY DEF Cached, Weighed, Own
<1>7. PICK terms : terms = Weighed(1, Fresh(row, tok))
  OBVIOUS
<1>8. terms = {<<1, k, <<row.req, row.from + k>>>> : k \in 0..(tok - row.lo)}
  BY <1>7 DEF Weighed, Fresh
<1>9. terms # {}
  <2>1. 0 \in 0..(tok - row.lo)
    BY <1>1
  <2> QED
    BY <1>8, <2>1
<1>10. terms \subseteq AllTerms
  <2>1. PICK q : q = row.req
    OBVIOUS
  <2>2. ASSUME NEW k \in 0..(tok - row.lo)
        PROVE  <<1, k, <<q, row.from + k>>>> \in AllTerms
    <3>1. k \in Positions /\ row.from + k \in Positions /\ q \in Requests
      BY <1>1, <2>1, PagedAssumption DEF Positions
    <3> QED
      BY <1>4, <3>1 DEF AllTerms, Keys
  <2> QED
    BY <1>8, <2>1, <2>2
<1> QED
  BY <1>2, <1>3, <1>5, <1>6, <1>7, <1>8, <1>9, <1>10

SideKernel(side) == IF side = 0 THEN "ctx" ELSE "new"
SideValue(side, row, tok) ==
    IF side = 0 THEN [terms |-> Weighed(0, Cached(row)), sinks |-> 0]
    ELSE [terms |-> Weighed(1, Fresh(row, tok)), sinks |-> 1]
SidesWith(side, tok, value) == [sides EXCEPT ![side][tok] = value]

\* The buffers of the two sides.
LEMMA OneSide ==
    ASSUME CallsInv, TypeOK, BuffersInv, NEW side \in 0..1, NEW tok \in Tokens, NEW s \in Chunks(call.rows),
           tok \in TokensOf(call.rows, s), NEW value \in Results,
           Runs(SideKernel(side), tok),
           sides' = SidesWith(side, tok, value),
           value = SideValue(side, call.rows[s], tok)
    PROVE  SidesInv' /\ sides' \in [0..1 -> [Tokens -> Results]]
<1>0. PICK kernel : kernel = SideKernel(side)
  OBVIOUS
<1>1. UNCHANGED <<window, call>>
      /\ \A k, j : <<k, j>> \in todo' <=> <<k, j>> \in todo /\ ~(k = kernel /\ j = tok)
  <2>1. Runs(kernel, tok)
    BY <1>0
  <2> QED
    BY <2>1, WorkLeft
<1>2. sides \in [0..1 -> [Tokens -> Results]] /\ 0 \in 0..1 /\ 1 \in 0..1
  BY BufferTypes
<1>3. /\ sides'[side][tok] = value
      /\ \A d \in 0..1, t \in Tokens : ~(d = side /\ t = tok) => sides'[d][t] = sides[d][t]
      /\ sides' \in [0..1 -> [Tokens -> Results]]
  BY <1>2 DEF SidesWith
<1>4. SidesInv
  BY DEF BuffersInv
<1>5. ASSUME call.form = "cascade", NEW u \in Chunks(call.rows), NEW t \in TokensOf(call.rows, u)
      PROVE  /\ <<"ctx", t>> \notin todo' =>
                  sides'[0][t] = [terms |-> Weighed(0, Cached(call.rows[u])), sinks |-> 0]
             /\ <<"new", t>> \notin todo' =>
                  sides'[1][t] = [terms |-> Weighed(1, Fresh(call.rows[u], t)), sinks |-> 1]
  <2>1. u \in Rows /\ s \in Rows
    BY DEF Chunks, Rows
  <2>2. t \in Tokens /\ (t = tok => u = s)
    BY <2>1, RowTokens
  <2>3. /\ <<"ctx", t>> \notin todo =>
             sides[0][t] = [terms |-> Weighed(0, Cached(call.rows[u])), sinks |-> 0]
        /\ <<"new", t>> \notin todo =>
             sides[1][t] = [terms |-> Weighed(1, Fresh(call.rows[u], t)), sinks |-> 1]
    BY <1>4, <1>5 DEF SidesInv
  <2>4. CASE side = 0
    <3>1. kernel = "ctx" /\ sides'[1][t] = sides[1][t]
      BY <1>0, <1>2, <1>3, <2>2, <2>4 DEF SideKernel
    <3>2. <<"new", t>> \notin todo' => <<"new", t>> \notin todo
      BY <1>1, <3>1
    <3>3. CASE t = tok
      BY <1>3, <2>2, <2>3, <2>4, <3>1, <3>2, <3>3 DEF SideValue
    <3>4. CASE t # tok
      <4>1. sides'[0][t] = sides[0][t] /\ (<<"ctx", t>> \notin todo' => <<"ctx", t>> \notin todo)
        BY <1>1, <1>2, <1>3, <2>2, <3>4
      <4> QED
        BY <2>3, <3>1, <3>2, <4>1
    <3> QED
      BY <3>3, <3>4
  <2>5. CASE side = 1
    <3>1. kernel = "new" /\ sides'[0][t] = sides[0][t]
      BY <1>0, <1>2, <1>3, <2>2, <2>5 DEF SideKernel
    <3>2. <<"ctx", t>> \notin todo' => <<"ctx", t>> \notin todo
      BY <1>1, <3>1
    <3>3. CASE t = tok
      BY <1>3, <2>2, <2>3, <2>5, <3>1, <3>2, <3>3 DEF SideValue
    <3>4. CASE t # tok
      <4>1. sides'[1][t] = sides[1][t] /\ (<<"new", t>> \notin todo' => <<"new", t>> \notin todo)
        BY <1>1, <1>2, <1>3, <2>2, <3>4
      <4> QED
        BY <2>3, <3>1, <3>2, <4>1
    <3> QED
      BY <3>3, <3>4
  <2> QED
    BY <2>4, <2>5
<1> QED
  BY <1>1, <1>3, <1>5 DEF SidesInv

\* The side of the cached keys.
LEMMA CtxStep ==
    ASSUME IInv, NEW tok \in Tokens, CtxToken(tok)
    PROVE  IInv'
<1> USE DEF IInv
<1>1. Runs("ctx", tok) /\ UNCHANGED <<cache, dense, parts, out>>
  BY DEF CtxToken
<1>2. PICK s \in Rows : /\ tok \in TokensOf(call.rows, s) /\ FindSeq(tok) = s
                        /\ s \in 1..MaxRows /\ call.rows[s] \in RowSet /\ RowOK(call.rows[s])
                        /\ tok \in call.rows[s].lo..(call.rows[s].hi - 1)
                        /\ s \in Chunks(call.rows) /\ call.form = "cascade"
  BY <1>1, TokenRow
<1>3. PICK row : row = call.rows[s]
  OBVIOUS
<1>4. /\ row \in RowSet /\ RowOK(row) /\ tok \in row.lo..(row.hi - 1)
      /\ row.lo \in Nat /\ row.hi \in Nat /\ row.from \in Nat /\ row.prefill /\ row.req # Pad
      /\ Ctx(row) = row.from + (row.hi - row.lo)
  <2>1. row \in RowSet /\ RowOK(row) /\ tok \in row.lo..(row.hi - 1) /\ row.prefill
    BY <1>2, <1>3 DEF Chunks
  <2> QED
    BY <2>1, CtxFacts
<1>5. window = -1
  BY <1>2, RunningCall DEF CallOK
<1>6. PICK K : K = 0..(row.from - 1)
  OBVIOUS
<1>7. Band(tok - row.lo, row.hi - row.lo, row.from, FALSE, -1, -1) = K
  BY <1>4, <1>6 DEF Band
<1>8. K \subseteq Held(row)
  BY <1>4, <1>5, <1>6, SideTerms
<1>9. AtPages(row, K) = Cached(row)
  <2>1. \A item \in todo : item[1] # "save"
    BY <1>1, Saved
  <2> QED
    BY <1>2, <1>3, <1>6, <1>8, <2>1, PagesRead DEF Cached
<1>10. PICK value : value = [terms |-> Weighed(0, Cached(row)), sinks |-> 0]
  OBVIOUS
<1>11. sides' = [sides EXCEPT ![0][tok] = value]
  <2>1. sides' = [sides EXCEPT ![0][tok] =
                    [terms |-> Weighed(0, AtPages(row, Band(tok - row.lo, row.hi - row.lo, row.from,
                                                            FALSE, -1, -1))),
                     sinks |-> 0]]
    BY <1>2, <1>3 DEF CtxToken, Query
  <2> QED
    BY <1>7, <1>9, <1>10, <2>1
<1>12. value \in Results
  <2>1. Weighed(0, Cached(row)) \subseteq AllTerms
    BY <1>4, <1>5, SideTerms
  <2> QED
    BY <1>10, <2>1 DEF Results, AllTerms
<1>13. SidesInv' /\ sides' \in [0..1 -> [Tokens -> Results]]
  <2>1. 0 \in 0..1 /\ Runs(SideKernel(0), tok)
    BY <1>1 DEF SideKernel
  <2>2. value = SideValue(0, call.rows[s], tok)
    BY <1>3, <1>10 DEF SideValue
  <2>3. s \in Chunks(call.rows) /\ tok \in TokensOf(call.rows, s)
    BY <1>2
  <2>4. sides' = SidesWith(0, tok, value)
    BY <1>11 DEF SidesWith
  <2> QED
    BY <1>12, <2>1, <2>2, <2>3, <2>4, OneSide
<1>14. BuffersInv'
  BY <1>1, <1>13, BuffersKept DEF BuffersInv
<1> QED
  BY <1>1, <1>13, <1>14, BufferTypes, KernelStep

\* The side of the chunk's own keys, which are contiguous and need no page.
LEMMA NewStep ==
    ASSUME IInv, NEW tok \in Tokens, NewToken(tok)
    PROVE  IInv'
<1> USE DEF IInv
<1>1. Runs("new", tok) /\ UNCHANGED <<cache, dense, parts, out>>
  BY DEF NewToken
<1>2. PICK s \in Rows : /\ tok \in TokensOf(call.rows, s) /\ FindSeq(tok) = s
                        /\ s \in 1..MaxRows /\ call.rows[s] \in RowSet /\ RowOK(call.rows[s])
                        /\ tok \in call.rows[s].lo..(call.rows[s].hi - 1)
                        /\ s \in Chunks(call.rows) /\ call.form = "cascade"
  BY <1>1, TokenRow
<1>3. PICK row : row = call.rows[s]
  OBVIOUS
<1>4. /\ row \in RowSet /\ RowOK(row) /\ tok \in row.lo..(row.hi - 1)
      /\ row.lo \in Nat /\ row.hi \in Nat /\ row.from \in Nat /\ row.prefill /\ row.req # Pad
      /\ row.req \in Requests /\ Ctx(row) = row.from + (row.hi - row.lo) /\ Ctx(row) <= MaxLen
  <2>1. row \in RowSet /\ RowOK(row) /\ tok \in row.lo..(row.hi - 1) /\ row.prefill
    BY <1>2, <1>3 DEF Chunks
  <2> QED
    BY <2>1, CtxFacts
<1>5. Band(tok - row.lo, row.hi - row.lo, row.hi - row.lo, TRUE, -1, -1) = 0..(tok - row.lo)
  BY <1>4 DEF Band
<1>6. PICK terms : terms = Weighed(1, Fresh(row, tok))
  OBVIOUS
<1>7. sides' = [sides EXCEPT ![1][tok] = WithSink(terms)]
  <2>1. sides' = [sides EXCEPT ![1][tok] =
                    WithSink(Weighed(1, [k \in Band(tok - row.lo, row.hi - row.lo, row.hi - row.lo,
                                                    TRUE, -1, -1) |-> KeyOf(row, row.from + k)]))]
    BY <1>2, <1>3 DEF NewToken, Query
  <2>2. [k \in 0..(tok - row.lo) |-> KeyOf(row, row.from + k)] = Fresh(row, tok)
    BY DEF KeyOf, Fresh
  <2> QED
    BY <1>5, <1>6, <2>1, <2>2
<1>8. window = -1
  BY <1>2, RunningCall DEF CallOK
<1>9. terms # {}
  BY <1>4, <1>6, <1>8, SideTerms
<1>10. terms \subseteq AllTerms
  BY <1>4, <1>6, <1>8, SideTerms
<1>11. WithSink(terms) \in Results /\ WithSink(terms) = [terms |-> terms, sinks |-> 1]
  BY <1>9, <1>10, SinkType DEF WithSink
<1>12. SidesInv' /\ sides' \in [0..1 -> [Tokens -> Results]]
  <2>1. 1 \in 0..1 /\ Runs(SideKernel(1), tok)
    BY <1>1 DEF SideKernel
  <2>2. PICK value : value = WithSink(terms)
    OBVIOUS
  <2>3. value = SideValue(1, call.rows[s], tok) /\ value \in Results
    BY <1>3, <1>6, <1>11, <2>2 DEF SideValue
  <2>4. sides' = SidesWith(1, tok, value)
    BY <1>7, <2>2 DEF SidesWith
  <2> QED
    BY <1>2, <2>1, <2>3, <2>4, OneSide
<1>13. BuffersInv'
  BY <1>1, <1>12, BuffersKept DEF BuffersInv
<1> QED
  BY <1>1, <1>12, <1>13, BufferTypes, KernelStep

\* The merge finds both sides, and together they hold each key once.
LEMMA MergedExact ==
    ASSUME NEW row \in RowSet, RowOK(row), row.req # Pad, window = -1,
           NEW tok \in row.lo..(row.hi - 1), NEW terms,
           terms = Weighed(0, Cached(row)) \cup Weighed(1, Fresh(row, tok))
    PROVE  EachKey(terms, row.req, First(row, tok)..Last(row, tok))
<1>1. PICK q : q = row.req
  OBVIOUS
<1>2. PICK from \in Nat : from = row.from
  BY CtxFacts
<1>3. PICK n \in Nat : n = tok - row.lo
  BY CtxFacts
<1>4. First(row, tok) = 0 /\ Last(row, tok) = from + n
  BY <1>2, <1>3 DEF First, Last
<1>5. \A x \in terms :
        \/ \E k \in 0..(from - 1) : x = <<0, k, <<q, k>>>>
        \/ \E k \in 0..n : x = <<1, k, <<q, from + k>>>>
  BY <1>1, <1>2, <1>3, SideTerms
<1>6. /\ \A k \in 0..(from - 1) : <<0, k, <<q, k>>>> \in terms
      /\ \A k \in 0..n : <<1, k, <<q, from + k>>>> \in terms
  <2>1. \A k \in 0..(from - 1) : <<0, k, <<q, k>>>> \in Weighed(0, Cached(row))
    BY <1>1, <1>2, SideTerms
  <2>2. \A k \in 0..n : <<1, k, <<q, from + k>>>> \in Weighed(1, Fresh(row, tok))
    BY <1>1, <1>2, <1>3, SideTerms
  <2> QED
    BY <2>1, <2>2
<1>7. ASSUME NEW x \in terms
      PROVE  \E m \in 0..(from + n) :
               /\ x[3] = <<q, m>>
               /\ x = IF m < from THEN <<0, m, <<q, m>>>> ELSE <<1, m - from, <<q, m>>>>
  <2>1. CASE \E k \in 0..(from - 1) : x = <<0, k, <<q, k>>>>
    <3>1. PICK k \in 0..(from - 1) : x = <<0, k, <<q, k>>>>
      BY <2>1
    <3>2. k \in 0..(from + n) /\ k < from /\ x[3] = <<q, k>>
      BY <3>1
    <3> QED
      BY <3>1, <3>2
  <2>2. CASE \E k \in 0..n : x = <<1, k, <<q, from + k>>>>
    <3>1. PICK k \in 0..n : x = <<1, k, <<q, from + k>>>>
      BY <2>2
    <3>2. from + k \in 0..(from + n) /\ ~(from + k < from) /\ x[3] = <<q, from + k>>
          /\ (from + k) - from = k
      BY <3>1
    <3> QED
      BY <3>1, <3>2
  <2> QED
    BY <1>5, <2>1, <2>2
<1>8. ASSUME NEW m \in 0..(from + n)
      PROVE  \E x \in terms : x[3] = <<q, m>>
  <2>1. CASE m < from
    <3>1. <<0, m, <<q, m>>>> \in terms /\ <<0, m, <<q, m>>>>[3] = <<q, m>>
      BY <1>6, <2>1
    <3> QED
      BY <3>1
  <2>2. CASE ~(m < from)
    <3>1. m - from \in 0..n /\ from + (m - from) = m
      BY <2>2
    <3>2. <<1, m - from, <<q, m>>>> \in terms /\ <<1, m - from, <<q, m>>>>[3] = <<q, m>>
      BY <1>6, <3>1
    <3> QED
      BY <3>2
  <2> QED
    BY <2>1, <2>2
<1>9. ASSUME NEW x \in terms, NEW y \in terms, x[3] = y[3]
      PROVE  x = y
  <2>1. PICK m \in 0..(from + n) :
          /\ x[3] = <<q, m>>
          /\ x = IF m < from THEN <<0, m, <<q, m>>>> ELSE <<1, m - from, <<q, m>>>>
    BY <1>7
  <2>2. PICK l \in 0..(from + n) :
          /\ y[3] = <<q, l>>
          /\ y = IF l < from THEN <<0, l, <<q, l>>>> ELSE <<1, l - from, <<q, l>>>>
    BY <1>7
  <2>3. m = l
    BY <1>9, <2>1, <2>2
  <2> QED
    BY <2>1, <2>2, <2>3
<1>10. {x[3] : x \in terms} \subseteq {<<q, m>> : m \in 0..(from + n)}
  BY <1>7
<1>11. {<<q, m>> : m \in 0..(from + n)} \subseteq {x[3] : x \in terms}
  BY <1>8
<1> QED
  BY <1>1, <1>4, <1>9, <1>10, <1>11 DEF EachKey

LEMMA MergeStep ==
    ASSUME IInv, NEW tok \in Tokens, MergeToken(tok)
    PROVE  IInv'
<1> USE DEF IInv
<1>1. Runs("merge", tok) /\ UNCHANGED <<cache, dense, parts, sides>>
  BY DEF MergeToken
<1>2. PICK s \in Rows : /\ tok \in TokensOf(call.rows, s) /\ FindSeq(tok) = s
                        /\ s \in 1..MaxRows /\ call.rows[s] \in RowSet /\ RowOK(call.rows[s])
                        /\ tok \in call.rows[s].lo..(call.rows[s].hi - 1)
                        /\ s \in Chunks(call.rows) /\ call.form = "cascade"
  BY <1>1, TokenRow
<1>3. PICK row : row = call.rows[s]
  OBVIOUS
<1>4. /\ row \in RowSet /\ RowOK(row) /\ tok \in row.lo..(row.hi - 1) /\ row.req # Pad
  <2>1. row \in RowSet /\ RowOK(row) /\ tok \in row.lo..(row.hi - 1) /\ row.prefill
    BY <1>2, <1>3 DEF Chunks
  <2> QED
    BY <2>1, CtxFacts
<1>5. window = -1
  BY <1>2, RunningCall DEF CallOK
<1>6. /\ UNCHANGED <<window, call>>
      /\ \A k, j : <<k, j>> \in todo' <=> <<k, j>> \in todo /\ ~(k = "merge" /\ j = tok)
  BY <1>1, WorkLeft
<1>7. <<"ctx", tok>> \notin todo /\ <<"new", tok>> \notin todo
  <2>1. \A item \in todo : item[1] # "ctx" /\ item[1] # "new"
    BY <1>1, WorkLeft, Order
  <2> QED
    BY <2>1
<1>8. /\ sides[0][tok] = [terms |-> Weighed(0, Cached(row)), sinks |-> 0]
      /\ sides[1][tok] = [terms |-> Weighed(1, Fresh(row, tok)), sinks |-> 1]
  BY <1>2, <1>3, <1>7 DEF BuffersInv, SidesInv
<1>9. PICK terms : terms = Weighed(0, Cached(row)) \cup Weighed(1, Fresh(row, tok))
  OBVIOUS
<1>10. EachKey(terms, row.req, First(row, tok)..Last(row, tok))
  BY <1>4, <1>5, <1>9, MergedExact
<1>11. terms \subseteq AllTerms /\ terms # {}
  BY <1>4, <1>5, <1>9, SideTerms
<1>12. out' = [out EXCEPT ![tok] = WithSink(terms)]
  <2>1. WithSink(terms) = [terms |-> sides[0][tok].terms \cup sides[1][tok].terms,
                           sinks |-> sides[0][tok].sinks + sides[1][tok].sinks]
    BY <1>8, <1>9, <1>11 DEF WithSink
  <2> QED
    BY <2>1 DEF MergeToken
<1>13. out \in [Tokens -> Results]
  BY BufferTypes
<1>14. out'[tok] = WithSink(terms) /\ \A t \in Tokens : t # tok => out'[t] = out[t]
  BY <1>12, <1>13
<1>15. AttendsTo(out'[tok], row.req, First(row, tok), Last(row, tok))
  BY <1>4, <1>10, <1>14, WindowExact
<1>16. Exact(call.rows[s], tok)'
  BY <1>3, <1>4, <1>6, <1>15, ExactIs
<1>17. \A u \in Rows : tok \in TokensOf(call.rows, u) => u = s
  BY <1>2, RowTokens
<1>18. \A u \in Rows : \A t \in TokensOf(call.rows, u) : Finished(u, t)' /\ ~Finished(u, t) => t = tok
  BY <1>6 DEF Finished
<1>19. OutInv'
  BY <1>1, <1>14, <1>16, <1>17, <1>18, OutOne
<1>20. BuffersInv'
  BY <1>1, <1>19, BuffersKept DEF BuffersInv
<1>21. out' \in [Tokens -> Results]
  BY <1>11, <1>12, <1>13, SinkType
<1> QED
  BY <1>1, <1>20, <1>21, BufferTypes, KernelStep

\* A split weighs its share of the window.
LEMMA PartStep ==
    ASSUME IInv, NEW s \in 1..MaxRows, NEW sp \in SplitIds, PartSplit(s, sp)
    PROVE  IInv'
<1> USE DEF IInv
<1>1. Runs("part", <<s, sp>>) /\ UNCHANGED <<cache, dense, sides, out>>
  BY DEF PartSplit
<1>2. /\ UNCHANGED <<window, call>> /\ <<"part", <<s, sp>>>> \in Work(call)
      /\ \A k, j : <<k, j>> \in todo' <=> <<k, j>> \in todo /\ ~(k = "part" /\ j = <<s, sp>>)
  BY <1>1, WorkLeft
<1>3. s \in Steps(call.rows)
  <2>1. <<s, sp>> \in Steps(call.rows) \X SplitIds
    BY <1>2, WorkItems, RunningCall
  <2> QED
    BY <2>1
<1>4. PICK row : row = call.rows[s]
  OBVIOUS
<1>5. s \in Rows /\ row \in RowSet /\ RowOK(row) /\ ~row.prefill
  BY <1>3, <1>4, RunningCall DEF Steps, Chunks, Rows
<1>6. PICK K : K = SplitKeys(Ctx(row), window, Splits, sp)
  OBVIOUS
<1>7. K \subseteq Held(row)
  BY <1>5, <1>6, SplitHeld
<1>8. AtPages(row, K) = Own(row, K)
  <2>1. \A item \in todo : item[1] # "save"
    BY <1>1, Saved
  <2> QED
    BY <1>4, <1>5, <1>7, <2>1, PagesRead
<1>9. PICK terms : terms = Weighed(sp, Own(row, K))
  OBVIOUS
<1>10. parts' = [parts EXCEPT ![s][sp] = terms]
  BY <1>4, <1>6, <1>8, <1>9 DEF PartSplit, Partial
<1>11. parts \in [1..MaxRows -> [SplitIds -> Terms]]
  BY BufferTypes
<1>12. /\ parts'[s][sp] = terms
       /\ \A u \in 1..MaxRows, v \in SplitIds : <<u, v>> # <<s, sp>> => parts'[u][v] = parts[u][v]
  BY <1>10, <1>11
<1>13. PartsInv'
  <2>1. ASSUME NEW u \in Steps(call.rows), NEW v \in SplitIds, <<"part", <<u, v>>>> \notin todo'
        PROVE  parts'[u][v] = Weighed(v, Own(call.rows[u], SplitKeys(Ctx(call.rows[u]), window, Splits, v)))
    <3>1. CASE <<u, v>> = <<s, sp>>
      BY <1>4, <1>6, <1>9, <1>12, <3>1
    <3>2. CASE <<u, v>> # <<s, sp>>
      <4>1. u \in 1..MaxRows
        BY RunningCall DEF Steps, Chunks, Rows
      <4>2. <<"part", <<u, v>>>> \notin todo
        BY <1>2, <2>1, <3>2
      <4> QED
        BY <1>12, <3>2, <4>1, <4>2 DEF BuffersInv, PartsInv
    <3> QED
      BY <3>1, <3>2
  <2> QED
    BY <1>2, <2>1 DEF PartsInv
<1>14. terms \in Terms
  <2>1. sp \in Labels
    BY PagedAssumption DEF Labels, SplitIds
  <2> QED
    BY <1>5, <1>7, <1>9, <2>1, OwnTerms DEF Terms, AllTerms
<1>15. parts' \in [1..MaxRows -> [SplitIds -> Terms]]
  BY <1>10, <1>11, <1>14
<1>16. BuffersInv'
  BY <1>1, <1>13, BuffersKept DEF BuffersInv
<1> QED
  BY <1>1, <1>15, <1>16, BufferTypes, KernelStep

\* Together the splits hold every key of the window once.
LEMMA SplitsExact ==
    ASSUME TypeOK, NEW row \in RowSet, RowOK(row), ~row.prefill, row.req # Pad, NEW terms,
           terms = UNION {Weighed(sp, Own(row, SplitKeys(Ctx(row), window, Splits, sp))) :
                            sp \in SplitIds}
    PROVE  EachKey(terms, row.req, First(row, row.lo)..Last(row, row.lo))
<1>1. PICK q : q = row.req
  OBVIOUS
<1>2. PICK ctx \in Nat : ctx = Ctx(row)
  BY CtxFacts
<1>3. PICK left \in Lefts : left = window
  BY WindowType
<1>4. /\ DecodeLo(ctx, left) = First(row, row.lo) /\ ctx = Last(row, row.lo) + 1
      /\ DecodeLo(ctx, left) \in Nat
  BY <1>2, <1>3, DecodeSpan, SplitBounds
<1>5. \A x : x \in terms <=>
               \E sp \in SplitIds : \E k \in SplitKeys(ctx, left, Splits, sp) : x = <<sp, k, <<q, k>>>>
  <2>1. \A x : x \in terms <=>
                 \E sp \in SplitIds : x \in Weighed(sp, Own(row, SplitKeys(ctx, left, Splits, sp)))
    BY <1>2, <1>3
  <2>2. ASSUME NEW sp \in SplitIds, NEW x
        PROVE  x \in Weighed(sp, Own(row, SplitKeys(ctx, left, Splits, sp))) <=>
                 \E k \in SplitKeys(ctx, left, Splits, sp) : x = <<sp, k, <<q, k>>>>
    BY <1>1 DEF Weighed, Own
  <2> QED
    BY <2>1, <2>2
<1>6. \A sp \in SplitIds : \A k \in SplitKeys(ctx, left, Splits, sp) :
        k \in First(row, row.lo)..Last(row, row.lo)
  <2>1. SUFFICES ASSUME NEW sp \in SplitIds, NEW k \in SplitKeys(ctx, left, Splits, sp)
                 PROVE  k \in First(row, row.lo)..Last(row, row.lo)
    OBVIOUS
  <2>2. k \in Int
    BY DEF SplitKeys
  <2>3. /\ sp * PerSplit(ctx, left, Splits) \in Nat
        /\ DecodeLo(ctx, left) + sp * PerSplit(ctx, left, Splits) <= k
        /\ k < ctx
    BY <2>2, SplitIs
  <2>4. DecodeLo(ctx, left) <= k
    BY <1>4, <2>2, <2>3
  <2>5. First(row, row.lo) \in Int /\ Last(row, row.lo) \in Int
    BY CtxFacts, WindowType DEF First, Last
  <2> QED
    BY <1>4, <2>2, <2>3, <2>4, <2>5
<1>7. ASSUME NEW x \in terms
      PROVE  \E k \in First(row, row.lo)..Last(row, row.lo) : x[3] = <<q, k>>
  <2>1. PICK sp \in SplitIds : \E k \in SplitKeys(ctx, left, Splits, sp) : x = <<sp, k, <<q, k>>>>
    BY <1>5
  <2>2. PICK k \in SplitKeys(ctx, left, Splits, sp) : x = <<sp, k, <<q, k>>>>
    BY <2>1
  <2>3. x[3] = <<q, k>>
    BY <2>2
  <2> QED
    BY <1>6, <2>3
<1>8. ASSUME NEW k \in First(row, row.lo)..Last(row, row.lo)
      PROVE  \E x \in terms : x[3] = <<q, k>>
  <2>1. k \in Int /\ DecodeLo(ctx, left) <= k /\ k < ctx
    <3>1. First(row, row.lo) \in Int /\ Last(row, row.lo) \in Int
      BY CtxFacts, WindowType DEF First, Last
    <3> QED
      BY <1>4, <3>1
  <2>2. PICK sp \in SplitIds : k \in SplitKeys(ctx, left, Splits, sp)
    BY <2>1, SplitCovers
  <2>3. <<sp, k, <<q, k>>>> \in terms
    BY <1>5, <2>2
  <2>4. <<sp, k, <<q, k>>>>[3] = <<q, k>>
    OBVIOUS
  <2> QED
    BY <2>3, <2>4
<1>9. ASSUME NEW x \in terms, NEW y \in terms, x[3] = y[3]
      PROVE  x = y
  <2>1. PICK sp \in SplitIds : \E k \in SplitKeys(ctx, left, Splits, sp) : x = <<sp, k, <<q, k>>>>
    BY <1>5
  <2>2. PICK k \in SplitKeys(ctx, left, Splits, sp) : x = <<sp, k, <<q, k>>>>
    BY <2>1
  <2>3. PICK sq \in SplitIds : \E m \in SplitKeys(ctx, left, Splits, sq) : y = <<sq, m, <<q, m>>>>
    BY <1>5
  <2>4. PICK m \in SplitKeys(ctx, left, Splits, sq) : y = <<sq, m, <<q, m>>>>
    BY <2>3
  <2>5. x[3] = <<q, k>> /\ y[3] = <<q, m>>
    BY <2>2, <2>4
  <2>6. k = m
    <3>1. <<q, k>> = <<q, m>>
      BY <1>9, <2>5
    <3> QED
      BY <3>1
  <2>7. k \in Int
    BY DEF SplitKeys
  <2>8. sp = sq
    BY <2>2, <2>4, <2>6, <2>7, SplitOnce
  <2> QED
    BY <2>2, <2>4, <2>6, <2>8
<1>10. {x[3] : x \in terms} \subseteq {<<q, k>> : k \in First(row, row.lo)..Last(row, row.lo)}
  BY <1>7
<1>11. {<<q, k>> : k \in First(row, row.lo)..Last(row, row.lo)} \subseteq {x[3] : x \in terms}
  BY <1>8
<1> QED
  BY <1>1, <1>9, <1>10, <1>11 DEF EachKey

\* The merge of the splits: exact, and zero for padding.
LEMMA ReduceStep ==
    ASSUME IInv, NEW s \in 1..MaxRows, ReduceRow(s)
    PROVE  IInv'
<1> USE DEF IInv
<1>1. Runs("reduce", s) /\ UNCHANGED <<cache, dense, parts, sides>>
  BY DEF ReduceRow
<1>2. /\ UNCHANGED <<window, call>> /\ <<"reduce", s>> \in Work(call)
      /\ \A k, j : <<k, j>> \in todo' <=> <<k, j>> \in todo /\ ~(k = "reduce" /\ j = s)
  BY <1>1, WorkLeft
<1>3. s \in Steps(call.rows)
  BY <1>2, WorkItems, RunningCall
<1>4. PICK row : row = call.rows[s]
  OBVIOUS
<1>5. s \in Rows /\ row \in RowSet /\ RowOK(row) /\ ~row.prefill
  BY <1>3, <1>4, RunningCall DEF Steps, Chunks, Rows
<1>6. /\ row.lo \in Nat /\ row.hi = row.lo + 1 /\ row.hi <= MaxTokens
      /\ row.req = Pad => Ctx(row) = 0
  BY <1>5, CtxFacts DEF RowOK
<1>7. PICK lo \in Nat : lo = row.lo
  BY <1>6
<1>8. lo \in Tokens /\ lo \in TokensOf(call.rows, s)
  BY <1>4, <1>6, <1>7, PagedAssumption DEF Tokens, TokensOf
<1>9. PICK terms : terms = UNION {Weighed(sp, Own(row, SplitKeys(Ctx(row), window, Splits, sp))) :
                                    sp \in SplitIds}
  OBVIOUS
<1>10. \A sp \in SplitIds :
         parts[s][sp] = Weighed(sp, Own(row, SplitKeys(Ctx(row), window, Splits, sp)))
  <2>1. \A item \in todo : item[1] # "part"
    BY <1>1, WorkLeft, Order
  <2>2. \A sp \in SplitIds : <<"part", <<s, sp>>>> \notin todo
    BY <2>1
  <2> QED
    BY <1>3, <1>4, <2>2 DEF BuffersInv, PartsInv
<1>11. out' = [out EXCEPT ![lo] = WithSink(terms)]
  <2>1. UNION {parts[s][sp] : sp \in SplitIds} = terms
    BY <1>9, <1>10
  <2> QED
    BY <1>4, <1>7, <2>1 DEF ReduceRow
<1>12. out \in [Tokens -> Results]
  BY BufferTypes
<1>13. out'[lo] = WithSink(terms) /\ \A t \in Tokens : t # lo => out'[t] = out[t]
  BY <1>8, <1>11, <1>12
<1>14. Exact(call.rows[s], lo)'
  <2>1. CASE row.req = Pad
    <3>1. \A sp \in SplitIds : Weighed(sp, Own(row, SplitKeys(Ctx(row), window, Splits, sp))) = {}
      <4>1. SUFFICES ASSUME NEW sp \in SplitIds
                     PROVE  Weighed(sp, Own(row, SplitKeys(Ctx(row), window, Splits, sp))) = {}
        OBVIOUS
      <4>2. SplitKeys(Ctx(row), window, Splits, sp) \subseteq Held(row)
        BY <1>5, SplitHeld
      <4>3. SplitKeys(Ctx(row), window, Splits, sp) = {}
        BY <1>6, <2>1, <4>2 DEF Held
      <4> QED
        BY <4>3 DEF Weighed, Own
    <3>2. terms = {}
      BY <1>9, <3>1
    <3>3. out'[lo] = NoResult
      BY <1>13, <3>2 DEF WithSink, NoResult
    <3> QED
      BY <1>2, <1>4, <2>1, <3>3 DEF Exact
  <2>2. CASE row.req # Pad
    <3>1. EachKey(terms, row.req, First(row, lo)..Last(row, lo))
      BY <1>5, <1>7, <1>9, <2>2, SplitsExact
    <3>2. lo \in row.lo..(row.hi - 1)
      BY <1>6, <1>7
    <3>3. AttendsTo(out'[lo], row.req, First(row, lo), Last(row, lo))
      BY <1>5, <1>13, <2>2, <3>1, <3>2, WindowExact
    <3> QED
      BY <1>2, <1>4, <1>5, <2>2, <3>3, ExactIs
  <2> QED
    BY <2>1, <2>2
<1>15. \A u \in Rows : lo \in TokensOf(call.rows, u) => u = s
  BY <1>5, <1>8, RowTokens
<1>16. ASSUME NEW u \in Rows, NEW t \in TokensOf(call.rows, u), Finished(u, t)', ~Finished(u, t)
       PROVE  t = lo
  <2>1. u = s
    BY <1>2, <1>16 DEF Finished
  <2>2. t \in Int /\ row.lo <= t /\ t < row.hi
    BY <1>4, <1>5, <2>1, OwnerRight
  <2> QED
    BY <1>6, <1>7, <2>2
<1>17. OutInv'
  BY <1>1, <1>13, <1>14, <1>15, <1>16, OutOne
<1>18. BuffersInv'
  BY <1>1, <1>17, BuffersKept DEF BuffersInv
<1>19. terms \subseteq AllTerms
  <2>1. ASSUME NEW sp \in SplitIds
        PROVE  Weighed(sp, Own(row, SplitKeys(Ctx(row), window, Splits, sp))) \subseteq AllTerms
    <3>1. sp \in Labels
      BY PagedAssumption DEF Labels, SplitIds
    <3>2. SplitKeys(Ctx(row), window, Splits, sp) \subseteq Held(row)
      BY <1>5, SplitHeld
    <3> QED
      BY <1>5, <3>1, <3>2, OwnTerms
  <2> QED
    BY <1>9, <2>1
<1>20. out' \in [Tokens -> Results]
  BY <1>11, <1>12, <1>19, SinkType
<1> QED
  BY <1>1, <1>18, <1>20, BufferTypes, KernelStep

-----------------------------------------------------------------------------
(* The invariant, and what follows                                          *)

LEMMA InitStep == Init => IInv
<1> SUFFICES ASSUME Init PROVE IInv
  OBVIOUS
<1> USE DEF Init
<1>1. TypeOK
  <2>1. Junk.terms \in Terms /\ Junk \in Results
    BY DEF Terms, Results
  <2>2. table \in [Requests -> [Entries -> Pages \cup {-1}]]
    BY DEF NoTable
  <2>3. len \in [Requests -> 0..MaxLen] /\ Len(ahead) <= MaxAhead
    BY PagedAssumption
  <2> QED
    BY <2>1, <2>2, <2>3 DEF TypeOK
<1>2. /\ Rows = {} /\ Len(ahead) = 0 /\ Turns = {0} /\ CallAt(0) = call
      /\ DOMAIN call.rows = {}
  BY DEF Rows, Turns, CallAt
<1>3. TablesInv
  BY DEF TablesInv, NoTable
<1>4. CallsInv
  <2>1. call \in CallSet /\ ahead \in Seq(CallSet)
    BY DEF CallSet
  <2>2. CallOK(call)
    <3>1. Len(call.rows) = 0 /\ DOMAIN call.rows = {} /\ call.form = "paged"
      BY <1>2
    <3> QED
      BY <3>1, PagedAssumption DEF CallOK
  <2> QED
    BY <1>2, <2>1, <2>2 DEF CallsInv
<1>5. ReadInv
  BY <1>2 DEF ReadInv
<1>6. HostInv
  <2>1. \A r \in Requests : len[r] = 0
    OBVIOUS
  <2> QED
    BY <2>1 DEF HostInv
<1>7. BuffersInv
  BY <1>2 DEF BuffersInv, DenseInv, PartsInv, SidesInv, OutInv, Chunks, Steps
<1> QED
  BY <1>1, <1>3, <1>4, <1>5, <1>6, <1>7 DEF IInv

LEMMA NextStep == IInv /\ [Next]_vars => IInv'
<1> SUFFICES ASSUME IInv, [Next]_vars PROVE IInv'
  OBVIOUS
<1>1. CASE \E r \in Requests : Release(r)
  BY <1>1, ReleaseStep
<1>2. CASE \E r \in Requests, i \in Entries : Evict(r, i) \/ \E p \in Pages : Grow(r, i, p)
  BY <1>2, EvictStep, GrowStep
<1>3. CASE Submit
  BY <1>3, SubmitStep
<1>4. CASE Begin
  BY <1>4, BeginStep
<1>5. CASE \E tok \in Tokens : \/ SaveToken(tok) \/ PrefillToken(tok)
                              \/ CtxToken(tok) \/ NewToken(tok) \/ MergeToken(tok)
  BY <1>5, SaveStep, PrefillStep, CtxStep, NewStep, MergeStep
<1>6. CASE \E s \in 1..MaxRows : \/ GatherRow(s) \/ ReduceRow(s)
                                \/ \E sp \in SplitIds : PartSplit(s, sp)
  BY <1>6, GatherStep, ReduceStep, PartStep
<1>7. CASE UNCHANGED vars
  <2>1. UNCHANGED <<window, len, table, gone, ahead, call, todo, cache, dense, parts, sides, out>>
    BY <1>7 DEF vars
  <2>2. CallsInv' /\ ReadInv' /\ BuffersInv'
        /\ \A n \in Turns : \A a, r, k : Lasting(a, r, k, n) => Lasting(a, r, k, n)'
    BY <2>1, DeviceKept DEF IInv
  <2>3. HostInv'
    BY <2>1, <2>2, HostFrom DEF IInv
  <2>4. TypeOK' /\ TablesInv'
    BY <2>1 DEF IInv, TypeOK, TablesInv
  <2> QED
    BY <2>2, <2>3, <2>4 DEF IInv
<1> QED
  BY <1>1, <1>2, <1>3, <1>4, <1>5, <1>6, <1>7 DEF Next

\* The inductive invariant of PagedCacheInv holds of every run.
THEOREM PagedInvariant == Spec => []IInv
<1>1. Init => IInv
  BY InitStep
<1>2. IInv /\ [Next]_vars => IInv'
  BY NextStep
<1> QED
  BY <1>1, <1>2, PTL DEF Spec

\* Types: what any kernel weighs is some request's key, never memory that
\* nobody wrote or the zero of a page that is gone.
THEOREM PagedTypeCorrect == Spec => []TypeOK
<1>1. IInv => TypeOK
  BY DEF IInv
<1> QED
  BY <1>1, PagedInvariant, PTL

\* kv_cache_scatter_paged, kv_cache_gather_paged, paged_attention_prefill,
\* paged_attention_decode and merge_attn_states, driven as the contract asks:
\* every token of a finished call attends to exactly the keys of its stream
\* that its window reaches.
THEOREM AttentionIsExact == Spec => []AttentionExact
<1>1. IInv => AttentionExact
  <2>1. SUFFICES ASSUME IInv, todo = {}, NEW s \in Rows, NEW tok \in TokensOf(call.rows, s)
                 PROVE  Exact(call.rows[s], tok)
    BY DEF AttentionExact, Exact
  <2>2. Finished(s, tok)
    BY <2>1 DEF Finished
  <2> QED
    BY <2>1, <2>2 DEF IInv, BuffersInv, OutInv
<1> QED
  BY <1>1, PagedInvariant, PTL

\* Between calls every request's keys are in the pages it still has.
THEOREM KeysStay == Spec => []KeysKept
<1>1. IInv => KeysKept
  <2>1. SUFFICES ASSUME IInv, todo = {}, ahead = <<>>,
                        NEW r \in Requests \ gone, NEW k \in 0..(len[r] - 1),
                        table[r][k \div PageSize] >= 0
                 PROVE  cache[Address(table[r][k \div PageSize], k % PageSize)] = <<r, k>>
    BY DEF KeysKept
  <2>2. len[r] \in Nat /\ len[r] <= MaxLen /\ table[r] \in [Entries -> Pages \cup {-1}]
    BY <2>1, PagedAssumption DEF IInv, TypeOK
  <2>3. k \in Nat /\ k < MaxLen
    BY <2>2, PagedAssumption
  <2>4. table[r][k \div PageSize] # -1
    <3>1. ~(-1 >= 0)
      OBVIOUS
    <3> QED
      BY <2>1, <3>1
  <2>5. Len(ahead) = 0
    BY <2>1
  <2>6. Lasting(Spot(table[r], k), r, k, 0)
    BY <2>1, <2>4, <2>5 DEF IInv, HostInv
  <2>7. \A a, q, m : ~Writes(0, a, q, m)
    BY <2>1 DEF Writes, RowWrites
  <2>8. \A i \in 0..0 : i = 0
    OBVIOUS
  <2>9. cache[Spot(table[r], k)] = <<r, k>>
    BY <2>6, <2>7, <2>8 DEF Lasting
  <2> QED
    BY <2>9 DEF Spot
<1> QED
  BY <1>1, PagedInvariant, PTL

=============================================================================
