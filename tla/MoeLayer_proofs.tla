-------------------------- MODULE MoeLayer_proofs --------------------------
(***************************************************************************)
(* Proofs about MoePermute and the layer it is part of, for any number of  *)
(* tokens, choices, experts and calls, and any routing.                    *)
(*                                                                         *)
(* The invariant of the sort counts: the histogram counts the pairs it has *)
(* seen, the scan's sum counts the pairs of the experts it has passed, and *)
(* a cursor has moved by the number of pairs that claimed a row of its     *)
(* expert.  Start(e) is therefore where the segment of e begins, although  *)
(* the cursor itself keeps moving.  The invariant of the layer adds what   *)
(* each buffer holds once the kernels before have run.                     *)
(***************************************************************************)
EXTENDS MoeLayer, FiniteSetTheorems, FunctionTheorems, TLAPS

Total == NTokens * TopK

ValidPairs == {p \in Pairs : Valid(p)}
PassedPairs == {p \in Pairs : ids[p] \in Experts \ todo}
Claimed(e) == {p \in PairsOf(e) : dst[p] # -1}
Start(e) == cursors[e] - Cardinality(Claimed(e))

Placing == phase = "scatter" \/ (phase = "idle" /\ call > 0)

\* Work-items of the kernel that runs.
TodoInv ==
    /\ phase = "idle" => todo = {}
    /\ phase # "idle" => call > 0
    /\ phase \in {"zero", "scan"} => todo \subseteq Experts
    /\ phase \in {"count", "scatter"} => todo \subseteq Pairs
    /\ ~Placing => \A p \in Pairs : dst[p] = -1

RowsInv ==
    /\ phase = "zero" => \A e \in Experts \ todo : rows[e] = 0
    /\ phase = "count" =>
          \A e \in Experts : rows[e] = Cardinality(PairsOf(e) \ todo)
    /\ phase = "scan" \/ Placing =>
          \A e \in Experts : rows[e] = Cardinality(PairsOf(e))

ScanInv ==
    phase = "scan" =>
        /\ \A e \in Experts \ todo, f \in todo : e < f
        /\ acc = Cardinality(PassedPairs)
        /\ \A e \in Experts \ todo : cursors[e] + rows[e] <= acc
        /\ \A e, f \in Experts \ todo : e < f => cursors[e] + rows[e] <= cursors[f]

ClaimInv ==
    Placing =>
        /\ \A e \in Experts : /\ 0 <= Start(e)
                              /\ Start(e) + rows[e] <= Cardinality(ValidPairs)
        /\ \A e, f \in Experts : e < f => Start(e) + rows[e] <= Start(f)
        /\ \A p \in Pairs : dst[p] # -1 => Valid(p)
        /\ \A p \in Pairs, e \in Experts : dst[p] # -1 /\ ids[p] = e =>
              Start(e) <= dst[p] /\ dst[p] < cursors[e]
        /\ ClaimsDistinct

GatherInv ==
    Placing =>
        \A p \in Pairs \ todo :
            IF Valid(p) THEN /\ dst[p] # -1
                             /\ rowMap[p] = dst[p]
                             /\ permuted[dst[p]] = Hidden(call, Token(p))
            ELSE rowMap[p] = -1

SortInv == TypeOK /\ TodoInv /\ RowsInv /\ ScanInv /\ ClaimInv /\ GatherInv

-----------------------------------------------------------------------------
(* Counting                                                                 *)

LEMMA TotalNat == Total \in Nat /\ Pairs = 0..(Total - 1) /\ Rows = Pairs
<1>1. Total \in Nat
  BY ShapeAssumption DEF Total
<1> QED
  BY <1>1 DEF Pairs, Rows, Total

LEMMA PairsFinite ==
    /\ IsFiniteSet(Pairs) /\ Cardinality(Pairs) = Total
    /\ \A S : S \subseteq Pairs =>
          /\ IsFiniteSet(S) /\ Cardinality(S) \in 0..Total
<1>1. IsFiniteSet(Pairs) /\ Cardinality(Pairs) = Total
  BY TotalNat, FS_Interval
<1>2. ASSUME NEW S, S \subseteq Pairs
      PROVE  IsFiniteSet(S) /\ Cardinality(S) \in 0..Total
  <2>1. IsFiniteSet(S) /\ Cardinality(S) <= Cardinality(Pairs)
    BY <1>1, <1>2, FS_Subset
  <2> QED
    BY <1>1, <2>1, FS_CardinalityType
<1> QED
  BY <1>1, <1>2

\* One more element, one more to count.
LEMMA OneMore ==
    ASSUME NEW S, S \subseteq Pairs, NEW p \in Pairs, p \notin S
    PROVE  Cardinality(S \cup {p}) = Cardinality(S) + 1
  BY PairsFinite, FS_AddElement

LEMMA SubsetCounts ==
    ASSUME NEW S, NEW R, S \subseteq R, R \subseteq Pairs
    PROVE  Cardinality(S) <= Cardinality(R)
  BY PairsFinite, FS_Subset

LEMMA IdsType == TypeOK => ids \in [Pairs -> Int]
  BY InputsAssumption DEF TypeOK

-----------------------------------------------------------------------------
LEMMA SortInit == Init => SortInv
<1> SUFFICES ASSUME Init PROVE SortInv
  OBVIOUS
<1> USE DEF Init
<1>1. TypeOK
  BY TotalNat, ShapeAssumption DEF TypeOK, Total
<1>2. TodoInv /\ RowsInv /\ ScanInv /\ ClaimInv /\ GatherInv
  BY DEF TodoInv, RowsInv, ScanInv, ClaimInv, GatherInv, Placing
<1> QED
  BY <1>1, <1>2 DEF SortInv

LEMMA CallStep == SortInv /\ Call => SortInv'
<1> SUFFICES ASSUME SortInv, Call PROVE SortInv'
  OBVIOUS
<1> USE DEF Call, SortInv
<1>1. TypeOK'
  BY ShapeAssumption DEF TypeOK
<1>2. phase' = "zero" /\ call' > 0 /\ ~Placing'
  BY ShapeAssumption DEF TypeOK, Placing
<1>3. TodoInv' /\ ScanInv' /\ ClaimInv' /\ GatherInv'
  BY <1>2 DEF TodoInv, ScanInv, ClaimInv, GatherInv
<1>4. RowsInv'
  BY <1>2 DEF RowsInv
<1> QED
  BY <1>1, <1>3, <1>4

LEMMA ZeroStep ==
    ASSUME SortInv, NEW e \in Experts, Zero(e)
    PROVE  SortInv'
<1> USE DEF Zero, SortInv
<1>1. TypeOK'
  BY TotalNat DEF TypeOK, Total
<1>2. TodoInv' /\ ScanInv' /\ ClaimInv' /\ GatherInv'
  BY DEF TodoInv, ScanInv, ClaimInv, GatherInv, Placing
<1>3. RowsInv'
  BY DEF RowsInv, Placing, TypeOK
<1> QED
  BY <1>1, <1>2, <1>3

LEMMA CountStep ==
    ASSUME SortInv, NEW p \in Pairs, Count(p)
    PROVE  SortInv'
<1> USE DEF Count, SortInv
<1>1. \A e \in Experts :
         rows'[e] = Cardinality(PairsOf(e) \ todo') /\ rows'[e] \in 0..Total
  <2> SUFFICES ASSUME NEW e \in Experts
               PROVE  /\ rows'[e] = Cardinality(PairsOf(e) \ todo')
                      /\ rows'[e] \in 0..Total
    OBVIOUS
  <2>1. rows[e] = Cardinality(PairsOf(e) \ todo)
    BY DEF RowsInv
  <2>2. PairsOf(e) \ todo' \subseteq Pairs
    BY DEF PairsOf
  <2>3. CASE ids[p] = e
    <3>1. PairsOf(e) \ todo' = (PairsOf(e) \ todo) \cup {p}
      BY <2>3 DEF PairsOf
    <3>2. rows'[e] = rows[e] + 1
      BY <2>3 DEF Valid, TypeOK
    <3>3. Cardinality(PairsOf(e) \ todo') = Cardinality(PairsOf(e) \ todo) + 1
      BY <3>1, OneMore DEF PairsOf
    <3> QED
      BY <2>1, <2>2, <3>2, <3>3, PairsFinite
  <2>4. CASE ids[p] # e
    <3>1. PairsOf(e) \ todo' = PairsOf(e) \ todo
      BY <2>4 DEF PairsOf
    <3>2. rows'[e] = rows[e]
      BY <2>4 DEF TypeOK
    <3> QED
      BY <2>1, <2>2, <3>1, <3>2, PairsFinite
  <2> QED
    BY <2>3, <2>4
<1>2. rows' \in [Experts -> 0..Total]
  <2>1. DOMAIN rows' = Experts /\ rows' = [e \in Experts |-> rows'[e]]
    BY DEF TypeOK
  <2> QED
    BY <1>1, <2>1
<1>3. TypeOK'
  BY <1>2 DEF TypeOK, Total
<1>4. TodoInv' /\ ScanInv' /\ ClaimInv' /\ GatherInv'
  BY DEF TodoInv, ScanInv, ClaimInv, GatherInv, Placing
<1>5. RowsInv'
  BY <1>1 DEF RowsInv, Placing, PairsOf
<1> QED
  BY <1>3, <1>4, <1>5

\* The sum moves past expert e: the pairs passed are those before and e's.
LEMMA ScanStep ==
    ASSUME SortInv, NEW e \in Experts, Scan(e)
    PROVE  SortInv'
<1> USE DEF Scan, SortInv
<1>1. /\ phase = "scan" /\ e \in todo /\ \A f \in todo : e <= f
      /\ todo \subseteq Experts /\ todo' = todo \ {e}
      /\ acc = Cardinality(PassedPairs)
      /\ cursors' = [cursors EXCEPT ![e] = acc] /\ acc' = acc + rows[e]
      /\ rows' = rows /\ dst' = dst /\ ids' = ids
      /\ \A f \in Experts : rows[f] = Cardinality(PairsOf(f)) /\ rows[f] \in 0..Total
  BY DEF ScanInv, TodoInv, RowsInv, TypeOK, Cursor, Total
<1>2. /\ PassedPairs' = PassedPairs \cup PairsOf(e)
      /\ PassedPairs \cap PairsOf(e) = {}
      /\ PassedPairs \subseteq Pairs /\ PairsOf(e) \subseteq Pairs
      /\ PassedPairs' \subseteq Pairs
  BY <1>1 DEF PassedPairs, PairsOf
<1>3. acc' = Cardinality(PassedPairs') /\ acc' \in 0..Total
  <2>1. IsFiniteSet(PassedPairs) /\ IsFiniteSet(PairsOf(e))
    BY <1>2, PairsFinite
  <2>2. Cardinality(PassedPairs \cup PairsOf(e)) =
          Cardinality(PassedPairs) + Cardinality(PairsOf(e)) - Cardinality({})
    BY <1>2, <2>1, FS_Union
  <2>3. Cardinality(PassedPairs') = acc + rows[e]
    BY <1>1, <1>2, <2>1, <2>2, PairsFinite, FS_EmptySet
  <2> QED
    BY <1>1, <1>2, <2>3, PairsFinite
<1>4. acc \in 0..Total
  BY DEF TypeOK, Total
<1>5. /\ cursors' \in [Experts -> 0..Total] /\ cursors'[e] = acc
      /\ \A f \in Experts : f # e => cursors'[f] = cursors[f]
  BY <1>1, <1>4 DEF TypeOK, Total
<1>6. TypeOK'
  BY <1>1, <1>3, <1>5 DEF TypeOK, Total
<1>7. ScanInv'
  <2>1. Experts \subseteq Int
    BY ShapeAssumption DEF Experts
  <2>2. \A f \in Experts \ todo', g \in todo' : f < g
    BY <1>1, <2>1 DEF ScanInv
  <2>3. \A f \in Experts \ todo' : cursors'[f] + rows[f] <= acc'
    BY <1>1, <1>4, <1>5 DEF ScanInv, TypeOK, Total
  <2>4. \A f, g \in Experts \ todo' : f < g => cursors'[f] + rows[f] <= cursors'[g]
    <3> SUFFICES ASSUME NEW f \in Experts \ todo', NEW g \in Experts \ todo', f < g
                 PROVE  cursors'[f] + rows[f] <= cursors'[g]
      OBVIOUS
    <3>1. f # e
      <4>1. g = e \/ g \in Experts \ todo
        BY <1>1
      <4> QED
        BY <1>1, <2>1, <4>1 DEF ScanInv
    <3>2. f \in Experts \ todo /\ cursors'[f] = cursors[f]
      BY <1>1, <1>5, <3>1
    <3>3. CASE g = e
      BY <1>1, <1>5, <3>2, <3>3 DEF ScanInv
    <3>4. CASE g # e
      BY <1>1, <1>5, <3>2, <3>4 DEF ScanInv
    <3> QED
      BY <3>3, <3>4
  <2> QED
    BY <1>1, <1>3, <2>2, <2>3, <2>4 DEF ScanInv
<1>8. TodoInv' /\ ClaimInv' /\ GatherInv'
  BY <1>1 DEF TodoInv, ClaimInv, GatherInv, Placing
<1>9. RowsInv'
  BY <1>1 DEF RowsInv, Placing, PairsOf
<1> QED
  BY <1>6, <1>7, <1>8, <1>9

LEMMA AdvanceStep == SortInv /\ Advance => SortInv'
<1> SUFFICES ASSUME SortInv, Advance PROVE SortInv'
  OBVIOUS
<1> USE DEF SortInv
<1>1. /\ phase # "idle" /\ todo = {} /\ phase' = NextKernel[phase]
      /\ todo' = Items(phase')
      /\ acc' = IF phase' = "scan" THEN 0 ELSE acc
      /\ UNCHANGED <<call, ids, rows, cursors, dst, rowMap, permuted>>
  BY DEF Advance
<1>2. TypeOK'
  BY <1>1, TotalNat DEF TypeOK, NextKernel, Items, Total
<1>3. CASE phase = "zero"
  <2>1. phase' = "count" /\ todo' = Pairs
    BY <1>1, <1>3 DEF NextKernel, Items
  <2>2. \A e \in Experts : rows[e] = 0 /\ PairsOf(e) \ Pairs = {}
    BY <1>1, <1>3 DEF RowsInv, PairsOf
  <2>3. RowsInv'
    BY <1>1, <2>1, <2>2, FS_EmptySet DEF RowsInv, Placing, PairsOf
  <2>4. TodoInv' /\ ScanInv' /\ ClaimInv' /\ GatherInv'
    BY <1>1, <1>3, <2>1 DEF TodoInv, ScanInv, ClaimInv, GatherInv, Placing
  <2> QED
    BY <1>2, <2>3, <2>4
<1>4. CASE phase = "count"
  <2>1. phase' = "scan" /\ todo' = Experts /\ acc' = 0
    BY <1>1, <1>4 DEF NextKernel, Items
  <2>2. \A e \in Experts : PairsOf(e) \ todo = PairsOf(e)
    BY <1>1
  <2>3. RowsInv'
    BY <1>1, <1>4, <2>1, <2>2 DEF RowsInv, Placing, PairsOf
  <2>4. PassedPairs' = {}
    BY <2>1 DEF PassedPairs
  <2>5. ScanInv'
    BY <2>1, <2>4, FS_EmptySet DEF ScanInv
  <2>6. TodoInv' /\ ClaimInv' /\ GatherInv'
    BY <1>1, <1>4, <2>1 DEF TodoInv, ClaimInv, GatherInv, Placing
  <2> QED
    BY <1>2, <2>3, <2>5, <2>6
<1>5. CASE phase = "scan"
  <2>1. phase' = "scatter" /\ todo' = Pairs /\ Placing'
    BY <1>1, <1>5 DEF NextKernel, Items, Placing
  <2>2. \A p \in Pairs : dst[p] = -1
    BY <1>5 DEF TodoInv, Placing
  <2>3. \A e \in Experts : Start(e) = cursors[e]
    <3>1. \A e \in Experts : Claimed(e) = {}
      BY <2>2 DEF Claimed, PairsOf
    <3>2. \A e \in Experts : cursors[e] \in Int
      BY DEF TypeOK
    <3> QED
      BY <3>1, <3>2, FS_EmptySet DEF Start
  <2>4. \A e \in Experts : Start(e)' = Start(e)
    BY <1>1 DEF Start, Claimed, PairsOf
  <2>5. PassedPairs = ValidPairs /\ ValidPairs' = ValidPairs
    BY <1>1 DEF PassedPairs, ValidPairs, Valid
  <2>6. /\ \A e \in Experts : cursors[e] + rows[e] <= Cardinality(ValidPairs)
        /\ \A e, f \in Experts : e < f => cursors[e] + rows[e] <= cursors[f]
    BY <1>1, <1>5, <2>5 DEF ScanInv
  <2>7. ClaimInv'
    BY <1>1, <2>2, <2>3, <2>4, <2>5, <2>6 DEF ClaimInv, ClaimsDistinct, TypeOK
  <2>8. TodoInv' /\ ScanInv' /\ GatherInv'
    BY <1>1, <2>1 DEF TodoInv, ScanInv, GatherInv, Placing
  <2>9. RowsInv'
    BY <1>1, <1>5, <2>1 DEF RowsInv, PairsOf
  <2> QED
    BY <1>2, <2>7, <2>8, <2>9
<1>6. CASE phase = "scatter"
  <2>1. phase' = "idle" /\ todo' = {} /\ Placing
    BY <1>1, <1>6 DEF NextKernel, Items, Placing
  <2>2. TodoInv' /\ ScanInv'
    BY <1>1, <2>1 DEF TodoInv, ScanInv, Placing
  <2>3. RowsInv'
    BY <1>1, <2>1 DEF RowsInv, PairsOf
  <2>4. /\ \A e \in Experts : Start(e)' = Start(e)
        /\ ValidPairs' = ValidPairs
        /\ \A p \in Pairs : Valid(p)' <=> Valid(p)
    BY <1>1 DEF Start, Claimed, PairsOf, ValidPairs, Valid
  <2>5. ClaimInv'
    BY <1>1, <2>1, <2>4 DEF ClaimInv, ClaimsDistinct
  <2>6. GatherInv'
    BY <1>1, <2>1, <2>4 DEF GatherInv
  <2> QED
    BY <1>2, <2>2, <2>3, <2>5, <2>6
<1> QED
  BY <1>1, <1>3, <1>4, <1>5, <1>6 DEF TypeOK

LEMMA SkipStep ==
    ASSUME SortInv, NEW p \in Pairs, Skip(p)
    PROVE  SortInv'
<1> USE DEF Skip, SortInv
<1>1. TypeOK'
  BY DEF TypeOK
<1>2. TodoInv' /\ ScanInv'
  BY DEF TodoInv, ScanInv, Placing
<1>3. RowsInv'
  BY DEF RowsInv, Placing, PairsOf
<1>4. /\ \A e \in Experts : Start(e)' = Start(e)
      /\ ValidPairs' = ValidPairs
      /\ \A q \in Pairs : Valid(q)' <=> Valid(q)
  BY DEF Start, Claimed, PairsOf, ValidPairs, Valid
<1>5. ClaimInv'
  BY <1>4 DEF ClaimInv, ClaimsDistinct, Placing
<1>6. GatherInv'
  BY <1>4 DEF GatherInv, Placing, TypeOK
<1> QED
  BY <1>1, <1>2, <1>3, <1>5, <1>6

\* An unclaimed pair of the expert is left, so its segment is not used up.
LEMMA ClaimStep ==
    ASSUME SortInv, NEW p \in Pairs, Claim(p)
    PROVE  SortInv'
<1> USE DEF SortInv
<1> SUFFICES ASSUME NEW e \in Experts, ids[p] = e
             PROVE  SortInv'
  BY DEF Claim, Valid
<1>1. /\ phase = "scatter" /\ p \in todo /\ Valid(p) /\ dst[p] = -1 /\ Placing
      /\ dst' = [dst EXCEPT ![p] = cursors[e]]
      /\ cursors' = [cursors EXCEPT ![e] = cursors[e] + 1]
      /\ UNCHANGED <<call, ids, phase, todo, rows, acc, rowMap, permuted>>
      /\ e \in Experts
  BY DEF Claim, Bump, Placing
<1>2. /\ cursors[e] \in 0..Total /\ Start(e) \in Int
      /\ Cardinality(Claimed(e)) \in 0..Total
      /\ Cardinality(ValidPairs) \in 0..Total
      /\ rows[e] = Cardinality(PairsOf(e))
  <2>1. Claimed(e) \subseteq Pairs /\ ValidPairs \subseteq Pairs
    BY DEF Claimed, PairsOf, ValidPairs
  <2> QED
    BY <1>1, <2>1, PairsFinite DEF TypeOK, Start, Total, RowsInv
<1>3. /\ Claimed(e)' = Claimed(e) \cup {p} /\ p \notin Claimed(e)
      /\ Cardinality(Claimed(e)') = Cardinality(Claimed(e)) + 1
      /\ Cardinality(Claimed(e)') <= rows[e]
  <2>1. Claimed(e)' = Claimed(e) \cup {p} /\ p \notin Claimed(e)
    BY <1>1, <1>2 DEF Claimed, PairsOf, TypeOK
  <2>2. Claimed(e) \subseteq Pairs /\ Claimed(e)' \subseteq PairsOf(e) /\ PairsOf(e) \subseteq Pairs
    BY <1>1, <2>1 DEF Claimed, PairsOf
  <2>3. Cardinality(Claimed(e)') = Cardinality(Claimed(e)) + 1
    BY <2>1, <2>2, OneMore
  <2>4. Cardinality(Claimed(e)') <= Cardinality(PairsOf(e))
    BY <2>2, SubsetCounts
  <2> QED
    BY <1>2, <2>1, <2>3, <2>4
<1>4. \A f \in Experts : f # e => Claimed(f)' = Claimed(f) /\ cursors'[f] = cursors[f]
  BY <1>1 DEF Claimed, PairsOf, TypeOK
<1>5. /\ \A f \in Experts : Start(f)' = Start(f)
      /\ ValidPairs' = ValidPairs
      /\ \A q \in Pairs : Valid(q)' <=> Valid(q)
      /\ cursors'[e] = cursors[e] + 1
  <2>1. cursors'[e] = cursors[e] + 1
    BY <1>1 DEF TypeOK
  <2>2. Start(e)' = Start(e)
    BY <1>2, <1>3, <2>1 DEF Start
  <2>3. \A f \in Experts : f # e => Start(f)' = Start(f)
    BY <1>4 DEF Start
  <2>4. ValidPairs' = ValidPairs /\ \A q \in Pairs : Valid(q)' <=> Valid(q)
    BY <1>1 DEF ValidPairs, Valid
  <2> QED
    BY <2>1, <2>2, <2>3, <2>4
<1>6. /\ cursors[e] < Start(e) + rows[e]
      /\ Start(e) + rows[e] <= Cardinality(ValidPairs)
      /\ 0 <= Start(e) /\ Start(e) <= cursors[e]
  <2>1. Start(e) + rows[e] <= Cardinality(ValidPairs) /\ 0 <= Start(e)
    BY <1>1 DEF ClaimInv
  <2>2. rows[e] \in 0..Total
    BY <1>1 DEF TypeOK, Total
  <2>3. Start(e) = cursors[e] - Cardinality(Claimed(e))
    BY DEF Start
  <2> QED
    BY <1>2, <1>3, <2>1, <2>2, <2>3
<1>7. /\ dst'[p] = cursors[e] /\ cursors[e] \in Rows
      /\ \A q \in Pairs : q # p => dst'[q] = dst[q]
      /\ rows[e] \in 0..Total
  <2>1. rows[e] \in 0..Total /\ dst'[p] = cursors[e]
        /\ \A q \in Pairs : q # p => dst'[q] = dst[q]
    BY <1>1 DEF TypeOK, Total
  <2> QED
    BY <1>2, <1>6, <2>1, TotalNat
<1>8. TypeOK'
  <2>1. cursors[e] + 1 \in 0..Total
    BY <1>2, <1>6, <1>7, TotalNat
  <2> QED
    BY <1>1, <1>7, <2>1 DEF TypeOK, Total
<1>9. ClaimInv'
  <2>1. \A f \in Experts : /\ 0 <= Start(f)' /\ Start(f)' + rows'[f] <= Cardinality(ValidPairs')
    BY <1>1, <1>5 DEF ClaimInv
  <2>2. \A f, g \in Experts : f < g => Start(f)' + rows'[f] <= Start(g)'
    BY <1>1, <1>5 DEF ClaimInv
  <2>3. \A f \in Experts : cursors[f] \in Int /\ cursors[f] <= cursors'[f]
    BY <1>4, <1>5 DEF TypeOK
  <2>4. \A q \in Pairs : dst'[q] # -1 => Valid(q)
    BY <1>1, <1>7 DEF ClaimInv
  <2>4a. ASSUME NEW q \in Pairs, NEW f \in Experts, dst'[q] # -1, ids[q] = f
         PROVE  Start(f) <= dst'[q] /\ dst'[q] < cursors'[f]
    <3>1. CASE q = p
      <4>1. f = e /\ dst'[q] = cursors[e]
        BY <1>7, <2>4a, <3>1
      <4> QED
        BY <1>2, <1>5, <1>6, <4>1
    <3>2. CASE q # p
      <4>1. dst'[q] = dst[q] /\ dst[q] \in Int
        BY <1>7, <3>2, TotalNat DEF TypeOK
      <4>2. Start(f) <= dst[q] /\ dst[q] < cursors[f]
        BY <1>1, <2>4a, <4>1 DEF ClaimInv
      <4>3. cursors[f] \in Int /\ cursors'[f] \in Int /\ cursors[f] <= cursors'[f]
        BY <1>8, <2>3 DEF TypeOK
      <4> QED
        BY <4>1, <4>2, <4>3
    <3> QED
      BY <3>1, <3>2
  <2>5. \A q \in Pairs : q # p => dst[q] # cursors[e]
    <3> SUFFICES ASSUME NEW q \in Pairs, q # p, dst[q] = cursors[e] PROVE FALSE
      OBVIOUS
    <3> DEFINE f == ids[q]
    <3>1. dst[q] # -1 /\ dst[q] \in Int
      BY <1>2
    <3>2. f \in Experts /\ Start(f) <= dst[q] /\ dst[q] < cursors[f]
      BY <1>1, <3>1 DEF ClaimInv, Valid
    <3>3. /\ Start(f) \in Int /\ rows[f] \in Int /\ cursors[f] \in Int
          /\ cursors[f] <= Start(f) + rows[f] /\ f \in Int /\ e \in Int
      <4>1. Claimed(f) \subseteq PairsOf(f) /\ PairsOf(f) \subseteq Pairs
        BY DEF Claimed, PairsOf
      <4>2. Cardinality(Claimed(f)) <= Cardinality(PairsOf(f))
        BY <4>1, SubsetCounts
      <4>3. Cardinality(Claimed(f)) \in Nat
        BY <4>1, PairsFinite
      <4>4. rows[f] = Cardinality(PairsOf(f)) /\ rows[f] \in Int /\ cursors[f] \in Int
        BY <1>1, <3>2 DEF RowsInv, TypeOK
      <4> QED
        BY <1>1, <3>2, <4>2, <4>3, <4>4, ShapeAssumption DEF Start, Experts
    <3> HIDE DEF f
    <3>4. CASE f = e
      BY <1>2, <3>2, <3>4
    <3>5. CASE f < e
      <4>1. Start(f) + rows[f] <= Start(e)
        BY <1>1, <3>2, <3>5 DEF ClaimInv
      <4> QED
        BY <1>2, <1>6, <3>2, <3>3, <4>1
    <3>6. CASE e < f
      <4>1. Start(e) + rows[e] <= Start(f)
        BY <1>1, <3>2, <3>6 DEF ClaimInv
      <4> QED
        BY <1>2, <1>6, <1>7, <3>2, <3>3, <4>1
    <3> QED
      BY <3>3, <3>4, <3>5, <3>6
  <2>6. ClaimsDistinct'
    BY <1>1, <1>7, <2>5 DEF ClaimInv, ClaimsDistinct
  <2> QED
    BY <1>1, <1>5, <2>1, <2>2, <2>4, <2>4a, <2>6 DEF ClaimInv
<1>10. TodoInv' /\ ScanInv'
  BY <1>1 DEF TodoInv, ScanInv, Placing
<1>11. RowsInv'
  BY <1>1 DEF RowsInv, Placing, PairsOf
<1>12. GatherInv'
  BY <1>1, <1>5, <1>7 DEF GatherInv, Placing
<1> QED
  BY <1>8, <1>9, <1>10, <1>11, <1>12

LEMMA GatherStep ==
    ASSUME SortInv, NEW p \in Pairs, Gather(p)
    PROVE  SortInv'
<1> USE DEF SortInv
<1>1. /\ phase = "scatter" /\ Placing /\ p \in todo /\ dst[p] # -1 /\ dst[p] \in Rows
      /\ rowMap' = [rowMap EXCEPT ![p] = dst[p]]
      /\ permuted' = [permuted EXCEPT ![dst[p]] = Hidden(call, Token(p))]
      /\ todo' = todo \ {p}
      /\ UNCHANGED <<call, ids, phase, rows, cursors, acc, dst>>
  BY DEF Gather, Placing, TypeOK
<1>2. TypeOK'
  BY <1>1 DEF TypeOK
<1>3. TodoInv' /\ ScanInv'
  BY <1>1 DEF TodoInv, ScanInv, Placing
<1>4. RowsInv'
  BY <1>1 DEF RowsInv, Placing, PairsOf
<1>5. /\ \A e \in Experts : Start(e)' = Start(e)
      /\ ValidPairs' = ValidPairs
      /\ \A q \in Pairs : Valid(q)' <=> Valid(q)
  BY <1>1 DEF Start, Claimed, PairsOf, ValidPairs, Valid
<1>6. ClaimInv'
  BY <1>1, <1>5 DEF ClaimInv, ClaimsDistinct, Placing
<1>7. Valid(p) /\ \A q \in Pairs : q # p => dst[q] # dst[p]
  BY <1>1 DEF ClaimInv, ClaimsDistinct
<1>8. GatherInv'
  <2> SUFFICES ASSUME NEW q \in Pairs \ todo'
               PROVE  IF Valid(q) THEN /\ dst[q] # -1
                                       /\ rowMap'[q] = dst[q]
                                       /\ permuted'[dst[q]] = Hidden(call, Token(q))
                      ELSE rowMap'[q] = -1
    BY <1>1, <1>5 DEF GatherInv, Hidden
  <2>1. CASE q = p
    BY <1>1, <1>7, <2>1 DEF TypeOK
  <2>2. CASE q # p
    <3>1. q \in Pairs \ todo /\ rowMap'[q] = rowMap[q]
      BY <1>1, <2>2 DEF TypeOK
    <3>2. IF Valid(q) THEN /\ dst[q] # -1
                           /\ rowMap[q] = dst[q]
                           /\ permuted[dst[q]] = Hidden(call, Token(q))
          ELSE rowMap[q] = -1
      BY <1>1, <3>1 DEF GatherInv
    <3>3. Valid(q) => permuted'[dst[q]] = permuted[dst[q]]
      BY <1>1, <1>7, <2>2, <3>2 DEF TypeOK
    <3> QED
      BY <3>1, <3>2, <3>3
  <2> QED
    BY <2>1, <2>2
<1> QED
  BY <1>2, <1>3, <1>4, <1>6, <1>8

LEMMA SortNext == SortInv /\ [PermuteStep]_pvars => SortInv'
<1> SUFFICES ASSUME SortInv, [PermuteStep]_pvars PROVE SortInv'
  OBVIOUS
<1>1. CASE UNCHANGED pvars
  <2> USE <1>1 DEF pvars, SortInv
  <2>1. TypeOK'
    BY DEF TypeOK
  <2>2. TodoInv' /\ RowsInv' /\ GatherInv'
    BY DEF TodoInv, RowsInv, GatherInv, Placing, PairsOf, Valid
  <2>3. ScanInv'
    BY DEF ScanInv, PassedPairs
  <2>4. ClaimInv'
    <3>1. /\ \A e \in Experts : Start(e)' = Start(e)
          /\ ValidPairs' = ValidPairs
          /\ \A q \in Pairs : Valid(q)' <=> Valid(q)
      BY DEF Start, Claimed, PairsOf, ValidPairs, Valid
    <3> QED
      BY <3>1 DEF ClaimInv, ClaimsDistinct, Placing
  <2> QED
    BY <2>1, <2>2, <2>3, <2>4
<1> QED
  BY <1>1, CallStep, AdvanceStep, ZeroStep, ScanStep, CountStep, SkipStep, ClaimStep,
     GatherStep DEF PermuteStep

\* The invariant holds of every run.
THEOREM SortSafe == Spec => []SortInv
  BY SortInit, SortNext, PTL DEF Spec

\* Every reachable state is well typed: no cursor, count or row number ever
\* leaves the caller's buffers.
THEOREM PermuteTypeCorrect == Spec => []TypeOK
<1>1. SortInv => TypeOK
  BY DEF SortInv
<1> QED
  BY <1>1, SortSafe, PTL

\* No two pairs ever claim the same row, in any order of the atomic bumps.
THEOREM NoRowClaimedTwice == Spec => []ClaimsDistinct
<1>1. SortInv => ClaimsDistinct
  BY DEF SortInv, TodoInv, ClaimInv, ClaimsDistinct
<1> QED
  BY <1>1, SortSafe, PTL

-----------------------------------------------------------------------------
(* After the call                                                           *)

\* The claims of the valid pairs are all the rows below their number.
LEMMA ClaimsFill ==
    ASSUME SortInv, phase = "idle", call > 0
    PROVE  /\ \A p \in ValidPairs : rowMap[p] = dst[p]
           /\ {rowMap[p] : p \in Pairs} \ {-1} = 0..(Cardinality(ValidPairs) - 1)
<1> DEFINE n == Cardinality(ValidPairs)
           f == [p \in ValidPairs |-> dst[p]]
<1>1. Placing /\ todo = {} /\ IsFiniteSet(ValidPairs) /\ n \in Nat
  BY PairsFinite DEF SortInv, Placing, TodoInv, ValidPairs
<1>2. \A p \in Pairs :
         IF Valid(p) THEN dst[p] # -1 /\ rowMap[p] = dst[p] ELSE rowMap[p] = -1
  BY <1>1 DEF SortInv, GatherInv
<1>3. \A p \in ValidPairs : dst[p] \in 0..(n - 1)
  <2> SUFFICES ASSUME NEW p \in ValidPairs, NEW e \in Experts, ids[p] = e
               PROVE  dst[p] \in 0..(n - 1)
    BY DEF ValidPairs, Valid
  <2>1. p \in Pairs /\ dst[p] # -1 /\ dst[p] \in Int
    BY <1>2, TotalNat DEF ValidPairs, SortInv, TypeOK
  <2>2. Start(e) <= dst[p] /\ dst[p] < cursors[e]
        /\ 0 <= Start(e) /\ Start(e) + rows[e] <= n
    BY <1>1, <2>1 DEF SortInv, ClaimInv
  <2>3. Claimed(e) \subseteq PairsOf(e) /\ PairsOf(e) \subseteq Pairs
    BY DEF Claimed, PairsOf
  <2>4. /\ Cardinality(Claimed(e)) <= rows[e]
        /\ Cardinality(Claimed(e)) \in Nat /\ cursors[e] \in Int /\ rows[e] \in Int
    BY <1>1, <2>3, SubsetCounts, PairsFinite DEF SortInv, RowsInv, TypeOK
  <2>5. Start(e) = cursors[e] - Cardinality(Claimed(e))
    BY DEF Start
  <2> HIDE DEF n
  <2> QED
    BY <1>1, <2>1, <2>2, <2>4, <2>5
<1>4. f \in Injection(ValidPairs, 0..(n - 1))
  <2>1. f \in [ValidPairs -> 0..(n - 1)]
    BY <1>3
  <2>2. \A p, q \in ValidPairs : f[p] = f[q] => p = q
    BY <1>1, <1>2 DEF SortInv, ClaimInv, ClaimsDistinct, ValidPairs
  <2> QED
    BY <2>1, <2>2 DEF Injection, IsInjective
<1>5. IsFiniteSet(0..(n - 1)) /\ Cardinality(0..(n - 1)) = n
  BY <1>1, FS_Interval
<1>6. f \in Surjection(ValidPairs, 0..(n - 1))
  BY <1>4, <1>5, FS_Injection
<1>7. \A r \in 0..(n - 1) : \E p \in ValidPairs : dst[p] = r
  BY <1>6 DEF Surjection
<1>8. \A p \in ValidPairs : rowMap[p] = dst[p]
  BY <1>2 DEF ValidPairs
<1>9. {rowMap[p] : p \in Pairs} \ {-1} = 0..(n - 1)
  <2>1. ASSUME NEW p \in Pairs, rowMap[p] # -1
        PROVE  rowMap[p] \in 0..(n - 1)
    BY <1>2, <1>3, <2>1 DEF ValidPairs
  <2>2. ASSUME NEW r \in 0..(n - 1)
        PROVE  r # -1 /\ \E p \in Pairs : rowMap[p] = r
    BY <1>7, <1>8 DEF ValidPairs
  <2> QED
    BY <2>1, <2>2
<1> QED
  BY <1>8, <1>9

LEMMA SortedFromInv == SortInv => Sorted
<1> SUFFICES ASSUME SortInv, phase = "idle", call > 0
             PROVE  /\ \A e \in Experts : rows[e] = Cardinality(PairsOf(e))
                    /\ \A p \in Pairs :
                          IF Valid(p) THEN permuted[rowMap[p]] = Hidden(call, Token(p))
                          ELSE rowMap[p] = -1
                    /\ {rowMap[p] : p \in Pairs} \ {-1} =
                          0..(Cardinality({p \in Pairs : Valid(p)}) - 1)
                    /\ \A p, q \in Pairs :
                          Valid(p) /\ Valid(q) /\ ids[p] < ids[q] => rowMap[p] < rowMap[q]
  BY DEF Sorted
<1>1. Placing /\ todo = {}
  BY DEF SortInv, Placing, TodoInv
<1>2. \A e \in Experts : rows[e] = Cardinality(PairsOf(e))
  BY <1>1 DEF SortInv, RowsInv
<1>3. \A p \in Pairs :
        IF Valid(p) THEN /\ dst[p] # -1
                         /\ rowMap[p] = dst[p]
                         /\ permuted[dst[p]] = Hidden(call, Token(p))
        ELSE rowMap[p] = -1
  BY <1>1 DEF SortInv, GatherInv
<1>4. ASSUME NEW p \in Pairs, NEW q \in Pairs, Valid(p), Valid(q), ids[p] < ids[q]
      PROVE  rowMap[p] < rowMap[q]
  <2> SUFFICES ASSUME NEW e \in Experts, NEW f \in Experts, ids[p] = e, ids[q] = f
               PROVE  rowMap[p] < rowMap[q]
    BY <1>4 DEF Valid
  <2>1. /\ dst[p] < cursors[e] /\ Start(f) <= dst[q]
        /\ Start(e) + rows[e] <= Start(f)
    BY <1>1, <1>3, <1>4 DEF SortInv, ClaimInv
  <2>2. Claimed(e) \subseteq PairsOf(e) /\ PairsOf(e) \subseteq Pairs
        /\ Claimed(f) \subseteq Pairs
    BY DEF Claimed, PairsOf
  <2>3. /\ Cardinality(Claimed(e)) <= rows[e]
        /\ Cardinality(Claimed(e)) \in Nat /\ Cardinality(Claimed(f)) \in Nat
        /\ cursors[e] \in Int /\ cursors[f] \in Int /\ rows[e] \in Int
        /\ dst[p] \in Int /\ dst[q] \in Int
    BY <1>2, <2>2, SubsetCounts, PairsFinite, TotalNat DEF SortInv, TypeOK
  <2>4. /\ Start(e) = cursors[e] - Cardinality(Claimed(e))
        /\ Start(f) = cursors[f] - Cardinality(Claimed(f))
    BY DEF Start
  <2>5. dst[p] < dst[q]
    BY <2>1, <2>3, <2>4
  <2> QED
    BY <1>3, <1>4, <2>5
<1> QED
  BY <1>2, <1>3, <1>4, ClaimsFill DEF ValidPairs

\* moe_permute sorts: counts, row contents, contiguity, expert order and -1
\* marks are right after every call, whatever the scratch held before.
THEOREM PermuteSorts == Spec => []Sorted
  BY SortSafe, SortedFromInv, PTL

-----------------------------------------------------------------------------
(* Rows and tiles                                                           *)

\* The theorems about the tiles, for the rows of these buffers.
TP == INSTANCE Foundations_proofs WITH MTotal <- NTokens * TopK

LEMMA Sizes ==
    /\ NTokens \in Nat \ {0} /\ TopK \in Nat \ {0} /\ NExperts \in Nat \ {0}
    /\ TM \in Nat \ {0} /\ NTokens * TopK \in Nat /\ Total = NTokens * TopK
    /\ TP!ExpertIds = Experts
  BY ShapeAssumption, LayerAssumption DEF Total, TP!ExpertIds, Experts

LEMMA SameTiles ==
    /\ T!Tiles = TP!Tiles
    /\ \A f, mt : /\ T!TileRows(f, mt) = TP!TileRows(f, mt)
                  /\ T!ExpertOf(f, mt) = TP!ExpertOf(f, mt)
  BY DEF T!Tiles, TP!Tiles, T!TilesMax, TP!TilesMax, T!CeilDivTM, TP!CeilDivTM,
         T!TileRows, TP!TileRows, T!ExpertOf, TP!ExpertOf, T!InGrid, TP!InGrid,
         T!Seg, TP!Seg, T!Prefix, TP!Prefix

\* Pairs routed to the first e experts.
Below(e) == {p \in Pairs : ids[p] \in 0..(e - 1)}

\* The prefix sums of rows_per_expert count them.
LEMMA PrefixCounts ==
    ASSUME \A e \in Experts : rows[e] = Cardinality(PairsOf(e)),
           ids \in [Pairs -> Int]
    PROVE  \A e \in 0..NExperts : TP!Prefix(rows)[e] = Cardinality(Below(e))
<1> DEFINE S == {e \in Nat : e <= NExperts => TP!Prefix(rows)[e] = Cardinality(Below(e))}
<1>1. 0 \in S
  <2>1. Below(0) = {}
    BY DEF Below
  <2>2. TP!Prefix(rows)[0] = 0
    BY Sizes, TP!PrefixStep
  <2> QED
    BY <2>1, <2>2, FS_EmptySet
<1>2. ASSUME NEW e \in Nat, e \in S
      PROVE  e + 1 \in S
  <2> SUFFICES ASSUME e + 1 <= NExperts
               PROVE  TP!Prefix(rows)[e + 1] = Cardinality(Below(e + 1))
    OBVIOUS
  <2>1. e \in Experts /\ e \in TP!ExpertIds
    BY Sizes DEF Experts
  <2>2. TP!Prefix(rows)[e + 1] = TP!Prefix(rows)[e] + rows[e]
    BY <2>1, Sizes, TP!PrefixNext
  <2>3. TP!Prefix(rows)[e] = Cardinality(Below(e))
    BY <1>2, Sizes
  <2>4. Below(e + 1) = Below(e) \cup PairsOf(e) /\ Below(e) \cap PairsOf(e) = {}
    BY DEF Below, PairsOf
  <2>5. /\ IsFiniteSet(Below(e)) /\ IsFiniteSet(PairsOf(e))
        /\ Cardinality(Below(e)) \in Nat /\ Cardinality(PairsOf(e)) \in Nat
    BY PairsFinite, Sizes DEF Below, PairsOf
  <2>6. Cardinality(Below(e + 1)) = Cardinality(Below(e)) + Cardinality(PairsOf(e)) - 0
    BY <2>4, <2>5, FS_Union, FS_EmptySet
  <2> QED
    BY <2>1, <2>2, <2>3, <2>5, <2>6
<1> HIDE DEF S
<1>3. Nat \subseteq S
  BY <1>1, <1>2, Sizes, TP!AllNat
<1> QED
  BY <1>3, Sizes DEF S

\* After moe_permute the segment of an expert is where its prefix sum says.
LEMMA StartIsPrefix ==
    ASSUME SortInv, phase = "idle", call > 0
    PROVE  /\ TP!RowCounts(rows)
           /\ \A e \in Experts : Start(e) = TP!Prefix(rows)[e]
<1>1. Placing /\ ids \in [Pairs -> Int]
  BY IdsType DEF SortInv, Placing
<1>2. \A e \in Experts : rows[e] = Cardinality(PairsOf(e)) /\ rows[e] \in Nat
  BY <1>1, PairsFinite, Sizes DEF SortInv, RowsInv, PairsOf
<1>3. \A e \in 0..NExperts : TP!Prefix(rows)[e] = Cardinality(Below(e))
  BY <1>1, <1>2, PrefixCounts
<1>4. \A e \in 0..NExperts : TP!Prefix(rows)[e] \in Nat
  BY <1>2, Sizes, TP!PrefixNat
<1>5. \A e \in Experts : TP!Prefix(rows)[e + 1] = TP!Prefix(rows)[e] + rows[e]
  BY Sizes, TP!PrefixNext
<1>6. ValidPairs = Below(NExperts)
  BY DEF ValidPairs, Below, Valid, Experts
<1>7. TP!Prefix(rows)[NExperts] = Cardinality(ValidPairs)
      /\ Cardinality(ValidPairs) \in 0..Total
  BY <1>3, <1>6, Sizes, PairsFinite DEF ValidPairs
<1>8. TP!RowCounts(rows)
  BY <1>2, <1>7, Sizes DEF TP!RowCounts
<1>9. /\ \A e \in Experts : 0 <= Start(e) /\ Start(e) + rows[e] <= Cardinality(ValidPairs)
      /\ \A e, f \in Experts : e < f => Start(e) + rows[e] <= Start(f)
  BY <1>1 DEF SortInv, ClaimInv
<1>10. \A e \in Experts : Start(e) \in Int
  BY PairsFinite DEF Start, Claimed, PairsOf, SortInv, TypeOK
<1>11. \A e \in Experts : TP!Prefix(rows)[e] <= Start(e)
  <2> DEFINE S == {e \in Nat : e \in Experts => TP!Prefix(rows)[e] <= Start(e)}
  <2>1. 0 \in S
    <3>1. TP!Prefix(rows)[0] = 0
      BY Sizes, TP!PrefixStep
    <3> QED
      BY <3>1, <1>9
  <2>2. ASSUME NEW e \in Nat, e \in S
        PROVE  e + 1 \in S
    <3> SUFFICES ASSUME e + 1 \in Experts PROVE TP!Prefix(rows)[e + 1] <= Start(e + 1)
      OBVIOUS
    <3>1. e \in Experts /\ e \in 0..NExperts
      BY Sizes DEF Experts
    <3>2. TP!Prefix(rows)[e] <= Start(e) /\ Start(e) + rows[e] <= Start(e + 1)
      BY <2>2, <3>1, <1>9
    <3>3. TP!Prefix(rows)[e + 1] = TP!Prefix(rows)[e] + rows[e]
          /\ TP!Prefix(rows)[e] \in Nat /\ rows[e] \in Nat
          /\ Start(e) \in Int /\ Start(e + 1) \in Int
      BY <3>1, <1>2, <1>4, <1>5, <1>10
    <3> QED
      BY <3>2, <3>3
  <2> HIDE DEF S
  <2>3. Nat \subseteq S
    BY <2>1, <2>2, Sizes, TP!AllNat
  <2> QED
    BY <2>3, Sizes DEF S, Experts
<1>12. \A e \in Experts : Start(e) <= TP!Prefix(rows)[e]
  <2> DEFINE S == {k \in Nat : \A e \in Experts : e + k + 1 = NExperts =>
                                  Start(e) <= TP!Prefix(rows)[e]}
  <2>1. 0 \in S
    <3> SUFFICES ASSUME NEW e \in Experts, e + 0 + 1 = NExperts
                 PROVE  Start(e) <= TP!Prefix(rows)[e]
      OBVIOUS
    <3>1. e + 1 = NExperts /\ e \in 0..NExperts
      BY Sizes DEF Experts
    <3>2. TP!Prefix(rows)[NExperts] = TP!Prefix(rows)[e] + rows[e]
          /\ TP!Prefix(rows)[e] \in Nat /\ rows[e] \in Nat /\ Start(e) \in Int
          /\ Start(e) + rows[e] <= TP!Prefix(rows)[NExperts]
      BY <3>1, <1>2, <1>4, <1>5, <1>7, <1>9, <1>10
    <3> QED
      BY <3>2
  <2>2. ASSUME NEW k \in Nat, k \in S
        PROVE  k + 1 \in S
    <3> SUFFICES ASSUME NEW e \in Experts, e + (k + 1) + 1 = NExperts
                 PROVE  Start(e) <= TP!Prefix(rows)[e]
      OBVIOUS
    <3>1. e + 1 \in Experts /\ (e + 1) + k + 1 = NExperts /\ e \in 0..NExperts /\ e < e + 1
      BY Sizes DEF Experts
    <3>2. Start(e + 1) <= TP!Prefix(rows)[e + 1]
      BY <2>2, <3>1
    <3>3. Start(e) + rows[e] <= Start(e + 1)
      BY <1>9, <3>1
    <3>4. TP!Prefix(rows)[e + 1] = TP!Prefix(rows)[e] + rows[e]
          /\ TP!Prefix(rows)[e] \in Nat /\ rows[e] \in Nat
          /\ Start(e) \in Int /\ Start(e + 1) \in Int
      BY <3>1, <1>2, <1>4, <1>5, <1>10
    <3> QED
      BY <3>2, <3>3, <3>4
  <2> HIDE DEF S
  <2>3. Nat \subseteq S
    BY <2>1, <2>2, Sizes, TP!AllNat
  <2>4. ASSUME NEW e \in Experts
        PROVE  Start(e) <= TP!Prefix(rows)[e]
    <3>1. NExperts - 1 - e \in Nat /\ e + (NExperts - 1 - e) + 1 = NExperts
      BY Sizes DEF Experts
    <3> QED
      BY <2>3, <3>1 DEF S
  <2> QED
    BY <2>4
<1>13. \A e \in Experts : e \in 0..NExperts
  BY Sizes DEF Experts
<1>14. \A e \in Experts : Start(e) = TP!Prefix(rows)[e]
  BY <1>4, <1>10, <1>11, <1>12, <1>13
<1> QED
  BY <1>8, <1>14

\* What the GEMMs find when moe_permute is over: the row of a pair holds its
\* token, in a tile that reads the weights of its expert, and only in such.
PairPlaced(p) ==
    IF Valid(p)
    THEN /\ rowMap[p] \in Rows
         /\ permuted[rowMap[p]] = Hidden(call, Token(p))
         /\ \E mt \in T!Tiles : rowMap[p] \in T!TileRows(rows, mt)
         /\ \A mt \in T!Tiles :
               rowMap[p] \in T!TileRows(rows, mt) => T!ExpertOf(rows, mt) = ids[p]
    ELSE rowMap[p] = -1

LEMMA TilesNat == T!Tiles \subseteq Nat
<1>1. \A n \in Nat : TP!CeilDivTM(n) \in Nat
  BY Sizes, TP!CeilDivTMCovers
<1>2. TP!TilesMax \in Nat
  BY <1>1, Sizes DEF TP!TilesMax
<1> QED
  BY <1>2, SameTiles DEF TP!Tiles

LEMMA PairsPlaced ==
    ASSUME SortInv, phase = "idle", call > 0
    PROVE  \A p \in Pairs : PairPlaced(p)
<1> SUFFICES ASSUME NEW p \in Pairs PROVE PairPlaced(p)
  OBVIOUS
<1>1. Placing /\ todo = {}
  BY DEF SortInv, Placing, TodoInv
<1>2. IF Valid(p) THEN /\ dst[p] # -1
                       /\ rowMap[p] = dst[p]
                       /\ permuted[dst[p]] = Hidden(call, Token(p))
      ELSE rowMap[p] = -1
  BY <1>1 DEF SortInv, GatherInv
<1>3. CASE ~Valid(p)
  BY <1>2, <1>3 DEF PairPlaced
<1>4. CASE Valid(p)
  <2>1. PICK e \in Experts : ids[p] = e
    BY <1>4 DEF Valid
  <2>2. PICK r : r = rowMap[p]
    OBVIOUS
  <2>3. r = dst[p] /\ r # -1 /\ permuted[r] = Hidden(call, Token(p))
    BY <1>2, <1>4, <2>2
  <2>4. r \in Rows
    BY <2>3 DEF SortInv, TypeOK
  <2>5. Start(e) <= r /\ r < cursors[e] /\ rows[e] = Cardinality(PairsOf(e))
    BY <1>1, <2>1, <2>3 DEF SortInv, ClaimInv, RowsInv
  <2>6. Claimed(e) \subseteq PairsOf(e) /\ PairsOf(e) \subseteq Pairs
    BY DEF Claimed, PairsOf
  <2>7. /\ Cardinality(Claimed(e)) <= rows[e]
        /\ Cardinality(Claimed(e)) \in Nat /\ rows[e] \in Nat /\ cursors[e] \in Int
    BY <2>5, <2>6, SubsetCounts, PairsFinite, Sizes DEF SortInv, TypeOK
  <2>8. Start(e) = cursors[e] - Cardinality(Claimed(e))
    BY DEF Start
  <2>9. TP!RowCounts(rows) /\ Start(e) = TP!Prefix(rows)[e]
    BY StartIsPrefix
  <2>10. r \in Nat /\ r < Start(e) + rows[e]
    BY <2>4, <2>5, <2>7, <2>8, TotalNat
  <2>11. TP!Prefix(rows)[e + 1] = TP!Prefix(rows)[e] + rows[e]
    BY Sizes, TP!PrefixNext
  <2>12. TP!Prefix(rows)[e] <= r /\ r < TP!Prefix(rows)[e + 1]
    BY <2>5, <2>9, <2>10, <2>11
  <2>13. /\ \A x \in TP!ExpertIds : rows[x] \in Nat
         /\ e \in TP!ExpertIds
    BY <2>9, Sizes DEF TP!RowCounts
  <2>14. \E mt \in Nat : /\ TP!InGrid(rows, mt)
                         /\ r \in TP!TileRows(rows, mt)
    BY <2>10, <2>12, <2>13, Sizes, TP!TileOfRow
  <2>15. \E mt \in T!Tiles : r \in T!TileRows(rows, mt)
    <3>1. PICK mt \in Nat : TP!InGrid(rows, mt) /\ r \in TP!TileRows(rows, mt)
      BY <2>14
    <3>2. TP!Seg(rows)[NExperts] <= TP!TilesMax
      BY <2>9, Sizes, TP!SegFits
    <3>3. TP!Seg(rows)[NExperts] \in Nat
      BY <2>13, Sizes, TP!SegFacts
    <3>4. TP!TilesMax \in Nat
      BY Sizes, TP!CeilDivTMCovers DEF TP!TilesMax
    <3>5. mt \in TP!Tiles
      BY <3>1, <3>2, <3>3, <3>4 DEF TP!Tiles, TP!InGrid
    <3> QED
      BY <3>1, <3>5, SameTiles
  <2>16. ASSUME NEW mt \in T!Tiles, r \in T!TileRows(rows, mt)
         PROVE  T!ExpertOf(rows, mt) = e
    <3>1. mt \in Nat /\ r \in TP!TileRows(rows, mt)
      BY <2>16, TilesNat, SameTiles
    <3>2. PICK x : x = TP!ExpertOf(rows, mt)
      OBVIOUS
    <3>3. /\ x \in TP!ExpertIds
          /\ TP!Prefix(rows)[x] <= r /\ r < TP!Prefix(rows)[x + 1]
      BY <2>13, <3>1, <3>2, Sizes, TP!TileInSegment
    <3>4. x = e
      BY <2>10, <2>12, <2>13, <3>3, Sizes, TP!SegmentUnique
    <3> QED
      BY <3>2, <3>4, SameTiles
  <2> QED
    BY <1>4, <2>1, <2>2, <2>3, <2>4, <2>15, <2>16 DEF PairPlaced
<1> QED
  BY <1>3, <1>4

-----------------------------------------------------------------------------
(* The layer                                                                *)

\* What the row of a pair must hold after each operation.
UpOf(p)   == Up(ids[p], Hidden(call, Token(p)))
ActOf(p)  == Act(UpOf(p))
DownOf(p) == Down(ids[p], ActOf(p))

\* A tile of S computes row r.
InTiles(S, r) == \E mt \in S : r \in T!TileRows(rows, mt)

StageInv ==
    /\ stage \in {"permute", "up", "glu", "down", "unpermute"}
    /\ served \in Nat /\ served <= call
    /\ stage # "permute" => phase = "idle" /\ served < call

Buffers ==
    /\ up = [r \in Rows |-> up[r]] /\ act = [r \in Rows |-> act[r]]
    /\ down = [r \in Rows |-> down[r]] /\ out = [t \in Tokens |-> out[t]]

\* Between two operations what the first one leaves, during an operation what
\* its finished tiles, rows or tokens have left.
UpInv ==
    fits /\ stage = "up" =>
        \A p \in Pairs : Valid(p) /\ InTiles(T!Tiles \ left, rowMap[p]) =>
            up[rowMap[p]] = UpOf(p)

GluInv ==
    fits /\ stage = "glu" =>
        \A p \in Pairs : Valid(p) =>
            /\ up[rowMap[p]] = UpOf(p)
            /\ rowMap[p] \in left \/ act[rowMap[p]] = ActOf(p)

DownInv ==
    fits /\ stage = "down" =>
        \A p \in Pairs : Valid(p) =>
            /\ act[rowMap[p]] = ActOf(p)
            /\ InTiles(T!Tiles \ left, rowMap[p]) => down[rowMap[p]] = DownOf(p)

UnpermuteInv ==
    fits /\ stage = "unpermute" =>
        /\ \A p \in Pairs : Valid(p) => down[rowMap[p]] = DownOf(p)
        /\ \A t \in Tokens \ left : out[t] = Reference(t)

LayerInv ==
    SortInv /\ StageInv /\ Buffers /\ UpInv /\ GluInv /\ DownInv /\ UnpermuteInv /\ LayerExact

LEMMA LayerStart == LayerInit => LayerInv
<1> SUFFICES ASSUME LayerInit PROVE LayerInv
  OBVIOUS
<1>1. SortInv
  BY SortInit DEF LayerInit
<1>2. StageInv /\ Buffers
  BY DEF LayerInit, Init, StageInv, Buffers
<1>3. UpInv /\ GluInv /\ DownInv /\ UnpermuteInv /\ LayerExact
  BY DEF LayerInit, Init, UpInv, GluInv, DownInv, UnpermuteInv, LayerExact
<1> QED
  BY <1>1, <1>2, <1>3 DEF LayerInv

\* Only moe_permute changes what it has sorted.
LEMMA PermuteKept ==
    ASSUME LayerInv, UNCHANGED pvars
    PROVE  /\ SortInv'
           /\ \A p \in Pairs : /\ Valid(p)' <=> Valid(p)
                                /\ rowMap'[p] = rowMap[p]
                                /\ UpOf(p)' = UpOf(p) /\ ActOf(p)' = ActOf(p)
                                /\ DownOf(p)' = DownOf(p)
           /\ \A t \in Tokens : Reference(t)' = Reference(t)
           /\ \A S, r : InTiles(S, r)' <=> InTiles(S, r)
<1>1. SortInv'
  BY SortNext DEF LayerInv
<1>2. /\ ids' = ids /\ call' = call /\ rowMap' = rowMap /\ rows' = rows
  BY DEF pvars
<1>3. \A p \in Pairs : /\ Valid(p)' <=> Valid(p)
                       /\ UpOf(p)' = UpOf(p) /\ ActOf(p)' = ActOf(p)
                       /\ DownOf(p)' = DownOf(p)
  BY <1>2 DEF Valid, UpOf, ActOf, DownOf
<1>4. \A t \in Tokens : Reference(t)' = Reference(t)
  BY <1>2 DEF Reference, Valid
<1>5. \A S, r : InTiles(S, r)' <=> InTiles(S, r)
  BY <1>2 DEF InTiles, T!TileRows, T!InGrid, T!ExpertOf, T!Seg, T!Prefix
<1> QED
  BY <1>1, <1>2, <1>3, <1>4, <1>5

\* moe_permute of the next call; the output of the call before stays.
LEMMA PermuteInv == LayerInv /\ Permute => LayerInv'
<1> SUFFICES ASSUME LayerInv, Permute PROVE LayerInv'
  OBVIOUS
<1>1. SortInv'
  BY SortNext DEF LayerInv, Permute
<1>2. /\ stage = "permute" /\ UNCHANGED lvars /\ call \in Nat
  BY DEF Permute, LayerInv, SortInv, TypeOK
<1>3. Call \/ (ids' = ids /\ call' = call)
  BY DEF Permute, PermuteStep, Advance, Zero, Scan, Count, Skip, Claim, Gather
<1>4. call' = call \/ call' = call + 1
  BY <1>3 DEF Call
<1>5. StageInv' /\ Buffers'
  BY <1>2, <1>4 DEF LayerInv, StageInv, Buffers, lvars
<1>6. UpInv' /\ GluInv' /\ DownInv' /\ UnpermuteInv'
  BY <1>2 DEF UpInv, GluInv, DownInv, UnpermuteInv, lvars
<1>7. LayerExact'
  <2>1. CASE Call
    <3>1. call' = call + 1 /\ served' = served /\ served <= call /\ served \in Nat
      BY <1>2, <2>1 DEF Call, lvars, LayerInv, StageInv
    <3>2. served' # call'
      BY <1>2, <3>1
    <3> QED
      BY <3>2 DEF LayerExact
  <2>2. CASE ids' = ids /\ call' = call
    <3>1. \A t \in Tokens : Reference(t)' = Reference(t)
      BY <2>2 DEF Reference, Valid
    <3> QED
      BY <1>2, <2>2, <3>1 DEF LayerInv, LayerExact, lvars
  <2> QED
    BY <1>3, <2>1, <2>2
<1> QED
  BY <1>1, <1>5, <1>6, <1>7 DEF LayerInv

\* An operation other than moe_permute runs on a call that is not served yet.
LEMMA NotServed ==
    ASSUME LayerInv, stage # "permute"
    PROVE  /\ phase = "idle" /\ call > 0 /\ served < call
           /\ \A p \in Pairs : PairPlaced(p)
<1>1. phase = "idle" /\ served < call /\ served \in Nat /\ call \in Nat
  BY DEF LayerInv, StageInv, SortInv, TypeOK
<1>2. call > 0
  BY <1>1
<1> QED
  BY <1>1, <1>2, PairsPlaced DEF LayerInv

LEMMA CallSwigluInv == LayerInv /\ CallSwiglu => LayerInv'
<1> SUFFICES ASSUME LayerInv, CallSwiglu PROVE LayerInv'
  OBVIOUS
<1>1. SortInv'
  BY PermuteKept DEF CallSwiglu
<1>2. /\ stage' = "up" /\ phase' = "idle" /\ call' = call /\ served' = served
      /\ served < call
      /\ fits' => left' = T!Tiles
      /\ UNCHANGED <<up, act, down, out>>
  BY DEF CallSwiglu, pvars
<1>7. served \in Nat /\ call \in Nat /\ served <= call
  BY DEF LayerInv, StageInv, SortInv, TypeOK
<1>3. StageInv' /\ Buffers'
  BY <1>2, <1>7 DEF LayerInv, StageInv, Buffers
<1>4. UpInv'
  <2>1. ASSUME fits' PROVE \A r : ~InTiles(T!Tiles \ left, r)'
    BY <1>2, <2>1 DEF InTiles
  <2> QED
    BY <2>1 DEF UpInv
<1>5. GluInv' /\ DownInv' /\ UnpermuteInv'
  BY <1>2 DEF GluInv, DownInv, UnpermuteInv
<1>6. LayerExact'
  <2>1. served' # call'
    BY <1>2, <1>7
  <2> QED
    BY <2>1 DEF LayerExact
<1> QED
  BY <1>1, <1>3, <1>4, <1>5, <1>6 DEF LayerInv

\* Before the layer's last step the call is not served.
LEMMA StillNotServed ==
    ASSUME LayerInv, stage # "permute", UNCHANGED pvars, served' = served
    PROVE  LayerExact'
<1>1. call' = call /\ served < call /\ served \in Nat /\ call \in Nat
  BY NotServed DEF pvars, LayerInv, StageInv, SortInv, TypeOK
<1>2. served' # call'
  BY <1>1
<1> QED
  BY <1>2 DEF LayerExact

\* The stage moves on, or not, without a call being served.
LEMMA StageKept ==
    ASSUME LayerInv, stage # "permute", UNCHANGED pvars, served' = served,
           stage' \in {"up", "glu", "down", "unpermute"}
    PROVE  StageInv'
<1>1. /\ phase' = "idle" /\ call' = call /\ served < call
      /\ served \in Nat /\ served <= call
  BY NotServed DEF pvars, LayerInv, StageInv
<1> QED
  BY <1>1 DEF StageInv

\* Storing one tile of a product that is right for its own rows.
LEMMA TileStored ==
    ASSUME NEW old, NEW product, NEW mt \in T!Tiles, NEW r \in Rows
    PROVE  ComputedBy(mt, old, product)[r] =
             IF r \in T!TileRows(rows, mt) THEN product[r] ELSE old[r]
  BY DEF ComputedBy

LEMMA TilesDone ==
    ASSUME NEW S, NEW mt, NEW r,
           InTiles(T!Tiles \ (S \ {mt}), r), r \notin T!TileRows(rows, mt)
    PROVE  InTiles(T!Tiles \ S, r)
  BY DEF InTiles

LEMMA UpTileInv ==
    ASSUME LayerInv, NEW mt \in T!Tiles, UpTile(mt)
    PROVE  LayerInv'
<1> DEFINE product == [r \in Rows |-> Up(T!ExpertOf(rows, mt), permuted[r])]
<1>1. /\ stage = "up" /\ stage' = stage /\ UNCHANGED pvars /\ served' = served
      /\ fits' = fits /\ left' = left \ {mt}
      /\ up' = ComputedBy(mt, up, product)
      /\ UNCHANGED <<act, down, out>>
  BY DEF UpTile
<1>2. SortInv' /\ StageInv' /\ LayerExact'
  BY <1>1, PermuteKept, StageKept, StillNotServed
<1>3. Buffers'
  BY <1>1 DEF LayerInv, Buffers, ComputedBy
<1>4. UpInv'
  <2> SUFFICES ASSUME fits, NEW p \in Pairs, Valid(p),
                      InTiles(T!Tiles \ (left \ {mt}), rowMap[p])
               PROVE  up'[rowMap[p]] = UpOf(p)
    BY <1>1, PermuteKept DEF UpInv
  <2>1. PICK r : r = rowMap[p]
    OBVIOUS
  <2>2. /\ r \in Rows /\ permuted[r] = Hidden(call, Token(p))
        /\ r \in T!TileRows(rows, mt) => T!ExpertOf(rows, mt) = ids[p]
    BY <1>1, <2>1, NotServed DEF PairPlaced
  <2>3. up'[r] = IF r \in T!TileRows(rows, mt) THEN product[r] ELSE up[r]
    BY <1>1, <2>2, TileStored
  <2>4. CASE r \in T!TileRows(rows, mt)
    BY <2>1, <2>2, <2>3, <2>4 DEF UpOf
  <2>5. CASE r \notin T!TileRows(rows, mt)
    <3>1. InTiles(T!Tiles \ left, r)
      BY <2>1, <2>5, TilesDone
    <3>2. up[r] = UpOf(p)
      BY <1>1, <2>1, <3>1 DEF LayerInv, UpInv
    <3> QED
      BY <2>1, <2>3, <2>5, <3>2
  <2> QED
    BY <2>4, <2>5
<1>5. GluInv' /\ DownInv' /\ UnpermuteInv'
  BY <1>1 DEF GluInv, DownInv, UnpermuteInv
<1> QED
  BY <1>2, <1>3, <1>4, <1>5 DEF LayerInv

\* Every row of a pair is in a tile, so nothing is missing when all are done.
LEMMA AllTilesDone ==
    ASSUME LayerInv, stage # "permute", left = {}, NEW p \in Pairs, Valid(p)
    PROVE  InTiles(T!Tiles \ left, rowMap[p])
  BY NotServed DEF PairPlaced, InTiles

LEMMA StartGluInv == LayerInv /\ StartGlu => LayerInv'
<1> SUFFICES ASSUME LayerInv, StartGlu PROVE LayerInv'
  OBVIOUS
<1>1. /\ stage = "up" /\ left = {} /\ stage' = "glu" /\ UNCHANGED pvars /\ served' = served
      /\ fits' = fits /\ left' = Rows
      /\ UNCHANGED <<up, act, down, out>>
  BY DEF StartGlu, UpDone
<1>2. SortInv' /\ StageInv' /\ LayerExact'
  BY <1>1, PermuteKept, StageKept, StillNotServed
<1>3. Buffers'
  BY <1>1 DEF LayerInv, Buffers
<1>4. GluInv'
  <2> SUFFICES ASSUME fits, NEW p \in Pairs, Valid(p)
               PROVE  up[rowMap[p]] = UpOf(p) /\ rowMap[p] \in Rows
    BY <1>1, PermuteKept DEF GluInv
  <2>1. InTiles(T!Tiles \ left, rowMap[p])
    BY <1>1, AllTilesDone
  <2>2. up[rowMap[p]] = UpOf(p)
    BY <1>1, <2>1 DEF LayerInv, UpInv
  <2>3. rowMap[p] \in Rows
    BY <1>1, NotServed DEF PairPlaced
  <2> QED
    BY <2>2, <2>3
<1>5. UpInv' /\ DownInv' /\ UnpermuteInv'
  BY <1>1 DEF UpInv, DownInv, UnpermuteInv
<1> QED
  BY <1>2, <1>3, <1>4, <1>5 DEF LayerInv

LEMMA GluRowInv ==
    ASSUME LayerInv, NEW r \in Rows, GluRow(r)
    PROVE  LayerInv'
<1>1. /\ stage = "glu" /\ stage' = stage /\ UNCHANGED pvars /\ served' = served
      /\ fits' = fits /\ left' = left \ {r}
      /\ act' = [act EXCEPT ![r] = Act(up[r])]
      /\ UNCHANGED <<up, down, out>>
  BY DEF GluRow
<1>2. SortInv' /\ StageInv' /\ LayerExact'
  BY <1>1, PermuteKept, StageKept, StillNotServed
<1>3. Buffers'
  BY <1>1 DEF LayerInv, Buffers
<1>4. GluInv'
  <2> SUFFICES ASSUME fits, NEW p \in Pairs, Valid(p)
               PROVE  /\ up[rowMap[p]] = UpOf(p)
                      /\ rowMap[p] \in left \ {r} \/ act'[rowMap[p]] = ActOf(p)
    BY <1>1, PermuteKept DEF GluInv
  <2>1. /\ up[rowMap[p]] = UpOf(p)
        /\ rowMap[p] \in left \/ act[rowMap[p]] = ActOf(p)
    BY <1>1 DEF LayerInv, GluInv
  <2>2. rowMap[p] \in Rows /\ act = [x \in Rows |-> act[x]]
    BY <1>1, NotServed DEF PairPlaced, LayerInv, Buffers
  <2>3. CASE rowMap[p] = r
    BY <1>1, <2>1, <2>2, <2>3 DEF ActOf
  <2>4. CASE rowMap[p] # r
    BY <1>1, <2>1, <2>2, <2>4
  <2> QED
    BY <2>3, <2>4
<1>5. UpInv' /\ DownInv' /\ UnpermuteInv'
  BY <1>1 DEF UpInv, DownInv, UnpermuteInv
<1> QED
  BY <1>2, <1>3, <1>4, <1>5 DEF LayerInv

LEMMA StartDownInv == LayerInv /\ StartDown => LayerInv'
<1> SUFFICES ASSUME LayerInv, StartDown PROVE LayerInv'
  OBVIOUS
<1>1. /\ stage = "glu" /\ left = {} /\ stage' = "down" /\ UNCHANGED pvars /\ served' = served
      /\ fits' = fits /\ left' = T!Tiles
      /\ UNCHANGED <<up, act, down, out>>
  BY DEF StartDown
<1>2. SortInv' /\ StageInv' /\ LayerExact'
  BY <1>1, PermuteKept, StageKept, StillNotServed
<1>3. Buffers'
  BY <1>1 DEF LayerInv, Buffers
<1>4. DownInv'
  <2> SUFFICES ASSUME fits, NEW p \in Pairs, Valid(p)
               PROVE  /\ act[rowMap[p]] = ActOf(p)
                      /\ ~InTiles(T!Tiles \ T!Tiles, rowMap[p])
    BY <1>1, PermuteKept DEF DownInv
  <2>1. act[rowMap[p]] = ActOf(p)
    BY <1>1 DEF LayerInv, GluInv
  <2> QED
    BY <2>1 DEF InTiles
<1>5. UpInv' /\ GluInv' /\ UnpermuteInv'
  BY <1>1 DEF UpInv, GluInv, UnpermuteInv
<1> QED
  BY <1>2, <1>3, <1>4, <1>5 DEF LayerInv

LEMMA DownTileInv ==
    ASSUME LayerInv, NEW mt \in T!Tiles, DownTile(mt)
    PROVE  LayerInv'
<1> DEFINE product == [r \in Rows |-> Down(T!ExpertOf(rows, mt), act[r])]
<1>1. /\ stage = "down" /\ stage' = stage /\ UNCHANGED pvars /\ served' = served
      /\ fits' = fits /\ left' = left \ {mt}
      /\ down' = ComputedBy(mt, down, product)
      /\ UNCHANGED <<up, act, out>>
  BY DEF DownTile
<1>2. SortInv' /\ StageInv' /\ LayerExact'
  BY <1>1, PermuteKept, StageKept, StillNotServed
<1>3. Buffers'
  BY <1>1 DEF LayerInv, Buffers, ComputedBy
<1>4. DownInv'
  <2> SUFFICES ASSUME fits, NEW p \in Pairs, Valid(p)
               PROVE  /\ act[rowMap[p]] = ActOf(p)
                      /\ InTiles(T!Tiles \ (left \ {mt}), rowMap[p]) =>
                            down'[rowMap[p]] = DownOf(p)
    BY <1>1, PermuteKept DEF DownInv
  <2>1. PICK r : r = rowMap[p]
    OBVIOUS
  <2>2. /\ r \in Rows
        /\ r \in T!TileRows(rows, mt) => T!ExpertOf(rows, mt) = ids[p]
    BY <1>1, <2>1, NotServed DEF PairPlaced
  <2>3. down'[r] = IF r \in T!TileRows(rows, mt) THEN product[r] ELSE down[r]
    BY <1>1, <2>2, TileStored
  <2>4. /\ act[r] = ActOf(p)
        /\ InTiles(T!Tiles \ left, r) => down[r] = DownOf(p)
    BY <1>1, <2>1 DEF LayerInv, DownInv
  <2>5. CASE r \in T!TileRows(rows, mt)
    BY <2>1, <2>2, <2>3, <2>4, <2>5 DEF DownOf
  <2>6. CASE r \notin T!TileRows(rows, mt)
    <3>1. InTiles(T!Tiles \ (left \ {mt}), r) => InTiles(T!Tiles \ left, r)
      BY <2>6, TilesDone
    <3> QED
      BY <2>1, <2>3, <2>4, <2>6, <3>1
  <2> QED
    BY <2>5, <2>6
<1>5. UpInv' /\ GluInv' /\ UnpermuteInv'
  BY <1>1 DEF UpInv, GluInv, UnpermuteInv
<1> QED
  BY <1>2, <1>3, <1>4, <1>5 DEF LayerInv

LEMMA StartUnpermuteInv == LayerInv /\ StartUnpermute => LayerInv'
<1> SUFFICES ASSUME LayerInv, StartUnpermute PROVE LayerInv'
  OBVIOUS
<1>1. /\ stage = "down" /\ left = {} /\ stage' = "unpermute" /\ UNCHANGED pvars
      /\ served' = served /\ fits' = fits /\ left' = Tokens
      /\ UNCHANGED <<up, act, down, out>>
  BY DEF StartUnpermute
<1>2. SortInv' /\ StageInv' /\ LayerExact'
  BY <1>1, PermuteKept, StageKept, StillNotServed
<1>3. Buffers'
  BY <1>1 DEF LayerInv, Buffers
<1>4. UnpermuteInv'
  <2> SUFFICES ASSUME fits, NEW p \in Pairs, Valid(p)
               PROVE  down[rowMap[p]] = DownOf(p)
    BY <1>1, PermuteKept DEF UnpermuteInv
  <2>1. InTiles(T!Tiles \ left, rowMap[p])
    BY <1>1, AllTilesDone
  <2> QED
    BY <1>1, <2>1 DEF LayerInv, DownInv
<1>5. UpInv' /\ GluInv' /\ DownInv'
  BY <1>1 DEF UpInv, GluInv, DownInv
<1> QED
  BY <1>2, <1>3, <1>4, <1>5 DEF LayerInv

\* The pairs of a token.
LEMMA PairOf ==
    ASSUME NEW t \in Tokens, NEW c \in Choices
    PROVE  t * TopK + c \in Pairs /\ Token(t * TopK + c) = t
<1>1. /\ NTokens \in Nat \ {0} /\ TopK \in Nat \ {0} /\ t \in Nat /\ c \in Nat
      /\ t <= NTokens - 1 /\ c < TopK
  BY Sizes DEF Tokens, Choices
<1>2. t * TopK <= (NTokens - 1) * TopK /\ t * TopK \in Nat
      /\ (NTokens - 1) * TopK = NTokens * TopK - TopK /\ NTokens * TopK \in Nat
  BY <1>1, SMT
<1>3. t * TopK + c \in Nat /\ t * TopK + c < NTokens * TopK
  BY <1>1, <1>2
<1>4. (t * TopK + c) \div TopK = t
  BY <1>1, SMT
<1> QED
  BY <1>2, <1>3, <1>4 DEF Pairs, Token

\* A token gathers what its own pairs were owed.
LEMMA GathersReference ==
    ASSUME LayerInv, stage = "unpermute", fits, NEW t \in Tokens
    PROVE  Gathered(t) = Reference(t)
<1>1. \A c \in Choices : /\ t * TopK + c \in Pairs
                         /\ PairPlaced(t * TopK + c)
                         /\ Token(t * TopK + c) = t
  BY PairOf, NotServed
<1>2. \A c \in Choices : rowMap[t * TopK + c] >= 0 <=> Valid(t * TopK + c)
  BY <1>1, TotalNat DEF PairPlaced
<1>3. \A c \in Choices : Valid(t * TopK + c) =>
          down[rowMap[t * TopK + c]] =
              Down(ids[t * TopK + c], Act(Up(ids[t * TopK + c], Hidden(call, t))))
  BY <1>1 DEF LayerInv, UnpermuteInv, DownOf, ActOf, UpOf
<1> QED
  BY <1>2, <1>3 DEF Gathered, Reference

LEMMA UnpermuteTokenInv ==
    ASSUME LayerInv, NEW t \in Tokens, UnpermuteToken(t)
    PROVE  LayerInv'
<1>1. /\ stage = "unpermute" /\ stage' = stage /\ UNCHANGED pvars /\ served' = served
      /\ fits' = fits /\ left' = left \ {t}
      /\ out' = [out EXCEPT ![t] = Gathered(t)]
      /\ UNCHANGED <<up, act, down>>
  BY DEF UnpermuteToken
<1>2. SortInv' /\ StageInv' /\ LayerExact'
  BY <1>1, PermuteKept, StageKept, StillNotServed
<1>3. Buffers'
  BY <1>1 DEF LayerInv, Buffers
<1>4. UnpermuteInv'
  <2> SUFFICES ASSUME fits
               PROVE  /\ \A p \in Pairs : Valid(p) => down[rowMap[p]] = DownOf(p)
                      /\ \A u \in Tokens \ (left \ {t}) : out'[u] = Reference(u)
    BY <1>1, PermuteKept DEF UnpermuteInv
  <2>1. /\ \A p \in Pairs : Valid(p) => down[rowMap[p]] = DownOf(p)
        /\ \A u \in Tokens \ left : out[u] = Reference(u)
    BY <1>1 DEF LayerInv, UnpermuteInv
  <2>2. out = [u \in Tokens |-> out[u]]
    BY DEF LayerInv, Buffers
  <2>3. Gathered(t) = Reference(t)
    BY <1>1, GathersReference
  <2> QED
    BY <1>1, <2>1, <2>2, <2>3
<1>5. UpInv' /\ GluInv' /\ DownInv'
  BY <1>1 DEF UpInv, GluInv, DownInv
<1> QED
  BY <1>2, <1>3, <1>4, <1>5 DEF LayerInv

LEMMA EndLayerInv == LayerInv /\ EndLayer => LayerInv'
<1> SUFFICES ASSUME LayerInv, EndLayer PROVE LayerInv'
  OBVIOUS
<1>1. /\ stage = "unpermute" /\ left = {} /\ stage' = "permute" /\ UNCHANGED pvars
      /\ served' = call /\ fits' = fits /\ left' = left
      /\ UNCHANGED <<up, act, down, out>>
  BY DEF EndLayer
<1>2. SortInv'
  BY <1>1, PermuteKept
<1>3. call' = call /\ call \in Nat
  BY <1>1 DEF pvars, LayerInv, SortInv, TypeOK
<1>4. StageInv' /\ Buffers'
  BY <1>1, <1>3 DEF LayerInv, StageInv, Buffers
<1>5. UpInv' /\ GluInv' /\ DownInv' /\ UnpermuteInv'
  BY <1>1 DEF UpInv, GluInv, DownInv, UnpermuteInv
<1>6. LayerExact'
  <2>1. fits => \A t \in Tokens : out[t] = Reference(t)
    BY <1>1 DEF LayerInv, UnpermuteInv
  <2> QED
    BY <1>1, <2>1, PermuteKept DEF LayerExact
<1> QED
  BY <1>2, <1>4, <1>5, <1>6 DEF LayerInv

LEMMA LayerStep == LayerInv /\ [LayerNext]_vars => LayerInv'
<1> SUFFICES ASSUME LayerInv, [LayerNext]_vars PROVE LayerInv'
  OBVIOUS
<1>1. CASE UNCHANGED vars
  <2>1. UNCHANGED pvars /\ UNCHANGED lvars
    BY <1>1 DEF vars, pvars, lvars
  <2>2. /\ SortInv'
        /\ \A p \in Pairs : /\ Valid(p)' <=> Valid(p)
                             /\ rowMap'[p] = rowMap[p]
                             /\ UpOf(p)' = UpOf(p) /\ ActOf(p)' = ActOf(p)
                             /\ DownOf(p)' = DownOf(p)
        /\ \A t \in Tokens : Reference(t)' = Reference(t)
        /\ \A S, r : InTiles(S, r)' <=> InTiles(S, r)
    BY <2>1, PermuteKept
  <2>3. StageInv' /\ Buffers'
    BY <2>1 DEF LayerInv, StageInv, Buffers, pvars, lvars
  <2>4. UpInv' /\ GluInv' /\ DownInv' /\ UnpermuteInv'
    BY <2>1, <2>2 DEF LayerInv, UpInv, GluInv, DownInv, UnpermuteInv, lvars
  <2>5. LayerExact'
    BY <2>1, <2>2 DEF LayerInv, LayerExact, pvars, lvars
  <2> QED
    BY <2>2, <2>3, <2>4, <2>5 DEF LayerInv
<1> QED
  BY <1>1, PermuteInv, CallSwigluInv, UpTileInv, StartGluInv, GluRowInv, StartDownInv,
     DownTileInv, StartUnpermuteInv, UnpermuteTokenInv, EndLayerInv DEF LayerNext

\* The invariant holds of every run of the layer.
THEOREM LayerSafe == LayerSpec => []LayerInv
  BY LayerStart, LayerStep, PTL DEF LayerSpec

\* "Results are order-independent": in whatever order pairs claimed their rows
\* and tiles, rows and tokens finished, and whatever the buffers held before,
\* every token obtains its own hidden row through each of its experts.
THEOREM LayerResult == LayerSpec => []LayerExact
<1>1. LayerInv => LayerExact
  BY DEF LayerInv
<1> QED
  BY <1>1, LayerSafe, PTL

\* moe_permute inside the layer, its scratch shared by all calls.
THEOREM LayerPermutes == LayerSpec => [](TypeOK /\ ClaimsDistinct /\ Sorted)
<1>1. LayerInv => TypeOK /\ ClaimsDistinct /\ Sorted
  BY SortedFromInv DEF LayerInv, SortInv, TodoInv, ClaimInv, ClaimsDistinct
<1> QED
  BY <1>1, LayerSafe, PTL
=============================================================================
