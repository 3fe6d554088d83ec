-------------------------- MODULE AllReduce_proofs --------------------------
(***************************************************************************)
(* Proofs about AllReduce, for every world, grid, number of calls, sizes,  *)
(* two-shot threshold and width of the generation: how the elements are    *)
(* divided, the handshake, the sums, and the abstract collective that the  *)
(* protocol implements.                                                    *)
(***************************************************************************)
EXTENDS AllReduceInv, TLAPS

-----------------------------------------------------------------------------
(***************************************************************************)
(* The stripes and the slices of ArPartition each divide the elements of a *)
(* call exactly, for every world, grid and size.                           *)
(***************************************************************************)

\* Division with remainder, for a positive divisor.
LEMMA DivMod ==
    ASSUME NEW a \in Nat, NEW d \in Nat \ {0}
    PROVE  /\ a \div d \in Nat
           /\ d * (a \div d) <= a
           /\ a < d * (a \div d) + d
  BY SMT

\* Multiplying by a natural number keeps the order.
LEMMA MulMono ==
    ASSUME NEW a \in Nat, NEW b \in Nat, NEW c \in Nat, a <= b
    PROVE  a * c <= b * c
  BY SMT

\* A quotient is at least q as soon as q times the divisor fits.
LEMMA DivAtLeast ==
    ASSUME NEW a \in Nat, NEW d \in Nat \ {0}, NEW q \in Nat, a < q * d
    PROVE  a \div d < q
  BY DivMod, SMT

\* A ceiling division covers its dividend.
LEMMA CeilDivCovers ==
    ASSUME NEW a \in Nat, NEW d \in Nat \ {0}
    PROVE  CeilDiv(a, d) \in Nat /\ a <= CeilDiv(a, d) * d
<1>1. a + d - 1 \in Nat
  OBVIOUS
<1>2. CeilDiv(a, d) = (a + d - 1) \div d
  BY DEF CeilDiv
<1>3. CeilDiv(a, d) \in Nat /\ a + d - 1 < d * CeilDiv(a, d) + d
  BY <1>1, <1>2, DivMod
<1> QED
  BY <1>3, SMT

LEMMA ChunkCovers ==
    ASSUME NEW n \in Nat
    PROVE  /\ Chunk(n) \in Nat /\ PerBlock(n) \in Nat
           /\ n <= Chunk(n) * World
           /\ Chunk(n) <= PerBlock(n) * NumBlocks
<1>1. World \in Nat \ {0}
  BY WorldAssumption
<1>2. Chunk(n) \in Nat /\ n <= Chunk(n) * World
  BY <1>1, CeilDivCovers DEF Chunk
<1>3. PerBlock(n) \in Nat /\ Chunk(n) <= PerBlock(n) * NumBlocks
  BY <1>2, GridAssumption, CeilDivCovers DEF PerBlock
<1> QED
  BY <1>2, <1>3

\* What belongs to a slice, without the nested minima.
LEMMA SliceBounds ==
    ASSUME NEW n \in Nat, NEW o \in Ranks, NEW b \in Blocks, NEW i \in Elements(n)
    PROVE  i \in Slice(n, o, b) <=>
              /\ o * Chunk(n) + b * PerBlock(n) <= i
              /\ i < o * Chunk(n) + (b + 1) * PerBlock(n)
              /\ i < o * Chunk(n) + Chunk(n)
<1> DEFINE c == Chunk(n)
           p == PerBlock(n)
           x == o * c
           y == b * p
           z == (b + 1) * p
<1>1. c \in Nat /\ p \in Nat
  BY ChunkCovers
<1>2. o \in Nat /\ b \in Nat /\ i \in Nat /\ i < n
  BY WorldAssumption, GridAssumption DEF Ranks, Blocks, Elements
<1>3. x \in Nat /\ y \in Nat /\ z \in Nat
  BY <1>1, <1>2, SMT
<1>4. i \in Slice(n, o, b) <=> (x + y <= i /\ i < Smaller(x + Smaller(z, c), n))
  BY DEF Slice, SliceLo, SliceHi
<1> HIDE DEF c, p, x, y, z
<1>5. i < Smaller(x + Smaller(z, c), n) <=> (i < x + z /\ i < x + c)
  BY <1>1, <1>2, <1>3 DEF Smaller
<1> QED
  BY <1>4, <1>5 DEF c, p, x, y, z

\* An element of a slice lies in its owner's chunk, which is where the
\* all-gather fetches it.
LEMMA SliceOwner ==
    ASSUME NEW n \in Nat, NEW o \in Ranks, NEW b \in Blocks,
           NEW i \in Slice(n, o, b)
    PROVE  Owner(n, i) = o
<1> DEFINE c == Chunk(n)
<1>1. i \in Elements(n) /\ i \in Nat /\ o \in Nat /\ b \in Nat
  BY WorldAssumption, GridAssumption DEF Slice, Ranks, Blocks, Elements
<1>2. c \in Nat /\ PerBlock(n) \in Nat
  BY ChunkCovers
<1>3. o * c + b * PerBlock(n) <= i /\ i < o * c + c
  BY <1>1, SliceBounds
<1>4. b * PerBlock(n) \in Nat /\ o * c \in Nat
  BY <1>1, <1>2, SMT
<1>5. o * c <= i /\ c > 0
  BY <1>1, <1>2, <1>3, <1>4
<1> HIDE DEF c
<1>6. i \div c \in Nat /\ c * (i \div c) <= i /\ i < c * (i \div c) + c
  <2>1. c \in Nat \ {0}
    BY <1>2, <1>5
  <2> QED
    BY <1>1, <2>1, DivMod
<1> DEFINE q == i \div c
<1> HIDE DEF q
<1>7. q \in Nat /\ c * q <= i /\ i < c * q + c
  BY <1>6 DEF q
<1>8. ~(q < o)
  <2> SUFFICES ASSUME q + 1 <= o PROVE FALSE
    BY <1>1, <1>7
  <2>1. (q + 1) * c <= o * c
    BY <1>1, <1>2, <1>7, MulMono DEF c
  <2> QED
    BY <2>1, <1>1, <1>2, <1>5, <1>7, SMT DEF c
<1>9. ~(o < q)
  <2> SUFFICES ASSUME o + 1 <= q PROVE FALSE
    BY <1>1, <1>7
  <2>1. (o + 1) * c <= q * c
    BY <1>1, <1>2, <1>7, MulMono DEF c
  <2>2. i < o * c + c
    BY <1>3 DEF c
  <2> QED
    BY <2>1, <2>2, <1>1, <1>2, <1>7, SMT DEF c
<1>10. q = o
  BY <1>1, <1>7, <1>8, <1>9
<1> QED
  BY <1>10 DEF Owner, q, c

\* Two different (owner, block) pairs share no element: what one work-group
\* reduces in place no other work-group reduces or gathers in the same phase.
THEOREM SlicesDisjoint ==
    ASSUME NEW n \in Nat, NEW o1 \in Ranks, NEW o2 \in Ranks,
           NEW b1 \in Blocks, NEW b2 \in Blocks, <<o1, b1>> # <<o2, b2>>
    PROVE  Slice(n, o1, b1) \cap Slice(n, o2, b2) = {}
<1> SUFFICES ASSUME NEW i \in Slice(n, o1, b1), i \in Slice(n, o2, b2)
             PROVE  FALSE
  OBVIOUS
<1>1. o1 = o2
  BY SliceOwner
<1>2. b1 # b2
  BY <1>1
<1> DEFINE p == PerBlock(n)
           x == o1 * Chunk(n)
<1>3. i \in Elements(n) /\ i \in Nat /\ o1 \in Nat /\ b1 \in Nat /\ b2 \in Nat
  BY WorldAssumption, GridAssumption DEF Slice, Ranks, Blocks, Elements
<1>4. p \in Nat /\ x \in Nat
  BY <1>3, ChunkCovers, SMT
<1>5. /\ x + b1 * p <= i /\ i < x + (b1 + 1) * p
      /\ x + b2 * p <= i /\ i < x + (b2 + 1) * p
  BY <1>1, <1>3, SliceBounds
<1> HIDE DEF p, x
<1>6. CASE b1 + 1 <= b2
  <2>1. (b1 + 1) * p <= b2 * p
    BY <1>3, <1>4, <1>6, MulMono
  <2>2. b2 * p \in Nat /\ (b1 + 1) * p \in Nat
    BY <1>3, <1>4, SMT
  <2> QED
    BY <2>1, <2>2, <1>3, <1>4, <1>5
<1>7. CASE b2 + 1 <= b1
  <2>1. (b2 + 1) * p <= b1 * p
    BY <1>3, <1>4, <1>7, MulMono
  <2>2. b1 * p \in Nat /\ (b2 + 1) * p \in Nat
    BY <1>3, <1>4, SMT
  <2> QED
    BY <2>1, <2>2, <1>3, <1>4, <1>5
<1> QED
  BY <1>2, <1>3, <1>6, <1>7

\* Every element of a call belongs to some slice: two-shot leaves none out.
THEOREM SlicesCover ==
    ASSUME NEW n \in Nat, NEW i \in Elements(n)
    PROVE  \E o \in Ranks, b \in Blocks : i \in Slice(n, o, b)
<1> DEFINE c == Chunk(n)
           p == PerBlock(n)
           o == i \div c
           j == i - o * c
           b == j \div p
<1>1. i \in Nat /\ i < n /\ World \in Nat /\ NumBlocks \in Nat
  BY WorldAssumption, GridAssumption DEF Elements
<1>2. c \in Nat /\ p \in Nat /\ n <= c * World /\ c <= p * NumBlocks
  BY ChunkCovers
<1>3. c > 0
  BY <1>1, <1>2, SMT
<1> HIDE DEF c, p
<1>4. c \in Nat \ {0} /\ i < World * c
  BY <1>1, <1>2, <1>3, SMT
<1>5. o \in Nat /\ c * o <= i /\ i < c * o + c /\ o < World
  BY <1>1, <1>4, DivMod, DivAtLeast
<1> HIDE DEF o
<1>6. j \in Nat /\ j < c /\ o * c \in Nat
  BY <1>1, <1>2, <1>5, SMT
<1>7. p > 0
  BY <1>1, <1>2, <1>3, SMT
<1> HIDE DEF j
<1>8. b \in Nat /\ p * b <= j /\ j < p * b + p
  BY <1>2, <1>6, <1>7, DivMod
<1>9. j < NumBlocks * p
  BY <1>1, <1>2, <1>6, SMT
<1>10. b < NumBlocks
  BY <1>1, <1>2, <1>6, <1>7, <1>9, DivAtLeast
<1> HIDE DEF b
<1>11. o \in Ranks /\ b \in Blocks
  BY <1>1, <1>5, <1>8, <1>10 DEF Ranks, Blocks
<1>12. i = o * c + j
  BY <1>1, <1>6 DEF j
<1>13. b * p = p * b /\ (b + 1) * p = p * b + p /\ p * b \in Nat
  BY <1>2, <1>8, SMT
<1>14. o * c + b * p <= i /\ i < o * c + (b + 1) * p /\ i < o * c + c
  BY <1>2, <1>6, <1>8, <1>12, <1>13
<1>15. i \in Slice(n, o, b)
  BY <1>11, <1>14, SliceBounds DEF c, p
<1> QED
  BY <1>11, <1>15

\* Every element of a call belongs to the stripe of exactly one work-group.
THEOREM StripesPartition ==
    ASSUME NEW n \in Nat, NEW i \in Elements(n)
    PROVE  /\ \E b \in Blocks : i \in Stripe(n, b)
           /\ \A b, c \in Blocks :
                i \in Stripe(n, b) /\ i \in Stripe(n, c) => b = c
<1>1. i \in Nat /\ NumBlocks \in Nat \ {0} /\ WgSize \in Nat \ {0}
  BY GridAssumption DEF Elements
<1>2. Stride \in Nat \ {0}
  BY <1>1, SMT DEF Stride
<1>3. i % Stride \in Nat /\ i % Stride < NumBlocks * WgSize
  BY <1>1, <1>2 DEF Stride
<1>4. (i % Stride) \div WgSize \in Nat
  BY <1>1, <1>3, DivMod
<1>5. (i % Stride) \div WgSize < NumBlocks
  BY <1>1, <1>3, DivAtLeast
<1>6. (i % Stride) \div WgSize \in Blocks
  BY <1>1, <1>4, <1>5 DEF Blocks
<1> QED
  BY <1>6 DEF Stripe

-----------------------------------------------------------------------------
(* The protocol                                                             *)

LEMMA SetFacts ==
    /\ World \in Nat \ {0} /\ NumBlocks \in Nat \ {0}
    /\ 0 \in Ranks /\ Ranks \subseteq Nat /\ Blocks \subseteq Nat
  BY WorldAssumption, GridAssumption DEF Ranks, Blocks

LEMMA IncrGenType ==
    ASSUME NEW g \in Nat
    PROVE  IncrGen(g) \in 0..(GenMod - 1)
  BY WidthAssumption DEF IncrGen

-----------------------------------------------------------------------------
(* Type correctness                                                         *)

LEMMA TypeInit == Init => TypeOK
<1> SUFFICES ASSUME Init PROVE TypeOK
  OBVIOUS
<1>1. 0 \in 0..MaxCalls /\ 0 \in 0..(GenMod - 1)
  BY SizesAssumption, WidthAssumption
<1>2. [call |-> 0, pc |-> "done", target |-> 0, pub |-> {}, seen |-> {}] \in WgState
  BY <1>1 DEF WgState
<1> QED
  BY <1>1, <1>2 DEF Init, TypeOK

LEMMA EnteringType ==
    ASSUME TypeOK, NEW r \in Ranks, NEW b \in Blocks, NEW k \in 0..MaxCalls,
           NEW p \in Phases
    PROVE  Entering(r, b, k, p) \in WgState
<1>1. gen[r][b] \in Nat
  BY WidthAssumption DEF TypeOK
<1> QED
  BY <1>1, IncrGenType DEF Entering, WgState

LEMMA TypeGroupStep ==
    ASSUME TypeOK, NEW r \in Ranks, NEW b \in Blocks, GroupStep(r, b)
    PROVE  TypeOK'
<1> USE DEF TypeOK
<1>0. wg[r][b] \in WgState
  OBVIOUS
<1>1. CASE Stage(r, b)
  BY <1>1 DEF Stage
<1>2. CASE Start(r, b)
  <2>1. wg[r][b].call + 1 \in 0..MaxCalls
    BY <1>0, <1>2, SizesAssumption DEF Start, ReadyToStart, WgState
  <2>2. Entering(r, b, wg[r][b].call + 1, "arrive") \in WgState
    BY <2>1, EnteringType DEF Phases
  <2> QED
    BY <1>2, <2>2 DEF Start
<1>3. ASSUME NEW l \in Ranks, Publish(r, b, l) PROVE TypeOK'
  <2>1. wg[r][b].pc \in Phases /\ wg[r][b].target \in 0..(GenMod - 1)
    BY <1>0, <1>3 DEF Publish, WgState
  <2>2. sync' \in [Ranks -> [Phases -> [Blocks -> [Ranks -> 0..(GenMod - 1)]]]]
    BY <1>3, <2>1 DEF Publish
  <2>3. [wg[r][b] EXCEPT !.pub = @ \cup {l}] \in WgState
    BY <1>0 DEF WgState
  <2>4. wg' \in [Ranks -> [Blocks -> WgState]]
    BY <1>3, <2>3 DEF Publish
  <2> QED
    BY <1>3, <2>2, <2>4 DEF Publish
<1>4. ASSUME NEW l \in Ranks, Observe(r, b, l) \/ Expire(r, b, l) PROVE TypeOK'
  <2>1. Through(r, b, l)
    BY <1>4 DEF Observe, Expire
  <2>2. [wg[r][b] EXCEPT !.seen = @ \cup {l}] \in WgState
    BY <1>0 DEF WgState
  <2>3. wg' \in [Ranks -> [Blocks -> WgState]]
    BY <2>1, <2>2 DEF Through
  <2>4. gen' \in [Ranks -> [Blocks -> 0..(GenMod - 1)]]
    BY <1>0, <2>1 DEF Through, WgState
  <2> QED
    BY <1>4, <2>3, <2>4 DEF Observe, Expire
<1>5. CASE EndRendezvous(r, b)
  <2>1. After(wg[r][b].pc) \in Phases \cup {"reduce", "gather", "done"}
    BY <1>5 DEF EndRendezvous, After, Phases
  <2>2. [wg[r][b] EXCEPT !.pc = After(wg[r][b].pc)] \in WgState
    BY <1>0, <2>1 DEF WgState
  <2>3. wg' \in [Ranks -> [Blocks -> WgState]]
    BY <1>5, <2>2 DEF EndRendezvous
  <2>4. gen' \in [Ranks -> [Blocks -> 0..(GenMod - 1)]]
    BY <1>0, <1>5 DEF EndRendezvous, WgState
  <2> QED
    BY <1>5, <2>3, <2>4 DEF EndRendezvous
<1>6. CASE ReduceOneShot(r, b)
  <2>1. Entering(r, b, wg[r][b].call, "depart") \in WgState
    BY <1>0, EnteringType DEF Phases, WgState
  <2> QED
    BY <1>6, <2>1 DEF ReduceOneShot
<1>7. CASE ReduceScatter(r, b)
  <2>1. Entering(r, b, wg[r][b].call, "mid") \in WgState
    BY <1>0, EnteringType DEF Phases, WgState
  <2> QED
    BY <1>7, <2>1 DEF ReduceScatter
<1>8. CASE Gather(r, b)
  <2>1. Entering(r, b, wg[r][b].call, "depart") \in WgState
    BY <1>0, EnteringType DEF Phases, WgState
  <2> QED
    BY <1>8, <2>1 DEF Gather
<1> QED
  BY <1>1, <1>2, <1>3, <1>4, <1>5, <1>6, <1>7, <1>8 DEF GroupStep

LEMMA TypeStep ==
    ASSUME TypeOK, [Next]_vars
    PROVE  TypeOK'
<1>1. ASSUME NEW r \in Ranks, Submit(r) PROVE TypeOK'
  BY <1>1, SizesAssumption DEF Submit, TypeOK
<1>2. ASSUME NEW r \in Ranks, StartStage(r) PROVE TypeOK'
  BY <1>2, SizesAssumption DEF StartStage, TypeOK
<1>3. ASSUME NEW r \in Ranks, Die(r) PROVE TypeOK'
  BY <1>3 DEF Die, TypeOK
<1>4. CASE UNCHANGED vars
  BY <1>4 DEF vars, TypeOK
<1> QED
  BY <1>1, <1>2, <1>3, <1>4, TypeGroupStep DEF Next

\* Every variable keeps its type.
THEOREM TypeCorrect == Spec => []TypeOK
  BY TypeInit, TypeStep, PTL DEF Spec

-----------------------------------------------------------------------------
(* What a step does to one work-group                                       *)

LEMMA GroupTypes ==
    ASSUME TypeOK, NEW r \in Ranks, NEW b \in Blocks
    PROVE  /\ wg[r][b].call \in 0..MaxCalls
           /\ wg[r][b].pc \in {"arrive", "mid", "depart", "reduce", "gather", "done"}
           /\ wg[r][b].target \in Nat
           /\ wg[r][b].pub \subseteq Ranks /\ wg[r][b].seen \subseteq Ranks
           /\ gen[r][b] \in Nat
           /\ Completed(r, b) \in Int
           /\ \A s \in Ranks : Announced(r, b, s) \in Int
           /\ scall[r] \in 0..MaxCalls
           /\ MaxCalls \in Nat
  BY WidthAssumption, SizesAssumption
  DEF TypeOK, WgState, Phases, Completed, Announced, InRendezvous

\* Replacing the record of one work-group leaves the others as they were.
LEMMA Replaced ==
    ASSUME NEW f \in [Ranks -> [Blocks -> WgState]], NEW r \in Ranks, NEW b \in Blocks, NEW v,
           NEW g, g = [f EXCEPT ![r][b] = v]
    PROVE  /\ g[r][b] = v
           /\ \A s \in Ranks, c \in Blocks : <<s, c>> # <<r, b>> => g[s][c] = f[s][c]
  OBVIOUS

\* What the data phases of a work-group have in common: it enters the next
\* rendezvous, and touches no generation and nothing of the stage kernel.
LEMMA WorkMoves ==
    ASSUME TypeOK, NEW r \in Ranks, NEW b \in Blocks,
           ReduceOneShot(r, b) \/ ReduceScatter(r, b) \/ Gather(r, b)
    PROVE  /\ wg'[r][b] = Entering(r, b, wg[r][b].call, IF ReduceScatter(r, b) THEN "mid" ELSE "depart")
           /\ \A s \in Ranks, c \in Blocks : <<s, c>> # <<r, b>> => wg'[s][c] = wg[s][c]
           /\ gen' = gen /\ scall' = scall /\ swait' = swait
           /\ wg[r][b].pc \in {"reduce", "gather"}
           /\ ~ReduceScatter(r, b) => staging' = staging
           /\ ~ReduceScatter(r, b) /\ wg[r][b].pc = "reduce" => ~TwoShot(wg[r][b].call)
<1> DEFINE k == wg[r][b].call
           moved(p) == wg' = [wg EXCEPT ![r][b] = Entering(r, b, k, p)]
           kept == gen' = gen /\ scall' = scall /\ swait' = swait
<1>1. wg \in [Ranks -> [Blocks -> WgState]]
  BY DEF TypeOK
<1>2. ReduceScatter(r, b) => moved("mid") /\ kept /\ wg[r][b].pc = "reduce"
  BY DEF ReduceScatter
<1>3. ReduceOneShot(r, b) => moved("depart") /\ kept /\ wg[r][b].pc = "reduce" /\ ~TwoShot(k) /\ staging' = staging
  BY DEF ReduceOneShot
<1>4. Gather(r, b) => moved("depart") /\ kept /\ wg[r][b].pc = "gather" /\ staging' = staging
  BY DEF Gather
<1>5. ASSUME NEW p, moved(p)
      PROVE  /\ wg'[r][b] = Entering(r, b, k, p)
             /\ \A s \in Ranks, c \in Blocks : <<s, c>> # <<r, b>> => wg'[s][c] = wg[s][c]
  <2>1. PICK g : g = wg'
    OBVIOUS
  <2>2. PICK v : v = Entering(r, b, k, p)
    OBVIOUS
  <2>3. g = [wg EXCEPT ![r][b] = v]
    BY <1>5, <2>1, <2>2
  <2>4. g[r][b] = v /\ \A s \in Ranks, c \in Blocks : <<s, c>> # <<r, b>> => g[s][c] = wg[s][c]
    BY <1>1, <2>3, Replaced
  <2> QED
    BY <2>1, <2>2, <2>4
<1> HIDE DEF moved, kept, k
<1>6. CASE ReduceScatter(r, b)
  <2>1. moved("mid") /\ kept /\ wg[r][b].pc = "reduce"
    BY <1>2, <1>6
  <2>2. wg'[r][b] = Entering(r, b, k, "mid")
    BY <1>5, <2>1
  <2>3. \A s \in Ranks, c \in Blocks : <<s, c>> # <<r, b>> => wg'[s][c] = wg[s][c]
    BY <1>5, <2>1
  <2> QED
    BY <1>6, <2>1, <2>2, <2>3 DEF kept, k
<1>7. CASE ~ReduceScatter(r, b)
  <2>1. moved("depart") /\ kept /\ wg[r][b].pc \in {"reduce", "gather"} /\ staging' = staging
    BY <1>3, <1>4, <1>7
  <2>2. wg[r][b].pc = "reduce" => ~TwoShot(k)
    BY <1>3, <1>4, <1>7
  <2>3. wg'[r][b] = Entering(r, b, k, "depart")
    BY <1>5, <2>1
  <2>4. \A s \in Ranks, c \in Blocks : <<s, c>> # <<r, b>> => wg'[s][c] = wg[s][c]
    BY <1>5, <2>1
  <2> QED
    BY <1>7, <2>1, <2>2, <2>3, <2>4 DEF kept, k
<1> QED
  BY <1>6, <1>7

\* The two steps that deliver are not the reduce-scatter.
LEMMA DeliversApart ==
    ASSUME NEW r \in Ranks, NEW b \in Blocks, ReduceOneShot(r, b) \/ Gather(r, b)
    PROVE  ~ReduceScatter(r, b)
<1>1. ReduceScatter(r, b) => wg[r][b].pc = "reduce" /\ TwoShot(wg[r][b].call)
  BY DEF ReduceScatter
<1>2. ReduceOneShot(r, b) => ~TwoShot(wg[r][b].call)
  BY DEF ReduceOneShot
<1>3. Gather(r, b) => wg[r][b].pc = "gather"
  BY DEF Gather
<1> QED
  BY <1>1, <1>2, <1>3

\* A step of one work-group leaves every other one as it was.
LEMMA OtherGroups ==
    ASSUME TypeOK, NEW r \in Ranks, NEW b \in Blocks, GroupStep(r, b),
           NEW s \in Ranks, NEW c \in Blocks, <<s, c>> # <<r, b>>
    PROVE  wg'[s][c] = wg[s][c] /\ gen'[s][c] = gen[s][c]
<1> USE DEF TypeOK
<1>1. CASE Stage(r, b)
  BY <1>1 DEF Stage
<1>2. CASE Start(r, b)
  BY <1>2 DEF Start
<1>3. CASE \E l \in Ranks : Publish(r, b, l)
  BY <1>3 DEF Publish
<1>4. CASE \E l \in Ranks : Observe(r, b, l) \/ Expire(r, b, l)
  <2>1. PICK l \in Ranks : Through(r, b, l)
    BY <1>4 DEF Observe, Expire
  <2> QED
    BY <2>1 DEF Through
<1>5. CASE EndRendezvous(r, b)
  BY <1>5 DEF EndRendezvous
<1>6. CASE ReduceOneShot(r, b) \/ ReduceScatter(r, b) \/ Gather(r, b)
  <2>1. wg'[s][c] = wg[s][c] /\ gen' = gen
    BY <1>6, WorkMoves
  <2> QED
    BY <2>1
<1> QED
  BY <1>1, <1>2, <1>3, <1>4, <1>5, <1>6 DEF GroupStep

\* Equal records and generations give equal counts and positions.
LEMMA SameGroup ==
    ASSUME NEW r \in Ranks, NEW b \in Blocks,
           wg'[r][b] = wg[r][b], gen'[r][b] = gen[r][b]
    PROVE  /\ Completed(r, b)' = Completed(r, b)
           /\ Position(r, b)' = Position(r, b)
           /\ \A s \in Ranks : Announced(r, b, s)' = Announced(r, b, s)
           /\ InRendezvous(r, b)' <=> InRendezvous(r, b)
           /\ GroupOK(r, b)' <=> GroupOK(r, b)
<1>1. Completed(r, b)' = Completed(r, b) /\ (InRendezvous(r, b)' <=> InRendezvous(r, b))
  BY DEF Completed, InRendezvous
<1>2. Position(r, b)' = Position(r, b)
  BY DEF Position, Passed, TwoShot
<1> QED
  BY <1>1, <1>2 DEF Announced, GroupOK, TwoShot

\* Below the width of the generation, the increment does not wrap.
LEMMA NoWrap ==
    ASSUME Regular, NEW g \in Nat, g < 3 * MaxCalls
    PROVE  IncrGen(g) = g + 1
  BY SizesAssumption, WidthAssumption DEF Regular, IncrGen

\* Positions, case by case.
LEMMA Positions ==
    ASSUME TypeOK, NEW r \in Ranks, NEW b \in Blocks
    PROVE  LET w == wg[r][b]
               p == Position(r, b)
           IN  /\ w.pc = "arrive" => p = <<w.call, 0>>
               /\ w.pc \in {"reduce", "mid"} => p = <<w.call, 1>>
               /\ w.pc = "gather" => p = <<w.call, 2>>
               /\ w.pc = "depart" =>
                     p = <<w.call, IF TwoShot(w.call) THEN 2 ELSE 1>>
               /\ w.pc = "done" => p = <<w.call + 1, 0>>
  BY GroupTypes DEF Position, Passed

\* A step either leaves the work-group's count and position alone (and then
\* at most announces it to one more rank), or ends a rendezvous.
QuietAt(r, b) ==
    /\ Completed(r, b)' = Completed(r, b)
    /\ Position(r, b)' = Position(r, b)

LEMMA StartEffect ==
    ASSUME Regular, TypeOK, GroupInv, NEW r \in Ranks, NEW b \in Blocks,
           Start(r, b)
    PROVE  /\ GroupOK(r, b)'
           /\ QuietAt(r, b)
           /\ \A s \in Ranks : Announced(r, b, s)' = Announced(r, b, s)
           /\ wg'[r][b] = Entering(r, b, wg[r][b].call + 1, "arrive")
           /\ wg'[r][b].seen = {}
           /\ TypeOK'
<1> DEFINE w == wg[r][b]
<1>1. TypeOK' /\ GroupOK(r, b)
  BY TypeGroupStep DEF GroupStep, GroupInv
<1>2. wg'[r][b] = Entering(r, b, w.call + 1, "arrive") /\ gen' = gen /\ w.pc = "done"
  BY DEF Start, TypeOK
<1>3. w.call + 1 \in 1..MaxCalls /\ w.call \in Nat
  BY GroupTypes DEF Start, ReadyToStart, TypeOK
<1>4. Position(r, b) = <<w.call + 1, 0>> /\ Completed(r, b) = gen[r][b]
  BY <1>2, Positions DEF Completed, InRendezvous, Phases
<1>5. gen[r][b] \in Nat /\ gen[r][b] <= 3 * w.call
  BY <1>1, <1>3, <1>4, GroupTypes DEF GroupOK
<1>6. IncrGen(gen[r][b]) = gen[r][b] + 1
  BY <1>3, <1>5, NoWrap, SizesAssumption
<1>7. wg'[r][b] = [call |-> w.call + 1, pc |-> "arrive", target |-> gen[r][b] + 1,
                   pub |-> {}, seen |-> {}]
  BY <1>2, <1>6 DEF Entering
<1>8. Completed(r, b)' = gen[r][b] /\ Position(r, b)' = <<w.call + 1, 0>>
  BY <1>5, <1>7 DEF Completed, InRendezvous, Phases, Position, Passed
<1>9. \A s \in Ranks : Announced(r, b, s)' = gen[r][b] /\ Announced(r, b, s) = gen[r][b]
  BY <1>2, <1>4, <1>7, <1>8 DEF Announced, InRendezvous, Phases
<1>10. GroupOK(r, b)'
  BY <1>2, <1>3, <1>5, <1>7, <1>8 DEF GroupOK, Phases
<1> QED
  BY <1>1, <1>2, <1>4, <1>7, <1>8, <1>9, <1>10 DEF QuietAt

LEMMA PublishEffect ==
    ASSUME Regular, TypeOK, GroupInv, NEW r \in Ranks, NEW b \in Blocks,
           NEW l \in Ranks, Publish(r, b, l)
    PROVE  /\ GroupOK(r, b)'
           /\ QuietAt(r, b)
           /\ InRendezvous(r, b)
           /\ Announced(r, b, l)' = Completed(r, b) + 1
           /\ Announced(r, b, l) = Completed(r, b)
           /\ \A s \in Ranks \ {l} : Announced(r, b, s)' = Announced(r, b, s)
           /\ wg'[r][b].seen = wg[r][b].seen
           /\ wg[r][b].target = Completed(r, b) + 1
<1> DEFINE w == wg[r][b]
<1>1. GroupOK(r, b) /\ w \in WgState
  BY DEF GroupInv, TypeOK
<1>2. /\ w.pc \in Phases /\ l \notin w.pub /\ gen' = gen
      /\ wg'[r][b] = [w EXCEPT !.pub = @ \cup {l}]
  BY DEF Publish, TypeOK
<1>3. /\ wg'[r][b].call = w.call /\ wg'[r][b].pc = w.pc
      /\ wg'[r][b].target = w.target /\ wg'[r][b].seen = w.seen
      /\ wg'[r][b].pub = w.pub \cup {l}
  BY <1>1, <1>2 DEF WgState
<1>4. QuietAt(r, b) /\ InRendezvous(r, b) /\ InRendezvous(r, b)'
  BY <1>2, <1>3 DEF QuietAt, Completed, InRendezvous, Position, Passed, TwoShot, Phases
<1>5. w.target = Completed(r, b) + 1
  BY <1>4, GroupTypes DEF Completed
<1>6. /\ Announced(r, b, l)' = Completed(r, b) + 1
      /\ Announced(r, b, l) = Completed(r, b)
      /\ \A s \in Ranks \ {l} : Announced(r, b, s)' = Announced(r, b, s)
  BY <1>2, <1>3, <1>4 DEF Announced, QuietAt
<1>7. GroupOK(r, b)'
  BY <1>1, <1>2, <1>3, <1>4 DEF GroupOK, QuietAt, TwoShot
<1> QED
  BY <1>3, <1>4, <1>5, <1>6, <1>7

LEMMA ThroughEffect ==
    ASSUME Regular, TypeOK, GroupInv, NEW r \in Ranks, NEW b \in Blocks,
           NEW l \in Ranks, Observe(r, b, l)
    PROVE  /\ GroupOK(r, b)'
           /\ QuietAt(r, b)
           /\ InRendezvous(r, b)
           /\ \A s \in Ranks : Announced(r, b, s)' = Announced(r, b, s)
           /\ wg'[r][b].seen = wg[r][b].seen \cup {l}
           /\ Completed(r, b) < sync[r][wg[r][b].pc][b][l]
<1> DEFINE w == wg[r][b]
<1>1. GroupOK(r, b) /\ w \in WgState /\ gen[r][b] \in Nat
  BY GroupTypes DEF GroupInv, TypeOK
<1>2. /\ w.pc \in Phases /\ l \in w.pub \ w.seen
      /\ wg'[r][b] = [w EXCEPT !.seen = @ \cup {l}]
      /\ gen'[r][b] = IF w.pc = "depart" /\ l = 0 THEN w.target ELSE gen[r][b]
  BY DEF Observe, Spinning, Through, TypeOK
<1>3. /\ wg'[r][b].call = w.call /\ wg'[r][b].pc = w.pc
      /\ wg'[r][b].target = w.target /\ wg'[r][b].pub = w.pub
      /\ wg'[r][b].seen = w.seen \cup {l}
  BY <1>1, <1>2 DEF WgState
<1>4. QuietAt(r, b) /\ InRendezvous(r, b) /\ InRendezvous(r, b)'
  BY <1>2, <1>3 DEF QuietAt, Completed, InRendezvous, Position, Passed, TwoShot, Phases
<1>5. \A s \in Ranks : Announced(r, b, s)' = Announced(r, b, s)
  BY <1>2, <1>3, <1>4 DEF Announced, QuietAt
<1>6. sync[r][w.pc][b][l] \in Nat /\ w.target \in Nat
  BY <1>2, GroupTypes, WidthAssumption DEF TypeOK
<1>7. Completed(r, b) < sync[r][w.pc][b][l]
  BY <1>4, <1>6 DEF Observe, Behind, Completed
<1>8. GroupOK(r, b)'
  <2>1. w.pc \in {"arrive", "mid"} => wg'[r][b].target = gen'[r][b] + 1
    BY <1>1, <1>2, <1>3 DEF GroupOK
  <2>2. w.pc = "depart" => wg'[r][b].target =
            IF 0 \in wg'[r][b].seen THEN gen'[r][b] ELSE gen'[r][b] + 1
    BY <1>1, <1>2, <1>3 DEF GroupOK
  <2> QED
    BY <1>1, <1>2, <1>3, <1>4, <2>1, <2>2 DEF GroupOK, QuietAt, TwoShot
<1> QED
  BY <1>3, <1>4, <1>5, <1>7, <1>8

LEMMA EndEffect ==
    ASSUME Regular, TypeOK, GroupInv, NEW r \in Ranks, NEW b \in Blocks,
           EndRendezvous(r, b)
    PROVE  /\ GroupOK(r, b)'
           /\ Completed(r, b)' = Completed(r, b) + 1
           /\ Position(r, b)' = NextPosition(Position(r, b))
           /\ InRendezvous(r, b) /\ ~InRendezvous(r, b)'
           /\ wg[r][b].seen = Ranks
           /\ \A s \in Ranks : /\ Announced(r, b, s)' = Announced(r, b, s)
                               /\ Announced(r, b, s) = Completed(r, b) + 1
<1> DEFINE w == wg[r][b]
<1>1. GroupOK(r, b) /\ w \in WgState /\ gen[r][b] \in Nat
  BY GroupTypes DEF GroupInv, TypeOK
<1>2. /\ w.pc \in Phases /\ w.seen = Ranks
      /\ wg'[r][b] = [w EXCEPT !.pc = After(w.pc)]
      /\ gen'[r][b] = IF w.pc = "depart" THEN gen[r][b] ELSE w.target
  BY DEF EndRendezvous, TypeOK
<1>3. w.pub = Ranks /\ 0 \in w.seen
  BY <1>1, <1>2, GroupTypes, SetFacts DEF GroupOK
<1>4. /\ wg'[r][b].call = w.call /\ wg'[r][b].pc = After(w.pc)
      /\ wg'[r][b].target = w.target
  BY <1>1, <1>2 DEF WgState
<1>5. wg'[r][b].pc \in {"reduce", "gather", "done"} /\ ~InRendezvous(r, b)'
  BY <1>2, <1>4 DEF After, Phases, InRendezvous
<1>6. InRendezvous(r, b) /\ Completed(r, b) = w.target - 1
  BY <1>2 DEF InRendezvous, Completed
<1>7. gen'[r][b] = w.target
  BY <1>1, <1>2, <1>3 DEF GroupOK, Phases
<1>8. Completed(r, b)' = w.target /\ w.target \in Nat
  BY <1>5, <1>7, GroupTypes DEF Completed
<1>9. \A s \in Ranks : Announced(r, b, s)' = w.target /\ Announced(r, b, s) = w.target
  BY <1>3, <1>5, <1>6, <1>8 DEF Announced
<1>10. /\ Position(r, b)' = NextPosition(Position(r, b))
       /\ GroupOK(r, b)'
  <2>1. CASE w.pc = "arrive"
    <3>1. wg'[r][b].pc = "reduce"
      BY <2>1, <1>4 DEF After
    <3>2. Position(r, b) = <<w.call, 0>> /\ Position(r, b)' = <<w.call, 1>>
      BY <2>1, <3>1, <1>4, Positions DEF Position, Passed
    <3> QED
      BY <3>1, <3>2, <1>1, <1>4, <1>6, <1>8, <2>1, GroupTypes
      DEF NextPosition, PhaseCount, GroupOK, Phases
  <2>2. CASE w.pc = "mid"
    <3>1. wg'[r][b].pc = "gather" /\ TwoShot(w.call)
      BY <2>2, <1>1, <1>4 DEF After, GroupOK
    <3>2. Position(r, b) = <<w.call, 1>> /\ Position(r, b)' = <<w.call, 2>>
      BY <2>2, <3>1, <1>4, Positions DEF Position, Passed
    <3> QED
      BY <3>1, <3>2, <1>1, <1>4, <1>6, <1>8, <2>2, GroupTypes
      DEF NextPosition, PhaseCount, GroupOK, Phases, TwoShot
  <2>3. CASE w.pc = "depart"
    <3>1. wg'[r][b].pc = "done"
      BY <2>3, <1>4 DEF After
    <3>2. /\ Position(r, b) = <<w.call, IF TwoShot(w.call) THEN 2 ELSE 1>>
          /\ Position(r, b)' = <<w.call + 1, 0>>
      BY <2>3, <3>1, <1>4, Positions DEF Position
    <3>3. Position(r, b)' = NextPosition(Position(r, b))
      BY <3>2 DEF NextPosition, PhaseCount
    <3>4. Completed(r, b)' <= 3 * (Position(r, b)'[1] - 1) + Position(r, b)'[2]
      BY <3>2, <1>1, <1>6, <1>8, GroupTypes DEF GroupOK
    <3>5. GroupOK(r, b)'
      BY <3>1, <3>4 DEF GroupOK, Phases
    <3> QED
      BY <3>3, <3>5
  <2> QED
    BY <2>1, <2>2, <2>3, <1>2 DEF Phases
<1> QED
  BY <1>2, <1>5, <1>6, <1>8, <1>9, <1>10

\* The three steps that do the data work and enter the next rendezvous.
Work(r, b) == ReduceOneShot(r, b) \/ ReduceScatter(r, b) \/ Gather(r, b)

LEMMA WorkEffect ==
    ASSUME Regular, TypeOK, GroupInv, NEW r \in Ranks, NEW b \in Blocks,
           Work(r, b)
    PROVE  /\ GroupOK(r, b)'
           /\ QuietAt(r, b)
           /\ ~InRendezvous(r, b)
           /\ \A s \in Ranks : Announced(r, b, s)' = Announced(r, b, s)
           /\ wg'[r][b].seen = {}
           /\ wg'[r][b].call = wg[r][b].call
           /\ wg'[r][b].pc \in Phases
<1> DEFINE w == wg[r][b]
           k == wg[r][b].call
           p == IF ReduceScatter(r, b) THEN "mid" ELSE "depart"
<1>1. GroupOK(r, b) /\ w \in WgState /\ gen[r][b] \in Nat
  BY GroupTypes DEF GroupInv, TypeOK
<1>2. /\ wg'[r][b] = Entering(r, b, k, p) /\ gen' = gen
      /\ w.pc \in {"reduce", "gather"}
  BY WorkMoves DEF Work
<1>3. /\ w.pc = "reduce" => p = IF TwoShot(k) THEN "mid" ELSE "depart"
      /\ w.pc = "gather" => p = "depart" /\ TwoShot(k)
  BY <1>1 DEF Work, ReduceOneShot, ReduceScatter, Gather, GroupOK
<1> HIDE DEF p
<1>4. ~InRendezvous(r, b) /\ Completed(r, b) = gen[r][b]
  BY <1>2 DEF InRendezvous, Completed, Phases
<1>5. /\ k \in 1..MaxCalls
      /\ Position(r, b) = <<k, IF w.pc = "reduce" THEN 1 ELSE 2>>
  BY <1>1, <1>2, GroupTypes, Positions DEF GroupOK
<1>6. gen[r][b] <= 3 * (k - 1) + 2
  BY <1>1, <1>4, <1>5 DEF GroupOK
<1>7. IncrGen(gen[r][b]) = gen[r][b] + 1
  BY <1>1, <1>5, <1>6, NoWrap, SizesAssumption
<1>8. wg'[r][b] = [call |-> k, pc |-> p, target |-> gen[r][b] + 1,
                   pub |-> {}, seen |-> {}]
  BY <1>2, <1>7 DEF Entering
<1>9. p \in {"mid", "depart"}
  BY <1>2, <1>3
<1>10. Completed(r, b)' = gen[r][b] /\ InRendezvous(r, b)'
  BY <1>1, <1>8, <1>9 DEF Completed, InRendezvous, Phases
<1>11. Position(r, b)' = Position(r, b)
  BY <1>2, <1>3, <1>5, <1>8 DEF Position, Passed, TwoShot
<1>12. \A s \in Ranks : Announced(r, b, s)' = gen[r][b] /\ Announced(r, b, s) = gen[r][b]
  BY <1>4, <1>8, <1>10 DEF Announced
<1>13. GroupOK(r, b)'
  BY <1>1, <1>2, <1>3, <1>4, <1>5, <1>8, <1>9, <1>10, <1>11 DEF GroupOK, TwoShot, Phases
<1> QED
  BY <1>4, <1>8, <1>9, <1>10, <1>11, <1>12, <1>13 DEF QuietAt, Phases

-----------------------------------------------------------------------------
(* The protocol invariant                                                   *)

LEMMA ProtocolInit == Init => ProtocolInv
<1> SUFFICES ASSUME Init PROVE ProtocolInv
  OBVIOUS
<1>1. TypeOK
  BY TypeInit
<1>2. \A r \in Ranks, b \in Blocks :
        /\ wg[r][b] = [call |-> 0, pc |-> "done", target |-> 0,
                       pub |-> {}, seen |-> {}]
        /\ gen[r][b] = 0
  BY DEF Init
<1>3. \A r \in Ranks, b \in Blocks :
        /\ ~InRendezvous(r, b) /\ Completed(r, b) = 0 /\ Position(r, b) = <<1, 0>>
        /\ \A s \in Ranks : Announced(r, b, s) = 0
  BY <1>2 DEF InRendezvous, Completed, Announced, Position, Phases
<1>4. GroupInv
  BY <1>2, <1>3 DEF GroupInv, GroupOK, InRendezvous, Phases
<1>5. FlagInv
  BY <1>3 DEF FlagInv, Init
<1>6. AlignInv
  BY <1>3 DEF AlignInv
<1>7. KernelInv
  BY <1>2 DEF KernelInv, Init
<1> QED
  BY <1>1, <1>4, <1>5, <1>6, <1>7 DEF ProtocolInv

LEMMA GroupInvStep ==
    ASSUME Regular, TypeOK, GroupInv, NEW r \in Ranks, NEW b \in Blocks,
           GroupStep(r, b)
    PROVE  GroupInv'
<1>1. GroupOK(r, b)'
  <2>1. CASE Stage(r, b)
    <3>1. wg'[r][b] = wg[r][b] /\ gen'[r][b] = gen[r][b]
      BY <2>1 DEF Stage
    <3> QED
      BY <3>1, SameGroup DEF GroupInv
  <2>2. CASE Start(r, b)
    BY <2>2, StartEffect
  <2>3. ASSUME NEW l \in Ranks, Publish(r, b, l) PROVE GroupOK(r, b)'
    BY <2>3, PublishEffect
  <2>4. ASSUME NEW l \in Ranks, Observe(r, b, l) \/ Expire(r, b, l)
        PROVE  GroupOK(r, b)'
    BY <2>4, ThroughEffect DEF Expire, Regular
  <2>5. CASE EndRendezvous(r, b)
    BY <2>5, EndEffect
  <2>6. CASE Work(r, b)
    BY <2>6, WorkEffect
  <2> QED
    BY <2>1, <2>2, <2>3, <2>4, <2>5, <2>6 DEF GroupStep, Work
<1> SUFFICES ASSUME NEW s \in Ranks, NEW c \in Blocks PROVE GroupOK(s, c)'
  BY DEF GroupInv
<1>2. CASE <<s, c>> = <<r, b>>
  BY <1>1, <1>2
<1>3. CASE <<s, c>> # <<r, b>>
  BY <1>3, OtherGroups, SameGroup DEF GroupInv
<1> QED
  BY <1>2, <1>3

\* A step that moves no count, announces nobody and brings no lane through.
LEMMA QuietFlags ==
    ASSUME TypeOK, FlagInv, AlignInv, NEW r \in Ranks, NEW b \in Blocks,
           sync' = sync,
           QuietAt(r, b),
           \A s \in Ranks : Announced(r, b, s)' = Announced(r, b, s),
           wg'[r][b].seen = {} \/ (wg'[r][b] = wg[r][b] /\ gen'[r][b] = gen[r][b]),
           \A s \in Ranks, c \in Blocks : <<s, c>> # <<r, b>> =>
              wg'[s][c] = wg[s][c] /\ gen'[s][c] = gen[s][c]
    PROVE  FlagInv' /\ AlignInv'
<1>1. \A s \in Ranks, c \in Blocks :
        /\ Completed(s, c)' = Completed(s, c)
        /\ Position(s, c)' = Position(s, c)
        /\ \A t \in Ranks : Announced(s, c, t)' = Announced(s, c, t)
  <2> SUFFICES ASSUME NEW s \in Ranks, NEW c \in Blocks
               PROVE  /\ Completed(s, c)' = Completed(s, c)
                      /\ Position(s, c)' = Position(s, c)
                      /\ \A t \in Ranks : Announced(s, c, t)' = Announced(s, c, t)
    OBVIOUS
  <2>1. CASE <<s, c>> = <<r, b>>
    BY <2>1 DEF QuietAt
  <2>2. CASE <<s, c>> # <<r, b>>
    BY <2>2, SameGroup
  <2> QED
    BY <2>1, <2>2
<1>2. \A s, t \in Ranks, c \in Blocks :
        InRendezvous(s, c)' /\ t \in wg'[s][c].seen
          => InRendezvous(s, c) /\ t \in wg[s][c].seen
  BY SameGroup
<1>3. FlagInv'
  BY <1>1, <1>2 DEF FlagInv
<1>4. AlignInv'
  BY <1>1 DEF AlignInv
<1> QED
  BY <1>3, <1>4

LEMMA PublishFlags ==
    ASSUME Regular, TypeOK, GroupInv, FlagInv, AlignInv,
           NEW r \in Ranks, NEW b \in Blocks, NEW l \in Ranks, Publish(r, b, l)
    PROVE  FlagInv' /\ AlignInv'
<1> DEFINE w == wg[r][b]
<1>1. /\ QuietAt(r, b) /\ InRendezvous(r, b)
      /\ Announced(r, b, l)' = Completed(r, b) + 1
      /\ Announced(r, b, l) = Completed(r, b)
      /\ \A s \in Ranks \ {l} : Announced(r, b, s)' = Announced(r, b, s)
      /\ wg'[r][b].seen = w.seen
      /\ w.target = Completed(r, b) + 1
  BY PublishEffect
<1>2. sync' = [sync EXCEPT ![l][w.pc][b][r] = w.target] /\ w.pc \in Phases
  BY DEF Publish
<1>3. \A s \in Ranks, c \in Blocks : <<s, c>> # <<r, b>> =>
        /\ wg'[s][c] = wg[s][c] /\ gen'[s][c] = gen[s][c]
        /\ Completed(s, c)' = Completed(s, c)
        /\ Position(s, c)' = Position(s, c)
        /\ \A t \in Ranks : Announced(s, c, t)' = Announced(s, c, t)
        /\ (InRendezvous(s, c)' <=> InRendezvous(s, c))
  BY OtherGroups, SameGroup DEF GroupStep
<1>4. \A s \in Ranks, c \in Blocks :
        /\ Completed(s, c)' = Completed(s, c)
        /\ Position(s, c)' = Position(s, c)
        /\ \A t \in Ranks : /\ Announced(s, c, t) \in Int
                            /\ Announced(s, c, t)' \in Int
                            /\ Announced(s, c, t) <= Announced(s, c, t)'
        /\ wg'[s][c].seen = wg[s][c].seen
        /\ InRendezvous(s, c)' => InRendezvous(s, c)
  <2> SUFFICES ASSUME NEW s \in Ranks, NEW c \in Blocks
      PROVE  /\ Completed(s, c)' = Completed(s, c)
             /\ Position(s, c)' = Position(s, c)
             /\ \A t \in Ranks : /\ Announced(s, c, t) \in Int
                                 /\ Announced(s, c, t)' \in Int
                                 /\ Announced(s, c, t) <= Announced(s, c, t)'
             /\ wg'[s][c].seen = wg[s][c].seen
             /\ InRendezvous(s, c)' => InRendezvous(s, c)
    OBVIOUS
  <2>1. CASE <<s, c>> = <<r, b>>
    BY <2>1, <1>1, GroupTypes DEF QuietAt
  <2>2. CASE <<s, c>> # <<r, b>>
    BY <2>2, <1>3, GroupTypes
  <2> QED
    BY <2>1, <2>2
<1>5. \A s, t \in Ranks, c \in Blocks, p \in Phases :
        sync'[t][p][c][s] <= Announced(s, c, t)'
  <2> SUFFICES ASSUME NEW s \in Ranks, NEW t \in Ranks, NEW c \in Blocks,
                      NEW p \in Phases
               PROVE  sync'[t][p][c][s] <= Announced(s, c, t)'
    OBVIOUS
  <2>1. CASE t = l /\ p = w.pc /\ c = b /\ s = r
    <3>1. sync'[t][p][c][s] = w.target
      BY <1>2, <2>1 DEF TypeOK
    <3>2. w.target \in Nat
      BY GroupTypes
    <3> QED
      BY <3>1, <3>2, <2>1, <1>1
  <2>2. CASE ~(t = l /\ p = w.pc /\ c = b /\ s = r)
    <3>1. sync'[t][p][c][s] = sync[t][p][c][s] /\ sync[t][p][c][s] \in Nat
      BY <1>2, <2>2, WidthAssumption DEF TypeOK
    <3>2. sync[t][p][c][s] <= Announced(s, c, t)
      BY DEF FlagInv
    <3> QED
      BY <3>1, <3>2, <1>4
  <2> QED
    BY <2>1, <2>2
<1>6. FlagInv'
  <2> SUFFICES ASSUME NEW s \in Ranks, NEW t \in Ranks, NEW c \in Blocks
      PROVE  /\ InRendezvous(s, c)' /\ t \in wg'[s][c].seen
                  => Completed(s, c)' < Announced(t, c, s)'
             /\ Completed(s, c)' <= Announced(t, c, s)'
    BY <1>5 DEF FlagInv
  <2>1. Completed(s, c) \in Int
    BY GroupTypes
  <2>2. Completed(s, c) <= Announced(t, c, s)
    BY DEF FlagInv
  <2>3. InRendezvous(s, c) /\ t \in wg[s][c].seen
            => Completed(s, c) < Announced(t, c, s)
    BY DEF FlagInv
  <2> QED
    BY <1>4, <2>1, <2>2, <2>3
<1>7. AlignInv'
  BY <1>4 DEF AlignInv
<1> QED
  BY <1>6, <1>7

LEMMA ObserveFlags ==
    ASSUME Regular, TypeOK, GroupInv, FlagInv, AlignInv,
           NEW r \in Ranks, NEW b \in Blocks, NEW l \in Ranks, Observe(r, b, l)
    PROVE  FlagInv' /\ AlignInv'
<1> DEFINE w == wg[r][b]
<1>1. /\ QuietAt(r, b) /\ InRendezvous(r, b)
      /\ \A s \in Ranks : Announced(r, b, s)' = Announced(r, b, s)
      /\ wg'[r][b].seen = w.seen \cup {l}
      /\ Completed(r, b) < sync[r][w.pc][b][l]
      /\ w.pc \in Phases
  BY ThroughEffect DEF InRendezvous
<1>2. sync' = sync
  BY DEF Observe
<1>3. \A s \in Ranks, c \in Blocks :
        /\ Completed(s, c)' = Completed(s, c)
        /\ Position(s, c)' = Position(s, c)
        /\ \A t \in Ranks : Announced(s, c, t)' = Announced(s, c, t)
        /\ <<s, c>> # <<r, b>> =>
              /\ wg'[s][c] = wg[s][c]
              /\ InRendezvous(s, c)' <=> InRendezvous(s, c)
  <2> SUFFICES ASSUME NEW s \in Ranks, NEW c \in Blocks
      PROVE  /\ Completed(s, c)' = Completed(s, c)
             /\ Position(s, c)' = Position(s, c)
             /\ \A t \in Ranks : Announced(s, c, t)' = Announced(s, c, t)
             /\ <<s, c>> # <<r, b>> =>
                   /\ wg'[s][c] = wg[s][c]
                   /\ InRendezvous(s, c)' <=> InRendezvous(s, c)
    OBVIOUS
  <2>1. CASE <<s, c>> = <<r, b>>
    BY <2>1, <1>1 DEF QuietAt
  <2>2. CASE <<s, c>> # <<r, b>>
    BY <2>2, OtherGroups, SameGroup DEF GroupStep
  <2> QED
    BY <2>1, <2>2
<1>4. Completed(r, b) < Announced(l, b, r)
  <2>1. sync[r][w.pc][b][l] <= Announced(l, b, r)
    BY <1>1 DEF FlagInv
  <2>2. sync[r][w.pc][b][l] \in Nat
    BY <1>1, WidthAssumption DEF TypeOK
  <2> QED
    BY <1>1, <2>1, <2>2, GroupTypes
<1>5. FlagInv'
  <2> SUFFICES ASSUME NEW s \in Ranks, NEW t \in Ranks, NEW c \in Blocks,
                      InRendezvous(s, c)', t \in wg'[s][c].seen
               PROVE  Completed(s, c) < Announced(t, c, s)
    BY <1>2, <1>3 DEF FlagInv
  <2>1. CASE <<s, c>> # <<r, b>>
    BY <2>1, <1>3 DEF FlagInv
  <2>2. CASE <<s, c>> = <<r, b>>
    BY <2>2, <1>1, <1>4 DEF FlagInv
  <2> QED
    BY <2>1, <2>2
<1>6. AlignInv'
  BY <1>3 DEF AlignInv
<1> QED
  BY <1>5, <1>6

LEMMA EndFlags ==
    ASSUME Regular, TypeOK, GroupInv, FlagInv, AlignInv,
           NEW r \in Ranks, NEW b \in Blocks, EndRendezvous(r, b)
    PROVE  FlagInv' /\ AlignInv'
<1>1. /\ Completed(r, b)' = Completed(r, b) + 1
      /\ Position(r, b)' = NextPosition(Position(r, b))
      /\ InRendezvous(r, b) /\ ~InRendezvous(r, b)'
      /\ wg[r][b].seen = Ranks
      /\ \A s \in Ranks : /\ Announced(r, b, s)' = Announced(r, b, s)
                          /\ Announced(r, b, s) = Completed(r, b) + 1
  BY EndEffect
<1>2. sync' = sync
  BY DEF EndRendezvous
<1>3. \A s \in Ranks, c \in Blocks : <<s, c>> # <<r, b>> =>
        /\ Completed(s, c)' = Completed(s, c)
        /\ Position(s, c)' = Position(s, c)
        /\ wg'[s][c] = wg[s][c]
        /\ (InRendezvous(s, c)' <=> InRendezvous(s, c))
        /\ \A t \in Ranks : Announced(s, c, t)' = Announced(s, c, t)
  BY OtherGroups, SameGroup DEF GroupStep
<1>4. \A s, t \in Ranks, c \in Blocks : Announced(s, c, t)' = Announced(s, c, t)
  BY <1>1, <1>3
<1>5. \A s \in Ranks : Completed(r, b) + 1 <= Announced(s, b, r)
  <2> TAKE s \in Ranks
  <2>1. Completed(r, b) < Announced(s, b, r)
    BY <1>1 DEF FlagInv
  <2> QED
    BY <2>1, GroupTypes
<1>6. FlagInv'
  <2> SUFFICES ASSUME NEW s \in Ranks, NEW t \in Ranks, NEW c \in Blocks
      PROVE  /\ \A p \in Phases : sync[s][p][c][t] <= Announced(t, c, s)
             /\ InRendezvous(s, c)' /\ t \in wg'[s][c].seen
                  => Completed(s, c)' < Announced(t, c, s)
             /\ Completed(s, c)' <= Announced(t, c, s)
    BY <1>2, <1>4 DEF FlagInv
  <2>1. CASE <<s, c>> # <<r, b>>
    BY <2>1, <1>3 DEF FlagInv
  <2>2. CASE <<s, c>> = <<r, b>>
    BY <2>2, <1>1, <1>5 DEF FlagInv
  <2> QED
    BY <2>1, <2>2
<1>7. AlignInv'
  <2> SUFFICES ASSUME NEW s \in Ranks, NEW t \in Ranks, NEW c \in Blocks
      PROVE  /\ Completed(s, c)' = Completed(t, c)' => Position(s, c)' = Position(t, c)'
             /\ Completed(s, c)' = Completed(t, c)' + 1
                  => Position(s, c)' = NextPosition(Position(t, c)')
    BY DEF AlignInv, NextPosition, PhaseCount, TwoShot
  <2>1. /\ Completed(s, c) = Completed(t, c) => Position(s, c) = Position(t, c)
        /\ Completed(s, c) = Completed(t, c) + 1
              => Position(s, c) = NextPosition(Position(t, c))
        /\ Completed(t, c) = Completed(s, c) + 1
              => Position(t, c) = NextPosition(Position(s, c))
    BY DEF AlignInv
  <2>2. Completed(s, c) \in Int /\ Completed(t, c) \in Int
    BY GroupTypes
  <2>3. CASE <<s, c>> # <<r, b>> /\ <<t, c>> # <<r, b>>
    BY <2>1, <2>3, <1>3
  <2>4. CASE <<s, c>> = <<r, b>> /\ <<t, c>> = <<r, b>>
    BY <2>4, <1>1, GroupTypes
  <2>5. CASE <<s, c>> = <<r, b>> /\ <<t, c>> # <<r, b>>
    BY <2>1, <2>2, <2>5, <1>1, <1>3
  <2>6. CASE <<s, c>> # <<r, b>> /\ <<t, c>> = <<r, b>>
    <3>1. Completed(s, c) <= Announced(t, c, s) /\ Announced(t, c, s) = Completed(t, c) + 1
      BY <2>6, <1>1 DEF FlagInv
    <3>2. Completed(s, c) <= Completed(t, c) + 1
      BY <3>1
    <3> QED
      BY <2>1, <2>2, <2>6, <3>2, <1>1, <1>3
  <2> QED
    BY <2>3, <2>4, <2>5, <2>6
<1> QED
  BY <1>6, <1>7

LEMMA KernelGroupStep ==
    ASSUME Regular, TypeOK, GroupInv, KernelInv,
           NEW r \in Ranks, NEW b \in Blocks, GroupStep(r, b)
    PROVE  KernelInv'
<1>1. submitted' = submitted /\ scall' = scall
  BY DEF GroupStep, Stage, Start, Publish, Observe, Expire, EndRendezvous,
         ReduceOneShot, ReduceScatter, Gather
<1>2. \A s \in Ranks : swait'[s] # {} => swait[s] # {}
  BY DEF TypeOK, GroupStep, Stage, Start, Publish, Observe, Expire,
         EndRendezvous, ReduceOneShot, ReduceScatter, Gather
<1>3. \/ wg'[r][b].call = wg[r][b].call /\ (wg[r][b].pc = "done" => wg'[r][b].pc = "done")
      \/ Start(r, b)
  <2>1. CASE Stage(r, b)
    BY <2>1 DEF Stage
  <2>2. ASSUME NEW l \in Ranks, Publish(r, b, l)
        PROVE  wg'[r][b].call = wg[r][b].call /\ wg[r][b].pc # "done"
    <3>1. wg'[r][b] = [wg[r][b] EXCEPT !.pub = @ \cup {l}] /\ wg[r][b].pc \in Phases
      BY <2>2 DEF Publish, TypeOK
    <3>2. wg[r][b] \in WgState
      BY DEF TypeOK
    <3> QED
      BY <3>1, <3>2 DEF WgState, Phases
  <2>3. ASSUME NEW l \in Ranks, Observe(r, b, l) \/ Expire(r, b, l)
        PROVE  wg'[r][b].call = wg[r][b].call /\ wg[r][b].pc # "done"
    <3>0. Through(r, b, l) /\ wg[r][b].pc \in Phases
      BY <2>3 DEF Observe, Expire, Spinning
    <3>1. wg'[r][b] = [wg[r][b] EXCEPT !.seen = @ \cup {l}] /\ wg[r][b].pc \in Phases
      BY <3>0 DEF Through, TypeOK
    <3>2. wg[r][b] \in WgState
      BY DEF TypeOK
    <3> QED
      BY <3>1, <3>2 DEF WgState, Phases
  <2>4. CASE EndRendezvous(r, b)
    <3>1. wg'[r][b] = [wg[r][b] EXCEPT !.pc = After(wg[r][b].pc)] /\ wg[r][b].pc \in Phases
      BY <2>4 DEF EndRendezvous, TypeOK
    <3>2. wg[r][b] \in WgState
      BY DEF TypeOK
    <3> QED
      BY <3>1, <3>2 DEF WgState, Phases
  <2>5. CASE Work(r, b)
    <3>1. wg'[r][b].call = wg[r][b].call
      BY <2>5, WorkEffect
    <3>2. wg[r][b].pc # "done"
      BY <2>5 DEF Work, ReduceOneShot, ReduceScatter, Gather
    <3> QED
      BY <3>1, <3>2
  <2> QED
    BY <2>1, <2>2, <2>3, <2>4, <2>5 DEF GroupStep, Work
<1> SUFFICES ASSUME NEW s \in Ranks, NEW c \in Blocks
    PROVE  /\ scall[s] <= submitted[s]
           /\ wg'[s][c].call <= scall[s] /\ scall[s] <= wg'[s][c].call + 1
           /\ wg'[s][c].call < scall[s] => wg'[s][c].pc = "done"
           /\ swait'[s] # {} => wg'[s][c].call < scall[s]
  BY <1>1 DEF KernelInv
<1>4. /\ scall[s] <= submitted[s]
      /\ wg[s][c].call <= scall[s] /\ scall[s] <= wg[s][c].call + 1
      /\ wg[s][c].call < scall[s] => wg[s][c].pc = "done"
      /\ swait[s] # {} => wg[s][c].call < scall[s]
  BY DEF KernelInv
<1>5. CASE <<s, c>> # <<r, b>>
  BY <1>2, <1>4, <1>5, OtherGroups
<1>6. CASE <<s, c>> = <<r, b>> /\ Start(r, b)
  <2>1. wg'[r][b].call = wg[r][b].call + 1 /\ swait' = swait
    BY <1>6 DEF Start, Entering, TypeOK
  <2>2. Staged(r, wg[r][b].call + 1)
    BY <1>6 DEF Start, ReadyToStart
  <2>3. scall[r] = wg[r][b].call + 1 /\ swait[r] = {}
    BY <2>2, <1>4, <1>6, GroupTypes DEF Staged
  <2> QED
    BY <2>1, <2>3, <1>4, <1>6, GroupTypes
<1>7. CASE <<s, c>> = <<r, b>> /\ ~Start(r, b)
  BY <1>2, <1>3, <1>4, <1>7
<1> QED
  BY <1>5, <1>6, <1>7

LEMMA ProtocolGroupStep ==
    ASSUME Regular, ProtocolInv, NEW r \in Ranks, NEW b \in Blocks,
           GroupStep(r, b)
    PROVE  ProtocolInv'
<1> USE DEF ProtocolInv
<1>1. TypeOK' /\ GroupInv' /\ KernelInv'
  BY TypeGroupStep, GroupInvStep, KernelGroupStep
<1>2. FlagInv' /\ AlignInv'
  <2>1. \A s \in Ranks, c \in Blocks : <<s, c>> # <<r, b>> =>
           wg'[s][c] = wg[s][c] /\ gen'[s][c] = gen[s][c]
    BY OtherGroups
  <2>2. CASE Stage(r, b)
    <3>1. wg'[r][b] = wg[r][b] /\ gen'[r][b] = gen[r][b] /\ sync' = sync
      BY <2>2 DEF Stage
    <3> QED
      BY <2>1, <3>1, SameGroup, QuietFlags DEF QuietAt
  <2>3. CASE Start(r, b)
    <3>1. sync' = sync
      BY <2>3 DEF Start
    <3> QED
      BY <2>1, <2>3, <3>1, StartEffect, QuietFlags
  <2>4. ASSUME NEW l \in Ranks, Publish(r, b, l) PROVE FlagInv' /\ AlignInv'
    BY <2>4, PublishFlags
  <2>5. ASSUME NEW l \in Ranks, Observe(r, b, l) \/ Expire(r, b, l)
        PROVE  FlagInv' /\ AlignInv'
    BY <2>5, ObserveFlags DEF Expire, Regular
  <2>6. CASE EndRendezvous(r, b)
    BY <2>6, EndFlags
  <2>7. CASE Work(r, b)
    <3>1. sync' = sync
      BY <2>7 DEF Work, ReduceOneShot, ReduceScatter, Gather
    <3> QED
      BY <2>1, <2>7, <3>1, WorkEffect, QuietFlags
  <2> QED
    BY <2>2, <2>3, <2>4, <2>5, <2>6, <2>7 DEF GroupStep, Work
<1> QED
  BY <1>1, <1>2

\* Steps that touch neither work-groups, generations nor flags.
LEMMA ProtocolFrame ==
    ASSUME ProtocolInv, TypeOK', wg' = wg, gen' = gen, sync' = sync
    PROVE  GroupInv' /\ FlagInv' /\ AlignInv'
<1>1. \A s \in Ranks, c \in Blocks :
        /\ Completed(s, c)' = Completed(s, c)
        /\ Position(s, c)' = Position(s, c)
        /\ \A t \in Ranks : Announced(s, c, t)' = Announced(s, c, t)
        /\ (InRendezvous(s, c)' <=> InRendezvous(s, c))
        /\ (GroupOK(s, c)' <=> GroupOK(s, c))
  BY SameGroup
<1>2. GroupInv'
  BY <1>1 DEF GroupInv, ProtocolInv
<1>3. FlagInv'
  BY <1>1 DEF FlagInv, ProtocolInv
<1>4. AlignInv'
  BY <1>1 DEF AlignInv, ProtocolInv
<1> QED
  BY <1>2, <1>3, <1>4

LEMMA ProtocolStep ==
    ASSUME Regular, ProtocolInv, [Next]_vars
    PROVE  ProtocolInv'
<1>0. TypeOK'
  BY TypeStep DEF ProtocolInv
<1>1. ASSUME NEW r \in Ranks, Submit(r) PROVE ProtocolInv'
  <2>1. KernelInv'
    BY <1>1, SizesAssumption DEF Submit, KernelInv, ProtocolInv, TypeOK
  <2> QED
    BY <1>0, <1>1, <2>1, ProtocolFrame DEF Submit, ProtocolInv
<1>2. ASSUME NEW r \in Ranks, StartStage(r) PROVE ProtocolInv'
  <2>1. KernelInv'
    <3> SUFFICES ASSUME NEW s \in Ranks, NEW c \in Blocks
        PROVE  /\ scall'[s] <= submitted[s]
               /\ wg[s][c].call <= scall'[s] /\ scall'[s] <= wg[s][c].call + 1
               /\ wg[s][c].call < scall'[s] => wg[s][c].pc = "done"
               /\ swait'[s] # {} => wg[s][c].call < scall'[s]
      BY <1>2 DEF KernelInv, StartStage
    <3>1. /\ scall[s] <= submitted[s]
          /\ wg[s][c].call <= scall[s] /\ scall[s] <= wg[s][c].call + 1
          /\ wg[s][c].call < scall[s] => wg[s][c].pc = "done"
          /\ swait[s] # {} => wg[s][c].call < scall[s]
      BY DEF KernelInv, ProtocolInv
    <3>2. CASE s # r
      BY <1>2, <3>1, <3>2 DEF StartStage, ProtocolInv, TypeOK
    <3>3. CASE s = r
      <4>1. wg[r][c].call = scall[r] /\ wg[r][c].pc = "done"
        BY <1>2, <3>1, <3>3, GroupTypes
        DEF StartStage, Finished, Regular, ProtocolInv
      <4>2. scall'[r] = scall[r] + 1 /\ scall'[r] <= submitted[r]
        BY <1>2 DEF StartStage, ProtocolInv, TypeOK
      <4> QED
        BY <3>3, <4>1, <4>2, GroupTypes DEF ProtocolInv
    <3> QED
      BY <3>2, <3>3
  <2> QED
    BY <1>0, <1>2, <2>1, ProtocolFrame DEF StartStage, ProtocolInv
<1>3. ASSUME NEW r \in Ranks, Die(r) PROVE ProtocolInv'
  <2>1. KernelInv'
    BY <1>3 DEF Die, KernelInv, ProtocolInv
  <2> QED
    BY <1>0, <1>3, <2>1, ProtocolFrame DEF Die, ProtocolInv
<1>4. CASE UNCHANGED vars
  <2>1. KernelInv'
    BY <1>4 DEF vars, KernelInv, ProtocolInv
  <2> QED
    BY <1>0, <1>4, <2>1, ProtocolFrame DEF vars, ProtocolInv
<1> QED
  BY <1>1, <1>2, <1>3, <1>4, ProtocolGroupStep DEF Next

\* The flags never promise what did not happen, same-numbered work-groups
\* stay aligned, and a rank's kernels keep their order.
THEOREM ProtocolSafe ==
    ASSUME Regular
    PROVE  Spec => []ProtocolInv
<1>1. ProtocolInv /\ [Next]_vars => ProtocolInv'
  BY ProtocolStep
<1> QED
  BY <1>1, ProtocolInit, PTL DEF Spec

-----------------------------------------------------------------------------
(* No data race on staging memory                                           *)

\* A work-group that is not in a rendezvous is at least as far as any peer of
\* its number, and at most one rendezvous further.
LEMMA Between ==
    ASSUME ProtocolInv, NEW r \in Ranks, NEW s \in Ranks, NEW b \in Blocks,
           ~InRendezvous(r, b)
    PROVE  /\ Completed(s, b) <= Completed(r, b)
           /\ \/ Completed(s, b) = Completed(r, b) /\ Position(s, b) = Position(r, b)
              \/ /\ Completed(r, b) = Completed(s, b) + 1
                 /\ Position(r, b) = NextPosition(Position(s, b))
                 /\ InRendezvous(s, b)
<1>1. Announced(r, b, s) = Completed(r, b)
  BY DEF Announced
<1>2. Completed(s, b) <= Completed(r, b)
  BY <1>1 DEF ProtocolInv, FlagInv
<1>3. Completed(r, b) <= Announced(s, b, r)
  BY DEF ProtocolInv, FlagInv
<1>4. /\ \/ Announced(s, b, r) = Completed(s, b)
         \/ Announced(s, b, r) = Completed(s, b) + 1 /\ InRendezvous(s, b)
      /\ Completed(r, b) \in Int /\ Completed(s, b) \in Int
  BY GroupTypes DEF Announced, ProtocolInv
<1>5. /\ Completed(s, b) = Completed(r, b) => Position(s, b) = Position(r, b)
      /\ Completed(r, b) = Completed(s, b) + 1
            => Position(r, b) = NextPosition(Position(s, b))
  BY DEF ProtocolInv, AlignInv
<1> QED
  BY <1>2, <1>3, <1>4, <1>5

\* Working: reading staging memory between two rendezvous.
Working(r, b) == wg[r][b].pc \in {"reduce", "gather"}

LEMMA WorkingPosition ==
    ASSUME ProtocolInv, NEW r \in Ranks, NEW b \in Blocks, Working(r, b)
    PROVE  /\ ~InRendezvous(r, b)
           /\ wg[r][b].call \in 1..MaxCalls
           /\ Position(r, b) = <<wg[r][b].call, IF wg[r][b].pc = "reduce" THEN 1 ELSE 2>>
           /\ wg[r][b].call = scall[r] /\ swait[r] = {}
<1>1. /\ wg[r][b].call <= scall[r]
      /\ wg[r][b].call < scall[r] => wg[r][b].pc = "done"
      /\ swait[r] # {} => wg[r][b].call < scall[r]
      /\ wg[r][b].pc # "done" => wg[r][b].call >= 1
  BY DEF ProtocolInv, KernelInv, GroupInv, GroupOK
<1>2. wg[r][b].pc # "done" /\ ~InRendezvous(r, b)
  BY DEF Working, InRendezvous, Phases
<1>3. Position(r, b) = <<wg[r][b].call, IF wg[r][b].pc = "reduce" THEN 1 ELSE 2>>
  BY Positions DEF Working, ProtocolInv
<1> QED
  BY <1>1, <1>2, <1>3, GroupTypes DEF ProtocolInv

\* While a rank stages, no work-group of any rank reads or reduces.
LEMMA StagingAlone ==
    ASSUME ProtocolInv, NEW r \in Ranks, swait[r] # {},
           NEW s \in Ranks, NEW c \in Blocks
    PROVE  ~Working(s, c)
<1> SUFFICES ASSUME Working(s, c) PROVE FALSE
  OBVIOUS
<1>1. wg[r][c].call < scall[r] /\ wg[r][c].pc = "done"
  BY DEF ProtocolInv, KernelInv
<1>2. ~InRendezvous(r, c) /\ Position(r, c) = <<wg[r][c].call + 1, 0>>
  BY <1>1, Positions DEF InRendezvous, Phases, ProtocolInv
<1>3. ~InRendezvous(s, c) /\ Position(s, c)[2] # 0
  BY WorkingPosition
<1>4. Completed(s, c) = Completed(r, c) => Position(s, c) = Position(r, c)
  BY DEF ProtocolInv, AlignInv
<1>5. \/ Completed(s, c) = Completed(r, c)
      \/ InRendezvous(s, c)
  BY <1>2, Between
<1> QED
  BY <1>2, <1>3, <1>4, <1>5

\* Work-groups that work at the same time work on the same call.
LEMMA SameCall ==
    ASSUME ProtocolInv, NEW r \in Ranks, NEW s \in Ranks,
           NEW b \in Blocks, NEW c \in Blocks, Working(r, b), Working(s, c)
    PROVE  wg[r][b].call <= wg[s][c].call
<1> SUFFICES ASSUME wg[s][c].call < wg[r][b].call PROVE FALSE
  BY GroupTypes DEF ProtocolInv
<1>1. wg[r][b].call = scall[r]
  BY WorkingPosition
<1>2. /\ scall[r] <= wg[r][c].call + 1
      /\ wg[r][c].call < scall[r] => wg[r][c].pc = "done"
  BY DEF ProtocolInv, KernelInv
<1>3. Position(r, c)[1] >= scall[r] /\ Position(r, c)[1] \in Nat /\ Position(r, c)[2] \in Nat
  BY <1>2, Positions, GroupTypes DEF ProtocolInv
<1>4. ~InRendezvous(s, c) /\ Position(s, c)[1] = wg[s][c].call
  BY WorkingPosition
<1>5. \/ Position(r, c) = Position(s, c)
      \/ Position(s, c) = NextPosition(Position(r, c))
  BY <1>4, Between
<1>6. NextPosition(Position(r, c))[1] >= Position(r, c)[1]
  BY <1>3 DEF NextPosition
<1> QED
  BY <1>1, <1>3, <1>4, <1>5, <1>6, GroupTypes DEF ProtocolInv

\* Same-numbered work-groups that work at the same time do the same work.
LEMMA SameWork ==
    ASSUME ProtocolInv, NEW r \in Ranks, NEW s \in Ranks, NEW b \in Blocks,
           Working(r, b), Working(s, b)
    PROVE  wg[r][b].pc = wg[s][b].pc
<1>1. ~InRendezvous(r, b) /\ ~InRendezvous(s, b)
  BY WorkingPosition
<1>2. Position(r, b) = Position(s, b)
  BY <1>1, Between
<1> QED
  BY <1>2, WorkingPosition DEF Working

LEMMA RaceFree == ProtocolInv => NoRace
<1> SUFFICES ASSUME ProtocolInv PROVE NoRace
  OBVIOUS
<1>1. ASSUME NEW r \in Ranks, NEW s \in Ranks, NEW b \in Blocks,
             StageWriting(r) # {}
      PROVE  ~Working(s, b)
  BY <1>1, StagingAlone DEF StageWriting
<1>2. \A s \in Ranks, b \in Blocks : ~Working(s, b) =>
         Writing(s, b) = {} /\ \A o \in Ranks : Reading(s, b, o) = {}
  BY DEF Working, Writing, Reading
<1>3. ASSUME NEW r \in Ranks, NEW s \in Ranks, NEW b \in Blocks, NEW c \in Blocks,
             <<r, b>> # <<s, c>>
      PROVE  Writing(r, b) \cap Reading(s, c, r) = {}
  <2> SUFFICES ASSUME Writing(r, b) # {}, Reading(s, c, r) # {}
               PROVE  Writing(r, b) \cap Reading(s, c, r) = {}
    OBVIOUS
  <2>1. Working(r, b) /\ Working(s, c)
    BY <1>2
  <2> DEFINE k == wg[r][b].call
             n == Numel[wg[r][b].call]
  <2>2. wg[s][c].call = k
    BY <2>1, SameCall, GroupTypes DEF ProtocolInv
  <2>3. wg[r][b].pc = "reduce" /\ TwoShot(k) /\ Writing(r, b) = Slice(n, r, b)
    BY DEF Writing
  <2>4. n \in Nat
    BY <2>1, WorkingPosition, SizesAssumption DEF Calls
  <2>5. CASE wg[s][c].pc = "reduce"
    <3>1. Reading(s, c, r) = Slice(n, s, c)
      BY <2>2, <2>3, <2>5 DEF Reading
    <3> QED
      BY <2>3, <2>4, <3>1, <1>3, SlicesDisjoint
  <2>6. CASE wg[s][c].pc = "gather"
    <3>1. Reading(s, c, r) = Slice(n, r, c)
      BY <2>2, <2>6 DEF Reading
    <3>2. b # c
      BY <2>1, <2>3, <2>6, SameWork
    <3> QED
      BY <2>3, <2>4, <3>1, <3>2, SlicesDisjoint
  <2> QED
    BY <2>1, <2>5, <2>6 DEF Working
<1>4. \A r, s \in Ranks : \A b \in Blocks : StageWriting(r) \cap Reading(s, b, r) = {}
  BY <1>1, <1>2
<1>5. \A r \in Ranks : \A b \in Blocks : StageWriting(r) \cap Writing(r, b) = {}
  BY <1>1, <1>2
<1> QED
  BY <1>3, <1>4, <1>5 DEF NoRace

\* With kernels in submission order, spins that are not given up and
\* generations that do not wrap, no element of staging memory is overwritten
\* while another work-group reads or writes it, whatever the interleaving.
THEOREM RaceFreedom ==
    ASSUME Regular
    PROVE  Spec => []NoRace
<1>1. Spec => []ProtocolInv
  BY ProtocolSafe
<1> QED
  BY <1>1, RaceFree, PTL

-----------------------------------------------------------------------------
(***************************************************************************)
(* Every output is the exact, rank-ordered sum of the inputs of its own    *)
(* call.                                                                   *)
(***************************************************************************)


\* Sizes are natural numbers.
LEMMA SizeType ==
    ASSUME NEW k \in Calls
    PROVE  Numel[k] \in Nat /\ k \in Nat /\ k >= 1 /\ Elements(Numel[k]) \subseteq Elements(Capacity)
  BY SizesAssumption DEF Calls, Elements

\* The elements of a call are divided exactly among the work-groups.
LEMMA ProducesPartition ==
    ASSUME NEW k \in Calls, NEW i \in Elements(Numel[k])
    PROVE  /\ \E b \in Blocks : i \in Produces(k, b)
           /\ \A b, c \in Blocks :
                i \in Produces(k, b) /\ i \in Produces(k, c) => b = c
<1>1. CASE TwoShot(k)
  <2>1. \E b \in Blocks : i \in Produces(k, b)
    BY <1>1, SizeType, SlicesCover DEF Produces
  <2>2. ASSUME NEW b \in Blocks, NEW c \in Blocks,
               i \in Produces(k, b), i \in Produces(k, c), b # c
        PROVE  FALSE
    <3>1. PICK o1 \in Ranks : i \in Slice(Numel[k], o1, b)
      BY <1>1, <2>2 DEF Produces
    <3>2. PICK o2 \in Ranks : i \in Slice(Numel[k], o2, c)
      BY <1>1, <2>2 DEF Produces
    <3> QED
      BY <2>2, <3>1, <3>2, SizeType, SlicesDisjoint
  <2> QED
    BY <2>1, <2>2
<1>2. CASE ~TwoShot(k)
  BY <1>2, SizeType, StripesPartition DEF Produces
<1> QED
  BY <1>1, <1>2

\* When a work-group works on call k every rank has staged call k and no
\* later one; and where it gathers, its peers have reduced.
LEMMA PeersReady ==
    ASSUME ProtocolInv, NEW s \in Ranks, NEW c \in Blocks, Working(s, c),
           NEW r \in Ranks
    PROVE  LET k == wg[s][c].call
           IN  /\ scall[r] = k /\ swait[r] = {}
               /\ wg[s][c].pc = "gather" => Reduced(r, c, k)
<1> DEFINE k == wg[s][c].call
           w == wg[r][c]
           j == IF wg[s][c].pc = "reduce" THEN 1 ELSE 2
<1>1. ~InRendezvous(s, c) /\ k \in 1..MaxCalls /\ Position(s, c) = <<k, j>>
  BY WorkingPosition
<1>2. wg[s][c].pc = "gather" => TwoShot(k)
  BY DEF ProtocolInv, GroupInv, GroupOK
<1>3. /\ w.call \in Nat
      /\ w.pc \in {"arrive", "mid", "depart", "reduce", "gather", "done"}
      /\ w.call <= scall[r] /\ scall[r] \in Nat
      /\ w.call < scall[r] => w.pc = "done"
      /\ swait[r] # {} => w.call < scall[r]
      /\ w.pc \in {"mid", "gather"} => TwoShot(w.call)
  BY GroupTypes DEF ProtocolInv, KernelInv, GroupInv, GroupOK
<1>4. \/ Position(r, c) = <<k, j>>
      \/ NextPosition(Position(r, c)) = <<k, j>> /\ InRendezvous(r, c)
  BY <1>1, Between
<1>5. /\ w.pc = "arrive" => Position(r, c) = <<w.call, 0>>
      /\ w.pc \in {"reduce", "mid"} => Position(r, c) = <<w.call, 1>>
      /\ w.pc = "gather" => Position(r, c) = <<w.call, 2>>
      /\ w.pc = "depart" => Position(r, c) = <<w.call, IF TwoShot(w.call) THEN 2 ELSE 1>>
      /\ w.pc = "done" => Position(r, c) = <<w.call + 1, 0>>
  BY Positions DEF ProtocolInv
<1>6. j \in {1, 2} /\ (wg[s][c].pc = "gather" => j = 2)
  OBVIOUS
<1> HIDE DEF j
<1>7. CASE Position(r, c) = <<k, j>>
  <2>1. w.pc \in {"reduce", "mid", "gather", "depart"} /\ w.call = k
    BY <1>3, <1>5, <1>6, <1>7
  <2>2. scall[r] = k /\ swait[r] = {}
    BY <1>3, <2>1
  <2>3. wg[s][c].pc = "gather" => w.pc \in {"gather", "depart"}
    BY <1>5, <1>6, <1>7, <2>1
  <2> QED
    BY <1>2, <2>1, <2>2, <2>3 DEF Reduced
<1>8. CASE NextPosition(Position(r, c)) = <<k, j>> /\ InRendezvous(r, c)
  <2>1. w.pc \in {"arrive", "mid", "depart"}
    BY <1>8 DEF InRendezvous, Phases
  <2>2. Position(r, c) = <<k, j - 1>>
    BY <1>1, <1>3, <1>5, <1>6, <1>8, <2>1 DEF NextPosition
  <2>3. w.call = k
    BY <1>5, <2>1, <2>2
  <2>4. scall[r] = k /\ swait[r] = {}
    BY <1>3, <2>1, <2>3
  <2>5. wg[s][c].pc = "gather" => w.pc = "mid"
    BY <1>2, <1>5, <1>6, <2>1, <2>2, <2>3
  <2> QED
    BY <1>2, <2>3, <2>4, <2>5 DEF Reduced
<1> QED
  BY <1>4, <1>7, <1>8

\* A work-group that reduces reads nothing but the inputs of its call.
LEMMA ReadsInputs ==
    ASSUME ProtocolInv, StagingInv, NEW s \in Ranks, NEW c \in Blocks,
           wg[s][c].pc = "reduce", NEW r \in Ranks,
           NEW i \in Reading(s, c, r)
    PROVE  staging[r][i] = Raw(r, wg[s][c].call)
<1> DEFINE k == wg[s][c].call
<1>1. Working(s, c)
  BY DEF Working
<1>2. k \in Calls /\ scall[r] = k /\ swait[r] = {} /\ k >= 1
  BY <1>1, WorkingPosition, PeersReady DEF Calls
<1>3. i \in Elements(Numel[k])
  BY DEF Reading, Stripe, Slice
<1>4. PICK b \in Blocks : i \in Stripe(Numel[k], b)
  BY <1>2, <1>3, SizeType, StripesPartition
<1>5. ~\E d \in Blocks : Reduced(r, d, k) /\ i \in Slice(Numel[k], r, d)
  <2> SUFFICES ASSUME NEW d \in Blocks, Reduced(r, d, k), i \in Slice(Numel[k], r, d)
               PROVE  FALSE
    OBVIOUS
  <2>1. TwoShot(k) /\ i \in Slice(Numel[k], s, c)
    BY DEF Reduced, Reading
  <2>2. <<r, d>> = <<s, c>>
    BY <1>2, <2>1, SizeType, SlicesDisjoint
  <2> QED
    BY <2>2 DEF Reduced
<1> QED
  BY <1>2, <1>4, <1>5 DEF StagingInv

LEMMA ComputesSum ==
    ASSUME ProtocolInv, StagingInv, NEW s \in Ranks, NEW c \in Blocks,
           wg[s][c].pc = "reduce", NEW i,
           \A r \in Ranks : i \in Reading(s, c, r)
    PROVE  Accumulated(s, i) = Sum(wg[s][c].call)
<1>1. \A j \in 1..World : AccOrder(s)[j] = j - 1 /\ j - 1 \in Ranks
  BY WorldAssumption DEF AccOrder, Ranks
<1>2. \A j \in 1..World : staging[AccOrder(s)[j]][i] = Raw(j - 1, wg[s][c].call)
  BY <1>1, ReadsInputs
<1> QED
  BY <1>2 DEF Accumulated, Sum, SumOf

\* A work-group that gathers reads nothing but sums of its call.
LEMMA ReadsSums ==
    ASSUME ProtocolInv, StagingInv, NEW s \in Ranks, NEW c \in Blocks,
           wg[s][c].pc = "gather", NEW i \in Produces(wg[s][c].call, c)
    PROVE  staging[Owner(Numel[wg[s][c].call], i)][i] = Sum(wg[s][c].call)
<1> DEFINE k == wg[s][c].call
<1>1. Working(s, c) /\ TwoShot(k)
  BY DEF Working, ProtocolInv, GroupInv, GroupOK
<1>2. k \in Calls /\ k >= 1
  BY <1>1, WorkingPosition DEF Calls
<1>3. PICK o \in Ranks : i \in Slice(Numel[k], o, c)
  BY <1>1 DEF Produces
<1>4. Owner(Numel[k], i) = o /\ i \in Elements(Numel[k])
  BY <1>2, <1>3, SizeType, SliceOwner DEF Slice
<1>5. scall[o] = k /\ swait[o] = {} /\ Reduced(o, c, k)
  BY <1>1, PeersReady
<1>6. PICK b \in Blocks : i \in Stripe(Numel[k], b)
  BY <1>2, <1>4, SizeType, StripesPartition
<1>7. staging[o][i] = Sum(k)
  BY <1>2, <1>3, <1>5, <1>6 DEF StagingInv
<1> QED
  BY <1>4, <1>7

-----------------------------------------------------------------------------
(* The contents of staging areas and outputs                                *)

LEMMA SumInit == Init => StagingInv /\ OutputInv
<1> SUFFICES ASSUME Init PROVE StagingInv /\ OutputInv
  OBVIOUS
<1>1. StagingInv
  BY DEF Init, StagingInv
<1>2. ASSUME NEW r \in Ranks, NEW b \in Blocks, NEW k \in Calls
      PROVE  ~Delivered(r, b, k)
  BY SizeType DEF Init, Delivered, Calls
<1>3. ASSUME NEW r \in Ranks, NEW b \in Blocks, NEW k \in Calls,
             NEW i \in Produces(k, b)
      PROVE  out[r][k][i] = Nothing
  BY DEF Init, Produces, Stripe
<1>4. OutputInv
  BY <1>2, <1>3 DEF OutputInv
<1> QED
  BY <1>1, <1>4

\* A step that writes neither staging nor output and moves work-groups only
\* between states that agree on what is reduced and delivered.
LEMMA ContentFrame ==
    ASSUME StagingInv, OutputInv, staging' = staging, out' = out,
           scall' = scall, swait' = swait,
           \A r \in Ranks, b \in Blocks :
              /\ Reduced(r, b, scall[r])' <=> Reduced(r, b, scall[r])
              /\ \A k \in Calls : Delivered(r, b, k)' <=> Delivered(r, b, k)
    PROVE  StagingInv' /\ OutputInv'
<1>1. StagingInv'
  <2> SUFFICES ASSUME NEW r \in Ranks, NEW b \in Blocks \ swait[r], scall[r] >= 1,
                      NEW i \in Stripe(Numel[scall[r]], b)
      PROVE  staging[r][i] =
               IF \E c \in Blocks : /\ Reduced(r, c, scall[r])'
                                    /\ i \in Slice(Numel[scall[r]], r, c)
               THEN Sum(scall[r]) ELSE Raw(r, scall[r])
    BY DEF StagingInv
  <2> QED
    BY DEF StagingInv
<1>2. OutputInv'
  BY DEF OutputInv, Produces, TwoShot
<1> QED
  BY <1>1, <1>2

\* How the state of the moving work-group bears on Reduced and Delivered.
LEMMA ContentSame ==
    ASSUME ProtocolInv, NEW r \in Ranks, NEW b \in Blocks,
           \/ wg'[r][b] = wg[r][b]
           \/ /\ wg'[r][b].call = wg[r][b].call
              /\ \/ wg'[r][b].pc = wg[r][b].pc
                 \/ wg[r][b].pc = "arrive" /\ wg'[r][b].pc = "reduce"
                 \/ wg[r][b].pc = "mid" /\ wg'[r][b].pc = "gather"
                 \/ wg[r][b].pc = "depart" /\ wg'[r][b].pc = "done"
           \/ /\ wg[r][b].pc = "done" /\ wg[r][b].call + 1 = scall[r]
              /\ wg'[r][b].call = wg[r][b].call + 1 /\ wg'[r][b].pc = "arrive",
           scall' = scall
    PROVE  /\ Reduced(r, b, scall[r])' <=> Reduced(r, b, scall[r])
           /\ \A k \in Calls : Delivered(r, b, k)' <=> Delivered(r, b, k)
<1>1. wg[r][b].call \in Nat /\ scall[r] \in Nat
  BY GroupTypes DEF ProtocolInv
<1>2. Reduced(r, b, scall[r])' <=> Reduced(r, b, scall[r])
  BY <1>1 DEF Reduced, TwoShot
<1>3. \A k \in Calls : Delivered(r, b, k)' <=> Delivered(r, b, k)
  BY <1>1, SizeType DEF Delivered
<1> QED
  BY <1>2, <1>3

LEMMA ControlContents ==
    ASSUME Regular, ProtocolInv, StagingInv, OutputInv,
           NEW r \in Ranks, NEW b \in Blocks,
           \/ Start(r, b)
           \/ \E l \in Ranks : Publish(r, b, l) \/ Observe(r, b, l)
           \/ EndRendezvous(r, b)
    PROVE  StagingInv' /\ OutputInv'
<1>1. staging' = staging /\ out' = out /\ scall' = scall /\ swait' = swait
  BY DEF Start, Publish, Observe, EndRendezvous
<1>2. wg[r][b] \in WgState /\ TypeOK
  BY DEF ProtocolInv, TypeOK
<1>3. \/ /\ wg'[r][b].call = wg[r][b].call
         /\ \/ wg'[r][b].pc = wg[r][b].pc
            \/ wg[r][b].pc = "arrive" /\ wg'[r][b].pc = "reduce"
            \/ wg[r][b].pc = "mid" /\ wg'[r][b].pc = "gather"
            \/ wg[r][b].pc = "depart" /\ wg'[r][b].pc = "done"
      \/ /\ wg[r][b].pc = "done" /\ wg[r][b].call + 1 = scall[r]
         /\ wg'[r][b].call = wg[r][b].call + 1 /\ wg'[r][b].pc = "arrive"
  <2>1. CASE Start(r, b)
    <3>1. wg'[r][b] = Entering(r, b, wg[r][b].call + 1, "arrive") /\ wg[r][b].pc = "done"
      BY <1>2, <2>1 DEF Start, TypeOK
    <3>2. Staged(r, wg[r][b].call + 1)
      BY <2>1 DEF Start, ReadyToStart
    <3>3. scall[r] <= wg[r][b].call + 1
      BY DEF ProtocolInv, KernelInv
    <3>4. wg[r][b].call + 1 = scall[r]
      BY <1>2, <3>2, <3>3, GroupTypes DEF Staged
    <3> QED
      BY <3>1, <3>4 DEF Entering
  <2>2. ASSUME NEW l \in Ranks, Publish(r, b, l)
        PROVE  wg'[r][b].call = wg[r][b].call /\ wg'[r][b].pc = wg[r][b].pc
    <3>1. wg'[r][b] = [wg[r][b] EXCEPT !.pub = @ \cup {l}]
      BY <1>2, <2>2 DEF Publish, TypeOK
    <3> QED
      BY <1>2, <3>1 DEF WgState
  <2>3. ASSUME NEW l \in Ranks, Observe(r, b, l)
        PROVE  wg'[r][b].call = wg[r][b].call /\ wg'[r][b].pc = wg[r][b].pc
    <3>1. Through(r, b, l)
      BY <2>3 DEF Observe
    <3>2. wg'[r][b] = [wg[r][b] EXCEPT !.seen = @ \cup {l}]
      BY <1>2, <3>1 DEF Through, TypeOK
    <3> QED
      BY <1>2, <3>2 DEF WgState
  <2>4. CASE EndRendezvous(r, b)
    <3>1. wg'[r][b] = [wg[r][b] EXCEPT !.pc = After(wg[r][b].pc)] /\ wg[r][b].pc \in Phases
      BY <1>2, <2>4 DEF EndRendezvous, TypeOK
    <3>2. wg'[r][b].call = wg[r][b].call /\ wg'[r][b].pc = After(wg[r][b].pc)
      BY <1>2, <3>1 DEF WgState
    <3> QED
      BY <3>1, <3>2 DEF After, Phases
  <2> QED
    BY <2>1, <2>2, <2>3, <2>4
<1>4. \A s \in Ranks, c \in Blocks : <<s, c>> # <<r, b>> => wg'[s][c] = wg[s][c]
  BY <1>2, OtherGroups DEF GroupStep
<1>5. \A s \in Ranks, c \in Blocks :
        /\ Reduced(s, c, scall[s])' <=> Reduced(s, c, scall[s])
        /\ \A k \in Calls : Delivered(s, c, k)' <=> Delivered(s, c, k)
  <2> SUFFICES ASSUME NEW s \in Ranks, NEW c \in Blocks
      PROVE  /\ Reduced(s, c, scall[s])' <=> Reduced(s, c, scall[s])
             /\ \A k \in Calls : Delivered(s, c, k)' <=> Delivered(s, c, k)
    OBVIOUS
  <2>1. CASE <<s, c>> = <<r, b>>
    BY <1>1, <1>3, <2>1, ContentSame
  <2>2. CASE <<s, c>> # <<r, b>>
    BY <1>1, <1>4, <2>2, ContentSame
  <2> QED
    BY <2>1, <2>2
<1> QED
  BY <1>1, <1>5, ContentFrame

LEMMA StageContents ==
    ASSUME Regular, ProtocolInv, StagingInv, OutputInv,
           NEW r \in Ranks, NEW b \in Blocks, Stage(r, b)
    PROVE  StagingInv' /\ OutputInv'
<1> DEFINE k == scall[r]
<1>1. /\ wg' = wg /\ out' = out /\ scall' = scall
      /\ b \in swait[r]
      /\ swait' = [swait EXCEPT ![r] = @ \ {b}]
      /\ staging' = [staging EXCEPT ![r] = [i \in Elements(Capacity) |->
              IF i \in Stripe(Numel[k], b) THEN Raw(r, k) ELSE staging[r][i]]]
  BY DEF Stage, ProtocolInv, TypeOK
<1>2. OutputInv'
  BY <1>1 DEF OutputInv, Produces, TwoShot, Delivered
<1>3. \A c \in Blocks : ~Reduced(r, c, k)
  <2> TAKE c \in Blocks
  <2>1. wg[r][c].call < k
    BY <1>1 DEF ProtocolInv, KernelInv
  <2> QED
    BY <2>1, GroupTypes DEF Reduced, ProtocolInv
<1>4. StagingInv'
  <2> SUFFICES ASSUME NEW s \in Ranks, NEW c \in Blocks \ swait'[s], scall[s] >= 1,
                      NEW i \in Stripe(Numel[scall[s]], c)
      PROVE  staging'[s][i] =
               IF \E d \in Blocks : /\ Reduced(s, d, scall[s])
                                    /\ i \in Slice(Numel[scall[s]], s, d)
               THEN Sum(scall[s]) ELSE Raw(s, scall[s])
    BY <1>1 DEF StagingInv, Reduced, TwoShot
  <2>1. CASE s # r
    BY <1>1, <2>1 DEF StagingInv, ProtocolInv, TypeOK
  <2>2. CASE s = r
    <3>1. k \in Calls
      BY <2>2, GroupTypes DEF ProtocolInv, Calls
    <3>2. i \in Elements(Numel[k]) /\ i \in Elements(Capacity)
      BY <2>2, <3>1, SizeType DEF Stripe
    <3>3. staging'[r][i] = IF i \in Stripe(Numel[k], b) THEN Raw(r, k) ELSE staging[r][i]
      BY <1>1, <3>2 DEF ProtocolInv, TypeOK
    <3>4. CASE c = b
      BY <1>3, <2>2, <3>3, <3>4
    <3>5. CASE c # b
      <4>1. c \notin swait[r]
        BY <1>1, <2>2, <3>5 DEF ProtocolInv, TypeOK
      <4>2. staging[r][i] = Raw(r, k)
        BY <1>3, <2>2, <4>1 DEF StagingInv
      <4> QED
        BY <1>3, <2>2, <3>3, <4>2
    <3> QED
      BY <3>4, <3>5
  <2> QED
    BY <2>1, <2>2
<1> QED
  BY <1>2, <1>4

LEMMA ScatterContents ==
    ASSUME Regular, ProtocolInv, StagingInv, OutputInv,
           NEW r \in Ranks, NEW b \in Blocks, ReduceScatter(r, b)
    PROVE  StagingInv' /\ OutputInv'
<1> DEFINE k == wg[r][b].call
<1>1. /\ wg[r][b].pc = "reduce" /\ TwoShot(k)
      /\ out' = out /\ scall' = scall /\ swait' = swait
      /\ staging' = [staging EXCEPT ![r] = [i \in Elements(Capacity) |->
              IF i \in Slice(Numel[k], r, b) THEN Accumulated(r, i) ELSE staging[r][i]]]
      /\ wg'[r][b] = Entering(r, b, k, "mid")
  BY DEF ReduceScatter, ProtocolInv, TypeOK
<1>2. wg'[r][b].call = k /\ wg'[r][b].pc = "mid"
  BY <1>1 DEF Entering
<1>3. k \in Calls /\ scall[r] = k /\ k \in Nat
  BY <1>1, WorkingPosition DEF Working, Calls
<1>4. \A s \in Ranks, c \in Blocks : <<s, c>> # <<r, b>> => wg'[s][c] = wg[s][c]
  BY OtherGroups DEF GroupStep, ProtocolInv
<1>5. OutputInv'
  <2>1. \A m \in Calls : Delivered(r, b, m)' <=> Delivered(r, b, m)
    BY <1>1, <1>2 DEF Delivered
  <2>2. \A s \in Ranks, c \in Blocks, m \in Calls :
           Delivered(s, c, m)' <=> Delivered(s, c, m)
    BY <1>4, <2>1 DEF Delivered
  <2> QED
    BY <1>1, <2>2 DEF OutputInv, Produces, TwoShot
<1>6. /\ \A m \in Calls : Reduced(r, b, m)' <=> m = k
      /\ \A m \in Calls : ~Reduced(r, b, m)
  BY <1>1, <1>2 DEF Reduced, TwoShot
<1>7. \A s \in Ranks, c \in Blocks, m \in Calls : <<s, c>> # <<r, b>> =>
         (Reduced(s, c, m)' <=> Reduced(s, c, m))
  BY <1>4 DEF Reduced, TwoShot
<1>8. \A i \in Slice(Numel[k], r, b) : Accumulated(r, i) = Sum(k)
  BY <1>1, ComputesSum DEF Reading
<1>9. StagingInv'
  <2>0. \A s \in Ranks : scall[s] >= 1 => scall[s] \in Calls
    BY GroupTypes DEF ProtocolInv, TypeOK, Calls
  <2> SUFFICES ASSUME NEW s \in Ranks, NEW c \in Blocks \ swait[s],
                      NEW m \in Calls, m = scall[s], m >= 1,
                      NEW i \in Stripe(Numel[m], c)
      PROVE  staging'[s][i] =
               IF \E d \in Blocks : /\ Reduced(s, d, m)'
                                    /\ i \in Slice(Numel[m], s, d)
               THEN Sum(m) ELSE Raw(s, m)
    BY <1>1, <2>0, SMTT(60) DEF StagingInv, Reduced, TwoShot
  <2>1. staging[s][i] =
               IF \E d \in Blocks : /\ Reduced(s, d, m)
                                    /\ i \in Slice(Numel[m], s, d)
               THEN Sum(m) ELSE Raw(s, m)
    BY DEF StagingInv
  <2>2. CASE s # r
    <3>1. staging'[s][i] = staging[s][i]
      BY <1>1, <2>2 DEF ProtocolInv, TypeOK
    <3> QED
      BY <1>7, <2>1, <2>2, <3>1
  <2>3. CASE s = r
    <3>1. m = k /\ i \in Elements(Capacity)
      BY <1>3, <2>3, SizeType DEF Stripe
    <3>2. staging'[r][i] = IF i \in Slice(Numel[m], r, b) THEN Accumulated(r, i) ELSE staging[r][i]
      BY <1>1, <3>1 DEF ProtocolInv, TypeOK
    <3>3. CASE i \in Slice(Numel[m], r, b)
      <4>1. staging'[r][i] = Sum(m)
        BY <1>8, <3>1, <3>2, <3>3
      <4>2. Reduced(r, b, m)'
        BY <1>6, <3>1
      <4> QED
        BY <2>3, <3>3, <4>1, <4>2
    <3>4. CASE i \notin Slice(Numel[m], r, b)
      <4>1. \A d \in Blocks : i \in Slice(Numel[m], r, d) =>
               (Reduced(r, d, m)' <=> Reduced(r, d, m))
        BY <1>7, <3>4
      <4>2. staging'[r][i] = staging[r][i]
        BY <3>2, <3>4
      <4> QED
        BY <2>1, <2>3, <4>1, <4>2
    <3> QED
      BY <3>3, <3>4
  <2> QED
    BY <2>2, <2>3
<1> QED
  BY <1>5, <1>9

\* The two steps that deliver: the one-shot reduction and the all-gather.
LEMMA DeliveryContents ==
    ASSUME Regular, ProtocolInv, StagingInv, OutputInv,
           NEW r \in Ranks, NEW b \in Blocks, ReduceOneShot(r, b) \/ Gather(r, b)
    PROVE  StagingInv' /\ OutputInv'
<1> DEFINE k == wg[r][b].call
<1>1. /\ wg[r][b].pc \in {"reduce", "gather"}
      /\ wg[r][b].pc = "reduce" => ~TwoShot(k)
      /\ staging' = staging /\ scall' = scall /\ swait' = swait
      /\ wg'[r][b] = Entering(r, b, k, "depart")
  <2>1. TypeOK
    BY DEF ProtocolInv
  <2>2. ~ReduceScatter(r, b)
    BY DeliversApart
  <2> QED
    BY <2>1, <2>2, WorkMoves
<1>2. wg'[r][b].call = k /\ wg'[r][b].pc = "depart"
  BY <1>1 DEF Entering
<1>3. k \in Calls /\ scall[r] = k /\ k \in Nat
  BY <1>1, WorkingPosition DEF Working, Calls
<1>4. \A s \in Ranks, c \in Blocks : <<s, c>> # <<r, b>> => wg'[s][c] = wg[s][c]
  BY OtherGroups DEF GroupStep, ProtocolInv
<1>5. \A m \in Calls : Reduced(r, b, m)' <=> Reduced(r, b, m)
  <2>1. wg[r][b].pc = "gather" => TwoShot(k)
    BY DEF ProtocolInv, GroupInv, GroupOK
  <2> QED
    BY <1>1, <1>2, <2>1 DEF Reduced, TwoShot
<1>6. \A s \in Ranks, c \in Blocks, m \in Calls :
         Reduced(s, c, m)' <=> Reduced(s, c, m)
  <2> TAKE s \in Ranks, c \in Blocks, m \in Calls
  <2>1. CASE <<s, c>> # <<r, b>>
    BY <1>4, <2>1 DEF Reduced, TwoShot
  <2>2. CASE <<s, c>> = <<r, b>>
    BY <1>5, <2>2
  <2> QED
    BY <2>1, <2>2
<1>7. StagingInv'
  <2>0. \A s \in Ranks : scall[s] >= 1 => scall[s] \in Calls
    BY GroupTypes DEF ProtocolInv, TypeOK, Calls
  <2> SUFFICES ASSUME NEW s \in Ranks, NEW c \in Blocks \ swait[s],
                      NEW m \in Calls, m = scall[s], m >= 1,
                      NEW i \in Stripe(Numel[m], c)
      PROVE  staging[s][i] =
               IF \E d \in Blocks : /\ Reduced(s, d, m)'
                                    /\ i \in Slice(Numel[m], s, d)
               THEN Sum(m) ELSE Raw(s, m)
    BY <1>1, <2>0 DEF StagingInv, Reduced, TwoShot
  <2>1. staging[s][i] =
               IF \E d \in Blocks : /\ Reduced(s, d, m)
                                    /\ i \in Slice(Numel[m], s, d)
               THEN Sum(m) ELSE Raw(s, m)
    BY DEF StagingInv
  <2> QED
    BY <1>6, <2>1
<1>8. \A s \in Ranks, m \in Calls : \A i \in Elements(Numel[m]) :
         out'[s][m][i] = IF s = r /\ m = k /\ i \in Produces(k, b) THEN Sum(k)
                         ELSE out[s][m][i]
  <2> TAKE s \in Ranks, m \in Calls
  <2> TAKE i \in Elements(Numel[m])
  <2>1. CASE ReduceOneShot(r, b)
    <3>1. out' = [out EXCEPT ![r][k] = [j \in Elements(Numel[k]) |->
                    IF j \in Produces(k, b) THEN Accumulated(r, j) ELSE out[r][k][j]]]
      BY <2>1, <1>3 DEF ReduceOneShot, ProtocolInv, TypeOK
    <3>2. \A j \in Produces(k, b) : Accumulated(r, j) = Sum(k)
      BY <1>1, <2>1, ComputesSum DEF Reading, Produces, ReduceOneShot
    <3> QED
      BY <1>3, <3>1, <3>2 DEF ProtocolInv, TypeOK
  <2>2. CASE Gather(r, b)
    <3>1. out' = [out EXCEPT ![r][k] = [j \in Elements(Numel[k]) |->
                    IF j \in Produces(k, b) THEN staging[Owner(Numel[k], j)][j]
                    ELSE out[r][k][j]]]
      BY <2>2, <1>3 DEF Gather, ProtocolInv, TypeOK
    <3>2. \A j \in Produces(k, b) : staging[Owner(Numel[k], j)][j] = Sum(k)
      BY <2>2, ReadsSums DEF Gather
    <3> QED
      BY <1>3, <3>1, <3>2 DEF ProtocolInv, TypeOK
  <2> QED
    BY <2>1, <2>2
<1>9. \A m \in Calls : Delivered(r, b, m)' <=> m = k \/ Delivered(r, b, m)
  BY <1>2, <1>3, SizeType DEF Delivered
<1>10. \A s \in Ranks, c \in Blocks, m \in Calls : <<s, c>> # <<r, b>> =>
          (Delivered(s, c, m)' <=> Delivered(s, c, m))
  BY <1>4 DEF Delivered
<1>11. OutputInv'
  <2> SUFFICES ASSUME NEW s \in Ranks, NEW c \in Blocks, NEW m \in Calls,
                      NEW i \in Produces(m, c)
      PROVE  out'[s][m][i] = IF Delivered(s, c, m)' THEN Sum(m) ELSE Nothing
    BY DEF OutputInv, Produces, TwoShot
  <2>1. i \in Elements(Numel[m])
    BY DEF Produces, Stripe
  <2>2. out[s][m][i] = IF Delivered(s, c, m) THEN Sum(m) ELSE Nothing
    BY DEF OutputInv
  <2>3. CASE s = r /\ m = k /\ c = b
    BY <1>8, <1>9, <2>1, <2>3
  <2>4. CASE <<s, c>> = <<r, b>> /\ m # k
    BY <1>8, <1>9, <2>1, <2>2, <2>4
  <2>5. CASE <<s, c>> # <<r, b>>
    <3>1. ~(s = r /\ m = k /\ i \in Produces(k, b))
      BY <2>1, <2>5, ProducesPartition
    <3> QED
      BY <1>8, <1>10, <2>1, <2>2, <2>5, <3>1
  <2> QED
    BY <2>3, <2>4, <2>5
<1> QED
  BY <1>7, <1>11

LEMMA SumStep ==
    ASSUME Regular, IInv, [Next]_vars
    PROVE  IInv'
<1> USE DEF IInv
<1>0. ProtocolInv'
  BY ProtocolStep
<1>1. ASSUME NEW r \in Ranks, Submit(r) \/ Die(r) PROVE StagingInv' /\ OutputInv'
  <2>1. wg' = wg /\ staging' = staging /\ out' = out /\ scall' = scall /\ swait' = swait
    BY <1>1 DEF Submit, Die
  <2> QED
    BY <2>1, ContentSame, ContentFrame
<1>2. ASSUME NEW r \in Ranks, StartStage(r) PROVE StagingInv' /\ OutputInv'
  <2>1. /\ wg' = wg /\ staging' = staging /\ out' = out
        /\ \A s \in Ranks \ {r} : scall'[s] = scall[s] /\ swait'[s] = swait[s]
        /\ swait'[r] = Blocks
    BY <1>2 DEF StartStage, ProtocolInv, TypeOK
  <2>2. OutputInv'
    BY <2>1 DEF OutputInv, Produces, TwoShot, Delivered
  <2>3. StagingInv'
    <3> SUFFICES ASSUME NEW s \in Ranks, NEW c \in Blocks \ swait'[s], scall'[s] >= 1,
                        NEW i \in Stripe(Numel[scall'[s]], c)
        PROVE  staging[s][i] =
                 IF \E d \in Blocks : /\ Reduced(s, d, scall'[s])
                                      /\ i \in Slice(Numel[scall'[s]], s, d)
                 THEN Sum(scall'[s]) ELSE Raw(s, scall'[s])
      BY <2>1 DEF StagingInv, Reduced, TwoShot
    <3>1. s # r
      BY <2>1
    <3> QED
      BY <2>1, <3>1 DEF StagingInv
  <2> QED
    BY <2>2, <2>3
<1>3. ASSUME NEW r \in Ranks, NEW b \in Blocks, GroupStep(r, b)
      PROVE  StagingInv' /\ OutputInv'
  <2>1. \A l \in Ranks : ~Expire(r, b, l)
    BY DEF Expire, Regular
  <2> QED
    BY <1>3, <2>1, ControlContents, StageContents, ScatterContents, DeliveryContents
    DEF GroupStep
<1>4. CASE UNCHANGED vars
  <2>1. wg' = wg /\ staging' = staging /\ out' = out /\ scall' = scall /\ swait' = swait
    BY <1>4 DEF vars
  <2>2. StagingInv' /\ OutputInv'
    BY <2>1, ContentSame, ContentFrame
  <2> QED
    BY <1>0, <2>2
<1> QED
  BY <1>0, <1>1, <1>2, <1>3, <1>4 DEF Next

LEMMA ExactFromInv == IInv => OutputExact
<1> SUFFICES ASSUME IInv, NEW r \in Ranks, NEW k \in Calls, NEW i \in Elements(Numel[k])
    PROVE  \/ out[r][k][i] = Sum(k)
           \/ out[r][k][i] = Nothing /\ ~Finished(r, k)
  BY DEF OutputExact
<1>1. PICK b \in Blocks : i \in Produces(k, b)
  BY ProducesPartition
<1>2. out[r][k][i] = IF Delivered(r, b, k) THEN Sum(k) ELSE Nothing
  BY <1>1 DEF IInv, OutputInv
<1>3. Finished(r, k) => Delivered(r, b, k)
  BY DEF Finished, Delivered
<1> QED
  BY <1>2, <1>3

\* The whole invariant: where everybody is in the handshake, what the staging
\* areas hold there, and what has been written out.
THEOREM SumInvariant ==
    ASSUME Regular
    PROVE  Spec => []IInv
<1>1. IInv /\ [Next]_vars => IInv'
  BY SumStep
<1>2. Init => IInv
  BY ProtocolInit, SumInit DEF IInv
<1> QED
  BY <1>1, <1>2, PTL DEF Spec

\* Bitwise consistency for every world, grid and sequence of sizes: whatever
\* any rank has written for a call is that call's sum in rank order, and a
\* finished call has left no element out.
THEOREM BitwiseConsistency ==
    ASSUME Regular
    PROVE  Spec => []OutputExact
<1>1. Spec => []IInv
  BY SumInvariant
<1> QED
  BY <1>1, ExactFromInv, PTL

-----------------------------------------------------------------------------
(* Consequences of the protocol invariant                                   *)

LEMMA AbreastFromInv == ProtocolInv => Abreast
<1> SUFFICES ASSUME ProtocolInv, NEW r \in Ranks, NEW s \in Ranks, NEW b \in Blocks,
                    wg[r][b].call = wg[s][b].call, wg[r][b].pc # "done"
             PROVE  Passed(s, b) - Passed(r, b) <= 1
  BY DEF Abreast
<1> DEFINE k == wg[r][b].call
           i == Passed(r, b)
           j == Passed(s, b)
<1>1. /\ k \in Nat /\ i \in 0..2 /\ j \in 0..3
      /\ wg[s][b].pc = "done" => j = PhaseCount(k)
      /\ Position(r, b) = <<k, i>>
      /\ Position(s, b) = IF wg[s][b].pc = "done" THEN <<k + 1, 0>> ELSE <<k, j>>
  BY GroupTypes DEF Passed, PhaseCount, Position, ProtocolInv
<1>2. /\ Completed(r, b) \in Int /\ Completed(s, b) \in Int
      /\ Completed(s, b) <= Completed(r, b) + 1
      /\ Completed(r, b) <= Completed(s, b) + 1
  BY GroupTypes DEF ProtocolInv, FlagInv, Announced
<1>3. /\ Completed(r, b) = Completed(s, b) => Position(r, b) = Position(s, b)
      /\ Completed(s, b) = Completed(r, b) + 1
            => Position(s, b) = NextPosition(Position(r, b))
      /\ Completed(r, b) = Completed(s, b) + 1
            => Position(r, b) = NextPosition(Position(s, b))
  BY DEF ProtocolInv, AlignInv
<1> HIDE DEF i, j, k
<1>4. CASE Completed(r, b) = Completed(s, b)
  BY <1>1, <1>3, <1>4 DEF i, j
<1>5. CASE Completed(s, b) = Completed(r, b) + 1
  BY <1>1, <1>3, <1>5 DEF NextPosition, i, j
<1>6. CASE Completed(r, b) = Completed(s, b) + 1
  BY <1>1, <1>3, <1>6 DEF NextPosition, i, j
<1> QED
  BY <1>2, <1>4, <1>5, <1>6

\* No work-group of any rank ever gets two rendezvous ahead of its peers,
\* across calls and for any mix of the two algorithms.
THEOREM RanksAbreast ==
    ASSUME Regular
    PROVE  Spec => []Abreast
<1>1. Spec => []ProtocolInv
  BY ProtocolSafe
<1> QED
  BY <1>1, AbreastFromInv, PTL

-----------------------------------------------------------------------------
(***************************************************************************)
(* The protocol implements the collective: every step of a work-group is a *)
(* step of AllReduceSpec, or none of its business.                         *)
(***************************************************************************)

\* What EnteredCalls and LeftCalls say of one rank.
EnteredOf(r) == IF swait[r] = {} THEN scall[r] ELSE scall[r] - 1
LeftOf(r) == IF Finished(r, scall[r]) THEN scall[r] ELSE scall[r] - 1

\* Where the work-groups of a rank are relative to its last stage kernel.
LEMMA GroupsOfRank ==
    ASSUME ProtocolInv, NEW r \in Ranks, NEW b \in Blocks
    PROVE  /\ scall[r] \in 0..MaxCalls /\ MaxCalls \in Nat
           /\ wg[r][b].call \in Nat
           /\ wg[r][b].call <= scall[r] /\ scall[r] <= wg[r][b].call + 1
           /\ wg[r][b].call < scall[r] => wg[r][b].pc = "done"
           /\ swait[r] # {} => wg[r][b].call < scall[r]
           /\ wg[r][b].pc # "done" => wg[r][b].call >= 1
  BY GroupTypes DEF ProtocolInv, KernelInv, GroupInv, GroupOK

LEMMA FinishedDown ==
    ASSUME ProtocolInv, NEW r \in Ranks, NEW j \in Nat, NEW k \in Nat,
           j < k, Finished(r, k)
    PROVE  Finished(r, j)
  BY GroupsOfRank DEF Finished

\* The last call a rank has left is the one its stage kernel served last, or
\* the one before.
LEMMA LeftValue ==
    ASSUME ProtocolInv, NEW r \in Ranks
    PROVE  /\ LeftOf(r) \in 0..MaxCalls
           /\ Finished(r, LeftOf(r)) /\ ~Finished(r, LeftOf(r) + 1)
           /\ LeftCalls[r] = LeftOf(r)
<1>1. 0 \in Blocks
  BY GridAssumption DEF Blocks
<1>2. scall[r] \in 0..MaxCalls /\ MaxCalls \in Nat
  BY <1>1, GroupsOfRank
<1>3. ~Finished(r, scall[r] + 1)
  BY <1>1, GroupsOfRank DEF Finished
<1>4. ~Finished(r, scall[r]) => scall[r] >= 1 /\ Finished(r, scall[r] - 1)
  BY GroupsOfRank DEF Finished
<1>5. LeftOf(r) \in 0..MaxCalls /\ Finished(r, LeftOf(r)) /\ ~Finished(r, LeftOf(r) + 1)
  BY <1>2, <1>3, <1>4 DEF LeftOf
<1>6. \A k \in 0..MaxCalls : Finished(r, k) /\ ~Finished(r, k + 1) => k = LeftOf(r)
  <2> SUFFICES ASSUME NEW k \in 0..MaxCalls, Finished(r, k), ~Finished(r, k + 1),
                      k # LeftOf(r)
      PROVE  FALSE
    OBVIOUS
  <2>1. PICK m \in 0..MaxCalls : m = LeftOf(r) /\ Finished(r, m) /\ ~Finished(r, m + 1)
    BY <1>5
  <2>2. CASE k < m
    <3>1. k + 1 = m \/ k + 1 < m
      BY <1>2, <2>2
    <3> QED
      BY <1>2, <2>1, <3>1, FinishedDown
  <2>3. CASE m < k
    <3>1. m + 1 = k \/ m + 1 < k
      BY <1>2, <2>3
    <3> QED
      BY <1>2, <2>1, <3>1, FinishedDown
  <2> QED
    BY <1>2, <2>1, <2>2, <2>3
<1>7. LeftCalls[r] = CHOOSE k \in 0..MaxCalls : Finished(r, k) /\ ~Finished(r, k + 1)
  BY DEF LeftCalls
<1> QED
  BY <1>5, <1>6, <1>7

Mapped ==
    /\ EnteredCalls = [r \in Ranks |-> EnteredOf(r)]
    /\ LeftCalls = [r \in Ranks |-> LeftOf(r)]

LEMMA AbstractState == ProtocolInv => Mapped
<1> USE DEF Mapped
<1> SUFFICES ASSUME ProtocolInv
    PROVE  /\ EnteredCalls = [r \in Ranks |-> EnteredOf(r)]
           /\ LeftCalls = [r \in Ranks |-> LeftOf(r)]
  OBVIOUS
<1>1. EnteredCalls = [r \in Ranks |-> EnteredOf(r)]
  BY DEF EnteredCalls, EnteredOf
<1>2. LeftCalls = [r \in Ranks |-> LeftCalls[r]]
  BY DEF LeftCalls
<1>3. \A r \in Ranks : LeftCalls[r] = LeftOf(r)
  BY LeftValue
<1> QED
  BY <1>1, <1>2, <1>3

\* A rank that has left a call has left it because all have delivered it.
LEMMA FinishedEverywhere ==
    ASSUME ProtocolInv, NEW r \in Ranks, Finished(r, scall[r]),
           NEW s \in Ranks, NEW c \in Blocks
    PROVE  Delivered(s, c, scall[r])
<1> DEFINE k == scall[r]
           w == wg[s][c]
<1>1. wg[r][c].call = k /\ wg[r][c].pc = "done" /\ k \in Nat
  BY GroupsOfRank DEF Finished
<1>2. ~InRendezvous(r, c) /\ Position(r, c) = <<k + 1, 0>>
  BY <1>1, Positions DEF InRendezvous, Phases, ProtocolInv
<1>3. \/ Position(s, c) = <<k + 1, 0>>
      \/ NextPosition(Position(s, c)) = <<k + 1, 0>> /\ InRendezvous(s, c)
  BY <1>2, Between
<1>4. /\ w.call \in Nat
      /\ w.pc \in {"arrive", "mid", "depart", "reduce", "gather", "done"}
      /\ w.pc \in {"mid", "gather"} => TwoShot(w.call)
  BY GroupTypes DEF ProtocolInv, GroupInv, GroupOK
<1>5. /\ w.pc = "arrive" => Position(s, c) = <<w.call, 0>>
      /\ w.pc \in {"reduce", "mid"} => Position(s, c) = <<w.call, 1>>
      /\ w.pc = "gather" => Position(s, c) = <<w.call, 2>>
      /\ w.pc = "depart" => Position(s, c) = <<w.call, IF TwoShot(w.call) THEN 2 ELSE 1>>
      /\ w.pc = "done" => Position(s, c) = <<w.call + 1, 0>>
  BY Positions DEF ProtocolInv
<1>6. CASE Position(s, c) = <<k + 1, 0>>
  <2>1. w.pc \in {"arrive", "done"}
    BY <1>4, <1>5, <1>6
  <2> QED
    BY <1>1, <1>4, <1>5, <1>6, <2>1 DEF Delivered
<1>7. CASE NextPosition(Position(s, c)) = <<k + 1, 0>> /\ InRendezvous(s, c)
  <2>1. w.pc \in {"arrive", "mid", "depart"}
    BY <1>7 DEF InRendezvous, Phases
  <2>2. PICK j \in 0..2 : Position(s, c) = <<w.call, j>>
    BY <1>5, <2>1
  <2>3. j + 1 = PhaseCount(w.call) /\ w.call = k
    BY <1>1, <1>4, <1>7, <2>2 DEF NextPosition
  <2>4. w.pc = "depart"
    BY <1>4, <1>5, <2>1, <2>2, <2>3 DEF PhaseCount
  <2> QED
    BY <2>3, <2>4 DEF Delivered
<1> QED
  BY <1>3, <1>6, <1>7

LEMMA RefinesInit == Init => Abstract!Init
<1> SUFFICES ASSUME Init PROVE Abstract!Init
  OBVIOUS
<1>1. ProtocolInv
  BY ProtocolInit
<1>2. \A r \in Ranks : scall[r] = 0 /\ swait[r] = {} /\ Finished(r, 0)
  BY DEF Init, Finished
<1>3. EnteredCalls = [r \in Ranks |-> 0] /\ LeftCalls = [r \in Ranks |-> 0]
  BY <1>1, <1>2, AbstractState DEF Mapped, EnteredOf, LeftOf
<1>4. out = [r \in Ranks |-> [k \in Calls |-> [i \in CallElements(k) |-> Nothing]]]
  BY DEF Init, CallElements
<1> QED
  BY <1>3, <1>4 DEF Abstract!Init

-----------------------------------------------------------------------------
(* Steps                                                                    *)

AbstractQuiet ==
    /\ EnteredCalls' = EnteredCalls
    /\ LeftCalls' = LeftCalls
    /\ out' = out

LEMMA QuietStep ==
    ASSUME ProtocolInv, Mapped, Mapped', out' = out,
           \A r \in Ranks : EnteredOf(r)' = EnteredOf(r) /\ LeftOf(r)' = LeftOf(r)
    PROVE  AbstractQuiet
  BY DEF AbstractQuiet, Mapped

\* A rank whose work-groups do not move, or whose moving work-group has not
\* done with the call, has left what it had left.
LEMMA LeftKept ==
    ASSUME ProtocolInv, NEW r \in Ranks, NEW b \in Blocks, scall' = scall,
           \A s \in Ranks, c \in Blocks : <<s, c>> # <<r, b>> => wg'[s][c] = wg[s][c],
           wg[r][b].pc # "done" \/ wg[r][b].call < scall[r],
           wg'[r][b].pc # "done" /\ wg'[r][b].call = scall[r],
           NEW s \in Ranks
    PROVE  LeftOf(s)' = LeftOf(s)
<1>1. CASE s = r
  <2>1. ~Finished(r, scall[r]) /\ ~Finished(r, scall[r])'
    BY GroupsOfRank DEF Finished
  <2> QED
    BY <1>1, <2>1 DEF LeftOf
<1>2. CASE s # r
  <2>1. Finished(s, scall[s])' <=> Finished(s, scall[s])
    BY <1>2 DEF Finished
  <2> QED
    BY <2>1 DEF LeftOf
<1> QED
  BY <1>1, <1>2

LEMMA RefinesStartStage ==
    ASSUME Regular, ProtocolInv, Mapped, Mapped', NEW r \in Ranks, StartStage(r)
    PROVE  AbstractQuiet
<1>1. /\ wg' = wg /\ out' = out /\ swait[r] = {} /\ Finished(r, scall[r])
      /\ scall' = [scall EXCEPT ![r] = scall[r] + 1]
      /\ swait' = [swait EXCEPT ![r] = Blocks]
  BY DEF StartStage, Regular
<1>2. /\ scall'[r] = scall[r] + 1 /\ swait'[r] = Blocks /\ Blocks # {}
      /\ \A s \in Ranks \ {r} : scall'[s] = scall[s] /\ swait'[s] = swait[s]
  <2>1. 0 \in Blocks
    BY GridAssumption DEF Blocks
  <2> QED
    BY <1>1, <2>1 DEF ProtocolInv, TypeOK
<1>3. scall[r] \in Nat
  <2>1. 0 \in Blocks
    BY GridAssumption DEF Blocks
  <2>2. scall[r] \in 0..MaxCalls
    BY <2>1, GroupsOfRank
  <2> QED
    BY <2>2
<1>4. LeftOf(r) = scall[r] /\ LeftOf(r)' = scall[r]
  <2>1. ~Finished(r, scall[r] + 1)
    BY <1>1, LeftValue DEF LeftOf
  <2>2. ~Finished(r, scall[r])'
    BY <1>1, <1>2, <2>1 DEF Finished
  <2> QED
    BY <1>1, <1>2, <1>3, <2>2 DEF LeftOf
<1>5. EnteredOf(r) = scall[r] /\ EnteredOf(r)' = scall[r]
  BY <1>1, <1>2, <1>3 DEF EnteredOf
<1>6. ASSUME NEW s \in Ranks, s # r
      PROVE  EnteredOf(s)' = EnteredOf(s) /\ LeftOf(s)' = LeftOf(s)
  BY <1>1, <1>2, <1>6 DEF EnteredOf, LeftOf, Finished
<1> QED
  BY <1>1, <1>4, <1>5, <1>6, QuietStep

LEMMA RefinesStage ==
    ASSUME ProtocolInv, Mapped, Mapped', NEW r \in Ranks, NEW b \in Blocks, Stage(r, b)
    PROVE  AbstractQuiet \/ Abstract!Enter(r)
<1>1. /\ wg' = wg /\ out' = out /\ scall' = scall /\ b \in swait[r]
      /\ swait'[r] = swait[r] \ {b}
      /\ \A s \in Ranks \ {r} : swait'[s] = swait[s]
  BY DEF Stage, ProtocolInv, TypeOK
<1>2. \A s \in Ranks : LeftOf(s)' = LeftOf(s)
  BY <1>1 DEF LeftOf, Finished
<1>3. \A s \in Ranks \ {r} : EnteredOf(s)' = EnteredOf(s)
  BY <1>1 DEF EnteredOf
<1>4. CASE swait'[r] # {}
  BY <1>1, <1>2, <1>3, <1>4, QuietStep DEF EnteredOf
<1>5. CASE swait'[r] = {}
  <2>1. scall[r] \in Calls /\ scall[r] \in Nat /\ ~Finished(r, scall[r])
    BY <1>1, GroupsOfRank DEF Finished, Calls
  <2>2. EnteredOf(r) = scall[r] - 1 /\ EnteredOf(r)' = scall[r] /\ LeftOf(r) = scall[r] - 1
    BY <1>1, <1>5, <2>1 DEF EnteredOf, LeftOf
  <2>3. /\ EnteredCalls = [s \in Ranks |-> EnteredOf(s)]
        /\ LeftCalls = [s \in Ranks |-> LeftOf(s)]
        /\ EnteredCalls' = [s \in Ranks |-> EnteredOf(s)']
        /\ LeftCalls' = [s \in Ranks |-> LeftOf(s)']
    BY DEF Mapped
  <2>4. EnteredCalls[r] = LeftCalls[r] /\ EnteredCalls[r] + 1 \in Calls
    BY <2>1, <2>2, <2>3
  <2>5. EnteredCalls' = [EnteredCalls EXCEPT ![r] = EnteredCalls[r] + 1]
    BY <1>3, <2>1, <2>2, <2>3
  <2>6. LeftCalls' = LeftCalls
    BY <1>2, <2>3
  <2> QED
    BY <1>1, <2>4, <2>5, <2>6 DEF Abstract!Enter
<1> QED
  BY <1>4, <1>5

LEMMA RefinesRendezvous ==
    ASSUME ProtocolInv, Mapped, Mapped', NEW r \in Ranks, NEW b \in Blocks,
           \/ Start(r, b)
           \/ \E l \in Ranks : Publish(r, b, l) \/ Observe(r, b, l)
    PROVE  AbstractQuiet
<1>1. /\ out' = out /\ scall' = scall /\ swait' = swait
      /\ wg[r][b] \in WgState
      /\ \A s \in Ranks, c \in Blocks : <<s, c>> # <<r, b>> => wg'[s][c] = wg[s][c]
  <2>1. GroupStep(r, b) /\ TypeOK
    BY DEF GroupStep, ProtocolInv
  <2>2. wg[r][b] \in WgState
    BY <2>1 DEF TypeOK
  <2>3. out' = out /\ scall' = scall /\ swait' = swait
    BY DEF Start, Publish, Observe
  <2> QED
    BY <2>1, <2>2, <2>3, OtherGroups
<1>2. /\ wg[r][b].pc # "done" \/ wg[r][b].call < scall[r]
      /\ wg'[r][b].pc # "done" /\ wg'[r][b].call = scall[r]
  <2>1. CASE Start(r, b)
    <3>1. wg'[r][b] = Entering(r, b, wg[r][b].call + 1, "arrive")
      BY <2>1 DEF Start, ProtocolInv, TypeOK
    <3>2. Staged(r, wg[r][b].call + 1)
      BY <2>1 DEF Start, ReadyToStart
    <3>3. wg[r][b].call + 1 = scall[r]
      BY <3>2, GroupsOfRank DEF Staged
    <3> QED
      BY <3>1, <3>3, GroupsOfRank DEF Entering
  <2>2. ASSUME NEW l \in Ranks, Publish(r, b, l) \/ Observe(r, b, l)
        PROVE  /\ wg[r][b].pc # "done"
               /\ wg'[r][b].call = wg[r][b].call /\ wg'[r][b].pc = wg[r][b].pc
    <3>1. CASE Publish(r, b, l)
      <4>1. wg'[r][b] = [wg[r][b] EXCEPT !.pub = @ \cup {l}] /\ wg[r][b].pc \in Phases
        BY <3>1 DEF Publish, ProtocolInv, TypeOK
      <4> QED
        BY <1>1, <4>1 DEF WgState, Phases
    <3>2. CASE Observe(r, b, l)
      <4>1. wg'[r][b] = [wg[r][b] EXCEPT !.seen = @ \cup {l}] /\ wg[r][b].pc \in Phases
        <5>1. Through(r, b, l) /\ wg[r][b].pc \in Phases
          BY <3>2 DEF Observe, Spinning
        <5> QED
          BY <5>1 DEF Through, ProtocolInv, TypeOK
      <4> QED
        BY <1>1, <4>1 DEF WgState, Phases
    <3> QED
      BY <2>2, <3>1, <3>2
  <2>3. wg[r][b].pc # "done" => wg[r][b].call = scall[r]
    BY GroupsOfRank
  <2> QED
    BY <2>1, <2>2, <2>3
<1>3. \A s \in Ranks : LeftOf(s)' = LeftOf(s)
  BY <1>1, <1>2, LeftKept
<1>4. \A s \in Ranks : EnteredOf(s)' = EnteredOf(s)
  BY <1>1 DEF EnteredOf
<1> QED
  BY <1>1, <1>3, <1>4, QuietStep

\* A work-group's sums reach the output only once every rank has contributed.
LEMMA RefinesDelivery ==
    ASSUME IInv, Mapped, Mapped', NEW r \in Ranks, NEW b \in Blocks,
           ReduceOneShot(r, b) \/ Gather(r, b)
    PROVE  Abstract!Deliver(r)
<1> DEFINE k == wg[r][b].call
<1>0. ProtocolInv /\ StagingInv
  BY DEF IInv
<1>1. /\ scall' = scall /\ swait' = swait
      /\ wg[r][b].pc \in {"reduce", "gather"}
      /\ wg'[r][b] = Entering(r, b, k, "depart")
  <2>1. TypeOK
    BY <1>0 DEF ProtocolInv
  <2>2. ~ReduceScatter(r, b)
    BY DeliversApart
  <2> QED
    BY <2>1, <2>2, WorkMoves
<1>2. \A s \in Ranks, c \in Blocks : <<s, c>> # <<r, b>> => wg'[s][c] = wg[s][c]
  BY <1>0, OtherGroups DEF GroupStep, ProtocolInv
<1>3. k \in Calls /\ k \in Nat /\ scall[r] = k /\ swait[r] = {}
  BY <1>0, <1>1, WorkingPosition DEF Working, Calls
<1>4. \A s \in Ranks : EnteredOf(s) = k
  BY <1>0, <1>1, PeersReady DEF EnteredOf, Working
<1>5. \A s \in Ranks : LeftOf(s)' = LeftOf(s)
  <2>1. wg'[r][b].pc # "done" /\ wg'[r][b].call = scall[r] /\ wg[r][b].pc # "done"
    BY <1>1, <1>3 DEF Entering
  <2> QED
    BY <1>0, <1>1, <1>2, <2>1, LeftKept
<1>6. LeftOf(r) = k - 1
  <2>1. ~Finished(r, k)
    BY <1>1, <1>3 DEF Finished
  <2> QED
    BY <1>3, <2>1 DEF LeftOf
<1>7. \A s \in Ranks : EnteredOf(s)' = EnteredOf(s)
  BY <1>1 DEF EnteredOf
<1>8. /\ EnteredCalls[r] = k /\ LeftCalls[r] < k
      /\ \A s \in Ranks : EnteredCalls[s] >= k
      /\ EnteredCalls' = EnteredCalls /\ LeftCalls' = LeftCalls
  BY <1>3, <1>4, <1>5, <1>6, <1>7 DEF Mapped
<1>9. /\ Produces(k, b) \in SUBSET CallElements(k)
      /\ out' = [out EXCEPT ![r][k] = [i \in CallElements(k) |->
                   IF i \in Produces(k, b) THEN Sum(k) ELSE out[r][k][i]]]
  <2>0. Produces(k, b) \subseteq Elements(Numel[k])
    BY DEF Produces, Stripe
  <2>1. CASE ReduceOneShot(r, b)
    <3>1. out' = [out EXCEPT ![r][k] = [i \in Elements(Numel[k]) |->
                    IF i \in Produces(k, b) THEN Accumulated(r, i) ELSE out[r][k][i]]]
      BY <1>0, <1>3, <2>1 DEF ReduceOneShot, ProtocolInv, TypeOK
    <3>2. \A i \in Produces(k, b) : Accumulated(r, i) = Sum(k)
      BY <1>0, <2>1, ComputesSum DEF Reading, Produces, ReduceOneShot
    <3> QED
      BY <2>0, <3>1, <3>2 DEF CallElements
  <2>2. CASE Gather(r, b)
    <3>1. out' = [out EXCEPT ![r][k] = [i \in Elements(Numel[k]) |->
                    IF i \in Produces(k, b) THEN staging[Owner(Numel[k], i)][i]
                    ELSE out[r][k][i]]]
      BY <1>0, <1>3, <2>2 DEF Gather, ProtocolInv, TypeOK
    <3>2. \A i \in Produces(k, b) : staging[Owner(Numel[k], i)][i] = Sum(k)
      BY <1>0, <2>2, ReadsSums DEF Gather
    <3> QED
      BY <2>0, <3>1, <3>2 DEF CallElements
  <2> QED
    BY <2>1, <2>2
<1> HIDE DEF k
<1> QED
  BY <1>8, <1>9 DEF Abstract!Deliver

LEMMA RefinesScatter ==
    ASSUME ProtocolInv, Mapped, Mapped', NEW r \in Ranks, NEW b \in Blocks,
           ReduceScatter(r, b)
    PROVE  AbstractQuiet
<1>1. /\ out' = out /\ scall' = scall /\ swait' = swait
      /\ wg[r][b].pc = "reduce"
      /\ wg'[r][b] = Entering(r, b, wg[r][b].call, "mid")
  BY DEF ReduceScatter, ProtocolInv, TypeOK
<1>2. \A s \in Ranks, c \in Blocks : <<s, c>> # <<r, b>> => wg'[s][c] = wg[s][c]
  BY OtherGroups DEF GroupStep, ProtocolInv
<1>3. wg'[r][b].pc # "done" /\ wg'[r][b].call = scall[r] /\ wg[r][b].pc # "done"
  BY <1>1, WorkingPosition DEF Entering, Working
<1>4. \A s \in Ranks : LeftOf(s)' = LeftOf(s)
  BY <1>1, <1>2, <1>3, LeftKept
<1>5. \A s \in Ranks : EnteredOf(s)' = EnteredOf(s)
  BY <1>1 DEF EnteredOf
<1> QED
  BY <1>1, <1>4, <1>5, QuietStep

\* What every rank holds of a call that some rank has left.
LeftIsDelivered ==
    \A r \in Ranks : Finished(r, scall[r]) /\ scall[r] \in Calls =>
       \A s \in Ranks, i \in Elements(Numel[scall[r]]) :
          out[s][scall[r]][i] = Sum(scall[r])

LEMMA DeliveredEverywhere == IInv => LeftIsDelivered
<1> SUFFICES ASSUME IInv, NEW r \in Ranks, Finished(r, scall[r]), scall[r] \in Calls,
                    NEW s \in Ranks, NEW i \in Elements(Numel[scall[r]])
    PROVE  out[s][scall[r]][i] = Sum(scall[r])
  BY DEF LeftIsDelivered
<1>1. PICK c \in Blocks : i \in Produces(scall[r], c)
  BY ProducesPartition
<1>2. Delivered(s, c, scall[r])
  BY FinishedEverywhere DEF IInv
<1> QED
  BY <1>1, <1>2 DEF IInv, OutputInv

LEMMA RefinesEnd ==
    ASSUME Regular, IInv, Mapped, Mapped', IInv', NEW r \in Ranks, NEW b \in Blocks,
           EndRendezvous(r, b)
    PROVE  AbstractQuiet \/ Abstract!Leave(r)
<1> DEFINE k == scall[r]
<1>0. ProtocolInv
  BY DEF IInv
<1>1. /\ out' = out /\ scall' = scall /\ swait' = swait
      /\ wg[r][b].pc # "done"
  BY DEF EndRendezvous, Phases
<1>2. \A s \in Ranks, c \in Blocks : <<s, c>> # <<r, b>> => wg'[s][c] = wg[s][c]
  BY <1>0, OtherGroups DEF GroupStep, ProtocolInv
<1>3. /\ k \in Calls /\ k \in Nat /\ wg[r][b].call = k /\ swait[r] = {}
      /\ ~Finished(r, k)
  BY <1>0, <1>1, GroupsOfRank DEF Finished, Calls
<1>4. \A s \in Ranks : EnteredOf(s)' = EnteredOf(s)
  BY <1>1 DEF EnteredOf
<1>5. \A s \in Ranks \ {r} : LeftOf(s)' = LeftOf(s)
  BY <1>1, <1>2 DEF LeftOf, Finished
<1>6. LeftOf(r) = k - 1
  BY <1>3 DEF LeftOf
<1>7. CASE ~Finished(r, k)'
  <2>1. LeftOf(r)' = k - 1
    BY <1>1, <1>7 DEF LeftOf
  <2>2. \A s \in Ranks : LeftOf(s)' = LeftOf(s)
    BY <1>5, <1>6, <2>1
  <2> QED
    BY <1>0, <1>1, <1>4, <2>2, QuietStep
<1>8. CASE Finished(r, k)'
  <2>1. LeftOf(r)' = k /\ EnteredOf(r) = k
    BY <1>1, <1>3, <1>8 DEF LeftOf, EnteredOf
  <2>2. \A s \in Ranks, i \in CallElements(k) : out[s][k][i] = Sum(k)
    <3>1. LeftIsDelivered'
      BY DeliveredEverywhere, PTL
    <3> QED
      BY <1>1, <1>3, <1>8, <3>1 DEF CallElements, LeftIsDelivered
  <2>3. /\ EnteredCalls[r] = k /\ LeftCalls[r] < k /\ EnteredCalls' = EnteredCalls
        /\ LeftCalls' = [LeftCalls EXCEPT ![r] = k]
    BY <1>3, <1>4, <1>5, <1>6, <2>1 DEF Mapped
  <2> HIDE DEF k
  <2> QED
    BY <1>1, <2>2, <2>3 DEF Abstract!Leave
<1> QED
  BY <1>7, <1>8

LEMMA RefinesStep ==
    ASSUME Regular, IInv, IInv', Mapped, Mapped', [Next]_vars
    PROVE  AbstractQuiet \/ Abstract!Next
<1>0. ProtocolInv
  BY DEF IInv
<1>1. ASSUME wg' = wg, out' = out, scall' = scall, swait' = swait
      PROVE  AbstractQuiet
  <2>1. \A r \in Ranks : EnteredOf(r)' = EnteredOf(r) /\ LeftOf(r)' = LeftOf(r)
    BY <1>1 DEF EnteredOf, LeftOf, Finished
  <2> QED
    BY <1>0, <1>1, <2>1, QuietStep
<1>2. ASSUME NEW r \in Ranks, Submit(r) \/ Die(r) PROVE AbstractQuiet
  BY <1>1, <1>2 DEF Submit, Die
<1>3. ASSUME NEW r \in Ranks, StartStage(r) PROVE AbstractQuiet
  BY <1>0, <1>3, RefinesStartStage
<1>4. ASSUME NEW r \in Ranks, NEW b \in Blocks, GroupStep(r, b)
      PROVE  AbstractQuiet \/ Abstract!Enter(r) \/ Abstract!Deliver(r) \/ Abstract!Leave(r)
  <2>1. \A l \in Ranks : ~Expire(r, b, l)
    BY DEF Expire, Regular
  <2> QED
    BY <1>0, <1>4, <2>1, RefinesStage, RefinesRendezvous, RefinesDelivery,
       RefinesScatter, RefinesEnd DEF GroupStep
<1>5. CASE UNCHANGED vars
  BY <1>1, <1>5 DEF vars
<1> QED
  BY <1>2, <1>3, <1>4, <1>5 DEF Next, Abstract!Next

\* The P2P all-reduce implements the collective of AllReduceSpec, for every
\* world, grid, number of calls and mix of sizes: each of its steps is one of
\* entering, delivering and leaving a call, or invisible.
THEOREM CollectiveImplemented ==
    ASSUME Regular
    PROVE  Spec => ImplementsCollective
<1>1. Spec => []IInv
  BY SumInvariant
<1>2. IInv => Mapped
  BY AbstractState DEF IInv
<1>3. IInv /\ IInv' /\ Mapped /\ Mapped' /\ [Next]_vars
        => [Abstract!Next]_(Abstract!absVars)
  BY RefinesStep DEF AbstractQuiet, Abstract!absVars
<1> QED
  BY <1>1, <1>2, <1>3, RefinesInit, PTL DEF Spec, ImplementsCollective, Abstract!Spec
=============================================================================
