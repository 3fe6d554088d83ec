---------------------------- MODULE GroupedTiles ----------------------------
(***************************************************************************)
(* How moe_grouped_qgemm maps the m-tiles of a grid that is sized without  *)
(* reading rows_per_expert to (expert, rows of that expert).               *)
(***************************************************************************)
EXTENDS Integers

CONSTANTS
    NExperts,  \* E
    MTotal,    \* rows the caller's buffers have (M_total)
    TM         \* rows per tile (xmx::kTM)

ASSUME TileAssumption ==
    NExperts \in Nat \ {0} /\ MTotal \in Nat /\ TM \in Nat \ {0}

CeilDivTM(n) == (n + TM - 1) \div TM

TilesMax == CeilDivTM(MTotal) + NExperts
Tiles == 0..(TilesMax - 1)

\* Prefix(f)[e] = f[0] + ... + f[e - 1]
Prefix(f) ==
    LET sum[e \in 0..NExperts] == IF e = 0 THEN 0 ELSE sum[e - 1] + f[e - 1]
    IN  sum

\* seg[e]: first tile of expert e; seg[E]: tiles that have rows.
Seg(rows) == Prefix([e \in 0..(NExperts - 1) |-> CeilDivTM(rows[e])])

\* Mutant: the walk stops one tile late.
ExpertOfLate(rows, mt) ==
    CHOOSE e \in 0..(NExperts - 1) :
        /\ e + 1 < NExperts => mt <= Seg(rows)[e + 1]
        /\ \A f \in 0..(e - 1) : mt > Seg(rows)[f + 1]

\* The linear walk: the first expert whose successor starts after mt.
ExpertOf(rows, mt) ==
    CHOOSE e \in 0..(NExperts - 1) :
        /\ e + 1 < NExperts => mt < Seg(rows)[e + 1]
        /\ \A f \in 0..(e - 1) : mt >= Seg(rows)[f + 1]

InGrid(rows, mt) == mt < Seg(rows)[NExperts]

\* Rows of the whole matrix that tile mt computes.
TileRows(rows, mt) ==
    IF ~InGrid(rows, mt) THEN {}
    ELSE LET e == ExpertOf(rows, mt)
             rlocal0 == (mt - Seg(rows)[e]) * TM
         IN  {Prefix(rows)[e] + rl :
                 rl \in {x \in rlocal0..(rlocal0 + TM - 1) : x < rows[e]}}

\* Every row that belongs to an expert is computed by exactly one tile, by one
\* that multiplies with that expert's weights, and the grid sized from MTotal
\* has a tile for it: no two tiles write a row and no row is left out.
TilesPartition(rows) ==
    LET used == {mt \in Tiles : InGrid(rows, mt)} IN
    /\ used = 0..(Seg(rows)[NExperts] - 1)
    /\ \A e \in 0..(NExperts - 1) :
         \A r \in Prefix(rows)[e]..(Prefix(rows)[e + 1] - 1) :
           \E mt \in used : /\ ExpertOf(rows, mt) = e
                            /\ r \in TileRows(rows, mt)
                            /\ \A o \in used \ {mt} : r \notin TileRows(rows, o)
    /\ \A mt \in used : TileRows(rows, mt) \subseteq 0..(Prefix(rows)[NExperts] - 1)
=============================================================================
