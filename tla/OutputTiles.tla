----------------------------- MODULE OutputTiles -----------------------------
(***************************************************************************)
(* How the output kernel of the split NVFP4 MoE divides the rows of one    *)
(* pair among work-groups and sub-groups.  Rows are accumulated with an    *)
(* atomic add, so a row computed twice counts twice.                       *)
(***************************************************************************)
EXTENDS Integers, FiniteSets

CONSTANTS
    Subgroups,  \* kSubgroups
    TargetWGs   \* kTargetOutputWorkGroups

ASSUME OutputAssumption == Subgroups \in Nat \ {0} /\ TargetWGs \in Nat \ {0}

CeilDiv(a, b) == (a + b - 1) \div b

\* The largest of the compiled tile heights the shape has work-groups for.
RowsPerSubgroup(pairs, K) ==
    LET baseline == pairs * CeilDiv(K, Subgroups)
        fits == {r \in {2, 4, 8, 16} : baseline >= TargetWGs * r}
    IN  CHOOSE r \in fits \cup {1} : \A o \in fits : o <= r

RowTiles(pairs, K) == CeilDiv(K, Subgroups * RowsPerSubgroup(pairs, K))

\* Mutant: rows of a sub-group are adjacent but its start is not.
RowOfAdjacent(tile, sg, r, height) == tile * Subgroups * height + sg + r

RowOf(tile, sg, r, height) == tile * Subgroups * height + sg + r * Subgroups

\* The work items (tile, sub-group, step) that compute a row.
Computing(row, pairs, K) ==
    LET height == RowsPerSubgroup(pairs, K)
    IN  {w \in (0..(RowTiles(pairs, K) - 1)) \X (0..(Subgroups - 1)) \X (0..(height - 1)) :
            RowOf(w[1], w[2], w[3], height) = row}
=============================================================================
