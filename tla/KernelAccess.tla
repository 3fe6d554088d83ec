---------------------------- MODULE KernelAccess ----------------------------
(***************************************************************************)
(* What the work-items of a kernel read, write and accumulate.             *)
(*                                                                         *)
(* A kernel is a sequence of phases, cut where its work-groups synchronise *)
(* (a barrier or a reduction over the group).  In a phase every item, a    *)
(* pair of a work-group and a lane, has the cells it reads (rd) and writes *)
(* (wr) and what it accumulates (add, pairs of a total and a term).  A     *)
(* cell is a buffer and an index; arguments that may alias are one buffer. *)
(* A cell of local memory names its work-group.  "out" is what the         *)
(* operation owes its caller, "sums" the terms of each of its totals.      *)
(*                                                                         *)
(* Weights, scales and tables that are only read are left out.             *)
(***************************************************************************)
EXTENDS Integers, Sequences, FiniteSets

Kernel(phases, out, sums) == [phases |-> phases, out |-> out, sums |-> sums]

Does(rd, wr, add) == [rd |-> rd, wr |-> wr, add |-> add]

Upto(n) == 0..(n - 1)

\* n work-groups of m lanes, and n work-items on their own.
Grid(n, m) == Upto(n) \X Upto(m)
Flat(n) == Grid(n, 1)

\* for (i = first; i < n; i += step)
From(first, step, n) == {i \in first..(n - 1) : (i - first) % step = 0}

\* for (i = lane; i < n; i += lanes)
Stride(lane, lanes, n) == From(lane, lanes, n)

At(buffer, base, indices) == {<<buffer, base + i>> : i \in indices}
Into(total, cells) == {total} \X cells

CeilDivide(a, b) == (a + b - 1) \div b

-----------------------------------------------------------------------------

Items(k) == DOMAIN k.phases[1]
GroupsOf(k) == {i[1] : i \in Items(k)}

Wrote(k, i) == UNION {k.phases[p][i].wr : p \in DOMAIN k.phases}
Touched(k, i) == Wrote(k, i) \cup UNION {k.phases[p][i].rd : p \in DOMAIN k.phases}
Added(k, i) == UNION {k.phases[p][i].add : p \in DOMAIN k.phases}

\* Two items may run in either order, or at once.
Disturbs(a, b) == a.wr \cap (b.rd \cup b.wr) # {}

\* No item touches what another may be writing: lanes of a group within a
\* phase, items of different groups at any time.
RaceFree(k) ==
    /\ \A p \in DOMAIN k.phases : \A i, j \in Items(k) :
         i[1] = j[1] /\ i # j => ~Disturbs(k.phases[p][i], k.phases[p][j])
    /\ \A i, j \in Items(k) : i[1] # j[1] => Wrote(k, i) \cap Touched(k, j) = {}

\* Cells outside the local memory of a group.
IsGlobal(cell) == Len(cell) = 2

\* What a lane reads from local memory its group has staged before.
ReadsStaged(k) ==
    \A p \in DOMAIN k.phases : \A i \in Items(k) :
      LET local == {c \in k.phases[p][i].rd : ~IsGlobal(c)} \ k.phases[p][i].wr
          staged == UNION {UNION {k.phases[q][j].wr : q \in 1..(p - 1)} : j \in {j \in Items(k) : j[1] = i[1]}}
      IN  local \subseteq staged

\* The sets an item f(i) yields, for i in S, are a partition of Whole.
Partitions(f(_), S, Whole) ==
    /\ UNION {f(i) : i \in S} = Whole
    /\ \A i, j \in S : i # j => f(i) \cap f(j) = {}

\* Every cell of the output comes from exactly one item, and nothing else is
\* written.
WritesOutput(k) ==
    LET global(i) == {c \in Wrote(k, i) : IsGlobal(c)}
    IN  Partitions(global, Items(k), k.out)

\* Every total gets each of its terms from exactly one item.
SumsTerms(k) ==
    LET added(i) == Added(k, i)
    IN  Partitions(added, Items(k), k.sums)
=============================================================================
