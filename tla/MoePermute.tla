----------------------------- MODULE MoePermute -----------------------------
(***************************************************************************)
(* moe_permute: routed (token, choice) pairs are sorted by expert with     *)
(* four chained kernels (zero, histogram, scan, scatter) over caller-owned *)
(* scratch that keeps whatever the call before left in it.                 *)
(*                                                                         *)
(* A kernel is the set todo of work-items that have not finished; the next *)
(* kernel starts when it is empty (depends_on).  Atomic updates are steps  *)
(* of their own, and a scatter item that has claimed its row writes the    *)
(* row in a later step.                                                    *)
(***************************************************************************)
EXTENDS Integers, FiniteSets

CONSTANTS
    NTokens,   \* tokens per call
    TopK,      \* experts chosen per token
    NExperts,  \* experts on this rank
    Inputs,    \* the topk_ids a caller may pass: functions on Pairs
    MaxCalls   \* bound on the number of calls

ASSUME ShapeAssumption ==
    /\ NTokens \in Nat \ {0} /\ TopK \in Nat \ {0} /\ NExperts \in Nat \ {0}
    /\ MaxCalls \in Nat

Pairs == 0..(NTokens * TopK - 1)
Rows == Pairs
Experts == 0..(NExperts - 1)

ASSUME InputsAssumption == Inputs \subseteq [Pairs -> Int]

VARIABLES
    call,      \* calls made so far
    ids,       \* topk_ids of this call
    phase,     \* kernel that runs, "idle" between calls
    todo,      \* its work-items that have not finished
    rows,      \* rows_per_expert
    cursors,   \* the scratch cursors
    acc,       \* the scan's running sum
    dst,       \* dst[p]: row claimed by pair p in this call, or -1
    rowMap,    \* row_map
    permuted   \* the expert-sorted copy of the hidden rows

pvars == <<call, ids, phase, todo, rows, cursors, acc, dst, rowMap, permuted>>

-----------------------------------------------------------------------------
Token(p) == p \div TopK

\* The hidden row of token t in call c, and scratch that was never written.
Hidden(c, t) == <<"hidden", c, t>>
Garbage == <<"garbage">>

\* The EP-safe skip: ids of experts that live elsewhere are left alone.
Valid(p) == ids[p] \in Experts

Init ==
    /\ call = 0
    /\ ids \in Inputs
    /\ phase = "idle"
    /\ todo = {}
    /\ rows = [e \in Experts |-> 0]
    /\ cursors = [e \in Experts |-> 0]
    /\ acc = 0
    /\ dst = [p \in Pairs |-> -1]
    /\ rowMap = [p \in Pairs |-> -1]
    /\ permuted = [r \in Rows |-> Garbage]

\* moe_permute() is called and its first kernel starts.
Call ==
    /\ phase = "idle"
    /\ call < MaxCalls
    /\ call' = call + 1
    /\ ids' \in Inputs
    /\ phase' = "zero"
    /\ todo' = Experts
    /\ dst' = [p \in Pairs |-> -1]
    /\ UNCHANGED <<rows, cursors, acc, rowMap, permuted>>

\* The kernel after this one, and its work-items.
NextKernel ==
    [zero |-> "count", count |-> "scan", scan |-> "scatter", scatter |-> "idle"]

Items(k) == CASE k = "scan" -> Experts [] k = "idle" -> {} [] OTHER -> Pairs

\* depends_on: all items of a kernel are done before the next one starts.
Advance ==
    /\ phase # "idle"
    /\ todo = {}
    /\ phase' = NextKernel[phase]
    /\ todo' = Items(phase')
    /\ acc' = IF phase' = "scan" THEN 0 ELSE acc
    /\ UNCHANGED <<call, ids, rows, cursors, dst, rowMap, permuted>>

\* Mutant: the histogram goes on from the counts of the call before.
ZeroNothing(e) ==
    /\ phase = "zero"
    /\ e \in todo
    /\ todo' = todo \ {e}
    /\ UNCHANGED <<call, ids, phase, rows, cursors, acc, dst, rowMap, permuted>>

Zero(e) ==
    /\ phase = "zero"
    /\ e \in todo
    /\ rows' = [rows EXCEPT ![e] = 0]
    /\ todo' = todo \ {e}
    /\ UNCHANGED <<call, ids, phase, cursors, acc, dst, rowMap, permuted>>

Count(p) ==
    /\ phase = "count"
    /\ p \in todo
    /\ rows' = IF Valid(p) THEN [rows EXCEPT ![ids[p]] = @ + 1] ELSE rows
    /\ todo' = todo \ {p}
    /\ UNCHANGED <<call, ids, phase, cursors, acc, dst, rowMap, permuted>>

\* Mutant: an inclusive scan.
CursorInclusive(e) == acc + rows[e]

Cursor(e) == acc

\* One work-item walks the experts in order: an exclusive prefix sum.
Scan(e) ==
    /\ phase = "scan"
    /\ e \in todo
    /\ \A f \in todo : e <= f
    /\ cursors' = [cursors EXCEPT ![e] = Cursor(e)]
    /\ acc' = acc + rows[e]
    /\ todo' = todo \ {e}
    /\ UNCHANGED <<call, ids, phase, rows, dst, rowMap, permuted>>

Skip(p) ==
    /\ phase = "scatter"
    /\ p \in todo
    /\ ~Valid(p)
    /\ rowMap' = [rowMap EXCEPT ![p] = -1]
    /\ todo' = todo \ {p}
    /\ UNCHANGED <<call, ids, phase, rows, cursors, acc, dst, permuted>>

\* Mutant: the cursor is read but the bump of another item may be lost.
BumpLost(e) == IF \E p \in todo : ids[p] = e /\ dst[p] # -1
               THEN cursors[e] ELSE cursors[e] + 1

Bump(e) == cursors[e] + 1

\* c.fetch_add(1): the pair takes the next row of its expert's segment.
Claim(p) ==
    /\ phase = "scatter"
    /\ p \in todo
    /\ Valid(p)
    /\ dst[p] = -1
    /\ dst' = [dst EXCEPT ![p] = cursors[ids[p]]]
    /\ cursors' = [cursors EXCEPT ![ids[p]] = Bump(ids[p])]
    /\ UNCHANGED <<call, ids, phase, todo, rows, acc, rowMap, permuted>>

\* It records the row and copies the token's hidden row there.
Gather(p) ==
    /\ phase = "scatter"
    /\ p \in todo
    /\ dst[p] # -1
    /\ rowMap' = [rowMap EXCEPT ![p] = dst[p]]
    /\ permuted' = [permuted EXCEPT ![dst[p]] = Hidden(call, Token(p))]
    /\ todo' = todo \ {p}
    /\ UNCHANGED <<call, ids, phase, rows, cursors, acc, dst>>

PermuteStep ==
    \/ Call
    \/ Advance
    \/ \E e \in Experts : Zero(e) \/ Scan(e)
    \/ \E p \in Pairs : Count(p) \/ Skip(p) \/ Claim(p) \/ Gather(p)

Spec == Init /\ [][PermuteStep]_pvars

-----------------------------------------------------------------------------
(* Properties                                                               *)

\* Type invariant: in particular no cursor leaves the caller's buffers.
TypeOK ==
    /\ call \in 0..MaxCalls
    /\ ids \in Inputs
    /\ phase \in {"idle", "zero", "count", "scan", "scatter"}
    /\ todo \subseteq Pairs \cup Experts
    /\ rows \in [Experts -> 0..NTokens * TopK]
    /\ cursors \in [Experts -> 0..NTokens * TopK]
    /\ acc \in 0..NTokens * TopK
    /\ dst \in [Pairs -> Rows \cup {-1}]
    /\ rowMap \in [Pairs -> Rows \cup {-1}]
    /\ DOMAIN permuted = Rows

\* Rows are claimed once: two scatter items never copy into the same row,
\* whatever the order of their atomic bumps.
ClaimsDistinct ==
    \A p, q \in Pairs : p # q /\ dst[p] # -1 => dst[p] # dst[q]

PairsOf(e) == {p \in Pairs : ids[p] = e}

\* After the call rows_per_expert counts the valid pairs of each expert,
\* every valid pair's row holds its own token, the rows of an expert are
\* contiguous, rows of different experts are in expert order, and invalid
\* pairs are marked -1: nothing of the scratch of earlier calls shows.
Sorted ==
    phase = "idle" /\ call > 0 =>
        /\ \A e \in Experts : rows[e] = Cardinality(PairsOf(e))
        /\ \A p \in Pairs :
              IF Valid(p) THEN permuted[rowMap[p]] = Hidden(call, Token(p))
              ELSE rowMap[p] = -1
        /\ {rowMap[p] : p \in Pairs} \ {-1} =
              0..(Cardinality({p \in Pairs : Valid(p)}) - 1)
        /\ \A p, q \in Pairs :
              Valid(p) /\ Valid(q) /\ ids[p] < ids[q] => rowMap[p] < rowMap[q]
=============================================================================
