--------------------------- MODULE AllReduceSpec ---------------------------
(***************************************************************************)
(* What a sequence of in-order all-reduce calls promises, with no flags,   *)
(* staging buffers or work-groups in sight.  A rank contributes to its     *)
(* next call, receives elements of the result in any order and any         *)
(* grouping, and leaves the call.  Two things make it a collective:        *)
(* nothing of call k is delivered before every rank has contributed to     *)
(* call k, and nobody leaves call k before everything of call k has been   *)
(* delivered everywhere (so a contribution may be overwritten after).      *)
(***************************************************************************)
EXTENDS Integers

CONSTANTS
    Ranks,           \* ranks of the collective
    Calls,           \* 1..MaxCalls
    Wanted(_),       \* the elements of call k
    Sum(_),          \* the one value every rank must obtain for call k
    Nothing          \* content of an output element nobody wrote

VARIABLES
    entered,   \* entered[r]: calls rank r has contributed to
    left,      \* left[r]: calls rank r has completed
    output     \* output[r][k][i]: element i of rank r's output of call k

absVars == <<entered, left, output>>

Init ==
    /\ entered = [r \in Ranks |-> 0]
    /\ left = [r \in Ranks |-> 0]
    /\ output = [r \in Ranks |-> [k \in Calls |-> [i \in Wanted(k) |-> Nothing]]]

Enter(r) ==
    /\ entered[r] = left[r]
    /\ entered[r] + 1 \in Calls
    /\ entered' = [entered EXCEPT ![r] = @ + 1]
    /\ UNCHANGED <<left, output>>

Deliver(r) ==
    LET k == entered[r] IN
    /\ left[r] < k
    /\ \A s \in Ranks : entered[s] >= k
    /\ \E part \in SUBSET Wanted(k) :
         output' = [output EXCEPT ![r][k] =
                      [i \in Wanted(k) |-> IF i \in part THEN Sum(k) ELSE @[i]]]
    /\ UNCHANGED <<entered, left>>

Leave(r) ==
    LET k == entered[r] IN
    /\ left[r] < k
    /\ \A s \in Ranks : \A i \in Wanted(k) : output[s][k][i] = Sum(k)
    /\ left' = [left EXCEPT ![r] = k]
    /\ UNCHANGED <<entered, output>>

Next == \E r \in Ranks : Enter(r) \/ Deliver(r) \/ Leave(r)

Spec == Init /\ [][Next]_absVars
=============================================================================
