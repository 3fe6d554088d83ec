---------------------------- MODULE SlotStateInv ----------------------------
(***************************************************************************)
(* The inductive invariant of SlotState: where the state of each slot, and *)
(* each token's outputs, are while a call's kernels are under way.         *)
(***************************************************************************)
EXTENDS SlotState

Has(kernel, i) == <<kernel, i>> \in todo

\* The rows of a call: what the engine's contract gives.
RowsInv ==
    /\ \A s \in Rows :
         /\ s \in 1..MaxRows
         /\ batch[s].from \in Nat /\ batch[s].lo \in Nat /\ batch[s].hi \in Nat
         /\ batch[s].lo <= batch[s].hi /\ batch[s].hi <= MaxTokens
         /\ IF batch[s].req = Pad
            THEN batch[s].from = 0 /\ batch[s].slot \notin Slots
            ELSE batch[s].req \in Requests /\ batch[s].slot \in Slots
    /\ \A s, u \in Rows : s < u => batch[s].hi <= batch[u].lo
    /\ sinit \/ \A s \in Rows : Continues(batch[s]) \/ batch[s].req = Pad

\* While a call is under way its rows are their requests' slots.
HomeInv ==
    /\ home \in [Requests -> Slots \cup {NoSlot}]
    /\ fed \in [Requests -> 0..MaxFed]
    /\ \A r, q \in Requests : r # q /\ home[r] # NoSlot => home[r] # home[q]
    /\ ~Idle => \A s \in Rows : batch[s].req # Pad =>
         /\ home[batch[s].req] = batch[s].slot
         /\ fed[batch[s].req] = batch[s].from + batch[s].hi - batch[s].lo
         /\ \A u \in Rows : u # s => batch[u].req # batch[s].req

\* What is left to do: output before write-back, both before the scan.
WorkInv ==
    /\ \A item \in todo :
         \/ item[1] = "out" /\ item[2] \in Tokens
         \/ item[1] \in {"save", "step", "scan"} /\ item[2] \in Rows
    /\ \A tok \in Tokens : Has("out", tok) =>
         \A s \in Rows : Has("save", s) /\ Has("scan", s) /\ ~Has("step", s)
    /\ \A s \in Rows : Has("save", s) =>
         /\ cinit \/ \A u \in Rows : ~Continues(batch[u])
         /\ \A u \in Rows : Has("scan", u) /\ ~Has("step", u)
    /\ \A s \in Rows : Has("step", s) =>
         /\ batch[s].hi = batch[s].lo + 1
         /\ Continues(batch[s]) \/ batch[s].req = Pad
         /\ \A u \in Rows : Has("scan", u)

\* Samples of row s that its slot's window, and its recurrence, stand for.
ConvPos(s) ==
    IF Has("save", s) \/ Has("step", s) THEN batch[s].from
    ELSE batch[s].from + batch[s].hi - batch[s].lo
ScanPos(s) ==
    IF Has("scan", s) THEN batch[s].from
    ELSE batch[s].from + batch[s].hi - batch[s].lo

\* Slot sl holds request r's window after j samples, its recurrence after i.
WindowIs(sl, r, j) == j > 0 => conv[sl] = WindowAt(r, j)
RecurrenceIs(sl, r, i) == i > 0 => ssm[sl] = RecurrenceAt(r, i)

StateInv ==
    /\ DOMAIN conv = Slots /\ DOMAIN ssm = Slots
    /\ \A sl \in Slots : DOMAIN conv[sl] = Window
    /\ \A sl \in Slots : \E n \in 0..MaxFed : DOMAIN ssm[sl] = 1..n
    /\ \A r \in Requests :
         home[r] # NoSlot /\ (Idle \/ \A s \in Rows : batch[s].req # r) =>
            /\ WindowIs(home[r], r, fed[r])
            /\ RecurrenceIs(home[r], r, fed[r])
    /\ ~Idle => \A s \in Rows : batch[s].req # Pad =>
         /\ WindowIs(batch[s].slot, batch[s].req, ConvPos(s))
         /\ RecurrenceIs(batch[s].slot, batch[s].req, ScanPos(s))

\* A token's outputs are its stream's once its row's kernels have run.
OutputInv ==
    /\ DOMAIN mixed = Tokens /\ DOMAIN core = Tokens
    /\ \A s \in Rows : \A tok \in Tokens :
         batch[s].lo <= tok /\ tok < batch[s].hi =>
            /\ ~Has("out", tok) /\ ~Has("step", s) =>
                 mixed[tok] = IF batch[s].req = Pad THEN Zero
                              ELSE ConvAt(batch[s].req, batch[s].from + tok - batch[s].lo + 1)
            /\ ~Has("scan", s) =>
                 core[tok] = IF batch[s].req = Pad THEN Zero
                             ELSE RecurrenceAt(batch[s].req, batch[s].from + tok - batch[s].lo + 1)

IInv ==
    /\ cinit \in BOOLEAN /\ sinit \in BOOLEAN
    /\ RowsInv /\ HomeInv /\ WorkInv /\ StateInv /\ OutputInv
=============================================================================
