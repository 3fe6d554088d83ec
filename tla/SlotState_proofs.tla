-------------------------- MODULE SlotState_proofs --------------------------
(***************************************************************************)
(* Proofs about SlotState, for any number of requests, slots, rows, tokens *)
(* and any window length.  The invariant is IInv of SlotStateInv: a step   *)
(* of a kernel disturbs only its own row's slot and tokens.                *)
(***************************************************************************)
EXTENDS SlotStateInv, SequenceTheorems, TLAPS

\* Rows do not share tokens.
LEMMA OneRow ==
    ASSUME RowsInv, NEW s \in Rows, NEW u \in Rows, NEW tok \in Int,
           batch[s].lo <= tok, tok < batch[s].hi,
           batch[u].lo <= tok, tok < batch[u].hi
    PROVE  s = u
  BY SlotAssumption DEF RowsInv

\* cp_find_seq finds the row that has the token, empty rows or not.
LEMMA FindSeqRight ==
    ASSUME RowsInv, NEW s \in Rows, NEW tok \in Int,
           batch[s].lo <= tok, tok < batch[s].hi
    PROVE  FindSeq(tok) = s
<1> DEFINE after == {u \in Rows : tok < batch[u].hi}
<1>1. s \in after /\ after # {}
  OBVIOUS
<1>2. \A u \in after : s <= u
  BY SlotAssumption DEF RowsInv
<1>3. \A u \in Rows : u \in after /\ (\A w \in after : u <= w) => u = s
  BY <1>1, <1>2, SlotAssumption DEF RowsInv
<1> QED
  BY <1>1, <1>2, <1>3 DEF FindSeq

\* The packed input holds the row's own samples at the row's tokens.
LEMMA InputRight ==
    ASSUME RowsInv, NEW s \in Rows, NEW tok \in Int,
           batch[s].lo <= tok, tok < batch[s].hi
    PROVE  X(tok) = Sample(batch[s].req, batch[s].from + tok - batch[s].lo + 1)
<1>1. (CHOOSE u \in Rows : batch[u].lo <= tok /\ tok < batch[u].hi) = s
  BY OneRow
<1> QED
  BY <1>1 DEF X

\* A sample that is no token of the row comes from the row's window, or is
\* before the stream's beginning.
LEMMA SourceRight ==
    ASSUME RowsInv, NEW s \in Rows, batch[s].req # Pad,
           cinit \/ \A u \in Rows : ~Continues(batch[u]),
           WindowIs(batch[s].slot, batch[s].req, batch[s].from),
           NEW src \in Int, -StateLen <= src, src < batch[s].hi - batch[s].lo
    PROVE  Source(batch[s], src) = Sample(batch[s].req, batch[s].from + src + 1)
<1> DEFINE row == batch[s]
<1>0. row.from \in Nat /\ row.lo \in Nat /\ row.hi \in Nat
  BY DEF RowsInv
<1>1. CASE src >= 0
  <2>1. X(row.lo + src) = Sample(row.req, row.from + (row.lo + src) - row.lo + 1)
    BY <1>0, <1>1, InputRight
  <2>2. row.from + (row.lo + src) - row.lo + 1 = row.from + src + 1
    BY <1>0
  <2> QED
    BY <1>1, <2>1, <2>2 DEF Source
<1>2. CASE src < 0 /\ row.from > 0
  <2>1. conv[row.slot] = WindowAt(row.req, row.from)
    BY <1>2 DEF WindowIs
  <2>2. StateLen + src \in Window
    BY <1>2, SlotAssumption DEF Window
  <2>3. conv[row.slot][StateLen + src]
          = Sample(row.req, row.from - StateLen + (StateLen + src) + 1)
    BY <2>1, <2>2 DEF WindowAt
  <2>4. row.from - StateLen + (StateLen + src) + 1 = row.from + src + 1
    BY <1>0, SlotAssumption
  <2>5. Source(row, src) = conv[row.slot][StateLen + src]
    BY <1>2 DEF Source, Continues
  <2> QED
    BY <2>3, <2>4, <2>5
<1>3. CASE src < 0 /\ ~(row.from > 0)
  <2>1. Source(row, src) = Zero
    BY <1>3 DEF Source, Continues
  <2>2. ~(row.from + src + 1 >= 1)
    BY <1>0, <1>3
  <2> QED
    BY <2>1, <2>2 DEF Sample
<1> QED
  BY <1>1, <1>2, <1>3

\* A recurrence that absorbs the outputs of samples j+1 .. j+m.
LEMMA Extend ==
    ASSUME NEW r, NEW j \in Nat, NEW m \in Nat
    PROVE  RecurrenceAt(r, j) \o [k \in 1..m |-> ConvAt(r, j + k)]
             = RecurrenceAt(r, j + m)
<1> DEFINE S == {ConvAt(r, i) : i \in Int}
           new == [k \in 1..m |-> ConvAt(r, j + k)]
<1>1. RecurrenceAt(r, j) \in Seq(S) /\ Len(RecurrenceAt(r, j)) = j
  BY DEF RecurrenceAt
<1>2. new \in Seq(S) /\ Len(new) = m
  OBVIOUS
<1>3. RecurrenceAt(r, j + m) \in Seq(S) /\ Len(RecurrenceAt(r, j + m)) = j + m
  BY DEF RecurrenceAt
<1>4. /\ RecurrenceAt(r, j) \o new \in Seq(S)
      /\ Len(RecurrenceAt(r, j) \o new) = j + m
      /\ \A i \in 1..(j + m) :
           (RecurrenceAt(r, j) \o new)[i]
             = IF i <= j THEN RecurrenceAt(r, j)[i] ELSE new[i - j]
  BY <1>1, <1>2, ConcatProperties
<1>5. \A i \in 1..(j + m) :
        (RecurrenceAt(r, j) \o new)[i] = RecurrenceAt(r, j + m)[i]
  BY <1>4 DEF RecurrenceAt
<1> QED
  BY <1>3, <1>4, <1>5, SeqEqual

-----------------------------------------------------------------------------
(* Steps of a kernel                                                        *)

\* While a call is under way, slots of different requests differ.
LEMMA OwnSlot ==
    ASSUME HomeInv, RowsInv, ~Idle, NEW s \in Rows, batch[s].req # Pad
    PROVE  /\ \A u \in Rows : u # s /\ batch[u].req # Pad => batch[u].slot # batch[s].slot
           /\ \A r \in Requests : home[r] # NoSlot /\ r # batch[s].req => home[r] # batch[s].slot
<1>1. batch[s].req \in Requests /\ home[batch[s].req] = batch[s].slot
      /\ batch[s].slot \in Slots
  BY DEF HomeInv, RowsInv
<1>2. home[batch[s].req] # NoSlot
  BY <1>1, SlotAssumption DEF Slots
<1>3. \A r \in Requests : home[r] # NoSlot /\ r # batch[s].req => home[r] # batch[s].slot
  BY <1>1, <1>2 DEF HomeInv
<1>4. ASSUME NEW u \in Rows, u # s, batch[u].req # Pad
      PROVE  batch[u].slot # batch[s].slot
  <2>1. batch[u].req \in Requests /\ home[batch[u].req] = batch[u].slot
        /\ batch[u].slot \in Slots /\ batch[u].req # batch[s].req
    BY <1>4 DEF HomeInv, RowsInv
  <2>2. home[batch[u].req] # NoSlot
    BY <2>1, SlotAssumption DEF Slots
  <2> QED
    BY <1>3, <2>1, <2>2
<1> QED
  BY <1>3, <1>4

\* What a work-item's run says of the work left.
LEMMA WorkLeft ==
    ASSUME NEW kernel, NEW i, Runs(kernel, i)
    PROVE  /\ ~Idle /\ Has(kernel, i)
           /\ \A k, j : Has(k, j)' <=> Has(k, j) /\ (k # kernel \/ j # i)
           /\ kernel = "save" => \A tok : ~Has("out", tok)
           /\ kernel = "scan" =>
                \A j : ~Has("out", j) /\ ~Has("save", j) /\ ~Has("step", j)
  BY DEF Runs, Has, Idle, WaitsFor

\* Rows, homes and the order of the kernels.
LEMMA WorkStep ==
    ASSUME IInv, NEW kernel \in {"out", "save", "step", "scan"}, NEW i, Runs(kernel, i)
    PROVE  RowsInv' /\ HomeInv' /\ WorkInv' /\ (cinit \in BOOLEAN /\ sinit \in BOOLEAN)'
<1>1. UNCHANGED <<home, fed, batch, cinit, sinit>> /\ ~Idle
  BY WorkLeft DEF Runs
<1>2. RowsInv' /\ HomeInv' /\ (cinit \in BOOLEAN /\ sinit \in BOOLEAN)'
  BY <1>1 DEF IInv, RowsInv, HomeInv, Rows, Continues
<1>3. \A item \in todo' : item \in todo
  BY DEF Runs
<1>4. WorkInv'
  <2> USE <1>1 DEF IInv, WorkInv, Rows, Continues
  <2>1. (\A item \in todo :
           \/ item[1] = "out" /\ item[2] \in Tokens
           \/ item[1] \in {"save", "step", "scan"} /\ item[2] \in Rows)'
    BY <1>3
  <2>2. (\A tok \in Tokens : Has("out", tok) =>
           \A s \in Rows : Has("save", s) /\ Has("scan", s) /\ ~Has("step", s))'
    BY WorkLeft
  <2>3. (\A s \in Rows : Has("save", s) =>
           /\ cinit \/ \A u \in Rows : ~Continues(batch[u])
           /\ \A u \in Rows : Has("scan", u) /\ ~Has("step", u))'
    BY WorkLeft
  <2>4. (\A s \in Rows : Has("step", s) =>
           /\ batch[s].hi = batch[s].lo + 1
           /\ Continues(batch[s]) \/ batch[s].req = Pad
           /\ \A u \in Rows : Has("scan", u))'
    BY WorkLeft
  <2> QED
    BY <2>1, <2>2, <2>3, <2>4
<1> QED
  BY <1>2, <1>4

\* A step that leaves the slots of other requests alone and brings those of
\* its rows to where they should be keeps StateInv, the call's last one too.
LEMMA StateStep ==
    ASSUME IInv, NEW kernel, NEW i, Runs(kernel, i),
           DOMAIN conv' = Slots, DOMAIN ssm' = Slots,
           \A sl \in Slots : DOMAIN conv'[sl] = Window,
           \A sl \in Slots : \E n \in 0..MaxFed : DOMAIN ssm'[sl] = 1..n,
           \A r \in Requests :
              home[r] # NoSlot /\ (\A s \in Rows : batch[s].req # r) =>
                 conv'[home[r]] = conv[home[r]] /\ ssm'[home[r]] = ssm[home[r]],
           \A s \in Rows : batch[s].req # Pad =>
              /\ WindowIs(batch[s].slot, batch[s].req, ConvPos(s))'
              /\ RecurrenceIs(batch[s].slot, batch[s].req, ScanPos(s))'
    PROVE  StateInv'
<1>1. UNCHANGED <<home, fed, batch>> /\ ~Idle
  BY WorkLeft DEF Runs
<1>2. ASSUME NEW r \in Requests, home[r] # NoSlot, \A s \in Rows : batch[s].req # r
      PROVE  WindowIs(home[r], r, fed[r])' /\ RecurrenceIs(home[r], r, fed[r])'
  <2>1. WindowIs(home[r], r, fed[r]) /\ RecurrenceIs(home[r], r, fed[r])
    BY <1>2 DEF IInv, StateInv
  <2> QED
    BY <1>1, <1>2, <2>1 DEF WindowIs, RecurrenceIs
<1>3. ASSUME Idle', NEW s \in Rows, batch[s].req # Pad
      PROVE  /\ WindowIs(home[batch[s].req], batch[s].req, fed[batch[s].req])'
             /\ RecurrenceIs(home[batch[s].req], batch[s].req, fed[batch[s].req])'
  <2>1. ConvPos(s)' = batch[s].from + batch[s].hi - batch[s].lo
        /\ ScanPos(s)' = batch[s].from + batch[s].hi - batch[s].lo
    BY <1>1, <1>3 DEF Idle, ConvPos, ScanPos, Has
  <2>2. home[batch[s].req] = batch[s].slot
        /\ fed[batch[s].req] = batch[s].from + batch[s].hi - batch[s].lo
    BY <1>1, <1>3 DEF IInv, HomeInv
  <2> QED
    BY <1>1, <1>3, <2>1, <2>2 DEF WindowIs, RecurrenceIs
<1>4. ASSUME NEW r \in Requests, home[r] # NoSlot, Idle' \/ \A s \in Rows : batch[s].req # r
      PROVE  WindowIs(home[r], r, fed[r])' /\ RecurrenceIs(home[r], r, fed[r])'
  <2>1. CASE \A s \in Rows : batch[s].req # r
    BY <1>2, <1>4, <2>1
  <2>2. CASE Idle' /\ \E s \in Rows : batch[s].req = r
    <3>1. PICK s \in Rows : batch[s].req = r
      BY <2>2
    <3>2. batch[s].req # Pad
      BY <3>1, SlotAssumption
    <3> QED
      BY <1>1, <1>3, <2>2, <3>1, <3>2
  <2> QED
    BY <1>4, <2>1, <2>2
<1>5. Rows' = Rows
  BY <1>1 DEF Rows
<1> QED
  BY <1>1, <1>4, <1>5 DEF StateInv
\* Rows are where they were as long as their own items have not run.
LEMMA SamePlace ==
    ASSUME IInv, ~Idle, UNCHANGED batch,
           NEW s \in Rows, batch[s].req # Pad,
           conv'[batch[s].slot] = conv[batch[s].slot],
           ssm'[batch[s].slot] = ssm[batch[s].slot],
           Has("save", s)' <=> Has("save", s), Has("step", s)' <=> Has("step", s),
           Has("scan", s)' <=> Has("scan", s)
    PROVE  /\ WindowIs(batch[s].slot, batch[s].req, ConvPos(s))'
           /\ RecurrenceIs(batch[s].slot, batch[s].req, ScanPos(s))'
<1>1. /\ WindowIs(batch[s].slot, batch[s].req, ConvPos(s))
      /\ RecurrenceIs(batch[s].slot, batch[s].req, ScanPos(s))
  BY DEF IInv, StateInv
<1>2. ConvPos(s)' = ConvPos(s) /\ ScanPos(s)' = ScanPos(s)
  BY DEF ConvPos, ScanPos
<1> QED
  BY <1>1, <1>2 DEF WindowIs, RecurrenceIs

LEMMA OutStep ==
    ASSUME IInv, NEW tok \in Tokens, OutToken(tok)
    PROVE  IInv'
<1>1. Runs("out", tok) /\ UNCHANGED <<conv, ssm, core, batch>>
  BY DEF OutToken, Runs
<1>2. RowsInv' /\ HomeInv' /\ WorkInv' /\ (cinit \in BOOLEAN /\ sinit \in BOOLEAN)'
  BY <1>1, WorkStep
<1>3. StateInv'
  <2>1. \A s \in Rows : batch[s].req # Pad =>
          /\ WindowIs(batch[s].slot, batch[s].req, ConvPos(s))'
          /\ RecurrenceIs(batch[s].slot, batch[s].req, ScanPos(s))'
    BY <1>1, WorkLeft, SamePlace
  <2> QED
    BY <1>1, <2>1, StateStep DEF IInv, StateInv
<1>4. OutputInv'
  <2>1. DOMAIN mixed' = Tokens /\ DOMAIN core' = Tokens /\ Rows' = Rows
    BY <1>1 DEF OutToken, IInv, OutputInv, Rows
  <2>2. ASSUME NEW s \in Rows, NEW t \in Tokens, batch[s].lo <= t, t < batch[s].hi
        PROVE  /\ ~Has("out", t)' /\ ~Has("step", s)' =>
                    mixed'[t] = IF batch[s].req = Pad THEN Zero
                                ELSE ConvAt(batch[s].req, batch[s].from + t - batch[s].lo + 1)
               /\ ~Has("scan", s)' =>
                    core'[t] = IF batch[s].req = Pad THEN Zero
                               ELSE RecurrenceAt(batch[s].req, batch[s].from + t - batch[s].lo + 1)
    <3>1. CASE t # tok
      BY <1>1, <2>2, <3>1, WorkLeft DEF OutToken, IInv, OutputInv
    <3>2. CASE t = tok
      <4>1. FindSeq(tok) = s
        BY <2>2, <3>2, FindSeqRight DEF IInv, Tokens
      <4>2. /\ Has("scan", s)' /\ Has("save", s)
            /\ cinit \/ \A u \in Rows : ~Continues(batch[u])
        BY <1>1, WorkLeft DEF IInv, WorkInv
      <4>3. CASE batch[s].req = Pad
        <5>1. ~Live(batch[s])
          BY <4>3 DEF IInv, RowsInv, Live
        <5> QED
          BY <3>2, <4>1, <4>2, <4>3, <5>1 DEF OutToken, IInv, OutputInv
      <4>4. CASE batch[s].req # Pad
        <5>0. batch[s].from \in Nat /\ batch[s].lo \in Nat /\ batch[s].hi \in Nat
              /\ Live(batch[s])
          BY <4>4 DEF IInv, RowsInv, Live
        <5>1. WindowIs(batch[s].slot, batch[s].req, batch[s].from)
          BY <1>1, <4>2, <4>4, WorkLeft DEF IInv, StateInv, ConvPos
        <5>2. ASSUME NEW k \in Taps
              PROVE  Source(batch[s], tok - batch[s].lo - StateLen + k)
                       = Sample(batch[s].req, (batch[s].from + tok - batch[s].lo + 1) - StateLen + k)
          <6> DEFINE src == tok - batch[s].lo - StateLen + k
          <6>1. src \in Int /\ -StateLen <= src /\ src < batch[s].hi - batch[s].lo
            BY <2>2, <3>2, <5>0, SlotAssumption DEF Taps, Tokens
          <6>2. Source(batch[s], src) = Sample(batch[s].req, batch[s].from + src + 1)
            BY <4>2, <4>4, <5>1, <6>1, SourceRight DEF IInv
          <6>3. batch[s].from + src + 1 = (batch[s].from + tok - batch[s].lo + 1) - StateLen + k
            BY <5>0, SlotAssumption DEF Taps, Tokens
          <6> QED
            BY <6>2, <6>3
        <5>3. mixed'[tok] = [k \in Taps |-> Source(batch[s], tok - batch[s].lo - StateLen + k)]
          BY <4>1, <5>0 DEF OutToken, IInv, OutputInv
        <5>4. mixed'[tok] = ConvAt(batch[s].req, batch[s].from + tok - batch[s].lo + 1)
          BY <5>2, <5>3, Zenon DEF ConvAt
        <5> QED
          BY <3>2, <4>2, <4>4, <5>4
      <4> QED
        BY <4>3, <4>4
    <3> QED
      BY <3>1, <3>2
  <2> QED
    BY <1>1, <2>1, <2>2 DEF OutputInv
<1> QED
  BY <1>2, <1>3, <1>4 DEF IInv
\* What a step does to row i's slot is done to no other row's and to no
\* request's outside the batch.
LEMMA OtherSlots ==
    ASSUME IInv, NEW i \in Rows, ~Idle, batch[i].req # Pad,
           NEW v, conv' = [conv EXCEPT ![batch[i].slot] = v]
    PROVE  /\ \A s \in Rows : s # i /\ batch[s].req # Pad =>
                 conv'[batch[s].slot] = conv[batch[s].slot]
           /\ \A r \in Requests :
                 home[r] # NoSlot /\ (\A s \in Rows : batch[s].req # r) =>
                    conv'[home[r]] = conv[home[r]]
           /\ DOMAIN conv' = Slots
           /\ conv'[batch[i].slot] = v
           /\ \A sl \in Slots : sl # batch[i].slot => conv'[sl] = conv[sl]
<1>1. DOMAIN conv = Slots /\ batch[i].slot \in Slots
  BY DEF IInv, StateInv, RowsInv
<1>2. \A sl \in Slots : sl # batch[i].slot => conv'[sl] = conv[sl]
  BY <1>1
<1>3. ASSUME NEW s \in Rows, s # i, batch[s].req # Pad
      PROVE  conv'[batch[s].slot] = conv[batch[s].slot]
  <2>1. batch[s].slot \in Slots
    BY <1>3 DEF IInv, RowsInv
  <2>2. batch[s].slot # batch[i].slot
    BY <1>3, OwnSlot DEF IInv
  <2> QED
    BY <1>2, <2>1, <2>2
<1>4. ASSUME NEW r \in Requests, home[r] # NoSlot, \A s \in Rows : batch[s].req # r
      PROVE  conv'[home[r]] = conv[home[r]]
  <2>1. home[r] \in Slots
    BY <1>4 DEF IInv, HomeInv
  <2>2. home[r] # batch[i].slot
    BY <1>4, OwnSlot DEF IInv
  <2> QED
    BY <1>2, <2>1, <2>2
<1> QED
  BY <1>1, <1>2, <1>3, <1>4

\* The write-back moves a row's window from before its tokens to after them.
LEMMA SaveStep ==
    ASSUME IInv, NEW i \in Rows, SaveRow(i)
    PROVE  IInv'
<1> DEFINE row == batch[i]
<1>1. Runs("save", i) /\ UNCHANGED <<ssm, mixed, core, batch>> /\ ~Idle
  BY WorkLeft DEF SaveRow, Runs
<1>2. RowsInv' /\ HomeInv' /\ WorkInv' /\ (cinit \in BOOLEAN /\ sinit \in BOOLEAN)'
  BY <1>1, WorkStep
<1>3. /\ Has("save", i) /\ ~Has("save", i)' /\ ~Has("step", i)
      /\ \A k, j : (k # "save" \/ j # i) => (Has(k, j)' <=> Has(k, j))
      /\ cinit \/ \A u \in Rows : ~Continues(batch[u])
  BY <1>1, WorkLeft DEF IInv, WorkInv
<1>4. OutputInv'
  BY <1>1, <1>3 DEF IInv, OutputInv, Rows
<1>5. CASE ~Saves(row)
  <2>1. conv' = conv
    BY <1>5 DEF SaveRow
  <2>2. \A s \in Rows : batch[s].req # Pad /\ s # i =>
          /\ WindowIs(batch[s].slot, batch[s].req, ConvPos(s))'
          /\ RecurrenceIs(batch[s].slot, batch[s].req, ScanPos(s))'
    BY <1>1, <1>3, <2>1, SamePlace
  <2>3. row.req # Pad =>
          /\ WindowIs(row.slot, row.req, ConvPos(i))'
          /\ RecurrenceIs(row.slot, row.req, ScanPos(i))'
    <3>1. row.req # Pad => row.hi = row.lo /\ row.from \in Nat /\ row.lo \in Nat
      BY <1>5 DEF Saves, Live, IInv, RowsInv
    <3>2. row.req # Pad => ConvPos(i)' = ConvPos(i) /\ ScanPos(i)' = ScanPos(i)
      BY <1>1, <1>3, <3>1 DEF ConvPos, ScanPos
    <3>3. row.req # Pad => WindowIs(row.slot, row.req, ConvPos(i))
                           /\ RecurrenceIs(row.slot, row.req, ScanPos(i))
      BY <1>1 DEF IInv, StateInv
    <3> QED
      BY <1>1, <2>1, <3>2, <3>3 DEF WindowIs, RecurrenceIs
  <2>4. StateInv'
    BY <1>1, <2>1, <2>2, <2>3, StateStep DEF IInv, StateInv
  <2> QED
    BY <1>2, <1>4, <2>4 DEF IInv
<1>6. CASE Saves(row)
  <2> DEFINE v == [m \in Window |-> Source(row, row.hi - row.lo - StateLen + m)]
  <2>0. row.req # Pad /\ row.slot \in Slots /\ row.from \in Nat /\ row.lo \in Nat
        /\ row.hi \in Nat /\ row.hi > row.lo
    BY <1>6 DEF Saves, Live, IInv, RowsInv
  <2>1. conv' = [conv EXCEPT ![row.slot] = v]
    BY <1>6 DEF SaveRow
  <2>2. /\ \A s \in Rows : s # i /\ batch[s].req # Pad =>
              conv'[batch[s].slot] = conv[batch[s].slot]
        /\ \A r \in Requests :
              home[r] # NoSlot /\ (\A s \in Rows : batch[s].req # r) =>
                 conv'[home[r]] = conv[home[r]]
        /\ DOMAIN conv' = Slots
        /\ conv'[row.slot] = v
        /\ \A sl \in Slots : sl # row.slot => conv'[sl] = conv[sl]
    <3> HIDE DEF v
    <3> QED
      BY <1>1, <2>0, <2>1, OtherSlots
  <2>3. \A s \in Rows : batch[s].req # Pad /\ s # i =>
          /\ WindowIs(batch[s].slot, batch[s].req, ConvPos(s))'
          /\ RecurrenceIs(batch[s].slot, batch[s].req, ScanPos(s))'
    BY <1>1, <1>3, <2>2, SamePlace
  <2>4. v = WindowAt(row.req, row.from + row.hi - row.lo)
    <3>1. WindowIs(row.slot, row.req, row.from)
      BY <1>1, <1>3, <2>0 DEF IInv, StateInv, ConvPos
    <3>2. ASSUME NEW m \in Window
          PROVE  Source(row, row.hi - row.lo - StateLen + m)
                   = Sample(row.req, (row.from + row.hi - row.lo) - StateLen + m + 1)
      <4> DEFINE src == row.hi - row.lo - StateLen + m
      <4>1. src \in Int /\ -StateLen <= src /\ src < row.hi - row.lo
        BY <2>0, SlotAssumption DEF Window
      <4>2. Source(row, src) = Sample(row.req, row.from + src + 1)
        BY <1>3, <2>0, <3>1, <4>1, SourceRight DEF IInv
      <4>3. row.from + src + 1 = (row.from + row.hi - row.lo) - StateLen + m + 1
        BY <2>0, SlotAssumption DEF Window
      <4> QED
        BY <4>2, <4>3
    <3> QED
      BY <3>2, Zenon DEF WindowAt
  <2>5. WindowIs(row.slot, row.req, ConvPos(i))'
    <3>1. ConvPos(i)' = row.from + row.hi - row.lo
      BY <1>1, <1>3 DEF ConvPos
    <3> HIDE DEF v
    <3> QED
      BY <1>1, <2>2, <2>4, <3>1 DEF WindowIs
  <2>6. RecurrenceIs(row.slot, row.req, ScanPos(i))'
    <3>1. ScanPos(i)' = ScanPos(i)
      BY <1>1, <1>3 DEF ScanPos
    <3>2. RecurrenceIs(row.slot, row.req, ScanPos(i))
      BY <1>1, <2>0 DEF IInv, StateInv
    <3> QED
      BY <1>1, <3>1, <3>2 DEF RecurrenceIs
  <2>7. \A sl \in Slots : DOMAIN conv'[sl] = Window
    BY <2>2 DEF IInv, StateInv
  <2>8. StateInv'
    <3> HIDE DEF v
    <3> QED
      BY <1>1, <2>2, <2>3, <2>5, <2>6, <2>7, StateStep DEF IInv, StateInv
  <2> QED
    BY <1>2, <1>4, <2>8 DEF IInv
<1> QED
  BY <1>5, <1>6
\* A decode step gives the token's output and moves the window by one sample.
LEMMA StepStep ==
    ASSUME IInv, NEW i \in Rows, StepRow(i)
    PROVE  IInv'
<1> DEFINE row == batch[i]
           w == [k \in Taps |-> IF k < StateLen THEN conv[row.slot][k] ELSE X(row.lo)]
<1>1. Runs("step", i) /\ UNCHANGED <<ssm, core, batch>> /\ ~Idle
  BY WorkLeft DEF StepRow, Runs
<1>2. RowsInv' /\ HomeInv' /\ WorkInv' /\ (cinit \in BOOLEAN /\ sinit \in BOOLEAN)'
  BY <1>1, WorkStep
<1>3. /\ Has("step", i) /\ ~Has("step", i)' /\ ~Has("save", i)
      /\ \A k, j : (k # "step" \/ j # i) => (Has(k, j)' <=> Has(k, j))
      /\ Has("scan", i)'
      /\ row.hi = row.lo + 1 /\ (row.from > 0 \/ row.req = Pad)
      /\ row.from \in Nat /\ row.lo \in Nat /\ row.lo \in Tokens
  BY <1>1, WorkLeft, SlotAssumption DEF IInv, WorkInv, RowsInv, Continues, Tokens
<1>4. ASSUME row.req # Pad
      PROVE  /\ w = ConvAt(row.req, row.from + 1)
             /\ Shifted(w) = WindowAt(row.req, row.from + 1)
  <2>1. conv[row.slot] = WindowAt(row.req, row.from)
    BY <1>1, <1>3, <1>4 DEF IInv, StateInv, ConvPos, WindowIs
  <2>2. X(row.lo) = Sample(row.req, row.from + row.lo - row.lo + 1)
    BY <1>3, InputRight DEF IInv
  <2>3. ASSUME NEW k \in Taps
        PROVE  w[k] = Sample(row.req, (row.from + 1) - StateLen + k)
    <3>1. CASE k < StateLen
      <4>1. k \in Window
        BY <3>1, SlotAssumption DEF Taps, Window
      <4>2. conv[row.slot][k] = Sample(row.req, row.from - StateLen + k + 1)
        BY <2>1, <4>1 DEF WindowAt
      <4>3. row.from - StateLen + k + 1 = (row.from + 1) - StateLen + k
        BY <1>3, SlotAssumption DEF Taps
      <4> QED
        BY <3>1, <4>2, <4>3
    <3>2. CASE ~(k < StateLen)
      <4>1. row.from + row.lo - row.lo + 1 = (row.from + 1) - StateLen + k
        BY <1>3, <3>2, SlotAssumption DEF Taps
      <4> QED
        BY <2>2, <3>2, <4>1
    <3> QED
      BY <3>1, <3>2
  <2>4. w = ConvAt(row.req, row.from + 1)
    BY <2>3 DEF ConvAt
  <2>5. ASSUME NEW m \in Window
        PROVE  w[m + 1] = Sample(row.req, (row.from + 1) - StateLen + m + 1)
    <3>1. m + 1 \in Taps
      BY SlotAssumption DEF Taps, Window
    <3>2. (row.from + 1) - StateLen + (m + 1) = (row.from + 1) - StateLen + m + 1
      BY <1>3, SlotAssumption DEF Window
    <3> QED
      BY <2>3, <3>1, <3>2
  <2>6. Shifted(w) = WindowAt(row.req, row.from + 1)
    <3> HIDE DEF w
    <3> QED
      BY <2>5, Zenon DEF Shifted, WindowAt
  <2> QED
    BY <2>4, <2>6
<1>5. mixed' = [mixed EXCEPT ![row.lo] = IF row.req = Pad THEN Zero ELSE w]
      /\ IF row.req = Pad THEN conv' = conv
         ELSE conv' = [conv EXCEPT ![row.slot] = Shifted(w)]
  BY DEF StepRow, Live, IInv, RowsInv
<1> HIDE DEF w
<1>6. OutputInv'
  <2>1. DOMAIN mixed' = Tokens /\ DOMAIN core' = Tokens /\ Rows' = Rows
    BY <1>1, <1>5 DEF IInv, OutputInv, Rows
  <2>2. ASSUME NEW s \in Rows, NEW t \in Tokens, batch[s].lo <= t, t < batch[s].hi
        PROVE  /\ ~Has("out", t)' /\ ~Has("step", s)' =>
                    mixed'[t] = IF batch[s].req = Pad THEN Zero
                                ELSE ConvAt(batch[s].req, batch[s].from + t - batch[s].lo + 1)
               /\ ~Has("scan", s)' =>
                    core'[t] = IF batch[s].req = Pad THEN Zero
                               ELSE RecurrenceAt(batch[s].req, batch[s].from + t - batch[s].lo + 1)
    <3>1. CASE s # i
      <4>1. t # row.lo
        BY <1>3, <2>2, <3>1, OneRow DEF IInv, Tokens
      <4> QED
        BY <1>1, <1>3, <1>5, <2>2, <3>1, <4>1 DEF IInv, OutputInv
    <3>2. CASE s = i
      <4>1. t = row.lo
        BY <1>3, <2>2, <3>2 DEF Tokens
      <4>2. mixed'[t] = IF row.req = Pad THEN Zero ELSE w
        BY <1>5, <4>1 DEF IInv, OutputInv
      <4>3. row.from + t - row.lo + 1 = row.from + 1
        BY <1>3, <4>1
      <4> QED
        BY <1>3, <1>4, <3>2, <4>2, <4>3
    <3> QED
      BY <3>1, <3>2
  <2> QED
    BY <1>1, <2>1, <2>2 DEF OutputInv
<1>7. CASE row.req = Pad
  <2>1. conv' = conv
    BY <1>5, <1>7
  <2>2. \A s \in Rows : batch[s].req # Pad =>
          /\ WindowIs(batch[s].slot, batch[s].req, ConvPos(s))'
          /\ RecurrenceIs(batch[s].slot, batch[s].req, ScanPos(s))'
    BY <1>1, <1>3, <1>7, <2>1, SamePlace
  <2>3. StateInv'
    BY <1>1, <2>1, <2>2, StateStep DEF IInv, StateInv
  <2> QED
    BY <1>2, <1>6, <2>3 DEF IInv
<1>8. CASE row.req # Pad
  <2>1. conv' = [conv EXCEPT ![row.slot] = Shifted(w)]
    BY <1>5, <1>8
  <2>2. /\ \A s \in Rows : s # i /\ batch[s].req # Pad =>
              conv'[batch[s].slot] = conv[batch[s].slot]
        /\ \A r \in Requests :
              home[r] # NoSlot /\ (\A s \in Rows : batch[s].req # r) =>
                 conv'[home[r]] = conv[home[r]]
        /\ DOMAIN conv' = Slots
        /\ conv'[row.slot] = Shifted(w)
        /\ \A sl \in Slots : sl # row.slot => conv'[sl] = conv[sl]
    BY <1>1, <1>8, <2>1, OtherSlots
  <2>3. \A s \in Rows : batch[s].req # Pad /\ s # i =>
          /\ WindowIs(batch[s].slot, batch[s].req, ConvPos(s))'
          /\ RecurrenceIs(batch[s].slot, batch[s].req, ScanPos(s))'
    BY <1>1, <1>3, <2>2, SamePlace
  <2>4. WindowIs(row.slot, row.req, ConvPos(i))'
    <3>1. ConvPos(i)' = row.from + 1
      BY <1>1, <1>3 DEF ConvPos
    <3> QED
      BY <1>1, <1>4, <1>8, <2>2, <3>1 DEF WindowIs
  <2>5. RecurrenceIs(row.slot, row.req, ScanPos(i))'
    <3>1. ScanPos(i)' = ScanPos(i)
      BY <1>1, <1>3 DEF ScanPos
    <3>2. RecurrenceIs(row.slot, row.req, ScanPos(i))
      BY <1>1, <1>8 DEF IInv, StateInv
    <3> QED
      BY <1>1, <3>1, <3>2 DEF RecurrenceIs
  <2>6. \A sl \in Slots : DOMAIN conv'[sl] = Window
    BY <2>2 DEF IInv, StateInv, Shifted
  <2>7. StateInv'
    BY <1>1, <2>2, <2>3, <2>4, <2>5, <2>6, StateStep DEF IInv, StateInv
  <2> QED
    BY <1>2, <1>6, <2>7 DEF IInv
<1> QED
  BY <1>7, <1>8
\* What the scan of a row holds after one of its tokens.
LEMMA AbsorbedRight ==
    ASSUME IInv, ~Idle, NEW i \in Rows, Has("scan", i), batch[i].req # Pad,
           \A j : ~Has("out", j) /\ ~Has("step", j),
           NEW tok \in Int, batch[i].lo <= tok, tok < batch[i].hi
    PROVE  Absorbed(batch[i], tok)
             = RecurrenceAt(batch[i].req, batch[i].from + tok - batch[i].lo + 1)
<1> DEFINE row == batch[i]
           n == tok - row.lo + 1
           old == IF UseInit(row) THEN ssm[row.slot] ELSE <<>>
<1>0. row.from \in Nat /\ row.lo \in Nat /\ row.hi \in Nat /\ row.hi <= MaxTokens
      /\ Live(row) /\ n \in Nat
  BY DEF IInv, RowsInv, Live
<1>1. old = RecurrenceAt(row.req, row.from)
  <2>1. CASE row.from > 0
    <3>1. UseInit(row)
      BY <1>0, <2>1 DEF UseInit, Continues
    <3>2. RecurrenceIs(row.slot, row.req, row.from)
      BY DEF IInv, StateInv, ScanPos
    <3> QED
      BY <2>1, <3>1, <3>2 DEF RecurrenceIs
  <2>2. CASE row.from = 0
    <3>1. ~UseInit(row)
      BY <2>2 DEF UseInit, Continues, IInv, RowsInv
    <3>2. RecurrenceAt(row.req, 0) = <<>>
      BY DEF RecurrenceAt
    <3> QED
      BY <2>2, <3>1, <3>2
  <2> QED
    BY <1>0, <2>1, <2>2
<1>2. ASSUME NEW k \in 1..n
      PROVE  mixed[row.lo + k - 1] = ConvAt(row.req, row.from + k)
  <2>1. row.lo + k - 1 \in Tokens /\ row.lo <= row.lo + k - 1 /\ row.lo + k - 1 < row.hi
    BY <1>0, SlotAssumption DEF Tokens
  <2>2. mixed[row.lo + k - 1]
          = ConvAt(row.req, row.from + (row.lo + k - 1) - row.lo + 1)
    BY <2>1 DEF IInv, OutputInv
  <2>3. row.from + (row.lo + k - 1) - row.lo + 1 = row.from + k
    BY <1>0
  <2> QED
    BY <2>2, <2>3
<1>3. [k \in 1..n |-> mixed[row.lo + k - 1]] = [k \in 1..n |-> ConvAt(row.req, row.from + k)]
  <2> HIDE DEF n
  <2> QED
    BY <1>2, Zenon
<1>4. RecurrenceAt(row.req, row.from) \o [k \in 1..n |-> ConvAt(row.req, row.from + k)]
        = RecurrenceAt(row.req, row.from + n)
  <2> HIDE DEF n
  <2> QED
    BY <1>0, Extend
<1>5. Absorbed(row, tok) = old \o [k \in 1..n |-> mixed[row.lo + k - 1]]
  BY DEF Absorbed
<1>6. row.from + n = row.from + tok - row.lo + 1
  BY <1>0
<1> HIDE DEF n, old
<1> QED
  BY <1>1, <1>3, <1>4, <1>5, <1>6

\* The scan gives its row's outputs and moves its recurrence past its tokens.
LEMMA ScanStep ==
    ASSUME IInv, NEW i \in Rows, ScanRow(i)
    PROVE  IInv'
<1> DEFINE row == batch[i]
           v == Absorbed(row, row.hi - 1)
<1>1. Runs("scan", i) /\ UNCHANGED <<conv, mixed, batch>> /\ ~Idle
  BY WorkLeft DEF ScanRow, Runs
<1>2. RowsInv' /\ HomeInv' /\ WorkInv' /\ (cinit \in BOOLEAN /\ sinit \in BOOLEAN)'
  BY <1>1, WorkStep
<1>3. /\ Has("scan", i) /\ ~Has("scan", i)'
      /\ \A k, j : (k # "scan" \/ j # i) => (Has(k, j)' <=> Has(k, j))
      /\ \A j : ~Has("out", j) /\ ~Has("save", j) /\ ~Has("step", j)
      /\ row.from \in Nat /\ row.lo \in Nat /\ row.hi \in Nat /\ row.lo <= row.hi
      /\ Live(row) <=> row.req # Pad
  BY <1>1, WorkLeft DEF IInv, RowsInv, Live
<1>4. OutputInv'
  <2>1. DOMAIN mixed' = Tokens /\ DOMAIN core' = Tokens /\ Rows' = Rows
    BY <1>1 DEF ScanRow, IInv, OutputInv, Rows
  <2>2. ASSUME NEW s \in Rows, NEW t \in Tokens, batch[s].lo <= t, t < batch[s].hi
        PROVE  /\ ~Has("out", t)' /\ ~Has("step", s)' =>
                    mixed'[t] = IF batch[s].req = Pad THEN Zero
                                ELSE ConvAt(batch[s].req, batch[s].from + t - batch[s].lo + 1)
               /\ ~Has("scan", s)' =>
                    core'[t] = IF batch[s].req = Pad THEN Zero
                               ELSE RecurrenceAt(batch[s].req, batch[s].from + t - batch[s].lo + 1)
    <3>1. CASE s # i
      <4>1. ~(row.lo <= t /\ t < row.hi)
        BY <2>2, <3>1, OneRow DEF IInv, Tokens
      <4>2. core'[t] = core[t]
        BY <4>1 DEF ScanRow
      <4> QED
        BY <1>1, <1>3, <2>2, <3>1, <4>2 DEF IInv, OutputInv
    <3>2. CASE s = i
      <4>1. core'[t] = IF Live(row) THEN Absorbed(row, t) ELSE Zero
        BY <2>2, <3>2 DEF ScanRow
      <4>2. row.req # Pad =>
              Absorbed(row, t) = RecurrenceAt(row.req, row.from + t - row.lo + 1)
        BY <1>1, <1>3, <2>2, <3>2, AbsorbedRight DEF Tokens
      <4>3. /\ ~Has("out", t) /\ ~Has("step", s) =>
                  mixed[t] = IF batch[s].req = Pad THEN Zero
                             ELSE ConvAt(batch[s].req, batch[s].from + t - batch[s].lo + 1)
        BY <2>2 DEF IInv, OutputInv
      <4> QED
        BY <1>1, <1>3, <3>2, <4>1, <4>2, <4>3
    <3> QED
      BY <3>1, <3>2
  <2> QED
    BY <1>1, <2>1, <2>2 DEF OutputInv
<1>5. CASE ~Saves(row)
  <2>1. ssm' = ssm
    BY <1>5 DEF ScanRow
  <2>2. \A s \in Rows : batch[s].req # Pad /\ s # i =>
          /\ WindowIs(batch[s].slot, batch[s].req, ConvPos(s))'
          /\ RecurrenceIs(batch[s].slot, batch[s].req, ScanPos(s))'
    BY <1>1, <1>3, <2>1, SamePlace
  <2>3. row.req # Pad =>
          /\ WindowIs(row.slot, row.req, ConvPos(i))'
          /\ RecurrenceIs(row.slot, row.req, ScanPos(i))'
    <3>1. row.req # Pad => row.hi = row.lo
      BY <1>3, <1>5 DEF Saves
    <3>2. row.req # Pad => ConvPos(i)' = ConvPos(i) /\ ScanPos(i)' = ScanPos(i)
      BY <1>1, <1>3, <3>1 DEF ConvPos, ScanPos
    <3>3. row.req # Pad => WindowIs(row.slot, row.req, ConvPos(i))
                           /\ RecurrenceIs(row.slot, row.req, ScanPos(i))
      BY <1>1 DEF IInv, StateInv
    <3> QED
      BY <1>1, <2>1, <3>2, <3>3 DEF WindowIs, RecurrenceIs
  <2>4. StateInv'
    BY <1>1, <2>1, <2>2, <2>3, StateStep DEF IInv, StateInv
  <2> QED
    BY <1>2, <1>4, <2>4 DEF IInv
<1>6. CASE Saves(row)
  <2>0. row.req # Pad /\ row.slot \in Slots /\ row.hi > row.lo
    BY <1>3, <1>6 DEF Saves, Live
  <2>1. ssm' = [ssm EXCEPT ![row.slot] = v]
    BY <1>6 DEF ScanRow
  <2>2. v = RecurrenceAt(row.req, row.from + row.hi - row.lo)
    <3>1. v = RecurrenceAt(row.req, row.from + (row.hi - 1) - row.lo + 1)
      BY <1>1, <1>3, <2>0, AbsorbedRight
    <3>2. row.from + (row.hi - 1) - row.lo + 1 = row.from + row.hi - row.lo
      BY <1>3
    <3> HIDE DEF v
    <3> QED
      BY <3>1, <3>2
  <2> HIDE DEF v
  <2>3. DOMAIN ssm' = Slots /\ ssm'[row.slot] = v
        /\ \A sl \in Slots : sl # row.slot => ssm'[sl] = ssm[sl]
    BY <2>0, <2>1 DEF IInv, StateInv
  <2>4. ASSUME NEW s \in Rows, s # i, batch[s].req # Pad
        PROVE  /\ WindowIs(batch[s].slot, batch[s].req, ConvPos(s))'
               /\ RecurrenceIs(batch[s].slot, batch[s].req, ScanPos(s))'
    <3>1. batch[s].slot # row.slot /\ batch[s].slot \in Slots
      BY <1>1, <2>0, <2>4, OwnSlot DEF IInv, RowsInv
    <3> QED
      BY <1>1, <1>3, <2>3, <2>4, <3>1, SamePlace
  <2>5. WindowIs(row.slot, row.req, ConvPos(i))'
    <3>1. ConvPos(i)' = ConvPos(i)
      BY <1>1, <1>3 DEF ConvPos
    <3>2. WindowIs(row.slot, row.req, ConvPos(i))
      BY <1>1, <2>0 DEF IInv, StateInv
    <3> QED
      BY <1>1, <3>1, <3>2 DEF WindowIs
  <2>6. RecurrenceIs(row.slot, row.req, ScanPos(i))'
    <3>1. ScanPos(i)' = row.from + row.hi - row.lo
      BY <1>1, <1>3 DEF ScanPos
    <3> QED
      BY <1>1, <2>2, <2>3, <3>1 DEF RecurrenceIs
  <2>7. \A r \in Requests :
          home[r] # NoSlot /\ (\A s \in Rows : batch[s].req # r) =>
             ssm'[home[r]] = ssm[home[r]]
    BY <1>1, <2>0, <2>3, OwnSlot DEF IInv, HomeInv
  <2>8. \A sl \in Slots : \E n \in 0..MaxFed : DOMAIN ssm'[sl] = 1..n
    <3>1. row.from + row.hi - row.lo \in 0..MaxFed
      BY <1>1, <2>0 DEF IInv, HomeInv, RowsInv
    <3>2. DOMAIN v = 1..(row.from + row.hi - row.lo)
      BY <2>2 DEF RecurrenceAt
    <3> QED
      BY <2>3, <3>1, <3>2 DEF IInv, StateInv
  <2>9. StateInv'
    BY <1>1, <2>3, <2>4, <2>5, <2>6, <2>7, <2>8, StateStep DEF IInv, StateInv
  <2> QED
    BY <1>2, <1>4, <2>9 DEF IInv
<1> QED
  BY <1>5, <1>6
-----------------------------------------------------------------------------
(* Steps of the engine                                                      *)

LEMMA AdmitStep ==
    ASSUME IInv, NEW r \in Requests, NEW sl \in Slots, Admit(r, sl)
    PROVE  IInv'
<1>1. /\ Idle /\ Idle' /\ fed[r] = 0 /\ home' = [home EXCEPT ![r] = sl]
      /\ \A q \in Requests : home[q] # sl
      /\ UNCHANGED <<fed, conv, ssm, batch, cinit, sinit, todo, mixed, core>>
  BY DEF Admit, Idle
<1>2. RowsInv' /\ WorkInv' /\ OutputInv' /\ (cinit \in BOOLEAN /\ sinit \in BOOLEAN)'
  BY <1>1 DEF IInv, RowsInv, WorkInv, OutputInv, Has, Rows, Continues
<1>3. HomeInv'
  BY <1>1 DEF IInv, HomeInv
<1>4. StateInv'
  <2>1. ASSUME NEW q \in Requests, home'[q] # NoSlot
        PROVE  /\ WindowIs(home[q], q, fed[q])'
               /\ RecurrenceIs(home[q], q, fed[q])'
    BY <1>1, <2>1 DEF IInv, HomeInv, StateInv, WindowIs, RecurrenceIs
  <2> QED
    BY <1>1, <2>1 DEF IInv, StateInv, Rows
<1> QED
  BY <1>2, <1>3, <1>4 DEF IInv

LEMMA FinishStep ==
    ASSUME IInv, NEW r \in Requests, Finish(r)
    PROVE  IInv'
<1>1. /\ Idle /\ Idle' /\ home' = [home EXCEPT ![r] = NoSlot]
      /\ UNCHANGED <<fed, conv, ssm, batch, cinit, sinit, todo, mixed, core>>
  BY DEF Finish, Idle
<1>2. RowsInv' /\ WorkInv' /\ OutputInv' /\ (cinit \in BOOLEAN /\ sinit \in BOOLEAN)'
  BY <1>1 DEF IInv, RowsInv, WorkInv, OutputInv, Has, Rows, Continues
<1>3. HomeInv'
  BY <1>1 DEF IInv, HomeInv
<1>4. StateInv'
  <2>1. ASSUME NEW q \in Requests, home'[q] # NoSlot
        PROVE  /\ WindowIs(home[q], q, fed[q])'
               /\ RecurrenceIs(home[q], q, fed[q])'
    BY <1>1, <2>1 DEF IInv, HomeInv, StateInv, WindowIs, RecurrenceIs
  <2> QED
    BY <1>1, <2>1 DEF IInv, StateInv, Rows
<1> QED
  BY <1>2, <1>3, <1>4 DEF IInv

\* What both kinds of call do to the requests and to the slots' meaning.
LEMMA CallStep ==
    ASSUME IInv, Idle, NEW n \in Nat, NEW who \in Lineups(n), NEW cu \in Offsets(n),
           NEW none \in Padding, n <= MaxRows,
           NEW work, Call(Batch(n, who, cu, none), work),
           \A s \in 1..n : <<"scan", s>> \in work
                           /\ (<<"save", s>> \in work \/ <<"step", s>> \in work),
           n >= 1,
           sinit' \/ \A s \in 1..n : Continues(Batch(n, who, cu, none)[s]) \/ who[s] = Pad
    PROVE  /\ RowsInv' /\ HomeInv' /\ StateInv'
           /\ Rows' = 1..n /\ batch' = Batch(n, who, cu, none) /\ todo' = work
<1> DEFINE b == Batch(n, who, cu, none)
<1>1. /\ batch' = b /\ todo' = work /\ Rows' = 1..n
      /\ mixed' = [tok \in Tokens |-> Stale] /\ core' = [tok \in Tokens |-> Stale]
      /\ UNCHANGED <<home, conv, ssm>>
  BY DEF Call, Batch, Rows
<1>2. \A s \in 1..n :
        /\ b[s].req = who[s]
        /\ b[s].slot = IF who[s] = Pad THEN none ELSE home[who[s]]
        /\ b[s].from = IF who[s] = Pad THEN 0 ELSE fed[who[s]]
        /\ b[s].lo = cu[s - 1] /\ b[s].hi = cu[s]
  BY DEF Batch
<1>3. \A s \in 1..n :
        /\ s - 1 \in 0..n /\ s \in 0..n
        /\ cu[s - 1] \in Nat /\ cu[s] \in Nat /\ cu[s - 1] <= cu[s] /\ cu[s] <= MaxTokens
  BY SlotAssumption DEF Offsets
<1>4. \A s \in 1..n : who[s] # Pad =>
        /\ who[s] \in Requests /\ home[who[s]] \in Slots
        /\ fed[who[s]] \in Nat
        /\ \A u \in 1..n : u # s => who[u] # who[s]
  BY DEF Lineups, IInv, HomeInv
<1>5. none \notin Slots
  BY SlotAssumption DEF Padding, Slots
<1>6. RowsInv'
  <2>1. \A s \in 1..n :
         /\ s \in 1..MaxRows
         /\ b[s].from \in Nat /\ b[s].lo \in Nat /\ b[s].hi \in Nat
         /\ b[s].lo <= b[s].hi /\ b[s].hi <= MaxTokens
         /\ IF b[s].req = Pad THEN b[s].from = 0 /\ b[s].slot \notin Slots
            ELSE b[s].req \in Requests /\ b[s].slot \in Slots
    <3> HIDE DEF b
    <3> QED
      BY <1>2, <1>3, <1>4, <1>5, SlotAssumption
  <2>2. \A s, u \in 1..n : s < u => b[s].hi <= b[u].lo
    <3>1. \A s, u \in 0..n : s <= u => cu[s] <= cu[u]
      BY DEF Offsets
    <3> HIDE DEF b
    <3>2. ASSUME NEW s \in 1..n, NEW u \in 1..n, s < u
          PROVE  b[s].hi <= b[u].lo
      <4>1. s \in 0..n /\ u - 1 \in 0..n /\ s <= u - 1
        BY <3>2
      <4> QED
        BY <1>2, <3>1, <4>1
    <3> QED
      BY <3>2
  <2>3. sinit' \/ \A s \in 1..n : Continues(b[s]) \/ b[s].req = Pad
    BY <1>2
  <2> HIDE DEF b
  <2> QED
    BY <1>1, <2>1, <2>2, <2>3 DEF RowsInv, Continues
<1>7. \A r \in Requests :
        /\ fed'[r] <= MaxFed
        /\ (\A s \in 1..n : who[s] # r) => fed'[r] = fed[r]
        /\ \A s \in 1..n : who[s] = r => fed'[r] = fed[r] + b[s].hi - b[s].lo
  <2>1. \A r \in Requests : fed'[r] <= MaxFed
    BY DEF Call
  <2>2. fed' = [r \in Requests |->
                 LET s == {u \in DOMAIN b : b[u].req = r}
                 IN  IF s = {} THEN fed[r]
                     ELSE LET u == CHOOSE u \in s : TRUE
                          IN  fed[r] + b[u].hi - b[u].lo]
    BY DEF Call
  <2>3. DOMAIN b = 1..n
    BY DEF Batch
  <2> HIDE DEF b
  <2>4. ASSUME NEW r \in Requests, \A s \in 1..n : who[s] # r
        PROVE  fed'[r] = fed[r]
    BY <1>2, <2>2, <2>3, <2>4
  <2>5. ASSUME NEW r \in Requests, NEW s \in 1..n, who[s] = r
        PROVE  fed'[r] = fed[r] + b[s].hi - b[s].lo
    <3>1. {u \in DOMAIN b : b[u].req = r} = {s}
      BY <1>2, <1>4, <2>3, <2>5, SlotAssumption
    <3>2. (CHOOSE u \in {s} : TRUE) = s
      OBVIOUS
    <3> QED
      BY <2>2, <3>1, <3>2
  <2> QED
    BY <2>1, <2>4, <2>5
<1>8. HomeInv'
  <2>1. fed' \in [Requests -> 0..MaxFed]
    <3>1. fed' = [r \in Requests |-> fed'[r]]
      BY DEF Call
    <3>2. \A r \in Requests : fed'[r] \in 0..MaxFed
      <4> HIDE DEF b
      <4> QED
        BY <1>2, <1>3, <1>7 DEF IInv, HomeInv
    <3> QED
      BY <3>1, <3>2
  <2>2. \A s \in 1..n : who[s] # Pad =>
          /\ home[who[s]] = b[s].slot
          /\ fed'[who[s]] = b[s].from + b[s].hi - b[s].lo
          /\ \A u \in 1..n : u # s => b[u].req # b[s].req
    <3> HIDE DEF b
    <3> QED
      BY <1>2, <1>4, <1>7
  <2> HIDE DEF b
  <2> QED
    BY <1>1, <1>2, <2>1, <2>2 DEF IInv, HomeInv
<1>9. StateInv'
  <2>1. ~Idle'
    <3>1. 1 \in 1..n
      OBVIOUS
    <3> QED
      BY <1>1, <3>1 DEF Idle
  <2>2. ASSUME NEW r \in Requests, home[r] # NoSlot
        PROVE  /\ conv' = conv /\ ssm' = ssm
               /\ fed[r] > 0 => conv[home[r]] = WindowAt(r, fed[r])
                                /\ ssm[home[r]] = RecurrenceAt(r, fed[r])
    BY <1>1, <2>2 DEF IInv, StateInv, WindowIs, RecurrenceIs
  <2> HIDE DEF b
  <2>3. ASSUME NEW r \in Requests, home[r] # NoSlot, \A s \in 1..n : who[s] # r
        PROVE  WindowIs(home[r], r, fed[r])' /\ RecurrenceIs(home[r], r, fed[r])'
    BY <1>1, <1>7, <2>2, <2>3 DEF WindowIs, RecurrenceIs
  <2>4. ASSUME NEW s \in 1..n, who[s] # Pad
        PROVE  /\ WindowIs(batch[s].slot, batch[s].req, ConvPos(s))'
               /\ RecurrenceIs(batch[s].slot, batch[s].req, ScanPos(s))'
    <3>1. ConvPos(s)' = b[s].from /\ ScanPos(s)' = b[s].from
      BY <1>1 DEF ConvPos, ScanPos, Has
    <3>2. home[who[s]] # NoSlot
      BY <1>4, <2>4, SlotAssumption DEF Slots
    <3> QED
      BY <1>1, <1>2, <1>4, <2>2, <2>4, <3>1, <3>2 DEF WindowIs, RecurrenceIs
  <2>5. (/\ DOMAIN conv = Slots /\ DOMAIN ssm = Slots
         /\ \A sl \in Slots : DOMAIN conv[sl] = Window
         /\ \A sl \in Slots : \E m \in 0..MaxFed : DOMAIN ssm[sl] = 1..m)'
    BY <1>1 DEF IInv, StateInv
  <2>6. (\A r \in Requests :
           home[r] # NoSlot /\ (Idle \/ \A s \in Rows : batch[s].req # r) =>
              WindowIs(home[r], r, fed[r]) /\ RecurrenceIs(home[r], r, fed[r]))'
    BY <1>1, <1>2, <2>1, <2>3
  <2>7. (\A s \in Rows : batch[s].req # Pad =>
           /\ WindowIs(batch[s].slot, batch[s].req, ConvPos(s))
           /\ RecurrenceIs(batch[s].slot, batch[s].req, ScanPos(s)))'
    BY <1>1, <1>2, <2>4
  <2> QED
    BY <2>5, <2>6, <2>7 DEF StateInv
<1> QED
  BY <1>1, <1>6, <1>8, <1>9
LEMMA PrefillStep ==
    ASSUME IInv, NEW n \in 1..MaxRows, NEW who \in Lineups(n),
           NEW none \in Padding, NEW cu \in Offsets(n), Prefill(n, who, cu, none)
    PROVE  IInv'
<1> DEFINE b == Batch(n, who, cu, none)
           work == Items("out", 0..(cu[n] - 1)) \cup Items("save", 1..n)
                     \cup Items("scan", 1..n)
<1>1. /\ Idle /\ Call(b, work)
      /\ cinit' \in BOOLEAN /\ sinit' \in BOOLEAN
      /\ cinit' \/ \A s \in 1..n : ~Continues(b[s])
      /\ sinit' \/ \A s \in 1..n : Continues(b[s]) \/ b[s].req = Pad
  BY DEF Prefill
<1>2. \A s \in 1..n : b[s].req = who[s] /\ b[s].hi = cu[s]
  BY DEF Batch
<1>3. \A k, i : <<k, i>> \in work <=>
        \/ k = "out" /\ i \in 0..(cu[n] - 1)
        \/ k = "save" /\ i \in 1..n
        \/ k = "scan" /\ i \in 1..n
  BY DEF Items
<1>4. n \in Nat /\ n >= 1 /\ n <= MaxRows
  BY SlotAssumption
<1> HIDE DEF b, work
<1>5. /\ RowsInv' /\ HomeInv' /\ StateInv'
      /\ Rows' = 1..n /\ batch' = b /\ todo' = work
  BY <1>1, <1>2, <1>3, <1>4, CallStep DEF b
<1>6. cu[n] \in 0..MaxTokens /\ \A s \in 1..n : cu[s] \in Nat /\ cu[s] <= cu[n]
  BY <1>4, SlotAssumption DEF Offsets
<1>7. WorkInv'
  <2>1. \A item \in work :
          \/ item[1] = "out" /\ item[2] \in Tokens
          \/ item[1] \in {"save", "step", "scan"} /\ item[2] \in 1..n
    BY <1>6, SlotAssumption DEF work, Items, Tokens
  <2>2. \A s \in 1..n : <<"save", s>> \in work /\ <<"scan", s>> \in work
    BY <1>3
  <2>3. \A s : <<"step", s>> \notin work
    BY <1>3
  <2>4. \A s \in 1..n : Has("save", s)' /\ Has("scan", s)'
    BY <1>5, <2>2 DEF Has
  <2>5. \A s : ~Has("step", s)'
    BY <1>5, <2>3 DEF Has
  <2> QED
    BY <1>1, <1>5, <2>1, <2>4, <2>5 DEF WorkInv, Continues
<1>8. OutputInv'
  <2>1. DOMAIN mixed' = Tokens /\ DOMAIN core' = Tokens
    BY <1>1 DEF Call
  <2>2. ASSUME NEW s \in 1..n, NEW tok \in Tokens, tok < b[s].hi
        PROVE  Has("out", tok)' /\ Has("scan", s)'
    <3>1. tok \in 0..(cu[n] - 1)
      BY <1>2, <1>6, <2>2 DEF Tokens
    <3> QED
      BY <1>3, <1>5, <3>1 DEF Has
  <2> QED
    BY <1>5, <2>1, <2>2 DEF OutputInv
<1> QED
  BY <1>1, <1>5, <1>7, <1>8 DEF IInv

LEMMA DecodeStep ==
    ASSUME IInv, NEW n \in 1..MaxRows, n <= MaxTokens, NEW who \in Lineups(n),
           NEW none \in Padding, Decode(n, who, none)
    PROVE  IInv'
<1> DEFINE cu == [s \in 0..n |-> s]
           b == Batch(n, who, cu, none)
           work == Items("step", 1..n) \cup Items("scan", 1..n)
<1>1. /\ Idle /\ Call(b, work)
      /\ cinit' = FALSE /\ sinit' = FALSE
      /\ \A s \in 1..n : Continues(b[s]) \/ b[s].req = Pad
  BY DEF Decode
<1>2. \A s \in 1..n : b[s].req = who[s] /\ b[s].lo = s - 1 /\ b[s].hi = s
  BY DEF Batch
<1>3. \A k, i : <<k, i>> \in work <=>
        \/ k = "step" /\ i \in 1..n
        \/ k = "scan" /\ i \in 1..n
  BY DEF Items
<1>4. n \in Nat /\ n >= 1 /\ n <= MaxRows /\ cu \in Offsets(n)
  BY SlotAssumption DEF Offsets
<1> HIDE DEF b, work
<1>5. /\ RowsInv' /\ HomeInv' /\ StateInv'
      /\ Rows' = 1..n /\ batch' = b /\ todo' = work
  <2> HIDE DEF cu
  <2> QED
    BY <1>1, <1>2, <1>3, <1>4, CallStep DEF b
<1>6. \A k, i : Has(k, i)' <=> <<k, i>> \in work
  BY <1>5 DEF Has
<1>7. WorkInv'
  <2>1. \A item \in work :
          item[1] \in {"save", "step", "scan"} /\ item[2] \in 1..n
    BY DEF work, Items
  <2>2. \A s : <<"save", s>> \notin work /\ <<"out", s>> \notin work
    BY <1>3
  <2>3. \A s \in 1..n : <<"scan", s>> \in work
    BY <1>3
  <2>4. \A s : ~Has("save", s)' /\ ~Has("out", s)'
    BY <1>5, <2>2 DEF Has
  <2>5. \A s \in 1..n : Has("scan", s)'
    BY <1>5, <2>3 DEF Has
  <2>6. \A s \in 1..n : b[s].hi = b[s].lo + 1
    BY <1>2
  <2> QED
    BY <1>1, <1>5, <2>1, <2>4, <2>5, <2>6 DEF WorkInv, Continues
<1>8. OutputInv'
  <2>1. DOMAIN mixed' = Tokens /\ DOMAIN core' = Tokens
    BY <1>1 DEF Call
  <2>2. \A s \in 1..n : Has("step", s)' /\ Has("scan", s)'
    BY <1>3, <1>6
  <2> QED
    BY <1>5, <2>1, <2>2 DEF OutputInv
<1> QED
  BY <1>1, <1>5, <1>7, <1>8 DEF IInv

-----------------------------------------------------------------------------
(* The theorems                                                             *)

LEMMA SlotInit == Init => IInv
<1> SUFFICES ASSUME Init PROVE IInv
  OBVIOUS
<1>1. Rows = {} /\ Idle /\ todo = {}
  BY DEF Init, Rows, Idle
<1>2. RowsInv
  BY <1>1 DEF RowsInv
<1>3. HomeInv
  BY <1>1, SlotAssumption DEF Init, HomeInv
<1>4. WorkInv
  BY <1>1 DEF WorkInv, Has
<1>5. StateInv
  <2>1. \A sl \in Slots : DOMAIN ssm[sl] = 1..0 /\ DOMAIN conv[sl] = Window
    BY DEF Init
  <2>2. 0 \in 0..MaxFed
    BY SlotAssumption
  <2>3. \A r \in Requests : home[r] = NoSlot
    BY DEF Init
  <2> QED
    BY <1>1, <2>1, <2>2, <2>3 DEF StateInv, Init
<1>6. OutputInv
  BY <1>1 DEF OutputInv, Init
<1> QED
  BY <1>2, <1>3, <1>4, <1>5, <1>6 DEF IInv, Init

LEMMA SlotNext == IInv /\ [Next]_vars => IInv'
<1> SUFFICES ASSUME IInv, [Next]_vars PROVE IInv'
  OBVIOUS
<1>1. ASSUME NEW r \in Requests, Finish(r) PROVE IInv'
  BY <1>1, FinishStep
<1>2. ASSUME NEW r \in Requests, NEW sl \in Slots, Admit(r, sl) PROVE IInv'
  BY <1>2, AdmitStep
<1>3. CASE Submit
  BY <1>3, PrefillStep, DecodeStep DEF Submit
<1>4. ASSUME NEW tok \in Tokens, OutToken(tok) PROVE IInv'
  BY <1>4, OutStep
<1>5. ASSUME NEW s \in 1..MaxRows, SaveRow(s) \/ StepRow(s) \/ ScanRow(s) PROVE IInv'
  <2>1. s \in Rows
    BY <1>5 DEF SaveRow, StepRow, ScanRow, Runs, IInv, WorkInv
  <2> QED
    BY <1>5, <2>1, SaveStep, StepStep, ScanStep
<1>6. CASE UNCHANGED vars
  BY <1>6, SMTT(30) DEF vars, IInv, RowsInv, HomeInv, WorkInv, StateInv, OutputInv, Rows, Has,
     Idle, Continues, ConvPos, ScanPos, WindowIs, RecurrenceIs
<1> QED
  BY <1>1, <1>2, <1>3, <1>4, <1>5, <1>6 DEF Next

\* The invariant that says where every slot and output is holds always.
THEOREM SlotInvariant == Spec => []IInv
  BY SlotInit, SlotNext, PTL DEF Spec

\* Every reachable state is well typed: windows keep their length.
THEOREM SlotTypeCorrect == Spec => []TypeOK
<1>1. IInv => TypeOK
  BY DEF IInv, HomeInv, StateInv, OutputInv, TypeOK
<1> QED
  BY <1>1, SlotInvariant, PTL

\* The outputs of a stream do not depend on how it is cut into calls, on the
\* batches it shares or on the former contents of its slot.
THEOREM ChunkingDoesNotMatter == Spec => []ChunkingInvariant
<1>1. IInv => ChunkingInvariant
  <2> SUFFICES ASSUME IInv, Idle, NEW s \in Rows,
                      NEW tok \in batch[s].lo..(batch[s].hi - 1)
               PROVE  LET j == batch[s].from + tok - batch[s].lo + 1
                      IN  IF batch[s].req = Pad
                          THEN mixed[tok] = Zero /\ core[tok] = Zero
                          ELSE /\ mixed[tok] = ConvAt(batch[s].req, j)
                               /\ core[tok] = RecurrenceAt(batch[s].req, j)
    BY DEF ChunkingInvariant
  <2>1. tok \in Tokens /\ batch[s].lo <= tok /\ tok < batch[s].hi
    BY SlotAssumption DEF IInv, RowsInv, Tokens
  <2>2. ~Has("out", tok) /\ ~Has("step", s) /\ ~Has("scan", s)
    BY DEF Idle, Has
  <2> QED
    BY <2>1, <2>2 DEF IInv, OutputInv
<1> QED
  BY <1>1, SlotInvariant, PTL

\* Between calls every request's slot holds its stream's state and no trace
\* of another's.
THEOREM SlotsAreTheStreams == Spec => []SlotsFollowStreams
<1>1. IInv => SlotsFollowStreams
  BY DEF IInv, StateInv, WindowIs, RecurrenceIs, SlotsFollowStreams
<1> QED
  BY <1>1, SlotInvariant, PTL
=============================================================================
