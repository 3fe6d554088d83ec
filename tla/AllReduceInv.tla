---------------------------- MODULE AllReduceInv ----------------------------
(***************************************************************************)
(* The inductive invariant behind NoRace, OutputExact and Abreast.  It     *)
(* counts, for every work-group, the rendezvous completed and announced    *)
(* since the beginning; flags never promise more than was announced, so    *)
(* counts of peers differ by one at most, and equal counts mean the same   *)
(* place in the same call.                                                 *)
(***************************************************************************)
EXTENDS AllReduce
InRendezvous(r, b) == wg[r][b].pc \in Phases

\* Rendezvous that work-group b of rank r has completed since the beginning.
Completed(r, b) ==
    IF InRendezvous(r, b) THEN wg[r][b].target - 1 ELSE gen[r][b]

\* Rendezvous at which it has announced itself to rank s.
Announced(r, b, s) ==
    IF InRendezvous(r, b) /\ s \in wg[r][b].pub
    THEN Completed(r, b) + 1 ELSE Completed(r, b)

\* Where that leaves it: the call, and the rendezvous behind it in that call.
PhaseCount(k) == IF TwoShot(k) THEN 3 ELSE 2

Position(r, b) ==
    IF wg[r][b].pc = "done" THEN <<wg[r][b].call + 1, 0>>
    ELSE <<wg[r][b].call, Passed(r, b)>>

NextPosition(p) ==
    IF p[2] + 1 = PhaseCount(p[1]) THEN <<p[1] + 1, 0>> ELSE <<p[1], p[2] + 1>>

\* One work-group on its own.
GroupOK(r, b) ==
    LET w == wg[r][b] IN
    /\ w.pc \in Phases => w.seen \subseteq w.pub
    /\ w.pc \in {"arrive", "mid"} => w.target = gen[r][b] + 1
    /\ w.pc = "depart" =>
          w.target = IF 0 \in w.seen THEN gen[r][b] ELSE gen[r][b] + 1
    /\ w.pc \in {"mid", "gather"} => TwoShot(w.call)
    /\ w.pc # "done" => w.call >= 1
    /\ Completed(r, b) <= 3 * (Position(r, b)[1] - 1) + Position(r, b)[2]

GroupInv == \A r \in Ranks, b \in Blocks : GroupOK(r, b)

\* A flag never promises more than its writer has announced, and a lane that
\* is through has been answered.
FlagInv ==
    \A r, s \in Ranks, b \in Blocks :
        /\ \A p \in Phases : sync[r][p][b][s] <= Announced(s, b, r)
        /\ InRendezvous(r, b) /\ s \in wg[r][b].seen
              => Completed(r, b) < Announced(s, b, r)
        /\ Completed(r, b) <= Announced(s, b, r)

\* Equal counts mean equal positions, and one more means the next position.
AlignInv ==
    \A r, s \in Ranks, b \in Blocks :
        /\ Completed(r, b) = Completed(s, b) => Position(r, b) = Position(s, b)
        /\ Completed(r, b) = Completed(s, b) + 1
              => Position(r, b) = NextPosition(Position(s, b))

\* The kernels of one rank follow each other.
KernelInv ==
    \A r \in Ranks, b \in Blocks :
        LET w == wg[r][b] IN
        /\ scall[r] <= submitted[r]
        /\ w.call <= scall[r] /\ scall[r] <= w.call + 1
        /\ w.call < scall[r] => w.pc = "done"
        /\ swait[r] # {} => w.call < scall[r]

\* What a rank's staging area holds: its input of the call being staged or
\* reduced, or the sum where its own work-groups have reduced in place.
Reduced(r, b, k) ==
    /\ TwoShot(k)
    /\ wg[r][b].call = k
    /\ wg[r][b].pc \in {"mid", "gather", "depart", "done"}

StagingInv ==
    \A r \in Ranks : \A b \in Blocks \ swait[r] : scall[r] >= 1 =>
        \A i \in Stripe(Numel[scall[r]], b) :
            staging[r][i] =
              IF \E c \in Blocks : /\ Reduced(r, c, scall[r])
                                   /\ i \in Slice(Numel[scall[r]], r, c)
              THEN Sum(scall[r]) ELSE Raw(r, scall[r])

\* What an output holds.
Delivered(r, b, k) ==
    \/ wg[r][b].call > k
    \/ wg[r][b].call = k /\ wg[r][b].pc \in {"depart", "done"}

OutputInv ==
    \A r \in Ranks, b \in Blocks, k \in Calls : \A i \in Produces(k, b) :
        out[r][k][i] = IF Delivered(r, b, k) THEN Sum(k) ELSE Nothing

ProtocolInv == TypeOK /\ GroupInv /\ FlagInv /\ AlignInv /\ KernelInv
IInv == ProtocolInv /\ StagingInv /\ OutputInv
=============================================================================
