----------------------------- MODULE AllReduce -----------------------------
(***************************************************************************)
(* The capturable P2P sum all-reduce: a stage kernel and a reduce kernel   *)
(* per call and rank, whose work-groups meet the same-numbered work-groups *)
(* of the peers through flags in peer-visible regions.                     *)
(*                                                                         *)
(* An actor is one work-group of one rank.  Lane l of a work-group owns    *)
(* rank l: in a rendezvous it publishes our arrival into l's region and    *)
(* then spins on l's arrival in ours.  Each lane's store and each lane's   *)
(* successful (or abandoned) spin is a step of its own; the work between   *)
(* two rendezvous is one step taken at its end, and NoRace states that no  *)
(* other actor touches the same cells while it is under way.  The fences   *)
(* of publish_flag/observe_flag make flag accesses and the data before and *)
(* after them sequentially consistent.                                     *)
(***************************************************************************)
EXTENDS ArPartition, FiniteSets

CONSTANTS
    MaxCalls,     \* bound on the calls made by each rank
    Numel,        \* Numel[k]: elements reduced by call k
    Capacity,     \* elements a region's staging area has room for
    TwoShotMin,   \* twoshot_min_bytes, in elements
    GenMod,       \* generations and flags count modulo GenMod (2^32)
    Slots,        \* work-groups of one device that run at the same time
    InOrder,      \* the queue runs its kernels in submission order
    Blocking,     \* the host waits for a call before it makes the next
    SpinsExpire,  \* a spin may run into kSpinCap
    Mortal        \* ranks that may stop for ever

Calls == 1..MaxCalls

ASSUME SizesAssumption ==
    /\ MaxCalls \in Nat
    /\ Capacity \in Nat
    /\ TwoShotMin \in Nat
    /\ Numel \in [Calls -> 0..Capacity]
ASSUME WidthAssumption == GenMod \in Nat \ {0}
ASSUME DeviceAssumption == Slots \in Nat \ {0}
ASSUME ModeAssumption ==
    /\ InOrder \in BOOLEAN /\ Blocking \in BOOLEAN /\ SpinsExpire \in BOOLEAN
    /\ Mortal \subseteq Ranks

VARIABLES
    submitted,  \* submitted[r]: calls rank r's host has made
    scall,      \* scall[r]: call whose stage kernel rank r runs or ran last
    swait,      \* swait[r]: blocks of that stage kernel still copying
    wg,         \* wg[r][b]: work-group b of rank r's reduce kernel
    gen,        \* gen[r][b]: ArSignal.generation[b] in rank r's region
    sync,       \* sync[r][p][b][s]: ArSignal.sync of rank r, written by s
    staging,    \* staging[r][i]: the staging area of rank r's region
    out,        \* out[r][k][i]: rank r's output buffer of call k
    dead,       \* ranks that have stopped
    expired     \* ranks one of whose spins was abandoned

vars == <<submitted, scall, swait, wg, gen, sync, staging, out, dead, expired>>

-----------------------------------------------------------------------------
(* Values.  The sum is not associative, so a sum is the sequence of its     *)
(* terms in the order they were added.                                      *)

Raw(r, k)    == [raw |-> <<r, k>>, terms |-> <<>>]
SumOf(terms) == [raw |-> <<>>, terms |-> terms]
Nothing      == [raw |-> <<>>, terms |-> <<>>]

\* Mutant: every rank adds its own term first.
AccOrderSelfFirst(r) == [j \in 1..World |-> (r + j - 1) % World]

\* The rank whose term is added j-th by a work-group of rank r.
AccOrder(r) == [j \in 1..World |-> j - 1]

\* What a work-group of rank r computes for element i.
Accumulated(r, i) ==
    SumOf([j \in 1..World |-> staging[AccOrder(r)[j]][i]])

\* What every rank must obtain for every element of call k.
Sum(k) == SumOf([j \in 1..World |-> Raw(j - 1, k)])

-----------------------------------------------------------------------------
Phases == {"arrive", "mid", "depart"}

TwoShot(k) == Numel[k] >= TwoShotMin

After(p) == CASE p = "arrive" -> "reduce"
              [] p = "mid"    -> "gather"
              [] p = "depart" -> "done"

\* Mutant: the generation counts the wrong way.
IncrGenDown(g) == g - 1

IncrGen(g) == (g + 1) % GenMod

\* A work-group that enters rendezvous p of call k: every lane loads target.
Entering(r, b, k, p) ==
    [call |-> k, pc |-> p, target |-> IncrGen(gen[r][b]),
     pub |-> {}, seen |-> {}]

\* The stage kernel of call k has finished on rank r.
Staged(r, k) == scall[r] > k \/ (scall[r] = k /\ swait[r] = {})

\* Every work-group of rank r has finished call k.
Finished(r, k) ==
    \A b \in Blocks : wg[r][b].call > k
                      \/ (wg[r][b].call = k /\ wg[r][b].pc = "done")

Busy(r) == {b \in Blocks : wg[r][b].pc # "done"}

\* The elements block b writes to its rank's output in call k.
Produces(k, b) ==
    IF TwoShot(k)
    THEN {i \in Elements(Numel[k]) : \E o \in Ranks : i \in Slice(Numel[k], o, b)}
    ELSE Stripe(Numel[k], b)

-----------------------------------------------------------------------------
Init ==
    /\ submitted = [r \in Ranks |-> 0]
    /\ scall = [r \in Ranks |-> 0]
    /\ swait = [r \in Ranks |-> {}]
    /\ wg = [r \in Ranks |-> [b \in Blocks |->
                [call |-> 0, pc |-> "done", target |-> 0,
                 pub |-> {}, seen |-> {}]]]
    \* regions are zero-filled once, before the first call
    /\ gen = [r \in Ranks |-> [b \in Blocks |-> 0]]
    /\ sync = [r \in Ranks |-> [p \in Phases |-> [b \in Blocks |->
                [s \in Ranks |-> 0]]]]
    /\ staging = [r \in Ranks |-> [i \in Elements(Capacity) |-> Nothing]]
    /\ out = [r \in Ranks |-> [k \in Calls |->
                [i \in Elements(Numel[k]) |-> Nothing]]]
    /\ dead = {}
    /\ expired = {}

\* all_reduce() on the host: both kernels of the next call are enqueued.
Submit(r) ==
    /\ r \notin dead
    /\ submitted[r] < MaxCalls
    /\ Blocking => Finished(r, submitted[r])
    /\ submitted' = [submitted EXCEPT ![r] = @ + 1]
    /\ UNCHANGED <<scall, swait, wg, gen, sync, staging, out, dead, expired>>

\* The stage kernel of the next call starts.  It has no dependency of its
\* own: only an in-order queue keeps it behind the previous reduce kernel.
\* (Stage kernels start one after the other on either queue: an out-of-order
\* queue could overlap them too, which the model leaves out.)
StartStage(r) ==
    LET k == scall[r] + 1 IN
    /\ r \notin dead
    /\ k <= submitted[r]
    /\ swait[r] = {}
    /\ InOrder => Finished(r, scall[r])
    /\ scall' = [scall EXCEPT ![r] = k]
    /\ swait' = [swait EXCEPT ![r] = Blocks]
    /\ UNCHANGED <<submitted, wg, gen, sync, staging, out, dead, expired>>

\* Work-group b of the stage kernel has copied its stripe of the input.
Stage(r, b) ==
    LET k == scall[r] IN
    /\ r \notin dead
    /\ b \in swait[r]
    /\ staging' = [staging EXCEPT ![r] = [i \in Elements(Capacity) |->
                     IF i \in Stripe(Numel[k], b) THEN Raw(r, k) ELSE @[i]]]
    /\ swait' = [swait EXCEPT ![r] = @ \ {b}]
    /\ UNCHANGED <<submitted, scall, wg, gen, sync, out, dead, expired>>

\* Mutant: the reduce kernel does not depend on the stage kernel.
ReadyUnstaged(r, b) ==
    LET k == wg[r][b].call + 1 IN
    /\ k <= submitted[r]
    /\ k <= scall[r]
    /\ Finished(r, wg[r][b].call)
    /\ Cardinality(Busy(r)) < Slots

\* depends_on(staged).  The reduce kernel of one call follows that of the
\* call before; at most Slots work-groups are resident.
ReadyToStart(r, b) ==
    LET k == wg[r][b].call + 1 IN
    /\ k <= submitted[r]
    /\ Staged(r, k)
    /\ Finished(r, wg[r][b].call)
    /\ Cardinality(Busy(r)) < Slots

\* Work-group b starts and enters the arrive rendezvous at once.
Start(r, b) ==
    /\ r \notin dead
    /\ wg[r][b].pc = "done"
    /\ ReadyToStart(r, b)
    /\ wg' = [wg EXCEPT ![r][b] =
                Entering(r, b, wg[r][b].call + 1, "arrive")]
    /\ UNCHANGED <<submitted, scall, swait, gen, sync, staging, out, dead,
                   expired>>

\* Mutant: the lane stores its arrival in the slot of rank l, not its own.
PublishWrongSlot(r, b, l) ==
    LET w == wg[r][b] IN
    /\ r \notin dead
    /\ w.pc \in Phases
    /\ l \notin w.pub
    /\ sync' = [sync EXCEPT ![l][w.pc][b][l] = w.target]
    /\ wg' = [wg EXCEPT ![r][b].pub = @ \cup {l}]
    /\ UNCHANGED <<submitted, scall, swait, gen, staging, out, dead, expired>>

\* Lane l: publish_flag(&regions.sig[l]->sync[phase][block][rank], target).
Publish(r, b, l) ==
    LET w == wg[r][b] IN
    /\ r \notin dead
    /\ w.pc \in Phases
    /\ l \notin w.pub
    /\ sync' = [sync EXCEPT ![l][w.pc][b][r] = w.target]
    /\ wg' = [wg EXCEPT ![r][b].pub = @ \cup {l}]
    /\ UNCHANGED <<submitted, scall, swait, gen, staging, out, dead, expired>>

\* Mutants: nobody waits in the last rendezvous; nobody waits half-way.
BehindNotDepart(r, b, l) ==
    wg[r][b].pc # "depart" /\ sync[r][wg[r][b].pc][b][l] < wg[r][b].target
BehindNotMid(r, b, l) ==
    wg[r][b].pc # "mid" /\ sync[r][wg[r][b].pc][b][l] < wg[r][b].target

\* observe_flag(mine) < target: lane l's spin goes on.
Behind(r, b, l) ==
    sync[r][wg[r][b].pc][b][l] < wg[r][b].target

\* Lane l is through.  With no trailing barrier (depart) lane 0 goes on to
\* store the new generation while other lanes may still be spinning.
Through(r, b, l) ==
    /\ wg' = [wg EXCEPT ![r][b].seen = @ \cup {l}]
    /\ gen' = IF wg[r][b].pc = "depart" /\ l = 0
              THEN [gen EXCEPT ![r][b] = wg[r][b].target]
              ELSE gen

\* Lane l spins: it has published and has not come through yet.
Spinning(r, b, l) ==
    /\ r \notin dead
    /\ wg[r][b].pc \in Phases
    /\ l \in wg[r][b].pub \ wg[r][b].seen

Observe(r, b, l) ==
    /\ Spinning(r, b, l)
    /\ ~Behind(r, b, l)
    /\ Through(r, b, l)
    /\ UNCHANGED <<submitted, scall, swait, sync, staging, out, dead, expired>>

\* Mutant: the spin has no cap.
ExpireNever(r, b, l) == FALSE

\* ++spins reaches kSpinCap: lane l goes on without its peer.
Expire(r, b, l) ==
    /\ SpinsExpire
    /\ Spinning(r, b, l)
    /\ Behind(r, b, l)
    /\ Through(r, b, l)
    /\ expired' = expired \cup {r}
    /\ UNCHANGED <<submitted, scall, swait, sync, staging, out, dead>>

\* All lanes are through.  Behind the trailing barrier of arrive and mid,
\* lane 0 stores the new generation.
EndRendezvous(r, b) ==
    LET w == wg[r][b] IN
    /\ r \notin dead
    /\ w.pc \in Phases
    /\ w.seen = Ranks
    /\ wg' = [wg EXCEPT ![r][b].pc = After(w.pc)]
    /\ gen' = IF w.pc = "depart" THEN gen
              ELSE [gen EXCEPT ![r][b] = w.target]
    /\ UNCHANGED <<submitted, scall, swait, sync, staging, out, dead, expired>>

\* One-shot: sum my stripe over all staging areas, then depart.
ReduceOneShot(r, b) ==
    LET k == wg[r][b].call IN
    /\ r \notin dead
    /\ wg[r][b].pc = "reduce"
    /\ ~TwoShot(k)
    /\ out' = [out EXCEPT ![r][k] = [i \in Elements(Numel[k]) |->
                 IF i \in Produces(k, b) THEN Accumulated(r, i) ELSE @[i]]]
    /\ wg' = [wg EXCEPT ![r][b] = Entering(r, b, k, "depart")]
    /\ UNCHANGED <<submitted, scall, swait, gen, sync, staging, dead, expired>>

\* Two-shot reduce-scatter: sum my slice of my own chunk into my staging.
ReduceScatter(r, b) ==
    LET k == wg[r][b].call IN
    /\ r \notin dead
    /\ wg[r][b].pc = "reduce"
    /\ TwoShot(k)
    /\ staging' = [staging EXCEPT ![r] = [i \in Elements(Capacity) |->
                     IF i \in Slice(Numel[k], r, b) THEN Accumulated(r, i)
                     ELSE @[i]]]
    /\ wg' = [wg EXCEPT ![r][b] = Entering(r, b, k, "mid")]
    /\ UNCHANGED <<submitted, scall, swait, gen, sync, out, dead, expired>>

\* Two-shot all-gather: copy every owner's slice for this block, then depart.
Gather(r, b) ==
    LET k == wg[r][b].call IN
    /\ r \notin dead
    /\ wg[r][b].pc = "gather"
    /\ out' = [out EXCEPT ![r][k] = [i \in Elements(Numel[k]) |->
                 IF i \in Produces(k, b) THEN staging[Owner(Numel[k], i)][i]
                 ELSE @[i]]]
    /\ wg' = [wg EXCEPT ![r][b] = Entering(r, b, k, "depart")]
    /\ UNCHANGED <<submitted, scall, swait, gen, sync, staging, dead, expired>>

\* A rank stops for ever: its process is gone or its device is lost.
Die(r) ==
    /\ r \in Mortal \ dead
    /\ dead' = dead \cup {r}
    /\ UNCHANGED <<submitted, scall, swait, wg, gen, sync, staging, out, expired>>

GroupStep(r, b) ==
    \/ Stage(r, b)
    \/ Start(r, b)
    \/ \E l \in Ranks : Publish(r, b, l) \/ Observe(r, b, l) \/ Expire(r, b, l)
    \/ EndRendezvous(r, b)
    \/ ReduceOneShot(r, b)
    \/ ReduceScatter(r, b)
    \/ Gather(r, b)

Next ==
    \E r \in Ranks :
        \/ Submit(r)
        \/ StartStage(r)
        \/ Die(r)
        \/ \E b \in Blocks : GroupStep(r, b)

Spec == Init /\ [][Next]_vars

(* Fairness.  A device runs what is ready: the queue starts a stage kernel   *)
(* that may start, and a work-group with a step to take takes one (a spin     *)
(* that is never answered does count up to kSpinCap).  Steps of a work-group  *)
(* never repeat, so this lets none of its lanes starve.  The host owes        *)
(* nothing: Submit is not fair.                                               *)
DeviceFairness ==
    \A r \in Ranks :
        /\ WF_vars(StartStage(r))
        /\ \A b \in Blocks : WF_vars(GroupStep(r, b))

FairSpec == Spec /\ DeviceFairness
-----------------------------------------------------------------------------
(* Properties                                                               *)

WgState == [call : 0..MaxCalls,
            pc : Phases \cup {"reduce", "gather", "done"},
            target : 0..(GenMod - 1),
            pub : SUBSET Ranks, seen : SUBSET Ranks]

\* Type invariant.
TypeOK ==
    /\ submitted \in [Ranks -> 0..MaxCalls]
    /\ scall \in [Ranks -> 0..MaxCalls]
    /\ swait \in [Ranks -> SUBSET Blocks]
    /\ wg \in [Ranks -> [Blocks -> WgState]]
    /\ gen \in [Ranks -> [Blocks -> 0..(GenMod - 1)]]
    /\ sync \in [Ranks -> [Phases -> [Blocks -> [Ranks -> 0..(GenMod - 1)]]]]
    /\ DOMAIN staging = Ranks
    /\ \A r \in Ranks : DOMAIN staging[r] = Elements(Capacity)
    /\ DOMAIN out = Ranks
    /\ \A r \in Ranks : DOMAIN out[r] = Calls
    /\ \A r \in Ranks, k \in Calls : DOMAIN out[r][k] = Elements(Numel[k])
    /\ dead \subseteq Mortal
    /\ expired \subseteq Ranks

\* The elements of rank o's staging area that work-group b of rank r is
\* reading at the moment.
Reading(r, b, o) ==
    LET k == wg[r][b].call IN
    IF wg[r][b].pc = "reduce" /\ ~TwoShot(k) THEN Stripe(Numel[k], b)
    ELSE IF wg[r][b].pc = "reduce" THEN Slice(Numel[k], r, b)
    ELSE IF wg[r][b].pc = "gather" THEN Slice(Numel[k], o, b)
    ELSE {}

\* The elements of its own staging area that work-group b of rank r's reduce
\* kernel is overwriting at the moment, and those its stage kernel is.
Writing(r, b) ==
    LET k == wg[r][b].call IN
    IF wg[r][b].pc = "reduce" /\ TwoShot(k) THEN Slice(Numel[k], r, b) ELSE {}

StageWriting(r) ==
    {i \in Elements(Capacity) :
        \E b \in swait[r] : i \in Stripe(Numel[scall[r]], b)}

\* No data race on staging memory: while a stage kernel overwrites elements
\* of its rank's staging area no work-group of any rank reads or writes them,
\* and the slice a work-group reduces in place is read by nobody else
\* ("nobody else reads chunk `rank` in this phase, so the overwrite is safe").
NoRace ==
    /\ \A r, s \in Ranks : \A b \in Blocks :
          StageWriting(r) \cap Reading(s, b, r) = {}
    /\ \A r \in Ranks : \A b \in Blocks :
          StageWriting(r) \cap Writing(r, b) = {}
    /\ \A r, s \in Ranks : \A b, c \in Blocks :
          <<r, b>> # <<s, c>> => Writing(r, b) \cap Reading(s, c, r) = {}

\* Bitwise consistency: whatever a rank has written to its output is the sum
\* of the inputs of that very call, added in rank order, so all replicas hold
\* the same bits; and a finished call left no element out.
OutputExact ==
    \A r \in Ranks, k \in Calls : \A i \in Elements(Numel[k]) :
        \/ out[r][k][i] = Sum(k)
        \/ out[r][k][i] = Nothing /\ ~Finished(r, k)

\* Rendezvous that work-group b of rank r has behind it in its current call.
Passed(r, b) ==
    LET w == wg[r][b] IN
    CASE w.pc = "arrive" -> 0
      [] w.pc \in {"reduce", "mid"} -> 1
      [] w.pc = "gather" -> 2
      [] w.pc = "depart" -> IF TwoShot(w.call) THEN 2 ELSE 1
      [] w.pc = "done" -> IF TwoShot(w.call) THEN 3 ELSE 2

\* Same-numbered work-groups stay within one rendezvous of each other: one
\* that is ahead waits for the other's next arrival.
Abreast ==
    \A r, s \in Ranks : \A b \in Blocks :
        wg[r][b].call = wg[s][b].call /\ wg[r][b].pc # "done"
        => Passed(s, b) - Passed(r, b) <= 1

\* Every call that every host makes is completed, if every device lives.
AllComplete ==
    \A k \in Calls :
        (\A r \in Ranks : submitted[r] >= k) ~> (\A r \in Ranks : Finished(r, k))

\* Bounded spins: a call made on a rank that lives completes there, whatever
\* the peers do ("degrades ... instead of hanging the device").
NoHang ==
    \A r \in Ranks, k \in Calls :
        submitted[r] >= k ~> (Finished(r, k) \/ r \in dead)

\* The circumstances under which the protocol keeps its promises: kernels run
\* in submission order, no spin is given up, and no generation ever wraps.
Regular == InOrder /\ ~SpinsExpire /\ 3 * MaxCalls < GenMod

(* Refinement: what the collective promises, AllReduceSpec.                 *)
EnteredCalls == [r \in Ranks |-> IF swait[r] = {} THEN scall[r] ELSE scall[r] - 1]

LeftCalls == [r \in Ranks |->
    CHOOSE k \in 0..MaxCalls :
        Finished(r, k) /\ ~Finished(r, k + 1)]

CallElements(k) == Elements(Numel[k])

Abstract == INSTANCE AllReduceSpec WITH
    Wanted <- CallElements, entered <- EnteredCalls, left <- LeftCalls,
    output <- out

\* Nothing of a call is delivered before every rank has contributed to it,
\* every delivered element is the call's exact sum, and no rank goes past a
\* call before the whole result has been delivered on every rank.
ImplementsCollective == Abstract!Spec
=============================================================================
