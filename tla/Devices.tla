------------------------------- MODULE Devices -------------------------------
(***************************************************************************)
(* Which platform's GPUs the library runs on: gpu_devices and              *)
(* make_gpu_queue of the runtime, and all_reduce_sum's own choice.  A      *)
(* platform has GPUs of Intel and of others; the same devices may be on    *)
(* several platforms.                                                      *)
(***************************************************************************)
EXTENDS Integers, Sequences

Platforms == [intel : 0..2, other : 0..1, level_zero : BOOLEAN]

\* A count of platform p, none for no platform.
Intel(ps, p) == IF p = 0 THEN 0 ELSE ps[p].intel
AllGpus(ps, p) == IF p = 0 THEN 0 ELSE ps[p].intel + ps[p].other
LevelZero(ps, p) == p # 0 /\ ps[p].level_zero

\* Mutant: equals are replaced whatever was selected.
ReplacesAlways(ps, p, chosen) ==
    Intel(ps, p) > Intel(ps, chosen)
    \/ (Intel(ps, p) = Intel(ps, chosen) /\ LevelZero(ps, p))

\* Platform p takes the place of the one chosen so far.
Replaces(ps, p, chosen) ==
    Intel(ps, p) > Intel(ps, chosen)
    \/ (Intel(ps, p) = Intel(ps, chosen) /\ LevelZero(ps, p) /\ ~LevelZero(ps, chosen))

\* The platform whose devices are returned, 0 for none.
gpu_devices(ps) ==
    LET chosen[n \in 0..Len(ps)] ==
            IF n = 0 THEN 0
            ELSE IF Replaces(ps, n, chosen[n - 1]) THEN n ELSE chosen[n - 1]
    IN  chosen[Len(ps)]

\* The queue's device: its platform and index; it throws when there is none.
Thrown == <<0, 0>>
make_gpu_queue(ps, index) ==
    LET p == gpu_devices(ps)
        n == Intel(ps, p)
    IN  IF n = 0 THEN Thrown ELSE <<p, IF index < n - 1 THEN index ELSE n - 1>>

\* all_reduce_sum: GPUs of any vendor, the first platform with the most.
RingPlatform(ps) ==
    LET chosen[n \in 0..Len(ps)] ==
            IF n = 0 THEN 0
            ELSE IF AllGpus(ps, n) > AllGpus(ps, chosen[n - 1]) THEN n ELSE chosen[n - 1]
    IN  chosen[Len(ps)]
=============================================================================
