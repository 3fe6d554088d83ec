---------------------------- MODULE MC_PagedCache ----------------------------
(* Instances of PagedCache for TLC.                                           *)
EXTENDS PagedCacheInv, TLC

Alike == Permutations(Requests)

\* A layer with a window of two keys, and one without.
Both == {1, -1}
=============================================================================
