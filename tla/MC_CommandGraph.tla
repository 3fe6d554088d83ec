-------------------------- MODULE MC_CommandGraph --------------------------
(* Two handles over one queue; handles are interchangeable, and so are        *)
(* kernels.                                                                  *)
EXTENDS CommandGraph, TLC

Alike == Permutations(Handles) \cup Permutations(Kernels)
=============================================================================
