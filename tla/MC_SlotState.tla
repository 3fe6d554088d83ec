---------------------------- MODULE MC_SlotState ----------------------------
(* Instances of SlotState for TLC.                                            *)
EXTENDS SlotStateInv, TLC

Alike == Permutations(Requests)
=============================================================================
