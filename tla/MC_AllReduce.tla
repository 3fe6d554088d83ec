---------------------------- MODULE MC_AllReduce ----------------------------
(* Instances of AllReduce for TLC.                                           *)
EXTENDS AllReduceInv, TLC, Sequences

\* A two-shot call of four elements followed by a one-shot call of two.
SizesMixed == <<4, 2>>

\* A one-shot call of one element, then a two-shot call with a ragged chunk.
SizesRagged == <<1, 3>>

SizesOne == <<4>>
SizesTwo == <<3, 1>>

\* Five one-shot calls of one element: enough rendezvous to go round GenMod.
SizesMany == <<1, 1, 1, 1, 1>>

LastRank == {World - 1}
=============================================================================
