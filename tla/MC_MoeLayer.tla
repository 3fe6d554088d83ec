---------------------------- MODULE MC_MoeLayer ----------------------------
(* Instances of MoeLayer for TLC: two tokens of two choices among two         *)
(* experts.                                                                  *)
EXTENDS MoeLayer

\* Every routing with ids of this rank or ids that live elsewhere (-1), the
\* last pair's choice cut by one to keep the instance small.
AllInputs == {f \in [Pairs -> -1..(NExperts - 1)] : f[3] # 1}

\* Pair i of token 0, 0, 1, 1 is routed to a, b, c, d.
Route(a, b, c, d) ==
    [p \in Pairs |-> CASE p = 0 -> a [] p = 1 -> b [] p = 2 -> c [] p = 3 -> d]

\* Spread out; skewed to the last expert, its second tile ragged; elsewhere
\* (ids -1 and NExperts); the same expert twice for one token; all elsewhere.
MixedInputs == {Route(1, 0, 0, 1), Route(1, 1, 0, 1), Route(-1, 0, NExperts, 0),
                Route(0, 0, 1, -1), Route(-1, -1, NExperts, -1)}

Accepted == {TRUE}
BothShapes == {TRUE, FALSE}
=============================================================================
