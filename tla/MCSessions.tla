----------------------------- MODULE MCSessions -----------------------------
(* Instances of Sessions for TLC.                                          *)
EXTENDS Sessions, TLC

CONSTANTS first, second, t1, t2, g1, g2

OneLogin == {first}
TwoTokens == {t1, t2}
TwoLoops == {g1, g2}
Symmetric == Permutations(TwoTokens) \cup Permutations(TwoLoops)
=============================================================================
