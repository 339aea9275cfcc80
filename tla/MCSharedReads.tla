--------------------------- MODULE MCSharedReads ---------------------------
(* Two slaves whose reads have a short and a long time-out.                *)
EXTENDS SharedReads, TLC

CONSTANTS s1, s2

TwoSlaves == {s1, s2}
ShortAndLong == {1, 2}
Symmetric == Permutations(TwoSlaves)
=============================================================================
