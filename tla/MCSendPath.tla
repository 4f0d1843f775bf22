----------------------------- MODULE MCSendPath -----------------------------
(* Small instances of SendPath.                                            *)
EXTENDS SendPath, TLC

CONSTANTS s1, s2, m1, m2, m3, m4, w1, w2

TwoWorkers   == {w1, w2}
TwoSessions  == {s1, s2}
FourMessages == {m1, m2, m3, m4}

Symmetry == Permutations(TwoSessions) \cup Permutations(FourMessages) \cup Permutations(TwoWorkers)
=============================================================================
