---------------------------- MODULE MCNetSession ----------------------------
(* Small instances of NetSession.                                          *)
EXTENDS NetSession, TLC

CONSTANTS acc, w1, w2, c1, c2

TwoWorkers == {w1, w2}
OneCaller  == {c1}
TwoCallers == {c1, c2}

Symmetry == Permutations(TwoWorkers) \cup Permutations(TwoCallers)
=============================================================================
