----------------------------- MODULE MCLFQueue -----------------------------
(* Small instances of LFQueue.                                             *)
EXTENDS LFQueue, TLC

CONSTANTS p1, p2, n1, n2, n3, n4

OneProducer  == {p1}
TwoProducers == {p1, p2}
ThreeNodes   == {n1, n2, n3}
FourNodes    == {n1, n2, n3, n4}

Symmetry == Permutations({n2, n3, n4}) \cup Permutations(TwoProducers)
=============================================================================
