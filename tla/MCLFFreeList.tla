---------------------------- MODULE MCLFFreeList ----------------------------
(* Small instances of LFFreeList.                                          *)
EXTENDS LFFreeList, TLC

CONSTANTS t1, t2, t3

ThreeThreads == {t1, t2, t3}

Symmetry == Permutations(ThreeThreads)
=============================================================================
