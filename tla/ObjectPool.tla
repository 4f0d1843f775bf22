----------------------------- MODULE ObjectPool -----------------------------
(***************************************************************************)
(* What a memory pool promises its users: an object handed out belongs to  *)
(* the caller alone until it is given back.                                *)
(***************************************************************************)
CONSTANT Objects    \* everything the pool may ever hand out

VARIABLE out        \* the objects handed out and not yet given back

Init == out = {}

Alloc(o) == o \notin out /\ out' = out \cup {o}
Free(o)  == o \in out /\ out' = out \ {o}

Next == \E o \in Objects : Alloc(o) \/ Free(o)

Spec == Init /\ [][Next]_out
=============================================================================
