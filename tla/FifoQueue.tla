------------------------------ MODULE FifoQueue ------------------------------
(***************************************************************************)
(* What a queue promises its users: values come out once each, in the      *)
(* order in which they were put in, and an attempt to take one fails only  *)
(* when there is none.                                                     *)
(***************************************************************************)
EXTENDS Sequences

CONSTANT Values

VARIABLES
    queue,      \* the values put in and not taken yet
    taken       \* the values taken, in the order in which they came out

Init == queue = <<>> /\ taken = <<>>

Put(v) == queue' = Append(queue, v) /\ taken' = taken

Take ==
    /\ queue # <<>>
    /\ taken' = Append(taken, Head(queue))
    /\ queue' = Tail(queue)

Next == (\E v \in Values : Put(v)) \/ Take

Spec == Init /\ [][Next]_<<queue, taken>>
=============================================================================
