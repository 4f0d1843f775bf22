--------------------------- MODULE MCRecvFraming ---------------------------
(* Small instances of RecvFraming.                                         *)
EXTENDS RecvFraming

\* A short frame that decodes or not, one that just fits the buffer, one that does not.
Short == [good |-> TRUE, len |-> 1]
Bad   == [good |-> FALSE, len |-> 1]
Full  == [good |-> TRUE, len |-> 4]
Long  == [good |-> TRUE, len |-> 5]

FourFrames == {Short, Bad, Full, Long}

\* All of up to two frames, and those of three that take the buffer round again.
SomeScripts ==
    SeqOf(FourFrames, 2) \cup
    {<<Short, Full, Short>>, <<Full, Short, Full>>, <<Short, Short, Bad>>, <<Full, Short, Long>>}
=============================================================================
