----------------------------- MODULE FrameStream -----------------------------
(***************************************************************************)
(* What the receive path promises the server: of the frames a client sends *)
(* over one connection, those that decode are handed over whole, each      *)
(* once, in the order they were sent, and none after one that does not.    *)
(***************************************************************************)
EXTENDS Integers, Sequences

CONSTANT Payloads

VARIABLES
    sent,     \* the frames sent over this connection, in order: [good, payload]
    handed    \* the payloads handed over

vars == <<sent, handed>>

Init == sent = <<>> /\ handed = <<>>

\* Another connection begins, with a stream of its own.
Open ==
    /\ sent' \in Seq([good : BOOLEAN, payload : Payloads])
    /\ handed' = <<>>

Hand ==
    /\ Len(handed) < Len(sent)
    /\ sent[Len(handed) + 1].good
    /\ handed' = Append(handed, sent[Len(handed) + 1].payload)
    /\ UNCHANGED sent

Next == Open \/ Hand

Spec == Init /\ [][Next]_vars
=============================================================================
