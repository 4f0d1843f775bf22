--------------------------- MODULE SessionEvents ---------------------------
(***************************************************************************)
(* What NetworkLibraryWan promises the server built on it, whatever its    *)
(* threads do: of each session, by its id, the server is told that it      *)
(* joined, then what it received, one callback at a time, and in the end   *)
(* once that it left.  A session whose set-up failed may leave without     *)
(* having joined.  NetSession implements this; ChatServer starts from it.  *)
(***************************************************************************)
CONSTANT Sessions

VARIABLES
    joined,      \* the ids OnClientJoin was called with
    receiving,   \* the ids OnRecv is being called with
    gone         \* the ids OnClientLeave was called with

vars == <<joined, receiving, gone>>

Init == joined = {} /\ receiving = {} /\ gone = {}

Join(s) ==
    /\ s \notin joined \cup gone
    /\ joined' = joined \cup {s}
    /\ UNCHANGED <<receiving, gone>>

Receive(s) ==
    /\ s \in joined \ (receiving \cup gone)
    /\ receiving' = receiving \cup {s}
    /\ UNCHANGED <<joined, gone>>

Received(s) ==
    /\ s \in receiving
    /\ receiving' = receiving \ {s}
    /\ UNCHANGED <<joined, gone>>

Leave(s) ==
    /\ s \notin receiving \cup gone
    /\ gone' = gone \cup {s}
    /\ UNCHANGED <<joined, receiving>>

Next == \E s \in Sessions : Join(s) \/ Receive(s) \/ Received(s) \/ Leave(s)

Spec == Init /\ [][Next]_vars
=============================================================================
