------------------------------ MODULE SendPath ------------------------------
(***************************************************************************)
(* The life of a CMessage.  A worker makes one for each frame it receives  *)
(* and passes it to the update thread; the update thread makes one for     *)
(* each response, encodes it in place and queues the same message to       *)
(* several sessions; the kernel reads it out of the send queues of those   *)
(* sessions; SendComplete, or the release of the session, takes it from    *)
(* the queue.  Whoever gives up the last reference puts it back into the   *)
(* pool, from where it may come out as another message at once.            *)
(*                                                                         *)
(* SendBuffer and m_MsgQ are FIFO queues (LFQueue implements them), the    *)
(* pool is ObjectPool (LFFreeList implements it).  SessionReleaseCheck is  *)
(* one step, the claim of bIsSend is one step, and a slot is used by one   *)
(* connection: NetSession takes the first two apart and uses slots again.  *)
(***************************************************************************)
EXTENDS Integers, Sequences, FiniteSets

CONSTANTS
    Sessions,      \* connected sessions
    Messages,      \* the CMessages the pool may hand out
    Workers,       \* the worker threads
    Update,        \* the update thread
    Null,          \* nullptr
    Batch,         \* how many messages one WSASend takes: 100 in the code
    MaxReceives    \* bound: frames received, of all sessions

ASSUME ThreadsOK ==
    /\ Update \notin Workers
    /\ Null \notin Messages \cup Sessions
    /\ IsFiniteSet(Workers) /\ IsFiniteSet(Sessions)
    /\ Batch \in Nat \ {0} /\ MaxReceives \in Nat

Threads == Workers \cup {Update}

VARIABLES
    out,        \* the messages the pool has handed out
    ref,        \* m_lRefCount of each message
    stamp,      \* which response a message was encoded as; 0 before m_bIsEncoded is set
    queue,      \* SendBuffer of each session
    isSend,     \* bIsSend
    count,      \* dwPacketCount
    flight,     \* the messages the outstanding WSASend reads; <<>> when there is none
    recv,       \* whether a WSARecv is outstanding
    io,         \* lIOCount
    released,   \* bIsReleased
    up,         \* whether the connection still works
    inbox,      \* the messages in m_MsgQ
    received,   \* how many frames were received
    served,     \* how many of them the update thread has taken
    pc,         \* where each thread is
    at,         \* pSession of each thread
    request,    \* the received message it works on
    response,   \* the message it made and sends
    parcel,     \* a reference raised for Enqueue, or taken by Dequeue
    to,         \* the sessions the update thread has still to send to
    unsent      \* history: the responses queued to each session and not sent yet, in order

pool    == <<out, ref, stamp>>
sending == <<queue, isSend, count, flight>>
session == <<recv, io, released, up>>
locals  == <<at, request, response, parcel, to>>
vars    == <<pool, sending, session, inbox, received, served, pc, locals, unsent>>

MessagePool == INSTANCE ObjectPool WITH Objects <- Messages

\* Every session is connected and has its first receive outstanding.
Init ==
    /\ out = {} /\ ref = [m \in Messages |-> 0] /\ stamp = [m \in Messages |-> 0]
    /\ queue = [s \in Sessions |-> <<>>] /\ isSend = [s \in Sessions |-> FALSE]
    /\ count = [s \in Sessions |-> 0] /\ flight = [s \in Sessions |-> <<>>]
    /\ recv = [s \in Sessions |-> TRUE] /\ io = [s \in Sessions |-> 1]
    /\ released = [s \in Sessions |-> FALSE] /\ up = [s \in Sessions |-> TRUE]
    /\ inbox = <<>> /\ received = 0 /\ served = 0
    /\ pc = [t \in Threads |-> "idle"] /\ at = [t \in Threads |-> Null]
    /\ request = [t \in Threads |-> Null] /\ response = [t \in Threads |-> Null]
    /\ parcel = [t \in Threads |-> Null] /\ to = {}
    /\ unsent = [s \in Sessions |-> <<>>]

Goto(t, from, dest) == pc[t] = from /\ pc' = [pc EXCEPT ![t] = dest]

-----------------------------------------------------------------------------
(* CMessage.                                                               *)

\* Alloc: from the pool, Clear, one reference.
Alloc(m) ==
    /\ MessagePool!Alloc(m)
    /\ ref' = [ref EXCEPT ![m] = 1]
    /\ stamp' = [stamp EXCEPT ![m] = 0]

AddRef(m) == ref' = [ref EXCEPT ![m] = @ + 1] /\ UNCHANGED <<out, stamp>>

\* Whoever brings the count to zero puts the message back; what it holds then is lost.
SubRef(m) ==
    /\ ref' = [ref EXCEPT ![m] = @ - 1]
    /\ IF ref[m] = 1
       THEN MessagePool!Free(m) /\ stamp' = [stamp EXCEPT ![m] = 0]
       ELSE UNCHANGED <<out, stamp>>

-----------------------------------------------------------------------------
(* A received frame: RecvComplete, OnRecv, PostRecv.                       *)

\* A worker takes the completion of a receive and makes a message of the frame.
Receive(w, s) ==
    /\ Goto(w, "idle", "onrecv")
    /\ recv[s] /\ up[s] /\ received < MaxReceives
    /\ recv' = [recv EXCEPT ![s] = FALSE]
    /\ received' = received + 1
    /\ at' = [at EXCEPT ![w] = s]
    /\ \E m \in Messages : Alloc(m) /\ request' = [request EXCEPT ![w] = m]
    /\ UNCHANGED <<sending, io, released, up, inbox, served, response, parcel, to, unsent>>

\* Make_Message_Packet raises the count for the entry in m_MsgQ; nobody else knows of the
\* message before it is there.
OnRecv(w) ==
    /\ Goto(w, "onrecv", "forget")
    /\ AddRef(request[w])
    /\ inbox' = Append(inbox, request[w])
    /\ UNCHANGED <<sending, session, received, served, locals, unsent>>

Forget(w) ==
    /\ Goto(w, "forget", "repost")
    /\ SubRef(request[w])
    /\ request' = [request EXCEPT ![w] = Null]
    /\ UNCHANGED <<sending, session, inbox, received, served, at, response, parcel, to, unsent>>

\* PostRecv and the decrement after it: the new receive takes over the reference of the one
\* that completed, unless the connection is dead and WSARecv fails.
PostRecv(w) ==
    /\ LET s == at[w]
       IN  /\ Goto(w, "repost", IF up[s] THEN "idle" ELSE "leave")
           /\ recv' = [recv EXCEPT ![s] = up[s]]
           /\ at' = IF up[s] THEN [at EXCEPT ![w] = Null] ELSE at
    /\ UNCHANGED <<pool, sending, io, released, up, inbox, received, served,
                   request, response, parcel, to, unsent>>

-----------------------------------------------------------------------------
(* The update thread: CompletePacket and the response it sends.            *)

TakeRequest ==
    /\ inbox # <<>>
    /\ request' = [request EXCEPT ![Update] = Head(inbox)]
    /\ inbox' = Tail(inbox)
    /\ served' = served + 1
    /\ Goto(Update, "idle", "handle")
    /\ UNCHANGED <<pool, sending, session, received, at, response, parcel, to, unsent>>

\* A heartbeat, or a request of a player that is gone, has no response.
NoResponse ==
    /\ Goto(Update, "handle", "finish")
    /\ UNCHANGED <<pool, sending, session, inbox, received, served, locals, unsent>>

\* Packet_Proc_RES_*: a message is filled and encoded; it goes to some sessions, one by one.
Respond ==
    /\ Goto(Update, "handle", "send")
    /\ \E m \in Messages :
          /\ MessagePool!Alloc(m)
          /\ ref' = [ref EXCEPT ![m] = 1]
          /\ stamp' = [stamp EXCEPT ![m] = served]
          /\ response' = [response EXCEPT ![Update] = m]
    /\ to' \in (SUBSET Sessions) \ {{}}
    /\ UNCHANGED <<sending, session, inbox, received, served, at, request, parcel, unsent>>
-----------------------------------------------------------------------------
(* SendPacket, called by the update thread for one session after another.  *)

\* Faulty variant: the queue entry has no reference of its own.
EnterUnreferenced(s) ==
    /\ pc[Update] = "send" /\ s \in to
    /\ to' = to \ {s}
    /\ IF released[s]
       THEN UNCHANGED <<pc, io, at, parcel>>
       ELSE /\ pc' = [pc EXCEPT ![Update] = "enqueue"]
            /\ io' = [io EXCEPT ![s] = @ + 1]
            /\ at' = [at EXCEPT ![Update] = s]
            /\ parcel' = [parcel EXCEPT ![Update] = response[Update]]
    /\ UNCHANGED <<pool, sending, recv, released, up, inbox, received, served,
                   request, response, unsent>>

\* SessionReleaseCheck: a session that is released is passed over, any other is entered and
\* the count of the message raised for the entry in its queue.
Enter(s) ==
    /\ pc[Update] = "send" /\ s \in to
    /\ to' = to \ {s}
    /\ IF released[s]
       THEN UNCHANGED <<pc, io, at, pool, parcel>>
       ELSE /\ pc' = [pc EXCEPT ![Update] = "enqueue"]
            /\ io' = [io EXCEPT ![s] = @ + 1]
            /\ at' = [at EXCEPT ![Update] = s]
            /\ AddRef(response[Update])
            /\ parcel' = [parcel EXCEPT ![Update] = response[Update]]
    /\ UNCHANGED <<sending, recv, released, up, inbox, received, served,
                   request, response, unsent>>

Enqueue ==
    /\ Goto(Update, "enqueue", "claim")
    /\ LET s == at[Update]
       IN  /\ queue' = [queue EXCEPT ![s] = Append(@, parcel[Update])]
           /\ unsent' = [unsent EXCEPT ![s] = Append(@, stamp[parcel[Update]])]
    /\ parcel' = [parcel EXCEPT ![Update] = Null]
    /\ UNCHANGED <<pool, isSend, count, flight, session, inbox, received, served,
                   at, request, response, to>>

\* After the last session: the update thread's own reference to the response, and
\* CompletePacket's to the request.
ForgetResponse ==
    /\ Goto(Update, "send", "finish") /\ to = {}
    /\ SubRef(response[Update])
    /\ response' = [response EXCEPT ![Update] = Null]
    /\ UNCHANGED <<sending, session, inbox, received, served, at, request, parcel, to, unsent>>

Finish ==
    /\ Goto(Update, "finish", "idle")
    /\ SubRef(request[Update])
    /\ request' = [request EXCEPT ![Update] = Null]
    /\ UNCHANGED <<sending, session, inbox, received, served, at, response, parcel, to, unsent>>

-----------------------------------------------------------------------------
(* PostSend, called by SendPacket and SendComplete.                        *)

SendIdle == UNCHANGED <<pool, session, inbox, received, served, locals, unsent>>

\* The tests of the queue and the swap of bIsSend; NetSession takes them apart.
Claim(t) ==
    /\ LET mine == queue[at[t]] # <<>> /\ ~isSend[at[t]]
       IN  /\ Goto(t, "claim", IF mine THEN "post" ELSE "leave")
           /\ isSend' = [isSend EXCEPT ![at[t]] = @ \/ mine]
    /\ UNCHANGED <<queue, count, flight>> /\ SendIdle

\* The first messages of the queue go into the WSABUFs and stay in the queue.  On a dead
\* connection WSASend fails, its reference is taken back and bIsSend left set.
Post(t) ==
    /\ Goto(t, "post", "leave")
    /\ LET s == at[t]
           n == IF Len(queue[s]) < Batch THEN Len(queue[s]) ELSE Batch
       IN  /\ count' = [count EXCEPT ![s] = n]
           /\ IF up[s]
              THEN /\ flight' = [flight EXCEPT ![s] = SubSeq(queue[s], 1, n)]
                   /\ io' = [io EXCEPT ![s] = @ + 1]
              ELSE UNCHANGED <<flight, io>>
    /\ UNCHANGED <<pool, queue, isSend, recv, released, up, inbox, received, served,
                   locals, unsent>>

-----------------------------------------------------------------------------
(* Completions of sends and the end of a connection.                       *)

\* The send is complete: the kernel needs its buffers no longer.
TakeSend(w, s) ==
    /\ flight[s] # <<>> /\ up[s]
    /\ Goto(w, "idle", "dequeue")
    /\ at' = [at EXCEPT ![w] = s]
    /\ unsent' = [unsent EXCEPT ![s] = SubSeq(@, Len(flight[s]) + 1, Len(@))]
    /\ flight' = [flight EXCEPT ![s] = <<>>]
    /\ UNCHANGED <<pool, queue, isSend, count, session, inbox, received, served,
                   request, response, parcel, to>>

\* SendComplete: a Dequeue and a SubRef for each message of the batch.
Dequeue(w) ==
    /\ pc[w] = "dequeue" /\ count[at[w]] > 0
    /\ pc' = [pc EXCEPT ![w] = "subref"]
    /\ LET s == at[w]
       IN  /\ parcel' = [parcel EXCEPT ![w] = Head(queue[s])]
           /\ queue' = [queue EXCEPT ![s] = Tail(@)]
           /\ count' = [count EXCEPT ![s] = @ - 1]
    /\ UNCHANGED <<pool, isSend, flight, session, inbox, received, served, at,
                   request, response, to, unsent>>

ForgetSent(w) ==
    /\ Goto(w, "subref", "dequeue")
    /\ SubRef(parcel[w])
    /\ parcel' = [parcel EXCEPT ![w] = Null]
    /\ UNCHANGED <<sending, session, inbox, received, served, at, request, response, to, unsent>>

\* Faulty variant: what was queued meanwhile is left to somebody else.
SendCompleteOnly(w) ==
    /\ Goto(w, "dequeue", "leave") /\ count[at[w]] = 0
    /\ isSend' = [isSend EXCEPT ![at[w]] = FALSE]
    /\ UNCHANGED <<queue, count, flight>> /\ SendIdle

\* dwPacketCount is zero by now; bIsSend is cleared and PostSend called again.
SendComplete(w) ==
    /\ Goto(w, "dequeue", "claim") /\ count[at[w]] = 0
    /\ isSend' = [isSend EXCEPT ![at[w]] = FALSE]
    /\ UNCHANGED <<queue, count, flight>> /\ SendIdle

\* The connection breaks: what is outstanding completes without a byte, and the worker only
\* gives up its reference.
Break(s) ==
    /\ up[s]
    /\ up' = [up EXCEPT ![s] = FALSE]
    /\ UNCHANGED <<pool, sending, recv, io, released, inbox, received, served, pc, locals, unsent>>

TakeBroken(w, s) ==
    /\ ~up[s] /\ Goto(w, "idle", "leave")
    /\ at' = [at EXCEPT ![w] = s]
    /\ \/ recv[s] /\ recv' = [recv EXCEPT ![s] = FALSE] /\ UNCHANGED flight
       \/ flight[s] # <<>> /\ flight' = [flight EXCEPT ![s] = <<>>] /\ UNCHANGED recv
    /\ UNCHANGED <<pool, queue, isSend, count, io, released, up, inbox, received, served,
                   request, response, parcel, to, unsent>>

\* Where a thread goes on after it has left a session.
Resume(t) == IF t = Update THEN "send" ELSE "idle"

\* lIOCount is lowered; who brings it to zero releases the session.
Leave(t) ==
    /\ LET s == at[t]
           last == io[s] = 1
       IN  /\ Goto(t, "leave", IF last THEN "drain" ELSE Resume(t))
           /\ io' = [io EXCEPT ![s] = @ - 1]
           /\ released' = [released EXCEPT ![s] = @ \/ last]
           /\ at' = IF last THEN at ELSE [at EXCEPT ![t] = Null]
    /\ UNCHANGED <<pool, sending, recv, up, inbox, received, served,
                   request, response, parcel, to, unsent>>

\* Faulty variant: the release empties the queue without giving up its references.
DrainOnly(t) ==
    /\ pc[t] = "drain" /\ queue[at[t]] # <<>>
    /\ queue' = [queue EXCEPT ![at[t]] = Tail(@)]
    /\ UNCHANGED <<pool, isSend, count, flight, session, inbox, received, served, pc, locals, unsent>>

\* SessionRelease gives up the messages that are still queued.
Drain(t) ==
    /\ pc[t] = "drain" /\ queue[at[t]] # <<>>
    /\ SubRef(Head(queue[at[t]]))
    /\ queue' = [queue EXCEPT ![at[t]] = Tail(@)]
    /\ UNCHANGED <<isSend, count, flight, session, inbox, received, served, pc, locals, unsent>>

Release(t) ==
    /\ Goto(t, "drain", Resume(t)) /\ queue[at[t]] = <<>>
    /\ isSend' = [isSend EXCEPT ![at[t]] = FALSE]
    /\ count' = [count EXCEPT ![at[t]] = 0]
    /\ unsent' = [unsent EXCEPT ![at[t]] = <<>>]
    /\ at' = [at EXCEPT ![t] = Null]
    /\ UNCHANGED <<pool, queue, flight, session, inbox, received, served,
                   request, response, parcel, to>>

-----------------------------------------------------------------------------
PostSend(t) == Claim(t) \/ Post(t)
Leaving(t)  == Leave(t) \/ Drain(t) \/ Release(t)

\* What a thread does once it has begun.
Run(t) ==
    \/ PostSend(t) \/ Leaving(t)
    \/ t # Update /\ (OnRecv(t) \/ Forget(t) \/ PostRecv(t)
                       \/ Dequeue(t) \/ ForgetSent(t) \/ SendComplete(t))
    \/ t = Update /\ (TakeRequest \/ NoResponse \/ Respond \/ Enqueue
                       \/ ForgetResponse \/ Finish \/ \E s \in Sessions : Enter(s))

Complete(s) == \E w \in Workers : TakeSend(w, s) \/ TakeBroken(w, s)

Next ==
    \/ \E t \in Threads : Run(t)
    \/ \E s \in Sessions :
          \/ Complete(s)
          \/ Break(s)
          \/ \E w \in Workers : Receive(w, s)

Spec == Init /\ [][Next]_vars

-----------------------------------------------------------------------------
(* Properties.                                                             *)

\* Every variable keeps its type; in particular no count is lowered by one who holds no reference.
TypeOK ==
    /\ out \subseteq Messages
    /\ ref \in [Messages -> Nat]
    /\ stamp \in [Messages -> 0 .. MaxReceives]
    /\ queue \in [Sessions -> Seq(Messages)]
    /\ isSend \in [Sessions -> BOOLEAN]
    /\ count \in [Sessions -> 0 .. Batch]
    /\ flight \in [Sessions -> Seq(Messages)]
    /\ recv \in [Sessions -> BOOLEAN] /\ io \in [Sessions -> Nat]
    /\ released \in [Sessions -> BOOLEAN] /\ up \in [Sessions -> BOOLEAN]
    /\ inbox \in Seq(Messages)
    /\ received \in 0 .. MaxReceives /\ served \in 0 .. received
    /\ pc \in [Threads -> {"idle", "onrecv", "forget", "repost", "handle", "send",
                            "enqueue", "finish", "claim", "post",
                            "dequeue", "subref", "leave", "drain"}]
    /\ at \in [Threads -> Sessions \cup {Null}]
    /\ {request, response, parcel} \subseteq [Threads -> Messages \cup {Null}]
    /\ to \subseteq Sessions
    /\ unsent \in [Sessions -> Seq(1 .. MaxReceives)]

\* How often m occurs in a sequence, in the sequences q has for the sessions, and as the value
\* f has for a thread.
Occurs(m, seq) == Cardinality({i \in DOMAIN seq : seq[i] = m})
Queued(m, q)   == Cardinality({place \in Sessions \X (1 .. MaxReceives) :
                                  place[2] <= Len(q[place[1]]) /\ q[place[1]][place[2]] = m})
Held(m, f)     == Cardinality({t \in Threads : f[t] = m})

\* Who still has to give up a reference to m: entries of the send queues and of m_MsgQ, and
\* the threads that made it, handle it, are about to queue it or have just dequeued it.
Holders(m) ==
    Occurs(m, inbox) + Queued(m, queue) + Held(m, request) + Held(m, response) + Held(m, parcel)

\* m_lRefCount is exactly the number of those who will call SubRef, and the pool has the
\* message back just when there are none: no message is freed while somebody still holds it,
\* none is leaked, none is freed twice.
RefExact ==
    \A m \in Messages : ref[m] = Holders(m) /\ (m \in out <=> ref[m] > 0)

\* While the kernel reads the buffers of a WSASend, each is a message still in use, and holds
\* what was encoded into it when it was queued: each session gets the responses queued to it
\* once and in order, although one message lies in several queues and messages are reused.
WireIntact ==
    \A s \in Sessions : \A i \in DOMAIN flight[s] :
        /\ flight[s][i] \in out
        /\ i <= Len(unsent[s]) /\ stamp[flight[s][i]] = unsent[s][i]

\* Nobody has anything to do until a client sends or a connection breaks.
AtRest ==
    /\ \A t \in Threads : pc[t] = "idle"
    /\ inbox = <<>>
    /\ \A s \in Sessions : flight[s] = <<>> /\ (recv[s] => up[s])

\* When the server has come to rest every message is back in the pool: no response is left in
\* a send queue because each thread took another one for the sender (bIsSend), and a session
\* that broke while it was sending has given its messages up.
MessagesComeBack == AtRest => out = {}
=============================================================================
