----------------------------- MODULE NetSession -----------------------------
(***************************************************************************)
(* The session table of NetworkLibraryWan: the index stack, the reference  *)
(* counted sessions, the accept thread, the IOCP worker threads, and the   *)
(* application threads that call SendPacket and Disconnect.                *)
(*                                                                         *)
(* Every shared word the threads race on (lIOCount, bIsReleased, bIsSend,  *)
(* the index stack, _dwSessionCount) is read or written by one step of its *)
(* own.  A session's two interlocked words live in one 16-byte block, which*)
(* SessionRelease compares and swaps as a whole.                           *)
(***************************************************************************)
EXTENDS Integers, Sequences, FiniteSets

CONSTANTS
    NSlots,       \* _dwSessionMax: sessions in _SessionArray
    Acceptor,     \* the accept thread
    Workers,      \* the IOCP worker threads
    Callers,      \* application threads that use session ids
    Batch,        \* packets one WSASend may carry (100 in PostSend)
    MaxSessions,  \* bound: connections ever accepted
    MaxQueued,    \* bound: packets queued in one SendBuffer
    AssocFails,   \* the connections for which CreateIoCompletionPort may fail
    Quiet         \* TRUE: no thread is inside SessionReleaseCheck, or at the
                  \* entry of SessionRelease, for a slot while InsertSession
                  \* is filling that slot (the code does not enforce this)

Threads == {Acceptor} \cup Workers \cup Callers
Slots   == 0 .. NSlots - 1

ASSUME SlotsAssumption   == NSlots \in Nat \ {0}
ASSUME ThreadsAssumption == /\ Acceptor \notin Workers \cup Callers
                            /\ Workers \cap Callers = {}
                            /\ IsFiniteSet(Workers)
                            /\ IsFiniteSet(Callers)
ASSUME BoundsAssumption  == /\ Batch \in Nat \ {0}
                            /\ MaxSessions \in Nat
                            /\ MaxQueued \in Nat
                            /\ AssocFails \subseteq Nat
                            /\ Quiet \in BOOLEAN

\* A session id packs a running number and the index of the session's slot.
CreateSessionID(n, i) == [id |-> n, index |-> i]
GetSessionIndex(i)    == i.index

NoId   == CreateSessionID(-1, -1)
NoSlot == -1
Ids    == [id : Int, index : Slots \cup {-1}]

VARIABLES
    stack,         \* _ArrayIndex, its top first
    sessionCount,  \* _dwSessionCount
    lastId,        \* _dwSessionID
    id,            \* SessionID of each slot
    sock,          \* its socket: "invalid", "open", "reset" by the peer, "closed"
    io,            \* lIOCount
    released,      \* bIsReleased
    sending,       \* bIsSend
    sendQ,         \* packets in SendBuffer
    packets,       \* dwPacketCount
    recvOps,       \* overlapped receives in flight
    sendOps,       \* overlapped sends in flight
    joined,        \* history: ids passed to OnClientJoin
    gone,          \* history: ids passed to OnClientLeave
    pc,            \* the step each thread is at
    slot,          \* the session it works on (pSession)
    sid,           \* the id a caller asked for (iSessionID)
    ret            \* where SessionRelease returns to

tableVars == <<stack, sessionCount, lastId>>
refVars   == <<io, released>>
connVars  == <<id, sock>>
sendVars  == <<sending, sendQ, packets>>
opVars    == <<recvOps, sendOps>>
histVars  == <<joined, gone>>
localVars == <<slot, sid, ret>>
vars == <<tableVars, refVars, connVars, sendVars, opVars, histVars, pc, localVars>>

InsertLabels  == {"acInit", "acZero", "acFlag", "acOne"}
CheckLabels   == {"chkRel", "chkInc", "chkUndo", "chkId", "chkRel2"}
PostLabels    == {"prPost", "prRecv", "psTest", "psCas", "psTest2", "psReset",
                  "psPost", "psSend", "dropPost"}
ReleaseBody   == {"relClose", "relLeave", "relDrain", "relClear", "relPush"}
ReleaseLabels == {"relTest", "relCas", "relCount"} \cup ReleaseBody
Labels == {"idle", "acPop", "acCount", "acAssoc", "acDec", "join", "rcOn",
           "scDone", "scFlag", "enq", "disc", "drop"}
          \cup InsertLabels \cup CheckLabels \cup PostLabels \cup ReleaseLabels

Init ==
    /\ stack = [i \in 1 .. NSlots |-> i - 1]     \* CreateSession pushes N-1 .. 0
    /\ sessionCount = 0
    /\ lastId = 0
    /\ id = [s \in Slots |-> NoId]
    /\ sock = [s \in Slots |-> "invalid"]
    /\ io = [s \in Slots |-> 0]
    /\ released = [s \in Slots |-> FALSE]
    /\ sending = [s \in Slots |-> FALSE]
    /\ sendQ = [s \in Slots |-> 0]
    /\ packets = [s \in Slots |-> 0]
    /\ recvOps = [s \in Slots |-> 0]
    /\ sendOps = [s \in Slots |-> 0]
    /\ joined = {}
    /\ gone = {}
    /\ pc = [t \in Threads |-> "idle"]
    /\ slot = [t \in Threads |-> NoSlot]
    /\ sid = [t \in Threads |-> NoId]
    /\ ret = [t \in Threads |-> "idle"]

-----------------------------------------------------------------------------
(* Control flow.  A thread that goes idle forgets its locals.              *)

Goto(t, from, to) ==
    /\ pc[t] = from
    /\ pc' = [pc EXCEPT ![t] = to]

Forget(t) ==
    /\ slot' = [slot EXCEPT ![t] = NoSlot]
    /\ sid'  = [sid EXCEPT ![t] = NoId]
    /\ ret'  = [ret EXCEPT ![t] = "idle"]

\* Leave SessionRelease: to the loop of the thread, or to the code after PostSend
\* or PostRecv when the release was run by their error path.
Return(t, from) ==
    /\ Goto(t, from, ret[t])
    /\ IF ret[t] = "idle"
       THEN Forget(t)
       ELSE ret' = [ret EXCEPT ![t] = "idle"] /\ UNCHANGED <<slot, sid>>

\* Another thread inspects the slot while it is being filled, or the reverse.
Inserting(s) == slot[Acceptor] = s /\ pc[Acceptor] \in InsertLabels
Inspected(s) == \E t \in Threads :
                   slot[t] = s /\ pc[t] \in CheckLabels \cup {"relTest", "relCas"}

\* InterlockedDecrement64(lIOCount): the thread that reaches zero runs SessionRelease.
Dec(t) == io' = [io EXCEPT ![slot[t]] = @ - 1]
Inc(t) == io' = [io EXCEPT ![slot[t]] = @ + 1]

DisconnectSession(s) ==
    sock' = [sock EXCEPT ![s] = IF @ = "invalid" THEN @ ELSE "closed"]

-----------------------------------------------------------------------------
(* AcceptThread and InsertSession.                                         *)

\* Faulty variant: the limit is off by one.
AcceptOneMore(t) ==
    /\ t = Acceptor
    /\ lastId < MaxSessions
    /\ sessionCount <= NSlots
    /\ Goto(t, "idle", "acPop")
    /\ UNCHANGED <<tableVars, refVars, connVars, sendVars, opVars, histVars, localVars>>

\* accept() returned a socket and the table is not full.  A connection refused
\* at the limit changes nothing but its own socket.
Accept(t) ==
    /\ t = Acceptor
    /\ lastId < MaxSessions
    /\ sessionCount < NSlots
    /\ Goto(t, "idle", "acPop")
    /\ UNCHANGED <<tableVars, refVars, connVars, sendVars, opVars, histVars, localVars>>

PopIndex(t) ==
    /\ Goto(t, "acPop", "acInit")
    /\ stack # <<>>                    \* top() of an empty std::stack is undefined
    /\ Quiet => ~Inspected(Head(stack))
    /\ slot' = [slot EXCEPT ![t] = Head(stack)]
    /\ stack' = Tail(stack)
    /\ UNCHANGED <<sessionCount, lastId, refVars, connVars, sendVars, opVars, histVars,
                   sid, ret>>

InsertFields(t) ==
    /\ Goto(t, "acInit", "acZero")
    /\ lastId' = lastId + 1
    /\ id' = [id EXCEPT ![slot[t]] = CreateSessionID(lastId + 1, slot[t])]
    /\ sock' = [sock EXCEPT ![slot[t]] = "open"]
    /\ sending' = [sending EXCEPT ![slot[t]] = FALSE]
    /\ packets' = [packets EXCEPT ![slot[t]] = 0]
    /\ sendQ' = [sendQ EXCEPT ![slot[t]] = 0]
    /\ UNCHANGED <<stack, sessionCount, refVars, opVars, histVars, localVars>>

InsertZero(t) ==
    /\ Goto(t, "acZero", "acFlag")
    /\ io' = [io EXCEPT ![slot[t]] = 0]
    /\ UNCHANGED <<tableVars, released, connVars, sendVars, opVars, histVars, localVars>>

InsertFlag(t) ==
    /\ Goto(t, "acFlag", "acOne")
    /\ released' = [released EXCEPT ![slot[t]] = FALSE]
    /\ UNCHANGED <<tableVars, io, connVars, sendVars, opVars, histVars, localVars>>

InsertOne(t) ==
    /\ Goto(t, "acOne", "acCount")
    /\ io' = [io EXCEPT ![slot[t]] = 1]
    /\ UNCHANGED <<tableVars, released, connVars, sendVars, opVars, histVars, localVars>>

InsertCount(t) ==
    /\ Goto(t, "acCount", "acAssoc")
    /\ sessionCount' = sessionCount + 1
    /\ UNCHANGED <<stack, lastId, refVars, connVars, sendVars, opVars, histVars, localVars>>

\* CreateIoCompletionPort succeeds or fails.
Associate(t) ==
    /\ \/ Goto(t, "acAssoc", "join")
       \/ Goto(t, "acAssoc", "acDec") /\ lastId \in AssocFails
    /\ UNCHANGED <<tableVars, refVars, connVars, sendVars, opVars, histVars, localVars>>

\* The failure path only ends the handler when its decrement reaches zero.
AssociateFailed(t) ==
    /\ Goto(t, "acDec", IF io[slot[t]] = 1 THEN "relTest" ELSE "join")
    /\ Dec(t)
    /\ UNCHANGED <<tableVars, released, connVars, sendVars, opVars, histVars, localVars>>

OnClientJoin(t) ==
    /\ Goto(t, "join", "prPost")
    /\ joined' = joined \cup {id[slot[t]]}
    /\ UNCHANGED <<tableVars, refVars, connVars, sendVars, opVars, gone, localVars>>

-----------------------------------------------------------------------------
(* WorkerThread: one completion is taken from the port.                    *)

\* A receive completed with data (also one that completed before its socket closed).
TakeRecv(t, s) ==
    /\ t \in Workers
    /\ Goto(t, "idle", "rcOn")
    /\ recvOps[s] > 0
    /\ recvOps' = [recvOps EXCEPT ![s] = @ - 1]
    /\ slot' = [slot EXCEPT ![t] = s]
    /\ UNCHANGED <<tableVars, refVars, connVars, sendVars, sendOps, histVars, sid, ret>>

TakeSend(t, s) ==
    /\ t \in Workers
    /\ Goto(t, "idle", "scDone")
    /\ sendOps[s] > 0
    /\ sendOps' = [sendOps EXCEPT ![s] = @ - 1]
    /\ slot' = [slot EXCEPT ![t] = s]
    /\ UNCHANGED <<tableVars, refVars, connVars, sendVars, recvOps, histVars, sid, ret>>

\* An operation ended without data: the peer finished sending (the socket stays usable),
\* reset the connection, or the server closed the socket.
TakeDown(t, s) ==
    /\ t \in Workers
    /\ Goto(t, "idle", "drop")
    /\ \/ recvOps[s] > 0 /\ recvOps' = [recvOps EXCEPT ![s] = @ - 1] /\ UNCHANGED sendOps
       \/ sendOps[s] > 0 /\ sendOps' = [sendOps EXCEPT ![s] = @ - 1] /\ UNCHANGED recvOps
    /\ \/ UNCHANGED sock
       \/ sock[s] = "open" /\ sock' = [sock EXCEPT ![s] = "reset"]
    /\ slot' = [slot EXCEPT ![t] = s]
    /\ UNCHANGED <<tableVars, refVars, id, sendVars, histVars, sid, ret>>

\* RecvComplete hands the packets to OnRecv; a packet that does not decode closes the
\* socket.  Either way the next receive is posted.
RecvComplete(t) ==
    /\ Goto(t, "rcOn", "prPost")
    /\ \/ UNCHANGED sock
       \/ DisconnectSession(slot[t])
    /\ UNCHANGED <<tableVars, refVars, id, sendVars, opVars, histVars, localVars>>

\* SendComplete removes the packets the completed WSASend carried, then clears bIsSend.
SendComplete(t) ==
    /\ Goto(t, "scDone", "scFlag")
    /\ sendQ' = [sendQ EXCEPT ![slot[t]] =
                    IF @ > packets[slot[t]] THEN @ - packets[slot[t]] ELSE 0]
    /\ packets' = [packets EXCEPT ![slot[t]] = 0]
    /\ UNCHANGED <<tableVars, refVars, connVars, sending, opVars, histVars, localVars>>

\* Faulty variant: what was queued during the send is not looked at again.
SendCompleteFlagOnly(t) ==
    /\ Goto(t, "scFlag", "drop")
    /\ sending' = [sending EXCEPT ![slot[t]] = FALSE]
    /\ UNCHANGED <<tableVars, refVars, connVars, sendQ, packets, opVars, histVars, localVars>>

SendCompleteFlag(t) ==
    /\ Goto(t, "scFlag", "psTest")
    /\ sending' = [sending EXCEPT ![slot[t]] = FALSE]
    /\ UNCHANGED <<tableVars, refVars, connVars, sendQ, packets, opVars, histVars, localVars>>

-----------------------------------------------------------------------------
(* PostRecv.                                                               *)

\* Faulty variant: the receive in flight holds no reference.
PostRecvNoRef(t) ==
    /\ Goto(t, "prPost", "prRecv")
    /\ UNCHANGED <<tableVars, refVars, connVars, sendVars, opVars, histVars, localVars>>

PostRecvRef(t) ==
    /\ Goto(t, "prPost", "prRecv")
    /\ Inc(t)
    /\ UNCHANGED <<tableVars, released, connVars, sendVars, opVars, histVars, localVars>>

\* WSARecv is pending, or fails because the socket is no longer connected.
PostRecv(t) ==
    /\ \/ /\ Goto(t, "prRecv", "drop")
          /\ sock[slot[t]] = "open"
          /\ recvOps' = [recvOps EXCEPT ![slot[t]] = @ + 1]
          /\ UNCHANGED sock
       \/ /\ Goto(t, "prRecv", "dropPost")
          /\ sock' = [sock EXCEPT ![slot[t]] = IF @ = "open" THEN "reset" ELSE @]
          /\ UNCHANGED recvOps
    /\ UNCHANGED <<tableVars, refVars, id, sendVars, sendOps, histVars, localVars>>

-----------------------------------------------------------------------------
(* PostSend: bIsSend admits one WSASend at a time.                         *)

PostSendTest(t) ==
    /\ Goto(t, "psTest", IF sendQ[slot[t]] = 0 THEN "drop" ELSE "psCas")
    /\ UNCHANGED <<tableVars, refVars, connVars, sendVars, opVars, histVars, localVars>>

PostSendCas(t) ==
    /\ Goto(t, "psCas", IF sending[slot[t]] THEN "drop" ELSE "psTest2")
    /\ sending' = [sending EXCEPT ![slot[t]] = TRUE]
    /\ UNCHANGED <<tableVars, refVars, connVars, sendQ, packets, opVars, histVars, localVars>>

\* Faulty variant: the queue is not tested again once bIsSend is held.
PostSendNoRetest(t) ==
    /\ Goto(t, "psTest2", "psPost")
    /\ UNCHANGED <<tableVars, refVars, connVars, sendVars, opVars, histVars, localVars>>

PostSendRetest(t) ==
    /\ Goto(t, "psTest2", IF sendQ[slot[t]] = 0 THEN "psReset" ELSE "psPost")
    /\ UNCHANGED <<tableVars, refVars, connVars, sendVars, opVars, histVars, localVars>>

PostSendReset(t) ==
    /\ Goto(t, "psReset", "psTest")
    /\ sending' = [sending EXCEPT ![slot[t]] = FALSE]
    /\ UNCHANGED <<tableVars, refVars, connVars, sendQ, packets, opVars, histVars, localVars>>

PostSendRef(t) ==
    /\ Goto(t, "psPost", "psSend")
    /\ packets' = [packets EXCEPT ![slot[t]] =
                      IF sendQ[slot[t]] < Batch THEN sendQ[slot[t]] ELSE Batch]
    /\ Inc(t)
    /\ UNCHANGED <<tableVars, released, connVars, sending, sendQ, opVars, histVars, localVars>>

\* WSASend is pending, or fails and leaves bIsSend set.
PostSend(t) ==
    /\ \/ /\ Goto(t, "psSend", "drop")
          /\ sock[slot[t]] = "open"
          /\ sendOps' = [sendOps EXCEPT ![slot[t]] = @ + 1]
          /\ UNCHANGED sock
       \/ /\ Goto(t, "psSend", "dropPost")
          /\ sock' = [sock EXCEPT ![slot[t]] = IF @ = "open" THEN "reset" ELSE @]
          /\ UNCHANGED sendOps
    /\ UNCHANGED <<tableVars, refVars, id, sendVars, recvOps, histVars, localVars>>

\* Faulty variant: the failed call keeps the reference.
PostFailedKeeps(t) ==
    /\ Goto(t, "dropPost", "drop")
    /\ UNCHANGED <<tableVars, refVars, connVars, sendVars, opVars, histVars, localVars>>

\* The failed call gives back the reference taken for its completion.
PostFailed(t) ==
    /\ Goto(t, "dropPost", IF io[slot[t]] = 1 THEN "relTest" ELSE "drop")
    /\ Dec(t)
    /\ ret' = [ret EXCEPT ![t] = IF io[slot[t]] = 1 THEN "drop" ELSE @]
    /\ UNCHANGED <<tableVars, released, connVars, sendVars, opVars, histVars, slot, sid>>

-----------------------------------------------------------------------------
(* SendPacket and Disconnect, entered through SessionReleaseCheck.         *)

\* An application thread calls with an id it was once given by OnClientJoin.
Call(t, i) ==
    /\ t \in Callers
    /\ i \in joined
    /\ GetSessionIndex(i) \in Slots
    /\ Quiet => ~Inserting(GetSessionIndex(i))
    /\ Goto(t, "idle", "chkRel")
    /\ slot' = [slot EXCEPT ![t] = GetSessionIndex(i)]
    /\ sid' = [sid EXCEPT ![t] = i]
    /\ UNCHANGED <<tableVars, refVars, connVars, sendVars, opVars, histVars, ret>>

CheckReleased(t) ==
    /\ \/ Goto(t, "chkRel", "idle") /\ released[slot[t]] /\ Forget(t)
       \/ Goto(t, "chkRel", "chkInc") /\ ~released[slot[t]] /\ UNCHANGED localVars
    /\ UNCHANGED <<tableVars, refVars, connVars, sendVars, opVars, histVars>>

\* An increment that yields one is taken to mean that a release is in progress.
CheckRef(t) ==
    /\ Goto(t, "chkInc", IF io[slot[t]] = 0 THEN "chkUndo" ELSE "chkId")
    /\ Inc(t)
    /\ UNCHANGED <<tableVars, released, connVars, sendVars, opVars, histVars, localVars>>

\* Faulty variant: the id is not compared with the slot's.
CheckNoId(t) ==
    /\ Goto(t, "chkId", "chkRel2")
    /\ UNCHANGED <<tableVars, refVars, connVars, sendVars, opVars, histVars, localVars>>

CheckId(t) ==
    /\ Goto(t, "chkId", IF id[slot[t]] = sid[t] THEN "chkRel2" ELSE "chkUndo")
    /\ UNCHANGED <<tableVars, refVars, connVars, sendVars, opVars, histVars, localVars>>

CheckReleasedAgain(t) ==
    /\ \/ Goto(t, "chkRel2", "chkUndo") /\ released[slot[t]]
       \/ Goto(t, "chkRel2", "enq") /\ ~released[slot[t]] /\ sendQ[slot[t]] < MaxQueued
       \/ Goto(t, "chkRel2", "disc") /\ ~released[slot[t]]
    /\ UNCHANGED <<tableVars, refVars, connVars, sendVars, opVars, histVars, localVars>>

\* SendPacket: the packet is queued, then PostSend tries to start a WSASend.
Enqueue(t) ==
    /\ Goto(t, "enq", "psTest")
    /\ sendQ' = [sendQ EXCEPT ![slot[t]] = @ + 1]
    /\ UNCHANGED <<tableVars, refVars, connVars, sending, packets, opVars, histVars, localVars>>

Disconnect(t) ==
    /\ Goto(t, "disc", "drop")
    /\ DisconnectSession(slot[t])
    /\ UNCHANGED <<tableVars, refVars, id, sendVars, opVars, histVars, localVars>>

\* Every handler ends by giving its reference back; so does a failed check.
Drop(t) ==
    /\ pc[t] \in {"drop", "chkUndo"}
    /\ Dec(t)
    /\ \/ Goto(t, pc[t], "relTest") /\ io[slot[t]] = 1 /\ UNCHANGED localVars
       \/ Goto(t, pc[t], "idle") /\ io[slot[t]] # 1 /\ Forget(t)
    /\ UNCHANGED <<tableVars, released, connVars, sendVars, opVars, histVars>>

-----------------------------------------------------------------------------
(* SessionRelease.                                                         *)

ReleaseTest(t) ==
    /\ \/ Return(t, "relTest") /\ released[slot[t]]
       \/ Goto(t, "relTest", "relCas") /\ ~released[slot[t]] /\ UNCHANGED localVars
    /\ UNCHANGED <<tableVars, refVars, connVars, sendVars, opVars, histVars>>

\* Faulty variant: only lIOCount is compared, not the flag with it.
ReleaseCasCount(t) ==
    /\ \/ /\ Goto(t, "relCas", "relClose")
          /\ io[slot[t]] = 0
          /\ released' = [released EXCEPT ![slot[t]] = TRUE]
          /\ UNCHANGED localVars
       \/ /\ Return(t, "relCas")
          /\ io[slot[t]] # 0
          /\ UNCHANGED released
    /\ UNCHANGED <<tableVars, io, connVars, sendVars, opVars, histVars>>

\* Faulty variant: only the flag is compared, not lIOCount with it.
ReleaseCasFlag(t) ==
    /\ \/ /\ Goto(t, "relCas", "relClose")
          /\ ~released[slot[t]]
          /\ released' = [released EXCEPT ![slot[t]] = TRUE]
          /\ UNCHANGED localVars
       \/ /\ Return(t, "relCas")
          /\ released[slot[t]]
          /\ UNCHANGED released
    /\ UNCHANGED <<tableVars, io, connVars, sendVars, opVars, histVars>>

\* The 128-bit compare and swap of (lIOCount, bIsReleased): (0, FALSE) to (0, TRUE).
ReleaseCas(t) ==
    /\ \/ /\ Goto(t, "relCas", "relClose")
          /\ io[slot[t]] = 0 /\ ~released[slot[t]]
          /\ released' = [released EXCEPT ![slot[t]] = TRUE]
          /\ UNCHANGED localVars
       \/ /\ Return(t, "relCas")
          /\ io[slot[t]] # 0 \/ released[slot[t]]
          /\ UNCHANGED released
    /\ UNCHANGED <<tableVars, io, connVars, sendVars, opVars, histVars>>

ReleaseClose(t) ==
    /\ Goto(t, "relClose", "relLeave")
    /\ DisconnectSession(slot[t])
    /\ UNCHANGED <<tableVars, refVars, id, sendVars, opVars, histVars, localVars>>

OnClientLeave(t) ==
    /\ Goto(t, "relLeave", "relDrain")
    /\ gone' = gone \cup {id[slot[t]]}
    /\ UNCHANGED <<tableVars, refVars, connVars, sendVars, opVars, joined, localVars>>

\* Faulty variant: packets still queued are left to the slot's next owner.
ReleaseNoDrain(t) ==
    /\ Goto(t, "relDrain", "relClear")
    /\ UNCHANGED <<tableVars, refVars, connVars, sendVars, opVars, histVars, localVars>>

ReleaseDrain(t) ==
    /\ Goto(t, "relDrain", "relClear")
    /\ sendQ' = [sendQ EXCEPT ![slot[t]] = 0]
    /\ UNCHANGED <<tableVars, refVars, connVars, sending, packets, opVars, histVars, localVars>>

ReleaseClear(t) ==
    /\ Goto(t, "relClear", "relPush")
    /\ sending' = [sending EXCEPT ![slot[t]] = FALSE]
    /\ id' = [id EXCEPT ![slot[t]] = NoId]
    /\ sock' = [sock EXCEPT ![slot[t]] = "invalid"]
    /\ packets' = [packets EXCEPT ![slot[t]] = 0]
    /\ UNCHANGED <<tableVars, refVars, sendQ, opVars, histVars, localVars>>

\* Faulty variant: the index given back is the next slot's.
PushNextIndex(t) ==
    /\ Goto(t, "relPush", "relCount")
    /\ stack' = <<slot[t] + 1>> \o stack
    /\ UNCHANGED <<sessionCount, lastId, refVars, connVars, sendVars, opVars, histVars, localVars>>

PushIndex(t) ==
    /\ Goto(t, "relPush", "relCount")
    /\ stack' = <<slot[t]>> \o stack
    /\ UNCHANGED <<sessionCount, lastId, refVars, connVars, sendVars, opVars, histVars, localVars>>

ReleaseCount(t) ==
    /\ Return(t, "relCount")
    /\ sessionCount' = sessionCount - 1
    /\ UNCHANGED <<stack, lastId, refVars, connVars, sendVars, opVars, histVars>>

-----------------------------------------------------------------------------
AcceptStep(t) ==
    \/ PopIndex(t) \/ InsertFields(t) \/ InsertZero(t) \/ InsertFlag(t) \/ InsertOne(t)
    \/ InsertCount(t) \/ Associate(t) \/ AssociateFailed(t) \/ OnClientJoin(t)

CompletionStep(t) ==
    \/ RecvComplete(t) \/ SendComplete(t) \/ SendCompleteFlag(t)
    \/ PostRecvRef(t) \/ PostRecv(t)
    \/ PostSendTest(t) \/ PostSendCas(t) \/ PostSendRetest(t) \/ PostSendReset(t)
    \/ PostSendRef(t) \/ PostSend(t) \/ PostFailed(t) \/ Drop(t)

CallStep(t) ==
    \/ CheckReleased(t) \/ CheckRef(t) \/ CheckId(t) \/ CheckReleasedAgain(t)
    \/ Enqueue(t) \/ Disconnect(t)

ReleaseStep(t) ==
    \/ ReleaseTest(t) \/ ReleaseCas(t) \/ ReleaseClose(t) \/ OnClientLeave(t)
    \/ ReleaseDrain(t) \/ ReleaseClear(t) \/ PushIndex(t) \/ ReleaseCount(t)

\* A step of a handler a thread has entered; the rest are new work.
Step(t) == AcceptStep(t) \/ CompletionStep(t) \/ CallStep(t) \/ ReleaseStep(t)

Take(t, s) == TakeRecv(t, s) \/ TakeSend(t, s) \/ TakeDown(t, s)

Next ==
    \E t \in Threads :
        \/ Step(t)
        \/ Accept(t)
        \/ \E s \in Slots : Take(t, s)
        \/ \E i \in joined : Call(t, i)

Spec == Init /\ [][Next]_vars

\* A thread inside a handler runs on.  The port is first-in first-out, and operations of
\* a dead socket do complete: one that waits is taken by some worker in the end.
Dead(s) == sock[s] \in {"reset", "closed"}
TakeDead(s) == Dead(s) /\ \E t \in Workers : TakeDown(t, s)

Fairness ==
    /\ \A t \in Threads : WF_vars(Step(t))
    /\ \A s \in Slots : SF_vars(TakeDead(s))

FairSpec == Spec /\ Fairness

-----------------------------------------------------------------------------
(* Properties.                                                             *)

TableType == stack \in Seq(Slots) /\ sessionCount \in Int /\ lastId \in Nat
ConnType  == /\ id \in [Slots -> Ids]
             /\ sock \in [Slots -> {"invalid", "open", "reset", "closed"}]
RefType   == io \in [Slots -> Int] /\ released \in [Slots -> BOOLEAN]
SendType  == /\ sending \in [Slots -> BOOLEAN]
             /\ sendQ \in [Slots -> Nat]
             /\ packets \in [Slots -> Nat]
OpType    == recvOps \in [Slots -> Nat] /\ sendOps \in [Slots -> Nat]
HistType  == joined \subseteq Ids /\ gone \subseteq Ids
PcType    == pc \in [Threads -> Labels]
LocalType == /\ slot \in [Threads -> Slots \cup {NoSlot}]
             /\ sid \in [Threads -> Ids]
             /\ ret \in [Threads -> {"idle", "drop"}]

\* Every variable keeps its type; lIOCount is any integer, because the insertion window
\* lets a late decrement take it below zero.
TypeOK ==
    /\ TableType /\ ConnType /\ RefType /\ SendType /\ OpType /\ HistType
    /\ PcType /\ LocalType

PopFinds     == \A t \in Threads : pc[t] = "acPop" => stack # <<>>
NoDuplicates == \A i, j \in 1 .. Len(stack) : stack[i] = stack[j] => i = j

\* PopIndex never meets an empty index stack, and no index is on it twice: the count the
\* accept thread tests is lowered only after the index is back.
IndexPool == PopFinds /\ NoDuplicates

Free(s)       == \E i \in 1 .. Len(stack) : stack[i] = s
Releasing(t)  == pc[t] \in ReleaseBody

\* However decrements race, one thread at a time runs the body of SessionRelease for a
\* slot, and never for a slot that is free.
SingleRelease ==
    \A t \in Threads : Releasing(t) =>
        /\ ~Free(slot[t])
        /\ \A u \in Threads : Releasing(u) /\ slot[u] = slot[t] => u = t

\* The strengthening that makes the two inductive.  A slot whose flag is down is in use or
\* was never handed out; each slot is in one place: free, being filled, or being released.
PreInsert == {"acInit", "acZero", "acFlag"}
Uncounted == IF pc[Acceptor] \in PreInsert \cup {"acOne", "acCount"} THEN 1 ELSE 0

NeverUsed(s) ==
    /\ \A t \in Threads : slot[t] = s => t = Acceptor /\ pc[t] \in PreInsert
    /\ recvOps[s] = 0 /\ sendOps[s] = 0
    /\ \A i \in joined : GetSessionIndex(i) # s

AcceptorLabels == {"acPop", "acCount", "acAssoc", "acDec", "join"} \cup InsertLabels

RolesInv ==
    /\ \A t \in Threads : pc[t] \notin {"idle", "acPop"} => slot[t] \in Slots
    /\ \A t \in Threads : pc[t] \in AcceptorLabels => t = Acceptor
    /\ \A s \in Slots : id[s].index \in {s, -1}

Counting == {t \in Threads : pc[t] = "relCount"}

CountInv == sessionCount + Len(stack) + Uncounted = NSlots + Cardinality(Counting)

OwnerInv ==
    /\ \A t \in Threads : Releasing(t) => released[slot[t]]
    /\ \A s \in Slots : Free(s) => released[s] \/ NeverUsed(s)
    /\ pc[Acceptor] \in PreInsert =>
          /\ ~Free(slot[Acceptor])
          /\ \A t \in Threads : Releasing(t) => slot[t] # slot[Acceptor]
          /\ released[slot[Acceptor]] \/ NeverUsed(slot[Acceptor])

\* However insertion and release race, the index stack, the session count and the release
\* flags agree: a slot is free, being filled, in use or being released, in one way only.
TableInv == RolesInv /\ CountInv /\ OwnerInv /\ IndexPool /\ SingleRelease

Posting == {"prRecv", "psSend", "dropPost"}    \* two references: the handler's, the operation's
Holding == {"acCount", "acAssoc", "acDec", "join", "rcOn", "scDone", "scFlag", "enq", "disc",
            "drop", "chkUndo", "chkId", "chkRel2"} \cup PostLabels

\* lIOCount of a slot is exactly the references held: one per handler inside the session,
\* one per overlapped operation in flight or being posted.  A session nobody refers to is
\* being released: none is leaked.
RefCountExact ==
    \A s \in Slots :
        /\ io[s] = Cardinality({t \in Threads : slot[t] = s /\ pc[t] \in Holding})
                   + Cardinality({t \in Threads : slot[t] = s /\ pc[t] \in Posting})
                   + recvOps[s] + sendOps[s]
        /\ id[s] # NoId /\ io[s] = 0 /\ ~Inserting(s) =>
              \E t \in Threads : slot[t] = s /\ pc[t] \in {"relTest", "relCas"} \cup ReleaseBody

\* A thread past its check works on a live session, and a caller on the very session it
\* named: no packet reaches, and no Disconnect closes, the slot's next owner.
HeldIsLive ==
    \A t \in Threads :
        pc[t] \in {"join", "rcOn", "scDone", "scFlag", "enq", "disc"} \cup PostLabels =>
            /\ ~released[slot[t]]
            /\ id[slot[t]] # NoId
            /\ sock[slot[t]] # "invalid"
            /\ t \in Callers => id[slot[t]] = sid[t]

\* A session's RecvOverlapped and SendOverlapped are never reused in flight.  The packets
\* SendComplete will remove, dwPacketCount of them, are those the WSASend carried: they are
\* still queued, and bIsSend has kept every other sender out.
OneOverlapped ==
    \A s \in Slots :
        /\ recvOps[s] + Cardinality({t \in Threads : slot[t] = s /\ pc[t] \in {"prPost", "prRecv"}}) <= 1
        /\ sendOps[s] + Cardinality({t \in Threads : slot[t] = s /\ pc[t] \in {"psPost", "psSend"}}) <= 1
        /\ (sendOps[s] > 0 \/ \E t \in Threads : slot[t] = s /\ pc[t] \in {"psSend", "scDone"}) =>
              sending[s] /\ packets[s] \in 1 .. sendQ[s]

\* The callbacks keep the promise of SessionEvents: per session the application sees the
\* join, then receives one at a time, then one leave, and nothing after.
Events == INSTANCE SessionEvents WITH
    Sessions  <- {CreateSessionID(n, s) : n \in 1 .. MaxSessions, s \in Slots},
    receiving <- {id[slot[t]] : t \in {w \in Workers : pc[w] = "rcOn"}}

EventsSpec == Events!Spec

\* InsertSession only ever fills a slot its last owner left clean.
FreeSlotIsClean ==
    \A s \in Slots : Free(s) =>
        /\ id[s] = NoId /\ sock[s] = "invalid"
        /\ ~sending[s] /\ sendQ[s] = 0 /\ packets[s] = 0
        /\ recvOps[s] = 0 /\ sendOps[s] = 0

\* The comment of SessionReleaseCheck: an increment that yields one means that a release
\* of this session is going on somewhere.
IncToOneMeansRelease ==
    [][\A t \in Threads : CheckRef(t) /\ io'[slot[t]] = 1 =>
          \/ released[slot[t]]
          \/ \E u \in Threads : slot[u] = slot[t] /\ pc[u] \in {"relTest", "relCas"}]_vars

\* A session whose socket is gone is released in the end: the slot comes back.
DeadIsReleased ==
    \A s \in Slots : Dead(s) ~> sock[s] = "invalid"

\* A queued packet is not forgotten: some thread starts a send, or the queue goes away.
NoLostWakeup ==
    \A s \in Slots : (sendQ[s] > 0 /\ ~sending[s]) ~> (sending[s] \/ sendQ[s] = 0)
=============================================================================
