------------------------ MODULE NetSessionRefProofs ------------------------
(***************************************************************************)
(* The reference counts of the sessions are exact, and what they protect   *)
(* is safe: for every number of slots, workers, callers and connections,   *)
(* as long as the insertion window is closed (WindowClosed).               *)
(***************************************************************************)
EXTENDS NetSessionProofs

-----------------------------------------------------------------------------
(* The inductive invariant, part by part.                                  *)

\* The insertion window is closed: no thread inspects a slot while it is being filled, and
\* CreateIoCompletionPort fails at most for the first connection, whose id nobody knows yet.
WindowClosed == Quiet /\ AssocFails \subseteq {1}

\* The threads at the steps L in a slot, and whether t is one of them.
At(s, L)         == {t \in Threads : slot[t] = s /\ pc[t] \in L}
Present(t, s, L) == IF slot[t] = s /\ pc[t] \in L THEN 1 ELSE 0

\* A thread that is nowhere is idle or has no slot yet; PostRecv and PostSend never release.
Whereabouts ==
    \A t \in Threads : /\ slot[t] = NoSlot <=> pc[t] \in {"idle", "acPop"}
                       /\ ret[t] = "idle"

\* Nobody but threads on their way out is in the slot being filled.
Filling ==
    pc[Acceptor] \in InsertLabels =>
        /\ \A t \in Threads \ {Acceptor} : slot[t] = slot[Acceptor] => pc[t] = "relCount"
        /\ recvOps[slot[Acceptor]] = 0 /\ sendOps[slot[Acceptor]] = 0
        /\ pc[Acceptor] = "acOne" => ~released[slot[Acceptor]]
        /\ pc[Acceptor] # "acInit" => id[slot[Acceptor]] # NoId

\* Nothing is done for a session that was released.
Passive == CheckLabels \cup ReleaseLabels \cup InsertLabels
ClosedAt(s) == released[s] =>
    /\ recvOps[s] = 0 /\ sendOps[s] = 0
    /\ \A t \in Threads : slot[t] = s => pc[t] \in Passive

\* What a slot's id tells.
Leaving == {"relClose", "relLeave", "relDrain", "relClear"}
NamedAt(s) ==
    /\ sock[s] = "invalid" <=> id[s] = NoId
    /\ id[s] = NoId /\ ~released[s] => NeverUsed(s)
    /\ id[s] # NoId /\ released[s] =>
          \/ \E t \in Threads : slot[t] = s /\ pc[t] \in Leaving
          \/ slot[Acceptor] = s /\ pc[Acceptor] \in {"acZero", "acFlag"}
    /\ \A t \in Threads : slot[t] = s /\ pc[t] \in Leaving => id[s] # NoId

\* Nobody refers to the session: one that reached zero is about to release it.
UnusedAt(s) ==
    id[s] # NoId /\ ~released[s] /\ io[s] = 0 /\ ~Inserting(s) =>
        \E t \in Threads : slot[t] = s /\ pc[t] \in {"relTest", "relCas"}

CountAt(s) ==
    io[s] = Cardinality(At(s, Holding)) + Cardinality(At(s, Posting)) + recvOps[s] + sendOps[s]

\* Who a caller works for, and which threads do what.
CallerHolds(t) ==
    /\ pc[t] \in {"rcOn", "scDone", "scFlag"} => t \in Workers
    /\ pc[t] \in {"prPost", "prRecv"} => t \notin Callers
    /\ pc[t] = "chkRel2" => released[slot[t]] \/ id[slot[t]] = sid[t]
    /\ t \in Callers /\ pc[t] \in {"enq", "disc"} \cup PostLabels => id[slot[t]] = sid[t]
CallersHold == \A t \in Threads : CallerHolds(t)

\* Ids are not given twice.
BeforeJoin == {"acZero", "acFlag", "acOne", "acCount", "acAssoc", "acDec", "join"}
Numbered ==
    /\ lastId <= MaxSessions /\ (pc[Acceptor] \in {"acPop", "acInit"} => lastId < MaxSessions)
    /\ \A i \in joined \cup gone : i.id \in 1 .. lastId
    /\ \A s \in Slots : id[s] # NoId => id[s].id \in 1 .. lastId /\ id[s] = CreateSessionID(id[s].id, s)
    /\ \A s, r \in Slots : id[s] # NoId /\ id[s].id = id[r].id => s = r
    /\ pc[Acceptor] \in BeforeJoin =>
          /\ id[slot[Acceptor]] = CreateSessionID(lastId, slot[Acceptor])
          /\ \A i \in joined \cup gone : i.id # lastId

\* Before the first join there is nothing to do for anybody but the accept thread.
Quiescent ==
    /\ joined = {} => /\ \A t \in Threads \ {Acceptor} : pc[t] = "idle"
                      /\ pc[Acceptor] \in {"idle"} \cup AcceptorLabels \cup ReleaseLabels
                      /\ \A s \in Slots : recvOps[s] = 0 /\ sendOps[s] = 0
    /\ pc[Acceptor] = "acDec" => lastId = 1

RefInv ==
    /\ Whereabouts /\ Filling /\ CallersHold /\ Numbered /\ Quiescent
    /\ \A s \in Slots : ClosedAt(s) /\ NamedAt(s) /\ UnusedAt(s) /\ CountAt(s)

\* One receive is posted, outstanding or handled.
Receivers == {"rcOn", "prPost", "prRecv"}
Receiving(s) == recvOps[s] + Cardinality(At(s, Receivers))
ReceiveAt(s) ==
    /\ Receiving(s) <= 1
    /\ slot[Acceptor] = s /\ pc[Acceptor] \in {"acCount", "acAssoc", "acDec", "join"} => Receiving(s) = 0
    /\ Receiving(s) > 0 => id[s] \in joined

\* One thread, or the WSASend outstanding, has bIsSend, and the batch is still queued.
Senders == {"psTest2", "psReset", "psPost", "psSend", "scDone", "scFlag"}
Sends(s) == sendOps[s] + Cardinality(At(s, Senders))
SendAt(s) ==
    /\ Sends(s) <= 1
    /\ Sends(s) > 0 => sending[s]
    /\ (\E t \in Threads : slot[t] = s /\ pc[t] = "psPost") => sendQ[s] > 0
    /\ (sendOps[s] > 0 \/ \E t \in Threads : slot[t] = s /\ pc[t] \in {"psSend", "scDone"}) =>
          packets[s] \in 1 .. sendQ[s]

\* What is left of a session at the end of its release.
CleanAt(s) ==
    /\ (\E t \in Threads : slot[t] = s /\ pc[t] = "relClear") => sendQ[s] = 0
    /\ Free(s) \/ (\E t \in Threads : slot[t] = s /\ pc[t] = "relPush") =>
          id[s] = NoId /\ ~sending[s] /\ sendQ[s] = 0 /\ packets[s] = 0

\* Who is gone.
GoneAt(s) == id[s] \in gone =>
    released[s] /\ \A t \in Threads : slot[t] = s => pc[t] \notin {"relClose", "relLeave"}

EventInv == \A s \in Slots : ReceiveAt(s) /\ SendAt(s) /\ CleanAt(s) /\ GoneAt(s)

-----------------------------------------------------------------------------
(* Counting threads.                                                       *)

LEMMA AtFinite ==
    ASSUME NEW s, NEW L
    PROVE  IsFiniteSet(At(s, L)) /\ Cardinality(At(s, L)) \in Nat
           /\ (Cardinality(At(s, L)) = 0 <=> At(s, L) = {})
  <1>1. IsFiniteSet(At(s, L))
    BY ThreadFacts, FS_Subset DEF At
  <1> QED
    BY <1>1, FS_CardinalityType, FS_EmptySet

\* Only the thread that moves enters or leaves the set.
LEMMA AtMoves ==
    ASSUME NEW t \in Threads, NEW s, NEW L,
           \A u \in Threads \ {t} : pc'[u] = pc[u] /\ slot'[u] = slot[u]
    PROVE  /\ Cardinality(At(s, L)') \in Nat
           /\ Cardinality(At(s, L)') + Present(t, s, L) = Cardinality(At(s, L)) + Present(t, s, L)'
  <1> DEFINE A == At(s, L)
             B == At(s, L)'
  <1>1. A \ {t} = B \ {t}
    BY DEF At
  <1>2. IsFiniteSet(A) /\ IsFiniteSet(B) /\ Cardinality(A) \in Nat /\ Cardinality(B) \in Nat
    <2>1. IsFiniteSet(A) /\ IsFiniteSet(B)
      BY ThreadFacts, FS_Subset DEF At
    <2> QED
      BY <2>1, FS_CardinalityType
  <1>3. Cardinality(A) = Cardinality(A \ {t}) + Present(t, s, L)
    <2>1. t \in A <=> Present(t, s, L) = 1
      BY DEF At, Present
    <2>2. Present(t, s, L) \in {0, 1}
      BY DEF Present
    <2>3. CASE t \in A
      <3>1. Cardinality(A \ {t}) = Cardinality(A) - 1
        BY <1>2, <2>3, FS_RemoveElement
      <3> HIDE DEF A
      <3> QED
        BY <1>2, <2>1, <2>3, <3>1
    <2>4. CASE t \notin A
      <3>1. A \ {t} = A
        BY <2>4
      <3> QED
        BY <1>2, <2>1, <2>2, <2>4, <3>1
    <2> QED
      BY <2>3, <2>4
  <1>4. Cardinality(B) = Cardinality(B \ {t}) + Present(t, s, L)'
    <2>1. t \in B <=> Present(t, s, L)' = 1
      BY DEF At, Present
    <2>2. Present(t, s, L)' \in {0, 1}
      BY DEF Present
    <2>3. CASE t \in B
      <3>1. Cardinality(B \ {t}) = Cardinality(B) - 1
        BY <1>2, <2>3, FS_RemoveElement
      <3> HIDE DEF B
      <3> QED
        BY <1>2, <2>1, <2>3, <3>1
    <2>4. CASE t \notin B
      <3>1. B \ {t} = B
        BY <2>4
      <3> QED
        BY <1>2, <2>1, <2>2, <2>4, <3>1
    <2> QED
      BY <2>3, <2>4
  <1>5. Cardinality(A \ {t}) = Cardinality(B \ {t}) /\ Cardinality(A \ {t}) \in Int
    <2>1. IsFiniteSet(A \ {t})
      BY <1>2, FS_Subset
    <2> HIDE DEF A, B
    <2>2. Cardinality(A \ {t}) \in Nat
      BY <2>1, FS_CardinalityType
    <2> QED
      BY <1>1, <2>2
  <1>6. Present(t, s, L) \in {0, 1} /\ Present(t, s, L)' \in {0, 1}
    BY DEF Present
  <1> HIDE DEF A, B
  <1>7. Cardinality(B) + Present(t, s, L) = Cardinality(A) + Present(t, s, L)'
    BY <1>2, <1>3, <1>4, <1>5, <1>6
  <1> QED
    BY <1>2, <1>7 DEF A, B

\* Whoever is in a slot is counted.
LEMMA CountFacts ==
    ASSUME TypeInv, NEW s \in Slots, CountAt(s)
    PROVE  /\ io[s] \in Nat
           /\ io[s] = 0 => recvOps[s] = 0 /\ sendOps[s] = 0 /\ At(s, Holding) = {} /\ At(s, Posting) = {}
           /\ \A t \in Threads : slot[t] = s /\ pc[t] \in Holding => io[s] >= 1
           /\ \A t \in Threads : slot[t] = s /\ pc[t] \in Posting => io[s] >= 2
  <1>1. recvOps[s] \in Nat /\ sendOps[s] \in Nat
    BY DEF TypeInv, TypeOK, OpType
  <1>2. /\ Cardinality(At(s, Holding)) \in Nat /\ Cardinality(At(s, Posting)) \in Nat
        /\ Cardinality(At(s, Holding)) = 0 <=> At(s, Holding) = {}
        /\ Cardinality(At(s, Posting)) = 0 <=> At(s, Posting) = {}
    BY AtFinite
  <1>3. io[s] = Cardinality(At(s, Holding)) + Cardinality(At(s, Posting)) + recvOps[s] + sendOps[s]
    BY DEF CountAt
  <1>4. \A t \in Threads : slot[t] = s /\ pc[t] \in Holding => At(s, Holding) # {}
    BY DEF At
  <1>5. \A t \in Threads : slot[t] = s /\ pc[t] \in Posting => At(s, Holding) # {} /\ At(s, Posting) # {}
    BY DEF At, Posting, Holding, PostLabels
  <1>6. io[s] \in Nat /\ (At(s, Holding) # {} => io[s] >= 1)
        /\ (At(s, Holding) # {} /\ At(s, Posting) # {} => io[s] >= 2)
    BY <1>1, <1>2, <1>3
  <1>7. io[s] = 0 => recvOps[s] = 0 /\ sendOps[s] = 0 /\ At(s, Holding) = {} /\ At(s, Posting) = {}
    BY <1>1, <1>2, <1>3
  <1> QED
    BY <1>4, <1>5, <1>6, <1>7

-----------------------------------------------------------------------------
(* A step is one of one thread at one slot.                                *)

Acts(t) ==
    \/ Step(t) \/ Accept(t)
    \/ \E r \in Slots : Take(t, r)
    \/ \E i \in joined : Call(t, i)

Local(t, s) ==
    /\ slot[t] \in {s, NoSlot} /\ slot'[t] \in {s, NoSlot}
    /\ pc[t] \notin {"idle", "acPop"} => slot[t] = s
    /\ pc'[t] \notin {"idle", "acPop"} => slot'[t] = s
    /\ \A u \in Threads \ {t} :
          /\ pc'[u] = pc[u] /\ slot'[u] = slot[u]
          /\ sid'[u] = sid[u] /\ ret'[u] = ret[u]
    /\ \A r \in Slots \ {s} :
          /\ id'[r] = id[r] /\ sock'[r] = sock[r]
          /\ io'[r] = io[r] /\ released'[r] = released[r]
          /\ sending'[r] = sending[r] /\ sendQ'[r] = sendQ[r] /\ packets'[r] = packets[r]
          /\ recvOps'[r] = recvOps[r] /\ sendOps'[r] = sendOps[r]

\* Whatever a thread does, it does to one slot.
LEMMA Locality ==
    ASSUME TypeInv, Whereabouts, TypeInv', NEW t \in Threads, Acts(t)
    PROVE  \E s \in Slots : Local(t, s)
  <1> USE DEF tableVars, refVars, connVars, sendVars, opVars, histVars, localVars, Goto
  <1>a. /\ pc \in [Threads -> Labels] /\ slot \in [Threads -> Slots \cup {NoSlot}]
        /\ sid \in [Threads -> Ids] /\ ret \in [Threads -> {"idle", "drop"}]
        /\ DOMAIN id = Slots /\ DOMAIN sock = Slots /\ DOMAIN io = Slots /\ DOMAIN released = Slots
        /\ DOMAIN sending = Slots /\ DOMAIN sendQ = Slots /\ DOMAIN packets = Slots
        /\ DOMAIN recvOps = Slots /\ DOMAIN sendOps = Slots
    BY DEF TypeInv, TypeOK, PcType, LocalType, ConnType, RefType, SendType, OpType
  <1>b. /\ pc[t] \notin {"idle", "acPop"} => slot[t] \in Slots
        /\ pc'[t] \notin {"idle", "acPop"} => slot'[t] \in Slots
        /\ slot'[t] \in Slots \cup {NoSlot}
        /\ pc[t] \in {"idle", "acPop"} => slot[t] = NoSlot
    BY DEF TypeInv, TypeOK, LocalType, RolesInv, Whereabouts
  <1>c. 0 \in Slots
    BY SlotsAssumption DEF Slots
  <1>1. CASE PopIndex(t)
    <2>1. PICK s \in Slots : s = slot'[t]
      BY <1>1, <1>a, <1>b DEF PopIndex
    <2>2. Local(t, s)
      BY <1>1, <1>a, <1>b, <2>1 DEF PopIndex, Local
    <2> QED
      BY <2>2
  <1>2. CASE InsertFields(t)
    <2> HIDE DEF Local
    <2>1. PICK s \in Slots : s = slot[t]
      BY <1>2, <1>b DEF InsertFields
    <2>2. Local(t, s)
      BY <1>2, <1>a, <1>b, <2>1 DEF InsertFields, Local
    <2> QED
      BY <2>2
  <1>3. CASE InsertZero(t)
    <2> HIDE DEF Local
    <2>1. PICK s \in Slots : s = slot[t]
      BY <1>3, <1>b DEF InsertZero
    <2>2. Local(t, s)
      BY <1>3, <1>a, <1>b, <2>1 DEF InsertZero, Local
    <2> QED
      BY <2>2
  <1>4. CASE InsertFlag(t)
    <2> HIDE DEF Local
    <2>1. PICK s \in Slots : s = slot[t]
      BY <1>4, <1>b DEF InsertFlag
    <2>2. Local(t, s)
      BY <1>4, <1>a, <1>b, <2>1 DEF InsertFlag, Local
    <2> QED
      BY <2>2
  <1>5. CASE InsertOne(t)
    <2> HIDE DEF Local
    <2>1. PICK s \in Slots : s = slot[t]
      BY <1>5, <1>b DEF InsertOne
    <2>2. Local(t, s)
      BY <1>5, <1>a, <1>b, <2>1 DEF InsertOne, Local
    <2> QED
      BY <2>2
  <1>6. CASE InsertCount(t)
    <2> HIDE DEF Local
    <2>1. PICK s \in Slots : s = slot[t]
      BY <1>6, <1>b DEF InsertCount
    <2>2. Local(t, s)
      BY <1>6, <1>a, <1>b, <2>1 DEF InsertCount, Local
    <2> QED
      BY <2>2
  <1>7. CASE Associate(t)
    <2> HIDE DEF Local
    <2>1. PICK s \in Slots : s = slot[t]
      BY <1>7, <1>b DEF Associate
    <2>2. Local(t, s)
      BY <1>7, <1>a, <1>b, <2>1 DEF Associate, Local
    <2> QED
      BY <2>2
  <1>8. CASE AssociateFailed(t)
    <2> HIDE DEF Local
    <2>1. PICK s \in Slots : s = slot[t]
      BY <1>8, <1>b DEF AssociateFailed, Dec
    <2>2. Local(t, s)
      BY <1>8, <1>a, <1>b, <2>1 DEF AssociateFailed, Dec, Local
    <2> QED
      BY <2>2
  <1>9. CASE OnClientJoin(t)
    <2> HIDE DEF Local
    <2>1. PICK s \in Slots : s = slot[t]
      BY <1>9, <1>b DEF OnClientJoin
    <2>2. Local(t, s)
      BY <1>9, <1>a, <1>b, <2>1 DEF OnClientJoin, Local
    <2> QED
      BY <2>2
  <1>10. CASE RecvComplete(t)
    <2> HIDE DEF Local
    <2>1. PICK s \in Slots : s = slot[t]
      BY <1>10, <1>b DEF RecvComplete, DisconnectSession
    <2>2. Local(t, s)
      BY <1>10, <1>a, <1>b, <2>1 DEF RecvComplete, DisconnectSession, Local
    <2> QED
      BY <2>2
  <1>11. CASE SendComplete(t)
    <2> HIDE DEF Local
    <2>1. PICK s \in Slots : s = slot[t]
      BY <1>11, <1>b DEF SendComplete
    <2>2. Local(t, s)
      BY <1>11, <1>a, <1>b, <2>1 DEF SendComplete, Local
    <2> QED
      BY <2>2
  <1>12. CASE SendCompleteFlag(t)
    <2> HIDE DEF Local
    <2>1. PICK s \in Slots : s = slot[t]
      BY <1>12, <1>b DEF SendCompleteFlag
    <2>2. Local(t, s)
      BY <1>12, <1>a, <1>b, <2>1 DEF SendCompleteFlag, Local
    <2> QED
      BY <2>2
  <1>13. CASE PostRecvRef(t)
    <2> HIDE DEF Local
    <2>1. PICK s \in Slots : s = slot[t]
      BY <1>13, <1>b DEF PostRecvRef, Inc
    <2>2. Local(t, s)
      BY <1>13, <1>a, <1>b, <2>1 DEF PostRecvRef, Inc, Local
    <2> QED
      BY <2>2
  <1>14. CASE PostRecv(t)
    <2> HIDE DEF Local
    <2>1. PICK s \in Slots : s = slot[t]
      BY <1>14, <1>b DEF PostRecv
    <2>2. Local(t, s)
      BY <1>14, <1>a, <1>b, <2>1 DEF PostRecv, Local
    <2> QED
      BY <2>2
  <1>15. CASE PostSendTest(t)
    <2> HIDE DEF Local
    <2>1. PICK s \in Slots : s = slot[t]
      BY <1>15, <1>b DEF PostSendTest
    <2>2. Local(t, s)
      BY <1>15, <1>a, <1>b, <2>1 DEF PostSendTest, Local
    <2> QED
      BY <2>2
  <1>16. CASE PostSendCas(t)
    <2> HIDE DEF Local
    <2>1. PICK s \in Slots : s = slot[t]
      BY <1>16, <1>b DEF PostSendCas
    <2>2. Local(t, s)
      BY <1>16, <1>a, <1>b, <2>1 DEF PostSendCas, Local
    <2> QED
      BY <2>2
  <1>17. CASE PostSendRetest(t)
    <2> HIDE DEF Local
    <2>1. PICK s \in Slots : s = slot[t]
      BY <1>17, <1>b DEF PostSendRetest
    <2>2. Local(t, s)
      BY <1>17, <1>a, <1>b, <2>1 DEF PostSendRetest, Local
    <2> QED
      BY <2>2
  <1>18. CASE PostSendReset(t)
    <2> HIDE DEF Local
    <2>1. PICK s \in Slots : s = slot[t]
      BY <1>18, <1>b DEF PostSendReset
    <2>2. Local(t, s)
      BY <1>18, <1>a, <1>b, <2>1 DEF PostSendReset, Local
    <2> QED
      BY <2>2
  <1>19. CASE PostSendRef(t)
    <2> HIDE DEF Local
    <2>1. PICK s \in Slots : s = slot[t]
      BY <1>19, <1>b DEF PostSendRef, Inc
    <2>2. Local(t, s)
      BY <1>19, <1>a, <1>b, <2>1 DEF PostSendRef, Inc, Local
    <2> QED
      BY <2>2
  <1>20. CASE PostSend(t)
    <2> HIDE DEF Local
    <2>1. PICK s \in Slots : s = slot[t]
      BY <1>20, <1>b DEF PostSend
    <2>2. Local(t, s)
      BY <1>20, <1>a, <1>b, <2>1 DEF PostSend, Local
    <2> QED
      BY <2>2
  <1>21. CASE PostFailed(t)
    <2> HIDE DEF Local
    <2>1. PICK s \in Slots : s = slot[t]
      BY <1>21, <1>b DEF PostFailed, Dec
    <2>2. Local(t, s)
      BY <1>21, <1>a, <1>b, <2>1 DEF PostFailed, Dec, Local
    <2> QED
      BY <2>2
  <1>22. CASE Drop(t)
    <2>1. PICK s \in Slots : s = slot[t]
      BY <1>22, <1>b DEF Drop
    <2>2. pc[t] \in {"drop", "chkUndo"}
      BY <1>22 DEF Drop
    <2>3. Local(t, s)
      BY <1>22, <1>a, <1>b, <2>1, <2>2 DEF Drop, Forget, Dec, Local
    <2> QED
      BY <2>3
  <1>23. CASE CheckReleased(t)
    <2> HIDE DEF Local
    <2>1. PICK s \in Slots : s = slot[t]
      BY <1>23, <1>b DEF CheckReleased, Forget
    <2>2. Local(t, s)
      BY <1>23, <1>a, <1>b, <2>1 DEF CheckReleased, Forget, Local
    <2> QED
      BY <2>2
  <1>24. CASE CheckRef(t)
    <2> HIDE DEF Local
    <2>1. PICK s \in Slots : s = slot[t]
      BY <1>24, <1>b DEF CheckRef, Inc
    <2>2. Local(t, s)
      BY <1>24, <1>a, <1>b, <2>1 DEF CheckRef, Inc, Local
    <2> QED
      BY <2>2
  <1>25. CASE CheckId(t)
    <2> HIDE DEF Local
    <2>1. PICK s \in Slots : s = slot[t]
      BY <1>25, <1>b DEF CheckId
    <2>2. Local(t, s)
      BY <1>25, <1>a, <1>b, <2>1 DEF CheckId, Local
    <2> QED
      BY <2>2
  <1>26. CASE CheckReleasedAgain(t)
    <2> HIDE DEF Local
    <2>1. PICK s \in Slots : s = slot[t]
      BY <1>26, <1>b DEF CheckReleasedAgain
    <2>2. Local(t, s)
      BY <1>26, <1>a, <1>b, <2>1 DEF CheckReleasedAgain, Local
    <2> QED
      BY <2>2
  <1>27. CASE Enqueue(t)
    <2> HIDE DEF Local
    <2>1. PICK s \in Slots : s = slot[t]
      BY <1>27, <1>b DEF Enqueue
    <2>2. Local(t, s)
      BY <1>27, <1>a, <1>b, <2>1 DEF Enqueue, Local
    <2> QED
      BY <2>2
  <1>28. CASE Disconnect(t)
    <2> HIDE DEF Local
    <2>1. PICK s \in Slots : s = slot[t]
      BY <1>28, <1>b DEF Disconnect, DisconnectSession
    <2>2. Local(t, s)
      BY <1>28, <1>a, <1>b, <2>1 DEF Disconnect, DisconnectSession, Local
    <2> QED
      BY <2>2
  <1>29. CASE ReleaseTest(t)
    <2> HIDE DEF Local
    <2>1. PICK s \in Slots : s = slot[t]
      BY <1>29, <1>b DEF ReleaseTest, Forget, Return
    <2>2. Local(t, s)
      BY <1>29, <1>a, <1>b, <2>1 DEF ReleaseTest, Forget, Return, Local
    <2> QED
      BY <2>2
  <1>30. CASE ReleaseCas(t)
    <2> HIDE DEF Local
    <2>1. PICK s \in Slots : s = slot[t]
      BY <1>30, <1>b DEF ReleaseCas, Forget, Return
    <2>2. Local(t, s)
      BY <1>30, <1>a, <1>b, <2>1 DEF ReleaseCas, Forget, Return, Local
    <2> QED
      BY <2>2
  <1>31. CASE ReleaseClose(t)
    <2> HIDE DEF Local
    <2>1. PICK s \in Slots : s = slot[t]
      BY <1>31, <1>b DEF ReleaseClose, DisconnectSession
    <2>2. Local(t, s)
      BY <1>31, <1>a, <1>b, <2>1 DEF ReleaseClose, DisconnectSession, Local
    <2> QED
      BY <2>2
  <1>32. CASE OnClientLeave(t)
    <2> HIDE DEF Local
    <2>1. PICK s \in Slots : s = slot[t]
      BY <1>32, <1>b DEF OnClientLeave
    <2>2. Local(t, s)
      BY <1>32, <1>a, <1>b, <2>1 DEF OnClientLeave, Local
    <2> QED
      BY <2>2
  <1>33. CASE ReleaseDrain(t)
    <2> HIDE DEF Local
    <2>1. PICK s \in Slots : s = slot[t]
      BY <1>33, <1>b DEF ReleaseDrain
    <2>2. Local(t, s)
      BY <1>33, <1>a, <1>b, <2>1 DEF ReleaseDrain, Local
    <2> QED
      BY <2>2
  <1>34. CASE ReleaseClear(t)
    <2> HIDE DEF Local
    <2>1. PICK s \in Slots : s = slot[t]
      BY <1>34, <1>b DEF ReleaseClear
    <2>2. Local(t, s)
      BY <1>34, <1>a, <1>b, <2>1 DEF ReleaseClear, Local
    <2> QED
      BY <2>2
  <1>35. CASE PushIndex(t)
    <2> HIDE DEF Local
    <2>1. PICK s \in Slots : s = slot[t]
      BY <1>35, <1>b DEF PushIndex
    <2>2. Local(t, s)
      BY <1>35, <1>a, <1>b, <2>1 DEF PushIndex, Local
    <2> QED
      BY <2>2
  <1>36. CASE ReleaseCount(t)
    <2> HIDE DEF Local
    <2>1. PICK s \in Slots : s = slot[t]
      BY <1>36, <1>b DEF ReleaseCount, Forget, Return
    <2>2. Local(t, s)
      BY <1>36, <1>a, <1>b, <2>1 DEF ReleaseCount, Forget, Return, Local
    <2> QED
      BY <2>2
  <1>37. CASE Accept(t)
    <2>1. Local(t, 0)
      BY <1>37, <1>a, <1>b, <1>c DEF Accept, Local
    <2> QED
      BY <1>c, <2>1
  <1>38. ASSUME NEW r \in Slots, TakeRecv(t, r)
        PROVE  \E s \in Slots : Local(t, s)
    <2>1. PICK s \in Slots : s = r
      OBVIOUS
    <2>2. Local(t, s)
      BY <1>38, <1>a, <1>b, <2>1 DEF TakeRecv, Local
    <2> QED
      BY <2>2
  <1>39. ASSUME NEW r \in Slots, TakeSend(t, r)
        PROVE  \E s \in Slots : Local(t, s)
    <2>1. PICK s \in Slots : s = r
      OBVIOUS
    <2>2. Local(t, s)
      BY <1>39, <1>a, <1>b, <2>1 DEF TakeSend, Local
    <2> QED
      BY <2>2
  <1>40. ASSUME NEW r \in Slots, TakeDown(t, r)
        PROVE  \E s \in Slots : Local(t, s)
    <2>1. PICK s \in Slots : s = r
      OBVIOUS
    <2>2. Local(t, s)
      BY <1>40, <1>a, <1>b, <2>1 DEF TakeDown, Local
    <2> QED
      BY <2>2
  <1>41. ASSUME NEW i \in joined, Call(t, i)
        PROVE  \E s \in Slots : Local(t, s)
    <2>1. PICK s \in Slots : s = slot'[t]
      BY <1>41, <1>a, <1>b DEF Call
    <2>2. Local(t, s)
      BY <1>41, <1>a, <1>b, <2>1 DEF Call, GetSessionIndex, Local
    <2> QED
      BY <2>2
  <1> QED
    BY <1>1, <1>2, <1>3, <1>4, <1>5, <1>6, <1>7, <1>8, <1>9, <1>10, <1>11, <1>12,
       <1>13, <1>14, <1>15, <1>16, <1>17, <1>18, <1>19, <1>20, <1>21, <1>22, <1>23, <1>24,
       <1>25, <1>26, <1>27, <1>28, <1>29, <1>30, <1>31, <1>32, <1>33, <1>34, <1>35, <1>36,
       <1>37, <1>38, <1>39, <1>40, <1>41
       DEF Acts, Step, AcceptStep, CompletionStep, CallStep, ReleaseStep, Take

\* A step of thread t at slot s from a state that satisfies the invariant.
StepAt(t, s) ==
    /\ TypeInv /\ TypeInv' /\ TableInv /\ TableInv' /\ RefInv /\ WindowClosed
    /\ Local(t, s) /\ Acts(t)

LEMMA TypeFacts ==
    ASSUME TypeInv
    PROVE  /\ pc \in [Threads -> Labels] /\ slot \in [Threads -> Slots \cup {NoSlot}]
           /\ sid \in [Threads -> Ids] /\ ret \in [Threads -> {"idle", "drop"}]
           /\ id \in [Slots -> Ids] /\ sock \in [Slots -> {"invalid", "open", "reset", "closed"}]
           /\ io \in [Slots -> Int] /\ released \in [Slots -> BOOLEAN]
           /\ sending \in [Slots -> BOOLEAN] /\ sendQ \in [Slots -> Nat] /\ packets \in [Slots -> Nat]
           /\ recvOps \in [Slots -> Nat] /\ sendOps \in [Slots -> Nat]
           /\ joined \subseteq Ids /\ gone \subseteq Ids /\ lastId \in Nat /\ stack \in Seq(Slots)
           /\ \A t \in Threads : pc[t] \notin {"idle", "acPop"} => slot[t] \in Slots
           /\ \A t \in Threads : pc[t] \in AcceptorLabels => t = Acceptor
           /\ Acceptor \in Threads /\ NoSlot \notin Slots /\ NoId \in Ids
  BY ThreadFacts, NoIdType, SlotsAssumption
  DEF TypeInv, TypeOK, PcType, LocalType, ConnType, RefType, SendType, OpType, HistType, TableType,
      RolesInv, NoSlot, Slots

LEMMA StepWhereabouts ==
    ASSUME NEW t \in Threads, NEW s \in Slots, StepAt(t, s)
    PROVE  Whereabouts'
  <1> USE DEF tableVars, refVars, connVars, sendVars, opVars, histVars, localVars, Goto
  <1>a. /\ pc \in [Threads -> Labels] /\ slot \in [Threads -> Slots \cup {NoSlot}]
        /\ ret \in [Threads -> {"idle", "drop"}]
        /\ pc[t] \notin {"idle", "acPop"} => slot[t] \in Slots
        /\ pc'[t] \notin {"idle", "acPop"} => slot'[t] \in Slots
        /\ NoSlot \notin Slots
    BY TypeFacts DEF StepAt, TypeInv, RolesInv
  <1>b. /\ slot[t] = NoSlot <=> pc[t] \in {"idle", "acPop"}
        /\ ret[t] = "idle"
        /\ \A u \in Threads \ {t} : slot'[u] = NoSlot <=> pc'[u] \in {"idle", "acPop"}
        /\ \A u \in Threads \ {t} : ret'[u] = "idle"
    BY DEF StepAt, Local, RefInv, Whereabouts
  <1>c. ASSUME pc'[t] \in {"idle", "acPop"} => slot'[t] = NoSlot, ret'[t] = "idle"
        PROVE  Whereabouts'
    BY <1>a, <1>b, <1>c DEF Whereabouts
  <1>1. CASE PopIndex(t)
    <2>1. pc'[t] \notin {"idle", "acPop"} /\ ret'[t] = ret[t]
      BY <1>1, <1>a DEF PopIndex
    <2> QED
      BY <1>b, <1>c, <2>1
  <1>2. CASE InsertFields(t)
    <2>1. pc'[t] \notin {"idle", "acPop"} /\ ret'[t] = ret[t]
      BY <1>2, <1>a DEF InsertFields
    <2> QED
      BY <1>b, <1>c, <2>1
  <1>3. CASE InsertZero(t)
    <2>1. pc'[t] \notin {"idle", "acPop"} /\ ret'[t] = ret[t]
      BY <1>3, <1>a DEF InsertZero
    <2> QED
      BY <1>b, <1>c, <2>1
  <1>4. CASE InsertFlag(t)
    <2>1. pc'[t] \notin {"idle", "acPop"} /\ ret'[t] = ret[t]
      BY <1>4, <1>a DEF InsertFlag
    <2> QED
      BY <1>b, <1>c, <2>1
  <1>5. CASE InsertOne(t)
    <2>1. pc'[t] \notin {"idle", "acPop"} /\ ret'[t] = ret[t]
      BY <1>5, <1>a DEF InsertOne
    <2> QED
      BY <1>b, <1>c, <2>1
  <1>6. CASE InsertCount(t)
    <2>1. pc'[t] \notin {"idle", "acPop"} /\ ret'[t] = ret[t]
      BY <1>6, <1>a DEF InsertCount
    <2> QED
      BY <1>b, <1>c, <2>1
  <1>7. CASE Associate(t)
    <2>1. pc'[t] \notin {"idle", "acPop"} /\ ret'[t] = ret[t]
      BY <1>7, <1>a DEF Associate
    <2> QED
      BY <1>b, <1>c, <2>1
  <1>8. CASE AssociateFailed(t)
    <2>1. pc'[t] \notin {"idle", "acPop"} /\ ret'[t] = ret[t]
      BY <1>8, <1>a DEF AssociateFailed, Dec
    <2> QED
      BY <1>b, <1>c, <2>1
  <1>9. CASE OnClientJoin(t)
    <2>1. pc'[t] \notin {"idle", "acPop"} /\ ret'[t] = ret[t]
      BY <1>9, <1>a DEF OnClientJoin
    <2> QED
      BY <1>b, <1>c, <2>1
  <1>10. CASE RecvComplete(t)
    <2>1. pc'[t] \notin {"idle", "acPop"} /\ ret'[t] = ret[t]
      BY <1>10, <1>a DEF RecvComplete, DisconnectSession
    <2> QED
      BY <1>b, <1>c, <2>1
  <1>11. CASE SendComplete(t)
    <2>1. pc'[t] \notin {"idle", "acPop"} /\ ret'[t] = ret[t]
      BY <1>11, <1>a DEF SendComplete
    <2> QED
      BY <1>b, <1>c, <2>1
  <1>12. CASE SendCompleteFlag(t)
    <2>1. pc'[t] \notin {"idle", "acPop"} /\ ret'[t] = ret[t]
      BY <1>12, <1>a DEF SendCompleteFlag
    <2> QED
      BY <1>b, <1>c, <2>1
  <1>13. CASE PostRecvRef(t)
    <2>1. pc'[t] \notin {"idle", "acPop"} /\ ret'[t] = ret[t]
      BY <1>13, <1>a DEF PostRecvRef, Inc
    <2> QED
      BY <1>b, <1>c, <2>1
  <1>14. CASE PostRecv(t)
    <2>1. pc'[t] \notin {"idle", "acPop"} /\ ret'[t] = ret[t]
      BY <1>14, <1>a DEF PostRecv
    <2> QED
      BY <1>b, <1>c, <2>1
  <1>15. CASE PostSendTest(t)
    <2>1. pc'[t] \notin {"idle", "acPop"} /\ ret'[t] = ret[t]
      BY <1>15, <1>a DEF PostSendTest
    <2> QED
      BY <1>b, <1>c, <2>1
  <1>16. CASE PostSendCas(t)
    <2>1. pc'[t] \notin {"idle", "acPop"} /\ ret'[t] = ret[t]
      BY <1>16, <1>a DEF PostSendCas
    <2> QED
      BY <1>b, <1>c, <2>1
  <1>17. CASE PostSendRetest(t)
    <2>1. pc'[t] \notin {"idle", "acPop"} /\ ret'[t] = ret[t]
      BY <1>17, <1>a DEF PostSendRetest
    <2> QED
      BY <1>b, <1>c, <2>1
  <1>18. CASE PostSendReset(t)
    <2>1. pc'[t] \notin {"idle", "acPop"} /\ ret'[t] = ret[t]
      BY <1>18, <1>a DEF PostSendReset
    <2> QED
      BY <1>b, <1>c, <2>1
  <1>19. CASE PostSendRef(t)
    <2>1. pc'[t] \notin {"idle", "acPop"} /\ ret'[t] = ret[t]
      BY <1>19, <1>a DEF PostSendRef, Inc
    <2> QED
      BY <1>b, <1>c, <2>1
  <1>20. CASE PostSend(t)
    <2>1. pc'[t] \notin {"idle", "acPop"} /\ ret'[t] = ret[t]
      BY <1>20, <1>a DEF PostSend
    <2> QED
      BY <1>b, <1>c, <2>1
  <1>21. CASE PostFailed(t)
    <2>1. pc[t] = "dropPost" /\ slot[t] = s
      BY <1>21 DEF PostFailed, StepAt, Local
    <2>2. io[slot[t]] >= 2
      BY <2>1, CountFacts DEF StepAt, RefInv, Posting
    <2>3. pc'[t] = "drop" /\ ret'[t] = ret[t]
      BY <1>21, <1>a, <2>2 DEF PostFailed
    <2> QED
      BY <1>b, <1>c, <2>3
  <1>22. CASE Drop(t)
    BY <1>22, <1>a, <1>b, <1>c DEF Drop, Forget, Dec
  <1>23. CASE CheckReleased(t)
    BY <1>23, <1>a, <1>b, <1>c DEF CheckReleased, Forget
  <1>24. CASE CheckRef(t)
    <2>1. pc'[t] \notin {"idle", "acPop"} /\ ret'[t] = ret[t]
      BY <1>24, <1>a DEF CheckRef, Inc
    <2> QED
      BY <1>b, <1>c, <2>1
  <1>25. CASE CheckId(t)
    <2>1. pc'[t] \notin {"idle", "acPop"} /\ ret'[t] = ret[t]
      BY <1>25, <1>a DEF CheckId
    <2> QED
      BY <1>b, <1>c, <2>1
  <1>26. CASE CheckReleasedAgain(t)
    <2>1. pc'[t] \notin {"idle", "acPop"} /\ ret'[t] = ret[t]
      BY <1>26, <1>a DEF CheckReleasedAgain
    <2> QED
      BY <1>b, <1>c, <2>1
  <1>27. CASE Enqueue(t)
    <2>1. pc'[t] \notin {"idle", "acPop"} /\ ret'[t] = ret[t]
      BY <1>27, <1>a DEF Enqueue
    <2> QED
      BY <1>b, <1>c, <2>1
  <1>28. CASE Disconnect(t)
    <2>1. pc'[t] \notin {"idle", "acPop"} /\ ret'[t] = ret[t]
      BY <1>28, <1>a DEF Disconnect, DisconnectSession
    <2> QED
      BY <1>b, <1>c, <2>1
  <1>29. CASE ReleaseTest(t)
    BY <1>29, <1>a, <1>b, <1>c DEF ReleaseTest, Forget, Return
  <1>30. CASE ReleaseCas(t)
    BY <1>30, <1>a, <1>b, <1>c DEF ReleaseCas, Forget, Return
  <1>31. CASE ReleaseClose(t)
    <2>1. pc'[t] \notin {"idle", "acPop"} /\ ret'[t] = ret[t]
      BY <1>31, <1>a DEF ReleaseClose, DisconnectSession
    <2> QED
      BY <1>b, <1>c, <2>1
  <1>32. CASE OnClientLeave(t)
    <2>1. pc'[t] \notin {"idle", "acPop"} /\ ret'[t] = ret[t]
      BY <1>32, <1>a DEF OnClientLeave
    <2> QED
      BY <1>b, <1>c, <2>1
  <1>33. CASE ReleaseDrain(t)
    <2>1. pc'[t] \notin {"idle", "acPop"} /\ ret'[t] = ret[t]
      BY <1>33, <1>a DEF ReleaseDrain
    <2> QED
      BY <1>b, <1>c, <2>1
  <1>34. CASE ReleaseClear(t)
    <2>1. pc'[t] \notin {"idle", "acPop"} /\ ret'[t] = ret[t]
      BY <1>34, <1>a DEF ReleaseClear
    <2> QED
      BY <1>b, <1>c, <2>1
  <1>35. CASE PushIndex(t)
    <2>1. pc'[t] \notin {"idle", "acPop"} /\ ret'[t] = ret[t]
      BY <1>35, <1>a DEF PushIndex
    <2> QED
      BY <1>b, <1>c, <2>1
  <1>36. CASE ReleaseCount(t)
    BY <1>36, <1>a, <1>b, <1>c DEF ReleaseCount, Forget, Return
  <1>37. CASE Accept(t)
    <2>1. slot'[t] = slot[t] /\ ret'[t] = ret[t] /\ pc[t] = "idle"
      BY <1>37, <1>a DEF Accept
    <2> QED
      BY <1>b, <1>c, <2>1
  <1>38. ASSUME NEW r \in Slots, TakeRecv(t, r)
        PROVE  Whereabouts'
    <2>1. pc'[t] \notin {"idle", "acPop"} /\ ret'[t] = ret[t]
      BY <1>38, <1>a DEF TakeRecv
    <2> QED
      BY <1>b, <1>c, <2>1
  <1>39. ASSUME NEW r \in Slots, TakeSend(t, r)
        PROVE  Whereabouts'
    <2>1. pc'[t] \notin {"idle", "acPop"} /\ ret'[t] = ret[t]
      BY <1>39, <1>a DEF TakeSend
    <2> QED
      BY <1>b, <1>c, <2>1
  <1>40. ASSUME NEW r \in Slots, TakeDown(t, r)
        PROVE  Whereabouts'
    <2>1. pc'[t] \notin {"idle", "acPop"} /\ ret'[t] = ret[t]
      BY <1>40, <1>a DEF TakeDown
    <2> QED
      BY <1>b, <1>c, <2>1
  <1>41. ASSUME NEW i \in joined, Call(t, i)
        PROVE  Whereabouts'
    <2>1. pc'[t] \notin {"idle", "acPop"} /\ ret'[t] = ret[t]
      BY <1>41, <1>a DEF Call, GetSessionIndex
    <2> QED
      BY <1>b, <1>c, <2>1
  <1> QED
    BY <1>1, <1>2, <1>3, <1>4, <1>5, <1>6, <1>7, <1>8, <1>9, <1>10, <1>11, <1>12,
       <1>13, <1>14, <1>15, <1>16, <1>17, <1>18, <1>19, <1>20, <1>21, <1>22, <1>23, <1>24,
       <1>25, <1>26, <1>27, <1>28, <1>29, <1>30, <1>31, <1>32, <1>33, <1>34, <1>35, <1>36,
       <1>37, <1>38, <1>39, <1>40, <1>41
       DEF StepAt, Acts, Step, AcceptStep, CompletionStep, CallStep, ReleaseStep, Take

\* What is released stays untouched, and is released only when nobody holds it.
LEMMA StepClosed ==
    ASSUME NEW t \in Threads, NEW s \in Slots, StepAt(t, s)
    PROVE  ClosedAt(s)'
  <1> USE DEF tableVars, refVars, connVars, sendVars, opVars, histVars, localVars, Goto,
              Passive, CheckLabels, ReleaseLabels, ReleaseBody, InsertLabels
  <1>a. /\ pc \in [Threads -> Labels] /\ slot \in [Threads -> Slots \cup {NoSlot}]
        /\ DOMAIN released = Slots /\ recvOps \in [Slots -> Nat] /\ sendOps \in [Slots -> Nat]
        /\ NoSlot \notin Slots
    BY TypeFacts DEF StepAt
  <1>b. /\ ClosedAt(s) /\ CountAt(s) /\ Filling /\ ret[t] = "idle"
        /\ slot[t] \in {s, NoSlot} /\ slot'[t] \in {s, NoSlot}
        /\ pc[t] \notin {"idle", "acPop"} => slot[t] = s
        /\ pc[t] \in {"idle", "acPop"} => slot[t] = NoSlot
        /\ \A u \in Threads \ {t} : pc'[u] = pc[u] /\ slot'[u] = slot[u]
    BY DEF StepAt, Local, RefInv, Whereabouts
  <1>c. ASSUME released'[s] => /\ released[s] /\ recvOps'[s] = recvOps[s] /\ sendOps'[s] = sendOps[s]
                               /\ slot'[t] = s => pc'[t] \in Passive
        PROVE  ClosedAt(s)'
    BY <1>b, <1>c DEF ClosedAt
  <1>d. ASSUME pc[t] \notin Passive \cup {"idle", "acPop"}, released' = released
        PROVE  ClosedAt(s)'
    BY <1>b, <1>d DEF ClosedAt
  <1>1. CASE PopIndex(t)
    BY <1>1, <1>a, <1>b, <1>c DEF PopIndex
  <1>2. CASE InsertFields(t)
    BY <1>2, <1>a, <1>b, <1>c DEF InsertFields
  <1>3. CASE InsertZero(t)
    BY <1>3, <1>a, <1>b, <1>c DEF InsertZero
  <1>4. CASE InsertFlag(t)
    BY <1>4, <1>a, <1>b, <1>c DEF InsertFlag
  <1>5. CASE InsertOne(t)
    <2>1. t = Acceptor /\ pc[t] = "acOne"
      BY <1>5, TypeFacts DEF InsertOne, StepAt, AcceptorLabels
    <2>2. ~released[s] /\ released' = released
      BY <1>5, <1>b, <2>1 DEF InsertOne, Filling
    <2> QED
      BY <1>c, <2>2
  <1>6. CASE InsertCount(t)
    <2>1. pc[t] \notin Passive \cup {"idle", "acPop"} /\ released' = released
      BY <1>6 DEF InsertCount
    <2> QED
      BY <1>d, <2>1
  <1>7. CASE Associate(t)
    <2>1. pc[t] \notin Passive \cup {"idle", "acPop"} /\ released' = released
      BY <1>7 DEF Associate
    <2> QED
      BY <1>d, <2>1
  <1>8. CASE AssociateFailed(t)
    <2>1. pc[t] \notin Passive \cup {"idle", "acPop"} /\ released' = released
      BY <1>8 DEF AssociateFailed, Dec
    <2> QED
      BY <1>d, <2>1
  <1>9. CASE OnClientJoin(t)
    <2>1. pc[t] \notin Passive \cup {"idle", "acPop"} /\ released' = released
      BY <1>9 DEF OnClientJoin
    <2> QED
      BY <1>d, <2>1
  <1>10. CASE RecvComplete(t)
    <2>1. pc[t] \notin Passive \cup {"idle", "acPop"} /\ released' = released
      BY <1>10 DEF RecvComplete, DisconnectSession
    <2> QED
      BY <1>d, <2>1
  <1>11. CASE SendComplete(t)
    <2>1. pc[t] \notin Passive \cup {"idle", "acPop"} /\ released' = released
      BY <1>11 DEF SendComplete
    <2> QED
      BY <1>d, <2>1
  <1>12. CASE SendCompleteFlag(t)
    <2>1. pc[t] \notin Passive \cup {"idle", "acPop"} /\ released' = released
      BY <1>12 DEF SendCompleteFlag
    <2> QED
      BY <1>d, <2>1
  <1>13. CASE PostRecvRef(t)
    <2>1. pc[t] \notin Passive \cup {"idle", "acPop"} /\ released' = released
      BY <1>13 DEF PostRecvRef, Inc
    <2> QED
      BY <1>d, <2>1
  <1>14. CASE PostRecv(t)
    <2>1. pc[t] \notin Passive \cup {"idle", "acPop"} /\ released' = released
      BY <1>14 DEF PostRecv
    <2> QED
      BY <1>d, <2>1
  <1>15. CASE PostSendTest(t)
    <2>1. pc[t] \notin Passive \cup {"idle", "acPop"} /\ released' = released
      BY <1>15 DEF PostSendTest
    <2> QED
      BY <1>d, <2>1
  <1>16. CASE PostSendCas(t)
    <2>1. pc[t] \notin Passive \cup {"idle", "acPop"} /\ released' = released
      BY <1>16 DEF PostSendCas
    <2> QED
      BY <1>d, <2>1
  <1>17. CASE PostSendRetest(t)
    <2>1. pc[t] \notin Passive \cup {"idle", "acPop"} /\ released' = released
      BY <1>17 DEF PostSendRetest
    <2> QED
      BY <1>d, <2>1
  <1>18. CASE PostSendReset(t)
    <2>1. pc[t] \notin Passive \cup {"idle", "acPop"} /\ released' = released
      BY <1>18 DEF PostSendReset
    <2> QED
      BY <1>d, <2>1
  <1>19. CASE PostSendRef(t)
    <2>1. pc[t] \notin Passive \cup {"idle", "acPop"} /\ released' = released
      BY <1>19 DEF PostSendRef, Inc
    <2> QED
      BY <1>d, <2>1
  <1>20. CASE PostSend(t)
    <2>1. pc[t] \notin Passive \cup {"idle", "acPop"} /\ released' = released
      BY <1>20 DEF PostSend
    <2> QED
      BY <1>d, <2>1
  <1>21. CASE PostFailed(t)
    <2>1. pc[t] \notin Passive \cup {"idle", "acPop"} /\ released' = released
      BY <1>21 DEF PostFailed, Dec
    <2> QED
      BY <1>d, <2>1
  <1>22. CASE Drop(t)
    <2>1. CASE pc[t] = "drop"
      BY <1>22, <1>d, <2>1 DEF Drop
    <2>2. CASE pc[t] = "chkUndo"
      BY <1>22, <1>a, <1>b, <1>c, <2>2 DEF Drop, Forget
    <2> QED
      BY <1>22, <2>1, <2>2 DEF Drop
  <1>23. CASE CheckReleased(t)
    BY <1>23, <1>a, <1>b, <1>c DEF CheckReleased, Forget
  <1>24. CASE CheckRef(t)
    BY <1>24, <1>a, <1>b, <1>c DEF CheckRef, Inc
  <1>25. CASE CheckId(t)
    BY <1>25, <1>a, <1>b, <1>c DEF CheckId
  <1>26. CASE CheckReleasedAgain(t)
    BY <1>26, <1>a, <1>b, <1>c DEF CheckReleasedAgain
  <1>27. CASE Enqueue(t)
    <2>1. pc[t] \notin Passive \cup {"idle", "acPop"} /\ released' = released
      BY <1>27 DEF Enqueue
    <2> QED
      BY <1>d, <2>1
  <1>28. CASE Disconnect(t)
    <2>1. pc[t] \notin Passive \cup {"idle", "acPop"} /\ released' = released
      BY <1>28 DEF Disconnect, DisconnectSession
    <2> QED
      BY <1>d, <2>1
  <1>29. CASE ReleaseTest(t)
    BY <1>29, <1>a, <1>b, <1>c DEF ReleaseTest, Forget, Return
  <1>30. CASE ReleaseCas(t)
    <2>1. CASE io[slot[t]] = 0 /\ ~released[slot[t]] /\ Goto(t, "relCas", "relClose")
      <3>1. slot[t] = s /\ io[s] = 0 /\ pc'[t] = "relClose"
        BY <1>a, <1>b, <2>1
      <3>2. recvOps[s] = 0 /\ sendOps[s] = 0 /\ At(s, Holding) = {}
        BY <1>b, <3>1, CountFacts DEF StepAt
      <3>3. \A u \in Threads : slot[u] = s => pc[u] \notin Holding
        BY <3>2 DEF At
      <3>4. \A u \in Threads : slot[u] = s => pc[u] \in Passive
        BY <1>a, <3>3, TypeFacts DEF StepAt, RefInv, Whereabouts, Labels, Holding, PostLabels
      <3>5. UNCHANGED <<recvOps, sendOps>>
        BY <1>30 DEF ReleaseCas
      <3> QED
        BY <1>b, <3>1, <3>2, <3>4, <3>5 DEF ClosedAt
    <2>2. CASE Return(t, "relCas") /\ UNCHANGED released
      BY <1>30, <1>a, <1>b, <1>c, <2>2 DEF ReleaseCas, Return, Forget
    <2> QED
      BY <1>30, <2>1, <2>2 DEF ReleaseCas
  <1>31. CASE ReleaseClose(t)
    BY <1>31, <1>a, <1>b, <1>c DEF ReleaseClose, DisconnectSession
  <1>32. CASE OnClientLeave(t)
    BY <1>32, <1>a, <1>b, <1>c DEF OnClientLeave
  <1>33. CASE ReleaseDrain(t)
    BY <1>33, <1>a, <1>b, <1>c DEF ReleaseDrain
  <1>34. CASE ReleaseClear(t)
    BY <1>34, <1>a, <1>b, <1>c DEF ReleaseClear
  <1>35. CASE PushIndex(t)
    BY <1>35, <1>a, <1>b, <1>c DEF PushIndex
  <1>36. CASE ReleaseCount(t)
    BY <1>36, <1>a, <1>b, <1>c DEF ReleaseCount, Forget, Return
  <1>37. CASE Accept(t)
    BY <1>37, <1>a, <1>b, <1>c DEF Accept
  <1>38. ASSUME NEW r \in Slots, TakeRecv(t, r)
        PROVE  ClosedAt(s)'
    <2>1. r = s /\ released' = released /\ (recvOps[r] > 0 \/ sendOps[r] > 0)
      BY <1>38, <1>a, <1>b DEF TakeRecv
    <2>2. ~released[s]
      BY <1>b, <2>1 DEF ClosedAt
    <2> QED
      BY <1>c, <2>1, <2>2
  <1>39. ASSUME NEW r \in Slots, TakeSend(t, r)
        PROVE  ClosedAt(s)'
    <2>1. r = s /\ released' = released /\ (recvOps[r] > 0 \/ sendOps[r] > 0)
      BY <1>39, <1>a, <1>b DEF TakeSend
    <2>2. ~released[s]
      BY <1>b, <2>1 DEF ClosedAt
    <2> QED
      BY <1>c, <2>1, <2>2
  <1>40. ASSUME NEW r \in Slots, TakeDown(t, r)
        PROVE  ClosedAt(s)'
    <2>1. r = s /\ released' = released /\ (recvOps[r] > 0 \/ sendOps[r] > 0)
      BY <1>40, <1>a, <1>b DEF TakeDown
    <2>2. ~released[s]
      BY <1>b, <2>1 DEF ClosedAt
    <2> QED
      BY <1>c, <2>1, <2>2
  <1>41. ASSUME NEW i \in joined, Call(t, i)
        PROVE  ClosedAt(s)'
    BY <1>41, <1>a, <1>b, <1>c DEF Call, GetSessionIndex
  <1> QED
    BY <1>1, <1>2, <1>3, <1>4, <1>5, <1>6, <1>7, <1>8, <1>9, <1>10, <1>11, <1>12,
       <1>13, <1>14, <1>15, <1>16, <1>17, <1>18, <1>19, <1>20, <1>21, <1>22, <1>23, <1>24,
       <1>25, <1>26, <1>27, <1>28, <1>29, <1>30, <1>31, <1>32, <1>33, <1>34, <1>35, <1>36,
       <1>37, <1>38, <1>39, <1>40, <1>41
       DEF StepAt, Acts, Step, AcceptStep, CompletionStep, CallStep, ReleaseStep, Take

\* A slot that the step is not about.
LEMMA OtherSlot ==
    ASSUME NEW t \in Threads, NEW s \in Slots, StepAt(t, s), NEW r \in Slots, r # s
    PROVE  /\ \A u \in Threads : slot'[u] = r <=> slot[u] = r
           /\ \A u \in Threads : slot[u] = r => u # t /\ pc'[u] = pc[u] /\ sid'[u] = sid[u]
           /\ \A L : At(r, L)' = At(r, L)
           /\ Inserting(r)' = Inserting(r)
  <1>a. slot \in [Threads -> Slots \cup {NoSlot}] /\ NoSlot \notin Slots /\ Acceptor \in Threads
    BY TypeFacts DEF StepAt
  <1>b. /\ slot[t] \in {s, NoSlot} /\ slot'[t] \in {s, NoSlot}
        /\ \A u \in Threads \ {t} : pc'[u] = pc[u] /\ slot'[u] = slot[u] /\ sid'[u] = sid[u]
    BY DEF StepAt, Local
  <1>1. /\ \A u \in Threads : slot'[u] = r <=> slot[u] = r
        /\ \A u \in Threads : slot[u] = r => u # t /\ pc'[u] = pc[u] /\ sid'[u] = sid[u]
    BY <1>a, <1>b
  <1>2. ASSUME NEW L PROVE At(r, L)' = At(r, L)
    BY <1>1 DEF At
  <1>3. Inserting(r)' = Inserting(r)
    BY <1>1, <1>a DEF Inserting
  <1> QED
    BY <1>1, <1>2, <1>3

\* Ids are only ever added to the history for the slot of the step, and it is not unused.
LEMMA JoinedGrows ==
    ASSUME NEW t \in Threads, NEW s \in Slots, StepAt(t, s)
    PROVE  joined' \subseteq joined \cup {id[s]} /\ gone' \subseteq gone \cup {id[s]}
  <1> USE DEF histVars
  <1>1. \/ UNCHANGED <<joined, gone>>
        \/ OnClientJoin(t) \/ OnClientLeave(t)
    BY DEF StepAt, Acts, Step, AcceptStep, CompletionStep, CallStep, ReleaseStep, Take, Accept, Call,
       PopIndex, InsertFields, InsertZero, InsertFlag, InsertOne, InsertCount, Associate, AssociateFailed,
       RecvComplete, SendComplete, SendCompleteFlag, PostRecvRef, PostRecv, PostSendTest,
       PostSendCas, PostSendRetest, PostSendReset, PostSendRef, PostSend, PostFailed, Drop,
       CheckReleased, CheckRef, CheckId, CheckReleasedAgain, Enqueue, Disconnect,
       ReleaseTest, ReleaseCas, ReleaseClose, ReleaseDrain, ReleaseClear, PushIndex, ReleaseCount,
       TakeRecv, TakeSend, TakeDown
  <1>2. CASE OnClientJoin(t) \/ OnClientLeave(t)
    <2>1. slot[t] = s
      BY <1>2 DEF OnClientJoin, OnClientLeave, Goto, StepAt, Local
    <2> QED
      BY <1>2, <2>1 DEF OnClientJoin, OnClientLeave
  <1> QED
    BY <1>1, <1>2

LEMMA OtherSlotKept ==
    ASSUME NEW t \in Threads, NEW s \in Slots, StepAt(t, s), NEW r \in Slots, r # s
    PROVE  ClosedAt(r)' /\ NamedAt(r)' /\ UnusedAt(r)' /\ CountAt(r)'
  <1>a. /\ \A u \in Threads : slot'[u] = r <=> slot[u] = r
        /\ \A u \in Threads : slot[u] = r => u # t /\ pc'[u] = pc[u]
        /\ \A L : At(r, L)' = At(r, L)
        /\ Inserting(r)' = Inserting(r)
    BY OtherSlot
  <1>b. /\ id'[r] = id[r] /\ sock'[r] = sock[r] /\ io'[r] = io[r] /\ released'[r] = released[r]
        /\ recvOps'[r] = recvOps[r] /\ sendOps'[r] = sendOps[r]
    BY DEF StepAt, Local
  <1>c. ClosedAt(r) /\ NamedAt(r) /\ UnusedAt(r) /\ CountAt(r)
    BY DEF StepAt, RefInv
  <1>d. Acceptor \in Threads
    BY TypeFacts DEF StepAt
  <1>1. ClosedAt(r)'
    BY <1>a, <1>b, <1>c DEF ClosedAt
  <1>2. CountAt(r)'
    BY <1>a, <1>b, <1>c DEF CountAt
  <1>3. UnusedAt(r)'
    BY <1>a, <1>b, <1>c DEF UnusedAt
  <1>4. NeverUsed(r) => NeverUsed(r)'
    <2>1. \A i \in joined' : i \in joined \/ i = id[s]
      BY JoinedGrows
    <2>2. id[s].index # r
      <3>1. id[s].index \in {s, -1}
        BY DEF StepAt, TableInv, RolesInv
      <3>2. r # -1
        BY SlotsAssumption DEF Slots
      <3> QED
        BY <3>1, <3>2
    <2> QED
      BY <1>a, <1>b, <1>d, <2>1, <2>2 DEF NeverUsed, GetSessionIndex
  <1>5. NamedAt(r)'
    BY <1>a, <1>b, <1>c, <1>d, <1>4 DEF NamedAt
  <1> QED
    BY <1>1, <1>2, <1>3, <1>5

\* Each step moves lIOCount by what it moves the references of its thread and the operations.
LEMMA StepCount ==
    ASSUME NEW t \in Threads, NEW s \in Slots, StepAt(t, s)
    PROVE  CountAt(s)'
  <1> USE DEF tableVars, refVars, connVars, sendVars, opVars, histVars, localVars, Goto, Present,
              Posting, Holding, PostLabels
  <1>a. /\ pc \in [Threads -> Labels] /\ slot \in [Threads -> Slots \cup {NoSlot}]
        /\ io \in [Slots -> Int] /\ recvOps \in [Slots -> Nat] /\ sendOps \in [Slots -> Nat]
        /\ NoSlot \notin Slots
    BY TypeFacts DEF StepAt
  <1>b. /\ CountAt(s) /\ Filling /\ ret[t] = "idle"
        /\ slot[t] \in {s, NoSlot} /\ slot'[t] \in {s, NoSlot}
        /\ pc[t] \notin {"idle", "acPop"} => slot[t] = s
        /\ pc[t] \in {"idle", "acPop"} => slot[t] = NoSlot
    BY DEF StepAt, Local, RefInv, Whereabouts
  <1>c. ASSUME io'[s] + Present(t, s, Holding) + Present(t, s, Posting) + recvOps[s] + sendOps[s] =
               io[s] + Present(t, s, Holding)' + Present(t, s, Posting)' + recvOps'[s] + sendOps'[s]
        PROVE  CountAt(s)'
    <2> HIDE DEF Present, Posting, Holding
    <2>1. \A u \in Threads \ {t} : pc'[u] = pc[u] /\ slot'[u] = slot[u]
      BY DEF StepAt, Local
    <2>2. /\ Cardinality(At(s, Holding)') \in Nat
          /\ Cardinality(At(s, Holding)') + Present(t, s, Holding) = Cardinality(At(s, Holding)) + Present(t, s, Holding)'
      BY <2>1, AtMoves
    <2>3. /\ Cardinality(At(s, Posting)') \in Nat
          /\ Cardinality(At(s, Posting)') + Present(t, s, Posting) = Cardinality(At(s, Posting)) + Present(t, s, Posting)'
      BY <2>1, AtMoves
    <2>4. /\ Cardinality(At(s, Holding)) \in Nat /\ Cardinality(At(s, Posting)) \in Nat
      BY AtFinite
    <2>5. /\ Present(t, s, Holding) \in Nat /\ Present(t, s, Posting) \in Nat
          /\ Present(t, s, Holding)' \in Nat /\ Present(t, s, Posting)' \in Nat
      BY DEF Present
    <2>6. /\ io[s] \in Int /\ recvOps[s] \in Nat /\ sendOps[s] \in Nat
          /\ io'[s] \in Int /\ recvOps'[s] \in Nat /\ sendOps'[s] \in Nat
      BY TypeFacts DEF StepAt, TypeInv, TypeOK, RefType, OpType
    <2>7. io[s] = Cardinality(At(s, Holding)) + Cardinality(At(s, Posting)) + recvOps[s] + sendOps[s]
      BY <1>b DEF CountAt
    <2> DEFINE a == Cardinality(At(s, Holding))
               b == Cardinality(At(s, Posting))
               c == Cardinality(At(s, Holding)')
               d == Cardinality(At(s, Posting)')
               p == Present(t, s, Holding)
               q == Present(t, s, Posting)
               v == Present(t, s, Holding)'
               w == Present(t, s, Posting)'
               x == io[s]
               y == io'[s]
               e == recvOps[s]
               f == sendOps[s]
               g == recvOps'[s]
               h == sendOps'[s]
    <2>8. /\ a \in Nat /\ b \in Nat /\ c \in Nat /\ d \in Nat
          /\ p \in Nat /\ q \in Nat /\ v \in Nat /\ w \in Nat
          /\ c + p = a + v /\ d + q = b + w
          /\ io'[s] + p + q + recvOps[s] + sendOps[s] = io[s] + v + w + recvOps'[s] + sendOps'[s]
          /\ io[s] = a + b + recvOps[s] + sendOps[s]
      BY <1>c, <2>2, <2>3, <2>4, <2>5, <2>7
    <2> HIDE DEF a, b, c, d, p, q, v, w, x, y, e, f, g, h
    <2>9. y = c + d + g + h
      <3>1. /\ a \in Int /\ b \in Int /\ c \in Int /\ d \in Int /\ p \in Int /\ q \in Int
            /\ v \in Int /\ w \in Int /\ x \in Int /\ y \in Int
            /\ e \in Int /\ f \in Int /\ g \in Int /\ h \in Int
        BY <2>6, <2>8 DEF x, y, e, f, g, h
      <3>2. c + p = a + v /\ d + q = b + w
        BY <2>8
      <3>3. y + p + q + e + f = x + v + w + g + h /\ x = a + b + e + f
        BY <2>8 DEF x, y, e, f, g, h
      <3>4. y + p + q = a + b + v + w + g + h
        BY <3>1, <3>3
      <3>5. y + p + q = (c + p) + (d + q) + g + h
        BY <3>1, <3>2, <3>4
      <3> QED
        BY <3>1, <3>5
    <2> QED
      BY <2>9 DEF CountAt, c, d, y, g, h
  \* A step that changes neither the count nor the operations.
  <1>d. ASSUME UNCHANGED <<io, recvOps, sendOps>>,
               Present(t, s, Holding)' = Present(t, s, Holding), Present(t, s, Posting)' = Present(t, s, Posting)
        PROVE  CountAt(s)'
    <2>1. io[s] \in Int /\ recvOps[s] \in Nat /\ sendOps[s] \in Nat
      BY <1>a
    <2> QED
      BY <1>c, <1>d, <2>1
  <1>1. CASE PopIndex(t)
    BY <1>1, <1>a, <1>b, <1>d DEF PopIndex
  <1>2. CASE InsertFields(t)
    BY <1>2, <1>a, <1>b, <1>d DEF InsertFields
  <1>3. CASE InsertZero(t)
    <2>1. t = Acceptor /\ pc[t] = "acZero" /\ slot[t] = s /\ pc'[t] = "acFlag" /\ slot' = slot
      BY <1>3, <1>a, <1>b, TypeFacts DEF InsertZero, StepAt, AcceptorLabels, InsertLabels
    <2>2. At(s, Holding) = {} /\ At(s, Posting) = {} /\ recvOps[s] = 0 /\ sendOps[s] = 0
      BY <1>b, <2>1 DEF At, Filling, InsertLabels
    <2>3. io[s] = 0
      BY <1>b, <2>2, AtFinite DEF CountAt
    <2>4. UNCHANGED <<io, recvOps, sendOps>>
      BY <1>3, <1>a, <2>1, <2>3 DEF InsertZero
    <2> QED
      BY <1>a, <1>b, <1>d, <2>1, <2>4
  <1>4. CASE InsertFlag(t)
    BY <1>4, <1>a, <1>b, <1>d DEF InsertFlag
  <1>5. CASE InsertOne(t)
    <2>1. t = Acceptor /\ pc[t] = "acOne" /\ slot[t] = s /\ pc'[t] = "acCount" /\ slot' = slot
      BY <1>5, <1>a, <1>b, TypeFacts DEF InsertOne, StepAt, AcceptorLabels, InsertLabels
    <2>2. At(s, Holding) = {} /\ At(s, Posting) = {} /\ recvOps[s] = 0 /\ sendOps[s] = 0
      BY <1>b, <2>1 DEF At, Filling, InsertLabels
    <2>3. io[s] = 0
      BY <1>b, <2>2, AtFinite DEF CountAt
    <2>4. io'[s] = io[s] + 1 /\ UNCHANGED <<recvOps, sendOps>>
      BY <1>5, <1>a, <2>1, <2>3 DEF InsertOne
    <2>5. /\ Present(t, s, Holding) = 0 /\ Present(t, s, Posting) = 0
          /\ Present(t, s, Holding)' = 1 /\ Present(t, s, Posting)' = 0
      BY <2>1
    <2> QED
      BY <1>a, <1>c, <2>4, <2>5
  <1>6. CASE InsertCount(t)
    BY <1>6, <1>a, <1>b, <1>d DEF InsertCount
  <1>7. CASE Associate(t)
    BY <1>7, <1>a, <1>b, <1>d DEF Associate
  <1>8. CASE AssociateFailed(t)
    <2>1. t = Acceptor /\ pc[t] = "acDec" /\ slot[t] = s /\ slot' = slot
      BY <1>8, <1>a, <1>b, TypeFacts DEF AssociateFailed, StepAt, AcceptorLabels, InsertLabels
    <2>2. joined = {}
      <3>1. lastId = 1 /\ \A i \in joined : i.id \in 1 .. lastId /\ i.id # lastId
        BY <2>1 DEF StepAt, RefInv, Quiescent, Numbered, BeforeJoin
      <3>2. \A i \in joined : i.id \in 1 .. 1 /\ i.id # 1
        BY <3>1
      <3>3. \A n \in 1 .. 1 : n = 1
        OBVIOUS
      <3> QED
        BY <3>2, <3>3
    <2>3. recvOps[s] = 0 /\ sendOps[s] = 0 /\ \A u \in Threads \ {t} : pc[u] = "idle"
      BY <2>1, <2>2 DEF StepAt, RefInv, Quiescent
    <2>4. At(s, Holding) = {t} /\ At(s, Posting) = {}
      BY <2>1, <2>3 DEF At
    <2>5. io[s] = 1
      <3>1. Cardinality(At(s, Holding)) = 1 /\ Cardinality(At(s, Posting)) = 0
        BY <2>4, FS_Singleton, FS_EmptySet
      <3> QED
        BY <1>b, <2>3, <3>1 DEF CountAt
    <2>6. io'[s] = 0 /\ pc'[t] = "relTest" /\ UNCHANGED <<recvOps, sendOps>>
      BY <1>8, <1>a, <2>1, <2>5 DEF AssociateFailed, Dec
    <2>7. /\ Present(t, s, Holding) = 1 /\ Present(t, s, Posting) = 0
          /\ Present(t, s, Holding)' = 0 /\ Present(t, s, Posting)' = 0
      BY <2>1, <2>6
    <2> QED
      BY <1>a, <1>c, <2>3, <2>5, <2>6, <2>7
  <1>9. CASE OnClientJoin(t)
    BY <1>9, <1>a, <1>b, <1>d DEF OnClientJoin
  <1>10. CASE RecvComplete(t)
    BY <1>10, <1>a, <1>b, <1>d DEF RecvComplete, DisconnectSession
  <1>11. CASE SendComplete(t)
    BY <1>11, <1>a, <1>b, <1>d DEF SendComplete
  <1>12. CASE SendCompleteFlag(t)
    BY <1>12, <1>a, <1>b, <1>d DEF SendCompleteFlag
  <1>13. CASE PostRecvRef(t)
    <2>1. /\ io'[s] = io[s] + 1 /\ UNCHANGED <<recvOps, sendOps>>
          /\ Present(t, s, Holding) = 1 /\ Present(t, s, Posting) = 0
          /\ Present(t, s, Holding)' = 1 /\ Present(t, s, Posting)' = 1
      BY <1>13, <1>a, <1>b DEF PostRecvRef, Inc
    <2> QED
      BY <1>a, <1>c, <2>1
  <1>14. CASE PostRecv(t)
    <2>1. /\ slot[t] = s /\ slot' = slot /\ UNCHANGED <<io, sendOps>>
          /\ Present(t, s, Holding) = 1 /\ Present(t, s, Posting) = 1 /\ Present(t, s, Holding)' = 1
      BY <1>14, <1>a, <1>b DEF PostRecv
    <2>2. \/ recvOps'[s] = recvOps[s] + 1 /\ Present(t, s, Posting)' = 0
          \/ recvOps'[s] = recvOps[s] /\ Present(t, s, Posting)' = 1
      BY <1>14, <1>a, <1>b, <2>1 DEF PostRecv
    <2>3. recvOps'[s] + Present(t, s, Posting)' = recvOps[s] + 1
      BY <1>a, <2>2
    <2> QED
      BY <1>a, <1>c, <2>1, <2>2
  <1>15. CASE PostSendTest(t)
    BY <1>15, <1>a, <1>b, <1>d DEF PostSendTest
  <1>16. CASE PostSendCas(t)
    BY <1>16, <1>a, <1>b, <1>d DEF PostSendCas
  <1>17. CASE PostSendRetest(t)
    BY <1>17, <1>a, <1>b, <1>d DEF PostSendRetest
  <1>18. CASE PostSendReset(t)
    BY <1>18, <1>a, <1>b, <1>d DEF PostSendReset
  <1>19. CASE PostSendRef(t)
    <2>1. /\ io'[s] = io[s] + 1 /\ UNCHANGED <<recvOps, sendOps>>
          /\ Present(t, s, Holding) = 1 /\ Present(t, s, Posting) = 0
          /\ Present(t, s, Holding)' = 1 /\ Present(t, s, Posting)' = 1
      BY <1>19, <1>a, <1>b DEF PostSendRef, Inc
    <2> QED
      BY <1>a, <1>c, <2>1
  <1>20. CASE PostSend(t)
    <2>1. /\ slot[t] = s /\ slot' = slot /\ UNCHANGED <<io, recvOps>>
          /\ Present(t, s, Holding) = 1 /\ Present(t, s, Posting) = 1 /\ Present(t, s, Holding)' = 1
      BY <1>20, <1>a, <1>b DEF PostSend
    <2>2. \/ sendOps'[s] = sendOps[s] + 1 /\ Present(t, s, Posting)' = 0
          \/ sendOps'[s] = sendOps[s] /\ Present(t, s, Posting)' = 1
      BY <1>20, <1>a, <1>b, <2>1 DEF PostSend
    <2> QED
      BY <1>a, <1>c, <2>1, <2>2
  <1>21. CASE PostFailed(t)
    <2>1. /\ slot[t] = s /\ slot' = slot /\ UNCHANGED <<recvOps, sendOps>> /\ pc[t] = "dropPost"
          /\ io'[s] = io[s] - 1
      BY <1>21, <1>a, <1>b DEF PostFailed, Dec
    <2>2. io[s] >= 2
      BY <1>b, <2>1, CountFacts DEF StepAt
    <2>3. pc'[t] = "drop"
      BY <1>21, <1>a, <2>1, <2>2 DEF PostFailed
    <2>4. /\ Present(t, s, Holding) = 1 /\ Present(t, s, Posting) = 1
          /\ Present(t, s, Holding)' = 1 /\ Present(t, s, Posting)' = 0
      BY <2>1, <2>3
    <2> QED
      BY <1>a, <1>c, <2>1, <2>4
  <1>22. CASE Drop(t)
    <2>1. /\ slot[t] = s /\ UNCHANGED <<recvOps, sendOps>> /\ pc[t] \in {"drop", "chkUndo"}
          /\ io'[s] = io[s] - 1
      BY <1>22, <1>a, <1>b DEF Drop, Dec
    <2>2. pc'[t] \in {"relTest", "idle"}
      BY <1>22, <1>a DEF Drop
    <2>3. /\ Present(t, s, Holding) = 1 /\ Present(t, s, Posting) = 0
          /\ Present(t, s, Holding)' = 0 /\ Present(t, s, Posting)' = 0
      BY <2>1, <2>2
    <2> QED
      BY <1>a, <1>c, <2>1, <2>3
  <1>23. CASE CheckReleased(t)
    BY <1>23, <1>a, <1>b, <1>d DEF CheckReleased, Forget
  <1>24. CASE CheckRef(t)
    <2>1. /\ io'[s] = io[s] + 1 /\ UNCHANGED <<recvOps, sendOps>>
          /\ pc'[t] \in {"chkUndo", "chkId"} /\ pc[t] = "chkInc" /\ slot[t] = s /\ slot' = slot
      BY <1>24, <1>a, <1>b DEF CheckRef, Inc
    <2>2. /\ Present(t, s, Holding) = 0 /\ Present(t, s, Posting) = 0
          /\ Present(t, s, Holding)' = 1 /\ Present(t, s, Posting)' = 0
      BY <2>1
    <2> QED
      BY <1>a, <1>c, <2>1, <2>2
  <1>25. CASE CheckId(t)
    BY <1>25, <1>a, <1>b, <1>d DEF CheckId
  <1>26. CASE CheckReleasedAgain(t)
    BY <1>26, <1>a, <1>b, <1>d DEF CheckReleasedAgain
  <1>27. CASE Enqueue(t)
    BY <1>27, <1>a, <1>b, <1>d DEF Enqueue
  <1>28. CASE Disconnect(t)
    BY <1>28, <1>a, <1>b, <1>d DEF Disconnect, DisconnectSession
  <1>29. CASE ReleaseTest(t)
    BY <1>29, <1>a, <1>b, <1>d DEF ReleaseTest, Forget, Return
  <1>30. CASE ReleaseCas(t)
    BY <1>30, <1>a, <1>b, <1>d DEF ReleaseCas, Forget, Return
  <1>31. CASE ReleaseClose(t)
    BY <1>31, <1>a, <1>b, <1>d DEF ReleaseClose, DisconnectSession
  <1>32. CASE OnClientLeave(t)
    BY <1>32, <1>a, <1>b, <1>d DEF OnClientLeave
  <1>33. CASE ReleaseDrain(t)
    BY <1>33, <1>a, <1>b, <1>d DEF ReleaseDrain
  <1>34. CASE ReleaseClear(t)
    BY <1>34, <1>a, <1>b, <1>d DEF ReleaseClear
  <1>35. CASE PushIndex(t)
    BY <1>35, <1>a, <1>b, <1>d DEF PushIndex
  <1>36. CASE ReleaseCount(t)
    BY <1>36, <1>a, <1>b, <1>d DEF ReleaseCount, Forget, Return
  <1>37. CASE Accept(t)
    BY <1>37, <1>a, <1>b, <1>d DEF Accept
  <1>38. ASSUME NEW r \in Slots, TakeRecv(t, r)
        PROVE  CountAt(s)'
    <2>1. r = s /\ UNCHANGED <<io, sendOps>> /\ recvOps'[s] = recvOps[s] - 1
      BY <1>38, <1>a, <1>b DEF TakeRecv
    <2>2. /\ Present(t, s, Holding) = 0 /\ Present(t, s, Posting) = 0
          /\ Present(t, s, Holding)' = 1 /\ Present(t, s, Posting)' = 0
      BY <1>38, <1>a, <1>b, <2>1 DEF TakeRecv
    <2> QED
      BY <1>a, <1>c, <2>1, <2>2
  <1>39. ASSUME NEW r \in Slots, TakeSend(t, r)
        PROVE  CountAt(s)'
    <2>1. r = s /\ UNCHANGED <<io, recvOps>> /\ sendOps'[s] = sendOps[s] - 1
      BY <1>39, <1>a, <1>b DEF TakeSend
    <2>2. /\ Present(t, s, Holding) = 0 /\ Present(t, s, Posting) = 0
          /\ Present(t, s, Holding)' = 1 /\ Present(t, s, Posting)' = 0
      BY <1>39, <1>a, <1>b, <2>1 DEF TakeSend
    <2> QED
      BY <1>a, <1>c, <2>1, <2>2
  <1>40. ASSUME NEW r \in Slots, TakeDown(t, r)
        PROVE  CountAt(s)'
    <2>1. r = s /\ UNCHANGED io
      BY <1>40, <1>a, <1>b DEF TakeDown
    <2>2. /\ Present(t, s, Holding) = 0 /\ Present(t, s, Posting) = 0
          /\ Present(t, s, Holding)' = 1 /\ Present(t, s, Posting)' = 0
      BY <1>40, <1>a, <1>b, <2>1 DEF TakeDown
    <2>3. \/ recvOps'[s] = recvOps[s] - 1 /\ sendOps'[s] = sendOps[s]
          \/ sendOps'[s] = sendOps[s] - 1 /\ recvOps'[s] = recvOps[s]
      BY <1>40, <1>a, <2>1 DEF TakeDown
    <2> QED
      BY <1>a, <1>c, <2>1, <2>2, <2>3
  <1>41. ASSUME NEW i \in joined, Call(t, i)
        PROVE  CountAt(s)'
    BY <1>41, <1>a, <1>b, <1>d DEF Call, GetSessionIndex
  <1> QED
    BY <1>1, <1>2, <1>3, <1>4, <1>5, <1>6, <1>7, <1>8, <1>9, <1>10, <1>11, <1>12,
       <1>13, <1>14, <1>15, <1>16, <1>17, <1>18, <1>19, <1>20, <1>21, <1>22, <1>23, <1>24,
       <1>25, <1>26, <1>27, <1>28, <1>29, <1>30, <1>31, <1>32, <1>33, <1>34, <1>35, <1>36,
       <1>37, <1>38, <1>39, <1>40, <1>41
       DEF StepAt, Acts, Step, AcceptStep, CompletionStep, CallStep, ReleaseStep, Take

\* Whoever will hold a reference will keep the count from zero.
LEMMA HeldNext ==
    ASSUME NEW t \in Threads, NEW s \in Slots, StepAt(t, s), slot'[t] = s, pc'[t] \in Holding
    PROVE  io'[s] >= 1
  <1>1. CountAt(s)' /\ recvOps'[s] \in Nat /\ sendOps'[s] \in Nat
    <2>1. recvOps' \in [Slots -> Nat] /\ sendOps' \in [Slots -> Nat]
      BY DEF StepAt, TypeInv, TypeOK, OpType
    <2> QED
      BY <2>1, StepCount
  <1>2. IsFiniteSet(At(s, Holding)') /\ IsFiniteSet(At(s, Posting)')
    BY ThreadFacts, FS_Subset DEF At
  <1>3. Cardinality(At(s, Holding)') \in Nat /\ Cardinality(At(s, Posting)') \in Nat
    BY <1>2, FS_CardinalityType
  <1>4. Cardinality(At(s, Holding)') # 0
    <2>1. t \in At(s, Holding)'
      BY DEF At
    <2> QED
      BY <1>2, <2>1, FS_EmptySet
  <1>5. io'[s] = Cardinality(At(s, Holding)') + Cardinality(At(s, Posting)') + recvOps'[s] + sendOps'[s]
    BY <1>1 DEF CountAt
  <1> QED
    BY <1>1, <1>3, <1>4, <1>5

\* The id of a slot tells whether it is in use, before and after each step.
LEMMA StepNamed ==
    ASSUME NEW t \in Threads, NEW s \in Slots, StepAt(t, s)
    PROVE  NamedAt(s)'
  <1> USE DEF tableVars, refVars, connVars, sendVars, opVars, histVars, localVars, Goto,
              PreInsert, Leaving
  <1>a. /\ pc \in [Threads -> Labels] /\ slot \in [Threads -> Slots \cup {NoSlot}]
        /\ DOMAIN id = Slots /\ DOMAIN sock = Slots /\ DOMAIN released = Slots
        /\ NoSlot \notin Slots /\ Acceptor \in Threads
        /\ pc[t] \in AcceptorLabels => t = Acceptor
    BY TypeFacts DEF StepAt
  <1>b. /\ NamedAt(s) /\ Filling /\ ret[t] = "idle"
        /\ slot[t] \in {s, NoSlot} /\ slot'[t] \in {s, NoSlot}
        /\ pc[t] \notin {"idle", "acPop"} => slot[t] = s
        /\ pc[t] \in {"idle", "acPop"} => slot[t] = NoSlot
        /\ \A u \in Threads \ {t} : pc'[u] = pc[u] /\ slot'[u] = slot[u]
    BY DEF StepAt, Local, RefInv, Whereabouts
  \* A step of a thread that is not leaving.
  <1>c. ASSUME ~NeverUsed(s), id'[s] = id[s], released'[s] = released[s],
               sock'[s] = "invalid" <=> sock[s] = "invalid",
               pc[t] \notin Leaving \cup {"acZero", "acFlag"},
               pc'[t] \notin Leaving
        PROVE  NamedAt(s)'
    BY <1>a, <1>b, <1>c DEF NamedAt
  \* A step of one that is.
  <1>d. ASSUME ~NeverUsed(s), id'[s] = id[s], id[s] # NoId,
               sock'[s] = "invalid" <=> sock[s] = "invalid",
               slot'[t] = s, pc'[t] \in Leaving
        PROVE  NamedAt(s)'
    BY <1>a, <1>b, <1>d DEF NamedAt
  <1>e. slot[t] = s /\ pc[t] \notin PreInsert => ~NeverUsed(s)
    BY DEF NeverUsed
  <1>1. CASE PopIndex(t)
    <2>1. /\ UNCHANGED <<id, sock, released, recvOps, sendOps, joined>>
          /\ pc'[t] = "acInit" /\ t = Acceptor /\ slot[t] = NoSlot
      BY <1>1, <1>a, <1>b DEF PopIndex, AcceptorLabels
    <2>2. NeverUsed(s) => NeverUsed(s)'
      BY <1>a, <1>b, <2>1 DEF NeverUsed
    <2> QED
      BY <1>a, <1>b, <2>1, <2>2 DEF NamedAt
  <1>2. CASE InsertFields(t)
    <2>1. /\ t = Acceptor /\ slot[t] = s /\ slot'[t] = s /\ pc[t] = "acInit" /\ pc'[t] = "acZero"
          /\ id'[s] = CreateSessionID(lastId + 1, s) /\ sock'[s] = "open"
      BY <1>2, <1>a, <1>b DEF InsertFields, AcceptorLabels, InsertLabels
    <2>2. id'[s] # NoId
      <3>1. lastId + 1 # -1
        BY TypeFacts DEF StepAt
      <3>2. id'[s].id = lastId + 1 /\ NoId.id = -1
        BY <2>1 DEF NoId, CreateSessionID
      <3> QED
        BY <3>1, <3>2
    <2> QED
      BY <1>a, <1>b, <2>1, <2>2 DEF NamedAt
  <1>3. CASE InsertZero(t)
    <2>1. /\ t = Acceptor /\ slot[t] = s /\ slot' = slot /\ pc[t] \in {"acZero", "acFlag"}
          /\ pc'[t] \in {"acFlag", "acOne"} /\ UNCHANGED <<id, sock>>
          /\ pc'[t] = "acOne" => ~released'[s]
      BY <1>3, <1>a, <1>b DEF InsertZero, AcceptorLabels, InsertLabels
    <2>2. id[s] # NoId
      BY <1>b, <2>1 DEF Filling, InsertLabels
    <2> QED
      BY <1>a, <1>b, <2>1, <2>2 DEF NamedAt
  <1>4. CASE InsertFlag(t)
    <2>1. /\ t = Acceptor /\ slot[t] = s /\ slot' = slot /\ pc[t] \in {"acZero", "acFlag"}
          /\ pc'[t] \in {"acFlag", "acOne"} /\ UNCHANGED <<id, sock>>
          /\ pc'[t] = "acOne" => ~released'[s]
      BY <1>4, <1>a, <1>b DEF InsertFlag, AcceptorLabels, InsertLabels
    <2>2. id[s] # NoId
      BY <1>b, <2>1 DEF Filling, InsertLabels
    <2> QED
      BY <1>a, <1>b, <2>1, <2>2 DEF NamedAt
  <1>5. CASE InsertOne(t)
    <2>1. slot[t] = s /\ pc[t] \notin PreInsert
      BY <1>5, <1>a, <1>b DEF InsertOne
    <2>2. /\ id'[s] = id[s] /\ released'[s] = released[s]
          /\ sock'[s] = "invalid" <=> sock[s] = "invalid"
          /\ pc[t] \notin Leaving \cup {"acZero", "acFlag"} /\ pc'[t] \notin Leaving
      BY <1>5, <1>a, <1>b, <2>1 DEF InsertOne
    <2> QED
      BY <1>c, <1>e, <2>1, <2>2
  <1>6. CASE InsertCount(t)
    <2>1. slot[t] = s /\ pc[t] \notin PreInsert
      BY <1>6, <1>a, <1>b DEF InsertCount
    <2>2. /\ id'[s] = id[s] /\ released'[s] = released[s]
          /\ sock'[s] = "invalid" <=> sock[s] = "invalid"
          /\ pc[t] \notin Leaving \cup {"acZero", "acFlag"} /\ pc'[t] \notin Leaving
      BY <1>6, <1>a, <1>b, <2>1 DEF InsertCount
    <2> QED
      BY <1>c, <1>e, <2>1, <2>2
  <1>7. CASE Associate(t)
    <2>1. slot[t] = s /\ pc[t] \notin PreInsert
      BY <1>7, <1>a, <1>b DEF Associate
    <2>2. /\ id'[s] = id[s] /\ released'[s] = released[s]
          /\ sock'[s] = "invalid" <=> sock[s] = "invalid"
          /\ pc[t] \notin Leaving \cup {"acZero", "acFlag"} /\ pc'[t] \notin Leaving
      BY <1>7, <1>a, <1>b, <2>1 DEF Associate
    <2> QED
      BY <1>c, <1>e, <2>1, <2>2
  <1>8. CASE AssociateFailed(t)
    <2>1. slot[t] = s /\ pc[t] \notin PreInsert
      BY <1>8, <1>a, <1>b DEF AssociateFailed, Dec
    <2>2. /\ id'[s] = id[s] /\ released'[s] = released[s]
          /\ sock'[s] = "invalid" <=> sock[s] = "invalid"
          /\ pc[t] \notin Leaving \cup {"acZero", "acFlag"} /\ pc'[t] \notin Leaving
      BY <1>8, <1>a, <1>b, <2>1 DEF AssociateFailed, Dec
    <2> QED
      BY <1>c, <1>e, <2>1, <2>2
  <1>9. CASE OnClientJoin(t)
    <2>1. slot[t] = s /\ pc[t] \notin PreInsert
      BY <1>9, <1>a, <1>b DEF OnClientJoin
    <2>2. /\ id'[s] = id[s] /\ released'[s] = released[s]
          /\ sock'[s] = "invalid" <=> sock[s] = "invalid"
          /\ pc[t] \notin Leaving \cup {"acZero", "acFlag"} /\ pc'[t] \notin Leaving
      BY <1>9, <1>a, <1>b, <2>1 DEF OnClientJoin
    <2> QED
      BY <1>c, <1>e, <2>1, <2>2
  <1>10. CASE RecvComplete(t)
    <2>1. slot[t] = s /\ pc[t] \notin PreInsert
      BY <1>10, <1>a, <1>b DEF RecvComplete, DisconnectSession
    <2>2. /\ id'[s] = id[s] /\ released'[s] = released[s]
          /\ sock'[s] = "invalid" <=> sock[s] = "invalid"
          /\ pc[t] \notin Leaving \cup {"acZero", "acFlag"} /\ pc'[t] \notin Leaving
      BY <1>10, <1>a, <1>b, <2>1 DEF RecvComplete, DisconnectSession
    <2> QED
      BY <1>c, <1>e, <2>1, <2>2
  <1>11. CASE SendComplete(t)
    <2>1. slot[t] = s /\ pc[t] \notin PreInsert
      BY <1>11, <1>a, <1>b DEF SendComplete
    <2>2. /\ id'[s] = id[s] /\ released'[s] = released[s]
          /\ sock'[s] = "invalid" <=> sock[s] = "invalid"
          /\ pc[t] \notin Leaving \cup {"acZero", "acFlag"} /\ pc'[t] \notin Leaving
      BY <1>11, <1>a, <1>b, <2>1 DEF SendComplete
    <2> QED
      BY <1>c, <1>e, <2>1, <2>2
  <1>12. CASE SendCompleteFlag(t)
    <2>1. slot[t] = s /\ pc[t] \notin PreInsert
      BY <1>12, <1>a, <1>b DEF SendCompleteFlag
    <2>2. /\ id'[s] = id[s] /\ released'[s] = released[s]
          /\ sock'[s] = "invalid" <=> sock[s] = "invalid"
          /\ pc[t] \notin Leaving \cup {"acZero", "acFlag"} /\ pc'[t] \notin Leaving
      BY <1>12, <1>a, <1>b, <2>1 DEF SendCompleteFlag
    <2> QED
      BY <1>c, <1>e, <2>1, <2>2
  <1>13. CASE PostRecvRef(t)
    <2>1. slot[t] = s /\ pc[t] \notin PreInsert
      BY <1>13, <1>a, <1>b DEF PostRecvRef, Inc
    <2>2. /\ id'[s] = id[s] /\ released'[s] = released[s]
          /\ sock'[s] = "invalid" <=> sock[s] = "invalid"
          /\ pc[t] \notin Leaving \cup {"acZero", "acFlag"} /\ pc'[t] \notin Leaving
      BY <1>13, <1>a, <1>b, <2>1 DEF PostRecvRef, Inc
    <2> QED
      BY <1>c, <1>e, <2>1, <2>2
  <1>14. CASE PostRecv(t)
    <2>1. slot[t] = s /\ pc[t] \notin PreInsert
      BY <1>14, <1>a, <1>b DEF PostRecv
    <2>2. /\ id'[s] = id[s] /\ released'[s] = released[s]
          /\ sock'[s] = "invalid" <=> sock[s] = "invalid"
          /\ pc[t] \notin Leaving \cup {"acZero", "acFlag"} /\ pc'[t] \notin Leaving
      BY <1>14, <1>a, <1>b, <2>1 DEF PostRecv
    <2> QED
      BY <1>c, <1>e, <2>1, <2>2
  <1>15. CASE PostSendTest(t)
    <2>1. slot[t] = s /\ pc[t] \notin PreInsert
      BY <1>15, <1>a, <1>b DEF PostSendTest
    <2>2. /\ id'[s] = id[s] /\ released'[s] = released[s]
          /\ sock'[s] = "invalid" <=> sock[s] = "invalid"
          /\ pc[t] \notin Leaving \cup {"acZero", "acFlag"} /\ pc'[t] \notin Leaving
      BY <1>15, <1>a, <1>b, <2>1 DEF PostSendTest
    <2> QED
      BY <1>c, <1>e, <2>1, <2>2
  <1>16. CASE PostSendCas(t)
    <2>1. slot[t] = s /\ pc[t] \notin PreInsert
      BY <1>16, <1>a, <1>b DEF PostSendCas
    <2>2. /\ id'[s] = id[s] /\ released'[s] = released[s]
          /\ sock'[s] = "invalid" <=> sock[s] = "invalid"
          /\ pc[t] \notin Leaving \cup {"acZero", "acFlag"} /\ pc'[t] \notin Leaving
      BY <1>16, <1>a, <1>b, <2>1 DEF PostSendCas
    <2> QED
      BY <1>c, <1>e, <2>1, <2>2
  <1>17. CASE PostSendRetest(t)
    <2>1. slot[t] = s /\ pc[t] \notin PreInsert
      BY <1>17, <1>a, <1>b DEF PostSendRetest
    <2>2. /\ id'[s] = id[s] /\ released'[s] = released[s]
          /\ sock'[s] = "invalid" <=> sock[s] = "invalid"
          /\ pc[t] \notin Leaving \cup {"acZero", "acFlag"} /\ pc'[t] \notin Leaving
      BY <1>17, <1>a, <1>b, <2>1 DEF PostSendRetest
    <2> QED
      BY <1>c, <1>e, <2>1, <2>2
  <1>18. CASE PostSendReset(t)
    <2>1. slot[t] = s /\ pc[t] \notin PreInsert
      BY <1>18, <1>a, <1>b DEF PostSendReset
    <2>2. /\ id'[s] = id[s] /\ released'[s] = released[s]
          /\ sock'[s] = "invalid" <=> sock[s] = "invalid"
          /\ pc[t] \notin Leaving \cup {"acZero", "acFlag"} /\ pc'[t] \notin Leaving
      BY <1>18, <1>a, <1>b, <2>1 DEF PostSendReset
    <2> QED
      BY <1>c, <1>e, <2>1, <2>2
  <1>19. CASE PostSendRef(t)
    <2>1. slot[t] = s /\ pc[t] \notin PreInsert
      BY <1>19, <1>a, <1>b DEF PostSendRef, Inc
    <2>2. /\ id'[s] = id[s] /\ released'[s] = released[s]
          /\ sock'[s] = "invalid" <=> sock[s] = "invalid"
          /\ pc[t] \notin Leaving \cup {"acZero", "acFlag"} /\ pc'[t] \notin Leaving
      BY <1>19, <1>a, <1>b, <2>1 DEF PostSendRef, Inc
    <2> QED
      BY <1>c, <1>e, <2>1, <2>2
  <1>20. CASE PostSend(t)
    <2>1. slot[t] = s /\ pc[t] \notin PreInsert
      BY <1>20, <1>a, <1>b DEF PostSend
    <2>2. /\ id'[s] = id[s] /\ released'[s] = released[s]
          /\ sock'[s] = "invalid" <=> sock[s] = "invalid"
          /\ pc[t] \notin Leaving \cup {"acZero", "acFlag"} /\ pc'[t] \notin Leaving
      BY <1>20, <1>a, <1>b, <2>1 DEF PostSend
    <2> QED
      BY <1>c, <1>e, <2>1, <2>2
  <1>21. CASE PostFailed(t)
    <2>1. slot[t] = s /\ pc[t] \notin PreInsert
      BY <1>21, <1>a, <1>b DEF PostFailed, Dec
    <2>2. /\ id'[s] = id[s] /\ released'[s] = released[s]
          /\ sock'[s] = "invalid" <=> sock[s] = "invalid"
          /\ pc[t] \notin Leaving \cup {"acZero", "acFlag"} /\ pc'[t] \notin Leaving
      BY <1>21, <1>a, <1>b, <2>1 DEF PostFailed, Dec
    <2> QED
      BY <1>c, <1>e, <2>1, <2>2
  <1>22. CASE Drop(t)
    <2>1. slot[t] = s /\ pc[t] \notin PreInsert
      BY <1>22, <1>a, <1>b DEF Drop, Forget, Dec
    <2>2. /\ id'[s] = id[s] /\ released'[s] = released[s]
          /\ sock'[s] = "invalid" <=> sock[s] = "invalid"
          /\ pc[t] \notin Leaving \cup {"acZero", "acFlag"} /\ pc'[t] \notin Leaving
      BY <1>22, <1>a, <1>b, <2>1 DEF Drop, Forget, Dec
    <2> QED
      BY <1>c, <1>e, <2>1, <2>2
  <1>23. CASE CheckReleased(t)
    <2>1. slot[t] = s /\ pc[t] \notin PreInsert
      BY <1>23, <1>a, <1>b DEF CheckReleased, Forget
    <2>2. /\ id'[s] = id[s] /\ released'[s] = released[s]
          /\ sock'[s] = "invalid" <=> sock[s] = "invalid"
          /\ pc[t] \notin Leaving \cup {"acZero", "acFlag"} /\ pc'[t] \notin Leaving
      BY <1>23, <1>a, <1>b, <2>1 DEF CheckReleased, Forget
    <2> QED
      BY <1>c, <1>e, <2>1, <2>2
  <1>24. CASE CheckRef(t)
    <2>1. slot[t] = s /\ pc[t] \notin PreInsert
      BY <1>24, <1>a, <1>b DEF CheckRef, Inc
    <2>2. /\ id'[s] = id[s] /\ released'[s] = released[s]
          /\ sock'[s] = "invalid" <=> sock[s] = "invalid"
          /\ pc[t] \notin Leaving \cup {"acZero", "acFlag"} /\ pc'[t] \notin Leaving
      BY <1>24, <1>a, <1>b, <2>1 DEF CheckRef, Inc
    <2> QED
      BY <1>c, <1>e, <2>1, <2>2
  <1>25. CASE CheckId(t)
    <2>1. slot[t] = s /\ pc[t] \notin PreInsert
      BY <1>25, <1>a, <1>b DEF CheckId
    <2>2. /\ id'[s] = id[s] /\ released'[s] = released[s]
          /\ sock'[s] = "invalid" <=> sock[s] = "invalid"
          /\ pc[t] \notin Leaving \cup {"acZero", "acFlag"} /\ pc'[t] \notin Leaving
      BY <1>25, <1>a, <1>b, <2>1 DEF CheckId
    <2> QED
      BY <1>c, <1>e, <2>1, <2>2
  <1>26. CASE CheckReleasedAgain(t)
    <2>1. slot[t] = s /\ pc[t] \notin PreInsert
      BY <1>26, <1>a, <1>b DEF CheckReleasedAgain
    <2>2. /\ id'[s] = id[s] /\ released'[s] = released[s]
          /\ sock'[s] = "invalid" <=> sock[s] = "invalid"
          /\ pc[t] \notin Leaving \cup {"acZero", "acFlag"} /\ pc'[t] \notin Leaving
      BY <1>26, <1>a, <1>b, <2>1 DEF CheckReleasedAgain
    <2> QED
      BY <1>c, <1>e, <2>1, <2>2
  <1>27. CASE Enqueue(t)
    <2>1. slot[t] = s /\ pc[t] \notin PreInsert
      BY <1>27, <1>a, <1>b DEF Enqueue
    <2>2. /\ id'[s] = id[s] /\ released'[s] = released[s]
          /\ sock'[s] = "invalid" <=> sock[s] = "invalid"
          /\ pc[t] \notin Leaving \cup {"acZero", "acFlag"} /\ pc'[t] \notin Leaving
      BY <1>27, <1>a, <1>b, <2>1 DEF Enqueue
    <2> QED
      BY <1>c, <1>e, <2>1, <2>2
  <1>28. CASE Disconnect(t)
    <2>1. slot[t] = s /\ pc[t] \notin PreInsert
      BY <1>28, <1>a, <1>b DEF Disconnect, DisconnectSession
    <2>2. /\ id'[s] = id[s] /\ released'[s] = released[s]
          /\ sock'[s] = "invalid" <=> sock[s] = "invalid"
          /\ pc[t] \notin Leaving \cup {"acZero", "acFlag"} /\ pc'[t] \notin Leaving
      BY <1>28, <1>a, <1>b, <2>1 DEF Disconnect, DisconnectSession
    <2> QED
      BY <1>c, <1>e, <2>1, <2>2
  <1>29. CASE ReleaseTest(t)
    <2>1. slot[t] = s /\ pc[t] \notin PreInsert
      BY <1>29, <1>a, <1>b DEF ReleaseTest, Forget, Return
    <2>2. /\ id'[s] = id[s] /\ released'[s] = released[s]
          /\ sock'[s] = "invalid" <=> sock[s] = "invalid"
          /\ pc[t] \notin Leaving \cup {"acZero", "acFlag"} /\ pc'[t] \notin Leaving
      BY <1>29, <1>a, <1>b, <2>1 DEF ReleaseTest, Forget, Return
    <2> QED
      BY <1>c, <1>e, <2>1, <2>2
  <1>30. CASE ReleaseCas(t)
    <2>1. CASE io[slot[t]] = 0 /\ ~released[slot[t]] /\ Goto(t, "relCas", "relClose")
      <3>1. slot[t] = s /\ pc[t] = "relCas" /\ pc'[t] = "relClose" /\ ~released[s] /\ UNCHANGED <<id, sock>>
        BY <1>30, <1>a, <1>b, <2>1 DEF ReleaseCas
      <3>2. slot'[t] = s
        BY <1>30, <1>a, <1>b, <3>1 DEF ReleaseCas, Return
      <3>3. ~NeverUsed(s)
        BY <1>e, <3>1
      <3>4. id[s] # NoId
        BY <1>b, <3>1, <3>3 DEF NamedAt
      <3> QED
        BY <1>d, <3>1, <3>2, <3>3, <3>4
    <2>2. CASE Return(t, "relCas") /\ UNCHANGED released
      <3>1. slot[t] = s /\ pc[t] = "relCas" /\ pc'[t] = "idle" /\ UNCHANGED <<id, sock, released>>
        BY <1>30, <1>a, <1>b, <2>2 DEF ReleaseCas, Return
      <3> QED
        BY <1>c, <1>e, <3>1
    <2> QED
      BY <1>30, <2>1, <2>2 DEF ReleaseCas
  <1>31. CASE ReleaseClose(t)
    <2>1. /\ slot[t] = s /\ slot'[t] = s /\ pc[t] \in Leaving /\ pc'[t] \in Leaving
          /\ id'[s] = id[s] /\ (sock'[s] = "invalid" <=> sock[s] = "invalid")
      BY <1>31, <1>a, <1>b DEF ReleaseClose, DisconnectSession
    <2>2. id[s] # NoId
      BY <1>b, <2>1 DEF NamedAt
    <2> QED
      BY <1>d, <1>e, <2>1, <2>2
  <1>32. CASE OnClientLeave(t)
    <2>1. /\ slot[t] = s /\ slot'[t] = s /\ pc[t] \in Leaving /\ pc'[t] \in Leaving
          /\ id'[s] = id[s] /\ (sock'[s] = "invalid" <=> sock[s] = "invalid")
      BY <1>32, <1>a, <1>b DEF OnClientLeave
    <2>2. id[s] # NoId
      BY <1>b, <2>1 DEF NamedAt
    <2> QED
      BY <1>d, <1>e, <2>1, <2>2
  <1>33. CASE ReleaseDrain(t)
    <2>1. /\ slot[t] = s /\ slot'[t] = s /\ pc[t] \in Leaving /\ pc'[t] \in Leaving
          /\ id'[s] = id[s] /\ (sock'[s] = "invalid" <=> sock[s] = "invalid")
      BY <1>33, <1>a, <1>b DEF ReleaseDrain
    <2>2. id[s] # NoId
      BY <1>b, <2>1 DEF NamedAt
    <2> QED
      BY <1>d, <1>e, <2>1, <2>2
  <1>34. CASE ReleaseClear(t)
    <2>1. /\ slot[t] = s /\ slot' = slot /\ pc[t] = "relClear" /\ pc'[t] = "relPush"
          /\ id'[s] = NoId /\ sock'[s] = "invalid" /\ released' = released
      BY <1>34, <1>a, <1>b DEF ReleaseClear
    <2>2. released[s] /\ \A u \in Threads : Releasing(u) /\ slot[u] = s => u = t
      BY <2>1 DEF StepAt, TableInv, OwnerInv, SingleRelease, Releasing, ReleaseBody
    <2>3. \A u \in Threads : slot'[u] = s => pc'[u] \notin Leaving
      BY <1>b, <2>1, <2>2 DEF Releasing, ReleaseBody
    <2> QED
      BY <2>1, <2>2, <2>3 DEF NamedAt
  <1>35. CASE PushIndex(t)
    <2>1. slot[t] = s /\ pc[t] \notin PreInsert
      BY <1>35, <1>a, <1>b DEF PushIndex
    <2>2. /\ id'[s] = id[s] /\ released'[s] = released[s]
          /\ sock'[s] = "invalid" <=> sock[s] = "invalid"
          /\ pc[t] \notin Leaving \cup {"acZero", "acFlag"} /\ pc'[t] \notin Leaving
      BY <1>35, <1>a, <1>b, <2>1 DEF PushIndex
    <2> QED
      BY <1>c, <1>e, <2>1, <2>2
  <1>36. CASE ReleaseCount(t)
    <2>1. slot[t] = s /\ pc[t] \notin PreInsert
      BY <1>36, <1>a, <1>b DEF ReleaseCount, Forget, Return
    <2>2. /\ id'[s] = id[s] /\ released'[s] = released[s]
          /\ sock'[s] = "invalid" <=> sock[s] = "invalid"
          /\ pc[t] \notin Leaving \cup {"acZero", "acFlag"} /\ pc'[t] \notin Leaving
      BY <1>36, <1>a, <1>b, <2>1 DEF ReleaseCount, Forget, Return
    <2> QED
      BY <1>c, <1>e, <2>1, <2>2
  <1>37. CASE Accept(t)
    <2>1. UNCHANGED <<id, sock, released, recvOps, sendOps, joined, slot>>
          /\ pc[t] = "idle" /\ pc'[t] = "acPop" /\ slot[t] = NoSlot
      BY <1>37, <1>a, <1>b DEF Accept
    <2>2. NeverUsed(s) => NeverUsed(s)'
      BY <1>a, <1>b, <2>1 DEF NeverUsed
    <2> QED
      BY <1>a, <1>b, <2>1, <2>2 DEF NamedAt
  <1>38. ASSUME NEW r \in Slots, TakeRecv(t, r)
        PROVE  NamedAt(s)'
    <2>1. r = s /\ (recvOps[s] > 0 \/ sendOps[s] > 0)
      BY <1>38, <1>a, <1>b DEF TakeRecv
    <2>2. /\ id'[s] = id[s] /\ released'[s] = released[s]
          /\ sock'[s] = "invalid" <=> sock[s] = "invalid"
          /\ pc[t] \notin Leaving \cup {"acZero", "acFlag"} /\ pc'[t] \notin Leaving
      BY <1>38, <1>a, <1>b, <2>1 DEF TakeRecv
    <2>3. ~NeverUsed(s)
      BY <2>1 DEF NeverUsed
    <2> QED
      BY <1>c, <2>2, <2>3
  <1>39. ASSUME NEW r \in Slots, TakeSend(t, r)
        PROVE  NamedAt(s)'
    <2>1. r = s /\ (recvOps[s] > 0 \/ sendOps[s] > 0)
      BY <1>39, <1>a, <1>b DEF TakeSend
    <2>2. /\ id'[s] = id[s] /\ released'[s] = released[s]
          /\ sock'[s] = "invalid" <=> sock[s] = "invalid"
          /\ pc[t] \notin Leaving \cup {"acZero", "acFlag"} /\ pc'[t] \notin Leaving
      BY <1>39, <1>a, <1>b, <2>1 DEF TakeSend
    <2>3. ~NeverUsed(s)
      BY <2>1 DEF NeverUsed
    <2> QED
      BY <1>c, <2>2, <2>3
  <1>40. ASSUME NEW r \in Slots, TakeDown(t, r)
        PROVE  NamedAt(s)'
    <2>1. r = s /\ (recvOps[s] > 0 \/ sendOps[s] > 0)
      BY <1>40, <1>a, <1>b DEF TakeDown
    <2>2. /\ id'[s] = id[s] /\ released'[s] = released[s]
          /\ sock'[s] = "invalid" <=> sock[s] = "invalid"
          /\ pc[t] \notin Leaving \cup {"acZero", "acFlag"} /\ pc'[t] \notin Leaving
      BY <1>40, <1>a, <1>b, <2>1 DEF TakeDown
    <2>3. ~NeverUsed(s)
      BY <2>1 DEF NeverUsed
    <2> QED
      BY <1>c, <2>2, <2>3
  <1>41. ASSUME NEW i \in joined, Call(t, i)
        PROVE  NamedAt(s)'
    <2>1. GetSessionIndex(i) = s
      BY <1>41, <1>a, <1>b DEF Call
    <2>2. /\ id'[s] = id[s] /\ released'[s] = released[s]
          /\ sock'[s] = "invalid" <=> sock[s] = "invalid"
          /\ pc[t] \notin Leaving \cup {"acZero", "acFlag"} /\ pc'[t] \notin Leaving
      BY <1>41, <1>a, <1>b DEF Call
    <2>3. ~NeverUsed(s)
      BY <1>41, <2>1 DEF NeverUsed
    <2> QED
      BY <1>c, <2>2, <2>3
  <1> QED
    BY <1>1, <1>2, <1>3, <1>4, <1>5, <1>6, <1>7, <1>8, <1>9, <1>10, <1>11, <1>12,
       <1>13, <1>14, <1>15, <1>16, <1>17, <1>18, <1>19, <1>20, <1>21, <1>22, <1>23, <1>24,
       <1>25, <1>26, <1>27, <1>28, <1>29, <1>30, <1>31, <1>32, <1>33, <1>34, <1>35, <1>36,
       <1>37, <1>38, <1>39, <1>40, <1>41
       DEF StepAt, Acts, Step, AcceptStep, CompletionStep, CallStep, ReleaseStep, Take

\* The thread that brings the count to zero goes on to release the session.
LEMMA StepUnused ==
    ASSUME NEW t \in Threads, NEW s \in Slots, StepAt(t, s)
    PROVE  UnusedAt(s)'
  <1> USE DEF tableVars, refVars, connVars, sendVars, opVars, histVars, localVars, Goto
  <1>a. /\ pc \in [Threads -> Labels] /\ slot \in [Threads -> Slots \cup {NoSlot}]
        /\ io \in [Slots -> Int] /\ DOMAIN id = Slots /\ DOMAIN released = Slots
        /\ NoSlot \notin Slots /\ Acceptor \in Threads
        /\ pc[t] \in AcceptorLabels => t = Acceptor
    BY TypeFacts DEF StepAt
  <1>b. /\ UnusedAt(s) /\ ret[t] = "idle"
        /\ slot[t] \in {s, NoSlot} /\ slot'[t] \in {s, NoSlot}
        /\ pc[t] \notin {"idle", "acPop"} => slot[t] = s
        /\ pc'[t] \notin {"idle", "acPop"} => slot'[t] = s
        /\ pc[t] \in {"idle", "acPop"} => slot[t] = NoSlot
        /\ \A u \in Threads \ {t} : pc'[u] = pc[u] /\ slot'[u] = slot[u]
    BY DEF StepAt, Local, RefInv, Whereabouts
  \* Whoever holds a reference keeps the count from zero.
  <1>c. ASSUME slot'[t] = s, pc'[t] \in Holding
        PROVE  UnusedAt(s)'
    <2>1. io'[s] >= 1
      BY <1>c, HeldNext
    <2> QED
      BY <2>1 DEF UnusedAt
  \* A step that touches none of it, of a thread that is not about to release.
  <1>d. ASSUME id'[s] = id[s], released'[s] = released[s], io'[s] = io[s],
               pc[t] \notin {"relTest", "relCas"} \cup InsertLabels
        PROVE  UnusedAt(s)'
    <2>1. ~Inserting(s)' => ~Inserting(s)
      BY <1>a, <1>b, <1>d DEF Inserting
    <2> QED
      BY <1>a, <1>b, <1>d, <2>1 DEF UnusedAt
  <1>e. ASSUME slot'[t] = s, pc'[t] \in {"relTest", "relCas"} PROVE UnusedAt(s)'
    BY <1>e DEF UnusedAt
  <1>f. ASSUME released'[s] PROVE UnusedAt(s)'
    BY <1>f DEF UnusedAt
  <1>1. CASE PopIndex(t)
    <2>1. t = Acceptor /\ pc'[t] \in InsertLabels
      BY <1>1, <1>a, <1>b DEF PopIndex, AcceptorLabels, InsertLabels
    <2>2. slot'[t] = s
      BY <1>b, <2>1 DEF InsertLabels
    <2> QED
      BY <2>1, <2>2 DEF UnusedAt, Inserting
  <1>2. CASE InsertFields(t)
    <2>1. t = Acceptor /\ pc'[t] \in InsertLabels
      BY <1>2, <1>a, <1>b DEF InsertFields, AcceptorLabels, InsertLabels
    <2>2. slot'[t] = s
      BY <1>b, <2>1 DEF InsertLabels
    <2> QED
      BY <2>1, <2>2 DEF UnusedAt, Inserting
  <1>3. CASE InsertZero(t)
    <2>1. t = Acceptor /\ pc'[t] \in InsertLabels
      BY <1>3, <1>a, <1>b DEF InsertZero, AcceptorLabels, InsertLabels
    <2>2. slot'[t] = s
      BY <1>b, <2>1 DEF InsertLabels
    <2> QED
      BY <2>1, <2>2 DEF UnusedAt, Inserting
  <1>4. CASE InsertFlag(t)
    <2>1. t = Acceptor /\ pc'[t] \in InsertLabels
      BY <1>4, <1>a, <1>b DEF InsertFlag, AcceptorLabels, InsertLabels
    <2>2. slot'[t] = s
      BY <1>b, <2>1 DEF InsertLabels
    <2> QED
      BY <2>1, <2>2 DEF UnusedAt, Inserting
  <1>5. CASE InsertOne(t)
    <2>1. slot'[t] = s /\ pc'[t] \in Holding
      BY <1>5, <1>a, <1>b DEF InsertOne, Holding, PostLabels
    <2> QED
      BY <1>c, <2>1
  <1>6. CASE InsertCount(t)
    <2>1. slot'[t] = s /\ pc'[t] \in Holding
      BY <1>6, <1>a, <1>b DEF InsertCount, Holding, PostLabels
    <2> QED
      BY <1>c, <2>1
  <1>7. CASE Associate(t)
    <2>1. slot'[t] = s /\ pc'[t] \in Holding
      BY <1>7, <1>a, <1>b DEF Associate, Holding, PostLabels
    <2> QED
      BY <1>c, <2>1
  <1>8. CASE AssociateFailed(t)
    <2>1. slot'[t] = s /\ pc'[t] \in Holding \cup {"relTest"}
      BY <1>8, <1>a, <1>b DEF AssociateFailed, Dec, Holding, PostLabels
    <2> QED
      BY <1>c, <1>e, <2>1
  <1>9. CASE OnClientJoin(t)
    <2>1. slot'[t] = s /\ pc'[t] \in Holding
      BY <1>9, <1>a, <1>b DEF OnClientJoin, Holding, PostLabels
    <2> QED
      BY <1>c, <2>1
  <1>10. CASE RecvComplete(t)
    <2>1. slot'[t] = s /\ pc'[t] \in Holding
      BY <1>10, <1>a, <1>b DEF RecvComplete, DisconnectSession, Holding, PostLabels
    <2> QED
      BY <1>c, <2>1
  <1>11. CASE SendComplete(t)
    <2>1. slot'[t] = s /\ pc'[t] \in Holding
      BY <1>11, <1>a, <1>b DEF SendComplete, Holding, PostLabels
    <2> QED
      BY <1>c, <2>1
  <1>12. CASE SendCompleteFlag(t)
    <2>1. slot'[t] = s /\ pc'[t] \in Holding
      BY <1>12, <1>a, <1>b DEF SendCompleteFlag, Holding, PostLabels
    <2> QED
      BY <1>c, <2>1
  <1>13. CASE PostRecvRef(t)
    <2>1. slot'[t] = s /\ pc'[t] \in Holding
      BY <1>13, <1>a, <1>b DEF PostRecvRef, Inc, Holding, PostLabels
    <2> QED
      BY <1>c, <2>1
  <1>14. CASE PostRecv(t)
    <2>1. slot'[t] = s /\ pc'[t] \in Holding
      BY <1>14, <1>a, <1>b DEF PostRecv, Holding, PostLabels
    <2> QED
      BY <1>c, <2>1
  <1>15. CASE PostSendTest(t)
    <2>1. slot'[t] = s /\ pc'[t] \in Holding
      BY <1>15, <1>a, <1>b DEF PostSendTest, Holding, PostLabels
    <2> QED
      BY <1>c, <2>1
  <1>16. CASE PostSendCas(t)
    <2>1. slot'[t] = s /\ pc'[t] \in Holding
      BY <1>16, <1>a, <1>b DEF PostSendCas, Holding, PostLabels
    <2> QED
      BY <1>c, <2>1
  <1>17. CASE PostSendRetest(t)
    <2>1. slot'[t] = s /\ pc'[t] \in Holding
      BY <1>17, <1>a, <1>b DEF PostSendRetest, Holding, PostLabels
    <2> QED
      BY <1>c, <2>1
  <1>18. CASE PostSendReset(t)
    <2>1. slot'[t] = s /\ pc'[t] \in Holding
      BY <1>18, <1>a, <1>b DEF PostSendReset, Holding, PostLabels
    <2> QED
      BY <1>c, <2>1
  <1>19. CASE PostSendRef(t)
    <2>1. slot'[t] = s /\ pc'[t] \in Holding
      BY <1>19, <1>a, <1>b DEF PostSendRef, Inc, Holding, PostLabels
    <2> QED
      BY <1>c, <2>1
  <1>20. CASE PostSend(t)
    <2>1. slot'[t] = s /\ pc'[t] \in Holding
      BY <1>20, <1>a, <1>b DEF PostSend, Holding, PostLabels
    <2> QED
      BY <1>c, <2>1
  <1>21. CASE PostFailed(t)
    <2>1. slot'[t] = s /\ pc'[t] \in Holding \cup {"relTest"}
      BY <1>21, <1>a, <1>b DEF PostFailed, Dec, Holding, PostLabels
    <2> QED
      BY <1>c, <1>e, <2>1
  <1>22. CASE Drop(t)
    <2>1. CASE pc'[t] = "relTest" /\ slot' = slot
      BY <1>22, <1>a, <1>b, <1>e, <2>1 DEF Drop
    <2>2. CASE io[slot[t]] # 1
      <3>1. slot[t] = s /\ io'[s] = io[s] - 1
        BY <1>22, <1>a, <1>b DEF Drop, Dec
      <3>2. io'[s] # 0
        BY <1>a, <2>2, <3>1
      <3> QED
        BY <3>2 DEF UnusedAt
    <2> QED
      BY <1>22, <1>a, <2>1, <2>2 DEF Drop
  <1>23. CASE CheckReleased(t)
    <2>1. id'[s] = id[s] /\ released'[s] = released[s] /\ io'[s] = io[s]
      BY <1>23, <1>a, <1>b DEF CheckReleased, Forget
    <2>2. pc[t] \notin {"relTest", "relCas"} \cup InsertLabels
      BY <1>23, <1>a, <1>b DEF CheckReleased, Forget, InsertLabels
    <2> QED
      BY <1>d, <2>1, <2>2
  <1>24. CASE CheckRef(t)
    <2>1. slot'[t] = s /\ pc'[t] \in Holding
      BY <1>24, <1>a, <1>b DEF CheckRef, Inc, Holding, PostLabels
    <2> QED
      BY <1>c, <2>1
  <1>25. CASE CheckId(t)
    <2>1. slot'[t] = s /\ pc'[t] \in Holding
      BY <1>25, <1>a, <1>b DEF CheckId, Holding, PostLabels
    <2> QED
      BY <1>c, <2>1
  <1>26. CASE CheckReleasedAgain(t)
    <2>1. slot'[t] = s /\ pc'[t] \in Holding
      BY <1>26, <1>a, <1>b DEF CheckReleasedAgain, Holding, PostLabels
    <2> QED
      BY <1>c, <2>1
  <1>27. CASE Enqueue(t)
    <2>1. slot'[t] = s /\ pc'[t] \in Holding
      BY <1>27, <1>a, <1>b DEF Enqueue, Holding, PostLabels
    <2> QED
      BY <1>c, <2>1
  <1>28. CASE Disconnect(t)
    <2>1. slot'[t] = s /\ pc'[t] \in Holding
      BY <1>28, <1>a, <1>b DEF Disconnect, DisconnectSession, Holding, PostLabels
    <2> QED
      BY <1>c, <2>1
  <1>29. CASE ReleaseTest(t)
    <2>1. CASE Return(t, "relTest") /\ released[slot[t]]
      BY <1>29, <1>b, <1>f, <2>1 DEF ReleaseTest, Return
    <2>2. CASE Goto(t, "relTest", "relCas") /\ slot' = slot
      BY <1>29, <1>a, <1>b, <1>e, <2>2
    <2> QED
      BY <1>29, <2>1, <2>2 DEF ReleaseTest
  <1>30. CASE ReleaseCas(t)
    <2>1. slot[t] = s /\ id' = id /\ io' = io
      BY <1>30, <1>b DEF ReleaseCas, Return
    <2>2. CASE released' = [released EXCEPT ![slot[t]] = TRUE]
      BY <1>a, <1>f, <2>1, <2>2
    <2>3. CASE (io[slot[t]] # 0 \/ released[slot[t]]) /\ UNCHANGED released
      BY <1>f, <2>1, <2>3 DEF UnusedAt
    <2> QED
      BY <1>30, <2>2, <2>3 DEF ReleaseCas
  <1>31. CASE ReleaseClose(t)
    <2>1. slot[t] = s /\ released' = released /\ Releasing(t)
      BY <1>31, <1>b DEF ReleaseClose, DisconnectSession, Releasing, ReleaseBody
    <2>2. released[s]
      BY <2>1 DEF StepAt, TableInv, OwnerInv
    <2> QED
      BY <1>f, <2>1, <2>2
  <1>32. CASE OnClientLeave(t)
    <2>1. slot[t] = s /\ released' = released /\ Releasing(t)
      BY <1>32, <1>b DEF OnClientLeave, Releasing, ReleaseBody
    <2>2. released[s]
      BY <2>1 DEF StepAt, TableInv, OwnerInv
    <2> QED
      BY <1>f, <2>1, <2>2
  <1>33. CASE ReleaseDrain(t)
    <2>1. slot[t] = s /\ released' = released /\ Releasing(t)
      BY <1>33, <1>b DEF ReleaseDrain, Releasing, ReleaseBody
    <2>2. released[s]
      BY <2>1 DEF StepAt, TableInv, OwnerInv
    <2> QED
      BY <1>f, <2>1, <2>2
  <1>34. CASE ReleaseClear(t)
    <2>1. slot[t] = s /\ released' = released /\ Releasing(t)
      BY <1>34, <1>b DEF ReleaseClear, Releasing, ReleaseBody
    <2>2. released[s]
      BY <2>1 DEF StepAt, TableInv, OwnerInv
    <2> QED
      BY <1>f, <2>1, <2>2
  <1>35. CASE PushIndex(t)
    <2>1. id'[s] = id[s] /\ released'[s] = released[s] /\ io'[s] = io[s]
      BY <1>35, <1>a, <1>b DEF PushIndex
    <2>2. pc[t] \notin {"relTest", "relCas"} \cup InsertLabels
      BY <1>35, <1>a, <1>b DEF PushIndex, InsertLabels
    <2> QED
      BY <1>d, <2>1, <2>2
  <1>36. CASE ReleaseCount(t)
    <2>1. id'[s] = id[s] /\ released'[s] = released[s] /\ io'[s] = io[s]
      BY <1>36, <1>a, <1>b DEF ReleaseCount, Forget, Return
    <2>2. pc[t] \notin {"relTest", "relCas"} \cup InsertLabels
      BY <1>36, <1>a, <1>b DEF ReleaseCount, Forget, Return, InsertLabels
    <2> QED
      BY <1>d, <2>1, <2>2
  <1>37. CASE Accept(t)
    <2>1. id'[s] = id[s] /\ released'[s] = released[s] /\ io'[s] = io[s]
      BY <1>37, <1>a, <1>b DEF Accept
    <2>2. pc[t] \notin {"relTest", "relCas"} \cup InsertLabels
      BY <1>37, <1>a, <1>b DEF Accept, InsertLabels
    <2> QED
      BY <1>d, <2>1, <2>2
  <1>38. ASSUME NEW r \in Slots, TakeRecv(t, r)
        PROVE  UnusedAt(s)'
    <2>1. slot'[t] = s /\ pc'[t] \in Holding
      BY <1>38, <1>a, <1>b DEF TakeRecv, Holding, PostLabels
    <2> QED
      BY <1>c, <2>1
  <1>39. ASSUME NEW r \in Slots, TakeSend(t, r)
        PROVE  UnusedAt(s)'
    <2>1. slot'[t] = s /\ pc'[t] \in Holding
      BY <1>39, <1>a, <1>b DEF TakeSend, Holding, PostLabels
    <2> QED
      BY <1>c, <2>1
  <1>40. ASSUME NEW r \in Slots, TakeDown(t, r)
        PROVE  UnusedAt(s)'
    <2>1. slot'[t] = s /\ pc'[t] \in Holding
      BY <1>40, <1>a, <1>b DEF TakeDown, Holding, PostLabels
    <2> QED
      BY <1>c, <2>1
  <1>41. ASSUME NEW i \in joined, Call(t, i)
        PROVE  UnusedAt(s)'
    <2>1. id'[s] = id[s] /\ released'[s] = released[s] /\ io'[s] = io[s]
      BY <1>41, <1>a, <1>b DEF Call, GetSessionIndex
    <2>2. pc[t] \notin {"relTest", "relCas"} \cup InsertLabels
      BY <1>41, <1>a, <1>b DEF Call, GetSessionIndex, InsertLabels
    <2> QED
      BY <1>d, <2>1, <2>2
  <1> QED
    BY <1>1, <1>2, <1>3, <1>4, <1>5, <1>6, <1>7, <1>8, <1>9, <1>10, <1>11, <1>12,
       <1>13, <1>14, <1>15, <1>16, <1>17, <1>18, <1>19, <1>20, <1>21, <1>22, <1>23, <1>24,
       <1>25, <1>26, <1>27, <1>28, <1>29, <1>30, <1>31, <1>32, <1>33, <1>34, <1>35, <1>36,
       <1>37, <1>38, <1>39, <1>40, <1>41
       DEF StepAt, Acts, Step, AcceptStep, CompletionStep, CallStep, ReleaseStep, Take

\* Nobody enters a slot that is being filled: its last owner is gone, and the window is closed.
LEMMA StepFilling ==
    ASSUME NEW t \in Threads, NEW s \in Slots, StepAt(t, s)
    PROVE  Filling'
  <1> USE DEF tableVars, refVars, connVars, sendVars, opVars, histVars, localVars, Goto, InsertLabels
  <1>a. /\ pc \in [Threads -> Labels] /\ slot \in [Threads -> Slots \cup {NoSlot}]
        /\ DOMAIN id = Slots /\ DOMAIN released = Slots
        /\ recvOps \in [Slots -> Nat] /\ sendOps \in [Slots -> Nat]
        /\ NoSlot \notin Slots /\ Acceptor \in Threads
        /\ pc[t] \in AcceptorLabels => t = Acceptor
        /\ \A u \in Threads : pc[u] \notin {"idle", "acPop"} => slot[u] \in Slots
    BY TypeFacts DEF StepAt
  <1>b. /\ Filling /\ ret[t] = "idle"
        /\ slot[t] \in {s, NoSlot} /\ slot'[t] \in {s, NoSlot}
        /\ pc[t] \notin {"idle", "acPop"} => slot[t] = s
        /\ pc'[t] \notin {"idle", "acPop"} => slot'[t] = s
        /\ pc[t] \in {"idle", "acPop"} => slot[t] = NoSlot
        /\ \A u \in Threads \ {t} : pc'[u] = pc[u] /\ slot'[u] = slot[u]
    BY DEF StepAt, Local, RefInv, Whereabouts
  <1>c. ASSUME pc'[Acceptor] \notin InsertLabels PROVE Filling'
    BY <1>c DEF Filling
  <1>d. ASSUME t # Acceptor, pc[Acceptor] \in InsertLabels => slot[Acceptor] # s
        PROVE  Filling'
    <2> SUFFICES ASSUME pc'[Acceptor] \in InsertLabels PROVE Filling'
      BY <1>c
    <2>1. pc[Acceptor] \in InsertLabels /\ slot'[Acceptor] = slot[Acceptor] /\ pc'[Acceptor] = pc[Acceptor]
      BY <1>a, <1>b, <1>d
    <2>2. PICK q \in Slots : q = slot[Acceptor]
      BY <1>a, <2>1
    <2>3. q # s /\ q # NoSlot
      BY <1>a, <1>d, <2>1, <2>2
    <2>4. /\ id'[q] = id[q] /\ released'[q] = released[q]
          /\ recvOps'[q] = recvOps[q] /\ sendOps'[q] = sendOps[q]
      BY <2>3 DEF StepAt, Local
    <2>5. slot[t] # q /\ slot'[t] # q
      BY <1>b, <2>3
    <2> QED
      BY <1>b, <2>1, <2>2, <2>4, <2>5 DEF Filling
  <1>e. ASSUME slot[t] = s, pc[t] # "relCount", t = Acceptor => pc'[t] \notin InsertLabels
        PROVE  Filling'
    <2>1. CASE t = Acceptor
      BY <1>c, <1>e, <2>1
    <2>2. CASE t # Acceptor
      <3>1. pc[Acceptor] \in InsertLabels => slot[Acceptor] # s
        BY <1>a, <1>b, <1>e, <2>2 DEF Filling
      <3> QED
        BY <1>d, <2>2, <3>1
    <2> QED
      BY <2>1, <2>2
  <1>1. CASE PopIndex(t)
    <2>1. /\ t = Acceptor /\ pc'[t] = "acInit" /\ slot'[t] = s /\ s = Head(stack) /\ stack # <<>>
          /\ UNCHANGED <<recvOps, sendOps>> /\ slot[t] = NoSlot
      BY <1>1, <1>a, <1>b DEF PopIndex, AcceptorLabels
    <2>2. ~Inspected(s)
      BY <1>1, <2>1 DEF PopIndex, StepAt, WindowClosed
    <2>3. Free(s)
      <3>1. stack \in Seq(Slots)
        BY TypeFacts DEF StepAt
      <3>2. 1 \in 1 .. Len(stack) /\ stack[1] = s
        BY <2>1, <3>1
      <3> QED
        BY <3>2 DEF Free
    <2>4. released[s] \/ NeverUsed(s)
      BY <2>3 DEF StepAt, TableInv, OwnerInv
    <2>5. recvOps[s] = 0 /\ sendOps[s] = 0
      BY <2>4 DEF StepAt, RefInv, ClosedAt, NeverUsed
    <2>6. ASSUME NEW u \in Threads \ {Acceptor}, slot[u] = s PROVE pc[u] = "relCount"
      <3>1. released[s]
        BY <2>4, <2>6 DEF NeverUsed
      <3>2. pc[u] \in Passive
        BY <2>6, <3>1 DEF StepAt, RefInv, ClosedAt
      <3>3. pc[u] \notin CheckLabels \cup {"relTest", "relCas"}
        BY <2>2, <2>6 DEF Inspected
      <3>4. pc[u] \notin ReleaseBody
        BY <2>3, <2>6 DEF StepAt, TableInv, SingleRelease, Releasing
      <3>5. pc[u] \notin InsertLabels
        BY <2>6 DEF StepAt, TableInv, RolesInv, AcceptorLabels
      <3> QED
        BY <3>2, <3>3, <3>4, <3>5 DEF Passive, CheckLabels, ReleaseLabels, ReleaseBody
    <2> QED
      BY <1>a, <1>b, <2>1, <2>5, <2>6 DEF Filling
  <1>2. CASE InsertFields(t)
    <2>1. /\ t = Acceptor /\ pc[t] = "acInit" /\ pc'[t] = "acZero" /\ slot[t] = s /\ slot' = slot
          /\ UNCHANGED <<recvOps, sendOps>> /\ id'[s] = CreateSessionID(lastId + 1, s)
      BY <1>2, <1>a, <1>b DEF InsertFields, AcceptorLabels
    <2>2. id'[s] # NoId
      <3>1. lastId + 1 # -1
        BY TypeFacts DEF StepAt
      <3>2. id'[s].id = lastId + 1 /\ NoId.id = -1
        BY <2>1 DEF NoId, CreateSessionID
      <3> QED
        BY <3>1, <3>2
    <2> QED
      BY <1>a, <1>b, <2>1, <2>2 DEF Filling
  <1>3. CASE InsertZero(t)
    <2>1. /\ t = Acceptor /\ pc[t] \in {"acZero", "acFlag"} /\ pc'[t] \in {"acFlag", "acOne"}
          /\ slot[t] = s /\ slot' = slot /\ UNCHANGED <<recvOps, sendOps, id>>
          /\ pc'[t] = "acOne" => ~released'[s]
      BY <1>3, <1>a, <1>b DEF InsertZero, AcceptorLabels
    <2> QED
      BY <1>a, <1>b, <2>1 DEF Filling
  <1>4. CASE InsertFlag(t)
    <2>1. /\ t = Acceptor /\ pc[t] \in {"acZero", "acFlag"} /\ pc'[t] \in {"acFlag", "acOne"}
          /\ slot[t] = s /\ slot' = slot /\ UNCHANGED <<recvOps, sendOps, id>>
          /\ pc'[t] = "acOne" => ~released'[s]
      BY <1>4, <1>a, <1>b DEF InsertFlag, AcceptorLabels
    <2> QED
      BY <1>a, <1>b, <2>1 DEF Filling
  <1>5. CASE InsertOne(t)
    <2>1. slot[t] = s /\ pc[t] # "relCount" /\ (t = Acceptor => pc'[t] \notin InsertLabels)
      BY <1>5, <1>a, <1>b DEF InsertOne
    <2> QED
      BY <1>e, <2>1
  <1>6. CASE InsertCount(t)
    <2>1. slot[t] = s /\ pc[t] # "relCount" /\ (t = Acceptor => pc'[t] \notin InsertLabels)
      BY <1>6, <1>a, <1>b DEF InsertCount
    <2> QED
      BY <1>e, <2>1
  <1>7. CASE Associate(t)
    <2>1. slot[t] = s /\ pc[t] # "relCount" /\ (t = Acceptor => pc'[t] \notin InsertLabels)
      BY <1>7, <1>a, <1>b DEF Associate
    <2> QED
      BY <1>e, <2>1
  <1>8. CASE AssociateFailed(t)
    <2>1. slot[t] = s /\ pc[t] # "relCount" /\ (t = Acceptor => pc'[t] \notin InsertLabels)
      BY <1>8, <1>a, <1>b DEF AssociateFailed, Dec
    <2> QED
      BY <1>e, <2>1
  <1>9. CASE OnClientJoin(t)
    <2>1. slot[t] = s /\ pc[t] # "relCount" /\ (t = Acceptor => pc'[t] \notin InsertLabels)
      BY <1>9, <1>a, <1>b DEF OnClientJoin
    <2> QED
      BY <1>e, <2>1
  <1>10. CASE RecvComplete(t)
    <2>1. slot[t] = s /\ pc[t] # "relCount" /\ (t = Acceptor => pc'[t] \notin InsertLabels)
      BY <1>10, <1>a, <1>b DEF RecvComplete, DisconnectSession
    <2> QED
      BY <1>e, <2>1
  <1>11. CASE SendComplete(t)
    <2>1. slot[t] = s /\ pc[t] # "relCount" /\ (t = Acceptor => pc'[t] \notin InsertLabels)
      BY <1>11, <1>a, <1>b DEF SendComplete
    <2> QED
      BY <1>e, <2>1
  <1>12. CASE SendCompleteFlag(t)
    <2>1. slot[t] = s /\ pc[t] # "relCount" /\ (t = Acceptor => pc'[t] \notin InsertLabels)
      BY <1>12, <1>a, <1>b DEF SendCompleteFlag
    <2> QED
      BY <1>e, <2>1
  <1>13. CASE PostRecvRef(t)
    <2>1. slot[t] = s /\ pc[t] # "relCount" /\ (t = Acceptor => pc'[t] \notin InsertLabels)
      BY <1>13, <1>a, <1>b DEF PostRecvRef, Inc
    <2> QED
      BY <1>e, <2>1
  <1>14. CASE PostRecv(t)
    <2>1. slot[t] = s /\ pc[t] # "relCount" /\ (t = Acceptor => pc'[t] \notin InsertLabels)
      BY <1>14, <1>a, <1>b DEF PostRecv
    <2> QED
      BY <1>e, <2>1
  <1>15. CASE PostSendTest(t)
    <2>1. slot[t] = s /\ pc[t] # "relCount" /\ (t = Acceptor => pc'[t] \notin InsertLabels)
      BY <1>15, <1>a, <1>b DEF PostSendTest
    <2> QED
      BY <1>e, <2>1
  <1>16. CASE PostSendCas(t)
    <2>1. slot[t] = s /\ pc[t] # "relCount" /\ (t = Acceptor => pc'[t] \notin InsertLabels)
      BY <1>16, <1>a, <1>b DEF PostSendCas
    <2> QED
      BY <1>e, <2>1
  <1>17. CASE PostSendRetest(t)
    <2>1. slot[t] = s /\ pc[t] # "relCount" /\ (t = Acceptor => pc'[t] \notin InsertLabels)
      BY <1>17, <1>a, <1>b DEF PostSendRetest
    <2> QED
      BY <1>e, <2>1
  <1>18. CASE PostSendReset(t)
    <2>1. slot[t] = s /\ pc[t] # "relCount" /\ (t = Acceptor => pc'[t] \notin InsertLabels)
      BY <1>18, <1>a, <1>b DEF PostSendReset
    <2> QED
      BY <1>e, <2>1
  <1>19. CASE PostSendRef(t)
    <2>1. slot[t] = s /\ pc[t] # "relCount" /\ (t = Acceptor => pc'[t] \notin InsertLabels)
      BY <1>19, <1>a, <1>b DEF PostSendRef, Inc
    <2> QED
      BY <1>e, <2>1
  <1>20. CASE PostSend(t)
    <2>1. slot[t] = s /\ pc[t] # "relCount" /\ (t = Acceptor => pc'[t] \notin InsertLabels)
      BY <1>20, <1>a, <1>b DEF PostSend
    <2> QED
      BY <1>e, <2>1
  <1>21. CASE PostFailed(t)
    <2>1. slot[t] = s /\ pc[t] # "relCount" /\ (t = Acceptor => pc'[t] \notin InsertLabels)
      BY <1>21, <1>a, <1>b DEF PostFailed, Dec
    <2> QED
      BY <1>e, <2>1
  <1>22. CASE Drop(t)
    <2>1. slot[t] = s /\ pc[t] # "relCount" /\ (t = Acceptor => pc'[t] \notin InsertLabels)
      BY <1>22, <1>a, <1>b DEF Drop, Forget, Dec
    <2> QED
      BY <1>e, <2>1
  <1>23. CASE CheckReleased(t)
    <2>1. slot[t] = s /\ pc[t] # "relCount" /\ (t = Acceptor => pc'[t] \notin InsertLabels)
      BY <1>23, <1>a, <1>b DEF CheckReleased, Forget
    <2> QED
      BY <1>e, <2>1
  <1>24. CASE CheckRef(t)
    <2>1. slot[t] = s /\ pc[t] # "relCount" /\ (t = Acceptor => pc'[t] \notin InsertLabels)
      BY <1>24, <1>a, <1>b DEF CheckRef, Inc
    <2> QED
      BY <1>e, <2>1
  <1>25. CASE CheckId(t)
    <2>1. slot[t] = s /\ pc[t] # "relCount" /\ (t = Acceptor => pc'[t] \notin InsertLabels)
      BY <1>25, <1>a, <1>b DEF CheckId
    <2> QED
      BY <1>e, <2>1
  <1>26. CASE CheckReleasedAgain(t)
    <2>1. slot[t] = s /\ pc[t] # "relCount" /\ (t = Acceptor => pc'[t] \notin InsertLabels)
      BY <1>26, <1>a, <1>b DEF CheckReleasedAgain
    <2> QED
      BY <1>e, <2>1
  <1>27. CASE Enqueue(t)
    <2>1. slot[t] = s /\ pc[t] # "relCount" /\ (t = Acceptor => pc'[t] \notin InsertLabels)
      BY <1>27, <1>a, <1>b DEF Enqueue
    <2> QED
      BY <1>e, <2>1
  <1>28. CASE Disconnect(t)
    <2>1. slot[t] = s /\ pc[t] # "relCount" /\ (t = Acceptor => pc'[t] \notin InsertLabels)
      BY <1>28, <1>a, <1>b DEF Disconnect, DisconnectSession
    <2> QED
      BY <1>e, <2>1
  <1>29. CASE ReleaseTest(t)
    <2>1. slot[t] = s /\ pc[t] # "relCount" /\ (t = Acceptor => pc'[t] \notin InsertLabels)
      BY <1>29, <1>a, <1>b DEF ReleaseTest, Forget, Return
    <2> QED
      BY <1>e, <2>1
  <1>30. CASE ReleaseCas(t)
    <2>1. slot[t] = s /\ pc[t] # "relCount" /\ (t = Acceptor => pc'[t] \notin InsertLabels)
      BY <1>30, <1>a, <1>b DEF ReleaseCas, Forget, Return
    <2> QED
      BY <1>e, <2>1
  <1>31. CASE ReleaseClose(t)
    <2>1. slot[t] = s /\ pc[t] # "relCount" /\ (t = Acceptor => pc'[t] \notin InsertLabels)
      BY <1>31, <1>a, <1>b DEF ReleaseClose, DisconnectSession
    <2> QED
      BY <1>e, <2>1
  <1>32. CASE OnClientLeave(t)
    <2>1. slot[t] = s /\ pc[t] # "relCount" /\ (t = Acceptor => pc'[t] \notin InsertLabels)
      BY <1>32, <1>a, <1>b DEF OnClientLeave
    <2> QED
      BY <1>e, <2>1
  <1>33. CASE ReleaseDrain(t)
    <2>1. slot[t] = s /\ pc[t] # "relCount" /\ (t = Acceptor => pc'[t] \notin InsertLabels)
      BY <1>33, <1>a, <1>b DEF ReleaseDrain
    <2> QED
      BY <1>e, <2>1
  <1>34. CASE ReleaseClear(t)
    <2>1. slot[t] = s /\ pc[t] # "relCount" /\ (t = Acceptor => pc'[t] \notin InsertLabels)
      BY <1>34, <1>a, <1>b DEF ReleaseClear
    <2> QED
      BY <1>e, <2>1
  <1>35. CASE PushIndex(t)
    <2>1. slot[t] = s /\ pc[t] # "relCount" /\ (t = Acceptor => pc'[t] \notin InsertLabels)
      BY <1>35, <1>a, <1>b DEF PushIndex
    <2> QED
      BY <1>e, <2>1
  <1>36. CASE ReleaseCount(t)
    <2>1. /\ pc[t] = "relCount" /\ pc'[t] = "idle" /\ slot'[t] = NoSlot
          /\ UNCHANGED <<id, released, recvOps, sendOps>>
      BY <1>36, <1>a, <1>b DEF ReleaseCount, Return, Forget
    <2> QED
      BY <1>a, <1>b, <2>1 DEF Filling
  <1>37. CASE Accept(t)
    <2>1. t = Acceptor /\ pc'[t] = "acPop"
      BY <1>37, <1>a DEF Accept
    <2> QED
      BY <1>c, <2>1
  <1>38. ASSUME NEW r \in Slots, TakeRecv(t, r)
        PROVE  Filling'
    <2>1. t # Acceptor /\ r = s /\ (recvOps[s] > 0 \/ sendOps[s] > 0)
      BY <1>38, <1>a, <1>b, ThreadsAssumption DEF TakeRecv
    <2> QED
      BY <1>a, <1>b, <1>d, <2>1 DEF Filling
  <1>39. ASSUME NEW r \in Slots, TakeSend(t, r)
        PROVE  Filling'
    <2>1. t # Acceptor /\ r = s /\ (recvOps[s] > 0 \/ sendOps[s] > 0)
      BY <1>39, <1>a, <1>b, ThreadsAssumption DEF TakeSend
    <2> QED
      BY <1>a, <1>b, <1>d, <2>1 DEF Filling
  <1>40. ASSUME NEW r \in Slots, TakeDown(t, r)
        PROVE  Filling'
    <2>1. t # Acceptor /\ r = s /\ (recvOps[s] > 0 \/ sendOps[s] > 0)
      BY <1>40, <1>a, <1>b, ThreadsAssumption DEF TakeDown
    <2> QED
      BY <1>a, <1>b, <1>d, <2>1 DEF Filling
  <1>41. ASSUME NEW i \in joined, Call(t, i)
        PROVE  Filling'
    <2>1. t # Acceptor /\ s = GetSessionIndex(i) /\ ~Inserting(GetSessionIndex(i))
      BY <1>41, <1>a, <1>b, ThreadsAssumption DEF Call, StepAt, WindowClosed
    <2> QED
      BY <1>d, <2>1 DEF Inserting
  <1> QED
    BY <1>1, <1>2, <1>3, <1>4, <1>5, <1>6, <1>7, <1>8, <1>9, <1>10, <1>11, <1>12,
       <1>13, <1>14, <1>15, <1>16, <1>17, <1>18, <1>19, <1>20, <1>21, <1>22, <1>23, <1>24,
       <1>25, <1>26, <1>27, <1>28, <1>29, <1>30, <1>31, <1>32, <1>33, <1>34, <1>35, <1>36,
       <1>37, <1>38, <1>39, <1>40, <1>41
       DEF StepAt, Acts, Step, AcceptStep, CompletionStep, CallStep, ReleaseStep, Take

\* A caller past the comparison of the ids keeps the session it named.
LEMMA StepCallers ==
    ASSUME NEW t \in Threads, NEW s \in Slots, StepAt(t, s)
    PROVE  CallersHold'
  <1> USE DEF tableVars, refVars, connVars, sendVars, opVars, histVars, localVars, Goto, PostLabels
  <1>a. /\ pc \in [Threads -> Labels] /\ slot \in [Threads -> Slots \cup {NoSlot}]
        /\ sid \in [Threads -> Ids] /\ DOMAIN id = Slots /\ DOMAIN released = Slots
        /\ NoSlot \notin Slots /\ Acceptor \in Threads
        /\ pc[t] \in AcceptorLabels => t = Acceptor
    BY TypeFacts DEF StepAt
  <1>b. /\ \A u \in Threads : CallerHolds(u)
        /\ ret[t] = "idle"
        /\ slot[t] \in {s, NoSlot} /\ slot'[t] \in {s, NoSlot}
        /\ pc[t] \notin {"idle", "acPop"} => slot[t] = s
        /\ \A u \in Threads \ {t} : pc'[u] = pc[u] /\ slot'[u] = slot[u] /\ sid'[u] = sid[u]
        /\ \A r \in Slots \ {s} : id'[r] = id[r] /\ released'[r] = released[r]
    BY DEF StepAt, Local, RefInv, Whereabouts, CallersHold
  <1>r. \A u \in Threads : pc[u] \notin {"idle", "acPop"} => slot[u] \in Slots
    BY TypeFacts DEF StepAt
  \* A step that leaves the id of the slot alone disturbs no other thread.
  <1>c. ASSUME id'[s] = id[s], released[s] => released'[s], CallerHolds(t)'
        PROVE  CallersHold'
    <2> SUFFICES ASSUME NEW u \in Threads, u # t PROVE CallerHolds(u)'
      BY <1>c DEF CallersHold
    <2>1. pc'[u] = pc[u] /\ slot'[u] = slot[u] /\ sid'[u] = sid[u]
      BY <1>b
    <2>2. CASE pc[u] \in {"idle", "acPop"}
      BY <2>1, <2>2 DEF CallerHolds
    <2>3. CASE pc[u] \notin {"idle", "acPop"}
      <3>1. PICK q \in Slots : q = slot[u]
        BY <1>r, <2>3
      <3>2. id'[q] = id[q] /\ (released[q] => released'[q])
        BY <1>b, <1>c
      <3> QED
        BY <1>b, <2>1, <3>1, <3>2 DEF CallerHolds
    <2> QED
      BY <2>2, <2>3
  \* One that changes it happens with nobody else inside.
  <1>d. ASSUME CallerHolds(t)',
               \A u \in Threads \ {t} : slot[u] = s =>
                   /\ pc[u] \notin {"enq", "disc"} \cup PostLabels
                   /\ pc[u] = "chkRel2" => released'[s]
        PROVE  CallersHold'
    <2> SUFFICES ASSUME NEW u \in Threads, u # t PROVE CallerHolds(u)'
      BY <1>d DEF CallersHold
    <2>1. pc'[u] = pc[u] /\ slot'[u] = slot[u] /\ sid'[u] = sid[u]
      BY <1>b
    <2>2. CASE pc[u] \in {"idle", "acPop"}
      BY <2>1, <2>2 DEF CallerHolds
    <2>3. CASE pc[u] \notin {"idle", "acPop"}
      <3>1. PICK q \in Slots : q = slot[u]
        BY <1>r, <2>3
      <3>2. CASE q = s
        BY <1>b, <1>d, <2>1, <3>1, <3>2 DEF CallerHolds
      <3>3. CASE q # s
        <4>1. id'[q] = id[q] /\ released'[q] = released[q]
          BY <1>b, <3>3
        <4> QED
          BY <1>b, <2>1, <3>1, <4>1 DEF CallerHolds
      <3> QED
        BY <3>2, <3>3
    <2> QED
      BY <2>2, <2>3
  <1>w. Acceptor \notin Workers \cup Callers /\ Workers \cap Callers = {}
    BY ThreadsAssumption
  <1>1. CASE PopIndex(t)
    <2>1. id' = id /\ released' = released
      BY <1>1 DEF PopIndex
    <2>2. CallerHolds(t)'
      BY <1>1, <1>a, <1>b, <1>w DEF PopIndex, CallerHolds
    <2> QED
      BY <1>c, <2>1, <2>2
  <1>2. CASE InsertFields(t)
    <2>1. t = Acceptor /\ pc[t] \in InsertLabels /\ slot[t] = s /\ pc'[t] \in {"acZero", "acOne"}
      BY <1>2, <1>a, <1>b DEF InsertFields, AcceptorLabels, InsertLabels
    <2>2. CallerHolds(t)'
      BY <2>1 DEF CallerHolds
    <2>3. \A u \in Threads \ {t} : slot[u] = s => pc[u] = "relCount"
      BY <2>1 DEF StepAt, RefInv, Filling
    <2> QED
      BY <1>d, <2>2, <2>3
  <1>3. CASE InsertZero(t)
    <2>1. id' = id /\ released' = released
      BY <1>3 DEF InsertZero
    <2>2. CallerHolds(t)'
      BY <1>3, <1>a, <1>b, <1>w DEF InsertZero, CallerHolds
    <2> QED
      BY <1>c, <2>1, <2>2
  <1>4. CASE InsertFlag(t)
    <2>1. t = Acceptor /\ pc[t] \in InsertLabels /\ slot[t] = s /\ pc'[t] \in {"acZero", "acOne"}
      BY <1>4, <1>a, <1>b DEF InsertFlag, AcceptorLabels, InsertLabels
    <2>2. CallerHolds(t)'
      BY <2>1 DEF CallerHolds
    <2>3. \A u \in Threads \ {t} : slot[u] = s => pc[u] = "relCount"
      BY <2>1 DEF StepAt, RefInv, Filling
    <2> QED
      BY <1>d, <2>2, <2>3
  <1>5. CASE InsertOne(t)
    <2>1. id' = id /\ released' = released
      BY <1>5 DEF InsertOne
    <2>2. CallerHolds(t)'
      BY <1>5, <1>a, <1>b, <1>w DEF InsertOne, CallerHolds
    <2> QED
      BY <1>c, <2>1, <2>2
  <1>6. CASE InsertCount(t)
    <2>1. id' = id /\ released' = released
      BY <1>6 DEF InsertCount
    <2>2. CallerHolds(t)'
      BY <1>6, <1>a, <1>b, <1>w DEF InsertCount, CallerHolds
    <2> QED
      BY <1>c, <2>1, <2>2
  <1>7. CASE Associate(t)
    <2>1. id' = id /\ released' = released
      BY <1>7 DEF Associate
    <2>2. CallerHolds(t)'
      BY <1>7, <1>a, <1>b, <1>w DEF Associate, CallerHolds
    <2> QED
      BY <1>c, <2>1, <2>2
  <1>8. CASE AssociateFailed(t)
    <2>1. id' = id /\ released' = released
      BY <1>8 DEF AssociateFailed, Dec
    <2>2. CallerHolds(t)'
      BY <1>8, <1>a, <1>b, <1>w DEF AssociateFailed, Dec, CallerHolds
    <2> QED
      BY <1>c, <2>1, <2>2
  <1>9. CASE OnClientJoin(t)
    <2>1. id' = id /\ released' = released
      BY <1>9 DEF OnClientJoin
    <2>2. t = Acceptor /\ pc'[t] = "prPost"
      BY <1>9, <1>a DEF OnClientJoin, AcceptorLabels
    <2> QED
      BY <1>c, <1>w, <2>1, <2>2 DEF CallerHolds
  <1>10. CASE RecvComplete(t)
    <2>1. id' = id /\ released' = released
      BY <1>10 DEF RecvComplete, DisconnectSession
    <2>2. CallerHolds(t)'
      BY <1>10, <1>a, <1>b, <1>w DEF RecvComplete, DisconnectSession, CallerHolds
    <2> QED
      BY <1>c, <2>1, <2>2
  <1>11. CASE SendComplete(t)
    <2>1. id' = id /\ released' = released
      BY <1>11 DEF SendComplete
    <2>2. CallerHolds(t)'
      BY <1>11, <1>a, <1>b, <1>w DEF SendComplete, CallerHolds
    <2> QED
      BY <1>c, <2>1, <2>2
  <1>12. CASE SendCompleteFlag(t)
    <2>1. id' = id /\ released' = released
      BY <1>12 DEF SendCompleteFlag
    <2>2. CallerHolds(t)'
      BY <1>12, <1>a, <1>b, <1>w DEF SendCompleteFlag, CallerHolds
    <2> QED
      BY <1>c, <2>1, <2>2
  <1>13. CASE PostRecvRef(t)
    <2>1. id' = id /\ released' = released
      BY <1>13 DEF PostRecvRef, Inc
    <2>2. CallerHolds(t)'
      BY <1>13, <1>a, <1>b, <1>w DEF PostRecvRef, Inc, CallerHolds
    <2> QED
      BY <1>c, <2>1, <2>2
  <1>14. CASE PostRecv(t)
    <2>1. id' = id /\ released' = released
      BY <1>14 DEF PostRecv
    <2>2. CallerHolds(t)'
      BY <1>14, <1>a, <1>b, <1>w DEF PostRecv, CallerHolds
    <2> QED
      BY <1>c, <2>1, <2>2
  <1>15. CASE PostSendTest(t)
    <2>1. id' = id /\ released' = released
      BY <1>15 DEF PostSendTest
    <2>2. CallerHolds(t)'
      BY <1>15, <1>a, <1>b, <1>w DEF PostSendTest, CallerHolds
    <2> QED
      BY <1>c, <2>1, <2>2
  <1>16. CASE PostSendCas(t)
    <2>1. id' = id /\ released' = released
      BY <1>16 DEF PostSendCas
    <2>2. CallerHolds(t)'
      BY <1>16, <1>a, <1>b, <1>w DEF PostSendCas, CallerHolds
    <2> QED
      BY <1>c, <2>1, <2>2
  <1>17. CASE PostSendRetest(t)
    <2>1. id' = id /\ released' = released
      BY <1>17 DEF PostSendRetest
    <2>2. CallerHolds(t)'
      BY <1>17, <1>a, <1>b, <1>w DEF PostSendRetest, CallerHolds
    <2> QED
      BY <1>c, <2>1, <2>2
  <1>18. CASE PostSendReset(t)
    <2>1. id' = id /\ released' = released
      BY <1>18 DEF PostSendReset
    <2>2. CallerHolds(t)'
      BY <1>18, <1>a, <1>b, <1>w DEF PostSendReset, CallerHolds
    <2> QED
      BY <1>c, <2>1, <2>2
  <1>19. CASE PostSendRef(t)
    <2>1. id' = id /\ released' = released
      BY <1>19 DEF PostSendRef, Inc
    <2>2. CallerHolds(t)'
      BY <1>19, <1>a, <1>b, <1>w DEF PostSendRef, Inc, CallerHolds
    <2> QED
      BY <1>c, <2>1, <2>2
  <1>20. CASE PostSend(t)
    <2>1. id' = id /\ released' = released
      BY <1>20 DEF PostSend
    <2>2. CallerHolds(t)'
      BY <1>20, <1>a, <1>b, <1>w DEF PostSend, CallerHolds
    <2> QED
      BY <1>c, <2>1, <2>2
  <1>21. CASE PostFailed(t)
    <2>1. id' = id /\ released' = released
      BY <1>21 DEF PostFailed, Dec
    <2>2. CallerHolds(t)'
      BY <1>21, <1>a, <1>b, <1>w DEF PostFailed, Dec, CallerHolds
    <2> QED
      BY <1>c, <2>1, <2>2
  <1>22. CASE Drop(t)
    <2>1. id' = id /\ released' = released
      BY <1>22 DEF Drop, Forget, Dec
    <2>2. CallerHolds(t)'
      BY <1>22, <1>a, <1>b, <1>w DEF Drop, Forget, Dec, CallerHolds
    <2> QED
      BY <1>c, <2>1, <2>2
  <1>23. CASE CheckReleased(t)
    <2>1. id' = id /\ released' = released
      BY <1>23 DEF CheckReleased, Forget
    <2>2. CallerHolds(t)'
      BY <1>23, <1>a, <1>b, <1>w DEF CheckReleased, Forget, CallerHolds
    <2> QED
      BY <1>c, <2>1, <2>2
  <1>24. CASE CheckRef(t)
    <2>1. id' = id /\ released' = released
      BY <1>24 DEF CheckRef, Inc
    <2>2. CallerHolds(t)'
      BY <1>24, <1>a, <1>b, <1>w DEF CheckRef, Inc, CallerHolds
    <2> QED
      BY <1>c, <2>1, <2>2
  <1>25. CASE CheckId(t)
    <2>1. id' = id /\ released' = released
      BY <1>25 DEF CheckId
    <2>2. CallerHolds(t)'
      BY <1>25, <1>a, <1>b, <1>w DEF CheckId, CallerHolds
    <2> QED
      BY <1>c, <2>1, <2>2
  <1>26. CASE CheckReleasedAgain(t)
    <2>1. id' = id /\ released' = released
      BY <1>26 DEF CheckReleasedAgain
    <2>2. CallerHolds(t)'
      BY <1>26, <1>a, <1>b, <1>w DEF CheckReleasedAgain, CallerHolds
    <2> QED
      BY <1>c, <2>1, <2>2
  <1>27. CASE Enqueue(t)
    <2>1. id' = id /\ released' = released
      BY <1>27 DEF Enqueue
    <2>2. CallerHolds(t)'
      BY <1>27, <1>a, <1>b, <1>w DEF Enqueue, CallerHolds
    <2> QED
      BY <1>c, <2>1, <2>2
  <1>28. CASE Disconnect(t)
    <2>1. id' = id /\ released' = released
      BY <1>28 DEF Disconnect, DisconnectSession
    <2>2. CallerHolds(t)'
      BY <1>28, <1>a, <1>b, <1>w DEF Disconnect, DisconnectSession, CallerHolds
    <2> QED
      BY <1>c, <2>1, <2>2
  <1>29. CASE ReleaseTest(t)
    <2>1. id' = id /\ released' = released
      BY <1>29 DEF ReleaseTest, Forget, Return
    <2>2. CallerHolds(t)'
      BY <1>29, <1>a, <1>b, <1>w DEF ReleaseTest, Forget, Return, CallerHolds
    <2> QED
      BY <1>c, <2>1, <2>2
  <1>30. CASE ReleaseCas(t)
    <2>1. id' = id /\ slot[t] = s
      BY <1>30, <1>b DEF ReleaseCas, Return
    <2>2. released[s] => released'[s]
      BY <1>30, <1>a, <2>1 DEF ReleaseCas
    <2>3. pc'[t] \in {"relClose", "idle"}
      BY <1>30, <1>a, <1>b DEF ReleaseCas, Return
    <2>4. CallerHolds(t)'
      BY <2>3 DEF CallerHolds
    <2> QED
      BY <1>c, <2>1, <2>2, <2>4
  <1>31. CASE ReleaseClose(t)
    <2>1. id' = id /\ released' = released
      BY <1>31 DEF ReleaseClose, DisconnectSession
    <2>2. CallerHolds(t)'
      BY <1>31, <1>a, <1>b, <1>w DEF ReleaseClose, DisconnectSession, CallerHolds
    <2> QED
      BY <1>c, <2>1, <2>2
  <1>32. CASE OnClientLeave(t)
    <2>1. id' = id /\ released' = released
      BY <1>32 DEF OnClientLeave
    <2>2. CallerHolds(t)'
      BY <1>32, <1>a, <1>b, <1>w DEF OnClientLeave, CallerHolds
    <2> QED
      BY <1>c, <2>1, <2>2
  <1>33. CASE ReleaseDrain(t)
    <2>1. id' = id /\ released' = released
      BY <1>33 DEF ReleaseDrain
    <2>2. CallerHolds(t)'
      BY <1>33, <1>a, <1>b, <1>w DEF ReleaseDrain, CallerHolds
    <2> QED
      BY <1>c, <2>1, <2>2
  <1>34. CASE ReleaseClear(t)
    <2>1. pc[t] = "relClear" /\ pc'[t] = "relPush" /\ slot[t] = s /\ released' = released
      BY <1>34, <1>a, <1>b DEF ReleaseClear
    <2>2. CallerHolds(t)'
      BY <2>1 DEF CallerHolds
    <2>3. released[s]
      BY <2>1 DEF StepAt, TableInv, OwnerInv, Releasing, ReleaseBody
    <2>4. \A u \in Threads : slot[u] = s => pc[u] \in Passive
      BY <2>3 DEF StepAt, RefInv, ClosedAt
    <2> QED
      BY <1>d, <2>1, <2>2, <2>3, <2>4 DEF Passive, CheckLabels, ReleaseLabels, ReleaseBody, InsertLabels
  <1>35. CASE PushIndex(t)
    <2>1. id' = id /\ released' = released
      BY <1>35 DEF PushIndex
    <2>2. CallerHolds(t)'
      BY <1>35, <1>a, <1>b, <1>w DEF PushIndex, CallerHolds
    <2> QED
      BY <1>c, <2>1, <2>2
  <1>36. CASE ReleaseCount(t)
    <2>1. id' = id /\ released' = released
      BY <1>36 DEF ReleaseCount, Forget, Return
    <2>2. CallerHolds(t)'
      BY <1>36, <1>a, <1>b, <1>w DEF ReleaseCount, Forget, Return, CallerHolds
    <2> QED
      BY <1>c, <2>1, <2>2
  <1>37. CASE Accept(t)
    <2>1. id' = id /\ released' = released
      BY <1>37 DEF Accept
    <2>2. CallerHolds(t)'
      BY <1>37, <1>a, <1>b, <1>w DEF Accept, CallerHolds
    <2> QED
      BY <1>c, <2>1, <2>2
  <1>38. ASSUME NEW r \in Slots, TakeRecv(t, r)
        PROVE  CallersHold'
    <2>1. id' = id /\ released' = released
      BY <1>38 DEF TakeRecv
    <2>2. CallerHolds(t)'
      BY <1>38, <1>a, <1>b, <1>w DEF TakeRecv, CallerHolds
    <2> QED
      BY <1>c, <2>1, <2>2
  <1>39. ASSUME NEW r \in Slots, TakeSend(t, r)
        PROVE  CallersHold'
    <2>1. id' = id /\ released' = released
      BY <1>39 DEF TakeSend
    <2>2. CallerHolds(t)'
      BY <1>39, <1>a, <1>b, <1>w DEF TakeSend, CallerHolds
    <2> QED
      BY <1>c, <2>1, <2>2
  <1>40. ASSUME NEW r \in Slots, TakeDown(t, r)
        PROVE  CallersHold'
    <2>1. id' = id /\ released' = released
      BY <1>40 DEF TakeDown
    <2>2. CallerHolds(t)'
      BY <1>40, <1>a, <1>b, <1>w DEF TakeDown, CallerHolds
    <2> QED
      BY <1>c, <2>1, <2>2
  <1>41. ASSUME NEW i \in joined, Call(t, i)
        PROVE  CallersHold'
    <2>1. id' = id /\ released' = released
      BY <1>41 DEF Call, GetSessionIndex
    <2>2. CallerHolds(t)'
      BY <1>41, <1>a, <1>b, <1>w DEF Call, GetSessionIndex, CallerHolds
    <2> QED
      BY <1>c, <2>1, <2>2
  <1> QED
    BY <1>1, <1>2, <1>3, <1>4, <1>5, <1>6, <1>7, <1>8, <1>9, <1>10, <1>11, <1>12,
       <1>13, <1>14, <1>15, <1>16, <1>17, <1>18, <1>19, <1>20, <1>21, <1>22, <1>23, <1>24,
       <1>25, <1>26, <1>27, <1>28, <1>29, <1>30, <1>31, <1>32, <1>33, <1>34, <1>35, <1>36,
       <1>37, <1>38, <1>39, <1>40, <1>41
       DEF StepAt, Acts, Step, AcceptStep, CompletionStep, CallStep, ReleaseStep, Take

\* Each session gets a number of its own.
LEMMA StepNumbered ==
    ASSUME NEW t \in Threads, NEW s \in Slots, StepAt(t, s)
    PROVE  Numbered'
  <1> USE DEF tableVars, refVars, connVars, sendVars, opVars, histVars, localVars, Goto, BeforeJoin
  <1>a. /\ pc \in [Threads -> Labels] /\ slot \in [Threads -> Slots \cup {NoSlot}]
        /\ DOMAIN id = Slots /\ lastId \in Nat /\ MaxSessions \in Nat
        /\ NoSlot \notin Slots /\ Acceptor \in Threads
        /\ pc[t] \in AcceptorLabels => t = Acceptor
    BY TypeFacts, BoundsAssumption DEF StepAt
  <1>b. /\ Numbered /\ Filling /\ ret[t] = "idle"
        /\ slot[t] \in {s, NoSlot} /\ slot'[t] \in {s, NoSlot}
        /\ pc[t] \notin {"idle", "acPop"} => slot[t] = s
        /\ \A u \in Threads \ {t} : pc'[u] = pc[u] /\ slot'[u] = slot[u]
    BY DEF StepAt, Local, RefInv, Whereabouts
  <1>n. NoId.id = -1 /\ \A n, r : CreateSessionID(n, r).id = n
    BY DEF NoId, CreateSessionID
  <1>m. \A n \in Nat : n # -1
    OBVIOUS
  \* The thread goes on, and no id is given or taken.
  <1>c. ASSUME UNCHANGED <<lastId, joined, gone, id>>,
               t = Acceptor => /\ pc'[t] \in {"acPop", "acInit"} => lastId < MaxSessions
                               /\ pc'[t] \in BeforeJoin => pc[t] \in BeforeJoin /\ slot' = slot
        PROVE  Numbered'
    BY <1>a, <1>b, <1>c DEF Numbered
  <1>1. CASE PopIndex(t)
    <2>1. UNCHANGED <<lastId, joined, gone, id>> /\ pc'[t] \in {"acPop", "acInit"}
      BY <1>1, <1>a DEF PopIndex
    <2>2. t = Acceptor /\ lastId < MaxSessions
      BY <1>1, <1>a, <1>b DEF PopIndex, Numbered, AcceptorLabels
    <2> QED
      BY <1>c, <2>1, <2>2
  <1>2. CASE InsertFields(t)
    <2>1. /\ t = Acceptor /\ pc[t] = "acInit" /\ pc'[t] = "acZero" /\ slot[t] = s /\ slot' = slot
          /\ lastId' = lastId + 1 /\ id' = [id EXCEPT ![s] = CreateSessionID(lastId + 1, s)]
          /\ UNCHANGED <<joined, gone>>
      BY <1>2, <1>a, <1>b DEF InsertFields, AcceptorLabels, InsertLabels
    <2>2. lastId < MaxSessions
      BY <1>b, <2>1 DEF Numbered
    <2>3. lastId' <= MaxSessions /\ lastId' \in Nat /\ lastId' \in 1 .. lastId'
      BY <1>a, <2>1, <2>2
    <2>4. \A n \in 1 .. lastId : n \in 1 .. lastId' /\ n # lastId'
      BY <1>a, <2>1
    <2>5. id'[s].id = lastId' /\ id'[s] = CreateSessionID(lastId', s) /\ id'[s] # NoId
      BY <1>a, <1>m, <1>n, <2>1, <2>3
    <2>6. \A r \in Slots \ {s} : id'[r] = id[r] /\ id[r].id # lastId'
      <3> SUFFICES ASSUME NEW r \in Slots \ {s} PROVE id'[r] = id[r] /\ id[r].id # lastId'
        OBVIOUS
      <3>1. id'[r] = id[r]
        BY <1>a, <2>1
      <3>2. CASE id[r] = NoId
        BY <1>m, <1>n, <2>3, <3>1, <3>2
      <3>3. CASE id[r] # NoId
        BY <1>b, <2>4, <3>1, <3>3 DEF Numbered
      <3> QED
        BY <3>2, <3>3
    <2>7. \A i \in joined' \cup gone' : i.id \in 1 .. lastId' /\ i.id # lastId'
      BY <1>b, <2>1, <2>4 DEF Numbered
    <2>8. \A r \in Slots : id'[r] # NoId => id'[r].id \in 1 .. lastId' /\ id'[r] = CreateSessionID(id'[r].id, r)
      BY <1>b, <2>3, <2>4, <2>5, <2>6 DEF Numbered
    <2>9. \A r, q \in Slots : id'[r] # NoId /\ id'[r].id = id'[q].id => r = q
      BY <1>b, <2>5, <2>6 DEF Numbered
    <2> QED
      BY <2>1, <2>3, <2>5, <2>7, <2>8, <2>9 DEF Numbered
  <1>3. CASE InsertZero(t)
    <2>1. UNCHANGED <<lastId, joined, gone, id>>
      BY <1>3 DEF InsertZero
    <2>2. t = Acceptor => pc'[t] \notin {"acPop", "acInit"} /\ (pc'[t] \in BeforeJoin => pc[t] \in BeforeJoin /\ slot' = slot)
      BY <1>3, <1>a, <1>b DEF InsertZero
    <2> QED
      BY <1>c, <2>1, <2>2
  <1>4. CASE InsertFlag(t)
    <2>1. UNCHANGED <<lastId, joined, gone, id>>
      BY <1>4 DEF InsertFlag
    <2>2. t = Acceptor => pc'[t] \notin {"acPop", "acInit"} /\ (pc'[t] \in BeforeJoin => pc[t] \in BeforeJoin /\ slot' = slot)
      BY <1>4, <1>a, <1>b DEF InsertFlag
    <2> QED
      BY <1>c, <2>1, <2>2
  <1>5. CASE InsertOne(t)
    <2>1. UNCHANGED <<lastId, joined, gone, id>>
      BY <1>5 DEF InsertOne
    <2>2. t = Acceptor => pc'[t] \notin {"acPop", "acInit"} /\ (pc'[t] \in BeforeJoin => pc[t] \in BeforeJoin /\ slot' = slot)
      BY <1>5, <1>a, <1>b DEF InsertOne
    <2> QED
      BY <1>c, <2>1, <2>2
  <1>6. CASE InsertCount(t)
    <2>1. UNCHANGED <<lastId, joined, gone, id>>
      BY <1>6 DEF InsertCount
    <2>2. t = Acceptor => pc'[t] \notin {"acPop", "acInit"} /\ (pc'[t] \in BeforeJoin => pc[t] \in BeforeJoin /\ slot' = slot)
      BY <1>6, <1>a, <1>b DEF InsertCount
    <2> QED
      BY <1>c, <2>1, <2>2
  <1>7. CASE Associate(t)
    <2>1. UNCHANGED <<lastId, joined, gone, id>>
      BY <1>7 DEF Associate
    <2>2. t = Acceptor => pc'[t] \notin {"acPop", "acInit"} /\ (pc'[t] \in BeforeJoin => pc[t] \in BeforeJoin /\ slot' = slot)
      BY <1>7, <1>a, <1>b DEF Associate
    <2> QED
      BY <1>c, <2>1, <2>2
  <1>8. CASE AssociateFailed(t)
    <2>1. UNCHANGED <<lastId, joined, gone, id>>
      BY <1>8 DEF AssociateFailed, Dec
    <2>2. t = Acceptor => pc'[t] \notin {"acPop", "acInit"} /\ (pc'[t] \in BeforeJoin => pc[t] \in BeforeJoin /\ slot' = slot)
      BY <1>8, <1>a, <1>b DEF AssociateFailed, Dec
    <2> QED
      BY <1>c, <2>1, <2>2
  <1>9. CASE OnClientJoin(t)
    <2>1. /\ t = Acceptor /\ pc[t] = "join" /\ pc'[t] = "prPost" /\ slot[t] = s
          /\ joined' = joined \cup {id[s]} /\ UNCHANGED <<lastId, id, gone>>
      BY <1>9, <1>a, <1>b DEF OnClientJoin, AcceptorLabels
    <2>2. id[s] # NoId
      <3>1. id[s].id = lastId
        BY <1>b, <1>n, <2>1 DEF Numbered
      <3> QED
        BY <1>a, <1>m, <1>n, <3>1
    <2>3. id[s].id \in 1 .. lastId
      BY <1>b, <2>2 DEF Numbered
    <2> QED
      BY <1>b, <2>1, <2>3 DEF Numbered
  <1>10. CASE RecvComplete(t)
    <2>1. UNCHANGED <<lastId, joined, gone, id>>
      BY <1>10 DEF RecvComplete, DisconnectSession
    <2>2. t = Acceptor => pc'[t] \notin {"acPop", "acInit"} /\ (pc'[t] \in BeforeJoin => pc[t] \in BeforeJoin /\ slot' = slot)
      BY <1>10, <1>a, <1>b DEF RecvComplete, DisconnectSession
    <2> QED
      BY <1>c, <2>1, <2>2
  <1>11. CASE SendComplete(t)
    <2>1. UNCHANGED <<lastId, joined, gone, id>>
      BY <1>11 DEF SendComplete
    <2>2. t = Acceptor => pc'[t] \notin {"acPop", "acInit"} /\ (pc'[t] \in BeforeJoin => pc[t] \in BeforeJoin /\ slot' = slot)
      BY <1>11, <1>a, <1>b DEF SendComplete
    <2> QED
      BY <1>c, <2>1, <2>2
  <1>12. CASE SendCompleteFlag(t)
    <2>1. UNCHANGED <<lastId, joined, gone, id>>
      BY <1>12 DEF SendCompleteFlag
    <2>2. t = Acceptor => pc'[t] \notin {"acPop", "acInit"} /\ (pc'[t] \in BeforeJoin => pc[t] \in BeforeJoin /\ slot' = slot)
      BY <1>12, <1>a, <1>b DEF SendCompleteFlag
    <2> QED
      BY <1>c, <2>1, <2>2
  <1>13. CASE PostRecvRef(t)
    <2>1. UNCHANGED <<lastId, joined, gone, id>>
      BY <1>13 DEF PostRecvRef, Inc
    <2>2. t = Acceptor => pc'[t] \notin {"acPop", "acInit"} /\ (pc'[t] \in BeforeJoin => pc[t] \in BeforeJoin /\ slot' = slot)
      BY <1>13, <1>a, <1>b DEF PostRecvRef, Inc
    <2> QED
      BY <1>c, <2>1, <2>2
  <1>14. CASE PostRecv(t)
    <2>1. UNCHANGED <<lastId, joined, gone, id>>
      BY <1>14 DEF PostRecv
    <2>2. t = Acceptor => pc'[t] \notin {"acPop", "acInit"} /\ (pc'[t] \in BeforeJoin => pc[t] \in BeforeJoin /\ slot' = slot)
      BY <1>14, <1>a, <1>b DEF PostRecv
    <2> QED
      BY <1>c, <2>1, <2>2
  <1>15. CASE PostSendTest(t)
    <2>1. UNCHANGED <<lastId, joined, gone, id>>
      BY <1>15 DEF PostSendTest
    <2>2. t = Acceptor => pc'[t] \notin {"acPop", "acInit"} /\ (pc'[t] \in BeforeJoin => pc[t] \in BeforeJoin /\ slot' = slot)
      BY <1>15, <1>a, <1>b DEF PostSendTest
    <2> QED
      BY <1>c, <2>1, <2>2
  <1>16. CASE PostSendCas(t)
    <2>1. UNCHANGED <<lastId, joined, gone, id>>
      BY <1>16 DEF PostSendCas
    <2>2. t = Acceptor => pc'[t] \notin {"acPop", "acInit"} /\ (pc'[t] \in BeforeJoin => pc[t] \in BeforeJoin /\ slot' = slot)
      BY <1>16, <1>a, <1>b DEF PostSendCas
    <2> QED
      BY <1>c, <2>1, <2>2
  <1>17. CASE PostSendRetest(t)
    <2>1. UNCHANGED <<lastId, joined, gone, id>>
      BY <1>17 DEF PostSendRetest
    <2>2. t = Acceptor => pc'[t] \notin {"acPop", "acInit"} /\ (pc'[t] \in BeforeJoin => pc[t] \in BeforeJoin /\ slot' = slot)
      BY <1>17, <1>a, <1>b DEF PostSendRetest
    <2> QED
      BY <1>c, <2>1, <2>2
  <1>18. CASE PostSendReset(t)
    <2>1. UNCHANGED <<lastId, joined, gone, id>>
      BY <1>18 DEF PostSendReset
    <2>2. t = Acceptor => pc'[t] \notin {"acPop", "acInit"} /\ (pc'[t] \in BeforeJoin => pc[t] \in BeforeJoin /\ slot' = slot)
      BY <1>18, <1>a, <1>b DEF PostSendReset
    <2> QED
      BY <1>c, <2>1, <2>2
  <1>19. CASE PostSendRef(t)
    <2>1. UNCHANGED <<lastId, joined, gone, id>>
      BY <1>19 DEF PostSendRef, Inc
    <2>2. t = Acceptor => pc'[t] \notin {"acPop", "acInit"} /\ (pc'[t] \in BeforeJoin => pc[t] \in BeforeJoin /\ slot' = slot)
      BY <1>19, <1>a, <1>b DEF PostSendRef, Inc
    <2> QED
      BY <1>c, <2>1, <2>2
  <1>20. CASE PostSend(t)
    <2>1. UNCHANGED <<lastId, joined, gone, id>>
      BY <1>20 DEF PostSend
    <2>2. t = Acceptor => pc'[t] \notin {"acPop", "acInit"} /\ (pc'[t] \in BeforeJoin => pc[t] \in BeforeJoin /\ slot' = slot)
      BY <1>20, <1>a, <1>b DEF PostSend
    <2> QED
      BY <1>c, <2>1, <2>2
  <1>21. CASE PostFailed(t)
    <2>1. UNCHANGED <<lastId, joined, gone, id>>
      BY <1>21 DEF PostFailed, Dec
    <2>2. t = Acceptor => pc'[t] \notin {"acPop", "acInit"} /\ (pc'[t] \in BeforeJoin => pc[t] \in BeforeJoin /\ slot' = slot)
      BY <1>21, <1>a, <1>b DEF PostFailed, Dec
    <2> QED
      BY <1>c, <2>1, <2>2
  <1>22. CASE Drop(t)
    <2>1. UNCHANGED <<lastId, joined, gone, id>>
      BY <1>22 DEF Drop, Forget, Dec
    <2>2. t = Acceptor => pc'[t] \notin {"acPop", "acInit"} /\ (pc'[t] \in BeforeJoin => pc[t] \in BeforeJoin /\ slot' = slot)
      BY <1>22, <1>a, <1>b DEF Drop, Forget, Dec
    <2> QED
      BY <1>c, <2>1, <2>2
  <1>23. CASE CheckReleased(t)
    <2>1. UNCHANGED <<lastId, joined, gone, id>>
      BY <1>23 DEF CheckReleased, Forget
    <2>2. t = Acceptor => pc'[t] \notin {"acPop", "acInit"} /\ (pc'[t] \in BeforeJoin => pc[t] \in BeforeJoin /\ slot' = slot)
      BY <1>23, <1>a, <1>b DEF CheckReleased, Forget
    <2> QED
      BY <1>c, <2>1, <2>2
  <1>24. CASE CheckRef(t)
    <2>1. UNCHANGED <<lastId, joined, gone, id>>
      BY <1>24 DEF CheckRef, Inc
    <2>2. t = Acceptor => pc'[t] \notin {"acPop", "acInit"} /\ (pc'[t] \in BeforeJoin => pc[t] \in BeforeJoin /\ slot' = slot)
      BY <1>24, <1>a, <1>b DEF CheckRef, Inc
    <2> QED
      BY <1>c, <2>1, <2>2
  <1>25. CASE CheckId(t)
    <2>1. UNCHANGED <<lastId, joined, gone, id>>
      BY <1>25 DEF CheckId
    <2>2. t = Acceptor => pc'[t] \notin {"acPop", "acInit"} /\ (pc'[t] \in BeforeJoin => pc[t] \in BeforeJoin /\ slot' = slot)
      BY <1>25, <1>a, <1>b DEF CheckId
    <2> QED
      BY <1>c, <2>1, <2>2
  <1>26. CASE CheckReleasedAgain(t)
    <2>1. UNCHANGED <<lastId, joined, gone, id>>
      BY <1>26 DEF CheckReleasedAgain
    <2>2. t = Acceptor => pc'[t] \notin {"acPop", "acInit"} /\ (pc'[t] \in BeforeJoin => pc[t] \in BeforeJoin /\ slot' = slot)
      BY <1>26, <1>a, <1>b DEF CheckReleasedAgain
    <2> QED
      BY <1>c, <2>1, <2>2
  <1>27. CASE Enqueue(t)
    <2>1. UNCHANGED <<lastId, joined, gone, id>>
      BY <1>27 DEF Enqueue
    <2>2. t = Acceptor => pc'[t] \notin {"acPop", "acInit"} /\ (pc'[t] \in BeforeJoin => pc[t] \in BeforeJoin /\ slot' = slot)
      BY <1>27, <1>a, <1>b DEF Enqueue
    <2> QED
      BY <1>c, <2>1, <2>2
  <1>28. CASE Disconnect(t)
    <2>1. UNCHANGED <<lastId, joined, gone, id>>
      BY <1>28 DEF Disconnect, DisconnectSession
    <2>2. t = Acceptor => pc'[t] \notin {"acPop", "acInit"} /\ (pc'[t] \in BeforeJoin => pc[t] \in BeforeJoin /\ slot' = slot)
      BY <1>28, <1>a, <1>b DEF Disconnect, DisconnectSession
    <2> QED
      BY <1>c, <2>1, <2>2
  <1>29. CASE ReleaseTest(t)
    <2>1. UNCHANGED <<lastId, joined, gone, id>>
      BY <1>29 DEF ReleaseTest, Forget, Return
    <2>2. t = Acceptor => pc'[t] \notin {"acPop", "acInit"} /\ (pc'[t] \in BeforeJoin => pc[t] \in BeforeJoin /\ slot' = slot)
      BY <1>29, <1>a, <1>b DEF ReleaseTest, Forget, Return
    <2> QED
      BY <1>c, <2>1, <2>2
  <1>30. CASE ReleaseCas(t)
    <2>1. UNCHANGED <<lastId, joined, gone, id>>
      BY <1>30 DEF ReleaseCas, Forget, Return
    <2>2. t = Acceptor => pc'[t] \notin {"acPop", "acInit"} /\ (pc'[t] \in BeforeJoin => pc[t] \in BeforeJoin /\ slot' = slot)
      BY <1>30, <1>a, <1>b DEF ReleaseCas, Forget, Return
    <2> QED
      BY <1>c, <2>1, <2>2
  <1>31. CASE ReleaseClose(t)
    <2>1. UNCHANGED <<lastId, joined, gone, id>>
      BY <1>31 DEF ReleaseClose, DisconnectSession
    <2>2. t = Acceptor => pc'[t] \notin {"acPop", "acInit"} /\ (pc'[t] \in BeforeJoin => pc[t] \in BeforeJoin /\ slot' = slot)
      BY <1>31, <1>a, <1>b DEF ReleaseClose, DisconnectSession
    <2> QED
      BY <1>c, <2>1, <2>2
  <1>32. CASE OnClientLeave(t)
    <2>1. /\ pc[t] = "relLeave" /\ pc'[t] = "relDrain" /\ slot[t] = s /\ slot' = slot
          /\ gone' = gone \cup {id[s]} /\ UNCHANGED <<lastId, id, joined>>
      BY <1>32, <1>a, <1>b DEF OnClientLeave
    <2>2. id[s] # NoId
      BY <2>1 DEF StepAt, RefInv, NamedAt, Leaving
    <2>3. id[s].id \in 1 .. lastId
      BY <1>b, <2>2 DEF Numbered
    <2>4. released[s]
      BY <2>1 DEF StepAt, TableInv, OwnerInv, Releasing, ReleaseBody
    <2>5. pc[Acceptor] \in BeforeJoin => slot[Acceptor] # s
      <3>1. CASE t = Acceptor
        BY <2>1, <3>1
      <3>2. CASE t # Acceptor /\ slot[Acceptor] = s /\ pc[Acceptor] \in BeforeJoin
        <4>1. pc[Acceptor] \in Passive
          BY <1>a, <2>4, <3>2 DEF StepAt, RefInv, ClosedAt
        <4>2. pc[Acceptor] \in InsertLabels
          BY <3>2, <4>1 DEF Passive, CheckLabels, ReleaseLabels, ReleaseBody, InsertLabels
        <4> QED
          BY <1>b, <2>1, <3>2, <4>2 DEF Filling
      <3> QED
        BY <3>1, <3>2
    <2>6. pc[Acceptor] \in BeforeJoin => id[s].id # lastId
      <3> SUFFICES ASSUME pc[Acceptor] \in BeforeJoin, id[s].id = lastId PROVE FALSE
        OBVIOUS
      <3>1. id[slot[Acceptor]].id = lastId /\ slot[Acceptor] \in Slots
        <4>1. id[slot[Acceptor]] = CreateSessionID(lastId, slot[Acceptor])
          BY <1>b DEF Numbered
        <4>2. slot[Acceptor] \in Slots
          BY <1>a, TypeFacts DEF StepAt
        <4> QED
          BY <1>n, <4>1, <4>2
      <3>2. slot[Acceptor] = s
        BY <1>b, <2>2, <3>1 DEF Numbered
      <3> QED
        BY <2>5, <3>2
    <2>7. pc'[Acceptor] = pc[Acceptor] \/ pc'[Acceptor] = "relDrain"
      BY <1>a, <1>b, <2>1
    <2> QED
      BY <1>a, <1>b, <2>1, <2>3, <2>6, <2>7 DEF Numbered
  <1>33. CASE ReleaseDrain(t)
    <2>1. UNCHANGED <<lastId, joined, gone, id>>
      BY <1>33 DEF ReleaseDrain
    <2>2. t = Acceptor => pc'[t] \notin {"acPop", "acInit"} /\ (pc'[t] \in BeforeJoin => pc[t] \in BeforeJoin /\ slot' = slot)
      BY <1>33, <1>a, <1>b DEF ReleaseDrain
    <2> QED
      BY <1>c, <2>1, <2>2
  <1>34. CASE ReleaseClear(t)
    <2>1. /\ pc[t] = "relClear" /\ pc'[t] = "relPush" /\ slot[t] = s /\ slot' = slot
          /\ id' = [id EXCEPT ![s] = NoId] /\ UNCHANGED <<lastId, gone, joined>>
      BY <1>34, <1>a, <1>b DEF ReleaseClear
    <2>4. released[s]
      BY <2>1 DEF StepAt, TableInv, OwnerInv, Releasing, ReleaseBody
    <2>5. pc[Acceptor] \in BeforeJoin => slot[Acceptor] # s
      <3>1. CASE t = Acceptor
        BY <2>1, <3>1
      <3>2. CASE t # Acceptor /\ slot[Acceptor] = s /\ pc[Acceptor] \in BeforeJoin
        <4>1. pc[Acceptor] \in Passive
          BY <1>a, <2>4, <3>2 DEF StepAt, RefInv, ClosedAt
        <4>2. pc[Acceptor] \in InsertLabels
          BY <3>2, <4>1 DEF Passive, CheckLabels, ReleaseLabels, ReleaseBody, InsertLabels
        <4> QED
          BY <1>b, <2>1, <3>2, <4>2 DEF Filling
      <3> QED
        BY <3>1, <3>2
    <2>6. pc'[Acceptor] = pc[Acceptor] \/ pc'[Acceptor] = "relPush"
      BY <1>a, <1>b, <2>1
    <2>7. id'[s] = NoId /\ \A r \in Slots \ {s} : id'[r] = id[r]
      BY <1>a, <2>1
    <2>8. \A r \in Slots \ {s} : id[r] # NoId => id[r].id # NoId.id
      <3>1. \A n \in 1 .. lastId : n # -1
        BY <1>a
      <3> QED
        BY <1>b, <1>n, <3>1 DEF Numbered
    <2>9. \A r, q \in Slots : id'[r] # NoId /\ id'[r].id = id'[q].id => r = q
      BY <1>b, <2>7, <2>8 DEF Numbered
    <2>10. \A r \in Slots : id'[r] # NoId => id'[r].id \in 1 .. lastId' /\ id'[r] = CreateSessionID(id'[r].id, r)
      BY <1>b, <2>1, <2>7 DEF Numbered
    <2>11. pc'[Acceptor] \in BeforeJoin => id'[slot'[Acceptor]] = CreateSessionID(lastId', slot'[Acceptor])
      <3> SUFFICES ASSUME pc'[Acceptor] \in BeforeJoin
                   PROVE  id'[slot'[Acceptor]] = CreateSessionID(lastId', slot'[Acceptor])
        OBVIOUS
      <3>1. pc[Acceptor] \in BeforeJoin
        BY <2>6
      <3>2. slot[Acceptor] \in Slots \ {s}
        BY <1>a, <2>5, <3>1, TypeFacts DEF StepAt
      <3> QED
        BY <1>b, <2>1, <2>7, <3>1, <3>2 DEF Numbered
    <2> QED
      BY <1>b, <2>1, <2>6, <2>9, <2>10, <2>11 DEF Numbered
  <1>35. CASE PushIndex(t)
    <2>1. UNCHANGED <<lastId, joined, gone, id>>
      BY <1>35 DEF PushIndex
    <2>2. t = Acceptor => pc'[t] \notin {"acPop", "acInit"} /\ (pc'[t] \in BeforeJoin => pc[t] \in BeforeJoin /\ slot' = slot)
      BY <1>35, <1>a, <1>b DEF PushIndex
    <2> QED
      BY <1>c, <2>1, <2>2
  <1>36. CASE ReleaseCount(t)
    <2>1. UNCHANGED <<lastId, joined, gone, id>>
      BY <1>36 DEF ReleaseCount, Forget, Return
    <2>2. t = Acceptor => pc'[t] \notin {"acPop", "acInit"} /\ (pc'[t] \in BeforeJoin => pc[t] \in BeforeJoin /\ slot' = slot)
      BY <1>36, <1>a, <1>b DEF ReleaseCount, Forget, Return
    <2> QED
      BY <1>c, <2>1, <2>2
  <1>37. CASE Accept(t)
    <2>1. UNCHANGED <<lastId, joined, gone, id>> /\ pc'[t] \in {"acPop", "acInit"}
      BY <1>37, <1>a DEF Accept
    <2>2. t = Acceptor /\ lastId < MaxSessions
      BY <1>37, <1>a, <1>b DEF Accept, Numbered, AcceptorLabels
    <2> QED
      BY <1>c, <2>1, <2>2
  <1>38. ASSUME NEW r \in Slots, TakeRecv(t, r)
        PROVE  Numbered'
    <2>1. UNCHANGED <<lastId, joined, gone, id>>
      BY <1>38 DEF TakeRecv
    <2>2. t = Acceptor => pc'[t] \notin {"acPop", "acInit"} /\ (pc'[t] \in BeforeJoin => pc[t] \in BeforeJoin /\ slot' = slot)
      BY <1>38, <1>a, <1>b DEF TakeRecv
    <2> QED
      BY <1>c, <2>1, <2>2
  <1>39. ASSUME NEW r \in Slots, TakeSend(t, r)
        PROVE  Numbered'
    <2>1. UNCHANGED <<lastId, joined, gone, id>>
      BY <1>39 DEF TakeSend
    <2>2. t = Acceptor => pc'[t] \notin {"acPop", "acInit"} /\ (pc'[t] \in BeforeJoin => pc[t] \in BeforeJoin /\ slot' = slot)
      BY <1>39, <1>a, <1>b DEF TakeSend
    <2> QED
      BY <1>c, <2>1, <2>2
  <1>40. ASSUME NEW r \in Slots, TakeDown(t, r)
        PROVE  Numbered'
    <2>1. UNCHANGED <<lastId, joined, gone, id>>
      BY <1>40 DEF TakeDown
    <2>2. t = Acceptor => pc'[t] \notin {"acPop", "acInit"} /\ (pc'[t] \in BeforeJoin => pc[t] \in BeforeJoin /\ slot' = slot)
      BY <1>40, <1>a, <1>b DEF TakeDown
    <2> QED
      BY <1>c, <2>1, <2>2
  <1>41. ASSUME NEW i \in joined, Call(t, i)
        PROVE  Numbered'
    <2>1. UNCHANGED <<lastId, joined, gone, id>>
      BY <1>41 DEF Call, GetSessionIndex
    <2>2. t = Acceptor => pc'[t] \notin {"acPop", "acInit"} /\ (pc'[t] \in BeforeJoin => pc[t] \in BeforeJoin /\ slot' = slot)
      BY <1>41, <1>a, <1>b DEF Call, GetSessionIndex
    <2> QED
      BY <1>c, <2>1, <2>2
  <1> QED
    BY <1>1, <1>2, <1>3, <1>4, <1>5, <1>6, <1>7, <1>8, <1>9, <1>10, <1>11, <1>12,
       <1>13, <1>14, <1>15, <1>16, <1>17, <1>18, <1>19, <1>20, <1>21, <1>22, <1>23, <1>24,
       <1>25, <1>26, <1>27, <1>28, <1>29, <1>30, <1>31, <1>32, <1>33, <1>34, <1>35, <1>36,
       <1>37, <1>38, <1>39, <1>40, <1>41
       DEF StepAt, Acts, Step, AcceptStep, CompletionStep, CallStep, ReleaseStep, Take

\* Nothing happens anywhere before the first join.
LEMMA StepQuiescent ==
    ASSUME NEW t \in Threads, NEW s \in Slots, StepAt(t, s)
    PROVE  Quiescent'
  <1> USE DEF tableVars, refVars, connVars, sendVars, opVars, histVars, localVars, Goto,
              AcceptorLabels, InsertLabels, ReleaseLabels, ReleaseBody
  <1>a. /\ pc \in [Threads -> Labels] /\ lastId \in Nat /\ Acceptor \in Threads
        /\ recvOps \in [Slots -> Nat] /\ sendOps \in [Slots -> Nat]
        /\ pc[t] \in AcceptorLabels => t = Acceptor
    BY TypeFacts DEF StepAt
  <1>b. /\ Quiescent /\ ret[t] = "idle"
        /\ \A u \in Threads \ {t} : pc'[u] = pc[u]
    BY DEF StepAt, Local, RefInv, Whereabouts
  <1>c. joined = {} =>
          /\ pc[t] \in {"idle"} \cup AcceptorLabels \cup ReleaseLabels
          /\ pc[t] # "idle" => t = Acceptor
    BY <1>a, <1>b DEF Quiescent
  \* A step of the accept thread on its way to the first join, or one after it.
  <1>d. ASSUME joined' = joined, (lastId' = lastId \/ (pc'[t] = "acZero" /\ t = Acceptor)), pc'[t] # "acDec",
               joined = {} => /\ t = Acceptor /\ UNCHANGED <<recvOps, sendOps>>
                              /\ pc'[t] \in {"idle"} \cup AcceptorLabels \cup ReleaseLabels
        PROVE  Quiescent'
    BY <1>a, <1>b, <1>d DEF Quiescent
  <1>w. Acceptor \notin Workers
    BY ThreadsAssumption
  <1>1. CASE PopIndex(t)
    <2>1. /\ joined' = joined /\ UNCHANGED <<recvOps, sendOps>>
          /\ pc'[t] \in {"idle"} \cup AcceptorLabels \cup ReleaseLabels
          /\ pc'[t] # "acDec"
      BY <1>1, <1>a, <1>b DEF PopIndex
    <2>2. (lastId' = lastId \/ (pc'[t] = "acZero" /\ t = Acceptor))
      BY <1>1, <1>a DEF PopIndex
    <2>3. joined = {} => t = Acceptor
      BY <1>1, <1>a, <1>c DEF PopIndex
    <2> QED
      BY <1>d, <2>1, <2>2, <2>3
  <1>2. CASE InsertFields(t)
    <2>1. /\ joined' = joined /\ UNCHANGED <<recvOps, sendOps>>
          /\ pc'[t] \in {"idle"} \cup AcceptorLabels \cup ReleaseLabels
          /\ pc'[t] # "acDec"
      BY <1>2, <1>a, <1>b DEF InsertFields
    <2>2. (lastId' = lastId \/ (pc'[t] = "acZero" /\ t = Acceptor))
      BY <1>2, <1>a DEF InsertFields
    <2>3. joined = {} => t = Acceptor
      BY <1>2, <1>a, <1>c DEF InsertFields
    <2> QED
      BY <1>d, <2>1, <2>2, <2>3
  <1>3. CASE InsertZero(t)
    <2>1. /\ joined' = joined /\ UNCHANGED <<recvOps, sendOps>>
          /\ pc'[t] \in {"idle"} \cup AcceptorLabels \cup ReleaseLabels
          /\ pc'[t] # "acDec"
      BY <1>3, <1>a, <1>b DEF InsertZero
    <2>2. (lastId' = lastId \/ (pc'[t] = "acZero" /\ t = Acceptor))
      BY <1>3, <1>a DEF InsertZero
    <2>3. joined = {} => t = Acceptor
      BY <1>3, <1>a, <1>c DEF InsertZero
    <2> QED
      BY <1>d, <2>1, <2>2, <2>3
  <1>4. CASE InsertFlag(t)
    <2>1. /\ joined' = joined /\ UNCHANGED <<recvOps, sendOps>>
          /\ pc'[t] \in {"idle"} \cup AcceptorLabels \cup ReleaseLabels
          /\ pc'[t] # "acDec"
      BY <1>4, <1>a, <1>b DEF InsertFlag
    <2>2. (lastId' = lastId \/ (pc'[t] = "acZero" /\ t = Acceptor))
      BY <1>4, <1>a DEF InsertFlag
    <2>3. joined = {} => t = Acceptor
      BY <1>4, <1>a, <1>c DEF InsertFlag
    <2> QED
      BY <1>d, <2>1, <2>2, <2>3
  <1>5. CASE InsertOne(t)
    <2>1. /\ joined' = joined /\ UNCHANGED <<recvOps, sendOps>>
          /\ pc'[t] \in {"idle"} \cup AcceptorLabels \cup ReleaseLabels
          /\ pc'[t] # "acDec"
      BY <1>5, <1>a, <1>b DEF InsertOne
    <2>2. (lastId' = lastId \/ (pc'[t] = "acZero" /\ t = Acceptor))
      BY <1>5, <1>a DEF InsertOne
    <2>3. joined = {} => t = Acceptor
      BY <1>5, <1>a, <1>c DEF InsertOne
    <2> QED
      BY <1>d, <2>1, <2>2, <2>3
  <1>6. CASE InsertCount(t)
    <2>1. /\ joined' = joined /\ UNCHANGED <<recvOps, sendOps>>
          /\ pc'[t] \in {"idle"} \cup AcceptorLabels \cup ReleaseLabels
          /\ pc'[t] # "acDec"
      BY <1>6, <1>a, <1>b DEF InsertCount
    <2>2. (lastId' = lastId \/ (pc'[t] = "acZero" /\ t = Acceptor))
      BY <1>6, <1>a DEF InsertCount
    <2>3. joined = {} => t = Acceptor
      BY <1>6, <1>a, <1>c DEF InsertCount
    <2> QED
      BY <1>d, <2>1, <2>2, <2>3
  <1>7. CASE Associate(t)
    <2>1. /\ UNCHANGED <<joined, lastId, recvOps, sendOps>> /\ pc'[t] \in {"join", "acDec"} /\ t = Acceptor
          /\ pc'[t] = "acDec" => lastId \in AssocFails
      BY <1>7, <1>a DEF Associate
    <2>2. pc'[t] = "acDec" => lastId = 1
      BY <2>1 DEF StepAt, WindowClosed
    <2> QED
      BY <1>a, <1>b, <2>1, <2>2 DEF Quiescent
  <1>8. CASE AssociateFailed(t)
    <2>1. /\ joined' = joined /\ UNCHANGED <<recvOps, sendOps>>
          /\ pc'[t] \in {"idle"} \cup AcceptorLabels \cup ReleaseLabels
          /\ pc'[t] # "acDec"
      BY <1>8, <1>a, <1>b DEF AssociateFailed, Dec
    <2>2. (lastId' = lastId \/ (pc'[t] = "acZero" /\ t = Acceptor))
      BY <1>8, <1>a DEF AssociateFailed, Dec
    <2>3. joined = {} => t = Acceptor
      BY <1>8, <1>a, <1>c DEF AssociateFailed, Dec
    <2> QED
      BY <1>d, <2>1, <2>2, <2>3
  <1>9. CASE OnClientJoin(t)
    <2>1. joined' # {} /\ lastId' = lastId /\ pc'[t] = "prPost"
      BY <1>9, <1>a DEF OnClientJoin
    <2> QED
      BY <1>a, <1>b, <2>1 DEF Quiescent
  <1>10. CASE RecvComplete(t)
    <2>1. pc[t] \notin {"idle"} \cup AcceptorLabels \cup ReleaseLabels
      BY <1>10 DEF RecvComplete, DisconnectSession
    <2>2. joined # {}
      BY <1>c, <2>1
    <2>3. joined' = joined /\ lastId' = lastId /\ pc'[t] # "acDec"
      BY <1>10, <1>a DEF RecvComplete, DisconnectSession
    <2> QED
      BY <1>d, <2>2, <2>3
  <1>11. CASE SendComplete(t)
    <2>1. pc[t] \notin {"idle"} \cup AcceptorLabels \cup ReleaseLabels
      BY <1>11 DEF SendComplete
    <2>2. joined # {}
      BY <1>c, <2>1
    <2>3. joined' = joined /\ lastId' = lastId /\ pc'[t] # "acDec"
      BY <1>11, <1>a DEF SendComplete
    <2> QED
      BY <1>d, <2>2, <2>3
  <1>12. CASE SendCompleteFlag(t)
    <2>1. pc[t] \notin {"idle"} \cup AcceptorLabels \cup ReleaseLabels
      BY <1>12 DEF SendCompleteFlag
    <2>2. joined # {}
      BY <1>c, <2>1
    <2>3. joined' = joined /\ lastId' = lastId /\ pc'[t] # "acDec"
      BY <1>12, <1>a DEF SendCompleteFlag
    <2> QED
      BY <1>d, <2>2, <2>3
  <1>13. CASE PostRecvRef(t)
    <2>1. pc[t] \notin {"idle"} \cup AcceptorLabels \cup ReleaseLabels
      BY <1>13 DEF PostRecvRef, Inc
    <2>2. joined # {}
      BY <1>c, <2>1
    <2>3. joined' = joined /\ lastId' = lastId /\ pc'[t] # "acDec"
      BY <1>13, <1>a DEF PostRecvRef, Inc
    <2> QED
      BY <1>d, <2>2, <2>3
  <1>14. CASE PostRecv(t)
    <2>1. pc[t] \notin {"idle"} \cup AcceptorLabels \cup ReleaseLabels
      BY <1>14 DEF PostRecv
    <2>2. joined # {}
      BY <1>c, <2>1
    <2>3. joined' = joined /\ lastId' = lastId /\ pc'[t] # "acDec"
      BY <1>14, <1>a DEF PostRecv
    <2> QED
      BY <1>d, <2>2, <2>3
  <1>15. CASE PostSendTest(t)
    <2>1. pc[t] \notin {"idle"} \cup AcceptorLabels \cup ReleaseLabels
      BY <1>15 DEF PostSendTest
    <2>2. joined # {}
      BY <1>c, <2>1
    <2>3. joined' = joined /\ lastId' = lastId /\ pc'[t] # "acDec"
      BY <1>15, <1>a DEF PostSendTest
    <2> QED
      BY <1>d, <2>2, <2>3
  <1>16. CASE PostSendCas(t)
    <2>1. pc[t] \notin {"idle"} \cup AcceptorLabels \cup ReleaseLabels
      BY <1>16 DEF PostSendCas
    <2>2. joined # {}
      BY <1>c, <2>1
    <2>3. joined' = joined /\ lastId' = lastId /\ pc'[t] # "acDec"
      BY <1>16, <1>a DEF PostSendCas
    <2> QED
      BY <1>d, <2>2, <2>3
  <1>17. CASE PostSendRetest(t)
    <2>1. pc[t] \notin {"idle"} \cup AcceptorLabels \cup ReleaseLabels
      BY <1>17 DEF PostSendRetest
    <2>2. joined # {}
      BY <1>c, <2>1
    <2>3. joined' = joined /\ lastId' = lastId /\ pc'[t] # "acDec"
      BY <1>17, <1>a DEF PostSendRetest
    <2> QED
      BY <1>d, <2>2, <2>3
  <1>18. CASE PostSendReset(t)
    <2>1. pc[t] \notin {"idle"} \cup AcceptorLabels \cup ReleaseLabels
      BY <1>18 DEF PostSendReset
    <2>2. joined # {}
      BY <1>c, <2>1
    <2>3. joined' = joined /\ lastId' = lastId /\ pc'[t] # "acDec"
      BY <1>18, <1>a DEF PostSendReset
    <2> QED
      BY <1>d, <2>2, <2>3
  <1>19. CASE PostSendRef(t)
    <2>1. pc[t] \notin {"idle"} \cup AcceptorLabels \cup ReleaseLabels
      BY <1>19 DEF PostSendRef, Inc
    <2>2. joined # {}
      BY <1>c, <2>1
    <2>3. joined' = joined /\ lastId' = lastId /\ pc'[t] # "acDec"
      BY <1>19, <1>a DEF PostSendRef, Inc
    <2> QED
      BY <1>d, <2>2, <2>3
  <1>20. CASE PostSend(t)
    <2>1. pc[t] \notin {"idle"} \cup AcceptorLabels \cup ReleaseLabels
      BY <1>20 DEF PostSend
    <2>2. joined # {}
      BY <1>c, <2>1
    <2>3. joined' = joined /\ lastId' = lastId /\ pc'[t] # "acDec"
      BY <1>20, <1>a DEF PostSend
    <2> QED
      BY <1>d, <2>2, <2>3
  <1>21. CASE PostFailed(t)
    <2>1. pc[t] \notin {"idle"} \cup AcceptorLabels \cup ReleaseLabels
      BY <1>21 DEF PostFailed, Dec
    <2>2. joined # {}
      BY <1>c, <2>1
    <2>3. joined' = joined /\ lastId' = lastId /\ pc'[t] # "acDec"
      BY <1>21, <1>a DEF PostFailed, Dec
    <2> QED
      BY <1>d, <2>2, <2>3
  <1>22. CASE Drop(t)
    <2>1. pc[t] \notin {"idle"} \cup AcceptorLabels \cup ReleaseLabels
      BY <1>22 DEF Drop, Forget, Dec
    <2>2. joined # {}
      BY <1>c, <2>1
    <2>3. joined' = joined /\ lastId' = lastId /\ pc'[t] # "acDec"
      BY <1>22, <1>a DEF Drop, Forget, Dec
    <2> QED
      BY <1>d, <2>2, <2>3
  <1>23. CASE CheckReleased(t)
    <2>1. pc[t] \notin {"idle"} \cup AcceptorLabels \cup ReleaseLabels
      BY <1>23 DEF CheckReleased, Forget
    <2>2. joined # {}
      BY <1>c, <2>1
    <2>3. joined' = joined /\ lastId' = lastId /\ pc'[t] # "acDec"
      BY <1>23, <1>a DEF CheckReleased, Forget
    <2> QED
      BY <1>d, <2>2, <2>3
  <1>24. CASE CheckRef(t)
    <2>1. pc[t] \notin {"idle"} \cup AcceptorLabels \cup ReleaseLabels
      BY <1>24 DEF CheckRef, Inc
    <2>2. joined # {}
      BY <1>c, <2>1
    <2>3. joined' = joined /\ lastId' = lastId /\ pc'[t] # "acDec"
      BY <1>24, <1>a DEF CheckRef, Inc
    <2> QED
      BY <1>d, <2>2, <2>3
  <1>25. CASE CheckId(t)
    <2>1. pc[t] \notin {"idle"} \cup AcceptorLabels \cup ReleaseLabels
      BY <1>25 DEF CheckId
    <2>2. joined # {}
      BY <1>c, <2>1
    <2>3. joined' = joined /\ lastId' = lastId /\ pc'[t] # "acDec"
      BY <1>25, <1>a DEF CheckId
    <2> QED
      BY <1>d, <2>2, <2>3
  <1>26. CASE CheckReleasedAgain(t)
    <2>1. pc[t] \notin {"idle"} \cup AcceptorLabels \cup ReleaseLabels
      BY <1>26 DEF CheckReleasedAgain
    <2>2. joined # {}
      BY <1>c, <2>1
    <2>3. joined' = joined /\ lastId' = lastId /\ pc'[t] # "acDec"
      BY <1>26, <1>a DEF CheckReleasedAgain
    <2> QED
      BY <1>d, <2>2, <2>3
  <1>27. CASE Enqueue(t)
    <2>1. pc[t] \notin {"idle"} \cup AcceptorLabels \cup ReleaseLabels
      BY <1>27 DEF Enqueue
    <2>2. joined # {}
      BY <1>c, <2>1
    <2>3. joined' = joined /\ lastId' = lastId /\ pc'[t] # "acDec"
      BY <1>27, <1>a DEF Enqueue
    <2> QED
      BY <1>d, <2>2, <2>3
  <1>28. CASE Disconnect(t)
    <2>1. pc[t] \notin {"idle"} \cup AcceptorLabels \cup ReleaseLabels
      BY <1>28 DEF Disconnect, DisconnectSession
    <2>2. joined # {}
      BY <1>c, <2>1
    <2>3. joined' = joined /\ lastId' = lastId /\ pc'[t] # "acDec"
      BY <1>28, <1>a DEF Disconnect, DisconnectSession
    <2> QED
      BY <1>d, <2>2, <2>3
  <1>29. CASE ReleaseTest(t)
    <2>1. /\ joined' = joined /\ UNCHANGED <<recvOps, sendOps>>
          /\ pc'[t] \in {"idle"} \cup AcceptorLabels \cup ReleaseLabels
          /\ pc'[t] # "acDec"
      BY <1>29, <1>a, <1>b DEF ReleaseTest, Forget, Return
    <2>2. (lastId' = lastId \/ (pc'[t] = "acZero" /\ t = Acceptor))
      BY <1>29, <1>a DEF ReleaseTest, Forget, Return
    <2>3. joined = {} => t = Acceptor
      BY <1>29, <1>a, <1>c DEF ReleaseTest, Forget, Return
    <2> QED
      BY <1>d, <2>1, <2>2, <2>3
  <1>30. CASE ReleaseCas(t)
    <2>1. /\ joined' = joined /\ UNCHANGED <<recvOps, sendOps>>
          /\ pc'[t] \in {"idle"} \cup AcceptorLabels \cup ReleaseLabels
          /\ pc'[t] # "acDec"
      BY <1>30, <1>a, <1>b DEF ReleaseCas, Forget, Return
    <2>2. (lastId' = lastId \/ (pc'[t] = "acZero" /\ t = Acceptor))
      BY <1>30, <1>a DEF ReleaseCas, Forget, Return
    <2>3. joined = {} => t = Acceptor
      BY <1>30, <1>a, <1>c DEF ReleaseCas, Forget, Return
    <2> QED
      BY <1>d, <2>1, <2>2, <2>3
  <1>31. CASE ReleaseClose(t)
    <2>1. /\ joined' = joined /\ UNCHANGED <<recvOps, sendOps>>
          /\ pc'[t] \in {"idle"} \cup AcceptorLabels \cup ReleaseLabels
          /\ pc'[t] # "acDec"
      BY <1>31, <1>a, <1>b DEF ReleaseClose, DisconnectSession
    <2>2. (lastId' = lastId \/ (pc'[t] = "acZero" /\ t = Acceptor))
      BY <1>31, <1>a DEF ReleaseClose, DisconnectSession
    <2>3. joined = {} => t = Acceptor
      BY <1>31, <1>a, <1>c DEF ReleaseClose, DisconnectSession
    <2> QED
      BY <1>d, <2>1, <2>2, <2>3
  <1>32. CASE OnClientLeave(t)
    <2>1. /\ joined' = joined /\ UNCHANGED <<recvOps, sendOps>>
          /\ pc'[t] \in {"idle"} \cup AcceptorLabels \cup ReleaseLabels
          /\ pc'[t] # "acDec"
      BY <1>32, <1>a, <1>b DEF OnClientLeave
    <2>2. (lastId' = lastId \/ (pc'[t] = "acZero" /\ t = Acceptor))
      BY <1>32, <1>a DEF OnClientLeave
    <2>3. joined = {} => t = Acceptor
      BY <1>32, <1>a, <1>c DEF OnClientLeave
    <2> QED
      BY <1>d, <2>1, <2>2, <2>3
  <1>33. CASE ReleaseDrain(t)
    <2>1. /\ joined' = joined /\ UNCHANGED <<recvOps, sendOps>>
          /\ pc'[t] \in {"idle"} \cup AcceptorLabels \cup ReleaseLabels
          /\ pc'[t] # "acDec"
      BY <1>33, <1>a, <1>b DEF ReleaseDrain
    <2>2. (lastId' = lastId \/ (pc'[t] = "acZero" /\ t = Acceptor))
      BY <1>33, <1>a DEF ReleaseDrain
    <2>3. joined = {} => t = Acceptor
      BY <1>33, <1>a, <1>c DEF ReleaseDrain
    <2> QED
      BY <1>d, <2>1, <2>2, <2>3
  <1>34. CASE ReleaseClear(t)
    <2>1. /\ joined' = joined /\ UNCHANGED <<recvOps, sendOps>>
          /\ pc'[t] \in {"idle"} \cup AcceptorLabels \cup ReleaseLabels
          /\ pc'[t] # "acDec"
      BY <1>34, <1>a, <1>b DEF ReleaseClear
    <2>2. (lastId' = lastId \/ (pc'[t] = "acZero" /\ t = Acceptor))
      BY <1>34, <1>a DEF ReleaseClear
    <2>3. joined = {} => t = Acceptor
      BY <1>34, <1>a, <1>c DEF ReleaseClear
    <2> QED
      BY <1>d, <2>1, <2>2, <2>3
  <1>35. CASE PushIndex(t)
    <2>1. /\ joined' = joined /\ UNCHANGED <<recvOps, sendOps>>
          /\ pc'[t] \in {"idle"} \cup AcceptorLabels \cup ReleaseLabels
          /\ pc'[t] # "acDec"
      BY <1>35, <1>a, <1>b DEF PushIndex
    <2>2. (lastId' = lastId \/ (pc'[t] = "acZero" /\ t = Acceptor))
      BY <1>35, <1>a DEF PushIndex
    <2>3. joined = {} => t = Acceptor
      BY <1>35, <1>a, <1>c DEF PushIndex
    <2> QED
      BY <1>d, <2>1, <2>2, <2>3
  <1>36. CASE ReleaseCount(t)
    <2>1. /\ joined' = joined /\ UNCHANGED <<recvOps, sendOps>>
          /\ pc'[t] \in {"idle"} \cup AcceptorLabels \cup ReleaseLabels
          /\ pc'[t] # "acDec"
      BY <1>36, <1>a, <1>b DEF ReleaseCount, Forget, Return
    <2>2. (lastId' = lastId \/ (pc'[t] = "acZero" /\ t = Acceptor))
      BY <1>36, <1>a DEF ReleaseCount, Forget, Return
    <2>3. joined = {} => t = Acceptor
      BY <1>36, <1>a, <1>c DEF ReleaseCount, Forget, Return
    <2> QED
      BY <1>d, <2>1, <2>2, <2>3
  <1>37. CASE Accept(t)
    <2>1. /\ joined' = joined /\ UNCHANGED <<recvOps, sendOps>>
          /\ pc'[t] \in {"idle"} \cup AcceptorLabels \cup ReleaseLabels
          /\ pc'[t] # "acDec"
      BY <1>37, <1>a, <1>b DEF Accept
    <2>2. (lastId' = lastId \/ (pc'[t] = "acZero" /\ t = Acceptor))
      BY <1>37, <1>a DEF Accept
    <2>3. joined = {} => t = Acceptor
      BY <1>37, <1>a, <1>c DEF Accept
    <2> QED
      BY <1>d, <2>1, <2>2, <2>3
  <1>38. ASSUME NEW r \in Slots, TakeRecv(t, r)
        PROVE  Quiescent'
    <2>1. joined' = joined /\ lastId' = lastId /\ pc'[t] # "acDec" /\ (recvOps[r] > 0 \/ sendOps[r] > 0)
      BY <1>38, <1>a DEF TakeRecv
    <2>2. joined # {}
      BY <1>b, <2>1 DEF Quiescent
    <2> QED
      BY <1>d, <2>1, <2>2
  <1>39. ASSUME NEW r \in Slots, TakeSend(t, r)
        PROVE  Quiescent'
    <2>1. joined' = joined /\ lastId' = lastId /\ pc'[t] # "acDec" /\ (recvOps[r] > 0 \/ sendOps[r] > 0)
      BY <1>39, <1>a DEF TakeSend
    <2>2. joined # {}
      BY <1>b, <2>1 DEF Quiescent
    <2> QED
      BY <1>d, <2>1, <2>2
  <1>40. ASSUME NEW r \in Slots, TakeDown(t, r)
        PROVE  Quiescent'
    <2>1. joined' = joined /\ lastId' = lastId /\ pc'[t] # "acDec" /\ (recvOps[r] > 0 \/ sendOps[r] > 0)
      BY <1>40, <1>a DEF TakeDown
    <2>2. joined # {}
      BY <1>b, <2>1 DEF Quiescent
    <2> QED
      BY <1>d, <2>1, <2>2
  <1>41. ASSUME NEW i \in joined, Call(t, i)
        PROVE  Quiescent'
    <2>1. joined' = joined /\ lastId' = lastId /\ pc'[t] # "acDec" /\ joined # {}
      BY <1>41, <1>a DEF Call
    <2> QED
      BY <1>d, <2>1
  <1> QED
    BY <1>1, <1>2, <1>3, <1>4, <1>5, <1>6, <1>7, <1>8, <1>9, <1>10, <1>11, <1>12,
       <1>13, <1>14, <1>15, <1>16, <1>17, <1>18, <1>19, <1>20, <1>21, <1>22, <1>23, <1>24,
       <1>25, <1>26, <1>27, <1>28, <1>29, <1>30, <1>31, <1>32, <1>33, <1>34, <1>35, <1>36,
       <1>37, <1>38, <1>39, <1>40, <1>41
       DEF StepAt, Acts, Step, AcceptStep, CompletionStep, CallStep, ReleaseStep, Take

-----------------------------------------------------------------------------
(* The invariant, and what it says of the references.                      *)

LEMMA InitRef == Init => RefInv
  <1> SUFFICES ASSUME Init PROVE RefInv
    OBVIOUS
  <1>1. /\ \A t \in Threads : pc[t] = "idle" /\ slot[t] = NoSlot /\ ret[t] = "idle"
        /\ \A s \in Slots : /\ id[s] = NoId /\ sock[s] = "invalid" /\ io[s] = 0 /\ ~released[s]
                            /\ recvOps[s] = 0 /\ sendOps[s] = 0
        /\ joined = {} /\ gone = {} /\ lastId = 0
        /\ Acceptor \in Threads /\ NoSlot \notin Slots
    BY ThreadFacts, SlotsAssumption DEF Init, NoSlot, Slots
  <1>2. Whereabouts /\ Filling /\ CallersHold /\ Quiescent
    BY <1>1 DEF Whereabouts, Filling, InsertLabels, CallersHold, CallerHolds, PostLabels, Quiescent
  <1>3. Numbered
    <2>1. 0 <= MaxSessions /\ (pc[Acceptor] \in {"acPop", "acInit"} => lastId < MaxSessions)
      BY <1>1, BoundsAssumption
    <2> QED
      BY <1>1, <2>1 DEF Numbered, BeforeJoin
  <1>4. ASSUME NEW s \in Slots PROVE ClosedAt(s) /\ NamedAt(s) /\ UnusedAt(s) /\ CountAt(s)
    <2>1. \A t \in Threads : slot[t] # s
      BY <1>1
    <2>2. At(s, Holding) = {} /\ At(s, Posting) = {}
      BY <2>1 DEF At
    <2>3. CountAt(s)
      BY <1>1, <2>2, FS_EmptySet DEF CountAt
    <2>4. NeverUsed(s)
      BY <1>1, <2>1 DEF NeverUsed
    <2> QED
      BY <1>1, <2>1, <2>3, <2>4 DEF ClosedAt, NamedAt, UnusedAt
  <1> QED
    BY <1>2, <1>3, <1>4 DEF RefInv

\* A step is one of one thread, and disturbs the invariant of one slot at most.
LEMMA RefAct ==
    ASSUME WindowClosed, TypeInv, TableInv, RefInv, TypeInv', TableInv', NEW t \in Threads, Acts(t)
    PROVE  RefInv'
  <1>1. PICK s \in Slots : Local(t, s)
    BY Locality DEF RefInv
  <1>2. StepAt(t, s)
    BY <1>1 DEF StepAt
  <1>3. Whereabouts' /\ Filling' /\ CallersHold' /\ Numbered' /\ Quiescent'
    BY <1>2, StepWhereabouts, StepFilling, StepCallers, StepNumbered, StepQuiescent
  <1>4. ASSUME NEW r \in Slots PROVE (ClosedAt(r) /\ NamedAt(r) /\ UnusedAt(r) /\ CountAt(r))'
    <2>1. CASE r = s
      BY <1>2, <2>1, StepClosed, StepNamed, StepUnused, StepCount
    <2>2. CASE r # s
      BY <1>2, <2>2, OtherSlotKept
    <2> QED
      BY <2>1, <2>2
  <1> QED
    BY <1>3, <1>4 DEF RefInv

LEMMA RefStill ==
    ASSUME RefInv, UNCHANGED vars
    PROVE  RefInv'
  <1> USE DEF vars, tableVars, refVars, connVars, sendVars, opVars, histVars, localVars
  <1>1. Whereabouts' /\ Filling' /\ CallersHold' /\ Numbered' /\ Quiescent'
    BY DEF RefInv, Whereabouts, Filling, CallersHold, CallerHolds, Numbered, Quiescent
  <1>2. ASSUME NEW r \in Slots PROVE (ClosedAt(r) /\ NamedAt(r) /\ UnusedAt(r) /\ CountAt(r))'
    <2>1. /\ At(r, Holding)' = At(r, Holding) /\ At(r, Posting)' = At(r, Posting)
          /\ Inserting(r)' = Inserting(r) /\ NeverUsed(r)' = NeverUsed(r)
      BY DEF At, Inserting, NeverUsed
    <2>2. ClosedAt(r) /\ NamedAt(r) /\ UnusedAt(r) /\ CountAt(r)
      BY DEF RefInv
    <2> QED
      BY <2>1, <2>2 DEF ClosedAt, NamedAt, UnusedAt, CountAt
  <1> QED
    BY <1>1, <1>2 DEF RefInv

LEMMA RefStep ==
    ASSUME WindowClosed
    PROVE  TypeInv /\ TableInv /\ RefInv /\ [Next]_vars => RefInv'
  <1> SUFFICES ASSUME TypeInv, TableInv, RefInv, [Next]_vars PROVE RefInv'
    OBVIOUS
  <1>1. TypeInv' /\ TableInv'
    BY TypeStep, TableStep
  <1>2. CASE Next
    <2>1. PICK t \in Threads : Acts(t)
      BY <1>2 DEF Next, Acts
    <2> QED
      BY <1>1, <2>1, RefAct
  <1>3. CASE UNCHANGED vars
    BY <1>3, RefStill
  <1> QED
    BY <1>2, <1>3

LEMMA AlwaysRef ==
    ASSUME WindowClosed
    PROVE  Spec => [](TypeInv /\ TableInv /\ RefInv)
  <1>1. TypeInv /\ TableInv /\ RefInv /\ [Next]_vars => RefInv'
    BY RefStep
  <1> QED
    BY <1>1, InitRef, TableCorrect, PTL DEF Spec

\* lIOCount of every slot is exactly the references held, and a session nobody refers to is
\* being released, however many threads race, while the insertion window is closed.
THEOREM ReferencesCounted ==
    ASSUME WindowClosed
    PROVE  Spec => []RefCountExact
  <1>1. TypeInv /\ TableInv /\ RefInv => RefCountExact
    <2> SUFFICES ASSUME RefInv, NEW s \in Slots
                 PROVE  /\ CountAt(s)
                        /\ id[s] # NoId /\ io[s] = 0 /\ ~Inserting(s) =>
                              \E t \in Threads : slot[t] = s /\ pc[t] \in {"relTest", "relCas"} \cup ReleaseBody
      BY DEF RefCountExact, CountAt, At
    <2>1. CountAt(s) /\ UnusedAt(s) /\ NamedAt(s)
      BY DEF RefInv
    <2>2. CASE ~released[s]
      BY <2>1, <2>2 DEF UnusedAt
    <2>3. CASE released[s]
      <3>1. slot[Acceptor] = s /\ pc[Acceptor] \in {"acZero", "acFlag"} => Inserting(s)
        BY DEF Inserting, InsertLabels
      <3> QED
        BY <2>1, <2>3, <3>1 DEF NamedAt, Leaving, ReleaseBody
    <2> QED
      BY <2>1, <2>2, <2>3
  <1> QED
    BY <1>1, AlwaysRef, PTL

\* A thread past its check works on a session that is not released, and a caller on the very
\* session whose id it was given.
THEOREM HeldSessionsLive ==
    ASSUME WindowClosed
    PROVE  Spec => []HeldIsLive
  <1>1. TypeInv /\ TableInv /\ RefInv => HeldIsLive
    <2> SUFFICES ASSUME TypeInv, RefInv, NEW t \in Threads,
                        pc[t] \in {"join", "rcOn", "scDone", "scFlag", "enq", "disc"} \cup PostLabels
                 PROVE  /\ ~released[slot[t]] /\ id[slot[t]] # NoId /\ sock[slot[t]] # "invalid"
                        /\ t \in Callers => id[slot[t]] = sid[t]
      BY DEF HeldIsLive
    <2>1. PICK s \in Slots : s = slot[t]
      BY TypeFacts DEF PostLabels
    <2>2. pc[t] \notin Passive /\ pc[t] \notin PreInsert
      BY DEF Passive, CheckLabels, ReleaseLabels, ReleaseBody, InsertLabels, PostLabels, PreInsert
    <2>3. ~released[s]
      BY <2>1, <2>2 DEF RefInv, ClosedAt
    <2>4. id[s] # NoId /\ sock[s] # "invalid"
      <3>1. ~NeverUsed(s)
        BY <2>1, <2>2 DEF NeverUsed
      <3> QED
        BY <2>3, <3>1 DEF RefInv, NamedAt
    <2>5. t \in Callers => id[slot[t]] = sid[t]
      BY ThreadsAssumption, TypeFacts DEF RefInv, CallersHold, CallerHolds, PostLabels, AcceptorLabels
    <2> QED
      BY <2>1, <2>3, <2>4, <2>5
  <1> QED
    BY <1>1, AlwaysRef, PTL

-----------------------------------------------------------------------------
(* The two callbacks.                                                      *)

\* The history only grows, by the id of the step's slot.
LEMMA GoneMoves ==
    ASSUME NEW t \in Threads, NEW s \in Slots, StepAt(t, s), NEW i, i \in gone', i \notin gone
    PROVE  i = id[s] /\ OnClientLeave(t)
  <1> USE DEF histVars
  <1>1. gone' = gone \/ OnClientLeave(t)
    BY DEF StepAt, Acts, Step, AcceptStep, CompletionStep, CallStep, ReleaseStep, Take, Accept, Call,
       PopIndex, InsertFields, InsertZero, InsertFlag, InsertOne, InsertCount, Associate, AssociateFailed,
       OnClientJoin, RecvComplete, SendComplete, SendCompleteFlag, PostRecvRef, PostRecv, PostSendTest,
       PostSendCas, PostSendRetest, PostSendReset, PostSendRef, PostSend, PostFailed, Drop,
       CheckReleased, CheckRef, CheckId, CheckReleasedAgain, Enqueue, Disconnect,
       ReleaseTest, ReleaseCas, ReleaseClose, ReleaseDrain, ReleaseClear, PushIndex, ReleaseCount,
       TakeRecv, TakeSend, TakeDown
  <1>2. OnClientLeave(t)
    BY <1>1
  <1>3. slot[t] = s
    BY <1>2 DEF OnClientLeave, Goto, StepAt, Local
  <1> QED
    BY <1>2, <1>3 DEF OnClientLeave

LEMMA JoinedStays ==
    ASSUME NEW t \in Threads, Acts(t)
    PROVE  joined \subseteq joined'
  BY DEF histVars, Acts, Step, AcceptStep, CompletionStep, CallStep, ReleaseStep, Take, Accept, Call,
     PopIndex, InsertFields, InsertZero, InsertFlag, InsertOne, InsertCount, Associate, AssociateFailed,
     OnClientJoin, RecvComplete, SendComplete, SendCompleteFlag, PostRecvRef, PostRecv, PostSendTest,
     PostSendCas, PostSendRetest, PostSendReset, PostSendRef, PostSend, PostFailed, Drop,
     CheckReleased, CheckRef, CheckId, CheckReleasedAgain, Enqueue, Disconnect, ReleaseTest, ReleaseCas,
     ReleaseClose, OnClientLeave, ReleaseDrain, ReleaseClear, PushIndex, ReleaseCount,
     TakeRecv, TakeSend, TakeDown

-----------------------------------------------------------------------------
(* One receive and one send at a time, a clean slot, and one leave.        *)

\* One operation, or one thread that is handling one.
LEMMA OneAtMost ==
    ASSUME NEW s, NEW L, NEW n \in Nat, n + Cardinality(At(s, L)) <= 1
    PROVE  /\ n > 0 => n = 1 /\ At(s, L) = {}
           /\ \A t \in At(s, L) : n = 0 /\ At(s, L) = {t}
  <1>1. IsFiniteSet(At(s, L))
    BY ThreadFacts, FS_Subset DEF At
  <1>2. Cardinality(At(s, L)) \in Nat /\ (Cardinality(At(s, L)) = 0 <=> At(s, L) = {})
    BY AtFinite
  <1>3. n > 0 => n = 1 /\ At(s, L) = {}
    BY <1>2
  <1>4. ASSUME NEW t \in At(s, L) PROVE n = 0 /\ At(s, L) = {t}
    <2>1. Cardinality(At(s, L)) # 0
      BY <1>2
    <2>2. n = 0 /\ Cardinality(At(s, L)) = 1
      BY <1>2, <2>1
    <2>3. Cardinality(At(s, L) \ {t}) = 0
      <3>1. Cardinality(At(s, L) \ {t}) = Cardinality(At(s, L)) - 1
        BY <1>1, FS_RemoveElement
      <3> QED
        BY <2>2, <3>1
    <2>4. At(s, L) \ {t} = {}
      <3>1. IsFiniteSet(At(s, L) \ {t})
        BY <1>1, FS_Subset
      <3> QED
        BY <2>3, <3>1, FS_EmptySet
    <2> QED
      BY <2>2, <2>4
  <1> QED
    BY <1>3, <1>4

\* Each step moves the two sums by what it moves the operations and its thread.
LEMMA SumMoves ==
    ASSUME NEW t \in Threads, NEW s \in Slots, StepAt(t, s)
    PROVE  /\ Receiving(s) \in Nat /\ Receiving(s)' \in Nat /\ Sends(s) \in Nat /\ Sends(s)' \in Nat
           /\ Receiving(s)' + recvOps[s] + Present(t, s, Receivers) =
              Receiving(s) + recvOps'[s] + Present(t, s, Receivers)'
           /\ Sends(s)' + sendOps[s] + Present(t, s, Senders) =
              Sends(s) + sendOps'[s] + Present(t, s, Senders)'
  <1>1. \A u \in Threads \ {t} : pc'[u] = pc[u] /\ slot'[u] = slot[u]
    BY DEF StepAt, Local
  <1>2. /\ recvOps[s] \in Nat /\ sendOps[s] \in Nat /\ recvOps'[s] \in Nat /\ sendOps'[s] \in Nat
    BY DEF StepAt, TypeInv, TypeOK, OpType
  <1>3. ASSUME NEW L, NEW m \in Nat, NEW n \in Nat
        PROVE  /\ m + Cardinality(At(s, L)) \in Nat /\ n + Cardinality(At(s, L)') \in Nat
               /\ n + Cardinality(At(s, L)') + m + Present(t, s, L) =
                  m + Cardinality(At(s, L)) + n + Present(t, s, L)'
    <2>1. /\ Cardinality(At(s, L)') \in Nat
          /\ Cardinality(At(s, L)') + Present(t, s, L) = Cardinality(At(s, L)) + Present(t, s, L)'
      BY <1>1, AtMoves
    <2>2. Cardinality(At(s, L)) \in Nat
      BY AtFinite
    <2>3. Present(t, s, L) \in Nat /\ Present(t, s, L)' \in Nat
      BY DEF Present
    <2> DEFINE a == Cardinality(At(s, L))
               b == Cardinality(At(s, L)')
               p == Present(t, s, L)
               q == Present(t, s, L)'
    <2>4. a \in Nat /\ b \in Nat /\ p \in Nat /\ q \in Nat /\ b + p = a + q
      BY <2>1, <2>2, <2>3
    <2> HIDE DEF a, b, p, q
    <2>5. m + a \in Nat /\ n + b \in Nat /\ n + b + m + p = m + a + n + q
      BY <2>4
    <2> QED
      BY <2>5 DEF a, b, p, q
  <1>4. /\ recvOps[s] + Cardinality(At(s, Receivers)) \in Nat
        /\ recvOps'[s] + Cardinality(At(s, Receivers)') \in Nat
        /\ recvOps'[s] + Cardinality(At(s, Receivers)') + recvOps[s] + Present(t, s, Receivers) =
           recvOps[s] + Cardinality(At(s, Receivers)) + recvOps'[s] + Present(t, s, Receivers)'
    BY <1>2, <1>3
  <1>5. /\ sendOps[s] + Cardinality(At(s, Senders)) \in Nat
        /\ sendOps'[s] + Cardinality(At(s, Senders)') \in Nat
        /\ sendOps'[s] + Cardinality(At(s, Senders)') + sendOps[s] + Present(t, s, Senders) =
           sendOps[s] + Cardinality(At(s, Senders)) + sendOps'[s] + Present(t, s, Senders)'
    BY <1>2, <1>3
  <1> QED
    BY <1>4, <1>5 DEF Receiving, Sends

\* Nothing is posted, and nobody is inside, in a slot that is being filled or was released.
LEMMA NothingInside ==
    ASSUME NEW t \in Threads, NEW s \in Slots, StepAt(t, s),
           released[s] \/ (slot[Acceptor] = s /\ pc[Acceptor] \in InsertLabels)
    PROVE  /\ recvOps[s] = 0 /\ sendOps[s] = 0
           /\ At(s, Receivers) = {} /\ At(s, Senders) = {}
           /\ Receiving(s) = 0 /\ Sends(s) = 0
  <1>1. recvOps[s] = 0 /\ sendOps[s] = 0
    BY DEF StepAt, RefInv, ClosedAt, Filling
  <1>2. \A u \in Threads : slot[u] = s => pc[u] \in Passive
    BY DEF StepAt, RefInv, ClosedAt, Filling, Passive, ReleaseLabels
  <1>3. At(s, Receivers) = {} /\ At(s, Senders) = {}
    BY <1>2 DEF At, Receivers, Senders, Passive, CheckLabels, ReleaseLabels, ReleaseBody, InsertLabels
  <1> QED
    BY <1>1, <1>3, FS_EmptySet DEF Receiving, Sends

\* Only the handler of the last receive posts the next one.
LEMMA StepReceive ==
    ASSUME NEW t \in Threads, NEW s \in Slots, StepAt(t, s), EventInv
    PROVE  ReceiveAt(s)'
  <1> USE DEF tableVars, refVars, connVars, sendVars, opVars, histVars, localVars, Goto, Receivers, Present
  <1>a. /\ pc \in [Threads -> Labels] /\ slot \in [Threads -> Slots \cup {NoSlot}]
        /\ DOMAIN id = Slots /\ recvOps \in [Slots -> Nat]
        /\ NoSlot \notin Slots /\ Acceptor \in Threads
        /\ pc[t] \in AcceptorLabels => t = Acceptor
    BY TypeFacts DEF StepAt
  <1>b. /\ ReceiveAt(s) /\ ret[t] = "idle"
        /\ slot[t] \in {s, NoSlot} /\ slot'[t] \in {s, NoSlot}
        /\ pc[t] \notin {"idle", "acPop"} => slot[t] = s
        /\ pc'[t] \notin {"idle", "acPop"} => slot'[t] = s
        /\ pc[t] \in {"idle", "acPop"} => slot[t] = NoSlot
        /\ \A u \in Threads \ {t} : pc'[u] = pc[u] /\ slot'[u] = slot[u]
    BY DEF StepAt, Local, RefInv, Whereabouts, EventInv
  \* A step that adds none.
  <1>c. ASSUME \/ recvOps'[s] + Present(t, s, Receivers)' = recvOps[s] + Present(t, s, Receivers)
               \/ recvOps'[s] + Present(t, s, Receivers)' + 1 = recvOps[s] + Present(t, s, Receivers),
               id'[s] = id[s], joined \subseteq joined',
               t = Acceptor /\ pc'[t] \in {"acCount", "acAssoc", "acDec", "join"} =>
                   slot[t] = s /\ pc[t] \in {"acCount", "acAssoc", "acDec", "join"}
        PROVE  ReceiveAt(s)'
    <2>1. /\ Receiving(s) \in Nat /\ Receiving(s)' \in Nat
          /\ Receiving(s)' + recvOps[s] + Present(t, s, Receivers) =
             Receiving(s) + recvOps'[s] + Present(t, s, Receivers)'
      BY SumMoves
    <2>2. recvOps[s] \in Nat /\ recvOps'[s] \in Nat
      BY DEF StepAt, TypeInv, TypeOK, OpType
    <2>3. Present(t, s, Receivers) \in Nat /\ Present(t, s, Receivers)' \in Nat
      OBVIOUS
    <2> HIDE DEF Present
    <2>4. Receiving(s)' <= Receiving(s)
      BY <1>c, <2>1, <2>2, <2>3
    <2>5. /\ Receiving(s) <= 1 => Receiving(s)' <= 1
          /\ Receiving(s) = 0 => Receiving(s)' = 0
          /\ Receiving(s)' > 0 => Receiving(s) > 0
      BY <2>1, <2>4
    <2>6. slot'[Acceptor] = s /\ pc'[Acceptor] \in {"acCount", "acAssoc", "acDec", "join"} => Receiving(s)' = 0
      BY <1>a, <1>b, <1>c, <2>5 DEF ReceiveAt
    <2> QED
      BY <1>b, <1>c, <2>5, <2>6 DEF ReceiveAt
  <1>e. ASSUME Receiving(s)' = 0 PROVE ReceiveAt(s)'
    BY <1>e DEF ReceiveAt
  <1>1. CASE PopIndex(t)
    <2>1. UNCHANGED recvOps /\ id' = id /\ joined' = joined
      BY <1>1 DEF PopIndex
    <2>2. Present(t, s, Receivers)' = Present(t, s, Receivers)
      BY <1>1, <1>a, <1>b DEF PopIndex
    <2>3. t = Acceptor /\ pc'[t] \in {"acCount", "acAssoc", "acDec", "join"} =>
              slot[t] = s /\ pc[t] \in {"acCount", "acAssoc", "acDec", "join"}
      BY <1>1, <1>a, <1>b DEF PopIndex
    <2> QED
      BY <1>c, <2>1, <2>2, <2>3
  <1>2. CASE InsertFields(t)
    <2>1. t = Acceptor /\ pc[t] \in InsertLabels /\ slot[t] = s
      BY <1>2, <1>a, <1>b DEF InsertFields, AcceptorLabels, InsertLabels
    <2>2. Receiving(s) = 0
      BY <2>1, NothingInside
    <2>3. UNCHANGED recvOps /\ Present(t, s, Receivers)' = 0 /\ Present(t, s, Receivers) = 0
      BY <1>2, <1>a, <1>b, <2>1 DEF InsertFields
    <2> QED
      BY <1>a, <1>e, <2>2, <2>3, SumMoves
  <1>3. CASE InsertZero(t)
    <2>1. UNCHANGED recvOps /\ id' = id /\ joined' = joined
      BY <1>3 DEF InsertZero
    <2>2. Present(t, s, Receivers)' = Present(t, s, Receivers)
      BY <1>3, <1>a, <1>b DEF InsertZero
    <2>3. t = Acceptor /\ pc'[t] \in {"acCount", "acAssoc", "acDec", "join"} =>
              slot[t] = s /\ pc[t] \in {"acCount", "acAssoc", "acDec", "join"}
      BY <1>3, <1>a, <1>b DEF InsertZero
    <2> QED
      BY <1>c, <2>1, <2>2, <2>3
  <1>4. CASE InsertFlag(t)
    <2>1. UNCHANGED recvOps /\ id' = id /\ joined' = joined
      BY <1>4 DEF InsertFlag
    <2>2. Present(t, s, Receivers)' = Present(t, s, Receivers)
      BY <1>4, <1>a, <1>b DEF InsertFlag
    <2>3. t = Acceptor /\ pc'[t] \in {"acCount", "acAssoc", "acDec", "join"} =>
              slot[t] = s /\ pc[t] \in {"acCount", "acAssoc", "acDec", "join"}
      BY <1>4, <1>a, <1>b DEF InsertFlag
    <2> QED
      BY <1>c, <2>1, <2>2, <2>3
  <1>5. CASE InsertOne(t)
    <2>1. t = Acceptor /\ pc[t] \in InsertLabels /\ slot[t] = s
      BY <1>5, <1>a, <1>b DEF InsertOne, AcceptorLabels, InsertLabels
    <2>2. Receiving(s) = 0
      BY <2>1, NothingInside
    <2>3. UNCHANGED recvOps /\ Present(t, s, Receivers)' = 0 /\ Present(t, s, Receivers) = 0
      BY <1>5, <1>a, <1>b, <2>1 DEF InsertOne
    <2> QED
      BY <1>a, <1>e, <2>2, <2>3, SumMoves
  <1>6. CASE InsertCount(t)
    <2>1. UNCHANGED recvOps /\ id' = id /\ joined' = joined
      BY <1>6 DEF InsertCount
    <2>2. Present(t, s, Receivers)' = Present(t, s, Receivers)
      BY <1>6, <1>a, <1>b DEF InsertCount
    <2>3. t = Acceptor /\ pc'[t] \in {"acCount", "acAssoc", "acDec", "join"} =>
              slot[t] = s /\ pc[t] \in {"acCount", "acAssoc", "acDec", "join"}
      BY <1>6, <1>a, <1>b DEF InsertCount
    <2> QED
      BY <1>c, <2>1, <2>2, <2>3
  <1>7. CASE Associate(t)
    <2>1. UNCHANGED recvOps /\ id' = id /\ joined' = joined
      BY <1>7 DEF Associate
    <2>2. Present(t, s, Receivers)' = Present(t, s, Receivers)
      BY <1>7, <1>a, <1>b DEF Associate
    <2>3. t = Acceptor /\ pc'[t] \in {"acCount", "acAssoc", "acDec", "join"} =>
              slot[t] = s /\ pc[t] \in {"acCount", "acAssoc", "acDec", "join"}
      BY <1>7, <1>a, <1>b DEF Associate
    <2> QED
      BY <1>c, <2>1, <2>2, <2>3
  <1>8. CASE AssociateFailed(t)
    <2>1. UNCHANGED recvOps /\ id' = id /\ joined' = joined
      BY <1>8 DEF AssociateFailed, Dec
    <2>2. Present(t, s, Receivers)' = Present(t, s, Receivers)
      BY <1>8, <1>a, <1>b DEF AssociateFailed, Dec
    <2>3. t = Acceptor /\ pc'[t] \in {"acCount", "acAssoc", "acDec", "join"} =>
              slot[t] = s /\ pc[t] \in {"acCount", "acAssoc", "acDec", "join"}
      BY <1>8, <1>a, <1>b DEF AssociateFailed, Dec
    <2> QED
      BY <1>c, <2>1, <2>2, <2>3
  <1>9. CASE OnClientJoin(t)
    <2>1. /\ t = Acceptor /\ slot[t] = s /\ slot' = slot /\ pc[t] = "join" /\ pc'[t] = "prPost"
          /\ UNCHANGED <<recvOps, id>> /\ id[s] \in joined'
      BY <1>9, <1>a, <1>b DEF OnClientJoin, AcceptorLabels
    <2>2. Receiving(s) = 0
      BY <1>b, <2>1 DEF ReceiveAt
    <2>3. Present(t, s, Receivers)' = 1 /\ Present(t, s, Receivers) = 0
      BY <2>1
    <2>4. Receiving(s)' = 1
      BY <1>a, <2>1, <2>2, <2>3, SumMoves
    <2> QED
      BY <2>1, <2>4 DEF ReceiveAt
  <1>10. CASE RecvComplete(t)
    <2>1. UNCHANGED recvOps /\ id' = id /\ joined' = joined
      BY <1>10 DEF RecvComplete, DisconnectSession
    <2>2. Present(t, s, Receivers)' = Present(t, s, Receivers)
      BY <1>10, <1>a, <1>b DEF RecvComplete, DisconnectSession
    <2>3. t = Acceptor /\ pc'[t] \in {"acCount", "acAssoc", "acDec", "join"} =>
              slot[t] = s /\ pc[t] \in {"acCount", "acAssoc", "acDec", "join"}
      BY <1>10, <1>a, <1>b DEF RecvComplete, DisconnectSession
    <2> QED
      BY <1>c, <2>1, <2>2, <2>3
  <1>11. CASE SendComplete(t)
    <2>1. UNCHANGED recvOps /\ id' = id /\ joined' = joined
      BY <1>11 DEF SendComplete
    <2>2. Present(t, s, Receivers)' = Present(t, s, Receivers)
      BY <1>11, <1>a, <1>b DEF SendComplete
    <2>3. t = Acceptor /\ pc'[t] \in {"acCount", "acAssoc", "acDec", "join"} =>
              slot[t] = s /\ pc[t] \in {"acCount", "acAssoc", "acDec", "join"}
      BY <1>11, <1>a, <1>b DEF SendComplete
    <2> QED
      BY <1>c, <2>1, <2>2, <2>3
  <1>12. CASE SendCompleteFlag(t)
    <2>1. UNCHANGED recvOps /\ id' = id /\ joined' = joined
      BY <1>12 DEF SendCompleteFlag
    <2>2. Present(t, s, Receivers)' = Present(t, s, Receivers)
      BY <1>12, <1>a, <1>b DEF SendCompleteFlag
    <2>3. t = Acceptor /\ pc'[t] \in {"acCount", "acAssoc", "acDec", "join"} =>
              slot[t] = s /\ pc[t] \in {"acCount", "acAssoc", "acDec", "join"}
      BY <1>12, <1>a, <1>b DEF SendCompleteFlag
    <2> QED
      BY <1>c, <2>1, <2>2, <2>3
  <1>13. CASE PostRecvRef(t)
    <2>1. UNCHANGED recvOps /\ id' = id /\ joined' = joined
      BY <1>13 DEF PostRecvRef, Inc
    <2>2. Present(t, s, Receivers)' = Present(t, s, Receivers)
      BY <1>13, <1>a, <1>b DEF PostRecvRef, Inc
    <2>3. t = Acceptor /\ pc'[t] \in {"acCount", "acAssoc", "acDec", "join"} =>
              slot[t] = s /\ pc[t] \in {"acCount", "acAssoc", "acDec", "join"}
      BY <1>13, <1>a, <1>b DEF PostRecvRef, Inc
    <2> QED
      BY <1>c, <2>1, <2>2, <2>3
  <1>14. CASE PostRecv(t)
    <2>1. /\ id' = id /\ joined' = joined /\ pc[t] = "prRecv" /\ slot[t] = s
          /\ \/ recvOps'[s] = recvOps[s] + 1 \/ recvOps'[s] = recvOps[s]
      BY <1>14, <1>a, <1>b DEF PostRecv
    <2>2. pc'[t] \in {"drop", "dropPost"}
      BY <1>14, <1>a DEF PostRecv
    <2>3. Present(t, s, Receivers)' = 0 /\ Present(t, s, Receivers) = 1
      BY <2>1, <2>2
    <2>4. \/ recvOps'[s] + Present(t, s, Receivers)' = recvOps[s] + Present(t, s, Receivers)
          \/ recvOps'[s] + Present(t, s, Receivers)' + 1 = recvOps[s] + Present(t, s, Receivers)
      <3>1. recvOps[s] \in Nat
        BY <1>a
      <3> QED
        BY <2>1, <2>3, <3>1
    <2> QED
      BY <1>c, <2>1, <2>2, <2>4
  <1>15. CASE PostSendTest(t)
    <2>1. UNCHANGED recvOps /\ id' = id /\ joined' = joined
      BY <1>15 DEF PostSendTest
    <2>2. Present(t, s, Receivers)' = Present(t, s, Receivers)
      BY <1>15, <1>a, <1>b DEF PostSendTest
    <2>3. t = Acceptor /\ pc'[t] \in {"acCount", "acAssoc", "acDec", "join"} =>
              slot[t] = s /\ pc[t] \in {"acCount", "acAssoc", "acDec", "join"}
      BY <1>15, <1>a, <1>b DEF PostSendTest
    <2> QED
      BY <1>c, <2>1, <2>2, <2>3
  <1>16. CASE PostSendCas(t)
    <2>1. UNCHANGED recvOps /\ id' = id /\ joined' = joined
      BY <1>16 DEF PostSendCas
    <2>2. Present(t, s, Receivers)' = Present(t, s, Receivers)
      BY <1>16, <1>a, <1>b DEF PostSendCas
    <2>3. t = Acceptor /\ pc'[t] \in {"acCount", "acAssoc", "acDec", "join"} =>
              slot[t] = s /\ pc[t] \in {"acCount", "acAssoc", "acDec", "join"}
      BY <1>16, <1>a, <1>b DEF PostSendCas
    <2> QED
      BY <1>c, <2>1, <2>2, <2>3
  <1>17. CASE PostSendRetest(t)
    <2>1. UNCHANGED recvOps /\ id' = id /\ joined' = joined
      BY <1>17 DEF PostSendRetest
    <2>2. Present(t, s, Receivers)' = Present(t, s, Receivers)
      BY <1>17, <1>a, <1>b DEF PostSendRetest
    <2>3. t = Acceptor /\ pc'[t] \in {"acCount", "acAssoc", "acDec", "join"} =>
              slot[t] = s /\ pc[t] \in {"acCount", "acAssoc", "acDec", "join"}
      BY <1>17, <1>a, <1>b DEF PostSendRetest
    <2> QED
      BY <1>c, <2>1, <2>2, <2>3
  <1>18. CASE PostSendReset(t)
    <2>1. UNCHANGED recvOps /\ id' = id /\ joined' = joined
      BY <1>18 DEF PostSendReset
    <2>2. Present(t, s, Receivers)' = Present(t, s, Receivers)
      BY <1>18, <1>a, <1>b DEF PostSendReset
    <2>3. t = Acceptor /\ pc'[t] \in {"acCount", "acAssoc", "acDec", "join"} =>
              slot[t] = s /\ pc[t] \in {"acCount", "acAssoc", "acDec", "join"}
      BY <1>18, <1>a, <1>b DEF PostSendReset
    <2> QED
      BY <1>c, <2>1, <2>2, <2>3
  <1>19. CASE PostSendRef(t)
    <2>1. UNCHANGED recvOps /\ id' = id /\ joined' = joined
      BY <1>19 DEF PostSendRef, Inc
    <2>2. Present(t, s, Receivers)' = Present(t, s, Receivers)
      BY <1>19, <1>a, <1>b DEF PostSendRef, Inc
    <2>3. t = Acceptor /\ pc'[t] \in {"acCount", "acAssoc", "acDec", "join"} =>
              slot[t] = s /\ pc[t] \in {"acCount", "acAssoc", "acDec", "join"}
      BY <1>19, <1>a, <1>b DEF PostSendRef, Inc
    <2> QED
      BY <1>c, <2>1, <2>2, <2>3
  <1>20. CASE PostSend(t)
    <2>1. UNCHANGED recvOps /\ id' = id /\ joined' = joined
      BY <1>20 DEF PostSend
    <2>2. Present(t, s, Receivers)' = Present(t, s, Receivers)
      BY <1>20, <1>a, <1>b DEF PostSend
    <2>3. t = Acceptor /\ pc'[t] \in {"acCount", "acAssoc", "acDec", "join"} =>
              slot[t] = s /\ pc[t] \in {"acCount", "acAssoc", "acDec", "join"}
      BY <1>20, <1>a, <1>b DEF PostSend
    <2> QED
      BY <1>c, <2>1, <2>2, <2>3
  <1>21. CASE PostFailed(t)
    <2>1. UNCHANGED recvOps /\ id' = id /\ joined' = joined
      BY <1>21 DEF PostFailed, Dec
    <2>2. Present(t, s, Receivers)' = Present(t, s, Receivers)
      BY <1>21, <1>a, <1>b DEF PostFailed, Dec
    <2>3. t = Acceptor /\ pc'[t] \in {"acCount", "acAssoc", "acDec", "join"} =>
              slot[t] = s /\ pc[t] \in {"acCount", "acAssoc", "acDec", "join"}
      BY <1>21, <1>a, <1>b DEF PostFailed, Dec
    <2> QED
      BY <1>c, <2>1, <2>2, <2>3
  <1>22. CASE Drop(t)
    <2>1. UNCHANGED recvOps /\ id' = id /\ joined' = joined
      BY <1>22 DEF Drop, Forget, Dec
    <2>2. Present(t, s, Receivers)' = Present(t, s, Receivers)
      BY <1>22, <1>a, <1>b DEF Drop, Forget, Dec
    <2>3. t = Acceptor /\ pc'[t] \in {"acCount", "acAssoc", "acDec", "join"} =>
              slot[t] = s /\ pc[t] \in {"acCount", "acAssoc", "acDec", "join"}
      BY <1>22, <1>a, <1>b DEF Drop, Forget, Dec
    <2> QED
      BY <1>c, <2>1, <2>2, <2>3
  <1>23. CASE CheckReleased(t)
    <2>1. UNCHANGED recvOps /\ id' = id /\ joined' = joined
      BY <1>23 DEF CheckReleased, Forget
    <2>2. Present(t, s, Receivers)' = Present(t, s, Receivers)
      BY <1>23, <1>a, <1>b DEF CheckReleased, Forget
    <2>3. t = Acceptor /\ pc'[t] \in {"acCount", "acAssoc", "acDec", "join"} =>
              slot[t] = s /\ pc[t] \in {"acCount", "acAssoc", "acDec", "join"}
      BY <1>23, <1>a, <1>b DEF CheckReleased, Forget
    <2> QED
      BY <1>c, <2>1, <2>2, <2>3
  <1>24. CASE CheckRef(t)
    <2>1. UNCHANGED recvOps /\ id' = id /\ joined' = joined
      BY <1>24 DEF CheckRef, Inc
    <2>2. Present(t, s, Receivers)' = Present(t, s, Receivers)
      BY <1>24, <1>a, <1>b DEF CheckRef, Inc
    <2>3. t = Acceptor /\ pc'[t] \in {"acCount", "acAssoc", "acDec", "join"} =>
              slot[t] = s /\ pc[t] \in {"acCount", "acAssoc", "acDec", "join"}
      BY <1>24, <1>a, <1>b DEF CheckRef, Inc
    <2> QED
      BY <1>c, <2>1, <2>2, <2>3
  <1>25. CASE CheckId(t)
    <2>1. UNCHANGED recvOps /\ id' = id /\ joined' = joined
      BY <1>25 DEF CheckId
    <2>2. Present(t, s, Receivers)' = Present(t, s, Receivers)
      BY <1>25, <1>a, <1>b DEF CheckId
    <2>3. t = Acceptor /\ pc'[t] \in {"acCount", "acAssoc", "acDec", "join"} =>
              slot[t] = s /\ pc[t] \in {"acCount", "acAssoc", "acDec", "join"}
      BY <1>25, <1>a, <1>b DEF CheckId
    <2> QED
      BY <1>c, <2>1, <2>2, <2>3
  <1>26. CASE CheckReleasedAgain(t)
    <2>1. UNCHANGED recvOps /\ id' = id /\ joined' = joined
      BY <1>26 DEF CheckReleasedAgain
    <2>2. Present(t, s, Receivers)' = Present(t, s, Receivers)
      BY <1>26, <1>a, <1>b DEF CheckReleasedAgain
    <2>3. t = Acceptor /\ pc'[t] \in {"acCount", "acAssoc", "acDec", "join"} =>
              slot[t] = s /\ pc[t] \in {"acCount", "acAssoc", "acDec", "join"}
      BY <1>26, <1>a, <1>b DEF CheckReleasedAgain
    <2> QED
      BY <1>c, <2>1, <2>2, <2>3
  <1>27. CASE Enqueue(t)
    <2>1. UNCHANGED recvOps /\ id' = id /\ joined' = joined
      BY <1>27 DEF Enqueue
    <2>2. Present(t, s, Receivers)' = Present(t, s, Receivers)
      BY <1>27, <1>a, <1>b DEF Enqueue
    <2>3. t = Acceptor /\ pc'[t] \in {"acCount", "acAssoc", "acDec", "join"} =>
              slot[t] = s /\ pc[t] \in {"acCount", "acAssoc", "acDec", "join"}
      BY <1>27, <1>a, <1>b DEF Enqueue
    <2> QED
      BY <1>c, <2>1, <2>2, <2>3
  <1>28. CASE Disconnect(t)
    <2>1. UNCHANGED recvOps /\ id' = id /\ joined' = joined
      BY <1>28 DEF Disconnect, DisconnectSession
    <2>2. Present(t, s, Receivers)' = Present(t, s, Receivers)
      BY <1>28, <1>a, <1>b DEF Disconnect, DisconnectSession
    <2>3. t = Acceptor /\ pc'[t] \in {"acCount", "acAssoc", "acDec", "join"} =>
              slot[t] = s /\ pc[t] \in {"acCount", "acAssoc", "acDec", "join"}
      BY <1>28, <1>a, <1>b DEF Disconnect, DisconnectSession
    <2> QED
      BY <1>c, <2>1, <2>2, <2>3
  <1>29. CASE ReleaseTest(t)
    <2>1. UNCHANGED recvOps /\ id' = id /\ joined' = joined
      BY <1>29 DEF ReleaseTest, Forget, Return
    <2>2. Present(t, s, Receivers)' = Present(t, s, Receivers)
      BY <1>29, <1>a, <1>b DEF ReleaseTest, Forget, Return
    <2>3. t = Acceptor /\ pc'[t] \in {"acCount", "acAssoc", "acDec", "join"} =>
              slot[t] = s /\ pc[t] \in {"acCount", "acAssoc", "acDec", "join"}
      BY <1>29, <1>a, <1>b DEF ReleaseTest, Forget, Return
    <2> QED
      BY <1>c, <2>1, <2>2, <2>3
  <1>30. CASE ReleaseCas(t)
    <2>1. UNCHANGED recvOps /\ id' = id /\ joined' = joined
      BY <1>30 DEF ReleaseCas, Forget, Return
    <2>2. Present(t, s, Receivers)' = Present(t, s, Receivers)
      BY <1>30, <1>a, <1>b DEF ReleaseCas, Forget, Return
    <2>3. t = Acceptor /\ pc'[t] \in {"acCount", "acAssoc", "acDec", "join"} =>
              slot[t] = s /\ pc[t] \in {"acCount", "acAssoc", "acDec", "join"}
      BY <1>30, <1>a, <1>b DEF ReleaseCas, Forget, Return
    <2> QED
      BY <1>c, <2>1, <2>2, <2>3
  <1>31. CASE ReleaseClose(t)
    <2>1. UNCHANGED recvOps /\ id' = id /\ joined' = joined
      BY <1>31 DEF ReleaseClose, DisconnectSession
    <2>2. Present(t, s, Receivers)' = Present(t, s, Receivers)
      BY <1>31, <1>a, <1>b DEF ReleaseClose, DisconnectSession
    <2>3. t = Acceptor /\ pc'[t] \in {"acCount", "acAssoc", "acDec", "join"} =>
              slot[t] = s /\ pc[t] \in {"acCount", "acAssoc", "acDec", "join"}
      BY <1>31, <1>a, <1>b DEF ReleaseClose, DisconnectSession
    <2> QED
      BY <1>c, <2>1, <2>2, <2>3
  <1>32. CASE OnClientLeave(t)
    <2>1. UNCHANGED recvOps /\ id' = id /\ joined' = joined
      BY <1>32 DEF OnClientLeave
    <2>2. Present(t, s, Receivers)' = Present(t, s, Receivers)
      BY <1>32, <1>a, <1>b DEF OnClientLeave
    <2>3. t = Acceptor /\ pc'[t] \in {"acCount", "acAssoc", "acDec", "join"} =>
              slot[t] = s /\ pc[t] \in {"acCount", "acAssoc", "acDec", "join"}
      BY <1>32, <1>a, <1>b DEF OnClientLeave
    <2> QED
      BY <1>c, <2>1, <2>2, <2>3
  <1>33. CASE ReleaseDrain(t)
    <2>1. UNCHANGED recvOps /\ id' = id /\ joined' = joined
      BY <1>33 DEF ReleaseDrain
    <2>2. Present(t, s, Receivers)' = Present(t, s, Receivers)
      BY <1>33, <1>a, <1>b DEF ReleaseDrain
    <2>3. t = Acceptor /\ pc'[t] \in {"acCount", "acAssoc", "acDec", "join"} =>
              slot[t] = s /\ pc[t] \in {"acCount", "acAssoc", "acDec", "join"}
      BY <1>33, <1>a, <1>b DEF ReleaseDrain
    <2> QED
      BY <1>c, <2>1, <2>2, <2>3
  <1>34. CASE ReleaseClear(t)
    <2>1. slot[t] = s /\ pc[t] = "relClear" /\ pc'[t] = "relPush" /\ UNCHANGED recvOps
      BY <1>34, <1>a, <1>b DEF ReleaseClear
    <2>2. Receiving(s) = 0
      BY <2>1, NothingInside DEF StepAt, TableInv, OwnerInv, Releasing, ReleaseBody
    <2>3. Present(t, s, Receivers)' = 0 /\ Present(t, s, Receivers) = 0
      BY <2>1
    <2> QED
      BY <1>a, <1>e, <2>1, <2>2, <2>3, SumMoves
  <1>35. CASE PushIndex(t)
    <2>1. UNCHANGED recvOps /\ id' = id /\ joined' = joined
      BY <1>35 DEF PushIndex
    <2>2. Present(t, s, Receivers)' = Present(t, s, Receivers)
      BY <1>35, <1>a, <1>b DEF PushIndex
    <2>3. t = Acceptor /\ pc'[t] \in {"acCount", "acAssoc", "acDec", "join"} =>
              slot[t] = s /\ pc[t] \in {"acCount", "acAssoc", "acDec", "join"}
      BY <1>35, <1>a, <1>b DEF PushIndex
    <2> QED
      BY <1>c, <2>1, <2>2, <2>3
  <1>36. CASE ReleaseCount(t)
    <2>1. UNCHANGED recvOps /\ id' = id /\ joined' = joined
      BY <1>36 DEF ReleaseCount, Forget, Return
    <2>2. Present(t, s, Receivers)' = Present(t, s, Receivers)
      BY <1>36, <1>a, <1>b DEF ReleaseCount, Forget, Return
    <2>3. t = Acceptor /\ pc'[t] \in {"acCount", "acAssoc", "acDec", "join"} =>
              slot[t] = s /\ pc[t] \in {"acCount", "acAssoc", "acDec", "join"}
      BY <1>36, <1>a, <1>b DEF ReleaseCount, Forget, Return
    <2> QED
      BY <1>c, <2>1, <2>2, <2>3
  <1>37. CASE Accept(t)
    <2>1. UNCHANGED recvOps /\ id' = id /\ joined' = joined
      BY <1>37 DEF Accept
    <2>2. Present(t, s, Receivers)' = Present(t, s, Receivers)
      BY <1>37, <1>a, <1>b DEF Accept
    <2>3. t = Acceptor /\ pc'[t] \in {"acCount", "acAssoc", "acDec", "join"} =>
              slot[t] = s /\ pc[t] \in {"acCount", "acAssoc", "acDec", "join"}
      BY <1>37, <1>a, <1>b DEF Accept
    <2> QED
      BY <1>c, <2>1, <2>2, <2>3
  <1>38. ASSUME NEW r \in Slots, TakeRecv(t, r)
        PROVE  ReceiveAt(s)'
    <2>1. /\ r = s /\ recvOps'[s] = recvOps[s] - 1 /\ id' = id /\ joined' = joined /\ pc'[t] = "rcOn"
          /\ pc[t] = "idle"
      BY <1>38, <1>a, <1>b DEF TakeRecv
    <2>2. Present(t, s, Receivers)' = 1 /\ Present(t, s, Receivers) = 0
      BY <1>b, <2>1
    <2>3. recvOps'[s] + Present(t, s, Receivers)' = recvOps[s] + Present(t, s, Receivers)
      BY <1>a, <2>1, <2>2
    <2> QED
      BY <1>c, <2>1, <2>3
  <1>39. ASSUME NEW r \in Slots, TakeSend(t, r)
        PROVE  ReceiveAt(s)'
    <2>1. UNCHANGED recvOps /\ id' = id /\ joined' = joined
      BY <1>39 DEF TakeSend
    <2>2. Present(t, s, Receivers)' = Present(t, s, Receivers)
      BY <1>39, <1>a, <1>b DEF TakeSend
    <2>3. t = Acceptor /\ pc'[t] \in {"acCount", "acAssoc", "acDec", "join"} =>
              slot[t] = s /\ pc[t] \in {"acCount", "acAssoc", "acDec", "join"}
      BY <1>39, <1>a, <1>b DEF TakeSend
    <2> QED
      BY <1>c, <2>1, <2>2, <2>3
  <1>40. ASSUME NEW r \in Slots, TakeDown(t, r)
        PROVE  ReceiveAt(s)'
    <2>1. /\ r = s /\ id' = id /\ joined' = joined /\ pc'[t] = "drop" /\ pc[t] = "idle"
          /\ \/ recvOps'[s] = recvOps[s] - 1 \/ recvOps'[s] = recvOps[s]
      BY <1>40, <1>a, <1>b DEF TakeDown
    <2>2. Present(t, s, Receivers)' = 0 /\ Present(t, s, Receivers) = 0
      BY <1>b, <2>1
    <2>3. recvOps[s] \in Nat
      BY <1>a
    <2>4. \/ recvOps'[s] + Present(t, s, Receivers)' = recvOps[s] + Present(t, s, Receivers)
          \/ recvOps'[s] + Present(t, s, Receivers)' + 1 = recvOps[s] + Present(t, s, Receivers)
      BY <2>1, <2>2, <2>3
    <2> QED
      BY <1>c, <2>1, <2>4
  <1>41. ASSUME NEW i \in joined, Call(t, i)
        PROVE  ReceiveAt(s)'
    <2>1. UNCHANGED recvOps /\ id' = id /\ joined' = joined
      BY <1>41 DEF Call, GetSessionIndex
    <2>2. Present(t, s, Receivers)' = Present(t, s, Receivers)
      BY <1>41, <1>a, <1>b DEF Call, GetSessionIndex
    <2>3. t = Acceptor /\ pc'[t] \in {"acCount", "acAssoc", "acDec", "join"} =>
              slot[t] = s /\ pc[t] \in {"acCount", "acAssoc", "acDec", "join"}
      BY <1>41, <1>a, <1>b DEF Call, GetSessionIndex
    <2> QED
      BY <1>c, <2>1, <2>2, <2>3
  <1> QED
    BY <1>1, <1>2, <1>3, <1>4, <1>5, <1>6, <1>7, <1>8, <1>9, <1>10, <1>11, <1>12,
       <1>13, <1>14, <1>15, <1>16, <1>17, <1>18, <1>19, <1>20, <1>21, <1>22, <1>23, <1>24,
       <1>25, <1>26, <1>27, <1>28, <1>29, <1>30, <1>31, <1>32, <1>33, <1>34, <1>35, <1>36,
       <1>37, <1>38, <1>39, <1>40, <1>41
       DEF StepAt, Acts, Step, AcceptStep, CompletionStep, CallStep, ReleaseStep, Take

\* bIsSend admits one sender, and what it sends stays queued until SendComplete.
LEMMA StepSend ==
    ASSUME NEW t \in Threads, NEW s \in Slots, StepAt(t, s), EventInv
    PROVE  SendAt(s)'
  <1> USE DEF tableVars, refVars, connVars, sendVars, opVars, histVars, localVars, Goto
  <1>a. /\ pc \in [Threads -> Labels] /\ slot \in [Threads -> Slots \cup {NoSlot}]
        /\ sending \in [Slots -> BOOLEAN] /\ sendQ \in [Slots -> Nat] /\ packets \in [Slots -> Nat]
        /\ sendOps \in [Slots -> Nat]
        /\ NoSlot \notin Slots /\ Acceptor \in Threads
        /\ pc[t] \in AcceptorLabels => t = Acceptor
    BY TypeFacts DEF StepAt
  <1>b. /\ SendAt(s) /\ ret[t] = "idle"
        /\ slot[t] \in {s, NoSlot} /\ slot'[t] \in {s, NoSlot}
        /\ pc[t] \notin {"idle", "acPop"} => slot[t] = s
        /\ pc'[t] \notin {"idle", "acPop"} => slot'[t] = s
        /\ pc[t] \in {"idle", "acPop"} => slot[t] = NoSlot
        /\ \A u \in Threads \ {t} : pc'[u] = pc[u] /\ slot'[u] = slot[u]
    BY DEF StepAt, Local, RefInv, Whereabouts, EventInv
  <1>m. /\ Sends(s) \in Nat /\ Sends(s)' \in Nat /\ sendOps[s] \in Nat /\ sendOps'[s] \in Nat
        /\ Sends(s)' + sendOps[s] + Present(t, s, Senders) =
           Sends(s) + sendOps'[s] + Present(t, s, Senders)'
    <2>1. sendOps[s] \in Nat /\ sendOps'[s] \in Nat
      BY DEF StepAt, TypeInv, TypeOK, OpType
    <2> QED
      BY <2>1, SumMoves
  \* A step of a thread that is no sender.
  <1>c. ASSUME sendOps'[s] = sendOps[s], sending'[s] = sending[s],
               sendQ'[s] = sendQ[s] \/ sendQ'[s] = sendQ[s] + 1, packets'[s] = packets[s],
               pc[t] \notin Senders, pc'[t] \notin Senders
        PROVE  SendAt(s)'
    <2>1. Present(t, s, Senders) = 0 /\ Present(t, s, Senders)' = 0
      BY <1>c DEF Present
    <2>2. Sends(s)' = Sends(s)
      BY <1>c, <1>m, <2>1
    <2>3. /\ \A u \in Threads : slot'[u] = s /\ pc'[u] \in Senders => slot[u] = s /\ pc[u] = pc'[u]
      BY <1>b, <1>c
    <2>4. sendQ[s] \in Nat
      BY <1>a
    <2>5. (sendQ[s] > 0 => sendQ'[s] > 0) /\ (packets[s] \in 1 .. sendQ[s] => packets'[s] \in 1 .. sendQ'[s])
      BY <1>a, <1>c, <2>4
    <2>6. (\E u \in Threads : slot'[u] = s /\ pc'[u] = "psPost") => \E u \in Threads : slot[u] = s /\ pc[u] = "psPost"
      BY <2>3 DEF Senders
    <2>7. (\E u \in Threads : slot'[u] = s /\ pc'[u] \in {"psSend", "scDone"}) =>
              \E u \in Threads : slot[u] = s /\ pc[u] \in {"psSend", "scDone"}
      BY <2>3 DEF Senders
    <2> QED
      BY <1>b, <1>c, <2>2, <2>5, <2>6, <2>7 DEF SendAt
  \* Nobody is left.
  <1>e. ASSUME Sends(s)' = 0 PROVE SendAt(s)'
    <2>1. IsFiniteSet(At(s, Senders)')
      BY ThreadFacts, FS_Subset DEF At
    <2>2. Cardinality(At(s, Senders)') \in Nat /\ (Cardinality(At(s, Senders)') = 0 => At(s, Senders)' = {})
      BY <2>1, FS_CardinalityType, FS_EmptySet
    <2>3. sendOps'[s] = 0 /\ Cardinality(At(s, Senders)') = 0
      BY <1>e, <1>m, <2>2 DEF Sends
    <2>4. \A u \in Threads : slot'[u] = s => pc'[u] \notin Senders
      BY <2>2, <2>3 DEF At
    <2> QED
      BY <1>e, <2>3, <2>4 DEF SendAt, Senders
  \* The only sender.
  <1>f. ASSUME slot[t] = s, pc[t] \in Senders
        PROVE  /\ sendOps[s] = 0 /\ Sends(s) = 1 /\ sending[s] /\ Present(t, s, Senders) = 1
               /\ \A u \in Threads : slot[u] = s /\ pc[u] \in Senders => u = t
    <2>1. t \in At(s, Senders)
      BY <1>f DEF At
    <2>2. sendOps[s] = 0 /\ At(s, Senders) = {t}
      BY <1>b, <1>m, <2>1, OneAtMost DEF SendAt, Sends
    <2>3. Sends(s) = 1
      BY <2>2, FS_Singleton DEF Sends
    <2> QED
      BY <1>b, <1>f, <2>2, <2>3 DEF At, SendAt, Present
  \* It stays the only one.
  <1>g. ASSUME slot[t] = s, pc[t] \in Senders, pc'[t] \in Senders, sendOps'[s] = sendOps[s],
               sending'[s] = sending[s],
               pc'[t] = "psPost" => sendQ'[s] > 0,
               pc'[t] \in {"psSend", "scDone"} => packets'[s] \in 1 .. sendQ'[s]
        PROVE  SendAt(s)'
    <2>1. slot'[t] = s
      BY <1>b, <1>g DEF Senders
    <2>2. Present(t, s, Senders)' = 1
      BY <1>g, <2>1 DEF Present
    <2>3. Sends(s)' = 1
      BY <1>f, <1>g, <1>m, <2>2
    <2>4. \A u \in Threads : slot'[u] = s /\ pc'[u] \in Senders => u = t
      BY <1>b, <1>f, <1>g
    <2> QED
      BY <1>f, <1>g, <2>3, <2>4 DEF SendAt, Senders
  \* Or it leaves.
  <1>h. ASSUME slot[t] = s, pc[t] \in Senders, pc'[t] \notin Senders, sendOps'[s] = sendOps[s]
        PROVE  SendAt(s)'
    <2>1. Present(t, s, Senders)' = 0
      BY <1>h DEF Present
    <2>2. Sends(s)' = 0
      BY <1>f, <1>h, <1>m, <2>1
    <2> QED
      BY <1>e, <2>2
  \* What happens to an empty session.
  <1>i. ASSUME Sends(s) = 0, sendOps'[s] = sendOps[s], pc[t] \notin Senders, pc'[t] \notin Senders
        PROVE  SendAt(s)'
    <2>1. Present(t, s, Senders)' = 0 /\ Present(t, s, Senders) = 0
      BY <1>i DEF Present
    <2> QED
      BY <1>e, <1>i, <1>m, <2>1
  <1>1. CASE PopIndex(t)
    <2>1. pc[t] \notin Senders /\ pc'[t] \notin Senders
      BY <1>1, <1>a, <1>b DEF PopIndex, Senders
    <2>2. UNCHANGED <<sendOps, sending, sendQ, packets>>
      BY <1>1 DEF PopIndex
    <2> QED
      BY <1>c, <2>1, <2>2
  <1>2. CASE InsertFields(t)
    <2>1. t = Acceptor /\ pc[t] = "acInit" /\ pc'[t] = "acZero" /\ slot[t] = s /\ UNCHANGED sendOps
      BY <1>2, <1>a, <1>b DEF InsertFields, AcceptorLabels, InsertLabels
    <2>2. Sends(s) = 0
      BY <2>1, NothingInside DEF InsertLabels
    <2> QED
      BY <1>i, <2>1, <2>2 DEF Senders
  <1>3. CASE InsertZero(t)
    <2>1. pc[t] \notin Senders /\ pc'[t] \notin Senders
      BY <1>3, <1>a, <1>b DEF InsertZero, Senders
    <2>2. UNCHANGED <<sendOps, sending, sendQ, packets>>
      BY <1>3 DEF InsertZero
    <2> QED
      BY <1>c, <2>1, <2>2
  <1>4. CASE InsertFlag(t)
    <2>1. pc[t] \notin Senders /\ pc'[t] \notin Senders
      BY <1>4, <1>a, <1>b DEF InsertFlag, Senders
    <2>2. UNCHANGED <<sendOps, sending, sendQ, packets>>
      BY <1>4 DEF InsertFlag
    <2> QED
      BY <1>c, <2>1, <2>2
  <1>5. CASE InsertOne(t)
    <2>1. pc[t] \notin Senders /\ pc'[t] \notin Senders
      BY <1>5, <1>a, <1>b DEF InsertOne, Senders
    <2>2. UNCHANGED <<sendOps, sending, sendQ, packets>>
      BY <1>5 DEF InsertOne
    <2> QED
      BY <1>c, <2>1, <2>2
  <1>6. CASE InsertCount(t)
    <2>1. pc[t] \notin Senders /\ pc'[t] \notin Senders
      BY <1>6, <1>a, <1>b DEF InsertCount, Senders
    <2>2. UNCHANGED <<sendOps, sending, sendQ, packets>>
      BY <1>6 DEF InsertCount
    <2> QED
      BY <1>c, <2>1, <2>2
  <1>7. CASE Associate(t)
    <2>1. pc[t] \notin Senders /\ pc'[t] \notin Senders
      BY <1>7, <1>a, <1>b DEF Associate, Senders
    <2>2. UNCHANGED <<sendOps, sending, sendQ, packets>>
      BY <1>7 DEF Associate
    <2> QED
      BY <1>c, <2>1, <2>2
  <1>8. CASE AssociateFailed(t)
    <2>1. pc[t] \notin Senders /\ pc'[t] \notin Senders
      BY <1>8, <1>a, <1>b DEF AssociateFailed, Dec, Senders
    <2>2. UNCHANGED <<sendOps, sending, sendQ, packets>>
      BY <1>8 DEF AssociateFailed, Dec
    <2> QED
      BY <1>c, <2>1, <2>2
  <1>9. CASE OnClientJoin(t)
    <2>1. pc[t] \notin Senders /\ pc'[t] \notin Senders
      BY <1>9, <1>a, <1>b DEF OnClientJoin, Senders
    <2>2. UNCHANGED <<sendOps, sending, sendQ, packets>>
      BY <1>9 DEF OnClientJoin
    <2> QED
      BY <1>c, <2>1, <2>2
  <1>10. CASE RecvComplete(t)
    <2>1. pc[t] \notin Senders /\ pc'[t] \notin Senders
      BY <1>10, <1>a, <1>b DEF RecvComplete, DisconnectSession, Senders
    <2>2. UNCHANGED <<sendOps, sending, sendQ, packets>>
      BY <1>10 DEF RecvComplete, DisconnectSession
    <2> QED
      BY <1>c, <2>1, <2>2
  <1>11. CASE SendComplete(t)
    <2>1. /\ pc[t] = "scDone" /\ pc'[t] = "scFlag" /\ slot[t] = s /\ UNCHANGED <<sendOps, sending>>
      BY <1>11, <1>a, <1>b DEF SendComplete
    <2> QED
      BY <1>g, <2>1 DEF Senders
  <1>12. CASE SendCompleteFlag(t)
    <2>1. /\ pc[t] \in {"scFlag", "psReset"} /\ pc'[t] = "psTest" /\ slot[t] = s /\ UNCHANGED sendOps
      BY <1>12, <1>a, <1>b DEF SendCompleteFlag
    <2> QED
      BY <1>h, <2>1 DEF Senders
  <1>13. CASE PostRecvRef(t)
    <2>1. pc[t] \notin Senders /\ pc'[t] \notin Senders
      BY <1>13, <1>a, <1>b DEF PostRecvRef, Inc, Senders
    <2>2. UNCHANGED <<sendOps, sending, sendQ, packets>>
      BY <1>13 DEF PostRecvRef, Inc
    <2> QED
      BY <1>c, <2>1, <2>2
  <1>14. CASE PostRecv(t)
    <2>1. pc[t] \notin Senders /\ pc'[t] \notin Senders
      BY <1>14, <1>a, <1>b DEF PostRecv, Senders
    <2>2. UNCHANGED <<sendOps, sending, sendQ, packets>>
      BY <1>14 DEF PostRecv
    <2> QED
      BY <1>c, <2>1, <2>2
  <1>15. CASE PostSendTest(t)
    <2>1. pc[t] \notin Senders /\ pc'[t] \notin Senders
      BY <1>15, <1>a, <1>b DEF PostSendTest, Senders
    <2>2. UNCHANGED <<sendOps, sending, sendQ, packets>>
      BY <1>15 DEF PostSendTest
    <2> QED
      BY <1>c, <2>1, <2>2
  <1>16. CASE PostSendCas(t)
    <2>1. /\ pc[t] = "psCas" /\ slot[t] = s /\ slot'[t] = s /\ UNCHANGED <<sendOps, sendQ, packets>>
          /\ sending'[s] = TRUE
      BY <1>16, <1>a, <1>b DEF PostSendCas
    <2>2. CASE sending[s]
      <3>1. pc'[t] = "drop"
        BY <1>16, <1>a, <2>1, <2>2 DEF PostSendCas
      <3> QED
        BY <1>c, <2>1, <2>2, <3>1 DEF Senders
    <2>3. CASE ~sending[s]
      <3>1. pc'[t] = "psTest2"
        BY <1>16, <1>a, <2>1, <2>3 DEF PostSendCas
      <3>2. Sends(s) = 0
        BY <1>b, <1>m, <2>3 DEF SendAt
      <3>3. sendOps[s] = 0 /\ At(s, Senders) = {}
        <4>1. Cardinality(At(s, Senders)) \in Nat
          BY AtFinite
        <4>2. sendOps[s] = 0 /\ Cardinality(At(s, Senders)) = 0
          BY <1>m, <3>2, <4>1 DEF Sends
        <4> QED
          BY <4>2, AtFinite
      <3>4. Present(t, s, Senders) = 0 /\ Present(t, s, Senders)' = 1
        BY <2>1, <3>1 DEF Present, Senders
      <3>5. Sends(s)' = 1
        BY <1>m, <2>1, <3>2, <3>4
      <3>6. \A u \in Threads \ {t} : slot'[u] = s => pc'[u] \notin Senders
        BY <1>b, <3>3 DEF At
      <3> QED
        BY <2>1, <3>1, <3>3, <3>5, <3>6 DEF SendAt, Senders
    <2> QED
      BY <2>2, <2>3
  <1>17. CASE PostSendRetest(t)
    <2>1. /\ pc[t] = "psTest2" /\ slot[t] = s /\ UNCHANGED <<sendOps, sending, sendQ>>
      BY <1>17, <1>a, <1>b DEF PostSendRetest
    <2>2. pc'[t] = IF sendQ[s] = 0 THEN "psReset" ELSE "psPost"
      BY <1>17, <1>a, <2>1 DEF PostSendRetest
    <2>3. sendQ[s] \in Nat
      BY <1>a
    <2>4. sendQ[s] # 0 => sendQ[s] > 0
      BY <2>3
    <2> QED
      BY <1>g, <2>1, <2>2, <2>4 DEF Senders
  <1>18. CASE PostSendReset(t)
    <2>1. /\ pc[t] \in {"scFlag", "psReset"} /\ pc'[t] = "psTest" /\ slot[t] = s /\ UNCHANGED sendOps
      BY <1>18, <1>a, <1>b DEF PostSendReset
    <2> QED
      BY <1>h, <2>1 DEF Senders
  <1>19. CASE PostSendRef(t)
    <2>1. /\ pc[t] = "psPost" /\ pc'[t] = "psSend" /\ slot[t] = s /\ UNCHANGED <<sendOps, sending, sendQ>>
          /\ packets'[s] = IF sendQ[s] < Batch THEN sendQ[s] ELSE Batch
      BY <1>19, <1>a, <1>b DEF PostSendRef
    <2>2. sendQ[s] > 0 /\ sendQ[s] \in Nat /\ Batch \in Nat \ {0}
      BY <1>a, <1>b, <2>1, BoundsAssumption DEF SendAt
    <2>3. packets'[s] \in 1 .. sendQ[s]
      BY <2>1, <2>2
    <2> QED
      BY <1>g, <2>1, <2>3 DEF Senders
  <1>20. CASE PostSend(t)
    <2>1. /\ pc[t] = "psSend" /\ slot[t] = s /\ slot'[t] = s /\ UNCHANGED <<sending, sendQ, packets>>
          /\ pc'[t] \in {"drop", "dropPost"}
      BY <1>20, <1>a, <1>b DEF PostSend
    <2>2. CASE sendOps' = sendOps
      BY <1>h, <2>1, <2>2 DEF Senders
    <2>3. CASE sendOps'[s] = sendOps[s] + 1
      <3>1. /\ Sends(s) = 1 /\ sending[s] /\ Present(t, s, Senders) = 1
            /\ \A u \in Threads : slot[u] = s /\ pc[u] \in Senders => u = t
        BY <1>f, <2>1 DEF Senders
      <3>2. Present(t, s, Senders)' = 0
        BY <2>1 DEF Present, Senders
      <3>3. Sends(s)' = 1
        BY <1>m, <2>3, <3>1, <3>2
      <3>4. packets[s] \in 1 .. sendQ[s]
        BY <1>b, <2>1 DEF SendAt
      <3>5. \A u \in Threads : slot'[u] = s => pc'[u] \notin Senders
        BY <1>b, <2>1, <3>1 DEF Senders
      <3> QED
        BY <2>1, <3>1, <3>3, <3>4, <3>5 DEF SendAt, Senders
    <2> QED
      BY <1>20, <1>a, <2>1, <2>2, <2>3 DEF PostSend
  <1>21. CASE PostFailed(t)
    <2>1. pc[t] \notin Senders /\ pc'[t] \notin Senders
      BY <1>21, <1>a, <1>b DEF PostFailed, Dec, Senders
    <2>2. UNCHANGED <<sendOps, sending, sendQ, packets>>
      BY <1>21 DEF PostFailed, Dec
    <2> QED
      BY <1>c, <2>1, <2>2
  <1>22. CASE Drop(t)
    <2>1. pc[t] \notin Senders /\ pc'[t] \notin Senders
      BY <1>22, <1>a, <1>b DEF Drop, Forget, Dec, Senders
    <2>2. UNCHANGED <<sendOps, sending, sendQ, packets>>
      BY <1>22 DEF Drop, Forget, Dec
    <2> QED
      BY <1>c, <2>1, <2>2
  <1>23. CASE CheckReleased(t)
    <2>1. pc[t] \notin Senders /\ pc'[t] \notin Senders
      BY <1>23, <1>a, <1>b DEF CheckReleased, Forget, Senders
    <2>2. UNCHANGED <<sendOps, sending, sendQ, packets>>
      BY <1>23 DEF CheckReleased, Forget
    <2> QED
      BY <1>c, <2>1, <2>2
  <1>24. CASE CheckRef(t)
    <2>1. pc[t] \notin Senders /\ pc'[t] \notin Senders
      BY <1>24, <1>a, <1>b DEF CheckRef, Inc, Senders
    <2>2. UNCHANGED <<sendOps, sending, sendQ, packets>>
      BY <1>24 DEF CheckRef, Inc
    <2> QED
      BY <1>c, <2>1, <2>2
  <1>25. CASE CheckId(t)
    <2>1. pc[t] \notin Senders /\ pc'[t] \notin Senders
      BY <1>25, <1>a, <1>b DEF CheckId, Senders
    <2>2. UNCHANGED <<sendOps, sending, sendQ, packets>>
      BY <1>25 DEF CheckId
    <2> QED
      BY <1>c, <2>1, <2>2
  <1>26. CASE CheckReleasedAgain(t)
    <2>1. pc[t] \notin Senders /\ pc'[t] \notin Senders
      BY <1>26, <1>a, <1>b DEF CheckReleasedAgain, Senders
    <2>2. UNCHANGED <<sendOps, sending, sendQ, packets>>
      BY <1>26 DEF CheckReleasedAgain
    <2> QED
      BY <1>c, <2>1, <2>2
  <1>27. CASE Enqueue(t)
    <2>1. pc[t] = "enq" /\ pc'[t] = "psTest" /\ slot[t] = s
      BY <1>27, <1>a, <1>b DEF Enqueue
    <2>2. UNCHANGED <<sendOps, sending, packets>> /\ sendQ'[s] = sendQ[s] + 1
      BY <1>27, <1>a, <2>1 DEF Enqueue
    <2> QED
      BY <1>c, <2>1, <2>2 DEF Senders
  <1>28. CASE Disconnect(t)
    <2>1. pc[t] \notin Senders /\ pc'[t] \notin Senders
      BY <1>28, <1>a, <1>b DEF Disconnect, DisconnectSession, Senders
    <2>2. UNCHANGED <<sendOps, sending, sendQ, packets>>
      BY <1>28 DEF Disconnect, DisconnectSession
    <2> QED
      BY <1>c, <2>1, <2>2
  <1>29. CASE ReleaseTest(t)
    <2>1. pc[t] \notin Senders /\ pc'[t] \notin Senders
      BY <1>29, <1>a, <1>b DEF ReleaseTest, Forget, Return, Senders
    <2>2. UNCHANGED <<sendOps, sending, sendQ, packets>>
      BY <1>29 DEF ReleaseTest, Forget, Return
    <2> QED
      BY <1>c, <2>1, <2>2
  <1>30. CASE ReleaseCas(t)
    <2>1. pc[t] \notin Senders /\ pc'[t] \notin Senders
      BY <1>30, <1>a, <1>b DEF ReleaseCas, Forget, Return, Senders
    <2>2. UNCHANGED <<sendOps, sending, sendQ, packets>>
      BY <1>30 DEF ReleaseCas, Forget, Return
    <2> QED
      BY <1>c, <2>1, <2>2
  <1>31. CASE ReleaseClose(t)
    <2>1. pc[t] \notin Senders /\ pc'[t] \notin Senders
      BY <1>31, <1>a, <1>b DEF ReleaseClose, DisconnectSession, Senders
    <2>2. UNCHANGED <<sendOps, sending, sendQ, packets>>
      BY <1>31 DEF ReleaseClose, DisconnectSession
    <2> QED
      BY <1>c, <2>1, <2>2
  <1>32. CASE OnClientLeave(t)
    <2>1. pc[t] \notin Senders /\ pc'[t] \notin Senders
      BY <1>32, <1>a, <1>b DEF OnClientLeave, Senders
    <2>2. UNCHANGED <<sendOps, sending, sendQ, packets>>
      BY <1>32 DEF OnClientLeave
    <2> QED
      BY <1>c, <2>1, <2>2
  <1>33. CASE ReleaseDrain(t)
    <2>1. /\ slot[t] = s /\ pc[t] \in {"relDrain", "relClear"} /\ pc'[t] \in {"relClear", "relPush"}
          /\ UNCHANGED sendOps
      BY <1>33, <1>a, <1>b DEF ReleaseDrain
    <2>2. Sends(s) = 0
      BY <2>1, NothingInside DEF StepAt, TableInv, OwnerInv, Releasing, ReleaseBody
    <2> QED
      BY <1>i, <2>1, <2>2 DEF Senders
  <1>34. CASE ReleaseClear(t)
    <2>1. /\ slot[t] = s /\ pc[t] \in {"relDrain", "relClear"} /\ pc'[t] \in {"relClear", "relPush"}
          /\ UNCHANGED sendOps
      BY <1>34, <1>a, <1>b DEF ReleaseClear
    <2>2. Sends(s) = 0
      BY <2>1, NothingInside DEF StepAt, TableInv, OwnerInv, Releasing, ReleaseBody
    <2> QED
      BY <1>i, <2>1, <2>2 DEF Senders
  <1>35. CASE PushIndex(t)
    <2>1. pc[t] \notin Senders /\ pc'[t] \notin Senders
      BY <1>35, <1>a, <1>b DEF PushIndex, Senders
    <2>2. UNCHANGED <<sendOps, sending, sendQ, packets>>
      BY <1>35 DEF PushIndex
    <2> QED
      BY <1>c, <2>1, <2>2
  <1>36. CASE ReleaseCount(t)
    <2>1. pc[t] \notin Senders /\ pc'[t] \notin Senders
      BY <1>36, <1>a, <1>b DEF ReleaseCount, Forget, Return, Senders
    <2>2. UNCHANGED <<sendOps, sending, sendQ, packets>>
      BY <1>36 DEF ReleaseCount, Forget, Return
    <2> QED
      BY <1>c, <2>1, <2>2
  <1>37. CASE Accept(t)
    <2>1. pc[t] \notin Senders /\ pc'[t] \notin Senders
      BY <1>37, <1>a, <1>b DEF Accept, Senders
    <2>2. UNCHANGED <<sendOps, sending, sendQ, packets>>
      BY <1>37 DEF Accept
    <2> QED
      BY <1>c, <2>1, <2>2
  <1>38. ASSUME NEW r \in Slots, TakeRecv(t, r)
        PROVE  SendAt(s)'
    <2>1. pc[t] \notin Senders /\ pc'[t] \notin Senders
      BY <1>38, <1>a, <1>b DEF TakeRecv, Senders
    <2>2. UNCHANGED <<sendOps, sending, sendQ, packets>>
      BY <1>38 DEF TakeRecv
    <2> QED
      BY <1>c, <2>1, <2>2
  <1>39. ASSUME NEW r \in Slots, TakeSend(t, r)
        PROVE  SendAt(s)'
    <2>1. /\ r = s /\ pc[t] = "idle" /\ pc'[t] = "scDone" /\ sendOps[s] > 0 /\ sendOps'[s] = sendOps[s] - 1
          /\ UNCHANGED <<sending, sendQ, packets>>
      BY <1>39, <1>a, <1>b DEF TakeSend
    <2>2. slot'[t] = s /\ slot[t] = NoSlot
      BY <1>b, <2>1
    <2>3. sendOps[s] = 1 /\ At(s, Senders) = {}
      BY <1>b, <1>m, <2>1, OneAtMost DEF SendAt, Sends
    <2>4. Present(t, s, Senders) = 0 /\ Present(t, s, Senders)' = 1
      BY <1>a, <2>1, <2>2 DEF Present, Senders
    <2>5. Sends(s)' = Sends(s)
      BY <1>m, <2>1, <2>3, <2>4
    <2>6. \A u \in Threads \ {t} : slot'[u] = s => pc'[u] \notin Senders
      BY <1>b, <2>3 DEF At
    <2>7. Sends(s)' <= 1 /\ (Sends(s)' > 0 => sending'[s])
      BY <1>b, <2>1, <2>5 DEF SendAt
    <2>8. packets'[s] \in 1 .. sendQ'[s]
      BY <1>b, <2>1 DEF SendAt
    <2> QED
      BY <2>1, <2>6, <2>7, <2>8 DEF SendAt, Senders
  <1>40. ASSUME NEW r \in Slots, TakeDown(t, r)
        PROVE  SendAt(s)'
    <2>1. /\ r = s /\ pc[t] = "idle" /\ pc'[t] = "drop"
          /\ UNCHANGED <<sending, sendQ, packets>>
      BY <1>40, <1>a, <1>b DEF TakeDown
    <2>2. CASE UNCHANGED sendOps
      BY <1>c, <2>1, <2>2 DEF Senders
    <2>3. CASE sendOps[s] > 0 /\ sendOps'[s] = sendOps[s] - 1
      <3>1. sendOps[s] = 1 /\ At(s, Senders) = {}
        BY <1>b, <1>m, <2>3, OneAtMost DEF SendAt, Sends
      <3>2. Sends(s) = 1
        BY <3>1, FS_EmptySet DEF Sends
      <3>3. Present(t, s, Senders) = 0 /\ Present(t, s, Senders)' = 0
        BY <2>1 DEF Present, Senders
      <3>4. Sends(s)' = 0
        BY <1>m, <2>3, <3>1, <3>2, <3>3
      <3> QED
        BY <1>e, <3>4
    <2> QED
      BY <1>40, <1>a, <2>1, <2>2, <2>3 DEF TakeDown
  <1>41. ASSUME NEW i \in joined, Call(t, i)
        PROVE  SendAt(s)'
    <2>1. pc[t] \notin Senders /\ pc'[t] \notin Senders
      BY <1>41, <1>a, <1>b DEF Call, GetSessionIndex, Senders
    <2>2. UNCHANGED <<sendOps, sending, sendQ, packets>>
      BY <1>41 DEF Call, GetSessionIndex
    <2> QED
      BY <1>c, <2>1, <2>2
  <1> QED
    BY <1>1, <1>2, <1>3, <1>4, <1>5, <1>6, <1>7, <1>8, <1>9, <1>10, <1>11, <1>12,
       <1>13, <1>14, <1>15, <1>16, <1>17, <1>18, <1>19, <1>20, <1>21, <1>22, <1>23, <1>24,
       <1>25, <1>26, <1>27, <1>28, <1>29, <1>30, <1>31, <1>32, <1>33, <1>34, <1>35, <1>36,
       <1>37, <1>38, <1>39, <1>40, <1>41
       DEF StepAt, Acts, Step, AcceptStep, CompletionStep, CallStep, ReleaseStep, Take

\* A slot becomes free only by the step that pushes its index.
LEMMA FreeMoves ==
    ASSUME NEW t \in Threads, NEW s \in Slots, StepAt(t, s), NEW r \in Slots, Free(r)'
    PROVE  Free(r) \/ (r = s /\ PushIndex(t))
  <1>a. stack \in Seq(Slots)
    BY TypeFacts DEF StepAt
  <1>1. UNCHANGED stack \/ PopIndex(t) \/ PushIndex(t)
    BY DEF StepAt, Acts, Step, AcceptStep, CompletionStep, CallStep, ReleaseStep, Take, Accept, Call,
       InsertFields, InsertZero, InsertFlag, InsertOne, InsertCount, Associate, AssociateFailed,
       OnClientJoin, RecvComplete, SendComplete, SendCompleteFlag, PostRecvRef, PostRecv, PostSendTest,
       PostSendCas, PostSendRetest, PostSendReset, PostSendRef, PostSend, PostFailed, Drop,
       CheckReleased, CheckRef, CheckId, CheckReleasedAgain, Enqueue, Disconnect, ReleaseTest,
       ReleaseCas, ReleaseClose, OnClientLeave, ReleaseDrain, ReleaseClear, ReleaseCount,
       TakeRecv, TakeSend, TakeDown, tableVars
  <1>2. CASE UNCHANGED stack
    BY <1>2 DEF Free
  <1>3. CASE PopIndex(t)
    <2>1. stack' = Tail(stack) /\ stack # <<>>
      BY <1>3 DEF PopIndex
    <2>2. PICK i \in 1 .. Len(stack') : stack'[i] = r
      BY DEF Free
    <2>3. i + 1 \in 1 .. Len(stack) /\ stack[i + 1] = r
      BY <1>a, <2>1, <2>2
    <2> QED
      BY <2>3 DEF Free
  <1>4. CASE PushIndex(t)
    <2>1. slot[t] = s
      BY <1>4 DEF PushIndex, Goto, StepAt, Local
    <2>2. stack' = <<s>> \o stack
      BY <1>4, <2>1 DEF PushIndex
    <2>3. PICK i \in 1 .. Len(stack') : stack'[i] = r
      BY DEF Free
    <2>4. i = 1 => r = s
      BY <1>a, <2>2, <2>3
    <2>5. i # 1 => i - 1 \in 1 .. Len(stack) /\ stack[i - 1] = r
      BY <1>a, <2>2, <2>3
    <2> QED
      BY <1>4, <2>4, <2>5 DEF Free
  <1> QED
    BY <1>1, <1>2, <1>3, <1>4

\* A release leaves the slot clean, and nobody soils it before the next insertion.
LEMMA StepClean ==
    ASSUME NEW t \in Threads, NEW s \in Slots, StepAt(t, s), EventInv
    PROVE  CleanAt(s)'
  <1> USE DEF tableVars, refVars, connVars, sendVars, opVars, histVars, localVars, Goto
  <1>a. /\ pc \in [Threads -> Labels] /\ slot \in [Threads -> Slots \cup {NoSlot}]
        /\ DOMAIN id = Slots /\ DOMAIN sending = Slots /\ DOMAIN sendQ = Slots /\ DOMAIN packets = Slots
        /\ NoSlot \notin Slots
        /\ pc[t] \in AcceptorLabels => t = Acceptor
    BY TypeFacts DEF StepAt
  <1>b. /\ CleanAt(s)
        /\ slot[t] \in {s, NoSlot} /\ slot'[t] \in {s, NoSlot}
        /\ pc[t] \notin {"idle", "acPop"} => slot[t] = s
        /\ pc'[t] \notin {"idle", "acPop"} => slot'[t] = s
        /\ \A u \in Threads \ {t} : pc'[u] = pc[u] /\ slot'[u] = slot[u]
        /\ ret[t] = "idle"
    BY DEF StepAt, Local, RefInv, Whereabouts, EventInv
  <1>f. Free(s)' => Free(s) \/ (pc[t] = "relPush" /\ slot[t] = s)
    BY <1>b, FreeMoves DEF PushIndex
  \* A step that touches none of it.
  <1>c. ASSUME id'[s] = id[s], sending'[s] = sending[s], sendQ'[s] = sendQ[s] \/ sendQ'[s] = 0,
               packets'[s] = packets[s], pc'[t] \notin {"relClear", "relPush"} \/ sendQ'[s] = 0,
               pc'[t] # "relPush"
        PROVE  CleanAt(s)'
    BY <1>b, <1>c, <1>f DEF CleanAt
  \* What is done in a session that is live.
  <1>d. ASSUME slot[t] = s, pc[t] \notin Passive, pc'[t] \notin {"relClear", "relPush"}
        PROVE  CleanAt(s)'
    <2>1. ~released[s] /\ ~NeverUsed(s)
      BY <1>d DEF StepAt, RefInv, ClosedAt, NeverUsed, Passive, PreInsert, InsertLabels
    <2>2. ~Free(s) /\ \A u \in Threads : slot[u] = s => pc[u] \notin {"relClear", "relPush"}
      BY <2>1 DEF StepAt, TableInv, OwnerInv, Releasing, ReleaseBody
    <2>3. ~Free(s)'
      BY <1>d, <1>f, <2>2 DEF Passive, ReleaseLabels, ReleaseBody
    <2>4. \A u \in Threads : slot'[u] = s => pc'[u] \notin {"relClear", "relPush"}
      BY <1>b, <1>d, <2>2
    <2> QED
      BY <2>3, <2>4 DEF CleanAt
  <1>1. CASE PopIndex(t)
    <2>1. UNCHANGED <<id, sending, sendQ, packets>>
      BY <1>1 DEF PopIndex
    <2>2. pc'[t] \notin {"relClear", "relPush"}
      BY <1>1, <1>a, <1>b DEF PopIndex
    <2> QED
      BY <1>c, <2>1, <2>2
  <1>2. CASE InsertFields(t)
    <2>1. t = Acceptor /\ slot[t] = s /\ pc[t] = "acInit" /\ pc'[t] = "acZero"
      BY <1>2, <1>a, <1>b DEF InsertFields, AcceptorLabels, InsertLabels
    <2>2. ~Free(s)
      BY <2>1 DEF StepAt, TableInv, OwnerInv, PreInsert
    <2>3. ~Free(s)'
      BY <1>f, <2>1, <2>2
    <2>4. \A u \in Threads \ {t} : slot[u] = s => pc[u] = "relCount"
      BY <2>1 DEF StepAt, RefInv, Filling, InsertLabels
    <2> QED
      BY <1>b, <2>1, <2>3, <2>4 DEF CleanAt
  <1>3. CASE InsertZero(t)
    <2>1. UNCHANGED <<id, sending, sendQ, packets>>
      BY <1>3 DEF InsertZero
    <2>2. pc'[t] \notin {"relClear", "relPush"}
      BY <1>3, <1>a, <1>b DEF InsertZero
    <2> QED
      BY <1>c, <2>1, <2>2
  <1>4. CASE InsertFlag(t)
    <2>1. UNCHANGED <<id, sending, sendQ, packets>>
      BY <1>4 DEF InsertFlag
    <2>2. pc'[t] \notin {"relClear", "relPush"}
      BY <1>4, <1>a, <1>b DEF InsertFlag
    <2> QED
      BY <1>c, <2>1, <2>2
  <1>5. CASE InsertOne(t)
    <2>1. UNCHANGED <<id, sending, sendQ, packets>>
      BY <1>5 DEF InsertOne
    <2>2. pc'[t] \notin {"relClear", "relPush"}
      BY <1>5, <1>a, <1>b DEF InsertOne
    <2> QED
      BY <1>c, <2>1, <2>2
  <1>6. CASE InsertCount(t)
    <2>1. UNCHANGED <<id, sending, sendQ, packets>>
      BY <1>6 DEF InsertCount
    <2>2. pc'[t] \notin {"relClear", "relPush"}
      BY <1>6, <1>a, <1>b DEF InsertCount
    <2> QED
      BY <1>c, <2>1, <2>2
  <1>7. CASE Associate(t)
    <2>1. UNCHANGED <<id, sending, sendQ, packets>>
      BY <1>7 DEF Associate
    <2>2. pc'[t] \notin {"relClear", "relPush"}
      BY <1>7, <1>a, <1>b DEF Associate
    <2> QED
      BY <1>c, <2>1, <2>2
  <1>8. CASE AssociateFailed(t)
    <2>1. UNCHANGED <<id, sending, sendQ, packets>>
      BY <1>8 DEF AssociateFailed, Dec
    <2>2. pc'[t] \notin {"relClear", "relPush"}
      BY <1>8, <1>a, <1>b DEF AssociateFailed, Dec
    <2> QED
      BY <1>c, <2>1, <2>2
  <1>9. CASE OnClientJoin(t)
    <2>1. UNCHANGED <<id, sending, sendQ, packets>>
      BY <1>9 DEF OnClientJoin
    <2>2. pc'[t] \notin {"relClear", "relPush"}
      BY <1>9, <1>a, <1>b DEF OnClientJoin
    <2> QED
      BY <1>c, <2>1, <2>2
  <1>10. CASE RecvComplete(t)
    <2>1. UNCHANGED <<id, sending, sendQ, packets>>
      BY <1>10 DEF RecvComplete, DisconnectSession
    <2>2. pc'[t] \notin {"relClear", "relPush"}
      BY <1>10, <1>a, <1>b DEF RecvComplete, DisconnectSession
    <2> QED
      BY <1>c, <2>1, <2>2
  <1>11. CASE SendComplete(t)
    <2>1. slot[t] = s /\ pc[t] \notin Passive
      BY <1>11, <1>a, <1>b DEF SendComplete, Passive, CheckLabels, ReleaseLabels, ReleaseBody, InsertLabels
    <2>2. pc'[t] \notin {"relClear", "relPush"}
      BY <1>11, <1>a DEF SendComplete
    <2> QED
      BY <1>d, <2>1, <2>2
  <1>12. CASE SendCompleteFlag(t)
    <2>1. slot[t] = s /\ pc[t] \notin Passive
      BY <1>12, <1>a, <1>b DEF SendCompleteFlag, Passive, CheckLabels, ReleaseLabels, ReleaseBody, InsertLabels
    <2>2. pc'[t] \notin {"relClear", "relPush"}
      BY <1>12, <1>a DEF SendCompleteFlag
    <2> QED
      BY <1>d, <2>1, <2>2
  <1>13. CASE PostRecvRef(t)
    <2>1. UNCHANGED <<id, sending, sendQ, packets>>
      BY <1>13 DEF PostRecvRef, Inc
    <2>2. pc'[t] \notin {"relClear", "relPush"}
      BY <1>13, <1>a, <1>b DEF PostRecvRef, Inc
    <2> QED
      BY <1>c, <2>1, <2>2
  <1>14. CASE PostRecv(t)
    <2>1. UNCHANGED <<id, sending, sendQ, packets>>
      BY <1>14 DEF PostRecv
    <2>2. pc'[t] \notin {"relClear", "relPush"}
      BY <1>14, <1>a, <1>b DEF PostRecv
    <2> QED
      BY <1>c, <2>1, <2>2
  <1>15. CASE PostSendTest(t)
    <2>1. UNCHANGED <<id, sending, sendQ, packets>>
      BY <1>15 DEF PostSendTest
    <2>2. pc'[t] \notin {"relClear", "relPush"}
      BY <1>15, <1>a, <1>b DEF PostSendTest
    <2> QED
      BY <1>c, <2>1, <2>2
  <1>16. CASE PostSendCas(t)
    <2>1. slot[t] = s /\ pc[t] \notin Passive
      BY <1>16, <1>a, <1>b DEF PostSendCas, Passive, CheckLabels, ReleaseLabels, ReleaseBody, InsertLabels
    <2>2. pc'[t] \notin {"relClear", "relPush"}
      BY <1>16, <1>a DEF PostSendCas
    <2> QED
      BY <1>d, <2>1, <2>2
  <1>17. CASE PostSendRetest(t)
    <2>1. UNCHANGED <<id, sending, sendQ, packets>>
      BY <1>17 DEF PostSendRetest
    <2>2. pc'[t] \notin {"relClear", "relPush"}
      BY <1>17, <1>a, <1>b DEF PostSendRetest
    <2> QED
      BY <1>c, <2>1, <2>2
  <1>18. CASE PostSendReset(t)
    <2>1. slot[t] = s /\ pc[t] \notin Passive
      BY <1>18, <1>a, <1>b DEF PostSendReset, Passive, CheckLabels, ReleaseLabels, ReleaseBody, InsertLabels
    <2>2. pc'[t] \notin {"relClear", "relPush"}
      BY <1>18, <1>a DEF PostSendReset
    <2> QED
      BY <1>d, <2>1, <2>2
  <1>19. CASE PostSendRef(t)
    <2>1. slot[t] = s /\ pc[t] \notin Passive
      BY <1>19, <1>a, <1>b DEF PostSendRef, Inc, Passive, CheckLabels, ReleaseLabels, ReleaseBody, InsertLabels
    <2>2. pc'[t] \notin {"relClear", "relPush"}
      BY <1>19, <1>a DEF PostSendRef, Inc
    <2> QED
      BY <1>d, <2>1, <2>2
  <1>20. CASE PostSend(t)
    <2>1. UNCHANGED <<id, sending, sendQ, packets>>
      BY <1>20 DEF PostSend
    <2>2. pc'[t] \notin {"relClear", "relPush"}
      BY <1>20, <1>a, <1>b DEF PostSend
    <2> QED
      BY <1>c, <2>1, <2>2
  <1>21. CASE PostFailed(t)
    <2>1. UNCHANGED <<id, sending, sendQ, packets>>
      BY <1>21 DEF PostFailed, Dec
    <2>2. pc'[t] \notin {"relClear", "relPush"}
      BY <1>21, <1>a, <1>b DEF PostFailed, Dec
    <2> QED
      BY <1>c, <2>1, <2>2
  <1>22. CASE Drop(t)
    <2>1. UNCHANGED <<id, sending, sendQ, packets>>
      BY <1>22 DEF Drop, Forget, Dec
    <2>2. pc'[t] \notin {"relClear", "relPush"}
      BY <1>22, <1>a, <1>b DEF Drop, Forget, Dec
    <2> QED
      BY <1>c, <2>1, <2>2
  <1>23. CASE CheckReleased(t)
    <2>1. UNCHANGED <<id, sending, sendQ, packets>>
      BY <1>23 DEF CheckReleased, Forget
    <2>2. pc'[t] \notin {"relClear", "relPush"}
      BY <1>23, <1>a, <1>b DEF CheckReleased, Forget
    <2> QED
      BY <1>c, <2>1, <2>2
  <1>24. CASE CheckRef(t)
    <2>1. UNCHANGED <<id, sending, sendQ, packets>>
      BY <1>24 DEF CheckRef, Inc
    <2>2. pc'[t] \notin {"relClear", "relPush"}
      BY <1>24, <1>a, <1>b DEF CheckRef, Inc
    <2> QED
      BY <1>c, <2>1, <2>2
  <1>25. CASE CheckId(t)
    <2>1. UNCHANGED <<id, sending, sendQ, packets>>
      BY <1>25 DEF CheckId
    <2>2. pc'[t] \notin {"relClear", "relPush"}
      BY <1>25, <1>a, <1>b DEF CheckId
    <2> QED
      BY <1>c, <2>1, <2>2
  <1>26. CASE CheckReleasedAgain(t)
    <2>1. UNCHANGED <<id, sending, sendQ, packets>>
      BY <1>26 DEF CheckReleasedAgain
    <2>2. pc'[t] \notin {"relClear", "relPush"}
      BY <1>26, <1>a, <1>b DEF CheckReleasedAgain
    <2> QED
      BY <1>c, <2>1, <2>2
  <1>27. CASE Enqueue(t)
    <2>1. slot[t] = s /\ pc[t] \notin Passive
      BY <1>27, <1>a, <1>b DEF Enqueue, Passive, CheckLabels, ReleaseLabels, ReleaseBody, InsertLabels
    <2>2. pc'[t] \notin {"relClear", "relPush"}
      BY <1>27, <1>a DEF Enqueue
    <2> QED
      BY <1>d, <2>1, <2>2
  <1>28. CASE Disconnect(t)
    <2>1. UNCHANGED <<id, sending, sendQ, packets>>
      BY <1>28 DEF Disconnect, DisconnectSession
    <2>2. pc'[t] \notin {"relClear", "relPush"}
      BY <1>28, <1>a, <1>b DEF Disconnect, DisconnectSession
    <2> QED
      BY <1>c, <2>1, <2>2
  <1>29. CASE ReleaseTest(t)
    <2>1. UNCHANGED <<id, sending, sendQ, packets>>
      BY <1>29 DEF ReleaseTest, Forget, Return
    <2>2. pc'[t] \notin {"relClear", "relPush"}
      BY <1>29, <1>a, <1>b DEF ReleaseTest, Forget, Return
    <2> QED
      BY <1>c, <2>1, <2>2
  <1>30. CASE ReleaseCas(t)
    <2>1. UNCHANGED <<id, sending, sendQ, packets>>
      BY <1>30 DEF ReleaseCas, Forget, Return
    <2>2. pc'[t] \notin {"relClear", "relPush"}
      BY <1>30, <1>a, <1>b DEF ReleaseCas, Forget, Return
    <2> QED
      BY <1>c, <2>1, <2>2
  <1>31. CASE ReleaseClose(t)
    <2>1. UNCHANGED <<id, sending, sendQ, packets>>
      BY <1>31 DEF ReleaseClose, DisconnectSession
    <2>2. pc'[t] \notin {"relClear", "relPush"}
      BY <1>31, <1>a, <1>b DEF ReleaseClose, DisconnectSession
    <2> QED
      BY <1>c, <2>1, <2>2
  <1>32. CASE OnClientLeave(t)
    <2>1. UNCHANGED <<id, sending, sendQ, packets>>
      BY <1>32 DEF OnClientLeave
    <2>2. pc'[t] \notin {"relClear", "relPush"}
      BY <1>32, <1>a, <1>b DEF OnClientLeave
    <2> QED
      BY <1>c, <2>1, <2>2
  <1>33. CASE ReleaseDrain(t)
    <2>1. /\ slot[t] = s /\ pc'[t] = "relClear" /\ UNCHANGED <<id, sending, packets>> /\ sendQ'[s] = 0
      BY <1>33, <1>a, <1>b DEF ReleaseDrain
    <2> QED
      BY <1>c, <2>1
  <1>34. CASE ReleaseClear(t)
    <2>1. /\ slot[t] = s /\ pc[t] = "relClear"
          /\ id'[s] = NoId /\ sending'[s] = FALSE /\ packets'[s] = 0 /\ sendQ' = sendQ
      BY <1>34, <1>a, <1>b DEF ReleaseClear
    <2>2. sendQ'[s] = 0
      BY <1>b, <2>1 DEF CleanAt
    <2> QED
      BY <2>1, <2>2 DEF CleanAt
  <1>35. CASE PushIndex(t)
    <2>1. UNCHANGED <<id, sending, sendQ, packets>>
      BY <1>35 DEF PushIndex
    <2>2. pc'[t] \notin {"relClear", "relPush"}
      BY <1>35, <1>a, <1>b DEF PushIndex
    <2> QED
      BY <1>c, <2>1, <2>2
  <1>36. CASE ReleaseCount(t)
    <2>1. UNCHANGED <<id, sending, sendQ, packets>>
      BY <1>36 DEF ReleaseCount, Forget, Return
    <2>2. pc'[t] \notin {"relClear", "relPush"}
      BY <1>36, <1>a, <1>b DEF ReleaseCount, Forget, Return
    <2> QED
      BY <1>c, <2>1, <2>2
  <1>37. CASE Accept(t)
    <2>1. UNCHANGED <<id, sending, sendQ, packets>>
      BY <1>37 DEF Accept
    <2>2. pc'[t] \notin {"relClear", "relPush"}
      BY <1>37, <1>a, <1>b DEF Accept
    <2> QED
      BY <1>c, <2>1, <2>2
  <1>38. ASSUME NEW r \in Slots, TakeRecv(t, r)
        PROVE  CleanAt(s)'
    <2>1. UNCHANGED <<id, sending, sendQ, packets>>
      BY <1>38 DEF TakeRecv
    <2>2. pc'[t] \notin {"relClear", "relPush"}
      BY <1>38, <1>a, <1>b DEF TakeRecv
    <2> QED
      BY <1>c, <2>1, <2>2
  <1>39. ASSUME NEW r \in Slots, TakeSend(t, r)
        PROVE  CleanAt(s)'
    <2>1. UNCHANGED <<id, sending, sendQ, packets>>
      BY <1>39 DEF TakeSend
    <2>2. pc'[t] \notin {"relClear", "relPush"}
      BY <1>39, <1>a, <1>b DEF TakeSend
    <2> QED
      BY <1>c, <2>1, <2>2
  <1>40. ASSUME NEW r \in Slots, TakeDown(t, r)
        PROVE  CleanAt(s)'
    <2>1. UNCHANGED <<id, sending, sendQ, packets>>
      BY <1>40 DEF TakeDown
    <2>2. pc'[t] \notin {"relClear", "relPush"}
      BY <1>40, <1>a, <1>b DEF TakeDown
    <2> QED
      BY <1>c, <2>1, <2>2
  <1>41. ASSUME NEW i \in joined, Call(t, i)
        PROVE  CleanAt(s)'
    <2>1. UNCHANGED <<id, sending, sendQ, packets>>
      BY <1>41 DEF Call, GetSessionIndex
    <2>2. pc'[t] \notin {"relClear", "relPush"}
      BY <1>41, <1>a, <1>b DEF Call, GetSessionIndex
    <2> QED
      BY <1>c, <2>1, <2>2
  <1> QED
    BY <1>1, <1>2, <1>3, <1>4, <1>5, <1>6, <1>7, <1>8, <1>9, <1>10, <1>11, <1>12,
       <1>13, <1>14, <1>15, <1>16, <1>17, <1>18, <1>19, <1>20, <1>21, <1>22, <1>23, <1>24,
       <1>25, <1>26, <1>27, <1>28, <1>29, <1>30, <1>31, <1>32, <1>33, <1>34, <1>35, <1>36,
       <1>37, <1>38, <1>39, <1>40, <1>41
       DEF StepAt, Acts, Step, AcceptStep, CompletionStep, CallStep, ReleaseStep, Take

\* OnClientLeave is called once per session, at the end.
LEMMA StepGone ==
    ASSUME NEW t \in Threads, NEW s \in Slots, StepAt(t, s), EventInv
    PROVE  GoneAt(s)'
  <1> USE DEF tableVars, refVars, connVars, sendVars, opVars, histVars, localVars, Goto
  <1>a. /\ pc \in [Threads -> Labels] /\ slot \in [Threads -> Slots \cup {NoSlot}]
        /\ DOMAIN id = Slots /\ DOMAIN released = Slots /\ lastId \in Nat
        /\ NoSlot \notin Slots
        /\ pc[t] \in AcceptorLabels => t = Acceptor
    BY TypeFacts DEF StepAt
  <1>b. /\ GoneAt(s) /\ ret[t] = "idle"
        /\ slot[t] \in {s, NoSlot} /\ slot'[t] \in {s, NoSlot}
        /\ pc[t] \notin {"idle", "acPop"} => slot[t] = s
        /\ \A u \in Threads \ {t} : pc'[u] = pc[u] /\ slot'[u] = slot[u]
    BY DEF StepAt, Local, RefInv, Whereabouts, EventInv
  <1>n. /\ NoId \notin gone
        /\ \A n \in Nat : CreateSessionID(n, s) \in gone => n \in 1 .. lastId
    <2>1. \A i \in gone : i.id \in 1 .. lastId
      BY DEF StepAt, RefInv, Numbered
    <2>2. NoId.id = -1 /\ \A n : CreateSessionID(n, s).id = n
      BY DEF NoId, CreateSessionID
    <2>3. -1 \notin 1 .. lastId
      BY <1>a
    <2> QED
      BY <2>1, <2>2, <2>3
  <1>c. ASSUME gone' = gone, id'[s] = id[s], released[s] => released'[s],
               pc'[t] \notin {"relClose", "relLeave"} \/ (slot[t] = s /\ pc[t] = "relClose")
        PROVE  GoneAt(s)'
    BY <1>b, <1>c DEF GoneAt
  <1>d. ASSUME gone' = gone, id'[s] \notin gone
        PROVE  GoneAt(s)'
    BY <1>d DEF GoneAt
  <1>1. CASE PopIndex(t)
    <2>1. UNCHANGED <<gone, id, released>>
      BY <1>1 DEF PopIndex
    <2>2. pc'[t] \notin {"relClose", "relLeave"}
      BY <1>1, <1>a, <1>b DEF PopIndex
    <2> QED
      BY <1>c, <2>1, <2>2
  <1>2. CASE InsertFields(t)
    <2>1. /\ slot[t] = s /\ gone' = gone /\ id'[s] = CreateSessionID(lastId + 1, s)
      BY <1>2, <1>a, <1>b DEF InsertFields
    <2>2. lastId + 1 \in Nat /\ lastId + 1 \notin 1 .. lastId
      BY <1>a
    <2> QED
      BY <1>d, <1>n, <2>1, <2>2
  <1>3. CASE InsertZero(t)
    <2>1. UNCHANGED <<gone, id, released>>
      BY <1>3 DEF InsertZero
    <2>2. pc'[t] \notin {"relClose", "relLeave"}
      BY <1>3, <1>a, <1>b DEF InsertZero
    <2> QED
      BY <1>c, <2>1, <2>2
  <1>4. CASE InsertFlag(t)
    <2>1. t = Acceptor /\ pc[t] = "acFlag" /\ slot[t] = s /\ gone' = gone /\ id' = id
      BY <1>4, <1>b, TypeFacts DEF InsertFlag, AcceptorLabels, InsertLabels, StepAt
    <2>2. id[s] = CreateSessionID(lastId, s) /\ \A i \in gone : i.id # lastId
      BY <2>1 DEF StepAt, RefInv, Numbered, BeforeJoin
    <2>3. id[s].id = lastId
      BY <2>2 DEF CreateSessionID
    <2> QED
      BY <1>d, <2>1, <2>2, <2>3
  <1>5. CASE InsertOne(t)
    <2>1. UNCHANGED <<gone, id, released>>
      BY <1>5 DEF InsertOne
    <2>2. pc'[t] \notin {"relClose", "relLeave"}
      BY <1>5, <1>a, <1>b DEF InsertOne
    <2> QED
      BY <1>c, <2>1, <2>2
  <1>6. CASE InsertCount(t)
    <2>1. UNCHANGED <<gone, id, released>>
      BY <1>6 DEF InsertCount
    <2>2. pc'[t] \notin {"relClose", "relLeave"}
      BY <1>6, <1>a, <1>b DEF InsertCount
    <2> QED
      BY <1>c, <2>1, <2>2
  <1>7. CASE Associate(t)
    <2>1. UNCHANGED <<gone, id, released>>
      BY <1>7 DEF Associate
    <2>2. pc'[t] \notin {"relClose", "relLeave"}
      BY <1>7, <1>a, <1>b DEF Associate
    <2> QED
      BY <1>c, <2>1, <2>2
  <1>8. CASE AssociateFailed(t)
    <2>1. UNCHANGED <<gone, id, released>>
      BY <1>8 DEF AssociateFailed, Dec
    <2>2. pc'[t] \notin {"relClose", "relLeave"}
      BY <1>8, <1>a, <1>b DEF AssociateFailed, Dec
    <2> QED
      BY <1>c, <2>1, <2>2
  <1>9. CASE OnClientJoin(t)
    <2>1. UNCHANGED <<gone, id, released>>
      BY <1>9 DEF OnClientJoin
    <2>2. pc'[t] \notin {"relClose", "relLeave"}
      BY <1>9, <1>a, <1>b DEF OnClientJoin
    <2> QED
      BY <1>c, <2>1, <2>2
  <1>10. CASE RecvComplete(t)
    <2>1. UNCHANGED <<gone, id, released>>
      BY <1>10 DEF RecvComplete, DisconnectSession
    <2>2. pc'[t] \notin {"relClose", "relLeave"}
      BY <1>10, <1>a, <1>b DEF RecvComplete, DisconnectSession
    <2> QED
      BY <1>c, <2>1, <2>2
  <1>11. CASE SendComplete(t)
    <2>1. UNCHANGED <<gone, id, released>>
      BY <1>11 DEF SendComplete
    <2>2. pc'[t] \notin {"relClose", "relLeave"}
      BY <1>11, <1>a, <1>b DEF SendComplete
    <2> QED
      BY <1>c, <2>1, <2>2
  <1>12. CASE SendCompleteFlag(t)
    <2>1. UNCHANGED <<gone, id, released>>
      BY <1>12 DEF SendCompleteFlag
    <2>2. pc'[t] \notin {"relClose", "relLeave"}
      BY <1>12, <1>a, <1>b DEF SendCompleteFlag
    <2> QED
      BY <1>c, <2>1, <2>2
  <1>13. CASE PostRecvRef(t)
    <2>1. UNCHANGED <<gone, id, released>>
      BY <1>13 DEF PostRecvRef, Inc
    <2>2. pc'[t] \notin {"relClose", "relLeave"}
      BY <1>13, <1>a, <1>b DEF PostRecvRef, Inc
    <2> QED
      BY <1>c, <2>1, <2>2
  <1>14. CASE PostRecv(t)
    <2>1. UNCHANGED <<gone, id, released>>
      BY <1>14 DEF PostRecv
    <2>2. pc'[t] \notin {"relClose", "relLeave"}
      BY <1>14, <1>a, <1>b DEF PostRecv
    <2> QED
      BY <1>c, <2>1, <2>2
  <1>15. CASE PostSendTest(t)
    <2>1. UNCHANGED <<gone, id, released>>
      BY <1>15 DEF PostSendTest
    <2>2. pc'[t] \notin {"relClose", "relLeave"}
      BY <1>15, <1>a, <1>b DEF PostSendTest
    <2> QED
      BY <1>c, <2>1, <2>2
  <1>16. CASE PostSendCas(t)
    <2>1. UNCHANGED <<gone, id, released>>
      BY <1>16 DEF PostSendCas
    <2>2. pc'[t] \notin {"relClose", "relLeave"}
      BY <1>16, <1>a, <1>b DEF PostSendCas
    <2> QED
      BY <1>c, <2>1, <2>2
  <1>17. CASE PostSendRetest(t)
    <2>1. UNCHANGED <<gone, id, released>>
      BY <1>17 DEF PostSendRetest
    <2>2. pc'[t] \notin {"relClose", "relLeave"}
      BY <1>17, <1>a, <1>b DEF PostSendRetest
    <2> QED
      BY <1>c, <2>1, <2>2
  <1>18. CASE PostSendReset(t)
    <2>1. UNCHANGED <<gone, id, released>>
      BY <1>18 DEF PostSendReset
    <2>2. pc'[t] \notin {"relClose", "relLeave"}
      BY <1>18, <1>a, <1>b DEF PostSendReset
    <2> QED
      BY <1>c, <2>1, <2>2
  <1>19. CASE PostSendRef(t)
    <2>1. UNCHANGED <<gone, id, released>>
      BY <1>19 DEF PostSendRef, Inc
    <2>2. pc'[t] \notin {"relClose", "relLeave"}
      BY <1>19, <1>a, <1>b DEF PostSendRef, Inc
    <2> QED
      BY <1>c, <2>1, <2>2
  <1>20. CASE PostSend(t)
    <2>1. UNCHANGED <<gone, id, released>>
      BY <1>20 DEF PostSend
    <2>2. pc'[t] \notin {"relClose", "relLeave"}
      BY <1>20, <1>a, <1>b DEF PostSend
    <2> QED
      BY <1>c, <2>1, <2>2
  <1>21. CASE PostFailed(t)
    <2>1. UNCHANGED <<gone, id, released>>
      BY <1>21 DEF PostFailed, Dec
    <2>2. pc'[t] \notin {"relClose", "relLeave"}
      BY <1>21, <1>a, <1>b DEF PostFailed, Dec
    <2> QED
      BY <1>c, <2>1, <2>2
  <1>22. CASE Drop(t)
    <2>1. UNCHANGED <<gone, id, released>>
      BY <1>22 DEF Drop, Forget, Dec
    <2>2. pc'[t] \notin {"relClose", "relLeave"}
      BY <1>22, <1>a, <1>b DEF Drop, Forget, Dec
    <2> QED
      BY <1>c, <2>1, <2>2
  <1>23. CASE CheckReleased(t)
    <2>1. UNCHANGED <<gone, id, released>>
      BY <1>23 DEF CheckReleased, Forget
    <2>2. pc'[t] \notin {"relClose", "relLeave"}
      BY <1>23, <1>a, <1>b DEF CheckReleased, Forget
    <2> QED
      BY <1>c, <2>1, <2>2
  <1>24. CASE CheckRef(t)
    <2>1. UNCHANGED <<gone, id, released>>
      BY <1>24 DEF CheckRef, Inc
    <2>2. pc'[t] \notin {"relClose", "relLeave"}
      BY <1>24, <1>a, <1>b DEF CheckRef, Inc
    <2> QED
      BY <1>c, <2>1, <2>2
  <1>25. CASE CheckId(t)
    <2>1. UNCHANGED <<gone, id, released>>
      BY <1>25 DEF CheckId
    <2>2. pc'[t] \notin {"relClose", "relLeave"}
      BY <1>25, <1>a, <1>b DEF CheckId
    <2> QED
      BY <1>c, <2>1, <2>2
  <1>26. CASE CheckReleasedAgain(t)
    <2>1. UNCHANGED <<gone, id, released>>
      BY <1>26 DEF CheckReleasedAgain
    <2>2. pc'[t] \notin {"relClose", "relLeave"}
      BY <1>26, <1>a, <1>b DEF CheckReleasedAgain
    <2> QED
      BY <1>c, <2>1, <2>2
  <1>27. CASE Enqueue(t)
    <2>1. UNCHANGED <<gone, id, released>>
      BY <1>27 DEF Enqueue
    <2>2. pc'[t] \notin {"relClose", "relLeave"}
      BY <1>27, <1>a, <1>b DEF Enqueue
    <2> QED
      BY <1>c, <2>1, <2>2
  <1>28. CASE Disconnect(t)
    <2>1. UNCHANGED <<gone, id, released>>
      BY <1>28 DEF Disconnect, DisconnectSession
    <2>2. pc'[t] \notin {"relClose", "relLeave"}
      BY <1>28, <1>a, <1>b DEF Disconnect, DisconnectSession
    <2> QED
      BY <1>c, <2>1, <2>2
  <1>29. CASE ReleaseTest(t)
    <2>1. UNCHANGED <<gone, id, released>>
      BY <1>29 DEF ReleaseTest, Forget, Return
    <2>2. pc'[t] \notin {"relClose", "relLeave"}
      BY <1>29, <1>a, <1>b DEF ReleaseTest, Forget, Return
    <2> QED
      BY <1>c, <2>1, <2>2
  <1>30. CASE ReleaseCas(t)
    <2>1. gone' = gone /\ id' = id /\ slot[t] = s
      BY <1>30, <1>b DEF ReleaseCas, Return
    <2>2. CASE ~released[s]
      BY <1>b, <1>d, <2>1, <2>2 DEF GoneAt
    <2>3. CASE released[s]
      <3>1. pc'[t] = "idle" /\ released' = released
        BY <1>30, <1>a, <1>b, <2>1, <2>3 DEF ReleaseCas, Return
      <3> QED
        BY <1>c, <2>1, <3>1
    <2> QED
      BY <2>2, <2>3
  <1>31. CASE ReleaseClose(t)
    <2>1. UNCHANGED <<gone, id, released>> /\ slot[t] = s /\ pc[t] = "relClose"
      BY <1>31, <1>b DEF ReleaseClose
    <2> QED
      BY <1>c, <2>1
  <1>32. CASE OnClientLeave(t)
    <2>1. /\ slot[t] = s /\ pc[t] = "relLeave" /\ pc'[t] = "relDrain" /\ UNCHANGED <<id, released>>
      BY <1>32, <1>a, <1>b DEF OnClientLeave
    <2>2. released[s] /\ \A u \in Threads : Releasing(u) /\ slot[u] = s => u = t
      BY <2>1 DEF StepAt, TableInv, OwnerInv, SingleRelease, Releasing, ReleaseBody
    <2>3. \A u \in Threads : slot'[u] = s => pc'[u] \notin {"relClose", "relLeave"}
      BY <1>b, <2>1, <2>2 DEF Releasing, ReleaseBody
    <2> QED
      BY <2>1, <2>2, <2>3 DEF GoneAt
  <1>33. CASE ReleaseDrain(t)
    <2>1. UNCHANGED <<gone, id, released>>
      BY <1>33 DEF ReleaseDrain
    <2>2. pc'[t] \notin {"relClose", "relLeave"}
      BY <1>33, <1>a, <1>b DEF ReleaseDrain
    <2> QED
      BY <1>c, <2>1, <2>2
  <1>34. CASE ReleaseClear(t)
    <2>1. slot[t] = s /\ gone' = gone /\ id'[s] = NoId
      BY <1>34, <1>a, <1>b DEF ReleaseClear
    <2> QED
      BY <1>d, <1>n, <2>1
  <1>35. CASE PushIndex(t)
    <2>1. UNCHANGED <<gone, id, released>>
      BY <1>35 DEF PushIndex
    <2>2. pc'[t] \notin {"relClose", "relLeave"}
      BY <1>35, <1>a, <1>b DEF PushIndex
    <2> QED
      BY <1>c, <2>1, <2>2
  <1>36. CASE ReleaseCount(t)
    <2>1. UNCHANGED <<gone, id, released>>
      BY <1>36 DEF ReleaseCount, Forget, Return
    <2>2. pc'[t] \notin {"relClose", "relLeave"}
      BY <1>36, <1>a, <1>b DEF ReleaseCount, Forget, Return
    <2> QED
      BY <1>c, <2>1, <2>2
  <1>37. CASE Accept(t)
    <2>1. UNCHANGED <<gone, id, released>>
      BY <1>37 DEF Accept
    <2>2. pc'[t] \notin {"relClose", "relLeave"}
      BY <1>37, <1>a, <1>b DEF Accept
    <2> QED
      BY <1>c, <2>1, <2>2
  <1>38. ASSUME NEW r \in Slots, TakeRecv(t, r)
        PROVE  GoneAt(s)'
    <2>1. UNCHANGED <<gone, id, released>>
      BY <1>38 DEF TakeRecv
    <2>2. pc'[t] \notin {"relClose", "relLeave"}
      BY <1>38, <1>a, <1>b DEF TakeRecv
    <2> QED
      BY <1>c, <2>1, <2>2
  <1>39. ASSUME NEW r \in Slots, TakeSend(t, r)
        PROVE  GoneAt(s)'
    <2>1. UNCHANGED <<gone, id, released>>
      BY <1>39 DEF TakeSend
    <2>2. pc'[t] \notin {"relClose", "relLeave"}
      BY <1>39, <1>a, <1>b DEF TakeSend
    <2> QED
      BY <1>c, <2>1, <2>2
  <1>40. ASSUME NEW r \in Slots, TakeDown(t, r)
        PROVE  GoneAt(s)'
    <2>1. UNCHANGED <<gone, id, released>>
      BY <1>40 DEF TakeDown
    <2>2. pc'[t] \notin {"relClose", "relLeave"}
      BY <1>40, <1>a, <1>b DEF TakeDown
    <2> QED
      BY <1>c, <2>1, <2>2
  <1>41. ASSUME NEW i \in joined, Call(t, i)
        PROVE  GoneAt(s)'
    <2>1. UNCHANGED <<gone, id, released>>
      BY <1>41 DEF Call, GetSessionIndex
    <2>2. pc'[t] \notin {"relClose", "relLeave"}
      BY <1>41, <1>a, <1>b DEF Call, GetSessionIndex
    <2> QED
      BY <1>c, <2>1, <2>2
  <1> QED
    BY <1>1, <1>2, <1>3, <1>4, <1>5, <1>6, <1>7, <1>8, <1>9, <1>10, <1>11, <1>12,
       <1>13, <1>14, <1>15, <1>16, <1>17, <1>18, <1>19, <1>20, <1>21, <1>22, <1>23, <1>24,
       <1>25, <1>26, <1>27, <1>28, <1>29, <1>30, <1>31, <1>32, <1>33, <1>34, <1>35, <1>36,
       <1>37, <1>38, <1>39, <1>40, <1>41
       DEF StepAt, Acts, Step, AcceptStep, CompletionStep, CallStep, ReleaseStep, Take

\* Another slot keeps all four.
LEMMA OtherSlotEvents ==
    ASSUME NEW t \in Threads, NEW s \in Slots, StepAt(t, s), EventInv, NEW r \in Slots, r # s
    PROVE  ReceiveAt(r)' /\ SendAt(r)' /\ CleanAt(r)' /\ GoneAt(r)'
  <1>a. /\ \A u \in Threads : slot'[u] = r <=> slot[u] = r
        /\ \A u \in Threads : slot[u] = r => u # t /\ pc'[u] = pc[u]
        /\ \A L : At(r, L)' = At(r, L)
    BY OtherSlot
  <1>b. /\ id'[r] = id[r] /\ released'[r] = released[r]
        /\ sending'[r] = sending[r] /\ sendQ'[r] = sendQ[r] /\ packets'[r] = packets[r]
        /\ recvOps'[r] = recvOps[r] /\ sendOps'[r] = sendOps[r]
    BY DEF StepAt, Local
  <1>c. ReceiveAt(r) /\ SendAt(r) /\ CleanAt(r) /\ GoneAt(r)
    BY DEF EventInv
  <1>d. Acceptor \in Threads
    BY TypeFacts DEF StepAt
  <1>1. ReceiveAt(r)'
    <2>1. Receiving(r)' = Receiving(r)
      BY <1>a, <1>b DEF Receiving
    <2>2. joined \subseteq joined'
      BY JoinedStays DEF StepAt
    <2> QED
      BY <1>a, <1>b, <1>c, <1>d, <2>1, <2>2 DEF ReceiveAt
  <1>2. SendAt(r)'
    <2>1. Sends(r)' = Sends(r)
      BY <1>a, <1>b DEF Sends
    <2> QED
      BY <1>a, <1>b, <1>c, <2>1 DEF SendAt
  <1>3. CleanAt(r)'
    <2>1. Free(r)' => Free(r)
      BY FreeMoves
    <2> QED
      BY <1>a, <1>b, <1>c, <2>1 DEF CleanAt
  <1>4. GoneAt(r)'
    <2> SUFFICES ASSUME id[r] \in gone' PROVE GoneAt(r)'
      BY <1>b DEF GoneAt
    <2>1. CASE id[r] \in gone
      BY <1>a, <1>b, <1>c, <2>1 DEF GoneAt
    <2>2. CASE id[r] \notin gone
      <3>1. id[r] = id[s] /\ OnClientLeave(t)
        BY <2>2, GoneMoves
      <3>2. id[s] # NoId
        BY <3>1 DEF StepAt, Local, RefInv, NamedAt, Leaving, OnClientLeave, Goto
      <3>3. r = s
        BY <3>1, <3>2 DEF StepAt, RefInv, Numbered
      <3> QED
        BY <3>3
    <2> QED
      BY <2>1, <2>2
  <1> QED
    BY <1>1, <1>2, <1>3, <1>4

LEMMA InitEvents == Init => EventInv
  <1> SUFFICES ASSUME Init, NEW s \in Slots
               PROVE  ReceiveAt(s) /\ SendAt(s) /\ CleanAt(s) /\ GoneAt(s)
    BY DEF EventInv
  <1>1. /\ \A t \in Threads : slot[t] # s
        /\ id[s] = NoId /\ ~sending[s] /\ sendQ[s] = 0 /\ packets[s] = 0
        /\ recvOps[s] = 0 /\ sendOps[s] = 0 /\ gone = {}
        /\ Acceptor \in Threads
    BY ThreadFacts, SlotsAssumption DEF Init, NoSlot, Slots
  <1>2. At(s, Receivers) = {} /\ At(s, Senders) = {}
    BY <1>1 DEF At
  <1>3. Receiving(s) = 0 /\ Sends(s) = 0
    BY <1>1, <1>2, FS_EmptySet DEF Receiving, Sends
  <1> QED
    BY <1>1, <1>3 DEF ReceiveAt, SendAt, CleanAt, GoneAt

LEMMA EventAct ==
    ASSUME WindowClosed, TypeInv, TableInv, RefInv, EventInv, TypeInv', TableInv', NEW t \in Threads, Acts(t)
    PROVE  EventInv'
  <1>1. PICK s \in Slots : Local(t, s)
    BY Locality DEF RefInv
  <1>2. StepAt(t, s)
    BY <1>1 DEF StepAt
  <1>3. ASSUME NEW r \in Slots PROVE (ReceiveAt(r) /\ SendAt(r) /\ CleanAt(r) /\ GoneAt(r))'
    <2>1. CASE r = s
      BY <1>2, <2>1, StepReceive, StepSend, StepClean, StepGone
    <2>2. CASE r # s
      BY <1>2, <2>2, OtherSlotEvents
    <2> QED
      BY <2>1, <2>2
  <1> QED
    BY <1>3 DEF EventInv

LEMMA EventStill ==
    ASSUME EventInv, UNCHANGED vars
    PROVE  EventInv'
  <1> USE DEF vars, tableVars, refVars, connVars, sendVars, opVars, histVars, localVars
  <1> SUFFICES ASSUME NEW r \in Slots
               PROVE  (ReceiveAt(r) /\ SendAt(r) /\ CleanAt(r) /\ GoneAt(r))'
    BY DEF EventInv
  <1>1. /\ At(r, Receivers)' = At(r, Receivers) /\ At(r, Senders)' = At(r, Senders)
        /\ Free(r)' = Free(r)
    BY DEF At, Free
  <1>2. Receiving(r)' = Receiving(r) /\ Sends(r)' = Sends(r)
    BY <1>1 DEF Receiving, Sends
  <1>3. ReceiveAt(r) /\ SendAt(r) /\ CleanAt(r) /\ GoneAt(r)
    BY DEF EventInv
  <1> QED
    BY <1>1, <1>2, <1>3 DEF ReceiveAt, SendAt, CleanAt, GoneAt

LEMMA EventStep ==
    ASSUME WindowClosed
    PROVE  TypeInv /\ TableInv /\ RefInv /\ EventInv /\ [Next]_vars => EventInv'
  <1> SUFFICES ASSUME TypeInv, TableInv, RefInv, EventInv, [Next]_vars PROVE EventInv'
    OBVIOUS
  <1>1. TypeInv' /\ TableInv'
    BY TypeStep, TableStep
  <1>2. CASE Next
    <2>1. PICK t \in Threads : Acts(t)
      BY <1>2 DEF Next, Acts
    <2> QED
      BY <1>1, <2>1, EventAct
  <1>3. CASE UNCHANGED vars
    BY <1>3, EventStill
  <1> QED
    BY <1>2, <1>3

\* The whole inductive invariant.
SessionInv == TypeInv /\ TableInv /\ RefInv /\ EventInv

LEMMA AlwaysSession ==
    ASSUME WindowClosed
    PROVE  Spec => []SessionInv
  <1>1. TypeInv /\ TableInv /\ RefInv /\ EventInv /\ [Next]_vars => EventInv'
    BY EventStep
  <1> QED
    BY <1>1, InitEvents, AlwaysRef, PTL DEF Spec, SessionInv

\* RecvOverlapped and SendOverlapped of a session are never in use twice, and the packets
\* SendComplete will remove are those the WSASend carried.
THEOREM OverlappedOnce ==
    ASSUME WindowClosed
    PROVE  Spec => []OneOverlapped
  <1>1. SessionInv => OneOverlapped
    <2> SUFFICES ASSUME SessionInv, NEW s \in Slots
                 PROVE  /\ recvOps[s] + Cardinality(At(s, {"prPost", "prRecv"})) <= 1
                        /\ sendOps[s] + Cardinality(At(s, {"psPost", "psSend"})) <= 1
                        /\ (sendOps[s] > 0 \/ \E t \in Threads : slot[t] = s /\ pc[t] \in {"psSend", "scDone"}) =>
                              sending[s] /\ packets[s] \in 1 .. sendQ[s]
      BY DEF OneOverlapped, At
    <2>1. ReceiveAt(s) /\ SendAt(s) /\ recvOps[s] \in Nat /\ sendOps[s] \in Nat
      BY TypeFacts DEF SessionInv, EventInv
    <2>2. /\ IsFiniteSet(At(s, Receivers)) /\ IsFiniteSet(At(s, Senders))
          /\ At(s, {"prPost", "prRecv"}) \subseteq At(s, Receivers)
          /\ At(s, {"psPost", "psSend"}) \subseteq At(s, Senders)
      BY ThreadFacts, FS_Subset DEF At, Receivers, Senders
    <2>3. /\ Cardinality(At(s, {"prPost", "prRecv"})) <= Cardinality(At(s, Receivers))
          /\ Cardinality(At(s, {"psPost", "psSend"})) <= Cardinality(At(s, Senders))
      BY <2>2, FS_Subset
    <2>4. /\ Cardinality(At(s, {"prPost", "prRecv"})) \in Nat /\ Cardinality(At(s, Receivers)) \in Nat
          /\ Cardinality(At(s, {"psPost", "psSend"})) \in Nat /\ Cardinality(At(s, Senders)) \in Nat
      BY AtFinite
    <2>5. recvOps[s] + Cardinality(At(s, {"prPost", "prRecv"})) <= 1
      BY <2>1, <2>3, <2>4 DEF ReceiveAt, Receiving
    <2>6. sendOps[s] + Cardinality(At(s, {"psPost", "psSend"})) <= 1
      BY <2>1, <2>3, <2>4 DEF SendAt, Sends
    <2>7. (sendOps[s] > 0 \/ \E t \in Threads : slot[t] = s /\ pc[t] \in {"psSend", "scDone"}) => sending[s]
      <3>1. (\E t \in Threads : slot[t] = s /\ pc[t] \in {"psSend", "scDone"}) => At(s, Senders) # {}
        BY DEF At, Senders
      <3>2. At(s, Senders) # {} => Cardinality(At(s, Senders)) # 0
        BY AtFinite
      <3>3. sendOps[s] > 0 \/ Cardinality(At(s, Senders)) # 0 => Sends(s) > 0
        BY <2>1, <2>4 DEF Sends
      <3> QED
        BY <2>1, <3>1, <3>2, <3>3 DEF SendAt
    <2> QED
      BY <2>1, <2>5, <2>6, <2>7 DEF SendAt
  <1> QED
    BY <1>1, AlwaysSession, PTL

\* A slot on the index stack is as its last owner's release left it: clean.
THEOREM FreeSlotsClean ==
    ASSUME WindowClosed
    PROVE  Spec => []FreeSlotIsClean
  <1>1. SessionInv => FreeSlotIsClean
    <2> SUFFICES ASSUME SessionInv, NEW s \in Slots, Free(s)
                 PROVE  /\ id[s] = NoId /\ sock[s] = "invalid"
                        /\ ~sending[s] /\ sendQ[s] = 0 /\ packets[s] = 0
                        /\ recvOps[s] = 0 /\ sendOps[s] = 0
      BY DEF FreeSlotIsClean
    <2>1. id[s] = NoId /\ ~sending[s] /\ sendQ[s] = 0 /\ packets[s] = 0
      BY DEF SessionInv, EventInv, CleanAt
    <2>2. sock[s] = "invalid"
      BY <2>1 DEF SessionInv, RefInv, NamedAt
    <2>3. recvOps[s] = 0 /\ sendOps[s] = 0
      BY DEF SessionInv, TableInv, OwnerInv, RefInv, ClosedAt, NeverUsed
    <2> QED
      BY <2>1, <2>2, <2>3
  <1> QED
    BY <1>1, AlwaysSession, PTL

-----------------------------------------------------------------------------
(* The callbacks implement SessionEvents.                                  *)

\* The workers inside OnRecv, and the ids they handle.
Handling == {w \in Workers : pc[w] = "rcOn"}
Serving  == {id[slot[t]] : t \in Handling}

\* Who is served has joined, is not gone, and is served by one worker.
LEMMA ServingFacts ==
    ASSUME SessionInv
    PROVE  /\ \A s \in Slots : id[s] # NoId => \E n \in 1 .. MaxSessions : id[s] = CreateSessionID(n, s)
           /\ \A u \in Handling : /\ u \in Threads /\ slot[u] \in Slots /\ ~released[slot[u]]
                                  /\ recvOps[slot[u]] = 0 /\ At(slot[u], Receivers) = {u}
                                  /\ id[slot[u]] \in joined /\ id[slot[u]] \notin gone /\ id[slot[u]] # NoId
           /\ \A u, v \in Handling : id[slot[u]] = id[slot[v]] => u = v
  <1>1. \A s \in Slots : id[s] # NoId => \E n \in 1 .. MaxSessions : id[s] = CreateSessionID(n, s)
    <2>1. lastId \in Nat /\ MaxSessions \in Nat /\ lastId <= MaxSessions
      BY TypeFacts, BoundsAssumption DEF SessionInv, RefInv, Numbered
    <2>2. 1 .. lastId \subseteq 1 .. MaxSessions
      BY <2>1
    <2> QED
      BY <2>2 DEF SessionInv, RefInv, Numbered
  <1>2. ASSUME NEW u \in Handling
        PROVE  /\ u \in Threads /\ slot[u] \in Slots /\ ~released[slot[u]]
               /\ recvOps[slot[u]] = 0 /\ At(slot[u], Receivers) = {u}
               /\ id[slot[u]] \in joined /\ id[slot[u]] \notin gone /\ id[slot[u]] # NoId
    <2>1. u \in Threads /\ pc[u] = "rcOn"
      BY ThreadFacts DEF Handling
    <2>2. PICK s \in Slots : s = slot[u]
      BY <2>1, TypeFacts DEF SessionInv
    <2>3. ReceiveAt(s) /\ recvOps[s] \in Nat /\ u \in At(s, Receivers)
      BY <2>1, <2>2, TypeFacts DEF SessionInv, EventInv, At, Receivers
    <2>4. recvOps[s] = 0 /\ At(s, Receivers) = {u}
      BY <2>3, OneAtMost DEF ReceiveAt, Receiving
    <2>5. Receiving(s) = 1
      <3>1. Cardinality(At(s, Receivers)) = 1
        BY <2>4, FS_Singleton
      <3> QED
        BY <2>4, <3>1 DEF Receiving
    <2>6. id[s] \in joined
      BY <2>3, <2>5 DEF ReceiveAt
    <2>7. ~released[s]
      BY <2>1, <2>2 DEF SessionInv, RefInv, ClosedAt, Passive, CheckLabels, ReleaseLabels, ReleaseBody, InsertLabels
    <2>8. id[s] \notin gone
      BY <2>7 DEF SessionInv, EventInv, GoneAt
    <2>9. id[s] # NoId
      <3>1. \A i \in joined : i.id \in 1 .. lastId
        BY DEF SessionInv, RefInv, Numbered
      <3>2. NoId.id = -1 /\ lastId \in Nat
        BY TypeFacts DEF SessionInv, NoId, CreateSessionID
      <3> QED
        BY <2>6, <3>1, <3>2
    <2> QED
      BY <2>1, <2>2, <2>4, <2>6, <2>7, <2>8, <2>9
  <1>3. ASSUME NEW u \in Handling, NEW v \in Handling, id[slot[u]] = id[slot[v]] PROVE u = v
    <2>1. slot[u] = slot[v]
      BY <1>2, <1>3 DEF SessionInv, RefInv, Numbered
    <2>2. At(slot[u], Receivers) = {u} /\ At(slot[u], Receivers) = {v}
      BY <1>2, <2>1
    <2> QED
      BY <2>2
  <1> QED
    BY <1>1, <1>2, <1>3

\* OnRecv starts and ends with the handler.
LEMMA StepServing ==
    ASSUME NEW t \in Threads, NEW s \in Slots, StepAt(t, s), SessionInv
    PROVE  Serving' = Serving \/ TakeRecv(t, s) \/ RecvComplete(t)
  <1> USE DEF tableVars, refVars, connVars, sendVars, opVars, histVars, localVars, Goto
  <1>a. /\ pc \in [Threads -> Labels] /\ slot \in [Threads -> Slots \cup {NoSlot}]
        /\ DOMAIN id = Slots /\ NoSlot \notin Slots
    BY TypeFacts DEF StepAt
  <1>b. /\ ret[t] = "idle"
        /\ slot[t] \in {s, NoSlot} /\ slot'[t] \in {s, NoSlot}
        /\ pc[t] \notin {"idle", "acPop"} => slot[t] = s
        /\ pc'[t] \notin {"idle", "acPop"} => slot'[t] = s
        /\ \A u \in Threads \ {t} : pc'[u] = pc[u] /\ slot'[u] = slot[u]
        /\ \A r \in Slots \ {s} : id'[r] = id[r]
    BY DEF StepAt, Local, RefInv, Whereabouts
  <1>w. Workers \subseteq Threads /\ \A u \in Handling : slot[u] \in Slots
    BY ThreadFacts, ServingFacts
  <1>c. ASSUME pc[t] # "rcOn", pc'[t] # "rcOn", id'[s] = id[s] \/ At(s, Receivers) = {}
        PROVE  Serving' = Serving
    <2>1. Handling' = Handling /\ \A u \in Handling : slot'[u] = slot[u]
      BY <1>b, <1>c, <1>w DEF Handling
    <2>2. \A u \in Handling : id'[slot'[u]] = id[slot[u]]
      <3> SUFFICES ASSUME NEW u \in Handling PROVE id'[slot'[u]] = id[slot[u]]
        OBVIOUS
      <3>1. PICK q \in Slots : q = slot[u] /\ q = slot'[u]
        BY <1>w, <2>1
      <3>2. id'[s] # id[s] => q # s
        BY <1>c, <1>w, <3>1 DEF At, Receivers, Handling
      <3>3. id'[q] = id[q]
        BY <1>b, <3>2
      <3> QED
        BY <3>1, <3>3
    <2> QED
      BY <2>1, <2>2 DEF Serving
  <1>1. CASE PopIndex(t)
    <2>1. pc[t] # "rcOn" /\ pc'[t] # "rcOn" /\ id' = id
      BY <1>1, <1>a, <1>b DEF PopIndex
    <2> QED
      BY <1>c, <2>1
  <1>2. CASE InsertFields(t)
    <2>1. pc[t] = "acInit" /\ pc'[t] = "acZero" /\ slot[t] = s /\ t = Acceptor
      BY <1>2, <1>a, <1>b, TypeFacts DEF InsertFields, StepAt, AcceptorLabels, InsertLabels
    <2>2. At(s, Receivers) = {}
      BY <2>1, NothingInside DEF InsertLabels
    <2> QED
      BY <1>c, <2>1, <2>2
  <1>3. CASE InsertZero(t)
    <2>1. pc[t] # "rcOn" /\ pc'[t] # "rcOn" /\ id' = id
      BY <1>3, <1>a, <1>b DEF InsertZero
    <2> QED
      BY <1>c, <2>1
  <1>4. CASE InsertFlag(t)
    <2>1. pc[t] # "rcOn" /\ pc'[t] # "rcOn" /\ id' = id
      BY <1>4, <1>a, <1>b DEF InsertFlag
    <2> QED
      BY <1>c, <2>1
  <1>5. CASE InsertOne(t)
    <2>1. pc[t] # "rcOn" /\ pc'[t] # "rcOn" /\ id' = id
      BY <1>5, <1>a, <1>b DEF InsertOne
    <2> QED
      BY <1>c, <2>1
  <1>6. CASE InsertCount(t)
    <2>1. pc[t] # "rcOn" /\ pc'[t] # "rcOn" /\ id' = id
      BY <1>6, <1>a, <1>b DEF InsertCount
    <2> QED
      BY <1>c, <2>1
  <1>7. CASE Associate(t)
    <2>1. pc[t] # "rcOn" /\ pc'[t] # "rcOn" /\ id' = id
      BY <1>7, <1>a, <1>b DEF Associate
    <2> QED
      BY <1>c, <2>1
  <1>8. CASE AssociateFailed(t)
    <2>1. pc[t] # "rcOn" /\ pc'[t] # "rcOn" /\ id' = id
      BY <1>8, <1>a, <1>b DEF AssociateFailed, Dec
    <2> QED
      BY <1>c, <2>1
  <1>9. CASE OnClientJoin(t)
    <2>1. pc[t] # "rcOn" /\ pc'[t] # "rcOn" /\ id' = id
      BY <1>9, <1>a, <1>b DEF OnClientJoin
    <2> QED
      BY <1>c, <2>1
  <1>10. CASE RecvComplete(t)
    BY <1>10
  <1>11. CASE SendComplete(t)
    <2>1. pc[t] # "rcOn" /\ pc'[t] # "rcOn" /\ id' = id
      BY <1>11, <1>a, <1>b DEF SendComplete
    <2> QED
      BY <1>c, <2>1
  <1>12. CASE SendCompleteFlag(t)
    <2>1. pc[t] # "rcOn" /\ pc'[t] # "rcOn" /\ id' = id
      BY <1>12, <1>a, <1>b DEF SendCompleteFlag
    <2> QED
      BY <1>c, <2>1
  <1>13. CASE PostRecvRef(t)
    <2>1. pc[t] # "rcOn" /\ pc'[t] # "rcOn" /\ id' = id
      BY <1>13, <1>a, <1>b DEF PostRecvRef, Inc
    <2> QED
      BY <1>c, <2>1
  <1>14. CASE PostRecv(t)
    <2>1. pc[t] # "rcOn" /\ pc'[t] # "rcOn" /\ id' = id
      BY <1>14, <1>a, <1>b DEF PostRecv
    <2> QED
      BY <1>c, <2>1
  <1>15. CASE PostSendTest(t)
    <2>1. pc[t] # "rcOn" /\ pc'[t] # "rcOn" /\ id' = id
      BY <1>15, <1>a, <1>b DEF PostSendTest
    <2> QED
      BY <1>c, <2>1
  <1>16. CASE PostSendCas(t)
    <2>1. pc[t] # "rcOn" /\ pc'[t] # "rcOn" /\ id' = id
      BY <1>16, <1>a, <1>b DEF PostSendCas
    <2> QED
      BY <1>c, <2>1
  <1>17. CASE PostSendRetest(t)
    <2>1. pc[t] # "rcOn" /\ pc'[t] # "rcOn" /\ id' = id
      BY <1>17, <1>a, <1>b DEF PostSendRetest
    <2> QED
      BY <1>c, <2>1
  <1>18. CASE PostSendReset(t)
    <2>1. pc[t] # "rcOn" /\ pc'[t] # "rcOn" /\ id' = id
      BY <1>18, <1>a, <1>b DEF PostSendReset
    <2> QED
      BY <1>c, <2>1
  <1>19. CASE PostSendRef(t)
    <2>1. pc[t] # "rcOn" /\ pc'[t] # "rcOn" /\ id' = id
      BY <1>19, <1>a, <1>b DEF PostSendRef, Inc
    <2> QED
      BY <1>c, <2>1
  <1>20. CASE PostSend(t)
    <2>1. pc[t] # "rcOn" /\ pc'[t] # "rcOn" /\ id' = id
      BY <1>20, <1>a, <1>b DEF PostSend
    <2> QED
      BY <1>c, <2>1
  <1>21. CASE PostFailed(t)
    <2>1. pc[t] # "rcOn" /\ pc'[t] # "rcOn" /\ id' = id
      BY <1>21, <1>a, <1>b DEF PostFailed, Dec
    <2> QED
      BY <1>c, <2>1
  <1>22. CASE Drop(t)
    <2>1. pc[t] # "rcOn" /\ pc'[t] # "rcOn" /\ id' = id
      BY <1>22, <1>a, <1>b DEF Drop, Forget, Dec
    <2> QED
      BY <1>c, <2>1
  <1>23. CASE CheckReleased(t)
    <2>1. pc[t] # "rcOn" /\ pc'[t] # "rcOn" /\ id' = id
      BY <1>23, <1>a, <1>b DEF CheckReleased, Forget
    <2> QED
      BY <1>c, <2>1
  <1>24. CASE CheckRef(t)
    <2>1. pc[t] # "rcOn" /\ pc'[t] # "rcOn" /\ id' = id
      BY <1>24, <1>a, <1>b DEF CheckRef, Inc
    <2> QED
      BY <1>c, <2>1
  <1>25. CASE CheckId(t)
    <2>1. pc[t] # "rcOn" /\ pc'[t] # "rcOn" /\ id' = id
      BY <1>25, <1>a, <1>b DEF CheckId
    <2> QED
      BY <1>c, <2>1
  <1>26. CASE CheckReleasedAgain(t)
    <2>1. pc[t] # "rcOn" /\ pc'[t] # "rcOn" /\ id' = id
      BY <1>26, <1>a, <1>b DEF CheckReleasedAgain
    <2> QED
      BY <1>c, <2>1
  <1>27. CASE Enqueue(t)
    <2>1. pc[t] # "rcOn" /\ pc'[t] # "rcOn" /\ id' = id
      BY <1>27, <1>a, <1>b DEF Enqueue
    <2> QED
      BY <1>c, <2>1
  <1>28. CASE Disconnect(t)
    <2>1. pc[t] # "rcOn" /\ pc'[t] # "rcOn" /\ id' = id
      BY <1>28, <1>a, <1>b DEF Disconnect, DisconnectSession
    <2> QED
      BY <1>c, <2>1
  <1>29. CASE ReleaseTest(t)
    <2>1. pc[t] # "rcOn" /\ pc'[t] # "rcOn" /\ id' = id
      BY <1>29, <1>a, <1>b DEF ReleaseTest, Forget, Return
    <2> QED
      BY <1>c, <2>1
  <1>30. CASE ReleaseCas(t)
    <2>1. pc[t] # "rcOn" /\ pc'[t] # "rcOn" /\ id' = id
      BY <1>30, <1>a, <1>b DEF ReleaseCas, Forget, Return
    <2> QED
      BY <1>c, <2>1
  <1>31. CASE ReleaseClose(t)
    <2>1. pc[t] # "rcOn" /\ pc'[t] # "rcOn" /\ id' = id
      BY <1>31, <1>a, <1>b DEF ReleaseClose, DisconnectSession
    <2> QED
      BY <1>c, <2>1
  <1>32. CASE OnClientLeave(t)
    <2>1. pc[t] # "rcOn" /\ pc'[t] # "rcOn" /\ id' = id
      BY <1>32, <1>a, <1>b DEF OnClientLeave
    <2> QED
      BY <1>c, <2>1
  <1>33. CASE ReleaseDrain(t)
    <2>1. pc[t] # "rcOn" /\ pc'[t] # "rcOn" /\ id' = id
      BY <1>33, <1>a, <1>b DEF ReleaseDrain
    <2> QED
      BY <1>c, <2>1
  <1>34. CASE ReleaseClear(t)
    <2>1. pc[t] = "relClear" /\ pc'[t] = "relPush" /\ slot[t] = s
      BY <1>34, <1>a, <1>b DEF ReleaseClear
    <2>2. At(s, Receivers) = {}
      BY <2>1, NothingInside DEF StepAt, TableInv, OwnerInv, Releasing, ReleaseBody
    <2> QED
      BY <1>c, <2>1, <2>2
  <1>35. CASE PushIndex(t)
    <2>1. pc[t] # "rcOn" /\ pc'[t] # "rcOn" /\ id' = id
      BY <1>35, <1>a, <1>b DEF PushIndex
    <2> QED
      BY <1>c, <2>1
  <1>36. CASE ReleaseCount(t)
    <2>1. pc[t] # "rcOn" /\ pc'[t] # "rcOn" /\ id' = id
      BY <1>36, <1>a, <1>b DEF ReleaseCount, Forget, Return
    <2> QED
      BY <1>c, <2>1
  <1>37. CASE Accept(t)
    <2>1. pc[t] # "rcOn" /\ pc'[t] # "rcOn" /\ id' = id
      BY <1>37, <1>a, <1>b DEF Accept
    <2> QED
      BY <1>c, <2>1
  <1>38. ASSUME NEW r \in Slots, TakeRecv(t, r)
        PROVE  Serving' = Serving \/ TakeRecv(t, s) \/ RecvComplete(t)
    <2>1. r = s
      BY <1>38, <1>a, <1>b DEF TakeRecv
    <2> QED
      BY <1>38, <2>1
  <1>39. ASSUME NEW r \in Slots, TakeSend(t, r)
        PROVE  Serving' = Serving \/ TakeRecv(t, s) \/ RecvComplete(t)
    <2>1. pc[t] # "rcOn" /\ pc'[t] # "rcOn" /\ id' = id
      BY <1>39, <1>a, <1>b DEF TakeSend
    <2> QED
      BY <1>c, <2>1
  <1>40. ASSUME NEW r \in Slots, TakeDown(t, r)
        PROVE  Serving' = Serving \/ TakeRecv(t, s) \/ RecvComplete(t)
    <2>1. pc[t] # "rcOn" /\ pc'[t] # "rcOn" /\ id' = id
      BY <1>40, <1>a, <1>b DEF TakeDown
    <2> QED
      BY <1>c, <2>1
  <1>41. ASSUME NEW i \in joined, Call(t, i)
        PROVE  Serving' = Serving \/ TakeRecv(t, s) \/ RecvComplete(t)
    <2>1. pc[t] # "rcOn" /\ pc'[t] # "rcOn" /\ id' = id
      BY <1>41, <1>a, <1>b DEF Call, GetSessionIndex
    <2> QED
      BY <1>c, <2>1
  <1> QED
    BY <1>1, <1>2, <1>3, <1>4, <1>5, <1>6, <1>7, <1>8, <1>9, <1>10, <1>11, <1>12,
       <1>13, <1>14, <1>15, <1>16, <1>17, <1>18, <1>19, <1>20, <1>21, <1>22, <1>23, <1>24,
       <1>25, <1>26, <1>27, <1>28, <1>29, <1>30, <1>31, <1>32, <1>33, <1>34, <1>35, <1>36,
       <1>37, <1>38, <1>39, <1>40, <1>41
       DEF StepAt, Acts, Step, AcceptStep, CompletionStep, CallStep, ReleaseStep, Take

LEMMA JoinMoves ==
    ASSUME NEW t \in Threads, Acts(t)
    PROVE  joined' = joined \/ OnClientJoin(t)
  BY DEF histVars, Acts, Step, AcceptStep, CompletionStep, CallStep, ReleaseStep, Take, Accept, Call,
     PopIndex, InsertFields, InsertZero, InsertFlag, InsertOne, InsertCount, Associate, AssociateFailed,
     RecvComplete, SendComplete, SendCompleteFlag, PostRecvRef, PostRecv, PostSendTest,
     PostSendCas, PostSendRetest, PostSendReset, PostSendRef, PostSend, PostFailed, Drop,
     CheckReleased, CheckRef, CheckId, CheckReleasedAgain, Enqueue, Disconnect, ReleaseTest, ReleaseCas,
     ReleaseClose, OnClientLeave, ReleaseDrain, ReleaseClear, PushIndex, ReleaseCount,
     TakeRecv, TakeSend, TakeDown

LEMMA GoneChange ==
    ASSUME NEW t \in Threads, Acts(t)
    PROVE  gone' = gone \/ OnClientLeave(t)
  BY DEF histVars, Acts, Step, AcceptStep, CompletionStep, CallStep, ReleaseStep, Take, Accept, Call,
     PopIndex, InsertFields, InsertZero, InsertFlag, InsertOne, InsertCount, Associate, AssociateFailed,
     OnClientJoin, RecvComplete, SendComplete, SendCompleteFlag, PostRecvRef, PostRecv, PostSendTest,
     PostSendCas, PostSendRetest, PostSendReset, PostSendRef, PostSend, PostFailed, Drop,
     CheckReleased, CheckRef, CheckId, CheckReleasedAgain, Enqueue, Disconnect, ReleaseTest, ReleaseCas,
     ReleaseClose, ReleaseDrain, ReleaseClear, PushIndex, ReleaseCount,
     TakeRecv, TakeSend, TakeDown

\* Every step is a callback, or the server on top sees nothing of it.
LEMMA EventsAct ==
    ASSUME NEW t \in Threads, NEW s \in Slots, StepAt(t, s), SessionInv
    PROVE  Events!Next \/ UNCHANGED <<joined, Serving, gone>>
  <1> USE DEF histVars, connVars, Goto
  <1>a. /\ pc \in [Threads -> Labels] /\ slot \in [Threads -> Slots \cup {NoSlot}]
        /\ NoSlot \notin Slots /\ (pc[t] \in AcceptorLabels => t = Acceptor)
    BY TypeFacts DEF StepAt
  <1>b. /\ pc[t] \notin {"idle", "acPop"} => slot[t] = s
        /\ \A u \in Threads \ {t} : pc'[u] = pc[u] /\ slot'[u] = slot[u]
    BY DEF StepAt, Local
  <1>w. /\ Workers \subseteq Threads
        /\ Handling \subseteq Threads
        /\ \A u \in Handling : id[slot[u]] \in Serving /\ slot[u] \in Slots
        /\ \A i \in Serving : \E u \in Handling : i = id[slot[u]]
    BY ThreadFacts, ServingFacts DEF Handling, Serving
  <1>s. id[s] # NoId => id[s] \in {CreateSessionID(n, r) : n \in 1 .. MaxSessions, r \in Slots}
    BY ServingFacts
  <1>1. CASE TakeRecv(t, s)
    <2>1. /\ t \in Workers /\ pc[t] = "idle" /\ recvOps[s] > 0 /\ UNCHANGED <<joined, gone, id>>
          /\ pc'[t] = "rcOn" /\ slot'[t] = s
      BY <1>1, <1>a DEF TakeRecv
    <2>2. Handling' = Handling \cup {t} /\ t \notin Handling
      BY <1>b, <1>w, <2>1 DEF Handling
    <2>3. Serving' = Serving \cup {id[s]}
      <3>1. \A u \in Handling : slot'[u] = slot[u]
        BY <1>b, <1>w, <2>2
      <3> QED
        BY <2>1, <2>2, <3>1 DEF Serving
    <2>4. id[s] \in joined
      <3>1. recvOps[s] \in Nat /\ Cardinality(At(s, Receivers)) \in Nat
        BY TypeFacts, AtFinite DEF StepAt
      <3>2. Receiving(s) > 0
        BY <2>1, <3>1 DEF Receiving
      <3> QED
        BY <3>2 DEF SessionInv, EventInv, ReceiveAt
    <2>5. ~released[s] /\ id[s] \notin gone
      BY <2>1 DEF SessionInv, RefInv, ClosedAt, EventInv, GoneAt
    <2>6. id[s] # NoId
      BY <2>1, <2>5 DEF SessionInv, RefInv, NamedAt, NeverUsed
    <2>7. id[s] \notin Serving
      <3> SUFFICES ASSUME NEW u \in Handling, id[s] = id[slot[u]] PROVE FALSE
        BY <1>w
      <3>1. slot[u] = s
        BY <1>w, <2>6 DEF SessionInv, RefInv, Numbered
      <3> QED
        BY <2>1, <3>1, ServingFacts
    <2>8. id[s] \in joined \ (Serving \cup gone)
      BY <2>4, <2>5, <2>7
    <2>9. PICK i \in {CreateSessionID(n, r) : n \in 1 .. MaxSessions, r \in Slots} : i = id[s]
      BY <1>s, <2>6
    <2>10. Events!Receive(i)
      BY <2>1, <2>3, <2>8, <2>9 DEF Events!Receive, Serving, Handling
    <2> QED
      BY <2>10 DEF Events!Next
  <1>2. CASE RecvComplete(t)
    <2>1. /\ pc[t] = "rcOn" /\ pc'[t] = "prPost" /\ slot[t] = s /\ UNCHANGED <<joined, gone, id, slot>>
      BY <1>2, <1>a, <1>b DEF RecvComplete, localVars
    <2>2. t \in Workers
      BY <2>1 DEF SessionInv, RefInv, CallersHold, CallerHolds
    <2>3. Handling' = Handling \ {t} /\ t \in Handling
      BY <1>b, <1>w, <2>1, <2>2 DEF Handling
    <2>4. \A u \in Handling \ {t} : id[slot[u]] # id[s]
      BY <2>1, <2>3, ServingFacts
    <2>5. Serving' = Serving \ {id[s]} /\ id[s] \in Serving
      BY <2>1, <2>3, <2>4 DEF Serving
    <2>6. id[s] # NoId
      BY <2>1, <2>3, ServingFacts
    <2>7. PICK i \in {CreateSessionID(n, r) : n \in 1 .. MaxSessions, r \in Slots} : i = id[s]
      BY <1>s, <2>6
    <2> HIDE DEF Serving, Handling
    <2>8. i \in Serving /\ Serving' = Serving \ {i} /\ UNCHANGED <<joined, gone>>
      BY <2>1, <2>5, <2>7
    <2>9. Events!Received(i)
      BY <2>8 DEF Events!Received, Serving, Handling
    <2> QED
      BY <2>9 DEF Events!Next
  <1>3. CASE OnClientJoin(t)
    <2>1. /\ t = Acceptor /\ pc[t] = "join" /\ slot[t] = s /\ joined' = joined \cup {id[s]} /\ gone' = gone
      BY <1>3, <1>a, <1>b DEF OnClientJoin, AcceptorLabels
    <2>2. Serving' = Serving
      BY <2>1, StepServing DEF TakeRecv, RecvComplete
    <2>3. id[s] = CreateSessionID(lastId, s) /\ \A i \in joined \cup gone : i.id # lastId
      BY <2>1 DEF SessionInv, RefInv, Numbered, BeforeJoin
    <2>4. id[s].id = lastId
      BY <2>3 DEF CreateSessionID
    <2>5. id[s] \notin joined \cup gone
      BY <2>3, <2>4
    <2>6. id[s] # NoId
      <3>1. lastId # -1 /\ NoId.id = -1
        BY TypeFacts DEF StepAt, NoId, CreateSessionID
      <3> QED
        BY <2>4, <3>1
    <2> QED
      BY <1>s, <2>1, <2>2, <2>5, <2>6 DEF Events!Next, Events!Join, Serving, Handling
  <1>4. CASE OnClientLeave(t)
    <2>1. /\ pc[t] = "relLeave" /\ slot[t] = s /\ gone' = gone \cup {id[s]} /\ joined' = joined
      BY <1>4, <1>a, <1>b DEF OnClientLeave
    <2>2. Serving' = Serving
      BY <2>1, StepServing DEF TakeRecv, RecvComplete
    <2>3. id[s] # NoId
      BY <2>1 DEF SessionInv, RefInv, NamedAt, Leaving
    <2>4. id[s] \notin gone
      BY <2>1 DEF SessionInv, EventInv, GoneAt
    <2>5. released[s]
      BY <2>1 DEF SessionInv, TableInv, OwnerInv, Releasing, ReleaseBody
    <2>6. id[s] \notin Serving
      <3> SUFFICES ASSUME NEW u \in Handling, id[s] = id[slot[u]] PROVE FALSE
        BY <1>w
      <3>1. slot[u] = s
        BY <1>w, <2>3 DEF SessionInv, RefInv, Numbered
      <3> QED
        BY <2>5, <3>1, ServingFacts
    <2> QED
      BY <1>s, <2>1, <2>2, <2>3, <2>4, <2>6 DEF Events!Next, Events!Leave, Serving, Handling
  <1>5. CASE ~OnClientJoin(t) /\ ~OnClientLeave(t) /\ ~TakeRecv(t, s) /\ ~RecvComplete(t)
    <2>1. Acts(t)
      BY DEF StepAt
    <2>2. joined' = joined /\ gone' = gone
      BY <1>5, <2>1, JoinMoves, GoneChange
    <2>3. Serving' = Serving
      BY <1>5, StepServing
    <2> QED
      BY <2>2, <2>3
  <1> QED
    BY <1>1, <1>2, <1>3, <1>4, <1>5

LEMMA EventsStep ==
    ASSUME WindowClosed
    PROVE  SessionInv /\ [Next]_vars => [Events!Next]_(Events!vars)
  <1> SUFFICES ASSUME SessionInv, [Next]_vars
               PROVE  Events!Next \/ UNCHANGED <<joined, Serving, gone>>
    BY DEF Events!vars, Serving, Handling
  <1>1. TypeInv' /\ TableInv'
    BY TypeStep, TableStep DEF SessionInv
  <1>2. CASE Next
    <2>1. PICK t \in Threads : Acts(t)
      BY <1>2 DEF Next, Acts
    <2>2. PICK s \in Slots : Local(t, s)
      BY <1>1, <2>1, Locality DEF SessionInv, RefInv
    <2>3. StepAt(t, s)
      BY <1>1, <2>1, <2>2 DEF StepAt, SessionInv
    <2> QED
      BY <2>3, EventsAct
  <1>3. CASE UNCHANGED vars
    BY <1>3 DEF vars, histVars, connVars, localVars, Serving, Handling
  <1> QED
    BY <1>2, <1>3

\* EventsSpec: the server on top is told of each session that it joined, then of one receive
\* at a time, and once that it left.
THEOREM ImplementsEvents ==
    ASSUME WindowClosed
    PROVE  Spec => EventsSpec
  <1>1. Init => Events!Init
    BY ThreadFacts DEF Init, Events!Init
  <1>2. SessionInv /\ [Next]_vars => [Events!Next]_(Events!vars)
    BY EventsStep
  <1> QED
    BY <1>1, <1>2, AlwaysSession, PTL DEF Spec, EventsSpec, Events!Spec
=============================================================================
