-------------------------- MODULE NetSessionProofs --------------------------
(***************************************************************************)
(* Proofs about the session table, for every number of slots, workers and  *)
(* callers, with no assumption on the insertion window (Quiet is not used).*)
(***************************************************************************)
EXTENDS NetSession, FiniteSetTheorems, TLAPS

-----------------------------------------------------------------------------
(* Type correctness.                                                       *)

\* The constants' shape, in the form the steps below use.
LEMMA ThreadFacts == /\ Acceptor \in Threads
                     /\ Workers \subseteq Threads
                     /\ Callers \subseteq Threads
                     /\ IsFiniteSet(Threads)
  <1>1. IsFiniteSet({Acceptor})
    BY FS_Singleton
  <1>2. IsFiniteSet({Acceptor} \cup Workers)
    BY <1>1, FS_Union, ThreadsAssumption
  <1>3. IsFiniteSet(Threads)
    BY <1>2, FS_Union, ThreadsAssumption DEF Threads
  <1> QED
    BY <1>3 DEF Threads

\* A thread inside a handler has a slot; the typing proof needs it where the slot is used.
TypeInv == TypeOK /\ RolesInv

\* Every step a thread can be sent to is a label.
LEMMA LabelFacts ==
    /\ "acAssoc" \in Labels /\ "acCount" \in Labels /\ "acDec" \in Labels /\ "acFlag" \in Labels
    /\ "acInit" \in Labels /\ "acOne" \in Labels /\ "acPop" \in Labels /\ "acZero" \in Labels
    /\ "chkId" \in Labels /\ "chkInc" \in Labels /\ "chkRel" \in Labels /\ "chkRel2" \in Labels
    /\ "chkUndo" \in Labels /\ "disc" \in Labels /\ "drop" \in Labels /\ "dropPost" \in Labels
    /\ "enq" \in Labels /\ "idle" \in Labels /\ "join" \in Labels /\ "prPost" \in Labels
    /\ "prRecv" \in Labels /\ "psCas" \in Labels /\ "psPost" \in Labels /\ "psReset" \in Labels
    /\ "psSend" \in Labels /\ "psTest" \in Labels /\ "psTest2" \in Labels /\ "rcOn" \in Labels
    /\ "relCas" \in Labels /\ "relClear" \in Labels /\ "relClose" \in Labels /\ "relCount" \in Labels
    /\ "relDrain" \in Labels /\ "relLeave" \in Labels /\ "relPush" \in Labels /\ "relTest" \in Labels
    /\ "scDone" \in Labels /\ "scFlag" \in Labels
  BY DEF Labels, InsertLabels, CheckLabels, PostLabels, ReleaseLabels, ReleaseBody

LEMMA NoIdType == NoId \in Ids
  BY DEF NoId, Ids, CreateSessionID

LEMMA InitType == Init => TypeInv
  <1> SUFFICES ASSUME Init PROVE TypeInv
    OBVIOUS
  <1>1. NSlots \in Nat /\ \A i \in 1 .. NSlots : i - 1 \in Slots
    BY SlotsAssumption DEF Slots
  <1>2. TableType
    BY <1>1 DEF Init, TableType
  <1>3. ConnType /\ RefType /\ SendType /\ OpType /\ HistType /\ PcType /\ LocalType
    BY LabelFacts, NoIdType DEF Init, ConnType, RefType, SendType, OpType, HistType, PcType, LocalType
  <1>4. RolesInv
    BY DEF Init, RolesInv, AcceptorLabels, InsertLabels, NoId, CreateSessionID
  <1> QED
    BY <1>2, <1>3, <1>4 DEF TypeInv, TypeOK

LEMMA AcceptStepType == ASSUME TypeInv, NEW t \in Threads, AcceptStep(t) PROVE TypeInv'
  <1> USE DEF vars, tableVars, refVars, connVars, sendVars, opVars, histVars, localVars, Goto
  <1>0. /\ TableType /\ ConnType /\ RefType /\ SendType /\ OpType /\ HistType
        /\ PcType /\ LocalType /\ RolesInv
        /\ pc[t] \notin {"idle", "acPop"} => slot[t] \in Slots
    BY DEF TypeInv, TypeOK, RolesInv
  <1>1. CASE PopIndex(t)
    <2>1. TableType'
      BY <1>0, <1>1 DEF PopIndex, TableType
    <2>2. LocalType'
      BY <1>0, <1>1, NoIdType DEF PopIndex, LocalType, Forget, Return, TableType
    <2>3. ConnType' /\ RefType' /\ SendType' /\ OpType' /\ HistType'
      BY <1>0, <1>1 DEF PopIndex, ConnType, RefType, SendType, OpType, HistType
    <2>4. PcType'
      BY <1>0, <1>1, LabelFacts DEF PopIndex, PcType, LocalType, Return
    <2>5. RolesInv'
      BY <1>0, <1>1 DEF PopIndex, RolesInv, AcceptorLabels, InsertLabels, PcType, LocalType, ConnType, TableType, Forget, Return
    <2> QED
      BY <2>1, <2>2, <2>3, <2>4, <2>5 DEF TypeInv, TypeOK
  <1>2. CASE InsertFields(t)
    <2>1. TableType'
      BY <1>0, <1>2 DEF InsertFields, TableType
    <2>2. ConnType'
      BY <1>0, <1>2, NoIdType DEF InsertFields, ConnType, DisconnectSession, TableType, CreateSessionID, Ids
    <2>3. SendType'
      BY <1>0, <1>2 DEF InsertFields, SendType
    <2>4. RefType' /\ OpType' /\ HistType' /\ LocalType'
      BY <1>0, <1>2 DEF InsertFields, RefType, OpType, HistType, LocalType
    <2>5. PcType'
      BY <1>0, <1>2, LabelFacts DEF InsertFields, PcType, LocalType
    <2>6. RolesInv'
      BY <1>0, <1>2 DEF InsertFields, RolesInv, AcceptorLabels, InsertLabels, PcType, LocalType, ConnType, CreateSessionID, NoId
    <2> QED
      BY <2>1, <2>2, <2>3, <2>4, <2>5, <2>6 DEF TypeInv, TypeOK
  <1>3. CASE InsertZero(t)
    <2>1. RefType'
      BY <1>0, <1>3 DEF InsertZero, RefType, Inc, Dec
    <2>2. TableType' /\ ConnType' /\ SendType' /\ OpType' /\ HistType' /\ LocalType'
      BY <1>0, <1>3 DEF InsertZero, TableType, ConnType, SendType, OpType, HistType, LocalType
    <2>3. PcType'
      BY <1>0, <1>3, LabelFacts DEF InsertZero, PcType, LocalType
    <2>4. RolesInv'
      BY <1>0, <1>3 DEF InsertZero, RolesInv, AcceptorLabels, InsertLabels, PcType, LocalType, ConnType
    <2> QED
      BY <2>1, <2>2, <2>3, <2>4 DEF TypeInv, TypeOK
  <1>4. CASE InsertFlag(t)
    <2>1. RefType'
      BY <1>0, <1>4 DEF InsertFlag, RefType, Inc, Dec
    <2>2. TableType' /\ ConnType' /\ SendType' /\ OpType' /\ HistType' /\ LocalType'
      BY <1>0, <1>4 DEF InsertFlag, TableType, ConnType, SendType, OpType, HistType, LocalType
    <2>3. PcType'
      BY <1>0, <1>4, LabelFacts DEF InsertFlag, PcType, LocalType
    <2>4. RolesInv'
      BY <1>0, <1>4 DEF InsertFlag, RolesInv, AcceptorLabels, InsertLabels, PcType, LocalType, ConnType
    <2> QED
      BY <2>1, <2>2, <2>3, <2>4 DEF TypeInv, TypeOK
  <1>5. CASE InsertOne(t)
    <2>1. RefType'
      BY <1>0, <1>5 DEF InsertOne, RefType, Inc, Dec
    <2>2. TableType' /\ ConnType' /\ SendType' /\ OpType' /\ HistType' /\ LocalType'
      BY <1>0, <1>5 DEF InsertOne, TableType, ConnType, SendType, OpType, HistType, LocalType
    <2>3. PcType'
      BY <1>0, <1>5, LabelFacts DEF InsertOne, PcType, LocalType
    <2>4. RolesInv'
      BY <1>0, <1>5 DEF InsertOne, RolesInv, AcceptorLabels, InsertLabels, PcType, LocalType, ConnType
    <2> QED
      BY <2>1, <2>2, <2>3, <2>4 DEF TypeInv, TypeOK
  <1>6. CASE InsertCount(t)
    <2>1. TableType'
      BY <1>0, <1>6 DEF InsertCount, TableType
    <2>2. ConnType' /\ RefType' /\ SendType' /\ OpType' /\ HistType' /\ LocalType'
      BY <1>0, <1>6 DEF InsertCount, ConnType, RefType, SendType, OpType, HistType, LocalType
    <2>3. PcType'
      BY <1>0, <1>6, LabelFacts DEF InsertCount, PcType, LocalType
    <2>4. RolesInv'
      BY <1>0, <1>6 DEF InsertCount, RolesInv, AcceptorLabels, InsertLabels, PcType, LocalType, ConnType
    <2> QED
      BY <2>1, <2>2, <2>3, <2>4 DEF TypeInv, TypeOK
  <1>7. CASE Associate(t)
    <2>1. TableType' /\ ConnType' /\ RefType' /\ SendType' /\ OpType' /\ HistType' /\ LocalType'
      BY <1>0, <1>7 DEF Associate, TableType, ConnType, RefType, SendType, OpType, HistType, LocalType
    <2>2. PcType'
      BY <1>0, <1>7, LabelFacts DEF Associate, PcType, LocalType
    <2>3. RolesInv'
      BY <1>0, <1>7 DEF Associate, RolesInv, AcceptorLabels, InsertLabels, PcType, LocalType, ConnType
    <2> QED
      BY <2>1, <2>2, <2>3 DEF TypeInv, TypeOK
  <1>8. CASE AssociateFailed(t)
    <2>1. RefType'
      BY <1>0, <1>8 DEF AssociateFailed, RefType, Inc, Dec
    <2>2. TableType' /\ ConnType' /\ SendType' /\ OpType' /\ HistType' /\ LocalType'
      BY <1>0, <1>8 DEF AssociateFailed, TableType, ConnType, SendType, OpType, HistType, LocalType
    <2>3. PcType'
      BY <1>0, <1>8, LabelFacts DEF AssociateFailed, PcType, LocalType
    <2>4. RolesInv'
      BY <1>0, <1>8 DEF AssociateFailed, RolesInv, AcceptorLabels, InsertLabels, PcType, LocalType, ConnType
    <2> QED
      BY <2>1, <2>2, <2>3, <2>4 DEF TypeInv, TypeOK
  <1>9. CASE OnClientJoin(t)
    <2>1. HistType'
      BY <1>0, <1>9 DEF OnClientJoin, HistType, ConnType
    <2>2. TableType' /\ ConnType' /\ RefType' /\ SendType' /\ OpType' /\ LocalType'
      BY <1>0, <1>9 DEF OnClientJoin, TableType, ConnType, RefType, SendType, OpType, LocalType
    <2>3. PcType'
      BY <1>0, <1>9, LabelFacts DEF OnClientJoin, PcType, LocalType
    <2>4. RolesInv'
      BY <1>0, <1>9 DEF OnClientJoin, RolesInv, AcceptorLabels, InsertLabels, PcType, LocalType, ConnType
    <2> QED
      BY <2>1, <2>2, <2>3, <2>4 DEF TypeInv, TypeOK
  <1> QED
    BY <1>1, <1>2, <1>3, <1>4, <1>5, <1>6, <1>7, <1>8, <1>9 DEF AcceptStep

LEMMA CompletionStepType == ASSUME TypeInv, NEW t \in Threads, CompletionStep(t) PROVE TypeInv'
  <1> USE DEF vars, tableVars, refVars, connVars, sendVars, opVars, histVars, localVars, Goto
  <1>0. /\ TableType /\ ConnType /\ RefType /\ SendType /\ OpType /\ HistType
        /\ PcType /\ LocalType /\ RolesInv
        /\ pc[t] \notin {"idle", "acPop"} => slot[t] \in Slots
    BY DEF TypeInv, TypeOK, RolesInv
  <1>1. CASE RecvComplete(t)
    <2>1. ConnType'
      BY <1>0, <1>1, NoIdType DEF RecvComplete, ConnType, DisconnectSession
    <2>2. TableType' /\ RefType' /\ SendType' /\ OpType' /\ HistType' /\ LocalType'
      BY <1>0, <1>1 DEF RecvComplete, TableType, RefType, SendType, OpType, HistType, LocalType
    <2>3. PcType'
      BY <1>0, <1>1, LabelFacts DEF RecvComplete, PcType, LocalType
    <2>4. RolesInv'
      BY <1>0, <1>1 DEF RecvComplete, RolesInv, AcceptorLabels, InsertLabels, PcType, LocalType, ConnType
    <2> QED
      BY <2>1, <2>2, <2>3, <2>4 DEF TypeInv, TypeOK
  <1>2. CASE SendComplete(t)
    <2>1. SendType'
      BY <1>0, <1>2 DEF SendComplete, SendType
    <2>2. TableType' /\ ConnType' /\ RefType' /\ OpType' /\ HistType' /\ LocalType'
      BY <1>0, <1>2 DEF SendComplete, TableType, ConnType, RefType, OpType, HistType, LocalType
    <2>3. PcType'
      BY <1>0, <1>2, LabelFacts DEF SendComplete, PcType, LocalType
    <2>4. RolesInv'
      BY <1>0, <1>2 DEF SendComplete, RolesInv, AcceptorLabels, InsertLabels, PcType, LocalType, ConnType
    <2> QED
      BY <2>1, <2>2, <2>3, <2>4 DEF TypeInv, TypeOK
  <1>3. CASE SendCompleteFlag(t)
    <2>1. SendType'
      BY <1>0, <1>3 DEF SendCompleteFlag, SendType
    <2>2. TableType' /\ ConnType' /\ RefType' /\ OpType' /\ HistType' /\ LocalType'
      BY <1>0, <1>3 DEF SendCompleteFlag, TableType, ConnType, RefType, OpType, HistType, LocalType
    <2>3. PcType'
      BY <1>0, <1>3, LabelFacts DEF SendCompleteFlag, PcType, LocalType
    <2>4. RolesInv'
      BY <1>0, <1>3 DEF SendCompleteFlag, RolesInv, AcceptorLabels, InsertLabels, PcType, LocalType, ConnType
    <2> QED
      BY <2>1, <2>2, <2>3, <2>4 DEF TypeInv, TypeOK
  <1>4. CASE PostRecvRef(t)
    <2>1. RefType'
      BY <1>0, <1>4 DEF PostRecvRef, RefType, Inc, Dec
    <2>2. TableType' /\ ConnType' /\ SendType' /\ OpType' /\ HistType' /\ LocalType'
      BY <1>0, <1>4 DEF PostRecvRef, TableType, ConnType, SendType, OpType, HistType, LocalType
    <2>3. PcType'
      BY <1>0, <1>4, LabelFacts DEF PostRecvRef, PcType, LocalType
    <2>4. RolesInv'
      BY <1>0, <1>4 DEF PostRecvRef, RolesInv, AcceptorLabels, InsertLabels, PcType, LocalType, ConnType
    <2> QED
      BY <2>1, <2>2, <2>3, <2>4 DEF TypeInv, TypeOK
  <1>5. CASE PostRecv(t)
    <2>1. ConnType'
      BY <1>0, <1>5, NoIdType DEF PostRecv, ConnType, DisconnectSession
    <2>2. OpType'
      BY <1>0, <1>5 DEF PostRecv, OpType
    <2>3. TableType' /\ RefType' /\ SendType' /\ HistType' /\ LocalType'
      BY <1>0, <1>5 DEF PostRecv, TableType, RefType, SendType, HistType, LocalType
    <2>4. PcType'
      BY <1>0, <1>5, LabelFacts DEF PostRecv, PcType, LocalType
    <2>5. RolesInv'
      BY <1>0, <1>5 DEF PostRecv, RolesInv, AcceptorLabels, InsertLabels, PcType, LocalType, ConnType
    <2> QED
      BY <2>1, <2>2, <2>3, <2>4, <2>5 DEF TypeInv, TypeOK
  <1>6. CASE PostSendTest(t)
    <2>1. TableType' /\ ConnType' /\ RefType' /\ SendType' /\ OpType' /\ HistType' /\ LocalType'
      BY <1>0, <1>6 DEF PostSendTest, TableType, ConnType, RefType, SendType, OpType, HistType, LocalType
    <2>2. PcType'
      BY <1>0, <1>6, LabelFacts DEF PostSendTest, PcType, LocalType
    <2>3. RolesInv'
      BY <1>0, <1>6 DEF PostSendTest, RolesInv, AcceptorLabels, InsertLabels, PcType, LocalType, ConnType
    <2> QED
      BY <2>1, <2>2, <2>3 DEF TypeInv, TypeOK
  <1>7. CASE PostSendCas(t)
    <2>1. SendType'
      BY <1>0, <1>7 DEF PostSendCas, SendType
    <2>2. TableType' /\ ConnType' /\ RefType' /\ OpType' /\ HistType' /\ LocalType'
      BY <1>0, <1>7 DEF PostSendCas, TableType, ConnType, RefType, OpType, HistType, LocalType
    <2>3. PcType'
      BY <1>0, <1>7, LabelFacts DEF PostSendCas, PcType, LocalType
    <2>4. RolesInv'
      BY <1>0, <1>7 DEF PostSendCas, RolesInv, AcceptorLabels, InsertLabels, PcType, LocalType, ConnType
    <2> QED
      BY <2>1, <2>2, <2>3, <2>4 DEF TypeInv, TypeOK
  <1>8. CASE PostSendRetest(t)
    <2>1. TableType' /\ ConnType' /\ RefType' /\ SendType' /\ OpType' /\ HistType' /\ LocalType'
      BY <1>0, <1>8 DEF PostSendRetest, TableType, ConnType, RefType, SendType, OpType, HistType, LocalType
    <2>2. PcType'
      BY <1>0, <1>8, LabelFacts DEF PostSendRetest, PcType, LocalType
    <2>3. RolesInv'
      BY <1>0, <1>8 DEF PostSendRetest, RolesInv, AcceptorLabels, InsertLabels, PcType, LocalType, ConnType
    <2> QED
      BY <2>1, <2>2, <2>3 DEF TypeInv, TypeOK
  <1>9. CASE PostSendReset(t)
    <2>1. SendType'
      BY <1>0, <1>9 DEF PostSendReset, SendType
    <2>2. TableType' /\ ConnType' /\ RefType' /\ OpType' /\ HistType' /\ LocalType'
      BY <1>0, <1>9 DEF PostSendReset, TableType, ConnType, RefType, OpType, HistType, LocalType
    <2>3. PcType'
      BY <1>0, <1>9, LabelFacts DEF PostSendReset, PcType, LocalType
    <2>4. RolesInv'
      BY <1>0, <1>9 DEF PostSendReset, RolesInv, AcceptorLabels, InsertLabels, PcType, LocalType, ConnType
    <2> QED
      BY <2>1, <2>2, <2>3, <2>4 DEF TypeInv, TypeOK
  <1>10. CASE PostSendRef(t)
    <2>1. RefType'
      BY <1>0, <1>10 DEF PostSendRef, RefType, Inc, Dec
    <2>2. SendType'
      BY <1>0, <1>10, BoundsAssumption DEF PostSendRef, SendType
    <2>3. TableType' /\ ConnType' /\ OpType' /\ HistType' /\ LocalType'
      BY <1>0, <1>10 DEF PostSendRef, TableType, ConnType, OpType, HistType, LocalType
    <2>4. PcType'
      BY <1>0, <1>10, LabelFacts DEF PostSendRef, PcType, LocalType
    <2>5. RolesInv'
      BY <1>0, <1>10 DEF PostSendRef, RolesInv, AcceptorLabels, InsertLabels, PcType, LocalType, ConnType
    <2> QED
      BY <2>1, <2>2, <2>3, <2>4, <2>5 DEF TypeInv, TypeOK
  <1>11. CASE PostSend(t)
    <2>1. ConnType'
      BY <1>0, <1>11, NoIdType DEF PostSend, ConnType, DisconnectSession
    <2>2. OpType'
      BY <1>0, <1>11 DEF PostSend, OpType
    <2>3. TableType' /\ RefType' /\ SendType' /\ HistType' /\ LocalType'
      BY <1>0, <1>11 DEF PostSend, TableType, RefType, SendType, HistType, LocalType
    <2>4. PcType'
      BY <1>0, <1>11, LabelFacts DEF PostSend, PcType, LocalType
    <2>5. RolesInv'
      BY <1>0, <1>11 DEF PostSend, RolesInv, AcceptorLabels, InsertLabels, PcType, LocalType, ConnType
    <2> QED
      BY <2>1, <2>2, <2>3, <2>4, <2>5 DEF TypeInv, TypeOK
  <1>12. CASE PostFailed(t)
    <2>1. RefType'
      BY <1>0, <1>12 DEF PostFailed, RefType, Inc, Dec
    <2>2. LocalType'
      BY <1>0, <1>12, NoIdType DEF PostFailed, LocalType, Forget, Return
    <2>3. TableType' /\ ConnType' /\ SendType' /\ OpType' /\ HistType'
      BY <1>0, <1>12 DEF PostFailed, TableType, ConnType, SendType, OpType, HistType
    <2>4. PcType'
      BY <1>0, <1>12, LabelFacts DEF PostFailed, PcType, LocalType, Return
    <2>5. RolesInv'
      BY <1>0, <1>12 DEF PostFailed, RolesInv, AcceptorLabels, InsertLabels, PcType, LocalType, ConnType, Forget, Return
    <2> QED
      BY <2>1, <2>2, <2>3, <2>4, <2>5 DEF TypeInv, TypeOK
  <1>13. CASE Drop(t)
    <2>1. RefType'
      BY <1>0, <1>13 DEF Drop, RefType, Inc, Dec
    <2>2. LocalType'
      BY <1>0, <1>13, NoIdType DEF Drop, LocalType, Forget, Return
    <2>3. TableType' /\ ConnType' /\ SendType' /\ OpType' /\ HistType'
      BY <1>0, <1>13 DEF Drop, TableType, ConnType, SendType, OpType, HistType
    <2>4. PcType'
      BY <1>0, <1>13, LabelFacts DEF Drop, PcType, LocalType, Return
    <2>5. RolesInv'
      BY <1>0, <1>13 DEF Drop, RolesInv, AcceptorLabels, InsertLabels, PcType, LocalType, ConnType, Forget, Return
    <2> QED
      BY <2>1, <2>2, <2>3, <2>4, <2>5 DEF TypeInv, TypeOK
  <1> QED
    BY <1>1, <1>2, <1>3, <1>4, <1>5, <1>6, <1>7, <1>8, <1>9, <1>10, <1>11, <1>12, <1>13 DEF CompletionStep

LEMMA CallStepType == ASSUME TypeInv, NEW t \in Threads, CallStep(t) PROVE TypeInv'
  <1> USE DEF vars, tableVars, refVars, connVars, sendVars, opVars, histVars, localVars, Goto
  <1>0. /\ TableType /\ ConnType /\ RefType /\ SendType /\ OpType /\ HistType
        /\ PcType /\ LocalType /\ RolesInv
        /\ pc[t] \notin {"idle", "acPop"} => slot[t] \in Slots
    BY DEF TypeInv, TypeOK, RolesInv
  <1>1. CASE CheckReleased(t)
    <2>1. LocalType'
      BY <1>0, <1>1, NoIdType DEF CheckReleased, LocalType, Forget, Return
    <2>2. TableType' /\ ConnType' /\ RefType' /\ SendType' /\ OpType' /\ HistType'
      BY <1>0, <1>1 DEF CheckReleased, TableType, ConnType, RefType, SendType, OpType, HistType
    <2>3. PcType'
      BY <1>0, <1>1, LabelFacts DEF CheckReleased, PcType, LocalType, Return
    <2>4. RolesInv'
      BY <1>0, <1>1 DEF CheckReleased, RolesInv, AcceptorLabels, InsertLabels, PcType, LocalType, ConnType, Forget, Return
    <2> QED
      BY <2>1, <2>2, <2>3, <2>4 DEF TypeInv, TypeOK
  <1>2. CASE CheckRef(t)
    <2>1. RefType'
      BY <1>0, <1>2 DEF CheckRef, RefType, Inc, Dec
    <2>2. TableType' /\ ConnType' /\ SendType' /\ OpType' /\ HistType' /\ LocalType'
      BY <1>0, <1>2 DEF CheckRef, TableType, ConnType, SendType, OpType, HistType, LocalType
    <2>3. PcType'
      BY <1>0, <1>2, LabelFacts DEF CheckRef, PcType, LocalType
    <2>4. RolesInv'
      BY <1>0, <1>2 DEF CheckRef, RolesInv, AcceptorLabels, InsertLabels, PcType, LocalType, ConnType
    <2> QED
      BY <2>1, <2>2, <2>3, <2>4 DEF TypeInv, TypeOK
  <1>3. CASE CheckId(t)
    <2>1. TableType' /\ ConnType' /\ RefType' /\ SendType' /\ OpType' /\ HistType' /\ LocalType'
      BY <1>0, <1>3 DEF CheckId, TableType, ConnType, RefType, SendType, OpType, HistType, LocalType
    <2>2. PcType'
      BY <1>0, <1>3, LabelFacts DEF CheckId, PcType, LocalType
    <2>3. RolesInv'
      BY <1>0, <1>3 DEF CheckId, RolesInv, AcceptorLabels, InsertLabels, PcType, LocalType, ConnType
    <2> QED
      BY <2>1, <2>2, <2>3 DEF TypeInv, TypeOK
  <1>4. CASE CheckReleasedAgain(t)
    <2>1. TableType' /\ ConnType' /\ RefType' /\ SendType' /\ OpType' /\ HistType' /\ LocalType'
      BY <1>0, <1>4 DEF CheckReleasedAgain, TableType, ConnType, RefType, SendType, OpType, HistType, LocalType
    <2>2. PcType'
      BY <1>0, <1>4, LabelFacts DEF CheckReleasedAgain, PcType, LocalType
    <2>3. RolesInv'
      BY <1>0, <1>4 DEF CheckReleasedAgain, RolesInv, AcceptorLabels, InsertLabels, PcType, LocalType, ConnType
    <2> QED
      BY <2>1, <2>2, <2>3 DEF TypeInv, TypeOK
  <1>5. CASE Enqueue(t)
    <2>1. SendType'
      BY <1>0, <1>5 DEF Enqueue, SendType
    <2>2. TableType' /\ ConnType' /\ RefType' /\ OpType' /\ HistType' /\ LocalType'
      BY <1>0, <1>5 DEF Enqueue, TableType, ConnType, RefType, OpType, HistType, LocalType
    <2>3. PcType'
      BY <1>0, <1>5, LabelFacts DEF Enqueue, PcType, LocalType
    <2>4. RolesInv'
      BY <1>0, <1>5 DEF Enqueue, RolesInv, AcceptorLabels, InsertLabels, PcType, LocalType, ConnType
    <2> QED
      BY <2>1, <2>2, <2>3, <2>4 DEF TypeInv, TypeOK
  <1>6. CASE Disconnect(t)
    <2>1. ConnType'
      BY <1>0, <1>6, NoIdType DEF Disconnect, ConnType, DisconnectSession
    <2>2. TableType' /\ RefType' /\ SendType' /\ OpType' /\ HistType' /\ LocalType'
      BY <1>0, <1>6 DEF Disconnect, TableType, RefType, SendType, OpType, HistType, LocalType
    <2>3. PcType'
      BY <1>0, <1>6, LabelFacts DEF Disconnect, PcType, LocalType
    <2>4. RolesInv'
      BY <1>0, <1>6 DEF Disconnect, RolesInv, AcceptorLabels, InsertLabels, PcType, LocalType, ConnType
    <2> QED
      BY <2>1, <2>2, <2>3, <2>4 DEF TypeInv, TypeOK
  <1> QED
    BY <1>1, <1>2, <1>3, <1>4, <1>5, <1>6 DEF CallStep

LEMMA ReleaseStepType == ASSUME TypeInv, NEW t \in Threads, ReleaseStep(t) PROVE TypeInv'
  <1> USE DEF vars, tableVars, refVars, connVars, sendVars, opVars, histVars, localVars, Goto
  <1>0. /\ TableType /\ ConnType /\ RefType /\ SendType /\ OpType /\ HistType
        /\ PcType /\ LocalType /\ RolesInv
        /\ pc[t] \notin {"idle", "acPop"} => slot[t] \in Slots
    BY DEF TypeInv, TypeOK, RolesInv
  <1>1. CASE ReleaseTest(t)
    <2>1. LocalType'
      BY <1>0, <1>1, NoIdType DEF ReleaseTest, LocalType, Forget, Return
    <2>2. TableType' /\ ConnType' /\ RefType' /\ SendType' /\ OpType' /\ HistType'
      BY <1>0, <1>1 DEF ReleaseTest, TableType, ConnType, RefType, SendType, OpType, HistType
    <2>3. PcType'
      BY <1>0, <1>1, LabelFacts DEF ReleaseTest, PcType, LocalType, Return
    <2>4. RolesInv'
      BY <1>0, <1>1 DEF ReleaseTest, RolesInv, AcceptorLabels, InsertLabels, PcType, LocalType, ConnType, Forget, Return
    <2> QED
      BY <2>1, <2>2, <2>3, <2>4 DEF TypeInv, TypeOK
  <1>2. CASE ReleaseCas(t)
    <2>1. RefType'
      BY <1>0, <1>2 DEF ReleaseCas, RefType, Inc, Dec
    <2>2. LocalType'
      BY <1>0, <1>2, NoIdType DEF ReleaseCas, LocalType, Forget, Return
    <2>3. TableType' /\ ConnType' /\ SendType' /\ OpType' /\ HistType'
      BY <1>0, <1>2 DEF ReleaseCas, TableType, ConnType, SendType, OpType, HistType
    <2>4. PcType'
      BY <1>0, <1>2, LabelFacts DEF ReleaseCas, PcType, LocalType, Return
    <2>5. RolesInv'
      BY <1>0, <1>2 DEF ReleaseCas, RolesInv, AcceptorLabels, InsertLabels, PcType, LocalType, ConnType, Forget, Return
    <2> QED
      BY <2>1, <2>2, <2>3, <2>4, <2>5 DEF TypeInv, TypeOK
  <1>3. CASE ReleaseClose(t)
    <2>1. ConnType'
      BY <1>0, <1>3, NoIdType DEF ReleaseClose, ConnType, DisconnectSession
    <2>2. TableType' /\ RefType' /\ SendType' /\ OpType' /\ HistType' /\ LocalType'
      BY <1>0, <1>3 DEF ReleaseClose, TableType, RefType, SendType, OpType, HistType, LocalType
    <2>3. PcType'
      BY <1>0, <1>3, LabelFacts DEF ReleaseClose, PcType, LocalType
    <2>4. RolesInv'
      BY <1>0, <1>3 DEF ReleaseClose, RolesInv, AcceptorLabels, InsertLabels, PcType, LocalType, ConnType
    <2> QED
      BY <2>1, <2>2, <2>3, <2>4 DEF TypeInv, TypeOK
  <1>4. CASE OnClientLeave(t)
    <2>1. HistType'
      BY <1>0, <1>4 DEF OnClientLeave, HistType, ConnType
    <2>2. TableType' /\ ConnType' /\ RefType' /\ SendType' /\ OpType' /\ LocalType'
      BY <1>0, <1>4 DEF OnClientLeave, TableType, ConnType, RefType, SendType, OpType, LocalType
    <2>3. PcType'
      BY <1>0, <1>4, LabelFacts DEF OnClientLeave, PcType, LocalType
    <2>4. RolesInv'
      BY <1>0, <1>4 DEF OnClientLeave, RolesInv, AcceptorLabels, InsertLabels, PcType, LocalType, ConnType
    <2> QED
      BY <2>1, <2>2, <2>3, <2>4 DEF TypeInv, TypeOK
  <1>5. CASE ReleaseDrain(t)
    <2>1. SendType'
      BY <1>0, <1>5 DEF ReleaseDrain, SendType
    <2>2. TableType' /\ ConnType' /\ RefType' /\ OpType' /\ HistType' /\ LocalType'
      BY <1>0, <1>5 DEF ReleaseDrain, TableType, ConnType, RefType, OpType, HistType, LocalType
    <2>3. PcType'
      BY <1>0, <1>5, LabelFacts DEF ReleaseDrain, PcType, LocalType
    <2>4. RolesInv'
      BY <1>0, <1>5 DEF ReleaseDrain, RolesInv, AcceptorLabels, InsertLabels, PcType, LocalType, ConnType
    <2> QED
      BY <2>1, <2>2, <2>3, <2>4 DEF TypeInv, TypeOK
  <1>6. CASE ReleaseClear(t)
    <2>1. ConnType'
      BY <1>0, <1>6, NoIdType DEF ReleaseClear, ConnType, DisconnectSession
    <2>2. SendType'
      BY <1>0, <1>6 DEF ReleaseClear, SendType
    <2>3. TableType' /\ RefType' /\ OpType' /\ HistType' /\ LocalType'
      BY <1>0, <1>6 DEF ReleaseClear, TableType, RefType, OpType, HistType, LocalType
    <2>4. PcType'
      BY <1>0, <1>6, LabelFacts DEF ReleaseClear, PcType, LocalType
    <2>5. RolesInv'
      BY <1>0, <1>6 DEF ReleaseClear, RolesInv, AcceptorLabels, InsertLabels, PcType, LocalType, ConnType, CreateSessionID, NoId
    <2> QED
      BY <2>1, <2>2, <2>3, <2>4, <2>5 DEF TypeInv, TypeOK
  <1>7. CASE PushIndex(t)
    <2>1. TableType'
      BY <1>0, <1>7 DEF PushIndex, TableType
    <2>2. ConnType' /\ RefType' /\ SendType' /\ OpType' /\ HistType' /\ LocalType'
      BY <1>0, <1>7 DEF PushIndex, ConnType, RefType, SendType, OpType, HistType, LocalType
    <2>3. PcType'
      BY <1>0, <1>7, LabelFacts DEF PushIndex, PcType, LocalType
    <2>4. RolesInv'
      BY <1>0, <1>7 DEF PushIndex, RolesInv, AcceptorLabels, InsertLabels, PcType, LocalType, ConnType
    <2> QED
      BY <2>1, <2>2, <2>3, <2>4 DEF TypeInv, TypeOK
  <1>8. CASE ReleaseCount(t)
    <2>1. TableType'
      BY <1>0, <1>8 DEF ReleaseCount, TableType
    <2>2. LocalType'
      BY <1>0, <1>8, NoIdType DEF ReleaseCount, LocalType, Forget, Return
    <2>3. ConnType' /\ RefType' /\ SendType' /\ OpType' /\ HistType'
      BY <1>0, <1>8 DEF ReleaseCount, ConnType, RefType, SendType, OpType, HistType
    <2>4. PcType'
      BY <1>0, <1>8, LabelFacts DEF ReleaseCount, PcType, LocalType, Return
    <2>5. RolesInv'
      BY <1>0, <1>8 DEF ReleaseCount, RolesInv, AcceptorLabels, InsertLabels, PcType, LocalType, ConnType, Forget, Return
    <2> QED
      BY <2>1, <2>2, <2>3, <2>4, <2>5 DEF TypeInv, TypeOK
  <1> QED
    BY <1>1, <1>2, <1>3, <1>4, <1>5, <1>6, <1>7, <1>8 DEF ReleaseStep

LEMMA NewWorkType ==
    ASSUME TypeInv, NEW t \in Threads,
           \/ Accept(t)
           \/ \E s \in Slots : Take(t, s)
           \/ \E i \in joined : Call(t, i)
    PROVE  TypeInv'
  <1> USE DEF vars, tableVars, refVars, connVars, sendVars, opVars, histVars, localVars, Goto
  <1>0. /\ TableType /\ ConnType /\ RefType /\ SendType /\ OpType /\ HistType
        /\ PcType /\ LocalType /\ RolesInv
    BY DEF TypeInv, TypeOK
  <1>1. CASE Accept(t)
    <2>1. TableType' /\ ConnType' /\ RefType' /\ SendType' /\ OpType' /\ HistType' /\ LocalType'
      BY <1>0, <1>1 DEF Accept, TableType, ConnType, RefType, SendType, OpType, HistType, LocalType
    <2>2. PcType'
      BY <1>0, <1>1, LabelFacts DEF Accept, PcType
    <2>3. RolesInv'
      BY <1>0, <1>1 DEF Accept, RolesInv, AcceptorLabels, InsertLabels, PcType
    <2> QED
      BY <2>1, <2>2, <2>3 DEF TypeInv, TypeOK
  <1>2. ASSUME NEW s \in Slots, Take(t, s) PROVE TypeInv'
    <2>1. /\ UNCHANGED <<tableVars, refVars, id, sendVars, histVars, sid, ret>>
          /\ slot' = [slot EXCEPT ![t] = s]
          /\ \/ pc' = [pc EXCEPT ![t] = "rcOn"]
             \/ pc' = [pc EXCEPT ![t] = "scDone"]
             \/ pc' = [pc EXCEPT ![t] = "drop"]
      BY <1>2 DEF Take, TakeRecv, TakeSend, TakeDown
    <2>2. ConnType'
      BY <1>0, <1>2 DEF Take, TakeRecv, TakeSend, TakeDown, ConnType
    <2>3. OpType'
      BY <1>0, <1>2 DEF Take, TakeRecv, TakeSend, TakeDown, OpType
    <2>4. TableType' /\ RefType' /\ SendType' /\ HistType' /\ LocalType'
      BY <1>0, <2>1 DEF TableType, RefType, SendType, HistType, LocalType
    <2>5. PcType'
      BY <1>0, <2>1, LabelFacts DEF PcType
    <2>6. RolesInv'
      BY <1>0, <2>1 DEF RolesInv, AcceptorLabels, InsertLabels, PcType, LocalType, ConnType
    <2> QED
      BY <2>2, <2>3, <2>4, <2>5, <2>6 DEF TypeInv, TypeOK
  <1>3. ASSUME NEW i \in joined, Call(t, i) PROVE TypeInv'
    <2>1. TableType' /\ ConnType' /\ RefType' /\ SendType' /\ OpType' /\ HistType'
      BY <1>0, <1>3 DEF Call, TableType, ConnType, RefType, SendType, OpType, HistType
    <2>2. LocalType'
      BY <1>0, <1>3 DEF Call, LocalType, HistType
    <2>3. PcType'
      BY <1>0, <1>3, LabelFacts DEF Call, PcType
    <2>4. RolesInv'
      BY <1>0, <1>3 DEF Call, RolesInv, AcceptorLabels, InsertLabels, PcType, LocalType, ConnType
    <2> QED
      BY <2>1, <2>2, <2>3, <2>4 DEF TypeInv, TypeOK
  <1> QED
    BY <1>1, <1>2, <1>3

LEMMA TypeStep == TypeInv /\ [Next]_vars => TypeInv'
  <1> SUFFICES ASSUME TypeInv, [Next]_vars PROVE TypeInv'
    OBVIOUS
  <1>1. ASSUME NEW t \in Threads, Step(t) PROVE TypeInv'
    BY <1>1, AcceptStepType, CompletionStepType, CallStepType, ReleaseStepType DEF Step
  <1>2. CASE UNCHANGED vars
    BY <1>2 DEF vars, tableVars, refVars, connVars, sendVars, opVars, histVars, localVars,
                TypeInv, TypeOK, TableType, ConnType, RefType, SendType, OpType, HistType,
                PcType, LocalType, RolesInv
  <1> QED
    BY <1>1, <1>2, NewWorkType DEF Next

\* Type correctness of the session table and of every thread working on it.
THEOREM TypeCorrect == Spec => []TypeOK
  <1>1. TypeInv => TypeOK
    BY DEF TypeInv
  <1> QED
    BY InitType, TypeStep, <1>1, PTL DEF Spec

-----------------------------------------------------------------------------
(* The index stack.  Most steps leave the table alone: they move one thread *)
(* that already has a slot, past or before the critical labels.            *)

Neutral(t) ==
    /\ UNCHANGED <<stack, sessionCount, released>>
    /\ pc[t] \notin PreInsert \cup {"idle", "acPop", "relCount"}
    /\ pc'[t] \notin PreInsert \cup {"acPop", "relCount"}
    /\ pc'[t] \in ReleaseBody => pc[t] \in ReleaseBody /\ slot'[t] = slot[t]
    /\ pc[t] \in {"acOne", "acCount"} <=> pc'[t] \in {"acOne", "acCount"}
    /\ slot'[t] \in {slot[t], NoSlot}
    /\ \A u \in Threads \ {t} : pc'[u] = pc[u] /\ slot'[u] = slot[u]
    /\ \A s \in Slots \ {slot[t]} : recvOps'[s] = recvOps[s] /\ sendOps'[s] = sendOps[s]
    /\ joined' \subseteq joined \cup {id[slot[t]]}

LEMMA NeutralSteps ==
    ASSUME TypeInv, NEW t \in Threads,
           \/ InsertOne(t) \/ Associate(t) \/ AssociateFailed(t) \/ OnClientJoin(t)
           \/ CompletionStep(t) \/ CallStep(t)
           \/ ReleaseTest(t) \/ ReleaseClose(t) \/ OnClientLeave(t) \/ ReleaseDrain(t)
           \/ ReleaseClear(t)
    PROVE  Neutral(t)
  <1> USE DEF tableVars, refVars, connVars, sendVars, opVars, histVars, localVars, Goto,
              Neutral, PreInsert, ReleaseBody
  <1>0. /\ pc \in [Threads -> Labels]
        /\ slot \in [Threads -> Slots \cup {NoSlot}]
        /\ ret \in [Threads -> {"idle", "drop"}]
        /\ recvOps \in [Slots -> Nat] /\ sendOps \in [Slots -> Nat]
    BY DEF TypeInv, TypeOK, PcType, LocalType, OpType
  <1>1. CASE InsertOne(t)
    BY <1>0, <1>1 DEF InsertOne
  <1>2. CASE Associate(t)
    BY <1>0, <1>2 DEF Associate
  <1>3. CASE AssociateFailed(t)
    BY <1>0, <1>3 DEF AssociateFailed
  <1>4. CASE OnClientJoin(t)
    BY <1>0, <1>4 DEF OnClientJoin
  <1>5. CASE RecvComplete(t)
    BY <1>0, <1>5 DEF RecvComplete
  <1>6. CASE SendComplete(t)
    BY <1>0, <1>6 DEF SendComplete
  <1>7. CASE SendCompleteFlag(t)
    BY <1>0, <1>7 DEF SendCompleteFlag
  <1>8. CASE PostRecvRef(t)
    BY <1>0, <1>8 DEF PostRecvRef
  <1>9. CASE PostRecv(t)
    BY <1>0, <1>9 DEF PostRecv
  <1>10. CASE PostSendTest(t)
    BY <1>0, <1>10 DEF PostSendTest
  <1>11. CASE PostSendCas(t)
    BY <1>0, <1>11 DEF PostSendCas
  <1>12. CASE PostSendRetest(t)
    BY <1>0, <1>12 DEF PostSendRetest
  <1>13. CASE PostSendReset(t)
    BY <1>0, <1>13 DEF PostSendReset
  <1>14. CASE PostSendRef(t)
    BY <1>0, <1>14 DEF PostSendRef
  <1>15. CASE PostSend(t)
    BY <1>0, <1>15 DEF PostSend
  <1>16. CASE PostFailed(t)
    BY <1>0, <1>16 DEF PostFailed
  <1>17. CASE Drop(t)
    BY <1>0, <1>17 DEF Drop, Forget
  <1>18. CASE CheckReleased(t)
    BY <1>0, <1>18 DEF CheckReleased, Forget
  <1>19. CASE CheckRef(t)
    BY <1>0, <1>19 DEF CheckRef
  <1>20. CASE CheckId(t)
    BY <1>0, <1>20 DEF CheckId
  <1>21. CASE CheckReleasedAgain(t)
    BY <1>0, <1>21 DEF CheckReleasedAgain
  <1>22. CASE Enqueue(t)
    BY <1>0, <1>22 DEF Enqueue
  <1>23. CASE Disconnect(t)
    BY <1>0, <1>23 DEF Disconnect
  <1>24. CASE ReleaseTest(t)
    BY <1>0, <1>24 DEF ReleaseTest, Return, Forget
  <1>25. CASE ReleaseClose(t)
    BY <1>0, <1>25 DEF ReleaseClose
  <1>26. CASE OnClientLeave(t)
    BY <1>0, <1>26 DEF OnClientLeave
  <1>27. CASE ReleaseDrain(t)
    BY <1>0, <1>27 DEF ReleaseDrain
  <1>28. CASE ReleaseClear(t)
    BY <1>0, <1>28 DEF ReleaseClear
  <1> QED
    BY <1>1, <1>2, <1>3, <1>4, <1>5, <1>6, <1>7, <1>8, <1>9, <1>10, <1>11, <1>12,
       <1>13, <1>14, <1>15, <1>16, <1>17, <1>18, <1>19, <1>20, <1>21, <1>22,
       <1>23, <1>24, <1>25, <1>26, <1>27, <1>28
       DEF CompletionStep, CallStep

\* The part of the invariant about who owns a slot; the count is dealt with below.
PlaceInv == OwnerInv /\ NoDuplicates /\ SingleRelease

\* What a step must leave alone for the owners of the slots to stay as they were.
LEMMA PlaceFrame ==
    ASSUME TypeInv, PlaceInv,
           UNCHANGED <<stack, released>>,
           \A u \in Threads : Releasing(u)' => Releasing(u) /\ slot'[u] = slot[u],
           pc'[Acceptor] \in PreInsert =>
               pc[Acceptor] \in PreInsert /\ slot'[Acceptor] = slot[Acceptor],
           \A s \in Slots : NeverUsed(s) => NeverUsed(s)'
    PROVE  PlaceInv'
  <1>1. \A s : Free(s)' <=> Free(s)
    BY DEF Free
  <1>2. NoDuplicates'
    BY DEF PlaceInv, NoDuplicates
  <1>3. SingleRelease'
    <2> SUFFICES ASSUME NEW u \in Threads, Releasing(u)'
                 PROVE  /\ ~Free(slot[u])'
                        /\ \A v \in Threads : Releasing(v)' /\ slot'[v] = slot'[u] => v = u
      BY DEF SingleRelease
    <2>1. Free(slot[u])' <=> Free(slot[u])
      BY DEF Free
    <2> QED
      BY <2>1 DEF PlaceInv, SingleRelease
  <1>4. OwnerInv'
    <2>1. \A u \in Threads : Releasing(u)' => released'[slot'[u]]
      BY DEF PlaceInv, OwnerInv
    <2>2. \A s \in Slots : Free(s)' => released'[s] \/ NeverUsed(s)'
      BY <1>1 DEF PlaceInv, OwnerInv
    <2>3. ASSUME pc'[Acceptor] \in PreInsert
          PROVE  /\ ~Free(slot[Acceptor])'
                 /\ \A u \in Threads : Releasing(u)' => slot'[u] # slot'[Acceptor]
                 /\ released'[slot'[Acceptor]] \/ NeverUsed(slot[Acceptor])'
      <3>1. slot[Acceptor] \in Slots
        BY <2>3, ThreadFacts DEF TypeInv, RolesInv, PreInsert
      <3>2. Free(slot[Acceptor])' <=> Free(slot[Acceptor])
        BY <2>3 DEF Free
      <3> QED
        BY <2>3, <3>1, <3>2 DEF PlaceInv, OwnerInv
    <2> QED
      BY <2>1, <2>2, <2>3 DEF OwnerInv
  <1> QED
    BY <1>2, <1>3, <1>4 DEF PlaceInv

LEMMA NeutralKeepsPlace ==
    ASSUME TypeInv, PlaceInv, NEW t \in Threads, Neutral(t)
    PROVE  PlaceInv'
  <1>0. /\ pc[t] \notin {"idle", "acPop"} => slot[t] \in Slots
        /\ \A s \in Slots : id[s].index \in {s, -1}
    BY DEF TypeInv, RolesInv
  <1>1. \A u \in Threads : Releasing(u)' => Releasing(u) /\ slot'[u] = slot[u]
    BY DEF Neutral, Releasing
  <1>2. pc'[Acceptor] \in PreInsert =>
            pc[Acceptor] \in PreInsert /\ slot'[Acceptor] = slot[Acceptor]
    BY ThreadFacts DEF Neutral
  <1>3. ASSUME NEW s \in Slots, NeverUsed(s) PROVE NeverUsed(s)'
    <2>1. slot[t] # s /\ slot[t] \in Slots
      BY <1>0, <1>3 DEF NeverUsed, Neutral
    <2>2. \A u \in Threads : slot'[u] = s => u = Acceptor /\ pc'[u] \in PreInsert
      <3> SUFFICES ASSUME NEW u \in Threads, slot'[u] = s
                   PROVE  u = Acceptor /\ pc'[u] \in PreInsert
        OBVIOUS
      <3>1. u # t
        BY <2>1, SlotsAssumption DEF Neutral, NoSlot, Slots
      <3> QED
        BY <1>3, <3>1 DEF Neutral, NeverUsed
    <2>3. recvOps'[s] = 0 /\ sendOps'[s] = 0
      BY <1>3, <2>1 DEF Neutral, NeverUsed
    <2>4. \A i \in joined' : GetSessionIndex(i) # s
      BY <1>0, <1>3, <2>1, SlotsAssumption DEF Neutral, NeverUsed, GetSessionIndex, Slots
    <2> QED
      BY <2>2, <2>3, <2>4 DEF NeverUsed
  <1> QED
    BY <1>1, <1>2, <1>3, PlaceFrame DEF Neutral

\* Steps that only move a thread, without letting go of what it holds.
LEMMA MovesKeepPlace ==
    ASSUME TypeInv, PlaceInv, NEW t \in Threads,
           \/ Accept(t) \/ InsertFields(t) \/ InsertZero(t) \/ InsertCount(t)
           \/ ReleaseCount(t)
           \/ \E s \in Slots : Take(t, s)
           \/ \E i \in joined : Call(t, i)
    PROVE  PlaceInv'
  <1> USE DEF tableVars, refVars, connVars, sendVars, opVars, histVars, localVars, Goto
  <1>0. /\ pc \in [Threads -> Labels]
        /\ slot \in [Threads -> Slots \cup {NoSlot}]
        /\ ret \in [Threads -> {"idle", "drop"}]
        /\ recvOps \in [Slots -> Nat] /\ sendOps \in [Slots -> Nat]
        /\ \A s \in Slots : s # NoSlot
    BY SlotsAssumption DEF TypeInv, TypeOK, PcType, LocalType, OpType, Slots, NoSlot
  <1>1. CASE Accept(t) \/ InsertCount(t) \/ ReleaseCount(t)
    <2>1. \A u \in Threads : Releasing(u)' => Releasing(u) /\ slot'[u] = slot[u]
      BY <1>0, <1>1 DEF Accept, InsertCount, ReleaseCount, Return, Forget, Releasing, ReleaseBody
    <2>2. pc'[Acceptor] \in PreInsert =>
            pc[Acceptor] \in PreInsert /\ slot'[Acceptor] = slot[Acceptor]
      BY <1>0, <1>1, ThreadFacts
      DEF Accept, InsertCount, ReleaseCount, Return, Forget, PreInsert
    <2>3. \A s \in Slots : NeverUsed(s) => NeverUsed(s)'
      BY <1>0, <1>1 DEF Accept, InsertCount, ReleaseCount, Return, Forget, PreInsert, NeverUsed
    <2> QED
      BY <1>1, <2>1, <2>2, <2>3, PlaceFrame DEF Accept, InsertCount, ReleaseCount
  <1>2. CASE InsertFields(t) \/ InsertZero(t)
    <2>1. \A u \in Threads : Releasing(u)' => Releasing(u) /\ slot'[u] = slot[u]
      BY <1>0, <1>2 DEF InsertFields, InsertZero, Releasing, ReleaseBody
    <2>2. pc'[Acceptor] \in PreInsert =>
            pc[Acceptor] \in PreInsert /\ slot'[Acceptor] = slot[Acceptor]
      BY <1>0, <1>2, ThreadFacts DEF InsertFields, InsertZero, PreInsert
    <2>3. \A s \in Slots : NeverUsed(s) => NeverUsed(s)'
      BY <1>0, <1>2 DEF InsertFields, InsertZero, PreInsert, NeverUsed
    <2> QED
      BY <1>2, <2>1, <2>2, <2>3, PlaceFrame DEF InsertFields, InsertZero
  <1>3. ASSUME NEW x \in Slots, Take(t, x) PROVE PlaceInv'
    <2>0. /\ recvOps[x] # 0 \/ sendOps[x] # 0
          /\ UNCHANGED <<stack, released, joined>>
          /\ slot' = [slot EXCEPT ![t] = x]
          /\ pc[t] = "idle"
          /\ pc'[t] \notin PreInsert \cup ReleaseBody
          /\ \A u \in Threads \ {t} : pc'[u] = pc[u]
          /\ \A s \in Slots \ {x} : recvOps'[s] = recvOps[s] /\ sendOps'[s] = sendOps[s]
      BY <1>0, <1>3 DEF Take, TakeRecv, TakeSend, TakeDown, PreInsert, ReleaseBody
    <2>1. \A u \in Threads : Releasing(u)' => Releasing(u) /\ slot'[u] = slot[u]
      BY <1>0, <2>0 DEF Releasing
    <2>2. pc'[Acceptor] \in PreInsert =>
            pc[Acceptor] \in PreInsert /\ slot'[Acceptor] = slot[Acceptor]
      BY <1>0, <2>0, ThreadFacts
    <2>3. \A s \in Slots : NeverUsed(s) => NeverUsed(s)'
      BY <1>0, <2>0 DEF NeverUsed
    <2> QED
      BY <2>0, <2>1, <2>2, <2>3, PlaceFrame
  <1>4. ASSUME NEW i \in joined, Call(t, i) PROVE PlaceInv'
    <2>1. \A u \in Threads : Releasing(u)' => Releasing(u) /\ slot'[u] = slot[u]
      BY <1>0, <1>4 DEF Call, Releasing, ReleaseBody
    <2>2. pc'[Acceptor] \in PreInsert =>
            pc[Acceptor] \in PreInsert /\ slot'[Acceptor] = slot[Acceptor]
      BY <1>0, <1>4, ThreadFacts DEF Call, PreInsert
    <2>3. \A s \in Slots : NeverUsed(s) => NeverUsed(s)'
      BY <1>0, <1>4 DEF Call, NeverUsed
    <2> QED
      BY <1>4, <2>1, <2>2, <2>3, PlaceFrame DEF Call
  <1> QED
    BY <1>1, <1>2, <1>3, <1>4

\* The accept thread takes the top index, which nobody else holds.
LEMMA PopKeepsPlace ==
    ASSUME TypeInv, PlaceInv, NEW t \in Threads, PopIndex(t)
    PROVE  PlaceInv'
  <1> DEFINE top == Head(stack)
  <1>0. /\ t = Acceptor
        /\ pc' = [pc EXCEPT ![t] = "acInit"]
        /\ slot' = [slot EXCEPT ![t] = top]
        /\ stack' = Tail(stack)
        /\ UNCHANGED <<released, recvOps, sendOps, joined>>
        /\ pc \in [Threads -> Labels]
        /\ slot \in [Threads -> Slots \cup {NoSlot}]
        /\ stack \in Seq(Slots) /\ stack # <<>>
    BY DEF PopIndex, Goto, refVars, opVars, histVars, TypeInv, TypeOK, TableType, PcType,
           LocalType, RolesInv, AcceptorLabels
  <1>1. /\ Len(stack) \in Nat /\ Len(stack) > 0
        /\ top = stack[1] /\ top \in Slots
        /\ Len(stack') = Len(stack) - 1
        /\ \A j \in 1 .. Len(stack') : stack'[j] = stack[j + 1]
    BY <1>0
  <1>2. Free(top)
    BY <1>1 DEF Free
  <1>3. \A s : Free(s)' => Free(s) /\ s # top
    BY <1>1 DEF Free, PlaceInv, NoDuplicates
  <1>4. NoDuplicates'
    <2> SUFFICES ASSUME NEW i \in 1 .. Len(stack'), NEW j \in 1 .. Len(stack'),
                        stack'[i] = stack'[j]
                 PROVE  i = j
      BY DEF NoDuplicates
    <2>1. i + 1 \in 1 .. Len(stack) /\ j + 1 \in 1 .. Len(stack)
      BY <1>1
    <2>2. i + 1 = j + 1
      BY <1>1, <2>1 DEF PlaceInv, NoDuplicates
    <2> QED
      BY <2>2, <1>1
  <1>5. \A u \in Threads : Releasing(u)' => Releasing(u) /\ slot'[u] = slot[u] /\ u # t
    BY <1>0 DEF Releasing, ReleaseBody
  <1>6. SingleRelease'
    <2> SUFFICES ASSUME NEW u \in Threads, Releasing(u)'
                 PROVE  /\ ~Free(slot[u])'
                        /\ \A v \in Threads : Releasing(v)' /\ slot'[v] = slot'[u] => v = u
      BY DEF SingleRelease
    <2>1. Free(slot[u])' => Free(slot[u])
      BY <1>5, <1>1 DEF Free
    <2> QED
      BY <1>5, <2>1 DEF PlaceInv, SingleRelease
  <1>7. ASSUME NEW s \in Slots, NeverUsed(s) PROVE NeverUsed(s)'
    BY <1>0, <1>7 DEF NeverUsed, PreInsert
  <1>8. OwnerInv'
    <2>1. \A u \in Threads : Releasing(u)' => released'[slot'[u]]
      BY <1>0, <1>5 DEF PlaceInv, OwnerInv
    <2>2. \A s \in Slots : Free(s)' => released'[s] \/ NeverUsed(s)'
      BY <1>0, <1>3, <1>7 DEF PlaceInv, OwnerInv
    <2>3. slot'[Acceptor] = top
      BY <1>0
    <2>4. ~Free(slot[Acceptor])'
      <3> SUFFICES ASSUME Free(slot[Acceptor])' PROVE FALSE
        OBVIOUS
      <3>1. PICK j \in 1 .. Len(stack') : stack'[j] = top
        BY <2>3 DEF Free
      <3>2. j + 1 \in 1 .. Len(stack) /\ stack[j + 1] = stack[1] /\ 1 \in 1 .. Len(stack)
        BY <1>1, <3>1
      <3> QED
        BY <3>2 DEF PlaceInv, NoDuplicates
    <2>5. \A u \in Threads : Releasing(u)' => slot'[u] # slot'[Acceptor]
      BY <1>2, <1>5, <2>3 DEF PlaceInv, SingleRelease
    <2>6. released[top] \/ NeverUsed(top)
      BY <1>1, <1>2 DEF PlaceInv, OwnerInv
    <2>7. released'[slot'[Acceptor]] \/ NeverUsed(slot[Acceptor])'
      <3>1. NeverUsed(top) => NeverUsed(slot[Acceptor])'
        BY <1>0, <1>1, <2>3 DEF NeverUsed, PreInsert
      <3> QED
        BY <1>0, <2>3, <2>6, <3>1
    <2> QED
      BY <2>1, <2>2, <2>4, <2>5, <2>7 DEF OwnerInv
  <1> QED
    BY <1>4, <1>6, <1>8 DEF PlaceInv

\* Lowering the flag: the slot is neither free nor being released at that moment.
LEMMA FlagKeepsPlace ==
    ASSUME TypeInv, PlaceInv, NEW t \in Threads, InsertFlag(t)
    PROVE  PlaceInv'
  <1>0. /\ t = Acceptor
        /\ pc[t] = "acFlag" /\ pc' = [pc EXCEPT ![t] = "acOne"]
        /\ released' = [released EXCEPT ![slot[t]] = FALSE]
        /\ UNCHANGED <<stack, slot, recvOps, sendOps, joined>>
        /\ pc \in [Threads -> Labels]
        /\ released \in [Slots -> BOOLEAN]
        /\ slot[t] \in Slots
    BY DEF InsertFlag, Goto, tableVars, opVars, histVars, localVars, TypeInv, TypeOK, PcType,
           RefType, RolesInv, AcceptorLabels, InsertLabels
  <1>1. \A s : Free(s)' <=> Free(s)
    BY <1>0 DEF Free
  <1>2. \A u \in Threads : Releasing(u)' <=> Releasing(u)
    BY <1>0 DEF Releasing, ReleaseBody
  <1>3. /\ ~Free(slot[t])
        /\ \A u \in Threads : Releasing(u) => slot[u] # slot[t]
    BY <1>0 DEF PlaceInv, OwnerInv, PreInsert
  <1>4. NoDuplicates'
    BY <1>0 DEF PlaceInv, NoDuplicates
  <1>5. SingleRelease'
    <2>1. \A u \in Threads : Free(slot[u])' <=> Free(slot[u])
      BY <1>0 DEF Free
    <2> QED
      BY <1>0, <1>2, <2>1 DEF PlaceInv, SingleRelease
  <1>6. OwnerInv'
    <2>1. \A u \in Threads : Releasing(u)' => released'[slot'[u]]
      BY <1>0, <1>2, <1>3 DEF PlaceInv, OwnerInv
    <2>2. ASSUME NEW s \in Slots, Free(s)' PROVE released'[s] \/ NeverUsed(s)'
      <3>1. Free(s) /\ s # slot[t]
        BY <1>1, <1>3, <2>2
      <3>2. released'[s] = released[s]
        BY <1>0, <3>1
      <3>3. NeverUsed(s) => NeverUsed(s)'
        BY <1>0, <3>1 DEF NeverUsed
      <3> QED
        BY <3>1, <3>2, <3>3 DEF PlaceInv, OwnerInv
    <2>3. pc'[Acceptor] \notin PreInsert
      BY <1>0 DEF PreInsert
    <2> QED
      BY <2>1, <2>2, <2>3 DEF OwnerInv
  <1> QED
    BY <1>4, <1>5, <1>6 DEF PlaceInv

\* A compare and swap that succeeds saw the flag down, so no thread is in the body of
\* SessionRelease for that slot and the slot is not free.
LEMMA CasKeepsPlace ==
    ASSUME TypeInv, PlaceInv, NEW t \in Threads, ReleaseCas(t)
    PROVE  PlaceInv'
  <1>0. /\ pc \in [Threads -> Labels] /\ pc[t] = "relCas" /\ slot[t] \in Slots
        /\ slot \in [Threads -> Slots \cup {NoSlot}]
        /\ ret \in [Threads -> {"idle", "drop"}]
        /\ released \in [Slots -> BOOLEAN]
        /\ UNCHANGED <<stack, sessionCount, joined, recvOps, sendOps>>
    BY DEF ReleaseCas, Return, Goto, tableVars, opVars, histVars, TypeInv, TypeOK, PcType,
           LocalType, RefType, RolesInv
  <1>1. CASE io[slot[t]] # 0 \/ released[slot[t]]
    <2>1. Return(t, "relCas") /\ UNCHANGED released
      BY <1>1 DEF ReleaseCas
    <2>2. Neutral(t)
      BY <1>0, <2>1 DEF Neutral, Return, Goto, Forget, PreInsert, ReleaseBody
    <2> QED
      BY <2>2, NeutralKeepsPlace
  <1>2. CASE io[slot[t]] = 0 /\ ~released[slot[t]]
    <2>0. /\ pc' = [pc EXCEPT ![t] = "relClose"]
          /\ slot' = slot
          /\ released' = [released EXCEPT ![slot[t]] = TRUE]
      BY <1>0, <1>2 DEF ReleaseCas, Return, Goto, localVars
    <2>1. \A s : Free(s)' <=> Free(s)
      BY <1>0 DEF Free
    <2>2. \A u \in Threads : Releasing(u)' <=> Releasing(u) \/ u = t
      BY <1>0, <2>0 DEF Releasing, ReleaseBody
    <2>3. ~NeverUsed(slot[t])
      BY <1>0 DEF NeverUsed, PreInsert
    <2>4. ~Free(slot[t])
      BY <1>0, <1>2, <2>3 DEF PlaceInv, OwnerInv
    <2>5. \A u \in Threads : Releasing(u) => slot[u] # slot[t]
      BY <1>2 DEF PlaceInv, OwnerInv
    <2>6. pc'[Acceptor] \in PreInsert => pc[Acceptor] \in PreInsert /\ t # Acceptor
      BY <1>0, <2>0, ThreadFacts DEF PreInsert
    <2>7. pc[Acceptor] \in PreInsert => slot[Acceptor] # slot[t]
      BY <1>2, <2>3 DEF PlaceInv, OwnerInv
    <2>8. ASSUME NEW s \in Slots, NeverUsed(s) PROVE NeverUsed(s)'
      BY <1>0, <2>0, <2>8 DEF NeverUsed, PreInsert
    <2>9. NoDuplicates'
      BY <1>0 DEF PlaceInv, NoDuplicates
    <2>10. SingleRelease'
      <3>1. \A u \in Threads : Free(slot[u])' <=> Free(slot[u])
        BY <1>0, <2>0 DEF Free
      <3> QED
        BY <2>0, <2>2, <2>4, <2>5, <3>1 DEF PlaceInv, SingleRelease
    <2>11. OwnerInv'
      <3>1. \A u \in Threads : Releasing(u)' => released'[slot'[u]]
        BY <1>0, <2>0, <2>2, <2>5 DEF PlaceInv, OwnerInv
      <3>2. \A s \in Slots : Free(s)' => released'[s] \/ NeverUsed(s)'
        BY <1>0, <2>0, <2>1, <2>8 DEF PlaceInv, OwnerInv
      <3>3. ASSUME pc'[Acceptor] \in PreInsert
            PROVE  /\ ~Free(slot[Acceptor])'
                   /\ \A u \in Threads : Releasing(u)' => slot'[u] # slot'[Acceptor]
                   /\ released'[slot'[Acceptor]] \/ NeverUsed(slot[Acceptor])'
        <4>1. slot[Acceptor] \in Slots /\ slot[Acceptor] # slot[t]
          BY <2>6, <2>7, <3>3, ThreadFacts DEF TypeInv, RolesInv, PreInsert
        <4>2. Free(slot[Acceptor])' <=> Free(slot[Acceptor])
          BY <1>0, <2>0 DEF Free
        <4>3. NeverUsed(slot[Acceptor]) => NeverUsed(slot[Acceptor])'
          BY <1>0, <2>0 DEF NeverUsed, PreInsert
        <4> QED
          BY <1>0, <2>0, <2>2, <2>6, <3>3, <4>1, <4>2, <4>3 DEF PlaceInv, OwnerInv
      <3> QED
        BY <3>1, <3>2, <3>3 DEF OwnerInv
    <2> QED
      BY <2>9, <2>10, <2>11 DEF PlaceInv
  <1> QED
    BY <1>1, <1>2, <1>0

\* The index given back was not on the stack, and its flag is up.
LEMMA PushKeepsPlace ==
    ASSUME TypeInv, PlaceInv, NEW t \in Threads, PushIndex(t)
    PROVE  PlaceInv'
  <1>0. /\ pc[t] = "relPush" /\ pc' = [pc EXCEPT ![t] = "relCount"]
        /\ stack' = <<slot[t]>> \o stack
        /\ UNCHANGED <<released, slot, recvOps, sendOps, joined>>
        /\ pc \in [Threads -> Labels]
        /\ slot[t] \in Slots /\ stack \in Seq(Slots)
    BY DEF PushIndex, Goto, refVars, opVars, histVars, localVars, TypeInv, TypeOK, TableType,
           PcType, RolesInv
  <1>1. Releasing(t) /\ released[slot[t]] /\ ~Free(slot[t])
    BY <1>0 DEF Releasing, ReleaseBody, PlaceInv, OwnerInv, SingleRelease
  <1>2. /\ Len(stack) \in Nat /\ Len(stack') = Len(stack) + 1
        /\ stack'[1] = slot[t]
        /\ \A j \in 1 .. Len(stack) : stack'[j + 1] = stack[j]
        /\ \A j \in 2 .. Len(stack') : stack'[j] = stack[j - 1] /\ j - 1 \in 1 .. Len(stack)
    BY <1>0
  <1>3. \A s : Free(s)' => Free(s) \/ s = slot[t]
    BY <1>2 DEF Free
  <1>4. \A u \in Threads : Releasing(u)' => Releasing(u) /\ u # t
    BY <1>0 DEF Releasing, ReleaseBody
  <1>5. NoDuplicates'
    <2> SUFFICES ASSUME NEW i \in 1 .. Len(stack'), NEW j \in 1 .. Len(stack'),
                        stack'[i] = stack'[j]
                 PROVE  i = j
      BY DEF NoDuplicates
    <2>1. \A k \in 2 .. Len(stack') : stack'[k] # slot[t]
      BY <1>1, <1>2 DEF Free
    <2>2. CASE i = 1 \/ j = 1
      BY <1>2, <2>1, <2>2
    <2>3. CASE i # 1 /\ j # 1
      <3>1. i - 1 \in 1 .. Len(stack) /\ j - 1 \in 1 .. Len(stack)
            /\ stack[i - 1] = stack[j - 1]
        BY <1>2, <2>3
      <3>2. i - 1 = j - 1
        BY <3>1 DEF PlaceInv, NoDuplicates
      <3> QED
        BY <3>2, <1>2
    <2> QED
      BY <2>2, <2>3
  <1>6. SingleRelease'
    <2> SUFFICES ASSUME NEW u \in Threads, Releasing(u)'
                 PROVE  /\ ~Free(slot[u])'
                        /\ \A v \in Threads : Releasing(v)' /\ slot'[v] = slot'[u] => v = u
      BY DEF SingleRelease
    <2>1. Releasing(u) /\ slot[u] # slot[t]
      BY <1>1, <1>4 DEF PlaceInv, SingleRelease
    <2>2. Free(slot[u])' => Free(slot[u]) \/ slot[u] = slot[t]
      BY <1>0, <1>2 DEF Free
    <2> QED
      BY <1>0, <1>4, <2>1, <2>2 DEF PlaceInv, SingleRelease
  <1>7. ASSUME NEW s \in Slots, NeverUsed(s) PROVE NeverUsed(s)'
    BY <1>0, <1>7 DEF NeverUsed, PreInsert
  <1>8. OwnerInv'
    <2>1. \A u \in Threads : Releasing(u)' => released'[slot'[u]]
      BY <1>0, <1>4 DEF PlaceInv, OwnerInv
    <2>2. \A s \in Slots : Free(s)' => released'[s] \/ NeverUsed(s)'
      BY <1>0, <1>1, <1>3, <1>7 DEF PlaceInv, OwnerInv
    <2>3. ASSUME pc'[Acceptor] \in PreInsert
          PROVE  /\ ~Free(slot[Acceptor])'
                 /\ \A u \in Threads : Releasing(u)' => slot'[u] # slot'[Acceptor]
                 /\ released'[slot'[Acceptor]] \/ NeverUsed(slot[Acceptor])'
      <3>1. pc[Acceptor] \in PreInsert /\ slot[Acceptor] \in Slots
        BY <1>0, <2>3, ThreadFacts DEF TypeInv, RolesInv, PreInsert
      <3>2. slot[t] # slot[Acceptor]
        BY <1>1, <3>1 DEF PlaceInv, OwnerInv
      <3>3. Free(slot[Acceptor])' => Free(slot[Acceptor]) \/ slot[Acceptor] = slot[t]
        BY <1>0, <1>2 DEF Free
      <3> QED
        BY <1>0, <1>4, <1>7, <3>1, <3>2, <3>3 DEF PlaceInv, OwnerInv, NeverUsed
    <2> QED
      BY <2>1, <2>2, <2>3 DEF OwnerInv
  <1> QED
    BY <1>5, <1>6, <1>8 DEF PlaceInv

\* sessionCount is lowered only after the index is back, and raised only after an index was
\* taken: the sum of both, corrected for the threads in between, never changes.
LEMMA CountingFinite ==
    ASSUME TypeInv
    PROVE  IsFiniteSet(Counting) /\ Cardinality(Counting) \in Nat /\ Len(stack) \in Nat
  <1>1. Counting \subseteq Threads
    BY DEF Counting
  <1> QED
    BY <1>1, ThreadFacts, FS_Subset, FS_CardinalityType DEF TypeInv, TypeOK, TableType

PoolInv == CountInv /\ PopFinds

\* Steps that touch neither the stack nor the count, nor move a thread across the labels
\* the sum corrects for.
LEMMA PoolFrame ==
    ASSUME TypeInv, PoolInv, UNCHANGED <<stack, sessionCount>>,
           Counting' = Counting, Uncounted' = Uncounted,
           \A u \in Threads : pc'[u] = "acPop" => pc[u] = "acPop"
    PROVE  PoolInv'
  BY DEF PoolInv, CountInv, PopFinds

LEMMA PoolStep ==
    ASSUME TypeInv, PoolInv, NEW t \in Threads,
           \/ Step(t) \/ Accept(t)
           \/ \E s \in Slots : Take(t, s)
           \/ \E i \in joined : Call(t, i)
    PROVE  PoolInv'
  <1> USE DEF tableVars, refVars, connVars, sendVars, opVars, histVars, localVars, Goto
  <1>0. /\ pc \in [Threads -> Labels] /\ stack \in Seq(Slots)
        /\ sessionCount \in Int /\ NSlots \in Nat
        /\ ret \in [Threads -> {"idle", "drop"}]
        /\ Acceptor \in Threads
        /\ pc[t] \in AcceptorLabels => t = Acceptor
        /\ slot[t] \in Slots \cup {NoSlot}
    BY ThreadFacts, SlotsAssumption
    DEF TypeInv, TypeOK, TableType, PcType, LocalType, RolesInv
  <1>1. ASSUME Neutral(t) PROVE PoolInv'
    <2>1. Counting' = Counting
      BY <1>1 DEF Neutral, Counting
    <2>2. Uncounted' = Uncounted
      BY <1>0, <1>1 DEF Neutral, Uncounted
    <2>3. \A u \in Threads : pc'[u] = "acPop" => pc[u] = "acPop"
      BY <1>1 DEF Neutral
    <2> QED
      BY <1>1, <2>1, <2>2, <2>3, PoolFrame DEF Neutral
  <1>2. CASE \/ InsertFields(t) \/ InsertZero(t) \/ InsertFlag(t) \/ ReleaseCas(t)
             \/ \E s \in Slots : Take(t, s)
             \/ \E i \in joined : Call(t, i)
    <2>1. /\ UNCHANGED <<stack, sessionCount>>
          /\ \A u \in Threads \ {t} : pc'[u] = pc[u]
          /\ pc[t] # "relCount" /\ pc'[t] \notin {"relCount", "acPop"}
          /\ pc[t] \in PreInsert \cup {"acOne", "acCount"}
                <=> pc'[t] \in PreInsert \cup {"acOne", "acCount"}
      BY <1>0, <1>2
      DEF InsertFields, InsertZero, InsertFlag, ReleaseCas, Return, Take, TakeRecv, TakeSend,
          TakeDown, Call, PreInsert
    <2>2. Counting' = Counting
      BY <2>1 DEF Counting
    <2>3. Uncounted' = Uncounted
      BY <1>0, <2>1 DEF Uncounted
    <2> QED
      BY <2>1, <2>2, <2>3, PoolFrame
  <1>3. CASE Accept(t)
    <2>1. /\ UNCHANGED <<stack, sessionCount>>
          /\ pc[t] = "idle" /\ t = Acceptor /\ sessionCount < NSlots
          /\ pc' = [pc EXCEPT ![t] = "acPop"]
      BY <1>3 DEF Accept
    <2>2. Counting' = Counting
      BY <1>0, <2>1 DEF Counting
    <2>3. Uncounted = 0 /\ Uncounted' = 0
      BY <1>0, <2>1 DEF Uncounted, PreInsert
    <2>4. CountInv'
      BY <2>1, <2>2, <2>3 DEF PoolInv, CountInv
    <2>5. Len(stack) > 0
      BY <1>0, <2>1, <2>3, CountingFinite DEF PoolInv, CountInv
    <2>6. PopFinds'
      BY <2>1, <2>5 DEF PopFinds
    <2> QED
      BY <2>4, <2>6 DEF PoolInv
  <1>4. CASE PopIndex(t)
    <2>1. /\ stack # <<>> /\ stack' = Tail(stack) /\ sessionCount' = sessionCount
          /\ pc[t] = "acPop" /\ t = Acceptor
          /\ pc' = [pc EXCEPT ![t] = "acInit"]
      BY <1>0, <1>4 DEF PopIndex, AcceptorLabels
    <2>2. Counting' = Counting
      BY <1>0, <2>1 DEF Counting
    <2>3. Uncounted = 0 /\ Uncounted' = 1
      BY <1>0, <2>1 DEF Uncounted, PreInsert
    <2>4. Len(stack') = Len(stack) - 1
      BY <1>0, <2>1
    <2>5. CountInv'
      BY <1>0, <2>1, <2>2, <2>3, <2>4, CountingFinite DEF PoolInv, CountInv
    <2>6. PopFinds'
      BY <1>0, <2>1 DEF PopFinds, TypeInv, RolesInv, AcceptorLabels
    <2> QED
      BY <2>5, <2>6 DEF PoolInv
  <1>5. CASE InsertCount(t)
    <2>1. /\ UNCHANGED stack /\ sessionCount' = sessionCount + 1
          /\ pc[t] = "acCount" /\ t = Acceptor
          /\ pc' = [pc EXCEPT ![t] = "acAssoc"]
      BY <1>0, <1>5 DEF InsertCount, AcceptorLabels
    <2>2. Counting' = Counting
      BY <1>0, <2>1 DEF Counting
    <2>3. Uncounted = 1 /\ Uncounted' = 0
      BY <1>0, <2>1 DEF Uncounted, PreInsert
    <2>4. CountInv'
      BY <1>0, <2>1, <2>2, <2>3, CountingFinite DEF PoolInv, CountInv
    <2>5. PopFinds'
      BY <1>0, <2>1 DEF PopFinds, PoolInv
    <2> QED
      BY <2>4, <2>5 DEF PoolInv
  <1>6. CASE PushIndex(t)
    <2>1. /\ stack' = <<slot[t]>> \o stack /\ sessionCount' = sessionCount
          /\ pc[t] = "relPush" /\ pc' = [pc EXCEPT ![t] = "relCount"]
          /\ slot[t] \in Slots
      BY <1>6 DEF PushIndex, TypeInv, RolesInv
    <2>2. Counting' = Counting \cup {t} /\ t \notin Counting
      BY <1>0, <2>1 DEF Counting
    <2>3. Cardinality(Counting') = Cardinality(Counting) + 1
      BY <2>2, CountingFinite, FS_AddElement
    <2>4. Uncounted' = Uncounted
      BY <1>0, <2>1 DEF Uncounted, PreInsert
    <2>5. Len(stack') = Len(stack) + 1 /\ stack' # <<>>
      BY <1>0, <2>1
    <2>6. Uncounted \in Int
      BY DEF Uncounted
    <2>7. CountInv'
      <3>1. sessionCount' = sessionCount
        BY <2>1
      <3> QED
        BY <1>0, <2>3, <2>4, <2>5, <2>6, <3>1, CountingFinite DEF PoolInv, CountInv
    <2>8. PopFinds'
      BY <2>5 DEF PopFinds
    <2> QED
      BY <2>7, <2>8 DEF PoolInv
  <1>7. CASE ReleaseCount(t)
    <2>1. /\ UNCHANGED stack /\ sessionCount' = sessionCount - 1
          /\ pc[t] = "relCount" /\ pc' = [pc EXCEPT ![t] = ret[t]]
          /\ ret[t] \in {"idle", "drop"}
      BY <1>0, <1>7 DEF ReleaseCount, Return
    <2>2. Counting' = Counting \ {t} /\ t \in Counting
      BY <1>0, <2>1 DEF Counting
    <2>3. Cardinality(Counting') = Cardinality(Counting) - 1
      BY <2>2, CountingFinite, FS_RemoveElement
    <2>4. Uncounted' = Uncounted
      BY <1>0, <2>1 DEF Uncounted, PreInsert
    <2>5. Uncounted \in Int
      BY DEF Uncounted
    <2>6. CountInv'
      BY <1>0, <2>1, <2>3, <2>4, <2>5, CountingFinite DEF PoolInv, CountInv
    <2>7. PopFinds'
      BY <1>0, <2>1 DEF PopFinds, PoolInv
    <2> QED
      BY <2>6, <2>7 DEF PoolInv
  <1> QED
    BY <1>1, <1>2, <1>3, <1>4, <1>5, <1>6, <1>7, NeutralSteps
    DEF Step, AcceptStep, ReleaseStep

-----------------------------------------------------------------------------
(* The theorems.                                                           *)

LEMMA InitTable == Init => TableInv
  <1> SUFFICES ASSUME Init PROVE TableInv
    OBVIOUS
  <1>1. /\ NSlots \in Nat /\ Len(stack) = NSlots
        /\ \A i \in 1 .. NSlots : stack[i] = i - 1
    BY SlotsAssumption DEF Init
  <1>2. RolesInv
    BY InitType DEF TypeInv
  <1>3. PopFinds /\ NoDuplicates
    BY <1>1 DEF Init, PopFinds, NoDuplicates
  <1>4. SingleRelease
    BY DEF Init, SingleRelease, Releasing, ReleaseBody
  <1>5. OwnerInv
    <2>1. \A s \in Slots : NeverUsed(s)
      BY SlotsAssumption DEF Init, NeverUsed, NoSlot, Slots
    <2> QED
      BY <2>1, ThreadFacts DEF Init, OwnerInv, Releasing, ReleaseBody, PreInsert
  <1>6. CountInv
    <2>1. Counting = {}
      BY DEF Init, Counting
    <2>2. Uncounted = 0
      BY ThreadFacts DEF Init, Uncounted, PreInsert
    <2> QED
      BY <1>1, <2>1, <2>2, FS_EmptySet DEF Init, CountInv
  <1> QED
    BY <1>2, <1>3, <1>4, <1>5, <1>6 DEF TableInv, IndexPool

LEMMA TableStep == TypeInv /\ TableInv /\ [Next]_vars => TableInv'
  <1> SUFFICES ASSUME TypeInv, TableInv, [Next]_vars PROVE TableInv'
    OBVIOUS
  <1>0. PlaceInv /\ PoolInv
    BY DEF TableInv, IndexPool, PlaceInv, PoolInv
  <1>1. RolesInv'
    BY TypeStep DEF TypeInv
  <1>2. ASSUME NEW t \in Threads,
               \/ Step(t) \/ Accept(t)
               \/ \E s \in Slots : Take(t, s)
               \/ \E i \in joined : Call(t, i)
        PROVE  PlaceInv' /\ PoolInv'
    <2>1. PoolInv'
      BY <1>0, <1>2, PoolStep
    <2>2. PlaceInv'
      BY <1>0, <1>2, NeutralSteps, NeutralKeepsPlace, MovesKeepPlace, PopKeepsPlace,
         FlagKeepsPlace, CasKeepsPlace, PushKeepsPlace
      DEF Step, AcceptStep, ReleaseStep
    <2> QED
      BY <2>1, <2>2
  <1>3. ASSUME UNCHANGED vars PROVE PlaceInv' /\ PoolInv'
    <2>1. \A s : Free(s)' <=> Free(s)
      BY <1>3 DEF vars, tableVars, Free
    <2>2. PlaceInv'
      <3>1. \A u \in Threads : Releasing(u)' => Releasing(u) /\ slot'[u] = slot[u]
        BY <1>3 DEF vars, localVars, Releasing
      <3>2. \A s \in Slots : NeverUsed(s) => NeverUsed(s)'
        BY <1>3 DEF vars, localVars, opVars, histVars, NeverUsed
      <3> QED
        BY <1>0, <1>3, <3>1, <3>2, PlaceFrame DEF vars, tableVars, refVars, localVars
    <2>3. PoolInv'
      <3>1. Counting' = Counting /\ Uncounted' = Uncounted
        BY <1>3 DEF vars, Counting, Uncounted
      <3> QED
        BY <1>0, <1>3, <3>1, PoolFrame DEF vars, tableVars
    <2> QED
      BY <2>2, <2>3
  <1>4. PlaceInv' /\ PoolInv'
    BY <1>2, <1>3 DEF Next
  <1> QED
    BY <1>1, <1>4 DEF TableInv, IndexPool, PlaceInv, PoolInv

LEMMA TableCorrect == Spec => [](TypeInv /\ TableInv)
  BY InitType, TypeStep, InitTable, TableStep, PTL DEF Spec

\* PopIndex never reads the top of an empty stack and never hands one slot out twice, even
\* when a stale caller releases a session that is still being inserted.
THEOREM PoolCorrect == Spec => []IndexPool
  <1>1. TableInv => IndexPool
    BY DEF TableInv
  <1> QED
    BY <1>1, TableCorrect, PTL

\* One thread at a time runs the body of SessionRelease for a slot, and never for a free one.
THEOREM ReleaseOnce == Spec => []SingleRelease
  <1>1. TableInv => SingleRelease
    BY DEF TableInv
  <1> QED
    BY <1>1, TableCorrect, PTL
=============================================================================
