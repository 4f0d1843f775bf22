------------------------------- MODULE LFQueue -------------------------------
(***************************************************************************)
(* CQueue: the lock-free queue behind ChattingServer's message queue and   *)
(* the send queue of every session.  A linked list with a dummy node at    *)
(* the head; head and tail are pairs of a pointer and a number, each       *)
(* swapped as one 128-bit word, but read one half after the other.  Nodes  *)
(* come from a pool of the queue's own and are reused at once.             *)
(*                                                                         *)
(* The program has one thread at a time on the taking side: the update     *)
(* thread for m_MsgQ, the holder of bIsSend for SendBuffer.  Putters are   *)
(* the update thread for SendBuffer, the accept thread and the workers for *)
(* m_MsgQ.                                                                 *)
(***************************************************************************)
EXTENDS Integers, Sequences, FiniteSets, SequencesExt

CONSTANTS
    Producers,   \* the threads that call Enqueue
    Nodes,       \* what the pool may hand out
    Dummy,       \* m_pDummyNode: the first node handed out, by the constructor
    Null,        \* the null pointer
    MaxPut,      \* bound: calls of Enqueue
    MaxTake,     \* bound: calls of Dequeue
    Looks        \* whether the taking side calls Peek and isEmpty

ASSUME DummyIsNode  == Dummy \in Nodes
ASSUME NullIsNoNode == Null \notin Nodes
ASSUME Finite       == IsFiniteSet(Producers) /\ IsFiniteSet(Nodes)
ASSUME Bounds       == MaxPut \in Nat /\ MaxTake \in Nat /\ Looks \in BOOLEAN

Values == Producers \X (1 .. MaxPut)     \* the i-th value of a producer

VARIABLES
    head,       \* *m_pHead: [node, count]
    tail,       \* *m_pTail: [node, count]
    next,       \* NextNode of each node
    data,       \* data of each node
    size,       \* m_lSize
    headCount,  \* m_lHeadCount
    tailCount,  \* m_lTailCount
    used,       \* the nodes the pool has handed out
    pc,         \* where each producer is
    puts,       \* how many values it has put
    enq,        \* its locals in Enqueue
    cpc,        \* where the consumer is
    deq,        \* its locals in Dequeue, Peek and isEmpty
    owed,       \* history: values whose Enqueue had returned when this call began
    log         \* history: values taken, in order

counts   == <<size, headCount, tailCount>>
shared   == <<head, tail, next, data, counts, used>>
taker    == <<cpc, deq, owed, log>>
vars     == <<shared, pc, puts, enq, taker>>

NodePool == INSTANCE ObjectPool WITH Objects <- Nodes, out <- used

\* The values whose Enqueue was called, and those whose Enqueue has returned.
Begun    == {v \in Values : v[2] <= puts[v[1]]}
Returned == {v \in Begun : v[2] < puts[v[1]] \/ pc[v[1]] = "idle"}

NoTop == [node |-> Null, count |-> 0]

\* newNode, newCount, stCloneNode, m_pTail->pTopNode as read again, and what the second
\* swap is to store.
NoEnq == [new |-> Null, number |-> 0, clone |-> NoTop, at |-> Null, succ |-> Null]

\* newHead, stCloneHeadNode, stCloneTailNode, newCount, nextNode and later what a swap is
\* to store, the value read; targetNode, iPos and iPeekPos of Peek.
NoDeq == [number |-> 0, head |-> NoTop, tail |-> NoTop, tnumber |-> 0, succ |-> Null,
          got |-> Null, cursor |-> Null, pos |-> 0, want |-> 0]

\* The constructor allocates the dummy node.
Init ==
    /\ head = [node |-> Dummy, count |-> 0]
    /\ tail = [node |-> Dummy, count |-> 0]
    /\ used = {Dummy}
    /\ next = [n \in Nodes |-> Null]
    /\ data = [n \in Nodes |-> Null]
    /\ size = 0 /\ headCount = 0 /\ tailCount = 0
    /\ pc = [p \in Producers |-> "idle"]
    /\ puts = [p \in Producers |-> 0]
    /\ enq = [p \in Producers |-> NoEnq]
    /\ cpc = "idle" /\ deq = NoDeq
    /\ owed = {} /\ log = <<>>

-----------------------------------------------------------------------------
(* Enqueue.  Each access to shared memory is a step, except that a number  *)
(* is drawn together with the read after it: only its being new matters.   *)

Goto(p, from, to) ==
    /\ pc[p] = from
    /\ pc' = [pc EXCEPT ![p] = to]
    /\ UNCHANGED taker

\* A reused node still carries the NextNode of its former life.
EnqAlloc(p) ==
    /\ Goto(p, "idle", "null")
    /\ Cardinality(Begun) < MaxPut
    /\ puts' = [puts EXCEPT ![p] = @ + 1]
    /\ \E n \in Nodes :
          /\ NodePool!Alloc(n)
          /\ enq' = [enq EXCEPT ![p].new = n]
          /\ data' = [data EXCEPT ![n] = <<p, puts[p] + 1>>]
    /\ UNCHANGED <<head, tail, next, counts>>

EnqNull(p) ==
    /\ Goto(p, "null", "count")
    /\ next' = [next EXCEPT ![enq[p].new] = Null]
    /\ UNCHANGED <<head, tail, data, counts, used, puts, enq>>

\* Draws a number nobody else has, then starts the copy of the tail.
EnqReadNode(p) ==
    /\ Goto(p, "count", "tag")
    /\ tailCount' = tailCount + 1
    /\ enq' = [enq EXCEPT ![p].number = tailCount + 1, ![p].clone.node = tail.node]
    /\ UNCHANGED <<head, tail, next, data, size, headCount, used, puts>>

EnqReadCount(p) ==
    /\ Goto(p, "tag", "again")
    /\ enq' = [enq EXCEPT ![p].clone.count = tail.count]
    /\ UNCHANGED <<shared, puts>>

\* The next pointer is that of the tail read once more, not that of the copy.
EnqReadAgain(p) ==
    /\ Goto(p, "again", "next")
    /\ enq' = [enq EXCEPT ![p].at = tail.node]
    /\ UNCHANGED <<shared, puts>>

EnqReadNext(p) ==
    /\ Goto(p, "next", IF next[enq[p].at] = Null THEN "link" ELSE "help")
    /\ enq' = [enq EXCEPT ![p].at = Null]
    /\ UNCHANGED <<shared, puts>>

\* Faulty variant: the next pointer is stored without comparing.
EnqLinkStore(p) ==
    /\ Goto(p, "link", "size")
    /\ next' = [next EXCEPT ![enq[p].clone.node] = enq[p].new]
    /\ UNCHANGED <<head, tail, data, counts, used, puts, enq>>

\* The first swap: of the next pointer of the node in the copy.
EnqLink(p) ==
    /\ \/ /\ Goto(p, "link", "size")
          /\ next[enq[p].clone.node] = Null
          /\ next' = [next EXCEPT ![enq[p].clone.node] = enq[p].new]
       \/ /\ Goto(p, "link", "count")
          /\ next[enq[p].clone.node] # Null
          /\ next' = next
    /\ UNCHANGED <<head, tail, data, counts, used, puts, enq>>

EnqSize(p) ==
    /\ Goto(p, "size", "swing")
    /\ size' = size + 1
    /\ UNCHANGED <<head, tail, next, data, headCount, tailCount, used, puts, enq>>

\* Faulty variant: the tail is to move to what follows the new node.
EnqReadSuccOfNew(p) ==
    /\ Goto(p, "swing", "swap") \/ Goto(p, "help", "helped")
    /\ enq' = [enq EXCEPT ![p].succ = next[enq[p].new]]
    /\ UNCHANGED <<shared, puts>>

\* The argument of the second swap, after one's own link or to help another thread.
EnqReadSucc(p) ==
    /\ Goto(p, "swing", "swap") \/ Goto(p, "help", "helped")
    /\ enq' = [enq EXCEPT ![p].succ = next[enq[p].clone.node]]
    /\ UNCHANGED <<shared, puts>>

\* Faulty variant: only the pointer is compared.
MoveTailNode(seen, succ, number) ==
    tail' = IF tail.node = seen.node THEN [node |-> succ, count |-> number] ELSE tail

\* The second swap: of the tail, if it is still the one seen.
MoveTail(seen, succ, number) ==
    tail' = IF tail = seen THEN [node |-> succ, count |-> number] ELSE tail

\* Faulty variant: the second swap is left to other threads.
EnqSwapLeft(p) ==
    /\ Goto(p, "swap", "idle")
    /\ enq' = [enq EXCEPT ![p] = NoEnq]
    /\ UNCHANGED <<shared, puts>>

\* Enqueue returns whether or not the second swap succeeds.
EnqSwap(p) ==
    /\ Goto(p, "swap", "idle")
    /\ MoveTail(enq[p].clone, enq[p].succ, enq[p].number)
    /\ enq' = [enq EXCEPT ![p] = NoEnq]
    /\ UNCHANGED <<head, next, data, counts, used, puts>>

EnqHelp(p) ==
    /\ Goto(p, "helped", "count")
    /\ MoveTail(enq[p].clone, enq[p].succ, enq[p].number)
    /\ enq' = [enq EXCEPT ![p] = [NoEnq EXCEPT !.new = enq[p].new]]
    /\ UNCHANGED <<head, next, data, counts, used, puts>>

-----------------------------------------------------------------------------
(* Dequeue.                                                                *)

CGoto(from, to) == cpc = from /\ cpc' = to /\ UNCHANGED <<pc, puts, enq>>

DeqBegin ==
    /\ CGoto("idle", "node")
    /\ headCount < MaxTake
    /\ headCount' = headCount + 1
    /\ deq' = [NoDeq EXCEPT !.number = headCount + 1]
    /\ owed' = Returned
    /\ UNCHANGED <<head, tail, next, data, size, tailCount, used, log>>

\* Only this thread moves the head, so its two halves are read in one step.
DeqReadHead ==
    /\ CGoto("node", "tail")
    /\ deq' = [deq EXCEPT !.head = head]
    /\ UNCHANGED <<shared, owed, log>>

DeqReadTail ==
    /\ CGoto("tail", "tailcount")
    /\ deq' = [deq EXCEPT !.tail.node = tail.node]
    /\ UNCHANGED <<shared, owed, log>>

DeqReadTailCount ==
    /\ CGoto("tailcount", "next")
    /\ deq' = [deq EXCEPT !.tail.count = tail.count]
    /\ UNCHANGED <<shared, owed, log>>

DeqReadNext ==
    /\ CGoto("next", "test")
    /\ deq' = [deq EXCEPT !.succ = next[deq.head.node]]
    /\ UNCHANGED <<shared, owed, log>>

\* The locals of a call end with it, those of a round with the round.
Leave == deq' = NoDeq /\ owed' = {}
Again == deq' = [NoDeq EXCEPT !.number = deq.number]

DeqFail ==
    /\ CGoto("test", "idle")
    /\ deq.head.node = deq.tail.node /\ deq.succ = Null
    /\ Leave
    /\ UNCHANGED <<shared, log>>

\* A value is linked but the tail has not moved: wait for the thread that linked it.
DeqSpin ==
    /\ CGoto("test", "node")
    /\ deq.head.node = deq.tail.node /\ deq.succ # Null
    /\ Again
    /\ UNCHANGED <<shared, owed, log>>

DeqTestTail ==
    /\ deq.head.node # deq.tail.node
    /\ CGoto("test", IF next[deq.tail.node] # Null THEN "help" ELSE "data")
    /\ UNCHANGED <<shared, deq, owed, log>>

DeqReadTailNext ==
    /\ CGoto("help", "helped")
    /\ tailCount' = tailCount + 1
    /\ deq' = [deq EXCEPT !.tnumber = tailCount + 1, !.succ = next[deq.tail.node]]
    /\ UNCHANGED <<head, tail, next, data, size, headCount, used, owed, log>>

DeqHelp ==
    /\ CGoto("helped", "node")
    /\ MoveTail(deq.tail, deq.succ, deq.tnumber)
    /\ Again
    /\ UNCHANGED <<head, next, data, counts, used, owed, log>>

\* Faulty variant: the value is read from the dummy.
DeqDataOfHead ==
    /\ CGoto("data", "swap")
    /\ deq' = [deq EXCEPT !.got = data[deq.head.node], !.succ = next[deq.head.node]]
    /\ UNCHANGED <<shared, owed, log>>

\* Follows nextNode, which nothing has tested here; a null one would be fatal.
DeqData ==
    /\ CGoto("data", "swap")
    /\ deq.succ # Null
    /\ deq' = [deq EXCEPT !.got = data[deq.succ], !.succ = next[deq.head.node]]
    /\ UNCHANGED <<shared, owed, log>>

DeqSwap ==
    /\ CGoto("swap", IF head = deq.head THEN "free" ELSE "node")
    /\ head' = IF head = deq.head THEN [node |-> deq.succ, count |-> deq.number] ELSE head
    /\ log' = IF head = deq.head THEN Append(log, deq.got) ELSE log
    /\ UNCHANGED <<tail, next, data, counts, used, deq, owed>>

\* Faulty variant: the new dummy is freed, not the old one.
DeqFreeNew ==
    /\ CGoto("free", "size")
    /\ NodePool!Free(deq.succ)
    /\ UNCHANGED <<head, tail, next, data, counts, deq, owed, log>>

\* The node taken becomes the dummy; the old dummy goes back to the pool.
DeqFree ==
    /\ CGoto("free", "size")
    /\ NodePool!Free(deq.head.node)
    /\ UNCHANGED <<head, tail, next, data, counts, deq, owed, log>>

DeqSize ==
    /\ CGoto("size", "idle")
    /\ size' = size - 1
    /\ Leave
    /\ UNCHANGED <<head, tail, next, data, headCount, tailCount, used, log>>

-----------------------------------------------------------------------------
(* Peek and isEmpty, called by the taking side.                            *)

\* Faulty variant: the walk starts at the dummy.
PeekFromDummy(i) ==
    /\ Looks /\ i < size
    /\ CGoto("idle", "walk")
    /\ deq' = [NoDeq EXCEPT !.want = i, !.cursor = head.node]
    /\ UNCHANGED <<shared, owed, log>>

\* PostSend asks only for positions below GetUsingCount(), and m_lSize can only have grown
\* since: Peek's own test of m_lSize never fails.
PeekBegin(i) ==
    /\ Looks /\ i < size
    /\ CGoto("idle", "walk")
    /\ deq' = [NoDeq EXCEPT !.want = i, !.cursor = next[head.node]]
    /\ UNCHANGED <<shared, owed, log>>

PeekStep ==
    /\ deq.cursor # Null /\ deq.pos # deq.want
    /\ CGoto("walk", "walk")
    /\ deq' = [deq EXCEPT !.cursor = next[deq.cursor], !.pos = @ + 1]
    /\ UNCHANGED <<shared, owed, log>>

PeekEnd ==
    /\ deq.cursor = Null \/ deq.pos = deq.want
    /\ CGoto("walk", "idle")
    /\ Leave
    /\ UNCHANGED <<shared, log>>

EmptySize ==
    /\ Looks
    /\ CGoto("idle", IF size = 0 THEN "empty" ELSE "idle")
    /\ owed' = IF size = 0 THEN Returned ELSE {}
    /\ UNCHANGED <<shared, deq, log>>

\* isEmpty returns true when both ends are at the same node.
EmptyTops ==
    /\ CGoto("empty", "idle")
    /\ Leave
    /\ UNCHANGED <<shared, log>>

-----------------------------------------------------------------------------
EnqueueStep(p) ==
    \/ EnqNull(p) \/ EnqReadNode(p) \/ EnqReadCount(p) \/ EnqReadAgain(p) \/ EnqReadNext(p)
    \/ EnqLink(p) \/ EnqSize(p) \/ EnqReadSucc(p) \/ EnqSwap(p) \/ EnqHelp(p)

DequeueStep ==
    \/ DeqReadHead \/ DeqReadTail \/ DeqReadTailCount \/ DeqReadNext
    \/ DeqFail \/ DeqSpin \/ DeqTestTail \/ DeqReadTailNext \/ DeqHelp
    \/ DeqData \/ DeqSwap \/ DeqFree \/ DeqSize

LookStep == PeekStep \/ PeekEnd \/ EmptyTops

Next ==
    \/ \E p \in Producers : EnqAlloc(p) \/ EnqueueStep(p)
    \/ DeqBegin \/ DequeueStep
    \/ (\E i \in 0 .. MaxPut : PeekBegin(i)) \/ EmptySize \/ LookStep

Spec == Init /\ [][Next]_vars

\* Every call that has begun goes on; whether to begin one is the caller's business.
FairSpec ==
    /\ Spec
    /\ \A p \in Producers : WF_vars(EnqueueStep(p))
    /\ WF_vars(DequeueStep \/ LookStep)

-----------------------------------------------------------------------------
(* Properties.                                                             *)

Pointer == Nodes \cup {Null}
Top     == [node : Pointer, count : Nat]

PutLabels  == {"idle", "null", "count", "tag", "again", "next", "link", "help",
               "size", "swing", "swap", "helped"}
TakeLabels == {"idle", "node", "tail", "tailcount", "next", "test", "help", "helped",
               "data", "swap", "free", "size", "walk", "empty"}
Enq     == [new : Pointer, number : Nat, clone : Top, at : Pointer, succ : Pointer]
Deq     == [number : Nat, head : Top, tail : Top, tnumber : Nat, succ : Pointer,
            got : Values \cup {Null}, cursor : Pointer, pos : Nat, want : Nat]

\* Every variable keeps its type and neither end is ever null; m_lSize may be below zero
\* while an Enqueue has linked its node and not counted it.
TypeOK ==
    /\ head \in Top /\ tail \in Top /\ Null \notin {head.node, tail.node}
    /\ next \in [Nodes -> Pointer] /\ data \in [Nodes -> Values \cup {Null}]
    /\ size \in Int /\ headCount \in Nat /\ tailCount \in Nat /\ used \subseteq Nodes
    /\ pc \in [Producers -> PutLabels] /\ puts \in [Producers -> 0 .. MaxPut]
    /\ enq \in [Producers -> Enq]
    /\ cpc \in TakeLabels /\ deq \in Deq
    /\ owed \subseteq Values /\ log \in Seq(Values)

\* The nodes behind n, following NextNode: at most all of them.
Behind(n) ==
    LET N == Cardinality(Nodes)
        node[i \in 0 .. N] == IF i = 0 THEN next[n]
                              ELSE IF node[i - 1] = Null THEN Null ELSE next[node[i - 1]]
    IN  [i \in 1 .. Cardinality({j \in 0 .. N - 1 : node[j] # Null}) |-> node[i - 1]]

Chain       == Behind(head.node)
Contents    == [i \in 1 .. Len(Chain) |-> data[Chain[i]]]
InChain     == ToSet(Chain)
Putting     == {p \in Producers : pc[p] \notin {"idle", "size", "swing", "swap"}}
Hanging     == UNION {{enq[p].new} \cup ToSet(Behind(enq[p].new)) :
                         p \in {q \in Putting : pc[q] # "null"}}

Uncounted == Cardinality({p \in Producers : pc[p] = "size"})

\* A value whose Enqueue has returned was taken, is in the list, or hangs on the node of
\* a producer that is about to link it; it is in one place only.  m_lSize counts the values
\* not taken, up to the calls that have not counted yet.
NothingLost ==
    LET here == Contents \o log
    IN  /\ Returned \subseteq ToSet(here) \cup {data[n] : n \in Hanging}
        /\ \A i, j \in DOMAIN here : here[i] = here[j] => i = j
        /\ size = Len(Contents) + Cardinality(Hanging \ {enq[p].new : p \in Putting})
                    - Uncounted + (IF cpc \in {"free", "size"} THEN 1 ELSE 0)

\* No node leaks: each one handed out is the dummy, in the list, a producer's or hangs there.
\* The tail is a node of the list, never one that was taken out, and a Dequeue that read a
\* head behind it follows no null pointer.
NodesAccounted ==
    /\ used = {head.node} \cup InChain \cup Hanging \cup {enq[p].new : p \in Putting}
                \cup (IF cpc = "free" THEN {deq.head.node} ELSE {})
    /\ tail.node \in {head.node} \cup InChain
    /\ cpc = "data" => deq.succ # Null

\* Peek finds the value at the position asked for: what PostSend hands to WSASend are the
\* values that SendComplete will take.
PeekFinds == cpc = "walk" => deq.pos < Len(Chain) /\ deq.cursor = Chain[deq.pos + 1]

\* isEmpty answers TRUE, and Dequeue FALSE, only when every value whose Enqueue had
\* returned before the call has been taken.
NothingOverlooked ==
    (\/ cpc = "empty" /\ head.node = tail.node
     \/ cpc = "test" /\ deq.head.node = deq.tail.node /\ deq.succ = Null)
    => owed \subseteq ToSet(log)

\* The queue implements a first-in first-out queue: a value is in it from the swap of the
\* last next pointer to the swap of the head.
Fifo == INSTANCE FifoQueue WITH queue <- Contents, taken <- log
FifoSpec == Fifo!Spec

\* A Dequeue that has begun returns.
DequeueReturns == (cpc = "node") ~> (cpc = "idle")
=============================================================================
