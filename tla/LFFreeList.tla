----------------------------- MODULE LFFreeList -----------------------------
(***************************************************************************)
(* CLFFreeList: the lock-free pool behind CMessage, PLAYER, MSG and the    *)
(* nodes of every CQueue.  Free blocks form a linked list whose top is a   *)
(* pair (pTopNode, lCount) swapped as one 128-bit word; lCount is a number *)
(* no other operation uses, against the reuse of a block between a read    *)
(* and the swap.  Every read of shared memory is a step of its own: the    *)
(* two halves of the top are read one after the other, and the top is read *)
(* once more for the next pointer.                                         *)
(***************************************************************************)
EXTENDS Integers, Sequences, FiniteSets

CONSTANTS
    Threads,     \* the threads that use the pool
    MaxBlocks,   \* bound: blocks ever created
    MaxOps,      \* bound: operations that draw a number from m_lCount
    InitBlocks   \* iBlockNum: blocks created by the constructor

ASSUME ThreadsFinite == IsFiniteSet(Threads)
ASSUME BlockBounds   == /\ MaxBlocks \in Nat /\ MaxOps \in Nat
                        /\ InitBlocks \in 0 .. MaxBlocks

Null   == 0
Blocks == 1 .. MaxBlocks     \* blocks are numbered in the order of their malloc

VARIABLES
    top,        \* *_pTop: [node, count]
    next,       \* stpNextBlock of each block
    made,       \* number of blocks obtained from malloc so far
    maxCount,   \* m_lMaxCount
    useCount,   \* m_lUseCount
    count,      \* m_lCount, the source of unique numbers
    out,        \* blocks handed out and not passed to Free yet
    list,       \* history: the free blocks, top first
    pc,
    maxRead,    \* MaxCount, the copy of m_lMaxCount in Alloc
    tag,        \* lUniqueNum in Alloc, newCount in Free
    clone,      \* CloneTop: [node, count]
    cur,        \* _pTop->pTopNode as read again for the new top (in Alloc)
    nxt,        \* its stpNextBlock
    blk         \* returnedBlock in Free

counters == <<maxCount, useCount>>
shared   == <<top, next, made, counters, count, out, list>>
locals   == <<maxRead, tag, clone, cur, nxt, blk>>
vars     == <<shared, pc, locals>>

AllocPop   == {"aNode", "aCount", "aTop", "aNext", "aCas"}
FreePush   == {"fNode", "fCount", "fLink", "fCas"}
PoolLabels == {"idle", "aUse", "aMake", "aTag", "fUse"} \cup AllocPop \cup FreePush

\* The constructor links InitBlocks blocks, the last one created on top.
Init ==
    /\ top = [node |-> InitBlocks, count |-> 0]
    /\ next = [b \in Blocks |-> IF b <= InitBlocks THEN b - 1 ELSE Null]
    /\ made = InitBlocks
    /\ maxCount = InitBlocks
    /\ useCount = 0
    /\ count = 0
    /\ out = {}
    /\ list = [i \in 1 .. InitBlocks |-> InitBlocks + 1 - i]
    /\ pc = [t \in Threads |-> "idle"]
    /\ maxRead = [t \in Threads |-> 0]
    /\ tag = [t \in Threads |-> 0]
    /\ clone = [t \in Threads |-> [node |-> Null, count |-> 0]]
    /\ cur = [t \in Threads |-> Null]
    /\ nxt = [t \in Threads |-> Null]
    /\ blk = [t \in Threads |-> Null]

Goto(t, from, to) ==
    /\ pc[t] = from
    /\ pc' = [pc EXCEPT ![t] = to]

\* The locals of an operation end with it (maxRead is not used after the decision).
Forget(t) ==
    /\ tag' = [tag EXCEPT ![t] = 0]
    /\ clone' = [clone EXCEPT ![t] = [node |-> Null, count |-> 0]]
    /\ cur' = [cur EXCEPT ![t] = Null]
    /\ nxt' = [nxt EXCEPT ![t] = Null]
    /\ blk' = [blk EXCEPT ![t] = Null]

-----------------------------------------------------------------------------
(* Alloc.                                                                  *)

\* The limit is read before the object is counted as used.
AllocBegin(t) ==
    /\ Goto(t, "idle", "aUse")
    /\ count < MaxOps
    /\ maxRead' = [maxRead EXCEPT ![t] = maxCount]
    /\ UNCHANGED <<shared, tag, clone, cur, nxt, blk>>

\* Faulty variant: a block is popped even when all may be in use.
AllocUseOneMore(t) ==
    /\ Goto(t, "aUse", IF maxRead[t] + 1 < useCount + 1 THEN "aMake" ELSE "aTag")
    /\ useCount' = useCount + 1
    /\ maxRead' = [maxRead EXCEPT ![t] = 0]
    /\ UNCHANGED <<top, next, made, maxCount, count, out, list, tag, clone, cur, nxt, blk>>

AllocUse(t) ==
    /\ Goto(t, "aUse", IF maxRead[t] < useCount + 1 THEN "aMake" ELSE "aTag")
    /\ useCount' = useCount + 1
    /\ maxRead' = [maxRead EXCEPT ![t] = 0]
    /\ UNCHANGED <<top, next, made, maxCount, count, out, list, tag, clone, cur, nxt, blk>>

AllocMake(t) ==
    /\ Goto(t, "aMake", "idle")
    /\ made < MaxBlocks
    /\ made' = made + 1
    /\ maxCount' = maxCount + 1
    /\ out' = out \cup {made + 1}
    /\ UNCHANGED <<top, next, useCount, count, list, locals>>

AllocTag(t) ==
    /\ Goto(t, "aTag", "aNode")
    /\ count' = count + 1
    /\ tag' = [tag EXCEPT ![t] = count + 1]
    /\ UNCHANGED <<top, next, made, counters, out, list, maxRead, clone, cur, nxt, blk>>

\* CloneTop.pTopNode, in Alloc and in Free alike.
ReadNode(t) ==
    /\ Goto(t, "aNode", "aCount") \/ Goto(t, "fNode", "fCount")
    /\ clone' = [clone EXCEPT ![t].node = top.node]
    /\ UNCHANGED <<shared, maxRead, tag, cur, nxt, blk>>

\* CloneTop.lCount.
ReadCount(t) ==
    /\ Goto(t, "aCount", "aTop") \/ Goto(t, "fCount", "fLink")
    /\ clone' = [clone EXCEPT ![t].count = top.count]
    /\ UNCHANGED <<shared, maxRead, tag, cur, nxt, blk>>

AllocReadTop(t) ==
    /\ Goto(t, "aTop", "aNext")
    /\ cur' = [cur EXCEPT ![t] = top.node]
    /\ UNCHANGED <<shared, maxRead, tag, clone, nxt, blk>>

\* Follows the pointer just read; a null one would be fatal.
AllocReadNext(t) ==
    /\ Goto(t, "aNext", "aCas")
    /\ cur[t] # Null
    /\ nxt' = [nxt EXCEPT ![t] = next[cur[t]]]
    /\ UNCHANGED <<shared, maxRead, tag, clone, cur, blk>>

\* Faulty variant: only the pointer is compared, so a reused block passes.
AllocCasNode(t) ==
    /\ \/ /\ Goto(t, "aCas", "idle")
          /\ top.node = clone[t].node
          /\ top' = [node |-> nxt[t], count |-> tag[t]]
          /\ list' = Tail(list)
          /\ out' = out \cup {clone[t].node}
          /\ Forget(t)
       \/ /\ Goto(t, "aCas", "aNode")
          /\ top.node # clone[t].node
          /\ UNCHANGED <<top, list, out, tag, clone, cur, nxt, blk>>
    /\ UNCHANGED <<next, made, counters, count, maxRead>>

AllocCas(t) ==
    /\ \/ /\ Goto(t, "aCas", "idle")
          /\ top = clone[t]
          /\ top' = [node |-> nxt[t], count |-> tag[t]]
          /\ list' = Tail(list)
          /\ out' = out \cup {clone[t].node}
          /\ Forget(t)
       \/ /\ Goto(t, "aCas", "aNode")
          /\ top # clone[t]
          /\ UNCHANGED <<top, list, out, tag, clone, cur, nxt, blk>>
    /\ UNCHANGED <<next, made, counters, count, maxRead>>

-----------------------------------------------------------------------------
(* Free, of a block its user holds; another thread may have allocated it.  *)

FreeBegin(t, b) ==
    /\ Goto(t, "idle", "fNode")
    /\ b \in out
    /\ count < MaxOps
    /\ out' = out \ {b}
    /\ blk' = [blk EXCEPT ![t] = b]
    /\ count' = count + 1
    /\ tag' = [tag EXCEPT ![t] = count + 1]
    /\ UNCHANGED <<top, next, made, counters, list, maxRead, clone, cur, nxt>>

FreeLink(t) ==
    /\ Goto(t, "fLink", "fCas")
    /\ next' = [next EXCEPT ![blk[t]] = top.node]
    /\ UNCHANGED <<top, made, counters, count, out, list, locals>>

FreeCas(t) ==
    /\ \/ /\ Goto(t, "fCas", "fUse")
          /\ top = clone[t]
          /\ top' = [node |-> blk[t], count |-> tag[t]]
          /\ list' = <<blk[t]>> \o list
          /\ Forget(t)
       \/ /\ Goto(t, "fCas", "fNode")
          /\ top # clone[t]
          /\ UNCHANGED <<top, list, tag, clone, cur, nxt, blk>>
    /\ UNCHANGED <<next, made, counters, count, out, maxRead>>

\* Faulty variant: the object is discounted twice.
FreeUseTwice(t) ==
    /\ Goto(t, "fUse", "idle")
    /\ useCount' = useCount - 2
    /\ UNCHANGED <<top, next, made, maxCount, count, out, list, locals>>

FreeUse(t) ==
    /\ Goto(t, "fUse", "idle")
    /\ useCount' = useCount - 1
    /\ UNCHANGED <<top, next, made, maxCount, count, out, list, locals>>

-----------------------------------------------------------------------------
AllocStep(t) ==
    \/ AllocBegin(t) \/ AllocUse(t) \/ AllocMake(t) \/ AllocTag(t)
    \/ AllocReadTop(t) \/ AllocReadNext(t) \/ AllocCas(t)

FreeStep(t) ==
    \/ \E b \in Blocks : FreeBegin(t, b)
    \/ FreeLink(t) \/ FreeCas(t) \/ FreeUse(t)

Next == \E t \in Threads : AllocStep(t) \/ FreeStep(t) \/ ReadNode(t) \/ ReadCount(t)

Spec == Init /\ [][Next]_vars

-----------------------------------------------------------------------------
(* Properties.                                                             *)

Top == [node : Blocks \cup {Null}, count : Nat]

\* Every variable keeps its type.
TypeOK ==
    /\ top \in Top
    /\ next \in [Blocks -> Blocks \cup {Null}]
    /\ made \in 0 .. MaxBlocks
    /\ maxCount \in Nat /\ useCount \in Nat /\ count \in Nat
    /\ out \subseteq Blocks
    /\ list \in Seq(Blocks)
    /\ pc \in [Threads -> PoolLabels]
    /\ maxRead \in [Threads -> Nat]
    /\ tag \in [Threads -> Nat]
    /\ clone \in [Threads -> Top]
    /\ cur \in [Threads -> Blocks \cup {Null}]
    /\ nxt \in [Threads -> Blocks \cup {Null}]
    /\ blk \in [Threads -> Blocks \cup {Null}]

Popping == {t \in Threads : pc[t] \in {"aTag"} \cup AllocPop}
Pushing == {t \in Threads : pc[t] \in FreePush}
Making  == {t \in Threads : pc[t] = "aMake"}
Pushed  == {t \in Threads : pc[t] = "fUse"}
Listed  == {list[i] : i \in 1 .. Len(list)}

\* An Alloc that decided to pop always finds a block: the read of the limit before the
\* count, and of the count before the list, leaves one for each of them.
EnoughForAll ==
    /\ Cardinality(Popping) <= Len(list)
    /\ \A t \in Threads : pc[t] = "aNext" => cur[t] # Null

\* The chain from the top is the list of free blocks, in order and without a cycle.
ListIntact ==
    /\ top.node = IF list = <<>> THEN Null ELSE list[1]
    /\ \A i \in 1 .. Len(list) :
          next[list[i]] = IF i < Len(list) THEN list[i + 1] ELSE Null
    /\ \A i, j \in 1 .. Len(list) : list[i] = list[j] => i = j

\* No block is lost or in two places: it is handed out, on its way back, or in the list.
EachBlockOnce ==
    /\ made = Cardinality(out) + Cardinality(Pushing) + Len(list)
    /\ \A t \in Pushing : blk[t] \notin out \cup Listed
    /\ \A t, u \in Pushing : blk[t] = blk[u] => t = u
    /\ out \cap Listed = {}

\* m_lUseCount and m_lMaxCount are the objects in use and in existence, up to the
\* operations that are between the list and the counters.
CountersAgree ==
    /\ maxCount = made
    /\ useCount = Cardinality(out) + Cardinality(Pushing) + Cardinality(Pushed)
                  + Cardinality(Popping) + Cardinality(Making)

\* The pool implements ObjectPool: a block passed to Free stays its user's until the swap.
Pool == INSTANCE ObjectPool WITH Objects <- Blocks, out <- out \cup {blk[t] : t \in Pushing}
PoolSpec == Pool!Spec
=============================================================================
