-------------------------- MODULE LFFreeListProofs --------------------------
(***************************************************************************)
(* Proofs about CLFFreeList for any number of threads: Alloc never follows *)
(* a null top, the unique numbers rule out every reuse of a block between  *)
(* a read and the swap, no block is lost or handed out twice, and the pool *)
(* implements ObjectPool.                                                  *)
(***************************************************************************)
EXTENDS LFFreeList, FiniteSetTheorems, TLAPS

-----------------------------------------------------------------------------
(* The inductive invariant.                                                *)

\* m_lUseCount stays above zero for a reason (CountersAgree), not by its type.
TypeInv ==
    /\ top \in Top
    /\ next \in [Blocks -> Blocks \cup {Null}]
    /\ made \in 0 .. MaxBlocks
    /\ maxCount \in Nat /\ useCount \in Int /\ count \in Nat
    /\ out \subseteq Blocks
    /\ list \in Seq(Blocks)
    /\ pc \in [Threads -> PoolLabels]
    /\ maxRead \in [Threads -> Nat]
    /\ tag \in [Threads -> Nat]
    /\ clone \in [Threads -> Top]
    /\ cur \in [Threads -> Blocks \cup {Null}]
    /\ nxt \in [Threads -> Blocks \cup {Null}]
    /\ blk \in [Threads -> Blocks \cup {Null}]

\* Every existing block is in one place, and no block exists before it is made.
PlaceInv ==
    /\ ListIntact
    /\ \A t \in Threads : pc[t] \in FreePush =>
          blk[t] \in 1 .. made /\ blk[t] \notin out /\ blk[t] \notin Listed
    /\ \A t, u \in Threads :
          pc[t] \in FreePush /\ pc[u] \in FreePush /\ blk[t] = blk[u] => t = u
    /\ out \cap Listed = {}
    /\ out \subseteq 1 .. made
    /\ Listed \subseteq 1 .. made

\* The counters, the places and the decisions taken on the counters.
CountInv ==
    /\ maxCount = made
    /\ useCount = Cardinality(out) + Cardinality(Pushing) + Cardinality(Pushed)
                  + Cardinality(Popping) + Cardinality(Making)
    /\ made = Cardinality(out) + Cardinality(Pushing) + Len(list)
    /\ Cardinality(Popping) <= Len(list)
    /\ \A t \in Threads : pc[t] = "aUse" => maxRead[t] <= maxCount

Tagged   == AllocPop \cup FreePush                          \* holds a number of its own
HasCount == {"aTop", "aNext", "aCas", "fLink", "fCas"}      \* holds the number of a top it read

\* A number is drawn once: the ones still to be used differ from each other, from the
\* number of the top and from every number of a top read earlier.
TagInv ==
    /\ top.count <= count
    /\ \A t \in Threads : pc[t] \in Tagged => tag[t] <= count /\ tag[t] # top.count
    /\ \A t, u \in Threads :
          pc[t] \in Tagged /\ pc[u] \in Tagged /\ tag[t] = tag[u] => t = u
    /\ \A t \in Threads : pc[t] \in HasCount => clone[t].count <= count
    /\ \A t, u \in Threads :
          pc[t] \in HasCount /\ pc[u] \in Tagged => clone[t].count # tag[u]

\* While the number a thread read is still that of the top, what it read after it is
\* still true.
SnapInv ==
    \A t \in Threads : clone[t].count = top.count =>
        /\ pc[t] = "aNext" => cur[t] = top.node
        /\ pc[t] = "aCas" => cur[t] = top.node /\ nxt[t] = next[top.node]
        /\ pc[t] = "fCas" => next[blk[t]] = top.node

CurInv == \A t \in Threads : pc[t] = "aNext" => cur[t] # Null

IInv == TypeInv /\ PlaceInv /\ CountInv /\ TagInv /\ SnapInv /\ CurInv

-----------------------------------------------------------------------------
(* Facts about the constants, the labels and the list.                     *)

LEMMA ConstantFacts == MaxBlocks \in Nat /\ Blocks \subseteq Nat /\ 0 \notin Blocks
                       /\ InitBlocks \in 0 .. MaxBlocks /\ IsFiniteSet(Blocks)
  BY BlockBounds, FS_Interval DEF Blocks

LEMMA LabelFacts ==
    /\ "idle" \in PoolLabels /\ "aUse" \in PoolLabels /\ "aMake" \in PoolLabels
    /\ "aTag" \in PoolLabels /\ "aNode" \in PoolLabels /\ "aCount" \in PoolLabels
    /\ "aTop" \in PoolLabels /\ "aNext" \in PoolLabels /\ "aCas" \in PoolLabels
    /\ "fNode" \in PoolLabels /\ "fCount" \in PoolLabels /\ "fLink" \in PoolLabels
    /\ "fCas" \in PoolLabels /\ "fUse" \in PoolLabels
  BY DEF PoolLabels, AllocPop, FreePush

\* The free block on top, where there is one.
LEMMA TopOfList ==
    ASSUME TypeInv, ListIntact, list # <<>>
    PROVE  top.node \in Blocks /\ top.node = list[1] /\ top.node \in Listed /\ Len(list) > 0
  <1>1. Len(list) \in Nat /\ Len(list) > 0
    BY DEF TypeInv
  <1>2. list[1] \in Blocks
    BY <1>1 DEF TypeInv
  <1> QED
    BY <1>1, <1>2 DEF ListIntact, Listed

\* Steps that change neither the list nor a link of a free block.
LEMMA ListKeep ==
    ASSUME TypeInv, ListIntact, list' = list, top' = top,
           \A b \in Listed : next'[b] = next[b]
    PROVE  ListIntact' /\ Listed' = Listed
  <1>1. Listed' = Listed
    BY DEF Listed
  <1>2. \A i \in 1 .. Len(list) : list[i] \in Listed
    BY DEF Listed
  <1> QED
    BY <1>1, <1>2 DEF ListIntact

\* Taking the top block.
LEMMA ListPop ==
    ASSUME TypeInv, ListIntact, list # <<>>, list' = Tail(list), next' = next,
           top'.node = next[top.node]
    PROVE  /\ ListIntact' /\ Listed' = Listed \ {top.node}
           /\ list' \in Seq(Blocks) /\ Len(list') = Len(list) - 1
  <1>1. /\ list' \in Seq(Blocks) /\ Len(list') = Len(list) - 1 /\ Len(list) \in Nat
        /\ \A i \in 1 .. Len(list') : list'[i] = list[i + 1]
    BY DEF TypeInv
  <1>2. top.node = list[1] /\ Len(list) > 0
    BY TopOfList
  <1>3. next[list[1]] = IF Len(list) > 1 THEN list[2] ELSE Null
    BY <1>1, <1>2 DEF ListIntact
  <1>4. list' = <<>> <=> Len(list) = 1
    <2>1. ASSUME NEW q \in Seq(Blocks) PROVE q = <<>> <=> Len(q) = 0
      OBVIOUS
    <2>2. list' = <<>> <=> Len(list') = 0
      BY <1>1, <2>1
    <2> QED
      BY <1>1, <1>2, <2>2
  <1>5. top'.node = IF list' = <<>> THEN Null ELSE list'[1]
    BY <1>1, <1>2, <1>3, <1>4
  <1>6. \A i \in 1 .. Len(list') :
           next'[list'[i]] = IF i < Len(list') THEN list'[i + 1] ELSE Null
    BY <1>1 DEF ListIntact
  <1>7. \A i, j \in 1 .. Len(list') : list'[i] = list'[j] => i = j
    BY <1>1 DEF ListIntact
  <1>8. Listed' = Listed \ {top.node}
    <2>1. ASSUME NEW b \in Listed, b # top.node PROVE b \in Listed'
      <3>1. PICK i \in 1 .. Len(list) : b = list[i]
        BY <2>1 DEF Listed
      <3>2. i - 1 \in 1 .. Len(list') /\ list'[i - 1] = list[i]
        BY <1>1, <1>2, <2>1, <3>1
      <3> QED
        BY <3>1, <3>2 DEF Listed
    <2>2. ASSUME NEW b \in Listed' PROVE b \in Listed /\ b # top.node
      <3>1. PICK i \in 1 .. Len(list') : b = list'[i]
        BY DEF Listed
      <3>2. i + 1 \in 1 .. Len(list) /\ b = list[i + 1] /\ 1 \in 1 .. Len(list)
        BY <1>1, <1>2, <3>1
      <3> QED
        BY <1>2, <3>2 DEF Listed, ListIntact
    <2> QED
      BY <2>1, <2>2
  <1> QED
    BY <1>1, <1>5, <1>6, <1>7, <1>8 DEF ListIntact

\* Putting a linked block on top.
LEMMA ListPush ==
    ASSUME TypeInv, ListIntact, NEW b \in Blocks, b \notin Listed, next' = next,
           next[b] = top.node, top'.node = b, list' = <<b>> \o list
    PROVE  /\ ListIntact' /\ Listed' = Listed \cup {b}
           /\ list' \in Seq(Blocks) /\ Len(list') = Len(list) + 1
  <1>1. /\ list' \in Seq(Blocks) /\ Len(list') = Len(list) + 1 /\ Len(list) \in Nat
        /\ list'[1] = b
        /\ \A i \in 1 .. Len(list) : list'[i + 1] = list[i]
    BY DEF TypeInv
  <1>2. \A i \in 2 .. Len(list') : i - 1 \in 1 .. Len(list) /\ list'[i] = list[i - 1]
    <2> SUFFICES ASSUME NEW i \in 2 .. Len(list')
                 PROVE  i - 1 \in 1 .. Len(list) /\ list'[i] = list[i - 1]
      OBVIOUS
    <2>1. i - 1 \in 1 .. Len(list) /\ (i - 1) + 1 = i
      BY <1>1
    <2> QED
      BY <1>1, <2>1
  <1>3. \A i \in 1 .. Len(list) : list[i] \in Listed
    BY DEF Listed
  <1>4. top'.node = IF list' = <<>> THEN Null ELSE list'[1]
    BY <1>1
  <1>5. \A i \in 1 .. Len(list') :
           next'[list'[i]] = IF i < Len(list') THEN list'[i + 1] ELSE Null
    <2> SUFFICES ASSUME NEW i \in 1 .. Len(list')
                 PROVE  next'[list'[i]] = IF i < Len(list') THEN list'[i + 1] ELSE Null
      OBVIOUS
    <2>1. CASE i = 1
      <3>1. list = <<>> <=> Len(list) = 0
        BY DEF TypeInv
      <3> QED
        BY <1>1, <2>1, <3>1 DEF ListIntact
    <2>2. CASE i \in 2 .. Len(list')
      <3>1. next[list[i - 1]] = IF i - 1 < Len(list) THEN list[(i - 1) + 1] ELSE Null
        BY <1>2, <2>2 DEF ListIntact
      <3>2. i < Len(list') => i \in 1 .. Len(list)
        BY <1>1, <2>2
      <3> QED
        BY <1>1, <1>2, <2>2, <3>1, <3>2
    <2> QED
      BY <1>1, <2>1, <2>2
  <1>6. \A i, j \in 1 .. Len(list') : list'[i] = list'[j] => i = j
    <2> SUFFICES ASSUME NEW i \in 1 .. Len(list'), NEW j \in 1 .. Len(list'), list'[i] = list'[j]
                 PROVE  i = j
      OBVIOUS
    <2>1. CASE i = 1 \/ j = 1
      BY <1>1, <1>2, <1>3, <2>1
    <2>2. CASE i # 1 /\ j # 1
      <3>1. i \in 2 .. Len(list') /\ j \in 2 .. Len(list')
        BY <1>1, <2>2
      <3>2. list[i - 1] = list[j - 1]
        BY <1>2, <3>1
      <3>3. i - 1 = j - 1
        BY <1>2, <3>1, <3>2 DEF ListIntact
      <3> QED
        BY <1>1, <3>3
    <2> QED
      BY <2>1, <2>2
  <1>7. Listed' = Listed \cup {b}
    <2>1. ASSUME NEW c \in Listed PROVE c \in Listed'
      <3>1. PICK i \in 1 .. Len(list) : c = list[i]
        BY DEF Listed
      <3>2. i + 1 \in 1 .. Len(list') /\ list'[i + 1] = c
        BY <1>1, <3>1
      <3> QED
        BY <3>2 DEF Listed
    <2>2. b \in Listed'
      <3>1. 1 \in 1 .. Len(list')
        BY <1>1
      <3> QED
        BY <1>1, <3>1 DEF Listed
    <2>3. ASSUME NEW c \in Listed', c # b PROVE c \in Listed
      <3>1. PICK i \in 1 .. Len(list') : c = list'[i]
        BY DEF Listed
      <3>2. i \in 2 .. Len(list')
        BY <1>1, <2>3, <3>1
      <3> QED
        BY <1>2, <1>3, <3>1, <3>2
    <2> QED
      BY <2>1, <2>2, <2>3
  <1> QED
    BY <1>1, <1>4, <1>5, <1>6, <1>7 DEF ListIntact

-----------------------------------------------------------------------------
(* The initial states.                                                     *)

LEMMA InitType == Init => TypeInv
  <1> SUFFICES ASSUME Init PROVE TypeInv
    OBVIOUS
  <1>1. /\ top \in Top
        /\ clone \in [Threads -> Top]
    BY ConstantFacts DEF Init, Top, Blocks, Null
  <1>2. next \in [Blocks -> Blocks \cup {Null}]
    BY ConstantFacts DEF Init, Blocks, Null
  <1>3. list \in Seq(Blocks)
    BY ConstantFacts DEF Init, Blocks
  <1> QED
    BY <1>1, <1>2, <1>3, ConstantFacts, LabelFacts DEF Init, TypeInv

LEMMA InitInv == Init => IInv
  <1> SUFFICES ASSUME Init PROVE IInv
    OBVIOUS
  <1>1. TypeInv
    BY InitType
  <1>2. /\ Len(list) = InitBlocks
        /\ \A i \in 1 .. InitBlocks : list[i] = InitBlocks + 1 - i
        /\ list = <<>> <=> InitBlocks = 0
    BY <1>1, ConstantFacts DEF Init, TypeInv
  <1>3. ListIntact
    <2>1. top.node = IF list = <<>> THEN Null ELSE list[1]
      BY <1>2, ConstantFacts DEF Init, Null
    <2>2. ASSUME NEW i \in 1 .. InitBlocks
          PROVE  /\ list[i] = InitBlocks + 1 - i /\ list[i] \in Blocks /\ list[i] <= InitBlocks
                 /\ next[list[i]] = list[i] - 1
      BY <1>2, ConstantFacts DEF Init, Blocks
    <2>3. ASSUME NEW i \in 1 .. InitBlocks
          PROVE  next[list[i]] = IF i < InitBlocks THEN list[i + 1] ELSE Null
      BY <1>2, <2>2, ConstantFacts DEF Null
    <2> QED
      BY <1>2, <2>1, <2>2, <2>3, ConstantFacts DEF ListIntact
  <1>4. Listed \subseteq 1 .. made
    BY <1>2, ConstantFacts DEF Init, Listed
  <1>5. PlaceInv
    BY <1>3, <1>4 DEF Init, PlaceInv, AllocPop, FreePush
  <1>6. /\ out = {} /\ Pushing = {} /\ Pushed = {} /\ Popping = {} /\ Making = {}
    BY DEF Init, Pushing, Pushed, Popping, Making, AllocPop, FreePush
  <1>7. CountInv
    BY <1>2, <1>6, FS_EmptySet, ConstantFacts DEF Init, CountInv
  <1>8. TagInv /\ SnapInv /\ CurInv
    BY DEF Init, TagInv, SnapInv, CurInv, Tagged, HasCount, AllocPop, FreePush
  <1> QED
    BY <1>1, <1>5, <1>7, <1>8 DEF IInv

-----------------------------------------------------------------------------
(* Type correctness.                                                       *)

\* What a swap in Alloc that succeeds finds.
LEMMA PopTop ==
    ASSUME IInv, NEW t \in Threads, pc[t] = "aCas", top = clone[t]
    PROVE  /\ list # <<>> /\ top.node \in Blocks /\ nxt[t] = next[top.node]
           /\ top.node \in Listed
  <1>1. Popping # {} /\ IsFiniteSet(Popping)
    BY ThreadsFinite, FS_Subset DEF Popping, AllocPop
  <1>2. Cardinality(Popping) \in Nat /\ Cardinality(Popping) # 0
    BY <1>1, FS_EmptySet, FS_CardinalityType
  <1>3. list # <<>>
    BY <1>2 DEF IInv, CountInv
  <1> QED
    BY <1>3, TopOfList DEF IInv, PlaceInv, SnapInv

LEMMA TypeStep == IInv /\ [Next]_vars => TypeInv'
  <1> SUFFICES ASSUME IInv, [Next]_vars PROVE TypeInv'
    OBVIOUS
  <1> USE DEF vars, shared, counters, locals, Goto, Forget
  <1>0. TypeInv /\ PlaceInv
    BY DEF IInv
  <1>p. ASSUME NEW t \in Threads, NEW l \in PoolLabels, pc' = [pc EXCEPT ![t] = l]
        PROVE  pc' \in [Threads -> PoolLabels]
    BY <1>0, <1>p DEF TypeInv
  <1>n. [node |-> Null, count |-> 0] \in Top
    BY DEF Top
  <1>1. ASSUME NEW t \in Threads, AllocBegin(t) PROVE TypeInv'
    <2>1. pc' \in [Threads -> PoolLabels]
      BY <1>p, <1>1, LabelFacts DEF AllocBegin
    <2> QED
      BY <1>0, <1>1, <2>1, ConstantFacts DEF AllocBegin, TypeInv, Top
  <1>2. ASSUME NEW t \in Threads, AllocUse(t) PROVE TypeInv'
    <2>1. pc' \in [Threads -> PoolLabels]
      BY <1>p, <1>2, LabelFacts DEF AllocUse
    <2> QED
      BY <1>0, <1>2, <2>1, ConstantFacts DEF AllocUse, TypeInv, Top
  <1>3. ASSUME NEW t \in Threads, AllocMake(t) PROVE TypeInv'
    <2>1. pc' \in [Threads -> PoolLabels]
      BY <1>p, <1>3, LabelFacts DEF AllocMake
    <2> QED
      BY <1>0, <1>3, <2>1, ConstantFacts DEF AllocMake, TypeInv, Top, Blocks
  <1>4. ASSUME NEW t \in Threads, AllocTag(t) PROVE TypeInv'
    <2>1. pc' \in [Threads -> PoolLabels]
      BY <1>p, <1>4, LabelFacts DEF AllocTag
    <2> QED
      BY <1>0, <1>4, <2>1, ConstantFacts DEF AllocTag, TypeInv, Top
  <1>5. ASSUME NEW t \in Threads, ReadNode(t) PROVE TypeInv'
    <2>1. pc' \in [Threads -> PoolLabels]
      BY <1>p, <1>5, LabelFacts DEF ReadNode
    <2> QED
      BY <1>0, <1>5, <2>1, ConstantFacts DEF ReadNode, TypeInv, Top
  <1>6. ASSUME NEW t \in Threads, ReadCount(t) PROVE TypeInv'
    <2>1. pc' \in [Threads -> PoolLabels]
      BY <1>p, <1>6, LabelFacts DEF ReadCount
    <2> QED
      BY <1>0, <1>6, <2>1, ConstantFacts DEF ReadCount, TypeInv, Top
  <1>7. ASSUME NEW t \in Threads, AllocReadTop(t) PROVE TypeInv'
    <2>1. pc' \in [Threads -> PoolLabels]
      BY <1>p, <1>7, LabelFacts DEF AllocReadTop
    <2> QED
      BY <1>0, <1>7, <2>1, ConstantFacts DEF AllocReadTop, TypeInv, Top
  <1>8. ASSUME NEW t \in Threads, AllocReadNext(t) PROVE TypeInv'
    <2>1. pc' \in [Threads -> PoolLabels]
      BY <1>p, <1>8, LabelFacts DEF AllocReadNext
    <2> QED
      BY <1>0, <1>8, <2>1, ConstantFacts DEF AllocReadNext, TypeInv, Top
  <1>9. ASSUME NEW t \in Threads, FreeLink(t) PROVE TypeInv'
    <2>1. pc' \in [Threads -> PoolLabels]
      BY <1>p, <1>9, LabelFacts DEF FreeLink
    <2> QED
      BY <1>0, <1>9, <2>1, ConstantFacts DEF FreeLink, TypeInv, Top
  <1>10. ASSUME NEW t \in Threads, FreeUse(t) PROVE TypeInv'
    <2>1. pc' \in [Threads -> PoolLabels]
      BY <1>p, <1>10, LabelFacts DEF FreeUse
    <2> QED
      BY <1>0, <1>10, <2>1, ConstantFacts DEF FreeUse, TypeInv, Top
  <1>11. ASSUME NEW t \in Threads, NEW b \in Blocks, FreeBegin(t, b) PROVE TypeInv'
    <2>1. pc' \in [Threads -> PoolLabels]
      BY <1>p, <1>11, LabelFacts DEF FreeBegin
    <2> QED
      BY <1>0, <1>11, <2>1 DEF FreeBegin, TypeInv
  <1>12. ASSUME NEW t \in Threads, AllocCas(t) PROVE TypeInv'
    <2>1. pc' \in [Threads -> PoolLabels]
      BY <1>p, <1>12, LabelFacts DEF AllocCas
    <2>2. CASE top = clone[t]
      <3>1. /\ list # <<>> /\ top.node \in Blocks
        BY <1>12, <2>2, PopTop DEF AllocCas
      <3>0. /\ list' = Tail(list) /\ next' = next /\ top'.node = nxt[t]
            /\ nxt[t] = next[top.node]
        BY <1>12, <2>2, PopTop DEF AllocCas
      <3>2. list' \in Seq(Blocks)
        BY <1>0, <3>0, <3>1, ListPop DEF PlaceInv
      <3>6. Forget(t) /\ UNCHANGED <<next, made, counters, count, maxRead>>
        BY <1>12, <2>2 DEF AllocCas
      <3>3. top' \in Top
        BY <1>0, <1>12, <2>2 DEF AllocCas, TypeInv, Top
      <3>4. clone' \in [Threads -> Top]
        BY <1>0, <1>12, <1>n, <2>2 DEF AllocCas, TypeInv
      <3>5. out' \subseteq Blocks
        BY <1>0, <1>12, <2>2, <3>1 DEF AllocCas, TypeInv
      <3> QED
        BY <1>0, <2>1, <3>2, <3>3, <3>4, <3>5, <3>6 DEF TypeInv
    <2>3. CASE top # clone[t]
      BY <1>0, <1>12, <2>1, <2>3 DEF AllocCas, TypeInv
    <2> QED
      BY <2>2, <2>3
  <1>13. ASSUME NEW t \in Threads, FreeCas(t) PROVE TypeInv'
    <2>1. pc' \in [Threads -> PoolLabels]
      BY <1>p, <1>13, LabelFacts DEF FreeCas
    <2>2. CASE top = clone[t]
      <3>1. blk[t] \in Blocks
        BY <1>0, <1>13, ConstantFacts DEF FreeCas, PlaceInv, FreePush, TypeInv, Blocks
      <3>2. list' \in Seq(Blocks)
        <4>1. list' = <<blk[t]>> \o list /\ list \in Seq(Blocks)
          BY <1>0, <1>13, <2>2 DEF FreeCas, TypeInv
        <4> QED
          BY <3>1, <4>1
      <3>5. Forget(t) /\ UNCHANGED <<next, made, counters, count, out, maxRead>>
        BY <1>13, <2>2 DEF FreeCas
      <3>3. top' \in Top
        BY <1>0, <1>13, <2>2, <3>1 DEF FreeCas, TypeInv, Top
      <3>4. clone' \in [Threads -> Top]
        BY <1>0, <1>13, <1>n, <2>2 DEF FreeCas, TypeInv
      <3> QED
        BY <1>0, <2>1, <3>2, <3>3, <3>4, <3>5 DEF TypeInv
    <2>3. CASE top # clone[t]
      BY <1>0, <1>13, <2>1, <2>3 DEF FreeCas, TypeInv
    <2> QED
      BY <2>2, <2>3
  <1>14. CASE UNCHANGED vars
    BY <1>0, <1>14 DEF TypeInv
  <1> QED
    BY <1>1, <1>2, <1>3, <1>4, <1>5, <1>6, <1>7, <1>8, <1>9, <1>10, <1>11, <1>12, <1>13, <1>14
    DEF Next, AllocStep, FreeStep

-----------------------------------------------------------------------------
(* The places of the blocks.                                               *)

LEMMA PlaceFrame ==
    ASSUME TypeInv, PlaceInv, UNCHANGED <<top, next, made, out, list, blk>>,
           \A u \in Threads : pc'[u] \in FreePush => pc[u] \in FreePush
    PROVE  PlaceInv'
  <1>1. ListIntact' /\ Listed' = Listed
    BY ListKeep DEF PlaceInv
  <1> QED
    BY <1>1 DEF PlaceInv

LEMMA PlaceStep == IInv /\ [Next]_vars => PlaceInv'
  <1> SUFFICES ASSUME IInv, [Next]_vars PROVE PlaceInv'
    OBVIOUS
  <1> USE DEF vars, shared, counters, locals, Goto
  <1>0. TypeInv /\ PlaceInv /\ made \in Nat /\ pc \in [Threads -> PoolLabels]
    BY DEF IInv, TypeInv
  <1>1. ASSUME NEW t \in Threads, AllocBegin(t) PROVE PlaceInv'
    BY <1>0, <1>1, PlaceFrame DEF AllocBegin, FreePush
  <1>2. ASSUME NEW t \in Threads, AllocUse(t) PROVE PlaceInv'
    BY <1>0, <1>2, PlaceFrame DEF AllocUse, FreePush
  <1>3. ASSUME NEW t \in Threads, AllocTag(t) PROVE PlaceInv'
    BY <1>0, <1>3, PlaceFrame DEF AllocTag, FreePush
  <1>4. ASSUME NEW t \in Threads, ReadNode(t) PROVE PlaceInv'
    BY <1>0, <1>4, PlaceFrame DEF ReadNode, FreePush
  <1>5. ASSUME NEW t \in Threads, ReadCount(t) PROVE PlaceInv'
    BY <1>0, <1>5, PlaceFrame DEF ReadCount, FreePush
  <1>6. ASSUME NEW t \in Threads, AllocReadTop(t) PROVE PlaceInv'
    BY <1>0, <1>6, PlaceFrame DEF AllocReadTop, FreePush
  <1>7. ASSUME NEW t \in Threads, AllocReadNext(t) PROVE PlaceInv'
    BY <1>0, <1>7, PlaceFrame DEF AllocReadNext, FreePush
  <1>8. ASSUME NEW t \in Threads, FreeUse(t) PROVE PlaceInv'
    BY <1>0, <1>8, PlaceFrame DEF FreeUse, FreePush
  <1>9. ASSUME NEW t \in Threads, AllocMake(t) PROVE PlaceInv'
    <2>1. ListIntact' /\ Listed' = Listed
      BY <1>0, <1>9, ListKeep DEF AllocMake, PlaceInv
    <2>2. /\ made' = made + 1 /\ out' = out \cup {made + 1} /\ blk' = blk
          /\ \A u \in Threads : pc'[u] \in FreePush => pc[u] \in FreePush
      BY <1>0, <1>9 DEF AllocMake, FreePush
    <2>3. \A b \in 1 .. made : b \in 1 .. made' /\ b # made + 1
      BY <1>0, <2>2
    <2>4. made + 1 \in 1 .. made' /\ made + 1 \notin Listed
      BY <1>0, <2>2 DEF PlaceInv
    <2> QED
      BY <1>0, <2>1, <2>2, <2>3, <2>4 DEF PlaceInv
  <1>10. ASSUME NEW t \in Threads, AllocCas(t) PROVE PlaceInv'
    <2>1. CASE top = clone[t]
      <3>1. /\ list # <<>> /\ list' = Tail(list) /\ next' = next /\ top'.node = next[top.node]
            /\ out' = out \cup {top.node} /\ made' = made /\ top.node \in Listed
        BY <1>10, <2>1, PopTop DEF AllocCas
      <3>2. ListIntact' /\ Listed' = Listed \ {top.node}
        BY <1>0, <3>1, ListPop DEF PlaceInv
      <3>3. \A u \in Threads : pc'[u] \in FreePush => pc[u] \in FreePush /\ blk'[u] = blk[u]
        BY <1>0, <1>10, <2>1 DEF AllocCas, FreePush, Forget, TypeInv
      <3> QED
        BY <1>0, <3>1, <3>2, <3>3 DEF PlaceInv
    <2>2. CASE top # clone[t]
      BY <1>0, <1>10, <2>2, PlaceFrame DEF AllocCas, FreePush
    <2> QED
      BY <2>1, <2>2
  <1>11. ASSUME NEW t \in Threads, NEW b \in Blocks, FreeBegin(t, b) PROVE PlaceInv'
    <2>1. ListIntact' /\ Listed' = Listed
      BY <1>0, <1>11, ListKeep DEF FreeBegin, PlaceInv
    <2>2. /\ b \in out /\ out' = out \ {b} /\ made' = made /\ blk'[t] = b
          /\ \A u \in Threads \ {t} : blk'[u] = blk[u] /\ pc'[u] = pc[u]
      BY <1>0, <1>11 DEF FreeBegin, TypeInv
    <2> QED
      BY <1>0, <2>1, <2>2 DEF PlaceInv
  <1>12. ASSUME NEW t \in Threads, FreeLink(t) PROVE PlaceInv'
    <2>1. \A c \in Listed : next'[c] = next[c]
      BY <1>0, <1>12 DEF FreeLink, PlaceInv, FreePush, TypeInv
    <2>2. ListIntact' /\ Listed' = Listed
      BY <1>0, <1>12, <2>1, ListKeep DEF FreeLink, PlaceInv
    <2>3. /\ UNCHANGED <<out, made, blk>>
          /\ \A u \in Threads : pc'[u] \in FreePush => pc[u] \in FreePush
      BY <1>0, <1>12 DEF FreeLink, FreePush
    <2> QED
      BY <1>0, <2>2, <2>3 DEF PlaceInv
  <1>13. ASSUME NEW t \in Threads, FreeCas(t) PROVE PlaceInv'
    <2>1. CASE top = clone[t]
      <3>1. /\ pc[t] \in FreePush /\ list' = <<blk[t]>> \o list /\ next' = next
            /\ top'.node = blk[t] /\ next[blk[t]] = top.node /\ UNCHANGED <<out, made>>
        BY <1>13, <2>1 DEF FreeCas, FreePush, IInv, SnapInv
      <3>2. blk[t] \in Blocks /\ blk[t] \notin Listed /\ blk[t] \notin out /\ blk[t] \in 1 .. made
        BY <1>0, <3>1, ConstantFacts DEF PlaceInv, TypeInv, Blocks
      <3>3. ListIntact' /\ Listed' = Listed \cup {blk[t]}
        BY <1>0, <3>1, <3>2, ListPush DEF PlaceInv
      <3>4. \A u \in Threads : pc'[u] \in FreePush =>
               u # t /\ pc[u] \in FreePush /\ blk'[u] = blk[u]
        BY <1>0, <1>13, <2>1 DEF FreeCas, FreePush, Forget, TypeInv
      <3> QED
        BY <1>0, <3>1, <3>2, <3>3, <3>4 DEF PlaceInv
    <2>2. CASE top # clone[t]
      BY <1>0, <1>13, <2>2, PlaceFrame DEF FreeCas, FreePush
    <2> QED
      BY <2>1, <2>2
  <1>14. CASE UNCHANGED vars
    BY <1>0, <1>14, PlaceFrame
  <1> QED
    BY <1>1, <1>2, <1>3, <1>4, <1>5, <1>6, <1>7, <1>8, <1>9, <1>10, <1>11, <1>12, <1>13, <1>14
    DEF Next, AllocStep, FreeStep

-----------------------------------------------------------------------------
(* The unique numbers.                                                     *)

LEMMA TagFrame ==
    ASSUME TagInv, UNCHANGED <<top, count>>,
           \A u \in Threads : pc'[u] \in Tagged => pc[u] \in Tagged /\ tag'[u] = tag[u],
           \A u \in Threads : pc'[u] \in HasCount =>
              pc[u] \in HasCount /\ clone'[u].count = clone[u].count
    PROVE  TagInv'
  BY DEF TagInv

\* A number is drawn from the counter.
LEMMA TagDraw ==
    ASSUME TypeInv, TagInv, NEW t \in Threads, top' = top, clone' = clone, count' = count + 1,
           tag' = [tag EXCEPT ![t] = count + 1], pc[t] \notin Tagged,
           \A u \in Threads \ {t} : pc'[u] = pc[u],
           pc'[t] \notin HasCount
    PROVE  TagInv'
  <1>1. /\ count \in Nat /\ top.count \in Nat /\ tag'[t] = count + 1
        /\ \A u \in Threads : tag[u] \in Nat /\ clone[u].count \in Nat
        /\ \A u \in Threads \ {t} : tag'[u] = tag[u]
    BY DEF TypeInv, Top
  <1> QED
    BY <1>1 DEF TagInv

\* A swap that succeeds puts the thread's number on the top.
LEMMA TagSwap ==
    ASSUME TypeInv, TagInv, NEW t \in Threads, pc[t] \in Tagged, top'.count = tag[t],
           count' = count, pc'[t] \notin Tagged, pc'[t] \notin HasCount,
           \A u \in Threads \ {t} : pc'[u] = pc[u] /\ tag'[u] = tag[u] /\ clone'[u] = clone[u]
    PROVE  TagInv' /\ (\A u \in Threads : pc'[u] \in HasCount => clone'[u].count # top'.count)
  BY DEF TagInv

LEMMA SwapFacts ==
    ASSUME TypeInv, NEW t \in Threads, AllocCas(t) \/ FreeCas(t), top = clone[t]
    PROVE  /\ pc[t] \in Tagged /\ top'.count = tag[t] /\ count' = count
           /\ pc'[t] \notin Tagged /\ pc'[t] \notin HasCount /\ pc'[t] # "aNext"
           /\ \A u \in Threads \ {t} : /\ pc'[u] = pc[u] /\ tag'[u] = tag[u]
                                       /\ clone'[u] = clone[u] /\ cur'[u] = cur[u]
  <1>1. /\ pc[t] = "aCas" \/ pc[t] = "fCas"
        /\ pc' = [pc EXCEPT ![t] = "idle"] \/ pc' = [pc EXCEPT ![t] = "fUse"]
        /\ top'.count = tag[t] /\ count' = count /\ Forget(t)
    BY DEF AllocCas, FreeCas, Goto
  <1>2. /\ pc'[t] \in {"idle", "fUse"}
        /\ \A u \in Threads \ {t} : pc'[u] = pc[u]
    BY <1>1 DEF TypeInv
  <1>3. \A u \in Threads \ {t} : tag'[u] = tag[u] /\ clone'[u] = clone[u] /\ cur'[u] = cur[u]
    BY <1>1 DEF Forget, TypeInv
  <1> QED
    BY <1>1, <1>2, <1>3 DEF Tagged, HasCount, AllocPop, FreePush

LEMMA TagStep == IInv /\ [Next]_vars => TagInv'
  <1> SUFFICES ASSUME IInv, [Next]_vars PROVE TagInv'
    OBVIOUS
  <1> USE DEF vars, shared, counters, locals, Goto
  <1>0. TypeInv /\ TagInv /\ pc \in [Threads -> PoolLabels]
    BY DEF IInv, TypeInv
  <1>1. ASSUME NEW t \in Threads, AllocBegin(t) PROVE TagInv'
    BY <1>0, <1>1, TagFrame DEF AllocBegin, Tagged, HasCount, AllocPop, FreePush
  <1>2. ASSUME NEW t \in Threads, AllocUse(t) PROVE TagInv'
    BY <1>0, <1>2, TagFrame DEF AllocUse, Tagged, HasCount, AllocPop, FreePush
  <1>3. ASSUME NEW t \in Threads, AllocMake(t) PROVE TagInv'
    BY <1>0, <1>3, TagFrame DEF AllocMake, Tagged, HasCount, AllocPop, FreePush
  <1>4. ASSUME NEW t \in Threads, AllocReadTop(t) PROVE TagInv'
    BY <1>0, <1>4, TagFrame DEF AllocReadTop, Tagged, HasCount, AllocPop, FreePush
  <1>5. ASSUME NEW t \in Threads, AllocReadNext(t) PROVE TagInv'
    BY <1>0, <1>5, TagFrame DEF AllocReadNext, Tagged, HasCount, AllocPop, FreePush
  <1>6. ASSUME NEW t \in Threads, FreeLink(t) PROVE TagInv'
    BY <1>0, <1>6, TagFrame DEF FreeLink, Tagged, HasCount, AllocPop, FreePush
  <1>7. ASSUME NEW t \in Threads, FreeUse(t) PROVE TagInv'
    BY <1>0, <1>7, TagFrame DEF FreeUse, Tagged, HasCount, AllocPop, FreePush
  <1>8. ASSUME NEW t \in Threads, AllocTag(t) PROVE TagInv'
    BY <1>0, <1>8, TagDraw DEF AllocTag, Tagged, HasCount, AllocPop, FreePush
  <1>9. ASSUME NEW t \in Threads, NEW b \in Blocks, FreeBegin(t, b) PROVE TagInv'
    BY <1>0, <1>9, TagDraw DEF FreeBegin, Tagged, HasCount, AllocPop, FreePush
  <1>10. ASSUME NEW t \in Threads, ReadNode(t) PROVE TagInv'
    <2>1. \A u \in Threads : clone'[u].count = clone[u].count
      BY <1>0, <1>10 DEF ReadNode, TypeInv, Top
    <2> QED
      BY <1>0, <1>10, <2>1, TagFrame DEF ReadNode, Tagged, HasCount, AllocPop, FreePush
  <1>11. ASSUME NEW t \in Threads, ReadCount(t) PROVE TagInv'
    <2>1. /\ clone'[t].count = top.count
          /\ \A u \in Threads \ {t} : clone'[u].count = clone[u].count
          /\ UNCHANGED <<top, tag, count>>
          /\ \A u \in Threads \ {t} : pc'[u] = pc[u]
          /\ pc[t] \in Tagged
      BY <1>0, <1>11 DEF ReadCount, TypeInv, Top, Tagged, HasCount, AllocPop, FreePush
    <2> QED
      BY <1>0, <2>1 DEF TagInv
  <1>12. ASSUME NEW t \in Threads, AllocCas(t) PROVE TagInv'
    <2>1. CASE top = clone[t]
      BY <1>0, <1>12, <2>1, SwapFacts, TagSwap
    <2>2. CASE top # clone[t]
      BY <1>0, <1>12, <2>2, TagFrame DEF AllocCas, Tagged, HasCount, AllocPop, FreePush
    <2> QED
      BY <2>1, <2>2
  <1>13. ASSUME NEW t \in Threads, FreeCas(t) PROVE TagInv'
    <2>1. CASE top = clone[t]
      BY <1>0, <1>13, <2>1, SwapFacts, TagSwap
    <2>2. CASE top # clone[t]
      BY <1>0, <1>13, <2>2, TagFrame DEF FreeCas, Tagged, HasCount, AllocPop, FreePush
    <2> QED
      BY <2>1, <2>2
  <1>14. CASE UNCHANGED vars
    BY <1>0, <1>14, TagFrame
  <1> QED
    BY <1>1, <1>2, <1>3, <1>4, <1>5, <1>6, <1>7, <1>8, <1>9, <1>10, <1>11, <1>12, <1>13, <1>14
    DEF Next, AllocStep, FreeStep

-----------------------------------------------------------------------------
(* What was read after a number that is still that of the top.             *)

LEMMA SnapFrame ==
    ASSUME SnapInv, CurInv, NEW t \in Threads, UNCHANGED <<top, next>>,
           \A u \in Threads \ {t} : /\ pc'[u] = pc[u] /\ clone'[u] = clone[u] /\ cur'[u] = cur[u]
                                    /\ nxt'[u] = nxt[u] /\ blk'[u] = blk[u],
           pc'[t] \notin {"aNext", "aCas", "fCas"}
    PROVE  SnapInv' /\ CurInv'
  BY DEF SnapInv, CurInv

\* After a swap no reader holds the number of the top.
LEMMA SnapSwap ==
    ASSUME CurInv, \A u \in Threads : pc'[u] \in HasCount => clone'[u].count # top'.count,
           \A u \in Threads : pc'[u] = "aNext" => pc[u] = "aNext" /\ cur'[u] = cur[u]
    PROVE  SnapInv' /\ CurInv'
  BY DEF SnapInv, CurInv, HasCount

LEMMA SnapStep == IInv /\ [Next]_vars => SnapInv' /\ CurInv'
  <1> SUFFICES ASSUME IInv, [Next]_vars PROVE SnapInv' /\ CurInv'
    OBVIOUS
  <1> USE DEF vars, shared, counters, locals, Goto
  <1>0. TypeInv /\ TagInv /\ SnapInv /\ CurInv /\ PlaceInv
    BY DEF IInv
  <1>1. ASSUME NEW t \in Threads, AllocBegin(t) PROVE SnapInv' /\ CurInv'
    BY <1>0, <1>1, SnapFrame DEF AllocBegin, TypeInv
  <1>2. ASSUME NEW t \in Threads, AllocUse(t) PROVE SnapInv' /\ CurInv'
    BY <1>0, <1>2, SnapFrame DEF AllocUse, TypeInv
  <1>3. ASSUME NEW t \in Threads, AllocMake(t) PROVE SnapInv' /\ CurInv'
    BY <1>0, <1>3, SnapFrame DEF AllocMake, TypeInv
  <1>4. ASSUME NEW t \in Threads, AllocTag(t) PROVE SnapInv' /\ CurInv'
    BY <1>0, <1>4, SnapFrame DEF AllocTag, TypeInv
  <1>5. ASSUME NEW t \in Threads, ReadNode(t) PROVE SnapInv' /\ CurInv'
    BY <1>0, <1>5, SnapFrame DEF ReadNode, TypeInv
  <1>6. ASSUME NEW t \in Threads, ReadCount(t) PROVE SnapInv' /\ CurInv'
    BY <1>0, <1>6, SnapFrame DEF ReadCount, TypeInv
  <1>7. ASSUME NEW t \in Threads, FreeUse(t) PROVE SnapInv' /\ CurInv'
    BY <1>0, <1>7, SnapFrame DEF FreeUse, TypeInv
  <1>8. ASSUME NEW t \in Threads, NEW b \in Blocks, FreeBegin(t, b) PROVE SnapInv' /\ CurInv'
    BY <1>0, <1>8, SnapFrame DEF FreeBegin, TypeInv
  <1>9. ASSUME NEW t \in Threads, AllocReadTop(t) PROVE SnapInv' /\ CurInv'
    <2>1. Popping # {} /\ IsFiniteSet(Popping)
      BY <1>9, ThreadsFinite, FS_Subset DEF AllocReadTop, Popping, AllocPop
    <2>2. Cardinality(Popping) \in Nat /\ Cardinality(Popping) # 0
      BY <2>1, FS_EmptySet, FS_CardinalityType
    <2>3. list # <<>>
      BY <2>2 DEF IInv, CountInv
    <2>4. top.node # Null
      BY <1>0, <2>3, TopOfList, ConstantFacts DEF PlaceInv, Null
    <2>5. /\ UNCHANGED <<top, next, clone, nxt, blk>> /\ cur'[t] = top.node
          /\ \A u \in Threads \ {t} : pc'[u] = pc[u] /\ cur'[u] = cur[u]
          /\ pc'[t] = "aNext"
      BY <1>0, <1>9 DEF AllocReadTop, TypeInv
    <2> QED
      BY <1>0, <2>4, <2>5 DEF SnapInv, CurInv
  <1>10. ASSUME NEW t \in Threads, AllocReadNext(t) PROVE SnapInv' /\ CurInv'
    <2>1. /\ UNCHANGED <<top, next, clone, cur, blk>> /\ nxt'[t] = next[cur[t]]
          /\ \A u \in Threads \ {t} : pc'[u] = pc[u] /\ nxt'[u] = nxt[u]
          /\ pc[t] = "aNext" /\ pc'[t] = "aCas"
      BY <1>0, <1>10 DEF AllocReadNext, TypeInv
    <2> QED
      BY <1>0, <2>1 DEF SnapInv, CurInv
  <1>11. ASSUME NEW t \in Threads, FreeLink(t) PROVE SnapInv' /\ CurInv'
    <2>1. /\ UNCHANGED <<top, clone, cur, nxt, blk>>
          /\ \A u \in Threads \ {t} : pc'[u] = pc[u]
          /\ pc[t] = "fLink" /\ pc'[t] = "fCas"
          /\ \A c \in Blocks \ {blk[t]} : next'[c] = next[c]
      BY <1>0, <1>11 DEF FreeLink, TypeInv
    <2>2. blk[t] \in Blocks /\ blk[t] \notin Listed
      BY <1>0, <2>1, ConstantFacts DEF PlaceInv, FreePush, TypeInv, Blocks
    <2>3. next'[blk[t]] = top.node
      BY <1>0, <1>11, <2>2 DEF FreeLink, TypeInv
    <2>4. ASSUME NEW u \in Threads \ {t}, pc[u] = "aCas", clone[u].count = top.count
          PROVE  nxt[u] = next'[top.node]
      <3>1. list # <<>>
        <4>1. Popping # {} /\ IsFiniteSet(Popping)
          BY <2>4, ThreadsFinite, FS_Subset DEF Popping, AllocPop
        <4>2. Cardinality(Popping) \in Nat /\ Cardinality(Popping) # 0
          BY <4>1, FS_EmptySet, FS_CardinalityType
        <4> QED
          BY <4>2 DEF IInv, CountInv
      <3>2. top.node \in Blocks \ {blk[t]}
        BY <1>0, <2>2, <3>1, TopOfList DEF PlaceInv
      <3> QED
        BY <1>0, <2>1, <2>4, <3>2 DEF SnapInv
    <2>5. ASSUME NEW u \in Threads \ {t}, pc[u] = "fCas", clone[u].count = top.count
          PROVE  next'[blk[u]] = top.node
      <3>1. blk[u] \in Blocks \ {blk[t]}
        BY <1>0, <2>1, <2>5, ConstantFacts DEF PlaceInv, FreePush, TypeInv, Blocks
      <3> QED
        BY <1>0, <2>1, <2>5, <3>1 DEF SnapInv
    <2> QED
      BY <1>0, <2>1, <2>3, <2>4, <2>5 DEF SnapInv, CurInv
  <1>12. ASSUME NEW t \in Threads, AllocCas(t) PROVE SnapInv' /\ CurInv'
    <2>1. CASE top = clone[t]
      <3>1. \A u \in Threads : pc'[u] \in HasCount => clone'[u].count # top'.count
        BY <1>0, <1>12, <2>1, SwapFacts, TagSwap
      <3> QED
        BY <1>0, <1>12, <2>1, <3>1, SwapFacts, SnapSwap
    <2>2. CASE top # clone[t]
      BY <1>0, <1>12, <2>2, SnapFrame DEF AllocCas, TypeInv
    <2> QED
      BY <2>1, <2>2
  <1>13. ASSUME NEW t \in Threads, FreeCas(t) PROVE SnapInv' /\ CurInv'
    <2>1. CASE top = clone[t]
      <3>1. \A u \in Threads : pc'[u] \in HasCount => clone'[u].count # top'.count
        BY <1>0, <1>13, <2>1, SwapFacts, TagSwap
      <3> QED
        BY <1>0, <1>13, <2>1, <3>1, SwapFacts, SnapSwap
    <2>2. CASE top # clone[t]
      BY <1>0, <1>13, <2>2, SnapFrame DEF FreeCas, TypeInv
    <2> QED
      BY <2>1, <2>2
  <1>14. CASE UNCHANGED vars
    BY <1>0, <1>14 DEF SnapInv, CurInv
  <1> QED
    BY <1>1, <1>2, <1>3, <1>4, <1>5, <1>6, <1>7, <1>8, <1>9, <1>10, <1>11, <1>12, <1>13, <1>14
    DEF Next, AllocStep, FreeStep

-----------------------------------------------------------------------------
(* The counters.                                                           *)

LEMMA OneMore ==
    ASSUME NEW S, IsFiniteSet(S), NEW x
    PROVE  /\ Cardinality(S) \in Nat
           /\ x \notin S => Cardinality(S \cup {x}) = Cardinality(S) + 1
           /\ x \in S => Cardinality(S \ {x}) = Cardinality(S) - 1
  BY FS_CardinalityType, FS_AddElement, FS_RemoveElement

LEMMA ClassesFinite ==
    /\ IsFiniteSet(Popping) /\ IsFiniteSet(Pushing) /\ IsFiniteSet(Pushed) /\ IsFiniteSet(Making)
    /\ \A S \in SUBSET Blocks : IsFiniteSet(S)
  <1>1. /\ Popping \in SUBSET Threads /\ Pushing \in SUBSET Threads
        /\ Pushed \in SUBSET Threads /\ Making \in SUBSET Threads
    BY DEF Popping, Pushing, Pushed, Making
  <1> QED
    BY <1>1, ThreadsFinite, ConstantFacts, FS_Subset

LEMMA CountFrame ==
    ASSUME CountInv, UNCHANGED <<made, maxCount, useCount, out, list>>,
           Popping' = Popping, Pushing' = Pushing, Pushed' = Pushed, Making' = Making,
           \A u \in Threads : pc'[u] = "aUse" => maxRead'[u] <= maxCount
    PROVE  CountInv'
  BY DEF CountInv

LEMMA CountStep == IInv /\ [Next]_vars => CountInv'
  <1> SUFFICES ASSUME IInv, [Next]_vars PROVE CountInv'
    OBVIOUS
  <1> USE DEF vars, shared, counters, locals, Goto
  <1>0. /\ TypeInv /\ CountInv /\ PlaceInv
        /\ pc \in [Threads -> PoolLabels] /\ maxRead \in [Threads -> Nat]
        /\ made \in Nat /\ maxCount \in Nat /\ useCount \in Int /\ Len(list) \in Nat
    BY DEF IInv, TypeInv
  <1>f. /\ IsFiniteSet(out) /\ IsFiniteSet(Popping) /\ IsFiniteSet(Pushing)
        /\ IsFiniteSet(Pushed) /\ IsFiniteSet(Making)
        /\ Cardinality(out) \in Nat /\ Cardinality(Popping) \in Nat
        /\ Cardinality(Pushing) \in Nat /\ Cardinality(Pushed) \in Nat
        /\ Cardinality(Making) \in Nat
    BY <1>0, ClassesFinite, FS_CardinalityType DEF TypeInv
  <1>k. /\ maxCount = made
        /\ useCount = Cardinality(out) + Cardinality(Pushing) + Cardinality(Pushed)
                      + Cardinality(Popping) + Cardinality(Making)
        /\ made = Cardinality(out) + Cardinality(Pushing) + Len(list)
        /\ Cardinality(Popping) <= Len(list)
    BY <1>0 DEF CountInv
  <1>n. /\ Cardinality(out) \in Nat /\ Cardinality(Popping) \in Nat
        /\ Cardinality(Pushing) \in Nat /\ Cardinality(Pushed) \in Nat
        /\ Cardinality(Making) \in Nat
        /\ made \in Nat /\ maxCount \in Nat /\ useCount \in Int /\ Len(list) \in Nat
    BY <1>0, <1>f
  <1>1. ASSUME NEW t \in Threads, AllocTag(t) PROVE CountInv'
    <2>1. Popping' = Popping /\ Pushing' = Pushing /\ Pushed' = Pushed /\ Making' = Making
      BY <1>0, <1>1 DEF AllocTag, Popping, Pushing, Pushed, Making, AllocPop, FreePush
    <2>2. \A u \in Threads : pc'[u] = "aUse" => maxRead'[u] <= maxCount
      BY <1>0, <1>1 DEF AllocTag, CountInv
    <2> QED
      BY <1>0, <1>1, <2>1, <2>2, CountFrame DEF AllocTag
  <1>2. ASSUME NEW t \in Threads, ReadNode(t) PROVE CountInv'
    <2>1. Popping' = Popping /\ Pushing' = Pushing /\ Pushed' = Pushed /\ Making' = Making
      BY <1>0, <1>2 DEF ReadNode, Popping, Pushing, Pushed, Making, AllocPop, FreePush
    <2>2. \A u \in Threads : pc'[u] = "aUse" => maxRead'[u] <= maxCount
      BY <1>0, <1>2 DEF ReadNode, CountInv
    <2> QED
      BY <1>0, <1>2, <2>1, <2>2, CountFrame DEF ReadNode
  <1>3. ASSUME NEW t \in Threads, ReadCount(t) PROVE CountInv'
    <2>1. Popping' = Popping /\ Pushing' = Pushing /\ Pushed' = Pushed /\ Making' = Making
      BY <1>0, <1>3 DEF ReadCount, Popping, Pushing, Pushed, Making, AllocPop, FreePush
    <2>2. \A u \in Threads : pc'[u] = "aUse" => maxRead'[u] <= maxCount
      BY <1>0, <1>3 DEF ReadCount, CountInv
    <2> QED
      BY <1>0, <1>3, <2>1, <2>2, CountFrame DEF ReadCount
  <1>4. ASSUME NEW t \in Threads, AllocReadTop(t) PROVE CountInv'
    <2>1. Popping' = Popping /\ Pushing' = Pushing /\ Pushed' = Pushed /\ Making' = Making
      BY <1>0, <1>4 DEF AllocReadTop, Popping, Pushing, Pushed, Making, AllocPop, FreePush
    <2>2. \A u \in Threads : pc'[u] = "aUse" => maxRead'[u] <= maxCount
      BY <1>0, <1>4 DEF AllocReadTop, CountInv
    <2> QED
      BY <1>0, <1>4, <2>1, <2>2, CountFrame DEF AllocReadTop
  <1>5. ASSUME NEW t \in Threads, AllocReadNext(t) PROVE CountInv'
    <2>1. Popping' = Popping /\ Pushing' = Pushing /\ Pushed' = Pushed /\ Making' = Making
      BY <1>0, <1>5 DEF AllocReadNext, Popping, Pushing, Pushed, Making, AllocPop, FreePush
    <2>2. \A u \in Threads : pc'[u] = "aUse" => maxRead'[u] <= maxCount
      BY <1>0, <1>5 DEF AllocReadNext, CountInv
    <2> QED
      BY <1>0, <1>5, <2>1, <2>2, CountFrame DEF AllocReadNext
  <1>6. ASSUME NEW t \in Threads, FreeLink(t) PROVE CountInv'
    <2>1. Popping' = Popping /\ Pushing' = Pushing /\ Pushed' = Pushed /\ Making' = Making
      BY <1>0, <1>6 DEF FreeLink, Popping, Pushing, Pushed, Making, AllocPop, FreePush
    <2>2. \A u \in Threads : pc'[u] = "aUse" => maxRead'[u] <= maxCount
      BY <1>0, <1>6 DEF FreeLink, CountInv
    <2> QED
      BY <1>0, <1>6, <2>1, <2>2, CountFrame DEF FreeLink
  <1>7. ASSUME NEW t \in Threads, AllocBegin(t) PROVE CountInv'
    <2>1. Popping' = Popping /\ Pushing' = Pushing /\ Pushed' = Pushed /\ Making' = Making
      BY <1>0, <1>7 DEF AllocBegin, Popping, Pushing, Pushed, Making, AllocPop, FreePush
    <2>2. \A u \in Threads : pc'[u] = "aUse" => maxRead'[u] <= maxCount
      BY <1>0, <1>7 DEF AllocBegin, CountInv
    <2> QED
      BY <1>0, <1>7, <2>1, <2>2, CountFrame DEF AllocBegin
  <1>8. ASSUME NEW t \in Threads, AllocUse(t) PROVE CountInv'
    <2>1. /\ pc[t] = "aUse" /\ useCount' = useCount + 1 /\ UNCHANGED <<made, maxCount, out, list>>
          /\ maxRead[t] \in Nat /\ maxRead[t] <= maxCount
      BY <1>0, <1>8 DEF AllocUse, CountInv
    <2>2. \A u \in Threads : pc'[u] = "aUse" => maxRead'[u] <= maxCount
      BY <1>0, <1>8 DEF AllocUse, CountInv
    <2>3. Pushing' = Pushing /\ Pushed' = Pushed
      BY <1>0, <1>8 DEF AllocUse, Pushing, Pushed, FreePush
    <2>4. CASE maxRead[t] < useCount + 1
      <3>1. Popping' = Popping /\ Making' = Making \cup {t} /\ t \notin Making
        BY <1>0, <1>8, <2>4 DEF AllocUse, Popping, Making, AllocPop
      <3>2. Cardinality(Making') = Cardinality(Making) + 1
        BY <1>f, <3>1, OneMore
      <3> QED
        <4>s. /\ made' = made /\ maxCount' = maxCount /\ useCount' = useCount + 1
              /\ Len(list') = Len(list) /\ Cardinality(out') = Cardinality(out)
          BY <2>1
        <4>c. /\ Cardinality(Pushing') = Cardinality(Pushing) /\ Cardinality(Pushed') = Cardinality(Pushed)
              /\ Cardinality(Popping') = Cardinality(Popping)
          BY <2>3, <3>1
        <4>1. useCount' = Cardinality(out') + Cardinality(Pushing') + Cardinality(Pushed')
                            + Cardinality(Popping') + Cardinality(Making')
          BY SMTT(30), <1>n, <1>k, <4>s, <4>c, <3>2
        <4>2. /\ made' = Cardinality(out') + Cardinality(Pushing') + Len(list')
              /\ Cardinality(Popping') <= Len(list') /\ maxCount' = made'
          BY <1>n, <1>k, <4>s, <4>c
        <4> QED
          BY <4>1, <4>2, <2>1, <2>2 DEF CountInv
    <2>5. CASE ~(maxRead[t] < useCount + 1)
      <3>1. Making' = Making /\ Popping' = Popping \cup {t} /\ t \notin Popping
        BY <1>0, <1>8, <2>5 DEF AllocUse, Popping, Making, AllocPop
      <3>2. Cardinality(Popping') = Cardinality(Popping) + 1
        BY <1>f, <3>1, OneMore
      <3>3. useCount + 1 <= made
        BY <1>0, <2>1, <2>5 DEF CountInv
      <3>4. Cardinality(Popping) + 1 <= Len(list)
        BY <1>n, <1>k, <3>3
      <3> QED
        <4>s. /\ made' = made /\ maxCount' = maxCount /\ useCount' = useCount + 1
              /\ Len(list') = Len(list) /\ Cardinality(out') = Cardinality(out)
          BY <2>1
        <4>c. /\ Cardinality(Pushing') = Cardinality(Pushing) /\ Cardinality(Pushed') = Cardinality(Pushed)
              /\ Cardinality(Making') = Cardinality(Making)
          BY <2>3, <3>1
        <4>1. useCount' = Cardinality(out') + Cardinality(Pushing') + Cardinality(Pushed')
                            + Cardinality(Popping') + Cardinality(Making')
          BY <1>n, <1>k, <4>s, <4>c, <3>2
        <4>2. /\ made' = Cardinality(out') + Cardinality(Pushing') + Len(list')
              /\ Cardinality(Popping') <= Len(list') /\ maxCount' = made'
          BY <1>n, <1>k, <4>s, <4>c, <3>2, <3>4
        <4> QED
          BY <4>1, <4>2, <2>1, <2>2 DEF CountInv
    <2> QED
      BY <2>4, <2>5
  <1>9. ASSUME NEW t \in Threads, AllocMake(t) PROVE CountInv'
    <2>1. /\ made' = made + 1 /\ maxCount' = maxCount + 1 /\ out' = out \cup {made + 1}
          /\ UNCHANGED <<useCount, list>>
      BY <1>9 DEF AllocMake
    <2>2. Cardinality(out') = Cardinality(out) + 1
      <3>1. made + 1 \notin out
        BY <1>0 DEF PlaceInv
      <3> QED
        BY <1>f, <2>1, <3>1, OneMore
    <2>3. /\ Popping' = Popping /\ Pushing' = Pushing /\ Pushed' = Pushed
          /\ Making' = Making \ {t} /\ t \in Making
      BY <1>0, <1>9 DEF AllocMake, Popping, Pushing, Pushed, Making, AllocPop, FreePush
    <2>4. Cardinality(Making') = Cardinality(Making) - 1
      BY <1>f, <2>3, OneMore
    <2>5. \A u \in Threads : pc'[u] = "aUse" => maxRead'[u] <= maxCount'
      BY <1>0, <1>9 DEF AllocMake, CountInv
    <2>s. made' = made + 1 /\ maxCount' = maxCount + 1 /\ useCount' = useCount /\ Len(list') = Len(list)
      BY <2>1
    <2>c. /\ Cardinality(Popping') = Cardinality(Popping) /\ Cardinality(Pushing') = Cardinality(Pushing)
          /\ Cardinality(Pushed') = Cardinality(Pushed)
      BY <2>3
    <2>6. useCount' = Cardinality(out') + Cardinality(Pushing') + Cardinality(Pushed')
                        + Cardinality(Popping') + Cardinality(Making')
      <3>1. useCount = Cardinality(out) + Cardinality(Pushing) + Cardinality(Pushed)
                       + Cardinality(Popping) + Cardinality(Making)
        BY <1>k
      <3>2. useCount' = (Cardinality(out) + 1) + Cardinality(Pushing) + Cardinality(Pushed)
                        + Cardinality(Popping) + (Cardinality(Making) - 1)
        BY <1>f, <2>s, <3>1
      <3> QED
        BY <2>c, <2>2, <2>4, <3>2
    <2>7. made' = Cardinality(out') + Cardinality(Pushing') + Len(list')
      BY <1>f, <1>k, <2>s, <2>c, <2>2, <2>4
    <2>8. Cardinality(Popping') <= Len(list') /\ maxCount' = made'
      BY <1>f, <1>k, <2>s, <2>c, <2>2, <2>4
    <2> QED
      BY <2>6, <2>7, <2>8, <2>1, <2>5 DEF CountInv
  <1>10. ASSUME NEW t \in Threads, AllocCas(t) PROVE CountInv'
    <2>1. CASE top = clone[t]
      <3>1. /\ list # <<>> /\ list' = Tail(list) /\ next' = next /\ top'.node = next[top.node]
            /\ out' = out \cup {top.node} /\ UNCHANGED <<made, maxCount, useCount>>
            /\ top.node \in Listed
        BY <1>10, <2>1, PopTop DEF AllocCas
      <3>0. top.node \notin out
        BY <1>0, <3>1 DEF PlaceInv
      <3>2. Len(list') = Len(list) - 1
        BY <1>0, <3>1, ListPop DEF PlaceInv
      <3>3. Cardinality(out') = Cardinality(out) + 1
        BY <1>f, <3>0, <3>1, OneMore
      <3>4. /\ Making' = Making /\ Pushing' = Pushing /\ Pushed' = Pushed
            /\ Popping' = Popping \ {t} /\ t \in Popping
        BY <1>0, <1>10, <2>1 DEF AllocCas, Popping, Pushing, Pushed, Making, AllocPop, FreePush
      <3>5. Cardinality(Popping') = Cardinality(Popping) - 1
        BY <1>f, <3>4, OneMore
      <3>6. \A u \in Threads : pc'[u] = "aUse" => maxRead'[u] <= maxCount
        BY <1>0, <1>10, <2>1 DEF AllocCas, CountInv
      <3>s. UNCHANGED <<made, maxCount, useCount>>
        BY <3>1
      <3>c. /\ Cardinality(Making') = Cardinality(Making) /\ Cardinality(Pushing') = Cardinality(Pushing)
            /\ Cardinality(Pushed') = Cardinality(Pushed)
        BY <3>4
      <3>7. useCount' = Cardinality(out') + Cardinality(Pushing') + Cardinality(Pushed')
                          + Cardinality(Popping') + Cardinality(Making')
        BY <1>n, <1>k, <3>s, <3>c, <3>2, <3>3, <3>5
      <3>8. made' = Cardinality(out') + Cardinality(Pushing') + Len(list')
        BY <1>n, <1>k, <3>s, <3>c, <3>2, <3>3, <3>5
      <3>9. Cardinality(Popping') <= Len(list') /\ maxCount' = made'
        BY <1>n, <1>k, <3>s, <3>c, <3>2, <3>3, <3>5
      <3> QED
        BY <3>7, <3>8, <3>9, <3>1, <3>6 DEF CountInv
    <2>2. CASE top # clone[t]
      <3>1. Popping' = Popping /\ Pushing' = Pushing /\ Pushed' = Pushed /\ Making' = Making
        BY <1>0, <1>10, <2>2 DEF AllocCas, Popping, Pushing, Pushed, Making, AllocPop, FreePush
      <3>2. \A u \in Threads : pc'[u] = "aUse" => maxRead'[u] <= maxCount
        BY <1>0, <1>10, <2>2 DEF AllocCas, CountInv
      <3> QED
        BY <1>0, <1>10, <2>2, <3>1, <3>2, CountFrame DEF AllocCas
    <2> QED
      BY <2>1, <2>2
  <1>11. ASSUME NEW t \in Threads, NEW b \in Blocks, FreeBegin(t, b) PROVE CountInv'
    <2>1. b \in out /\ out' = out \ {b} /\ UNCHANGED <<made, maxCount, useCount, list>>
      BY <1>11 DEF FreeBegin
    <2>2. Cardinality(out') = Cardinality(out) - 1
      BY <1>f, <2>1, OneMore
    <2>3. /\ Popping' = Popping /\ Making' = Making /\ Pushed' = Pushed
          /\ Pushing' = Pushing \cup {t} /\ t \notin Pushing
      BY <1>0, <1>11 DEF FreeBegin, Popping, Pushing, Pushed, Making, AllocPop, FreePush
    <2>4. Cardinality(Pushing') = Cardinality(Pushing) + 1
      BY <1>f, <2>3, OneMore
    <2>5. \A u \in Threads : pc'[u] = "aUse" => maxRead'[u] <= maxCount
      BY <1>0, <1>11 DEF FreeBegin, CountInv
    <2>s. made' = made /\ maxCount' = maxCount /\ useCount' = useCount /\ Len(list') = Len(list)
      BY <2>1
    <2>c. /\ Cardinality(Popping') = Cardinality(Popping) /\ Cardinality(Making') = Cardinality(Making)
          /\ Cardinality(Pushed') = Cardinality(Pushed)
      BY <2>3
    <2>6. useCount' = Cardinality(out') + Cardinality(Pushing') + Cardinality(Pushed')
                        + Cardinality(Popping') + Cardinality(Making')
      BY <1>n, <1>k, <2>s, <2>c, <2>2, <2>4
    <2>7. /\ made' = Cardinality(out') + Cardinality(Pushing') + Len(list')
          /\ Cardinality(Popping') <= Len(list') /\ maxCount' = made'
      BY <1>n, <1>k, <2>s, <2>c, <2>2, <2>4
    <2> QED
      BY <2>6, <2>7, <2>1, <2>5 DEF CountInv
  <1>12. ASSUME NEW t \in Threads, FreeCas(t) PROVE CountInv'
    <2>1. CASE top = clone[t]
      <3>1. list' = <<blk[t]>> \o list /\ UNCHANGED <<made, maxCount, useCount, out>>
        BY <1>12, <2>1 DEF FreeCas
      <3>2. Len(list') = Len(list) + 1
        BY <1>0, <3>1 DEF TypeInv
      <3>3. /\ Making' = Making /\ Popping' = Popping
            /\ Pushing' = Pushing \ {t} /\ t \in Pushing
            /\ Pushed' = Pushed \cup {t} /\ t \notin Pushed
        BY <1>0, <1>12, <2>1 DEF FreeCas, Popping, Pushing, Pushed, Making, AllocPop, FreePush
      <3>4. Cardinality(Pushing') = Cardinality(Pushing) - 1
        BY <1>f, <3>3, OneMore
      <3>5. Cardinality(Pushed') = Cardinality(Pushed) + 1
        BY <1>f, <3>3, OneMore
      <3>6. \A u \in Threads : pc'[u] = "aUse" => maxRead'[u] <= maxCount
        BY <1>0, <1>12, <2>1 DEF FreeCas, CountInv
      <3>s. made' = made /\ maxCount' = maxCount /\ useCount' = useCount
        BY <3>1
      <3>c. /\ Cardinality(out') = Cardinality(out) /\ Cardinality(Making') = Cardinality(Making)
            /\ Cardinality(Popping') = Cardinality(Popping)
        BY <3>1, <3>3
      <3>7. useCount' = Cardinality(out') + Cardinality(Pushing') + Cardinality(Pushed')
                          + Cardinality(Popping') + Cardinality(Making')
        BY <1>n, <1>k, <3>s, <3>c, <3>2, <3>4, <3>5
      <3>8. made' = Cardinality(out') + Cardinality(Pushing') + Len(list')
        BY SMTT(30), <1>n, <1>k, <3>s, <3>c, <3>2, <3>4, <3>5
      <3>9. Cardinality(Popping') <= Len(list') /\ maxCount' = made'
        BY <1>n, <1>k, <3>s, <3>c, <3>2, <3>4, <3>5
      <3> QED
        BY <3>7, <3>8, <3>9, <3>1, <3>6 DEF CountInv
    <2>2. CASE top # clone[t]
      <3>1. Popping' = Popping /\ Pushing' = Pushing /\ Pushed' = Pushed /\ Making' = Making
        BY <1>0, <1>12, <2>2 DEF FreeCas, Popping, Pushing, Pushed, Making, AllocPop, FreePush
      <3>2. \A u \in Threads : pc'[u] = "aUse" => maxRead'[u] <= maxCount
        BY <1>0, <1>12, <2>2 DEF FreeCas, CountInv
      <3> QED
        BY <1>0, <1>12, <2>2, <3>1, <3>2, CountFrame DEF FreeCas
    <2> QED
      BY <2>1, <2>2
  <1>13. ASSUME NEW t \in Threads, FreeUse(t) PROVE CountInv'
    <2>1. useCount' = useCount - 1 /\ UNCHANGED <<made, maxCount, out, list>>
      BY <1>13 DEF FreeUse
    <2>2. /\ Popping' = Popping /\ Making' = Making /\ Pushing' = Pushing
          /\ Pushed' = Pushed \ {t} /\ t \in Pushed
      BY <1>0, <1>13 DEF FreeUse, Popping, Pushing, Pushed, Making, AllocPop, FreePush
    <2>3. Cardinality(Pushed') = Cardinality(Pushed) - 1
      BY <1>f, <2>2, OneMore
    <2>4. \A u \in Threads : pc'[u] = "aUse" => maxRead'[u] <= maxCount
      BY <1>0, <1>13 DEF FreeUse, CountInv
    <2>s. made' = made /\ maxCount' = maxCount /\ useCount' = useCount - 1 /\ Len(list') = Len(list)
      BY <2>1
    <2>c. /\ Cardinality(out') = Cardinality(out) /\ Cardinality(Popping') = Cardinality(Popping)
          /\ Cardinality(Making') = Cardinality(Making) /\ Cardinality(Pushing') = Cardinality(Pushing)
      BY <2>1, <2>2
    <2>5. useCount' = Cardinality(out') + Cardinality(Pushing') + Cardinality(Pushed')
                        + Cardinality(Popping') + Cardinality(Making')
      BY SMTT(30), <1>n, <1>k, <2>s, <2>c, <2>3
    <2>6. /\ made' = Cardinality(out') + Cardinality(Pushing') + Len(list')
          /\ Cardinality(Popping') <= Len(list') /\ maxCount' = made'
      BY <1>n, <1>k, <2>s, <2>c
    <2> QED
      BY <2>5, <2>6, <2>1, <2>4 DEF CountInv
  <1>14. CASE UNCHANGED vars
    BY <1>0, <1>14 DEF CountInv, Popping, Pushing, Pushed, Making, AllocPop, FreePush
  <1> QED
    BY <1>1, <1>2, <1>3, <1>4, <1>5, <1>6, <1>7, <1>8, <1>9, <1>10, <1>11, <1>12, <1>13, <1>14
    DEF Next, AllocStep, FreeStep

-----------------------------------------------------------------------------
(* The theorems.                                                           *)

THEOREM IndInv == Spec => []IInv
  <1>1. IInv /\ [Next]_vars => IInv'
    BY TypeStep, PlaceStep, CountStep, TagStep, SnapStep DEF IInv
  <1> QED
    BY InitInv, <1>1, PTL DEF Spec

\* TypeOK: every variable keeps its type; m_lUseCount in particular never goes below zero.
THEOREM TypeCorrect == Spec => []TypeOK
  <1>1. IInv => TypeOK
    <2> SUFFICES ASSUME IInv PROVE TypeOK
      OBVIOUS
    <2>1. /\ TypeInv /\ CountInv
      BY DEF IInv
    <2>2. /\ Cardinality(out) \in Nat /\ Cardinality(Popping) \in Nat
          /\ Cardinality(Pushing) \in Nat /\ Cardinality(Pushed) \in Nat
          /\ Cardinality(Making) \in Nat
      BY <2>1, ClassesFinite, FS_CardinalityType DEF TypeInv
    <2>3. useCount = Cardinality(out) + Cardinality(Pushing) + Cardinality(Pushed)
                     + Cardinality(Popping) + Cardinality(Making)
      BY <2>1 DEF CountInv
    <2>4. useCount \in Nat
      BY <2>2, <2>3
    <2> QED
      BY <2>1, <2>4 DEF TypeInv, TypeOK
  <1> QED
    BY IndInv, <1>1, PTL

\* EnoughForAll: an Alloc that pops never finds the list empty, however many threads
\* allocate and free, because it read the limit before it counted itself.
THEOREM NeverEmpty == Spec => []EnoughForAll
  <1>1. IInv => EnoughForAll
    BY DEF IInv, CountInv, CurInv, EnoughForAll
  <1> QED
    BY IndInv, <1>1, PTL

\* ListIntact: the links from the top are the free blocks, in order, without a cycle.
THEOREM ListCorrect == Spec => []ListIntact
  <1>1. IInv => ListIntact
    BY DEF IInv, PlaceInv
  <1> QED
    BY IndInv, <1>1, PTL

\* EachBlockOnce: no block is lost and none is in two places.
THEOREM NoneLost == Spec => []EachBlockOnce
  <1>1. IInv => EachBlockOnce
    BY DEF IInv, PlaceInv, CountInv, EachBlockOnce, Pushing
  <1> QED
    BY IndInv, <1>1, PTL

\* CountersAgree: m_lMaxCount and m_lUseCount count the blocks made and in use.
THEOREM CountersCorrect == Spec => []CountersAgree
  <1>1. IInv => CountersAgree
    BY DEF IInv, CountInv, CountersAgree
  <1> QED
    BY IndInv, <1>1, PTL

-----------------------------------------------------------------------------
(* The pool implements ObjectPool.                                         *)

Held == out \cup {blk[t] : t \in Pushing}

\* Steps that move no block between the users and the list.
LEMMA HeldFrame ==
    ASSUME UNCHANGED <<out, blk>>, Pushing' = Pushing
    PROVE  Held' = Held
  BY DEF Held

LEMMA PoolInit == Init => Pool!Init
  BY DEF Init, Pool!Init, Pushing, AllocPop, FreePush

LEMMA PoolStep == IInv /\ [Next]_vars => [Pool!Next]_Held
  <1> SUFFICES ASSUME IInv, [Next]_vars PROVE [Pool!Next]_Held
    OBVIOUS
  <1> USE DEF vars, shared, counters, locals, Goto
  <1>0. TypeInv /\ PlaceInv /\ pc \in [Threads -> PoolLabels]
    BY DEF IInv, TypeInv
  <1>a. ASSUME NEW b \in Blocks, b \notin Held, Held' = Held \cup {b} PROVE Pool!Next
    BY <1>a DEF Held, Pool!Next, Pool!Alloc
  <1>b. ASSUME NEW b \in Blocks, b \in Held, Held' = Held \ {b} PROVE Pool!Next
    BY <1>b DEF Held, Pool!Next, Pool!Free
  <1>1. ASSUME NEW t \in Threads,
               \/ AllocBegin(t) \/ AllocUse(t) \/ AllocTag(t) \/ ReadNode(t) \/ ReadCount(t)
               \/ AllocReadTop(t) \/ AllocReadNext(t) \/ FreeLink(t) \/ FreeUse(t)
               \/ AllocCas(t) /\ top # clone[t]
               \/ FreeCas(t) /\ top # clone[t]
        PROVE  Held' = Held
    <2>1. UNCHANGED <<out, blk>>
      BY <1>1 DEF AllocBegin, AllocUse, AllocTag, ReadNode, ReadCount, AllocReadTop,
                  AllocReadNext, FreeLink, FreeUse, AllocCas, FreeCas
    <2>2. \A u \in Threads : pc'[u] \in FreePush <=> pc[u] \in FreePush
      BY <1>0, <1>1 DEF AllocBegin, AllocUse, AllocTag, ReadNode, ReadCount, AllocReadTop,
                  AllocReadNext, FreeLink, FreeUse, AllocCas, FreeCas, FreePush
    <2>3. Pushing' = Pushing
      BY <2>2 DEF Pushing
    <2> QED
      BY <2>1, <2>3, HeldFrame
  <1>2. ASSUME NEW t \in Threads, AllocMake(t) PROVE Pool!Next
    <2>1. /\ made + 1 \in Blocks /\ out' = out \cup {made + 1} /\ blk' = blk
          /\ Pushing' = Pushing
      <3>1. made + 1 \in Blocks
        BY <1>0, <1>2, ConstantFacts DEF AllocMake, Blocks, TypeInv
      <3>2. \A u \in Threads : pc'[u] \in FreePush <=> pc[u] \in FreePush
        BY <1>0, <1>2 DEF AllocMake, FreePush
      <3> QED
        BY <1>2, <3>1, <3>2 DEF AllocMake, Pushing
    <2>2. made + 1 \notin Held
      BY <1>0 DEF PlaceInv, TypeInv, Held, Pushing
    <2> QED
      BY <1>a, <2>1, <2>2 DEF Held
  <1>3. ASSUME NEW t \in Threads, AllocCas(t), top = clone[t] PROVE Pool!Next
    <2>1. top.node \in Blocks /\ top.node \in Listed /\ out' = out \cup {top.node}
      BY <1>3, PopTop DEF AllocCas
    <2>2. top.node \notin Held
      BY <1>0, <2>1 DEF PlaceInv, Held, Pushing
    <2>3. Pushing' = Pushing /\ \A u \in Pushing : blk'[u] = blk[u]
      BY <1>0, <1>3 DEF AllocCas, Forget, TypeInv, Pushing, FreePush
    <2>4. {blk'[u] : u \in Pushing'} = {blk[u] : u \in Pushing}
      BY <2>3
    <2> QED
      BY <1>a, <2>1, <2>2, <2>4 DEF Held
  <1>4. ASSUME NEW t \in Threads, NEW b \in Blocks, FreeBegin(t, b) PROVE Held' = Held
    <2>1. /\ b \in out /\ out' = out \ {b} /\ blk'[t] = b
          /\ Pushing' = Pushing \cup {t} /\ t \notin Pushing
          /\ \A u \in Pushing : blk'[u] = blk[u]
      BY <1>0, <1>4 DEF FreeBegin, TypeInv, Pushing, FreePush
    <2>2. {blk'[u] : u \in Pushing'} = {blk[u] : u \in Pushing} \cup {b}
      BY <2>1
    <2> QED
      BY <2>1, <2>2 DEF Held
  <1>5. ASSUME NEW t \in Threads, FreeCas(t), top = clone[t] PROVE Pool!Next
    <2>1. /\ t \in Pushing /\ Pushing' = Pushing \ {t} /\ out' = out
          /\ \A u \in Pushing \ {t} : blk'[u] = blk[u]
      BY <1>0, <1>5 DEF FreeCas, Forget, TypeInv, Pushing, FreePush
    <2>2. /\ blk[t] \in Blocks /\ blk[t] \notin out
          /\ \A u \in Pushing \ {t} : blk[u] # blk[t]
      BY <1>0, <2>1, ConstantFacts DEF PlaceInv, TypeInv, Pushing, Blocks
    <2>3. {blk'[u] : u \in Pushing'} = {blk[u] : u \in Pushing} \ {blk[t]}
      BY <2>1, <2>2
    <2>4. Held' = Held \ {blk[t]} /\ blk[t] \in Held
      BY <2>1, <2>2, <2>3 DEF Held
    <2> QED
      BY <1>b, <2>2, <2>4
  <1>6. CASE UNCHANGED vars
    BY <1>6, HeldFrame DEF Pushing
  <1> QED
    BY <1>1, <1>2, <1>3, <1>4, <1>5, <1>6 DEF Next, AllocStep, FreeStep

\* PoolSpec: a block belongs to one user at a time.  A block comes from the pool when it
\* is made or when the swap in Alloc succeeds, and is back when the swap in Free does.
THEOREM ImplementsPool == Spec => PoolSpec
  <1>1. IInv /\ [Next]_vars => [Pool!Next]_(out \cup {blk[t] : t \in Pushing})
    BY PoolStep DEF Held
  <1> QED
    BY IndInv, PoolInit, <1>1, PTL DEF Spec, PoolSpec, Pool!Spec
=============================================================================
